--------------------------- MODULE LinkConversion ---------------------------
(***************************************************************************)
(* One proxy server in the forms the program gives it:                     *)
(*                                                                         *)
(*   link      a share link: a scheme and its parameters (the keys of the  *)
(*             JSON payload for vmess)                                     *)
(*   outbound  what the probe and the proxy hand to sing-box (probe.rs)    *)
(*   entry     an item of a Clash/Mihomo `proxies:` list, read from feeds  *)
(*             and written by the /mihomo export (convert.rs)              *)
(*   xray      an outbound of an Xray JSON configuration (parser/xray.rs)  *)
(*                                                                         *)
(* A form is a record of two halves that are converted apart.  Its `opts`  *)
(* is a partial function from the option names to values; nested options   *)
(* carry their path in the name, and a value is there only when it is not  *)
(* empty.  Its `account` is the server and who the client is there: `user` *)
(* is the id or the password, `pass` the second secret of tuic.  A         *)
(* conversion that can be refused returns a set with at most one member.   *)
(*                                                                         *)
(* Options are percent- or base64-coded by each writer and decoded by each *)
(* reader, and the account of vmess and Shadowsocks is inside base64: this *)
(* coding is left out.  The account of the other schemes is written raw by *)
(* some and coded by others, and every reader decodes it: that is modelled *)
(* by the few characters the two sides treat apart.  Left out are a '+' in *)
(* a query, which only the exports of hysteria2 and tuic do not take for a *)
(* blank, line breaks, which a URL parser drops, and a raw password that   *)
(* itself goes on like @host:port/.                                        *)
(***************************************************************************)
EXTENDS Naturals, Sequences, FiniteSets

NoText == ""                \* what an absent text is read as

CONSTANTS
    LowerCase(_),           \* a text in lower case
    CharsOf(_),             \* those of the following characters a text has:
                            \*   "/"   ends the user part, coded or not
                            \*   "?"   ('?' or '#') ends it unless coded
                            \*   ":"   separates user and password; in a
                            \*         server, an IPv6 address in no brackets
                            \*   "%"   begins a percent code
                            \*   " "   a blank at one of the ends
    BeforeColon(_), PercentDecoded(_), Trimmed(_)

(* The words the conversions compare with are in lower case themselves.    *)
ASSUME LowerWords ==
    \A w \in {NoText, "tls", "reality", "none", "false", "0", "1", "true", "yes", "y",
              "tcp", "ws", "websocket", "grpc", "h2", "http", "httpupgrade", "unknown"} :
        LowerCase(w) = w

NoOpts == <<>>
Option(key, value) == [k \in {key} |-> value]

(* The options of both; what both set is as in the first.                  *)
a ++ b == [k \in DOMAIN a \cup DOMAIN b |-> IF k \in DOMAIN a THEN a[k] ELSE b[k]]

(* The first of several alternative keys that is present.                  *)
Has(opts, keys) == \E i \in DOMAIN keys : keys[i] \in DOMAIN opts
FirstParam(opts, keys) ==
    opts[keys[CHOOSE i \in DOMAIN keys :
                /\ keys[i] \in DOMAIN opts
                /\ \A j \in 1 .. i - 1 : keys[j] \notin DOMAIN opts]]
ParamOr(opts, keys, default) ==
    IF Has(opts, keys) THEN FirstParam(opts, keys) ELSE default

(* The options of `opts` under their new names: table maps each new name   *)
(* to the alternatives it is read from.                                    *)
Renamed(opts, table) ==
    [k \in {t \in DOMAIN table : Has(opts, table[t])} |->
        FirstParam(opts, table[k])]
When(condition, more) == IF condition THEN more ELSE NoOpts

Truthy(value) == LowerCase(value) \in {"1", "true", "yes", "y"}
Flag(opts, keys) == Has(opts, keys) /\ Truthy(FirstParam(opts, keys))

(* The part of a URL before the '@', as its parser finds it in a text that *)
(* is written there as it is, and in one that is coded but for '/'.  A cut *)
(* user part leaves a URL with no port or no user: no reader takes it.     *)
Cut(text) == IF ":" \in CharsOf(text) THEN BeforeColon(text) ELSE text
Decoded(text) == IF "%" \in CharsOf(text) THEN PercentDecoded(text) ELSE text
Trim(text) == IF " " \in CharsOf(text) THEN Trimmed(text) ELSE text
RawUser(text) ==
    IF CharsOf(text) \cap {"/", "?"} = {} THEN {Decoded(Cut(text))} ELSE {}
CodedUser(text) == IF "/" \in CharsOf(text) THEN {} ELSE {text}

UserTypes == {"vless", "trojan"}
QuicTypes == {"hysteria2", "hy2", "tuic"}
UrlTypes == UserTypes \cup QuicTypes    \* the links a URL parser reads

InsecureKeys == <<"allowInsecure", "insecure", "skip-cert-verify">>
SniKeys == <<"sni", "serverName", "peer">>

-----------------------------------------------------------------------------
(* Link to sing-box outbound.                                              *)

(* The key and the short id of Reality must decode; a value of the inputs  *)
(* that does not is "bad".                                                 *)
ValidReality(opts) ==
    /\ ParamOr(opts, <<"pbk", "public_key", "reality_pbk">>, NoText) # "bad"
    /\ ParamOr(opts, <<"sid", "short_id">>, NoText) # "bad"

(* An absent fingerprint becomes chrome for every TLS outbound.            *)
TlsValues(serverName, from, reality) ==
    Option("tls", "true") ++ Option("server_name", serverName)
    ++ When(Flag(from, InsecureKeys), Option("insecure", "true"))
    ++ Renamed(from, [alpn |-> <<"alpn">>])
    ++ Option("fingerprint", ParamOr(from, <<"fp", "fingerprint">>, "chrome"))
    ++ Renamed(reality, [public_key |-> <<"pbk", "public_key", "reality_pbk">>])
    ++ When(Has(reality, <<"pbk", "public_key", "reality_pbk">>),
            Renamed(reality, [short_id |-> <<"sid", "short_id">>]))

(* TLS of the schemes that carry it in the query.                          *)
TlsConfig(opts, defaultEnabled) ==
    LET security == LowerCase(ParamOr(opts, <<"security", "tls">>, NoText))
        realityKey == Has(opts, <<"pbk", "public_key", "reality_pbk">>)
        enabled == defaultEnabled \/ security \in {"tls", "reality"} \/ realityKey
        isReality == security = "reality" \/ (security = NoText /\ realityKey)
    IN  IF ~enabled \/ security = "none" THEN {NoOpts}
        ELSE IF isReality /\ ~ValidReality(opts) THEN {}
        ELSE {TlsValues(ParamOr(opts, SniKeys, "server"), opts,
                        IF isReality THEN opts ELSE NoOpts)}

TransportConfig(opts) ==
    LET type == LowerCase(ParamOr(opts, <<"type", "net", "network">>, "tcp"))
        pathHost == Renamed(opts, [path |-> <<"path">>, host |-> <<"host">>])
    IN  CASE type = "tcp" -> {NoOpts}
          [] type \in {"ws", "websocket"} -> {Option("transport", "ws") ++ pathHost}
          [] type = "grpc" ->
               {Option("transport", "grpc")
                ++ Renamed(opts, [service |-> <<"serviceName", "service_name">>])}
          [] type \in {"h2", "http"} -> {Option("transport", "http") ++ pathHost}
          [] type = "httpupgrade" -> {Option("transport", "httpupgrade") ++ pathHost}
          [] OTHER -> {}

OutboundWith(type, opts) == [type |-> type, opts |-> opts]

VlessFlow(opts) ==
    LET flow == LowerCase(ParamOr(opts, <<"flow">>, "none"))
    IN  CASE flow = "none" -> {NoOpts}
          [] flow = "xtls-rprx-vision" -> {Option("flow", flow)}
          [] OTHER -> {}

StandardOutbound(scheme, opts) ==
    LET tlsOrDefault(t) == IF t = NoOpts THEN Option("tls", "true") ELSE t
    IN  CASE scheme = "vless" ->
                {OutboundWith("vless", f ++ t ++ n) :
                    f \in VlessFlow(opts), t \in TlsConfig(opts, FALSE),
                    n \in TransportConfig(opts)}
          [] scheme = "trojan" ->
                {OutboundWith("trojan", t ++ n) :
                    t \in TlsConfig(opts, TRUE), n \in TransportConfig(opts)}
          [] scheme = "hysteria2" ->
                {OutboundWith("hysteria2",
                    tlsOrDefault(t) ++ Renamed(opts, [obfs |-> <<"obfs">>])
                    ++ When("obfs" \in DOMAIN opts,
                            Renamed(opts, [obfs_password |->
                                <<"obfs-password", "obfs_password">>]))) :
                    t \in TlsConfig(opts, TRUE)}
          [] scheme = "tuic" ->
                {OutboundWith("tuic",
                    tlsOrDefault(t)
                    ++ Renamed(opts,
                        [congestion |-> <<"congestion_control", "congestion">>,
                         relay |-> <<"udp_relay_mode", "udp-relay-mode">>])) :
                    t \in TlsConfig(opts, TRUE)}

VmessOutbound(opts) ==
    LET tls == LowerCase(ParamOr(opts, <<"tls">>, "none")) = "tls"
        from == [k \in DOMAIN opts \cap ({"alpn", "fp"} \cup
                    {InsecureKeys[i] : i \in DOMAIN InsecureKeys}) |-> opts[k]]
        transport == Renamed(opts, [type |-> <<"net">>, path |-> <<"path">>,
                                    host |-> <<"host">>])
    IN  {OutboundWith("vmess",
            When(tls, TlsValues(ParamOr(opts, <<"sni", "host">>, "server"),
                                from, NoOpts))
            ++ Option("security", ParamOr(opts, <<"scy", "security">>, "auto")) ++ n) :
            n \in TransportConfig(transport)}

(* The methods of Shadowsocks sing-box takes, with the two old names; the  *)
(* others are refused.                                                     *)
NormalizeSsMethod(method) ==
    LET lowered == LowerCase(method)
    IN  CASE lowered = "chacha20-poly1305" -> {"chacha20-ietf-poly1305"}
          [] lowered = "xchacha20-poly1305" -> {"xchacha20-ietf-poly1305"}
          [] lowered \in {"ss", "unknown"} -> {}
          [] OTHER -> {lowered}

ShadowsocksOutbound(opts) ==
    {OutboundWith("ss", Option("cipher", m)
        ++ Renamed(opts, [plugin |-> <<"plugin">>])
        ++ When("plugin" \in DOMAIN opts,
                Renamed(opts, [plugin_opts |-> <<"plugin-opts">>]))) :
        m \in NormalizeSsMethod(opts["cipher"])}

OutboundOptions(link) ==
    CASE link.scheme = "vmess" -> VmessOutbound(link.opts)
      [] link.scheme \in {"vless", "trojan", "tuic"} ->
            StandardOutbound(link.scheme, link.opts)
      [] link.scheme \in {"hysteria2", "hy2"} ->
            StandardOutbound("hysteria2", link.opts)
      [] link.scheme = "ss" -> ShadowsocksOutbound(link.opts)
      [] OTHER -> {}

(* The probe trims what it finds in a URL, and only Shadowsocks does with  *)
(* an empty password.                                                      *)
Account(server, user, pass) == [server |-> server, user |-> user, pass |-> pass]
OutboundAccount(link) ==
    LET a == link.account
        read == Account(a.server,
                        IF link.scheme \in UrlTypes THEN Trim(a.user) ELSE a.user,
                        IF link.scheme = "tuic" THEN Trim(a.pass) ELSE NoText)
    IN  IF read.user = NoText /\ link.scheme # "ss" THEN {} ELSE {read}

SingBoxOutbound(link) ==
    {[type |-> o.type, opts |-> o.opts, account |-> a] :
        o \in OutboundOptions(link), a \in OutboundAccount(link)}

-----------------------------------------------------------------------------
(* Link to Clash entry: what the /mihomo export writes.                    *)

(* The Clash names of the transport options, per network; a vmess payload  *)
(* keeps the gRPC service in `path`.                                       *)
EntryTransport(network, opts, service) ==
    CASE network = "ws" ->
            Renamed(opts, Option("ws-opts.path", <<"path">>)
                          ++ Option("ws-opts.headers.Host", <<"host">>))
      [] network = "grpc" ->
            Renamed(opts, Option("grpc-opts.grpc-service-name", service))
      [] network \in {"h2", "http"} ->
            Renamed(opts, Option("h2-opts.path", <<"path">>)
                          ++ Option("h2-opts.host", <<"host">>))
      [] network = "httpupgrade" ->
            Renamed(opts, Option("httpupgrade-opts.path", <<"path">>)
                          ++ Option("httpupgrade-opts.host", <<"host">>))
      [] OTHER -> NoOpts

VmessFields(opts) ==
    Option("security", ParamOr(opts, <<"scy", "security">>, "auto"))
    ++ Renamed(opts, [k \in {"net", "tls", "sni", "host", "path", "alpn", "fp"} |-> <<k>>])
    ++ When(Flag(opts, InsecureKeys), [allow_insecure |-> "true"])

VmessUriToClash(opts) ==
    LET f == VmessFields(opts)
        network == ParamOr(f, <<"net">>, "tcp")
    IN  Option("cipher", f["security"])
        ++ When(LowerCase(ParamOr(f, <<"tls">>, "none")) = "tls",
                Option("tls", "true")
                ++ Renamed(f, Option("servername", <<"sni">>)
                              ++ Option("client-fingerprint", <<"fp">>)
                              ++ Option("alpn", <<"alpn">>)
                              ++ Option("skip-cert-verify", <<"allow_insecure">>)))
        ++ When(network # "tcp", Option("network", network))
        ++ EntryTransport(network, f, <<"path">>)

(* Mutant: a Reality key makes the entry Reality even when the link says   *)
(* tls.                                                                    *)
EntryIsRealityByKey(opts) ==
    \/ ParamOr(opts, <<"security", "tls">>, NoText) = "reality"
    \/ Has(opts, <<"pbk", "public_key">>)

EntryIsReality(opts) ==
    LET security == ParamOr(opts, <<"security", "tls">>, NoText)
    IN  \/ security = "reality"
        \/ security = NoText /\ Has(opts, <<"pbk", "public_key">>)

StandardUriToClash(scheme, opts) ==
    LET security == ParamOr(opts, <<"security", "tls">>, NoText)
        isReality == EntryIsReality(opts)
        network == ParamOr(opts, <<"type", "net", "network">>, "tcp")
    IN  When(scheme = "vless", Renamed(opts, [flow |-> <<"flow">>]))
        ++ When(isReality \/ security = "tls" \/ scheme = "trojan",
                Option("tls", "true")
                ++ Renamed(opts, Option("servername", SniKeys)
                                 ++ Option("client-fingerprint", <<"fp", "fingerprint">>)))
        ++ When(isReality,
                Renamed(opts, Option("reality-opts.public-key", <<"pbk", "public_key">>)
                              ++ Option("reality-opts.short-id", <<"sid", "short_id">>)))
        ++ When(Flag(opts, InsecureKeys), Option("skip-cert-verify", "true"))
        ++ Renamed(opts, [alpn |-> <<"alpn">>])
        ++ When(network # "tcp", Option("network", network))
        ++ EntryTransport(IF network = "websocket" THEN "ws" ELSE network, opts,
                          <<"serviceName", "service_name">>)

SsFields(opts) ==
    {Option("cipher", m) ++ Renamed(opts, [plugin |-> <<"plugin">>])
     ++ When("plugin" \in DOMAIN opts, Renamed(opts, [plugin_opts |-> <<"plugin-opts">>])) :
        m \in NormalizeSsMethod(opts["cipher"])}

SsUriToClash(opts) ==
    {Renamed(f, Option("cipher", <<"cipher">>) ++ Option("plugin", <<"plugin">>)
                ++ Option("plugin-opts", <<"plugin_opts">>)) : f \in SsFields(opts)}

(* The name and the two parameters are base64 in the link and are not      *)
(* decoded, so they come back as the text of their code.                   *)
SsrUriToClash(opts) ==
    Option("obfs", opts["obfs"]) ++ Option("protocol", opts["protocol"])
    ++ Option("cipher", opts["cipher"])
    ++ Renamed(opts, Option("obfs-param", <<"obfsparam">>)
                     ++ Option("protocol-param", <<"protoparam">>))

(* These two exports know fewer words for true.                            *)
QuicInsecure(opts) ==
    "insecure" \in DOMAIN opts /\ LowerCase(opts["insecure"]) \in {"1", "true"}

Hysteria2UriToClash(opts) ==
    Renamed(opts, [sni |-> <<"sni">>, pinSHA256 |-> <<"pinsha256">>,
                   up |-> <<"up">>, down |-> <<"down">>])
    ++ When(QuicInsecure(opts), Option("skip-cert-verify", "true"))
    ++ Renamed(opts, Option("obfs.type", <<"obfs">>))
    ++ When("obfs" \in DOMAIN opts,
            Renamed(opts, Option("obfs.password", <<"obfs-password">>)))

TuicUriToClash(opts) ==
    Renamed(opts, Option("sni", <<"sni">>) ++ Option("alpn", <<"alpn">>)
                  ++ Option("congestion-control", <<"congestion_control">>)
                  ++ Option("udp-relay-mode", <<"udp_relay_mode">>))
    ++ When(QuicInsecure(opts), Option("skip-cert-verify", "true"))

EntryOptions(link) ==
    LET entry(type, opts) == [type |-> type, opts |-> opts]
    IN  CASE link.scheme = "vmess" -> {entry("vmess", VmessUriToClash(link.opts))}
          [] link.scheme \in {"vless", "trojan"} ->
                {entry(link.scheme, StandardUriToClash(link.scheme, link.opts))}
          [] link.scheme = "ss" -> {entry("ss", o) : o \in SsUriToClash(link.opts)}
          [] link.scheme = "ssr" -> {entry("ssr", SsrUriToClash(link.opts))}
          [] link.scheme \in {"hysteria2", "hy2"} ->
                {entry("hysteria2", Hysteria2UriToClash(link.opts))}
          [] link.scheme = "tuic" -> {entry("tuic", TuicUriToClash(link.opts))}

(* Of the links read by a URL parser only these two exports trim.          *)
EntryAccount(link) ==
    LET a == link.account
        user == IF link.scheme \in UserTypes THEN Trim(a.user) ELSE a.user
    IN  IF link.scheme = "vmess" /\ user = NoText THEN {}
        ELSE {Account(a.server, user, IF link.scheme = "tuic" THEN a.pass ELSE NoText)}

UriToClash(link) ==
    {[type |-> e.type, opts |-> e.opts, account |-> a] :
        e \in EntryOptions(link), a \in EntryAccount(link)}

=============================================================================
