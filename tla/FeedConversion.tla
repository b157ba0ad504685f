--------------------------- MODULE FeedConversion ---------------------------
(***************************************************************************)
(* The two structured feeds: a Clash entry and an Xray outbound become a   *)
(* share link, the only form the program stores (convert.rs, parser/       *)
(* xray.rs), and a link gets the key under which the program takes two     *)
(* links for one server (parser/mod.rs).  The forms are those of           *)
(* LinkConversion.                                                         *)
(***************************************************************************)
EXTENDS LinkConversion

(* A link but for its account.                                             *)
Link(scheme, opts) == [scheme |-> scheme, opts |-> opts]

(* What is found of an account in the URL it is written to; an IPv6        *)
(* address in no brackets leaves no port to find.  Both feeds have each    *)
(* link they make read back (parse_share_link) and drop what cannot be.    *)
UrlAccount(server, users, passes) ==
    IF ":" \in CharsOf(server) THEN {}
    ELSE {Account(server, u, p) : u \in users, p \in passes}

WithAccount(links, accounts) ==
    {[scheme |-> l.scheme, opts |-> l.opts, account |-> a] : l \in links, a \in accounts}

-----------------------------------------------------------------------------
(* Clash entry to link.                                                    *)

(* The transport options of an entry; `service` is the link's name for the *)
(* gRPC service.                                                           *)
LinkTransport(opts, service) ==
    LET network == ParamOr(opts, <<"network">>, "tcp")
    IN  CASE network = "ws" ->
                Renamed(opts, Option("path", <<"ws-opts.path">>)
                              ++ Option("host", <<"ws-opts.headers.Host">>))
          [] network = "grpc" ->
                Renamed(opts, Option(service, <<"grpc-opts.grpc-service-name">>))
          [] network \in {"h2", "http"} ->
                Renamed(opts, Option("path", <<"h2-opts.path">>)
                              ++ Option("host", <<"h2-opts.host">>))
          [] network = "httpupgrade" ->
                Renamed(opts, Option("path", <<"httpupgrade-opts.path">>)
                              ++ Option("host", <<"httpupgrade-opts.host">>))
          [] OTHER -> NoOpts

LinkNetwork(opts) ==
    When(ParamOr(opts, <<"network">>, "tcp") # "tcp",
         Renamed(opts, [type |-> <<"network">>]))

SkipVerify(opts, key) ==
    When(Flag(opts, <<"skip-cert-verify">>), Option(key, "1"))

ClashVmessToUri(opts) ==
    Link("vmess",
        Option("scy", ParamOr(opts, <<"cipher", "security">>, "auto"))
        ++ When(ParamOr(opts, <<"tls">>, "false") = "true",
                Option("tls", "tls")
                ++ Renamed(opts, [sni |-> <<"servername">>, alpn |-> <<"alpn">>,
                                  fp |-> <<"client-fingerprint">>])
                ++ SkipVerify(opts, "allowInsecure"))
        ++ Option("net", ParamOr(opts, <<"network">>, "tcp"))
        ++ LinkTransport(opts, "path"))

ClashVlessToUri(opts) ==
    LET key == Has(opts, <<"reality-opts.public-key">>)
        tls == ParamOr(opts, <<"tls">>, "false") = "true"
    IN  Link("vless",
            When(key, Option("security", "reality"))
            ++ When(tls, Option("security", "tls"))
            ++ Renamed(opts, [sni |-> <<"servername">>, fp |-> <<"client-fingerprint">>,
                              alpn |-> <<"alpn">>, flow |-> <<"flow">>,
                              pbk |-> <<"reality-opts.public-key">>,
                              sid |-> <<"reality-opts.short-id">>])
            ++ SkipVerify(opts, "allowInsecure")
            ++ LinkNetwork(opts) ++ LinkTransport(opts, "serviceName"))

(* Only the server name and the certificate flag of the TLS options are    *)
(* written.                                                                *)
ClashTrojanToUri(opts) ==
    Link("trojan",
        When(ParamOr(opts, <<"tls">>, "true") = "true", Option("security", "tls"))
        ++ Renamed(opts, [sni |-> <<"servername">>])
        ++ SkipVerify(opts, "allowInsecure")
        ++ LinkNetwork(opts) ++ LinkTransport(opts, "serviceName"))

(* A Shadowsocks server without a method is refused, here and below.       *)
ClashSsToUri(opts) ==
    {Link("ss", Option("cipher", opts[k])
        ++ Renamed(opts, [plugin |-> <<"plugin">>])
        ++ When("plugin" \in DOMAIN opts,
                Renamed(opts, Option("plugin-opts", <<"plugin-opts">>)))) :
        k \in DOMAIN opts \cap {"cipher"}}

(* The two parameters are written base64-coded, which the way back does    *)
(* not undo.                                                               *)
ClashSsrToUri(opts) ==
    Link("ssr",
        Option("obfs", ParamOr(opts, <<"obfs">>, "plain"))
        ++ Option("protocol", ParamOr(opts, <<"protocol">>, "origin"))
        ++ Option("cipher", ParamOr(opts, <<"cipher">>, "none"))
        ++ When("obfs-param" \in DOMAIN opts, Option("obfsparam", "coded"))
        ++ When("protocol-param" \in DOMAIN opts, Option("protoparam", "coded")))

ClashHysteria2ToUri(opts) ==
    Link("hysteria2",
        Renamed(opts, [sni |-> <<"sni">>, pinsha256 |-> <<"pinSHA256">>,
                       up |-> <<"up">>, down |-> <<"down">>])
        ++ SkipVerify(opts, "insecure")
        ++ Renamed(opts, [obfs |-> <<"obfs.type">>])
        ++ When("obfs.type" \in DOMAIN opts,
                Renamed(opts, Option("obfs-password", <<"obfs.password">>))))

ClashTuicToUri(opts) ==
    Link("tuic",
        Renamed(opts, [sni |-> <<"sni">>, alpn |-> <<"alpn">>,
                       congestion_control |-> <<"congestion-control">>,
                       udp_relay_mode |-> <<"udp-relay-mode">>])
        ++ SkipVerify(opts, "insecure"))

ClashLink(entry) ==
    CASE entry.type = "vmess" -> {ClashVmessToUri(entry.opts)}
      [] entry.type = "vless" -> {ClashVlessToUri(entry.opts)}
      [] entry.type = "trojan" -> {ClashTrojanToUri(entry.opts)}
      [] entry.type = "ss" -> ClashSsToUri(entry.opts)
      [] entry.type = "ssr" -> {ClashSsrToUri(entry.opts)}
      [] entry.type \in {"hysteria2", "hy2"} -> {ClashHysteria2ToUri(entry.opts)}
      [] entry.type = "tuic" -> {ClashTuicToUri(entry.opts)}
      [] OTHER -> {}

(* An id or a password that is absent, empty or no text (an unquoted       *)
(* number) refuses the entry, except that hysteria2 then writes a link     *)
(* with no user.  vless and trojan write theirs as it is, hysteria2 and    *)
(* tuic coded but for '/'; the others put theirs inside base64.            *)
ClashAccount(entry) ==
    LET a == entry.account
        missing == \/ a.user = NoText /\ entry.type \notin {"hysteria2", "hy2"}
                   \/ a.pass = NoText /\ entry.type = "tuic"
        user == IF entry.type \in UserTypes THEN RawUser(a.user) ELSE CodedUser(a.user)
        pass == IF entry.type = "tuic" THEN CodedUser(a.pass) ELSE {NoText}
    IN  IF missing THEN {}
        ELSE IF entry.type \in UrlTypes THEN UrlAccount(a.server, user, pass)
        ELSE {Account(a.server, a.user, NoText)}

ClashProxyToUri(entry) == WithAccount(ClashLink(entry), ClashAccount(entry))

-----------------------------------------------------------------------------
(* Xray outbound to link.  The settings block in use is part of an option  *)
(* name; a security or network the block does not belong to leaves it      *)
(* unread.                                                                 *)

(* Mutant: the Reality block is left out, as it is for trojan.             *)
XraySecurityTlsOnly(security, opts) ==
    When(security = "tls",
         Renamed(opts, [sni |-> <<"tlsSettings.serverName">>,
                        fp |-> <<"tlsSettings.fingerprint">>,
                        alpn |-> <<"tlsSettings.alpn">>]))

XraySecurity(security, opts) ==
    When(security = "tls",
         Renamed(opts, [sni |-> <<"tlsSettings.serverName">>,
                        fp |-> <<"tlsSettings.fingerprint">>,
                        alpn |-> <<"tlsSettings.alpn">>]))
    ++ When(security = "reality",
         Renamed(opts, [sni |-> <<"realitySettings.serverNames">>,
                        fp |-> <<"realitySettings.fingerprint">>,
                        pbk |-> <<"realitySettings.publicKey">>,
                        sid |-> <<"realitySettings.shortId">>]))

XrayTransport(network, opts, service, hosts) ==
    CASE network = "ws" ->
            Renamed(opts, [path |-> <<"wsSettings.path">>, host |-> hosts])
      [] network = "grpc" ->
            Renamed(opts, Option(service, <<"grpcSettings.serviceName">>))
      [] network \in {"h2", "http"} ->
            Renamed(opts, [path |-> <<"httpSettings.path">>,
                           host |-> <<"httpSettings.host">>])
      [] OTHER -> NoOpts

HeadersHost == "wsSettings.headers.Host"

XrayVlessToUri(opts) ==
    LET network == ParamOr(opts, <<"network">>, "tcp")
        security == ParamOr(opts, <<"security">>, "none")
    IN  Link("vless",
            Renamed(opts, [flow |-> <<"flow">>])
            ++ When(security # "none", Option("security", security))
            ++ XraySecurity(security, opts)
            ++ When(network # "tcp", Option("type", network))
            ++ XrayTransport(network, opts, "serviceName",
                             <<HeadersHost, "wsSettings.host">>))

XrayVmessToUri(opts) ==
    LET network == ParamOr(opts, <<"network">>, "tcp")
        security == ParamOr(opts, <<"security">>, "none")
    IN  Link("vmess",
            Option("scy", "auto") ++ Option("net", network) ++ Option("tls", security)
            ++ When(security # "none", XraySecurity("tls", opts))
            ++ XrayTransport(network, opts, "path", <<HeadersHost>>))

XrayTrojanToUri(opts) ==
    LET network == ParamOr(opts, <<"network">>, "tcp")
        security == ParamOr(opts, <<"security">>, "tls")
        tls == XraySecurity("tls", opts)
    IN  Link("trojan",
            When(security # "none", Option("security", security))
            ++ When(security = "tls",
                    [k \in DOMAIN tls \ {"alpn"} |-> tls[k]])
            ++ When(network # "tcp", Option("type", network))
            ++ When(network \in {"ws", "grpc"},
                    XrayTransport(network, opts, "serviceName", <<HeadersHost>>)))

XrayShadowsocksToUri(opts) ==
    {Link("ss", Option("cipher", opts[k])) : k \in DOMAIN opts \cap {"cipher"}}

XrayLink(xray) ==
    CASE xray.type = "vless" -> {XrayVlessToUri(xray.opts)}
      [] xray.type = "vmess" -> {XrayVmessToUri(xray.opts)}
      [] xray.type = "trojan" -> {XrayTrojanToUri(xray.opts)}
      [] xray.type \in {"shadowsocks", "ss"} -> XrayShadowsocksToUri(xray.opts)
      [] OTHER -> {}

(* An absent id or password refuses the outbound and is left out; an empty *)
(* one is written.                                                         *)
XrayAccount(xray) ==
    LET a == xray.account
    IN  IF xray.type \in UserTypes
        THEN UrlAccount(a.server, RawUser(a.user), {NoText})
        ELSE {Account(a.server, a.user, NoText)}

XrayOutboundToUri(xray) == WithAccount(XrayLink(xray), XrayAccount(xray))

-----------------------------------------------------------------------------
(* The identity of a server: protocol, transport and TLS (the endpoint is  *)
(* the same for the links that are compared here).                         *)

NormalizeTransport(type) ==
    IF LowerCase(type) = "websocket" THEN "ws" ELSE LowerCase(type)

NormalizeTls(value) ==
    CASE LowerCase(value) \in {"none", "false", "0"} -> "none"
      [] LowerCase(value) = "reality" -> "reality"
      [] OTHER -> "tls"

QueryDedupParts(opts, defaultTls) ==
    LET reality == Has(opts, <<"pbk", "public_key", "reality_pbk">>)
        security == NormalizeTls(FirstParam(opts, <<"security", "tls">>))
        tls == IF Has(opts, <<"security", "tls">>)
               THEN IF security # "none" /\ reality THEN "reality" ELSE security
               ELSE IF reality THEN "reality"
                    ELSE IF defaultTls THEN "tls" ELSE "none"
    IN  <<NormalizeTransport(ParamOr(opts, <<"type", "net", "network">>, "tcp")), tls>>

VmessDedupParts(opts) ==
    <<NormalizeTransport(ParamOr(opts, <<"net", "type">>, "tcp")),
      NormalizeTls(ParamOr(opts, <<"tls">>, "none"))>>

DedupParts(protocol, opts) ==
    CASE protocol = "vmess" -> VmessDedupParts(opts)
      [] protocol = "ssr" -> <<"tcp", "none">>
      [] OTHER -> QueryDedupParts(opts, protocol \in {"trojan", "hysteria2", "tuic"})

ConfigDedupKey(link) ==
    LET protocol == IF link.scheme = "hy2" THEN "hysteria2" ELSE link.scheme
    IN  <<protocol>> \o DedupParts(protocol, link.opts)

=============================================================================
