---------------------------- MODULE Conversions ----------------------------
(***************************************************************************)
(* The way of a server through the program: read from a feed, kept as a    *)
(* share link, probed as a sing-box outbound and, once it answered, served *)
(* as a Clash entry.  One behaviour takes one input through the stages its *)
(* kind has:                                                               *)
(*                                                                         *)
(*   link, clash, xray   a server in one of the three forms of a feed      *)
(*   document            the body of a feed                                *)
(*   served              the ranked list the /mihomo export answers from   *)
(***************************************************************************)
EXTENDS FeedConversion, SequencesExt

CONSTANTS
    Links,          \* share links of feeds
    Entries,        \* Clash entries of feeds
    Xrays,          \* Xray outbounds of feeds
    Documents,      \* bodies of feeds
    Rankings,       \* ranked lists, with the top_n of each
    CountryOf(_)    \* the countries whose keywords a proxy's name contains

(* HTML places are those of a page, and an array at the top of a document  *)
(* is no mapping that could have a list of proxies.                        *)
DocumentsFit ==
    \A d \in Documents :
        /\ d.items \in Seq(ToSet(d.items)) /\ {d.array, d.base64} \subseteq BOOLEAN
        /\ \A i \in DOMAIN d.items :
            /\ d.items[i].place \in {"token", "escaped", "proxy", "outbound"}
                    \cup (IF d.shape = "html"
                          THEN {"attribute", "block", "block64", "script"} ELSE {})
            /\ d.items[i].place = "proxy" => ~d.array

(* A served name begins with the text of the feed.                         *)
RankingsFit ==
    \A r \in Rankings :
        /\ r.ranked \in Seq(ToSet(r.ranked)) /\ r.topN \in Nat
        /\ \A i \in DOMAIN r.ranked :
            LET name == r.ranked[i].name
            IN  Len(name) \in Nat \ {0} /\ name = [k \in 1 .. Len(name) |-> name[k]]

(* A text that is there is not empty, and only tuic has a second secret.   *)
Filled(opts) == \A k \in DOMAIN opts : LowerCase(opts[k]) # NoText
AccountFits(form) ==
    LET a == form.account
    IN  /\ a = Account(a.server, a.user, a.pass)
        /\ form.type # "tuic" => a.pass = NoText
FormsFit ==
    /\ \A form \in Links \cup Entries \cup Xrays : Filled(form.opts)
    /\ \A form \in Entries \cup Xrays : AccountFits(form)
    /\ \A e \in Entries : ParamOr(e.opts, <<"tls">>, "true") \in {"true", "false"}

ASSUME InputsFit == FormsFit /\ DocumentsFit /\ RankingsFit

Parsing == INSTANCE FeedParsing
Export == INSTANCE ClashConfig

VARIABLES
    input,      \* [kind, value]
    stage,      \* new, read, probed or done
    link,       \* the share link the feed gave, if it gave one
    outbound,   \* what sing-box is started with, if it can be
    answer      \* the entry, the candidates or the configuration made

conversionVars == <<input, stage, link, outbound, answer>>

Inputs ==
    [kind : {"link"}, value : Links] \cup [kind : {"clash"}, value : Entries]
    \cup [kind : {"xray"}, value : Xrays]
    \cup [kind : {"document"}, value : Documents]
    \cup [kind : {"served"}, value : Rankings]

ConversionInit ==
    /\ input \in Inputs
    /\ stage = "new"
    /\ link = {}
    /\ outbound = {}
    /\ answer = {}

-----------------------------------------------------------------------------
(* A server of a feed becomes a link.                                      *)
ReadServer ==
    /\ stage = "new"
    /\ input.kind \in {"link", "clash", "xray"}
    /\ stage' = "read"
    /\ link' = CASE input.kind = "link" -> {input.value}
                 [] input.kind = "clash" -> ClashProxyToUri(input.value)
                 [] input.kind = "xray" -> XrayOutboundToUri(input.value)
    /\ UNCHANGED <<input, outbound, answer>>

(* A link sing-box cannot take is a failed candidate and goes no further.  *)
ProbeLink ==
    /\ stage = "read"
    /\ outbound' = UNION {SingBoxOutbound(l) : l \in link}
    /\ stage' = IF outbound' = {} THEN "done" ELSE "probed"
    /\ UNCHANGED <<input, link, answer>>

ExportLink ==
    /\ stage = "probed"
    /\ answer' = UNION {UriToClash(l) : l \in link}
    /\ stage' = "done"
    /\ UNCHANGED <<input, link, outbound>>

ReadDocument ==
    /\ stage = "new"
    /\ input.kind = "document"
    /\ answer' = {Parsing!ParseSubscriptionDocument(input.value)}
    /\ stage' = "done"
    /\ UNCHANGED <<input, link, outbound>>

ServeMihomo ==
    /\ stage = "new"
    /\ input.kind = "served"
    /\ answer' = {Export!GenerateClashConfig(
                    Export!ServedItems(input.value.ranked, input.value.topN))}
    /\ stage' = "done"
    /\ UNCHANGED <<input, link, outbound>>

ConversionNext ==
    ReadServer \/ ProbeLink \/ ExportLink \/ ReadDocument \/ ServeMihomo

ConversionSpec == ConversionInit /\ [][ConversionNext]_conversionVars

-----------------------------------------------------------------------------
(* What a form says of the connection: the wire.                           *)

TlsFields == {"mode", "insecure", "sni", "alpn"}
TransportFields == {"network", "host", "path", "service"}
Fields == TlsFields \cup TransportFields

(* Without TLS its other settings say nothing.                             *)
Wire(mode, insecure, sni, alpn, network, host, path, service) ==
    [mode |-> mode,
     insecure |-> mode # "false" /\ insecure,
     sni |-> IF mode = "false" THEN "server" ELSE sni,
     alpn |-> IF mode = "false" THEN "none" ELSE alpn,
     network |-> network, host |-> host, path |-> path, service |-> service]

OutboundWire(form) ==
    LET o == form.opts
    IN  Wire(IF "public_key" \in DOMAIN o THEN "reality"
                ELSE ParamOr(o, <<"tls">>, "false"),
             Flag(o, <<"insecure">>),
             ParamOr(o, <<"server_name">>, "server"), ParamOr(o, <<"alpn">>, "none"),
             ParamOr(o, <<"transport">>, "tcp"),
             ParamOr(o, <<"host">>, NoText), ParamOr(o, <<"path">>, NoText),
             ParamOr(o, <<"service">>, NoText))

HttpNames == {"h2", "http"}
Transports == HttpNames \cup {"tcp", "ws", "grpc", "httpupgrade"}

(* A client reads the options of the transport in use and of no other.     *)
InUse(opts, network, ws, http, upgrade) ==
    CASE network = "ws" -> ParamOr(opts, ws, NoText)
      [] network \in HttpNames -> ParamOr(opts, http, NoText)
      [] network = "httpupgrade" -> ParamOr(opts, upgrade, NoText)
      [] OTHER -> NoText
GrpcService(opts, network, key) ==
    IF network = "grpc" THEN ParamOr(opts, <<key>>, NoText) ELSE NoText
NetworkName(network) == IF network \in HttpNames THEN "http" ELSE network

(* The types that can be layered over TLS and a transport; of the others   *)
(* only those over QUIC have TLS.                                          *)
LayeredTypes == {"vmess", "vless", "trojan"}

EntryNetwork(form) ==
    IF form.type \in LayeredTypes THEN ParamOr(form.opts, <<"network">>, "tcp") ELSE "tcp"
EntryMode(form) ==
    CASE form.type \in QuicTypes -> "true"
      [] form.type \in LayeredTypes ->
            IF "reality-opts.public-key" \in DOMAIN form.opts THEN "reality"
            ELSE ParamOr(form.opts, <<"tls">>, IF form.type = "trojan" THEN "true" ELSE "false")
      [] OTHER -> "false"
EntryWire(form) ==
    LET o == form.opts
        network == EntryNetwork(form)
    IN  Wire(EntryMode(form),
             Flag(o, <<"skip-cert-verify">>),
             ParamOr(o, IF form.type \in QuicTypes THEN <<"sni">> ELSE <<"servername">>,
                     "server"),
             ParamOr(o, <<"alpn">>, "none"),
             NetworkName(network),
             InUse(o, network, <<"ws-opts.headers.Host">>, <<"h2-opts.host">>,
                   <<"httpupgrade-opts.host">>),
             InUse(o, network, <<"ws-opts.path">>, <<"h2-opts.path">>,
                   <<"httpupgrade-opts.path">>),
             GrpcService(o, network, "grpc-opts.grpc-service-name"))

XraySecurityOf(form) ==
    ParamOr(form.opts, <<"security">>, IF form.type = "trojan" THEN "tls" ELSE "none")
XrayWire(form) ==
    LET o == form.opts
        security == XraySecurityOf(form)
        network == ParamOr(o, <<"network">>, "tcp")
    IN  Wire(IF security = "tls" THEN "true"
             ELSE IF security = "reality" THEN "reality" ELSE "false",
             security = "tls" /\ Flag(o, <<"tlsSettings.allowInsecure">>),
             ParamOr(o, IF security = "reality" THEN <<"realitySettings.serverNames">>
                        ELSE <<"tlsSettings.serverName">>, "server"),
             IF security = "tls" THEN ParamOr(o, <<"tlsSettings.alpn">>, "none")
             ELSE "none",
             NetworkName(network),
             InUse(o, network, <<HeadersHost, "wsSettings.host">>, <<"httpSettings.host">>,
                   <<"httpupgradeSettings.host">>),
             InUse(o, network, <<"wsSettings.path">>, <<"httpSettings.path">>,
                   <<"httpupgradeSettings.path">>),
             GrpcService(o, network, "grpcSettings.serviceName"))

Differences(a, b) == {f \in Fields : a[f] # b[f]}
Where(condition, fields) == IF condition THEN fields ELSE {}

-----------------------------------------------------------------------------
(* The disagreements the code has, each with the inputs that meet it.      *)

Network(l) ==
    ParamOr(l.opts, IF l.scheme = "vmess" THEN <<"net">>
                    ELSE <<"type", "net", "network">>, "tcp")
Security(l) ==
    ParamOr(l.opts, IF l.scheme = "vmess" THEN <<"tls">> ELSE <<"security", "tls">>, NoText)
RealityKey(l) ==
    l.scheme # "vmess" /\ Has(l.opts, <<"pbk", "public_key", "reality_pbk">>)

(* Probe and export of one link.                                           *)
ExportGaps(l) ==
    LET o == l.opts
        quic == l.scheme \in QuicTypes
        security == Security(l)
        word == LowerCase(security)
    IN  Where(l.scheme = "vmess" /\ "sni" \notin DOMAIN o
                /\ "host" \in DOMAIN o, {"sni"})
        \cup Where(l.scheme = "vmess" /\ Network(l) = "grpc", {"service"})
        \cup Where(Network(l) \notin Transports, TransportFields)
        \cup Where(l.scheme = "vless" /\ word \in {"tls", "reality"}
                    /\ security # word, TlsFields)
        \cup Where(l.scheme = "vless" /\ RealityKey(l)
                    /\ word \notin {NoText, "none", "tls", "reality"}, TlsFields)
        \cup Where(l.scheme = "trojan"
                    /\ (word = "none" \/ (word = "reality" /\ security # word)), TlsFields)
        \cup Where(RealityKey(l) /\ ~Has(o, <<"pbk", "public_key">>)
                    /\ security \in {NoText, "reality"}, TlsFields)
        \cup Where(quic /\ (word \in {"none", "reality"}
                            \/ (security = NoText /\ RealityKey(l))), TlsFields)
        \cup Where(quic /\ ("insecure" \notin DOMAIN o \/ "allowInsecure" \in DOMAIN o
                            \/ LowerCase(o["insecure"]) \in {"yes", "y"}), {"insecure"})
        \cup Where(quic /\ "sni" \notin DOMAIN o, {"sni"})
        \cup Where(quic /\ l.scheme # "tuic", {"alpn"})

(* These two exports do not trim, the probe does.                          *)
AccountExportGap(l) ==
    l.scheme \in QuicTypes /\ " " \in CharsOf(l.account.user) \cup CharsOf(l.account.pass)

(* Probe and identity of one link.                                         *)
KeyGap(l) ==
    LET word == LowerCase(Security(l))
        off == {"none", "false", "0"}
    IN  \/ RealityKey(l) /\ word \notin {NoText, "none", "reality"}
        \/ ~RealityKey(l) /\ word = "reality"
        \/ l.scheme \in {"vmess", "vless"} /\ word \notin off \cup {NoText, "tls", "reality"}
        \/ l.scheme \notin {"vmess", "vless", "ss"} /\ word \in {"false", "0"}
        \/ l.scheme \in QuicTypes /\ word = "none"
        \/ l.scheme = "ss" /\ (word \notin off \cup {NoText} \/ (word = NoText /\ RealityKey(l)))

KeyMode(l) ==
    LET tls == DedupParts(IF l.scheme = "hy2" THEN "hysteria2" ELSE l.scheme, l.opts)[2]
    IN  CASE tls = "none" -> "false" [] tls = "tls" -> "true" [] OTHER -> "reality"

(* What a Clash entry says and sing-box is not told.                       *)
EntryGaps(e) ==
    LET o == e.opts
    IN  Where(ParamOr(o, <<"network">>, "tcp") \notin Transports, TransportFields)
        \cup Where(e.type = "vmess",
              Where("servername" \notin DOMAIN o, {"sni"}) \cup {"service"}
              \cup Where("reality-opts.public-key" \in DOMAIN o, TlsFields))
        \cup Where(e.type = "trojan",
              {"alpn"} \cup Where(ParamOr(o, <<"tls">>, "true") = "false"
                                  \/ "reality-opts.public-key" \in DOMAIN o, TlsFields))
        \cup Where(e.type \in {"hysteria2", "hy2"}, {"alpn"})

(* The same of an Xray outbound.                                           *)
XrayGaps(x) ==
    LET o == x.opts
        security == ParamOr(o, <<"security">>, NoText)
        network == ParamOr(o, <<"network">>, "tcp")
    IN  {"insecure"}
        \cup Where(network \notin Transports, TransportFields)
        \cup Where(\/ security \notin {NoText, "none", "tls", "reality"}
                   \/ security = "reality"
                        /\ "realitySettings.publicKey" \notin DOMAIN o, TlsFields)
        \cup Where(x.type \in {"shadowsocks", "ss"},
              Where(network # "tcp", TransportFields)
              \cup Where(security # NoText, TlsFields))
        \cup Where(network = "httpupgrade", {"host", "path"})
        \cup Where(x.type = "vmess",
              {"service", "sni"} \cup Where(HeadersHost \notin DOMAIN o, {"host"})
              \cup Where(security = "reality", TlsFields))
        \cup Where(x.type = "trojan",
              {"alpn"} \cup Where(HeadersHost \notin DOMAIN o, {"host"})
              \cup Where(network \in HttpNames, {"host", "path"})
              \cup Where(security \in {"none", "reality"}, TlsFields))

(* Who the client is does not reach sing-box as the feed says it: a raw id *)
(* or password is cut at ':' and decoded, and any text in a URL is trimmed.*)
AccountGap(form) ==
    LET chars == CharsOf(form.account.user)
    IN  \/ form.type \in UserTypes /\ {":", "%", " "} \cap chars # {}
        \/ form.type \in QuicTypes /\ " " \in chars \cup CharsOf(form.account.pass)

(* The servers lost to the coding: nothing finds the port behind an IPv6   *)
(* address in no brackets, behind '/' in an id or a password, or behind    *)
(* '?' or '#' in a raw one; and one of which nothing is left is refused,   *)
(* as an empty one is.                                                     *)
Lost(form) ==
    LET a == form.account
        chars == CharsOf(a.user)
    IN  \/ a.user = NoText \/ (form.type = "tuic" /\ a.pass = NoText)
        \/ form.type \in UrlTypes
               /\ \/ ":" \in CharsOf(a.server)
                  \/ "/" \in chars \cup CharsOf(a.pass)
        \/ form.type \in UserTypes
               /\ \/ "?" \in chars
                  \/ Trim(Decoded(Cut(a.user))) = NoText
        \/ form.type \in QuicTypes /\ Trim(a.user) = NoText

(* The types of the two feeds that sing-box has.                           *)
TakenTypes(kind) ==
    {"vmess", "vless", "trojan", "ss"}
    \cup (IF kind = "clash" THEN QuicTypes ELSE {"shadowsocks"})

(* What sing-box cannot take, in the words of the two feeds.               *)
Refusable(form) ==
    LET o == form.opts
        word(key, default) == LowerCase(ParamOr(o, <<key>>, default))
        bad(key) == ParamOr(o, <<key>>, NoText) = "bad"
    IN  \/ form.type \in LayeredTypes
               /\ word("network", "tcp") \notin Transports \cup {"websocket"}
        \/ form.type = "vless"
               /\ \/ word("flow", "none") \notin {"none", "xtls-rprx-vision"}
                  \/ /\ "reality-opts.public-key" \in DOMAIN o
                     /\ bad("reality-opts.public-key") \/ bad("reality-opts.short-id")
                  \/ /\ ParamOr(o, <<"security">>, NoText) = "reality"
                     /\ bad("realitySettings.publicKey") \/ bad("realitySettings.shortId")
        \/ form.type \in {"ss", "shadowsocks"}
               /\ word("cipher", "unknown") \in {"ss", "unknown"}

-----------------------------------------------------------------------------
(* The readings of a link.  The probe decides with one reading whether a   *)
(* server works, the export tells other clients another, and the identity  *)
(* that merges duplicates is a third: they agree on how the server is      *)
(* reached, but for the cases listed above (probe.rs tls_config and        *)
(* transport_config, convert.rs standard_uri_to_clash, parser/mod.rs       *)
(* query_dedup_parts).                                                     *)
ReadingsAgree ==
    input.kind = "link" /\ stage = "done" /\ outbound # {} =>
        /\ answer # {}
        /\ \A l \in link, o \in outbound, e \in answer :
            /\ Differences(OutboundWire(o), EntryWire(e)) \subseteq ExportGaps(l)
            /\ e.account = o.account \/ AccountExportGap(l)
            /\ KeyGap(l) \/ KeyMode(l) = OutboundWire(o).mode

(* What a structured feed says of a server reaches sing-box, across the    *)
(* link it is kept as: no server that sing-box could take is lost, the     *)
(* connection is the one the feed names and so is the id or the password,  *)
(* but for the cases listed (convert.rs clash_*_to_uri, parser/xray.rs,    *)
(* then probe.rs).                                                         *)
FeedKeepsServer ==
    /\ input.kind \in {"clash", "xray"} /\ stage = "done" /\ outbound = {} =>
            \/ input.value.type \notin TakenTypes(input.kind)
            \/ Refusable(input.value)
            \/ Lost(input.value)
    /\ input.kind \in {"clash", "xray"} =>
            \A o \in outbound :
                o.account = input.value.account \/ AccountGap(input.value)
    /\ input.kind = "clash" =>
            \A o \in outbound :
                Differences(OutboundWire(o), EntryWire(input.value))
                    \subseteq EntryGaps(input.value)
    /\ input.kind = "xray" =>
            \A o \in outbound :
                Differences(OutboundWire(o), XrayWire(input.value))
                    \subseteq XrayGaps(input.value)

(* The stages of the parser that reach a place of a document.              *)
Readable(item, document) ==
    /\ item.server.kind # "broken"
    /\ ~(item.server.comma /\ item.place \in {"token", "escaped", "block", "block64"})
    /\ item.server.comma /\ item.place \in {"attribute", "script"} => ~document.base64
    /\ item.place \in {"block", "block64", "escaped"} => ~document.base64
    /\ item.place = "proxy" => item.server.kind # "ssr"
    /\ item.place = "outbound" /\ document.array =>
            document.items[1].place = "outbound"

(* A feed that mixes forms loses none of its servers and repeats none: a   *)
(* server a stage can read is found once in the form it has, whatever the  *)
(* other stages found before (parser/mod.rs:45-51 says the stages do not   *)
(* wait for one another to find nothing).                                  *)
NothingLost ==
    input.kind = "document" /\ stage = "done" =>
        \A found \in answer : \A i \in DOMAIN input.value.items :
            LET item == input.value.items[i]
                form == IF item.place \in {"proxy", "outbound"} THEN item.place
                        ELSE "link"
            IN  Readable(item, input.value) =>
                    Cardinality({k \in DOMAIN found :
                        found[k] = Parsing!Found(item.server, form, "whole")}) = 1

(* The export lists every server the program serves and Clash can take,    *)
(* once and in the order of the ranking, under names no two share, and its *)
(* groups name only what it defines.  Two names collide when one is the    *)
(* other with a number behind it (convert.rs generate_clash_config).       *)
ExportListsServed ==
    input.kind = "served" /\ stage = "done" =>
        \A config \in answer :
            LET served == Export!ServedItems(input.value.ranked, input.value.topN)
                taken == {i \in DOMAIN served : Export!UriToClash(served[i].link) # {}}
                firsts == {i \in taken : \A j \in taken :
                              served[j].endpoint = served[i].endpoint => i <= j}
                rank(endpoint) == CHOOSE i \in firsts : served[i].endpoint = endpoint
                made == config.proxies
                numbered == \E i \in DOMAIN served : Len(served[i].name) > 1
                names == {made[i].name : i \in DOMAIN made}
            IN  /\ {made[i].endpoint : i \in DOMAIN made}
                        = {served[i].endpoint : i \in firsts}
                /\ \A i, j \in DOMAIN made :
                        i < j => /\ rank(made[i].endpoint) < rank(made[j].endpoint)
                                 /\ numbered \/ made[i].name # made[j].name
                /\ \A g \in DOMAIN config.groups : config.groups[g] \subseteq
                        names \cup DOMAIN config.groups \cup {Export!Direct}

=============================================================================
