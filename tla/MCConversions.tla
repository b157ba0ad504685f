--------------------------- MODULE MCConversions ---------------------------
(* Inputs for Conversions: every combination of the options that decide    *)
(* the security of a server with one transport, every combination of       *)
(* transport options with one security, and documents of up to three       *)
(* items.  Every account meets every type with one set of options; one     *)
(* account goes with all the others.                                       *)
EXTENDS Conversions, TLC

(* Upper-case spellings of words the conversions compare with.             *)
MCLowerCase(text) ==
    CASE text = "TLS" -> "tls" [] text = "REALITY" -> "reality"
      [] text = "WS" -> "ws" [] OTHER -> text

(* Texts by the characters that their coding can lose.                     *)
MCCharsOf(text) ==
    CASE text \in {"a/b"} -> {"/"} [] text \in {"a#b"} -> {"?"}
      [] text \in {"a:b", ":b", "2001:db8::1"} -> {":"}
      [] text \in {"a:%20"} -> {":", "%"}
      [] text \in {"%41", "%20", "%20a"} -> {"%"}
      [] text \in {" ", " a"} -> {" "} [] OTHER -> {}
MCBeforeColon(text) == IF text = ":b" THEN "" ELSE "a"
MCPercentDecoded(text) ==
    CASE text = "%41" -> "A" [] text = "%20" -> " " [] text = "%20a" -> " a"
      [] OTHER -> text
MCTrimmed(text) == IF text = " a" THEN "a" ELSE ""

Secrets == {"", "id", "a/b", "a#b", "a:b", ":b", "a:%20", "%41", "%20", "%20a", " ", " a"}
Plain == {Account("host", "id", "")}
PlainTuic == {Account("host", "id", "pw")}
Accounts == {Account(s, u, "") : s \in {"host", "2001:db8::1"}, u \in Secrets}
TuicAccounts == {Account("host", u, p) : u, p \in Secrets}
    \cup {Account("2001:db8::1", "id", "pw")}

(* Zero or one of the given values for a key.                              *)
Opt(key, values) == {NoOpts} \cup {key :> v : v \in values}
Either(keys, value) == {NoOpts} \cup {k :> value : k \in keys}
Product(A, B) == {a @@ b : a \in A, b \in B}
Product4(A, B, C, D) == Product(Product(A, B), Product(C, D))
FormsOf(types, options) == [type : types, opts : options, account : Plain]
LinksOf(schemes, options) == [scheme : schemes, opts : options, account : Plain]

Networks == {"tcp", "ws", "websocket", "grpc", "h2", "http", "httpupgrade", "kcp", "WS"}

LinkSecurity ==
    Product4(Opt("security", {"tls", "reality", "none", "xtls", "TLS", "REALITY", "false"}),
             Either({"pbk", "public_key", "reality_pbk"}, "key")
                \cup Opt("pbk", {"bad"}),
             Product(Opt("sid", {"01", "bad"}), Either({"sni", "peer"}, "name")),
             Product4(Opt("allowInsecure", {"1", "0"}), Opt("insecure", {"true"}),
                      Opt("alpn", {"h2"}), Opt("fp", {"firefox"})))

LinkTransports ==
    Product4(Opt("type", Networks), Opt("host", {"front"}), Opt("path", {"ws"}),
             Opt("serviceName", {"svc"}))

VmessOptions ==
    Product(Product4(Opt("tls", {"tls", "TLS", "none", "reality"}), Opt("sni", {"name"}),
                     Opt("alpn", {"h2"}), Opt("allowInsecure", {"1"})),
            Product4(Opt("net", Networks), Opt("host", {"front"}), Opt("path", {"ws"}),
                     Opt("type", {"none", "http"})))

QuicOptions ==
    Product(Product4(Opt("security", {"tls", "none", "reality"}),
                     Either({"sni", "peer"}, "name"),
                     Product(Opt("insecure", {"1", "0", "yes"}),
                             Opt("allowInsecure", {"1"})),
                     Opt("alpn", {"h3"})),
            Product4(Opt("pbk", {"key"}), Opt("sid", {"bad"}),
                     Opt("obfs", {"salamander"}), Opt("obfs-password", {"secret"})))

SsOptions ==
    Product({"cipher" :> c : c \in {"aes-256-gcm", "chacha20-poly1305", "ss", "unknown"}},
            Product(Opt("plugin", {"obfs-local"}), Opt("plugin-opts", {"obfs=http"})))

SsrOptions ==
    Product({("obfs" :> "plain") @@ ("protocol" :> "origin") @@ ("cipher" :> "rc4")},
            Product(Opt("obfsparam", {"param"}), Opt("protoparam", {"param"})))

MCLinks ==
    LinksOf({"vless", "trojan"},
        Product(LinkSecurity, {"type" :> "tcp"})
        \cup Product(LinkTransports, {"security" :> "tls"}))
    \cup LinksOf({"vless"}, Opt("flow", {"none", "xtls-rprx-vision", "xtls-rprx-direct"}))
    \cup LinksOf({"vmess"}, VmessOptions)
    \cup LinksOf(QuicTypes, QuicOptions)
    \cup LinksOf({"ss"}, Product(SsOptions, Product(Opt("security", {"tls", "none"}),
                                                  Opt("pbk", {"key"}))))
    \cup LinksOf({"ssr"}, SsrOptions)
    \cup [scheme : UrlTypes \cup {"vmess"}, opts : {"sni" :> "name"}, account : Accounts]
    \cup [scheme : {"ss"}, opts : {"cipher" :> "aes-256-gcm"}, account : Accounts]
    \cup [scheme : {"tuic"}, opts : {"sni" :> "name"}, account : TuicAccounts]

EntrySecurity ==
    Product(Product4(Opt("tls", {"true", "false"}), Opt("servername", {"name"}),
                     Opt("alpn", {"h2"}), Opt("skip-cert-verify", {"true", "false"})),
            Opt("client-fingerprint", {"firefox"}))

Reality == Product(Opt("reality-opts.public-key", {"key", "bad"}),
                   Opt("reality-opts.short-id", {"01"}))

(* A network with the options that belong to it.                           *)
EntryTransports ==
    {NoOpts, "network" :> "tcp", "network" :> "kcp"}
    \cup Product({"network" :> "ws"}, Product(Opt("ws-opts.path", {"ws"}),
                                              Opt("ws-opts.headers.Host", {"front"})))
    \cup Product({"network" :> "grpc"}, Opt("grpc-opts.grpc-service-name", {"svc"}))
    \cup Product({"network" :> n : n \in HttpNames},
                 Product(Opt("h2-opts.path", {"ws"}), Opt("h2-opts.host", {"front"})))
    \cup Product({"network" :> "httpupgrade"},
                 Product(Opt("httpupgrade-opts.path", {"ws"}),
                         Opt("httpupgrade-opts.host", {"front"})))

QuicEntries ==
    Product4(Opt("sni", {"name"}), Opt("skip-cert-verify", {"true"}), Opt("alpn", {"h3"}),
             Product(Opt("obfs.type", {"salamander"}), Opt("obfs.password", {"secret"})))

MCEntries ==
    FormsOf({"vmess"}, Product(Product(EntrySecurity, Opt("reality-opts.public-key", {"key"})),
                               EntryTransports))
    \cup FormsOf({"vless", "trojan"},
                 Product(Product(EntrySecurity, Reality), EntryTransports))
    \cup FormsOf({"vless"}, Opt("flow", {"xtls-rprx-vision", "xtls-rprx-direct"}))
    \cup FormsOf({"hysteria2"}, QuicEntries)
    \cup [type : {"tuic"}, opts : QuicEntries, account : PlainTuic]
    \cup FormsOf({"ss"}, SsOptions \cup Opt("plugin", {"obfs-local"}))
    \cup FormsOf({"ssr"}, Product(Opt("obfs-param", {"param"}), Opt("cipher", {"rc4"})))
    \cup [type : {"vmess", "vless", "trojan", "hysteria2", "hy2"}, opts : {"sni" :> "name"},
          account : Accounts]
    \cup [type : {"ss"}, opts : {"cipher" :> "aes-256-gcm"}, account : Accounts]
    \cup [type : {"tuic"}, opts : {"sni" :> "name"}, account : TuicAccounts]

XrayTransports ==
    {NoOpts, "network" :> "kcp"}
    \cup Product({"network" :> "ws"},
                 Product(Opt("wsSettings.path", {"ws"}),
                         Product(Opt(HeadersHost, {"front"}),
                                 Opt("wsSettings.host", {"other"}))))
    \cup Product({"network" :> "grpc"}, Opt("grpcSettings.serviceName", {"svc"}))
    \cup Product({"network" :> n : n \in HttpNames},
                 Product(Opt("httpSettings.path", {"ws"}),
                         Opt("httpSettings.host", {"front"})))
    \cup Product({"network" :> "httpupgrade"},
                 Product(Opt("httpupgradeSettings.path", {"ws"}),
                         Opt("httpupgradeSettings.host", {"front"})))

XrayTls ==
    Product({"security" :> "tls"},
            Product4(Opt("tlsSettings.serverName", {"name"}),
                     Opt("tlsSettings.alpn", {"h2"}),
                     Opt("tlsSettings.fingerprint", {"firefox"}),
                     Opt("tlsSettings.allowInsecure", {"true"})))
XrayReality ==
    Product({"security" :> "reality"},
            Product4(Opt("realitySettings.publicKey", {"key", "bad"}),
                     Opt("realitySettings.shortId", {"01"}),
                     Opt("realitySettings.serverNames", {"name"}),
                     Opt("tlsSettings.serverName", {"stale"})))

MCXrays ==
    FormsOf({"vless", "vmess", "trojan"},
            Product(XrayTls \cup XrayReality \cup Opt("security", {"none"}),
                    XrayTransports))
    \cup FormsOf({"shadowsocks"},
                 Product(Opt("cipher", {"aes-256-gcm", "unknown"}),
                         Product(Opt("network", {"ws"}), Opt("security", {"tls"}))))
    \cup [type : {"vless", "vmess", "trojan", "ss"}, opts : {"cipher" :> "aes-256-gcm"},
          account : Accounts]

(* Two plain servers, one with a comma in its link, one ssr, one broken.   *)
Servers ==
    {[id |-> 1, comma |-> FALSE, kind |-> "link"],
     [id |-> 2, comma |-> FALSE, kind |-> "link"],
     [id |-> 3, comma |-> TRUE, kind |-> "link"],
     [id |-> 4, comma |-> FALSE, kind |-> "ssr"],
     [id |-> 5, comma |-> FALSE, kind |-> "broken"]}

DocumentsOf(shape, arrays, places, length) ==
    LET items == [place : places, server : Servers]
    IN  [shape : {shape}, array : arrays, base64 : BOOLEAN,
         items : UNION {[1 .. n -> items] : n \in 1 .. length}]

MCDocuments ==
    DocumentsOf("text", {FALSE}, {"token"}, 3)
    \cup DocumentsOf("yaml", {FALSE}, {"token", "proxy"}, 3)
    \cup DocumentsOf("json", {FALSE}, {"token", "proxy", "outbound", "escaped"}, 2)
    \cup DocumentsOf("json", {TRUE}, {"token", "outbound", "escaped"}, 2)
    \cup DocumentsOf("html", {FALSE}, {"token", "attribute", "script", "block"}, 3)
    \cup DocumentsOf("html", {FALSE}, {"attribute", "block", "block64"}, 2)

(* Served items: two endpoints more than names, one link Clash refuses.    *)
Items ==
    [link : LinksOf({"ss"}, {"cipher" :> c : c \in {"aes-256-gcm", "ss"}}),
     endpoint : {1, 2, 3},
     name : {<<"us a">>, <<"de b">>, <<"us a", 2>>},
     reachable : {TRUE}]
Down == [link : LinksOf({"ss"}, {"cipher" :> "aes-256-gcm"}), endpoint : {1},
         name : {<<"us a">>}, reachable : {FALSE}]

MCRankings ==
    [ranked : UNION {[1 .. n -> Items] : n \in 0 .. 3}, topN : {2, 3}]
    \cup [ranked : [1 .. 2 -> Items \cup Down], topN : {1, 2}]

MCCountryOf(name) ==
    CASE name[1] = "us a" -> {<<"US">>}
      [] name[1] = "de b" -> {<<"DE">>}
      [] OTHER -> {}

=============================================================================
