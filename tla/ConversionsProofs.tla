-------------------------- MODULE ConversionsProofs --------------------------
(* The conversions of one server, for any link, any Clash entry and any Xray *)
(* outbound: the probe, the export and the identity read a link alike, and   *)
(* what a feed says of a server reaches sing-box unchanged, but for the gaps *)
(* LinkConversion and FeedConversion list.  A form is a record of texts under*)
(* the names of its syntax.  The proofs read it one option at a time, each   *)
(* with the default of its reader (Val): a constructor is known by what every*)
(* option of its result reads as, a conversion by what each field of the wire*)
(* reads as on its two sides, and a difference of two wires is then the      *)
(* difference of some field.                                                 *)
EXTENDS Conversions, SequenceTheorems, TLAPS

-----------------------------------------------------------------------------
(* Reading one option.                                                       *)

\* One option read with its default, and an option that is there.
Val(o, k, d) == ParamOr(o, <<k>>, d)
In(o, k) == k \in DOMAIN o

\* The empty text is none of the words.
LEMMA NoTextIs ==
    /\ NoText \notin {"tls", "none", "reality", "false", "0", "bad", "true", "1", "yes", "y"}
    /\ NoText \notin {"ss", "unknown", "a", "b"}
  BY Zenon DEF NoText

\* Alternative keys, one, two or three of them.
LEMMA HasOne == ASSUME NEW o, NEW a PROVE Has(o, <<a>>) <=> In(o, a)
  BY DEF Has, In

LEMMA HasTwo == ASSUME NEW o, NEW a, NEW b PROVE Has(o, <<a, b>>) <=> In(o, a) \/ In(o, b)
<1>1. DOMAIN <<a, b>> = {1, 2}
  OBVIOUS
<1> QED
  BY <1>1 DEF Has, In

LEMMA HasThree ==
    ASSUME NEW o, NEW a, NEW b, NEW c
    PROVE  Has(o, <<a, b, c>>) <=> In(o, a) \/ In(o, b) \/ In(o, c)
  BY DEF Has, In

\* Which of the alternatives is read.
Which(o, keys) == CHOOSE i \in DOMAIN keys :
                /\ keys[i] \in DOMAIN o
                /\ \A j \in 1 .. i - 1 : keys[j] \notin DOMAIN o

LEMMA ValIs == ASSUME NEW o, NEW k, NEW d PROVE Val(o, k, d) = IF In(o, k) THEN o[k] ELSE d
<1>1. CASE In(o, k)
  <2>1. Which(o, <<k>>) = 1
    BY <1>1 DEF In, Which
  <2>2. FirstParam(o, <<k>>) = o[<<k>>[Which(o, <<k>>)]]
    BY DEF FirstParam, Which
  <2> QED
    BY <1>1, <2>1, <2>2, HasOne DEF Val, ParamOr
<1>2. CASE ~In(o, k)
  BY <1>2, HasOne DEF Val, ParamOr
<1> QED
  BY <1>1, <1>2

\* Of alternative keys the first that is there is read.
LEMMA AltTwo ==
    ASSUME NEW o, NEW a, NEW b, NEW d
    PROVE  ParamOr(o, <<a, b>>, d) = Val(o, a, Val(o, b, d))
<1> DEFINE keys == <<a, b>>
<1>0. DOMAIN keys = {1, 2} /\ keys[1] = a /\ keys[2] = b
  OBVIOUS
<1>1. FirstParam(o, keys) = o[keys[Which(o, keys)]]
  BY DEF FirstParam, Which
<1>2. In(o, a) => Which(o, keys) = 1
  BY <1>0 DEF In, Which
<1>3. ~In(o, a) /\ In(o, b) => Which(o, keys) = 2
  BY <1>0 DEF In, Which
<1> HIDE DEF keys
<1>4. Has(o, keys) <=> In(o, a) \/ In(o, b)
  BY HasTwo DEF keys
<1>5. ParamOr(o, keys, d) = IF In(o, a) THEN o[a] ELSE IF In(o, b) THEN o[b] ELSE d
  BY <1>0, <1>1, <1>2, <1>3, <1>4 DEF ParamOr
<1> QED
  BY <1>5, ValIs DEF keys

LEMMA AltThree ==
    ASSUME NEW o, NEW a, NEW b, NEW c, NEW d
    PROVE  ParamOr(o, <<a, b, c>>, d) = Val(o, a, Val(o, b, Val(o, c, d)))
<1> DEFINE keys == <<a, b, c>>
<1>0. DOMAIN keys = {1, 2, 3} /\ keys[1] = a /\ keys[2] = b /\ keys[3] = c
  OBVIOUS
<1>1. FirstParam(o, keys) = o[keys[Which(o, keys)]]
  BY DEF FirstParam, Which
<1>2. In(o, a) => Which(o, keys) = 1
  BY <1>0 DEF In, Which
<1>3. ~In(o, a) /\ In(o, b) => Which(o, keys) = 2
  BY <1>0 DEF In, Which
<1>4. ~In(o, a) /\ ~In(o, b) /\ In(o, c) => Which(o, keys) = 3
  BY <1>0 DEF In, Which
<1> HIDE DEF keys
<1>5. Has(o, keys) <=> In(o, a) \/ In(o, b) \/ In(o, c)
  BY HasThree DEF keys
<1>6. ParamOr(o, keys, d) =
        IF In(o, a) THEN o[a] ELSE IF In(o, b) THEN o[b] ELSE IF In(o, c) THEN o[c] ELSE d
  BY <1>0, <1>1, <1>2, <1>3, <1>4, <1>5 DEF ParamOr
<1> QED
  BY <1>6, ValIs DEF keys

LEMMA TruthyIs == Truthy("true") /\ ~Truthy(NoText)
  BY LowerWords, NoTextIs DEF Truthy

\* A flag is what its option says, and off without one.
LEMMA FlagReads ==
    ASSUME NEW o, NEW keys PROVE Flag(o, keys) <=> Truthy(ParamOr(o, keys, NoText))
  BY TruthyIs DEF Flag, ParamOr

\* How each constructor is read.
LEMMA InJoin == ASSUME NEW a, NEW b, NEW k PROVE In(a ++ b, k) <=> In(a, k) \/ In(b, k)
  BY DEF In, ++

LEMMA ValJoin == ASSUME NEW a, NEW b, NEW k, NEW d PROVE Val(a ++ b, k, d) = Val(a, k, Val(b, k, d))
<1>1. In(a ++ b, k) => (a ++ b)[k] = IF In(a, k) THEN a[k] ELSE b[k]
  BY DEF In, ++
<1> QED
  BY <1>1, InJoin, ValIs

LEMMA InOption == ASSUME NEW j, NEW v, NEW k PROVE In(Option(j, v), k) <=> k = j
  BY DEF In, Option

LEMMA ValOption == ASSUME NEW j, NEW v, NEW k, NEW d PROVE Val(Option(j, v), k, d) = IF k = j THEN v ELSE d
<1>1. Option(j, v)[j] = v
  BY DEF Option
<1> QED
  BY <1>1, InOption, ValIs

LEMMA InNone == ASSUME NEW k PROVE ~In(NoOpts, k)
  BY DEF In, NoOpts

LEMMA ValNone == ASSUME NEW k, NEW d PROVE Val(NoOpts, k, d) = d
  BY InNone, ValIs

LEMMA InRenamed ==
    ASSUME NEW o, NEW table, NEW k PROVE In(Renamed(o, table), k) <=> In(table, k) /\ Has(o, table[k])
  BY DEF In, Renamed

\* A renamed form has, under its new names, the first alternative there is.
LEMMA ValRenamed ==
    ASSUME NEW o, NEW table, NEW k, NEW d
    PROVE  Val(Renamed(o, table), k, d) = IF In(table, k) THEN ParamOr(o, table[k], d) ELSE d
<1>1. In(Renamed(o, table), k) => Renamed(o, table)[k] = FirstParam(o, table[k])
  BY DEF In, Renamed
<1> QED
  BY <1>1, InRenamed, ValIs DEF ParamOr

\* An option is there when the default does not matter.
LEMMA Present ==
    ASSUME NEW o, NEW keys PROVE Has(o, keys) <=> ParamOr(o, keys, "a") = ParamOr(o, keys, "b")
<1>1. "a" # "b"
  OBVIOUS
<1> QED
  BY <1>1 DEF ParamOr

LEMMA AltOne == ASSUME NEW o, NEW k, NEW d PROVE ParamOr(o, <<k>>, d) = Val(o, k, d)
  BY DEF Val

LEMMA PresentOne ==
    ASSUME NEW o, NEW k PROVE In(o, k) <=> Val(o, k, "a") = Val(o, k, "b")
  BY Present, HasOne, AltOne

-----------------------------------------------------------------------------
(* What the probe makes of a link.                                         *)

RealityKeys == <<"pbk", "public_key", "reality_pbk">>
Sec(opts) == LowerCase(ParamOr(opts, <<"security", "tls">>, NoText))
Real(opts) == Sec(opts) = "reality" \/ (Sec(opts) = NoText /\ Has(opts, RealityKeys))
On(opts, default) ==
    /\ default \/ Sec(opts) \in {"tls", "reality"} \/ Has(opts, RealityKeys)
    /\ Sec(opts) # "none"
TransportKeys == {"transport", "host", "path", "service"}
TlsKeys == {"tls", "server_name", "insecure", "alpn", "public_key"}

\* p says of TLS and of the transport what q says.
Carries(p, q) == \A k \in TlsKeys \cup TransportKeys : \A d : Val(p, k, d) = Val(q, k, d)

\* The TLS settings the probe makes of a link, option by option.
LEMMA TlsValuesRead ==
    ASSUME NEW name, NEW from, NEW reality, NEW k, NEW d
    PROVE  Val(TlsValues(name, from, reality), k, d) =
             IF k = "tls" THEN "true"
             ELSE IF k = "server_name" THEN name
             ELSE IF k = "insecure" /\ Flag(from, InsecureKeys) THEN "true"
             ELSE IF k = "alpn" THEN Val(from, "alpn", d)
             ELSE IF k = "fingerprint" THEN ParamOr(from, <<"fp", "fingerprint">>, "chrome")
             ELSE IF k = "public_key" THEN ParamOr(reality, RealityKeys, d)
             ELSE IF k = "short_id" /\ Has(reality, RealityKeys)
                  THEN ParamOr(reality, <<"sid", "short_id">>, d)
             ELSE d
<1> DEFINE insecure == When(Flag(from, InsecureKeys), Option("insecure", "true"))
           alpn == Renamed(from, [alpn |-> <<"alpn">>])
           print == Option("fingerprint", ParamOr(from, <<"fp", "fingerprint">>, "chrome"))
           key == Renamed(reality, [public_key |-> RealityKeys])
           id == When(Has(reality, RealityKeys),
                      Renamed(reality, [short_id |-> <<"sid", "short_id">>]))
           tls == Option("tls", "true")
           server == Option("server_name", name)
<1>1. TlsValues(name, from, reality) = tls ++ server ++ insecure ++ alpn ++ print ++ key ++ id
  BY DEF TlsValues, RealityKeys
<1>2. Val(id, k, d) = IF k = "short_id" /\ Has(reality, RealityKeys)
                      THEN ParamOr(reality, <<"sid", "short_id">>, d) ELSE d
  <2>1. Val(Renamed(reality, [short_id |-> <<"sid", "short_id">>]), k, d) =
            IF k = "short_id" THEN ParamOr(reality, <<"sid", "short_id">>, d) ELSE d
    BY ValRenamed DEF In
  <2> QED
    BY <2>1, ValNone DEF When
<1>3. ASSUME NEW e PROVE Val(key, k, e) = IF k = "public_key" THEN ParamOr(reality, RealityKeys, e) ELSE e
  BY ValRenamed DEF In
<1>4. ASSUME NEW e PROVE Val(alpn, k, e) = IF k = "alpn" THEN ParamOr(from, <<"alpn">>, e) ELSE e
  BY ValRenamed DEF In
<1>5. ASSUME NEW e PROVE Val(insecure, k, e) = IF k = "insecure" /\ Flag(from, InsecureKeys) THEN "true" ELSE e
  BY ValOption, ValNone DEF When
<1> HIDE DEF insecure, alpn, key, id
<1>6. Val(TlsValues(name, from, reality), k, d) =
        Val(tls, k, Val(server, k, Val(insecure, k, Val(alpn, k, Val(print, k, Val(key, k, Val(id, k, d)))))))
  BY <1>1, ValJoin
<1> QED
  BY <1>2, <1>3, <1>4, <1>5, <1>6, ValOption, AltOne

LEMMA TlsConfigIs ==
    ASSUME NEW opts, NEW default \in BOOLEAN, NEW t \in TlsConfig(opts, default)
    PROVE  t = IF On(opts, default)
               THEN TlsValues(ParamOr(opts, SniKeys, "server"), opts,
                              IF Real(opts) THEN opts ELSE NoOpts)
               ELSE NoOpts
  BY DEF TlsConfig, On, Real, Sec, RealityKeys

\* TLS is off, plain or Reality by the security, the key and the default of
\* the protocol; names and flags are read only where it is on.
LEMMA TlsConfigReads ==
    ASSUME NEW opts, NEW default \in BOOLEAN, NEW t \in TlsConfig(opts, default)
    PROVE  /\ In(t, "public_key") <=> On(opts, default) /\ Real(opts) /\ Has(opts, RealityKeys)
           /\ Val(t, "tls", "false") = IF On(opts, default) THEN "true" ELSE "false"
           /\ On(opts, default) =>
                /\ Truthy(Val(t, "insecure", NoText)) <=> Flag(opts, InsecureKeys)
                /\ Val(t, "server_name", "server") = ParamOr(opts, SniKeys, "server")
                /\ \A d : Val(t, "alpn", d) = Val(opts, "alpn", d)
           /\ \A k \in TransportKeys : \A d : Val(t, k, d) = d
           /\ t = NoOpts <=> ~On(opts, default)
<1> DEFINE reality == IF Real(opts) THEN opts ELSE NoOpts
           server == ParamOr(opts, SniKeys, "server")
           there == TlsValues(server, opts, reality)
<1>0. Truthy("true") /\ ~Truthy(NoText)
  BY TruthyIs
<1>1. t = IF On(opts, default) THEN there ELSE NoOpts
  BY TlsConfigIs
<1> HIDE DEF there
<1>2. ASSUME NEW k, NEW d
      PROVE  Val(there, k, d) =
             IF k = "tls" THEN "true"
             ELSE IF k = "server_name" THEN server
             ELSE IF k = "insecure" /\ Flag(opts, InsecureKeys) THEN "true"
             ELSE IF k = "alpn" THEN Val(opts, "alpn", d)
             ELSE IF k = "fingerprint" THEN ParamOr(opts, <<"fp", "fingerprint">>, "chrome")
             ELSE IF k = "public_key" THEN ParamOr(reality, RealityKeys, d)
             ELSE IF k = "short_id" /\ Has(reality, RealityKeys)
                  THEN ParamOr(reality, <<"sid", "short_id">>, d)
             ELSE d
  BY TlsValuesRead DEF there
<1>3. In(there, "public_key") <=> Has(reality, RealityKeys)
  <2>1. ASSUME NEW d PROVE Val(there, "public_key", d) = ParamOr(reality, RealityKeys, d)
    BY <1>2
  <2> HIDE DEF reality
  <2> QED
    BY <2>1, Present, HasOne DEF Val
<1>4. Has(reality, RealityKeys) <=> Real(opts) /\ Has(opts, RealityKeys)
  BY InNone, HasThree DEF RealityKeys
<1> HIDE DEF reality, server
<1>5. In(t, "public_key") <=> On(opts, default) /\ Real(opts) /\ Has(opts, RealityKeys)
  BY <1>1, <1>3, <1>4, InNone
<1>6. Val(t, "tls", "false") = IF On(opts, default) THEN "true" ELSE "false"
  BY <1>1, <1>2, ValNone
<1>7. On(opts, default) => (Truthy(Val(t, "insecure", NoText)) <=> Flag(opts, InsecureKeys))
  <2>1. CASE Flag(opts, InsecureKeys)
    <3>1. On(opts, default) => Val(t, "insecure", NoText) = "true"
      BY <1>1, <1>2, <2>1
    <3> QED
      BY <1>0, <2>1, <3>1
  <2>2. CASE ~Flag(opts, InsecureKeys)
    <3>1. On(opts, default) => Val(t, "insecure", NoText) = NoText
      BY <1>1, <1>2, <2>2
    <3> QED
      BY <1>0, <2>2, <3>1
  <2> QED
    BY <2>1, <2>2
<1>8. On(opts, default) => Val(t, "server_name", "server") = server
  BY <1>1, <1>2
<1>9. On(opts, default) => \A d : Val(t, "alpn", d) = Val(opts, "alpn", d)
  BY <1>1, <1>2
<1>10. \A k \in TransportKeys : \A d : Val(t, k, d) = d
  BY <1>1, <1>2, ValNone DEF TransportKeys
<1>11. t = NoOpts <=> ~On(opts, default)
  <2>1. Val(NoOpts, "tls", "false") = "false"
    BY ValNone
  <2>2. On(opts, default) => t # NoOpts
    BY <1>6, <2>1
  <2> QED
    BY <1>1, <2>2
<1> QED
  BY <1>5, <1>6, <1>7, <1>8, <1>9, <1>10, <1>11 DEF server

\* A link without Reality, or whose key decodes, has TLS settings.
LEMMA TlsConfigTaken ==
    ASSUME NEW opts, NEW default \in BOOLEAN, On(opts, default) /\ Real(opts) => ValidReality(opts)
    PROVE  TlsConfig(opts, default) # {}
  BY DEF TlsConfig, On, Real, Sec, RealityKeys

Type(opts) == LowerCase(ParamOr(opts, <<"type", "net", "network">>, "tcp"))
Hosted == {"ws", "websocket", "h2", "http", "httpupgrade"}
Used(type) == IF type = "websocket" THEN "ws" ELSE IF type \in HttpNames THEN "http" ELSE type

LEMMA TransportConfigIs ==
    ASSUME NEW opts
    PROVE  LET pathHost == Renamed(opts, [path |-> <<"path">>, host |-> <<"host">>])
               type == Type(opts)
           IN  /\ type = "tcp" => TransportConfig(opts) = {NoOpts}
               /\ type \in {"ws", "websocket"} => TransportConfig(opts) = {Option("transport", "ws") ++ pathHost}
               /\ type = "grpc" => TransportConfig(opts) = {Option("transport", "grpc") ++ Renamed(opts, [service |-> <<"serviceName", "service_name">>])}
               /\ type \in {"h2", "http"} => TransportConfig(opts) = {Option("transport", "http") ++ pathHost}
               /\ type = "httpupgrade" => TransportConfig(opts) = {Option("transport", "httpupgrade") ++ pathHost}
               /\ type \notin Transports \cup {"websocket"} => TransportConfig(opts) = {}
<1> DEFINE pathHost == Renamed(opts, [path |-> <<"path">>, host |-> <<"host">>])
           service == Renamed(opts, [service |-> <<"serviceName", "service_name">>])
           type == Type(opts)
<1>0. TransportConfig(opts) =
        CASE type = "tcp" -> {NoOpts}
          [] type \in {"ws", "websocket"} -> {Option("transport", "ws") ++ pathHost}
          [] type = "grpc" -> {Option("transport", "grpc") ++ service}
          [] type \in {"h2", "http"} -> {Option("transport", "http") ++ pathHost}
          [] type = "httpupgrade" -> {Option("transport", "httpupgrade") ++ pathHost}
          [] OTHER -> {}
  BY Zenon DEF TransportConfig, Type
<1> HIDE DEF pathHost, service, type
<1>1. type = "tcp" => TransportConfig(opts) = {NoOpts}
  BY <1>0, Zenon
<1>2. type \in {"ws", "websocket"} => TransportConfig(opts) = {Option("transport", "ws") ++ pathHost}
  BY <1>0, Zenon
<1>3. type = "grpc" => TransportConfig(opts) = {Option("transport", "grpc") ++ service}
  BY <1>0, Zenon
<1>4. type \in {"h2", "http"} => TransportConfig(opts) = {Option("transport", "http") ++ pathHost}
  BY <1>0, Zenon
<1>5. type = "httpupgrade" => TransportConfig(opts) = {Option("transport", "httpupgrade") ++ pathHost}
  BY <1>0, Zenon
<1>6. type \notin Transports \cup {"websocket"} => TransportConfig(opts) = {}
  <2> SUFFICES ASSUME type \notin Transports \cup {"websocket"} PROVE TransportConfig(opts) = {}
    OBVIOUS
  <2>1. /\ ~(type = "tcp") /\ ~(type \in {"ws", "websocket"}) /\ ~(type = "grpc")
        /\ ~(type \in {"h2", "http"}) /\ ~(type = "httpupgrade")
    BY DEF Transports, HttpNames
  <2> QED
    BY <1>0, <2>1, Zenon
<1> QED
  BY <1>1, <1>2, <1>3, <1>4, <1>5, <1>6 DEF pathHost, service, type

\* The transport the probe makes of a link, option by option.
LEMMA TransportConfigReads ==
    ASSUME NEW opts, NEW n \in TransportConfig(opts)
    PROVE  /\ Type(opts) \in Transports \cup {"websocket"}
           /\ Val(n, "transport", "tcp") = Used(Type(opts))
           /\ Val(n, "host", NoText) = IF Type(opts) \in Hosted THEN Val(opts, "host", NoText) ELSE NoText
           /\ Val(n, "path", NoText) = IF Type(opts) \in Hosted THEN Val(opts, "path", NoText) ELSE NoText
           /\ Val(n, "service", NoText) = IF Type(opts) = "grpc"
                                      THEN ParamOr(opts, <<"serviceName", "service_name">>, NoText) ELSE NoText
           /\ \A k \in TlsKeys : \A d : Val(n, k, d) = d
<1> DEFINE pathHost == Renamed(opts, [path |-> <<"path">>, host |-> <<"host">>])
           service == Renamed(opts, [service |-> <<"serviceName", "service_name">>])
           hosted(word) == Option("transport", word) ++ pathHost
           served == Option("transport", "grpc") ++ service
<1>1. ASSUME NEW k, NEW d
      PROVE  Val(pathHost, k, d) = IF k = "path" THEN ParamOr(opts, <<"path">>, d)
                                   ELSE IF k = "host" THEN ParamOr(opts, <<"host">>, d) ELSE d
  BY ValRenamed DEF In
<1>2. ASSUME NEW k, NEW d
      PROVE  Val(service, k, d) = IF k = "service" THEN ParamOr(opts, <<"serviceName", "service_name">>, d) ELSE d
  BY ValRenamed DEF In
<1> HIDE DEF pathHost, service
<1>3. ASSUME NEW k, NEW d, NEW word
      PROVE  Val(hosted(word), k, d) = IF k = "transport" THEN word ELSE
                                       IF k = "path" THEN Val(opts, "path", d)
                                       ELSE IF k = "host" THEN Val(opts, "host", d) ELSE d
  BY <1>1, ValOption, ValJoin, AltOne
<1>4. ASSUME NEW k, NEW d
      PROVE  Val(served, k, d) = IF k = "transport" THEN "grpc" ELSE
                                 IF k = "service" THEN ParamOr(opts, <<"serviceName", "service_name">>, d) ELSE d
  BY <1>2, ValOption, ValJoin
<1>5. Type(opts) \in Transports \cup {"websocket"}
  BY TransportConfigIs
<1>6. CASE Type(opts) = "tcp"
  <2>1. n = NoOpts
    BY <1>6, TransportConfigIs
  <2> QED
    BY <1>5, <1>6, <2>1, ValNone DEF Used, Hosted, HttpNames
<1>7. CASE Type(opts) \in Hosted
  <2>1. n = hosted(Used(Type(opts)))
    BY <1>7, TransportConfigIs DEF Hosted, Used, pathHost, HttpNames
  <2> HIDE DEF hosted
  <2> QED
    BY <1>3, <1>5, <1>7, <2>1 DEF TlsKeys, Hosted
<1>8. CASE Type(opts) = "grpc"
  <2>1. n = served
    BY <1>8, TransportConfigIs DEF service
  <2> HIDE DEF served
  <2> QED
    BY <1>4, <1>5, <1>8, <2>1 DEF TlsKeys, Hosted, Used, HttpNames
<1> QED
  BY <1>5, <1>6, <1>7, <1>8 DEF Hosted, Transports, HttpNames

\* A transport that sing-box has is taken.
LEMMA TransportConfigTaken ==
    ASSUME NEW opts, Type(opts) \in Transports \cup {"websocket"}
    PROVE  TransportConfig(opts) # {}
  BY TransportConfigIs DEF Transports, HttpNames

-----------------------------------------------------------------------------
(* The wire of a form, field by field.                                     *)

Mode(opts) == IF In(opts, "public_key") THEN "reality" ELSE Val(opts, "tls", "false")

\* The fields of the wire of an outbound.
LEMMA OutboundFields ==
    ASSUME NEW form
    PROVE  LET w == OutboundWire(form)
               o == form.opts
               mode == Mode(o)
           IN  /\ w.mode = mode
               /\ w.insecure = (mode # "false" /\ Truthy(Val(o, "insecure", NoText)))
               /\ w.sni = IF mode = "false" THEN "server" ELSE Val(o, "server_name", "server")
               /\ w.alpn = IF mode = "false" THEN "none" ELSE Val(o, "alpn", "none")
               /\ w.network = Val(o, "transport", "tcp")
               /\ w.host = Val(o, "host", NoText)
               /\ w.path = Val(o, "path", NoText)
               /\ w.service = Val(o, "service", NoText)
<1>1. Flag(form.opts, <<"insecure">>) <=> Truthy(Val(form.opts, "insecure", NoText))
  BY FlagReads DEF Val
<1> QED
  BY <1>1 DEF OutboundWire, Wire, Mode, In, Val

LEMMA EntryFields ==
    ASSUME NEW form
    PROVE  LET w == EntryWire(form)
               o == form.opts
               network == EntryNetwork(form)
               mode == EntryMode(form)
           IN  /\ w.mode = mode
               /\ w.insecure = (mode # "false" /\ Truthy(Val(o, "skip-cert-verify", NoText)))
               /\ w.sni = IF mode = "false" THEN "server"
                          ELSE Val(o, IF form.type \in QuicTypes THEN "sni" ELSE "servername", "server")
               /\ w.alpn = IF mode = "false" THEN "none" ELSE Val(o, "alpn", "none")
               /\ w.network = NetworkName(network)
               /\ w.host = InUse(o, network, <<"ws-opts.headers.Host">>, <<"h2-opts.host">>, <<"httpupgrade-opts.host">>)
               /\ w.path = InUse(o, network, <<"ws-opts.path">>, <<"h2-opts.path">>, <<"httpupgrade-opts.path">>)
               /\ w.service = GrpcService(o, network, "grpc-opts.grpc-service-name")
<1>1. Flag(form.opts, <<"skip-cert-verify">>) <=> Truthy(Val(form.opts, "skip-cert-verify", NoText))
  BY FlagReads DEF Val
<1> QED
  BY <1>1 DEF EntryWire, Wire, Val

LEMMA XrayFields ==
    ASSUME NEW form
    PROVE  LET w == XrayWire(form)
               o == form.opts
               network == Val(o, "network", "tcp")
               security == XraySecurityOf(form)
           IN  /\ w.mode = IF security = "tls" THEN "true" ELSE IF security = "reality" THEN "reality" ELSE "false"
               /\ w.sni = IF security = "tls" THEN Val(o, "tlsSettings.serverName", "server")
                          ELSE IF security = "reality" THEN Val(o, "realitySettings.serverNames", "server")
                          ELSE "server"
               /\ w.alpn = IF security = "tls" THEN Val(o, "tlsSettings.alpn", "none") ELSE "none"
               /\ w.network = NetworkName(network)
               /\ w.host = InUse(o, network, <<HeadersHost, "wsSettings.host">>, <<"httpSettings.host">>, <<"httpupgradeSettings.host">>)
               /\ w.path = InUse(o, network, <<"wsSettings.path">>, <<"httpSettings.path">>, <<"httpupgradeSettings.path">>)
               /\ w.service = GrpcService(o, network, "grpcSettings.serviceName")
  BY DEF XrayWire, Wire, Val

\* The options of the transport in use, and of no other.
LEMMA InUseIs ==
    ASSUME NEW o, NEW network, NEW ws, NEW http, NEW upgrade
    PROVE  InUse(o, network, ws, http, upgrade) =
             IF network = "ws" THEN ParamOr(o, ws, NoText)
             ELSE IF network \in HttpNames THEN ParamOr(o, http, NoText)
             ELSE IF network = "httpupgrade" THEN ParamOr(o, upgrade, NoText) ELSE NoText
<1>0. InUse(o, network, ws, http, upgrade) =
         CASE network = "ws" -> ParamOr(o, ws, NoText)
           [] network \in HttpNames -> ParamOr(o, http, NoText)
           [] network = "httpupgrade" -> ParamOr(o, upgrade, NoText)
           [] OTHER -> NoText
  BY DEF InUse
<1>1. ~("ws" \in HttpNames) /\ ~("httpupgrade" \in HttpNames)
  BY DEF HttpNames
<1> QED
  BY <1>0, <1>1, Zenon

LEMMA EntryModeIs ==
    ASSUME NEW form
    PROVE  EntryMode(form) =
             IF form.type \in QuicTypes THEN "true"
             ELSE IF form.type \in LayeredTypes
                  THEN IF In(form.opts, "reality-opts.public-key") THEN "reality"
                       ELSE Val(form.opts, "tls", IF form.type = "trojan" THEN "true" ELSE "false")
                  ELSE "false"
<1>0. EntryMode(form) =
        CASE form.type \in QuicTypes -> "true"
          [] form.type \in LayeredTypes ->
                IF "reality-opts.public-key" \in DOMAIN form.opts THEN "reality"
                ELSE ParamOr(form.opts, <<"tls">>, IF form.type = "trojan" THEN "true" ELSE "false")
          [] OTHER -> "false"
  BY DEF EntryMode
<1>1. ~(form.type \in QuicTypes /\ form.type \in LayeredTypes)
  BY DEF QuicTypes, LayeredTypes
<1> QED
  BY <1>0, <1>1, Zenon DEF In, Val

-----------------------------------------------------------------------------
(* What the export makes of a link.                                        *)

HostKeys == {"ws-opts.headers.Host", "h2-opts.host", "httpupgrade-opts.host"}
PathKeys == {"ws-opts.path", "h2-opts.path", "httpupgrade-opts.path"}
EntryTransportKeys == HostKeys \cup PathKeys \cup {"grpc-opts.grpc-service-name"}

\* The transport options the export writes, option by option.
LEMMA EntryTransportReads ==
    ASSUME NEW network, NEW opts, NEW service, NEW k, NEW d
    PROVE  Val(EntryTransport(network, opts, service), k, d) =
             IF network = "ws" /\ k = "ws-opts.path" THEN Val(opts, "path", d)
             ELSE IF network = "ws" /\ k = "ws-opts.headers.Host" THEN Val(opts, "host", d)
             ELSE IF network \in HttpNames /\ k = "h2-opts.path" THEN Val(opts, "path", d)
             ELSE IF network \in HttpNames /\ k = "h2-opts.host" THEN Val(opts, "host", d)
             ELSE IF network = "httpupgrade" /\ k = "httpupgrade-opts.path" THEN Val(opts, "path", d)
             ELSE IF network = "httpupgrade" /\ k = "httpupgrade-opts.host" THEN Val(opts, "host", d)
             ELSE IF network = "grpc" /\ k = "grpc-opts.grpc-service-name" THEN ParamOr(opts, service, d)
             ELSE d
<1> DEFINE of(path, host) == Renamed(opts, Option(path, <<"path">>) ++ Option(host, <<"host">>))
           ws == of("ws-opts.path", "ws-opts.headers.Host")
           grpc == Renamed(opts, Option("grpc-opts.grpc-service-name", service))
           h2 == of("h2-opts.path", "h2-opts.host")
           upgrade == of("httpupgrade-opts.path", "httpupgrade-opts.host")
<1>0. EntryTransport(network, opts, service) =
        CASE network = "ws" -> ws [] network = "grpc" -> grpc
          [] network \in {"h2", "http"} -> h2 [] network = "httpupgrade" -> upgrade
          [] OTHER -> NoOpts
  BY DEF EntryTransport
<1>1. Val(ws, k, d) = IF k = "ws-opts.path" THEN Val(opts, "path", d)
                      ELSE IF k = "ws-opts.headers.Host" THEN Val(opts, "host", d) ELSE d
  BY ValRenamed, AltOne DEF In, Option, ++
<1>2. Val(h2, k, d) = IF k = "h2-opts.path" THEN Val(opts, "path", d)
                      ELSE IF k = "h2-opts.host" THEN Val(opts, "host", d) ELSE d
  BY ValRenamed, AltOne DEF In, Option, ++
<1>3. Val(upgrade, k, d) = IF k = "httpupgrade-opts.path" THEN Val(opts, "path", d)
                           ELSE IF k = "httpupgrade-opts.host" THEN Val(opts, "host", d) ELSE d
  BY ValRenamed, AltOne DEF In, Option, ++
<1>4. Val(grpc, k, d) = IF k = "grpc-opts.grpc-service-name" THEN ParamOr(opts, service, d) ELSE d
  BY ValRenamed DEF In, Option
<1> HIDE DEF ws, h2, upgrade, grpc
<1>5. CASE network = "ws"
  <2>1. EntryTransport(network, opts, service) = ws
    <3>1. ~(network = "grpc") /\ ~(network \in {"h2", "http"}) /\ ~(network = "httpupgrade")
      BY <1>5
    <3> QED
      BY <1>0, <1>5, <3>1, Zenon
  <2> QED
    BY <1>1, <1>5, <2>1 DEF HttpNames
<1>6. CASE network = "grpc"
  <2>1. EntryTransport(network, opts, service) = grpc
    <3>1. ~(network = "ws") /\ ~(network \in {"h2", "http"}) /\ ~(network = "httpupgrade")
      BY <1>6
    <3> QED
      BY <1>0, <1>6, <3>1, Zenon
  <2> QED
    BY <1>4, <1>6, <2>1 DEF HttpNames
<1>7. CASE network \in HttpNames
  <2>1. EntryTransport(network, opts, service) = h2
    <3>1. ~(network = "ws") /\ ~(network = "grpc") /\ network \in {"h2", "http"} /\ ~(network = "httpupgrade")
      BY <1>7 DEF HttpNames
    <3> QED
      BY <1>0, <3>1, Zenon
  <2> QED
    BY <1>2, <1>7, <2>1 DEF HttpNames
<1>8. CASE network = "httpupgrade"
  <2>1. EntryTransport(network, opts, service) = upgrade
    <3>1. ~(network = "ws") /\ ~(network = "grpc") /\ ~(network \in {"h2", "http"})
      BY <1>8
    <3> QED
      BY <1>0, <1>8, <3>1, Zenon
  <2> QED
    BY <1>3, <1>8, <2>1 DEF HttpNames
<1>9. CASE /\ ~(network = "ws") /\ ~(network = "grpc")
           /\ ~(network \in {"h2", "http"}) /\ ~(network = "httpupgrade")
  <2>1. EntryTransport(network, opts, service) = NoOpts
    BY <1>0, <1>9, Zenon
  <2> QED
    BY <1>9, <2>1, ValNone DEF HttpNames
<1> QED
  BY <1>5, <1>6, <1>7, <1>8, <1>9 DEF HttpNames

\* The wire of these options is the transport of the link.
LEMMA EntryTransportWire ==
    ASSUME NEW network, NEW opts, NEW service, NEW front, NEW e,
           e = front ++ EntryTransport(network, opts, service),
           \A k \in EntryTransportKeys : \A d : Val(front, k, d) = d
    PROVE  /\ network \in Transports => InUse(e, network, <<"ws-opts.headers.Host">>, <<"h2-opts.host">>, <<"httpupgrade-opts.host">>)
                = IF network \in Hosted THEN Val(opts, "host", NoText) ELSE NoText
           /\ network \in Transports => InUse(e, network, <<"ws-opts.path">>, <<"h2-opts.path">>, <<"httpupgrade-opts.path">>)
                = IF network \in Hosted THEN Val(opts, "path", NoText) ELSE NoText
           /\ GrpcService(e, network, "grpc-opts.grpc-service-name")
                = IF network = "grpc" THEN ParamOr(opts, service, NoText) ELSE NoText
           /\ \A k, d : k \notin EntryTransportKeys => Val(e, k, d) = Val(front, k, d)
<1> DEFINE n == EntryTransport(network, opts, service)
<1>1. \A k, d : Val(e, k, d) = Val(front, k, Val(n, k, d))
  BY ValJoin
<1> HIDE DEF n
<1>2. \A k \in EntryTransportKeys : \A d : Val(e, k, d) = Val(n, k, d)
  BY <1>1
<1>3. network \in Transports => InUse(e, network, <<"ws-opts.headers.Host">>, <<"h2-opts.host">>, <<"httpupgrade-opts.host">>)
        = IF network \in Hosted THEN Val(opts, "host", NoText) ELSE NoText
  <2>1. InUse(e, network, <<"ws-opts.headers.Host">>, <<"h2-opts.host">>, <<"httpupgrade-opts.host">>)
         = IF network = "ws" THEN Val(n, "ws-opts.headers.Host", NoText)
           ELSE IF network \in HttpNames THEN Val(n, "h2-opts.host", NoText)
           ELSE IF network = "httpupgrade" THEN Val(n, "httpupgrade-opts.host", NoText) ELSE NoText
    BY <1>2, InUseIs, AltOne DEF EntryTransportKeys, HostKeys
  <2>2. network = "ws" => Val(n, "ws-opts.headers.Host", NoText) = Val(opts, "host", NoText)
    BY EntryTransportReads DEF n
  <2>3. network \in HttpNames => Val(n, "h2-opts.host", NoText) = Val(opts, "host", NoText)
    BY EntryTransportReads DEF n, HttpNames
  <2>4. network = "httpupgrade" => Val(n, "httpupgrade-opts.host", NoText) = Val(opts, "host", NoText)
    BY EntryTransportReads DEF n, HttpNames
  <2> QED
    BY <2>1, <2>2, <2>3, <2>4 DEF Hosted, HttpNames, Transports
<1>4. network \in Transports => InUse(e, network, <<"ws-opts.path">>, <<"h2-opts.path">>, <<"httpupgrade-opts.path">>)
        = IF network \in Hosted THEN Val(opts, "path", NoText) ELSE NoText
  <2>1. InUse(e, network, <<"ws-opts.path">>, <<"h2-opts.path">>, <<"httpupgrade-opts.path">>)
         = IF network = "ws" THEN Val(n, "ws-opts.path", NoText)
           ELSE IF network \in HttpNames THEN Val(n, "h2-opts.path", NoText)
           ELSE IF network = "httpupgrade" THEN Val(n, "httpupgrade-opts.path", NoText) ELSE NoText
    BY <1>2, InUseIs, AltOne DEF EntryTransportKeys, PathKeys
  <2>2. network = "ws" => Val(n, "ws-opts.path", NoText) = Val(opts, "path", NoText)
    BY EntryTransportReads DEF n
  <2>3. network \in HttpNames => Val(n, "h2-opts.path", NoText) = Val(opts, "path", NoText)
    BY EntryTransportReads DEF n, HttpNames
  <2>4. network = "httpupgrade" => Val(n, "httpupgrade-opts.path", NoText) = Val(opts, "path", NoText)
    BY EntryTransportReads DEF n, HttpNames
  <2> QED
    BY <2>1, <2>2, <2>3, <2>4 DEF Hosted, HttpNames, Transports
<1>5. GrpcService(e, network, "grpc-opts.grpc-service-name")
        = IF network = "grpc" THEN ParamOr(opts, service, NoText) ELSE NoText
  <2>1. network = "grpc" => Val(n, "grpc-opts.grpc-service-name", NoText) = ParamOr(opts, service, NoText)
    BY EntryTransportReads DEF n, HttpNames
  <2> QED
    BY <1>2, <2>1, AltOne DEF GrpcService, EntryTransportKeys
<1>6. ASSUME NEW k, NEW d, k \notin EntryTransportKeys PROVE Val(n, k, d) = d
  <2>1. /\ k # "ws-opts.headers.Host" /\ k # "h2-opts.host" /\ k # "httpupgrade-opts.host"
        /\ k # "ws-opts.path" /\ k # "h2-opts.path" /\ k # "httpupgrade-opts.path"
        /\ k # "grpc-opts.grpc-service-name"
    BY <1>6 DEF EntryTransportKeys, HostKeys, PathKeys
  <2> QED
    BY <2>1, EntryTransportReads DEF n
<1> QED
  BY <1>1, <1>3, <1>4, <1>5, <1>6

SecurityOf(opts) == ParamOr(opts, <<"security", "tls">>, NoText)
NetworkOf(opts) == ParamOr(opts, <<"type", "net", "network">>, "tcp")
EntryTls(scheme, opts) == EntryIsReality(opts) \/ SecurityOf(opts) = "tls" \/ scheme = "trojan"

\* The entry of a vless or trojan link, option by option.
LEMMA StandardEntryReads ==
    ASSUME NEW scheme, NEW opts, NEW e, e = StandardUriToClash(scheme, opts)
    PROVE  /\ In(e, "reality-opts.public-key") <=>
                EntryIsReality(opts) /\ Has(opts, <<"pbk", "public_key">>)
           /\ \A d : Val(e, "tls", d) = IF EntryTls(scheme, opts) THEN "true" ELSE d
           /\ EntryTls(scheme, opts) => Val(e, "servername", "server") = ParamOr(opts, SniKeys, "server")
           /\ Val(e, "alpn", "none") = Val(opts, "alpn", "none")
           /\ Truthy(Val(e, "skip-cert-verify", NoText)) <=> Flag(opts, InsecureKeys)
           /\ Val(e, "network", "tcp") = NetworkOf(opts)
           /\ NetworkOf(opts) \in Transports => InUse(e, NetworkOf(opts), <<"ws-opts.headers.Host">>, <<"h2-opts.host">>, <<"httpupgrade-opts.host">>)
                = IF NetworkOf(opts) \in Hosted THEN Val(opts, "host", NoText) ELSE NoText
           /\ NetworkOf(opts) \in Transports => InUse(e, NetworkOf(opts), <<"ws-opts.path">>, <<"h2-opts.path">>, <<"httpupgrade-opts.path">>)
                = IF NetworkOf(opts) \in Hosted THEN Val(opts, "path", NoText) ELSE NoText
           /\ NetworkOf(opts) \in Transports => GrpcService(e, NetworkOf(opts), "grpc-opts.grpc-service-name")
                = IF NetworkOf(opts) = "grpc" THEN ParamOr(opts, <<"serviceName", "service_name">>, NoText) ELSE NoText
<1> DEFINE network == NetworkOf(opts)
           used == IF network = "websocket" THEN "ws" ELSE network
           isReality == EntryIsReality(opts)
           flow == When(scheme = "vless", Renamed(opts, [flow |-> <<"flow">>]))
           names == Renamed(opts, Option("servername", SniKeys)
                                 ++ Option("client-fingerprint", <<"fp", "fingerprint">>))
           tls == When(EntryTls(scheme, opts), Option("tls", "true") ++ names)
           keys == Renamed(opts, Option("reality-opts.public-key", <<"pbk", "public_key">>)
                              ++ Option("reality-opts.short-id", <<"sid", "short_id">>))
           reality == When(isReality, keys)
           skip == When(Flag(opts, InsecureKeys), Option("skip-cert-verify", "true"))
           alpn == Renamed(opts, [alpn |-> <<"alpn">>])
           net == When(network # "tcp", Option("network", network))
           front == flow ++ tls ++ reality ++ skip ++ alpn ++ net
<1>0. Truthy("true") /\ ~Truthy(NoText)
  BY TruthyIs
<1>1. e = front ++ EntryTransport(used, opts, <<"serviceName", "service_name">>)
  BY DEF StandardUriToClash, EntryTls, NetworkOf, SecurityOf
<1>2. ASSUME NEW k, NEW d PROVE k # "flow" => Val(flow, k, d) = d
  BY ValRenamed, ValNone DEF When, In
<1>3. ASSUME NEW k, NEW d
      PROVE  Val(names, k, d) = IF k = "servername" THEN ParamOr(opts, SniKeys, d)
                                ELSE IF k = "client-fingerprint" THEN ParamOr(opts, <<"fp", "fingerprint">>, d)
                                ELSE d
  BY ValRenamed DEF In, Option, ++
<1> HIDE DEF names
<1>4. ASSUME NEW k, NEW d
      PROVE  Val(tls, k, d) =
               IF ~EntryTls(scheme, opts) THEN d
               ELSE IF k = "tls" THEN "true"
               ELSE IF k = "servername" THEN ParamOr(opts, SniKeys, d)
               ELSE IF k = "client-fingerprint" THEN ParamOr(opts, <<"fp", "fingerprint">>, d)
               ELSE d
  <2>1. Val(Option("tls", "true") ++ names, k, d) =
          IF k = "tls" THEN "true"
          ELSE IF k = "servername" THEN ParamOr(opts, SniKeys, d)
          ELSE IF k = "client-fingerprint" THEN ParamOr(opts, <<"fp", "fingerprint">>, d)
          ELSE d
    BY <1>3, ValJoin, ValOption
  <2> QED
    BY <2>1, ValNone DEF When
<1>5. ASSUME NEW k, NEW d
      PROVE  Val(keys, k, d) =
               IF k = "reality-opts.public-key" THEN ParamOr(opts, <<"pbk", "public_key">>, d)
               ELSE IF k = "reality-opts.short-id" THEN ParamOr(opts, <<"sid", "short_id">>, d)
               ELSE d
  BY ValRenamed DEF In, Option, ++
<1> HIDE DEF keys
<1>6. ASSUME NEW k, NEW d
      PROVE  Val(reality, k, d) =
               IF ~isReality THEN d
               ELSE IF k = "reality-opts.public-key" THEN ParamOr(opts, <<"pbk", "public_key">>, d)
               ELSE IF k = "reality-opts.short-id" THEN ParamOr(opts, <<"sid", "short_id">>, d)
               ELSE d
  BY <1>5, ValNone DEF When
<1>7. ASSUME NEW k, NEW d
      PROVE  Val(skip, k, d) = IF k = "skip-cert-verify" /\ Flag(opts, InsecureKeys) THEN "true" ELSE d
  BY ValOption, ValNone DEF When
<1>8. ASSUME NEW k, NEW d PROVE Val(alpn, k, d) = IF k = "alpn" THEN ParamOr(opts, <<"alpn">>, d) ELSE d
  BY ValRenamed DEF In
<1>9. ASSUME NEW k, NEW d PROVE Val(net, k, d) = IF k = "network" /\ network # "tcp" THEN network ELSE d
  BY ValOption, ValNone DEF When
<1> HIDE DEF flow, tls, reality, skip, alpn, net, isReality
<1>10. ASSUME NEW k, NEW d
       PROVE  Val(front, k, d) = Val(flow, k, Val(tls, k, Val(reality, k, Val(skip, k, Val(alpn, k, Val(net, k, d))))))
  BY ValJoin
<1> HIDE DEF front, network, used
<1>11. \A k \in EntryTransportKeys : \A d : Val(front, k, d) = d
  BY <1>2, <1>4, <1>6, <1>7, <1>8, <1>9, <1>10 DEF EntryTransportKeys, HostKeys, PathKeys
<1>12. \A k, d : k \notin EntryTransportKeys => Val(e, k, d) = Val(front, k, d)
  BY <1>1, <1>11, EntryTransportWire
<1>13. \A d : Val(e, "reality-opts.public-key", d) = IF isReality THEN ParamOr(opts, <<"pbk", "public_key">>, d) ELSE d
  BY <1>2, <1>4, <1>6, <1>7, <1>8, <1>9, <1>10, <1>12 DEF EntryTransportKeys, HostKeys, PathKeys
<1>14. In(e, "reality-opts.public-key") <=> isReality /\ Has(opts, <<"pbk", "public_key">>)
  <2>1. CASE isReality
    BY <1>13, <2>1, Present, HasOne, AltOne
  <2>2. CASE ~isReality
    <3>1. Val(e, "reality-opts.public-key", "a") = "a" /\ Val(e, "reality-opts.public-key", "b") = "b"
      BY <1>13, <2>2
    <3> QED
      BY <2>2, <3>1, Present, HasOne, AltOne
  <2> QED
    BY <2>1, <2>2
<1>15. \A d : Val(e, "tls", d) = IF EntryTls(scheme, opts) THEN "true" ELSE d
  BY <1>2, <1>4, <1>6, <1>7, <1>8, <1>9, <1>10, <1>12 DEF EntryTransportKeys, HostKeys, PathKeys
<1>16. EntryTls(scheme, opts) => Val(e, "servername", "server") = ParamOr(opts, SniKeys, "server")
  BY <1>2, <1>4, <1>6, <1>7, <1>8, <1>9, <1>10, <1>12 DEF EntryTransportKeys, HostKeys, PathKeys
<1>17. Val(e, "alpn", "none") = Val(opts, "alpn", "none")
  BY <1>2, <1>4, <1>6, <1>7, <1>8, <1>9, <1>10, <1>12, AltOne DEF EntryTransportKeys, HostKeys, PathKeys
<1>18. Val(e, "network", "tcp") = network
  BY <1>2, <1>4, <1>6, <1>7, <1>8, <1>9, <1>10, <1>12 DEF EntryTransportKeys, HostKeys, PathKeys
<1>19. Val(e, "skip-cert-verify", NoText) = Val(skip, "skip-cert-verify", NoText)
  BY <1>2, <1>4, <1>6, <1>8, <1>9, <1>10, <1>12 DEF EntryTransportKeys, HostKeys, PathKeys
<1>20. Truthy(Val(e, "skip-cert-verify", NoText)) <=> Flag(opts, InsecureKeys)
  <2>1. CASE Flag(opts, InsecureKeys)
    BY <1>0, <1>7, <1>19, <2>1
  <2>2. CASE ~Flag(opts, InsecureKeys)
    BY <1>0, <1>7, <1>19, <2>2
  <2> QED
    BY <2>1, <2>2
<1>21. network \in Transports => used = network
  BY DEF used, Transports, HttpNames
<1>22. network \in Transports =>
         InUse(e, network, <<"ws-opts.headers.Host">>, <<"h2-opts.host">>, <<"httpupgrade-opts.host">>)
           = IF network \in Hosted THEN Val(opts, "host", NoText) ELSE NoText
  BY <1>1, <1>11, <1>21, EntryTransportWire
<1>23. network \in Transports =>
         InUse(e, network, <<"ws-opts.path">>, <<"h2-opts.path">>, <<"httpupgrade-opts.path">>)
           = IF network \in Hosted THEN Val(opts, "path", NoText) ELSE NoText
  BY <1>1, <1>11, <1>21, EntryTransportWire
<1>24. network \in Transports =>
         GrpcService(e, network, "grpc-opts.grpc-service-name")
           = IF network = "grpc" THEN ParamOr(opts, <<"serviceName", "service_name">>, NoText) ELSE NoText
  BY <1>1, <1>11, <1>21, EntryTransportWire
<1> QED
  BY <1>14, <1>15, <1>16, <1>17, <1>18, <1>20, <1>22, <1>23, <1>24 DEF network, isReality

-----------------------------------------------------------------------------
(* The two agree but for the gaps.                                         *)

\* A difference of two wires is the difference of one field.
LEMMA ByField ==
    ASSUME NEW A, NEW B, NEW gaps,
           A.mode = B.mode \/ "mode" \in gaps, A.insecure = B.insecure \/ "insecure" \in gaps,
           A.sni = B.sni \/ "sni" \in gaps, A.alpn = B.alpn \/ "alpn" \in gaps,
           A.network = B.network \/ "network" \in gaps, A.host = B.host \/ "host" \in gaps,
           A.path = B.path \/ "path" \in gaps, A.service = B.service \/ "service" \in gaps
    PROVE  Differences(A, B) \subseteq gaps
<1> SUFFICES ASSUME NEW f \in Fields, A[f] # B[f] PROVE f \in gaps
  BY DEF Differences
<1> QED
  BY DEF Fields, TlsFields, TransportFields

\* Each exception of the export, with the inputs that meet it.
LEMMA ExportGapsAre ==
    ASSUME NEW l
    PROVE  LET o == l.opts
               quic == l.scheme \in QuicTypes
               security == Security(l)
               word == LowerCase(security)
               gaps == ExportGaps(l)
           IN  /\ l.scheme = "vmess" /\ ~In(o, "sni") /\ In(o, "host") => "sni" \in gaps
               /\ l.scheme = "vmess" /\ Network(l) = "grpc" => "service" \in gaps
               /\ Network(l) \notin Transports => TransportFields \subseteq gaps
               /\ l.scheme = "vless" /\ word \in {"tls", "reality"} /\ security # word => TlsFields \subseteq gaps
               /\ l.scheme = "vless" /\ RealityKey(l) /\ word \notin {NoText, "none", "tls", "reality"} => TlsFields \subseteq gaps
               /\ l.scheme = "trojan" /\ (word = "none" \/ (word = "reality" /\ security # word)) => TlsFields \subseteq gaps
               /\ RealityKey(l) /\ ~Has(o, <<"pbk", "public_key">>) /\ security \in {NoText, "reality"} => TlsFields \subseteq gaps
               /\ quic /\ (word \in {"none", "reality"} \/ (security = NoText /\ RealityKey(l))) => TlsFields \subseteq gaps
               /\ quic /\ (~In(o, "insecure") \/ In(o, "allowInsecure") \/ LowerCase(o["insecure"]) \in {"yes", "y"}) => "insecure" \in gaps
               /\ quic /\ ~In(o, "sni") => "sni" \in gaps
               /\ quic /\ l.scheme # "tuic" => "alpn" \in gaps
  BY DEF ExportGaps, Where, In, QuicTypes

ProbeMode(opts, default) ==
    IF ~On(opts, default) THEN "false"
    ELSE IF Real(opts) /\ Has(opts, RealityKeys) THEN "reality" ELSE "true"

\* What the probe tells sing-box of TLS and a transport, as fields.
LEMMA LayeredReads ==
    ASSUME NEW opts, NEW default \in BOOLEAN, NEW t \in TlsConfig(opts, default),
           NEW n \in TransportConfig(opts), NEW p, Carries(p, t ++ n)
    PROVE  /\ Mode(p) = ProbeMode(opts, default)
           /\ On(opts, default) =>
                /\ Truthy(Val(p, "insecure", NoText)) <=> Flag(opts, InsecureKeys)
                /\ Val(p, "server_name", "server") = ParamOr(opts, SniKeys, "server")
                /\ Val(p, "alpn", "none") = Val(opts, "alpn", "none")
           /\ Type(opts) \in Transports \cup {"websocket"}
           /\ Val(p, "transport", "tcp") = Used(Type(opts))
           /\ Val(p, "host", NoText) = IF Type(opts) \in Hosted THEN Val(opts, "host", NoText) ELSE NoText
           /\ Val(p, "path", NoText) = IF Type(opts) \in Hosted THEN Val(opts, "path", NoText) ELSE NoText
           /\ Val(p, "service", NoText) = IF Type(opts) = "grpc"
                                      THEN ParamOr(opts, <<"serviceName", "service_name">>, NoText) ELSE NoText
<1>0. \A k \in TlsKeys \cup TransportKeys : \A d : Val(p, k, d) = Val(t, k, Val(n, k, d))
  BY ValJoin DEF Carries
<1>1. \A k \in TlsKeys : \A d : Val(p, k, d) = Val(t, k, d)
  BY <1>0, TransportConfigReads
<1>2. \A k \in TransportKeys : \A d : Val(p, k, d) = Val(n, k, d)
  BY <1>0, TlsConfigReads
<1>3. In(p, "public_key") <=> In(t, "public_key")
  BY <1>1, PresentOne DEF TlsKeys
<1>4. Mode(p) = ProbeMode(opts, default)
  BY <1>1, <1>3, TlsConfigReads DEF Mode, ProbeMode, TlsKeys
<1>5. On(opts, default) =>
        /\ Truthy(Val(p, "insecure", NoText)) <=> Flag(opts, InsecureKeys)
        /\ Val(p, "server_name", "server") = ParamOr(opts, SniKeys, "server")
        /\ Val(p, "alpn", "none") = Val(opts, "alpn", "none")
  BY <1>1, TlsConfigReads DEF TlsKeys
<1> QED
  BY <1>2, <1>4, <1>5, TransportConfigReads DEF TransportKeys

\* A text that is there stays one in lower case.
LEMMA FilledReads ==
    ASSUME NEW opts, Filled(opts), NEW a, NEW b
    PROVE  /\ LowerCase(ParamOr(opts, <<a, b>>, NoText)) = NoText <=> ParamOr(opts, <<a, b>>, NoText) = NoText
           /\ LowerCase(Val(opts, a, NoText)) = NoText <=> Val(opts, a, NoText) = NoText
<1>1. LowerCase(NoText) = NoText
  BY LowerWords
<1>2. \A k : In(opts, k) => LowerCase(opts[k]) # NoText /\ opts[k] # NoText
  BY <1>1 DEF Filled, In
<1> QED
  BY <1>1, <1>2, AltTwo, ValIs

\* The words of the code are in lower case.
LEMMA Words ==
    /\ LowerCase(NoText) = NoText /\ LowerCase("tls") = "tls" /\ LowerCase("reality") = "reality"
    /\ LowerCase("none") = "none" /\ LowerCase("false") = "false" /\ LowerCase("0") = "0"
    /\ \A w \in Transports \cup {"websocket"} : LowerCase(w) = w
  BY LowerWords DEF Transports, HttpNames

\* The probe and the export agree on a vless or trojan link but for the gaps.
LEMMA StandardAgrees ==
    ASSUME NEW l, l.scheme \in {"vless", "trojan"}, Filled(l.opts), NEW o, NEW e,
           NEW default \in BOOLEAN, default <=> l.scheme = "trojan",
           NEW t \in TlsConfig(l.opts, default), NEW n \in TransportConfig(l.opts),
           Carries(o.opts, t ++ n),
           e.type = l.scheme, e.opts = StandardUriToClash(l.scheme, l.opts)
    PROVE  Differences(OutboundWire(o), EntryWire(e)) \subseteq ExportGaps(l)
<1> DEFINE opts == l.opts
           security == SecurityOf(opts)
           word == LowerCase(security)
           network == NetworkOf(opts)
           gaps == ExportGaps(l)
           A == OutboundWire(o)
           B == EntryWire(e)
<1>1. /\ Security(l) = security /\ Network(l) = network /\ Sec(opts) = word
      /\ RealityKey(l) <=> Has(opts, RealityKeys)
      /\ Type(opts) = LowerCase(network) /\ ~(l.scheme \in QuicTypes)
      /\ e.type \in LayeredTypes /\ ~(e.type \in QuicTypes)
  BY DEF Security, SecurityOf, Network, NetworkOf, Sec, RealityKey, RealityKeys, Type, QuicTypes, LayeredTypes
<1>2. word = NoText <=> security = NoText
  BY FilledReads DEF SecurityOf
<1>3. /\ Mode(o.opts) = ProbeMode(opts, default)
      /\ On(opts, default) =>
           /\ Truthy(Val(o.opts, "insecure", NoText)) <=> Flag(opts, InsecureKeys)
           /\ Val(o.opts, "server_name", "server") = ParamOr(opts, SniKeys, "server")
           /\ Val(o.opts, "alpn", "none") = Val(opts, "alpn", "none")
      /\ Type(opts) \in Transports \cup {"websocket"}
      /\ Val(o.opts, "transport", "tcp") = Used(Type(opts))
      /\ Val(o.opts, "host", NoText) = IF Type(opts) \in Hosted THEN Val(opts, "host", NoText) ELSE NoText
      /\ Val(o.opts, "path", NoText) = IF Type(opts) \in Hosted THEN Val(opts, "path", NoText) ELSE NoText
      /\ Val(o.opts, "service", NoText) = IF Type(opts) = "grpc"
                                 THEN ParamOr(opts, <<"serviceName", "service_name">>, NoText) ELSE NoText
  BY LayeredReads
<1>4. /\ EntryIsReality(opts) <=> security = "reality" \/ (security = NoText /\ Has(opts, <<"pbk", "public_key">>))
      /\ EntryTls(l.scheme, opts) <=> EntryIsReality(opts) \/ security = "tls" \/ l.scheme = "trojan"
      /\ Has(opts, <<"pbk", "public_key">>) => Has(opts, RealityKeys)
  BY HasTwo, HasThree DEF EntryIsReality, EntryTls, SecurityOf, RealityKeys
<1>5. EntryMode(e) = IF EntryIsReality(opts) /\ Has(opts, <<"pbk", "public_key">>) THEN "reality"
                     ELSE IF EntryTls(l.scheme, opts) THEN "true" ELSE "false"
  <2>1. In(e.opts, "reality-opts.public-key") <=> EntryIsReality(opts) /\ Has(opts, <<"pbk", "public_key">>)
    BY StandardEntryReads
  <2>2. \A d : Val(e.opts, "tls", d) = IF EntryTls(l.scheme, opts) THEN "true" ELSE d
    BY StandardEntryReads
  <2>3. EntryMode(e) = IF In(e.opts, "reality-opts.public-key") THEN "reality"
                       ELSE Val(e.opts, "tls", IF e.type = "trojan" THEN "true" ELSE "false")
    BY <1>1, EntryModeIs
  <2>4. e.type = "trojan" => EntryTls(l.scheme, opts)
    BY <1>4
  <2>5. CASE EntryTls(l.scheme, opts)
    BY <2>1, <2>2, <2>3, <2>5
  <2>6. CASE ~EntryTls(l.scheme, opts)
    <3>1. e.type # "trojan" /\ Val(e.opts, "tls", "false") = "false"
      BY <2>2, <2>4, <2>6
    <3> QED
      BY <2>1, <2>3, <2>6, <3>1
  <2> QED
    BY <2>5, <2>6
<1>6. \/ ProbeMode(opts, default) = EntryMode(e) /\ (On(opts, default) => EntryTls(l.scheme, opts))
      \/ TlsFields \subseteq gaps
  BY <1>1, <1>2, <1>4, <1>5, Words, ExportGapsAre, NoTextIs DEF ProbeMode, On, Real
<1>7. ProbeMode(opts, default) # "false" <=> On(opts, default)
  BY DEF ProbeMode
<1>8. /\ A.mode = Mode(o.opts)
      /\ A.insecure = (A.mode # "false" /\ Truthy(Val(o.opts, "insecure", NoText)))
      /\ A.sni = IF A.mode = "false" THEN "server" ELSE Val(o.opts, "server_name", "server")
      /\ A.alpn = IF A.mode = "false" THEN "none" ELSE Val(o.opts, "alpn", "none")
      /\ A.network = Val(o.opts, "transport", "tcp") /\ A.host = Val(o.opts, "host", NoText)
      /\ A.path = Val(o.opts, "path", NoText) /\ A.service = Val(o.opts, "service", NoText)
  BY OutboundFields
<1>9. /\ B.mode = EntryMode(e)
      /\ B.insecure = (B.mode # "false" /\ Truthy(Val(e.opts, "skip-cert-verify", NoText)))
      /\ B.sni = IF B.mode = "false" THEN "server" ELSE Val(e.opts, "servername", "server")
      /\ B.alpn = IF B.mode = "false" THEN "none" ELSE Val(e.opts, "alpn", "none")
  BY <1>1, EntryFields
<1>10. /\ EntryTls(l.scheme, opts) => Val(e.opts, "servername", "server") = ParamOr(opts, SniKeys, "server")
       /\ Val(e.opts, "alpn", "none") = Val(opts, "alpn", "none")
       /\ Truthy(Val(e.opts, "skip-cert-verify", NoText)) <=> Flag(opts, InsecureKeys)
       /\ Val(e.opts, "network", "tcp") = network
  BY StandardEntryReads
<1>11. EntryNetwork(e) = network
  BY <1>1, <1>10 DEF EntryNetwork, Val
<1>12. ~(TlsFields \subseteq gaps) =>
         A.mode = B.mode /\ A.insecure = B.insecure /\ A.sni = B.sni /\ A.alpn = B.alpn
  <2> SUFFICES ASSUME ~(TlsFields \subseteq gaps)
               PROVE  A.mode = B.mode /\ A.insecure = B.insecure /\ A.sni = B.sni /\ A.alpn = B.alpn
    OBVIOUS
  <2>1. A.mode = B.mode /\ A.mode = ProbeMode(opts, default) /\ (A.mode # "false" => On(opts, default) /\ EntryTls(l.scheme, opts))
    BY <1>3, <1>6, <1>7, <1>8, <1>9
  <2>2. A.sni = B.sni /\ A.alpn = B.alpn
    BY <1>3, <1>8, <1>9, <1>10, <2>1
  <2>3. (A.mode # "false" /\ Truthy(Val(o.opts, "insecure", NoText)))
          <=> (B.mode # "false" /\ Truthy(Val(e.opts, "skip-cert-verify", NoText)))
    BY <1>3, <1>10, <2>1
  <2>4. A.insecure = B.insecure
    BY <1>8, <1>9, <2>3
  <2> QED
    BY <2>1, <2>2, <2>4
<1>13. network \in Transports =>
         A.network = B.network /\ A.host = B.host /\ A.path = B.path /\ A.service = B.service
  <2> SUFFICES ASSUME network \in Transports
               PROVE  A.network = B.network /\ A.host = B.host /\ A.path = B.path /\ A.service = B.service
    OBVIOUS
  <2>1. Type(opts) = network /\ Used(network) = NetworkName(network)
    BY <1>1, Words DEF Used, NetworkName, Transports, HttpNames
  <2>2. /\ B.network = NetworkName(network)
        /\ B.host = InUse(e.opts, network, <<"ws-opts.headers.Host">>, <<"h2-opts.host">>, <<"httpupgrade-opts.host">>)
        /\ B.path = InUse(e.opts, network, <<"ws-opts.path">>, <<"h2-opts.path">>, <<"httpupgrade-opts.path">>)
        /\ B.service = GrpcService(e.opts, network, "grpc-opts.grpc-service-name")
    BY <1>11, EntryFields
  <2>3. A.network = B.network
    BY <1>3, <1>8, <2>1, <2>2
  <2>4. A.host = B.host
    BY <1>3, <1>8, <2>1, <2>2, StandardEntryReads
  <2>5. A.path = B.path
    BY <1>3, <1>8, <2>1, <2>2, StandardEntryReads
  <2>6. A.service = B.service
    BY <1>3, <1>8, <2>1, <2>2, StandardEntryReads
  <2> QED
    BY <2>3, <2>4, <2>5, <2>6
<1>14. network \notin Transports => TransportFields \subseteq gaps
  BY <1>1, ExportGapsAre
<1> HIDE DEF A, B, gaps, network
<1> QED
  BY <1>12, <1>13, <1>14, ByField DEF TlsFields, TransportFields, A, B, gaps

-----------------------------------------------------------------------------
(* The identity of a link.                                                 *)

Off == {"none", "false", "0"}

\* The security in the identity of a link is one of three words.
LEMMA NormalizeTlsIs ==
    ASSUME NEW value
    PROVE  NormalizeTls(value) = IF LowerCase(value) \in Off THEN "none"
                                 ELSE IF LowerCase(value) = "reality" THEN "reality" ELSE "tls"
<1>1. ~("reality" \in Off)
  BY DEF Off
<1>2. NormalizeTls(value) =
        CASE LowerCase(value) \in Off -> "none" [] LowerCase(value) = "reality" -> "reality"
          [] OTHER -> "tls"
  BY DEF NormalizeTls, Off
<1> QED
  BY <1>1, <1>2, Zenon

\* The kind of TLS that word stands for.
LEMMA KeyModeIs ==
    ASSUME NEW l, NEW parts,
           parts = DedupParts(IF l.scheme = "hy2" THEN "hysteria2" ELSE l.scheme, l.opts)
    PROVE  KeyMode(l) = IF parts[2] = "none" THEN "false"
                        ELSE IF parts[2] = "tls" THEN "true" ELSE "reality"
<1>1. KeyMode(l) = CASE parts[2] = "none" -> "false" [] parts[2] = "tls" -> "true" [] OTHER -> "reality"
  BY DEF KeyMode
<1>2. "none" # "tls"
  OBVIOUS
<1> QED
  BY <1>1, <1>2, Zenon

LEMMA QueryKeyIs ==
    ASSUME NEW opts, Filled(opts), NEW default \in BOOLEAN
    PROVE  QueryDedupParts(opts, default)[2] =
             IF Sec(opts) = NoText
             THEN IF Has(opts, RealityKeys) THEN "reality" ELSE IF default THEN "tls" ELSE "none"
             ELSE IF Sec(opts) \in Off THEN "none"
             ELSE IF Sec(opts) = "reality" \/ Has(opts, RealityKeys) THEN "reality" ELSE "tls"
<1> DEFINE keys == <<"security", "tls">>
           security == NormalizeTls(FirstParam(opts, keys))
           key == Has(opts, RealityKeys)
           tls == IF Has(opts, keys) THEN IF security # "none" /\ key THEN "reality" ELSE security
                  ELSE IF key THEN "reality" ELSE IF default THEN "tls" ELSE "none"
<1>1. QueryDedupParts(opts, default)[2] = tls
  BY DEF QueryDedupParts, RealityKeys
<1>2. Has(opts, keys) => Sec(opts) = LowerCase(FirstParam(opts, keys))
  BY DEF Sec, ParamOr
<1>3. Has(opts, keys) <=> Sec(opts) # NoText
  <2>1. ~Has(opts, keys) => Sec(opts) = NoText
    BY Words DEF Sec, ParamOr
  <2>2. \A k : In(opts, k) => LowerCase(Val(opts, k, NoText)) # NoText /\ Val(opts, k, NoText) # NoText
    BY Words, ValIs DEF Filled, In
  <2>3. \A k, d : ~In(opts, k) => Val(opts, k, d) = d
    BY ValIs
  <2>4. \A k, d, e : In(opts, k) => Val(opts, k, d) = Val(opts, k, e)
    BY ValIs
  <2>5. Sec(opts) = LowerCase(Val(opts, "security", Val(opts, "tls", NoText)))
    BY AltTwo DEF Sec
  <2>6. Has(opts, keys) <=> In(opts, "security") \/ In(opts, "tls")
    BY HasTwo
  <2>7. In(opts, "security") => Sec(opts) # NoText
    BY <2>2, <2>4, <2>5
  <2>8. ~In(opts, "security") /\ In(opts, "tls") => Sec(opts) # NoText
    BY <2>2, <2>3, <2>5
  <2> QED
    BY <2>1, <2>6, <2>7, <2>8
<1>4. Has(opts, keys) => security = IF Sec(opts) \in Off THEN "none"
                                    ELSE IF Sec(opts) = "reality" THEN "reality" ELSE "tls"
  BY <1>2, NormalizeTlsIs
<1> HIDE DEF security, key
<1>5. CASE Has(opts, keys)
  BY <1>1, <1>3, <1>4, <1>5 DEF key
<1>6. CASE ~Has(opts, keys)
  BY <1>1, <1>3, <1>6 DEF key
<1> QED
  BY <1>5, <1>6

\* The identity of a vless or trojan link has the TLS the probe has.
LEMMA StandardKeyAgrees ==
    ASSUME NEW l, l.scheme \in {"vless", "trojan"}, Filled(l.opts),
           NEW default \in BOOLEAN, default <=> l.scheme = "trojan"
    PROVE  KeyGap(l) \/ KeyMode(l) = ProbeMode(l.opts, default)
<1> DEFINE opts == l.opts
<1>1. DedupParts(IF l.scheme = "hy2" THEN "hysteria2" ELSE l.scheme, opts) =
        QueryDedupParts(opts, default)
  <2>1. (IF l.scheme = "hy2" THEN "hysteria2" ELSE l.scheme) = l.scheme
    OBVIOUS
  <2>2. ~(l.scheme = "vmess") /\ ~(l.scheme = "ssr")
    OBVIOUS
  <2>3. DedupParts(l.scheme, opts) = QueryDedupParts(opts, l.scheme \in {"trojan", "hysteria2", "tuic"})
    BY <2>2, Zenon DEF DedupParts
  <2>4. CASE l.scheme = "trojan"
    <3>1. (l.scheme \in {"trojan", "hysteria2", "tuic"}) = default
      BY <2>4
    <3> QED
      BY <2>1, <2>3, <3>1
  <2>5. CASE l.scheme = "vless"
    <3>1. (l.scheme \in {"trojan", "hysteria2", "tuic"}) = default
      BY <2>5
    <3> QED
      BY <2>1, <2>3, <3>1
  <2> QED
    BY <2>4, <2>5
<1>2. /\ LowerCase(Security(l)) = Sec(opts)
      /\ RealityKey(l) <=> Has(opts, RealityKeys)
  BY DEF Security, Sec, RealityKey, RealityKeys
<1>3. KeyGap(l) <=>
        \/ Has(opts, RealityKeys) /\ Sec(opts) \notin {NoText, "none", "reality"}
        \/ ~Has(opts, RealityKeys) /\ Sec(opts) = "reality"
        \/ l.scheme = "vless" /\ Sec(opts) \notin Off \cup {NoText, "tls", "reality"}
        \/ l.scheme = "trojan" /\ Sec(opts) \in {"false", "0"}
  BY <1>2 DEF KeyGap, Off, QuicTypes
<1> QED
  BY <1>1, <1>3, KeyModeIs, QueryKeyIs, NoTextIs DEF ProbeMode, On, Real, Off

-----------------------------------------------------------------------------
(* The outbounds of a link, scheme by scheme.                                *)

\* The flow of a vless link is no part of the wire.
LEMMA FlowReads ==
    ASSUME NEW opts, NEW f \in VlessFlow(opts)
    PROVE  \A k, d : k # "flow" => Val(f, k, d) = d
<1> DEFINE flow == LowerCase(ParamOr(opts, <<"flow">>, "none"))
<1>1. VlessFlow(opts) = CASE flow = "none" -> {NoOpts}
          [] flow = "xtls-rprx-vision" -> {Option("flow", flow)}
          [] OTHER -> {}
  BY DEF VlessFlow
<1> HIDE DEF flow
<1>2. "none" # "xtls-rprx-vision"
  OBVIOUS
<1>3. f = NoOpts \/ f = Option("flow", flow)
  BY <1>1, <1>2, Zenon
<1> QED
  BY <1>3, ValNone, ValOption

LEMMA FlowTaken ==
    ASSUME NEW opts, LowerCase(Val(opts, "flow", "none")) \in {"none", "xtls-rprx-vision"}
    PROVE  VlessFlow(opts) # {}
<1> DEFINE flow == LowerCase(ParamOr(opts, <<"flow">>, "none"))
<1>1. VlessFlow(opts) = CASE flow = "none" -> {NoOpts}
          [] flow = "xtls-rprx-vision" -> {Option("flow", flow)}
          [] OTHER -> {}
  BY DEF VlessFlow
<1> HIDE DEF flow
<1>2. "none" # "xtls-rprx-vision"
  OBVIOUS
<1>3. VlessFlow(opts) = {NoOpts} \/ VlessFlow(opts) = {Option("flow", flow)}
  <2>1. flow = "none" \/ flow = "xtls-rprx-vision"
    BY DEF Val, flow
  <2> QED
    BY <1>1, <1>2, <2>1, Zenon
<1> QED
  BY <1>3

\* The outbounds of each scheme over given TLS settings.
OrDefault(t) == IF t = NoOpts THEN Option("tls", "true") ELSE t
Layered(opts, ts) ==
    {OutboundWith("vless", f ++ t ++ n) :
        f \in VlessFlow(opts), t \in ts, n \in TransportConfig(opts)}
Trojans(opts, ts) == {OutboundWith("trojan", t ++ n) : t \in ts, n \in TransportConfig(opts)}
Obfs(opts) == Renamed(opts, [obfs |-> <<"obfs">>])
ObfsPassword(opts) ==
    When("obfs" \in DOMAIN opts,
         Renamed(opts, [obfs_password |-> <<"obfs-password", "obfs_password">>]))
Hysterias(opts, ts) ==
    {OutboundWith("hysteria2", OrDefault(t) ++ Obfs(opts) ++ ObfsPassword(opts)) : t \in ts}
Congestion(opts) ==
    Renamed(opts, [congestion |-> <<"congestion_control", "congestion">>,
                   relay |-> <<"udp_relay_mode", "udp-relay-mode">>])
Tuics(opts, ts) == {OutboundWith("tuic", OrDefault(t) ++ Congestion(opts)) : t \in ts}

\* The outbound of each scheme is made of its TLS settings and its transport.
LEMMA StandardOutboundIs ==
    ASSUME NEW scheme, NEW opts
    PROVE  /\ scheme = "vless" => StandardOutbound(scheme, opts) = Layered(opts, TlsConfig(opts, FALSE))
           /\ scheme = "trojan" => StandardOutbound(scheme, opts) = Trojans(opts, TlsConfig(opts, TRUE))
           /\ scheme = "hysteria2" => StandardOutbound(scheme, opts) = Hysterias(opts, TlsConfig(opts, TRUE))
           /\ scheme = "tuic" => StandardOutbound(scheme, opts) = Tuics(opts, TlsConfig(opts, TRUE))
<1>0. StandardOutbound(scheme, opts) =
        CASE scheme = "vless" -> Layered(opts, TlsConfig(opts, FALSE))
          [] scheme = "trojan" -> Trojans(opts, TlsConfig(opts, TRUE))
          [] scheme = "hysteria2" -> Hysterias(opts, TlsConfig(opts, TRUE))
          [] scheme = "tuic" -> Tuics(opts, TlsConfig(opts, TRUE))
  BY DEF StandardOutbound, Layered, Trojans, Hysterias, Tuics, OrDefault,
         Obfs, ObfsPassword, Congestion
<1>1. /\ scheme = "vless" => ~(scheme = "trojan") /\ ~(scheme = "hysteria2") /\ ~(scheme = "tuic")
      /\ scheme = "trojan" => ~(scheme = "vless") /\ ~(scheme = "hysteria2") /\ ~(scheme = "tuic")
      /\ scheme = "hysteria2" => ~(scheme = "trojan") /\ ~(scheme = "vless") /\ ~(scheme = "tuic")
      /\ scheme = "tuic" => ~(scheme = "trojan") /\ ~(scheme = "hysteria2") /\ ~(scheme = "vless")
  OBVIOUS
<1> QED
  BY <1>0, <1>1, Zenon

-----------------------------------------------------------------------------
(* The protocols over QUIC.                                                *)

\* What the probe makes of a hysteria2 or tuic link.
LEMMA QuicReads ==
    ASSUME NEW opts, NEW default \in BOOLEAN,
           NEW t \in TlsConfig(opts, default), NEW p, Carries(p, OrDefault(t))
    PROVE  /\ On(opts, default) => Mode(p) = ProbeMode(opts, default)
           /\ ~On(opts, default) => Mode(p) = "true"
           /\ On(opts, default) =>
                /\ Truthy(Val(p, "insecure", NoText)) <=> Flag(opts, InsecureKeys)
                /\ Val(p, "server_name", "server") = ParamOr(opts, SniKeys, "server")
                /\ Val(p, "alpn", "none") = Val(opts, "alpn", "none")
           /\ \A k \in TransportKeys : \A d : Val(p, k, d) = d
<1>1. \A k \in TlsKeys \cup TransportKeys : \A d : Val(p, k, d) = Val(OrDefault(t), k, d)
  BY DEF Carries
<1>2. On(opts, default) => OrDefault(t) = t
  BY TlsConfigReads DEF OrDefault
<1>3. ~On(opts, default) => OrDefault(t) = Option("tls", "true")
  BY TlsConfigReads DEF OrDefault
<1>4. \A k \in TransportKeys : \A d : Val(p, k, d) = d
  <2>1. \A k \in TransportKeys : \A d : Val(t, k, d) = d
    BY TlsConfigReads
  <2>2. \A k \in TransportKeys : \A d : Val(Option("tls", "true"), k, d) = d
    BY ValOption DEF TransportKeys
  <2>3. OrDefault(t) = t \/ OrDefault(t) = Option("tls", "true")
    BY <1>2, <1>3
  <2>4. \A k \in TransportKeys : \A d : Val(OrDefault(t), k, d) = d
    BY <2>1, <2>2, <2>3
  <2> QED
    BY <1>1, <2>4
<1>5. In(p, "public_key") <=> In(OrDefault(t), "public_key")
  BY <1>1, PresentOne DEF TlsKeys
<1>6. CASE On(opts, default)
  <2>1. \A k \in TlsKeys : \A d : Val(p, k, d) = Val(t, k, d)
    BY <1>1, <1>2, <1>6
  <2>2. Mode(p) = ProbeMode(opts, default)
    BY <1>2, <1>5, <1>6, <2>1, TlsConfigReads DEF Mode, ProbeMode, TlsKeys
  <2>3. /\ Truthy(Val(p, "insecure", NoText)) <=> Flag(opts, InsecureKeys)
        /\ Val(p, "server_name", "server") = ParamOr(opts, SniKeys, "server")
        /\ Val(p, "alpn", "none") = Val(opts, "alpn", "none")
    <3>1. /\ Val(p, "insecure", NoText) = Val(t, "insecure", NoText)
          /\ Val(p, "server_name", "server") = Val(t, "server_name", "server")
          /\ Val(p, "alpn", "none") = Val(t, "alpn", "none")
      BY <2>1 DEF TlsKeys
    <3>2. /\ Truthy(Val(t, "insecure", NoText)) <=> Flag(opts, InsecureKeys)
          /\ Val(t, "server_name", "server") = ParamOr(opts, SniKeys, "server")
          /\ \A d : Val(t, "alpn", d) = Val(opts, "alpn", d)
      BY <1>6, TlsConfigReads
    <3> QED
      BY <3>1, <3>2
  <2> QED
    BY <1>4, <1>6, <2>2, <2>3
<1>7. CASE ~On(opts, default)
  <2>1. ~In(p, "public_key") /\ Val(p, "tls", "false") = "true"
    BY <1>1, <1>3, <1>5, <1>7, InOption, ValOption DEF TlsKeys
  <2> QED
    BY <1>4, <1>7, <2>1 DEF Mode
<1> QED
  BY <1>6, <1>7

\* What the export makes of a hysteria2 or tuic link.
LEMMA QuicEntryReads ==
    ASSUME NEW opts, NEW e,
           e = Hysteria2UriToClash(opts) \/ e = TuicUriToClash(opts)
    PROVE  /\ Val(e, "sni", "server") = Val(opts, "sni", "server")
           /\ Truthy(Val(e, "skip-cert-verify", NoText)) <=> QuicInsecure(opts)
           /\ e = TuicUriToClash(opts) => Val(e, "alpn", "none") = Val(opts, "alpn", "none")
<1> DEFINE names == Renamed(opts, [sni |-> <<"sni">>, pinSHA256 |-> <<"pinsha256">>,
                                   up |-> <<"up">>, down |-> <<"down">>])
           skip == When(QuicInsecure(opts), Option("skip-cert-verify", "true"))
           obfs == Renamed(opts, Option("obfs.type", <<"obfs">>))
           password == When("obfs" \in DOMAIN opts,
                            Renamed(opts, Option("obfs.password", <<"obfs-password">>)))
           texts == Renamed(opts, Option("sni", <<"sni">>) ++ Option("alpn", <<"alpn">>)
                  ++ Option("congestion-control", <<"congestion_control">>)
                  ++ Option("udp-relay-mode", <<"udp_relay_mode">>))
<1>0. Truthy("true") /\ ~Truthy(NoText)
  BY TruthyIs
<1>1. /\ Hysteria2UriToClash(opts) = names ++ skip ++ obfs ++ password
      /\ TuicUriToClash(opts) = texts ++ skip
  BY DEF Hysteria2UriToClash, TuicUriToClash
<1>2. ASSUME NEW d PROVE Val(names, "sni", d) = Val(opts, "sni", d) /\ Val(names, "skip-cert-verify", d) = d
  <2>1. Val(names, "sni", d) = Val(opts, "sni", d)
    BY ValRenamed, AltOne DEF In
  <2>2. Val(names, "skip-cert-verify", d) = d
    BY ValRenamed DEF In
  <2> QED
    BY <2>1, <2>2
<1>3. ASSUME NEW d PROVE /\ Val(texts, "sni", d) = Val(opts, "sni", d)
                         /\ Val(texts, "alpn", d) = Val(opts, "alpn", d)
                         /\ Val(texts, "skip-cert-verify", d) = d
  BY ValRenamed, AltOne DEF In, Option, ++
<1>4. ASSUME NEW k, NEW d
      PROVE Val(skip, k, d) = IF k = "skip-cert-verify" /\ QuicInsecure(opts) THEN "true" ELSE d
  BY ValOption, ValNone DEF When
<1>5. ASSUME NEW k, NEW d, k # "obfs.type" PROVE Val(obfs, k, d) = d
  BY <1>5, ValRenamed DEF In, Option
<1>6. ASSUME NEW k, NEW d, k # "obfs.password" PROVE Val(password, k, d) = d
  <2>1. Val(Renamed(opts, Option("obfs.password", <<"obfs-password">>)), k, d) = d
    BY <1>6, ValRenamed DEF In, Option
  <2> QED
    BY <2>1, ValNone DEF When
<1> HIDE DEF names, skip, obfs, password, texts
<1>7. ASSUME NEW k, NEW d
      PROVE  /\ Val(Hysteria2UriToClash(opts), k, d)
                    = Val(names, k, Val(skip, k, Val(obfs, k, Val(password, k, d))))
             /\ Val(TuicUriToClash(opts), k, d) = Val(texts, k, Val(skip, k, d))
  BY <1>1, ValJoin
<1>8. Val(e, "sni", "server") = Val(opts, "sni", "server")
  BY <1>2, <1>3, <1>4, <1>5, <1>6, <1>7
<1>9. Val(e, "skip-cert-verify", NoText) = IF QuicInsecure(opts) THEN "true" ELSE NoText
  BY <1>2, <1>3, <1>4, <1>5, <1>6, <1>7
<1>10. e = TuicUriToClash(opts) => Val(e, "alpn", "none") = Val(opts, "alpn", "none")
  BY <1>3, <1>4, <1>7
<1>11. Truthy(Val(e, "skip-cert-verify", NoText)) <=> QuicInsecure(opts)
  <2>1. CASE QuicInsecure(opts)
    BY <1>0, <1>9, <2>1
  <2>2. CASE ~QuicInsecure(opts)
    BY <1>0, <1>9, <2>2
  <2> QED
    BY <2>1, <2>2
<1> QED
  BY <1>8, <1>10, <1>11

\* The probe and the export agree on it but for the gaps.
LEMMA QuicAgrees ==
    ASSUME NEW l, l.scheme \in QuicTypes, Filled(l.opts),
           NEW default \in BOOLEAN, On(l.opts, default) <=> Sec(l.opts) # "none",
           NEW t \in TlsConfig(l.opts, default), NEW o, Carries(o.opts, OrDefault(t)),
           NEW e, e.type \in QuicTypes,
           e.opts = Hysteria2UriToClash(l.opts) \/ e.opts = TuicUriToClash(l.opts),
           l.scheme = "tuic" => e.opts = TuicUriToClash(l.opts)
    PROVE  Differences(OutboundWire(o), EntryWire(e)) \subseteq ExportGaps(l)
<1> DEFINE opts == l.opts
           security == SecurityOf(opts)
           word == LowerCase(security)
           gaps == ExportGaps(l)
           A == OutboundWire(o)
           B == EntryWire(e)
<1>1. /\ Security(l) = security /\ Sec(opts) = word
      /\ RealityKey(l) <=> Has(opts, RealityKeys)
      /\ ~(e.type \in LayeredTypes)
  BY DEF Security, SecurityOf, Sec, RealityKey, RealityKeys, QuicTypes, LayeredTypes
<1>2. word = NoText <=> security = NoText
  BY FilledReads DEF SecurityOf
<1>3. /\ On(opts, default) => Mode(o.opts) = ProbeMode(opts, default)
      /\ ~On(opts, default) => Mode(o.opts) = "true"
      /\ On(opts, default) =>
           /\ Truthy(Val(o.opts, "insecure", NoText)) <=> Flag(opts, InsecureKeys)
           /\ Val(o.opts, "server_name", "server") = ParamOr(opts, SniKeys, "server")
           /\ Val(o.opts, "alpn", "none") = Val(opts, "alpn", "none")
      /\ \A k \in TransportKeys : \A d : Val(o.opts, k, d) = d
  BY QuicReads
<1>4. /\ Val(e.opts, "sni", "server") = Val(opts, "sni", "server")
      /\ Truthy(Val(e.opts, "skip-cert-verify", NoText)) <=> QuicInsecure(opts)
      /\ e.opts = TuicUriToClash(opts) => Val(e.opts, "alpn", "none") = Val(opts, "alpn", "none")
  BY QuicEntryReads
<1>5. /\ A.mode = Mode(o.opts)
      /\ A.insecure = (A.mode # "false" /\ Truthy(Val(o.opts, "insecure", NoText)))
      /\ A.sni = IF A.mode = "false" THEN "server" ELSE Val(o.opts, "server_name", "server")
      /\ A.alpn = IF A.mode = "false" THEN "none" ELSE Val(o.opts, "alpn", "none")
      /\ A.network = Val(o.opts, "transport", "tcp") /\ A.host = Val(o.opts, "host", NoText)
      /\ A.path = Val(o.opts, "path", NoText) /\ A.service = Val(o.opts, "service", NoText)
  BY OutboundFields
<1>6. EntryNetwork(e) = "tcp" /\ EntryMode(e) = "true"
  BY <1>1, EntryModeIs DEF EntryNetwork
<1>7. /\ B.mode = "true"
      /\ B.insecure = Truthy(Val(e.opts, "skip-cert-verify", NoText))
      /\ B.sni = Val(e.opts, "sni", "server")
      /\ B.alpn = Val(e.opts, "alpn", "none")
  <2>1. /\ B.mode = EntryMode(e)
        /\ B.insecure = (EntryMode(e) # "false" /\ Truthy(Val(e.opts, "skip-cert-verify", NoText)))
        /\ B.sni = IF EntryMode(e) = "false" THEN "server"
                   ELSE Val(e.opts, IF e.type \in QuicTypes THEN "sni" ELSE "servername", "server")
        /\ B.alpn = IF EntryMode(e) = "false" THEN "none" ELSE Val(e.opts, "alpn", "none")
    BY EntryFields
  <2>2. (EntryMode(e) # "false" /\ Truthy(Val(e.opts, "skip-cert-verify", NoText)))
          = Truthy(Val(e.opts, "skip-cert-verify", NoText))
    BY <1>6 DEF Truthy
  <2> QED
    BY <1>6, <2>1, <2>2
<1>8. /\ B.network = "tcp" /\ B.host = NoText /\ B.path = NoText /\ B.service = NoText
  <2>1. /\ B.network = NetworkName("tcp")
        /\ B.host = InUse(e.opts, "tcp", <<"ws-opts.headers.Host">>, <<"h2-opts.host">>, <<"httpupgrade-opts.host">>)
        /\ B.path = InUse(e.opts, "tcp", <<"ws-opts.path">>, <<"h2-opts.path">>, <<"httpupgrade-opts.path">>)
        /\ B.service = GrpcService(e.opts, "tcp", "grpc-opts.grpc-service-name")
    BY <1>6, EntryFields
  <2>2. "tcp" # "ws" /\ "tcp" # "httpupgrade" /\ "tcp" # "grpc" /\ "tcp" \notin HttpNames
    BY DEF HttpNames
  <2> QED
    BY <2>1, <2>2, InUseIs DEF NetworkName, GrpcService
<1>9. A.network = "tcp" /\ A.host = NoText /\ A.path = NoText /\ A.service = NoText
  BY <1>3, <1>5 DEF TransportKeys
<1>10. \/ TlsFields \subseteq gaps
       \/ On(opts, default) /\ ProbeMode(opts, default) = "true"
  <2>1. word \in {"none", "reality"} \/ (security = NoText /\ Has(opts, RealityKeys))
          => TlsFields \subseteq gaps
    BY <1>1, ExportGapsAre
  <2> QED
    BY <1>1, <1>2, <2>1 DEF On, Real, ProbeMode
<1>11. "insecure" \in gaps \/ (Flag(opts, InsecureKeys) <=> QuicInsecure(opts))
  <2> SUFFICES ASSUME ~("insecure" \in gaps) PROVE Flag(opts, InsecureKeys) <=> QuicInsecure(opts)
    OBVIOUS
  <2>1. /\ In(opts, "insecure") /\ ~In(opts, "allowInsecure")
        /\ ~(LowerCase(opts["insecure"]) \in {"yes", "y"})
    BY ExportGapsAre
  <2>2. ParamOr(opts, InsecureKeys, NoText) = opts["insecure"]
    BY <2>1, AltThree, ValIs DEF InsecureKeys
  <2> QED
    BY <2>1, <2>2, FlagReads DEF Truthy, QuicInsecure, In
<1>12. "sni" \in gaps \/ ParamOr(opts, SniKeys, "server") = Val(opts, "sni", "server")
  <2>1. "sni" \in gaps \/ In(opts, "sni")
    BY ExportGapsAre
  <2>2. In(opts, "sni") => ParamOr(opts, SniKeys, "server") = Val(opts, "sni", "server")
    BY AltThree, ValIs DEF SniKeys
  <2> QED
    BY <2>1, <2>2
<1>13. "alpn" \in gaps \/ l.scheme = "tuic"
  BY ExportGapsAre
<1>14. CASE TlsFields \subseteq gaps
  <2> HIDE DEF A, B, gaps
  <2> QED
    BY <1>8, <1>9, <1>14, ByField DEF TlsFields, A, B, gaps
<1>15. CASE On(opts, default) /\ ProbeMode(opts, default) = "true"
  <2>1. A.mode = "true" /\ A.sni = ParamOr(opts, SniKeys, "server") /\ A.alpn = Val(opts, "alpn", "none")
    BY <1>3, <1>5, <1>15
  <2>2. A.insecure = Truthy(Val(o.opts, "insecure", NoText))
    <3>1. A.insecure = (A.mode # "false" /\ Truthy(Val(o.opts, "insecure", NoText)))
      BY <1>5
    <3>2. (A.mode # "false" /\ Truthy(Val(o.opts, "insecure", NoText))) = Truthy(Val(o.opts, "insecure", NoText))
      BY <2>1 DEF Truthy
    <3> QED
      BY <3>1, <3>2
  <2>3. Truthy(Val(o.opts, "insecure", NoText)) <=> Flag(opts, InsecureKeys)
    BY <1>3, <1>15
  <2>4. A.insecure = B.insecure \/ "insecure" \in gaps
    <3> SUFFICES ASSUME ~("insecure" \in gaps) PROVE A.insecure = B.insecure
      OBVIOUS
    <3>1. Truthy(Val(o.opts, "insecure", NoText)) <=> Truthy(Val(e.opts, "skip-cert-verify", NoText))
      BY <1>4, <1>11, <2>3
    <3>2. Truthy(Val(o.opts, "insecure", NoText)) = Truthy(Val(e.opts, "skip-cert-verify", NoText))
      BY <3>1 DEF Truthy
    <3> QED
      BY <1>7, <2>2, <3>2
  <2>5. A.alpn = B.alpn \/ "alpn" \in gaps
    BY <1>4, <1>7, <1>13, <2>1
  <2>6. A.sni = B.sni \/ "sni" \in gaps
    BY <1>4, <1>7, <1>12, <2>1
  <2>7. A.mode = B.mode
    BY <1>7, <2>1
  <2> HIDE DEF A, B, gaps
  <2> QED
    BY <1>8, <1>9, <2>4, <2>5, <2>6, <2>7, ByField DEF A, B, gaps
<1> QED
  BY <1>10, <1>14, <1>15

-----------------------------------------------------------------------------
(* A vmess link.                                                           *)

VmessOn(opts) == LowerCase(Val(opts, "tls", "none")) = "tls"
VmessType(opts) == LowerCase(Val(opts, "net", "tcp"))

\* What the probe makes of a vmess link.
LEMMA VmessReads ==
    ASSUME NEW opts, NEW o \in VmessOutbound(opts)
    PROVE  LET p == o.opts
               mode == IF VmessOn(opts) THEN "true" ELSE "false"
               type == VmessType(opts)
           IN  /\ Mode(p) = mode
               /\ VmessOn(opts) =>
                    /\ Truthy(Val(p, "insecure", NoText)) <=> Flag(opts, InsecureKeys)
                    /\ Val(p, "server_name", "server") = Val(opts, "sni", Val(opts, "host", "server"))
                    /\ Val(p, "alpn", "none") = Val(opts, "alpn", "none")
               /\ type \in Transports \cup {"websocket"}
               /\ Val(p, "transport", "tcp") = Used(type)
               /\ Val(p, "host", NoText) = IF type \in Hosted THEN Val(opts, "host", NoText) ELSE NoText
               /\ Val(p, "path", NoText) = IF type \in Hosted THEN Val(opts, "path", NoText) ELSE NoText
               /\ Val(p, "service", NoText) = NoText
<1> DEFINE from == [k \in DOMAIN opts \cap ({"alpn", "fp"} \cup
                        {InsecureKeys[i] : i \in DOMAIN InsecureKeys}) |-> opts[k]]
           transport == Renamed(opts, [type |-> <<"net">>, path |-> <<"path">>, host |-> <<"host">>])
           server == ParamOr(opts, <<"sni", "host">>, "server")
           values == TlsValues(server, from, NoOpts)
           tls == When(VmessOn(opts), values)
           cipher == Option("security", ParamOr(opts, <<"scy", "security">>, "auto"))
<1>1. PICK n \in TransportConfig(transport) : o.opts = tls ++ cipher ++ n
  <2>1. VmessOutbound(opts) = {OutboundWith("vmess", tls ++ cipher ++ m) : m \in TransportConfig(transport)}
    BY DEF VmessOutbound, VmessOn, Val, When
  <2> HIDE DEF tls, cipher, transport
  <2> QED
    BY <2>1 DEF OutboundWith
<1>2. {InsecureKeys[i] : i \in DOMAIN InsecureKeys} = {"allowInsecure", "insecure", "skip-cert-verify"}
  <2>1. DOMAIN InsecureKeys = {1, 2, 3}
    BY DEF InsecureKeys
  <2> QED
    BY <2>1 DEF InsecureKeys
<1>3. \A k : In(from, k) <=> In(opts, k) /\ k \in {"alpn", "fp", "allowInsecure", "insecure", "skip-cert-verify"}
  <2> DEFINE insecure == {InsecureKeys[i] : i \in DOMAIN InsecureKeys}
  <2>1. DOMAIN from = DOMAIN opts \cap ({"alpn", "fp"} \cup insecure)
    OBVIOUS
  <2> HIDE DEF from, insecure
  <2> QED
    BY <1>2, <2>1 DEF In, insecure
<1>4. \A k : In(from, k) => from[k] = opts[k]
  BY DEF In
<1> HIDE DEF from
<1>5. \A k \in {"alpn", "fp", "allowInsecure", "insecure", "skip-cert-verify"} : \A d :
        Val(from, k, d) = Val(opts, k, d)
  BY <1>3, <1>4, ValIs
<1>6. Flag(from, InsecureKeys) <=> Flag(opts, InsecureKeys)
  <2>1. ParamOr(from, InsecureKeys, NoText) = ParamOr(opts, InsecureKeys, NoText)
    BY <1>5, AltThree DEF InsecureKeys
  <2> QED
    BY <2>1, FlagReads
<1>7. /\ \A d : Val(transport, "type", d) = Val(opts, "net", d)
      /\ \A d : Val(transport, "path", d) = Val(opts, "path", d)
      /\ \A d : Val(transport, "host", d) = Val(opts, "host", d)
      /\ \A d : Val(transport, "net", d) = d
      /\ \A d : Val(transport, "network", d) = d
      /\ \A d : Val(transport, "serviceName", d) = d
      /\ \A d : Val(transport, "service_name", d) = d
  BY ValRenamed, AltOne DEF In
<1> HIDE DEF transport
<1>8. /\ Type(transport) = VmessType(opts)
      /\ ParamOr(transport, <<"serviceName", "service_name">>, NoText) = NoText
  BY <1>7, AltTwo, AltThree DEF Type, VmessType
<1>9. /\ VmessType(opts) \in Transports \cup {"websocket"}
      /\ Val(n, "transport", "tcp") = Used(VmessType(opts))
      /\ Val(n, "host", NoText) = IF VmessType(opts) \in Hosted THEN Val(opts, "host", NoText) ELSE NoText
      /\ Val(n, "path", NoText) = IF VmessType(opts) \in Hosted THEN Val(opts, "path", NoText) ELSE NoText
      /\ Val(n, "service", NoText) = NoText
      /\ \A k \in TlsKeys : \A d : Val(n, k, d) = d
  BY <1>1, <1>7, <1>8, TransportConfigReads
<1>10. ASSUME NEW k, NEW d
       PROVE  Val(values, k, d) =
             IF k = "tls" THEN "true"
             ELSE IF k = "server_name" THEN server
             ELSE IF k = "insecure" /\ Flag(opts, InsecureKeys) THEN "true"
             ELSE IF k = "alpn" THEN Val(opts, "alpn", d)
             ELSE IF k = "fingerprint" THEN ParamOr(from, <<"fp", "fingerprint">>, "chrome")
             ELSE d
  <2>1. ParamOr(NoOpts, RealityKeys, d) = d /\ ~Has(NoOpts, RealityKeys)
    BY ValNone, InNone, HasThree, AltThree DEF RealityKeys
  <2>2. Val(values, k, d) =
             IF k = "tls" THEN "true"
             ELSE IF k = "server_name" THEN server
             ELSE IF k = "insecure" /\ Flag(from, InsecureKeys) THEN "true"
             ELSE IF k = "alpn" THEN Val(from, "alpn", d)
             ELSE IF k = "fingerprint" THEN ParamOr(from, <<"fp", "fingerprint">>, "chrome")
             ELSE IF k = "public_key" THEN ParamOr(NoOpts, RealityKeys, d)
             ELSE IF k = "short_id" /\ Has(NoOpts, RealityKeys)
                  THEN ParamOr(NoOpts, <<"sid", "short_id">>, d)
             ELSE d
    BY TlsValuesRead
  <2>3. CASE Flag(opts, InsecureKeys)
    BY <1>5, <1>6, <2>1, <2>2, <2>3
  <2>4. CASE ~Flag(opts, InsecureKeys)
    BY <1>5, <1>6, <2>1, <2>2, <2>4
  <2> QED
    BY <2>3, <2>4
<1> HIDE DEF values
<1>11. \A k, d : Val(o.opts, k, d) = Val(tls, k, Val(cipher, k, Val(n, k, d)))
  BY <1>1, ValJoin
<1>12. \A k, d : Val(tls, k, d) = IF VmessOn(opts) THEN Val(values, k, d) ELSE d
  BY ValNone DEF When
<1>13. \A k, d : k # "security" => Val(cipher, k, d) = d
  BY ValOption
<1> HIDE DEF tls, cipher, server
<1>14. \A k \in TransportKeys : \A d : Val(o.opts, k, d) = Val(n, k, d)
  <2>1. \A k \in TransportKeys : \A d : Val(tls, k, d) = d /\ Val(cipher, k, d) = d
    BY <1>10, <1>12, <1>13 DEF TransportKeys
  <2> QED
    BY <1>11, <2>1
<1>15. \A k \in TlsKeys : \A d : Val(o.opts, k, d) = Val(tls, k, d)
  <2>1. \A k \in TlsKeys : \A d : Val(cipher, k, d) = d
    BY <1>13 DEF TlsKeys
  <2> QED
    BY <1>9, <1>11, <2>1
<1>16. ~In(o.opts, "public_key")
  <2>1. \A d : Val(o.opts, "public_key", d) = d
    BY <1>10, <1>12, <1>15 DEF TlsKeys
  <2> QED
    BY <2>1, PresentOne
<1>17. CASE VmessOn(opts)
  <2>1. /\ Val(o.opts, "tls", "false") = "true" /\ Val(o.opts, "server_name", "server") = server
        /\ Val(o.opts, "alpn", "none") = Val(opts, "alpn", "none")
    BY <1>10, <1>12, <1>15, <1>17 DEF TlsKeys
  <2>2. Val(o.opts, "insecure", NoText) = IF Flag(opts, InsecureKeys) THEN "true" ELSE NoText
    BY <1>10, <1>12, <1>15, <1>17 DEF TlsKeys
  <2>3. Truthy(Val(o.opts, "insecure", NoText)) <=> Flag(opts, InsecureKeys)
    <3>1. CASE Flag(opts, InsecureKeys)
      BY <2>2, <3>1, TruthyIs
    <3>2. CASE ~Flag(opts, InsecureKeys)
      BY <2>2, <3>2, TruthyIs
    <3> QED
      BY <3>1, <3>2
  <2>4. server = Val(opts, "sni", Val(opts, "host", "server"))
    BY AltTwo DEF server
  <2>5. Mode(o.opts) = "true"
    BY <1>16, <2>1 DEF Mode
  <2> QED
    BY <1>9, <1>14, <1>17, <2>1, <2>3, <2>4, <2>5 DEF TransportKeys
<1>18. CASE ~VmessOn(opts)
  <2>1. Mode(o.opts) = "false"
    BY <1>12, <1>15, <1>16, <1>18 DEF Mode, TlsKeys
  <2> QED
    BY <1>9, <1>14, <1>18, <2>1 DEF TransportKeys
<1> QED
  BY <1>17, <1>18

\* A vmess link over a transport that sing-box has is taken.
LEMMA VmessTaken ==
    ASSUME NEW opts, VmessType(opts) \in Transports \cup {"websocket"}
    PROVE  VmessOutbound(opts) # {}
<1> DEFINE transport == Renamed(opts, [type |-> <<"net">>, path |-> <<"path">>, host |-> <<"host">>])
<1>1. /\ \A d : Val(transport, "type", d) = Val(opts, "net", d)
      /\ \A d : Val(transport, "net", d) = d
      /\ \A d : Val(transport, "network", d) = d
  BY ValRenamed, AltOne DEF In
<1>2. TransportConfig(transport) # {} => VmessOutbound(opts) # {}
  BY DEF VmessOutbound
<1> HIDE DEF transport
<1>3. Type(transport) = VmessType(opts)
  BY <1>1, AltThree DEF Type, VmessType
<1> QED
  BY <1>2, <1>3, TransportConfigTaken

VmessNames == {"net", "tls", "sni", "host", "path", "alpn", "fp"}

\* The fields of a vmess link that the export reads.
LEMMA VmessFieldsRead ==
    ASSUME NEW opts, NEW f, f = VmessFields(opts)
    PROVE  /\ \A k \in VmessNames : \A d : Val(f, k, d) = Val(opts, k, d)
           /\ \A d : Val(f, "allow_insecure", d) = IF Flag(opts, InsecureKeys) THEN "true" ELSE d
<1> DEFINE cipher == Option("security", ParamOr(opts, <<"scy", "security">>, "auto"))
           table == [k \in VmessNames |-> <<k>>]
           insecure == When(Flag(opts, InsecureKeys), [allow_insecure |-> "true"])
<1>1. f = cipher ++ Renamed(opts, table) ++ insecure
  BY DEF VmessFields, VmessNames
<1>2. \A k, d : k # "security" => Val(cipher, k, d) = d
  BY ValOption
<1>3. \A k, d : Val(Renamed(opts, table), k, d) = IF k \in VmessNames THEN Val(opts, k, d) ELSE d
  <2>1. \A k : In(table, k) <=> k \in VmessNames
    BY DEF In
  <2>2. \A k \in VmessNames : table[k] = <<k>>
    OBVIOUS
  <2> HIDE DEF table
  <2> QED
    BY <2>1, <2>2, ValRenamed, AltOne
<1>4. \A k, d : Val(insecure, k, d) = IF k = "allow_insecure" /\ Flag(opts, InsecureKeys) THEN "true" ELSE d
  <2>1. \A k, d : Val([allow_insecure |-> "true"], k, d) = IF k = "allow_insecure" THEN "true" ELSE d
    BY ValIs DEF In
  <2> QED
    BY <2>1, ValNone DEF When
<1> HIDE DEF cipher, table, insecure
<1>5. \A k, d : Val(f, k, d) = Val(cipher, k, Val(Renamed(opts, table), k, Val(insecure, k, d)))
  BY <1>1, ValJoin
<1> QED
  BY <1>2, <1>3, <1>4, <1>5 DEF VmessNames

\* What the export makes of a vmess link.
LEMMA VmessEntryReads ==
    ASSUME NEW opts, NEW e, e = VmessUriToClash(opts)
    PROVE  LET network == Val(opts, "net", "tcp")
           IN  /\ ~In(e, "reality-opts.public-key")
               /\ Val(e, "tls", "false") = IF VmessOn(opts) THEN "true" ELSE "false"
               /\ VmessOn(opts) =>
                    /\ Val(e, "servername", "server") = Val(opts, "sni", "server")
                    /\ Val(e, "alpn", "none") = Val(opts, "alpn", "none")
                    /\ Truthy(Val(e, "skip-cert-verify", NoText)) <=> Flag(opts, InsecureKeys)
               /\ Val(e, "network", "tcp") = network
               /\ network \in Transports => InUse(e, network, <<"ws-opts.headers.Host">>, <<"h2-opts.host">>, <<"httpupgrade-opts.host">>)
                    = IF network \in Hosted THEN Val(opts, "host", NoText) ELSE NoText
               /\ network \in Transports => InUse(e, network, <<"ws-opts.path">>, <<"h2-opts.path">>, <<"httpupgrade-opts.path">>)
                    = IF network \in Hosted THEN Val(opts, "path", NoText) ELSE NoText
               /\ network # "grpc" => GrpcService(e, network, "grpc-opts.grpc-service-name") = NoText
<1> DEFINE f == VmessFields(opts)
           network == Val(opts, "net", "tcp")
           cipher == Option("cipher", f["security"])
           names == Renamed(f, Option("servername", <<"sni">>)
                              ++ Option("client-fingerprint", <<"fp">>)
                              ++ Option("alpn", <<"alpn">>)
                              ++ Option("skip-cert-verify", <<"allow_insecure">>))
           tls == When(VmessOn(opts), Option("tls", "true") ++ names)
           net == When(network # "tcp", Option("network", network))
           front == cipher ++ tls ++ net
<1>1. /\ \A k \in VmessNames : \A d : Val(f, k, d) = Val(opts, k, d)
      /\ \A d : Val(f, "allow_insecure", d) = IF Flag(opts, InsecureKeys) THEN "true" ELSE d
  BY VmessFieldsRead
<1> HIDE DEF f
<1>2. ParamOr(f, <<"net">>, "tcp") = network /\ ParamOr(f, <<"tls">>, "none") = Val(opts, "tls", "none")
  BY <1>1, AltOne DEF VmessNames
<1>3. e = front ++ EntryTransport(network, f, <<"path">>)
  <2>1. When(LowerCase(ParamOr(f, <<"tls">>, "none")) = "tls", Option("tls", "true") ++ names) = tls
    BY <1>2 DEF When, VmessOn
  <2> HIDE DEF names, tls
  <2>2. VmessUriToClash(opts) =
          cipher ++ When(LowerCase(ParamOr(f, <<"tls">>, "none")) = "tls", Option("tls", "true") ++ names)
          ++ When(ParamOr(f, <<"net">>, "tcp") # "tcp", Option("network", ParamOr(f, <<"net">>, "tcp")))
          ++ EntryTransport(ParamOr(f, <<"net">>, "tcp"), f, <<"path">>)
    BY DEF VmessUriToClash, f, names
  <2> HIDE DEF network
  <2> QED
    BY <1>2, <2>1, <2>2
<1>4. ASSUME NEW k, NEW d
      PROVE  Val(names, k, d) = IF k = "servername" THEN Val(f, "sni", d)
                                ELSE IF k = "client-fingerprint" THEN Val(f, "fp", d)
                                ELSE IF k = "alpn" THEN Val(f, "alpn", d)
                                ELSE IF k = "skip-cert-verify" THEN Val(f, "allow_insecure", d)
                                ELSE d
  BY ValRenamed, AltOne DEF In, Option, ++
<1> HIDE DEF names
<1>5. ASSUME NEW k, NEW d
      PROVE  Val(tls, k, d) = IF ~VmessOn(opts) THEN d ELSE IF k = "tls" THEN "true" ELSE Val(names, k, d)
  <2>1. Val(Option("tls", "true") ++ names, k, d) = IF k = "tls" THEN "true" ELSE Val(names, k, d)
    BY ValJoin, ValOption
  <2> QED
    BY <2>1, ValNone DEF When
<1>6. ASSUME NEW k, NEW d PROVE Val(net, k, d) = IF k = "network" /\ network # "tcp" THEN network ELSE d
  BY ValOption, ValNone DEF When
<1>7. \A k, d : k # "cipher" => Val(cipher, k, d) = d
  BY ValOption
<1> HIDE DEF tls, net, cipher
<1>8. ASSUME NEW k, NEW d PROVE Val(front, k, d) = Val(cipher, k, Val(tls, k, Val(net, k, d)))
  BY ValJoin
<1> HIDE DEF front, network
<1>9. \A k \in EntryTransportKeys : \A d : Val(front, k, d) = d
  <2>1. ASSUME NEW k \in EntryTransportKeys, NEW d PROVE Val(names, k, d) = d
    BY <1>4 DEF EntryTransportKeys, HostKeys, PathKeys
  <2>2. ASSUME NEW k \in EntryTransportKeys PROVE k # "tls" /\ k # "network" /\ k # "cipher"
    BY DEF EntryTransportKeys, HostKeys, PathKeys
  <2> QED
    BY <1>5, <1>6, <1>7, <1>8, <2>1, <2>2
<1>10. \A k, d : k \notin EntryTransportKeys => Val(e, k, d) = Val(front, k, d)
  BY <1>3, <1>9, EntryTransportWire
<1>11. "reality-opts.public-key" \notin EntryTransportKeys /\ "tls" \notin EntryTransportKeys
       /\ "servername" \notin EntryTransportKeys /\ "alpn" \notin EntryTransportKeys
       /\ "skip-cert-verify" \notin EntryTransportKeys /\ "network" \notin EntryTransportKeys
  BY DEF EntryTransportKeys, HostKeys, PathKeys
<1>12. ~In(e, "reality-opts.public-key")
  <2>1. \A d : Val(names, "reality-opts.public-key", d) = d
    BY <1>4
  <2>2. \A d : Val(e, "reality-opts.public-key", d) = d
    BY <1>5, <1>6, <1>7, <1>8, <1>10, <1>11, <2>1
  <2> QED
    BY <2>2, PresentOne
<1>13. Val(e, "tls", "false") = IF VmessOn(opts) THEN "true" ELSE "false"
  BY <1>5, <1>6, <1>7, <1>8, <1>10, <1>11
<1>14. Val(e, "network", "tcp") = network
  <2>1. \A d : Val(names, "network", d) = d
    BY <1>4
  <2> QED
    BY <1>5, <1>6, <1>7, <1>8, <1>10, <1>11, <2>1
<1>15. VmessOn(opts) => Val(e, "servername", "server") = Val(opts, "sni", "server")
  <2>1. Val(names, "servername", "server") = Val(opts, "sni", "server")
    BY <1>1, <1>4 DEF VmessNames
  <2> QED
    BY <1>5, <1>6, <1>7, <1>8, <1>10, <1>11, <2>1
<1>16. VmessOn(opts) => Val(e, "alpn", "none") = Val(opts, "alpn", "none")
  <2>1. Val(names, "alpn", "none") = Val(opts, "alpn", "none")
    BY <1>1, <1>4 DEF VmessNames
  <2> QED
    BY <1>5, <1>6, <1>7, <1>8, <1>10, <1>11, <2>1
<1>17. VmessOn(opts) => (Truthy(Val(e, "skip-cert-verify", NoText)) <=> Flag(opts, InsecureKeys))
  <2>1. VmessOn(opts) => Val(e, "skip-cert-verify", NoText) = Val(f, "allow_insecure", NoText)
    BY <1>4, <1>5, <1>6, <1>7, <1>8, <1>10, <1>11
  <2>2. CASE Flag(opts, InsecureKeys)
    BY <1>1, <2>1, <2>2, TruthyIs
  <2>3. CASE ~Flag(opts, InsecureKeys)
    BY <1>1, <2>1, <2>3, TruthyIs
  <2> QED
    BY <2>2, <2>3
<1>18. network \in Transports =>
         InUse(e, network, <<"ws-opts.headers.Host">>, <<"h2-opts.host">>, <<"httpupgrade-opts.host">>)
           = IF network \in Hosted THEN Val(opts, "host", NoText) ELSE NoText
  <2>1. Val(f, "host", NoText) = Val(opts, "host", NoText)
    BY <1>1 DEF VmessNames
  <2> QED
    BY <1>3, <1>9, <2>1, EntryTransportWire
<1>19. network \in Transports =>
         InUse(e, network, <<"ws-opts.path">>, <<"h2-opts.path">>, <<"httpupgrade-opts.path">>)
           = IF network \in Hosted THEN Val(opts, "path", NoText) ELSE NoText
  <2>1. Val(f, "path", NoText) = Val(opts, "path", NoText)
    BY <1>1 DEF VmessNames
  <2> QED
    BY <1>3, <1>9, <2>1, EntryTransportWire
<1>20. network # "grpc" => GrpcService(e, network, "grpc-opts.grpc-service-name") = NoText
  BY DEF GrpcService
<1> QED
  BY <1>12, <1>13, <1>14, <1>15, <1>16, <1>17, <1>18, <1>19, <1>20 DEF network

\* The probe and the export agree on a vmess link but for the gaps.
LEMMA VmessAgrees ==
    ASSUME NEW l, l.scheme = "vmess", NEW o \in VmessOutbound(l.opts),
           NEW e, e.type = "vmess", e.opts = VmessUriToClash(l.opts)
    PROVE  Differences(OutboundWire(o), EntryWire(e)) \subseteq ExportGaps(l)
<1> DEFINE opts == l.opts
           p == o.opts
           q == e.opts
           network == Val(opts, "net", "tcp")
           type == VmessType(opts)
           gaps == ExportGaps(l)
           mode == IF VmessOn(opts) THEN "true" ELSE "false"
           A == OutboundWire(o)
           B == EntryWire(e)
<1>1. /\ Network(l) = network /\ type = LowerCase(network)
      /\ e.type \in LayeredTypes /\ ~(e.type \in QuicTypes) /\ e.type # "trojan"
  BY DEF Network, VmessType, QuicTypes, LayeredTypes, Val
<1>2. /\ Mode(p) = mode
      /\ VmessOn(opts) =>
           /\ Truthy(Val(p, "insecure", NoText)) <=> Flag(opts, InsecureKeys)
           /\ Val(p, "server_name", "server") = Val(opts, "sni", Val(opts, "host", "server"))
           /\ Val(p, "alpn", "none") = Val(opts, "alpn", "none")
      /\ type \in Transports \cup {"websocket"}
      /\ Val(p, "transport", "tcp") = Used(type)
      /\ Val(p, "host", NoText) = IF type \in Hosted THEN Val(opts, "host", NoText) ELSE NoText
      /\ Val(p, "path", NoText) = IF type \in Hosted THEN Val(opts, "path", NoText) ELSE NoText
      /\ Val(p, "service", NoText) = NoText
  BY VmessReads
<1>3. /\ ~In(q, "reality-opts.public-key")
      /\ Val(q, "tls", "false") = mode
      /\ VmessOn(opts) =>
           /\ Val(q, "servername", "server") = Val(opts, "sni", "server")
           /\ Val(q, "alpn", "none") = Val(opts, "alpn", "none")
           /\ Truthy(Val(q, "skip-cert-verify", NoText)) <=> Flag(opts, InsecureKeys)
      /\ Val(q, "network", "tcp") = network
      /\ network \in Transports => InUse(q, network, <<"ws-opts.headers.Host">>, <<"h2-opts.host">>, <<"httpupgrade-opts.host">>)
           = IF network \in Hosted THEN Val(opts, "host", NoText) ELSE NoText
      /\ network \in Transports => InUse(q, network, <<"ws-opts.path">>, <<"h2-opts.path">>, <<"httpupgrade-opts.path">>)
           = IF network \in Hosted THEN Val(opts, "path", NoText) ELSE NoText
      /\ network # "grpc" => GrpcService(q, network, "grpc-opts.grpc-service-name") = NoText
  BY VmessEntryReads
<1>4. /\ A.mode = Mode(p)
      /\ A.insecure = (A.mode # "false" /\ Truthy(Val(p, "insecure", NoText)))
      /\ A.sni = IF A.mode = "false" THEN "server" ELSE Val(p, "server_name", "server")
      /\ A.alpn = IF A.mode = "false" THEN "none" ELSE Val(p, "alpn", "none")
      /\ A.network = Val(p, "transport", "tcp") /\ A.host = Val(p, "host", NoText)
      /\ A.path = Val(p, "path", NoText) /\ A.service = Val(p, "service", NoText)
  BY OutboundFields
<1>5. EntryMode(e) = mode
  BY <1>1, <1>3, EntryModeIs
<1>6. EntryNetwork(e) = network
  BY <1>1, <1>3 DEF EntryNetwork, Val
<1>7. /\ B.mode = mode
      /\ B.insecure = (B.mode # "false" /\ Truthy(Val(q, "skip-cert-verify", NoText)))
      /\ B.sni = IF B.mode = "false" THEN "server" ELSE Val(q, "servername", "server")
      /\ B.alpn = IF B.mode = "false" THEN "none" ELSE Val(q, "alpn", "none")
      /\ B.network = NetworkName(network)
      /\ B.host = InUse(q, network, <<"ws-opts.headers.Host">>, <<"h2-opts.host">>, <<"httpupgrade-opts.host">>)
      /\ B.path = InUse(q, network, <<"ws-opts.path">>, <<"h2-opts.path">>, <<"httpupgrade-opts.path">>)
      /\ B.service = GrpcService(q, network, "grpc-opts.grpc-service-name")
  BY <1>1, <1>5, <1>6, EntryFields
<1>8. A.mode = B.mode
  BY <1>2, <1>4, <1>7
<1>9. A.alpn = B.alpn
  BY <1>2, <1>3, <1>4, <1>7
<1>10. A.insecure = B.insecure
  <2>1. (A.mode # "false" /\ Truthy(Val(p, "insecure", NoText)))
          <=> (B.mode # "false" /\ Truthy(Val(q, "skip-cert-verify", NoText)))
    BY <1>2, <1>3, <1>7, <1>8
  <2> QED
    BY <1>4, <1>7, <2>1
<1>11. A.sni = B.sni \/ "sni" \in gaps
  <2>1. ~In(opts, "sni") /\ In(opts, "host") => "sni" \in gaps
    BY ExportGapsAre
  <2>2. In(opts, "sni") \/ ~In(opts, "host")
          => Val(opts, "sni", Val(opts, "host", "server")) = Val(opts, "sni", "server")
    BY ValIs
  <2> QED
    BY <1>2, <1>3, <1>4, <1>7, <2>1, <2>2
<1>12. network \in Transports =>
         /\ A.network = B.network /\ A.host = B.host /\ A.path = B.path
         /\ A.service = B.service \/ "service" \in gaps
  <2> SUFFICES ASSUME network \in Transports
               PROVE  /\ A.network = B.network /\ A.host = B.host /\ A.path = B.path
                      /\ A.service = B.service \/ "service" \in gaps
    OBVIOUS
  <2>1. type = network /\ Used(network) = NetworkName(network)
    BY <1>1, Words DEF Used, NetworkName, Transports, HttpNames
  <2>2. network = "grpc" => "service" \in gaps
    BY <1>1, ExportGapsAre
  <2>3. A.network = B.network
    BY <1>2, <1>4, <1>7, <2>1
  <2>4. A.host = B.host
    BY <1>2, <1>3, <1>4, <1>7, <2>1
  <2>5. A.path = B.path
    BY <1>2, <1>3, <1>4, <1>7, <2>1
  <2>6. A.service = B.service \/ "service" \in gaps
    BY <1>2, <1>3, <1>4, <1>7, <2>2
  <2> QED
    BY <2>3, <2>4, <2>5, <2>6
<1>13. network \notin Transports => TransportFields \subseteq gaps
  BY <1>1, ExportGapsAre
<1> HIDE DEF A, B, gaps, network
<1> QED
  BY <1>8, <1>9, <1>10, <1>11, <1>12, <1>13, ByField DEF TransportFields, A, B, gaps

-----------------------------------------------------------------------------
(* A Shadowsocks link.                                                     *)

\* A Shadowsocks outbound says nothing of TLS or of a transport.
LEMMA ShadowsocksReads ==
    ASSUME NEW opts, NEW o \in ShadowsocksOutbound(opts)
    PROVE  Carries(o.opts, NoOpts)
<1> DEFINE plugin == Renamed(opts, [plugin |-> <<"plugin">>])
           more == When("plugin" \in DOMAIN opts, Renamed(opts, [plugin_opts |-> <<"plugin-opts">>]))
<1>1. PICK m \in NormalizeSsMethod(opts["cipher"]) : o.opts = Option("cipher", m) ++ plugin ++ more
  BY DEF ShadowsocksOutbound, OutboundWith
<1>2. \A k, d : k # "plugin" => Val(plugin, k, d) = d
  BY ValRenamed DEF In
<1>3. \A k, d : k # "plugin_opts" => Val(more, k, d) = d
  <2>1. \A k, d : k # "plugin_opts" => Val(Renamed(opts, [plugin_opts |-> <<"plugin-opts">>]), k, d) = d
    BY ValRenamed DEF In
  <2> QED
    BY <2>1, ValNone DEF When
<1> HIDE DEF plugin, more
<1>4. \A k, d : Val(o.opts, k, d) = Val(Option("cipher", m), k, Val(plugin, k, Val(more, k, d)))
  BY <1>1, ValJoin
<1> QED
  BY <1>2, <1>3, <1>4, ValOption, ValNone DEF TlsKeys, TransportKeys, Carries

\* A form that says nothing of TLS or of a transport.
LEMMA PlainWire ==
    ASSUME NEW o, Carries(o.opts, NoOpts)
    PROVE  LET A == OutboundWire(o)
           IN  /\ A.mode = "false" /\ A.insecure = FALSE /\ A.sni = "server" /\ A.alpn = "none"
               /\ A.network = "tcp" /\ A.host = NoText /\ A.path = NoText /\ A.service = NoText
<1> DEFINE A == OutboundWire(o)
           p == o.opts
<1>0. \A k \in TlsKeys \cup TransportKeys : \A d : Val(p, k, d) = d
  BY ValNone DEF Carries
<1>1. ~In(p, "public_key") /\ Val(p, "tls", "false") = "false"
  BY <1>0, PresentOne DEF TlsKeys
<1>2. Mode(p) = "false"
  BY <1>1 DEF Mode
<1>3. Val(p, "transport", "tcp") = "tcp" /\ Val(p, "host", NoText) = NoText
      /\ Val(p, "path", NoText) = NoText /\ Val(p, "service", NoText) = NoText
  BY <1>0 DEF TransportKeys
<1> QED
  BY <1>2, <1>3, OutboundFields

LEMMA PlainEntry ==
    ASSUME NEW e, ~(e.type \in QuicTypes), ~(e.type \in LayeredTypes)
    PROVE  LET B == EntryWire(e)
           IN  /\ B.mode = "false" /\ B.insecure = FALSE /\ B.sni = "server" /\ B.alpn = "none"
               /\ B.network = "tcp" /\ B.host = NoText /\ B.path = NoText /\ B.service = NoText
<1> DEFINE B == EntryWire(e)
           q == e.opts
<1>1. EntryNetwork(e) = "tcp" /\ EntryMode(e) = "false"
  BY EntryModeIs DEF EntryNetwork
<1>2. /\ B.mode = EntryMode(e)
      /\ B.insecure = (EntryMode(e) # "false" /\ Truthy(Val(q, "skip-cert-verify", NoText)))
      /\ B.sni = IF EntryMode(e) = "false" THEN "server"
                 ELSE Val(q, IF e.type \in QuicTypes THEN "sni" ELSE "servername", "server")
      /\ B.alpn = IF EntryMode(e) = "false" THEN "none" ELSE Val(q, "alpn", "none")
      /\ B.network = NetworkName("tcp")
      /\ B.host = InUse(q, "tcp", <<"ws-opts.headers.Host">>, <<"h2-opts.host">>, <<"httpupgrade-opts.host">>)
      /\ B.path = InUse(q, "tcp", <<"ws-opts.path">>, <<"h2-opts.path">>, <<"httpupgrade-opts.path">>)
      /\ B.service = GrpcService(q, "tcp", "grpc-opts.grpc-service-name")
  BY <1>1, EntryFields
<1>3. "tcp" # "ws" /\ "tcp" # "httpupgrade" /\ "tcp" # "grpc" /\ "tcp" \notin HttpNames
  BY DEF HttpNames
<1> QED
  BY <1>1, <1>2, <1>3, InUseIs DEF NetworkName, GrpcService

\* Nor does its entry.
LEMMA ShadowsocksAgrees ==
    ASSUME NEW opts, NEW o \in ShadowsocksOutbound(opts), NEW e, e.type = "ss", NEW gaps
    PROVE  Differences(OutboundWire(o), EntryWire(e)) \subseteq gaps
<1>1. ~(e.type \in QuicTypes) /\ ~(e.type \in LayeredTypes)
  BY DEF QuicTypes, LayeredTypes
<1>2. Carries(o.opts, NoOpts)
  BY ShadowsocksReads
<1> DEFINE A == OutboundWire(o)
           B == EntryWire(e)
<1>3. /\ A.mode = "false" /\ A.insecure = FALSE /\ A.sni = "server" /\ A.alpn = "none"
      /\ A.network = "tcp" /\ A.host = NoText /\ A.path = NoText /\ A.service = NoText
  BY <1>2, PlainWire
<1>4. /\ B.mode = "false" /\ B.insecure = FALSE /\ B.sni = "server" /\ B.alpn = "none"
      /\ B.network = "tcp" /\ B.host = NoText /\ B.path = NoText /\ B.service = NoText
  BY <1>1, PlainEntry
<1> HIDE DEF A, B
<1> QED
  BY <1>3, <1>4, ByField DEF A, B

-----------------------------------------------------------------------------
(* The identity of the links without a security option.                      *)

QuicMode(opts, default) == IF On(opts, default) THEN ProbeMode(opts, default) ELSE "true"

\* The identity of a hysteria2 or tuic link has the TLS the probe has.
LEMMA QuicKeyAgrees ==
    ASSUME NEW l, l.scheme \in QuicTypes, Filled(l.opts),
           NEW default \in BOOLEAN, default <=> l.scheme \in QuicTypes
    PROVE  KeyGap(l) \/ KeyMode(l) = QuicMode(l.opts, default)
<1> DEFINE opts == l.opts
           protocol == IF l.scheme = "hy2" THEN "hysteria2" ELSE l.scheme
<1>1. DedupParts(protocol, opts) = QueryDedupParts(opts, default)
  <2>1. /\ ~(protocol = "vmess") /\ ~(protocol = "ssr")
        /\ (protocol \in {"trojan", "hysteria2", "tuic"}) = default
    BY DEF QuicTypes
  <2>2. DedupParts(protocol, opts) = QueryDedupParts(opts, protocol \in {"trojan", "hysteria2", "tuic"})
    BY <2>1, Zenon DEF DedupParts
  <2> HIDE DEF protocol
  <2> QED
    BY <2>1, <2>2
<1>2. /\ LowerCase(Security(l)) = Sec(opts)
      /\ RealityKey(l) <=> Has(opts, RealityKeys)
  BY DEF Security, Sec, RealityKey, RealityKeys, QuicTypes
<1>3. KeyGap(l) <=>
        \/ Has(opts, RealityKeys) /\ Sec(opts) \notin {NoText, "none", "reality"}
        \/ ~Has(opts, RealityKeys) /\ Sec(opts) = "reality"
        \/ Sec(opts) \in {"false", "0", "none"}
  BY <1>2 DEF KeyGap, Off, QuicTypes
<1>4. QueryDedupParts(opts, default)[2] =
        IF Sec(opts) = NoText
        THEN IF Has(opts, RealityKeys) THEN "reality" ELSE IF default THEN "tls" ELSE "none"
        ELSE IF Sec(opts) \in Off THEN "none"
        ELSE IF Sec(opts) = "reality" \/ Has(opts, RealityKeys) THEN "reality" ELSE "tls"
  BY QueryKeyIs
<1>5. KeyMode(l) = IF QueryDedupParts(opts, default)[2] = "none" THEN "false"
                   ELSE IF QueryDedupParts(opts, default)[2] = "tls" THEN "true" ELSE "reality"
  BY <1>1, KeyModeIs
<1> QED
  BY <1>3, <1>4, <1>5, NoTextIs DEF QuicMode, ProbeMode, On, Real, Off

LEMMA ShadowsocksKeyAgrees ==
    ASSUME NEW l, l.scheme = "ss", Filled(l.opts)
    PROVE  KeyGap(l) \/ KeyMode(l) = "false"
<1> DEFINE opts == l.opts
<1>1. PICK default \in BOOLEAN : ~default
  OBVIOUS
<1>2. DedupParts(IF l.scheme = "hy2" THEN "hysteria2" ELSE l.scheme, opts) = QueryDedupParts(opts, default)
  <2>1. ~("ss" = "vmess") /\ ~("ss" = "ssr") /\ ("ss" \in {"trojan", "hysteria2", "tuic"}) = default
    BY <1>1
  <2>2. DedupParts("ss", opts) = QueryDedupParts(opts, "ss" \in {"trojan", "hysteria2", "tuic"})
    BY <2>1, Zenon DEF DedupParts
  <2> QED
    BY <2>1, <2>2
<1>3. /\ LowerCase(Security(l)) = Sec(opts)
      /\ RealityKey(l) <=> Has(opts, RealityKeys)
  BY DEF Security, Sec, RealityKey, RealityKeys
<1>4. \/ KeyGap(l)
      \/ Sec(opts) \in Off
      \/ Sec(opts) = NoText /\ ~Has(opts, RealityKeys)
  BY <1>3 DEF KeyGap, Off, QuicTypes
<1>5. QueryDedupParts(opts, default)[2] =
        IF Sec(opts) = NoText
        THEN IF Has(opts, RealityKeys) THEN "reality" ELSE IF default THEN "tls" ELSE "none"
        ELSE IF Sec(opts) \in Off THEN "none"
        ELSE IF Sec(opts) = "reality" \/ Has(opts, RealityKeys) THEN "reality" ELSE "tls"
  BY QueryKeyIs
<1>6. KeyMode(l) = IF QueryDedupParts(opts, default)[2] = "none" THEN "false"
                   ELSE IF QueryDedupParts(opts, default)[2] = "tls" THEN "true" ELSE "reality"
  BY <1>2, KeyModeIs
<1> QED
  BY <1>1, <1>4, <1>5, <1>6, NoTextIs DEF Off

LEMMA VmessKeyAgrees ==
    ASSUME NEW l, l.scheme = "vmess", Filled(l.opts)
    PROVE  KeyGap(l) \/ KeyMode(l) = IF VmessOn(l.opts) THEN "true" ELSE "false"
<1> DEFINE opts == l.opts
           security == Val(opts, "tls", NoText)
           word == LowerCase(security)
           value == Val(opts, "tls", "none")
<1>1. DedupParts(IF l.scheme = "hy2" THEN "hysteria2" ELSE l.scheme, opts)[2] = NormalizeTls(value)
  <2>1. DedupParts("vmess", opts) = VmessDedupParts(opts)
    BY Zenon DEF DedupParts
  <2>2. VmessDedupParts(opts)[2] = NormalizeTls(value)
    BY DEF VmessDedupParts, Val
  <2> QED
    BY <2>1, <2>2
<1>2. Security(l) = security
  BY DEF Security, Val
<1>3. word = NoText <=> ~In(opts, "tls")
  <2>1. In(opts, "tls") => LowerCase(opts["tls"]) # NoText
    BY DEF In, Filled
  <2> QED
    BY <2>1, ValIs, Words
<1>4. In(opts, "tls") => value = security
  BY ValIs
<1>5. ~In(opts, "tls") => LowerCase(value) = "none"
  BY ValIs, Words
<1>6. KeyGap(l) \/ word \in Off \cup {NoText, "tls"}
  BY <1>2 DEF KeyGap, Off, RealityKey
<1>7. KeyMode(l) = IF NormalizeTls(value) = "none" THEN "false"
                   ELSE IF NormalizeTls(value) = "tls" THEN "true" ELSE "reality"
  BY <1>1, KeyModeIs
<1>8. NormalizeTls(value) = IF LowerCase(value) \in Off THEN "none"
                            ELSE IF LowerCase(value) = "reality" THEN "reality" ELSE "tls"
  BY NormalizeTlsIs
<1>9. VmessOn(opts) <=> LowerCase(value) = "tls"
  BY DEF VmessOn
<1> HIDE DEF value, security
<1> QED
  BY <1>3, <1>4, <1>5, <1>6, <1>7, <1>8, <1>9 DEF Off

-----------------------------------------------------------------------------
(* Any link.                                                                 *)

QuicNames == {"hysteria2", "hy2"}

\* What the probe makes of a link, by its scheme.
LEMMA OutboundOptionsIs ==
    ASSUME NEW l
    PROVE  /\ l.scheme = "vmess" => OutboundOptions(l) = VmessOutbound(l.opts)
           /\ l.scheme \in {"vless", "trojan", "tuic"} =>
                OutboundOptions(l) = StandardOutbound(l.scheme, l.opts)
           /\ l.scheme \in QuicNames => OutboundOptions(l) = StandardOutbound("hysteria2", l.opts)
           /\ l.scheme = "ss" => OutboundOptions(l) = ShadowsocksOutbound(l.opts)
           /\ l.scheme \notin LayeredTypes \cup QuicTypes \cup {"ss"} => OutboundOptions(l) = {}
<1> DEFINE scheme == l.scheme
<1>0. OutboundOptions(l) =
        CASE scheme = "vmess" -> VmessOutbound(l.opts)
          [] scheme \in {"vless", "trojan", "tuic"} -> StandardOutbound(scheme, l.opts)
          [] scheme \in {"hysteria2", "hy2"} -> StandardOutbound("hysteria2", l.opts)
          [] scheme = "ss" -> ShadowsocksOutbound(l.opts)
          [] OTHER -> {}
  BY DEF OutboundOptions
<1> HIDE DEF scheme
<1>1. scheme = "vmess" => ~(scheme \in {"vless", "trojan", "tuic"})
                          /\ ~(scheme \in {"hysteria2", "hy2"}) /\ ~(scheme = "ss")
  OBVIOUS
<1>2. scheme \in {"vless", "trojan", "tuic"} =>
        ~(scheme = "vmess") /\ ~(scheme \in {"hysteria2", "hy2"}) /\ ~(scheme = "ss")
  OBVIOUS
<1>3. scheme \in {"hysteria2", "hy2"} =>
        ~(scheme = "vmess") /\ ~(scheme \in {"vless", "trojan", "tuic"}) /\ ~(scheme = "ss")
  OBVIOUS
<1>4. scheme = "ss" => ~(scheme = "vmess") /\ ~(scheme \in {"vless", "trojan", "tuic"})
                       /\ ~(scheme \in {"hysteria2", "hy2"})
  OBVIOUS
<1>5. scheme \notin LayeredTypes \cup QuicTypes \cup {"ss"} =>
        /\ ~(scheme = "vmess") /\ ~(scheme \in {"vless", "trojan", "tuic"})
        /\ ~(scheme \in {"hysteria2", "hy2"}) /\ ~(scheme = "ss")
  BY DEF LayeredTypes, QuicTypes
<1>6. scheme = "vmess" => OutboundOptions(l) = VmessOutbound(l.opts)
  BY <1>0, <1>1, Zenon
<1>7. scheme \in {"vless", "trojan", "tuic"} => OutboundOptions(l) = StandardOutbound(scheme, l.opts)
  BY <1>0, <1>2, Zenon
<1>8. scheme \in {"hysteria2", "hy2"} => OutboundOptions(l) = StandardOutbound("hysteria2", l.opts)
  BY <1>0, <1>3, Zenon
<1>9. scheme = "ss" => OutboundOptions(l) = ShadowsocksOutbound(l.opts)
  BY <1>0, <1>4, Zenon
<1>10. scheme \notin LayeredTypes \cup QuicTypes \cup {"ss"} => OutboundOptions(l) = {}
  BY <1>0, <1>5, Zenon
<1> QED
  BY <1>6, <1>7, <1>8, <1>9, <1>10 DEF scheme, QuicNames

EntryOf(type, opts) == [type |-> type, opts |-> opts]

\* What the export makes of a link, by its scheme.
LEMMA EntryOptionsIs ==
    ASSUME NEW l
    PROVE  /\ l.scheme = "vmess" => EntryOptions(l) = {EntryOf("vmess", VmessUriToClash(l.opts))}
           /\ l.scheme \in {"vless", "trojan"} =>
                EntryOptions(l) = {EntryOf(l.scheme, StandardUriToClash(l.scheme, l.opts))}
           /\ l.scheme \in QuicNames => EntryOptions(l) = {EntryOf("hysteria2", Hysteria2UriToClash(l.opts))}
           /\ l.scheme = "tuic" => EntryOptions(l) = {EntryOf("tuic", TuicUriToClash(l.opts))}
           /\ l.scheme = "ss" => EntryOptions(l) = {EntryOf("ss", o) : o \in SsUriToClash(l.opts)}
<1> DEFINE scheme == l.scheme
<1>0. EntryOptions(l) =
        CASE scheme = "vmess" -> {EntryOf("vmess", VmessUriToClash(l.opts))}
          [] scheme \in {"vless", "trojan"} -> {EntryOf(scheme, StandardUriToClash(scheme, l.opts))}
          [] scheme = "ss" -> {EntryOf("ss", o) : o \in SsUriToClash(l.opts)}
          [] scheme = "ssr" -> {EntryOf("ssr", SsrUriToClash(l.opts))}
          [] scheme \in {"hysteria2", "hy2"} -> {EntryOf("hysteria2", Hysteria2UriToClash(l.opts))}
          [] scheme = "tuic" -> {EntryOf("tuic", TuicUriToClash(l.opts))}
  BY DEF EntryOptions, EntryOf
<1> HIDE DEF scheme
<1>1. scheme = "vmess" => ~(scheme \in {"vless", "trojan"}) /\ ~(scheme = "ss") /\ ~(scheme = "ssr")
                          /\ ~(scheme \in {"hysteria2", "hy2"}) /\ ~(scheme = "tuic")
  OBVIOUS
<1>2. scheme \in {"vless", "trojan"} => ~(scheme = "vmess") /\ ~(scheme = "ss") /\ ~(scheme = "ssr")
                          /\ ~(scheme \in {"hysteria2", "hy2"}) /\ ~(scheme = "tuic")
  OBVIOUS
<1>3. scheme \in {"hysteria2", "hy2"} => ~(scheme = "vmess") /\ ~(scheme \in {"vless", "trojan"})
                          /\ ~(scheme = "ss") /\ ~(scheme = "ssr") /\ ~(scheme = "tuic")
  OBVIOUS
<1>4. scheme = "tuic" => ~(scheme = "vmess") /\ ~(scheme \in {"vless", "trojan"})
                          /\ ~(scheme = "ss") /\ ~(scheme = "ssr") /\ ~(scheme \in {"hysteria2", "hy2"})
  OBVIOUS
<1>5. scheme = "ss" => ~(scheme = "vmess") /\ ~(scheme \in {"vless", "trojan"}) /\ ~(scheme = "ssr")
                          /\ ~(scheme \in {"hysteria2", "hy2"}) /\ ~(scheme = "tuic")
  OBVIOUS
<1>6. scheme = "vmess" => EntryOptions(l) = {EntryOf("vmess", VmessUriToClash(l.opts))}
  BY <1>0, <1>1, Zenon
<1>7. scheme \in {"vless", "trojan"} => EntryOptions(l) = {EntryOf(scheme, StandardUriToClash(scheme, l.opts))}
  BY <1>0, <1>2, Zenon
<1>8. scheme \in {"hysteria2", "hy2"} => EntryOptions(l) = {EntryOf("hysteria2", Hysteria2UriToClash(l.opts))}
  BY <1>0, <1>3, Zenon
<1>9. scheme = "tuic" => EntryOptions(l) = {EntryOf("tuic", TuicUriToClash(l.opts))}
  BY <1>0, <1>4, Zenon
<1>10. scheme = "ss" => EntryOptions(l) = {EntryOf("ss", o) : o \in SsUriToClash(l.opts)}
  BY <1>0, <1>5, Zenon
<1> QED
  BY <1>6, <1>7, <1>8, <1>9, <1>10 DEF scheme, QuicNames

\* Every link sing-box takes is written as an entry.
LEMMA LinkServed == ASSUME NEW l, OutboundOptions(l) # {} PROVE EntryOptions(l) # {}
<1>1. l.scheme \in LayeredTypes \cup QuicTypes \cup {"ss"}
  BY OutboundOptionsIs
<1>2. CASE l.scheme = "ss"
  <2>1. NormalizeSsMethod(l.opts["cipher"]) # {}
    BY <1>2, OutboundOptionsIs DEF ShadowsocksOutbound
  <2>2. SsUriToClash(l.opts) # {}
    BY <2>1 DEF SsUriToClash, SsFields
  <2> QED
    BY <1>2, <2>2, EntryOptionsIs
<1>3. CASE l.scheme # "ss"
  BY <1>1, <1>3, EntryOptionsIs DEF LayeredTypes, QuicTypes, QuicNames
<1> QED
  BY <1>2, <1>3

LEMMA QuicOutboundReads ==
    ASSUME NEW opts, NEW ts, NEW o \in Hysterias(opts, ts) \cup Tuics(opts, ts)
    PROVE  \E t \in ts : Carries(o.opts, OrDefault(t))
<1>1. CASE o \in Hysterias(opts, ts)
  <2>1. PICK t \in ts : o = OutboundWith("hysteria2", OrDefault(t) ++ Obfs(opts) ++ ObfsPassword(opts))
    BY <1>1 DEF Hysterias
  <2>2. o.opts = OrDefault(t) ++ Obfs(opts) ++ ObfsPassword(opts)
    BY <2>1 DEF OutboundWith
  <2>3. \A k, d : k # "obfs" => Val(Obfs(opts), k, d) = d
    BY ValRenamed DEF In, Obfs
  <2>4. \A k, d : k # "obfs_password" => Val(ObfsPassword(opts), k, d) = d
    <3>1. \A k, d : k # "obfs_password" =>
            Val(Renamed(opts, [obfs_password |-> <<"obfs-password", "obfs_password">>]), k, d) = d
      BY ValRenamed DEF In
    <3> QED
      BY <3>1, ValNone DEF When, ObfsPassword
  <2>5. ASSUME NEW k \in TlsKeys \cup TransportKeys, NEW d
        PROVE  Val(o.opts, k, d) = Val(OrDefault(t), k, d)
    <3>1. k # "obfs" /\ k # "obfs_password"
      BY DEF TlsKeys, TransportKeys
    <3>2. Val(o.opts, k, d) = Val(OrDefault(t), k, Val(Obfs(opts), k, Val(ObfsPassword(opts), k, d)))
      BY <2>2, ValJoin
    <3> QED
      BY <2>3, <2>4, <3>1, <3>2
  <2> QED
    BY <2>5 DEF Carries
<1>2. CASE o \in Tuics(opts, ts)
  <2>1. PICK t \in ts : o = OutboundWith("tuic", OrDefault(t) ++ Congestion(opts))
    BY <1>2 DEF Tuics
  <2>2. o.opts = OrDefault(t) ++ Congestion(opts)
    BY <2>1 DEF OutboundWith
  <2>3. \A k, d : k # "congestion" /\ k # "relay" => Val(Congestion(opts), k, d) = d
    BY ValRenamed DEF In, Congestion
  <2>4. ASSUME NEW k \in TlsKeys \cup TransportKeys, NEW d
        PROVE  Val(o.opts, k, d) = Val(OrDefault(t), k, d)
    <3>1. k # "congestion" /\ k # "relay"
      BY DEF TlsKeys, TransportKeys
    <3>2. Val(o.opts, k, d) = Val(OrDefault(t), k, Val(Congestion(opts), k, d))
      BY <2>2, ValJoin
    <3> QED
      BY <2>3, <3>1, <3>2
  <2> QED
    BY <2>4 DEF Carries
<1> QED
  BY <1>1, <1>2

LEMMA LayeredOutboundReads ==
    ASSUME NEW opts, NEW ts, NEW o \in Layered(opts, ts) \cup Trojans(opts, ts)
    PROVE  \E t \in ts, n \in TransportConfig(opts) : Carries(o.opts, t ++ n)
<1>1. CASE o \in Layered(opts, ts)
  <2>1. PICK f \in VlessFlow(opts), t \in ts, n \in TransportConfig(opts) :
            o = OutboundWith("vless", f ++ t ++ n)
    BY <1>1 DEF Layered
  <2>2. o.opts = f ++ t ++ n
    BY <2>1 DEF OutboundWith
  <2>3. ASSUME NEW k \in TlsKeys \cup TransportKeys, NEW d
        PROVE  Val(o.opts, k, d) = Val(t, k, Val(n, k, d))
    <3>1. k # "flow"
      BY DEF TlsKeys, TransportKeys
    <3>2. Val(o.opts, k, d) = Val(f, k, Val(t, k, Val(n, k, d)))
      BY <2>2, ValJoin
    <3> QED
      BY <3>1, <3>2, FlowReads
  <2> QED
    BY <2>3, ValJoin DEF Carries
<1>2. CASE o \in Trojans(opts, ts)
  <2>1. PICK t \in ts, n \in TransportConfig(opts) : o = OutboundWith("trojan", t ++ n)
    BY <1>2 DEF Trojans
  <2>2. o.opts = t ++ n
    BY <2>1 DEF OutboundWith
  <2> QED
    BY <2>2 DEF Carries
<1> QED
  BY <1>1, <1>2

LEMMA LayeredLinkAgrees ==
    ASSUME NEW l, l.scheme \in {"vless", "trojan"}, Filled(l.opts),
           NEW o \in OutboundOptions(l), NEW e \in EntryOptions(l)
    PROVE  /\ Differences(OutboundWire(o), EntryWire(e)) \subseteq ExportGaps(l)
           /\ KeyGap(l) \/ KeyMode(l) = OutboundWire(o).mode
<1> DEFINE opts == l.opts
<1>1. PICK default \in BOOLEAN : default <=> l.scheme = "trojan"
  OBVIOUS
<1> DEFINE ts == TlsConfig(opts, default)
<1>2. o \in Layered(opts, ts) \cup Trojans(opts, ts)
  <2>1. OutboundOptions(l) = StandardOutbound(l.scheme, opts)
    BY OutboundOptionsIs
  <2>2. CASE l.scheme = "vless"
    <3>1. default = FALSE
      BY <1>1, <2>2
    <3> QED
      BY <2>1, <2>2, <3>1, StandardOutboundIs
  <2>3. CASE l.scheme = "trojan"
    <3>1. default = TRUE
      BY <1>1, <2>3
    <3> QED
      BY <2>1, <2>3, <3>1, StandardOutboundIs
  <2> QED
    BY <2>2, <2>3
<1>3. PICK t \in ts, n \in TransportConfig(opts) : Carries(o.opts, t ++ n)
  <2> HIDE DEF ts
  <2> QED
    BY <1>2, LayeredOutboundReads
<1>4. e.type = l.scheme /\ e.opts = StandardUriToClash(l.scheme, opts)
  BY EntryOptionsIs DEF EntryOf
<1>5. Differences(OutboundWire(o), EntryWire(e)) \subseteq ExportGaps(l)
  BY <1>1, <1>3, <1>4, StandardAgrees
<1>6. OutboundWire(o).mode = ProbeMode(opts, default)
  <2>1. Mode(o.opts) = ProbeMode(opts, default)
    BY <1>3, LayeredReads
  <2> QED
    BY <2>1, OutboundFields
<1>7. KeyGap(l) \/ KeyMode(l) = ProbeMode(opts, default)
  BY <1>1, StandardKeyAgrees
<1> QED
  BY <1>5, <1>6, <1>7

LEMMA QuicLinkAgrees ==
    ASSUME NEW l, l.scheme \in QuicTypes, Filled(l.opts),
           NEW o \in OutboundOptions(l), NEW e \in EntryOptions(l)
    PROVE  /\ Differences(OutboundWire(o), EntryWire(e)) \subseteq ExportGaps(l)
           /\ KeyGap(l) \/ KeyMode(l) = OutboundWire(o).mode
<1> DEFINE opts == l.opts
<1>1. PICK default \in BOOLEAN : default = TRUE
  OBVIOUS
<1> DEFINE ts == TlsConfig(opts, default)
<1>2. o \in Hysterias(opts, ts) \cup Tuics(opts, ts)
  <2>1. OutboundOptions(l) \in {StandardOutbound("tuic", opts), StandardOutbound("hysteria2", opts)}
    BY OutboundOptionsIs DEF QuicTypes, QuicNames
  <2>2. \/ o \in Hysterias(opts, TlsConfig(opts, TRUE))
        \/ o \in Tuics(opts, TlsConfig(opts, TRUE))
    BY <2>1, StandardOutboundIs
  <2> QED
    BY <1>1, <2>2
<1>3. PICK t \in ts : Carries(o.opts, OrDefault(t))
  <2> HIDE DEF ts
  <2> QED
    BY <1>2, QuicOutboundReads
<1>4. /\ e.type \in QuicTypes
      /\ e.opts = Hysteria2UriToClash(opts) \/ e.opts = TuicUriToClash(opts)
      /\ l.scheme = "tuic" => e.opts = TuicUriToClash(opts)
  BY EntryOptionsIs DEF EntryOf, QuicTypes, QuicNames
<1>5. On(opts, default) <=> Sec(opts) # "none"
  BY <1>1 DEF On
<1>6. default <=> l.scheme \in QuicTypes
  BY <1>1
<1>7. Differences(OutboundWire(o), EntryWire(e)) \subseteq ExportGaps(l)
  BY <1>3, <1>4, <1>5, QuicAgrees
<1>8. OutboundWire(o).mode = QuicMode(opts, default)
  <2>1. /\ On(opts, default) => Mode(o.opts) = ProbeMode(opts, default)
        /\ ~On(opts, default) => Mode(o.opts) = "true"
    BY <1>3, QuicReads
  <2>2. Mode(o.opts) = QuicMode(opts, default)
    BY <2>1 DEF QuicMode
  <2> QED
    BY <2>2, OutboundFields
<1>9. KeyGap(l) \/ KeyMode(l) = QuicMode(opts, default)
  BY <1>6, QuicKeyAgrees
<1> QED
  BY <1>7, <1>8, <1>9

\* Any link: the two halves of ReadingsAgree.
LEMMA LinkAgrees ==
    ASSUME NEW l, Filled(l.opts), NEW o \in OutboundOptions(l), NEW e \in EntryOptions(l)
    PROVE  /\ Differences(OutboundWire(o), EntryWire(e)) \subseteq ExportGaps(l)
           /\ KeyGap(l) \/ KeyMode(l) = OutboundWire(o).mode
<1>1. CASE l.scheme \in {"vless", "trojan"}
  BY <1>1, LayeredLinkAgrees
<1>2. CASE l.scheme \in QuicTypes
  BY <1>2, QuicLinkAgrees
<1>3. CASE l.scheme = "vmess"
  <2>1. o \in VmessOutbound(l.opts) /\ e.type = "vmess" /\ e.opts = VmessUriToClash(l.opts)
    BY <1>3, OutboundOptionsIs, EntryOptionsIs DEF EntryOf
  <2>2. Differences(OutboundWire(o), EntryWire(e)) \subseteq ExportGaps(l)
    BY <1>3, <2>1, VmessAgrees
  <2>3. OutboundWire(o).mode = IF VmessOn(l.opts) THEN "true" ELSE "false"
    BY <2>1, VmessReads, OutboundFields
  <2> QED
    BY <1>3, <2>2, <2>3, VmessKeyAgrees
<1>4. CASE l.scheme = "ss"
  <2>1. o \in ShadowsocksOutbound(l.opts) /\ e.type = "ss"
    BY <1>4, OutboundOptionsIs, EntryOptionsIs DEF EntryOf
  <2>2. Differences(OutboundWire(o), EntryWire(e)) \subseteq ExportGaps(l)
    BY <2>1, ShadowsocksAgrees
  <2>3. OutboundWire(o).mode = "false"
    BY <2>1, ShadowsocksReads, PlainWire
  <2> QED
    BY <1>4, <2>2, <2>3, ShadowsocksKeyAgrees
<1>5. l.scheme \in LayeredTypes \cup QuicTypes \cup {"ss"}
  BY OutboundOptionsIs
<1> QED
  BY <1>1, <1>2, <1>3, <1>4, <1>5 DEF LayeredTypes

-----------------------------------------------------------------------------
(* What a link of a Clash entry says.                                      *)

EntryHost(o, network) ==
    InUse(o, network, <<"ws-opts.headers.Host">>, <<"h2-opts.host">>, <<"httpupgrade-opts.host">>)
EntryPath(o, network) ==
    InUse(o, network, <<"ws-opts.path">>, <<"h2-opts.path">>, <<"httpupgrade-opts.path">>)
EntryService(o, network) == GrpcService(o, network, "grpc-opts.grpc-service-name")

\* The transport options of a link made of a Clash entry, option by option.
LEMMA LinkTransportReads ==
    ASSUME NEW o, NEW service, NEW k, NEW d
    PROVE  LET network == Val(o, "network", "tcp")
           IN  Val(LinkTransport(o, service), k, d) =
                 IF network = "ws" /\ k = "path" THEN Val(o, "ws-opts.path", d)
                 ELSE IF network = "ws" /\ k = "host" THEN Val(o, "ws-opts.headers.Host", d)
                 ELSE IF network \in HttpNames /\ k = "path" THEN Val(o, "h2-opts.path", d)
                 ELSE IF network \in HttpNames /\ k = "host" THEN Val(o, "h2-opts.host", d)
                 ELSE IF network = "httpupgrade" /\ k = "path" THEN Val(o, "httpupgrade-opts.path", d)
                 ELSE IF network = "httpupgrade" /\ k = "host" THEN Val(o, "httpupgrade-opts.host", d)
                 ELSE IF network = "grpc" /\ k = service THEN Val(o, "grpc-opts.grpc-service-name", d)
                 ELSE d
<1> DEFINE of(path, host) == Renamed(o, Option("path", <<path>>) ++ Option("host", <<host>>))
           ws == of("ws-opts.path", "ws-opts.headers.Host")
           grpc == Renamed(o, Option(service, <<"grpc-opts.grpc-service-name">>))
           h2 == of("h2-opts.path", "h2-opts.host")
           upgrade == of("httpupgrade-opts.path", "httpupgrade-opts.host")
           network == Val(o, "network", "tcp")
           made == LinkTransport(o, service)
<1>0. made = CASE network = "ws" -> ws [] network = "grpc" -> grpc
               [] network \in {"h2", "http"} -> h2 [] network = "httpupgrade" -> upgrade
               [] OTHER -> NoOpts
  BY DEF LinkTransport, Val
<1>1. Val(ws, k, d) = IF k = "path" THEN Val(o, "ws-opts.path", d)
                      ELSE IF k = "host" THEN Val(o, "ws-opts.headers.Host", d) ELSE d
  BY ValRenamed, AltOne DEF In, Option, ++
<1>2. Val(h2, k, d) = IF k = "path" THEN Val(o, "h2-opts.path", d)
                      ELSE IF k = "host" THEN Val(o, "h2-opts.host", d) ELSE d
  BY ValRenamed, AltOne DEF In, Option, ++
<1>3. Val(upgrade, k, d) = IF k = "path" THEN Val(o, "httpupgrade-opts.path", d)
                           ELSE IF k = "host" THEN Val(o, "httpupgrade-opts.host", d) ELSE d
  BY ValRenamed, AltOne DEF In, Option, ++
<1>4. Val(grpc, k, d) = IF k = service THEN Val(o, "grpc-opts.grpc-service-name", d) ELSE d
  BY ValRenamed, AltOne DEF In, Option
<1> HIDE DEF ws, h2, upgrade, grpc, network, made
<1>5. CASE network = "ws"
  <2>1. made = ws
    <3>1. ~(network = "grpc") /\ ~(network \in {"h2", "http"}) /\ ~(network = "httpupgrade")
      BY <1>5
    <3> QED
      BY <1>0, <1>5, <3>1, Zenon
  <2> QED
    BY <1>1, <1>5, <2>1 DEF HttpNames, network, made
<1>6. CASE network = "grpc"
  <2>1. made = grpc
    <3>1. ~(network = "ws") /\ ~(network \in {"h2", "http"}) /\ ~(network = "httpupgrade")
      BY <1>6
    <3> QED
      BY <1>0, <1>6, <3>1, Zenon
  <2> QED
    BY <1>4, <1>6, <2>1 DEF HttpNames, network, made
<1>7. CASE network \in HttpNames
  <2>1. made = h2
    <3>1. ~(network = "ws") /\ ~(network = "grpc") /\ network \in {"h2", "http"} /\ ~(network = "httpupgrade")
      BY <1>7 DEF HttpNames
    <3> QED
      BY <1>0, <3>1, Zenon
  <2> QED
    BY <1>2, <1>7, <2>1 DEF HttpNames, network, made
<1>8. CASE network = "httpupgrade"
  <2>1. made = upgrade
    <3>1. ~(network = "ws") /\ ~(network = "grpc") /\ ~(network \in {"h2", "http"})
      BY <1>8
    <3> QED
      BY <1>0, <1>8, <3>1, Zenon
  <2> QED
    BY <1>3, <1>8, <2>1 DEF HttpNames, network, made
<1>9. CASE /\ ~(network = "ws") /\ ~(network = "grpc")
           /\ ~(network \in {"h2", "http"}) /\ ~(network = "httpupgrade")
  <2>1. made = NoOpts
    BY <1>0, <1>9, Zenon
  <2> QED
    BY <1>9, <2>1, ValNone DEF HttpNames, network, made
<1> QED
  BY <1>5, <1>6, <1>7, <1>8, <1>9 DEF HttpNames

\* They say what the entry says of the transport in use.
LEMMA LinkTransportSays ==
    ASSUME NEW o, NEW service \in {"path", "serviceName"}
    PROVE  LET n == LinkTransport(o, service)
               network == Val(o, "network", "tcp")
           IN  /\ \A k, d : k \notin {"host", "path", "serviceName"} => Val(n, k, d) = d
               /\ Val(n, "host", NoText) = EntryHost(o, network)
               /\ service # "path" \/ network # "grpc" => Val(n, "path", NoText) = EntryPath(o, network)
               /\ service # "path" => Val(n, "serviceName", NoText) = EntryService(o, network)
<1> DEFINE n == LinkTransport(o, service)
           network == Val(o, "network", "tcp")
<1>0. "ws" \notin HttpNames /\ "httpupgrade" \notin HttpNames /\ "grpc" \notin HttpNames
  BY DEF HttpNames
<1>1. \A k, d : k \notin {"host", "path", "serviceName"} => Val(n, k, d) = d
  BY LinkTransportReads
<1>2. Val(n, "host", NoText) = IF network = "ws" THEN Val(o, "ws-opts.headers.Host", NoText)
                               ELSE IF network \in HttpNames THEN Val(o, "h2-opts.host", NoText)
                               ELSE IF network = "httpupgrade" THEN Val(o, "httpupgrade-opts.host", NoText)
                               ELSE NoText
  BY <1>0, LinkTransportReads
<1>3. service # "path" \/ network # "grpc" =>
        Val(n, "path", NoText) = IF network = "ws" THEN Val(o, "ws-opts.path", NoText)
                               ELSE IF network \in HttpNames THEN Val(o, "h2-opts.path", NoText)
                               ELSE IF network = "httpupgrade" THEN Val(o, "httpupgrade-opts.path", NoText)
                               ELSE NoText
  BY <1>0, LinkTransportReads
<1>4. service # "path" =>
        Val(n, "serviceName", NoText) = IF network = "grpc" THEN Val(o, "grpc-opts.grpc-service-name", NoText)
                                        ELSE NoText
  BY <1>0, LinkTransportReads
<1> HIDE DEF n, network
<1>5. EntryHost(o, network) = IF network = "ws" THEN Val(o, "ws-opts.headers.Host", NoText)
                               ELSE IF network \in HttpNames THEN Val(o, "h2-opts.host", NoText)
                               ELSE IF network = "httpupgrade" THEN Val(o, "httpupgrade-opts.host", NoText)
                               ELSE NoText
  BY InUseIs, AltOne DEF EntryHost
<1>6. EntryPath(o, network) = IF network = "ws" THEN Val(o, "ws-opts.path", NoText)
                               ELSE IF network \in HttpNames THEN Val(o, "h2-opts.path", NoText)
                               ELSE IF network = "httpupgrade" THEN Val(o, "httpupgrade-opts.path", NoText)
                               ELSE NoText
  BY InUseIs, AltOne DEF EntryPath
<1>7. EntryService(o, network) = IF network = "grpc" THEN Val(o, "grpc-opts.grpc-service-name", NoText)
                                 ELSE NoText
  BY AltOne DEF EntryService, GrpcService
<1> QED
  BY <1>1, <1>2, <1>3, <1>4, <1>5, <1>6, <1>7 DEF n, network

\* The name of the transport is left out where it is the default.
LEMMA LinkNetworkReads ==
    ASSUME NEW o, NEW k, NEW d
    PROVE  LET network == Val(o, "network", "tcp")
           IN  /\ k # "type" => Val(LinkNetwork(o), k, d) = d
               /\ Val(LinkNetwork(o), "type", "tcp") = network
<1>1. Val(Renamed(o, [type |-> <<"network">>]), k, d) = IF k = "type" THEN Val(o, "network", d) ELSE d
  BY ValRenamed, AltOne DEF In
<1>2. Val(Renamed(o, [type |-> <<"network">>]), "type", "tcp") = Val(o, "network", "tcp")
  BY ValRenamed, AltOne DEF In
<1> QED
  BY <1>1, <1>2, ValNone DEF LinkNetwork, When, Val

LEMMA SkipVerifyReads ==
    ASSUME NEW o, NEW key, NEW k, NEW d
    PROVE  Val(SkipVerify(o, key), k, d) = IF k = key /\ Flag(o, <<"skip-cert-verify">>) THEN "1" ELSE d
  BY ValOption, ValNone DEF SkipVerify, When

-----------------------------------------------------------------------------
(* What a link of each Clash type says.                                      *)

SkipKey == <<"skip-cert-verify">>

\* The link of a Clash vless entry, option by option.
LEMMA ClashVlessReads ==
    ASSUME NEW c, NEW l, l = ClashVlessToUri(c)
    PROVE  LET m == l.opts
               network == Val(c, "network", "tcp")
               key == In(c, "reality-opts.public-key")
               tls == Val(c, "tls", "false") = "true"
           IN  /\ l.scheme = "vless"
               /\ \A d : Val(m, "security", d) = IF key THEN "reality" ELSE IF tls THEN "tls" ELSE d
               /\ \A d : Val(m, "tls", d) = d
               /\ \A d : Val(m, "sni", d) = Val(c, "servername", d)
               /\ \A d : Val(m, "alpn", d) = Val(c, "alpn", d)
               /\ \A d : Val(m, "flow", d) = Val(c, "flow", d)
               /\ \A d : Val(m, "pbk", d) = Val(c, "reality-opts.public-key", d)
               /\ \A d : Val(m, "sid", d) = Val(c, "reality-opts.short-id", d)
               /\ \A d : Val(m, "allowInsecure", d) = IF Flag(c, SkipKey) THEN "1" ELSE d
               /\ \A k \in {"public_key", "reality_pbk", "short_id", "insecure", "skip-cert-verify",
                            "serverName", "peer", "net", "network", "service_name"} : \A d : Val(m, k, d) = d
               /\ Val(m, "type", "tcp") = network
               /\ Val(m, "host", NoText) = EntryHost(c, network)
               /\ Val(m, "path", NoText) = EntryPath(c, network)
               /\ Val(m, "serviceName", NoText) = EntryService(c, network)
<1> DEFINE m == l.opts
           network == Val(c, "network", "tcp")
           key == In(c, "reality-opts.public-key")
           tls == Val(c, "tls", "false") = "true"
           reality == When(key, Option("security", "reality"))
           secure == When(tls, Option("security", "tls"))
           names == Renamed(c, [sni |-> <<"servername">>, fp |-> <<"client-fingerprint">>,
                                alpn |-> <<"alpn">>, flow |-> <<"flow">>,
                                pbk |-> <<"reality-opts.public-key">>,
                                sid |-> <<"reality-opts.short-id">>])
           skip == SkipVerify(c, "allowInsecure")
           net == LinkNetwork(c)
           way == LinkTransport(c, "serviceName")
<1>1. l.scheme = "vless" /\ m = reality ++ secure ++ names ++ skip ++ net ++ way
  <2>1. When(Has(c, <<"reality-opts.public-key">>), Option("security", "reality")) = reality
    BY HasOne DEF When
  <2>2. When(ParamOr(c, <<"tls">>, "false") = "true", Option("security", "tls")) = secure
    BY DEF When, Val
  <2> HIDE DEF reality, secure, names, skip, net, way
  <2>3. ClashVlessToUri(c) = Link("vless", When(Has(c, <<"reality-opts.public-key">>), Option("security", "reality"))
          ++ When(ParamOr(c, <<"tls">>, "false") = "true", Option("security", "tls")) ++ names ++ skip ++ net ++ way)
    BY DEF ClashVlessToUri, names, skip, net, way
  <2> QED
    BY <2>1, <2>2, <2>3 DEF Link
<1>3. \A k, d : Val(reality, k, d) = IF k = "security" /\ key THEN "reality" ELSE d
  BY ValOption, ValNone DEF When
<1>4. \A k, d : Val(secure, k, d) = IF k = "security" /\ tls THEN "tls" ELSE d
  BY ValOption, ValNone DEF When
<1>5. ASSUME NEW k, NEW d
      PROVE  Val(names, k, d) = IF k = "sni" THEN Val(c, "servername", d)
                                ELSE IF k = "fp" THEN Val(c, "client-fingerprint", d)
                                ELSE IF k = "alpn" THEN Val(c, "alpn", d)
                                ELSE IF k = "flow" THEN Val(c, "flow", d)
                                ELSE IF k = "pbk" THEN Val(c, "reality-opts.public-key", d)
                                ELSE IF k = "sid" THEN Val(c, "reality-opts.short-id", d)
                                ELSE d
  BY ValRenamed, AltOne DEF In
<1>6. \A k, d : Val(skip, k, d) = IF k = "allowInsecure" /\ Flag(c, SkipKey) THEN "1" ELSE d
  BY SkipVerifyReads DEF SkipKey
<1>7. /\ \A k, d : k # "type" => Val(net, k, d) = d
      /\ Val(net, "type", "tcp") = network
  BY LinkNetworkReads
<1>8. /\ \A k, d : k \notin {"host", "path", "serviceName"} => Val(way, k, d) = d
      /\ Val(way, "host", NoText) = EntryHost(c, network)
      /\ Val(way, "path", NoText) = EntryPath(c, network)
      /\ Val(way, "serviceName", NoText) = EntryService(c, network)
  BY LinkTransportSays
<1> HIDE DEF reality, secure, names, skip, net, way, key, tls, network, m
<1>9. \A k, d : Val(m, k, d) = Val(reality, k, Val(secure, k, Val(names, k,
                                 Val(skip, k, Val(net, k, Val(way, k, d))))))
  BY <1>1, ValJoin
<1>11. \A d : Val(m, "security", d) = IF key THEN "reality" ELSE IF tls THEN "tls" ELSE d
  BY <1>3, <1>4, <1>5, <1>6, <1>7, <1>8, <1>9
<1>12. \A d : Val(m, "tls", d) = d
  BY <1>3, <1>4, <1>5, <1>6, <1>7, <1>8, <1>9
<1>13. \A d : /\ Val(m, "sni", d) = Val(c, "servername", d) /\ Val(m, "alpn", d) = Val(c, "alpn", d)
              /\ Val(m, "flow", d) = Val(c, "flow", d)
              /\ Val(m, "pbk", d) = Val(c, "reality-opts.public-key", d)
              /\ Val(m, "sid", d) = Val(c, "reality-opts.short-id", d)
  BY <1>3, <1>4, <1>5, <1>6, <1>7, <1>8, <1>9
<1>14. \A d : Val(m, "allowInsecure", d) = IF Flag(c, SkipKey) THEN "1" ELSE d
  BY <1>3, <1>4, <1>5, <1>6, <1>7, <1>8, <1>9
<1>15. \A k \in {"public_key", "reality_pbk", "short_id", "insecure", "skip-cert-verify",
                 "serverName", "peer", "net", "network", "service_name"} : \A d : Val(m, k, d) = d
  BY <1>3, <1>4, <1>5, <1>6, <1>7, <1>8, <1>9
<1>16. Val(m, "type", "tcp") = network
  BY <1>3, <1>4, <1>5, <1>6, <1>7, <1>8, <1>9
<1>17. /\ Val(m, "host", NoText) = EntryHost(c, network)
       /\ Val(m, "path", NoText) = EntryPath(c, network)
       /\ Val(m, "serviceName", NoText) = EntryService(c, network)
  BY <1>3, <1>4, <1>5, <1>6, <1>7, <1>8, <1>9
<1> QED
  BY <1>1, <1>11, <1>12, <1>13, <1>14, <1>15, <1>16, <1>17 DEF m, network, key, tls

\* The link of a Clash trojan entry, option by option.
LEMMA ClashTrojanReads ==
    ASSUME NEW c, NEW l, l = ClashTrojanToUri(c)
    PROVE  LET m == l.opts
               network == Val(c, "network", "tcp")
               tls == Val(c, "tls", "true") = "true"
           IN  /\ l.scheme = "trojan"
               /\ \A d : Val(m, "security", d) = IF tls THEN "tls" ELSE d
               /\ \A d : Val(m, "sni", d) = Val(c, "servername", d)
               /\ \A d : Val(m, "allowInsecure", d) = IF Flag(c, SkipKey) THEN "1" ELSE d
               /\ \A k \in {"tls", "pbk", "public_key", "reality_pbk", "sid", "short_id", "insecure",
                            "skip-cert-verify", "serverName", "peer", "net", "network",
                            "service_name"} : \A d : Val(m, k, d) = d
               /\ Val(m, "type", "tcp") = network
               /\ Val(m, "host", NoText) = EntryHost(c, network)
               /\ Val(m, "path", NoText) = EntryPath(c, network)
               /\ Val(m, "serviceName", NoText) = EntryService(c, network)
<1> DEFINE m == l.opts
           network == Val(c, "network", "tcp")
           tls == Val(c, "tls", "true") = "true"
           secure == When(tls, Option("security", "tls"))
           names == Renamed(c, [sni |-> <<"servername">>])
           skip == SkipVerify(c, "allowInsecure")
           net == LinkNetwork(c)
           way == LinkTransport(c, "serviceName")
<1>1. l.scheme = "trojan" /\ m = secure ++ names ++ skip ++ net ++ way
  <2>1. When(ParamOr(c, <<"tls">>, "true") = "true", Option("security", "tls")) = secure
    BY DEF When, Val
  <2> HIDE DEF secure, names, skip, net, way
  <2>2. ClashTrojanToUri(c) = Link("trojan",
          When(ParamOr(c, <<"tls">>, "true") = "true", Option("security", "tls")) ++ names ++ skip ++ net ++ way)
    BY DEF ClashTrojanToUri, names, skip, net, way
  <2> QED
    BY <2>1, <2>2 DEF Link
<1>3. \A k, d : Val(secure, k, d) = IF k = "security" /\ tls THEN "tls" ELSE d
  BY ValOption, ValNone DEF When
<1>4. ASSUME NEW k, NEW d PROVE Val(names, k, d) = IF k = "sni" THEN Val(c, "servername", d) ELSE d
  BY ValRenamed, AltOne DEF In
<1>5. \A k, d : Val(skip, k, d) = IF k = "allowInsecure" /\ Flag(c, SkipKey) THEN "1" ELSE d
  BY SkipVerifyReads DEF SkipKey
<1>6. /\ \A k, d : k # "type" => Val(net, k, d) = d
      /\ Val(net, "type", "tcp") = network
  BY LinkNetworkReads
<1>7. /\ \A k, d : k \notin {"host", "path", "serviceName"} => Val(way, k, d) = d
      /\ Val(way, "host", NoText) = EntryHost(c, network)
      /\ Val(way, "path", NoText) = EntryPath(c, network)
      /\ Val(way, "serviceName", NoText) = EntryService(c, network)
  BY LinkTransportSays
<1> HIDE DEF secure, names, skip, net, way, tls, network, m
<1>8. \A k, d : Val(m, k, d) = Val(secure, k, Val(names, k,
                                 Val(skip, k, Val(net, k, Val(way, k, d)))))
  BY <1>1, ValJoin
<1>10. \A d : Val(m, "security", d) = IF tls THEN "tls" ELSE d
  BY <1>3, <1>4, <1>5, <1>6, <1>7, <1>8
<1>11. \A d : Val(m, "sni", d) = Val(c, "servername", d)
  BY <1>3, <1>4, <1>5, <1>6, <1>7, <1>8
<1>12. \A d : Val(m, "allowInsecure", d) = IF Flag(c, SkipKey) THEN "1" ELSE d
  BY <1>3, <1>4, <1>5, <1>6, <1>7, <1>8
<1>13. \A k \in {"tls", "pbk", "public_key", "reality_pbk", "sid", "short_id", "insecure",
                 "skip-cert-verify", "serverName", "peer", "net", "network",
                 "service_name"} : \A d : Val(m, k, d) = d
  BY <1>3, <1>4, <1>5, <1>6, <1>7, <1>8
<1>14. Val(m, "type", "tcp") = network
  BY <1>3, <1>4, <1>5, <1>6, <1>7, <1>8
<1>15. /\ Val(m, "host", NoText) = EntryHost(c, network)
       /\ Val(m, "path", NoText) = EntryPath(c, network)
       /\ Val(m, "serviceName", NoText) = EntryService(c, network)
  BY <1>3, <1>4, <1>5, <1>6, <1>7, <1>8
<1> QED
  BY <1>1, <1>10, <1>11, <1>12, <1>13, <1>14, <1>15 DEF m, network, tls

\* The link of a Clash vmess entry, option by option.
LEMMA ClashVmessReads ==
    ASSUME NEW c, NEW l, l = ClashVmessToUri(c)
    PROVE  LET m == l.opts
               network == Val(c, "network", "tcp")
               tls == Val(c, "tls", "false") = "true"
           IN  /\ l.scheme = "vmess"
               /\ \A d : Val(m, "tls", d) = IF tls THEN "tls" ELSE d
               /\ tls => /\ \A d : Val(m, "sni", d) = Val(c, "servername", d)
                         /\ \A d : Val(m, "alpn", d) = Val(c, "alpn", d)
                         /\ \A d : Val(m, "allowInsecure", d) = IF Flag(c, SkipKey) THEN "1" ELSE d
               /\ \A k \in {"insecure", "skip-cert-verify"} : \A d : Val(m, k, d) = d
               /\ \A d : Val(m, "net", d) = network
               /\ Val(m, "host", NoText) = EntryHost(c, network)
               /\ network # "grpc" => Val(m, "path", NoText) = EntryPath(c, network)
<1> DEFINE m == l.opts
           network == Val(c, "network", "tcp")
           tls == Val(c, "tls", "false") = "true"
           cipher == Option("scy", ParamOr(c, <<"cipher", "security">>, "auto"))
           on == Option("tls", "tls")
           names == Renamed(c, [sni |-> <<"servername">>, alpn |-> <<"alpn">>,
                                fp |-> <<"client-fingerprint">>])
           skip == SkipVerify(c, "allowInsecure")
           secure == When(tls, on ++ names ++ skip)
           net == Option("net", network)
           way == LinkTransport(c, "path")
<1>1. l.scheme = "vmess" /\ m = cipher ++ secure ++ net ++ way
  <2> HIDE DEF cipher, on, names, skip, way
  <2>1. When(ParamOr(c, <<"tls">>, "false") = "true", on ++ names ++ skip) = secure
    BY DEF When, Val
  <2>2. ParamOr(c, <<"network">>, "tcp") = network
    BY DEF Val
  <2> HIDE DEF secure
  <2>3. ClashVmessToUri(c) = Link("vmess", cipher
          ++ When(ParamOr(c, <<"tls">>, "false") = "true", on ++ names ++ skip)
          ++ Option("net", ParamOr(c, <<"network">>, "tcp")) ++ way)
    BY DEF ClashVmessToUri, cipher, on, names, skip, way
  <2> QED
    BY <2>1, <2>2, <2>3 DEF Link
<1>2. \A k, d : k # "scy" => Val(cipher, k, d) = d
  BY ValOption
<1>3. ASSUME NEW k, NEW d
      PROVE  Val(names, k, d) = IF k = "sni" THEN Val(c, "servername", d)
                                ELSE IF k = "alpn" THEN Val(c, "alpn", d)
                                ELSE IF k = "fp" THEN Val(c, "client-fingerprint", d) ELSE d
  BY ValRenamed, AltOne DEF In
<1>4. \A k, d : Val(skip, k, d) = IF k = "allowInsecure" /\ Flag(c, SkipKey) THEN "1" ELSE d
  BY SkipVerifyReads DEF SkipKey
<1> HIDE DEF names, skip
<1>5. \A k, d : Val(secure, k, d) =
        IF tls THEN IF k = "tls" THEN "tls" ELSE Val(names, k, Val(skip, k, d)) ELSE d
  <2>1. \A k, d : Val(on ++ names ++ skip, k, d) = IF k = "tls" THEN "tls" ELSE Val(names, k, Val(skip, k, d))
    BY ValJoin, ValOption
  <2> QED
    BY <2>1, ValNone DEF When
<1>6. \A k, d : Val(net, k, d) = IF k = "net" THEN network ELSE d
  BY ValOption
<1>7. /\ \A k, d : k \notin {"host", "path", "serviceName"} => Val(way, k, d) = d
      /\ Val(way, "host", NoText) = EntryHost(c, network)
      /\ network # "grpc" => Val(way, "path", NoText) = EntryPath(c, network)
  BY LinkTransportSays
<1> HIDE DEF cipher, secure, net, way, tls, network, m
<1>8. \A k, d : Val(m, k, d) = Val(cipher, k, Val(secure, k, Val(net, k, Val(way, k, d))))
  BY <1>1, ValJoin
<1>9. \A d : Val(m, "tls", d) = IF tls THEN "tls" ELSE d
  BY <1>2, <1>3, <1>4, <1>5, <1>6, <1>7, <1>8
<1>10. tls => /\ \A d : Val(m, "sni", d) = Val(c, "servername", d)
              /\ \A d : Val(m, "alpn", d) = Val(c, "alpn", d)
              /\ \A d : Val(m, "allowInsecure", d) = IF Flag(c, SkipKey) THEN "1" ELSE d
  BY <1>2, <1>3, <1>4, <1>5, <1>6, <1>7, <1>8
<1>11. \A k \in {"insecure", "skip-cert-verify"} : \A d : Val(m, k, d) = d
  BY <1>2, <1>3, <1>4, <1>5, <1>6, <1>7, <1>8
<1>12. \A d : Val(m, "net", d) = network
  BY <1>2, <1>3, <1>4, <1>5, <1>6, <1>7, <1>8
<1>13. /\ Val(m, "host", NoText) = EntryHost(c, network)
       /\ network # "grpc" => Val(m, "path", NoText) = EntryPath(c, network)
  BY <1>2, <1>3, <1>4, <1>5, <1>6, <1>7, <1>8
<1> QED
  BY <1>1, <1>9, <1>10, <1>11, <1>12, <1>13 DEF m, network, tls

\* The link of a Clash hysteria2 or tuic entry, option by option.
LEMMA ClashQuicReads ==
    ASSUME NEW c, NEW l, l = ClashHysteria2ToUri(c) \/ l = ClashTuicToUri(c)
    PROVE  LET m == l.opts
           IN  /\ l.scheme \in QuicTypes
               /\ \A d : Val(m, "sni", d) = Val(c, "sni", d)
               /\ l = ClashTuicToUri(c) => \A d : Val(m, "alpn", d) = Val(c, "alpn", d)
               /\ \A d : Val(m, "insecure", d) = IF Flag(c, SkipKey) THEN "1" ELSE d
               /\ \A k \in {"security", "tls", "pbk", "public_key", "reality_pbk", "allowInsecure",
                            "skip-cert-verify", "serverName", "peer"} : \A d : Val(m, k, d) = d
<1> DEFINE m == l.opts
           names == Renamed(c, [sni |-> <<"sni">>, pinsha256 |-> <<"pinSHA256">>,
                                up |-> <<"up">>, down |-> <<"down">>])
           skip == SkipVerify(c, "insecure")
           obfs == Renamed(c, [obfs |-> <<"obfs.type">>])
           password == When("obfs.type" \in DOMAIN c,
                            Renamed(c, Option("obfs-password", <<"obfs.password">>)))
           texts == Renamed(c, [sni |-> <<"sni">>, alpn |-> <<"alpn">>,
                                congestion_control |-> <<"congestion-control">>,
                                udp_relay_mode |-> <<"udp-relay-mode">>])
<1>1. /\ l = ClashHysteria2ToUri(c) => l.scheme = "hysteria2" /\ m = names ++ skip ++ obfs ++ password
      /\ l = ClashTuicToUri(c) => l.scheme = "tuic" /\ m = texts ++ skip
  <2>1. ClashHysteria2ToUri(c) = Link("hysteria2", names ++ skip ++ obfs ++ password)
    BY DEF ClashHysteria2ToUri
  <2>2. ClashTuicToUri(c) = Link("tuic", texts ++ skip)
    BY DEF ClashTuicToUri
  <2> HIDE DEF names, skip, obfs, password, texts
  <2> QED
    BY <2>1, <2>2 DEF Link
<1>3. ASSUME NEW k, NEW d
      PROVE  Val(names, k, d) = IF k = "sni" THEN Val(c, "sni", d)
                                ELSE IF k = "pinsha256" THEN Val(c, "pinSHA256", d)
                                ELSE IF k = "up" THEN Val(c, "up", d)
                                ELSE IF k = "down" THEN Val(c, "down", d) ELSE d
  BY ValRenamed, AltOne DEF In
<1>4. ASSUME NEW k, NEW d
      PROVE  Val(texts, k, d) = IF k = "sni" THEN Val(c, "sni", d)
                                ELSE IF k = "alpn" THEN Val(c, "alpn", d)
                                ELSE IF k = "congestion_control" THEN Val(c, "congestion-control", d)
                                ELSE IF k = "udp_relay_mode" THEN Val(c, "udp-relay-mode", d) ELSE d
  BY ValRenamed, AltOne DEF In
<1>5. \A k, d : Val(skip, k, d) = IF k = "insecure" /\ Flag(c, SkipKey) THEN "1" ELSE d
  BY SkipVerifyReads DEF SkipKey
<1>6. \A k, d : k # "obfs" => Val(obfs, k, d) = d
  BY ValRenamed DEF In
<1>7. \A k, d : k # "obfs-password" => Val(password, k, d) = d
  <2>1. \A k, d : k # "obfs-password" => Val(Renamed(c, Option("obfs-password", <<"obfs.password">>)), k, d) = d
    BY ValRenamed DEF In, Option
  <2> QED
    BY <2>1, ValNone DEF When
<1> HIDE DEF names, skip, obfs, password, texts, m
<1>9. CASE l = ClashHysteria2ToUri(c) /\ l # ClashTuicToUri(c)
  <2>1. \A k, d : Val(m, k, d) = Val(names, k, Val(skip, k, Val(obfs, k, Val(password, k, d))))
    BY <1>1, <1>9, ValJoin
  <2>2. l.scheme \in QuicTypes
    BY <1>1, <1>9, InJoin DEF QuicTypes
  <2>3. \A d : Val(m, "sni", d) = Val(c, "sni", d)
    BY <1>3, <1>5, <1>6, <1>7, <2>1
  <2>4. \A d : Val(m, "insecure", d) = IF Flag(c, SkipKey) THEN "1" ELSE d
    BY <1>3, <1>5, <1>6, <1>7, <2>1
  <2>5. \A k \in {"security", "tls", "pbk", "public_key", "reality_pbk", "allowInsecure",
                  "skip-cert-verify", "serverName", "peer"} : \A d : Val(m, k, d) = d
    BY <1>3, <1>5, <1>6, <1>7, <2>1
  <2> QED
    BY <1>9, <2>2, <2>3, <2>4, <2>5 DEF m
<1>10. CASE l = ClashTuicToUri(c)
  <2>1. \A k, d : Val(m, k, d) = Val(texts, k, Val(skip, k, d))
    BY <1>1, <1>10, ValJoin
  <2>2. l.scheme \in QuicTypes
    BY <1>1, <1>10, InJoin DEF QuicTypes
  <2>3. \A d : Val(m, "sni", d) = Val(c, "sni", d) /\ Val(m, "alpn", d) = Val(c, "alpn", d)
    BY <1>4, <1>5, <2>1
  <2>4. \A d : Val(m, "insecure", d) = IF Flag(c, SkipKey) THEN "1" ELSE d
    BY <1>4, <1>5, <2>1
  <2>5. \A k \in {"security", "tls", "pbk", "public_key", "reality_pbk", "allowInsecure",
                  "skip-cert-verify", "serverName", "peer"} : \A d : Val(m, k, d) = d
    BY <1>4, <1>5, <2>1
  <2> QED
    BY <2>2, <2>3, <2>4, <2>5 DEF m
<1> QED
  BY <1>9, <1>10

\* Each exception of a Clash entry, with the inputs that meet it.
LEMMA EntryGapsAre ==
    ASSUME NEW e
    PROVE  LET o == e.opts
               gaps == EntryGaps(e)
           IN  /\ Val(o, "network", "tcp") \notin Transports => TransportFields \subseteq gaps
               /\ e.type = "vmess" => "service" \in gaps
               /\ e.type = "vmess" /\ ~In(o, "servername") => "sni" \in gaps
               /\ e.type = "vmess" /\ In(o, "reality-opts.public-key") => TlsFields \subseteq gaps
               /\ e.type = "trojan" => "alpn" \in gaps
               /\ e.type = "trojan" /\ (Val(o, "tls", "true") = "false" \/ In(o, "reality-opts.public-key"))
                    => TlsFields \subseteq gaps
               /\ e.type \in {"hysteria2", "hy2"} => "alpn" \in gaps
  BY DEF EntryGaps, Where, In, Val

\* Each exception of an Xray outbound, with the inputs that meet it.
LEMMA XrayGapsAre ==
    ASSUME NEW x
    PROVE  LET o == x.opts
               security == Val(o, "security", NoText)
               network == Val(o, "network", "tcp")
               gaps == XrayGaps(x)
           IN  /\ "insecure" \in gaps
               /\ network \notin Transports => TransportFields \subseteq gaps
               /\ security \notin {NoText, "none", "tls", "reality"} => TlsFields \subseteq gaps
               /\ security = "reality" /\ ~In(o, "realitySettings.publicKey") => TlsFields \subseteq gaps
               /\ x.type \in {"shadowsocks", "ss"} /\ network # "tcp" => TransportFields \subseteq gaps
               /\ x.type \in {"shadowsocks", "ss"} /\ security # NoText => TlsFields \subseteq gaps
               /\ network = "httpupgrade" => {"host", "path"} \subseteq gaps
               /\ x.type = "vmess" => {"service", "sni"} \subseteq gaps
               /\ x.type \in {"vmess", "trojan"} /\ ~In(o, HeadersHost) => "host" \in gaps
               /\ x.type = "vmess" /\ security = "reality" => TlsFields \subseteq gaps
               /\ x.type = "trojan" => "alpn" \in gaps
               /\ x.type = "trojan" /\ network \in HttpNames => {"host", "path"} \subseteq gaps
               /\ x.type = "trojan" /\ security \in {"none", "reality"} => TlsFields \subseteq gaps
  BY DEF XrayGaps, Where, In, Val

-----------------------------------------------------------------------------
(* A layered form, field by field.                                           *)

LEMMA AbsentIs == ASSUME NEW m, NEW k, \A d : Val(m, k, d) = d PROVE ~In(m, k)
  BY PresentOne

\* The wire of an entry, by its type.
LEMMA EntryIs ==
    ASSUME NEW e, e.type \in LayeredTypes
    PROVE  LET B == EntryWire(e)
               c == e.opts
               network == Val(c, "network", "tcp")
           IN  /\ B.mode = EntryMode(e)
               /\ B.insecure = (EntryMode(e) # "false" /\ Flag(c, SkipKey))
               /\ B.sni = IF EntryMode(e) = "false" THEN "server" ELSE Val(c, "servername", "server")
               /\ B.alpn = IF EntryMode(e) = "false" THEN "none" ELSE Val(c, "alpn", "none")
               /\ B.network = NetworkName(network)
               /\ B.host = EntryHost(c, network)
               /\ B.path = EntryPath(c, network)
               /\ B.service = EntryService(c, network)
<1> DEFINE c == e.opts
           B == EntryWire(e)
<1>1. ~(e.type \in QuicTypes) /\ EntryNetwork(e) = Val(c, "network", "tcp")
  BY DEF QuicTypes, LayeredTypes, EntryNetwork, Val
<1>2. Flag(c, SkipKey) <=> Truthy(Val(c, "skip-cert-verify", NoText))
  BY FlagReads DEF SkipKey, Val
<1>3. (EntryMode(e) # "false" /\ Flag(c, SkipKey))
        = (EntryMode(e) # "false" /\ Truthy(Val(c, "skip-cert-verify", NoText)))
  BY <1>2
<1>4. B.insecure = (EntryMode(e) # "false" /\ Truthy(Val(c, "skip-cert-verify", NoText)))
  BY EntryFields
<1> QED
  BY <1>1, <1>3, <1>4, EntryFields DEF EntryHost, EntryPath, EntryService

LEMMA LayeredWire ==
    ASSUME NEW m, NEW default \in BOOLEAN, NEW t \in TlsConfig(m, default),
           NEW n \in TransportConfig(m), NEW o, Carries(o.opts, t ++ n)
    PROVE  LET A == OutboundWire(o)
               mode == ProbeMode(m, default)
               type == Type(m)
           IN  /\ A.mode = mode
               /\ A.insecure = (mode # "false" /\ Flag(m, InsecureKeys))
               /\ A.sni = IF mode = "false" THEN "server" ELSE ParamOr(m, SniKeys, "server")
               /\ A.alpn = IF mode = "false" THEN "none" ELSE Val(m, "alpn", "none")
               /\ A.network = Used(type)
               /\ A.host = IF type \in Hosted THEN Val(m, "host", NoText) ELSE NoText
               /\ A.path = IF type \in Hosted THEN Val(m, "path", NoText) ELSE NoText
               /\ A.service = IF type = "grpc"
                              THEN ParamOr(m, <<"serviceName", "service_name">>, NoText) ELSE NoText
<1> DEFINE p == o.opts
           mode == ProbeMode(m, default)
<1>1. /\ Mode(p) = mode
      /\ On(m, default) =>
           /\ Truthy(Val(p, "insecure", NoText)) <=> Flag(m, InsecureKeys)
           /\ Val(p, "server_name", "server") = ParamOr(m, SniKeys, "server")
           /\ Val(p, "alpn", "none") = Val(m, "alpn", "none")
      /\ Val(p, "transport", "tcp") = Used(Type(m))
      /\ Val(p, "host", NoText) = IF Type(m) \in Hosted THEN Val(m, "host", NoText) ELSE NoText
      /\ Val(p, "path", NoText) = IF Type(m) \in Hosted THEN Val(m, "path", NoText) ELSE NoText
      /\ Val(p, "service", NoText) = IF Type(m) = "grpc"
                                 THEN ParamOr(m, <<"serviceName", "service_name">>, NoText) ELSE NoText
  BY LayeredReads
<1>2. mode # "false" => On(m, default)
  BY DEF ProbeMode
<1> HIDE DEF mode
<1>3. (mode # "false" /\ Truthy(Val(p, "insecure", NoText))) = (mode # "false" /\ Flag(m, InsecureKeys))
  BY <1>1, <1>2
<1>4. OutboundWire(o).insecure = (mode # "false" /\ Truthy(Val(p, "insecure", NoText)))
  BY <1>1, OutboundFields
<1> QED
  BY <1>1, <1>2, <1>3, <1>4, OutboundFields DEF mode

\* A wire that has the fields of an entry but for its gaps differs in no other.
LEMMA LayeredEntryKept ==
    ASSUME NEW e, e.type \in LayeredTypes, NEW m, NEW default \in BOOLEAN,
           NEW t \in TlsConfig(m, default), NEW n \in TransportConfig(m),
           NEW o, Carries(o.opts, t ++ n),
           ProbeMode(m, default) = EntryMode(e) \/ TlsFields \subseteq EntryGaps(e),
           Flag(m, InsecureKeys) <=> Flag(e.opts, SkipKey),
           ParamOr(m, SniKeys, "server") = Val(e.opts, "servername", "server"),
           Val(m, "alpn", "none") = Val(e.opts, "alpn", "none") \/ "alpn" \in EntryGaps(e),
           NetworkOf(m) = Val(e.opts, "network", "tcp"),
           Val(m, "host", NoText) = EntryHost(e.opts, NetworkOf(m)),
           Val(m, "path", NoText) = EntryPath(e.opts, NetworkOf(m)),
           ParamOr(m, <<"serviceName", "service_name">>, NoText) = EntryService(e.opts, NetworkOf(m))
    PROVE  Differences(OutboundWire(o), EntryWire(e)) \subseteq EntryGaps(e)
<1> DEFINE c == e.opts
           network == NetworkOf(m)
           type == Type(m)
           mode == ProbeMode(m, default)
           gaps == EntryGaps(e)
           A == OutboundWire(o)
           B == EntryWire(e)
<1>1. /\ A.mode = mode
      /\ A.insecure = (mode # "false" /\ Flag(m, InsecureKeys))
      /\ A.sni = IF mode = "false" THEN "server" ELSE ParamOr(m, SniKeys, "server")
      /\ A.alpn = IF mode = "false" THEN "none" ELSE Val(m, "alpn", "none")
      /\ A.network = Used(type)
      /\ A.host = IF type \in Hosted THEN Val(m, "host", NoText) ELSE NoText
      /\ A.path = IF type \in Hosted THEN Val(m, "path", NoText) ELSE NoText
      /\ A.service = IF type = "grpc"
                     THEN ParamOr(m, <<"serviceName", "service_name">>, NoText) ELSE NoText
  BY LayeredWire
<1>2. /\ B.mode = EntryMode(e)
      /\ B.insecure = (EntryMode(e) # "false" /\ Flag(c, SkipKey))
      /\ B.sni = IF EntryMode(e) = "false" THEN "server" ELSE Val(c, "servername", "server")
      /\ B.alpn = IF EntryMode(e) = "false" THEN "none" ELSE Val(c, "alpn", "none")
      /\ B.network = NetworkName(network)
      /\ B.host = EntryHost(c, network)
      /\ B.path = EntryPath(c, network)
      /\ B.service = EntryService(c, network)
  BY EntryIs
<1>3. type = LowerCase(network)
  BY DEF Type, NetworkOf
<1>4. ~(TlsFields \subseteq gaps) =>
        A.mode = B.mode /\ A.insecure = B.insecure /\ A.sni = B.sni /\ (A.alpn = B.alpn \/ "alpn" \in gaps)
  <2> SUFFICES ASSUME ~(TlsFields \subseteq gaps)
               PROVE  A.mode = B.mode /\ A.insecure = B.insecure /\ A.sni = B.sni
                      /\ (A.alpn = B.alpn \/ "alpn" \in gaps)
    OBVIOUS
  <2>1. mode = EntryMode(e)
    OBVIOUS
  <2>2. (mode # "false" /\ Flag(m, InsecureKeys)) = (mode # "false" /\ Flag(c, SkipKey))
    OBVIOUS
  <2> HIDE DEF A, B, gaps, mode
  <2>3. A.mode = B.mode
    BY <1>1, <1>2, <2>1
  <2>4. A.insecure = B.insecure
    BY <1>1, <1>2, <2>1, <2>2
  <2>5. A.sni = B.sni
    BY <1>1, <1>2, <2>1
  <2>6. A.alpn = B.alpn \/ "alpn" \in gaps
    BY <1>1, <1>2, <2>1 DEF gaps
  <2> QED
    BY <2>3, <2>4, <2>5, <2>6
<1>5. network \in Transports =>
        A.network = B.network /\ A.host = B.host /\ A.path = B.path /\ A.service = B.service
  <2> SUFFICES ASSUME network \in Transports
               PROVE  A.network = B.network /\ A.host = B.host /\ A.path = B.path /\ A.service = B.service
    OBVIOUS
  <2>1. type = network /\ Used(network) = NetworkName(network)
    BY <1>3, Words DEF Used, NetworkName, Transports, HttpNames
  <2>2. network \notin Hosted => EntryHost(c, network) = NoText /\ EntryPath(c, network) = NoText
    BY InUseIs DEF EntryHost, EntryPath, Hosted, HttpNames
  <2>3. network # "grpc" => EntryService(c, network) = NoText
    BY DEF EntryService, GrpcService
  <2> HIDE DEF A, B, gaps, type, network
  <2>4. A.network = B.network
    BY <1>1, <1>2, <2>1
  <2>5. A.host = B.host
    BY <1>1, <1>2, <2>1, <2>2 DEF network
  <2>6. A.path = B.path
    BY <1>1, <1>2, <2>1, <2>2 DEF network
  <2>7. A.service = B.service
    BY <1>1, <1>2, <2>1, <2>3 DEF network
  <2> QED
    BY <2>4, <2>5, <2>6, <2>7
<1>6. network \notin Transports => TransportFields \subseteq gaps
  BY EntryGapsAre
<1> HIDE DEF A, B, gaps, network
<1> QED
  BY <1>4, <1>5, <1>6, ByField DEF TlsFields, TransportFields, A, B, gaps

-----------------------------------------------------------------------------
(* What a Clash entry says reaches sing-box.                                 *)

LEMMA TruthyOne == Truthy("1")
  BY LowerWords DEF Truthy

\* The certificate flag of an entry, as the link has it.
LEMMA SkipKept ==
    ASSUME NEW m, NEW c,
           \/ /\ \A d : Val(m, "allowInsecure", d) = IF Flag(c, SkipKey) THEN "1" ELSE d
              /\ \A k \in {"insecure", "skip-cert-verify"} : \A d : Val(m, k, d) = d
           \/ /\ \A d : Val(m, "insecure", d) = IF Flag(c, SkipKey) THEN "1" ELSE d
              /\ \A k \in {"allowInsecure", "skip-cert-verify"} : \A d : Val(m, k, d) = d
    PROVE  Flag(m, InsecureKeys) <=> Flag(c, SkipKey)
<1>1. ParamOr(m, InsecureKeys, NoText)
        = Val(m, "allowInsecure", Val(m, "insecure", Val(m, "skip-cert-verify", NoText)))
  BY AltThree DEF InsecureKeys
<1>2. ParamOr(m, InsecureKeys, NoText) = IF Flag(c, SkipKey) THEN "1" ELSE NoText
  BY <1>1
<1>3. CASE Flag(c, SkipKey)
  BY <1>2, <1>3, FlagReads, TruthyOne
<1>4. CASE ~Flag(c, SkipKey)
  BY <1>2, <1>4, FlagReads, TruthyIs
<1> QED
  BY <1>3, <1>4

LEMMA SniKept ==
    ASSUME NEW m, \A k \in {"serverName", "peer"} : \A d : Val(m, k, d) = d, NEW d
    PROVE  ParamOr(m, SniKeys, d) = Val(m, "sni", d)
  BY AltThree DEF SniKeys

\* A Clash vless entry reaches sing-box but for the gaps.
LEMMA ClashVlessKept ==
    ASSUME NEW e, e.type = "vless", Val(e.opts, "tls", "false") \in {"true", "false"},
           NEW l, l = ClashVlessToUri(e.opts), NEW o \in OutboundOptions(l)
    PROVE  Differences(OutboundWire(o), EntryWire(e)) \subseteq EntryGaps(e)
<1> DEFINE c == e.opts
           m == l.opts
           network == Val(c, "network", "tcp")
           key == In(c, "reality-opts.public-key")
           tls == Val(c, "tls", "false") = "true"
<1>1. /\ l.scheme = "vless"
      /\ \A d : Val(m, "security", d) = IF key THEN "reality" ELSE IF tls THEN "tls" ELSE d
      /\ \A d : Val(m, "tls", d) = d
      /\ \A d : Val(m, "sni", d) = Val(c, "servername", d)
      /\ \A d : Val(m, "alpn", d) = Val(c, "alpn", d)
      /\ \A d : Val(m, "pbk", d) = Val(c, "reality-opts.public-key", d)
      /\ \A d : Val(m, "allowInsecure", d) = IF Flag(c, SkipKey) THEN "1" ELSE d
      /\ \A k \in {"public_key", "reality_pbk", "short_id", "insecure", "skip-cert-verify",
                   "serverName", "peer", "net", "network", "service_name"} : \A d : Val(m, k, d) = d
      /\ Val(m, "type", "tcp") = network
      /\ Val(m, "host", NoText) = EntryHost(c, network)
      /\ Val(m, "path", NoText) = EntryPath(c, network)
      /\ Val(m, "serviceName", NoText) = EntryService(c, network)
  BY ClashVlessReads
<1> HIDE DEF c, m, network, key, tls
<1>2. PICK default \in BOOLEAN : default = FALSE
  OBVIOUS
<1>3. PICK t \in TlsConfig(m, default), n \in TransportConfig(m) : Carries(o.opts, t ++ n)
  <2> DEFINE ts == TlsConfig(m, default)
  <2>1. o \in Layered(m, ts)
    <3>1. OutboundOptions(l) = StandardOutbound("vless", m)
      BY <1>1, OutboundOptionsIs DEF m
    <3> QED
      BY <1>2, <3>1, StandardOutboundIs
  <2> HIDE DEF ts
  <2>2. \E t \in ts, n \in TransportConfig(m) : Carries(o.opts, t ++ n)
    BY <2>1, LayeredOutboundReads
  <2> QED
    BY <2>2 DEF ts
<1>4. Sec(m) = IF key THEN "reality" ELSE IF tls THEN "tls" ELSE NoText
  <2>1. ParamOr(m, <<"security", "tls">>, NoText)
          = IF key THEN "reality" ELSE IF tls THEN "tls" ELSE NoText
    BY <1>1, AltTwo
  <2> QED
    BY <2>1, Words DEF Sec
<1>5. Has(m, RealityKeys) <=> key
  <2>1. In(m, "pbk") <=> key
    BY <1>1, PresentOne DEF key
  <2>2. ~In(m, "public_key") /\ ~In(m, "reality_pbk")
    BY <1>1, AbsentIs
  <2> QED
    BY <2>1, <2>2, HasThree DEF RealityKeys
<1>6. ProbeMode(m, default) = EntryMode(e)
  <2>1. EntryMode(e) = IF key THEN "reality" ELSE Val(c, "tls", "false")
    BY EntryModeIs DEF QuicTypes, LayeredTypes, key, c
  <2>2. CASE key
    <3>1. On(m, default) /\ Real(m)
      BY <1>4, <2>2 DEF On, Real
    <3> QED
      BY <2>1, <2>2, <3>1, <1>5 DEF ProbeMode
  <2>3. CASE ~key /\ tls
    <3>1. On(m, default)
      BY <1>4, <2>3 DEF On
    <3>2. ProbeMode(m, default) = "true"
      BY <2>3, <3>1, <1>5 DEF ProbeMode
    <3> QED
      BY <2>1, <2>3, <3>2 DEF tls
  <2>4. CASE ~key /\ ~tls
    <3>1. ~On(m, default)
      BY <1>2, <1>4, <1>5, <2>4, NoTextIs DEF On
    <3>2. ProbeMode(m, default) = "false"
      BY <3>1 DEF ProbeMode
    <3> QED
      BY <2>1, <2>4, <3>2 DEF tls, c
  <2> QED
    BY <2>2, <2>3, <2>4
<1>7. Flag(m, InsecureKeys) <=> Flag(c, SkipKey)
  BY <1>1, SkipKept
<1>8. ParamOr(m, SniKeys, "server") = Val(c, "servername", "server")
  BY <1>1, SniKept
<1>9. NetworkOf(m) = network
  BY <1>1, AltThree DEF NetworkOf
<1>10. ParamOr(m, <<"serviceName", "service_name">>, NoText) = EntryService(c, network)
  BY <1>1, AltTwo
<1> QED
  BY <1>1, <1>3, <1>6, <1>7, <1>8, <1>9, <1>10, LayeredEntryKept DEF LayeredTypes, c, network

\* A Clash trojan entry reaches sing-box but for the gaps.
LEMMA ClashTrojanKept ==
    ASSUME NEW e, e.type = "trojan", Val(e.opts, "tls", "true") \in {"true", "false"},
           NEW l, l = ClashTrojanToUri(e.opts), NEW o \in OutboundOptions(l)
    PROVE  Differences(OutboundWire(o), EntryWire(e)) \subseteq EntryGaps(e)
<1> DEFINE c == e.opts
           m == l.opts
           network == Val(c, "network", "tcp")
           tls == Val(c, "tls", "true") = "true"
<1>1. /\ l.scheme = "trojan"
      /\ \A d : Val(m, "security", d) = IF tls THEN "tls" ELSE d
      /\ \A d : Val(m, "sni", d) = Val(c, "servername", d)
      /\ \A d : Val(m, "allowInsecure", d) = IF Flag(c, SkipKey) THEN "1" ELSE d
      /\ \A k \in {"tls", "pbk", "public_key", "reality_pbk", "sid", "short_id", "insecure",
                   "skip-cert-verify", "serverName", "peer", "net", "network",
                   "service_name"} : \A d : Val(m, k, d) = d
      /\ Val(m, "type", "tcp") = network
      /\ Val(m, "host", NoText) = EntryHost(c, network)
      /\ Val(m, "path", NoText) = EntryPath(c, network)
      /\ Val(m, "serviceName", NoText) = EntryService(c, network)
  BY ClashTrojanReads
<1> HIDE DEF c, m, network, tls
<1>2. PICK default \in BOOLEAN : default = TRUE
  OBVIOUS
<1>3. PICK t \in TlsConfig(m, default), n \in TransportConfig(m) : Carries(o.opts, t ++ n)
  <2> DEFINE ts == TlsConfig(m, default)
  <2>1. o \in Trojans(m, ts)
    <3>1. OutboundOptions(l) = StandardOutbound("trojan", m)
      BY <1>1, OutboundOptionsIs DEF m
    <3> QED
      BY <1>2, <3>1, StandardOutboundIs
  <2> HIDE DEF ts
  <2>2. \E t \in ts, n \in TransportConfig(m) : Carries(o.opts, t ++ n)
    BY <2>1, LayeredOutboundReads
  <2> QED
    BY <2>2 DEF ts
<1>4. Sec(m) = IF tls THEN "tls" ELSE NoText
  <2>1. ParamOr(m, <<"security", "tls">>, NoText) = IF tls THEN "tls" ELSE NoText
    BY <1>1, AltTwo
  <2> QED
    BY <2>1, Words DEF Sec
<1>5. ~Has(m, RealityKeys)
  <2>1. ~In(m, "pbk") /\ ~In(m, "public_key") /\ ~In(m, "reality_pbk")
    BY <1>1, AbsentIs
  <2> QED
    BY <2>1, HasThree DEF RealityKeys
<1>6. ProbeMode(m, default) = "true"
  <2>1. On(m, default)
    BY <1>2, <1>4, NoTextIs DEF On
  <2> QED
    BY <2>1, <1>5 DEF ProbeMode
<1>7. EntryMode(e) = IF In(c, "reality-opts.public-key") THEN "reality" ELSE Val(c, "tls", "true")
  BY EntryModeIs DEF QuicTypes, LayeredTypes, c
<1>8. ProbeMode(m, default) = EntryMode(e) \/ TlsFields \subseteq EntryGaps(e)
  <2>1. CASE In(c, "reality-opts.public-key") \/ Val(c, "tls", "true") = "false"
    BY <2>1, EntryGapsAre DEF c
  <2>2. CASE ~In(c, "reality-opts.public-key") /\ Val(c, "tls", "true") = "true"
    BY <2>2, <1>6, <1>7
  <2> QED
    BY <2>1, <2>2 DEF c
<1>9. Flag(m, InsecureKeys) <=> Flag(c, SkipKey)
  BY <1>1, SkipKept
<1>10. ParamOr(m, SniKeys, "server") = Val(c, "servername", "server")
  BY <1>1, SniKept
<1>11. NetworkOf(m) = network
  BY <1>1, AltThree DEF NetworkOf
<1>12. ParamOr(m, <<"serviceName", "service_name">>, NoText) = EntryService(c, network)
  BY <1>1, AltTwo
<1>13. "alpn" \in EntryGaps(e)
  BY EntryGapsAre
<1> QED
  BY <1>1, <1>3, <1>8, <1>9, <1>10, <1>11, <1>12, <1>13, LayeredEntryKept DEF LayeredTypes, c, network

LEMMA VmessWire ==
    ASSUME NEW m, NEW o \in VmessOutbound(m)
    PROVE  LET A == OutboundWire(o)
               type == VmessType(m)
               mode == IF VmessOn(m) THEN "true" ELSE "false"
           IN  /\ A.mode = mode
               /\ A.insecure = (mode # "false" /\ Flag(m, InsecureKeys))
               /\ A.sni = IF mode = "false" THEN "server" ELSE Val(m, "sni", Val(m, "host", "server"))
               /\ A.alpn = IF mode = "false" THEN "none" ELSE Val(m, "alpn", "none")
               /\ type \in Transports \cup {"websocket"}
               /\ A.network = Used(type)
               /\ A.host = IF type \in Hosted THEN Val(m, "host", NoText) ELSE NoText
               /\ A.path = IF type \in Hosted THEN Val(m, "path", NoText) ELSE NoText
               /\ A.service = NoText
<1> DEFINE p == o.opts
           type == VmessType(m)
           mode == IF VmessOn(m) THEN "true" ELSE "false"
<1>1. /\ Mode(p) = mode
      /\ VmessOn(m) =>
           /\ Truthy(Val(p, "insecure", NoText)) <=> Flag(m, InsecureKeys)
           /\ Val(p, "server_name", "server") = Val(m, "sni", Val(m, "host", "server"))
           /\ Val(p, "alpn", "none") = Val(m, "alpn", "none")
      /\ type \in Transports \cup {"websocket"}
      /\ Val(p, "transport", "tcp") = Used(type)
      /\ Val(p, "host", NoText) = IF type \in Hosted THEN Val(m, "host", NoText) ELSE NoText
      /\ Val(p, "path", NoText) = IF type \in Hosted THEN Val(m, "path", NoText) ELSE NoText
      /\ Val(p, "service", NoText) = NoText
  BY VmessReads
<1>2. mode # "false" => VmessOn(m)
  OBVIOUS
<1> HIDE DEF mode
<1>3. (mode # "false" /\ Truthy(Val(p, "insecure", NoText))) = (mode # "false" /\ Flag(m, InsecureKeys))
  BY <1>1, <1>2
<1>4. OutboundWire(o).insecure = (mode # "false" /\ Truthy(Val(p, "insecure", NoText)))
  BY <1>1, OutboundFields
<1> QED
  BY <1>1, <1>2, <1>3, <1>4, OutboundFields DEF mode

\* A Clash vmess entry reaches sing-box but for the gaps.
LEMMA ClashVmessKept ==
    ASSUME NEW e, e.type = "vmess", Val(e.opts, "tls", "false") \in {"true", "false"},
           NEW l, l = ClashVmessToUri(e.opts), NEW o \in OutboundOptions(l)
    PROVE  Differences(OutboundWire(o), EntryWire(e)) \subseteq EntryGaps(e)
<1> DEFINE c == e.opts
           m == l.opts
           network == Val(c, "network", "tcp")
           type == VmessType(m)
           tls == Val(c, "tls", "false") = "true"
           mode == IF VmessOn(m) THEN "true" ELSE "false"
           gaps == EntryGaps(e)
           A == OutboundWire(o)
           B == EntryWire(e)
<1>1. /\ l.scheme = "vmess"
      /\ \A d : Val(m, "tls", d) = IF tls THEN "tls" ELSE d
      /\ tls => /\ \A d : Val(m, "sni", d) = Val(c, "servername", d)
                /\ \A d : Val(m, "alpn", d) = Val(c, "alpn", d)
                /\ \A d : Val(m, "allowInsecure", d) = IF Flag(c, SkipKey) THEN "1" ELSE d
      /\ \A k \in {"insecure", "skip-cert-verify"} : \A d : Val(m, k, d) = d
      /\ \A d : Val(m, "net", d) = network
      /\ Val(m, "host", NoText) = EntryHost(c, network)
      /\ network # "grpc" => Val(m, "path", NoText) = EntryPath(c, network)
  BY ClashVmessReads
<1>2. o \in VmessOutbound(m)
  BY <1>1, OutboundOptionsIs
<1>3. /\ A.mode = mode
      /\ A.insecure = (mode # "false" /\ Flag(m, InsecureKeys))
      /\ A.sni = IF mode = "false" THEN "server" ELSE Val(m, "sni", Val(m, "host", "server"))
      /\ A.alpn = IF mode = "false" THEN "none" ELSE Val(m, "alpn", "none")
      /\ type \in Transports \cup {"websocket"}
      /\ A.network = Used(type)
      /\ A.host = IF type \in Hosted THEN Val(m, "host", NoText) ELSE NoText
      /\ A.path = IF type \in Hosted THEN Val(m, "path", NoText) ELSE NoText
      /\ A.service = NoText
  BY <1>2, VmessWire
<1>4. e.type \in LayeredTypes
  BY DEF LayeredTypes
<1>5. /\ B.mode = EntryMode(e)
      /\ B.insecure = (EntryMode(e) # "false" /\ Flag(c, SkipKey))
      /\ B.sni = IF EntryMode(e) = "false" THEN "server" ELSE Val(c, "servername", "server")
      /\ B.alpn = IF EntryMode(e) = "false" THEN "none" ELSE Val(c, "alpn", "none")
      /\ B.network = NetworkName(network)
      /\ B.host = EntryHost(c, network)
      /\ B.path = EntryPath(c, network)
      /\ B.service = EntryService(c, network)
  BY <1>4, EntryIs
<1>6. type = LowerCase(network) /\ (VmessOn(m) <=> tls)
  BY <1>1, Words DEF VmessType, VmessOn
<1>7. EntryMode(e) = IF In(c, "reality-opts.public-key") THEN "reality" ELSE Val(c, "tls", "false")
  BY EntryModeIs DEF QuicTypes, LayeredTypes
<1>8. TlsFields \subseteq gaps \/ EntryMode(e) = mode
  <2>1. In(c, "reality-opts.public-key") => TlsFields \subseteq gaps
    BY EntryGapsAre
  <2> QED
    BY <1>6, <1>7, <2>1
<1>9. tls => (Flag(m, InsecureKeys) <=> Flag(c, SkipKey))
  BY <1>1, SkipKept
<1>10. tls => Val(m, "sni", Val(m, "host", "server")) = Val(c, "servername", "server") \/ "sni" \in gaps
  <2>1. ~In(c, "servername") => "sni" \in gaps
    BY EntryGapsAre
  <2>2. In(c, "servername") => Val(c, "servername", Val(m, "host", "server")) = Val(c, "servername", "server")
    BY ValIs
  <2> QED
    BY <1>1, <2>1, <2>2
<1>11. ~(TlsFields \subseteq gaps) =>
         /\ A.mode = B.mode /\ A.insecure = B.insecure /\ A.alpn = B.alpn
         /\ A.sni = B.sni \/ "sni" \in gaps
  <2> SUFFICES ASSUME ~(TlsFields \subseteq gaps)
               PROVE  /\ A.mode = B.mode /\ A.insecure = B.insecure /\ A.alpn = B.alpn
                      /\ A.sni = B.sni \/ "sni" \in gaps
    OBVIOUS
  <2>1. EntryMode(e) = mode /\ (mode # "false" => tls)
    BY <1>6, <1>8
  <2> HIDE DEF A, B, gaps, mode, tls, m, c
  <2>2. (mode # "false" /\ Flag(m, InsecureKeys)) = (mode # "false" /\ Flag(c, SkipKey))
    BY <1>9, <2>1
  <2>3. A.insecure = B.insecure
    BY <1>3, <1>5, <2>1, <2>2
  <2>4. A.mode = B.mode
    BY <1>3, <1>5, <2>1
  <2>5. A.alpn = B.alpn
    BY <1>1, <1>3, <1>5, <2>1
  <2>6. A.sni = B.sni \/ "sni" \in gaps
    BY <1>3, <1>5, <1>10, <2>1
  <2> QED
    BY <2>3, <2>4, <2>5, <2>6
<1>12. network \in Transports =>
        A.network = B.network /\ A.host = B.host /\ A.path = B.path
  <2> SUFFICES ASSUME network \in Transports
               PROVE  A.network = B.network /\ A.host = B.host /\ A.path = B.path
    OBVIOUS
  <2>1. type = network /\ Used(network) = NetworkName(network)
    BY <1>6, Words DEF Used, NetworkName, Transports, HttpNames
  <2>2. network \notin Hosted => EntryHost(c, network) = NoText /\ EntryPath(c, network) = NoText
    BY InUseIs DEF EntryHost, EntryPath, Hosted, HttpNames
  <2>3. "grpc" \notin Hosted
    BY DEF Hosted
  <2> HIDE DEF A, B, gaps, type, network
  <2>4. A.network = B.network
    BY <1>3, <1>5, <2>1
  <2>5. A.host = B.host
    BY <1>1, <1>3, <1>5, <2>1, <2>2
  <2>6. A.path = B.path
    BY <1>1, <1>3, <1>5, <2>1, <2>2, <2>3
  <2> QED
    BY <2>4, <2>5, <2>6
<1>13. network \notin Transports => TransportFields \subseteq gaps
  BY EntryGapsAre
<1>14. "service" \in gaps
  BY EntryGapsAre
<1> HIDE DEF A, B, gaps, network
<1> QED
  BY <1>11, <1>12, <1>13, <1>14, ByField DEF TlsFields, TransportFields, A, B, gaps

LEMMA QuicEntryIs ==
    ASSUME NEW e, e.type \in QuicTypes
    PROVE  LET B == EntryWire(e)
           IN  /\ B.mode = "true"
               /\ B.insecure = Truthy(Val(e.opts, "skip-cert-verify", NoText))
               /\ B.sni = Val(e.opts, "sni", "server")
               /\ B.alpn = Val(e.opts, "alpn", "none")
               /\ B.network = "tcp" /\ B.host = NoText /\ B.path = NoText /\ B.service = NoText
<1> DEFINE B == EntryWire(e)
<1>1. ~(e.type \in LayeredTypes)
  BY DEF QuicTypes, LayeredTypes
<1>2. EntryNetwork(e) = "tcp" /\ EntryMode(e) = "true"
  BY <1>1, EntryModeIs DEF EntryNetwork
<1>3. /\ B.mode = EntryMode(e)
      /\ B.insecure = (EntryMode(e) # "false" /\ Truthy(Val(e.opts, "skip-cert-verify", NoText)))
      /\ B.sni = IF EntryMode(e) = "false" THEN "server"
                 ELSE Val(e.opts, IF e.type \in QuicTypes THEN "sni" ELSE "servername", "server")
      /\ B.alpn = IF EntryMode(e) = "false" THEN "none" ELSE Val(e.opts, "alpn", "none")
  BY EntryFields
<1>4. (EntryMode(e) # "false" /\ Truthy(Val(e.opts, "skip-cert-verify", NoText)))
        = Truthy(Val(e.opts, "skip-cert-verify", NoText))
  BY <1>2 DEF Truthy
<1>5. /\ B.network = NetworkName("tcp")
      /\ B.host = InUse(e.opts, "tcp", <<"ws-opts.headers.Host">>, <<"h2-opts.host">>, <<"httpupgrade-opts.host">>)
      /\ B.path = InUse(e.opts, "tcp", <<"ws-opts.path">>, <<"h2-opts.path">>, <<"httpupgrade-opts.path">>)
      /\ B.service = GrpcService(e.opts, "tcp", "grpc-opts.grpc-service-name")
  BY <1>2, EntryFields
<1>6. "tcp" # "ws" /\ "tcp" # "httpupgrade" /\ "tcp" # "grpc" /\ "tcp" \notin HttpNames
  BY DEF HttpNames
<1>7. B.network = "tcp" /\ B.host = NoText /\ B.path = NoText /\ B.service = NoText
  BY <1>5, <1>6, InUseIs DEF NetworkName, GrpcService
<1> QED
  BY <1>2, <1>3, <1>4, <1>7

\* A Clash hysteria2 or tuic entry reaches sing-box but for the gaps.
LEMMA ClashQuicKept ==
    ASSUME NEW e, e.type \in QuicTypes,
           NEW l, l = ClashHysteria2ToUri(e.opts) \/ l = ClashTuicToUri(e.opts),
           e.type = "tuic" => l = ClashTuicToUri(e.opts), NEW o \in OutboundOptions(l)
    PROVE  Differences(OutboundWire(o), EntryWire(e)) \subseteq EntryGaps(e)
<1> DEFINE c == e.opts
           m == l.opts
           gaps == EntryGaps(e)
           A == OutboundWire(o)
           B == EntryWire(e)
<1>1. /\ l.scheme \in QuicTypes
      /\ \A d : Val(m, "sni", d) = Val(c, "sni", d)
      /\ \A d : Val(m, "insecure", d) = IF Flag(c, SkipKey) THEN "1" ELSE d
      /\ \A k \in {"security", "tls", "pbk", "public_key", "reality_pbk", "allowInsecure",
                   "skip-cert-verify", "serverName", "peer"} : \A d : Val(m, k, d) = d
  <2>1. CASE l = ClashHysteria2ToUri(c)
    BY <2>1, ClashQuicReads
  <2>2. CASE l = ClashTuicToUri(c)
    BY <2>2, ClashQuicReads
  <2> QED
    BY <2>1, <2>2
<1>0. ASSUME e.type = "tuic" PROVE \A d : Val(m, "alpn", d) = Val(c, "alpn", d)
  <2>1. l = ClashTuicToUri(c)
    BY <1>0
  <2> QED
    BY <2>1, ClashQuicReads
<1> HIDE DEF c, m
<1>2. PICK default \in BOOLEAN : default = TRUE
  OBVIOUS
<1>3. PICK t \in TlsConfig(m, default) : Carries(o.opts, OrDefault(t))
  <2> DEFINE ts == TlsConfig(m, default)
  <2>1. OutboundOptions(l) \in {StandardOutbound("tuic", m), StandardOutbound("hysteria2", m)}
    BY <1>1, OutboundOptionsIs DEF QuicTypes, QuicNames, m
  <2>3. o \in Hysterias(m, ts) \cup Tuics(m, ts)
    BY <1>2, <2>1, StandardOutboundIs
  <2> HIDE DEF ts
  <2>4. \E t \in ts : Carries(o.opts, OrDefault(t))
    BY <2>3, QuicOutboundReads
  <2> QED
    BY <2>4 DEF ts
<1>4. Sec(m) = NoText
  <2>1. ParamOr(m, <<"security", "tls">>, NoText) = NoText
    BY <1>1, AltTwo
  <2> QED
    BY <2>1, Words DEF Sec
<1>5. ~Has(m, RealityKeys)
  <2>1. ~In(m, "pbk") /\ ~In(m, "public_key") /\ ~In(m, "reality_pbk")
    BY <1>1, AbsentIs
  <2> QED
    BY <2>1, HasThree DEF RealityKeys
<1>6. On(m, default) /\ ProbeMode(m, default) = "true"
  <2>1. On(m, default)
    BY <1>2, <1>4, NoTextIs DEF On
  <2> QED
    BY <2>1, <1>5 DEF ProbeMode
<1>7. /\ Mode(o.opts) = "true"
      /\ Truthy(Val(o.opts, "insecure", NoText)) <=> Flag(m, InsecureKeys)
      /\ Val(o.opts, "server_name", "server") = ParamOr(m, SniKeys, "server")
      /\ Val(o.opts, "alpn", "none") = Val(m, "alpn", "none")
      /\ \A k \in TransportKeys : \A d : Val(o.opts, k, d) = d
  BY <1>3, <1>6, QuicReads
<1>8. /\ A.mode = "true"
      /\ A.insecure = ("true" # "false" /\ Truthy(Val(o.opts, "insecure", NoText)))
      /\ A.sni = Val(o.opts, "server_name", "server")
      /\ A.alpn = Val(o.opts, "alpn", "none")
      /\ A.network = Val(o.opts, "transport", "tcp") /\ A.host = Val(o.opts, "host", NoText)
      /\ A.path = Val(o.opts, "path", NoText) /\ A.service = Val(o.opts, "service", NoText)
  BY <1>7, OutboundFields
<1>9. /\ B.mode = "true"
      /\ B.insecure = Truthy(Val(c, "skip-cert-verify", NoText))
      /\ B.sni = Val(c, "sni", "server")
      /\ B.alpn = Val(c, "alpn", "none")
      /\ B.network = "tcp" /\ B.host = NoText /\ B.path = NoText /\ B.service = NoText
  BY QuicEntryIs DEF c
<1>10. A.insecure = B.insecure
  <2>1. Flag(m, InsecureKeys) <=> Flag(c, SkipKey)
    BY <1>1, SkipKept
  <2>2. Flag(c, SkipKey) <=> Truthy(Val(c, "skip-cert-verify", NoText))
    BY FlagReads, AltOne DEF SkipKey
  <2>3. ("true" # "false" /\ Truthy(Val(o.opts, "insecure", NoText)))
          <=> Truthy(Val(c, "skip-cert-verify", NoText))
    BY <1>7, <2>1, <2>2
  <2>4. ("true" # "false" /\ Truthy(Val(o.opts, "insecure", NoText)))
          = Truthy(Val(c, "skip-cert-verify", NoText))
    BY <2>3 DEF Truthy
  <2> QED
    BY <1>8, <1>9, <2>4
<1>11. A.sni = B.sni
  <2>1. ParamOr(m, SniKeys, "server") = Val(c, "sni", "server")
    BY <1>1, SniKept
  <2> QED
    BY <1>7, <1>8, <1>9, <2>1
<1>12. A.alpn = B.alpn \/ "alpn" \in gaps
  <2>1. CASE e.type = "tuic"
    BY <1>0, <1>7, <1>8, <1>9, <2>1
  <2>2. CASE e.type # "tuic"
    BY <2>2, EntryGapsAre DEF QuicTypes
  <2> QED
    BY <2>1, <2>2
<1>13. A.network = B.network /\ A.host = B.host /\ A.path = B.path /\ A.service = B.service
  BY <1>7, <1>8, <1>9 DEF TransportKeys
<1> HIDE DEF A, B, gaps
<1> QED
  BY <1>8, <1>9, <1>10, <1>11, <1>12, <1>13, ByField DEF A, B, gaps

\* What the probe makes of a Shadowsocks link has no TLS and no transport.
LEMMA PlainKept ==
    ASSUME NEW l, l.scheme = "ss", NEW o \in OutboundOptions(l)
    PROVE  LET A == OutboundWire(o)
           IN  /\ A.mode = "false" /\ A.insecure = FALSE /\ A.sni = "server" /\ A.alpn = "none"
               /\ A.network = "tcp" /\ A.host = NoText /\ A.path = NoText /\ A.service = NoText
<1>1. o \in ShadowsocksOutbound(l.opts)
  BY OutboundOptionsIs
<1>2. Carries(o.opts, NoOpts)
  BY <1>1, ShadowsocksReads
<1> QED
  BY <1>2, PlainWire

\* The link of a Clash entry, by its type.
LEMMA ClashProxyIs ==
    ASSUME NEW e
    PROVE  /\ e.type = "vmess" => ClashLink(e) = {ClashVmessToUri(e.opts)}
           /\ e.type = "vless" => ClashLink(e) = {ClashVlessToUri(e.opts)}
           /\ e.type = "trojan" => ClashLink(e) = {ClashTrojanToUri(e.opts)}
           /\ e.type = "ss" => ClashLink(e) = ClashSsToUri(e.opts)
           /\ e.type = "ssr" => ClashLink(e) = {ClashSsrToUri(e.opts)}
           /\ e.type \in QuicNames => ClashLink(e) = {ClashHysteria2ToUri(e.opts)}
           /\ e.type = "tuic" => ClashLink(e) = {ClashTuicToUri(e.opts)}
           /\ e.type \notin TakenTypes("clash") \cup {"ssr"} => ClashLink(e) = {}
<1> DEFINE type == e.type
<1>0. ClashLink(e) =
        CASE type = "vmess" -> {ClashVmessToUri(e.opts)}
          [] type = "vless" -> {ClashVlessToUri(e.opts)}
          [] type = "trojan" -> {ClashTrojanToUri(e.opts)}
          [] type = "ss" -> ClashSsToUri(e.opts)
          [] type = "ssr" -> {ClashSsrToUri(e.opts)}
          [] type \in QuicNames -> {ClashHysteria2ToUri(e.opts)}
          [] type = "tuic" -> {ClashTuicToUri(e.opts)}
          [] OTHER -> {}
  BY DEF ClashLink, QuicNames
<1>1. type \notin TakenTypes("clash") \cup {"ssr"} =>
        /\ ~(type = "vmess") /\ ~(type = "vless") /\ ~(type = "trojan") /\ ~(type = "ss")
        /\ ~(type = "ssr") /\ ~(type \in QuicNames) /\ ~(type = "tuic")
  BY DEF TakenTypes, QuicTypes, QuicNames
<1>2. \A a, b \in {"vmess", "vless", "trojan", "ss", "ssr", "tuic"} :
        type = a /\ a # b => ~(type = b) /\ ~(type \in QuicNames)
  BY DEF QuicNames
<1>3. type \in QuicNames =>
        /\ ~(type = "vmess") /\ ~(type = "vless") /\ ~(type = "trojan") /\ ~(type = "ss")
        /\ ~(type = "ssr") /\ ~(type = "tuic")
  BY DEF QuicNames
<1> HIDE DEF type
<1>4. ASSUME type \notin TakenTypes("clash") \cup {"ssr"} PROVE ClashLink(e) = {}
  BY <1>0, <1>1, <1>4, Zenon
<1>5. ASSUME type \in QuicNames PROVE ClashLink(e) = {ClashHysteria2ToUri(e.opts)}
  BY <1>0, <1>3, <1>5, Zenon
<1>6. ASSUME type = "vmess" PROVE ClashLink(e) = {ClashVmessToUri(e.opts)}
  <2>1. ~(type = "vless") /\ ~(type = "trojan") /\ ~(type = "ss") /\ ~(type = "ssr") /\ ~(type = "tuic") /\ ~(type \in QuicNames)
    BY <1>2, <1>6
  <2> QED
    BY <1>0, <1>6, <2>1, Zenon
<1>7. ASSUME type = "vless" PROVE ClashLink(e) = {ClashVlessToUri(e.opts)}
  <2>1. ~(type = "vmess") /\ ~(type = "trojan") /\ ~(type = "ss") /\ ~(type = "ssr") /\ ~(type = "tuic") /\ ~(type \in QuicNames)
    BY <1>2, <1>7
  <2> QED
    BY <1>0, <1>7, <2>1, Zenon
<1>8. ASSUME type = "trojan" PROVE ClashLink(e) = {ClashTrojanToUri(e.opts)}
  <2>1. ~(type = "vmess") /\ ~(type = "vless") /\ ~(type = "ss") /\ ~(type = "ssr") /\ ~(type = "tuic") /\ ~(type \in QuicNames)
    BY <1>2, <1>8
  <2> QED
    BY <1>0, <1>8, <2>1, Zenon
<1>9. ASSUME type = "ss" PROVE ClashLink(e) = ClashSsToUri(e.opts)
  <2>1. ~(type = "vmess") /\ ~(type = "vless") /\ ~(type = "trojan") /\ ~(type = "ssr") /\ ~(type = "tuic") /\ ~(type \in QuicNames)
    BY <1>2, <1>9
  <2> QED
    BY <1>0, <1>9, <2>1, Zenon
<1>10. ASSUME type = "ssr" PROVE ClashLink(e) = {ClashSsrToUri(e.opts)}
  <2>1. ~(type = "vmess") /\ ~(type = "vless") /\ ~(type = "trojan") /\ ~(type = "ss") /\ ~(type = "tuic") /\ ~(type \in QuicNames)
    BY <1>2, <1>10
  <2> QED
    BY <1>0, <1>10, <2>1, Zenon
<1>11. ASSUME type = "tuic" PROVE ClashLink(e) = {ClashTuicToUri(e.opts)}
  <2>1. ~(type = "vmess") /\ ~(type = "vless") /\ ~(type = "trojan") /\ ~(type = "ss") /\ ~(type = "ssr") /\ ~(type \in QuicNames)
    BY <1>2, <1>11
  <2> QED
    BY <1>0, <1>11, <2>1, Zenon
<1> QED
  BY <1>4, <1>5, <1>6, <1>7, <1>8, <1>9, <1>10, <1>11 DEF type

EntryTlsIsFlag(e) == Val(e.opts, "tls", "true") \in {"true", "false"}

\* Any Clash entry reaches sing-box but for the gaps.
LEMMA ClashKept ==
    ASSUME NEW e, EntryTlsIsFlag(e), NEW l \in ClashLink(e), NEW o \in OutboundOptions(l)
    PROVE  Differences(OutboundWire(o), EntryWire(e)) \subseteq EntryGaps(e)
<1>1. Val(e.opts, "tls", "true") \in {"true", "false"} /\ Val(e.opts, "tls", "false") \in {"true", "false"}
  BY ValIs DEF EntryTlsIsFlag
<1>2. CASE e.type = "vless"
  BY <1>1, <1>2, ClashProxyIs, ClashVlessKept
<1>3. CASE e.type = "trojan"
  BY <1>1, <1>3, ClashProxyIs, ClashTrojanKept
<1>4. CASE e.type = "vmess"
  BY <1>1, <1>4, ClashProxyIs, ClashVmessKept
<1>5. CASE e.type \in QuicTypes
  <2>1. l = ClashHysteria2ToUri(e.opts) \/ l = ClashTuicToUri(e.opts)
    BY <1>5, ClashProxyIs DEF QuicTypes, QuicNames
  <2>2. e.type = "tuic" => l = ClashTuicToUri(e.opts)
    BY ClashProxyIs
  <2> QED
    BY <1>5, <2>1, <2>2, ClashQuicKept
<1>6. CASE e.type = "ss"
  <2>1. l.scheme = "ss"
    BY <1>6, ClashProxyIs DEF ClashSsToUri, Link
  <2>2. ~(e.type \in QuicTypes) /\ ~(e.type \in LayeredTypes)
    BY <1>6 DEF QuicTypes, LayeredTypes
  <2> DEFINE A == OutboundWire(o)
             B == EntryWire(e)
  <2>3. /\ A.mode = "false" /\ A.insecure = FALSE /\ A.sni = "server" /\ A.alpn = "none"
        /\ A.network = "tcp" /\ A.host = NoText /\ A.path = NoText /\ A.service = NoText
    BY <2>1, PlainKept
  <2>4. /\ B.mode = "false" /\ B.insecure = FALSE /\ B.sni = "server" /\ B.alpn = "none"
        /\ B.network = "tcp" /\ B.host = NoText /\ B.path = NoText /\ B.service = NoText
    BY <2>2, PlainEntry
  <2> HIDE DEF A, B
  <2> QED
    BY <2>3, <2>4, ByField DEF A, B
<1>7. CASE e.type = "ssr"
  <2>1. l.scheme = "ssr"
    BY <1>7, ClashProxyIs DEF ClashSsrToUri, Link
  <2>2. l.scheme \notin LayeredTypes \cup QuicTypes \cup {"ss"}
    BY <2>1 DEF LayeredTypes, QuicTypes
  <2> QED
    BY <2>2, OutboundOptionsIs
<1>8. e.type \in TakenTypes("clash") \cup {"ssr"}
  BY ClashProxyIs
<1> QED
  BY <1>2, <1>3, <1>4, <1>5, <1>6, <1>7, <1>8 DEF TakenTypes

-----------------------------------------------------------------------------
(* What sing-box is not refused.                                           *)

\* What may be refused of each type.
LEMMA RefusableIs ==
    ASSUME NEW form, ~Refusable(form)
    PROVE  LET o == form.opts
           IN  /\ form.type \in LayeredTypes =>
                    LowerCase(Val(o, "network", "tcp")) \in Transports \cup {"websocket"}
               /\ form.type = "vless" =>
                    /\ LowerCase(Val(o, "flow", "none")) \in {"none", "xtls-rprx-vision"}
                    /\ In(o, "reality-opts.public-key") =>
                        /\ Val(o, "reality-opts.public-key", NoText) # "bad"
                        /\ Val(o, "reality-opts.short-id", NoText) # "bad"
                    /\ Val(o, "security", NoText) = "reality" =>
                        /\ Val(o, "realitySettings.publicKey", NoText) # "bad"
                        /\ Val(o, "realitySettings.shortId", NoText) # "bad"
               /\ form.type \in {"ss", "shadowsocks"} =>
                    LowerCase(Val(o, "cipher", "unknown")) \notin {"ss", "unknown"}
  BY DEF Refusable, Val, In

\* A cipher sing-box has is taken under each of its names.
LEMMA MethodTaken ==
    ASSUME NEW method, LowerCase(method) \notin {"ss", "unknown"}
    PROVE  NormalizeSsMethod(method) # {}
<1> DEFINE lowered == LowerCase(method)
<1>1. NormalizeSsMethod(method) =
        CASE lowered = "chacha20-poly1305" -> {"chacha20-ietf-poly1305"}
          [] lowered = "xchacha20-poly1305" -> {"xchacha20-ietf-poly1305"}
          [] lowered \in {"ss", "unknown"} -> {}
          [] OTHER -> {lowered}
  BY DEF NormalizeSsMethod
<1>2. ~(lowered \in {"ss", "unknown"})
  OBVIOUS
<1>3. "chacha20-poly1305" # "xchacha20-poly1305"
  OBVIOUS
<1> HIDE DEF lowered
<1>4. CASE lowered = "chacha20-poly1305"
  <2>1. ~(lowered = "xchacha20-poly1305")
    BY <1>4
  <2>2. NormalizeSsMethod(method) = {"chacha20-ietf-poly1305"}
    BY <1>1, <1>2, <1>4, <2>1, Zenon
  <2> QED
    BY <2>2
<1>5. CASE lowered = "xchacha20-poly1305"
  <2>1. ~(lowered = "chacha20-poly1305")
    BY <1>5
  <2>2. NormalizeSsMethod(method) = {"xchacha20-ietf-poly1305"}
    BY <1>1, <1>2, <1>5, <2>1, Zenon
  <2> QED
    BY <2>2
<1>6. CASE ~(lowered = "chacha20-poly1305") /\ ~(lowered = "xchacha20-poly1305")
  <2>1. NormalizeSsMethod(method) = {lowered}
    BY <1>1, <1>2, <1>6, Zenon
  <2> QED
    BY <2>1
<1> QED
  BY <1>4, <1>5, <1>6

LEMMA ShadowsocksTaken ==
    ASSUME NEW opts, LowerCase(opts["cipher"]) \notin {"ss", "unknown"}
    PROVE  ShadowsocksOutbound(opts) # {}
<1>1. PICK m \in NormalizeSsMethod(opts["cipher"]) : TRUE
  BY MethodTaken
<1> QED
  BY <1>1 DEF ShadowsocksOutbound

LEMMA LayeredTaken ==
    ASSUME NEW opts, NEW ts, ts # {}, TransportConfig(opts) # {}
    PROVE  /\ VlessFlow(opts) # {} => Layered(opts, ts) # {}
           /\ Trojans(opts, ts) # {}
<1>1. PICK t \in ts, n \in TransportConfig(opts) : TRUE
  OBVIOUS
<1>2. Trojans(opts, ts) # {}
  BY <1>1 DEF Trojans
<1>3. ASSUME VlessFlow(opts) # {} PROVE Layered(opts, ts) # {}
  <2>1. PICK f \in VlessFlow(opts) : TRUE
    BY <1>3
  <2>2. OutboundWith("vless", f ++ t ++ n) \in Layered(opts, ts)
    BY <1>1, <2>1 DEF Layered
  <2> QED
    BY <2>2
<1> QED
  BY <1>2, <1>3

LEMMA QuicTaken ==
    ASSUME NEW opts, NEW ts, ts # {}
    PROVE  Hysterias(opts, ts) # {} /\ Tuics(opts, ts) # {}
  BY DEF Hysterias, Tuics

\* A link without Reality keys, or whose keys decode, is taken by the probe.
LEMMA VlessLinkTaken ==
    ASSUME NEW l, l.scheme = "vless",
           LowerCase(Val(l.opts, "flow", "none")) \in {"none", "xtls-rprx-vision"},
           Type(l.opts) \in Transports \cup {"websocket"},
           Real(l.opts) => ValidReality(l.opts)
    PROVE  OutboundOptions(l) # {}
<1> DEFINE m == l.opts
<1>1. PICK default \in BOOLEAN : default = FALSE
  OBVIOUS
<1> DEFINE ts == TlsConfig(m, default)
<1>2. OutboundOptions(l) = StandardOutbound("vless", m)
  BY OutboundOptionsIs
<1>3. OutboundOptions(l) = Layered(m, ts)
  BY <1>1, <1>2, StandardOutboundIs
<1>4. ts # {}
  BY TlsConfigTaken
<1>5. VlessFlow(m) # {} /\ TransportConfig(m) # {}
  BY FlowTaken, TransportConfigTaken
<1> HIDE DEF ts, m
<1> QED
  BY <1>3, <1>4, <1>5, LayeredTaken

LEMMA TrojanLinkTaken ==
    ASSUME NEW l, l.scheme = "trojan",
           Type(l.opts) \in Transports \cup {"websocket"},
           Real(l.opts) => ValidReality(l.opts)
    PROVE  OutboundOptions(l) # {}
<1> DEFINE m == l.opts
<1>1. PICK default \in BOOLEAN : default = TRUE
  OBVIOUS
<1> DEFINE ts == TlsConfig(m, default)
<1>2. OutboundOptions(l) = StandardOutbound("trojan", m)
  BY OutboundOptionsIs
<1>3. OutboundOptions(l) = Trojans(m, ts)
  BY <1>1, <1>2, StandardOutboundIs
<1>4. ts # {}
  BY TlsConfigTaken
<1>5. TransportConfig(m) # {}
  BY TransportConfigTaken
<1> HIDE DEF ts, m
<1> QED
  BY <1>3, <1>4, <1>5, LayeredTaken

LEMMA QuicLinkTaken ==
    ASSUME NEW l, l.scheme \in QuicTypes, ~Real(l.opts)
    PROVE  OutboundOptions(l) # {}
<1> DEFINE m == l.opts
<1>1. PICK default \in BOOLEAN : default = TRUE
  OBVIOUS
<1> DEFINE ts == TlsConfig(m, default)
<1>2. OutboundOptions(l) \in {StandardOutbound("tuic", m), StandardOutbound("hysteria2", m)}
  BY OutboundOptionsIs DEF QuicTypes, QuicNames
<1>3. OutboundOptions(l) \in {Hysterias(m, ts), Tuics(m, ts)}
  BY <1>1, <1>2, StandardOutboundIs
<1>4. ts # {}
  BY TlsConfigTaken
<1> HIDE DEF ts, m
<1> QED
  BY <1>3, <1>4, QuicTaken

\* Any Clash entry of a type that is read is taken unless it may be refused.
LEMMA ClashTaken ==
    ASSUME NEW e, e.type \in TakenTypes("clash"), ~Refusable(e)
    PROVE  \E l \in ClashLink(e) : OutboundOptions(l) # {}
<1> DEFINE c == e.opts
           network == Val(c, "network", "tcp")
<1>1. CASE e.type = "vless"
  <2> DEFINE l == ClashVlessToUri(c)
             m == l.opts
             key == In(c, "reality-opts.public-key")
             tls == Val(c, "tls", "false") = "true"
  <2>1. /\ l.scheme = "vless"
        /\ \A d : Val(m, "security", d) = IF key THEN "reality" ELSE IF tls THEN "tls" ELSE d
        /\ \A d : Val(m, "tls", d) = d
        /\ \A d : Val(m, "flow", d) = Val(c, "flow", d)
        /\ \A d : Val(m, "pbk", d) = Val(c, "reality-opts.public-key", d)
        /\ \A d : Val(m, "sid", d) = Val(c, "reality-opts.short-id", d)
        /\ \A k \in {"public_key", "reality_pbk", "short_id", "insecure", "skip-cert-verify",
                     "serverName", "peer", "net", "network", "service_name"} : \A d : Val(m, k, d) = d
        /\ Val(m, "type", "tcp") = network
    BY ClashVlessReads
  <2> HIDE DEF l, m, key, tls
  <2>2. /\ LowerCase(network) \in Transports \cup {"websocket"}
        /\ LowerCase(Val(c, "flow", "none")) \in {"none", "xtls-rprx-vision"}
        /\ key => /\ Val(c, "reality-opts.public-key", NoText) # "bad"
                  /\ Val(c, "reality-opts.short-id", NoText) # "bad"
    BY <1>1, RefusableIs DEF LayeredTypes, key
  <2>3. Type(m) = LowerCase(network)
    BY <2>1, AltThree DEF Type
  <2>4. Real(m) => key
    <3>1. ParamOr(m, <<"security", "tls">>, NoText)
            = IF key THEN "reality" ELSE IF tls THEN "tls" ELSE NoText
      BY <2>1, AltTwo
    <3>2. Sec(m) = IF key THEN "reality" ELSE IF tls THEN "tls" ELSE NoText
      BY <3>1, Words DEF Sec
    <3>3. In(m, "pbk") <=> key
      BY <2>1, PresentOne DEF key
    <3>4. ~In(m, "public_key") /\ ~In(m, "reality_pbk")
      BY <2>1, AbsentIs
    <3> QED
      BY <3>2, <3>3, <3>4, NoTextIs, HasThree DEF Real, RealityKeys
  <2>5. Real(m) => ValidReality(m)
    <3>1. ParamOr(m, <<"pbk", "public_key", "reality_pbk">>, NoText) = Val(c, "reality-opts.public-key", NoText)
      BY <2>1, AltThree
    <3>2. ParamOr(m, <<"sid", "short_id">>, NoText) = Val(c, "reality-opts.short-id", NoText)
      BY <2>1, AltTwo
    <3> QED
      BY <2>2, <2>4, <3>1, <3>2 DEF ValidReality
  <2>6. OutboundOptions(l) # {}
    BY <2>1, <2>2, <2>3, <2>5, VlessLinkTaken DEF m
  <2> QED
    BY <1>1, <2>6, ClashProxyIs DEF l
<1>2. CASE e.type = "trojan"
  <2> DEFINE l == ClashTrojanToUri(c)
             m == l.opts
             tls == Val(c, "tls", "true") = "true"
  <2>1. /\ l.scheme = "trojan"
        /\ \A d : Val(m, "security", d) = IF tls THEN "tls" ELSE d
        /\ \A k \in {"tls", "pbk", "public_key", "reality_pbk", "sid", "short_id", "insecure",
                     "skip-cert-verify", "serverName", "peer", "net", "network",
                     "service_name"} : \A d : Val(m, k, d) = d
        /\ Val(m, "type", "tcp") = network
    BY ClashTrojanReads
  <2> HIDE DEF l, m, tls
  <2>2. LowerCase(network) \in Transports \cup {"websocket"}
    BY <1>2, RefusableIs DEF LayeredTypes
  <2>3. Type(m) = LowerCase(network)
    BY <2>1, AltThree DEF Type
  <2>4. ~Real(m)
    <3>1. ParamOr(m, <<"security", "tls">>, NoText) = IF tls THEN "tls" ELSE NoText
      BY <2>1, AltTwo
    <3>2. Sec(m) = IF tls THEN "tls" ELSE NoText
      BY <3>1, Words DEF Sec
    <3>3. ~In(m, "pbk") /\ ~In(m, "public_key") /\ ~In(m, "reality_pbk")
      BY <2>1, AbsentIs
    <3> QED
      BY <3>2, <3>3, NoTextIs, HasThree DEF Real, RealityKeys
  <2>5. OutboundOptions(l) # {}
    BY <2>1, <2>2, <2>3, <2>4, TrojanLinkTaken DEF m
  <2> QED
    BY <1>2, <2>5, ClashProxyIs DEF l
<1>3. CASE e.type = "vmess"
  <2> DEFINE l == ClashVmessToUri(c)
             m == l.opts
  <2>1. l.scheme = "vmess" /\ (\A d : Val(m, "net", d) = network)
    BY ClashVmessReads
  <2> HIDE DEF l, m
  <2>2. LowerCase(network) \in Transports \cup {"websocket"}
    BY <1>3, RefusableIs DEF LayeredTypes
  <2>3. VmessOutbound(m) # {}
    BY <2>1, <2>2, VmessTaken DEF VmessType
  <2>4. OutboundOptions(l) # {}
    BY <2>1, <2>3, OutboundOptionsIs DEF m
  <2> QED
    BY <1>3, <2>4, ClashProxyIs DEF l
<1>4. CASE e.type \in QuicTypes
  <2>1. PICK l \in ClashLink(e) : l = ClashHysteria2ToUri(c) \/ l = ClashTuicToUri(c)
    BY <1>4, ClashProxyIs DEF QuicTypes, QuicNames
  <2> DEFINE m == l.opts
  <2>2. /\ l.scheme \in QuicTypes
        /\ \A k \in {"security", "tls", "pbk", "public_key", "reality_pbk", "allowInsecure",
                     "skip-cert-verify", "serverName", "peer"} : \A d : Val(m, k, d) = d
    <3>1. CASE l = ClashHysteria2ToUri(c)
      BY <3>1, ClashQuicReads
    <3>2. CASE l = ClashTuicToUri(c)
      BY <3>2, ClashQuicReads
    <3> QED
      BY <2>1, <3>1, <3>2
  <2> HIDE DEF m
  <2>3. ~Real(m)
    <3>1. ParamOr(m, <<"security", "tls">>, NoText) = NoText
      BY <2>2, AltTwo
    <3>2. Sec(m) = NoText
      BY <3>1, Words DEF Sec
    <3>3. ~In(m, "pbk") /\ ~In(m, "public_key") /\ ~In(m, "reality_pbk")
      BY <2>2, AbsentIs
    <3> QED
      BY <3>2, <3>3, NoTextIs, HasThree DEF Real, RealityKeys
  <2>4. OutboundOptions(l) # {}
    BY <2>2, <2>3, QuicLinkTaken DEF m
  <2> QED
    BY <2>4
<1>5. CASE e.type = "ss"
  <2>1. LowerCase(Val(c, "cipher", "unknown")) \notin {"ss", "unknown"}
    BY <1>5, RefusableIs
  <2>2. In(c, "cipher") /\ Val(c, "cipher", "unknown") = c["cipher"]
    BY <2>1, LowerWords, ValIs
  <2>3. PICK l \in ClashSsToUri(c) :
            l = Link("ss", Option("cipher", c["cipher"])
                  ++ Renamed(c, [plugin |-> <<"plugin">>])
                  ++ When("plugin" \in DOMAIN c, Renamed(c, Option("plugin-opts", <<"plugin-opts">>))))
    BY <2>2 DEF ClashSsToUri, In
  <2> DEFINE m == l.opts
  <2>4. Val(m, "cipher", NoText) = c["cipher"] /\ In(m, "cipher") /\ l.scheme = "ss"
    BY <2>3, ValJoin, ValOption, InJoin, InOption DEF Link
  <2>5. m["cipher"] = c["cipher"]
    BY <2>4, ValIs
  <2> HIDE DEF m
  <2>6. ShadowsocksOutbound(m) # {}
    BY <2>1, <2>2, <2>5, ShadowsocksTaken
  <2>7. OutboundOptions(l) # {}
    BY <2>4, <2>6, OutboundOptionsIs DEF m
  <2> QED
    BY <1>5, <2>7, ClashProxyIs
<1> QED
  BY <1>1, <1>2, <1>3, <1>4, <1>5 DEF TakenTypes

-----------------------------------------------------------------------------
(* What a link of an Xray outbound says.                                   *)

XrayHost(o, network) ==
    InUse(o, network, <<HeadersHost, "wsSettings.host">>, <<"httpSettings.host">>,
          <<"httpupgradeSettings.host">>)
XrayPath(o, network) ==
    InUse(o, network, <<"wsSettings.path">>, <<"httpSettings.path">>,
          <<"httpupgradeSettings.path">>)
XrayService(o, network) == GrpcService(o, network, "grpcSettings.serviceName")

\* The TLS options of a link made of an Xray outbound, option by option.
LEMMA XraySecurityReads ==
    ASSUME NEW security, NEW o, NEW k, NEW d
    PROVE  Val(XraySecurity(security, o), k, d) =
             IF security = "tls"
             THEN IF k = "sni" THEN Val(o, "tlsSettings.serverName", d)
                  ELSE IF k = "fp" THEN Val(o, "tlsSettings.fingerprint", d)
                  ELSE IF k = "alpn" THEN Val(o, "tlsSettings.alpn", d) ELSE d
             ELSE IF security = "reality"
             THEN IF k = "sni" THEN Val(o, "realitySettings.serverNames", d)
                  ELSE IF k = "fp" THEN Val(o, "realitySettings.fingerprint", d)
                  ELSE IF k = "pbk" THEN Val(o, "realitySettings.publicKey", d)
                  ELSE IF k = "sid" THEN Val(o, "realitySettings.shortId", d) ELSE d
             ELSE d
<1> DEFINE tls == Renamed(o, [sni |-> <<"tlsSettings.serverName">>,
                              fp |-> <<"tlsSettings.fingerprint">>,
                              alpn |-> <<"tlsSettings.alpn">>])
           reality == Renamed(o, [sni |-> <<"realitySettings.serverNames">>,
                                  fp |-> <<"realitySettings.fingerprint">>,
                                  pbk |-> <<"realitySettings.publicKey">>,
                                  sid |-> <<"realitySettings.shortId">>])
<1>1. \A j, c : Val(tls, j, c) = IF j = "sni" THEN Val(o, "tlsSettings.serverName", c)
                  ELSE IF j = "fp" THEN Val(o, "tlsSettings.fingerprint", c)
                  ELSE IF j = "alpn" THEN Val(o, "tlsSettings.alpn", c) ELSE c
  BY ValRenamed, AltOne DEF In
<1>2. \A j, c : Val(reality, j, c) = IF j = "sni" THEN Val(o, "realitySettings.serverNames", c)
                  ELSE IF j = "fp" THEN Val(o, "realitySettings.fingerprint", c)
                  ELSE IF j = "pbk" THEN Val(o, "realitySettings.publicKey", c)
                  ELSE IF j = "sid" THEN Val(o, "realitySettings.shortId", c) ELSE c
  BY ValRenamed, AltOne DEF In
<1>3. XraySecurity(security, o) = When(security = "tls", tls) ++ When(security = "reality", reality)
  BY DEF XraySecurity
<1> HIDE DEF tls, reality
<1>4. Val(XraySecurity(security, o), k, d)
        = Val(When(security = "tls", tls), k, Val(When(security = "reality", reality), k, d))
  BY <1>3, ValJoin
<1> QED
  BY <1>1, <1>2, <1>4, ValNone DEF When

\* Its transport options, option by option.
LEMMA XrayTransportReads ==
    ASSUME NEW network, NEW o, NEW service, NEW hosts, NEW k, NEW d
    PROVE  Val(XrayTransport(network, o, service, hosts), k, d) =
             IF network = "ws" /\ k = "path" THEN Val(o, "wsSettings.path", d)
             ELSE IF network = "ws" /\ k = "host" THEN ParamOr(o, hosts, d)
             ELSE IF network \in HttpNames /\ k = "path" THEN Val(o, "httpSettings.path", d)
             ELSE IF network \in HttpNames /\ k = "host" THEN Val(o, "httpSettings.host", d)
             ELSE IF network = "grpc" /\ k = service THEN Val(o, "grpcSettings.serviceName", d)
             ELSE d
<1> DEFINE ws == Renamed(o, [path |-> <<"wsSettings.path">>, host |-> hosts])
           grpc == Renamed(o, Option(service, <<"grpcSettings.serviceName">>))
           h2 == Renamed(o, [path |-> <<"httpSettings.path">>, host |-> <<"httpSettings.host">>])
           made == XrayTransport(network, o, service, hosts)
<1>0. made = CASE network = "ws" -> ws [] network = "grpc" -> grpc
               [] network \in {"h2", "http"} -> h2 [] OTHER -> NoOpts
  BY DEF XrayTransport
<1>1. Val(ws, k, d) = IF k = "path" THEN Val(o, "wsSettings.path", d)
                      ELSE IF k = "host" THEN ParamOr(o, hosts, d) ELSE d
  BY ValRenamed, AltOne DEF In
<1>2. Val(h2, k, d) = IF k = "path" THEN Val(o, "httpSettings.path", d)
                      ELSE IF k = "host" THEN Val(o, "httpSettings.host", d) ELSE d
  BY ValRenamed, AltOne DEF In
<1>3. Val(grpc, k, d) = IF k = service THEN Val(o, "grpcSettings.serviceName", d) ELSE d
  BY ValRenamed, AltOne DEF In, Option
<1> HIDE DEF ws, h2, grpc, made
<1>4. CASE network = "ws"
  <2>1. ~(network = "grpc") /\ ~(network \in {"h2", "http"})
    BY <1>4
  <2>2. made = ws
    BY <1>0, <1>4, <2>1, Zenon
  <2> QED
    BY <1>1, <1>4, <2>2 DEF HttpNames, made
<1>5. CASE network = "grpc"
  <2>1. ~(network = "ws") /\ ~(network \in {"h2", "http"})
    BY <1>5
  <2>2. made = grpc
    BY <1>0, <1>5, <2>1, Zenon
  <2> QED
    BY <1>3, <1>5, <2>2 DEF HttpNames, made
<1>6. CASE network \in HttpNames
  <2>1. ~(network = "ws") /\ ~(network = "grpc") /\ network \in {"h2", "http"}
    BY <1>6 DEF HttpNames
  <2>2. made = h2
    BY <1>0, <2>1, Zenon
  <2> QED
    BY <1>2, <1>6, <2>2 DEF HttpNames, made
<1>7. CASE ~(network = "ws") /\ ~(network = "grpc") /\ ~(network \in {"h2", "http"})
  <2>1. made = NoOpts
    BY <1>0, <1>7, Zenon
  <2> QED
    BY <1>7, <2>1, ValNone DEF HttpNames, made
<1> QED
  BY <1>4, <1>5, <1>6, <1>7 DEF HttpNames

\* But for httpupgrade, the link has the options of the transport in use; a
\* host outside the headers is kept for vless only.
LEMMA XrayTransportSays ==
    ASSUME NEW network, NEW o, NEW service \in {"path", "serviceName"}, NEW hosts,
           \/ hosts = <<HeadersHost, "wsSettings.host">>
           \/ hosts = <<HeadersHost>>
    PROVE  LET n == XrayTransport(network, o, service, hosts)
           IN  /\ \A k, d : k \notin {"host", "path", "serviceName"} => Val(n, k, d) = d
               /\ \/ Val(n, "host", NoText) = XrayHost(o, network)
                  \/ network = "httpupgrade"
                  \/ hosts = <<HeadersHost>> /\ ~In(o, HeadersHost)
               /\ \/ Val(n, "path", NoText) = XrayPath(o, network)
                  \/ network = "httpupgrade"
                  \/ service = "path" /\ network = "grpc"
               /\ service = "serviceName" => Val(n, "serviceName", NoText) = XrayService(o, network)
<1> DEFINE n == XrayTransport(network, o, service, hosts)
<1>0. "ws" \notin HttpNames /\ "httpupgrade" \notin HttpNames /\ "grpc" \notin HttpNames
  BY DEF HttpNames
<1>1. \A k, d : k \notin {"host", "path", "serviceName"} => Val(n, k, d) = d
  BY XrayTransportReads
<1>2. Val(n, "host", NoText) = IF network = "ws" THEN ParamOr(o, hosts, NoText)
                               ELSE IF network \in HttpNames THEN Val(o, "httpSettings.host", NoText)
                               ELSE NoText
  BY <1>0, XrayTransportReads
<1>3. \/ service = "path" /\ network = "grpc"
      \/ Val(n, "path", NoText) = IF network = "ws" THEN Val(o, "wsSettings.path", NoText)
                                 ELSE IF network \in HttpNames THEN Val(o, "httpSettings.path", NoText)
                                 ELSE NoText
  BY <1>0, XrayTransportReads
<1>4. service = "serviceName" =>
        Val(n, "serviceName", NoText) = IF network = "grpc" THEN Val(o, "grpcSettings.serviceName", NoText)
                                        ELSE NoText
  BY <1>0, XrayTransportReads
<1>5. \/ ParamOr(o, hosts, NoText) = ParamOr(o, <<HeadersHost, "wsSettings.host">>, NoText)
      \/ hosts = <<HeadersHost>> /\ ~In(o, HeadersHost)
  <2>1. CASE hosts = <<HeadersHost, "wsSettings.host">>
    BY <2>1
  <2>2. CASE hosts = <<HeadersHost>> /\ In(o, HeadersHost)
    BY <2>2, AltOne, AltTwo, ValIs
  <2> QED
    BY <2>1, <2>2
<1> HIDE DEF n
<1>6. XrayHost(o, network) = IF network = "ws" THEN ParamOr(o, <<HeadersHost, "wsSettings.host">>, NoText)
                             ELSE IF network \in HttpNames THEN Val(o, "httpSettings.host", NoText)
                             ELSE IF network = "httpupgrade" THEN Val(o, "httpupgradeSettings.host", NoText)
                             ELSE NoText
  BY InUseIs, AltOne DEF XrayHost
<1>7. XrayPath(o, network) = IF network = "ws" THEN Val(o, "wsSettings.path", NoText)
                             ELSE IF network \in HttpNames THEN Val(o, "httpSettings.path", NoText)
                             ELSE IF network = "httpupgrade" THEN Val(o, "httpupgradeSettings.path", NoText)
                             ELSE NoText
  BY InUseIs, AltOne DEF XrayPath
<1>8. XrayService(o, network) = IF network = "grpc" THEN Val(o, "grpcSettings.serviceName", NoText)
                                ELSE NoText
  BY AltOne DEF XrayService, GrpcService
<1>9. \/ Val(n, "host", NoText) = XrayHost(o, network)
      \/ network = "httpupgrade"
      \/ hosts = <<HeadersHost>> /\ ~In(o, HeadersHost)
  BY <1>2, <1>5, <1>6
<1>10. \/ Val(n, "path", NoText) = XrayPath(o, network)
       \/ network = "httpupgrade"
       \/ service = "path" /\ network = "grpc"
  BY <1>3, <1>7
<1> QED
  BY <1>1, <1>4, <1>8, <1>9, <1>10 DEF n

\* The link of an Xray vless outbound, option by option.
LEMMA XrayVlessReads ==
    ASSUME NEW x, NEW l, l = XrayVlessToUri(x)
    PROVE  LET m == l.opts
               network == Val(x, "network", "tcp")
               security == Val(x, "security", "none")
           IN  /\ l.scheme = "vless"
               /\ \A d : Val(m, "security", d) = IF security # "none" THEN security ELSE d
               /\ \A d : Val(m, "flow", d) = Val(x, "flow", d)
               /\ \A k \in {"sni", "alpn", "pbk", "sid"} : \A d :
                        Val(m, k, d) = Val(XraySecurity(security, x), k, d)
               /\ \A k \in {"tls", "public_key", "reality_pbk", "short_id",
                            "serverName", "peer", "net", "network", "service_name"} : \A d : Val(m, k, d) = d
               /\ Val(m, "type", "tcp") = network
               /\ Val(m, "host", NoText) = XrayHost(x, network) \/ network = "httpupgrade"
               /\ Val(m, "path", NoText) = XrayPath(x, network) \/ network = "httpupgrade"
               /\ Val(m, "serviceName", NoText) = XrayService(x, network)
<1> DEFINE m == l.opts
           network == Val(x, "network", "tcp")
           security == Val(x, "security", "none")
           hosts == <<HeadersHost, "wsSettings.host">>
           flow == Renamed(x, [flow |-> <<"flow">>])
           secure == When(security # "none", Option("security", security))
           names == XraySecurity(security, x)
           net == When(network # "tcp", Option("type", network))
           way == XrayTransport(network, x, "serviceName", hosts)
<1>1. l.scheme = "vless" /\ m = flow ++ secure ++ names ++ net ++ way
  <2>1. ParamOr(x, <<"network">>, "tcp") = network /\ ParamOr(x, <<"security">>, "none") = security
    BY DEF Val
  <2> HIDE DEF network, security, flow
  <2>2. XrayVlessToUri(x) = Link("vless", flow ++ secure ++ names ++ net ++ way)
    BY <2>1 DEF XrayVlessToUri, flow
  <2> QED
    BY <2>2 DEF Link
<1>3. \A k, d : Val(flow, k, d) = IF k = "flow" THEN Val(x, "flow", d) ELSE d
  BY ValRenamed, AltOne DEF In
<1>4. \A k, d : Val(secure, k, d) = IF k = "security" /\ security # "none" THEN security ELSE d
  BY ValOption, ValNone DEF When
<1>5. \A k, d : k \notin {"sni", "fp", "alpn", "pbk", "sid"} => Val(names, k, d) = d
  BY XraySecurityReads
<1>6. \A k, d : Val(net, k, d) = IF k = "type" /\ network # "tcp" THEN network ELSE d
  BY ValOption, ValNone DEF When
<1>7. /\ \A k, d : k \notin {"host", "path", "serviceName"} => Val(way, k, d) = d
      /\ Val(way, "host", NoText) = XrayHost(x, network) \/ network = "httpupgrade"
      /\ Val(way, "path", NoText) = XrayPath(x, network) \/ network = "httpupgrade"
      /\ Val(way, "serviceName", NoText) = XrayService(x, network)
  <2>1. hosts # <<HeadersHost>>
    OBVIOUS
  <2> HIDE DEF network
  <2>2. /\ \A k, d : k \notin {"host", "path", "serviceName"} => Val(way, k, d) = d
        /\ \/ Val(way, "host", NoText) = XrayHost(x, network)
           \/ network = "httpupgrade"
           \/ hosts = <<HeadersHost>> /\ ~In(x, HeadersHost)
        /\ Val(way, "path", NoText) = XrayPath(x, network) \/ network = "httpupgrade"
        /\ Val(way, "serviceName", NoText) = XrayService(x, network)
    BY XrayTransportSays
  <2> QED
    BY <2>1, <2>2
<1> HIDE DEF flow, secure, names, net, way, security, network, m
<1>8. \A k, d : Val(m, k, d) = Val(flow, k, Val(secure, k, Val(names, k,
                                 Val(net, k, Val(way, k, d)))))
  BY <1>1, ValJoin
<1>10. \A d : /\ Val(m, "security", d) = IF security # "none" THEN security ELSE d
              /\ Val(m, "flow", d) = Val(x, "flow", d)
  BY <1>3, <1>4, <1>5, <1>6, <1>7, <1>8
<1>11. \A k \in {"sni", "alpn", "pbk", "sid"} : \A d : Val(m, k, d) = Val(names, k, d)
  BY <1>3, <1>4, <1>5, <1>6, <1>7, <1>8
<1>12. \A k \in {"tls", "public_key", "reality_pbk", "short_id",
                 "serverName", "peer", "net", "network", "service_name"} : \A d : Val(m, k, d) = d
  BY <1>3, <1>4, <1>5, <1>6, <1>7, <1>8
<1>13. Val(m, "type", "tcp") = network
  BY <1>3, <1>4, <1>5, <1>6, <1>7, <1>8
<1>14. /\ Val(m, "host", NoText) = XrayHost(x, network) \/ network = "httpupgrade"
       /\ Val(m, "path", NoText) = XrayPath(x, network) \/ network = "httpupgrade"
       /\ Val(m, "serviceName", NoText) = XrayService(x, network)
  BY <1>3, <1>4, <1>5, <1>6, <1>7, <1>8
<1> QED
  BY <1>1, <1>10, <1>11, <1>12, <1>13, <1>14 DEF m, network, security, names

\* The link of an Xray vmess outbound, option by option.
LEMMA XrayVmessReads ==
    ASSUME NEW x, NEW l, l = XrayVmessToUri(x)
    PROVE  LET m == l.opts
               network == Val(x, "network", "tcp")
               security == Val(x, "security", "none")
           IN  /\ l.scheme = "vmess"
               /\ \A d : Val(m, "tls", d) = security
               /\ \A d : Val(m, "net", d) = network
               /\ security = "tls" => \A d : Val(m, "alpn", d) = Val(x, "tlsSettings.alpn", d)
               /\ \/ Val(m, "host", NoText) = XrayHost(x, network)
                  \/ network = "httpupgrade"
                  \/ ~In(x, HeadersHost)
               /\ \/ Val(m, "path", NoText) = XrayPath(x, network)
                  \/ network \in {"httpupgrade", "grpc"}
<1> DEFINE m == l.opts
           network == Val(x, "network", "tcp")
           security == Val(x, "security", "none")
           hosts == <<HeadersHost>>
           cipher == Option("scy", "auto")
           net == Option("net", network)
           tls == Option("tls", security)
           names == When(security # "none", XraySecurity("tls", x))
           way == XrayTransport(network, x, "path", hosts)
<1>1. l.scheme = "vmess" /\ m = cipher ++ net ++ tls ++ names ++ way
  <2>1. ParamOr(x, <<"network">>, "tcp") = network /\ ParamOr(x, <<"security">>, "none") = security
    BY DEF Val
  <2> HIDE DEF network, security, cipher
  <2>2. XrayVmessToUri(x) = Link("vmess", cipher ++ net ++ tls ++ names ++ way)
    BY <2>1 DEF XrayVmessToUri, cipher
  <2> QED
    BY <2>2 DEF Link
<1>2. \A k, d : Val(cipher, k, d) = IF k = "scy" THEN "auto" ELSE d
  BY ValOption
<1>3. \A k, d : Val(net, k, d) = IF k = "net" THEN network ELSE d
  BY ValOption
<1>4. \A k, d : Val(tls, k, d) = IF k = "tls" THEN security ELSE d
  BY ValOption
<1>5. /\ \A k, d : k \notin {"sni", "fp", "alpn"} => Val(names, k, d) = d
      /\ security # "none" => \A d : Val(names, "alpn", d) = Val(x, "tlsSettings.alpn", d)
  BY XraySecurityReads, ValNone DEF When
<1>6. /\ \A k, d : k \notin {"host", "path", "serviceName"} => Val(way, k, d) = d
      /\ \/ Val(way, "host", NoText) = XrayHost(x, network)
         \/ network = "httpupgrade"
         \/ ~In(x, HeadersHost)
      /\ \/ Val(way, "path", NoText) = XrayPath(x, network)
         \/ network \in {"httpupgrade", "grpc"}
  <2> HIDE DEF network
  <2> QED
    BY XrayTransportSays
<1> HIDE DEF cipher, net, tls, names, way, security, network, m
<1>7. \A k, d : Val(m, k, d) = Val(cipher, k, Val(net, k, Val(tls, k, Val(names, k, Val(way, k, d)))))
  BY <1>1, ValJoin
<1>8. \A d : Val(m, "tls", d) = security /\ Val(m, "net", d) = network
  BY <1>2, <1>3, <1>4, <1>5, <1>6, <1>7
<1>9. ASSUME security = "tls", NEW d PROVE Val(m, "alpn", d) = Val(x, "tlsSettings.alpn", d)
  <2>1. security # "none"
    BY <1>9
  <2> QED
    BY <1>2, <1>3, <1>4, <1>5, <1>6, <1>7, <2>1
<1>10. Val(m, "host", NoText) = Val(way, "host", NoText) /\ Val(m, "path", NoText) = Val(way, "path", NoText)
  BY <1>2, <1>3, <1>4, <1>5, <1>7
<1> QED
  BY <1>1, <1>6, <1>8, <1>9, <1>10 DEF m, network, security

\* The link of an Xray trojan outbound, option by option.
LEMMA XrayTrojanReads ==
    ASSUME NEW x, NEW l, l = XrayTrojanToUri(x)
    PROVE  LET m == l.opts
               network == Val(x, "network", "tcp")
               security == Val(x, "security", "tls")
           IN  /\ l.scheme = "trojan"
               /\ \A d : Val(m, "security", d) = IF security # "none" THEN security ELSE d
               /\ security = "tls" => \A d : Val(m, "sni", d) = Val(x, "tlsSettings.serverName", d)
               /\ \A k \in {"tls", "pbk", "public_key", "reality_pbk", "sid", "short_id",
                            "serverName", "peer", "net", "network", "service_name"} : \A d : Val(m, k, d) = d
               /\ Val(m, "type", "tcp") = network
               /\ \/ Val(m, "host", NoText) = XrayHost(x, network)
                  \/ network \in HttpNames \cup {"httpupgrade"}
                  \/ ~In(x, HeadersHost)
               /\ \/ Val(m, "path", NoText) = XrayPath(x, network)
                  \/ network \in HttpNames \cup {"httpupgrade"}
               /\ Val(m, "serviceName", NoText) = XrayService(x, network)
<1> DEFINE m == l.opts
           network == Val(x, "network", "tcp")
           security == Val(x, "security", "tls")
           hosts == <<HeadersHost>>
           secure == When(security # "none", Option("security", security))
           tls == XraySecurity("tls", x)
           kept == [k \in DOMAIN tls \ {"alpn"} |-> tls[k]]
           names == When(security = "tls", kept)
           net == When(network # "tcp", Option("type", network))
           full == XrayTransport(network, x, "serviceName", hosts)
           way == When(network \in {"ws", "grpc"}, full)
<1>1. l.scheme = "trojan" /\ m = secure ++ names ++ net ++ way
  <2>1. ParamOr(x, <<"network">>, "tcp") = network /\ ParamOr(x, <<"security">>, "tls") = security
    BY DEF Val
  <2> HIDE DEF network, security
  <2>2. XrayTrojanToUri(x) = Link("trojan", secure ++ names ++ net ++ way)
    BY <2>1 DEF XrayTrojanToUri
  <2> QED
    BY <2>2 DEF Link
<1>3. \A k, d : Val(secure, k, d) = IF k = "security" /\ security # "none" THEN security ELSE d
  BY ValOption, ValNone DEF When
<1>4. \A k, d : Val(kept, k, d) = IF k = "alpn" THEN d ELSE Val(tls, k, d)
  <2> HIDE DEF tls
  <2> QED
    BY ValIs DEF In
<1>5. /\ \A k, d : k \notin {"sni", "fp"} => Val(names, k, d) = d
      /\ security = "tls" => \A d : Val(names, "sni", d) = Val(x, "tlsSettings.serverName", d)
  <2>1. /\ \A k, d : k \notin {"sni", "fp"} => Val(kept, k, d) = d
        /\ \A d : Val(kept, "sni", d) = Val(x, "tlsSettings.serverName", d)
    <3> HIDE DEF kept
    <3> QED
      BY <1>4, XraySecurityReads
  <2> HIDE DEF kept
  <2> QED
    BY <2>1, ValNone DEF When
<1>6. \A k, d : Val(net, k, d) = IF k = "type" /\ network # "tcp" THEN network ELSE d
  BY ValOption, ValNone DEF When
<1>7. /\ \A k, d : k \notin {"host", "path", "serviceName"} => Val(full, k, d) = d
      /\ \/ Val(full, "host", NoText) = XrayHost(x, network)
         \/ network = "httpupgrade"
         \/ ~In(x, HeadersHost)
      /\ \/ Val(full, "path", NoText) = XrayPath(x, network)
         \/ network = "httpupgrade"
      /\ Val(full, "serviceName", NoText) = XrayService(x, network)
  <2> HIDE DEF network
  <2> QED
    BY XrayTransportSays
<1> HIDE DEF full, network
<1>8. network \notin {"ws", "grpc"} \cup HttpNames \cup {"httpupgrade"} =>
        XrayHost(x, network) = NoText /\ XrayPath(x, network) = NoText
  BY InUseIs DEF XrayHost, XrayPath
<1>9. network # "grpc" => XrayService(x, network) = NoText
  BY DEF XrayService, GrpcService
<1>10. /\ \A k, d : k \notin {"host", "path", "serviceName"} => Val(way, k, d) = d
       /\ \/ Val(way, "host", NoText) = XrayHost(x, network)
          \/ network \in HttpNames \cup {"httpupgrade"}
          \/ ~In(x, HeadersHost)
       /\ \/ Val(way, "path", NoText) = XrayPath(x, network)
          \/ network \in HttpNames \cup {"httpupgrade"}
       /\ Val(way, "serviceName", NoText) = XrayService(x, network)
  <2>1. CASE network \in {"ws", "grpc"}
    BY <1>7, <2>1 DEF When
  <2>2. CASE network \notin {"ws", "grpc"}
    BY <1>8, <1>9, <2>2, ValNone DEF When
  <2> QED
    BY <2>1, <2>2
<1> HIDE DEF secure, names, net, way, security, m
<1>11. \A k, d : Val(m, k, d) = Val(secure, k, Val(names, k, Val(net, k, Val(way, k, d))))
  BY <1>1, ValJoin
<1>13. \A d : Val(m, "security", d) = IF security # "none" THEN security ELSE d
  BY <1>3, <1>5, <1>6, <1>10, <1>11
<1>14. ASSUME security = "tls", NEW d PROVE Val(m, "sni", d) = Val(x, "tlsSettings.serverName", d)
  BY <1>3, <1>5, <1>6, <1>10, <1>11, <1>14
<1>15. \A k \in {"tls", "pbk", "public_key", "reality_pbk", "sid", "short_id",
                 "serverName", "peer", "net", "network", "service_name"} : \A d : Val(m, k, d) = d
  BY <1>3, <1>5, <1>6, <1>10, <1>11
<1>16. Val(m, "type", "tcp") = network
  BY <1>3, <1>5, <1>6, <1>10, <1>11
<1>17. \A k \in {"host", "path", "serviceName"} : Val(m, k, NoText) = Val(way, k, NoText)
  BY <1>3, <1>5, <1>6, <1>11
<1> QED
  BY <1>1, <1>10, <1>13, <1>14, <1>15, <1>16, <1>17 DEF m, network, security

-----------------------------------------------------------------------------
(* What an Xray outbound says reaches sing-box.                              *)

XraySaid(x) == Val(x.opts, "network", "tcp")

\* The wire of an Xray outbound.
LEMMA XrayIs ==
    ASSUME NEW x
    PROVE  LET B == XrayWire(x)
               o == x.opts
               security == XraySecurityOf(x)
           IN  /\ B.mode = IF security = "tls" THEN "true" ELSE IF security = "reality" THEN "reality" ELSE "false"
               /\ B.sni = IF security = "tls" THEN Val(o, "tlsSettings.serverName", "server")
                          ELSE IF security = "reality" THEN Val(o, "realitySettings.serverNames", "server")
                          ELSE "server"
               /\ B.alpn = IF security = "tls" THEN Val(o, "tlsSettings.alpn", "none") ELSE "none"
               /\ B.network = NetworkName(XraySaid(x))
               /\ B.host = XrayHost(o, XraySaid(x))
               /\ B.path = XrayPath(o, XraySaid(x))
               /\ B.service = XrayService(o, XraySaid(x))
  BY XrayFields DEF XrayHost, XrayPath, XrayService, XraySaid

\* What the transport of a probe says is what the feed says of it.
LEMMA XrayTransportKept ==
    ASSUME NEW x, NEW A, NEW type, type = LowerCase(XraySaid(x)), NEW host, NEW path, NEW service,
           A.network = Used(type),
           A.host = IF type \in Hosted THEN host ELSE NoText,
           A.path = IF type \in Hosted THEN path ELSE NoText,
           A.service = IF type = "grpc" THEN service ELSE NoText,
           host = XrayHost(x.opts, XraySaid(x)) \/ "host" \in XrayGaps(x),
           path = XrayPath(x.opts, XraySaid(x)) \/ "path" \in XrayGaps(x) \/ XraySaid(x) = "grpc",
           service = XrayService(x.opts, XraySaid(x)) \/ "service" \in XrayGaps(x)
    PROVE  LET B == XrayWire(x)
               gaps == XrayGaps(x)
           IN  /\ A.network = B.network \/ "network" \in gaps
               /\ A.host = B.host \/ "host" \in gaps
               /\ A.path = B.path \/ "path" \in gaps
               /\ A.service = B.service \/ "service" \in gaps
<1> DEFINE B == XrayWire(x)
           gaps == XrayGaps(x)
           network == XraySaid(x)
<1>1. /\ B.network = NetworkName(network)
      /\ B.host = XrayHost(x.opts, network)
      /\ B.path = XrayPath(x.opts, network)
      /\ B.service = XrayService(x.opts, network)
  BY XrayIs
<1>2. CASE network \in Transports
  <2>1. type = network /\ Used(network) = NetworkName(network)
    BY <1>2, Words DEF Used, NetworkName, Transports, HttpNames
  <2>2. network \notin Hosted => XrayHost(x.opts, network) = NoText /\ XrayPath(x.opts, network) = NoText
    BY InUseIs DEF XrayHost, XrayPath, Hosted, HttpNames
  <2>3. network # "grpc" => XrayService(x.opts, network) = NoText
    BY DEF XrayService, GrpcService
  <2>4. "grpc" \notin Hosted
    BY DEF Hosted
  <2> HIDE DEF B, gaps, network
  <2>5. A.network = B.network
    BY <1>1, <2>1
  <2>6. A.host = B.host \/ "host" \in gaps
    BY <1>1, <2>1, <2>2 DEF gaps, network
  <2>7. A.path = B.path \/ "path" \in gaps
    BY <1>1, <2>1, <2>2, <2>4 DEF gaps, network
  <2>8. A.service = B.service \/ "service" \in gaps
    BY <1>1, <2>1, <2>3 DEF gaps, network
  <2> QED
    BY <2>5, <2>6, <2>7, <2>8 DEF B, gaps
<1>3. CASE network \notin Transports
  <2>1. TransportFields \subseteq gaps
    BY <1>3, XrayGapsAre DEF XraySaid
  <2> QED
    BY <2>1 DEF TransportFields
<1> QED
  BY <1>2, <1>3

\* A wire that has its fields but for the gaps differs in no other.
LEMMA XrayLayeredKept ==
    ASSUME NEW x, NEW m, NEW default \in BOOLEAN, NEW t \in TlsConfig(m, default),
           NEW n \in TransportConfig(m), NEW o, Carries(o.opts, t ++ n),
           \/ TlsFields \subseteq XrayGaps(x)
           \/ /\ ProbeMode(m, default) = XrayWire(x).mode
              /\ XrayWire(x).mode = "false" \/ ParamOr(m, SniKeys, "server") = XrayWire(x).sni
              /\ \/ XrayWire(x).mode = "false" \/ Val(m, "alpn", "none") = XrayWire(x).alpn
                 \/ "alpn" \in XrayGaps(x),
           NetworkOf(m) = XraySaid(x),
           Val(m, "host", NoText) = XrayHost(x.opts, XraySaid(x)) \/ "host" \in XrayGaps(x),
           Val(m, "path", NoText) = XrayPath(x.opts, XraySaid(x)) \/ "path" \in XrayGaps(x),
           ParamOr(m, <<"serviceName", "service_name">>, NoText) = XrayService(x.opts, XraySaid(x))
    PROVE  Differences(OutboundWire(o), XrayWire(x)) \subseteq XrayGaps(x)
<1> DEFINE mode == ProbeMode(m, default)
           type == Type(m)
           gaps == XrayGaps(x)
           A == OutboundWire(o)
           B == XrayWire(x)
           service == ParamOr(m, <<"serviceName", "service_name">>, NoText)
<1>1. /\ A.mode = mode
      /\ A.sni = IF mode = "false" THEN "server" ELSE ParamOr(m, SniKeys, "server")
      /\ A.alpn = IF mode = "false" THEN "none" ELSE Val(m, "alpn", "none")
      /\ A.network = Used(type)
      /\ A.host = IF type \in Hosted THEN Val(m, "host", NoText) ELSE NoText
      /\ A.path = IF type \in Hosted THEN Val(m, "path", NoText) ELSE NoText
      /\ A.service = IF type = "grpc" THEN service ELSE NoText
  BY LayeredWire
<1>2. type = LowerCase(XraySaid(x))
  BY DEF Type, NetworkOf
<1>3. B.mode = "false" => B.sni = "server" /\ B.alpn = "none"
  BY XrayIs
<1>4. "insecure" \in gaps
  BY XrayGapsAre
<1>5. /\ A.mode = B.mode \/ "mode" \in gaps
      /\ A.sni = B.sni \/ "sni" \in gaps
      /\ A.alpn = B.alpn \/ "alpn" \in gaps
  <2>1. CASE TlsFields \subseteq gaps
    BY <2>1 DEF TlsFields
  <2>2. CASE ~(TlsFields \subseteq gaps)
    <3>1. /\ mode = B.mode
          /\ B.mode = "false" \/ ParamOr(m, SniKeys, "server") = B.sni
          /\ B.mode = "false" \/ Val(m, "alpn", "none") = B.alpn \/ "alpn" \in gaps
      BY <2>2
    <3> HIDE DEF mode, A, B, gaps
    <3> QED
      BY <1>1, <1>3, <3>1
  <2> QED
    BY <2>1, <2>2
<1> HIDE DEF mode, type, A, B, gaps, service
<1>6. /\ A.network = B.network \/ "network" \in gaps
      /\ A.host = B.host \/ "host" \in gaps
      /\ A.path = B.path \/ "path" \in gaps
      /\ A.service = B.service \/ "service" \in gaps
  <2> DEFINE host == Val(m, "host", NoText)
             path == Val(m, "path", NoText)
  <2>1. /\ host = XrayHost(x.opts, XraySaid(x)) \/ "host" \in XrayGaps(x)
        /\ path = XrayPath(x.opts, XraySaid(x)) \/ "path" \in XrayGaps(x)
        /\ service = XrayService(x.opts, XraySaid(x))
    BY DEF service
  <2>2. /\ A.network = Used(type)
        /\ A.host = IF type \in Hosted THEN host ELSE NoText
        /\ A.path = IF type \in Hosted THEN path ELSE NoText
        /\ A.service = IF type = "grpc" THEN service ELSE NoText
    BY <1>1
  <2> HIDE DEF host, path
  <2> QED
    BY <1>2, <2>1, <2>2, XrayTransportKept DEF B, gaps
<1> QED
  BY <1>4, <1>5, <1>6, ByField DEF A, B, gaps

\* An Xray vless outbound reaches sing-box but for the gaps.
LEMMA XrayVlessKept ==
    ASSUME NEW x, x.type = "vless", NEW l, l = XrayVlessToUri(x.opts), NEW o \in OutboundOptions(l)
    PROVE  Differences(OutboundWire(o), XrayWire(x)) \subseteq XrayGaps(x)
<1> DEFINE c == x.opts
           m == l.opts
           network == XraySaid(x)
           security == Val(c, "security", "none")
           B == XrayWire(x)
           gaps == XrayGaps(x)
<1>1. /\ l.scheme = "vless"
      /\ \A d : Val(m, "security", d) = IF security # "none" THEN security ELSE d
      /\ \A k \in {"sni", "alpn", "pbk", "sid"} : \A d :
               Val(m, k, d) = Val(XraySecurity(security, c), k, d)
      /\ \A k \in {"tls", "public_key", "reality_pbk", "short_id",
                   "serverName", "peer", "net", "network", "service_name"} : \A d : Val(m, k, d) = d
      /\ Val(m, "type", "tcp") = network
      /\ Val(m, "host", NoText) = XrayHost(c, network) \/ network = "httpupgrade"
      /\ Val(m, "path", NoText) = XrayPath(c, network) \/ network = "httpupgrade"
      /\ Val(m, "serviceName", NoText) = XrayService(c, network)
  BY XrayVlessReads DEF XraySaid
<1> HIDE DEF c, m, network, security
<1>2. PICK default \in BOOLEAN : default = FALSE
  OBVIOUS
<1>3. PICK t \in TlsConfig(m, default), n \in TransportConfig(m) : Carries(o.opts, t ++ n)
  <2> DEFINE ts == TlsConfig(m, default)
  <2>1. o \in Layered(m, ts)
    <3>1. OutboundOptions(l) = StandardOutbound("vless", m)
      BY <1>1, OutboundOptionsIs DEF m
    <3> QED
      BY <1>2, <3>1, StandardOutboundIs
  <2> HIDE DEF ts
  <2>2. \E t \in ts, n \in TransportConfig(m) : Carries(o.opts, t ++ n)
    BY <2>1, LayeredOutboundReads
  <2> QED
    BY <2>2 DEF ts
<1>4. XraySecurityOf(x) = security
  BY DEF XraySecurityOf, security, c, Val
<1>5. /\ B.mode = IF security = "tls" THEN "true" ELSE IF security = "reality" THEN "reality" ELSE "false"
      /\ B.sni = IF security = "tls" THEN Val(c, "tlsSettings.serverName", "server")
                 ELSE IF security = "reality" THEN Val(c, "realitySettings.serverNames", "server")
                 ELSE "server"
      /\ B.alpn = IF security = "tls" THEN Val(c, "tlsSettings.alpn", "none") ELSE "none"
  BY <1>4, XrayIs DEF c
<1>6. Sec(m) = IF security # "none" THEN LowerCase(security) ELSE NoText
  <2>1. ParamOr(m, <<"security", "tls">>, NoText) = IF security # "none" THEN security ELSE NoText
    BY <1>1, AltTwo
  <2> QED
    BY <2>1, Words DEF Sec
<1>7. Has(m, RealityKeys) <=> security = "reality" /\ In(c, "realitySettings.publicKey")
  <2>1. \A d : Val(m, "pbk", d) = IF security = "reality" THEN Val(c, "realitySettings.publicKey", d) ELSE d
    BY <1>1, XraySecurityReads
  <2>2. In(m, "pbk") <=> security = "reality" /\ In(c, "realitySettings.publicKey")
    BY <2>1, PresentOne
  <2>3. ~In(m, "public_key") /\ ~In(m, "reality_pbk")
    BY <1>1, AbsentIs
  <2> QED
    BY <2>2, <2>3, HasThree DEF RealityKeys
<1>8. /\ ParamOr(m, SniKeys, "server") = Val(XraySecurity(security, c), "sni", "server")
      /\ Val(m, "alpn", "none") = Val(XraySecurity(security, c), "alpn", "none")
  BY <1>1, SniKept
<1>9. \/ TlsFields \subseteq gaps
      \/ /\ ProbeMode(m, default) = B.mode
         /\ B.mode = "false" \/ ParamOr(m, SniKeys, "server") = B.sni
         /\ B.mode = "false" \/ Val(m, "alpn", "none") = B.alpn
  <2> HIDE DEF B, gaps
  <2>1. CASE security \in {"none", NoText}
    <3>1. ~On(m, default)
      BY <1>2, <1>6, <1>7, <2>1, Words, NoTextIs DEF On
    <3>2. ProbeMode(m, default) = "false"
      BY <3>1 DEF ProbeMode
    <3> QED
      BY <1>5, <2>1, <3>2, NoTextIs
  <2>2. CASE security = "tls"
    <3>1. On(m, default) /\ ~Has(m, RealityKeys)
      BY <1>6, <1>7, <2>2, Words DEF On
    <3>2. ProbeMode(m, default) = "true"
      BY <3>1 DEF ProbeMode
    <3>3. /\ Val(XraySecurity(security, c), "sni", "server") = Val(c, "tlsSettings.serverName", "server")
          /\ Val(XraySecurity(security, c), "alpn", "none") = Val(c, "tlsSettings.alpn", "none")
      BY <2>2, XraySecurityReads
    <3> QED
      BY <1>5, <1>8, <2>2, <3>2, <3>3
  <2>3. CASE security = "reality" /\ In(c, "realitySettings.publicKey")
    <3>1. On(m, default) /\ Real(m) /\ Has(m, RealityKeys)
      BY <1>6, <1>7, <2>3, Words DEF On, Real
    <3>2. ProbeMode(m, default) = "reality"
      BY <3>1 DEF ProbeMode
    <3>3. /\ Val(XraySecurity(security, c), "sni", "server") = Val(c, "realitySettings.serverNames", "server")
          /\ Val(XraySecurity(security, c), "alpn", "none") = "none"
      BY <2>3, XraySecurityReads
    <3> QED
      BY <1>5, <1>8, <2>3, <3>2, <3>3
  <2>4. CASE \/ security = "reality" /\ ~In(c, "realitySettings.publicKey")
             \/ security \notin {NoText, "none", "tls", "reality"}
    <3>1. security \notin {"none", NoText} => Val(c, "security", NoText) = security
      BY ValIs DEF security
    <3>2. Val(c, "security", NoText) = security
      BY <2>4, <3>1, NoTextIs
    <3> QED
      BY <2>4, <3>2, XrayGapsAre DEF gaps, c
  <2> QED
    BY <2>1, <2>2, <2>3, <2>4
<1>10. NetworkOf(m) = network
  BY <1>1, AltThree DEF NetworkOf
<1>11. ParamOr(m, <<"serviceName", "service_name">>, NoText) = XrayService(c, network)
  BY <1>1, AltTwo
<1>12. /\ Val(m, "host", NoText) = XrayHost(c, network) \/ "host" \in gaps
       /\ Val(m, "path", NoText) = XrayPath(c, network) \/ "path" \in gaps
  <2>1. network = "httpupgrade" => {"host", "path"} \subseteq gaps
    BY XrayGapsAre DEF network, XraySaid
  <2> QED
    BY <1>1, <2>1
<1> QED
  BY <1>3, <1>9, <1>10, <1>11, <1>12, XrayLayeredKept DEF c, network

\* An Xray trojan outbound reaches sing-box but for the gaps.
LEMMA XrayTrojanKept ==
    ASSUME NEW x, x.type = "trojan", Filled(x.opts),
           NEW l, l = XrayTrojanToUri(x.opts), NEW o \in OutboundOptions(l)
    PROVE  Differences(OutboundWire(o), XrayWire(x)) \subseteq XrayGaps(x)
<1> DEFINE c == x.opts
           m == l.opts
           network == XraySaid(x)
           security == Val(c, "security", "tls")
           B == XrayWire(x)
           gaps == XrayGaps(x)
<1>1. /\ l.scheme = "trojan"
      /\ \A d : Val(m, "security", d) = IF security # "none" THEN security ELSE d
      /\ \A k \in {"tls", "pbk", "public_key", "reality_pbk", "sid", "short_id",
                   "serverName", "peer", "net", "network", "service_name"} : \A d : Val(m, k, d) = d
      /\ Val(m, "type", "tcp") = network
      /\ \/ Val(m, "host", NoText) = XrayHost(c, network)
         \/ network \in HttpNames \cup {"httpupgrade"}
         \/ ~In(c, HeadersHost)
      /\ \/ Val(m, "path", NoText) = XrayPath(c, network)
         \/ network \in HttpNames \cup {"httpupgrade"}
      /\ Val(m, "serviceName", NoText) = XrayService(c, network)
  BY XrayTrojanReads DEF XraySaid
<1>0. ASSUME security = "tls" PROVE Val(m, "sni", "server") = Val(c, "tlsSettings.serverName", "server")
  BY <1>0, XrayTrojanReads
<1> HIDE DEF c, m, network, security
<1>2. PICK default \in BOOLEAN : default = TRUE
  OBVIOUS
<1>3. PICK t \in TlsConfig(m, default), n \in TransportConfig(m) : Carries(o.opts, t ++ n)
  <2> DEFINE ts == TlsConfig(m, default)
  <2>1. o \in Trojans(m, ts)
    <3>1. OutboundOptions(l) = StandardOutbound("trojan", m)
      BY <1>1, OutboundOptionsIs DEF m
    <3> QED
      BY <1>2, <3>1, StandardOutboundIs
  <2> HIDE DEF ts
  <2>2. \E t \in ts, n \in TransportConfig(m) : Carries(o.opts, t ++ n)
    BY <2>1, LayeredOutboundReads
  <2> QED
    BY <2>2 DEF ts
<1>4. XraySecurityOf(x) = security
  BY DEF XraySecurityOf, security, c, Val
<1>5. "alpn" \in gaps
  BY XrayGapsAre
<1>6. \/ TlsFields \subseteq gaps
      \/ /\ ProbeMode(m, default) = B.mode
         /\ ParamOr(m, SniKeys, "server") = B.sni
  <2>1. CASE security = "tls"
    <3>1. ParamOr(m, <<"security", "tls">>, NoText) = "tls"
      BY <1>1, <2>1, AltTwo
    <3>2. Sec(m) = "tls"
      BY <3>1, Words DEF Sec
    <3>3. ~In(m, "pbk") /\ ~In(m, "public_key") /\ ~In(m, "reality_pbk")
      BY <1>1, AbsentIs
    <3>4. On(m, default) /\ ~Has(m, RealityKeys)
      BY <3>2, <3>3, HasThree DEF On, RealityKeys
    <3>5. ProbeMode(m, default) = "true"
      BY <3>4 DEF ProbeMode
    <3>6. B.mode = "true" /\ B.sni = Val(c, "tlsSettings.serverName", "server")
      BY <1>4, <2>1, XrayIs DEF c
    <3>7. ParamOr(m, SniKeys, "server") = Val(m, "sni", "server")
      BY <1>1, SniKept
    <3> QED
      BY <1>0, <2>1, <3>5, <3>6, <3>7
  <2>2. CASE security # "tls"
    <3>1. In(c, "security") /\ security = c["security"]
      BY <2>2, ValIs DEF security
    <3>2. Val(c, "security", NoText) = security
      BY <3>1, ValIs
    <3>3. security # NoText
      BY <3>1, Words DEF Filled, In, c
    <3>4. Val(x.opts, "security", NoText) \in {"none", "reality"}
            \/ Val(x.opts, "security", NoText) \notin {NoText, "none", "tls", "reality"}
      BY <2>2, <3>2, <3>3 DEF c
    <3> QED
      BY <3>4, XrayGapsAre
  <2> QED
    BY <2>1, <2>2
<1>7. NetworkOf(m) = network
  BY <1>1, AltThree DEF NetworkOf
<1>8. ParamOr(m, <<"serviceName", "service_name">>, NoText) = XrayService(c, network)
  BY <1>1, AltTwo
<1>9. /\ Val(m, "host", NoText) = XrayHost(c, network) \/ "host" \in gaps
      /\ Val(m, "path", NoText) = XrayPath(c, network) \/ "path" \in gaps
  <2>1. network \in HttpNames \cup {"httpupgrade"} => {"host", "path"} \subseteq gaps
    BY XrayGapsAre DEF network, XraySaid
  <2>2. ~In(c, HeadersHost) => "host" \in gaps
    BY XrayGapsAre DEF c
  <2> QED
    BY <1>1, <2>1, <2>2
<1> QED
  BY <1>3, <1>5, <1>6, <1>7, <1>8, <1>9, XrayLayeredKept DEF c, network

\* An Xray vmess outbound reaches sing-box but for the gaps.
LEMMA XrayVmessKept ==
    ASSUME NEW x, x.type = "vmess", NEW l, l = XrayVmessToUri(x.opts), NEW o \in OutboundOptions(l)
    PROVE  Differences(OutboundWire(o), XrayWire(x)) \subseteq XrayGaps(x)
<1> DEFINE c == x.opts
           m == l.opts
           network == XraySaid(x)
           security == Val(c, "security", "none")
           type == VmessType(m)
           mode == IF VmessOn(m) THEN "true" ELSE "false"
           A == OutboundWire(o)
           B == XrayWire(x)
           gaps == XrayGaps(x)
<1>1. /\ l.scheme = "vmess"
      /\ \A d : Val(m, "tls", d) = security
      /\ \A d : Val(m, "net", d) = network
      /\ \/ Val(m, "host", NoText) = XrayHost(c, network)
         \/ network = "httpupgrade"
         \/ ~In(c, HeadersHost)
      /\ \/ Val(m, "path", NoText) = XrayPath(c, network)
         \/ network \in {"httpupgrade", "grpc"}
  BY XrayVmessReads DEF XraySaid
<1>0. ASSUME security = "tls" PROVE Val(m, "alpn", "none") = Val(c, "tlsSettings.alpn", "none")
  BY <1>0, XrayVmessReads
<1>2. o \in VmessOutbound(m)
  BY <1>1, OutboundOptionsIs
<1>3. /\ A.mode = mode
      /\ A.alpn = IF mode = "false" THEN "none" ELSE Val(m, "alpn", "none")
      /\ A.network = Used(type)
      /\ A.host = IF type \in Hosted THEN Val(m, "host", NoText) ELSE NoText
      /\ A.path = IF type \in Hosted THEN Val(m, "path", NoText) ELSE NoText
      /\ A.service = NoText
  BY <1>2, VmessWire
<1>4. {"service", "sni", "insecure"} \subseteq gaps
  BY XrayGapsAre
<1>5. XraySecurityOf(x) = security
  BY DEF XraySecurityOf, security, c, Val
<1>6. /\ B.mode = IF security = "tls" THEN "true" ELSE IF security = "reality" THEN "reality" ELSE "false"
      /\ B.alpn = IF security = "tls" THEN Val(c, "tlsSettings.alpn", "none") ELSE "none"
  BY <1>5, XrayIs DEF c
<1> HIDE DEF c, m, network, security, type, A, B, gaps
<1>7. (A.mode = B.mode /\ A.alpn = B.alpn) \/ TlsFields \subseteq gaps
  <2>1. VmessOn(m) <=> LowerCase(security) = "tls"
    BY <1>1 DEF VmessOn
  <2>2. CASE security = "tls"
    <3>1. mode = "true"
      BY <2>1, <2>2, Words
    <3> QED
      BY <1>0, <1>3, <1>6, <2>2, <3>1
  <2>3. CASE security \in {"none", NoText}
    <3>1. mode = "false"
      BY <2>1, <2>3, Words, NoTextIs
    <3>2. security # "tls" /\ security # "reality"
      BY <2>3, NoTextIs
    <3> QED
      BY <1>3, <1>6, <3>1, <3>2
  <2>4. CASE security \notin {"none", NoText, "tls"}
    <3>1. Val(c, "security", NoText) = security
      BY <2>4, ValIs DEF security
    <3> QED
      BY <2>4, <3>1, XrayGapsAre DEF gaps, c
  <2> QED
    BY <2>2, <2>3, <2>4
<1>8. type = LowerCase(network)
  BY <1>1 DEF VmessType, type
<1>9. /\ Val(m, "host", NoText) = XrayHost(c, network) \/ "host" \in gaps
      /\ Val(m, "path", NoText) = XrayPath(c, network) \/ "path" \in gaps \/ network = "grpc"
  <2>1. network = "httpupgrade" => {"host", "path"} \subseteq gaps
    BY XrayGapsAre DEF network, XraySaid, gaps
  <2>2. ~In(c, HeadersHost) => "host" \in gaps
    BY XrayGapsAre DEF c, gaps
  <2> QED
    BY <1>1, <2>1, <2>2
<1>10. /\ A.network = B.network \/ "network" \in gaps
       /\ A.host = B.host \/ "host" \in gaps
       /\ A.path = B.path \/ "path" \in gaps
       /\ A.service = B.service \/ "service" \in gaps
  <2> DEFINE host == Val(m, "host", NoText)
             path == Val(m, "path", NoText)
             service == NoText
  <2>1. /\ A.network = Used(type)
        /\ A.host = IF type \in Hosted THEN host ELSE NoText
        /\ A.path = IF type \in Hosted THEN path ELSE NoText
        /\ A.service = IF type = "grpc" THEN service ELSE NoText
    BY <1>3
  <2>2. /\ host = XrayHost(x.opts, XraySaid(x)) \/ "host" \in XrayGaps(x)
        /\ path = XrayPath(x.opts, XraySaid(x)) \/ "path" \in XrayGaps(x) \/ XraySaid(x) = "grpc"
        /\ service = XrayService(x.opts, XraySaid(x)) \/ "service" \in XrayGaps(x)
    BY <1>4, <1>9 DEF c, network, gaps
  <2> HIDE DEF host, path, service
  <2> QED
    BY <1>8, <2>1, <2>2, XrayTransportKept DEF B, gaps, network
<1> QED
  BY <1>4, <1>7, <1>10, ByField DEF TlsFields, A, B, gaps

\* An Xray Shadowsocks outbound reaches sing-box but for the gaps.
LEMMA XrayPlainKept ==
    ASSUME NEW x, x.type \in {"shadowsocks", "ss"}, NEW l, l.scheme = "ss", NEW o \in OutboundOptions(l)
    PROVE  Differences(OutboundWire(o), XrayWire(x)) \subseteq XrayGaps(x)
<1> DEFINE c == x.opts
           network == XraySaid(x)
           A == OutboundWire(o)
           B == XrayWire(x)
           gaps == XrayGaps(x)
<1>1. /\ A.mode = "false" /\ A.sni = "server" /\ A.alpn = "none"
      /\ A.network = "tcp" /\ A.host = NoText /\ A.path = NoText /\ A.service = NoText
  BY PlainKept
<1>2. "insecure" \in gaps
  BY XrayGapsAre
<1>3. (A.mode = B.mode /\ A.sni = B.sni /\ A.alpn = B.alpn) \/ TlsFields \subseteq gaps
  <2>1. CASE Val(c, "security", NoText) # NoText
    BY <2>1, XrayGapsAre
  <2>2. CASE Val(c, "security", NoText) = NoText
    <3>1. XraySecurityOf(x) = Val(c, "security", "none")
      BY DEF XraySecurityOf, Val
    <3>2. XraySecurityOf(x) \in {"none", NoText}
      BY <2>2, <3>1, ValIs
    <3>3. XraySecurityOf(x) # "tls" /\ XraySecurityOf(x) # "reality"
      BY <3>2, NoTextIs
    <3>4. B.mode = "false" /\ B.sni = "server" /\ B.alpn = "none"
      BY <3>3, XrayIs
    <3> QED
      BY <1>1, <3>4
  <2> QED
    BY <2>1, <2>2
<1>4. \/ A.network = B.network /\ A.host = B.host /\ A.path = B.path /\ A.service = B.service
      \/ TransportFields \subseteq gaps
  <2>1. CASE network # "tcp"
    BY <2>1, XrayGapsAre DEF XraySaid
  <2>2. CASE network = "tcp"
    <3>1. /\ B.network = NetworkName("tcp") /\ B.host = XrayHost(c, "tcp")
          /\ B.path = XrayPath(c, "tcp") /\ B.service = XrayService(c, "tcp")
      BY <2>2, XrayIs
    <3>2. "tcp" # "ws" /\ "tcp" # "httpupgrade" /\ "tcp" # "grpc" /\ "tcp" \notin HttpNames
      BY DEF HttpNames
    <3>3. /\ NetworkName("tcp") = "tcp" /\ XrayHost(c, "tcp") = NoText /\ XrayPath(c, "tcp") = NoText
          /\ XrayService(c, "tcp") = NoText
      BY <3>2, InUseIs DEF NetworkName, XrayHost, XrayPath, XrayService, GrpcService
    <3> QED
      BY <1>1, <3>1, <3>3
  <2> QED
    BY <2>1, <2>2
<1> HIDE DEF A, B, gaps
<1> QED
  BY <1>2, <1>3, <1>4, ByField DEF TlsFields, TransportFields, A, B, gaps

\* The link of an Xray outbound, by its protocol.
LEMMA XrayOutboundIs ==
    ASSUME NEW x
    PROVE  /\ x.type = "vless" => XrayLink(x) = {XrayVlessToUri(x.opts)}
           /\ x.type = "vmess" => XrayLink(x) = {XrayVmessToUri(x.opts)}
           /\ x.type = "trojan" => XrayLink(x) = {XrayTrojanToUri(x.opts)}
           /\ x.type \in {"shadowsocks", "ss"} => XrayLink(x) = XrayShadowsocksToUri(x.opts)
           /\ x.type \notin TakenTypes("xray") => XrayLink(x) = {}
<1> DEFINE type == x.type
<1>0. XrayLink(x) =
        CASE type = "vless" -> {XrayVlessToUri(x.opts)}
          [] type = "vmess" -> {XrayVmessToUri(x.opts)}
          [] type = "trojan" -> {XrayTrojanToUri(x.opts)}
          [] type \in {"shadowsocks", "ss"} -> XrayShadowsocksToUri(x.opts)
          [] OTHER -> {}
  BY DEF XrayLink
<1>1. type \notin TakenTypes("xray") =>
        /\ ~(type = "vmess") /\ ~(type = "vless") /\ ~(type = "trojan")
        /\ ~(type \in {"shadowsocks", "ss"})
  BY DEF TakenTypes
<1> HIDE DEF type
<1>2. ASSUME type \notin TakenTypes("xray") PROVE XrayLink(x) = {}
  BY <1>0, <1>1, <1>2, Zenon
<1>3. ASSUME type \in {"shadowsocks", "ss"} PROVE XrayLink(x) = XrayShadowsocksToUri(x.opts)
  <2>1. ~(type = "vmess") /\ ~(type = "vless") /\ ~(type = "trojan")
    BY <1>3
  <2> QED
    BY <1>0, <1>3, <2>1, Zenon
<1>4. ASSUME type = "vless" PROVE XrayLink(x) = {XrayVlessToUri(x.opts)}
  <2>1. ~(type = "vmess") /\ ~(type = "trojan") /\ ~(type \in {"shadowsocks", "ss"})
    BY <1>4
  <2> QED
    BY <1>0, <1>4, <2>1, Zenon
<1>5. ASSUME type = "vmess" PROVE XrayLink(x) = {XrayVmessToUri(x.opts)}
  <2>1. ~(type = "vless") /\ ~(type = "trojan") /\ ~(type \in {"shadowsocks", "ss"})
    BY <1>5
  <2> QED
    BY <1>0, <1>5, <2>1, Zenon
<1>6. ASSUME type = "trojan" PROVE XrayLink(x) = {XrayTrojanToUri(x.opts)}
  <2>1. ~(type = "vless") /\ ~(type = "vmess") /\ ~(type \in {"shadowsocks", "ss"})
    BY <1>6
  <2> QED
    BY <1>0, <1>6, <2>1, Zenon
<1> QED
  BY <1>2, <1>3, <1>4, <1>5, <1>6 DEF type

\* Any Xray outbound reaches sing-box but for the gaps.
LEMMA XrayKept ==
    ASSUME NEW x, Filled(x.opts), NEW l \in XrayLink(x), NEW o \in OutboundOptions(l)
    PROVE  Differences(OutboundWire(o), XrayWire(x)) \subseteq XrayGaps(x)
<1>1. CASE x.type = "vless"
  BY <1>1, XrayOutboundIs, XrayVlessKept
<1>2. CASE x.type = "vmess"
  BY <1>2, XrayOutboundIs, XrayVmessKept
<1>3. CASE x.type = "trojan"
  BY <1>3, XrayOutboundIs, XrayTrojanKept
<1>4. CASE x.type \in {"shadowsocks", "ss"}
  <2>1. l.scheme = "ss"
    BY <1>4, XrayOutboundIs DEF XrayShadowsocksToUri, Link
  <2> QED
    BY <1>4, <2>1, XrayPlainKept
<1> QED
  BY <1>1, <1>2, <1>3, <1>4, XrayOutboundIs DEF TakenTypes

\* Any Xray outbound of a type that is read is taken unless it may be refused.
LEMMA XrayTaken ==
    ASSUME NEW x, x.type \in TakenTypes("xray"), ~Refusable(x)
    PROVE  \E l \in XrayLink(x) : OutboundOptions(l) # {}
<1> DEFINE c == x.opts
           network == Val(c, "network", "tcp")
<1>1. CASE x.type = "vless"
  <2> DEFINE l == XrayVlessToUri(c)
             m == l.opts
             security == Val(c, "security", "none")
  <2>1. /\ l.scheme = "vless"
        /\ \A d : Val(m, "flow", d) = Val(c, "flow", d)
        /\ \A k \in {"sni", "alpn", "pbk", "sid"} : \A d :
                 Val(m, k, d) = Val(XraySecurity(security, c), k, d)
        /\ \A k \in {"tls", "public_key", "reality_pbk", "short_id",
                     "serverName", "peer", "net", "network", "service_name"} : \A d : Val(m, k, d) = d
        /\ Val(m, "type", "tcp") = network
    BY XrayVlessReads
  <2> HIDE DEF l, m, security
  <2>2. /\ LowerCase(network) \in Transports \cup {"websocket"}
        /\ LowerCase(Val(c, "flow", "none")) \in {"none", "xtls-rprx-vision"}
        /\ Val(c, "security", NoText) = "reality" =>
              /\ Val(c, "realitySettings.publicKey", NoText) # "bad"
              /\ Val(c, "realitySettings.shortId", NoText) # "bad"
    BY <1>1, RefusableIs DEF LayeredTypes
  <2>3. Type(m) = LowerCase(network)
    BY <2>1, AltThree DEF Type
  <2>4. ValidReality(m)
    <3>1. /\ ParamOr(m, <<"pbk", "public_key", "reality_pbk">>, NoText) = Val(XraySecurity(security, c), "pbk", NoText)
          /\ ParamOr(m, <<"sid", "short_id">>, NoText) = Val(XraySecurity(security, c), "sid", NoText)
      BY <2>1, AltThree, AltTwo
    <3>2. CASE security = "reality"
      <4>1. Val(c, "security", NoText) = "reality"
        BY <3>2, ValIs DEF security
      <4> QED
        BY <2>2, <3>1, <3>2, <4>1, XraySecurityReads DEF ValidReality
    <3>3. CASE security # "reality"
      BY <3>1, <3>3, XraySecurityReads, NoTextIs DEF ValidReality
    <3> QED
      BY <3>2, <3>3
  <2>5. OutboundOptions(l) # {}
    BY <2>1, <2>2, <2>3, <2>4, VlessLinkTaken DEF m
  <2> QED
    BY <1>1, <2>5, XrayOutboundIs DEF l
<1>2. CASE x.type = "trojan"
  <2> DEFINE l == XrayTrojanToUri(c)
             m == l.opts
  <2>1. /\ l.scheme = "trojan"
        /\ \A k \in {"tls", "pbk", "public_key", "reality_pbk", "sid", "short_id",
                     "serverName", "peer", "net", "network", "service_name"} : \A d : Val(m, k, d) = d
        /\ Val(m, "type", "tcp") = network
    BY XrayTrojanReads
  <2> HIDE DEF l, m
  <2>2. LowerCase(network) \in Transports \cup {"websocket"}
    BY <1>2, RefusableIs DEF LayeredTypes
  <2>3. Type(m) = LowerCase(network)
    BY <2>1, AltThree DEF Type
  <2>4. ValidReality(m)
    BY <2>1, AltThree, AltTwo, NoTextIs DEF ValidReality
  <2>5. OutboundOptions(l) # {}
    BY <2>1, <2>2, <2>3, <2>4, TrojanLinkTaken DEF m
  <2> QED
    BY <1>2, <2>5, XrayOutboundIs DEF l
<1>3. CASE x.type = "vmess"
  <2> DEFINE l == XrayVmessToUri(c)
             m == l.opts
  <2>1. l.scheme = "vmess" /\ (\A d : Val(m, "net", d) = network)
    BY XrayVmessReads
  <2> HIDE DEF l, m
  <2>2. LowerCase(network) \in Transports \cup {"websocket"}
    BY <1>3, RefusableIs DEF LayeredTypes
  <2>3. VmessOutbound(m) # {}
    BY <2>1, <2>2, VmessTaken DEF VmessType
  <2>4. OutboundOptions(l) # {}
    BY <2>1, <2>3, OutboundOptionsIs DEF m
  <2> QED
    BY <1>3, <2>4, XrayOutboundIs DEF l
<1>4. CASE x.type \in {"shadowsocks", "ss"}
  <2>1. LowerCase(Val(c, "cipher", "unknown")) \notin {"ss", "unknown"}
    BY <1>4, RefusableIs
  <2>2. In(c, "cipher") /\ Val(c, "cipher", "unknown") = c["cipher"]
    BY <2>1, LowerWords, ValIs
  <2>3. PICK l \in XrayShadowsocksToUri(c) : l = Link("ss", Option("cipher", c["cipher"]))
    BY <2>2 DEF XrayShadowsocksToUri, In
  <2> DEFINE m == l.opts
  <2>4. Val(m, "cipher", NoText) = c["cipher"] /\ In(m, "cipher") /\ l.scheme = "ss"
    BY <2>3, ValOption, InOption DEF Link
  <2>5. m["cipher"] = c["cipher"]
    BY <2>4, ValIs
  <2> HIDE DEF m
  <2>6. ShadowsocksOutbound(m) # {}
    BY <2>1, <2>2, <2>5, ShadowsocksTaken
  <2>7. OutboundOptions(l) # {}
    BY <2>4, <2>6, OutboundOptionsIs DEF m
  <2> QED
    BY <1>4, <2>7, XrayOutboundIs
<1> QED
  BY <1>1, <1>2, <1>3, <1>4 DEF TakenTypes

-----------------------------------------------------------------------------
(* The two halves of a form.                                                 *)

\* A link of a feed has the options of its converter and the account it writes.
LEMMA LinkHalves ==
    ASSUME NEW links, NEW accounts, NEW l \in WithAccount(links, accounts)
    PROVE  \E k \in links, a \in accounts :
               l.scheme = k.scheme /\ l.opts = k.opts /\ l.account = a
  BY DEF WithAccount

\* The converters of the options look at nothing else.
LEMMA SameOptions ==
    ASSUME NEW k, NEW l, l.scheme = k.scheme, l.opts = k.opts
    PROVE  OutboundOptions(l) = OutboundOptions(k)
  BY OutboundOptionsIs DEF LayeredTypes, QuicTypes, QuicNames

LEMMA OutboundHalves ==
    ASSUME NEW l, NEW o \in SingBoxOutbound(l)
    PROVE  \E p \in OutboundOptions(l), a \in OutboundAccount(l) :
               o.opts = p.opts /\ o.account = a /\ OutboundWire(o) = OutboundWire(p)
<1>1. PICK p \in OutboundOptions(l), a \in OutboundAccount(l) :
          o = [type |-> p.type, opts |-> p.opts, account |-> a]
  BY DEF SingBoxOutbound
<1>2. o.opts = p.opts /\ o.account = a
  BY <1>1
<1>3. OutboundWire(o) = OutboundWire(p)
  BY <1>2 DEF OutboundWire
<1> QED
  BY <1>2, <1>3

LEMMA EntryHalves ==
    ASSUME NEW l, NEW e \in UriToClash(l)
    PROVE  \E p \in EntryOptions(l), a \in EntryAccount(l) :
               e.account = a /\ EntryWire(e) = EntryWire(p)
<1>1. PICK p \in EntryOptions(l), a \in EntryAccount(l) :
          e = [type |-> p.type, opts |-> p.opts, account |-> a]
  BY DEF UriToClash
<1>2. e.type = p.type /\ e.opts = p.opts /\ e.account = a
  BY <1>1
<1>3. EntryMode(e) = EntryMode(p) /\ EntryNetwork(e) = EntryNetwork(p)
  BY <1>2, EntryModeIs DEF EntryNetwork
<1>4. EntryWire(e) = EntryWire(p)
  BY <1>2, <1>3 DEF EntryWire
<1> QED
  BY <1>2, <1>4

\* A link has an outbound when both its halves have one.
LEMMA BothHalves ==
    ASSUME NEW l, OutboundOptions(l) # {}, OutboundAccount(l) # {}
    PROVE  SingBoxOutbound(l) # {}
<1>1. PICK o \in OutboundOptions(l) : TRUE
  OBVIOUS
<1>2. PICK a \in OutboundAccount(l) : TRUE
  OBVIOUS
<1>3. [type |-> o.type, opts |-> o.opts, account |-> a] \in SingBoxOutbound(l)
  BY DEF SingBoxOutbound
<1> QED
  BY <1>3

LEMMA EntryBothHalves ==
    ASSUME NEW l, SingBoxOutbound(l) # {} PROVE UriToClash(l) # {}
<1>1. OutboundOptions(l) # {} /\ OutboundAccount(l) # {}
  BY DEF SingBoxOutbound
<1>2. EntryOptions(l) # {}
  BY <1>1, LinkServed
<1>3. EntryAccount(l) # {}
  BY <1>1 DEF EntryAccount, OutboundAccount, Account, UserTypes, UrlTypes, QuicTypes
<1>4. PICK e \in EntryOptions(l) : TRUE
  BY <1>2
<1>5. PICK a \in EntryAccount(l) : TRUE
  BY <1>3
<1>6. [type |-> e.type, opts |-> e.opts, account |-> a] \in UriToClash(l)
  BY DEF UriToClash
<1> QED
  BY <1>6

-----------------------------------------------------------------------------
(* The account of a server.                                                  *)

\* A text with none of the characters a reader treats apart is read as written.
LEMMA TextKept ==
    ASSUME NEW text
    PROVE  /\ " " \notin CharsOf(text) => Trim(text) = text
           /\ {":", "%"} \cap CharsOf(text) = {} => Decoded(Cut(text)) = text
  BY DEF Trim, Decoded, Cut

\* The probe and the export read one account, but for blanks in QUIC links.
LEMMA AccountsAgree ==
    ASSUME NEW l, NEW a \in OutboundAccount(l), NEW b \in EntryAccount(l)
    PROVE  b = a \/ AccountExportGap(l)
<1> DEFINE c == l.account
           url == l.scheme \in UrlTypes
           user == l.scheme \in UserTypes
           tuic == l.scheme = "tuic"
<1>1. a = Account(c.server, IF url THEN Trim(c.user) ELSE c.user,
                  IF tuic THEN Trim(c.pass) ELSE NoText)
  BY DEF OutboundAccount
<1>2. b = Account(c.server, IF user THEN Trim(c.user) ELSE c.user,
                  IF tuic THEN c.pass ELSE NoText)
  BY DEF EntryAccount
<1>3. /\ url <=> user \/ l.scheme \in QuicTypes
      /\ tuic => l.scheme \in QuicTypes
  BY DEF UrlTypes, QuicTypes
<1>4. ASSUME ~AccountExportGap(l), l.scheme \in QuicTypes
      PROVE  Trim(c.user) = c.user /\ Trim(c.pass) = c.pass
  BY <1>4, TextKept DEF AccountExportGap
<1> HIDE DEF c, url, user, tuic
<1> QED
  BY <1>1, <1>2, <1>3, <1>4

\* The link of a Clash entry has the scheme of its type.
LEMMA ClashScheme ==
    ASSUME NEW e, NEW k \in ClashLink(e)
    PROVE  /\ e.type \in UrlTypes => k.scheme = IF e.type = "hy2" THEN "hysteria2" ELSE e.type
           /\ e.type \notin UrlTypes => k.scheme \in {"vmess", "ss", "ssr"}
           /\ k.scheme = "vmess" => e.type = "vmess"
<1>1. CASE e.type = "vmess"
  BY <1>1, ClashProxyIs, ClashVmessReads DEF UrlTypes, UserTypes, QuicTypes
<1>2. CASE e.type = "vless"
  BY <1>2, ClashProxyIs, ClashVlessReads DEF UrlTypes, UserTypes, QuicTypes
<1>3. CASE e.type = "trojan"
  BY <1>3, ClashProxyIs, ClashTrojanReads DEF UrlTypes, UserTypes, QuicTypes
<1>4. CASE e.type = "ss"
  <2>1. k \in ClashSsToUri(e.opts)
    BY <1>4, ClashProxyIs
  <2>2. k.scheme = "ss"
    BY <2>1 DEF ClashSsToUri, Link
  <2> QED
    BY <1>4, <2>2 DEF UrlTypes, UserTypes, QuicTypes
<1>5. CASE e.type = "ssr"
  <2>1. k = ClashSsrToUri(e.opts)
    BY <1>5, ClashProxyIs
  <2>2. k.scheme = "ssr"
    BY <2>1 DEF ClashSsrToUri, Link
  <2> QED
    BY <1>5, <2>2 DEF UrlTypes, UserTypes, QuicTypes
<1>6. CASE e.type \in QuicNames
  <2>1. k = ClashHysteria2ToUri(e.opts)
    BY <1>6, ClashProxyIs
  <2>2. k.scheme = "hysteria2"
    BY <2>1 DEF ClashHysteria2ToUri, Link
  <2> QED
    BY <1>6, <2>2 DEF UrlTypes, UserTypes, QuicTypes, QuicNames
<1>7. CASE e.type = "tuic"
  <2>1. k = ClashTuicToUri(e.opts)
    BY <1>7, ClashProxyIs
  <2>2. k.scheme = "tuic"
    BY <2>1 DEF ClashTuicToUri, Link
  <2> QED
    BY <1>7, <2>2 DEF UrlTypes, UserTypes, QuicTypes
<1>8. ClashLink(e) = {} \/ e.type \in {"vmess", "vless", "trojan", "ss", "ssr", "tuic"} \cup QuicNames
  BY ClashProxyIs DEF TakenTypes, QuicNames, QuicTypes
<1> QED
  BY <1>1, <1>2, <1>3, <1>4, <1>5, <1>6, <1>7, <1>8

\* The link of an Xray outbound likewise.
LEMMA XrayScheme ==
    ASSUME NEW x, NEW k \in XrayLink(x)
    PROVE  /\ x.type \in {"vless", "trojan", "vmess", "shadowsocks", "ss"}
           /\ x.type \in UserTypes => k.scheme = x.type
           /\ x.type \notin UserTypes => k.scheme \in {"vmess", "ss"}
<1>1. CASE x.type = "vless"
  BY <1>1, XrayOutboundIs, XrayVlessReads DEF UserTypes
<1>2. CASE x.type = "trojan"
  BY <1>2, XrayOutboundIs, XrayTrojanReads DEF UserTypes
<1>3. CASE x.type = "vmess"
  BY <1>3, XrayOutboundIs, XrayVmessReads DEF UserTypes
<1>4. CASE x.type \in {"shadowsocks", "ss"}
  <2>1. k \in XrayShadowsocksToUri(x.opts)
    BY <1>4, XrayOutboundIs
  <2>2. k.scheme = "ss"
    BY <2>1 DEF XrayShadowsocksToUri, Link
  <2> QED
    BY <1>4, <2>2 DEF UserTypes
<1>5. x.type \in {"vless", "trojan", "vmess", "shadowsocks", "ss"}
  BY XrayOutboundIs DEF TakenTypes
<1> QED
  BY <1>1, <1>2, <1>3, <1>4, <1>5

\* What a raw or a coded user part gives back.
LEMMA UserRead ==
    ASSUME NEW text
    PROVE  /\ \A u \in RawUser(text) : {":", "%"} \cap CharsOf(text) = {} => u = text
           /\ \A u \in RawUser(text) : u = Decoded(Cut(text))
           /\ {"/", "?"} \cap CharsOf(text) = {} => RawUser(text) = {Decoded(Cut(text))}
           /\ \A u \in CodedUser(text) : u = text
           /\ "/" \notin CharsOf(text) => CodedUser(text) = {text}
  BY TextKept DEF RawUser, CodedUser

LEMMA AccountRead ==
    ASSUME NEW server, NEW users, NEW passes
    PROVE  /\ \A a \in UrlAccount(server, users, passes) :
                 \E u \in users, p \in passes : a = Account(server, u, p)
           /\ ":" \notin CharsOf(server) /\ users # {} /\ passes # {} =>
                 UrlAccount(server, users, passes) # {}
  BY DEF UrlAccount

\* The parts of an account.
LEMMA AccountIs ==
    ASSUME NEW s, NEW u, NEW p
    PROVE  /\ Account(s, u, p).server = s
           /\ Account(s, u, p).user = u
           /\ Account(s, u, p).pass = p
  BY DEF Account

\* The account of a Clash entry reaches sing-box but for the listed gaps.
LEMMA ClashAccountKept ==
    ASSUME NEW e, AccountFits(e), NEW k \in ClashLink(e), NEW l, l.scheme = k.scheme,
           l.account \in ClashAccount(e), NEW a \in OutboundAccount(l)
    PROVE  a = e.account \/ AccountGap(e)
<1> DEFINE c == e.account
           w == l.account
           url == l.scheme \in UrlTypes
           tuic == l.scheme = "tuic"
<1>1. a = Account(w.server, IF url THEN Trim(w.user) ELSE w.user,
                  IF tuic THEN Trim(w.pass) ELSE NoText)
  BY DEF OutboundAccount
<1>2. /\ c = Account(c.server, c.user, c.pass)
      /\ e.type # "tuic" => c.pass = NoText
  BY DEF AccountFits
<1>3. /\ e.type \in UserTypes => url /\ ~tuic
      /\ e.type \in {"hysteria2", "hy2"} => url /\ ~tuic
      /\ e.type = "tuic" => url /\ tuic
      /\ e.type \notin UrlTypes => ~url /\ ~tuic
  BY ClashScheme DEF UrlTypes, UserTypes, QuicTypes
<1>4. /\ " " \notin CharsOf(w.user) => Trim(w.user) = w.user
      /\ " " \notin CharsOf(w.pass) => Trim(w.pass) = w.pass
  BY TextKept
<1>5. CASE e.type \in UserTypes
  <2>1. w \in UrlAccount(c.server, RawUser(c.user), {NoText})
    BY <1>5 DEF ClashAccount, UrlTypes, UserTypes
  <2>2. PICK u \in RawUser(c.user), p \in {NoText} : w = Account(c.server, u, p)
    BY <2>1, AccountRead
  <2>3. ~AccountGap(e) => {":", "%"} \cap CharsOf(c.user) = {} /\ " " \notin CharsOf(c.user)
    BY <1>5 DEF AccountGap
  <2>4. ~AccountGap(e) => u = c.user
    BY <2>3, UserRead
  <2>5. w.server = c.server /\ w.user = u
    BY <2>2, AccountIs
  <2>6. e.type # "tuic"
    BY <1>5 DEF UserTypes
  <2> HIDE DEF c, w, url, tuic
  <2> QED
    BY <1>1, <1>2, <1>3, <1>4, <1>5, <2>3, <2>4, <2>5, <2>6 DEF c
<1>6. CASE e.type \in QuicTypes
  <2> DEFINE passes == IF e.type = "tuic" THEN CodedUser(c.pass) ELSE {NoText}
  <2>1. w \in UrlAccount(c.server, CodedUser(c.user), passes)
    BY <1>6 DEF ClashAccount, UrlTypes, UserTypes, QuicTypes
  <2>2. PICK u \in CodedUser(c.user), p \in passes : w = Account(c.server, u, p)
    BY <2>1, AccountRead
  <2>3. ~AccountGap(e) => " " \notin CharsOf(c.user) /\ " " \notin CharsOf(c.pass)
    BY <1>6 DEF AccountGap
  <2>4. u = c.user /\ p = c.pass
    BY <1>2, UserRead
  <2>5. w = c
    BY <1>2, <2>2, <2>4
  <2>6. e.type = "tuic" \/ e.type \in {"hysteria2", "hy2"}
    BY <1>6 DEF QuicTypes
  <2> HIDE DEF c, w, url, tuic
  <2> QED
    BY <1>1, <1>2, <1>3, <1>4, <2>3, <2>5, <2>6 DEF c
<1>7. CASE e.type \notin UrlTypes
  <2>1. w = Account(c.server, c.user, NoText)
    BY <1>7 DEF ClashAccount
  <2>2. w.server = c.server /\ w.user = c.user
    BY <2>1, AccountIs
  <2>3. e.type # "tuic"
    BY <1>7 DEF UrlTypes, QuicTypes
  <2> HIDE DEF c, w, url, tuic
  <2> QED
    BY <1>1, <1>2, <1>3, <1>7, <2>2, <2>3 DEF c
<1> QED
  BY <1>5, <1>6, <1>7 DEF UrlTypes

\* So does the account of an Xray outbound.
LEMMA XrayAccountKept ==
    ASSUME NEW x, AccountFits(x), NEW k \in XrayLink(x), NEW l, l.scheme = k.scheme,
           l.account \in XrayAccount(x), NEW a \in OutboundAccount(l)
    PROVE  a = x.account \/ AccountGap(x)
<1> DEFINE c == x.account
           w == l.account
           url == l.scheme \in UrlTypes
           tuic == l.scheme = "tuic"
<1>1. a = Account(w.server, IF url THEN Trim(w.user) ELSE w.user,
                  IF tuic THEN Trim(w.pass) ELSE NoText)
  BY DEF OutboundAccount
<1>2. c = Account(c.server, c.user, NoText)
  BY XrayScheme DEF AccountFits
<1>3. /\ x.type \in UserTypes => url /\ ~tuic
      /\ x.type \notin UserTypes => ~url /\ ~tuic
  BY XrayScheme DEF UrlTypes, UserTypes, QuicTypes
<1>4. " " \notin CharsOf(w.user) => Trim(w.user) = w.user
  BY TextKept
<1>5. CASE x.type \in UserTypes
  <2>1. w \in UrlAccount(c.server, RawUser(c.user), {NoText})
    BY <1>5 DEF XrayAccount
  <2>2. PICK u \in RawUser(c.user), p \in {NoText} : w = Account(c.server, u, p)
    BY <2>1, AccountRead
  <2>3. ~AccountGap(x) => {":", "%"} \cap CharsOf(c.user) = {} /\ " " \notin CharsOf(c.user)
    BY <1>5 DEF AccountGap
  <2>4. ~AccountGap(x) => u = c.user
    BY <2>3, UserRead
  <2>5. w.server = c.server /\ w.user = u
    BY <2>2, AccountIs
  <2> HIDE DEF c, w, url, tuic
  <2> QED
    BY <1>1, <1>2, <1>3, <1>4, <1>5, <2>3, <2>4, <2>5 DEF c
<1>6. CASE x.type \notin UserTypes
  <2>1. w = Account(c.server, c.user, NoText)
    BY <1>6 DEF XrayAccount
  <2>2. w.server = c.server /\ w.user = c.user
    BY <2>1, AccountIs
  <2> HIDE DEF c, w, url, tuic
  <2> QED
    BY <1>1, <1>2, <1>3, <1>6, <2>2 DEF c
<1> QED
  BY <1>5, <1>6

\* A Clash entry of a type sing-box has and with a text left for its account has one.
LEMMA ClashAccountTaken ==
    ASSUME NEW e, ~Lost(e), NEW k \in ClashLink(e)
    PROVE  /\ ClashAccount(e) # {}
           /\ \A l : l.scheme = k.scheme /\ l.account \in ClashAccount(e) =>
                 OutboundAccount(l) # {}
<1> DEFINE c == e.account
           coded == IF e.type \in UserTypes THEN RawUser(c.user) ELSE CodedUser(c.user)
           passes == IF e.type = "tuic" THEN CodedUser(c.pass) ELSE {NoText}
<1>1. /\ c.user # NoText
      /\ e.type = "tuic" => c.pass # NoText
      /\ e.type \in UrlTypes => ":" \notin CharsOf(c.server) /\ "/" \notin CharsOf(c.user)
                                /\ "/" \notin CharsOf(c.pass)
      /\ e.type \in UserTypes => "?" \notin CharsOf(c.user) /\ Trim(Decoded(Cut(c.user))) # NoText
      /\ e.type \in QuicTypes => Trim(c.user) # NoText
  BY DEF Lost
<1>2. ClashAccount(e) = IF e.type \in UrlTypes THEN UrlAccount(c.server, coded, passes)
                        ELSE {Account(c.server, c.user, NoText)}
  BY <1>1 DEF ClashAccount
<1>3. e.type \in UrlTypes => coded # {} /\ passes # {}
  BY <1>1, UserRead DEF UrlTypes
<1>4. ClashAccount(e) # {}
  BY <1>1, <1>2, <1>3, AccountRead
<1>5. ASSUME NEW l, l.scheme = k.scheme, l.account \in ClashAccount(e)
      PROVE  OutboundAccount(l) # {}
  <2>1. CASE e.type \in UrlTypes
    <3>1. PICK u \in coded, p \in passes : l.account = Account(c.server, u, p)
      BY <1>2, <1>5, <2>1, AccountRead
    <3>2. l.account.user = u
      BY <3>1, AccountIs
    <3>3. Trim(u) # NoText
      BY <1>1, <2>1, UserRead DEF UrlTypes
    <3>4. l.scheme \in UrlTypes
      BY <1>5, <2>1, ClashScheme DEF UrlTypes, UserTypes, QuicTypes
    <3>5. ASSUME NEW s, NEW q PROVE Account(s, Trim(u), q).user # NoText
      BY <3>3, AccountIs
    <3> QED
      BY <3>2, <3>4, <3>5 DEF OutboundAccount
  <2>2. CASE e.type \notin UrlTypes
    <3>1. l.account.user = c.user
      BY <1>2, <1>5, <2>2, AccountIs
    <3>2. l.scheme \notin UrlTypes
      BY <1>5, <2>2, ClashScheme DEF UrlTypes, UserTypes, QuicTypes
    <3>3. ASSUME NEW s, NEW q PROVE Account(s, c.user, q).user # NoText
      BY <1>1, AccountIs
    <3> QED
      BY <3>1, <3>2, <3>3 DEF OutboundAccount
  <2> QED
    BY <2>1, <2>2
<1> QED
  BY <1>4, <1>5

\* So has an Xray outbound.
LEMMA XrayAccountTaken ==
    ASSUME NEW x, ~Lost(x), NEW k \in XrayLink(x)
    PROVE  /\ XrayAccount(x) # {}
           /\ \A l : l.scheme = k.scheme /\ l.account \in XrayAccount(x) =>
                 OutboundAccount(l) # {}
<1> DEFINE c == x.account
<1>1. /\ c.user # NoText
      /\ x.type \in UserTypes =>
            /\ ":" \notin CharsOf(c.server) /\ "/" \notin CharsOf(c.user)
            /\ "?" \notin CharsOf(c.user) /\ Trim(Decoded(Cut(c.user))) # NoText
  BY DEF Lost, UrlTypes
<1>2. XrayAccount(x) = IF x.type \in UserTypes THEN UrlAccount(c.server, RawUser(c.user), {NoText})
                       ELSE {Account(c.server, c.user, NoText)}
  BY DEF XrayAccount
<1>3. x.type \in UserTypes => RawUser(c.user) # {}
  BY <1>1, UserRead
<1>4. XrayAccount(x) # {}
  BY <1>1, <1>2, <1>3, AccountRead
<1>5. ASSUME NEW l, l.scheme = k.scheme, l.account \in XrayAccount(x)
      PROVE  OutboundAccount(l) # {}
  <2>1. CASE x.type \in UserTypes
    <3>1. PICK u \in RawUser(c.user), p \in {NoText} : l.account = Account(c.server, u, p)
      BY <1>2, <1>5, <2>1, AccountRead
    <3>2. l.account.user = u
      BY <3>1, AccountIs
    <3>3. Trim(u) # NoText
      BY <1>1, <2>1, UserRead
    <3>4. l.scheme \in UrlTypes
      BY <1>5, <2>1, XrayScheme DEF UrlTypes
    <3>5. ASSUME NEW s, NEW q PROVE Account(s, Trim(u), q).user # NoText
      BY <3>3, AccountIs
    <3> QED
      BY <3>2, <3>4, <3>5 DEF OutboundAccount
  <2>2. CASE x.type \notin UserTypes
    <3>1. l.account.user = c.user
      BY <1>2, <1>5, <2>2, AccountIs
    <3>2. l.scheme \notin UrlTypes
      BY <1>5, <2>2, XrayScheme DEF UrlTypes, UserTypes, QuicTypes
    <3>3. ASSUME NEW s, NEW q PROVE Account(s, c.user, q).user # NoText
      BY <1>1, AccountIs
    <3> QED
      BY <3>1, <3>2, <3>3 DEF OutboundAccount
  <2> QED
    BY <2>1, <2>2
<1> QED
  BY <1>4, <1>5

\* A Clash entry keeps its connection and its account but for the gaps.
LEMMA ClashServerKept ==
    ASSUME NEW e, EntryTlsIsFlag(e), AccountFits(e), NEW l \in ClashProxyToUri(e),
           NEW o \in SingBoxOutbound(l)
    PROVE  /\ Differences(OutboundWire(o), EntryWire(e)) \subseteq EntryGaps(e)
           /\ o.account = e.account \/ AccountGap(e)
<1>1. PICK k \in ClashLink(e), w \in ClashAccount(e) :
          l.scheme = k.scheme /\ l.opts = k.opts /\ l.account = w
  BY LinkHalves DEF ClashProxyToUri
<1>2. PICK p \in OutboundOptions(l), a \in OutboundAccount(l) :
          o.account = a /\ OutboundWire(o) = OutboundWire(p)
  BY OutboundHalves
<1>3. p \in OutboundOptions(k)
  BY <1>1, <1>2, SameOptions
<1>4. Differences(OutboundWire(p), EntryWire(e)) \subseteq EntryGaps(e)
  BY <1>3, ClashKept
<1>5. a = e.account \/ AccountGap(e)
  BY <1>1, ClashAccountKept
<1> QED
  BY <1>2, <1>4, <1>5

\* A Clash entry is lost only for what sing-box cannot do or for its account.
LEMMA ClashServerTaken ==
    ASSUME NEW e, e.type \in TakenTypes("clash"), ~Refusable(e), ~Lost(e)
    PROVE  \E l \in ClashProxyToUri(e) : SingBoxOutbound(l) # {}
<1>1. PICK k \in ClashLink(e) : OutboundOptions(k) # {}
  BY ClashTaken
<1>2. PICK w \in ClashAccount(e) : TRUE
  BY ClashAccountTaken
<1> DEFINE l == [scheme |-> k.scheme, opts |-> k.opts, account |-> w]
<1>3. l \in ClashProxyToUri(e)
  BY DEF ClashProxyToUri, WithAccount
<1>4. l.scheme = k.scheme /\ l.opts = k.opts /\ l.account = w
  OBVIOUS
<1> HIDE DEF l
<1>5. OutboundAccount(l) # {}
  BY <1>4, ClashAccountTaken
<1>6. OutboundOptions(l) # {}
  BY <1>1, <1>4, SameOptions
<1> QED
  BY <1>3, <1>5, <1>6, BothHalves

\* An Xray outbound keeps its connection and its account but for the gaps.
LEMMA XrayServerKept ==
    ASSUME NEW x, Filled(x.opts), AccountFits(x), NEW l \in XrayOutboundToUri(x),
           NEW o \in SingBoxOutbound(l)
    PROVE  /\ Differences(OutboundWire(o), XrayWire(x)) \subseteq XrayGaps(x)
           /\ o.account = x.account \/ AccountGap(x)
<1>1. PICK k \in XrayLink(x), w \in XrayAccount(x) :
          l.scheme = k.scheme /\ l.opts = k.opts /\ l.account = w
  BY LinkHalves DEF XrayOutboundToUri
<1>2. PICK p \in OutboundOptions(l), a \in OutboundAccount(l) :
          o.account = a /\ OutboundWire(o) = OutboundWire(p)
  BY OutboundHalves
<1>3. p \in OutboundOptions(k)
  BY <1>1, <1>2, SameOptions
<1>4. Differences(OutboundWire(p), XrayWire(x)) \subseteq XrayGaps(x)
  BY <1>3, XrayKept
<1>5. a = x.account \/ AccountGap(x)
  BY <1>1, XrayAccountKept
<1> QED
  BY <1>2, <1>4, <1>5

\* An Xray outbound is lost only for what sing-box cannot do or for its account.
LEMMA XrayServerTaken ==
    ASSUME NEW x, x.type \in TakenTypes("xray"), ~Refusable(x), ~Lost(x)
    PROVE  \E l \in XrayOutboundToUri(x) : SingBoxOutbound(l) # {}
<1>1. PICK k \in XrayLink(x) : OutboundOptions(k) # {}
  BY XrayTaken
<1>2. PICK w \in XrayAccount(x) : TRUE
  BY XrayAccountTaken
<1> DEFINE l == [scheme |-> k.scheme, opts |-> k.opts, account |-> w]
<1>3. l \in XrayOutboundToUri(x)
  BY DEF XrayOutboundToUri, WithAccount
<1>4. l.scheme = k.scheme /\ l.opts = k.opts /\ l.account = w
  OBVIOUS
<1> HIDE DEF l
<1>5. OutboundAccount(l) # {}
  BY <1>4, XrayAccountTaken
<1>6. OutboundOptions(l) # {}
  BY <1>1, <1>4, SameOptions
<1> QED
  BY <1>3, <1>5, <1>6, BothHalves

\* The probe and the export of one link agree but for the gaps.
LEMMA ReadingsOfLink ==
    ASSUME NEW l, Filled(l.opts), NEW o \in SingBoxOutbound(l), NEW e \in UriToClash(l)
    PROVE  /\ Differences(OutboundWire(o), EntryWire(e)) \subseteq ExportGaps(l)
           /\ e.account = o.account \/ AccountExportGap(l)
           /\ KeyGap(l) \/ KeyMode(l) = OutboundWire(o).mode
<1>1. PICK p \in OutboundOptions(l), a \in OutboundAccount(l) :
          o.account = a /\ OutboundWire(o) = OutboundWire(p)
  BY OutboundHalves
<1>2. PICK q \in EntryOptions(l), b \in EntryAccount(l) :
          e.account = b /\ EntryWire(e) = EntryWire(q)
  BY EntryHalves
<1>3. b = a \/ AccountExportGap(l)
  BY AccountsAgree
<1>4. /\ Differences(OutboundWire(p), EntryWire(q)) \subseteq ExportGaps(l)
      /\ KeyGap(l) \/ KeyMode(l) = OutboundWire(p).mode
  BY LinkAgrees
<1> QED
  BY <1>1, <1>2, <1>3, <1>4

-----------------------------------------------------------------------------
(* Every server on its way through the conversions.                          *)

ServerKinds == {"link", "clash", "xray"}

\* A server's link, outbound and entry are what the conversions make of it.
Carried ==
    /\ input \in Inputs
    /\ stage \in {"read", "probed"} => input.kind \in ServerKinds
    /\ stage \in {"new", "read"} => outbound = {}
    /\ stage # "new" =>
          /\ input.kind = "link" => link = {input.value}
          /\ input.kind = "clash" => link = ClashProxyToUri(input.value)
          /\ input.kind = "xray" => link = XrayOutboundToUri(input.value)
    /\ stage \notin {"new", "read"} /\ input.kind \in ServerKinds =>
          outbound = UNION {SingBoxOutbound(l) : l \in link}
    /\ stage = "probed" => outbound # {}
    /\ stage = "done" /\ input.kind \in ServerKinds /\ outbound # {} =>
          answer = UNION {UriToClash(l) : l \in link}

LEMMA CarriedInit == ConversionInit => Carried
  BY DEF ConversionInit, Carried

LEMMA CarriedStep == Carried /\ [ConversionNext]_conversionVars => Carried'
<1> SUFFICES ASSUME Carried, [ConversionNext]_conversionVars PROVE Carried'
  OBVIOUS
<1>1. CASE ReadServer
  <2>1. /\ input' = input /\ outbound' = outbound /\ answer' = answer
        /\ input.kind \in ServerKinds /\ stage = "new" /\ stage' = "read" /\ outbound = {}
    BY <1>1 DEF ReadServer, ServerKinds, Carried
  <2>2. link' = CASE input.kind = "link" -> {input.value}
                  [] input.kind = "clash" -> ClashProxyToUri(input.value)
                  [] input.kind = "xray" -> XrayOutboundToUri(input.value)
    BY <1>1 DEF ReadServer
  <2>3. ASSUME input.kind = "link" PROVE link' = {input.value}
    <3>1. ~(input.kind = "clash") /\ ~(input.kind = "xray")
      BY <2>3
    <3> QED
      BY <2>2, <2>3, <3>1, Zenon
  <2>4. ASSUME input.kind = "clash" PROVE link' = ClashProxyToUri(input.value)
    <3>1. ~(input.kind = "link") /\ ~(input.kind = "xray")
      BY <2>4
    <3> QED
      BY <2>2, <2>4, <3>1, Zenon
  <2>5. ASSUME input.kind = "xray" PROVE link' = XrayOutboundToUri(input.value)
    <3>1. ~(input.kind = "link") /\ ~(input.kind = "clash")
      BY <2>5
    <3> QED
      BY <2>2, <2>5, <3>1, Zenon
  <2> QED
    BY <2>1, <2>3, <2>4, <2>5 DEF Carried
<1>2. CASE ProbeLink
  BY <1>2 DEF ProbeLink, Carried
<1>3. CASE ExportLink
  BY <1>3 DEF ExportLink, Carried
<1>4. CASE ReadDocument
  BY <1>4 DEF ReadDocument, Carried, ServerKinds
<1>5. CASE ServeMihomo
  BY <1>5 DEF ServeMihomo, Carried, ServerKinds
<1>6. CASE UNCHANGED conversionVars
  BY <1>6 DEF conversionVars, Carried
<1> QED
  BY <1>1, <1>2, <1>3, <1>4, <1>5, <1>6 DEF ConversionNext

\* However a link writes its options and its account, the probe, the export and
\* the identity take it for the same server, but for the listed gaps (sing_box_outbound_
\* from_share_link, uri_to_clash_proxy, config_dedup_key).
THEOREM TheReadingsAgree == ConversionSpec => []ReadingsAgree
<1>1. Carried => ReadingsAgree
  <2> SUFFICES ASSUME Carried, input.kind = "link", stage = "done", outbound # {}
               PROVE  /\ answer # {}
                      /\ \A l \in link, o \in outbound, e \in answer :
                            /\ Differences(OutboundWire(o), EntryWire(e)) \subseteq ExportGaps(l)
                            /\ e.account = o.account \/ AccountExportGap(l)
                            /\ KeyGap(l) \/ KeyMode(l) = OutboundWire(o).mode
    BY DEF ReadingsAgree
  <2> DEFINE v == input.value
  <2>1. v \in Links /\ link = {v}
    BY DEF Carried, Inputs
  <2>2. Filled(v.opts)
    BY <2>1, InputsFit DEF FormsFit
  <2>3. /\ outbound = UNION {SingBoxOutbound(l) : l \in link}
        /\ answer = UNION {UriToClash(l) : l \in link}
    BY DEF Carried, ServerKinds
  <2> HIDE DEF v
  <2>4. outbound = SingBoxOutbound(v) /\ answer = UriToClash(v)
    BY <2>1, <2>3
  <2>5. answer # {}
    BY <2>4, EntryBothHalves
  <2>6. \A l \in link, o \in outbound, e \in answer :
           /\ Differences(OutboundWire(o), EntryWire(e)) \subseteq ExportGaps(l)
           /\ e.account = o.account \/ AccountExportGap(l)
           /\ KeyGap(l) \/ KeyMode(l) = OutboundWire(o).mode
    BY <2>1, <2>2, <2>4, ReadingsOfLink
  <2> QED
    BY <2>5, <2>6
<1> QED
  BY <1>1, CarriedInit, CarriedStep, PTL DEF ConversionSpec

\* Whatever a Clash entry or an Xray outbound says of a server is what sing-box
\* is told, the id or the password with it, but for the listed gaps; a type the
\* feed readers take is refused only for what sing-box cannot do and for an
\* account that does not survive its coding (clash_proxy_to_uri, xray_outbound_to_uri).
THEOREM TheFeedKeepsServer == ConversionSpec => []FeedKeepsServer
<1>1. Carried => FeedKeepsServer
  <2> SUFFICES ASSUME Carried PROVE FeedKeepsServer
    OBVIOUS
  <2> DEFINE v == input.value
  <2>1. input.kind = "clash" => v \in Entries
    BY DEF Carried, Inputs
  <2>2. input.kind = "xray" => v \in Xrays
    BY DEF Carried, Inputs
  <2>3. input.kind = "clash" => EntryTlsIsFlag(v)
    BY <2>1, InputsFit, AltOne DEF FormsFit, EntryTlsIsFlag
  <2>4. input.kind = "xray" => Filled(v.opts)
    BY <2>2, InputsFit DEF FormsFit
  <2>0. input.kind \in {"clash", "xray"} => AccountFits(v)
    BY <2>1, <2>2, InputsFit DEF FormsFit
  <2>5. ASSUME NEW o \in outbound, input.kind = "clash"
        PROVE  \E l \in ClashProxyToUri(v) : o \in SingBoxOutbound(l)
    BY <2>5 DEF Carried, ServerKinds
  <2>6. ASSUME NEW o \in outbound, input.kind = "xray"
        PROVE  \E l \in XrayOutboundToUri(v) : o \in SingBoxOutbound(l)
    BY <2>6 DEF Carried, ServerKinds
  <2>7. ASSUME stage = "done", outbound = {}, input.kind = "clash"
        PROVE  \A l \in ClashProxyToUri(v) : SingBoxOutbound(l) = {}
    BY <2>7 DEF Carried, ServerKinds
  <2>8. ASSUME stage = "done", outbound = {}, input.kind = "xray"
        PROVE  \A l \in XrayOutboundToUri(v) : SingBoxOutbound(l) = {}
    BY <2>8 DEF Carried, ServerKinds
  <2> HIDE DEF v
  <2>9. ASSUME input.kind \in {"clash", "xray"}, stage = "done", outbound = {}
        PROVE  v.type \notin TakenTypes(input.kind) \/ Refusable(v) \/ Lost(v)
    <3>1. CASE input.kind = "clash"
      BY <2>7, <2>9, <3>1, ClashServerTaken
    <3>2. CASE input.kind = "xray"
      BY <2>8, <2>9, <3>2, XrayServerTaken
    <3> QED
      BY <2>9, <3>1, <3>2
  <2>10. ASSUME input.kind = "clash", NEW o \in outbound
         PROVE  /\ Differences(OutboundWire(o), EntryWire(v)) \subseteq EntryGaps(v)
                /\ o.account = v.account \/ AccountGap(v)
    BY <2>0, <2>3, <2>5, <2>10, ClashServerKept
  <2>11. ASSUME input.kind = "xray", NEW o \in outbound
         PROVE  /\ Differences(OutboundWire(o), XrayWire(v)) \subseteq XrayGaps(v)
                /\ o.account = v.account \/ AccountGap(v)
    BY <2>0, <2>4, <2>6, <2>11, XrayServerKept
  <2> QED
    BY <2>9, <2>10, <2>11 DEF FeedKeepsServer, v
<1> QED
  BY <1>1, CarriedInit, CarriedStep, PTL DEF ConversionSpec
=============================================================================
