------------------------------ MODULE Sharing ------------------------------
(* What the machine offers to the local network and how it takes it back:    *)
(* the switches for LAN sharing and the proxy with their firewall rules       *)
(* (Firewall), the listeners (server.rs), the addresses and links handed out  *)
(* (LanHosts, qr.rs, QrSheet), starts, crashes and the uninstaller (main.rs). *)
EXTENDS Firewall, LanHosts, QrSheet

CONSTANTS
    Configs,    \* preferences an edit may set, the switches apart
    Nets,       \* the networks of the machine
    CodeSizes,  \* sizes of the QR codes the links need
    Worlds      \* what there is at first, and bounds: [config, net, backend, active,
                \* opened, files, changes, starts, crashes]

\* A token has characters a query does not keep ("&", "#", "+", "%41"), or not.
Tokens == {"none", "plain", "reserved"}

\* The ports differ, and what is protected has a token: a configuration that is
\* loaded or edited does (Terminal!ProtectedHasToken).
ConfigType ==
    {c \in [bind: Addresses, port: Ports, proxyPort: Ports, sharing: BOOLEAN,
            proxy: {"off", "local", "lan"}, protect: BOOLEAN, token: Tokens] :
       c.port # c.proxyPort /\ (c.protect => c.token # "none")}

\* What the uninstaller may find; "foreign", "cache/foreign" and the directory
\* of a program put there by hand ("exe") are not the program's.
Artifacts == {"config", "db", "wal", "cache/db", "geoip", "QRCodes", "appdir", "exe",
              "foreign", "cache/foreign"}

ASSUME ActorsKnown == {"tui", "web", "startup"} \subseteq Actors
\* The smallest and the largest QR code.
ASSUME SizesKnown == CodeSizes \subseteq 21..177
ASSUME ConfigsKnown == Configs \subseteq ConfigType
\* The local address of a route is one of a listed interface, but for a tunnel's.
ASSUME NetsKnown ==
    \A n \in Nets :
       n \in NetType
       /\ \A i \in DOMAIN n.route : LanReachable(n.route[i]) => n.route[i] \in OnTheLan(n) \cup {"tun"}
ASSUME WorldsKnown ==
    \A w \in Worlds :
       /\ w.config \in ConfigType /\ w.net \in Nets /\ w.files \subseteq Artifacts
       /\ w.backend \in {"ufw", "netsh", "other"} /\ w.active \in BOOLEAN /\ w.opened \subseteq Ports

VARIABLES
    running,  \* the service runs
    config,   \* RuntimeConfig and the config of the channel
    listen,   \* the address of the main listener, fixed at the start
    lan,      \* the host of the listener beside it, "none" without
    net,      \* the network of the machine, see LanHosts
    listed,   \* INTERFACE_IP_CACHE, see LanHosts
    todo,     \* rules the thread of the start-up has still to apply
    sheet,    \* the links handed out since something they depend on changed: [cards,
              \* codes, fresh: the interfaces were listed as they are]
    files,    \* the data directory, and the one around it if it is the program's own
    strange,  \* of them, those the program did not make
    leaving,  \* the uninstaller: "no", "files", "done" or "error"
    targets,  \* what it will remove
    changes, starts, crashes \* of switches, settings, network and user's rules, that may still come

offer == <<running, config, listen, lan, net, listed, todo>>
disk == <<files, strange, leaving, targets>>
bounds == <<changes, starts, crashes>>
vars == <<system, firewall, offer, sheet, disk, bounds>>

NoSheet == [cards |-> <<>>, codes |-> <<>>, fresh |-> TRUE]
NoListen == [host |-> "none", port |-> 0]

Init ==
    /\ \E w \in Worlds :
          /\ FirewallInit(w.backend, w.active, w.opened)
          /\ config = w.config /\ net = w.net /\ files = w.files
          /\ changes = w.changes /\ starts = w.starts /\ crashes = w.crashes
    /\ running = FALSE /\ listen = NoListen /\ lan = "none" /\ listed = "none" /\ todo = <<>>
    /\ sheet = NoSheet /\ strange = files \cap {"foreign", "cache/foreign", "exe"}
    /\ leaving = "no" /\ targets = {}

\* What was handed out is remembered until something it depends on changes.
Passes ==
    /\ UNCHANGED system
    /\ sheet' = IF UNCHANGED <<running, config, listen, net, rules, record>> THEN sheet ELSE NoSheet

Changes == changes > 0 /\ changes' = changes - 1 /\ UNCHANGED <<starts, crashes>>
-----------------------------------------------------------------------------
(* The service.                                                              *)

SubscriptionRule(c) == [port |-> c.port, name |-> "subscription"]
ProxyRule(c) == [port |-> c.proxyPort, name |-> "proxy"]

\* The switch may come back otherwise than it was left: set back in the
\* terminal to what it was at the start, it is not stored (Terminal).  An
\* address that is not this machine's cannot be bound.
Starts ==
    /\ ~running /\ leaving = "no"
    /\ \E on \in BOOLEAN :
          /\ config' = [config EXCEPT !.sharing = on]
          /\ todo' = (IF on THEN <<SubscriptionRule(config)>> ELSE <<>>)
                     \o (IF config.proxy = "lan" THEN <<ProxyRule(config)>> ELSE <<>>)
    /\ config.bind \in {"loop", "any"} \cup OnTheLan(net)
    /\ running' = TRUE /\ listen' = [host |-> config.bind, port |-> config.port]
    /\ listed' = InterfaceLanIp(net)
    /\ files' = files \cup {"db", "wal"}
    /\ starts > 0 /\ starts' = starts - 1
    /\ UNCHANGED <<firewall, lan, net, strange, leaving, targets, changes, crashes>> /\ Passes

\* The thread that makes the record agree with the preferences again.
StartupApplies ==
    /\ todo # <<>> /\ Begins("startup", todo[1].port, todo[1].name, TRUE)
    /\ todo' = Tail(todo)
    /\ UNCHANGED <<running, config, listen, lan, net, listed, disk, bounds>> /\ Passes

Down == running' = FALSE /\ listen' = NoListen /\ lan' = "none" /\ todo' = <<>>
\* SQLite takes its log away with the last connection.
Stops ==
    /\ running /\ Quiet /\ todo = <<>> /\ Down
    /\ files' \in {files, files \ {"wal"}}
    /\ UNCHANGED <<firewall, config, net, listed, strange, leaving, targets, bounds>> /\ Passes
Crashes ==
    /\ running /\ Down /\ Interrupted
    /\ crashes > 0 /\ crashes' = crashes - 1
    /\ UNCHANGED <<config, net, listed, disk, changes, starts>> /\ Passes

\* activate_main of the terminal, api_sharing and api_proxy_mode: saved and
\* published first.  The terminal switches its own copy, whose switch may
\* stand otherwise than the live one.
SwitchesSharing(a) ==
    /\ running /\ Idle(a)
    /\ \E on \in IF a = "web" THEN {~config.sharing} ELSE BOOLEAN :
          /\ config' = [config EXCEPT !.sharing = on]
          /\ Begins(a, config.port, "subscription", on)
    /\ Changes /\ UNCHANGED <<running, listen, lan, net, listed, todo, disk>> /\ Passes
SwitchesProxy(a) ==
    /\ running /\ Idle(a)
    /\ \E mode \in {"off", "local", "lan"} :
          /\ config' = [config EXCEPT !.proxy = mode]
          /\ Begins(a, config.proxyPort, "proxy", mode = "lan")
    /\ Changes /\ UNCHANGED <<running, listen, lan, net, listed, todo, disk>> /\ Passes

\* A setting of the dashboard or the terminal, the switches among them: the
\* firewall and the main listener stay as they are.
Edited(c) == [c EXCEPT !.sharing = config.sharing, !.proxy = config.proxy]
Edits ==
    /\ running
    /\ config' \in {Edited(c) : c \in Configs} \cup {[config EXCEPT !.sharing = ~@]}
                   \cup {[config EXCEPT !.proxy = mode] : mode \in {"off", "local", "lan"}}
    /\ Changes /\ UNCHANGED <<firewall, running, listen, lan, net, listed, todo, disk>> /\ Passes

\* serve_lan_sharing, once a second.
Desired == DesiredLanHost(listen.host, config.sharing, net, listed)
LanTick ==
    /\ running /\ lan' = Desired /\ lan' # lan
    /\ UNCHANGED <<firewall, running, config, listen, net, listed, todo, disk, bounds>> /\ Passes

NetChanges ==
    /\ net' \in Nets \ {net} /\ Changes
    /\ UNCHANGED <<firewall, running, config, listen, lan, listed, todo, disk>> /\ Passes
\* os_interface_ips, called with a cache that is five seconds old.
ListsInterfaces ==
    /\ running /\ listed' = InterfaceLanIp(net) /\ listed' # listed
    /\ UNCHANGED <<firewall, running, config, listen, lan, net, todo, disk, bounds>> /\ Passes
UserActs == (\E p \in Ports : UserOpens(p)) /\ Changes /\ UNCHANGED <<offer, disk>> /\ Passes
-----------------------------------------------------------------------------
(* Links.                                                                    *)

Host(c) == DiscoverableHost(c.bind, c.sharing, net, listed)
\* subscription_url: the token is part of the link, as it is.
Card(kind, host, port) == [kind |-> kind, host |-> host, port |-> port, token |-> config.token]

PlanSubscription ==
    IF config.sharing /\ Host(config) # "none" /\ AllowsPort(config.port)
      THEN <<Card("subscription", Host(config), config.port)>> ELSE <<>>
\* The proxy's link needs an address even when the subscription has none.
PlanProxy ==
    LET host == IF Host(config) # "none" THEN Host(config) ELSE PrimaryLanIp(net, listed)
    IN IF config.proxy = "lan" /\ host # "none" /\ AllowsPort(config.proxyPort)
         THEN <<Card("proxy", host, config.proxyPort)>> ELSE <<>>
Plan == PlanSubscription \o PlanProxy
Fresh == listed = InterfaceLanIp(net)

\* generate_and_save, of the terminal and of api_qr_generate: without a card,
\* or with a code too large, the old sheet stays.
Draws ==
    /\ running /\ leaving = "no"
    /\ \E codes \in [DOMAIN Plan -> CodeSizes] :
          /\ Fits(codes)
          /\ sheet' = [cards |-> Plan, codes |-> codes, fresh |-> Fresh]
    /\ files' = files \cup {"QRCodes"}
    /\ UNCHANGED <<system, firewall, offer, strange, leaving, targets, bounds>>

\* api_share_urls: the firewall is not asked.
Copies ==
    /\ running /\ config.sharing /\ Host(config) # "none"
    /\ sheet' = [cards |-> <<Card("link", Host(config), config.port)>>, codes |-> <<>>, fresh |-> Fresh]
    /\ UNCHANGED <<system, firewall, offer, disk, bounds>>
-----------------------------------------------------------------------------
(* The uninstaller (`--uninstall`), when the service is down.                *)

\* Mutant: the log beside the database is not known.
KnownWithoutLog == {"config", "db", "cache/db", "geoip"}

\* is_known_app_root_entry, is_known_cache_entry.  The record counts as known.
KnownEntries == {"config", "db", "wal", "cache/db", "geoip"}
Root == files \ {"appdir", "exe"}

\* installed_app_dir_uninstall_target, contains_only_known_app_artifacts,
\* known_app_root_targets
UninstallTargets ==
    IF Root \subseteq KnownEntries
      THEN Root \cup {"root"} \cup (IF "exe" \in files THEN {} ELSE files \cap {"appdir"})
      ELSE (Root \cap {"config", "db", "cache/db"}) \cup (IF record = {} THEN {} ELSE {"record"})

\* The targets are named before the rules are removed; a rule that cannot be
\* removed ends it there.
UninstallsRules ==
    /\ ~running /\ leaving = "no"
    /\ \E failing \in SUBSET record :
          /\ RemovesOwned(failing)
          /\ IF failing = {} THEN leaving' = "files" /\ targets' = UninstallTargets
                             ELSE UNCHANGED <<leaving, targets>>
    /\ UNCHANGED <<offer, files, strange, bounds>> /\ Passes

\* The record is gone with its last rule, and a target that is not there any
\* more is an error, by then with everything else removed.
UninstallsFiles ==
    /\ leaving = "files"
    /\ files' = files \ targets
    /\ leaving' = IF "record" \in targets THEN "error" ELSE "done"
    /\ UNCHANGED <<firewall, offer, strange, targets, bounds>> /\ Passes
-----------------------------------------------------------------------------
Applies == (\E a \in Actors : ApplyStep(a)) /\ UNCHANGED <<offer, disk, bounds>> /\ Passes
HandsOut == Draws \/ Copies
Happens ==
    \/ Starts \/ StartupApplies \/ Stops \/ Crashes
    \/ (\E a \in {"tui", "web"} : SwitchesSharing(a) \/ SwitchesProxy(a))
    \/ Edits \/ LanTick \/ ListsInterfaces \/ NetChanges \/ UserActs \/ Applies
    \/ UninstallsRules \/ UninstallsFiles

Next == HandsOut \/ Happens
Spec == Init /\ [][Next]_vars
-----------------------------------------------------------------------------
(* Properties.                                                               *)

\* The program knows its own rules and only those, whoever switched what and
\* however the calls of the terminal, the dashboard and the start-up fell
\* between each other: no rule of the user's is ever removed, and between the
\* calls everything the program opened is on its record, also what it opened
\* for a port that was changed since (main.rs:352-357).  On Linux the record
\* has nothing else.  `upset` holds what this needs, none of which the code
\* rules out: no two calls for one port at once, no entry lost between the
\* reading and the writing of two calls, none cut off between a rule and its
\* entry, no rule of the user's for a port a call is busy with, and on Windows
\* no port that goes from the one purpose to the other, whose rule gets no
\* entry then.  A ufw that is switched off does not list its rules, and the
\* user's are taken for new ones.
RulesAccounted ==
    ~upset /\ (backend = "ufw" => active) =>
        /\ users \subseteq rules
        /\ Quiet /\ leaving = "no" => rules \ users \subseteq {RuleOf(e) : e \in record}
        /\ Quiet /\ backend = "ufw" => {RuleOf(e) : e \in record} \cap users = {}
                                        /\ {RuleOf(e) : e \in record} \subseteq rules

\* What was handed out is answered, until something changes: a device that
\* scans a card or opens a link finds the machine at the address, the port
\* open, a listener on it that lets it in with the token of the link.  The
\* exceptions: the address was edited, or lost, since the start, which bound
\* its listener for good; the system routes through a tunnel, whose address
\* the link gets, or it has none but virtual interfaces, of which `hostname -I`
\* names one; the interfaces had changed in the five seconds before and the
\* link was made from those of before; an entry whose rule is not there any
\* more, which on Windows the removal by name leaves when the port was changed;
\* and a token with characters that the server, which decodes the query, does
\* not get back from the link.
Anchored == listen = [host |-> config.bind, port |-> config.port]
            /\ listen.host \in {"loop", "any"} \cup OnTheLan(net)
Backed == IF backend = "netsh" THEN record \subseteq rules ELSE Quiet /\ ~upset
Virtual == RouteLocalIp(net) = "tun" \/ AsksHostname(net)

\* The token the server gets from `?token=` (Query<AuthQuery>).
Received(token) == IF token = "reserved" THEN "none" ELSE token
Answered(card) ==
    /\ card.host \in OnTheLan(net)
    /\ card.kind # "link" => PortOpen(card.port)
    /\ card.kind # "proxy" =>
          /\ config.sharing
          /\ config.protect /\ config.token # "reserved" => Received(card.token) = config.token
          /\ card.port = listen.port
          /\ listen.host \in {card.host, "any"} \/ lan = card.host
CardsAnswer ==
    running /\ lan = Desired /\ Anchored /\ Backed /\ ~Virtual /\ sheet.fresh
        => \A i \in DOMAIN sheet.cards : Answered(sheet.cards[i])

\* A sheet that was drawn can be scanned, whatever the lengths of its links:
\* every code stands with its quiet zone inside its own card and above the
\* captions, which are no wider than the card for an IPv4 address, and the
\* cards inside the sheet and beside each other (qr.rs:8-10, 297-370).
SheetFits ==
    LET codes == sheet.codes
    IN \A i \in DOMAIN codes :
          LET x == CardX(codes, i) + Border IN
          /\ CodeX(codes, i) >= x
          /\ CodeX(codes, i) + CodeSide(codes, i) <= x + CardW(Len(codes)) - 2 * Border
          /\ CodeY(codes, i) >= CardY + Border
          /\ CodeY(codes, i) + CodeSide(codes, i) <= CaptionY
          /\ \A width \in {TextWidth(16, 6, TRUE), TextWidth(21, 4, FALSE)} :
                /\ CaptionX(codes, i, width) >= x
                /\ CaptionX(codes, i, width) + width <= x + CardW(Len(codes)) - 2 * Border
          /\ CardX(codes, i) + CardW(Len(codes)) <= SheetWidth
          /\ i < Len(codes) => CardX(codes, i) + CardW(Len(codes)) < CardX(codes, i + 1)

\* The uninstaller takes what is the program's and nothing else: no file of
\* somebody else's, and no rule or file of the program stays, also after a
\* crash, a failed removal of a rule or a change of the port.  Beside a file
\* it does not know it leaves the log of the database, the country database
\* and the QR sheet, which it does not know either.
UninstallIsExact ==
    leaving \in {"done", "error"} =>
        LET mixed == strange \cap {"foreign", "cache/foreign"} # {} \/ "QRCodes" \in files
        IN /\ strange \subseteq files
           /\ files \ strange \subseteq
                (IF mixed THEN {"wal", "geoip", "QRCodes", "appdir"} ELSE {})
                \cup (IF "exe" \in strange THEN {"appdir"} ELSE {})
           /\ ~upset /\ (backend = "ufw" => active) => rules = users
=============================================================================
