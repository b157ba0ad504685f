----------------------------- MODULE MCSharing -----------------------------
(* Sharing on small instances.                                               *)
EXTENDS Sharing

Nic(virtual, ips) == [virtual |-> virtual, ips |-> ips]
Net(route, nics, gateway, cached) ==
    [route |-> route, nics |-> nics, hostname |-> TRUE, gateway |-> gateway, cached |-> cached]

\* A home network; one whose route is a tunnel; a public address with a LAN
\* beside it, with and without a stale answer on the gateway; only a tunnel,
\* which `hostname -I` names.
MCNets ==
    {Net(<<"lan1">>, <<Nic(FALSE, <<"lan1">>), Nic(FALSE, <<"lan2">>)>>, TRUE, TRUE),
     Net(<<"none", "tun">>, <<Nic(TRUE, <<"tun">>), Nic(FALSE, <<"lan1">>)>>, TRUE, TRUE),
     Net(<<"none", "public">>, <<Nic(FALSE, <<"public", "link", "lan2">>)>>, TRUE, TRUE),
     Net(<<"none", "public">>, <<Nic(FALSE, <<"public", "link", "lan2">>)>>, TRUE, FALSE),
     Net(<<"none">>, <<Nic(TRUE, <<"tun">>)>>, FALSE, FALSE)}

Config(bind, port, proxyPort, protect, token) ==
    [bind |-> bind, port |-> port, sharing |-> FALSE, proxy |-> "off",
     proxyPort |-> proxyPort, protect |-> protect, token |-> token]
Usual == Config("loop", 1, 2, TRUE, "plain")
MCConfigs == {Usual, Config("any", 1, 2, TRUE, "reserved"), Config("lan1", 2, 1, FALSE, "reserved")}

World(c, n, b, opened, found) ==
    [config |-> c, net |-> n, backend |-> b, active |-> TRUE, opened |-> opened, files |-> found,
     changes |-> 1, starts |-> 1, crashes |-> 1]
Home == Net(<<"lan1">>, <<Nic(FALSE, <<"lan1">>), Nic(FALSE, <<"lan2">>)>>, TRUE, TRUE)
OnLan(c) == [c EXCEPT !.proxy = "lan"]
\* Both firewalls with an offered proxy, with the most changes and with a
\* restart; every network and way to listen; every data directory.
MCWorlds ==
    {World(OnLan(Usual), Home, b, {}, {}) : b \in {"ufw", "netsh"}}
    \cup {[World(Usual, Home, b, opened, {}) EXCEPT !.changes = 2, !.crashes = 0] :
             b \in {"ufw", "netsh"}, opened \in {{}, {1}}}
    \cup {[World(Usual, Home, b, {1}, {}) EXCEPT !.starts = 2, !.crashes = 0] : b \in {"ufw", "netsh"}}
    \cup {[World(Usual, Home, "ufw", {1}, {}) EXCEPT !.active = FALSE],
          World(OnLan(Usual), Home, "other", {}, {})}
    \cup {[World(OnLan(c), n, "ufw", {}, {}) EXCEPT !.crashes = 0] : c \in MCConfigs, n \in MCNets}
    \cup {World(Usual, Home, b, {}, f) : b \in {"ufw", "netsh"}, f \in
            {{"config", "db", "cache/db", "geoip", "appdir"}, {"db", "geoip", "cache/db", "cache/foreign"},
             {"geoip", "foreign"}, {"db", "appdir", "exe"}}}
=============================================================================
