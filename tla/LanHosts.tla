------------------------------ MODULE LanHosts ------------------------------
(* Which address of this machine the program hands to other devices           *)
(* (network.rs) and where it listens for them (server.rs).  A network is      *)
(* [route: what the five route probes answer, nics: the interfaces in the     *)
(* order the system lists them, hostname: where no interface is left it asks  *)
(* `hostname -I` (Linux), gateway: it has a default route, cached: what the   *)
(* gateway cache, up to a minute old, says of that].  The addresses of the    *)
(* interfaces are cached, too, for five seconds: `listed` is the first of     *)
(* them that will do, of now or then.                                         *)
EXTENDS Naturals, Sequences, SequencesExt

\* "lan1", "lan2" and "tun" are private IPv4 addresses, the last of a tunnel
\* or another virtual interface.
Addresses == {"lan1", "lan2", "tun", "public", "link", "v6", "loop", "any", "none"}

NetType ==
    [route: Seq(Addresses), nics: Seq([virtual: BOOLEAN, ips: Seq(Addresses)]),
     hostname: BOOLEAN, gateway: BOOLEAN, cached: BOOLEAN]

\* is_lan_reachable: IPv4 only from the private ranges, IPv6 any global one.
LanReachable(ip) == ip \in {"lan1", "lan2", "tun", "v6"}

\* Of every list of addresses only the first that will do is used.
FirstLanIp(ips) ==
    LET i == SelectInSeq(ips, LanReachable) IN IF i = 0 THEN "none" ELSE ips[i]

\* The first probe the system has a route for names the local address.
RouteLocalIp(net) ==
    LET i == SelectInSeq(net.route, LAMBDA ip : ip # "none") IN IF i = 0 THEN "none" ELSE net.route[i]

\* The parsers of `ip`, `ifconfig` and `ipconfig` skip what is virtual by name,
\* `hostname -I` has no names.
Physical(net) == {i \in DOMAIN net.nics : ~net.nics[i].virtual /\ net.nics[i].ips # <<>>}
AsksHostname(net) == net.hostname /\ Physical(net) = {}
InterfaceLanIp(net) ==
    FirstLanIp([i \in DOMAIN net.nics |->
                  IF i \in Physical(net) \/ AsksHostname(net) THEN FirstLanIp(net.nics[i].ips) ELSE "none"])

\* The address of the route comes before those of the interfaces.
DetectedLanIp(net, listed) == IF LanReachable(RouteLocalIp(net)) THEN RouteLocalIp(net) ELSE listed

\* The gateway is required of a listed interface only when there seems to be
\* one, so what refuses an address is an old answer of the cache.
GatewayAccepts(net) == net.cached \/ ~net.gateway

PrimaryLanIp(net, listed) ==
    IF LanReachable(RouteLocalIp(net)) THEN RouteLocalIp(net)
    ELSE IF GatewayAccepts(net) THEN DetectedLanIp(net, listed) ELSE "none"

\* Where the subscription is offered, "none" when nowhere.
DiscoverableHost(bind, sharing, net, listed) ==
    CASE LanReachable(bind) -> bind
      [] bind = "loop" -> IF sharing THEN PrimaryLanIp(net, listed) ELSE "none"
      [] bind = "any" -> DetectedLanIp(net, listed)
      [] OTHER -> "none"

\* The second listener beside one bound to the loopback (desired_lan_bind).
DesiredLanHost(bind, sharing, net, listed) ==
    IF sharing /\ bind = "loop" THEN PrimaryLanIp(net, listed) ELSE "none"
-----------------------------------------------------------------------------
(* What the addresses are.                                                   *)

\* A device of the local network reaches the addresses of real interfaces.
OnTheLan(net) == {ip \in Addresses : LanReachable(ip)
                    /\ \E i \in DOMAIN net.nics : ~net.nics[i].virtual /\ Contains(net.nics[i].ips, ip)}
=============================================================================
