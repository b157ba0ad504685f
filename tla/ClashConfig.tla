---------------------------- MODULE ClashConfig ----------------------------
(***************************************************************************)
(* The /mihomo export: generate_clash_config over the links that are       *)
(* served (convert.rs, server.rs).  A served item is [link, endpoint,      *)
(* name].  A name is a sequence: the text a feed gave, followed by the     *)
(* numbers the export appended, so that <<"a", 2>> is "a (2)" whoever      *)
(* wrote it.                                                               *)
(***************************************************************************)
EXTENDS Integers, FeedConversion, SequencesExt, Filtering

CONSTANT CountryOf(_)       \* the countries whose keywords a name contains

(* What is offered: the first top_n of the ranking that answered.          *)
ServedItems(ranked, topN) ==
    LET served == Kept(ranked, {item \in ToSet(ranked) : item.reachable})
    IN  SubSeq(served, 1, IF topN < Len(served) THEN topN ELSE Len(served))

(* Mutant: the endpoint of a refused link is remembered.                   *)
AddProxyMarksRefused(acc, item) ==
    LET count == 1 + (IF item.name \in DOMAIN acc.names
                      THEN acc.names[item.name] ELSE 0)
        given == IF count > 1 THEN Append(item.name, count) ELSE item.name
        marked == [acc EXCEPT !.endpoints = @ \cup {item.endpoint}]
    IN  IF UriToClash(item.link) = {} \/ item.endpoint \in acc.endpoints THEN marked
        ELSE [marked EXCEPT !.names = Option(item.name, count) ++ @,
                            !.proxies = Append(@, [name |-> given,
                                                   endpoint |-> item.endpoint])]

(* One link: refused ones and known endpoints are skipped, a name already  *)
(* given gets its count.                                                   *)
AddProxy(acc, item) ==
    IF UriToClash(item.link) = {} \/ item.endpoint \in acc.endpoints THEN acc
    ELSE LET count == 1 + (IF item.name \in DOMAIN acc.names
                           THEN acc.names[item.name] ELSE 0)
             given == IF count > 1 THEN Append(item.name, count) ELSE item.name
         IN  [endpoints |-> acc.endpoints \cup {item.endpoint},
              names |-> [n \in DOMAIN acc.names \cup {item.name} |->
                            IF n = item.name THEN count ELSE acc.names[n]],
              proxies |-> Append(acc.proxies,
                            [name |-> given, endpoint |-> item.endpoint])]

Auto == <<"Auto">>
Manual == <<"Manual">>
Regions == <<"Regions">>
Direct == <<"DIRECT">>

DetectCountries(proxyNames) ==
    LET present == UNION {CountryOf(n) : n \in proxyNames}
    IN  IF present = {} THEN {<<"OTHER">>} ELSE present

(* Each group with the names it lists; a country group selects by filter.  *)
ProxyGroups(proxyNames) ==
    LET countries == DetectCountries(proxyNames)
        regions == IF \E a, b \in countries : a # b THEN {Regions} ELSE {}
    IN  [g \in {Manual, Auto} \cup regions \cup countries |->
            IF g = Manual THEN {Auto, Direct} \cup regions
            ELSE IF g = Auto THEN proxyNames
            ELSE IF g \in regions THEN countries \cup {Auto}
            ELSE {}]

(* The groups the rules send traffic to.                                   *)
ClashRules == {Manual, Direct}

(* Without a usable proxy the groups are left out and the rules are not.   *)
GenerateClashConfig(items) ==
    LET empty == [endpoints |-> {}, names |-> NoOpts, proxies |-> <<>>]
        after[n \in 0 .. Len(items)] ==
            IF n = 0 THEN empty ELSE AddProxy(after[n - 1], items[n])
        acc == after[Len(items)]
        proxyNames == {acc.proxies[i].name : i \in DOMAIN acc.proxies}
    IN  [proxies |-> acc.proxies,
         groups |-> IF acc.proxies = <<>> THEN NoOpts ELSE ProxyGroups(proxyNames),
         rules |-> ClashRules]

=============================================================================
