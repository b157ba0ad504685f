-------------------------- MODULE SubscriptionFetch --------------------------
(* How a refresh loads its candidates (subscription.rs and the loading part  *)
(* of refresh_once in main.rs): the enabled sources are fetched a few at a   *)
(* time, transient failures are retried, and sources that look blocked are   *)
(* fetched again through a config that worked before, the bridge.  The       *)
(* number shown as "Fetched" travels through a queue to the state.           *)
EXTENDS Naturals, Sequences, FiniteSets, SequencesExt, FiniteSetsExt

CONSTANTS
    Keys,            \* dedup keys of the configs
    Sources,         \* the enabled sources, 1..n in configured order
    Content,         \* Content[s]: the keys the document of s holds
    Concurrency,     \* fetch_concurrency
    Attempts,        \* FETCH_RETRY_ATTEMPTS
    Stored,          \* the configs of the database, best first
    Emergency,       \* the emergency config, <<>> or one uri
    BridgeLimit,     \* BRIDGE_CANDIDATES
    PublishedLimit,  \* BRIDGE_FROM_PUBLISHED
    BridgePossible   \* active mode and a sing-box path

ASSUME FetchAssumption ==
    /\ IsFiniteSet(Sources) /\ Sources = 1 .. Cardinality(Sources)
    /\ Content \in [Sources -> SUBSET Keys] /\ \A s \in Sources : IsFiniteSet(Content[s])
    /\ Concurrency \in Nat \ {0} /\ Attempts \in Nat \ {0}
    /\ Stored \in Seq(Keys) /\ Emergency \in Seq(Range(Emergency))
    /\ BridgeLimit \in Nat /\ PublishedLimit \in Nat
    /\ BridgePossible \in BOOLEAN

\* What a failed request tells: worth another direct attempt, worth a tunnel.
\* Timeouts, refused connections and 429 are both, 5xx is only transient, 403
\* only geo-scoped, the rest (404, bad file, too large) neither.
Faults == [transient : BOOLEAN, blocked : BOOLEAN]

VARIABLES
    phase,      \* "start", "load", "bridging", "tunnel", "done" or "failed"
    mode,       \* where the candidates come from: "none", "network" or "store"
    published,  \* the configs the previous refresh verified, best first
    carried,    \* keys a preempted ping has tested
    at,         \* at[s]: where the fetch of source s is in the current pass
    attempt,    \* attempt[s]: its HTTP attempts
    blocked,    \* sources whose direct failure a tunnel may help
    arrived,    \* the sources of the pass that delivered, in order of arrival
    pool,       \* candidates for the probe: [key, from]
    seen,       \* keys that may not join the pool again
    fetched,    \* fetched_count
    successes,  \* <<source, pass that delivered it>>
    errors,     \* fetch_errors, as <<source, pass that failed>>
    bridges,    \* the bridge configs still to try
    tunnels,    \* bridge passes run so far
    deltas,     \* FetchedDelta events on their way to the state
    total       \* total_candidates, shown as "Fetched"

vars == <<phase, mode, published, carried, at, attempt, blocked, arrived, pool, seen,
          fetched, successes, errors, bridges, tunnels, deltas, total>>

Steps == {"none", "queued", "trying", "backoff", "ok", "failed"}
Candidates == [key : Keys, from : Sources \cup {0}]
Uris == Keys \cup Range(Emergency)

TypeOK ==
    /\ phase \in {"start", "load", "bridging", "tunnel", "done", "failed"}
    /\ mode \in {"none", "network", "store"}
    /\ published \in Seq(Keys) /\ carried \subseteq Keys /\ seen \subseteq Keys
    /\ at \in [Sources -> Steps]
    /\ attempt \in [Sources -> 0 .. Attempts]
    /\ blocked \subseteq Sources
    /\ arrived \in Seq(Sources)
    /\ pool \subseteq Candidates
    /\ fetched \in Nat
    /\ successes \subseteq Sources \X {"direct", "bridge"}
    /\ errors \subseteq Sources \X {"direct", "bridge"}
    /\ bridges \in Seq(Uris) /\ tunnels \in 0 .. BridgeLimit
    /\ deltas \in Seq(Nat) /\ total \in Nat

Idle == [s \in Sources |-> "none"]

Init ==
    /\ phase = "start" /\ mode = "none"
    /\ published \in {<<>>} \cup {<<k>> : k \in Keys}
    /\ carried \in SUBSET Keys
    /\ at = Idle /\ attempt = [s \in Sources |-> 0]
    /\ blocked = {} /\ arrived = <<>>
    /\ pool = {} /\ seen = {} /\ errors = {} /\ fetched = 0 /\ successes = {}
    /\ bridges = <<>> /\ tunnels = 0
    /\ deltas = <<>> /\ total = 0

(***************************************************************************)
(* One pass over a set of sources (fetch_sources_with_client).             *)
(***************************************************************************)
InFlight == {s \in Sources : at[s] \in {"trying", "backoff"}}
Queued == {s \in Sources : at[s] = "queued"}
Running == phase \in {"load", "tunnel"}

\* buffer_unordered polls the next source in order while there is room.
SourceStarts ==
    /\ Running /\ Cardinality(InFlight) < Concurrency
    /\ \E s \in Queued :
       /\ \A t \in Queued : s <= t
       /\ at' = [at EXCEPT ![s] = "trying"]
       /\ attempt' = [attempt EXCEPT ![s] = 1]
    /\ UNCHANGED <<phase, mode, published, carried, blocked, arrived, pool, seen, fetched,
                   successes, errors, bridges, tunnels, deltas, total>>

\* The keys the pass has delivered, over which "Fetched" is counted.
Delivered(order) == UNION {Content[order[i]] : i \in DOMAIN order}

SourceAnswers(s) ==
    /\ at[s] = "trying"
    /\ at' = [at EXCEPT ![s] = "ok"]
    /\ arrived' = Append(arrived, s)
    /\ deltas' = Append(deltas, Cardinality(Delivered(arrived')))
    /\ UNCHANGED <<phase, mode, published, carried, attempt, blocked, pool, seen, fetched,
                   successes, errors, bridges, tunnels, total>>

\* Transient and attempts left: wait and try again; the error is final otherwise.
Retried(s, fault) == fault.transient /\ attempt[s] < Attempts

SourceFails(s, fault) ==
    /\ at[s] = "trying"
    /\ IF Retried(s, fault)
       THEN at' = [at EXCEPT ![s] = "backoff"] /\ UNCHANGED blocked
       ELSE /\ at' = [at EXCEPT ![s] = "failed"]
            /\ blocked' = IF phase = "load" /\ fault.blocked THEN blocked \cup {s} ELSE blocked
    /\ UNCHANGED <<phase, mode, published, carried, attempt, arrived, pool, seen, fetched,
                   successes, errors, bridges, tunnels, deltas, total>>

SourceRetries(s) ==
    /\ at[s] = "backoff"
    /\ at' = [at EXCEPT ![s] = "trying"]
    /\ attempt' = [attempt EXCEPT ![s] = @ + 1]
    /\ UNCHANGED <<phase, mode, published, carried, blocked, arrived, pool, seen, fetched,
                   successes, errors, bridges, tunnels, deltas, total>>

PassOver == Running /\ Queued \cup InFlight = {}
PassFailed == {s \in Sources : at[s] = "failed"}

Keep(kept, s) ==
    kept \cup {[key |-> k, from |-> s] : k \in Content[s] \ {c.key : c \in kept}}

\* Mutant: the sources are merged in the order their answers arrived.
MergedAsArrived(order) == FoldLeft(Keep, {}, order)

\* The documents are put in configured order and deduplicated: a key that
\* several sources deliver stays with the first of them.
Merged(order) ==
    LET merged[n \in 0 .. Cardinality(Sources)] ==
            IF n = 0 THEN {}
            ELSE IF n \in Range(order) THEN Keep(merged[n - 1], n) ELSE merged[n - 1]
    IN merged[Cardinality(Sources)]

(***************************************************************************)
(* The loading phase of refresh_once.                                      *)
(***************************************************************************)
\* The bridge configs to try: the user's own, then the first published ones,
\* then those of the database, without repeats and up to the limit.
Push(list, uri) ==
    IF Len(list) < BridgeLimit /\ uri \notin Range(list) THEN Append(list, uri) ELSE list

BridgeCandidates ==
    LET known == Emergency \o SubSeq(published, 1, Min({PublishedLimit, Len(published)}))
                           \o SubSeq(Stored, 1, Min({BridgeLimit, Len(Stored)}))
        pushed[n \in 0 .. Len(known)] == IF n = 0 THEN <<>> ELSE Push(pushed[n - 1], known[n])
    IN pushed[Len(known)]

ToFetch(sources) == [s \in Sources |-> IF s \in sources THEN "queued" ELSE "none"]

\* use_cache_only: the configs of the database stand in for a fetch.
LoadsFromStore ==
    /\ phase = "start" /\ phase' = "done"
    /\ mode' = "store"
    /\ seen' = Range(Stored) \cup carried
    /\ pool' = {[key |-> k, from |-> 0] : k \in Range(Stored) \ carried}
    /\ total' = fetched
    /\ UNCHANGED <<published, carried, at, attempt, blocked, arrived, fetched,
                   successes, errors, bridges, tunnels, deltas>>

LoadBegins ==
    /\ phase = "start"
    /\ \/ phase' = "failed" /\ UNCHANGED <<mode, at>>   \* no HTTP client
       \/ phase' = "load" /\ mode' = "network" /\ at' = ToFetch(Sources)
    /\ UNCHANGED <<published, carried, attempt, blocked, arrived, pool, seen, fetched,
                   successes, errors, bridges, tunnels, deltas, total>>

LoadEnds ==
    LET loaded == Merged(arrived) IN
    /\ phase = "load" /\ PassOver
    /\ fetched' = Cardinality(loaded) /\ total' = fetched'
    /\ successes' = Range(arrived) \X {"direct"}
    /\ errors' = PassFailed \X {"direct"}
    /\ seen' = {c.key : c \in loaded} \cup carried
    /\ pool' = {c \in loaded : c.key \notin carried}
    /\ bridges' = IF blocked # {} /\ BridgePossible THEN BridgeCandidates ELSE <<>>
    /\ phase' = IF bridges' = <<>> THEN "done" ELSE "bridging"
    /\ UNCHANGED <<mode, published, carried, at, attempt, blocked, arrived, tunnels, deltas>>

NextBridge ==
    /\ bridges' = Tail(bridges)
    /\ phase' = IF bridges' = <<>> THEN "done" ELSE "bridging"

\* A sing-box runs with the bridge config; the blocked sources go through it.
TunnelOpens ==
    /\ phase = "bridging"
    /\ tunnels' = tunnels + 1
    /\ phase' = "tunnel" /\ at' = ToFetch(blocked) /\ arrived' = <<>>
    /\ UNCHANGED <<mode, published, carried, attempt, blocked, pool, seen, fetched,
                   successes, errors, bridges, deltas, total>>

TunnelRefused ==
    /\ phase = "bridging"
    /\ tunnels' = tunnels + 1
    /\ NextBridge
    /\ UNCHANGED <<mode, published, carried, at, attempt, blocked, arrived, pool, seen,
                   fetched, successes, errors, deltas, total>>

\* Mutant: the errors of the retry replace all errors of the load.
RetryErrorsOnly(delivered, failedAgain) == failedAgain \X {"bridge"}

\* A source the bridge delivered is no error any more, one that failed again
\* has the new error, one that was not tried keeps its own.
MergedErrors(delivered, failedAgain) ==
    {e \in errors : e[1] \notin delivered \cup failedAgain} \cup (failedAgain \X {"bridge"})

TunnelDelivers ==
    LET fresh == {c \in Merged(arrived) : c.key \notin seen} IN
    /\ phase = "tunnel" /\ PassOver /\ arrived # <<>>
    /\ phase' = "done"
    /\ pool' = pool \cup fresh
    /\ seen' = seen \cup {c.key : c \in fresh}
    /\ fetched' = fetched + Cardinality(fresh) /\ total' = fetched'
    /\ successes' = successes \cup (Range(arrived) \X {"bridge"})
    /\ errors' = MergedErrors(Range(arrived), PassFailed)
    /\ UNCHANGED <<mode, published, carried, at, attempt, blocked, arrived, bridges,
                   tunnels, deltas>>

\* Mutant: a bridge that brought nothing is tried again.
TunnelTriedAgain ==
    /\ phase = "tunnel" /\ PassOver /\ arrived = <<>>
    /\ phase' = "bridging" /\ tunnels' = 1
    /\ UNCHANGED <<mode, published, carried, at, attempt, blocked, arrived, pool, seen,
                   fetched, successes, errors, bridges, deltas, total>>

TunnelUseless ==
    /\ phase = "tunnel" /\ PassOver /\ arrived = <<>>
    /\ NextBridge
    /\ UNCHANGED <<mode, published, carried, at, attempt, blocked, arrived, pool, seen,
                   fetched, successes, errors, tunnels, deltas, total>>

\* The forwarder writes the counts to the state, whenever it gets to them.
DeltaShown ==
    /\ deltas # <<>>
    /\ total' = Head(deltas) /\ deltas' = Tail(deltas)
    /\ UNCHANGED <<mode, phase, published, carried, at, attempt, blocked, arrived, pool,
                   seen, fetched, successes, errors, bridges, tunnels>>

Fetching ==
    \/ LoadsFromStore \/ LoadBegins \/ LoadEnds
    \/ SourceStarts
    \/ \E s \in Sources :
           \/ SourceAnswers(s) \/ SourceRetries(s)
           \/ \E fault \in Faults : SourceFails(s, fault)
    \/ TunnelOpens \/ TunnelRefused \/ TunnelDelivers \/ TunnelUseless

Next == Fetching \/ DeltaShown
Spec == Init /\ [][Next]_vars

\* The task is scheduled, and every request ends: the client has a timeout.
FairSpec == Spec /\ WF_vars(Fetching)

(***************************************************************************)
(* Properties.                                                             *)
(***************************************************************************)
Loaded == phase = "done" /\ mode = "network"
DeliveredBy(pass) == {s \in Sources : <<s, pass>> \in successes}
KeysOf(sources) == UNION {Content[s] : s \in sources}

\* What the sources delivered is probed, and nothing else: every key once,
\* without the keys the preempted ping has tested, and credited to the first
\* source in the configured order that delivered it - first directly, then
\* through the bridge - in whatever order the answers, the retries and the
\* bridges came.
First(k, sources) == Min({s \in sources : k \in Content[s]})
PoolIsExact ==
    Loaded =>
      LET direct == DeliveredBy("direct")
          bridged == DeliveredBy("bridge")
      IN pool = {[key |-> k, from |-> First(k, direct)] : k \in KeysOf(direct) \ carried}
                \cup {[key |-> k, from |-> First(k, bridged)]
                          : k \in KeysOf(bridged) \ (KeysOf(direct) \cup carried)}

\* Every enabled source is accounted for: it has delivered and shows no error,
\* or it shows exactly one, that of its last attempt.
SourcesAccounted ==
    Loaded => \A s \in Sources :
        LET shown == {e \in errors : e[1] = s} IN
        IF s \in DeliveredBy("direct") \cup DeliveredBy("bridge")
        THEN shown = {} ELSE Cardinality(shown) = 1

\* Loading ends, however many sources time out and however many bridges are
\* dead: the attempts and the bridges run out.
LoadingEnds == phase = "start" ~> phase \in {"done", "failed"}

\* main.rs:1410 "the Fetched count is final when the probe starts": once the
\* queued counts are written, the number shown is the number fetched.  TLC
\* refutes it (README, Divergences), no run checks it.
FetchedIsFinal == Loaded /\ deltas = <<>> => total = fetched
=============================================================================
