----------------------- MODULE SubscriptionFetchProofs -----------------------
(* The account of the sources and the pool, for any number of sources and    *)
(* any content, concurrency, attempts and bridges: whatever order answers,   *)
(* retries and bridges come in, a source has delivered or shows one error,   *)
(* and what is probed is what the sources delivered, every key once.  That   *)
(* the merge of a pass does not depend on the order of arrival is proved by  *)
(* induction on the sources merged.  The last two sections go on to what the *)
(* parser makes of a source's document, and what the export makes of the     *)
(* servers that answered (Conversions), whose loops need the same induction. *)
EXTENDS SubscriptionFetch, Conversions, Filtering, FiniteSetTheorems, SequenceTheorems, WellFoundedInduction, TLAPS

Passes == {"direct", "bridge"}
Delivering == DeliveredBy("direct") \cup DeliveredBy("bridge")
ErrorsOf(s) == {e \in errors : e[1] = s}
Answered == {s \in Sources : at[s] = "ok"}

Typed ==
    /\ at \in [Sources -> Steps] /\ blocked \subseteq Sources /\ arrived \in Seq(Sources)
    /\ successes \subseteq Sources \X Passes /\ errors \subseteq Sources \X Passes

\* The sources on the list of arrivals are those that answered in this pass.
Arrivals ==
    /\ phase = "start" => arrived = <<>>
    /\ Running => Range(arrived) = Answered

\* Every source is in the pass of the load, every blocked one in a tunnel's.
Enrolled ==
    /\ phase = "start" => blocked = {} /\ \A s \in Sources : at[s] = "none"
    /\ phase = "load" => mode = "network" /\ \A s \in Sources : at[s] # "none" /\ (s \in blocked => at[s] = "failed")
    /\ phase = "tunnel" => \A s \in Sources : at[s] # "none" <=> s \in blocked

\* From the end of the load on every source is accounted for, and only those
\* without success go through a bridge.
Accounting ==
    /\ phase \in {"bridging", "tunnel"} => mode = "network" /\ blocked \cap Delivering = {}
    /\ phase \in {"bridging", "tunnel", "done"} /\ mode = "network" =>
          \A s \in Sources :
             IF s \in Delivering THEN ErrorsOf(s) = {} ELSE \E pass \in Passes : ErrorsOf(s) = {<<s, pass>>}

Inv == Typed /\ Arrivals /\ Enrolled /\ Accounting
-----------------------------------------------------------------------------
LEMMA RangeOfAppend ==
    ASSUME NEW S, NEW list \in Seq(S), NEW e \in S
    PROVE  Append(list, e) \in Seq(S) /\ Range(Append(list, e)) = Range(list) \cup {e}
<1>1. /\ Append(list, e) \in Seq(S) /\ Len(Append(list, e)) = Len(list) + 1
      /\ \A i \in 1 .. Len(list) : Append(list, e)[i] = list[i]
      /\ Append(list, e)[Len(list) + 1] = e
  BY AppendProperties
<1>2. /\ DOMAIN list = 1 .. Len(list) /\ Len(list) \in Nat
      /\ DOMAIN Append(list, e) = 1 .. Len(list) + 1
  BY <1>1, LenProperties
<1>3. DOMAIN Append(list, e) = DOMAIN list \cup {Len(list) + 1}
  BY <1>2
<1> QED
  BY <1>1, <1>2, <1>3 DEF Range

\* When a pass is over a source of it has answered or failed.
LEMMA EndOfPass ==
    ASSUME Typed, PassOver, NEW s \in Sources
    PROVE  at[s] \in {"none", "ok", "failed"}
  BY DEF Typed, PassOver, Queued, InFlight, Steps

LEMMA InvInit == Init => Inv
<1> SUFFICES ASSUME Init PROVE Inv
  OBVIOUS
<1>1. /\ at \in [Sources -> Steps] /\ \A s \in Sources : at[s] = "none"
      /\ phase = "start" /\ arrived = <<>> /\ blocked = {} /\ successes = {} /\ errors = {}
  BY DEF Init, Idle, Steps
<1> QED
  BY <1>1 DEF Inv, Typed, Arrivals, Enrolled, Accounting, Running
-----------------------------------------------------------------------------
(* One lemma for each kind of step.                                           *)

\* A source of a pass goes on: where it is, and what that leaves behind.
Moved(s, now) ==
    /\ at' = [at EXCEPT ![s] = now] /\ at[s] \in {"queued", "trying", "backoff"}
    /\ now \in {"trying", "backoff", "ok", "failed"}
    /\ IF now = "ok" THEN arrived' = Append(arrived, s) ELSE UNCHANGED arrived
    /\ \/ UNCHANGED blocked
       \/ now = "failed" /\ phase = "load" /\ blocked' = blocked \cup {s}
    /\ UNCHANGED <<phase, mode, successes, errors>>

LEMMA SourcesMove ==
    /\ SourceStarts => \E s \in Sources : Moved(s, "trying")
    /\ \A s \in Sources :
          /\ SourceAnswers(s) => Moved(s, "ok")
          /\ SourceRetries(s) => Moved(s, "trying")
          /\ \A fault \in Faults : SourceFails(s, fault) => Moved(s, "backoff") \/ Moved(s, "failed")
<1>1. SourceStarts => \E s \in Sources : Moved(s, "trying")
  BY DEF SourceStarts, Queued, Moved
<1>2. ASSUME NEW s \in Sources PROVE SourceAnswers(s) => Moved(s, "ok")
  BY DEF SourceAnswers, Moved
<1>3. ASSUME NEW s \in Sources PROVE SourceRetries(s) => Moved(s, "trying")
  BY DEF SourceRetries, Moved
<1>4. ASSUME NEW s \in Sources, NEW fault \in Faults
      PROVE  SourceFails(s, fault) => Moved(s, "backoff") \/ Moved(s, "failed")
  BY DEF SourceFails, Moved
<1> QED
  BY <1>1, <1>2, <1>3, <1>4

\* The answers, failures and retries of the sources of a pass.
LEMMA MoveKeeps ==
    ASSUME Inv, NEW s \in Sources, NEW now, Moved(s, now)
    PROVE  Inv'
<1>1. /\ at' \in [Sources -> Steps] /\ at'[s] = now
      /\ \A t \in Sources \ {s} : at'[t] = at[t]
  BY DEF Moved, Inv, Typed, Steps
<1>2. arrived' \in Seq(Sources) /\ Range(arrived') = IF now = "ok" THEN Range(arrived) \cup {s} ELSE Range(arrived)
  <2>1. arrived \in Seq(Sources)
    BY DEF Inv, Typed
  <2>2. CASE now = "ok"
    <3>1. arrived' = Append(arrived, s)
      BY <2>2 DEF Moved
    <3> QED
      BY <2>1, <2>2, <3>1, RangeOfAppend
  <2>3. CASE now # "ok"
    BY <2>1, <2>3 DEF Moved
  <2> QED
    BY <2>2, <2>3
<1>3. Typed'
  <2>1. blocked' \subseteq Sources
    BY DEF Moved, Inv, Typed
  <2>2. successes' \subseteq Sources \X Passes /\ errors' \subseteq Sources \X Passes
    BY DEF Moved, Inv, Typed
  <2> QED
    BY <1>1, <1>2, <2>1, <2>2 DEF Typed
<1>4. Answered' = IF now = "ok" THEN Answered \cup {s} ELSE Answered
  BY <1>1 DEF Answered, Moved
<1>5. Enrolled'
  BY <1>1 DEF Enrolled, Moved, Inv
<1>6. phase = "load" \/ UNCHANGED blocked
  BY DEF Moved
<1>7. Accounting'
  BY <1>6 DEF Accounting, Moved, Inv, Delivering, DeliveredBy, ErrorsOf
<1>8. phase # "start"
  BY DEF Inv, Enrolled, Moved
<1> QED
  BY <1>2, <1>3, <1>4, <1>5, <1>7, <1>8 DEF Inv, Arrivals, Running, Moved

\* What the end of a pass has: each of its sources answered or failed.
LEMMA PassResult ==
    ASSUME Inv, Running, PassOver
    PROVE  /\ Range(arrived) = Answered
           /\ \A s \in Sources : at[s] # "none" => (s \in Answered \/ s \in PassFailed) /\ ~(s \in Answered /\ s \in PassFailed)
           /\ \A s \in Sources : at[s] = "none" => s \notin Answered /\ s \notin PassFailed
  BY EndOfPass DEF Inv, Arrivals, Answered, PassFailed

LEMMA LoadEndsKeeps == ASSUME Inv, LoadEnds PROVE Inv'
<1>1. /\ phase = "load" /\ mode = "network" /\ mode' = mode /\ phase' \in {"done", "bridging"}
      /\ successes' = Answered \X {"direct"} /\ errors' = PassFailed \X {"direct"}
      /\ UNCHANGED <<at, blocked, arrived>>
  <2>1. phase = "load" /\ PassOver /\ Running
    BY DEF LoadEnds, Running
  <2> QED
    BY <2>1, PassResult DEF LoadEnds, Inv, Enrolled
<1>2. \A s \in Sources : s \in Answered <=> s \notin PassFailed
  BY <1>1, PassResult DEF LoadEnds, Running, Inv, Enrolled
<1>3. Delivering' = Answered /\ Answered \subseteq Sources /\ PassFailed \subseteq Sources
  BY <1>1 DEF Delivering, DeliveredBy, Answered, PassFailed
<1>4. Typed'
  BY <1>1, <1>3 DEF Inv, Typed, Passes
<1>5. \A s \in Sources : IF s \in Delivering' THEN (ErrorsOf(s))' = {} ELSE (ErrorsOf(s))' = {<<s, "direct">>}
  <2> TAKE s \in Sources
  <2>1. (ErrorsOf(s))' = {e \in PassFailed \X {"direct"} : e[1] = s}
    BY <1>1 DEF ErrorsOf
  <2>2. CASE s \in PassFailed
    BY <1>2, <1>3, <2>1, <2>2
  <2>3. CASE s \notin PassFailed
    BY <1>2, <1>3, <2>1, <2>3
  <2> QED
    BY <2>2, <2>3
<1>6. blocked \cap Answered = {}
  BY <1>1 DEF Inv, Enrolled, Typed, Answered
<1>7. Accounting'
  BY <1>1, <1>3, <1>5, <1>6 DEF Accounting, Passes
<1>8. Arrivals' /\ Enrolled'
  BY <1>1 DEF Arrivals, Enrolled, Running
<1> QED
  BY <1>4, <1>7, <1>8 DEF Inv

LEMMA TunnelDeliversKeeps == ASSUME Inv, TunnelDelivers PROVE Inv'
<1>1. /\ phase = "tunnel" /\ mode = "network" /\ mode' = mode /\ phase' = "done"
      /\ blocked \cap Delivering = {} /\ blocked \subseteq Sources
      /\ successes' = successes \cup (Answered \X {"bridge"})
      /\ errors' = {e \in errors : e[1] \notin Answered \cup PassFailed} \cup (PassFailed \X {"bridge"})
      /\ UNCHANGED <<at, blocked, arrived>>
  <2>1. phase = "tunnel" /\ PassOver /\ Running
    BY DEF TunnelDelivers, Running
  <2> QED
    BY <2>1, PassResult DEF TunnelDelivers, MergedErrors, Inv, Accounting, Typed
<1>2. /\ Answered \cup PassFailed = blocked /\ Answered \cap PassFailed = {}
      /\ Answered \subseteq Sources /\ PassFailed \subseteq Sources
  <2>1. Running /\ PassOver
    BY DEF TunnelDelivers, Running
  <2>2. \A s \in Sources : at[s] # "none" <=> s \in blocked
    BY <1>1 DEF Inv, Enrolled
  <2> QED
    BY <1>1, <2>1, <2>2, PassResult DEF Answered, PassFailed
<1>3. Delivering' = Delivering \cup Answered
  BY <1>1, <1>2 DEF Delivering, DeliveredBy
<1>4. Typed'
  BY <1>1, <1>2 DEF Inv, Typed, Passes
<1>5. \A s \in Sources : (ErrorsOf(s))' = IF s \in blocked THEN {e \in PassFailed \X {"bridge"} : e[1] = s} ELSE ErrorsOf(s)
  BY <1>1, <1>2 DEF ErrorsOf
<1>6. \A s \in Sources : IF s \in Delivering' THEN (ErrorsOf(s))' = {}
                         ELSE \E pass \in Passes : (ErrorsOf(s))' = {<<s, pass>>}
  <2> TAKE s \in Sources
  <2>1. CASE s \in Answered
    BY <1>2, <1>3, <1>5, <2>1
  <2>2. CASE s \in PassFailed
    <3>1. s \notin Delivering' /\ s \in blocked
      BY <1>1, <1>2, <1>3, <2>2
    <3>2. (ErrorsOf(s))' = {<<s, "bridge">>}
      BY <1>5, <2>2, <3>1
    <3> QED
      BY <3>1, <3>2 DEF Passes
  <2>3. CASE s \notin blocked
    BY <1>1, <1>2, <1>3, <1>5, <2>3 DEF Inv, Accounting
  <2> QED
    BY <1>2, <2>1, <2>2, <2>3
<1>7. Accounting'
  BY <1>1, <1>6 DEF Accounting
<1>8. Arrivals' /\ Enrolled'
  BY <1>1 DEF Arrivals, Enrolled, Running
<1> QED
  BY <1>4, <1>7, <1>8 DEF Inv

\* The steps that deliver nothing.
LEMMA OthersKeep ==
    ASSUME Inv, LoadsFromStore \/ LoadBegins \/ TunnelOpens \/ TunnelRefused \/ TunnelUseless
                \/ DeltaShown \/ UNCHANGED vars
    PROVE  Inv'
<1>1. CASE DeltaShown \/ UNCHANGED vars
  BY <1>1 DEF DeltaShown, vars, Inv, Typed, Arrivals, Enrolled, Accounting, Running, Answered, Delivering,
              DeliveredBy, ErrorsOf
<1>2. CASE LoadsFromStore
  BY <1>2 DEF LoadsFromStore, Inv, Typed, Arrivals, Enrolled, Accounting, Running
<1>3. CASE LoadBegins
  <2>1. /\ phase = "start" /\ arrived = <<>> /\ blocked = {}
        /\ UNCHANGED <<blocked, arrived, successes, errors>>
    BY <1>3 DEF LoadBegins, Inv, Arrivals, Enrolled
  <2>2. CASE phase' = "failed" /\ UNCHANGED <<mode, at>>
    BY <2>1, <2>2 DEF Inv, Typed, Arrivals, Enrolled, Accounting, Running
  <2>3. CASE phase' = "load" /\ mode' = "network" /\ at' = ToFetch(Sources)
    <3>1. /\ at' \in [Sources -> Steps] /\ \A s \in Sources : at'[s] = "queued"
          /\ Range(arrived') = {}
      BY <2>1, <2>3 DEF ToFetch, Steps, Range
    <3>2. Typed'
      BY <2>1, <3>1 DEF Inv, Typed
    <3> QED
      BY <2>1, <2>3, <3>1, <3>2 DEF Inv, Arrivals, Enrolled, Accounting, Answered
  <2> QED
    BY <1>3, <2>2, <2>3 DEF LoadBegins
<1>4. CASE TunnelOpens
  <2>1. at' = ToFetch(blocked) /\ arrived' = <<>> /\ phase = "bridging" /\ phase' = "tunnel"
        /\ UNCHANGED <<mode, blocked, successes, errors>>
    BY <1>4 DEF TunnelOpens
  <2>2. /\ at' \in [Sources -> Steps] /\ Answered' = {} /\ Range(arrived') = {}
        /\ \A s \in Sources : at'[s] # "none" <=> s \in blocked
    BY <2>1 DEF ToFetch, Steps, Answered, Range
  <2>3. Typed'
    BY <2>1, <2>2 DEF Inv, Typed
  <2>4. Accounting'
    BY <2>1 DEF Inv, Accounting, Delivering, DeliveredBy, ErrorsOf
  <2> QED
    BY <2>1, <2>2, <2>3, <2>4 DEF Inv, Arrivals, Enrolled
<1>5. CASE TunnelRefused \/ TunnelUseless
  <2>1. phase \in {"bridging", "tunnel"} /\ phase' \in {"bridging", "done"}
        /\ UNCHANGED <<mode, at, blocked, arrived, successes, errors>>
    BY <1>5 DEF TunnelRefused, TunnelUseless, NextBridge
  <2> QED
    BY <2>1 DEF Inv, Typed, Arrivals, Enrolled, Accounting, Running, Delivering, DeliveredBy, ErrorsOf
<1> QED
  BY <1>1, <1>2, <1>3, <1>4, <1>5

LEMMA InvStep == Inv /\ [Next]_vars => Inv'
<1> SUFFICES ASSUME Inv, [Next]_vars PROVE Inv'
  OBVIOUS
<1>1. CASE SourceStarts \/ \E s \in Sources : \/ SourceAnswers(s) \/ SourceRetries(s)
                                              \/ \E fault \in Faults : SourceFails(s, fault)
  BY <1>1, SourcesMove, MoveKeeps
<1> QED
  BY <1>1, LoadEndsKeeps, TunnelDeliversKeeps, OthersKeep DEF Next, Fetching

\* Every enabled source has delivered or shows exactly one error, whatever the
\* order of answers, failures, retries and bridges
\* (merged_fetch_errors, fetch_through_bridge).
THEOREM AllSourcesAccounted == Spec => []SourcesAccounted
<1>1. Inv => SourcesAccounted
  <2> SUFFICES ASSUME Inv, Loaded, NEW s \in Sources
               PROVE  IF s \in Delivering THEN ErrorsOf(s) = {} ELSE Cardinality(ErrorsOf(s)) = 1
    BY DEF SourcesAccounted, Delivering, ErrorsOf
  <2> QED
    BY FS_Singleton DEF Inv, Accounting, Loaded
<1> QED
  BY <1>1, InvInit, InvStep, PTL DEF Spec
-----------------------------------------------------------------------------
(* What the documents of a pass come to.                                      *)

\* Induction over the naturals, stated for sets (the library's rule is about an
\* operator, which the provers cannot instantiate).
LEMMA LeastNatural ==
    ASSUME NEW T \in SUBSET Nat, T # {}
    PROVE  \E n \in T : \A m \in T : n <= m
<1>1. IsWellFoundedOn(OpToRel(<, Nat), Nat)
  BY NatLessThanWellFounded
<1>2. PICK n \in T : \A m \in T : ~(<<m, n>> \in OpToRel(<, Nat))
  BY <1>1, WFMin
<1>3. T \subseteq Nat
  OBVIOUS
<1>4. \A m \in T : ~(m < n)
  BY <1>2, <1>3 DEF OpToRel
<1>5. \A m \in T : n <= m
  BY <1>3, <1>4
<1> QED
  BY <1>5

LEMMA SetInduction ==
    ASSUME NEW T \in SUBSET Nat, 0 \in T, \A n \in Nat : n \in T => n + 1 \in T
    PROVE  T = Nat
<1> SUFFICES ASSUME T # Nat PROVE FALSE
  OBVIOUS
<1>1. PICK n \in Nat \ T : \A m \in Nat \ T : n <= m
  BY LeastNatural
<1>2. n # 0
  BY <1>1
<1>3. n - 1 \in T
  BY <1>1, <1>2
<1> QED
  BY <1>1, <1>2, <1>3

\* The loop of Merged after the first n sources.
Loop(g, order, n) ==
    g = [i \in 0 .. n |->
           IF i = 0 THEN {}
           ELSE IF i \in Range(order) THEN Keep(g[i - 1], i) ELSE g[i - 1]]

LEMMA LoopRuns ==
    ASSUME NEW order
    PROVE  \A n \in Nat : \E g : Loop(g, order, n)
<1> DEFINE T == {n \in Nat : \E g : Loop(g, order, n)}
<1>1. 0 \in T
  <2> DEFINE g == [i \in 0 .. 0 |-> {}]
  <2>1. Loop(g, order, 0)
    BY DEF Loop
  <2> QED
    BY <2>1
<1>2. ASSUME NEW n \in Nat, n \in T PROVE n + 1 \in T
  <2>1. PICK g : Loop(g, order, n)
    BY <1>2
  <2> DEFINE last == IF n + 1 \in Range(order) THEN Keep(g[n], n + 1) ELSE g[n]
             h == [i \in 0 .. n + 1 |-> IF i = n + 1 THEN last ELSE g[i]]
  <2>2. \A i \in 0 .. n + 1 :
           h[i] = IF i = 0 THEN {}
                  ELSE IF i \in Range(order) THEN Keep(h[i - 1], i) ELSE h[i - 1]
    <3>1. TAKE i \in 0 .. n + 1
    <3>2. CASE i = n + 1
      <4>1. h[i] = last /\ h[i - 1] = g[n] /\ i # 0
        BY <3>2
      <4> HIDE DEF h
      <4> QED
        BY <3>2, <4>1
    <3>3. CASE i # n + 1
      <4>1. i \in 0 .. n /\ h[i] = g[i] /\ (i # 0 => h[i - 1] = g[i - 1])
        BY <3>3
      <4>2. g[i] = IF i = 0 THEN {}
                   ELSE IF i \in Range(order) THEN Keep(g[i - 1], i) ELSE g[i - 1]
        BY <2>1, <4>1 DEF Loop
      <4> HIDE DEF h
      <4> QED
        BY <4>1, <4>2
    <3> QED
      BY <3>2, <3>3
  <2>3. Loop(h, order, n + 1)
    BY <2>2 DEF Loop
  <2> QED
    BY <2>3
<1> HIDE DEF T
<1>3. T \in SUBSET Nat
  BY DEF T
<1>4. T = Nat
  BY <1>1, <1>2, <1>3, SetInduction
<1> QED
  BY <1>4 DEF T

\* Every key of the sources, credited to the first of them that has it.
Credited(sources) == {[key |-> k, from |-> First(k, sources)] : k \in KeysOf(sources)}

LEMMA FirstIs ==
    ASSUME NEW S \in SUBSET Nat, NEW k, NEW s \in S, k \in Content[s],
           \A t \in S : k \in Content[t] => s <= t
    PROVE  First(k, S) = s
<1> DEFINE T == {t \in S : k \in Content[t]}
<1>1. s \in T /\ \A t \in T : s <= t /\ t \in Nat
  OBVIOUS
<1>2. \A t \in T : (\A u \in T : t <= u) => t = s
  BY <1>1
<1>3. Min(T) = s
  BY <1>1, <1>2 DEF Min
<1> QED
  BY <1>3 DEF First

LEMMA FirstThere ==
    ASSUME NEW S \in SUBSET Nat, NEW k \in KeysOf(S)
    PROVE  /\ First(k, S) \in S /\ k \in Content[First(k, S)]
           /\ \A t \in S : k \in Content[t] => First(k, S) <= t
<1> DEFINE T == {t \in S : k \in Content[t]}
<1>1. T # {} /\ T \in SUBSET Nat
  BY DEF KeysOf
<1>2. PICK s \in T : \A t \in T : s <= t
  BY <1>1, LeastNatural
<1>3. First(k, S) = s
  BY <1>2, FirstIs
<1> QED
  BY <1>2, <1>3

\* One source more, which comes after all that are in.
LEMMA KeepCredits ==
    ASSUME NEW S \in SUBSET Nat, NEW n \in Nat, \A s \in S : s < n
    PROVE  Keep(Credited(S), n) = Credited(S \cup {n})
<1> DEFINE U == S \cup {n}
<1>1. {c.key : c \in Credited(S)} = KeysOf(S)
  <2>1. \A c \in Credited(S) : c.key \in KeysOf(S)
    BY DEF Credited
  <2>2. ASSUME NEW k \in KeysOf(S) PROVE \E c \in Credited(S) : c.key = k
    <3>1. [key |-> k, from |-> First(k, S)] \in Credited(S)
      BY DEF Credited
    <3> QED
      BY <3>1
  <2> QED
    BY <2>1, <2>2
<1>2. KeysOf(U) = KeysOf(S) \cup Content[n]
  BY DEF KeysOf
<1>3. ASSUME NEW k \in KeysOf(S) PROVE First(k, U) = First(k, S)
  <2>1. /\ First(k, S) \in S /\ k \in Content[First(k, S)]
        /\ \A t \in S : k \in Content[t] => First(k, S) <= t
    BY FirstThere
  <2> DEFINE s == First(k, S)
  <2>2. s <= n /\ s \in U /\ U \in SUBSET Nat
    <3>1. s \in S
      BY <2>1
    <3> HIDE DEF s
    <3>2. s < n /\ s \in Nat
      BY <3>1
    <3> QED
      BY <3>1, <3>2
  <2>3. ASSUME NEW t \in U, k \in Content[t] PROVE First(k, S) <= t
    <3>1. CASE t \in S
      BY <2>1, <2>3, <3>1
    <3>2. CASE t = n
      BY <2>2, <3>2
    <3> QED
      BY <3>1, <3>2
  <2> QED
    BY <2>1, <2>2, <2>3, FirstIs
<1>4. ASSUME NEW k \in Content[n] \ KeysOf(S) PROVE First(k, U) = n
  <2>1. \A t \in S : k \notin Content[t]
    BY <1>4 DEF KeysOf
  <2>2. \A t \in U : k \in Content[t] => t = n
    BY <2>1
  <2>3. U \in SUBSET Nat /\ n \in U /\ n <= n /\ k \in Content[n]
    BY <1>4
  <2> HIDE DEF U
  <2> QED
    BY <2>2, <2>3, FirstIs
<1> HIDE DEF U
<1>5. Keep(Credited(S), n) =
        Credited(S) \cup {[key |-> k, from |-> n] : k \in Content[n] \ KeysOf(S)}
  BY <1>1 DEF Keep
<1>6. Credited(U) = {[key |-> k, from |-> First(k, U)] : k \in KeysOf(S)}
                    \cup {[key |-> k, from |-> First(k, U)] : k \in Content[n] \ KeysOf(S)}
  BY <1>2 DEF Credited
<1>7. {[key |-> k, from |-> First(k, U)] : k \in KeysOf(S)} = Credited(S)
  BY <1>3 DEF Credited
<1>8. {[key |-> k, from |-> First(k, U)] : k \in Content[n] \ KeysOf(S)} =
        {[key |-> k, from |-> n] : k \in Content[n] \ KeysOf(S)}
  BY <1>4
<1> QED
  BY <1>5, <1>6, <1>7, <1>8 DEF U

\* The order of arrival does not matter: what is merged is what the sources
\* delivered, credited in configured order.
LEMMA MergeCredits ==
    ASSUME NEW order, Range(order) \subseteq Sources
    PROVE  Merged(order) = Credited(Range(order))
<1> DEFINE all == Cardinality(Sources)
           Upto(n) == {s \in Range(order) : s <= n}
<1>1. all \in Nat /\ Sources = 1 .. all
  BY FetchAssumption, FS_CardinalityType
<1> HIDE DEF all
<1> DEFINE g == CHOOSE g : Loop(g, order, all)
<1>2. Loop(g, order, all)
  BY <1>1, LoopRuns
<1>3. Merged(order) = g[all]
  BY DEF Merged, Loop, all
<1> HIDE DEF g
<1>4. g[0] = {} /\ \A i \in 1 .. all :
         g[i] = IF i \in Range(order) THEN Keep(g[i - 1], i) ELSE g[i - 1]
  <2>1. \A i \in 0 .. all :
           g[i] = IF i = 0 THEN {}
                  ELSE IF i \in Range(order) THEN Keep(g[i - 1], i) ELSE g[i - 1]
    BY <1>2 DEF Loop
  <2> QED
    BY <1>1, <2>1
<1> DEFINE T == {n \in Nat : n <= all => g[n] = Credited(Upto(n))}
<1>5. 0 \in T
  <2>1. Upto(0) = {}
    BY <1>1
  <2>2. Credited({}) = {}
    BY DEF Credited, KeysOf
  <2> QED
    BY <1>4, <2>1, <2>2
<1>6. ASSUME NEW n \in Nat, n \in T PROVE n + 1 \in T
  <2> SUFFICES ASSUME n + 1 <= all PROVE g[n + 1] = Credited(Upto(n + 1))
    OBVIOUS
  <2>1. n + 1 \in 1 .. all /\ g[n] = Credited(Upto(n))
    BY <1>1, <1>6
  <2>2. g[n + 1] = IF n + 1 \in Range(order) THEN Keep(Credited(Upto(n)), n + 1)
                                             ELSE Credited(Upto(n))
    BY <1>4, <2>1
  <2>3. CASE n + 1 \in Range(order)
    <3>1. Upto(n + 1) = Upto(n) \cup {n + 1} /\ Upto(n) \in SUBSET Nat
          /\ \A s \in Upto(n) : s < n + 1
      BY <1>1, <2>3
    <3> HIDE DEF Upto
    <3> QED
      BY <2>2, <2>3, <3>1, KeepCredits
  <2>4. CASE n + 1 \notin Range(order)
    <3>1. Upto(n + 1) = Upto(n)
      BY <1>1, <2>4
    <3> HIDE DEF Upto
    <3> QED
      BY <2>2, <2>4, <3>1
  <2> QED
    BY <2>3, <2>4
<1>7. Upto(all) = Range(order)
  BY <1>1
<1> HIDE DEF T, Upto
<1>8. T = Nat
  <2>1. T \in SUBSET Nat
    BY DEF T
  <2> QED
    BY <1>5, <1>6, <2>1, SetInduction
<1>9. g[all] = Credited(Upto(all))
  BY <1>1, <1>8 DEF T
<1> QED
  BY <1>3, <1>7, <1>9
-----------------------------------------------------------------------------
(* The pool.                                                                  *)

\* The candidates of a pass without those that may not join again.
Joining(sources, barred) == {[key |-> k, from |-> First(k, sources)] : k \in KeysOf(sources) \ barred}

\* What a bridge may still add is barred from what the direct pass delivered.
Pooled ==
    /\ phase \in {"bridging", "tunnel"} =>
          /\ DeliveredBy("bridge") = {}
          /\ seen = KeysOf(DeliveredBy("direct")) \cup carried
    /\ Loaded \/ phase \in {"bridging", "tunnel"} =>
          pool = Joining(DeliveredBy("direct"), carried)
                 \cup Joining(DeliveredBy("bridge"), KeysOf(DeliveredBy("direct")) \cup carried)

LEMMA CreditedJoin ==
    ASSUME NEW sources, NEW barred
    PROVE  /\ {c \in Credited(sources) : c.key \notin barred} = Joining(sources, barred)
           /\ {c.key : c \in Credited(sources)} = KeysOf(sources)
           /\ Joining({}, barred) = {}
<1>1. \A c \in Credited(sources) : c.key \in KeysOf(sources)
  BY DEF Credited
<1>2. ASSUME NEW k \in KeysOf(sources) PROVE \E c \in Credited(sources) : c.key = k
  <2>1. [key |-> k, from |-> First(k, sources)] \in Credited(sources)
    BY DEF Credited
  <2> QED
    BY <2>1
<1>3. {c \in Credited(sources) : c.key \notin barred} = Joining(sources, barred)
  BY DEF Credited, Joining
<1>4. Joining({}, barred) = {}
  BY DEF Joining, KeysOf
<1> QED
  BY <1>1, <1>2, <1>3, <1>4

LEMMA LoadEndsPools == ASSUME Inv, LoadEnds PROVE Pooled'
<1> DEFINE direct == Range(arrived)
<1>1. arrived \in Seq(Sources) /\ direct \subseteq Sources
  BY RangeOfSeq DEF Inv, Typed
<1>2. Merged(arrived) = Credited(direct)
  BY <1>1, MergeCredits
<1>3. /\ successes' = direct \X {"direct"} /\ carried' = carried
      /\ seen' = {c.key : c \in Credited(direct)} \cup carried
      /\ pool' = {c \in Credited(direct) : c.key \notin carried}
  BY <1>2 DEF LoadEnds
<1> HIDE DEF direct
<1>4. DeliveredBy("direct")' = direct /\ DeliveredBy("bridge")' = {}
  BY <1>1, <1>3 DEF DeliveredBy
<1>5. seen' = KeysOf(direct) \cup carried /\ pool' = Joining(direct, carried)
  BY <1>3, CreditedJoin
<1> QED
  BY <1>3, <1>4, <1>5, CreditedJoin DEF Pooled

LEMMA TunnelDeliversPools == ASSUME Inv, Pooled, TunnelDelivers PROVE Pooled'
<1> DEFINE bridged == Range(arrived)
           direct == DeliveredBy("direct")
<1>1. arrived \in Seq(Sources) /\ bridged \subseteq Sources /\ direct \subseteq Sources
  BY RangeOfSeq DEF Inv, Typed, DeliveredBy
<1>2. Merged(arrived) = Credited(bridged)
  BY <1>1, MergeCredits
<1>3. /\ phase = "tunnel" /\ phase' = "done" /\ carried' = carried
      /\ successes' = successes \cup (bridged \X {"bridge"})
      /\ pool' = pool \cup {c \in Credited(bridged) : c.key \notin seen}
  BY <1>2 DEF TunnelDelivers
<1>4. /\ DeliveredBy("bridge") = {} /\ seen = KeysOf(direct) \cup carried
      /\ pool = Joining(direct, carried) \cup Joining({}, KeysOf(direct) \cup carried)
  BY <1>3 DEF Pooled
<1> HIDE DEF bridged
<1>5. DeliveredBy("direct")' = direct /\ DeliveredBy("bridge")' = bridged
  BY <1>1, <1>3, <1>4 DEF DeliveredBy
<1> HIDE DEF direct
<1>6. pool' = Joining(direct, carried) \cup Joining(bridged, KeysOf(direct) \cup carried)
  BY <1>3, <1>4, CreditedJoin
<1> QED
  BY <1>3, <1>5, <1>6 DEF Pooled

LEMMA PoolStep == Inv /\ Pooled /\ [Next]_vars => Pooled'
<1> SUFFICES ASSUME Inv, Pooled, [Next]_vars PROVE Pooled'
  OBVIOUS
<1>1. CASE LoadsFromStore
  BY <1>1 DEF LoadsFromStore, Pooled, Loaded
<1>2. CASE LoadBegins
  BY <1>2 DEF LoadBegins, Pooled, Loaded
<1>3. CASE LoadEnds
  BY <1>3, LoadEndsPools
<1>4. CASE TunnelDelivers
  BY <1>4, TunnelDeliversPools
<1>5. CASE TunnelOpens \/ TunnelRefused \/ TunnelUseless
  <2>1. /\ phase \in {"bridging", "tunnel"} /\ UNCHANGED <<successes, seen, carried, pool>>
    BY <1>5 DEF TunnelOpens, TunnelRefused, TunnelUseless
  <2> QED
    BY <2>1 DEF Pooled, DeliveredBy
<1>6. CASE SourceStarts \/ DeltaShown \/ UNCHANGED vars
           \/ \E s \in Sources : \/ SourceAnswers(s) \/ SourceRetries(s)
                                 \/ \E fault \in Faults : SourceFails(s, fault)
  <2>1. UNCHANGED <<phase, mode, successes, seen, carried, pool>>
    BY <1>6 DEF SourceStarts, DeltaShown, vars, SourceAnswers, SourceRetries, SourceFails
  <2> QED
    BY <2>1 DEF Pooled, Loaded, DeliveredBy
<1> QED
  BY <1>1, <1>2, <1>3, <1>4, <1>5, <1>6 DEF Next, Fetching

\* What is probed is what the sources delivered, every key once and credited to
\* the first source that has it, for any documents, any number of sources and
\* every order of answers, retries and bridges (fetch_sources_with_client,
\* refresh_once).
THEOREM ThePoolIsExact == Spec => []PoolIsExact
<1>1. Init => Pooled
  BY DEF Init, Pooled, Loaded
<1>2. Pooled => PoolIsExact
  BY DEF Pooled, PoolIsExact, Joining
<1> QED
  BY <1>1, <1>2, InvInit, InvStep, PoolStep, PTL DEF Spec
-----------------------------------------------------------------------------
(* The types, and with them the limits: attempts and bridges.                  *)

\* The bridge list after the first n of the known configs.
Pushing(g, known, n) == g = [i \in 0 .. n |-> IF i = 0 THEN <<>> ELSE Push(g[i - 1], known[i])]

LEMMA PushingRuns ==
    ASSUME NEW known
    PROVE  \A n \in Nat : \E g : Pushing(g, known, n)
<1> DEFINE T == {n \in Nat : \E g : Pushing(g, known, n)}
<1>1. 0 \in T
  <2> DEFINE g == [i \in 0 .. 0 |-> <<>>]
  <2>1. Pushing(g, known, 0)
    BY DEF Pushing
  <2> QED
    BY <2>1
<1>2. ASSUME NEW n \in Nat, n \in T PROVE n + 1 \in T
  <2>1. PICK g : Pushing(g, known, n)
    BY <1>2
  <2> DEFINE last == Push(g[n], known[n + 1])
             h == [i \in 0 .. n + 1 |-> IF i = n + 1 THEN last ELSE g[i]]
  <2>2. \A i \in 0 .. n + 1 : h[i] = IF i = 0 THEN <<>> ELSE Push(h[i - 1], known[i])
    <3>1. TAKE i \in 0 .. n + 1
    <3>2. CASE i = n + 1
      <4>1. h[i] = last /\ h[i - 1] = g[n] /\ i # 0
        BY <3>2
      <4> HIDE DEF h
      <4> QED
        BY <3>2, <4>1
    <3>3. CASE i # n + 1
      <4>1. i \in 0 .. n /\ h[i] = g[i] /\ (i # 0 => h[i - 1] = g[i - 1])
        BY <3>3
      <4>2. g[i] = IF i = 0 THEN <<>> ELSE Push(g[i - 1], known[i])
        BY <2>1, <4>1 DEF Pushing
      <4> HIDE DEF h
      <4> QED
        BY <4>1, <4>2
    <3> QED
      BY <3>2, <3>3
  <2>3. Pushing(h, known, n + 1)
    BY <2>2 DEF Pushing
  <2> QED
    BY <2>3
<1> HIDE DEF T
<1>3. T \in SUBSET Nat
  BY DEF T
<1>4. T = Nat
  BY <1>1, <1>2, <1>3, SetInduction
<1> QED
  BY <1>4 DEF T

LEMMA PushKeeps ==
    ASSUME NEW list \in Seq(Uris), Len(list) <= BridgeLimit, NEW uri \in Uris
    PROVE  Push(list, uri) \in Seq(Uris) /\ Len(Push(list, uri)) <= BridgeLimit
<1>1. Append(list, uri) \in Seq(Uris) /\ Len(Append(list, uri)) = Len(list) + 1
  BY AppendProperties
<1>2. Len(list) \in Nat /\ BridgeLimit \in Nat
  BY FetchAssumption, LenProperties
<1> QED
  BY <1>1, <1>2 DEF Push

LEMMA FirstOnes ==
    ASSUME NEW list \in Seq(Uris), NEW limit \in Nat
    PROVE  SubSeq(list, 1, Min({limit, Len(list)})) \in Seq(Uris)
<1>1. Len(list) \in Nat
  BY LenProperties
<1> DEFINE m == IF limit <= Len(list) THEN limit ELSE Len(list)
<1>2. m \in {limit, Len(list)} /\ \A y \in {limit, Len(list)} : m <= y
  BY <1>1
<1>3. \A x \in {limit, Len(list)} : (\A y \in {limit, Len(list)} : x <= y) => x = m
  BY <1>1, <1>2
<1>4. Min({limit, Len(list)}) = m
  BY <1>2, <1>3 DEF Min
<1>5. m \in 0 .. Len(list)
  BY <1>1
<1>6. SubSeq(list, 1, m) \in Seq(Uris)
  BY <1>1, <1>5, SubSeqProperties
<1> QED
  BY <1>4, <1>6

\* No more bridges are tried than the limit allows.
LEMMA BridgesWithinLimit ==
    ASSUME published \in Seq(Keys)
    PROVE  BridgeCandidates \in Seq(Uris) /\ Len(BridgeCandidates) <= BridgeLimit
<1> DEFINE known == Emergency \o SubSeq(published, 1, Min({PublishedLimit, Len(published)}))
                              \o SubSeq(Stored, 1, Min({BridgeLimit, Len(Stored)}))
<1>1. known \in Seq(Uris)
  <2>1. Emergency \in Seq(Uris) /\ published \in Seq(Uris) /\ Stored \in Seq(Uris)
    BY FetchAssumption, SeqDef DEF Uris
  <2>2. /\ SubSeq(published, 1, Min({PublishedLimit, Len(published)})) \in Seq(Uris)
        /\ SubSeq(Stored, 1, Min({BridgeLimit, Len(Stored)})) \in Seq(Uris)
    BY <2>1, FetchAssumption, FirstOnes
  <2> QED
    BY <2>1, <2>2, ConcatProperties
<1> HIDE DEF known
<1> DEFINE all == Len(known)
<1>2. all \in Nat /\ \A i \in 1 .. all : known[i] \in Uris
  BY <1>1, LenProperties, ElementOfSeq
<1> DEFINE g == CHOOSE g : Pushing(g, known, all)
<1>3. Pushing(g, known, all)
  BY <1>2, PushingRuns
<1>4. BridgeCandidates = g[all]
  BY DEF BridgeCandidates, Pushing, known
<1> HIDE DEF g, all
<1>5. \A i \in 0 .. all : g[i] = IF i = 0 THEN <<>> ELSE Push(g[i - 1], known[i])
  BY <1>3 DEF Pushing
<1> DEFINE T == {n \in Nat : n <= all => g[n] \in Seq(Uris) /\ Len(g[n]) <= BridgeLimit}
<1>6. 0 \in T
  <2>1. g[0] = <<>>
    BY <1>2, <1>5
  <2>2. g[0] \in Seq(Uris) /\ Len(g[0]) = 0
    BY <2>1, EmptySeq
  <2> QED
    BY <2>2, FetchAssumption
<1>7. ASSUME NEW n \in Nat, n \in T PROVE n + 1 \in T
  <2> SUFFICES ASSUME n + 1 <= all PROVE g[n + 1] \in Seq(Uris) /\ Len(g[n + 1]) <= BridgeLimit
    OBVIOUS
  <2>1. n + 1 \in 0 .. all /\ n + 1 \in 1 .. all /\ g[n] \in Seq(Uris) /\ Len(g[n]) <= BridgeLimit
    BY <1>2, <1>7
  <2>2. g[n + 1] = Push(g[n], known[n + 1])
    BY <1>5, <2>1
  <2> QED
    BY <1>2, <2>1, <2>2, PushKeeps
<1> HIDE DEF T
<1>8. T = Nat
  <2>1. T \in SUBSET Nat
    BY DEF T
  <2> QED
    BY <1>6, <1>7, <2>1, SetInduction
<1> QED
  BY <1>2, <1>4, <1>8 DEF T

\* What has been tried and what is left to try, attempts and bridges.
Budget ==
    /\ phase \in {"start", "load"} => tunnels = 0
    /\ phase = "bridging" => bridges # <<>> /\ tunnels + Len(bridges) <= BridgeLimit
    /\ phase = "tunnel" => bridges # <<>> /\ tunnels + Len(bridges) <= BridgeLimit + 1
    /\ \A s \in Sources : at[s] = "backoff" => attempt[s] < Attempts

LEMMA TypedInit == Init => TypeOK /\ Budget
<1> SUFFICES ASSUME Init PROVE TypeOK /\ Budget
  OBVIOUS
<1>1. 0 \in 0 .. Attempts /\ 0 \in 0 .. BridgeLimit
  BY FetchAssumption
<1>2. /\ at = [s \in Sources |-> "none"] /\ attempt = [s \in Sources |-> 0]
      /\ bridges = <<>> /\ deltas = <<>> /\ arrived = <<>> /\ tunnels = 0
      /\ published \in Seq(Keys)
  <2>1. \A k \in Keys : <<k>> \in Seq(Keys)
    OBVIOUS
  <2> QED
    BY <2>1, EmptySeq DEF Init, Idle
<1>3. bridges \in Seq(Uris) /\ deltas \in Seq(Nat) /\ arrived \in Seq(Sources)
  BY <1>2, EmptySeq
<1>4. at \in [Sources -> Steps] /\ attempt \in [Sources -> 0 .. Attempts]
  BY <1>1, <1>2 DEF Steps
<1> QED
  BY <1>1, <1>2, <1>3, <1>4 DEF Init, TypeOK, Budget, Candidates

LEMMA ImageIsFinite ==
    ASSUME NEW S, IsFiniteSet(S), NEW f, f = [x \in S |-> f[x]]
    PROVE  IsFiniteSet({f[x] : x \in S})
<1> DEFINE T == {f[x] : x \in S}
<1>1. f \in Surjection(S, T)
  <2>1. f \in [S -> T]
    OBVIOUS
  <2> QED
    BY <2>1 DEF Surjection
<1> QED
  BY <1>1, FS_Surjection

\* The documents are finite, and so is what a pass merges.
LEMMA MergedIsFinite ==
    ASSUME NEW order, Range(order) \subseteq Sources
    PROVE  IsFiniteSet(Merged(order)) /\ Merged(order) \subseteq Candidates
<1>1. Merged(order) = Credited(Range(order))
  BY MergeCredits
<1>2. IsFiniteSet(Range(order)) /\ \A s \in Range(order) : IsFiniteSet(Content[s])
  BY FetchAssumption, FS_Subset
<1>3. IsFiniteSet(KeysOf(Range(order)))
  <2> DEFINE contents == {Content[s] : s \in Range(order)}
  <2>1. IsFiniteSet(contents)
    <3> DEFINE f == [s \in Range(order) |-> Content[s]]
    <3>1. f = [s \in Range(order) |-> f[s]] /\ contents = {f[s] : s \in Range(order)}
      OBVIOUS
    <3> HIDE DEF f, contents
    <3> QED
      BY <1>2, <3>1, ImageIsFinite
  <2>2. \A c \in contents : IsFiniteSet(c)
    BY <1>2
  <2>3. IsFiniteSet(UNION contents)
    BY <2>1, <2>2, FS_UNION
  <2> QED
    BY <2>3 DEF KeysOf
<1>4. IsFiniteSet(Credited(Range(order)))
  <2> DEFINE f == [k \in KeysOf(Range(order)) |-> [key |-> k, from |-> First(k, Range(order))]]
  <2>1. f = [k \in KeysOf(Range(order)) |-> f[k]] /\ Credited(Range(order)) = {f[k] : k \in KeysOf(Range(order))}
    BY DEF Credited
  <2> HIDE DEF f
  <2> QED
    BY <1>3, <2>1, ImageIsFinite
<1>5. Credited(Range(order)) \subseteq Candidates
  <2> SUFFICES ASSUME NEW k \in KeysOf(Range(order))
               PROVE  k \in Keys /\ First(k, Range(order)) \in Sources
    BY DEF Credited, Candidates
  <2>1. PICK s \in Range(order) : k \in Content[s]
    BY DEF KeysOf
  <2>2. k \in Keys
    BY <2>1, FetchAssumption
  <2>3. Range(order) \in SUBSET Nat
    BY FetchAssumption, FS_CardinalityType
  <2>4. First(k, Range(order)) \in Range(order)
    BY <2>1, <2>3, FirstThere
  <2> QED
    BY <2>2, <2>4
<1> QED
  BY <1>1, <1>4, <1>5

LEMMA DeliveredIsFinite ==
    ASSUME NEW order \in Seq(Sources)
    PROVE  Cardinality(Delivered(order)) \in Nat
<1> DEFINE contents == {Content[order[i]] : i \in DOMAIN order}
<1>1. DOMAIN order = 1 .. Len(order) /\ Len(order) \in Nat
  BY LenProperties
<1>2. IsFiniteSet(DOMAIN order)
  BY <1>1, FS_Interval
<1>3. IsFiniteSet(contents)
  <2> DEFINE f == [i \in DOMAIN order |-> Content[order[i]]]
  <2>1. f = [i \in DOMAIN order |-> f[i]] /\ contents = {f[i] : i \in DOMAIN order}
    OBVIOUS
  <2> HIDE DEF f, contents
  <2> QED
    BY <1>2, <2>1, ImageIsFinite
<1>4. \A c \in contents : IsFiniteSet(c)
  BY <1>1, ElementOfSeq, FetchAssumption
<1>5. IsFiniteSet(UNION contents)
  BY <1>3, <1>4, FS_UNION
<1> QED
  BY <1>5, FS_CardinalityType DEF Delivered

\* A step of one source of a pass.
LEMMA MoveTyped ==
    ASSUME TypeOK, Budget, NEW s \in Sources,
           \/ SourceStarts \/ SourceAnswers(s) \/ SourceRetries(s)
           \/ \E fault \in Faults : SourceFails(s, fault)
    PROVE  TypeOK' /\ Budget'
<1>1. /\ UNCHANGED <<phase, mode, published, carried, pool, seen, fetched, successes, errors, bridges, tunnels, total>>
      /\ blocked' \in {blocked, blocked \cup {s}}
  BY DEF SourceStarts, SourceAnswers, SourceRetries, SourceFails
<1>2. CASE SourceStarts
  <2>1. PICK t \in Sources : at' = [at EXCEPT ![t] = "trying"] /\ attempt' = [attempt EXCEPT ![t] = 1]
    BY <1>2 DEF SourceStarts, Queued
  <2>2. 1 \in 0 .. Attempts
    BY FetchAssumption
  <2>3. at' \in [Sources -> Steps] /\ attempt' \in [Sources -> 0 .. Attempts]
    BY <2>1, <2>2 DEF TypeOK, Steps
  <2>4. \A u \in Sources : at'[u] = "backoff" => attempt'[u] < Attempts
    BY <2>1 DEF TypeOK, Budget
  <2>5. arrived' = arrived /\ deltas' = deltas /\ blocked' = blocked
    BY <1>2 DEF SourceStarts
  <2> QED
    BY <1>1, <2>3, <2>4, <2>5 DEF TypeOK, Budget
<1>3. CASE SourceAnswers(s)
  <2>1. at' = [at EXCEPT ![s] = "ok"] /\ arrived' = Append(arrived, s) /\ attempt' = attempt /\ blocked' = blocked
        /\ deltas' = Append(deltas, Cardinality(Delivered(arrived')))
    BY <1>3 DEF SourceAnswers
  <2>2. arrived' \in Seq(Sources)
    BY <2>1, AppendProperties DEF TypeOK
  <2>3. deltas' \in Seq(Nat)
    BY <2>1, <2>2, DeliveredIsFinite, AppendProperties DEF TypeOK
  <2>4. at' \in [Sources -> Steps] /\ \A u \in Sources : at'[u] = "backoff" => at[u] = "backoff"
    BY <2>1 DEF TypeOK, Steps
  <2> QED
    BY <1>1, <2>1, <2>2, <2>3, <2>4 DEF TypeOK, Budget
<1>4. CASE SourceRetries(s)
  <2>1. /\ at' = [at EXCEPT ![s] = "trying"] /\ attempt' = [attempt EXCEPT ![s] = @ + 1]
        /\ at[s] = "backoff" /\ UNCHANGED <<arrived, deltas, blocked>>
    BY <1>4 DEF SourceRetries
  <2>2. attempt[s] < Attempts /\ attempt[s] \in 0 .. Attempts
    BY <2>1 DEF TypeOK, Budget
  <2>3. attempt[s] + 1 \in 0 .. Attempts
    BY <2>2, FetchAssumption
  <2>4. at' \in [Sources -> Steps] /\ attempt' \in [Sources -> 0 .. Attempts]
    BY <2>1, <2>3 DEF TypeOK, Steps
  <2>5. \A u \in Sources : at'[u] = "backoff" => attempt'[u] < Attempts
    BY <2>1 DEF TypeOK, Budget
  <2> QED
    BY <1>1, <2>1, <2>4, <2>5 DEF TypeOK, Budget
<1>5. ASSUME NEW fault \in Faults, SourceFails(s, fault) PROVE TypeOK' /\ Budget'
  <2>1. UNCHANGED <<attempt, arrived, deltas>> /\ at' \in {[at EXCEPT ![s] = "backoff"], [at EXCEPT ![s] = "failed"]}
        /\ (at' = [at EXCEPT ![s] = "backoff"] => attempt[s] < Attempts)
    <3>1. CASE Retried(s, fault)
      BY <1>5, <3>1 DEF SourceFails, Retried
    <3>2. CASE ~Retried(s, fault)
      <4>1. at' = [at EXCEPT ![s] = "failed"] /\ at'[s] = "failed"
        BY <1>5, <3>2 DEF SourceFails, TypeOK
      <4>2. at' # [at EXCEPT ![s] = "backoff"]
        BY <4>1 DEF TypeOK
      <4> QED
        BY <1>5, <4>1, <4>2 DEF SourceFails
    <3> QED
      BY <3>1, <3>2
  <2>2. at' \in [Sources -> Steps] /\ blocked' \subseteq Sources
    BY <1>1, <2>1 DEF TypeOK, Steps
  <2>3. \A u \in Sources : at'[u] = "backoff" => attempt'[u] < Attempts
    BY <2>1 DEF TypeOK, Budget
  <2> QED
    BY <1>1, <2>1, <2>2, <2>3 DEF TypeOK, Budget
<1> QED
  BY <1>2, <1>3, <1>4, <1>5

\* The bridges go down by one, the attempts with them up.
LEMMA NextBridgeTyped ==
    ASSUME bridges \in Seq(Uris), bridges # <<>>, NextBridge
    PROVE  /\ bridges' \in Seq(Uris) /\ Len(bridges) \in Nat /\ Len(bridges') = Len(bridges) - 1
           /\ phase' \in {"bridging", "done"} /\ (phase' = "bridging" => bridges' # <<>>)
  BY HeadTailProperties, LenProperties DEF NextBridge

LEMMA BridgeTyped ==
    ASSUME TypeOK, Budget, TunnelOpens \/ TunnelRefused \/ TunnelUseless
    PROVE  TypeOK' /\ Budget'
<1>1. /\ UNCHANGED <<mode, published, carried, attempt, blocked, pool, seen, fetched, successes, errors, deltas, total>>
      /\ arrived' \in {arrived, <<>>} /\ at' \in {at, ToFetch(blocked)}
      /\ \A s \in Sources : at'[s] = "backoff" => at[s] = "backoff"
  BY DEF TunnelOpens, TunnelRefused, TunnelUseless, ToFetch
<1>2. arrived' \in Seq(Sources) /\ at' \in [Sources -> Steps]
      /\ \A s \in Sources : at'[s] = "backoff" => attempt'[s] < Attempts
  <2>1. ToFetch(blocked) \in [Sources -> Steps]
    BY DEF ToFetch, Steps
  <2> QED
    BY <1>1, <2>1, EmptySeq DEF TypeOK, Budget
<1>3. tunnels \in Nat /\ BridgeLimit \in Nat /\ Len(bridges) \in Nat /\ bridges \in Seq(Uris)
  BY FetchAssumption, LenProperties DEF TypeOK
<1>4. phase \in {"bridging", "tunnel"} /\ bridges # <<>> /\ Len(bridges) # 0
  <2>1. phase \in {"bridging", "tunnel"} /\ bridges # <<>>
    BY DEF TunnelOpens, TunnelRefused, TunnelUseless, Budget
  <2> QED
    BY <1>3, <2>1, EmptySeq
<1>5. CASE TunnelOpens
  <2>1. tunnels' = tunnels + 1 /\ phase' = "tunnel" /\ bridges' = bridges /\ tunnels + Len(bridges) <= BridgeLimit
    BY <1>5 DEF TunnelOpens, Budget
  <2>2. tunnels' \in 0 .. BridgeLimit /\ tunnels' + Len(bridges') <= BridgeLimit + 1
    BY <1>3, <1>4, <2>1
  <2> QED
    BY <1>1, <1>2, <1>3, <1>4, <2>1, <2>2 DEF TypeOK, Budget
<1>6. CASE TunnelRefused
  <2>1. tunnels' = tunnels + 1 /\ NextBridge /\ tunnels + Len(bridges) <= BridgeLimit
    BY <1>6 DEF TunnelRefused, Budget
  <2>2. /\ bridges' \in Seq(Uris) /\ Len(bridges') = Len(bridges) - 1
        /\ phase' \in {"bridging", "done"} /\ (phase' = "bridging" => bridges' # <<>>)
    BY <1>3, <1>4, <2>1, NextBridgeTyped
  <2>3. tunnels' \in 0 .. BridgeLimit /\ tunnels' + Len(bridges') <= BridgeLimit
    BY <1>3, <1>4, <2>1, <2>2
  <2> QED
    BY <1>1, <1>2, <2>2, <2>3 DEF TypeOK, Budget
<1>7. CASE TunnelUseless
  <2>1. tunnels' = tunnels /\ NextBridge /\ tunnels + Len(bridges) <= BridgeLimit + 1
    BY <1>7 DEF TunnelUseless, Budget
  <2>2. /\ bridges' \in Seq(Uris) /\ Len(bridges') = Len(bridges) - 1
        /\ phase' \in {"bridging", "done"} /\ (phase' = "bridging" => bridges' # <<>>)
    BY <1>3, <1>4, <2>1, NextBridgeTyped
  <2>3. tunnels' \in 0 .. BridgeLimit /\ tunnels' + Len(bridges') <= BridgeLimit
    BY <1>3, <1>4, <2>1, <2>2 DEF TypeOK
  <2> QED
    BY <1>1, <1>2, <2>2, <2>3 DEF TypeOK, Budget
<1> QED
  BY <1>5, <1>6, <1>7

LEMMA LoadTyped ==
    ASSUME TypeOK, Budget, LoadsFromStore \/ LoadBegins \/ LoadEnds
    PROVE  TypeOK' /\ Budget'
<1>1. CASE LoadsFromStore
  <2>1. Range(Stored) \subseteq Keys
    BY FetchAssumption, RangeOfSeq
  <2>2. pool' \subseteq Candidates /\ seen' \subseteq Keys
    BY <1>1, <2>1 DEF LoadsFromStore, Candidates, TypeOK
  <2> QED
    BY <1>1, <2>2 DEF LoadsFromStore, TypeOK, Budget
<1>2. CASE LoadBegins
  <2>1. ToFetch(Sources) \in [Sources -> Steps] /\ \A s \in Sources : ToFetch(Sources)[s] = "queued"
    BY DEF ToFetch, Steps
  <2> QED
    BY <1>2, <2>1 DEF LoadBegins, TypeOK, Budget
<1>3. CASE LoadEnds
  <2>1. arrived \in Seq(Sources) /\ Range(arrived) \subseteq Sources
    BY RangeOfSeq DEF TypeOK
  <2>2. IsFiniteSet(Merged(arrived)) /\ Merged(arrived) \subseteq Candidates
    BY <2>1, MergedIsFinite
  <2>3. fetched' \in Nat /\ total' \in Nat
    BY <1>3, <2>2, FS_CardinalityType DEF LoadEnds
  <2>4. pool' \subseteq Candidates /\ seen' \subseteq Keys
    BY <1>3, <2>2 DEF LoadEnds, Candidates, TypeOK
  <2>5. successes' \subseteq Sources \X {"direct", "bridge"} /\ errors' \subseteq Sources \X {"direct", "bridge"}
    BY <1>3, <2>1 DEF LoadEnds, PassFailed
  <2>6. bridges' \in Seq(Uris) /\ Len(bridges') <= BridgeLimit
    <3>1. bridges' \in {BridgeCandidates, <<>>}
      BY <1>3 DEF LoadEnds
    <3>2. CASE bridges' = <<>>
      <4>1. bridges' \in Seq(Uris) /\ Len(bridges') = 0
        BY <3>2, EmptySeq
      <4> QED
        BY <4>1, FetchAssumption
    <3>3. BridgeCandidates \in Seq(Uris) /\ Len(BridgeCandidates) <= BridgeLimit
      <4>1. published \in Seq(Keys)
        BY DEF TypeOK
      <4> QED
        BY <4>1, BridgesWithinLimit
    <3> QED
      BY <3>1, <3>2, <3>3
  <2>7. phase = "load" /\ phase' \in {"done", "bridging"} /\ (phase' = "bridging" => bridges' # <<>>)
        /\ UNCHANGED <<mode, published, carried, at, attempt, blocked, arrived, tunnels, deltas>>
    BY <1>3 DEF LoadEnds
  <2>8. tunnels' + Len(bridges') <= BridgeLimit
    BY <2>6, <2>7, LenProperties DEF Budget
  <2> QED
    BY <2>3, <2>4, <2>5, <2>6, <2>7, <2>8 DEF TypeOK, Budget
<1> QED
  BY <1>1, <1>2, <1>3

LEMMA TunnelDeliversTyped ==
    ASSUME TypeOK, Budget, TunnelDelivers
    PROVE  TypeOK' /\ Budget'
<1> DEFINE fresh == {c \in Merged(arrived) : c.key \notin seen}
<1>1. arrived \in Seq(Sources) /\ Range(arrived) \subseteq Sources
  BY RangeOfSeq DEF TypeOK
<1>2. IsFiniteSet(Merged(arrived)) /\ Merged(arrived) \subseteq Candidates
  BY <1>1, MergedIsFinite
<1>3. fresh \subseteq Candidates /\ Cardinality(fresh) \in Nat
  BY <1>2, FS_Subset, FS_CardinalityType
<1>4. /\ pool' = pool \cup fresh /\ seen' = seen \cup {c.key : c \in fresh}
      /\ fetched' = fetched + Cardinality(fresh) /\ total' = fetched'
  BY DEF TunnelDelivers
<1> HIDE DEF fresh
<1>5. pool' \subseteq Candidates /\ seen' \subseteq Keys /\ fetched' \in Nat /\ total' \in Nat
  BY <1>3, <1>4 DEF TypeOK, Candidates
<1>6. successes' \subseteq Sources \X {"direct", "bridge"} /\ errors' \subseteq Sources \X {"direct", "bridge"}
  BY <1>1 DEF TunnelDelivers, MergedErrors, PassFailed, TypeOK
<1>7. /\ phase' = "done"
      /\ UNCHANGED <<mode, published, carried, at, attempt, blocked, arrived, bridges, tunnels, deltas>>
  BY DEF TunnelDelivers
<1> QED
  BY <1>5, <1>6, <1>7 DEF TypeOK, Budget

LEMMA TypedStep == TypeOK /\ Budget /\ [Next]_vars => TypeOK' /\ Budget'
<1> SUFFICES ASSUME TypeOK, Budget, [Next]_vars PROVE TypeOK' /\ Budget'
  OBVIOUS
<1>1. CASE DeltaShown
  <2>1. total' \in Nat /\ deltas' \in Seq(Nat)
    BY <1>1, HeadTailProperties DEF DeltaShown, TypeOK
  <2> QED
    BY <1>1, <2>1 DEF DeltaShown, TypeOK, Budget
<1>2. CASE UNCHANGED vars
  BY <1>2 DEF vars, TypeOK, Budget
<1>3. CASE SourceStarts
  <2>1. PICK s \in Sources : TRUE
    BY <1>3 DEF SourceStarts, Queued
  <2> QED
    BY <1>3, <2>1, MoveTyped
<1>4. ASSUME NEW s \in Sources,
             \/ SourceAnswers(s) \/ SourceRetries(s) \/ \E fault \in Faults : SourceFails(s, fault)
      PROVE  TypeOK' /\ Budget'
  BY <1>4, MoveTyped
<1> QED
  BY <1>1, <1>2, <1>3, <1>4, BridgeTyped, LoadTyped, TunnelDeliversTyped DEF Next, Fetching

\* The variables stay in their types, which here are limits: no source is
\* requested more than FETCH_RETRY_ATTEMPTS times in a pass, and no more
\* bridges are started than BRIDGE_CANDIDATES, whatever fails
\* (fetch_body_with_retries, bridge_candidates).
THEOREM TypeCorrect == Spec => []TypeOK
  BY TypedInit, TypedStep, PTL DEF Spec
-----------------------------------------------------------------------------
(* What the parser makes of a document, and the export of a served list       *)
(* (Conversions), for documents and lists of any length.                      *)

\* A loop over the numbers up to `size`, its states and their numbers being in
\* a set that the step does not leave: it has a run, and every run stays there.
Stays(F, size, states) ==
    \A i \in 1 .. size : \A v : <<i - 1, v>> \in states => <<i, F[<<i - 1, v>>]>> \in states

IsLoop(g, size, start, F) ==
    g = [i \in 0 .. size |-> IF i = 0 THEN start ELSE F[<<i - 1, g[i - 1]>>]]

LEMMA LoopInSet ==
    ASSUME NEW size \in Nat, NEW start, NEW states, NEW F, <<0, start>> \in states,
           Stays(F, size, states)
    PROVE  \E g : IsLoop(g, size, start, F) /\ \A i \in 0 .. size : <<i, g[i]>> \in states
<1> USE DEF Stays, IsLoop
<1> DEFINE Run(g, n) == /\ g = [i \in 0 .. n |-> IF i = 0 THEN start ELSE F[<<i - 1, g[i - 1]>>]]
                        /\ \A i \in 0 .. n : <<i, g[i]>> \in states
           T == {n \in Nat : n <= size => \E g : Run(g, n)}
<1>1. 0 \in T
  <2> DEFINE g == [i \in 0 .. 0 |-> start]
  <2>1. g = [i \in 0 .. 0 |-> IF i = 0 THEN start ELSE F[<<i - 1, g[i - 1]>>]]
    OBVIOUS
  <2>2. \A i \in 0 .. 0 : <<i, g[i]>> \in states
    OBVIOUS
  <2> QED
    BY <2>1, <2>2
<1>2. ASSUME NEW n \in Nat, n \in T PROVE n + 1 \in T
  <2> SUFFICES ASSUME n + 1 <= size PROVE \E h : Run(h, n + 1)
    OBVIOUS
  <2>1. PICK g : Run(g, n)
    BY <1>2
  <2> DEFINE last == F[<<n, g[n]>>]
             h == [i \in 0 .. n + 1 |-> IF i = n + 1 THEN last ELSE g[i]]
  <2>2. /\ \A i \in 0 .. n : g[i] = IF i = 0 THEN start ELSE F[<<i - 1, g[i - 1]>>]
        /\ \A i \in 0 .. n : <<i, g[i]>> \in states
    BY <2>1
  <2>3. <<n + 1, last>> \in states
    <3>1. n + 1 \in 1 .. size /\ (n + 1) - 1 = n /\ <<n, g[n]>> \in states
      BY <2>2
    <3> QED
      BY <3>1
  <2> HIDE DEF last
  <2>4. /\ h[n + 1] = last /\ \A i \in 0 .. n : h[i] = g[i]
        /\ h = [i \in 0 .. n + 1 |-> h[i]]
    OBVIOUS
  <2> HIDE DEF h
  <2>5. \A i \in 0 .. n + 1 : h[i] = IF i = 0 THEN start ELSE F[<<i - 1, h[i - 1]>>]
    <3>1. TAKE i \in 0 .. n + 1
    <3>2. CASE i = n + 1
      <4>1. n \in 0 .. n /\ i - 1 = n /\ i # 0
        BY <3>2
      <4>2. h[n] = g[n] /\ h[i] = last
        BY <2>4, <3>2, <4>1
      <4> QED
        BY <4>1, <4>2 DEF last
    <3>3. CASE i # n + 1
      <4>1. i \in 0 .. n /\ (i # 0 => i - 1 \in 0 .. n)
        BY <3>3
      <4>2. h[i] = g[i] /\ (i # 0 => h[i - 1] = g[i - 1])
        BY <2>4, <4>1
      <4> QED
        BY <2>2, <4>1, <4>2
    <3> QED
      BY <3>2, <3>3
  <2>6. \A i \in 0 .. n + 1 : <<i, h[i]>> \in states
    <3>1. TAKE i \in 0 .. n + 1
    <3>2. i = n + 1 \/ i \in 0 .. n
      OBVIOUS
    <3> QED
      BY <2>2, <2>3, <2>4, <3>2
  <2>7. h = [i \in 0 .. n + 1 |-> IF i = 0 THEN start ELSE F[<<i - 1, h[i - 1]>>]]
    BY <2>4, <2>5
  <2> QED
    BY <2>6, <2>7
<1> HIDE DEF T
<1>3. T \in SUBSET Nat
  BY DEF T
<1>4. T = Nat
  BY <1>1, <1>2, <1>3, SetInduction
<1>5. size <= size => \E g : Run(g, size)
  BY <1>4 DEF T
<1> HIDE DEF Run
<1>6. \E g : Run(g, size)
  BY <1>5
<1> QED
  BY <1>6 DEF Run

LEMMA LoopStays ==
    ASSUME NEW size \in Nat, NEW states, NEW g, <<0, g[0]>> \in states,
           \A i \in 1 .. size : <<i - 1, g[i - 1]>> \in states => <<i, g[i]>> \in states
    PROVE  <<size, g[size]>> \in states
<1> DEFINE T == {n \in Nat : n <= size => <<n, g[n]>> \in states}
<1>1. 0 \in T
  OBVIOUS
<1>2. ASSUME NEW n \in Nat, n \in T PROVE n + 1 \in T
  <2> SUFFICES ASSUME n + 1 <= size PROVE <<n + 1, g[n + 1]>> \in states
    OBVIOUS
  <2>1. n + 1 \in 1 .. size /\ (n + 1) - 1 = n /\ <<n, g[n]>> \in states
    BY <1>2
  <2> QED
    BY <2>1
<1>3. T \in SUBSET Nat
  OBVIOUS
<1> HIDE DEF T
<1>4. T = Nat
  BY <1>1, <1>2, <1>3, SetInduction
<1> QED
  BY <1>4 DEF T

\* A filter keeps the wanted elements.
LEMMA KeptIs ==
    ASSUME NEW S, NEW s \in Seq(S), NEW wanted
    PROVE  /\ Kept(s, wanted) \in Seq(S)
           /\ ToSet(Kept(s, wanted)) = ToSet(s) \cap wanted
<1> DEFINE step(v, i) == IF s[i] \in wanted THEN Append(v, s[i]) ELSE v
           Heads(n) == {s[j] : j \in 1 .. n}
           states == {x \in (0 .. Len(s)) \X Seq(S) : Range(x[2]) = Heads(x[1]) \cap wanted}
           F == [x \in states |-> step(x[2], x[1] + 1)]
<1>1. Len(s) \in Nat /\ DOMAIN s = 1 .. Len(s) /\ \A i \in 1 .. Len(s) : s[i] \in S
  BY ElementOfSeq, LenProperties
<1>2. <<0, <<>> >> \in states
  <2>1. <<>> \in Seq(S) /\ Heads(0) = {} /\ 0 \in 0 .. Len(s)
    BY <1>1
  <2>2. Range(<<>>) = {}
    BY DEF Range
  <2> QED
    BY <2>1, <2>2
<1>3. ASSUME NEW i \in 1 .. Len(s), NEW v, <<i - 1, v>> \in states
      PROVE  F[<<i - 1, v>>] = step(v, i) /\ <<i, step(v, i)>> \in states
  <2>1. v \in Seq(S) /\ Range(v) = Heads(i - 1) \cap wanted
    BY <1>3
  <2>2. F[<<i - 1, v>>] = step(v, i)
    <3>1. (i - 1) + 1 = i
      BY <1>1
    <3> QED
      BY <1>3, <3>1
  <2>3. Heads(i) = Heads(i - 1) \cup {s[i]}
    BY <1>1
  <2>4. i \in 0 .. Len(s)
    BY <1>1
  <2> HIDE DEF Heads
  <2>5. step(v, i) \in Seq(S) /\ Range(step(v, i)) = Heads(i) \cap wanted
    <3>1. CASE s[i] \in wanted
      BY <1>1, <2>1, <2>3, <3>1, RangeOfAppend
    <3>2. CASE s[i] \notin wanted
      BY <2>1, <2>3, <3>2
    <3> QED
      BY <3>1, <3>2
  <2> HIDE DEF step
  <2> QED
    BY <2>2, <2>4, <2>5
<1> HIDE DEF states, step, F
<1>4. PICK g : /\ g = [i \in 0 .. Len(s) |-> IF i = 0 THEN <<>> ELSE F[<<i - 1, g[i - 1]>>]]
               /\ \A i \in 0 .. Len(s) : <<i, g[i]>> \in states
  <2>1. Stays(F, Len(s), states)
    BY <1>3 DEF Stays
  <2>2. \E g : /\ IsLoop(g, Len(s), <<>>, F)
               /\ \A i \in 0 .. Len(s) : <<i, g[i]>> \in states
    BY <1>1, <1>2, <2>1, LoopInSet
  <2> QED
    BY <2>2 DEF IsLoop
<1> DEFINE Run(h) == h = [i \in 0 .. Len(s) |-> IF i = 0 THEN <<>> ELSE step(h[i - 1], i)]
           h == CHOOSE h : Run(h)
<1>5. Run(g)
  <2>1. \A i \in 0 .. Len(s) : i # 0 => F[<<i - 1, g[i - 1]>>] = step(g[i - 1], i)
    <3>1. TAKE i \in 0 .. Len(s)
    <3>2. i # 0 => i \in 1 .. Len(s) /\ i - 1 \in 0 .. Len(s)
      BY <1>1
    <3> QED
      BY <1>3, <1>4, <3>2
  <2> QED
    BY <1>4, <2>1
<1>6. Run(h)
  BY <1>5
<1>7. Kept(s, wanted) = h[Len(s)]
  BY DEF Kept, step
<1> HIDE DEF h
<1>8. h[0] = <<>> /\ \A i \in 1 .. Len(s) : h[i] = step(h[i - 1], i)
  <2>1. \A i \in 0 .. Len(s) : h[i] = IF i = 0 THEN <<>> ELSE step(h[i - 1], i)
    BY <1>6
  <2> QED
    BY <1>1, <2>1
<1>9. <<Len(s), h[Len(s)]>> \in states
  <2>1. \A i \in 1 .. Len(s) :
            <<i - 1, h[i - 1]>> \in states => <<i, h[i]>> \in states
    <3> SUFFICES ASSUME NEW i \in 1 .. Len(s), <<i - 1, h[i - 1]>> \in states
                 PROVE  <<i, h[i]>> \in states
      OBVIOUS
    <3> QED
      BY <1>3, <1>8
  <2>2. <<0, h[0]>> \in states
    BY <1>2, <1>8
  <2> HIDE DEF Run
  <2> QED
    BY <1>1, <2>1, <2>2, LoopStays
<1>10. Heads(Len(s)) = ToSet(s)
  BY <1>1 DEF ToSet
<1> HIDE DEF Heads
<1> QED
  BY <1>7, <1>9, <1>10 DEF states, Range, ToSet

\* What a stage of the parser leaves behind: the list has the texts seen that
\* the parser accepts, each once.
NoRepeats(list) == \A i, j \in DOMAIN list : list[i] = list[j] => i = j

Collected(acc, U) ==
    /\ acc \in [seen : SUBSET U, list : Seq(U)]
    /\ NoRepeats(acc.list)
    /\ Range(acc.list) = {u \in acc.seen : Parsing!ParsesAsLink(u)}

LEMMA NoteIs ==
    ASSUME NEW U, NEW acc, Collected(acc, U), NEW u \in U
    PROVE  /\ Collected(Parsing!Note(acc, u), U)
           /\ Parsing!Note(acc, u).seen = acc.seen \cup {u}
<1> DEFINE accepts(v) == Parsing!ParsesAsLink(v)
           longer == IF accepts(u) THEN Append(acc.list, u) ELSE acc.list
           noted == Parsing!Note(acc, u)
<1>1. acc.seen \subseteq U /\ acc.list \in Seq(U) /\ NoRepeats(acc.list)
      /\ Range(acc.list) = {v \in acc.seen : accepts(v)}
  BY DEF Collected
<1>2. noted = IF u \in acc.seen THEN acc ELSE [seen |-> acc.seen \cup {u}, list |-> longer]
  BY DEF Parsing!Note
<1> HIDE DEF noted, accepts
<1>3. CASE u \in acc.seen
  BY <1>1, <1>2, <1>3 DEF noted
<1>4. CASE u \notin acc.seen
  <2>1. longer \in Seq(U) /\ Range(longer) = {v \in acc.seen \cup {u} : accepts(v)}
    <3>1. CASE accepts(u)
      BY <1>1, <3>1, RangeOfAppend
    <3>2. CASE ~accepts(u)
      BY <1>1, <3>2
    <3> QED
      BY <3>1, <3>2
  <2>2. NoRepeats(longer)
    <3>1. CASE accepts(u)
      <4>1. /\ Len(longer) = Len(acc.list) + 1 /\ longer \in Seq(U)
            /\ \A i \in 1 .. Len(acc.list) : longer[i] = acc.list[i]
            /\ longer[Len(acc.list) + 1] = u
        BY <1>1, <3>1, AppendProperties
      <4>2. /\ DOMAIN acc.list = 1 .. Len(acc.list) /\ Len(acc.list) \in Nat
            /\ DOMAIN longer = 1 .. Len(acc.list) + 1
        BY <1>1, <4>1, LenProperties
      <4>3. \A i \in DOMAIN acc.list : acc.list[i] # u
        BY <1>1, <1>4 DEF Range
      <4> HIDE DEF longer
      <4>4. \A i \in DOMAIN longer : i = Len(acc.list) + 1 \/ i \in DOMAIN acc.list
        BY <4>2
      <4>5. \A i \in DOMAIN acc.list : longer[i] = acc.list[i]
        BY <4>1, <4>2
      <4> QED
        BY <1>1, <4>1, <4>3, <4>4, <4>5 DEF NoRepeats
    <3>2. CASE ~accepts(u)
      BY <1>1, <3>2
    <3> QED
      BY <3>1, <3>2
  <2> HIDE DEF longer
  <2>3. noted = [seen |-> acc.seen \cup {u}, list |-> longer]
    BY <1>2, <1>4
  <2> QED
    BY <1>1, <2>1, <2>2, <2>3 DEF noted, accepts, Collected
<1> QED
  BY <1>3, <1>4

LEMMA CollectIs ==
    ASSUME NEW U, NEW found, Collected(found, U), NEW uris \in Seq(U)
    PROVE  /\ Collected(Parsing!Collect(found, uris), U)
           /\ Parsing!Collect(found, uris).seen = found.seen \cup Range(uris)
<1> DEFINE note(v, i) == Parsing!Note(v, uris[i])
           Heads(n) == {uris[j] : j \in 1 .. n}
           accs == {v \in [seen : SUBSET U, list : Seq(U)] : Collected(v, U)}
           states == {x \in (0 .. Len(uris)) \X accs : x[2].seen = found.seen \cup Heads(x[1])}
           F == [x \in states |-> note(x[2], x[1] + 1)]
<1>1. Len(uris) \in Nat /\ DOMAIN uris = 1 .. Len(uris) /\ \A i \in 1 .. Len(uris) : uris[i] \in U
  BY ElementOfSeq, LenProperties
<1>2. <<0, found>> \in states
  <2>1. Heads(0) = {} /\ 0 \in 0 .. Len(uris)
    BY <1>1
  <2>2. found \in accs
    BY DEF Collected
  <2> QED
    BY <2>1, <2>2
<1>3. ASSUME NEW i \in 1 .. Len(uris), NEW v, <<i - 1, v>> \in states
      PROVE  F[<<i - 1, v>>] = note(v, i) /\ <<i, note(v, i)>> \in states
  <2>1. Collected(v, U) /\ v.seen = found.seen \cup Heads(i - 1)
    BY <1>3
  <2>2. F[<<i - 1, v>>] = note(v, i)
    <3>1. (i - 1) + 1 = i
      BY <1>1
    <3> QED
      BY <1>3, <3>1
  <2>3. Heads(i) = Heads(i - 1) \cup {uris[i]}
    BY <1>1
  <2>4. i \in 0 .. Len(uris)
    BY <1>1
  <2> HIDE DEF Heads
  <2>5. Collected(note(v, i), U) /\ note(v, i).seen = v.seen \cup {uris[i]}
    BY <1>1, <2>1, NoteIs
  <2> HIDE DEF note
  <2>6. note(v, i) \in accs
    BY <2>5 DEF Collected
  <2> QED
    BY <2>1, <2>2, <2>3, <2>4, <2>5, <2>6
<1> HIDE DEF states, note, F
<1>4. PICK g : /\ g = [i \in 0 .. Len(uris) |-> IF i = 0 THEN found ELSE F[<<i - 1, g[i - 1]>>]]
               /\ \A i \in 0 .. Len(uris) : <<i, g[i]>> \in states
  <2>1. Stays(F, Len(uris), states)
    BY <1>3 DEF Stays
  <2>2. \E g : /\ IsLoop(g, Len(uris), found, F)
               /\ \A i \in 0 .. Len(uris) : <<i, g[i]>> \in states
    BY <1>1, <1>2, <2>1, LoopInSet
  <2> QED
    BY <2>2 DEF IsLoop
<1> DEFINE Run(h) == h = [i \in 0 .. Len(uris) |-> IF i = 0 THEN found ELSE note(h[i - 1], i)]
           h == CHOOSE h : Run(h)
<1>5. Run(g)
  <2>1. \A i \in 0 .. Len(uris) : i # 0 => F[<<i - 1, g[i - 1]>>] = note(g[i - 1], i)
    <3>1. TAKE i \in 0 .. Len(uris)
    <3>2. i # 0 => i \in 1 .. Len(uris) /\ i - 1 \in 0 .. Len(uris)
      BY <1>1
    <3> QED
      BY <1>3, <1>4, <3>2
  <2> QED
    BY <1>4, <2>1
<1>6. Run(h)
  BY <1>5
<1>7. Parsing!Collect(found, uris) = h[Len(uris)]
  BY DEF Parsing!Collect, note
<1> HIDE DEF h
<1>8. h[0] = found /\ \A i \in 1 .. Len(uris) : h[i] = note(h[i - 1], i)
  <2>1. \A i \in 0 .. Len(uris) : h[i] = IF i = 0 THEN found ELSE note(h[i - 1], i)
    BY <1>6
  <2> QED
    BY <1>1, <2>1
<1>9. <<Len(uris), h[Len(uris)]>> \in states
  <2>1. \A i \in 1 .. Len(uris) : <<i - 1, h[i - 1]>> \in states => <<i, h[i]>> \in states
    <3> SUFFICES ASSUME NEW i \in 1 .. Len(uris), <<i - 1, h[i - 1]>> \in states
                 PROVE  <<i, h[i]>> \in states
      OBVIOUS
    <3> QED
      BY <1>3, <1>8
  <2>2. <<0, h[0]>> \in states
    BY <1>2, <1>8
  <2> HIDE DEF Run
  <2> QED
    BY <1>1, <2>1, <2>2, LoopStays
<1>10. Heads(Len(uris)) = Range(uris)
  BY <1>1 DEF Range
<1> HIDE DEF Heads
<1> QED
  BY <1>7, <1>9, <1>10 DEF states

\* The texts the parser may take from a document.
TextsOf(d) ==
    {Parsing!Found(d.items[i].server, form, text) :
        i \in DOMAIN d.items, form \in {"link", "proxy", "outbound"}, text \in {"whole", "cut", "runon"}}

\* A body whose items are a list.
Bodied(d) == d.items \in Seq(Range(d.items))

Placed(d, places) == {i \in DOMAIN d.items : d.items[i].place \in places}

LEMMA AtIs ==
    ASSUME NEW d, Bodied(d), NEW places
    PROVE  /\ Parsing!At(d, places) \in Seq(Range(d.items))
           /\ Range(Parsing!At(d, places)) = {d.items[i] : i \in Placed(d, places)}
<1> DEFINE items == d.items
           wanted == {item \in ToSet(items) : item.place \in places}
<1>1. items \in Seq(Range(items))
  BY DEF Bodied
<1>2. Parsing!At(d, places) = Kept(items, wanted)
  BY DEF Parsing!At, Parsing!Kept, Kept, Parsing!ToSet, ToSet
<1>3. /\ Kept(items, wanted) \in Seq(Range(items))
      /\ ToSet(Kept(items, wanted)) = ToSet(items) \cap wanted
  BY <1>1, KeptIs
<1>4. ToSet(items) \cap wanted = {d.items[i] : i \in Placed(d, places)}
  BY DEF ToSet, Placed
<1> QED
  BY <1>2, <1>3, <1>4 DEF ToSet, Range

\* A stage reads the items at its places, each in its own way.
LEMMA ReadIs ==
    ASSUME NEW d, Bodied(d), NEW places
    PROVE  LET some == Parsing!At(d, places)
               tokens == Parsing!Read(some, Parsing!Token)
               quoted == Parsing!Read(some, Parsing!Quoted)
               converted == Parsing!Read(some, Parsing!Converted)
           IN  /\ tokens \in Seq(TextsOf(d))
               /\ Range(tokens) = {Parsing!Token(d.items[i]) : i \in Placed(d, places)}
               /\ quoted \in Seq(TextsOf(d))
               /\ Range(quoted) = {Parsing!Quoted(d.items[i]) : i \in Placed(d, places)}
               /\ places \subseteq {"proxy", "outbound"} =>
                    /\ converted \in Seq(TextsOf(d))
                    /\ Range(converted) =
                          {Parsing!Converted(d.items[i]) : i \in Placed(d, places)}
<1> DEFINE some == Parsing!At(d, places)
           token(item) == Parsing!Token(item)
           quote(item) == Parsing!Quoted(item)
           convert(item) == Parsing!Converted(item)
           tokens == [k \in DOMAIN some |-> token(some[k])]
           quoted == [k \in DOMAIN some |-> quote(some[k])]
           converted == [k \in DOMAIN some |-> convert(some[k])]
<1>1. /\ some \in Seq(Range(d.items))
      /\ Range(some) = {d.items[i] : i \in Placed(d, places)}
  BY AtIs
<1>2. /\ Parsing!Read(some, Parsing!Token) = tokens
      /\ Parsing!Read(some, Parsing!Quoted) = quoted
      /\ Parsing!Read(some, Parsing!Converted) = converted
  BY DEF Parsing!Read
<1>3. \A i \in DOMAIN d.items : token(d.items[i]) \in TextsOf(d) /\ quote(d.items[i]) \in TextsOf(d)
  BY DEF TextsOf, Parsing!Token, Parsing!Quoted
<1>4. ASSUME places \subseteq {"proxy", "outbound"}, NEW i \in Placed(d, places)
      PROVE  convert(d.items[i]) \in TextsOf(d)
  BY <1>4 DEF TextsOf, Parsing!Converted, Placed
<1>5. DOMAIN some = 1 .. Len(some) /\ Len(some) \in Nat
  BY <1>1, LenProperties
<1>6. \A k \in DOMAIN some : \E i \in Placed(d, places) : some[k] = d.items[i]
  BY <1>1 DEF Range
<1>7. \A i \in Placed(d, places) : \E k \in DOMAIN some : some[k] = d.items[i]
  BY <1>1 DEF Range
<1>8. Placed(d, places) \subseteq DOMAIN d.items
  BY DEF Placed
<1> HIDE DEF some, token, quote, convert
<1>9. tokens \in Seq(TextsOf(d)) /\ Range(tokens) = {token(d.items[i]) : i \in Placed(d, places)}
  <2>1. \A k \in DOMAIN some : token(some[k]) \in TextsOf(d)
    BY <1>3, <1>6, <1>8
  <2>2. tokens \in Seq(TextsOf(d))
    BY <1>5, <2>1
  <2> QED
    BY <1>6, <1>7, <2>2 DEF Range
<1>10. quoted \in Seq(TextsOf(d)) /\ Range(quoted) = {quote(d.items[i]) : i \in Placed(d, places)}
  <2>1. \A k \in DOMAIN some : quote(some[k]) \in TextsOf(d)
    BY <1>3, <1>6, <1>8
  <2>2. quoted \in Seq(TextsOf(d))
    BY <1>5, <2>1
  <2> QED
    BY <1>6, <1>7, <2>2 DEF Range
<1>11. ASSUME places \subseteq {"proxy", "outbound"}
       PROVE  /\ converted \in Seq(TextsOf(d))
              /\ Range(converted) = {convert(d.items[i]) : i \in Placed(d, places)}
  <2>1. \A k \in DOMAIN some : convert(some[k]) \in TextsOf(d)
    BY <1>4, <1>6, <1>11
  <2>2. converted \in Seq(TextsOf(d))
    BY <1>5, <2>1
  <2> QED
    BY <1>6, <1>7, <2>2 DEF Range
<1> HIDE DEF tokens, quoted, converted
<1> QED
  BY <1>2, <1>9, <1>10, <1>11 DEF some, token, quote, convert

LEMMA NothingCollected ==
    \A U : Parsing!Nothing.seen = {} /\ Collected(Parsing!Nothing, U)
<1> SUFFICES ASSUME NEW U
             PROVE  Parsing!Nothing.seen = {} /\ Collected(Parsing!Nothing, U)
  OBVIOUS
<1>1. Parsing!Nothing = [seen |-> {}, list |-> <<>>] /\ <<>> \in Seq(U) /\ DOMAIN <<>> = {}
  BY DEF Parsing!Nothing
<1>2. NoRepeats(<<>>) /\ Range(<<>>) = {}
  BY <1>1 DEF NoRepeats, Range
<1> QED
  BY <1>1, <1>2 DEF Collected

\* The parsing of a stage by itself: what it accepts of its texts.
LEMMA AcceptedIs ==
    ASSUME NEW U, NEW uris \in Seq(U)
    PROVE  /\ Parsing!Accepted(uris) \in Seq(U)
           /\ Range(Parsing!Accepted(uris)) = {u \in Range(uris) : Parsing!ParsesAsLink(u)}
<1> DEFINE nothing == Parsing!Nothing
           acc == Parsing!Collect(nothing, uris)
<1>1. nothing.seen = {} /\ Collected(nothing, U)
  BY NothingCollected
<1> HIDE DEF nothing
<1>2. Collected(acc, U) /\ acc.seen = {} \cup Range(uris)
  BY <1>1, CollectIs
<1> QED
  BY <1>2 DEF nothing, Collected, Parsing!Accepted

LEMMA RunOnsAre == ASSUME NEW d, Bodied(d) PROVE Parsing!RunOns(d) \in Seq(TextsOf(d))
<1> DEFINE quotes(i) == d.items[i].place \in {"attribute", "script"}
           between(i) == /\ d.items[i].place = "block"
                         /\ \E a \in 1 .. i - 1 : quotes(a)
                         /\ \E b \in i + 1 .. Len(d.items) : quotes(b)
           runOn(i) == Parsing!Found(d.items[i].server, "link", "runon")
           cut == {j \in DOMAIN d.items : between(j)}
           texts == {runOn(i) : i \in cut}
<1>1. Parsing!RunOns(d) = Parsing!SetToSeq(texts)
  BY DEF Parsing!RunOns
<1>2. texts \subseteq TextsOf(d)
  BY DEF TextsOf
<1>3. IsFiniteSet(texts)
  <2>1. DOMAIN d.items = 1 .. Len(d.items) /\ Len(d.items) \in Nat
    BY LenProperties DEF Bodied
  <2>2. IsFiniteSet(DOMAIN d.items)
    BY <2>1, FS_Interval
  <2>3. IsFiniteSet(cut)
    BY <2>2, FS_Subset
  <2> DEFINE f == [i \in cut |-> runOn(i)]
  <2>4. {f[i] : i \in cut} = texts /\ f = [i \in cut |-> f[i]]
    OBVIOUS
  <2> HIDE DEF f, texts, cut
  <2> QED
    BY <2>3, <2>4, ImageIsFinite
<1> HIDE DEF texts
<1> DEFINE n == Cardinality(texts)
           ordered == CHOOSE f \in [1 .. n -> texts] : Parsing!IsInjective(f)
<1>4. n \in Nat /\ \E f \in [1 .. n -> texts] : Parsing!IsInjective(f)
  <2>1. n \in Nat /\ ExistsBijection(1 .. n, texts)
    BY <1>3, FS_CardinalityType
  <2>2. PICK f \in [1 .. n -> texts] : \A a, b \in 1 .. n : f[a] = f[b] => a = b
    BY <2>1, Zenon DEF ExistsBijection, Bijection, Injection, IsInjective
  <2> QED
    BY <2>1, <2>2 DEF Parsing!IsInjective
<1>5. ordered \in [1 .. n -> texts]
  BY <1>4
<1>6. Parsing!SetToSeq(texts) = ordered
  BY Zenon DEF Parsing!SetToSeq, Parsing!Cardinality, Cardinality
<1> HIDE DEF ordered, n
<1>7. ordered \in Seq(TextsOf(d))
  <2>1. ordered \in [1 .. n -> TextsOf(d)]
    BY <1>2, <1>5
  <2> QED
    BY <1>4, <2>1, SeqDef
<1> QED
  BY <1>1, <1>6, <1>7

\* The texts of each stage.
LEMMA StagesAre ==
    ASSUME NEW d, Bodied(d)
    PROVE  LET U == TextsOf(d)
               texts(places) == {Parsing!Token(d.items[i]) : i \in Placed(d, places)}
               quoted(places) == {Parsing!Quoted(d.items[i]) : i \in Placed(d, places)}
               given(places) ==
                  {u \in {Parsing!Converted(d.items[i]) : i \in Placed(d, places)} :
                      Parsing!ParsesAsLink(u)}
               accepted(uris) == {u \in uris : Parsing!ParsesAsLink(u)}
           IN  /\ Parsing!Tokens(d) \in Seq(U)
               /\ Range(Parsing!Tokens(d)) = texts({"token", "attribute", "script"})
               /\ Parsing!ClashProxies(d) \in Seq(U)
               /\ ~d.array => Range(Parsing!ClashProxies(d)) = given({"proxy"})
               /\ Parsing!StringLeaves(d) \in Seq(U)
               /\ ~d.base64 => Range(Parsing!StringLeaves(d)) = texts({"token", "escaped"})
               /\ Parsing!HtmlLinks(d) \in Seq(U)
               /\ d.shape = "html" /\ ~d.base64 =>
                     accepted(quoted({"attribute", "script"}) \cup texts({"block64"})
                              \cup texts({"block"})) \subseteq Range(Parsing!HtmlLinks(d))
               /\ Parsing!XrayLinks(d) \in Seq(U)
               /\ (d.array => d.items[1].place = "outbound") =>
                     Range(Parsing!XrayLinks(d)) = given({"outbound"})
<1> DEFINE U == TextsOf(d)
           some(places) == Parsing!At(d, places)
           tokens(places) == Parsing!Read(some(places), Parsing!Token)
           quoted(places) == Parsing!Read(some(places), Parsing!Quoted)
           converted(places) == Parsing!Read(some(places), Parsing!Converted)
<1>1. \A places : /\ tokens(places) \in Seq(U)
                  /\ Range(tokens(places)) = {Parsing!Token(d.items[i]) : i \in Placed(d, places)}
                  /\ quoted(places) \in Seq(U)
                  /\ Range(quoted(places)) = {Parsing!Quoted(d.items[i]) : i \in Placed(d, places)}
                  /\ places \subseteq {"proxy", "outbound"} =>
                       /\ converted(places) \in Seq(U)
                       /\ Range(converted(places)) =
                             {Parsing!Converted(d.items[i]) : i \in Placed(d, places)}
  BY ReadIs
<1>2. <<>> \in Seq(U)
  OBVIOUS
<1>3. \A uris \in Seq(U) :
         /\ Parsing!Accepted(uris) \in Seq(U)
         /\ Range(Parsing!Accepted(uris)) = {u \in Range(uris) : Parsing!ParsesAsLink(u)}
  BY AcceptedIs
<1>4. /\ Parsing!Tokens(d) = tokens({"token", "attribute", "script"})
      /\ Parsing!ClashProxies(d) =
            IF d.array THEN <<>> ELSE Parsing!Accepted(converted({"proxy"}))
      /\ Parsing!StringLeaves(d) = IF d.base64 THEN <<>> ELSE tokens({"token", "escaped"})
      /\ Parsing!XrayLinks(d) =
            IF d.array /\ d.items[1].place # "outbound" THEN <<>>
            ELSE Parsing!Accepted(converted({"outbound"}))
  BY DEF Parsing!Tokens, Parsing!ClashProxies, Parsing!StringLeaves, Parsing!XrayLinks
<1>5. Parsing!HtmlLinks(d) =
         IF d.shape # "html" \/ d.base64 THEN <<>>
         ELSE Parsing!Accepted(
                (quoted({"attribute", "script"}) \o Parsing!RunOns(d))
                \o (tokens({"block64"}) \o tokens({"block"})) \o tokens({"script"}))
  BY DEF Parsing!HtmlLinks, Parsing!AttributeLinks, Parsing!BlockLinks, Parsing!ScriptLinks
<1>6. Parsing!RunOns(d) \in Seq(U)
  BY RunOnsAre
<1> HIDE DEF U, tokens, quoted, converted
<1> DEFINE attributes == quoted({"attribute", "script"}) \o Parsing!RunOns(d)
           blocks == tokens({"block64"}) \o tokens({"block"})
           body == attributes \o blocks
           page == body \o tokens({"script"})
<1>7. attributes \in Seq(U) /\ Range(quoted({"attribute", "script"})) \subseteq Range(attributes)
  BY <1>1, <1>6, RangeConcatenation, ConcatProperties
<1>8. blocks \in Seq(U) /\ Range(blocks) = Range(tokens({"block64"})) \cup Range(tokens({"block"}))
  BY <1>1, RangeConcatenation, ConcatProperties
<1> HIDE DEF attributes, blocks
<1>9. body \in Seq(U) /\ Range(body) = Range(attributes) \cup Range(blocks)
  BY <1>7, <1>8, RangeConcatenation, ConcatProperties
<1> HIDE DEF body
<1>10. page \in Seq(U) /\ Range(page) = Range(body) \cup Range(tokens({"script"}))
  BY <1>1, <1>9, RangeConcatenation, ConcatProperties
<1>11. Parsing!HtmlLinks(d) =
         IF d.shape # "html" \/ d.base64 THEN <<>> ELSE Parsing!Accepted(page)
  BY <1>5 DEF attributes, blocks, body
<1> HIDE DEF page
<1>12. Parsing!HtmlLinks(d) \in Seq(U)
  BY <1>2, <1>3, <1>10, <1>11
<1>13. /\ Parsing!Tokens(d) \in Seq(U) /\ Parsing!ClashProxies(d) \in Seq(U)
       /\ Parsing!StringLeaves(d) \in Seq(U) /\ Parsing!XrayLinks(d) \in Seq(U)
  BY <1>1, <1>2, <1>3, <1>4
<1>14. d.shape = "html" /\ ~d.base64 =>
         Range(Parsing!HtmlLinks(d)) = {u \in Range(page) : Parsing!ParsesAsLink(u)}
  BY <1>3, <1>10, <1>11
<1>15. /\ Range(quoted({"attribute", "script"})) \subseteq Range(page)
       /\ Range(tokens({"block64"})) \subseteq Range(page) /\ Range(tokens({"block"})) \subseteq Range(page)
  BY <1>7, <1>8, <1>9, <1>10
<1>16. /\ ~d.array => Range(Parsing!ClashProxies(d)) =
            {u \in Range(converted({"proxy"})) : Parsing!ParsesAsLink(u)}
       /\ (d.array => d.items[1].place = "outbound") => Range(Parsing!XrayLinks(d)) =
            {u \in Range(converted({"outbound"})) : Parsing!ParsesAsLink(u)}
  BY <1>1, <1>3, <1>4
<1> DEFINE texts(places) == {Parsing!Token(d.items[i]) : i \in Placed(d, places)}
           quotes(places) == {Parsing!Quoted(d.items[i]) : i \in Placed(d, places)}
           entries(places) == {Parsing!Converted(d.items[i]) : i \in Placed(d, places)}
<1>17. \A places : /\ Range(tokens(places)) = texts(places) /\ Range(quoted(places)) = quotes(places)
                   /\ places \subseteq {"proxy", "outbound"} => Range(converted(places)) = entries(places)
  BY <1>1
<1> HIDE DEF texts, quotes, entries
<1>18. /\ Range(Parsing!Tokens(d)) = texts({"token", "attribute", "script"})
       /\ ~d.base64 => Range(Parsing!StringLeaves(d)) = texts({"token", "escaped"})
  BY <1>4, <1>17
<1>19. /\ ~d.array => Range(Parsing!ClashProxies(d)) =
            {u \in entries({"proxy"}) : Parsing!ParsesAsLink(u)}
       /\ (d.array => d.items[1].place = "outbound") => Range(Parsing!XrayLinks(d)) =
            {u \in entries({"outbound"}) : Parsing!ParsesAsLink(u)}
  BY <1>16, <1>17
<1>20. d.shape = "html" /\ ~d.base64 =>
         {u \in quotes({"attribute", "script"}) \cup texts({"block64"}) \cup texts({"block"}) :
             Parsing!ParsesAsLink(u)} \subseteq Range(Parsing!HtmlLinks(d))
  BY <1>14, <1>15, <1>17
<1> QED
  BY <1>12, <1>13, <1>18, <1>19, <1>20 DEF U, texts, quotes, entries

\* What the parser returns: the accepted texts of all its stages, each once.
LEMMA ParserFinds ==
    ASSUME NEW d, Bodied(d)
    PROVE  LET result == Parsing!ParseSubscriptionDocument(d)
               texts == Range(Parsing!Tokens(d)) \cup Range(Parsing!ClashProxies(d))
                        \cup Range(Parsing!StringLeaves(d)) \cup Range(Parsing!HtmlLinks(d))
                        \cup Range(Parsing!XrayLinks(d))
           IN  /\ result \in Seq(TextsOf(d)) /\ NoRepeats(result)
               /\ \A u \in texts : Parsing!ParsesAsLink(u) => \E k \in DOMAIN result : result[k] = u
<1> DEFINE U == TextsOf(d)
           tokens == Parsing!Tokens(d)
           proxies == Parsing!ClashProxies(d)
           strings == Parsing!StringLeaves(d)
           page == Parsing!HtmlLinks(d)
           outbounds == Parsing!XrayLinks(d)
           nothing == Parsing!Nothing
           text == Parsing!Collect(nothing, tokens)
           clash == Parsing!Collect(text, proxies)
           leaves == Parsing!Collect(clash, strings)
           html == Parsing!Collect(leaves, page)
           xray == Parsing!Collect(html, outbounds)
<1>1. /\ tokens \in Seq(U) /\ proxies \in Seq(U) /\ strings \in Seq(U)
      /\ page \in Seq(U) /\ outbounds \in Seq(U)
  BY StagesAre
<1>2. Parsing!ParseSubscriptionDocument(d) = xray.list
  BY DEF Parsing!ParseSubscriptionDocument
<1>3. nothing.seen = {} /\ Collected(nothing, U)
  BY NothingCollected
<1> HIDE DEF U, tokens, proxies, strings, page, outbounds, nothing
<1>4. Collected(text, U) /\ text.seen = nothing.seen \cup Range(tokens)
  BY <1>1, <1>3, CollectIs
<1> HIDE DEF text
<1>5. Collected(clash, U) /\ clash.seen = text.seen \cup Range(proxies)
  BY <1>1, <1>4, CollectIs
<1> HIDE DEF clash
<1>6. Collected(leaves, U) /\ leaves.seen = clash.seen \cup Range(strings)
  BY <1>1, <1>5, CollectIs
<1> HIDE DEF leaves
<1>7. Collected(html, U) /\ html.seen = leaves.seen \cup Range(page)
  BY <1>1, <1>6, CollectIs
<1> HIDE DEF html
<1>8. Collected(xray, U) /\ xray.seen = html.seen \cup Range(outbounds)
  BY <1>1, <1>7, CollectIs
<1> HIDE DEF xray
<1>9. xray.list \in Seq(U) /\ NoRepeats(xray.list)
      /\ Range(xray.list) = {u \in xray.seen : Parsing!ParsesAsLink(u)}
  BY <1>8 DEF Collected
<1>10. xray.seen = Range(tokens) \cup Range(proxies) \cup Range(strings) \cup Range(page) \cup Range(outbounds)
  BY <1>3, <1>4, <1>5, <1>6, <1>7, <1>8
<1>11. \A u \in Range(xray.list) : \E k \in DOMAIN xray.list : xray.list[k] = u
  BY DEF Range
<1> QED
  BY <1>2, <1>9, <1>10, <1>11 DEF U, tokens, proxies, strings, page, outbounds

\* Whatever forms a document mixes, a server some stage can read is among the
\* texts of the stages in its own form, and the parser accepts that text.
LEMMA StagesReach ==
    ASSUME NEW d, Bodied(d), {d.array, d.base64} \subseteq BOOLEAN,
           NEW i \in DOMAIN d.items,
           d.items[i].place \in {"token", "escaped", "proxy", "outbound"}
                \cup (IF d.shape = "html" THEN {"attribute", "block", "block64", "script"} ELSE {}),
           d.items[i].place = "proxy" => ~d.array,
           Readable(d.items[i], d)
    PROVE  LET item == d.items[i]
               form == IF item.place \in {"proxy", "outbound"} THEN item.place ELSE "link"
               text == Parsing!Found(item.server, form, "whole")
           IN  /\ Parsing!ParsesAsLink(text)
               /\ text \in Range(Parsing!Tokens(d)) \cup Range(Parsing!ClashProxies(d))
                           \cup Range(Parsing!StringLeaves(d)) \cup Range(Parsing!HtmlLinks(d))
                           \cup Range(Parsing!XrayLinks(d))
<1> DEFINE item == d.items[i]
           form == IF item.place \in {"proxy", "outbound"} THEN item.place ELSE "link"
           text == Parsing!Found(item.server, form, "whole")
           token == Parsing!Token(item)
           quoted == Parsing!Quoted(item)
           converted == Parsing!Converted(item)
<1>1. \A places : item.place \in places => i \in Placed(d, places)
  BY DEF Placed
<1>2. Parsing!ParsesAsLink(text)
  BY DEF Parsing!ParsesAsLink, Parsing!Found, Readable
<1>3. /\ form = "link" /\ ~item.server.comma => text = token
      /\ form = "link" => text = quoted
      /\ form # "link" => text = converted
  BY DEF Parsing!Token, Parsing!Quoted, Parsing!Converted
<1>4. CASE item.place = "token"
  <2>1. text = token /\ i \in Placed(d, {"token", "attribute", "script"})
    BY <1>1, <1>3, <1>4 DEF Readable
  <2>2. token \in Range(Parsing!Tokens(d))
    BY <2>1, StagesAre
  <2> QED
    BY <1>2, <2>1, <2>2
<1>5. CASE item.place = "escaped"
  <2>1. text = token /\ i \in Placed(d, {"token", "escaped"}) /\ ~d.base64
    BY <1>1, <1>3, <1>5 DEF Readable
  <2>2. token \in Range(Parsing!StringLeaves(d))
    BY <2>1, StagesAre
  <2> QED
    BY <1>2, <2>1, <2>2
<1>6. CASE item.place = "proxy"
  <2>1. text = converted /\ i \in Placed(d, {"proxy"}) /\ ~d.array
    BY <1>1, <1>3, <1>6
  <2>2. converted \in Range(Parsing!ClashProxies(d))
    BY <1>2, <2>1, StagesAre
  <2> QED
    BY <1>2, <2>1, <2>2
<1>7. CASE item.place = "outbound"
  <2>1. /\ text = converted /\ i \in Placed(d, {"outbound"})
        /\ d.array => d.items[1].place = "outbound"
    BY <1>1, <1>3, <1>7 DEF Readable
  <2>2. converted \in Range(Parsing!XrayLinks(d))
    BY <1>2, <2>1, StagesAre
  <2> QED
    BY <1>2, <2>1, <2>2
<1>8. CASE item.place \in {"attribute", "script"} /\ ~item.server.comma
  <2>1. text = token /\ i \in Placed(d, {"token", "attribute", "script"})
    BY <1>1, <1>3, <1>8
  <2>2. token \in Range(Parsing!Tokens(d))
    BY <2>1, StagesAre
  <2> QED
    BY <1>2, <2>1, <2>2
<1>9. CASE item.place \in {"attribute", "script"} /\ item.server.comma
  <2>1. /\ text = quoted /\ i \in Placed(d, {"attribute", "script"})
        /\ d.shape = "html" /\ ~d.base64
    BY <1>1, <1>3, <1>9 DEF Readable
  <2>2. quoted \in Range(Parsing!HtmlLinks(d))
    BY <1>2, <2>1, StagesAre
  <2> QED
    BY <1>2, <2>1, <2>2
<1>10. CASE item.place \in {"block", "block64"}
  <2>1. /\ text = token /\ i \in Placed(d, {"block"}) \cup Placed(d, {"block64"})
        /\ d.shape = "html" /\ ~d.base64
    BY <1>1, <1>3, <1>10 DEF Readable
  <2>2. token \in Range(Parsing!HtmlLinks(d))
    BY <1>2, <2>1, StagesAre
  <2> QED
    BY <1>2, <2>1, <2>2
<1> QED
  BY <1>4, <1>5, <1>6, <1>7, <1>8, <1>9, <1>10

\* A document and a ranked list take one step, and their answer is the result
\* of the function for the input they began with.
Answer ==
    /\ input \in Inputs
    /\ input.kind \in {"document", "served"} => stage \in {"new", "done"}
    /\ stage = "done" /\ input.kind = "document" =>
          answer = {Parsing!ParseSubscriptionDocument(input.value)}
    /\ stage = "done" /\ input.kind = "served" =>
          answer = {Export!GenerateClashConfig(
                      Export!ServedItems(input.value.ranked, input.value.topN))}

LEMMA AnswerStep == Answer /\ [ConversionNext]_conversionVars => Answer'
<1> SUFFICES ASSUME Answer, [ConversionNext]_conversionVars PROVE Answer'
  OBVIOUS
<1>1. CASE ReadServer
  <2>1. input' = input /\ input.kind \in {"link", "clash", "xray"} /\ stage' = "read"
    BY <1>1 DEF ReadServer
  <2> QED
    BY <2>1 DEF Answer, Inputs
<1>2. CASE ProbeLink
  <2>1. input' = input /\ stage = "read"
    BY <1>2 DEF ProbeLink
  <2> QED
    BY <2>1 DEF Answer, Inputs
<1>3. CASE ExportLink
  <2>1. input' = input /\ stage = "probed"
    BY <1>3 DEF ExportLink
  <2> QED
    BY <2>1 DEF Answer, Inputs
<1>4. CASE ReadDocument
  BY <1>4 DEF ReadDocument, Answer, Inputs
<1>5. CASE ServeMihomo
  BY <1>5 DEF ServeMihomo, Answer, Inputs
<1>6. CASE UNCHANGED conversionVars
  BY <1>6 DEF conversionVars, Answer, Inputs
<1> QED
  BY <1>1, <1>2, <1>3, <1>4, <1>5, <1>6 DEF ConversionNext

LEMMA AnswerInit == ConversionInit => Answer
  BY DEF ConversionInit, Answer

\* A feed that mixes forms loses none of its servers and repeats none, however
\* long it is: a server some stage of parse_subscription_document can read is
\* found once in the form it has, whatever the stages before found.
THEOREM NoServerIsLost == ConversionSpec => []NothingLost
<1>1. Answer => NothingLost
  <2> DEFINE d == input.value
             result == Parsing!ParseSubscriptionDocument(d)
             form(i) == IF d.items[i].place \in {"proxy", "outbound"} THEN d.items[i].place ELSE "link"
             text(i) == Parsing!Found(d.items[i].server, form(i), "whole")
  <2> SUFFICES ASSUME Answer, input.kind = "document", stage = "done",
                      NEW i \in DOMAIN d.items, Readable(d.items[i], d)
               PROVE  Cardinality({k \in DOMAIN result : result[k] = text(i)}) = 1
    BY DEF Answer, NothingLost
  <2>1. d \in Documents
    BY DEF Answer, Inputs
  <2>2. /\ Bodied(d) /\ {d.array, d.base64} \subseteq BOOLEAN
        /\ d.items[i].place \in {"token", "escaped", "proxy", "outbound"}
              \cup (IF d.shape = "html" THEN {"attribute", "block", "block64", "script"} ELSE {})
        /\ d.items[i].place = "proxy" => ~d.array
    BY <2>1, InputsFit DEF DocumentsFit, Bodied, ToSet, Range
  <2>3. PICK k \in DOMAIN result : result[k] = text(i)
    BY <2>2, ParserFinds, StagesReach
  <2>4. NoRepeats(result)
    BY <2>2, ParserFinds
  <2> HIDE DEF result, text
  <2>5. {j \in DOMAIN result : result[j] = text(i)} = {k}
    BY <2>3, <2>4 DEF NoRepeats
  <2>6. Cardinality({k}) = 1
    BY FS_Singleton
  <2> QED
    BY <2>5, <2>6
<1> QED
  BY <1>1, AnswerInit, AnswerStep, PTL DEF ConversionSpec
-----------------------------------------------------------------------------
(* The served list as Clash proxies.                                          *)

Taken(items) == {i \in DOMAIN items : Export!UriToClash(items[i].link) # {}}
Firsts(items) ==
    {i \in Taken(items) : \A j \in Taken(items) : items[j].endpoint = items[i].endpoint => i <= j}
Rank(items, endpoint) == CHOOSE i \in Firsts(items) : items[i].endpoint = endpoint
Numbered(items) == \E i \in DOMAIN items : Len(items[i].name) > 1

\* The name of the proxy that is the count-th of its name.
Given(name, count) == IF count > 1 THEN Append(name, count) ELSE name

\* A list of items whose names begin with a text.
Listed(items) ==
    /\ items \in Seq(Range(items))
    /\ \A i \in DOMAIN items :
          LET name == items[i].name
          IN  Len(name) \in Nat \ {0} /\ name = [k \in 1 .. Len(name) |-> name[k]]

PartsOf(items) == Nat \cup UNION {Range(items[i].name) : i \in DOMAIN items}
NamesOf(items) == {items[i].name : i \in DOMAIN items}
EndpointsOf(items) == {items[i].endpoint : i \in DOMAIN items}

LEMMA NamesAreTexts ==
    ASSUME NEW items, Listed(items), NEW b \in NamesOf(items)
    PROVE  b \in Seq(PartsOf(items)) /\ Len(b) \in Nat \ {0}
<1>1. PICK i \in DOMAIN items : b = items[i].name
  BY DEF NamesOf
<1>2. Len(b) \in Nat \ {0} /\ b = [k \in 1 .. Len(b) |-> b[k]]
  BY <1>1 DEF Listed
<1>3. \A k \in 1 .. Len(b) : b[k] \in PartsOf(items)
  <2>1. DOMAIN b = 1 .. Len(b)
    BY <1>2
  <2> QED
    BY <1>1, <2>1 DEF PartsOf, Range
<1> DEFINE n == Len(b)
           T == PartsOf(items)
<1> HIDE DEF n, T
<1>4. [k \in 1 .. n |-> b[k]] \in Seq(T)
  BY <1>2, <1>3 DEF n, T
<1> QED
  BY <1>2, <1>4 DEF n, T

\* The numbers tell apart the proxies of one name, and the texts the others:
\* the sequence of a text and a number is that of no other text and number.
LEMMA GivenApart ==
    ASSUME NEW T, Nat \subseteq T, NEW a \in Seq(T), NEW b \in Seq(T), Len(a) = 1, Len(b) = 1,
           NEW c \in Nat \ {0}, NEW d \in Nat \ {0}, Given(a, c) = Given(b, d)
    PROVE  a = b /\ c = d
<1>1. c \in T /\ d \in T
  OBVIOUS
<1>2. /\ Len(Append(a, c)) = 2 /\ Append(a, c)[1] = a[1] /\ Append(a, c)[2] = c
      /\ Len(Append(b, d)) = 2 /\ Append(b, d)[1] = b[1] /\ Append(b, d)[2] = d
  <2>1. \A s \in Seq(T), e \in T : Len(s) = 1 =>
           Len(Append(s, e)) = 2 /\ Append(s, e)[1] = s[1] /\ Append(s, e)[2] = e
    <3>1. TAKE s \in Seq(T), e \in T
    <3>2. /\ Len(Append(s, e)) = Len(s) + 1
          /\ \A i \in 1 .. Len(s) : Append(s, e)[i] = s[i]
          /\ Append(s, e)[Len(s) + 1] = e
      BY AppendProperties
    <3>3. Len(s) = 1 => 1 \in 1 .. Len(s) /\ Len(s) + 1 = 2
      OBVIOUS
    <3> QED
      BY <3>2, <3>3
  <2> QED
    BY <1>1, <2>1
<1>3. a[1] = b[1] => a = b
  <2>1. \A i \in 1 .. Len(a) : i = 1
    OBVIOUS
  <2>2. a[1] = b[1] => \A i \in 1 .. Len(a) : a[i] = b[i]
    BY <2>1
  <2>3. Len(a) = Len(b)
    OBVIOUS
  <2> QED
    BY <2>2, <2>3, SeqEqual
<1>4. CASE c > 1 /\ d > 1
  <2>1. Append(a, c) = Append(b, d)
    BY <1>4 DEF Given
  <2> QED
    BY <1>2, <1>3, <2>1
<1>5. CASE ~(c > 1) /\ ~(d > 1)
  <2>1. a = b
    BY <1>5 DEF Given
  <2>2. c = 1 /\ d = 1
    BY <1>5
  <2> QED
    BY <2>1, <2>2
<1>6. CASE ~(c > 1) /\ d > 1
  <2>1. a = Append(b, d)
    BY <1>6 DEF Given
  <2> QED
    BY <1>2, <2>1
<1>7. CASE c > 1 /\ ~(d > 1)
  <2>1. Append(a, c) = b
    BY <1>7 DEF Given
  <2> QED
    BY <1>2, <2>1
<1> QED
  BY <1>4, <1>5, <1>6, <1>7

LEMMA FirstsRank ==
    ASSUME NEW items, Listed(items)
    PROVE  /\ DOMAIN items = 1 .. Len(items) /\ Len(items) \in Nat
           /\ \A i \in Firsts(items) : Rank(items, items[i].endpoint) = i
           /\ \A i \in Taken(items) : \E f \in Firsts(items) : items[f].endpoint = items[i].endpoint
<1>1. DOMAIN items = 1 .. Len(items) /\ Len(items) \in Nat
  BY LenProperties DEF Listed
<1>2. Taken(items) \subseteq Nat /\ Firsts(items) \subseteq Taken(items)
  BY <1>1 DEF Taken, Firsts
<1>3. ASSUME NEW i \in Firsts(items) PROVE Rank(items, items[i].endpoint) = i
  <2> DEFINE r == Rank(items, items[i].endpoint)
  <2>1. r \in Firsts(items) /\ items[r].endpoint = items[i].endpoint
    BY <1>3 DEF Rank
  <2> HIDE DEF r
  <2>2. r <= i /\ i <= r
    BY <1>2, <1>3, <2>1 DEF Firsts
  <2>3. r \in Nat /\ i \in Nat
    BY <1>2, <1>3, <2>1
  <2>4. r = i
    BY <2>2, <2>3
  <2> QED
    BY <2>4 DEF r
<1>4. ASSUME NEW i \in Taken(items)
      PROVE  \E f \in Firsts(items) : items[f].endpoint = items[i].endpoint
  <2> DEFINE same == {j \in Taken(items) : items[j].endpoint = items[i].endpoint}
  <2>1. same \in SUBSET Nat /\ same # {}
    BY <1>2, <1>4
  <2>2. PICK f \in same : \A j \in same : f <= j
    BY <2>1, LeastNatural
  <2> QED
    BY <2>2 DEF Firsts
<1> QED
  BY <1>1, <1>3, <1>4

\* What the export holds after the first n items of the list.
Exports(items) ==
    [endpoints : SUBSET EndpointsOf(items),
     names : UNION {[known -> Nat \ {0}] : known \in SUBSET NamesOf(items)},
     proxies : Seq([name : Seq(PartsOf(items)), endpoint : EndpointsOf(items)])]

Exported(items, n, acc) ==
    /\ acc \in Exports(items)
    /\ acc.endpoints = {items[i].endpoint : i \in {j \in Taken(items) : j <= n}}
    /\ acc.endpoints = {acc.proxies[k].endpoint : k \in DOMAIN acc.proxies}
    /\ \A k \in DOMAIN acc.proxies :
          /\ Rank(items, acc.proxies[k].endpoint) \in 1 .. n
          /\ \E b \in DOMAIN acc.names : \E c \in 1 .. acc.names[b] : acc.proxies[k].name = Given(b, c)
    /\ \A k, l \in DOMAIN acc.proxies : k < l =>
          /\ Rank(items, acc.proxies[k].endpoint) < Rank(items, acc.proxies[l].endpoint)
          /\ Numbered(items) \/ acc.proxies[k].name # acc.proxies[l].name

LEMMA AddProxyIs ==
    ASSUME NEW items, Listed(items), NEW i \in 1 .. Len(items), NEW acc, Exported(items, i - 1, acc)
    PROVE  Exported(items, i, Export!AddProxy(acc, items[i]))
<1> DEFINE made == acc.proxies
           base == items[i].name
           spot == items[i].endpoint
           added == Export!AddProxy(acc, items[i])
           count == 1 + (IF base \in DOMAIN acc.names THEN acc.names[base] ELSE 0)
           new == [name |-> Given(base, count), endpoint |-> spot]
           names == [n \in DOMAIN acc.names \cup {base} |-> IF n = base THEN count ELSE acc.names[n]]
           longer == Append(made, new)
           Upto(n) == {items[j].endpoint : j \in {k \in Taken(items) : k <= n}}
<1>1. /\ DOMAIN items = 1 .. Len(items) /\ Len(items) \in Nat /\ i \in Nat /\ i - 1 \in Nat
      /\ \A j \in Firsts(items) : Rank(items, items[j].endpoint) = j
  BY FirstsRank
<1>2. /\ acc.endpoints \subseteq EndpointsOf(items) /\ made \in Seq([name : Seq(PartsOf(items)), endpoint : EndpointsOf(items)])
      /\ DOMAIN acc.names \subseteq NamesOf(items) /\ \A b \in DOMAIN acc.names : acc.names[b] \in Nat \ {0}
      /\ acc \in Exports(items)
  BY DEF Exported, Exports
<1>3. acc.endpoints = Upto(i - 1)
  BY DEF Exported
<1>4. Taken(items) \subseteq Nat
  BY <1>1 DEF Taken
<1>5. ASSUME Export!UriToClash(items[i].link) = {} \/ spot \in acc.endpoints
      PROVE  Exported(items, i, added)
  <2>1. added = acc
    BY <1>5 DEF Export!AddProxy
  <2>2. Upto(i) = Upto(i - 1)
    <3>1. \A j \in Taken(items) : j <= i => j <= i - 1 \/ j = i
      BY <1>1, <1>4
    <3>2. \A j \in Taken(items) : j <= i - 1 => j <= i
      BY <1>1, <1>4
    <3>3. i \in Taken(items) => spot \in Upto(i - 1)
      BY <1>3, <1>5 DEF Taken
    <3> QED
      BY <3>1, <3>2, <3>3
  <2>3. \A r : r \in 1 .. i - 1 => r \in 1 .. i
    BY <1>1
  <2> HIDE DEF Upto
  <2>4. acc.endpoints = Upto(i)
    BY <1>3, <2>2
  <2> HIDE DEF added
  <2> QED
    BY <2>1, <2>3, <2>4 DEF Exported, Upto
<1>6. ASSUME Export!UriToClash(items[i].link) # {}, spot \notin acc.endpoints
      PROVE  Exported(items, i, added)
  <2>1. added = [endpoints |-> acc.endpoints \cup {spot}, names |-> names, proxies |-> longer]
    BY <1>6 DEF Export!AddProxy, Given
  <2>2. i \in Taken(items) /\ i \in Firsts(items)
    <3>1. i \in Taken(items)
      BY <1>1, <1>6 DEF Taken
    <3>2. ASSUME NEW j \in Taken(items), items[j].endpoint = spot PROVE i <= j
      <4>1. ~(j <= i - 1)
        BY <1>3, <1>6, <3>2
      <4> QED
        BY <1>1, <1>4, <4>1
    <3> QED
      BY <3>1, <3>2 DEF Firsts
  <2>3. Rank(items, spot) = i
    BY <1>1, <2>2
  <2>4. base \in NamesOf(items) /\ spot \in EndpointsOf(items)
    BY <1>1 DEF NamesOf, EndpointsOf
  <2>5. base \in Seq(PartsOf(items)) /\ Nat \subseteq PartsOf(items)
    BY <2>4, NamesAreTexts DEF PartsOf
  <2>6. count \in Nat \ {0} /\ (base \in DOMAIN acc.names => count = acc.names[base] + 1)
    BY <1>2
  <2> HIDE DEF count
  <2>7. Given(base, count) \in Seq(PartsOf(items))
    <3>1. count \in PartsOf(items)
      BY <2>5, <2>6
    <3> QED
      BY <2>5, <3>1, AppendProperties DEF Given
  <2>8. /\ longer \in Seq([name : Seq(PartsOf(items)), endpoint : EndpointsOf(items)])
        /\ Len(longer) = Len(made) + 1 /\ longer[Len(made) + 1] = new
        /\ \A k \in 1 .. Len(made) : longer[k] = made[k]
    <3>1. new \in [name : Seq(PartsOf(items)), endpoint : EndpointsOf(items)]
      BY <2>4, <2>7
    <3> HIDE DEF new
    <3> QED
      BY <1>2, <3>1, AppendProperties
  <2> DEFINE m == Len(made) + 1
  <2>9. /\ DOMAIN made = 1 .. Len(made) /\ Len(made) \in Nat
        /\ DOMAIN longer = 1 .. m
    BY <1>2, <2>8, LenProperties
  <2>10. /\ DOMAIN longer = DOMAIN made \cup {m} /\ m \notin DOMAIN made
         /\ \A k \in DOMAIN made : longer[k] = made[k] /\ k < m
         /\ longer[m] = new /\ m \in Nat /\ DOMAIN made \subseteq Nat
    BY <2>8, <2>9
  <2> HIDE DEF longer, m
  <2>11. names \in UNION {[known -> Nat \ {0}] : known \in SUBSET NamesOf(items)}
    <3>1. DOMAIN acc.names \cup {base} \in SUBSET NamesOf(items)
      BY <1>2, <2>4
    <3>2. names \in [DOMAIN acc.names \cup {base} -> Nat \ {0}]
      BY <1>2, <2>6
    <3> QED
      BY <3>1, <3>2
  <2>12. /\ DOMAIN names = DOMAIN acc.names \cup {base} /\ names[base] = count
         /\ \A b \in DOMAIN acc.names : b # base => names[b] = acc.names[b]
    OBVIOUS
  <2> HIDE DEF names
  <2>13. \A k \in DOMAIN made : \E b \in DOMAIN acc.names : \E c \in 1 .. acc.names[b] : made[k].name = Given(b, c)
    BY DEF Exported
  <2>14. Upto(i) = Upto(i - 1) \cup {spot}
    <3>1. \A j \in Taken(items) : j <= i <=> (j <= i - 1 \/ j = i)
      BY <1>1, <1>4
    <3> QED
      BY <2>2, <3>1
  <2> HIDE DEF Upto
  <2>15. acc.endpoints \cup {spot} = Upto(i)
    BY <1>3, <2>14
  <2>16. new.endpoint = spot /\ new.name = Given(base, count)
    OBVIOUS
  <2> HIDE DEF new
  <2>17. acc.endpoints \cup {spot} = {longer[k].endpoint : k \in DOMAIN longer}
    <3>1. acc.endpoints = {made[k].endpoint : k \in DOMAIN made}
      BY DEF Exported
    <3> QED
      BY <2>10, <2>16, <3>1
  <2>18. ASSUME NEW k \in DOMAIN longer
         PROVE  /\ Rank(items, longer[k].endpoint) \in 1 .. i
                /\ \E b \in DOMAIN names : \E c \in 1 .. names[b] : longer[k].name = Given(b, c)
    <3>1. CASE k = m
      <4>1. count \in 1 .. names[base] /\ i \in 1 .. i
        BY <1>1, <2>6, <2>12
      <4> QED
        BY <2>3, <2>10, <2>12, <2>16, <3>1, <4>1
    <3>2. CASE k \in DOMAIN made
      <4>1. Rank(items, made[k].endpoint) \in 1 .. i - 1
        BY <3>2 DEF Exported
      <4>2. Rank(items, made[k].endpoint) \in 1 .. i
        BY <1>1, <4>1
      <4>a. PICK b \in DOMAIN acc.names : \E c \in 1 .. acc.names[b] : made[k].name = Given(b, c)
        BY <2>13, <3>2
      <4>3. PICK c \in 1 .. acc.names[b] : made[k].name = Given(b, c)
        BY <4>a
      <4>4. c \in 1 .. names[b]
        <5>1. CASE b = base
          BY <1>2, <2>6, <2>12, <4>3, <5>1
        <5>2. CASE b # base
          BY <2>12, <4>3, <5>2
        <5> QED
          BY <5>1, <5>2
      <4> QED
        BY <2>10, <2>12, <3>2, <4>2, <4>3, <4>4
    <3> QED
      BY <2>10, <3>1, <3>2
  <2>19. ASSUME NEW k \in DOMAIN longer, NEW l \in DOMAIN longer, k < l
         PROVE  /\ Rank(items, longer[k].endpoint) < Rank(items, longer[l].endpoint)
                /\ Numbered(items) \/ longer[k].name # longer[l].name
    <3>1. CASE l \in DOMAIN made
      <4>1. k \in DOMAIN made
        BY <2>10, <2>19, <3>1
      <4> QED
        BY <2>10, <2>19, <3>1, <4>1 DEF Exported
    <3>2. CASE l = m
      <4>1. k \in DOMAIN made
        BY <2>10, <2>19, <3>2
      <4>2. Rank(items, made[k].endpoint) \in 1 .. i - 1
        BY <4>1 DEF Exported
      <4>3. Rank(items, made[k].endpoint) < i
        BY <1>1, <4>2
      <4>4. ASSUME ~Numbered(items), made[k].name = Given(base, count) PROVE FALSE
        <5>0. PICK b \in DOMAIN acc.names : \E c \in 1 .. acc.names[b] : made[k].name = Given(b, c)
          BY <2>13, <4>1
        <5>1. PICK c \in 1 .. acc.names[b] : made[k].name = Given(b, c)
          BY <5>0
        <5>2. b \in NamesOf(items) /\ c \in Nat \ {0} /\ c <= acc.names[b]
          BY <1>2, <5>1
        <5>3. \A n \in NamesOf(items) : n \in Seq(PartsOf(items)) /\ Len(n) = 1
          <6>1. TAKE n \in NamesOf(items)
          <6>2. n \in Seq(PartsOf(items)) /\ Len(n) \in Nat \ {0}
            BY NamesAreTexts
          <6>3. PICK j \in DOMAIN items : n = items[j].name
            BY DEF NamesOf
          <6>4. ~(Len(n) > 1)
            BY <4>4, <6>3 DEF Numbered
          <6>5. Len(n) = 1
            <7> DEFINE size == Len(n)
            <7>1. size \in Nat \ {0} /\ ~(size > 1)
              BY <6>2, <6>4
            <7> HIDE DEF size
            <7>2. size = 1
              BY <7>1
            <7> QED
              BY <7>2 DEF size
          <6> QED
            BY <6>2, <6>5
        <5>4. b = base /\ c = count
          <6>1. /\ b \in Seq(PartsOf(items)) /\ Len(b) = 1 /\ c \in Nat \ {0}
                /\ base \in Seq(PartsOf(items)) /\ Len(base) = 1 /\ count \in Nat \ {0}
            BY <2>4, <2>6, <5>2, <5>3
          <6>2. Given(b, c) = Given(base, count)
            BY <4>4, <5>1
          <6> QED
            BY <2>5, <6>1, <6>2, GivenApart
        <5> QED
          BY <1>2, <2>6, <5>1, <5>2, <5>4
      <4> QED
        BY <2>3, <2>10, <2>16, <3>2, <4>1, <4>3, <4>4
    <3> QED
      BY <2>10, <3>1, <3>2
  <2>20. added \in Exports(items)
    <3>1. acc.endpoints \cup {spot} \in SUBSET EndpointsOf(items)
      BY <1>2, <2>4
    <3> HIDE DEF added
    <3> QED
      BY <2>1, <2>8, <2>11, <3>1 DEF Exports
  <2>21. added.endpoints = acc.endpoints \cup {spot} /\ added.names = names /\ added.proxies = longer
    BY <2>1
  <2> HIDE DEF added
  <2>22. /\ added.endpoints = {items[j].endpoint : j \in {k \in Taken(items) : k <= i}}
         /\ added.endpoints = {added.proxies[k].endpoint : k \in DOMAIN added.proxies}
    BY <2>15, <2>17, <2>21 DEF Upto
  <2>23. \A k \in DOMAIN added.proxies :
            /\ Rank(items, added.proxies[k].endpoint) \in 1 .. i
            /\ \E b \in DOMAIN added.names :
                  \E c \in 1 .. added.names[b] : added.proxies[k].name = Given(b, c)
    BY <2>18, <2>21
  <2>24. \A k, l \in DOMAIN added.proxies : k < l =>
            /\ Rank(items, added.proxies[k].endpoint) < Rank(items, added.proxies[l].endpoint)
            /\ Numbered(items) \/ added.proxies[k].name # added.proxies[l].name
    BY <2>19, <2>21
  <2> QED
    BY <2>20, <2>22, <2>23, <2>24 DEF Exported
<1> QED
  BY <1>5, <1>6

\* The configuration made from a list holds what its last item leaves.
LEMMA GeneratedIs ==
    ASSUME NEW items, Listed(items)
    PROVE  \E acc : /\ Exported(items, Len(items), acc)
                    /\ Export!GenerateClashConfig(items) =
                         [proxies |-> acc.proxies,
                          groups |-> IF acc.proxies = <<>> THEN Export!NoOpts
                                     ELSE Export!ProxyGroups({acc.proxies[k].name : k \in DOMAIN acc.proxies}),
                          rules |-> Export!ClashRules]
<1> DEFINE empty == [endpoints |-> {}, names |-> Export!NoOpts, proxies |-> <<>>]
           add(v, i) == Export!AddProxy(v, items[i])
           states == {x \in (0 .. Len(items)) \X Exports(items) : Exported(items, x[1], x[2])}
           F == [x \in states |-> add(x[2], x[1] + 1)]
<1>1. Len(items) \in Nat
  BY FirstsRank
<1>2. <<0, empty>> \in states
  <2>1. /\ <<>> \in Seq([name : Seq(PartsOf(items)), endpoint : EndpointsOf(items)]) /\ DOMAIN <<>> = {}
        /\ Export!NoOpts = <<>>
    BY DEF Export!NoOpts
  <2>2. <<>> \in UNION {[known -> Nat \ {0}] : known \in SUBSET NamesOf(items)}
    <3>1. <<>> \in [{} -> Nat \ {0}] /\ {} \in SUBSET NamesOf(items)
      OBVIOUS
    <3> QED
      BY <3>1
  <2>3. empty \in Exports(items)
    BY <2>1, <2>2 DEF Exports
  <2>4. {j \in Taken(items) : j <= 0} = {}
    BY FirstsRank DEF Taken
  <2>5. empty.endpoints = {} /\ empty.proxies = <<>> /\ 0 \in 0 .. Len(items)
    BY <1>1
  <2> HIDE DEF empty
  <2>6. Exported(items, 0, empty)
    BY <2>1, <2>3, <2>4, <2>5 DEF Exported
  <2> QED
    BY <2>3, <2>5, <2>6
<1>3. ASSUME NEW i \in 1 .. Len(items), NEW v, <<i - 1, v>> \in states
      PROVE  F[<<i - 1, v>>] = add(v, i) /\ <<i, add(v, i)>> \in states
  <2>1. Exported(items, i - 1, v)
    BY <1>3
  <2>2. F[<<i - 1, v>>] = add(v, i)
    <3>1. (i - 1) + 1 = i
      BY <1>1
    <3> QED
      BY <1>3, <3>1
  <2>3. i \in 0 .. Len(items)
    BY <1>1
  <2>4. Exported(items, i, add(v, i))
    BY <2>1, AddProxyIs
  <2> HIDE DEF add
  <2>5. add(v, i) \in Exports(items)
    BY <2>4 DEF Exported
  <2> QED
    BY <2>2, <2>3, <2>4, <2>5
<1> HIDE DEF states, add, F, empty
<1>4. PICK g : /\ g = [i \in 0 .. Len(items) |-> IF i = 0 THEN empty ELSE F[<<i - 1, g[i - 1]>>]]
               /\ \A i \in 0 .. Len(items) : <<i, g[i]>> \in states
  <2>1. Stays(F, Len(items), states)
    BY <1>3 DEF Stays
  <2>2. \E g : /\ IsLoop(g, Len(items), empty, F)
               /\ \A i \in 0 .. Len(items) : <<i, g[i]>> \in states
    BY <1>1, <1>2, <2>1, LoopInSet
  <2> QED
    BY <2>2 DEF IsLoop
<1> DEFINE Run(h) == h = [i \in 0 .. Len(items) |-> IF i = 0 THEN empty ELSE add(h[i - 1], i)]
           h == CHOOSE h : Run(h)
           acc == h[Len(items)]
<1>5. Run(g)
  <2>1. \A i \in 0 .. Len(items) : i # 0 => F[<<i - 1, g[i - 1]>>] = add(g[i - 1], i)
    <3>1. TAKE i \in 0 .. Len(items)
    <3>2. i # 0 => i \in 1 .. Len(items) /\ i - 1 \in 0 .. Len(items)
      BY <1>1
    <3> QED
      BY <1>3, <1>4, <3>2
  <2> QED
    BY <1>4, <2>1
<1>6. Run(h)
  BY <1>5
<1>7. Export!GenerateClashConfig(items) =
         [proxies |-> acc.proxies,
          groups |-> IF acc.proxies = <<>> THEN Export!NoOpts
                     ELSE Export!ProxyGroups({acc.proxies[k].name : k \in DOMAIN acc.proxies}),
          rules |-> Export!ClashRules]
  BY DEF Export!GenerateClashConfig, add, empty
<1> HIDE DEF h
<1>8. h[0] = empty /\ \A i \in 1 .. Len(items) : h[i] = add(h[i - 1], i)
  <2>1. \A i \in 0 .. Len(items) : h[i] = IF i = 0 THEN empty ELSE add(h[i - 1], i)
    BY <1>6
  <2> QED
    BY <1>1, <2>1
<1>9. <<Len(items), acc>> \in states
  <2>1. \A i \in 1 .. Len(items) : <<i - 1, h[i - 1]>> \in states => <<i, h[i]>> \in states
    <3> SUFFICES ASSUME NEW i \in 1 .. Len(items), <<i - 1, h[i - 1]>> \in states
                 PROVE  <<i, h[i]>> \in states
      OBVIOUS
    <3> QED
      BY <1>3, <1>8
  <2>2. <<0, h[0]>> \in states
    BY <1>2, <1>8
  <2> HIDE DEF Run
  <2> QED
    BY <1>1, <2>1, <2>2, LoopStays
<1> HIDE DEF acc
<1>10. Exported(items, Len(items), acc)
  BY <1>9 DEF states
<1> QED
  BY <1>7, <1>10

\* A group lists proxies, groups, and the direct way.
LEMMA GroupsAre ==
    ASSUME NEW names, NEW g \in DOMAIN Export!ProxyGroups(names)
    PROVE  Export!ProxyGroups(names)[g]
              \subseteq names \cup DOMAIN Export!ProxyGroups(names) \cup {Export!Direct}
<1> DEFINE countries == Export!DetectCountries(names)
           regions == IF \E a, b \in countries : a # b THEN {Export!Regions} ELSE {}
           auto == Export!Auto
           manual == Export!Manual
           direct == Export!Direct
           groups == [k \in {manual, auto} \cup regions \cup countries |->
                        IF k = manual THEN {auto, direct} \cup regions
                        ELSE IF k = auto THEN names
                        ELSE IF k \in regions THEN countries \cup {auto}
                        ELSE {}]
<1>1. Export!ProxyGroups(names) = groups
  BY DEF Export!ProxyGroups
<1> HIDE DEF countries, regions, auto, manual, direct
<1>2. \A k \in DOMAIN groups : groups[k] \subseteq names \cup DOMAIN groups \cup {direct}
  OBVIOUS
<1> HIDE DEF groups
<1> QED
  BY <1>1, <1>2 DEF direct

\* What is served of a ranked list: items of it.
LEMMA ServedAre ==
    ASSUME NEW ranked, ranked \in Seq(Range(ranked)), NEW topN \in Nat
    PROVE  Export!ServedItems(ranked, topN) \in Seq(Range(ranked))
<1> DEFINE wanted == {item \in ToSet(ranked) : item.reachable}
           served == Kept(ranked, wanted)
           last == IF topN < Len(served) THEN topN ELSE Len(served)
<1>1. Export!ServedItems(ranked, topN) = SubSeq(served, 1, last)
  BY DEF Export!ServedItems, Export!Kept, Kept, Export!ToSet, ToSet
<1>2. served \in Seq(Range(ranked))
  BY KeptIs
<1> HIDE DEF served
<1>3. Len(served) \in Nat /\ \A k \in 1 .. Len(served) : served[k] \in Range(ranked)
  BY <1>2, LenProperties, ElementOfSeq
<1>4. last \in 0 .. Len(served)
  BY <1>3
<1>5. \A k \in 1 .. last : served[k] \in Range(ranked)
  BY <1>3, <1>4
<1> HIDE DEF last
<1> QED
  BY <1>1, <1>2, <1>3, <1>4, <1>5, SubSeqProperties

\* The export lists every server the program serves and Clash can take, once
\* and in the order of the ranking, under names no two share, and its groups
\* name only what it defines, however many are served (generate_clash_config,
\* build_clash_yaml).  Names that end with a number of their own are excepted:
\* a second "a" and a first "a (2)" are both "a (2)".
THEOREM ExportIsComplete == ConversionSpec => []ExportListsServed
<1>1. Answer => ExportListsServed
  <2> DEFINE ranked == input.value.ranked
             served == Export!ServedItems(ranked, input.value.topN)
             config == Export!GenerateClashConfig(served)
             made == config.proxies
             names == {made[i].name : i \in DOMAIN made}
             Good(c) ==
                /\ {c.proxies[i].endpoint : i \in DOMAIN c.proxies} = {served[i].endpoint : i \in Firsts(served)}
                /\ \A i, j \in DOMAIN c.proxies :
                      i < j => /\ Rank(served, c.proxies[i].endpoint) < Rank(served, c.proxies[j].endpoint)
                               /\ Numbered(served) \/ c.proxies[i].name # c.proxies[j].name
                /\ \A g \in DOMAIN c.groups : c.groups[g] \subseteq
                      {c.proxies[i].name : i \in DOMAIN c.proxies} \cup DOMAIN c.groups \cup {Export!Direct}
  <2> SUFFICES ASSUME Answer, input.kind = "served", stage = "done" PROVE Good(config)
    <3>1. (input.kind = "served" /\ stage = "done" => \A c \in answer : Good(c)) => ExportListsServed
      BY Zenon DEF ExportListsServed, Rank, Numbered, Firsts, Taken
    <3>2. input.kind = "served" /\ stage = "done" /\ Answer => answer = {config}
      BY DEF Answer
    <3> HIDE DEF config, Good
    <3> QED
      BY <3>1, <3>2
  <2>1. input.value \in Rankings
    BY DEF Answer, Inputs
  <2>2. /\ ranked \in Seq(Range(ranked)) /\ input.value.topN \in Nat
        /\ \A k \in DOMAIN ranked :
              LET name == ranked[k].name
              IN  Len(name) \in Nat \ {0} /\ name = [n \in 1 .. Len(name) |-> name[n]]
    BY <2>1, InputsFit DEF RankingsFit, ToSet, Range
  <2>3. served \in Seq(Range(ranked))
    BY <2>2, ServedAre
  <2> HIDE DEF served
  <2>4. Listed(served)
    <3>1. DOMAIN served = 1 .. Len(served) /\ Len(served) \in Nat /\ \A i \in DOMAIN served : served[i] \in Range(ranked)
      BY <2>3, LenProperties, ElementOfSeq
    <3>2. served \in Seq(Range(served))
      <4>1. \A i \in DOMAIN served : served[i] \in Range(served)
        BY DEF Range
      <4>2. served \in [1 .. Len(served) -> Range(served)]
        BY <2>3, <3>1, <4>1, SeqDef
      <4> QED
        BY <3>1, <4>2, SeqDef
    <3>3. ASSUME NEW i \in DOMAIN served
          PROVE  LET name == served[i].name
                 IN  Len(name) \in Nat \ {0} /\ name = [n \in 1 .. Len(name) |-> name[n]]
      <4>1. PICK k \in DOMAIN ranked : served[i] = ranked[k]
        BY <3>1 DEF Range
      <4> QED
        BY <2>2, <4>1
    <3> QED
      BY <3>2, <3>3 DEF Listed
  <2>5. PICK acc : /\ Exported(served, Len(served), acc)
                   /\ config = [proxies |-> acc.proxies,
                                groups |-> IF acc.proxies = <<>> THEN Export!NoOpts
                                           ELSE Export!ProxyGroups({acc.proxies[k].name : k \in DOMAIN acc.proxies}),
                                rules |-> Export!ClashRules]
    BY <2>4, GeneratedIs
  <2> HIDE DEF config
  <2>6. /\ config.proxies = acc.proxies
        /\ config.groups = IF acc.proxies = <<>> THEN Export!NoOpts ELSE Export!ProxyGroups(names)
    BY <2>5
  <2>7. {made[i].endpoint : i \in DOMAIN made} = {served[i].endpoint : i \in Firsts(served)}
    <3>1. {made[i].endpoint : i \in DOMAIN made} = {served[i].endpoint : i \in {j \in Taken(served) : j <= Len(served)}}
      BY <2>5, <2>6 DEF Exported
    <3>2. {j \in Taken(served) : j <= Len(served)} = Taken(served)
      BY <2>4, FirstsRank DEF Taken
    <3>3. /\ Firsts(served) \subseteq Taken(served)
          /\ \A i \in Taken(served) : \E f \in Firsts(served) : served[f].endpoint = served[i].endpoint
      BY <2>4, FirstsRank DEF Firsts
    <3>4. {served[i].endpoint : i \in Taken(served)} = {served[i].endpoint : i \in Firsts(served)}
      BY <3>3
    <3>5. {made[i].endpoint : i \in DOMAIN made} = {served[i].endpoint : i \in Taken(served)}
      BY <3>1, <3>2
    <3> QED
      BY <3>4, <3>5
  <2>8. \A i, j \in DOMAIN made :
          i < j => /\ Rank(served, made[i].endpoint) < Rank(served, made[j].endpoint)
                   /\ Numbered(served) \/ made[i].name # made[j].name
    BY <2>5, <2>6 DEF Exported
  <2>9. \A g \in DOMAIN config.groups : config.groups[g] \subseteq
          names \cup DOMAIN config.groups \cup {Export!Direct}
    <3> HIDE DEF names
    <3>1. CASE acc.proxies = <<>>
      <4>1. config.groups = <<>> /\ DOMAIN <<>> = {}
        BY <2>6, <3>1 DEF Export!NoOpts
      <4> QED
        BY <4>1
    <3>2. CASE acc.proxies # <<>>
      BY <2>6, <3>2, GroupsAre
    <3> QED
      BY <3>1, <3>2
  <2> QED
    BY <2>7, <2>8, <2>9
<1> QED
  BY <1>1, AnswerInit, AnswerStep, PTL DEF ConversionSpec
=============================================================================
