------------------------- MODULE ProbeEngineProofs --------------------------
(***************************************************************************)
(* Theorems about ProbeEngine, for every set of candidates, definitions,     *)
(* calls and batches.  The inductive invariant is built in layers, each      *)
(* resting on those before it: types; the shape of a wave; where each        *)
(* definition is; that none is lost; what the search for previously working  *)
(* configs knows and why a call may end, which is what the refinement of     *)
(* ProbeCall needs.                                                          *)
(***************************************************************************)
EXTENDS ProbeEngine, TLAPS, FiniteSetTheorems

USE CallsKnown DEF CallRecords

BatchStats == [clean : BOOLEAN, produced : Nat, troubled : BOOLEAN]
Verdicts == {"none", "up", "down", "folded"}
Sizers == [current : Nat, min : Nat]
SizerOK(s) ==
    /\ s \in Sizers
    /\ 1 <= s.min /\ s.min <= s.current /\ s.current <= MaxSize

\* Sets of definitions and of candidates are finite.
LEMMA EntrySets ==
    ASSUME NEW S \in SUBSET Entries
    PROVE  IsFiniteSet(S) /\ Cardinality(S) \in Nat
BY EntriesFinite, FS_Subset, FS_CardinalityType

LEMMA KeySets ==
    ASSUME NEW S \in SUBSET (Keys \cup Gone)
    PROVE  IsFiniteSet(S) /\ Cardinality(S) \in Nat
<1>1. IsFiniteSet(Keys \cup Gone)
  BY KeysFinite, FS_Union
<1> QED
  BY <1>1, FS_Subset, FS_CardinalityType

\* ActiveBatchSizer::new keeps the size within its limits.
LEMMA NewSizerOK ==
    ASSUME NEW c \in Calls
    PROVE  SizerOK(NewSizer(c))
<1>1. c.concurrency \in Nat /\ c.batchSize \in Nat \cup {AutoSize}
  OBVIOUS
<1>2. BatchSize(c) \in Nat
  <2>1. CASE c.batchSize = AutoSize
    <3>1. c.concurrency * Multiplier \in Nat
      BY <1>1, SizesPositive
    <3> QED
      BY <2>1, <3>1, SizesPositive DEF BatchSize, Clamp
  <2>2. CASE c.batchSize # AutoSize
    BY <1>1, <2>2 DEF BatchSize
  <2> QED
    BY <2>1, <2>2
<1>3. Clamp(c.concurrency, 1, MinSize) \in Nat /\ Clamp(c.concurrency, 1, MinSize) <= MinSize
  BY <1>1, SizesPositive DEF Clamp
<1> QED
  BY <1>2, <1>3, SizesPositive DEF NewSizer, SizerOK, Sizers, Larger, Smaller

\* ActiveBatchSizer::observe keeps it there, and does not grow it on trouble.
LEMMA ObservedOK ==
    ASSUME NEW s, SizerOK(s), NEW batch \in BatchStats
    PROVE  /\ SizerOK(Observed(s, batch))
           /\ batch.troubled => Observed(s, batch).current <= s.current
<1>1. s.current \in Nat /\ s.min \in Nat /\ MaxSize \in Nat /\ batch.produced \in Nat
      /\ batch.troubled \in BOOLEAN /\ batch.clean \in BOOLEAN
  BY SizesPositive DEF SizerOK, Sizers, BatchStats
<1>2. s.current \div 2 \in Nat /\ s.current \div 2 <= s.current
  BY <1>1
<1>3. Observed(s, batch) \in Sizers
  BY <1>1, <1>2 DEF Observed, SizerOK, Sizers, Larger, Smaller
<1>4. Observed(s, batch).min = s.min
  BY <1>1 DEF Observed, SizerOK, Sizers
<1>5. CASE batch.troubled
  <2>1. Observed(s, batch).current = Larger(s.current \div 2, s.min)
    BY <1>1, <1>5 DEF Observed, SizerOK, Sizers
  <2> QED
    BY <1>1, <1>2, <1>3, <1>4, <2>1 DEF SizerOK, Larger
<1>6. CASE ~batch.troubled
  <2>1. \/ Observed(s, batch).current = s.current
        \/ Observed(s, batch).current = Larger(Smaller(2 * s.current, MaxSize), s.min)
    BY <1>1, <1>6 DEF Observed, SizerOK, Sizers
  <2> QED
    BY <1>1, <1>3, <1>4, <1>6, <2>1 DEF SizerOK, Larger, Smaller
<1> QED
  BY <1>1, <1>5, <1>6

-----------------------------------------------------------------------------
LEMMA TypeInit == Init => TypeOK
<1> SUFFICES ASSUME Init PROVE TypeOK
  OBVIOUS
<1>1. SizerOK(sizer)
  BY NewSizerOK DEF Init
<1> QED
  BY <1>1 DEF Init, TypeOK, SizerOK, Sizers, Phases, Places, NoStats

LEMMA TypeNext == TypeOK /\ [Next]_vars => TypeOK'
<1> SUFFICES ASSUME TypeOK, [Next]_vars PROVE TypeOK'
  OBVIOUS
<1>1. CASE Unavailable \/ TcpStarts \/ TcpFinishes \/ StartWave \/ WavesEnd \/ Ranks
  BY <1>1 DEF TypeOK, Unavailable, TcpStarts, TcpFinishes, StartWave, WavesEnd, Ranks, Phases,
              stopState, batches
<1>2. CASE Preempted \/ Finished \/ UNCHANGED vars
  BY <1>2 DEF TypeOK, Preempted, Finished, stopState, batches, vars
<1>3. CASE Prepares
  <2>1. remaining' \in Nat
    <3>1. PreviousEntries(Entries) \in SUBSET Entries
      BY DEF PreviousEntries
    <3> QED
      BY <1>3, <3>1, EntrySets DEF Prepares
  <2>2. rows' \in [Keys -> Verdicts] /\ prepared' \subseteq Entries /\ exhausted' \in BOOLEAN
    BY <1>3 DEF Prepares, Verdicts
  <2> QED
    BY <1>3, <2>1, <2>2 DEF TypeOK, Prepares, Phases, Verdicts, batches
<1>4. CASE TcpConnects
  <2>1. rows' \in [Keys -> Verdicts] /\ phase' \in Phases
    BY <1>4 DEF TcpConnects, TypeOK, Verdicts, Phases
  <2> QED
    BY <1>4, <2>1 DEF TypeOK, TcpConnects, Verdicts, stopState, batches
<1>5. ASSUME NEW b \in Slots, QueueBatch(b) PROVE TypeOK'
  <2>1. PICK S \in SUBSET prepared :
          /\ prepared' = prepared \ S
          /\ pending' = [pending EXCEPT ![b] = {S}]
          /\ wavePrevious' = wavePrevious + Cardinality(PreviousEntries(S))
    BY <1>5 DEF QueueBatch
  <2>2. Cardinality(PreviousEntries(S)) \in Nat
    <3>1. PreviousEntries(S) \in SUBSET Entries
      BY <2>1 DEF TypeOK, PreviousEntries
    <3> QED
      BY <3>1, EntrySets
  <2>3. pending' \in [Slots -> SUBSET SUBSET Entries] /\ prepared' \subseteq Entries
        /\ wavePrevious' \in Nat
    BY <2>1, <2>2 DEF TypeOK
  <2>4. at' \in [Slots -> Places] /\ stats' \in [Slots -> BatchStats]
    BY <1>5 DEF QueueBatch, TypeOK, Places, NoStats, BatchStats
  <2> QED
    BY <1>5, <2>3, <2>4 DEF QueueBatch, TypeOK, BatchStats, stopState
<1>6. ASSUME NEW b \in Slots, NextAttempt(b) \/ Starts(b) \/ ProbeDropped(b) \/ CleansUp(b)
      PROVE  TypeOK'
  <2>1. at' \in [Slots -> Places]
    BY <1>6 DEF TypeOK, NextAttempt, Starts, ProbeDropped, CleansUp, Goto, Places
  <2>2. stats' \in [Slots -> BatchStats]
    <3>1. stats' = stats \/ stats' = [stats EXCEPT ![b]["clean"] = TRUE]
      BY <1>6 DEF NextAttempt, Starts, ProbeDropped, CleansUp, Note
    <3>2. CASE stats' = stats
      BY <3>2 DEF TypeOK, BatchStats
    <3>3. CASE stats' = [stats EXCEPT ![b]["clean"] = TRUE]
      BY <3>3 DEF TypeOK, BatchStats
    <3> QED
      BY <3>1, <3>2, <3>3
  <2>3. /\ pending' \in [Slots -> SUBSET SUBSET Entries]
        /\ current' \in [Slots -> SUBSET Entries]
        /\ UNCHANGED <<call, phase, prepared, rows, half, remaining, exhausted, announced>>
        /\ UNCHANGED <<reached, external, sizer, wavePrevious>>
    <3>1. CASE NextAttempt(b)
      <4>1. PICK S \in pending[b] :
              /\ pending' = [pending EXCEPT ![b] = @ \ {S}]
              /\ current' = [current EXCEPT ![b] = S]
        BY <3>1 DEF NextAttempt
      <4>2. S \in SUBSET Entries
        BY DEF TypeOK
      <4> QED
        BY <3>1, <4>1, <4>2 DEF TypeOK, NextAttempt, stopState
    <3>2. CASE Starts(b) \/ ProbeDropped(b)
      BY <3>2 DEF TypeOK, Starts, ProbeDropped, stopState
    <3>3. CASE CleansUp(b)
      BY <3>3 DEF TypeOK, CleansUp, stopState
    <3> QED
      BY <1>6, <3>1, <3>2, <3>3
  <2> QED
    BY <2>1, <2>2, <2>3 DEF TypeOK, BatchStats
<1>7. ASSUME NEW b \in Slots, StartFails(b) \/ EntryRejected(b) \/ Splits(b)
      PROVE  TypeOK'
  <2>1. at' \in [Slots -> Places] /\ current' \in [Slots -> SUBSET Entries]
    <3>1. at' = [at EXCEPT ![b] = "next"] /\ current' = [current EXCEPT ![b] = {}]
      BY <1>7 DEF StartFails, EntryRejected, Splits, Goto
    <3> QED
      BY <3>1 DEF TypeOK, Places
  <2>2. stats' \in [Slots -> BatchStats]
    <3>1. stats' = [stats EXCEPT ![b]["troubled"] = TRUE]
      BY <1>7 DEF StartFails, EntryRejected, Splits, Note
    <3> QED
      BY <3>1 DEF TypeOK, BatchStats
  <2>3. rows' \in [Keys -> Verdicts]
    BY <1>7 DEF TypeOK, StartFails, EntryRejected, Splits, Fail, Verdicts
  <2>4. pending' \in [Slots -> SUBSET SUBSET Entries]
    <3>1. CASE StartFails(b)
      BY <3>1 DEF TypeOK, StartFails
    <3>2. CASE EntryRejected(b)
      BY <3>2 DEF TypeOK, EntryRejected
    <3>3. CASE Splits(b)
      BY <3>3 DEF TypeOK, Splits
    <3> QED
      BY <1>7, <3>1, <3>2, <3>3
  <2> QED
    BY <1>7, <2>1, <2>2, <2>3, <2>4 DEF TypeOK, StartFails, EntryRejected, Splits, stopState,
                                        BatchStats, Verdicts
<1>8. ASSUME NEW b \in Slots, ProbeFinishes(b) PROVE TypeOK'
  <2>1. PICK e \in current[b] :
          /\ \/ Succeed(e) /\ Note(b, "produced", stats[b].produced + 1)
             \/ Fail({e}) /\ Note(b, "produced", stats[b].produced + Cardinality(Members(e)))
          /\ EvalStop(rows')
          /\ current' = [current EXCEPT ![b] = @ \ {e}]
          /\ Goto(b, IF reached' \/ current[b] = {e} THEN "cleanup" ELSE "probing")
    BY <1>8 DEF ProbeFinishes
  <2>2. Cardinality(Members(e)) \in Nat
    <3>1. Members(e) \in SUBSET (Keys \cup Gone)
      BY EntriesPartition DEF TypeOK, Members
    <3> QED
      BY <3>1, KeySets
  <2>3. stats[b] \in BatchStats
    BY DEF TypeOK, BatchStats
  <2>4. stats' \in [Slots -> BatchStats]
    BY <2>1, <2>2, <2>3 DEF TypeOK, Note, BatchStats
  <2>5. rows' \in [Keys -> Verdicts]
    BY <2>1 DEF TypeOK, Succeed, Fail, Verdicts
  <2>6. half' \in BOOLEAN /\ announced' \in BOOLEAN /\ reached' \in BOOLEAN
        /\ UNCHANGED <<remaining, exhausted>>
    BY <2>1 DEF EvalStop, TypeOK
  <2>7. at' \in [Slots -> Places] /\ current' \in [Slots -> SUBSET Entries]
    BY <2>1 DEF TypeOK, Goto, Places
  <2> QED
    BY <1>8, <2>4, <2>5, <2>6, <2>7 DEF ProbeFinishes, TypeOK, BatchStats, Verdicts
<1>9. ASSUME NEW b \in Slots, BatchEnds(b) PROVE TypeOK'
  <2>1. SizerOK(sizer')
    <3>1. SizerOK(sizer) /\ stats[b] \in BatchStats
      BY DEF TypeOK, SizerOK, Sizers, BatchStats
    <3> QED
      BY <1>9, <3>1, ObservedOK DEF BatchEnds
  <2>2. phase' \in Phases /\ at' \in [Slots -> Places]
        /\ pending' \in [Slots -> SUBSET SUBSET Entries] /\ current' \in [Slots -> SUBSET Entries]
    BY <1>9 DEF BatchEnds, TypeOK, Phases, Places, Goto
  <2>3. remaining' \in Nat /\ exhausted' \in BOOLEAN /\ wavePrevious' \in Nat
    BY <1>9 DEF BatchEnds, UpdateSearch, TypeOK
  <2>4. stats' \in [Slots -> BatchStats]
    BY <1>9 DEF BatchEnds, TypeOK, NoStats, BatchStats
  <2> QED
    BY <1>9, <2>1, <2>2, <2>3, <2>4 DEF BatchEnds, TypeOK, SizerOK, Sizers, BatchStats
<1> QED
  BY <1>1, <1>2, <1>3, <1>4, <1>5, <1>6, <1>7, <1>8, <1>9 DEF Next, Engine, Batch

\* Every state of every call is well typed, and the batch size stays between
\* its floor and ACTIVE_PROBE_BATCH_MAX_SIZE whatever the batches report.
THEOREM TypeCorrect == Spec => []TypeOK
BY TypeInit, TypeNext, PTL DEF Spec
-----------------------------------------------------------------------------
(* The shape of a wave: what an idle, a waiting and a quitting batch hold.    *)

Shape ==
    /\ phase \in {"check", "tcp"} => prepared = {} /\ ~reached
    /\ phase = "check" => rows = [k \in Keys |-> "none"]
    /\ phase \in {"queue", "wave"} => call.mode = "active"
    /\ phase \notin {"queue", "wave"} => \A b \in Slots : at[b] = "idle"
    /\ \A b \in Slots : at[b] = "idle" => pending[b] = {}
    /\ \A b \in Slots : at[b] \in {"idle", "next"} => current[b] = {}
    /\ \A b \in Slots : at[b] = "cleanup" /\ ~Stopped => current[b] = {}

\* What a step of a batch leaves alone as long as the batch goes on.
LEMMA BatchFrame ==
    ASSUME TypeOK, NEW b \in Slots, Batch(b), ~BatchEnds(b)
    PROVE  /\ phase = "wave"
           /\ UNCHANGED <<call, phase, prepared, external, sizer, wavePrevious>>
           /\ UNCHANGED <<remaining, exhausted>>
           /\ reached => reached'
           /\ \A c \in Slots \ {b} : /\ at'[c] = at[c] /\ pending'[c] = pending[c]
                                     /\ current'[c] = current[c]
<1>1. CASE NextAttempt(b)
  <2>1. PICK S \in pending[b] : pending' = [pending EXCEPT ![b] = @ \ {S}]
                                /\ current' = [current EXCEPT ![b] = S]
    BY <1>1 DEF NextAttempt
  <2> QED
    BY <1>1, <2>1 DEF NextAttempt, Step, Goto, TypeOK, stopState
<1>2. CASE Starts(b) \/ ProbeDropped(b)
  <2>1. \E place : at' = [at EXCEPT ![b] = place]
    BY <1>2 DEF Starts, ProbeDropped, Goto
  <2> QED
    BY <1>2, <2>1 DEF Starts, ProbeDropped, Step, TypeOK, stopState
<1>7. CASE CleansUp(b)
  BY <1>7 DEF CleansUp, Step, Goto, TypeOK, stopState
<1>3. CASE StartFails(b)
  BY <1>3 DEF StartFails, Step, Goto, TypeOK, stopState
<1>4. CASE EntryRejected(b)
  <2>1. PICK e \in current[b] :
          pending' = [pending EXCEPT ![b] = @ \cup ({current[b] \ {e}} \ {{}})]
    BY <1>4 DEF EntryRejected
  <2> QED
    BY <1>4, <2>1 DEF EntryRejected, Step, Goto, TypeOK, stopState
<1>5. CASE Splits(b)
  <2>1. PICK left \in SUBSET current[b] :
          pending' = [pending EXCEPT ![b] = @ \cup {left, current[b] \ left}]
    BY <1>5 DEF Splits
  <2> QED
    BY <1>5, <2>1 DEF Splits, Step, Goto, TypeOK, stopState
<1>6. CASE ProbeFinishes(b)
  <2>1. PICK e \in current[b] :
          /\ EvalStop(rows')
          /\ current' = [current EXCEPT ![b] = @ \ {e}]
          /\ Goto(b, IF reached' \/ current[b] = {e} THEN "cleanup" ELSE "probing")
    BY <1>6 DEF ProbeFinishes
  <2> QED
    BY <1>6, <2>1 DEF ProbeFinishes, EvalStop, Step, Goto, TypeOK
<1> QED
  BY <1>1, <1>2, <1>3, <1>4, <1>5, <1>6, <1>7 DEF Batch

LEMMA ShapeInit == Init => Shape
BY DEF Init, Shape

LEMMA ShapeNext == TypeOK /\ Shape /\ [Next]_vars => Shape'
<1> SUFFICES ASSUME TypeOK, Shape, [Next]_vars PROVE Shape'
  OBVIOUS
<1> USE DEF Stopped
<1>1. CASE Unavailable \/ Prepares \/ TcpStarts \/ TcpConnects \/ TcpFinishes
  BY <1>1 DEF Shape, Unavailable, Prepares, TcpStarts, TcpConnects, TcpFinishes, stopState, batches
<1>2. CASE StartWave \/ WavesEnd \/ Ranks
  BY <1>2 DEF Shape, StartWave, WavesEnd, Ranks, stopState, batches, Busy
<1>3. CASE Preempted \/ Finished \/ UNCHANGED vars
  BY <1>3 DEF Shape, Preempted, Finished, stopState, batches, vars
<1>4. ASSUME NEW b \in Slots, QueueBatch(b) PROVE Shape'
  <2>1. /\ phase = "queue" /\ UNCHANGED <<call, phase, rows, reached, external, current>>
        /\ at[b] = "idle" /\ at' = [at EXCEPT ![b] = "next"]
    BY <1>4 DEF QueueBatch, stopState
  <2>2. \A c \in Slots \ {b} : pending'[c] = pending[c] /\ at'[c] = at[c]
    <3>1. PICK S \in SUBSET prepared : pending' = [pending EXCEPT ![b] = {S}]
      BY <1>4 DEF QueueBatch
    <3> QED
      BY <2>1, <3>1 DEF TypeOK
  <2>3. at'[b] = "next" /\ current[b] = {} /\ call.mode = "active"
    BY <2>1 DEF TypeOK, Shape
  <2>4. \A c \in Slots :
          /\ at'[c] = "idle" => pending'[c] = {}
          /\ at'[c] \in {"idle", "next"} => current'[c] = {}
          /\ at'[c] = "cleanup" /\ ~Stopped' => current'[c] = {}
    <3>1. Stopped' = Stopped /\ current' = current
      BY <2>1
    <3> SUFFICES ASSUME NEW c \in Slots
                 PROVE  /\ at'[c] = "idle" => pending'[c] = {}
                        /\ at'[c] \in {"idle", "next"} => current[c] = {}
                        /\ at'[c] = "cleanup" /\ ~Stopped => current[c] = {}
      BY <3>1
    <3>2. CASE c = b
      BY <2>3, <3>2
    <3>3. CASE c # b
      BY <2>2, <3>3 DEF Shape
    <3> QED
      BY <3>2, <3>3
  <2> QED
    BY <2>1, <2>3, <2>4 DEF Shape
<1>5. ASSUME NEW b \in Slots, Batch(b), ~BatchEnds(b) PROVE Shape'
  <2>1. phase = "wave" /\ UNCHANGED <<phase, call, external>> /\ (reached => reached')
    BY <1>5, BatchFrame
  <2>2. \A c \in Slots \ {b} : /\ at'[c] = at[c] /\ pending'[c] = pending[c]
                               /\ current'[c] = current[c]
    BY <1>5, BatchFrame
  <2>3. /\ at'[b] # "idle"
        /\ at'[b] = "next" => current'[b] = {}
        /\ at'[b] = "cleanup" /\ ~Stopped' => current'[b] = {}
    <3>1. CASE NextAttempt(b)
      BY <3>1 DEF TypeOK, NextAttempt, Goto
    <3>2. CASE Starts(b) \/ ProbeDropped(b)
      BY <3>2 DEF TypeOK, Starts, ProbeDropped, Goto, stopState
    <3>3. CASE StartFails(b) \/ EntryRejected(b) \/ Splits(b)
      <4>1. at' = [at EXCEPT ![b] = "next"] /\ current' = [current EXCEPT ![b] = {}]
        BY <3>3 DEF StartFails, EntryRejected, Splits, Goto
      <4> QED
        BY <4>1 DEF TypeOK
    <3>4. CASE ProbeFinishes(b)
      BY <3>4 DEF TypeOK, ProbeFinishes, Goto
    <3>5. CASE CleansUp(b)
      BY <3>5 DEF TypeOK, CleansUp, Goto
    <3> QED
      BY <1>5, <3>1, <3>2, <3>3, <3>4, <3>5 DEF Batch
  <2>4. call.mode = "active"
    BY <2>1 DEF Shape
  <2>5. \A c \in Slots :
          /\ at'[c] = "idle" => pending'[c] = {}
          /\ at'[c] \in {"idle", "next"} => current'[c] = {}
          /\ at'[c] = "cleanup" /\ ~Stopped' => current'[c] = {}
    BY <2>1, <2>2, <2>3 DEF Shape, TypeOK
  <2> QED
    BY <2>1, <2>4, <2>5 DEF Shape
<1>6. ASSUME NEW b \in Slots, BatchEnds(b) PROVE Shape'
  <2>1. /\ phase = "wave" /\ phase' \in {"queue", "wave"} /\ at[b] = "next"
        /\ UNCHANGED <<call, reached, external>>
    BY <1>6 DEF BatchEnds, Step
  <2>2. CASE Stopped \/ Busy = {b}
    <3>1. \A c \in Slots : at'[c] = "idle" /\ pending'[c] = {} /\ current'[c] = {}
      BY <1>6, <2>2 DEF BatchEnds
    <3> QED
      BY <2>1, <3>1 DEF Shape
  <2>3. CASE ~(Stopped \/ Busy = {b})
    <3>1. at' = [at EXCEPT ![b] = "idle"] /\ UNCHANGED <<pending, current>> /\ pending[b] = {}
      BY <1>6, <2>3 DEF BatchEnds, Goto
    <3> QED
      BY <2>1, <3>1 DEF Shape, TypeOK
  <2> QED
    BY <2>2, <2>3
<1> QED
  BY <1>1, <1>2, <1>3, <1>4, <1>5, <1>6 DEF Next, Engine, Batch
-----------------------------------------------------------------------------
(* Where each definition is.                                                 *)

HIDE CallsKnown DEF CallRecords

\* The attempts of a batch share no definition.
Apart(attempts, running) ==
    /\ \A S \in attempts : S \cap running = {}
    /\ \A S, T \in attempts : S = T \/ S \cap T = {}

\* Taking an attempt, giving one back, and splitting one keeps them apart.
LEMMA ApartTakes ==
    ASSUME NEW P, NEW C, Apart(P, C), NEW S \in P
    PROVE  Apart(P \ {S}, S) /\ \A x : x \in UNION (P \ {S}) \/ x \in S => x \in UNION P
<1>1. \A T \in P \ {S} : T \cap S = {}
  BY DEF Apart
<1>2. Apart(P \ {S}, S)
  BY <1>1 DEF Apart
<1> QED
  BY <1>2

LEMMA ApartDrops ==
    ASSUME NEW P, NEW C, Apart(P, C), NEW D \in SUBSET C
    PROVE  Apart(P, D) /\ \A x \in C : x \notin UNION P
<1>1. \A S \in P : S \cap D = {}
  BY DEF Apart
<1>2. Apart(P, D)
  BY <1>1 DEF Apart
<1>3. ASSUME NEW x \in C, x \in UNION P PROVE FALSE
  <2>1. PICK S \in P : x \in S
    BY <1>3
  <2> QED
    BY <1>3, <2>1 DEF Apart
<1> QED
  BY <1>2, <1>3

\* The running attempt C is given back as the two attempts D and E.
Returned(P, C, Q, D, E) ==
    /\ D \subseteq C /\ E \subseteq C /\ D \cap E = {}
    /\ \A S \in Q : S \in P \/ S = D \/ S = E

LEMMA ApartReturns ==
    ASSUME NEW P, NEW C, NEW Q, NEW D, NEW E, Apart(P, C), Returned(P, C, Q, D, E)
    PROVE  /\ Apart(Q, {})
           /\ \A x \in UNION Q : x \in UNION P \/ x \in D \/ x \in E
<1> USE DEF Returned
<1>2. \A S \in P : S \cap D = {} /\ S \cap E = {}
  BY DEF Apart
<1>3. ASSUME NEW S \in Q, NEW T \in Q PROVE S = T \/ S \cap T = {}
  <2>1. CASE S \in P /\ T \in P
    BY <2>1 DEF Apart
  <2> QED
    BY <1>2, <2>1
<1>4. ASSUME NEW x \in UNION Q PROVE x \in UNION P \/ x \in D \/ x \in E
  <2>1. PICK S \in Q : x \in S
    OBVIOUS
  <2> QED
    BY <2>1
<1> QED
  BY <1>3, <1>4 DEF Apart

\* Definitions of which one was reported share no candidate with the others.
LEMMA Separate ==
    ASSUME NEW E0 \in SUBSET Entries, NEW e \in Entries, e \notin E0,
           NEW k \in Members(e)
    PROVE  k \in Keys /\ k \notin KeysOf(E0)
BY EntriesPartition DEF KeysOf, Members

\* What batch b still has to test after a step that reports E0.
Keeps(b, E0) ==
    \A x : x \in UNION pending'[b] \/ x \in current'[b] => x \in Holds(b) /\ x \notin E0

\* A step of a batch that reports the definitions E0 and keeps some others.
LEMMA OnePlaceStep ==
    ASSUME TypeOK, OnePlace, NEW b \in Slots,
           prepared' = prepared,
           \A c \in Slots \ {b} : pending'[c] = pending[c] /\ current'[c] = current[c],
           NEW E0 \in SUBSET Holds(b),
           Keeps(b, E0),
           Apart(pending'[b], current'[b]),
           \A k \in Keys \ KeysOf(E0) : rows'[k] = rows[k]
    PROVE  OnePlace'
<1> DEFINE Next1(c) == (UNION pending'[c]) \cup current'[c]
<1>1. \A c \in Slots \ {b} : Next1(c) = Holds(c)
  BY DEF Holds
<1>2. Next1(b) \subseteq Holds(b) /\ Next1(b) \cap E0 = {}
  BY DEF Keeps
<1>3. \A c \in Slots : Next1(c) \subseteq Holds(c)
  BY <1>1, <1>2
<1>4. \A c \in Slots : Apart(pending'[c], current'[c])
  BY DEF OnePlace, Apart
<1>5. \A c \in Slots : prepared \cap Next1(c) = {}
  BY <1>3 DEF OnePlace
<1>6. \A c, d \in Slots : c = d \/ Next1(c) \cap Next1(d) = {}
  BY <1>3 DEF OnePlace
<1>7. ASSUME NEW e \in prepared \cup UNION {Next1(c) : c \in Slots}
      PROVE  \A k \in Members(e) : rows'[k] = "none"
  <2>1. e \in prepared \cup UNION {Holds(c) : c \in Slots}
    BY <1>3
  <2>2. ASSUME NEW c \in Slots, NEW x \in Holds(c) PROVE x \in Entries
    <3>1. pending[c] \subseteq SUBSET Entries /\ current[c] \subseteq Entries
      BY DEF TypeOK
    <3>2. CASE x \in current[c]
      BY <3>1, <3>2
    <3>3. CASE x \in UNION pending[c]
      BY <3>1, <3>3
    <3> QED
      BY <3>2, <3>3 DEF Holds
  <2>3. e \in Entries /\ E0 \subseteq Entries
    <3>1. prepared \subseteq Entries
      BY DEF TypeOK
    <3> QED
      BY <2>1, <2>2, <3>1
  <2>4. e \notin E0
    <3>1. CASE e \in prepared
      BY <3>1 DEF OnePlace
    <3>2. ASSUME NEW c \in Slots, e \in Next1(c) PROVE e \notin E0
      BY <1>1, <1>2, <3>2 DEF OnePlace
    <3> QED
      BY <3>1, <3>2
  <2>5. ASSUME NEW k \in Members(e) PROVE rows'[k] = "none"
    <3>1. k \in Keys /\ k \notin KeysOf(E0)
      BY <2>3, <2>4, Separate
    <3>2. rows[k] = "none"
      BY <2>1 DEF OnePlace
    <3> QED
      BY <3>1, <3>2
  <2> QED
    BY <2>5
<1> QED
  BY <1>4, <1>5, <1>6, <1>7 DEF OnePlace, Holds, Apart

LEMMA OnePlaceInit == Init => OnePlace
<1> SUFFICES ASSUME Init PROVE OnePlace
  OBVIOUS
<1>1. \A b \in Slots : Holds(b) = {} /\ pending[b] = {}
  BY DEF Init, Holds
<1> QED
  BY <1>1 DEF Init, OnePlace

LEMMA OnePlaceNext == TypeOK /\ Shape /\ OnePlace /\ [Next]_vars => OnePlace'
<1> SUFFICES ASSUME TypeOK, Shape, OnePlace, [Next]_vars PROVE OnePlace'
  OBVIOUS
<1>1. CASE TcpStarts \/ StartWave \/ WavesEnd \/ Ranks \/ Preempted \/ Finished \/ UNCHANGED vars
  BY <1>1 DEF OnePlace, Holds, TcpStarts, StartWave, WavesEnd, Ranks, Preempted, Finished, batches,
              vars
<1>2. CASE Unavailable \/ TcpConnects \/ TcpFinishes
  <2>1. \A b \in Slots : pending'[b] = {} /\ current'[b] = {}
    BY <1>2 DEF Shape, Unavailable, TcpConnects, TcpFinishes, batches
  <2>2. prepared' = {}
    BY <1>2 DEF Shape, Unavailable, TcpConnects, TcpFinishes
  <2> QED
    BY <2>1, <2>2 DEF OnePlace, Holds
<1>3. CASE Prepares
  <2>1. \A b \in Slots : pending'[b] = {} /\ current'[b] = {}
    BY <1>3 DEF Shape, Prepares, batches
  <2>2. \A e \in prepared' : \A k \in Members(e) : rows'[k] = "none"
    BY <1>3, EntriesPartition DEF Prepares, KeysOf, Members
  <2> QED
    BY <2>1, <2>2 DEF OnePlace, Holds
<1>4. ASSUME NEW b \in Slots, QueueBatch(b) PROVE OnePlace'
  <2>1. PICK S \in SUBSET prepared :
          prepared' = prepared \ S /\ pending' = [pending EXCEPT ![b] = {S}]
    BY <1>4 DEF QueueBatch
  <2>2. UNCHANGED <<rows, current>> /\ pending[b] = {} /\ current[b] = {}
    BY <1>4 DEF QueueBatch, Shape
  <2>3. (UNION pending'[b]) \cup current'[b] = S /\ Apart(pending'[b], current'[b])
    BY <2>1, <2>2 DEF TypeOK, Apart
  <2>4. \A c \in Slots \ {b} : pending'[c] = pending[c] /\ current'[c] = current[c]
    BY <2>1, <2>2 DEF TypeOK
  <2> DEFINE Next1(c) == (UNION pending'[c]) \cup current'[c]
  <2>5. \A c \in Slots \ {b} : Next1(c) = Holds(c)
    BY <2>4 DEF Holds
  <2>6. \A c \in Slots : prepared' \cap Next1(c) = {}
    BY <2>1, <2>3, <2>5 DEF OnePlace
  <2>7. \A c, d \in Slots : c = d \/ Next1(c) \cap Next1(d) = {}
    <3>1. \A c \in Slots \ {b} : Next1(b) \cap Next1(c) = {}
      BY <2>1, <2>3, <2>5 DEF OnePlace
    <3>2. \A c, d \in Slots \ {b} : c = d \/ Next1(c) \cap Next1(d) = {}
      BY <2>5 DEF OnePlace
    <3> QED
      BY <3>1, <3>2
  <2>8. \A c \in Slots : Apart(pending'[c], current'[c])
    BY <2>3, <2>4 DEF OnePlace, Apart
  <2>9. \A e \in prepared' \cup UNION {Next1(c) : c \in Slots} :
          e \in prepared \cup UNION {Holds(c) : c \in Slots}
    BY <2>1, <2>3, <2>5
  <2>10. \A e \in prepared' \cup UNION {Next1(c) : c \in Slots} :
           \A k \in Members(e) : rows'[k] = "none"
    BY <2>2, <2>9 DEF OnePlace
  <2> QED
    BY <2>6, <2>7, <2>8, <2>10 DEF OnePlace, Holds, Apart
<1>5. ASSUME NEW b \in Slots, Batch(b), ~BatchEnds(b) PROVE OnePlace'
  <2>1. /\ prepared' = prepared
        /\ \A c \in Slots \ {b} : pending'[c] = pending[c] /\ current'[c] = current[c]
    BY <1>5, BatchFrame
  <2>9. Apart(pending[b], current[b]) /\ pending \in [Slots -> SUBSET SUBSET Entries]
        /\ current \in [Slots -> SUBSET Entries]
    BY DEF OnePlace, Apart, TypeOK
  <2>10. \A x : x \in Holds(b) <=> x \in UNION pending[b] \/ x \in current[b]
    BY DEF Holds
  <2>11. {} \in SUBSET Holds(b) /\ \A x \in current[b] : {x} \in SUBSET Holds(b)
    BY <2>10
  <2>12. UNCHANGED rows => \A k \in Keys \ KeysOf({}) : rows'[k] = rows[k]
    OBVIOUS
  <2>2. CASE NextAttempt(b)
    <3>1. PICK S \in pending[b] : pending' = [pending EXCEPT ![b] = @ \ {S}]
                                  /\ current' = [current EXCEPT ![b] = S]
      BY <2>2 DEF NextAttempt
    <3>2. pending'[b] = pending[b] \ {S} /\ current'[b] = S
      BY <2>9, <3>1
    <3>3. /\ Apart(pending[b] \ {S}, S)
          /\ \A x : x \in UNION (pending[b] \ {S}) \/ x \in S => x \in UNION pending[b]
      BY <2>9, ApartTakes
    <3>4. Keeps(b, {}) /\ Apart(pending'[b], current'[b])
      BY <2>10, <3>2, <3>3 DEF Keeps
    <3>5. UNCHANGED rows
      BY <2>2 DEF NextAttempt
    <3> QED
      BY <2>1, <2>11, <2>12, <3>4, <3>5, OnePlaceStep
  <2>3. CASE Starts(b) \/ ProbeDropped(b)
    BY <2>3 DEF OnePlace, Holds, Starts, ProbeDropped
  <2>4. CASE CleansUp(b)
    <3>1. pending'[b] = pending[b] /\ current'[b] = {} /\ UNCHANGED rows
      BY <2>4, <2>9 DEF CleansUp
    <3>2. Apart(pending[b], {})
      BY <2>9, ApartDrops
    <3>3. Keeps(b, {}) /\ Apart(pending'[b], current'[b])
      BY <2>10, <3>1, <3>2 DEF Keeps
    <3> QED
      BY <2>1, <2>11, <2>12, <3>1, <3>3, OnePlaceStep
  <2>5. CASE StartFails(b)
    <3>1. pending'[b] = pending[b] /\ current'[b] = {}
          /\ \A k \in Keys \ KeysOf(current[b]) : rows'[k] = rows[k]
      BY <2>5, <2>9 DEF StartFails, Fail
    <3>2. Apart(pending[b], {}) /\ \A x \in current[b] : x \notin UNION pending[b]
      BY <2>9, ApartDrops
    <3>3. Keeps(b, current[b]) /\ Apart(pending'[b], current'[b])
      BY <2>10, <3>1, <3>2 DEF Keeps
    <3>4. current[b] \in SUBSET Holds(b)
      BY <2>10
    <3> QED
      BY <2>1, <3>1, <3>3, <3>4, OnePlaceStep
  <2>6. CASE EntryRejected(b)
    <3>1. PICK e \in current[b] :
            /\ Fail({e})
            /\ pending' = [pending EXCEPT ![b] = @ \cup ({current[b] \ {e}} \ {{}})]
      BY <2>6 DEF EntryRejected
    <3>2. PICK rest : rest = current[b] \ {e}
      OBVIOUS
    <3>3. pending'[b] = pending[b] \cup ({rest} \ {{}}) /\ current'[b] = {}
      BY <2>6, <2>9, <3>1, <3>2 DEF EntryRejected
    <3>4. \A k \in Keys \ KeysOf({e}) : rows'[k] = rows[k]
      BY <3>1 DEF Fail
    <3>5. rest \in SUBSET current[b] /\ rest \cap {} = {} /\ {} \in SUBSET current[b]
          /\ e \notin rest
      BY <3>2
    <3>6. Returned(pending[b], current[b], pending'[b], rest, {})
      BY <3>3, <3>5 DEF Returned
    <3>7. e \notin UNION pending[b]
      BY <2>9, <3>5, ApartDrops
    <3>8. /\ Apart(pending'[b], {})
          /\ \A x \in UNION pending'[b] : x \in UNION pending[b] \/ x \in rest \/ x \in {}
      BY <2>9, <3>6, ApartReturns
    <3>9. ASSUME NEW x, x \in UNION pending'[b] \/ x \in current'[b]
          PROVE  x \in Holds(b) /\ x \notin {e}
      BY <2>10, <3>3, <3>5, <3>7, <3>8, <3>9
    <3>10. Keeps(b, {e})
      BY <3>9 DEF Keeps
    <3> QED
      BY <2>1, <2>11, <3>3, <3>4, <3>8, <3>10, OnePlaceStep
  <2>7. CASE Splits(b)
    <3>1. PICK left \in SUBSET current[b] :
            pending' = [pending EXCEPT ![b] = @ \cup {left, current[b] \ left}]
      BY <2>7 DEF Splits
    <3>2. PICK right : right = current[b] \ left
      OBVIOUS
    <3>3. pending'[b] = pending[b] \cup {left, right} /\ current'[b] = {} /\ UNCHANGED rows
      BY <2>7, <2>9, <3>1, <3>2 DEF Splits
    <3>4. right \in SUBSET current[b] /\ left \cap right = {}
      BY <3>2
    <3>5. Returned(pending[b], current[b], pending'[b], left, right)
      BY <3>3, <3>4 DEF Returned
    <3>6. /\ Apart(pending'[b], {})
          /\ \A x \in UNION pending'[b] : x \in UNION pending[b] \/ x \in left \/ x \in right
      BY <2>9, <3>5, ApartReturns
    <3>7. ASSUME NEW x, x \in UNION pending'[b] \/ x \in current'[b]
          PROVE  x \in Holds(b) /\ x \notin {}
      BY <2>10, <3>3, <3>4, <3>6, <3>7
    <3>8. Keeps(b, {})
      BY <3>7 DEF Keeps
    <3> QED
      BY <2>1, <2>11, <2>12, <3>3, <3>6, <3>8, OnePlaceStep
  <2>8. CASE ProbeFinishes(b)
    <3>1. PICK e \in current[b] :
            (Succeed(e) \/ Fail({e})) /\ current' = [current EXCEPT ![b] = @ \ {e}]
      BY <2>8 DEF ProbeFinishes
    <3>2. pending'[b] = pending[b] /\ current'[b] = current[b] \ {e}
      BY <2>8, <2>9, <3>1 DEF ProbeFinishes
    <3>3. \A k \in Keys \ KeysOf({e}) : rows'[k] = rows[k]
      BY <3>1 DEF Succeed, Fail, KeysOf, Members
    <3>4. current[b] \ {e} \in SUBSET current[b]
      OBVIOUS
    <3>5. Apart(pending[b], current[b] \ {e}) /\ e \notin UNION pending[b]
      BY <2>9, <3>4, ApartDrops
    <3>6. ASSUME NEW x, x \in UNION pending'[b] \/ x \in current'[b]
          PROVE  x \in Holds(b) /\ x \notin {e}
      BY <2>10, <3>2, <3>5, <3>6
    <3>7. Keeps(b, {e})
      BY <3>6 DEF Keeps
    <3> QED
      BY <2>1, <2>11, <3>2, <3>3, <3>5, <3>7, OnePlaceStep
  <2> QED
    BY <1>5, <2>2, <2>3, <2>4, <2>5, <2>6, <2>7, <2>8 DEF Batch
<1>6. ASSUME NEW b \in Slots, BatchEnds(b) PROVE OnePlace'
  <2>1. UNCHANGED <<prepared, rows>>
    BY <1>6 DEF BatchEnds
  <2>2. CASE Stopped \/ Busy = {b}
    <3>1. \A c \in Slots : pending'[c] = {} /\ current'[c] = {}
      BY <1>6, <2>2 DEF BatchEnds
    <3> QED
      BY <2>1, <3>1 DEF OnePlace, Holds
  <2>3. CASE ~(Stopped \/ Busy = {b})
    <3>1. UNCHANGED <<pending, current>>
      BY <1>6, <2>3 DEF BatchEnds
    <3> QED
      BY <2>1, <3>1 DEF OnePlace, Holds
  <2> QED
    BY <2>2, <2>3
<1> QED
  BY <1>1, <1>2, <1>3, <1>4, <1>5, <1>6 DEF Next, Engine, Batch

-----------------------------------------------------------------------------
(* No definition is lost.                                                    *)

Somewhere(e) == e \in prepared \/ \E b \in Slots : e \in Holds(b)
Reported(e) == \A k \in Members(e) : rows[k] # "none"

LEMMA SomewhereMeans == \A e : e \in prepared \cup UNION {Holds(b) : b \in Slots} <=> Somewhere(e)
BY DEF Somewhere

LEMMA HoldsMember ==
    ASSUME NEW b \in Slots, NEW e
    PROVE  e \in Holds(b) <=> e \in current[b] \/ \E S \in pending[b] : e \in S
BY DEF Holds

LEMMA HoldsMemberNext ==
    ASSUME NEW b \in Slots, NEW e
    PROVE  e \in Holds(b)' <=> e \in current'[b] \/ \E S \in pending'[b] : e \in S
BY DEF Holds

\* A step that takes no verdict back keeps every definition or reports it.
LEMMA LostStep ==
    ASSUME NothingLost, phase \in {"queue", "wave"}, ~Stopped,
           \A k \in Keys : rows'[k] = "none" => rows[k] = "none",
           \A e : Somewhere(e) => Somewhere(e)' \/ Reported(e)'
    PROVE  NothingLost'
<1> SUFFICES ASSUME NEW k \in Keys, rows'[k] = "none"
             PROVE  \E e : Somewhere(e)' /\ k \in Members(e)
  BY SomewhereMeans DEF NothingLost, Somewhere
<1>1. PICK e : Somewhere(e) /\ k \in Members(e)
  BY SomewhereMeans DEF NothingLost
<1> QED
  BY <1>1 DEF Reported

\* The other batches of a step of batch b are as before.
LEMMA SomewhereBatch ==
    ASSUME NEW b \in Slots, prepared' = prepared,
           \A c \in Slots \ {b} : pending'[c] = pending[c] /\ current'[c] = current[c],
           \A e : e \in Holds(b) => e \in Holds(b)' \/ Reported(e)'
    PROVE  \A e : Somewhere(e) => Somewhere(e)' \/ Reported(e)'
<1>1. \A c \in Slots \ {b} : Holds(c)' = Holds(c)
  BY DEF Holds
<1> QED
  BY <1>1 DEF Somewhere

LEMMA FailReports ==
    ASSUME NEW S \in SUBSET Entries, Fail(S)
    PROVE  /\ \A k \in Keys : rows'[k] = "none" => rows[k] = "none"
           /\ \A e \in S : Reported(e)'
<1>1. ASSUME NEW e \in S, NEW k \in Members(e) PROVE k \in Keys /\ k \in KeysOf(S)
  BY EntriesPartition DEF Members, KeysOf
<1> QED
  BY <1>1 DEF Fail, Reported

LEMMA SucceedReports ==
    ASSUME NEW e \in Entries, Succeed(e)
    PROVE  /\ \A k \in Keys : rows'[k] = "none" => rows[k] = "none"
           /\ Reported(e)'
<1>1. ASSUME NEW k \in Members(e) PROVE k \in Keys /\ (k = e.first \/ k \in e.aliases)
  BY EntriesPartition DEF Members
<1> QED
  BY <1>1 DEF Succeed, Reported

LEMMA LostInit == Init => NothingLost
BY DEF Init, NothingLost

LEMMA LostNext == TypeOK /\ Shape /\ NothingLost /\ [Next]_vars => NothingLost'
<1> SUFFICES ASSUME TypeOK, Shape, NothingLost, [Next]_vars PROVE NothingLost'
  OBVIOUS
<1> USE DEF Stopped
<1>1. CASE Unavailable \/ TcpStarts \/ TcpConnects \/ TcpFinishes \/ WavesEnd \/ Ranks
  BY <1>1 DEF NothingLost, Unavailable, TcpStarts, TcpConnects, TcpFinishes, WavesEnd, Ranks
<1>2. CASE StartWave \/ Preempted \/ Finished \/ UNCHANGED vars
  BY <1>2 DEF NothingLost, Holds, StartWave, Preempted, Finished, vars, stopState, batches
<1>3. CASE Prepares
  <2>1. \A k \in Keys : rows'[k] = "none" => \E e \in prepared' : k \in Members(e)
    BY <1>3 DEF Prepares, KeysOf
  <2> QED
    BY <2>1 DEF NothingLost
<1>4. ASSUME NEW b \in Slots, QueueBatch(b), ~Stopped PROVE NothingLost'
  <2>1. PICK S \in SUBSET prepared :
          prepared' = prepared \ S /\ pending' = [pending EXCEPT ![b] = {S}]
    BY <1>4 DEF QueueBatch
  <2>2. phase = "queue" /\ UNCHANGED <<rows, current>> /\ pending[b] = {} /\ current[b] = {}
    BY <1>4 DEF QueueBatch, Shape
  <2>3. pending'[b] = {S} /\ \A c \in Slots \ {b} : pending'[c] = pending[c]
    BY <2>1 DEF TypeOK
  <2>4. ASSUME NEW e, Somewhere(e) PROVE Somewhere(e)'
    <3>1. CASE e \in prepared
      <4>1. e \in S => e \in Holds(b)'
        BY <2>3, HoldsMemberNext
      <4> QED
        BY <2>1, <3>1, <4>1 DEF Somewhere
    <3>2. ASSUME NEW c \in Slots, e \in Holds(c) PROVE Somewhere(e)'
      <4>1. c # b
        BY <2>2, <3>2, HoldsMember
      <4>2. Holds(c)' = Holds(c)
        BY <2>2, <2>3, <4>1 DEF Holds
      <4> QED
        BY <3>2, <4>2 DEF Somewhere
    <3> QED
      BY <2>4, <3>1, <3>2 DEF Somewhere
  <2> QED
    BY <1>4, <2>2, <2>4, LostStep
<1>5. ASSUME NEW b \in Slots, Batch(b), ~BatchEnds(b), ~Stopped' PROVE NothingLost'
  <2>1. /\ prepared' = prepared /\ phase = "wave" /\ ~Stopped
        /\ \A c \in Slots \ {b} : pending'[c] = pending[c] /\ current'[c] = current[c]
    BY <1>5, BatchFrame
  <2>2. SUFFICES /\ \A k \in Keys : rows'[k] = "none" => rows[k] = "none"
                 /\ \A e : e \in Holds(b) => e \in Holds(b)' \/ Reported(e)'
    BY <2>1, SomewhereBatch, LostStep
  <2>3. /\ pending \in [Slots -> SUBSET SUBSET Entries]
        /\ current \in [Slots -> SUBSET Entries]
        /\ current[b] \in SUBSET Entries
    BY DEF TypeOK
  <2>4. CASE NextAttempt(b)
    <3>1. PICK S \in pending[b] : pending' = [pending EXCEPT ![b] = @ \ {S}]
                                  /\ current' = [current EXCEPT ![b] = S]
      BY <2>4 DEF NextAttempt
    <3>2. pending'[b] = pending[b] \ {S} /\ current'[b] = S /\ current[b] = {} /\ UNCHANGED rows
      BY <2>3, <2>4, <3>1 DEF NextAttempt, Step, Shape
    <3>3. ASSUME NEW e, e \in Holds(b) PROVE e \in Holds(b)'
      BY <3>2, <3>3, HoldsMember, HoldsMemberNext
    <3> QED
      BY <3>2, <3>3
  <2>5. CASE Starts(b)
    BY <2>5 DEF Holds, Starts
  <2>6. CASE ProbeDropped(b)
    BY <2>1, <2>6 DEF ProbeDropped
  <2>7. CASE CleansUp(b)
    <3>1. pending' = pending /\ current[b] = {} /\ UNCHANGED rows
      BY <2>1, <2>7 DEF CleansUp, Step, Shape
    <3>2. ASSUME NEW e, e \in Holds(b) PROVE e \in Holds(b)'
      BY <3>1, <3>2, HoldsMember, HoldsMemberNext
    <3> QED
      BY <3>1, <3>2
  <2>8. CASE StartFails(b)
    <3>1. Fail(current[b]) /\ pending' = pending
      BY <2>8 DEF StartFails
    <3>2. ASSUME NEW e, e \in Holds(b) PROVE e \in Holds(b)' \/ Reported(e)'
      BY <2>3, <3>1, <3>2, FailReports, HoldsMember, HoldsMemberNext
    <3> QED
      BY <2>3, <3>1, <3>2, FailReports
  <2>9. CASE EntryRejected(b)
    <3>1. PICK d \in current[b] :
            /\ Fail({d})
            /\ pending' = [pending EXCEPT ![b] = @ \cup ({current[b] \ {d}} \ {{}})]
      BY <2>9 DEF EntryRejected
    <3>2. pending'[b] = pending[b] \cup ({current[b] \ {d}} \ {{}}) /\ {d} \in SUBSET Entries
      BY <2>3, <3>1
    <3>3. ASSUME NEW e, e \in Holds(b) PROVE e \in Holds(b)' \/ Reported(e)'
      <4>1. CASE e = d
        BY <3>1, <3>2, <4>1, FailReports
      <4>2. CASE e \in current[b] /\ e # d
        <5>1. current[b] \ {d} \in pending'[b] /\ e \in current[b] \ {d}
          BY <3>2, <4>2
        <5> QED
          BY <5>1, HoldsMemberNext
      <4>3. CASE e \notin current[b]
        <5>1. PICK S \in pending[b] : e \in S
          BY <3>3, <4>3, HoldsMember
        <5> QED
          BY <3>2, <5>1, HoldsMemberNext
      <4> QED
        BY <4>1, <4>2, <4>3
    <3> QED
      BY <3>1, <3>2, <3>3, FailReports
  <2>10. CASE Splits(b)
    <3>1. PICK left \in SUBSET current[b] :
            pending' = [pending EXCEPT ![b] = @ \cup {left, current[b] \ left}]
      BY <2>10 DEF Splits
    <3>2. pending'[b] = pending[b] \cup {left, current[b] \ left} /\ UNCHANGED rows
      BY <2>3, <2>10, <3>1 DEF Splits
    <3>3. ASSUME NEW e, e \in Holds(b) PROVE e \in Holds(b)'
      <4>1. CASE e \in current[b]
        <5>1. \E S \in pending'[b] : e \in S
          BY <3>2, <4>1
        <5> QED
          BY <5>1, HoldsMemberNext
      <4>2. CASE e \notin current[b]
        <5>1. PICK S \in pending[b] : e \in S
          BY <3>3, <4>2, HoldsMember
        <5> QED
          BY <3>2, <5>1, HoldsMemberNext
      <4> QED
        BY <4>1, <4>2
    <3> QED
      BY <3>2, <3>3
  <2>11. CASE ProbeFinishes(b)
    <3>1. PICK d \in current[b] :
            (Succeed(d) \/ Fail({d})) /\ current' = [current EXCEPT ![b] = @ \ {d}]
      BY <2>11 DEF ProbeFinishes
    <3>2. pending' = pending /\ current'[b] = current[b] \ {d} /\ d \in Entries
          /\ {d} \in SUBSET Entries
      BY <2>3, <2>11, <3>1 DEF ProbeFinishes
    <3>3. /\ \A k \in Keys : rows'[k] = "none" => rows[k] = "none"
          /\ Reported(d)'
      <4>1. d \in {d}
        OBVIOUS
      <4> QED
        BY <3>1, <3>2, <4>1, FailReports, SucceedReports
    <3>4. ASSUME NEW e, e \in Holds(b), e # d PROVE e \in Holds(b)'
      BY <3>2, <3>4, HoldsMember, HoldsMemberNext
    <3> QED
      BY <3>3, <3>4
  <2> QED
    BY <1>5, <2>4, <2>5, <2>6, <2>7, <2>8, <2>9, <2>10, <2>11 DEF Batch
<1>6. ASSUME NEW b \in Slots, BatchEnds(b), ~Stopped PROVE NothingLost'
  <2>1. phase = "wave" /\ at[b] = "next" /\ pending[b] = {} /\ UNCHANGED <<prepared, rows>>
    BY <1>6 DEF BatchEnds, Step
  <2>2. CASE Busy = {b}
    <3>1. \A c \in Slots : pending[c] = {} /\ current[c] = {}
      BY <2>1, <2>2 DEF Busy, Shape
    <3>2. ASSUME NEW e, Somewhere(e) PROVE Somewhere(e)'
      BY <2>1, <3>1, <3>2, HoldsMember DEF Somewhere
    <3> QED
      BY <1>6, <2>1, <3>2, LostStep
  <2>3. CASE Busy # {b}
    <3>1. UNCHANGED <<pending, current>>
      BY <1>6, <2>3 DEF BatchEnds
    <3>2. \A e : Somewhere(e) => Somewhere(e)'
      BY <2>1, <3>1 DEF Somewhere, Holds
    <3> QED
      BY <1>6, <2>1, <3>2, LostStep
  <2> QED
    BY <2>2, <2>3
<1>7. ASSUME NEW b \in Slots, Stopped, QueueBatch(b) \/ Batch(b) PROVE NothingLost'
  <2>1. Stopped'
    <3>1. CASE QueueBatch(b)
      BY <1>7, <3>1 DEF QueueBatch
    <3>2. CASE BatchEnds(b)
      BY <1>7, <3>2 DEF BatchEnds
    <3> QED
      BY <1>7, <3>1, <3>2, BatchFrame
  <2> QED
    BY <2>1 DEF NothingLost
<1>8. ASSUME NEW b \in Slots, Stopped', Batch(b) PROVE NothingLost'
  BY <1>8 DEF NothingLost
<1> QED
  BY <1>1, <1>2, <1>3, <1>4, <1>5, <1>6, <1>7, <1>8 DEF Next, Engine

\* No candidate is lost on the way through queue, batches, splits and retries.
THEOREM AllAccounted == Spec => []Accounted
<1> DEFINE IInv == TypeOK /\ Shape /\ OnePlace /\ NothingLost
<1>1. IInv /\ [Next]_vars => IInv'
  BY TypeNext, ShapeNext, OnePlaceNext, LostNext
<1>2. Init => IInv
  BY TypeInit, ShapeInit, OnePlaceInit, LostInit
<1>3. IInv => Accounted
  BY DEF Accounted
<1> HIDE DEF IInv
<1> QED
  BY <1>1, <1>2, <1>3, PTL DEF Spec
-----------------------------------------------------------------------------
(* What a step may do after a stop, and to the batch size.                   *)

\* Failing definitions that wait for their verdict changes no working config.
LEMMA FailKeepsUp ==
    ASSUME TypeOK, OnePlace, NEW b \in Slots, NEW S \in SUBSET current[b], Fail(S)
    PROVE  UpRows(rows') = UpRows(rows)
<1>1. ASSUME NEW k \in Keys, k \in KeysOf(S) PROVE rows[k] = "none"
  <2>1. PICK e \in S : k \in Members(e)
    BY <1>1 DEF KeysOf
  <2>2. e \in prepared \cup UNION {Holds(c) : c \in Slots}
    BY HoldsMember
  <2> QED
    BY <2>1, <2>2 DEF OnePlace
<1> QED
  BY <1>1 DEF Fail, UpRows

\* All batches quit after a stop, and no verdict turns a config working.
THEOREM StopIsQuick == Spec => QuitsAfterStop
<1> DEFINE Quits ==
      Stopped => /\ prepared # {} => prepared' = prepared
                 /\ \A b \in Slots : at'[b] = "probing" => at[b] = "probing"
                 /\ UpRows(rows') = UpRows(rows)
<1>1. ASSUME TypeOK, Shape, OnePlace, [Next]_vars, Stopped PROVE Quits
  <2>1. CASE TcpStarts \/ TcpFinishes \/ StartWave \/ WavesEnd \/ Ranks \/ Preempted \/ Finished
             \/ UNCHANGED vars
    BY <2>1 DEF TcpStarts, TcpFinishes, StartWave, WavesEnd, Ranks, Preempted, Finished, vars,
                batches
  <2>2. CASE Unavailable \/ Prepares
    <3>1. prepared = {} /\ rows = [k \in Keys |-> "none"]
      BY <1>1, <2>2 DEF Unavailable, Prepares, Shape
    <3>2. UNCHANGED at
      BY <2>2 DEF Unavailable, Prepares, batches
    <3>3. \A k \in Keys : rows'[k] # "up" /\ rows[k] # "up"
      BY <2>2, <3>1 DEF Unavailable, Prepares
    <3> QED
      BY <3>1, <3>2, <3>3 DEF UpRows
  <2>3. CASE TcpConnects
    BY <1>1, <2>3 DEF TcpConnects, Shape, Stopped, batches
  <2>4. ASSUME NEW b \in Slots, QueueBatch(b) PROVE FALSE
    BY <1>1, <2>4 DEF QueueBatch
  <2>5. ASSUME NEW b \in Slots, Batch(b), ~BatchEnds(b) PROVE Quits
    <3>1. /\ UNCHANGED prepared
          /\ \A c \in Slots \ {b} : at'[c] = at[c]
      BY <2>5, <1>1, BatchFrame
    <3>2. (at'[b] = "probing" => at[b] = "probing") /\ UpRows(rows') = UpRows(rows)
      <4>1. CASE NextAttempt(b) \/ CleansUp(b)
        BY <1>1, <4>1 DEF NextAttempt, CleansUp, Goto, TypeOK
      <4>2. CASE Starts(b) \/ ProbeDropped(b)
        BY <1>1, <4>2 DEF Starts, ProbeDropped, Goto, TypeOK
      <4>3. CASE StartFails(b) \/ EntryRejected(b)
        <5>1. \E S \in SUBSET current[b] : Fail(S)
          BY <4>3 DEF StartFails, EntryRejected
        <5>2. at'[b] # "probing"
          BY <1>1, <4>3 DEF StartFails, EntryRejected, Goto, TypeOK
        <5> QED
          BY <1>1, <5>1, <5>2, FailKeepsUp
      <4>4. CASE Splits(b)
        BY <1>1, <4>4 DEF Splits, Goto, TypeOK
      <4>5. CASE ProbeFinishes(b)
        BY <1>1, <4>5 DEF ProbeFinishes
      <4> QED
        BY <2>5, <4>1, <4>2, <4>3, <4>4, <4>5 DEF Batch
    <3> QED
      BY <3>1, <3>2
  <2>6. ASSUME NEW b \in Slots, BatchEnds(b) PROVE Quits
    BY <1>1, <2>6 DEF BatchEnds
  <2> HIDE DEF Quits
  <2> QED
    BY <1>1, <2>1, <2>2, <2>3, <2>4, <2>5, <2>6 DEF Next, Engine
<1>2. TypeOK /\ Shape /\ OnePlace /\ [Next]_vars => [Quits]_vars
  BY <1>1
<1>3. TypeOK /\ Shape /\ OnePlace /\ [Next]_vars => (TypeOK /\ Shape /\ OnePlace)'
  BY TypeNext, ShapeNext, OnePlaceNext
<1>4. Init => TypeOK /\ Shape /\ OnePlace
  BY TypeInit, ShapeInit, OnePlaceInit
<1> QED
  BY <1>2, <1>3, <1>4, PTL DEF Spec, QuitsAfterStop

\* Trouble in every batch never makes the next ones larger.
THEOREM TroubleShrinks == Spec => TroubleNeverGrows
<1> DEFINE Shrinks == (\A b \in Busy : stats[b].troubled) => sizer'.current <= sizer.current
<1>1. ASSUME TypeOK, [Next]_vars PROVE Shrinks
  <2>1. sizer.current \in Nat /\ SizerOK(sizer)
    BY <1>1 DEF TypeOK, SizerOK, Sizers
  <2>2. ASSUME NEW b \in Slots, BatchEnds(b) PROVE Shrinks
    <3>1. sizer' = Observed(sizer, stats[b]) /\ b \in Busy /\ stats[b] \in BatchStats
      BY <1>1, <2>2 DEF BatchEnds, Step, Busy, TypeOK, BatchStats
    <3> QED
      BY <2>1, <3>1, ObservedOK
  <2>3. ASSUME NEW b \in Slots, QueueBatch(b) \/ (Batch(b) /\ ~BatchEnds(b)) PROVE sizer' = sizer
    <3>1. CASE QueueBatch(b)
      BY <3>1 DEF QueueBatch
    <3> QED
      BY <1>1, <2>3, <3>1, BatchFrame
  <2>4. CASE Unavailable \/ Prepares \/ TcpStarts \/ TcpConnects \/ TcpFinishes
    <3>1. sizer' = sizer
      BY <2>4 DEF Unavailable, Prepares, TcpStarts, TcpConnects, TcpFinishes
    <3> QED
      BY <2>1, <3>1
  <2>6. CASE StartWave \/ WavesEnd \/ Ranks \/ Preempted \/ Finished \/ UNCHANGED vars
    <3>1. sizer' = sizer
      BY <2>6 DEF StartWave, WavesEnd, Ranks, Preempted, Finished, vars
    <3> QED
      BY <2>1, <3>1
  <2>5. CASE sizer' = sizer
    BY <2>1, <2>5
  <2> HIDE DEF Shrinks
  <2> QED
    BY <1>1, <2>2, <2>3, <2>4, <2>5, <2>6 DEF Next, Engine
<1>2. TypeOK /\ [Next]_vars => [Shrinks]_vars
  BY <1>1
<1> QED
  BY <1>2, TypeInit, TypeNext, PTL DEF Spec, TroubleNeverGrows

-----------------------------------------------------------------------------
(* ProbeEngine keeps the promise of ProbeCall.  On top of the invariants above *)
(* this needs what the search for previously working configs knows (Search)   *)
(* and why a call may end (Justified).                                       *)

\* A folded candidate has a working equivalent.
FoldedOK ==
    \A k \in Keys : rows[k] = "folded" =>
        \E e \in Entries : k \in e.aliases /\ rows[e.first] = "up"

\* A verdict is never taken back.
Kept == \A k \in Keys : rows[k] # "none" => rows'[k] = rows[k]

\* The ways a step changes the verdicts.
LEMMA RowsStep ==
    ASSUME TypeOK, Shape, [Next]_vars
    PROVE  \/ rows' = rows
           \/ /\ \A k \in Keys : rows[k] = "none"
              /\ \A k \in Keys : rows'[k] # "folded"
           \/ \E k \in Keys : rows[k] = "none" /\
                \E v \in {"up", "down"} : rows' = [rows EXCEPT ![k] = v]
           \/ \E b \in Slots : \E S \in SUBSET current[b] : Fail(S)
           \/ \E b \in Slots : \E e \in current[b] : Succeed(e)
<1>1. CASE Unavailable \/ Prepares
  <2>1. rows = [k \in Keys |-> "none"]
    BY <1>1 DEF Unavailable, Prepares, Shape
  <2>2. \A k \in Keys : rows'[k] # "folded"
    BY <1>1 DEF Unavailable, Prepares
  <2> QED
    BY <2>1, <2>2
<1>2. CASE TcpStarts \/ TcpFinishes \/ StartWave \/ WavesEnd \/ Ranks \/ Preempted \/ Finished
           \/ UNCHANGED vars
  BY <1>2 DEF TcpStarts, TcpFinishes, StartWave, WavesEnd, Ranks, Preempted, Finished, vars
<1>3. CASE TcpConnects
  BY <1>3 DEF TcpConnects
<1>4. ASSUME NEW b \in Slots, QueueBatch(b) PROVE rows' = rows
  BY <1>4 DEF QueueBatch
<1>5. ASSUME NEW b \in Slots,
             NextAttempt(b) \/ Starts(b) \/ Splits(b) \/ ProbeDropped(b) \/ CleansUp(b)
      PROVE  rows' = rows
  BY <1>5 DEF NextAttempt, Starts, Splits, ProbeDropped, CleansUp
<1>6. ASSUME NEW b \in Slots, BatchEnds(b) PROVE rows' = rows
  BY <1>6 DEF BatchEnds
<1>7. ASSUME NEW b \in Slots, StartFails(b) \/ EntryRejected(b)
      PROVE  \E S \in SUBSET current[b] : Fail(S)
  BY <1>7 DEF StartFails, EntryRejected
<1>8. ASSUME NEW b \in Slots, ProbeFinishes(b)
      PROVE  \E e \in current[b] : Succeed(e) \/ Fail({e})
  BY <1>8 DEF ProbeFinishes
<1>9. ASSUME NEW b \in Slots, NEW e \in current[b], Fail({e})
      PROVE  \E S \in SUBSET current[b] : Fail(S)
  <2>1. {e} \in SUBSET current[b]
    OBVIOUS
  <2> QED
    BY <1>9, <2>1
<1>10. ASSUME NEW b \in Slots, Batch(b)
       PROVE  \/ rows' = rows
              \/ \E S \in SUBSET current[b] : Fail(S)
              \/ \E e \in current[b] : Succeed(e)
  BY <1>5, <1>6, <1>7, <1>8, <1>9, <1>10 DEF Batch
<1> QED
  BY <1>1, <1>2, <1>3, <1>4, <1>10 DEF Next, Engine

\* A definition under test has no verdict yet.
LEMMA Waiting ==
    ASSUME TypeOK, OnePlace, NEW b \in Slots, NEW e \in current[b]
    PROVE  e \in Entries /\ \A k \in Members(e) : k \in Keys /\ rows[k] = "none"
<1>1. e \in Entries
  BY DEF TypeOK
<1>2. e \in prepared \cup UNION {Holds(c) : c \in Slots}
  BY HoldsMember
<1> QED
  BY <1>1, <1>2, EntriesPartition DEF OnePlace, Members

LEMMA RowsKept ==
    ASSUME TypeOK, Shape, OnePlace, FoldedOK, [Next]_vars
    PROVE  Kept /\ FoldedOK'
<1>1. CASE rows' = rows
  BY <1>1 DEF Kept, FoldedOK
<1>2. CASE /\ \A k \in Keys : rows[k] = "none"
           /\ \A k \in Keys : rows'[k] # "folded"
  BY <1>2 DEF Kept, FoldedOK
<1>3. SUFFICES ASSUME Kept,
                      \A k \in Keys : rows'[k] = "folded" =>
                        \/ rows[k] = "folded"
                        \/ \E e \in Entries : k \in e.aliases /\ rows'[e.first] = "up"
               PROVE  FoldedOK'
  <2>1. CASE \E k \in Keys : rows[k] = "none" /\
               \E v \in {"up", "down"} : rows' = [rows EXCEPT ![k] = v]
    BY <1>3, <2>1 DEF Kept, TypeOK
  <2>2. ASSUME NEW b \in Slots, NEW S \in SUBSET current[b], Fail(S)
        PROVE  Kept /\ \A k \in Keys : rows'[k] = "folded" => rows[k] = "folded"
    <3>1. ASSUME NEW k \in KeysOf(S) PROVE rows[k] = "none"
      <4>1. PICK e \in S : k \in Members(e)
        BY DEF KeysOf
      <4> QED
        BY <4>1, Waiting
    <3> QED
      BY <2>2, <3>1 DEF Fail, Kept
  <2>3. ASSUME NEW b \in Slots, NEW e \in current[b], Succeed(e)
        PROVE  /\ Kept
               /\ \A k \in Keys : rows'[k] = "folded" =>
                    \/ rows[k] = "folded"
                    \/ \E d \in Entries : k \in d.aliases /\ rows'[d.first] = "up"
    <3>1. e \in Entries /\ e.first \in Keys
          /\ \A k \in Members(e) : k \in Keys /\ rows[k] = "none"
      BY Waiting, EntriesPartition
    <3>2. rows[e.first] = "none" /\ \A k \in e.aliases : rows[k] = "none"
      BY <3>1 DEF Members
    <3>3. rows'[e.first] = "up"
      BY <2>3, <3>1 DEF Succeed
    <3>4. Kept
      BY <2>3, <3>2 DEF Succeed, Kept
    <3>5. \A k \in Keys : rows'[k] = "folded" => rows[k] = "folded" \/ k \in e.aliases
      BY <2>3 DEF Succeed
    <3> QED
      BY <3>1, <3>3, <3>4, <3>5
  <2> QED
    BY <1>1, <1>2, <1>3, <2>1, <2>2, <2>3, RowsStep
<1>4. ASSUME NEW k \in Keys, rows'[k] = "folded"
      PROVE  \E e \in Entries : k \in e.aliases /\ rows'[e.first] = "up"
  <2>1. CASE rows[k] = "folded"
    <3>1. PICK e \in Entries : k \in e.aliases /\ rows[e.first] = "up"
      BY <2>1 DEF FoldedOK
    <3>2. e.first \in Keys
      BY EntriesPartition
    <3> QED
      BY <1>3, <3>1, <3>2 DEF Kept
  <2> QED
    BY <1>3, <1>4, <2>1
<1> QED
  BY <1>4 DEF FoldedOK

LEMMA CallKept == [Next]_vars => call' = call
<1> SUFFICES ASSUME [Next]_vars PROVE call' = call
  OBVIOUS
<1>1. CASE Unavailable \/ Prepares \/ TcpStarts \/ TcpConnects \/ TcpFinishes
  BY <1>1 DEF Unavailable, Prepares, TcpStarts, TcpConnects, TcpFinishes
<1>2. CASE StartWave \/ WavesEnd \/ Ranks \/ Preempted \/ Finished \/ UNCHANGED vars
  BY <1>2 DEF StartWave, WavesEnd, Ranks, Preempted, Finished, vars
<1>3. ASSUME NEW b \in Slots, QueueBatch(b) PROVE call' = call
  BY <1>3 DEF QueueBatch
<1>4. ASSUME NEW b \in Slots, NextAttempt(b) \/ Starts(b) \/ StartFails(b) \/ EntryRejected(b)
      PROVE  call' = call
  BY <1>4 DEF NextAttempt, Starts, StartFails, EntryRejected
<1>5. ASSUME NEW b \in Slots, Splits(b) \/ ProbeFinishes(b) \/ ProbeDropped(b) \/ CleansUp(b)
                              \/ BatchEnds(b)
      PROVE  call' = call
  BY <1>5 DEF Splits, ProbeFinishes, ProbeDropped, CleansUp, BatchEnds
<1> QED
  BY <1>1, <1>2, <1>3, <1>4, <1>5 DEF Next, Engine, Batch
-----------------------------------------------------------------------------
(* The target, once met, stays met.                                          *)

\* Both modules mean the same cardinality.
LEMMA SameCardinality == \A S : Call!Cardinality(S) = Cardinality(S)
BY DEF Call!Cardinality, Cardinality

LEMMA UpRowsType ==
    ASSUME TypeOK
    PROVE  /\ Call!UpRows = UpRows(rows) /\ Call!Untested = {k \in Keys : rows[k] = "none"}
           /\ call.previous \in SUBSET (Keys \cup Gone)
           /\ {call.topN, call.prefound, call.prefoundPrevious} \subseteq Nat
           /\ {call.scanAll, call.stability} \subseteq BOOLEAN
BY CallsKnown DEF Call!UpRows, UpRows, Call!Untested, TypeOK, CallRecords

LEMMA TargetStays ==
    ASSUME TypeOK, TypeOK', Kept, call' = call, Call!TargetMet
    PROVE  Call!TargetMet'
<1> DEFINE U == Call!UpRows
           P == Call!UpRows \cap call.previous
<1>1. U \subseteq U' /\ P \subseteq P' /\ Call!Untested' \subseteq Call!Untested
  BY DEF Kept, Call!UpRows, Call!Untested
<1>2. U' \in SUBSET (Keys \cup Gone) /\ P' \in SUBSET (Keys \cup Gone)
      /\ U \in SUBSET (Keys \cup Gone) /\ P \in SUBSET (Keys \cup Gone)
  BY DEF Call!UpRows
<1> HIDE DEF U, P
<1>3. Cardinality(U) <= Cardinality(U') /\ Cardinality(P) <= Cardinality(P')
      /\ {Cardinality(U), Cardinality(U'), Cardinality(P), Cardinality(P')} \subseteq Nat
  BY <1>1, <1>2, KeySets, FS_Subset
<1>4. Cardinality(call.previous) \in Nat /\ Call!Quorum(call) \in Nat
  BY UpRowsType, KeySets DEF Call!Quorum
<1>5. /\ call.mode = "active" /\ ~call.scanAll /\ call.topN # 0
      /\ Cardinality(U) + call.prefound >= call.topN
      /\ \/ ~call.stability
         \/ Cardinality(P) + call.prefoundPrevious >= Call!Quorum(call)
         \/ Cardinality(P) + call.prefoundPrevious >= Cardinality(call.previous)
         \/ call.previous \cap Call!Untested = {}
  BY SameCardinality DEF Call!TargetMet, U, P
<1>6. Cardinality(U') + call.prefound >= call.topN
  BY <1>3, <1>5, UpRowsType
<1>7. \/ ~call.stability
      \/ Cardinality(P') + call.prefoundPrevious >= Call!Quorum(call)
      \/ Cardinality(P') + call.prefoundPrevious >= Cardinality(call.previous)
      \/ call.previous \cap Call!Untested' = {}
  <2>1. CASE call.previous \cap Call!Untested = {}
    BY <1>1, <2>1
  <2> QED
    BY <1>3, <1>4, <1>5, <2>1, UpRowsType
<1> QED
  BY <1>5, <1>6, <1>7, SameCardinality DEF Call!TargetMet, Call!Quorum, U, P
-----------------------------------------------------------------------------
(* What the search for previously working configs knows.                     *)

Searching == phase \in {"queue", "wave"} /\ ~Stopped /\ ~call.scanAll /\ call.stability

\* remaining counts the previously working definitions that no finished wave
\* has tested, and the search is over only when all of them are tested.
Search ==
    /\ phase = "check" => wavePrevious = 0
    /\ Searching /\ ~exhausted =>
          remaining = Cardinality(PreviousEntries(prepared)) + wavePrevious
    /\ Searching /\ exhausted => call.previous \cap Call!Untested = {}

\* A batch takes its previously working definitions from those queued.
LEMMA PreviousSplit ==
    ASSUME TypeOK, NEW S \in SUBSET prepared
    PROVE  /\ Cardinality(PreviousEntries(S)) \in Nat
           /\ Cardinality(PreviousEntries(prepared \ S)) \in Nat
           /\ Cardinality(PreviousEntries(prepared)) =
                 Cardinality(PreviousEntries(S)) + Cardinality(PreviousEntries(prepared \ S))
<1> DEFINE A == PreviousEntries(prepared)
           B == PreviousEntries(S)
           D == PreviousEntries(prepared \ S)
<1>1. A \in SUBSET Entries /\ B \in SUBSET Entries /\ D \in SUBSET Entries
  BY DEF TypeOK, PreviousEntries
<1>2. A \ B = D /\ A \cap B = B
  BY DEF PreviousEntries
<1> HIDE DEF A, B, D
<1>3. IsFiniteSet(A) /\ Cardinality(A) \in Nat /\ Cardinality(B) \in Nat /\ Cardinality(D) \in Nat
  BY <1>1, EntrySets
<1>4. Cardinality(D) = Cardinality(A) - Cardinality(B)
  <2>1. Cardinality(A \ B) = Cardinality(A) - Cardinality(A \cap B)
    BY <1>3, FS_Difference
  <2> QED
    BY <1>2, <2>1
<1>5. Cardinality(A) = Cardinality(B) + Cardinality(D)
  BY <1>3, <1>4
<1> QED
  BY <1>3, <1>5 DEF A, B, D

\* No previously working definition queued, and none in a batch: all tested.
LEMMA NoneLeft ==
    ASSUME TypeOK, NEW S \in SUBSET Entries, Cardinality(PreviousEntries(S)) = 0,
           NEW list, \A k \in Keys : list[k] = "none" => \E e \in S : k \in Members(e)
    PROVE  call.previous \cap {k \in Keys : list[k] = "none"} = {}
<1>1. PreviousEntries(S) \in SUBSET Entries
  BY DEF PreviousEntries
<1>2. PreviousEntries(S) = {}
  BY <1>1, EntrySets, FS_EmptySet
<1> QED
  BY <1>2 DEF PreviousEntries

\* When the last batch of an unstopped wave ends, only the queue is left.
LEMMA WaveEmpty ==
    ASSUME Shape, NothingLost, ~Stopped, phase \in {"queue", "wave"},
           \A b \in Slots : at[b] \in {"idle", "next"} /\ pending[b] = {}
    PROVE  \A k \in Keys : rows[k] = "none" => \E e \in prepared : k \in Members(e)
<1>1. ASSUME NEW b \in Slots, NEW e \in Holds(b) PROVE FALSE
  BY HoldsMember DEF Shape
<1>2. ASSUME NEW k \in Keys, rows[k] = "none"
      PROVE  \E e \in prepared : k \in Members(e)
  <2>1. PICK e : Somewhere(e) /\ k \in Members(e)
    BY <1>2, SomewhereMeans DEF NothingLost
  <2> QED
    BY <1>1, <2>1 DEF Somewhere
<1> QED
  BY <1>2

LEMMA SearchInit == Init => Search
BY DEF Init, Search, Searching

LEMMA SearchNext ==
    TypeOK /\ Shape /\ OnePlace /\ NothingLost /\ FoldedOK /\ Search /\ [Next]_vars => Search'
<1> SUFFICES ASSUME TypeOK, Shape, OnePlace, NothingLost, FoldedOK, Search, [Next]_vars
             PROVE  Search'
  OBVIOUS
<1>1. call' = call
  BY CallKept
<1>2. Call!Untested' \subseteq Call!Untested
  BY RowsKept DEF Kept, Call!Untested
<1>4. TypeOK'
  BY TypeNext
<1>5. CASE Unavailable \/ TcpStarts \/ TcpConnects \/ TcpFinishes \/ WavesEnd \/ Ranks
  BY <1>5 DEF Search, Searching, Unavailable, TcpStarts, TcpConnects, TcpFinishes, WavesEnd, Ranks
<1>6. CASE StartWave \/ Preempted \/ Finished \/ UNCHANGED vars
  <2>1. /\ UNCHANGED <<call, prepared, rows, remaining, exhausted, wavePrevious, reached>>
        /\ external => external'
        /\ phase' = phase \/ (phase = "queue" /\ phase' = "wave")
    BY <1>6 DEF StartWave, Preempted, Finished, vars, stopState
  <2>2. UNCHANGED PreviousEntries(prepared) /\ UNCHANGED Call!Untested
    BY <2>1 DEF PreviousEntries, Call!Untested
  <2>3. Searching' => Searching
    BY <2>1 DEF Searching, Stopped
  <2> QED
    BY <2>1, <2>2, <2>3 DEF Search
<1>7. CASE Prepares
  <2>1. /\ phase' = "queue" /\ wavePrevious' = 0 /\ prepared' = Entries
        /\ Searching' => remaining' = Cardinality(PreviousEntries(Entries))
        /\ exhausted' => remaining' = 0
    BY <1>1, <1>7 DEF Prepares, Search, Searching
  <2>2. PreviousEntries(prepared)' = PreviousEntries(Entries)
    BY <1>1, <2>1 DEF PreviousEntries
  <2>3. Cardinality(PreviousEntries(Entries)) \in Nat
    <3>1. PreviousEntries(Entries) \in SUBSET Entries
      BY DEF PreviousEntries
    <3> QED
      BY <3>1, EntrySets
  <2>4. ASSUME Cardinality(PreviousEntries(Entries)) = 0
        PROVE  call.previous \cap {k \in Keys : rows'[k] = "none"} = {}
    <3>1. \A k \in Keys : rows'[k] = "none" => \E e \in Entries : k \in Members(e)
      BY <1>7 DEF Prepares, KeysOf
    <3> QED
      BY <2>4, <3>1, NoneLeft
  <2>5. Searching' /\ exhausted' => (call.previous \cap Call!Untested)' = {}
    BY <1>1, <2>1, <2>4 DEF Call!Untested
  <2> QED
    BY <2>1, <2>2, <2>3, <2>5 DEF Search
<1>8. ASSUME NEW b \in Slots, QueueBatch(b) PROVE Search'
  <2>1. PICK S \in SUBSET prepared :
          /\ prepared' = prepared \ S
          /\ wavePrevious' = wavePrevious + Cardinality(PreviousEntries(S))
    BY <1>8 DEF QueueBatch
  <2>2. /\ phase = "queue" /\ UNCHANGED <<phase, rows, remaining, exhausted, reached, external>>
    BY <1>8 DEF QueueBatch, stopState
  <2>3. Searching' = Searching /\ UNCHANGED Call!Untested
    BY <1>1, <2>2 DEF Searching, Stopped, Call!Untested
  <2>4. PreviousEntries(prepared)' = PreviousEntries(prepared \ S)
    BY <1>1, <2>1 DEF PreviousEntries
  <2>5. wavePrevious \in Nat /\ remaining \in Nat
    BY DEF TypeOK
  <2>6. Searching' /\ ~exhausted' =>
          remaining' = Cardinality(PreviousEntries(prepared))' + wavePrevious'
    BY <2>1, <2>2, <2>3, <2>4, <2>5, PreviousSplit DEF Search
  <2> QED
    BY <1>1, <2>2, <2>3, <2>6 DEF Search
<1>9. ASSUME NEW b \in Slots, Batch(b), ~BatchEnds(b) PROVE Search'
  <2>1. /\ phase = "wave" /\ UNCHANGED <<phase, prepared, external, wavePrevious>>
        /\ UNCHANGED <<remaining, exhausted>> /\ (reached => reached')
    BY <1>9, BatchFrame
  <2>2. UNCHANGED PreviousEntries(prepared)
    BY <1>1, <2>1 DEF PreviousEntries
  <2>3. Searching' => Searching
    BY <1>1, <2>1 DEF Searching, Stopped
  <2> QED
    BY <1>1, <1>2, <2>1, <2>2, <2>3 DEF Search
<1>10. ASSUME NEW b \in Slots, BatchEnds(b) PROVE Search'
  <2>1. /\ phase = "wave" /\ at[b] = "next" /\ phase' # "check"
        /\ UNCHANGED <<prepared, rows, reached, external>>
    BY <1>10 DEF BatchEnds, Step
  <2>2. UNCHANGED PreviousEntries(prepared) /\ UNCHANGED Call!Untested
    BY <1>1, <2>1 DEF PreviousEntries, Call!Untested
  <2>3. Stopped' = Stopped
    BY <2>1 DEF Stopped
  <2>4. CASE Stopped
    BY <2>1, <2>3, <2>4 DEF Search, Searching
  <2>5. CASE ~Stopped /\ Busy # {b}
    <3>1. UNCHANGED <<phase, remaining, exhausted, wavePrevious>>
      BY <1>10, <2>5 DEF BatchEnds
    <3>2. Searching' => Searching
      BY <1>1, <2>1, <2>3, <3>1 DEF Searching
    <3> QED
      BY <1>1, <2>1, <2>2, <3>1, <3>2 DEF Search
  <2>6. CASE ~Stopped /\ Busy = {b} /\ Searching
    <3>1. wavePrevious' = 0 /\ UpdateSearch /\ pending[b] = {}
      BY <1>10, <2>6 DEF BatchEnds
    <3>2. CASE exhausted
      <4>1. exhausted'
        BY <3>1, <3>2 DEF UpdateSearch
      <4> QED
        BY <1>1, <2>1, <2>2, <2>6, <3>2, <4>1 DEF Search
    <3>3. CASE ~exhausted
      <4> DEFINE P == Cardinality(PreviousEntries(prepared))
      <4>1. P \in Nat /\ wavePrevious \in Nat
        <5>1. PreviousEntries(prepared) \in SUBSET Entries
          BY DEF TypeOK, PreviousEntries
        <5> QED
          BY <5>1, EntrySets DEF TypeOK
      <4>2. remaining = P + wavePrevious
        BY <2>6, <3>3 DEF Search
      <4>3. /\ remaining' = IF wavePrevious < remaining THEN remaining - wavePrevious ELSE 0
            /\ exhausted' = (call.previous # {} /\ remaining' = 0)
        BY <2>6, <3>1, <3>3 DEF UpdateSearch, Searching
      <4> HIDE DEF P
      <4>4. remaining' = P
        BY <4>1, <4>2, <4>3
      <4>5. ASSUME P = 0 PROVE call.previous \cap Call!Untested = {}
        <5>1. \A c \in Slots : at[c] \in {"idle", "next"} /\ pending[c] = {}
          BY <2>1, <2>6, <3>1 DEF Busy, Shape
        <5>2. \A k \in Keys : rows[k] = "none" => \E e \in prepared : k \in Members(e)
          BY <2>1, <2>6, <5>1, WaveEmpty
        <5>3. prepared \in SUBSET Entries
          BY DEF TypeOK
        <5> QED
          BY <4>5, <5>2, <5>3, NoneLeft DEF P, Call!Untested
      <4>6. remaining' = Cardinality(PreviousEntries(prepared))' + wavePrevious'
        BY <2>2, <3>1, <4>1, <4>4 DEF P
      <4>7. exhausted' => (call.previous \cap Call!Untested)' = {}
        BY <1>1, <2>2, <4>3, <4>4, <4>5
      <4> QED
        BY <2>1, <4>6, <4>7 DEF Search
    <3> QED
      BY <3>2, <3>3
  <2>7. CASE ~Searching /\ ~Stopped
    <3>1. ~Searching'
      BY <1>1, <2>1, <2>3, <2>7 DEF Searching
    <3> QED
      BY <2>1, <3>1 DEF Search
  <2> QED
    BY <2>4, <2>5, <2>6, <2>7
<1> QED
  BY <1>5, <1>6, <1>7, <1>8, <1>9, <1>10 DEF Next, Engine
-----------------------------------------------------------------------------
(* Why a call may end.                                                       *)

Justified ==
    /\ reached => Call!TargetMet
    /\ phase \in {"rank", "done"} => Call!Untested = {} \/ external \/ Call!TargetMet

\* The stop condition of a finished probe means that the target is met.
LEMMA StopMeansTarget ==
    ASSUME TypeOK, TypeOK', Shape, Search, Kept, call' = call, NEW b \in Slots,
           ProbeFinishes(b), StopDue(rows')
    PROVE  Call!TargetMet'
<1> DEFINE U == UpRows(rows')
           P == UpRows(rows') \cap call.previous
<1>1. phase = "wave" /\ ~Stopped /\ call.mode = "active"
  BY DEF ProbeFinishes, Step, Shape
<1>2. /\ ~call.scanAll /\ call.topN # 0
      /\ Cardinality(U) + call.prefound >= call.topN
      /\ \/ ~call.stability
         \/ Cardinality(P) + call.prefoundPrevious
               >= Smaller(Call!Quorum(call), Cardinality(call.previous))
         \/ exhausted
  BY DEF StopDue, Bounded, Found, Call!Quorum
<1>3. Call!UpRows' = U /\ (Call!UpRows \cap call.previous)' = P
  BY DEF Call!UpRows, UpRows
<1>4. ASSUME call.stability, exhausted PROVE call.previous \cap Call!Untested' = {}
  <2>1. call.previous \cap Call!Untested = {}
    BY <1>1, <1>2, <1>4 DEF Search, Searching
  <2>2. Call!Untested' \subseteq Call!Untested
    BY DEF Kept, Call!Untested
  <2> QED
    BY <2>1, <2>2
<1>5. \/ ~call.stability
      \/ Cardinality(P) + call.prefoundPrevious >= Call!Quorum(call)
      \/ Cardinality(P) + call.prefoundPrevious >= Cardinality(call.previous)
      \/ call.previous \cap Call!Untested' = {}
  BY <1>2, <1>4, UpRowsType DEF Smaller
<1> HIDE DEF U, P
<1> QED
  BY <1>1, <1>2, <1>3, <1>5, SameCardinality DEF Call!TargetMet, Call!Quorum

\* Only a finished probe sets target_reached.
LEMMA ReachedStep ==
    ASSUME TypeOK, Shape, [Next]_vars, ~reached, reached'
    PROVE  \E b \in Slots : ProbeFinishes(b) /\ StopDue(rows')
<1>1. CASE Unavailable \/ Prepares \/ TcpStarts \/ TcpConnects \/ TcpFinishes
  BY <1>1 DEF Unavailable, Prepares, TcpStarts, TcpConnects, TcpFinishes, stopState
<1>2. CASE StartWave \/ WavesEnd \/ Ranks \/ Preempted \/ Finished \/ UNCHANGED vars
  BY <1>2 DEF StartWave, WavesEnd, Ranks, Preempted, Finished, vars, stopState
<1>3. ASSUME NEW b \in Slots, QueueBatch(b) PROVE FALSE
  BY <1>3 DEF QueueBatch, stopState
<1>4. ASSUME NEW b \in Slots, NextAttempt(b) \/ Starts(b) \/ StartFails(b) \/ EntryRejected(b)
      PROVE  FALSE
  BY <1>4 DEF NextAttempt, Starts, StartFails, EntryRejected, stopState
<1>5. ASSUME NEW b \in Slots, Splits(b) \/ ProbeDropped(b) \/ CleansUp(b) \/ BatchEnds(b)
      PROVE  FALSE
  BY <1>5 DEF Splits, ProbeDropped, CleansUp, BatchEnds, stopState
<1>6. ASSUME NEW b \in Slots, ProbeFinishes(b) PROVE StopDue(rows')
  <2>1. EvalStop(rows')
    BY <1>6 DEF ProbeFinishes
  <2> QED
    BY <2>1 DEF EvalStop, TypeOK
<1> QED
  BY <1>1, <1>2, <1>3, <1>4, <1>5, <1>6 DEF Next, Engine, Batch

LEMMA ReachedStays == TypeOK /\ [Next]_vars => (reached => reached')
<1> SUFFICES ASSUME TypeOK, [Next]_vars, reached PROVE reached'
  OBVIOUS
<1>1. CASE Unavailable \/ Prepares \/ TcpStarts \/ TcpConnects \/ TcpFinishes
  BY <1>1 DEF Unavailable, Prepares, TcpStarts, TcpConnects, TcpFinishes, stopState
<1>2. CASE StartWave \/ WavesEnd \/ Ranks \/ Preempted \/ Finished \/ UNCHANGED vars
  BY <1>2 DEF StartWave, WavesEnd, Ranks, Preempted, Finished, vars, stopState
<1>3. ASSUME NEW b \in Slots, QueueBatch(b) PROVE reached'
  BY <1>3 DEF QueueBatch, stopState
<1>4. ASSUME NEW b \in Slots, BatchEnds(b) PROVE reached'
  BY <1>4 DEF BatchEnds
<1>5. ASSUME NEW b \in Slots, Batch(b), ~BatchEnds(b) PROVE reached'
  BY <1>5, BatchFrame
<1> QED
  BY <1>1, <1>2, <1>3, <1>4, <1>5 DEF Next, Engine

\* How a step changes the phase and the preemption switch.
LEMMA PhaseStep ==
    ASSUME TypeOK, Shape, NothingLost, Justified, [Next]_vars
    PROVE  /\ external => external'
           /\ phase' \in {"rank", "done"} =>
                \/ phase \in {"rank", "done"}
                \/ Call!Untested' = {} \/ external \/ Call!TargetMet
<1>1. CASE Unavailable
  BY <1>1 DEF Unavailable, Call!Untested
<1>2. CASE TcpConnects
  BY <1>2 DEF TcpConnects
<1>3. CASE TcpFinishes
  BY <1>3 DEF TcpFinishes, Call!Untested
<1>4. CASE Prepares \/ TcpStarts \/ StartWave \/ Ranks \/ Preempted
  BY <1>4 DEF Prepares, TcpStarts, StartWave, Ranks, Preempted
<1>5. CASE Finished \/ UNCHANGED vars
  BY <1>5 DEF Finished, vars
<1>6. CASE WavesEnd
  <2>1. UNCHANGED <<rows, external>> /\ Busy = {} /\ (prepared = {} \/ Stopped) /\ phase = "queue"
    BY <1>6 DEF WavesEnd
  <2>2. CASE Stopped
    BY <2>1, <2>2 DEF Stopped, Justified
  <2>3. CASE ~Stopped
    <3>1. \A b \in Slots : at[b] \in {"idle", "next"} /\ pending[b] = {}
      BY <2>1 DEF Busy, Shape
    <3>2. \A k \in Keys : rows[k] = "none" => \E e \in prepared : k \in Members(e)
      BY <2>1, <2>3, <3>1, WaveEmpty
    <3>3. Call!Untested' = {}
      BY <2>1, <2>3, <3>2 DEF Call!Untested
    <3> QED
      BY <2>1, <3>3
  <2> QED
    BY <2>2, <2>3
<1>7. ASSUME NEW b \in Slots, QueueBatch(b) PROVE UNCHANGED <<phase, external>>
  BY <1>7 DEF QueueBatch
<1>8. ASSUME NEW b \in Slots, BatchEnds(b) PROVE phase' \in {"queue", "wave"} /\ external' = external
  BY <1>8 DEF BatchEnds, Step
<1>9. ASSUME NEW b \in Slots, Batch(b), ~BatchEnds(b) PROVE UNCHANGED <<phase, external>>
  BY <1>9, BatchFrame
<1> QED
  BY <1>1, <1>2, <1>3, <1>4, <1>5, <1>6, <1>7, <1>8, <1>9 DEF Next, Engine

CallInv ==
    /\ TypeOK /\ Shape /\ OnePlace /\ NothingLost
    /\ FoldedOK /\ Search /\ Justified

LEMMA CallInvInit == Init => CallInv
<1>1. Init => FoldedOK /\ Justified
  BY DEF Init, FoldedOK, Justified
<1> QED
  BY <1>1, TypeInit, ShapeInit, OnePlaceInit, LostInit, SearchInit DEF CallInv

LEMMA CallInvNext == CallInv /\ [Next]_vars => CallInv'
<1> SUFFICES ASSUME CallInv, [Next]_vars PROVE CallInv'
  OBVIOUS
<1>1. TypeOK /\ Shape /\ OnePlace /\ NothingLost /\ FoldedOK /\ Search /\ Justified
  BY DEF CallInv
<1>2. TypeOK' /\ Shape' /\ OnePlace' /\ NothingLost' /\ Search'
  BY <1>1, TypeNext, ShapeNext, OnePlaceNext, LostNext, SearchNext
<1>3. Kept /\ FoldedOK' /\ call' = call
  BY <1>1, RowsKept, CallKept
<1>4. Call!TargetMet => Call!TargetMet'
  BY <1>1, <1>2, <1>3, TargetStays
<1>5. Call!Untested' \subseteq Call!Untested
  BY <1>3 DEF Kept, Call!Untested
<1>6. reached' => Call!TargetMet'
  <2>1. CASE reached
    BY <1>1, <1>4, <2>1 DEF Justified
  <2>2. CASE ~reached /\ reached'
    <3>1. PICK b \in Slots : ProbeFinishes(b) /\ StopDue(rows')
      BY <1>1, <2>2, ReachedStep
    <3> QED
      BY <1>1, <1>2, <1>3, <3>1, StopMeansTarget
  <2> QED
    BY <2>1, <2>2
<1>7. phase' \in {"rank", "done"} => Call!Untested' = {} \/ external' \/ Call!TargetMet'
  <2>1. external => external'
    BY <1>1, PhaseStep
  <2>2. CASE phase \in {"rank", "done"}
    BY <1>1, <1>4, <1>5, <2>1, <2>2 DEF Justified
  <2>3. CASE phase \notin {"rank", "done"}
    BY <1>1, <1>4, <2>1, <2>3, PhaseStep
  <2> QED
    BY <2>2, <2>3
<1> QED
  BY <1>2, <1>3, <1>6, <1>7 DEF CallInv, Justified
-----------------------------------------------------------------------------
(* The refinement.                                                           *)

LEMMA RefinesInit == Init => Call!Init
BY DEF Init, Call!Init

\* A step that ends nothing and preempts nothing reports some verdicts.
LEMMA RefinesReport ==
    ASSUME CallInv, CallInv', [Next]_vars, phase # "done", phase' # "done", external' = external
    PROVE  Call!Report
<1>1. TypeOK /\ Shape /\ OnePlace /\ FoldedOK /\ TypeOK' /\ FoldedOK'
  BY DEF CallInv
<1>2. Kept /\ call' = call
  BY <1>1, RowsKept, CallKept
<1>3. rows' \in [Keys -> Call!Verdicts]
  BY <1>1 DEF TypeOK, Call!Verdicts
<1>4. \A k \in Keys \ Call!Untested : rows'[k] = rows[k]
  BY <1>2 DEF Kept, Call!Untested
<1>5. \A k \in Keys : rows'[k] = "folded" =>
        \E e \in Entries : k \in e.aliases /\ rows'[e.first] = "up"
  BY <1>1 DEF FoldedOK
<1>6. ((phase = "done") = FALSE) /\ ((phase = "done")' = (phase = "done"))
  OBVIOUS
<1> QED
  BY <1>2, <1>3, <1>4, <1>5, <1>6 DEF Call!Report

LEMMA RefinesNext == CallInv /\ CallInv' /\ [Next]_vars => [Call!Next]_(Call!callVars)
<1> SUFFICES ASSUME CallInv, CallInv', [Next]_vars PROVE [Call!Next]_(Call!callVars)
  OBVIOUS
<1>1. CASE Preempted
  <2>1. external' = TRUE /\ UNCHANGED <<call, rows, phase>>
    BY <1>1 DEF Preempted
  <2>2. Call!Preempt
    BY <2>1 DEF Call!Preempt
  <2> QED
    BY <2>2 DEF Call!Next
<1>2. CASE Ranks
  <2>1. phase = "rank" /\ phase' = "done" /\ UNCHANGED <<call, rows, external>>
    BY <1>2 DEF Ranks
  <2>2. Call!Untested = {} \/ external \/ Call!TargetMet
    BY <2>1 DEF CallInv, Justified
  <2>3. Call!End
    BY <2>1, <2>2 DEF Call!End
  <2> QED
    BY <2>3 DEF Call!Next
<1>3. CASE Finished \/ UNCHANGED vars
  BY <1>3 DEF Finished, vars, Call!callVars
<1>4. CASE Unavailable \/ Prepares \/ TcpStarts \/ TcpConnects \/ TcpFinishes
  <2>1. phase # "done" /\ phase' # "done" /\ external' = external
    BY <1>4 DEF Unavailable, Prepares, TcpStarts, TcpConnects, TcpFinishes
  <2> QED
    BY <2>1, RefinesReport DEF Call!Next
<1>5. CASE StartWave \/ WavesEnd
  <2>1. phase # "done" /\ phase' # "done" /\ external' = external
    BY <1>5 DEF StartWave, WavesEnd
  <2> QED
    BY <2>1, RefinesReport DEF Call!Next
<1>6. ASSUME NEW b \in Slots, QueueBatch(b) \/ BatchEnds(b)
      PROVE  [Call!Next]_(Call!callVars)
  <2>1. phase # "done" /\ phase' # "done" /\ external' = external
    BY <1>6 DEF QueueBatch, BatchEnds, Step
  <2> QED
    BY <2>1, RefinesReport DEF Call!Next
<1>7. ASSUME NEW b \in Slots, Batch(b), ~BatchEnds(b) PROVE [Call!Next]_(Call!callVars)
  <2>1. phase = "wave" /\ UNCHANGED <<phase, external>>
    BY <1>7, BatchFrame DEF CallInv
  <2> QED
    BY <2>1, RefinesReport DEF Call!Next
<1> QED
  BY <1>1, <1>2, <1>3, <1>4, <1>5, <1>6, <1>7 DEF Next, Engine

\* Every call keeps the promise of ProbeCall.
THEOREM PromiseKept == Spec => KeepsPromise
BY CallInvInit, CallInvNext, RefinesInit, RefinesNext, PTL DEF Spec, KeepsPromise, Call!Spec
=============================================================================
