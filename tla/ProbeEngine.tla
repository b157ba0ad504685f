---------------------------- MODULE ProbeEngine -----------------------------
(***************************************************************************)
(* One call of probe_candidates (src/probe.rs).  Active mode drains the      *)
(* prepared test definitions in waves of concurrent batches, each a sing-box *)
(* process; all batches append to one shared list and evaluate one shared    *)
(* stop condition.  A batch whose process does not start is split, or loses  *)
(* the definition sing-box names, and is retried.  TCP mode connects to the  *)
(* candidates one by one and never stops early.                             *)
(*                                                                         *)
(* A list of definitions is abstracted to a set.  Only what the order        *)
(* decides is kept: configs of the previous run's saved list come first.     *)
(* The steps of the batches interleave at their awaits.                     *)
(***************************************************************************)
EXTENDS Integers, FiniteSets

CONSTANTS
    Keys,        \* the candidates of the call, by dedup key
    Gone,        \* saved keys of the previous run that are no candidates now
    Entries,     \* the test definitions: [first |-> key, aliases |-> keys]
    Calls,       \* the arguments the call may have (a set of CallRecords)
    Slots,       \* the concurrent batches of a wave (process_concurrency)
    MinSize,     \* ACTIVE_PROBE_BATCH_MIN_SIZE
    MaxSize,     \* ACTIVE_PROBE_BATCH_MAX_SIZE
    Multiplier   \* ACTIVE_PROBE_BATCH_CONCURRENCY_MULTIPLIER

\* batch_size of a configuration that leaves it to the program.
AutoSize == -1

CallRecords ==
    [mode : {"active", "missing", "tcp"},  \* ProbeMode, and whether sing-box runs
     scanAll : BOOLEAN, topN : Nat, stability : BOOLEAN, asap : BOOLEAN,
     previous : SUBSET (Keys \cup Gone), prefound : Nat, prefoundPrevious : Nat,
     concurrency : Nat, batchSize : Nat \cup {AutoSize}]

Members(e) == {e.first} \cup e.aliases
KeysOf(S) == UNION {Members(e) : e \in S}

ASSUME KeysFinite == IsFiniteSet(Keys) /\ IsFiniteSet(Gone) /\ Keys \cap Gone = {}
ASSUME EntriesPartition ==
    /\ Entries \subseteq [first : Keys, aliases : SUBSET Keys]
    /\ \A e \in Entries : e.first \notin e.aliases
    /\ \A d, e \in Entries : Members(d) \cap Members(e) # {} => d = e
ASSUME EntriesFinite == IsFiniteSet(Entries)
ASSUME CallsKnown == Calls \subseteq CallRecords
ASSUME SizesPositive ==
    /\ MinSize \in Nat /\ MaxSize \in Nat /\ Multiplier \in Nat
    /\ 0 < MinSize /\ MinSize <= MaxSize
ASSUME SlotsFinite == IsFiniteSet(Slots) /\ Slots # {}

VARIABLES
    call,      \* ProbeConfig and ProbeStopPolicy of the call
    phase,     \* where probe_candidates is
    prepared,  \* the definitions no wave has taken yet
    rows,      \* the verdict of each candidate: `ranked`
    half,      \* ProbeStopState.half_snapshot_sent
    remaining, \* ProbeStopState.remaining_previous_working
    exhausted, \* ProbeStopState.stability_search_exhausted
    announced, \* SharedProbeState.stop_announced
    reached,   \* ProbeStopSignal.target_reached
    external,  \* ProbeStopSignal.external: the caller's preemption switch
    sizer,     \* ActiveBatchSizer
    wavePrevious, \* wave_previous_working
    at,        \* where each batch of the wave is
    pending,   \* the attempts a batch still has to make
    current,   \* the definitions of the running attempt without a result
    stats      \* BatchProbeStats

stopState == <<half, remaining, exhausted, announced, reached>>
batches == <<at, pending, current, stats>>
vars == <<call, phase, prepared, rows, half, remaining, exhausted, announced, reached,
          external, sizer, wavePrevious, at, pending, current, stats>>
-----------------------------------------------------------------------------
Clamp(n, low, high) == IF n < low THEN low ELSE IF n > high THEN high ELSE n
Smaller(m, n) == IF m < n THEN m ELSE n
Larger(m, n) == IF m > n THEN m ELSE n

\* active_probe_batch_size
BatchSize(c) ==
    IF c.batchSize = AutoSize THEN Clamp(c.concurrency * Multiplier, MinSize, MaxSize)
    ELSE c.batchSize

\* ActiveBatchSizer::new
NewSizer(c) ==
    [current |-> Larger(Smaller(BatchSize(c), MaxSize), 1),
     min |-> Larger(Smaller(Clamp(c.concurrency, 1, MinSize), BatchSize(c)), 1)]

\* ActiveBatchSizer::observe
Observed(s, batch) ==
    [s EXCEPT !.current =
        IF batch.troubled THEN Larger(s.current \div 2, s.min)
        ELSE IF batch.clean /\ batch.produced >= s.current
             THEN Larger(Smaller(2 * s.current, MaxSize), s.min)
             ELSE s.current]

NoStats == [clean |-> FALSE, produced |-> 0, troubled |-> FALSE]

PreviousEntries(S) == {e \in S : Members(e) \cap call.previous # {}}
UpRows(list) == {k \in Keys : list[k] = "up"}

Stopped == external \/ reached

\* The stop policy can end the call early at all.
Bounded == ~call.scanAll /\ call.topN # 0
Found(list) == Cardinality(UpRows(list)) + call.prefound

\* The conditions of probe_stop_reason.
HalfDue(list) ==
    /\ Bounded /\ call.stability /\ ~call.asap
    /\ call.topN \div 2 > 0 /\ Found(list) >= call.topN \div 2
    /\ ~half /\ UpRows(list) # {}
StopDue(list) ==
    /\ Bounded
    /\ Found(list) >= call.topN
    /\ \/ ~call.stability
       \/ Cardinality(UpRows(list) \cap call.previous) + call.prefoundPrevious
             >= Smaller(call.topN - call.topN \div 2, Cardinality(call.previous))
       \/ exhausted

\* eval_shared_stop on the list after an append, and the broadcast.
EvalStop(list) ==
    /\ half' = (half \/ (~announced /\ HalfDue(list)))
    /\ announced' = (announced \/ StopDue(list))
    /\ reached' = (reached \/ (~announced /\ StopDue(list)))
    /\ UNCHANGED <<remaining, exhausted>>

\* failed_configs: every candidate of the definitions fails.
Fail(S) == rows' = [k \in Keys |-> IF k \in KeysOf(S) THEN "down" ELSE rows[k]]

\* ranked_configs_for_active_result of a working definition: only its first
\* candidate gets a row, the aliases are folded into it.
Succeed(e) ==
    rows' = [k \in Keys |-> IF k = e.first THEN "up"
                            ELSE IF k \in e.aliases THEN "folded" ELSE rows[k]]
-----------------------------------------------------------------------------
Init ==
    /\ call \in Calls
    /\ phase = "check"
    /\ prepared = {} /\ rows = [k \in Keys |-> "none"]
    /\ half = FALSE /\ remaining = 0 /\ exhausted = FALSE
    /\ announced = FALSE /\ reached = FALSE /\ external = FALSE
    /\ sizer = NewSizer(call)
    /\ wavePrevious = 0
    /\ at = [b \in Slots |-> "idle"]
    /\ pending = [b \in Slots |-> {}] /\ current = [b \in Slots |-> {}]
    /\ stats = [b \in Slots |-> NoStats]

\* sing-box does not run: every candidate fails.
Unavailable ==
    /\ phase = "check" /\ call.mode = "missing"
    /\ rows' = [k \in Keys |-> "down"]
    /\ phase' = "rank"
    /\ UNCHANGED <<call, prepared, stopState, external, sizer, wavePrevious, batches>>

\* prepare_active_candidates: candidates no definition can be built for fail.
Prepares ==
    /\ phase = "check" /\ call.mode = "active"
    /\ rows' = [k \in Keys |-> IF k \in KeysOf(Entries) THEN "none" ELSE "down"]
    /\ prepared' = Entries
    /\ remaining' = IF ~call.scanAll /\ call.stability
                    THEN Cardinality(PreviousEntries(Entries)) ELSE 0
    /\ exhausted' = (call.previous # {} /\ remaining' = 0)
    /\ phase' = "queue"
    /\ UNCHANGED <<call, half, announced, reached, external, sizer, wavePrevious, batches>>

TcpStarts ==
    /\ phase = "check" /\ call.mode = "tcp"
    /\ phase' = "tcp"
    /\ UNCHANGED <<call, prepared, rows, stopState, external, sizer, wavePrevious, batches>>

\* A connect finishes; after a preemption its result is dropped.
TcpConnects ==
    /\ phase = "tcp"
    /\ \E k \in Keys : rows[k] = "none" /\
         IF external THEN phase' = "rank" /\ UNCHANGED rows
         ELSE /\ \E verdict \in {"up", "down"} : rows' = [rows EXCEPT ![k] = verdict]
              /\ UNCHANGED phase
    /\ UNCHANGED <<call, prepared, stopState, external, sizer, wavePrevious, batches>>

TcpFinishes ==
    /\ phase = "tcp"
    /\ \A k \in Keys : rows[k] # "none"
    /\ phase' = "rank"
    /\ UNCHANGED <<call, prepared, rows, stopState, external, sizer, wavePrevious, batches>>

\* The refresh loop sets ping_cancel.
Preempted ==
    /\ phase # "done" /\ ~external
    /\ external' = TRUE
    /\ UNCHANGED <<call, phase, prepared, rows, stopState, sizer, wavePrevious, batches>>
-----------------------------------------------------------------------------
(* The wave loop of probe_active_batched.                                    *)

Busy == {b \in Slots : at[b] # "idle"}

\* schedule_active_candidates: a drained batch takes the previously working
\* definitions before any other.
Schedulable(S) ==
    call.stability => PreviousEntries(prepared) \subseteq S \/ S \subseteq PreviousEntries(prepared)

\* queue_probe_wave, one batch.
QueueBatch(b) ==
    /\ phase = "queue" /\ at[b] = "idle"
    /\ prepared # {} /\ ~Stopped
    /\ \E S \in SUBSET prepared :
         /\ Cardinality(S) = Smaller(Cardinality(prepared), sizer.current)
         /\ Schedulable(S)
         /\ prepared' = prepared \ S
         /\ pending' = [pending EXCEPT ![b] = {S}]
         /\ wavePrevious' = wavePrevious + Cardinality(PreviousEntries(S))
    /\ at' = [at EXCEPT ![b] = "next"]
    /\ stats' = [stats EXCEPT ![b] = NoStats]
    /\ UNCHANGED <<call, phase, rows, stopState, external, sizer, current>>

StartWave ==
    /\ phase = "queue" /\ Busy # {}
    /\ prepared = {} \/ Stopped \/ Busy = Slots
    /\ phase' = "wave"
    /\ UNCHANGED <<call, prepared, rows, stopState, external, sizer, wavePrevious, batches>>

\* The loop condition fails; finish_batched_probe measures the best results.
WavesEnd ==
    /\ phase = "queue" /\ Busy = {}
    /\ prepared = {} \/ Stopped
    /\ phase' = "rank"
    /\ UNCHANGED <<call, prepared, rows, stopState, external, sizer, wavePrevious, batches>>

\* rank_configs, and the call returns.
Ranks ==
    /\ phase = "rank"
    /\ phase' = "done"
    /\ UNCHANGED <<call, prepared, rows, stopState, external, sizer, wavePrevious, batches>>

\* update_stability_search_after_batch
UpdateSearch ==
    IF call.scanAll \/ ~call.stability \/ exhausted
    THEN UNCHANGED <<remaining, exhausted>>
    ELSE /\ remaining' = IF wavePrevious < remaining THEN remaining - wavePrevious ELSE 0
         /\ exhausted' = (call.previous # {} /\ remaining' = 0)
-----------------------------------------------------------------------------
(* One batch of a wave: probe_active_batch_with_fallback.                    *)

Step(b, place) == phase = "wave" /\ at[b] = place
Goto(b, place) == at' = [at EXCEPT ![b] = place]
Note(b, field, value) == stats' = [stats EXCEPT ![b][field] = value]

\* Pops the next attempt and starts its sing-box process.
NextAttempt(b) ==
    /\ Step(b, "next") /\ ~Stopped
    /\ \E S \in pending[b] :
         /\ pending' = [pending EXCEPT ![b] = @ \ {S}]
         /\ current' = [current EXCEPT ![b] = S]
    /\ Goto(b, "starting")
    /\ UNCHANGED <<call, phase, prepared, rows, stopState, external, sizer, wavePrevious, stats>>

\* Mutant: No check after the startup wait.
StartsUnchecked(b) ==
    /\ Step(b, "starting")
    /\ Goto(b, "probing")
    /\ UNCHANGED <<call, phase, prepared, rows, stopState, external, sizer, wavePrevious,
                   pending, current, stats>>

\* The local proxies answer; a stop in the meantime ends the attempt.
Starts(b) ==
    /\ Step(b, "starting")
    /\ Goto(b, IF Stopped THEN "cleanup" ELSE "probing")
    /\ UNCHANGED <<call, phase, prepared, rows, stopState, external, sizer, wavePrevious,
                   pending, current, stats>>

\* BatchProbeFailure::unrecoverable, or retryable with nothing left to split.
StartFails(b) ==
    /\ Step(b, "starting")
    /\ Fail(current[b])
    /\ current' = [current EXCEPT ![b] = {}]
    /\ Goto(b, "next") /\ Note(b, "troubled", TRUE)
    /\ UNCHANGED <<call, phase, prepared, stopState, external, sizer, wavePrevious, pending>>

\* Mutant: The definitions sing-box did not name are not retried.
EntryRejectedWithRest(b) ==
    /\ Step(b, "starting")
    /\ \E e \in current[b] : Fail({e})
    /\ current' = [current EXCEPT ![b] = {}]
    /\ Goto(b, "next") /\ Note(b, "troubled", TRUE)
    /\ UNCHANGED <<call, phase, prepared, stopState, external, sizer, wavePrevious, pending>>

\* BatchProbeFailure::invalid_entry: sing-box names one definition.
EntryRejected(b) ==
    /\ Step(b, "starting")
    /\ \E e \in current[b] :
         /\ Fail({e})
         /\ pending' = [pending EXCEPT ![b] = @ \cup ({current[b] \ {e}} \ {{}})]
    /\ current' = [current EXCEPT ![b] = {}]
    /\ Goto(b, "next") /\ Note(b, "troubled", TRUE)
    /\ UNCHANGED <<call, phase, prepared, stopState, external, sizer, wavePrevious>>

\* Mutant: A single definition is split for ever.
SplitsSingles(b) ==
    /\ Step(b, "starting") /\ Cardinality(current[b]) >= 1
    /\ \E left \in SUBSET current[b] :
         /\ Cardinality(left) = Cardinality(current[b]) \div 2
         /\ pending' = [pending EXCEPT ![b] = @ \cup {left, current[b] \ left}]
    /\ current' = [current EXCEPT ![b] = {}]
    /\ Goto(b, "next") /\ Note(b, "troubled", TRUE)
    /\ UNCHANGED <<call, phase, prepared, rows, stopState, external, sizer, wavePrevious>>

\* BatchProbeFailure::retryable: both halves are tried again.
Splits(b) ==
    /\ Step(b, "starting") /\ Cardinality(current[b]) > 1
    /\ \E left \in SUBSET current[b] :
         /\ Cardinality(left) = Cardinality(current[b]) \div 2
         /\ pending' = [pending EXCEPT ![b] = @ \cup {left, current[b] \ left}]
    /\ current' = [current EXCEPT ![b] = {}]
    /\ Goto(b, "next") /\ Note(b, "troubled", TRUE)
    /\ UNCHANGED <<call, phase, prepared, rows, stopState, external, sizer, wavePrevious>>

\* Mutant: One stop flag, as it once was: reaching the target looks like a preemption.
ProbeFinishesPreempting(b) ==
    /\ Step(b, "probing") /\ ~Stopped
    /\ \E e \in current[b] :
         /\ \/ Succeed(e) /\ Note(b, "produced", stats[b].produced + 1)
            \/ Fail({e}) /\ Note(b, "produced", stats[b].produced + Cardinality(Members(e)))
         /\ EvalStop(rows')
         /\ current' = [current EXCEPT ![b] = @ \ {e}]
         /\ Goto(b, IF reached' \/ current[b] = {e} THEN "cleanup" ELSE "probing")
    /\ external' = reached'
    /\ UNCHANGED <<call, phase, prepared, sizer, wavePrevious, pending>>

\* A probe finishes: its result is appended and the stop condition evaluated.
ProbeFinishes(b) ==
    /\ Step(b, "probing") /\ ~Stopped
    /\ \E e \in current[b] :
         /\ \/ Succeed(e) /\ Note(b, "produced", stats[b].produced + 1)
            \/ Fail({e}) /\ Note(b, "produced", stats[b].produced + Cardinality(Members(e)))
         /\ EvalStop(rows')
         /\ current' = [current EXCEPT ![b] = @ \ {e}]
         /\ Goto(b, IF reached' \/ current[b] = {e} THEN "cleanup" ELSE "probing")
    /\ UNCHANGED <<call, phase, prepared, external, sizer, wavePrevious, pending>>

\* A probe finishes after a stop: its result is dropped and the batch quits.
ProbeDropped(b) ==
    /\ Step(b, "probing") /\ Stopped
    /\ Goto(b, "cleanup")
    /\ UNCHANGED <<call, phase, prepared, rows, stopState, external, sizer, wavePrevious,
                   pending, current, stats>>

\* cleanup_sing_box_child, and the attempt returns Ok.
CleansUp(b) ==
    /\ Step(b, "cleanup")
    /\ current' = [current EXCEPT ![b] = {}]
    /\ Goto(b, "next") /\ Note(b, "clean", TRUE)
    /\ UNCHANGED <<call, phase, prepared, rows, stopState, external, sizer, wavePrevious, pending>>

\* The batch is over and the wave loop observes its outcome.  After a stop, or
\* when it was the last, the wave ends: the other batches are dropped.
BatchEnds(b) ==
    /\ Step(b, "next")
    /\ pending[b] = {} \/ Stopped
    /\ sizer' = Observed(sizer, stats[b])
    /\ IF Stopped \/ Busy = {b}
       THEN /\ phase' = "queue"
            /\ at' = [s \in Slots |-> "idle"]
            /\ pending' = [s \in Slots |-> {}]
            /\ current' = [s \in Slots |-> {}]
            /\ UpdateSearch
            /\ wavePrevious' = 0
       ELSE /\ Goto(b, "idle")
            /\ UNCHANGED <<phase, pending, current, remaining, exhausted, wavePrevious>>
    /\ stats' = [stats EXCEPT ![b] = NoStats]
    /\ UNCHANGED <<call, prepared, rows, half, announced, reached, external>>
-----------------------------------------------------------------------------
Batch(b) ==
    \/ NextAttempt(b) \/ Starts(b) \/ StartFails(b) \/ EntryRejected(b) \/ Splits(b)
    \/ ProbeFinishes(b) \/ ProbeDropped(b) \/ CleansUp(b) \/ BatchEnds(b)
Engine ==
    \/ Unavailable \/ Prepares \/ TcpStarts \/ TcpConnects \/ TcpFinishes
    \/ StartWave \/ WavesEnd \/ Ranks
    \/ \E b \in Slots : QueueBatch(b)
Finished == phase = "done" /\ UNCHANGED vars

Next == Engine \/ (\E b \in Slots : Batch(b)) \/ Preempted \/ Finished

\* Every await of the call ends: connects, starts and probes have timeouts.
Fairness == WF_vars(Engine) /\ \A b \in Slots : WF_vars(Batch(b))

Spec == Init /\ [][Next]_vars
FairSpec == Spec /\ Fairness
-----------------------------------------------------------------------------
Places == {"idle", "next", "starting", "probing", "cleanup"}
Phases == {"check", "tcp", "queue", "wave", "rank", "done"}

\* The variables stay in their types, and the batch size within its limits:
\* it is never below the floor or 1 nor above ACTIVE_PROBE_BATCH_MAX_SIZE.
TypeOK ==
    /\ call \in Calls /\ phase \in Phases
    /\ prepared \subseteq Entries
    /\ rows \in [Keys -> {"none", "up", "down", "folded"}]
    /\ {half, exhausted, announced, reached, external} \subseteq BOOLEAN
    /\ remaining \in Nat /\ wavePrevious \in Nat
    /\ sizer \in [current : Nat, min : Nat]
    /\ 1 <= sizer.min /\ sizer.min <= sizer.current /\ sizer.current <= MaxSize
    /\ at \in [Slots -> Places]
    /\ pending \in [Slots -> SUBSET SUBSET Entries]
    /\ current \in [Slots -> SUBSET Entries]
    /\ stats \in [Slots -> [clean : BOOLEAN, produced : Nat, troubled : BOOLEAN]]

\* What a batch still has to test.
Holds(b) == (UNION pending[b]) \cup current[b]

\* Every definition is in one place: a queued one is in no batch, no two
\* batches or attempts of a batch share one, and none has its result yet.
OnePlace ==
    /\ \A b \in Slots :
         /\ prepared \cap Holds(b) = {}
         /\ \A S \in pending[b] : S \cap current[b] = {}
         /\ \A S, T \in pending[b] : S = T \/ S \cap T = {}
         /\ \A c \in Slots : b = c \/ Holds(b) \cap Holds(c) = {}
    /\ \A e \in prepared \cup UNION {Holds(b) : b \in Slots} :
         \A k \in Members(e) : rows[k] = "none"

\* As long as nothing stopped the call no definition is lost: splitting and
\* retrying batches keeps each candidate without a verdict in the queue or in a
\* batch (probe_active_batch_with_fallback, src/probe.rs:1322-1433).
NothingLost ==
    phase \in {"queue", "wave"} /\ ~Stopped =>
        \A k \in Keys : rows[k] = "none" =>
            \E e \in prepared \cup UNION {Holds(b) : b \in Slots} : k \in Members(e)

Accounted == OnePlace /\ NothingLost

\* After a stop the call winds down: no batch is queued, no sing-box process
\* begins to probe, and no config is found working any more
\* ("all batches quit within ~one probe of the target", src/probe.rs:1596).
QuitsAfterStop ==
    [][Stopped =>
        /\ prepared # {} => prepared' = prepared
        /\ \A b \in Slots : at'[b] = "probing" => at[b] = "probing"
        /\ UpRows(rows') = UpRows(rows)]_vars

\* A wave whose batches all had trouble never makes the next batches larger,
\* whatever batch size is configured (ActiveBatchSizer, src/probe.rs:509-541).
TroubleNeverGrows ==
    [][(\A b \in Busy : stats[b].troubled) => sizer'.current <= sizer.current]_vars

\* The call keeps the promise its callers rely on: each candidate gets at most
\* one verdict, the preemption switch is the caller's alone, and the call ends
\* only when all is tested, on a preemption, or with the target really met.
Call == INSTANCE ProbeCall WITH cancel <- external, ended <- phase = "done"
KeepsPromise == Call!Spec

\* Every call returns: splitting and retrying end, and no batch waits forever.
Returns == <>(phase = "done")
=============================================================================
