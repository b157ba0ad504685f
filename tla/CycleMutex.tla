----------------------------- MODULE CycleMutex -----------------------------
(***************************************************************************)
(* What the cycle mutex of src/main.rs promises, without any of the work    *)
(* done under it: at most one of the two loops is inside a cycle, a refresh *)
(* waits for its turn, and a ping, which only ever tries, never overtakes a *)
(* waiting refresh.  CycleScheduler is shown to implement it.               *)
(***************************************************************************)
VARIABLES holder,   \* "refresh", "ping" or "free"
          waiting   \* a refresh waits for the mutex

abstractVars == <<holder, waiting>>

MutexInit == holder = "free" /\ waiting = FALSE

RefreshWaits == ~waiting /\ holder # "refresh" /\ waiting' = TRUE /\ UNCHANGED holder
RefreshEntersCycle == waiting /\ holder = "free" /\ holder' = "refresh" /\ waiting' = FALSE
PingEntersCycle == ~waiting /\ holder = "free" /\ holder' = "ping" /\ UNCHANGED waiting
CycleLeft == holder # "free" /\ holder' = "free" /\ UNCHANGED waiting

MutexNext == RefreshWaits \/ RefreshEntersCycle \/ PingEntersCycle \/ CycleLeft

MutexSpec == MutexInit /\ [][MutexNext]_abstractVars
MutexFairSpec ==
    MutexSpec /\ WF_abstractVars(RefreshEntersCycle) /\ WF_abstractVars(CycleLeft)
=============================================================================
