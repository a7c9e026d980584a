------------------------------- MODULE Reaper -------------------------------
(***************************************************************************)
(* internal/ttl: the Manager that records a deadline per container id and  *)
(* the goroutine that sweeps it (manager.go).  Time advances in ticks; a   *)
(* deadline is kept as the ticks left to it, 0 once it has passed, so time *)
(* needs no bound.                                                         *)
(***************************************************************************)
EXTENDS Integers

CONSTANTS
  Ids,
  None, \* no id and no number
  TTLs  \* the durations Track may be called with, positive

VARIABLES
  left,     \* m.deadlines: ticks left for a tracked id, None for another one
  sweeper,  \* the goroutine: "idle" (in its select), "read", "kill", "exited"
  due,      \* the ids whose deadline had passed when the sweep read the clock
  expired,  \* ids the sweep has collected and not yet killed
  victim,   \* the id whose kill is running, or None
  cancelled \* the context passed to Start

vars == <<left, sweeper, due, expired, victim, cancelled>>

Tracked == {id \in Ids : left[id] # None}

Init ==
  /\ left = [id \in Ids |-> None]
  /\ sweeper = "idle" /\ due = {} /\ expired = {} /\ victim = None
  /\ cancelled = FALSE

\* A new deadline is later than the instant a sweep in progress has read.
Track(id, ttl) ==
  /\ left' = [left EXCEPT ![id] = ttl]
  /\ due' = due \ {id}
  /\ UNCHANGED <<sweeper, expired, victim, cancelled>>

Untrack(id) ==
  /\ left' = [left EXCEPT ![id] = None]
  /\ UNCHANGED <<sweeper, due, expired, victim, cancelled>>

Tick ==
  /\ left' = [id \in Ids |-> IF left[id] \in Nat \ {0} THEN left[id] - 1 ELSE left[id]]
  /\ UNCHANGED <<sweeper, due, expired, victim, cancelled>>

SweepRead_All ==
  /\ sweeper = "idle" /\ sweeper' = "read" /\ due' = Tracked
  /\ UNCHANGED <<left, expired, victim, cancelled>>

\* The ticker fires and sweepOnce reads the clock.  A pending tick may still be
\* chosen by the select after the context has been cancelled.
SweepRead ==
  /\ sweeper = "idle"
  /\ sweeper' = "read"
  /\ due' = {id \in Ids : left[id] = 0}
  /\ UNCHANGED <<left, expired, victim, cancelled>>

\* sweepOnce's critical section: what was due is collected and untracked.
SweepCollect ==
  /\ sweeper = "read" /\ sweeper' = "kill"
  /\ expired' = due \cap Tracked /\ due' = {}
  /\ left' = [id \in Ids |-> IF id \in expired' THEN None ELSE left[id]]
  /\ UNCHANGED <<victim, cancelled>>

\* The kills, one at a time, outside the lock.
KillBegin(id) ==
  /\ sweeper = "kill" /\ victim = None /\ id \in expired
  /\ victim' = id /\ expired' = expired \ {id}
  /\ UNCHANGED <<left, sweeper, due, cancelled>>

KillEnd ==
  /\ victim # None /\ victim' = None
  /\ UNCHANGED <<left, sweeper, due, expired, cancelled>>

SweepEnd ==
  /\ sweeper = "kill" /\ expired = {} /\ victim = None
  /\ sweeper' = "idle"
  /\ UNCHANGED <<left, due, expired, victim, cancelled>>

Cancel ==
  /\ cancelled' = TRUE
  /\ UNCHANGED <<left, sweeper, due, expired, victim>>

Exit_NoDone == UNCHANGED vars

Exit ==
  /\ cancelled /\ sweeper = "idle"
  /\ sweeper' = "exited"
  /\ UNCHANGED <<left, due, expired, victim, cancelled>>

WaitReturns == sweeper = "exited"  \* Wait is blocked until then

-----------------------------------------------------------------------------
Sweep == SweepRead \/ SweepCollect \/ (\E id \in Ids : KillBegin(id)) \/ KillEnd \/ SweepEnd

Next ==
  \/ \E id \in Ids : Untrack(id) \/ \E ttl \in TTLs : Track(id, ttl)
  \/ Tick \/ Sweep \/ Cancel \/ Exit

Spec == Init /\ [][Next]_vars
-----------------------------------------------------------------------------
\* Types of the variables; a deadline never has less than nothing left to it.
TypeOK ==
  /\ left \in [Ids -> Nat \cup {None}]
  /\ sweeper \in {"idle", "read", "kill", "exited"}
  /\ due \subseteq Ids /\ expired \subseteq Ids /\ victim \in Ids \cup {None}
  /\ cancelled \in BOOLEAN

\* A sweep collects only ids that are tracked and past their deadline at that
\* moment, although it read the clock earlier and Track and Untrack go on.
CollectsOverdueOnly == [][expired' \ expired \subseteq {id \in Ids : left[id] = 0}]_vars

=============================================================================
