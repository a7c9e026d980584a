------------------------------- MODULE Service -------------------------------
(***************************************************************************)
(* pkg/api Env: the pool, the TTL manager whose kill is pool.RemoveByID,   *)
(* and the jobs pipeline.Run drives through them, one per calling client   *)
(* at a time.  The pool and the manager are the modules Pool and Reaper;   *)
(* this module adds where each job is between Acquire and Release, and the *)
(* order Env.Close imposes.                                                *)
(*                                                                         *)
(* A job that owns a container goes through                                *)
(*   "none" -> Track -> "stage" -> "compile" -> "restage" -> "execute"     *)
(*   -> "cleanup" -> "untrack" -> "release" -> Pool's ReleaseCheck         *)
(* and any stage may fall through to "cleanup" (the deferred rm -rf).      *)
(***************************************************************************)
EXTENDS Integers, Sequences, FiniteSets

CONSTANTS
  Clients, Ids, None, MaxSize, MinWarm, MaxJobs, Faults,
  TTL,      \* Job.TTL in ticks, the in-container limit of one stage
  Grace,    \* Config.ReaperGrace in ticks
  Overrun,  \* ticks an exec may outlive TTL (sandbox.Run's execCtx: 10s)
  SlowCap   \* how many ticks outside the two execs are told apart

ASSUME ServiceAssumption ==
  /\ TTL \in Nat \ {0} /\ Grace \in Nat \ {0} /\ Overrun \in Nat /\ SlowCap \in Nat
  /\ None \notin Ids \cup Nat

VARIABLES
  boot, pc, ctr, idle, waitq, all, count, jobs, cpc, closing, rpc, rctr,
  used, live, leaked,                                \* Pool
  left, sweeper, due, expired, victim, cancelled,    \* Reaper
  job,   \* job[c]: the stage client c's job is in
  spent, \* spent[c]: ticks c's current compile or execute exec has run
  slow   \* slow[c]: ticks c's job has spent in calls without a limit: mkdir, the
         \* file copy and rm (history, up to SlowCap)

P == INSTANCE PoolProperties WITH Impatient <- {}, Reapable <- Ids
M == INSTANCE Reaper WITH TTLs <- {TTL + Grace}

\* NewEnv hands the pool its configuration.
ASSUME PoolAssumption == P!ConfigAssumption

poolVars == <<boot, pc, ctr, idle, waitq, all, count, jobs, cpc, closing, rpc, rctr,
              used, live, leaked>>
ttlVars == <<left, sweeper, due, expired, victim, cancelled>>
jobVars == <<job, spent, slow>>
vars == <<poolVars, ttlVars, jobVars>>

Staging == {"stage", "restage", "cleanup"}  \* mkdir and CopyIn, mkdir, rm
Running == {"compile", "execute"}
TrackedAt == Staging \cup Running \cup {"untrack"}

Init ==
  /\ P!Init /\ M!Init
  /\ job = [c \in Clients |-> "none"]
  /\ spent = [c \in Clients |-> 0] /\ slow = [c \in Clients |-> 0]

-----------------------------------------------------------------------------
(* Steps of the pool on their own.  The manager exists once New returned.  *)

PoolStep(c) ==
  /\ P!AcquireCheck(c) \/ P!Acquire(c) \/ P!Park(c) \/ P!Discard(c) \/ P!RemoveDiscarded(c)
  /\ UNCHANGED <<ttlVars, jobVars>>

NewStep == P!New /\ UNCHANGED <<ttlVars, jobVars>>

-----------------------------------------------------------------------------
(* pipeline.Run.                                                           *)

Enter(c, stage) ==
  /\ job' = [job EXCEPT ![c] = stage] /\ spent' = [spent EXCEPT ![c] = 0]
  /\ slow' = IF stage = "none" THEN [slow EXCEPT ![c] = 0] ELSE slow

Track_NoGrace(c) ==
  /\ pc[c] = "holding" /\ job[c] = "none"
  /\ M!Track(ctr[c], TTL) /\ Enter(c, "stage") /\ UNCHANGED poolVars

\* Run owns the container and registers the job's only deadline.
Track(c) ==
  /\ pc[c] = "holding" /\ job[c] = "none"
  /\ M!Track(ctr[c], TTL + Grace)
  /\ Enter(c, "stage")
  /\ UNCHANGED poolVars

\* mkdir and CopyIn succeed, or the container is gone or they fail.
Stage(c) ==
  /\ job[c] \in {"stage", "restage"}
  /\ \/ ctr[c] \in live /\ Enter(c, IF job[c] = "stage" THEN "compile" ELSE "execute")
     \/ Enter(c, "cleanup")
  /\ UNCHANGED <<poolVars, ttlVars>>

\* The compile exec ends: compiled, or not (or timed out, or an exec error).
Compile(c) ==
  /\ job[c] = "compile"
  /\ \/ ctr[c] \in live /\ Enter(c, "restage")
     \/ Enter(c, "cleanup")
  /\ UNCHANGED <<poolVars, ttlVars>>

Execute(c) ==
  /\ job[c] = "execute" /\ Enter(c, "cleanup")
  /\ UNCHANGED <<poolVars, ttlVars>>

\* The deferred calls of Run, in their order: rm, Untrack, Release.
Cleanup(c) ==
  /\ job[c] = "cleanup" /\ Enter(c, "untrack")
  /\ UNCHANGED <<poolVars, ttlVars>>

Untrack_Skipped(c) ==
  /\ job[c] = "untrack" /\ Enter(c, "release") /\ UNCHANGED <<poolVars, ttlVars>>

Untrack(c) ==
  /\ job[c] = "untrack"
  /\ M!Untrack(ctr[c])
  /\ Enter(c, "release")
  /\ UNCHANGED poolVars

Release(c) ==
  /\ job[c] = "release"
  /\ P!ReleaseCheck(c)
  /\ Enter(c, "none")
  /\ UNCHANGED ttlVars

-----------------------------------------------------------------------------
(* Time: an exec under a TTL does not outlive its limit; mkdir, the copy   *)
(* and rm have none.                                                       *)

CountTick ==
  /\ spent' = [c \in Clients |-> IF job[c] \in Running THEN spent[c] + 1 ELSE spent[c]]
  /\ slow' = [c \in Clients |->
       IF job[c] \in TrackedAt \ Running /\ slow[c] < SlowCap THEN slow[c] + 1 ELSE slow[c]]

Tick_NoLimit == M!Tick /\ CountTick /\ UNCHANGED <<poolVars, job>>

Tick ==
  /\ \A c \in Clients : job[c] \in Running => spent[c] < TTL + Overrun
  /\ M!Tick /\ CountTick
  /\ UNCHANGED <<poolVars, job>>

-----------------------------------------------------------------------------
(* The sweeper; its kill is RemoveByID, a no-op on a container the pool no *)
(* longer owns.                                                            *)

KillBegin_Unwired(id) ==
  M!KillBegin(id) /\ UNCHANGED <<poolVars, jobVars>>

KillBegin(id) ==
  /\ M!KillBegin(id)
  /\ P!RemoveByID(id) \/ (id \notin all /\ UNCHANGED poolVars)
  /\ UNCHANGED jobVars

KillStep == (P!ReapDiscard \/ P!ReapRemove) /\ UNCHANGED <<ttlVars, jobVars>>

KillEnd == rpc = "idle" /\ M!KillEnd /\ UNCHANGED <<poolVars, jobVars>>

SweepStep ==
  /\ boot = "ready"
  /\ M!SweepRead \/ M!SweepCollect \/ M!SweepEnd \/ M!Exit
  /\ UNCHANGED <<poolVars, jobVars>>

-----------------------------------------------------------------------------
(* Env.Close: cancel the manager, wait for it, close the pool.  NewEnv's   *)
(* own failure path closes the pool before there is a manager.             *)

CloseCancel ==
  /\ boot = "ready" /\ ~cancelled /\ M!Cancel
  /\ UNCHANGED <<poolVars, jobVars>>

ClosePool_NoWait ==
  /\ boot = "failed" \/ cancelled
  /\ P!CloseMark /\ UNCHANGED <<ttlVars, jobVars>>

ClosePool ==
  /\ boot = "failed" \/ M!WaitReturns
  /\ P!CloseMark /\ UNCHANGED <<ttlVars, jobVars>>

CloseStep ==
  /\ P!CloseSignal \/ \E id \in Ids : P!CloseRemove(id)
  /\ UNCHANGED <<ttlVars, jobVars>>

-----------------------------------------------------------------------------
RunStep(c) ==
  Track(c) \/ Stage(c) \/ Compile(c) \/ Execute(c) \/ Cleanup(c) \/ Untrack(c) \/ Release(c)

Next ==
  \/ NewStep \/ Tick \/ KillStep \/ KillEnd \/ SweepStep
  \/ \E c \in Clients : PoolStep(c) \/ RunStep(c)
  \/ \E id \in Ids : KillBegin(id)
  \/ CloseCancel \/ ClosePool \/ CloseStep

Spec == Init /\ [][Next]_vars

\* As in Pool.  Time passes, the ticker keeps firing and a kill returns; a Go
\* select is fair between ready cases, so a cancelled sweeper that is idle over
\* and over exits.  Of the job's own steps, those on a live container may take
\* for ever (an mkdir, copy or rm that hangs) unless a limit applies, and a call
\* on a container that is gone returns.
Ends(c) ==
  \/ (job[c] \notin Staging \/ ctr[c] \notin live) /\ RunStep(c)
  \/ PoolStep(c)

Fairness ==
  /\ WF_vars(NewStep) /\ WF_vars(Tick) /\ WF_vars(KillStep) /\ WF_vars(KillEnd)
  /\ WF_vars(SweepStep \/ \E id \in Ids : KillBegin(id))
  /\ SF_vars(SweepStep /\ M!Exit)
  /\ \A c \in Clients : WF_vars(Ends(c) /\ pc[c] # "out")
  /\ WF_vars(ClosePool) /\ WF_vars(CloseStep)

FairSpec == Spec /\ Fairness
-----------------------------------------------------------------------------
\* Types of the reaper's and the job's variables; no exec outlives its limit.
TypeOK ==
  /\ M!TypeOK
  /\ job \in [Clients -> {"none", "stage", "compile", "restage", "execute",
                          "cleanup", "untrack", "release"}]
  /\ spent \in [Clients -> 0..(TTL + Overrun)] /\ slow \in [Clients -> 0..SlowCap]

\* Reaper's: a sweep collects only ids that are tracked and past their deadline
\* at that moment, although it read the clock before it took the lock.
CollectsOverdueOnly == M!CollectsOverdueOnly

Victims == (expired \cup {victim}) \ {None}

\* A deadline exists only while the job it was set for owns the container:
\* "Untrack is deferred so it runs before Release" (pipeline.Run).
TrackedIsOwned ==
  \A id \in M!Tracked : \E c \in Clients : ctr[c] = id /\ job[c] \in TrackedAt

\* Env.Close waits for the manager "so an in-flight reap can't run against an
\* already-closed pool" (env.go).
NoReapOnClosedPool == P!Closed => Victims = {} /\ rpc = "idle"

\* Ticks c's job may have spent under a limit by now: its current exec, and the
\* ones it may have behind it, each up to its limit and overrun.
Limited(c) ==
  spent[c] + (IF job[c] \in {"stage", "compile"} THEN 0
              ELSE IF job[c] \in {"restage", "execute"} THEN TTL + Overrun
              ELSE 2 * (TTL + Overrun))

\* Run's one deadline is TTL + Grace from Track on, whatever stage the job is in: a
\* job is collected only when that much time can be accounted for, under the limit
\* of an exec or in calls without one.  (It need not be hung: see ReapsOnlyHung.)
DeadlineIsSpent ==
  [][\A c \in Clients : \A id \in expired' \ expired :
       ctr[c] = id /\ job[c] \in TrackedAt =>
         slow[c] + Limited(c) >= TTL + Grace \/ slow[c] = SlowCap]_vars

\* A job whose mkdir, copy or rm hangs gets out of it: the reaper removes its
\* container.  (Env.Close stops the reaper first.)
HungJobEnds ==
  \A c \in Clients : []<>(job[c] \notin Staging \/ cancelled)

\* Env.Close returns: once it has cancelled the manager the sweeper exits, in the
\* middle of a reap too, and the pool removes what is left.  (cancelled stays TRUE.)
CloseReturns == []<>(cancelled => P!DoneClosed /\ closing = {})

-----------------------------------------------------------------------------
(* Statements of the source that the model refutes.                        *)

\* pool.go:139 "The reaper only ever targets still-checked-out containers, so
\* this cannot race with a normal re-park": it never removes a parked one.
ReapsOnlyCheckedOut ==
  [][rpc = "idle" /\ rpc' = "discard" => \A i \in DOMAIN idle : idle[i] # rctr']_vars

\* pipeline.go:71 "so the reaper only ever fires for a genuinely hung job": a job that
\* is collected has been held up in a call without a limit, or the exec it is in has
\* used its own TTL up.
ReapsOnlyHung ==
  [][\A c \in Clients : \A id \in expired' \ expired :
       ctr[c] = id /\ job[c] \in TrackedAt => slow[c] > 0 \/ spent[c] >= TTL]_vars
=============================================================================
