-------------------------------- MODULE Pool --------------------------------
(***************************************************************************)
(* internal/pool: the fixed-capacity pool of pre-warmed sandbox containers *)
(* (pool.go).  A step of this module is what a goroutine does between two  *)
(* points where another one can get in: one critical section of p.mu, one  *)
(* operation on the idle channel, or one call to the container backend.    *)
(*                                                                         *)
(* A container is identified with its runtime id.  The idle channel is a   *)
(* FIFO buffer of ids together with the queue of goroutines parked on it   *)
(* in Acquire's blocking select: a send to a Go channel with a parked      *)
(* receiver goes straight to the longest waiting one.                      *)
(*                                                                         *)
(* An operator X_Why stands for X with a plausible bug: no action uses it, *)
(* the properties are tried against it (see the mutants of PROJECT.json).  *)
(***************************************************************************)
EXTENDS Integers, Sequences, FiniteSets, SequencesExt

CONSTANTS
  Clients,    \* goroutines that call Acquire and Release
  Ids,        \* ids the backend can hand out; an id is never used twice
  None,       \* "no container"
  MaxSize, MinWarm, MaxJobs,  \* pool.Config (MaxJobs = 0: unlimited)
  Faults,     \* the backend calls that may return an error
  Impatient,  \* clients whose context can expire while they wait
  Reapable    \* ids RemoveByID may be called on ({}: no TTL reaper)

ASSUME ConfigAssumption ==
  /\ MaxSize \in Nat \ {0} /\ MinWarm \in 0..MaxSize /\ MaxJobs \in Nat
  /\ None \notin Ids
  /\ IsFiniteSet(Clients) /\ Impatient \subseteq Clients
  /\ Faults \subseteq {"create", "start", "remove"} /\ Reapable \subseteq Ids

VARIABLES
  boot,     \* New: "warming", then "ready" or "failed"
  pc,       \* pc[c]: where client c is inside Acquire or Release
  ctr,      \* ctr[c]: the container c is creating or owns
  idle,     \* buffer of the idle channel
  waitq,    \* clients parked in Acquire's blocking select, oldest first
  all,      \* p.all, as a set of ids
  count,    \* p.count
  jobs,     \* Container.jobs, saturating at MaxJobs (only >= MaxJobs is read)
  cpc,      \* Close: "open", "signal" (marked, done not closed), "removing"
  closing,  \* Close's snapshot of p.all that is still to be removed
  rpc, rctr,  \* RemoveByID: its position and the container it is removing
  used,     \* backend: every id ever created
  live,     \* backend: the containers that exist
  leaked    \* backend: existing containers whose Remove returned an error

chanVars == <<idle, waitq>>
poolVars == <<all, count>>
closeVars == <<cpc, closing>>
reapVars == <<rpc, rctr>>
backVars == <<used, live, leaked>>
vars == <<boot, pc, ctr, chanVars, poolVars, jobs, closeVars, reapVars, backVars>>

\* Positions at which a client has reserved a slot but registered no container.
ReservingAt == {"create", "start", "register", "undo", "unreserve"}
\* Positions at which a client owns a container that Acquire returned.
OwningAt == {"holding", "park", "discard"}
ClientPC == {"out", "fast", "reserve", "select", "wait", "remove"}
              \cup ReservingAt \cup OwningAt

Closed == cpc # "open"          \* p.closed
DoneClosed == cpc = "removing"  \* close(p.done) has happened

-----------------------------------------------------------------------------
(* The backend (dockercli.Client).                                         *)

Fresh == Ids \ used

\* Remove destroys the container or, when it fails, leaves it running; every
\* caller in the pool but Close drops the error.
BackendRemove(id) ==
  /\ UNCHANGED used
  /\ \/ live' = live \ {id} /\ leaked' = leaked \ {id}
     \/ /\ "remove" \in Faults
        /\ leaked' = leaked \cup ({id} \cap live)
        /\ UNCHANGED live

-----------------------------------------------------------------------------
(* New.  Nobody else has the pool yet, so each pre-warm iteration is one   *)
(* step.  A failing one closes the half-built pool (CloseMark below).      *)

Init ==
  /\ boot = "warming"
  /\ pc = [c \in Clients |-> "out"] /\ ctr = [c \in Clients |-> None]
  /\ idle = <<>> /\ waitq = <<>>
  /\ all = {} /\ count = 0 /\ jobs = [id \in Ids |-> 0]
  /\ cpc = "open" /\ closing = {} /\ rpc = "idle" /\ rctr = None
  /\ used = {} /\ live = {} /\ leaked = {}

Warm ==
  /\ boot = "warming" /\ Len(idle) < MinWarm
  /\ \E id \in Fresh :
       /\ used' = used \cup {id} /\ live' = live \cup {id}
       /\ all' = all \cup {id}
       /\ idle' = Append(idle, id)
  /\ count' = count + 1
  /\ UNCHANGED <<boot, pc, ctr, waitq, jobs, closeVars, reapVars, leaked>>

WarmFails ==
  /\ boot = "warming" /\ Len(idle) < MinWarm
  /\ boot' = "failed"
  /\ \/ ("create" \in Faults \/ Fresh = {}) /\ UNCHANGED backVars
     \/ /\ "start" \in Faults
        /\ \E id \in Fresh :
             /\ used' = used \cup {id}
             /\ \/ UNCHANGED <<live, leaked>>
                \/ /\ "remove" \in Faults
                   /\ live' = live \cup {id} /\ leaked' = leaked \cup {id}
  /\ UNCHANGED <<pc, ctr, chanVars, poolVars, jobs, closeVars, reapVars>>

NewReturns ==
  /\ boot = "warming" /\ Len(idle) >= MinWarm
  /\ boot' = "ready"
  /\ UNCHANGED <<pc, ctr, chanVars, poolVars, jobs, closeVars, reapVars, backVars>>

-----------------------------------------------------------------------------
(* Acquire.                                                                *)

Goto(c, p) == pc' = [pc EXCEPT ![c] = p]

AcquireCheck_NoCheck(c) ==
  /\ boot = "ready" /\ pc[c] = "out"
  /\ Goto(c, "fast")
  /\ UNCHANGED <<boot, ctr, chanVars, poolVars, jobs, closeVars, reapVars, backVars>>

\* The closed check; on a closed pool Acquire returns ErrClosed at once.
AcquireCheck(c) ==
  /\ boot = "ready" /\ pc[c] = "out" /\ ~Closed
  /\ Goto(c, "fast")
  /\ UNCHANGED <<boot, ctr, chanVars, poolVars, jobs, closeVars, reapVars, backVars>>

TakeIdle_Peek(c) ==
  /\ idle # <<>> /\ UNCHANGED idle
  /\ ctr' = [ctr EXCEPT ![c] = Head(idle)] /\ Goto(c, "holding")

\* A receive from the buffer: the container becomes c's.
TakeIdle(c) ==
  /\ idle # <<>>
  /\ ctr' = [ctr EXCEPT ![c] = Head(idle)]
  /\ idle' = Tail(idle)
  /\ Goto(c, "holding")

AcquireFast(c) ==
  /\ pc[c] = "fast"
  /\ \/ TakeIdle(c)
     \/ idle = <<>> /\ Goto(c, "reserve") /\ UNCHANGED <<ctr, idle>>
  /\ UNCHANGED <<boot, waitq, poolVars, jobs, closeVars, reapVars, backVars>>

AtCapacity_Late == count > MaxSize
AtCapacity == count >= MaxSize

\* grow's critical section: the slot is counted before the slow create.
Reserve(c) ==
  /\ pc[c] = "reserve"
  /\ \/ Closed /\ Goto(c, "out") /\ UNCHANGED count
     \/ ~Closed /\ AtCapacity /\ Goto(c, "select") /\ UNCHANGED count
     \/ ~Closed /\ ~AtCapacity /\ Goto(c, "create") /\ count' = count + 1
  /\ UNCHANGED <<boot, ctr, chanVars, all, jobs, closeVars, reapVars, backVars>>

Create(c) ==
  /\ pc[c] = "create"
  /\ \/ \E id \in Fresh :
          /\ used' = used \cup {id} /\ live' = live \cup {id}
          /\ ctr' = [ctr EXCEPT ![c] = id]
          /\ Goto(c, "start")
     \/ /\ "create" \in Faults \/ Fresh = {}
        /\ Goto(c, "unreserve")
        /\ UNCHANGED <<ctr, used, live>>
  /\ UNCHANGED <<boot, chanVars, poolVars, jobs, closeVars, reapVars, leaked>>

Start_NoUndo(c) ==
  /\ pc[c] = "start"
  /\ \/ Goto(c, "register") /\ UNCHANGED ctr
     \/ /\ "start" \in Faults
        /\ Goto(c, "unreserve") /\ ctr' = [ctr EXCEPT ![c] = None]
  /\ UNCHANGED <<boot, chanVars, poolVars, jobs, closeVars, reapVars, backVars>>

Start(c) ==
  /\ pc[c] = "start"
  /\ \/ Goto(c, "register")
     \/ "start" \in Faults /\ Goto(c, "undo")
  /\ UNCHANGED <<boot, ctr, chanVars, poolVars, jobs, closeVars, reapVars, backVars>>

\* The Remove after a failed Start.
Undo(c) ==
  /\ pc[c] = "undo"
  /\ BackendRemove(ctr[c])
  /\ Goto(c, "unreserve") /\ ctr' = [ctr EXCEPT ![c] = None]
  /\ UNCHANGED <<boot, chanVars, poolVars, jobs, closeVars, reapVars>>

Unreserve_KeepsSlot(c) ==
  /\ pc[c] = "unreserve" /\ Goto(c, "out")
  /\ UNCHANGED <<boot, ctr, chanVars, poolVars, jobs, closeVars, reapVars, backVars>>

\* grow's error path gives the slot back; nobody waiting is told.
Unreserve(c) ==
  /\ pc[c] = "unreserve"
  /\ count' = count - 1
  /\ Goto(c, "out")
  /\ UNCHANGED <<boot, ctr, chanVars, all, jobs, closeVars, reapVars, backVars>>

\* create's last critical section; Acquire then returns the container.
Register(c) ==
  /\ pc[c] = "register"
  /\ all' = all \cup {ctr[c]}
  /\ Goto(c, "holding")
  /\ UNCHANGED <<boot, ctr, chanVars, count, jobs, closeVars, reapVars, backVars>>

\* Entering the blocking select: any ready case may be chosen; with none ready
\* the goroutine is parked at the end of the channel's receive queue.
Select(c) ==
  /\ pc[c] = "select"
  /\ \/ TakeIdle(c) /\ UNCHANGED waitq
     \/ /\ DoneClosed \/ c \in Impatient
        /\ Goto(c, "out") /\ UNCHANGED <<ctr, chanVars>>
     \/ /\ idle = <<>> /\ ~DoneClosed
        /\ waitq' = Append(waitq, c)
        /\ Goto(c, "wait") /\ UNCHANGED <<ctr, idle>>
  /\ UNCHANGED <<boot, poolVars, jobs, closeVars, reapVars, backVars>>

\* ctx.Done() while parked.
WaitExpires(c) ==
  /\ pc[c] = "wait" /\ c \in Impatient
  /\ \E i \in DOMAIN waitq : waitq[i] = c /\ waitq' = RemoveAt(waitq, i)
  /\ Goto(c, "out")
  /\ UNCHANGED <<boot, ctr, idle, poolVars, jobs, closeVars, reapVars, backVars>>

-----------------------------------------------------------------------------
(* Release.                                                                *)

JobDone(id) == IF jobs[id] < MaxJobs THEN jobs[id] + 1 ELSE jobs[id]
LimitReached_Late(n) == MaxJobs > 0 /\ n > MaxJobs
LimitReached(n) == MaxJobs > 0 /\ n >= MaxJobs
MustDiscard_OpenOnly(id) == LimitReached(JobDone(id))
MustDiscard(id) == Closed \/ LimitReached(JobDone(id))

\* jobs++, then alive and closed are read in one critical section.
ReleaseCheck(c) ==
  /\ pc[c] = "holding"
  /\ jobs' = [jobs EXCEPT ![ctr[c]] = JobDone(ctr[c])]
  /\ \/ ctr[c] \notin all /\ Goto(c, "out") /\ ctr' = [ctr EXCEPT ![c] = None]
     \/ /\ ctr[c] \in all
        /\ Goto(c, IF MustDiscard(ctr[c]) THEN "discard" ELSE "park")
        /\ UNCHANGED ctr
  /\ UNCHANGED <<boot, chanVars, poolVars, closeVars, reapVars, backVars>>

HasRoom_Always == TRUE
HasRoom == Len(idle) < MaxSize

\* The send to the idle channel, on what ReleaseCheck read some time ago.
Park(c) ==
  /\ pc[c] = "park"
  /\ \/ /\ waitq # <<>>
        /\ pc' = [pc EXCEPT ![c] = "out", ![Head(waitq)] = "holding"]
        /\ ctr' = [ctr EXCEPT ![c] = None, ![Head(waitq)] = ctr[c]]
        /\ waitq' = Tail(waitq) /\ UNCHANGED idle
     \/ /\ waitq = <<>> /\ HasRoom
        /\ idle' = Append(idle, ctr[c])
        /\ Goto(c, "out") /\ ctr' = [ctr EXCEPT ![c] = None] /\ UNCHANGED waitq
     \/ /\ waitq = <<>> /\ ~HasRoom
        /\ Goto(c, "discard") /\ UNCHANGED <<ctr, chanVars>>
  /\ UNCHANGED <<boot, poolVars, jobs, closeVars, reapVars, backVars>>

FreeSlot_Unchecked(id) == all' = all \ {id} /\ count' = count - 1

FreeSlot_KeepsEntry(id) == count' = count - 1 /\ UNCHANGED all

\* discard's critical section: the slot is freed, once, before the removal.
FreeSlot(id) ==
  /\ all' = all \ {id}
  /\ count' = IF id \in all THEN count - 1 ELSE count

Discard(c) ==
  /\ pc[c] = "discard"
  /\ FreeSlot(ctr[c])
  /\ Goto(c, "remove")
  /\ UNCHANGED <<boot, ctr, chanVars, jobs, closeVars, reapVars, backVars>>

RemoveDiscarded(c) ==
  /\ pc[c] = "remove"
  /\ BackendRemove(ctr[c])
  /\ Goto(c, "out") /\ ctr' = [ctr EXCEPT ![c] = None]
  /\ UNCHANGED <<boot, chanVars, poolVars, jobs, closeVars, reapVars>>

-----------------------------------------------------------------------------
(* RemoveByID, called by the one TTL sweeper.                              *)

RemoveByID(id) ==
  /\ boot = "ready" /\ rpc = "idle"
  /\ id \in Reapable /\ id \in all
  /\ rpc' = "discard" /\ rctr' = id
  /\ UNCHANGED <<boot, pc, ctr, chanVars, poolVars, jobs, closeVars, backVars>>

ReapDiscard ==
  /\ rpc = "discard"
  /\ FreeSlot(rctr)
  /\ rpc' = "remove" /\ UNCHANGED rctr
  /\ UNCHANGED <<boot, pc, ctr, chanVars, jobs, closeVars, backVars>>

ReapRemove ==
  /\ rpc = "remove"
  /\ BackendRemove(rctr)
  /\ rpc' = "idle" /\ rctr' = None
  /\ UNCHANGED <<boot, pc, ctr, chanVars, poolVars, jobs, closeVars>>

-----------------------------------------------------------------------------
(* Close.  A second call finds the pool closed and returns.                *)

CloseMark ==
  /\ boot # "warming" /\ ~Closed
  /\ cpc' = "signal" /\ closing' = all
  /\ all' = {} /\ count' = 0
  /\ UNCHANGED <<boot, pc, ctr, chanVars, jobs, reapVars, backVars>>

CloseSignal_NoWake ==
  /\ cpc = "signal" /\ cpc' = "removing"
  /\ UNCHANGED <<boot, pc, ctr, chanVars, poolVars, jobs, closing, reapVars, backVars>>

\* close(p.done) wakes every parked client, whose Acquire returns ErrClosed.
CloseSignal ==
  /\ cpc = "signal" /\ cpc' = "removing"
  /\ pc' = [c \in Clients |-> IF pc[c] = "wait" THEN "out" ELSE pc[c]]
  /\ waitq' = <<>>
  /\ UNCHANGED <<boot, ctr, idle, poolVars, jobs, closing, reapVars, backVars>>

CloseRemove(id) ==
  /\ cpc = "removing" /\ id \in closing
  /\ closing' = closing \ {id}
  /\ BackendRemove(id)
  /\ UNCHANGED <<boot, pc, ctr, chanVars, poolVars, jobs, cpc, reapVars>>

-----------------------------------------------------------------------------
Acquire(c) ==
  \/ AcquireFast(c) \/ Reserve(c) \/ Create(c) \/ Start(c) \/ Undo(c)
  \/ Unreserve(c) \/ Register(c) \/ Select(c)
Release(c) == ReleaseCheck(c) \/ Park(c) \/ Discard(c) \/ RemoveDiscarded(c)
Reaper == (\E id \in Ids : RemoveByID(id)) \/ ReapDiscard \/ ReapRemove
Close == CloseMark \/ CloseSignal \/ \E id \in Ids : CloseRemove(id)
New == Warm \/ WarmFails \/ NewReturns

Next ==
  \/ New \/ Reaper \/ Close
  \/ \E c \in Clients : AcquireCheck(c) \/ Acquire(c) \/ WaitExpires(c) \/ Release(c)

Spec == Init /\ [][Next]_vars

\* Goroutines keep running: a call that has begun goes on, a job that holds a
\* container ends (pipeline.Run always releases it), a close that has begun and
\* a removal that has begun go on.  Nobody has to call Acquire, Close or
\* RemoveByID, and no context has to expire.
Fairness ==
  /\ WF_vars(New)
  /\ \A c \in Clients :
       /\ WF_vars(Acquire(c))
       /\ WF_vars(Release(c))
  /\ WF_vars(ReapDiscard \/ ReapRemove)
  /\ WF_vars(CloseSignal \/ \E id \in Ids : CloseRemove(id))
  /\ WF_vars(boot = "failed" /\ CloseMark)

FairSpec == Spec /\ Fairness
=============================================================================
