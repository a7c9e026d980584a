---------------------------- MODULE ServiceProofs ----------------------------
(* Proofs about the service for every number of clients and containers and *)
(* every configuration.                                                    *)
EXTENDS Service, SequenceLemmas, TLAPS

-----------------------------------------------------------------------------
\* The service starts with an empty pool and a manager that tracks nothing.
LEMMA PoolInit == Init => P!Init /\ M!Init
BY DEF Init

\* Every step of the service is a step of its pool, or leaves it alone.
LEMMA PoolSteps == [Next]_vars => [P!Next]_(P!vars)
<1> SUFFICES ASSUME [Next]_vars PROVE P!Next \/ UNCHANGED P!vars
  OBVIOUS
<1> USE DEF P!vars, P!chanVars, P!poolVars, P!closeVars, P!reapVars, P!backVars, poolVars
<1>1. UNCHANGED poolVars => UNCHANGED P!vars OBVIOUS
<1>2. CASE UNCHANGED vars BY <1>2, <1>1 DEF vars
<1>3. CASE NewStep BY <1>3 DEF NewStep, P!Next
<1>4. CASE Tick \/ KillEnd \/ SweepStep \/ CloseCancel
  BY <1>4, <1>1 DEF Tick, KillEnd, SweepStep, CloseCancel
<1>5. CASE KillStep BY <1>5 DEF KillStep, P!Next, P!Reaper
<1>6. ASSUME NEW c \in Clients, PoolStep(c) PROVE P!Next
  BY <1>6 DEF PoolStep, P!Next, P!Release
<1>7. ASSUME NEW c \in Clients, RunStep(c) PROVE P!Next \/ UNCHANGED P!vars
  <2>1. CASE Release(c) BY <2>1 DEF Release, P!Next, P!Release
  <2>2. CASE ~Release(c)
    BY <1>7, <2>2, <1>1 DEF RunStep, Track, Stage, Compile, Execute, Cleanup, Untrack
  <2> QED BY <2>1, <2>2
<1>8. ASSUME NEW id \in Ids, KillBegin(id) PROVE P!Next \/ UNCHANGED P!vars
  BY <1>8, <1>1 DEF KillBegin, P!Next, P!Reaper
<1>9. CASE ClosePool \/ CloseStep BY <1>9 DEF ClosePool, CloseStep, P!Next, P!Close
<1> QED BY <1>2, <1>3, <1>4, <1>5, <1>6, <1>7, <1>8, <1>9 DEF Next

-----------------------------------------------------------------------------
(* What a job needs of its pool: the part of PoolProofs' OwnerInv that says *)
(* who is parked and who has a container.  (A theorem of an instantiated    *)
(* module cannot be cited.)                                                 *)

Queues ==
  /\ pc \in [Clients -> P!ClientPC] /\ ctr \in [Clients -> Ids \cup {None}]
  /\ idle \in Seq(Ids) /\ waitq \in Seq(Clients)
  /\ \A c \in Clients : pc[c] \in {"start", "register"} \cup P!OwningAt => ctr[c] \in Ids
  /\ \A i \in DOMAIN waitq : pc[waitq[i]] = "wait"
  /\ IsInjective(waitq)

\* Nobody is parked when the pool starts.
LEMMA QueuesInit == P!Init => Queues
BY DEF P!Init, Queues, P!ClientPC, P!OwningAt, P!ReservingAt, IsInjective

\* A step of one client that is not parked, and that neither parks nor hands over.
LEMMA QueuesMove ==
  ASSUME Queues, NEW c \in Clients, NEW p \in P!ClientPC, pc[c] # "wait", P!Goto(c, p),
         ctr' \in [Clients -> Ids \cup {None}], \A d \in Clients \ {c} : ctr'[d] = ctr[d],
         p \in {"start", "register"} \cup P!OwningAt => ctr'[c] \in Ids,
         idle' \in Seq(Ids), waitq' = waitq
  PROVE  Queues'
<1>1. \A i \in DOMAIN waitq : waitq[i] \in Clients /\ waitq[i] # c BY DEF Queues
<1>2. \A d \in Clients : pc'[d] = IF d = c THEN p ELSE pc[d] BY DEF Queues, P!Goto
<1>3. pc' \in [Clients -> P!ClientPC] BY DEF Queues, P!Goto
<1>4. \A i \in DOMAIN waitq' : pc'[waitq'[i]] = "wait" BY <1>1, <1>2 DEF Queues
<1>5. \A d \in Clients : pc'[d] \in {"start", "register"} \cup P!OwningAt => ctr'[d] \in Ids
  BY <1>2 DEF Queues
<1> QED BY <1>3, <1>4, <1>5 DEF Queues

\* No step of the pool disturbs its queues.
LEMMA QueuesStep == Queues /\ [P!Next]_(P!vars) => Queues'
<1> SUFFICES ASSUME Queues, P!Next \/ UNCHANGED P!vars PROVE Queues'
  OBVIOUS
<1> USE DEF P!chanVars, P!poolVars, P!closeVars, P!reapVars, P!backVars
<1>1. ASSUME UNCHANGED <<pc, ctr, idle, waitq>> PROVE Queues' BY <1>1 DEF Queues
<1>2. CASE UNCHANGED P!vars BY <1>1, <1>2 DEF P!vars
<1>3. CASE P!New
  <2>1. CASE P!Warm
    <3>1. PICK id \in Ids : idle' = Append(idle, id) BY <2>1 DEF P!Warm, P!Fresh
    <3>2. idle' \in Seq(Ids) BY <3>1, AppendFacts DEF Queues
    <3>3. UNCHANGED <<pc, ctr, waitq>> BY <2>1 DEF P!Warm
    <3> QED BY <3>2, <3>3 DEF Queues
  <2> QED BY <1>1, <1>3, <2>1 DEF P!New, P!WarmFails, P!NewReturns
<1>4. CASE P!Reaper
  BY <1>1, <1>4 DEF P!Reaper, P!RemoveByID, P!ReapDiscard, P!ReapRemove
<1>5. CASE P!CloseMark \/ \E id \in Ids : P!CloseRemove(id)
  BY <1>1, <1>5 DEF P!CloseMark, P!CloseRemove
<1>6. CASE P!CloseSignal
  BY <1>6 DEF P!CloseSignal, Queues, IsInjective, P!ClientPC, P!OwningAt
<1>7. ASSUME NEW c \in Clients, P!AcquireCheck(c) \/ P!Acquire(c) \/ P!Release(c)
      PROVE  Queues'
  <2> USE DEF P!ClientPC, P!OwningAt, P!ReservingAt
  <2>0. ctr \in [Clients -> Ids \cup {None}] /\ idle \in Seq(Ids) BY DEF Queues
  <2>1. CASE P!AcquireCheck(c) BY <2>0, <2>1, QueuesMove DEF P!AcquireCheck
  <2>2. ASSUME P!TakeIdle(c), pc[c] # "wait", waitq' = waitq PROVE Queues'
    <3>1. Head(idle) \in Ids /\ idle' \in Seq(Ids) BY <2>0, <2>2, TailFacts DEF P!TakeIdle
    <3> QED BY <2>0, <2>2, <3>1, QueuesMove DEF P!TakeIdle
  <2>3. CASE P!AcquireFast(c)
    <3>1. CASE P!TakeIdle(c) BY <2>2, <2>3, <3>1 DEF P!AcquireFast
    <3>2. CASE ~P!TakeIdle(c) BY <2>0, <2>3, <3>2, QueuesMove DEF P!AcquireFast
    <3> QED BY <3>1, <3>2
  <2>4. CASE P!Reserve(c) BY <2>0, <2>4, QueuesMove DEF P!Reserve
  <2>5. CASE P!Create(c)
    <3>1. CASE \E id \in P!Fresh : ctr' = [ctr EXCEPT ![c] = id] /\ P!Goto(c, "start")
      BY <2>0, <2>5, <3>1, QueuesMove DEF P!Create, P!Fresh
    <3>2. CASE P!Goto(c, "unreserve") /\ ctr' = ctr
      BY <2>0, <2>5, <3>2, QueuesMove DEF P!Create
    <3> QED BY <2>5, <3>1, <3>2 DEF P!Create
  <2>6. CASE P!Start(c)
    <3>1. ctr[c] \in Ids BY <2>6 DEF P!Start, Queues
    <3> QED BY <2>0, <2>6, <3>1, QueuesMove DEF P!Start
  <2>7. CASE P!Undo(c) \/ P!Unreserve(c) \/ P!RemoveDiscarded(c)
    BY <2>0, <2>7, QueuesMove DEF P!Undo, P!Unreserve, P!RemoveDiscarded
  <2>8. CASE P!Register(c) \/ P!Discard(c)
    <3>1. ctr[c] \in Ids BY <2>8 DEF P!Register, P!Discard, Queues
    <3> QED BY <2>0, <2>8, <3>1, QueuesMove DEF P!Register, P!Discard
  <2>9. CASE P!Select(c)
    <3>1. CASE P!TakeIdle(c) /\ waitq' = waitq BY <2>2, <2>9, <3>1 DEF P!Select
    <3>2. CASE P!Goto(c, "out") /\ UNCHANGED <<ctr, idle, waitq>>
      BY <2>0, <2>9, <3>2, QueuesMove DEF P!Select
    <3>3. CASE waitq' = Append(waitq, c) /\ P!Goto(c, "wait") /\ UNCHANGED <<ctr, idle>>
      <4>1. c \notin ToSet(waitq) BY <2>9 DEF P!Select, Queues, ToSet
      <4>2. /\ waitq' \in Seq(Clients) /\ IsInjective(waitq')
            /\ ToSet(waitq') = ToSet(waitq) \cup {c}
        BY <3>3, <4>1, AppendFacts DEF Queues
      <4>3. \A d \in Clients : pc'[d] = IF d = c THEN "wait" ELSE pc[d]
        BY <3>3 DEF P!Goto, Queues
      <4>4. \A i \in DOMAIN waitq' : waitq'[i] \in ToSet(waitq) \cup {c}
        BY <4>2 DEF ToSet
      <4>5. \A d \in ToSet(waitq) : d \in Clients /\ pc[d] = "wait" BY DEF Queues, ToSet
      <4>6. \A i \in DOMAIN waitq' : pc'[waitq'[i]] = "wait" BY <4>3, <4>4, <4>5
      <4> QED BY <3>3, <4>2, <4>3, <4>6 DEF Queues, P!Goto
    <3> QED BY <2>9, <3>1, <3>2, <3>3 DEF P!Select
  <2>10. CASE P!ReleaseCheck(c)
    <3>1. ctr[c] \in Ids BY <2>10 DEF P!ReleaseCheck, Queues
    <3> QED BY <2>0, <2>10, <3>1, QueuesMove DEF P!ReleaseCheck
  <2>11. CASE P!Park(c)
    <3>0. ctr[c] \in Ids /\ pc[c] = "park" BY <2>11 DEF P!Park, Queues
    <3>1. CASE waitq # <<>>
      <4>1. /\ Tail(waitq) \in Seq(Clients) /\ Head(waitq) \in Clients
            /\ IsInjective(Tail(waitq)) /\ Head(waitq) \notin ToSet(Tail(waitq))
            /\ ToSet(waitq) = ToSet(Tail(waitq)) \cup {Head(waitq)}
        BY <3>1, TailFacts DEF Queues
      <4>2. \A d \in ToSet(waitq) : pc[d] = "wait" BY DEF Queues, ToSet
      <4>3. /\ pc' = [pc EXCEPT ![c] = "out", ![Head(waitq)] = "holding"]
            /\ ctr' = [ctr EXCEPT ![c] = None, ![Head(waitq)] = ctr[c]]
            /\ waitq' = Tail(waitq) /\ idle' = idle
        BY <2>11, <3>1 DEF P!Park
      <4>4. \A i \in DOMAIN waitq' : waitq'[i] \in ToSet(Tail(waitq)) BY <4>3 DEF ToSet
      <4>5. \A i \in DOMAIN waitq' : pc'[waitq'[i]] = "wait"
        BY <3>0, <4>1, <4>2, <4>3, <4>4 DEF Queues
      <4> QED BY <3>0, <4>1, <4>3, <4>5 DEF Queues
    <3>2. CASE waitq = <<>> /\ idle' = Append(idle, ctr[c]) /\ P!Goto(c, "out")
      BY <2>0, <2>11, <3>0, <3>2, QueuesMove DEF P!Park
    <3>3. CASE P!Goto(c, "discard") /\ UNCHANGED <<ctr, idle, waitq>>
      BY <2>0, <3>0, <3>3, QueuesMove
    <3> QED BY <2>11, <3>1, <3>2, <3>3 DEF P!Park
  <2> QED BY <1>7, <2>1, <2>3, <2>4, <2>5, <2>6, <2>7, <2>8, <2>9, <2>10, <2>11
          DEF P!Acquire, P!Release
<1>8. ASSUME NEW c \in Clients PROVE ~P!WaitExpires(c) BY DEF P!WaitExpires
<1> QED BY <1>2, <1>3, <1>4, <1>5, <1>6, <1>7, <1>8 DEF P!Next, P!Close

-----------------------------------------------------------------------------
(* Deadlines and the jobs they are set for.                                *)

Jobs ==
  /\ job \in [Clients -> {"none", "stage", "compile", "restage", "execute",
                          "cleanup", "untrack", "release"}]
  /\ \A c \in Clients : job[c] # "none" => pc[c] = "holding"

Deadlines == left = [id \in Ids |-> left[id]] /\ TrackedIsOwned

\* Only its own Release takes a container from a client that holds it.
LEMMA HoldersStay ==
  ASSUME Queues,
         \/ P!New \/ P!Reaper \/ P!Close \/ UNCHANGED poolVars
         \/ \E c \in Clients : PoolStep(c)
  PROVE  \A d \in Clients : pc[d] = "holding" => pc'[d] = "holding" /\ ctr'[d] = ctr[d]
<1> SUFFICES ASSUME NEW d \in Clients, pc[d] = "holding"
             PROVE  pc'[d] = "holding" /\ ctr'[d] = ctr[d]
  OBVIOUS
<1> USE DEF Queues, P!Goto
<1>1. CASE P!New \/ P!Reaper \/ UNCHANGED poolVars
  BY <1>1 DEF P!New, P!Warm, P!WarmFails, P!NewReturns, P!Reaper, P!RemoveByID,
              P!ReapDiscard, P!ReapRemove, poolVars
<1>2. CASE P!Close
  BY <1>2 DEF P!Close, P!CloseMark, P!CloseSignal, P!CloseRemove
<1>3. ASSUME NEW c \in Clients, PoolStep(c) PROVE pc'[d] = "holding" /\ ctr'[d] = ctr[d]
  <2>1. CASE P!AcquireCheck(c) \/ P!Discard(c) \/ P!RemoveDiscarded(c)
    BY <2>1 DEF P!AcquireCheck, P!Discard, P!RemoveDiscarded
  <2>2. CASE P!AcquireFast(c) \/ P!Select(c)
    BY <2>2 DEF P!AcquireFast, P!Select, P!TakeIdle
  <2>3. CASE P!Reserve(c) \/ P!Create(c) \/ P!Start(c) \/ P!Undo(c) \/ P!Unreserve(c)
             \/ P!Register(c)
    BY <2>3 DEF P!Reserve, P!Create, P!Start, P!Undo, P!Unreserve, P!Register
  <2>4. CASE P!Park(c)
    <3>1. waitq # <<>> => Head(waitq) = waitq[1] /\ 1 \in DOMAIN waitq OBVIOUS
    <3>2. waitq # <<>> => Head(waitq) # d BY <3>1
    <3> QED BY <2>4, <3>2 DEF P!Park
  <2> QED BY <1>3, <2>1, <2>2, <2>3, <2>4 DEF PoolStep, P!Acquire
<1> QED BY <1>1, <1>2, <1>3

\* Steps that leave the jobs alone and set no deadline.
LEMMA OthersKeep ==
  ASSUME Queues, Jobs, Deadlines,
         \A d \in Clients : pc[d] = "holding" => pc'[d] = "holding" /\ ctr'[d] = ctr[d],
         job' = job, left' = [id \in Ids |-> left'[id]],
         \A id \in Ids : left'[id] # None => left[id] # None
  PROVE  Jobs' /\ Deadlines'
<1>1. Jobs' BY DEF Jobs
<1>2. ASSUME NEW id \in Ids, left'[id] # None
      PROVE  \E c \in Clients : ctr'[c] = id /\ job'[c] \in TrackedAt
  <2>1. PICK c \in Clients : ctr[c] = id /\ job[c] \in TrackedAt
    BY <1>2 DEF Deadlines, TrackedIsOwned, M!Tracked
  <2>2. job[c] # "none" BY <2>1 DEF TrackedAt, Staging, Running
  <2> QED BY <2>1, <2>2 DEF Jobs
<1> QED BY <1>1, <1>2 DEF Deadlines, TrackedIsOwned, M!Tracked

\* The steps of a job of its own.
LEMMA RunStepKeeps ==
  ASSUME Queues, Jobs, Deadlines, NEW c \in Clients, RunStep(c)
  PROVE  Jobs' /\ Deadlines'
<1> USE DEF Enter, poolVars, ttlVars, Queues, Jobs
<1>0. \A id \in Ids : left[id] # None => \E d \in Clients : ctr[d] = id /\ job[d] \in TrackedAt
  BY DEF Deadlines, TrackedIsOwned, M!Tracked
<1>1. ASSUME NEW p \in {"stage", "compile", "restage", "execute", "cleanup", "untrack", "release"},
             Enter(c, p), pc[c] = "holding", UNCHANGED poolVars
      PROVE  Jobs' /\ \A d \in Clients : ctr'[d] = ctr[d] /\ (d # c => job'[d] = job[d])
                   /\ job'[c] = p
  BY <1>1
<1>2. CASE Track(c)
  <2>1. Enter(c, "stage") /\ UNCHANGED poolVars /\ pc[c] = "holding" BY <1>2 DEF Track
  <2>2. left' = [left EXCEPT ![ctr[c]] = TTL + Grace] BY <1>2 DEF Track, M!Track
  <2>3. ASSUME NEW id \in Ids, left'[id] # None
        PROVE  \E d \in Clients : ctr'[d] = id /\ job'[d] \in TrackedAt
    <3>1. CASE id = ctr[c] BY <3>1, <2>1, <1>1 DEF TrackedAt, Staging
    <3>2. CASE id # ctr[c]
      <4>1. left[id] # None BY <2>2, <2>3, <3>2 DEF Deadlines
      <4>2. PICK d \in Clients : ctr[d] = id /\ job[d] \in TrackedAt BY <4>1, <1>0
      <4>3. d # c BY <4>2, <3>2
      <4> QED BY <4>2, <4>3, <2>1, <1>1
    <3> QED BY <3>1, <3>2
  <2>4. left' = [id \in Ids |-> left'[id]] BY <2>2 DEF Deadlines
  <2> QED BY <2>1, <2>3, <2>4, <1>1 DEF Deadlines, TrackedIsOwned, M!Tracked
<1>3. ASSUME NEW p \in TrackedAt, Enter(c, p), pc[c] = "holding", UNCHANGED <<poolVars, ttlVars>>
      PROVE  Jobs' /\ Deadlines'
  <2>1. p \in {"stage", "compile", "restage", "execute", "cleanup", "untrack", "release"}
    BY DEF TrackedAt, Staging, Running
  <2>2. \A d \in Clients : job[d] \in TrackedAt => ctr'[d] = ctr[d] /\ job'[d] \in TrackedAt
    BY <1>3, <1>1, <2>1
  <2> QED BY <1>0, <1>1, <1>3, <2>1, <2>2 DEF Deadlines, TrackedIsOwned, M!Tracked
<1>4. CASE Stage(c) \/ Compile(c) \/ Execute(c) \/ Cleanup(c)
  BY <1>3, <1>4 DEF Stage, Compile, Execute, Cleanup, TrackedAt, Staging, Running
<1>5. CASE Untrack(c)
  <2>1. Enter(c, "release") /\ UNCHANGED poolVars /\ pc[c] = "holding"
    BY <1>5 DEF Untrack
  <2>2. left' = [left EXCEPT ![ctr[c]] = None] BY <1>5 DEF Untrack, M!Untrack
  <2>3. ASSUME NEW id \in Ids, left'[id] # None
        PROVE  \E d \in Clients : ctr'[d] = id /\ job'[d] \in TrackedAt
    <3>1. id # ctr[c] /\ left[id] # None BY <2>2, <2>3 DEF Deadlines
    <3>2. PICK d \in Clients : ctr[d] = id /\ job[d] \in TrackedAt BY <3>1, <1>0
    <3>3. d # c BY <3>1, <3>2
    <3> QED BY <3>2, <3>3, <2>1, <1>1
  <2>4. left' = [id \in Ids |-> left'[id]] BY <2>2 DEF Deadlines
  <2> QED BY <2>1, <2>3, <2>4, <1>1 DEF Deadlines, TrackedIsOwned, M!Tracked
<1>6. CASE Release(c)
  <2>1. job[c] = "release" /\ job' = [job EXCEPT ![c] = "none"] /\ left' = left
    BY <1>6 DEF Release
  <2>2. \A d \in Clients \ {c} : pc'[d] = pc[d] /\ ctr'[d] = ctr[d] /\ job'[d] = job[d]
    BY <1>6, <2>1 DEF Release, P!ReleaseCheck, P!Goto
  <2>3. Jobs' BY <2>1, <2>2
  <2>4. \A d \in Clients : job[d] \in TrackedAt => ctr'[d] = ctr[d] /\ job'[d] \in TrackedAt
    BY <2>1, <2>2 DEF TrackedAt, Staging, Running
  <2> QED BY <1>0, <2>1, <2>3, <2>4 DEF Deadlines, TrackedIsOwned, M!Tracked
<1> QED BY <1>2, <1>4, <1>5, <1>6 DEF RunStep

\* No job has begun and nothing is tracked when the service starts.
LEMMA JobsInit == Init => Queues /\ Jobs /\ Deadlines
<1> SUFFICES ASSUME Init PROVE Queues /\ Jobs /\ Deadlines OBVIOUS
<1>1. Jobs BY DEF Init, Jobs
<1>2. left = [id \in Ids |-> left[id]] /\ M!Tracked = {} BY DEF Init, M!Init, M!Tracked
<1> QED BY <1>1, <1>2, QueuesInit DEF Init, Deadlines, TrackedIsOwned

\* Every step of the service keeps the jobs and their deadlines together.
LEMMA JobsStep == Queues /\ Jobs /\ Deadlines /\ [Next]_vars => Queues' /\ Jobs' /\ Deadlines'
<1> SUFFICES ASSUME Queues, Jobs, Deadlines, [Next]_vars PROVE Jobs' /\ Deadlines'
  BY PoolSteps, QueuesStep
<1> DEFINE Stay == \A d \in Clients : pc[d] = "holding" => pc'[d] = "holding" /\ ctr'[d] = ctr[d]
<1>0. left = [id \in Ids |-> left[id]] BY DEF Deadlines
<1>1. ASSUME Stay, job' = job, left' = left PROVE Jobs' /\ Deadlines'
  BY <1>0, <1>1, OthersKeep
<1>2. CASE UNCHANGED vars
  BY <1>1, <1>2, HoldersStay DEF vars, jobVars, ttlVars
<1>3. CASE NewStep \/ KillStep \/ KillEnd \/ CloseCancel \/ ClosePool \/ CloseStep
  <2>1. Stay
    BY <1>3, HoldersStay DEF NewStep, KillStep, KillEnd, CloseCancel, ClosePool, CloseStep,
                             P!Reaper, P!Close
  <2>2. job' = job /\ left' = left
    BY <1>3 DEF NewStep, KillStep, KillEnd, CloseCancel, ClosePool, CloseStep, M!KillEnd,
                M!Cancel, jobVars, ttlVars
  <2> QED BY <2>1, <2>2, <1>1
<1>4. CASE Tick
  <2>1. Stay BY <1>4, HoldersStay DEF Tick
  <2>2. /\ job' = job
        /\ left' = [id \in Ids |-> IF left[id] \in Nat \ {0} THEN left[id] - 1 ELSE left[id]]
    BY <1>4 DEF Tick, M!Tick
  <2>3. \A id \in Ids : left'[id] # None => left[id] # None
    BY <2>2, ServiceAssumption DEF ServiceAssumption
  <2>4. left' = [id \in Ids |-> left'[id]] BY <2>2
  <2> QED BY <2>1, <2>2, <2>3, <2>4, OthersKeep
<1>5. CASE SweepStep
  <2>1. Stay BY <1>5, HoldersStay DEF SweepStep
  <2>2. job' = job BY <1>5 DEF SweepStep, jobVars
  <2>3. \/ left' = left
        \/ left' = [id \in Ids |-> IF id \in expired' THEN None ELSE left[id]]
    BY <1>5 DEF SweepStep, M!SweepRead, M!SweepCollect, M!SweepEnd, M!Exit
  <2>4. left' = [id \in Ids |-> left'[id]] /\ \A id \in Ids : left'[id] # None => left[id] # None
    BY <1>0, <2>3
  <2> QED BY <2>1, <2>2, <2>4, OthersKeep
<1>6. ASSUME NEW c \in Clients, PoolStep(c) PROVE Jobs' /\ Deadlines'
  BY <1>1, <1>6, HoldersStay DEF PoolStep, jobVars, ttlVars
<1>7. ASSUME NEW id \in Ids, KillBegin(id) PROVE Jobs' /\ Deadlines'
  <2>1. Stay BY <1>7, HoldersStay DEF KillBegin, P!Reaper
  <2> QED BY <1>1, <1>7, <2>1 DEF KillBegin, M!KillBegin, jobVars
<1> QED BY <1>2, <1>3, <1>4, <1>5, <1>6, <1>7, RunStepKeeps DEF Next

\* "Untrack is deferred so it runs before Release": a container has a deadline only
\* while the job it was set for owns it, so no other job can be collected for it.
THEOREM Tracking == Spec => []TrackedIsOwned
<1>1. Deadlines => TrackedIsOwned BY DEF Deadlines
<1> QED BY <1>1, JobsInit, JobsStep, PTL DEF Spec

-----------------------------------------------------------------------------
(* The service is made of a pool and a manager.                            *)

\* Every step of the service is a step of its manager, or leaves it alone.
LEMMA ReaperSteps == Queues /\ Jobs /\ [Next]_vars => [M!Next]_(M!vars)
<1> SUFFICES ASSUME Queues, Jobs, [Next]_vars PROVE M!Next \/ UNCHANGED M!vars
  OBVIOUS
<1> USE DEF M!vars, ttlVars
<1>1. UNCHANGED ttlVars => UNCHANGED M!vars OBVIOUS
<1>2. CASE UNCHANGED vars BY <1>2, <1>1 DEF vars
<1>3. CASE NewStep \/ KillStep \/ ClosePool \/ CloseStep
  BY <1>3, <1>1 DEF NewStep, KillStep, ClosePool, CloseStep
<1>4. CASE Tick BY <1>4 DEF Tick, M!Next
<1>5. CASE KillEnd BY <1>5 DEF KillEnd, M!Next, M!Sweep
<1>6. CASE SweepStep BY <1>6 DEF SweepStep, M!Next, M!Sweep
<1>7. CASE CloseCancel BY <1>7 DEF CloseCancel, M!Next
<1>8. ASSUME NEW id \in Ids, KillBegin(id) PROVE M!Next
  BY <1>8 DEF KillBegin, M!Next, M!Sweep
<1>9. ASSUME NEW c \in Clients, PoolStep(c) PROVE UNCHANGED M!vars
  BY <1>9, <1>1 DEF PoolStep
<1>10. ASSUME NEW c \in Clients, RunStep(c) PROVE M!Next \/ UNCHANGED M!vars
  <2>1. CASE Track(c)
    <3>1. ctr[c] \in Ids BY <2>1 DEF Track, Queues, P!OwningAt
    <3> QED BY <2>1, <3>1 DEF Track, M!Next
  <2>2. CASE Untrack(c)
    <3>1. ctr[c] \in Ids BY <2>2 DEF Untrack, Queues, Jobs, P!OwningAt
    <3> QED BY <2>2, <3>1 DEF Untrack, M!Next
  <2>3. CASE ~Track(c) /\ ~Untrack(c)
    BY <1>10, <2>3, <1>1 DEF RunStep, Stage, Compile, Execute, Cleanup, Release
  <2> QED BY <2>1, <2>2, <2>3
<1> QED BY <1>2, <1>3, <1>4, <1>5, <1>6, <1>7, <1>8, <1>9, <1>10 DEF Next

\* NewEnv wires a pool to a manager (env.go): every behaviour of the service is one
\* of the pool, with a reaper and callers that do not give up, and one of the manager.
THEOREM Composition == Spec => P!Spec /\ M!Spec
BY PoolInit, JobsInit, JobsStep, PoolSteps, ReaperSteps, PTL DEF Spec, P!Spec, M!Spec
-----------------------------------------------------------------------------
(* Closing.                                                                *)

\* The pool is closed by NewEnv's failure path, before there is a manager, or after
\* the sweeper has exited; a kill runs within a sweep.
CloseInv ==
  /\ P!Closed => boot = "failed" \/ sweeper = "exited"
  /\ boot # "ready" => sweeper = "idle"
  /\ sweeper # "kill" => expired = {} /\ victim = None
  /\ victim = None => rpc = "idle"

\* Every step of the service keeps the order of closing.
LEMMA CloseInvStep == CloseInv /\ [Next]_vars => CloseInv'
<1> SUFFICES ASSUME CloseInv, [Next]_vars PROVE CloseInv'
  OBVIOUS
<1> USE DEF CloseInv, P!Closed, poolVars, ttlVars, jobVars
<1>1. ASSUME UNCHANGED <<boot, cpc, rpc, sweeper, expired, victim>> PROVE CloseInv' BY <1>1
<1>2. CASE UNCHANGED vars BY <1>2 DEF vars
<1>3. CASE NewStep
  BY <1>3 DEF NewStep, P!New, P!Warm, P!WarmFails, P!NewReturns, P!closeVars, P!reapVars
<1>4. CASE Tick BY <1>1, <1>4 DEF Tick, M!Tick
<1>5. CASE KillStep
  BY <1>5 DEF KillStep, P!ReapDiscard, P!ReapRemove, P!closeVars
<1>6. CASE KillEnd BY <1>6 DEF KillEnd, M!KillEnd
<1>7. CASE SweepStep
  BY <1>7 DEF SweepStep, M!SweepRead, M!SweepCollect, M!SweepEnd, M!Exit
<1>8. ASSUME NEW id \in Ids, KillBegin(id) PROVE CloseInv'
  BY <1>8, ServiceAssumption DEF KillBegin, M!KillBegin, P!RemoveByID, P!closeVars, ServiceAssumption
<1>9. CASE CloseCancel BY <1>1, <1>9 DEF CloseCancel, M!Cancel
<1>10. CASE ClosePool
  BY <1>10 DEF ClosePool, P!CloseMark, P!reapVars, M!WaitReturns
<1>11. CASE CloseStep
  BY <1>11 DEF CloseStep, P!CloseSignal, P!CloseRemove, P!reapVars
<1>12. ASSUME NEW c \in Clients, PoolStep(c) PROVE CloseInv'
  BY <1>1, <1>12 DEF PoolStep, P!AcquireCheck, P!Acquire, P!AcquireFast, P!Reserve, P!Create,
       P!Start, P!Undo, P!Unreserve, P!Register, P!Select, P!Park, P!Discard, P!RemoveDiscarded,
       P!closeVars, P!reapVars
<1>13. ASSUME NEW c \in Clients, RunStep(c) PROVE CloseInv'
  BY <1>1, <1>13 DEF RunStep, Track, M!Track, Stage, Compile, Execute, Cleanup, Untrack, M!Untrack,
       Release, P!ReleaseCheck, P!closeVars, P!reapVars
<1> QED BY <1>2, <1>3, <1>4, <1>5, <1>6, <1>7, <1>8, <1>9, <1>10, <1>11, <1>12, <1>13 DEF Next

\* "so an in-flight reap can't run against an already-closed pool" (env.go).
THEOREM NoLateReap == Spec => []NoReapOnClosedPool
<1>1. Init => CloseInv BY DEF Init, P!Init, M!Init, CloseInv, P!Closed
<1>2. CloseInv => NoReapOnClosedPool
  BY DEF CloseInv, NoReapOnClosedPool, Victims
<1> QED BY <1>1, <1>2, CloseInvStep, PTL DEF Spec

-----------------------------------------------------------------------------
(* Collecting.                                                             *)

\* What a sweep has found overdue and not yet collected is overdue, or has been
\* untracked since: a new deadline takes an id out again.
DueIsPast == due \subseteq Ids /\ \A id \in due : left[id] \in {0, None}

\* Every step of the manager keeps what is due in the past.
LEMMA DueIsPastStep == Deadlines /\ DueIsPast /\ [M!Next]_(M!vars) => DueIsPast'
<1> SUFFICES ASSUME Deadlines, DueIsPast, [M!Next]_(M!vars) PROVE DueIsPast'
  OBVIOUS
<1> USE DEF DueIsPast, Deadlines
<1>1. CASE UNCHANGED M!vars BY <1>1 DEF M!vars
<1>2. ASSUME NEW id \in Ids, M!Untrack(id) PROVE DueIsPast' BY <1>2 DEF M!Untrack
<1>3. ASSUME NEW id \in Ids, NEW ttl, M!Track(id, ttl) PROVE DueIsPast' BY <1>3 DEF M!Track
<1>4. CASE M!Tick BY <1>4, ServiceAssumption DEF M!Tick, ServiceAssumption
<1>5. CASE M!Sweep
  BY <1>5 DEF M!Sweep, M!SweepRead, M!SweepCollect, M!KillBegin, M!KillEnd, M!SweepEnd
<1>6. CASE M!Cancel \/ M!Exit BY <1>6 DEF M!Cancel, M!Exit
<1> QED BY <1>1, <1>2, <1>3, <1>4, <1>5, <1>6 DEF M!Next

\* sweepOnce reads the clock before it takes the lock, and still collects only what
\* is tracked and overdue when it does.
THEOREM OnlyOverdue == Spec => CollectsOverdueOnly
<1>1. Init => DueIsPast BY DEF Init, M!Init, DueIsPast
<1>2. DueIsPast /\ [M!Next]_(M!vars)
        => [expired' \ expired \subseteq {id \in Ids : left[id] = 0}]_(M!vars)
  <2> SUFFICES ASSUME DueIsPast, M!Next
               PROVE  expired' \ expired \subseteq {id \in Ids : left[id] = 0}
    OBVIOUS
  <2>1. CASE M!SweepCollect BY <2>1 DEF M!SweepCollect, M!Tracked, DueIsPast
  <2>2. CASE ~M!SweepCollect
    BY <2>2 DEF M!Next, M!Sweep, M!Untrack, M!Track, M!Tick, M!SweepRead, M!KillBegin, M!KillEnd,
                M!SweepEnd, M!Cancel, M!Exit
  <2> QED BY <2>1, <2>2
<1> QED BY <1>1, <1>2, DueIsPastStep, JobsInit, JobsStep, ReaperSteps, PTL
        DEF Spec, CollectsOverdueOnly, M!CollectsOverdueOnly

-----------------------------------------------------------------------------
(* Types, and how long a job may take.                                     *)

Types == TypeOK /\ \A c \in Clients : job[c] \notin Running => spent[c] = 0

\* The manager's variables keep their types.
LEMMA ReaperTypes ==
  ASSUME TypeOK, M!Next \/ UNCHANGED M!vars
  PROVE  M!TypeOK'
<1> USE DEF TypeOK, M!TypeOK
<1>1. CASE UNCHANGED M!vars BY <1>1 DEF M!vars
<1>2. ASSUME NEW id \in Ids, M!Untrack(id) PROVE M!TypeOK' BY <1>2 DEF M!Untrack
<1>3. ASSUME NEW id \in Ids, M!Track(id, TTL + Grace) PROVE M!TypeOK'
  BY <1>3, ServiceAssumption DEF M!Track, ServiceAssumption
<1>4. CASE M!Tick
  <2>1. \A id \in Ids : left'[id] \in Nat \cup {None} BY <1>4 DEF M!Tick
  <2> QED BY <1>4, <2>1 DEF M!Tick
<1>5. CASE M!Sweep
  BY <1>5 DEF M!Sweep, M!SweepRead, M!SweepCollect, M!KillBegin, M!KillEnd, M!SweepEnd, M!Tracked
<1>6. CASE M!Cancel \/ M!Exit BY <1>6 DEF M!Cancel, M!Exit
<1> QED BY <1>1, <1>2, <1>3, <1>4, <1>5, <1>6 DEF M!Next

\* Every step of the service keeps the types, an exec within its limit included.
LEMMA TypesStep == Queues /\ Jobs /\ Jobs' /\ Types /\ [Next]_vars => Types'
<1> SUFFICES ASSUME Queues, Jobs, Jobs', Types, [Next]_vars PROVE Types'
  OBVIOUS
<1>0. M!TypeOK' BY ReaperSteps, ReaperTypes DEF Types
<1> USE DEF Types, TypeOK, Jobs
<1>1. ASSUME UNCHANGED <<job, spent, slow>> PROVE Types' BY <1>0, <1>1
<1>2. CASE UNCHANGED vars BY <1>1, <1>2 DEF vars, jobVars
<1>3. CASE NewStep \/ KillStep \/ KillEnd \/ SweepStep \/ CloseCancel \/ ClosePool \/ CloseStep
  BY <1>1, <1>3 DEF NewStep, KillStep, KillEnd, SweepStep, CloseCancel, ClosePool, CloseStep, jobVars
<1>4. ASSUME NEW id \in Ids, KillBegin(id) PROVE Types' BY <1>1, <1>4 DEF KillBegin, jobVars
<1>5. ASSUME NEW c \in Clients, PoolStep(c) PROVE Types' BY <1>1, <1>5 DEF PoolStep, jobVars
<1>6. CASE Tick
  <2>1. \A c \in Clients : spent'[c] \in 0..(TTL + Overrun) /\ slow'[c] \in 0..SlowCap
    BY <1>6, ServiceAssumption DEF Tick, CountTick, ServiceAssumption
  <2>2. /\ spent' = [c \in Clients |-> spent'[c]] /\ slow' = [c \in Clients |-> slow'[c]]
        /\ job' = job
    BY <1>6 DEF Tick, CountTick
  <2>3. spent' \in [Clients -> 0..(TTL + Overrun)] /\ slow' \in [Clients -> 0..SlowCap]
    BY <2>1, <2>2
  <2>4. \A c \in Clients : job'[c] \notin Running => spent'[c] = 0
    BY <1>6 DEF Tick, CountTick
  <2> QED BY <1>0, <2>3, <2>4
<1>7. ASSUME NEW c \in Clients, RunStep(c) PROVE Types'
  <2>1. PICK stage : Enter(c, stage)
    BY <1>7 DEF RunStep, Track, Stage, Compile, Execute, Cleanup, Untrack, Release
  <2>2. 0 \in 0..(TTL + Overrun) /\ 0 \in 0..SlowCap BY ServiceAssumption DEF ServiceAssumption
  <2> QED BY <1>0, <2>1, <2>2 DEF Enter
<1> QED BY <1>2, <1>3, <1>4, <1>5, <1>6, <1>7 DEF Next

\* The types at the start.
LEMMA TypesInit == Init => Types
<1> SUFFICES ASSUME Init PROVE Types OBVIOUS
<1>1. M!TypeOK BY DEF Init, M!Init, M!TypeOK
<1>2. Jobs BY JobsInit
<1>3. 0 \in 0..(TTL + Overrun) /\ 0 \in 0..SlowCap BY ServiceAssumption DEF ServiceAssumption
<1> QED BY <1>1, <1>2, <1>3 DEF Init, Types, TypeOK, Jobs

\* The variables of the service keep their types, and no exec outlives its limit.
THEOREM TypeCorrect == Spec => []TypeOK
<1>1. Types => TypeOK BY DEF Types
<1> QED BY <1>1, JobsInit, TypesInit, JobsStep, TypesStep, PTL DEF Spec

\* A deadline runs down no faster than its job's time is spent, in the limited execs
\* or out of them.
PacedBy(c) ==
  job[c] \in TrackedAt /\ left[ctr[c]] # None =>
    slow[c] = SlowCap \/ left[ctr[c]] + slow[c] + Limited(c) >= TTL + Grace
Paced == \A c \in Clients : PacedBy(c)

\* Every step of the service keeps the pace, the ticks included.
LEMMA PacedStep ==
  Queues /\ Jobs /\ Deadlines /\ Types /\ Types' /\ Paced /\ [Next]_vars => Paced'
<1> SUFFICES ASSUME Queues, Jobs, Deadlines, Types, Types', Paced, [Next]_vars PROVE Paced'
  OBVIOUS
<1>0. /\ \A c \in Clients : /\ spent[c] \in 0..(TTL + Overrun) /\ slow[c] \in 0..SlowCap
                            /\ job[c] \notin Running => spent[c] = 0
      /\ \A id \in Ids : left[id] \in Nat \cup {None}
      /\ \A c \in Clients : job[c] \in TrackedAt => pc[c] = "holding" /\ ctr[c] \in Ids
      /\ TTL \in Nat /\ Grace \in Nat /\ Overrun \in Nat /\ SlowCap \in Nat /\ None \notin Nat
  BY ServiceAssumption
     DEF Types, TypeOK, M!TypeOK, ServiceAssumption, Jobs, Queues, P!OwningAt, TrackedAt, Staging, Running
<1> DEFINE Stay == \A d \in Clients : pc[d] = "holding" => pc'[d] = "holding" /\ ctr'[d] = ctr[d]
<1>1. ASSUME Stay, UNCHANGED <<job, spent, slow>>,
             \A id \in Ids : left'[id] = left[id] \/ left'[id] = None
      PROVE  Paced'
  BY <1>0, <1>1 DEF Paced, PacedBy, Limited
<1>2. CASE UNCHANGED vars
  BY <1>1, <1>2, HoldersStay DEF vars, jobVars, ttlVars
<1>3. CASE NewStep \/ KillStep \/ KillEnd \/ CloseCancel \/ ClosePool \/ CloseStep
  <2>1. Stay
    BY <1>3, HoldersStay DEF NewStep, KillStep, KillEnd, CloseCancel, ClosePool, CloseStep,
                             P!Reaper, P!Close
  <2>2. UNCHANGED <<job, spent, slow, left>>
    BY <1>3 DEF NewStep, KillStep, KillEnd, CloseCancel, ClosePool, CloseStep, M!KillEnd,
                M!Cancel, jobVars, ttlVars
  <2> QED BY <2>1, <2>2, <1>1
<1>4. CASE SweepStep
  <2>1. Stay BY <1>4, HoldersStay DEF SweepStep
  <2>2. UNCHANGED <<job, spent, slow>> BY <1>4 DEF SweepStep, jobVars
  <2>3. \A id \in Ids : left'[id] = left[id] \/ left'[id] = None
    BY <1>4 DEF SweepStep, M!SweepRead, M!SweepCollect, M!SweepEnd, M!Exit
  <2> QED BY <2>1, <2>2, <2>3, <1>1
<1>5. ASSUME NEW c \in Clients, PoolStep(c) PROVE Paced'
  BY <1>1, <1>5, HoldersStay DEF PoolStep, jobVars, ttlVars
<1>6. ASSUME NEW id \in Ids, KillBegin(id) PROVE Paced'
  <2>1. Stay BY <1>6, HoldersStay DEF KillBegin, P!Reaper
  <2> QED BY <1>1, <1>6, <2>1 DEF KillBegin, M!KillBegin, jobVars
<1>7. CASE Tick
  <2> SUFFICES ASSUME NEW c \in Clients PROVE PacedBy(c)' BY DEF Paced
  <2>1. job' = job /\ (job[c] \in TrackedAt => ctr'[c] = ctr[c])
    BY <1>0, <1>7, HoldersStay DEF Tick
  <2>2. \A id \in Ids : left'[id] = IF left[id] \in Nat \ {0} THEN left[id] - 1 ELSE left[id]
    BY <1>7 DEF Tick, M!Tick
  <2>3. /\ spent'[c] = IF job[c] \in Running THEN spent[c] + 1 ELSE spent[c]
        /\ slow'[c] = IF job[c] \in TrackedAt \ Running /\ slow[c] < SlowCap
                      THEN slow[c] + 1 ELSE slow[c]
    BY <1>7 DEF Tick, CountTick
  <2>4. PacedBy(c) BY DEF Paced
  <2> QED BY <1>0, <2>1, <2>2, <2>3, <2>4 DEF PacedBy, Limited, TrackedAt
<1>8. ASSUME NEW c \in Clients, RunStep(c) PROVE Paced'
  <2>0. \A d \in Clients : job[d] \in TrackedAt => PacedBy(d) /\ ctr[d] \in Ids BY <1>0 DEF Paced
  <2>1. ASSUME NEW stage, Enter(c, stage)
        PROVE  /\ \A d \in Clients \ {c} : job'[d] = job[d] /\ spent'[d] = spent[d] /\ slow'[d] = slow[d]
               /\ job'[c] = stage /\ spent'[c] = 0
               /\ stage # "none" => slow'[c] = slow[c]
    BY <2>1 DEF Enter, Types, TypeOK, Jobs
  <2>2. CASE Track(c)
    <3>1. Enter(c, "stage") /\ ctr' = ctr /\ ctr[c] \in Ids
      BY <2>2 DEF Track, poolVars, Queues, P!OwningAt
    <3>2. left' = [left EXCEPT ![ctr[c]] = TTL + Grace] BY <2>2 DEF Track, M!Track
    <3>3. \A id \in Ids : left'[id] = IF id = ctr[c] THEN TTL + Grace ELSE left[id]
      BY <3>2 DEF Deadlines
    <3>4. ASSUME NEW d \in Clients PROVE PacedBy(d)'
      <4>1. CASE d = c BY <4>1, <1>0, <2>1, <3>1, <3>3 DEF PacedBy, Limited
      <4>2. CASE d # c BY <4>2, <1>0, <2>0, <2>1, <3>1, <3>3 DEF PacedBy, Limited
      <4> QED BY <4>1, <4>2
    <3> QED BY <3>4 DEF Paced
  <2>3. CASE Stage(c) \/ Compile(c) \/ Execute(c) \/ Cleanup(c)
    <3>1. ctr' = ctr /\ left' = left
      BY <2>3 DEF Stage, Compile, Execute, Cleanup, poolVars, ttlVars
    <3>2. PICK stage \in {"compile", "restage", "execute", "cleanup", "untrack"} :
            /\ Enter(c, stage) /\ job[c] \in TrackedAt
            /\ stage = "compile" => job[c] = "stage"
            /\ stage = "restage" => job[c] = "compile"
            /\ stage = "execute" => job[c] = "restage"
      BY <2>3 DEF Stage, Compile, Execute, Cleanup, TrackedAt, Staging, Running
    <3>3. ASSUME NEW d \in Clients PROVE PacedBy(d)'
      <4>1. CASE d = c
        <5>1. PacedBy(c) /\ spent[c] \in 0..(TTL + Overrun) BY <1>0, <2>0, <3>2
        <5>2. job[c] \in Running \/ spent[c] = 0 BY <1>0
        <5>3. job'[c] = stage /\ spent'[c] = 0 /\ slow'[c] = slow[c] BY <2>1, <3>2
        <5>4. Limited(c) <= Limited(c)' /\ Limited(c) \in Nat /\ Limited(c)' \in Nat
          BY <1>0, <3>2, <5>1, <5>2, <5>3 DEF Limited, Running
        <5> QED BY <4>1, <1>0, <2>0, <3>1, <3>2, <5>1, <5>3, <5>4 DEF PacedBy
      <4>2. CASE d # c BY <4>2, <2>0, <2>1, <3>1, <3>2 DEF PacedBy, Limited
      <4> QED BY <4>1, <4>2
    <3> QED BY <3>3 DEF Paced
  <2>4. CASE Untrack(c) \/ Release(c)
    <3>1. PICK stage \in {"release", "none"} : Enter(c, stage)
      BY <2>4 DEF Untrack, Release
    <3>2. \A d \in Clients \ {c} : ctr'[d] = ctr[d]
      BY <2>4 DEF Untrack, Release, P!ReleaseCheck, poolVars, Queues
    <3>3. \A id \in Ids : left'[id] = left[id] \/ left'[id] = None
      BY <2>4 DEF Untrack, Release, M!Untrack, ttlVars, Deadlines
    <3>4. ASSUME NEW d \in Clients PROVE PacedBy(d)'
      <4>1. CASE d = c BY <4>1, <2>1, <3>1 DEF PacedBy, TrackedAt, Staging, Running
      <4>2. CASE d # c BY <4>2, <2>0, <2>1, <3>1, <3>2, <3>3 DEF PacedBy, Limited
      <4> QED BY <4>1, <4>2
    <3> QED BY <3>4 DEF Paced
  <2> QED BY <1>8, <2>2, <2>3, <2>4 DEF RunStep
<1> QED BY <1>2, <1>3, <1>4, <1>5, <1>6, <1>7, <1>8 DEF Next

\* Run's one deadline: whatever the limits, a job that is collected has used TTL + Grace
\* up, in its limited execs and outside of them.
THEOREM DeadlineSpent == Spec => DeadlineIsSpent
<1> DEFINE Due ==
      \A c \in Clients : \A id \in expired' \ expired :
        ctr[c] = id /\ job[c] \in TrackedAt =>
          slow[c] + Limited(c) >= TTL + Grace \/ slow[c] = SlowCap
<1>1. Init => Paced
  BY DEF Init, Paced, PacedBy, TrackedAt, Staging, Running
<1>2. Types /\ Paced /\ [expired' \ expired \subseteq {id \in Ids : left[id] = 0}]_(M!vars)
        => [Due]_vars
  <2> SUFFICES ASSUME Types, Paced,
                      expired' \ expired \subseteq {id \in Ids : left[id] = 0} \/ UNCHANGED M!vars,
                      NEW c \in Clients, NEW id \in expired' \ expired,
                      ctr[c] = id, job[c] \in TrackedAt
               PROVE  slow[c] + Limited(c) >= TTL + Grace \/ slow[c] = SlowCap
    OBVIOUS
  <2>1. left[ctr[c]] = 0 BY DEF M!vars
  <2>2. PacedBy(c) BY DEF Paced
  <2>3. slow[c] \in Int /\ Limited(c) \in Int /\ 0 # None
    BY ServiceAssumption DEF Types, TypeOK, Limited, ServiceAssumption
  <2> QED BY <2>1, <2>2, <2>3 DEF PacedBy
<1>3. QED
  BY <1>1, <1>2, OnlyOverdue, TypesInit, JobsInit, JobsStep, TypesStep, PacedStep, PTL
     DEF Spec, DeadlineIsSpent, CollectsOverdueOnly, M!CollectsOverdueOnly
=============================================================================
