----------------------------- MODULE PoolProofs -----------------------------
(***************************************************************************)
(* Proofs about internal/pool for every number of clients and containers,  *)
(* every configuration and every choice of failing backend calls.          *)
(***************************************************************************)
EXTENDS PoolProperties, SequenceLemmas, FiniteSetTheorems, TLAPS

-----------------------------------------------------------------------------
(* The inductive invariant behind type correctness and single ownership.   *)

\* Positions at which a client has a container in its hands.
HasCtrAt == {"start", "register", "undo", "remove"} \cup OwningAt

\* Every container in sight has been created, and a client has one exactly at
\* the positions of HasCtrAt.
Placement ==
  /\ \A c \in Clients : IF pc[c] \in HasCtrAt THEN ctr[c] \in used ELSE ctr[c] = None
  /\ ToSet(idle) \subseteq used /\ all \subseteq used /\ closing \subseteq used

\* The channel's receive queue holds parked clients, each once.
WaitersWait ==
  /\ \A i \in DOMAIN waitq : pc[waitq[i]] = "wait"
  /\ IsInjective(waitq)

OwnerInv == TypeOK /\ Placement /\ WaitersWait /\ SingleOwner

\* The empty pool New starts from satisfies the invariant.
LEMMA OwnerInvInit == Init => OwnerInv
<1> SUFFICES ASSUME Init PROVE OwnerInv OBVIOUS
<1>1. TypeOK BY ConfigAssumption DEF Init, TypeOK, ClientPC
<1>2. Placement /\ WaitersWait /\ SingleOwner
  BY DEF Init, Placement, WaitersWait, SingleOwner, HasCtrAt, OwningAt, ToSet, IsInjective
<1> QED BY <1>1, <1>2 DEF OwnerInv

\* A step of client c that leaves the channel alone and moves c between two
\* positions of the same kind: with a container at both, or at neither.
LEMMA MoveKeepsOwnership ==
  ASSUME OwnerInv, NEW c \in Clients, NEW p \in ClientPC \ {"wait"},
         pc[c] # "wait", pc[c] \in HasCtrAt <=> p \in HasCtrAt,
         Goto(c, p), UNCHANGED <<ctr, idle, waitq>>,
         used \subseteq used', all' \subseteq used', closing' \subseteq used'
  PROVE  Placement' /\ WaitersWait' /\ SingleOwner'
<1> USE DEF OwnerInv, TypeOK, Goto
<1>1. Placement' BY DEF Placement
<1>2. WaitersWait' BY DEF WaitersWait
<1>3. SingleOwner' BY DEF SingleOwner
<1> QED BY <1>1, <1>2, <1>3

\* A step in which client c parts with its container.
LEMMA DropKeepsOwnership ==
  ASSUME OwnerInv, NEW c \in Clients, NEW p \in ClientPC \ {"wait"},
         pc[c] # "wait", p \notin HasCtrAt,
         Goto(c, p), ctr' = [ctr EXCEPT ![c] = None], UNCHANGED <<idle, waitq>>,
         used \subseteq used', all' \subseteq used', closing' \subseteq used'
  PROVE  Placement' /\ WaitersWait' /\ SingleOwner'
<1> USE DEF OwnerInv, TypeOK, Goto
<1>1. Placement' BY DEF Placement
<1>2. WaitersWait' BY DEF WaitersWait
<1>3. SingleOwner'
  <2>1. None \notin ToSet(idle)
    <3>1. used \subseteq Ids OBVIOUS
    <3> QED BY <3>1, ConfigAssumption DEF Placement
  <2> QED BY <2>1 DEF SingleOwner
<1> QED BY <1>1, <1>2, <1>3

\* Receiving from the idle channel, on the fast path or in the blocking select.
LEMMA TakeIdleKeepsOwnership ==
  ASSUME OwnerInv, NEW c \in Clients, pc[c] \in {"fast", "select"}, TakeIdle(c),
         UNCHANGED <<boot, waitq, poolVars, jobs, closeVars, reapVars, backVars>>
  PROVE  OwnerInv'
<1> USE DEF OwnerInv, Goto, TakeIdle, poolVars, closeVars, reapVars, backVars
<1>1. /\ idle' \in Seq(Ids) /\ Len(idle') = Len(idle) - 1
      /\ Head(idle) \in Ids /\ Head(idle) \in ToSet(idle)
      /\ ToSet(idle) = ToSet(idle') \cup {Head(idle)}
      /\ IsInjective(idle') /\ Head(idle) \notin ToSet(idle')
  BY TailFacts DEF TypeOK, SingleOwner
<1>2. ctr[c] = None BY DEF Placement, HasCtrAt, OwningAt
<1>3. TypeOK' BY <1>1, ConfigAssumption DEF TypeOK, ClientPC, OwningAt
<1>4. Placement' BY <1>1 DEF Placement, TypeOK, HasCtrAt, OwningAt
<1>5. WaitersWait' BY DEF WaitersWait, TypeOK
<1>6. SingleOwner' BY <1>1, <1>2 DEF SingleOwner, TypeOK
<1> QED BY <1>3, <1>4, <1>5, <1>6

\* Sending to the idle channel with nobody parked on it.
LEMMA AppendKeepsOwnership ==
  ASSUME OwnerInv, NEW id \in Ids, id \notin ToSet(idle), id \in used',
         \A c \in Clients : ctr'[c] # id,
         idle' = Append(idle, id), Len(idle) < MaxSize
  PROVE  /\ idle' \in Seq(Ids) /\ Len(idle') <= MaxSize
         /\ ToSet(idle') = ToSet(idle) \cup {id} /\ IsInjective(idle')
BY AppendFacts, ConfigAssumption DEF OwnerInv, TypeOK, SingleOwner

\* A send that goes straight to a parked client.
LEMMA HandOverKeepsSingleOwner ==
  ASSUME SingleOwner, NEW c \in Clients, NEW w \in Clients, c # w,
         ctr \in [Clients -> Ids \cup {None}], ctr[c] # None, ctr[w] = None,
         None \notin ToSet(idle), idle' = idle,
         ctr' = [ctr EXCEPT ![c] = None, ![w] = ctr[c]]
  PROVE  SingleOwner'
<1>1. /\ ctr'[c] = None /\ ctr'[w] = ctr[c]
      /\ \A d \in Clients : d # c /\ d # w => ctr'[d] = ctr[d]
  OBVIOUS
<1>2. \A x, y \in Clients : x # y => ctr[x] = None \/ ctr[x] # ctr[y]
  BY DEF SingleOwner
<1>3. \A d \in Clients : ctr[d] \notin ToSet(idle') BY DEF SingleOwner
<1>4. ASSUME NEW d \in Clients, NEW e \in Clients, d # e
      PROVE  ctr'[d] = None \/ ctr'[d] # ctr'[e]
  <2>1. CASE d = c BY <2>1, <1>1
  <2>2. CASE d = w BY <2>2, <1>1, <1>2, <1>4
  <2>3. CASE d # c /\ d # w BY <2>3, <1>1, <1>2, <1>4
  <2> QED BY <2>1, <2>2, <2>3
<1>5. \A d \in Clients : ctr'[d] \notin ToSet(idle') BY <1>1, <1>3
<1>6. IsInjective(idle') BY DEF SingleOwner
<1> QED BY <1>4, <1>5, <1>6 DEF SingleOwner

\* Every step of a client, the reaper, New and Close preserves the invariant.
LEMMA OwnerInvStep == OwnerInv /\ [Next]_vars => OwnerInv'
<1> SUFFICES ASSUME OwnerInv, [Next]_vars PROVE OwnerInv' OBVIOUS
<1> USE ConfigAssumption DEF OwnerInv, HasCtrAt, OwningAt, ReservingAt, ClientPC,
      chanVars, poolVars, closeVars, reapVars, backVars
<1>1. CASE Warm
  <2>1. PICK id \in Fresh : /\ used' = used \cup {id} /\ live' = live \cup {id}
                            /\ all' = all \cup {id} /\ idle' = Append(idle, id)
    BY <1>1 DEF Warm
  <2>2. id \in Ids /\ id \notin ToSet(idle) /\ \A c \in Clients : ctr[c] # id
    BY DEF Fresh, Placement, TypeOK
  <2>3. Len(idle) < MaxSize BY <1>1 DEF Warm, TypeOK
  <2>4. /\ idle' \in Seq(Ids) /\ Len(idle') <= MaxSize
        /\ ToSet(idle') = ToSet(idle) \cup {id} /\ IsInjective(idle')
    BY <2>1, <2>2, <2>3, <1>1, AppendKeepsOwnership DEF Warm
  <2>5. TypeOK' BY <1>1, <2>1, <2>2, <2>4 DEF Warm, TypeOK
  <2>6. Placement' BY <1>1, <2>1, <2>4 DEF Warm, Placement
  <2>7. WaitersWait' BY <1>1 DEF Warm, WaitersWait
  <2>8. SingleOwner' BY <1>1, <2>2, <2>4 DEF Warm, SingleOwner
  <2> QED BY <2>5, <2>6, <2>7, <2>8
<1>2. CASE WarmFails
  BY <1>2 DEF WarmFails, Fresh, TypeOK, Placement, WaitersWait, SingleOwner
<1>3. CASE NewReturns
  BY <1>3 DEF NewReturns, TypeOK, Placement, WaitersWait, SingleOwner
<1>4. ASSUME NEW c \in Clients, AcquireCheck(c) PROVE OwnerInv'
  <2>1. TypeOK' BY <1>4 DEF AcquireCheck, Goto, TypeOK
  <2> QED BY <1>4, <2>1, MoveKeepsOwnership DEF AcquireCheck, Placement
<1>5. ASSUME NEW c \in Clients, AcquireFast(c) PROVE OwnerInv'
  <2>1. CASE TakeIdle(c) BY <1>5, <2>1, TakeIdleKeepsOwnership DEF AcquireFast
  <2>2. CASE Goto(c, "reserve") /\ UNCHANGED <<ctr, idle>>
    <3>1. TypeOK' BY <1>5, <2>2 DEF AcquireFast, Goto, TypeOK
    <3> QED BY <1>5, <2>2, <3>1, MoveKeepsOwnership DEF AcquireFast, Placement
  <2> QED BY <1>5, <2>1, <2>2 DEF AcquireFast
<1>6. ASSUME NEW c \in Clients, Reserve(c) PROVE OwnerInv'
  <2>1. PICK p \in {"out", "select", "create"} : Goto(c, p) BY <1>6 DEF Reserve
  <2>2. count' \in Int BY <1>6 DEF Reserve, TypeOK
  <2>3. TypeOK' BY <1>6, <2>1, <2>2 DEF Reserve, Goto, TypeOK
  <2> QED BY <1>6, <2>1, <2>3, MoveKeepsOwnership DEF Reserve, Placement
<1>7. ASSUME NEW c \in Clients, Create(c) PROVE OwnerInv'
  <2>1. CASE \E id \in Fresh : /\ used' = used \cup {id} /\ live' = live \cup {id}
                               /\ ctr' = [ctr EXCEPT ![c] = id] /\ Goto(c, "start")
    <3>1. PICK id \in Fresh : /\ used' = used \cup {id} /\ live' = live \cup {id}
                              /\ ctr' = [ctr EXCEPT ![c] = id]
      BY <2>1
    <3>2. id \in Ids /\ id \notin ToSet(idle) /\ \A d \in Clients : ctr[d] # id
      BY DEF Fresh, Placement, TypeOK
    <3> USE <1>7, <2>1, <3>1, <3>2 DEF Create, Goto
    <3>3. TypeOK' BY DEF TypeOK
    <3>4. Placement' BY DEF Placement, TypeOK
    <3>5. WaitersWait' BY DEF WaitersWait, TypeOK
    <3>6. SingleOwner' BY DEF SingleOwner, TypeOK
    <3> QED BY <3>3, <3>4, <3>5, <3>6
  <2>2. CASE Goto(c, "unreserve") /\ UNCHANGED <<ctr, used, live>>
    <3>1. TypeOK' BY <1>7, <2>2 DEF Create, Goto, TypeOK
    <3> QED BY <1>7, <2>2, <3>1, MoveKeepsOwnership DEF Create, Placement
  <2> QED BY <1>7, <2>1, <2>2 DEF Create
<1>8. ASSUME NEW c \in Clients, Start(c) PROVE OwnerInv'
  <2>1. PICK p \in {"register", "undo"} : Goto(c, p) BY <1>8 DEF Start
  <2>2. TypeOK' BY <1>8, <2>1 DEF Start, Goto, TypeOK
  <2> QED BY <1>8, <2>1, <2>2, MoveKeepsOwnership DEF Start, Placement
<1>9. ASSUME NEW c \in Clients, Undo(c) PROVE OwnerInv'
  <2>1. TypeOK' BY <1>9 DEF Undo, Goto, BackendRemove, TypeOK
  <2> QED BY <1>9, <2>1, DropKeepsOwnership
          DEF Undo, BackendRemove, Placement
<1>10. ASSUME NEW c \in Clients, Unreserve(c) PROVE OwnerInv'
  <2>1. TypeOK' BY <1>10 DEF Unreserve, Goto, TypeOK
  <2> QED BY <1>10, <2>1, MoveKeepsOwnership DEF Unreserve, Placement
<1>11. ASSUME NEW c \in Clients, Register(c) PROVE OwnerInv'
  <2>1. ctr[c] \in used BY <1>11 DEF Register, Placement
  <2>2. TypeOK' BY <1>11, <2>1 DEF Register, Goto, TypeOK
  <2>3. all' \subseteq used' BY <1>11, <2>1 DEF Register, Placement
  <2> QED BY <1>11, <2>2, <2>3, MoveKeepsOwnership DEF Register, Placement
<1>12. ASSUME NEW c \in Clients, Select(c) PROVE OwnerInv'
  <2>1. CASE TakeIdle(c) /\ UNCHANGED waitq
    BY <1>12, <2>1, TakeIdleKeepsOwnership DEF Select
  <2>2. CASE Goto(c, "out") /\ UNCHANGED <<ctr, chanVars>>
    <3>1. TypeOK' BY <1>12, <2>2 DEF Select, Goto, TypeOK
    <3> QED BY <1>12, <2>2, <3>1, MoveKeepsOwnership DEF Select, Placement
  <2>3. CASE /\ waitq' = Append(waitq, c)
             /\ Goto(c, "wait") /\ UNCHANGED <<ctr, idle>>
    <3>1. c \notin ToSet(waitq) BY <1>12 DEF Select, WaitersWait, ToSet
    <3>2. /\ waitq' \in Seq(Clients)
          /\ ToSet(waitq') = ToSet(waitq) \cup {c} /\ IsInjective(waitq')
      BY <2>3, <3>1, AppendFacts DEF TypeOK, WaitersWait
    <3> USE <1>12, <2>3, <3>2 DEF Select, Goto
    <3>3. TypeOK' BY DEF TypeOK
    <3>4. Placement' BY DEF Placement, TypeOK
    <3>5. WaitersWait'
      <4>1. \A d \in ToSet(waitq') : pc'[d] = "wait"
        BY DEF WaitersWait, TypeOK, ToSet
      <4> QED BY <4>1 DEF WaitersWait, ToSet
    <3>6. SingleOwner' BY DEF SingleOwner
    <3> QED BY <3>3, <3>4, <3>5, <3>6
  <2> QED BY <1>12, <2>1, <2>2, <2>3 DEF Select
<1>13. ASSUME NEW c \in Clients, WaitExpires(c) PROVE OwnerInv'
  <2>1. PICK i \in DOMAIN waitq : waitq[i] = c /\ waitq' = RemoveAt(waitq, i)
    BY <1>13 DEF WaitExpires
  <2>2. /\ waitq' \in Seq(Clients) /\ ToSet(waitq') \subseteq ToSet(waitq)
        /\ IsInjective(waitq') /\ c \notin ToSet(waitq')
    BY <2>1, RemoveAtFacts DEF TypeOK, WaitersWait
  <2> USE <1>13, <2>2 DEF WaitExpires, Goto
  <2>3. TypeOK' BY DEF TypeOK
  <2>4. Placement' BY DEF Placement, TypeOK
  <2>5. WaitersWait'
    <3>1. \A d \in ToSet(waitq) : d \in Clients /\ pc[d] = "wait"
      BY DEF WaitersWait, TypeOK, ToSet
    <3>2. \A d \in ToSet(waitq') : pc'[d] = "wait" BY <3>1 DEF TypeOK
    <3> QED BY <3>2 DEF WaitersWait, ToSet
  <2>6. SingleOwner' BY DEF SingleOwner
  <2> QED BY <2>3, <2>4, <2>5, <2>6
<1>14. ASSUME NEW c \in Clients, ReleaseCheck(c) PROVE OwnerInv'
  <2>1. jobs' \in [Ids -> 0..MaxJobs]
    BY <1>14 DEF ReleaseCheck, JobDone, TypeOK, Placement
  <2>2. CASE Goto(c, "out") /\ ctr' = [ctr EXCEPT ![c] = None]
    <3>1. TypeOK' BY <1>14, <2>1, <2>2 DEF ReleaseCheck, Goto, TypeOK
    <3> QED BY <1>14, <2>2, <3>1, DropKeepsOwnership DEF ReleaseCheck, Placement
  <2>3. CASE Goto(c, IF MustDiscard(ctr[c]) THEN "discard" ELSE "park") /\ UNCHANGED ctr
    <3>1. PICK p \in {"discard", "park"} : Goto(c, p) BY <2>3
    <3>2. TypeOK' BY <1>14, <2>1, <2>3, <3>1 DEF ReleaseCheck, Goto, TypeOK
    <3> QED BY <1>14, <2>3, <3>1, <3>2, MoveKeepsOwnership DEF ReleaseCheck, Placement
  <2> QED BY <1>14, <2>2, <2>3 DEF ReleaseCheck
<1>15. ASSUME NEW c \in Clients, Park(c) PROVE OwnerInv'
  <2>1. ctr[c] \in used /\ ctr[c] \in Ids /\ ctr[c] \notin ToSet(idle)
    BY <1>15 DEF Park, Placement, SingleOwner, TypeOK
  <2>2. CASE /\ waitq # <<>>
             /\ pc' = [pc EXCEPT ![c] = "out", ![Head(waitq)] = "holding"]
             /\ ctr' = [ctr EXCEPT ![c] = None, ![Head(waitq)] = ctr[c]]
             /\ waitq' = Tail(waitq) /\ UNCHANGED idle
    <3> DEFINE w == Head(waitq)
    <3>1. /\ waitq' \in Seq(Clients) /\ w \in Clients /\ w \in ToSet(waitq)
          /\ ToSet(waitq) = ToSet(waitq') \cup {w}
          /\ IsInjective(waitq') /\ w \notin ToSet(waitq')
      BY <2>2, TailFacts DEF TypeOK, WaitersWait
    <3>2. \A d \in ToSet(waitq) : d \in Clients /\ pc[d] = "wait"
      BY DEF WaitersWait, TypeOK, ToSet
    <3>3. pc[w] = "wait" /\ w # c /\ ctr[w] = None
      BY <1>15, <3>1, <3>2 DEF Park, Placement
    <3> HIDE DEF w
    <3>4. /\ pc' = [pc EXCEPT ![c] = "out", ![w] = "holding"]
          /\ ctr' = [ctr EXCEPT ![c] = None, ![w] = ctr[c]]
      BY <2>2 DEF w
    <3> USE <1>15, <2>1, <3>1, <3>3, <3>4 DEF Park
    <3>5. TypeOK' BY <2>2 DEF TypeOK
    <3>6. Placement' BY <2>2 DEF Placement, TypeOK
    <3>7. WaitersWait'
      <4>1. \A d \in ToSet(waitq') : pc'[d] = "wait"
        BY <3>2 DEF TypeOK
      <4> QED BY <4>1 DEF WaitersWait, ToSet
    <3>8. SingleOwner'
      <4>1. None \notin ToSet(idle) BY DEF Placement, TypeOK
      <4> QED BY <2>2, <4>1, HandOverKeepsSingleOwner DEF TypeOK
    <3> QED BY <3>5, <3>6, <3>7, <3>8
  <2>3. CASE /\ HasRoom /\ idle' = Append(idle, ctr[c])
             /\ Goto(c, "out") /\ ctr' = [ctr EXCEPT ![c] = None] /\ UNCHANGED waitq
    <3>1. \A d \in Clients : ctr'[d] # ctr[c]
      BY <2>1, <2>3 DEF SingleOwner, TypeOK
    <3>2. /\ idle' \in Seq(Ids) /\ Len(idle') <= MaxSize
          /\ ToSet(idle') = ToSet(idle) \cup {ctr[c]} /\ IsInjective(idle')
      BY <1>15, <2>1, <2>3, <3>1, AppendKeepsOwnership DEF Park, HasRoom
    <3> USE <1>15, <2>1, <2>3, <3>1, <3>2 DEF Park, Goto
    <3>3. TypeOK' BY DEF TypeOK
    <3>4. Placement' BY DEF Placement, TypeOK
    <3>5. WaitersWait' BY DEF WaitersWait, TypeOK
    <3>6. SingleOwner'
      <4>1. None \notin ToSet(idle') BY DEF Placement, TypeOK
      <4> QED BY <4>1 DEF SingleOwner, TypeOK
    <3> QED BY <3>3, <3>4, <3>5, <3>6
  <2>4. CASE Goto(c, "discard") /\ UNCHANGED <<ctr, chanVars>>
    <3>1. TypeOK' BY <1>15, <2>4 DEF Park, Goto, TypeOK
    <3> QED BY <1>15, <2>4, <3>1, MoveKeepsOwnership DEF Park, Placement
  <2> QED BY <1>15, <2>2, <2>3, <2>4 DEF Park
<1>16. ASSUME NEW c \in Clients, Discard(c) PROVE OwnerInv'
  <2>1. count' \in Int BY <1>16 DEF Discard, FreeSlot, TypeOK
  <2>2. TypeOK' BY <1>16, <2>1 DEF Discard, FreeSlot, Goto, TypeOK
  <2> QED BY <1>16, <2>2, MoveKeepsOwnership DEF Discard, FreeSlot, Placement
<1>17. ASSUME NEW c \in Clients, RemoveDiscarded(c) PROVE OwnerInv'
  <2>1. TypeOK' BY <1>17 DEF RemoveDiscarded, Goto, BackendRemove, TypeOK
  <2> QED BY <1>17, <2>1, DropKeepsOwnership
          DEF RemoveDiscarded, BackendRemove, Placement
<1>18. ASSUME NEW id \in Ids, RemoveByID(id) PROVE OwnerInv'
  BY <1>18 DEF RemoveByID, TypeOK, Placement, WaitersWait, SingleOwner
<1>19. CASE ReapDiscard
  BY <1>19 DEF ReapDiscard, FreeSlot, TypeOK, Placement, WaitersWait, SingleOwner
<1>20. CASE ReapRemove
  BY <1>20 DEF ReapRemove, BackendRemove, TypeOK, Placement, WaitersWait, SingleOwner
<1>21. CASE CloseMark
  BY <1>21 DEF CloseMark, TypeOK, Placement, WaitersWait, SingleOwner
<1>22. CASE CloseSignal
  <2>1. waitq' = <<>> /\ waitq' \in Seq(Clients) BY <1>22 DEF CloseSignal
  <2>2. TypeOK' BY <1>22, <2>1 DEF CloseSignal, TypeOK
  <2>3. Placement' BY <1>22 DEF CloseSignal, Placement, TypeOK
  <2>4. WaitersWait' BY <2>1 DEF WaitersWait, IsInjective
  <2>5. SingleOwner' BY <1>22 DEF CloseSignal, SingleOwner
  <2> QED BY <2>2, <2>3, <2>4, <2>5
<1>23. ASSUME NEW id \in Ids, CloseRemove(id) PROVE OwnerInv'
  BY <1>23 DEF CloseRemove, BackendRemove, TypeOK, Placement, WaitersWait, SingleOwner
<1>24. CASE UNCHANGED vars
  BY <1>24 DEF vars, TypeOK, Placement, WaitersWait, SingleOwner
<1> QED
  BY <1>1, <1>2, <1>3, <1>4, <1>5, <1>6, <1>7, <1>8, <1>9, <1>10, <1>11, <1>12,
     <1>13, <1>14, <1>15, <1>16, <1>17, <1>18, <1>19, <1>20, <1>21, <1>22, <1>23, <1>24
  DEF Next, New, Reaper, Close, Acquire, Release

\* The variables keep their types and the idle channel its capacity.
THEOREM TypeCorrect == Spec => []TypeOK
<1>1. OwnerInv => TypeOK BY DEF OwnerInv
<1> QED BY OwnerInvInit, OwnerInvStep, <1>1, PTL DEF Spec

\* A container has one owner: this is why Container.state and Container.jobs
\* need no lock (container.go), whatever is reaped, closed or failing.
THEOREM SingleOwnership == Spec => []SingleOwner
<1>1. OwnerInv => SingleOwner BY DEF OwnerInv
<1> QED BY OwnerInvInit, OwnerInvStep, <1>1, PTL DEF Spec

-----------------------------------------------------------------------------
(* A closed pool.                                                          *)

\* A client outside of the pool once Close has begun.
ShutOut(c) == Closed /\ pc[c] = "out"

\* Nothing lets it in again: it is not in the queue, which is served on.
LEMMA ShutOutStays ==
  ASSUME NEW c \in Clients, OwnerInv, ShutOut(c), [Next]_vars
  PROVE  ShutOut(c)'
<1> USE DEF OwnerInv, TypeOK, ShutOut, Closed
<1>1. Closed' BY DEF Next, vars, New, Warm, WarmFails, NewReturns, Reaper, Close, CloseMark, CloseSignal,
    CloseRemove, RemoveByID, ReapDiscard, ReapRemove, AcquireCheck, Acquire, AcquireFast, Reserve, Create,
    Start, Undo, Unreserve, Register, Select, WaitExpires, Release, ReleaseCheck, Park, Discard,
    RemoveDiscarded, closeVars
<1>2. pc'[c] = "out"
  <2>1. CASE UNCHANGED vars BY <2>1 DEF vars
  <2>2. CASE New \/ Reaper
    BY <2>2 DEF New, Warm, WarmFails, NewReturns, Reaper, RemoveByID, ReapDiscard, ReapRemove
  <2>3. CASE Close BY <2>3 DEF Close, CloseMark, CloseSignal, CloseRemove
  <2>4. ASSUME NEW d \in Clients, Acquire(d) \/ WaitExpires(d) \/ AcquireCheck(d) PROVE pc'[c] = "out"
    <3>1. CASE d = c
      BY <2>4, <3>1 DEF Acquire, AcquireCheck, AcquireFast, Reserve, Create, Start, Undo, Unreserve, Register,
                        Select, WaitExpires
    <3>2. CASE d # c
      BY <2>4, <3>2 DEF Acquire, AcquireCheck, AcquireFast, Reserve, Create, Start, Undo, Unreserve, Register,
                        Select, WaitExpires, TakeIdle, Goto
    <3> QED BY <3>1, <3>2
  <2>5. ASSUME NEW d \in Clients, Release(d) PROVE pc'[c] = "out"
    <3>1. CASE Park(d)
      <4>1. pc[d] = "park" BY <3>1 DEF Park
      <4>2. CASE waitq # <<>>
        <5>1. Head(waitq) = waitq[1] /\ 1 \in DOMAIN waitq BY <4>2
        <5>2. pc[Head(waitq)] = "wait" BY <5>1 DEF WaitersWait
        <5> QED BY <3>1, <4>1, <4>2, <5>2 DEF Park
      <4>3. CASE waitq = <<>> BY <3>1, <4>1, <4>3 DEF Park, Goto
      <4> QED BY <4>2, <4>3
    <3>2. CASE ~Park(d)
      BY <2>5, <3>2 DEF Release, ReleaseCheck, Discard, RemoveDiscarded, Goto
    <3> QED BY <3>1, <3>2
  <2> QED BY <2>1, <2>2, <2>3, <2>4, <2>5 DEF Next
<1> QED BY <1>1, <1>2

\* An Acquire that begins after Close returns no container.
THEOREM CloseIsFinal == Spec => ClosedIsFinal
<1>1. ASSUME NEW c \in Clients
      PROVE  Spec => [](Closed /\ pc[c] = "out" => [](pc[c] # "holding"))
  <2>1. OwnerInv /\ ShutOut(c) /\ [Next]_vars => ShutOut(c)' BY <1>1, ShutOutStays
  <2>2. ShutOut(c) => pc[c] # "holding" BY DEF ShutOut
  <2>3. Closed /\ pc[c] = "out" => ShutOut(c) BY DEF ShutOut
  <2> QED BY <2>1, <2>2, <2>3, OwnerInvInit, OwnerInvStep, PTL DEF Spec
<1> QED BY <1>1 DEF ClosedIsFinal

-----------------------------------------------------------------------------
(* The pool implements the lease discipline of Lease.tla: every step of    *)
(* it, whatever is created, recycled, reaped, closed or failing meanwhile, *)
(* is a step of the lease or leaves it alone.                              *)

InFlightAt == {"start", "register"}

-----------------------------------------------------------------------------
(* What the refinement mapping makes of the clients' positions.            *)

\* Steps in which no client comes to own a container or parts with one.
LEMMA LentKept ==
  ASSUME \A c \in Clients : IF pc[c] \in OwningAt
                              THEN pc'[c] \in OwningAt /\ ctr'[c] = ctr[c]
                              ELSE pc'[c] \notin OwningAt
  PROVE  Lent' = Lent
BY DEF Lent

\* Steps in which no creation begins or ends.
LEMMA InFlightKept ==
  ASSUME \A c \in Clients : IF pc[c] \in InFlightAt
                              THEN pc'[c] \in InFlightAt /\ ctr'[c] = ctr[c]
                              ELSE pc'[c] \notin InFlightAt
  PROVE  InFlight' = InFlight
BY DEF InFlight, ClientsAt, InFlightAt

\* Client c comes to own a container: the lease gives it to c.
LEMMA LentGive ==
  ASSUME NEW c \in Clients, NEW id, pc[c] \notin OwningAt, pc'[c] \in OwningAt, ctr'[c] = id,
         \A d \in Clients \ {c} : pc'[d] = pc[d] /\ ctr'[d] = ctr[d]
  PROVE  Lent[c] = None /\ Lent' = [Lent EXCEPT ![c] = id]
BY DEF Lent

\* Client c gives its container up: the lease takes it back.
LEMMA LentTakeBack ==
  ASSUME OwnerInv, NEW c \in Clients, pc[c] \in OwningAt, pc'[c] \notin OwningAt,
         \A d \in Clients \ {c} : pc'[d] = pc[d] /\ ctr'[d] = ctr[d]
  PROVE  Lent[c] = ctr[c] /\ Lent[c] # None /\ Lent' = [Lent EXCEPT ![c] = None]
BY ConfigAssumption DEF Lent, OwnerInv, TypeOK, Placement, HasCtrAt

-----------------------------------------------------------------------------
LEMMA LeaseInit == Init => L!Init
BY DEF Init, L!Init, Lent, InFlight, ClientsAt, OwningAt, ToSet

\* A receive from the channel lends its head.
LEMMA TakeIdleBorrows ==
  ASSUME OwnerInv, NEW c \in Clients, pc[c] \in {"fast", "select"}, TakeIdle(c), UNCHANGED used
  PROVE  L!Next
<1> USE DEF TakeIdle, Goto
<1>1. /\ Head(idle) \in Ids /\ Head(idle) \in ToSet(idle)
      /\ ToSet(idle') = ToSet(idle) \ {Head(idle)}
  BY TailFacts DEF OwnerInv, TypeOK, SingleOwner
<1>2. /\ pc' = [pc EXCEPT ![c] = "holding"] /\ ctr' = [ctr EXCEPT ![c] = Head(idle)]
      /\ pc \in [Clients -> ClientPC] /\ ctr \in [Clients -> Ids \cup {None}]
  BY DEF OwnerInv, TypeOK
<1>3. Lent[c] = None /\ Lent' = [Lent EXCEPT ![c] = Head(idle)]
  BY <1>2, LentGive DEF OwningAt
<1>4. InFlight' = InFlight BY <1>2, InFlightKept DEF InFlightAt
<1>5. L!Borrow(c, Head(idle)) BY <1>1, <1>3, <1>4 DEF L!Borrow, L!Give
<1> QED BY <1>1, <1>5 DEF L!Next

\* Steps that leave the lease alone.
LEMMA Stutters ==
  ASSUME Lent' = Lent, InFlight' = InFlight, UNCHANGED <<idle, used>>
  PROVE  UNCHANGED L!vars
BY DEF L!vars

\* Every step is a lease step or a stutter.
LEMMA LeaseStep == OwnerInv /\ [Next]_vars => [L!Next]_(L!vars)
<1> SUFFICES ASSUME OwnerInv, [Next]_vars PROVE [L!Next]_(L!vars) OBVIOUS
<1> USE DEF Goto, chanVars, poolVars, closeVars, reapVars, backVars
<1>0. /\ pc \in [Clients -> ClientPC] /\ ctr \in [Clients -> Ids \cup {None}]
      /\ idle \in Seq(Ids) /\ used \subseteq Ids
  BY DEF OwnerInv, TypeOK
<1>1. CASE Warm
  <2>1. PICK id \in Fresh : /\ used' = used \cup {id} /\ idle' = Append(idle, id)
    BY <1>1 DEF Warm
  <2>2. ToSet(idle') = ToSet(idle) \cup {id} BY <1>0, <2>1, AppendFacts DEF Fresh
  <2>3. Lent' = Lent /\ InFlight' = InFlight
    BY <1>1 DEF Warm, Lent, InFlight, ClientsAt
  <2>4. id \notin InFlight /\ id \in Ids \ used
    BY <2>1 DEF Fresh, InFlight, ClientsAt, OwnerInv, Placement, HasCtrAt
  <2>5. L!Stock(id) BY <2>1, <2>2, <2>3, <2>4 DEF L!Stock
  <2> QED BY <2>4, <2>5 DEF L!Next
<1>2. CASE WarmFails
  <2>1. Lent' = Lent /\ InFlight' = InFlight /\ UNCHANGED idle
    BY <1>2 DEF WarmFails, Lent, InFlight, ClientsAt
  <2>2. CASE UNCHANGED used BY <2>1, <2>2, Stutters
  <2>3. CASE \E id \in Fresh : used' = used \cup {id}
    <3>1. PICK id \in Fresh : used' = used \cup {id} BY <2>3
    <3>2. id \notin InFlight /\ id \in Ids \ used
      BY <3>1 DEF Fresh, InFlight, ClientsAt, OwnerInv, Placement, HasCtrAt
    <3>3. L!Spoil(id) BY <2>1, <3>1, <3>2 DEF L!Spoil
    <3> QED BY <3>2, <3>3 DEF L!Next
  <2> QED BY <1>2, <2>2, <2>3 DEF WarmFails
<1>3. CASE NewReturns
  BY <1>3, Stutters DEF NewReturns, Lent, InFlight, ClientsAt
<1>4. ASSUME NEW c \in Clients, AcquireCheck(c) \/ Reserve(c) \/ Undo(c) \/ Unreserve(c)
                                  \/ WaitExpires(c) \/ RemoveDiscarded(c)
      PROVE  UNCHANGED L!vars
  <2>1. /\ pc[c] \notin OwningAt \cup InFlightAt /\ pc'[c] \notin OwningAt \cup InFlightAt
        /\ \A d \in Clients \ {c} : pc'[d] = pc[d] /\ ctr'[d] = ctr[d]
        /\ UNCHANGED <<idle, used>>
    BY <1>0, <1>4 DEF AcquireCheck, Reserve, Undo, Unreserve, WaitExpires, RemoveDiscarded,
                      BackendRemove, OwningAt, InFlightAt
  <2>2. Lent' = Lent BY <2>1, LentKept
  <2>3. InFlight' = InFlight BY <2>1, InFlightKept
  <2> QED BY <2>1, <2>2, <2>3, Stutters
<1>5. ASSUME NEW c \in Clients, AcquireFast(c) \/ Select(c) PROVE [L!Next]_(L!vars)
  <2>1. pc[c] \in {"fast", "select"} /\ UNCHANGED used BY <1>5 DEF AcquireFast, Select
  <2>2. CASE TakeIdle(c) BY <2>1, <2>2, TakeIdleBorrows
  <2>3. CASE ~TakeIdle(c)
    <3>1. /\ pc'[c] \in {"reserve", "out", "wait"} /\ UNCHANGED <<ctr, idle>>
          /\ \A d \in Clients \ {c} : pc'[d] = pc[d]
      BY <1>0, <1>5, <2>3 DEF AcquireFast, Select
    <3>2. Lent' = Lent BY <2>1, <3>1, LentKept DEF OwningAt
    <3>3. InFlight' = InFlight BY <2>1, <3>1, InFlightKept DEF InFlightAt
    <3> QED BY <2>1, <3>1, <3>2, <3>3, Stutters
  <2> QED BY <2>2, <2>3
<1>6. ASSUME NEW c \in Clients, Create(c) PROVE UNCHANGED L!vars
  <2>1. pc[c] = "create" /\ UNCHANGED idle BY <1>6 DEF Create
  <2>2. CASE \E id \in Fresh : /\ used' = used \cup {id} /\ ctr' = [ctr EXCEPT ![c] = id]
                               /\ Goto(c, "start")
    <3>1. PICK id \in Fresh : /\ used' = used \cup {id} /\ ctr' = [ctr EXCEPT ![c] = id]
      BY <2>2
    <3>2. InFlight' = InFlight \cup {id} BY <1>0, <2>1, <2>2, <3>1 DEF InFlight, ClientsAt
    <3>3. Lent' = Lent BY <1>0, <2>1, <2>2, <3>1, LentKept DEF OwningAt
    <3> QED BY <2>1, <3>1, <3>2, <3>3 DEF L!vars, Fresh
  <2>3. CASE Goto(c, "unreserve") /\ UNCHANGED <<ctr, used>>
    <3>1. Lent' = Lent BY <1>0, <2>1, <2>3, LentKept DEF OwningAt
    <3>2. InFlight' = InFlight BY <1>0, <2>1, <2>3, InFlightKept DEF InFlightAt
    <3> QED BY <2>1, <2>3, <3>1, <3>2, Stutters
  <2> QED BY <1>6, <2>2, <2>3 DEF Create
<1>7. ASSUME NEW c \in Clients, Start(c) \/ Register(c) PROVE [L!Next]_(L!vars)
  <2>1. /\ pc[c] \in InFlightAt /\ UNCHANGED <<ctr, idle, used>>
        /\ \A d \in Clients \ {c} : pc'[d] = pc[d]
    BY <1>0, <1>7 DEF Start, Register, InFlightAt
  <2>2. CASE pc'[c] = "register" /\ pc[c] = "start"
    <3>1. Lent' = Lent BY <2>1, <2>2, LentKept DEF OwningAt
    <3>2. InFlight' = InFlight BY <2>1, <2>2, InFlightKept DEF InFlightAt
    <3> QED BY <2>1, <3>1, <3>2, Stutters
  <2>3. ASSUME pc'[c] \in {"undo", "holding"}
        PROVE  /\ InFlight' = InFlight \ {ctr[c]} /\ ctr[c] \in InFlight
               /\ ctr[c] \in used /\ ctr[c] \in Ids
    <3>1. ctr[c] \in used BY <2>1 DEF InFlightAt, OwnerInv, Placement, HasCtrAt
    <3>2. ctr[c] # None BY <1>0, <3>1, ConfigAssumption
    <3>3. \A d \in Clients \ {c} : ctr[d] # ctr[c] BY <3>2 DEF OwnerInv, SingleOwner
    <3> QED BY <1>0, <2>1, <2>3, <3>1, <3>3 DEF InFlight, ClientsAt, InFlightAt
  <2>4. CASE pc'[c] = "undo"
    <3>1. Lent' = Lent BY <2>1, <2>4, LentKept DEF OwningAt, InFlightAt
    <3>2. L!Spoil(ctr[c]) BY <2>1, <2>3, <2>4, <3>1 DEF L!Spoil
    <3> QED BY <2>3, <2>4, <3>2 DEF L!Next
  <2>5. CASE pc'[c] = "holding"
    <3>1. Lent[c] = None /\ Lent' = [Lent EXCEPT ![c] = ctr[c]]
      BY <2>1, <2>5, LentGive DEF OwningAt, InFlightAt
    <3>2. L!Supply(c, ctr[c]) BY <2>1, <2>3, <2>5, <3>1 DEF L!Supply, L!Give
    <3> QED BY <2>3, <2>5, <3>2 DEF L!Next
  <2> QED BY <1>0, <1>7, <2>2, <2>4, <2>5 DEF Start, Register
<1>8. ASSUME NEW c \in Clients, ReleaseCheck(c) \/ Discard(c) PROVE [L!Next]_(L!vars)
  <2>1. /\ pc[c] \in {"holding", "discard"} /\ UNCHANGED <<idle, used>>
        /\ \A d \in Clients \ {c} : pc'[d] = pc[d] /\ ctr'[d] = ctr[d]
        /\ \/ pc'[c] \in {"discard", "park"} /\ ctr'[c] = ctr[c]
           \/ pc'[c] \in {"out", "remove"}
    BY <1>0, <1>8 DEF ReleaseCheck, Discard
  <2>2. InFlight' = InFlight BY <2>1, InFlightKept DEF InFlightAt
  <2>3. CASE pc'[c] \in {"discard", "park"} /\ ctr'[c] = ctr[c]
    <3>1. Lent' = Lent BY <2>1, <2>3, LentKept DEF OwningAt
    <3> QED BY <2>1, <2>2, <3>1, Stutters
  <2>4. CASE pc'[c] \in {"out", "remove"}
    <3>1. Lent[c] # None /\ Lent' = [Lent EXCEPT ![c] = None]
      BY <2>1, <2>4, LentTakeBack DEF OwningAt
    <3>2. L!Retire(c) BY <2>1, <2>2, <3>1 DEF L!Retire, L!TakeBack
    <3> QED BY <3>2 DEF L!Next
  <2> QED BY <2>1, <2>3, <2>4
<1>9. ASSUME NEW c \in Clients, Park(c) PROVE [L!Next]_(L!vars)
  <2>1. /\ pc[c] = "park" /\ UNCHANGED used
        /\ ctr[c] \in Ids
    BY <1>0, <1>9 DEF Park, OwnerInv, Placement, HasCtrAt, OwningAt
  <2>2. CASE waitq # <<>>
    <3> DEFINE w == Head(waitq)
    <3>1. w \in Clients /\ pc[w] = "wait" /\ w # c
      BY <2>1, <2>2 DEF OwnerInv, TypeOK, WaitersWait
    <3>2. /\ pc' = [pc EXCEPT ![c] = "out", ![w] = "holding"]
          /\ ctr' = [ctr EXCEPT ![c] = None, ![w] = ctr[c]] /\ UNCHANGED idle
      BY <1>9, <2>2 DEF Park
    <3> HIDE DEF w
    <3>3. InFlight' = InFlight BY <1>0, <2>1, <3>1, <3>2, InFlightKept DEF InFlightAt
    <3>4. Lent[c] = ctr[c] /\ Lent[w] = None /\ ctr[c] # None
      BY <2>1, <3>1, ConfigAssumption DEF Lent, OwningAt
    <3>5. Lent' = [Lent EXCEPT ![c] = None, ![w] = Lent[c]]
      BY <1>0, <2>1, <3>1, <3>2, <3>4 DEF Lent, OwningAt
    <3>6. L!PassOn(c, w) BY <2>1, <3>1, <3>2, <3>3, <3>4, <3>5 DEF L!PassOn
    <3> QED BY <3>1, <3>6 DEF L!Next
  <2>3. CASE waitq = <<>>
    <3>1. \A d \in Clients \ {c} : pc'[d] = pc[d] /\ ctr'[d] = ctr[d]
      BY <1>0, <1>9, <2>3 DEF Park
    <3>2. pc'[c] \in {"out", "discard"} BY <1>0, <1>9, <2>3 DEF Park
    <3>3. InFlight' = InFlight BY <2>1, <3>1, <3>2, InFlightKept DEF InFlightAt
    <3>4. CASE pc'[c] = "out"
      <4>1. idle' = Append(idle, ctr[c]) BY <1>0, <1>9, <2>3, <3>4 DEF Park
      <4>2. ToSet(idle') = ToSet(idle) \cup {ctr[c]} BY <1>0, <2>1, <4>1, AppendFacts
      <4>3. Lent[c] = ctr[c] /\ Lent[c] # None /\ Lent' = [Lent EXCEPT ![c] = None]
        BY <2>1, <3>1, <3>4, LentTakeBack DEF OwningAt
      <4>4. L!Return(c) BY <2>1, <3>3, <4>2, <4>3 DEF L!Return, L!TakeBack
      <4> QED BY <4>4 DEF L!Next
    <3>5. CASE pc'[c] = "discard"
      <4>1. UNCHANGED <<ctr, idle>> BY <1>0, <1>9, <2>3, <3>5 DEF Park
      <4>2. Lent' = Lent BY <2>1, <3>1, <3>5, <4>1, LentKept DEF OwningAt
      <4> QED BY <2>1, <3>3, <4>1, <4>2, Stutters
    <3> QED BY <3>2, <3>4, <3>5
  <2> QED BY <2>2, <2>3
<1>10. CASE Reaper \/ Close
  <2>1. UNCHANGED <<ctr, idle, used>>
    BY <1>10 DEF Reaper, RemoveByID, ReapDiscard, ReapRemove, Close, CloseMark, CloseSignal,
                 CloseRemove, BackendRemove
  <2>2. \A c \in Clients : pc'[c] = pc[c] \/ (pc[c] = "wait" /\ pc'[c] = "out")
    BY <1>10 DEF Reaper, RemoveByID, ReapDiscard, ReapRemove, Close, CloseMark, CloseSignal,
                 CloseRemove
  <2>3. Lent' = Lent BY <2>1, <2>2, LentKept DEF OwningAt
  <2>4. InFlight' = InFlight BY <2>1, <2>2, InFlightKept DEF InFlightAt
  <2> QED BY <2>1, <2>3, <2>4, Stutters
<1>11. CASE UNCHANGED vars
  BY <1>11, Stutters DEF vars, Lent, InFlight, ClientsAt
<1> QED BY <1>1, <1>2, <1>3, <1>4, <1>5, <1>6, <1>7, <1>8, <1>9, <1>10, <1>11
        DEF Next, New, Acquire, Release

\* The pool implements the lease: a container is lent to one client at a time and
\* never again after it was given up (Acquire, Release).
THEOREM Refinement == Spec => ImplementsLease
<1> QED BY OwnerInvInit, OwnerInvStep, LeaseInit, LeaseStep, PTL DEF Spec, ImplementsLease, L!Spec

-----------------------------------------------------------------------------
(***************************************************************************)
(* What the pool counts: jobs per container, containers not forgotten,     *)
(* slots taken.  Each of these invariants is inductive relative to the     *)
(* ownership invariant above.                                              *)
(***************************************************************************)

(* Recycling.                                                              *)

\* A container that may still be handed out or parked has jobs left, and one
\* that has not been handed out yet has run none.
JobsLeft ==
  MaxJobs > 0 =>
    /\ \A c \in Clients : pc[c] \in {"holding", "park"} => jobs[ctr[c]] < MaxJobs
    /\ \A id \in ToSet(idle) : jobs[id] < MaxJobs
    /\ \A id \in Ids \ used : jobs[id] = 0
    /\ \A c \in Clients : pc[c] \in {"start", "register"} => jobs[ctr[c]] = 0

\* No container has run a job when New starts.
LEMMA JobsLeftInit == Init => JobsLeft
BY ConfigAssumption DEF Init, JobsLeft, ToSet

\* The job is counted before the container is parked, and single ownership makes
\* the count of every other container stay what it was.
LEMMA JobsLeftStep == OwnerInv /\ JobsLeft /\ [Next]_vars => JobsLeft'
<1> SUFFICES ASSUME OwnerInv, JobsLeft, [Next]_vars, MaxJobs > 0 PROVE JobsLeft'
  BY DEF JobsLeft
<1> USE ConfigAssumption DEF OwnerInv, TypeOK, JobsLeft, Goto, HasCtrAt, OwningAt, ReservingAt,
      chanVars, poolVars, closeVars, reapVars, backVars
<1>0. used \subseteq used'
  BY DEF Next, New, Warm, WarmFails, NewReturns, Acquire, AcquireFast, Reserve, Create,
         Start, Undo, Unreserve, Register, Select, Release, ReleaseCheck, Park, Discard,
         RemoveDiscarded, Reaper, RemoveByID, ReapDiscard, ReapRemove, Close, CloseMark,
         CloseSignal, CloseRemove, BackendRemove, AcquireCheck, WaitExpires, vars
<1>1. CASE Warm
  <2>1. PICK id \in Fresh : idle' = Append(idle, id) /\ used' = used \cup {id}
    BY <1>1 DEF Warm
  <2>2. ToSet(idle') = ToSet(idle) \cup {id} BY <2>1, AppendFacts DEF Fresh
  <2> QED BY <1>1, <2>1, <2>2 DEF Warm, Fresh
<1>2. CASE WarmFails \/ NewReturns BY <1>2, <1>0 DEF WarmFails, NewReturns
<1>3. ASSUME NEW c \in Clients, TakeIdle(c), UNCHANGED <<jobs, used>> PROVE JobsLeft'
  <2>1. ToSet(idle) = ToSet(idle') \cup {Head(idle)} BY <1>3, TailFacts DEF TakeIdle
  <2> QED BY <1>3, <2>1 DEF TakeIdle
<1>4. ASSUME NEW c \in Clients, AcquireCheck(c) \/ AcquireFast(c) \/ Reserve(c)
                                  \/ Start(c) \/ Undo(c) \/ Unreserve(c) \/ Select(c)
                                  \/ WaitExpires(c) \/ Discard(c) \/ RemoveDiscarded(c)
      PROVE  JobsLeft'
  <2>1. UNCHANGED <<jobs>> /\ (TakeIdle(c) \/ UNCHANGED <<idle>>)
    BY <1>4 DEF AcquireCheck, AcquireFast, Reserve, Start, Undo, Unreserve, Select,
                WaitExpires, Discard, RemoveDiscarded
  <2>2. UNCHANGED used
    BY <1>4 DEF AcquireCheck, AcquireFast, Reserve, Start, Undo, Unreserve, Select,
                WaitExpires, Discard, RemoveDiscarded, BackendRemove
  <2>3. CASE TakeIdle(c) BY <1>3, <2>1, <2>2, <2>3
  <2>4. CASE ~TakeIdle(c)
    <3>1. PICK p : pc' = [pc EXCEPT ![c] = p]
                   /\ (p \notin {"holding", "park", "start"})
                   /\ (p = "register" => pc[c] = "start")
                   /\ (UNCHANGED ctr \/ (ctr' = [ctr EXCEPT ![c] = None]
                                          /\ p \notin {"start", "register"}))
      BY <1>4, <2>4 DEF AcquireCheck, AcquireFast, Reserve, Start, Undo, Unreserve, Select,
                WaitExpires, Discard, RemoveDiscarded
    <3> QED BY <2>1, <2>2, <2>4, <3>1
  <2> QED BY <2>3, <2>4
<1>5. ASSUME NEW c \in Clients, Create(c) PROVE JobsLeft'
  BY <1>5, <1>0 DEF Create, Fresh
<1>6. ASSUME NEW c \in Clients, Register(c) PROVE JobsLeft' BY <1>6 DEF Register
<1>7. ASSUME NEW c \in Clients, ReleaseCheck(c) PROVE JobsLeft'
  <2> DEFINE id == ctr[c]
  <2>1. id \in Ids /\ id \in used BY <1>7 DEF ReleaseCheck, Placement
  <2>2. /\ \A d \in Clients : d # c => ctr[d] # id
        /\ id \notin ToSet(idle)
    BY <2>1 DEF SingleOwner
  <2>3. /\ \A x \in Ids : x # id => jobs'[x] = jobs[x]
        /\ jobs'[id] = JobDone(id)
    BY <1>7, <2>1 DEF ReleaseCheck
  <2>4. UNCHANGED <<idle, used>> BY <1>7 DEF ReleaseCheck
  <2>5. ASSUME NEW d \in Clients, d # c
        PROVE  /\ pc'[d] = pc[d] /\ ctr'[d] = ctr[d] /\ ctr[d] # id
    BY <1>7, <2>2, <2>5 DEF ReleaseCheck
  <2>6. \/ pc'[c] = "out" \/ pc'[c] = "discard"
        \/ pc'[c] = "park" /\ ctr'[c] = id /\ JobDone(id) < MaxJobs
    <3>1. JobDone(id) \in Nat BY <2>1 DEF JobDone
    <3> QED BY <1>7, <3>1 DEF ReleaseCheck, MustDiscard, LimitReached
  <2>7. \A x \in ToSet(idle) : x \in Ids BY DEF ToSet
  <2>8. ASSUME NEW d \in Clients, pc'[d] \in {"holding", "park"}
        PROVE  jobs'[ctr'[d]] < MaxJobs
    <3>1. CASE d = c BY <3>1, <2>3, <2>6, <2>8
    <3>2. CASE d # c
      <4>1. ctr[d] \in Ids BY <2>5, <2>8, <3>2 DEF Placement
      <4> QED BY <4>1, <2>5, <2>8, <2>3, <3>2
    <3> QED BY <3>1, <3>2
  <2>9. ASSUME NEW d \in Clients, pc'[d] \in {"start", "register"}
        PROVE  jobs'[ctr'[d]] = 0
    <3>1. d # c BY <2>6, <2>9
    <3>2. ctr[d] \in Ids BY <2>5, <2>9, <3>1 DEF Placement
    <3> QED BY <3>1, <3>2, <2>5, <2>9, <2>3
  <2> QED BY <2>1, <2>2, <2>3, <2>4, <2>7, <2>8, <2>9
<1>8. ASSUME NEW c \in Clients, Park(c) PROVE JobsLeft'
  <2>1. pc[c] = "park" /\ ctr[c] \in Ids /\ jobs[ctr[c]] < MaxJobs /\ UNCHANGED <<jobs, used>>
    BY <1>8 DEF Park, Placement
  <2>2. CASE waitq # <<>>
    <3>1. Head(waitq) \in Clients BY <2>2
    <3>2. Head(waitq) # c BY <1>8, <2>1, <2>2 DEF WaitersWait
    <3> QED BY <1>8, <2>1, <2>2, <3>1, <3>2 DEF Park
  <2>3. CASE waitq = <<>> /\ HasRoom
    <3>1. idle' = Append(idle, ctr[c]) BY <1>8, <2>3 DEF Park
    <3>2. ToSet(idle') = ToSet(idle) \cup {ctr[c]} BY <2>1, <3>1, AppendFacts
    <3> QED BY <1>8, <2>1, <2>3, <3>2 DEF Park
  <2>4. CASE waitq = <<>> /\ ~HasRoom BY <1>8, <2>1, <2>4 DEF Park
  <2> QED BY <2>2, <2>3, <2>4
<1>9. CASE Reaper \/ Close
  <2>1. UNCHANGED <<jobs, ctr, idle, used>>
    BY <1>9 DEF Reaper, RemoveByID, ReapDiscard, ReapRemove, Close, CloseMark, CloseSignal,
                CloseRemove, BackendRemove
  <2>2. \A c \in Clients : pc'[c] = pc[c] \/ pc'[c] = "out"
    BY <1>9 DEF Reaper, RemoveByID, ReapDiscard, ReapRemove, Close, CloseMark, CloseSignal,
                CloseRemove
  <2> QED BY <2>1, <2>2
<1>10. CASE UNCHANGED vars BY <1>10 DEF vars
<1> QED BY <1>1, <1>2, <1>4, <1>5, <1>6, <1>7, <1>8, <1>9, <1>10
        DEF Next, New, Acquire, Release

\* A container is never handed out for more jobs than Config.MaxJobsPerContainer,
\* although it may change hands through the channel (Release, Acquire).
THEOREM Recycling == Spec => []RecycleLimit
<1>1. JobsLeft => RecycleLimit BY DEF JobsLeft, RecycleLimit
<1> QED BY OwnerInvInit, OwnerInvStep, JobsLeftInit, JobsLeftStep, <1>1, PTL DEF Spec

-----------------------------------------------------------------------------
(* Containers not forgotten.                                               *)

\* Positions at which a client has a container that is not registered.
InTransitAt == {"start", "register", "undo", "remove"}
InTransit == {ctr[c] : c \in ClientsAt(InTransitAt)}

\* Close's snapshot is taken when the pool is marked closed, not before.
Accounted == NoLeak /\ (Closed \/ closing = {})

\* A step that leaves every client with a container in transit where it is.
LEMMA InTransitKept ==
  ASSUME \A c \in Clients : pc[c] \in InTransitAt =>
           pc'[c] \in InTransitAt /\ ctr'[c] = ctr[c]
  PROVE  InTransit \subseteq InTransit'
BY DEF InTransit, ClientsAt

\* A step that neither creates nor forgets anything.
LEMMA QuietKeepsAccounted ==
  ASSUME Accounted, InTransit \subseteq InTransit',
         UNCHANGED <<all, closeVars, reapVars, live, leaked>>
  PROVE  Accounted'
BY DEF Accounted, NoLeak, InTransit, InTransitAt, Closed, closeVars, reapVars

\* Whatever leaves the registry is on its way out or has been removed.
LEMMA AccountedStep == OwnerInv /\ Accounted /\ [Next]_vars => Accounted'
<1> SUFFICES ASSUME OwnerInv, Accounted, [Next]_vars PROVE Accounted' OBVIOUS
<1> USE DEF OwnerInv, TypeOK, Goto, OwningAt, ReservingAt, InTransitAt,
      ClientPC, chanVars, poolVars, closeVars, reapVars, backVars
<1>1. CASE New
  <2>1. InTransit \subseteq InTransit'
    BY <1>1, InTransitKept DEF New, Warm, WarmFails, NewReturns
  <2> QED BY <1>1, <2>1 DEF New, Warm, WarmFails, NewReturns, Accounted, NoLeak, InTransit, Closed
<1>2. ASSUME NEW c \in Clients, AcquireCheck(c) \/ AcquireFast(c) \/ Reserve(c)
                                  \/ Start(c) \/ Unreserve(c) \/ Select(c) \/ WaitExpires(c)
      PROVE  Accounted'
  <2>1. /\ UNCHANGED <<all, closeVars, reapVars, live, leaked>>
        /\ pc[c] # "start" => pc[c] \notin InTransitAt
        /\ pc[c] = "start" => pc'[c] \in InTransitAt /\ ctr' = ctr
        /\ \A d \in Clients \ {c} : pc'[d] = pc[d] /\ ctr'[d] = ctr[d]
    BY <1>2 DEF AcquireCheck, AcquireFast, TakeIdle, Reserve, Start, Unreserve, Select, WaitExpires
  <2>2. InTransit \subseteq InTransit' BY <2>1, InTransitKept
  <2> QED BY <2>1, <2>2, QuietKeepsAccounted
<1>3. ASSUME NEW c \in Clients, Create(c) PROVE Accounted'
  <2>1. InTransit \subseteq InTransit' BY <1>3, InTransitKept DEF Create
  <2>2. live' \ live \subseteq InTransit' BY <1>3 DEF Create, InTransit, ClientsAt
  <2> QED BY <1>3, <2>1, <2>2 DEF Create, Accounted, NoLeak, InTransit, Closed
<1>4. ASSUME NEW c \in Clients, Undo(c) \/ RemoveDiscarded(c) PROVE Accounted'
  <2>1. InTransit \subseteq InTransit' \cup {ctr[c]}
    <3>1. \A d \in Clients \ {c} : pc'[d] = pc[d] /\ ctr'[d] = ctr[d]
      BY <1>4 DEF Undo, RemoveDiscarded
    <3> QED BY <3>1 DEF InTransit, ClientsAt
  <2>2. \/ live' = live \ {ctr[c]} /\ leaked' = leaked \ {ctr[c]}
        \/ live' = live /\ leaked' = leaked \cup ({ctr[c]} \cap live)
    BY <1>4 DEF Undo, RemoveDiscarded, BackendRemove
  <2>3. UNCHANGED <<all, closing, cpc, rpc, rctr>> BY <1>4 DEF Undo, RemoveDiscarded
  <2> QED BY <2>1, <2>2, <2>3 DEF Accounted, NoLeak, InTransit, Closed
<1>5. ASSUME NEW c \in Clients, Register(c) PROVE Accounted'
  <2>1. InTransit \subseteq InTransit' \cup {ctr[c]}
    BY <1>5 DEF Register, InTransit, ClientsAt
  <2> QED BY <1>5, <2>1 DEF Register, Accounted, NoLeak, InTransit, Closed
<1>6. ASSUME NEW c \in Clients, ReleaseCheck(c) PROVE Accounted'
  <2>1. /\ UNCHANGED <<all, closeVars, reapVars, live, leaked>> /\ pc[c] = "holding"
        /\ \A d \in Clients \ {c} : pc'[d] = pc[d] /\ ctr'[d] = ctr[d]
    BY <1>6 DEF ReleaseCheck
  <2>2. InTransit \subseteq InTransit' BY <2>1, InTransitKept
  <2> QED BY <2>1, <2>2, QuietKeepsAccounted
<1>7. ASSUME NEW c \in Clients, Park(c) PROVE Accounted'
  <2>1. CASE waitq # <<>>
    <3>1. Head(waitq) \in Clients /\ pc[Head(waitq)] = "wait"
      BY <2>1 DEF WaitersWait
    <3>2. \A d \in Clients \ {c, Head(waitq)} : pc'[d] = pc[d] /\ ctr'[d] = ctr[d]
      BY <1>7, <2>1 DEF Park
    <3>3. InTransit \subseteq InTransit'
      BY <1>7, <3>1, <3>2, InTransitKept DEF Park
    <3> QED BY <1>7, <3>3, QuietKeepsAccounted DEF Park
  <2>2. CASE waitq = <<>>
    <3>1. pc[c] = "park" /\ \A d \in Clients \ {c} : pc'[d] = pc[d] /\ ctr'[d] = ctr[d]
      BY <1>7, <2>2 DEF Park
    <3>2. InTransit \subseteq InTransit' BY <3>1, InTransitKept
    <3> QED BY <1>7, <3>2, QuietKeepsAccounted DEF Park
  <2> QED BY <2>1, <2>2
<1>8. ASSUME NEW c \in Clients, Discard(c) PROVE Accounted'
  <2>1. InTransit' = InTransit \cup {ctr[c]}
    BY <1>8 DEF Discard, InTransit, ClientsAt
  <2> QED BY <1>8, <2>1 DEF Discard, FreeSlot, Accounted, NoLeak, InTransit, Closed
<1>9. CASE Reaper
  <2>1. InTransit \subseteq InTransit'
    BY <1>9, InTransitKept DEF Reaper, RemoveByID, ReapDiscard, ReapRemove
  <2> QED BY <1>9, <2>1 DEF Reaper, RemoveByID, ReapDiscard, FreeSlot, ReapRemove, BackendRemove,
                            Accounted, NoLeak, InTransit, Closed
<1>10. CASE Close
  <2>1. InTransit \subseteq InTransit'
    BY <1>10, InTransitKept DEF Close, CloseMark, CloseSignal, CloseRemove
  <2> QED BY <1>10, <2>1 DEF Close, CloseMark, CloseSignal, CloseRemove, BackendRemove,
                             Accounted, NoLeak, InTransit, Closed
<1>11. CASE UNCHANGED vars
  <2>1. InTransit \subseteq InTransit' BY <1>11, InTransitKept DEF vars
  <2> QED BY <1>11, <2>1, QuietKeepsAccounted DEF vars
<1> QED BY <1>1, <1>2, <1>3, <1>4, <1>5, <1>6, <1>7, <1>8, <1>9, <1>10, <1>11
        DEF Next, Acquire, Release

LEMMA AccountedInit == Init => Accounted BY DEF Init, Accounted, NoLeak

\* Every container that exists is registered, on its way in or out, or its
\* Remove failed (Acquire, discard and Close never drop one on an error path).
THEOREM NothingForgotten == Spec => []NoLeak
<1>1. Init => Accounted BY AccountedInit
<1>2. Accounted => NoLeak BY DEF Accounted
<1> QED BY OwnerInvInit, OwnerInvStep, <1>1, AccountedStep, <1>2, PTL DEF Spec

-----------------------------------------------------------------------------
(* Slots.                                                                  *)

Reserving == ClientsAt(ReservingAt)

\* p.count is the registered containers and the reserved slots.
Ledger ==
  ~Closed => /\ count = Cardinality(all) + Cardinality(ClientsAt(ReservingAt))
             /\ count <= MaxSize

\* The containers still being created are not registered; New runs alone.
LedgerInv ==
  /\ Ledger
  /\ IsFiniteSet(all)
  /\ \A c \in Clients : pc[c] \in {"start", "register", "undo"} => ctr[c] \notin all
  /\ boot = "warming" => /\ count = Len(idle) /\ ~Closed /\ rpc = "idle"
                         /\ \A c \in Clients : pc[c] = "out"

\* There are finitely many clients, so finitely many reserved slots.
LEMMA ReservingFinite == IsFiniteSet(Reserving)
<1>1. Reserving \subseteq Clients BY DEF Reserving, ClientsAt
<1> QED BY <1>1, ConfigAssumption, FS_Subset

\* A client that moves from one place to another adds itself to the reserved
\* slots, leaves them, or neither.
LEMMA ReservingMove ==
  ASSUME OwnerInv, NEW c \in Clients, NEW p, pc' = [pc EXCEPT ![c] = p]
  PROVE  /\ pc[c] \in ReservingAt <=> p \in ReservingAt => Reserving' = Reserving
         /\ pc[c] \notin ReservingAt /\ p \in ReservingAt =>
              /\ Reserving' = Reserving \cup {c} /\ c \notin Reserving
              /\ Cardinality(Reserving') = Cardinality(Reserving) + 1
         /\ pc[c] \in ReservingAt /\ p \notin ReservingAt =>
              /\ Reserving' = Reserving \ {c} /\ c \in Reserving
              /\ Cardinality(Reserving') = Cardinality(Reserving) - 1
<1> USE DEF OwnerInv, TypeOK
<1>1. ASSUME pc[c] \in ReservingAt <=> p \in ReservingAt PROVE Reserving' = Reserving
  BY <1>1 DEF Reserving, ClientsAt
<1>2. ASSUME pc[c] \notin ReservingAt, p \in ReservingAt
      PROVE  Reserving' = Reserving \cup {c} /\ c \notin Reserving
  BY <1>2 DEF Reserving, ClientsAt
<1>3. ASSUME pc[c] \in ReservingAt, p \notin ReservingAt
      PROVE  Reserving' = Reserving \ {c} /\ c \in Reserving
  BY <1>3 DEF Reserving, ClientsAt
<1>4. \A S : IsFiniteSet(S) => /\ c \notin S => Cardinality(S \cup {c}) = Cardinality(S) + 1
                               /\ c \in S => Cardinality(S \ {c}) = Cardinality(S) - 1
  BY FS_AddElement, FS_RemoveElement
<1> QED BY <1>1, <1>2, <1>3, <1>4, ReservingFinite

\* The same, for a client that leaves the reserved slots.
LEMMA LeavesReserving ==
  ASSUME OwnerInv, NEW c \in Clients, NEW p, pc' = [pc EXCEPT ![c] = p],
         pc[c] \in ReservingAt, p \notin ReservingAt
  PROVE  Cardinality(Reserving') = Cardinality(Reserving) - 1
BY ReservingMove

\* Freeing the slot of a container takes one from the ledger or nothing.
LEMMA FreeSlotLedger ==
  ASSUME OwnerInv, LedgerInv, NEW id \in Ids, FreeSlot(id), Reserving' = Reserving,
         UNCHANGED cpc, ~Closed
  PROVE  Ledger' /\ IsFiniteSet(all')
<1>1. CASE id \in all
  <2>1. Cardinality(all \ {id}) = Cardinality(all) - 1 /\ IsFiniteSet(all \ {id})
    BY <1>1, FS_RemoveElement DEF LedgerInv
  <2>2. Cardinality(Reserving') = Cardinality(Reserving) OBVIOUS
  <2>3. Cardinality(all) \in Nat /\ Cardinality(Reserving) \in Nat
    BY ReservingFinite, FS_CardinalityType DEF LedgerInv
  <2>4. /\ count = Cardinality(all) + Cardinality(Reserving) /\ count <= MaxSize
        /\ count' = count - 1 /\ all' = all \ {id} /\ count \in Int
    BY <1>1 DEF FreeSlot, LedgerInv, Ledger, Reserving, OwnerInv, TypeOK
  <2>5. /\ count' = Cardinality(all') + Cardinality(Reserving') /\ count' <= MaxSize
        /\ IsFiniteSet(all')
    BY <2>1, <2>2, <2>3, <2>4, ConfigAssumption
  <2> QED BY <2>5 DEF Ledger, Reserving
<1>2. CASE id \notin all
  BY <1>2 DEF FreeSlot, LedgerInv, Ledger, Closed, Reserving
<1> QED BY <1>1, <1>2

\* A step that takes no slot and frees none.
LEMMA SlotsKept ==
  ASSUME LedgerInv, Reserving' = Reserving, UNCHANGED <<all, count>>, Closed => Closed'
  PROVE  Ledger' /\ IsFiniteSet(all')
BY DEF LedgerInv, Ledger, Closed, Reserving

\* A container that is being created stays out of the registry until its own
\* client registers it.
LEMMA UnregisteredKept ==
  ASSUME OwnerInv, LedgerInv,
         \A c \in Clients : pc'[c] \in {"start", "register", "undo"} =>
           pc[c] \in {"start", "register", "undo"} /\ ctr'[c] = ctr[c],
         all' \subseteq all
  PROVE  \A c \in Clients : pc'[c] \in {"start", "register", "undo"} => ctr'[c] \notin all'
BY DEF LedgerInv

\* Every slot is counted when it is taken and given back once.
LEMMA LedgerStep == OwnerInv /\ LedgerInv /\ [Next]_vars => LedgerInv'
<1> SUFFICES ASSUME OwnerInv, LedgerInv, [Next]_vars PROVE LedgerInv' OBVIOUS
<1> USE ConfigAssumption DEF HasCtrAt, OwningAt, ReservingAt, Goto,
      chanVars, poolVars, closeVars, reapVars, backVars
<1> DEFINE Creating == {"start", "register", "undo"}
           Unregistered == \A c \in Clients : pc'[c] \in Creating => ctr'[c] \notin all'
           Slots == Ledger' /\ IsFiniteSet(all')
<1>0. ASSUME Slots, Unregistered, boot' # "warming" PROVE LedgerInv'
  BY <1>0 DEF LedgerInv
<1>1. CASE Warm
  <2>1. PICK id \in Fresh : all' = all \cup {id} /\ idle' = Append(idle, id)
    BY <1>1 DEF Warm
  <2>2. id \notin all /\ Len(idle') = Len(idle) + 1 /\ Len(idle) \in Nat
    BY <2>1 DEF Fresh, OwnerInv, Placement, TypeOK
  <2>3. Cardinality(all') = Cardinality(all) + 1 /\ IsFiniteSet(all')
    BY <2>1, <2>2, FS_AddElement DEF LedgerInv
  <2>4. Reserving' = Reserving BY <1>1 DEF Warm, Reserving, ClientsAt
  <2>5. /\ count = Len(idle) /\ ~Closed /\ rpc = "idle" /\ \A c \in Clients : pc[c] = "out"
        /\ count = Cardinality(all) + Cardinality(Reserving)
        /\ Cardinality(all) \in Nat /\ Cardinality(Reserving) \in Nat
    BY <1>1, ReservingFinite, FS_CardinalityType DEF Warm, LedgerInv, Ledger, Reserving
  <2>6. count' = Len(idle') /\ count' <= MaxSize
    BY <1>1, <2>2, <2>5 DEF Warm
  <2>7. Cardinality(Reserving') = Cardinality(Reserving) BY <2>4
  <2>8. count' = Cardinality(all') + Cardinality(Reserving')
    BY <1>1, <2>3, <2>5, <2>7 DEF Warm
  <2>9. Ledger' BY <2>6, <2>8 DEF Ledger, Reserving
  <2> QED BY <1>1, <2>3, <2>5, <2>6, <2>9 DEF Warm, LedgerInv, Closed
<1>2. CASE WarmFails \/ NewReturns
  <2>1. /\ Reserving' = Reserving /\ UNCHANGED <<pc, ctr, all, count, cpc>>
        /\ boot' \in {"failed", "ready"}
    BY <1>2 DEF WarmFails, NewReturns, Reserving, ClientsAt
  <2>2. Slots BY <2>1, SlotsKept DEF Closed
  <2>3. Unregistered BY <2>1, UnregisteredKept
  <2> QED BY <1>0, <2>1, <2>2, <2>3
<1>3. ASSUME NEW c \in Clients, AcquireCheck(c) \/ AcquireFast(c) \/ Start(c) \/ Undo(c)
                                  \/ Select(c) \/ WaitExpires(c) \/ ReleaseCheck(c)
                                  \/ RemoveDiscarded(c)
      PROVE  LedgerInv'
  <2>1. /\ pc[c] \in ReservingAt <=> pc'[c] \in ReservingAt
        /\ pc'[c] \in Creating => pc[c] \in Creating /\ ctr'[c] = ctr[c]
    <3> USE DEF OwnerInv, TypeOK
    <3>1. CASE AcquireCheck(c) BY <3>1 DEF AcquireCheck
    <3>2. CASE AcquireFast(c) BY <3>2 DEF AcquireFast, TakeIdle
    <3>3. CASE Start(c) BY <3>3 DEF Start
    <3>4. CASE Undo(c) BY <3>4 DEF Undo
    <3>5. CASE Select(c) BY <3>5 DEF Select, TakeIdle
    <3>6. CASE WaitExpires(c) BY <3>6 DEF WaitExpires
    <3>7. CASE ReleaseCheck(c) BY <3>7 DEF ReleaseCheck
    <3>8. CASE RemoveDiscarded(c) BY <3>8 DEF RemoveDiscarded
    <3> QED BY <1>3, <3>1, <3>2, <3>3, <3>4, <3>5, <3>6, <3>7, <3>8
  <2>2. /\ UNCHANGED <<boot, all, count, cpc>>
        /\ \A d \in Clients \ {c} : pc'[d] = pc[d] /\ ctr'[d] = ctr[d]
    BY <1>3 DEF AcquireCheck, AcquireFast, TakeIdle, Start, Undo, Select, WaitExpires,
                ReleaseCheck, RemoveDiscarded, OwnerInv, TypeOK
  <2>3. pc[c] # "out" \/ boot = "ready"
    BY <1>3 DEF AcquireCheck, AcquireFast, Start, Undo, Select, WaitExpires,
                ReleaseCheck, RemoveDiscarded
  <2>4. boot' # "warming" BY <2>2, <2>3 DEF LedgerInv
  <2>5. Reserving' = Reserving BY <2>1, <2>2 DEF Reserving, ClientsAt
  <2>6. Slots BY <2>2, <2>5, SlotsKept DEF Closed
  <2>7. Unregistered BY <2>1, <2>2, UnregisteredKept
  <2> QED BY <1>0, <2>4, <2>6, <2>7
<1>4. ASSUME NEW c \in Clients, Reserve(c) PROVE LedgerInv'
  <2>1. /\ pc[c] = "reserve" /\ boot' # "warming" /\ UNCHANGED <<ctr, all, cpc>>
        /\ \A d \in Clients \ {c} : pc'[d] = pc[d]
        /\ pc'[c] \notin Creating
    BY <1>4 DEF Reserve, LedgerInv, OwnerInv, TypeOK
  <2>2. Unregistered BY <2>1, UnregisteredKept
  <2>3. CASE ~Closed /\ ~AtCapacity /\ Goto(c, "create") /\ count' = count + 1
    <3>1. Cardinality(Reserving') = Cardinality(Reserving) + 1
      BY <2>1, <2>3, ReservingMove
    <3>2. Cardinality(all) \in Nat /\ Cardinality(Reserving) \in Nat /\ count \in Int
      BY ReservingFinite, FS_CardinalityType DEF LedgerInv, OwnerInv, TypeOK
    <3>3. count = Cardinality(all) + Cardinality(Reserving)
      BY <2>3 DEF LedgerInv, Ledger, Reserving
    <3>4. count' = Cardinality(all) + Cardinality(Reserving') /\ count' <= MaxSize
      BY <2>3, <3>1, <3>2, <3>3 DEF AtCapacity
    <3>5. Slots BY <2>1, <3>4 DEF Ledger, Reserving, LedgerInv
    <3> QED BY <1>0, <2>1, <2>2, <3>5
  <2>4. CASE \E p \in {"out", "select"} : Goto(c, p) /\ UNCHANGED count
    <3>1. Reserving' = Reserving BY <2>1, <2>4, ReservingMove
    <3>2. Slots BY <2>1, <2>4, <3>1, SlotsKept DEF Closed
    <3> QED BY <1>0, <2>1, <2>2, <3>2
  <2> QED BY <1>4, <2>3, <2>4 DEF Reserve
<1>5. ASSUME NEW c \in Clients, Create(c) PROVE LedgerInv'
  <2>1. PICK p \in {"start", "unreserve"} :
          /\ Goto(c, p)
          /\ IF p = "start" THEN \E id \in Fresh : ctr' = [ctr EXCEPT ![c] = id]
                            ELSE UNCHANGED ctr
    BY <1>5 DEF Create
  <2>2. pc[c] = "create" /\ boot' # "warming" /\ UNCHANGED <<all, count, cpc>>
    BY <1>5 DEF Create, LedgerInv
  <2>3. Reserving' = Reserving BY <2>1, <2>2, ReservingMove
  <2>4. Slots BY <2>2, <2>3, SlotsKept DEF Closed
  <2>5. Unregistered
    <3>1. \A d \in Clients \ {c} : pc'[d] = pc[d] /\ ctr'[d] = ctr[d]
      BY <2>1 DEF OwnerInv, TypeOK
    <3>2. pc'[c] \in Creating => ctr'[c] \notin all
      BY <2>1, <2>2 DEF OwnerInv, TypeOK, Placement, Fresh
    <3> QED BY <2>2, <3>1, <3>2 DEF LedgerInv
  <2> QED BY <1>0, <2>2, <2>4, <2>5
<1>6. ASSUME NEW c \in Clients, Unreserve(c) PROVE LedgerInv'
  <2>1. /\ pc[c] = "unreserve" /\ boot' # "warming" /\ UNCHANGED <<ctr, all, cpc>>
        /\ pc' = [pc EXCEPT ![c] = "out"] /\ count' = count - 1
    BY <1>6 DEF Unreserve, LedgerInv
  <2>2. Unregistered BY <2>1, UnregisteredKept DEF OwnerInv, TypeOK
  <2>3. Cardinality(Reserving') = Cardinality(Reserving) - 1 BY <2>1, LeavesReserving
  <2>4. Cardinality(all) \in Nat /\ Cardinality(Reserving) \in Nat /\ count \in Int
    BY ReservingFinite, FS_CardinalityType DEF LedgerInv, OwnerInv, TypeOK
  <2>5. ~Closed => count = Cardinality(all) + Cardinality(Reserving) /\ count <= MaxSize
    BY DEF LedgerInv, Ledger, Reserving
  <2>6. ~Closed => count' = Cardinality(all) + Cardinality(Reserving') /\ count' <= MaxSize
    BY <2>1, <2>3, <2>4, <2>5
  <2>7. Slots BY <2>1, <2>6 DEF Ledger, Reserving, LedgerInv, Closed
  <2> QED BY <1>0, <2>1, <2>2, <2>7
<1>7. ASSUME NEW c \in Clients, Register(c) PROVE LedgerInv'
  <2>1. /\ pc[c] = "register" /\ boot' # "warming" /\ UNCHANGED <<ctr, count, cpc>>
        /\ pc' = [pc EXCEPT ![c] = "holding"] /\ all' = all \cup {ctr[c]}
    BY <1>7 DEF Register, LedgerInv
  <2>2. ctr[c] \notin all BY <2>1 DEF LedgerInv
  <2>3. Unregistered
    <3>1. ASSUME NEW d \in Clients, pc'[d] \in Creating PROVE ctr'[d] \notin all'
      <4>1. d # c /\ pc[d] \in Creating BY <2>1, <3>1 DEF OwnerInv, TypeOK
      <4>2. ctr[d] # ctr[c] /\ ctr[d] \notin all
        BY <2>1, <4>1 DEF OwnerInv, SingleOwner, Placement, TypeOK, LedgerInv
      <4> QED BY <2>1, <4>2
    <3> QED BY <3>1
  <2>4. Cardinality(Reserving') = Cardinality(Reserving) - 1 BY <2>1, LeavesReserving
  <2>5. Cardinality(all') = Cardinality(all) + 1 /\ IsFiniteSet(all')
    BY <2>1, <2>2, FS_AddElement DEF LedgerInv
  <2>6. Cardinality(all) \in Nat /\ Cardinality(Reserving) \in Nat /\ count \in Int
    BY ReservingFinite, FS_CardinalityType DEF LedgerInv, OwnerInv, TypeOK
  <2>7. ~Closed => count = Cardinality(all) + Cardinality(Reserving) /\ count <= MaxSize
    BY DEF LedgerInv, Ledger, Reserving
  <2>8. ~Closed => count' = Cardinality(all') + Cardinality(Reserving') /\ count' <= MaxSize
    BY <2>1, <2>4, <2>5, <2>6, <2>7
  <2>9. Slots BY <2>1, <2>5, <2>8 DEF Ledger, Reserving, Closed
  <2> QED BY <1>0, <2>1, <2>3, <2>9
<1>8. ASSUME NEW c \in Clients, Park(c) PROVE LedgerInv'
  <2>1. UNCHANGED <<boot, all, count, cpc>> /\ boot # "warming"
    BY <1>8 DEF Park, LedgerInv
  <2>2. /\ waitq # <<>> => Head(waitq) \in Clients /\ pc[Head(waitq)] = "wait"
        /\ pc[c] = "park"
    BY <1>8 DEF Park, OwnerInv, TypeOK, WaitersWait
  <2>3. \A d \in Clients : /\ pc[d] \in ReservingAt <=> pc'[d] \in ReservingAt
                           /\ pc'[d] \in Creating => pc[d] \in Creating /\ ctr'[d] = ctr[d]
    <3> USE DEF OwnerInv, TypeOK
    <3>1. CASE waitq # <<>> BY <1>8, <2>2, <3>1 DEF Park
    <3>2. CASE waitq = <<>> BY <1>8, <2>2, <3>2 DEF Park
    <3> QED BY <3>1, <3>2
  <2>4. Reserving' = Reserving BY <2>3 DEF Reserving, ClientsAt
  <2>5. Slots BY <2>1, <2>4, SlotsKept DEF Closed
  <2>6. Unregistered BY <2>1, <2>3, UnregisteredKept
  <2> QED BY <1>0, <2>1, <2>5, <2>6
<1>9. ASSUME NEW id \in Ids, FreeSlot(id), UNCHANGED <<boot, ctr, cpc>>, boot # "warming",
             Reserving' = Reserving,
             \A c \in Clients : pc'[c] \in Creating => pc[c] \in Creating
      PROVE  LedgerInv'
  <2>1. Slots
    <3>1. CASE Closed
      <4>1. IsFiniteSet(all') BY <1>9, FS_Subset DEF FreeSlot, LedgerInv
      <4> QED BY <1>9, <3>1, <4>1 DEF Ledger, Closed
    <3>2. CASE ~Closed BY <1>9, <3>2, FreeSlotLedger
    <3> QED BY <3>1, <3>2
  <2>2. Unregistered BY <1>9, UnregisteredKept DEF FreeSlot
  <2> QED BY <1>0, <1>9, <2>1, <2>2
<1>10. ASSUME NEW c \in Clients, Discard(c) PROVE LedgerInv'
  <2>1. /\ pc[c] = "discard" /\ pc' = [pc EXCEPT ![c] = "remove"] /\ ctr[c] \in Ids
        /\ boot # "warming"
    BY <1>10 DEF Discard, OwnerInv, Placement, TypeOK, LedgerInv
  <2>2. Reserving' = Reserving BY <2>1, ReservingMove
  <2> QED BY <1>9, <1>10, <2>1, <2>2 DEF Discard, OwnerInv, TypeOK
<1>11. CASE \E id \in Ids : RemoveByID(id)
  <2>1. UNCHANGED <<pc, ctr, all, count, cpc>> /\ boot' # "warming"
    BY <1>11 DEF RemoveByID
  <2>2. Reserving' = Reserving BY <2>1 DEF Reserving, ClientsAt
  <2>3. Slots BY <2>1, <2>2, SlotsKept DEF Closed
  <2> QED BY <1>0, <2>1, <2>3, UnregisteredKept
<1>12. CASE ReapDiscard
  <2>1. UNCHANGED <<boot, pc, ctr, cpc>> /\ boot # "warming" /\ FreeSlot(rctr)
    BY <1>12 DEF ReapDiscard, LedgerInv
  <2>2. Reserving' = Reserving BY <2>1 DEF Reserving, ClientsAt
  <2>3. CASE rctr \in Ids BY <1>9, <2>1, <2>2, <2>3
  <2>4. CASE rctr \notin Ids
    <3>1. rctr \notin all BY <2>4 DEF OwnerInv, TypeOK
    <3>2. UNCHANGED <<all, count>> BY <2>1, <3>1 DEF FreeSlot
    <3>3. Slots BY <2>1, <2>2, <3>2, SlotsKept DEF Closed
    <3> QED BY <1>0, <2>1, <3>2, <3>3, UnregisteredKept
  <2> QED BY <2>3, <2>4
<1>13. CASE ReapRemove \/ CloseSignal \/ \E id \in Ids : CloseRemove(id)
  <2>1. /\ UNCHANGED <<boot, ctr, all, count>> /\ boot # "warming" /\ (Closed => Closed')
        /\ \A c \in Clients : pc'[c] = pc[c] \/ (pc[c] = "wait" /\ pc'[c] = "out")
    <3>1. CASE ReapRemove BY <1>13, <3>1 DEF ReapRemove, LedgerInv, Closed
    <3>2. CASE CloseSignal BY <1>13, <3>2 DEF CloseSignal, LedgerInv, Closed
    <3>3. CASE \E id \in Ids : CloseRemove(id) BY <3>3 DEF CloseRemove, LedgerInv, Closed
    <3> QED BY <1>13, <3>1, <3>2, <3>3
  <2>2. Reserving' = Reserving BY <2>1 DEF Reserving, ClientsAt
  <2>3. Slots BY <2>1, <2>2, SlotsKept
  <2> QED BY <1>0, <2>1, <2>3, UnregisteredKept
<1>14. CASE CloseMark
  <2>1. Slots BY <1>14, FS_EmptySet DEF CloseMark, Ledger, Closed
  <2> QED BY <1>0, <1>14, <2>1 DEF CloseMark
<1>15. CASE UNCHANGED vars
  BY <1>15 DEF vars, LedgerInv, Ledger, Closed, ClientsAt
<1> QED BY <1>1, <1>2, <1>3, <1>4, <1>5, <1>6, <1>7, <1>8, <1>10, <1>11, <1>12, <1>13,
           <1>14, <1>15 DEF Next, New, Acquire, Release, Reaper, Close

\* No slot is taken when New starts.
LEMMA LedgerInit == Init => LedgerInv
<1> SUFFICES ASSUME Init PROVE LedgerInv OBVIOUS
<1>1. ClientsAt(ReservingAt) = {} BY DEF Init, ClientsAt, ReservingAt
<1> QED BY <1>1, ConfigAssumption, FS_EmptySet DEF Init, LedgerInv, Ledger, Closed

\* p.count never passes Config.MaxSize and is the containers plus the slots
\* reserved for one, and MaxSize bounds the containers that exist but those given
\* up, whatever grows, fails, is recycled or reaped meanwhile.
THEOREM Capacity == Spec => []CapacityLedger
<1>1. ASSUME OwnerInv, LedgerInv, Accounted PROVE CapacityLedger
  <2> SUFFICES ASSUME ~Closed PROVE Ledger /\ Cardinality(live \ GivenUp) <= MaxSize
    BY DEF CapacityLedger, Ledger
  <2> DEFINE made == {ctr[c] : c \in Reserving}
             f == [c \in Reserving |-> ctr[c]]
  <2>1. Ledger /\ IsFiniteSet(all) BY <1>1 DEF LedgerInv
  <2>2. live \ GivenUp \subseteq all \cup made
    BY <1>1 DEF Accounted, NoLeak, GivenUp, ClientsAt, ReservingAt, Reserving
  <2>3. f \in Surjection(Reserving, made) BY DEF Surjection
  <2> HIDE DEF f, made
  <2>4. /\ IsFiniteSet(made) /\ Cardinality(made) <= Cardinality(Reserving)
        /\ Cardinality(Reserving) \in Nat
    BY <2>3, ReservingFinite, FS_Surjection, FS_CardinalityType
  <2>5. IsFiniteSet(all \cup made) BY <2>1, <2>4, FS_Union
  <2>6. Cardinality(live \ GivenUp) <= Cardinality(all \cup made)
    BY <2>2, <2>5, FS_Subset
  <2>7. Cardinality(all \cup made) <= Cardinality(all) + Cardinality(made)
    <3>1. Cardinality(all \cup made) =
            Cardinality(all) + Cardinality(made) - Cardinality(all \cap made)
      BY <2>1, <2>4, FS_Union
    <3>2. IsFiniteSet(all \cap made) BY <2>1, FS_Subset
    <3>3. /\ Cardinality(all \cap made) \in Nat
          /\ Cardinality(all) \in Nat /\ Cardinality(made) \in Nat
      BY <2>1, <2>4, <3>2, FS_CardinalityType
    <3> QED BY <3>1, <3>3
  <2>8. /\ Cardinality(live \ GivenUp) \in Nat /\ Cardinality(all \cup made) \in Nat
        /\ Cardinality(all) \in Nat /\ Cardinality(made) \in Nat
    <3>1. IsFiniteSet(live \ GivenUp) BY <2>2, <2>5, FS_Subset
    <3> QED BY <2>1, <2>4, <2>5, <3>1, FS_CardinalityType
  <2>9. count = Cardinality(all) + Cardinality(Reserving) /\ count <= MaxSize
    BY <2>1 DEF Ledger, Reserving
  <2> QED BY <2>1, <2>4, <2>6, <2>7, <2>8, <2>9, ConfigAssumption
<1> QED BY OwnerInvInit, OwnerInvStep, LedgerInit, LedgerStep, AccountedInit, AccountedStep, <1>1,
           PTL DEF Spec

-----------------------------------------------------------------------------
(* The containers an open pool has registered: where they are, what Stats  *)
(* makes of them, and who may have to wait for one.                        *)

Owners == ClientsAt(OwningAt)

-----------------------------------------------------------------------------
(* Counting.                                                               *)

\* There are finitely many clients at any place.
LEMMA ClientsAtFinite == \A S : /\ IsFiniteSet(ClientsAt(S))
                                /\ Cardinality(ClientsAt(S)) \in Nat
<1> TAKE S
<1>1. ClientsAt(S) \subseteq Clients BY DEF ClientsAt
<1>2. IsFiniteSet(ClientsAt(S)) BY <1>1, ConfigAssumption, FS_Subset
<1> QED BY <1>2, FS_CardinalityType

\* There are no more containers with a client than clients with one.
LEMMA OwnedBound == IsFiniteSet(Owned) /\ Cardinality(Owned) <= Cardinality(Owners)
<1> DEFINE f == [c \in Owners |-> ctr[c]]
<1>1. f \in Surjection(Owners, Owned) BY DEF Surjection, Owned, Owners
<1> QED BY <1>1, ClientsAtFinite, FS_Surjection DEF Owners

-----------------------------------------------------------------------------
(* Room to park.                                                           *)

\* Containers that are parked or about to be take a slot each, so a slot is left
\* for the one about to be, unless a reaped one is among them.
LEMMA RoomToPark == OwnerInv /\ LedgerInv => ParkHasRoom
<1> SUFFICES ASSUME OwnerInv, LedgerInv, NEW c \in Clients, ~Closed, pc[c] = "park",
                    ToSet(idle) \cup {ctr[c]} \subseteq all
             PROVE  Len(idle) < MaxSize
  BY DEF ParkHasRoom
<1>1. IsFiniteSet(ToSet(idle)) /\ Cardinality(ToSet(idle)) = Len(idle)
  BY InjectiveLength DEF OwnerInv, TypeOK, SingleOwner
<1>2. ctr[c] \notin ToSet(idle) BY DEF OwnerInv, SingleOwner
<1>3. Cardinality(ToSet(idle) \cup {ctr[c]}) = Len(idle) + 1
  BY <1>1, <1>2, FS_AddElement
<1>4. Cardinality(ToSet(idle) \cup {ctr[c]}) <= Cardinality(all) /\ Cardinality(all) \in Nat
  BY FS_Subset, FS_CardinalityType DEF LedgerInv
<1>5. /\ count = Cardinality(all) + Cardinality(ClientsAt(ReservingAt)) /\ count <= MaxSize
      /\ Cardinality(ClientsAt(ReservingAt)) \in Nat
  BY ClientsAtFinite DEF LedgerInv, Ledger
<1> QED BY <1>1, <1>3, <1>4, <1>5, ConfigAssumption DEF OwnerInv, TypeOK

\* The "should never happen" branch of Release is taken only with a reaped
\* container in play.
THEOREM NoOverflow == Spec => []ParkHasRoom
BY OwnerInvInit, OwnerInvStep, LedgerInit, LedgerStep, RoomToPark, PTL DEF Spec

-----------------------------------------------------------------------------
(* Where registered containers are.                                        *)

\* While the pool is open: what is registered exists and is parked or owned, what is
\* being removed is not registered any more, and the reaper's container is not one
\* that is being created.
Placed ==
  /\ all \subseteq Owned \cup ToSet(idle) /\ all \subseteq live
  /\ \A c \in Clients : pc[c] = "remove" => ctr[c] \notin all
  /\ \A c \in Clients : pc[c] \in {"start", "register"} => ctr[c] \in live
  /\ rpc = "remove" => rctr \notin all
  /\ rpc # "idle" => /\ rctr \in used
                     /\ \A c \in Clients : pc[c] \in {"start", "register"} => ctr[c] # rctr

PlacedInv == ~Closed => Placed

\* Steps of one client c that leave the registry, the channel and the backend alone.
LEMMA PlacedMove ==
  ASSUME OwnerInv, Placed, NEW c \in Clients, NEW p, pc' = [pc EXCEPT ![c] = p],
         UNCHANGED <<ctr, idle, all, live, used, rpc, rctr>>,
         pc[c] \in OwningAt => p \in OwningAt \/ ctr[c] \notin all,
         p = "remove" => ctr[c] \notin all,
         p \in {"start", "register"} => pc[c] \in {"start", "register"}
  PROVE  Placed'
<1> USE DEF OwnerInv, TypeOK, Placed
<1>1. \A d \in Clients : pc'[d] = IF d = c THEN p ELSE pc[d] OBVIOUS
<1>2. \A id \in Owned \ {ctr[c]} : id \in Owned' BY <1>1 DEF Owned, ClientsAt
<1>3. ctr[c] \in Owned /\ ctr[c] \in all => ctr[c] \in Owned'
  <2> SUFFICES ASSUME ctr[c] \in Owned, ctr[c] \in all PROVE ctr[c] \in Owned' OBVIOUS
  <2>1. PICK d \in Clients : pc[d] \in OwningAt /\ ctr[d] = ctr[c] BY DEF Owned, ClientsAt
  <2>2. CASE d = c BY <1>1, <2>1, <2>2 DEF Owned, ClientsAt
  <2>3. CASE d # c BY <1>1, <2>1, <2>3 DEF Owned, ClientsAt
  <2> QED BY <2>2, <2>3
<1>4. all' \subseteq Owned' \cup ToSet(idle') BY <1>2, <1>3
<1> QED BY <1>1, <1>4
\* Steps in which client c parts with a container that is not registered, if it has
\* one; the backend may have removed it.
LEMMA PlacedDrop ==
  ASSUME OwnerInv, Placed, NEW c \in Clients, NEW p \in {"out", "unreserve"},
         pc[c] \in HasCtrAt, ctr[c] \notin all,
         pc' = [pc EXCEPT ![c] = p], ctr' = [ctr EXCEPT ![c] = None],
         UNCHANGED <<idle, all, used, rpc, rctr>>, live \ {ctr[c]} \subseteq live'
  PROVE  Placed'
<1> USE DEF OwnerInv, TypeOK, Placed
<1>1. \A d \in Clients \ {c} : pc'[d] = pc[d] /\ ctr'[d] = ctr[d] OBVIOUS
<1>2. pc'[c] = p OBVIOUS
<1>3. \A id \in Owned \ {ctr[c]} : id \in Owned' BY <1>1 DEF Owned, ClientsAt
<1>4. all' \subseteq Owned' \cup ToSet(idle') /\ all' \subseteq live' BY <1>3
<1>5. \A d \in Clients \ {c} : ctr[d] # ctr[c]
  BY ConfigAssumption DEF SingleOwner, Placement
<1> QED BY <1>1, <1>2, <1>4, <1>5

\* A receive from the channel.
LEMMA PlacedTake ==
  ASSUME OwnerInv, Placed, NEW c \in Clients, TakeIdle(c), pc[c] \notin HasCtrAt,
         UNCHANGED <<all, used, live, rpc, rctr>>
  PROVE  Placed'
<1> USE DEF OwnerInv, TypeOK, Placed, TakeIdle, Goto
<1>1. ToSet(idle) = ToSet(idle') \cup {Head(idle)} BY TailFacts
<1>2. \A d \in Clients : /\ pc'[d] = IF d = c THEN "holding" ELSE pc[d]
                         /\ ctr'[d] = IF d = c THEN Head(idle) ELSE ctr[d]
  OBVIOUS
<1>3. Head(idle) \in Owned' BY <1>2 DEF Owned, ClientsAt, OwningAt
<1>4. Owned \subseteq Owned' BY <1>2 DEF Owned, ClientsAt, HasCtrAt
<1> QED BY <1>1, <1>2, <1>3, <1>4

\* The registry loses an id.
LEMMA PlacedFree ==
  ASSUME OwnerInv, Placed, NEW id, FreeSlot(id), UNCHANGED <<ctr, idle, used, live, rctr>>,
         \A d \in Clients : \/ pc'[d] = pc[d]
                            \/ pc[d] = "discard" /\ pc'[d] = "remove" /\ ctr[d] = id,
         rpc' = rpc \/ (rpc = "discard" /\ rpc' = "remove" /\ rctr = id)
  PROVE  Placed'
<1> USE DEF OwnerInv, TypeOK, Placed, FreeSlot
<1>1. \A x \in Owned \ {id} : x \in Owned' BY DEF Owned, ClientsAt
<1> QED BY <1>1

\* A container goes to the channel, or straight to a client that waits on it.
LEMMA PlacedPark ==
  ASSUME OwnerInv, Placed, NEW c \in Clients, Park(c)
  PROVE  Placed'
<1> USE DEF OwnerInv, TypeOK, Placed, Goto, poolVars, closeVars, reapVars, backVars
<1>0. pc[c] = "park" /\ ctr[c] \in Ids /\ UNCHANGED <<all, live, used, rpc, rctr>>
  BY DEF Park, Placement, HasCtrAt, OwningAt
<1>1. CASE waitq # <<>>
  <2> DEFINE w == Head(waitq)
  <2>1. w \in Clients /\ pc[w] = "wait" /\ w # c BY <1>0, <1>1 DEF WaitersWait
  <2>2. /\ idle' = idle
        /\ \A d \in Clients : /\ pc'[d] = IF d = w THEN "holding" ELSE IF d = c THEN "out" ELSE pc[d]
                              /\ ctr'[d] = IF d = w THEN ctr[c] ELSE IF d = c THEN None ELSE ctr[d]
    BY <1>1, <2>1 DEF Park
  <2> HIDE DEF w
  <2>3. \A d \in Clients \ {c} : pc[d] \in OwningAt => d # w /\ pc'[d] = pc[d] /\ ctr'[d] = ctr[d]
    BY <2>1, <2>2 DEF OwningAt
  <2>4. \A x \in Owned \ {ctr[c]} : x \in Owned' BY <2>3 DEF Owned, ClientsAt
  <2>5. ctr[c] \in Owned' BY <2>1, <2>2 DEF Owned, ClientsAt, OwningAt
  <2> QED BY <1>0, <2>2, <2>4, <2>5
<1>2. CASE Goto(c, "out") /\ ctr' = [ctr EXCEPT ![c] = None] /\ idle' = Append(idle, ctr[c])
  <2>1. /\ ctr' = [ctr EXCEPT ![c] = None] /\ pc' = [pc EXCEPT ![c] = "out"]
        /\ ToSet(idle') = ToSet(idle) \cup {ctr[c]}
    BY <1>0, <1>2, AppendFacts
  <2>2. \A x \in Owned \ {ctr[c]} : x \in Owned' BY <2>1 DEF Owned, ClientsAt
  <2> QED BY <1>0, <2>1, <2>2
<1>3. CASE Goto(c, "discard") /\ UNCHANGED <<ctr, idle>>
  BY <1>0, <1>3, PlacedMove DEF OwningAt
<1> QED BY <1>1, <1>2, <1>3 DEF Park, chanVars

\* Every step keeps registered containers where they can be found.
LEMMA PlacedStep == OwnerInv /\ LedgerInv /\ PlacedInv /\ [Next]_vars => PlacedInv'
<1> SUFFICES ASSUME OwnerInv, LedgerInv, PlacedInv, [Next]_vars, ~Closed' PROVE Placed'
  BY DEF PlacedInv
<1> USE DEF chanVars, poolVars, closeVars, reapVars, backVars
<1>0. Placed /\ ~Closed
  BY DEF PlacedInv, Closed, vars, Next, New, Warm, WarmFails, NewReturns, Acquire, AcquireCheck,
         AcquireFast, Reserve, Create, Start, Undo, Unreserve, Register, Select, WaitExpires, Release,
         ReleaseCheck, Park, Discard, RemoveDiscarded, Reaper, RemoveByID, ReapDiscard, ReapRemove,
         Close, CloseMark, CloseSignal, CloseRemove
<1>1. CASE Warm
  <2>1. PICK id \in Fresh : /\ all' = all \cup {id} /\ live' = live \cup {id}
                            /\ idle' = Append(idle, id) /\ used' = used \cup {id}
    BY <1>1 DEF Warm
  <2>2. ToSet(idle') = ToSet(idle) \cup {id}
    BY <2>1, AppendFacts DEF OwnerInv, TypeOK, Fresh
  <2>3. UNCHANGED <<pc, ctr, rpc, rctr>> /\ rpc = "idle" /\ \A c \in Clients : pc[c] = "out"
    BY <1>1 DEF Warm, LedgerInv
  <2>4. Owned' = Owned BY <2>3 DEF Owned, ClientsAt
  <2> QED BY <1>0, <2>1, <2>2, <2>3, <2>4 DEF Placed
<1>2. CASE WarmFails \/ NewReturns
  <2>1. UNCHANGED <<pc, ctr, idle, all, rpc, rctr>> /\ live \subseteq live' /\ used \subseteq used'
    BY <1>2 DEF WarmFails, NewReturns
  <2>2. Owned' = Owned BY <2>1 DEF Owned, ClientsAt
  <2> QED BY <1>0, <2>1, <2>2 DEF Placed
<1>3. ASSUME NEW c \in Clients,
             AcquireCheck(c) \/ Reserve(c) \/ Start(c) \/ Unreserve(c) \/ WaitExpires(c)
      PROVE  Placed'
  <2>1. /\ pc[c] \notin OwningAt /\ UNCHANGED <<ctr, idle, all, live, used, rpc, rctr>>
        /\ \E p \in {"fast", "out", "select", "create", "register", "undo"} :
             pc' = [pc EXCEPT ![c] = p] /\ (p = "register" => pc[c] = "start")
    BY <1>3 DEF AcquireCheck, Reserve, Start, Unreserve, WaitExpires, Goto, OwningAt
  <2> QED BY <1>0, <2>1, PlacedMove
<1>4. ASSUME NEW c \in Clients, AcquireFast(c) \/ Select(c) PROVE Placed'
  <2>1. /\ pc[c] \notin HasCtrAt /\ UNCHANGED <<all, live, used, rpc, rctr>>
        /\ \/ TakeIdle(c)
           \/ UNCHANGED <<ctr, idle>> /\ \E p \in {"reserve", "out", "wait"} : pc' = [pc EXCEPT ![c] = p]
    BY <1>4 DEF AcquireFast, Select, Goto, HasCtrAt, OwningAt
  <2>2. CASE TakeIdle(c) BY <1>0, <2>1, <2>2, PlacedTake
  <2>3. CASE ~TakeIdle(c) BY <1>0, <2>1, <2>3, PlacedMove DEF HasCtrAt
  <2> QED BY <2>2, <2>3
<1>5. ASSUME NEW c \in Clients, Create(c) PROVE Placed'
  <2>0. pc[c] = "create" /\ UNCHANGED <<idle, all, rpc, rctr>> BY <1>5 DEF Create
  <2>1. ASSUME NEW id \in Fresh, used' = used \cup {id}, live' = live \cup {id},
               ctr' = [ctr EXCEPT ![c] = id], pc' = [pc EXCEPT ![c] = "start"]
        PROVE  Placed'
    <3>1. \A d \in Clients : /\ pc'[d] = IF d = c THEN "start" ELSE pc[d]
                             /\ ctr'[d] = IF d = c THEN id ELSE ctr[d]
      BY <2>1 DEF OwnerInv, TypeOK
    <3>2. Owned \subseteq Owned' BY <2>0, <3>1 DEF Owned, ClientsAt, OwningAt
    <3>3. id \notin used BY DEF Fresh
    <3> QED BY <1>0, <2>0, <2>1, <3>1, <3>2, <3>3 DEF Placed
  <2>2. CASE pc' = [pc EXCEPT ![c] = "unreserve"] /\ UNCHANGED <<ctr, used, live>>
    BY <1>0, <2>0, <2>2, PlacedMove DEF OwningAt
  <2> QED BY <1>5, <2>1, <2>2 DEF Create, Goto
<1>6. ASSUME NEW c \in Clients, Undo(c) \/ RemoveDiscarded(c) PROVE Placed'
  <2>1. /\ pc[c] \in {"undo", "remove"} /\ UNCHANGED <<idle, all, used, rpc, rctr>>
        /\ live \ {ctr[c]} \subseteq live'
        /\ \E p \in {"out", "unreserve"} : pc' = [pc EXCEPT ![c] = p]
        /\ ctr' = [ctr EXCEPT ![c] = None]
    BY <1>6 DEF Undo, RemoveDiscarded, BackendRemove, Goto
  <2>2. ctr[c] \notin all BY <1>0, <2>1 DEF LedgerInv, Placed
  <2> QED BY <1>0, <2>1, <2>2, PlacedDrop DEF HasCtrAt
<1>7. ASSUME NEW c \in Clients, Register(c) PROVE Placed'
  <2>1. /\ pc[c] = "register" /\ UNCHANGED <<ctr, idle, used, live, rpc, rctr>>
        /\ all' = all \cup {ctr[c]} /\ pc' = [pc EXCEPT ![c] = "holding"]
    BY <1>7 DEF Register, Goto
  <2>2. \A d \in Clients : pc'[d] = IF d = c THEN "holding" ELSE pc[d]
    BY <2>1 DEF OwnerInv, TypeOK
  <2>3. Owned \subseteq Owned' /\ ctr[c] \in Owned' BY <2>1, <2>2 DEF Owned, ClientsAt, OwningAt
  <2>4. \A d \in Clients \ {c} : ctr[d] # ctr[c]
    BY <2>1, ConfigAssumption DEF OwnerInv, SingleOwner, Placement, HasCtrAt, TypeOK
  <2>5. rpc # "idle" => rctr # ctr[c] BY <1>0, <2>1 DEF Placed
  <2>6. rpc \in {"idle", "discard", "remove"} BY DEF OwnerInv, TypeOK
  <2> QED BY <1>0, <2>1, <2>2, <2>3, <2>4, <2>5, <2>6 DEF Placed
<1>8. ASSUME NEW c \in Clients, ReleaseCheck(c) PROVE Placed'
  <2>1. pc[c] = "holding" /\ UNCHANGED <<idle, all, used, live, rpc, rctr>>
    BY <1>8 DEF ReleaseCheck
  <2>2. CASE ctr[c] \notin all
    BY <1>0, <1>8, <2>1, <2>2, PlacedDrop DEF ReleaseCheck, Goto, HasCtrAt, OwningAt
  <2>3. CASE ctr[c] \in all
    <3>1. PICK p \in {"discard", "park"} : pc' = [pc EXCEPT ![c] = p] /\ ctr' = ctr
      BY <1>8, <2>3 DEF ReleaseCheck, Goto
    <3> QED BY <1>0, <2>1, <3>1, PlacedMove DEF OwningAt
  <2> QED BY <2>2, <2>3
<1>9. ASSUME NEW c \in Clients, Park(c) PROVE Placed' BY <1>0, <1>9, PlacedPark
<1>10. ASSUME NEW c \in Clients, Discard(c) PROVE Placed'
  BY <1>0, <1>10, PlacedFree DEF Discard, Goto, OwnerInv, TypeOK
<1>11. CASE ReapDiscard BY <1>0, <1>11, PlacedFree DEF ReapDiscard
<1>12. CASE \E id \in Ids : RemoveByID(id)
  <2>1. PICK id \in all : rpc' = "discard" /\ rctr' = id BY <1>12 DEF RemoveByID
  <2>2. UNCHANGED <<pc, ctr, idle, all, used, live>> BY <1>12 DEF RemoveByID
  <2>3. Owned' = Owned BY <2>2 DEF Owned, ClientsAt
  <2>4. id \in used /\ \A c \in Clients : pc[c] \in {"start", "register"} => ctr[c] # id
    BY <2>1 DEF OwnerInv, Placement, LedgerInv
  <2> QED BY <1>0, <2>1, <2>2, <2>3, <2>4 DEF Placed
<1>13. CASE ReapRemove
  <2>1. /\ rpc = "remove" /\ rpc' = "idle" /\ live \ {rctr} \subseteq live'
        /\ UNCHANGED <<pc, ctr, idle, all, used>>
    BY <1>13 DEF ReapRemove, BackendRemove
  <2>2. Owned' = Owned BY <2>1 DEF Owned, ClientsAt
  <2> QED BY <1>0, <2>1, <2>2 DEF Placed
<1>14. ~Close BY <1>0 DEF Close, CloseMark, CloseSignal, CloseRemove, Closed
<1>15. CASE UNCHANGED vars
  <2>1. Owned' = Owned BY <1>15 DEF vars, Owned, ClientsAt
  <2> QED BY <1>0, <1>15, <2>1 DEF vars, Placed
<1> QED BY <1>1, <1>2, <1>3, <1>4, <1>5, <1>6, <1>7, <1>8, <1>9, <1>10, <1>11, <1>12, <1>13,
           <1>14, <1>15 DEF Next, New, Acquire, Release, Reaper
-----------------------------------------------------------------------------
(* What Stats reports.                                                     *)

\* The registered containers are those parked and those with a client.
LEMMA RegisteredSplit ==
  ASSUME OwnerInv, LedgerInv, Placed
  PROVE  /\ Cardinality(all) = Cardinality(Owned \cap all) + Cardinality(ToSet(idle) \cap all)
         /\ Len(idle) = Cardinality(ToSet(idle) \cap all) + Cardinality(ToSet(idle) \ all)
         /\ Cardinality(all) \in Nat /\ Cardinality(Owned \cap all) \in Nat
         /\ Cardinality(ToSet(idle) \cap all) \in Nat /\ Cardinality(ToSet(idle) \ all) \in Nat
<1> DEFINE parked == ToSet(idle)
<1>1. IsFiniteSet(parked) /\ Cardinality(parked) = Len(idle)
  BY InjectiveLength DEF OwnerInv, TypeOK, SingleOwner
<1>2. IsFiniteSet(Owned \cap all) /\ IsFiniteSet(parked \cap all) /\ IsFiniteSet(parked \ all)
  BY <1>1, OwnedBound, FS_Intersection, FS_Difference
<1>3. (Owned \cap all) \cap (parked \cap all) = {}
  BY DEF OwnerInv, SingleOwner, Owned, ClientsAt
<1>4. (Owned \cap all) \cup (parked \cap all) = all BY DEF Placed
<1>5. (parked \cap all) \cap (parked \ all) = {} /\ (parked \cap all) \cup (parked \ all) = parked
  OBVIOUS
<1>6. /\ Cardinality(all) = Cardinality(Owned \cap all) + Cardinality(parked \cap all)
      /\ Cardinality(Owned \cap all) \in Nat
  BY <1>2, <1>3, <1>4, DisjointSum
<1>7. /\ Cardinality(parked) = Cardinality(parked \cap all) + Cardinality(parked \ all)
      /\ Cardinality(parked \cap all) \in Nat /\ Cardinality(parked \ all) \in Nat
  BY <1>2, <1>5, DisjointSum
<1>8. Cardinality(all) \in Nat BY <1>6, <1>7
<1> QED BY <1>1, <1>6, <1>7, <1>8

\* Stats.Busy, by that split.
LEMMA BusyIsExact == OwnerInv /\ LedgerInv /\ PlacedInv => StatsExact
<1> SUFFICES ASSUME OwnerInv, LedgerInv, Placed, ~Closed
             PROVE  /\ all \subseteq live
                    /\ StatsBusy = Cardinality(ClientsAt(ReservingAt)) + Cardinality(Owned \cap all)
                                     - Cardinality(ToSet(idle) \ all)
  BY DEF PlacedInv, StatsExact
<1>1. /\ count = Cardinality(all) + Cardinality(ClientsAt(ReservingAt))
      /\ Cardinality(ClientsAt(ReservingAt)) \in Nat
  BY ClientsAtFinite DEF LedgerInv, Ledger
<1> QED BY <1>1, RegisteredSplit DEF StatsBusy, Placed

\* Nothing is registered when New starts, and no reaper runs.
LEMMA PlacedInit == Init => PlacedInv
BY DEF Init, PlacedInv, Placed

\* No slot of an open pool is lost or held by nothing, and Stats.Busy counts the
\* containers in use and in creation, short of the reaped ones that are parked.
THEOREM StatsCount == Spec => []StatsExact
BY OwnerInvInit, OwnerInvStep, LedgerInit, LedgerStep, PlacedInit, PlacedStep, BusyIsExact,
   PTL DEF Spec

-----------------------------------------------------------------------------
(* Who waits.                                                              *)

Free == ClientsAt({"out", "fast", "remove"})
Queued == ClientsAt({"reserve", "select", "wait"})
Waiting == ClientsAt({"select", "wait"})

\* A client queues only after it found the channel empty, and a container comes back
\* with a client that leaves: there are never more parked ones than free clients.
RoomInv == Queued # {} => Len(idle) <= Cardinality(Free)

\* A larger set of clients has more of them.
LEMMA ClientsGrow ==
  ASSUME NEW S, NEW T, S \subseteq T, IsFiniteSet(T)
  PROVE  Cardinality(S) <= Cardinality(T) /\ Cardinality(S) \in Nat /\ Cardinality(T) \in Nat
<1>1. IsFiniteSet(S) BY FS_Subset
<1> QED BY <1>1, FS_Subset, FS_CardinalityType

\* No client stops being free, no container is parked, nobody queues who would be alone.
LEMMA RoomKept ==
  ASSUME RoomInv, IsFiniteSet(Free'), Free \subseteq Free', idle' = idle,
         Queued' # {} => Queued # {}, idle \in Seq(Ids)
  PROVE  RoomInv'
<1>1. Cardinality(Free) <= Cardinality(Free') /\ Cardinality(Free) \in Nat
      /\ Cardinality(Free') \in Nat /\ Len(idle) \in Nat
  BY ClientsGrow
<1> QED BY <1>1 DEF RoomInv

\* There are finitely many clients at a place after a step, too.
LEMMA ClientsAtFiniteNext == \A S : IsFiniteSet({c \in Clients : pc'[c] \in S})
<1> TAKE S
<1>1. {c \in Clients : pc'[c] \in S} \subseteq Clients OBVIOUS
<1> QED BY <1>1, ConfigAssumption, FS_Subset

\* One client moves and the channel stays as it is.
LEMMA RoomMove ==
  ASSUME OwnerInv, RoomInv, NEW c \in Clients, NEW p, pc' = [pc EXCEPT ![c] = p],
         UNCHANGED idle,
         pc[c] \in {"out", "fast", "remove"} => p \in {"out", "fast", "remove"},
         p \in {"reserve", "select", "wait"} => pc[c] \in {"reserve", "select", "wait"}
  PROVE  RoomInv'
<1>1. \A d \in Clients : pc'[d] = IF d = c THEN p ELSE pc[d] BY DEF OwnerInv, TypeOK
<1>2. Free \subseteq Free' /\ Queued' \subseteq Queued BY <1>1 DEF Free, Queued, ClientsAt
<1>3. IsFiniteSet(Free') BY ClientsAtFiniteNext DEF Free, ClientsAt
<1> QED BY <1>2, <1>3, RoomKept DEF OwnerInv, TypeOK

\* A receive from the channel takes a container and, at most, the client that asked.
LEMMA RoomTake ==
  ASSUME OwnerInv, RoomInv, NEW c \in Clients, TakeIdle(c), pc[c] \in {"fast", "select"}
  PROVE  RoomInv'
<1>1. \A d \in Clients : pc'[d] = IF d = c THEN "holding" ELSE pc[d]
  BY DEF OwnerInv, TypeOK, TakeIdle, Goto
<1>2. Free' = Free \ {c} /\ Queued' \subseteq Queued BY <1>1 DEF Free, Queued, ClientsAt
<1>3. Len(idle') = Len(idle) - 1 /\ Len(idle) \in Nat
  BY DEF TakeIdle, OwnerInv, TypeOK
<1>4. IsFiniteSet(Free) /\ Cardinality(Free) \in Nat BY ClientsAtFinite DEF Free
<1>5. Cardinality(Free \ {c}) >= Cardinality(Free) - 1 /\ Cardinality(Free \ {c}) \in Nat
  <2>1. CASE c \in Free
    <3>1. Cardinality(Free \ {c}) = Cardinality(Free) - 1 /\ IsFiniteSet(Free \ {c})
      BY <1>4, <2>1, FS_RemoveElement
    <3>2. Cardinality(Free \ {c}) \in Nat BY <3>1, FS_CardinalityType
    <3> QED BY <1>4, <3>1, <3>2
  <2>2. CASE c \notin Free
    <3>1. Free \ {c} = Free BY <2>2
    <3>2. Cardinality(Free \ {c}) = Cardinality(Free) BY <3>1
    <3> QED BY <1>4, <3>2
  <2> QED BY <2>1, <2>2
<1>6. Cardinality(Free') = Cardinality(Free \ {c}) BY <1>2
<1> QED BY <1>2, <1>3, <1>4, <1>5, <1>6 DEF RoomInv

\* A container is parked by a client that is free from then on.
LEMMA RoomPark ==
  ASSUME OwnerInv, RoomInv, NEW c \in Clients, Park(c)
  PROVE  RoomInv'
<1>0. pc[c] = "park" /\ ctr[c] \in Ids
  BY DEF Park, OwnerInv, TypeOK, Placement, HasCtrAt, OwningAt
<1>1. CASE waitq # <<>>
  <2>1. Head(waitq) \in Clients /\ pc[Head(waitq)] = "wait"
    BY <1>1 DEF OwnerInv, WaitersWait, TypeOK
  <2>2. /\ idle' = idle
        /\ \A d \in Clients : pc'[d] = IF d = Head(waitq) THEN "holding"
                                       ELSE IF d = c THEN "out" ELSE pc[d]
    BY <1>1, <2>1 DEF Park, OwnerInv, TypeOK
  <2>3. Free \subseteq Free' /\ Queued' \subseteq Queued
    BY <1>0, <2>1, <2>2 DEF Free, Queued, ClientsAt
  <2>4. IsFiniteSet(Free') BY ClientsAtFiniteNext DEF Free, ClientsAt
  <2> QED BY <2>2, <2>3, <2>4, RoomKept DEF OwnerInv, TypeOK
<1>2. CASE Goto(c, "out") /\ idle' = Append(idle, ctr[c])
  <2>1. \A d \in Clients : pc'[d] = IF d = c THEN "out" ELSE pc[d]
    BY <1>2 DEF Goto, OwnerInv, TypeOK
  <2>2. Free' = Free \cup {c} /\ c \notin Free /\ Queued' = Queued
    BY <1>0, <2>1 DEF Free, Queued, ClientsAt
  <2>3. IsFiniteSet(Free) /\ Cardinality(Free) \in Nat BY ClientsAtFinite DEF Free
  <2>4. Cardinality(Free \cup {c}) = Cardinality(Free) + 1 BY <2>2, <2>3, FS_AddElement
  <2>5. Cardinality(Free') = Cardinality(Free) + 1 BY <2>2, <2>4
  <2>6. Len(idle') = Len(idle) + 1 /\ Len(idle) \in Nat
    BY <1>0, <1>2 DEF OwnerInv, TypeOK
  <2> QED BY <2>2, <2>3, <2>5, <2>6 DEF RoomInv
<1>3. CASE Goto(c, "discard") /\ UNCHANGED idle
  BY <1>0, <1>3, RoomMove DEF Goto
<1> QED BY <1>1, <1>2, <1>3 DEF Park, chanVars

\* Every step leaves room for those that queue.
LEMMA RoomStep == OwnerInv /\ LedgerInv /\ RoomInv /\ [Next]_vars => RoomInv'
<1> SUFFICES ASSUME OwnerInv, LedgerInv, RoomInv, [Next]_vars PROVE RoomInv' OBVIOUS
<1> USE DEF chanVars
<1>1. CASE Warm
  <2>1. \A c \in Clients : pc'[c] = "out" BY <1>1 DEF Warm, LedgerInv
  <2> QED BY <2>1 DEF RoomInv, Queued, ClientsAt
<1>2. ASSUME UNCHANGED <<pc, idle>> PROVE RoomInv'
  <2>1. Free' = Free /\ Queued' = Queued BY <1>2 DEF Free, Queued, ClientsAt
  <2> QED BY <1>2, <2>1 DEF RoomInv
<1>3. CASE WarmFails \/ NewReturns \/ Reaper \/ UNCHANGED vars
  BY <1>2, <1>3 DEF WarmFails, NewReturns, Reaper, RemoveByID, ReapDiscard, ReapRemove, vars
<1>4. CASE Close
  <2>1. UNCHANGED idle /\ \A c \in Clients : pc'[c] = pc[c] \/ pc'[c] = "out"
    BY <1>4 DEF Close, CloseMark, CloseSignal, CloseRemove
  <2>2. Free \subseteq Free' /\ Queued' \subseteq Queued BY <2>1 DEF Free, Queued, ClientsAt
  <2>3. IsFiniteSet(Free') BY ClientsAtFiniteNext DEF Free, ClientsAt
  <2> QED BY <2>1, <2>2, <2>3, RoomKept DEF OwnerInv, TypeOK
<1>5. ASSUME NEW c \in Clients, AcquireCheck(c) \/ Reserve(c) \/ Create(c) \/ Start(c) \/ Undo(c)
                                  \/ Unreserve(c) \/ Register(c) \/ WaitExpires(c)
                                  \/ ReleaseCheck(c) \/ Discard(c) \/ RemoveDiscarded(c)
      PROVE  RoomInv'
  <2>1. /\ UNCHANGED idle
        /\ \E p : /\ pc' = [pc EXCEPT ![c] = p]
                  /\ pc[c] \in {"out", "fast", "remove"} => p \in {"out", "fast", "remove"}
                  /\ p \in {"reserve", "select", "wait"} => pc[c] \in {"reserve", "select", "wait"}
    BY <1>5 DEF AcquireCheck, Reserve, Create, Start, Undo, Unreserve, Register, WaitExpires,
                ReleaseCheck, Discard, RemoveDiscarded, Goto
  <2> QED BY <2>1, RoomMove
<1>6. ASSUME NEW c \in Clients, AcquireFast(c) \/ Select(c) PROVE RoomInv'
  <2>1. CASE TakeIdle(c) BY <1>6, <2>1, RoomTake DEF AcquireFast, Select
  <2>2. CASE ~TakeIdle(c) /\ pc[c] = "fast"
    <3>1. idle' = <<>> BY <1>6, <2>2 DEF AcquireFast, Select
    <3>2. IsFiniteSet(Free') BY ClientsAtFiniteNext DEF Free, ClientsAt
    <3>3. Cardinality(Free') \in Nat BY <3>2, FS_CardinalityType
    <3> QED BY <3>1, <3>3 DEF RoomInv
  <2>3. CASE ~TakeIdle(c) /\ pc[c] # "fast"
    <3>1. pc[c] = "select" /\ UNCHANGED idle
          /\ \E p \in {"out", "wait"} : pc' = [pc EXCEPT ![c] = p]
      BY <1>6, <2>3 DEF AcquireFast, Select, Goto
    <3> QED BY <3>1, RoomMove
  <2> QED BY <2>1, <2>2, <2>3
<1>7. ASSUME NEW c \in Clients, Park(c) PROVE RoomInv' BY <1>7, RoomPark
<1> QED BY <1>1, <1>3, <1>4, <1>5, <1>6, <1>7 DEF Next, New, Acquire, Release

\* Every client is in one of four places.
LEMMA EverybodyCounted ==
  ASSUME OwnerInv
  PROVE  /\ Cardinality(Clients) = Cardinality(Free) + Cardinality(Queued)
                                     + Cardinality(Reserving) + Cardinality(Owners)
         /\ Cardinality(Free) \in Nat /\ Cardinality(Queued) \in Nat
         /\ Cardinality(Reserving) \in Nat /\ Cardinality(Owners) \in Nat
<1> USE DEF Free, Queued, Reserving, Owners
<1>1. /\ IsFiniteSet(Free) /\ IsFiniteSet(Queued) /\ IsFiniteSet(Reserving) /\ IsFiniteSet(Owners)
  BY ClientsAtFinite
<1>2. Free \cap Queued = {} BY DEF ClientsAt
<1>3. (Free \cup Queued) \cap Reserving = {} BY DEF ClientsAt, ReservingAt
<1>4. (Free \cup Queued \cup Reserving) \cap Owners = {} BY DEF ClientsAt, ReservingAt, OwningAt
<1>5. Free \cup Queued \cup Reserving \cup Owners = Clients
  BY DEF ClientsAt, OwnerInv, TypeOK, ClientPC
<1> HIDE DEF Free, Queued, Reserving, Owners
<1>6. /\ IsFiniteSet(Free \cup Queued)
      /\ Cardinality(Free \cup Queued) = Cardinality(Free) + Cardinality(Queued)
      /\ Cardinality(Free) \in Nat /\ Cardinality(Queued) \in Nat
  BY <1>1, <1>2, DisjointSum
<1>7. /\ IsFiniteSet(Free \cup Queued \cup Reserving)
      /\ Cardinality(Free \cup Queued \cup Reserving)
           = Cardinality(Free \cup Queued) + Cardinality(Reserving)
      /\ Cardinality(Reserving) \in Nat
  BY <1>1, <1>3, <1>6, DisjointSum
<1>8. /\ Cardinality(Free \cup Queued \cup Reserving \cup Owners)
           = Cardinality(Free \cup Queued \cup Reserving) + Cardinality(Owners)
      /\ Cardinality(Owners) \in Nat
  BY <1>1, <1>4, <1>7, DisjointSum
<1> QED BY <1>5, <1>6, <1>7, <1>8

\* A client that finds the pool full is one too many: every slot is with a client that
\* has a container or makes one, or is parked for one that is free to take it.
LEMMA FullMeansSurplus ==
  ASSUME OwnerInv, LedgerInv, PlacedInv, RoomInv, ~Closed, AtCapacity, Queued # {}
  PROVE  Cardinality(Queued) <= Cardinality(Clients) - MaxSize
<1>1. /\ Cardinality(all) = Cardinality(Owned \cap all) + Cardinality(ToSet(idle) \cap all)
      /\ Len(idle) = Cardinality(ToSet(idle) \cap all) + Cardinality(ToSet(idle) \ all)
      /\ Cardinality(ToSet(idle) \cap all) \in Nat /\ Cardinality(ToSet(idle) \ all) \in Nat
      /\ Cardinality(Owned \cap all) \in Nat /\ Cardinality(all) \in Nat
  BY RegisteredSplit DEF PlacedInv
<1>2. Cardinality(Owned \cap all) <= Cardinality(Owned) /\ Cardinality(Owned) \in Nat
  BY OwnedBound, ClientsGrow
<1>3. Cardinality(Owned) <= Cardinality(Owners) BY OwnedBound
<1>4. MaxSize <= Cardinality(all) + Cardinality(Reserving)
  BY ConfigAssumption DEF AtCapacity, LedgerInv, Ledger, Reserving, OwnerInv, TypeOK
<1>5. Len(idle) <= Cardinality(Free) BY DEF RoomInv
<1>6. /\ Cardinality(Clients) = Cardinality(Free) + Cardinality(Queued)
                                 + Cardinality(Reserving) + Cardinality(Owners)
      /\ Cardinality(Free) \in Nat /\ Cardinality(Queued) \in Nat
      /\ Cardinality(Reserving) \in Nat /\ Cardinality(Owners) \in Nat
  BY EverybodyCounted
<1>7. Cardinality(Owned \cap all) <= Cardinality(Owners) BY <1>1, <1>2, <1>3, <1>6
<1>8. Cardinality(ToSet(idle) \cap all) <= Cardinality(Free)
  <2>1. Cardinality(ToSet(idle) \cap all) <= Len(idle) BY <1>1
  <2>2. Len(idle) \in Nat BY <1>1
  <2> QED BY <1>1, <1>5, <1>6, <2>1, <2>2
<1>9. Cardinality(all) <= Cardinality(Owners) + Cardinality(Free) BY <1>1, <1>6, <1>7, <1>8
<1>10. MaxSize <= Cardinality(Owners) + Cardinality(Free) + Cardinality(Reserving)
  BY <1>1, <1>4, <1>6, <1>9, ConfigAssumption
<1> QED BY <1>6, <1>10, ConfigAssumption

\* Only a client that found the pool full joins those that wait.
LEMMA SurplusStep ==
  OwnerInv /\ LedgerInv /\ PlacedInv /\ RoomInv /\ OnlySurplusWaits /\ [Next]_vars
    => OnlySurplusWaits'
<1> SUFFICES ASSUME OwnerInv, LedgerInv, PlacedInv, RoomInv, OnlySurplusWaits, [Next]_vars
             PROVE  OnlySurplusWaits'
  OBVIOUS
<1>0. /\ Cardinality(Clients) - MaxSize \in Int
      /\ Cardinality(Waiting) > 0 => Cardinality(Waiting) <= Cardinality(Clients) - MaxSize
  BY ConfigAssumption, FS_CardinalityType DEF OnlySurplusWaits, Waiting
<1>1. ASSUME Waiting' \subseteq Waiting PROVE OnlySurplusWaits'
  <2>1. Cardinality(Waiting') <= Cardinality(Waiting) /\ Cardinality(Waiting) \in Nat
        /\ Cardinality(Waiting') \in Nat
    <3>1. IsFiniteSet(Waiting) BY ClientsAtFinite DEF Waiting
    <3> QED BY <1>1, <3>1, ClientsGrow
  <2> QED BY <1>0, <2>1 DEF OnlySurplusWaits, Waiting
<1>2. ASSUME NEW c \in Clients, Reserve(c), pc'[c] = "select" PROVE OnlySurplusWaits'
  <2>1. ~Closed /\ AtCapacity /\ pc[c] = "reserve" /\ pc' = [pc EXCEPT ![c] = "select"]
    BY <1>2 DEF Reserve, Goto, OwnerInv, TypeOK
  <2>2. \A d \in Clients : pc'[d] = IF d = c THEN "select" ELSE pc[d]
    BY <2>1 DEF OwnerInv, TypeOK
  <2>3. Waiting' \subseteq Queued /\ Queued # {}
    BY <2>1, <2>2 DEF Waiting, Queued, ClientsAt
  <2>4. Cardinality(Queued) <= Cardinality(Clients) - MaxSize BY <2>1, <2>3, FullMeansSurplus
  <2>5. Cardinality(Waiting') <= Cardinality(Queued) /\ Cardinality(Queued) \in Nat
        /\ Cardinality(Waiting') \in Nat
    <3>1. IsFiniteSet(Queued) BY ClientsAtFinite DEF Queued
    <3> QED BY <2>3, <3>1, ClientsGrow
  <2> QED BY <1>0, <2>4, <2>5 DEF OnlySurplusWaits, Waiting
<1>3. ASSUME NEW c \in Clients,
             \/ Reserve(c) /\ pc'[c] # "select"
             \/ AcquireCheck(c) \/ AcquireFast(c) \/ Create(c) \/ Start(c) \/ Undo(c)
             \/ Unreserve(c) \/ Register(c) \/ Select(c) \/ WaitExpires(c)
             \/ ReleaseCheck(c) \/ Discard(c) \/ RemoveDiscarded(c)
      PROVE  OnlySurplusWaits'
  <2>1. /\ \A d \in Clients \ {c} : pc'[d] = pc[d]
        /\ pc'[c] \in {"select", "wait"} => pc[c] \in {"select", "wait"}
    BY <1>3 DEF Reserve, AcquireCheck, AcquireFast, TakeIdle, Create, Start, Undo, Unreserve,
                Register, Select, WaitExpires, ReleaseCheck, Discard, RemoveDiscarded, Goto,
                OwnerInv, TypeOK
  <2> QED BY <1>1, <2>1 DEF Waiting, ClientsAt
<1>4. ASSUME NEW c \in Clients, Park(c) PROVE OnlySurplusWaits'
  <2>1. waitq # <<>> => Head(waitq) \in Clients BY DEF OwnerInv, TypeOK
  <2>2. \A d \in Clients : pc'[d] = pc[d] \/ pc'[d] \in {"out", "holding", "discard"}
    BY <1>4, <2>1 DEF Park, Goto, OwnerInv, TypeOK
  <2> QED BY <1>1, <2>2 DEF Waiting, ClientsAt
<1>5. CASE New \/ Reaper \/ Close \/ UNCHANGED vars
  <2>1. \A d \in Clients : pc'[d] = pc[d] \/ pc'[d] = "out"
    BY <1>5 DEF New, Warm, WarmFails, NewReturns, Reaper, RemoveByID, ReapDiscard, ReapRemove,
                Close, CloseMark, CloseSignal, CloseRemove, vars
  <2> QED BY <1>1, <2>1 DEF Waiting, ClientsAt
<1> QED BY <1>2, <1>3, <1>4, <1>5 DEF Next, Acquire, Release

\* Nobody queues when New starts.
LEMMA RoomInit == Init => RoomInv /\ OnlySurplusWaits
<1> SUFFICES ASSUME Init PROVE RoomInv /\ OnlySurplusWaits OBVIOUS
<1>1. Queued = {} /\ ClientsAt({"select", "wait"}) = {} BY DEF Init, Queued, ClientsAt
<1>2. Cardinality(ClientsAt({"select", "wait"})) = 0 BY <1>1, FS_EmptySet
<1> QED BY <1>1, <1>2 DEF RoomInv, OnlySurplusWaits

\* Only callers in excess of the slots reach Acquire's blocking select: as many workers
\* as slots (cmd/aicv bench) never do, whatever is recycled, reaped or fails.
THEOREM NoNeedlessWait == Spec => []OnlySurplusWaits
BY OwnerInvInit, OwnerInvStep, LedgerInit, LedgerStep, PlacedInit, PlacedStep, RoomInit, RoomStep,
   SurplusStep, PTL DEF Spec
=============================================================================
