-------------------------------- MODULE Lease --------------------------------
(***************************************************************************)
(* What the pool promises its callers, with the channel, the locks, the    *)
(* capacity accounting, the reaper and Close left out: a container is lent *)
(* to one client at a time, waits on the shelf between two loans, and is   *)
(* never lent or shelved again once it has been retired.                   *)
(***************************************************************************)
CONSTANTS Clients, Ids, None

VARIABLES lent,   \* lent[c]: the container client c has on loan, or None
          shelf,  \* containers waiting for a client
          fresh   \* containers never lent nor shelved yet

vars == <<lent, shelf, fresh>>

Init == lent = [c \in Clients |-> None] /\ shelf = {} /\ fresh = Ids

Give(c, id) == lent[c] = None /\ lent' = [lent EXCEPT ![c] = id]
TakeBack(c) == lent[c] # None /\ lent' = [lent EXCEPT ![c] = None]

\* Pre-warming.
Stock(id) ==
  /\ id \in fresh /\ fresh' = fresh \ {id}
  /\ shelf' = shelf \cup {id} /\ UNCHANGED lent

\* A container that could not be started.
Spoil(id) == id \in fresh /\ fresh' = fresh \ {id} /\ UNCHANGED <<lent, shelf>>

\* Acquire grows the pool.
Supply(c, id) ==
  id \in fresh /\ fresh' = fresh \ {id} /\ Give(c, id) /\ UNCHANGED shelf

\* Acquire reuses an idle container.
Borrow(c, id) ==
  id \in shelf /\ shelf' = shelf \ {id} /\ Give(c, id) /\ UNCHANGED fresh

\* Release re-parks the container,
Return(c) == TakeBack(c) /\ shelf' = shelf \cup {lent[c]} /\ UNCHANGED fresh

\* or gives it to a waiting client,
PassOn(c, d) ==
  /\ c # d /\ lent[c] # None /\ lent[d] = None
  /\ lent' = [lent EXCEPT ![c] = None, ![d] = lent[c]]
  /\ UNCHANGED <<shelf, fresh>>

\* or gives it up for good.
Retire(c) == TakeBack(c) /\ UNCHANGED <<shelf, fresh>>

Next ==
  \/ \E id \in Ids : Stock(id) \/ Spoil(id)
  \/ \E c \in Clients :
       \/ Return(c) \/ Retire(c)
       \/ \E id \in Ids : Supply(c, id) \/ Borrow(c, id)
       \/ \E d \in Clients : PassOn(c, d)

Spec == Init /\ [][Next]_vars
=============================================================================
