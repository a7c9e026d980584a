--------------------------- MODULE PoolProperties ---------------------------
(***************************************************************************)
(* What internal/pool promises, stated over the model of Pool.tla.         *)
(***************************************************************************)
EXTENDS Pool

ClientsAt(S) == {c \in Clients : pc[c] \in S}

\* The container client c's Acquire returned and its Release has not given up.
Owned == {ctr[c] : c \in ClientsAt(OwningAt)}

\* Stats.Busy, as Stats computes it.
StatsBusy == count - Len(idle)

-----------------------------------------------------------------------------
(* Safety.                                                                 *)

\* Types of the variables; the idle channel never exceeds its capacity.
TypeOK ==
  /\ boot \in {"warming", "ready", "failed"}
  /\ pc \in [Clients -> ClientPC]
  /\ ctr \in [Clients -> Ids \cup {None}]
  /\ idle \in Seq(Ids) /\ Len(idle) <= MaxSize
  /\ waitq \in Seq(Clients)
  /\ all \subseteq Ids /\ count \in Int
  /\ jobs \in [Ids -> 0..MaxJobs]
  /\ cpc \in {"open", "signal", "removing"} /\ closing \subseteq Ids
  /\ rpc \in {"idle", "discard", "remove"} /\ rctr \in Ids \cup {None}
  /\ used \subseteq Ids /\ live \subseteq used /\ leaked \subseteq live

\* "exactly one caller owns it until Release", "while it sits in the pool's idle
\* channel no one holds it" (container.go): a container is with one client, or
\* once in the idle channel, never both, whatever the reaper and Close do.
SingleOwner ==
  /\ \A c, d \in Clients : c # d => ctr[c] = None \/ ctr[c] # ctr[d]
  /\ IsInjective(idle)
  /\ \A c \in Clients : ctr[c] \notin ToSet(idle)

\* What the pool has given up: the containers a removal has failed on, and the one
\* each discard or reap has taken off the ledger and is still removing.
GivenUp ==
  leaked \cup {ctr[c] : c \in ClientsAt({"remove"})}
         \cup (IF rpc = "remove" THEN {rctr} ELSE {})

\* While the pool is open p.count is the registered containers plus the slots
\* reserved by a grow in flight, and never passes MaxSize (pool.go, grow), nor do
\* the containers that exist, those it has given up left out: it is not quite the
\* "hard cap on live containers" of Config.MaxSize.
CapacityLedger ==
  ~Closed => /\ count = Cardinality(all) + Cardinality(ClientsAt(ReservingAt))
             /\ count <= MaxSize /\ Cardinality(live \ GivenUp) <= MaxSize

\* A container that has run MaxJobs jobs is never handed out for another one.
RecycleLimit ==
  MaxJobs > 0 => \A c \in Clients : pc[c] = "holding" => jobs[ctr[c]] < MaxJobs

\* No container is forgotten: each one that exists is registered, on its way in
\* or out, or its Remove returned an error.
NoLeak ==
  live \subseteq all \cup closing \cup leaked
          \cup {ctr[c] : c \in ClientsAt({"start", "register", "undo", "remove"})}
          \cup (IF rpc = "remove" THEN {rctr} ELSE {})

\* No slot is lost, and none is held by nothing: what an open pool has registered
\* exists (discard drops the entry before the container goes) and is parked or
\* owned.  So Stats.Busy is the containers in use and those being created, short of
\* the reaped ones that are still parked (it is exact without a reaper).
StatsExact ==
  ~Closed => /\ all \subseteq live
             /\ StatsBusy = Cardinality(ClientsAt(ReservingAt)) + Cardinality(Owned \cap all)
                              - Cardinality(ToSet(idle) \ all)

\* Only callers in excess of the slots ever reach the blocking select, whatever
\* fails or is reaped: with as many workers as slots (cmd/aicv bench) none does.
OnlySurplusWaits ==
  LET waiting == Cardinality(ClientsAt({"select", "wait"}))
  IN waiting > 0 => waiting <= Cardinality(Clients) - MaxSize

\* The "should never happen" branch of Release (a full idle channel) is taken
\* only when a reaped container is being parked or has been, whatever is recycled
\* or fails meanwhile.
ParkHasRoom ==
  \A c \in Clients :
    ~Closed /\ pc[c] = "park" /\ waitq = <<>> /\ ToSet(idle) \cup {ctr[c]} \subseteq all
      => Len(idle) < MaxSize

-----------------------------------------------------------------------------
(* Temporal properties.                                                    *)

\* An Acquire called after Close never returns a container, although the idle
\* channel still holds pointers to removed ones.
ClosedIsFinal ==
  \A c \in Clients : [](Closed /\ pc[c] = "out" => [](pc[c] # "holding"))

\* A parked client gets a container or an error, unless a slot is freed without
\* a container to hand over (by recycling, reaping or a failed create).
WaiterServedOrSlotFreed ==
  \A c \in Clients :
    pc[c] = "wait" ~> pc[c] # "wait" \/ (count < MaxSize /\ ~Closed)

\* After Close every container is removed, those of grows and jobs in flight
\* included, except the ones whose Remove failed.
DrainAfterClose == Closed ~> [](live \subseteq leaked)

-----------------------------------------------------------------------------
(* The lease discipline the pool implements.                               *)

Lent == [c \in Clients |-> IF pc[c] \in OwningAt THEN ctr[c] ELSE None]
InFlight == {ctr[c] : c \in ClientsAt({"start", "register"})}

L == INSTANCE Lease WITH
       lent <- Lent, shelf <- ToSet(idle), fresh <- (Ids \ used) \cup InFlight

\* Every step of the pool, whatever interleaves with it, is a step of the lease
\* or leaves it alone: in particular a container given up is never handed out
\* or re-parked again, and two clients never have the same one.
ImplementsLease == L!Spec

-----------------------------------------------------------------------------
(* Statements of the source that the model refutes.                        *)

\* pool.go:87 "A closed pool never hands out a container".
ClosedPoolHandsOutNothing ==
  [][\A c \in Clients : Closed /\ pc[c] # "holding" => pc'[c] # "holding"]_vars

\* pool.go:84 Acquire blocks "until one is free if the pool is at capacity":
\* whoever is parked gets a container or an error.
WaiterServed == \A c \in Clients : pc[c] = "wait" ~> pc[c] # "wait"
=============================================================================
