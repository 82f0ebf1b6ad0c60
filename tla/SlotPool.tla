------------------------------ MODULE SlotPool --------------------------------
(***************************************************************************)
(* What admission promises, without modes, clocks, counters or polls: each *)
(* pool has slots and waiting places.  A client takes a slot when one is   *)
(* free, waits or is refused when none is, and is served or refused once.  *)
(* How long it waits is not told here, so one that waits may be refused.   *)
(* How many slots a pool gives out may change, but only when a holder      *)
(* leaves, and it never passes Slots.  RequestAdmission implements this.   *)
(***************************************************************************)
EXTENDS Naturals, FiniteSets

CONSTANTS
    Client,               \* who may come
    Pool,                 \* the pools of slots
    PoolOf,               \* the pool each client wants a slot of
    Slots,                \* per pool, the slots there are
    Places,               \* per pool, the waiting places there are
    Choosy                \* clients that may be refused with slots free

VARIABLES
    stage,                \* where each client is
    open                  \* per pool, how many slots it gives out now

poolVars == <<stage, open>>

Init == /\ stage = [c \in Client |-> "outside"]
        /\ open = Slots

In(p, s) == {c \in Client : PoolOf[c] = p /\ stage[c] = s}

Full(p) == Cardinality(In(p, "holding")) >= open[p]

Moves(c, from, to) == /\ stage[c] \in from
                      /\ stage' = [stage EXCEPT ![c] = to]

Take(c) == /\ Moves(c, {"outside", "waiting"}, "holding")
           /\ ~Full(PoolOf[c])
           /\ UNCHANGED open

Wait(c) == /\ Moves(c, {"outside"}, "waiting")
           /\ Full(PoolOf[c])
           /\ Cardinality(In(PoolOf[c], "waiting")) < Places[PoolOf[c]]
           /\ UNCHANGED open

Refuse(c) == /\ Moves(c, {"outside", "waiting"}, "refused")
             /\ \/ Full(PoolOf[c])
                \/ stage[c] = "waiting"
                \/ c \in Choosy
             /\ UNCHANGED open

Release(c) == /\ Moves(c, {"holding"}, "released")
              /\ \A p \in Pool : open'[p] \in 0..Slots[p]

Next == \E c \in Client : Take(c) \/ Wait(c) \/ Refuse(c) \/ Release(c)

Spec == Init /\ [][Next]_poolVars

=============================================================================
