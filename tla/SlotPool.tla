------------------------------ MODULE SlotPool ------------------------------
(***************************************************************************)
(* What the slots of internal/sessions/scheduler.go promise: a pool of     *)
(* Size slots, each free or held by one owner.  An owner takes a slot only *)
(* when one is free, hands it over to another owner, or gives it back,     *)
(* once; a restart of the server empties the pool.                         *)
(***************************************************************************)
EXTENDS Integers

CONSTANTS Owners, Size

VARIABLES owners, free

Init == owners = {} /\ free = Size

Take(o) ==
    /\ o \notin owners /\ free > 0
    /\ owners' = owners \union {o}
    /\ free' = free - 1

GiveBack(o) ==
    /\ o \in owners
    /\ owners' = owners \ {o}
    /\ free' = free + 1

HandOver(o, n) ==
    /\ o \in owners /\ n \notin owners
    /\ owners' = (owners \ {o}) \union {n}
    /\ UNCHANGED free

Empty == owners' = {} /\ free' = Size

Next ==
    \/ \E o \in Owners : Take(o) \/ GiveBack(o)
    \/ \E o, n \in Owners : HandOver(o, n)
    \/ Empty

Spec == Init /\ [][Next]_<<owners, free>>
=============================================================================
