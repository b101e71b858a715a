----------------------------- MODULE Interlock -----------------------------
(***************************************************************************)
(* What the door controller promises about its relays: of all doors at     *)
(* most one is unlocked, and a door is unlocked only when every other is   *)
(* already locked, so that a swap from one door to another passes through  *)
(* a moment with all of them locked.                                       *)
(***************************************************************************)
CONSTANT Door

VARIABLE unlocked   \* the doors whose relay is released

Init == unlocked = {}

Unlock(d) ==
    /\ unlocked \subseteq {d}
    /\ unlocked' = {d}

Lock(d) == unlocked' = unlocked \ {d}

Next == \E d \in Door : Unlock(d) \/ Lock(d)

Spec == Init /\ [][Next]_unlocked
=============================================================================
