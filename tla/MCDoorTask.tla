----------------------------- MODULE MCDoorTask -----------------------------
(***************************************************************************)
(* What happens to the door-lock firmware in the runs.                     *)
(***************************************************************************)
EXTENDS DoorTask

Campaign(keys, doors, left) == [keys |-> keys, doors |-> doors, left |-> left]

\* Both doors opened, one after the other; or every config key pressed while a
\* door is opened and moved
OpenedOrConfigured == {Campaign({0, 1}, {}, 4), Campaign({0, 4, 5, 6, 7}, {0}, 2)}

\* A door opened while config mode is on
TimersStarted == {Campaign({0, 7}, {}, 2)}

\* Doors opened and moved
OpenedAndMoved == {Campaign({0, 1}, {0, 1}, 3)}

\* One door opened; both opened
OpenedOnce  == {Campaign({0, 1}, {}, 2)}
OpenedTwice == {Campaign({0, 1}, {}, 4)}
=============================================================================
