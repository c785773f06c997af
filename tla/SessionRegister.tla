---------------------------- MODULE SessionRegister ----------------------------
(***************************************************************************)
(* What a stored session promises: it is opened once, moves through its    *)
(* generations one refresh at a time, and once ended it never comes back.  *)
(***************************************************************************)
EXTENDS Naturals

VARIABLES
    phase,        \* "new", "live" or "ended"
    generation    \* refreshes of the live session

Init == phase = "new" /\ generation = 0

Open == phase = "new" /\ phase' = "live" /\ generation' = 0

Refresh == phase = "live" /\ phase' = "live" /\ generation' = generation + 1

End == phase = "live" /\ phase' = "ended" /\ generation' = 0

Next == Open \/ Refresh \/ End

Spec == Init /\ [][Next]_<<phase, generation>>
=============================================================================
