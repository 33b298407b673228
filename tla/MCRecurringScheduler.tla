----------------------- MODULE MCRecurringScheduler -----------------------
(* Finite instances of RecurringScheduler for TLC. *)
EXTENDS RecurringScheduler, TLC

CONSTANTS s1, s2

(* The clock, and the windows it goes through. *)
ShortClock == 0..1
MCKeys == Specs \X Targets \X Times

(* Windows of one and of two time units. *)
TwoIntervals == (s1 :> 1) @@ (s2 :> 2)

Symmetry == Permutations(Nodes) \cup Permutations(Targets)

(* Floor division puts every time in the window that contains it. *)
ASSUME WindowsPartitionTime ==
    \A now \in 0..30, length \in 1..7 :
        LET start == WindowStart(now, length)
        IN  start <= now /\ now < start + length /\ start % length = 0
=============================================================================
