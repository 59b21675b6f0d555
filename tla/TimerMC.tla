------------------------------ MODULE TimerMC ------------------------------
(***************************************************************************)
(* Values for the constants of Timer: the fast clock makes a tick in half  *)
(* the time the slow one takes.                                            *)
(***************************************************************************)
EXTENDS TimerProperties

TwoClocks == [c \in Clocks |-> IF c = "Khz2" THEN 1 ELSE 2]

Loads     == {0, 1, 3, 6}     \* 6 is cut to 2 by the width
OddLoads  == {3}
=============================================================================
