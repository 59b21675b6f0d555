------------------------------ MODULE Ts7200MC ------------------------------
(***************************************************************************)
(* Values for the constants of Ts7200: a timer on VIC1 and a UART on VIC2. *)
(***************************************************************************)
EXTENDS Ts7200Properties

TimerAndUart == {"Tc1Ui", "IntUart1"}
OneTimer     == {"Tc1Ui"}
OneUart      == {"IntUart1"}

ShenaOn == {TRUE}
NoGdb   == {TRUE}
AnyMode == BOOLEAN
Nothing == {}
=============================================================================
