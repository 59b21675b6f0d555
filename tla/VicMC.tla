------------------------------- MODULE VicMC -------------------------------
(***************************************************************************)
(* Values for the constants of Vic: two interrupts on VIC1, of which both  *)
(* may be given either vector, and one on VIC2.                            *)
(***************************************************************************)
EXTENDS Vic

OneSoft == {19}   \* Tc3Ui's source on VIC2

ThreeDevices == {"Tc1Ui", "Uart1TxIntr1", "Tc3Ui"}

SomeCntl ==
  {[source |-> s, enabled |-> TRUE] : s \in {4, 19, 24}}
    \union {[source |-> 4, enabled |-> FALSE]}
=============================================================================
