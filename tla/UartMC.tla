------------------------------- MODULE UartMC -------------------------------
(***************************************************************************)
(* Values for the constants of Uart.  Which cause each run enables is what *)
(* its direction of traffic can set; {"ms", "tx"} and the like are what a  *)
(* CS 452 kernel writes.                                                   *)
(***************************************************************************)
EXTENDS UartProperties

RxCtrl   == {{}, {"rx"}, {"rt"}, {"rx", "rt"}}
TxCtrl   == {{}, {"tx"}, {"ms"}, {"ms", "tx"}}
MixCtrl  == {{}, {"rx", "tx"}, {"rt"}, {"ms", "tx"}}
LiveCtrl == {{}, {"tx", "rt"}}
NoCtrl   == {{}}

AnyFen == BOOLEAN
FenOn  == {TRUE}
NoVals == {}

\* A divisor without and with a byte in Mid.
MidChoice == {0, 1}
LowThree  == {3}

JustRun   == {"run"}
RunOrNone == {"run", "none"}
=============================================================================
