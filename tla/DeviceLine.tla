----------------------------- MODULE DeviceLine -----------------------------
(***************************************************************************)
(* One interrupt line of a device other than a timer, as Ts7200 takes it   *)
(* to be (DeviceRaises, AccessDevice, TakeMessage): a level, the messages  *)
(* on the interrupt bus that tell of its changes, and the level the VIC    *)
(* has been told.  The device's threads only ever raise the line; only     *)
(* accesses lower it, and they are made while the bus is not being drained,*)
(* as many between two drains as an instruction or a GDB client makes.     *)
(***************************************************************************)
EXTENDS Sequences

VARIABLES
  turn,    \* CPU thread: making accesses, draining the bus, or stopped
  line,    \* the level last sent
  bus,     \* levels sent and not yet delivered
  seen     \* the level in the VIC

vars == <<turn, line, bus, seen>>

Init == turn = "guest" /\ line = FALSE /\ bus = <<>> /\ seen = FALSE

Send(level) == line' = level /\ bus' = Append(bus, level)

Raise == ~line /\ Send(TRUE) /\ UNCHANGED <<turn, seen>>

Access == turn = "guest" /\ Send(~line) /\ UNCHANGED <<turn, seen>>

EndInstruction ==
  /\ turn = "guest" /\ turn' = "drain"
  /\ UNCHANGED <<line, bus, seen>>

Deliver ==
  /\ turn = "drain" /\ bus # <<>>
  /\ seen' = Head(bus) /\ bus' = Tail(bus)
  /\ UNCHANGED <<turn, line>>

EndDrain ==
  /\ turn = "drain" /\ bus = <<>> /\ turn' = "guest"
  /\ UNCHANGED <<line, bus, seen>>

Stop == turn # "off" /\ turn' = "off" /\ UNCHANGED <<line, bus, seen>>

Next == Raise \/ Access \/ EndInstruction \/ Deliver \/ EndDrain \/ Stop

Spec == Init /\ [][Next]_vars
=============================================================================
