------------------------------ MODULE MemoryBus ------------------------------
(***************************************************************************)
(* One access by the CPU or by the debugger to the 32 bit address space,   *)
(* here a few bytes of RAM followed by device registers: the decoding of   *)
(* Ts7200Bus (src/sys/ts7200/mod.rs), the widths a device answers to       *)
(* (src/memory/mod.rs), and what the RAM knows of its own initialisation   *)
(* (src/devices/ram.rs).  A value is of no interest; whether the access    *)
(* succeeds, and with which exception it fails, is.                        *)
(***************************************************************************)
EXTENDS Integers

CONSTANTS
  RamSize,    \* bytes of RAM, at addresses 0..RamSize-1
  Register    \* what each device register, by its address, does

\* A register works as documented, is a stub, can only be written, breaks a
\* contract of its device whatever is done to it, is not there (uart3_hack
\* without --hack-uart3-enable), or is Syscon's Halt or Standby with SHena
\* set.
RegisterKinds ==
  {"plain", "stub", "write_only", "strict", "absent", "halt", "standby"}

ASSUME MemoryAssumption ==
  /\ RamSize \in Nat /\ RamSize % 4 = 0
  /\ Register \in [DOMAIN Register -> RegisterKinds]
  /\ \A a \in DOMAIN Register : a \in Nat /\ a >= RamSize /\ a % 4 = 0

Access == [op : {"read", "write"}, size : {1, 2, 4}, addr : Nat]

\* The outcomes of an access (src/memory/exception.rs): success, or a
\* MemException.  RAM's ContractViolation is a warning, a device's an error.
Outcomes ==
  {"Ok", "Uninit", "Violation", "StubRead", "StubWrite", "InvalidAccess",
   "Misaligned", "Unimplemented", "Unexpected"}

\* Those that Ts7200::handle_mem_exception turns into a FatalError; it logs
\* the others.
Fatal == {"Violation", "Misaligned", "Unimplemented", "Unexpected"}

-----------------------------------------------------------------------------
(***************************************************************************)
(* RAM, of which the bytes in init have been written.                      *)
(***************************************************************************)
InRam(addr) == addr \in 0..(RamSize - 1)

Bytes(a) == a.addr..(a.addr + a.size - 1)

\* Ram::r8, r16, r32: a word whose aligned address has been written passes,
\* whatever its other bytes are.
ReadRam(init, a) ==
  IF \/ Bytes(a) \subseteq init
     \/ a.size = 4 /\ a.addr - (a.addr % 4) \in init
  THEN "Ok" ELSE "Uninit"

-----------------------------------------------------------------------------
(***************************************************************************)
(* Devices: registers of 32 bits.                                          *)
(***************************************************************************)

\* What each kind of register answers.
OnRead ==
  [plain |-> "Ok", stub |-> "StubRead", write_only |-> "InvalidAccess",
   strict |-> "Unimplemented", halt |-> "Ok", standby |-> "Ok"]

OnWrite ==
  [plain |-> "Ok", stub |-> "StubWrite", write_only |-> "Ok",
   strict |-> "Violation", halt |-> "InvalidAccess",
   standby |-> "InvalidAccess"]

\* No device is there, or it is an Option that is None.
Unmapped(base) == base \notin DOMAIN Register \/ Register[base] = "absent"

\* A device's r8, r16, w8 and w16 are Memory's own: an offset that is no
\* multiple of four is Misaligned, any other is an access of the register.
\* What is no register is Unexpected (or Misaligned, which is as fatal).
OfDevice(a) ==
  LET base == a.addr - (a.addr % 4) IN
  IF Unmapped(base) THEN "Unexpected"
  ELSE IF a.addr # base
    THEN IF a.size < 4 THEN "Misaligned" ELSE "Unexpected"
  ELSE IF a.op = "read" THEN OnRead[Register[base]]
                        ELSE OnWrite[Register[base]]

-----------------------------------------------------------------------------
\* What the access answers.  (asan is off with --no-asan-ram.)
Outcome(asan, init, a) ==
  IF ~InRam(a.addr) THEN OfDevice(a)
  ELSE IF a.op = "read" /\ asan THEN ReadRam(init, a) ELSE "Ok"

\* The initialised bytes of the RAM afterwards.
InitAfter(init, a) ==
  IF InRam(a.addr) /\ a.op = "write" THEN init \cup Bytes(a) ELSE init

\* Syscon's power state afterwards: reading Halt or Standby enters it, at any
\* width and whoever reads.
PowerAfter(power, a) ==
  IF a.op # "read" \/ a.addr \notin DOMAIN Register THEN power
  ELSE IF Register[a.addr] = "halt" THEN "Halt"
  ELSE IF Register[a.addr] = "standby" THEN "Standby" ELSE power
=============================================================================
