------------------------------- MODULE Ts7200 -------------------------------
(***************************************************************************)
(* The emulated machine (src/sys/ts7200/mod.rs): Ts7200::step, in turn one *)
(* guest instruction, the drain of the interrupt bus into the VICs and the *)
(* exceptions, or what stands for it while the CPU is halted; the Syscon   *)
(* registers that halt it (src/devices/syscon.rs); and the GDB client      *)
(* that, between two steps, writes registers and accesses the same bus     *)
(* (src/sys/ts7200/gdb.rs).                                                *)
(*                                                                         *)
(* A device is its interrupt line.  Its threads raise it at any time and   *)
(* only accesses lower it: module DeviceLine, which the UART is shown to   *)
(* implement.  A timer's interrupter sends `true` again at every tick, and *)
(* its Clear register sends `false` whenever it is written.                *)
(***************************************************************************)
EXTENDS Vic, Sequences

CONSTANTS
  BlockModes,    \* modes main may start in: TRUE without --gdb, FALSE with it
  Ticking,       \* those of Devices that are timers
  CfgVals,       \* SHena bits the guest writes to DeviceCfg
  MaxAccesses,   \* bound: accesses of one instruction (ldm, stm: up to 16)
  MaxBus         \* bound: messages on the bus when a device sends

ASSUME Ts7200Assumption ==
  /\ BlockModes \subseteq BOOLEAN
  /\ Ticking \subseteq Devices
  /\ CfgVals \subseteq BOOLEAN
  /\ MaxAccesses \in Nat \ {0}
  /\ MaxBus \in Nat \ {0}

VARIABLES
  pc,            \* where step() is
  blocking,      \* halt_block_mode: TRUE from run(), FALSE from the GDB stub
  power,         \* power_state
  sh_ena,        \* DeviceCfg bit 0
  locked,        \* is_locked
  mask_i,        \* CPSR I and F: the exception is masked
  mask_f,
  bus,           \* interrupt_bus
  line,          \* the level each device last sent
  accesses,      \* those the instruction under way has made
  \* history
  touched        \* the GDB client has edited the machine since the last step

cpu     == <<mask_i, mask_f>>
syscon  == <<power, sh_ena, locked>>
devices == <<bus, line>>
vars    == <<pc, blocking, vic, cpu, syscon, devices, accesses, touched>>

Init ==
  /\ VicInit
  /\ pc = "step" /\ blocking \in BlockModes
  /\ power = "Run" /\ sh_ena = FALSE /\ locked = TRUE
  /\ mask_i = TRUE /\ mask_f = TRUE      \* CPSR 0xd3
  /\ bus = <<>> /\ line = [i \in Devices |-> FALSE]
  /\ accesses = 0 /\ touched = FALSE

Send(i, level) ==
  /\ bus' = Append(bus, [int |-> i, level |-> level])
  /\ line' = [line EXCEPT ![i] = level]

-----------------------------------------------------------------------------
(***************************************************************************)
(* PowerState::Run: cpu.step, by the accesses the instruction makes.  What *)
(* leaves these variables alone, a step of a client included, needs none.  *)
(***************************************************************************)
Begin ==
  /\ pc = "step" /\ power = "Run" /\ pc' = "insn"
  /\ UNCHANGED <<vic, cpu, syscon, devices, accesses, touched>>

EndInstruction ==
  /\ pc = "insn" /\ pc' = "drain"
  /\ accesses' = 0
  /\ UNCHANGED <<vic, cpu, syscon, devices, touched>>

\* An unmapped or unimplemented address, or a breach of a device's contract
\* (Halt or Standby without SHena, a locked register, ...).  The instruction
\* goes on, and step() returns the error before it drains the bus, unless a
\* later access has left a mere warning in its place.
FatalAccess ==
  /\ pc = "insn" /\ pc' = "fatal"
  /\ UNCHANGED <<vic, cpu, syscon, devices, accesses, touched>>

\* read_addrs and write_addrs access the bus as the guest does, and
\* write_registers writes the CPSR; no step is under way, and none is taken.
ClientAccess ==
  /\ pc = "step" /\ ~blocking
  /\ touched' = TRUE
  /\ UNCHANGED <<pc, blocking, accesses>>

GuestAccess ==
  /\ pc = "insn" /\ accesses < MaxAccesses
  /\ accesses' = accesses + 1
  /\ UNCHANGED <<pc, blocking, touched>>

Access == GuestAccess \/ ClientAccess

\* An instruction that writes the CPSR (the return from a handler is one), or
\* the client.
WriteCpsr ==
  /\ Access
  /\ mask_i' \in BOOLEAN /\ mask_f' \in BOOLEAN
  /\ UNCHANGED <<vic, syscon, devices>>

\* write_addrs writes bytes, and one written to a register is its low byte.
LowByte == 0..7

AccessVic ==
  /\ \/ GuestAccess /\ WritesVic(Sources)
     \/ ClientAccess /\ WritesVic(LowByte)
  /\ UNCHANGED <<cpu, syscon, devices>>

\* An access to a device's registers that changes its line.
AccessDevice(i) ==
  /\ Access
  /\ Len(bus) < MaxBus
  /\ \/ i \notin Ticking /\ Send(i, ~line[i])
     \/ i \in Ticking /\ Send(i, FALSE)
  /\ UNCHANGED <<vic, cpu, syscon>>

ReadHalt ==
  /\ Access
  /\ sh_ena /\ power' = "Halt"
  /\ UNCHANGED <<vic, cpu, sh_ena, locked, devices>>

ReadStandby ==
  /\ Access
  /\ sh_ena /\ power' = "Standby"
  /\ UNCHANGED <<vic, cpu, sh_ena, locked, devices>>

WriteSysSWLock ==
  /\ Access
  /\ locked' = FALSE
  /\ UNCHANGED <<vic, cpu, power, sh_ena, devices>>

WriteDeviceCfg(v) ==
  /\ Access
  /\ ~locked /\ locked' = TRUE /\ sh_ena' = v
  /\ UNCHANGED <<vic, cpu, power, devices>>

\* The other lockable registers are unimplemented, but are locked again first:
\* an error reply for the client; the guest's instruction makes the accesses it
\* has left, and is fatal unless one of those fails with a warning only.
FailLockableWrite ==
  /\ Access
  /\ ~locked /\ locked' = TRUE
  /\ UNCHANGED <<vic, cpu, power, sh_ena, devices>>

-----------------------------------------------------------------------------
(***************************************************************************)
(* check_device_interrupts, in the Run branch and in the Halt branch.      *)
(***************************************************************************)
EnterHalt ==
  /\ pc = "step" /\ power = "Halt"
  /\ pc' = IF blocking THEN "recv" ELSE "drain_halt"
  /\ UNCHANGED <<vic, cpu, syscon, devices, accesses, touched>>

TakeMessage ==
  /\ bus # <<>>
  /\ Deliver(Head(bus).int, Head(bus).level)
  /\ bus' = Tail(bus)
  /\ UNCHANGED <<cpu, syscon, line, accesses, touched>>

\* Mutant: the message that ends the wait is thrown away.
RecvDropsMessage ==
  /\ pc = "recv" /\ pc' = "drain_halt"
  /\ bus # <<>> /\ bus' = Tail(bus)
  /\ UNCHANGED <<vic, cpu, syscon, line, accesses, touched>>

\* interrupt_bus.recv() blocks.
Recv == pc = "recv" /\ pc' = "drain_halt" /\ TakeMessage

DrainOne == pc \in {"drain", "drain_halt"} /\ UNCHANGED pc /\ TakeMessage

\* Mutant: `else if` between the two.
SignalElse ==
  /\ mask_f' = (mask_f \/ AnyFiq(vic))
  /\ mask_i' = (mask_i \/ IF AnyFiq(vic) THEN ~mask_f ELSE AnyIrq(vic))

(***************************************************************************)
(* FIQ, then IRQ.  The exception is taken if it is not masked, and masks   *)
(* IRQ, an FIQ both (armv4t_emu, which mod.rs relies on: it signals the    *)
(* level again after every instruction).                                   *)
(***************************************************************************)
Signal ==
  /\ mask_f' = (mask_f \/ AnyFiq(vic))
  /\ mask_i' = (mask_i \/ AnyIrq(vic) \/ (AnyFiq(vic) /\ ~mask_f))

\* Mutant: only one message is looked at.
EndRunEarly ==
  /\ pc = "drain"
  /\ Signal
  /\ pc' \in {"step"} \union (IF UNCHANGED cpu THEN {"exited"} ELSE {})
  /\ touched' = FALSE
  /\ UNCHANGED <<vic, syscon, devices, accesses>>

\* The end of the Run branch.  PC may be the bootloader's, unless it is that
\* of a handler just entered.
EndRun ==
  /\ pc = "drain" /\ bus = <<>>
  /\ Signal
  /\ pc' \in {"step"} \union (IF UNCHANGED cpu THEN {"exited"} ELSE {})
  /\ touched' = FALSE
  /\ UNCHANGED <<vic, syscon, devices, accesses>>

\* Mutant: an FIQ does not wake the CPU.
EndHaltIrqOnly ==
  /\ pc = "drain_halt" /\ bus = <<>>
  /\ Signal
  /\ power' = IF AnyIrq(vic) THEN "Run" ELSE power
  /\ pc' = "step"
  /\ touched' = FALSE
  /\ UNCHANGED <<vic, sh_ena, locked, devices, accesses>>

\* The end of the Halt branch.
EndHalt ==
  /\ pc = "drain_halt" /\ bus = <<>>
  /\ Signal
  /\ power' = IF AnyFiq(vic) \/ AnyIrq(vic) THEN "Run" ELSE power
  /\ pc' = "step"
  /\ touched' = FALSE
  /\ UNCHANGED <<vic, sh_ena, locked, devices, accesses>>

FatalStandby ==
  /\ pc = "step" /\ power = "Standby"
  /\ pc' = "fatal"
  /\ UNCHANGED <<vic, cpu, syscon, devices, accesses, touched>>

-----------------------------------------------------------------------------
(***************************************************************************)
(* The GDB client disconnects, between two steps, be the CPU halted or     *)
(* not: main goes on with run().                                           *)
(***************************************************************************)
Detach ==
  /\ pc = "step" /\ ~blocking /\ blocking' = TRUE
  /\ UNCHANGED <<pc, vic, cpu, syscon, devices, accesses, touched>>

\* A device's thread sends; a UART's does only when the line changes.
DeviceRaises(i) ==
  /\ Len(bus) < MaxBus
  /\ i \in Ticking \/ ~line[i]
  /\ Send(i, TRUE)
  /\ UNCHANGED <<pc, vic, cpu, syscon, accesses, touched>>

\* What the guest's instruction and the client can do to the machine.
Edit ==
  \/ WriteCpsr \/ AccessVic
  \/ \E i \in Devices : AccessDevice(i)
  \/ ReadHalt \/ ReadStandby \/ WriteSysSWLock
  \/ \E v \in CfgVals : WriteDeviceCfg(v)
  \/ FailLockableWrite

Check == EnterHalt \/ Recv \/ DrainOne \/ EndRun \/ EndHalt \/ FatalStandby

Stopped == pc \in {"exited", "fatal"}

\* step() gets on.
Step == (Begin \/ EndInstruction \/ FatalAccess \/ Check) /\ UNCHANGED blocking

Next ==
  \/ Step
  \/ Edit
  \/ Detach
  \/ \E i \in Devices : DeviceRaises(i) /\ UNCHANGED blocking
  \/ Stopped /\ UNCHANGED vars

(***************************************************************************)
(* The CPU thread keeps running: an instruction makes finitely many        *)
(* accesses, and a GDB client has the machine take another step in the end.*)
(* A drain does not see the bus refilled for ever: the shortest period of  *)
(* a timer is two microseconds, many turns of the loop over the bus (Load  *)
(* 0 apart, see the README).  Devices, guest and client owe no access, nor *)
(* does GDB ever let go.                                                   *)
(***************************************************************************)
Spec == Init /\ [][Next]_vars

FairSpec ==
  /\ Spec
  /\ WF_vars(Step)
  /\ SF_vars(EndRun /\ UNCHANGED blocking)
  /\ SF_vars(EndHalt /\ UNCHANGED blocking)
  /\ []<>(pc \in {"drain", "drain_halt"} => bus = <<>>)
=============================================================================
