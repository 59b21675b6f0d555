------------------------------ MODULE Debugger ------------------------------
(***************************************************************************)
(* The emulator under a GDB client: main (src/main.rs), the stub's target  *)
(* (src/sys/ts7200/gdb.rs) and Ts7200::step as it concerns them            *)
(* (src/sys/ts7200/mod.rs), with the accesses of one instruction going     *)
(* through the watchpoints' MemSniffer and the MemoryAdapter one by one.   *)
(*                                                                         *)
(* The CPU is its program counter; an instruction is a fetch and some      *)
(* accesses, and goes anywhere.  The interrupts, which Ts7200 models, may  *)
(* here come at any step.  The client, and the gdbstub crate that reads    *)
(* its packets, are external.                                              *)
(***************************************************************************)
EXTENDS MemoryBus, Sequences, SequencesExt

CONSTANTS
  Pcs,          \* addresses the program counter takes, among them
  Vector,       \* an interrupt handler's and
  Exit,         \* HLE_BOOTLOADER_LR's, the way back to the bootloader
  Accesses,     \* what the guest's instructions do to memory
  MaxAccesses,  \* bound: accesses of one instruction, its fetch included
  Loaded,       \* RAM that new_hle has written
  Marks,        \* addresses the client sets break- and watchpoints on
  Pokes,        \* addresses the client reads and writes
  MaxMarks,     \* bound: break- and watchpoints set
  CheckEvery,   \* instructions between two looks for Ctrl-C (1024)
  NoAsanRam     \* --no-asan-ram

ASSUME DebuggerAssumption ==
  /\ Pcs \subseteq Nat /\ {Vector, Exit} \subseteq Pcs
  /\ Accesses \subseteq Access /\ MaxAccesses \in Nat \ {0}
  /\ \A a \in Accesses : InRam(a.addr) => Bytes(a) \subseteq 0..(RamSize - 1)
  /\ Loaded \subseteq 0..(RamSize - 1)
  /\ Marks \subseteq Nat /\ Pokes \subseteq Nat
  /\ MaxMarks \in Nat /\ CheckEvery \in Nat \ {0} /\ NoAsanRam \in BOOLEAN

VARIABLES
  pc,           \* the CPU's registers
  power,        \* Syscon's power state
  init,         \* bytes of RAM that have been written
  breakpoints, watchpoints, frozen,   \* of Ts7200
  insn,         \* the instruction under way
  cycles,       \* of resume, modulo CheckEvery
  mode,         \* where main is, or what the client has it do
  told,         \* the stop reason last told
  port,         \* a debugger was asked for (-g)
  link,         \* the client is connected
  wish,         \* and has sent a Ctrl-C that was not read yet
  dumped,       \* the system dump has been written
  fresh         \* history: pc was reached by a resume or a wake-up

machine == <<pc, power, init>>
points  == <<breakpoints, watchpoints>>
session == <<cycles, mode, told, wish, fresh>>
vars ==
  <<machine, points, frozen, insn, session, port, link, dumped>>

\* What step() returns: a watched access, or a name alone; None is no event.
Plain(name) == [op |-> name, addr |-> 0]

None == Plain("None")

Watched(a) == [op |-> a.op, addr |-> a.addr]

\* No instruction is under way.  Of one that is: the accesses so far, the
\* exception the MemoryAdapter holds and the watched access the MemSniffer
\* reported; and, for the properties, all watched accesses that succeeded,
\* and whether RAM was read that nobody had written, with no access failing
\* since.
NoInsn ==
  [n |-> 0, exc |-> "Ok", hit |-> None, seen |-> {}, blind |-> FALSE]

Running == mode \in {"step", "continue", "run"}

Init ==
  /\ pc \in Pcs \ {Vector, Exit} /\ power = "Run" /\ init = Loaded
  /\ breakpoints = <<>> /\ watchpoints = <<>>
  /\ frozen = FALSE /\ dumped = FALSE /\ insn = NoInsn
  /\ port \in BOOLEAN /\ link = port
  /\ mode = (IF port THEN "stopped" ELSE "run")
  /\ cycles = 0 /\ told = None /\ wish = FALSE /\ fresh = TRUE

-----------------------------------------------------------------------------
(***************************************************************************)
(* What resume and run make of the end of a step.                          *)
(***************************************************************************)

\* The client is told, and reads and drops what it sent meanwhile.  Halted
\* ends the session, and main.
Stop(reason) ==
  /\ mode' = (IF reason = Plain("Halted") THEN "ended" ELSE "stopped")
  /\ told' = reason
  /\ cycles' = 0 /\ wish' = FALSE /\ fresh' = TRUE

\* Mutant: cycles are counted only while the CPU runs.
CountRunning == IF power = "Run" THEN (cycles + 1) % CheckEvery ELSE cycles

Count == (cycles + 1) % CheckEvery

\* A connection that is gone is found out at the same look, and reported
\* the same way.
Interrupted == Count = 0 /\ (wish \/ ~link)

\* step() has returned event; passed says whether the CPU stands where no
\* breakpoint was looked for.
Returns(event, passed) ==
  \/ /\ mode = "run"
     /\ mode' = (IF event = Plain("Halted") THEN "ended" ELSE "run")
     /\ UNCHANGED <<cycles, told, wish, fresh>>
  \/ /\ mode = "step"
     /\ Stop(IF event = None THEN Plain("DoneStep") ELSE event)
  \/ /\ mode = "continue" /\ event # None
     /\ Stop(event)
  \/ /\ mode = "continue" /\ event = None
     /\ IF Interrupted THEN Stop(Plain("GdbInterrupt"))
        ELSE /\ cycles' = Count /\ fresh' = passed
             /\ UNCHANGED <<mode, told, wish>>

\* step() has failed: TargetError for the stub, and the end of run.
Fails ==
  /\ mode' = "fatal" /\ told' = None
  /\ cycles' = 0 /\ wish' = FALSE /\ fresh' = TRUE

-----------------------------------------------------------------------------
(***************************************************************************)
(* Ts7200::step.                                                           *)
(***************************************************************************)
StepBegins == Running /\ insn = NoInsn /\ ~frozen

\* MemoryAdapter keeps the last exception of an instruction.  Mutant: each
\* access sets it, and a success clears it.
StashEach(exc, outcome) == outcome

Stash(exc, outcome) == IF outcome = "Ok" THEN exc ELSE outcome

\* MemSniffer reports an access to a watched address that succeeded, and the
\* last one is kept.  Mutant: each access sets it.
SniffEach(hit, a, outcome) ==
  IF outcome = "Ok" /\ a.addr \in Range(watchpoints)
  THEN Watched(a) ELSE None

Sniff(hit, a, outcome) ==
  IF outcome = "Ok" /\ a.addr \in Range(watchpoints)
  THEN Watched(a) ELSE hit

\* RAM is read in its natural alignment, and what is read starts with a byte
\* that nobody has written.
Blind(a) ==
  /\ a.op = "read" /\ InRam(a.addr)
  /\ a.addr % a.size = 0 /\ a.addr \notin init

Accessing(a) ==
  LET outcome == Outcome(~NoAsanRam, init, a) IN
  /\ insn' =
       [n     |-> insn.n + 1,
        exc   |-> Stash(insn.exc, outcome),
        hit   |-> Sniff(insn.hit, a, outcome),
        seen  |-> insn.seen \cup
                    (IF outcome = "Ok" /\ a.addr \in Range(watchpoints)
                     THEN {Watched(a)} ELSE {}),
        blind |-> (insn.blind /\ outcome = "Ok") \/ Blind(a)]
  /\ init' = InitAfter(init, a)
  /\ power' = PowerAfter(power, a)
  /\ UNCHANGED <<pc, points, frozen, session, port, link, dumped>>

Fetch ==
  /\ StepBegins /\ power = "Run"
  /\ Accessing([op |-> "read", size |-> 4, addr |-> pc])

AccessMemory ==
  /\ insn.n \in 1..(MaxAccesses - 1)
  /\ \E a \in Accesses : Accessing(a)

\* The CPU has executed the instruction, and a fatal exception ends the step
\* before anything else is looked at.
EndInFatal ==
  /\ insn.n > 0 /\ insn.exc \in Fatal
  /\ Fails
  /\ pc' \in Pcs
  /\ insn' = NoInsn
  /\ UNCHANGED <<power, init, points, frozen, port, link, dumped>>

\* Mutant: the breakpoints are compared with the address before interrupts
\* are taken.
EventEarly(next, now) ==
  IF now = Exit THEN Plain("Halted")
  ELSE IF insn.hit # None THEN insn.hit
  ELSE IF next \in Range(breakpoints) THEN Plain("Break") ELSE None

\* What the step returns when the instruction leads to next and the CPU, an
\* interrupt taken or not, is at now.
EventOf(next, now) ==
  IF now = Exit THEN Plain("Halted")
  ELSE IF insn.hit # None THEN insn.hit
  ELSE IF now \in Range(breakpoints) THEN Plain("Break") ELSE None

EndInstruction ==
  /\ insn.n > 0 /\ insn.exc \notin Fatal
  /\ \E next \in Pcs, taken \in BOOLEAN :
       /\ pc' = (IF taken THEN Vector ELSE next)
       /\ Returns(EventOf(next, pc'), FALSE)
  /\ insn' = NoInsn
  /\ UNCHANGED <<power, init, points, frozen, port, link, dumped>>

\* Halt: interrupts are looked for, and one that is pending ends it, with or
\* without the CPU taking it.
HaltStep ==
  /\ StepBegins /\ power = "Halt"
  /\ \/ /\ Returns(None, fresh)
        /\ UNCHANGED <<pc, power>>
     \/ /\ power' = "Run" /\ pc' \in {pc, Vector}
        /\ Returns(None, TRUE)
  /\ UNCHANGED <<init, points, frozen, insn, port, link, dumped>>

StandbyStep ==
  /\ StepBegins /\ power = "Standby"
  /\ Fails
  /\ UNCHANGED <<machine, points, frozen, insn, port, link, dumped>>

FrozenStep ==
  /\ Running /\ frozen
  /\ Returns(None, fresh)
  /\ UNCHANGED <<machine, points, frozen, insn, port, link, dumped>>

-----------------------------------------------------------------------------
(***************************************************************************)
(* main, after a fatal error.                                              *)
(***************************************************************************)

\* Mutant: the post-mortem session starts on a machine that still runs.
DumpUnfrozen ==
  /\ mode = "fatal" /\ dumped' = TRUE
  /\ mode' = (IF port THEN "stopped" ELSE "ended")
  /\ UNCHANGED <<machine, points, frozen, insn, cycles, told, wish, fresh,
                 port, link>>

\* The dump is written; with a debugger the machine is frozen, and the
\* client gets another session.
Dump ==
  /\ mode = "fatal" /\ dumped' = TRUE
  /\ mode' = (IF port THEN "stopped" ELSE "ended")
  /\ frozen' = port
  /\ UNCHANGED <<machine, points, insn, cycles, told, wish, fresh, port, link>>

\* Writing the dump fails, and main returns that error at once.
DumpFails ==
  /\ mode = "fatal" /\ mode' = "ended"
  /\ UNCHANGED <<machine, points, frozen, insn, cycles, told, wish, fresh,
                 port, link, dumped>>

\* The stub finds its connection gone: main returns the error.
SessionFails ==
  /\ mode = "stopped" /\ ~link
  /\ mode' = "ended"
  /\ UNCHANGED <<machine, points, frozen, insn, cycles, told, wish, fresh,
                 port, link, dumped>>

-----------------------------------------------------------------------------
(***************************************************************************)
(* The client's commands, and what the target does with each.              *)
(***************************************************************************)
Commands == mode = "stopped" /\ link

Quiet == UNCHANGED <<frozen, insn, session, port, link, dumped>>

HasRoom == Len(breakpoints) + Len(watchpoints) < MaxMarks

AddBreakpoint(a) ==
  /\ Commands /\ HasRoom
  /\ breakpoints' = Append(breakpoints, a)
  /\ UNCHANGED <<machine, watchpoints>> /\ Quiet

\* The first of several at the address goes.
RemoveBreakpoint(a) ==
  /\ Commands
  /\ breakpoints' = RemoveFirst(breakpoints, a)
  /\ UNCHANGED <<machine, watchpoints>> /\ Quiet

\* For writes, reads or both: the kind is not kept.
AddWatchpoint(a) ==
  /\ Commands /\ HasRoom
  /\ watchpoints' = Append(watchpoints, a)
  /\ UNCHANGED <<machine, breakpoints>> /\ Quiet

RemoveWatchpoint(a) ==
  /\ Commands
  /\ watchpoints' = RemoveFirst(watchpoints, a)
  /\ UNCHANGED <<machine, breakpoints>> /\ Quiet

\* read_addrs and write_addrs, one address at a time (a range is the same
\* calls, up to the first that fails): the accesses of a guest, and with
\* their effects.
ReadAddrs(a) ==
  /\ Commands
  /\ power' = PowerAfter(power, [op |-> "read", size |-> 1, addr |-> a])
  /\ UNCHANGED <<pc, init, points>> /\ Quiet

WriteAddrs(a) ==
  /\ Commands
  /\ init' = InitAfter(init, [op |-> "write", size |-> 1, addr |-> a])
  /\ UNCHANGED <<pc, power, points>> /\ Quiet

WriteRegisters ==
  /\ Commands
  /\ pc' \in Pcs
  /\ UNCHANGED <<power, init, points>> /\ Quiet

Resume(action) ==
  /\ Commands
  /\ mode' = action /\ told' = None
  /\ cycles' = 0 /\ wish' = FALSE /\ fresh' = TRUE
  /\ UNCHANGED <<machine, points, frozen, insn, port, link, dumped>>

\* "Disconnected from GDB. Shutting down.", and the machine runs on; a
\* post-mortem session just ends.
Disconnect ==
  /\ Commands
  /\ mode' = (IF dumped THEN "ended" ELSE "run") /\ told' = None
  /\ UNCHANGED <<machine, points, frozen, insn, cycles, wish, fresh,
                 port, link, dumped>>

Kill ==
  /\ Commands
  /\ mode' = "ended"
  /\ UNCHANGED <<machine, points, frozen, insn, cycles, told, wish, fresh,
                 port, link, dumped>>

Interrupt ==
  /\ mode = "continue" /\ link /\ ~wish
  /\ wish' = TRUE
  /\ UNCHANGED <<machine, points, frozen, insn, cycles, mode, told, fresh,
                 port, link, dumped>>

HangUp ==
  /\ link /\ mode # "ended"
  /\ link' = FALSE
  /\ UNCHANGED <<machine, points, frozen, insn, session, port, dumped>>

-----------------------------------------------------------------------------
Step ==
  \/ Fetch \/ AccessMemory \/ EndInFatal \/ EndInstruction
  \/ HaltStep \/ StandbyStep \/ FrozenStep

Main == Dump \/ DumpFails \/ SessionFails

Client ==
  \/ \E a \in Marks :
       \/ AddBreakpoint(a) \/ RemoveBreakpoint(a)
       \/ AddWatchpoint(a) \/ RemoveWatchpoint(a)
  \/ \E a \in Pokes : ReadAddrs(a) \/ WriteAddrs(a)
  \/ WriteRegisters
  \/ \E action \in {"step", "continue"} : Resume(action)
  \/ Disconnect \/ Kill \/ Interrupt \/ HangUp

Ended == mode = "ended" /\ UNCHANGED vars

Next == Step \/ Main \/ Client \/ Ended

Spec == Init /\ [][Next]_vars

\* The thread that steps the machine is never stopped by the others.
FairSpec == Spec /\ WF_vars(Step \/ Main)
=============================================================================
