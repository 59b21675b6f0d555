------------------------- MODULE DebuggerProperties -------------------------
(***************************************************************************)
(* What somebody who debugs a kernel relies on.                            *)
(***************************************************************************)
EXTENDS Debugger

Events ==
  [op : {"None", "DoneStep", "Break", "Halted", "GdbInterrupt", "read",
         "write"},
   addr : Nat]

Instruction ==
  [n : 0..MaxAccesses, exc : Outcomes, hit : Events, seen : SUBSET Events,
   blind : BOOLEAN]

\* Every variable has its type; an instruction is under way only while the
\* machine runs, and once the dump is written it never does.
TypeOK ==
  /\ pc \in Pcs /\ power \in {"Run", "Halt", "Standby"}
  /\ init \subseteq 0..(RamSize - 1)
  /\ breakpoints \in Seq(Nat) /\ watchpoints \in Seq(Nat)
  /\ insn \in Instruction /\ (insn = NoInsn \/ insn.n > 0)
  /\ cycles \in 0..(CheckEvery - 1) /\ told \in Events
  /\ mode \in {"stopped", "step", "continue", "run", "fatal", "ended"}
  /\ {frozen, port, link, wish, dumped, fresh} \subseteq BOOLEAN
  /\ insn # NoInsn => Running /\ ~frozen
  /\ wish => mode = "continue"
  /\ dumped => mode = "ended" \/ frozen

Is == INSTANCE Debuggee WITH
  turn     <- IF mode = "stopped" THEN "client"
              ELSE IF Running THEN "guest" ELSE "none",
  attached <- mode # "run",
  dead     <- dumped,
  world    <- <<power, init>>,
  at       <- pc,
  asleep   <- power = "Halt" /\ insn = NoInsn,
  breaks   <- Range(breakpoints)

\* GDB "stops the world" (README.md:58): the guest changes nothing between
\* the client's commands, never runs past a breakpoint (unless that is where
\* it was resumed or woken), and never again after a fatal error.
IsDebuggee == Is!Spec

\* A watched address that an instruction has read or written with success
\* stops the client's Step or Continue, and the client is told one of those,
\* whatever else the instruction did.  (An access that only warns, as one of
\* uninitialised RAM, is not reported.)
WatchReported ==
  [][insn.n > 0 /\ insn' = NoInsn /\ insn.seen # {} /\ mode # "run" =>
       told' \in insn.seen \/ mode' \in {"ended", "fatal"}]_vars

\* "Accessing Uninitialized RAM logs a warning" (README.md:55): a read that
\* starts with a byte never written is what the instruction is going to be
\* logged for, whatever accesses of it succeed before and after.  (Only the
\* last access that fails is logged: one that fails after it takes its place.)
UninitIsTold == insn.blind /\ ~NoAsanRam => insn.exc = "Uninit"

\* The client gets the machine back: a Step ends, and a Continue ends after a
\* Ctrl-C, be the CPU asleep or the machine frozen.
StopsOnRequest ==
  mode = "step" \/ (mode = "continue" /\ wish) ~>
    mode \notin {"step", "continue"}
=============================================================================
