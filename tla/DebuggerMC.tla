----------------------------- MODULE DebuggerMC -----------------------------
(***************************************************************************)
(* Values for the constants of Debugger: two words of code, of which the   *)
(* first is the handler's, a word of data that nobody has written, and     *)
(* registers of each kind.                                                 *)
(***************************************************************************)
EXTENDS DebuggerProperties, TLC

Read(n, a)  == [op |-> "read", size |-> n, addr |-> a]
Write(n, a) == [op |-> "write", size |-> n, addr |-> a]

Code == 0..7
Registers ==
  (12 :> "plain") @@ (16 :> "stub") @@ (20 :> "strict")
  @@ (24 :> "write_only") @@ (28 :> "absent") @@ (32 :> "halt")
  @@ (36 :> "standby")

SomeAccesses ==
  {Read(1, 8), Read(2, 10), Read(4, 8), Write(1, 8), Write(1, 9), Write(2, 10),
   Read(4, 12), Write(4, 12), Read(1, 13), Read(4, 16), Write(4, 20),
   Read(4, 24), Read(4, 32), Read(4, 36)}

SomePcs   == {0, 4, 8, 28}
SomeMarks == {0, 8}
SomePokes == {8, 32}
=============================================================================
