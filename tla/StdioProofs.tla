---------------------------- MODULE StdioProofs ----------------------------
(***************************************************************************)
(* The terminal is never left in raw mode, and keys are never read outside *)
(* of it, for any number of characters queued.                             *)
(***************************************************************************)
EXTENDS StdioProperties, TLAPS

Readers == {"unborn", "read", "ctrl_c", "forward", "done"}
Writers ==
  {"starting", "select", "write", "tail", "tail_write", "restore", "done",
   "panicked"}

TypeInv ==
  /\ tty \in BOOLEAN /\ raw \in BOOLEAN
  /\ main \in {"boot", "run", "drop", "join"}
  /\ process \in {"up", "exited", "returned", "panicked"}
  /\ reader \in Readers /\ writer \in Writers

\* Where the writer stands says what the terminal is in; the reader is only
\* spawned once the writer is past its start.
ModeInv ==
  /\ writer = "starting" => ~raw /\ reader = "unborn" /\ main = "boot"
  /\ writer \in {"done", "panicked"} => ~raw
  /\ Up /\ writer \notin {"starting", "done", "panicked"} => raw = tty
  /\ ~Up => ~raw

Inv == TypeInv /\ ModeInv

-----------------------------------------------------------------------------
\* A step of the reader leaves the terminal and the writer alone.
LEMMA ReaderKeeps ==
  ASSUME Inv, ReadKey \/ StdinEnds \/ SendCtrlC \/ Forward
  PROVE  Inv'
<1>1. reader' \in Readers /\ reader # "unborn"
  BY DEF Inv, TypeInv, Readers, ReadKey, StdinEnds, SendCtrlC, Forward
<1>2. UNCHANGED <<tty, raw, main, process, writer>>
  BY DEF ReadKey, StdinEnds, SendCtrlC, Forward, ReaderOnly
<1>. QED  BY <1>1, <1>2 DEF Inv, TypeInv, ModeInv, Up

\* A step of the writer changes the mode where it changes its place.
LEMMA WriterKeeps ==
  ASSUME Inv, Writer \/ WriteFails \/ TakeCtrlC
  PROVE  Inv'
<1>0. UNCHANGED <<tty, main, reader>>
  BY DEF Writer, WriteFails, TakeCtrlC, Start, TakeCharacter, Write,
         ReaderGone, OutputEnds, Restore, WriterOnly
<1>1. CASE Start
  BY <1>0, <1>1 DEF Inv, TypeInv, ModeInv, Up, Start, Writers
<1>2. CASE TakeCharacter \/ Write \/ ReaderGone \/ OutputEnds
  <2>1. /\ writer' \in {"select", "write", "tail", "tail_write", "restore"}
        /\ writer \notin {"starting", "done", "panicked"}
        /\ UNCHANGED <<raw, process>>
    BY <1>2 DEF TakeCharacter, Write, ReaderGone, OutputEnds
  <2>. QED  BY <1>0, <2>1 DEF Inv, TypeInv, ModeInv, Up, Writers
<1>3. CASE Restore
  BY <1>0, <1>3 DEF Inv, TypeInv, ModeInv, Up, Restore, Writers
<1>4. CASE WriteFails
  BY <1>0, <1>4 DEF Inv, TypeInv, ModeInv, Up, WriteFails, Writers
<1>5. CASE TakeCtrlC
  BY <1>0, <1>5 DEF Inv, TypeInv, ModeInv, Up, TakeCtrlC, Writers
<1>. QED  BY <1>1, <1>2, <1>3, <1>4, <1>5 DEF Writer

\* main spawns the reader after the writer's start, and ends the process
\* after the writer's end.
LEMMA MainKeeps ==
  ASSUME Inv, Main \/ StartDrop \/ \E c \in {"plain", "marked"} : Send(c)
  PROVE  Inv'
<1>0. UNCHANGED <<tty, raw, writer>>
  BY DEF Main, StartDrop, Send, SpawnReader, InputThreadEnds,
         OutputThreadEnds, JoinThreads, JoinWriter, MainOnly
<1>1. CASE SpawnReader
  BY <1>0, <1>1 DEF Inv, TypeInv, ModeInv, Up, SpawnReader, Readers
<1>2. CASE JoinWriter
  BY <1>0, <1>2 DEF Inv, TypeInv, ModeInv, Up, JoinWriter
<1>3. CASE \/ InputThreadEnds \/ OutputThreadEnds \/ JoinThreads \/ StartDrop
           \/ \E c \in {"plain", "marked"} : Send(c)
  <2>1. /\ main # "boot" /\ main' \in {"run", "drop", "join"}
        /\ UNCHANGED <<process, reader>>
    BY <1>3 DEF InputThreadEnds, OutputThreadEnds, JoinThreads, StartDrop, Send
  <2>. QED  BY <1>0, <2>1 DEF Inv, TypeInv, ModeInv, Up
<1>. QED  BY <1>1, <1>2, <1>3 DEF Main

-----------------------------------------------------------------------------
THEOREM Invariance == Spec => []Inv
<1>1. Init => Inv
  BY DEF Init, Inv, TypeInv, ModeInv, Up, Readers, Writers
<1>2. Inv /\ [Next]_vars => Inv'
  <2>. SUFFICES ASSUME Inv, [Next]_vars PROVE Inv'  OBVIOUS
  <2>1. CASE UNCHANGED vars
    BY <2>1 DEF Inv, TypeInv, ModeInv, Up, vars
  <2>2. CASE Ended
    BY <2>2 DEF Inv, TypeInv, ModeInv, Up, vars, Ended
  <2>. QED
    BY <2>1, <2>2, ReaderKeeps, WriterKeeps, MainKeeps DEF Next
<1>. QED  BY <1>1, <1>2, PTL DEF Spec

\* Keys are read in raw mode only, and no way out of the process, be it
\* Ctrl-C, a failed write or main's end, leaves the terminal in it.
THEOREM TerminalRestored == Spec => []TerminalMode
<1>1. Inv => TerminalMode
  BY DEF Inv, TypeInv, ModeInv, TerminalMode
<1>. QED  BY <1>1, Invariance, PTL
=============================================================================
