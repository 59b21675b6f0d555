------------------------------- MODULE Stdio -------------------------------
(***************************************************************************)
(* A UART on the terminal (src/devices/uart/iothreads/stdio.rs): a reader  *)
(* thread that takes keys from stdin and a writer thread that prints what  *)
(* the UART sends, keeps the terminal in raw mode, and ends the process    *)
(* when the reader tells it of a Ctrl-C.  With them main, which hooks them *)
(* up and, when it drops the UART, joins the writer only.                  *)
(*                                                                         *)
(* All characters the UART sends are alike but one, the marked one.        *)
(***************************************************************************)
EXTENDS Naturals, Sequences

CONSTANT MaxQueue   \* bound: characters in uart_output when one more is sent

ASSUME StdioAssumption == MaxQueue \in Nat \ {0}

VARIABLES
  tty,        \* stdout is a terminal
  raw,        \* it is in raw mode
  main,       \* main: "boot", "run", "drop" (of the UART), "join"
  process,    \* "up", or ended: "exited" by the writer, "returned" from
              \* main, "panicked" with main
  listening,  \* the UART's input thread holds the receiver of uart_input
  sending,    \* its output thread holds the sender of uart_output
  uart_output,
  marked,     \* the marked character has been sent, and ...
  shown,      \* ... printed
  reader, writer,   \* where the two threads are
  hand,       \* the character the writer prints
  ctrl_c      \* a CtrlC is in the channel (of capacity 1) to the writer

uart == <<listening, sending, marked>>
vars ==
  <<tty, raw, main, process, uart, uart_output, shown, reader, writer, hand,
    ctrl_c>>

Init ==
  /\ tty \in BOOLEAN /\ raw = FALSE
  /\ main = "boot" /\ process = "up"
  /\ listening = TRUE /\ sending = TRUE /\ uart_output = <<>>
  /\ marked = FALSE /\ shown = FALSE
  /\ reader = "unborn" /\ writer = "starting" /\ hand = <<>>
  /\ ctrl_c = FALSE

Up == process = "up"

-----------------------------------------------------------------------------
(***************************************************************************)
(* The reader thread.                                                      *)
(***************************************************************************)
ReaderOnly == UNCHANGED <<tty, raw, main, process, uart, uart_output, shown,
                          writer, hand>>

\* A key, or what is piped into stdin: 3 is Ctrl-C.
ReadKey ==
  /\ Up /\ reader = "read"
  /\ reader' \in {"ctrl_c", "forward"}
  /\ ReaderOnly /\ UNCHANGED ctrl_c

\* End of stdin, or an error: the thread ends, and drops its channels.
StdinEnds ==
  /\ Up /\ reader = "read" /\ reader' = "done"
  /\ ReaderOnly /\ UNCHANGED ctrl_c

\* send().unwrap() waits while a CtrlC is in the channel, and panics when the
\* writer is gone.
SendCtrlC ==
  /\ Up /\ reader = "ctrl_c"
  /\ \/ writer \in {"done", "panicked"} /\ reader' = "done"
        /\ UNCHANGED ctrl_c
     \/ writer \notin {"done", "panicked"} /\ ~ctrl_c
        /\ ctrl_c' = TRUE /\ reader' = "forward"
  /\ ReaderOnly

\* The guest gets every key, Ctrl-C too.
Forward ==
  /\ Up /\ reader = "forward"
  /\ reader' = (IF listening THEN "read" ELSE "done")
  /\ ReaderOnly /\ UNCHANGED ctrl_c

-----------------------------------------------------------------------------
(***************************************************************************)
(* The writer thread.                                                      *)
(***************************************************************************)
WriterOnly == UNCHANGED <<tty, main, uart, reader>>

\* Mutant: it reports to be ready before the terminal is in raw mode.
StartReady ==
  /\ Up /\ writer = "starting"
  /\ writer' = "select"
  /\ WriterOnly /\ UNCHANGED <<raw, process, uart_output, shown, hand, ctrl_c>>

Start ==
  /\ Up /\ writer = "starting"
  /\ raw' = tty /\ writer' = "select"
  /\ WriterOnly /\ UNCHANGED <<process, uart_output, shown, hand, ctrl_c>>

\* In "select" the thread waits for a character or a CtrlC, in "tail" for
\* characters only.
TakeCharacter ==
  /\ Up /\ uart_output # <<>>
  /\ \/ writer = "select" /\ writer' = "write"
     \/ writer = "tail" /\ writer' = "tail_write"
  /\ hand' = <<Head(uart_output)>> /\ uart_output' = Tail(uart_output)
  /\ WriterOnly /\ UNCHANGED <<raw, process, shown, ctrl_c>>

Write ==
  /\ Up
  /\ \/ writer = "write" /\ writer' = "select"
     \/ writer = "tail_write" /\ writer' = "tail"
  /\ shown' = (shown \/ hand = <<"marked">>) /\ hand' = <<>>
  /\ WriterOnly /\ UNCHANGED <<raw, process, uart_output, ctrl_c>>

\* expect("io error"): the panic drops the raw mode's handle on its way.
WriteFails ==
  /\ Up /\ writer \in {"write", "tail_write"}
  /\ writer' = "panicked" /\ raw' = FALSE /\ hand' = <<>>
  /\ WriterOnly /\ UNCHANGED <<process, uart_output, shown, ctrl_c>>

\* Mutant: the queued output goes first.
TakeCtrlCLast ==
  /\ Up /\ writer = "select" /\ ctrl_c /\ uart_output = <<>>
  /\ ctrl_c' = FALSE /\ raw' = FALSE /\ process' = "exited"
  /\ WriterOnly /\ UNCHANGED <<uart_output, shown, writer, hand>>

\* The terminal is restored and the process ends with exit(1).
TakeCtrlC ==
  /\ Up /\ writer = "select" /\ ctrl_c
  /\ ctrl_c' = FALSE /\ raw' = FALSE /\ process' = "exited"
  /\ WriterOnly /\ UNCHANGED <<uart_output, shown, writer, hand>>

\* Mutant: without a reader the writer ends.
ReaderGoneEnds ==
  /\ Up /\ writer = "select" /\ ~ctrl_c /\ reader = "done"
  /\ writer' = "restore"
  /\ WriterOnly /\ UNCHANGED <<raw, process, uart_output, shown, hand, ctrl_c>>

\* The reader has ended: from now on there are only characters to wait for.
ReaderGone ==
  /\ Up /\ writer = "select" /\ ~ctrl_c /\ reader = "done"
  /\ writer' = "tail"
  /\ WriterOnly /\ UNCHANGED <<raw, process, uart_output, shown, hand, ctrl_c>>

\* The output thread has ended and everything it sent has been printed.
OutputEnds ==
  /\ Up /\ writer \in {"select", "tail"} /\ uart_output = <<>> /\ ~sending
  /\ writer' = "restore"
  /\ WriterOnly /\ UNCHANGED <<raw, process, uart_output, shown, hand, ctrl_c>>

Restore ==
  /\ Up /\ writer = "restore"
  /\ raw' = FALSE /\ writer' = "done"
  /\ WriterOnly /\ UNCHANGED <<process, uart_output, shown, hand, ctrl_c>>

-----------------------------------------------------------------------------
(***************************************************************************)
(* main and the UART's own threads, which Uart models.                     *)
(***************************************************************************)
MainOnly ==
  UNCHANGED <<tty, raw, shown, writer, hand, ctrl_c>>

\* The reader is spawned once the writer has reported to be ready.
SpawnReader ==
  /\ Up /\ main = "boot" /\ writer # "starting"
  /\ main' = "run" /\ reader' = "read"
  /\ MainOnly /\ UNCHANGED <<process, uart, uart_output>>

\* The output buffer thread sends a character, also while it is flushed; one
\* receiver stays with the UART, so it never fails.
Send(c) ==
  /\ Up /\ sending /\ main \in {"run", "drop"} /\ Len(uart_output) < MaxQueue
  /\ c = "marked" => ~marked
  /\ uart_output' = Append(uart_output, c) /\ marked' = (marked \/ c = "marked")
  /\ MainOnly /\ UNCHANGED <<main, process, listening, sending, reader>>

StartDrop ==
  /\ Up /\ main = "run" /\ main' = "drop"
  /\ MainOnly /\ UNCHANGED <<process, uart, uart_output, reader>>

\* The two buffer threads see their Exit, each in its own time.
InputThreadEnds ==
  /\ Up /\ main = "drop" /\ listening /\ listening' = FALSE
  /\ MainOnly
  /\ UNCHANGED <<main, process, sending, marked, uart_output, reader>>

OutputThreadEnds ==
  /\ Up /\ main = "drop" /\ sending /\ sending' = FALSE
  /\ MainOnly
  /\ UNCHANGED <<main, process, listening, marked, uart_output, reader>>

JoinThreads ==
  /\ Up /\ main = "drop" /\ ~listening /\ ~sending
  /\ main' = "join"
  /\ MainOnly /\ UNCHANGED <<process, uart, uart_output, reader>>

\* Mutant: the reader is joined as well.
JoinBoth ==
  /\ Up /\ main = "join" /\ writer \in {"done", "panicked"} /\ reader = "done"
  /\ process' = (IF writer = "done" THEN "returned" ELSE "panicked")
  /\ MainOnly /\ UNCHANGED <<main, uart, uart_output, reader>>

\* join().unwrap() of the writer; the reader may sit in a read for ever.
JoinWriter ==
  /\ Up /\ main = "join" /\ writer \in {"done", "panicked"}
  /\ process' = (IF writer = "done" THEN "returned" ELSE "panicked")
  /\ MainOnly /\ UNCHANGED <<main, uart, uart_output, reader>>

-----------------------------------------------------------------------------
Writer ==
  \/ Start \/ TakeCharacter \/ Write \/ ReaderGone \/ OutputEnds \/ Restore

Main == SpawnReader \/ InputThreadEnds \/ OutputThreadEnds \/ JoinThreads
        \/ JoinWriter

Ended == ~Up /\ UNCHANGED vars

Next ==
  \/ ReadKey \/ StdinEnds \/ SendCtrlC \/ Forward
  \/ Writer \/ WriteFails \/ TakeCtrlC
  \/ Main \/ StartDrop \/ \E c \in {"plain", "marked"} : Send(c)
  \/ Ended

Spec == Init /\ [][Next]_vars

(***************************************************************************)
(* Every thread runs.  select! takes one of its ready branches at random:  *)
(* a CtrlC that stays in the channel is not passed over for ever.  Nothing *)
(* makes anybody type, nor the guest ever stop.                            *)
(***************************************************************************)
FairSpec ==
  /\ Spec
  /\ WF_vars(SendCtrlC) /\ WF_vars(Forward)
  /\ WF_vars(Writer) /\ SF_vars(TakeCtrlC)
  /\ WF_vars(InputThreadEnds) /\ WF_vars(OutputThreadEnds) /\ WF_vars(Main)
=============================================================================
