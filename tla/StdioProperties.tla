-------------------------- MODULE StdioProperties --------------------------
(***************************************************************************)
(* What a user at the terminal relies on.                                  *)
(***************************************************************************)
EXTENDS Stdio

\* Keys are only read in raw mode, for as long as a writer is there to leave
\* it ("the writer thread MUST be spawned first, as it sets the raw term
\* mode", stdio.rs:119), and however the process ends the terminal is left as
\* it was.
TerminalMode ==
  /\ Up /\ reader # "unborn" /\ writer \notin {"done", "panicked"} => raw = tty
  /\ ~Up => ~raw

\* Ctrl-C ends the emulator, whatever output is queued or still produced,
\* unless printing it has failed already.
CtrlCTerminates == reader = "ctrl_c" ~> ~Up \/ writer = "panicked"

\* What the UART sends is printed, also after the end of stdin ("The writer
\* thread should stay alive though", stdio.rs:81) and when main drops the
\* UART: only Ctrl-C and an I/O error cut it off.
OutputIsPrinted ==
  marked ~> shown \/ process = "exited" \/ writer = "panicked"

\* The tasks "MUST terminate if the Sender/Receiver hang up"
\* (device.rs:489): dropping the UART ends, though the reader may wait for a
\* key that is never typed.
DropEnds == main = "drop" ~> ~Up
=============================================================================
