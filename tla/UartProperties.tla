--------------------------- MODULE UartProperties ---------------------------
(***************************************************************************)
(* What makes the emulated UART correct.  Each property is about the       *)
(* interleaving of the CPU thread, the two buffer threads and the user's   *)
(* tasks, none of which any test of the repository reaches.                *)
(***************************************************************************)
EXTENDS Uart

Message == [line : Lines, level : BOOLEAN]

InPcs  == {"check", "select", "deliver", "timedout", "done"}
OutPcs == {"select", "begin", "send", "finish", "flush", "done"}
CpuPcs == {"boot", "exec", "drain", "exit_in", "exit_out", "join_in",
           "join_out", "join_writer", "exited", "panicked"}

IntrOK == st \in State /\ bus \in Seq(Message) /\ status \subseteq Lines

InputOK ==
  /\ in_pc \in InPcs /\ in_can \in BOOLEAN /\ in_exit \in BOOLEAN
  /\ rx_hand \in Seq(Nat) /\ Len(rx_hand) = (IF in_pc = "deliver" THEN 1 ELSE 0)
  /\ uart_input \in Seq(Nat)

OutputOK ==
  /\ out_pc \in OutPcs /\ out_exit \in BOOLEAN
  /\ tx_hand \in Seq(Nat)
  /\ Len(tx_hand) = (IF out_pc \in {"begin", "send"} THEN 1 ELSE 0)
  /\ device_output \in Seq(Nat) /\ uart_output \in Seq(Nat)

HostOK ==
  /\ writer_pc \in {"run", "none", "done", "failed"}
  /\ typed \in Nat /\ acked \in Int /\ accepted \in Nat
  /\ got \in Seq(Nat) /\ sent \in Seq(Nat)

\* Every variable has its type; in particular `state.tx_buf_size -= 1` never
\* underflows, and a buffer thread holds a character exactly where its code
\* does.
TypeOK == IntrOK /\ cpu \in CpuPcs /\ InputOK /\ OutputOK /\ HostOK

-----------------------------------------------------------------------------
(***************************************************************************)
(* Transmission.                                                           *)
(***************************************************************************)

\* tx_buf_size counts exactly the characters accepted by w32 that the output
\* thread has not finished: those in the channel and the one in its hands.
\* This is the race the comment on w32 (device.rs:645-649) is about.
TxAccounting ==
  out_pc \notin {"flush", "done"} =>
    st.tx_buf_size = Len(device_output)
                     + (IF out_pc \in {"begin", "send", "finish"} THEN 1 ELSE 0)

Tx == INSTANCE Pipe WITH
        put   <- accepted,
        queue <- uart_output \o tx_hand \o device_output,
        out   <- sent,
        lost  <- IF writer_pc = "failed" THEN 1 ELSE 0,
        acked <- 0,
        told  <- writer_pc = "failed"

\* Transmission is a pipe: every character that w32 accepts goes to the host
\* once and in order, through the thread that may be told to exit at any
\* moment and flushes what is left; one is only lost with a writer task that
\* has died of it.
TxIsPipe == Tx!Spec

\* CTS ("always set to 1 whenever UART isn't transmitting", README.md:87):
\* while a character is on the wire CTS is off, and it is on again once
\* nothing is left to send.
CtsMeansIdleWire ==
  /\ out_pc \in {"send", "finish"} => "CTS" \notin Flags(st)
  /\ "TXFE" \in Flags(st) => "CTS" \in Flags(st)

\* UartWorker::drop: when the process goes on, both buffer threads and the
\* writer task have ended and every character accepted has been written out
\* (without a writer task, has been handed over); a writer that has failed is
\* never taken for one that has ended.
ShutdownFlushed ==
  cpu = "exited" =>
    /\ in_pc = "done" /\ out_pc = "done" /\ writer_pc \in {"done", "none"}
    /\ Len(sent) + Len(uart_output) = accepted
    /\ writer_pc = "done" => uart_output = <<>>

-----------------------------------------------------------------------------
(***************************************************************************)
(* Reception.                                                              *)
(***************************************************************************)

Rx == INSTANCE Pipe WITH
        put   <- typed,
        queue <- st.rx_buf \o rx_hand \o uart_input,
        out   <- got,
        lost  <- Lost,
        told  <- st.overrun

\* Reception is a pipe: the guest reads characters in the order they were
\* typed and none twice, one is only ever lost with RXSts showing an overrun
\* until the guest clears it, and RXSts shows none when none was lost.
RxIsPipe == Rx!Spec

\* A receive timeout is never pending on an empty FIFO: the guest that takes
\* the interrupt finds a character to read.
TimeoutMeansData == st.timeout => st.rx_buf # <<>>

\* The input thread never goes to wait without a timeout while a character
\* sits in the FIFO unannounced, although it decides on that wait in an
\* earlier critical section than the wait itself.
NoParkedByte ==
  in_pc = "select" /\ ~in_can /\ st.rx_buf # <<>> => st.timeout

-----------------------------------------------------------------------------
(***************************************************************************)
(* Interrupts.                                                             *)
(***************************************************************************)

\* The levels last sent are those the registers call for: every handler that
\* changes a cause goes on to update the interrupts.
LinesTrackCauses == InStep(st)

\* With messages b pending and lines v raised in the VIC, the lines the UART
\* holds raised are a: the last message of each line carries the line's level,
\* and a line without a message is right already.
Coherent(b, v, a) ==
  /\ \A i \in 1..Len(b) :
       (\A j \in (i + 1)..Len(b) : b[j].line # b[i].line)
         => (b[i].level <=> b[i].line \in a)
  /\ \A l \in Lines :
       (\A i \in 1..Len(b) : b[i].line # l) => (l \in v <=> l \in a)

\* Three threads send on interrupt_bus and none of them waits for the VIC;
\* still what the VIC will see once it has drained the bus is the UART's lines.
InterruptPathCoherent == Coherent(bus, status, st.asserted)

\* Whenever the bus is empty the VIC shows exactly the interrupts that the
\* UART's registers call for: none is lost, stuck or spurious.
VicTracksUart == bus = <<>> => status = {l \in Lines : Level(st, l)}

\* Of the steps that change a register: one of the CPU thread's accesses.  The
\* buffer threads take theirs to another pc.
GuestStep == cpu = "exec" /\ UNCHANGED <<in_pc, out_pc>>

\* The levels that messages b tell of line l, oldest first.
Levels(b, l) ==
  LET upto[i \in 0..Len(b)] ==
        IF i = 0 THEN <<>>
        ELSE IF b[i].line = l THEN Append(upto[i - 1], b[i].level)
        ELSE upto[i - 1]
  IN  upto[Len(b)]

\* A line as the rest of the machine sees it: its level, its messages on the
\* bus, its bit in the VIC.
Turn == IF cpu \in {"boot", "exec"} THEN "guest"
        ELSE IF cpu = "drain" THEN "drain" ELSE "off"

TxLine == INSTANCE DeviceLine WITH
  turn <- Turn, line <- "tx" \in st.asserted, bus <- Levels(bus, "tx"),
  seen <- "tx" \in status
RxLine == INSTANCE DeviceLine WITH
  turn <- Turn, line <- "rx" \in st.asserted, bus <- Levels(bus, "rx"),
  seen <- "rx" \in status
ComboLine == INSTANCE DeviceLine WITH
  turn <- Turn, line <- "combo" \in st.asserted, bus <- Levels(bus, "combo"),
  seen <- "combo" \in status

\* Each of the three lines is what Ts7200 takes a device to be: whichever
\* thread sends, a line sends each of its changes once and in order; the buffer
\* threads never take an interrupt back, so what the VIC is told while it drains
\* the bus after the last access ends raised; and an access changes a line once.
LinesAreDevices ==
  TxLine!Spec /\ RxLine!Spec /\ ComboLine!Spec

\* A guest may test a flag and then act on it: no thread turns TXFF or RXFE
\* on behind its back.
FlagsStayUsable ==
  [][\A f \in {"TXFF", "RXFE"} :
       f \in Flags(st') /\ f \notin Flags(st) => GuestStep]_vars

-----------------------------------------------------------------------------
(***************************************************************************)
(* Liveness (under FairSpec).                                              *)
(***************************************************************************)
Dropping == cpu \notin {"boot", "exec", "drain"}

\* Every character accepted reaches the host, whatever the guest does and
\* even if the system is dropped right after, unless nobody writes it.
BytesReachHost ==
  \A k \in 1..MaxAccepted :
    accepted >= k ~>
      \/ Len(sent) >= k \/ writer_pc \in {"none", "failed"}
      \/ cpu = "panicked"

\* A character left in the FIFO is announced by a timeout once the host stops
\* typing, unless the guest reads it first.
ByteIsNoticed ==
  st.rx_buf # <<>> ~> (st.timeout \/ st.rx_buf = <<>> \/ Dropping)

\* A line that settles at a level shows in the VIC for good, as long as the
\* system runs.
SettledLevelReachesVic ==
  \A l \in Lines :
    /\ <>[](Level(st, l)) => <>(Dropping \/ [](l \in status))
    /\ <>[](~Level(st, l)) => <>(Dropping \/ [](l \notin status))

\* Dropping the UART terminates, also when the writer task is dead already or
\* dies meanwhile: no thread waits for another for ever.
ShutdownCompletes ==
  cpu = "exit_in" ~>
    cpu = "exited" \/ (cpu = "panicked" /\ writer_pc = "failed")

-----------------------------------------------------------------------------
(***************************************************************************)
(* What the repository says of the UART and the code does not do.          *)
(***************************************************************************)

\* reference/ts7200.h: Mid holds the most, Low the least significant byte of
\* the baud rate divisor.
DocumentedBaud(r) == UartClk16 \div (256 * (r.mid % 256) + (r.low % 256) + 1)

\* "BRDH_MASK 0xff // MSB of baud rate divisor" (reference/ts7200.h:52): a
\* divisor whose documented rate is not 0 may be written to the registers.
DocumentedDivisorAccepted ==
  cpu = "panicked" =>
    \E fen \in FenVals : DocumentedBaud(Committed(st, fen)) = 0
=============================================================================
