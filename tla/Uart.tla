-------------------------------- MODULE Uart --------------------------------
(***************************************************************************)
(* One emulated UART (src/devices/uart/device.rs) with everything that     *)
(* runs concurrently around its registers:                                 *)
(*                                                                         *)
(*   CPU thread     accesses the UART's registers, for the guest or for    *)
(*                  a GDB client, and drains the interrupt bus into the    *)
(*                  VIC after every guest instruction; at the end it drops *)
(*                  the UART (UartWorker::drop)                            *)
(*   input thread   "UART Internal Reader": uart_input -> rx_buf           *)
(*   output thread  "UART Internal Writer": device_output -> uart_output   *)
(*   host           the user's reader and writer tasks                     *)
(*                                                                         *)
(* Every critical section of the Mutex<State> is one action, and so is     *)
(* every channel operation made outside of it.  Characters are numbered in *)
(* the order they are produced, so loss, duplication and reordering show.  *)
(* Durations are left out: a sleep or a timeout ends at any time.          *)
(***************************************************************************)
EXTENDS UartState

CONSTANTS
  CtrlVals,      \* enable bits the guest writes to Ctrl
  FenVals,       \* FEN bits it writes to LinCtrlHigh
  MidVals,       \* values it writes to LinCtrlMid
  LowVals,       \* values it writes to LinCtrlLow
  HackInfRx,     \* --hack-inf-uart-rx was given for this UART
  Writers,       \* "run", "none" (--uartX=none): the writer tasks it may have
  MaxBus,        \* bound: messages on the bus when the CPU makes an access
  MaxTyped,      \* bound: characters the host sends
  MaxAccepted    \* bound: characters the UART accepts from the guest

ASSUME UartAssumption ==
  /\ CtrlVals \subseteq SUBSET IntBits
  /\ FenVals \subseteq BOOLEAN
  /\ MidVals \subseteq Nat
  /\ LowVals \subseteq Nat
  /\ HackInfRx \in BOOLEAN
  /\ Writers \subseteq {"run", "none"}
  /\ MaxBus \in Nat
  /\ MaxTyped \in Nat
  /\ MaxAccepted \in Nat

VARIABLES
  st,            \* struct State, under the mutex
  bus,           \* interrupt_bus: messages [line, level] on their way
  status,        \* lines whose raw status bit is set in the VIC
  cpu,           \* CPU thread: booting, accessing, draining, dropping
  in_pc,         \* input thread
  in_can,        \*   can_timeout, as last read
  rx_hand,       \*   the character it holds
  in_exit,       \*   its exit channel
  uart_input,    \*   its input channel
  out_pc,        \* output thread
  tx_hand,       \*   the character it holds
  out_exit,      \*   its exit channel
  device_output, \*   its input channel
  uart_output,   \*   its output channel
  writer_pc,     \* the user's writer task
  \* history
  typed,         \* characters the host has sent
  got,           \* characters the guest has read
  acked,         \* characters lost when the guest last cleared RXSts
  accepted,      \* characters the UART has accepted from the guest
  sent           \* characters the user's writer task has written out

intr   == <<st, bus, status>>
input  == <<in_pc, in_can, rx_hand, in_exit, uart_input>>
output == <<out_pc, tx_hand, out_exit, device_output, uart_output>>
host   == <<writer_pc, typed, got, acked, accepted, sent>>
vars   == <<intr, cpu, input, output, host>>

-----------------------------------------------------------------------------
\* A critical section of the mutex takes State to t and sends what
\* update_interrupts has to send.
Locked(t) ==
  /\ st' = t
  /\ bus' = bus \o Messages(st, t)
  /\ UNCHANGED status

\* Characters the host has sent and the UART has not lost, oldest first.
RxStream == got \o st.rx_buf \o rx_hand \o uart_input

Lost == typed - Len(RxStream)

-----------------------------------------------------------------------------
\* UartCfg::apply has installed the user's tasks: a reader, that of a file
\* without input or of `none` being one that stays silent, and a writer or
\* none.
Installed == writer_pc \in Writers

\* Uart::new_hle has spawned the buffer threads; main has not applied the
\* hacks yet.
Init ==
  /\ st = Reset /\ bus = <<>> /\ status = {}
  /\ cpu = "boot"
  /\ in_pc = "check" /\ in_can = FALSE /\ rx_hand = <<>> /\ in_exit = FALSE
  /\ out_pc = "select" /\ tx_hand = <<>> /\ out_exit = FALSE
  /\ Installed
  /\ uart_input = <<>> /\ device_output = <<>> /\ uart_output = <<>>
  /\ typed = 0 /\ got = <<>> /\ acked = 0 /\ accepted = 0 /\ sent = <<>>

-----------------------------------------------------------------------------
(***************************************************************************)
(* CPU thread.  main applies the hacks after every UART has been hooked up *)
(* and then runs the system: an instruction, then check_device_interrupts. *)
(* An instruction makes any number of accesses (ldm and stm make several), *)
(* and a GDB client makes accesses of its own between two of them, through *)
(* the same handlers; the bus is drained after the instruction.            *)
(***************************************************************************)
ApplyHacks ==
  /\ cpu = "boot" /\ cpu' = "exec"
  /\ st' = [st EXCEPT !.inf_rx = HackInfRx]
  /\ UNCHANGED <<bus, status, input, output, host>>

\* Accesses that leave the UART's state alone, such as a read of the empty
\* FIFO or a write to the full one (dropped with a log line), take no step.
Access == cpu = "exec" /\ Len(bus) < MaxBus /\ UNCHANGED cpu

ReadData ==
  /\ Access
  /\ st.rx_buf # <<>>
  /\ got' = Append(got, Head(st.rx_buf))
  /\ Locked(PopRx(st))
  /\ UNCHANGED <<input, output, writer_pc, typed, acked, accepted, sent>>

\* The character is sent to the output thread under the lock.
WriteDataAccepted ==
  /\ Access
  /\ accepted < MaxAccepted
  /\ HasTxRoom(st)
  /\ accepted' = accepted + 1
  /\ device_output' = Append(device_output, accepted')
  /\ Locked(PushTx(st))
  /\ UNCHANGED <<input, out_pc, tx_hand, out_exit, uart_output, writer_pc,
                 typed, got, acked, sent>>

WriteRxSts ==
  /\ Access
  /\ Locked(ClearOverrun(st))
  /\ acked' = Lost
  /\ UNCHANGED <<input, output, writer_pc, typed, got, accepted, sent>>

WriteLinCtrlHigh(fen) ==
  /\ Access
  /\ ~Panics(Committed(st, fen))
  /\ Locked(CommitHigh(st, fen))
  /\ UNCHANGED <<input, output, host>>

\* update_linctrl panics with the mutex held.  What is left of the process
\* (unwinding on a poisoned mutex) is not followed further.
WriteLinCtrlHighPanics(fen) ==
  /\ cpu = "exec" /\ cpu' = "panicked"
  /\ Panics(Committed(st, fen))
  /\ UNCHANGED <<intr, input, output, host>>

WriteLinCtrlMid(v) ==
  /\ Access
  /\ Locked(LatchMid(st, v))
  /\ UNCHANGED <<input, output, host>>

WriteLinCtrlLow(v) ==
  /\ Access
  /\ Locked(LatchLow(st, v))
  /\ UNCHANGED <<input, output, host>>

WriteCtrl(c) ==
  /\ Access
  /\ Locked(SetCtrl(st, c))
  /\ UNCHANGED <<input, output, host>>

WriteIntClr ==
  /\ Access
  /\ Locked(ClearInt(st))
  /\ UNCHANGED <<input, output, host>>

\* The instruction has made its accesses, if any; a halted CPU makes none.
EndInstruction ==
  /\ cpu = "exec" /\ cpu' = "drain"
  /\ UNCHANGED <<intr, input, output, host>>

\* Mutant: deassertions are ignored.
DrainOnlyUp ==
  /\ cpu = "drain" /\ bus # <<>>
  /\ status' = IF Head(bus).level THEN status \union {Head(bus).line} ELSE status
  /\ bus' = Tail(bus)
  /\ UNCHANGED <<st, cpu, input, output, host>>

\* One turn of the loop over interrupt_bus.try_iter().
DrainOne ==
  /\ cpu = "drain" /\ bus # <<>>
  /\ status' = IF Head(bus).level
               THEN status \union {Head(bus).line}
               ELSE status \ {Head(bus).line}
  /\ bus' = Tail(bus)
  /\ UNCHANGED <<st, cpu, input, output, host>>

DrainEnds ==
  /\ cpu = "drain" /\ bus = <<>>
  /\ cpu' = "exec"
  /\ UNCHANGED <<intr, input, output, host>>

(***************************************************************************)
(* The system is dropped after a return to the bootloader, after a fatal   *)
(* memory exception (before the bus is drained), or when main fails before *)
(* it runs.  UartWorker::drop sends the two Exit messages, joins both      *)
(* buffer threads, then the user's writer task.                            *)
(***************************************************************************)
Halted ==
  /\ cpu \in {"boot", "exec", "drain"}
  /\ cpu' = "exit_in"
  /\ UNCHANGED <<intr, input, output, host>>

SendExitIn ==
  /\ cpu = "exit_in" /\ cpu' = "exit_out"
  /\ in_exit' = TRUE
  /\ UNCHANGED <<intr, in_pc, in_can, rx_hand, uart_input, output, host>>

SendExitOut ==
  /\ cpu = "exit_out" /\ cpu' = "join_in"
  /\ out_exit' = TRUE
  /\ UNCHANGED <<intr, input, out_pc, tx_hand, device_output, uart_output,
                 host>>

JoinIn ==
  /\ cpu = "join_in" /\ in_pc = "done" /\ cpu' = "join_out"
  /\ UNCHANGED <<intr, input, output, host>>

JoinOut ==
  /\ cpu = "join_out" /\ out_pc = "done" /\ cpu' = "join_writer"
  /\ UNCHANGED <<intr, input, output, host>>

\* Mutant: the writer task, like the reader task, is not waited for.
DropDetachesWriter ==
  /\ cpu = "join_writer" /\ cpu' = "exited"
  /\ UNCHANGED <<intr, input, output, host>>

\* join().unwrap(): a writer that died of an I/O error takes main with it.
JoinWriter ==
  /\ cpu = "join_writer"
  /\ \/ writer_pc \in {"done", "none"} /\ cpu' = "exited"
     \/ writer_pc = "failed" /\ cpu' = "panicked"
  /\ UNCHANGED <<intr, input, output, host>>

-----------------------------------------------------------------------------
(***************************************************************************)
(* Input thread (spawn_input_buffer_thread).                               *)
(***************************************************************************)
CanLock == cpu # "panicked"   \* the mutex is not poisoned

\* Whether a timeout may be due is read in a critical section of its own,
\* before the wait it is used for.
InCheck ==
  /\ in_pc = "check" /\ CanLock
  /\ in_can' = CanTimeout(st)
  /\ in_pc' = "select"
  /\ UNCHANGED <<intr, cpu, rx_hand, in_exit, uart_input, output, host>>

InReceive ==
  /\ in_pc = "select" /\ uart_input # <<>>
  /\ rx_hand' = <<Head(uart_input)>>
  /\ uart_input' = Tail(uart_input)
  /\ in_pc' = "deliver"
  /\ UNCHANGED <<intr, cpu, in_can, in_exit, output, host>>

\* select! takes its default branch only when no channel is ready.
InTimeout ==
  /\ in_pc = "select" /\ in_can
  /\ uart_input = <<>> /\ ~in_exit
  /\ in_pc' = "timedout"
  /\ UNCHANGED <<intr, cpu, in_can, rx_hand, in_exit, uart_input, output,
                 host>>

\* Mutant: only the wait without a timeout listens for Exit.
InExitUntimed ==
  /\ in_pc = "select" /\ in_exit /\ ~in_can
  /\ in_pc' = "done"
  /\ UNCHANGED <<intr, cpu, in_can, rx_hand, in_exit, uart_input, output,
                 host>>

InExit ==
  /\ in_pc = "select" /\ in_exit
  /\ in_pc' = "done"
  /\ UNCHANGED <<intr, cpu, in_can, rx_hand, in_exit, uart_input, output,
                 host>>

\* Mutant: the wait decided on before the character came is resumed.
InDeliverResumesWait ==
  /\ in_pc = "deliver" /\ CanLock
  /\ in_pc' = "select" /\ rx_hand' = <<>>
  /\ Locked(Receive(st, Head(rx_hand)))
  /\ UNCHANGED <<cpu, in_can, in_exit, uart_input, output, host>>

InDeliver ==
  /\ in_pc = "deliver" /\ CanLock
  /\ in_pc' = "check" /\ rx_hand' = <<>>
  /\ Locked(Receive(st, Head(rx_hand)))
  /\ UNCHANGED <<cpu, in_can, in_exit, uart_input, output, host>>

InRaiseTimeout ==
  /\ in_pc = "timedout" /\ CanLock
  /\ in_pc' = "check"
  /\ Locked(RaiseTimeout(st))
  /\ UNCHANGED <<cpu, in_can, rx_hand, in_exit, uart_input, output, host>>

-----------------------------------------------------------------------------
(***************************************************************************)
(* Output thread (spawn_output_buffer_thread).  UartWorker keeps a         *)
(* Receiver of uart_output, so that channel's send cannot fail.            *)
(***************************************************************************)
OutReceive ==
  /\ out_pc = "select" /\ device_output # <<>>
  /\ tx_hand' = <<Head(device_output)>>
  /\ device_output' = Tail(device_output)
  /\ out_pc' = "begin"
  /\ UNCHANGED <<intr, cpu, input, out_exit, uart_output, host>>

\* Mutants: Exit ends the thread at once; Exit also cuts a character short.
OutExitAtOnce ==
  /\ out_pc = "select" /\ out_exit
  /\ out_pc' = "done"
  /\ UNCHANGED <<intr, cpu, input, tx_hand, out_exit, device_output,
                 uart_output, host>>
OutExitCutsShort ==
  /\ out_pc \in {"select", "begin"} /\ out_exit
  /\ out_pc' = "flush" /\ tx_hand' = <<>>
  /\ UNCHANGED <<intr, cpu, input, out_exit, device_output, uart_output, host>>

OutExit ==
  /\ out_pc = "select" /\ out_exit
  /\ out_pc' = "flush"
  /\ UNCHANGED <<intr, cpu, input, tx_hand, out_exit, device_output,
                 uart_output, host>>

OutBegin ==
  /\ out_pc = "begin" /\ CanLock
  /\ out_pc' = "send"
  /\ Locked(BeginSend(st))
  /\ UNCHANGED <<cpu, input, tx_hand, out_exit, device_output, uart_output,
                 host>>

OutSend ==
  /\ out_pc = "send"
  /\ uart_output' = uart_output \o tx_hand
  /\ tx_hand' = <<>>
  /\ out_pc' = "finish"
  /\ UNCHANGED <<intr, cpu, input, out_exit, device_output, host>>

OutFinish ==
  /\ out_pc = "finish" /\ CanLock
  /\ out_pc' = "select"
  /\ Locked(FinishSend(st))
  /\ UNCHANGED <<cpu, input, tx_hand, out_exit, device_output, uart_output,
                 host>>

\* After Exit: what is left in device_output goes out without its delay.
OutFlush ==
  /\ out_pc = "flush" /\ device_output # <<>>
  /\ uart_output' = Append(uart_output, Head(device_output))
  /\ device_output' = Tail(device_output)
  /\ UNCHANGED <<intr, cpu, input, out_pc, tx_hand, out_exit, host>>

OutDone ==
  /\ out_pc = "flush" /\ device_output = <<>>
  /\ out_pc' = "done"
  /\ UNCHANGED <<intr, cpu, input, tx_hand, out_exit, device_output,
                 uart_output, host>>

-----------------------------------------------------------------------------
(***************************************************************************)
(* The user's reader and writer tasks (reader_to_chan, writer_to_chan).    *)
(***************************************************************************)

\* After the input thread has ended the send fails and the reader ends.
HostType ==
  /\ typed < MaxTyped /\ in_pc # "done"
  /\ typed' = typed + 1
  /\ uart_input' = Append(uart_input, typed')
  /\ UNCHANGED <<intr, cpu, in_pc, in_can, rx_hand, in_exit, output,
                 writer_pc, got, acked, accepted, sent>>

HostWrite ==
  /\ writer_pc = "run" /\ uart_output # <<>>
  /\ sent' = Append(sent, Head(uart_output))
  /\ uart_output' = Tail(uart_output)
  /\ UNCHANGED <<intr, cpu, input, out_pc, tx_hand, out_exit, device_output,
                 writer_pc, typed, got, acked, accepted>>

\* expect("io error"), with the character in hand.  UartWorker keeps a
\* receiver of its own, so the output thread never misses the task.
HostWriterFails ==
  /\ writer_pc = "run" /\ uart_output # <<>>
  /\ writer_pc' = "failed"
  /\ uart_output' = Tail(uart_output)
  /\ UNCHANGED <<intr, cpu, input, out_pc, tx_hand, out_exit, device_output,
                 typed, got, acked, accepted, sent>>

\* The writer's loop ends when the channel is empty and its sender gone.
HostWriterEnds ==
  /\ writer_pc = "run" /\ uart_output = <<>> /\ out_pc = "done"
  /\ writer_pc' = "done"
  /\ UNCHANGED <<intr, cpu, input, output, typed, got, acked, accepted, sent>>

-----------------------------------------------------------------------------
Guest ==
  \/ ReadData
  \/ WriteDataAccepted
  \/ WriteRxSts
  \/ \E fen \in FenVals : WriteLinCtrlHigh(fen) \/ WriteLinCtrlHighPanics(fen)
  \/ \E v \in MidVals : WriteLinCtrlMid(v)
  \/ \E v \in LowVals : WriteLinCtrlLow(v)
  \/ \E c \in CtrlVals : WriteCtrl(c)
  \/ WriteIntClr

Drain == DrainOne \/ DrainEnds

Drop == SendExitIn \/ SendExitOut \/ JoinIn \/ JoinOut \/ JoinWriter

InThread ==
  InCheck \/ InReceive \/ InTimeout \/ InExit \/ InDeliver \/ InRaiseTimeout

OutThread ==
  OutReceive \/ OutExit \/ OutBegin \/ OutSend \/ OutFinish \/ OutFlush \/ OutDone

HostWriter == HostWrite \/ HostWriterEnds

\* Nothing more happens once the process has ended.
Ended ==
  /\ cpu \in {"exited", "panicked"}
  /\ UNCHANGED vars

Next ==
  \/ ApplyHacks \/ Guest \/ EndInstruction \/ Drain \/ Halted \/ Drop
  \/ InThread
  \/ OutThread
  \/ HostType \/ HostWriter \/ HostWriterFails
  \/ Ended

(***************************************************************************)
(* Every thread takes a step if it stays able to, and so does the CPU loop:*)
(* an instruction makes finitely many accesses, and a GDB client lets the  *)
(* machine go on in the end.  select! picks at random among ready          *)
(* branches, so an Exit that keeps being ready is taken (strong fairness). *)
(* Nothing is assumed of what the guest executes, of whether it ever       *)
(* halts, or of the host's typing.                                         *)
(***************************************************************************)
Fairness ==
  /\ WF_vars(ApplyHacks \/ EndInstruction \/ Halted) /\ WF_vars(Drain) /\ WF_vars(Drop)
  /\ WF_vars(InThread) /\ SF_vars(InExit)
  /\ WF_vars(OutThread) /\ SF_vars(OutExit)
  /\ WF_vars(HostWriter)

Spec == Init /\ [][Next]_vars

FairSpec == Spec /\ Fairness
=============================================================================
