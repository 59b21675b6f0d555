----------------------------- MODULE UartState -----------------------------
(***************************************************************************)
(* The registers of an emulated UART: struct State and its methods         *)
(* (src/devices/uart/device.rs), with the effect on it of every register   *)
(* access and of every critical section of the two buffer threads.  There  *)
(* are no variables here: a handler is an operator from a State to the     *)
(* State it leaves under the mutex.                                        *)
(*                                                                         *)
(* Of LinCtrlHigh only the FIFO enable bit is kept (stop and parity bits   *)
(* change nothing but how long a character takes), and of Ctrl only the    *)
(* four interrupt enable bits (the others are stored and never used).      *)
(***************************************************************************)
EXTENDS Integers, Sequences

CONSTANT FullFifo   \* depth of a FIFO when FEN is set: 16 in the code

ASSUME FullFifoAssumption == FullFifo \in Nat \ {0}

\* Causes and enables: modem status (CTS), receive, transmit, rx timeout.
IntBits == {"ms", "rx", "tx", "rt"}

\* The interrupts of one UART: UartInterrupts { rx, tx, combo }.
Lines == {"tx", "rx", "combo"}

Registers == [fen : BOOLEAN, mid : Nat, low : Nat]

State ==
  [latched     : BOOLEAN,          \* LinCtrlMid/Low written, High not yet
   latch       : Registers,
   linctrl     : Registers,
   ctrl        : SUBSET IntBits,
   overrun     : BOOLEAN,
   busy        : BOOLEAN,
   timeout     : BOOLEAN,
   cts_change  : BOOLEAN,
   rx_buf      : Seq(Nat),         \* the receive FIFO
   tx_buf_size : Nat,              \* characters accepted and not yet sent
   inf_rx      : BOOLEAN,          \* hack_inf_uart_rx
   asserted    : SUBSET Lines]     \* *_int_asserted

(***************************************************************************)
(* State::new leaves latch and registers at zero; new_hle then overwrites  *)
(* the active registers, and only those, with the bootloader's setting:    *)
(* FIFO enabled, divisor 3.                                                *)
(***************************************************************************)
Reset ==
  [latched     |-> FALSE,
   latch       |-> [fen |-> FALSE, mid |-> 0, low |-> 0],
   linctrl     |-> [fen |-> TRUE, mid |-> 0, low |-> 3],
   ctrl        |-> {},
   overrun     |-> FALSE, busy |-> FALSE, timeout |-> FALSE,
   cts_change  |-> FALSE,
   rx_buf      |-> <<>>,
   tx_buf_size |-> 0,
   inf_rx      |-> FALSE,
   asserted    |-> {}]

-----------------------------------------------------------------------------
(***************************************************************************)
(* Line control.                                                           *)
(***************************************************************************)
FifoSize(s) == IF s.linctrl.fen THEN FullFifo ELSE 1

UartClk16 == 460800   \* UARTCLK_HZ / 16

(***************************************************************************)
(* The divisor is (mid & 0xff) << 32 | low.  Any non-zero mid byte makes   *)
(* it at least 2^32, where the quotient is 0; that is a case of its own    *)
(* because TLC's integers are 32 bits wide.                                *)
(***************************************************************************)
Baud(r) == IF r.mid % 256 # 0 THEN 0 ELSE UartClk16 \div (r.low + 1)

\* update_linctrl divides by the baud rate, and panics when it is 0.
Panics(r) == Baud(r) = 0

-----------------------------------------------------------------------------
(***************************************************************************)
(* Interrupt causes and interrupt lines.                                   *)
(***************************************************************************)

\* get_int_id: the enabled causes that hold.
IntId(s) ==
  {c \in s.ctrl : \/ c = "rt" /\ s.timeout
                  \/ c = "tx" /\ s.tx_buf_size * 2 <= FifoSize(s)
                  \/ c = "rx" /\ Len(s.rx_buf) * 2 >= FifoSize(s)
                  \/ c = "ms" /\ s.cts_change}

Level(s, l) == IF l = "combo" THEN IntId(s) # {} ELSE l \in IntId(s)

UpdateInterrupts(s) == [s EXCEPT !.asserted = {l \in Lines : Level(s, l)}]

\* The levels last sent are those the registers call for.
InStep(s) == s.asserted = {l \in Lines : Level(s, l)}

\* What update_interrupts sends for line l when it takes s to t.
Edge(s, t, l) ==
  IF (l \in s.asserted) = (l \in t.asserted)
  THEN <<>>
  ELSE <<[line |-> l, level |-> (l \in t.asserted)]>>

Messages(s, t) == Edge(s, t, "tx") \o Edge(s, t, "rx") \o Edge(s, t, "combo")

-----------------------------------------------------------------------------
(***************************************************************************)
(* Register accesses by the guest.                                         *)
(***************************************************************************)

\* The Flag register.
Flags(s) ==
  {f \in {"TXFE", "RXFF", "TXFF", "RXFE", "BUSY", "CTS"} :
     \/ f = "TXFE" /\ s.tx_buf_size = 0
     \/ f = "RXFF" /\ Len(s.rx_buf) >= FifoSize(s)
     \/ f = "TXFF" /\ s.tx_buf_size >= FifoSize(s)
     \/ f = "RXFE" /\ s.rx_buf = <<>>
     \/ f = "BUSY" /\ s.busy
     \/ f = "CTS" /\ ~s.busy}

\* Mutant: any read clears the timeout.
PopClearsTimeout(s) ==
  UpdateInterrupts([s EXCEPT !.rx_buf = Tail(s.rx_buf), !.timeout = FALSE])

\* A read of Data with a character in the FIFO.
PopRx(s) ==
  UpdateInterrupts([s EXCEPT !.rx_buf = Tail(s.rx_buf),
                             !.timeout = s.timeout /\ Tail(s.rx_buf) # <<>>])

HasTxRoom(s) == s.tx_buf_size < FifoSize(s)

\* Mutant: the count is forgotten.
PushTxUncounted(s) == UpdateInterrupts(s)

PushTx(s) == UpdateInterrupts([s EXCEPT !.tx_buf_size = s.tx_buf_size + 1])

ClearOverrun(s) == UpdateInterrupts([s EXCEPT !.overrun = FALSE])

LatchMid(s, v) == [s EXCEPT !.latched = TRUE, !.latch.mid = v]

LatchLow(s, v) == [s EXCEPT !.latched = TRUE, !.latch.low = v]

\* What LinCtrlHigh makes the active registers.
Committed(s, fen) == [s.latch EXCEPT !.fen = fen]

CommitHigh(s, fen) ==
  UpdateInterrupts([s EXCEPT !.latched = FALSE,
                             !.latch = Committed(s, fen),
                             !.linctrl = Committed(s, fen)])

SetCtrl(s, c) == UpdateInterrupts([s EXCEPT !.ctrl = c])

ClearInt(s) == UpdateInterrupts([s EXCEPT !.cts_change = FALSE])

-----------------------------------------------------------------------------
(***************************************************************************)
(* Critical sections of the buffer threads.                                *)
(***************************************************************************)

\* Whether a receive timeout may be due.
CanTimeout(s) == s.rx_buf # <<>> /\ ~s.timeout

HasRxRoom(s) == Len(s.rx_buf) < FifoSize(s) \/ s.inf_rx

\* Mutants: overrun is not recorded; overrun empties the FIFO; a new
\* character withdraws the timeout.
ReceiveSilentLoss(s, b) ==
  IF HasRxRoom(s)
  THEN UpdateInterrupts([s EXCEPT !.rx_buf = Append(s.rx_buf, b)]) ELSE s
ReceiveFlushes(s, b) ==
  IF Len(s.rx_buf) < FifoSize(s)
  THEN UpdateInterrupts([s EXCEPT !.rx_buf = Append(s.rx_buf, b)])
  ELSE UpdateInterrupts([s EXCEPT !.overrun = TRUE, !.rx_buf = <<>>])
ReceiveRestartsTimeout(s, b) ==
  IF HasRxRoom(s)
  THEN UpdateInterrupts([s EXCEPT !.rx_buf = Append(s.rx_buf, b),
                                  !.timeout = FALSE])
  ELSE [s EXCEPT !.overrun = TRUE]

\* The input thread delivers a character.
Receive(s, b) ==
  IF HasRxRoom(s)
  THEN UpdateInterrupts([s EXCEPT !.rx_buf = Append(s.rx_buf, b)])
  ELSE [s EXCEPT !.overrun = TRUE]

\* Mutant: the FIFO is not looked at again.
RaiseTimeoutBlindly(s) == UpdateInterrupts([s EXCEPT !.timeout = TRUE])

\* The input thread's wait timed out.
RaiseTimeout(s) ==
  IF s.rx_buf # <<>>
  THEN UpdateInterrupts([s EXCEPT !.timeout = TRUE])
  ELSE s

\* The output thread takes a character up ...
BeginSend(s) ==
  IF s.busy
  THEN s
  ELSE UpdateInterrupts([s EXCEPT !.busy = TRUE, !.cts_change = TRUE])

\* Mutants: the last character is looked for before the count goes down;
\* interrupts are updated only when the transmitter falls idle.
FinishSendMissesLast(s) ==
  LET last == s.tx_buf_size = 0
  IN  UpdateInterrupts([s EXCEPT !.tx_buf_size = s.tx_buf_size - 1,
                                 !.busy = s.busy /\ ~last,
                                 !.cts_change = s.cts_change \/ last])
FinishSendUpdatesIdle(s) ==
  IF s.tx_buf_size = 1
  THEN UpdateInterrupts([s EXCEPT !.tx_buf_size = 0,
                                  !.busy = FALSE, !.cts_change = TRUE])
  ELSE [s EXCEPT !.tx_buf_size = s.tx_buf_size - 1]

\* ... and has sent it.
FinishSend(s) ==
  LET last == s.tx_buf_size = 1
  IN  UpdateInterrupts([s EXCEPT !.tx_buf_size = s.tx_buf_size - 1,
                                 !.busy = s.busy /\ ~last,
                                 !.cts_change = s.cts_change \/ last])
=============================================================================
