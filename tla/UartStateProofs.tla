-------------------------- MODULE UartStateProofs --------------------------
(***************************************************************************)
(* Lemmas about the handlers of UartState: each leaves a State, does to    *)
(* the fields the invariants speak of what its lemma says, and leaves the  *)
(* interrupt lines in step with their causes.                              *)
(*                                                                         *)
(* The proofs have one shape.  u is the state before update_interrupts;    *)
(* that it is a State is shown for any assigned values of the right types, *)
(* because it does not matter which values they are.                       *)
(***************************************************************************)
EXTENDS UartState, TLAPS

LEMMA FifoSizeType == ASSUME NEW s \in State PROVE FifoSize(s) \in Nat \ {0}
  BY FullFifoAssumption DEF FifoSize, State, Registers

\* The initial registers.
LEMMA ResetEffect ==
  /\ Reset \in State
  /\ Reset.rx_buf = <<>> /\ ~Reset.timeout /\ Reset.tx_buf_size = 0
  /\ ~Reset.busy /\ ~Reset.overrun /\ Reset.asserted = {}
  /\ InStep(Reset)
<1>1. Reset \in State
  BY DEF Reset, State, Registers
<1>2. IntId(Reset) = {}
  BY DEF Reset, IntId
<1> QED BY <1>1, <1>2 DEF Reset, InStep, Level

\* update_interrupts changes the lines and nothing else.
LEMMA UpdateEffect ==
  ASSUME NEW s \in State
  PROVE  LET t == UpdateInterrupts(s) IN
           /\ t \in State
           /\ t.rx_buf = s.rx_buf /\ t.timeout = s.timeout
           /\ t.tx_buf_size = s.tx_buf_size /\ t.busy = s.busy
           /\ t.overrun = s.overrun /\ t.linctrl = s.linctrl
           /\ t.ctrl = s.ctrl /\ t.cts_change = s.cts_change
           /\ InStep(t)
<1> DEFINE t == UpdateInterrupts(s)
<1>1. t \in State
  BY DEF UpdateInterrupts, State
<1>2. /\ t.rx_buf = s.rx_buf /\ t.timeout = s.timeout
      /\ t.tx_buf_size = s.tx_buf_size /\ t.busy = s.busy
      /\ t.overrun = s.overrun /\ t.linctrl = s.linctrl
      /\ t.ctrl = s.ctrl /\ t.cts_change = s.cts_change
      /\ t.asserted = {l \in Lines : Level(s, l)}
  BY DEF UpdateInterrupts, State
<1>3. IntId(t) = IntId(s)
  BY <1>2 DEF IntId, FifoSize
<1>4. InStep(t)
  BY <1>2, <1>3 DEF InStep, Level
<1> QED BY <1>1, <1>2, <1>4

-----------------------------------------------------------------------------
LEMMA PopRxEffect ==
  ASSUME NEW s \in State, s.rx_buf # <<>>
  PROVE  LET t == PopRx(s) IN
           /\ t \in State
           /\ t.rx_buf = Tail(s.rx_buf)
           /\ t.timeout = (s.timeout /\ Tail(s.rx_buf) # <<>>)
           /\ t.tx_buf_size = s.tx_buf_size /\ t.busy = s.busy
           /\ t.overrun = s.overrun /\ t.linctrl = s.linctrl
           /\ InStep(t)
<1> DEFINE u == [s EXCEPT !.rx_buf = Tail(s.rx_buf),
                          !.timeout = s.timeout /\ Tail(s.rx_buf) # <<>>]
<1>1. /\ u.rx_buf = Tail(s.rx_buf)
      /\ u.timeout = (s.timeout /\ Tail(s.rx_buf) # <<>>)
      /\ u.tx_buf_size = s.tx_buf_size /\ u.busy = s.busy
      /\ u.overrun = s.overrun /\ u.linctrl = s.linctrl
  BY DEF State
<1>2. ASSUME NEW q \in Seq(Nat), NEW x \in BOOLEAN
      PROVE  [s EXCEPT !.rx_buf = q, !.timeout = x] \in State
  BY DEF State
<1>3. Tail(s.rx_buf) \in Seq(Nat)
  BY DEF State
<1>4. (s.timeout /\ Tail(s.rx_buf) # <<>>) \in BOOLEAN
  OBVIOUS
<1>5. u \in State
  BY <1>2, <1>3, <1>4
<1> HIDE DEF u
<1> QED BY <1>1, <1>5, UpdateEffect DEF PopRx, u

LEMMA PushTxEffect ==
  ASSUME NEW s \in State
  PROVE  LET t == PushTx(s) IN
           /\ t \in State
           /\ t.rx_buf = s.rx_buf /\ t.timeout = s.timeout
           /\ t.tx_buf_size = s.tx_buf_size + 1 /\ t.busy = s.busy
           /\ t.overrun = s.overrun /\ t.linctrl = s.linctrl
           /\ InStep(t)
<1> DEFINE u == [s EXCEPT !.tx_buf_size = s.tx_buf_size + 1]
<1>1. /\ u.rx_buf = s.rx_buf /\ u.timeout = s.timeout
      /\ u.tx_buf_size = s.tx_buf_size + 1 /\ u.busy = s.busy
      /\ u.overrun = s.overrun /\ u.linctrl = s.linctrl
  BY DEF State
<1>2. ASSUME NEW n \in Nat PROVE [s EXCEPT !.tx_buf_size = n] \in State
  BY DEF State
<1>3. s.tx_buf_size + 1 \in Nat
  BY DEF State
<1>4. u \in State
  BY <1>2, <1>3
<1> HIDE DEF u
<1> QED BY <1>1, <1>4, UpdateEffect DEF PushTx, u

LEMMA ClearOverrunEffect ==
  ASSUME NEW s \in State
  PROVE  LET t == ClearOverrun(s) IN
           /\ t \in State
           /\ t.rx_buf = s.rx_buf /\ t.timeout = s.timeout
           /\ t.tx_buf_size = s.tx_buf_size /\ t.busy = s.busy
           /\ ~t.overrun /\ t.linctrl = s.linctrl
           /\ InStep(t)
<1> DEFINE u == [s EXCEPT !.overrun = FALSE]
<1>1. /\ u.rx_buf = s.rx_buf /\ u.timeout = s.timeout
      /\ u.tx_buf_size = s.tx_buf_size /\ u.busy = s.busy
      /\ ~u.overrun /\ u.linctrl = s.linctrl
      /\ u \in State
  BY DEF State
<1> HIDE DEF u
<1> QED BY <1>1, UpdateEffect DEF ClearOverrun, u

LEMMA ClearIntEffect ==
  ASSUME NEW s \in State
  PROVE  LET t == ClearInt(s) IN
           /\ t \in State
           /\ t.rx_buf = s.rx_buf /\ t.timeout = s.timeout
           /\ t.tx_buf_size = s.tx_buf_size /\ t.busy = s.busy
           /\ t.overrun = s.overrun /\ t.linctrl = s.linctrl
           /\ InStep(t)
<1> DEFINE u == [s EXCEPT !.cts_change = FALSE]
<1>1. /\ u.rx_buf = s.rx_buf /\ u.timeout = s.timeout
      /\ u.tx_buf_size = s.tx_buf_size /\ u.busy = s.busy
      /\ u.overrun = s.overrun /\ u.linctrl = s.linctrl
      /\ u \in State
  BY DEF State
<1> HIDE DEF u
<1> QED BY <1>1, UpdateEffect DEF ClearInt, u

LEMMA SetCtrlEffect ==
  ASSUME NEW s \in State, NEW c \in SUBSET IntBits
  PROVE  LET t == SetCtrl(s, c) IN
           /\ t \in State
           /\ t.rx_buf = s.rx_buf /\ t.timeout = s.timeout
           /\ t.tx_buf_size = s.tx_buf_size /\ t.busy = s.busy
           /\ t.overrun = s.overrun /\ t.linctrl = s.linctrl
           /\ InStep(t)
<1> DEFINE u == [s EXCEPT !.ctrl = c]
<1>1. /\ u.rx_buf = s.rx_buf /\ u.timeout = s.timeout
      /\ u.tx_buf_size = s.tx_buf_size /\ u.busy = s.busy
      /\ u.overrun = s.overrun /\ u.linctrl = s.linctrl
      /\ u \in State
  BY DEF State
<1> HIDE DEF u
<1> QED BY <1>1, UpdateEffect DEF SetCtrl, u

LEMMA CommitHighEffect ==
  ASSUME NEW s \in State, NEW fen \in BOOLEAN
  PROVE  LET t == CommitHigh(s, fen) IN
           /\ t \in State
           /\ t.rx_buf = s.rx_buf /\ t.timeout = s.timeout
           /\ t.tx_buf_size = s.tx_buf_size /\ t.busy = s.busy
           /\ t.overrun = s.overrun
           /\ InStep(t)
<1> DEFINE u == [s EXCEPT !.latched = FALSE, !.latch = Committed(s, fen),
                          !.linctrl = Committed(s, fen)]
<1>1. /\ u.rx_buf = s.rx_buf /\ u.timeout = s.timeout
      /\ u.tx_buf_size = s.tx_buf_size /\ u.busy = s.busy
      /\ u.overrun = s.overrun
  BY DEF State
<1>2. Committed(s, fen) \in Registers
  BY DEF Committed, State, Registers
<1>3. ASSUME NEW r \in Registers
      PROVE  [s EXCEPT !.latched = FALSE, !.latch = r, !.linctrl = r] \in State
  BY DEF State
<1>4. u \in State
  BY <1>2, <1>3
<1> HIDE DEF u
<1> QED BY <1>1, <1>4, UpdateEffect DEF CommitHigh, u

\* The latch is not a cause: the lines stay in step without being updated.
LEMMA LatchEffect ==
  ASSUME NEW s \in State, NEW v \in Nat,
         NEW t \in {LatchMid(s, v), LatchLow(s, v)}
  PROVE  /\ t \in State
         /\ t.rx_buf = s.rx_buf /\ t.timeout = s.timeout
         /\ t.tx_buf_size = s.tx_buf_size /\ t.busy = s.busy
         /\ t.overrun = s.overrun /\ t.linctrl = s.linctrl
         /\ t.asserted = s.asserted
         /\ InStep(s) => InStep(t)
<1>1. ASSUME NEW r \in Registers, NEW x,
             x = [s EXCEPT !.latched = TRUE, !.latch = r]
      PROVE  /\ x \in State
             /\ x.rx_buf = s.rx_buf /\ x.timeout = s.timeout
             /\ x.tx_buf_size = s.tx_buf_size /\ x.busy = s.busy
             /\ x.overrun = s.overrun /\ x.linctrl = s.linctrl
             /\ x.ctrl = s.ctrl /\ x.cts_change = s.cts_change
             /\ x.asserted = s.asserted
  BY <1>1 DEF State
<1>2. /\ [s.latch EXCEPT !.mid = v] \in Registers
      /\ [s.latch EXCEPT !.low = v] \in Registers
  BY DEF State, Registers
<1>3. PICK r \in Registers : t = [s EXCEPT !.latched = TRUE, !.latch = r]
  <2>1. CASE t = LatchMid(s, v)
    <3>1. t = [s EXCEPT !.latched = TRUE, !.latch = [s.latch EXCEPT !.mid = v]]
      BY <2>1 DEF LatchMid, State
    <3> QED BY <3>1, <1>2
  <2>2. CASE t = LatchLow(s, v)
    <3>1. t = [s EXCEPT !.latched = TRUE, !.latch = [s.latch EXCEPT !.low = v]]
      BY <2>2 DEF LatchLow, State
    <3> QED BY <3>1, <1>2
  <2> QED BY <2>1, <2>2
<1>4. /\ t \in State
      /\ t.rx_buf = s.rx_buf /\ t.timeout = s.timeout
      /\ t.tx_buf_size = s.tx_buf_size /\ t.busy = s.busy
      /\ t.overrun = s.overrun /\ t.linctrl = s.linctrl
      /\ t.ctrl = s.ctrl /\ t.cts_change = s.cts_change
      /\ t.asserted = s.asserted
  BY <1>1, <1>3
<1>5. IntId(t) = IntId(s)
  BY <1>4 DEF IntId, FifoSize
<1>6. InStep(s) => InStep(t)
  BY <1>4, <1>5 DEF InStep, Level
<1> QED BY <1>4, <1>6

\* So is the hack flag main sets before the system runs.
LEMMA HackEffect ==
  ASSUME NEW s \in State, NEW x \in BOOLEAN
  PROVE  LET t == [s EXCEPT !.inf_rx = x] IN
           /\ t \in State
           /\ t.rx_buf = s.rx_buf /\ t.timeout = s.timeout
           /\ t.tx_buf_size = s.tx_buf_size /\ t.busy = s.busy
           /\ t.overrun = s.overrun /\ t.linctrl = s.linctrl
           /\ t.asserted = s.asserted
           /\ InStep(s) => InStep(t)
<1> DEFINE t == [s EXCEPT !.inf_rx = x]
<1>1. /\ t \in State
      /\ t.rx_buf = s.rx_buf /\ t.timeout = s.timeout
      /\ t.tx_buf_size = s.tx_buf_size /\ t.busy = s.busy
      /\ t.overrun = s.overrun /\ t.linctrl = s.linctrl
      /\ t.ctrl = s.ctrl /\ t.cts_change = s.cts_change
      /\ t.asserted = s.asserted
  BY DEF State
<1>2. IntId(t) = IntId(s)
  BY <1>1 DEF IntId, FifoSize
<1>3. InStep(s) => InStep(t)
  BY <1>1, <1>2 DEF InStep, Level
<1> QED BY <1>1, <1>3

-----------------------------------------------------------------------------
(***************************************************************************)
(* The threads' handlers.  They withdraw no cause, so that besides what    *)
(* they do to the fields, the lines they leave include those they found.   *)
(***************************************************************************)
CausesGrow(s, t) ==
  /\ t.ctrl = s.ctrl /\ t.linctrl = s.linctrl
  /\ s.timeout => t.timeout
  /\ s.cts_change => t.cts_change
  /\ t.tx_buf_size <= s.tx_buf_size
  /\ Len(t.rx_buf) >= Len(s.rx_buf)

LEMMA LinesGrow ==
  ASSUME NEW s \in State, NEW t \in State, CausesGrow(s, t), InStep(s), InStep(t)
  PROVE  s.asserted \subseteq t.asserted
<1>1. FifoSize(t) = FifoSize(s) /\ FifoSize(s) \in Nat
  BY FifoSizeType DEF CausesGrow, FifoSize
<1>2. /\ s.tx_buf_size \in Nat /\ t.tx_buf_size \in Nat
      /\ Len(s.rx_buf) \in Nat /\ Len(t.rx_buf) \in Nat
  BY DEF State
<1>3. /\ s.tx_buf_size * 2 <= FifoSize(s) => t.tx_buf_size * 2 <= FifoSize(t)
      /\ Len(s.rx_buf) * 2 >= FifoSize(s) => Len(t.rx_buf) * 2 >= FifoSize(t)
  BY <1>1, <1>2 DEF CausesGrow
<1>4. IntId(s) \subseteq IntId(t)
  BY <1>3 DEF IntId, CausesGrow
<1>5. \A l \in Lines : Level(s, l) => Level(t, l)
  BY <1>4 DEF Level
<1> QED BY <1>5 DEF InStep

LEMMA ReceiveEffect ==
  ASSUME NEW s \in State, NEW b \in Nat
  PROVE  LET t == Receive(s, b) IN
           /\ t \in State
           /\ t.rx_buf = (IF HasRxRoom(s) THEN Append(s.rx_buf, b) ELSE s.rx_buf)
           /\ t.overrun = (s.overrun \/ ~HasRxRoom(s))
           /\ t.timeout = s.timeout
           /\ t.tx_buf_size = s.tx_buf_size /\ t.busy = s.busy
           /\ t.linctrl = s.linctrl
           /\ CausesGrow(s, t)
           /\ InStep(s) => InStep(t)
<1>1. CASE HasRxRoom(s)
  <2> DEFINE u == [s EXCEPT !.rx_buf = Append(s.rx_buf, b)]
  <2>1. /\ u.rx_buf = Append(s.rx_buf, b)
        /\ u.timeout = s.timeout /\ u.overrun = s.overrun
        /\ u.tx_buf_size = s.tx_buf_size /\ u.busy = s.busy
        /\ u.linctrl = s.linctrl
        /\ u.ctrl = s.ctrl /\ u.cts_change = s.cts_change
    BY DEF State
  <2>2. ASSUME NEW q \in Seq(Nat) PROVE [s EXCEPT !.rx_buf = q] \in State
    BY DEF State
  <2>3. Append(s.rx_buf, b) \in Seq(Nat) /\ s.overrun \in BOOLEAN
    BY DEF State
  <2>4. u \in State
    BY <2>2, <2>3
  <2>5. Receive(s, b) = UpdateInterrupts(u)
    BY <1>1 DEF Receive
  <2> HIDE DEF u
  <2> DEFINE t == Receive(s, b)
  <2>6. /\ t \in State /\ t.rx_buf = Append(s.rx_buf, b)
        /\ t.timeout = s.timeout /\ t.overrun = s.overrun
        /\ t.tx_buf_size = s.tx_buf_size /\ t.busy = s.busy
        /\ t.linctrl = s.linctrl /\ t.ctrl = s.ctrl
        /\ t.cts_change = s.cts_change /\ InStep(t)
    BY <2>1, <2>4, <2>5, UpdateEffect
  <2>7. Len(Append(s.rx_buf, b)) >= Len(s.rx_buf) /\ s.tx_buf_size \in Nat
    BY DEF State
  <2> HIDE DEF t
  <2>8. CausesGrow(s, t)
    BY <2>6, <2>7 DEF CausesGrow
  <2> QED BY <1>1, <2>3, <2>6, <2>8 DEF t
<1>2. CASE ~HasRxRoom(s)
  <2> DEFINE u == [s EXCEPT !.overrun = TRUE]
  <2>1. /\ u.rx_buf = s.rx_buf
        /\ u.timeout = s.timeout /\ u.overrun
        /\ u.tx_buf_size = s.tx_buf_size /\ u.busy = s.busy
        /\ u.linctrl = s.linctrl
        /\ u.ctrl = s.ctrl /\ u.cts_change = s.cts_change
        /\ u.asserted = s.asserted
        /\ u \in State
    BY DEF State
  <2>2. IntId(u) = IntId(s)
    BY <2>1 DEF IntId, FifoSize
  <2>3. InStep(s) => InStep(u)
    BY <2>1, <2>2 DEF InStep, Level
  <2>4. Receive(s, b) = u
    BY <1>2 DEF Receive
  <2>5. u.overrun = TRUE
    BY DEF State
  <2>6. s.tx_buf_size \in Nat /\ Len(s.rx_buf) \in Nat
    BY DEF State
  <2> HIDE DEF u
  <2>7. CausesGrow(s, u)
    BY <2>1, <2>6 DEF CausesGrow
  <2> QED BY <1>2, <2>1, <2>3, <2>4, <2>5, <2>7
<1> QED BY <1>1, <1>2

LEMMA RaiseTimeoutEffect ==
  ASSUME NEW s \in State
  PROVE  LET t == RaiseTimeout(s) IN
           /\ t \in State
           /\ t.rx_buf = s.rx_buf
           /\ t.timeout = (s.timeout \/ s.rx_buf # <<>>)
           /\ t.tx_buf_size = s.tx_buf_size /\ t.busy = s.busy
           /\ t.overrun = s.overrun /\ t.linctrl = s.linctrl
           /\ CausesGrow(s, t)
           /\ InStep(s) => InStep(t)
<1>0. s.tx_buf_size \in Nat /\ Len(s.rx_buf) \in Nat
  BY DEF State
<1>1. CASE s.rx_buf # <<>>
  <2> DEFINE u == [s EXCEPT !.timeout = TRUE]
  <2>1. /\ u.rx_buf = s.rx_buf /\ u.timeout = TRUE
        /\ u.tx_buf_size = s.tx_buf_size /\ u.busy = s.busy
        /\ u.overrun = s.overrun /\ u.linctrl = s.linctrl
        /\ u.ctrl = s.ctrl /\ u.cts_change = s.cts_change
        /\ u \in State
    BY DEF State
  <2>2. RaiseTimeout(s) = UpdateInterrupts(u)
    BY <1>1 DEF RaiseTimeout
  <2> HIDE DEF u
  <2> DEFINE t == RaiseTimeout(s)
  <2>3. /\ t \in State /\ t.rx_buf = s.rx_buf /\ t.timeout = TRUE
        /\ t.overrun = s.overrun
        /\ t.tx_buf_size = s.tx_buf_size /\ t.busy = s.busy
        /\ t.linctrl = s.linctrl /\ t.ctrl = s.ctrl
        /\ t.cts_change = s.cts_change /\ InStep(t)
    BY <2>1, <2>2, UpdateEffect
  <2> HIDE DEF t
  <2>4. CausesGrow(s, t)
    BY <1>0, <2>3 DEF CausesGrow
  <2> QED BY <1>1, <2>3, <2>4 DEF t
<1>2. CASE s.rx_buf = <<>>
  <2>1. s.timeout \in BOOLEAN
    BY DEF State
  <2> QED BY <1>0, <1>2, <2>1 DEF RaiseTimeout, CausesGrow
<1> QED BY <1>1, <1>2

LEMMA BeginSendEffect ==
  ASSUME NEW s \in State
  PROVE  LET t == BeginSend(s) IN
           /\ t \in State
           /\ t.rx_buf = s.rx_buf /\ t.timeout = s.timeout
           /\ t.tx_buf_size = s.tx_buf_size /\ t.busy = TRUE
           /\ t.overrun = s.overrun /\ t.linctrl = s.linctrl
           /\ CausesGrow(s, t)
           /\ InStep(s) => InStep(t)
<1>0. s.tx_buf_size \in Nat /\ Len(s.rx_buf) \in Nat
  BY DEF State
<1>1. CASE s.busy
  <2>1. s.busy = TRUE
    BY <1>1 DEF State
  <2> QED BY <1>0, <1>1, <2>1 DEF BeginSend, CausesGrow
<1>2. CASE ~s.busy
  <2> DEFINE u == [s EXCEPT !.busy = TRUE, !.cts_change = TRUE]
  <2>1. /\ u.rx_buf = s.rx_buf /\ u.timeout = s.timeout
        /\ u.tx_buf_size = s.tx_buf_size /\ u.busy = TRUE
        /\ u.overrun = s.overrun /\ u.linctrl = s.linctrl
        /\ u.ctrl = s.ctrl /\ u.cts_change = TRUE
        /\ u \in State
    BY DEF State
  <2>2. BeginSend(s) = UpdateInterrupts(u)
    BY <1>2 DEF BeginSend
  <2> HIDE DEF u
  <2> DEFINE t == BeginSend(s)
  <2>3. /\ t \in State /\ t.rx_buf = s.rx_buf /\ t.timeout = s.timeout
        /\ t.overrun = s.overrun
        /\ t.tx_buf_size = s.tx_buf_size /\ t.busy = TRUE
        /\ t.linctrl = s.linctrl /\ t.ctrl = s.ctrl
        /\ t.cts_change = TRUE /\ InStep(t)
    BY <2>1, <2>2, UpdateEffect
  <2> HIDE DEF t
  <2>4. CausesGrow(s, t)
    BY <1>0, <2>3 DEF CausesGrow
  <2> QED BY <2>3, <2>4 DEF t
<1> QED BY <1>1, <1>2

LEMMA FinishSendEffect ==
  ASSUME NEW s \in State, s.tx_buf_size > 0
  PROVE  LET t == FinishSend(s) IN
           /\ t \in State
           /\ t.rx_buf = s.rx_buf /\ t.timeout = s.timeout
           /\ t.tx_buf_size = s.tx_buf_size - 1
           /\ t.busy = (s.busy /\ s.tx_buf_size # 1)
           /\ t.overrun = s.overrun /\ t.linctrl = s.linctrl
           /\ CausesGrow(s, t)
           /\ InStep(t)
<1> DEFINE u == [s EXCEPT !.tx_buf_size = s.tx_buf_size - 1,
                          !.busy = s.busy /\ ~(s.tx_buf_size = 1),
                          !.cts_change = s.cts_change \/ s.tx_buf_size = 1]
<1>1. /\ u.rx_buf = s.rx_buf /\ u.timeout = s.timeout
      /\ u.tx_buf_size = s.tx_buf_size - 1
      /\ u.busy = (s.busy /\ ~(s.tx_buf_size = 1))
      /\ u.overrun = s.overrun /\ u.linctrl = s.linctrl
      /\ u.ctrl = s.ctrl
      /\ u.cts_change = (s.cts_change \/ s.tx_buf_size = 1)
  BY DEF State
<1>2. ASSUME NEW n \in Nat, NEW x \in BOOLEAN, NEW y \in BOOLEAN
      PROVE  [s EXCEPT !.tx_buf_size = n, !.busy = x, !.cts_change = y] \in State
  BY DEF State
<1>3. s.tx_buf_size - 1 \in Nat
  BY DEF State
<1>4. /\ (s.busy /\ ~(s.tx_buf_size = 1)) \in BOOLEAN
      /\ (s.cts_change \/ s.tx_buf_size = 1) \in BOOLEAN
  OBVIOUS
<1>5. u \in State
  BY <1>2, <1>3, <1>4
<1>6. FinishSend(s) = UpdateInterrupts(u)
  BY DEF FinishSend
<1> HIDE DEF u
<1> DEFINE t == FinishSend(s)
<1>7. /\ t \in State /\ t.rx_buf = s.rx_buf /\ t.timeout = s.timeout
      /\ t.tx_buf_size = s.tx_buf_size - 1
      /\ t.busy = (s.busy /\ s.tx_buf_size # 1)
      /\ t.overrun = s.overrun /\ t.linctrl = s.linctrl
      /\ t.ctrl = s.ctrl
      /\ t.cts_change = (s.cts_change \/ s.tx_buf_size = 1)
      /\ InStep(t)
  BY <1>1, <1>5, <1>6, UpdateEffect
<1>8. s.tx_buf_size - 1 <= s.tx_buf_size /\ Len(s.rx_buf) \in Nat
  BY DEF State
<1> HIDE DEF t
<1>9. s.cts_change => t.cts_change
  BY <1>7, Zenon
<1>10. CausesGrow(s, t)
  <2>1. /\ t.rx_buf = s.rx_buf /\ t.timeout = s.timeout
        /\ t.tx_buf_size <= s.tx_buf_size
        /\ t.linctrl = s.linctrl /\ t.ctrl = s.ctrl
    BY <1>7, <1>8
  <2> QED BY <1>8, <1>9, <2>1 DEF CausesGrow
<1> QED BY <1>7, <1>10 DEF t
=============================================================================
