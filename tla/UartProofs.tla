----------------------------- MODULE UartProofs -----------------------------
(***************************************************************************)
(* Invariants of Uart for every value of its constants: any FIFO depth,    *)
(* any registers the guest may write and any number of characters.         *)
(***************************************************************************)
EXTENDS UartProperties, UartStateProofs

(***************************************************************************)
(* Type correctness and the transmit count.  Neither is inductive alone:   *)
(* that tx_buf_size stays a natural number rests on the count being right, *)
(* and the count is about well-typed channels.                             *)
(***************************************************************************)
TxInv == TypeOK /\ TxAccounting

LEMMA TxInvInit == Init => TxInv
<1> SUFFICES ASSUME Init PROVE TxInv
  OBVIOUS
<1>1. IntrOK
  BY ResetEffect DEF Init, IntrOK
<1>2. cpu \in CpuPcs
  BY DEF Init, CpuPcs
<1>0. <<>> \in Seq(Nat) /\ Len(<<>>) = 0
  OBVIOUS
<1>3. InputOK
  <2>1. Len(rx_hand) = (IF in_pc = "deliver" THEN 1 ELSE 0)
    BY <1>0 DEF Init
  <2> QED BY <1>0, <2>1 DEF Init, InputOK, InPcs
<1>4. OutputOK
  <2>1. Len(tx_hand) = (IF out_pc \in {"begin", "send"} THEN 1 ELSE 0)
    BY <1>0 DEF Init
  <2> QED BY <1>0, <2>1 DEF Init, OutputOK, OutPcs
<1>5. HostOK
  BY UartAssumption DEF Init, Installed, HostOK
<1>6. TxAccounting
  BY ResetEffect DEF Init, TxAccounting
<1> QED BY <1>1, <1>2, <1>3, <1>4, <1>5, <1>6 DEF TxInv, TypeOK

LEMMA EdgeType ==
  ASSUME NEW s, NEW t, NEW l \in Lines PROVE Edge(s, t, l) \in Seq(Message)
<1>1. (l \in t.asserted) \in BOOLEAN
  OBVIOUS
<1>2. [line |-> l, level |-> (l \in t.asserted)] \in Message
  BY <1>1 DEF Message
<1> QED BY <1>2 DEF Edge

\* A handler run under the lock leaves the interrupt path well typed.
LEMMA LockedType ==
  ASSUME NEW t \in State, IntrOK, Locked(t)
  PROVE  st' = t /\ IntrOK'
<1>1. Messages(st, t) \in Seq(Message)
  BY EdgeType DEF Messages, Lines
<1> QED BY <1>1 DEF Locked, IntrOK

\* The handlers each action runs under the lock.
LEMMA IntrStep ==
  ASSUME TxInv, [Next]_vars PROVE IntrOK'
<1> USE DEF TxInv, TypeOK
<1>1. CASE ApplyHacks
  BY <1>1, HackEffect, UartAssumption DEF ApplyHacks, IntrOK
<1>2. CASE Guest
  <2>1. CASE ReadData
    BY <2>1, PopRxEffect, LockedType DEF ReadData, IntrOK
  <2>2. CASE WriteDataAccepted
    BY <2>2, PushTxEffect, LockedType DEF WriteDataAccepted, IntrOK
  <2>3. CASE WriteRxSts
    BY <2>3, ClearOverrunEffect, LockedType DEF WriteRxSts, IntrOK
  <2>4. ASSUME NEW fen \in FenVals, WriteLinCtrlHigh(fen) PROVE IntrOK'
    BY <2>4, CommitHighEffect, LockedType, UartAssumption
       DEF WriteLinCtrlHigh, IntrOK
  <2>5. ASSUME NEW v \in MidVals, WriteLinCtrlMid(v) PROVE IntrOK'
    BY <2>5, LatchEffect, LockedType, UartAssumption DEF WriteLinCtrlMid, IntrOK
  <2>6. ASSUME NEW v \in LowVals, WriteLinCtrlLow(v) PROVE IntrOK'
    BY <2>6, LatchEffect, LockedType, UartAssumption DEF WriteLinCtrlLow, IntrOK
  <2>7. ASSUME NEW c \in CtrlVals, WriteCtrl(c) PROVE IntrOK'
    BY <2>7, SetCtrlEffect, LockedType, UartAssumption DEF WriteCtrl, IntrOK
  <2>8. CASE WriteIntClr
    BY <2>8, ClearIntEffect, LockedType DEF WriteIntClr, IntrOK
  <2>9. CASE \E fen \in FenVals : WriteLinCtrlHighPanics(fen)
    BY <2>9 DEF WriteLinCtrlHighPanics, intr, IntrOK
  <2> QED BY <1>2, <2>1, <2>2, <2>3, <2>4, <2>5, <2>6, <2>7, <2>8, <2>9 DEF Guest
<1>3. CASE DrainOne
  <2>1. Head(bus) \in Message /\ Tail(bus) \in Seq(Message)
    BY <1>3 DEF DrainOne, IntrOK
  <2>2. Head(bus).line \in Lines
    BY <2>1 DEF Message
  <2>3. status' \subseteq Lines
    BY <1>3, <2>2 DEF DrainOne, IntrOK
  <2> QED BY <1>3, <2>1, <2>3 DEF DrainOne, IntrOK
<1>4. CASE InDeliver
  <2>1. Head(rx_hand) \in Nat
    <3>1. rx_hand \in Seq(Nat) /\ Len(rx_hand) = 1
      BY <1>4 DEF InDeliver, InputOK
    <3> QED BY <3>1
  <2> QED BY <1>4, <2>1, ReceiveEffect, LockedType DEF InDeliver, IntrOK
<1>5. CASE InRaiseTimeout
  BY <1>5, RaiseTimeoutEffect, LockedType DEF InRaiseTimeout, IntrOK
<1>6. CASE OutBegin
  BY <1>6, BeginSendEffect, LockedType DEF OutBegin, IntrOK
<1>7. CASE OutFinish
  <2>1. st.tx_buf_size > 0
    BY <1>7 DEF OutFinish, TxAccounting, OutputOK
  <2> QED BY <1>7, <2>1, FinishSendEffect, LockedType DEF OutFinish, IntrOK
<1>8. CASE UNCHANGED intr
  BY <1>8 DEF intr, IntrOK
<1>9. CASE \/ EndInstruction \/ DrainEnds \/ Halted \/ Drop
           \/ InCheck \/ InReceive \/ InTimeout \/ InExit
           \/ OutReceive \/ OutExit \/ OutSend \/ OutFlush \/ OutDone
           \/ HostType \/ HostWriter \/ HostWriterFails \/ Ended
  BY <1>8, <1>9
  DEF EndInstruction, DrainEnds, Halted, Drop, SendExitIn, SendExitOut, JoinIn, JoinOut,
      JoinWriter, InCheck, InReceive, InTimeout, InExit, OutReceive, OutExit,
      OutSend, OutFlush, OutDone, HostType, HostWriter, HostWrite,
      HostWriterEnds, HostWriterFails, Ended, vars
<1>10. CASE UNCHANGED vars
  BY <1>8, <1>10 DEF vars
<1> QED
  BY <1>1, <1>2, <1>3, <1>4, <1>5, <1>6, <1>7, <1>9, <1>10
  DEF Next, Drain, InThread, OutThread

\* The actions of the CPU thread, and those of the user's tasks that write to
\* no channel, leave a buffer thread's variables alone.
LEMMA InputStep ==
  ASSUME TxInv, [Next]_vars PROVE InputOK'
<1> USE DEF TxInv, TypeOK
<1>1. CASE InCheck
  <2>1. CanTimeout(st) \in BOOLEAN
    BY DEF CanTimeout, IntrOK, State
  <2> QED BY <1>1, <2>1 DEF InCheck, InputOK, InPcs
<1>2. CASE InReceive
  <2>1. Head(uart_input) \in Nat /\ Tail(uart_input) \in Seq(Nat)
    BY <1>2 DEF InReceive, InputOK
  <2>2. <<Head(uart_input)>> \in Seq(Nat) /\ Len(<<Head(uart_input)>>) = 1
    BY <2>1
  <2> QED BY <1>2, <2>1, <2>2 DEF InReceive, InputOK, InPcs
<1>3. CASE InTimeout \/ InExit
  BY <1>3 DEF InTimeout, InExit, InputOK, InPcs
<1>4. CASE InDeliver
  <2>1. <<>> \in Seq(Nat) /\ Len(<<>>) = 0
    OBVIOUS
  <2> QED BY <1>4, <2>1 DEF InDeliver, InputOK, InPcs
<1>5. CASE InRaiseTimeout
  BY <1>5 DEF InRaiseTimeout, InputOK, InPcs
<1>6. CASE SendExitIn
  BY <1>6 DEF SendExitIn, InputOK
<1>7. CASE HostType
  <2>1. typed' \in Nat
    BY <1>7 DEF HostType, HostOK
  <2> QED BY <1>7, <2>1 DEF HostType, InputOK
<1>8. CASE UNCHANGED input
  BY <1>8 DEF input, InputOK
<1>9. CASE \/ ApplyHacks \/ Guest \/ EndInstruction \/ Drain \/ Halted
           \/ SendExitOut \/ JoinIn \/ JoinOut \/ JoinWriter
           \/ OutThread \/ HostWriter \/ HostWriterFails \/ Ended
  BY <1>8, <1>9
  DEF ApplyHacks, Guest, EndInstruction, ReadData, WriteDataAccepted,
      WriteRxSts, WriteLinCtrlHigh, WriteLinCtrlHighPanics,
      WriteLinCtrlMid, WriteLinCtrlLow, WriteCtrl, WriteIntClr,
      Drain, DrainOne, DrainEnds, Halted, SendExitOut, JoinIn, JoinOut,
      JoinWriter, OutThread, OutReceive, OutExit, OutBegin, OutSend, OutFinish,
      OutFlush, OutDone, HostWriter, HostWrite, HostWriterEnds, HostWriterFails, Ended, vars
<1>10. CASE UNCHANGED vars
  BY <1>8, <1>10 DEF vars
<1> QED
  BY <1>1, <1>2, <1>3, <1>4, <1>5, <1>6, <1>7, <1>9, <1>10
  DEF Next, Drop, InThread

LEMMA OutputStep ==
  ASSUME TxInv, [Next]_vars PROVE OutputOK'
<1> USE DEF TxInv, TypeOK
<1>1. CASE OutReceive
  <2>1. Head(device_output) \in Nat /\ Tail(device_output) \in Seq(Nat)
    BY <1>1 DEF OutReceive, OutputOK
  <2>2. <<Head(device_output)>> \in Seq(Nat) /\ Len(<<Head(device_output)>>) = 1
    BY <2>1
  <2> QED BY <1>1, <2>1, <2>2 DEF OutReceive, OutputOK, OutPcs
<1>2. CASE OutExit \/ OutBegin
  BY <1>2 DEF OutExit, OutBegin, OutputOK, OutPcs
<1>3. CASE OutSend
  <2>1. <<>> \in Seq(Nat) /\ Len(<<>>) = 0
    OBVIOUS
  <2>2. uart_output \o tx_hand \in Seq(Nat)
    BY DEF OutputOK
  <2> QED BY <1>3, <2>1, <2>2 DEF OutSend, OutputOK, OutPcs
<1>4. CASE OutFinish \/ OutDone
  BY <1>4 DEF OutFinish, OutDone, OutputOK, OutPcs
<1>5. CASE OutFlush
  <2>1. Head(device_output) \in Nat /\ Tail(device_output) \in Seq(Nat)
    BY <1>5 DEF OutFlush, OutputOK
  <2> QED BY <1>5, <2>1 DEF OutFlush, OutputOK
<1>6. CASE WriteDataAccepted
  <2>1. accepted' \in Nat
    BY <1>6 DEF WriteDataAccepted, HostOK
  <2> QED BY <1>6, <2>1 DEF WriteDataAccepted, OutputOK
<1>7. CASE SendExitOut
  BY <1>7 DEF SendExitOut, OutputOK
<1>8. CASE HostWrite
  BY <1>8 DEF HostWrite, OutputOK
<1>12. CASE HostWriterFails
  <2>1. Tail(uart_output) \in Seq(Nat)
    BY <1>12 DEF HostWriterFails, OutputOK
  <2> QED BY <1>12, <2>1 DEF HostWriterFails, OutputOK
<1>9. CASE UNCHANGED output
  BY <1>9 DEF output, OutputOK
<1>10. CASE \/ ApplyHacks \/ EndInstruction \/ ReadData
            \/ WriteRxSts \/ WriteIntClr
            \/ \E fen \in FenVals : WriteLinCtrlHigh(fen) \/ WriteLinCtrlHighPanics(fen)
            \/ \E v \in MidVals : WriteLinCtrlMid(v)
            \/ \E v \in LowVals : WriteLinCtrlLow(v)
            \/ \E c \in CtrlVals : WriteCtrl(c)
            \/ Drain \/ Halted \/ SendExitIn \/ JoinIn \/ JoinOut \/ JoinWriter
            \/ InThread \/ HostType \/ HostWriterEnds \/ Ended
  BY <1>9, <1>10
  DEF ApplyHacks, EndInstruction, ReadData,
      WriteRxSts, WriteLinCtrlHigh, WriteLinCtrlHighPanics,
      WriteLinCtrlMid, WriteLinCtrlLow, WriteCtrl, WriteIntClr,
      Drain, DrainOne, DrainEnds, Halted, SendExitIn, JoinIn, JoinOut,
      JoinWriter, InThread, InCheck, InReceive, InTimeout, InExit, InDeliver,
      InRaiseTimeout, HostType, HostWriterEnds, HostWriterFails, Ended, vars
<1>11. CASE UNCHANGED vars
  BY <1>9, <1>11 DEF vars
<1> QED
  BY <1>1, <1>2, <1>3, <1>4, <1>5, <1>6, <1>7, <1>8, <1>10, <1>11,
     <1>12
  DEF Next, Guest, Drop, OutThread, HostWriter

LEMMA HostStep ==
  ASSUME TxInv, [Next]_vars PROVE cpu' \in CpuPcs /\ HostOK'
<1> USE DEF TxInv, TypeOK
<1>1. CASE ReadData
  <2>1. Head(st.rx_buf) \in Nat
    BY <1>1 DEF ReadData, IntrOK, State
  <2> QED BY <1>1, <2>1 DEF ReadData, Access, HostOK, CpuPcs
<1>2. CASE WriteDataAccepted
  BY <1>2 DEF WriteDataAccepted, Access, HostOK, CpuPcs
<1>3. CASE WriteRxSts
  <2>1. RxStream \in Seq(Nat)
    BY DEF RxStream, IntrOK, InputOK, HostOK, State
  <2>2. Lost \in Int
    BY <2>1 DEF Lost, HostOK
  <2> QED BY <1>3, <2>2 DEF WriteRxSts, Access, HostOK, CpuPcs
<1>4. CASE HostType
  BY <1>4 DEF HostType, HostOK
<1>5. CASE HostWrite
  <2>1. Head(uart_output) \in Nat
    BY <1>5 DEF HostWrite, OutputOK
  <2> QED BY <1>5, <2>1 DEF HostWrite, HostOK
<1>6. CASE HostWriterEnds
  BY <1>6 DEF HostWriterEnds, HostOK
<1>10. CASE HostWriterFails
  BY <1>10 DEF HostWriterFails, HostOK
<1>7. CASE UNCHANGED host /\ cpu' \in CpuPcs
  BY <1>7 DEF host, HostOK
<1>8. CASE \/ ApplyHacks \/ EndInstruction \/ WriteIntClr
           \/ \E fen \in FenVals : WriteLinCtrlHigh(fen) \/ WriteLinCtrlHighPanics(fen)
           \/ \E v \in MidVals : WriteLinCtrlMid(v)
           \/ \E v \in LowVals : WriteLinCtrlLow(v)
           \/ \E c \in CtrlVals : WriteCtrl(c)
           \/ Drain \/ Halted \/ Drop
  BY <1>7, <1>8
  DEF ApplyHacks, EndInstruction, WriteLinCtrlHigh,
      WriteLinCtrlHighPanics, WriteLinCtrlMid, WriteLinCtrlLow, WriteCtrl,
      WriteIntClr, Access, Drain, DrainOne, DrainEnds, Halted, Drop,
      SendExitIn, SendExitOut, JoinIn, JoinOut, JoinWriter, CpuPcs
<1>9. CASE InThread \/ OutThread \/ Ended \/ UNCHANGED vars
  BY <1>7, <1>9
  DEF InThread, InCheck, InReceive, InTimeout, InExit, InDeliver,
      InRaiseTimeout, OutThread, OutReceive, OutExit, OutBegin, OutSend,
      OutFinish, OutFlush, OutDone, Ended, vars
<1> QED
  BY <1>1, <1>2, <1>3, <1>4, <1>5, <1>6, <1>8, <1>9, <1>10
  DEF Next, Guest, HostWriter

\* Only two handlers touch the count, and they do it where the character
\* enters the channel and where the output thread lets go of it.
LEMMA CountStep ==
  ASSUME TxInv, [Next]_vars PROVE TxAccounting'
<1> USE DEF TxInv, TypeOK
<1>1. CASE WriteDataAccepted
  <2>1. st'.tx_buf_size = st.tx_buf_size + 1
    BY <1>1, PushTxEffect DEF WriteDataAccepted, Locked, IntrOK
  <2>2. Len(device_output') = Len(device_output) + 1 /\ out_pc' = out_pc
    BY <1>1 DEF WriteDataAccepted, OutputOK
  <2>3. st.tx_buf_size \in Nat
    BY DEF IntrOK, State
  <2> QED BY <2>1, <2>2, <2>3 DEF TxAccounting, OutputOK
<1>2. CASE OutReceive
  <2>1. st' = st /\ Len(device_output') = Len(device_output) - 1
    BY <1>2 DEF OutReceive, OutputOK, intr
  <2> QED BY <1>2, <2>1 DEF OutReceive, TxAccounting, OutputOK
<1>3. CASE OutFinish
  <2>1. st.tx_buf_size > 0
    BY <1>3 DEF OutFinish, TxAccounting, OutputOK
  <2>2. st'.tx_buf_size = st.tx_buf_size - 1
    BY <1>3, <2>1, FinishSendEffect DEF OutFinish, Locked, IntrOK
  <2> QED BY <1>3, <2>2 DEF OutFinish, TxAccounting, OutputOK
<1>4. CASE OutBegin
  <2>1. st'.tx_buf_size = st.tx_buf_size
    BY <1>4, BeginSendEffect DEF OutBegin, Locked, IntrOK
  <2> QED BY <1>4, <2>1 DEF OutBegin, TxAccounting
<1>5. CASE OutSend \/ OutExit \/ OutFlush \/ OutDone
  BY <1>5 DEF OutSend, OutExit, OutFlush, OutDone, TxAccounting, intr
<1>6. CASE UNCHANGED <<out_pc, device_output>> /\ st'.tx_buf_size = st.tx_buf_size
  BY <1>6 DEF TxAccounting
<1>7. CASE ApplyHacks
  BY <1>6, <1>7, HackEffect, UartAssumption DEF ApplyHacks, IntrOK, output
<1>8. CASE ReadData
  BY <1>6, <1>8, PopRxEffect DEF ReadData, Locked, IntrOK, output
<1>9. CASE WriteRxSts
  BY <1>6, <1>9, ClearOverrunEffect DEF WriteRxSts, Locked, IntrOK, output
<1>10. CASE \E fen \in FenVals : WriteLinCtrlHigh(fen)
  BY <1>6, <1>10, CommitHighEffect, UartAssumption
     DEF WriteLinCtrlHigh, Locked, IntrOK, output
<1>11. CASE \/ \E v \in MidVals : WriteLinCtrlMid(v)
            \/ \E v \in LowVals : WriteLinCtrlLow(v)
  <2>1. PICK v \in Nat : st' \in {LatchMid(st, v), LatchLow(st, v)}
    BY <1>11, UartAssumption DEF WriteLinCtrlMid, WriteLinCtrlLow, Locked
  <2>2. st'.tx_buf_size = st.tx_buf_size
    BY <2>1, LatchEffect DEF IntrOK
  <2>3. UNCHANGED <<out_pc, device_output>>
    BY <1>11 DEF WriteLinCtrlMid, WriteLinCtrlLow, output
  <2> QED BY <1>6, <2>2, <2>3
<1>12. CASE \E c \in CtrlVals : WriteCtrl(c)
  BY <1>6, <1>12, SetCtrlEffect, UartAssumption
     DEF WriteCtrl, Locked, IntrOK, output
<1>13. CASE WriteIntClr
  BY <1>6, <1>13, ClearIntEffect DEF WriteIntClr, Locked, IntrOK, output
<1>14. CASE InDeliver
  <2>1. rx_hand \in Seq(Nat) /\ Len(rx_hand) = 1
    BY <1>14 DEF InDeliver, InputOK
  <2>2. Head(rx_hand) \in Nat
    BY <2>1
  <2> QED BY <1>6, <1>14, <2>2, ReceiveEffect DEF InDeliver, Locked, IntrOK, output
<1>15. CASE InRaiseTimeout
  BY <1>6, <1>15, RaiseTimeoutEffect DEF InRaiseTimeout, Locked, IntrOK, output
<1>16. CASE \/ EndInstruction
            \/ \E fen \in FenVals : WriteLinCtrlHighPanics(fen)
            \/ Drain \/ Halted \/ Drop
            \/ InCheck \/ InReceive \/ InTimeout \/ InExit
            \/ HostType \/ HostWriter \/ HostWriterFails \/ Ended \/ UNCHANGED vars
  BY <1>6, <1>16
  DEF EndInstruction, WriteLinCtrlHighPanics, Drain,
      DrainOne, DrainEnds, Halted, Drop, SendExitIn, SendExitOut, JoinIn,
      JoinOut, JoinWriter, InCheck, InReceive, InTimeout, InExit, HostType,
      HostWriter, HostWrite, HostWriterEnds, HostWriterFails, Ended, vars, intr, output
<1> QED
  BY <1>1, <1>2, <1>3, <1>4, <1>5, <1>7, <1>8, <1>9, <1>10, <1>11, <1>12,
     <1>13, <1>14, <1>15, <1>16
  DEF Next, Guest, InThread, OutThread

LEMMA TxInvInductive == TxInv /\ [Next]_vars => TxInv'
  BY IntrStep, InputStep, OutputStep, HostStep, CountStep DEF TxInv, TypeOK

\* Type correctness of the UART and its threads (State in device.rs:55-82):
\* whatever the interleaving, every variable keeps its type, so the
\* subtraction in the output thread (device.rs:326) never underflows.
THEOREM TypeCorrect == Spec => []TypeOK
<1>1. Spec => []TxInv
  BY TxInvInit, TxInvInductive, PTL DEF Spec
<1> QED BY <1>1, PTL DEF TxInv

\* The count of characters in transmission is right at every step, as the
\* comment in w32 (device.rs:645-649) claims.
THEOREM TxCountCorrect == Spec => []TxAccounting
<1>1. Spec => []TxInv
  BY TxInvInit, TxInvInductive, PTL DEF Spec
<1> QED BY <1>1, PTL DEF TxInv

-----------------------------------------------------------------------------
(***************************************************************************)
(* The interrupt lines and their way to the VIC.                           *)
(***************************************************************************)

\* A line that changes sends one message, and then the path is coherent with
\* its new level.
LEMMA EdgeCoherent ==
  ASSUME NEW b \in Seq(Message), NEW v, NEW a, NEW c, NEW l \in Lines,
         \A k \in Lines \ {l} : k \in a <=> k \in c,
         Coherent(b, v, a),
         NEW s, NEW t,
         l \in a <=> l \in s.asserted,
         l \in c <=> l \in t.asserted
  PROVE  LET d == b \o Edge(s, t, l) IN d \in Seq(Message) /\ Coherent(d, v, c)
<1>0. \A i \in 1..Len(b) : b[i].line \in Lines
  <2>1. \A i \in 1..Len(b) : b[i] \in Message
    OBVIOUS
  <2> QED BY <2>1 DEF Message
<1>1. CASE l \in a <=> l \in c
  <2>1. Edge(s, t, l) = <<>>
    BY <1>1 DEF Edge
  <2>2. \A k \in Lines : k \in a <=> k \in c
    BY <1>1
  <2>3. b \o <<>> = b
    OBVIOUS
  <2> QED BY <1>0, <2>1, <2>2, <2>3 DEF Coherent
<1>2. CASE ~(l \in a <=> l \in c)
  <2> DEFINE m == [line |-> l, level |-> (l \in t.asserted)]
             d == b \o <<m>>
  <2>1. Edge(s, t, l) = <<m>>
    BY <1>2 DEF Edge
  <2>2. m.line = l /\ (m.level <=> l \in c)
    OBVIOUS
  <2>3. m \in Message
    <3>1. (l \in t.asserted) \in BOOLEAN
      OBVIOUS
    <3> QED BY <3>1 DEF Message
  <2> HIDE DEF m
  <2>4. /\ d \in Seq(Message) /\ Len(d) = Len(b) + 1 /\ d[Len(b) + 1] = m
        /\ \A i \in 1..Len(b) : d[i] = b[i]
    BY <2>3
  <2>6. Len(b) \in Nat
    OBVIOUS
  <2> HIDE DEF d
  <2>7. ASSUME NEW i \in 1..Len(d),
               \A j \in (i + 1)..Len(d) : d[j].line # d[i].line
        PROVE  d[i].level <=> d[i].line \in c
    <3>1. CASE i = Len(b) + 1
      <4>1. d[i] = m
        BY <3>1, <2>4
      <4> QED BY <4>1, <2>2
    <3>2. CASE i \in 1..Len(b)
      <4>1. Len(b) + 1 \in (i + 1)..Len(d)
        BY <3>2, <2>4, <2>6
      <4>2. b[i].line # l
        BY <4>1, <3>2, <2>2, <2>4, <2>7
      <4>3. \A j \in (i + 1)..Len(b) : b[j].line # b[i].line
        BY <3>2, <2>4, <2>6, <2>7
      <4>4. b[i].level <=> b[i].line \in a
        BY <4>3, <3>2 DEF Coherent
      <4>5. b[i].line \in a <=> b[i].line \in c
        BY <4>2, <1>0, <3>2
      <4> QED BY <4>4, <4>5, <3>2, <2>4
    <3> QED BY <3>1, <3>2, <2>4, <2>6
  <2>8. ASSUME NEW k \in Lines, \A i \in 1..Len(d) : d[i].line # k
        PROVE  k \in v <=> k \in c
    <3>1. Len(b) + 1 \in 1..Len(d) /\ \A i \in 1..Len(b) : i \in 1..Len(d)
      BY <2>4, <2>6
    <3>2. k # l
      BY <3>1, <2>2, <2>4, <2>8
    <3>3. \A i \in 1..Len(b) : b[i].line # k
      BY <3>1, <2>4, <2>8
    <3> QED BY <3>2, <3>3 DEF Coherent
  <2>9. Coherent(d, v, c)
    BY <2>7, <2>8 DEF Coherent
  <2> QED BY <2>1, <2>4, <2>9 DEF d
<1> QED BY <1>1, <1>2

\* update_interrupts: the three lines one after the other.
LEMMA LockedCoherent ==
  ASSUME IntrOK, InterruptPathCoherent, NEW t, Locked(t),
         st.asserted \subseteq Lines, t.asserted \subseteq Lines
  PROVE  InterruptPathCoherent'
<1> DEFINE a == st.asserted
           c == t.asserted
           a1 == (a \ {"tx"}) \union (c \intersect {"tx"})
           a2 == (a1 \ {"rx"}) \union (c \intersect {"rx"})
           b1 == bus \o Edge(st, t, "tx")
           b2 == b1 \o Edge(st, t, "rx")
           b3 == b2 \o Edge(st, t, "combo")
<1>1. /\ \A k \in Lines \ {"tx"} : k \in a <=> k \in a1
      /\ \A k \in Lines \ {"rx"} : k \in a1 <=> k \in a2
      /\ \A k \in Lines \ {"combo"} : k \in a2 <=> k \in c
      /\ "tx" \in a1 <=> "tx" \in c
      /\ "rx" \in a1 <=> "rx" \in a
      /\ "rx" \in a2 <=> "rx" \in c
      /\ "combo" \in a2 <=> "combo" \in a
  BY DEF Lines
<1> HIDE DEF a1, a2
<1>2. "tx" \in Lines /\ "rx" \in Lines /\ "combo" \in Lines
  BY DEF Lines
<1>3. b1 \in Seq(Message) /\ Coherent(b1, status, a1)
  BY <1>1, <1>2, EdgeCoherent DEF IntrOK, InterruptPathCoherent
<1> HIDE DEF b1
<1>4. b2 \in Seq(Message) /\ Coherent(b2, status, a2)
  BY <1>1, <1>2, <1>3, EdgeCoherent
<1> HIDE DEF b2
<1>5. b3 \in Seq(Message) /\ Coherent(b3, status, c)
  BY <1>1, <1>2, <1>4, EdgeCoherent
<1>6. bus \o Messages(st, t) = b3
  <2>1. /\ Edge(st, t, "tx") \in Seq(Message)
        /\ Edge(st, t, "rx") \in Seq(Message)
        /\ Edge(st, t, "combo") \in Seq(Message)
    BY <1>2, EdgeType
  <2>2. bus \in Seq(Message)
    BY DEF IntrOK
  <2>3. ASSUME NEW w \in Seq(Message), NEW x \in Seq(Message),
               NEW y \in Seq(Message), NEW z \in Seq(Message)
        PROVE  w \o (x \o y \o z) = ((w \o x) \o y) \o z
    OBVIOUS
  <2> QED BY <2>1, <2>2, <2>3 DEF Messages, b1, b2
<1>7. st'.asserted = c /\ bus' = b3 /\ status' = status
  BY <1>6 DEF Locked
<1> HIDE DEF b3
<1> QED BY <1>5, <1>7 DEF InterruptPathCoherent

\* One turn of the drain loop: the VIC takes the oldest message, which only
\* matters for a line of which it is also the last.
LEMMA DrainCoherent ==
  ASSUME IntrOK, InterruptPathCoherent, DrainOne
  PROVE  InterruptPathCoherent'
<1> DEFINE h == Head(bus)
           d == Tail(bus)
<1>1. /\ bus \in Seq(Message) /\ Len(bus) \in Nat /\ Len(bus) > 0
      /\ Len(d) = Len(bus) - 1 /\ \A i \in 1..Len(d) : d[i] = bus[i + 1]
      /\ h = bus[1] /\ bus' = d
  BY DEF DrainOne, IntrOK
<1>2. st' = st
  BY DEF DrainOne
<1>3. \A k : k \in status' <=> IF k = h.line THEN h.level ELSE k \in status
  BY DEF DrainOne
<1> HIDE DEF h, d
<1>4. ASSUME NEW i \in 1..Len(d),
             \A j \in (i + 1)..Len(d) : d[j].line # d[i].line
      PROVE  d[i].level <=> d[i].line \in st.asserted
  <2>1. ASSUME NEW j \in (i + 2)..Len(bus) PROVE bus[j].line # bus[i + 1].line
    <3>1. j - 1 \in (i + 1)..Len(d) /\ d[j - 1] = bus[j] /\ d[i] = bus[i + 1]
      BY <1>1
    <3> QED BY <1>4, <3>1
  <2>2. i + 1 \in 1..Len(bus) /\ d[i] = bus[i + 1] /\ (i + 1) + 1 = i + 2
    BY <1>1
  <2> QED BY <2>1, <2>2 DEF InterruptPathCoherent, Coherent
<1>5. ASSUME NEW k \in Lines, \A i \in 1..Len(d) : d[i].line # k
      PROVE  k \in status' <=> k \in st.asserted
  <2>1. \A i \in 2..Len(bus) : bus[i].line # k
    <3>1. \A i \in 2..Len(bus) : i - 1 \in 1..Len(d) /\ d[i - 1] = bus[i]
      BY <1>1
    <3> QED BY <1>5, <3>1
  <2>2. CASE k = h.line
    <3>1. 1 \in 1..Len(bus) /\ \A j \in (1 + 1)..Len(bus) : bus[j].line # bus[1].line
      BY <1>1, <2>1, <2>2
    <3>2. bus[1].level <=> bus[1].line \in st.asserted
      BY <3>1 DEF InterruptPathCoherent, Coherent
    <3> QED BY <1>1, <1>3, <2>2, <3>2
  <2>3. CASE k # h.line
    <3>1. \A i \in 1..Len(bus) : bus[i].line # k
      BY <1>1, <2>1, <2>3
    <3> QED BY <1>3, <2>3, <3>1 DEF InterruptPathCoherent, Coherent
  <2> QED BY <2>2, <2>3
<1> QED BY <1>1, <1>2, <1>4, <1>5 DEF InterruptPathCoherent, Coherent

\* What a step does to the interrupt path: a handler runs, the VIC takes a
\* message, or nothing changes.
LEMMA StepShape ==
  ASSUME TxInv, [Next]_vars
  PROVE  \/ Locked(st')
         \/ DrainOne
         \/ UNCHANGED <<bus, status>> /\ st'.asserted = st.asserted
<1>1. CASE ApplyHacks
  BY <1>1, HackEffect, UartAssumption DEF ApplyHacks, TxInv, TypeOK, IntrOK
<1>2. CASE Guest
  BY <1>2 DEF Guest, ReadData, WriteDataAccepted, WriteRxSts,
      WriteLinCtrlHigh, WriteLinCtrlHighPanics, WriteLinCtrlMid,
      WriteLinCtrlLow, WriteCtrl, WriteIntClr, Locked, intr
<1>3. CASE \/ EndInstruction \/ DrainEnds \/ Halted \/ Drop \/ HostType
           \/ HostWriter \/ HostWriterFails \/ Ended
  BY <1>3 DEF EndInstruction, DrainEnds, Halted, Drop, SendExitIn, SendExitOut, JoinIn,
      JoinOut, JoinWriter, HostType, HostWriter, HostWrite, HostWriterEnds,
      HostWriterFails, Ended, intr, vars
<1>4. CASE InThread \/ OutThread
  BY <1>4 DEF InThread, InCheck, InReceive, InTimeout, InExit, InDeliver,
      InRaiseTimeout, OutThread, OutReceive, OutExit, OutBegin, OutSend,
      OutFinish, OutFlush, OutDone, Locked, intr
<1>5. CASE UNCHANGED vars
  BY <1>5 DEF vars, intr
<1> QED BY <1>1, <1>2, <1>3, <1>4, <1>5 DEF Next, Drain

LEMMA PathStep ==
  ASSUME TxInv, IntrOK', [Next]_vars, InterruptPathCoherent
  PROVE  InterruptPathCoherent'
<1>1. CASE Locked(st')
  <2>1. st.asserted \subseteq Lines /\ st'.asserted \subseteq Lines
    BY DEF TxInv, TypeOK, IntrOK, State
  <2> QED BY <1>1, <2>1, LockedCoherent DEF TxInv, TypeOK
<1>2. CASE DrainOne
  BY <1>2, DrainCoherent DEF TxInv, TypeOK
<1>3. CASE UNCHANGED <<bus, status>> /\ st'.asserted = st.asserted
  BY <1>3 DEF InterruptPathCoherent, Coherent
<1> QED BY <1>1, <1>2, <1>3, StepShape

\* Every handler ends with update_interrupts or touches no cause.
LEMMA LinesStep ==
  ASSUME TxInv, [Next]_vars, InStep(st) PROVE InStep(st')
<1> USE DEF TxInv, TypeOK
<1>1. CASE ApplyHacks
  BY <1>1, HackEffect, UartAssumption DEF ApplyHacks, IntrOK
<1>2. CASE Guest
  <2>1. CASE ReadData
    BY <2>1, PopRxEffect DEF ReadData, Locked, IntrOK
  <2>2. CASE WriteDataAccepted
    BY <2>2, PushTxEffect DEF WriteDataAccepted, Locked, IntrOK
  <2>3. CASE WriteRxSts
    BY <2>3, ClearOverrunEffect DEF WriteRxSts, Locked, IntrOK
  <2>4. ASSUME NEW fen \in FenVals, WriteLinCtrlHigh(fen) PROVE InStep(st')
    BY <2>4, CommitHighEffect, UartAssumption
       DEF WriteLinCtrlHigh, Locked, IntrOK
  <2>5. ASSUME NEW v \in MidVals, WriteLinCtrlMid(v) PROVE InStep(st')
    BY <2>5, LatchEffect, UartAssumption DEF WriteLinCtrlMid, Locked, IntrOK
  <2>6. ASSUME NEW v \in LowVals, WriteLinCtrlLow(v) PROVE InStep(st')
    BY <2>6, LatchEffect, UartAssumption DEF WriteLinCtrlLow, Locked, IntrOK
  <2>7. ASSUME NEW c \in CtrlVals, WriteCtrl(c) PROVE InStep(st')
    BY <2>7, SetCtrlEffect, UartAssumption DEF WriteCtrl, Locked, IntrOK
  <2>8. CASE WriteIntClr
    BY <2>8, ClearIntEffect DEF WriteIntClr, Locked, IntrOK
  <2>9. CASE \E fen \in FenVals : WriteLinCtrlHighPanics(fen)
    BY <2>9 DEF WriteLinCtrlHighPanics, intr
  <2> QED BY <1>2, <2>1, <2>2, <2>3, <2>4, <2>5, <2>6, <2>7, <2>8, <2>9 DEF Guest
<1>3. CASE InDeliver
  <2>1. rx_hand \in Seq(Nat) /\ Len(rx_hand) = 1
    BY <1>3 DEF InDeliver, InputOK
  <2>2. Head(rx_hand) \in Nat
    BY <2>1
  <2> QED BY <1>3, <2>2, ReceiveEffect DEF InDeliver, Locked, IntrOK
<1>4. CASE InRaiseTimeout
  BY <1>4, RaiseTimeoutEffect DEF InRaiseTimeout, Locked, IntrOK
<1>5. CASE OutBegin
  BY <1>5, BeginSendEffect DEF OutBegin, Locked, IntrOK
<1>6. CASE OutFinish
  <2>1. st.tx_buf_size > 0
    BY <1>6 DEF OutFinish, TxAccounting, OutputOK
  <2> QED BY <1>6, <2>1, FinishSendEffect DEF OutFinish, Locked, IntrOK
<1>7. CASE \/ EndInstruction \/ Drain \/ Halted \/ Drop
           \/ InCheck \/ InReceive \/ InTimeout \/ InExit
           \/ OutReceive \/ OutExit \/ OutSend \/ OutFlush \/ OutDone
           \/ HostType \/ HostWriter \/ HostWriterFails \/ Ended \/ UNCHANGED vars
  <2>1. st' = st
    BY <1>7
    DEF EndInstruction, Drain, DrainOne, DrainEnds, Halted, Drop, SendExitIn,
        SendExitOut, JoinIn, JoinOut, JoinWriter, InCheck, InReceive, InTimeout, InExit,
        OutReceive, OutExit, OutSend, OutFlush, OutDone, HostType, HostWriter,
        HostWrite, HostWriterEnds, HostWriterFails, Ended, intr, vars
  <2> QED BY <2>1
<1> QED
  BY <1>1, <1>2, <1>3, <1>4, <1>5, <1>6, <1>7
  DEF Next, InThread, OutThread

(***************************************************************************)
(* The invariant behind VicTracksUart: the lines follow the causes and the *)
(* messages on their way account for every difference to the VIC.          *)
(***************************************************************************)
IntrInv == TxInv /\ LinesTrackCauses /\ InterruptPathCoherent

LEMMA IntrInvInit == Init => IntrInv
<1> SUFFICES ASSUME Init PROVE IntrInv
  OBVIOUS
<1>1. InStep(st) /\ st.asserted = {}
  BY ResetEffect DEF Init
<1>2. Len(bus) = 0 /\ status = {}
  BY DEF Init
<1>3. InterruptPathCoherent
  BY <1>1, <1>2 DEF InterruptPathCoherent, Coherent
<1> QED BY <1>1, <1>3, TxInvInit DEF IntrInv, LinesTrackCauses

LEMMA IntrInvStep == IntrInv /\ [Next]_vars => IntrInv'
<1> SUFFICES ASSUME IntrInv, [Next]_vars PROVE IntrInv'
  OBVIOUS
<1>1. TxInv'
  BY TxInvInductive DEF IntrInv
<1>2. InStep(st')
  BY LinesStep DEF IntrInv, LinesTrackCauses
<1>3. InterruptPathCoherent'
  BY <1>1, PathStep DEF IntrInv, TxInv, TypeOK
<1> QED BY <1>1, <1>2, <1>3 DEF IntrInv, LinesTrackCauses

\* No handler leaves an interrupt line behind its causes (update_interrupts
\* is called by every one that changes a cause).
THEOREM LinesCorrect == Spec => []LinesTrackCauses
<1>1. Spec => []IntrInv
  BY IntrInvInit, IntrInvStep, PTL DEF Spec
<1> QED BY <1>1, PTL DEF IntrInv

\* The messages of three threads leave the interrupt path coherent.
THEOREM PathCorrect == Spec => []InterruptPathCoherent
<1>1. Spec => []IntrInv
  BY IntrInvInit, IntrInvStep, PTL DEF Spec
<1> QED BY <1>1, PTL DEF IntrInv

\* With the bus drained (check_device_interrupts) the VIC shows exactly the
\* interrupts the UART's registers call for.
THEOREM VicCorrect == Spec => []VicTracksUart
<1>1. Spec => []IntrInv
  BY IntrInvInit, IntrInvStep, PTL DEF Spec
<1>2. IntrInv => VicTracksUart
  <2> SUFFICES ASSUME IntrInv, bus = <<>>
               PROVE  status = {l \in Lines : Level(st, l)}
    BY DEF VicTracksUart
  <2>1. Len(bus) = 0
    OBVIOUS
  <2>2. \A l \in Lines : l \in status <=> l \in st.asserted
    BY <2>1 DEF IntrInv, InterruptPathCoherent, Coherent
  <2>3. status \subseteq Lines
    BY DEF IntrInv, TxInv, TypeOK, IntrOK
  <2> QED BY <2>2, <2>3 DEF IntrInv, LinesTrackCauses, InStep
<1> QED BY <1>1, <1>2, PTL

-----------------------------------------------------------------------------
(***************************************************************************)
(* The receive timeout.  The input thread decides on its wait (InCheck)    *)
(* and waits in two steps between which the guest may read and clear;      *)
(* the invariant survives because only this thread fills the FIFO and a    *)
(* read withdraws the timeout only with the last character.                *)
(***************************************************************************)
TimeoutInv == TimeoutMeansData /\ NoParkedByte

\* Handlers that touch neither the FIFO nor the timeout.
LEMMA TimeoutFrame ==
  ASSUME TimeoutInv, st'.rx_buf = st.rx_buf, st'.timeout = st.timeout,
         UNCHANGED <<in_pc, in_can>> \/ in_pc' # "select"
  PROVE  TimeoutInv'
  BY DEF TimeoutInv, TimeoutMeansData, NoParkedByte

LEMMA TimeoutStep ==
  ASSUME TxInv, [Next]_vars, TimeoutInv PROVE TimeoutInv'
<1> USE DEF TxInv, TypeOK
<1>1. CASE ApplyHacks
  BY <1>1, TimeoutFrame, HackEffect, UartAssumption DEF ApplyHacks, IntrOK, input
<1>2. CASE Guest
  <2>1. CASE ReadData
    <3>1. /\ st'.rx_buf = Tail(st.rx_buf)
          /\ st'.timeout = (st.timeout /\ Tail(st.rx_buf) # <<>>)
      BY <2>1, PopRxEffect DEF ReadData, Locked, IntrOK
    <3>2. st.rx_buf # <<>> /\ UNCHANGED <<in_pc, in_can>>
      BY <2>1 DEF ReadData, input
    <3> QED BY <3>1, <3>2 DEF TimeoutInv, TimeoutMeansData, NoParkedByte
  <2>2. CASE WriteDataAccepted
    BY <2>2, TimeoutFrame, PushTxEffect DEF WriteDataAccepted, Locked, IntrOK, input
  <2>3. CASE WriteRxSts
    BY <2>3, TimeoutFrame, ClearOverrunEffect DEF WriteRxSts, Locked, IntrOK, input
  <2>4. ASSUME NEW fen \in FenVals, WriteLinCtrlHigh(fen) PROVE TimeoutInv'
    BY <2>4, TimeoutFrame, CommitHighEffect, UartAssumption
       DEF WriteLinCtrlHigh, Locked, IntrOK, input
  <2>5. ASSUME NEW v \in MidVals, WriteLinCtrlMid(v) PROVE TimeoutInv'
    BY <2>5, TimeoutFrame, LatchEffect, UartAssumption
       DEF WriteLinCtrlMid, Locked, IntrOK, input
  <2>6. ASSUME NEW v \in LowVals, WriteLinCtrlLow(v) PROVE TimeoutInv'
    BY <2>6, TimeoutFrame, LatchEffect, UartAssumption
       DEF WriteLinCtrlLow, Locked, IntrOK, input
  <2>7. ASSUME NEW c \in CtrlVals, WriteCtrl(c) PROVE TimeoutInv'
    BY <2>7, TimeoutFrame, SetCtrlEffect, UartAssumption
       DEF WriteCtrl, Locked, IntrOK, input
  <2>8. CASE WriteIntClr
    BY <2>8, TimeoutFrame, ClearIntEffect DEF WriteIntClr, Locked, IntrOK, input
  <2>9. CASE \E fen \in FenVals : WriteLinCtrlHighPanics(fen)
    BY <2>9, TimeoutFrame
       DEF WriteLinCtrlHighPanics, intr, input
  <2> QED BY <1>2, <2>1, <2>2, <2>3, <2>4, <2>5, <2>6, <2>7, <2>8, <2>9 DEF Guest
<1>3. CASE InCheck
  <2>1. in_can' = (st.rx_buf # <<>> /\ ~st.timeout) /\ st' = st
    BY <1>3 DEF InCheck, CanTimeout, intr
  <2> QED BY <2>1 DEF TimeoutInv, TimeoutMeansData, NoParkedByte
<1>4. CASE InDeliver
  <2>1. rx_hand \in Seq(Nat) /\ Len(rx_hand) = 1
    BY <1>4 DEF InDeliver, InputOK
  <2>2. Head(rx_hand) \in Nat
    BY <2>1
  <2>3. /\ \/ st'.rx_buf = Append(st.rx_buf, Head(rx_hand))
           \/ st'.rx_buf = st.rx_buf
        /\ st'.timeout = st.timeout
        /\ in_pc' = "check"
    BY <1>4, <2>2, ReceiveEffect DEF InDeliver, Locked, IntrOK
  <2>4. st.rx_buf \in Seq(Nat)
    BY DEF IntrOK, State
  <2>5. Append(st.rx_buf, Head(rx_hand)) # <<>>
    BY <2>2, <2>4
  <2> QED BY <2>3, <2>5 DEF TimeoutInv, TimeoutMeansData, NoParkedByte
<1>5. CASE InRaiseTimeout
  <2>1. /\ st'.rx_buf = st.rx_buf
        /\ st'.timeout = (st.timeout \/ st.rx_buf # <<>>)
        /\ in_pc' = "check"
    BY <1>5, RaiseTimeoutEffect DEF InRaiseTimeout, Locked, IntrOK
  <2> QED BY <2>1 DEF TimeoutInv, TimeoutMeansData, NoParkedByte
<1>6. CASE OutBegin
  BY <1>6, TimeoutFrame, BeginSendEffect DEF OutBegin, Locked, IntrOK, input
<1>7. CASE OutFinish
  <2>1. st.tx_buf_size > 0
    BY <1>7 DEF OutFinish, TxAccounting, OutputOK
  <2> QED BY <1>7, <2>1, TimeoutFrame, FinishSendEffect
          DEF OutFinish, Locked, IntrOK, input
<1>8. CASE InReceive \/ InTimeout \/ InExit
  BY <1>8, TimeoutFrame DEF InReceive, InTimeout, InExit, intr
<1>9. CASE \/ EndInstruction \/ Drain \/ Halted \/ Drop
           \/ OutReceive \/ OutExit \/ OutSend \/ OutFlush \/ OutDone
           \/ HostType \/ HostWriter \/ HostWriterFails \/ Ended \/ UNCHANGED vars
  <2>1. st' = st /\ UNCHANGED <<in_pc, in_can>>
    BY <1>9
    DEF EndInstruction, Drain, DrainOne, DrainEnds, Halted, Drop, SendExitIn,
        SendExitOut, JoinIn, JoinOut, JoinWriter, OutReceive, OutExit, OutSend, OutFlush,
        OutDone, HostType, HostWriter, HostWrite, HostWriterEnds, HostWriterFails, Ended, intr,
        input, vars
  <2> QED BY <2>1, TimeoutFrame
<1> QED
  BY <1>1, <1>2, <1>3, <1>4, <1>5, <1>6, <1>7, <1>8, <1>9
  DEF Next, InThread, OutThread

LEMMA TimeoutInductive ==
  TxInv /\ TimeoutInv /\ [Next]_vars => (TxInv /\ TimeoutInv)'
  BY TxInvInductive, TimeoutStep

LEMMA TimeoutInit == Init => TxInv /\ TimeoutInv
  BY TxInvInit, ResetEffect
  DEF Init, TimeoutInv, TimeoutMeansData, NoParkedByte

\* The timeout interrupt is never raised for an empty FIFO (the second look
\* at rx_buf, device.rs:252).
THEOREM TimeoutCorrect == Spec => []TimeoutMeansData
<1>1. Spec => [](TxInv /\ TimeoutInv)
  BY TimeoutInit, TimeoutInductive, PTL DEF Spec
<1> QED BY <1>1, PTL DEF TimeoutInv

\* No character is left waiting without an announcement because the input
\* thread decided too early how to wait (device.rs:210-235).
THEOREM NoByteParked == Spec => []NoParkedByte
<1>1. Spec => [](TxInv /\ TimeoutInv)
  BY TimeoutInit, TimeoutInductive, PTL DEF Spec
<1> QED BY <1>1, PTL DEF TimeoutInv

-----------------------------------------------------------------------------
(***************************************************************************)
(* The flags that guests poll.  The output thread holds the wire from the  *)
(* critical section before a character to the one after it; the count says *)
(* when the one after it is the last, so the two must fall together.       *)
(***************************************************************************)
BusyInv ==
  /\ out_pc \in {"send", "finish"} => st.busy
  /\ st.busy => st.tx_buf_size > 0

\* Handlers of the CPU and the input thread.
LEMMA BusyFrame ==
  ASSUME BusyInv, st'.busy = st.busy, out_pc' = out_pc,
         st'.tx_buf_size = st.tx_buf_size
  PROVE  BusyInv'
  BY DEF BusyInv

LEMMA BusyStep ==
  ASSUME TxInv, [Next]_vars, BusyInv PROVE BusyInv'
<1> USE DEF TxInv, TypeOK
<1>0. st \in State /\ st.tx_buf_size \in Nat
  BY DEF IntrOK, State
<1>1. CASE ApplyHacks
  BY <1>1, BusyFrame, HackEffect, UartAssumption DEF ApplyHacks, IntrOK, output
<1>2. CASE Guest
  <2>1. CASE ReadData
    BY <2>1, BusyFrame, PopRxEffect DEF ReadData, Locked, IntrOK, output
  <2>2. CASE WriteDataAccepted
    <3>1. st'.busy = st.busy /\ st'.tx_buf_size = st.tx_buf_size + 1
      BY <2>2, PushTxEffect DEF WriteDataAccepted, Locked, IntrOK
    <3>2. out_pc' = out_pc
      BY <2>2 DEF WriteDataAccepted
    <3> QED BY <1>0, <3>1, <3>2 DEF BusyInv
  <2>3. CASE WriteRxSts
    BY <2>3, BusyFrame, ClearOverrunEffect DEF WriteRxSts, Locked, IntrOK, output
  <2>4. ASSUME NEW fen \in FenVals, WriteLinCtrlHigh(fen) PROVE BusyInv'
    BY <2>4, BusyFrame, CommitHighEffect, UartAssumption
       DEF WriteLinCtrlHigh, Locked, IntrOK, output
  <2>5. ASSUME NEW v \in MidVals, WriteLinCtrlMid(v) PROVE BusyInv'
    BY <2>5, BusyFrame, LatchEffect, UartAssumption
       DEF WriteLinCtrlMid, Locked, IntrOK, output
  <2>6. ASSUME NEW v \in LowVals, WriteLinCtrlLow(v) PROVE BusyInv'
    BY <2>6, BusyFrame, LatchEffect, UartAssumption
       DEF WriteLinCtrlLow, Locked, IntrOK, output
  <2>7. ASSUME NEW c \in CtrlVals, WriteCtrl(c) PROVE BusyInv'
    BY <2>7, BusyFrame, SetCtrlEffect, UartAssumption
       DEF WriteCtrl, Locked, IntrOK, output
  <2>8. CASE WriteIntClr
    BY <2>8, BusyFrame, ClearIntEffect DEF WriteIntClr, Locked, IntrOK, output
  <2>9. CASE \E fen \in FenVals : WriteLinCtrlHighPanics(fen)
    BY <2>9, BusyFrame
       DEF WriteLinCtrlHighPanics, intr, output
  <2> QED BY <1>2, <2>1, <2>2, <2>3, <2>4, <2>5, <2>6, <2>7, <2>8, <2>9 DEF Guest
<1>3. CASE InDeliver
  <2>1. rx_hand \in Seq(Nat) /\ Len(rx_hand) = 1
    BY <1>3 DEF InDeliver, InputOK
  <2>2. Head(rx_hand) \in Nat
    BY <2>1
  <2> QED BY <1>3, <2>2, BusyFrame, ReceiveEffect
          DEF InDeliver, Locked, IntrOK, output
<1>4. CASE InRaiseTimeout
  BY <1>4, BusyFrame, RaiseTimeoutEffect DEF InRaiseTimeout, Locked, IntrOK, output
<1>5. CASE OutBegin
  <2>1. st'.busy = TRUE /\ st'.tx_buf_size = st.tx_buf_size
    BY <1>5, BeginSendEffect DEF OutBegin, Locked, IntrOK
  <2>2. st.tx_buf_size > 0
    BY <1>5 DEF OutBegin, TxAccounting, OutputOK
  <2> QED BY <2>1, <2>2 DEF BusyInv
<1>6. CASE OutFinish
  <2>1. st.tx_buf_size > 0
    BY <1>6 DEF OutFinish, TxAccounting, OutputOK
  <2>2. st' = FinishSend(st) /\ out_pc' = "select"
    BY <1>6 DEF OutFinish, Locked
  <2>3. /\ FinishSend(st).tx_buf_size = st.tx_buf_size - 1
        /\ FinishSend(st).busy = (st.busy /\ st.tx_buf_size # 1)
    BY <1>0, <2>1, FinishSendEffect
  <2>4. st'.tx_buf_size = st.tx_buf_size - 1
    BY <2>2, <2>3
  <2>5. st'.busy => st.tx_buf_size # 1
    BY <2>2, <2>3
  <2> QED BY <1>0, <2>1, <2>2, <2>4, <2>5 DEF BusyInv
<1>7. CASE OutReceive \/ OutExit \/ OutSend \/ OutFlush \/ OutDone
  BY <1>7 DEF OutReceive, OutExit, OutSend, OutFlush, OutDone, intr, BusyInv
<1>8. CASE \/ EndInstruction \/ Drain \/ Halted \/ Drop
           \/ InCheck \/ InReceive \/ InTimeout \/ InExit
           \/ HostType \/ HostWriter \/ HostWriterFails \/ Ended \/ UNCHANGED vars
  <2>1. st' = st /\ out_pc' = out_pc
    BY <1>8
    DEF EndInstruction, Drain, DrainOne, DrainEnds, Halted, Drop, SendExitIn,
        SendExitOut, JoinIn, JoinOut, JoinWriter, InCheck, InReceive, InTimeout, InExit,
        HostType, HostWriter, HostWrite, HostWriterEnds, HostWriterFails,
        Ended, intr, output, vars
  <2> QED BY <2>1, BusyFrame
<1> QED
  BY <1>1, <1>2, <1>3, <1>4, <1>5, <1>6, <1>7, <1>8
  DEF Next, InThread, OutThread

\* CTS is off while a character is on the wire and on when nothing is left to
\* send (update of busy in spawn_output_buffer_thread, Flag in r32).
THEOREM CtsCorrect == Spec => []CtsMeansIdleWire
<1>1. Init => TxInv /\ BusyInv
  BY TxInvInit, ResetEffect DEF Init, BusyInv
<1>2. TxInv /\ BusyInv /\ [Next]_vars => (TxInv /\ BusyInv)'
  BY TxInvInductive, BusyStep
<1>3. TxInv /\ BusyInv => CtsMeansIdleWire
  <2> SUFFICES ASSUME TxInv, BusyInv PROVE CtsMeansIdleWire
    OBVIOUS
  <2>1. st.tx_buf_size \in Nat
    BY DEF TxInv, TypeOK, IntrOK, State
  <2>2. /\ "CTS" \in Flags(st) <=> ~st.busy
        /\ "TXFE" \in Flags(st) <=> st.tx_buf_size = 0
    BY DEF Flags
  <2> QED BY <2>1, <2>2 DEF CtsMeansIdleWire, BusyInv
<1> QED BY <1>1, <1>2, <1>3, PTL DEF Spec

\* What the buffer threads do to what TXFF and RXFE are made of.
LEMMA ThreadsKeepFlags ==
  ASSUME TxInv, InThread \/ OutThread
  PROVE  /\ st'.linctrl = st.linctrl
         /\ st'.tx_buf_size <= st.tx_buf_size
         /\ st'.rx_buf = <<>> => st.rx_buf = <<>>
<1> USE DEF TxInv, TypeOK
<1>0. st \in State /\ st.tx_buf_size \in Nat /\ st.rx_buf \in Seq(Nat)
  BY DEF IntrOK, State
<1>1. CASE InDeliver
  <2>1. rx_hand \in Seq(Nat) /\ Len(rx_hand) = 1
    BY <1>1 DEF InDeliver, InputOK
  <2>2. Head(rx_hand) \in Nat
    BY <2>1
  <2>3. Append(st.rx_buf, Head(rx_hand)) # <<>>
    BY <1>0, <2>2
  <2>4. /\ st'.rx_buf \in {st.rx_buf, Append(st.rx_buf, Head(rx_hand))}
        /\ st'.linctrl = st.linctrl /\ st'.tx_buf_size = st.tx_buf_size
    BY <1>0, <1>1, <2>2, ReceiveEffect DEF InDeliver, Locked
  <2> QED BY <1>0, <2>3, <2>4
<1>2. CASE InRaiseTimeout
  <2>1. /\ st'.rx_buf = st.rx_buf /\ st'.linctrl = st.linctrl
        /\ st'.tx_buf_size = st.tx_buf_size
    BY <1>0, <1>2, RaiseTimeoutEffect DEF InRaiseTimeout, Locked
  <2> QED BY <1>0, <2>1
<1>3. CASE OutBegin
  <2>1. /\ st'.rx_buf = st.rx_buf /\ st'.linctrl = st.linctrl
        /\ st'.tx_buf_size = st.tx_buf_size
    BY <1>0, <1>3, BeginSendEffect DEF OutBegin, Locked
  <2> QED BY <1>0, <2>1
<1>4. CASE OutFinish
  <2>1. st.tx_buf_size > 0
    BY <1>4 DEF OutFinish, TxAccounting, OutputOK
  <2>2. /\ st'.rx_buf = st.rx_buf /\ st'.linctrl = st.linctrl
        /\ st'.tx_buf_size = st.tx_buf_size - 1
    BY <1>0, <1>4, <2>1, FinishSendEffect DEF OutFinish, Locked
  <2> QED BY <1>0, <2>2
<1>5. CASE \/ InCheck \/ InReceive \/ InTimeout \/ InExit
           \/ OutReceive \/ OutExit \/ OutSend \/ OutFlush \/ OutDone
  <2>1. st' = st
    BY <1>5 DEF InCheck, InReceive, InTimeout, InExit, OutReceive, OutExit,
                OutSend, OutFlush, OutDone, intr
  <2> QED BY <1>0, <2>1
<1> QED BY <1>1, <1>2, <1>3, <1>4, <1>5 DEF InThread, OutThread

\* No thread turns TXFF or RXFE on between a guest's look at the flag and the
\* access it then makes.
THEOREM FlagsUsable == Spec => FlagsStayUsable
<1>1. TxInv /\ [Next]_vars
        => [\A f \in {"TXFF", "RXFE"} :
              f \in Flags(st') /\ f \notin Flags(st) => GuestStep]_vars
  <2> SUFFICES ASSUME TxInv, Next, ~GuestStep
               PROVE  \A f \in {"TXFF", "RXFE"} :
                        f \in Flags(st') => f \in Flags(st)
    OBVIOUS
  <2>0. \A s : /\ "TXFF" \in Flags(s) <=> s.tx_buf_size >= FifoSize(s)
               /\ "RXFE" \in Flags(s) <=> s.rx_buf = <<>>
    BY DEF Flags
  <2>1. CASE InThread \/ OutThread
    <3>1. st.tx_buf_size \in Nat /\ FifoSize(st) \in Nat
      BY FifoSizeType DEF TxInv, TypeOK, IntrOK, State
    <3>2. /\ st'.linctrl = st.linctrl
          /\ st'.tx_buf_size <= st.tx_buf_size
          /\ st'.rx_buf = <<>> => st.rx_buf = <<>>
      BY <2>1, ThreadsKeepFlags
    <3>3. FifoSize(st') = FifoSize(st)
      BY <3>2 DEF FifoSize
    <3>4. st'.tx_buf_size \in Nat
      BY TxInvInductive DEF TxInv, TypeOK, IntrOK, State
    <3> QED BY <2>0, <3>1, <3>2, <3>3, <3>4
  <2>2. CASE ApplyHacks
    <3>1. /\ st'.rx_buf = st.rx_buf /\ st'.linctrl = st.linctrl
          /\ st'.tx_buf_size = st.tx_buf_size
      BY <2>2, HackEffect, UartAssumption DEF ApplyHacks, TxInv, TypeOK, IntrOK
    <3> QED BY <2>0, <3>1 DEF FifoSize
  <2>3. CASE Guest
    <3>1. \E fen \in FenVals : WriteLinCtrlHighPanics(fen)
      BY <2>3
      DEF Guest, GuestStep, Access, input, output, ReadData,
          WriteDataAccepted, WriteRxSts, WriteLinCtrlHigh,
          WriteLinCtrlMid, WriteLinCtrlLow, WriteCtrl, WriteIntClr
    <3> QED BY <3>1 DEF WriteLinCtrlHighPanics, intr
  <2>4. CASE \/ EndInstruction \/ Drain \/ Halted \/ Drop
             \/ HostType \/ HostWriter \/ HostWriterFails \/ Ended
    <3>1. st' = st
      BY <2>4
      DEF EndInstruction, Drain, DrainOne, DrainEnds, Halted, Drop, SendExitIn,
          SendExitOut, JoinIn, JoinOut, JoinWriter, HostType, HostWriter, HostWrite,
          HostWriterEnds, HostWriterFails, Ended, intr, vars
    <3> QED BY <3>1
  <2> QED BY <2>1, <2>2, <2>3, <2>4 DEF Next
<1>2. Spec => []TxInv
  BY TxInvInit, TxInvInductive, PTL DEF Spec
<1> QED BY <1>1, <1>2, PTL DEF Spec, FlagsStayUsable
=============================================================================
