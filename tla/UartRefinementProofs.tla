------------------------ MODULE UartRefinementProofs ------------------------
(***************************************************************************)
(* What the UART's threads add up to, for every value of the constants:    *)
(* each direction is the pipe of Pipe, dropping the UART loses nothing     *)
(* that is in one, and each interrupt line is the device line of           *)
(* DeviceLine.                                                             *)
(***************************************************************************)
EXTENDS UartProofs, SequenceTheorems, WellFoundedInduction

\* Sequences of characters.
LEMMA ConcatFacts ==
  ASSUME NEW a \in Seq(Nat), NEW b \in Seq(Nat), NEW c \in Seq(Nat), NEW x \in Nat
  PROVE  /\ a \o b \in Seq(Nat) /\ Len(a \o b) = Len(a) + Len(b)
         /\ (a \o b) \o c = a \o (b \o c)
         /\ a \o Append(b, x) = Append(a \o b, x)
         /\ Append(a, x) = a \o <<x>> /\ Append(a, x) # <<>>
         /\ Append(a, x) \in Seq(Nat) /\ Len(Append(a, x)) = Len(a) + 1
         /\ a \o <<>> = a /\ <<>> \o a = a
<1>1. a \o b \in Seq(Nat) /\ Len(a \o b) = Len(a) + Len(b)
  OBVIOUS
<1>2. (a \o b) \o c = a \o (b \o c)
  OBVIOUS
<1>3. Append(a, x) = a \o <<x>>
  OBVIOUS
<1>4. Append(a, x) \in Seq(Nat) /\ Len(Append(a, x)) = Len(a) + 1
  OBVIOUS
<1>5. Append(a, x) # <<>>
  BY AppendProperties
<1>6. a \o Append(b, x) = Append(a \o b, x)
  <2>1. Append(b, x) = b \o <<x>> /\ Append(a \o b, x) = (a \o b) \o <<x>>
    BY <1>1, AppendIsConcat
  <2>2. <<x>> \in Seq(Nat)
    OBVIOUS
  <2> QED BY <2>1, <2>2, ConcatAssociative
<1>7. a \o <<>> = a /\ <<>> \o a = a
  OBVIOUS
<1> QED BY <1>1, <1>2, <1>3, <1>4, <1>5, <1>6, <1>7

LEMMA HeadFacts ==
  ASSUME NEW a \in Seq(Nat), a # <<>>, NEW b \in Seq(Nat)
  PROVE  /\ Head(a) \in Nat /\ Tail(a) \in Seq(Nat)
         /\ Len(Tail(a)) = Len(a) - 1 /\ Len(a) > 0
         /\ a = <<Head(a)>> \o Tail(a)
         /\ a \o b # <<>>
         /\ Head(a \o b) = Head(a) /\ Tail(a \o b) = Tail(a) \o b
<1>1. /\ Head(a) \in Nat /\ Tail(a) \in Seq(Nat)
      /\ Len(Tail(a)) = Len(a) - 1 /\ Len(a) > 0
  OBVIOUS
<1>2. a = <<Head(a)>> \o Tail(a)
  OBVIOUS
<1>3. a \o b # <<>> /\ Head(a \o b) = Head(a)
  OBVIOUS
<1>4. Tail(a \o b) = Tail(a) \o b
  OBVIOUS
<1> QED BY <1>1, <1>2, <1>3, <1>4

\* A character at the end of the first of two sequences or at the head of the
\* second is the same character.
LEMMA MoveFacts ==
  ASSUME NEW a \in Seq(Nat), NEW b \in Seq(Nat), b # <<>>
  PROVE  /\ (a \o <<Head(b)>>) \o Tail(b) = a \o b
         /\ Append(a, Head(b)) \o Tail(b) = a \o b
<1>1. /\ <<Head(b)>> \in Seq(Nat) /\ Tail(b) \in Seq(Nat)
      /\ b = <<Head(b)>> \o Tail(b)
  BY HeadFacts
<1>2. (a \o <<Head(b)>>) \o Tail(b) = a \o (<<Head(b)>> \o Tail(b))
  BY <1>1, ConcatAssociative
<1>3. Append(a, Head(b)) = a \o <<Head(b)>>
  BY HeadFacts, AppendIsConcat
<1> QED BY <1>1, <1>2, <1>3

LEMMA AppendFacts ==
  ASSUME NEW a \in Seq(Nat), NEW b \in Seq(Nat), NEW x \in Nat
  PROVE  a \o Append(b, x) = Append(a \o b, x)
  BY ConcatFacts

\* Taking out the character after a (RemoveAt).
LEMMA RemoveFacts ==
  ASSUME NEW a \in Seq(Nat), NEW b \in Seq(Nat), NEW x \in Nat
  PROVE  LET q == (a \o <<x>>) \o b IN
           /\ Len(a) + 1 \in 1..Len(q)
           /\ SubSeq(q, 1, (Len(a) + 1) - 1) \o SubSeq(q, (Len(a) + 1) + 1, Len(q))
                = a \o b
<1> DEFINE q == (a \o <<x>>) \o b
<1>1. q \in Seq(Nat) /\ Len(q) = Len(a) + 1 + Len(b)
  OBVIOUS
<1>2. SubSeq(q, 1, (Len(a) + 1) - 1) = a
  OBVIOUS
<1>3. SubSeq(q, (Len(a) + 1) + 1, Len(q)) = b
  <2>1. /\ SubSeq(q, (Len(a) + 1) + 1, Len(q)) \in Seq(Nat)
        /\ Len(SubSeq(q, (Len(a) + 1) + 1, Len(q))) = Len(b)
    BY <1>1
  <2>2. \A i \in 1..Len(b) :
          SubSeq(q, (Len(a) + 1) + 1, Len(q))[i] = q[(Len(a) + 1) + i]
    BY <1>1
  <2>3. ASSUME NEW i \in 1..Len(b) PROVE q[(Len(a) + 1) + i] = b[i]
    <3>1. a \o <<x>> \in Seq(Nat) /\ Len(a \o <<x>>) = Len(a) + 1
      OBVIOUS
    <3>2. ASSUME NEW p \in Seq(Nat) PROVE (p \o b)[Len(p) + i] = b[i]
      OBVIOUS
    <3> DEFINE p == a \o <<x>>
    <3>3. (p \o b)[Len(p) + i] = b[i]
      BY <3>1, <3>2
    <3> QED BY <3>1, <3>3
  <2> HIDE DEF q
  <2>4. Len(SubSeq(q, (Len(a) + 1) + 1, Len(q))) \in Nat
    BY <2>1
  <2> QED BY <2>1, <2>2, <2>3, <2>4, SeqEqual
<1>4. Len(a) + 1 \in 1..Len(q)
  <2>1. Len(a) \in Nat /\ Len(b) \in Nat
    OBVIOUS
  <2> QED BY <1>1, <2>1
<1> HIDE DEF q
<1>5. SubSeq(q, 1, (Len(a) + 1) - 1) \o SubSeq(q, (Len(a) + 1) + 1, Len(q))
        = a \o b
  BY <1>2, <1>3
<1> QED BY <1>4, <1>5 DEF q

\* The values of a well-typed state that the proofs below speak of.
LEMMA Typed ==
  ASSUME TypeOK
  PROVE  /\ st \in State /\ st.rx_buf \in Seq(Nat) /\ st.tx_buf_size \in Nat
         /\ st.overrun \in BOOLEAN
         /\ rx_hand \in Seq(Nat) /\ uart_input \in Seq(Nat)
         /\ tx_hand \in Seq(Nat) /\ device_output \in Seq(Nat)
         /\ uart_output \in Seq(Nat) /\ sent \in Seq(Nat) /\ got \in Seq(Nat)
         /\ accepted \in Nat /\ typed \in Nat /\ acked \in Int
         /\ out_pc \notin {"begin", "send"} => tx_hand = <<>>
         /\ out_pc \in {"begin", "send"} => Len(tx_hand) = 1
         /\ in_pc # "deliver" => rx_hand = <<>>
         /\ in_pc = "deliver" => Len(rx_hand) = 1
  BY DEF TypeOK, IntrOK, State, InputOK, OutputOK, HostOK

-----------------------------------------------------------------------------
(***************************************************************************)
(* Dropping the UART.  That nothing is left behind when the process goes   *)
(* on rests on the order in which UartWorker::drop waits, on the output    *)
(* thread ending only with its channel empty, and on no character being    *)
(* anywhere but in the two channels and in the thread's hand.              *)
(***************************************************************************)
DropOrder ==
  /\ cpu \in {"join_out", "join_writer", "exited"} => in_pc = "done"
  /\ cpu \in {"join_writer", "exited"} => out_pc = "done"
  /\ cpu = "exited" => writer_pc \in {"done", "none"}
  /\ out_exit => cpu \in {"join_in", "join_out", "join_writer", "exited", "panicked"}
  /\ out_pc \in {"flush", "done"} => out_exit
  /\ out_pc = "done" => device_output = <<>>
  /\ writer_pc = "done" => out_pc = "done" /\ uart_output = <<>>

Conservation ==
  Len(sent) + Len(uart_output) + Len(tx_hand) + Len(device_output)
    + (IF writer_pc = "failed" THEN 1 ELSE 0) = accepted

LEMMA DropOrderStep ==
  ASSUME TypeOK, DropOrder, [Next]_vars PROVE DropOrder'
<1> USE DEF DropOrder
<1>1. CASE ApplyHacks \/ Guest \/ EndInstruction
  <2>1. cpu \in {"boot", "exec"} /\ cpu' \in {"exec", "drain", "panicked"}
    BY <1>1
    DEF ApplyHacks, Guest, EndInstruction, ReadData, WriteDataAccepted,
        WriteRxSts, WriteLinCtrlHigh, WriteLinCtrlHighPanics,
        WriteLinCtrlMid, WriteLinCtrlLow, WriteCtrl, WriteIntClr, Access
  <2>2. UNCHANGED <<out_pc, out_exit, writer_pc, uart_output>>
    BY <1>1
    DEF ApplyHacks, Guest, EndInstruction, ReadData, WriteDataAccepted,
        WriteRxSts, WriteLinCtrlHigh, WriteLinCtrlHighPanics,
        WriteLinCtrlMid, WriteLinCtrlLow, WriteCtrl, WriteIntClr, output, host
  <2> QED BY <2>1, <2>2
<1>2. CASE Drain \/ Halted
  BY <1>2 DEF Drain, DrainOne, DrainEnds, Halted, input, output, host
<1>3. CASE Drop
  BY <1>3 DEF Drop, SendExitIn, SendExitOut, JoinIn, JoinOut, JoinWriter,
              input, output, host
<1>4. CASE InThread
  <2>1. in_pc # "done" /\ UNCHANGED <<cpu, output, writer_pc>>
    BY <1>4 DEF InThread, InCheck, InReceive, InTimeout, InExit, InDeliver,
                InRaiseTimeout, host
  <2> QED BY <2>1 DEF output
<1>5. CASE OutThread
  BY <1>5 DEF OutThread, OutReceive, OutExit, OutBegin, OutSend, OutFinish,
              OutFlush, OutDone, input, host
<1>6. CASE HostType
  BY <1>6 DEF HostType, output
<1>7. CASE HostWriter \/ HostWriterFails
  BY <1>7 DEF HostWriter, HostWrite, HostWriterEnds, HostWriterFails, input, output
<1>8. CASE Ended \/ UNCHANGED vars
  BY <1>8 DEF Ended, vars, input, output, host
<1> QED BY <1>1, <1>2, <1>3, <1>4, <1>5, <1>6, <1>7, <1>8 DEF Next

LEMMA ConservationStep ==
  ASSUME TypeOK, Conservation, [Next]_vars PROVE Conservation'
<1> USE DEF Conservation
<1>0. /\ Len(sent) \in Nat /\ Len(uart_output) \in Nat /\ Len(tx_hand) \in Nat
      /\ Len(device_output) \in Nat /\ accepted \in Nat /\ Len(<<>>) = 0
  BY Typed
<1>1. CASE WriteDataAccepted
  <2>1. Len(device_output') = Len(device_output) + 1
    BY <1>1, Typed DEF WriteDataAccepted
  <2> QED BY <1>0, <1>1, <2>1 DEF WriteDataAccepted
<1>2. CASE OutReceive
  <2>1. Len(device_output') = Len(device_output) - 1
    BY <1>2, Typed DEF OutReceive
  <2>2. Len(tx_hand') = 1 /\ Len(tx_hand) = 0
    BY <1>0, <1>2, Typed DEF OutReceive
  <2> QED BY <1>0, <1>2, <2>1, <2>2 DEF OutReceive, host
<1>3. CASE OutSend
  <2>1. Len(uart_output') = Len(uart_output) + Len(tx_hand)
    BY <1>3, Typed DEF OutSend
  <2> QED BY <1>0, <1>3, <2>1 DEF OutSend, host
<1>4. CASE OutFlush
  <2>1. Len(uart_output') = Len(uart_output) + 1
    BY <1>4, Typed DEF OutFlush
  <2>2. Len(device_output') = Len(device_output) - 1
    BY <1>4, Typed DEF OutFlush
  <2> QED BY <1>0, <1>4, <2>1, <2>2 DEF OutFlush, host
<1>5. CASE HostWrite
  <2>1. Len(uart_output') = Len(uart_output) - 1
    BY <1>5, Typed DEF HostWrite
  <2>2. Len(sent') = Len(sent) + 1
    BY <1>5, Typed, HeadFacts DEF HostWrite
  <2> QED BY <1>0, <1>5, <2>1, <2>2 DEF HostWrite
<1>6. CASE HostWriterFails
  <2>1. Len(uart_output') = Len(uart_output) - 1
    BY <1>6, Typed DEF HostWriterFails
  <2> QED BY <1>0, <1>6, <2>1 DEF HostWriterFails
<1>7. CASE /\ UNCHANGED <<sent, uart_output, tx_hand, device_output, accepted>>
           /\ writer_pc' = "failed" <=> writer_pc = "failed"
  BY <1>7
<1>8. CASE \/ ApplyHacks \/ EndInstruction \/ ReadData
           \/ WriteRxSts \/ WriteIntClr
           \/ \E fen \in FenVals : WriteLinCtrlHigh(fen) \/ WriteLinCtrlHighPanics(fen)
           \/ \E v \in MidVals : WriteLinCtrlMid(v)
           \/ \E v \in LowVals : WriteLinCtrlLow(v)
           \/ \E c \in CtrlVals : WriteCtrl(c)
  BY <1>7, <1>8
  DEF ApplyHacks, EndInstruction, ReadData, WriteRxSts,
      WriteLinCtrlHigh, WriteLinCtrlHighPanics, WriteLinCtrlMid,
      WriteLinCtrlLow, WriteCtrl, WriteIntClr, output, host
<1>9. CASE \/ Drain \/ Halted \/ Drop \/ InThread
           \/ OutExit \/ OutBegin \/ OutFinish \/ OutDone
           \/ HostType \/ HostWriterEnds \/ Ended \/ UNCHANGED vars
  BY <1>7, <1>9
  DEF Drain, DrainOne, DrainEnds, Halted, Drop, SendExitIn, SendExitOut,
      JoinIn, JoinOut, JoinWriter, InThread, InCheck, InReceive, InTimeout,
      InExit, InDeliver, InRaiseTimeout, OutExit, OutBegin, OutFinish, OutDone,
      HostType, HostWriterEnds, Ended, output, host, vars
<1> QED
  BY <1>1, <1>2, <1>3, <1>4, <1>5, <1>6, <1>8, <1>9
  DEF Next, Guest, OutThread, HostWriter

\* UartWorker::drop (device.rs:520-540) hands every accepted character on,
\* and takes no thread for ended that is not.
THEOREM ShutdownCorrect == Spec => []ShutdownFlushed
<1> DEFINE I == TxInv /\ DropOrder /\ Conservation
<1>1. Init => I
  <2> SUFFICES ASSUME Init PROVE I
    OBVIOUS
  <2>1. Len(<<>>) = 0
    OBVIOUS
  <2>2. DropOrder
    BY UartAssumption DEF Init, Installed, DropOrder
  <2>3. Conservation
    BY <2>1, UartAssumption DEF Init, Installed, Conservation
  <2> QED BY <2>2, <2>3, TxInvInit
<1>2. I /\ [Next]_vars => I'
  BY TxInvInductive, DropOrderStep, ConservationStep DEF TxInv
<1>3. I => ShutdownFlushed
  <2> SUFFICES ASSUME I, cpu = "exited"
               PROVE  /\ in_pc = "done" /\ out_pc = "done"
                      /\ writer_pc \in {"done", "none"}
                      /\ Len(sent) + Len(uart_output) = accepted
                      /\ writer_pc = "done" => uart_output = <<>>
    BY DEF ShutdownFlushed
  <2>1. /\ in_pc = "done" /\ out_pc = "done" /\ writer_pc \in {"done", "none"}
        /\ device_output = <<>>
        /\ writer_pc = "done" => uart_output = <<>>
    BY DEF DropOrder
  <2>2. Len(tx_hand) = 0 /\ Len(device_output) = 0
    BY <2>1, Typed DEF TxInv
  <2>3. Len(sent) \in Nat /\ Len(uart_output) \in Nat
    BY Typed DEF TxInv
  <2> QED BY <2>1, <2>2, <2>3 DEF Conservation
<1> QED BY <1>1, <1>2, <1>3, PTL DEF Spec

-----------------------------------------------------------------------------
(***************************************************************************)
(* Transmission is a pipe.  A character is in exactly one of the two       *)
(* channels and the output thread's hand, and the steps between them leave *)
(* their concatenation alone.                                              *)
(***************************************************************************)

\* Handlers, and the parts of the loops, that move no character.
LEMMA TxFrame ==
  ASSUME UNCHANGED <<tx_hand, device_output, uart_output, accepted, sent>>,
         (writer_pc' = "failed") = (writer_pc = "failed")
  PROVE  UNCHANGED Tx!vars
  BY DEF Tx!vars

LEMMA TxStep ==
  ASSUME TypeOK, [Next]_vars PROVE [Tx!Next]_(Tx!vars)
<1>1. CASE WriteDataAccepted
  <2>1. /\ uart_output' = uart_output /\ tx_hand' = tx_hand /\ sent' = sent
        /\ writer_pc' = writer_pc /\ accepted' = accepted + 1
        /\ device_output' = Append(device_output, accepted')
    BY <1>1 DEF WriteDataAccepted
  <2>2. accepted' \in Nat
    BY <2>1, Typed
  <2>3. uart_output \o tx_hand \in Seq(Nat) /\ device_output \in Seq(Nat)
    BY Typed, ConcatFacts
  <2>4. (uart_output \o tx_hand) \o Append(device_output, accepted')
          = Append((uart_output \o tx_hand) \o device_output, accepted')
    BY <2>2, <2>3, AppendFacts
  <2>5. Tx!Put
    BY <2>1, <2>4 DEF Tx!Put
  <2> QED BY <2>5 DEF Tx!Next
<1>2. CASE OutReceive
  <2>1. /\ uart_output' = uart_output /\ tx_hand' = <<Head(device_output)>>
        /\ device_output' = Tail(device_output) /\ device_output # <<>>
        /\ UNCHANGED <<sent, writer_pc, accepted>>
    BY <1>2 DEF OutReceive, host
  <2>2. tx_hand = <<>>
    BY <1>2, Typed DEF OutReceive
  <2>3. uart_output \in Seq(Nat) /\ device_output \in Seq(Nat)
    BY Typed
  <2>4. (uart_output \o <<Head(device_output)>>) \o Tail(device_output)
          = uart_output \o device_output
    BY <2>1, <2>3, MoveFacts
  <2>5. uart_output \o <<>> = uart_output
    BY <2>3, ConcatEmptySeq
  <2>6. (uart_output \o tx_hand \o device_output)'
          = uart_output \o tx_hand \o device_output
    BY <2>1, <2>2, <2>4, <2>5
  <2> QED BY <2>1, <2>6 DEF Tx!vars
<1>3. CASE OutSend
  <2>1. /\ uart_output' = uart_output \o tx_hand /\ tx_hand' = <<>>
        /\ UNCHANGED <<device_output, sent, writer_pc, accepted>>
    BY <1>3 DEF OutSend, host
  <2>2. (uart_output \o tx_hand) \o <<>> = uart_output \o tx_hand
    BY Typed, ConcatFacts
  <2> QED BY <2>1, <2>2 DEF Tx!vars
<1>4. CASE OutFlush
  <2>1. /\ uart_output' = Append(uart_output, Head(device_output))
        /\ device_output' = Tail(device_output) /\ device_output # <<>>
        /\ UNCHANGED <<tx_hand, sent, writer_pc, accepted>>
    BY <1>4 DEF OutFlush, host
  <2>2. tx_hand = <<>>
    BY <1>4, Typed DEF OutFlush
  <2>3. uart_output \in Seq(Nat) /\ device_output \in Seq(Nat)
    BY Typed
  <2>4. Append(uart_output, Head(device_output)) \o Tail(device_output)
          = uart_output \o device_output
    BY <2>1, <2>3, MoveFacts
  <2>5. Append(uart_output, Head(device_output)) \in Seq(Nat)
    BY <2>1, <2>3
  <2>6. /\ uart_output \o <<>> = uart_output
        /\ Append(uart_output, Head(device_output)) \o <<>>
             = Append(uart_output, Head(device_output))
    BY <2>3, <2>5, ConcatEmptySeq
  <2>7. (uart_output \o tx_hand \o device_output)'
          = uart_output \o tx_hand \o device_output
    BY <2>1, <2>2, <2>4, <2>6
  <2> QED BY <2>1, <2>7 DEF Tx!vars
<1>5. ASSUME uart_output # <<>>
      PROVE  LET q == uart_output \o tx_hand \o device_output IN
               /\ q # <<>> /\ Head(q) = Head(uart_output) /\ q \in Seq(Nat)
               /\ Tail(q) = Tail(uart_output) \o tx_hand \o device_output
  <2>1. /\ uart_output \o tx_hand # <<>>
        /\ Head(uart_output \o tx_hand) = Head(uart_output)
        /\ Tail(uart_output \o tx_hand) = Tail(uart_output) \o tx_hand
    BY <1>5, Typed, HeadFacts
  <2>2. uart_output \o tx_hand \in Seq(Nat)
    BY Typed, ConcatFacts
  <2> DEFINE p == uart_output \o tx_hand
  <2>3. /\ p \o device_output # <<>> /\ Head(p \o device_output) = Head(p)
        /\ Tail(p \o device_output) = Tail(p) \o device_output
        /\ p \o device_output \in Seq(Nat)
    BY <2>1, <2>2, Typed, HeadFacts, ConcatFacts
  <2> QED BY <2>1, <2>3
<1>6. CASE HostWrite
  <2>1. /\ uart_output # <<>> /\ uart_output' = Tail(uart_output)
        /\ sent' = Append(sent, Head(uart_output))
        /\ UNCHANGED <<tx_hand, device_output, writer_pc, accepted>>
    BY <1>6 DEF HostWrite
  <2>2. Tx!Take
    BY <1>5, <2>1 DEF Tx!Take
  <2> QED BY <2>2 DEF Tx!Next
<1>7. CASE HostWriterFails
  <2> DEFINE q == uart_output \o tx_hand \o device_output
  <2>1. /\ uart_output # <<>> /\ uart_output' = Tail(uart_output)
        /\ writer_pc = "run" /\ writer_pc' = "failed"
        /\ UNCHANGED <<tx_hand, device_output, sent, accepted>>
    BY <1>7 DEF HostWriterFails
  <2>2. q \in Seq(Nat) /\ q # <<>> /\ q' = Tail(q)
    BY <1>5, <2>1
  <2> HIDE DEF q
  <2>3. 1 \in 1..Len(q) /\ Len(q) \in Nat
    BY <2>2
  <2>4. SubSeq(q, 1, 1 - 1) = <<>> /\ SubSeq(q, 1 + 1, Len(q)) = Tail(q)
    BY <2>2, <2>3
  <2>5. Tail(q) \in Seq(Nat)
    BY <2>2
  <2>6. Tx!RemoveAt(q, 1) = Tail(q)
    BY <2>4, <2>5, ConcatEmptySeq DEF Tx!RemoveAt
  <2>7. \E i \in 1..Len(q) : q' = Tx!RemoveAt(q, i)
    BY <2>2, <2>3, <2>6
  <2>8. /\ (IF writer_pc' = "failed" THEN 1 ELSE 0)
             = (IF writer_pc = "failed" THEN 1 ELSE 0) + 1
        /\ (writer_pc' = "failed") = TRUE
    BY <2>1
  <2>9. Tx!Lose
    BY <2>1, <2>7, <2>8 DEF Tx!Lose, q
  <2> QED BY <2>9 DEF Tx!Next
<1>8. CASE HostWriterEnds
  BY <1>8, TxFrame DEF HostWriterEnds, output
<1>9. CASE \/ ApplyHacks \/ EndInstruction \/ ReadData
           \/ WriteRxSts \/ WriteIntClr
           \/ \E fen \in FenVals : WriteLinCtrlHigh(fen) \/ WriteLinCtrlHighPanics(fen)
           \/ \E v \in MidVals : WriteLinCtrlMid(v)
           \/ \E v \in LowVals : WriteLinCtrlLow(v)
           \/ \E c \in CtrlVals : WriteCtrl(c)
  <2>1. UNCHANGED <<tx_hand, device_output, uart_output, accepted, sent, writer_pc>>
    BY <1>9
    DEF ApplyHacks, EndInstruction, ReadData, WriteRxSts,
        WriteLinCtrlHigh, WriteLinCtrlHighPanics, WriteLinCtrlMid,
        WriteLinCtrlLow, WriteCtrl, WriteIntClr, output, host
  <2> QED BY <2>1, TxFrame
<1>10. CASE \/ Drain \/ Halted \/ Drop \/ InThread
            \/ OutExit \/ OutBegin \/ OutFinish \/ OutDone
            \/ HostType \/ Ended \/ UNCHANGED vars
  <2>1. UNCHANGED <<tx_hand, device_output, uart_output, accepted, sent, writer_pc>>
    BY <1>10
    DEF Drain, DrainOne, DrainEnds, Halted, Drop, SendExitIn, SendExitOut,
        JoinIn, JoinOut, JoinWriter, InThread, InCheck, InReceive, InTimeout,
        InExit, InDeliver, InRaiseTimeout, OutExit, OutBegin, OutFinish,
        OutDone, HostType, Ended, output, host, vars
  <2> QED BY <2>1, TxFrame
<1> QED
  BY <1>1, <1>2, <1>3, <1>4, <1>6, <1>7, <1>8, <1>9, <1>10
  DEF Next, Guest, OutThread, HostWriter

\* Every character w32 accepts goes to the host, once and in order, whatever
\* the threads do and whenever the UART is dropped.
THEOREM TxImplements == Spec => TxIsPipe
<1>1. Init => Tx!Init
  <2> SUFFICES ASSUME Init PROVE Tx!Init
    OBVIOUS
  <2>1. writer_pc # "failed" /\ (writer_pc = "failed") = FALSE
    BY UartAssumption DEF Init, Installed
  <2>2. <<>> \o <<>> \o <<>> = <<>>
    OBVIOUS
  <2> QED BY <2>1, <2>2 DEF Init, Tx!Init
<1>2. Spec => []TypeOK
  BY TypeCorrect
<1> QED BY <1>1, <1>2, TxStep, PTL DEF Spec, TxIsPipe, Tx!Spec

-----------------------------------------------------------------------------
(***************************************************************************)
(* Reception is a pipe.  Only the input thread puts characters into the    *)
(* FIFO and only the guest takes them out; what does not fit is the        *)
(* character in the thread's hand, which comes right after the FIFO's.     *)
(***************************************************************************)
LEMMA LenOfFour ==
  ASSUME NEW a \in Seq(Nat), NEW b \in Seq(Nat), NEW c \in Seq(Nat), NEW d \in Seq(Nat)
  PROVE  Len(a \o b \o c \o d) = Len(a) + Len(b) + Len(c) + Len(d)
<1>1. a \o b \in Seq(Nat) /\ Len(a \o b) = Len(a) + Len(b)
  OBVIOUS
<1> DEFINE p == a \o b
<1>2. p \o c \in Seq(Nat) /\ Len(p \o c) = Len(p) + Len(c)
  BY <1>1
<1> DEFINE q == p \o c
<1>3. Len(q \o d) = Len(q) + Len(d)
  BY <1>2
<1> QED BY <1>1, <1>2, <1>3

\* Where the characters are that are not lost.
Held == Len(got) + Len(st.rx_buf) + Len(rx_hand) + Len(uart_input)

LEMMA LostIs ==
  ASSUME TypeOK PROVE Lost = typed - Held /\ Held \in Nat
<1>1. /\ got \in Seq(Nat) /\ st.rx_buf \in Seq(Nat) /\ rx_hand \in Seq(Nat)
      /\ uart_input \in Seq(Nat)
  BY Typed
<1>2. Len(RxStream) = Held
  BY <1>1, LenOfFour DEF RxStream, Held
<1>3. Held \in Nat
  BY <1>1 DEF Held
<1> QED BY <1>2, <1>3 DEF Lost

LEMMA LostIsNext ==
  ASSUME TypeOK' PROVE Lost' = typed' - Held'
<1>1. /\ got' \in Seq(Nat) /\ st'.rx_buf \in Seq(Nat) /\ rx_hand' \in Seq(Nat)
      /\ uart_input' \in Seq(Nat)
  BY DEF TypeOK, IntrOK, State, InputOK, HostOK
<1>2. Len(RxStream)' = Held'
  BY <1>1, LenOfFour DEF RxStream, Held
<1> QED BY <1>2 DEF Lost

LEMMA RxFrame ==
  ASSUME UNCHANGED <<got, typed, acked, rx_hand, uart_input>>,
         st'.rx_buf = st.rx_buf, st'.overrun = st.overrun
  PROVE  UNCHANGED Rx!vars
  BY DEF Rx!vars, Lost, RxStream

\* The same for a handler of another register.
LEMMA RxGuestFrame ==
  ASSUME TypeOK,
         \/ WriteDataAccepted \/ WriteIntClr
         \/ \E fen \in FenVals : WriteLinCtrlHigh(fen)
         \/ \E v \in MidVals : WriteLinCtrlMid(v)
         \/ \E v \in LowVals : WriteLinCtrlLow(v)
         \/ \E c \in CtrlVals : WriteCtrl(c)
  PROVE  UNCHANGED Rx!vars
<1>0. st \in State
  BY Typed
<1>1. UNCHANGED <<got, typed, acked, rx_hand, uart_input>>
  BY DEF WriteDataAccepted, WriteIntClr, WriteLinCtrlHigh, WriteLinCtrlMid,
         WriteLinCtrlLow, WriteCtrl, input, host
<1>2. CASE WriteDataAccepted
  BY <1>0, <1>1, <1>2, PushTxEffect, RxFrame DEF WriteDataAccepted, Locked
<1>3. CASE WriteIntClr
  BY <1>0, <1>1, <1>3, ClearIntEffect, RxFrame DEF WriteIntClr, Locked
<1>4. ASSUME NEW fen \in FenVals, WriteLinCtrlHigh(fen) PROVE UNCHANGED Rx!vars
  BY <1>0, <1>1, <1>4, CommitHighEffect, RxFrame, UartAssumption
     DEF WriteLinCtrlHigh, Locked
<1>5. ASSUME NEW v \in MidVals, WriteLinCtrlMid(v) PROVE UNCHANGED Rx!vars
  BY <1>0, <1>1, <1>5, LatchEffect, RxFrame, UartAssumption
     DEF WriteLinCtrlMid, Locked
<1>6. ASSUME NEW v \in LowVals, WriteLinCtrlLow(v) PROVE UNCHANGED Rx!vars
  BY <1>0, <1>1, <1>6, LatchEffect, RxFrame, UartAssumption
     DEF WriteLinCtrlLow, Locked
<1>7. ASSUME NEW c \in CtrlVals, WriteCtrl(c) PROVE UNCHANGED Rx!vars
  BY <1>0, <1>1, <1>7, SetCtrlEffect, RxFrame, UartAssumption DEF WriteCtrl, Locked
<1> QED BY <1>2, <1>3, <1>4, <1>5, <1>6, <1>7

\* Delivering a character to a FIFO with room moves it; one without room
\* loses it and says so.
LEMMA RxDeliver ==
  ASSUME TypeOK, TypeOK', InDeliver PROVE [Rx!Next]_(Rx!vars)
<1> DEFINE b == Head(rx_hand)
           buf == st.rx_buf
<1>0. /\ st \in State /\ buf \in Seq(Nat) /\ uart_input \in Seq(Nat)
      /\ got \in Seq(Nat) /\ rx_hand \in Seq(Nat) /\ rx_hand # <<>>
      /\ st.overrun \in BOOLEAN
  <2>1. Len(rx_hand) = 1
    BY Typed DEF InDeliver
  <2>2. Len(<<>>) = 0
    OBVIOUS
  <2>3. rx_hand # <<>>
    BY <2>1, <2>2
  <2> QED BY <2>3, Typed
<1>1. b \in Nat /\ rx_hand = <<b>>
  <2>1. Len(rx_hand) = 1
    BY Typed DEF InDeliver
  <2> QED BY <1>0, <2>1
<1>2. /\ rx_hand' = <<>> /\ st' = Receive(st, b)
      /\ UNCHANGED <<got, typed, acked, uart_input>>
  BY DEF InDeliver, Locked, host
<1> HIDE DEF b
<1>3. CASE HasRxRoom(st)
  <2>1. st'.rx_buf = Append(buf, b)
    BY <1>0, <1>1, <1>2, <1>3, ReceiveEffect
  <2>2. st'.overrun = st.overrun
    BY <1>0, <1>1, <1>2, <1>3, ReceiveEffect
  <2>3. /\ Append(buf, b) = buf \o <<b>>
        /\ Append(buf, b) \in Seq(Nat)
    BY <1>0, <1>1, AppendIsConcat, AppendProperties
  <2>4. Append(buf, b) \o <<>> = Append(buf, b)
    BY <2>3, ConcatEmptySeq
  <2>5. (st.rx_buf \o rx_hand)' = st.rx_buf \o rx_hand
    BY <1>1, <1>2, <2>1, <2>3, <2>4
  <2>6. Lost' = Lost
    <3>1. Len(buf) \in Nat /\ Len(st'.rx_buf) = Len(buf) + 1
      BY <1>0, <1>1, <2>1
    <3>2. Len(rx_hand) = 1 /\ Len(rx_hand') = 0
      BY <1>1, <1>2
    <3>3. Len(got) \in Nat /\ Len(uart_input) \in Nat
      BY <1>0
    <3>4. Held' = Held
      BY <1>2, <3>1, <3>2, <3>3 DEF Held
    <3>5. Lost = typed - Held
      BY LostIs
    <3>6. Lost' = typed' - Held'
      BY LostIsNext
    <3> QED BY <1>2, <3>4, <3>5, <3>6
  <2> QED BY <1>2, <2>2, <2>5, <2>6 DEF Rx!vars
<1>4. CASE ~HasRxRoom(st)
  <2> DEFINE q == (buf \o <<b>>) \o uart_input
  <2>1. st'.rx_buf = buf
    BY <1>0, <1>1, <1>2, <1>4, ReceiveEffect
  <2>2. st'.overrun = TRUE
    BY <1>0, <1>1, <1>2, <1>4, ReceiveEffect
  <2>3. (st.rx_buf \o rx_hand \o uart_input)' = buf \o uart_input
    <3>1. buf \o <<>> = buf
      BY <1>0, ConcatEmptySeq
    <3> QED BY <1>2, <2>1, <3>1
  <2>4. /\ Len(buf) + 1 \in 1..Len(q)
        /\ SubSeq(q, 1, (Len(buf) + 1) - 1) \o SubSeq(q, (Len(buf) + 1) + 1, Len(q))
             = buf \o uart_input
    BY <1>0, <1>1, RemoveFacts
  <2> HIDE DEF q
  <2>5. Rx!RemoveAt(q, Len(buf) + 1) = buf \o uart_input
    BY <2>4 DEF Rx!RemoveAt
  <2>6. st.rx_buf \o rx_hand \o uart_input = q
    BY <1>1 DEF q
  <2>7. \E i \in 1..Len(q) : (st.rx_buf \o rx_hand \o uart_input)' = Rx!RemoveAt(q, i)
    BY <2>3, <2>4, <2>5
  <2>8. Lost' = Lost + 1
    <3>1. Len(rx_hand) = 1 /\ Len(rx_hand') = 0
      BY <1>1, <1>2
    <3>2. /\ Len(got) \in Nat /\ Len(uart_input) \in Nat /\ Len(buf) \in Nat
          /\ Len(st'.rx_buf) = Len(buf)
      BY <1>0, <2>1
    <3>3. Held' = Held - 1
      BY <1>2, <3>1, <3>2 DEF Held
    <3>4. Lost = typed - Held /\ Held \in Nat /\ typed \in Nat
      BY LostIs, Typed
    <3>5. Lost' = typed' - Held'
      BY LostIsNext
    <3> QED BY <1>2, <3>3, <3>4, <3>5
  <2>9. Rx!Lose
    BY <1>2, <2>2, <2>6, <2>7, <2>8 DEF Rx!Lose
  <2> QED BY <2>9 DEF Rx!Next
<1> QED BY <1>3, <1>4

LEMMA RxStep ==
  ASSUME TypeOK, TypeOK', TxAccounting, [Next]_vars PROVE [Rx!Next]_(Rx!vars)
<1>0. /\ st \in State /\ st.rx_buf \in Seq(Nat) /\ uart_input \in Seq(Nat)
      /\ got \in Seq(Nat) /\ rx_hand \in Seq(Nat)
  BY Typed
<1>a. /\ Len(got) \in Nat /\ Len(st.rx_buf) \in Nat /\ Len(uart_input) \in Nat
      /\ Len(rx_hand) \in Nat /\ typed \in Nat
  BY Typed
<1>1. Lost = typed - Held /\ Lost' = typed' - Held' /\ Held \in Nat
  <2>1. Lost = typed - Held /\ Held \in Nat
    BY LostIs
  <2>2. Lost' = typed' - Held'
    BY LostIsNext
  <2> QED BY <2>1, <2>2
<1>2. CASE ReadData
  <2>1. /\ st.rx_buf # <<>> /\ got' = Append(got, Head(st.rx_buf))
        /\ UNCHANGED <<rx_hand, uart_input, typed, acked>>
        /\ st' = PopRx(st)
    BY <1>2 DEF ReadData, Locked, input
  <2>2. st'.rx_buf = Tail(st.rx_buf) /\ st'.overrun = st.overrun
    BY <1>0, <2>1, PopRxEffect
  <2>3. /\ st.rx_buf \o rx_hand # <<>>
        /\ Head(st.rx_buf \o rx_hand) = Head(st.rx_buf)
        /\ Tail(st.rx_buf \o rx_hand) = Tail(st.rx_buf) \o rx_hand
        /\ Head(st.rx_buf) \in Nat /\ Len(Tail(st.rx_buf)) = Len(st.rx_buf) - 1
    BY <1>0, <2>1, HeadFacts
  <2> DEFINE p == st.rx_buf \o rx_hand
  <2>4. p \in Seq(Nat)
    BY <1>0, ConcatFacts
  <2>5. /\ p \o uart_input # <<>> /\ Head(p \o uart_input) = Head(p)
        /\ Tail(p \o uart_input) = Tail(p) \o uart_input
    BY <1>0, <2>3, <2>4, HeadFacts
  <2>6. Held' = Held
    <3>1. Len(got') = Len(got) + 1
      BY <1>0, <2>1, <2>3
    <3>2. Len(st'.rx_buf) = Len(st.rx_buf) - 1
      BY <2>2, <2>3
    <3> DEFINE g == Len(got)  r == Len(st.rx_buf)  h == Len(rx_hand)
               i == Len(uart_input)  g1 == Len(got')  r1 == Len(st'.rx_buf)
    <3>3. Held = g + r + h + i /\ Held' = g1 + r1 + h + i
      BY <2>1 DEF Held
    <3>4. /\ g \in Nat /\ r \in Nat /\ h \in Nat /\ i \in Nat
          /\ g1 = g + 1 /\ r1 = r - 1
      BY <1>a, <3>1, <3>2
    <3> HIDE DEF g, r, h, i, g1, r1
    <3> QED BY <3>3, <3>4
  <2>7. Rx!Take
    BY <1>1, <2>1, <2>2, <2>3, <2>5, <2>6 DEF Rx!Take
  <2> QED BY <2>7 DEF Rx!Next
<1>3. CASE WriteRxSts
  <2>1. /\ UNCHANGED <<got, rx_hand, uart_input, typed>> /\ acked' = Lost
        /\ st' = ClearOverrun(st)
    BY <1>3 DEF WriteRxSts, Locked, input
  <2>2. st'.rx_buf = st.rx_buf /\ ~st'.overrun /\ st' \in State
    BY <1>0, <2>1, ClearOverrunEffect
  <2>3. st'.overrun = FALSE
    BY <2>2 DEF State
  <2>4. Lost' = Lost
    BY <2>1, <2>2 DEF Lost, RxStream
  <2>5. Rx!Acknowledge
    BY <2>1, <2>2, <2>3, <2>4 DEF Rx!Acknowledge
  <2> QED BY <2>5 DEF Rx!Next
<1>4. CASE HostType
  <2>1. /\ typed' = typed + 1 /\ uart_input' = Append(uart_input, typed')
        /\ UNCHANGED <<st, rx_hand, got, acked>>
    BY <1>4 DEF HostType, intr
  <2>2. typed' \in Nat /\ st.rx_buf \o rx_hand \in Seq(Nat)
    BY <1>0, <1>a, <2>1
  <2>3. (st.rx_buf \o rx_hand) \o Append(uart_input, typed')
          = Append((st.rx_buf \o rx_hand) \o uart_input, typed')
    BY <1>0, <2>2, AppendFacts
  <2>4. Held' = Held + 1
    <3>1. Len(uart_input') = Len(uart_input) + 1
      BY <1>0, <2>1, <2>2
    <3> DEFINE g == Len(got)  r == Len(st.rx_buf)  h == Len(rx_hand)
               i == Len(uart_input)  i1 == Len(uart_input')
    <3>2. Held = g + r + h + i /\ Held' = g + r + h + i1
      BY <2>1 DEF Held
    <3>3. /\ g \in Nat /\ r \in Nat /\ h \in Nat /\ i \in Nat
          /\ i1 = i + 1
      BY <1>a, <3>1
    <3> HIDE DEF g, r, h, i, i1
    <3> QED BY <3>2, <3>3
  <2>5. Lost' = Lost
    BY <1>a, <1>1, <2>1, <2>4
  <2>6. Rx!Put
    BY <2>1, <2>3, <2>5 DEF Rx!Put
  <2> QED BY <2>6 DEF Rx!Next
<1>5. CASE InReceive
  <2>1. /\ uart_input # <<>> /\ rx_hand' = <<Head(uart_input)>>
        /\ uart_input' = Tail(uart_input)
        /\ UNCHANGED <<st, got, typed, acked>>
    BY <1>5 DEF InReceive, intr, host
  <2>2. rx_hand = <<>>
    BY <1>5, Typed DEF InReceive
  <2>3. (st.rx_buf \o <<Head(uart_input)>>) \o Tail(uart_input)
          = st.rx_buf \o uart_input
    BY <1>0, <2>1, MoveFacts
  <2>4. st.rx_buf \o <<>> = st.rx_buf
    BY <1>0, ConcatEmptySeq
  <2>5. (st.rx_buf \o rx_hand \o uart_input)' = st.rx_buf \o rx_hand \o uart_input
    BY <2>1, <2>2, <2>3, <2>4
  <2>6. Held' = Held
    <3>1. Len(uart_input') = Len(uart_input) - 1 /\ Len(rx_hand') = 1 /\ Len(rx_hand) = 0
      BY <1>0, <2>1, <2>2
    <3>2. got' = got /\ st' = st
      BY <2>1
    <3> QED BY <1>a, <3>1, <3>2 DEF Held
  <2>7. Lost' = Lost
    BY <1>1, <2>1, <2>6
  <2> QED BY <2>1, <2>5, <2>7 DEF Rx!vars
<1>6. CASE InDeliver
  BY <1>6, RxDeliver
<1>7. CASE \/ WriteDataAccepted \/ WriteIntClr
           \/ \E fen \in FenVals : WriteLinCtrlHigh(fen)
           \/ \E v \in MidVals : WriteLinCtrlMid(v)
           \/ \E v \in LowVals : WriteLinCtrlLow(v)
           \/ \E c \in CtrlVals : WriteCtrl(c)
  BY <1>7, RxGuestFrame
<1>8. CASE ApplyHacks
  BY <1>0, <1>8, HackEffect, RxFrame, UartAssumption DEF ApplyHacks, State, input, host
<1>9. CASE InRaiseTimeout
  BY <1>0, <1>9, RaiseTimeoutEffect, RxFrame DEF InRaiseTimeout, Locked, host
<1>10. CASE OutBegin
  BY <1>0, <1>10, BeginSendEffect, RxFrame DEF OutBegin, Locked, input, host
<1>11. CASE OutFinish
  <2>1. st.tx_buf_size > 0
    BY <1>11 DEF OutFinish, TxAccounting, TypeOK, OutputOK
  <2> QED BY <1>0, <1>11, <2>1, FinishSendEffect, RxFrame
          DEF OutFinish, Locked, input, host
<1>12. CASE \/ EndInstruction
            \/ \E fen \in FenVals : WriteLinCtrlHighPanics(fen)
            \/ Drain \/ Halted \/ Drop \/ InCheck \/ InTimeout \/ InExit
            \/ OutReceive \/ OutExit \/ OutSend \/ OutFlush \/ OutDone
            \/ HostWriter \/ HostWriterFails \/ Ended \/ UNCHANGED vars
  <2>1. UNCHANGED <<st, got, typed, acked, rx_hand, uart_input>>
    BY <1>12
    DEF EndInstruction, WriteLinCtrlHighPanics, Drain,
        DrainOne, DrainEnds, Halted, Drop, SendExitIn, SendExitOut, JoinIn,
        JoinOut, JoinWriter, InCheck, InTimeout, InExit, OutReceive, OutExit,
        OutSend, OutFlush, OutDone, HostWriter, HostWrite, HostWriterEnds,
        HostWriterFails, Ended, intr, input, host, vars
  <2> QED BY <2>1, RxFrame
<1> QED
  BY <1>2, <1>3, <1>4, <1>5, <1>6, <1>7, <1>8, <1>9, <1>10, <1>11, <1>12
  DEF Next, Guest, InThread, OutThread

\* The guest reads what was typed, in order and once, and RXSts tells it of
\* every character that found the FIFO full (device.rs:218-232).
THEOREM RxImplements == Spec => RxIsPipe
<1>1. Init => Rx!Init
  <2> SUFFICES ASSUME Init PROVE Rx!Init
    OBVIOUS
  <2>1. st.rx_buf = <<>> /\ st.overrun = FALSE
    BY ResetEffect DEF Init, State
  <2>2. /\ rx_hand = <<>> /\ uart_input = <<>> /\ got = <<>> /\ typed = 0
        /\ acked = 0
    BY DEF Init
  <2>3. Lost = 0
    <3>1. <<>> \o <<>> \o <<>> \o <<>> = <<>> /\ Len(<<>>) = 0
      OBVIOUS
    <3>2. RxStream = <<>>
      BY <2>1, <2>2, <3>1 DEF RxStream
    <3>3. Len(RxStream) = 0
      BY <3>1, <3>2
    <3> QED BY <2>2, <3>3 DEF Lost
  <2>4. <<>> \o <<>> \o <<>> = <<>>
    OBVIOUS
  <2> QED BY <2>1, <2>2, <2>3, <2>4 DEF Rx!Init
<1>2. TxInv /\ TxInv' /\ [Next]_vars => [Rx!Next]_(Rx!vars)
  BY RxStep DEF TxInv
<1>3. Spec => []TxInv
  BY TxInvInit, TxInvInductive, PTL DEF Spec
<1> QED BY <1>1, <1>2, <1>3, PTL DEF Spec, RxIsPipe, Rx!Spec

-----------------------------------------------------------------------------
(***************************************************************************)
(* What Levels computes.  It is a recursive function; that one exists, and *)
(* what it is worth for a bus with a message more or less, follows by      *)
(* induction up to the length of the bus, with a set for the predicate.    *)
(***************************************************************************)
LEMMA UpTo ==
  ASSUME NEW n \in Nat, NEW S, 0 \in S,
         \A i \in 0..(n - 1) : i \in S => i + 1 \in S
  PROVE  0..n \subseteq S
<1> DEFINE T == {i \in 0..n : i \notin S}
<1>1. ASSUME T # {} PROVE FALSE
  <2>1. T \subseteq Nat
    OBVIOUS
  <2>2. PICK k \in T : \A j \in T : ~ (<<j, k>> \in OpToRel(<, Nat))
    BY <1>1, <2>1, NatLessThanWellFounded, WFMin
  <2>a. k \in 0..n /\ k \notin S /\ k # 0
    BY <2>2
  <2>3. k \in Nat /\ k - 1 \in 0..(n - 1) /\ k - 1 < k /\ (k - 1) + 1 = k
    BY <2>a
  <2>4. k - 1 \notin T
    <3>1. CASE k - 1 \in T
      <4>1. k - 1 \in Nat
        BY <2>3
      <4>2. <<k - 1, k>> \in OpToRel(<, Nat)
        BY <2>3, <4>1 DEF OpToRel
      <4> QED BY <2>2, <3>1, <4>2
    <3> QED BY <3>1
  <2>5. k - 1 \in S
    <3>1. k - 1 \in 0..n
      BY <2>a
    <3> QED BY <2>4, <3>1
  <2>6. (k - 1) + 1 \in S
    BY <2>3, <2>5
  <2> QED BY <2>a, <2>3, <2>6
<1> QED BY <1>1

\* f is the function upto of Levels(b, l).
Fits(f, b, l) ==
  f = [i \in 0..Len(b) |->
         IF i = 0 THEN <<>>
         ELSE IF b[i].line = l THEN Append(f[i - 1], b[i].level)
         ELSE f[i - 1]]

LEMMA FitsStep ==
  ASSUME NEW b \in Seq(Message), NEW l, NEW f, Fits(f, b, l)
  PROVE  /\ f[0] = <<>>
         /\ \A i \in 0..(Len(b) - 1) :
              f[i + 1] = IF b[i + 1].line = l THEN Append(f[i], b[i + 1].level)
                         ELSE f[i]
<1>1. Len(b) \in Nat
  OBVIOUS
<1>2. \A i \in 0..Len(b) :
        f[i] = IF i = 0 THEN <<>>
               ELSE IF b[i].line = l THEN Append(f[i - 1], b[i].level)
               ELSE f[i - 1]
  BY DEF Fits
<1>3. ASSUME NEW i \in 0..(Len(b) - 1)
      PROVE  i + 1 \in 0..Len(b) /\ i + 1 # 0 /\ (i + 1) - 1 = i
  BY <1>1
<1> QED BY <1>1, <1>2, <1>3

LEMMA FitsExists ==
  ASSUME NEW b \in Seq(Message), NEW l PROVE \E f : Fits(f, b, l)
<1> DEFINE Good(f, n) ==
             f = [i \in 0..n |->
                    IF i = 0 THEN <<>>
                    ELSE IF b[i].line = l THEN Append(f[i - 1], b[i].level)
                    ELSE f[i - 1]]
           S == {n \in Nat : \E f : Good(f, n)}
<1>1. 0 \in S
  <2> DEFINE f == [i \in 0..0 |-> <<>>]
  <2>1. Good(f, 0)
    OBVIOUS
  <2> QED BY <2>1
<1>2. ASSUME NEW n \in Nat, n \in S PROVE n + 1 \in S
  <2>1. PICK f : Good(f, n)
    BY <1>2
  <2> DEFINE last == IF b[n + 1].line = l THEN Append(f[n], b[n + 1].level) ELSE f[n]
             g == [i \in 0..(n + 1) |-> IF i = n + 1 THEN last ELSE f[i]]
  <2>2. \A i \in 0..n : f[i] = IF i = 0 THEN <<>>
                               ELSE IF b[i].line = l THEN Append(f[i - 1], b[i].level)
                               ELSE f[i - 1]
    BY <2>1
  <2>3. \A i \in 0..n : g[i] = f[i]
    OBVIOUS
  <2>4. g[n + 1] = last
    OBVIOUS
  <2>5. ASSUME NEW i \in 0..(n + 1)
        PROVE  g[i] = IF i = 0 THEN <<>>
                      ELSE IF b[i].line = l THEN Append(g[i - 1], b[i].level)
                      ELSE g[i - 1]
    <3> HIDE DEF g
    <3>1. CASE i = n + 1
      <4>1. i # 0 /\ i - 1 = n /\ n \in 0..n
        BY <3>1
      <4>2. g[i - 1] = f[n]
        BY <2>3, <4>1
      <4> QED BY <2>4, <3>1, <4>1, <4>2
    <3>2. CASE i \in 0..n
      <4>1. i # 0 => i - 1 \in 0..n
        BY <3>2
      <4>2. g[i] = f[i] /\ (i # 0 => g[i - 1] = f[i - 1])
        BY <2>3, <3>2, <4>1
      <4> QED BY <2>2, <3>2, <4>2
    <3> QED BY <3>1, <3>2
  <2>6. Good(g, n + 1)
    BY <2>5
  <2> HIDE DEF Good, g
  <2> QED BY <2>6
<1> HIDE DEF S
<1>3. Len(b) \in Nat
  OBVIOUS
<1>4. 0..Len(b) \subseteq S
  BY <1>1, <1>2, <1>3, UpTo
<1>5. Len(b) \in S
  BY <1>3, <1>4
<1> QED BY <1>5 DEF S, Fits

LEMMA LevelsFits ==
  ASSUME NEW b \in Seq(Message), NEW l
  PROVE  \E f : Fits(f, b, l) /\ Levels(b, l) = f[Len(b)]
<1>1. \E f : Fits(f, b, l)
  BY FitsExists
<1> QED BY <1>1 DEF Levels, Fits

LEMMA MessageAt ==
  ASSUME NEW b \in Seq(Message), NEW i \in 1..Len(b)
  PROVE  b[i] \in Message /\ b[i].line \in Lines /\ b[i].level \in BOOLEAN
<1>1. b[i] \in Message
  OBVIOUS
<1> QED BY <1>1 DEF Message

LEMMA FitsType ==
  ASSUME NEW b \in Seq(Message), NEW l, NEW f, Fits(f, b, l)
  PROVE  \A i \in 0..Len(b) : f[i] \in Seq(BOOLEAN)
<1> DEFINE S == {i \in Nat : f[i] \in Seq(BOOLEAN)}
<1>1. 0 \in S
  <2>1. <<>> \in Seq(BOOLEAN)
    OBVIOUS
  <2>2. f[0] = <<>>
    BY FitsStep
  <2> QED BY <2>1, <2>2
<1>2. ASSUME NEW i \in 0..(Len(b) - 1), i \in S PROVE i + 1 \in S
  <2>1. i + 1 \in 1..Len(b) /\ i + 1 \in Nat
    OBVIOUS
  <2>2. b[i + 1].level \in BOOLEAN
    BY <2>1, MessageAt
  <2>3. f[i] \in Seq(BOOLEAN)
    BY <1>2
  <2>4. Append(f[i], b[i + 1].level) \in Seq(BOOLEAN)
    BY <2>2, <2>3, AppendProperties
  <2>5. f[i + 1] = IF b[i + 1].line = l THEN Append(f[i], b[i + 1].level) ELSE f[i]
    BY FitsStep
  <2>6. f[i + 1] \in Seq(BOOLEAN)
    BY <2>3, <2>4, <2>5
  <2> QED BY <2>1, <2>6
<1>3. Len(b) \in Nat
  OBVIOUS
<1> HIDE DEF S
<1>4. 0..Len(b) \subseteq S
  BY <1>1, <1>2, <1>3, UpTo
<1> QED BY <1>4 DEF S

LEMMA LevelsType ==
  ASSUME NEW b \in Seq(Message), NEW l PROVE Levels(b, l) \in Seq(BOOLEAN)
<1>1. Len(b) \in 0..Len(b)
  OBVIOUS
<1> QED BY <1>1, LevelsFits, FitsType

LEMMA LevelsEmpty == ASSUME NEW l PROVE Levels(<<>>, l) = <<>>
<1>1. ASSUME NEW b \in Seq(Message), Len(b) = 0 PROVE Levels(b, l) = <<>>
  <2>1. PICK f : Fits(f, b, l) /\ Levels(b, l) = f[Len(b)]
    BY LevelsFits
  <2>2. f[0] = <<>>
    BY <2>1, FitsStep
  <2> QED BY <1>1, <2>1, <2>2
<1>2. <<>> \in Seq(Message) /\ Len(<<>>) = 0
  OBVIOUS
<1> QED BY <1>1, <1>2

\* A message more.
LEMMA LevelsAppend ==
  ASSUME NEW b \in Seq(Message), NEW m \in Message, NEW l
  PROVE  Levels(Append(b, m), l)
           = IF m.line = l THEN Append(Levels(b, l), m.level) ELSE Levels(b, l)
<1> DEFINE c == Append(b, m)
<1>1. /\ c \in Seq(Message) /\ Len(c) = Len(b) + 1 /\ c[Len(b) + 1] = m
      /\ \A i \in 1..Len(b) : c[i] = b[i]
  BY AppendProperties
<1>2. Len(b) \in Nat
  OBVIOUS
<1> HIDE DEF c
<1>3. PICK f : Fits(f, b, l) /\ Levels(b, l) = f[Len(b)]
  BY LevelsFits
<1>4. PICK g : Fits(g, c, l) /\ Levels(c, l) = g[Len(c)]
  BY <1>1, LevelsFits
<1> DEFINE S == {i \in Nat : f[i] = g[i]}
<1>5. 0 \in S
  BY <1>1, <1>3, <1>4, FitsStep
<1>6. ASSUME NEW i \in 0..(Len(b) - 1), i \in S PROVE i + 1 \in S
  <2>1. i + 1 \in 1..Len(b) /\ i \in 0..(Len(c) - 1) /\ i + 1 \in Nat
    BY <1>1, <1>2
  <2>2. c[i + 1] = b[i + 1] /\ f[i] = g[i]
    BY <1>1, <1>6, <2>1
  <2>3. f[i + 1] = IF b[i + 1].line = l THEN Append(f[i], b[i + 1].level) ELSE f[i]
    BY <1>3, FitsStep
  <2>4. g[i + 1] = IF c[i + 1].line = l THEN Append(g[i], c[i + 1].level) ELSE g[i]
    BY <1>1, <1>4, <2>1, FitsStep
  <2> QED BY <2>1, <2>2, <2>3, <2>4
<1> HIDE DEF S
<1>7. 0..Len(b) \subseteq S
  BY <1>2, <1>5, <1>6, UpTo
<1>8. f[Len(b)] = g[Len(b)]
  BY <1>2, <1>7 DEF S
<1>9. g[Len(b) + 1] = IF c[Len(b) + 1].line = l
                      THEN Append(g[Len(b)], c[Len(b) + 1].level) ELSE g[Len(b)]
  <2>1. Len(b) \in 0..(Len(c) - 1)
    BY <1>1, <1>2
  <2> QED BY <1>1, <1>4, <2>1, FitsStep
<1> QED BY <1>1, <1>3, <1>4, <1>8, <1>9 DEF c

\* A message less.
LEMMA LevelsTail ==
  ASSUME NEW b \in Seq(Message), b # <<>>, NEW l
  PROVE  Levels(b, l)
           = (IF Head(b).line = l THEN <<Head(b).level>> ELSE <<>>) \o Levels(Tail(b), l)
<1> DEFINE t == Tail(b)
           h == IF Head(b).line = l THEN <<Head(b).level>> ELSE <<>>
<1>1. /\ t \in Seq(Message) /\ Len(b) = Len(t) + 1 /\ Head(b) = b[1]
      /\ \A i \in 1..Len(t) : t[i] = b[i + 1]
  BY HeadTailProperties
<1>2. Len(t) \in Nat /\ Len(b) \in Nat /\ 1 \in 1..Len(b)
  BY <1>1
<1>3. h \in Seq(BOOLEAN)
  <2>1. Head(b).level \in BOOLEAN
    BY <1>1, <1>2, MessageAt
  <2>2. <<Head(b).level>> \in Seq(BOOLEAN) /\ <<>> \in Seq(BOOLEAN)
    BY <2>1
  <2> QED BY <2>2
<1> HIDE DEF t
<1>4. PICK f : Fits(f, b, l) /\ Levels(b, l) = f[Len(b)]
  BY LevelsFits
<1>5. PICK g : Fits(g, t, l) /\ Levels(t, l) = g[Len(t)]
  BY <1>1, LevelsFits
<1>6. \A i \in 0..Len(t) : g[i] \in Seq(BOOLEAN)
  BY <1>1, <1>5, FitsType
<1> DEFINE S == {i \in Nat : f[i + 1] = h \o g[i]}
<1>7. 0 \in S
  <2>1. g[0] = <<>> /\ f[0] = <<>>
    BY <1>1, <1>4, <1>5, FitsStep
  <2>2. f[0 + 1] = IF b[0 + 1].line = l THEN Append(f[0], b[0 + 1].level) ELSE f[0]
    <3>1. 0 \in 0..(Len(b) - 1)
      BY <1>2
    <3> QED BY <1>4, <3>1, FitsStep
  <2>3. f[0 + 1] = h
    <3>1. Append(<<>>, b[1].level) = <<b[1].level>>
      OBVIOUS
    <3> QED BY <1>1, <2>1, <2>2, <3>1
  <2>4. h \o <<>> = h
    BY <1>3, ConcatEmptySeq
  <2> QED BY <2>1, <2>3, <2>4
<1> HIDE DEF h
<1>8. ASSUME NEW i \in 0..(Len(t) - 1), i \in S PROVE i + 1 \in S
  <2>1. /\ i + 1 \in 1..Len(t) /\ i + 1 \in 0..(Len(b) - 1) /\ i + 1 \in Nat
        /\ (i + 1) + 1 \in 1..Len(b) /\ i \in 0..Len(t)
    BY <1>1, <1>2
  <2>2. t[i + 1] = b[(i + 1) + 1] /\ f[i + 1] = h \o g[i]
    BY <1>1, <1>8, <2>1
  <2>3. f[(i + 1) + 1] = IF b[(i + 1) + 1].line = l
                         THEN Append(f[i + 1], b[(i + 1) + 1].level) ELSE f[i + 1]
    BY <1>4, <2>1, FitsStep
  <2>4. g[i + 1] = IF t[i + 1].line = l THEN Append(g[i], t[i + 1].level) ELSE g[i]
    BY <1>1, <1>5, FitsStep
  <2>5. b[(i + 1) + 1].level \in BOOLEAN
    BY <2>1, MessageAt
  <2>6. g[i] \in Seq(BOOLEAN)
    BY <1>6, <2>1
  <2>7. ASSUME NEW x \in Seq(BOOLEAN), NEW y \in Seq(BOOLEAN), NEW e \in BOOLEAN
        PROVE  Append(x \o y, e) = x \o Append(y, e)
    <3>1. Append(x \o y, e) = (x \o y) \o <<e>> /\ Append(y, e) = y \o <<e>>
      BY ConcatProperties, AppendIsConcat
    <3>2. <<e>> \in Seq(BOOLEAN)
      OBVIOUS
    <3> QED BY <3>1, <3>2, ConcatAssociative
  <2>8. Append(h \o g[i], b[(i + 1) + 1].level) = h \o Append(g[i], b[(i + 1) + 1].level)
    BY <1>3, <2>5, <2>6, <2>7
  <2>9. f[(i + 1) + 1] = h \o g[i + 1]
    BY <2>2, <2>3, <2>4, <2>8
  <2> QED BY <2>1, <2>9
<1> HIDE DEF S
<1>9. 0..Len(t) \subseteq S
  BY <1>2, <1>7, <1>8, UpTo
<1>10. f[Len(t) + 1] = h \o g[Len(t)]
  BY <1>2, <1>9 DEF S
<1> QED BY <1>1, <1>4, <1>5, <1>10 DEF t, h

-----------------------------------------------------------------------------
(***************************************************************************)
(* Each line is a device line.  A handler run under the lock sends at most *)
(* one message for the line, and does so exactly when the line changes;    *)
(* a handler of a thread withdraws no cause (LinesGrow), so its message,   *)
(* if any, raises the line.                                                *)
(***************************************************************************)
Line(l) == INSTANCE DeviceLine WITH
  turn <- Turn, line <- l \in st.asserted, bus <- Levels(bus, l),
  seen <- l \in status

LEMMA EdgeLevels ==
  ASSUME NEW b \in Seq(Message), NEW s, NEW t, NEW k \in Lines, NEW l
  PROVE  /\ b \o Edge(s, t, k) \in Seq(Message)
         /\ Levels(b \o Edge(s, t, k), l)
              = IF k = l /\ ~ (l \in s.asserted <=> l \in t.asserted)
                THEN Append(Levels(b, l), l \in t.asserted)
                ELSE Levels(b, l)
<1>1. CASE k \in s.asserted <=> k \in t.asserted
  <2>1. Edge(s, t, k) = <<>>
    BY <1>1 DEF Edge
  <2>2. b \o <<>> = b
    BY ConcatEmptySeq
  <2> QED BY <1>1, <2>1, <2>2
<1>2. CASE ~ (k \in s.asserted <=> k \in t.asserted)
  <2> DEFINE m == [line |-> k, level |-> (k \in t.asserted)]
  <2>1. Edge(s, t, k) = <<m>>
    BY <1>2 DEF Edge
  <2>2. m \in Message
    <3>1. (k \in t.asserted) \in BOOLEAN
      OBVIOUS
    <3> QED BY <3>1 DEF Message
  <2>3. m.line = k /\ m.level = (k \in t.asserted)
    OBVIOUS
  <2> HIDE DEF m
  <2>4. b \o <<m>> = Append(b, m) /\ Append(b, m) \in Seq(Message)
    BY <2>2, AppendIsConcat, AppendProperties
  <2>5. Levels(Append(b, m), l)
          = IF m.line = l THEN Append(Levels(b, l), m.level) ELSE Levels(b, l)
    BY <2>2, LevelsAppend
  <2> QED BY <1>2, <2>1, <2>3, <2>4, <2>5
<1> QED BY <1>1, <1>2

LEMMA LockedLevels ==
  ASSUME IntrOK, NEW t, Locked(t), NEW l \in Lines
  PROVE  Levels(bus', l) = IF l \in st.asserted <=> l \in t.asserted
                           THEN Levels(bus, l)
                           ELSE Append(Levels(bus, l), l \in t.asserted)
<1> DEFINE b1 == bus \o Edge(st, t, "tx")
           b2 == b1 \o Edge(st, t, "rx")
           b3 == b2 \o Edge(st, t, "combo")
<1>0. "tx" \in Lines /\ "rx" \in Lines /\ "combo" \in Lines /\ bus \in Seq(Message)
  BY DEF Lines, IntrOK
<1>1. /\ b1 \in Seq(Message)
      /\ Levels(b1, l) = IF "tx" = l /\ ~ (l \in st.asserted <=> l \in t.asserted)
                         THEN Append(Levels(bus, l), l \in t.asserted)
                         ELSE Levels(bus, l)
  BY <1>0, EdgeLevels
<1> HIDE DEF b1
<1>2. /\ b2 \in Seq(Message)
      /\ Levels(b2, l) = IF "rx" = l /\ ~ (l \in st.asserted <=> l \in t.asserted)
                         THEN Append(Levels(b1, l), l \in t.asserted)
                         ELSE Levels(b1, l)
  BY <1>0, <1>1, EdgeLevels
<1> HIDE DEF b2
<1>3. Levels(b3, l) = IF "combo" = l /\ ~ (l \in st.asserted <=> l \in t.asserted)
                      THEN Append(Levels(b2, l), l \in t.asserted)
                      ELSE Levels(b2, l)
  BY <1>0, <1>2, EdgeLevels
<1>4. bus' = b3
  <2> DEFINE x == Edge(st, t, "tx")
             y == Edge(st, t, "rx")
             z == Edge(st, t, "combo")
  <2>1. x \in Seq(Message) /\ y \in Seq(Message) /\ z \in Seq(Message)
    BY <1>0, EdgeType
  <2>2. bus \o Messages(st, t) = bus \o (x \o y \o z)
    BY DEF Messages
  <2>3. b3 = ((bus \o x) \o y) \o z
    BY DEF b1, b2
  <2> HIDE DEF x, y, z
  <2>4. bus \o (x \o y \o z) = ((bus \o x) \o y) \o z
    BY <1>0, <2>1
  <2>5. bus \o Messages(st, t) = b3
    BY <2>2, <2>3, <2>4
  <2> QED BY <2>5 DEF Locked
<1> HIDE DEF b3
<1>5. l = "tx" \/ l = "rx" \/ l = "combo"
  BY DEF Lines
<1> QED BY <1>1, <1>2, <1>3, <1>4, <1>5

\* A handler: the line stays as it is, or changes and says so.
LEMMA LockedLine ==
  ASSUME IntrOK, Locked(st'), NEW l \in Lines
  PROVE  /\ (l \in status') = (l \in status)
         /\ \/ /\ (l \in st'.asserted) = (l \in st.asserted)
               /\ Levels(bus', l) = Levels(bus, l)
            \/ /\ (l \in st'.asserted) = ~ (l \in st.asserted)
               /\ Levels(bus', l) = Append(Levels(bus, l), l \in st'.asserted)
<1>1. Levels(bus', l) = IF l \in st.asserted <=> l \in st'.asserted
                        THEN Levels(bus, l)
                        ELSE Append(Levels(bus, l), l \in st'.asserted)
  BY LockedLevels
<1>2. status' = status
  BY DEF Locked
<1> QED BY <1>1, <1>2

LEMMA GuestLine ==
  ASSUME TypeOK, Guest, NEW l \in Lines
  PROVE  [Line(l)!Next]_(Line(l)!vars)
<1>1. CASE \E fen \in FenVals : WriteLinCtrlHighPanics(fen)
  <2>1. cpu = "exec" /\ cpu' = "panicked" /\ UNCHANGED <<st, bus, status>>
    BY <1>1 DEF WriteLinCtrlHighPanics, intr
  <2>2. Line(l)!Stop
    BY <2>1 DEF Line!Stop, Turn
  <2> QED BY <2>2 DEF Line!Next
<1>2. CASE ~ \E fen \in FenVals : WriteLinCtrlHighPanics(fen)
  <2>1. cpu = "exec" /\ cpu' = cpu /\ Locked(st')
    BY <1>2
    DEF Guest, ReadData, WriteDataAccepted, WriteRxSts, WriteLinCtrlHigh,
        WriteLinCtrlMid, WriteLinCtrlLow, WriteCtrl, WriteIntClr, Access, Locked
  <2>2. Turn = "guest" /\ Turn' = Turn
    BY <2>1 DEF Turn
  <2>3. IntrOK
    BY DEF TypeOK
  <2>4. CASE /\ (l \in st'.asserted) = (l \in st.asserted)
             /\ Levels(bus', l) = Levels(bus, l)
    <3>1. (l \in status') = (l \in status)
      BY <2>1, <2>3, LockedLine
    <3> QED BY <2>2, <2>4, <3>1 DEF Line!vars
  <2>5. CASE /\ (l \in st'.asserted) = ~ (l \in st.asserted)
             /\ Levels(bus', l) = Append(Levels(bus, l), l \in st'.asserted)
    <3>1. (l \in status') = (l \in status)
      BY <2>1, <2>3, LockedLine
    <3>2. Line(l)!Access
      BY <2>2, <2>5, <3>1 DEF Line!Access, Line!Send
    <3> QED BY <3>2 DEF Line!Next
  <2> QED BY <2>1, <2>3, <2>4, <2>5, LockedLine
<1> QED BY <1>1, <1>2

\* What a thread does under the lock.
LEMMA ThreadRaises ==
  ASSUME TxInv, InStep(st), InStep(st'), InThread \/ OutThread
  PROVE  /\ cpu' = cpu
         /\ \/ Locked(st') /\ st.asserted \subseteq st'.asserted
            \/ UNCHANGED <<st, bus, status>>
<1> USE DEF TxInv, TypeOK
<1>0. st \in State
  BY DEF IntrOK
<1>1. CASE InDeliver
  <2>1. Head(rx_hand) \in Nat
    <3>1. rx_hand \in Seq(Nat) /\ Len(rx_hand) = 1
      BY <1>1 DEF InDeliver, InputOK
    <3> QED BY <3>1
  <2>2. /\ st' = Receive(st, Head(rx_hand)) /\ Locked(st') /\ cpu' = cpu
    BY <1>1 DEF InDeliver, Locked
  <2>3. st' \in State /\ CausesGrow(st, st')
    BY <1>0, <2>1, <2>2, ReceiveEffect
  <2> QED BY <1>0, <2>2, <2>3, LinesGrow
<1>2. CASE InRaiseTimeout
  <2>1. st' = RaiseTimeout(st) /\ Locked(st') /\ cpu' = cpu
    BY <1>2 DEF InRaiseTimeout, Locked
  <2>2. st' \in State /\ CausesGrow(st, st')
    BY <1>0, <2>1, RaiseTimeoutEffect
  <2> QED BY <1>0, <2>1, <2>2, LinesGrow
<1>3. CASE OutBegin
  <2>1. st' = BeginSend(st) /\ Locked(st') /\ cpu' = cpu
    BY <1>3 DEF OutBegin, Locked
  <2>2. st' \in State /\ CausesGrow(st, st')
    BY <1>0, <2>1, BeginSendEffect
  <2> QED BY <1>0, <2>1, <2>2, LinesGrow
<1>4. CASE OutFinish
  <2>1. st' = FinishSend(st) /\ Locked(st') /\ cpu' = cpu
    BY <1>4 DEF OutFinish, Locked
  <2>2. st.tx_buf_size > 0
    BY <1>4 DEF OutFinish, TxAccounting, OutputOK
  <2>3. st' \in State /\ CausesGrow(st, st')
    BY <1>0, <2>1, <2>2, FinishSendEffect
  <2> QED BY <1>0, <2>1, <2>3, LinesGrow
<1>5. CASE \/ InCheck \/ InReceive \/ InTimeout \/ InExit
           \/ OutReceive \/ OutExit \/ OutSend \/ OutFlush \/ OutDone
  BY <1>5 DEF InCheck, InReceive, InTimeout, InExit, OutReceive, OutExit,
              OutSend, OutFlush, OutDone, intr
<1> QED BY <1>1, <1>2, <1>3, <1>4, <1>5 DEF InThread, OutThread

LEMMA ThreadLine ==
  ASSUME TxInv, InStep(st), InStep(st'), InThread \/ OutThread, NEW l \in Lines
  PROVE  [Line(l)!Next]_(Line(l)!vars)
<1>1. Turn' = Turn
  BY ThreadRaises DEF Turn
<1>2. CASE UNCHANGED <<st, bus, status>>
  BY <1>1, <1>2 DEF Line!vars
<1>3. CASE Locked(st') /\ st.asserted \subseteq st'.asserted
  <2>1. IntrOK
    BY DEF TxInv, TypeOK
  <2>2. CASE (l \in st'.asserted) = (l \in st.asserted)
    <3>1. Levels(bus', l) = Levels(bus, l) /\ (l \in status') = (l \in status)
      BY <1>3, <2>1, <2>2, LockedLine
    <3> QED BY <1>1, <2>2, <3>1 DEF Line!vars
  <2>3. CASE (l \in st'.asserted) # (l \in st.asserted)
    <3>1. /\ (l \in st.asserted) = FALSE /\ (l \in st'.asserted) = TRUE
      BY <1>3, <2>3
    <3>2. /\ Levels(bus', l) = Append(Levels(bus, l), TRUE)
          /\ (l \in status') = (l \in status)
      BY <1>3, <2>1, <2>3, <3>1, LockedLine
    <3>3. Line(l)!Raise
      BY <1>1, <3>1, <3>2 DEF Line!Raise, Line!Send
    <3> QED BY <3>3 DEF Line!Next
  <2> QED BY <2>2, <2>3
<1> QED BY <1>2, <1>3, ThreadRaises

\* The VIC takes a message, of this line or of another.
LEMMA DrainLine ==
  ASSUME TypeOK, DrainOne, NEW l \in Lines
  PROVE  [Line(l)!Next]_(Line(l)!vars)
<1> DEFINE h == Head(bus)
<1>1. /\ bus \in Seq(Message) /\ bus # <<>> /\ bus' = Tail(bus) /\ st' = st
      /\ status' = IF h.level THEN status \union {h.line} ELSE status \ {h.line}
      /\ cpu = "drain" /\ cpu' = cpu
  BY DEF TypeOK, IntrOK, DrainOne
<1>2. h \in Message /\ Tail(bus) \in Seq(Message)
  BY <1>1
<1>3. h.level \in BOOLEAN
  BY <1>2 DEF Message
<1>4. Levels(Tail(bus), l) \in Seq(BOOLEAN)
  BY <1>2, LevelsType
<1>5. Levels(bus, l)
        = (IF h.line = l THEN <<h.level>> ELSE <<>>) \o Levels(Tail(bus), l)
  BY <1>1, LevelsTail
<1>6. Turn = "drain" /\ Turn' = "drain"
  BY <1>1 DEF Turn
<1> HIDE DEF h
<1>7. CASE h.line = l
  <2>1. ASSUME NEW q \in Seq(BOOLEAN), NEW x \in BOOLEAN
        PROVE  <<x>> \o q # <<>> /\ Head(<<x>> \o q) = x /\ Tail(<<x>> \o q) = q
    <3>1. <<x>> \o q # <<>> /\ Head(<<x>> \o q) = x
      OBVIOUS
    <3>2. Tail(<<x>> \o q) = q
      OBVIOUS
    <3> QED BY <3>1, <3>2
  <2>2. /\ Levels(bus, l) # <<>> /\ Head(Levels(bus, l)) = h.level
        /\ Tail(Levels(bus, l)) = Levels(Tail(bus), l)
    BY <1>3, <1>4, <1>5, <1>7, <2>1
  <2>3. (l \in status') = h.level
    BY <1>1, <1>3, <1>7
  <2>4. Line(l)!Deliver
    BY <1>1, <1>6, <2>2, <2>3 DEF Line!Deliver
  <2> QED BY <2>4 DEF Line!Next
<1>8. CASE h.line # l
  <2>1. Levels(bus', l) = Levels(bus, l)
    BY <1>1, <1>4, <1>5, <1>8, ConcatEmptySeq
  <2>2. (l \in status') = (l \in status)
    BY <1>1, <1>8
  <2> QED BY <1>1, <1>6, <2>1, <2>2 DEF Line!vars
<1> QED BY <1>7, <1>8

LEMMA LineStep ==
  ASSUME IntrInv, IntrInv', [Next]_vars, NEW l \in Lines
  PROVE  [Line(l)!Next]_(Line(l)!vars)
<1> USE DEF IntrInv, TxInv, LinesTrackCauses
<1>1. CASE Guest
  BY <1>1, GuestLine
<1>2. CASE InThread \/ OutThread
  BY <1>2, ThreadLine
<1>3. CASE DrainOne
  BY <1>3, DrainLine
<1>4. CASE DrainEnds
  <2>1. /\ bus = <<>> /\ cpu = "drain" /\ cpu' = "exec"
        /\ UNCHANGED <<st, bus, status>>
    BY <1>4 DEF DrainEnds, intr
  <2>2. Levels(bus, l) = <<>>
    BY <2>1, LevelsEmpty
  <2>3. Line(l)!EndDrain
    BY <2>1, <2>2 DEF Line!EndDrain, Turn
  <2> QED BY <2>3 DEF Line!Next
<1>5. CASE Halted
  <2>1. /\ cpu \in {"boot", "exec", "drain"} /\ cpu' = "exit_in"
        /\ UNCHANGED <<st, bus, status>>
    BY <1>5 DEF Halted, intr
  <2>2. Line(l)!Stop
    BY <2>1 DEF Line!Stop, Turn
  <2> QED BY <2>2 DEF Line!Next
<1>6. CASE ApplyHacks
  <2>1. st'.asserted = st.asserted
    BY <1>6, HackEffect, UartAssumption DEF ApplyHacks, TypeOK, IntrOK
  <2>2. cpu = "boot" /\ cpu' = "exec" /\ UNCHANGED <<bus, status>>
    BY <1>6 DEF ApplyHacks
  <2> QED BY <2>1, <2>2 DEF Line!vars, Turn
<1>7. CASE Drop
  <2>1. /\ cpu \notin {"boot", "exec", "drain"} /\ cpu' \notin {"boot", "exec", "drain"}
        /\ UNCHANGED <<st, bus, status>>
    BY <1>7 DEF Drop, SendExitIn, SendExitOut, JoinIn, JoinOut, JoinWriter, intr
  <2> QED BY <2>1 DEF Line!vars, Turn
<1>9. CASE EndInstruction
  <2>1. /\ cpu = "exec" /\ cpu' = "drain"
        /\ UNCHANGED <<st, bus, status>>
    BY <1>9 DEF EndInstruction, intr
  <2>2. Line(l)!EndInstruction
    BY <2>1 DEF Line!EndInstruction, Turn
  <2> QED BY <2>2 DEF Line!Next
<1>8. CASE HostType \/ HostWriter \/ HostWriterFails \/ Ended \/ UNCHANGED vars
  <2>1. UNCHANGED <<cpu, st, bus, status>>
    BY <1>8 DEF HostType, HostWriter, HostWrite, HostWriterEnds, HostWriterFails,
                Ended, intr, vars
  <2> QED BY <2>1 DEF Line!vars, Turn
<1> QED
  BY <1>1, <1>2, <1>3, <1>4, <1>5, <1>6, <1>7, <1>8, <1>9 DEF Next, Drain

LEMMA LineInit ==
  ASSUME Init, NEW l PROVE Line(l)!Init
<1>1. st = Reset /\ bus = <<>> /\ status = {} /\ cpu = "boot"
  BY DEF Init
<1>2. st.asserted = {}
  BY <1>1, ResetEffect
<1>3. Levels(bus, l) = <<>>
  BY <1>1, LevelsEmpty
<1> QED BY <1>1, <1>2, <1>3 DEF Line!Init, Turn

\* Each of the UART's three lines is what Ts7200 takes a device's line to be:
\* the instances of DeviceLine in LinesAreDevices.
THEOREM LinesImplement == Spec => LinesAreDevices
<1>0. "tx" \in Lines /\ "rx" \in Lines /\ "combo" \in Lines
  BY DEF Lines
<1>1. Init => TxLine!Init /\ RxLine!Init /\ ComboLine!Init
  <2> SUFFICES ASSUME Init PROVE TxLine!Init /\ RxLine!Init /\ ComboLine!Init
    OBVIOUS
  <2>1. Line("tx")!Init /\ Line("rx")!Init /\ Line("combo")!Init
    BY LineInit
  <2> QED BY <2>1 DEF Line!Init, TxLine!Init, RxLine!Init, ComboLine!Init
<1>2. IntrInv /\ IntrInv' /\ [Next]_vars => [TxLine!Next]_(TxLine!vars)
  <2> SUFFICES ASSUME IntrInv, IntrInv', [Next]_vars
               PROVE  [TxLine!Next]_(TxLine!vars)
    OBVIOUS
  <2>1. [Line("tx")!Next]_(Line("tx")!vars)
    BY <1>0, LineStep
  <2> QED BY <2>1
      DEF Line!Next, Line!vars, Line!Raise, Line!Access, Line!Send, Line!Deliver,
          Line!EndDrain, Line!Stop, Line!EndInstruction, TxLine!Next, TxLine!vars, TxLine!Raise,
          TxLine!Access, TxLine!Send, TxLine!Deliver, TxLine!EndDrain, TxLine!Stop,
          TxLine!EndInstruction
<1>3. IntrInv /\ IntrInv' /\ [Next]_vars => [RxLine!Next]_(RxLine!vars)
  <2> SUFFICES ASSUME IntrInv, IntrInv', [Next]_vars
               PROVE  [RxLine!Next]_(RxLine!vars)
    OBVIOUS
  <2>1. [Line("rx")!Next]_(Line("rx")!vars)
    BY <1>0, LineStep
  <2> QED BY <2>1
      DEF Line!Next, Line!vars, Line!Raise, Line!Access, Line!Send, Line!Deliver,
          Line!EndDrain, Line!Stop, Line!EndInstruction, RxLine!Next, RxLine!vars, RxLine!Raise,
          RxLine!Access, RxLine!Send, RxLine!Deliver, RxLine!EndDrain, RxLine!Stop,
          RxLine!EndInstruction
<1>4. IntrInv /\ IntrInv' /\ [Next]_vars => [ComboLine!Next]_(ComboLine!vars)
  <2> SUFFICES ASSUME IntrInv, IntrInv', [Next]_vars
               PROVE  [ComboLine!Next]_(ComboLine!vars)
    OBVIOUS
  <2>1. [Line("combo")!Next]_(Line("combo")!vars)
    BY <1>0, LineStep
  <2> QED BY <2>1
      DEF Line!Next, Line!vars, Line!Raise, Line!Access, Line!Send, Line!Deliver,
          Line!EndDrain, Line!Stop, Line!EndInstruction, ComboLine!Next, ComboLine!vars,
          ComboLine!Raise, ComboLine!Access, ComboLine!Send, ComboLine!Deliver,
          ComboLine!EndDrain, ComboLine!Stop, ComboLine!EndInstruction
<1> QED BY <1>1, <1>2, <1>3, <1>4, IntrInvInit, IntrInvStep, PTL
        DEF Spec, LinesAreDevices, TxLine!Spec, RxLine!Spec, ComboLine!Spec
=============================================================================
