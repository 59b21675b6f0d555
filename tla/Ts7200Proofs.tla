---------------------------- MODULE Ts7200Proofs ----------------------------
(***************************************************************************)
(* Proofs about the machine, for any devices, any number of vectors, any   *)
(* depth of the interrupt bus, any number of accesses of an instruction     *)
(* and both block modes.                                                   *)
(***************************************************************************)
EXTENDS Ts7200Properties, TLAPS

USE VicAssumption, Ts7200Assumption

\* Where each interrupt is wired.
LEMMA IndexType ==
  ASSUME NEW i \in Interrupt
  PROVE  Bank(i) \in Banks /\ Index(i) \in Sources
BY DEF Interrupt, OverallIndex, Bank, Index, Banks, Sources

\* No two interrupts share a bit.
LEMMA IndexInjective ==
  ASSUME NEW i \in Interrupt, NEW j \in Interrupt,
         Bank(i) = Bank(j), Index(i) = Index(j)
  PROVE  i = j
BY DEF Interrupt, OverallIndex, Bank, Index

\* The bank after a message.
LEMMA DeliverEffect ==
  ASSUME VicTypeOK, NEW i \in Interrupt, NEW l \in BOOLEAN, Deliver(i, l)
  PROVE  /\ VicTypeOK'
         /\ \A b \in Banks : 
              vic'[b].status = IF b # Bank(i) THEN vic[b].status
                               ELSE IF l THEN vic[b].status \union {Index(i)}
                               ELSE vic[b].status \ {Index(i)}
<1> DEFINE t == IF l THEN vic[Bank(i)].status \union {Index(i)}
                     ELSE vic[Bank(i)].status \ {Index(i)}
<1>1. Bank(i) \in Banks /\ Index(i) \in Sources
  BY IndexType
<1>2. vic[Bank(i)] \in VicBank
  BY <1>1 DEF VicTypeOK
<1>3. t \in SUBSET Sources
  BY <1>1, <1>2 DEF VicBank
<1>4. vic' = [vic EXCEPT ![Bank(i)] = [vic[Bank(i)] EXCEPT !.status = t]]
  BY DEF Deliver
<1> HIDE DEF t
<1>5. [vic[Bank(i)] EXCEPT !.status = t] \in VicBank
  BY <1>2, <1>3 DEF VicBank
<1>6. [vic[Bank(i)] EXCEPT !.status = t].status = t
  BY <1>2 DEF VicBank
<1>7. VicTypeOK'
  BY <1>1, <1>4, <1>5 DEF VicTypeOK
<1>8. \A b \in Banks : vic'[b].status = IF b = Bank(i) THEN t ELSE vic[b].status
  BY <1>1, <1>4, <1>6 DEF VicTypeOK
<1>. QED  BY <1>7, <1>8 DEF t

LEMMA WiredType == \A b \in Banks : Wired(b) \subseteq Sources
BY IndexType DEF Wired

\* What is written to the VICs leaves what the devices raised alone.
LEMMA WritesVicEffect ==
  ASSUME VicTypeOK, NEW mask, WritesVic(mask)
  PROVE  VicTypeOK' /\ \A b \in Banks : vic'[b].status = vic[b].status
<1>1. PICK b \in Banks :
        \/ \E x \in SUBSET Sources :
             \/ WriteIntSelect(b, x) \/ WriteIntEnable(b, x)
             \/ WriteIntEnClear(b, x) \/ WriteSoftInt(b, x)
             \/ WriteSoftIntClear(b, x)
        \/ \E k \in Vectors, c \in CntlVals : WriteVectCntl(b, k, c)
  BY WiredType DEF WritesVic
<1>2. vic[b] \in VicBank
  BY <1>1 DEF VicTypeOK
<1>3. \E w \in VicBank : vic' = [vic EXCEPT ![b] = w] /\ w.status = vic[b].status
  <2>1. CASE \E x \in SUBSET Sources :
               \/ WriteIntSelect(b, x) \/ WriteIntEnable(b, x)
               \/ WriteIntEnClear(b, x) \/ WriteSoftInt(b, x)
               \/ WriteSoftIntClear(b, x)
    <3>1. PICK x \in SUBSET Sources :
             \/ WriteIntSelect(b, x) \/ WriteIntEnable(b, x)
             \/ WriteIntEnClear(b, x) \/ WriteSoftInt(b, x)
             \/ WriteSoftIntClear(b, x)
      BY <2>1
    <3>3. ASSUME NEW q \in SUBSET Sources
          PROVE  /\ [vic[b] EXCEPT !.select = q] \in VicBank
                 /\ [vic[b] EXCEPT !.enabled = q] \in VicBank
                 /\ [vic[b] EXCEPT !.soft = q] \in VicBank
                 /\ [vic[b] EXCEPT !.select = q].status = vic[b].status
                 /\ [vic[b] EXCEPT !.enabled = q].status = vic[b].status
                 /\ [vic[b] EXCEPT !.soft = q].status = vic[b].status
      BY <1>2 DEF VicBank
    <3>4. /\ vic[b].enabled \ x \in SUBSET Sources
          /\ vic[b].soft \union x \in SUBSET Sources
          /\ vic[b].soft \ x \in SUBSET Sources
      BY <1>2 DEF VicBank
    <3>5. \/ vic' = [vic EXCEPT ![b] = [vic[b] EXCEPT !.select = x]]
          \/ vic' = [vic EXCEPT ![b] = [vic[b] EXCEPT !.enabled = x]]
          \/ vic' = [vic EXCEPT ![b] = [vic[b] EXCEPT !.enabled = vic[b].enabled \ x]]
          \/ vic' = [vic EXCEPT ![b] = [vic[b] EXCEPT !.soft = vic[b].soft \union x]]
          \/ vic' = [vic EXCEPT ![b] = [vic[b] EXCEPT !.soft = vic[b].soft \ x]]
      BY <3>1 DEF WriteIntSelect, WriteIntEnable, WriteIntEnClear,
                  WriteSoftInt, WriteSoftIntClear
    <3>. QED  BY <3>3, <3>4, <3>5
  <2>2. CASE \E k \in Vectors, c \in CntlVals : WriteVectCntl(b, k, c)
    <3>1. PICK k \in Vectors, c \in CntlVals : WriteVectCntl(b, k, c)
      BY <2>2
    <3>2. vic[b].vectors \in [Vectors -> VectorEntry] /\ c \in VectorEntry
      BY <1>2 DEF VicBank
    <3>3. [vic[b].vectors EXCEPT ![k] = c] \in [Vectors -> VectorEntry]
      BY <3>2
    <3>4. ASSUME NEW q \in [Vectors -> VectorEntry]
          PROVE  /\ [vic[b] EXCEPT !.vectors = q] \in VicBank
                 /\ [vic[b] EXCEPT !.vectors = q].status = vic[b].status
      BY <1>2 DEF VicBank
    <3>5. vic' = [vic EXCEPT ![b] =
                    [vic[b] EXCEPT !.vectors = [vic[b].vectors EXCEPT ![k] = c]]]
      BY <3>1 DEF WriteVectCntl
    <3>. QED  BY <3>3, <3>4, <3>5
  <2>. QED  BY <1>1, <2>1, <2>2
<1>4. PICK w \in VicBank : vic' = [vic EXCEPT ![b] = w] /\ w.status = vic[b].status
  BY <1>3
<1>5. VicTypeOK'
  BY <1>1, <1>4 DEF VicTypeOK
<1>. QED  BY <1>1, <1>4, <1>5 DEF VicTypeOK

-----------------------------------------------------------------------------
(***************************************************************************)
(* Type correctness.                                                       *)
(***************************************************************************)
LEMMA SendType ==
  ASSUME TypeOK, NEW i \in Devices, NEW l \in BOOLEAN, Send(i, l)
  PROVE  bus' \in Seq(Message) /\ line' \in [Devices -> BOOLEAN]
<1>1. [int |-> i, level |-> l] \in Message
  BY DEF Message
<1>. QED  BY <1>1 DEF TypeOK, Send

LEMMA TakeMessageType ==
  ASSUME TypeOK, TakeMessage
  PROVE  /\ VicTypeOK' /\ bus' \in Seq(Message)
         /\ Head(bus) \in Message
<1>1. bus # <<>> /\ bus \in Seq(Message)
  BY DEF TypeOK, TakeMessage
<1>2. Head(bus) \in Message /\ Tail(bus) \in Seq(Message)
  BY <1>1
<1>3. Head(bus).int \in Interrupt /\ Head(bus).level \in BOOLEAN
  BY <1>2 DEF Message
<1>. QED  BY <1>2, <1>3, DeliverEffect DEF TypeOK, TakeMessage

LEMMA SignalType ==
  ASSUME TypeOK, Signal
  PROVE  mask_i' \in BOOLEAN /\ mask_f' \in BOOLEAN
BY DEF TypeOK, Signal, AnyFiq, AnyIrq, Fiq, Irq

\* Who makes an access: an instruction under way, or the client in between.
LEMMA AccessEffect ==
  ASSUME TypeOK, Access
  PROVE  /\ pc \in {"step", "insn"} /\ pc' = pc /\ blocking' = blocking
         /\ accesses' \in 0..MaxAccesses /\ touched' \in BOOLEAN
         /\ pc = "step" => touched'
<1>1. CASE GuestAccess
  BY <1>1 DEF GuestAccess, TypeOK
<1>2. CASE ClientAccess
  BY <1>2 DEF ClientAccess, TypeOK
<1>. QED  BY <1>1, <1>2 DEF Access

\* Every edit of the machine is such an access.
LEMMA EditAccess ==
  ASSUME TypeOK, Edit
  PROVE  Access
BY DEF Edit, WriteCpsr, AccessVic, AccessDevice, ReadHalt, ReadStandby,
       WriteSysSWLock, WriteDeviceCfg, FailLockableWrite, Access

\* Only Detach changes the block mode.
LEMMA BlockingType == TypeOK /\ [Next]_vars => blocking' \in BOOLEAN
<1> SUFFICES ASSUME TypeOK, [Next]_vars PROVE blocking' \in BOOLEAN
  OBVIOUS
<1>1. CASE Edit
  BY <1>1, EditAccess, AccessEffect DEF TypeOK
<1>. QED  BY <1>1 DEF TypeOK, Next, Step, Detach, vars

LEMMA TypeStep == TypeOK /\ [Next]_vars => TypeOK'
<1> SUFFICES ASSUME TypeOK, [Next]_vars PROVE TypeOK'
  OBVIOUS
<1>0. blocking' \in BOOLEAN
  BY BlockingType
<1>a. Access => /\ pc \in {"step", "insn"} /\ pc' = pc
                /\ accesses' \in 0..MaxAccesses /\ touched' \in BOOLEAN
  BY AccessEffect
<1> USE <1>0 DEF TypeOK, Pcs
<1>1. CASE UNCHANGED vars
  BY <1>1 DEF vars, cpu, syscon, devices, VicTypeOK
<1>2. CASE WriteCpsr \/ ReadHalt \/ ReadStandby \/ WriteSysSWLock
  BY <1>2, <1>a DEF WriteCpsr, ReadHalt, ReadStandby, WriteSysSWLock,
                    cpu, syscon, devices, VicTypeOK
<1>3. CASE AccessVic
  <2>1. Access /\ \E mask : WritesVic(mask)
    BY <1>3 DEF AccessVic, Access
  <2>2. VicTypeOK'
    BY <2>1, WritesVicEffect
  <2>. QED  BY <1>3, <1>a, <2>1, <2>2 DEF AccessVic, cpu, syscon, devices
<1>4. ASSUME NEW i \in Devices, AccessDevice(i) PROVE TypeOK'
  <2>1. \E l \in BOOLEAN : Send(i, l)
    BY <1>4 DEF AccessDevice
  <2>. QED  BY <1>4, <1>a, <2>1, SendType
            DEF AccessDevice, cpu, syscon, VicTypeOK
<1>5. ASSUME NEW v \in CfgVals, WriteDeviceCfg(v) PROVE TypeOK'
  BY <1>5, <1>a DEF WriteDeviceCfg, cpu, devices, VicTypeOK
<1>6. CASE FailLockableWrite
  BY <1>6, <1>a DEF FailLockableWrite, cpu, devices, VicTypeOK
<1>7. CASE \/ Begin \/ EndInstruction \/ FatalAccess
           \/ EnterHalt \/ FatalStandby
  <2>1. accesses' \in 0..MaxAccesses /\ pc' \in Pcs
    BY <1>7 DEF Begin, EndInstruction, FatalAccess, EnterHalt, FatalStandby
  <2>. QED  BY <1>7, <2>1 DEF Begin, EndInstruction, FatalAccess, EnterHalt,
                              FatalStandby, cpu, syscon, devices, VicTypeOK
<1>8. CASE Recv \/ DrainOne
  <2>1. TakeMessage
    BY <1>8 DEF Recv, DrainOne
  <2>. QED  BY <1>8, <2>1, TakeMessageType
            DEF Recv, DrainOne, TakeMessage, cpu, syscon
<1>9. CASE EndRun
  BY <1>9, SignalType DEF EndRun, syscon, devices, VicTypeOK
<1>10. CASE EndHalt
  BY <1>10, SignalType DEF EndHalt, devices, VicTypeOK
<1>11. ASSUME NEW i \in Devices, DeviceRaises(i) PROVE TypeOK'
  BY <1>11, SendType DEF DeviceRaises, cpu, syscon, VicTypeOK
<1>12. CASE Stopped /\ UNCHANGED vars
  BY <1>1, <1>12
<1>13. CASE Detach
  BY <1>13 DEF Detach, cpu, syscon, devices, VicTypeOK
<1>. QED
  BY <1>1, <1>2, <1>3, <1>4, <1>5, <1>6, <1>7, <1>8, <1>9, <1>10, <1>11,
     <1>12, <1>13
  DEF Next, Step, Edit, Check

LEMMA TypeInit == Init => TypeOK
<1> SUFFICES ASSUME Init PROVE TypeOK
  OBVIOUS
<1>1. VicTypeOK
  BY DEF Init, VicInit, VicTypeOK, VicBank, VectorEntry, Sources
<1>2. <<>> \in Seq(Message)
  OBVIOUS
<1>3. blocking \in BOOLEAN /\ accesses \in 0..MaxAccesses
  BY DEF Init
<1>4. line \in [Devices -> BOOLEAN]
  BY DEF Init
<1>. QED  BY <1>1, <1>2, <1>3, <1>4 DEF Init, TypeOK, Pcs

\* Every variable keeps its type: in particular every interrupt of the bus
\* reaches a bank that exists, where bank() would panic, and one of its bits.
THEOREM TypeCorrect == Spec => []TypeOK
BY TypeInit, TypeStep, PTL DEF Spec

-----------------------------------------------------------------------------
(***************************************************************************)
(* Exceptions.                                                             *)
(***************************************************************************)

\* Only the end of a step leads to the next one, and what it owes is what it
\* has just signalled.
LEMMA SignalPays ==
  ASSUME Signal, UNCHANGED vic
  PROVE  (AnyFiq(vic) => mask_f)' /\ (AnyIrq(vic) => mask_i)'
<1>1. AnyFiq(vic') <=> AnyFiq(vic)
  OBVIOUS
<1>2. AnyIrq(vic') <=> AnyIrq(vic)
  OBVIOUS
<1>. QED  BY <1>1, <1>2 DEF Signal

\* Between two instructions no unmasked interrupt is left untaken: what is
\* pending and not masked there has been put there by the GDB client.
THEOREM NoneOwed == Spec => []NoExceptionOwed
<1>1. Init => NoExceptionOwed
  BY DEF Init, NoExceptionOwed
<1>2. TypeOK /\ NoExceptionOwed /\ [Next]_vars => NoExceptionOwed'
  <2> SUFFICES ASSUME TypeOK, NoExceptionOwed, [Next]_vars
               PROVE  NoExceptionOwed'
    OBVIOUS
  <2>1. CASE UNCHANGED <<pc, vic, mask_i, mask_f, touched>>
    BY <2>1 DEF NoExceptionOwed
  <2>2. CASE pc' # "step" \/ touched'
    BY <2>2 DEF NoExceptionOwed
  <2>3. CASE Signal /\ UNCHANGED vic
    BY <2>3, SignalPays DEF NoExceptionOwed
  <2>4. CASE Edit
    BY <2>2, <2>4, EditAccess, AccessEffect
  <2>5. CASE \/ Begin \/ EndInstruction \/ FatalAccess
             \/ EnterHalt \/ Recv \/ DrainOne \/ FatalStandby
    <3>1. pc' # "step"
      BY <2>5 DEF Begin, EndInstruction, FatalAccess, EnterHalt, Recv, DrainOne,
                  FatalStandby
    <3>. QED  BY <2>2, <3>1
  <2>6. CASE EndRun \/ EndHalt
    BY <2>3, <2>6 DEF EndRun, EndHalt
  <2>7. ASSUME NEW i \in Devices, DeviceRaises(i) PROVE NoExceptionOwed'
    BY <2>1, <2>7 DEF DeviceRaises, cpu
  <2>8. CASE Detach
    BY <2>1, <2>8 DEF Detach, cpu
  <2>. QED
    BY <2>1, <2>4, <2>5, <2>6, <2>7, <2>8 DEF Next, Step, Check, vars, cpu
<1>. QED  BY <1>1, <1>2, TypeCorrect, PTL DEF Spec

-----------------------------------------------------------------------------
(***************************************************************************)
(* The interrupt path.  VicSeesDevices speaks of an empty bus only; while  *)
(* messages are under way the last one of each device carries its level.   *)
(***************************************************************************)
PathInv ==
  /\ \A i \in 1..Len(bus) :
       (\A j \in (i + 1)..Len(bus) : bus[j].int # bus[i].int)
         => (bus[i].level <=> line[bus[i].int])
  /\ \A d \in Devices :
       (\A i \in 1..Len(bus) : bus[i].int # d)
         => (Index(d) \in vic[Bank(d)].status <=> line[d])
  /\ \A b \in Banks : vic[b].status \subseteq Wired(b)

LEMMA SendKeepsPath ==
  ASSUME TypeOK, PathInv, NEW i \in Devices, NEW l \in BOOLEAN, Send(i, l),
         \A b \in Banks : vic'[b].status = vic[b].status
  PROVE  PathInv'
<1> DEFINE m == [int |-> i, level |-> l]
<1>1. /\ bus \in Seq(Message) /\ bus' = Append(bus, m)
      /\ line' = [line EXCEPT ![i] = l] /\ line \in [Devices -> BOOLEAN]
  BY DEF TypeOK, Send
<1>2. /\ Len(bus) \in Nat /\ Len(bus') = Len(bus) + 1
      /\ \A k \in 1..Len(bus) : bus'[k] = bus[k]
      /\ bus'[Len(bus) + 1] = m
  BY <1>1
<1>3. ASSUME NEW k \in 1..Len(bus)
      PROVE  bus[k] \in Message /\ bus[k].int \in Devices
  <2>1. bus[k] \in Message
    BY <1>1
  <2>. QED  BY <2>1 DEF Message
<1>4. m.int = i /\ m.level = l
  OBVIOUS
<1> HIDE DEF m
<1>5. ASSUME NEW k \in 1..Len(bus'),
             \A j \in (k + 1)..Len(bus') : bus'[j].int # bus'[k].int
      PROVE  bus'[k].level <=> line'[bus'[k].int]
  <2>1. CASE k = Len(bus) + 1
    BY <2>1, <1>1, <1>2, <1>4
  <2>2. CASE k # Len(bus) + 1
    <3>1. k \in 1..Len(bus) /\ Len(bus) + 1 \in (k + 1)..Len(bus')
      BY <2>2, <1>2
    <3>2. bus[k].int # i
      BY <3>1, <1>2, <1>4, <1>5
    <3>3. \A j \in (k + 1)..Len(bus) : bus[j].int # bus[k].int
      BY <3>1, <1>2, <1>5
    <3>4. bus[k].level <=> line[bus[k].int]
      BY <3>1, <3>3 DEF PathInv
    <3>. QED  BY <3>1, <3>2, <3>4, <1>1, <1>2, <1>3
  <2>. QED  BY <2>1, <2>2
<1>6. ASSUME NEW d \in Devices, \A k \in 1..Len(bus') : bus'[k].int # d
      PROVE  Index(d) \in vic'[Bank(d)].status <=> line'[d]
  <2>1. d # i
    BY <1>6, <1>2, <1>4
  <2>2. \A k \in 1..Len(bus) : bus[k].int # d
    BY <1>6, <1>2
  <2>3. Index(d) \in vic[Bank(d)].status <=> line[d]
    BY <2>2 DEF PathInv
  <2>4. Bank(d) \in Banks
    BY IndexType
  <2>. QED  BY <2>1, <2>3, <2>4, <1>1
<1>7. \A b \in Banks : vic'[b].status \subseteq Wired(b)
  BY DEF PathInv
<1>. QED  BY <1>5, <1>6, <1>7 DEF PathInv

LEMMA TakeMessageKeepsPath ==
  ASSUME TypeOK, PathInv, TakeMessage
  PROVE  PathInv'
<1> DEFINE d0 == Head(bus).int
           l0 == Head(bus).level
<1>1. /\ bus \in Seq(Message) /\ bus # <<>> /\ bus' = Tail(bus)
      /\ line' = line
  BY DEF TypeOK, TakeMessage
<1>2. /\ Len(bus) \in Nat \ {0} /\ Len(bus') = Len(bus) - 1
      /\ \A k \in 1..Len(bus') : bus'[k] = bus[k + 1]
      /\ Head(bus) = bus[1] /\ bus[1] \in Message
  BY <1>1
<1>3. d0 \in Devices /\ d0 \in Interrupt /\ l0 \in BOOLEAN
  BY <1>2 DEF Message
<1>4. Deliver(d0, l0)
  BY DEF TakeMessage
<1>5. \A b \in Banks :
        vic'[b].status = IF b # Bank(d0) THEN vic[b].status
                         ELSE IF l0 THEN vic[b].status \union {Index(d0)}
                         ELSE vic[b].status \ {Index(d0)}
  BY <1>3, <1>4, DeliverEffect DEF TypeOK
<1>6. d0 = bus[1].int /\ l0 = bus[1].level
  BY <1>2
<1> HIDE DEF d0, l0
<1>7. ASSUME NEW k \in 1..Len(bus'),
             \A j \in (k + 1)..Len(bus') : bus'[j].int # bus'[k].int
      PROVE  bus'[k].level <=> line'[bus'[k].int]
  <2>1. k + 1 \in 1..Len(bus)
    BY <1>2
  <2>2. ASSUME NEW j \in (k + 2)..Len(bus) PROVE bus[j].int # bus[k + 1].int
    <3>1. j - 1 \in (k + 1)..Len(bus') /\ j - 1 \in 1..Len(bus')
      BY <1>2
    <3>2. bus'[j - 1] = bus[j]
      BY <1>2, <3>1
    <3>. QED  BY <1>2, <1>7, <3>1, <3>2
  <2>3. bus[k + 1].level <=> line[bus[k + 1].int]
    BY <2>1, <2>2 DEF PathInv
  <2>. QED  BY <1>1, <1>2, <2>3
<1>8. ASSUME NEW d \in Devices, \A k \in 1..Len(bus') : bus'[k].int # d
      PROVE  Index(d) \in vic'[Bank(d)].status <=> line'[d]
  <2>1. ASSUME NEW k \in 2..Len(bus) PROVE bus[k].int # d
    <3>1. k - 1 \in 1..Len(bus')
      BY <1>2
    <3>2. bus'[k - 1] = bus[k]
      BY <1>2, <3>1
    <3>. QED  BY <1>8, <3>1, <3>2
  <2>2. Bank(d) \in Banks /\ d \in Interrupt
    BY IndexType
  <2>3. CASE d = d0
    <3>1. \A j \in (1 + 1)..Len(bus) : bus[j].int # bus[1].int
      BY <2>1, <2>3, <1>6
    <3>2. l0 <=> line[d0]
      BY <3>1, <1>2, <1>6 DEF PathInv
    <3>. QED  BY <2>2, <2>3, <3>2, <1>1, <1>5
  <2>4. CASE d # d0
    <3>1. \A k \in 1..Len(bus) : bus[k].int # d
      BY <2>1, <2>4, <1>2, <1>6
    <3>2. Index(d) \in vic[Bank(d)].status <=> line[d]
      BY <3>1 DEF PathInv
    <3>3. Bank(d) # Bank(d0) \/ Index(d) # Index(d0)
      BY <2>2, <2>4, <1>3, IndexInjective
    <3>4. Index(d) \in vic'[Bank(d)].status <=> Index(d) \in vic[Bank(d)].status
      <4>1. CASE Bank(d) # Bank(d0)
        BY <2>2, <4>1, <1>5
      <4>2. CASE Bank(d) = Bank(d0)
        BY <2>2, <3>3, <4>2, <1>5
      <4>. QED  BY <4>1, <4>2
    <3>. QED  BY <3>2, <3>4, <1>1
  <2>. QED  BY <2>3, <2>4
<1>9. ASSUME NEW b \in Banks PROVE vic'[b].status \subseteq Wired(b)
  <2>1. b = Bank(d0) => Index(d0) \in Wired(b)
    BY <1>3 DEF Wired
  <2>. QED  BY <2>1, <1>5 DEF PathInv
<1>. QED  BY <1>7, <1>8, <1>9 DEF PathInv

LEMMA PathInit == Init => PathInv
<1> SUFFICES ASSUME Init PROVE PathInv
  OBVIOUS
<1>1. bus = <<>> /\ Len(bus) = 0
  BY DEF Init
<1>2. \A b \in Banks : vic[b].status = {}
  BY DEF Init, VicInit
<1>3. \A d \in Devices : Bank(d) \in Banks /\ line[d] = FALSE
  BY IndexType DEF Init
<1>. QED  BY <1>1, <1>2, <1>3 DEF PathInv

LEMMA PathStep == TypeOK /\ PathInv /\ [Next]_vars => PathInv'
<1> SUFFICES ASSUME TypeOK, PathInv, [Next]_vars PROVE PathInv'
  OBVIOUS
<1>1. CASE UNCHANGED <<vic, bus, line>>
  BY <1>1 DEF PathInv
<1>2. CASE AccessVic
  <2>0. \E mask : WritesVic(mask)
    BY <1>2 DEF AccessVic
  <2>1. \A b \in Banks : vic'[b].status = vic[b].status
    BY <2>0, WritesVicEffect DEF TypeOK
  <2>2. bus' = bus /\ line' = line
    BY <1>2 DEF AccessVic, devices
  <2>3. \A d \in Devices : Bank(d) \in Banks
    BY IndexType
  <2>. QED  BY <2>1, <2>2, <2>3 DEF PathInv
<1>3. ASSUME NEW i \in Devices, AccessDevice(i) PROVE PathInv'
  <2>1. \E l \in BOOLEAN : Send(i, l)
    BY <1>3 DEF AccessDevice, TypeOK
  <2>. QED  BY <1>3, <2>1, SendKeepsPath DEF AccessDevice
<1>4. ASSUME NEW i \in Devices, DeviceRaises(i) PROVE PathInv'
  BY <1>4, SendKeepsPath DEF DeviceRaises
<1>5. CASE Recv \/ DrainOne
  BY <1>5, TakeMessageKeepsPath DEF Recv, DrainOne
<1>6. CASE WriteCpsr \/ ReadHalt \/ ReadStandby \/ WriteSysSWLock
           \/ (\E v \in CfgVals : WriteDeviceCfg(v)) \/ FailLockableWrite
  BY <1>1, <1>6 DEF WriteCpsr, ReadHalt, ReadStandby, WriteSysSWLock,
                    WriteDeviceCfg, FailLockableWrite, devices
<1>7. CASE \/ Begin \/ EndInstruction \/ FatalAccess
           \/ EnterHalt \/ FatalStandby \/ EndRun \/ EndHalt \/ Detach
  BY <1>1, <1>7 DEF Begin, EndInstruction, FatalAccess, EnterHalt,
                    FatalStandby, EndRun, EndHalt, Detach, devices
<1>. QED
  BY <1>1, <1>2, <1>3, <1>4, <1>5, <1>6, <1>7
  DEF Next, Step, Edit, Check, vars, devices

\* Once the bus is drained the VICs show exactly the interrupts that the
\* devices raise, whatever the interleaving of their threads.
THEOREM DevicesSeen == Spec => []VicSeesDevices
<1>1. TypeOK /\ PathInv => VicSeesDevices
  <2> SUFFICES ASSUME TypeOK, PathInv, bus = <<>>, NEW b \in Banks
               PROVE  vic[b].status =
                        {Index(i) : i \in {j \in Devices : Bank(j) = b /\ line[j]}}
    BY DEF VicSeesDevices
  <2>1. \A d \in Devices : Index(d) \in vic[Bank(d)].status <=> line[d]
    BY DEF PathInv
  <2>2. vic[b].status \subseteq Wired(b)
    BY DEF PathInv
  <2>. QED  BY <2>1, <2>2 DEF Wired
<1>2. Init => TypeOK /\ PathInv
  BY TypeInit, PathInit
<1>3. TypeOK /\ PathInv /\ [Next]_vars => (TypeOK /\ PathInv)'
  BY TypeStep, PathStep
<1>. QED  BY <1>1, <1>2, <1>3, PTL DEF Spec

-----------------------------------------------------------------------------
(***************************************************************************)
(* Sleep.                                                                  *)
(***************************************************************************)

\* OnlyRaisesWhileAsleep, from the step() that halts the CPU on: that one
\* returned with the bus empty.
SleepInv ==
  pc \in {"step", "recv"} /\ ~touched => \A i \in 1..Len(bus) : bus[i].level

\* Asleep, the CPU can only be woken by an interrupt that is raised, where a
\* GDB client did not have the last word: device threads never lower one, and
\* what an instruction lowers is off the bus before step() returns.
THEOREM OnlyRaises == Spec => []OnlyRaisesWhileAsleep
<1>1. Init => SleepInv
  <2>1. Init => bus = <<>> /\ Len(<<>>) = 0
    BY DEF Init
  <2>. QED  BY <2>1 DEF SleepInv
<1>2. TypeOK /\ SleepInv /\ [Next]_vars => SleepInv'
  <2> SUFFICES ASSUME TypeOK, SleepInv, [Next]_vars PROVE SleepInv'
    OBVIOUS
  <2>1. CASE UNCHANGED <<pc, bus, touched>>
    BY <2>1 DEF SleepInv
  <2>2. CASE pc' \notin {"recv", "step"} \/ touched'
    BY <2>2 DEF SleepInv
  <2>3. CASE Edit
    BY <2>2, <2>3, EditAccess, AccessEffect
  <2>4. CASE EnterHalt
    BY <2>4 DEF EnterHalt, devices, SleepInv
  <2>5. CASE \/ Begin \/ EndInstruction \/ FatalAccess
             \/ Recv \/ DrainOne \/ FatalStandby
    <3>1. pc' \notin {"recv", "step"}
      BY <2>5 DEF Begin, EndInstruction, FatalAccess, Recv, DrainOne, FatalStandby
    <3>. QED  BY <2>2, <3>1
  <2>6. CASE EndRun \/ EndHalt
    <3>1. bus' = <<>> /\ Len(bus') = 0
      BY <2>6 DEF EndRun, EndHalt, devices
    <3>. QED  BY <3>1 DEF SleepInv
  <2>7. ASSUME NEW i \in Devices, DeviceRaises(i) PROVE SleepInv'
    <3> DEFINE m == [int |-> i, level |-> TRUE]
    <3>1. bus \in Seq(Message) /\ bus' = Append(bus, m) /\ UNCHANGED <<pc, touched>>
      BY <2>7 DEF DeviceRaises, Send, TypeOK
    <3>2. m.level
      OBVIOUS
    <3> HIDE DEF m
    <3>3. ASSUME NEW k \in 1..Len(bus')
          PROVE  bus'[k] = m \/ (k \in 1..Len(bus) /\ bus'[k] = bus[k])
      BY <3>1
    <3>. QED  BY <3>1, <3>2, <3>3 DEF SleepInv
  <2>8. CASE Detach
    BY <2>1, <2>8 DEF Detach, devices
  <2>. QED
    BY <2>1, <2>3, <2>4, <2>5, <2>6, <2>7, <2>8
    DEF Next, Step, Check, vars, devices
<1>3. SleepInv => OnlyRaisesWhileAsleep
  BY DEF SleepInv, OnlyRaisesWhileAsleep
<1>. QED  BY <1>1, <1>2, <1>3, TypeCorrect, PTL DEF Spec
=============================================================================
