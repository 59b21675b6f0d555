-------------------------------- MODULE Vic --------------------------------
(***************************************************************************)
(* The vectored interrupt controllers: VicManager, its two Vic banks and   *)
(* the interrupts wired to them (src/devices/vic).  A register of 32 bits  *)
(* is the set of the sources whose bit is set.                             *)
(*                                                                         *)
(* VectAddrX and DefVectAddr only store what the guest writes, so a read   *)
(* of VectAddr is modelled by the register whose content it returns.       *)
(***************************************************************************)
EXTENDS Integers

CONSTANTS
  NumVectors,    \* vector_entries per bank: 16 in the code
  Devices,       \* the interrupts whose devices are modelled
  SoftSources,   \* the sources the guest raises by SoftInt
  CntlVals       \* [source, enabled] written to VectCntlX

Sources == 0..31

\* Interrupt::overall_index.
OverallIndex ==
  [Tc1Ui |-> 4, Tc2Ui |-> 5,
   Uart1RxIntr1 |-> 23, Uart1TxIntr1 |-> 24,
   Uart2RxIntr2 |-> 25, Uart2TxIntr2 |-> 26,
   Uart3RxIntr3 |-> 27, Uart3TxIntr3 |-> 28,
   Tc3Ui |-> 51, IntUart1 |-> 52, IntUart2 |-> 54, IntUart3 |-> 55]

Interrupt == DOMAIN OverallIndex

Banks == {1, 2}

Bank(i) == IF OverallIndex[i] < 32 THEN 1 ELSE 2

\* Mutant: the bank's base is not taken off.
IndexOverall(i) == OverallIndex[i]

\* overall_index() & !0x20
Index(i) == OverallIndex[i] % 32

Vectors == 0..(NumVectors - 1)

VectorEntry == [source : Sources, enabled : BOOLEAN]

VicBank ==
  [status  : SUBSET Sources,       \* raised by a device
   enabled : SUBSET Sources,
   select  : SUBSET Sources,       \* FIQ rather than IRQ
   soft    : SUBSET Sources,       \* raised by SoftInt
   vectors : [Vectors -> VectorEntry]]

ASSUME VicAssumption ==
  /\ NumVectors \in Nat \ {0}
  /\ Devices \subseteq Interrupt
  /\ SoftSources \subseteq Sources
  /\ CntlVals \subseteq VectorEntry

-----------------------------------------------------------------------------
(***************************************************************************)
(* One bank.                                                               *)
(***************************************************************************)
RawStatus(v) == v.soft \union v.status

Active(v) == RawStatus(v) \intersect v.enabled

Irqs(v) == Active(v) \ v.select
Fiqs(v) == Active(v) \intersect v.select

Irq(v) == Irqs(v) # {}
Fiq(v) == Fiqs(v) # {}

\* Vectors that would answer for a pending IRQ.
Answering(v) ==
  {k \in Vectors : v.vectors[k].enabled /\ v.vectors[k].source \in Irqs(v)}

DefVectAddr == NumVectors   \* stands for the default register

\* Mutant: a disabled vector answers.
IsrAddressAnyVector(v) ==
  LET A == {k \in Vectors : v.vectors[k].source \in Irqs(v)}
  IN  IF Fiq(v) \/ A = {}
      THEN DefVectAddr ELSE CHOOSE k \in A : \A j \in A : k <= j

\* isr_address: the first vector that answers.
IsrAddress(v) ==
  IF Fiq(v) \/ Answering(v) = {}
  THEN DefVectAddr
  ELSE CHOOSE k \in Answering(v) : \A j \in Answering(v) : k <= j

-----------------------------------------------------------------------------
(***************************************************************************)
(* Both banks.                                                             *)
(***************************************************************************)
\* Mutant: only VIC1 is looked at.
AnyFiqVic1(m) == Fiq(m[1])

AnyIrq(m) == \E b \in Banks : Irq(m[b])
AnyFiq(m) == \E b \in Banks : Fiq(m[b])

\* Mutant: VIC2 comes first.
VectAddrVic2First(m) ==
  IF Irq(m[2]) THEN <<2, IsrAddress(m[2])>>
  ELSE IF Irq(m[1]) THEN <<1, IsrAddress(m[1])>>
  ELSE <<1, DefVectAddr>>

\* A read of VIC1's VectAddr: the daisy chain.
VectAddr(m) ==
  IF Irq(m[1]) THEN <<1, IsrAddress(m[1])>>
  ELSE IF Irq(m[2]) THEN <<2, IsrAddress(m[2])>>
  ELSE <<1, DefVectAddr>>

-----------------------------------------------------------------------------
VARIABLE vic   \* the two banks

VicInit ==
  vic = [b \in Banks |->
           [status |-> {}, enabled |-> {}, select |-> {}, soft |-> {},
            vectors |-> [k \in Vectors |-> [source |-> 0, enabled |-> FALSE]]]]

\* assert_interrupt and clear_interrupt, for one message of the bus.
Deliver(i, level) ==
  vic' = [vic EXCEPT ![Bank(i)].status =
            IF level THEN @ \union {Index(i)} ELSE @ \ {Index(i)}]

\* The sources of bank b that a device is wired to: the guest writes no others.
Wired(b) == {Index(i) : i \in {j \in Devices : Bank(j) = b}}

WriteIntSelect(b, x)    == vic' = [vic EXCEPT ![b].select = x]
WriteIntEnable(b, x)    == vic' = [vic EXCEPT ![b].enabled = x]
WriteIntEnClear(b, x)   == vic' = [vic EXCEPT ![b].enabled = @ \ x]
WriteSoftInt(b, x)      == vic' = [vic EXCEPT ![b].soft = @ \union x]
WriteSoftIntClear(b, x) == vic' = [vic EXCEPT ![b].soft = @ \ x]
WriteVectCntl(b, k, c)  == vic' = [vic EXCEPT ![b].vectors[k] = c]

\* Any of the registers; of the bits, those of mask may be set.
WritesVic(mask) ==
  \E b \in Banks :
    \/ \E x \in SUBSET (Wired(b) \intersect mask) :
         \/ WriteIntSelect(b, x)
         \/ WriteIntEnable(b, x)
         \/ WriteIntEnClear(b, x)
         \/ x \subseteq SoftSources /\ WriteSoftInt(b, x)
         \/ WriteSoftIntClear(b, x)
    \/ \E k \in Vectors, c \in CntlVals : WriteVectCntl(b, k, c)

VicNext ==
  \/ \E i \in Devices, level \in BOOLEAN : Deliver(i, level)
  \/ WritesVic(Sources)

VicSpec == VicInit /\ [][VicNext]_vic

-----------------------------------------------------------------------------
VicTypeOK == vic \in [Banks -> VicBank]

\* The (bank, vector) pairs that answer for some pending IRQ.
AllAnswering == {p \in Banks \X Vectors : p[2] \in Answering(vic[p[1]])}

\* Every pending IRQ has a vector, and no FIQ is pending.
AllVectored ==
  \A b \in Banks :
    /\ ~Fiq(vic[b])
    /\ \A s \in Irqs(vic[b]) :
         \E k \in Answering(vic[b]) : vic[b].vectors[k].source = s

\* "Vectored Interrupt Support (caution: not very well tested)", "Correct
\* daisy-chaining behavior" (README.md:96-97): a kernel that gives every
\* interrupt it enables a vector reads in VectAddr the vector of highest
\* priority, VIC1 before VIC2 and low vectors first, whatever order sources
\* were raised, selected and enabled in.
VectAddrServesHighest ==
  AllVectored /\ AllAnswering # {} =>
    /\ VectAddr(vic) \in AllAnswering
    /\ \A p \in AllAnswering :
         LET q == VectAddr(vic)
         IN  q[1] < p[1] \/ (q[1] = p[1] /\ q[2] <= p[2])

\* The vector that VectAddr names is never one whose interrupt is not pending:
\* a handler entered through it finds its own device at fault.
VectorIsPending ==
  LET q == VectAddr(vic)
  IN  q[2] \in Vectors =>
        /\ vic[q[1]].vectors[q[2]].enabled
        /\ vic[q[1]].vectors[q[2]].source \in Irqs(vic[q[1]])
=============================================================================
