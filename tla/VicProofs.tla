----------------------------- MODULE VicProofs -----------------------------
(***************************************************************************)
(* Proofs about the VICs, for any number of vectors.                       *)
(***************************************************************************)
EXTENDS Vic, TLAPS, WellFoundedInduction

USE VicAssumption

\* A set of naturals has a least element: the loop over vector_entries stops.
LEMMA Least ==
  ASSUME NEW S \in SUBSET Nat, S # {}
  PROVE  \E k \in S : \A j \in S : k <= j
<1>1. PICK k \in S : \A j \in S : ~ (<<j, k>> \in OpToRel(<, Nat))
  BY NatLessThanWellFounded, WFMin
<1>2. ASSUME NEW j \in S PROVE k <= j
  <2>1. ~ (j < k)
    BY <1>1 DEF OpToRel
  <2>. QED  BY <2>1
<1>. QED  BY <1>2

\* What isr_address returns: the default register, or the first vector that
\* answers for a pending IRQ.
LEMMA IsrAddressEffect ==
  ASSUME NEW v
  PROVE  \/ IsrAddress(v) = DefVectAddr /\ (Fiq(v) \/ Answering(v) = {})
         \/ /\ IsrAddress(v) \in Answering(v) /\ ~Fiq(v)
            /\ \A j \in Answering(v) : IsrAddress(v) <= j
<1>1. CASE Fiq(v) \/ Answering(v) = {}
  BY <1>1 DEF IsrAddress
<1>2. CASE ~Fiq(v) /\ Answering(v) # {}
  <2>1. Answering(v) \in SUBSET Nat
    BY DEF Answering, Vectors
  <2>2. \E k \in Answering(v) : \A j \in Answering(v) : k <= j
    BY <1>2, <2>1, Least
  <2>3. IsrAddress(v) = CHOOSE k \in Answering(v) : \A j \in Answering(v) : k <= j
    BY <1>2 DEF IsrAddress
  <2>. QED  BY <1>2, <2>2, <2>3
<1>. QED  BY <1>1, <1>2

LEMMA DefNoVector == DefVectAddr \notin Vectors
BY DEF DefVectAddr, Vectors

LEMMA AnsweringMeansIrq ==
  ASSUME NEW v, Answering(v) # {}
  PROVE  Irq(v)
BY DEF Answering, Irq

\* The vector that VectAddr names is enabled and its interrupt is pending.
THEOREM ServesPending == VicSpec => []VectorIsPending
<1>1. VectorIsPending
  <2> DEFINE b == VectAddr(vic)[1]
             k == VectAddr(vic)[2]
  <2>1. k = IsrAddress(vic[b]) \/ k = DefVectAddr
    BY DEF VectAddr
  <2>2. k \in Vectors => k \in Answering(vic[b])
    BY <2>1, IsrAddressEffect, DefNoVector
  <2>. QED  BY <2>2 DEF VectorIsPending, Answering
<1>. QED  BY <1>1, PTL

\* VectAddr names the vector of highest priority over both banks.
THEOREM ServesHighest == VicSpec => []VectAddrServesHighest
<1>1. VectAddrServesHighest
  <2> SUFFICES ASSUME AllVectored, AllAnswering # {}
               PROVE  /\ VectAddr(vic) \in AllAnswering
                      /\ \A p \in AllAnswering :
                           LET q == VectAddr(vic)
                           IN  q[1] < p[1] \/ (q[1] = p[1] /\ q[2] <= p[2])
    BY DEF VectAddrServesHighest
  <2>1. \A b \in Banks : Irq(vic[b]) => Answering(vic[b]) # {}
    BY DEF AllVectored, Irq
  <2>2. \A b \in Banks : Answering(vic[b]) # {} =>
          /\ IsrAddress(vic[b]) \in Answering(vic[b])
          /\ \A j \in Answering(vic[b]) : IsrAddress(vic[b]) <= j
    BY IsrAddressEffect DEF AllVectored
  <2>3. \A b \in Banks : Answering(vic[b]) \subseteq Vectors
    BY DEF Answering
  <2>4. CASE Irq(vic[1])
    <3>1. VectAddr(vic) = <<1, IsrAddress(vic[1])>>
      BY <2>4 DEF VectAddr
    <3>2. /\ IsrAddress(vic[1]) \in Answering(vic[1])
          /\ \A j \in Answering(vic[1]) : IsrAddress(vic[1]) <= j
      BY <2>1, <2>2, <2>4 DEF Banks
    <3>3. VectAddr(vic) \in AllAnswering
      BY <2>3, <3>1, <3>2 DEF AllAnswering, Banks
    <3>4. \A p \in AllAnswering : p[1] \in {1, 2} /\ p[2] \in Answering(vic[p[1]])
      BY DEF AllAnswering, Banks
    <3>. QED  BY <3>1, <3>2, <3>3, <3>4
  <2>5. CASE ~Irq(vic[1])
    <3>1. Answering(vic[1]) = {}
      BY <2>5, AnsweringMeansIrq
    <3>2. \A p \in AllAnswering : p[1] = 2 /\ p[2] \in Answering(vic[2])
      BY <3>1 DEF AllAnswering, Banks
    <3>3. Answering(vic[2]) # {} /\ Irq(vic[2])
      BY <3>2, AnsweringMeansIrq
    <3>4. VectAddr(vic) = <<2, IsrAddress(vic[2])>>
      BY <2>5, <3>3 DEF VectAddr
    <3>5. /\ IsrAddress(vic[2]) \in Answering(vic[2])
          /\ \A j \in Answering(vic[2]) : IsrAddress(vic[2]) <= j
      BY <2>2, <3>3 DEF Banks
    <3>6. VectAddr(vic) \in AllAnswering
      BY <2>3, <3>4, <3>5 DEF AllAnswering, Banks
    <3>. QED  BY <3>2, <3>4, <3>5, <3>6
  <2>. QED  BY <2>4, <2>5
<1>. QED  BY <1>1, PTL
=============================================================================
