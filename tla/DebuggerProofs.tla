--------------------------- MODULE DebuggerProofs ---------------------------
(***************************************************************************)
(* Debugger for every value of its constants: any program, any registers,  *)
(* any number of accesses in an instruction, of break- and watchpoints and *)
(* of instructions between two looks for Ctrl-C.                           *)
(***************************************************************************)
EXTENDS DebuggerProperties, WellFoundedInduction, TLAPS

USE MemoryAssumption, DebuggerAssumption

-----------------------------------------------------------------------------
(***************************************************************************)
(* One access.                                                             *)
(***************************************************************************)

\* Every register answers an access with an outcome.
LEMMA RegisterAnswers ==
  ASSUME NEW kind \in RegisterKinds \ {"absent"}
  PROVE  OnRead[kind] \in Outcomes /\ OnWrite[kind] \in Outcomes
BY DEF RegisterKinds, OnRead, OnWrite, Outcomes

LEMMA OutcomeType ==
  ASSUME NEW asan \in BOOLEAN, NEW i, NEW a \in Access
  PROVE  Outcome(asan, i, a) \in Outcomes
<1>1. ReadRam(i, a) \in Outcomes /\ "Ok" \in Outcomes
  BY DEF ReadRam, Outcomes
<1>2. OfDevice(a) \in Outcomes
  <2> DEFINE base == a.addr - (a.addr % 4)
  <2>1. CASE Unmapped(base)
    BY <2>1 DEF OfDevice, Outcomes
  <2>2. CASE ~Unmapped(base)
    <3>1. Register[base] \in RegisterKinds \ {"absent"}
      BY <2>2 DEF Unmapped
    <3>2. /\ OnRead[Register[base]] \in Outcomes
          /\ OnWrite[Register[base]] \in Outcomes
      BY <3>1, RegisterAnswers
    <3> HIDE DEF base
    <3>. QED  BY <2>2, <3>2 DEF OfDevice, Outcomes, base
  <2>. QED  BY <2>1, <2>2
<1>. QED  BY <1>1, <1>2 DEF Outcome

\* A read in its natural alignment that starts with a byte nobody has
\* written is answered with Uninit (Ram::r8, r16, r32).
LEMMA BlindIsUninit ==
  ASSUME NEW i, NEW a \in Access, a.op = "read", InRam(a.addr),
         a.addr % a.size = 0, a.addr \notin i
  PROVE  Outcome(TRUE, i, a) = "Uninit"
<1>1. a.size \in {1, 2, 4} /\ a.addr \in Nat
  BY DEF Access
<1>2. a.addr \in Bytes(a)
  BY <1>1 DEF Bytes
<1>3. a.size = 4 => a.addr - (a.addr % 4) = a.addr
  BY <1>1
<1>4. ReadRam(i, a) = "Uninit"
  BY <1>2, <1>3 DEF ReadRam
<1>. QED  BY <1>4 DEF Outcome

LEMMA PowerAfterType ==
  ASSUME NEW p \in {"Run", "Halt", "Standby"}, NEW a
  PROVE  PowerAfter(p, a) \in {"Run", "Halt", "Standby"}
BY DEF PowerAfter

\* What an access adds to the initialised RAM lies within it.
LEMMA InitAfterType ==
  ASSUME NEW i \in SUBSET (0..(RamSize - 1)), NEW a \in Access,
         a.op = "write" /\ InRam(a.addr) => Bytes(a) \subseteq 0..(RamSize - 1)
  PROVE  InitAfter(i, a) \in SUBSET (0..(RamSize - 1))
BY DEF InitAfter

-----------------------------------------------------------------------------
(***************************************************************************)
(* The lists of break- and watchpoints.                                    *)
(***************************************************************************)

\* RemoveFirst finds a first place because the places are well-ordered.
LEMMA FirstPlace ==
  ASSUME NEW S \in SUBSET Nat, S # {}
  PROVE  Min(S) \in S
<1>1. PICK k \in S : \A j \in S : ~ (<<j, k>> \in OpToRel(<, Nat))
  BY NatLessThanWellFounded, WFMin
<1>2. ASSUME NEW j \in S PROVE k <= j
  <2>1. ~ (j < k)
    BY <1>1 DEF OpToRel
  <2>. QED  BY <2>1
<1>3. \E x \in S : \A y \in S : x =< y
  BY <1>2
<1>. QED  BY <1>3 DEF Min

LEMMA RemoveFirstType ==
  ASSUME NEW s \in Seq(Nat), NEW e
  PROVE  RemoveFirst(s, e) \in Seq(Nat)
<1>1. CASE \E i \in 1..Len(s) : s[i] = e
  <2> DEFINE I == {i \in 1..Len(s) : s[i] = e}
             k == Min(I)
  <2>1. I \in SUBSET Nat /\ I # {}
    BY <1>1
  <2>2. k \in 1..Len(s)
    BY <2>1, FirstPlace
  <2>3. RemoveFirst(s, e) = SubSeq(s, 1, k - 1) \o SubSeq(s, k + 1, Len(s))
    BY <1>1, <2>1 DEF RemoveFirst, RemoveAt, SelectInSeq
  <2> HIDE DEF k
  <2>4. SubSeq(s, 1, k - 1) \in Seq(Nat)
    BY <2>2
  <2>5. SubSeq(s, k + 1, Len(s)) \in Seq(Nat)
    BY <2>2
  <2>6. ASSUME NEW x \in Seq(Nat), NEW y \in Seq(Nat)
        PROVE  x \o y \in Seq(Nat)
    OBVIOUS
  <2>. QED  BY <2>3, <2>4, <2>5, <2>6
<1>2. CASE ~ \E i \in 1..Len(s) : s[i] = e
  BY <1>2 DEF RemoveFirst
<1>. QED  BY <1>1, <1>2

-----------------------------------------------------------------------------
(***************************************************************************)
(* The invariant.  Beside the type and UninitIsTold, what an instruction   *)
(* has been seen to do is what will be reported; and a guest that the      *)
(* client has resumed stands on no breakpoint, unless it stands where it   *)
(* was resumed or woken.                                                   *)
(***************************************************************************)
SeenInv ==
  /\ insn.seen # {} => insn.hit \in insn.seen
  /\ \A e \in insn.seen : e.op \in {"read", "write"}

StandsInv ==
  /\ mode \in {"stopped", "fatal"} => fresh
  /\ mode \in {"step", "continue"} => fresh \/ pc \notin Range(breakpoints)

Inv == TypeOK /\ UninitIsTold /\ SeenInv /\ StandsInv

LEMMA NoInsnType == NoInsn \in Instruction /\ None \in Events
<1>1. None \in Events
  BY DEF None, Plain, Events
<1>2. {} \in SUBSET Events
  OBVIOUS
<1>. QED  BY <1>1, <1>2 DEF NoInsn, Instruction, Outcomes

LEMMA InvInit == Init => Inv
<1> SUFFICES ASSUME Init PROVE Inv
  OBVIOUS
<1>1. <<>> \in Seq(Nat)
  OBVIOUS
<1>2. TypeOK
  <2>1. init \subseteq 0..(RamSize - 1) /\ pc \in Pcs
    BY DEF Init
  <2>2. breakpoints \in Seq(Nat) /\ watchpoints \in Seq(Nat)
    BY <1>1 DEF Init
  <2>3. 0 \in 0..(CheckEvery - 1)
    OBVIOUS
  <2>4. {frozen, port, link, wish, dumped, fresh} \subseteq BOOLEAN
    BY DEF Init
  <2>. QED  BY <2>1, <2>2, <2>3, <2>4, NoInsnType DEF Init, TypeOK
<1>3. insn.seen = {} /\ ~insn.blind
  BY DEF Init, NoInsn
<1>. QED  BY <1>2, <1>3 DEF Inv, SeenInv, StandsInv, UninitIsTold, Init

\* What resume and run make of the end of a step: the client that is told is
\* told the event, and only a Continue without an event goes on.
LEMMA ReturnsEffect ==
  ASSUME TypeOK, Running,
         NEW event \in Events, NEW passed \in BOOLEAN,
         Returns(event, passed)
  PROVE  /\ cycles' \in 0..(CheckEvery - 1) /\ told' \in Events
         /\ wish' \in BOOLEAN /\ fresh' \in BOOLEAN
         /\ mode' \in {"run", "stopped", "continue", "ended"}
         /\ wish' => mode' = "continue"
         /\ mode' = "stopped" => fresh'
         /\ mode' = "run" => mode = "run"
         /\ mode' = "continue" =>
              mode = "continue" /\ event = None /\ fresh' = passed
         /\ mode # "run" /\ event # None => told' = event \/ mode' = "ended"
<1>1. cycles \in Nat /\ CheckEvery \in Nat /\ CheckEvery > 0
  BY DEF TypeOK
<1>2. \A x \in Nat, n \in Nat : n > 0 => x % n \in 0..(n - 1)
  OBVIOUS
<1>3. Count \in 0..(CheckEvery - 1) /\ 0 \in 0..(CheckEvery - 1)
  BY <1>1, <1>2 DEF Count
<1>4. Plain("DoneStep") \in Events /\ Plain("GdbInterrupt") \in Events
  BY DEF Plain, Events
<1>5. /\ told \in Events /\ wish \in BOOLEAN /\ fresh \in BOOLEAN
      /\ cycles \in 0..(CheckEvery - 1)
      /\ wish => mode = "continue"
      /\ mode \in {"step", "continue", "run"}
  BY DEF TypeOK, Running
<1>6. CASE mode = "run"
  BY <1>5, <1>6 DEF Returns
<1>7. ASSUME NEW reason \in Events, Stop(reason), mode # "run",
             event # None => reason = event
      PROVE  /\ cycles' = 0 /\ told' = reason /\ ~wish' /\ fresh' = TRUE
             /\ wish' = FALSE
             /\ mode' \in {"stopped", "ended"}
  BY <1>7 DEF Stop
<1>8. CASE mode = "step"
  BY <1>3, <1>4, <1>5, <1>7, <1>8 DEF Returns
<1>9. CASE mode = "continue" /\ event # None
  BY <1>3, <1>5, <1>7, <1>9 DEF Returns
<1>10. CASE mode = "continue" /\ event = None
  BY <1>3, <1>4, <1>5, <1>7, <1>10 DEF Returns
<1>. QED  BY <1>5, <1>6, <1>8, <1>9, <1>10

LEMMA FailsEffect ==
  ASSUME Fails
  PROVE  /\ cycles' \in 0..(CheckEvery - 1) /\ told' \in Events
         /\ wish' = FALSE /\ fresh' = TRUE /\ mode' = "fatal"
BY NoInsnType DEF Fails

-----------------------------------------------------------------------------
(***************************************************************************)
(* Every step keeps the invariant.                                         *)
(***************************************************************************)

\* One access of an instruction.
LEMMA AccessKeeps ==
  ASSUME Inv, Running, ~frozen, insn.n < MaxAccesses, NEW a \in Access,
         a.op = "write" /\ InRam(a.addr) => Bytes(a) \subseteq 0..(RamSize - 1),
         Accessing(a)
  PROVE  Inv'
<1> DEFINE outcome == Outcome(~NoAsanRam, init, a)
           watched == outcome = "Ok" /\ a.addr \in Range(watchpoints)
           seen    == insn.seen \cup (IF watched THEN {Watched(a)} ELSE {})
           hit     == IF watched THEN Watched(a) ELSE insn.hit
           exc     == IF outcome = "Ok" THEN insn.exc ELSE outcome
           blind   == (insn.blind /\ outcome = "Ok") \/ Blind(a)
<1> USE DEF Inv
<1>1. /\ insn.n \in 0..MaxAccesses /\ insn.exc \in Outcomes
      /\ insn.hit \in Events /\ insn.seen \subseteq Events
      /\ insn.blind \in BOOLEAN
  BY DEF TypeOK, Instruction
<1>2. outcome \in Outcomes
  BY OutcomeType
<1>3. Watched(a) \in Events /\ Watched(a).op \in {"read", "write"}
  BY DEF Watched, Events, Access
<1>4. insn' = [n |-> insn.n + 1, exc |-> exc, hit |-> hit, seen |-> seen,
               blind |-> blind]
  BY DEF Accessing, Stash, Sniff
<1>5. /\ UNCHANGED <<pc, breakpoints, watchpoints, frozen, cycles, mode, told,
                     wish, fresh, port, link, dumped>>
      /\ init' = InitAfter(init, a) /\ power' = PowerAfter(power, a)
  BY DEF Accessing, points, session
<1>6. ~NoAsanRam /\ Blind(a) => outcome = "Uninit"
  BY BlindIsUninit DEF Blind
<1>7. insn.n + 1 \in 0..MaxAccesses /\ insn.n + 1 > 0
  BY <1>1
<1> HIDE DEF outcome
<1>8. exc \in Outcomes /\ hit \in Events /\ seen \subseteq Events
  BY <1>1, <1>2, <1>3
<1>9. /\ seen # {} => hit \in seen
      /\ \A e \in seen : e.op \in {"read", "write"}
  BY <1>3 DEF SeenInv
<1>10. blind /\ ~NoAsanRam => exc = "Uninit"
  <2>1. CASE Blind(a)
    BY <1>6, <2>1
  <2>2. CASE ~Blind(a)
    BY <2>2 DEF UninitIsTold
  <2>. QED  BY <2>1, <2>2
<1> HIDE DEF exc, hit, seen
<1>11. blind \in BOOLEAN
  BY DEF Blind
<1> HIDE DEF blind
<1>12. /\ insn' \in Instruction /\ insn'.n > 0
       /\ insn'.exc = exc /\ insn'.hit = hit /\ insn'.seen = seen
       /\ insn'.blind = blind
  BY <1>4, <1>7, <1>8, <1>11 DEF Instruction
<1>13. init' \subseteq 0..(RamSize - 1) /\ power' \in {"Run", "Halt", "Standby"}
  BY <1>5, InitAfterType, PowerAfterType DEF TypeOK
<1>14. TypeOK'
  BY <1>5, <1>12, <1>13 DEF TypeOK, Running
<1>. QED
  BY <1>5, <1>9, <1>10, <1>12, <1>14 DEF SeenInv, StandsInv, UninitIsTold

\* The instruction is over: what it left does not matter any more.
LEMMA NoInsnKeeps ==
  ASSUME insn' = NoInsn
  PROVE  SeenInv' /\ UninitIsTold' /\ insn' \in Instruction
BY NoInsnType DEF NoInsn, SeenInv, UninitIsTold

LEMMA StepKeeps == ASSUME Inv, Step PROVE Inv'
<1> USE DEF Inv
<1>1. CASE Fetch
  <2> DEFINE a == [op |-> "read", size |-> 4, addr |-> pc]
  <2>1. a \in Access /\ a.op # "write"
    BY DEF TypeOK, Access
  <2>2. insn.n < MaxAccesses
    BY <1>1 DEF Fetch, StepBegins, NoInsn
  <2>. QED  BY <1>1, <2>1, <2>2, AccessKeeps DEF Fetch, StepBegins
<1>2. CASE AccessMemory
  <2>1. PICK a \in Accesses : Accessing(a)
    BY <1>2 DEF AccessMemory
  <2>2. insn.n < MaxAccesses /\ insn # NoInsn
    BY <1>2 DEF AccessMemory, NoInsn
  <2>. QED  BY <2>1, <2>2, AccessKeeps DEF TypeOK
<1>3. CASE EndInFatal
  <2>1. insn # NoInsn /\ insn' = NoInsn /\ pc' \in Pcs
    BY <1>3 DEF EndInFatal, NoInsn
  <2>2. TypeOK'
    BY <1>3, <2>1, NoInsnKeeps, FailsEffect
    DEF EndInFatal, TypeOK, points, Running
  <2>. QED
    BY <1>3, <2>1, <2>2, NoInsnKeeps, FailsEffect DEF EndInFatal, StandsInv
<1>4. CASE EndInstruction
  <2>1. insn # NoInsn /\ insn' = NoInsn
    BY <1>4 DEF EndInstruction, NoInsn
  <2>2. PICK next \in Pcs, taken \in BOOLEAN :
          /\ pc' = (IF taken THEN Vector ELSE next)
          /\ Returns(EventOf(next, pc'), FALSE)
    BY <1>4 DEF EndInstruction
  <2>3. pc' \in Pcs /\ Running /\ ~frozen
    BY <2>1, <2>2 DEF TypeOK
  <2>4. EventOf(next, pc') \in Events
    BY NoInsnType DEF EventOf, TypeOK, Instruction, Plain, Events
  <2>5. EventOf(next, pc') = None => pc' \notin Range(breakpoints)
    BY DEF EventOf, None, Plain
  <2>6. UNCHANGED <<power, init, breakpoints, watchpoints, frozen, port, link,
                    dumped>>
    BY <1>4 DEF EndInstruction, points
  <2>7. TypeOK'
    BY <2>1, <2>2, <2>3, <2>4, <2>6, NoInsnKeeps, ReturnsEffect
    DEF TypeOK, Running
  <2>8. StandsInv'
    BY <2>2, <2>3, <2>4, <2>5, <2>6, ReturnsEffect DEF StandsInv
  <2>. QED  BY <2>1, <2>7, <2>8, NoInsnKeeps
<1>5. CASE HaltStep
  <2>1. /\ insn = NoInsn /\ insn' = NoInsn /\ Running
        /\ UNCHANGED <<init, breakpoints, watchpoints, frozen, port, link,
                       dumped>>
    BY <1>5 DEF HaltStep, StepBegins, points
  <2>2. fresh \in BOOLEAN
    BY DEF TypeOK
  <2>3. PICK passed \in {fresh, TRUE} :
          /\ Returns(None, passed)
          /\ \/ passed = fresh /\ pc' = pc /\ power' = power
             \/ passed = TRUE /\ pc' \in {pc, Vector} /\ power' = "Run"
    BY <1>5 DEF HaltStep
  <2>4. TypeOK'
    BY <2>1, <2>2, <2>3, NoInsnKeeps, NoInsnType, ReturnsEffect
    DEF TypeOK, Running
  <2>5. StandsInv'
    BY <2>1, <2>2, <2>3, NoInsnType, ReturnsEffect DEF StandsInv
  <2>. QED  BY <2>1, <2>4, <2>5, NoInsnKeeps
<1>6. CASE StandbyStep
  <2>1. insn = NoInsn /\ insn' = NoInsn
    BY <1>6 DEF StandbyStep, StepBegins
  <2>2. TypeOK'
    BY <1>6, <2>1, NoInsnKeeps, FailsEffect
    DEF StandbyStep, StepBegins, TypeOK, machine, points, Running
  <2>. QED
    BY <1>6, <2>1, <2>2, NoInsnKeeps, FailsEffect DEF StandbyStep, StandsInv
<1>7. CASE FrozenStep
  <2>1. /\ Running /\ frozen /\ insn' = insn /\ fresh \in BOOLEAN
        /\ Returns(None, fresh)
        /\ UNCHANGED <<pc, power, init, breakpoints, watchpoints, frozen,
                       port, link, dumped>>
    BY <1>7 DEF FrozenStep, machine, points, TypeOK
  <2>2. insn' = NoInsn
    BY <2>1 DEF TypeOK
  <2>3. TypeOK'
    BY <2>1, <2>2, NoInsnKeeps, NoInsnType, ReturnsEffect DEF TypeOK, Running
  <2>4. StandsInv'
    BY <2>1, NoInsnType, ReturnsEffect DEF StandsInv
  <2>. QED  BY <2>2, <2>3, <2>4, NoInsnKeeps
<1>. QED  BY <1>1, <1>2, <1>3, <1>4, <1>5, <1>6, <1>7 DEF Step

LEMMA MainKeeps == ASSUME Inv, Main PROVE Inv'
<1> USE DEF Inv
<1>1. /\ mode \in {"fatal", "stopped"} /\ mode' \in {"stopped", "ended"}
      /\ mode' = "stopped" => mode = "fatal" /\ frozen' = TRUE
      /\ dumped' => mode' = "ended" \/ frozen'
      /\ frozen' \in BOOLEAN /\ dumped' \in BOOLEAN
      /\ UNCHANGED <<pc, power, init, breakpoints, watchpoints, insn, cycles,
                     told, wish, fresh, port, link>>
  <2>1. frozen \in BOOLEAN /\ dumped \in BOOLEAN /\ port \in BOOLEAN
    BY DEF TypeOK
  <2>2. CASE Dump
    BY <2>1, <2>2 DEF Dump, machine, points
  <2>3. CASE DumpFails \/ SessionFails
    BY <2>1, <2>3 DEF DumpFails, SessionFails, machine, points
  <2>. QED  BY <2>2, <2>3 DEF Main
<1>2. insn = NoInsn /\ ~wish
  BY <1>1 DEF TypeOK, Running
<1>3. TypeOK'
  BY <1>1, <1>2 DEF TypeOK
<1>4. StandsInv'
  BY <1>1 DEF StandsInv
<1>. QED  BY <1>1, <1>2, <1>3, <1>4, NoInsnKeeps

\* The commands that edit the machine or the lists of points.
LEMMA EditKeeps ==
  ASSUME Inv, Commands, Quiet,
         pc' \in Pcs, power' \in {"Run", "Halt", "Standby"},
         init' \subseteq 0..(RamSize - 1),
         breakpoints' \in Seq(Nat), watchpoints' \in Seq(Nat)
  PROVE  Inv'
<1> USE DEF Inv
<1>1. /\ mode = "stopped"
      /\ UNCHANGED <<frozen, insn, cycles, mode, told, wish, fresh, port, link,
                     dumped>>
  BY DEF Commands, Quiet, session
<1>2. insn = NoInsn
  BY <1>1 DEF TypeOK, Running
<1>3. TypeOK'
  BY <1>1, <1>2 DEF TypeOK
<1>4. StandsInv'
  BY <1>1 DEF StandsInv
<1>. QED  BY <1>1, <1>2, <1>3, <1>4, NoInsnKeeps

Editing ==
  \/ \E a \in Marks :
       \/ AddBreakpoint(a) \/ RemoveBreakpoint(a)
       \/ AddWatchpoint(a) \/ RemoveWatchpoint(a)
  \/ \E a \in Pokes : ReadAddrs(a) \/ WriteAddrs(a)
  \/ WriteRegisters

LEMMA EditingKeeps == ASSUME Inv, Editing PROVE Inv'
<1>1. /\ pc \in Pcs /\ power \in {"Run", "Halt", "Standby"}
      /\ init \in SUBSET (0..(RamSize - 1))
      /\ breakpoints \in Seq(Nat) /\ watchpoints \in Seq(Nat)
  BY DEF Inv, TypeOK
<1>2. ASSUME NEW a \in Marks, AddBreakpoint(a) \/ RemoveBreakpoint(a)
      PROVE  Inv'
  <2>1. Append(breakpoints, a) \in Seq(Nat)
    BY <1>1
  <2>2. breakpoints' \in Seq(Nat)
    BY <1>1, <1>2, <2>1, RemoveFirstType DEF AddBreakpoint, RemoveBreakpoint
  <2>. QED
    BY <1>1, <1>2, <2>2, EditKeeps
    DEF AddBreakpoint, RemoveBreakpoint, machine
<1>3. ASSUME NEW a \in Marks, AddWatchpoint(a) \/ RemoveWatchpoint(a)
      PROVE  Inv'
  <2>1. Append(watchpoints, a) \in Seq(Nat)
    BY <1>1
  <2>2. watchpoints' \in Seq(Nat)
    BY <1>1, <1>3, <2>1, RemoveFirstType DEF AddWatchpoint, RemoveWatchpoint
  <2>. QED
    BY <1>1, <1>3, <2>2, EditKeeps
    DEF AddWatchpoint, RemoveWatchpoint, machine
<1>4. ASSUME NEW a \in Pokes, ReadAddrs(a)
      PROVE  Inv'
  BY <1>1, <1>4, EditKeeps, PowerAfterType DEF ReadAddrs, points
<1>5. ASSUME NEW a \in Pokes, WriteAddrs(a)
      PROVE  Inv'
  <2> DEFINE x == [op |-> "write", size |-> 1, addr |-> a]
  <2>1. x \in Access /\ x.addr = a /\ x.size = 1 /\ a \in Nat
    BY DEF Access
  <2>2. InRam(x.addr) => Bytes(x) \subseteq 0..(RamSize - 1)
    BY <2>1 DEF InRam, Bytes
  <2>3. init' \in SUBSET (0..(RamSize - 1))
    BY <1>1, <1>5, <2>1, <2>2, InitAfterType DEF WriteAddrs
  <2>. QED  BY <1>1, <1>5, <2>3, EditKeeps DEF WriteAddrs, points
<1>6. CASE WriteRegisters
  BY <1>1, <1>6, EditKeeps DEF WriteRegisters, points
<1>. QED  BY <1>2, <1>3, <1>4, <1>5, <1>6 DEF Editing

LEMMA ClientKeeps == ASSUME Inv, Client PROVE Inv'
<1> USE DEF Inv
<1>1. CASE Editing
  BY <1>1, EditingKeeps
<1>2. CASE \/ \E action \in {"step", "continue"} : Resume(action)
           \/ Disconnect \/ Kill
  <2>1. /\ mode = "stopped" /\ mode' \in {"step", "continue", "run", "ended"}
        /\ dumped => mode' = "ended" \/ frozen
        /\ cycles' \in 0..(CheckEvery - 1) /\ told' \in Events
        /\ wish' \in BOOLEAN /\ fresh' \in BOOLEAN
        /\ wish' => wish
        /\ mode' \in {"step", "continue"} => fresh'
        /\ UNCHANGED <<pc, power, init, breakpoints, watchpoints, frozen, insn,
                       port, link, dumped>>
    <3>1. /\ wish \in BOOLEAN /\ fresh \in BOOLEAN /\ dumped \in BOOLEAN
          /\ told \in Events /\ cycles \in 0..(CheckEvery - 1)
          /\ dumped => mode = "ended" \/ frozen
      BY DEF TypeOK
    <3>2. 0 \in 0..(CheckEvery - 1)
      OBVIOUS
    <3>3. CASE \E action \in {"step", "continue"} : Resume(action)
      BY <3>1, <3>2, <3>3, NoInsnType DEF Resume, Commands, machine, points
    <3>4. CASE Disconnect
      BY <3>1, <3>4, NoInsnType DEF Disconnect, Commands, machine, points
    <3>5. CASE Kill
      BY <3>1, <3>5 DEF Kill, Commands, machine, points
    <3>. QED  BY <1>2, <3>3, <3>4, <3>5
  <2>2. insn = NoInsn /\ ~wish
    BY <2>1 DEF TypeOK, Running
  <2>3. TypeOK'
    BY <2>1, <2>2 DEF TypeOK
  <2>4. StandsInv'
    BY <2>1 DEF StandsInv
  <2>. QED  BY <2>1, <2>2, <2>3, <2>4, NoInsnKeeps
<1>3. CASE Interrupt \/ HangUp
  <2>1. /\ UNCHANGED <<pc, power, init, breakpoints, watchpoints, frozen, insn,
                       cycles, mode, told, fresh, port, dumped>>
        /\ wish' \in BOOLEAN /\ link' \in BOOLEAN
        /\ wish' => mode = "continue"
    <3>1. /\ wish \in BOOLEAN /\ link \in BOOLEAN
          /\ wish => mode = "continue"
      BY DEF TypeOK
    <3>2. CASE Interrupt
      BY <3>1, <3>2 DEF Interrupt, machine, points
    <3>3. CASE HangUp
      BY <3>1, <3>3 DEF HangUp, machine, points, session
    <3>. QED  BY <1>3, <3>2, <3>3
  <2>2. TypeOK'
    BY <2>1 DEF TypeOK, Running
  <2>. QED  BY <2>1, <2>2 DEF SeenInv, UninitIsTold, StandsInv
<1>. QED  BY <1>1, <1>2, <1>3 DEF Client, Editing

LEMMA InvStep == Inv /\ [Next]_vars => Inv'
<1> SUFFICES ASSUME Inv, [Next]_vars PROVE Inv'
  OBVIOUS
<1>1. CASE UNCHANGED vars
  <2>1. UNCHANGED <<pc, power, init, breakpoints, watchpoints, frozen, insn,
                    cycles, mode, told, wish, fresh, port, link, dumped>>
    BY <1>1 DEF vars, machine, points, session
  <2>. QED
    BY <2>1 DEF Inv, TypeOK, Running, UninitIsTold, SeenInv, StandsInv
<1>. QED
  BY <1>1, StepKeeps, MainKeeps, ClientKeeps DEF Next, Ended

\* What is known of main, the GDB stub and the machine between any two of their
\* steps (Inv).
THEOREM Invariance == Spec => []Inv
  BY InvInit, InvStep, PTL DEF Spec

-----------------------------------------------------------------------------
(***************************************************************************)
(* What follows from it.                                                   *)
(***************************************************************************)

\* An instruction is only ever under way in a machine that runs and is not
\* frozen, and the lists of points stay lists (main.rs, gdb.rs, mod.rs).
THEOREM TypeCorrect == Spec => []TypeOK
  BY Invariance, PTL DEF Inv

\* A read of RAM that nobody has written is the exception its instruction
\* ends with, unless a later access of the instruction fails: none succeeds
\* the warning away (armv4t_adaptor.rs:56, ram.rs:120).
THEOREM UninitTold == Spec => []UninitIsTold
  BY Invariance, PTL DEF Inv

\* The instruction that has touched a watched address ends the resume with
\* one of the accesses it made (mem_sniffer.rs:25, gdb.rs).
THEOREM WatchesReport == Spec => WatchReported
<1>1. Inv /\ [Next]_vars
        => [insn.n > 0 /\ insn' = NoInsn /\ insn.seen # {} /\ mode # "run" =>
              told' \in insn.seen \/ mode' \in {"ended", "fatal"}]_vars
  <2> SUFFICES ASSUME Inv, Next, insn.n > 0, insn' = NoInsn, insn.seen # {},
                      mode # "run"
               PROVE  told' \in insn.seen \/ mode' \in {"ended", "fatal"}
    OBVIOUS
  <2>1. insn # NoInsn /\ insn' # insn /\ Running
    BY DEF NoInsn, Inv, TypeOK
  <2>2. insn.hit \in insn.seen /\ insn.hit # None
    BY DEF Inv, SeenInv, None, Plain
  <2>3. CASE EndInFatal
    BY <2>3 DEF EndInFatal, Fails
  <2>4. CASE EndInstruction
    <3>1. PICK next \in Pcs : Returns(EventOf(next, pc'), FALSE)
      BY <2>4 DEF EndInstruction
    <3>2. EventOf(next, pc') \in {Plain("Halted"), insn.hit}
      BY <2>2 DEF EventOf
    <3>3. Plain("Halted") # None
      BY DEF Plain, None
    <3>. QED  BY <2>1, <2>2, <3>1, <3>2, <3>3 DEF Returns, Running, Stop
  <2>5. CASE Fetch \/ AccessMemory
    <3>1. insn.n \in Nat
      BY DEF Inv, TypeOK, Instruction
    <3>2. insn'.n = insn.n + 1
      BY <2>5 DEF Fetch, AccessMemory, Accessing
    <3>3. insn'.n = 0
      BY DEF NoInsn
    <3>. QED  BY <3>1, <3>2, <3>3
  <2>6. CASE HaltStep \/ StandbyStep \/ FrozenStep \/ Main \/ Client \/ Ended
    BY <2>1, <2>6
    DEF HaltStep, StandbyStep, FrozenStep, Main, Dump, DumpFails,
        SessionFails, Client, AddBreakpoint, RemoveBreakpoint, AddWatchpoint,
        RemoveWatchpoint, ReadAddrs, WriteAddrs, WriteRegisters, Resume,
        Disconnect, Kill, Interrupt, HangUp, Quiet, Ended, vars
  <2>. QED  BY <2>3, <2>4, <2>5, <2>6 DEF Next, Step
<1>. QED  BY <1>1, Invariance, PTL DEF Spec, WatchReported

-----------------------------------------------------------------------------
(***************************************************************************)
(* The target implements Debuggee.                                         *)
(***************************************************************************)

\* The variables of Debuggee, as the mapping has them.
Attached == mode # "run"
Asleep   == power = "Halt" /\ insn = NoInsn
Turn     == IF mode = "stopped" THEN "client"
            ELSE IF Running THEN "guest" ELSE "none"

LEMMA RefinementInit == Init => Is!Init
BY DEF Init, Is!Init, Running

\* An access, or the end of an instruction, is a step that Debuggee's guest
\* may execute: it is awake, and on no breakpoint but the one it was resumed
\* on.
LEMMA ExecuteRefines ==
  ASSUME Inv, Running, ~frozen, ~Asleep,
         UNCHANGED <<breakpoints, dumped>>,
         Turn' = "guest" /\ Attached /\ fresh' => fresh
  PROVE  Is!Execute
<1>1. Turn = "guest" /\ ~dumped
  BY DEF Inv, TypeOK, Turn, Running
<1>2. Attached => fresh \/ pc \notin Range(breakpoints)
  BY DEF Inv, StandsInv, Attached, Running
<1>. QED  BY <1>1, <1>2 DEF Is!Execute, Turn, Attached, Asleep, Running

LEMMA StepRefines == ASSUME Inv, Step PROVE [Is!Next]_Is!vars
<1>1. CASE Fetch \/ AccessMemory
  <2>1. Running /\ ~frozen /\ ~Asleep
    BY <1>1 DEF Fetch, AccessMemory, StepBegins, Asleep, NoInsn, Inv, TypeOK
  <2>2. UNCHANGED <<breakpoints, dumped, fresh>>
    BY <1>1 DEF Fetch, AccessMemory, Accessing, points, session
  <2>. QED  BY <2>1, <2>2, ExecuteRefines DEF Is!Next
<1>2. CASE EndInFatal
  <2>1. Running /\ ~frozen /\ ~Asleep
    BY <1>2 DEF EndInFatal, Asleep, NoInsn, Inv, TypeOK
  <2>2. UNCHANGED <<breakpoints, dumped>> /\ Turn' = "none"
    BY <1>2 DEF EndInFatal, points, Fails, Turn, Running
  <2>. QED  BY <2>1, <2>2, ExecuteRefines DEF Is!Next
<1>3. CASE EndInstruction
  <2>1. Running /\ ~frozen /\ ~Asleep
    BY <1>3 DEF EndInstruction, Asleep, NoInsn, Inv, TypeOK
  <2>2. UNCHANGED <<breakpoints, dumped>>
    BY <1>3 DEF EndInstruction, points
  <2>3. Turn' = "guest" /\ Attached /\ fresh' => fresh
    BY <1>3, <2>1 DEF EndInstruction, Returns, Stop, Turn, Attached, Running
  <2>. QED  BY <2>1, <2>2, <2>3, ExecuteRefines DEF Is!Next
<1>4. CASE HaltStep
  <2>1. Turn = "guest" /\ ~dumped /\ Asleep
    BY <1>4 DEF HaltStep, StepBegins, Turn, Asleep, Inv, TypeOK, Running
  <2>2. /\ UNCHANGED <<breakpoints, dumped>>
        /\ Asleep' => UNCHANGED <<power, init, pc>>
    BY <1>4 DEF HaltStep, points, Asleep
  <2>. QED  BY <2>1, <2>2 DEF Is!Next, Is!Wake, Turn, Asleep
<1>5. CASE StandbyStep
  <2>1. Turn' = "none"
    BY <1>5 DEF StandbyStep, Fails, Turn, Running
  <2>2. UNCHANGED <<power, init, pc, insn, breakpoints, dumped>>
    BY <1>5 DEF StandbyStep, machine, points
  <2>. QED  BY <2>1, <2>2 DEF Is!Next, Is!Stop, Is!guest, Turn
<1>6. CASE FrozenStep
  <2>1. UNCHANGED <<power, init, pc, insn, breakpoints, dumped>>
    BY <1>6 DEF FrozenStep, machine, points
  <2>2. Turn' \in {"client", "none"} \/ UNCHANGED <<mode, fresh>>
    BY <1>6 DEF FrozenStep, Returns, Stop, Turn, Running
  <2>3. CASE Turn' \in {"client", "none"}
    BY <2>1, <2>3 DEF Is!Next, Is!Stop, Is!guest, Turn
  <2>4. CASE UNCHANGED <<mode, fresh>>
    BY <2>1, <2>4 DEF Is!vars, Running
  <2>. QED  BY <2>2, <2>3, <2>4
<1>. QED  BY <1>1, <1>2, <1>3, <1>4, <1>5, <1>6 DEF Step

LEMMA MainRefines == ASSUME Inv, Main PROVE [Is!Next]_Is!vars
<1>1. UNCHANGED <<power, init, pc, insn, breakpoints>>
  BY DEF Main, Dump, DumpFails, SessionFails, machine, points
<1>2. CASE Dump
  <2>1. Turn = "none" /\ dumped' = TRUE
    BY <1>2 DEF Dump, Turn, Running
  <2>. QED  BY <1>1, <2>1 DEF Is!Next, Is!PostMortem, Is!guest, Turn
<1>3. CASE DumpFails \/ SessionFails
  <2>1. Turn' = "none" /\ dumped' = dumped
    BY <1>3 DEF DumpFails, SessionFails, Turn, Running
  <2>. QED  BY <1>1, <2>1 DEF Is!Next, Is!Stop, Is!guest, Turn
<1>. QED  BY <1>2, <1>3 DEF Main

LEMMA ClientRefines == ASSUME Inv, Client PROVE [Is!Next]_Is!vars
<1>1. CASE Editing
  <2>1. mode = "stopped" /\ UNCHANGED <<mode, dumped>>
    BY <1>1
    DEF Editing, AddBreakpoint, RemoveBreakpoint, AddWatchpoint,
        RemoveWatchpoint, ReadAddrs, WriteAddrs, WriteRegisters, Commands,
        Quiet, session
  <2>. QED  BY <2>1 DEF Is!Next, Is!Edit
<1>2. CASE \E action \in {"step", "continue"} : Resume(action)
  <2>1. /\ mode = "stopped" /\ mode' \in {"step", "continue"}
        /\ fresh' = TRUE
        /\ UNCHANGED <<power, init, pc, insn, breakpoints, dumped>>
    BY <1>2 DEF Resume, Commands, machine, points
  <2>. QED  BY <2>1 DEF Is!Next, Is!Resume, Is!guest, Running
<1>3. CASE Disconnect
  <2>1. /\ mode = "stopped" /\ mode' \in {"run", "ended"}
        /\ UNCHANGED <<power, init, pc, insn, breakpoints, dumped, fresh>>
    BY <1>3 DEF Disconnect, Commands, machine, points
  <2>2. fresh = TRUE
    BY <2>1 DEF Inv, StandsInv, TypeOK
  <2>. QED
    BY <2>1, <2>2 DEF Is!Next, Is!Resume, Is!Stop, Is!guest, Running
<1>4. CASE Kill
  <2>1. /\ mode' = "ended"
        /\ UNCHANGED <<power, init, pc, insn, breakpoints, dumped>>
    BY <1>4 DEF Kill, machine, points
  <2>. QED  BY <2>1 DEF Is!Next, Is!Stop, Is!guest, Running
<1>5. CASE Interrupt \/ HangUp
  <2>1. UNCHANGED <<power, init, pc, insn, breakpoints, dumped, mode, fresh>>
    BY <1>5 DEF Interrupt, HangUp, machine, points, session
  <2>. QED  BY <2>1 DEF Is!vars, Running
<1>. QED  BY <1>1, <1>2, <1>3, <1>4, <1>5 DEF Client, Editing

LEMMA RefinementStep == Inv /\ [Next]_vars => [Is!Next]_Is!vars
<1>1. ASSUME UNCHANGED vars PROVE [Is!Next]_Is!vars
  BY <1>1 DEF vars, machine, points, session, Is!vars, Running
<1>. QED
  BY <1>1, StepRefines, MainRefines, ClientRefines DEF Next, Ended

\* GDB stops the world: the guest stands still while the client looks,
\* never runs past a breakpoint, and never again after a fatal error
\* (gdb.rs, main.rs).
THEOREM Implements == Spec => IsDebuggee
  BY RefinementInit, RefinementStep, Invariance, PTL
  DEF Spec, IsDebuggee, Is!Spec
=============================================================================
