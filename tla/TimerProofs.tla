---------------------------- MODULE TimerProofs ----------------------------
(***************************************************************************)
(* The timer's registers keep their types and count every tick, and its    *)
(* interrupter thread does what the registers say when they say so, for    *)
(* clocks and widths of any size.                                          *)
(***************************************************************************)
EXTENDS TimerProperties, SequenceTheorems, TLAPS

LEMMA ProductType == ASSUME NEW a \in Nat, NEW b \in Nat PROVE a * b \in Nat
  OBVIOUS

LEMMA QuotientType == ASSUME NEW a \in Nat, NEW b \in Nat \ {0} PROVE a \div b \in Nat
  OBVIOUS

LEMMA LoadType ==
  ASSUME TypeOK, loadval # {}
  PROVE  Load \in 0..(Wrap - 1)
  BY DEF TypeOK, Load

LEMMA ClockType ==
  ASSUME NEW c \in Clocks
  PROVE  Khz[c] \in Nat \ {0}
  BY TimerAssumption

\* update_regs leaves a Value that fits the width and less than a tick.
LEMMA CaughtUpType ==
  ASSUME TypeOK
  PROVE  CaughtUp \in 0..(Wrap - 1) /\ Fraction \in 0..(TickUnit - 1)
<1> USE TimerAssumption
<1>1. Elapsed \in Nat
  <2>1. since \in Nat /\ Khz[clksel] \in Nat /\ microticks \in Nat
    BY ClockType DEF TypeOK
  <2>2. since * Khz[clksel] \in Nat
    BY <2>1, ProductType
  <2> QED
    BY <2>1, <2>2 DEF Elapsed
<1>2. Fraction \in 0..(TickUnit - 1)
  BY <1>1 DEF Fraction, TypeOK
<1>3. Ticks \in Nat
  <2>1. Elapsed \div TickUnit \in Nat
    BY <1>1, QuotientType
  <2>2. Ticks \in 0..(TickMod - 1)
    BY <2>1 DEF Ticks
  <2> QED
    BY <2>2
<1>4. CaughtUp \in 0..(Wrap - 1)
  <2>1. val \in 0..(Wrap - 1) /\ mode \in Modes /\ enabled \in BOOLEAN
    BY DEF TypeOK
  <2>2. CASE ~enabled \/ NoLoad
    <3>1. CaughtUp = val
      BY <2>2 DEF CaughtUp
    <3> QED
      BY <2>1, <3>1
  <2>3. CASE enabled /\ mode = "FreeRunning"
    <3>1. (val - Ticks) % Wrap \in 0..(Wrap - 1)
      BY <1>3, <2>1
    <3>2. CaughtUp = (val - Ticks) % Wrap
      BY <2>3 DEF CaughtUp, NoLoad
    <3> QED
      BY <3>1, <3>2
  <2>4. CASE enabled /\ mode = "Periodic" /\ loadval # {}
    <3>1. Load \in 0..(Wrap - 1)
      BY <2>4, LoadType
    <3>2. CaughtUp = IF Load = 0 THEN 0
                     ELSE IF val < Ticks THEN Load - ((Ticks - val) % Load)
                     ELSE val - Ticks
      BY <2>4 DEF CaughtUp, NoLoad
    <3>3. CASE Load = 0
      BY <3>2, <3>3
    <3>4. CASE Load # 0 /\ val < Ticks
      <4>1. (Ticks - val) % Load \in 0..(Load - 1)
        BY <1>3, <2>1, <3>1, <3>4
      <4> QED
        BY <3>1, <3>2, <3>4, <4>1
    <3>5. CASE Load # 0 /\ ~(val < Ticks)
      BY <1>3, <2>1, <3>2, <3>5
    <3> QED
      BY <3>3, <3>4, <3>5
  <2> QED
    BY <2>1, <2>2, <2>3, <2>4 DEF NoLoad, Modes
<1> QED
  BY <1>2, <1>4

\* What Control sends is a message, or none.
LEMMA CommandType ==
  ASSUME TypeOK, NEW c \in Clocks, NEW m \in Modes, NEW e \in BOOLEAN,
         Starts(m, e) => loadval # {}
  PROVE  Command(c, m, e) \in Seq(Message)
<1>1. CASE ~e
  BY <1>1 DEF Command, Message
<1>2. CASE e /\ Starts(m, e)
  <2>1. PeriodOf(c) \in Nat
    <3>1. Load \in Nat
      BY <1>2, LoadType, TimerAssumption
    <3>2. Load * TickUnit \in Nat
      BY <3>1, ProductType, TimerAssumption
    <3> QED
      BY <3>2, ClockType, QuotientType DEF PeriodOf
  <2>2. Enabled(PeriodOf(c)) \in Message
    BY <2>1 DEF Enabled, Message
  <2> QED
    BY <1>2, <2>2 DEF Command
<1>3. CASE e /\ ~Starts(m, e)
  BY <1>3 DEF Command
<1> QED
  BY <1>1, <1>2, <1>3

LEMMA AgeType ==
  ASSUME NEW m \in Message
  PROVE  /\ Age(m) \in Message
         /\ Age(m).kind = m.kind
<1>1. CASE m = Disabled
  BY <1>1 DEF Age, Disabled
<1>2. CASE m \in [kind : {"Enabled"}, next : Int, period : Nat]
  BY <1>2 DEF Age, Message
<1> QED
  BY <1>1, <1>2 DEF Message

LEMMA TypeInit == Init => TypeOK
<1> SUFFICES ASSUME Init
             PROVE  TypeOK
  OBVIOUS
<1>1. 0 \in 0..(Wrap - 1) /\ 0 \in 0..(TickUnit - 1)
  BY TimerAssumption
<1>2. msgs \in Seq(Message)
  BY DEF Init
<1>3. loadval \subseteq 0..(Wrap - 1) /\ \A v, w \in loadval : v = w
  BY DEF Init
<1>4. next \subseteq Int /\ \A d, e \in next : d = e
  BY DEF Init
<1> QED
  BY <1>1, <1>2, <1>3, <1>4 DEF Init, TypeOK, Modes, Clocks

LEMMA TypeStep == TypeOK /\ [Next]_vars => TypeOK'
<1> SUFFICES ASSUME TypeOK, [Next]_vars
             PROVE  TypeOK'
  OBVIOUS
<1> USE TimerAssumption
<1>0. CaughtUp \in 0..(Wrap - 1) /\ Fraction \in 0..(TickUnit - 1)
  BY CaughtUpType
<1>1. CASE Read
  BY <1>0, <1>1 DEF Read, Access, TypeOK, interrupter
<1>2. CASE WriteClear
  BY <1>0, <1>2 DEF WriteClear, Access, TypeOK, interrupter
<1>3. CASE FatalAccess
  BY <1>3 DEF FatalAccess, regs, TypeOK, interrupter
<1>15. CASE FailingUpdate
  BY <1>0, <1>15 DEF FailingUpdate, TypeOK, interrupter
<1>4. ASSUME NEW v \in LoadVals, WriteLoad(v)
      PROVE  TypeOK'
  <2>1. v % Wrap \in 0..(Wrap - 1)
    OBVIOUS
  <2> QED
    BY <1>0, <1>4, <2>1 DEF WriteLoad, Access, TypeOK, interrupter
<1>5. ASSUME NEW c \in Clocks, FailingWriteControl(c)
      PROVE  TypeOK'
  BY <1>0, <1>5 DEF FailingWriteControl, Access, TypeOK, interrupter, Modes
<1>6. ASSUME NEW c \in Clocks, NEW m \in Modes, NEW e \in BOOLEAN,
             WriteControl(c, m, e)
      PROVE  TypeOK'
  <2>1. msgs' \in Seq(Message)
    BY <1>6, CommandType DEF WriteControl, TypeOK
  <2>2. microticks' \in 0..(TickUnit - 1)
    BY <1>0, <1>6 DEF WriteControl
  <2> QED
    BY <1>0, <1>6, <2>1, <2>2 DEF WriteControl, Access, TypeOK, interrupter
<1>7. CASE TakeMessage
  <2>1. Head(msgs) \in Message /\ Tail(msgs) \in Seq(Message)
    BY <1>7 DEF TakeMessage, TypeOK
  <2>2. CASE Head(msgs).kind = "Enabled"
    <3>1. Head(msgs).next \in Int /\ Head(msgs).period \in Nat
      BY <2>1, <2>2 DEF Message, Disabled
    <3> QED
      BY <1>7, <2>1, <2>2, <3>1 DEF TakeMessage, TypeOK, regs
  <2>3. CASE Head(msgs).kind # "Enabled"
    BY <1>7, <2>1, <2>3 DEF TakeMessage, TypeOK, regs
  <2> QED
    BY <2>2, <2>3
<1>8. CASE TimesOut
  BY <1>8 DEF TimesOut, regs, TypeOK
<1>9. CASE Fire
  BY <1>9 DEF Fire, regs, TypeOK
<1>10. CASE FirePanics
  BY <1>10 DEF FirePanics, regs, TypeOK
<1>11. CASE InterrupterEnds
  BY <1>11 DEF InterrupterEnds, regs, TypeOK
<1>12. CASE Drop
  BY <1>12 DEF Drop, DropTimer, DropBus, regs, interrupter, TypeOK
<1>13. CASE Pass
  <2>1. msgs' \in Seq(Message)
    <3>1. \A i \in 1..Len(msgs) : Age(msgs[i]) \in Message
      BY AgeType DEF TypeOK
    <3> QED
      BY <1>13, <3>1 DEF Pass, TypeOK
  <2>2. since' \in Nat
    <3>1. TickMod * TickUnit \in Nat \ {0}
      OBVIOUS
    <3>2. since' \in 0..(TickMod * TickUnit - 1)
      BY <1>13, <3>1 DEF Pass, TypeOK
    <3> QED
      BY <3>2
  <2>3. next' \subseteq Int /\ \A d, e \in next' : d = e
    BY <1>13 DEF Pass, TypeOK
  <2> QED
    BY <1>13, <2>1, <2>2, <2>3 DEF Pass, TypeOK
<1>14. CASE UNCHANGED vars
  BY <1>14 DEF vars, regs, interrupter, TypeOK
<1> QED
  BY <1>1, <1>2, <1>3, <1>4, <1>5, <1>6, <1>7, <1>8, <1>9, <1>10, <1>11,
     <1>12, <1>13, <1>14, <1>15 DEF Next, Guest, Interrupter, Ended

\* Every register keeps its type: Value never exceeds the width of the timer,
\* whatever was written and however many ticks are made up for at once.
THEOREM TypeCorrect == Spec => []TypeOK
<1>1. Init => TypeOK
  BY TypeInit
<1>2. TypeOK /\ [Next]_vars => TypeOK'
  BY TypeStep
<1> QED
  BY <1>1, <1>2, PTL DEF Spec

-----------------------------------------------------------------------------
(***************************************************************************)
(* The interrupter.  A disabled timer's interrupter is told to stop, in    *)
(* whatever way the CPU stops; for an enabled one's to be set exactly in   *)
(* periodic mode, the mode must not have changed since.                    *)
(***************************************************************************)
StopInv == ~enabled => ~Armed

\* The last message stays the last while others are taken.
LEMMA TailKeepsLast ==
  ASSUME NEW S, NEW q \in Seq(S), q # <<>>, Len(q) # 1
  PROVE  /\ Tail(q) # <<>>
         /\ Tail(q)[Len(Tail(q))] = q[Len(q)]
<1>1. Len(q) \in Nat \ {0}
  BY EmptySeq
<1>2. PICK n \in Nat : Len(q) = n + 2
  <2>1. ASSUME NEW k \in Nat \ {0}, k # 1 PROVE k - 2 \in Nat /\ k = (k - 2) + 2
    BY <2>1
  <2> QED
    BY <1>1, <2>1
<1>3. Tail(q) \in Seq(S) /\ Len(Tail(q)) = n + 1
  BY <1>2
<1>4. Tail(q) # <<>>
  BY <1>3
<1>5. Tail(q)[n + 1] = q[n + 2]
  BY <1>2, <1>3
<1> QED
  BY <1>2, <1>3, <1>4, <1>5

\* A step of the interrupter, or of time, leaves Armed as it is.
LEMMA ArmedKept ==
  ASSUME TypeOK, Interrupter \/ Drop \/ Pass \/ UNCHANGED vars
  PROVE  Armed' = Armed
<1>1. CASE TakeMessage
  <2>1. msgs \in Seq(Message) /\ msgs # <<>>
    BY <1>1 DEF TakeMessage, TypeOK
  <2>2. CASE Len(msgs) = 1
    <3>1. msgs[Len(msgs)] = Head(msgs) /\ msgs' = <<>>
      BY <1>1, <2>1, <2>2 DEF TakeMessage
    <3>2. next' # {} <=> Head(msgs).kind = "Enabled"
      BY <1>1 DEF TakeMessage
    <3> QED
      BY <2>1, <3>1, <3>2 DEF Armed
  <2>3. CASE Len(msgs) # 1
    <3>1. msgs' = Tail(msgs)
      BY <1>1 DEF TakeMessage
    <3>2. msgs' # <<>> /\ msgs'[Len(msgs')] = msgs[Len(msgs)]
      BY <2>1, <2>3, <3>1, TailKeepsLast
    <3> QED
      BY <2>1, <3>2 DEF Armed
  <2> QED
    BY <2>2, <2>3
<1>2. CASE Fire
  <2>1. next' # {} <=> next # {}
    BY <1>2 DEF Fire
  <2> QED
    BY <1>2, <2>1 DEF Fire, Armed
<1>3. CASE Pass
  <2>1. next' # {} <=> next # {}
    BY <1>3 DEF Pass
  <2>2. /\ Len(msgs') = Len(msgs)
        /\ \A i \in 1..Len(msgs) : msgs'[i].kind = msgs[i].kind
    BY <1>3, AgeType DEF Pass, TypeOK
  <2>3. msgs \in Seq(Message) /\ msgs' \in Seq(Message)
    BY <1>3, TypeStep DEF TypeOK, Next
  <2>4. CASE msgs = <<>>
    BY <2>1, <2>2, <2>3, <2>4 DEF Armed
  <2>5. CASE msgs # <<>>
    BY <2>2, <2>3, <2>5 DEF Armed
  <2> QED
    BY <2>4, <2>5
<1>4. CASE TimesOut \/ FirePanics \/ InterrupterEnds \/ Drop \/ UNCHANGED vars
  BY <1>4 DEF TimesOut, FirePanics, InterrupterEnds, Drop, DropTimer, DropBus,
              vars, interrupter, Armed
<1> QED
  BY <1>1, <1>2, <1>3, <1>4 DEF Interrupter

\* An access other than of Control does, too.
LEMMA ArmedFrame ==
  ASSUME UNCHANGED <<msgs, next>>
  PROVE  Armed' = Armed
  BY DEF Armed

\* What a write of Control makes of it.
LEMMA ArmedByControl ==
  ASSUME TypeOK, NEW c \in Clocks, NEW m \in Modes, NEW e \in BOOLEAN,
         WriteControl(c, m, e)
  PROVE  Armed' <=> e /\ (Starts(m, e) \/ Armed)
<1>1. /\ msgs \in Seq(Message) /\ UNCHANGED next
      /\ msgs' = msgs \o Command(c, m, e)
  BY DEF WriteControl, interrupter, TypeOK
<1>2. CASE ~e
  <2>1. msgs' = Append(msgs, Disabled)
    BY <1>1, <1>2 DEF Command
  <2> QED
    BY <1>1, <1>2, <2>1 DEF Armed, Disabled
<1>3. CASE e /\ Starts(m, e)
  <2>1. msgs' = Append(msgs, Enabled(PeriodOf(c)))
    BY <1>1, <1>3 DEF Command
  <2>2. msgs' # <<>> /\ msgs'[Len(msgs')] = Enabled(PeriodOf(c))
    BY <1>1, <2>1
  <2>3. Enabled(PeriodOf(c)).kind = "Enabled"
    BY DEF Enabled
  <2> QED
    BY <1>3, <2>2, <2>3 DEF Armed
<1>4. CASE e /\ ~Starts(m, e)
  <2>1. msgs' = msgs
    BY <1>1, <1>4 DEF Command
  <2> QED
    BY <1>1, <1>4, <2>1 DEF Armed
<1> QED
  BY <1>2, <1>3, <1>4

LEMMA StopStep == TypeOK /\ StopInv /\ [Next]_vars => StopInv'
<1> SUFFICES ASSUME TypeOK, StopInv, [Next]_vars
             PROVE  StopInv'
  OBVIOUS
<1>1. CASE \/ Read \/ WriteClear \/ FailingUpdate \/ FatalAccess
           \/ \E v \in LoadVals : WriteLoad(v)
  BY <1>1, ArmedFrame DEF Read, WriteClear, FailingUpdate, FatalAccess,
                          WriteLoad, regs, interrupter, StopInv
<1>2. CASE \E c \in Clocks : FailingWriteControl(c)
  BY <1>2, ArmedFrame DEF FailingWriteControl, StopInv, interrupter
<1>3. ASSUME NEW c \in Clocks, NEW m \in Modes, NEW e \in BOOLEAN,
             WriteControl(c, m, e)
      PROVE  StopInv'
  BY <1>3, ArmedByControl DEF WriteControl, StopInv
<1>4. CASE Interrupter \/ Drop \/ Pass \/ UNCHANGED vars
  <2>1. enabled' = enabled
    BY <1>4 DEF Interrupter, TakeMessage, TimesOut, Fire, FirePanics,
                InterrupterEnds, Drop, DropTimer, DropBus, Pass, vars, regs
  <2> QED
    BY <1>4, <2>1, ArmedKept DEF StopInv
<1> QED
  BY <1>1, <1>2, <1>3, <1>4 DEF Next, Guest, Ended

\* A disabled timer's interrupter makes no new decision to interrupt, whatever
\* is still in its channel and however the guest uses Control.
THEOREM OneStray == Spec => OneStrayAtMost
<1>1. Init => StopInv
  BY DEF Init, StopInv, Armed
<1>2. TypeOK /\ StopInv /\ [Next]_vars
        => [in_thread = "wait" /\ in_thread' = "fire" => enabled]_vars
  <2> SUFFICES ASSUME TypeOK, StopInv, Next,
                      in_thread = "wait", in_thread' = "fire"
               PROVE  enabled
    OBVIOUS
  <2>1. TimesOut
    BY DEF Next, Guest, Read, WriteClear, FailingUpdate, FatalAccess, WriteLoad,
           FailingWriteControl, WriteControl, Interrupter, TakeMessage, Fire,
           FirePanics, InterrupterEnds, Drop, DropTimer, DropBus, Pass, Ended,
           vars, interrupter
  <2> QED
    BY <2>1 DEF TimesOut, StopInv, Armed
<1>3. TypeOK /\ StopInv /\ [Next]_vars => StopInv'
  BY StopStep
<1> QED
  BY <1>1, <1>2, <1>3, TypeCorrect, PTL DEF Spec, OneStrayAtMost

\* A timer that is disabled is not `mixed`: InterrupterFollows alone would
\* not tell where the interrupter is when the guest disables it.
FollowInv == InterrupterFollows /\ (mixed => enabled)

LEMMA FollowsStep == TypeOK /\ FollowInv /\ [Next]_vars => FollowInv'
<1> SUFFICES ASSUME TypeOK, FollowInv, [Next]_vars
             PROVE  FollowInv'
  OBVIOUS
<1>0. CASE Read \/ WriteClear \/ FailingUpdate \/ FatalAccess
  BY <1>0, ArmedFrame DEF Read, WriteClear, FailingUpdate, FatalAccess, Access,
                          regs, interrupter, FollowInv, InterrupterFollows,
                          Running, NoLoad
<1>1. CASE \E v \in LoadVals : WriteLoad(v)
  BY <1>1, ArmedFrame DEF WriteLoad, interrupter, FollowInv, InterrupterFollows,
                          Running
<1>2. CASE \E c \in Clocks : FailingWriteControl(c)
  BY <1>2, ArmedFrame DEF FailingWriteControl, interrupter, FollowInv,
                          InterrupterFollows, Running, NoLoad
<1>3. ASSUME NEW c \in Clocks, NEW m \in Modes, NEW e \in BOOLEAN,
             WriteControl(c, m, e)
      PROVE  FollowInv'
  <2>1. /\ enabled' = e /\ mode' = m /\ ~(enabled /\ NoLoad)
        /\ e => loadval' = loadval
        /\ Starts(m, e) => loadval # {}
        /\ mixed' = (e /\ (mixed \/ Mixes(c, m, e)))
    BY <1>3 DEF WriteControl, Access
  <2>2. Armed' <=> e /\ (Starts(m, e) \/ Armed)
    BY <1>3, ArmedByControl
  <2>3. enabled /\ e /\ ~mixed' => m = mode /\ ~mixed
    BY <2>1 DEF Mixes
  <2>4. ~enabled => ~mixed
    BY DEF FollowInv
  <2>5. mixed' => enabled'
    BY <2>1
  <2>6. InterrupterFollows'
    BY <2>1, <2>2, <2>3, <2>4 DEF FollowInv, InterrupterFollows, Starts,
                                  Running, NoLoad
  <2> QED
    BY <2>5, <2>6 DEF FollowInv
<1>4. CASE Interrupter \/ Drop \/ Pass \/ UNCHANGED vars
  <2>1. UNCHANGED <<enabled, mode, loadval, mixed>>
    BY <1>4 DEF Interrupter, TakeMessage, TimesOut, Fire, FirePanics,
                InterrupterEnds, Drop, DropTimer, DropBus, Pass, vars, regs
  <2> QED
    BY <1>4, <2>1, ArmedKept DEF FollowInv, InterrupterFollows, Running, NoLoad
<1> QED
  BY <1>0, <1>1, <1>2, <1>3, <1>4 DEF Next, Guest, Ended

\* The interrupter is set, or about to be, exactly when the registers say so,
\* unless the guest has changed clock or mode of the timer while it was enabled.
THEOREM Follows == Spec => []InterrupterFollows
<1>1. Init => FollowInv
  BY DEF Init, FollowInv, InterrupterFollows, Armed, Running
<1>2. TypeOK /\ FollowInv /\ [Next]_vars => FollowInv'
  BY FollowsStep
<1>3. FollowInv => InterrupterFollows
  BY DEF FollowInv
<1> QED
  BY <1>1, <1>2, <1>3, TypeCorrect, PTL DEF Spec

-----------------------------------------------------------------------------
(***************************************************************************)
(* Division with a remainder.                                              *)
(***************************************************************************)
LEMMA Product == ASSUME NEW a \in Int, NEW b \in Int PROVE a * b \in Int
  OBVIOUS

LEMMA Distributes ==
  ASSUME NEW a \in Int, NEW b \in Int, NEW n \in Int
  PROVE  n * (a + b) = n * a + n * b /\ n * (a - b) = n * a - n * b
  OBVIOUS

LEMMA Larger ==
  ASSUME NEW n \in Nat, NEW k \in Int, k >= 1
  PROVE  n * k >= n
  OBVIOUS

LEMMA Divided ==
  ASSUME NEW a \in Int, NEW n \in Nat \ {0}
  PROVE  /\ a \div n \in Int /\ a % n \in 0..(n - 1)
         /\ a = n * (a \div n) + (a % n)
  OBVIOUS

LEMMA Unique ==
  ASSUME NEW n \in Nat \ {0}, NEW q \in Int, NEW r \in 0..(n - 1),
         NEW p \in Int, NEW s \in 0..(n - 1), n * q + r = n * p + s
  PROVE  q = p /\ r = s
<1>1. n * (q - p) = s - r /\ n * (p - q) = r - s
  BY Distributes
<1>2. CASE q - p >= 1
  <2>1. n * (q - p) >= n
    BY <1>2, Larger
  <2> QED BY <1>1, <2>1
<1>3. CASE p - q >= 1
  <2>1. n * (p - q) >= n
    BY <1>3, Larger
  <2> QED BY <1>1, <2>1
<1>4. CASE p = q
  BY <1>4
<1> QED BY <1>2, <1>3, <1>4

LEMMA Division ==
  ASSUME NEW n \in Nat \ {0}, NEW q \in Int, NEW r \in 0..(n - 1)
  PROVE  (n * q + r) \div n = q /\ (n * q + r) % n = r
<1> DEFINE a == n * q + r
<1>1. a \in Int
  BY Product
<1>2. a \div n \in Int /\ a % n \in 0..(n - 1) /\ a = n * (a \div n) + (a % n)
  BY <1>1, Divided
<1> DEFINE p == a \div n
           s == a % n
<1>3. n * q + r = n * p + s /\ p \in Int /\ s \in 0..(n - 1)
  BY <1>2
<1> HIDE DEF p, s
<1>4. q = p /\ r = s
  BY <1>3, Unique
<1> QED BY <1>4 DEF p, s

\* Counting up by less than a divisor.
LEMMA DivideMore ==
  ASSUME NEW n \in Nat \ {0}, NEW a \in Int, NEW k \in 0..n
  PROVE  IF (a % n) + k >= n
         THEN (a + k) \div n = (a \div n) + 1 /\ (a + k) % n = (a % n) + k - n
         ELSE (a + k) \div n = a \div n /\ (a + k) % n = (a % n) + k
<1> DEFINE q == a \div n
           r == a % n
<1>1. q \in Int /\ r \in 0..(n - 1) /\ a = n * q + r
  BY Divided
<1> HIDE DEF q, r
<1>2. CASE r + k >= n
  <2>1. CASE r + k < n + n
    <3>1. r + k - n \in 0..(n - 1) /\ q + 1 \in Int
      BY <1>1, <1>2, <2>1
    <3>2. n * (q + 1) = n * q + n
      BY <1>1
    <3>3. a + k = n * (q + 1) + (r + k - n)
      <4>1. n * q \in Int
        BY <1>1, Product
      <4> QED BY <1>1, <3>2, <4>1
    <3>4. (a + k) \div n = q + 1 /\ (a + k) % n = r + k - n
      BY <3>1, <3>3, Division
    <3> QED BY <1>2, <3>4 DEF q, r
  <2> QED BY <1>1, <2>1
<1>3. CASE ~ (r + k >= n)
  <2>1. r + k \in 0..(n - 1)
    BY <1>1, <1>3
  <2>2. a + k = n * q + (r + k)
    <3>1. n * q \in Int
      BY <1>1, Product
    <3> QED BY <1>1, <3>1
  <2>3. (a + k) \div n = q /\ (a + k) % n = r + k
    BY <1>1, <2>1, <2>2, Division
  <2> QED BY <1>3, <2>3 DEF q, r
<1> QED BY <1>2, <1>3

\* Counting down by one.
LEMMA OneLess ==
  ASSUME NEW n \in Nat \ {0}, NEW a \in Int
  PROVE  (a - 1) % n = ((a % n) - 1) % n
<1> DEFINE q == a \div n
           r == a % n
<1>1. q \in Int /\ r \in 0..(n - 1) /\ a = n * q + r
  BY Divided
<1> HIDE DEF q, r
<1>0. n * q \in Int
  BY <1>1, Product
<1>2. CASE r = 0
  <2>1. a - 1 = n * (q - 1) + (n - 1)
    <3>1. n * (q - 1) = n * q - n
      BY <1>1
    <3> QED BY <1>0, <1>1, <1>2, <3>1
  <2>2. n * (-1) + (n - 1) = r - 1
    BY <1>2
  <2>3. (a - 1) % n = n - 1
    BY <1>1, <2>1, Division
  <2>4. (n * (-1) + (n - 1)) % n = n - 1
    BY Division
  <2> QED BY <2>2, <2>3, <2>4 DEF r
<1>3. CASE r # 0
  <2>1. r - 1 \in 0..(n - 1) /\ a - 1 = n * q + (r - 1)
    BY <1>0, <1>1, <1>3
  <2>2. (a - 1) % n = r - 1
    BY <1>1, <2>1, Division
  <2>3. n * 0 + (r - 1) = r - 1
    BY <2>1
  <2>4. (n * 0 + (r - 1)) % n = r - 1
    BY <2>1, Division
  <2> QED BY <2>2, <2>3, <2>4 DEF r
<1> QED BY <1>2, <1>3

LEMMA Small ==
  ASSUME NEW n \in Nat \ {0}, NEW r \in 0..(n - 1)
  PROVE  r % n = r /\ r \div n = 0
<1>1. n * 0 + r = r
  OBVIOUS
<1>2. (n * 0 + r) \div n = 0 /\ (n * 0 + r) % n = r
  BY Division
<1> QED BY <1>1, <1>2

\* Less than m times n is less than m n's.
LEMMA Fewer ==
  ASSUME NEW n \in Nat \ {0}, NEW m \in Nat, NEW a \in Nat, a < m * n
  PROVE  a \div n \in 0..(m - 1)
<1> DEFINE q == a \div n
           r == a % n
<1>1. q \in Int /\ r \in 0..(n - 1) /\ a = n * q + r
  BY Divided
<1> HIDE DEF q, r
<1>2. q < m
  <2>1. CASE q - m >= 0
    <3>1. n * (q - m) = n * q - n * m /\ n * (q - m) >= 0
      BY <1>1, <2>1
    <3>2. n * q \in Int /\ n * m \in Int /\ n * m = m * n
      BY <1>1
    <3> QED BY <1>1, <3>1, <3>2
  <2> QED BY <1>1, <2>1
<1>3. q >= 0
  <2>1. CASE q <= -1
    <3>1. n * (- q) >= n
      BY <1>1, <2>1, Larger
    <3>2. n * (- q) = - (n * q) /\ n * q \in Int
      BY <1>1
    <3> QED BY <1>1, <3>1, <3>2
  <2> QED BY <1>1, <2>1
<1> QED BY <1>1, <1>2, <1>3 DEF q

-----------------------------------------------------------------------------
(***************************************************************************)
(* The registers as a counter.                                             *)
(***************************************************************************)
LEMMA ElapsedType ==
  TypeOK => /\ since \in Nat /\ Khz[clksel] \in 1..TickUnit
            /\ microticks \in 0..(TickUnit - 1)
            /\ since * Khz[clksel] \in Nat /\ Elapsed \in Nat /\ Ticks \in Nat
            /\ TickUnit \in Nat \ {0} /\ Wrap \in Nat \ {0} /\ TickMod \in Nat \ {0}
<1> SUFFICES ASSUME TypeOK
             PROVE  /\ since \in Nat /\ Khz[clksel] \in 1..TickUnit
                    /\ microticks \in 0..(TickUnit - 1)
                    /\ since * Khz[clksel] \in Nat /\ Elapsed \in Nat
                    /\ Ticks \in Nat
  BY TimerAssumption
<1> USE TimerAssumption
<1>1. /\ since \in Nat /\ Khz[clksel] \in 1..TickUnit
      /\ microticks \in 0..(TickUnit - 1)
  BY DEF TypeOK
<1>2. since * Khz[clksel] \in Nat
  BY <1>1, ProductType
<1>3. Elapsed \in Nat
  BY <1>1, <1>2 DEF Elapsed
<1>4. Ticks \in Nat
  <2>1. Elapsed \div TickUnit \in Nat
    BY <1>3, QuotientType
  <2>2. Ticks \in 0..(TickMod - 1)
    BY <2>1 DEF Ticks
  <2> QED BY <2>2
<1> QED BY <1>1, <1>2, <1>3, <1>4

LEMMA LoadIs ==
  TypeOK /\ loadval # {} => loadval = {Load} /\ Load \in 0..(Wrap - 1)
  BY DEF TypeOK, Load

\* Registers that were just accessed show what they hold.
LEMMA Accessed ==
  TypeOK /\ since = 0 =>
    /\ Fraction = microticks
    /\ CaughtUp = IF Running /\ mode = "Periodic" /\ Load = 0 THEN 0 ELSE val
<1> SUFFICES ASSUME TypeOK, since = 0
             PROVE  /\ Fraction = microticks
                    /\ CaughtUp = IF Running /\ mode = "Periodic" /\ Load = 0
                                  THEN 0 ELSE val
  OBVIOUS
<1>1. Elapsed = microticks
  BY ElapsedType DEF Elapsed
<1>2. microticks % TickUnit = microticks /\ microticks \div TickUnit = 0
  BY ElapsedType, Small
<1>3. Ticks = 0
  <2>1. 0 % TickMod = 0
    BY ElapsedType, Small
  <2> QED BY <1>1, <1>2, <2>1 DEF Ticks
<1>4. CaughtUp = IF Running /\ mode = "Periodic" /\ Load = 0 THEN 0 ELSE val
  <2>1. val \in 0..(Wrap - 1) /\ mode \in Modes
    BY DEF TypeOK
  <2>2. val % Wrap = val /\ val - 0 = val /\ ~ (val < 0)
    BY <2>1, ElapsedType, Small
  <2> QED BY <1>3, <2>1, <2>2 DEF CaughtUp, Running, NoLoad, Modes
<1> QED BY <1>1, <1>2, <1>4 DEF Fraction

LEMMA AccessedNext ==
  (TypeOK /\ since = 0 =>
    /\ Fraction = microticks
    /\ CaughtUp = IF Running /\ mode = "Periodic" /\ Load = 0 THEN 0 ELSE val)'
  BY Accessed, PTL

LEMMA CaughtUpZero ==
  ASSUME Running, mode = "Periodic", Load = 0 PROVE CaughtUp = 0
  BY DEF CaughtUp, Running

\* Reading does not change what is read.
LEMMA ReadKeeps ==
  ASSUME TypeOK, TypeOK', since' = 0, val' = CaughtUp, microticks' = Fraction,
         UNCHANGED <<loadval, enabled, mode, clksel>>
  PROVE  Phase' = Phase /\ Fraction' = Fraction
<1>1. Load' = Load /\ Running' = Running
  BY DEF Load, Running, NoLoad
<1>2. Fraction' = Fraction
  BY AccessedNext
<1>3. CaughtUp' = CaughtUp
  BY <1>1, AccessedNext, CaughtUpZero
<1> QED BY <1>1, <1>2, <1>3 DEF Phase

(***************************************************************************)
(* The guest looks at an enabled timer before it has made 2^32 ticks,      *)
(* which the code cannot tell from none (timer.rs:151): after 2.3 hours on *)
(* the fast clock and 24 days on the slow one.                             *)
(***************************************************************************)
LookedAt ==
  enabled => (since + 1) * Khz[clksel] + microticks < TickMod * TickUnit

\* A unit of time for an enabled timer.
LEMMA PassTicks ==
  ASSUME TypeOK, LookedAt, Pass, enabled
  PROVE  /\ Fraction \in 0..(TickUnit - 1)
         /\ IF Fraction + Khz[clksel] >= TickUnit
            THEN /\ Ticks' = Ticks + 1
                 /\ Fraction' = Fraction + Khz[clksel] - TickUnit
            ELSE /\ Ticks' = Ticks
                 /\ Fraction' = Fraction + Khz[clksel]
<1> DEFINE K == Khz[clksel]
           E == Elapsed
           N == TickMod * TickUnit
<1>1. /\ since \in Nat /\ K \in 1..TickUnit /\ microticks \in 0..(TickUnit - 1)
      /\ since * K \in Nat /\ E \in Nat
      /\ TickUnit \in Nat \ {0} /\ TickMod \in Nat \ {0}
      /\ E = since * K + microticks
  BY ElapsedType DEF Elapsed
<1>2. N \in Nat \ {0}
  BY <1>1
<1>3. clksel' = clksel /\ enabled' = enabled /\ microticks' = microticks
      /\ since' = (since + 1) % N
  BY DEF Pass
<1>4. (since + 1) * K = since * K + K
  BY <1>1
<1>5. E + K < N
  <2>1. (since + 1) * K + microticks < N
    BY DEF LookedAt
  <2> HIDE DEF K, N, E
  <2> QED BY <1>1, <1>2, <1>4, <2>1
<1>6. since' = since + 1
  <2>1. since * K >= since
    BY <1>1
  <2>2. since + 1 \in 0..(N - 1)
    <3> HIDE DEF K, N, E
    <3> QED BY <1>1, <1>2, <1>5, <2>1
  <2> QED BY <1>2, <1>3, <2>2, Small
<1>7. Elapsed' = E + K
  <2>1. Elapsed' = (since + 1) * K + microticks
    BY <1>3, <1>6 DEF Elapsed
  <2> HIDE DEF K, E
  <2> QED BY <1>1, <1>4, <2>1
<1>8. E \div TickUnit \in 0..(TickMod - 1) /\ (E + K) \div TickUnit \in 0..(TickMod - 1)
  <2> HIDE DEF K, E
  <2>1. E < TickMod * TickUnit /\ E + K < TickMod * TickUnit /\ E + K \in Nat
    <3>1. E + K < TickMod * TickUnit
      BY <1>5
    <3>2. TickMod * TickUnit \in Nat
      BY <1>2
    <3> HIDE DEF N
    <3> QED BY <1>1, <3>1, <3>2
  <2> HIDE DEF N
  <2> QED BY <1>1, <2>1, Fewer
<1>9. Ticks = E \div TickUnit /\ Ticks' = (E + K) \div TickUnit
  BY <1>1, <1>7, <1>8, Small DEF Ticks
<1>10. Fraction = E % TickUnit /\ Fraction' = (E + K) % TickUnit
  BY <1>3, <1>7 DEF Fraction
<1>11. E % TickUnit \in 0..(TickUnit - 1)
  <2>1. E \in Int
    BY <1>1
  <2> HIDE DEF E
  <2> QED BY <1>1, <2>1, Divided
<1>12. IF (E % TickUnit) + K >= TickUnit
       THEN /\ (E + K) \div TickUnit = (E \div TickUnit) + 1
            /\ (E + K) % TickUnit = (E % TickUnit) + K - TickUnit
       ELSE /\ (E + K) \div TickUnit = E \div TickUnit
            /\ (E + K) % TickUnit = (E % TickUnit) + K
  <2>1. K \in 0..TickUnit /\ E \in Int
    BY <1>1
  <2> HIDE DEF K, E
  <2> QED BY <1>1, <2>1, DivideMore
<1> HIDE DEF E, K
<1> QED BY <1>9, <1>10, <1>11, <1>12 DEF K

\* A tick more: Value goes down by one, or on from where it starts again.
Down(c, l) == IF c = l THEN 0 ELSE c

\* Value n ticks after it was v.
After(n, v, l) == IF v < n THEN l - ((n - v) % l) ELSE v - n

LEMMA CyclesDown ==
  ASSUME NEW L \in Nat \ {0}, NEW v \in Nat, NEW n \in Nat
  PROVE  /\ After(n, v, L) \in Nat /\ After(n + 1, v, L) \in Nat
         /\ Down(After(n + 1, v, L), L)
              = Down(IF Down(After(n, v, L), L) = 0 THEN L - 1
                     ELSE Down(After(n, v, L), L) - 1, L)
<1> DEFINE c == After(n, v, L)
           d == After(n + 1, v, L)
<1>0. /\ c = IF v < n THEN L - ((n - v) % L) ELSE v - n
      /\ d = IF v < n + 1 THEN L - ((n + 1 - v) % L) ELSE v - (n + 1)
  BY DEF After
<1> HIDE DEF c, d
<1>1. CASE v < n
  <2> DEFINE a == n - v
  <2>1. a \in Nat \ {0} /\ n + 1 - v = a + 1 /\ v < n + 1
    BY <1>1
  <2>2. c = L - (a % L) /\ d = L - ((a + 1) % L)
    BY <1>0, <1>1, <2>1
  <2> HIDE DEF a
  <2>3. a % L \in 0..(L - 1) /\ a \in Int /\ 1 \in 0..L
    <3>1. a \in Int
      BY <2>1
    <3> QED BY <3>1, Divided
  <2>4. (a + 1) % L = IF (a % L) + 1 >= L THEN (a % L) + 1 - L ELSE (a % L) + 1
    BY <2>3, DivideMore
  <2> DEFINE r == a % L
  <2>5. c = L - r /\ d = (IF r + 1 >= L THEN L - (r + 1 - L) ELSE L - (r + 1))
        /\ r \in 0..(L - 1)
    BY <2>2, <2>3, <2>4
  <2> HIDE DEF r
  <2> QED BY <2>5 DEF Down, c, d
<1>2. CASE v >= n + 1
  BY <1>0, <1>2 DEF Down, c, d
<1>3. CASE v = n
  <2>1. c = 0 /\ d = L - (1 % L)
    BY <1>0, <1>3
  <2>2. 1 % L = IF L = 1 THEN 0 ELSE 1
    <3>1. CASE L = 1
      <4>1. 1 * 1 + 0 = 1 /\ 0 \in 0..(1 - 1)
        OBVIOUS
      <4>2. (1 * 1 + 0) % 1 = 0
        BY <4>1, Division
      <4> QED BY <3>1, <4>1, <4>2
    <3>2. CASE L # 1
      <4>1. 1 \in 0..(L - 1)
        BY <3>2
      <4> QED BY <3>2, <4>1, Small
    <3> QED BY <3>1, <3>2
  <2> QED BY <2>1, <2>2 DEF Down, c, d
<1> QED BY <1>1, <1>2, <1>3

LEMMA ValueType == TypeOK => CaughtUp \in Nat /\ val \in Nat
<1> SUFFICES ASSUME TypeOK PROVE CaughtUp \in Nat /\ val \in Nat
  OBVIOUS
<1>1. CaughtUp \in 0..(Wrap - 1) /\ val \in 0..(Wrap - 1)
  BY CaughtUpType DEF TypeOK
<1> QED BY <1>1, TimerAssumption

\* What a tick does to Value.
LEMMA TickCounts ==
  ASSUME TypeOK, TypeOK', enabled, UNCHANGED <<loadval, val, enabled, mode>>,
         Ticks' = Ticks + 1
  PROVE  C!CountOne
<1>1. /\ Ticks \in Nat /\ Wrap \in Nat \ {0} /\ val \in Nat /\ mode \in Modes
  BY ElapsedType, ValueType DEF TypeOK
<1>2. Load' = Load /\ Running' = Running /\ NoLoad' = NoLoad
  BY DEF Load, Running, NoLoad
<1>3. CASE mode = "FreeRunning"
  <2>1. CaughtUp = (val - Ticks) % Wrap /\ CaughtUp' = (val - (Ticks + 1)) % Wrap
    BY <1>2, <1>3 DEF CaughtUp, NoLoad
  <2>2. val - (Ticks + 1) = (val - Ticks) - 1 /\ val - Ticks \in Int
    BY <1>1
  <2>3. CaughtUp' = (CaughtUp - 1) % Wrap
    BY <1>1, <2>1, <2>2, OneLess
  <2>4. Phase = CaughtUp /\ Phase' = CaughtUp'
    BY <1>3 DEF Phase
  <2> QED BY <1>3, <2>3, <2>4 DEF C!CountOne
<1>4. CASE mode = "Periodic" /\ loadval = {}
  <2>1. CaughtUp = val /\ CaughtUp' = val /\ Phase = CaughtUp /\ Phase' = CaughtUp'
    BY <1>2, <1>4 DEF CaughtUp, NoLoad, Running, Phase
  <2> QED BY <1>4, <2>1 DEF C!CountOne
<1>5. CASE mode = "Periodic" /\ loadval # {}
  <2>1. loadval = {Load} /\ Load \in Nat
    BY <1>1, <1>5, LoadIs
  <2>2. Phase = Down(CaughtUp, Load) /\ Phase' = Down(CaughtUp', Load)
    BY <1>2, <1>5 DEF Phase, Running, NoLoad, Down
  <2>3. CASE Load = 0
    <3>1. CaughtUp = 0 /\ CaughtUp' = 0
      BY <1>2, <1>5, <2>3 DEF CaughtUp, NoLoad
    <3>2. Phase = 0 /\ Phase' = 0
      BY <2>2, <3>1 DEF Down
    <3>3. C!Reduced(0 - 1, {0}) = 0
      BY DEF C!Reduced
    <3> QED BY <1>5, <2>1, <2>3, <3>2, <3>3 DEF C!CountOne
  <2>4. CASE Load # 0
    <3>1. CaughtUp = After(Ticks, val, Load)
      BY <1>5, <2>4 DEF CaughtUp, NoLoad, After
    <3>2. /\ val' = val /\ enabled' /\ mode' = "Periodic" /\ loadval' # {}
          /\ Load' = Load /\ Load' # 0 /\ Ticks' = Ticks + 1
      BY <1>2, <1>5, <2>4
    <3>5. CaughtUp' = After(Ticks', val', Load')
      BY <3>2 DEF CaughtUp, NoLoad, After
    <3>6. CaughtUp' = After(Ticks + 1, val, Load)
      BY <3>2, <3>5
    <3>7. /\ CaughtUp \in Nat /\ CaughtUp' \in Nat
          /\ Down(CaughtUp', Load)
               = Down(IF Down(CaughtUp, Load) = 0 THEN Load - 1
                      ELSE Down(CaughtUp, Load) - 1, Load)
      BY <1>1, <2>1, <2>4, <3>1, <3>6, CyclesDown
    <3>3. Phase' = Down(IF Phase = 0 THEN Load - 1 ELSE Phase - 1, Load)
      BY <2>2, <3>7
    <3>4. ASSUME NEW x PROVE C!Reduced(x, {Load}) = Down(x, Load)
      BY <2>4 DEF C!Reduced, Down
    <3> QED BY <1>5, <2>1, <3>3, <3>4 DEF C!CountOne
  <2> QED BY <2>3, <2>4
<1> QED BY <1>1, <1>3, <1>4, <1>5 DEF Modes

LEMMA PassCounts ==
  ASSUME TypeOK, TypeOK', LookedAt, Pass PROVE [C!Next]_(C!vars)
<1>1. UNCHANGED <<loadval, val, enabled, mode, clksel, microticks>>
  BY DEF Pass
<1>2. Load' = Load /\ Running' = Running /\ NoLoad' = NoLoad
  BY <1>1 DEF Load, Running, NoLoad
<1>3. CASE ~ enabled
  <2>1. Phase' = Phase /\ Fraction' = Fraction
    BY <1>1, <1>3 DEF Phase, Running, CaughtUp, Fraction
  <2> QED BY <1>1, <2>1 DEF C!vars
<1>4. CASE enabled
  <2> DEFINE K == Khz[clksel]
             f == Fraction
  <2>1. /\ TickUnit \in Nat \ {0} /\ K \in 1..TickUnit /\ f \in 0..(TickUnit - 1)
    BY <1>4, PassTicks, ElapsedType
  <2> HIDE DEF K, f
  <2>2. CASE f + K >= TickUnit
    <3>1. Ticks' = Ticks + 1 /\ Fraction' = f + K - TickUnit
      BY <1>4, <2>2, PassTicks DEF f, K
    <3>2. TickUnit * 1 + (f + K - TickUnit) = f + K
          /\ f + K - TickUnit \in 0..(TickUnit - 1)
      BY <2>1, <2>2
    <3>3. (f + K) % TickUnit = f + K - TickUnit
      BY <2>1, <3>2, Division
    <3>4. C!CountOne
      BY <1>1, <1>4, <3>1, TickCounts
    <3>5. C!Pass
      BY <1>1, <1>4, <2>2, <3>1, <3>3, <3>4 DEF C!Pass, f, K
    <3> QED BY <3>5 DEF C!Next
  <2>3. CASE ~ (f + K >= TickUnit)
    <3>1. Ticks' = Ticks /\ Fraction' = f + K
      BY <1>4, <2>3, PassTicks DEF f, K
    <3>2. f + K \in 0..(TickUnit - 1)
      BY <2>1, <2>3
    <3>3. (f + K) % TickUnit = f + K
      BY <2>1, <3>2, Small
    <3>4. Phase' = Phase
      BY <1>1, <1>2, <3>1 DEF Phase, CaughtUp
    <3>5. C!Pass
      BY <1>1, <1>4, <2>3, <3>1, <3>3, <3>4 DEF C!Pass, f, K
    <3> QED BY <3>5 DEF C!Next
  <2> QED BY <2>2, <2>3
<1> QED BY <1>3, <1>4

LEMMA LoadSets ==
  ASSUME TypeOK, TypeOK', NEW v \in LoadVals, WriteLoad(v) PROVE C!SetLoad
<1>1. /\ ~ enabled /\ enabled' = enabled /\ mode' = mode /\ clksel' = clksel
      /\ since' = 0 /\ microticks' = Fraction
      /\ loadval' = {v % Wrap} /\ val' = v % Wrap
  BY DEF WriteLoad, Access
<1>2. v % Wrap \in 0..(Wrap - 1)
  BY TimerAssumption
<1>3. Phase' = v % Wrap
  BY <1>1 DEF Phase, Running, CaughtUp
<1>4. Fraction' = Fraction
  BY <1>1, AccessedNext
<1> QED BY <1>1, <1>2, <1>3, <1>4 DEF C!SetLoad

\* The points of the cycle that Value may show.
LEMMA ShownIs == TypeOK => CaughtUp \in C!Shown
<1> SUFFICES ASSUME TypeOK PROVE CaughtUp \in C!Shown
  OBVIOUS
<1>1. CASE Running /\ mode = "Periodic" /\ CaughtUp = Load
  <2>1. Phase = 0 /\ enabled /\ loadval # {}
    BY <1>1 DEF Phase, Running, NoLoad
  <2>2. CaughtUp \in loadval
    BY <1>1, <2>1, LoadIs
  <2> QED BY <1>1, <2>1, <2>2 DEF C!Shown
<1>2. CASE ~ (Running /\ mode = "Periodic" /\ CaughtUp = Load)
  <2>1. Phase = CaughtUp
    BY <1>2 DEF Phase
  <2> QED BY <2>1 DEF C!Shown
<1> QED BY <1>1, <1>2

\* Where a timer goes on from when Control is written.
LEMMA ControlSets ==
  ASSUME TypeOK, TypeOK', since' = 0, val' = CaughtUp,
         loadval' = IF enabled' THEN loadval ELSE {},
         microticks' = IF enabled' /\ ~ enabled THEN 0 ELSE Fraction
  PROVE  C!SetControl
<1>1. clksel' \in DOMAIN Khz /\ mode' \in C!Modes /\ enabled' \in BOOLEAN
  BY TimerAssumption DEF TypeOK, Modes, C!Modes, Clocks
<1>2. Fraction' = IF enabled' /\ ~ enabled THEN 0 ELSE Fraction
  BY AccessedNext
<1>3. CaughtUp \in C!Shown
  BY ShownIs
<1>4. Phase' = IF enabled' /\ mode' = "Periodic" THEN C!Reduced(CaughtUp, loadval)
               ELSE CaughtUp
  <2>1. CaughtUp' = IF Running' /\ mode' = "Periodic" /\ Load' = 0 THEN 0 ELSE CaughtUp
    BY AccessedNext
  <2>2. CASE ~ enabled' \/ mode' # "Periodic"
    <3>1. CaughtUp' = CaughtUp /\ Phase' = CaughtUp'
      BY <2>1, <2>2 DEF Running, Phase
    <3> QED BY <2>2, <3>1
  <2>3. CASE enabled' /\ mode' = "Periodic" /\ loadval = {}
    <3>1. loadval' = {} /\ ~ Running'
      BY <2>3 DEF Running, NoLoad
    <3>2. CaughtUp' = CaughtUp /\ Phase' = CaughtUp'
      BY <2>1, <3>1 DEF Phase
    <3>3. C!Reduced(CaughtUp, loadval) = CaughtUp
      BY <2>3 DEF C!Reduced
    <3> QED BY <2>3, <3>2, <3>3
  <2>4. CASE enabled' /\ mode' = "Periodic" /\ loadval # {}
    <3>1. loadval' = loadval /\ Load' = Load /\ loadval = {Load} /\ Running'
      BY <2>4, LoadIs DEF Load, Running, NoLoad
    <3>2. Phase' = IF CaughtUp' = Load THEN 0 ELSE CaughtUp'
      BY <2>4, <3>1 DEF Phase
    <3>3. CaughtUp' = IF Load = 0 THEN 0 ELSE CaughtUp
      BY <2>1, <2>4, <3>1
    <3>4. C!Reduced(CaughtUp, loadval)
            = IF CaughtUp = Load \/ Load = 0 THEN 0 ELSE CaughtUp
      BY <3>1 DEF C!Reduced
    <3> QED BY <2>4, <3>2, <3>3, <3>4
  <2> QED BY <2>2, <2>3, <2>4
<1> QED BY <1>1, <1>2, <1>3, <1>4 DEF C!SetControl, C!Clocks

LEMMA CountsStep ==
  TypeOK /\ TypeOK' /\ LookedAt /\ [Next]_vars => [C!Next]_(C!vars)
<1> SUFFICES ASSUME TypeOK, TypeOK', LookedAt, [Next]_vars
             PROVE  [C!Next]_(C!vars)
  OBVIOUS
<1>1. CASE Read \/ WriteClear \/ FailingUpdate
  <2>1. /\ since' = 0 /\ val' = CaughtUp /\ microticks' = Fraction
        /\ UNCHANGED <<loadval, enabled, mode, clksel>>
    BY <1>1 DEF Read, WriteClear, FailingUpdate, Access, CaughtUp
  <2> QED BY <2>1, ReadKeeps DEF C!vars
<1>2. ASSUME NEW v \in LoadVals, WriteLoad(v) PROVE [C!Next]_(C!vars)
  BY <1>2, LoadSets DEF C!Next
<1>3. ASSUME NEW c \in Clocks, FailingWriteControl(c) PROVE [C!Next]_(C!vars)
  <2>1. /\ since' = 0 /\ val' = CaughtUp /\ microticks' = 0
        /\ ~ enabled /\ enabled' = TRUE /\ loadval' = loadval
    BY <1>3 DEF FailingWriteControl, Access
  <2>2. C!SetControl
    BY <2>1, ControlSets
  <2> QED BY <2>2 DEF C!Next
<1>4. ASSUME NEW c \in Clocks, NEW m \in Modes, NEW e \in BOOLEAN,
             WriteControl(c, m, e)
      PROVE  [C!Next]_(C!vars)
  <2>1. /\ since' = 0 /\ val' = CaughtUp /\ enabled' = e
        /\ loadval' = IF e THEN loadval ELSE {}
        /\ microticks' = IF e /\ ~ enabled THEN 0 ELSE Fraction
    BY <1>4 DEF WriteControl, Access
  <2>2. C!SetControl
    BY <2>1, ControlSets
  <2> QED BY <2>2 DEF C!Next
<1>5. CASE Pass
  BY <1>5, PassCounts
<1>6. CASE FatalAccess \/ Interrupter \/ Drop \/ UNCHANGED vars
  <2>1. UNCHANGED regs
    BY <1>6 DEF FatalAccess, Interrupter, TakeMessage, TimesOut, Fire, FirePanics,
                InterrupterEnds, Drop, DropTimer, DropBus, vars
  <2>2. Phase' = Phase /\ Fraction' = Fraction
    BY <2>1 DEF regs, Phase, Running, NoLoad, CaughtUp, Load, Ticks, Elapsed,
                Fraction
  <2> QED BY <2>1, <2>2 DEF C!vars, regs
<1> QED BY <1>1, <1>2, <1>3, <1>4, <1>5, <1>6 DEF Next, Guest, Ended

\* Value is the counter that goes down at every tick, for every clock, width
\* and Load and whatever the guest does, as long as it looks before 2^32 ticks.
THEOREM Counts == Spec /\ []LookedAt => CountsEveryTick
<1>1. Init => C!Init
  <2> SUFFICES ASSUME Init PROVE C!Init
    OBVIOUS
  <2>1. Phase = 0 /\ Fraction = 0
    BY DEF Init, Phase, Running, CaughtUp, Fraction
  <2>2. clksel \in DOMAIN Khz
    BY TimerAssumption DEF Init, Clocks
  <2> QED BY <2>1, <2>2 DEF Init, C!Init, C!Clocks
<1> QED BY <1>1, CountsStep, TypeCorrect, PTL DEF Spec, CountsEveryTick, C!Spec

-----------------------------------------------------------------------------
(***************************************************************************)
(* When the interrupts are due.  That they are due at 0 is not inductive:  *)
(* the time and the period may still be in the last message, which the     *)
(* interrupter is to follow, and a timer starts at 0 of its cycle only     *)
(* because a disabled one with a Load value shows it.                      *)
(***************************************************************************)
Pending ==
  IF msgs = <<>> THEN {[next |-> d, period |-> period] : d \in next}
  ELSE LET m == msgs[Len(msgs)]
       IN  IF m.kind = "Enabled" THEN {[next |-> m.next, period |-> m.period]} ELSE {}

\* d units of time from now, Value is at 0 of its cycle.
InPhase(d) ==
  \E q \in Int :
    d * Khz[clksel] = Phase * TickUnit - Fraction + (Load * TickUnit) * q

PhaseInv ==
  /\ Timed => \A p \in Pending : p.period = PeriodOf(clksel) /\ InPhase(p.next)
  /\ ~enabled /\ loadval # {} => val = Load

LEMMA PendingType ==
  TypeOK => \A p \in Pending : p.next \in Int /\ p.period \in Nat
<1> SUFFICES ASSUME TypeOK, NEW p \in Pending
             PROVE  p.next \in Int /\ p.period \in Nat
  OBVIOUS
<1>1. CASE msgs = <<>>
  BY <1>1 DEF Pending, TypeOK
<1>2. CASE msgs # <<>>
  <2> DEFINE m == msgs[Len(msgs)]
  <2>1. m \in Message
    BY <1>2 DEF TypeOK
  <2> HIDE DEF m
  <2>2. m.kind = "Enabled" /\ p = [next |-> m.next, period |-> m.period]
    BY <1>2 DEF Pending, m
  <2>3. m \in [kind : {"Enabled"}, next : Int, period : Nat]
    BY <2>1, <2>2 DEF Message, Disabled
  <2> QED BY <2>2, <2>3
<1> QED BY <1>1, <1>2

LEMMA PendingFrame ==
  ASSUME UNCHANGED <<msgs, next, period>> PROVE Pending' = Pending
  BY DEF Pending

\* Taking a message leaves what is pending as it is.
LEMMA PendingTaken ==
  ASSUME TypeOK, TakeMessage PROVE Pending' = Pending
<1>1. msgs \in Seq(Message) /\ msgs # <<>> /\ msgs' = Tail(msgs)
  BY DEF TakeMessage, TypeOK
<1>2. CASE Len(msgs) = 1
  <2>1. msgs[Len(msgs)] = Head(msgs) /\ msgs' = <<>>
    BY <1>1, <1>2
  <2>2. CASE Head(msgs).kind = "Enabled"
    <3>1. next' = {Head(msgs).next} /\ period' = Head(msgs).period
      BY <2>2 DEF TakeMessage
    <3> QED BY <1>1, <2>1, <2>2, <3>1 DEF Pending
  <2>3. CASE Head(msgs).kind # "Enabled"
    <3>1. next' = {}
      BY <2>3 DEF TakeMessage
    <3> QED BY <1>1, <2>1, <2>3, <3>1 DEF Pending
  <2> QED BY <2>2, <2>3
<1>3. CASE Len(msgs) # 1
  <2>1. msgs' # <<>> /\ msgs'[Len(msgs')] = msgs[Len(msgs)]
    BY <1>1, <1>3, TailKeepsLast
  <2> QED BY <1>1, <2>1 DEF Pending
<1> QED BY <1>2, <1>3

\* What is pending comes nearer.
LEMMA PendingNears ==
  ASSUME TypeOK, TypeOK', Pass, NEW p \in Pending'
  PROVE  \E o \in Pending : p.next = o.next - 1 /\ p.period = o.period
<1>1. /\ msgs \in Seq(Message) /\ Len(msgs') = Len(msgs)
      /\ msgs' \in Seq(Message) /\ period' = period /\ next' = {d - 1 : d \in next}
      /\ msgs' = [i \in 1..Len(msgs) |-> Age(msgs[i])]
  BY DEF Pass, TypeOK
<1>2. CASE msgs = <<>>
  <2>1. msgs' = <<>>
    BY <1>1, <1>2
  <2>2. PICK e \in next' : p = [next |-> e, period |-> period']
    BY <2>1 DEF Pending
  <2>3. PICK d \in next : e = d - 1
    BY <1>1, <2>2
  <2>4. [next |-> d, period |-> period] \in Pending
    BY <1>2 DEF Pending
  <2>5. p.next = d - 1 /\ p.period = period
    BY <1>1, <2>2, <2>3
  <2> QED BY <2>4, <2>5
<1>3. CASE msgs # <<>>
  <2> DEFINE m == msgs[Len(msgs)]
             n == msgs'[Len(msgs')]
  <2>1. msgs' # <<>> /\ n = Age(m) /\ m \in Message
    BY <1>1, <1>3
  <2> HIDE DEF m, n
  <2>2. n.kind = m.kind
    BY <2>1, AgeType
  <2>3. n.kind = "Enabled" /\ p = [next |-> n.next, period |-> n.period]
    BY <2>1 DEF Pending, n
  <2>a. m.kind = "Enabled"
    BY <2>2, <2>3
  <2>4. m \in [kind : {"Enabled"}, next : Int, period : Nat]
    BY <2>1, <2>a DEF Message, Disabled
  <2>5. n = [m EXCEPT !.next = @ - 1]
    BY <2>1, <2>2, <2>3 DEF Age
  <2>6. n.next = m.next - 1 /\ n.period = m.period
    BY <2>4, <2>5
  <2>7. [next |-> m.next, period |-> m.period] \in Pending
    BY <1>3, <2>2, <2>3 DEF Pending, m
  <2> QED BY <2>3, <2>6, <2>7
<1> QED BY <1>2, <1>3

\* An interrupt puts the next one off by a period.
LEMMA PendingAfterFire ==
  ASSUME TypeOK, Fire, NEW p \in Pending'
  PROVE  \E o \in Pending : /\ p.period = o.period
                            /\ p.next = o.next \/ p.next = o.next + o.period
<1>1. msgs' = msgs /\ period' = period /\ next' = {d + period : d \in next}
  BY DEF Fire
<1>2. CASE msgs = <<>>
  <2>1. PICK e \in next' : p = [next |-> e, period |-> period']
    BY <1>1, <1>2 DEF Pending
  <2>2. PICK d \in next : e = d + period
    BY <1>1, <2>1
  <2>3. [next |-> d, period |-> period] \in Pending
    BY <1>2 DEF Pending
  <2> QED BY <1>1, <2>1, <2>2, <2>3
<1>3. CASE msgs # <<>>
  <2>1. Pending' = Pending
    BY <1>1, <1>3 DEF Pending
  <2> QED BY <2>1
<1> QED BY <1>2, <1>3

LEMMA TimedTypes ==
  TypeOK /\ Timed =>
    /\ Load \in Nat \ {0} /\ TickUnit \in Nat \ {0} /\ Load * TickUnit \in Nat
    /\ Khz[clksel] \in Nat /\ Phase \in Nat /\ Fraction \in Nat
    /\ Phase * TickUnit \in Int /\ loadval = {Load} /\ enabled
<1> SUFFICES ASSUME TypeOK, Timed
             PROVE  /\ Load \in Nat \ {0} /\ TickUnit \in Nat \ {0}
                    /\ Load * TickUnit \in Nat
                    /\ Khz[clksel] \in Nat /\ Phase \in Nat /\ Fraction \in Nat
                    /\ Phase * TickUnit \in Int /\ loadval = {Load} /\ enabled
  OBVIOUS
<1>1. enabled /\ loadval # {} /\ Load > 0
  BY DEF Timed, Running, NoLoad
<1>2. loadval = {Load} /\ Load \in Nat \ {0} /\ TickUnit \in Nat \ {0}
  BY <1>1, LoadIs, ElapsedType
<1>3. Khz[clksel] \in Nat
  BY ElapsedType
<1>4. Phase \in Nat
  BY ValueType DEF Phase
<1>5. Fraction \in Nat
  BY CaughtUpType, TimerAssumption
<1>6. Load * TickUnit \in Nat /\ Phase * TickUnit \in Int
  BY <1>2, <1>4, Product, ProductType
<1> QED BY <1>1, <1>2, <1>3, <1>4, <1>5, <1>6

LEMMA InPhaseLess ==
  ASSUME NEW d \in Int, NEW K \in Int, NEW x \in Int, NEW M \in Int, NEW q \in Int,
         NEW y \in Int, NEW j \in Int, d * K = x + M * q, y = x - K + M * j
  PROVE  (d - 1) * K = y + M * (q - j)
<1>1. (d - 1) * K = d * K - K /\ M * (q - j) = M * q - M * j
  OBVIOUS
<1>2. M * q \in Int /\ M * j \in Int
  BY Product
<1> QED BY <1>1, <1>2

LEMMA InPhaseMore ==
  ASSUME NEW d \in Int, NEW e \in Int, NEW K \in Int, NEW x \in Int, NEW M \in Int,
         NEW q \in Int, d * K = x + M * q, e * K = M
  PROVE  (d + e) * K = x + M * (q + 1)
<1>1. (d + e) * K = d * K + e * K /\ M * (q + 1) = M * q + M
  OBVIOUS
<1>2. M * q \in Int
  BY Product
<1> QED BY <1>1, <1>2

\* A unit of time brings Value, with its fraction, nearer to 0 by as much.
LEMMA PassNears ==
  ASSUME TypeOK, TypeOK', LookedAt, Pass, Timed
  PROVE  \E j \in Int : Phase' * TickUnit - Fraction'
                          = Phase * TickUnit - Fraction - Khz[clksel]
                              + (Load * TickUnit) * j
<1> DEFINE L == Load
           P == Phase
           R == Phase'
           f == Fraction
           g == Fraction'
           K == Khz[clksel]
           U == TickUnit
<1>1. /\ UNCHANGED <<loadval, val, enabled, mode, clksel, microticks>>
      /\ enabled /\ mode = "Periodic" /\ loadval = {Load}
  BY TimedTypes DEF Pass, Timed
<1>2. /\ L \in Nat \ {0} /\ U \in Nat \ {0} /\ P \in Nat /\ f \in Nat /\ K \in Nat
      /\ P * U \in Int
  BY TimedTypes
<1>3. CASE Fraction + Khz[clksel] >= TickUnit
  <2>1. Ticks' = Ticks + 1 /\ Fraction' = Fraction + Khz[clksel] - TickUnit
    BY <1>1, <1>3, PassTicks
  <2>2. C!CountOne
    BY <1>1, <2>1, TickCounts
  <2>3. R = C!Reduced(IF P = 0 THEN L - 1 ELSE P - 1, {L})
    BY <1>1, <2>2 DEF C!CountOne
  <2>4. g = f + K - U
    BY <2>1
  <2> HIDE DEF L, P, R, f, g, K, U
  <2>5. \/ P = 0 /\ R = L - 1
        \/ P # 0 /\ R = P - 1
        \/ P = L + 1 /\ R = 0
    BY <1>2, <2>3 DEF C!Reduced
  <2>6. CASE P = 0 /\ R = L - 1
    <3>1. R * U = L * U - U /\ P * U = 0 /\ (L * U) * 1 = L * U /\ L * U \in Int
      BY <1>2, <2>6
    <3>2. R * U - g = P * U - f - K + (L * U) * 1
      BY <1>2, <2>4, <3>1
    <3> QED BY <3>2 DEF L, P, R, f, g, K, U
  <2>7. CASE P # 0 /\ R = P - 1
    <3>1. R * U = P * U - U /\ (L * U) * 0 = 0
      BY <1>2, <2>7
    <3>2. R * U - g = P * U - f - K + (L * U) * 0
      BY <1>2, <2>4, <3>1
    <3> QED BY <3>2 DEF L, P, R, f, g, K, U
  <2>8. CASE P = L + 1 /\ R = 0
    <3>1. R * U = 0 /\ P * U = L * U + U /\ (L * U) * (-1) = - (L * U) /\ L * U \in Int
      BY <1>2, <2>8
    <3>2. R * U - g = P * U - f - K + (L * U) * (-1)
      BY <1>2, <2>4, <3>1
    <3> QED BY <3>2 DEF L, P, R, f, g, K, U
  <2> QED BY <2>5, <2>6, <2>7, <2>8
<1>4. CASE ~ (Fraction + Khz[clksel] >= TickUnit)
  <2>1. Ticks' = Ticks /\ Fraction' = Fraction + Khz[clksel]
    BY <1>1, <1>4, PassTicks
  <2>2. Load' = Load /\ Running' = Running /\ NoLoad' = NoLoad
    BY <1>1 DEF Load, Running, NoLoad
  <2>3. Phase' = Phase
    BY <1>1, <2>1, <2>2 DEF Phase, CaughtUp
  <2>4. R = P /\ g = f + K
    BY <2>1, <2>3
  <2> HIDE DEF L, P, R, f, g, K, U
  <2>5. (L * U) * 0 = 0
    BY <1>2
  <2>6. R * U - g = P * U - f - K + (L * U) * 0
    BY <1>2, <2>4, <2>5
  <2> QED BY <2>6 DEF L, P, R, f, g, K, U
<1> QED BY <1>3, <1>4

\* What leaves the registers alone leaves the time that Value is at 0 alone.
LEMMA TimedFrame ==
  ASSUME UNCHANGED <<regs, mixed>>, cpu' = "run" => cpu = "run"
  PROVE  /\ Timed' => Timed
         /\ \A d : InPhase(d)' <=> InPhase(d)
         /\ PeriodOf(clksel)' = PeriodOf(clksel)
<1>1. /\ Load' = Load /\ Running' = Running /\ Phase' = Phase
      /\ Fraction' = Fraction /\ Exact' = Exact
      /\ PeriodOf(clksel)' = PeriodOf(clksel)
  BY DEF regs, Phase, Running, NoLoad, CaughtUp, Load, Ticks, Elapsed, Fraction,
         Exact, PeriodOf
<1>2. Timed' => Timed
  BY <1>1 DEF Timed, regs
<1>3. ASSUME NEW d PROVE InPhase(d)' <=> InPhase(d)
  BY <1>1 DEF InPhase, regs
<1> QED BY <1>1, <1>2, <1>3

\* A read, or a write that changes nothing.
LEMMA TimedAccess ==
  ASSUME TypeOK, TypeOK', since' = 0, val' = CaughtUp, microticks' = Fraction,
         UNCHANGED <<loadval, enabled, mode, clksel, cpu, mixed>>
  PROVE  /\ Timed' => Timed
         /\ \A d : InPhase(d)' <=> InPhase(d)
         /\ PeriodOf(clksel)' = PeriodOf(clksel)
<1>1. Phase' = Phase /\ Fraction' = Fraction
  BY ReadKeeps
<1>2. /\ Load' = Load /\ Running' = Running
      /\ PeriodOf(clksel)' = PeriodOf(clksel)
  BY DEF Running, NoLoad, Load, PeriodOf
<1>3. Exact' = Exact
  BY <1>2 DEF Exact
<1>4. Timed' => Timed
  BY <1>2, <1>3 DEF Timed
<1>5. ASSUME NEW d PROVE InPhase(d)' <=> InPhase(d)
  BY <1>1, <1>2 DEF InPhase
<1> QED BY <1>2, <1>4, <1>5

\* Control sets a timer going.
LEMMA Started ==
  ASSUME TypeOK, TypeOK', PhaseInv, NEW c \in Clocks, NEW m \in Modes,
         NEW e \in BOOLEAN, WriteControl(c, m, e), Starts(m, e), Timed',
         NEW d, d = PeriodOf(c)
  PROVE  /\ Pending' = {[next |-> d, period |-> d]}
         /\ clksel' = c /\ PeriodOf(clksel)' = d
         /\ InPhase(d)'
<1>1. /\ e /\ ~ enabled /\ m = "Periodic" /\ loadval # {} /\ loadval' = loadval
      /\ clksel' = c /\ enabled' /\ mode' = "Periodic" /\ since' = 0
      /\ val' = CaughtUp /\ microticks' = 0
      /\ msgs' = msgs \o Command(c, m, e) /\ msgs \in Seq(Message)
  BY DEF WriteControl, Starts, Access, TypeOK
<1>2. Load' = Load
  BY <1>1 DEF Load
<1>3. PeriodOf(clksel)' = d
  BY <1>1, <1>2 DEF PeriodOf
<1>4. Pending' = {[next |-> d, period |-> d]}
  <2>1. msgs' = Append(msgs, Enabled(d))
    BY <1>1 DEF Command
  <2>2. msgs' # <<>> /\ msgs'[Len(msgs')] = Enabled(d)
    <3>1. msgs \in Seq(Message)
      BY <1>1
    <3> QED BY <2>1, <3>1
  <2>3. /\ Enabled(d).kind = "Enabled"
        /\ Enabled(d).next = d
        /\ Enabled(d).period = d
    BY DEF Enabled
  <2> QED BY <2>2, <2>3 DEF Pending
<1>5. Phase' = 0 /\ Fraction' = 0
  <2>1. val = Load
    BY <1>1 DEF PhaseInv
  <2>2. CaughtUp = val
    BY <1>1 DEF CaughtUp
  <2>3. Fraction' = 0
    BY <1>1, AccessedNext
  <2>4. CaughtUp' = Load'
    BY <1>1, <1>2, <2>1, <2>2, AccessedNext
  <2>5. Phase' = 0
    BY <1>1, <2>4 DEF Phase, Running, NoLoad
  <2> QED BY <2>3, <2>5
<1>6. InPhase(d)'
  <2> DEFINE M == Load' * TickUnit
             k == d * Khz[c]
  <2>1. k = M
    BY <1>1, <1>2, <1>3 DEF Timed, Exact
  <2>2. M \in Int /\ TickUnit \in Int
    <3>1. Load \in Nat /\ TickUnit \in Nat
      BY <1>1, LoadIs, ElapsedType
    <3> QED BY <1>2, <3>1, Product
  <2> HIDE DEF M, k
  <2>3. k = 0 * TickUnit - 0 + M * 1
    BY <2>1, <2>2
  <2> QED BY <1>1, <1>2, <1>5, <2>3 DEF InPhase, M, k
<1> QED BY <1>1, <1>3, <1>4, <1>6

LEMMA PhaseStep ==
  TypeOK /\ TypeOK' /\ LookedAt /\ PhaseInv /\ [Next]_vars => PhaseInv'
<1> SUFFICES ASSUME TypeOK, TypeOK', LookedAt, PhaseInv, [Next]_vars
             PROVE  PhaseInv'
  OBVIOUS
<1>1. CASE Read \/ WriteClear \/ FailingUpdate
  <2>1. /\ since' = 0 /\ val' = CaughtUp /\ microticks' = Fraction
        /\ UNCHANGED <<loadval, enabled, mode, clksel, cpu, mixed, msgs, next, period>>
    BY <1>1 DEF Read, WriteClear, FailingUpdate, Access, CaughtUp, interrupter
  <2>2. Pending' = Pending
    BY <2>1, PendingFrame
  <2>3. Timed' => \A p \in Pending' : p.period = PeriodOf(clksel)' /\ InPhase(p.next)'
    BY <2>1, <2>2, TimedAccess DEF PhaseInv
  <2>4. ~ enabled' /\ loadval' # {} => val' = Load'
    BY <2>1 DEF PhaseInv, CaughtUp, Load
  <2> QED BY <2>3, <2>4 DEF PhaseInv
<1>2. ASSUME NEW v \in LoadVals, WriteLoad(v) PROVE PhaseInv'
  <2>1. ~ enabled' /\ loadval' = {v % Wrap} /\ val' = v % Wrap
    BY <1>2 DEF WriteLoad
  <2>2. Load' = v % Wrap
    BY <2>1 DEF Load
  <2> QED BY <2>1, <2>2 DEF PhaseInv, Timed, Running
<1>3. CASE \E c \in Clocks : FailingWriteControl(c)
  BY <1>3 DEF FailingWriteControl, PhaseInv, Timed, Running, NoLoad
<1>4. ASSUME NEW c \in Clocks, NEW m \in Modes, NEW e \in BOOLEAN,
             WriteControl(c, m, e)
      PROVE  PhaseInv'
  <2>1. /\ since' = 0 /\ val' = CaughtUp /\ clksel' = c /\ mode' = m /\ enabled' = e
        /\ loadval' = IF e THEN loadval ELSE {}
        /\ microticks' = IF e /\ ~ enabled THEN 0 ELSE Fraction
        /\ msgs' = msgs \o Command(c, m, e)
        /\ mixed' = (e /\ (mixed \/ Mixes(c, m, e)))
        /\ cpu' = cpu /\ next' = next /\ period' = period
    BY <1>4 DEF WriteControl, Access, interrupter
  <2>2. ~ (~ enabled' /\ loadval' # {})
    BY <2>1
  <2>3. ASSUME Timed'
        PROVE  \A p \in Pending' : p.period = PeriodOf(clksel)' /\ InPhase(p.next)'
    <3>1. e /\ m = "Periodic" /\ ~ mixed'
      BY <2>1, <2>3 DEF Timed, Running
    <3>2. CASE Starts(m, e)
      <4>1. PICK d : d = PeriodOf(c)
        OBVIOUS
      <4>2. /\ Pending' = {[next |-> d, period |-> d]}
            /\ PeriodOf(clksel)' = d /\ InPhase(d)'
        BY <1>4, <2>3, <3>2, <4>1, Started
      <4> QED BY <4>2
    <3>3. CASE ~ Starts(m, e)
      <4>1. enabled /\ ~ mixed /\ c = clksel /\ m = mode
        BY <2>1, <3>1, <3>3 DEF Starts, Mixes, TypeOK
      <4>2. msgs' = msgs
        BY <2>1, <3>1, <3>3 DEF Command, TypeOK
      <4>3. Pending' = Pending
        BY <2>1, <4>2, PendingFrame
      <4>4. microticks' = Fraction /\ UNCHANGED <<loadval, enabled, mode, clksel, mixed>>
        BY <2>1, <3>1, <4>1 DEF TypeOK
      <4> QED BY <2>1, <2>3, <4>3, <4>4, TimedAccess DEF PhaseInv
    <3> QED BY <3>2, <3>3
  <2> QED BY <2>2, <2>3 DEF PhaseInv
<1>5. CASE FatalAccess \/ TakeMessage \/ TimesOut \/ Fire \/ FirePanics
           \/ InterrupterEnds \/ Drop \/ UNCHANGED vars
  <2>1. UNCHANGED <<regs, mixed>> /\ (cpu' = "run" => cpu = "run")
    BY <1>5 DEF FatalAccess, TakeMessage, TimesOut, Fire, FirePanics,
                InterrupterEnds, Drop, DropTimer, DropBus, vars
  <2>2. /\ Timed' => Timed
        /\ \A d : InPhase(d)' <=> InPhase(d)
        /\ PeriodOf(clksel)' = PeriodOf(clksel)
    BY <2>1, TimedFrame
  <2>3. ~ enabled' /\ loadval' # {} => val' = Load'
    BY <2>1 DEF PhaseInv, regs, Load
  <2>4. CASE ~ Fire
    <3>1. Pending' = Pending
      BY <1>5, <2>4, PendingFrame, PendingTaken
      DEF FatalAccess, TimesOut, FirePanics, InterrupterEnds, Drop, DropTimer,
          DropBus, vars, interrupter
    <3> QED BY <2>2, <2>3, <3>1 DEF PhaseInv
  <2>5. CASE Fire
    <3>1. ASSUME Timed, NEW p \in Pending'
          PROVE  p.period = PeriodOf(clksel) /\ InPhase(p.next)
      <4>1. PICK o \in Pending : /\ p.period = o.period
                                 /\ p.next = o.next \/ p.next = o.next + o.period
        BY <2>5, PendingAfterFire
      <4>2. o.period = PeriodOf(clksel) /\ InPhase(o.next)
        BY <3>1 DEF PhaseInv
      <4>3. CASE p.next = o.next
        BY <4>1, <4>2, <4>3
      <4>4. CASE p.next = o.next + o.period
        <5> DEFINE M == Load * TickUnit
                   x == Phase * TickUnit - Fraction
                   K == Khz[clksel]
                   d == o.next
                   f == o.period
        <5>1. PICK q \in Int : d * K = x + M * q
          BY <4>2 DEF InPhase
        <5>2. f * K = M
          BY <3>1, <4>2 DEF Timed, Exact
        <5>3. d \in Int /\ f \in Int
          BY PendingType
        <5>4. K \in Int /\ M \in Int /\ x \in Int
          BY <3>1, TimedTypes
        <5> HIDE DEF M, x, K, d, f
        <5>5. (d + f) * K = x + M * (q + 1)
          BY <5>1, <5>2, <5>3, <5>4, InPhaseMore
        <5>6. q + 1 \in Int
          OBVIOUS
        <5>7. InPhase(o.next + o.period)
          BY <5>5, <5>6 DEF InPhase, M, x, K, d, f
        <5> QED BY <4>1, <4>2, <4>4, <5>7
      <4> QED BY <4>1, <4>3, <4>4
    <3> QED BY <2>2, <2>3, <3>1 DEF PhaseInv
  <2> QED BY <2>4, <2>5
<1>6. CASE Pass
  <2>1. /\ UNCHANGED <<cpu, loadval, val, enabled, mode, clksel, mixed>>
    BY <1>6 DEF Pass
  <2>2. /\ Load' = Load /\ Running' = Running
        /\ PeriodOf(clksel)' = PeriodOf(clksel)
    BY <2>1 DEF Running, NoLoad, Load, PeriodOf
  <2>3. Timed' => Timed
    BY <2>1, <2>2 DEF Timed, Exact
  <2>4. ASSUME Timed, NEW p \in Pending'
        PROVE  p.period = PeriodOf(clksel) /\ InPhase(p.next)'
    <3>1. PICK o \in Pending : p.next = o.next - 1 /\ p.period = o.period
      BY <1>6, PendingNears
    <3>2. o.period = PeriodOf(clksel) /\ InPhase(o.next)
      BY <2>4 DEF PhaseInv
    <3> DEFINE M == Load * TickUnit
               x == Phase * TickUnit - Fraction
               y == Phase' * TickUnit - Fraction'
               K == Khz[clksel]
               d == o.next
    <3>3. PICK q \in Int : d * K = x + M * q
      BY <3>2 DEF InPhase
    <3>4. PICK j \in Int : y = x - K + M * j
      BY <1>6, <2>4, PassNears
    <3>5. d \in Int /\ K \in Int /\ M \in Int /\ x \in Int
      BY <2>4, PendingType, TimedTypes
    <3>6. y \in Int
      <4> HIDE DEF M, x, y, K
      <4>1. M * j \in Int
        BY <3>5, Product
      <4> QED BY <3>4, <3>5, <4>1
    <3> HIDE DEF M, x, y, K, d
    <3>7. (d - 1) * K = y + M * (q - j) /\ q - j \in Int
      BY <3>3, <3>4, <3>5, <3>6, InPhaseLess
    <3>8. InPhase(o.next - 1)'
      BY <2>1, <2>2, <3>7 DEF InPhase, M, y, K, d
    <3> QED BY <3>1, <3>2, <3>8
  <2>5. ~ enabled' /\ loadval' # {} => val' = Load'
    BY <2>1, <2>2 DEF PhaseInv
  <2> QED BY <2>2, <2>3, <2>4, <2>5 DEF PhaseInv
<1> QED BY <1>1, <1>2, <1>3, <1>4, <1>5, <1>6 DEF Next, Guest, Interrupter, Ended

LEMMA PhaseIsDue == TypeOK /\ PhaseInv => DueAtZero
<1> SUFFICES ASSUME TypeOK, PhaseInv, Timed, msgs = <<>>, NEW d \in next
             PROVE  (d * Khz[clksel] - ToZero) % (Load * TickUnit) = 0
  BY DEF DueAtZero
<1> DEFINE M == Load * TickUnit
           x == Phase * TickUnit - Fraction
           K == Khz[clksel]
<1>1. [next |-> d, period |-> period] \in Pending
  BY DEF Pending
<1>2. InPhase(d)
  BY <1>1 DEF PhaseInv
<1>3. PICK q \in Int : d * K = x + M * q
  BY <1>2 DEF InPhase
<1>4. x \in Int /\ M \in Nat \ {0} /\ ToZero = x % M
  <2>1. /\ Load \in Nat \ {0} /\ TickUnit \in Nat \ {0}
        /\ Phase * TickUnit \in Int /\ Fraction \in Nat
    BY TimedTypes
  <2>2. Load * TickUnit \in Nat \ {0}
    BY <2>1
  <2> QED BY <2>1, <2>2 DEF ToZero
<1> HIDE DEF x, M, K
<1>5. x = M * (x \div M) + (x % M) /\ x \div M \in Int /\ x % M \in 0..(M - 1)
  BY <1>4, Divided
<1> DEFINE a == x \div M
           r == x % M
<1>6. a \in Int /\ r \in Int /\ x = M * a + r /\ d * K = x + M * q
  BY <1>3, <1>4, <1>5
<1> HIDE DEF a, r
<1>7. d * K - r = M * (a + q) + 0
  <2>1. M * (a + q) = M * a + M * q /\ M * a \in Int /\ M * q \in Int
    BY <1>4, <1>6
  <2> QED BY <1>4, <1>6, <2>1
<1>8. (M * (a + q) + 0) % M = 0
  <2>1. a + q \in Int /\ 0 \in 0..(M - 1)
    BY <1>4, <1>6
  <2> QED BY <1>4, <2>1, Division
<1>9. (d * K - r) % M = 0
  BY <1>7, <1>8
<1> QED BY <1>4, <1>9 DEF M, K, r

\* The interrupts of a periodic timer are due when Value passes 0, for every
\* clock and Load that make the period a whole number of units of time,
\* however late the interrupter is and whatever the guest does with Control.
THEOREM DueWhenZero == Spec /\ []LookedAt => []DueAtZero
<1>1. Init => PhaseInv
  BY DEF Init, PhaseInv, Timed, Running
<1> QED BY <1>1, PhaseStep, PhaseIsDue, TypeCorrect, PTL DEF Spec
=============================================================================
