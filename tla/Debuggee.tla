------------------------------ MODULE Debuggee ------------------------------
(***************************************************************************)
(* What a debugger may rely on: between its commands the program stands    *)
(* still, a breakpoint is never run past, and a program that has crashed   *)
(* never runs again.                                                       *)
(***************************************************************************)
VARIABLES
  turn,      \* "client" may look and edit, "guest" runs, or "none" does
  attached,  \* the client is to be told of breakpoints
  dead,      \* the program has crashed, and may only be looked at
  world,     \* what the program's instructions change, and ...
  at,        \* ... where it is
  asleep,    \* it executes no instruction until it is woken
  breaks,    \* the breakpoints
  fresh      \* it stands where it was resumed, or where it was woken

guest == <<world, at, asleep>>
vars  == <<turn, attached, dead, world, at, asleep, breaks, fresh>>

Init ==
  /\ turn = (IF attached THEN "client" ELSE "guest")
  /\ attached \in BOOLEAN /\ ~dead

Edit ==
  /\ turn = "client" /\ turn' = "client"
  /\ UNCHANGED <<attached, dead>>

Resume ==
  /\ turn = "client" /\ turn' = "guest"
  /\ fresh' = TRUE
  /\ UNCHANGED <<dead, guest, breaks>>

Execute ==
  /\ turn = "guest" /\ ~dead /\ ~asleep
  /\ attached => fresh \/ at \notin breaks
  /\ (turn' = "guest" /\ attached /\ fresh') => fresh
  /\ UNCHANGED <<dead, breaks>>

\* It wakes into whatever its interrupt makes it run.
Wake ==
  /\ turn = "guest" /\ ~dead /\ asleep
  /\ asleep' => UNCHANGED <<world, at>>
  /\ UNCHANGED <<dead, breaks>>

Stop ==
  /\ turn' \in {"client", "none"}
  /\ UNCHANGED <<dead, guest, breaks>>

PostMortem ==
  /\ turn = "none" /\ dead' = TRUE
  /\ UNCHANGED <<guest, breaks>>

Next == Edit \/ Resume \/ Execute \/ Wake \/ Stop \/ PostMortem

Spec == Init /\ [][Next]_vars
=============================================================================
