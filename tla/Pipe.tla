-------------------------------- MODULE Pipe --------------------------------
(***************************************************************************)
(* What a direction of a UART promises the guest and the host: characters, *)
(* numbered in the order they are put in, come out in that order, each     *)
(* once.  One may be lost on the way, and then the pipe says so until the  *)
(* reader has acknowledged it.                                             *)
(***************************************************************************)
EXTENDS Integers, SequencesExt

VARIABLES
  put,     \* characters put in
  queue,   \* those under way, oldest first
  out,     \* those taken out, in that order
  lost,    \* how many were lost ...
  acked,   \* ... and how many of them the reader has acknowledged
  told     \* the pipe says that there are others

vars == <<put, queue, out, lost, acked, told>>

Init ==
  /\ put = 0 /\ queue = <<>> /\ out = <<>>
  /\ lost = 0 /\ acked = 0 /\ told = FALSE

Put ==
  /\ put' = put + 1
  /\ queue' = Append(queue, put')
  /\ UNCHANGED <<out, lost, acked, told>>

Take ==
  /\ queue # <<>>
  /\ out' = Append(out, Head(queue))
  /\ queue' = Tail(queue)
  /\ UNCHANGED <<put, lost, acked, told>>

Lose ==
  /\ \E i \in 1..Len(queue) : queue' = RemoveAt(queue, i)
  /\ lost' = lost + 1 /\ told' = TRUE
  /\ UNCHANGED <<put, out, acked>>

Acknowledge ==
  /\ acked' = lost /\ told' = FALSE
  /\ UNCHANGED <<put, queue, out, lost>>

Next == Put \/ Take \/ Lose \/ Acknowledge

Spec == Init /\ [][Next]_vars
=============================================================================
