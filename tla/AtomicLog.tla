------------------------------ MODULE AtomicLog ------------------------------
(***************************************************************************)
(* What an audit log promises to those who append to it and read it, and   *)
(* what PipelineService takes for granted: an append is one step, an event *)
(* id is on one line at most, lines are never lost, and a log that was     *)
(* damaged accepts nothing any more.                                       *)
(***************************************************************************)
EXTENDS Naturals, Sequences

CONSTANT Ids    \* stable event ids; 0 is an event without one

VARIABLES
  trail,    \* the event ids of the lines
  broken    \* the chain does not verify

Init ==
  /\ trail = <<>>
  /\ broken = FALSE

Add(id) ==
  /\ ~broken
  /\ \A i \in DOMAIN trail : trail[i] # id \/ id = 0
  /\ trail' = Append(trail, id)
  /\ UNCHANGED broken

Break ==
  /\ broken' = TRUE
  /\ UNCHANGED trail

Next == Break \/ \E id \in Ids \cup {0} : Add(id)

Spec == Init /\ [][Next]_<<trail, broken>>
=============================================================================
