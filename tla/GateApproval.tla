---------------------------- MODULE GateApproval ----------------------------
(***************************************************************************)
(* What a Production run promises to the readers of its audit log: the log *)
(* is the run.  It opens with the start of the run, and every later line   *)
(* decides the step the run is at: a passing line moves the run to that    *)
(* step's successor in the same instant, a failing line leaves it there.   *)
(* No line decides a step the run has not reached, decides a passed step   *)
(* again, or speaks for a position that was lost.  An advance of a run     *)
(* that is over adds a line without a step.                                *)
(***************************************************************************)
EXTENDS Naturals, Sequences

CONSTANTS
  N,        \* number of steps
  NextOf    \* the successor of each step, 0 for none

VARIABLES
  trail,    \* the audit log
  pos       \* the step the run is at for a reader, 0 when it is completed

Line(s, o) == [step |-> s, outcome |-> o]

Init ==
  /\ trail = <<>>
  /\ pos = 1

Open ==
  /\ trail = <<>>
  /\ trail' = Append(trail, Line(1, "pending_commit"))
  /\ UNCHANGED pos

Approve ==
  /\ trail # <<>>
  /\ pos # 0
  /\ trail' = Append(trail, Line(pos, "gate_passed"))
  /\ pos' = NextOf[pos]

Refuse ==
  /\ trail # <<>>
  /\ pos # 0
  /\ trail' = Append(trail, Line(pos, "gate_failed"))
  /\ UNCHANGED pos

Repeat ==
  /\ pos = 0
  /\ trail' = Append(trail, Line(0, "gate_passed"))
  /\ UNCHANGED pos

Next == Open \/ Approve \/ Refuse \/ Repeat

Spec == Init /\ [][Next]_<<trail, pos>>
=============================================================================
