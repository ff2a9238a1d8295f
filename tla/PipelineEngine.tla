--------------------------- MODULE PipelineEngine ---------------------------
(***************************************************************************)
(* The step machine of one pipeline run (pipeline/engine.py) as operators  *)
(* on the persisted run state (RunState of pipeline/models.py).            *)
(*                                                                         *)
(* Steps are numbered in a topological order.  Pipeline.validate rejects   *)
(* every definition whose next and failure edges form a cycle, so such a   *)
(* numbering exists and each edge leads to a larger number; 0 stands for   *)
(* Python's None.  step_history is kept as what the code asks of it: the   *)
(* steps with a "completed" record, those with a "skipped" record, and how *)
(* many "failed" records each step has.                                    *)
(***************************************************************************)
EXTENDS Naturals, Sequences

CONSTANTS
  N,          \* number of steps
  Keys,       \* context keys
  Profile,    \* "production" or "coordination"
  NextOf,     \* next[0] of each step, 0 when next is empty
  FailTo,     \* gate.on_failure, else step.on_gate_failure, else 0
  Requires,   \* gate.must_produce of each step, {} when it has none
  Checked,    \* the steps whose gate has a check_command
  MaxIter,    \* gate.max_iterations, 0 = unlimited
  SkipIf      \* skip_if of each step: {} or one key

Steps == 1 .. N
Production == Profile = "production"

\* What Pipeline.validate lets through (a Production step always has a gate
\* with a check_command and never a skip_if).
ValidPipeline ==
  /\ N \in Nat \ {0}
  /\ Profile \in {"production", "coordination"}
  /\ NextOf \in [Steps -> 0 .. N]
  /\ FailTo \in [Steps -> 0 .. N]
  /\ \A s \in Steps : /\ NextOf[s] # 0 => NextOf[s] > s
                      /\ FailTo[s] # 0 => FailTo[s] > s
  /\ \A t \in 2 .. N : \E s \in Steps : t \in {NextOf[s], FailTo[s]}
  /\ Requires \in [Steps -> SUBSET Keys]
  /\ Checked \subseteq Steps
  /\ MaxIter \in [Steps -> Nat]
  /\ SkipIf \in [Steps -> SUBSET Keys]
  /\ Production => /\ Checked = Steps
                   /\ \A s \in Steps : SkipIf[s] = {}

ASSUME PipelineAssumption == ValidPipeline

\* A context value is absent (or false), a bare flag, or an artifact with content.
Values == {"absent", "flag", "artifact"}
Contexts == [Keys -> Values]

Statuses == {"pending", "running", "verifying", "completed", "failed", "pending_audit"}

\* RunState.verification and RunState.approval_outbox; exec = 0 / id = 0 when empty.
NoLease == [step |-> 0, exec |-> 0, claim |-> 0]
NoEvent == [kind |-> "none", id |-> 0, step |-> 0, outcome |-> "none", exec |-> 0, sink |-> 0]
NoOutbox == [event |-> NoEvent, candidate |-> "pending"]

\* No state file: RunStateStore.save reads a missing file as revision 0.
NoRun == [ rev     |-> 0,
           step    |-> 0,
           status  |-> "pending",
           done    |-> {},
           skipped |-> {},
           failed  |-> [s \in Steps |-> 0],
           ctx     |-> [k \in Keys |-> "absent"],
           lease   |-> NoLease,
           outbox  |-> NoOutbox ]

---------------------------------------------------------------------------
Skips(r, s) == \E k \in SkipIf[s] : r.ctx[k] # "absent"

Complete(r) == [r EXCEPT !.done = @ \cup {r.step}]
Skip(r)     == [r EXCEPT !.skipped = @ \cup {r.step}]
Fail(r)     == [r EXCEPT !.failed[r.step] = @ + 1, !.status = "failed"]
MoveTo(r, s) == [r EXCEPT !.step = s, !.status = "running"]
Finish(r)   == [r EXCEPT !.step = 0, !.status = "completed"]

\* Mutated LimitReached: off by one.
LimitExceeded(r) ==
  /\ MaxIter[r.step] > 0
  /\ r.failed[r.step] > MaxIter[r.step]

LimitReached(r) ==
  /\ MaxIter[r.step] > 0
  /\ r.failed[r.step] >= MaxIter[r.step]

\* Where the while loop of _auto_skip comes by: the least set that has the
\* current step and the successor of each step in it that is skipped.
Visited(r) ==
  LET Closed(S) == /\ r.step \in S
                   /\ \A s \in S : Skips(r, s) /\ NextOf[s] # 0 => NextOf[s] \in S
  IN  {s \in Steps : \A S \in SUBSET Steps : Closed(S) => s \in S}

\* The loop ends at the one step it visits and does not skip; when it skips
\* them all, the run is completed.
AutoSkip(r) ==
  LET over == {s \in Visited(r) : Skips(r, s)}
      left == [r EXCEPT !.skipped = @ \cup over]
  IN  IF r.step = 0 \/ ~Skips(r, r.step) THEN r
      ELSE IF over = Visited(r) THEN Finish(left)
      ELSE MoveTo(left, CHOOSE s \in Visited(r) : s \notin over)

\* From a step that is over to its successor, or the end of the run.
Leave(r) ==
  IF NextOf[r.step] = 0 THEN Finish(r)
  ELSE AutoSkip(MoveTo(r, NextOf[r.step]))

\* PipelineEngine.start, without the run's identity.
Started(ctx) == AutoSkip(MoveTo([NoRun EXCEPT !.ctx = ctx], 1))

\* complete_and_advance once the gate's outcome is known.
GatePassed(r) == Leave(Complete(r))

\* Mutated GateFailed: without a branch the run goes on.
GateFailedGoesOn(r) == Leave(Fail(r))

GateFailed(r) ==
  IF FailTo[r.step] = 0 THEN Fail(r)
  ELSE AutoSkip(MoveTo(Fail(r), FailTo[r.step]))

\* Gate.check can succeed only if every required artifact has content; its
\* other conditions (length, digest, age, file identity) are left open.
CanPass(r) == \A k \in Requires[r.step] : r.ctx[k] = "artifact"

\* PipelineEngine.advance, which takes the gate as already passed.
Advance(r) ==
  IF r.step = 0
  THEN [r EXCEPT !.status = IF @ = "running" THEN "completed" ELSE @]
  ELSE IF r.step \in r.done \cup r.skipped \/ r.failed[r.step] > 0
  THEN Leave(r)
  ELSE IF Skips(r, r.step) THEN Leave(Skip(r))
  ELSE r

\* PipelineEngine.resume.  For a Production run that is neither completed nor
\* failed it raises: CanResume says when it returns.
CanResume(r) == ~Production \/ r.status \in {"completed", "failed"}
Resume(r) ==
  IF r.status = "completed" THEN r
  ELSE IF r.status # "failed" THEN Advance(r)
  ELSE IF r.step # 0 /\ LimitReached(r) THEN r
  ELSE [r EXCEPT !.status = "running"]
=============================================================================
