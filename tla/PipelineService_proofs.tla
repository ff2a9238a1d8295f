----------------------- MODULE PipelineService_proofs -----------------------
(***************************************************************************)
(* Proofs about PipelineService for every pipeline, every set of callers   *)
(* and of audit directories: first what holds in both profiles, with the   *)
(* copies that callers have of the run (PipelineCopies), then the audit    *)
(* log and the state file of a production run (PipelineAudit).             *)
(***************************************************************************)
EXTENDS PipelineAudit, TLAPS, FiniteSetTheorems, SequenceTheorems

---------------------------------------------------------------------------
(* The step machine *)

\* A production pipeline has no skip_if, so _auto_skip does nothing.
LEMMA NothingSkipped ==
  ASSUME Production, NEW r \in Runs
  PROVE  AutoSkip(r) = r
BY PipelineAssumption DEF AutoSkip, Skips, ValidPipeline, Runs, Steps

\* A run stays a run when it moves and when its history grows.
LEMMA StepIn ==
  ASSUME NEW r \in Runs, r.step # 0
  PROVE  r.step \in Steps
BY PipelineAssumption DEF Runs, Steps, ValidPipeline

\* The values of status, as a fact for the steps that assign one.
LEMMA StatusIn ==
  {"pending", "running", "verifying", "completed", "failed", "pending_audit"} \subseteq Statuses
BY DEF Statuses

\* fail_current keeps a run a run.
LEMMA FailType ==
  ASSUME NEW r \in Runs, r.step # 0
  PROVE  Fail(r) \in Runs
<1>1. r.step \in Steps
  BY StepIn
<1>2. "failed" \in Statuses
  BY StatusIn
<1> DEFINE attempts == [r.failed EXCEPT ![r.step] = @ + 1]
<1>3. attempts \in [Steps -> Nat]
  BY <1>1 DEF Runs
<1>4. Fail(r) = [r EXCEPT !.failed = attempts, !.status = "failed"]
  BY DEF Fail
<1> HIDE DEF attempts
<1> QED
  BY <1>2, <1>3, <1>4 DEF Runs

\* complete_current keeps a run a run.
LEMMA CompleteType ==
  ASSUME NEW r \in Runs, r.step # 0
  PROVE  Complete(r) \in Runs
<1>1. r.step \in Steps
  BY StepIn
<1> QED
  BY <1>1 DEF Complete, Runs

\* advance_to keeps a run a run.
LEMMA MoveToType ==
  ASSUME NEW r \in Runs, NEW s \in 0 .. N
  PROVE  MoveTo(r, s) \in Runs
<1>1. "running" \in Statuses
  BY StatusIn
<1> QED
  BY <1>1 DEF MoveTo, Runs

\* The end of a run is a run.
LEMMA FinishType ==
  ASSUME NEW r \in Runs
  PROVE  Finish(r) \in Runs
<1>1. "completed" \in Statuses
  BY StatusIn
<1>2. 0 \in 0 .. N
  BY PipelineAssumption DEF ValidPipeline
<1> QED
  BY <1>1, <1>2 DEF Finish, Runs

\* The run q is the run r, further on: nothing but the step, the status and
\* the skipped steps differs.
Moved(r, q) ==
  /\ q.rev = r.rev /\ q.done = r.done /\ q.failed = r.failed
  /\ q.lease = r.lease /\ q.outbox = r.outbox
  /\ r.skipped \subseteq q.skipped
  /\ q.step # 0 => r.step # 0 /\ r.step <= q.step

\* Moving to the end or upwards.
LEMMA MoveToMoves ==
  ASSUME NEW r \in Runs, NEW s \in 0 .. N, s # 0 => r.step # 0 /\ r.step <= s
  PROVE  MoveTo(r, s) \in Runs /\ Moved(r, MoveTo(r, s))
<1>1. MoveTo(r, s) \in Runs
  BY MoveToType
<1> QED
  BY <1>1 DEF MoveTo, Moved, Runs

\* The end of the run.
LEMMA FinishMoves ==
  ASSUME NEW r \in Runs
  PROVE  Finish(r) \in Runs /\ Moved(r, Finish(r))
<1>1. Finish(r) \in Runs
  BY FinishType
<1> QED
  BY <1>1 DEF Finish, Moved, Runs

\* A run that moved twice has moved.
LEMMA MovedTwice ==
  ASSUME NEW r \in Runs, NEW q \in Runs, NEW x \in Runs, Moved(r, q), Moved(q, x)
  PROVE  Moved(r, x)
<1>1. r.step \in Nat /\ q.step \in Nat /\ x.step \in Nat
  BY PipelineAssumption DEF Runs, ValidPipeline
<1> QED
  BY <1>1 DEF Moved

\* _auto_skip comes by the current step and later ones only.
LEMMA VisitedIs ==
  ASSUME NEW r \in Runs, r.step # 0
  PROVE  /\ r.step \in Visited(r)
         /\ Visited(r) \subseteq {s \in Steps : r.step <= s}
<1> DEFINE later == {s \in Steps : r.step <= s}
           Closed(S) == /\ r.step \in S
                        /\ \A s \in S : Skips(r, s) /\ NextOf[s] # 0 => NextOf[s] \in S
<1>1. r.step \in Steps /\ r.step \in Nat /\ N \in Nat /\ \A s \in Steps : s \in Nat
  BY StepIn, PipelineAssumption DEF Steps, ValidPipeline
<1>2. ASSUME NEW s \in Steps, NextOf[s] # 0
      PROVE  NextOf[s] \in Steps /\ s <= NextOf[s]
  <2>1. NextOf[s] \in 0 .. N /\ NextOf[s] > s
    BY <1>2, PipelineAssumption DEF ValidPipeline
  <2> QED
    BY <1>1, <1>2, <2>1 DEF Steps
<1>3. ASSUME NEW s \in later, NextOf[s] # 0
      PROVE  NextOf[s] \in later
  <2>1. NextOf[s] \in Steps /\ s <= NextOf[s] /\ s \in Steps /\ r.step <= s
    BY <1>2, <1>3
  <2>2. r.step <= NextOf[s]
    <3>1. s \in Nat /\ NextOf[s] \in Nat
      BY <1>1, <2>1
    <3> QED
      BY <1>1, <2>1, <3>1
  <2> QED
    BY <2>1, <2>2
<1>4. Closed(later) /\ later \in SUBSET Steps
  <2>1. r.step \in later
    BY <1>1
  <2> HIDE DEF later
  <2> QED
    BY <1>3, <2>1 DEF later
<1>5. r.step \in Visited(r)
  BY <1>1 DEF Visited
<1> HIDE DEF later
<1>6. Visited(r) \subseteq later
  BY <1>4 DEF Visited
<1> QED
  BY <1>5, <1>6 DEF later

\* _auto_skip moves a run on.
LEMMA AutoSkipIs ==
  ASSUME NEW r \in Runs
  PROVE  AutoSkip(r) \in Runs /\ Moved(r, AutoSkip(r))
<1> DEFINE over == {s \in Visited(r) : Skips(r, s)}
           left == [r EXCEPT !.skipped = @ \cup over]
           rest == CHOOSE s \in Visited(r) : s \notin over
<1>1. AutoSkip(r) = IF r.step = 0 \/ ~Skips(r, r.step) THEN r
                    ELSE IF over = Visited(r) THEN Finish(left)
                    ELSE MoveTo(left, rest)
  BY DEF AutoSkip
<1>2. CASE r.step = 0 \/ ~Skips(r, r.step)
  <2>1. r.step \in Nat
    BY PipelineAssumption DEF Runs, ValidPipeline
  <2> QED
    BY <1>1, <1>2, <2>1 DEF Moved
<1>3. CASE ~(r.step = 0 \/ ~Skips(r, r.step))
  <2>1. Visited(r) \subseteq {s \in Steps : r.step <= s}
    BY <1>3, VisitedIs
  <2>2. over \subseteq Steps /\ over \subseteq Visited(r)
    BY <2>1
  <2> HIDE DEF over
  <2>3. left \in Runs /\ left.step = r.step /\ Moved(r, left)
    <3>1. r.step \in Nat
      BY PipelineAssumption DEF Runs, ValidPipeline
    <3> QED
      BY <2>2, <3>1 DEF Runs, Moved
  <2> HIDE DEF left
  <2>4. CASE over = Visited(r)
    BY <1>1, <1>3, <2>3, <2>4, FinishMoves, MovedTwice
  <2>5. CASE over # Visited(r)
    <3>1. rest \in Visited(r)
      BY <2>2, <2>5
    <3> HIDE DEF rest
    <3>2. rest \in 0 .. N /\ r.step <= rest
      BY <2>1, <3>1, PipelineAssumption DEF Steps, ValidPipeline
    <3>3. MoveTo(left, rest) \in Runs /\ Moved(left, MoveTo(left, rest))
      BY <1>3, <2>3, <3>2, MoveToMoves
    <3> QED
      BY <1>1, <1>3, <2>3, <2>5, <3>3, MovedTwice
  <2> QED
    BY <2>4, <2>5
<1> QED
  BY <1>2, <1>3

\* Leaving a step moves a run on.
LEMMA LeaveMoves ==
  ASSUME NEW r \in Runs, r.step # 0
  PROVE  Leave(r) \in Runs /\ Moved(r, Leave(r))
<1>1. /\ r.step \in Steps /\ N \in Nat /\ NextOf[r.step] \in 0 .. N
      /\ NextOf[r.step] # 0 => NextOf[r.step] > r.step
  BY StepIn, PipelineAssumption DEF ValidPipeline
<1>2. CASE NextOf[r.step] = 0
  BY <1>2, FinishMoves DEF Leave
<1>3. CASE NextOf[r.step] # 0
  <2> DEFINE q == MoveTo(r, NextOf[r.step])
  <2>1. q \in Runs /\ Moved(r, q)
    BY <1>1, <1>3, MoveToMoves DEF Steps
  <2>2. Leave(r) = AutoSkip(q)
    BY <1>3 DEF Leave
  <2> HIDE DEF q
  <2> QED
    BY <2>1, <2>2, AutoSkipIs, MovedTwice
<1> QED
  BY <1>2, <1>3

\* A passed gate completes the step, unless the limit was reached.
LEMMA GatePassedAttempts ==
  ASSUME NEW r \in Runs, r.step # 0
  PROVE  /\ GatePassed(r) \in Runs /\ GatePassed(r).rev = r.rev
         /\ ~LimitReached(r) => Attempted(r, GatePassed(r))
<1> DEFINE c == Complete(r)
<1>1. c \in Runs /\ c.step = r.step /\ c.rev = r.rev
      /\ c.done = r.done \cup {r.step} /\ c.failed = r.failed /\ c.skipped = r.skipped
  BY CompleteType DEF Complete, Runs
<1>2. GatePassed(r) = Leave(c)
  BY DEF GatePassed
<1> HIDE DEF c
<1>3. Leave(c) \in Runs /\ Moved(c, Leave(c))
  BY <1>1, LeaveMoves
<1> QED
  BY <1>1, <1>2, <1>3 DEF Moved, Attempted

\* A recorded failure leaves the run at its step.
LEMMA FailAttempts ==
  ASSUME NEW r \in Runs, r.step # 0
  PROVE  /\ Fail(r) \in Runs /\ Fail(r).rev = r.rev /\ Fail(r).step = r.step
         /\ Attempted(r, Fail(r))
<1>1. r.step \in Nat
  BY PipelineAssumption DEF Runs, ValidPipeline
<1>2. /\ Fail(r).rev = r.rev /\ Fail(r).step = r.step /\ Fail(r).skipped = r.skipped
      /\ Fail(r).done = r.done /\ Fail(r).failed = [r.failed EXCEPT ![r.step] = @ + 1]
  BY DEF Fail, Runs
<1> QED
  BY <1>1, <1>2, FailType DEF Attempted

\* A failed gate is recorded, and the run stays or moves up to the branch.
LEMMA GateFailedAttempts ==
  ASSUME NEW r \in Runs, r.step # 0
  PROVE  GateFailed(r) \in Runs /\ GateFailed(r).rev = r.rev /\ Attempted(r, GateFailed(r))
<1> DEFINE f == Fail(r)
<1>1. f \in Runs /\ f.rev = r.rev /\ f.step = r.step /\ Attempted(r, f)
  BY FailAttempts
<1>2. /\ r.step \in Steps /\ N \in Nat /\ FailTo[r.step] \in 0 .. N
      /\ FailTo[r.step] # 0 => FailTo[r.step] > r.step
  BY StepIn, PipelineAssumption DEF ValidPipeline
<1>3. CASE FailTo[r.step] = 0
  BY <1>1, <1>3 DEF GateFailed
<1>4. CASE FailTo[r.step] # 0
  <2> DEFINE g == MoveTo(f, FailTo[r.step])
  <2>1. GateFailed(r) = AutoSkip(g)
    BY <1>4 DEF GateFailed
  <2> HIDE DEF f
  <2>2. g \in Runs /\ Moved(f, g)
    BY <1>1, <1>2, <1>4, MoveToMoves DEF Steps
  <2> HIDE DEF g
  <2>3. AutoSkip(g) \in Runs /\ Moved(f, AutoSkip(g))
    BY <1>1, <2>2, AutoSkipIs, MovedTwice
  <2>4. r.step \in Nat /\ AutoSkip(g).step \in Nat
    BY <2>3, <1>2 DEF Runs, Steps
  <2> QED
    BY <1>1, <2>1, <2>3, <2>4 DEF Moved, Attempted
<1> QED
  BY <1>3, <1>4

\* Skipping the current step records it and nothing else.
LEMMA SkipMoves ==
  ASSUME NEW r \in Runs, r.step # 0
  PROVE  Skip(r) \in Runs /\ Moved(r, Skip(r)) /\ Skip(r).step = r.step
<1>1. r.step \in Steps /\ r.step \in Nat
  BY StepIn, PipelineAssumption DEF Runs, ValidPipeline
<1> QED
  BY <1>1 DEF Skip, Moved, Runs

\* resume moves a run on, and records nothing but skipped steps.
LEMMA ResumeMoves ==
  ASSUME NEW r \in Runs
  PROVE  Resume(r) \in Runs /\ Moved(r, Resume(r))
<1>0. r.step \in Nat
  BY PipelineAssumption DEF Runs, ValidPipeline
<1>1. \A st \in Statuses : [r EXCEPT !.status = st] \in Runs /\ Moved(r, [r EXCEPT !.status = st])
  BY <1>0 DEF Runs, Moved
<1>2. Moved(r, r)
  BY <1>0 DEF Moved
<1>3. Advance(r) \in Runs /\ Moved(r, Advance(r))
  <2>1. CASE r.step = 0
    <3>1. Advance(r) = [r EXCEPT !.status = IF r.status = "running" THEN "completed" ELSE r.status]
      BY <2>1 DEF Advance
    <3>2. (IF r.status = "running" THEN "completed" ELSE r.status) \in Statuses
      BY StatusIn DEF Runs
    <3> QED
      BY <1>1, <3>1, <3>2
  <2>2. CASE r.step # 0
    <3>1. Leave(r) \in Runs /\ Moved(r, Leave(r))
      BY <2>2, LeaveMoves
    <3>2. Leave(Skip(r)) \in Runs /\ Moved(r, Leave(Skip(r)))
      <4>1. Skip(r) \in Runs /\ Moved(r, Skip(r)) /\ Skip(r).step # 0
        BY <2>2, SkipMoves
      <4>2. Leave(Skip(r)) \in Runs /\ Moved(Skip(r), Leave(Skip(r)))
        BY <4>1, LeaveMoves
      <4> QED
        BY <4>1, <4>2, MovedTwice
    <3>3. Advance(r) \in {Leave(r), Leave(Skip(r)), r}
      BY <2>2 DEF Advance
    <3> QED
      BY <1>2, <3>1, <3>2, <3>3
  <2> QED
    BY <2>1, <2>2
<1> QED
  BY <1>1, <1>2, <1>3, StatusIn DEF Resume

\* What leaving a step of a production run does.
LEMMA LeaveIs ==
  ASSUME Production, NEW r \in Runs, r.step # 0
  PROVE  /\ Leave(r) \in Runs
         /\ Leave(r) = IF NextOf[r.step] = 0 THEN Finish(r) ELSE MoveTo(r, NextOf[r.step])
<1>1. r.step \in Steps /\ NextOf[r.step] \in 0 .. N
  BY PipelineAssumption DEF Runs, Steps, ValidPipeline
<1>2. CASE NextOf[r.step] = 0
  BY <1>2, FinishType DEF Leave
<1>3. CASE NextOf[r.step] # 0
  <2>1. MoveTo(r, NextOf[r.step]) \in Runs
    BY <1>1, MoveToType
  <2> QED
    BY <2>1, <1>3, NothingSkipped DEF Leave
<1> QED
  BY <1>2, <1>3

\* What an evaluation of the step s may record: success, failure, or nothing
\* when the run has no step any more.
Recorded(r, q) ==
  /\ q.rev = r.rev /\ q.skipped = r.skipped
  /\ \/ /\ r.step = 0
        /\ q.status = "failed" => r.status = "failed"
        /\ q.step = 0 /\ q.done = r.done /\ q.failed = r.failed
     \/ /\ r.step # 0
        /\ q.status # "failed"
        /\ q.step = NextOf[r.step]
        /\ q.done = r.done \cup {r.step} /\ q.failed = r.failed
     \/ /\ r.step # 0
        /\ \/ q.status = "failed" /\ q.step = r.step
           \/ q.status # "failed" /\ FailTo[r.step] # 0 /\ q.step = FailTo[r.step]
        /\ q.done = r.done /\ q.failed = [r.failed EXCEPT ![r.step] = @ + 1]

\* A passed gate records its own step as completed and nothing else.
LEMMA GatePassedIs ==
  ASSUME Production, NEW r \in Runs, r.step # 0
  PROVE  /\ GatePassed(r) \in Runs
         /\ Recorded(r, GatePassed(r))
<1> DEFINE c == Complete(r)
<1>1. c \in Runs /\ c.step = r.step /\ c.rev = r.rev
  BY CompleteType DEF Complete, Runs
<1>2. c.done = r.done \cup {r.step} /\ c.failed = r.failed /\ c.skipped = r.skipped
  BY DEF Complete, Runs
<1>3. /\ Leave(c) \in Runs
      /\ Leave(c) = IF NextOf[c.step] = 0 THEN Finish(c) ELSE MoveTo(c, NextOf[c.step])
  BY <1>1, LeaveIs
<1>4. /\ Leave(c).rev = c.rev /\ Leave(c).step = NextOf[c.step]
      /\ Leave(c).done = c.done /\ Leave(c).failed = c.failed
      /\ Leave(c).skipped = c.skipped
      /\ Leave(c).status # "failed"
  <2> HIDE DEF c
  <2> QED
    BY <1>1, <1>3 DEF Finish, MoveTo, Runs
<1> QED
  BY <1>1, <1>2, <1>3, <1>4 DEF GatePassed, Recorded

\* A failure is recorded for the current step only, which stays current.
LEMMA FailIs ==
  ASSUME NEW r \in Runs, r.step # 0
  PROVE  /\ Fail(r) \in Runs
         /\ Recorded(r, Fail(r))
         /\ Fail(r).step = r.step
BY FailType DEF Fail, Recorded, Runs

\* A failed gate records its own step as failed, with or without a branch.
LEMMA GateFailedIs ==
  ASSUME Production, NEW r \in Runs, r.step # 0
  PROVE  /\ GateFailed(r) \in Runs
         /\ Recorded(r, GateFailed(r))
<1> DEFINE f == Fail(r)
<1>1. /\ f \in Runs /\ Recorded(r, f)
      /\ f.rev = r.rev /\ f.done = r.done /\ f.skipped = r.skipped /\ f.step = r.step
      /\ f.failed = [r.failed EXCEPT ![r.step] = @ + 1]
  BY FailIs DEF Fail, Runs
<1>2. r.step \in Steps /\ FailTo[r.step] \in 0 .. N
  BY StepIn, PipelineAssumption DEF ValidPipeline
<1>3. CASE FailTo[r.step] = 0
  BY <1>1, <1>3 DEF GateFailed
<1>4. CASE FailTo[r.step] # 0
  <2> HIDE DEF f
  <2> DEFINE g == MoveTo(f, FailTo[r.step])
  <2>1. g \in Runs /\ AutoSkip(g) = g
    BY <1>1, <1>2, MoveToType, NothingSkipped
  <2>2. /\ g.rev = f.rev /\ g.done = f.done /\ g.skipped = f.skipped
        /\ g.failed = f.failed /\ g.step = FailTo[r.step] /\ g.status # "failed"
    BY <1>1 DEF MoveTo, Runs
  <2>3. GateFailed(r) = g
    BY <2>1, <1>4 DEF GateFailed, f
  <2> HIDE DEF g
  <2> QED
    BY <1>1, <1>4, <2>1, <2>2, <2>3 DEF Recorded
<1> QED
  BY <1>3, <1>4

---------------------------------------------------------------------------
(* Types *)

\* The missing file counts as a run of revision 0.
LEMMA NoRunType == NoRun \in Runs /\ NoRun.step = 0
<1>1. N \in Nat
  BY PipelineAssumption DEF ValidPipeline
<1>2. NoEvent \in Events
  BY <1>1 DEF NoEvent, Events
<1>3. NoOutbox \in [event : Events, candidate : Statuses]
  BY <1>2, StatusIn DEF NoOutbox
<1>4. [k \in Keys |-> "absent"] \in Contexts
  BY DEF Contexts, Values
<1>5. NoLease \in [step : 0 .. N, exec : Nat, claim : Nat]
  BY <1>1 DEF NoLease
<1> QED
  BY <1>1, <1>3, <1>4, <1>5, StatusIn DEF NoRun, Runs

\* context.update yields a context.
LEMMA UpdateType ==
  ASSUME NEW ctx \in Contexts, NEW input \in Inputs
  PROVE  Update(ctx, input) \in Contexts
<1>1. PICK K \in SUBSET Keys : input \in [K -> Values]
  BY ServiceAssumption
<1> QED
  BY <1>1 DEF Update, Contexts

\* Loading changes the status of a run at most.
LEMMA MaterializeType ==
  ASSUME NEW r \in Runs
  PROVE  /\ Materialize(r) \in Runs
         /\ \E st \in Statuses : Materialize(r) = [r EXCEPT !.status = st]
<1>1. \A st \in Statuses : [r EXCEPT !.status = st] \in Runs
  BY DEF Runs
<1>2. r.outbox.candidate \in Statuses /\ "pending_audit" \in Statuses /\ r.status \in Statuses
  BY StatusIn DEF Runs
<1>3. r = [r EXCEPT !.status = r.status]
  BY DEF Runs
<1> QED
  BY <1>1, <1>2, <1>3 DEF Materialize

\* Both outcomes of save keep the file, the copies and the points of calls in
\* their domains.
LEMMA SaveType ==
  ASSUME TypeOK, NEW p \in Callers, NEW r \in Runs, NEW next \in PCs, Save(p, r, next)
  PROVE  /\ disk' \in Runs
         /\ pc' \in [Callers -> PCs]
         /\ mem' \in [Callers -> Runs]
<1> DEFINE saved == [r EXCEPT !.rev = disk.rev + 1]
<1>1. saved \in Runs
  <2>1. disk.rev + 1 \in Nat
    BY DEF TypeOK, Runs
  <2> QED
    BY <2>1 DEF Runs
<1>2. "idle" \in PCs
  BY DEF PCs
<1>3. disk' \in Runs
  BY <1>1 DEF Save, TypeOK
<1> HIDE DEF saved
<1>4. \/ Return(p)
      \/ Continue(p, saved, next)
  BY DEF Save, saved
<1> QED
  BY <1>1, <1>2, <1>3, <1>4, NoRunType DEF TypeOK, Return, Continue

\* A strict append leaves a sequence of events.
LEMMA AppendType ==
  ASSUME TypeOK, NEW snk \in Sinks, NEW event \in Events, AppendStrict(snk, event)
  PROVE  log' \in Seq(Events)
<1>1. [event EXCEPT !.sink = snk] \in Events
  BY DEF Events
<1> QED
  BY <1>1 DEF AppendStrict, TypeOK

\* The outbox of a result holds an event.
LEMMA EvaluatedType ==
  ASSUME TypeOK, NEW p \in Callers, NEW r \in Runs, Evaluated(p, r)
  PROVE  /\ fresh' \in Nat
         /\ pc' \in [Callers -> PCs]
         /\ mem' \in [Callers -> Runs]
<1> DEFINE event == [ kind    |-> "evaluated",
                      id      |-> fresh + 1,
                      step    |-> mem[p].step,
                      outcome |-> IF r.status = "failed" THEN "gate_failed" ELSE "gate_passed",
                      exec    |-> IF mem[p].step \in Checked THEN mem[p].lease.exec ELSE 0,
                      sink    |-> sink[p] ]
<1>1. event \in Events
  <2>1. mem[p].step \in 0 .. N /\ mem[p].lease.exec \in Nat /\ sink[p] \in Sinks /\ fresh + 1 \in Nat
    BY SMTT(30) DEF TypeOK, Runs
  <2> QED
    BY <2>1 DEF Events
<1>2. NoLease \in [step : 0 .. N, exec : Nat, claim : Nat]
  BY PipelineAssumption DEF NoLease, ValidPipeline
<1>3. r.status \in Statuses
  BY DEF Runs
<1> DEFINE outbox == [event |-> event, candidate |-> r.status]
           audited == [r EXCEPT !.lease = NoLease, !.outbox = outbox]
           plain == [r EXCEPT !.lease = NoLease]
<1>4. outbox \in [event : Events, candidate : Statuses]
  BY <1>1, <1>3
<1> HIDE DEF outbox
<1>5. audited \in Runs /\ plain \in Runs
  BY <1>2, <1>4 DEF Runs
<1>6. \/ fresh' = fresh + 1 /\ Continue(p, audited, "save")
      \/ fresh' = fresh /\ Continue(p, plain, "save")
  BY DEF Evaluated, outbox
<1>7. "save" \in PCs
  BY DEF PCs
<1>8. fresh \in Nat /\ pc \in [Callers -> PCs] /\ mem \in [Callers -> Runs]
  BY DEF TypeOK
<1> HIDE DEF audited, plain
<1>9. fresh' \in Nat
  BY <1>6, <1>8
<1> QED
  BY <1>5, <1>6, <1>7, <1>8, <1>9 DEF Continue

\* The copy of p after Return and Continue.
LEMMA ReturnType ==
  ASSUME TypeOK, NEW p \in Callers, Return(p)
  PROVE  pc' \in [Callers -> PCs] /\ mem' \in [Callers -> Runs]
<1>1. "idle" \in PCs
  BY DEF PCs
<1> QED
  BY <1>1, NoRunType DEF TypeOK, Return

\* The copy of p after it went on.
LEMMA ContinueType ==
  ASSUME TypeOK, NEW p \in Callers, NEW r \in Runs, NEW next \in PCs, Continue(p, r, next)
  PROVE  pc' \in [Callers -> PCs] /\ mem' \in [Callers -> Runs]
BY DEF TypeOK, Continue

\* A run starts at its first step, or past the steps it skips.
LEMMA StartedType ==
  ASSUME NEW ctx \in Contexts
  PROVE  /\ Started(ctx) \in Runs
         /\ Started(ctx).rev = 0 /\ Started(ctx).done = {}
         /\ Started(ctx).failed = NoRun.failed
         /\ Started(ctx).lease = NoLease /\ Started(ctx).outbox = NoOutbox
         /\ Production => Started(ctx) = MoveTo([NoRun EXCEPT !.ctx = ctx], 1)
<1> DEFINE first == MoveTo([NoRun EXCEPT !.ctx = ctx], 1)
<1>1. [NoRun EXCEPT !.ctx = ctx] \in Runs
  BY NoRunType DEF Runs
<1>2. 1 \in 0 .. N
  BY PipelineAssumption DEF ValidPipeline
<1>3. first \in Runs
  BY <1>1, <1>2, MoveToType
<1>4. /\ first.rev = 0 /\ first.done = {} /\ first.failed = NoRun.failed
      /\ first.lease = NoLease /\ first.outbox = NoOutbox
  BY DEF MoveTo, NoRun
<1>5. Started(ctx) = AutoSkip(first)
  BY DEF Started
<1> HIDE DEF first
<1>6. AutoSkip(first) \in Runs /\ Moved(first, AutoSkip(first))
  BY <1>3, AutoSkipIs
<1>7. Production => AutoSkip(first) = first
  BY <1>3, NothingSkipped
<1> QED
  BY <1>4, <1>5, <1>6, <1>7 DEF Moved, first

\* The outbox of the copy, emptied, with its candidate as the status.
Flushed(r) == [r EXCEPT !.status = r.outbox.candidate, !.outbox = NoOutbox]

\* The run after its outbox was flushed.
LEMMA FlushedType ==
  ASSUME NEW r \in Runs
  PROVE  Flushed(r) \in Runs
<1>1. r.outbox.candidate \in Statuses /\ NoOutbox \in [event : Events, candidate : Statuses]
  BY NoRunType DEF Runs, NoRun
<1> QED
  BY <1>1 DEF Flushed, Runs

\* The copy after the context update of an advance, and with a new lease.
Updated(r, input) == [r EXCEPT !.ctx = Update(@, input)]
Claimed(r, exec) == [r EXCEPT !.lease = [step |-> r.step, exec |-> exec, claim |-> r.rev + 1],
                              !.status = "verifying"]

\* The run after the context_updates of an advance.
LEMMA UpdatedType ==
  ASSUME NEW r \in Runs, NEW input \in Inputs
  PROVE  Updated(r, input) \in Runs
<1>1. Update(r.ctx, input) \in Contexts
  BY UpdateType DEF Runs
<1> QED
  BY <1>1 DEF Updated, Runs

\* The run with a verification lease.
LEMMA ClaimedType ==
  ASSUME NEW r \in Runs, NEW exec \in Nat
  PROVE  Claimed(r, exec) \in Runs
<1>1. [step |-> r.step, exec |-> exec, claim |-> r.rev + 1]
        \in [step : 0 .. N, exec : Nat, claim : Nat]
  BY DEF Runs
<1> QED
  BY <1>1, StatusIn DEF Claimed, Runs

\* The ways a caller may leave the point before its claim.
LEMMA PrepareIs ==
  ASSUME NEW p \in Callers, Prepare(p)
  PROVE  \E input \in Inputs :
           LET r == Updated(mem[p], input)
               held == r.lease.exec # 0 /\ r.lease.step = r.step
               exec == IF held THEN r.lease.exec ELSE fresh + 1
           IN  \/ /\ r.step \notin Checked
                  /\ Continue(p, r, "verify") /\ UNCHANGED <<disk, fresh>>
               \/ Return(p) /\ UNCHANGED <<disk, fresh>>
               \/ /\ r.step \in Checked /\ ~(held /\ ~Expired(r.lease))
                  /\ fresh' = IF held THEN fresh ELSE exec
                  /\ Save(p, Claimed(r, exec), "idle") \/ Save(p, Claimed(r, exec), "verify")
BY DEF Prepare, Updated, Claimed

\* A verifier runs for a step.
CheckingAtStep == \A p \in Callers : pc[p] = "checking" => mem[p].step # 0

\* The initial states are typed.
LEMMA TypeInit == Init => TypeOK
BY NoRunType DEF Init, TypeOK, PCs

\* A call of one caller keeps the types.
LEMMA TypeCall ==
  ASSUME TypeOK, CheckingAtStep, NEW p \in Callers, Call(p)
  PROVE  TypeOK'
<1> USE DEF TypeOK
<1>1. ASSUME Start(p) PROVE TypeOK'
  <2>1. PICK input \in Inputs :
          LET r == Started(Update(NoRun.ctx, input))
          IN  /\ Continue(p, r, "create")
              /\ IF Production
                 THEN AppendStrict(sink[p], [NoEvent EXCEPT !.kind = "started", !.step = r.step,
                                                            !.outcome = "pending_commit"])
                 ELSE UNCHANGED log
    BY <1>1 DEF Start
  <2> DEFINE r == Started(Update(NoRun.ctx, input))
             event == [NoEvent EXCEPT !.kind = "started", !.step = r.step,
                                      !.outcome = "pending_commit"]
  <2>2. r \in Runs
    <3>1. NoRun.ctx \in Contexts
      BY NoRunType DEF Runs
    <3> QED
      BY <3>1, UpdateType, StartedType
  <2>3. event \in Events
    <3>1. r.step \in 0 .. N
      BY <2>2 DEF Runs
    <3> HIDE DEF r
    <3> QED
      BY <3>1 DEF NoEvent, Events
  <2>4. log' \in Seq(Events)
    <3>1. AppendStrict(sink[p], event) \/ log' = log
      BY <2>1
    <3> HIDE DEF event
    <3> QED
      BY <3>1, <2>3, AppendType
  <2>5. pc' \in [Callers -> PCs] /\ mem' \in [Callers -> Runs]
    BY <2>1, <2>2, ContinueType DEF PCs
  <2> QED
    BY <2>4, <2>5, <1>1 DEF Start
<1>2. ASSUME Create(p) PROVE TypeOK'
  BY <1>2, SaveType DEF Create, PCs
<1>3. ASSUME LoadToAdvance(p) PROVE TypeOK'
  BY <1>3, MaterializeType, ContinueType DEF LoadToAdvance, Load, PCs
<1>4. ASSUME AppendOutbox(p) PROVE TypeOK'
  <2>1. log' \in Seq(Events)
    BY <1>4, AppendType DEF AppendOutbox, Runs
  <2>2. Continue(p, Flushed(mem[p]), IF pc[p] = "flush" THEN "reflush" ELSE "clear")
    BY <1>4 DEF AppendOutbox, Flushed
  <2>3. pc' \in [Callers -> PCs] /\ mem' \in [Callers -> Runs]
    BY <2>2, FlushedType, ContinueType DEF PCs
  <2> QED
    BY <1>4, <2>1, <2>3 DEF AppendOutbox
<1>5. ASSUME AppendRefused(p) PROVE TypeOK'
  BY <1>5, ReturnType DEF AppendRefused
<1>6. ASSUME ClearOutbox(p) PROVE TypeOK'
  <2>1. \E next \in PCs : Save(p, mem[p], next)
    BY <1>6 DEF ClearOutbox, PCs
  <2> QED
    BY <1>6, <2>1, SaveType DEF ClearOutbox
<1>7. ASSUME Prepare(p) PROVE TypeOK'
  <2>1. PICK input \in Inputs :
          LET r == Updated(mem[p], input)
              held == r.lease.exec # 0 /\ r.lease.step = r.step
              exec == IF held THEN r.lease.exec ELSE fresh + 1
          IN  \/ /\ r.step \notin Checked
                 /\ Continue(p, r, "verify") /\ UNCHANGED <<disk, fresh>>
              \/ Return(p) /\ UNCHANGED <<disk, fresh>>
              \/ /\ r.step \in Checked /\ ~(held /\ ~Expired(r.lease))
                 /\ fresh' = IF held THEN fresh ELSE exec
                 /\ Save(p, Claimed(r, exec), "idle") \/ Save(p, Claimed(r, exec), "verify")
    BY <1>7, PrepareIs
  <2> DEFINE r == Updated(mem[p], input)
             held == r.lease.exec # 0 /\ r.lease.step = r.step
             exec == IF held THEN r.lease.exec ELSE fresh + 1
  <2>2. r \in Runs /\ exec \in Nat
    <3>1. r \in Runs
      BY UpdatedType
    <3> QED
      BY <3>1, SMTT(30) DEF Runs
  <2>3. Claimed(r, exec) \in Runs
    BY <2>2, ClaimedType
  <2>4. \/ Continue(p, r, "verify") /\ UNCHANGED <<disk, fresh>>
        \/ Return(p) /\ UNCHANGED <<disk, fresh>>
        \/ /\ fresh' = fresh \/ fresh' = exec
           /\ \E next \in PCs : Save(p, Claimed(r, exec), next)
    BY <2>1 DEF PCs
  <2> HIDE DEF r, held, exec
  <2>5. /\ fresh' \in Nat /\ disk' \in Runs
        /\ pc' \in [Callers -> PCs] /\ mem' \in [Callers -> Runs]
    BY <2>2, <2>3, <2>4, ContinueType, ReturnType, SaveType DEF PCs
  <2> QED
    BY <2>5, <1>7 DEF Prepare
<1>8. ASSUME Evaluate(p) PROVE TypeOK'
  <2>1. PICK r \in Runs : Evaluated(p, r)
    <3>1. [mem[p] EXCEPT !.status = IF @ = "running" THEN "completed" ELSE @] \in Runs
      <4>1. (IF mem[p].status = "running" THEN "completed" ELSE mem[p].status) \in Statuses
        BY StatusIn DEF Runs
      <4> QED
        BY <4>1 DEF Runs
    <3> QED
      BY <1>8, <3>1, FailAttempts, GatePassedAttempts, GateFailedAttempts DEF Evaluate
  <2> QED
    BY <1>8, <2>1, EvaluatedType DEF Evaluate
<1>9. ASSUME BeginCheck(p) PROVE TypeOK'
  BY <1>9, ContinueType DEF BeginCheck, PCs
<1>10. ASSUME EndCheck(p) PROVE TypeOK'
  <2>1. mem[p].step # 0
    BY <1>10 DEF EndCheck, CheckingAtStep
  <2>2. PICK r \in Runs : Evaluated(p, r)
    BY <1>10, <2>1, GatePassedAttempts, GateFailedAttempts DEF EndCheck
  <2> QED
    BY <1>10, <2>2, EvaluatedType DEF EndCheck
<1>11. ASSUME SaveResult(p) PROVE TypeOK'
  <2>1. \E next \in PCs : Save(p, mem[p], next)
    BY <1>11 DEF SaveResult, PCs
  <2> QED
    BY <1>11, <2>1, SaveType DEF SaveResult
<1>12. ASSUME LoadToResume(p) PROVE TypeOK'
  BY <1>12, MaterializeType, ContinueType DEF LoadToResume, Load, PCs
<1>13. ASSUME SaveResumed(p) PROVE TypeOK'
  <2>1. Resume(mem[p]) \in Runs
    BY ResumeMoves
  <2> QED
    BY <1>13, <2>1, SaveType DEF SaveResumed, PCs
<1> QED
  BY <1>1, <1>2, <1>3, <1>4, <1>5, <1>6, <1>7, <1>8, <1>9, <1>10, <1>11, <1>12, <1>13
     DEF Call

\* Only BeginCheck starts a verifier.
LEMMA CheckingCall ==
  ASSUME TypeOK, CheckingAtStep, NEW p \in Callers, Call(p)
  PROVE  CheckingAtStep'
<1>1. CASE BeginCheck(p)
  <2>1. mem[p].step # 0
    BY <1>1, PipelineAssumption DEF BeginCheck, ValidPipeline, Steps
  <2> QED
    BY <1>1, <2>1 DEF BeginCheck, Continue, CheckingAtStep, TypeOK
<1>2. CASE ~BeginCheck(p)
  <2>1. \/ Return(p)
        \/ \E r : \E next \in PCs \ {"checking"} : Continue(p, r, next)
    BY <1>2 DEF Call, Start, Create, LoadToAdvance, AppendOutbox, AppendRefused, ClearOutbox,
                Prepare, Evaluate, EndCheck, Evaluated, SaveResult, LoadToResume, SaveResumed,
                Save, PCs
  <2> QED
    BY <2>1 DEF Return, Continue, CheckingAtStep, TypeOK
<1> QED
  BY <1>1, <1>2

\* Every step keeps the types, and a verifier runs at a step only.
LEMMA TypeNext ==
  ASSUME TypeOK, CheckingAtStep, [Next]_vars
  PROVE  TypeOK' /\ CheckingAtStep'
<1>1. CASE \E p \in Callers : Call(p)
  BY <1>1, TypeCall, CheckingCall
<1>2. ASSUME NEW p \in Callers, Crash(p)
      PROVE  TypeOK' /\ CheckingAtStep'
  <2>1. Return(p) /\ torn' \subseteq Sinks /\ crashes' \in Nat
    BY <1>2 DEF Crash, TypeOK
  <2>2. pc' \in [Callers -> PCs] /\ mem' \in [Callers -> Runs]
    BY <2>1, ReturnType
  <2> QED
    BY <1>2, <2>1, <2>2 DEF Crash, Return, TypeOK, CheckingAtStep
<1>3. ASSUME LeaseExpires PROVE TypeOK' /\ CheckingAtStep'
  <2>1. \A r \in Runs : r.lease.claim \in Nat
    BY DEF Runs
  <2>2. expired' \in Nat
    BY <1>3, <2>1 DEF LeaseExpires, TypeOK
  <2> QED
    BY <1>3, <2>2 DEF LeaseExpires, TypeOK, CheckingAtStep
<1>4. CASE UNCHANGED vars
  BY <1>4 DEF vars, TypeOK, CheckingAtStep
<1> QED
  BY <1>1, <1>2, <1>3, <1>4 DEF Next

\* Type correctness of every run of either profile, for every pipeline, set
\* of callers and bound: the file, the log and the copies stay in their
\* domains.
THEOREM TypeCorrect == Spec => [](TypeOK /\ CheckingAtStep)
<1>1. Init => TypeOK /\ CheckingAtStep
  BY TypeInit DEF Init, CheckingAtStep
<1>2. TypeOK /\ CheckingAtStep /\ [Next]_vars => (TypeOK /\ CheckingAtStep)'
  BY TypeNext
<1> QED
  BY <1>1, <1>2, PTL DEF Spec
---------------------------------------------------------------------------
(* Copies and leases *)

\* The copy and the point of the caller that takes a step, and the others'.
LEMMA ContinueIs ==
  ASSUME TypeOK, NEW p \in Callers, NEW r, NEW next, Continue(p, r, next)
  PROVE  /\ mem'[p] = r /\ pc'[p] = next
         /\ \A q \in Callers \ {p} : mem'[q] = mem[q] /\ pc'[q] = pc[q]
BY DEF Continue, TypeOK

\* Nobody verifies a step of a run that does not exist.
LEMMA NoneVerifies ==
  ASSUME TypeOK, CopiesInv, NEW p \in Callers, Verifying(p)
  PROVE  disk.rev # 0
<1> SUFFICES ASSUME disk.rev = 0 PROVE FALSE
  OBVIOUS
<1>1. mem[p].rev \in Nat /\ mem[p].rev <= disk.rev
  BY DEF TypeOK, Runs, CopiesInv, CopyCurrent
<1>2. mem[p].rev = disk.rev
  BY <1>1
<1>3. SameRun(mem[p], disk) /\ disk = NoRun
  BY <1>2 DEF CopiesInv, CopyCurrent, Verifying
<1>4. mem[p].step = 0
  BY <1>3 DEF SameRun, NoRun
<1> QED
  BY <1>4, PipelineAssumption DEF Verifying, ValidPipeline, Steps

\* A step that leaves the file and p's copy alone, while time may pass.
LEMMA CopyStays ==
  ASSUME TypeOK, TypeOK', NEW q \in Callers, CopyCurrent(q), LeaseKept(q),
         UNCHANGED disk, mem'[q] = mem[q], pc'[q] = pc[q], expired <= expired'
  PROVE  CopyCurrent(q)' /\ LeaseKept(q)'
<1>1. \A lease : lease.claim \in Nat /\ Expired(lease) => Expired(lease)'
  BY DEF Expired, TypeOK
<1>2. mem[q].lease.claim \in Nat
  BY DEF TypeOK, Runs
<1>3. CopyCurrent(q)'
  BY DEF CopyCurrent
<1>4. Verifying(q)' = Verifying(q) /\ Landing(q)' = Landing(q)
  BY DEF Verifying, Landing
<1> QED
  BY <1>1, <1>2, <1>3, <1>4 DEF LeaseKept

\* A step of p on its own copy.
LEMMA CopiesLocal ==
  ASSUME TypeOK, TypeOK', CopiesInv, NEW p \in Callers, NEW r, NEW next,
         Continue(p, r, next), UNCHANGED <<disk, expired>>,
         CopyCurrent(p)', LeaseKept(p)',
         (Verifying(p) \/ Landing(p))' => (Verifying(p) \/ Landing(p)) /\ r.rev = mem[p].rev,
         Verifying(p)' => Verifying(p) /\ r.step = mem[p].step /\ r.lease = mem[p].lease
  PROVE  CopiesInv'
<1>1. /\ mem'[p] = r /\ pc'[p] = next
      /\ \A q \in Callers \ {p} : mem'[q] = mem[q] /\ pc'[q] = pc[q]
  BY ContinueIs
<1>2. expired <= expired'
  BY DEF TypeOK
<1>3. \A q \in Callers : CopyCurrent(q)' /\ LeaseKept(q)'
  BY <1>1, <1>2, CopyStays DEF CopiesInv
<1>4. \A q \in Callers \ {p} : Verifying(q)' = Verifying(q) /\ Landing(q)' = Landing(q)
  BY <1>1 DEF Verifying, Landing
<1>5. ClaimsApart'
  <2>1. \A q \in Callers : (Verifying(q) \/ Landing(q))' =>
          (Verifying(q) \/ Landing(q)) /\ mem'[q].rev = mem[q].rev
    BY <1>1, <1>4
  <2> QED
    BY <2>1 DEF CopiesInv, ClaimsApart
<1>6. ClaimsExclusive'
  <2>1. \A q \in Callers : Verifying(q)' =>
          Verifying(q) /\ mem'[q].step = mem[q].step /\ mem'[q].lease = mem[q].lease
    BY <1>1, <1>4
  <2> QED
    BY <2>1 DEF CopiesInv, ClaimsExclusive, Expired
<1> QED
  BY <1>3, <1>5, <1>6 DEF CopiesInv

\* A call may end at any point.
LEMMA CopiesReturn ==
  ASSUME TypeOK, TypeOK', CopiesInv, NEW p \in Callers,
         Return(p), UNCHANGED <<disk, expired>>
  PROVE  CopiesInv'
<1>1. Continue(p, NoRun, "idle")
  BY DEF Return, Continue
<1>2. mem'[p] = NoRun /\ pc'[p] = "idle"
  BY <1>1, ContinueIs
<1>3. NoRun.rev <= disk.rev
  BY DEF NoRun, TypeOK, Runs
<1>4. ~Verifying(p)' /\ ~Landing(p)'
  BY <1>2 DEF Verifying, Landing
<1>5. CopyCurrent(p)' /\ LeaseKept(p)'
  BY <1>2, <1>3, <1>4 DEF CopyCurrent, LeaseKept
<1> QED
  BY <1>1, <1>4, <1>5, CopiesLocal

\* What a save of r by p must respect: the run does not go back, and the lease
\* of another verifier of the step is over, or stays.
Respects(p, r) ==
  /\ disk.rev # 0 /\ r.step # 0 => disk.step # 0 /\ disk.step <= r.step
  /\ \A q \in Callers \ {p} :
       Verifying(q) /\ mem[q].step = r.step =>
         Expired(mem[q].lease) \/ r.lease = mem[q].lease

\* What a save that claims the step must ensure.
Claims(p, r) ==
  /\ r.lease.step = r.step /\ r.lease.exec # 0 /\ r.lease.claim = disk.rev + 1
  /\ \A q \in Callers \ {p} :
       Verifying(q) /\ mem[q].step = r.step => Expired(mem[q].lease)

\* RunStateStore.save by p, which then goes on with what it saved or ends.
LEMMA CopiesSave ==
  ASSUME TypeOK, TypeOK', CopiesInv, NEW p \in Callers, NEW r \in Runs,
         NEW next \in {"idle", "ready", "append", "verify"},
         Save(p, r, next), UNCHANGED expired,
         mem[p].rev = disk.rev => Respects(p, r) /\ (next = "verify" => Claims(p, r))
  PROVE  CopiesInv'
<1>1. CASE mem[p].rev # disk.rev
  BY <1>1, CopiesReturn DEF Save
<1>2. CASE mem[p].rev = disk.rev
  <2> DEFINE saved == [r EXCEPT !.rev = disk.rev + 1]
             kept == IF next = "idle" THEN NoRun ELSE saved
  <2>1. disk' = saved /\ Continue(p, kept, next)
    BY <1>2 DEF Save, Return, Continue
  <2>2. saved.rev = disk.rev + 1 /\ saved.step = r.step /\ saved.lease = r.lease
    BY DEF Runs
  <2>3. /\ mem'[p] = kept /\ pc'[p] = next
        /\ \A q \in Callers \ {p} : mem'[q] = mem[q] /\ pc'[q] = pc[q]
    BY <2>1, ContinueIs
  <2>4. disk.rev \in Nat /\ disk'.rev = disk.rev + 1 /\ disk'.step = r.step
        /\ disk'.lease = r.lease /\ r.step \in Nat /\ disk.step \in Nat
    BY <2>1, <2>2, PipelineAssumption DEF TypeOK, Runs, ValidPipeline
  <2>5. \A q \in Callers \ {p} : /\ CopyCurrent(q) /\ LeaseKept(q)
                                 /\ mem[q].rev \in Nat /\ mem[q].step \in Nat
    <3>1. \A x \in Runs : x.rev \in Nat /\ x.step \in Nat
      BY PipelineAssumption DEF Runs, ValidPipeline
    <3> QED
      BY <3>1 DEF CopiesInv, TypeOK
  <2>6. \A q \in Callers \ {p} : mem'[q].rev < disk'.rev /\ mem'[q].rev # disk'.rev
    BY <2>3, <2>4, <2>5 DEF CopyCurrent
  <2>7. \A q \in Callers \ {p} : Verifying(q)' = Verifying(q) /\ ~Landing(q)'
    BY <2>3, <2>6 DEF Verifying, Landing
  <2>8. Respects(p, r) /\ (next = "verify" => Claims(p, r))
    BY <1>2
  <2>9. ASSUME NEW q \in Callers \ {p} PROVE CopyCurrent(q)' /\ LeaseKept(q)'
    <3>1. CopyCurrent(q)'
      BY <2>3, <2>4, <2>5, <2>6 DEF CopyCurrent
    <3>2. ASSUME Verifying(q)
          PROVE  /\ disk'.step = 0 \/ mem[q].step <= disk'.step
                 /\ disk'.step = mem[q].step =>
                      Expired(mem[q].lease) \/ disk'.lease = mem[q].lease
      <4>1. disk.rev # 0
        BY <3>2, NoneVerifies
      <4> QED
        BY <2>4, <2>5, <2>8, <3>2, <4>1 DEF LeaseKept, Respects
    <3>3. LeaseKept(q)'
      BY <2>3, <2>5, <2>7, <3>2 DEF LeaseKept, Expired
    <3> QED
      BY <3>1, <3>3
  <2>10. next # "idle" => mem'[p] = disk'
    BY <2>1, <2>3
  <2>11. Verifying(p)' => next = "verify" /\ mem'[p] = disk'
    BY <2>3, <2>10 DEF Verifying
  <2>12. ~Landing(p)'
    BY <2>3 DEF Landing
  <2>13. CopyCurrent(p)'
    <3>1. NoRun.rev <= disk'.rev
      BY <2>4 DEF NoRun
    <3>2. CASE next = "idle"
      BY <2>3, <3>1, <3>2 DEF CopyCurrent
    <3>3. CASE next # "idle"
      <4>1. mem'[p] = disk' /\ mem'[p].rev <= disk'.rev /\ pc'[p] \in {"ready", "append", "verify"}
        BY <2>3, <2>4, <2>10, <3>3
      <4> QED
        BY <4>1 DEF CopyCurrent, SameRun
    <3> QED
      BY <3>2, <3>3
  <2>14. LeaseKept(p)'
    <3>1. ASSUME Verifying(p)' PROVE Claims(p, r) /\ mem'[p] = disk'
      BY <2>8, <2>11, <3>1
    <3> QED
      BY <2>4, <2>12, <3>1 DEF LeaseKept, Claims
  <2>15. ClaimsApart'
    <3>1. \A q \in Callers : (Verifying(q) \/ Landing(q))' =>
            IF q = p THEN mem'[q].rev = disk'.rev
            ELSE Verifying(q) /\ mem'[q] = mem[q] /\ mem'[q].rev # disk'.rev
      BY <2>3, <2>6, <2>7, <2>11, <2>12
    <3> QED
      BY <3>1 DEF CopiesInv, ClaimsApart
  <2>16. ClaimsExclusive'
    <3>1. \A q \in Callers \ {p} : Verifying(q)' => Verifying(q) /\ mem'[q] = mem[q]
      BY <2>3, <2>7
    <3>2. ASSUME NEW q \in Callers \ {p}, Verifying(p)', Verifying(q)',
                 mem'[p].step = mem'[q].step
          PROVE  Expired(mem'[q].lease)
      <4>1. Claims(p, r) /\ mem'[p].step = r.step
        BY <2>4, <2>8, <2>11, <3>2
      <4> QED
        BY <3>1, <3>2, <4>1 DEF Claims
    <3>3. ASSUME NEW q1 \in Callers, NEW q2 \in Callers, q1 # q2, Verifying(q1)', Verifying(q2)',
                 mem'[q1].step = mem'[q2].step
          PROVE  Expired(mem'[q1].lease) \/ Expired(mem'[q2].lease)
      <4>1. CASE q1 # p /\ q2 # p
        BY <3>1, <3>3, <4>1 DEF CopiesInv, ClaimsExclusive
      <4>2. CASE q1 = p
        BY <3>2, <3>3, <4>2
      <4>3. CASE q2 = p
        BY <3>2, <3>3, <4>3
      <4> QED
        BY <4>1, <4>2, <4>3
    <3> QED
      BY <3>3 DEF ClaimsExclusive, Expired
  <2>17. disk'.rev # 0
    BY <2>4
  <2> QED
    BY <2>9, <2>13, <2>14, <2>15, <2>16, <2>17 DEF CopiesInv
<1> QED
  BY <1>1, <1>2

\* A copy nobody overtook is the file, up to what the caller works on.
LEMMA CopyIsFile ==
  ASSUME CopiesInv, NEW p \in Callers, pc[p] \notin {"idle", "create", "save"},
         mem[p].rev = disk.rev
  PROVE  SameRun(mem[p], disk) /\ mem[p].lease = disk.lease
BY DEF CopiesInv, CopyCurrent

\* A save that keeps the lease and does not go back respects the others.
LEMMA RespectsKept ==
  ASSUME TypeOK, CopiesInv, NEW p \in Callers, NEW r \in Runs, r.lease = disk.lease,
         r.step # 0 => disk.step # 0 /\ disk.step <= r.step
  PROVE  Respects(p, r)
<1>1. ASSUME NEW q \in Callers, Verifying(q), mem[q].step = r.step
      PROVE  Expired(mem[q].lease) \/ r.lease = mem[q].lease
  <2>1. mem[q].step \in Nat /\ disk.step \in Nat /\ mem[q].step # 0
    <3>1. \A x \in Runs : x.step \in Nat
      BY PipelineAssumption DEF Runs, ValidPipeline
    <3> QED
      BY <1>1, <3>1, PipelineAssumption DEF TypeOK, Verifying, ValidPipeline, Steps
  <2>2. disk.step = 0 \/ mem[q].step <= disk.step
    BY <1>1 DEF CopiesInv, LeaseKept
  <2>3. disk.step = mem[q].step
    BY <1>1, <2>1, <2>2
  <2> QED
    BY <1>1, <2>3 DEF CopiesInv, LeaseKept
<1> QED
  BY <1>1 DEF Respects

\* What was attempted from a copy that is the file was attempted from the file.
LEMMA AttemptedFromFile ==
  ASSUME NEW d, NEW r, NEW q, NEW x, SameRun(r, d), Attempted(r, q), SameRun(x, q)
  PROVE  Attempted(d, x)
BY DEF SameRun, Attempted, LimitReached

\* The tail of advance: the result goes into the copy, the lease out of it.
LEMMA EvaluatedIs ==
  ASSUME TypeOK, NEW p \in Callers, NEW q \in Runs, Evaluated(p, q)
  PROVE  \E x : /\ Continue(p, x, "save")
                /\ SameRun(x, q) /\ x.rev = q.rev /\ x.lease = NoLease
<1> DEFINE event == [ kind    |-> "evaluated",
                      id      |-> fresh + 1,
                      step    |-> mem[p].step,
                      outcome |-> IF q.status = "failed" THEN "gate_failed" ELSE "gate_passed",
                      exec    |-> IF mem[p].step \in Checked THEN mem[p].lease.exec ELSE 0,
                      sink    |-> sink[p] ]
           outbox == [event |-> event, candidate |-> q.status]
           audited == [q EXCEPT !.lease = NoLease, !.outbox = outbox]
           plain == [q EXCEPT !.lease = NoLease]
<1>1. Continue(p, audited, "save") \/ Continue(p, plain, "save")
  BY DEF Evaluated
<1> HIDE DEF outbox
<1>2. SameRun(audited, q) /\ audited.rev = q.rev /\ audited.lease = NoLease
  BY DEF SameRun, Runs
<1>3. SameRun(plain, q) /\ plain.rev = q.rev /\ plain.lease = NoLease
  BY DEF SameRun, Runs
<1> HIDE DEF audited, plain
<1> QED
  BY <1>1, <1>2, <1>3

\* An attempt by p keeps the invariant.
LEMMA CopiesEvaluated ==
  ASSUME TypeOK, TypeOK', CopiesInv, NEW p \in Callers, NEW q \in Runs,
         pc[p] \in {"verify", "checking"}, Evaluated(p, q),
         q.rev = mem[p].rev, Attempted(mem[p], q), UNCHANGED <<disk, expired>>
  PROVE  CopiesInv'
<1>1. PICK x : Continue(p, x, "save") /\ SameRun(x, q) /\ x.rev = q.rev /\ x.lease = NoLease
  BY EvaluatedIs
<1>2. mem'[p] = x /\ pc'[p] = "save"
  BY <1>1, ContinueIs
<1>3. CopyCurrent(p) /\ LeaseKept(p)
  BY DEF CopiesInv
<1>4. CopyCurrent(p)'
  <2>1. ASSUME mem[p].rev = disk.rev PROVE Attempted(disk, x)
    <3>1. SameRun(mem[p], disk)
      BY <2>1, CopyIsFile
    <3> QED
      BY <1>1, <3>1, AttemptedFromFile
  <2>2. Attempted(disk, mem[p])' <=> Attempted(disk, x)
    BY <1>2 DEF Attempted, LimitReached
  <2> QED
    BY <1>1, <1>2, <1>3, <2>1, <2>2 DEF CopyCurrent
<1>5. Landing(p)' => Verifying(p) /\ mem[p].rev = disk.rev /\ mem[p].lease = disk.lease
  <2>1. ASSUME Landing(p)'
        PROVE  mem[p].rev = disk.rev /\ disk.step \in Checked
    BY <1>1, <1>2, <2>1 DEF Landing
  <2> QED
    BY <2>1, CopyIsFile DEF SameRun, Verifying
<1>6. ~Verifying(p)'
  BY <1>2 DEF Verifying
<1>7. LeaseKept(p)'
  BY <1>3, <1>5, <1>6 DEF LeaseKept
<1> QED
  BY <1>1, <1>4, <1>5, <1>6, <1>7, CopiesLocal

\* Each step of a call keeps the invariant; one case per action.
LEMMA CopiesCall ==
  ASSUME TypeOK, CheckingAtStep, TypeOK', CopiesInv, NEW p \in Callers, Call(p)
  PROVE  CopiesInv'
<1>0. /\ mem[p] \in Runs /\ disk \in Runs /\ disk.rev \in Nat /\ disk.step \in Nat /\ fresh \in Nat
      /\ CopyCurrent(p) /\ LeaseKept(p)
  <2>1. mem[p] \in Runs /\ disk \in Runs /\ fresh \in Nat
    BY DEF TypeOK
  <2> QED
    BY <2>1, PipelineAssumption DEF CopiesInv, Runs, ValidPipeline
<1>1. CASE Start(p)
  <2>1. PICK input \in Inputs : Continue(p, Started(Update(NoRun.ctx, input)), "create")
    BY <1>1 DEF Start
  <2> DEFINE r == Started(Update(NoRun.ctx, input))
  <2>2. Update(NoRun.ctx, input) \in Contexts
    <3>1. NoRun.ctx \in Contexts
      BY NoRunType DEF Runs
    <3> QED
      BY <3>1, UpdateType
  <2>3. r.rev = 0 /\ r.done = {} /\ r.failed = NoRun.failed /\ r.lease = NoLease
    BY <2>2, StartedType
  <2> HIDE DEF r
  <2>4. mem'[p] = r /\ pc'[p] = "create" /\ UNCHANGED <<disk, expired>>
    BY <1>1, <2>1, ContinueIs DEF Start, r
  <2>5. ~Verifying(p)' /\ ~Landing(p)'
    BY <2>4 DEF Verifying, Landing
  <2>6. CopyCurrent(p)' /\ LeaseKept(p)'
    BY <1>0, <2>3, <2>4, <2>5 DEF CopyCurrent, LeaseKept, NoRun
  <2> QED
    BY <2>1, <2>4, <2>5, <2>6, CopiesLocal DEF r
<1>2. CASE Create(p)
  <2>1. pc[p] = "create" /\ Save(p, mem[p], "idle") /\ UNCHANGED expired
    BY <1>2 DEF Create
  <2>2. ASSUME mem[p].rev = disk.rev PROVE Respects(p, mem[p])
    <3>1. disk.rev = 0
      BY <1>0, <2>1, <2>2 DEF CopyCurrent
    <3> QED
      BY <3>1, NoneVerifies DEF Respects
  <2> QED
    BY <1>0, <2>1, <2>2, CopiesSave
<1>3. CASE LoadToAdvance(p) \/ LoadToResume(p)
  <2>1. PICK st \in Statuses : Load = [disk EXCEPT !.status = st]
    BY <1>0, MaterializeType DEF Load
  <2>2. SameRun(Load, disk) /\ Load.rev = disk.rev /\ Load.lease = disk.lease
    BY <1>0, <2>1 DEF Runs, SameRun
  <2>3. PICK at \in {"flush", "ready", "resume"} :
          Continue(p, Load, at) /\ UNCHANGED <<disk, expired>>
    BY <1>3 DEF LoadToAdvance, LoadToResume
  <2>4. mem'[p] = Load /\ pc'[p] = at
    BY <2>3, ContinueIs
  <2>5. ~Verifying(p)' /\ ~Landing(p)'
    BY <2>4 DEF Verifying, Landing
  <2>6. CopyCurrent(p)'
    BY <1>0, <2>2, <2>3, <2>4 DEF CopyCurrent, SameRun
  <2>7. LeaseKept(p)'
    BY <2>5 DEF LeaseKept
  <2> QED
    BY <2>3, <2>5, <2>6, <2>7, CopiesLocal
<1>4. CASE AppendOutbox(p)
  <2>1. PICK at \in {"reflush", "clear"} :
          Continue(p, Flushed(mem[p]), at) /\ UNCHANGED <<disk, expired>>
    BY <1>4 DEF AppendOutbox, Flushed
  <2>2. /\ SameRun(Flushed(mem[p]), mem[p]) /\ Flushed(mem[p]).rev = mem[p].rev
        /\ Flushed(mem[p]).lease = mem[p].lease
    BY <1>0 DEF Flushed, Runs, SameRun
  <2>3. mem'[p] = Flushed(mem[p]) /\ pc'[p] = at
    BY <2>1, ContinueIs
  <2>4. pc[p] \in {"flush", "append"}
    BY <1>4 DEF AppendOutbox
  <2>5. ~Verifying(p)' /\ ~Landing(p)'
    BY <2>3 DEF Verifying, Landing
  <2>6. CopyCurrent(p)'
    BY <1>0, <2>1, <2>2, <2>3, <2>4 DEF CopyCurrent, SameRun
  <2>7. LeaseKept(p)'
    BY <2>5 DEF LeaseKept
  <2> QED
    BY <2>1, <2>5, <2>6, <2>7, CopiesLocal
<1>5. CASE AppendRefused(p)
  BY <1>5, CopiesReturn DEF AppendRefused
<1>6. CASE ClearOutbox(p)
  <2>1. PICK next \in {"idle", "ready"} :
          Save(p, mem[p], next) /\ pc[p] \in {"reflush", "clear"} /\ UNCHANGED expired
    BY <1>6 DEF ClearOutbox
  <2>2. ASSUME mem[p].rev = disk.rev PROVE Respects(p, mem[p])
    <3>1. mem[p].step = disk.step /\ mem[p].lease = disk.lease
      BY <2>1, <2>2, CopyIsFile DEF SameRun
    <3> QED
      BY <1>0, <3>1, RespectsKept
  <2> QED
    BY <1>0, <2>1, <2>2, CopiesSave
<1>7. CASE Prepare(p)
  <2>1. PICK input \in Inputs :
          LET r == Updated(mem[p], input)
              held == r.lease.exec # 0 /\ r.lease.step = r.step
              exec == IF held THEN r.lease.exec ELSE fresh + 1
          IN  \/ /\ r.step \notin Checked
                 /\ Continue(p, r, "verify") /\ UNCHANGED <<disk, fresh>>
              \/ Return(p) /\ UNCHANGED <<disk, fresh>>
              \/ /\ r.step \in Checked /\ ~(held /\ ~Expired(r.lease))
                 /\ fresh' = IF held THEN fresh ELSE exec
                 /\ Save(p, Claimed(r, exec), "idle") \/ Save(p, Claimed(r, exec), "verify")
    BY <1>7, PrepareIs
  <2> DEFINE r == Updated(mem[p], input)
             held == r.lease.exec # 0 /\ r.lease.step = r.step
             exec == IF held THEN r.lease.exec ELSE fresh + 1
             q == Claimed(r, exec)
  <2>2. pc[p] = "ready" /\ UNCHANGED expired
    BY <1>7 DEF Prepare
  <2>3. r \in Runs /\ SameRun(r, mem[p]) /\ r.rev = mem[p].rev /\ r.lease = mem[p].lease
    BY <1>0, UpdatedType DEF Updated, Runs, SameRun
  <2>4. exec \in Nat /\ exec # 0
    BY <1>0, <2>3 DEF Runs
  <2>5. \/ Continue(p, r, "verify") /\ UNCHANGED disk /\ r.step \notin Checked
        \/ Return(p) /\ UNCHANGED disk
        \/ /\ ~(held /\ ~Expired(r.lease))
           /\ Save(p, q, "idle") \/ Save(p, q, "verify")
    BY <2>1
  <2> HIDE DEF r, exec
  <2>6. /\ q \in Runs /\ q.step = r.step
        /\ q.lease.step = r.step /\ q.lease.exec = exec /\ q.lease.claim = r.rev + 1
    <3>1. q.lease = [step |-> r.step, exec |-> exec, claim |-> r.rev + 1] /\ q.step = r.step
      BY <2>3 DEF Claimed, Runs
    <3> QED
      BY <2>3, <2>4, <3>1, ClaimedType
  <2> HIDE DEF q
  <2>7. CASE Continue(p, r, "verify") /\ UNCHANGED disk /\ r.step \notin Checked
    <3>1. mem'[p] = r /\ pc'[p] = "verify"
      BY <2>7, ContinueIs
    <3>2. ~Verifying(p)' /\ ~Landing(p)'
      BY <2>7, <3>1 DEF Verifying, Landing
    <3>3. CopyCurrent(p)'
      BY <1>0, <2>2, <2>3, <2>7, <3>1 DEF CopyCurrent, SameRun
    <3>4. LeaseKept(p)'
      BY <3>2 DEF LeaseKept
    <3> QED
      BY <2>2, <2>7, <3>2, <3>3, <3>4, CopiesLocal
  <2>8. CASE Return(p) /\ UNCHANGED disk
    BY <2>2, <2>8, CopiesReturn
  <2>9. CASE /\ ~(held /\ ~Expired(r.lease))
             /\ Save(p, q, "idle") \/ Save(p, q, "verify")
    <3>1. ASSUME mem[p].rev = disk.rev PROVE Respects(p, q) /\ Claims(p, q)
      <4>1. r.step = disk.step /\ r.lease = disk.lease /\ r.rev = disk.rev
        BY <2>2, <2>3, <3>1, CopyIsFile DEF SameRun
      <4>2. ASSUME NEW other \in Callers, Verifying(other), mem[other].step = r.step
            PROVE  Expired(mem[other].lease)
        <5>1. mem[other].lease.step = mem[other].step /\ mem[other].lease.exec # 0
              /\ (Expired(mem[other].lease) \/ disk.lease = mem[other].lease)
          BY <4>1, <4>2 DEF CopiesInv, LeaseKept
        <5> QED
          BY <2>9, <4>1, <4>2, <5>1
      <4> QED
        BY <1>0, <2>4, <2>6, <4>1, <4>2 DEF Respects, Claims
    <3> QED
      BY <2>2, <2>6, <2>9, <3>1, CopiesSave
  <2> QED
    BY <2>5, <2>7, <2>8, <2>9
<1>8. CASE Evaluate(p)
  <2>1. PICK q \in Runs : Evaluated(p, q) /\ q.rev = mem[p].rev /\ Attempted(mem[p], q)
    <3> DEFINE over == [mem[p] EXCEPT !.status = IF @ = "running" THEN "completed" ELSE @]
    <3>1. over \in Runs /\ over.rev = mem[p].rev /\ (mem[p].step = 0 => Attempted(mem[p], over))
      <4>1. (IF mem[p].status = "running" THEN "completed" ELSE mem[p].status) \in Statuses
        BY <1>0, StatusIn DEF Runs
      <4> QED
        BY <1>0, <4>1 DEF Runs, Attempted
    <3>2. \/ mem[p].step = 0 /\ Evaluated(p, over)
          \/ /\ mem[p].step # 0
             /\ \/ Evaluated(p, Fail(mem[p]))
                \/ Evaluated(p, GateFailed(mem[p]))
                \/ ~LimitReached(mem[p]) /\ Evaluated(p, GatePassed(mem[p]))
      BY <1>8 DEF Evaluate
    <3> HIDE DEF over
    <3> QED
      BY <1>0, <3>1, <3>2, FailAttempts, GatePassedAttempts, GateFailedAttempts
  <2> QED
    BY <1>8, <2>1, CopiesEvaluated DEF Evaluate
<1>9. CASE BeginCheck(p)
  <2>1. /\ pc[p] = "verify" /\ mem[p].step \in Checked /\ ~LimitReached(mem[p])
        /\ Continue(p, mem[p], "checking") /\ UNCHANGED <<disk, expired>>
    BY <1>9 DEF BeginCheck
  <2>2. mem'[p] = mem[p] /\ pc'[p] = "checking"
    BY <2>1, ContinueIs
  <2>3. Verifying(p) /\ Verifying(p)' /\ ~Landing(p)'
    BY <2>1, <2>2 DEF Verifying, Landing
  <2>4. CopyCurrent(p)'
    BY <1>0, <2>1, <2>2 DEF CopyCurrent, LimitReached
  <2>5. LeaseKept(p)'
    BY <1>0, <2>1, <2>2, <2>3 DEF LeaseKept, Expired
  <2> QED
    BY <2>1, <2>3, <2>4, <2>5, CopiesLocal
<1>10. CASE EndCheck(p)
  <2>1. mem[p].step # 0 /\ ~LimitReached(mem[p]) /\ pc[p] = "checking"
    BY <1>0, <1>10 DEF EndCheck, CheckingAtStep, CopyCurrent
  <2>2. PICK q \in Runs : Evaluated(p, q) /\ q.rev = mem[p].rev /\ Attempted(mem[p], q)
    BY <1>0, <1>10, <2>1, GatePassedAttempts, GateFailedAttempts DEF EndCheck
  <2> QED
    BY <1>10, <2>1, <2>2, CopiesEvaluated DEF EndCheck
<1>11. CASE SaveResult(p)
  <2>1. PICK next \in {"idle", "append"} :
          pc[p] = "save" /\ Save(p, mem[p], next) /\ UNCHANGED expired
    BY <1>11 DEF SaveResult
  <2>2. ASSUME mem[p].rev = disk.rev PROVE Respects(p, mem[p])
    <3>1. Attempted(disk, mem[p])
      BY <1>0, <2>1, <2>2 DEF CopyCurrent
    <3>2. ASSUME NEW q \in Callers \ {p}, Verifying(q), mem[q].step = mem[p].step
          PROVE  Expired(mem[q].lease)
      <4>1. /\ mem[q].step \in Checked /\ mem[q].step \in Nat /\ mem[q].step # 0
        <5>1. mem[q].step \in Steps
          BY <3>2, PipelineAssumption DEF Verifying, ValidPipeline
        <5> QED
          BY <3>2, <5>1 DEF Verifying, Steps
      <4>2. disk.step = 0 \/ mem[q].step <= disk.step
        BY <3>2 DEF CopiesInv, LeaseKept
      <4>3. disk.step # 0 /\ disk.step <= mem[p].step
        BY <3>1, <3>2, <4>1 DEF Attempted
      <4>4. disk.step = mem[q].step
        BY <1>0, <3>2, <4>1, <4>2, <4>3
      <4>5. Landing(p)
        BY <2>1, <2>2, <4>1, <4>4 DEF Landing
      <4>6. disk.lease.claim = disk.rev
        BY <1>0, <4>5 DEF LeaseKept
      <4>7. mem[q].rev # mem[p].rev
        BY <3>2, <4>5 DEF CopiesInv, ClaimsApart
      <4>8. mem[q].lease.claim = mem[q].rev
            /\ (Expired(mem[q].lease) \/ disk.lease = mem[q].lease)
        BY <3>2, <4>4 DEF CopiesInv, LeaseKept
      <4> QED
        BY <2>2, <4>6, <4>7, <4>8
    <3> QED
      BY <3>1, <3>2 DEF Respects, Attempted
  <2> QED
    BY <1>0, <2>1, <2>2, CopiesSave
<1>12. CASE SaveResumed(p)
  <2>1. pc[p] = "resume" /\ Save(p, Resume(mem[p]), "idle") /\ UNCHANGED expired
    BY <1>12 DEF SaveResumed
  <2>2. Resume(mem[p]) \in Runs /\ Moved(mem[p], Resume(mem[p]))
    BY <1>0, ResumeMoves
  <2>3. ASSUME mem[p].rev = disk.rev PROVE Respects(p, Resume(mem[p]))
    <3>1. mem[p].step = disk.step /\ mem[p].lease = disk.lease
      BY <2>1, <2>3, CopyIsFile DEF SameRun
    <3> QED
      BY <2>2, <3>1, RespectsKept DEF Moved
  <2> QED
    BY <2>1, <2>2, <2>3, CopiesSave
<1> QED
  BY <1>1, <1>2, <1>3, <1>4, <1>5, <1>6, <1>7, <1>8, <1>9, <1>10, <1>11, <1>12 DEF Call

\* No run, no copies.
LEMMA CopiesInit == Init => CopiesInv
<1> SUFFICES ASSUME Init PROVE CopiesInv
  OBVIOUS
<1>1. disk = NoRun /\ \A p \in Callers : mem[p] = NoRun /\ pc[p] = "idle"
  BY DEF Init
<1>2. \A p \in Callers : ~Verifying(p) /\ ~Landing(p)
  BY <1>1 DEF Verifying, Landing
<1>3. \A p \in Callers : CopyCurrent(p)
  BY <1>1 DEF CopyCurrent, NoRun
<1> QED
  BY <1>1, <1>2, <1>3 DEF CopiesInv, LeaseKept, ClaimsApart, ClaimsExclusive

\* Calls, the end of leases and crashes keep the invariant.
LEMMA CopiesNext ==
  ASSUME TypeOK, CheckingAtStep, TypeOK', CopiesInv, [Next]_vars
  PROVE  CopiesInv'
<1>1. CASE \E p \in Callers : Call(p)
  BY <1>1, CopiesCall
<1>2. ASSUME NEW p \in Callers, Crash(p) PROVE CopiesInv'
  BY <1>2, CopiesReturn DEF Crash
<1>3. CASE LeaseExpires \/ UNCHANGED vars
  <2>1. UNCHANGED <<disk, pc, mem>> /\ expired <= expired'
    <3>1. expired <= expired
      BY DEF TypeOK
    <3>2. LeaseExpires => expired < expired'
      BY DEF LeaseExpires
    <3>3. LeaseExpires => expired <= expired'
      BY <3>2 DEF TypeOK
    <3> QED
      BY <1>3, <3>1, <3>3 DEF LeaseExpires, vars
  <2>2. \A q \in Callers : CopyCurrent(q)' /\ LeaseKept(q)'
    BY <2>1, CopyStays DEF CopiesInv
  <2>3. \A q \in Callers : Verifying(q)' = Verifying(q) /\ Landing(q)' = Landing(q)
    BY <2>1 DEF Verifying, Landing
  <2>4. \A q \in Callers : Expired(mem[q].lease) => Expired(mem[q].lease)'
    <3>1. \A r \in Runs : r.lease.claim \in Nat
      BY DEF Runs
    <3>2. \A q \in Callers : mem[q].lease.claim \in Nat
      BY <3>1 DEF TypeOK
    <3>3. expired \in Nat /\ expired' \in Nat
      BY DEF TypeOK
    <3> QED
      BY <2>1, <3>2, <3>3 DEF Expired
  <2>5. ClaimsApart'
    BY <2>1, <2>3 DEF CopiesInv, ClaimsApart
  <2>6. ClaimsExclusive'
    BY <2>1, <2>3, <2>4 DEF CopiesInv, ClaimsExclusive
  <2> QED
    BY <2>1, <2>2, <2>5, <2>6 DEF CopiesInv
<1> QED
  BY <1>1, <1>2, <1>3 DEF Next

\* The inductive invariant of a run of either profile: what every copy knows
\* of the file, and which lease keeps whom out, while nobody else has saved.
THEOREM CopiesAreCurrent == Spec => [](TypeOK /\ CheckingAtStep /\ CopiesInv)
<1> DEFINE I == TypeOK /\ CheckingAtStep /\ CopiesInv
<1>1. Init => I
  BY TypeInit, CopiesInit DEF Init, CheckingAtStep
<1>2. I /\ [Next]_vars => I'
  BY TypeNext, CopiesNext
<1> QED
  BY <1>1, <1>2, PTL DEF Spec

\* Of two callers that run the verifier of one step at the same time, one has
\* outlived its lease (RunStateStore.claim_verification).
THEOREM LeasesExclude == Spec => []VerifierExclusive
<1>1. CopiesInv => VerifierExclusive
  BY DEF CopiesInv, CopyCurrent, ClaimsExclusive, Verifying, VerifierExclusive
<1> QED
  BY <1>1, CopiesAreCurrent, PTL

\* What a save may do to the history of the file.
Lands(d, r) ==
  /\ d.done \subseteq r.done /\ d.skipped \subseteq r.skipped
  /\ \A s \in Steps : d.failed[s] <= r.failed[s]
  /\ d.rev > 0 /\ r.step # 0 => d.step # 0 /\ d.step <= r.step
  /\ \A s \in r.done \ d.done : s = d.step /\ ~LimitReached(d)
  /\ \A s \in Steps : r.failed[s] > d.failed[s] => s = d.step

\* A run lands on itself, and so does an attempt on the run it started from.
LEMMA AttemptLands ==
  ASSUME NEW d \in Runs, NEW r \in Runs, NEW x \in Runs, SameRun(x, r),
         \/ Attempted(d, r)
         \/ Moved(d, r)
         \/ d = NoRun /\ r.done = {} /\ r.failed = NoRun.failed
  PROVE  Lands(d, x)
<1>1. /\ d.failed \in [Steps -> Nat] /\ r.failed \in [Steps -> Nat]
      /\ x.failed = r.failed /\ x.done = r.done /\ x.skipped = r.skipped /\ x.step = r.step
  BY DEF Runs, SameRun
<1>2. CASE Moved(d, r)
  BY <1>1, <1>2 DEF Moved, Lands
<1>3. CASE d = NoRun /\ r.done = {} /\ r.failed = NoRun.failed
  BY <1>1, <1>3 DEF Lands, NoRun
<1>4. CASE Attempted(d, r)
  <2>1. \A s \in Steps : /\ d.failed[s] <= r.failed[s]
                         /\ r.failed[s] > d.failed[s] => s = d.step
    BY <1>1, <1>4 DEF Attempted
  <2> QED
    BY <1>1, <1>4, <2>1 DEF Attempted, Lands
<1> QED
  BY <1>2, <1>3, <1>4

\* Every change of the file lands: the save of a copy that nobody overtook.
LEMMA SavesLand ==
  ASSUME TypeOK, CheckingAtStep, CopiesInv, TypeOK', [Next]_vars, disk' # disk
  PROVE  Lands(disk, disk')
<1>1. PICK p \in Callers : Create(p) \/ ClearOutbox(p) \/ Prepare(p) \/ SaveResult(p)
                           \/ SaveResumed(p)
  <2>1. PICK p \in Callers : Call(p)
    BY DEF Next, Crash, LeaseExpires, vars
  <2>2. ~Start(p) /\ ~LoadToAdvance(p) /\ ~LoadToResume(p)
    <3>1. Start(p) => UNCHANGED disk
      <4> SUFFICES ASSUME Start(p) PROVE UNCHANGED disk
        OBVIOUS
      <4> QED
        BY DEF Start
    <3>2. ~LoadToAdvance(p)
      BY DEF LoadToAdvance
    <3>3. ~LoadToResume(p)
      BY DEF LoadToResume
    <3> QED
      BY <3>1, <3>2, <3>3
  <2>3. ~AppendOutbox(p) /\ ~AppendRefused(p)
    BY DEF AppendOutbox, AppendRefused
  <2>4. ~Evaluate(p) /\ ~BeginCheck(p) /\ ~EndCheck(p)
    BY DEF Evaluate, BeginCheck, EndCheck
  <2> QED
    BY <2>1, <2>2, <2>3, <2>4 DEF Call
<1>2. mem[p] \in Runs /\ disk \in Runs /\ disk' \in Runs /\ CopyCurrent(p) /\ disk.step \in Nat
  <2>1. \A r \in Runs : r.step \in Nat
    BY PipelineAssumption DEF Runs, ValidPipeline
  <2> QED
    BY <2>1 DEF TypeOK, CopiesInv
<1>3. ASSUME NEW r \in Runs, NEW next, Save(p, r, next)
      PROVE  mem[p].rev = disk.rev /\ SameRun(disk', r)
  BY <1>3 DEF Save, SameRun, Runs
<1>4. CASE Create(p)
  <2>1. pc[p] = "create" /\ Save(p, mem[p], "idle")
    BY <1>4 DEF Create
  <2>2. disk = NoRun /\ mem[p].done = {} /\ mem[p].failed = NoRun.failed /\ SameRun(disk', mem[p])
    BY <1>2, <1>3, <2>1 DEF CopyCurrent, CopiesInv
  <2> QED
    BY <1>2, <2>2, AttemptLands
<1>5. CASE ClearOutbox(p)
  <2>1. pc[p] \in {"reflush", "clear"} /\ \E next : Save(p, mem[p], next)
    BY <1>5 DEF ClearOutbox
  <2>2. SameRun(disk', mem[p]) /\ SameRun(mem[p], disk)
    BY <1>2, <1>3, <2>1, CopyIsFile
  <2> QED
    BY <1>2, <2>2, AttemptLands DEF SameRun, Moved
<1>6. CASE Prepare(p)
  <2>1. pc[p] = "ready"
    BY <1>6 DEF Prepare
  <2>2. PICK input \in Inputs, exec \in Nat :
          \E next : Save(p, Claimed(Updated(mem[p], input), exec), next)
    <3>1. \A input \in Inputs : Updated(mem[p], input).lease.exec \in Nat
      <4>1. \A r \in Runs : r.lease.exec \in Nat
        BY DEF Runs
      <4> QED
        BY <1>2, <4>1, UpdatedType
    <3>2. fresh + 1 \in Nat
      BY DEF TypeOK
    <3> QED
      BY <1>6, <3>1, <3>2, PrepareIs
  <2> DEFINE r == Updated(mem[p], input)
             q == Claimed(r, exec)
  <2>3. r \in Runs /\ SameRun(r, mem[p])
    BY <1>2, UpdatedType DEF Updated, Runs, SameRun
  <2> HIDE DEF r
  <2>4. q \in Runs /\ SameRun(q, r)
    <3>1. SameRun(q, r)
      BY <2>3 DEF Claimed, Runs, SameRun
    <3> QED
      BY <2>3, <3>1, ClaimedType
  <2> HIDE DEF q
  <2>5. SameRun(disk', q) /\ SameRun(mem[p], disk)
    BY <1>2, <1>3, <2>1, <2>2, <2>4, CopyIsFile DEF q, r
  <2>6. SameRun(disk', disk)
    BY <2>3, <2>4, <2>5 DEF SameRun
  <2>7. Lands(disk, disk)
    BY <1>2 DEF Lands, Runs
  <2> QED
    BY <2>6, <2>7 DEF Lands, SameRun
<1>7. CASE SaveResult(p)
  <2>1. pc[p] = "save" /\ \E next : Save(p, mem[p], next)
    BY <1>7 DEF SaveResult
  <2>2. SameRun(disk', mem[p]) /\ Attempted(disk, mem[p])
    BY <1>2, <1>3, <2>1 DEF CopyCurrent
  <2> QED
    BY <1>2, <2>2, AttemptLands
<1>8. CASE SaveResumed(p)
  <2>1. pc[p] = "resume" /\ Save(p, Resume(mem[p]), "idle")
    BY <1>8 DEF SaveResumed
  <2>2. Resume(mem[p]) \in Runs /\ Moved(mem[p], Resume(mem[p]))
    BY <1>2, ResumeMoves
  <2>3. SameRun(disk', Resume(mem[p])) /\ SameRun(mem[p], disk) /\ mem[p].rev = disk.rev
    BY <1>2, <1>3, <2>1, <2>2, CopyIsFile
  <2>4. Lands(mem[p], disk')
    BY <1>2, <2>2, <2>3, AttemptLands
  <2> QED
    BY <1>2, <2>3, <2>4 DEF Lands, SameRun, LimitReached
<1> QED
  BY <1>1, <1>4, <1>5, <1>6, <1>7, <1>8

\* A save of a stale copy never lands (RunStateStore.save): what is recorded
\* stays recorded, and the run never goes back to an earlier step.
THEOREM HistoryKept == Spec => HistoryGrows
<1>1. TypeOK /\ CheckingAtStep /\ CopiesInv /\ [Next]_vars =>
        [ /\ disk.done \subseteq disk'.done
          /\ disk.skipped \subseteq disk'.skipped
          /\ \A s \in Steps : disk.failed[s] <= disk'.failed[s]
          /\ disk.rev > 0 /\ disk'.step # 0 => disk.step # 0 /\ disk.step <= disk'.step ]_disk
  BY TypeNext, SavesLand DEF Lands
<1> QED
  BY <1>1, CopiesAreCurrent, PTL DEF Spec, HistoryGrows

\* No verifier that was overtaken, by a resume or by another caller, has its
\* result recorded (RunStateStore.save, PipelineEngine.complete_and_advance).
THEOREM ResultsLandAtStep == Spec => ResultsAreCurrent
<1>1. TypeOK /\ CheckingAtStep /\ CopiesInv /\ [Next]_vars =>
        [ \A s \in Steps :
            s \in disk'.done \ disk.done \/ disk'.failed[s] > disk.failed[s] =>
              s = disk.step ]_disk
  BY TypeNext, SavesLand DEF Lands
<1> QED
  BY <1>1, CopiesAreCurrent, PTL DEF Spec, ResultsAreCurrent

\* The attempt that completes a step is within max_iterations, whoever made
\* the earlier ones (PipelineEngine.complete_and_advance).
THEOREM LimitsHold == Spec => LimitHolds
<1>1. TypeOK /\ CheckingAtStep /\ CopiesInv /\ [Next]_vars =>
        [ \A s \in disk'.done \ disk.done :
            MaxIter[s] = 0 \/ disk.failed[s] < MaxIter[s] ]_disk
  <2>1. ASSUME TypeOK, CheckingAtStep, CopiesInv, [Next]_vars, disk' # disk,
               NEW s \in disk'.done \ disk.done
        PROVE  MaxIter[s] = 0 \/ disk.failed[s] < MaxIter[s]
    <3>1. s = disk.step /\ ~LimitReached(disk)
      BY <2>1, TypeNext, SavesLand DEF Lands
    <3>2. s \in Steps
      BY <2>1, TypeNext DEF TypeOK, Runs
    <3>3. MaxIter[s] \in Nat /\ disk.failed[s] \in Nat
      BY <2>1, <3>2, PipelineAssumption DEF ValidPipeline, TypeOK, Runs
    <3> QED
      BY <3>1, <3>3 DEF LimitReached
  <2> QED
    BY <2>1
<1> QED
  BY <1>1, CopiesAreCurrent, PTL DEF Spec, LimitHolds

---------------------------------------------------------------------------
(* Events *)

\* Appending adds one line and keeps the others.
LEMMA AppendIs ==
  ASSUME NEW lines \in Seq(Events), NEW e \in Events
  PROVE  /\ DOMAIN Append(lines, e) = DOMAIN lines \cup {Len(lines) + 1}
         /\ \A i \in DOMAIN lines : Append(lines, e)[i] = lines[i]
         /\ Append(lines, e)[Len(lines) + 1] = e
         /\ Len(lines) + 1 \notin DOMAIN lines
  OBVIOUS

\* An empty outbox owes no event.
LEMMA NoOutboxIs == NoOutbox.event = NoEvent /\ NoEvent.id = 0
BY DEF NoOutbox, NoEvent

\* One new event at most appears in a step, under an id nobody has used.
LEMMA EventsStep ==
  ASSUME TypeOK, TypeOK', EventsNamed, fresh <= fresh',
         NEW x, x.id = 0 \/ (x.id = fresh + 1 /\ fresh' = fresh + 1),
         \A e \in Carried' : e \in Carried \/ e.id = 0 \/ e = x
  PROVE  EventsNamed'
<1>1. fresh \in Nat /\ fresh' \in Nat
  BY DEF TypeOK
<1>2. \A e \in Carried : e.id \in Nat
  <2>1. \A r \in Runs : r.outbox.event \in Events
    BY DEF Runs
  <2>2. \A e \in Events : e.id \in Nat
    BY DEF Events
  <2>3. Carried \subseteq Events
    BY <2>1 DEF TypeOK, Carried
  <2> QED
    BY <2>2, <2>3
<1>3. \A e \in Carried' : e.id <= fresh'
  BY <1>1, <1>2 DEF EventsNamed
<1>4. ASSUME NEW e \in Carried', NEW f \in Carried', e.id # 0, e.id = f.id
      PROVE  e = f
  <2>1. e \in Carried \/ e = x
    BY <1>4
  <2>2. f \in Carried \/ f = x
    BY <1>4
  <2> QED
    BY <1>1, <1>2, <1>4, <2>1, <2>2 DEF EventsNamed
<1> QED
  BY <1>3, <1>4 DEF EventsNamed

---------------------------------------------------------------------------
(* Steps that leave the file and the log alone *)

\* A step of p on its own copy, the file and the log untouched: the invariant
\* holds if the new copy fits the file and its event is known, empty or new.
LEMMA LocalStep ==
  ASSUME TypeOK, TypeOK', AuditInv, NEW p \in Callers, NEW r, NEW next,
         Continue(p, r, next), UNCHANGED <<disk, log>>, CopyOK(r, next),
         fresh <= fresh',
         \/ r.outbox.event \in Carried
         \/ r.outbox.event.id = 0
         \/ r.outbox.event.id = fresh + 1 /\ fresh' = fresh + 1
  PROVE  AuditInv'
<1>1. mem'[p] = r /\ pc'[p] = next
      /\ \A q \in Callers \ {p} : mem'[q] = mem[q] /\ pc'[q] = pc[q]
  BY DEF Continue, TypeOK
<1>2. EventsNamed'
  <2>1. \A e \in Carried' : e \in Carried \/ e.id = 0 \/ e = r.outbox.event
    BY <1>1 DEF Carried
  <2>2. CASE r.outbox.event \in Carried
    <3>1. \A e \in Carried' : e \in Carried \/ e.id = 0 \/ e = NoEvent
      BY <2>1, <2>2
    <3> QED
      BY <3>1, NoOutboxIs, EventsStep DEF AuditInv
  <2>3. CASE r.outbox.event \notin Carried
    BY <2>1, <2>3, EventsStep DEF AuditInv
  <2> QED
    BY <2>2, <2>3
<1>3. CopiesAgree'
  <2>1. \A q \in Callers : CopyOK(mem'[q], pc'[q])
    BY <1>1 DEF AuditInv, CopiesAgree
  <2> QED
    BY <2>1 DEF CopiesAgree, CopyOK, Fresh
<1> QED
  BY <1>2, <1>3 DEF AuditInv, FileOK, EventsWrittenOnce, CompletionsAudited, FailuresAudited,
                    Announced

\* A caller without a copy fits every file.
LEMMA NoCopy == 
  ASSUME TypeOK
  PROVE  CopyOK(NoRun, "idle") /\ NoRun.outbox.event.id = 0
<1>1. 0 <= disk.rev
  BY DEF TypeOK, Runs
<1> QED
  BY <1>1, NoOutboxIs DEF CopyOK, NoRun

\* A call may end at any point: the file still accounts for every event.
LEMMA ReturnStep ==
  ASSUME TypeOK, TypeOK', AuditInv, NEW p \in Callers,
         Return(p), UNCHANGED <<disk, log>>, fresh <= fresh'
  PROVE  AuditInv'
<1>1. Continue(p, NoRun, "idle")
  BY DEF Return, Continue
<1> QED
  BY <1>1, NoCopy, LocalStep

---------------------------------------------------------------------------
(* Saves *)

\* What a save of the run r needs to keep the file and the log in agreement.
Backed(r, s, o) ==
  \/ \E i \in DOMAIN log : log[i].step = s /\ log[i].outcome = o
  \/ r.outbox.event.step = s /\ r.outbox.event.outcome = o

Savable(r) ==
  /\ r.outbox.event \in Carried
  /\ r.outbox.event.id = 0 => r.outbox = NoOutbox
  /\ \A s \in r.done : Backed(r, s, "gate_passed")
  /\ NoBranch => \A s \in Steps : r.failed[s] > 0 => Backed(r, s, "gate_failed")

\* RunStateStore.save: a copy that may be saved replaces the file; the copies
\* of the other callers are overtaken, and a stale one changes nothing.
LEMMA SaveStep ==
  ASSUME TypeOK, TypeOK', AuditInv, NEW p \in Callers, NEW r \in Runs, NEW next,
         Save(p, r, next), UNCHANGED log, fresh <= fresh',
         mem[p].rev = disk.rev => Savable(r),
         \/ next = "idle"
         \/ next \in {"ready", "verify"} /\ r.outbox = NoOutbox
         \/ next = "append" /\ r.outbox.event.id # 0
  PROVE  AuditInv'
<1>1. CASE mem[p].rev # disk.rev
  BY <1>1, ReturnStep DEF Save
<1>2. CASE mem[p].rev = disk.rev
  <2> DEFINE saved == [r EXCEPT !.rev = disk.rev + 1]
             kept == IF next = "idle" THEN NoRun ELSE saved
  <2>1. disk' = saved /\ Continue(p, kept, next) /\ Savable(r)
    BY <1>2 DEF Save, Return, Continue
  <2>2. /\ saved.rev = disk.rev + 1 /\ saved.outbox = r.outbox
        /\ SameRun(saved, r)
    BY DEF Runs, SameRun
  <2>3. disk.rev \in Nat
    BY DEF TypeOK, Runs
  <2>4. /\ mem'[p] = kept /\ pc'[p] = next
        /\ \A q \in Callers \ {p} : mem'[q] = mem[q] /\ pc'[q] = pc[q]
    BY <2>1 DEF Continue, TypeOK
  <2> HIDE DEF saved
  <2>5. EventsNamed'
    <3>1. kept.outbox.event \in Carried \/ kept.outbox.event.id = 0
      BY <2>1, <2>2, NoCopy DEF Savable
    <3>2. \A e \in Carried' : e \in Carried \/ e.id = 0 \/ e = NoEvent
      BY <2>1, <2>2, <2>4, <3>1 DEF Carried, Savable
    <3> QED
      BY <3>2, NoOutboxIs, EventsStep DEF AuditInv
  <2>6. CopiesAgree'
    <3>1. ASSUME NEW q \in Callers \ {p} PROVE CopyOK(mem[q], pc[q])'
      <4>1. CopyOK(mem[q], pc[q]) /\ mem[q].rev \in Nat
        BY DEF AuditInv, CopiesAgree, TypeOK, Runs
      <4>2. mem[q].rev <= disk'.rev /\ mem[q].rev # disk'.rev
        BY <4>1, <2>1, <2>2, <2>3 DEF CopyOK
      <4> QED
        BY <2>4, <4>1, <4>2 DEF CopyOK
    <3>2. CopyOK(mem[p], pc[p])'
      <4>1. CASE next = "idle"
        BY <2>1, <2>2, <2>3, <2>4, <4>1, NoOutboxIs DEF CopyOK, NoRun
      <4>2. CASE next # "idle"
        <5>1. mem'[p] = disk' /\ pc'[p] \in {"ready", "verify", "append"}
          BY <2>1, <2>4, <4>2
        <5>2. disk'.rev = disk.rev + 1 /\ disk'.outbox = r.outbox
          BY <2>1, <2>2
        <5> QED
          BY <5>1, <5>2, <2>3, <2>4, <4>2 DEF CopyOK, Fresh, SameRun
      <4> QED
        BY <4>1, <4>2
    <3> QED
      BY <3>1, <3>2 DEF CopiesAgree
  <2>7. FileOK'
    BY <2>1, <2>2, <2>3 DEF FileOK, Savable
  <2>8. CompletionsAudited'
    BY <2>1, <2>2 DEF CompletionsAudited, Savable, Backed, Announced, SameRun
  <2>9. NoBranch => FailuresAudited'
    BY <2>1, <2>2 DEF FailuresAudited, Savable, Backed, Announced, SameRun
  <2>10. EventsWrittenOnce'
    BY DEF EventsWrittenOnce, AuditInv
  <2> QED
    BY <2>5, <2>6, <2>7, <2>8, <2>9, <2>10 DEF AuditInv, NoBranch
<1> QED
  BY <1>1, <1>2

---------------------------------------------------------------------------
(* Appends *)

\* The log only grows.
Longer == \A i \in DOMAIN log : i \in DOMAIN log' /\ log'[i] = log[i]

\* A step of p that adds lines of one known event to the log.
LEMMA AppendStep ==
  ASSUME TypeOK, TypeOK', AuditInv, NEW p \in Callers, NEW r, NEW next, NEW e \in Events,
         Continue(p, r, next), UNCHANGED <<disk, fresh>>,
         Longer,
         \A i \in DOMAIN log' : i \in DOMAIN log \/ log'[i] = e,
         e.id # 0 => e \in Carried,
         EventsWrittenOnce',
         CopyOK(mem[p], pc[p])', r.outbox.event.id = 0
  PROVE  AuditInv'
<1>1. mem'[p] = r /\ pc'[p] = next
      /\ \A q \in Callers \ {p} : mem'[q] = mem[q] /\ pc'[q] = pc[q]
  BY DEF Continue, TypeOK
<1>2. EventsNamed'
  <2>1. \A x \in Carried' : x \in Carried \/ x.id = 0 \/ x = NoEvent
    BY <1>1 DEF Carried, Longer
  <2>2. fresh <= fresh'
    BY DEF TypeOK
  <2> QED
    BY <2>1, <2>2, NoOutboxIs, EventsStep DEF AuditInv
<1>3. CopiesAgree'
  <2>1. ASSUME NEW q \in Callers \ {p} PROVE CopyOK(mem[q], pc[q])'
    BY <1>1 DEF AuditInv, CopiesAgree, CopyOK, Fresh, Longer
  <2> QED
    BY <2>1 DEF CopiesAgree
<1>4. \A s, o : Announced(s, o) => Announced(s, o)'
  BY DEF Announced, Longer
<1> QED
  BY <1>2, <1>3, <1>4 DEF AuditInv, FileOK, CompletionsAudited, FailuresAudited

\* A strict append to the recorded sink: the event is a line afterwards, once.
LEMMA AppendStrictIs ==
  ASSUME TypeOK, EventsNamed, EventsWrittenOnce, NEW e \in Events, NEW snk \in Sinks,
         e.sink = snk \/ e.id = 0, e.id # 0 => e \in Carried, AppendStrict(snk, e)
  PROVE  /\ Longer
         /\ \A i \in DOMAIN log' : i \in DOMAIN log \/ log'[i] = [e EXCEPT !.sink = snk]
         /\ e.id # 0 => \E i \in DOMAIN log' : log'[i] = e
         /\ EventsWrittenOnce'
<1> DEFINE line == [e EXCEPT !.sink = snk]
<1>1. line \in Events /\ line.id = e.id
  BY DEF Events
<1>2. e.id # 0 => line = e
  BY DEF Events
<1>3. \A i \in DOMAIN log : log[i] \in Carried
  BY DEF Carried
<1>4. CASE log' = log
  <2>1. e.id # 0 /\ ContainsEvent(snk, e.id)
    <3>1. log # Append(log, line)
      BY <1>1, AppendIs DEF TypeOK
    <3> QED
      BY <1>4, <3>1 DEF AppendStrict
  <2>2. PICK i \in DOMAIN log : log[i].id = e.id
    BY <2>1 DEF ContainsEvent
  <2>3. log[i] = e
    BY <1>3, <2>1, <2>2 DEF EventsNamed
  <2> QED
    BY <1>4, <2>2, <2>3 DEF Longer, EventsWrittenOnce
<1>5. CASE log' # log
  <2>1. log' = Append(log, line) /\ ~(e.id # 0 /\ ContainsEvent(snk, e.id)) /\ snk \notin torn
    BY <1>5 DEF AppendStrict
  <2>2. /\ DOMAIN log' = DOMAIN log \cup {Len(log) + 1}
        /\ \A i \in DOMAIN log : log'[i] = log[i]
        /\ log'[Len(log) + 1] = line
        /\ Len(log) + 1 \notin DOMAIN log
    <3> HIDE DEF line
    <3> QED
      BY <1>1, <2>1, AppendIs DEF TypeOK
  <2>3. ASSUME NEW i \in DOMAIN log, log[i].id = e.id, e.id # 0
        PROVE  FALSE
    <3>1. log[i] = e
      BY <1>3, <2>3 DEF EventsNamed
    <3> QED
      BY <2>1, <2>3, <3>1 DEF ContainsEvent
  <2>4. EventsWrittenOnce'
    <3> HIDE DEF line
    <3> QED
      BY <1>1, <2>2, <2>3 DEF EventsWrittenOnce
  <2> HIDE DEF line
  <2>5. e.id # 0 => \E i \in DOMAIN log' : log'[i] = e
    BY <1>2, <2>2
  <2>6. Longer
    BY <2>2 DEF Longer
  <2>7. \A i \in DOMAIN log' : i \in DOMAIN log \/ log'[i] = line
    BY <2>2
  <2> QED
    BY <2>4, <2>5, <2>6, <2>7 DEF line
<1> QED
  BY <1>4, <1>5

---------------------------------------------------------------------------
(* Evaluations *)

\* The result q of evaluating r extends the file r was taken from, and the
\* event e speaks for what is new in it.
LEMMA RecordedExtends ==
  ASSUME NEW d \in Runs, NEW r \in Runs, NEW q \in Runs, SameRun(r, d), Recorded(r, q),
         NEW e, e.step = r.step,
         e.outcome = IF q.status = "failed" THEN "gate_failed" ELSE "gate_passed",
         NEW x \in Runs, SameRun(x, q), x.outbox.event = e
  PROVE  Extends(x, d)
<1>1. r.step \in 0 .. N /\ r.failed \in [Steps -> Nat] /\ q.step \in 0 .. N
  BY DEF Runs
<1>0. q.skipped = r.skipped
  BY DEF Recorded
<1>2. CASE r.step = 0
  BY <1>1, <1>2 DEF Extends, Recorded, SameRun
<1>3. CASE r.step # 0 /\ q.step = NextOf[r.step] /\ q.status # "failed"
           /\ q.done = r.done \cup {r.step} /\ q.failed = r.failed
  <2>1. /\ r.step \in Steps
        /\ NextOf[r.step] # 0 => NextOf[r.step] > r.step
    BY <1>3, StepIn, PipelineAssumption DEF ValidPipeline
  <2>2. \A s \in Steps : r.failed[s] \in Nat
    BY <1>1
  <2>3. \A s \in Steps : d.failed[s] <= x.failed[s] /\ ~(x.failed[s] > d.failed[s])
    BY <1>3, <2>2 DEF SameRun
  <2>4. x.step # 0 => d.step # 0 /\ d.step <= x.step
    BY <1>1, <1>3, <2>1 DEF SameRun
  <2> QED
    BY <1>0, <1>3, <2>3, <2>4 DEF Extends, SameRun
<1>4. CASE r.step # 0
           /\ \/ q.status = "failed" /\ q.step = r.step
              \/ q.status # "failed" /\ FailTo[r.step] # 0 /\ q.step = FailTo[r.step]
           /\ q.done = r.done /\ q.failed = [r.failed EXCEPT ![r.step] = @ + 1]
  <2>1. /\ r.step \in Steps
        /\ FailTo[r.step] # 0 => FailTo[r.step] > r.step
    BY <1>4, StepIn, PipelineAssumption DEF ValidPipeline
  <2>2. \A s \in Steps : q.failed[s] = IF s = r.step THEN r.failed[s] + 1 ELSE r.failed[s]
    BY <1>1, <1>4
  <2>3. \A s \in Steps : r.failed[s] \in Nat
    BY <1>1
  <2>4. q.step # 0 => r.step <= q.step
    BY <1>1, <1>4, <2>1
  <2>5. \A s \in Steps : r.failed[s] <= q.failed[s] /\ (q.failed[s] > r.failed[s] => s = r.step)
    BY <2>2, <2>3
  <2>6. NoBranch => e.outcome = "gate_failed"
    BY <1>4, <2>1 DEF NoBranch
  <2> QED
    BY <1>0, <1>4, <2>1, <2>4, <2>5, <2>6 DEF Extends, SameRun, NoBranch
<1> QED
  BY <1>2, <1>3, <1>4 DEF Recorded

\* The tail of advance keeps the invariant: the event it draws is new.
LEMMA EvaluatedStep ==
  ASSUME Production, TypeOK, TypeOK', AuditInv, NEW p \in Callers, NEW q \in Runs,
         pc[p] \in {"verify", "checking"}, Evaluated(p, q), Recorded(mem[p], q),
         UNCHANGED <<disk, log>>
  PROVE  AuditInv'
<1> DEFINE event == [ kind    |-> "evaluated",
                      id      |-> fresh + 1,
                      step    |-> mem[p].step,
                      outcome |-> IF q.status = "failed" THEN "gate_failed" ELSE "gate_passed",
                      exec    |-> IF mem[p].step \in Checked THEN mem[p].lease.exec ELSE 0,
                      sink    |-> sink[p] ]
           x == [q EXCEPT !.lease = NoLease,
                          !.outbox = [event |-> event, candidate |-> q.status]]
<1>1. fresh' = fresh + 1 /\ Continue(p, x, "save")
  BY DEF Evaluated
<1>2. /\ event.id = fresh + 1 /\ event.step = mem[p].step
      /\ event.outcome = IF q.status = "failed" THEN "gate_failed" ELSE "gate_passed"
  OBVIOUS
<1> HIDE DEF event
<1>3. /\ x.outbox.event = event /\ SameRun(x, q) /\ x.rev = mem[p].rev
  BY DEF Runs, SameRun, Recorded
<1>4. x \in Runs
  BY <1>1 DEF Continue, TypeOK
<1>5. fresh \in Nat /\ mem[p] \in Runs /\ disk \in Runs
  BY DEF TypeOK
<1> HIDE DEF x
<1>6. CopyOK(x, "save")
  <2>1. CopyOK(mem[p], pc[p])
    BY DEF AuditInv, CopiesAgree
  <2>2. ASSUME x.rev = disk.rev PROVE Fresh(x, "save")
    <3>1. SameRun(mem[p], disk) /\ disk.outbox = NoOutbox
      BY <1>3, <2>1, <2>2 DEF CopyOK, Fresh
    <3>2. Extends(x, disk)
      BY <1>2, <1>3, <1>4, <1>5, <3>1, RecordedExtends
    <3> QED
      BY <3>1, <3>2 DEF Fresh
  <2> QED
    BY <1>2, <1>3, <1>5, <2>1, <2>2 DEF CopyOK
<1> QED
  BY <1>1, <1>2, <1>3, <1>5, <1>6, LocalStep

---------------------------------------------------------------------------
(* The steps *)

\* A copy nobody overtook has the history and the step of the file.
LEMMA FreshSame ==
  ASSUME TypeOK, AuditInv, NEW p \in Callers, pc[p] \notin {"idle", "create", "save"},
         mem[p].rev = disk.rev
  PROVE  SameRun(mem[p], disk) /\ Fresh(mem[p], pc[p])
BY DEF AuditInv, CopiesAgree, CopyOK, Fresh

\* A copy that carries the history and the outbox of the file can be saved.
LEMMA SavableSame ==
  ASSUME TypeOK, AuditInv, NEW p \in Callers,
         NEW r, r.done = disk.done, r.failed = disk.failed, r.outbox = mem[p].outbox,
         \/ r.outbox = disk.outbox
         \/ r.outbox = NoOutbox /\ \E i \in DOMAIN log : log[i] = disk.outbox.event
  PROVE  Savable(r)
<1>1. r.outbox.event \in Carried
  BY DEF Carried
<1>2. r.outbox.event.id = 0 => r.outbox = NoOutbox
  BY DEF AuditInv, FileOK
<1>3. \A s, o : Announced(s, o) => Backed(r, s, o)
  BY DEF Announced, Backed
<1>4. CompletionsAudited /\ (NoBranch => FailuresAudited)
  BY DEF AuditInv, NoBranch
<1> QED
  BY <1>1, <1>2, <1>3, <1>4 DEF Savable, CompletionsAudited, FailuresAudited

\* The result of an evaluation can be saved: what it adds is in its outbox.
LEMMA SavableResult ==
  ASSUME TypeOK, AuditInv, NEW p \in Callers, pc[p] = "save", mem[p].rev = disk.rev
  PROVE  Savable(mem[p])
<1>1. /\ mem[p].outbox.event.id # 0 /\ Extends(mem[p], disk) /\ disk.outbox = NoOutbox
  BY DEF AuditInv, CopiesAgree, CopyOK, Fresh
<1>2. mem[p].outbox.event \in Carried
  BY DEF Carried
<1>3. \A s, o : o # "none" /\ Announced(s, o) => Backed(mem[p], s, o)
  BY <1>1 DEF Announced, Backed, NoOutbox, NoEvent
<1>4. CompletionsAudited /\ (NoBranch => FailuresAudited)
  BY DEF AuditInv, NoBranch
<1>5. \A s \in mem[p].done : Backed(mem[p], s, "gate_passed")
  BY <1>1, <1>3, <1>4 DEF CompletionsAudited, Extends, Backed
<1>6. ASSUME NoBranch, NEW s \in Steps, mem[p].failed[s] > 0
      PROVE  Backed(mem[p], s, "gate_failed")
  <2>1. disk.failed[s] \in Nat /\ mem[p].failed[s] \in Nat
    BY DEF TypeOK, Runs
  <2>2. CASE disk.failed[s] > 0
    BY <1>3, <1>4, <1>6, <2>2 DEF FailuresAudited
  <2>3. CASE ~(disk.failed[s] > 0)
    <3>1. mem[p].failed[s] > disk.failed[s]
      BY <1>6, <2>1, <2>3
    <3> QED
      BY <1>1, <1>6, <3>1 DEF Extends, Backed, NoBranch
  <2> QED
    BY <2>2, <2>3
<1> QED
  BY <1>1, <1>2, <1>5, <1>6 DEF Savable

\* A resume changes nothing but the status.
LEMMA ResumeIs ==
  ASSUME NEW r \in Runs, r.status = "failed"
  PROVE  /\ Resume(r).rev = r.rev /\ Resume(r).outbox = r.outbox
         /\ SameRun(Resume(r), r)
BY DEF Resume, Runs, SameRun

\* Every way complete_and_advance ends records success, failure, or nothing.
LEMMA EvaluateIs ==
  ASSUME Production, TypeOK, NEW p \in Callers, Evaluate(p)
  PROVE  \E q \in Runs : Evaluated(p, q) /\ Recorded(mem[p], q)
<1> DEFINE over == [mem[p] EXCEPT !.status = IF @ = "running" THEN "completed" ELSE @]
<1>0. mem[p] \in Runs
  BY DEF TypeOK
<1>1. over \in Runs
  <2>1. (IF mem[p].status = "running" THEN "completed" ELSE mem[p].status) \in Statuses
    BY <1>0, StatusIn DEF Runs
  <2> QED
    BY <1>0, <2>1 DEF Runs
<1>2. mem[p].step = 0 => Recorded(mem[p], over)
  BY <1>0 DEF Recorded, Runs
<1>3. \/ mem[p].step = 0 /\ Evaluated(p, over)
      \/ /\ mem[p].step # 0
         /\ \/ Evaluated(p, Fail(mem[p]))
            \/ Evaluated(p, GateFailed(mem[p]))
            \/ Evaluated(p, GatePassed(mem[p]))
  BY DEF Evaluate
<1> HIDE DEF over
<1> QED
  BY <1>0, <1>1, <1>2, <1>3, FailIs, GatePassedIs, GateFailedIs

\* Each step of a call keeps the invariant; one case per action.
LEMMA AuditCall ==
  ASSUME Production, TypeOK, CheckingAtStep, TypeOK', AuditInv, NEW p \in Callers, Call(p)
  PROVE  AuditInv'
<1>0. mem[p] \in Runs /\ disk \in Runs /\ fresh \in Nat /\ CopyOK(mem[p], pc[p]) /\ FileOK
  BY DEF TypeOK, AuditInv, CopiesAgree
<1>1. CASE Start(p)
  <2>1. PICK input \in Inputs :
          LET r == Started(Update(NoRun.ctx, input))
          IN  /\ Continue(p, r, "create")
              /\ AppendStrict(sink[p], [NoEvent EXCEPT !.kind = "started", !.step = r.step,
                                                       !.outcome = "pending_commit"])
    BY <1>1 DEF Start
  <2> DEFINE r == Started(Update(NoRun.ctx, input))
             e == [NoEvent EXCEPT !.kind = "started", !.step = r.step,
                                  !.outcome = "pending_commit"]
             line == [e EXCEPT !.sink = sink[p]]
  <2>2. r \in Runs /\ r = MoveTo([NoRun EXCEPT !.ctx = Update(NoRun.ctx, input)], 1)
    <3>1. NoRun.ctx \in Contexts
      BY NoRunType DEF Runs
    <3> QED
      BY <3>1, UpdateType, StartedType
  <2>3. r.rev = 0 /\ SameRun(r, [NoRun EXCEPT !.step = 1]) /\ r.outbox = NoOutbox
    <3> HIDE DEF r
    <3> QED
      BY <2>2 DEF MoveTo, NoRun, SameRun
  <2>4. e \in Events /\ e.id = 0
    <3>1. r.step \in 0 .. N
      BY <2>2 DEF Runs
    <3> HIDE DEF r
    <3> QED
      BY <3>1 DEF NoEvent, Events
  <2>5. sink[p] \in Sinks /\ UNCHANGED <<disk, fresh>>
    BY <1>1 DEF Start, TypeOK
  <2> HIDE DEF r, e
  <2>6. /\ Longer
        /\ \A i \in DOMAIN log' : i \in DOMAIN log \/ log'[i] = line
        /\ EventsWrittenOnce'
    <3>1. AppendStrict(sink[p], e)
      BY <2>1 DEF r, e
    <3> QED
      BY <2>4, <2>5, <3>1, AppendStrictIs DEF AuditInv
  <2>7. line \in Events /\ line.id = 0
    BY <2>4, <2>5 DEF Events
  <2>8. Continue(p, r, "create")
    BY <2>1 DEF r
  <2>9. CopyOK(mem[p], pc[p])'
    <3>1. mem'[p] = r /\ pc'[p] = "create"
      BY <2>8 DEF Continue, TypeOK
    <3> QED
      BY <2>3, <2>5, <3>1, <1>0 DEF CopyOK, Runs
  <2> HIDE DEF line
  <2> QED
    BY <2>3, <2>5, <2>6, <2>7, <2>8, <2>9, NoOutboxIs, AppendStep
<1>2. CASE Create(p)
  <2>1. pc[p] = "create" /\ Save(p, mem[p], "idle") /\ UNCHANGED <<log, fresh>>
    BY <1>2 DEF Create
  <2>2. ASSUME mem[p].rev = disk.rev PROVE Savable(mem[p])
    <3>1. disk = NoRun
      BY <1>0, <2>1, <2>2 DEF CopyOK, FileOK
    <3>2. mem[p].done = disk.done /\ mem[p].failed = disk.failed /\ mem[p].outbox = disk.outbox
      BY <1>0, <2>1, <3>1 DEF CopyOK, SameRun, NoRun
    <3> QED
      BY <3>2, SavableSame
  <2> QED
    BY <1>0, <2>1, <2>2, SaveStep
<1>3. CASE LoadToAdvance(p)
  <2>1. PICK st \in Statuses : Load = [disk EXCEPT !.status = st]
    BY <1>0, MaterializeType DEF Load
  <2>2. SameRun(Load, disk) /\ Load.rev = disk.rev /\ Load.outbox = disk.outbox
    BY <1>0, <2>1 DEF Runs, SameRun
  <2>3. Load.outbox.event \in Carried
    BY <2>2 DEF Carried
  <2>4. PICK at \in {"flush", "ready"} :
          /\ at = "flush" <=> disk.outbox.event.id # 0
          /\ Continue(p, Load, at) /\ UNCHANGED <<disk, log, fresh>> /\ disk.rev > 0
    BY <1>3 DEF LoadToAdvance
  <2>5. CopyOK(Load, at)
    BY <1>0, <2>2, <2>4 DEF CopyOK, Fresh, FileOK, Runs
  <2> QED
    BY <1>0, <2>3, <2>4, <2>5, LocalStep
<1>4. CASE AppendOutbox(p)
  <2> DEFINE e == mem[p].outbox.event
             next == IF pc[p] = "flush" THEN "reflush" ELSE "clear"
  <2>1. /\ pc[p] \in {"flush", "append"} /\ e.sink = sink[p] /\ AppendStrict(sink[p], e)
        /\ Continue(p, Flushed(mem[p]), next) /\ UNCHANGED <<disk, torn, fresh>>
    BY <1>4 DEF AppendOutbox, Flushed
  <2>2. e \in Events /\ e \in Carried /\ sink[p] \in Sinks
    BY <1>0 DEF Runs, Carried, TypeOK
  <2>3. e.id # 0
    BY <1>0, <2>1 DEF CopyOK
  <2>4. [e EXCEPT !.sink = sink[p]] = e
    <3>1. e.sink = sink[p]
      BY <2>1
    <3> HIDE DEF e
    <3> QED
      BY <2>2, <3>1 DEF Events
  <2>5. /\ Longer
        /\ \A i \in DOMAIN log' : i \in DOMAIN log \/ log'[i] = e
        /\ \E i \in DOMAIN log' : log'[i] = e
        /\ EventsWrittenOnce'
    <3> HIDE DEF e
    <3> QED
      BY <2>1, <2>2, <2>3, <2>4, AppendStrictIs DEF AuditInv
  <2>6. /\ SameRun(Flushed(mem[p]), mem[p]) /\ Flushed(mem[p]).rev = mem[p].rev
        /\ Flushed(mem[p]).outbox = NoOutbox
    BY <1>0 DEF Flushed, Runs, SameRun
  <2>7. mem[p].rev = disk.rev => SameRun(mem[p], disk) /\ mem[p].outbox = disk.outbox
    BY <1>0, <2>1 DEF CopyOK, Fresh
  <2>8. CopyOK(mem[p], pc[p])'
    <3>1. mem'[p] = Flushed(mem[p]) /\ pc'[p] = next
      BY <2>1 DEF Continue, TypeOK
    <3> QED
      BY <1>0, <2>1, <2>5, <2>6, <2>7, <3>1 DEF CopyOK, Fresh, SameRun
  <2> HIDE DEF e, next
  <2> QED
    BY <2>1, <2>2, <2>5, <2>6, <2>8, NoOutboxIs, AppendStep
<1>5. CASE AppendRefused(p)
  BY <1>0, <1>5, ReturnStep DEF AppendRefused
<1>6. CASE ClearOutbox(p)
  <2>1. PICK next \in {"idle", "ready"} :
          Save(p, mem[p], next) /\ pc[p] \in {"reflush", "clear"} /\ UNCHANGED <<log, fresh>>
    BY <1>6 DEF ClearOutbox
  <2>2. mem[p].outbox = NoOutbox
    BY <1>0, <2>1 DEF CopyOK
  <2>3. ASSUME mem[p].rev = disk.rev PROVE Savable(mem[p])
    <3>1. SameRun(mem[p], disk) /\ \E i \in DOMAIN log : log[i] = disk.outbox.event
      BY <2>1, <2>3, FreshSame DEF Fresh
    <3> QED
      BY <2>2, <3>1, SavableSame DEF SameRun
  <2> QED
    BY <1>0, <2>1, <2>2, <2>3, SaveStep
<1>7. CASE Prepare(p)
  <2>1. PICK input \in Inputs :
          LET r == Updated(mem[p], input)
              held == r.lease.exec # 0 /\ r.lease.step = r.step
              exec == IF held THEN r.lease.exec ELSE fresh + 1
          IN  \/ /\ r.step \notin Checked
                 /\ Continue(p, r, "verify") /\ UNCHANGED <<disk, fresh>>
              \/ Return(p) /\ UNCHANGED <<disk, fresh>>
              \/ /\ r.step \in Checked /\ ~(held /\ ~Expired(r.lease))
                 /\ fresh' = IF held THEN fresh ELSE exec
                 /\ Save(p, Claimed(r, exec), "idle") \/ Save(p, Claimed(r, exec), "verify")
    BY <1>7, PrepareIs
  <2> DEFINE r == Updated(mem[p], input)
             held == r.lease.exec # 0 /\ r.lease.step = r.step
             exec == IF held THEN r.lease.exec ELSE fresh + 1
             q == Claimed(r, exec)
  <2>2. pc[p] = "ready" /\ UNCHANGED log
    BY <1>7 DEF Prepare
  <2>3. r \in Runs /\ SameRun(r, mem[p]) /\ r.rev = mem[p].rev /\ r.outbox = mem[p].outbox
    BY <1>0, UpdatedType DEF Updated, Runs, SameRun
  <2>4. exec \in Nat
    BY <1>0, <2>3 DEF Runs
  <2>5. \/ Continue(p, r, "verify") /\ UNCHANGED <<disk, fresh>>
        \/ Return(p) /\ UNCHANGED <<disk, fresh>>
        \/ /\ fresh' = fresh \/ fresh' = fresh + 1
           /\ Save(p, q, "idle") \/ Save(p, q, "verify")
    BY <2>1
  <2> HIDE DEF r, held, exec
  <2>6. q \in Runs /\ SameRun(q, r) /\ q.rev = r.rev /\ q.outbox = r.outbox
    BY <2>3, <2>4, ClaimedType DEF Claimed, Runs, SameRun
  <2> HIDE DEF q
  <2>7. CASE Continue(p, r, "verify") /\ UNCHANGED <<disk, fresh>>
    <3>1. CopyOK(r, "verify")
      BY <1>0, <2>2, <2>3 DEF CopyOK, Fresh, SameRun
    <3>2. r.outbox.event \in Carried
      BY <2>3 DEF Carried
    <3> QED
      BY <1>0, <2>2, <2>7, <3>1, <3>2, LocalStep
  <2>8. CASE Return(p) /\ UNCHANGED <<disk, fresh>>
    BY <1>0, <2>2, <2>8, ReturnStep
  <2>9. CASE /\ fresh' = fresh \/ fresh' = fresh + 1
             /\ Save(p, q, "idle") \/ Save(p, q, "verify")
    <3>1. q.outbox = NoOutbox /\ q.outbox = mem[p].outbox
      BY <1>0, <2>2, <2>3, <2>6 DEF CopyOK
    <3>2. ASSUME mem[p].rev = disk.rev PROVE Savable(q)
      <4>1. SameRun(mem[p], disk) /\ disk.outbox = NoOutbox
        BY <2>2, <3>2, FreshSame DEF Fresh
      <4> QED
        BY <2>3, <2>6, <3>1, <4>1, SavableSame DEF SameRun
    <3>3. fresh <= fresh'
      BY <1>0, <2>9
    <3> QED
      BY <2>2, <2>6, <2>9, <3>1, <3>2, <3>3, SaveStep
  <2> QED
    BY <2>5, <2>7, <2>8, <2>9
<1>8. CASE Evaluate(p)
  <2>1. PICK q \in Runs : Evaluated(p, q) /\ Recorded(mem[p], q)
    BY <1>0, <1>8, EvaluateIs
  <2> QED
    BY <1>8, <2>1, EvaluatedStep DEF Evaluate
<1>9. CASE BeginCheck(p)
  <2>1. CopyOK(mem[p], "checking")
    BY <1>0, <1>9 DEF BeginCheck, CopyOK, Fresh
  <2>2. mem[p].outbox.event \in Carried
    BY DEF Carried
  <2> QED
    BY <1>0, <1>9, <2>1, <2>2, LocalStep DEF BeginCheck
<1>10. CASE EndCheck(p)
  <2>1. mem[p].step # 0
    BY <1>10 DEF EndCheck, CheckingAtStep
  <2>2. PICK q \in Runs : Evaluated(p, q) /\ Recorded(mem[p], q)
    BY <1>0, <1>10, <2>1, GatePassedIs, GateFailedIs DEF EndCheck
  <2> QED
    BY <1>10, <2>2, EvaluatedStep DEF EndCheck
<1>11. CASE SaveResult(p)
  <2>1. pc[p] = "save" /\ Save(p, mem[p], "append") /\ UNCHANGED <<log, fresh>>
    BY <1>11 DEF SaveResult
  <2> QED
    BY <1>0, <2>1, SavableResult, SaveStep DEF CopyOK
<1>12. CASE LoadToResume(p)
  <2>1. PICK st \in Statuses : Load = [disk EXCEPT !.status = st]
    BY <1>0, MaterializeType DEF Load
  <2>2. SameRun(Load, disk) /\ Load.rev = disk.rev /\ Load.outbox = disk.outbox
    BY <1>0, <2>1 DEF Runs, SameRun
  <2>3. Load.outbox.event \in Carried
    BY <2>2 DEF Carried
  <2>4. /\ Load.status = "failed" /\ disk.rev > 0
        /\ Continue(p, Load, "resume") /\ UNCHANGED <<disk, log, fresh>>
    BY <1>0, <1>12 DEF LoadToResume, CanResume, Runs
  <2>5. CopyOK(Load, "resume")
    BY <1>0, <2>2, <2>4 DEF CopyOK, Fresh, Runs
  <2> QED
    BY <1>0, <2>3, <2>4, <2>5, LocalStep
<1>13. CASE SaveResumed(p)
  <2>1. pc[p] = "resume" /\ Save(p, Resume(mem[p]), "idle") /\ UNCHANGED <<log, fresh>>
    BY <1>13 DEF SaveResumed
  <2>2. mem[p].status = "failed" /\ Resume(mem[p]) \in Runs
    BY <1>0, <2>1, ResumeMoves DEF CopyOK
  <2>3. Resume(mem[p]).outbox = mem[p].outbox /\ SameRun(Resume(mem[p]), mem[p])
    BY <1>0, <2>2, ResumeIs
  <2>4. ASSUME mem[p].rev = disk.rev PROVE Savable(Resume(mem[p]))
    <3>1. SameRun(mem[p], disk) /\ mem[p].outbox = disk.outbox
      BY <2>1, <2>4, FreshSame DEF Fresh
    <3> QED
      BY <2>3, <3>1, SavableSame DEF SameRun
  <2> QED
    BY <1>0, <2>1, <2>2, <2>4, SaveStep
<1> QED
  BY <1>1, <1>2, <1>3, <1>4, <1>5, <1>6, <1>7, <1>8, <1>9, <1>10, <1>11, <1>12, <1>13
     DEF Call

\* No run, no events, no copies.
LEMMA AuditInit == Init => AuditInv
<1> SUFFICES ASSUME Init PROVE AuditInv
  OBVIOUS
<1>1. /\ disk = NoRun /\ log = <<>> /\ fresh = 0
      /\ \A p \in Callers : mem[p] = NoRun /\ pc[p] = "idle"
  BY DEF Init
<1>2. NoRun.rev = 0 /\ NoRun.outbox = NoOutbox /\ NoRun.done = {}
      /\ \A s \in Steps : NoRun.failed[s] = 0
  BY DEF NoRun
<1>3. Carried = {NoEvent}
  BY <1>1, <1>2, NoOutboxIs DEF Carried
<1>4. EventsNamed
  BY <1>1, <1>3, NoOutboxIs DEF EventsNamed
<1>5. CopiesAgree
  BY <1>1, <1>2 DEF CopiesAgree, CopyOK
<1> QED
  BY <1>1, <1>2, <1>4, <1>5 DEF AuditInv, FileOK, EventsWrittenOnce, CompletionsAudited,
                                FailuresAudited

\* Calls, the end of leases and crashes keep the invariant.
LEMMA AuditNext ==
  ASSUME Production, TypeOK, CheckingAtStep, TypeOK', AuditInv, [Next]_vars
  PROVE  AuditInv'
<1>0. fresh \in Nat
  BY DEF TypeOK
<1>1. CASE \E p \in Callers : Call(p)
  BY <1>1, AuditCall
<1>2. ASSUME NEW p \in Callers, Crash(p) PROVE AuditInv'
  BY <1>0, <1>2, ReturnStep DEF Crash
<1>3. CASE LeaseExpires \/ UNCHANGED vars
  <2>1. UNCHANGED <<disk, log, pc, mem, fresh>>
    BY <1>3 DEF LeaseExpires, vars
  <2> QED
    BY <2>1 DEF AuditInv, EventsNamed, Carried, CopiesAgree, CopyOK, Fresh, FileOK,
                EventsWrittenOnce, CompletionsAudited, FailuresAudited, Announced
<1> QED
  BY <1>1, <1>2, <1>3 DEF Next

---------------------------------------------------------------------------
(* Verdicts: what the lines say *)

\* What holds of an event and of a copy goes on holding while ids are drawn.
LEMMA TellsOn ==
  ASSUME TypeOK, TypeOK', fresh <= fresh'
  PROVE  /\ \A e \in Events : Verdict(e) => Verdict(e)'
         /\ \A r \in Runs : RunTells(r) => RunTells(r)'
<1>1. fresh \in Nat /\ fresh' \in Nat
  BY DEF TypeOK
<1>2. \A e \in Events : e.exec \in Nat
  BY DEF Events
<1>3. \A r \in Runs : r.lease.exec \in Nat /\ r.outbox.event \in Events
  BY DEF Runs
<1>4. ASSUME NEW e \in Events, Verdict(e) PROVE Verdict(e)'
  BY <1>1, <1>2, <1>4 DEF Verdict
<1>5. ASSUME NEW r \in Runs, RunTells(r) PROVE RunTells(r)'
  BY <1>1, <1>3, <1>4, <1>5 DEF RunTells
<1> QED
  BY <1>4, <1>5

\* The events the file stands for are events, with ids that were drawn.
LEMMA SavedAre ==
  ASSUME TypeOK, AuditInv, VerdictInv
  PROVE  \A e \in Saved : e \in Events /\ e \in Carried /\ e.id <= fresh /\ Verdict(e)
<1>1. \A i \in DOMAIN log : log[i] \in Events /\ Verdict(log[i])
  BY DEF TypeOK, VerdictInv, LogOpened
<1>2. disk.outbox.event \in Events /\ Verdict(disk.outbox.event)
  BY DEF TypeOK, Runs, VerdictInv, RunTells
<1> QED
  BY <1>1, <1>2 DEF Saved, Carried, AuditInv, EventsNamed

\* The file was not loaded and the missing file has no event.
LEMMA NoRunTells ==
  ASSUME TypeOK
  PROVE  RunTells(NoRun)
<1>1. fresh \in Nat
  BY DEF TypeOK
<1> QED
  BY <1>1, NoOutboxIs DEF RunTells, Verdict, NoRun, NoLease, NoEvent, NoOutbox

\* Loading shows another status for a while, never a failure that is not there.
LEMMA LoadTells ==
  ASSUME TypeOK, RunTells(disk)
  PROVE  /\ Load \in Runs /\ RunTells(Load) /\ Load.outbox = disk.outbox
         /\ Load.rev = disk.rev
<1>1. disk \in Runs
  BY DEF TypeOK
<1>2. PICK st \in Statuses : Load = [disk EXCEPT !.status = st] /\ Load \in Runs
  BY <1>1, MaterializeType DEF Load
<1>3. Load.status \in {disk.status, disk.outbox.candidate, "pending_audit"}
  BY <1>1 DEF Load, Materialize, Runs
<1>4. /\ Load.outbox = disk.outbox /\ Load.lease = disk.lease /\ Load.step = disk.step
      /\ Load.rev = disk.rev
  BY <1>1, <1>2 DEF Runs
<1> QED
  BY <1>2, <1>3, <1>4 DEF RunTells

\* A step of p that leaves the file alone and adds to the log what the file
\* owes, or the line that opens it.
LEMMA FileKept ==
  ASSUME TypeOK, TypeOK', AuditInv, VerdictInv, NEW p \in Callers, NEW r \in Runs, NEW next,
         Continue(p, r, next), UNCHANGED disk, fresh <= fresh', RunTells(r)',
         Saved \subseteq Saved', \A e \in Saved' : e \in Saved \/ e.id = 0,
         ExecutionsSpent', LogOpened', NoBranch => LinesCounted',
         \/ next # "save" /\ r.outbox.event \in Saved
         \/ next \notin {"flush", "append", "save"} /\ r.outbox.event.id = 0
         \/ /\ next = "save" /\ r.lease = NoLease
            /\ r.outbox.event.id = fresh + 1 /\ fresh' = fresh + 1
            /\ r.rev = disk.rev => /\ r.outbox.event.exec \in {0, disk.lease.exec}
                                   /\ Tells(r.outbox.event, disk, r)
  PROVE  VerdictInv'
<1>1. mem'[p] = r /\ pc'[p] = next
      /\ \A q \in Callers \ {p} : mem'[q] = mem[q] /\ pc'[q] = pc[q]
  BY ContinueIs
<1>2. /\ \A q \in Callers : mem[q] \in Runs /\ CopyOK(mem[q], pc[q]) /\ RunTells(mem[q])
      /\ disk \in Runs /\ RunTells(disk) /\ fresh \in Nat
  BY DEF TypeOK, AuditInv, CopiesAgree, VerdictInv
<1>3. RunTells(disk)' /\ \A q \in Callers : RunTells(mem[q])'
  <2>1. RunTells(disk)'
    <3>1. disk' = disk
      OBVIOUS
    <3> QED
      BY <1>2, <3>1, TellsOn DEF RunTells, Verdict
  <2>2. ASSUME NEW q \in Callers \ {p} PROVE RunTells(mem[q])'
    BY <1>1, <1>2, <2>2, TellsOn DEF RunTells, Verdict
  <2>3. RunTells(mem[p])'
    BY <1>1 DEF RunTells, Verdict
  <2> QED
    BY <2>1, <2>2, <2>3
<1>4. \A e \in Carried : e.id \in Nat /\ e.id <= fresh
  <2>1. \A x \in Runs : x.outbox.event.id \in Nat
    BY DEF Runs, Events
  <2>2. \A i \in DOMAIN log : log[i].id \in Nat
    <3>1. \A i \in DOMAIN log : log[i] \in Events
      BY DEF TypeOK
    <3> QED
      BY <3>1 DEF Events
  <2> QED
    BY <1>2, <2>1, <2>2 DEF Carried, AuditInv, EventsNamed
<1>5. ASSUME NEW q \in Callers \ {p} PROVE EventOnItsWay(q)'
  <2>1. EventOnItsWay(q) /\ mem'[q] = mem[q] /\ pc'[q] = pc[q]
    BY <1>1 DEF VerdictInv
  <2>2. pc[q] = "save" => mem[q].outbox.event \in Carried /\ mem[q].outbox.event.id # 0
    BY <1>2 DEF Carried, CopyOK
  <2>3. pc[q] = "save" => r.outbox.event # mem[q].outbox.event
    BY <1>2, <1>4, <2>1, <2>2 DEF EventOnItsWay
  <2>4. pc[q] = "save" => mem[q].outbox.event \notin Saved'
    BY <2>1, <2>2 DEF EventOnItsWay
  <2> QED
    BY <1>1, <2>1, <2>3, <2>4 DEF EventOnItsWay
<1>6. EventOnItsWay(p)'
  <2>1. CASE next # "save"
    BY <1>1, <2>1 DEF EventOnItsWay
  <2>2. CASE next = "save"
    <3>1. r.outbox.event \notin Carried /\ r.outbox.event.id # 0
      BY <1>2, <1>4, <2>2
    <3>2. r.outbox.event \notin Saved'
      BY <3>1 DEF Carried, Saved
    <3>3. \A q \in Callers \ {p} : mem[q].outbox.event # r.outbox.event
      BY <3>1 DEF Carried
    <3> QED
      BY <1>1, <2>2, <3>2, <3>3 DEF EventOnItsWay
  <2> QED
    BY <2>1, <2>2
<1>7. OutboxTells' /\ GatesNotBypassed'
  BY DEF VerdictInv, OutboxTells, GatesNotBypassed, Entered
<1> QED
  BY <1>3, <1>5, <1>6, <1>7 DEF VerdictInv

\* A step of p on its own copy.
LEMMA VerdictLocal ==
  ASSUME TypeOK, TypeOK', AuditInv, VerdictInv, NEW p \in Callers, NEW r \in Runs, NEW next,
         Continue(p, r, next), UNCHANGED <<disk, log>>, fresh <= fresh', RunTells(r)',
         next # "create",
         \/ next # "save" /\ r.outbox.event \in Saved
         \/ next \notin {"flush", "append", "save"} /\ r.outbox.event.id = 0
         \/ /\ next = "save" /\ r.lease = NoLease
            /\ r.outbox.event.id = fresh + 1 /\ fresh' = fresh + 1
            /\ r.rev = disk.rev => /\ r.outbox.event.exec \in {0, disk.lease.exec}
                                   /\ Tells(r.outbox.event, disk, r)
  PROVE  VerdictInv'
<1>1. Saved' = Saved
  BY DEF Saved
<1>2. ExecutionsSpent'
  BY <1>1 DEF VerdictInv, ExecutionsSpent
<1>3. LogOpened'
  <2>1. \A i \in DOMAIN log : log[i] \in Events /\ Verdict(log[i])
    BY DEF TypeOK, VerdictInv, LogOpened
  <2>2. \A i \in DOMAIN log' : Verdict(log[i])'
    BY <2>1, TellsOn DEF Verdict
  <2>3. (\E q \in Callers : pc'[q] = "create") => \E q \in Callers : pc[q] = "create"
    BY ContinueIs
  <2> QED
    BY <2>2, <2>3 DEF VerdictInv, LogOpened
<1>4. NoBranch => LinesCounted'
  BY DEF VerdictInv, LinesCounted, Refusals, Owed, Pending
<1> QED
  BY <1>1, <1>2, <1>3, <1>4, FileKept

\* A call ends.
LEMMA VerdictReturn ==
  ASSUME TypeOK, TypeOK', AuditInv, VerdictInv, NEW p \in Callers,
         Return(p), UNCHANGED <<disk, log>>, fresh <= fresh'
  PROVE  VerdictInv'
<1>1. Continue(p, NoRun, "idle") /\ NoRun \in Runs /\ NoRun.outbox.event.id = 0
  BY NoRunType, NoCopy DEF Return, Continue
<1>2. RunTells(NoRun)'
  BY <1>1, NoRunTells, TellsOn
<1> QED
  BY <1>1, <1>2, VerdictLocal

---------------------------------------------------------------------------
(* Verdicts: saves *)

\* The failing lines of a step can be counted.
LEMMA RefusalsFinite ==
  ASSUME TypeOK, NEW s
  PROVE  IsFiniteSet(Refusals(s)) /\ Cardinality(Refusals(s)) \in Nat
<1>1. Refusals(s) \subseteq 1 .. Len(log) /\ Len(log) \in Nat
  BY DEF Refusals, TypeOK
<1>2. IsFiniteSet(1 .. Len(log))
  BY <1>1, FS_Interval
<1> QED
  BY <1>1, <1>2, FS_Subset, FS_CardinalityType

\* A copy nobody overtook is saved: no event of the file is lost and the
\* others' results are stale from here on.
LEMMA VerdictSaved ==
  ASSUME TypeOK, TypeOK', AuditInv, VerdictInv, NEW p \in Callers, NEW r \in Runs, NEW next,
         Save(p, r, next), mem[p].rev = disk.rev, UNCHANGED log, fresh <= fresh',
         next \in {"idle", "ready", "verify", "append"},
         r.outbox = mem[p].outbox, RunTells(r)',
         disk.rev # 0 \/ pc[p] = "create",
         disk.outbox.event.id # 0 => disk.outbox.event \in Saved',
         ExecutionsSpent', OutboxTells', NoBranch => LinesCounted', GatesNotBypassed'
  PROVE  VerdictInv'
<1> DEFINE saved == [r EXCEPT !.rev = disk.rev + 1]
           kept == IF next = "idle" THEN NoRun ELSE saved
<1>1. disk' = saved /\ Continue(p, kept, next)
  BY DEF Save, Return, Continue
<1>2. /\ saved.rev = disk.rev + 1 /\ saved.outbox = r.outbox /\ saved.lease = r.lease
      /\ saved.step = r.step /\ saved.status = r.status
  BY DEF Runs
<1> HIDE DEF saved
<1>3. /\ mem'[p] = kept /\ pc'[p] = next
      /\ \A q \in Callers \ {p} : mem'[q] = mem[q] /\ pc'[q] = pc[q]
  BY <1>1, ContinueIs
<1>4. /\ \A q \in Callers : mem[q] \in Runs /\ CopyOK(mem[q], pc[q]) /\ RunTells(mem[q])
      /\ disk.rev \in Nat
  BY DEF TypeOK, AuditInv, CopiesAgree, VerdictInv, Runs
<1>5. RunTells(disk)' /\ \A q \in Callers : RunTells(mem[q])'
  <2>1. RunTells(disk)'
    BY <1>1, <1>2 DEF RunTells, Verdict
  <2>2. RunTells(NoRun)'
    BY NoRunType, NoRunTells, TellsOn
  <2>3. RunTells(mem[p])'
    <3>1. mem'[p] \in {NoRun, disk'}
      BY <1>1, <1>3
    <3> QED
      BY <2>1, <2>2, <3>1 DEF RunTells, Verdict
  <2>4. ASSUME NEW q \in Callers \ {p} PROVE RunTells(mem[q])'
    BY <1>3, <1>4, <2>4, TellsOn DEF RunTells, Verdict
  <2> QED
    BY <2>1, <2>3, <2>4
<1>6. ASSUME NEW q \in Callers \ {p} PROVE EventOnItsWay(q)'
  <2>1. EventOnItsWay(q) /\ mem'[q] = mem[q] /\ pc'[q] = pc[q]
    BY <1>3 DEF VerdictInv
  <2>2. pc[q] \in {"flush", "append", "save"} => mem[q].outbox.event.id # 0
    BY <1>4 DEF CopyOK
  <2>3. \A e \in Saved : e.id # 0 => e \in Saved'
    BY DEF Saved
  <2>4. \A e \in Saved' : e \in Saved \/ e = mem[p].outbox.event
    BY <1>1, <1>2 DEF Saved
  <2>5. pc[q] = "save" => mem'[p].outbox.event # mem[q].outbox.event
    BY <1>2, <1>3, <2>1, <2>2, NoCopy DEF EventOnItsWay
  <2>6. mem[q].rev # disk'.rev
    <3>1. mem[q].rev <= disk.rev /\ mem[q].rev \in Nat
      BY <1>4 DEF CopyOK, Runs
    <3> QED
      BY <1>1, <1>2, <1>4, <3>1
  <2> QED
    BY <1>3, <2>1, <2>2, <2>3, <2>4, <2>5, <2>6 DEF EventOnItsWay
<1>7. EventOnItsWay(p)'
  BY <1>1, <1>2, <1>3 DEF EventOnItsWay, Saved
<1>8. LogOpened'
  <2>1. \A i \in DOMAIN log : log[i] \in Events /\ Verdict(log[i])
    BY DEF TypeOK, VerdictInv, LogOpened
  <2>2. \A i \in DOMAIN log' : Verdict(log[i])'
    BY <2>1, TellsOn DEF Verdict
  <2>3. log # <<>>
    BY DEF VerdictInv, LogOpened
  <2>4. disk'.rev # 0
    BY <1>1, <1>2, <1>4
  <2> QED
    BY <2>2, <2>3, <2>4 DEF VerdictInv, LogOpened
<1> QED
  BY <1>5, <1>6, <1>7, <1>8 DEF VerdictInv

\* A save that keeps the history of the file, with its outbox or with an empty
\* one after the event was written.
LEMMA SameSaved ==
  ASSUME TypeOK, TypeOK', AuditInv, VerdictInv, UNCHANGED log,
         NEW r \in Runs, disk' = [r EXCEPT !.rev = disk.rev + 1],
         r.done = disk.done, r.failed = disk.failed,
         r.lease.exec \in {0, disk.lease.exec, fresh + 1},
         \/ r.outbox = disk.outbox
         \/ r.outbox = NoOutbox /\ disk.outbox.event \in {NoEvent} \cup {log[i] : i \in DOMAIN log},
         \/ disk.rev # 0 /\ r.step = disk.step /\ r.skipped = disk.skipped
         \/ r.step = 1 /\ r.outbox = NoOutbox
  PROVE  /\ disk.outbox.event.id # 0 => disk.outbox.event \in Saved'
         /\ ExecutionsSpent' /\ OutboxTells' /\ (NoBranch => LinesCounted') /\ GatesNotBypassed'
<1>1. /\ disk'.outbox = r.outbox /\ disk'.lease = r.lease /\ disk'.step = r.step
      /\ disk'.skipped = r.skipped /\ disk'.done = r.done /\ disk'.failed = r.failed
  BY DEF Runs
<1>2. disk.outbox.event.id # 0 => disk.outbox.event \in Saved'
  BY <1>1, NoOutboxIs DEF Saved
<1>3. ExecutionsSpent'
  <2>1. \A e \in Saved : e.exec \in Nat /\ e.exec <= fresh
    BY SavedAre DEF Events, Verdict
  <2>2. \A e \in Saved' : e.exec # 0 => e \in Saved
    <3>1. \A e \in Saved' : e \in Saved \/ e = NoEvent
      BY <1>1, NoOutboxIs DEF Saved
    <3> QED
      BY <3>1 DEF NoEvent
  <2>3. fresh \in Nat
    BY DEF TypeOK
  <2> QED
    BY <1>1, <2>1, <2>2, <2>3 DEF VerdictInv, ExecutionsSpent
<1>4. OutboxTells'
  <2>1. CASE r.outbox = NoOutbox
    BY <1>1, <2>1, NoOutboxIs DEF OutboxTells
  <2>2. CASE r.outbox # NoOutbox
    BY <1>1, <2>2 DEF VerdictInv, OutboxTells, NoBranch
  <2> QED
    BY <2>1, <2>2
<1>5. NoBranch => LinesCounted'
  <2> SUFFICES ASSUME NoBranch PROVE LinesCounted'
    OBVIOUS
  <2>1. ASSUME NEW s \in Steps
        PROVE  Cardinality(Refusals(s)') + Owed(s)' <= disk'.failed[s]
    <3>1. Refusals(s)' = Refusals(s)
      BY DEF Refusals
    <3>2. Owed(s)' \in {0, Owed(s)} /\ Owed(s) \in {0, 1}
      <4>1. CASE r.outbox = NoOutbox
        BY <1>1, <4>1, NoOutboxIs DEF Owed, Pending
      <4>2. CASE r.outbox = disk.outbox
        BY <1>1, <4>2 DEF Owed, Pending
      <4> QED
        BY <4>1, <4>2
    <3>3. Cardinality(Refusals(s)) + Owed(s) <= disk.failed[s]
      BY DEF VerdictInv, LinesCounted
    <3>4. Cardinality(Refusals(s)) \in Nat /\ disk.failed[s] \in Nat
      BY RefusalsFinite DEF TypeOK, Runs
    <3>5. disk'.failed[s] = disk.failed[s]
      BY <1>1
    <3> QED
      BY <3>1, <3>2, <3>3, <3>4, <3>5
  <2> QED
    BY <1>1, <2>1 DEF VerdictInv, LinesCounted
<1>6. GatesNotBypassed'
  <2>1. CASE r.step = 1
    BY <1>1, <2>1 DEF GatesNotBypassed, Entered
  <2>2. CASE disk.rev # 0 /\ r.step = disk.step /\ r.skipped = disk.skipped
    <3>0. disk.rev \in Nat
      BY DEF TypeOK, Runs
    <3>1. disk.rev > 0
      BY <2>2, <3>0
    <3> QED
      BY <1>1, <2>2, <3>1 DEF VerdictInv, GatesNotBypassed, Entered
  <2> QED
    BY <2>1, <2>2
<1> QED
  BY <1>2, <1>3, <1>4, <1>5, <1>6

\* A result is saved: its event is the one verdict of its execution, and the
\* run goes where the event says.
LEMMA ResultSaved ==
  ASSUME TypeOK, TypeOK', AuditInv, VerdictInv, UNCHANGED log, NEW p \in Callers,
         pc[p] = "save", mem[p].rev = disk.rev,
         disk' = [mem[p] EXCEPT !.rev = disk.rev + 1]
  PROVE  /\ disk.outbox.event.id = 0
         /\ ExecutionsSpent' /\ OutboxTells' /\ (NoBranch => LinesCounted') /\ GatesNotBypassed'
<1> DEFINE r == mem[p]
           e == mem[p].outbox.event
<1>1. /\ disk'.outbox = r.outbox /\ disk'.lease = r.lease /\ disk'.step = r.step
      /\ disk'.skipped = r.skipped /\ disk'.done = r.done /\ disk'.failed = r.failed
  BY DEF TypeOK, Runs
<1>2. CopyOK(mem[p], pc[p])
  BY DEF AuditInv, CopiesAgree
<1>3. disk.outbox = NoOutbox /\ e.id # 0 /\ mem[p].rev > 0
  BY <1>2 DEF CopyOK, Fresh
<1>4. r.lease = NoLease /\ e \notin Saved /\ e.exec \in {0, disk.lease.exec} /\ Tells(e, disk, r)
  BY DEF VerdictInv, EventOnItsWay
<1>5. disk \in Runs /\ r \in Runs
  BY DEF TypeOK
<1> HIDE DEF r, e
<1>6. ExecutionsSpent'
  <2>1. \A f \in Saved' : f \in Saved \/ f = e
    BY <1>1 DEF Saved, r, e
  <2>2. disk'.lease.exec = 0
    BY <1>1, <1>4 DEF NoLease
  <2> QED
    BY <1>4, <2>1, <2>2 DEF VerdictInv, ExecutionsSpent
<1>8. \A s \in Steps : disk.failed[s] \in Nat
  BY <1>5 DEF Runs
<1>9. disk.step \in 0 .. N /\ (disk.step # 0 => disk.step \in Steps)
  BY <1>5, StepIn DEF Runs
<1>7. OutboxTells'
  <2>1. disk'.outbox.event = e
    BY <1>1 DEF r, e
  <2> QED
    BY <1>1, <1>4, <1>9, <2>1 DEF OutboxTells, Tells, NoBranch
<1>10. /\ disk.done \subseteq r.done
       /\ \A s \in Steps : disk.failed[s] <= r.failed[s]
       /\ disk.step # 0 /\ e.outcome = "gate_failed" => r.failed[disk.step] = disk.failed[disk.step] + 1
  BY <1>4, <1>5, <1>8, <1>9 DEF Tells, Runs
<1>11. NoBranch => LinesCounted'
  <2> SUFFICES ASSUME NoBranch PROVE LinesCounted'
    OBVIOUS
  <2>1. ASSUME NEW s \in Steps
        PROVE  Cardinality(Refusals(s)') + Owed(s)' <= disk'.failed[s]
    <3>1. Refusals(s)' = Refusals(s)
      BY DEF Refusals
    <3>2. Owed(s) = 0
      BY <1>3, NoOutboxIs DEF Owed, Pending
    <3>3. Cardinality(Refusals(s)) + Owed(s) <= disk.failed[s]
      BY DEF VerdictInv, LinesCounted
    <3>4. Cardinality(Refusals(s)) \in Nat /\ r.failed[s] \in Nat /\ disk.failed[s] <= r.failed[s]
      BY <1>5, <1>10, RefusalsFinite DEF Runs
    <3>5. CASE s = disk.step /\ e.outcome = "gate_failed"
      <4>1. Owed(s)' \in {0, 1}
        BY DEF Owed
      <4>2. r.failed[s] = disk.failed[s] + 1
        BY <1>9, <1>10, <3>5, PipelineAssumption DEF Steps, ValidPipeline
      <4> QED
        BY <1>1, <1>8, <3>1, <3>2, <3>3, <3>4, <4>1, <4>2
    <3>6. CASE ~(s = disk.step /\ e.outcome = "gate_failed")
      <4>1. disk'.outbox.event = e /\ e.step = disk.step
        BY <1>1, <1>4 DEF r, e, Tells
      <4>2. Owed(s)' = 0
        BY <3>6, <4>1 DEF Owed
      <4> QED
        BY <1>1, <1>8, <3>1, <3>2, <3>3, <3>4, <4>2
    <3> QED
      BY <3>5, <3>6
  <2>2. \A i \in DOMAIN log' :
          log'[i].outcome = "gate_passed" /\ log'[i].step # 0 => log'[i].step \in disk'.done
    BY <1>1, <1>10 DEF VerdictInv, LinesCounted
  <2> QED
    BY <2>1, <2>2 DEF LinesCounted
<1>12. GatesNotBypassed'
  <2>1. disk.rev > 0
    BY <1>3
  <2>2. \A t \in Steps : Entered(t) => Entered(t)'
    <3>1. /\ disk.done \cup disk.skipped \subseteq disk'.done \cup disk'.skipped
          /\ \A t \in Steps : disk.failed[t] > 0 => disk'.failed[t] > 0
      <4>1. \A t \in Steps : r.failed[t] \in Nat
        BY <1>5 DEF Runs
      <4> QED
        BY <1>1, <1>4, <1>8, <1>10, <4>1 DEF Tells
    <3> QED
      BY <3>1 DEF Entered
  <2>3. CASE disk.step = 0
    <3>1. PICK t \in disk.done \cup disk.skipped : NextOf[t] = 0 /\ Entered(t)
      BY <2>1, <2>3 DEF VerdictInv, GatesNotBypassed
    <3>2. t \in Steps /\ t \in disk'.done \cup disk'.skipped
      BY <1>1, <1>4, <1>5, <1>10 DEF Tells, Runs
    <3>3. disk'.step = 0
      BY <1>1, <1>4, <2>3 DEF Tells
    <3> QED
      BY <2>2, <3>1, <3>2, <3>3 DEF GatesNotBypassed
  <2>4. CASE disk.step # 0
    <3>1. PICK d \in Steps : d = disk.step /\ Entered(d)
      BY <1>9, <2>1, <2>4 DEF VerdictInv, GatesNotBypassed
    <3>2. Entered(d)'
      BY <2>2, <3>1
    <3>3. CASE r.step = NextOf[disk.step] /\ r.done = disk.done \cup {disk.step}
      <4>1. disk'.step = NextOf[d] /\ d \in disk'.done
        BY <1>1, <3>1, <3>3
      <4> QED
        BY <3>1, <3>2, <4>1 DEF GatesNotBypassed, Entered
    <3>4. CASE r.step = disk.step
      BY <1>1, <2>4, <3>1, <3>2, <3>4 DEF GatesNotBypassed
    <3>5. CASE /\ FailTo[disk.step] # 0 /\ r.step = FailTo[disk.step]
               /\ r.failed = [disk.failed EXCEPT ![disk.step] = @ + 1]
      <4>1. disk'.failed[d] > 0
        BY <1>1, <1>5, <1>8, <3>1, <3>5 DEF Runs
      <4>2. disk'.step = FailTo[d] /\ FailTo[d] # 0
        BY <1>1, <3>1, <3>5
      <4> QED
        BY <3>1, <4>1, <4>2 DEF GatesNotBypassed, Entered
    <3> QED
      BY <1>4, <2>4, <3>3, <3>4, <3>5 DEF Tells
  <2> QED
    BY <2>3, <2>4
<1> QED
  BY <1>3, <1>6, <1>7, <1>11, <1>12, NoOutboxIs

---------------------------------------------------------------------------
(* Verdicts: appends and evaluations *)

\* When an append adds a line, it is the event the file owes.
LEMMA AppendIsOwed ==
  ASSUME TypeOK, AuditInv, VerdictInv, NEW p \in Callers, AppendOutbox(p), log' # log
  PROVE  \E e \in Events :
           /\ e = disk.outbox.event /\ e.id # 0 /\ Verdict(e) /\ log' = Append(log, e)
           /\ \A i \in DOMAIN log : log[i].id # e.id
           /\ disk.rev # 0 /\ UNCHANGED disk
<1>1. PICK e \in Events :
        /\ e = mem[p].outbox.event /\ e.sink = sink[p] /\ AppendStrict(sink[p], e)
        /\ pc[p] \in {"flush", "append"} /\ UNCHANGED disk
  BY DEF AppendOutbox, TypeOK, Runs
<1>2. mem[p] \in Runs /\ disk \in Runs /\ CopyOK(mem[p], pc[p])
  BY DEF TypeOK, AuditInv, CopiesAgree
<1>3. e \in Saved /\ e \in Carried /\ e.id # 0 /\ Verdict(e)
  BY <1>1, <1>2, SavedAre DEF CopyOK, VerdictInv, EventOnItsWay
<1>4. /\ log' = Append(log, [e EXCEPT !.sink = sink[p]]) /\ sink[p] \notin torn
      /\ ~ContainsEvent(sink[p], e.id)
  BY <1>1, <1>3 DEF AppendStrict
<1>5. [e EXCEPT !.sink = sink[p]] = e
  BY <1>1 DEF Events
<1>6. \A i \in DOMAIN log : log[i].id # e.id
  <2>1. \A i \in DOMAIN log : log[i] # e
    BY <1>1, <1>4 DEF ContainsEvent
  <2>2. \A i \in DOMAIN log : log[i] \in Carried
    BY DEF Carried
  <2> QED
    BY <1>3, <2>1, <2>2 DEF AuditInv, EventsNamed
<1>7. e = disk.outbox.event
  BY <1>3, <1>6 DEF Saved
<1>8. disk.rev # 0
  <2>1. mem[p].rev > 0 /\ mem[p].rev <= disk.rev /\ mem[p].rev \in Nat /\ disk.rev \in Nat
    BY <1>1, <1>2 DEF CopyOK, Runs
  <2> QED
    BY <2>1
<1> QED
  BY <1>1, <1>3, <1>4, <1>5, <1>6, <1>7, <1>8

\* A strict append to the recorded sink adds nothing but what the file owes,
\* and the flushed copy owes nothing.
LEMMA VerdictAppend ==
  ASSUME TypeOK, TypeOK', AuditInv, VerdictInv, NEW p \in Callers, AppendOutbox(p)
  PROVE  VerdictInv'
<1> DEFINE e == mem[p].outbox.event
           next == IF pc[p] = "flush" THEN "reflush" ELSE "clear"
<1>1. /\ pc[p] \in {"flush", "append"} /\ e.sink = sink[p] /\ AppendStrict(sink[p], e)
      /\ Continue(p, Flushed(mem[p]), next) /\ UNCHANGED <<disk, torn, fresh>>
  BY DEF AppendOutbox, Flushed
<1>2. mem[p] \in Runs /\ disk \in Runs /\ CopyOK(mem[p], pc[p]) /\ fresh \in Nat /\ RunTells(mem[p])
  BY DEF TypeOK, AuditInv, CopiesAgree, VerdictInv
<1>3. e \in Saved /\ e.id # 0 /\ e \in Events /\ Verdict(e) /\ disk.rev # 0
  <2>1. e \in Saved
    BY <1>1 DEF VerdictInv, EventOnItsWay
  <2>2. mem[p].rev > 0 /\ mem[p].rev <= disk.rev /\ mem[p].rev \in Nat /\ disk.rev \in Nat
    BY <1>1, <1>2 DEF CopyOK, Runs
  <2> QED
    BY <1>1, <1>2, <2>1, <2>2, SavedAre DEF CopyOK
<1>4. PICK r \in Runs :
        /\ r = Flushed(mem[p])
        /\ r.outbox = NoOutbox /\ r.lease = mem[p].lease /\ r.step = mem[p].step
        /\ r.status = mem[p].outbox.candidate
  BY <1>2, FlushedType DEF Flushed, Runs
<1>5. r.outbox.event.id = 0 /\ next \notin {"flush", "append", "save", "create"} /\ fresh <= fresh'
  BY <1>1, <1>2, <1>4, NoOutboxIs
<1>6. RunTells(r)'
  <2>1. RunTells(r)
    BY <1>2, <1>4, NoRunTells DEF RunTells, Verdict, NoRun, NoOutbox
  <2> QED
    BY <1>4, <1>5, <2>1, TellsOn
<1>7. CASE log' = log
  BY <1>1, <1>4, <1>5, <1>6, <1>7, VerdictLocal
<1>8. CASE log' # log
  <2>1. /\ log' = Append(log, [e EXCEPT !.sink = sink[p]]) /\ sink[p] \notin torn
        /\ ~ContainsEvent(sink[p], e.id)
    BY <1>1, <1>3, <1>8 DEF AppendStrict
  <2>2. [e EXCEPT !.sink = sink[p]] = e
    <3>1. e \in Events /\ e.sink = sink[p]
      BY <1>1, <1>3
    <3> HIDE DEF e
    <3> QED
      BY <3>1 DEF Events
  <2>3. log' = Append(log, e)
    BY <2>1, <2>2
  <2>4. /\ DOMAIN log' = DOMAIN log \cup {Len(log) + 1}
        /\ \A i \in DOMAIN log : log'[i] = log[i]
        /\ log'[Len(log) + 1] = e
        /\ Len(log) + 1 \notin DOMAIN log
    <3>1. log \in Seq(Events) /\ e \in Events
      BY <1>3 DEF TypeOK
    <3> HIDE DEF e
    <3> QED
      BY <2>3, <3>1, AppendIs
  <2>5. \A i \in DOMAIN log : log[i] # e
    BY <1>1, <2>1 DEF ContainsEvent
  <2>6. e = disk.outbox.event
    BY <1>3, <2>5 DEF Saved
  <2>7. Saved' = Saved
    BY <1>1, <2>4, <2>6 DEF Saved
  <2>8. ExecutionsSpent'
    BY <1>1, <2>7 DEF VerdictInv, ExecutionsSpent
  <2>9. LogOpened'
    <3>1. \A i \in DOMAIN log' : Verdict(log'[i])
      BY <1>3, <2>4 DEF VerdictInv, LogOpened
    <3>2. \A i \in DOMAIN log' : Verdict(log[i])'
      BY <1>1, <3>1 DEF Verdict
    <3>3. log' # <<>>
      <4>1. DOMAIN log' # {}
        BY <2>4
      <4> QED
        BY <4>1
    <3> QED
      BY <1>1, <1>3, <2>4, <3>2, <3>3 DEF VerdictInv, LogOpened
  <2>10. NoBranch => LinesCounted'
    <3> SUFFICES ASSUME NoBranch PROVE LinesCounted'
      OBVIOUS
    <3>1. ASSUME NEW s \in Steps
          PROVE  Cardinality(Refusals(s)') + Owed(s)' <= disk'.failed[s]
      <4>1. Owed(s)' = 0
        BY <1>1, <2>4, <2>6 DEF Owed, Pending
      <4>2. Cardinality(Refusals(s)) + Owed(s) <= disk.failed[s]
        BY DEF VerdictInv, LinesCounted
      <4>3. IsFiniteSet(Refusals(s)) /\ Cardinality(Refusals(s)) \in Nat
        BY RefusalsFinite
      <4>4. disk.failed[s] \in Nat /\ disk'.failed[s] = disk.failed[s]
        BY <1>1, <1>2 DEF Runs
      <4>5. CASE e.step = s /\ e.outcome = "gate_failed"
        <5>1. Refusals(s)' = Refusals(s) \cup {Len(log) + 1} /\ Len(log) + 1 \notin Refusals(s)
          BY <2>4, <4>5 DEF Refusals
        <5>2. Cardinality(Refusals(s)') = Cardinality(Refusals(s)) + 1
          BY <4>3, <5>1, FS_AddElement
        <5>3. Owed(s) = 1
          <6>1. \A i \in DOMAIN log : log[i] \in Carried /\ e \in Carried
            BY <2>6 DEF Carried
          <6>2. \A i \in DOMAIN log : log[i].id # e.id
            BY <1>3, <2>5, <6>1 DEF AuditInv, EventsNamed
          <6> QED
            BY <1>3, <2>6, <4>5, <6>2 DEF Owed, Pending
        <5> QED
          BY <4>1, <4>2, <4>3, <4>4, <5>2, <5>3
      <4>6. CASE ~(e.step = s /\ e.outcome = "gate_failed")
        <5>1. Refusals(s)' = Refusals(s)
          BY <2>4, <4>6 DEF Refusals
        <5>2. Owed(s) \in {0, 1}
          BY DEF Owed
        <5> QED
          BY <4>1, <4>2, <4>3, <4>4, <5>1, <5>2
      <4> QED
        BY <4>5, <4>6
    <3>2. e.outcome = "gate_passed" /\ e.step # 0 => e.step \in disk.done
      BY <1>3, <2>6 DEF VerdictInv, OutboxTells
    <3>3. \A i \in DOMAIN log' :
            log'[i].outcome = "gate_passed" /\ log'[i].step # 0 => log'[i].step \in disk'.done
      BY <1>1, <2>4, <3>2 DEF VerdictInv, LinesCounted
    <3> QED
      BY <3>1, <3>3 DEF LinesCounted
  <2> HIDE DEF e, next
  <2> QED
    BY <1>1, <1>4, <1>5, <1>6, <2>7, <2>8, <2>9, <2>10, FileKept
<1> QED
  BY <1>7, <1>8

\* The tail of advance: a new event that tells what the copy did.
LEMMA VerdictEvaluated ==
  ASSUME Production, TypeOK, TypeOK', CopiesInv, AuditInv, VerdictInv,
         NEW p \in Callers, NEW q \in Runs,
         pc[p] \in {"verify", "checking"}, Evaluated(p, q), Recorded(mem[p], q),
         UNCHANGED <<disk, log>>
  PROVE  VerdictInv'
<1> DEFINE event == [ kind    |-> "evaluated",
                      id      |-> fresh + 1,
                      step    |-> mem[p].step,
                      outcome |-> IF q.status = "failed" THEN "gate_failed" ELSE "gate_passed",
                      exec    |-> IF mem[p].step \in Checked THEN mem[p].lease.exec ELSE 0,
                      sink    |-> sink[p] ]
<1>1. /\ fresh' = fresh + 1
      /\ Continue(p, [q EXCEPT !.lease = NoLease,
                               !.outbox = [event |-> event, candidate |-> q.status]], "save")
  BY DEF Evaluated
<1>2. /\ event.id = fresh + 1 /\ event.step = mem[p].step /\ event.kind = "evaluated"
      /\ event.outcome = IF q.status = "failed" THEN "gate_failed" ELSE "gate_passed"
      /\ event.exec \in {0, mem[p].lease.exec}
  OBVIOUS
<1> HIDE DEF event
<1>3. PICK x :
        /\ Continue(p, x, "save")
        /\ x.outbox.event = event /\ SameRun(x, q) /\ x.rev = mem[p].rev /\ x.lease = NoLease
        /\ x.outbox.candidate = q.status /\ x.status = q.status
  <2> DEFINE result == [q EXCEPT !.lease = NoLease,
                                 !.outbox = [event |-> event, candidate |-> q.status]]
  <2>1. /\ result.outbox.event = event /\ SameRun(result, q) /\ result.rev = mem[p].rev
        /\ result.lease = NoLease
        /\ result.outbox.candidate = q.status /\ result.status = q.status
    BY DEF Runs, SameRun, Recorded
  <2> QED
    BY <1>1, <2>1
<1>4. x \in Runs
  BY <1>3 DEF Continue, TypeOK
<1>5. fresh \in Nat /\ mem[p] \in Runs /\ RunTells(mem[p]) /\ disk \in Runs
  BY DEF TypeOK, VerdictInv
<1>6. mem[p].lease.exec \in Nat /\ mem[p].lease.exec <= fresh
  BY <1>5 DEF RunTells, Runs
<1>7. x.step = 0 => x.status # "failed"
  <2>1. mem[p].step = 0 => mem[p].status # "failed"
    BY <1>5 DEF RunTells
  <2> QED
    BY <1>3, <2>1 DEF Recorded, SameRun
<1>8. RunTells(x)'
  <2>1. x.lease.exec <= fresh'
    BY <1>1, <1>3, <1>5 DEF NoLease
  <2>2. x.outbox.event.exec <= fresh' /\ x.outbox.event.id # 0
    BY <1>1, <1>2, <1>3, <1>5, <1>6
  <2>3. x.outbox.event.kind = "evaluated"
        /\ x.outbox.event.outcome \in {"gate_passed", "gate_failed"}
    BY <1>2, <1>3
  <2> QED
    BY <1>3, <1>7, <2>1, <2>2, <2>3 DEF RunTells, Verdict
<1>9. ASSUME x.rev = disk.rev
      PROVE  /\ x.outbox.event.exec \in {0, disk.lease.exec}
             /\ Tells(x.outbox.event, disk, x)
  <2>1. SameRun(mem[p], disk) /\ mem[p].lease = disk.lease
    BY <1>3, <1>9 DEF CopiesInv, CopyCurrent
  <2> DEFINE e == x.outbox.event
  <2>2. e.step = disk.step /\ e.outcome = IF q.status = "failed" THEN "gate_failed" ELSE "gate_passed"
    BY <1>2, <1>3, <2>1 DEF SameRun
  <2>3. x.skipped = disk.skipped
    BY <1>3, <2>1 DEF SameRun, Recorded
  <2>4. mem[p].step = 0 => q.status # "failed"
    BY <1>5 DEF RunTells, Recorded
  <2> HIDE DEF e
  <2>5. Tells(e, disk, x)
    BY <1>3, <2>1, <2>2, <2>3, <2>4 DEF Tells, SameRun, Recorded
  <2> QED
    BY <1>2, <1>3, <2>1, <2>5 DEF e
<1> QED
  BY <1>1, <1>2, <1>3, <1>4, <1>5, <1>8, <1>9, VerdictLocal

\* A start that finds neither a state file nor an announcement finds no line.
LEMMA StartsEmpty ==
  ASSUME TypeOK, VerdictInv, NEW p \in Callers, Start(p)
  PROVE  log = <<>>
<1>1. disk.rev = 0 /\ \A i \in DOMAIN log : log[i].kind # "started"
  BY DEF Start
<1>2. DOMAIN log = {}
  BY <1>1 DEF VerdictInv, LogOpened
<1> QED
  BY <1>2 DEF TypeOK

\* The start of a run opens the log.
LEMMA StartIs ==
  ASSUME Production, TypeOK, VerdictInv, NEW p \in Callers, Start(p)
  PROVE  \E r \in Runs, e \in Events :
           /\ Continue(p, r, "create") /\ UNCHANGED <<disk, fresh>>
           /\ r.step = 1 /\ r.status = "running" /\ r.lease = NoLease /\ r.outbox = NoOutbox
           /\ log' = Append(<<>>, e)
           /\ e.id = 0 /\ e.exec = 0 /\ e.kind = "started" /\ e.step = 1
           /\ e.outcome = "pending_commit"
<1>1. PICK input \in Inputs :
        LET r == Started(Update(NoRun.ctx, input))
        IN  /\ Continue(p, r, "create")
            /\ AppendStrict(sink[p], [NoEvent EXCEPT !.kind = "started", !.step = r.step,
                                                     !.outcome = "pending_commit"])
  BY DEF Start
<1>2. PICK ctx \in Contexts : ctx = Update(NoRun.ctx, input)
  <2>1. NoRun.ctx \in Contexts
    BY NoRunType DEF Runs
  <2> QED
    BY <2>1, UpdateType
<1>3. /\ Started(ctx) \in Runs /\ Started(ctx).lease = NoLease /\ Started(ctx).outbox = NoOutbox
      /\ Started(ctx) = MoveTo([NoRun EXCEPT !.ctx = ctx], 1)
  BY StartedType
<1>4. Started(ctx).step = 1 /\ Started(ctx).status = "running"
  BY <1>3 DEF MoveTo, NoRun
<1>5. sink[p] \in Sinks /\ UNCHANGED <<disk, fresh>>
  BY DEF TypeOK, Start
<1> DEFINE e == [NoEvent EXCEPT !.kind = "started", !.step = 1, !.outcome = "pending_commit"]
           line == [e EXCEPT !.sink = sink[p]]
<1>6. e.id = 0 /\ AppendStrict(sink[p], e)
  BY <1>1, <1>2, <1>4 DEF NoEvent
<1>7. log' = Append(<<>>, line)
  BY <1>6, StartsEmpty DEF AppendStrict
<1>8. /\ line \in Events
      /\ line.id = 0 /\ line.exec = 0 /\ line.kind = "started" /\ line.step = 1
      /\ line.outcome = "pending_commit"
  <2>1. 1 \in 0 .. N
    BY PipelineAssumption DEF ValidPipeline
  <2> QED
    BY <1>5, <2>1 DEF NoEvent, Events
<1> HIDE DEF line
<1> QED
  BY <1>1, <1>2, <1>3, <1>4, <1>5, <1>7, <1>8

\* Opening the log owes nothing and decides nothing.
LEMMA VerdictStart ==
  ASSUME Production, TypeOK, TypeOK', AuditInv, VerdictInv, NEW p \in Callers, Start(p)
  PROVE  VerdictInv'
<1>1. PICK r \in Runs, e \in Events :
        /\ Continue(p, r, "create") /\ UNCHANGED <<disk, fresh>>
        /\ r.step = 1 /\ r.status = "running" /\ r.lease = NoLease /\ r.outbox = NoOutbox
        /\ log' = Append(<<>>, e)
        /\ e.id = 0 /\ e.exec = 0 /\ e.kind = "started" /\ e.step = 1
        /\ e.outcome = "pending_commit"
  BY StartIs
<1>2. log = <<>> /\ fresh \in Nat /\ disk \in Runs
  BY StartsEmpty DEF TypeOK
<1>3. log' = <<e>> /\ DOMAIN log' = {1} /\ log'[1] = e
  BY <1>1
<1>4. Saved = {disk.outbox.event} /\ Saved' = {disk.outbox.event, e}
  BY <1>1, <1>2, <1>3 DEF Saved
<1>5. RunTells(r)'
  BY <1>1, <1>2, NoOutboxIs DEF RunTells, Verdict, NoLease, NoEvent
<1>6. ExecutionsSpent'
  BY <1>1, <1>4 DEF VerdictInv, ExecutionsSpent
<1>7. LogOpened'
  <2>1. Verdict(e)'
    BY <1>1, <1>2 DEF Verdict
  <2>2. \A i \in DOMAIN log' : Verdict(log[i])'
    BY <1>3, <2>1 DEF Verdict
  <2> QED
    BY <1>1, <1>3, <2>2 DEF LogOpened
<1>8. NoBranch => LinesCounted'
  <2> SUFFICES ASSUME NoBranch PROVE LinesCounted'
    OBVIOUS
  <2>1. ASSUME NEW s \in Steps
        PROVE  Cardinality(Refusals(s)') + Owed(s)' <= disk'.failed[s]
    <3>1. Refusals(s)' = Refusals(s)
      BY <1>1, <1>2, <1>3 DEF Refusals
    <3>2. Owed(s)' = Owed(s)
      BY <1>1, <1>2, <1>3 DEF Owed, Pending
    <3> QED
      BY <1>1, <3>1, <3>2 DEF VerdictInv, LinesCounted
  <2> QED
    BY <1>1, <1>3, <2>1 DEF LinesCounted
<1>9. r.outbox.event.id = 0 /\ fresh <= fresh'
  BY <1>1, <1>2, NoOutboxIs
<1> QED
  BY <1>1, <1>4, <1>5, <1>6, <1>7, <1>8, <1>9, FileKept

\* A save of a copy whose history is the file's: a claim, an emptied outbox or
\* a resume.
LEMMA VerdictSameSave ==
  ASSUME TypeOK, TypeOK', CopiesInv, AuditInv, VerdictInv, NEW p \in Callers,
         pc[p] \in {"ready", "reflush", "clear", "resume"},
         NEW r \in Runs, NEW next \in {"idle", "ready", "verify"}, Save(p, r, next),
         UNCHANGED log, fresh <= fresh',
         SameRun(r, mem[p]), r.outbox = mem[p].outbox,
         \/ r.lease.exec = mem[p].lease.exec
         \/ r.lease.exec = fresh + 1 /\ fresh' = fresh + 1,
         r.step = 0 => r.status # "failed"
  PROVE  VerdictInv'
<1>0. /\ mem[p] \in Runs /\ disk \in Runs /\ fresh \in Nat /\ fresh' \in Nat
      /\ CopyOK(mem[p], pc[p]) /\ RunTells(mem[p]) /\ disk.rev \in Nat /\ mem[p].rev \in Nat
  BY DEF TypeOK, AuditInv, CopiesAgree, VerdictInv, Runs
<1>1. CASE mem[p].rev # disk.rev
  BY <1>1, VerdictReturn DEF Save
<1>2. CASE mem[p].rev = disk.rev
  <2>1. /\ disk' = [r EXCEPT !.rev = disk.rev + 1] /\ disk.rev # 0
        /\ Fresh(mem[p], pc[p]) /\ SameRun(mem[p], disk) /\ mem[p].lease = disk.lease
    BY <1>0, <1>2, FreshSame DEF Save, CopyOK, CopiesInv, CopyCurrent
  <2>2. /\ r.done = disk.done /\ r.failed = disk.failed /\ r.step = disk.step
        /\ r.skipped = disk.skipped /\ r.lease.exec \in {0, disk.lease.exec, fresh + 1}
    BY <2>1 DEF SameRun
  <2>3. \/ r.outbox = disk.outbox
        \/ r.outbox = NoOutbox /\ disk.outbox.event \in {NoEvent} \cup {log[i] : i \in DOMAIN log}
    BY <1>0, <2>1, NoOutboxIs DEF CopyOK, Fresh
  <2>4. RunTells(r)'
    <3>1. mem[p].lease.exec \in Nat /\ mem[p].outbox.event \in Events
      BY <1>0 DEF Runs
    <3>2. r.lease.exec <= fresh'
      BY <1>0, <3>1 DEF RunTells
    <3>3. \A e \in Events : Verdict(e) => Verdict(e)'
      BY TellsOn
    <3>4. PICK e \in Events : e = mem[p].outbox.event /\ Verdict(e) /\ Verdict(e)'
      BY <1>0, <3>1, <3>3 DEF RunTells
    <3>5. r.outbox.event = e /\ (r.step = 0 => r.outbox.candidate # "failed")
      BY <1>0, <3>4 DEF RunTells, SameRun
    <3> QED
      BY <3>2, <3>4, <3>5 DEF RunTells, Verdict
  <2>5. /\ disk.outbox.event.id # 0 => disk.outbox.event \in Saved'
        /\ ExecutionsSpent' /\ OutboxTells' /\ (NoBranch => LinesCounted') /\ GatesNotBypassed'
    BY <2>1, <2>2, <2>3, SameSaved
  <2> QED
    BY <1>2, <2>1, <2>4, <2>5, VerdictSaved
<1> QED
  BY <1>1, <1>2

\* Each step of a call keeps the verdicts in order; one case per action.
LEMMA VerdictCall ==
  ASSUME Production, TypeOK, CheckingAtStep, CopiesInv, AuditInv, VerdictInv, TypeOK',
         NEW p \in Callers, Call(p)
  PROVE  VerdictInv'
<1>0. /\ mem[p] \in Runs /\ disk \in Runs /\ fresh \in Nat /\ CopyOK(mem[p], pc[p])
      /\ RunTells(mem[p]) /\ RunTells(disk) /\ disk.rev \in Nat /\ mem[p].rev \in Nat
  BY DEF TypeOK, AuditInv, CopiesAgree, VerdictInv, Runs
<1>00. UNCHANGED fresh => \A r \in Runs : RunTells(r) => RunTells(r)'
  BY <1>0, TellsOn
<1>1. CASE Start(p)
  BY <1>1, VerdictStart
<1>2. CASE Create(p)
  <2>1. pc[p] = "create" /\ Save(p, mem[p], "idle") /\ UNCHANGED <<log, fresh>>
    BY <1>2 DEF Create
  <2>2. CASE mem[p].rev # disk.rev
    BY <1>0, <2>1, <2>2, VerdictReturn DEF Save
  <2>3. CASE mem[p].rev = disk.rev
    <3>1. PICK r \in Runs : r = mem[p] /\ RunTells(r)'
      BY <1>0, <1>00, <2>1
    <3>2. disk = NoRun /\ disk' = [r EXCEPT !.rev = disk.rev + 1]
      BY <1>0, <2>1, <2>3, <3>1 DEF CopyOK, AuditInv, FileOK, Save
    <3>3. /\ r.done = disk.done /\ r.failed = disk.failed
          /\ r.outbox = NoOutbox /\ disk.outbox = NoOutbox /\ r.step = 1
      BY <1>0, <2>1, <3>1, <3>2 DEF CopyOK, SameRun, NoRun
    <3>4. r.lease.exec = 0
      BY <2>1, <3>1 DEF CopiesInv, CopyCurrent, NoLease
    <3>5. /\ disk.outbox.event.id # 0 => disk.outbox.event \in Saved'
          /\ ExecutionsSpent' /\ OutboxTells' /\ (NoBranch => LinesCounted') /\ GatesNotBypassed'
      BY <2>1, <3>2, <3>3, <3>4, SameSaved
    <3> QED
      BY <1>0, <2>1, <2>3, <3>1, <3>5, VerdictSaved
  <2> QED
    BY <2>2, <2>3
<1>3. CASE LoadToAdvance(p)
  <2>1. PICK at \in {"flush", "ready"} :
          /\ at = "flush" <=> disk.outbox.event.id # 0
          /\ Continue(p, Load, at) /\ UNCHANGED <<disk, log, fresh>>
    BY <1>3 DEF LoadToAdvance
  <2>2. PICK r \in Runs : r = Load /\ RunTells(r)' /\ r.outbox = disk.outbox
    BY <1>0, <1>00, <2>1, LoadTells
  <2>3. r.outbox.event \in Saved
    BY <2>2 DEF Saved
  <2> QED
    BY <1>0, <2>1, <2>2, <2>3, VerdictLocal
<1>4. CASE AppendOutbox(p)
  BY <1>4, VerdictAppend
<1>5. CASE AppendRefused(p)
  BY <1>0, <1>5, VerdictReturn DEF AppendRefused
<1>6. CASE ClearOutbox(p)
  <2>1. PICK next \in {"idle", "ready"} :
          Save(p, mem[p], next) /\ pc[p] \in {"reflush", "clear"} /\ UNCHANGED <<log, fresh>>
    BY <1>6 DEF ClearOutbox
  <2>2. SameRun(mem[p], mem[p]) /\ (mem[p].step = 0 => mem[p].status # "failed")
    BY <1>0 DEF SameRun, RunTells
  <2> QED
    BY <1>0, <2>1, <2>2, VerdictSameSave
<1>7. CASE Prepare(p)
  <2>1. PICK input \in Inputs :
          LET r == Updated(mem[p], input)
              held == r.lease.exec # 0 /\ r.lease.step = r.step
              exec == IF held THEN r.lease.exec ELSE fresh + 1
          IN  \/ /\ r.step \notin Checked
                 /\ Continue(p, r, "verify") /\ UNCHANGED <<disk, fresh>>
              \/ Return(p) /\ UNCHANGED <<disk, fresh>>
              \/ /\ r.step \in Checked /\ ~(held /\ ~Expired(r.lease))
                 /\ fresh' = IF held THEN fresh ELSE exec
                 /\ Save(p, Claimed(r, exec), "idle") \/ Save(p, Claimed(r, exec), "verify")
    BY <1>7, PrepareIs
  <2>2. pc[p] = "ready" /\ UNCHANGED log /\ mem[p].outbox = NoOutbox
    BY <1>0, <1>7 DEF Prepare, CopyOK
  <2>3. PICK r \in Runs :
          /\ r = Updated(mem[p], input)
          /\ SameRun(r, mem[p]) /\ r.rev = mem[p].rev /\ r.outbox = mem[p].outbox
          /\ r.lease = mem[p].lease /\ r.status = mem[p].status
    <3> DEFINE x == Updated(mem[p], input)
    <3>1. x \in Runs
      BY <1>0, UpdatedType
    <3>2. /\ SameRun(x, mem[p]) /\ x.rev = mem[p].rev /\ x.outbox = mem[p].outbox
          /\ x.lease = mem[p].lease /\ x.status = mem[p].status
      BY <1>0 DEF Updated, Runs, SameRun
    <3> HIDE DEF x
    <3> QED
      BY <3>1, <3>2 DEF x
  <2> DEFINE held == r.lease.exec # 0 /\ r.lease.step = r.step
             exec == IF held THEN r.lease.exec ELSE fresh + 1
  <2>4. CASE Continue(p, r, "verify") /\ UNCHANGED <<disk, fresh>>
    <3>1. RunTells(r)
      BY <1>0, <2>3 DEF RunTells, SameRun
    <3>2. RunTells(r)' /\ r.outbox.event.id = 0
      BY <1>00, <2>2, <2>3, <2>4, <3>1, NoOutboxIs
    <3> QED
      BY <1>0, <2>2, <2>4, <3>2, VerdictLocal
  <2>5. CASE Return(p) /\ UNCHANGED <<disk, fresh>>
    BY <1>0, <2>2, <2>5, VerdictReturn
  <2>6. CASE /\ fresh' = IF held THEN fresh ELSE exec
             /\ Save(p, Claimed(r, exec), "idle") \/ Save(p, Claimed(r, exec), "verify")
    <3>1. exec \in Nat /\ fresh <= fresh'
          /\ \/ exec = mem[p].lease.exec
             \/ exec = fresh + 1 /\ fresh' = fresh + 1
      BY <1>0, <2>3, <2>6 DEF Runs
    <3> HIDE DEF exec
    <3>2. /\ Claimed(r, exec) \in Runs /\ SameRun(Claimed(r, exec), mem[p])
          /\ Claimed(r, exec).outbox = mem[p].outbox /\ Claimed(r, exec).lease.exec = exec
          /\ Claimed(r, exec).status # "failed"
      BY <2>3, <3>1, ClaimedType, ZenonT(60) DEF Claimed, Runs, SameRun
    <3> QED
      BY <2>2, <2>6, <3>1, <3>2, VerdictSameSave
  <2> QED
    BY <2>1, <2>3, <2>4, <2>5, <2>6
<1>8. CASE Evaluate(p)
  <2>1. PICK q \in Runs : Evaluated(p, q) /\ Recorded(mem[p], q)
    BY <1>0, <1>8, EvaluateIs
  <2> QED
    BY <1>8, <2>1, VerdictEvaluated DEF Evaluate
<1>9. CASE BeginCheck(p)
  <2>1. pc[p] = "verify" /\ Continue(p, mem[p], "checking") /\ UNCHANGED <<disk, log, fresh>>
    BY <1>9 DEF BeginCheck
  <2>2. PICK r \in Runs : r = mem[p] /\ RunTells(r)'
    BY <1>0, <1>00, <2>1
  <2>3. r.outbox.event.id = 0
    BY <1>0, <2>1, <2>2, NoOutboxIs DEF CopyOK
  <2> QED
    BY <1>0, <2>1, <2>2, <2>3, VerdictLocal
<1>10. CASE EndCheck(p)
  <2>1. mem[p].step # 0
    BY <1>10 DEF EndCheck, CheckingAtStep
  <2>2. PICK q \in Runs : Evaluated(p, q) /\ Recorded(mem[p], q)
    BY <1>0, <1>10, <2>1, GatePassedIs, GateFailedIs DEF EndCheck
  <2> QED
    BY <1>10, <2>2, VerdictEvaluated DEF EndCheck
<1>11. CASE SaveResult(p)
  <2>1. pc[p] = "save" /\ Save(p, mem[p], "append") /\ UNCHANGED <<log, fresh>>
    BY <1>11 DEF SaveResult
  <2>2. CASE mem[p].rev # disk.rev
    BY <1>0, <2>1, <2>2, VerdictReturn DEF Save
  <2>3. CASE mem[p].rev = disk.rev
    <3>1. PICK r \in Runs : r = mem[p] /\ RunTells(r)'
      BY <1>0, <1>00, <2>1
    <3>2. disk' = [mem[p] EXCEPT !.rev = disk.rev + 1] /\ disk.rev # 0
      BY <1>0, <2>1, <2>3 DEF CopyOK, Save
    <3>3. /\ disk.outbox.event.id = 0
          /\ ExecutionsSpent' /\ OutboxTells' /\ (NoBranch => LinesCounted') /\ GatesNotBypassed'
      BY <2>1, <2>3, <3>2, ResultSaved
    <3> QED
      BY <1>0, <2>1, <2>3, <3>1, <3>2, <3>3, VerdictSaved
  <2> QED
    BY <2>2, <2>3
<1>12. CASE LoadToResume(p)
  <2>1. Continue(p, Load, "resume") /\ UNCHANGED <<disk, log, fresh>>
    BY <1>12 DEF LoadToResume
  <2>2. PICK r \in Runs : r = Load /\ RunTells(r)' /\ r.outbox = disk.outbox
    BY <1>0, <1>00, <2>1, LoadTells
  <2>3. r.outbox.event \in Saved
    BY <2>2 DEF Saved
  <2> QED
    BY <1>0, <2>1, <2>2, <2>3, VerdictLocal
<1>13. CASE SaveResumed(p)
  <2>1. pc[p] = "resume" /\ Save(p, Resume(mem[p]), "idle") /\ UNCHANGED <<log, fresh>>
    BY <1>13 DEF SaveResumed
  <2>2. mem[p].status = "failed" /\ Resume(mem[p]) \in Runs
    BY <1>0, <2>1, ResumeMoves DEF CopyOK
  <2>3. Resume(mem[p]).outbox = mem[p].outbox /\ SameRun(Resume(mem[p]), mem[p])
    BY <1>0, <2>2, ResumeIs
  <2>4. Resume(mem[p]).lease = mem[p].lease
    BY <1>0, <2>2 DEF Resume, Runs
  <2>5. Resume(mem[p]).step # 0
    BY <1>0, <2>2, <2>3 DEF RunTells, SameRun
  <2> QED
    BY <1>0, <2>1, <2>2, <2>3, <2>4, <2>5, VerdictSameSave
<1> QED
  BY <1>1, <1>2, <1>3, <1>4, <1>5, <1>6, <1>7, <1>8, <1>9, <1>10, <1>11, <1>12, <1>13
     DEF Call

\* No run, no line, no verdict.
LEMMA VerdictInit == Init => VerdictInv
<1> SUFFICES ASSUME Init PROVE VerdictInv
  OBVIOUS
<1>1. /\ disk = NoRun /\ log = <<>> /\ fresh = 0
      /\ \A p \in Callers : mem[p] = NoRun /\ pc[p] = "idle"
  BY DEF Init
<1>2. RunTells(NoRun)
  BY TypeInit, NoRunTells
<1>3. NoRun.rev = 0 /\ NoRun.outbox = NoOutbox /\ NoRun.lease = NoLease
      /\ \A s \in Steps : NoRun.failed[s] = 0
  BY DEF NoRun
<1>4. Saved = {NoEvent}
  BY <1>1, <1>3, NoOutboxIs DEF Saved
<1>5. ExecutionsSpent
  BY <1>4 DEF ExecutionsSpent, NoEvent
<1>6. OutboxTells /\ LogOpened /\ GatesNotBypassed
  BY <1>1, <1>3, NoOutboxIs DEF OutboxTells, LogOpened, GatesNotBypassed
<1>7. LinesCounted
  <2>1. \A s \in Steps : Refusals(s) = {} /\ Owed(s) = 0
    BY <1>1, <1>3, NoOutboxIs DEF Refusals, Owed, Pending
  <2> QED
    BY <1>1, <1>3, <2>1, FS_EmptySet DEF LinesCounted
<1> QED
  BY <1>1, <1>2, <1>5, <1>6, <1>7 DEF VerdictInv, EventOnItsWay

\* Calls, the end of leases and crashes keep the verdicts in order.
LEMMA VerdictNext ==
  ASSUME Production, TypeOK, CheckingAtStep, CopiesInv, AuditInv, VerdictInv, TypeOK',
         [Next]_vars
  PROVE  VerdictInv'
<1>0. fresh \in Nat
  BY DEF TypeOK
<1>1. CASE \E p \in Callers : Call(p)
  BY <1>1, VerdictCall
<1>2. ASSUME NEW p \in Callers, Crash(p) PROVE VerdictInv'
  BY <1>0, <1>2, VerdictReturn DEF Crash
<1>3. CASE LeaseExpires \/ UNCHANGED vars
  <2>1. UNCHANGED <<disk, log, pc, mem, fresh>>
    BY <1>3 DEF LeaseExpires, vars
  <2> QED
    BY <2>1 DEF VerdictInv, RunTells, Verdict, EventOnItsWay, Saved, ExecutionsSpent,
                OutboxTells, LogOpened, LinesCounted, Refusals, Owed, Pending,
                GatesNotBypassed, Entered
<1> QED
  BY <1>1, <1>2, <1>3 DEF Next

---------------------------------------------------------------------------
(* Refinement: the log is the run *)

\* What the lines say, line by line.
Said(lines) == [i \in DOMAIN lines |-> [step |-> lines[i].step, outcome |-> lines[i].outcome]]

LEMMA SaidAppend ==
  ASSUME NEW lines \in Seq(Events), NEW e \in Events
  PROVE  Said(Append(lines, e)) = Append(Said(lines), [step |-> e.step, outcome |-> e.outcome])
<1> DEFINE S == {[step |-> f.step, outcome |-> f.outcome] : f \in Events}
           l == [step |-> e.step, outcome |-> e.outcome]
           n == Len(lines)
<1>1. ASSUME NEW s \in Seq(Events)
      PROVE  Said(s) \in Seq(S) /\ Len(Said(s)) = Len(s)
  <2>1. Len(s) \in Nat /\ DOMAIN s = 1 .. Len(s) /\ \A i \in DOMAIN s : s[i] \in Events
    BY <1>1
  <2>2. Said(s) \in [1 .. Len(s) -> S]
    BY <2>1 DEF Said
  <2> HIDE DEF S
  <2> QED
    BY <2>1, <2>2
<1>2. l \in S /\ Append(lines, e) \in Seq(Events)
  OBVIOUS
<1>3. /\ n \in Nat /\ Len(Append(lines, e)) = n + 1
      /\ DOMAIN lines = 1 .. n /\ DOMAIN Append(lines, e) = 1 .. n + 1
      /\ \A i \in 1 .. n : Append(lines, e)[i] = lines[i]
      /\ Append(lines, e)[n + 1] = e
  OBVIOUS
<1>4. /\ \A i \in 1 .. n : Said(Append(lines, e))[i] = Said(lines)[i]
      /\ Said(Append(lines, e))[n + 1] = l
  BY <1>3 DEF Said
<1> HIDE DEF S, l, n
<1>5. /\ Append(Said(lines), l) \in Seq(S) /\ Len(Append(Said(lines), l)) = n + 1
      /\ \A i \in 1 .. n : Append(Said(lines), l)[i] = Said(lines)[i]
      /\ Append(Said(lines), l)[n + 1] = l
  BY <1>1, <1>2, AppendProperties DEF n
<1>6. Said(Append(lines, e)) \in Seq(S) /\ Len(Said(Append(lines, e))) = n + 1
  BY <1>1, <1>2, <1>3
<1>7. \A i \in 1 .. n + 1 : Said(Append(lines, e))[i] = Append(Said(lines), l)[i]
  BY <1>3, <1>4, <1>5
<1> QED
  BY <1>5, <1>6, <1>7, SeqEqual DEF l

\* A step that neither writes a line nor saves stutters.
LEMMA QuietStep ==
  ASSUME UNCHANGED <<disk, log>>
  PROVE  UNCHANGED <<Trail, VisibleStep>>
BY DEF Trail, VisibleStep, Pending

\* A save moves the file, not what a reader sees: a result stays pending until
\* its line is written, and an outbox is emptied after that.
LEMMA SaveHidden ==
  ASSUME TypeOK, AuditInv, VerdictInv, UNCHANGED log, NEW p \in Callers,
         NEW r \in Runs, mem[p].rev = disk.rev, disk' = [r EXCEPT !.rev = disk.rev + 1],
         \/ pc[p] = "create" /\ r = mem[p]
         \/ pc[p] = "save" /\ r = mem[p]
         \/ /\ pc[p] \in {"ready", "reflush", "clear", "resume"}
            /\ SameRun(r, mem[p]) /\ r.outbox = mem[p].outbox
  PROVE  UNCHANGED <<Trail, VisibleStep>>
<1>1. /\ disk'.outbox = r.outbox /\ disk'.step = r.step /\ disk'.rev # 0 /\ disk.rev \in Nat
  BY DEF TypeOK, Runs
<1>2. CopyOK(mem[p], pc[p]) /\ FileOK
  BY DEF AuditInv, CopiesAgree
<1>3. Trail' = Trail
  BY DEF Trail
<1>4. CASE pc[p] = "create" /\ r = mem[p]
  <2>1. disk.rev = 0 /\ r.step = 1 /\ r.outbox = NoOutbox
    BY <1>2, <1>4 DEF CopyOK, SameRun, NoRun
  <2> QED
    BY <1>1, <1>3, <2>1, NoOutboxIs DEF VisibleStep, Pending
<1>5. CASE pc[p] = "save" /\ r = mem[p]
  <2> DEFINE e == r.outbox.event
  <2>1. /\ disk.rev # 0 /\ disk.outbox = NoOutbox /\ e.id # 0
        /\ e \notin Saved /\ e.step = disk.step
    BY <1>1, <1>2, <1>5 DEF CopyOK, Fresh, VerdictInv, EventOnItsWay, Tells
  <2>2. \A i \in DOMAIN log : log[i].id # e.id
    BY <1>5, <2>1 DEF AuditInv, EventsNamed, Carried, Saved
  <2>3. VisibleStep' = e.step
    <3>1. disk'.outbox.event = e
      BY <1>1
    <3> HIDE DEF e
    <3> QED
      BY <1>1, <2>1, <2>2, <3>1 DEF VisibleStep, Pending
  <2>4. VisibleStep = disk.step
    BY <2>1, NoOutboxIs DEF VisibleStep, Pending
  <2> QED
    BY <1>3, <2>1, <2>3, <2>4
<1>6. CASE /\ pc[p] \in {"ready", "reflush", "clear", "resume"}
           /\ SameRun(r, mem[p]) /\ r.outbox = mem[p].outbox
  <2>1. /\ disk.rev # 0 /\ r.step = disk.step /\ Fresh(mem[p], pc[p])
    BY <1>1, <1>2, <1>6 DEF CopyOK, Fresh, SameRun
  <2>2. \/ r.outbox = disk.outbox
        \/ r.outbox = NoOutbox /\ disk.outbox.event \in {log[i] : i \in DOMAIN log}
    BY <1>2, <1>6, <2>1 DEF CopyOK, Fresh
  <2> QED
    BY <1>1, <1>3, <2>1, <2>2, NoOutboxIs DEF VisibleStep, Pending
<1> QED
  BY <1>4, <1>5, <1>6

\* Opening the log.
LEMMA StartOpens ==
  ASSUME Production, TypeOK, VerdictInv, NEW p \in Callers, Start(p)
  PROVE  Approval!Open
<1>1. PICK e \in Events :
        /\ UNCHANGED disk /\ log' = Append(<<>>, e) /\ e.step = 1 /\ e.outcome = "pending_commit"
  BY StartIs
<1>2. log = <<>> /\ disk.rev = 0
  BY StartsEmpty DEF Start
<1>3. Trail = Said(<<>>) /\ Trail' = Said(Append(<<>>, e)) /\ Said(<<>>) = <<>>
  BY <1>1, <1>2 DEF Trail, Said
<1>4. Said(Append(<<>>, e)) = Append(Said(<<>>), [step |-> e.step, outcome |-> e.outcome])
  <2>1. <<>> \in Seq(Events)
    OBVIOUS
  <2> QED
    BY <2>1, SaidAppend
<1>5. VisibleStep' = VisibleStep
  BY <1>1, <1>2 DEF VisibleStep
<1> QED
  BY <1>1, <1>3, <1>4, <1>5 DEF Approval!Open, Approval!Line

\* Writing a line decides the step the reader sees, or the line was there.
LEMMA AppendDecides ==
  ASSUME NoBranch, TypeOK, AuditInv, VerdictInv, NEW p \in Callers, AppendOutbox(p)
  PROVE  Approval!Next \/ UNCHANGED <<Trail, VisibleStep>>
<1>1. CASE log' = log
  BY <1>1, QuietStep DEF AppendOutbox
<1>2. CASE log' # log
  <2>1. PICK e \in Events :
          /\ e = disk.outbox.event /\ e.id # 0 /\ Verdict(e) /\ log' = Append(log, e)
          /\ \A i \in DOMAIN log : log[i].id # e.id
          /\ disk.rev # 0 /\ UNCHANGED disk
    BY <1>2, AppendIsOwed
  <2>2. log \in Seq(Events) /\ disk \in Runs
    BY DEF TypeOK
  <2>3. Trail' = Append(Trail, [step |-> e.step, outcome |-> e.outcome])
    BY <2>1, <2>2, SaidAppend DEF Trail, Said
  <2>4. VisibleStep = e.step
    BY <2>1 DEF VisibleStep, Pending
  <2>5. VisibleStep' = disk.step
    <3>1. \E i \in DOMAIN log' : log'[i] = e
      BY <2>1, <2>2, AppendIs
    <3> QED
      BY <2>1, <3>1 DEF VisibleStep, Pending
  <2>6. Trail # <<>>
    <3>1. log # <<>>
      BY <2>1 DEF VerdictInv, LogOpened
    <3>2. DOMAIN log # {}
      <4>1. Len(log) \in Nat /\ Len(log) # 0 /\ DOMAIN log = 1 .. Len(log)
        BY <2>2, <3>1
      <4> QED
        BY <4>1
    <3>3. DOMAIN Trail = DOMAIN log
      BY DEF Trail
    <3> QED
      BY <3>2, <3>3
  <2>7. /\ e.step = 0 => disk.step = 0 /\ e.outcome = "gate_passed"
        /\ e.step # 0 /\ e.outcome = "gate_passed" => disk.step = NextOf[e.step]
        /\ e.outcome = "gate_failed" => disk.step = e.step
        /\ e.outcome \in {"gate_passed", "gate_failed"}
    BY <2>1 DEF VerdictInv, OutboxTells, Verdict
  <2>8. CASE e.step = 0
    BY <2>3, <2>4, <2>5, <2>7, <2>8 DEF Approval!Next, Approval!Repeat, Approval!Line
  <2>9. CASE e.step # 0 /\ e.outcome = "gate_passed"
    BY <2>3, <2>4, <2>5, <2>6, <2>7, <2>9 DEF Approval!Next, Approval!Approve, Approval!Line
  <2>10. CASE e.step # 0 /\ e.outcome = "gate_failed"
    BY <2>3, <2>4, <2>5, <2>6, <2>7, <2>10 DEF Approval!Next, Approval!Refuse, Approval!Line
  <2> QED
    BY <2>7, <2>8, <2>9, <2>10
<1> QED
  BY <1>1, <1>2

\* A claim keeps the history and the outbox of the copy.
LEMMA PreparedSame ==
  ASSUME TypeOK, NEW p \in Callers, Prepare(p)
  PROVE  \E r \in Runs, next \in {"idle", "verify"} :
           /\ Save(p, r, next) \/ UNCHANGED disk
           /\ UNCHANGED log /\ pc[p] = "ready"
           /\ SameRun(r, mem[p]) /\ r.outbox = mem[p].outbox
<1>1. PICK input \in Inputs :
        LET r == Updated(mem[p], input)
            held == r.lease.exec # 0 /\ r.lease.step = r.step
            exec == IF held THEN r.lease.exec ELSE fresh + 1
        IN  \/ UNCHANGED disk
            \/ Save(p, Claimed(r, exec), "idle")
            \/ Save(p, Claimed(r, exec), "verify")
  BY PrepareIs
<1> DEFINE r == Updated(mem[p], input)
           exec == IF r.lease.exec # 0 /\ r.lease.step = r.step THEN r.lease.exec ELSE fresh + 1
<1>2. mem[p] \in Runs /\ fresh \in Nat /\ UNCHANGED log /\ pc[p] = "ready"
  BY DEF TypeOK, Prepare
<1>3. r \in Runs /\ SameRun(r, mem[p]) /\ r.outbox = mem[p].outbox
  BY <1>2, UpdatedType DEF Updated, Runs, SameRun
<1>4. exec \in Nat
  BY <1>2, <1>3 DEF Runs
<1>5. \/ UNCHANGED disk \/ Save(p, Claimed(r, exec), "idle") \/ Save(p, Claimed(r, exec), "verify")
  BY <1>1
<1> HIDE DEF r, exec
<1> DEFINE q == Claimed(r, exec)
<1>6. q \in Runs /\ SameRun(q, mem[p]) /\ q.outbox = mem[p].outbox
  BY <1>3, <1>4, ClaimedType DEF Claimed, Runs, SameRun
<1> HIDE DEF q
<1> QED
  BY <1>2, <1>5, <1>6 DEF q

\* Each step of a production run is a step of the approval or none.
LEMMA ApprovalCall ==
  ASSUME Production, NoBranch, TypeOK, CheckingAtStep, AuditInv, VerdictInv,
         NEW p \in Callers, Call(p)
  PROVE  Approval!Next \/ UNCHANGED <<Trail, VisibleStep>>
<1>0. mem[p] \in Runs /\ CopyOK(mem[p], pc[p])
  BY DEF TypeOK, AuditInv, CopiesAgree
<1>1. CASE Start(p)
  BY <1>1, StartOpens DEF Approval!Next
<1>2. CASE AppendOutbox(p)
  BY <1>2, AppendDecides
<1>3. CASE Create(p) \/ SaveResult(p)
  <2>1. PICK next : Save(p, mem[p], next) /\ UNCHANGED log /\ pc[p] \in {"create", "save"}
    BY <1>3 DEF Create, SaveResult
  <2> QED
    BY <1>0, <2>1, SaveHidden, QuietStep DEF Save
<1>4. CASE ClearOutbox(p) \/ SaveResumed(p)
  <2>1. PICK r, next :
          /\ r \in Runs
          /\ Save(p, r, next) /\ UNCHANGED log /\ pc[p] \in {"reflush", "clear", "resume"}
          /\ SameRun(r, mem[p]) /\ r.outbox = mem[p].outbox
    <3>1. CASE ClearOutbox(p)
      BY <1>0, <3>1 DEF ClearOutbox, SameRun
    <3>2. CASE SaveResumed(p)
      <4>1. mem[p].status = "failed" /\ Resume(mem[p]) \in Runs
        BY <1>0, <3>2, ResumeMoves DEF CopyOK, SaveResumed
      <4> QED
        BY <1>0, <3>2, <4>1, ResumeIs DEF SaveResumed
    <3> QED
      BY <1>4, <3>1, <3>2
  <2> QED
    BY <2>1, SaveHidden, QuietStep DEF Save
<1>5. CASE Prepare(p)
  <2>1. PICK r, next :
          /\ r \in Runs
          /\ Save(p, r, next) \/ UNCHANGED disk
          /\ UNCHANGED log /\ pc[p] = "ready"
          /\ SameRun(r, mem[p]) /\ r.outbox = mem[p].outbox
    BY <1>0, <1>5, PreparedSame
  <2> QED
    BY <2>1, SaveHidden, QuietStep DEF Save
<1>6. CASE \/ LoadToAdvance(p) \/ AppendRefused(p) \/ Evaluate(p) \/ BeginCheck(p)
           \/ EndCheck(p) \/ LoadToResume(p)
  <2>1. UNCHANGED <<disk, log>>
    BY <1>6 DEF LoadToAdvance, AppendRefused, Evaluate, BeginCheck, EndCheck, LoadToResume
  <2> QED
    BY <2>1, QuietStep
<1> QED
  BY <1>1, <1>2, <1>3, <1>4, <1>5, <1>6 DEF Call

---------------------------------------------------------------------------
(* Theorems *)

\* The inductive invariant of a production run (service.py, store.py and
\* audit.py together): what every copy knows of the file, at every point of a
\* call, while nobody else has saved.
THEOREM AuditAgrees ==
  ASSUME Production
  PROVE  Spec => [](TypeOK /\ CheckingAtStep /\ AuditInv)
<1> DEFINE I == TypeOK /\ CheckingAtStep /\ AuditInv
<1>1. Init => I
  BY TypeInit, AuditInit DEF Init, CheckingAtStep
<1>2. I /\ [Next]_vars => I'
  BY TypeNext, AuditNext
<1> QED
  BY <1>1, <1>2, PTL DEF Spec

\* Whatever callers retry, race or crash, and whatever directories they are
\* configured with, an event id is on one line of one log.
THEOREM EventsOnce ==
  ASSUME Production
  PROVE  Spec => []EventsWrittenOnce
<1>1. AuditInv => EventsWrittenOnce
  BY DEF AuditInv
<1> QED
  BY <1>1, AuditAgrees, PTL

\* No step of a production run is recorded as completed without its
\* gate_passed event in the log or in the outbox (PipelineRunService.advance).
THEOREM CompletionsHaveEvents ==
  ASSUME Production
  PROVE  Spec => []CompletionsAudited
<1>1. AuditInv => CompletionsAudited
  BY DEF AuditInv
<1> QED
  BY <1>1, AuditAgrees, PTL

\* In a pipeline without failure branches no gate failure is recorded without
\* its gate_failed event; MCBranch shows that the premise is needed.
THEOREM FailuresHaveEvents ==
  ASSUME Production, NoBranch
  PROVE  Spec => []FailuresAudited
<1>1. AuditInv => FailuresAudited
  BY DEF AuditInv, NoBranch
<1> QED
  BY <1>1, AuditAgrees, PTL

LEMMA RunKept ==
  ASSUME Production
  PROVE  Spec => [](TypeOK /\ CheckingAtStep /\ CopiesInv /\ AuditInv /\ VerdictInv)
<1> DEFINE I == TypeOK /\ CheckingAtStep /\ CopiesInv /\ AuditInv
<1>1. Spec => []I
  BY AuditAgrees, CopiesAreCurrent, PTL
<1>2. Init => VerdictInv
  BY VerdictInit
<1>3. I /\ I' /\ VerdictInv /\ [Next]_vars => VerdictInv'
  BY VerdictNext
<1> QED
  BY <1>1, <1>2, <1>3, PTL DEF Spec

\* Copies, audit and verdicts of a production run: what the theorems below rest
\* on (PipelineRunService, RunStateStore and AuditLogger together).
THEOREM VerdictsTold ==
  ASSUME Production
  PROVE  Spec => [](TypeOK /\ CheckingAtStep /\ RunInv)
<1>1. CopiesInv /\ AuditInv /\ VerdictInv => RunInv
  BY DEF RunInv
<1> QED
  BY <1>1, RunKept, PTL

\* A lease that ran out hands its execution on while the first verifier may
\* still be running; only one of their results is ever announced
\* (claim_verification, and the revision check of save).
THEOREM VerdictsOnce ==
  ASSUME Production
  PROVE  Spec => []OneVerdictPerExecution
<1>1. TypeOK /\ AuditInv /\ VerdictInv => OneVerdictPerExecution
  <2> SUFFICES ASSUME AuditInv, VerdictInv, NEW i \in DOMAIN log, NEW j \in DOMAIN log,
                      log[i].exec # 0, log[i].exec = log[j].exec
               PROVE  i = j
    BY DEF OneVerdictPerExecution
  <2>1. log[i] = log[j]
    BY DEF VerdictInv, ExecutionsSpent, Saved
  <2>2. log[i].id # 0
    BY DEF VerdictInv, LogOpened, Verdict
  <2> QED
    BY <2>1, <2>2 DEF AuditInv, EventsWrittenOnce
<1> QED
  BY <1>1, RunKept, PTL

\* Without failure branches a line about a gate has its outcome in the state
\* file: a passed gate its completed step, each failed one its attempt
\* (PipelineRunService.advance saves before it appends).
THEOREM LinesAreBacked ==
  ASSUME Production, NoBranch
  PROVE  Spec => []AuditBackedByState
<1>1. TypeOK /\ VerdictInv => AuditBackedByState
  <2> SUFFICES ASSUME TypeOK, VerdictInv, NEW i \in DOMAIN log,
                      log[i].kind = "evaluated", log[i].step # 0,
                      log[i].outcome # "gate_passed"
               PROVE  disk.failed[log[i].step] >= Cardinality(Refusals(log[i].step))
    BY DEF AuditBackedByState, VerdictInv, LinesCounted, Refusals
  <2>1. log[i] \in Events
    BY DEF TypeOK
  <2>2. log[i].step \in Steps
    <3>1. log[i].step \in 0 .. N
      BY <2>1 DEF Events
    <3> QED
      BY <3>1, PipelineAssumption DEF Steps, ValidPipeline
  <2> DEFINE s == log[i].step
  <2>3. Cardinality(Refusals(s)) + Owed(s) <= disk.failed[s]
    BY <2>2 DEF VerdictInv, LinesCounted
  <2>4. Cardinality(Refusals(s)) \in Nat /\ disk.failed[s] \in Nat /\ Owed(s) \in {0, 1}
    BY <2>2, RefusalsFinite DEF TypeOK, Runs, Owed
  <2> QED
    BY <2>3, <2>4
<1> QED
  BY <1>1, RunKept, PTL

\* A production run stands at a step whose predecessor was completed or whose
\* failed gate leads there; it is over only after a last step that it
\* completed (complete_and_advance, under every interleaving of callers).
THEOREM GatesHold ==
  ASSUME Production
  PROVE  Spec => []GatesNotBypassed
<1>1. VerdictInv => GatesNotBypassed
  BY DEF VerdictInv
<1> QED
  BY <1>1, RunKept, PTL

\* A production run without failure branches implements GateApproval: for a
\* reader of the log, whatever callers race, crash or retry, the run opens the
\* log and each later line decides the step the run is at.
THEOREM LogIsTheRun ==
  ASSUME Production, NoBranch
  PROVE  Spec => ImplementsApproval
<1> DEFINE I == TypeOK /\ CheckingAtStep /\ CopiesInv /\ AuditInv /\ VerdictInv
<1>1. Init => Approval!Init
  BY DEF Init, Approval!Init, Trail, VisibleStep, NoRun
<1>2. I /\ [Next]_vars => [Approval!Next]_<<Trail, VisibleStep>>
  <2> SUFFICES ASSUME I, [Next]_vars
               PROVE  Approval!Next \/ UNCHANGED <<Trail, VisibleStep>>
    OBVIOUS
  <2>1. CASE \E p \in Callers : Call(p)
    BY <2>1, ApprovalCall
  <2>2. CASE (\E p \in Callers : Crash(p)) \/ LeaseExpires \/ UNCHANGED vars
    BY <2>2, QuietStep DEF Crash, LeaseExpires, vars
  <2> QED
    BY <2>1, <2>2 DEF Next
<1> QED
  BY <1>1, <1>2, RunKept, PTL DEF Spec, ImplementsApproval, Approval!Spec
=============================================================================
