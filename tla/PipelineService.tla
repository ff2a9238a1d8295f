--------------------------- MODULE PipelineService ---------------------------
(***************************************************************************)
(* One pipeline run driven by several callers: MCP servers and CLI         *)
(* invocations that share a state file and an audit log, each working on   *)
(* its own copy of the run between a load and a save.                      *)
(*                                                                         *)
(*   pipeline/service.py  PipelineRunService.start / advance / flush       *)
(*   pipeline/store.py    RunStateStore.save / load / claim_verification   *)
(*   mcp/audit.py         AuditLogger.append / contains_event              *)
(*   mcp/tools.py, main.py   the advance and resume handlers               *)
(*                                                                         *)
(* A save is atomic: it compares revisions and replaces the file under an  *)
(* exclusive file lock.  Everything a caller does between two accesses to  *)
(* shared state is one step; a verifier subprocess runs between            *)
(* BeginCheck and EndCheck.                                                *)
(***************************************************************************)
EXTENDS PipelineEngine, FiniteSets

CONSTANTS
  Callers,      \* concurrent MCP handlers and CLI processes
  Sinks,        \* audit directories a caller may be configured with
  Inputs,       \* the context of a start and the context_updates of an advance
  MaxRev,       \* bound: no evaluation or resume begins at this revision or later
  MaxCrashes    \* bound: callers killed

ASSUME ServiceAssumption ==
  /\ Sinks \subseteq Nat \ {0}
  /\ Inputs \subseteq UNION {[K -> Values] : K \in SUBSET Keys}
  /\ [k \in {} |-> "absent"] \in Inputs
  /\ MaxRev \in Nat /\ MaxCrashes \in Nat

VARIABLES
  disk,      \* the state file; revision 0 when there is none
  log,       \* complete audit lines of all sinks, in the order of the appends
  torn,      \* sinks whose last line is incomplete: their chain no longer verifies
  pc,        \* what each caller is about to do
  mem,       \* each caller's copy of the run
  sink,      \* the audit directory each caller is configured with
  expired,   \* leases claimed at this revision or an earlier one are over
  fresh,     \* uuids drawn so far
  crashes

vars == <<disk, log, torn, pc, mem, sink, expired, fresh, crashes>>

PCs == {"idle", "create", "flush", "reflush", "ready", "verify", "checking",
        "save", "append", "clear", "resume"}

Init ==
  /\ disk = NoRun
  /\ log = <<>>
  /\ torn = {}
  /\ pc = [p \in Callers |-> "idle"]
  /\ mem = [p \in Callers |-> NoRun]
  /\ sink \in [Callers -> Sinks]
  /\ expired = 0
  /\ fresh = 0
  /\ crashes = 0

---------------------------------------------------------------------------
(* Shared state *)

\* The call of p is over; with an error or without, the copy is dropped.
Return(p) ==
  /\ pc' = [pc EXCEPT ![p] = "idle"]
  /\ mem' = [mem EXCEPT ![p] = NoRun]

Continue(p, r, next) ==
  /\ pc' = [pc EXCEPT ![p] = next]
  /\ mem' = [mem EXCEPT ![p] = r]

\* Mutated Save: no comparison of the revisions.
SaveBlind(p, r, next) ==
  LET saved == [r EXCEPT !.rev = disk.rev + 1]
  IN  /\ disk' = saved
      /\ IF next = "idle" THEN Return(p) ELSE Continue(p, saved, next)

\* RunStateStore.save of p's copy changed into r, then on to next; on a stale
\* revision ConcurrentStateError ends the call.
Save(p, r, next) ==
  \/ /\ mem[p].rev = disk.rev
     /\ LET saved == [r EXCEPT !.rev = disk.rev + 1]
        IN  /\ disk' = saved
            /\ IF next = "idle" THEN Return(p) ELSE Continue(p, saved, next)
  \/ /\ mem[p].rev # disk.rev
     /\ Return(p)
     /\ UNCHANGED disk

\* AuditLogger.contains_event: the id is in the sink and its chain verifies.
ContainsEvent(snk, id) ==
  /\ snk \notin torn
  /\ \E i \in DOMAIN log : log[i].sink = snk /\ log[i].id = id

\* Mutated AppendStrict: no search for the event id.
AppendAgain(snk, event) ==
  /\ snk \notin torn
  /\ log' = Append(log, [event EXCEPT !.sink = snk])

\* Mutated AppendStrict: an id that is already there is an error.
AppendNew(snk, event) ==
  /\ snk \notin torn
  /\ event.id # 0 => ~ContainsEvent(snk, event.id)
  /\ log' = Append(log, [event EXCEPT !.sink = snk])

\* A strict AuditLogger.append to the sink; an event whose id is already
\* there is not repeated.
AppendStrict(snk, event) ==
  /\ snk \notin torn
  /\ log' = IF event.id # 0 /\ ContainsEvent(snk, event.id)
            THEN log ELSE Append(log, [event EXCEPT !.sink = snk])

\* Mutated Materialize: the event's outcome instead of the candidate status.
MaterializeOutcome(r) ==
  IF r.outbox.event.id = 0 THEN r
  ELSE [r EXCEPT !.status = r.outbox.event.outcome]

\* _materialize_approval_status: an outbox whose event is not in its sink's
\* log masks the candidate status.
Materialize(r) ==
  IF r.outbox.event.id = 0 THEN r
  ELSE IF ContainsEvent(r.outbox.event.sink, r.outbox.event.id)
  THEN [r EXCEPT !.status = r.outbox.candidate]
  ELSE [r EXCEPT !.status = "pending_audit"]

\* RunStateStore.load: the file, then a look at the log.
Load == Materialize(disk)

Update(ctx, input) ==
  [k \in Keys |-> IF k \in DOMAIN input THEN input[k] ELSE ctx[k]]

\* verification.expires_at is not in the future any more.
Expired(lease) == lease.claim <= expired

---------------------------------------------------------------------------
(* start *)

\* The run does not exist yet.  A Production run is announced in the audit
\* log before its state file is written.
Start(p) ==
  /\ pc[p] = "idle"
  /\ disk.rev = 0
  /\ \A q \in Callers : pc[q] # "create"
  /\ \A i \in DOMAIN log : log[i].kind # "started"
  /\ \E input \in Inputs :
       LET r == Started(Update(NoRun.ctx, input))
       IN  /\ Continue(p, r, "create")
           /\ IF Production
              THEN AppendStrict(sink[p], [NoEvent EXCEPT !.kind = "started", !.step = r.step,
                                                         !.outcome = "pending_commit"])
              ELSE UNCHANGED log
  /\ UNCHANGED <<disk, torn, sink, expired, fresh, crashes>>

Create(p) ==
  /\ pc[p] = "create"
  /\ Save(p, mem[p], "idle")
  /\ UNCHANGED <<log, torn, sink, expired, fresh, crashes>>

---------------------------------------------------------------------------
(* advance *)

\* store.load, and the first decision of PipelineRunService.advance.
LoadToAdvance(p) ==
  /\ pc[p] = "idle"
  /\ disk.rev > 0
  /\ Continue(p, Load,
              IF Production /\ disk.outbox.event.id # 0 THEN "flush" ELSE "ready")
  /\ UNCHANGED <<disk, log, torn, sink, expired, fresh, crashes>>

\* Mutated AppendOutbox: the recorded audit directory is not compared.
AppendAnywhere(p) ==
  /\ pc[p] \in {"flush", "append"}
  /\ AppendStrict(sink[p], mem[p].outbox.event)
  /\ Continue(p, [mem[p] EXCEPT !.status = mem[p].outbox.candidate, !.outbox = NoOutbox],
              IF pc[p] = "flush" THEN "reflush" ELSE "clear")
  /\ UNCHANGED <<disk, torn, sink, expired, fresh, crashes>>

\* The append of _flush_approval_outbox: of the outbox found on disk
\* ("flush") or of the one just saved ("append").  Another audit directory
\* than the recorded one is refused.
AppendOutbox(p) ==
  /\ pc[p] \in {"flush", "append"}
  /\ mem[p].outbox.event.sink = sink[p]
  /\ AppendStrict(sink[p], mem[p].outbox.event)
  /\ Continue(p, [mem[p] EXCEPT !.status = mem[p].outbox.candidate, !.outbox = NoOutbox],
              IF pc[p] = "flush" THEN "reflush" ELSE "clear")
  /\ UNCHANGED <<disk, torn, sink, expired, fresh, crashes>>

\* Mutated AppendRefused: a best-effort append, whose failure goes unnoticed.
AppendIgnored(p) ==
  /\ pc[p] \in {"flush", "append"}
  /\ Continue(p, [mem[p] EXCEPT !.status = mem[p].outbox.candidate, !.outbox = NoOutbox],
              IF pc[p] = "flush" THEN "reflush" ELSE "clear")
  /\ UNCHANGED <<disk, log, torn, sink, expired, fresh, crashes>>

\* ProductionAuditError: sink mismatch, unwritable directory, broken chain.
AppendRefused(p) ==
  /\ pc[p] \in {"flush", "append"}
  /\ Return(p)
  /\ UNCHANGED <<disk, log, torn, sink, expired, fresh, crashes>>

\* The save that empties the outbox.  After flushing an outbox it found, the
\* call goes on only if the run is not over.
ClearOutbox(p) ==
  /\ pc[p] \in {"reflush", "clear"}
  /\ Save(p, mem[p], IF pc[p] = "clear" \/ mem[p].status \in {"completed", "failed"}
                     THEN "idle" ELSE "ready")
  /\ UNCHANGED <<log, torn, sink, expired, fresh, crashes>>

\* Hashing the evidence manifest of a Production step raises TypeError on a
\* value that is neither text nor structured evidence.
BindingRaises(r) ==
  /\ Production
  /\ \A k \in Requires[r.step] : r.ctx[k] # "absent"
  /\ \E k \in Requires[r.step] : r.ctx[k] = "flag"

\* Mutated Prepare: the claim does not look for a live lease.
PrepareAlways(p) ==
  /\ pc[p] = "ready"
  /\ mem[p].rev < MaxRev
  /\ LET r == mem[p]
         claimed == [r EXCEPT !.lease = [step |-> r.step, exec |-> fresh + 1, claim |-> r.rev + 1],
                              !.status = "verifying"]
     IN  /\ fresh' = fresh + 1
         /\ Save(p, claimed, "verify")
  /\ UNCHANGED <<log, torn, sink, expired, crashes>>

\* context.update, then claim_verification for a step with a check_command.
\* A live lease on the same step refuses the call; an expired one hands its
\* execution id on.
Prepare(p) ==
  /\ pc[p] = "ready"
  /\ mem[p].rev < MaxRev
  /\ \E input \in Inputs :
       LET r == [mem[p] EXCEPT !.ctx = Update(@, input)]
           held == r.lease.exec # 0 /\ r.lease.step = r.step
           exec == IF held THEN r.lease.exec ELSE fresh + 1
           claimed == [r EXCEPT !.lease = [step |-> r.step, exec |-> exec, claim |-> r.rev + 1],
                                !.status = "verifying"]
       IN  IF r.step \notin Checked
           THEN /\ Continue(p, r, "verify")
                /\ UNCHANGED <<disk, fresh>>
           ELSE IF held /\ ~Expired(r.lease)
           THEN /\ Return(p)
                /\ UNCHANGED <<disk, fresh>>
           ELSE /\ fresh' = IF held THEN fresh ELSE exec
                /\ Save(p, claimed, IF BindingRaises(r) THEN "idle" ELSE "verify")
  /\ UNCHANGED <<log, torn, sink, expired, crashes>>

\* Mutated Evaluated: the lease stays, the outcome is judged by the status
\* before the evaluation, or the audit comes before the save.
EvaluatedAs(p, r, lease, status, next) ==
  LET event == [ kind    |-> "evaluated",
                 id      |-> fresh + 1,
                 step    |-> mem[p].step,
                 outcome |-> IF status = "failed" THEN "gate_failed" ELSE "gate_passed",
                 exec    |-> IF mem[p].step \in Checked THEN mem[p].lease.exec ELSE 0,
                 sink    |-> sink[p] ]
  IN  /\ fresh' = fresh + 1
      /\ Continue(p, [r EXCEPT !.lease = lease,
                               !.outbox = [event |-> event, candidate |-> r.status]], next)
EvaluatedKeepsLease(p, r) == EvaluatedAs(p, r, r.lease, r.status, "save")
EvaluatedStale(p, r) == EvaluatedAs(p, r, NoLease, mem[p].status, "save")
EvaluatedAuditFirst(p, r) == EvaluatedAs(p, r, NoLease, r.status, "append")

\* The tail of advance after the engine returned r: a Production run gets an
\* approval outbox with the event that will announce the outcome.
Evaluated(p, r) ==
  LET event == [ kind    |-> "evaluated",
                 id      |-> fresh + 1,
                 step    |-> mem[p].step,
                 outcome |-> IF r.status = "failed" THEN "gate_failed" ELSE "gate_passed",
                 exec    |-> IF mem[p].step \in Checked THEN mem[p].lease.exec ELSE 0,
                 sink    |-> sink[p] ]
  IN  IF Production
      THEN /\ fresh' = fresh + 1
           /\ Continue(p, [r EXCEPT !.lease = NoLease,
                                    !.outbox = [event |-> event, candidate |-> r.status]], "save")
      ELSE /\ Continue(p, [r EXCEPT !.lease = NoLease], "save")
           /\ UNCHANGED fresh

\* complete_and_advance up to the verifier subprocess.
Evaluate(p) ==
  LET r == mem[p]
  IN  /\ pc[p] = "verify"
      /\ \/ /\ r.step = 0
            /\ Evaluated(p, [r EXCEPT !.status = IF @ = "running" THEN "completed" ELSE @])
         \/ /\ r.step # 0
            /\ LimitReached(r)
            /\ Evaluated(p, Fail(r))
         \/ /\ r.step # 0
            /\ ~LimitReached(r)
            /\ Requires[r.step] # {} \/ r.step \in Checked
            /\ Evaluated(p, GateFailed(r))
         \/ /\ r.step # 0
            /\ ~LimitReached(r)
            /\ CanPass(r)
            /\ r.step \notin Checked
            /\ Evaluated(p, GatePassed(r))
  /\ UNCHANGED <<disk, log, torn, sink, expired, crashes>>

\* The gate's own conditions hold and, for a Production step, the lease is
\* still running: the verifier subprocess starts.
BeginCheck(p) ==
  LET r == mem[p]
  IN  /\ pc[p] = "verify"
      /\ r.step \in Checked
      /\ ~LimitReached(r)
      /\ CanPass(r)
      /\ Production => /\ Requires[r.step] # {}
                       /\ ~Expired(r.lease)
      /\ Continue(p, r, "checking")
  /\ UNCHANGED <<disk, log, torn, sink, expired, fresh, crashes>>

\* The subprocess ends: its verdict, or the 60 second timeout.
EndCheck(p) ==
  /\ pc[p] = "checking"
  /\ \/ Evaluated(p, GatePassed(mem[p]))
     \/ Evaluated(p, GateFailed(mem[p]))
  /\ UNCHANGED <<disk, log, torn, sink, expired, crashes>>

SaveResult(p) ==
  /\ pc[p] = "save"
  /\ Save(p, mem[p], IF Production THEN "append" ELSE "idle")
  /\ UNCHANGED <<log, torn, sink, expired, fresh, crashes>>

---------------------------------------------------------------------------
(* resume *)

\* The handlers answer at once for a completed run, and the engine raises for
\* a Production run in any other state than failed.
LoadToResume(p) ==
  /\ pc[p] = "idle"
  /\ disk.rev \in 1 .. MaxRev - 1
  /\ LET r == Load
     IN  /\ r.status # "completed"
         /\ CanResume(r)
         /\ Continue(p, r, "resume")
  /\ UNCHANGED <<disk, log, torn, sink, expired, fresh, crashes>>

SaveResumed(p) ==
  /\ pc[p] = "resume"
  /\ Save(p, Resume(mem[p]), "idle")
  /\ UNCHANGED <<log, torn, sink, expired, fresh, crashes>>

---------------------------------------------------------------------------
(* The environment *)

\* 120 seconds pass since a claim.  Leases end in the order of their claims.
LeaseExpires ==
  /\ \E lease \in {disk.lease} \cup {mem[p].lease : p \in Callers} :
       /\ lease.claim > expired
       /\ expired' = lease.claim
  /\ UNCHANGED <<disk, log, torn, pc, mem, sink, fresh, crashes>>

\* A caller is killed; in the middle of an append it leaves half a line.
Crash(p) ==
  /\ crashes < MaxCrashes
  /\ pc[p] # "idle"
  /\ crashes' = crashes + 1
  /\ Return(p)
  /\ \/ UNCHANGED torn
     \/ /\ pc[p] \in {"flush", "append"}
        /\ mem[p].outbox.event.sink = sink[p]
        /\ torn' = torn \cup {sink[p]}
  /\ UNCHANGED <<disk, log, sink, expired, fresh>>

Call(p) ==
  \/ Start(p) \/ Create(p)
  \/ LoadToAdvance(p) \/ AppendOutbox(p) \/ AppendRefused(p) \/ ClearOutbox(p)
  \/ Prepare(p) \/ Evaluate(p) \/ BeginCheck(p) \/ EndCheck(p) \/ SaveResult(p)
  \/ LoadToResume(p) \/ SaveResumed(p)

Next ==
  \/ \E p \in Callers : Call(p) \/ Crash(p)
  \/ LeaseExpires

Spec == Init /\ [][Next]_vars

---------------------------------------------------------------------------
(* Types *)

Events ==
  [ kind    : {"none", "started", "evaluated"},
    id      : Nat,
    step    : 0 .. N,
    outcome : {"none", "pending_commit", "gate_passed", "gate_failed"},
    exec    : Nat,
    sink    : Sinks \cup {0} ]

Runs ==
  [ rev     : Nat,
    step    : 0 .. N,
    status  : Statuses,
    done    : SUBSET Steps,
    skipped : SUBSET Steps,
    failed  : [Steps -> Nat],
    ctx     : Contexts,
    lease   : [step : 0 .. N, exec : Nat, claim : Nat],
    outbox  : [event : Events, candidate : Statuses] ]

\* Every variable stays in its domain, for the state file, the audit log and
\* the copies the callers work on.
TypeOK ==
  /\ disk \in Runs
  /\ log \in Seq(Events)
  /\ torn \subseteq Sinks
  /\ pc \in [Callers -> PCs]
  /\ mem \in [Callers -> Runs]
  /\ sink \in [Callers -> Sinks]
  /\ expired \in Nat
  /\ fresh \in Nat
  /\ crashes \in Nat

---------------------------------------------------------------------------
(* Safety *)

\* The event that announces the outcome o for the step s is a line of the
\* log, or is the one the outbox still owes it.
Announced(s, o) ==
  \/ \E i \in DOMAIN log : log[i].step = s /\ log[i].outcome = o
  \/ disk.outbox.event.step = s /\ disk.outbox.event.outcome = o

\* No approval without evidence: each completed step of a Production run has
\* its gate_passed event in the audit log, or in an outbox that has yet to be
\* flushed, whatever callers raced, crashed or failed to append
\* (service.py, the order of save, append and clear in advance).
CompletionsAudited ==
  \A s \in disk.done : Announced(s, "gate_passed")

\* The same of a gate that failed: its gate_failed event is not lost.
FailuresAudited ==
  \A s \in Steps : disk.failed[s] > 0 => Announced(s, "gate_failed")

\* No evidence without approval: a gate outcome is in the audit log only if
\* the state file has it (service.py: "The candidate state and its recovery
\* record must be durable before an audit event is allowed to claim the gate
\* outcome").
AuditBackedByState ==
  \A i \in DOMAIN log :
    log[i].kind = "evaluated" /\ log[i].step # 0 =>
      IF log[i].outcome = "gate_passed"
      THEN log[i].step \in disk.done
      ELSE disk.failed[log[i].step] >=
             Cardinality({j \in DOMAIN log : /\ log[j].step = log[i].step
                                             /\ log[j].outcome = "gate_failed"})

\* Retries and racing flushes of one outbox leave one line, in one sink
\* (audit.py, the search for event_id under the lock; service.py, the
\* comparison of the recorded audit directory).
EventsWrittenOnce ==
  \A i, j \in DOMAIN log : log[i].id # 0 /\ log[i].id = log[j].id => i = j

\* A lease that expired hands its execution id to the next claim, and the
\* first verifier may still be running: at most one of the two results is
\* ever audited.
OneVerdictPerExecution ==
  \A i, j \in DOMAIN log : log[i].exec # 0 /\ log[i].exec = log[j].exec => i = j

\* Two callers run the verifier of one step at the same time only if the
\* lease of one of them is over (store.py, claim_verification: "two callers
\* racing from the same state unable to both acquire the lease").
VerifierExclusive ==
  \A p, q \in Callers :
    p # q /\ pc[p] = "checking" /\ pc[q] = "checking" /\ mem[p].step = mem[q].step =>
      Expired(mem[p].lease) \/ Expired(mem[q].lease)

\* A step is entered from a step that was completed or skipped, or whose gate
\* failed and has a failure branch.
Entered(s) ==
  \/ s = 1
  \/ \E t \in Steps : \/ NextOf[t] = s /\ t \in disk.done \cup disk.skipped
                      \/ FailTo[t] = s /\ disk.failed[t] > 0

\* The run never gets past a gate that did not pass: where it stands, and
\* where it ended, follows from its history (engine.py, complete_and_advance).
GatesNotBypassed ==
  disk.rev > 0 =>
    IF disk.step # 0 THEN Entered(disk.step)
    ELSE \E t \in disk.done \cup disk.skipped : NextOf[t] = 0 /\ Entered(t)

\* No lost update: a save never removes what another caller recorded, and
\* never moves the run back to an earlier step (store.py, the revision check
\* of save).
HistoryGrows ==
  [][ /\ disk.done \subseteq disk'.done
      /\ disk.skipped \subseteq disk'.skipped
      /\ \A s \in Steps : disk.failed[s] <= disk'.failed[s]
      /\ disk.rev > 0 /\ disk'.step # 0 => disk.step # 0 /\ disk.step <= disk'.step ]_disk

\* A result is recorded only for the step the run is at: no evaluation of a
\* step the run has left in the meantime, by a resume or by another caller,
\* ever lands.
ResultsAreCurrent ==
  [][ \A s \in Steps :
        s \in disk'.done \ disk.done \/ disk'.failed[s] > disk.failed[s] =>
          s = disk.step ]_disk

\* A step whose failed attempts reached max_iterations is not completed any
\* more, by whichever caller.
LimitHolds ==
  [][ \A s \in disk'.done \ disk.done :
        MaxIter[s] = 0 \/ disk.failed[s] < MaxIter[s] ]_disk

---------------------------------------------------------------------------
(* Refinement: a production run without failure branches implements        *)
(* GateApproval.  Until the outbox's event is in the log the run still is, *)
(* for a reader, at the step the event decides.                            *)

Pending ==
  /\ disk.outbox.event.id # 0
  /\ ~ \E i \in DOMAIN log : log[i].id = disk.outbox.event.id

VisibleStep ==
  IF disk.rev = 0 THEN 1
  ELSE IF Pending THEN disk.outbox.event.step
  ELSE disk.step

Trail == [i \in DOMAIN log |-> [step |-> log[i].step, outcome |-> log[i].outcome]]

Approval == INSTANCE GateApproval WITH trail <- Trail, pos <- VisibleStep

\* The audit log and the visible position move together, step by step along
\* the pipeline.
ImplementsApproval == Approval!Spec

---------------------------------------------------------------------------
(* Liveness *)

\* A call that was loaded runs to its end, clients call again, and the sink a
\* caller writes to works again and again; leases run out.
Fairness ==
  /\ \A p \in Callers :
       /\ WF_vars(Create(p)) /\ WF_vars(ClearOutbox(p)) /\ WF_vars(Prepare(p))
       /\ WF_vars(Evaluate(p) \/ BeginCheck(p)) /\ WF_vars(EndCheck(p))
       /\ WF_vars(SaveResult(p)) /\ WF_vars(SaveResumed(p))
       /\ SF_vars(AppendOutbox(p)) /\ WF_vars(LoadToAdvance(p))
  /\ WF_vars(LeaseExpires)

FairSpec == Spec /\ Fairness

\* A candidate that was saved before a crash or a failed append is announced
\* and cleared in the end, unless the log was torn (docs/PIPELINES.md:
\* "retrying the advance flushes the same idempotent event").
OutboxDrains ==
  disk.outbox.event.id # 0 ~> disk.outbox.event.id = 0 \/ torn # {}
=============================================================================
