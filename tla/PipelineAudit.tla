---------------------------- MODULE PipelineAudit ----------------------------
(***************************************************************************)
(* Why the audit log and the state file of a production run agree: what    *)
(* each caller's copy knows about the file, at each point of a call, as    *)
(* long as nobody saved in between.                                        *)
(***************************************************************************)
EXTENDS PipelineCopies

\* Every event there is: written, owed, or about to be saved.
Carried ==
  {log[i] : i \in DOMAIN log} \cup {disk.outbox.event} \cup {mem[p].outbox.event : p \in Callers}

\* The id of an event names it.
EventsNamed ==
  /\ \A e \in Carried : e.id <= fresh
  /\ \A e, f \in Carried : e.id # 0 /\ e.id = f.id => e = f

\* The run r in a copy at the point "at" continues the run d of the file.
Extends(r, d) ==
  /\ d.done \subseteq r.done /\ d.skipped \subseteq r.skipped
  /\ \A s \in Steps : d.failed[s] <= r.failed[s]
  /\ r.step # 0 => d.step # 0 /\ d.step <= r.step
  /\ \A s \in r.done \ d.done :
       s = d.step /\ r.outbox.event.step = s /\ r.outbox.event.outcome = "gate_passed"
  /\ \A s \in Steps : r.failed[s] > d.failed[s] =>
       /\ s = d.step
       /\ (\A t \in Steps : FailTo[t] = 0) =>
            r.outbox.event.step = s /\ r.outbox.event.outcome = "gate_failed"

\* A copy taken from the revision that is still in the file.
Fresh(r, at) ==
  /\ at # "save" => SameRun(r, disk)
  /\ at = "save" => Extends(r, disk)
  /\ at \in {"flush", "append", "resume"} => r.outbox = disk.outbox
  /\ at \in {"ready", "verify", "checking", "save"} => disk.outbox = NoOutbox
  /\ at \in {"reflush", "clear"} => \E i \in DOMAIN log : log[i] = disk.outbox.event

CopyOK(r, at) ==
  /\ r.rev <= disk.rev
  /\ at = "create" => r.rev = 0 /\ SameRun(r, [NoRun EXCEPT !.step = 1]) /\ r.outbox = NoOutbox
  /\ at \notin {"idle", "create"} => r.rev > 0
  /\ at \in {"idle", "ready", "verify", "checking", "reflush", "clear"} => r.outbox = NoOutbox
  /\ at \in {"flush", "append", "save"} => r.outbox.event.id # 0
  /\ at = "resume" => r.status = "failed"
  /\ at \notin {"idle", "create"} /\ r.rev = disk.rev => Fresh(r, at)

CopiesAgree == \A p \in Callers : CopyOK(mem[p], pc[p])

FileOK ==
  /\ disk.rev = 0 => disk = NoRun
  /\ disk.outbox.event.id = 0 => disk.outbox = NoOutbox

\* What makes the audit log and the state file agree, as one inductive
\* invariant (service.py, the order of save, append and clear; store.py, the
\* revision check of save; audit.py, the search for the event id): events are
\* written once, completed steps and (without failure branches) failed gates
\* have their event, because each copy that nobody overtook continues the file
\* in a way its outbox accounts for.
AuditInv ==
  /\ EventsNamed
  /\ CopiesAgree
  /\ FileOK
  /\ EventsWrittenOnce
  /\ CompletionsAudited
  /\ (\A t \in Steps : FailTo[t] = 0) => FailuresAudited

---------------------------------------------------------------------------
(* What the events say.  Without failure branches each event tells where    *)
(* the run went; with them a failure is announced as a success (MCBranch).  *)

NoBranch == \A t \in Steps : FailTo[t] = 0

\* The events the file stands for: written, or owed by its outbox.
Saved == {log[i] : i \in DOMAIN log} \cup {disk.outbox.event}

\* The event e tells how the run d became the run r.
Tells(e, d, r) ==
  /\ e.step = d.step
  /\ r.skipped = d.skipped
  /\ \/ /\ d.step = 0 /\ e.outcome = "gate_passed"
        /\ r.step = 0 /\ r.done = d.done /\ r.failed = d.failed
     \/ /\ d.step # 0 /\ e.outcome = "gate_passed"
        /\ r.step = NextOf[d.step] /\ r.done = d.done \cup {d.step} /\ r.failed = d.failed
     \/ /\ d.step # 0
        /\ r.done = d.done /\ r.failed = [d.failed EXCEPT ![d.step] = @ + 1]
        /\ \/ e.outcome = "gate_failed" /\ r.step = d.step
           \/ e.outcome = "gate_passed" /\ FailTo[d.step] # 0 /\ r.step = FailTo[d.step]

\* An event on its way through p's copy: new until it is saved, and the
\* verdict of the execution that the lease in the file is for.
EventOnItsWay(p) ==
  LET e == mem[p].outbox.event
  IN  /\ pc[p] \in {"flush", "append"} => e \in Saved
      /\ pc[p] = "save" =>
           /\ mem[p].lease = NoLease
           /\ e \notin Saved
           /\ \A q \in Callers \ {p} : mem[q].outbox.event # e
           /\ mem[p].rev = disk.rev => /\ e.exec \in {0, disk.lease.exec}
                                     /\ Tells(e, disk, mem[p])

\* An event with an id is a verdict; without one it is of no execution.
Verdict(e) ==
  /\ e.id # 0 => e.kind = "evaluated" /\ e.outcome \in {"gate_passed", "gate_failed"}
  /\ e.id = 0 => e.exec = 0
  /\ e.exec <= fresh

\* A run without a step did not end in a failure.
RunTells(r) ==
  /\ r.lease.exec <= fresh
  /\ Verdict(r.outbox.event)
  /\ r.step = 0 => r.status # "failed" /\ r.outbox.candidate # "failed"

\* An execution has one verdict; after it, no lease is for it any more.
ExecutionsSpent ==
  /\ \A e, f \in Saved : e.exec # 0 /\ e.exec = f.exec => e = f
  /\ \A e \in Saved : e.exec # 0 => e.exec # disk.lease.exec

\* Where the run stands after the event the outbox owes.
OutboxTells ==
  LET e == disk.outbox.event
  IN  e.id # 0 =>
        /\ e.step = 0 => disk.step = 0 /\ e.outcome = "gate_passed"
        /\ e.step # 0 /\ e.outcome = "gate_passed" /\ NoBranch =>
             disk.step = NextOf[e.step] /\ e.step \in disk.done
        /\ e.outcome = "gate_failed" => disk.step = e.step

\* Every line is a verdict but the first, which opens the log.
LogOpened ==
  /\ \A i \in DOMAIN log : Verdict(log[i])
  /\ \A i \in DOMAIN log : log[i].id = 0 =>
       log[i].kind = "started" /\ log[i].step = 1 /\ log[i].outcome = "pending_commit"
  /\ disk.rev = 0 => \A i \in DOMAIN log : log[i].id = 0
  /\ disk.rev # 0 \/ (\E p \in Callers : pc[p] = "create") => log # <<>>

Refusals(s) == {i \in DOMAIN log : log[i].step = s /\ log[i].outcome = "gate_failed"}

Owed(s) == IF Pending /\ disk.outbox.event.step = s /\ disk.outbox.event.outcome = "gate_failed"
           THEN 1 ELSE 0

\* Each failed attempt is one line, written or owed, and each passing line is
\* for a completed step.
LinesCounted ==
  /\ \A s \in Steps : Cardinality(Refusals(s)) + Owed(s) <= disk.failed[s]
  /\ \A i \in DOMAIN log :
       log[i].outcome = "gate_passed" /\ log[i].step # 0 => log[i].step \in disk.done

\* What makes the log tell the run, on top of AuditInv.
VerdictInv ==
  /\ RunTells(disk) /\ \A p \in Callers : RunTells(mem[p])
  /\ \A p \in Callers : EventOnItsWay(p)
  /\ ExecutionsSpent
  /\ OutboxTells
  /\ LogOpened
  /\ NoBranch => LinesCounted
  /\ GatesNotBypassed

\* The three invariants together: what is known of a production run.
RunInv == CopiesInv /\ AuditInv /\ VerdictInv
=============================================================================
