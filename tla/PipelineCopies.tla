--------------------------- MODULE PipelineCopies ---------------------------
(***************************************************************************)
(* What a caller's copy of a run says about the state file, in a run of    *)
(* either profile: as long as nobody saved since it was taken, the copy    *)
(* is the file or a result for the step the file is at, and the lease it   *)
(* was claimed with keeps every other verifier of that step out.           *)
(***************************************************************************)
EXTENDS PipelineService

SameRun(r, d) ==
  /\ r.done = d.done /\ r.skipped = d.skipped /\ r.failed = d.failed
  /\ r.step = d.step

\* The run r is the run d after one attempt at the step of d, whose limit was
\* not reached if the attempt succeeded.
Attempted(d, r) ==
  /\ d.skipped \subseteq r.skipped
  /\ r.step # 0 => d.step # 0 /\ d.step <= r.step
  /\ \/ d.step = 0 /\ r.done = d.done /\ r.failed = d.failed
     \/ /\ d.step # 0 /\ ~LimitReached(d)
        /\ r.done = d.done \cup {d.step} /\ r.failed = d.failed
     \/ /\ d.step # 0
        /\ r.done = d.done /\ r.failed = [d.failed EXCEPT ![d.step] = @ + 1]

\* A caller that has passed Prepare and not yet saved.
Verifying(p) == pc[p] \in {"verify", "checking"} /\ mem[p].step \in Checked

\* A result that can still be saved, for a step with a check_command.
Landing(p) == pc[p] = "save" /\ mem[p].rev = disk.rev /\ disk.step \in Checked

CopyCurrent(p) ==
  /\ mem[p].rev <= disk.rev
  /\ pc[p] = "create" => /\ mem[p].rev = 0 /\ mem[p].lease = NoLease
                         /\ mem[p].done = {} /\ mem[p].failed = NoRun.failed
  /\ pc[p] \notin {"idle", "create", "save"} /\ mem[p].rev = disk.rev =>
       SameRun(mem[p], disk) /\ mem[p].lease = disk.lease
  /\ pc[p] = "save" /\ mem[p].rev = disk.rev => Attempted(disk, mem[p])
  /\ pc[p] = "checking" => mem[p].step \in Checked /\ ~LimitReached(mem[p])

\* The lease of a verifier is the one it claimed; while it lasts and the run
\* is at that step, it is the lease in the file.
LeaseKept(p) ==
  /\ Verifying(p) =>
       /\ mem[p].lease.step = mem[p].step /\ mem[p].lease.exec # 0
       /\ mem[p].lease.claim = mem[p].rev
       /\ disk.step = 0 \/ mem[p].step <= disk.step
  /\ Verifying(p) /\ disk.step = mem[p].step =>
       Expired(mem[p].lease) \/ disk.lease = mem[p].lease
  /\ Landing(p) => disk.lease.claim = disk.rev

\* One claim per revision.
ClaimsApart ==
  \A p, q \in Callers :
    p # q /\ (Verifying(p) \/ Landing(p)) /\ (Verifying(q) \/ Landing(q)) =>
      mem[p].rev # mem[q].rev

\* VerifierExclusive, from the claim on.
ClaimsExclusive ==
  \A p, q \in Callers :
    p # q /\ Verifying(p) /\ Verifying(q) /\ mem[p].step = mem[q].step =>
      Expired(mem[p].lease) \/ Expired(mem[q].lease)

\* What makes leases exclusive and results current, as one inductive invariant
\* (store.py, save and claim_verification; engine.py, complete_and_advance).
CopiesInv ==
  /\ disk.rev = 0 => disk = NoRun
  /\ \A p \in Callers : CopyCurrent(p)
  /\ \A p \in Callers : LeaseKept(p)
  /\ ClaimsApart
  /\ ClaimsExclusive
=============================================================================
