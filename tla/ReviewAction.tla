----------------------------- MODULE ReviewAction -----------------------------
(***************************************************************************)
(* The GitHub action (action.yml) on one pull request.  Every push starts  *)
(* a job with a checkout of its own; jobs may overlap and may be run       *)
(* again.  A job checks its checkout, compares the registry with that of   *)
(* the base branch of the moment, collects evidence and a summary, updates *)
(* a comment of the pull request (integrations/github_pr_comment.py) and   *)
(* ends with the exit code of the check.  People comment as well.          *)
(***************************************************************************)
EXTENDS SkillCheck, Sequences

CONSTANTS
  Inputs,    \* how the action may be configured; summary stands for
             \* reviewer-summary and dashboard-snapshot, comments are always on
  Bases,     \* what the base branch may hold
  Patches,   \* what the pull request may make of it
  Jobs,      \* jobs are 1 .. Jobs, one for every push
  PageSize,  \* comments on a page (100 on GitHub)
  MaxEvents  \* bound on re-runs, faults and what people do

ASSUME ReviewAssumption ==
  /\ Configs \subseteq Nat /\ Configs # {} /\ Jobs \in Nat /\ MaxEvents \in Nat
  /\ PageSize \in Nat \ {0}
  /\ \A b \in Bases : IsTree(b)

VARIABLES
  inputs,    \* summary, lock, pack, failOn
  base,      \* the tree of the base branch
  jobs,      \* the jobs
  comments,  \* the comments of the pull request, oldest first
  calm,      \* no two jobs had the comments in hand at the same time, and none
             \* was deleted under a listing
  left       \* events left

vars == <<inputs, base, jobs, comments, calm, left>>

Markers == {"marked", "plain"}
None == [none |-> TRUE]

\* A job: its event (base and patch), its run; the exit code of the check; base
\* and difference it found; evidence; body of its comment; comments it listed;
\* whether it posted, and nobody touched a comment since it began to list.
NoJob ==
  [ pc |-> "none", was |-> None, patch |-> None, run |-> 0, exit |-> FALSE, found |-> None,
    diff |-> None, evidence |-> None, body |-> None, seen |-> <<>>, page |-> 0,
    posted |-> FALSE, quiet |-> FALSE, faulty |-> FALSE ]

\* The commit that a job checks out merges the pull request into the base branch.
Merged(b, p) ==
  LET kept == (DOMAIN b.skills \ p.drop) \cup DOMAIN p.set
  IN  [ skills   |-> [k \in kept |-> IF k \in DOMAIN p.set THEN p.set[k] ELSE b.skills[k]],
        unparsed |-> b.unparsed \cup p.unparsed,
        tied     |-> b.tied \cup p.tied,
        lock     |-> IF p.relock
                     THEN [k \in {k \in kept : k[1] = Main} |->
                             IF k \in DOMAIN p.set THEN p.set[k].hash ELSE b.skills[k].hash]
                     ELSE b.lock ]

Tree(job) == Merged(job.was, job.patch)
Opts == inputs

Init ==
  /\ inputs \in Inputs
  /\ base \in Bases
  /\ jobs = [j \in 1 .. Jobs |-> NoJob]
  /\ comments = <<>>
  /\ calm = TRUE
  /\ left = MaxEvents

Set(j, job) == jobs' = [jobs EXCEPT ![j] = job]
At(j, step) == jobs[j].pc = step

---------------------------------------------------------------------------
(* The repository *)

\* pull_request: the first free job takes the event.
Push ==
  /\ \E p \in Patches, j \in 1 .. Jobs :
       /\ At(j, "none") /\ \A i \in 1 .. j - 1 : ~At(i, "none")
       /\ Set(j, [NoJob EXCEPT !.pc = "check", !.was = base, !.patch = p])
  /\ UNCHANGED <<inputs, base, comments, calm, left>>

MoveBase ==
  /\ left > 0 /\ left' = left - 1
  /\ base' \in Bases \ {base}
  /\ UNCHANGED <<inputs, jobs, comments, calm>>

\* A job that is over is run again with the event it had.
Rerun ==
  /\ left > 0 /\ left' = left - 1
  /\ \E j \in 1 .. Jobs :
       /\ At(j, "green") \/ At(j, "red")
       /\ Set(j, [NoJob EXCEPT !.pc = "check", !.was = jobs[j].was, !.patch = jobs[j].patch,
                               !.run = jobs[j].run + 1])
  /\ UNCHANGED <<inputs, base, comments, calm>>

---------------------------------------------------------------------------
(* The steps of a job in its own checkout *)

Own == UNCHANGED <<inputs, base, comments, calm, left>>

\* A step that fails ends the job: the steps after it are skipped.
Goes(j, job) == Set(j, job) /\ Own

\* "Run skill checks": the exit code is put down, the step succeeds.
Check ==
  \E j \in 1 .. Jobs :
    /\ At(j, "check")
    /\ Goes(j, [jobs[j] EXCEPT !.pc   = "diff",
                               !.exit = ShouldFail(Diagnostics(Tree(jobs[j]), Opts), Opts)])

\* "Build registry diff": the base branch is fetched now.
BuildDiff ==
  \E j \in 1 .. Jobs :
    /\ At(j, "diff")
    /\ LET t  == Tree(jobs[j])
           ok == HasRegistry(base) /\ HasRegistry(t)
           d  == Diff(base.skills, t.skills)
       IN  Goes(j, IF ok THEN [jobs[j] EXCEPT !.pc    = IF Opts.summary THEN "evidence" ELSE "list",
                                              !.found = base, !.diff = d, !.body = [diff |-> d]]
                   ELSE [jobs[j] EXCEPT !.pc = "red"])

\* build_dashboard_snapshot: what is kept of the bundle.
Snapshot(diags, bundle) == [status |-> Status(diags), bundle |-> bundle]

\* "Export evidence bundle", "Build dashboard snapshot": the bundle hash covers
\* the time it was made.
ExportEvidence ==
  \E j \in 1 .. Jobs :
    /\ At(j, "evidence")
    /\ Goes(j, [jobs[j] EXCEPT !.pc       = "summary",
                               !.evidence = Snapshot(DiagnosticsAgain(Tree(jobs[j]), Opts),
                                                      <<j, jobs[j].run>>)])

\* build_reviewer_summary, of the files that the earlier steps have left.
Summary(job) ==
  LET t == Tree(job)
  IN  [ diff   |-> job.diff,
        check  |-> Status(Diagnostics(t, Opts)),
        trace  |-> Trace(t, Opts),
        bundle |-> job.evidence.bundle ]

\* "Build reviewer summary", which replaces the body.
Summarise ==
  \E j \in 1 .. Jobs :
    /\ At(j, "summary")
    /\ Goes(j, [jobs[j] EXCEPT !.pc = "list", !.body = Summary(jobs[j])])

\* "Fail after SkillOps artifacts"
Gate ==
  \E j \in 1 .. Jobs :
    /\ At(j, "gate")
    /\ Goes(j, [jobs[j] EXCEPT !.pc = IF jobs[j].exit THEN "red" ELSE "green"])

---------------------------------------------------------------------------
(* upsert_marker_comment *)

Listing(j) == jobs[j].pc \in {"list", "write"} /\ jobs[j].page > 0

\* Mutated IsLast: one page is enough.
IsLastAlways(batch) == TRUE

\* A page that is not full is the last one.
IsLast(batch) == Len(batch) < PageSize

\* list_comments: one page, and the next one unless it was the last.
List ==
  \E j \in 1 .. Jobs :
    /\ At(j, "list")
    /\ LET page  == jobs[j].page + 1
           batch == SubSeq(comments, jobs[j].page * PageSize + 1,
                           IF page * PageSize < Len(comments) THEN page * PageSize ELSE Len(comments))
       IN  Set(j, [jobs[j] EXCEPT !.pc    = IF IsLast(batch) THEN "write" ELSE "list",
                                  !.seen  = @ \o batch,
                                  !.page  = page,
                                  !.quiet = IF page = 1 THEN TRUE ELSE @])
    /\ calm' = (calm /\ \A i \in (1 .. Jobs) \ {j} : ~Listing(i))
  /\ UNCHANGED <<inputs, base, comments, left>>

IsOurs(comment) == comment.text = "marked" /\ comment.by = "bot"

\* Where the comments with the marker, by an allowed author, are.
Matching(seen) == {n \in DOMAIN seen : IsOurs(seen[n])}

\* Mutated Existing: the oldest one is taken.
ExistingFirst(seen) == seen[CHOOSE n \in Matching(seen) : \A m \in Matching(seen) : n <= m]

\* The newest of them.
Existing(seen) == seen[CHOOSE n \in Matching(seen) : \A m \in Matching(seen) : m <= n]

\* A comment of the action: a body with the marker in front of it.
Ours(body, id) == [id |-> id, by |-> "bot", text |-> "marked", body |-> body]
IdsOf(seq) == {seq[n].id : n \in DOMAIN seq}
\* An id that no comment has and no job remembers.
NextId ==
  LET used == IdsOf(comments) \cup UNION {IdsOf(jobs[j].seen) : j \in 1 .. Jobs}
  IN  CHOOSE n \in 1 .. Cardinality(used) + 1 : n \notin used

Replaced(id, body) ==
  [n \in DOMAIN comments |-> IF comments[n].id = id THEN [comments[n] EXCEPT !.body = body]
                             ELSE comments[n]]

\* The comment is as it should be, is replaced, or is made.
Request(job) ==
  IF Matching(job.seen) = {} THEN "create"
  ELSE IF Existing(job.seen).body = job.body THEN "noop" ELSE "update"

\* The request reaches GitHub; an answer that is lost ends the job as well.
Write ==
  \E j \in 1 .. Jobs, lost \in BOOLEAN :
    /\ At(j, "write")
    /\ LET job == jobs[j]
           req == Request(job)
           ok  == req = "update" => Existing(job.seen).id \in IdsOf(comments)
       IN  /\ comments' = CASE req = "create" -> Append(comments, Ours(job.body, NextId))
                            [] req = "update" -> Replaced(Existing(job.seen).id, job.body)
                            [] req = "noop"   -> comments
           /\ jobs' = [i \in 1 .. Jobs |->
                         IF i = j THEN [job EXCEPT !.pc     = IF ok /\ ~lost THEN "gate" ELSE "red",
                                                   !.posted = ok /\ ~lost, !.faulty = ~ok \/ lost]
                         ELSE [jobs[i] EXCEPT !.quiet = @ /\ req = "noop"]]
           /\ lost => req # "noop"
    /\ IF lost THEN left > 0 /\ left' = left - 1 ELSE UNCHANGED left
  /\ UNCHANGED <<inputs, base, calm>>

\* An error of any request of the step, before anything is written.
RequestFails ==
  /\ left > 0 /\ left' = left - 1
  /\ \E j \in 1 .. Jobs :
       /\ jobs[j].pc \in {"list", "write"}
       /\ Set(j, [jobs[j] EXCEPT !.pc = "red", !.faulty = TRUE])
  /\ UNCHANGED <<inputs, base, comments, calm>>

---------------------------------------------------------------------------
(* People *)

Touched == jobs' = [j \in 1 .. Jobs |-> [jobs[j] EXCEPT !.quiet = FALSE]]

\* A comment, which may quote the marker.
HumanComments ==
  /\ left > 0 /\ left' = left - 1
  /\ \E text \in Markers :
       comments' = Append(comments, [id |-> NextId, by |-> "human", text |-> text, body |-> None])
  /\ UNCHANGED <<inputs, base, jobs, calm>>

HumanEdits ==
  /\ left > 0 /\ left' = left - 1
  /\ \E n \in DOMAIN comments : \E text \in {"plain", comments[n].text} :
       comments' = [comments EXCEPT ![n].text = text, ![n].body = None]
  /\ Touched
  /\ UNCHANGED <<inputs, base, calm>>

Without(n) == [m \in 1 .. Len(comments) - 1 |-> comments[IF m < n THEN m ELSE m + 1]]

HumanDeletes ==
  /\ left > 0 /\ left' = left - 1
  /\ \E n \in DOMAIN comments : comments' = Without(n)
  /\ calm' = (calm /\ \A j \in 1 .. Jobs : ~Listing(j))
  /\ Touched
  /\ UNCHANGED <<inputs, base>>

Next ==
  \/ Push \/ MoveBase \/ Rerun
  \/ Check \/ BuildDiff \/ ExportEvidence \/ Summarise \/ Gate
  \/ List \/ Write \/ RequestFails
  \/ HumanComments \/ HumanEdits \/ HumanDeletes

Spec == Init /\ [][Next]_vars

---------------------------------------------------------------------------
(* Properties *)

\* "repeat runs update the previous comment instead of posting duplicates"
\* (docs/github-action.md:106-107): true through lost answers, failed requests,
\* re-runs and comments of other people on any page, unless two jobs have the
\* comments in hand at once or one is deleted while a job lists them.
OneComment == calm => Cardinality({n \in DOMAIN comments : IsOurs(comments[n])}) <= 1

\* Even among duplicates a job leaves its own findings in the comment a later job
\* will update: the newest.  They stay until somebody touches the comments.
LatestShown ==
  \A j \in 1 .. Jobs : jobs[j].posted /\ jobs[j].quiet =>
    \E n \in Matching(comments) :
      /\ \A m \in Matching(comments) : m <= n
      /\ comments[n].body = jobs[j].body

\* The skills whose presence, content, governance or status differs.
Moved(old, new) ==
  {k \in DOMAIN old \cup DOMAIN new :
     k \in DOMAIN old \cap DOMAIN new =>
       <<old[k].hash, old[k].governance, old[k].status>>
         # <<new[k].hash, new[k].governance, new[k].status>>}

\* Apart from the skills that others have changed in the base branch since the
\* checkout, the difference lists exactly those that the pull request adds, takes
\* away or changes, in whatever configuration, under whatever shared id.  What
\* others have changed it may list as well: the base is fetched again.
OwnChanges ==
  \A j \in 1 .. Jobs : jobs[j].diff # None =>
    LET old    == jobs[j].was.skills
        p      == jobs[j].patch
        others == Moved(old, jobs[j].found.skills)
        own    == ((p.drop \cap DOMAIN old) \ DOMAIN p.set)
                  \cup {k \in DOMAIN p.set :
                          k \in DOMAIN old =>
                            <<p.set[k].hash, p.set[k].governance, p.set[k].status>>
                              # <<old[k].hash, old[k].governance, old[k].status>>}
    IN  Listed(jobs[j].diff) \ others = own \ others

\* The three checks of a job speak with one voice, at the threshold the summary
\* assumes: if the comment says "fail", so do the evidence and the job itself, and
\* if not, the job is red only for drift of the lock.
VerdictsAgree ==
  \A j \in 1 .. Jobs : jobs[j].posted /\ Opts.summary /\ Opts.failOn = "error" =>
    /\ jobs[j].body.check = "fail" <=> jobs[j].evidence.status = "fail"
    /\ jobs[j].body.check = "fail" => ~At(j, "green")
    /\ At(j, "red") /\ jobs[j].body.check # "fail" => "SO007" \in jobs[j].body.trace
=============================================================================
