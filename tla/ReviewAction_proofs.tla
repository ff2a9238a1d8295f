------------------------- MODULE ReviewAction_proofs -------------------------
(***************************************************************************)
(* The GitHub action on one pull request, for any number of jobs, events   *)
(* and comments, any size of a page and any revisions: the comment that    *)
(* the action keeps, the difference it shows and the verdicts of a job.    *)
(***************************************************************************)
EXTENDS ReviewAction, FiniteSetTheorems, WellFoundedInduction, TLAPS

---------------------------------------------------------------------------
(* Sequences *)

IsList(s) == \E S : s \in Seq(S)

LEMMA ListIs ==
  ASSUME NEW s, IsList(s)
  PROVE  Len(s) \in Nat /\ DOMAIN s = 1 .. Len(s)
BY DEF IsList

LEMMA ListEmpty == IsList(<<>>) /\ Len(<<>>) = 0
BY DEF IsList

LEMMA ListAppend ==
  ASSUME NEW s, IsList(s), NEW x
  PROVE  /\ IsList(Append(s, x)) /\ Len(Append(s, x)) = Len(s) + 1
         /\ \A n \in 1 .. Len(s) : Append(s, x)[n] = s[n]
         /\ Append(s, x)[Len(s) + 1] = x
<1>1. PICK S : s \in Seq(S)
  BY DEF IsList
<1>2. s \in Seq(S \cup {x})
  BY <1>1
<1>3. Append(s, x) \in Seq(S \cup {x})
  BY <1>2
<1> QED
  BY <1>2, <1>3 DEF IsList

LEMMA ListConcat ==
  ASSUME NEW s, IsList(s), NEW t, IsList(t)
  PROVE  /\ IsList(s \o t) /\ Len(s \o t) = Len(s) + Len(t)
         /\ \A n \in 1 .. Len(s) : (s \o t)[n] = s[n]
         /\ \A n \in 1 .. Len(t) : (s \o t)[Len(s) + n] = t[n]
<1>1. PICK S : s \in Seq(S)
  BY DEF IsList
<1>2. PICK T : t \in Seq(T)
  BY DEF IsList
<1>3. s \in Seq(S \cup T) /\ t \in Seq(S \cup T)
  BY <1>1, <1>2
<1>4. s \o t \in Seq(S \cup T)
  BY <1>3
<1> QED
  BY <1>3, <1>4 DEF IsList

LEMMA ListSub ==
  ASSUME NEW s, IsList(s), NEW a \in Nat \ {0}, NEW b \in 0 .. Len(s)
  PROVE  /\ IsList(SubSeq(s, a, b))
         /\ Len(SubSeq(s, a, b)) = IF a <= b THEN b - a + 1 ELSE 0
         /\ \A n \in 1 .. Len(SubSeq(s, a, b)) : SubSeq(s, a, b)[n] = s[a + n - 1]
<1>1. PICK S : s \in Seq(S)
  BY DEF IsList
<1>2. SubSeq(s, a, b) \in Seq(S)
  BY <1>1
<1> QED
  BY <1>1, <1>2 DEF IsList

LEMMA ListFcn ==
  ASSUME NEW n \in Nat, NEW S, NEW s \in [1 .. n -> S]
  PROVE  IsList(s) /\ Len(s) = n
<1>1. s \in Seq(S) /\ DOMAIN s = 1 .. n
  OBVIOUS
<1>2. Len(s) = n
  BY <1>1
<1> QED
  BY <1>1, <1>2 DEF IsList

\* Of a set of positions there is a greatest one.
LEMMA GreatestMember ==
  ASSUME NEW n \in Nat, NEW T, T \subseteq 1 .. n, T # {}
  PROVE  \E x \in T : \A y \in T : y <= x
<1> DEFINE R == OpToRel(<, Nat)
           U == {k \in Nat : n - k \in T}
<1>1. IsWellFoundedOn(R, Nat)
  BY NatLessThanWellFounded
<1>2. \A x, y \in Nat : y < x => <<y, x>> \in R
  BY DEF OpToRel
<1>3. \A x \in T : x \in Nat /\ n - x \in U
  <2> SUFFICES ASSUME NEW x \in T PROVE x \in Nat /\ n - x \in U
    OBVIOUS
  <2>1. x \in Nat /\ n - x \in Nat /\ n - (n - x) = x
    OBVIOUS
  <2> QED
    BY <2>1
<1>4. U # {} /\ U \subseteq Nat
  BY <1>3
<1>5. \A k \in U : n - k \in T
  OBVIOUS
<1> HIDE DEF R, U
<1>6. PICK k \in U : \A l \in U : ~(<<l, k>> \in R)
  BY <1>1, <1>4, WFMin
<1>7. \A l \in U : k <= l
  <2>1. \A l \in U : k \in Nat /\ l \in Nat /\ ~(l < k)
    BY <1>2, <1>4, <1>6
  <2> QED
    BY <2>1
<1>8. \A y \in T : y <= n - k
  BY <1>3, <1>4, <1>7
<1> QED
  BY <1>5, <1>8

---------------------------------------------------------------------------
(* The states of a job and the shape of the comments *)

IsJob(job) ==
  /\ DOMAIN job = DOMAIN NoJob
  /\ job.page \in Nat
  /\ IsList(job.seen)
  /\ job.posted \in BOOLEAN /\ job.quiet \in BOOLEAN

IsComment(comment) == DOMAIN comment = {"id", "by", "text", "body"}

TypeInv ==
  /\ calm \in BOOLEAN
  /\ DOMAIN jobs = 1 .. Jobs
  /\ \A j \in 1 .. Jobs : IsJob(jobs[j])
  /\ IsList(comments)
  /\ \A n \in DOMAIN comments : IsComment(comments[n])

\* How far a job has listed, and when it has posted.
Paged(job) ==
  /\ job.pc \in {"none", "check", "diff", "evidence", "summary"} => job.page = 0 /\ job.seen = <<>>
  /\ job.pc = "list" => Len(job.seen) = job.page * PageSize
  /\ job.pc = "write" => job.page > 0
  /\ job.posted => job.pc \in {"gate", "green", "red"}

PageInv == \A j \in 1 .. Jobs : Paged(jobs[j])

\* What the next page brings (List).
Batch(j) ==
  LET page == jobs[j].page + 1
  IN  SubSeq(comments, jobs[j].page * PageSize + 1,
             IF page * PageSize < Len(comments) THEN page * PageSize ELSE Len(comments))

LEMMA BatchIs ==
  ASSUME TypeInv, NEW j \in 1 .. Jobs
  PROVE  /\ IsList(Batch(j)) /\ Len(Batch(j)) \in 0 .. PageSize
         /\ jobs[j].page * PageSize \in Nat
         /\ (jobs[j].page + 1) * PageSize = jobs[j].page * PageSize + PageSize
         /\ jobs[j].page * PageSize <= Len(comments) =>
              /\ jobs[j].page * PageSize + Len(Batch(j)) <= Len(comments)
              /\ IsLast(Batch(j)) => jobs[j].page * PageSize + Len(Batch(j)) = Len(comments)
         /\ \A n \in 1 .. Len(Batch(j)) : Batch(j)[n] = comments[jobs[j].page * PageSize + n]
<1> DEFINE p == jobs[j].page
           k == p * PageSize
           l == Len(comments)
           b == IF k + PageSize < l THEN k + PageSize ELSE l
<1>1. p \in Nat /\ PageSize \in Nat \ {0} /\ l \in Nat /\ IsList(comments)
  BY ReviewAssumption, ListIs DEF TypeInv, IsJob
<1> HIDE DEF p
<1>2. k \in Nat /\ (p + 1) * PageSize = k + PageSize
  BY <1>1
<1> HIDE DEF k, l
<1>3. b \in 0 .. l /\ k + 1 \in Nat \ {0}
  BY <1>1, <1>2
<1>4. Batch(j) = SubSeq(comments, k + 1, b)
  BY <1>2 DEF Batch, p, k, l
<1>5. /\ IsList(Batch(j))
      /\ Len(Batch(j)) = IF k + 1 <= b THEN b - (k + 1) + 1 ELSE 0
      /\ \A n \in 1 .. Len(Batch(j)) : Batch(j)[n] = comments[k + 1 + n - 1]
  BY <1>1, <1>3, <1>4, ListSub DEF l
<1>6. Len(Batch(j)) \in 0 .. PageSize
  BY <1>1, <1>2, <1>5
<1>7. k <= l => /\ k + Len(Batch(j)) <= l
                /\ IsLast(Batch(j)) => k + Len(Batch(j)) = l
  BY <1>1, <1>2, <1>5 DEF IsLast
<1>8. \A n \in 1 .. Len(Batch(j)) : Batch(j)[n] = comments[k + n]
  BY <1>2, <1>5, <1>6
<1> QED
  BY <1>2, <1>5, <1>6, <1>7, <1>8 DEF p, k, l

---------------------------------------------------------------------------
(* The steps *)

LEMMA SetIs ==
  ASSUME TypeInv, NEW j \in 1 .. Jobs, NEW job, Set(j, job)
  PROVE  /\ DOMAIN jobs' = 1 .. Jobs
         /\ jobs'[j] = job
         /\ \A i \in 1 .. Jobs : i # j => jobs'[i] = jobs[i]
BY DEF TypeInv, Set

\* A job that has not begun.
LEMMA NoJobIs ==
  /\ IsJob(NoJob) /\ NoJob.page = 0 /\ NoJob.seen = <<>> /\ NoJob.posted = FALSE
  /\ NoJob.diff = None /\ NoJob.pc = "none"
BY ListEmpty DEF IsJob, NoJob

\* What a job does by itself: it touches no comment, and neither begins to list
\* nor to post.
Apart(old, new) ==
  /\ IsJob(new) /\ Paged(new)
  /\ ~(new.pc \in {"list", "write"} /\ new.page > 0)
  /\ new.posted => old.posted /\ new.quiet = old.quiet /\ new.body = old.body

OwnStep ==
  Push \/ Rerun \/ Check \/ BuildDiff \/ ExportEvidence \/ Summarise \/ Gate \/ RequestFails

LEMMA OwnStepIs ==
  ASSUME TypeInv, PageInv, OwnStep
  PROVE  /\ comments' = comments /\ calm' = calm /\ inputs' = inputs
         /\ DOMAIN jobs' = 1 .. Jobs
         /\ \E j \in 1 .. Jobs : /\ Apart(jobs[j], jobs'[j])
                                 /\ \A i \in 1 .. Jobs : i # j => jobs'[i] = jobs[i]
<1>1. ASSUME NEW j \in 1 .. Jobs, NEW job, Set(j, job), Apart(jobs[j], job)
      PROVE  /\ DOMAIN jobs' = 1 .. Jobs
             /\ \E i \in 1 .. Jobs : /\ Apart(jobs[i], jobs'[i])
                                     /\ \A h \in 1 .. Jobs : h # i => jobs'[h] = jobs[h]
  BY <1>1, SetIs
<1>2. \A j \in 1 .. Jobs : IsJob(jobs[j]) /\ Paged(jobs[j])
  BY DEF TypeInv, PageInv
<1>3. 0 * PageSize = 0
  BY ReviewAssumption
<1>4. CASE Push
  <2>1. PICK p \in Patches, j \in 1 .. Jobs :
          Set(j, [NoJob EXCEPT !.pc = "check", !.was = base, !.patch = p])
    BY <1>4 DEF Push
  <2>2. Apart(jobs[j], [NoJob EXCEPT !.pc = "check", !.was = base, !.patch = p])
    BY ListEmpty DEF Apart, IsJob, Paged, NoJob
  <2> QED
    BY <1>1, <1>4, <2>1, <2>2 DEF Push
<1>5. CASE Rerun
  <2>1. PICK j \in 1 .. Jobs :
          Set(j, [NoJob EXCEPT !.pc = "check", !.was = jobs[j].was, !.patch = jobs[j].patch,
                               !.run = jobs[j].run + 1])
    BY <1>5 DEF Rerun
  <2>2. Apart(jobs[j], [NoJob EXCEPT !.pc = "check", !.was = jobs[j].was,
                                     !.patch = jobs[j].patch, !.run = jobs[j].run + 1])
    BY ListEmpty DEF Apart, IsJob, Paged, NoJob
  <2> QED
    BY <1>1, <1>5, <2>1, <2>2 DEF Rerun
<1>6. CASE Check
  <2>1. PICK j \in 1 .. Jobs :
          /\ At(j, "check")
          /\ Set(j, [jobs[j] EXCEPT
                       !.pc = "diff",
                       !.exit = ShouldFail(Diagnostics(Tree(jobs[j]), Opts), Opts)])
    BY <1>6 DEF Check, Goes
  <2>2. Apart(jobs[j], [jobs[j] EXCEPT
                          !.pc = "diff",
                          !.exit = ShouldFail(Diagnostics(Tree(jobs[j]), Opts), Opts)])
    BY <1>2, <2>1 DEF Apart, IsJob, Paged, At, NoJob
  <2> QED
    BY <1>1, <1>6, <2>1, <2>2 DEF Check, Goes, Own
<1>7. CASE BuildDiff
  <2>1. PICK j \in 1 .. Jobs :
          /\ At(j, "diff")
          /\ \E d, pc : /\ pc \in {"evidence", "list"}
                        /\ \/ Set(j, [jobs[j] EXCEPT !.pc = pc, !.found = base, !.diff = d,
                                                     !.body = [diff |-> d]])
                           \/ Set(j, [jobs[j] EXCEPT !.pc = "red"])
    BY <1>7, Zenon DEF BuildDiff, Goes
  <2>2. \A d : \A pc \in {"evidence", "list"} :
          Apart(jobs[j], [jobs[j] EXCEPT !.pc = pc, !.found = base, !.diff = d,
                                         !.body = [diff |-> d]])
    BY <1>2, <1>3, <2>1, ListEmpty DEF Apart, IsJob, Paged, At, NoJob
  <2>3. Apart(jobs[j], [jobs[j] EXCEPT !.pc = "red"])
    BY <1>2, <2>1 DEF Apart, IsJob, Paged, At, NoJob
  <2> QED
    BY <1>1, <1>7, <2>1, <2>2, <2>3 DEF BuildDiff, Goes, Own
<1>8. CASE ExportEvidence
  <2>1. PICK j \in 1 .. Jobs :
          /\ At(j, "evidence")
          /\ \E e : Set(j, [jobs[j] EXCEPT !.pc = "summary", !.evidence = e])
    BY <1>8 DEF ExportEvidence, Goes
  <2>2. \A e : Apart(jobs[j], [jobs[j] EXCEPT !.pc = "summary", !.evidence = e])
    BY <1>2, <2>1 DEF Apart, IsJob, Paged, At, NoJob
  <2> QED
    BY <1>1, <1>8, <2>1, <2>2 DEF ExportEvidence, Goes, Own
<1>9. CASE Summarise
  <2>1. PICK j \in 1 .. Jobs :
          /\ At(j, "summary")
          /\ \E b : Set(j, [jobs[j] EXCEPT !.pc = "list", !.body = b])
    BY <1>9 DEF Summarise, Goes
  <2>2. \A b : Apart(jobs[j], [jobs[j] EXCEPT !.pc = "list", !.body = b])
    BY <1>2, <1>3, <2>1, ListEmpty DEF Apart, IsJob, Paged, At, NoJob
  <2> QED
    BY <1>1, <1>9, <2>1, <2>2 DEF Summarise, Goes, Own
<1>10. CASE Gate
  <2>1. PICK j \in 1 .. Jobs :
          /\ At(j, "gate")
          /\ \E pc \in {"red", "green"} : Set(j, [jobs[j] EXCEPT !.pc = pc])
    BY <1>10 DEF Gate, Goes
  <2>2. \A pc \in {"red", "green"} : Apart(jobs[j], [jobs[j] EXCEPT !.pc = pc])
    BY <1>2, <2>1 DEF Apart, IsJob, Paged, At, NoJob
  <2> QED
    BY <1>1, <1>10, <2>1, <2>2 DEF Gate, Goes, Own
<1>11. CASE RequestFails
  <2>1. PICK j \in 1 .. Jobs :
          /\ jobs[j].pc \in {"list", "write"}
          /\ Set(j, [jobs[j] EXCEPT !.pc = "red", !.faulty = TRUE])
    BY <1>11 DEF RequestFails
  <2>2. Apart(jobs[j], [jobs[j] EXCEPT !.pc = "red", !.faulty = TRUE])
    BY <1>2, <2>1 DEF Apart, IsJob, Paged, NoJob
  <2> QED
    BY <1>1, <1>11, <2>1, <2>2 DEF RequestFails
<1> QED
  BY <1>4, <1>5, <1>6, <1>7, <1>8, <1>9, <1>10, <1>11 DEF OwnStep

\* One page more (list_comments).
Listed1(j) ==
  /\ At(j, "list") /\ comments' = comments /\ inputs' = inputs
  /\ calm' = (calm /\ \A i \in (1 .. Jobs) \ {j} : ~Listing(i))
  /\ DOMAIN jobs' = 1 .. Jobs
  /\ \A i \in 1 .. Jobs : i # j => jobs'[i] = jobs[i]
  /\ IsJob(jobs'[j])
  /\ jobs'[j].pc = IF IsLast(Batch(j)) THEN "write" ELSE "list"
  /\ jobs'[j].page = jobs[j].page + 1
  /\ jobs'[j].seen = jobs[j].seen \o Batch(j)
  /\ jobs'[j].quiet = IF jobs[j].page = 0 THEN TRUE ELSE jobs[j].quiet
  /\ jobs'[j].posted = jobs[j].posted

LEMMA ListStepIs ==
  ASSUME TypeInv, List
  PROVE  \E j \in 1 .. Jobs : Listed1(j)
<1>1. PICK j \in 1 .. Jobs :
        /\ At(j, "list")
        /\ Set(j, [jobs[j] EXCEPT !.pc    = IF IsLast(Batch(j)) THEN "write" ELSE "list",
                                  !.seen  = @ \o Batch(j),
                                  !.page  = jobs[j].page + 1,
                                  !.quiet = IF jobs[j].page + 1 = 1 THEN TRUE ELSE @])
        /\ calm' = (calm /\ \A i \in (1 .. Jobs) \ {j} : ~Listing(i))
  BY DEF List, Batch
<1>2. IsJob(jobs[j]) /\ jobs[j].page \in Nat
  BY DEF TypeInv, IsJob
<1>3. IsList(jobs[j].seen \o Batch(j))
  BY <1>2, BatchIs, ListConcat DEF IsJob
<1>4. jobs[j].page + 1 = 1 <=> jobs[j].page = 0
  BY <1>2
<1> DEFINE new == [jobs[j] EXCEPT !.pc    = IF IsLast(Batch(j)) THEN "write" ELSE "list",
                                  !.seen  = @ \o Batch(j),
                                  !.page  = jobs[j].page + 1,
                                  !.quiet = IF jobs[j].page + 1 = 1 THEN TRUE ELSE @]
<1>5. /\ IsJob(new)
      /\ new.pc = IF IsLast(Batch(j)) THEN "write" ELSE "list"
      /\ new.page = jobs[j].page + 1
      /\ new.seen = jobs[j].seen \o Batch(j)
      /\ new.quiet = IF jobs[j].page = 0 THEN TRUE ELSE jobs[j].quiet
      /\ new.posted = jobs[j].posted
  <2>1. /\ DOMAIN new = DOMAIN NoJob
        /\ new.pc = IF IsLast(Batch(j)) THEN "write" ELSE "list"
        /\ new.page = jobs[j].page + 1
        /\ new.seen = jobs[j].seen \o Batch(j)
        /\ new.posted = jobs[j].posted
    BY <1>2 DEF IsJob, NoJob
  <2>2. new.quiet = IF jobs[j].page + 1 = 1 THEN TRUE ELSE jobs[j].quiet
    BY <1>2 DEF IsJob, NoJob
  <2>3. new.quiet = IF jobs[j].page = 0 THEN TRUE ELSE jobs[j].quiet
    BY <1>4, <2>2
  <2>4. jobs[j].posted \in BOOLEAN /\ jobs[j].quiet \in BOOLEAN
    BY <1>2 DEF IsJob
  <2>5. new.page \in Nat /\ IsList(new.seen)
    BY <1>2, <1>3, <2>1
  <2> HIDE DEF new
  <2>6. new.posted \in BOOLEAN /\ new.quiet \in BOOLEAN
    BY <2>1, <2>3, <2>4
  <2> QED
    BY <2>1, <2>3, <2>5, <2>6 DEF IsJob
<1>6. /\ DOMAIN jobs' = 1 .. Jobs /\ jobs'[j] = new
      /\ \A i \in 1 .. Jobs : i # j => jobs'[i] = jobs[i]
  BY <1>1, SetIs
<1> HIDE DEF new
<1>7. comments' = comments /\ inputs' = inputs
  BY DEF List
<1> QED
  BY <1>1, <1>5, <1>6, <1>7 DEF Listed1

\* The request of upsert_marker_comment, which may fail or lose its answer.
Written(j, req, ok, lost) ==
  /\ At(j, "write") /\ inputs' = inputs /\ calm' = calm
  /\ req = Request(jobs[j])
  /\ comments' = CASE req = "create" -> Append(comments, Ours(jobs[j].body, NextId))
                   [] req = "update" -> Replaced(Existing(jobs[j].seen).id, jobs[j].body)
                   [] req = "noop"   -> comments
  /\ DOMAIN jobs' = 1 .. Jobs
  /\ \A i \in 1 .. Jobs : IsJob(jobs'[i])
  /\ \A i \in 1 .. Jobs : i # j =>
       /\ jobs'[i] = [jobs[i] EXCEPT !.quiet = jobs[i].quiet /\ req = "noop"]
       /\ jobs'[i].pc = jobs[i].pc /\ jobs'[i].page = jobs[i].page /\ jobs'[i].seen = jobs[i].seen
       /\ jobs'[i].posted = jobs[i].posted /\ jobs'[i].body = jobs[i].body
       /\ jobs'[i].quiet = (jobs[i].quiet /\ req = "noop")
  /\ jobs'[j] = [jobs[j] EXCEPT !.pc     = IF ok /\ ~lost THEN "gate" ELSE "red",
                                !.posted = ok /\ ~lost, !.faulty = ~ok \/ lost]
  /\ jobs'[j].pc = IF ok /\ ~lost THEN "gate" ELSE "red"
  /\ jobs'[j].posted = (ok /\ ~lost)
  /\ jobs'[j].quiet = jobs[j].quiet /\ jobs'[j].body = jobs[j].body

LEMMA WriteStepIs ==
  ASSUME TypeInv, Write
  PROVE  \E j \in 1 .. Jobs : \E req \in {"create", "update", "noop"} :
           \E ok, lost \in BOOLEAN : Written(j, req, ok, lost)
<1>1. PICK j \in 1 .. Jobs, lost \in BOOLEAN :
        LET job == jobs[j]
            req == Request(job)
            ok  == req = "update" => Existing(job.seen).id \in IdsOf(comments)
        IN  /\ At(j, "write")
            /\ comments' = CASE req = "create" -> Append(comments, Ours(job.body, NextId))
                             [] req = "update" -> Replaced(Existing(job.seen).id, job.body)
                             [] req = "noop"   -> comments
            /\ jobs' = [i \in 1 .. Jobs |->
                          IF i = j THEN [job EXCEPT !.pc     = IF ok /\ ~lost THEN "gate" ELSE "red",
                                                    !.posted = ok /\ ~lost, !.faulty = ~ok \/ lost]
                          ELSE [jobs[i] EXCEPT !.quiet = @ /\ req = "noop"]]
  BY DEF Write
<1> DEFINE req == Request(jobs[j])
           ok  == req = "update" => Existing(jobs[j].seen).id \in IdsOf(comments)
<1>2. req \in {"create", "update", "noop"} /\ ok \in BOOLEAN
  BY DEF Request
<1>3. /\ At(j, "write")
      /\ comments' = CASE req = "create" -> Append(comments, Ours(jobs[j].body, NextId))
                       [] req = "update" -> Replaced(Existing(jobs[j].seen).id, jobs[j].body)
                       [] req = "noop"   -> comments
      /\ jobs' = [i \in 1 .. Jobs |->
                    IF i = j THEN [jobs[j] EXCEPT !.pc     = IF ok /\ ~lost THEN "gate" ELSE "red",
                                                  !.posted = ok /\ ~lost, !.faulty = ~ok \/ lost]
                    ELSE [jobs[i] EXCEPT !.quiet = @ /\ req = "noop"]]
  BY <1>1
<1>4. req = Request(jobs[j])
  OBVIOUS
<1> HIDE DEF req, ok
<1>5. \A i \in 1 .. Jobs : IsJob(jobs[i])
  BY DEF TypeInv
<1>6. /\ jobs'[j] = [jobs[j] EXCEPT !.pc     = IF ok /\ ~lost THEN "gate" ELSE "red",
                                    !.posted = ok /\ ~lost, !.faulty = ~ok \/ lost]
      /\ IsJob(jobs'[j])
      /\ jobs'[j].pc = IF ok /\ ~lost THEN "gate" ELSE "red"
      /\ jobs'[j].posted = (ok /\ ~lost)
      /\ jobs'[j].quiet = jobs[j].quiet /\ jobs'[j].body = jobs[j].body
  <2>1. jobs'[j] = [jobs[j] EXCEPT !.pc     = IF ok /\ ~lost THEN "gate" ELSE "red",
                                   !.posted = ok /\ ~lost, !.faulty = ~ok \/ lost]
    BY <1>3
  <2> QED
    BY <1>2, <1>5, <2>1 DEF IsJob, NoJob
<1>7. ASSUME NEW i \in 1 .. Jobs, i # j
      PROVE  /\ IsJob(jobs'[i])
             /\ jobs'[i] = [jobs[i] EXCEPT !.quiet = jobs[i].quiet /\ req = "noop"]
             /\ jobs'[i].pc = jobs[i].pc /\ jobs'[i].page = jobs[i].page
             /\ jobs'[i].seen = jobs[i].seen /\ jobs'[i].posted = jobs[i].posted
             /\ jobs'[i].body = jobs[i].body
             /\ jobs'[i].quiet = (jobs[i].quiet /\ req = "noop")
  <2>1. jobs'[i] = [jobs[i] EXCEPT !.quiet = jobs[i].quiet /\ req = "noop"]
    BY <1>3, <1>7
  <2>2. IsJob(jobs[i])
    BY <1>5
  <2> QED
    BY <2>1, <2>2 DEF IsJob, NoJob
<1>8. DOMAIN jobs' = 1 .. Jobs
  BY <1>3
<1>9. inputs' = inputs /\ calm' = calm
  BY DEF Write
<1>10. Written(j, req, ok, lost)
  BY <1>3, <1>4, <1>6, <1>7, <1>8, <1>9 DEF Written
<1> QED
  BY <1>2, <1>10

\* Somebody touched the comments: nothing else of a job changes.
TouchedOnly ==
  /\ DOMAIN jobs' = 1 .. Jobs
  /\ \A i \in 1 .. Jobs : /\ jobs'[i] = [jobs[i] EXCEPT !.quiet = FALSE]
                          /\ IsJob(jobs'[i]) /\ jobs'[i].quiet = FALSE
                          /\ jobs'[i].pc = jobs[i].pc /\ jobs'[i].page = jobs[i].page
                          /\ jobs'[i].seen = jobs[i].seen /\ jobs'[i].posted = jobs[i].posted

LEMMA TouchedIs ==
  ASSUME TypeInv, Touched
  PROVE  TouchedOnly
<1>1. ASSUME NEW i \in 1 .. Jobs
      PROVE  /\ jobs'[i] = [jobs[i] EXCEPT !.quiet = FALSE]
             /\ IsJob(jobs'[i]) /\ jobs'[i].quiet = FALSE
             /\ jobs'[i].pc = jobs[i].pc /\ jobs'[i].page = jobs[i].page
             /\ jobs'[i].seen = jobs[i].seen /\ jobs'[i].posted = jobs[i].posted
  <2>1. jobs'[i] = [jobs[i] EXCEPT !.quiet = FALSE]
    BY DEF Touched
  <2>2. IsJob(jobs[i])
    BY DEF TypeInv
  <2> QED
    BY <2>1, <2>2 DEF IsJob, NoJob
<1> QED
  BY <1>1 DEF Touched, TouchedOnly

---------------------------------------------------------------------------
(* The comments after a step *)

\* A list of comments.
Comments(seq) == IsList(seq) /\ \A n \in DOMAIN seq : IsComment(seq[n])

\* A new comment at the end.
LEMMA AddedIs ==
  ASSUME TypeInv, NEW comment, IsComment(comment)
  PROVE  /\ Comments(Append(comments, comment))
         /\ Len(Append(comments, comment)) = Len(comments) + 1
         /\ \A n \in 1 .. Len(comments) : Append(comments, comment)[n] = comments[n]
         /\ Append(comments, comment)[Len(comments) + 1] = comment
<1> DEFINE new == Append(comments, comment)
           l == Len(comments)
<1>1. /\ IsList(comments) /\ l \in Nat /\ DOMAIN comments = 1 .. l
      /\ \A n \in DOMAIN comments : IsComment(comments[n])
  BY ListIs DEF TypeInv
<1>2. /\ IsList(new) /\ Len(new) = l + 1
      /\ \A n \in 1 .. l : new[n] = comments[n]
      /\ new[l + 1] = comment
  BY <1>1, ListAppend
<1>3. DOMAIN new = 1 .. l + 1
  BY <1>2, ListIs
<1> HIDE DEF new, l
<1>4. \A n \in DOMAIN new : IsComment(new[n])
  <2> SUFFICES ASSUME NEW n \in 1 .. l + 1 PROVE IsComment(new[n])
    BY <1>3
  <2>1. n \in 1 .. l \/ n = l + 1
    BY <1>1
  <2> QED
    BY <1>1, <1>2, <2>1
<1> QED
  BY <1>2, <1>4 DEF Comments, new, l

\* The body of a comment with the given id is replaced, and nothing else.
LEMMA ReplacedIs ==
  ASSUME TypeInv, NEW id, NEW body
  PROVE  /\ Comments(Replaced(id, body))
         /\ Len(Replaced(id, body)) = Len(comments)
         /\ \A n \in 1 .. Len(comments) :
              /\ IsOurs(Replaced(id, body)[n]) <=> IsOurs(comments[n])
              /\ comments[n].id = id => Replaced(id, body)[n].body = body
<1> DEFINE new == Replaced(id, body)
           l == Len(comments)
<1>1. l \in Nat /\ DOMAIN comments = 1 .. l /\ \A n \in 1 .. l : IsComment(comments[n])
  BY ListIs DEF TypeInv
<1>2. new = [n \in 1 .. l |-> IF comments[n].id = id THEN [comments[n] EXCEPT !.body = body]
                               ELSE comments[n]]
  BY <1>1 DEF Replaced
<1> HIDE DEF new, l
<1>3. \A n \in 1 .. l : /\ IsComment(new[n])
                        /\ IsOurs(new[n]) <=> IsOurs(comments[n])
                        /\ comments[n].id = id => new[n].body = body
  BY <1>1, <1>2 DEF IsComment, IsOurs
<1>4. new \in [1 .. l -> {new[n] : n \in 1 .. l}]
  BY <1>2
<1>5. IsList(new) /\ Len(new) = l
  BY <1>1, <1>4, ListFcn
<1>6. DOMAIN new = 1 .. l
  BY <1>2
<1> QED
  BY <1>3, <1>5, <1>6 DEF Comments, new, l

\* An edit may take a marker away; it makes no comment ours.
LEMMA EditedIs ==
  ASSUME TypeInv, HumanEdits
  PROVE  /\ Comments(comments') /\ Len(comments') = Len(comments)
         /\ \A n \in 1 .. Len(comments) : IsOurs(comments'[n]) => IsOurs(comments[n])
<1> DEFINE new == comments'
           l == Len(comments)
<1>1. l \in Nat /\ DOMAIN comments = 1 .. l /\ \A n \in 1 .. l : IsComment(comments[n])
  BY ListIs DEF TypeInv
<1>2. PICK m \in 1 .. l : \E text \in {"plain", comments[m].text} :
        new = [comments EXCEPT ![m].text = text, ![m].body = None]
  BY <1>1 DEF HumanEdits
<1>3. PICK text \in {"plain", comments[m].text} :
        new = [comments EXCEPT ![m].text = text, ![m].body = None]
  BY <1>2
<1> HIDE DEF new, l
<1>4. DOMAIN new = 1 .. l
  BY <1>1, <1>3
<1>5. \A n \in 1 .. l : n # m => new[n] = comments[n]
  BY <1>1, <1>2, <1>3
<1>6. new[m] = [[comments[m] EXCEPT !.text = text] EXCEPT !.body = None]
  BY <1>1, <1>2, <1>3
<1>7. IsComment(new[m]) /\ (IsOurs(new[m]) => IsOurs(comments[m]))
  BY <1>1, <1>2, <1>3, <1>6 DEF IsComment, IsOurs
<1>8. \A n \in 1 .. l : IsComment(new[n]) /\ (IsOurs(new[n]) => IsOurs(comments[n]))
  BY <1>1, <1>5, <1>7
<1>9. new \in [1 .. l -> {new[n] : n \in 1 .. l}]
  <2>1. new = [n \in 1 .. l |-> new[n]]
    BY <1>1, <1>3, <1>4
  <2> QED
    BY <2>1
<1>10. IsList(new) /\ Len(new) = l
  BY <1>1, <1>9, ListFcn
<1> QED
  BY <1>4, <1>8, <1>10 DEF Comments, new, l

\* A comment is gone, and the later ones move up.
LEMMA DeletedIs ==
  ASSUME TypeInv, NEW m \in DOMAIN comments
  PROVE  /\ Comments(Without(m)) /\ Len(Without(m)) = Len(comments) - 1
         /\ \A n \in 1 .. Len(comments) - 1 :
              Without(m)[n] = comments[IF n < m THEN n ELSE n + 1]
<1> DEFINE new == Without(m)
           l == Len(comments)
<1>1. l \in Nat /\ DOMAIN comments = 1 .. l /\ \A n \in 1 .. l : IsComment(comments[n])
  BY ListIs DEF TypeInv
<1>2. l - 1 \in Nat
  BY <1>1
<1>3. new = [n \in 1 .. l - 1 |-> comments[IF n < m THEN n ELSE n + 1]]
  BY DEF Without
<1> HIDE DEF new, l
<1>4. DOMAIN new = 1 .. l - 1 /\ \A n \in 1 .. l - 1 : new[n] = comments[IF n < m THEN n ELSE n + 1]
  BY <1>3
<1>5. \A n \in 1 .. l - 1 : (IF n < m THEN n ELSE n + 1) \in 1 .. l
  BY <1>1
<1>6. \A n \in DOMAIN new : IsComment(new[n])
  BY <1>1, <1>4, <1>5
<1>7. new \in [1 .. l - 1 -> {new[n] : n \in 1 .. l - 1}]
  BY <1>3
<1>8. IsList(new) /\ Len(new) = l - 1
  BY <1>2, <1>7, ListFcn
<1> QED
  BY <1>4, <1>6, <1>8 DEF Comments, new, l

LEMMA OursIs ==
  \A body, id : IsComment(Ours(body, id)) /\ IsOurs(Ours(body, id)) /\ Ours(body, id).body = body
BY DEF Ours, IsComment, IsOurs

\* A comment of a person is never ours.
LEMMA HumanIs ==
  ASSUME TypeInv, HumanComments
  PROVE  \E comment : /\ IsComment(comment) /\ ~IsOurs(comment)
                      /\ comments' = Append(comments, comment)
<1>1. PICK text \in Markers :
        comments' = Append(comments, [id |-> NextId, by |-> "human", text |-> text, body |-> None])
  BY DEF HumanComments
<1> DEFINE new == [id |-> NextId, by |-> "human", text |-> text, body |-> None]
<1>2. IsComment(new) /\ ~IsOurs(new)
  BY DEF IsComment, IsOurs
<1>3. comments' = Append(comments, new)
  BY <1>1
<1> HIDE DEF new
<1> QED
  BY <1>2, <1>3

---------------------------------------------------------------------------
(* The shape is kept *)

LEMMA TypeStep ==
  ASSUME TypeInv, PageInv, [Next]_vars
  PROVE  TypeInv' /\ PageInv'
<1>1. Comments(comments)
  BY DEF TypeInv, Comments
<1>2. SUFFICES /\ calm' \in BOOLEAN /\ DOMAIN jobs' = 1 .. Jobs
               /\ \A i \in 1 .. Jobs : IsJob(jobs'[i]) /\ Paged(jobs'[i])
               /\ Comments(comments')
  BY DEF TypeInv, PageInv, Comments, IsJob, IsComment, Paged, IsList
<1>3. \A i \in 1 .. Jobs : IsJob(jobs[i]) /\ Paged(jobs[i])
  BY DEF TypeInv, PageInv
<1>4. CASE OwnStep
  BY <1>1, <1>3, <1>4, OwnStepIs DEF Apart, TypeInv
<1>5. CASE List
  <2>1. PICK j \in 1 .. Jobs : Listed1(j)
    BY <1>5, ListStepIs
  <2>2. Paged(jobs'[j])
    <3> DEFINE k == jobs[j].page * PageSize
    <3>1. jobs[j].page \in Nat /\ IsList(jobs[j].seen) /\ Len(jobs[j].seen) = k
      BY <1>3, <2>1 DEF IsJob, Paged, Listed1, At
    <3>2. /\ IsList(Batch(j)) /\ Len(Batch(j)) \in 0 .. PageSize /\ k \in Nat
          /\ (jobs[j].page + 1) * PageSize = k + PageSize
      BY BatchIs
    <3>3. Len(jobs'[j].seen) = k + Len(Batch(j))
      <4>1. Len(jobs[j].seen \o Batch(j)) = Len(jobs[j].seen) + Len(Batch(j))
        BY <3>1, <3>2, ListConcat
      <4>2. jobs'[j].seen = jobs[j].seen \o Batch(j)
        BY <2>1 DEF Listed1
      <4> HIDE DEF k
      <4> QED
        BY <3>1, <4>1, <4>2
    <3> HIDE DEF k
    <3>4. jobs'[j].pc = "list" => Len(jobs'[j].seen) = jobs'[j].page * PageSize
      <4>1. CASE IsLast(Batch(j))
        BY <2>1, <4>1 DEF Listed1
      <4>2. CASE ~IsLast(Batch(j))
        <5>1. Len(Batch(j)) >= PageSize
          BY <3>2, <4>2, ReviewAssumption DEF IsLast
        <5>2. Len(Batch(j)) = PageSize
          BY <3>2, <5>1, ReviewAssumption
        <5>3. jobs'[j].page = jobs[j].page + 1
          BY <2>1 DEF Listed1
        <5>4. Len(jobs'[j].seen) = k + PageSize
          BY <3>3, <5>2
        <5>5. Len(jobs'[j].seen) = (jobs[j].page + 1) * PageSize
          BY <3>2, <5>4
        <5> QED
          BY <5>3, <5>5
      <4> QED
        BY <4>1, <4>2
    <3>5. jobs'[j].page > 0
      BY <2>1, <3>1 DEF Listed1
    <3>6. jobs'[j].posted = FALSE
      BY <1>3, <2>1 DEF Listed1, Paged, At, IsJob
    <3> QED
      BY <2>1, <3>4, <3>5, <3>6 DEF Listed1, Paged
  <2> QED
    BY <1>1, <1>3, <2>1, <2>2 DEF Listed1, TypeInv
<1>6. CASE Write
  <2>1. PICK j \in 1 .. Jobs, req \in {"create", "update", "noop"}, ok \in BOOLEAN, lost \in BOOLEAN :
          Written(j, req, ok, lost)
    BY <1>6, WriteStepIs
  <2>2. Comments(comments')
    BY <1>1, <2>1, AddedIs, ReplacedIs, OursIs DEF Written
  <2>3. Paged(jobs'[j])
    BY <2>1 DEF Written, Paged
  <2>4. \A i \in 1 .. Jobs : i # j => Paged(jobs'[i])
    BY <1>3, <2>1 DEF Written, Paged
  <2> QED
    BY <2>1, <2>2, <2>3, <2>4 DEF Written, TypeInv
<1>7. CASE HumanComments
  <2>1. Comments(comments')
    BY <1>7, HumanIs, AddedIs
  <2> QED
    BY <1>3, <1>7, <2>1 DEF HumanComments, TypeInv
<1>8. CASE HumanEdits
  <2>1. TouchedOnly
    BY <1>8, TouchedIs DEF HumanEdits
  <2>2. \A i \in 1 .. Jobs : Paged(jobs'[i])
    BY <1>3, <2>1 DEF TouchedOnly, Paged
  <2> QED
    BY <1>8, <2>1, <2>2, EditedIs DEF HumanEdits, TypeInv, TouchedOnly
<1>9. CASE HumanDeletes
  <2>1. TouchedOnly
    BY <1>9, TouchedIs DEF HumanDeletes
  <2>2. \A i \in 1 .. Jobs : Paged(jobs'[i])
    BY <1>3, <2>1 DEF TouchedOnly, Paged
  <2>3. Comments(comments') /\ calm' \in BOOLEAN
    BY <1>9, DeletedIs DEF HumanDeletes, TypeInv
  <2> QED
    BY <2>1, <2>2, <2>3 DEF TouchedOnly
<1>10. CASE MoveBase \/ UNCHANGED vars
  BY <1>1, <1>3, <1>10 DEF MoveBase, vars, TypeInv
<1> QED
  BY <1>4, <1>5, <1>6, <1>7, <1>8, <1>9, <1>10 DEF Next, OwnStep

---------------------------------------------------------------------------
(* One comment *)

\* A job has the comments in hand: it has listed some and not yet written.
Holding(job) == job.pc \in {"list", "write"} /\ job.page > 0

\* What it has listed is still there, in the same places; a marker may be gone,
\* none was put on; and behind the last page there is nothing of ours.
Covers(job, seq) ==
  /\ Len(job.seen) <= Len(seq)
  /\ \A n \in 1 .. Len(job.seen) : IsOurs(seq[n]) => IsOurs(job.seen[n])
  /\ job.pc = "write" => \A n \in 1 .. Len(seq) : IsOurs(seq[n]) => n <= Len(job.seen)

Single(seq) == \A m, n \in 1 .. Len(seq) : IsOurs(seq[m]) /\ IsOurs(seq[n]) => m = n

OneInv ==
  calm => /\ \A i, j \in 1 .. Jobs : Holding(jobs[i]) /\ Holding(jobs[j]) => i = j
          /\ \A j \in 1 .. Jobs : Holding(jobs[j]) => Covers(jobs[j], comments)
          /\ Single(comments)

\* A page goes on where the list ends, and the last one reaches the end.
LEMMA ListExtends ==
  ASSUME TypeInv, PageInv, NEW j \in 1 .. Jobs, Listed1(j), Len(jobs[j].seen) <= Len(comments)
  PROVE  /\ Len(jobs[j].seen) \in Nat /\ Len(jobs'[j].seen) \in Nat /\ Len(comments) \in Nat
         /\ Len(jobs[j].seen) <= Len(jobs'[j].seen)
         /\ Len(jobs'[j].seen) <= Len(comments)
         /\ jobs'[j].pc = "write" => Len(jobs'[j].seen) = Len(comments)
         /\ \A n \in 1 .. Len(jobs[j].seen) : jobs'[j].seen[n] = jobs[j].seen[n]
         /\ \A n \in 1 .. Len(jobs'[j].seen) :
              n > Len(jobs[j].seen) => jobs'[j].seen[n] = comments[n]
<1> DEFINE k == Len(jobs[j].seen)
           b == Len(Batch(j))
           l == Len(comments)
<1>1. IsList(jobs[j].seen) /\ k = jobs[j].page * PageSize
  BY DEF TypeInv, PageInv, IsJob, Paged, Listed1, At
<1>2. /\ IsList(Batch(j)) /\ b \in 0 .. PageSize /\ k \in Nat
      /\ k <= l => k + b <= l /\ (IsLast(Batch(j)) => k + b = l)
      /\ \A n \in 1 .. b : Batch(j)[n] = comments[k + n]
  BY <1>1, BatchIs
<1>3. /\ Len(jobs[j].seen \o Batch(j)) = k + b
      /\ \A n \in 1 .. k : (jobs[j].seen \o Batch(j))[n] = jobs[j].seen[n]
      /\ \A n \in 1 .. b : (jobs[j].seen \o Batch(j))[k + n] = Batch(j)[n]
  <2>1. IsList(jobs[j].seen)
    BY <1>1
  <2>2. IsList(Batch(j))
    BY <1>2
  <2> DEFINE u == jobs[j].seen
             v == Batch(j)
  <2>3. IsList(u) /\ IsList(v)
    BY <2>1, <2>2
  <2> HIDE DEF u, v
  <2>4. /\ Len(u \o v) = Len(u) + Len(v)
        /\ \A n \in 1 .. Len(u) : (u \o v)[n] = u[n]
        /\ \A n \in 1 .. Len(v) : (u \o v)[Len(u) + n] = v[n]
    BY <2>3, ListConcat
  <2> QED
    BY <2>4, Zenon DEF u, v
<1>4. /\ jobs'[j].seen = jobs[j].seen \o Batch(j)
      /\ jobs'[j].pc = "write" => IsLast(Batch(j))
  BY DEF Listed1
<1>5. l \in Nat /\ k <= l /\ b \in Nat
  BY <1>2, ListIs, ReviewAssumption DEF TypeInv
<1>6. \A n \in 1 .. k + b : n > k => (jobs[j].seen \o Batch(j))[n] = comments[n]
  <2> SUFFICES ASSUME NEW n \in 1 .. k + b, n > k
               PROVE  (jobs[j].seen \o Batch(j))[n] = comments[n]
    OBVIOUS
  <2> HIDE DEF k, b
  <2>1. n - k \in 1 .. b /\ k + (n - k) = n
    BY <1>2, <1>5
  <2> QED
    BY <1>2, <1>3, <2>1
<1>7. Len(jobs'[j].seen) = k + b
  BY <1>3, <1>4
<1> HIDE DEF k, b, l
<1>8. k + b \in Nat /\ k <= k + b /\ k + b <= l /\ (jobs'[j].pc = "write" => k + b = l)
  BY <1>2, <1>4, <1>5
<1> QED
  BY <1>2, <1>3, <1>4, <1>5, <1>6, <1>7, <1>8 DEF k, l

LEMMA OneStep ==
  ASSUME TypeInv, PageInv, OneInv, [Next]_vars
  PROVE  OneInv'
<1>1. SUFFICES ASSUME calm'
               PROVE  /\ \A i, j \in 1 .. Jobs : Holding(jobs'[i]) /\ Holding(jobs'[j]) => i = j
                      /\ \A j \in 1 .. Jobs : Holding(jobs'[j]) => Covers(jobs'[j], comments')
                      /\ Single(comments')
  BY DEF OneInv, Holding, Covers, Single, IsOurs
<1>2. Len(comments) \in Nat /\ DOMAIN comments = 1 .. Len(comments)
  BY ListIs DEF TypeInv
<1>3. \A j \in 1 .. Jobs : IsJob(jobs[j]) /\ Paged(jobs[j]) /\ Len(jobs[j].seen) \in Nat
  BY ListIs DEF TypeInv, PageInv, IsJob
<1>4. CASE OwnStep
  <2>1. calm /\ comments' = comments
    BY <1>1, <1>4, OwnStepIs
  <2>2. PICK j \in 1 .. Jobs : /\ Apart(jobs[j], jobs'[j])
                               /\ \A i \in 1 .. Jobs : i # j => jobs'[i] = jobs[i]
    BY <1>4, OwnStepIs
  <2>3. ~Holding(jobs'[j])
    BY <2>2 DEF Apart, Holding
  <2> QED
    BY <2>1, <2>2, <2>3 DEF OneInv
<1>5. CASE List
  <2>1. PICK j \in 1 .. Jobs : Listed1(j)
    BY <1>5, ListStepIs
  <2>2. /\ calm /\ comments' = comments
        /\ \A i \in 1 .. Jobs : i # j => ~Holding(jobs[i]) /\ jobs'[i] = jobs[i]
    BY <1>1, <2>1 DEF Listed1, Listing, Holding, TypeInv
  <2>3. Len(jobs[j].seen) <= Len(comments)
        /\ \A n \in 1 .. Len(jobs[j].seen) : IsOurs(comments[n]) => IsOurs(jobs[j].seen[n])
    <3>1. CASE jobs[j].page > 0
      BY <2>1, <2>2, <3>1 DEF OneInv, Holding, Covers, Listed1, At
    <3>2. CASE ~(jobs[j].page > 0)
      <4>1. jobs[j].page = 0
        BY <1>3, <3>2 DEF IsJob
      <4>2. Len(jobs[j].seen) = 0 * PageSize
        BY <1>3, <2>1, <4>1 DEF Paged, Listed1, At
      <4>3. Len(jobs[j].seen) = 0
        BY <4>2, ReviewAssumption
      <4> QED
        BY <1>2, <4>3
    <3> QED
      BY <3>1, <3>2
  <2>4. Covers(jobs'[j], comments)
    <3>1. /\ Len(jobs'[j].seen) <= Len(comments)
          /\ jobs'[j].pc = "write" => Len(jobs'[j].seen) = Len(comments)
      BY <2>1, <2>3, ListExtends
    <3>2. ASSUME NEW n \in 1 .. Len(jobs'[j].seen), IsOurs(comments[n])
          PROVE  IsOurs(jobs'[j].seen[n])
      <4>1. n \in 1 .. Len(jobs[j].seen) \/ n > Len(jobs[j].seen)
        BY <1>3, <2>1, <2>3, ListExtends
      <4> QED
        BY <2>1, <2>3, <3>2, <4>1, ListExtends
    <3>3. jobs'[j].pc = "write" =>
            \A n \in 1 .. Len(comments) : IsOurs(comments[n]) => n <= Len(jobs'[j].seen)
      BY <1>2, <3>1
    <3> QED
      BY <3>1, <3>2, <3>3 DEF Covers
  <2> QED
    BY <2>2, <2>4 DEF OneInv
<1>6. CASE Write
  <2>1. PICK j \in 1 .. Jobs, req \in {"create", "update", "noop"}, ok \in BOOLEAN, lost \in BOOLEAN :
          Written(j, req, ok, lost)
    BY <1>6, WriteStepIs
  <2>2. calm /\ Holding(jobs[j]) /\ ~Holding(jobs'[j])
    BY <1>1, <1>3, <2>1 DEF Written, Holding, Paged, At
  <2>3. \A i \in 1 .. Jobs : ~Holding(jobs'[i])
    BY <2>1, <2>2 DEF Written, Holding, OneInv
  <2>4. Single(comments) /\ Covers(jobs[j], comments)
    BY <2>2 DEF OneInv
  <2>5. CASE req = "create"
    <3>1. comments' = Append(comments, Ours(jobs[j].body, NextId)) /\ Matching(jobs[j].seen) = {}
      BY <2>1, <2>5 DEF Written, Request
    <3>2. /\ Len(comments') = Len(comments) + 1
          /\ \A n \in 1 .. Len(comments) : comments'[n] = comments[n]
      BY <3>1, AddedIs, OursIs
    <3>3. \A n \in 1 .. Len(comments) : ~IsOurs(comments[n])
      <4> SUFFICES ASSUME NEW n \in 1 .. Len(comments), IsOurs(comments[n]) PROVE FALSE
        OBVIOUS
      <4>1. n \in 1 .. Len(jobs[j].seen)
        BY <1>2, <1>3, <2>1, <2>4 DEF Covers, Written, At
      <4>2. DOMAIN jobs[j].seen = 1 .. Len(jobs[j].seen)
        BY <1>3, ListIs DEF IsJob
      <4>3. n \in Matching(jobs[j].seen)
        BY <2>4, <4>1, <4>2 DEF Covers, Matching
      <4> QED
        BY <3>1, <4>3
    <3>4. \A n \in 1 .. Len(comments') : IsOurs(comments'[n]) => n = Len(comments) + 1
      <4> SUFFICES ASSUME NEW n \in 1 .. Len(comments) + 1, n # Len(comments) + 1
                   PROVE  ~IsOurs(comments'[n])
        BY <3>2
      <4>1. n \in 1 .. Len(comments)
        BY <1>2
      <4> QED
        BY <3>2, <3>3, <4>1
    <3> QED
      BY <2>3, <3>4 DEF Single
  <2>6. CASE req = "update"
    <3>1. comments' = Replaced(Existing(jobs[j].seen).id, jobs[j].body)
      BY <2>1, <2>6 DEF Written
    <3>2. /\ Len(comments') = Len(comments)
          /\ \A n \in 1 .. Len(comments) : IsOurs(comments'[n]) <=> IsOurs(comments[n])
      BY <3>1, ReplacedIs
    <3> QED
      BY <2>3, <2>4, <3>2 DEF Single
  <2>7. CASE req = "noop"
    BY <2>1, <2>3, <2>4, <2>7 DEF Written
  <2> QED
    BY <2>5, <2>6, <2>7
<1>7. CASE HumanComments
  <2>1. calm /\ jobs' = jobs
    BY <1>1, <1>7 DEF HumanComments
  <2>2. PICK comment : /\ IsComment(comment) /\ ~IsOurs(comment)
                       /\ comments' = Append(comments, comment)
    BY <1>7, HumanIs
  <2>3. /\ Len(comments') = Len(comments) + 1
        /\ \A n \in 1 .. Len(comments) : comments'[n] = comments[n]
        /\ ~IsOurs(comments'[Len(comments) + 1])
    BY <2>2, AddedIs
  <2>4. ASSUME NEW n \in 1 .. Len(comments'), IsOurs(comments'[n])
        PROVE  n \in 1 .. Len(comments) /\ IsOurs(comments[n])
    <3>1. n \in 1 .. Len(comments) \/ n = Len(comments) + 1
      BY <1>2, <2>3
    <3> QED
      BY <2>3, <2>4, <3>1
  <2>5. ASSUME NEW j \in 1 .. Jobs, Holding(jobs[j]) PROVE Covers(jobs[j], comments')
    <3>1. Covers(jobs[j], comments)
      BY <2>1, <2>5 DEF OneInv
    <3>2. Len(jobs[j].seen) <= Len(comments')
      BY <1>2, <1>3, <2>3, <3>1 DEF Covers
    <3>3. \A n \in 1 .. Len(jobs[j].seen) : n \in 1 .. Len(comments')
      BY <1>2, <1>3, <2>3, <3>2
    <3> QED
      BY <2>4, <3>1, <3>2, <3>3 DEF Covers
  <2>6. Single(comments')
    BY <2>1, <2>4 DEF OneInv, Single
  <2> QED
    BY <2>1, <2>5, <2>6 DEF OneInv
<1>8. CASE HumanEdits
  <2>1. TouchedOnly /\ calm
    BY <1>1, <1>8, TouchedIs DEF HumanEdits
  <2>2. /\ Len(comments') = Len(comments)
        /\ \A n \in 1 .. Len(comments) : IsOurs(comments'[n]) => IsOurs(comments[n])
    BY <1>8, EditedIs
  <2>3. \A j \in 1 .. Jobs : /\ Holding(jobs'[j]) <=> Holding(jobs[j])
                             /\ jobs'[j].seen = jobs[j].seen /\ jobs'[j].pc = jobs[j].pc
    BY <2>1 DEF TouchedOnly, Holding
  <2>4. \A j \in 1 .. Jobs : \A n \in 1 .. Len(jobs[j].seen) :
          Len(jobs[j].seen) <= Len(comments) => n \in 1 .. Len(comments)
    BY <1>2, <1>3
  <2>5. \A j \in 1 .. Jobs : Covers(jobs[j], comments) => Covers(jobs'[j], comments')
    BY <2>2, <2>3, <2>4 DEF Covers
  <2> QED
    BY <2>1, <2>2, <2>3, <2>5 DEF OneInv, Single
<1>9. CASE HumanDeletes
  <2>1. /\ TouchedOnly /\ calm
        /\ \A j \in 1 .. Jobs : ~Listing(j)
    BY <1>1, <1>9, TouchedIs DEF HumanDeletes, TypeInv
  <2>2. \A j \in 1 .. Jobs : ~Holding(jobs'[j])
    BY <2>1 DEF TouchedOnly, Holding, Listing
  <2>3. PICK m \in DOMAIN comments : comments' = Without(m)
    BY <1>9 DEF HumanDeletes
  <2>4. /\ Len(comments') = Len(comments) - 1
        /\ \A n \in 1 .. Len(comments) - 1 : comments'[n] = comments[IF n < m THEN n ELSE n + 1]
    BY <2>3, DeletedIs
  <2>5. ASSUME NEW n \in 1 .. Len(comments'), NEW o \in 1 .. Len(comments'),
               IsOurs(comments'[n]), IsOurs(comments'[o])
        PROVE  n = o
    <3> DEFINE at(x) == IF x < m THEN x ELSE x + 1
    <3>1. at(n) \in 1 .. Len(comments) /\ at(o) \in 1 .. Len(comments)
      BY <1>2, <2>4
    <3>2. IsOurs(comments[at(n)]) /\ IsOurs(comments[at(o)])
      BY <2>4, <2>5
    <3>3. at(n) = at(o)
      BY <2>1, <3>1, <3>2 DEF OneInv, Single
    <3>4. n \in Nat /\ o \in Nat /\ m \in Nat
      BY <1>2, <2>4
    <3> QED
      BY <3>3, <3>4
  <2> QED
    BY <2>2, <2>5 DEF Single
<1>10. CASE MoveBase \/ UNCHANGED vars
  <2>1. calm /\ jobs' = jobs /\ comments' = comments
    BY <1>1, <1>10 DEF MoveBase, vars
  <2> QED
    BY <2>1 DEF OneInv
<1> QED
  BY <1>4, <1>5, <1>6, <1>7, <1>8, <1>9, <1>10 DEF Next, OwnStep

---------------------------------------------------------------------------
(* The findings shown *)

\* While nobody touches the comments, a list is what is there, up to comments
\* of people at the end.
Mirrors(job, seq) ==
  /\ Len(job.seen) <= Len(seq)
  /\ \A n \in 1 .. Len(job.seen) : seq[n] = job.seen[n]
  /\ job.pc = "write" => \A n \in 1 .. Len(seq) : IsOurs(seq[n]) => n <= Len(job.seen)

\* The newest comment of the action has the given body.
Shows(seq, body) ==
  \E n \in 1 .. Len(seq) : /\ IsOurs(seq[n]) /\ seq[n].body = body
                           /\ \A m \in 1 .. Len(seq) : IsOurs(seq[m]) => m <= n

ShownInv ==
  \A j \in 1 .. Jobs : jobs[j].quiet =>
    /\ Holding(jobs[j]) => Mirrors(jobs[j], comments)
    /\ jobs[j].posted => Shows(comments, jobs[j].body)

\* The comment that Existing takes is the last of those listed.
LEMMA ExistingIs ==
  ASSUME NEW seen, IsList(seen), Matching(seen) # {}
  PROVE  \E p \in Matching(seen) : /\ Existing(seen) = seen[p]
                                   /\ \A m \in Matching(seen) : m <= p
<1>1. Len(seen) \in Nat /\ Matching(seen) \subseteq 1 .. Len(seen)
  BY ListIs DEF Matching
<1>2. \E p \in Matching(seen) : \A m \in Matching(seen) : m <= p
  BY <1>1, GreatestMember
<1> DEFINE p == CHOOSE n \in Matching(seen) : \A m \in Matching(seen) : m <= n
<1>3. p \in Matching(seen) /\ \A m \in Matching(seen) : m <= p
  BY <1>2
<1>4. Existing(seen) = seen[p]
  BY DEF Existing
<1> QED
  BY <1>3, <1>4

\* A request that is answered leaves the body of the job in the newest comment.
LEMMA WriteShows ==
  ASSUME TypeInv, NEW j \in 1 .. Jobs, NEW req \in {"create", "update", "noop"},
         NEW ok \in BOOLEAN, NEW lost \in BOOLEAN, Written(j, req, ok, lost),
         Mirrors(jobs[j], comments)
  PROVE  Shows(comments', jobs[j].body)
<1> DEFINE l == Len(comments)
           seen == jobs[j].seen
           body == jobs[j].body
<1>1. l \in Nat /\ IsList(seen) /\ Len(seen) \in Nat /\ DOMAIN seen = 1 .. Len(seen)
  BY ListIs DEF TypeInv, IsJob
<1>2. /\ Len(seen) <= l /\ \A n \in 1 .. Len(seen) : comments[n] = seen[n]
      /\ \A n \in 1 .. l : IsOurs(comments[n]) => n <= Len(seen)
  BY DEF Mirrors, Written, At
<1>3. \A n \in 1 .. l : IsOurs(comments[n]) => n \in Matching(seen)
  <2> SUFFICES ASSUME NEW n \in 1 .. l, IsOurs(comments[n]) PROVE n \in Matching(seen)
    OBVIOUS
  <2>1. n \in 1 .. Len(seen)
    BY <1>1, <1>2
  <2> QED
    BY <1>1, <1>2, <2>1 DEF Matching
<1>4. CASE req = "create"
  <2>1. comments' = Append(comments, Ours(body, NextId)) /\ Matching(seen) = {}
    BY <1>4 DEF Written, Request
  <2>2. /\ Len(comments') = l + 1
        /\ \A n \in 1 .. l : comments'[n] = comments[n]
        /\ comments'[l + 1] = Ours(body, NextId)
    BY <2>1, AddedIs, OursIs
  <2>3. IsOurs(comments'[l + 1]) /\ comments'[l + 1].body = body
    BY <2>2, OursIs
  <2> HIDE DEF l
  <2>4. l + 1 \in 1 .. l + 1 /\ \A n \in 1 .. l + 1 : n <= l + 1
    BY <1>1
  <2> QED
    BY <2>2, <2>3, <2>4 DEF Shows
<1>5. CASE req # "create"
  <2>1. Matching(seen) # {}
    BY <1>5 DEF Written, Request
  <2>2. PICK p \in Matching(seen) : /\ Existing(seen) = seen[p]
                                    /\ \A m \in Matching(seen) : m <= p
    BY <1>1, <2>1, ExistingIs
  <2>3. p \in 1 .. l /\ IsOurs(comments[p]) /\ comments[p] = Existing(seen)
    <3>1. p \in 1 .. Len(seen) /\ IsOurs(seen[p])
      BY <1>1, <2>2 DEF Matching
    <3>2. p \in 1 .. l
      BY <1>1, <1>2, <3>1
    <3> QED
      BY <1>2, <2>2, <3>1, <3>2
  <2>4. \A m \in 1 .. l : IsOurs(comments[m]) => m <= p
    BY <1>3, <2>2
  <2>5. CASE req = "update"
    <3>1. comments' = Replaced(Existing(seen).id, body)
      BY <2>5 DEF Written
    <3>2. /\ Len(comments') = l
          /\ \A n \in 1 .. l : /\ IsOurs(comments'[n]) <=> IsOurs(comments[n])
                               /\ comments[n].id = Existing(seen).id => comments'[n].body = body
      BY <3>1, ReplacedIs
    <3>3. IsOurs(comments'[p]) /\ comments'[p].body = body
      BY <2>3, <3>2
    <3> QED
      BY <2>3, <2>4, <3>2, <3>3 DEF Shows
  <2>6. CASE req = "noop"
    <3>1. comments' = comments /\ Existing(seen).body = body
      BY <1>5, <2>6 DEF Written, Request
    <3> QED
      BY <2>3, <2>4, <3>1 DEF Shows
  <2> QED
    BY <1>5, <2>5, <2>6
<1> QED
  BY <1>4, <1>5

LEMMA ShownStep ==
  ASSUME TypeInv, PageInv, ShownInv, [Next]_vars
  PROVE  ShownInv'
<1>1. SUFFICES ASSUME NEW i \in 1 .. Jobs, jobs'[i].quiet
               PROVE  /\ Holding(jobs'[i]) => Mirrors(jobs'[i], comments')
                      /\ jobs'[i].posted => Shows(comments', jobs'[i].body)
  BY DEF ShownInv, Holding, Mirrors, Shows, IsOurs
<1>2. Len(comments) \in Nat /\ DOMAIN comments = 1 .. Len(comments)
  BY ListIs DEF TypeInv
<1>3. \A j \in 1 .. Jobs : IsJob(jobs[j]) /\ Paged(jobs[j]) /\ Len(jobs[j].seen) \in Nat
  BY ListIs DEF TypeInv, PageInv, IsJob
<1>4. CASE OwnStep
  <2>1. comments' = comments
    BY <1>4, OwnStepIs
  <2>2. PICK j \in 1 .. Jobs : /\ Apart(jobs[j], jobs'[j])
                               /\ \A h \in 1 .. Jobs : h # j => jobs'[h] = jobs[h]
    BY <1>4, OwnStepIs
  <2>3. CASE i = j
    BY <1>1, <2>1, <2>2, <2>3 DEF Apart, Holding, ShownInv
  <2>4. CASE i # j
    BY <1>1, <2>1, <2>2, <2>4 DEF ShownInv
  <2> QED
    BY <2>3, <2>4
<1>5. CASE List
  <2>1. PICK j \in 1 .. Jobs : Listed1(j)
    BY <1>5, ListStepIs
  <2>2. comments' = comments
    BY <2>1 DEF Listed1
  <2>3. CASE i # j
    BY <1>1, <2>1, <2>2, <2>3 DEF Listed1, ShownInv
  <2>4. CASE i = j
    <3>1. /\ Len(jobs[j].seen) <= Len(comments)
          /\ \A n \in 1 .. Len(jobs[j].seen) : comments[n] = jobs[j].seen[n]
      <4>1. CASE jobs[j].page = 0
        <5>1. Len(jobs[j].seen) = 0 * PageSize
          BY <1>3, <2>1, <4>1 DEF Paged, Listed1, At
        <5>2. Len(jobs[j].seen) = 0
          BY <5>1, ReviewAssumption
        <5> QED
          BY <1>2, <5>2
      <4>2. CASE jobs[j].page # 0
        <5>1. jobs[j].quiet /\ jobs[j].page > 0
          BY <1>1, <1>3, <2>1, <2>4, <4>2 DEF Listed1, IsJob
        <5> QED
          BY <2>1, <5>1 DEF ShownInv, Holding, Mirrors, Listed1, At
      <4> QED
        BY <4>1, <4>2
    <3>2. /\ Len(jobs'[j].seen) <= Len(comments)
          /\ jobs'[j].pc = "write" => Len(jobs'[j].seen) = Len(comments)
      BY <2>1, <3>1, ListExtends
    <3>3. ASSUME NEW n \in 1 .. Len(jobs'[j].seen) PROVE comments[n] = jobs'[j].seen[n]
      <4>1. n \in 1 .. Len(jobs[j].seen) \/ n > Len(jobs[j].seen)
        BY <1>3, <2>1, <3>1, ListExtends
      <4> QED
        BY <2>1, <3>1, <4>1, ListExtends
    <3>4. jobs'[j].pc = "write" =>
            \A n \in 1 .. Len(comments) : IsOurs(comments[n]) => n <= Len(jobs'[j].seen)
      BY <1>2, <3>2
    <3>5. jobs'[j].posted = FALSE
      BY <1>3, <2>1 DEF Listed1, Paged, IsJob, At
    <3> QED
      BY <2>2, <2>4, <3>2, <3>3, <3>4, <3>5 DEF Mirrors
  <2> QED
    BY <2>3, <2>4
<1>6. CASE Write
  <2>1. PICK j \in 1 .. Jobs, req \in {"create", "update", "noop"}, ok \in BOOLEAN, lost \in BOOLEAN :
          Written(j, req, ok, lost)
    BY <1>6, WriteStepIs
  <2>2. CASE i # j
    <3>1. jobs[i].quiet /\ req = "noop"
      BY <1>1, <2>1, <2>2 DEF Written
    <3>2. comments' = comments
      BY <2>1, <3>1 DEF Written
    <3>3. jobs'[i].pc = jobs[i].pc /\ jobs'[i].page = jobs[i].page /\ jobs'[i].seen = jobs[i].seen
          /\ jobs'[i].posted = jobs[i].posted /\ jobs'[i].body = jobs[i].body
      BY <2>1, <2>2 DEF Written
    <3> QED
      BY <3>1, <3>2, <3>3 DEF ShownInv, Holding, Mirrors
  <2>3. CASE i = j
    <3>1. jobs[j].quiet /\ Holding(jobs[j]) /\ ~Holding(jobs'[j]) /\ jobs'[j].body = jobs[j].body
      BY <1>1, <1>3, <2>1, <2>3 DEF Written, Holding, Paged, At
    <3>2. Mirrors(jobs[j], comments)
      BY <3>1 DEF ShownInv
    <3>3. Shows(comments', jobs[j].body)
      BY <2>1, <3>2, WriteShows
    <3> QED
      BY <2>3, <3>1, <3>3
  <2> QED
    BY <2>2, <2>3
<1>7. CASE HumanComments
  <2>1. jobs' = jobs
    BY <1>7 DEF HumanComments
  <2>2. PICK comment : /\ IsComment(comment) /\ ~IsOurs(comment)
                       /\ comments' = Append(comments, comment)
    BY <1>7, HumanIs
  <2>3. /\ Len(comments') = Len(comments) + 1
        /\ \A n \in 1 .. Len(comments) : comments'[n] = comments[n]
        /\ ~IsOurs(comments'[Len(comments) + 1])
    BY <2>2, AddedIs
  <2>4. ASSUME NEW n \in 1 .. Len(comments'), IsOurs(comments'[n])
        PROVE  n \in 1 .. Len(comments) /\ IsOurs(comments[n])
    <3>1. n \in 1 .. Len(comments) \/ n = Len(comments) + 1
      BY <1>2, <2>3
    <3> QED
      BY <2>3, <2>4, <3>1
  <2>5. \A n \in 1 .. Len(comments) : n \in 1 .. Len(comments')
    BY <1>2, <2>3
  <2>6. ASSUME Mirrors(jobs[i], comments) PROVE Mirrors(jobs[i], comments')
    <3>1. Len(jobs[i].seen) <= Len(comments')
      BY <1>2, <1>3, <2>3, <2>6 DEF Mirrors
    <3>2. \A n \in 1 .. Len(jobs[i].seen) : n \in 1 .. Len(comments)
      BY <1>2, <1>3, <2>6 DEF Mirrors
    <3> QED
      BY <2>3, <2>4, <2>6, <3>1, <3>2 DEF Mirrors
  <2>7. ASSUME Shows(comments, jobs[i].body) PROVE Shows(comments', jobs[i].body)
    BY <2>3, <2>4, <2>5, <2>7 DEF Shows
  <2> QED
    BY <1>1, <2>1, <2>6, <2>7 DEF ShownInv
<1>8. CASE HumanEdits \/ HumanDeletes
  BY <1>1, <1>8, TouchedIs DEF HumanEdits, HumanDeletes, TouchedOnly
<1>9. CASE MoveBase \/ UNCHANGED vars
  <2>1. jobs' = jobs /\ comments' = comments
    BY <1>9 DEF MoveBase, vars
  <2> QED
    BY <1>1, <2>1 DEF ShownInv
<1> QED
  BY <1>4, <1>5, <1>6, <1>7, <1>8, <1>9 DEF Next, OwnStep

---------------------------------------------------------------------------
(* The difference and the verdicts *)

\* What a job found and how its checks ended, as far as it has come.
Findings(job) ==
  /\ job.diff = None \/ job.diff = Diff(job.found.skills, Tree(job).skills)
  /\ job.pc \notin {"none", "check"} =>
       job.exit = ShouldFail(Diagnostics(Tree(job), Opts), Opts)
  /\ Opts.summary /\ (job.pc \in {"summary", "list", "write", "gate", "green"} \/ job.posted) =>
       job.evidence.status = Status(DiagnosticsAgain(Tree(job), Opts))
  /\ Opts.summary /\ (job.pc \in {"list", "write", "gate", "green"} \/ job.posted) =>
       /\ job.body.check = Status(Diagnostics(Tree(job), Opts))
       /\ job.body.trace = Trace(Tree(job), Opts)
  /\ job.pc = "green" => ~job.exit
  /\ job.pc = "red" /\ job.posted => job.exit

FindInv == \A j \in 1 .. Jobs : Findings(jobs[j])

\* What the comments of the pull request and the base branch do to a job.
Onward(old, new) ==
  /\ new.was = old.was /\ new.patch = old.patch
  /\ new.found = old.found /\ new.diff = old.diff
  /\ new.exit = old.exit /\ new.evidence = old.evidence /\ new.body = old.body
  /\ \/ new.pc = old.pc /\ new.posted = old.posted
     \/ /\ old.pc \in {"list", "write"} /\ new.pc \in {"list", "write", "gate", "red"}
        /\ new.posted => new.pc = "gate"

LEMMA OnwardIs ==
  ASSUME TypeInv, PageInv,
         List \/ Write \/ RequestFails \/ HumanComments \/ HumanEdits \/ HumanDeletes
              \/ MoveBase \/ UNCHANGED vars
  PROVE  \A i \in 1 .. Jobs : Onward(jobs[i], jobs'[i])
<1>1. \A i \in 1 .. Jobs : IsJob(jobs[i]) /\ Paged(jobs[i])
  BY DEF TypeInv, PageInv
<1>2. CASE List
  <2>1. PICK j \in 1 .. Jobs :
          /\ At(j, "list")
          /\ \E pc \in {"list", "write"} : \E s, p, q :
               Set(j, [jobs[j] EXCEPT !.pc = pc, !.seen = s, !.page = p, !.quiet = q])
    <3>1. PICK j \in 1 .. Jobs :
            /\ At(j, "list")
            /\ Set(j, [jobs[j] EXCEPT !.pc    = IF IsLast(Batch(j)) THEN "write" ELSE "list",
                                      !.seen  = jobs[j].seen \o Batch(j),
                                      !.page  = jobs[j].page + 1,
                                      !.quiet = IF jobs[j].page + 1 = 1 THEN TRUE ELSE jobs[j].quiet])
      BY <1>2 DEF List, Batch
    <3>2. (IF IsLast(Batch(j)) THEN "write" ELSE "list") \in {"list", "write"}
      OBVIOUS
    <3> QED
      BY <3>1, <3>2, Zenon
  <2>2. PICK pc \in {"list", "write"} : \E s, p, q :
          Set(j, [jobs[j] EXCEPT !.pc = pc, !.seen = s, !.page = p, !.quiet = q])
    BY <2>1
  <2>3. PICK s, p, q : Set(j, [jobs[j] EXCEPT !.pc = pc, !.seen = s, !.page = p, !.quiet = q])
    BY <2>2
  <2>4. jobs'[j] = [jobs[j] EXCEPT !.pc = pc, !.seen = s, !.page = p, !.quiet = q]
        /\ \A i \in 1 .. Jobs : i # j => jobs'[i] = jobs[i]
    BY <2>3, SetIs
  <2>5. Onward(jobs[j], jobs'[j])
    BY <1>1, <2>1, <2>4 DEF IsJob, NoJob, Onward, Paged, At
  <2> QED
    BY <2>4, <2>5 DEF Onward
<1>3. CASE Write
  <2>1. PICK j \in 1 .. Jobs, req \in {"create", "update", "noop"}, ok \in BOOLEAN, lost \in BOOLEAN :
          Written(j, req, ok, lost)
    BY <1>3, WriteStepIs
  <2>2. jobs'[j] = [jobs[j] EXCEPT !.pc     = IF ok /\ ~lost THEN "gate" ELSE "red",
                                   !.posted = ok /\ ~lost, !.faulty = ~ok \/ lost]
        /\ At(j, "write")
    BY <2>1 DEF Written
  <2>3. Onward(jobs[j], jobs'[j])
    <3>1. PICK p \in {"gate", "red"}, q \in BOOLEAN, f \in BOOLEAN :
            jobs'[j] = [jobs[j] EXCEPT !.pc = p, !.posted = q, !.faulty = f] /\ (q => p = "gate")
      <4>1. CASE ok /\ ~lost
        BY <2>2, <4>1
      <4>2. CASE ~(ok /\ ~lost)
        BY <2>2, <4>2
      <4> QED
        BY <4>1, <4>2
    <3>2. DOMAIN jobs[j] = DOMAIN NoJob
      BY <1>1 DEF IsJob
    <3> QED
      BY <2>2, <3>1, <3>2 DEF NoJob, Onward, At
  <2>4. ASSUME NEW i \in 1 .. Jobs, i # j PROVE Onward(jobs[i], jobs'[i])
    <3>1. jobs'[i] = [jobs[i] EXCEPT !.quiet = jobs[i].quiet /\ req = "noop"]
      BY <2>1, <2>4 DEF Written
    <3> QED
      BY <1>1, <3>1 DEF IsJob, NoJob, Onward
  <2> QED
    BY <2>3, <2>4
<1>4. CASE RequestFails
  <2>1. PICK j \in 1 .. Jobs :
          /\ jobs[j].pc \in {"list", "write"}
          /\ Set(j, [jobs[j] EXCEPT !.pc = "red", !.faulty = TRUE])
    BY <1>4 DEF RequestFails
  <2>2. jobs'[j] = [jobs[j] EXCEPT !.pc = "red", !.faulty = TRUE]
        /\ \A i \in 1 .. Jobs : i # j => jobs'[i] = jobs[i]
    BY <2>1, SetIs
  <2>3. Onward(jobs[j], jobs'[j])
    BY <1>1, <2>1, <2>2 DEF IsJob, NoJob, Onward, Paged
  <2> QED
    BY <2>2, <2>3 DEF Onward
<1>5. CASE HumanEdits \/ HumanDeletes
  <2>1. \A i \in 1 .. Jobs : jobs'[i] = [jobs[i] EXCEPT !.quiet = FALSE]
    BY <1>5, TouchedIs DEF HumanEdits, HumanDeletes, TouchedOnly
  <2>2. ASSUME NEW i \in 1 .. Jobs PROVE Onward(jobs[i], jobs'[i])
    <3>1. jobs'[i] = [jobs[i] EXCEPT !.quiet = FALSE] /\ IsJob(jobs[i])
      BY <1>1, <2>1
    <3> QED
      BY <3>1 DEF IsJob, NoJob, Onward
  <2> QED
    BY <2>2
<1>6. CASE HumanComments \/ MoveBase \/ UNCHANGED vars
  <2>1. jobs' = jobs
    BY <1>6 DEF HumanComments, MoveBase, vars
  <2> QED
    BY <2>1 DEF Onward
<1> QED
  BY <1>2, <1>3, <1>4, <1>5, <1>6

LEMMA FindStep ==
  ASSUME TypeInv, PageInv, FindInv, [Next]_vars
  PROVE  FindInv'
<1>1. inputs' = inputs
  BY DEF Next, vars, Push, MoveBase, Rerun, Check, BuildDiff, ExportEvidence, Summarise, Gate,
         Goes, Own, List, Write, RequestFails, HumanComments, HumanEdits, HumanDeletes
<1>2. DOMAIN jobs = 1 .. Jobs /\ \A i \in 1 .. Jobs : IsJob(jobs[i]) /\ Paged(jobs[i])
  BY DEF TypeInv, PageInv
<1>3. SUFFICES \A i \in 1 .. Jobs : Findings(jobs'[i])
  BY <1>1 DEF FindInv, Findings, Tree, Opts
\* A job goes on, and the others stay as they are.
<1>4. ASSUME NEW j \in 1 .. Jobs, NEW job, Set(j, job), Findings(job)
      PROVE  \A i \in 1 .. Jobs : Findings(jobs'[i])
  BY <1>4, SetIs DEF FindInv
<1>5. CASE Push
  <2>1. PICK p \in Patches, j \in 1 .. Jobs :
          Set(j, [NoJob EXCEPT !.pc = "check", !.was = base, !.patch = p])
    BY <1>5 DEF Push
  <2>2. Findings([NoJob EXCEPT !.pc = "check", !.was = base, !.patch = p])
    BY DEF Findings, NoJob
  <2> QED
    BY <1>4, <2>1, <2>2
<1>6. CASE Rerun
  <2>1. PICK j \in 1 .. Jobs :
          Set(j, [NoJob EXCEPT !.pc = "check", !.was = jobs[j].was, !.patch = jobs[j].patch,
                               !.run = jobs[j].run + 1])
    BY <1>6 DEF Rerun
  <2>2. Findings([NoJob EXCEPT !.pc = "check", !.was = jobs[j].was, !.patch = jobs[j].patch,
                               !.run = jobs[j].run + 1])
    BY DEF Findings, NoJob
  <2> QED
    BY <1>4, <2>1, <2>2
<1>7. CASE Check
  <2>1. PICK j \in 1 .. Jobs :
          /\ At(j, "check")
          /\ Set(j, [jobs[j] EXCEPT
                       !.pc = "diff",
                       !.exit = ShouldFail(Diagnostics(Tree(jobs[j]), Opts), Opts)])
    BY <1>7 DEF Check, Goes
  <2> DEFINE new == [jobs[j] EXCEPT
                       !.pc = "diff",
                       !.exit = ShouldFail(Diagnostics(Tree(jobs[j]), Opts), Opts)]
  <2>2. /\ new.pc = "diff" /\ new.exit = ShouldFail(Diagnostics(Tree(jobs[j]), Opts), Opts)
        /\ new.was = jobs[j].was /\ new.patch = jobs[j].patch /\ new.posted = jobs[j].posted
        /\ new.diff = jobs[j].diff /\ new.found = jobs[j].found
    BY <1>2 DEF IsJob, NoJob
  <2>3. ~jobs[j].posted
    BY <1>2, <2>1 DEF Paged, At
  <2> HIDE DEF new
  <2>4. Tree(new) = Tree(jobs[j])
    BY <2>2 DEF Tree
  <2>5. Findings(new)
    BY <2>2, <2>3, <2>4 DEF FindInv, Findings
  <2> QED
    BY <1>4, <2>1, <2>5 DEF new
<1>8. CASE BuildDiff
  <2>1. PICK j \in 1 .. Jobs :
          /\ At(j, "diff")
          /\ LET t  == Tree(jobs[j])
                 d  == Diff(base.skills, t.skills)
             IN  \/ Set(j, [jobs[j] EXCEPT !.pc    = IF Opts.summary THEN "evidence" ELSE "list",
                                           !.found = base, !.diff = d, !.body = [diff |-> d]])
                 \/ Set(j, [jobs[j] EXCEPT !.pc = "red"])
    BY <1>8 DEF BuildDiff, Goes
  <2> DEFINE d == Diff(base.skills, Tree(jobs[j]).skills)
             new == [jobs[j] EXCEPT !.pc    = IF Opts.summary THEN "evidence" ELSE "list",
                                    !.found = base, !.diff = d, !.body = [diff |-> d]]
             bad == [jobs[j] EXCEPT !.pc = "red"]
  <2>2. /\ new.pc = (IF Opts.summary THEN "evidence" ELSE "list") /\ new.exit = jobs[j].exit
        /\ new.was = jobs[j].was /\ new.patch = jobs[j].patch /\ new.posted = jobs[j].posted
        /\ new.diff = d /\ new.found = base
    BY <1>2 DEF IsJob, NoJob
  <2>3. /\ bad.pc = "red" /\ bad.exit = jobs[j].exit
        /\ bad.was = jobs[j].was /\ bad.patch = jobs[j].patch /\ bad.posted = jobs[j].posted
        /\ bad.diff = jobs[j].diff /\ bad.found = jobs[j].found
    BY <1>2 DEF IsJob, NoJob
  <2>4. ~jobs[j].posted /\ jobs[j].exit = ShouldFail(Diagnostics(Tree(jobs[j]), Opts), Opts)
    BY <1>2, <2>1 DEF Paged, At, FindInv, Findings
  <2>5. Set(j, new) \/ Set(j, bad)
    BY <2>1
  <2> HIDE DEF new, bad
  <2>6. Tree(new) = Tree(jobs[j]) /\ Tree(bad) = Tree(jobs[j])
    BY <2>2, <2>3 DEF Tree
  <2>7. Findings(new)
    BY <2>2, <2>4, <2>6 DEF Findings
  <2>8. Findings(bad)
    BY <2>3, <2>4, <2>6 DEF FindInv, Findings
  <2> QED
    BY <1>4, <2>5, <2>7, <2>8
<1>9. CASE ExportEvidence
  <2>1. PICK j \in 1 .. Jobs :
          /\ At(j, "evidence")
          /\ Set(j, [jobs[j] EXCEPT
                       !.pc       = "summary",
                       !.evidence = Snapshot(DiagnosticsAgain(Tree(jobs[j]), Opts),
                                             <<j, jobs[j].run>>)])
    BY <1>9 DEF ExportEvidence, Goes
  <2> DEFINE e == Snapshot(DiagnosticsAgain(Tree(jobs[j]), Opts), <<j, jobs[j].run>>)
             new == [jobs[j] EXCEPT !.pc = "summary", !.evidence = e]
  <2>2. /\ new.pc = "summary" /\ new.exit = jobs[j].exit /\ new.evidence = e
        /\ new.was = jobs[j].was /\ new.patch = jobs[j].patch /\ new.posted = jobs[j].posted
        /\ new.diff = jobs[j].diff /\ new.found = jobs[j].found
    BY <1>2 DEF IsJob, NoJob
  <2>3. e.status = Status(DiagnosticsAgain(Tree(jobs[j]), Opts))
    BY DEF Snapshot
  <2>4. ~jobs[j].posted
    BY <1>2, <2>1 DEF Paged, At
  <2>5. Set(j, new)
    BY <2>1
  <2> HIDE DEF new, e
  <2>6. Tree(new) = Tree(jobs[j])
    BY <2>2 DEF Tree
  <2>7. Findings(new)
    BY <2>1, <2>2, <2>3, <2>4, <2>6 DEF FindInv, Findings, At
  <2> QED
    BY <1>4, <2>5, <2>7
<1>10. CASE Summarise
  <2>1. PICK j \in 1 .. Jobs :
          At(j, "summary") /\ Set(j, [jobs[j] EXCEPT !.pc = "list", !.body = Summary(jobs[j])])
    BY <1>10 DEF Summarise, Goes
  <2> DEFINE b == Summary(jobs[j])
             new == [jobs[j] EXCEPT !.pc = "list", !.body = b]
  <2>2. /\ new.pc = "list" /\ new.exit = jobs[j].exit /\ new.evidence = jobs[j].evidence
        /\ new.was = jobs[j].was /\ new.patch = jobs[j].patch /\ new.posted = jobs[j].posted
        /\ new.diff = jobs[j].diff /\ new.found = jobs[j].found /\ new.body = b
    BY <1>2 DEF IsJob, NoJob
  <2>3. /\ b.check = Status(Diagnostics(Tree(jobs[j]), Opts))
        /\ b.trace = Trace(Tree(jobs[j]), Opts)
    BY DEF Summary
  <2>4. ~jobs[j].posted
    BY <1>2, <2>1 DEF Paged, At
  <2>5. Set(j, new)
    BY <2>1
  <2> HIDE DEF new, b
  <2>6. Tree(new) = Tree(jobs[j])
    BY <2>2 DEF Tree
  <2>7. Findings(new)
    BY <2>1, <2>2, <2>3, <2>4, <2>6 DEF FindInv, Findings, At
  <2> QED
    BY <1>4, <2>5, <2>7
<1>11. CASE Gate
  <2>1. PICK j \in 1 .. Jobs :
          /\ At(j, "gate")
          /\ Set(j, [jobs[j] EXCEPT !.pc = IF jobs[j].exit THEN "red" ELSE "green"])
    BY <1>11 DEF Gate, Goes
  <2> DEFINE new == [jobs[j] EXCEPT !.pc = IF jobs[j].exit THEN "red" ELSE "green"]
  <2>2. /\ new.pc = (IF jobs[j].exit THEN "red" ELSE "green")
        /\ new.exit = jobs[j].exit /\ new.evidence = jobs[j].evidence
        /\ new.was = jobs[j].was /\ new.patch = jobs[j].patch /\ new.posted = jobs[j].posted
        /\ new.diff = jobs[j].diff /\ new.found = jobs[j].found /\ new.body = jobs[j].body
    BY <1>2 DEF IsJob, NoJob
  <2>3. Set(j, new)
    BY <2>1
  <2> HIDE DEF new
  <2>4. Tree(new) = Tree(jobs[j])
    BY <2>2 DEF Tree
  <2>5. Findings(new)
    BY <2>1, <2>2, <2>4 DEF FindInv, Findings, At
  <2> QED
    BY <1>4, <2>3, <2>5
<1>12. CASE List \/ Write \/ RequestFails \/ HumanComments \/ HumanEdits \/ HumanDeletes
            \/ MoveBase \/ UNCHANGED vars
  <2>1. \A i \in 1 .. Jobs : Onward(jobs[i], jobs'[i])
    BY <1>12, OnwardIs
  <2>2. ASSUME NEW i \in 1 .. Jobs PROVE Findings(jobs'[i])
    <3>1. Tree(jobs'[i]) = Tree(jobs[i])
      BY <2>1 DEF Onward, Tree
    <3>2. Findings(jobs[i]) /\ Paged(jobs[i])
      BY <1>2 DEF FindInv
    <3> QED
      BY <2>1, <3>1, <3>2 DEF Onward, Findings, Paged
  <2> QED
    BY <2>2
<1> QED
  BY <1>5, <1>6, <1>7, <1>8, <1>9, <1>10, <1>11, <1>12 DEF Next

\* The difference lists what differs, key by key.
LEMMA DiffLists ==
  ASSUME NEW old, NEW new
  PROVE  Listed(Diff(old, new)) =
           (DOMAIN new \ DOMAIN old) \cup (DOMAIN old \ DOMAIN new)
           \cup {k \in DOMAIN old \cap DOMAIN new :
                   <<old[k].hash, old[k].governance, old[k].status>>
                     # <<new[k].hash, new[k].governance, new[k].status>>}
<1> DEFINE changed == {k \in DOMAIN old \cap DOMAIN new : Changes(old[k], new[k]) # {}}
<1>1. /\ Diff(old, new).added = DOMAIN new \ DOMAIN old
      /\ Diff(old, new).removed = DOMAIN old \ DOMAIN new
      /\ DOMAIN Diff(old, new).changed = changed
  BY DEF Diff
<1>2. \A f, g : /\ "content_hash" \in Changes(f, g) <=> f.hash # g.hash
                /\ "governance" \in Changes(f, g) <=> f.governance # g.governance
                /\ "status" \in Changes(f, g) <=> f.status # g.status
                /\ Changes(f, g) \subseteq {"content_hash", "governance", "status"}
  BY DEF Changes
<1>3. \A f, g : Changes(f, g) # {} <=>
                  <<f.hash, f.governance, f.status>> # <<g.hash, g.governance, g.status>>
  <2> SUFFICES ASSUME NEW f, NEW g
               PROVE  Changes(f, g) # {} <=>
                        (f.hash # g.hash \/ f.governance # g.governance \/ f.status # g.status)
    OBVIOUS
  <2>1. Changes(f, g) # {} <=> \/ "content_hash" \in Changes(f, g)
                               \/ "governance" \in Changes(f, g)
                               \/ "status" \in Changes(f, g)
    BY <1>2
  <2> QED
    BY <1>2, <2>1
<1>4. changed = {k \in DOMAIN old \cap DOMAIN new :
                   <<old[k].hash, old[k].governance, old[k].status>>
                     # <<new[k].hash, new[k].governance, new[k].status>>}
  BY <1>3
<1> QED
  BY <1>1, <1>4 DEF Listed

---------------------------------------------------------------------------
(* Theorems *)

LEMMA ReviewInit == Init => TypeInv /\ PageInv /\ OneInv /\ ShownInv /\ FindInv
<1> SUFFICES ASSUME Init PROVE TypeInv /\ PageInv /\ OneInv /\ ShownInv /\ FindInv
  OBVIOUS
<1>1. /\ calm = TRUE /\ comments = <<>> /\ IsList(comments) /\ Len(comments) = 0
      /\ DOMAIN comments = 1 .. 0
      /\ DOMAIN jobs = 1 .. Jobs /\ \A j \in 1 .. Jobs : jobs[j] = NoJob
  BY ListEmpty, ListIs DEF Init
<1>2. 1 .. 0 = {}
  OBVIOUS
<1>3. IsJob(NoJob) /\ Paged(NoJob) /\ ~Holding(NoJob)
  BY NoJobIs DEF Paged, Holding
<1>4. Findings(NoJob)
  BY NoJobIs DEF Findings
<1>5. TypeInv /\ PageInv
  BY <1>1, <1>2, <1>3 DEF TypeInv, PageInv
<1>6. OneInv
  BY <1>1, <1>2, <1>3 DEF OneInv, Single
<1>7. ShownInv
  BY <1>1, <1>3, NoJobIs DEF ShownInv
<1>8. FindInv
  BY <1>1, <1>4 DEF FindInv
<1> QED
  BY <1>5, <1>6, <1>7, <1>8

\* The invariants on which the four properties rest.
LEMMA ReviewKept == Spec => [](TypeInv /\ PageInv /\ OneInv /\ ShownInv /\ FindInv)
<1>1. TypeInv /\ PageInv /\ OneInv /\ ShownInv /\ FindInv /\ [Next]_vars
        => (TypeInv /\ PageInv /\ OneInv /\ ShownInv /\ FindInv)'
  BY TypeStep, OneStep, ShownStep, FindStep
<1> QED
  BY <1>1, ReviewInit, PTL DEF Spec

\* One comment of the action, however many jobs, pages, faults and comments of
\* people there are (upsert_marker_comment), as long as no two jobs have the
\* comments in hand at once and none is deleted under a listing.
THEOREM OneCommentKept == Spec => []OneComment
<1>1. ASSUME TypeInv, OneInv PROVE OneComment
  <2> SUFFICES ASSUME calm
               PROVE  Cardinality({n \in DOMAIN comments : IsOurs(comments[n])}) <= 1
    BY DEF OneComment
  <2> DEFINE ours == {n \in DOMAIN comments : IsOurs(comments[n])}
  <2>1. \A m, n \in ours : m = n
    BY <1>1, ListIs DEF TypeInv, OneInv, Single
  <2>2. CASE ours = {}
    BY <2>2, FS_EmptySet
  <2>3. CASE ours # {}
    <3>1. PICK n \in ours : ours = {n}
      BY <2>1, <2>3
    <3> HIDE DEF ours
    <3>2. Cardinality(ours) = 1
      BY <3>1, FS_Singleton
    <3> QED
      BY <3>2 DEF ours
  <2> QED
    BY <2>2, <2>3
<1> QED
  BY <1>1, ReviewKept, PTL

\* What a job posted is in the newest comment of the action until somebody
\* touches the comments, duplicates or not (upsert_marker_comment).
THEOREM LatestIsShown == Spec => []LatestShown
<1>1. ASSUME TypeInv, ShownInv PROVE LatestShown
  <2> SUFFICES ASSUME NEW j \in 1 .. Jobs, jobs[j].posted, jobs[j].quiet
               PROVE  \E n \in Matching(comments) :
                        /\ \A m \in Matching(comments) : m <= n
                        /\ comments[n].body = jobs[j].body
    BY DEF LatestShown
  <2>1. Shows(comments, jobs[j].body)
    BY <1>1 DEF ShownInv
  <2>2. DOMAIN comments = 1 .. Len(comments)
    BY <1>1, ListIs DEF TypeInv
  <2> QED
    BY <2>1, <2>2 DEF Shows, Matching
<1> QED
  BY <1>1, ReviewKept, PTL

\* A job lists what the pull request does; of what others do meanwhile it may list
\* the skills they have changed, and no others (diff_registries, registry_key).
THEOREM ListsOwnChanges == Spec => []OwnChanges
<1>1. ASSUME FindInv PROVE OwnChanges
  <2> DEFINE old(j)    == jobs[j].was.skills
             p(j)      == jobs[j].patch
             others(j) == Moved(old(j), jobs[j].found.skills)
             own(j)    == ((p(j).drop \cap DOMAIN old(j)) \ DOMAIN p(j).set)
                          \cup {k \in DOMAIN p(j).set :
                                  k \in DOMAIN old(j) =>
                                    <<p(j).set[k].hash, p(j).set[k].governance, p(j).set[k].status>>
                                      # <<old(j)[k].hash, old(j)[k].governance, old(j)[k].status>>}
  <2> SUFFICES ASSUME NEW j \in 1 .. Jobs, jobs[j].diff # None
               PROVE  Listed(jobs[j].diff) \ others(j) = own(j) \ others(j)
    BY DEF OwnChanges
  <2> DEFINE was   == jobs[j].was.skills
             patch == jobs[j].patch
             found == jobs[j].found.skills
             head  == Tree(jobs[j]).skills
  <2>1. jobs[j].diff = Diff(found, head)
    BY <1>1 DEF FindInv, Findings
  <2>2. /\ DOMAIN head = (DOMAIN was \ patch.drop) \cup DOMAIN patch.set
        /\ \A k \in DOMAIN head : head[k] = IF k \in DOMAIN patch.set THEN patch.set[k] ELSE was[k]
    BY DEF Tree, Merged
  <2>3. Listed(jobs[j].diff) =
           (DOMAIN head \ DOMAIN found) \cup (DOMAIN found \ DOMAIN head)
           \cup {k \in DOMAIN found \cap DOMAIN head :
                   <<found[k].hash, found[k].governance, found[k].status>>
                     # <<head[k].hash, head[k].governance, head[k].status>>}
    BY <2>1, DiffLists
  <2>4. own(j) =
          ((patch.drop \cap DOMAIN was) \ DOMAIN patch.set)
          \cup {k \in DOMAIN patch.set :
                  k \in DOMAIN was =>
                    <<patch.set[k].hash, patch.set[k].governance, patch.set[k].status>>
                      # <<was[k].hash, was[k].governance, was[k].status>>}
    OBVIOUS
  <2>5. others(j) = Moved(was, found)
    OBVIOUS
  <2> HIDE DEF was, patch, found, head, own, others
  <2>6. \A k : k \notin others(j) =>
                 /\ k \in DOMAIN was <=> k \in DOMAIN found
                 /\ k \in DOMAIN was =>
                      <<was[k].hash, was[k].governance, was[k].status>>
                        = <<found[k].hash, found[k].governance, found[k].status>>
    BY <2>5 DEF Moved
  <2>7. ASSUME NEW k, k \notin others(j) PROVE k \in Listed(jobs[j].diff) <=> k \in own(j)
    <3>1. CASE k \in DOMAIN patch.set
      BY <2>2, <2>3, <2>4, <2>6, <2>7, <3>1
    <3>2. CASE k \notin DOMAIN patch.set
      BY <2>2, <2>3, <2>4, <2>6, <2>7, <3>2
    <3> QED
      BY <3>1, <3>2
  <2> QED
    BY <2>7
<1> QED
  BY <1>1, ReviewKept, PTL

\* The exit code of the check, the summary and the evidence of one job agree at
\* the threshold "error" (_should_fail, _check_summary, _policy_trace).
THEOREM OneVerdict == Spec => []VerdictsAgree
<1>1. ASSUME FindInv, PageInv PROVE VerdictsAgree
  <2> SUFFICES ASSUME NEW j \in 1 .. Jobs, jobs[j].posted, Opts.summary, Opts.failOn = "error"
               PROVE  /\ jobs[j].body.check = "fail" <=> jobs[j].evidence.status = "fail"
                      /\ jobs[j].body.check = "fail" => ~At(j, "green")
                      /\ At(j, "red") /\ jobs[j].body.check # "fail"
                           => "SO007" \in jobs[j].body.trace
    BY DEF VerdictsAgree
  <2> DEFINE t == Tree(jobs[j])
             d == Diagnostics(t, Opts)
  <2>1. /\ jobs[j].body.check = Status(d) /\ jobs[j].body.trace = Trace(t, Opts)
        /\ jobs[j].evidence.status = Status(d)
        /\ jobs[j].exit = ShouldFail(d, Opts)
        /\ At(j, "green") => ~jobs[j].exit
        /\ At(j, "red") => jobs[j].exit
    BY <1>1 DEF FindInv, Findings, PageInv, Paged, At, DiagnosticsAgain
  <2>2. Status(d) = "fail" <=> HasError(d)
    BY DEF Status
  <2>3. ShouldFail(d, Opts) <=> (HasError(d) \/ (Opts.lock /\ "SO007" \in Failed(d)))
    <3>1. Opts.failOn # "never" /\ Opts.failOn # "warning"
      OBVIOUS
    <3> HIDE DEF d
    <3> QED
      BY <3>1, Zenon DEF ShouldFail
  <2> QED
    BY <2>1, <2>2, <2>3 DEF Trace
<1> QED
  BY <1>1, ReviewKept, PTL
=============================================================================
