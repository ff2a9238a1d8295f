------------------------------ MODULE RunStore ------------------------------
(***************************************************************************)
(* pipeline/store.py: the directory of all runs of a project.  Writers     *)
(* take a lock, readers do not; a save replaces two files, the run's and   *)
(* .latest; a migration copies the runs of an older version, file by file. *)
(*                                                                         *)
(* PipelineService follows one run through this store.  Here a run is a    *)
(* text that its next save replaces, and texts are numbered in the order   *)
(* they are written: 0 is no file, and the text of legacy run r is r.      *)
(***************************************************************************)
EXTENDS Naturals

CONSTANTS
  N,              \* runs, numbered in the order of their file names
  PipelineOf,     \* RunState.pipeline_id
  LegacyRev,      \* the legacy runs, with their revisions
  LegacyLatest,   \* .latest of the legacy directory, 0 for none
  Deletable,      \* the runs somebody may delete
  Callers,
  MaxText, MaxCrashes    \* bounds

Runs == 1 .. N
Pipelines == {PipelineOf[r] : r \in Runs}
Legacy == DOMAIN LegacyRev
AnyPipeline == "any"      \* load_latest(None)
Nobody == "nobody"

ASSUME StoreAssumption ==
  /\ N \in Nat
  /\ DOMAIN PipelineOf = Runs /\ AnyPipeline \notin Pipelines
  /\ LegacyRev \in [Legacy -> Nat] /\ Legacy \subseteq Runs
  /\ LegacyLatest \in Runs \cup {0}
  /\ Deletable \subseteq Runs
  /\ Nobody \notin Callers

VARIABLES
  files,      \* runs/{pipeline}_{run}.json: revision, text, and modification time
  latest,     \* .latest
  lock,       \* .state.lock
  clock,      \* texts and modification times so far
  pc, mem,    \* where each caller is, and its copy of a run
  returned,   \* history: the text of each run's last save that returned
  moved,      \* history: a migration wrote into the directory
  crashes

vars == <<files, latest, lock, clock, pc, mem, returned, moved, crashes>>
shared == <<files, latest, lock, clock, returned, moved, crashes>>

NoFile == [rev |-> 0, text |-> 0, time |-> 0]
Idle == [run |-> 0, rev |-> 0, text |-> 0, want |-> AnyPipeline, list |-> {},
         left |-> {}, there |-> {}, since |-> {}]

Present == {r \in Runs : files[r].text # 0}
Wanted(p) == {r \in Runs : p \in {AnyPipeline, PipelineOf[r]}}
\* A listed file, with the modification time that it is sorted by.
Listed(r) == [run |-> r, time |-> files[r].time]
Newest(list) == {e \in list : \A o \in list : o.time <= e.time}
First(runs) == {r \in runs : \A s \in runs : r <= s}
Copy(c, r) == [mem[c] EXCEPT !.run = r, !.rev = files[r].rev, !.text = files[r].text]

Init ==
  /\ files = [r \in Runs |-> NoFile]
  /\ latest = 0
  /\ lock = Nobody
  /\ clock = N
  /\ pc = [c \in Callers |-> "idle"]
  /\ mem = [c \in Callers |-> Idle]
  /\ returned = [r \in Runs |-> 0]
  /\ moved = FALSE
  /\ crashes = 0

Goto(c, l) == pc' = [pc EXCEPT ![c] = l]
Remember(c, m) == mem' = [mem EXCEPT ![c] = m]
Unlock == lock' = Nobody

---------------------------------------------------------------------------
(* Readers. *)

\* engine.start draws the id, so no two callers start one run.
Start(c, r) ==
  /\ pc[c] = "idle"
  /\ r \notin Legacy \cup Present
  /\ returned[r] = 0 /\ latest # r /\ \A d \in Callers : mem[d].run # r
  /\ Goto(c, "loaded")
  /\ Remember(c, [Idle EXCEPT !.run = r])
  /\ UNCHANGED shared

Load(c, r) ==
  /\ pc[c] = "idle"
  /\ r \in Present
  /\ Goto(c, "loaded")
  /\ Remember(c, Copy(c, r))
  /\ UNCHANGED shared

\* load_latest reads .latest; what it is there to find is remembered.
ReadLatest(c, p) ==
  /\ pc[c] = "idle"
  /\ Goto(c, IF latest = 0 THEN "list" ELSE "latest")
  /\ Remember(c, [Idle EXCEPT
       !.run = latest,
       !.want = p,
       !.there = Present \cap Wanted(p),
       !.since = {returned[r] : r \in Wanted(p) \ Deletable}])
  /\ UNCHANGED shared

OpenLatest(c) ==
  /\ pc[c] = "latest"
  /\ IF mem[c].run \in Present \cap Wanted(mem[c].want)
       THEN Goto(c, "found") /\ Remember(c, Copy(c, mem[c].run))
       ELSE Goto(c, "list") /\ UNCHANGED mem
  /\ UNCHANGED shared

ListFiles(c) ==
  /\ pc[c] = "list"
  /\ Goto(c, "next")
  /\ Remember(c, [mem[c] EXCEPT
       !.run = 0,
       !.list = {Listed(r) : r \in Present}])
  /\ UNCHANGED shared

\* Mutated OpenNext: only the newest file is looked at.
OpenFirst(c) ==
  /\ pc[c] = "next"
  /\ \/ \E e \in Newest(mem[c].list) :
          /\ e.run \in Present \cap Wanted(mem[c].want)
          /\ Goto(c, "found")
          /\ Remember(c, Copy(c, e.run))
     \/ /\ \A e \in Newest(mem[c].list) : e.run \notin Present \cap Wanted(mem[c].want)
        /\ Goto(c, "none")
        /\ UNCHANGED mem
  /\ UNCHANGED shared

\* The newest file that is left; one that was deleted since ends the call with
\* an error.
OpenNext(c) ==
  /\ pc[c] = "next"
  /\ \/ /\ mem[c].list = {}
        /\ Goto(c, "none")
        /\ UNCHANGED mem
     \/ \E e \in Newest(mem[c].list) :
        \/ /\ e.run \in Present \cap Wanted(mem[c].want)
           /\ Goto(c, "found")
           /\ Remember(c, Copy(c, e.run))
        \/ /\ e.run \in Present \ Wanted(mem[c].want)
           /\ Remember(c, [mem[c] EXCEPT !.list = @ \ {e}])
           /\ UNCHANGED pc
        \/ /\ e.run \notin Present
           /\ Goto(c, "idle")
           /\ Remember(c, Idle)
  /\ UNCHANGED shared

\* The handler uses the copy that load_latest found.
Use(c) ==
  /\ pc[c] = "found"
  /\ Goto(c, "loaded")
  /\ Remember(c, [Idle EXCEPT !.run = mem[c].run, !.rev = mem[c].rev, !.text = mem[c].text])
  /\ UNCHANGED shared

\* The call ends.
Return(c) ==
  /\ pc[c] \in {"loaded", "none"}
  /\ Goto(c, "idle")
  /\ Remember(c, Idle)
  /\ UNCHANGED shared

---------------------------------------------------------------------------
(* Writers. *)

\* save: the lock, and the comparison of revisions under it.
Save(c) ==
  /\ pc[c] = "loaded"
  /\ clock < MaxText
  /\ lock = Nobody
  /\ mem[c].rev = files[mem[c].run].rev
  /\ lock' = c
  /\ Goto(c, "write")
  /\ UNCHANGED <<mem, files, latest, clock, returned, moved, crashes>>

\* ConcurrentStateError.
SaveRefused(c) ==
  /\ pc[c] = "loaded"
  /\ lock = Nobody
  /\ mem[c].rev # files[mem[c].run].rev
  /\ Goto(c, "idle")
  /\ Remember(c, Idle)
  /\ UNCHANGED shared

\* Mutated WriteFile: the revision stays.
WriteFileSameRev(c) ==
  /\ pc[c] = "write"
  /\ clock' = clock + 1
  /\ files' = [files EXCEPT ![mem[c].run] =
                 [rev |-> mem[c].rev, text |-> clock + 1, time |-> clock + 1]]
  /\ Remember(c, [mem[c] EXCEPT !.text = clock + 1])
  /\ Goto(c, "mark")
  /\ UNCHANGED <<latest, lock, returned, moved, crashes>>

\* Mutated WriteFile: the lock is given up before .latest is written.
WriteFileUnlocks(c) ==
  /\ pc[c] = "write"
  /\ clock' = clock + 1
  /\ files' = [files EXCEPT ![mem[c].run] =
                 [rev |-> mem[c].rev + 1, text |-> clock + 1, time |-> clock + 1]]
  /\ Remember(c, [mem[c] EXCEPT !.rev = @ + 1, !.text = clock + 1])
  /\ Goto(c, "mark")
  /\ Unlock
  /\ UNCHANGED <<latest, returned, moved, crashes>>

WriteFile(c) ==
  /\ pc[c] = "write"
  /\ clock' = clock + 1
  /\ files' = [files EXCEPT ![mem[c].run] =
                 [rev |-> mem[c].rev + 1, text |-> clock + 1, time |-> clock + 1]]
  /\ Remember(c, [mem[c] EXCEPT !.rev = @ + 1, !.text = clock + 1])
  /\ Goto(c, "mark")
  /\ UNCHANGED <<latest, lock, returned, moved, crashes>>

\* _update_latest; the handler may go on and save its copy again.
WriteLatest(c) ==
  /\ pc[c] = "mark"
  /\ latest' = mem[c].run
  /\ returned' = [returned EXCEPT ![mem[c].run] = mem[c].text]
  /\ Unlock
  /\ Goto(c, "loaded")
  /\ UNCHANGED <<mem, files, clock, moved, crashes>>

Delete(c, r) ==
  /\ pc[c] = "idle"
  /\ lock = Nobody
  /\ r \in Deletable \cap Present
  /\ files' = [files EXCEPT ![r] = NoFile]
  /\ UNCHANGED <<latest, lock, clock, pc, mem, returned, moved, crashes>>

\* migrate_from.
Migrate(c) ==
  /\ pc[c] = "idle"
  /\ Legacy # {}
  /\ lock = Nobody
  /\ lock' = c
  /\ Goto(c, "copy")
  /\ Remember(c, [Idle EXCEPT !.left = Legacy])
  /\ UNCHANGED <<files, latest, clock, returned, moved, crashes>>

\* A run that is not there is copied, an identical one is passed over.
CopyFile(c) ==
  /\ pc[c] = "copy"
  /\ \E r \in First(mem[c].left) :
     /\ \/ /\ files[r].text = 0
           /\ clock < MaxText
           /\ clock' = clock + 1
           /\ files' = [files EXCEPT ![r] =
                          [rev |-> LegacyRev[r], text |-> r, time |-> clock + 1]]
        \/ /\ files[r].text = r
           /\ UNCHANGED <<files, clock>>
     /\ Remember(c, [mem[c] EXCEPT !.left = @ \ {r}])
  /\ moved' = TRUE
  /\ UNCHANGED <<pc, latest, lock, returned, crashes>>

\* A run that differs ends the migration; what was copied stays.
Differs(c) ==
  /\ pc[c] = "copy"
  /\ \E r \in First(mem[c].left) : files[r].text \notin {0, r}
  /\ Goto(c, "idle")
  /\ Remember(c, Idle)
  /\ Unlock
  /\ UNCHANGED <<files, latest, clock, returned, moved, crashes>>

CopyLatest(c) ==
  /\ pc[c] = "copy"
  /\ mem[c].left = {}
  /\ latest' = IF LegacyLatest \in Legacy THEN LegacyLatest ELSE latest
  /\ Goto(c, "idle")
  /\ Remember(c, Idle)
  /\ Unlock
  /\ UNCHANGED <<files, clock, returned, moved, crashes>>

\* The process dies; the system gives up its lock.
Crash(c) ==
  /\ pc[c] \in {"write", "mark", "copy"}
  /\ crashes < MaxCrashes
  /\ crashes' = crashes + 1
  /\ Goto(c, "idle")
  /\ Remember(c, Idle)
  /\ lock' = IF lock = c THEN Nobody ELSE lock
  /\ UNCHANGED <<files, latest, clock, returned, moved>>

Next ==
  \E c \in Callers :
    \/ \E r \in Runs : Start(c, r) \/ Load(c, r) \/ Delete(c, r)
    \/ \E p \in Pipelines \cup {AnyPipeline} : ReadLatest(c, p)
    \/ OpenLatest(c) \/ ListFiles(c) \/ OpenNext(c) \/ Use(c) \/ Return(c)
    \/ Save(c) \/ SaveRefused(c) \/ WriteFile(c) \/ WriteLatest(c)
    \/ Migrate(c) \/ CopyFile(c) \/ Differs(c) \/ CopyLatest(c)
    \/ Crash(c)

Spec == Init /\ [][Next]_vars

---------------------------------------------------------------------------
\* A save replaces the text it was made from and no other, and nothing but a
\* save replaces a text: no result of a racing caller is lost, no migration
\* overwrites a run, and no deleted run comes back (the revision check of save;
\* "conflicting targets fail closed", docs/PIPELINES.md).
Replaced(r) ==
  \/ files'[r] = NoFile
  \/ files[r].text = 0 /\ files'[r].text = r
  \/ \E c \in Callers : /\ pc[c] = "write" /\ mem[c].run = r
                        /\ files[r].text = mem[c].text
SavesBuildOn == [][\A r \in Runs : files'[r] # files[r] => Replaced(r)]_vars

\* load_latest finds a run if there is one all along.
NoneMissed == \A c \in Callers : pc[c] = "none" => mem[c].there \subseteq Deletable

\* load_latest finds no older text than the last one whose save had returned
\* when it was called, as long as no legacy run is in the directory.
FoundIsRecent ==
  \A c \in Callers : pc[c] = "found" /\ ~moved =>
    \A t \in mem[c].since : t <= mem[c].text

---------------------------------------------------------------------------
(* What the properties rest on. *)

\* A legacy run that is deleted and migrated again starts from its old revision.
LegacyKept == Legacy \cap Deletable = {}

TypeOK ==
  /\ files \in [Runs -> [rev : Nat, text : Nat, time : Nat]]
  /\ latest \in Runs \cup {0}
  /\ lock \in Callers \cup {Nobody}
  /\ clock \in Nat
  /\ pc \in [Callers -> {"idle", "loaded", "latest", "list", "next", "found", "none",
                         "write", "mark", "copy"}]
  /\ mem \in [Callers -> [run : Runs \cup {0}, rev : Nat, text : Nat,
                          want : Pipelines \cup {AnyPipeline},
                          list : SUBSET [run : Runs, time : Nat], left : SUBSET Legacy,
                          there : SUBSET Runs, since : SUBSET Nat]]
  /\ returned \in [Runs -> Nat]
  /\ moved \in BOOLEAN
  /\ crashes \in Nat

HoldsCopy(c) == pc[c] \in {"loaded", "found", "write", "mark"}
RunsNamed == \A c \in Callers : HoldsCopy(c) \/ pc[c] = "latest" => mem[c].run \in Runs

LockHeld == \A c \in Callers : pc[c] \in {"write", "mark", "copy"} <=> lock = c

\* Revisions and times of the files; .latest names the run saved last.
FilesDated ==
  /\ N <= clock
  /\ \A r \in Runs :
       /\ files[r].text = 0 => files[r] = NoFile
       /\ files[r].text # 0 /\ r \notin Legacy => files[r].rev > 0
       /\ files[r].text <= clock /\ files[r].time <= clock /\ returned[r] <= clock
       /\ r \notin Deletable => returned[r] <= files[r].time
       /\ ~moved => files[r].time = files[r].text
  /\ \A r \in Runs : ~moved /\ latest \in Present => returned[r] <= files[latest].text

\* Nobody else writes between the two replacements of a save.
SaveUnderWay ==
  \A c \in Callers : pc[c] = "mark" =>
    /\ mem[c].run \in Present
    /\ mem[c].text = clock
    /\ files[mem[c].run].text = clock /\ files[mem[c].run].time = clock

\* A migration has copied nothing yet, or wrote into the directory.
MigrationUnderWay ==
  \A c \in Callers : pc[c] = "copy" => Legacy # {} /\ (moved \/ mem[c].left = Legacy)

\* No copy is ahead of its file, and equal revisions mean equal texts; a copy
\* of revision 0 is that of the caller who started the run.
Follows(c) ==
  LET r == mem[c].run IN
  /\ r \in Legacy => r \in Present
  /\ r \in Present => /\ mem[c].rev <= files[r].rev
                      /\ mem[c].rev = files[r].rev => mem[c].text = files[r].text
  /\ r \notin Legacy /\ mem[c].rev = 0 =>
       /\ r \notin Present /\ mem[c].text = 0
       /\ \A d \in Callers \ {c} : HoldsCopy(d) => mem[d].run # r
  /\ pc[c] = "write" => mem[c].rev = files[r].rev
CopiesFollow == \A c \in Callers : HoldsCopy(c) => Follows(c)

\* What a call of load_latest still has ahead of it: the runs it must not miss,
\* and a file as recent as each save that had returned.
Kept(c) == Wanted(mem[c].want) \ Deletable
RunsAhead(c) ==
  /\ mem[c].there \subseteq Wanted(mem[c].want)
  /\ mem[c].there \ Deletable \subseteq Present
  /\ pc[c] = "next" => \A r \in mem[c].there \ Deletable : \E e \in mem[c].list : e.run = r
TextAhead(c, t) ==
  /\ t <= clock
  /\ pc[c] = "latest" /\ ~moved /\ mem[c].run \in Present => t <= files[mem[c].run].text
  /\ pc[c] # "next" => t = 0 \/ \E r \in Kept(c) \cap Present : t <= files[r].time
  /\ pc[c] = "next" => t = 0 \/ \E e \in mem[c].list : e.run \in Kept(c) /\ t <= e.time
ListKept(c) ==
  \A e \in mem[c].list : /\ e.time <= clock
                         /\ ~moved /\ e.run \in Present => e.time <= files[e.run].text
SearchUnderWay ==
  \A c \in Callers : pc[c] \in {"latest", "list", "next"} =>
    /\ RunsAhead(c)
    /\ \A t \in mem[c].since : TextAhead(c, t)
    /\ pc[c] = "next" => ListKept(c)

StoreInv ==
  /\ RunsNamed
  /\ LockHeld
  /\ FilesDated
  /\ SaveUnderWay
  /\ MigrationUnderWay
  /\ SearchUnderWay
  /\ LegacyKept => CopiesFollow
=============================================================================
