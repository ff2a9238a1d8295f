--------------------------- MODULE RunStore_proofs ---------------------------
(***************************************************************************)
(* Proofs about the directory of all runs.  StoreInv is the inductive      *)
(* invariant: the three properties that TLC checks on two callers and four *)
(* runs follow from it for every number of both.                           *)
(***************************************************************************)
EXTENDS RunStore, TLAPS

Mem == [run : Runs \cup {0}, rev : Nat, text : Nat, want : Pipelines \cup {AnyPipeline},
        list : SUBSET [run : Runs, time : Nat], left : SUBSET Legacy,
        there : SUBSET Runs, since : SUBSET Nat]
File == [rev : Nat, text : Nat, time : Nat]
Labels == {"idle", "loaded", "latest", "list", "next", "found", "none",
           "write", "mark", "copy"}

LEMMA IdleType == Idle \in Mem
BY DEF Idle, Mem

LEMMA CopyType ==
  ASSUME TypeOK, NEW c \in Callers, NEW r \in Runs
  PROVE  Copy(c, r) \in Mem
BY DEF TypeOK, Mem, Copy, File

\* Type correctness by variables, with the sets named above.
LEMMA TypeIs ==
  TypeOK <=> /\ files \in [Runs -> File] /\ pc \in [Callers -> Labels]
             /\ mem \in [Callers -> Mem]
             /\ latest \in Runs \cup {0} /\ lock \in Callers \cup {Nobody}
             /\ clock \in Nat /\ returned \in [Runs -> Nat]
             /\ moved \in BOOLEAN /\ crashes \in Nat
BY DEF TypeOK, Mem, File, Labels

LEMMA TypeNext == TypeOK' <=>
             /\ files' \in [Runs -> File] /\ pc' \in [Callers -> Labels]
             /\ mem' \in [Callers -> Mem]
             /\ latest' \in Runs \cup {0} /\ lock' \in Callers \cup {Nobody}
             /\ clock' \in Nat /\ returned' \in [Runs -> Nat]
             /\ moved' \in BOOLEAN /\ crashes' \in Nat
BY DEF TypeOK, Mem, File, Labels

LEMMA CopyIs ==
  ASSUME TypeOK, NEW c \in Callers, NEW r \in Runs
  PROVE  /\ Copy(c, r).run = r /\ Copy(c, r).rev = files[r].rev
         /\ Copy(c, r).text = files[r].text /\ Copy(c, r).since = mem[c].since
         /\ Copy(c, r).there = mem[c].there
BY TypeIs DEF Mem, Copy

LEMMA TypeInit == Init => TypeOK
<1>1. NoFile \in File
  BY DEF NoFile, File
<1>2. N \in Nat
  BY StoreAssumption
<1> SUFFICES ASSUME Init PROVE TypeOK
  OBVIOUS
<1>3. files \in [Runs -> File] /\ returned \in [Runs -> Nat]
  BY <1>1 DEF Init
<1>4. mem \in [Callers -> Mem]
  BY IdleType DEF Init
<1>5. pc \in [Callers -> Labels]
  BY DEF Init, Labels
<1> QED
  BY <1>2, <1>3, <1>4, <1>5, TypeIs DEF Init

LEMMA TypeStep ==
  ASSUME TypeOK, RunsNamed, [Next]_vars
  PROVE  TypeOK'
<1>1. /\ files \in [Runs -> File] /\ pc \in [Callers -> Labels]
      /\ mem \in [Callers -> Mem]
      /\ latest \in Runs \cup {0} /\ lock \in Callers \cup {Nobody}
      /\ clock \in Nat /\ returned \in [Runs -> Nat]
      /\ moved \in BOOLEAN /\ crashes \in Nat
  BY TypeIs
<1>2. Idle \in Mem
  BY IdleType
<1>3. CASE UNCHANGED vars
  BY <1>1, <1>3, TypeNext DEF vars
<1> SUFFICES ASSUME NEW c \in Callers, Next,
                    \/ \E r \in Runs : Start(c, r) \/ Load(c, r) \/ Delete(c, r)
                    \/ \E p \in Pipelines \cup {AnyPipeline} : ReadLatest(c, p)
                    \/ OpenLatest(c) \/ ListFiles(c) \/ OpenNext(c) \/ Use(c) \/ Return(c)
                    \/ Save(c) \/ SaveRefused(c) \/ WriteFile(c) \/ WriteLatest(c)
                    \/ Migrate(c) \/ CopyFile(c) \/ Differs(c) \/ CopyLatest(c)
                    \/ Crash(c)
             PROVE  TypeOK'
  BY <1>3 DEF Next
<1>4. mem[c] \in Mem /\ (HoldsCopy(c) => mem[c].run \in Runs)
  BY <1>1 DEF RunsNamed
<1>5. ASSUME NEW r \in Runs, Start(c, r) PROVE TypeOK'
  <2>1. [Idle EXCEPT !.run = r] \in Mem
    BY <1>2 DEF Mem
  <2> QED
    BY <1>1, <1>5, <2>1, TypeNext DEF Start, Goto, Remember, shared, Labels
<1>6. ASSUME NEW r \in Runs, Load(c, r) PROVE TypeOK'
  BY <1>1, <1>6, CopyType, TypeNext DEF Load, Goto, Remember, shared, Labels
<1>7. ASSUME NEW r \in Runs, Delete(c, r) PROVE TypeOK'
  <2>1. NoFile \in File
    BY DEF NoFile, File
  <2> QED
    BY <1>1, <1>7, <2>1, TypeNext DEF Delete
<1>8. ASSUME NEW p \in Pipelines \cup {AnyPipeline}, ReadLatest(c, p) PROVE TypeOK'
  <2> DEFINE there == Present \cap Wanted(p)
             since == {returned[r] : r \in Wanted(p) \ Deletable}
  <2>1. there \subseteq Runs /\ since \subseteq Nat
    BY <1>1 DEF Present, Wanted
  <2> HIDE DEF there, since
  <2>2. [Idle EXCEPT !.run = latest, !.want = p, !.there = there, !.since = since] \in Mem
    BY <1>1, <1>2, <2>1 DEF Mem
  <2>3. mem' = [mem EXCEPT ![c] = [Idle EXCEPT !.run = latest, !.want = p, !.there = there,
                                               !.since = since]]
    BY <1>8 DEF ReadLatest, Remember, there, since
  <2>4. mem' \in [Callers -> Mem]
    BY <1>1, <2>2, <2>3
  <2> QED
    BY <1>1, <1>8, <2>4, TypeNext DEF ReadLatest, Goto, shared, Labels
<1>9. ASSUME OpenLatest(c) PROVE TypeOK'
  <2>1. CASE mem[c].run \in Present \cap Wanted(mem[c].want)
    <3>1. Copy(c, mem[c].run) \in Mem
      BY <2>1, CopyType DEF Present
    <3> QED
      BY <1>1, <1>9, <2>1, <3>1, TypeNext DEF OpenLatest, Goto, Remember, shared, Labels
  <2>2. CASE ~(mem[c].run \in Present \cap Wanted(mem[c].want))
    BY <1>1, <1>9, <2>2, TypeNext DEF OpenLatest, Goto, shared, Labels
  <2> QED
    BY <2>1, <2>2
<1>10. ASSUME ListFiles(c) PROVE TypeOK'
  <2> DEFINE list == {Listed(r) : r \in Present}
  <2>1. list \subseteq [run : Runs, time : Nat]
    BY <1>1 DEF Present, Listed, File
  <2> HIDE DEF list
  <2>2. [mem[c] EXCEPT !.run = 0, !.list = list] \in Mem
    BY <1>4, <2>1 DEF Mem
  <2>3. mem' = [mem EXCEPT ![c] = [mem[c] EXCEPT !.run = 0, !.list = list]]
    BY <1>10 DEF ListFiles, Remember, list
  <2>4. mem' \in [Callers -> Mem]
    BY <1>1, <2>2, <2>3
  <2> QED
    BY <1>1, <1>10, <2>4, TypeNext DEF ListFiles, Goto, shared, Labels
<1>11. ASSUME OpenNext(c) PROVE TypeOK'
  <2>0. UNCHANGED shared
    BY <1>11 DEF OpenNext
  <2>1. CASE mem[c].list = {} /\ Goto(c, "none") /\ UNCHANGED mem
    BY <1>1, <2>0, <2>1, TypeNext DEF Goto, shared, Labels
  <2>2. ASSUME NEW e \in Newest(mem[c].list), e.run \in Present, Goto(c, "found"),
               Remember(c, Copy(c, e.run))
        PROVE  TypeOK'
    <3>1. Copy(c, e.run) \in Mem
      BY <2>2, CopyType DEF Present
    <3> QED
      BY <1>1, <2>0, <2>2, <3>1, TypeNext DEF Goto, Remember, shared, Labels
  <2>3. ASSUME NEW e, Remember(c, [mem[c] EXCEPT !.list = @ \ {e}]), UNCHANGED pc
        PROVE  TypeOK'
    <3>1. [mem[c] EXCEPT !.list = @ \ {e}] \in Mem
      BY <1>4 DEF Mem
    <3> QED
      BY <1>1, <2>0, <2>3, <3>1, TypeNext DEF Remember, shared
  <2>4. CASE Goto(c, "idle") /\ Remember(c, Idle)
    BY <1>1, <1>2, <2>0, <2>4, TypeNext DEF Goto, Remember, shared, Labels
  <2> QED
    BY <1>11, <2>1, <2>2, <2>3, <2>4 DEF OpenNext
<1>12. ASSUME Use(c) PROVE TypeOK'
  <2>1. [Idle EXCEPT !.run = mem[c].run, !.rev = mem[c].rev, !.text = mem[c].text] \in Mem
    BY <1>2, <1>4 DEF Mem
  <2> QED
    BY <1>1, <1>12, <2>1, TypeNext DEF Use, Goto, Remember, shared, Labels
<1>13. ASSUME Return(c) \/ SaveRefused(c) PROVE TypeOK'
  BY <1>1, <1>2, <1>13, TypeNext
  DEF Return, SaveRefused, Goto, Remember, shared, Labels
<1>14. ASSUME Save(c) PROVE TypeOK'
  BY <1>1, <1>14, TypeNext DEF Save, Goto, Labels
<1>15. ASSUME WriteFile(c) PROVE TypeOK'
  <2> DEFINE rev == mem[c].rev + 1  text == clock + 1
  <2>0. rev \in Nat /\ text \in Nat
    BY <1>1, <1>4 DEF Mem
  <2> HIDE DEF rev, text
  <2>1. [mem[c] EXCEPT !.rev = rev, !.text = text] \in Mem
    BY <1>4, <2>0 DEF Mem
  <2>2. [rev |-> rev, text |-> text, time |-> text] \in File
    BY <2>0 DEF File
  <2>3. /\ files' = [files EXCEPT ![mem[c].run] = [rev |-> rev, text |-> text, time |-> text]]
        /\ mem' = [mem EXCEPT ![c] = [mem[c] EXCEPT !.rev = rev, !.text = text]]
        /\ clock' = text
    BY <1>15 DEF WriteFile, Remember, rev, text
  <2>4. files' \in [Runs -> File] /\ mem' \in [Callers -> Mem]
    BY <1>1, <2>1, <2>2, <2>3
  <2> QED
    BY <1>1, <1>15, <2>0, <2>3, <2>4, TypeNext DEF WriteFile, Goto, Labels
<1>16. ASSUME WriteLatest(c) PROVE TypeOK'
  <2>1. mem[c].run \in Runs /\ mem[c].text \in Nat
    BY <1>4, <1>16 DEF WriteLatest, HoldsCopy, Mem
  <2> QED
    BY <1>1, <1>16, <2>1, TypeNext DEF WriteLatest, Goto, Unlock, Labels
<1>17. ASSUME Migrate(c) PROVE TypeOK'
  <2>1. [Idle EXCEPT !.left = Legacy] \in Mem
    BY <1>2 DEF Mem
  <2> QED
    BY <1>1, <1>17, <2>1, TypeNext DEF Migrate, Goto, Remember, Labels
<1>18. ASSUME CopyFile(c) PROVE TypeOK'
  <2>1. PICK r \in First(mem[c].left) :
          /\ \/ /\ clock' = clock + 1
                /\ files' = [files EXCEPT ![r] =
                               [rev |-> LegacyRev[r], text |-> r, time |-> clock + 1]]
             \/ UNCHANGED <<files, clock>>
          /\ Remember(c, [mem[c] EXCEPT !.left = @ \ {r}])
    BY <1>18 DEF CopyFile
  <2>2. r \in Legacy /\ r \in Nat /\ LegacyRev[r] \in Nat
    <3>1. mem[c].left \in SUBSET Legacy
      BY <1>4 DEF Mem
    <3>2. r \in Legacy
      BY <2>1, <3>1 DEF First
    <3>3. r \in 1 .. N /\ LegacyRev[r] \in Nat
      BY <3>2, StoreAssumption DEF Runs
    <3> QED
      BY <3>2, <3>3
  <2>3. [rev |-> LegacyRev[r], text |-> r, time |-> clock + 1] \in File
    BY <1>1, <2>2 DEF File
  <2>4. [mem[c] EXCEPT !.left = @ \ {r}] \in Mem
    BY <1>4 DEF Mem
  <2>5. files' \in [Runs -> File] /\ clock' \in Nat
    BY <1>1, <2>1, <2>3
  <2> QED
    BY <1>1, <1>18, <2>1, <2>4, <2>5, TypeNext DEF CopyFile, Remember
<1>19. ASSUME Differs(c) PROVE TypeOK'
  BY <1>1, <1>2, <1>19, TypeNext DEF Differs, Goto, Remember, Unlock, Labels
<1>20. ASSUME CopyLatest(c) PROVE TypeOK'
  BY <1>1, <1>2, <1>20, StoreAssumption, TypeNext
  DEF CopyLatest, Goto, Remember, Unlock, Labels
<1>21. ASSUME Crash(c) PROVE TypeOK'
  BY <1>1, <1>2, <1>21, TypeNext DEF Crash, Goto, Remember, Labels
<1> QED
  BY <1>5, <1>6, <1>7, <1>8, <1>9, <1>10, <1>11, <1>12, <1>13, <1>14, <1>15, <1>16, <1>17,
     <1>18, <1>19, <1>20, <1>21

---------------------------------------------------------------------------
(* What a step changes *)

\* The steps of caller c.
Step(c) ==
  \/ \E r \in Runs : Start(c, r) \/ Load(c, r) \/ Delete(c, r)
  \/ \E p \in Pipelines \cup {AnyPipeline} : ReadLatest(c, p)
  \/ OpenLatest(c) \/ ListFiles(c) \/ OpenNext(c) \/ Use(c) \/ Return(c)
  \/ Save(c) \/ SaveRefused(c) \/ WriteFile(c) \/ WriteLatest(c)
  \/ Migrate(c) \/ CopyFile(c) \/ Differs(c) \/ CopyLatest(c)
  \/ Crash(c)

LEMMA NextIsStep == Next <=> \E c \in Callers : Step(c)
BY DEF Next, Step

\* The caller is the only one who moves.
LEMMA OthersStay ==
  ASSUME TypeOK, NEW c \in Callers, Step(c), NEW d \in Callers, d # c
  PROVE  pc'[d] = pc[d] /\ mem'[d] = mem[d]
<1>1. pc \in [Callers -> Labels] /\ mem \in [Callers -> Mem]
  BY TypeIs
<1>2. CASE \E r \in Runs : Start(c, r) \/ Load(c, r) \/ Delete(c, r)
  BY <1>1, <1>2 DEF Start, Load, Delete, Goto, Remember
<1>3. CASE \/ \E p \in Pipelines \cup {AnyPipeline} : ReadLatest(c, p)
           \/ OpenLatest(c) \/ ListFiles(c) \/ Use(c) \/ Return(c)
  BY <1>1, <1>3 DEF ReadLatest, OpenLatest, ListFiles, Use, Return, Goto, Remember
<1>4. CASE OpenNext(c)
  BY <1>1, <1>4 DEF OpenNext, Goto, Remember
<1>5. CASE Save(c) \/ SaveRefused(c) \/ WriteFile(c) \/ WriteLatest(c)
  BY <1>1, <1>5 DEF Save, SaveRefused, WriteFile, WriteLatest, Goto, Remember
<1>6. CASE Migrate(c) \/ CopyFile(c) \/ Differs(c) \/ CopyLatest(c) \/ Crash(c)
  BY <1>1, <1>6 DEF Migrate, CopyFile, Differs, CopyLatest, Crash, Goto, Remember
<1> QED
  BY <1>2, <1>3, <1>4, <1>5, <1>6 DEF Step

\* Five of the steps change the directory.
LEMMA FewWrite ==
  ASSUME NEW c \in Callers, Step(c)
  PROVE  \/ UNCHANGED <<files, latest, clock, returned, moved>>
         \/ \E r \in Runs : Delete(c, r)
         \/ WriteFile(c) \/ WriteLatest(c) \/ CopyFile(c) \/ CopyLatest(c)
<1>1. CASE \/ \E r \in Runs : Start(c, r) \/ Load(c, r)
           \/ \E p \in Pipelines \cup {AnyPipeline} : ReadLatest(c, p)
           \/ OpenLatest(c) \/ ListFiles(c) \/ OpenNext(c) \/ Use(c) \/ Return(c)
           \/ SaveRefused(c)
  BY <1>1 DEF Start, Load, ReadLatest, OpenLatest, ListFiles, OpenNext, Use, Return,
              SaveRefused, shared
<1>2. CASE Save(c) \/ Migrate(c) \/ Differs(c) \/ Crash(c)
  BY <1>2 DEF Save, Migrate, Differs, Crash
<1> QED
  BY <1>1, <1>2 DEF Step

\* A migration copies a legacy run over no file, or passes over one.
LEMMA CopyFileIs ==
  ASSUME TypeOK, NEW c \in Callers, CopyFile(c)
  PROVE  \E r \in Legacy :
           \/ /\ files[r].text = 0 /\ clock' = clock + 1
              /\ files' = [files EXCEPT ![r] =
                             [rev |-> LegacyRev[r], text |-> r, time |-> clock + 1]]
           \/ /\ files[r].text = r /\ UNCHANGED <<files, clock>>
<1>1. PICK r \in First(mem[c].left) :
        \/ /\ files[r].text = 0 /\ clock' = clock + 1
           /\ files' = [files EXCEPT ![r] =
                          [rev |-> LegacyRev[r], text |-> r, time |-> clock + 1]]
        \/ /\ files[r].text = r /\ UNCHANGED <<files, clock>>
  BY DEF CopyFile
<1>2. mem[c] \in Mem
  BY TypeIs
<1>3. r \in Legacy
  BY <1>1, <1>2 DEF Mem, First
<1> QED
  BY <1>1, <1>3

---------------------------------------------------------------------------
(* The lock, and where the callers are *)

Underway == RunsNamed /\ LockHeld /\ MigrationUnderWay

LEMMA UnderwayInit == Init => Underway
BY StoreAssumption
DEF Init, Underway, RunsNamed, LockHeld, MigrationUnderWay, HoldsCopy

LEMMA UnderwayStep ==
  ASSUME TypeOK, TypeOK', Underway, NEW c \in Callers, Step(c)
  PROVE  Underway'
<1> USE DEF Underway
<1>1. /\ pc \in [Callers -> Labels] /\ mem \in [Callers -> Mem]
      /\ latest \in Runs \cup {0} /\ lock \in Callers \cup {Nobody} /\ Nobody \notin Callers
  BY TypeIs, StoreAssumption
<1>2. \A d \in Callers : d # c => pc'[d] = pc[d] /\ mem'[d] = mem[d]
  BY OthersStay
<1>3. moved => moved'
  BY FewWrite DEF WriteFile, WriteLatest, CopyFile, CopyLatest, Delete
<1>4. SUFFICES /\ HoldsCopy(c)' \/ pc'[c] = "latest" => mem'[c].run \in Runs
               /\ \/ lock' = lock /\ (pc'[c] \in {"write", "mark", "copy"} <=> lock = c)
                  \/ lock = Nobody /\ lock' = c /\ pc'[c] \in {"write", "mark", "copy"}
                  \/ lock = c /\ lock' = Nobody /\ pc'[c] \notin {"write", "mark", "copy"}
               /\ pc'[c] = "copy" => Legacy # {} /\ (moved' \/ mem'[c].left = Legacy)
  BY <1>1, <1>2, <1>3 DEF RunsNamed, LockHeld, MigrationUnderWay, HoldsCopy
<1>5. lock = c <=> pc[c] \in {"write", "mark", "copy"}
  BY DEF LockHeld
<1>6. HoldsCopy(c) \/ pc[c] = "latest" => mem[c].run \in Runs
  BY DEF RunsNamed
<1>7. CASE \E r \in Runs : Start(c, r) \/ Load(c, r) \/ Delete(c, r)
  BY <1>1, <1>5, <1>6, <1>7, CopyIs
  DEF Start, Load, Delete, Goto, Remember, Idle, shared, HoldsCopy
<1>8. CASE \E p \in Pipelines \cup {AnyPipeline} : ReadLatest(c, p)
  BY <1>1, <1>5, <1>6, <1>8 DEF ReadLatest, Goto, Remember, Idle, shared, HoldsCopy
<1>9. CASE OpenLatest(c) \/ ListFiles(c)
  BY <1>1, <1>5, <1>6, <1>9, CopyIs
  DEF OpenLatest, ListFiles, Goto, Remember, shared, HoldsCopy
<1>10. CASE OpenNext(c)
  <2>1. UNCHANGED shared /\ pc[c] = "next"
    BY <1>10 DEF OpenNext
  <2>2. /\ pc'[c] \in {"none", "next", "idle", "found"}
        /\ pc'[c] = "found" => \E r \in Present : mem'[c] = Copy(c, r)
    BY <1>1, <1>10 DEF OpenNext, Goto, Remember
  <2>3. pc'[c] = "found" => mem'[c].run \in Runs
    BY <2>2, CopyIs DEF Present
  <2> QED
    BY <1>1, <1>5, <2>1, <2>2, <2>3 DEF HoldsCopy, shared
<1>11. CASE Use(c) \/ Return(c) \/ SaveRefused(c)
  BY <1>1, <1>5, <1>6, <1>11, ZenonT(60)
  DEF Use, Return, SaveRefused, Goto, Remember, Idle, shared, HoldsCopy
<1>12. CASE Save(c) \/ WriteLatest(c)
  BY <1>1, <1>5, <1>6, <1>12 DEF Save, WriteLatest, Goto, Unlock, HoldsCopy
<1>13. CASE WriteFile(c)
  <2>1. mem'[c].run = mem[c].run
    BY <1>1, <1>13 DEF WriteFile, Remember, Mem
  <2> QED
    BY <1>1, <1>5, <1>6, <1>13, <2>1 DEF WriteFile, Goto, HoldsCopy
<1>14. CASE Migrate(c) \/ Differs(c) \/ CopyLatest(c)
  BY <1>1, <1>5, <1>6, <1>14
  DEF Migrate, Differs, CopyLatest, Goto, Remember, Unlock, Idle, HoldsCopy
<1>15. CASE CopyFile(c)
  BY <1>1, <1>5, <1>15 DEF CopyFile, HoldsCopy, MigrationUnderWay
<1>16. CASE Crash(c)
  BY <1>1, <1>5, <1>16 DEF Crash, Goto, Remember, HoldsCopy
<1> QED
  BY <1>7, <1>8, <1>9, <1>10, <1>11, <1>12, <1>13, <1>14, <1>15, <1>16 DEF Step

---------------------------------------------------------------------------
(* Revisions and times *)

LEMMA DatedInit == Init => FilesDated
BY StoreAssumption DEF Init, FilesDated, NoFile, Present, Runs

\* Only the lock's holder writes files; a save writes the run of its copy.
LEMMA WriteIs ==
  ASSUME TypeOK, RunsNamed, NEW c \in Callers, WriteFile(c)
  PROVE  /\ mem[c].run \in Runs /\ mem[c].rev \in Nat /\ clock' = clock + 1
         /\ files'[mem[c].run] =
              [rev |-> mem[c].rev + 1, text |-> clock + 1, time |-> clock + 1]
         /\ \A s \in Runs : s # mem[c].run => files'[s] = files[s]
         /\ mem'[c].run = mem[c].run /\ mem'[c].rev = mem[c].rev + 1
         /\ mem'[c].text = clock + 1
         /\ pc'[c] = "mark"
<1>1. /\ files \in [Runs -> File] /\ mem \in [Callers -> Mem] /\ pc \in [Callers -> Labels]
  BY TypeIs
<1>2. mem[c].run \in Runs
  BY DEF WriteFile, RunsNamed, HoldsCopy
<1>3. mem'[c] = [mem[c] EXCEPT !.rev = @ + 1, !.text = clock + 1]
  BY <1>1 DEF WriteFile, Remember
<1>4. /\ mem'[c].run = mem[c].run /\ mem'[c].rev = mem[c].rev + 1
      /\ mem'[c].text = clock + 1 /\ mem[c].rev \in Nat
  BY <1>1, <1>3 DEF Mem
<1> QED
  BY <1>1, <1>2, <1>4 DEF WriteFile, Goto

\* Files of kept runs stay and get newer; a text that was not there is newer
\* than all that were.
LEMMA FilesGrow ==
  ASSUME TypeOK, TypeOK', RunsNamed, FilesDated, NEW c \in Callers, Step(c)
  PROVE  /\ clock <= clock' /\ (moved => moved')
         /\ \A r \in Runs :
              /\ r \notin Deletable =>
                   /\ files[r].text # 0 => files'[r].text # 0
                   /\ files[r].time <= files'[r].time
              /\ ~moved' /\ files'[r].text # 0 =>
                   \/ clock < files'[r].text
                   \/ files[r].text # 0 /\ files'[r].text = files[r].text
<1>1. /\ files \in [Runs -> File] /\ files' \in [Runs -> File]
      /\ clock \in Nat /\ clock' \in Nat
  BY TypeIs, TypeNext
<1>2. \A r \in Runs : files[r].text <= clock /\ files[r].time <= clock
  BY DEF FilesDated
<1>3. CASE UNCHANGED <<files, clock, moved>>
  BY <1>1, <1>3 DEF File
<1>4. CASE \E r \in Runs : Delete(c, r)
  BY <1>1, <1>4 DEF Delete, File, NoFile
<1>5. CASE WriteFile(c)
  <2>1. moved' = moved
    BY <1>5 DEF WriteFile
  <2>2. PICK r \in Runs, k \in Nat :
          /\ clock' = clock + 1
          /\ files'[r] = [rev |-> k + 1, text |-> clock + 1, time |-> clock + 1]
          /\ \A s \in Runs : s # r => files'[s] = files[s]
    BY <1>5, WriteIs
  <2> QED
    BY <1>1, <1>2, <2>1, <2>2 DEF File
<1>6. CASE CopyFile(c)
  <2>1. moved' = TRUE
    BY <1>6 DEF CopyFile
  <2>2. Legacy \subseteq Runs /\ \A r \in Legacy : r \in Nat \ {0}
    BY StoreAssumption DEF Runs
  <2>3. PICK r \in Legacy :
           \/ /\ files[r].text = 0 /\ clock' = clock + 1
              /\ files' = [files EXCEPT ![r] =
                             [rev |-> LegacyRev[r], text |-> r, time |-> clock + 1]]
           \/ UNCHANGED <<files, clock>>
    BY <1>6, CopyFileIs
  <2> QED
    BY <1>1, <1>2, <2>1, <2>2, <2>3 DEF File
<1> QED
  BY <1>3, <1>4, <1>5, <1>6, FewWrite DEF WriteLatest, CopyLatest

LEMMA DatedStep ==
  ASSUME TypeOK, TypeOK', Underway, FilesDated, SaveUnderWay, NEW c \in Callers, Step(c)
  PROVE  FilesDated'
<1>1. /\ files \in [Runs -> File] /\ files' \in [Runs -> File]
      /\ clock \in Nat /\ clock' \in Nat /\ returned \in [Runs -> Nat]
      /\ returned' \in [Runs -> Nat] /\ mem \in [Callers -> Mem]
  BY TypeIs, TypeNext
<1>2. RunsNamed
  BY DEF Underway
<1>3. N <= clock /\ \A r \in Runs :
       /\ files[r].text = 0 => files[r] = NoFile
       /\ files[r].text # 0 /\ r \notin Legacy => files[r].rev > 0
       /\ files[r].text <= clock /\ files[r].time <= clock /\ returned[r] <= clock
       /\ r \notin Deletable => returned[r] <= files[r].time
       /\ ~moved => files[r].time = files[r].text
  BY DEF FilesDated
<1>4. ~moved /\ latest \in Runs /\ files[latest].text # 0 =>
        \A r \in Runs : returned[r] <= files[latest].text
  BY DEF FilesDated, Present
<1>5. SUFFICES
        /\ N <= clock'
        /\ \A r \in Runs :
             /\ files'[r].text = 0 => files'[r] = NoFile
             /\ files'[r].text # 0 /\ r \notin Legacy => files'[r].rev > 0
             /\ files'[r].text <= clock' /\ files'[r].time <= clock' /\ returned'[r] <= clock'
             /\ r \notin Deletable => returned'[r] <= files'[r].time
             /\ ~moved' => files'[r].time = files'[r].text
        /\ ~moved' /\ latest' \in Runs /\ files'[latest'].text # 0 =>
             \A r \in Runs : returned'[r] <= files'[latest'].text
  BY DEF FilesDated, Present
<1>6. CASE UNCHANGED <<files, latest, clock, returned, moved>>
  BY <1>3, <1>4, <1>6
<1>7. CASE \E r \in Runs : Delete(c, r)
  BY <1>1, <1>3, <1>4, <1>7 DEF Delete, NoFile
<1>8. CASE WriteFile(c)
  <2>1. UNCHANGED <<latest, returned, moved>>
    BY <1>8 DEF WriteFile
  <2>2. PICK r \in Runs, k \in Nat :
          /\ clock' = clock + 1
          /\ files'[r] = [rev |-> k + 1, text |-> clock + 1, time |-> clock + 1]
          /\ \A s \in Runs : s # r => files'[s] = files[s]
    BY <1>2, <1>8, WriteIs
  <2>3. N <= clock' /\ N \in Nat
    BY <1>1, <1>3, <2>2, StoreAssumption
  <2> QED
    BY <1>1, <1>3, <1>4, <2>1, <2>2, <2>3 DEF File
<1>9. CASE WriteLatest(c)
  <2>1. /\ mem[c].run \in Runs /\ files[mem[c].run].text = clock
        /\ files[mem[c].run].time = clock /\ mem[c].text = clock
    BY <1>9 DEF SaveUnderWay, WriteLatest, Present
  <2>2. /\ latest' = mem[c].run /\ returned' = [returned EXCEPT ![mem[c].run] = mem[c].text]
        /\ UNCHANGED <<files, clock, moved>>
    BY <1>9 DEF WriteLatest
  <2> QED
    BY <1>1, <1>3, <2>1, <2>2 DEF File
<1>10. CASE CopyFile(c)
  <2>1. moved' = TRUE /\ UNCHANGED <<latest, returned>>
    BY <1>10 DEF CopyFile
  <2>2. Legacy \subseteq Runs /\ \A r \in Legacy : r \in Nat \ {0} /\ r <= N /\ N \in Nat
    BY StoreAssumption DEF Runs
  <2>3. PICK r \in Legacy :
           \/ /\ files[r].text = 0 /\ clock' = clock + 1
              /\ files' = [files EXCEPT ![r] =
                             [rev |-> LegacyRev[r], text |-> r, time |-> clock + 1]]
           \/ UNCHANGED <<files, clock>>
    BY <1>10, CopyFileIs
  <2> QED
    BY <1>1, <1>3, <2>1, <2>2, <2>3 DEF File
<1>11. CASE CopyLatest(c)
  <2>1. moved
    BY <1>11 DEF CopyLatest, Underway, MigrationUnderWay
  <2>2. UNCHANGED <<files, clock, returned, moved>>
    BY <1>11 DEF CopyLatest
  <2> QED
    BY <1>3, <2>1, <2>2
<1> QED
  BY <1>6, <1>7, <1>8, <1>9, <1>10, <1>11, FewWrite

\* While one caller holds the lock, the others change no file.
LEMMA HolderOnly ==
  ASSUME TypeOK, Underway, NEW c \in Callers, Step(c),
         NEW d \in Callers, d # c, lock = d
  PROVE  UNCHANGED <<files, clock>>
<1>1. lock # Nobody /\ pc[c] \notin {"write", "mark", "copy"}
  BY StoreAssumption DEF Underway, LockHeld
<1> QED
  BY <1>1, FewWrite DEF Delete, WriteFile, WriteLatest, CopyFile, CopyLatest

LEMMA MarkIsWrite ==
  ASSUME TypeOK, NEW c \in Callers, Step(c), pc'[c] = "mark"
  PROVE  WriteFile(c)
<1>1. pc \in [Callers -> Labels]
  BY TypeIs
<1>2. CASE \E r \in Runs : Start(c, r) \/ Load(c, r) \/ Delete(c, r)
  BY <1>1, <1>2 DEF Start, Load, Delete, Goto
<1>3. CASE \/ \E p \in Pipelines \cup {AnyPipeline} : ReadLatest(c, p)
           \/ OpenLatest(c) \/ ListFiles(c) \/ Use(c) \/ Return(c)
  BY <1>1, <1>3 DEF ReadLatest, OpenLatest, ListFiles, Use, Return, Goto
<1>4. CASE OpenNext(c)
  BY <1>1, <1>4 DEF OpenNext, Goto
<1>5. CASE Save(c) \/ SaveRefused(c) \/ WriteLatest(c)
  BY <1>1, <1>5 DEF Save, SaveRefused, WriteLatest, Goto
<1>6. CASE Migrate(c) \/ CopyFile(c) \/ Differs(c) \/ CopyLatest(c) \/ Crash(c)
  BY <1>1, <1>6 DEF Migrate, CopyFile, Differs, CopyLatest, Crash, Goto
<1> QED
  BY <1>2, <1>3, <1>4, <1>5, <1>6 DEF Step

LEMMA SaveInit == Init => SaveUnderWay
BY DEF Init, SaveUnderWay

LEMMA SaveStep ==
  ASSUME TypeOK, TypeOK', Underway, SaveUnderWay, NEW c \in Callers, Step(c)
  PROVE  SaveUnderWay'
<1>1. SUFFICES ASSUME NEW d \in Callers, pc'[d] = "mark"
               PROVE  /\ mem'[d].run \in Runs /\ files'[mem'[d].run].text # 0
                      /\ mem'[d].text = clock'
                      /\ files'[mem'[d].run].text = clock'
                      /\ files'[mem'[d].run].time = clock'
  BY DEF SaveUnderWay, Present
<1>2. CASE d = c
  <2>1. WriteFile(c) /\ RunsNamed /\ clock \in Nat
    BY <1>1, <1>2, MarkIsWrite, TypeIs DEF Underway
  <2>2. /\ mem[c].run \in Runs /\ clock' = clock + 1
        /\ files'[mem[c].run] =
             [rev |-> mem[c].rev + 1, text |-> clock + 1, time |-> clock + 1]
        /\ mem'[c].run = mem[c].run /\ mem'[c].text = clock + 1
    BY <2>1, WriteIs
  <2> QED
    BY <1>2, <2>1, <2>2
<1>3. CASE d # c
  <2>1. pc[d] = "mark" /\ mem'[d] = mem[d]
    BY <1>1, <1>3, OthersStay
  <2>2. lock = d
    BY <2>1 DEF Underway, LockHeld
  <2>3. UNCHANGED <<files, clock>>
    BY <1>3, <2>2, HolderOnly
  <2> QED
    BY <2>1, <2>3 DEF SaveUnderWay, Present
<1> QED
  BY <1>2, <1>3

---------------------------------------------------------------------------
(* load_latest *)

Searching(c) == pc[c] \in {"latest", "list", "next"}

LEMMA SearchInit == Init => SearchUnderWay
BY DEF Init, SearchUnderWay

\* A search that does not move loses nothing to the steps of others.
LEMMA SearchStays ==
  ASSUME TypeOK, TypeOK', Underway, FilesDated, SearchUnderWay, NEW c \in Callers, Step(c),
         NEW d \in Callers, pc'[d] = pc[d], mem'[d] = mem[d], Searching(d)
  PROVE  /\ RunsAhead(d)'
         /\ \A t \in mem'[d].since : TextAhead(d, t)'
         /\ pc'[d] = "next" => ListKept(d)'
<1>1. /\ files \in [Runs -> File] /\ files' \in [Runs -> File]
      /\ clock \in Nat /\ clock' \in Nat /\ mem[d] \in Mem
  BY TypeIs, TypeNext
<1>2. /\ clock <= clock' /\ (moved => moved')
      /\ \A r \in Runs :
           /\ r \notin Deletable =>
                /\ files[r].text # 0 => files'[r].text # 0
                /\ files[r].time <= files'[r].time
           /\ ~moved' /\ files'[r].text # 0 =>
                \/ clock < files'[r].text
                \/ files[r].text # 0 /\ files'[r].text = files[r].text
  BY FilesGrow DEF Underway
<1>3. /\ RunsAhead(d)
      /\ \A t \in mem[d].since : TextAhead(d, t)
      /\ pc[d] = "next" => ListKept(d)
  BY DEF SearchUnderWay, Searching
<1>4. /\ mem[d].there \subseteq Runs /\ mem[d].since \subseteq Nat
      /\ mem[d].list \subseteq [run : Runs, time : Nat]
  BY <1>1 DEF Mem
<1>5. RunsAhead(d)'
  BY <1>2, <1>3, <1>4 DEF RunsAhead, Present, Wanted
<1>6. ASSUME NEW t \in mem[d].since PROVE TextAhead(d, t)'
  <2>1. TextAhead(d, t) /\ t \in Nat
    BY <1>3, <1>4
  <2>2. t <= clock'
    BY <1>1, <1>2, <2>1 DEF TextAhead
  <2>3. ASSUME pc[d] = "latest", ~moved', mem[d].run \in Runs, files'[mem[d].run].text # 0
        PROVE  t <= files'[mem[d].run].text
    BY <1>1, <1>2, <2>1, <2>3 DEF TextAhead, Present, File
  <2>4. ASSUME pc[d] # "next", t # 0
        PROVE  \E r \in Kept(d) : r \in Runs /\ files'[r].text # 0 /\ t <= files'[r].time
    <3>1. PICK r \in Kept(d) \cap Present : t <= files[r].time
      BY <2>1, <2>4 DEF TextAhead
    <3>2. r \in Runs /\ r \notin Deletable /\ files[r].text # 0
      BY <3>1 DEF Kept, Present
    <3> QED
      BY <1>1, <1>2, <2>1, <3>1, <3>2 DEF File
  <2>5. Kept(d)' = Kept(d)
    BY DEF Kept, Wanted
  <2> QED
    BY <2>1, <2>2, <2>3, <2>4, <2>5 DEF TextAhead, Present
<1>7. ASSUME pc[d] = "next" PROVE ListKept(d)'
  <2>1. ASSUME NEW e \in mem[d].list
        PROVE  /\ e.time <= clock'
               /\ ~moved' /\ e.run \in Runs /\ files'[e.run].text # 0
                    => e.time <= files'[e.run].text
    <3>1. e.run \in Runs /\ e.time \in Nat
      BY <1>4
    <3>2. /\ e.time <= clock
          /\ ~moved /\ files[e.run].text # 0 => e.time <= files[e.run].text
      BY <1>3, <1>7, <3>1 DEF ListKept, Present
    <3> QED
      BY <1>1, <1>2, <3>1, <3>2 DEF File
  <2> QED
    BY <2>1 DEF ListKept, Present
<1> QED
  BY <1>5, <1>6, <1>7

\* A call starts, with the runs and the saves that are there.
LEMMA SearchStarts ==
  ASSUME TypeOK, FilesDated, NEW c \in Callers, NEW p \in Pipelines \cup {AnyPipeline},
         ReadLatest(c, p)
  PROVE  /\ RunsAhead(c)'
         /\ \A t \in mem'[c].since : TextAhead(c, t)'
         /\ pc'[c] # "next"
<1> DEFINE there == Present \cap Wanted(p)
           since == {returned[r] : r \in Wanted(p) \ Deletable}
<1>1. /\ files \in [Runs -> File] /\ mem \in [Callers -> Mem] /\ pc \in [Callers -> Labels]
      /\ latest \in Runs \cup {0} /\ clock \in Nat /\ returned \in [Runs -> Nat]
  BY TypeIs
<1>2. /\ mem'[c].run = latest /\ mem'[c].want = p
      /\ mem'[c].there = there /\ mem'[c].since = since
      /\ UNCHANGED <<files, clock, moved>>
      /\ pc'[c] = IF latest = 0 THEN "list" ELSE "latest"
  BY <1>1 DEF ReadLatest, Goto, Remember, Idle, shared
<1>3. RunsAhead(c)'
  BY <1>2 DEF RunsAhead, Present, Wanted
<1>4. ASSUME NEW t \in since PROVE TextAhead(c, t)'
  <2>0. PICK r \in Wanted(p) \ Deletable : t = returned[r]
    BY <1>4
  <2>1. r \in Runs /\ returned[r] \in Nat
    BY <1>1, <2>0 DEF Wanted
  <2>2. /\ returned[r] <= clock /\ returned[r] <= files[r].time
        /\ files[r].text = 0 => files[r] = NoFile
    BY <2>0, <2>1 DEF FilesDated
  <2>3. ~moved /\ latest \in Runs /\ files[latest].text # 0 =>
          returned[r] <= files[latest].text
    BY <2>1 DEF FilesDated, Present
  <2>4. returned[r] = 0 \/ files[r].text # 0
    BY <2>1, <2>2 DEF NoFile
  <2>5. r \in Kept(c)'
    BY <1>2, <2>0 DEF Kept, Wanted
  <2>6. pc'[c] # "next"
    BY <1>2
  <2>7. t # 0 => \E s \in Kept(c)' \cap Present' : t <= files'[s].time
    BY <1>2, <2>0, <2>1, <2>2, <2>4, <2>5 DEF Present
  <2>8. pc'[c] = "latest" /\ ~moved' /\ mem'[c].run \in Present' =>
          t <= files'[mem'[c].run].text
    BY <1>2, <2>0, <2>3 DEF Present
  <2> QED
    BY <1>2, <2>0, <2>2, <2>6, <2>7, <2>8 DEF TextAhead
<1>5. pc'[c] # "next" /\ mem'[c].since = since
  BY <1>2
<1> HIDE DEF since
<1> QED
  BY <1>3, <1>4, <1>5

\* .latest was deleted, or names a run of another pipeline.
LEMMA SearchGoesOn ==
  ASSUME TypeOK, SearchUnderWay, NEW c \in Callers, OpenLatest(c), pc'[c] = "list"
  PROVE  /\ RunsAhead(c)'
         /\ \A t \in mem'[c].since : TextAhead(c, t)'
<1>1. pc \in [Callers -> Labels] /\ UNCHANGED <<files, clock, moved>> /\ pc[c] = "latest"
  BY TypeIs DEF OpenLatest, shared
<1>2. mem' = mem
  BY <1>1 DEF OpenLatest, Goto
<1>3. RunsAhead(c) /\ \A t \in mem[c].since : TextAhead(c, t)
  BY <1>1 DEF SearchUnderWay
<1>4. RunsAhead(c)'
  BY <1>1, <1>2, <1>3 DEF RunsAhead, Present, Wanted
<1>5. Kept(c)' = Kept(c) /\ Present' = Present
  BY <1>1, <1>2 DEF Kept, Wanted, Present
<1> QED
  BY <1>1, <1>2, <1>3, <1>4, <1>5 DEF TextAhead

\* The listing has every file that is there, with its time.
LEMMA SearchLists ==
  ASSUME TypeOK, FilesDated, SearchUnderWay, NEW c \in Callers, ListFiles(c)
  PROVE  /\ RunsAhead(c)'
         /\ \A t \in mem'[c].since : TextAhead(c, t)'
         /\ ListKept(c)'
<1> DEFINE list == {Listed(r) : r \in Present}
<1>1. /\ mem \in [Callers -> Mem] /\ pc \in [Callers -> Labels]
      /\ files \in [Runs -> File] /\ clock \in Nat
  BY TypeIs
<1>2. /\ UNCHANGED <<files, clock, moved>> /\ pc[c] = "list" /\ pc'[c] = "next"
      /\ mem'[c] = [mem[c] EXCEPT !.run = 0, !.list = list]
  BY <1>1 DEF ListFiles, Goto, Remember, shared
<1>3. /\ mem'[c].list = list /\ mem'[c].want = mem[c].want
      /\ mem'[c].there = mem[c].there /\ mem'[c].since = mem[c].since
  BY <1>1, <1>2 DEF Mem
<1>4. RunsAhead(c) /\ \A t \in mem[c].since : TextAhead(c, t)
  BY <1>2 DEF SearchUnderWay
<1>5. /\ \A r \in Present : Listed(r) \in list
      /\ \A e \in list : e.run \in Present /\ e.time = files[e.run].time
      /\ \A r \in Present : Listed(r).run = r /\ Listed(r).time = files[r].time
  BY DEF Listed
<1>6. Kept(c)' = Kept(c) /\ Present' = Present
  BY <1>2, <1>3 DEF Kept, Wanted, Present
<1> HIDE DEF list
<1>7. RunsAhead(c)'
  <2>1. \A r \in mem[c].there \ Deletable : r \in Present
    BY <1>4 DEF RunsAhead
  <2> QED
    BY <1>2, <1>3, <1>4, <1>5, <1>6, <2>1 DEF RunsAhead, Wanted
<1>8. ASSUME NEW t \in mem[c].since PROVE TextAhead(c, t)'
  <2>1. t <= clock /\ (t = 0 \/ \E r \in Kept(c) \cap Present : t <= files[r].time)
    BY <1>2, <1>4 DEF TextAhead
  <2>2. t = 0 \/ \E e \in list : e.run \in Kept(c) /\ t <= e.time
    BY <1>5, <2>1
  <2>3. t = 0 \/ \E e \in mem'[c].list : e.run \in Kept(c)' /\ t <= e.time
    BY <1>3, <1>6, <2>2
  <2> QED
    BY <1>2, <2>1, <2>3 DEF TextAhead
<1>9. ListKept(c)'
  <2>1. ASSUME NEW e \in list
        PROVE  e.time <= clock /\ (~moved => e.time <= files[e.run].text)
    <3>1. e.run \in Runs /\ e.time = files[e.run].time
      BY <1>5 DEF Present
    <3>2. /\ files[e.run].time <= clock
          /\ ~moved => files[e.run].time = files[e.run].text
      BY <3>1 DEF FilesDated
    <3> QED
      BY <1>1, <3>1, <3>2 DEF File
  <2> QED
    BY <1>2, <1>3, <2>1 DEF ListKept
<1> QED
  BY <1>3, <1>7, <1>8, <1>9

\* A file that is not of the wanted pipeline is passed over.
LEMMA SearchPasses ==
  ASSUME TypeOK, SearchUnderWay, NEW c \in Callers, OpenNext(c), pc'[c] = "next"
  PROVE  /\ RunsAhead(c)'
         /\ \A t \in mem'[c].since : TextAhead(c, t)'
         /\ ListKept(c)'
<1>1. /\ mem \in [Callers -> Mem] /\ pc \in [Callers -> Labels]
  BY TypeIs
<1>2. UNCHANGED <<files, clock, moved>> /\ pc[c] = "next"
  BY DEF OpenNext, shared
<1>3. PICK e \in Newest(mem[c].list) :
        /\ e.run \in Present \ Wanted(mem[c].want)
        /\ Remember(c, [mem[c] EXCEPT !.list = @ \ {e}])
  BY <1>1 DEF OpenNext, Goto
<1>4. /\ mem'[c].list = mem[c].list \ {e} /\ mem'[c].want = mem[c].want
      /\ mem'[c].there = mem[c].there /\ mem'[c].since = mem[c].since
  BY <1>1, <1>3 DEF Remember, Mem
<1>5. RunsAhead(c) /\ (\A t \in mem[c].since : TextAhead(c, t)) /\ ListKept(c)
  BY <1>2 DEF SearchUnderWay
<1>6. Kept(c)' = Kept(c) /\ Present' = Present
  BY <1>2, <1>4 DEF Kept, Wanted, Present
<1>7. e.run \notin Kept(c) /\ e.run \notin mem[c].there
  BY <1>3, <1>5 DEF Kept, RunsAhead
<1>8. RunsAhead(c)'
  BY <1>2, <1>4, <1>5, <1>6, <1>7 DEF RunsAhead, Wanted
<1>9. ASSUME NEW t \in mem[c].since PROVE TextAhead(c, t)'
  <2>1. t <= clock /\ (t = 0 \/ \E o \in mem[c].list : o.run \in Kept(c) /\ t <= o.time)
    BY <1>2, <1>5 DEF TextAhead
  <2>2. t = 0 \/ \E o \in mem'[c].list : o.run \in Kept(c)' /\ t <= o.time
    BY <1>4, <1>6, <1>7, <2>1
  <2> QED
    BY <1>2, <2>1, <2>2 DEF TextAhead
<1>10. ListKept(c)'
  BY <1>2, <1>4, <1>5, <1>6 DEF ListKept
<1> QED
  BY <1>4, <1>8, <1>9, <1>10

\* The steps that leave a caller in a search.
LEMMA SearchBy ==
  ASSUME TypeOK, NEW c \in Callers, Step(c), Searching(c)'
  PROVE  \/ \E p \in Pipelines \cup {AnyPipeline} : ReadLatest(c, p)
         \/ OpenLatest(c) /\ pc'[c] = "list"
         \/ ListFiles(c)
         \/ OpenNext(c) /\ pc'[c] = "next"
<1>1. pc \in [Callers -> Labels]
  BY TypeIs
<1>2. CASE \E r \in Runs : Start(c, r) \/ Load(c, r) \/ Delete(c, r)
  BY <1>1, <1>2 DEF Start, Load, Delete, Goto, Searching
<1>3. CASE OpenLatest(c) \/ OpenNext(c)
  BY <1>1, <1>3 DEF OpenLatest, OpenNext, Goto, Searching
<1>4. CASE \/ Use(c) \/ Return(c) \/ Save(c) \/ SaveRefused(c) \/ WriteFile(c)
           \/ WriteLatest(c)
  BY <1>1, <1>4
  DEF Use, Return, Save, SaveRefused, WriteFile, WriteLatest, Goto, Searching
<1>5. CASE Migrate(c) \/ CopyFile(c) \/ Differs(c) \/ CopyLatest(c) \/ Crash(c)
  BY <1>1, <1>5 DEF Migrate, CopyFile, Differs, CopyLatest, Crash, Goto, Searching
<1> QED
  BY <1>2, <1>3, <1>4, <1>5 DEF Step

LEMMA SearchStep ==
  ASSUME TypeOK, TypeOK', Underway, FilesDated, SearchUnderWay, NEW c \in Callers, Step(c)
  PROVE  SearchUnderWay'
<1>1. SUFFICES ASSUME NEW d \in Callers, Searching(d)'
               PROVE  /\ RunsAhead(d)'
                      /\ \A t \in mem'[d].since : TextAhead(d, t)'
                      /\ pc'[d] = "next" => ListKept(d)'
  BY DEF SearchUnderWay, Searching
<1>2. CASE d # c
  <2>1. pc'[d] = pc[d] /\ mem'[d] = mem[d]
    BY <1>2, OthersStay
  <2>2. Searching(d)
    BY <1>1, <2>1 DEF Searching
  <2> QED
    BY <2>1, <2>2, SearchStays
<1>3. CASE d = c
  BY <1>1, <1>3, SearchBy, SearchStarts, SearchGoesOn, SearchLists, SearchPasses
<1> QED
  BY <1>2, <1>3

\* load_latest returns nothing: there was none to be found all along.
LEMMA MissedStep ==
  ASSUME TypeOK, SearchUnderWay, NoneMissed, NEW c \in Callers, Step(c)
  PROVE  NoneMissed'
<1>1. SUFFICES ASSUME NEW d \in Callers, pc'[d] = "none"
               PROVE  mem'[d].there \subseteq Deletable
  BY DEF NoneMissed
<1>2. pc \in [Callers -> Labels] /\ mem \in [Callers -> Mem]
  BY TypeIs
<1>3. CASE pc[d] = "none" /\ mem'[d] = mem[d]
  BY <1>3 DEF NoneMissed
<1>4. CASE d = c /\ pc[d] # "none"
  <2>1. OpenNext(c)
    <3>1. CASE \E r \in Runs : Start(c, r) \/ Load(c, r) \/ Delete(c, r)
      BY <1>1, <1>2, <1>4, <3>1 DEF Start, Load, Delete, Goto
    <3>2. CASE \/ \E p \in Pipelines \cup {AnyPipeline} : ReadLatest(c, p)
               \/ OpenLatest(c) \/ ListFiles(c) \/ Use(c) \/ Return(c)
      BY <1>1, <1>2, <1>4, <3>2
      DEF ReadLatest, OpenLatest, ListFiles, Use, Return, Goto
    <3>3. CASE Save(c) \/ SaveRefused(c) \/ WriteFile(c) \/ WriteLatest(c)
      BY <1>1, <1>2, <1>4, <3>3 DEF Save, SaveRefused, WriteFile, WriteLatest, Goto
    <3>4. CASE Migrate(c) \/ CopyFile(c) \/ Differs(c) \/ CopyLatest(c) \/ Crash(c)
      BY <1>1, <1>2, <1>4, <3>4 DEF Migrate, CopyFile, Differs, CopyLatest, Crash, Goto
    <3> QED
      BY <3>1, <3>2, <3>3, <3>4 DEF Step
  <2>2. mem[c].list = {} /\ mem' = mem /\ pc[c] = "next"
    BY <1>1, <1>2, <1>4, <2>1 DEF OpenNext, Goto
  <2>3. RunsAhead(c)
    BY <2>2 DEF SearchUnderWay
  <2> QED
    BY <1>4, <2>2, <2>3 DEF RunsAhead
<1>5. CASE d = c /\ pc[d] = "none" /\ mem'[d] # mem[d]
  <2>1. ~ \E r \in Runs : Start(c, r) \/ Load(c, r) \/ Delete(c, r)
    BY <1>5 DEF Start, Load, Delete
  <2>2. ~ \/ \E p \in Pipelines \cup {AnyPipeline} : ReadLatest(c, p)
          \/ OpenLatest(c) \/ ListFiles(c) \/ OpenNext(c) \/ Use(c)
    BY <1>5 DEF ReadLatest, OpenLatest, ListFiles, OpenNext, Use
  <2>3. ~ \/ Save(c) \/ SaveRefused(c) \/ WriteFile(c) \/ WriteLatest(c)
          \/ Migrate(c) \/ CopyFile(c) \/ Differs(c) \/ CopyLatest(c) \/ Crash(c)
    BY <1>5 DEF Save, SaveRefused, WriteFile, WriteLatest, Migrate, CopyFile, Differs,
                CopyLatest, Crash
  <2>4. Return(c)
    BY <2>1, <2>2, <2>3 DEF Step
  <2> QED
    BY <1>1, <1>2, <1>5, <2>4 DEF Return, Goto
<1> QED
  BY <1>1, <1>3, <1>4, <1>5, OthersStay

\* The steps that find a run.
LEMMA FoundBy ==
  ASSUME TypeOK, NEW c \in Callers, Step(c), pc'[c] = "found"
  PROVE  \/ OpenLatest(c) /\ mem[c].run \in Present /\ mem'[c] = Copy(c, mem[c].run)
         \/ \E e \in Newest(mem[c].list) :
              OpenNext(c) /\ e.run \in Present /\ mem'[c] = Copy(c, e.run)
<1>1. pc \in [Callers -> Labels] /\ mem \in [Callers -> Mem]
  BY TypeIs
<1>2. CASE \E r \in Runs : Start(c, r) \/ Load(c, r) \/ Delete(c, r)
  BY <1>1, <1>2 DEF Start, Load, Delete, Goto
<1>3. CASE \/ \E p \in Pipelines \cup {AnyPipeline} : ReadLatest(c, p)
           \/ ListFiles(c) \/ Use(c) \/ Return(c)
  BY <1>1, <1>3 DEF ReadLatest, ListFiles, Use, Return, Goto
<1>4. CASE OpenLatest(c)
  BY <1>1, <1>4 DEF OpenLatest, Goto, Remember
<1>5. CASE OpenNext(c)
  BY <1>1, <1>5 DEF OpenNext, Goto, Remember
<1>6. CASE Save(c) \/ SaveRefused(c) \/ WriteFile(c) \/ WriteLatest(c)
  BY <1>1, <1>6 DEF Save, SaveRefused, WriteFile, WriteLatest, Goto
<1>7. CASE Migrate(c) \/ CopyFile(c) \/ Differs(c) \/ CopyLatest(c) \/ Crash(c)
  BY <1>1, <1>7 DEF Migrate, CopyFile, Differs, CopyLatest, Crash, Goto
<1> QED
  BY <1>2, <1>3, <1>4, <1>5, <1>6, <1>7 DEF Step

\* What load_latest finds is as recent as every save it knew of.
LEMMA FoundStep ==
  ASSUME TypeOK, TypeOK', Underway, FilesDated, SearchUnderWay, FoundIsRecent,
         NEW c \in Callers, Step(c)
  PROVE  FoundIsRecent'
<1>1. SUFFICES ASSUME NEW d \in Callers, pc'[d] = "found", ~moved', NEW t \in mem'[d].since
               PROVE  t <= mem'[d].text
  BY DEF FoundIsRecent
<1>2. ~moved
  BY <1>1, FilesGrow DEF Underway
<1>3. CASE d # c
  <2>1. pc[d] = "found" /\ mem'[d] = mem[d]
    BY <1>1, <1>3, OthersStay
  <2> QED
    BY <1>1, <1>2, <2>1 DEF FoundIsRecent
<1>4. CASE d = c /\ OpenLatest(c) /\ mem[c].run \in Present /\ mem'[c] = Copy(c, mem[c].run)
  <2>1. /\ mem'[c].since = mem[c].since /\ mem'[c].text = files[mem[c].run].text
    BY <1>4, CopyIs DEF Present
  <2>2. TextAhead(c, t) /\ pc[c] = "latest"
    BY <1>1, <1>4, <2>1 DEF SearchUnderWay, OpenLatest
  <2> QED
    BY <1>2, <1>4, <2>1, <2>2 DEF TextAhead
<1>5. ASSUME d = c, OpenNext(c), NEW e \in Newest(mem[c].list), e.run \in Present,
             mem'[c] = Copy(c, e.run)
      PROVE  t <= mem'[d].text
  <2>1. /\ mem'[c].since = mem[c].since /\ mem'[c].text = files[e.run].text
    BY <1>5, CopyIs DEF Present
  <2>2. TextAhead(c, t) /\ ListKept(c) /\ pc[c] = "next"
    BY <1>1, <1>5, <2>1 DEF SearchUnderWay, OpenNext
  <2>3. e \in mem[c].list /\ \A o \in mem[c].list : o.time <= e.time
    BY <1>5 DEF Newest
  <2>4. e.time <= files[e.run].text
    BY <1>2, <1>5, <2>2, <2>3 DEF ListKept
  <2>5. /\ mem[c].list \subseteq [run : Runs, time : Nat] /\ mem[c].since \subseteq Nat
        /\ files[e.run].text \in Nat
    BY <1>5, TypeIs DEF Mem, Present, File
  <2>6. t = 0 \/ t <= e.time
    <3>1. t = 0 \/ \E o \in mem[c].list : t <= o.time
      BY <2>2 DEF TextAhead
    <3> QED
      BY <1>1, <1>5, <2>1, <2>3, <2>5, <3>1
  <2> QED
    BY <1>1, <1>5, <2>1, <2>3, <2>4, <2>5, <2>6
<1> QED
  BY <1>1, <1>3, <1>4, <1>5, FoundBy

---------------------------------------------------------------------------
(* Copies and revisions *)

LEMMA CopiesInit == Init => CopiesFollow
BY DEF Init, CopiesFollow, HoldsCopy

\* Where a caller's copy comes from: it was there, it is saved, its run is new,
\* or it is a file's.
KeepsCopy(c) ==
  /\ HoldsCopy(c)
  /\ mem'[c].run = mem[c].run /\ mem'[c].rev = mem[c].rev /\ mem'[c].text = mem[c].text
  /\ pc'[c] = "write" => mem[c].rev = files[mem[c].run].rev
NewCopy(c, r) ==
  /\ r \notin Legacy \cup Present
  /\ \A d \in Callers : mem[d].run # r
  /\ mem'[c].run = r /\ mem'[c].rev = 0 /\ mem'[c].text = 0
  /\ pc'[c] # "write"
ReadsCopy(c, r) ==
  /\ r \in Present
  /\ mem'[c].run = r /\ mem'[c].rev = files[r].rev /\ mem'[c].text = files[r].text
  /\ pc'[c] # "write"

LEMMA CopyBy ==
  ASSUME TypeOK, NEW c \in Callers, Step(c), HoldsCopy(c)'
  PROVE  \/ WriteFile(c)
         \/ /\ UNCHANGED files
            /\ \/ KeepsCopy(c)
               \/ \E r \in Runs : NewCopy(c, r) \/ ReadsCopy(c, r)
<1>1. pc \in [Callers -> Labels] /\ mem \in [Callers -> Mem]
  BY TypeIs
<1>2. ASSUME NEW r \in Runs, Start(c, r) PROVE NewCopy(c, r) /\ UNCHANGED files
  BY <1>1, <1>2 DEF Start, Goto, Remember, Idle, shared, NewCopy
<1>3. ASSUME NEW r \in Runs, Load(c, r) PROVE ReadsCopy(c, r) /\ UNCHANGED files
  BY <1>1, <1>3, CopyIs DEF Load, Goto, Remember, shared, ReadsCopy
<1>4. ASSUME NEW r \in Runs, Delete(c, r) PROVE FALSE
  BY <1>1, <1>4 DEF Delete, HoldsCopy
<1>5. CASE \/ \E p \in Pipelines \cup {AnyPipeline} : ReadLatest(c, p)
           \/ ListFiles(c) \/ Return(c) \/ SaveRefused(c)
  BY <1>1, <1>5 DEF ReadLatest, ListFiles, Return, SaveRefused, Goto, HoldsCopy
<1>6. CASE OpenLatest(c)
  <2>1. pc'[c] = "found" /\ UNCHANGED files
    BY <1>1, <1>6 DEF OpenLatest, Goto, HoldsCopy, shared
  <2>2. mem[c].run \in Present /\ mem'[c] = Copy(c, mem[c].run)
    BY <1>1, <1>6, <2>1 DEF OpenLatest, Goto, Remember
  <2>3. mem[c].run \in Runs
    BY <2>2 DEF Present
  <2>4. ReadsCopy(c, mem[c].run)
    BY <2>1, <2>2, <2>3, CopyIs DEF ReadsCopy
  <2> QED
    BY <2>1, <2>3, <2>4
<1>7. CASE OpenNext(c)
  <2>1. pc'[c] = "found" /\ UNCHANGED files
    BY <1>1, <1>7 DEF OpenNext, Goto, HoldsCopy, shared
  <2>2. PICK e \in Newest(mem[c].list) : e.run \in Present /\ mem'[c] = Copy(c, e.run)
    BY <1>1, <1>7, <2>1 DEF OpenNext, Goto, Remember
  <2>3. e.run \in Runs
    BY <2>2 DEF Present
  <2>4. ReadsCopy(c, e.run)
    BY <2>1, <2>2, <2>3, CopyIs DEF ReadsCopy
  <2> QED
    BY <2>1, <2>3, <2>4
<1>8. CASE Use(c)
  BY <1>1, <1>8 DEF Use, Goto, Remember, Idle, shared, KeepsCopy, HoldsCopy
<1>9. CASE Save(c) \/ WriteLatest(c)
  BY <1>1, <1>9 DEF Save, WriteLatest, Goto, KeepsCopy, HoldsCopy
<1>10. CASE Migrate(c) \/ CopyFile(c) \/ Differs(c) \/ CopyLatest(c) \/ Crash(c)
  BY <1>1, <1>10 DEF Migrate, CopyFile, Differs, CopyLatest, Crash, Goto, HoldsCopy
<1> QED
  BY <1>2, <1>3, <1>4, <1>5, <1>6, <1>7, <1>8, <1>9, <1>10 DEF Step

\* A caller who does not move: the run of the copy is written by nobody else
\* while the copy is current.
LEMMA CopyStays ==
  ASSUME TypeOK, TypeOK', LegacyKept, Underway, FilesDated, CopiesFollow,
         NEW c \in Callers, Step(c), NEW d \in Callers, d # c, HoldsCopy(d)
  PROVE  Follows(d)'
<1>1. PICK r \in Runs : r = mem[d].run
  BY DEF Underway, RunsNamed
<1>2. /\ files \in [Runs -> File] /\ files' \in [Runs -> File] /\ mem[d] \in Mem
      /\ mem \in [Callers -> Mem] /\ clock \in Nat
  BY TypeIs, TypeNext
<1>3. pc'[d] = pc[d] /\ mem'[d] = mem[d]
  BY OthersStay
<1>4. Follows(d)
  BY DEF CopiesFollow
<1>5. pc[d] = "write" => files'[r] = files[r]
  <2>1. pc[d] = "write" => lock = d
    BY DEF Underway, LockHeld
  <2> QED
    BY <2>1, HolderOnly
<1>6. HoldsCopy(c) /\ mem[c].run = r => r \in Legacy \/ mem[d].rev # 0
  BY <1>1, <1>4 DEF Follows
<1>7. CASE files'[r] = files[r]
  <2>1. ASSUME r \notin Legacy, mem[d].rev = 0, NEW e \in Callers \ {d}, HoldsCopy(e)'
        PROVE  mem'[e].run # r
    <3>1. files[r].text = 0 /\ (HoldsCopy(e) => mem[e].run # r)
      BY <1>1, <1>4, <2>1 DEF Follows, Present
    <3>2. CASE e # c
      BY <3>1, <3>2, <2>1, OthersStay DEF HoldsCopy
    <3>3. CASE e = c /\ WriteFile(c)
      <4>1. HoldsCopy(c) /\ mem'[c].run = mem[c].run
        BY <3>3, WriteIs DEF Underway, WriteFile, HoldsCopy
      <4> QED
        BY <3>1, <3>3, <4>1
    <3>4. CASE e = c /\ ~WriteFile(c)
      BY <1>1, <2>1, <3>1, <3>4, CopyBy DEF KeepsCopy, NewCopy, ReadsCopy, Present
    <3> QED
      BY <3>2, <3>3, <3>4
  <2> QED
    BY <1>1, <1>3, <1>4, <1>7, <2>1 DEF Follows, Present
<1>8. CASE WriteFile(c) /\ mem[c].run = r
  <2>1. HoldsCopy(c) /\ pc[c] = "write"
    BY <1>8 DEF WriteFile, HoldsCopy
  <2>2. mem[c].rev = files[r].rev /\ Follows(c)
    BY <1>8, <2>1 DEF CopiesFollow, Follows
  <2>3. files[r].text # 0
    <3>1. CASE r \in Legacy
      BY <1>1, <1>4, <3>1 DEF Follows, Present
    <3>2. CASE r \notin Legacy /\ files[r].text = 0
      <4>1. mem[c].rev = 0
        BY <2>2, <3>2 DEF FilesDated, NoFile
      <4> QED
        BY <1>1, <1>8, <2>2, <3>2, <4>1 DEF Follows
    <3> QED
      BY <3>1, <3>2
  <2>4. /\ mem[d].rev <= files[r].rev
        /\ r \notin Legacy => mem[d].rev # 0
    BY <1>1, <1>4, <2>3 DEF Follows, Present
  <2>5. files'[r].rev = mem[c].rev + 1 /\ files'[r].text # 0
    <3>1. files'[r] = [rev |-> mem[c].rev + 1, text |-> clock + 1, time |-> clock + 1]
      BY <1>8, WriteIs DEF Underway
    <3> QED
      BY <1>2, <3>1
  <2>6. mem[d].rev \in Nat /\ files[r].rev \in Nat /\ pc[d] # "write"
    <3>1. lock = c
      BY <2>1 DEF Underway, LockHeld
    <3> QED
      BY <1>2, <3>1 DEF Mem, File, Underway, LockHeld
  <2> QED
    BY <1>1, <1>3, <2>2, <2>4, <2>5, <2>6 DEF Follows, Present
<1>9. CASE Delete(c, r)
  <2>1. r \notin Legacy /\ files'[r].text = 0 /\ r \in Present
    BY <1>2, <1>9 DEF Delete, NoFile, LegacyKept
  <2>2. mem[d].rev # 0
    BY <1>1, <1>4, <2>1 DEF Follows
  <2>3. pc[d] # "write"
    BY <1>9, StoreAssumption DEF Delete, Underway, LockHeld
  <2> QED
    BY <1>1, <1>3, <2>1, <2>2, <2>3 DEF Follows, Present
<1>10. CASE CopyFile(c)
  <2>1. r \in Legacy => files[r].text # 0
    BY <1>1, <1>4 DEF Follows, Present
  <2>2. files'[r] = files[r]
    BY <1>2, <1>10, <2>1, CopyFileIs
  <2> QED
    BY <1>7, <2>2
<1>11. \/ files'[r] = files[r]
       \/ WriteFile(c) /\ mem[c].run = r
       \/ Delete(c, r)
       \/ CopyFile(c)
  <2>1. WriteFile(c) /\ mem[c].run # r => files'[r] = files[r]
    BY WriteIs DEF Underway
  <2>2. ASSUME NEW s \in Runs, Delete(c, s) PROVE Delete(c, r) \/ files'[r] = files[r]
    <3>1. CASE s = r
      BY <2>2, <3>1
    <3>2. CASE s # r
      BY <1>2, <2>2, <3>2 DEF Delete
    <3> QED
      BY <3>1, <3>2
  <2>3. UNCHANGED files => files'[r] = files[r]
    OBVIOUS
  <2>4. \/ UNCHANGED files \/ \E s \in Runs : Delete(c, s)
        \/ WriteFile(c) \/ CopyFile(c)
    BY FewWrite DEF WriteLatest, CopyLatest
  <2> QED
    BY <2>1, <2>2, <2>3, <2>4
<1> QED
  BY <1>7, <1>8, <1>9, <1>10, <1>11

LEMMA CopyMoves ==
  ASSUME TypeOK, TypeOK', LegacyKept, Underway, FilesDated, CopiesFollow,
         NEW c \in Callers, Step(c), HoldsCopy(c)'
  PROVE  Follows(c)'
<1>1. /\ files \in [Runs -> File] /\ mem[c] \in Mem /\ mem \in [Callers -> Mem]
      /\ clock \in Nat
  BY TypeIs
<1>2. \A e \in Callers : e # c => pc'[e] = pc[e] /\ mem'[e] = mem[e]
  BY OthersStay
<1>3. CASE WriteFile(c)
  <2>1. /\ mem[c].run \in Runs /\ mem[c].rev \in Nat
        /\ files'[mem[c].run] =
             [rev |-> mem[c].rev + 1, text |-> clock + 1, time |-> clock + 1]
        /\ mem'[c].run = mem[c].run /\ mem'[c].rev = mem[c].rev + 1
        /\ mem'[c].text = clock + 1 /\ pc'[c] = "mark"
    BY <1>3, WriteIs DEF Underway
  <2> QED
    BY <1>1, <2>1 DEF Follows, Present
<1>4. CASE KeepsCopy(c) /\ UNCHANGED files
  <2>1. Follows(c)
    BY <1>4 DEF KeepsCopy, CopiesFollow
  <2> QED
    BY <1>2, <1>4, <2>1 DEF KeepsCopy, Follows, Present, HoldsCopy
<1>5. ASSUME NEW r \in Runs, NewCopy(c, r), UNCHANGED files PROVE Follows(c)'
  BY <1>2, <1>5 DEF NewCopy, Follows, Present
<1>6. ASSUME NEW r \in Runs, ReadsCopy(c, r), UNCHANGED files PROVE Follows(c)'
  <2>1. files[r].text # 0 /\ (r \notin Legacy => files[r].rev > 0)
    BY <1>6 DEF ReadsCopy, Present, FilesDated
  <2>2. files[r].rev \in Nat
    BY <1>1 DEF File
  <2> QED
    BY <1>6, <2>1, <2>2 DEF ReadsCopy, Follows, Present
<1> QED
  BY <1>3, <1>4, <1>5, <1>6, CopyBy

LEMMA CopiesStep ==
  ASSUME TypeOK, TypeOK', LegacyKept, Underway, FilesDated, CopiesFollow,
         NEW c \in Callers, Step(c)
  PROVE  CopiesFollow'
<1> SUFFICES ASSUME NEW d \in Callers, HoldsCopy(d)' PROVE Follows(d)'
  BY DEF CopiesFollow
<1>1. d # c => HoldsCopy(d)
  BY OthersStay DEF HoldsCopy
<1> QED
  BY <1>1, CopyStays, CopyMoves

---------------------------------------------------------------------------
(* The theorems *)

\* A step that writes the file of a run replaces the text the writer read.
LEMMA Builds ==
  ASSUME TypeOK, LegacyKept, Underway, FilesDated, CopiesFollow, NEW c \in Callers, Step(c),
         NEW r \in Runs, files'[r] # files[r]
  PROVE  Replaced(r)
<1>1. files \in [Runs -> File]
  BY TypeIs
<1>2. ASSUME NEW s \in Runs, Delete(c, s) PROVE Replaced(r)
  BY <1>1, <1>2 DEF Delete, Replaced
<1>3. CASE WriteFile(c)
  <2>1. mem[c].run = r /\ pc[c] = "write"
    BY <1>3, WriteIs DEF Underway, WriteFile
  <2>2. Follows(c) /\ mem[c].rev = files[r].rev
    BY <2>1 DEF CopiesFollow, Follows, HoldsCopy
  <2>3. files[r].text = mem[c].text
    <3>1. CASE r \in Present
      BY <2>1, <2>2, <3>1 DEF Follows
    <3>2. CASE r \notin Present
      <4>1. files[r].text = 0 /\ files[r].rev = 0
        BY <3>2 DEF Present, FilesDated, NoFile
      <4> QED
        BY <2>1, <2>2, <3>2, <4>1 DEF Follows
    <3> QED
      BY <3>1, <3>2
  <2> QED
    BY <2>1, <2>3 DEF Replaced
<1>4. CASE CopyFile(c)
  <2>1. PICK s \in Legacy :
           \/ /\ files[s].text = 0
              /\ files' = [files EXCEPT ![s] =
                             [rev |-> LegacyRev[s], text |-> s, time |-> clock + 1]]
           \/ UNCHANGED files
    BY <1>4, CopyFileIs
  <2> QED
    BY <1>1, <2>1 DEF Replaced
<1> QED
  BY <1>2, <1>3, <1>4, FewWrite DEF WriteLatest, CopyLatest

StoreState == TypeOK /\ Underway /\ FilesDated /\ SaveUnderWay /\ SearchUnderWay

LEMMA StateIs == StoreInv /\ TypeOK <=> StoreState /\ (LegacyKept => CopiesFollow)
BY DEF StoreInv, StoreState, Underway

LEMMA StateStep == StoreState /\ [Next]_vars => StoreState'
<1> SUFFICES ASSUME StoreState, [Next]_vars PROVE StoreState'
  OBVIOUS
<1>1. TypeOK'
  BY TypeStep DEF StoreState, Underway
<1>2. CASE UNCHANGED vars
  BY <1>2
  DEF vars, StoreState, TypeOK, Underway, RunsNamed, LockHeld, MigrationUnderWay, HoldsCopy,
      FilesDated, SaveUnderWay, SearchUnderWay, RunsAhead, TextAhead, ListKept, Kept, Present,
      Wanted
<1>3. ASSUME NEW c \in Callers, Step(c) PROVE StoreState'
  BY <1>1, <1>3, UnderwayStep, DatedStep, SaveStep, SearchStep DEF StoreState
<1> QED
  BY <1>2, <1>3, NextIsStep

LEMMA CopiesNext == StoreState /\ LegacyKept /\ CopiesFollow /\ [Next]_vars => CopiesFollow'
<1> SUFFICES ASSUME StoreState, LegacyKept, CopiesFollow, [Next]_vars PROVE CopiesFollow'
  OBVIOUS
<1>1. TypeOK'
  BY TypeStep DEF StoreState, Underway
<1>2. CASE UNCHANGED vars
  BY <1>2 DEF vars, CopiesFollow, Follows, HoldsCopy, Present
<1>3. ASSUME NEW c \in Callers, Step(c) PROVE CopiesFollow'
  BY <1>1, <1>3, CopiesStep DEF StoreState
<1> QED
  BY <1>2, <1>3, NextIsStep

\* The states of the directory, of the lock and of every call, reader or
\* writer: what the next three theorems rest on (RunStateStore).
THEOREM StoreKept == Spec => [](TypeOK /\ StoreInv)
<1>1. Init => StoreState /\ CopiesFollow
  BY TypeInit, UnderwayInit, DatedInit, SaveInit, SearchInit, CopiesInit DEF StoreState
<1>2. StoreState /\ (LegacyKept => CopiesFollow) /\ [Next]_vars
        => StoreState' /\ (LegacyKept => CopiesFollow)'
  BY StateStep, CopiesNext DEF LegacyKept
<1> QED
  BY <1>1, <1>2, StateIs, PTL DEF Spec

\* load_latest of every process misses no run that is there all along, whatever
\* is saved, deleted or migrated between its accesses (load_latest takes no lock).
THEOREM NoRunIsMissed == Spec => []NoneMissed
<1>1. Init => NoneMissed
  BY DEF Init, NoneMissed
<1>2. TypeOK /\ StoreInv /\ NoneMissed /\ [Next]_vars => NoneMissed'
  <2> SUFFICES ASSUME TypeOK, StoreInv, NoneMissed, [Next]_vars PROVE NoneMissed'
    OBVIOUS
  <2>1. CASE UNCHANGED vars
    BY <2>1 DEF vars, NoneMissed
  <2> QED
    BY <2>1, MissedStep, NextIsStep DEF StoreInv
<1> QED
  BY <1>1, <1>2, StoreKept, PTL DEF Spec

\* load_latest of every process finds no older state than the last save that had
\* returned when it was called, crashes between the two writes of a save
\* included, until a migration writes into the directory.
THEOREM LatestIsFound == Spec => []FoundIsRecent
<1>1. Init => FoundIsRecent
  BY DEF Init, FoundIsRecent
<1>2. TypeOK /\ StoreInv /\ FoundIsRecent /\ [Next]_vars /\ TypeOK' => FoundIsRecent'
  <2> SUFFICES ASSUME TypeOK, StoreInv, FoundIsRecent, [Next]_vars, TypeOK'
               PROVE  FoundIsRecent'
    OBVIOUS
  <2>1. CASE UNCHANGED vars
    BY <2>1 DEF vars, FoundIsRecent
  <2> QED
    BY <2>1, FoundStep, NextIsStep DEF StoreInv, Underway
<1> QED
  BY <1>1, <1>2, StoreKept, PTL DEF Spec

\* No save loses another's: a save replaces the text it was made from, for every
\* number of processes and runs, as long as no legacy run is deleted (the revision
\* check of save, and migrate_from).
THEOREM SavesAreKept ==
  ASSUME LegacyKept
  PROVE  Spec => SavesBuildOn
<1>1. TypeOK /\ StoreInv /\ [Next]_vars
        => [\A r \in Runs : files'[r] # files[r] => Replaced(r)]_vars
  <2> SUFFICES ASSUME TypeOK, StoreInv, Next, NEW r \in Runs, files'[r] # files[r]
               PROVE  Replaced(r)
    OBVIOUS
  <2> QED
    BY Builds, NextIsStep DEF StoreInv, Underway
<1> QED
  BY <1>1, StoreKept, PTL DEF Spec, SavesBuildOn
=============================================================================
