----------------------------- MODULE SkillServer -----------------------------
(***************************************************************************)
(* An MCP server (mcp/server.py) that answers from its registry while      *)
(* users edit the skill files and skills.yaml under it.  Calls are handled *)
(* one after the other; the files do not wait for them.                    *)
(***************************************************************************)
EXTENDS SkillRegistry

CONSTANTS
  Yamls,   \* what a user may make of skills.yaml
  MaxOps   \* bound on the edits and calls

ASSUME ServerAssumption == Yamls \subseteq Yaml /\ MaxOps \in Nat /\ ZoneId # "absent"

VARIABLES
  files, yaml,  \* the sources
  reg,          \* the registry; its zone is "absent" before the server starts
  seen,         \* the versions files have had since a load last began
  prep,         \* the last prepare_context: its step, what its decision record
                \* says and the contents it returned
  left          \* edits and calls left

vars == <<files, yaml, reg, seen, prep, left>>

NoCall == [pc |-> "idle", record |-> Nothing, shown |-> Nothing]

Init ==
  /\ files = [s \in Ids |-> 1]
  /\ yaml \in Yamls
  /\ reg = Empty("absent")
  /\ seen = [s \in Ids |-> {1}]
  /\ prep = NoCall
  /\ left = MaxOps

Spend == left > 0 /\ left' = left - 1

EditFile ==
  /\ Spend
  /\ \E s \in Ids, v \in 0 .. MaxVersion :
       /\ v # files[s]
       /\ files' = [files EXCEPT ![s] = v]
       /\ seen' = [seen EXCEPT ![s] = @ \cup {v}]
  /\ UNCHANGED <<yaml, reg, prep>>

EditYaml ==
  /\ Spend
  /\ yaml' \in Yamls \ {yaml}
  /\ UNCHANGED <<files, reg, seen, prep>>

---------------------------------------------------------------------------
Started == reg.zone # "absent"

\* A call that reads the files has the server to itself.
Call ==
  /\ Spend
  /\ prep.pc # "show"
  /\ UNCHANGED <<files, yaml>>

\* create_server: if the first load raises there is no server.
Start ==
  /\ Call
  /\ ~Started
  /\ \E zone \in {None, ZoneId} :
       LET loaded == Load(Empty(zone), yaml, files)
       IN  reg' = IF loaded.ok THEN loaded.r ELSE reg
  /\ seen' = [s \in Ids |-> {files[s]}]
  /\ UNCHANGED prep

\* SkillRegistry.reload; what it raises goes to its caller, the server goes on.
ReloadAll ==
  /\ Call
  /\ Started
  /\ reg' = Reload(reg, yaml, files).r
  /\ seen' = [s \in Ids |-> {files[s]}]
  /\ prep' = NoCall

\* get_skill
GetSkill ==
  /\ Call
  /\ Started
  /\ \E s \in DOMAIN reg.skills : reg' = Remember(reg, files, s)
  /\ UNCHANGED <<seen, prep>>

Active(chosen) == reg.forced \cup chosen

\* prepare_context up to its decision record: the skills it chose are read and
\* hashed.  The search may find any of the passive ones.
PrepareRecord ==
  /\ Call
  /\ Started
  /\ \E chosen \in SUBSET (DOMAIN reg.skills \ reg.forced) :
       LET all == ReadAll(reg, files, Active(chosen))
       IN  /\ Active(chosen) # {}
           /\ reg' = all.r
           /\ prep' = IF all.ok
                      THEN [ pc     |-> "show",
                             record |-> [s \in Active(chosen) |-> Get(all.r, files, s).parts],
                             shown  |-> Nothing ]
                      ELSE NoCall
  /\ UNCHANGED seen

\* The rest of it: they are read again and returned.
PrepareShow ==
  /\ prep.pc = "show"
  /\ LET active == DOMAIN prep.record
         all    == ReadAll(reg, files, active)
     IN  /\ reg' = all.r
         /\ prep' = IF all.ok
                    THEN [ prep EXCEPT !.pc = "done",
                                       !.shown = [s \in active |-> Get(all.r, files, s).parts] ]
                    ELSE NoCall
  /\ UNCHANGED <<files, yaml, seen, left>>

Next ==
  \/ EditFile \/ EditYaml
  \/ Start \/ ReloadAll
  \/ GetSkill \/ PrepareRecord \/ PrepareShow

Spec == Init /\ [][Next]_vars

---------------------------------------------------------------------------
(* Properties *)

\* After a reload, whether it succeeded or not, nothing is answered from what was
\* read before it: every version in the cache is one the file has had since.
NoneFromBeforeReload ==
  \A s \in DOMAIN reg.cache : \A u \in DOMAIN reg.cache[s] : reg.cache[s][u] \in seen[u]

\* Between two reloads all skills that share a base are answered with the same
\* version of it, in whatever order they are asked for and edited (a base that
\* was missing when it was read is not kept, and may appear later).
OneBaseAnswered ==
  \A s, t \in DOMAIN reg.cache : \A u \in DOMAIN reg.cache[s] \cap DOMAIN reg.cache[t] :
    0 \in {reg.cache[s][u], reg.cache[t][u]} \/ reg.cache[s][u] = reg.cache[t][u]

\* What the registry keeps agrees with the hashes recorded in its own index,
\* also when a reload has replaced only a part of it.
KeptIsPinned ==
  \A s \in DOMAIN reg.cache : \A u \in DOMAIN reg.cache[s] :
    reg.cache[s][u] = 0 \/ Index(reg)[u] \in {0, reg.cache[s][u]}

\* The content_hashes of a decision record are those of the contents returned
\* with it, though the contents are fetched twice and the files may change in
\* between; a file that was missing the first time is the exception.
RecordMatchesContent ==
  prep.pc = "done" =>
    \A s \in DOMAIN prep.shown :
      prep.record[s] = Only(s, 0) \/ prep.record[s] = prep.shown[s]
=============================================================================
