------------------------------ MODULE Workspace ------------------------------
(***************************************************************************)
(* One project directory: its users edit skill files and skills.yaml while *)
(* a command of the CLI works on them (main.py: build, validate            *)
(* --check-lock, sync; cli/import_cmd.py: import).  A command parses once, *)
(* reads files one after the other and writes its results one after the    *)
(* other; nobody locks anything, and it may fail or be killed in between.  *)
(***************************************************************************)
EXTENDS SkillsLock, SkillRegistry

CONSTANTS
  Yamls,       \* what a user may make of skills.yaml
  Importable,  \* the skills that somebody may import
  MaxOps       \* bound on the edits and commands

ASSUME WorkspaceAssumption ==
  /\ Importable \subseteq Ids /\ Yamls \subseteq Yaml /\ MaxOps \in Nat
  /\ MaxVersion > 0
  \* Without declared zones the workspace is in the zone "default".
  /\ ZoneId \notin {None, "absent"}
  /\ \A y \in Yamls : ZoneId \in Zones(y) \cup {"default"}

VARIABLES
  files, yaml,   \* the sources: skill files, skills.yaml
  lock, locked,  \* skills.lock.json; what the build that wrote it had done
  agents,        \* AGENTS.md: who wrote it, and the contents in it
  exports,       \* the directory of a distributed target, skill by skill
  cmd,           \* the step of the command or the outcome of the last one, which
                 \* for a sync is its target
  work,          \* what the command has in memory
  quiet,         \* nothing was edited since the command began
  left           \* edits and commands left

sources == <<files, yaml>>
results == <<lock, locked, agents, exports>>
vars == <<sources, results, cmd, work, quiet, left>>

Outcomes == {"idle", "failed", "built", "clean", "drift", "directory", "file", "imported"}
Steps == {"validate", "read", "lock", "compare", "load", "export", "import"}

\* zone; what was parsed and resolved; skills to come; contents so far and the
\* reader's own cache; the registry of a sync; options: --lock, --full, --force,
\* the kind of target; what an import fetched.
NoWork ==
  [ zone |-> None, yaml |-> CHOOSE y \in Yamls : TRUE, pins |-> Nothing, res |-> Nothing,
    todo |-> {}, done |-> Nothing, cache |-> Nothing, reg |-> Empty(None),
    option |-> FALSE, target |-> None, got |-> Nothing ]

Init ==
  /\ files = [s \in Ids |-> IF s \in Discovered \ Importable THEN 1 ELSE 0]
  /\ yaml \in Yamls
  /\ lock = NoLock
  /\ locked = [quiet |-> FALSE, parts |-> Nothing, rivals |-> FALSE, pins |-> Nothing, files |-> files]
  /\ agents = [by |-> None, parts |-> Nothing]
  /\ exports = Nothing
  /\ cmd = "idle"
  /\ work = NoWork
  /\ quiet = TRUE
  /\ left = MaxOps

Spend == left > 0 /\ left' = left - 1

\* An edit that no command will see is of no interest.
Edits == Spend /\ (left > 1 \/ cmd \in Steps)

---------------------------------------------------------------------------
(* Users *)

EditFile ==
  /\ Edits
  /\ \E s \in Ids, v \in 0 .. MaxVersion : v # files[s] /\ files' = [files EXCEPT ![s] = v]
  /\ quiet' = FALSE
  /\ UNCHANGED <<yaml, results, cmd, work>>

EditYaml ==
  /\ Edits
  /\ yaml' \in Yamls \ {yaml}
  /\ quiet' = FALSE
  /\ UNCHANGED <<files, results, cmd, work>>

---------------------------------------------------------------------------
(* Every command *)

Loaded == work.res
Known == work.pins
Visible(res) == res.forced \cup res.passive

Enter(step) == cmd' = step /\ UNCHANGED <<sources, quiet, left>>

End(outcome) == Enter(outcome) /\ work' = NoWork

\* The command line is free again for the next command.
Begins(next) ==
  /\ cmd \in Outcomes
  /\ Spend
  /\ quiet' = TRUE
  /\ cmd' = next
  /\ UNCHANGED <<sources, results>>

\* The parser and the resolver come first; either may refuse.
Parse(next, zone, option, target) ==
  LET ok == Parses(yaml, files) /\ Resolved(yaml, files, zone).ok
  IN  /\ Begins(IF ok THEN next ELSE "failed")
      /\ work' = IF ok
                 THEN [NoWork EXCEPT !.zone = zone, !.yaml = yaml, !.pins = Pins(yaml, files),
                                     !.res = Resolved(yaml, files, zone),
                                     !.option = option, !.target = target]
                 ELSE NoWork

\* An exception or a kill: what is written stays.
Fail ==
  /\ cmd \in Steps
  /\ End("failed")
  /\ UNCHANGED results

---------------------------------------------------------------------------
(* SkillContentResolver.read *)

\* The base of s by way of the registry, the reader's cache or a reader of its
\* own, and what that leaves in the two caches.
BaseRead(pins, r, cache, fs, s, own) ==
  LET b == BaseOf[s]
      shared == Get(r, fs, b)
  IN  IF shared.ok /\ shared.parts # Nothing
      THEN [ok |-> TRUE, parts |-> shared.parts, reg |-> Remember(r, fs, b), cache |-> cache]
      ELSE IF b \in DOMAIN cache THEN [ok |-> TRUE, parts |-> cache[b], reg |-> r, cache |-> cache]
      ELSE IF b \in DOMAIN pins THEN own
      ELSE [ok |-> TRUE, parts |-> Nothing, reg |-> r, cache |-> cache]

\* The registry answers if it can; whatever it raises, the file is read anew and
\* compared with the pins of the command.  A build has no registry: r is empty.
Read(pins, r, cache, fs, skill) ==
  LET f[s \in 0 .. N] ==
        LET shown == Shown(r, fs, s)
            base  == BaseRead(pins, r, cache, fs, s, f[BaseOf[s]])
            made  == Over(Only(s, fs[s]), base.parts)
        IN  IF s = 0 THEN [ok |-> TRUE, parts |-> Nothing, reg |-> r, cache |-> cache]
            ELSE IF shown.ok /\ shown.parts # Nothing
            THEN [ok |-> TRUE, parts |-> shown.parts, reg |-> Remember(r, fs, s), cache |-> cache]
            ELSE IF s \in DOMAIN cache
            THEN [ok |-> TRUE, parts |-> cache[s], reg |-> r, cache |-> cache]
            ELSE IF fs[s] = 0
            THEN [ok |-> TRUE, parts |-> Only(s, 0), reg |-> r,
                  cache |-> Over(Only(s, Only(s, 0)), cache)]
            ELSE IF ~PinHolds(pins, fs, s) THEN [ok |-> FALSE]
            ELSE IF ~base.ok THEN [ok |-> FALSE]
            ELSE [ok |-> TRUE, parts |-> made, reg |-> base.reg,
                  cache |-> Over(Only(s, made), base.cache)]
  IN  f[skill]

\* The loaded skills are taken in the order of the configuration, forced first.
FirstOf(S) ==
  LET first == IF S \cap Loaded.forced # {} THEN S \cap Loaded.forced ELSE S
  IN  CHOOSE s \in first : \A t \in first \ {s} : Before(work.yaml, s, t)

\* A skill that cannot be read leaves only Fail to the command.

---------------------------------------------------------------------------
(* build, with or without --lock *)

Build == \E option \in BOOLEAN : Parse("validate", ZoneId, option, None)

\* _validate_visible_provenance_hashes
Validate ==
  /\ cmd = "validate"
  /\ \A s \in Visible(Loaded) : PinHolds(Known, files, s)
  /\ work' = [work EXCEPT !.todo = Loaded.forced]
  /\ Enter("read")
  /\ UNCHANGED results

\* Mutated ReadForced: every skill is read by a reader of its own.
ReadForcedAlone ==
  /\ cmd = "read"
  /\ work.todo # {}
  /\ LET s   == FirstOf(work.todo)
         got == Read(Known, Empty(None), Nothing, files, s)
     IN  /\ got.ok
         /\ work' = [work EXCEPT !.todo = @ \ {s}, !.done = Over(Only(s, got.parts), @)]
  /\ UNCHANGED <<sources, results, cmd, quiet, left>>

\* _read_forced_skills
ReadForced ==
  /\ cmd = "read"
  /\ work.todo # {}
  /\ LET s   == FirstOf(work.todo)
         got == Read(Known, Empty(None), work.cache, files, s)
     IN  /\ got.ok
         /\ work' = [work EXCEPT !.todo = @ \ {s}, !.cache = got.cache,
                                 !.done = Over(Only(s, got.parts), @)]
  /\ UNCHANGED <<sources, results, cmd, quiet, left>>

WriteManifest ==
  /\ cmd = "read"
  /\ work.todo = {}
  /\ agents' = [by |-> "build", parts |-> work.done]
  /\ IF work.option THEN Enter("lock") /\ UNCHANGED work ELSE End("built")
  /\ UNCHANGED <<lock, locked, exports>>

\* SkillsLock.write: the resolution of before, the files of now.
WriteLock ==
  /\ cmd = "lock"
  /\ lock' = Generate(work.yaml, Loaded, work.zone, files)
  /\ locked' = [ quiet |-> quiet, parts |-> work.done, rivals |-> work.yaml.rivals,
                 pins |-> Known, files |-> files ]
  /\ End("built")
  /\ UNCHANGED <<agents, exports>>

---------------------------------------------------------------------------
(* validate --check-lock, with or without --zone *)

\* A zone that is named must be declared.
Check ==
  \E zone \in Zones(yaml) \cup {DefaultZone(yaml)} : Parse("compare", zone, FALSE, None)

Compare ==
  /\ cmd = "compare"
  /\ lock # NoLock
  /\ End(IF Drift(lock, work.yaml, Loaded, work.zone, files) = {} THEN "clean" ELSE "drift")
  /\ UNCHANGED results

---------------------------------------------------------------------------
(* sync to a directory (hermes, openclaw, cursor) or to one file (agents-md) *)

Sync == \E full \in BOOLEAN, target \in {"directory", "file"} : Parse("load", ZoneId, full, target)

\* The registry parses once more.
LoadRegistry ==
  /\ cmd = "load"
  /\ LET loaded == Load(Empty(work.zone), yaml, files)
     IN  /\ loaded.ok
         /\ work' = [work EXCEPT !.reg = loaded.r, !.todo = Visible(Loaded)]
  /\ Enter("export")
  /\ UNCHANGED results

\* write of a directory target: the file in the skill's own directory is replaced,
\* every other one is left alone.
Exported(s, parts) == Over(Only(s, parts), exports)

\* sync_to: the content of a skill, or a summary of a passive one.
Export ==
  /\ cmd = "export"
  /\ work.todo # {}
  /\ LET s     == FirstOf(work.todo)
         got   == Read(Known, work.reg, work.cache, files, s)
         whole == work.option \/ s \in Loaded.forced
         parts == IF whole THEN got.parts ELSE Nothing
     IN  /\ whole => got.ok
         /\ work' = [work EXCEPT !.todo  = @ \ {s},
                                 !.cache = IF whole THEN got.cache ELSE @,
                                 !.reg   = IF whole THEN got.reg ELSE @,
                                 !.done  = Over(Only(s, parts), @)]
         /\ exports' = IF work.target = "directory" THEN Exported(s, parts) ELSE exports
  /\ UNCHANGED <<sources, lock, locked, agents, cmd, quiet, left>>

\* finalize: nothing that an earlier sync left in the directory is taken away.
Finalize ==
  /\ cmd = "export"
  /\ work.todo = {}
  /\ agents' = IF work.target = "file" THEN [by |-> "sync", parts |-> work.done] ELSE agents
  /\ End(work.target)
  /\ UNCHANGED <<lock, locked, exports>>

---------------------------------------------------------------------------
(* import, with or without --force *)

\* The files are fetched before anything is written.
Import ==
  /\ Begins("import")
  /\ \E force \in BOOLEAN, S \in SUBSET Importable : \E got \in [S -> 1 .. MaxVersion] :
       work' = [NoWork EXCEPT !.option = force, !.got = got, !.todo = S]

\* A file that exists is passed over, and its skill is not registered either.
WriteFile ==
  /\ cmd = "import"
  /\ \E s \in work.todo :
       LET new == files[s] = 0 \/ work.option
       IN  /\ files' = IF new THEN [files EXCEPT ![s] = work.got[s]] ELSE files
           /\ work' = [work EXCEPT !.todo = @ \ {s},
                                   !.done = IF new THEN Over(Only(s, work.got[s]), @) ELSE @]
  /\ UNCHANGED <<yaml, results, cmd, quiet, left>>

\* _append_skills_to_yaml: an id that is listed keeps its entry.
Register ==
  /\ cmd = "import"
  /\ work.todo = {}
  /\ LET new == DOMAIN work.done \ yaml.listed
     IN  yaml' = [yaml EXCEPT !.listed = @ \cup new,
                              !.pin = [s \in Ids |-> IF s \in new THEN work.got[s] ELSE @[s]]]
  /\ cmd' = "imported"
  /\ work' = NoWork
  /\ UNCHANGED <<files, results, quiet, left>>

---------------------------------------------------------------------------
Next ==
  \/ EditFile \/ EditYaml
  \/ Build \/ Validate \/ ReadForced \/ WriteManifest \/ WriteLock
  \/ Check \/ Compare
  \/ Sync \/ LoadRegistry \/ Export \/ Finalize
  \/ Import \/ WriteFile \/ Register
  \/ Fail

Spec == Init /\ [][Next]_vars

---------------------------------------------------------------------------
(* Properties *)

\* What a build would do now.
Outcome == Resolved(yaml, files, ZoneId)
Reading(s) == Read(Pins(yaml, files), Empty(None), Nothing, files, s)
Builds ==
  /\ Parses(yaml, files)
  /\ Outcome.ok
  /\ \A s \in Visible(Outcome) : PinHolds(Pins(yaml, files), files, s)
  /\ \A s \in Outcome.forced : Reading(s).ok
Manifest == [s \in Outcome.forced |-> Reading(s).parts]

\* What a clean lock is worth (build --lock: "保证可复现性").  If nothing was edited
\* during the check, every skill with an entry is there with the file it had when
\* the lock was written, whatever was edited while that build was under way.  If
\* nothing was, a build now gives the contents of then, unless something changed
\* that the lock does not hold: the bases of other zones, and conflicts that
\* skills.yaml declares.
LockReproduces ==
  cmd = "clean" /\ quiet =>
    /\ \A s \in DOMAIN lock.entries : s \in Configured(yaml, files) /\ files[s] = locked.files[s]
    /\ /\ Builds
       /\ locked.quiet /\ locked.rivals = yaml.rivals
       /\ \A s \in Ids \ DOMAIN lock.entries :
            locked.files[s] = files[s] /\ (s \in DOMAIN locked.pins <=> s \in Configured(yaml, files))
       => Manifest = locked.parts

\* No text reaches AGENTS.md or an export whose skill has a recorded hash that is
\* another: neither by the registry nor by the reading that takes over when the
\* registry raises (content_resolver.py:68-99).
MayDeliver(parts) ==
  \A s \in DOMAIN parts :
    \/ parts[s] = 0
    \/ \E pins \in {Known, Index(work.reg)} : s \in DOMAIN pins /\ pins[s] \in {0, parts[s]}

DeliveredIsPinned ==
  [][ /\ agents' # agents => \A s \in DOMAIN agents'.parts : MayDeliver(agents'.parts[s])
      /\ \A s \in DOMAIN exports' :
           (s \notin DOMAIN exports \/ exports'[s] # exports[s]) => MayDeliver(exports'[s]) ]_vars

\* The skills of one manifest share one version of their base, whatever is
\* edited while the build reads them (SkillContentResolver._cache).
OneBasePerManifest ==
  agents.by = "build" =>
    \A s, t \in DOMAIN agents.parts : \A b \in DOMAIN agents.parts[s] \cap DOMAIN agents.parts[t] :
      agents.parts[s][b] = agents.parts[t][b]

\* The two readers of skills agree: a sync that nobody disturbs exports what a
\* build puts into AGENTS.md.
SyncMatchesBuild ==
  quiet /\ Builds =>
    /\ cmd = "directory" => \A s \in Outcome.forced : exports[s] = Manifest[s]
    /\ cmd = "file" => \A s \in Outcome.forced : agents.parts[s] = Manifest[s]
=============================================================================
