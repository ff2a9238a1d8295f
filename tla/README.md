# skills-orchestrator: a TLA+ verification project

`skills_orchestrator/` compiles a set of skills into an instruction manifest
and drives *pipelines*: step-by-step runs of an AI agent in which every step
ends at a quality gate. Around that core there are a lock file, exports to
other agents, an MCP server that answers from the same skills, a GitHub action
that reviews changes of them, and a script that watches a release appear.

This project models the parts that have state, order or more than one actor:

* the **pipeline runtime**: several MCP servers and CLI calls share a state file
  and an append-only audit log, any of them may die between two writes, and a
  *production* run must never be approved without evidence;
* the **store** of all runs and the bytes of the audit log;
* the **compiler**: which skills a zone loads, and the commands `build`,
  `validate --check-lock`, `sync` and `import` while users edit files;
* the **MCP server**: what it answers from its caches while files change;
* the **GitHub action**: overlapping and repeated jobs that share one comment;
* the **release check**: one attempt after the other against surfaces that other
  workflows are still filling.

Paths below are relative to `src/skills_orchestrator/` unless they begin with
`src/`.

## Inventory

| Component | State it keeps | Operations | Talks to |
|---|---|---|---|
| step machine, `pipeline/engine.py`, `pipeline/models.py` | none of its own; `RunState`: current step, status, history, context, lease, outbox | `start`, `complete_and_advance`, `advance`, `resume`, `_auto_skip` | called by the service and the handlers; starts verifier subprocesses |
| run service, `pipeline/service.py` | the caller's copy of a run | `start`, `advance`, `_flush_approval_outbox` | step machine, store, audit log |
| run store, `pipeline/store.py` | `runs/<id>.json`, `.latest`, `.store.lock` | `save` (revision check), `claim_verification`, `load`, `load_latest`, `delete`, `migrate_from` | audit log (a load looks for the outbox's event) |
| audit log, `mcp/audit.py` | `events.jsonl`, `.events.lock` | `append`, `contains_event`, `verify_chain` | written by the service, read by the store |
| handlers, `mcp/tools.py`, `main.py` | none between calls | pipeline start, advance, resume, status | service, store, engine |
| conflict resolver, `compiler/resolver.py` | the resolution in progress | `resolve`, `_filter_by_zone`, `_detect_conflicts`, `_validate_bases` | compressor, registry, checker |
| parser, `compiler/parser.py` | none | discovery, listed skills, overrides, zones | resolver |
| content resolver, `compiler/content_resolver.py`, `compiler/provenance.py` | contents read by one command | `read`, `_read_base`, hash check | registry, if there is one; build and sync |
| registry, `mcp/registry.py` | indices of skills, forced ids, content cache | `_load`, `reload`, `get_content` | parser, resolver, MCP tools, sync |
| MCP server, `mcp/server.py`, `mcp/tools.py` | one registry | `get_skill`, `prepare_context`, searches and lists | registry, audit log |
| lock file, `compiler/lock.py` | `skills.lock.json` | `generate`, `write`, `check` | build, validate, checker |
| compressor, `compiler/compressor.py` | `AGENTS.md` | hash check, forced skills, passive index | content resolver |
| sync, `sync/targets.py` | files of other agents | `sync_to`, and `write`, `finalize` of five targets | content resolver, registry |
| import, `cli/import_cmd.py`, `cli/helpers.py` | files under `skills/`, `skills.yaml` | fetch, write, append entries | network (external) |
| checker, `checker.py`, `policy/`, `cli/check_cmd.py` | none | diagnostics, policy trace, exit code | parser, resolver, lock |
| organisation registry, `org_registry.py` | none | build, diff, graph | parser, resolver |
| GitHub action, `src/action.yml`, `integrations/github_pr_comment.py` | a job's artifacts; the comments of a pull request | check, diff, evidence, summary, upsert of the comment, gate | all of the reports, GitHub |
| reports: evidence, index, dashboard, reviewer, explainability, doctor, conformance, supply chain, schema audit | none | one pass over files each | files |
| release check, `src/scripts/post_release_smoke.py` | the checks of an attempt, a kept SBOM | `collect_checks`, retries, report | GitHub, PyPI, GHCR, fresh environments |

What is hard about them:

* **interleaving and staleness**: every handler loads, computes (possibly for
  60 seconds, in a subprocess) and saves; only the revision check stands
  between two of them. The compiler has no lock at all: a command parses once,
  then reads files one by one while they change;
* **order across two files**: state file and audit log, `AGENTS.md` and
  `skills.lock.json`, skill files and `skills.yaml` cannot be written in one
  step, and each write may be the last thing a process does;
* **two readers of one thing**: skills are put together with their bases by the
  registry and by the content resolver; the check of a job is run two times
  with options handed on by hand;
* **leases, retries, re-runs**: a claim may outlive its verifier and the verifier
  its claim; every call, job and attempt can be repeated;
* **partial failure**: a reload, a sync, an import or a job stops in the middle;
* **paging and moving tags**: what was listed or resolved is not what is there
  when it is used.

What makes each component correct is stated as [properties](#properties).
`PROJECT.json` lists the components with their status, and under `hazards` each
place where one of these can go wrong, with the properties that would show it.

## Modules

| Module | What it is |
|---|---|
| `PipelineEngine` | the step machine as operators on a run record |
| `PipelineService` | one run, several callers: the system's core, with its properties |
| `GateApproval` | abstract: what a production run promises to readers of its log |
| `PipelineCopies` | the inductive invariant behind leases, limits and saves: what a caller's copy says about the file |
| `PipelineAudit` | the two inductive invariants behind the audit properties of production runs |
| `PipelineService_proofs` | fifteen theorems about them |
| `AuditLog`, `AuditLog_proofs` | the bytes of `events.jsonl` under concurrent writers; three theorems |
| `AtomicLog` | abstract: the log as `PipelineService` takes it for granted |
| `RunStore`, `RunStore_proofs` | the directory of all runs: saves, `.latest`, migration, deletion; four theorems |
| `Resolver`, `Resolver_proofs` | zone filter, base validation and conflict loop of the compiler; its loop invariants and five theorems |
| `SkillFiles` | skill files and `skills.yaml`: parser, outcome of the resolver, contents with bases, recorded hashes |
| `SkillsLock` | the lock file: generate and check |
| `SkillRegistry` | the registry as operators: load with its failures, reload, lazy contents |
| `Workspace`, `Workspace_proofs` | users and the commands `build`, `validate --check-lock`, `sync`, `import` in one directory; four theorems |
| `SkillServer`, `SkillServer_proofs` | a running MCP server over a registry while files change; four theorems |
| `OrgRegistry` | the registry of several configurations and its diff |
| `SkillCheck` | diagnostics, failed rules, exit code and status of one configuration |
| `ReviewAction`, `ReviewAction_proofs` | the jobs of the GitHub action, the base branch, the comments and the people who write them; four theorems |
| `ReleaseSmoke`, `ReleaseSmoke_proofs` | the release check beside the publishing workflows; its invariant and four theorems |
| `MC...` | instances for TLC |

How they are composed: `PipelineService` EXTENDS `PipelineEngine` and INSTANCEs
`GateApproval`; `AuditLog` INSTANCEs `AtomicLog`. The two halves meet at the
audit log: `PipelineService` appends in one step and has a set `torn` of sinks
whose chain no longer verifies; `AuditLog` shows under which condition a file
written in pieces behaves like that.

`SkillFiles` INSTANCEs `Resolver` for its zone filter, ranks and conflicts;
`SkillsLock` and `SkillRegistry` extend `SkillFiles`, and `Workspace` extends
both: a sync in it is a registry that loads for itself, a content resolver that
asks it, and the files under both. `SkillServer` is the same registry in a
process that stays. `ReviewAction` extends `SkillCheck`, which extends
`OrgRegistry`.

### State and code

| Variable | Code |
|---|---|
| `disk` | the run's JSON file: `rev` is `revision`, `step` is `current_step` (0 for `None`), `done`/`skipped`/`failed` are `step_history`, `lease` is `verification`, `outbox` is `approval_outbox` |
| `log`, `torn` | the lines of all audit directories; the directories whose last line is incomplete |
| `pc`, `mem` | where each handler is between two accesses to shared state, and its copy of the run |
| `sink` | the `audit_dir` a process was started with |
| `expired` | time: leases claimed at this revision or before are over |
| `fresh` | uuid4: event and execution ids are numbered in the order they are drawn |
| `file`, `lock`, `payload` (`AuditLog`) | the text of `events.jsonl` line by line, `.events.lock`, the line a writer is about to write |
| `files`, `latest`, `lock` (`RunStore`) | `runs/*.json`, `runs/.latest`, `.state.lock`; a file is its revision, a number that stands for its text and its modification time |
| `returned`, `moved` (`RunStore`) | history: what the last save that returned wrote, and whether a migration wrote |
| `cfg`, `at`, `c`, `blocked`, `forced`, `passive` (`Resolver`) | the configuration and active zone, the two loop variables, `blocked_ids` and the two result lists |
| `files`, `yaml` (`Workspace`, `SkillServer`) | the skill files, each the number of its version, and `skills.yaml` |
| `lock`, `agents`, `exports` (`Workspace`) | `skills.lock.json`, `AGENTS.md` and the directory of a target, each with the *contents* in it: which version of which file |
| `work` (`Workspace`) | a command's memory: configuration, resolution, its reader's cache, its registry |
| `locked`, `quiet` (`Workspace`), `seen` (`SkillServer`) | history: what the locked build did, whether anything was edited since a command began, the versions since a load began |
| `reg` | the registry's `_skills`, `_all_skills`, `_forced_ids`, `_content_cache` |
| `prep` | a `prepare_context` between its record and its answer |
| `jobs`, `base`, `comments` (`ReviewAction`) | each job's event, step and artifacts; the base branch; the comments in the order GitHub lists them |
| `todo`, `checks`, `digest`, `kept` (`ReleaseSmoke`) | the steps left of an attempt, its `Check`s, `ghcr_digest`, the attempt whose SBOM was copied out |
| `public`, `tag`, `whole`, `signed`, `attested` | what the publishing workflows have done so far |

`step_history` is a list in the code. The code asks three things of it: is
there a completed (skipped) record of a step, and how many failed ones. Those
three are what the model keeps. A step number is its position in a topological
order, which `Pipeline.validate` guarantees to exist.

### Actions and code

| Action | Code |
|---|---|
| `Start`, `Create` | `PipelineRunService.start`: `started` event, then the file |
| `LoadToAdvance` | `_pipeline_advance`: load, and the decision to flush first |
| `AppendOutbox`, `AppendRefused`, `ClearOutbox` | `_flush_approval_outbox`: sink comparison, strict append, the save without the outbox |
| `Prepare` | `context.update` and `claim_verification`, or the claim refused by a live lease |
| `Evaluate`, `BeginCheck`, `EndCheck` | `complete_and_advance`: limit, gate conditions, the verifier subprocess and its end (verdict or timeout), branch or successor |
| `SaveResult` | the save of the candidate |
| `LoadToResume`, `SaveResumed` | the resume handlers |
| `LeaseExpires`, `Crash` | 120 seconds pass; a process is killed, at any point, possibly in the middle of an append |
| `Enter`, `Found`, `Write`, `Finish`, `CutShort` (`AuditLog`) | `AuditLogger.append`: lock, chain check and search for the id, first bytes, the rest with fsync, and a write that is cut short |
| `Load`, `ReadLatest`, `OpenLatest`, `ListFiles`, `OpenNext` (`RunStore`) | `load`, and the accesses of `load_latest` in their order |
| `Save`, `SaveRefused`, `WriteFile`, `WriteLatest`, `Delete` (`RunStore`) | `save` with its revision check under the lock and its two atomic replacements; `delete` |
| `Migrate`, `CopyFile`, `Differs`, `CopyLatest` (`RunStore`) | `migrate_from`: lock, one file per step, the conflict that ends it, `.latest` |
| `Validate`, `PassOver`, `Take`, `Ignore`, `Win`, `Lose`, `Undecided`, `Place`, `Finish` (`Resolver`) | `resolve`: the base check, and the two nested loops of `_detect_conflicts`, one comparison per step |
| `Build`, `Validate`, `ReadForced`, `WriteManifest`, `WriteLock` (`Workspace`) | `build`: parse and resolve; hashes of all visible skills; one forced skill after the other; `AGENTS.md`; the lock, which hashes the files again |
| `Check`, `Compare` | `validate --check-lock`, with the zone it was given |
| `Sync`, `LoadRegistry`, `Export`, `Finalize` | `sync`: parse and resolve, the registry's own load, one skill after the other, the single file |
| `Import`, `WriteFile`, `Register` | `import`: the files fetched, written, and the entries appended |
| `Start`, `ReloadAll`, `GetSkill`, `PrepareRecord`, `PrepareShow` (`SkillServer`) | `create_server`, `reload`, `get_skill`, and the two halves of `prepare_context` |
| `Check`, `BuildDiff`, `ExportEvidence`, `Summarise`, `Gate` (`ReviewAction`) | the steps of `src/action.yml` |
| `List`, `Write`, `RequestFails` | `upsert_marker_comment`: one page, the one request that changes something, an error of any request |
| `CheckSource`, `FetchJson`, `Inspect`, `Verify`, `CheckReadiness`, `Install` (`ReleaseSmoke`) | the functions of `collect_checks`, step by step as `Plan` lists them |
| `Retry`, `Report` | the loop and the end of `main` |

Everything between two accesses to shared state is one step, because no other
process can see it. A save is one step because the revision check and the
rename happen under an exclusive `flock`.

## Runs

| Run | Module, cfg | Shows |
|---|---|---|
| `production` | `MCPipelineService`, `MCProduction` | two callers on a two-step production run, one crash: audit log and state file agree, and the refinement `ImplementsApproval` |
| `recovery` | `MCRecovery` | two callers with different audit directories recover each other's outbox after a crash; the inductive invariant `RunInv`; liveness: outboxes are drained |
| `coordination` | `MCCoordination` | skips, failure branches, leases, and resumes under a running verifier |
| `audit_log` | `MCAuditLog` | three writers, cut-short writes: `AuditLog` implements `AtomicLog` |
| `run_store` | `MCRunStore` | two processes on four runs: saves, lock-free `load_latest`, deletion, migration, one crash |
| `resolver` | `MCResolver` | all conflicts of three skills, declared on one side or on both, in every order; all their base references |
| `workspace` | `MCWorkspace` | commands and edits in any order: hashes, bases, lock and exports |
| `server` | `MCSkillServer` | a server's answers between edits and reloads that may fail |
| `review_action` | `MCReviewAction` | two jobs, re-runs, a moving base, faults and people |
| `release` | `MCReleaseSmoke` | two attempts while the release appears and the tag moves |
| `gate_bypass`, `branch_audit` | `MCBypass`, `MCBranch` | violations, see [Findings](#findings) |

### Properties

Pipelines:

* `CompletionsAudited`, `FailuresAudited`: each recorded outcome has its event
  in the log or in the outbox. `AuditBackedByState` is the converse: the log
  claims nothing the state file does not have.
* `EventsWrittenOnce`, `OneVerdictPerExecution`: retries and racing flushes
  write one line; an execution id that an expired lease handed on is audited
  once.
* `VerifierExclusive`: two verifiers of one step run at the same time only if a
  lease is over.
* `GatesNotBypassed`: the position follows from the history, through
  successors of completed or skipped steps and branches of failed ones.
* `HistoryGrows`, `ResultsAreCurrent`, `LimitHolds` (action properties): no
  lost update, no result for a step the run has left, no completion beyond
  `max_iterations`.
* `ImplementsApproval`: seen through the outbox (`VisibleStep`), the log and the
  position move together, one step at a time, along the pipeline.
* `OutboxDrains` (liveness).
* `AcceptedIsReadable`, `ImplementsLog`: an append that returned is a line every
  later reader finds; nobody but a cut-short write damages the chain, and a
  damaged chain accepts nothing. They hold for every cut but the one right
  before the newline (`Cuts` without `"bare"`), see [Findings](#findings).
* `SavesBuildOn` (action property): a save replaces exactly the text it was made
  from; races, migrations and deletions included. `NoneMissed`, `FoundIsRecent`:
  `load_latest` reads three things without a lock and still misses no run that
  is there all along and returns nothing older than the last save that had
  returned.

Compiler:

* `Partitioned`, `NoneInConflict`: the loop decides about a skill once and never
  takes it back. For *any* declarations, on one side or on both, they say when a
  skill is loaded although it is blocked, or beside a rival: only if a skill
  behind it is alone in declaring the conflict and is not outranked. So skills
  that declare each other are never loaded together, and no skill is loaded next
  to a rival that it has declared itself unless that one stands before it.
  `LoadedTogether`, a part of `NoneInConflict`, says that this is no mere
  possibility: of two skills in conflict with nobody else, both are loaded exactly
  in that case.
* `BlockedIffBeaten`: only a rival of higher rank blocks, and one that the skill
  has declared itself always does, so for mutual declarations the outcome is the
  one a definition without any order gives. `RefusedOnlyTied`: a resolution is
  refused only for a tie of required skills, and a tie is let through only if
  whoever declares it loses to somebody else. `BasesEnd`: what a loaded skill
  inherits can be followed to an end.
* `DeliveredIsPinned` (action property): no text reaches `AGENTS.md` or an export
  whose skill has another recorded hash, neither by the registry nor by the
  reading that takes over when the registry raises.
* `OneBasePerManifest`: the skills of one manifest show one version of a shared
  base, whatever is edited while they are read one by one.
* `LockReproduces`: if nothing is edited during the check, every skill with an
  entry in a clean lock is there with the file the lock was written from, even if
  files were edited while that build was under way. A lock of an undisturbed
  build stands for its manifest, unless something changed that a lock does *not*
  record: declared conflicts, and the skills without an entry, which are the bases
  of other zones (their files, and whether they are configured at all).
* `SyncMatchesBuild`: the two readers of skills agree; an undisturbed sync
  exports for every required skill what a build shows.
* `NoneFromBeforeReload`: after a reload, *also one that failed*, nothing is
  answered from what was read before. `OneBaseAnswered`: between reloads one
  version of a shared base. `KeptIsPinned`: the cache agrees with the hashes of
  the index, also when a failed reload has replaced a part of it.
  `RecordMatchesContent`: the hashes a decision record names are those of the
  contents returned, though they are fetched twice.

Review and release:

* `OneComment`: "repeat runs update the previous comment instead of posting
  duplicates", through lost answers, re-runs and comments of people on any
  page, while no two jobs hold the comments at once. `LatestShown`: even among
  duplicates a job's findings are in the newest comment until somebody touches
  the comments.
* `OwnChanges`: the diff lists exactly what the pull request changes, with ids
  shared between configurations, and besides that at most skills that others
  have changed in the base branch since the checkout. `VerdictsAgree`: comment,
  evidence and the job's colour come from separate checks and agree.
* `OneDigestVerified`: a report that passes speaks of one image though the tag
  moves. `NothingSkipped`: no early return makes a report pass for want of
  checks. `PassWhenReady`: failures of earlier attempts do not stick.
  `KeptWithReport`: the report tells whether the SBOM beside it is of its own
  attempt, or was left there by an earlier one that failed.

Each property of a passing run has a mutant in `PROJECT.json`: a definition with
a plausible bug (named "Mutated ..." or "Mutant" in the modules) under which TLC
finds the property violated.

### Bounds

* `MaxRev`: no evaluation or resume *begins* at this revision; calls under way
  finish. A production evaluation takes three revisions (claim, candidate,
  clear), so 7 lets a run of two steps fail, resume and pass, or complete both;
  4 in `recovery` lets one outbox be recovered by a caller with the other
  directory after a crash, or a failed gate be resumed and tried again.
* `MaxCrashes`: 1. After a crash the caller is idle, as a new process is, so
  each caller can crash and come back.
* Two callers: every shared object is guarded by a comparison of two parties
  (revision, lease, event id). Callers are symmetric where the sinks are; no
  symmetry is used with liveness or with two sinks.
* `MaxLines` = 5, `MaxCuts` = 3, three writers: a torn line, another writer that
  meets it, and a third that comes after.
* `run_store`: four runs of two pipelines: a legacy run (revision 0, as older
  versions wrote no revision), two of the project, which can be confused as the
  latest, and one that is deleted. `MaxText` = 7 allows three writes: a run is
  started and two racing callers save it, or two runs are started and a legacy
  run is copied in between.
* `N` = 3 skills in `resolver`: a conflict has two parties, each of which may or
  may not declare it, in either order, and the third is the one that blocks one
  of them first. Only comparisons of priorities matter, so
  all weak orders of three are all cases; the zones are one that leaves policies
  alone, one that forces all skills, and an exclusive one with an allow list
  that leaves a skill out. For the bases, three skills give a chain and a cycle
  that leave the zone and come back.
* `workspace`: two skills with a shared base in another zone, and a third that
  can be imported, listed and in conflict with one of them; two versions of each
  file; a zone that is free, one that requires every skill, and no declared zone;
  a base with and without a recorded hash; three edits or commands. An edit counts only if a command can see it, so
  three are a build, an edit and a check, or a build with two edits inside.
* `server`: two skills and their base, two versions, all kinds of `skills.yaml`
  that load, fail in the parser, do not know the zone and fail in the resolver;
  five edits or calls:
  start, edit, call, edit, reload or answer.
* `review_action`: two jobs, pages of one comment (100 on GitHub; the boundary is
  the same), two bases, four pull requests, two events (re-run, base moved,
  fault, or something a person does to the comments). Two jobs of which one runs
  again are three posts.
* `release`: two attempts, two images, one fault; three sets of options, which
  together reach every step, and two machines. Every step is reached with and
  without success.
* Pipelines: one step, two in a row, one with a failure branch, and three steps
  mixing commands, skips, a branch and a limit of one failed attempt.

`CHECK_DEADLOCK FALSE` everywhere: at the bound no call may begin, so a
completed run stops.

### Fairness

`FairSpec` is used by `recovery` only. Weak fairness on the steps of a call that
was loaded says that a live process runs on (the verifier has a timeout of 60
seconds, so `EndCheck` too); weak fairness on `LoadToAdvance` says that clients
call again, which is the documented way to recover ("retrying the advance
flushes the same idempotent event", `docs/PIPELINES.md`); strong fairness on
`AppendOutbox` says that a sink that works again and again lets an append
through in the end; weak fairness on `LeaseExpires` is time. Crashes, refusals
and resumes are not fair. Nothing in the program retries by itself: without
clients an outbox stays pending for ever. The commands of the compiler end or
are killed, and the jobs and attempts of CI are bounded, so there is nothing of
interest to state about their progress.

## Findings

Two runs show the code doing what a text of the repository rules out:

1. `gate_bypass`: `PipelineEngine.advance` treats a step with a *failed* record
   as over. The first resume of a failed coordination run makes it running; a
   second resume calls `advance`, which leaves the step although its gate never
   passed.
2. `branch_audit`: the event's outcome is read from the status *after* the
   transition; a failing production gate with a failure branch is audited as
   `gate_passed`.

A passing run shows a third, since `NoneInConflict` (in its part `LoadedTogether`)
says what the code does and not what `SPEC.md` asks for:

3. `resolver`: where only the later of two skills declares the conflict, and is not
   outranked, it adds the other to `blocked_ids`, but nobody takes that one out of
   the loaded list: both are loaded, and one of them is reported as blocked as
   well. `SPEC.md` lines 169 and 172 say "Skill ids that cannot be active with this
   skill." and "A one-way conflict remains valid".

The next four are in the models too, as a value of a constant or outside the
premise of a property; no run is kept for them:

* A write cut short right before its newline (`"bare" \in Cuts`) leaves a chain
  that verifies. The next strict append continues that line, reports success, and
  leaves a line nobody can parse. `docs/PIPELINES.md` lines 67-68: "Strict writes validate
  the complete chain from sequence 1 through the current tail".
* A base of another zone is part of the text of its skills and has no entry in the
  lock; it is edited, the lock is clean, and the next build shows other contents.
  `compiler/lock.py` line 8: "validate 时检查 lock 是否过期，防止 Skill 更新导致行为变化".
* Two jobs of one pull request list the comments before either posts, and both
  post. Neither the action nor the workflow of `docs/github-action.md` has a
  concurrency group; its lines 106-107 promise an update "instead of posting
  duplicates".
* A configuration that the parser or the resolver refuses ends a job of the action
  at "Build registry diff", although the check step has delayed its failure: no
  evidence, no summary, no comment. `docs/github-action.md` line 123: "it delays that
  failure until after reviewer artifacts exist".

Of what follows no text of the repository promises otherwise; the properties are
stated so that they allow it:

* A resume that lands between the append and the clearing of a `failed` outbox
  is undone by the next flush, which puts the status back to `failed` and
  returns (`service.py:160`).
* Advancing a completed production run evaluates no gate and appends a
  `gate_passed` event that names no step (`Repeat` in `GateApproval`).
* `migrate_from` replaces `.latest` of a directory that has newer runs, and the
  copies are the newest files by modification time, so `load_latest` answers
  with a legacy run; `FoundIsRecent` therefore ends with the first migrated
  file.
* `_validate_bases` looks up the bases of the zone's own skills only: a base
  outside the zone may name a base nobody has, and the skill is loaded without
  that part. `BasesEnd` asks only that the chain ends.
* `import` into a directory of `skill_dirs` appends entries for files that are
  also discovered: the parser refuses the duplicate ids from then on, though the
  command has just advised to run `build`.
* `import --force` replaces a file but not the `content_hash` of an entry that
  is there: the next build refuses the skill.
* A sync never removes what an earlier one exported for a skill that is gone.
* Where `skills.yaml` declares no zone, `detect_zone` makes one up, which a build
  works with; a sync hands its name to the registry, which knows only declared
  zones and raises (`main.py:804`, `mcp/registry.py:45`).
* The action compares with the base branch as it is when the diff is built; if
  it moved since the checkout, what others merged appears as removed.
* An SBOM that an attempt has copied out stays there when the attempt fails for
  something else and a later one ends before its own SBOM.
* `TimeoutExpired` of five commands of the MCP smoke is caught nowhere: the
  release check then ends without a report.

## What is proved

Every theorem holds for every value of the constants that the modules' named
assumptions allow, so for every pipeline that `Pipeline.validate` accepts, every
set of callers, processes, sinks and inputs and every bound. Premises beyond
that are in the tables.

### Pipelines

`PipelineService_proofs`; theorems without "production" are about both profiles:

| Theorem | Statement |
|---|---|
| `TypeCorrect` | `Spec => [](TypeOK /\ CheckingAtStep)` |
| `CopiesAreCurrent` | `Spec => [](TypeOK /\ CheckingAtStep /\ CopiesInv)` |
| `LeasesExclude` | `Spec => []VerifierExclusive` |
| `HistoryKept`, `ResultsLandAtStep`, `LimitsHold` | `Spec => HistoryGrows`, `ResultsAreCurrent`, `LimitHolds` |
| `AuditAgrees` | production: `Spec => [](TypeOK /\ CheckingAtStep /\ AuditInv)` |
| `EventsOnce`, `CompletionsHaveEvents` | production: `Spec => []EventsWrittenOnce`, `[]CompletionsAudited` |
| `FailuresHaveEvents` | production without failure branches: `Spec => []FailuresAudited` |
| `VerdictsTold` | production: `Spec => [](TypeOK /\ CheckingAtStep /\ RunInv)` |
| `VerdictsOnce`, `GatesHold` | production: `Spec => []OneVerdictPerExecution`, `[]GatesNotBypassed` |
| `LinesAreBacked` | production without failure branches: `Spec => []AuditBackedByState` |
| `LogIsTheRun` | production without failure branches: `Spec => ImplementsApproval` |

The premises are where the findings are: with failure branches a failed gate is
announced as passed (finding 2), which refutes `FailuresAudited` and
`AuditBackedByState`; in the coordination profile a skipped step refutes
`GatesNotBypassed` (finding 1) and there is no audit log. The runs of
`ImplementsApproval` have one sink, the theorem needs no such thing: processes
with different audit directories recover each other's outbox in the directory
the outbox names.

`_auto_skip` is a loop. `AutoSkip` says where it ends without recursion (the
steps it comes by are the least set with the current step that is closed under
successors of skipped steps), so that proofs can speak of coordination runs;
that the loop computes this is `SkipLoopAssumption` in `MCPipelineService`, which
TLC evaluates for each pipeline of the runs.

Three invariants, each on top of the one before.

`CopiesInv` is about any run. A save is refused unless the revision is the
file's, so all that matters is what a copy *that nobody overtook* has in common
with the file: before the evaluation its history and lease are the file's; after
it, it is `Attempted`, one attempt at the file's step, allowed only if the limit
was not reached. A copy that was overtaken is unconstrained. For
`VerifierExclusive` a lease has to be followed from its claim: while it lasts and
the run is still at the step, it is the lease in the file, so a second claim is
refused; and two callers never hold claims of one revision (`ClaimsApart`), since
a claim is itself a save.

`AuditInv`. `CompletionsAudited` is not inductive: it speaks of the file, but the
file is replaced by a copy. `CopyOK(r, at)` says, for each point of a call, what
a copy whose revision is still the file's has in common with it (`SameRun`
before the evaluation, `Extends` after it: what is new is accounted for by the
event in its outbox), whether the file has an outbox, and that between append
and clear the file's event is a line. `EventsNamed` says that an event id determines the event, which is what
makes the search for the id in `AppendStrict` sufficient; it ranges over
everything that carries an event. `SaveStep`, `AppendStep`, `LocalStep` and
`EvaluatedStep` are the four shapes of a step; `AuditCall` goes through the
actions. `CheckingAtStep` (a verifier runs at a step only) is needed because
`EndCheck` has no guard on the step.

`VerdictInv` adds what the events *say*. An event under way in a copy is new, and
`Tells` how the run in the file becomes the run in the copy (`EventOnItsWay`);
an execution that has its verdict is not the one of the lease in the file
(`ExecutionsSpent`), which is why the verifier that outlived its lease, and came
back after the next claim reused its execution id, cannot save; what the outbox
owes decides where the file stands (`OutboxTells`); and failed attempts are
counted by lines plus the one that is owed (`LinesCounted`). The refinement
follows: a save is a stutter of `GateApproval`, the append of its event is the
abstract approval, refusal or `Repeat`, and clearing the outbox is a stutter
again.

TLC checks the three, as `RunInv`, in `recovery`.

### The audit file

`AuditLog_proofs`, for any writers and events:

| Theorem | Statement |
|---|---|
| `LogIsOrdered` | no bare cut: `Spec => [](TypeOK /\ LogInv)` |
| `AcceptedIsKept` | no bare cut: `Spec => []AcceptedIsReadable` |
| `LogIsAtomic` | no bare cut: `Spec => ImplementsLog` |

`NoBareCut` (no write stops right before its newline) is the premise because the
code does lose an event otherwise (see [Findings](#findings)). `LogInv`: whoever is in the middle
of an append is the only one; all lines but the last are whole and numbered in
order, so a file either verifies or lacks the end of its last line; the writer
at work writes the line that comes next; what was accepted is a whole line. The
refinement maps the file to its verified prefix: a write and a cut that leave
half a line are stutters, the write that ends the line is the atomic append.

### The run directory

`RunStore_proofs`, for any number of processes and runs:

| Theorem | Statement |
|---|---|
| `StoreKept` | `Spec => [](TypeOK /\ StoreInv)` |
| `SavesAreKept` | no legacy run is deleted: `Spec => SavesBuildOn` |
| `NoRunIsMissed` | `Spec => []NoneMissed` |
| `LatestIsFound` | `Spec => []FoundIsRecent` |

The revision check compares numbers, `SavesBuildOn` is about texts; the link is
`CopiesFollow`: no copy is ahead of its file, equal revisions mean equal texts,
and a copy of revision 0 belongs to the only caller who knows the run. A legacy
run that is deleted starts over at its old revision, with the copies of its first
life still about, which is the premise (`LegacyKept`). `load_latest` makes three
unlocked accesses; `SearchUnderWay` says after each of them what is still ahead:
every run that was there and is never deleted, and for each save that had
returned a file at least as new. The second part needs the order of files by
time to be the order of saves (`FilesDated`), which is what the lock around both
replacements of a save is for (`SaveUnderWay`) and what a migration ends.

### Compiler and release check

`Resolver_proofs`, for every number of skills and every set of configurations:

| Theorem | Statement |
|---|---|
| `LoopCorrect` | `Spec => [](TypeOK /\ LoopInv)` |
| `ResultIsPartition`, `ResultHasNoConflict` | `Spec => []Partitioned`, `[]NoneInConflict` |
| `ResultIsOrderFree` | `Spec => []BlockedIffBeaten` |
| `OnlyTiesAreRefused` | `Spec => []RefusedOnlyTied` |
| `ChainsEnd` | `Spec => []BasesEnd` |

No theorem restricts the declarations: a conflict may be declared on one side or
on both, and a skill may name itself or nobody.

The properties speak of the end of the loop. `LoopInv` says what holds in
the middle: a loaded skill has met all the rivals it declares (`Met`: they are
blocked and do not beat it), the skill at work has met those before `c`, every
skill before `at` is settled, and the skill at work is declared by no loaded one,
for else that one's turn would have blocked it. What is left is a rival that the
skill at work alone declares: if that loaded rival does not win, it is blocked
but stays loaded, and is `Overtaken`, which names the skill behind it that did
this. `DeclaredWasMet` is the part of the argument that order cannot change: whom
a loaded skill declares is blocked and does not beat it, so a skill that declares
a rival of higher rank is never loaded. For `LoadedTogether`, `EscapeInv` follows the
pairs that both get through: the second is blocked by nobody, and the first not
before the turn of the second, when it is loaded. `BeatsRank` turns "policy first,
then priority" into one comparison of numbers, which is where the bound 999 of `SkillMeta.priority` is needed. `EndInv`
adds what refusals and loaded skills owe to the comparison itself (`WonOver`: whom
a skill has met it has *won* over, not merely failed to lose to), so that no tie
is let through.

`BasesEnd` speaks of the recursive function `Chain`, the loop of `find_cycle`.
What it computes is proved by induction all the same: not with the library's
rule, which takes an operator, but by looking at the least number at which the
claim would fail (`LeastMember`, from the well-foundedness of `<`). `ChainIs`
says that the chain after n steps lists what n references lead to, `ChainInside` that
it stays among the skills, and `ChainEnds` that a chain longer than the number
of skills would name one of them twice.

`ReleaseSmoke_proofs` proves, for every set of option sets and machines and any
number of attempts, images and faults (`SmokeAssumption` and nothing else):

| Theorem | Statement |
|---|---|
| `Inductive` | `Spec => []IInv` |
| `Types` | `Spec => []TypeOK` |
| `Complete` | `Spec => []NothingSkipped` |
| `OneImage` | `Spec => []OneDigestVerified` |
| `Forgets` | `Spec => []PassWhenReady` |
| `KeptIsReported` | `Spec => []KeptWithReport` |

The properties speak of a report; the invariant has to speak of an attempt in the
middle. `Covered`: a wanted step is still to do, has its
check, succeeded in silence, or *some check failed*: that is what an early
return must pay with. `Honest`: a step that is silent on success has a check
only if it failed. `Ordered`: steps are taken in order, so that a step that is
done next has no check that `Record` would have to combine. `About`: what each
check that passed says of the digest and the kept SBOM; images are only ever
added, so it stays true while tags move. `Kept` is the converse for the SBOM: it
is of this attempt only if its check is among those that passed. `Smooth`: an attempt that nothing
disturbed has found everything. The plan is a sequence of 36 literal entries;
`PlanManifest` to
`PlanSbom` turn the names the actions use into positions, once.

### The MCP server

`SkillServer_proofs`, for any number of skills and versions, any bases without
cycles, any `skills.yaml` and any sequence of edits, reloads and calls:

| Theorem | Statement |
|---|---|
| `ForgetsOnReload` | `Spec => []NoneFromBeforeReload` |
| `SharesBases` | `Spec => []OneBaseAnswered` |
| `KeepsPinned` | `Spec => []KeptIsPinned` |
| `RecordsWhatItShows` | `Spec => []RecordMatchesContent` |

The first three come from one invariant of a cache, `Sound`: each text in it
*fits* (`Fits`), that is, it is a version its file has had since the last load
began, it agrees with the hash in the index, and, unless the file was missing,
it is the very text that is kept for that skill itself. The last part is what
makes sharing inductive: a base that is read is kept, and whoever reads it
later gets what was kept. It holds after any way a load can end, because the
cache is emptied first and only the warming fills it. `ServerInv` adds that a
decision record under way names what is kept (`Recorded`), which no edit can
change and no other call sees.

What a reading brings and what it keeps are recursive functions along the bases,
and so are the loops over skills. `ReadsExist`, `KeepsExist` and `WalksExist` show that
the recursions have solutions, from the last skill down to the first;
`ContentIs`, `KeptIs` and `WalkIs` are their equations, and `AlongBases` is the induction
they are used with, over a *set* of skills, since the rules of the library take an
operator. `ReadingsFit` is the main lemma, `RememberIs`, `ReadAllIs` and `LoadIs` carry
it to the operations of the registry.

### The workspace

`Workspace_proofs`, for any number of skills and versions, any bases without
cycles, any contents of `skills.yaml`, and any edits, commands, failures and
imports between them; no premise beyond the modules' assumptions:

| Theorem | Statement |
|---|---|
| `DeliversPinned` | `Spec => DeliveredIsPinned` |
| `SharesBase` | `Spec => []OneBasePerManifest` |
| `ReadersAgree` | `Spec => []SyncMatchesBuild` |
| `LocksReproduce` | `Spec => []LockReproduces` |

`SkillContentResolver.read` asks a registry, then its own cache, then the file,
and goes on along the bases. What the registry does is taken from
`SkillServer_proofs` by INSTANCE (`ContentIs`, `KeptIs`, `WalkIs`, the inductions).
What the reader itself does is `ReadCases`, the equation of the recursive
function by cases, and three inductions along the bases: `ReadTells` (each text
read has the recorded hash in one of the two indices), `ReadClosed` (each text
read is the very one that is kept for its own skill) and `ReadPure` (if the
caches hold nothing but what is in the files, the result is what is in the files,
and so are the caches afterwards).

`StepIs` sorts the steps by what they do to a command's memory (`Edited`,
`Started`, `GaveUp`, ..., `Imported`), so that each invariant is carried through
these effects and need not look into the actions again. The first
two theorems hold whatever is edited: `Told` says that all in memory has its
recorded hash, and `Shared` that a build's manifest is a part of its
cache and the cache closed, so that two skills with one base show what is kept for
that base. The other two are about times without edits. `Current`: while nothing is
edited, what the command parsed is what is there, its caches are pure and its
registry is `Honest`, which means that it has the command's own hashes. `Done`: each
skill that is done shows what the files say, the others are still to come.
`Synced` carries that over the end of a sync, until somebody edits.
`Locked` keeps for a lock, for ever, the configuration it was written from; the
files are in `locked`. `CleanMeans` then says what a check without drift has
compared: the same required skills (`ResolvedTo` describes the resolver's
outcome without its loop) with the same hashes, so that with the condition on
skills without an entry *every* file along the bases is the one of the locked
build, and `SameFresh` that the contents are then the same. `Hashed` (the entries
hold the hashes of the locked files) is all that the first part of the property
needs, so that part is about every lock.

The proof shows that the condition on declared conflicts is not needed *here*,
where all priorities are equal and a conflict of two required skills is refused.
It stays in the property because with unequal priorities one of two required
rivals is blocked, and a lock says the same of loaded and of blocked skills.

### The GitHub action

`ReviewAction_proofs`, for any number of jobs, comments and events, pages of any
size and any revisions (`ReviewAssumption` and nothing else):

| Theorem | Statement |
|---|---|
| `OneCommentKept` | `Spec => []OneComment` |
| `LatestIsShown` | `Spec => []LatestShown` |
| `ListsOwnChanges` | `Spec => []OwnChanges` |
| `OneVerdict` | `Spec => []VerdictsAgree` |

They rest on five invariants, kept together in `ReviewKept`. `PageInv`: a job
that is listing has seen as many comments as its pages hold, so the next page
goes on where the last one stopped. `OneInv`, while nobody interfered (`calm`):
at most one job has the comments in hand, what it listed is still in its place,
the marker can only have disappeared from a listed comment, and behind the last
page no comment of the action was added (`Covers`); so a job that found none may
create one. `ShownInv` is about jobs whose comments nobody touched, calm or
not: what such a job listed *mirrors* the comments, whatever other jobs append,
and after its post the newest comment of the action has its body. `FindInv`: each
artifact of a job is the function of the tree and the base that its step computed,
as far as the job has come; for a skill that nobody else has changed the diff is
then compared with the patch by cases, and the verdicts by what `ShouldFail` and `Status` make of the same
diagnostics.

### Only model-checked

Liveness (`OutboxDrains`: no `ENABLED` in this prover), and that the loop of
`_auto_skip` computes `AutoSkip`. Every safety and action property of a passing run
is the conclusion of a theorem; the properties of the violation runs are false.

## Abstractions

* A gate's own conditions (length, sections, digest, age, file identity) are a
  nondeterministic verdict that can be positive only if each required artifact
  has content. The replacement of an artifact between check and hash is
  therefore not visible.
* A context value is absent, a bare flag, or an artifact with content. Redaction
  of sensitive keys on save is left out: no key of the model is sensitive.
* A "crash" is the death of a process; what it had written stays written. Loss
  of power, and a platform without `fcntl`, are left out.
* `PipelineService` takes the chain check of a log to be one step. A reader that
  meets a half-written line sees the run as `pending_audit` for a moment; an
  advance does not look at that status and a resume refuses, so no other
  behaviour comes of it. It also assumes that a cut-short write leaves *part* of
  a line; `AuditLog` has the other cases.
* `AppendRefused` after a line that did reach the file (an fsync error) is
  `AppendOutbox` followed by a `Crash`.
* The lists of loaded skills are sets: their final sort by priority is left
  out. Skill ids are distinct (the parser refuses duplicates) and stand for
  their position in the configuration.
* In `RunStore`, `exists` and the read that follows it are one step and file
  times never tie. `SavesBuildOn` is stated for directories in which no legacy
  run is deleted: deleted and migrated again it would get an old revision back,
  which the comparison of revisions cannot tell. Nothing in the program but a
  test calls `delete`. Legacy files whose name
  does not fit their content, or which are no JSON, end a migration like a
  conflict does and are left out.
* A pipeline is a constant: nobody edits its file while a run is under way.
* The updates of the context that an advance brings along are dropped when the
  flush of an earlier outbox ends the call (`service.py:75`); the model has the
  early return, no document says what should become of the updates.
* Start is modelled for one run id; a second start makes another run.
* In `SkillFiles`, a file is a version and a content the function from skills to
  the versions in it; a recorded hash is a version. All priorities are equal and
  one pair of skills can be in conflict, so the resolver's outcome is written
  down directly; `Resolver` and its proofs cover the loop. Base chains have no
  cycles there, `Resolver` has them. `skills.yaml` declares the zone of the
  workspace or none at all; a zone that is not called "default" has rules, so it
  is the default zone of nobody who names none.
* In `Workspace`, one command runs at a time; the reading of one skill with its
  bases, and the load of a registry, are one step. Size limits and the scan for
  secrets are a `Fail`.
* `SkillServer` handles calls one after the other, as the server does; only
  `prepare_context` is split, because it fetches its contents twice.
* The summary of a job is its check, the failed rules, the diff and the bundle; the
  size of the graph and the other outcomes of the trace decide nothing that a
  property tells apart and are left out.
* In `ReviewAction` a tree says of a skill what the diff and the rules ask:
  hash, governance, status, conflicts and the rules it breaks (`SO001`, `SO008`,
  `SO011` stand for rules on metadata and for the two severities of a pack).
  A job works in its own checkout, so its steps are one step each.
* In `ReleaseSmoke` a digest is the number of an image, and the signature and
  attestation of a digest do not go away. The ten new-user commands and the
  imported subchecks are single steps.

## Not modelled

* `pipeline/loader.py` reads YAML into the constants of `PipelineEngine`;
  `Pipeline.validate` is the assumption `ValidPipeline`.
* `enforcer.py` (zone detection) is one scan of rules against a directory name
  and its remote; the zone it finds is a parameter (`ZoneId`), and what it falls
  back to without declared zones is in `ZonePolicy`.
* `conformance.py`, `doctor.py`, `supply_chain.py`, `schema_validation.py`,
  `evidence_index.py`, `policy/declarative.py`, `policy/exporter.py`,
  `compiler/instruction_manifest.py`, `explainability.py` beyond its status:
  each reads files once and builds a report. They have no state, no second actor
  and no failure handling but an exception; what could be wrong in them is the
  text of a report, which tests of single functions reach.
* `mcp/search.py`: a score computed from text; a search may find any skill.
* `cli/init_cmd.py`, `adapters/`, `formatters/`, `integrations/catalog.py`,
  `security.py`: scaffolding, layouts and predicates on strings.
* The scripts beside `post_release_smoke.py` compare two texts each.
* The network: what a fetch returns is any content, a request may fail, and an
  answer may be lost.

## Plan

Done: everything above. What would come next:

1. The contents of artifacts in `PipelineEngine`, so that the moments at which a
   gate checks, hashes and hands on an artifact can be told apart.
2. Two commands at a time in `Workspace`.
