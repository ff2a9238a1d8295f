----------------------------- MODULE SkillFiles -----------------------------
(***************************************************************************)
(* What a command or a server reads: skill files and skills.yaml.          *)
(* compiler/parser.py turns them into a configuration, compiler/           *)
(* resolver.py into what a zone loads, and two readers put the content of  *)
(* a skill together from its own file and those of its bases               *)
(* (mcp/registry.py here, compiler/content_resolver.py in Workspace.tla).  *)
(*                                                                         *)
(* A file is the number of its version, 0 if there is none.  Content is a  *)
(* function from the skills whose text is in it to the version that was    *)
(* read; version 0 is the notice that the file does not exist.             *)
(***************************************************************************)
EXTENDS Naturals, FiniteSets

CONSTANTS
  N,           \* skills are 1 .. N
  MaxVersion,  \* versions of a file are 1 .. MaxVersion
  Discovered,  \* the skills whose files are under a directory of skill_dirs
  Elsewhere,   \* those that name another zone than the workspace's
  BaseOf,      \* SkillMeta.base, 0 for none
  Rivals,      \* two skills that skills.yaml may declare in conflict
  ZoneId       \* the zone of the workspace; None is the word for no zone

None == "none"
Ids == 1 .. N
Files == [Ids -> 0 .. MaxVersion]

\* skills.yaml: the entries under "skills", the provenance.content_hash of an
\* entry or an override (0: not recorded), the skills with load_policy "require",
\* whether the conflict is declared, and the load_policy of the zone, None if
\* skills.yaml declares no zones.
Yaml == [ listed   : SUBSET Ids,
          pin      : [Ids -> 0 .. MaxVersion],
          required : SUBSET Ids,
          rivals   : BOOLEAN,
          policy   : {None, "free", "require"} ]

ASSUME FilesAssumption ==
  /\ N \in Nat /\ MaxVersion \in Nat
  /\ Discovered \subseteq Ids /\ Elsewhere \subseteq Ids /\ Rivals \subseteq Ids
  /\ BaseOf \in [Ids -> 0 .. N]
  \* Resolver.tla is about cycles; here a base comes after its skills.
  /\ \A s \in Ids : BaseOf[s] = 0 \/ BaseOf[s] > s

---------------------------------------------------------------------------
(* Parser *)

Found(fs) == {s \in Discovered : fs[s] # 0}

Configured(y, fs) == y.listed \cup Found(fs)

\* _validate_unique_skill_ids: a skill that is discovered and listed is an error.
Parses(y, fs) == y.listed \cap Found(fs) = {}

Pins(y, fs) == [s \in Configured(y, fs) |-> y.pin[s]]

\* The order of Config.skills: the discovered ones come first.
Before(y, s, t) ==
  \/ s \notin y.listed /\ t \in y.listed
  \/ (s \in y.listed <=> t \in y.listed) /\ s < t

\* Config.zones
Zones(y) == IF y.policy = None THEN {} ELSE {ZoneId}

\* Config.default_zone, which stands in where no zone is named: the declared zone
\* of that name.  A zone of another name has rules.
DefaultZone(y) == IF ZoneId = "default" /\ y.policy # None THEN ZoneId ELSE None

---------------------------------------------------------------------------
(* Resolver: the outcome of the loop of Resolver.tla for one pair of rivals *)

\* Zone.load_policy; where skills.yaml declares no zones, detect_zone makes up a
\* free one.
ZonePolicy(y, zone) ==
  IF zone = None THEN None ELSE IF y.policy = "require" THEN "require" ELSE "free"

AsConfig(y, fs, zone) ==
  LET here == Configured(y, fs)
  IN  [ policy    |-> [s \in Ids |-> IF s \in y.required THEN "require" ELSE "free"],
        priority  |-> [s \in Ids |-> 50],
        conflicts |-> [s \in Ids |->
                         IF y.rivals /\ s \in Rivals \cap here
                         THEN [n \in 1 .. 1 |-> CHOOSE t \in Rivals : t # s] ELSE <<>>],
        base      |-> [s \in Ids |->
                         IF s \notin here \/ BaseOf[s] = 0 THEN 0
                         ELSE IF BaseOf[s] \in here THEN BaseOf[s] ELSE N + 1],
        zones     |-> [s \in Ids |-> IF s \in Elsewhere THEN "elsewhere" ELSE "here"],
        zone      |-> [ policy |-> ZonePolicy(y, zone),
                        skills |-> {}, allow |-> {} ] ]

R(k) == INSTANCE Resolver
          WITH Configs <- {k}, cfg <- k, pc <- "done", at <- N + 1, c <- 1,
               blocked <- {}, forced <- {}, passive <- {}

\* Resolver.resolve: who is loaded, and how, or a refusal.
Resolved(y, fs, zone) ==
  LET k       == AsConfig(y, fs, zone)
      inZone  == R(k)!InZone \cap Configured(y, fs)
      rival(s, t) == s # t /\ {s, t} \subseteq inZone /\ R(k)!Conflict(s, t)
      lost    == {t \in inZone : \E s \in inZone : rival(s, t) /\ R(k)!Rank(s) > R(k)!Rank(t)}
      tied    == {t \in inZone : \E s \in inZone : rival(s, t) /\ R(k)!Rank(s) = R(k)!Rank(t)}
      \* of two equal skills that are not required the first one wins
      second  == {t \in tied : ~R(k)!Forced(t) /\ \E s \in tied : rival(s, t) /\ Before(y, s, t)}
      loaded  == inZone \ (lost \cup second)
  IN  [ ok      |-> R(k)!BasesValid /\ \A t \in tied : ~R(k)!Forced(t),
        forced  |-> {s \in loaded : R(k)!Forced(s)},
        passive |-> {s \in loaded : ~R(k)!Forced(s)},
        blocked |-> lost \cup second ]

\* compute_effective_load_policy
Effective(y, zone, s) ==
  IF s \in y.required \/ ZonePolicy(y, zone) = "require" THEN "require" ELSE "free"

---------------------------------------------------------------------------
(* Content *)

Nothing == [s \in {} |-> 0]

\* x for s, and for nothing else.
Only(s, x) == [t \in {s} |-> x]

\* f, and g for what f does not have.
Over(f, g) == [s \in DOMAIN f \cup DOMAIN g |-> IF s \in DOMAIN f THEN f[s] ELSE g[s]]

Raises == [ok |-> FALSE, parts |-> Nothing]
Got(parts) == [ok |-> TRUE, parts |-> parts]

\* Mutated PinHolds: a recorded hash is not looked at.
PinIgnored(pins, fs, s) == s \in DOMAIN pins

\* validate_provenance_content_hash
PinHolds(pins, fs, s) == pins[s] \in {0, fs[s]}

\* SkillRegistry._resolve_content: the cache, then the file with its base in
\* front.  pins is the index of the skills the
\* reader knows.  A base nobody has and an empty one add nothing.
Content(pins, cache, fs, skill) ==
  LET g[s \in 0 .. N] ==
        IF s \in DOMAIN cache THEN Got(cache[s])
        ELSE IF s \notin DOMAIN pins THEN Got(Nothing)
        ELSE IF fs[s] = 0 THEN Got(Only(s, 0))
        ELSE IF ~PinHolds(pins, fs, s) THEN Raises
        ELSE IF ~g[BaseOf[s]].ok THEN Raises
        ELSE Got(Over(Only(s, fs[s]), g[BaseOf[s]].parts))
  IN  g[skill]

\* Mutated Cached: a base that was read for a skill is not kept.
CachedAlone(pins, cache, fs, skill) ==
  LET got == Content(pins, cache, fs, skill)
  IN  IF skill \in DOMAIN pins /\ fs[skill] # 0 /\ got.ok
      THEN Over(Only(skill, got.parts), cache) ELSE cache

\* The cache after that: the skill and its bases, but neither a missing file
\* nor anything of a reading that failed.
Cached(pins, cache, fs, skill) ==
  LET h[s \in 0 .. N] ==
        IF s \in DOMAIN cache \/ s \notin DOMAIN pins THEN cache
        ELSE IF fs[s] = 0 THEN cache
        ELSE Over(h[BaseOf[s]], Only(s, Content(pins, cache, fs, s).parts))
  IN  IF Content(pins, cache, fs, skill).ok THEN h[skill] ELSE cache
=============================================================================
