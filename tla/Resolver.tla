------------------------------ MODULE Resolver ------------------------------
(***************************************************************************)
(* compiler/resolver.py: which of the configured skills are loaded in a    *)
(* zone.  The conflict loop takes the skills in the order of the           *)
(* configuration and lets each one meet the skills it declares a conflict  *)
(* with, one comparison per step; what it decides about a skill can be     *)
(* overturned by a later one, or not, and that is where it can go wrong.   *)
(*                                                                         *)
(* A skill is its position in config.skills; N + 1 is an id nobody has.    *)
(***************************************************************************)
EXTENDS Naturals, Sequences, Functions

CONSTANTS
  N,         \* number of configured skills
  Configs    \* the configurations to resolve

Ids == 1 .. N
Unknown == N + 1

\* zones says whether SkillMeta.zones names the active zone ("here"), other
\* zones only ("elsewhere") or nothing ("everywhere"); base is 0 for none; the
\* policy of the active zone is "none" when there is no zone.
IsConfig(k) ==
  /\ k.policy \in [Ids -> {"require", "free"}]
  /\ k.priority \in [Ids -> 0 .. 999]
  /\ k.conflicts \in [Ids -> Seq(Ids \cup {Unknown})]
  /\ k.base \in [Ids -> Ids \cup {0, Unknown}]
  /\ k.zones \in [Ids -> {"here", "elsewhere", "everywhere"}]
  /\ k.zone \in [ policy : {"none", "require", "exclusive", "free"},
                  skills : SUBSET Ids,
                  allow  : SUBSET Ids ]

ASSUME ResolverAssumption ==
  /\ N \in Nat
  /\ \A k \in Configs : IsConfig(k)

VARIABLES
  cfg,        \* the configuration, which nothing changes
  pc,         \* "start", "top", "meet", "done", "error"
  at,         \* the skill whose turn it is
  c,          \* the next of its conflict_with
  blocked,    \* blocked_ids
  forced, passive    \* the loaded skills; the lists are sorted by priority in
                     \* the end, here they are sets

vars == <<cfg, pc, at, c, blocked, forced, passive>>

Init ==
  /\ cfg \in Configs
  /\ pc = "start"
  /\ at = 1
  /\ c = 1
  /\ blocked = {}
  /\ forced = {}
  /\ passive = {}

---------------------------------------------------------------------------
\* _filter_by_zone
InZone ==
  LET z == cfg.zone
      extra == IF z.policy = "exclusive" THEN z.allow ELSE {}
  IN  IF z.policy = "none" THEN Ids
      ELSE IF z.skills # {} THEN z.skills \cup extra
      ELSE extra \cup {s \in Ids : cfg.zones[s] = "here"}
                 \cup {s \in Ids : z.policy # "exclusive" /\ cfg.zones[s] = "everywhere"}

\* compute_effective_load_policy
Forced(s) == cfg.policy[s] = "require" \/ cfg.zone.policy = "require"

\* Mutated Beats: the policies are compared as the skills declare them.
BeatsDeclared(s, t) ==
  \/ cfg.policy[s] = "require" /\ cfg.policy[t] # "require"
  \/ cfg.policy[s] = cfg.policy[t] /\ cfg.priority[s] > cfg.priority[t]

Beats(s, t) ==
  \/ Forced(s) /\ ~Forced(t)
  \/ (Forced(s) <=> Forced(t)) /\ cfg.priority[s] > cfg.priority[t]

\* Mutated Winner: of two equal skills the first wins, required or not.
WinnerFirst(s, t) == IF Beats(t, s) THEN t ELSE s

\* _resolve_conflict: 0 is None.
Winner(s, t) ==
  IF Beats(s, t) THEN s
  ELSE IF Beats(t, s) THEN t
  ELSE IF Forced(s) THEN 0
  ELSE s

\* The ids that find_cycle visits from s, in order; 0 when the chain is over.
Chain(s) ==
  LET f[n \in 0 .. N] ==
        IF n = 0 THEN s
        ELSE IF f[n - 1] \in Ids THEN cfg.base[f[n - 1]] ELSE 0
  IN  f

\* Mutated CycleFrom: the base map of the zone instead of all skills.
CycleInZone(s) ==
  /\ \E m, n \in 0 .. N : m < n /\ Chain(s)[m] = Chain(s)[n] /\ Chain(s)[n] \in Ids
  /\ \A n \in 0 .. N : Chain(s)[n] \in InZone

CycleFrom(s) ==
  \E m, n \in 0 .. N : m < n /\ Chain(s)[m] = Chain(s)[n] /\ Chain(s)[n] \in Ids

\* _validate_bases
BasesValid ==
  /\ \A s \in InZone : cfg.base[s] # Unknown
  /\ \A s \in Ids : ~CycleFrom(s)

---------------------------------------------------------------------------
Validate ==
  /\ pc = "start"
  /\ pc' = IF BasesValid THEN "top" ELSE "error"
  /\ UNCHANGED <<cfg, at, c, blocked, forced, passive>>

NextSkill ==
  /\ pc' = "top"
  /\ at' = at + 1
  /\ c' = 1

\* A skill of another zone is not in the list; a blocked one is passed over.
PassOver ==
  /\ pc = "top"
  /\ at \in Ids
  /\ at \notin InZone \/ at \in blocked
  /\ NextSkill
  /\ UNCHANGED <<cfg, blocked, forced, passive>>

\* Mutated Take: a blocked skill has its turn.
TakeBlocked ==
  /\ pc = "top"
  /\ at \in InZone
  /\ pc' = "meet"
  /\ UNCHANGED <<cfg, at, c, blocked, forced, passive>>

Take ==
  /\ pc = "top"
  /\ at \in InZone \ blocked
  /\ pc' = "meet"
  /\ UNCHANGED <<cfg, at, c, blocked, forced, passive>>

Rival == cfg.conflicts[at][c]
Meets == pc = "meet" /\ c <= Len(cfg.conflicts[at])

Ignore ==
  /\ Meets
  /\ Rival \notin InZone
  /\ c' = c + 1
  /\ UNCHANGED <<cfg, pc, at, blocked, forced, passive>>

Win ==
  /\ Meets
  /\ Rival \in InZone
  /\ Winner(at, Rival) = at
  /\ blocked' = blocked \cup {Rival}
  /\ c' = c + 1
  /\ UNCHANGED <<cfg, pc, at, forced, passive>>

\* The skill is blocked, and its other conflicts are not looked at.
Lose ==
  /\ Meets
  /\ Rival \in InZone
  /\ Winner(at, Rival) \notin {at, 0}
  /\ blocked' = blocked \cup {at}
  /\ NextSkill
  /\ UNCHANGED <<cfg, forced, passive>>

\* ValueError: nobody wins.
Undecided ==
  /\ Meets
  /\ Rival \in InZone
  /\ Winner(at, Rival) = 0
  /\ pc' = "error"
  /\ UNCHANGED <<cfg, at, c, blocked, forced, passive>>

\* Mutated Place: the last conflict is not looked at.
PlaceEarly ==
  /\ pc = "meet"
  /\ c >= Len(cfg.conflicts[at])
  /\ forced' = forced \cup {s \in {at} \ blocked : Forced(s)}
  /\ passive' = passive \cup {s \in {at} \ blocked : ~Forced(s)}
  /\ NextSkill
  /\ UNCHANGED <<cfg, blocked>>

\* All conflicts are behind the skill.
Place ==
  /\ pc = "meet"
  /\ c > Len(cfg.conflicts[at])
  /\ forced' = forced \cup {s \in {at} \ blocked : Forced(s)}
  /\ passive' = passive \cup {s \in {at} \ blocked : ~Forced(s)}
  /\ NextSkill
  /\ UNCHANGED <<cfg, blocked>>

Finish ==
  /\ pc = "top"
  /\ at > N
  /\ pc' = "done"
  /\ UNCHANGED <<cfg, at, c, blocked, forced, passive>>

Next ==
  \/ Validate \/ PassOver \/ Take
  \/ Ignore \/ Win \/ Lose \/ Undecided \/ Place
  \/ Finish

Spec == Init /\ [][Next]_vars

---------------------------------------------------------------------------
Loaded == forced \cup passive

\* s declares a conflict with t, and both are in the zone.
Declares(s, t) == {s, t} \subseteq InZone /\ t \in Range(cfg.conflicts[s])

\* One side is enough.
Conflict(s, t) == Declares(s, t) \/ Declares(t, s)

\* Every variable stays in its domain.
TypeOK ==
  /\ IsConfig(cfg)
  /\ pc \in {"start", "top", "meet", "done", "error"}
  /\ at \in 1 .. N + 1
  /\ c \in Nat \ {0}
  /\ blocked \subseteq Ids
  /\ forced \subseteq Ids
  /\ passive \subseteq Ids

\* Policy first, then priority, as one number.
Rank(s) == IF Forced(s) THEN cfg.priority[s] + 1000 ELSE cfg.priority[s]

\* No skill of the zone is forgotten or loaded in two ways (ResolvedConfig).  A
\* later comparison may block a skill that is already among the loaded ones,
\* and nothing takes it out; that happens in one case only: a skill behind it
\* declares the conflict, it does not, and it does not outrank that skill.
Partitioned ==
  pc = "done" =>
    /\ forced \cap passive = {}
    /\ Loaded \cup blocked = InZone
    /\ \A t \in Loaded \cap blocked :
         \E s \in Ids : t < s /\ Declares(s, t) /\ ~Declares(t, s) /\ Rank(s) >= Rank(t)

Opponents(s) == {t \in Ids : Conflict(s, t)}

\* Two skills in conflict with nobody else both end up loaded exactly if the one
\* further back is alone in declaring the conflict and is not outranked.
LoadedTogether ==
  pc = "done" =>
    \A t, s \in Ids :
      t < s /\ Opponents(t) = {s} /\ Opponents(s) = {t} =>
        ({t, s} \subseteq Loaded <=>
           Declares(s, t) /\ ~Declares(t, s) /\ Rank(s) >= Rank(t))

\* Whom a loaded skill declares a conflict with is blocked, so skills that are
\* loaded and not blocked, and skills that declare each other, are never loaded
\* together (SPEC.md: "Skill ids that cannot be active with this skill.").  It is
\* loaded all the same only if it stands before that skill and has not declared the
\* conflict itself, and LoadedTogether says that this does happen; SPEC.md has no
\* such exception ("A one-way conflict remains valid").
NoneInConflict ==
  /\ LoadedTogether
  /\ pc = "done" =>
       \A s \in Loaded, t \in Ids :
         Declares(s, t) => t \in blocked /\ (t \in Loaded => t < s /\ ~Declares(t, s))

Distinct == \A s, t \in Ids : Conflict(s, t) => Rank(s) # Rank(t)

\* Where no two skills in conflict are equal, a skill is blocked only by a rival
\* that outranks it, and always by one that it has declared itself, whether or
\* not that rival is blocked too.  So for skills that declare each other the
\* result does not depend on the order of the configuration, of the
\* conflict_with lists or of the comparisons; a rival that alone declares the
\* conflict blocks if it has its turn.
BlockedIffBeaten ==
  pc = "done" /\ Distinct =>
    \A t \in Ids :
      /\ t \in blocked => \E s \in Ids : Conflict(s, t) /\ Rank(s) > Rank(t)
      /\ (\E s \in Ids : Declares(t, s) /\ Rank(s) > Rank(t)) => t \in blocked

\* The resolution is refused only if two required skills cannot be told apart
\* or the bases are wrong, and such a pair is let through only if whoever
\* declares it loses to somebody else.
RefusedOnlyTied ==
  LET tied == {p \in Ids \X Ids : /\ Declares(p[1], p[2]) /\ Forced(p[1])
                                 /\ Rank(p[1]) = Rank(p[2])}
  IN  /\ pc = "error" /\ BasesValid => tied # {}
      /\ pc = "done" => \A p \in tied : p[1] \in blocked

\* The content of a loaded skill can be put together: its chain of bases ends
\* (_validate_bases; SkillRegistry._resolve_content follows it).
BasesEnd ==
  pc = "done" => \A s \in Loaded : Chain(s)[N] \notin Ids
=============================================================================
