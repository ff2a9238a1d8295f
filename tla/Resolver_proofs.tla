--------------------------- MODULE Resolver_proofs ---------------------------
(***************************************************************************)
(* compiler/resolver.py for any number of skills and any configurations:   *)
(* the conflict loop, with conflicts declared on one side or on both, and  *)
(* the check of the bases.                                                 *)
(***************************************************************************)
EXTENDS Resolver, FiniteSetTheorems, WellFoundedInduction, TLAPS

\* What a skill that met the first n of its conflict_with leaves behind.
Met(s, n) ==
  \A i \in DOMAIN cfg.conflicts[s] :
    i <= n /\ cfg.conflicts[s][i] \in InZone =>
      /\ cfg.conflicts[s][i] \in blocked
      /\ ~Beats(cfg.conflicts[s][i], s)

\* t is loaded and a later turn has blocked it.
Overtaken(t) ==
  \E u \in Ids : t < u /\ Declares(u, t) /\ ~Declares(t, u) /\ ~Beats(t, u)

\* The skills whose turn is over are settled.  Those that are loaded left no rival
\* that is not blocked; a skill that has its turn is therefore none of their
\* rivals, and what it blocks among them has not declared it.
LoopInv ==
  /\ cfg \in Configs
  /\ Loaded \subseteq InZone /\ blocked \subseteq InZone
  /\ \A s \in forced : Forced(s)
  /\ \A s \in passive : ~Forced(s)
  /\ \A s \in Loaded : s < at /\ Met(s, Len(cfg.conflicts[s]))
  /\ \A t \in Loaded \cap blocked : Overtaken(t)
  /\ \A s, t \in Loaded : Declares(s, t) => t < s /\ ~Declares(t, s)
  /\ pc # "error" => \A s \in InZone : s < at => s \in Loaded \cup blocked
  /\ pc \in {"start", "top"} => c = 1
  /\ pc = "done" => at = N + 1
  /\ pc = "meet" => /\ at \in InZone
                    /\ Met(at, c - 1)
                    /\ \A s \in Loaded : at \notin Range(cfg.conflicts[s])
  /\ Distinct => \A t \in blocked : \E s \in Ids : Conflict(s, t) /\ Beats(s, t)

\* A configuration of the model has its types.
LEMMA ConfigIs ==
  ASSUME cfg \in Configs
  PROVE  IsConfig(cfg) /\ InZone \subseteq Ids
<1>1. IsConfig(cfg)
  BY ResolverAssumption
<1>2. cfg.zone.skills \subseteq Ids /\ cfg.zone.allow \subseteq Ids
  BY <1>1 DEF IsConfig
<1>3. (IF cfg.zone.policy = "exclusive" THEN cfg.zone.allow ELSE {}) \subseteq Ids
  BY <1>2
<1>4. InZone \subseteq Ids
  BY <1>2, <1>3 DEF InZone
<1> QED
  BY <1>1, <1>4

\* Beats compares the ranks, because a priority is below 1000.
LEMMA BeatsRank ==
  ASSUME cfg \in Configs, NEW s \in Ids, NEW t \in Ids
  PROVE  Beats(s, t) <=> Rank(s) > Rank(t)
<1>1. cfg.priority[s] \in 0 .. 999 /\ cfg.priority[t] \in 0 .. 999
  BY ConfigIs DEF IsConfig
<1>2. Rank(s) = IF Forced(s) THEN cfg.priority[s] + 1000 ELSE cfg.priority[s]
  BY DEF Rank
<1>3. Rank(t) = IF Forced(t) THEN cfg.priority[t] + 1000 ELSE cfg.priority[t]
  BY DEF Rank
<1>4. Forced(s) \in BOOLEAN /\ Forced(t) \in BOOLEAN
  BY DEF Forced
<1> DEFINE a == cfg.priority[s]
           b == cfg.priority[t]
           rs == Rank(s)
           rt == Rank(t)
<1>5. Beats(s, t) <=> \/ Forced(s) /\ ~Forced(t)
                      \/ (Forced(s) <=> Forced(t)) /\ a > b
  BY DEF Beats
<1>6. a \in 0 .. 999 /\ b \in 0 .. 999
  BY <1>1
<1>7. rs = (IF Forced(s) THEN a + 1000 ELSE a) /\ rt = (IF Forced(t) THEN b + 1000 ELSE b)
  BY <1>2, <1>3
<1> HIDE DEF a, b, rs, rt
<1>8. CASE Forced(s) /\ Forced(t)
  <2>1. rs = a + 1000 /\ rt = b + 1000
    BY <1>7, <1>8
  <2>2. rs > rt <=> a > b
    BY <1>6, <2>1
  <2> QED
    BY <1>5, <1>8, <2>2 DEF rs, rt
<1>9. CASE Forced(s) /\ ~Forced(t)
  <2>1. rs = a + 1000 /\ rt = b
    BY <1>7, <1>9
  <2>2. rs > rt
    BY <1>6, <2>1
  <2> QED
    BY <1>5, <1>9, <2>2 DEF rs, rt
<1>10. CASE ~Forced(s) /\ Forced(t)
  <2>1. rs = a /\ rt = b + 1000
    BY <1>7, <1>10
  <2>2. ~(rs > rt)
    BY <1>6, <2>1
  <2> QED
    BY <1>5, <1>10, <2>2 DEF rs, rt
<1>11. CASE ~Forced(s) /\ ~Forced(t)
  <2>1. rs = a /\ rt = b
    BY <1>7, <1>11
  <2> QED
    BY <1>5, <1>11, <2>1 DEF rs, rt
<1> QED
  BY <1>4, <1>8, <1>9, <1>10, <1>11

\* Ranks can be compared.
LEMMA RankIs ==
  ASSUME cfg \in Configs, NEW s \in Ids
  PROVE  Rank(s) \in Nat
<1> DEFINE a == cfg.priority[s]
           r == Rank(s)
<1>1. a \in 0 .. 999
  BY ConfigIs DEF IsConfig
<1>2. r = a + 1000 \/ r = a
  BY DEF Rank
<1> HIDE DEF a, r
<1>3. r \in Nat
  BY <1>1, <1>2
<1> QED
  BY <1>3 DEF r

\* The three outcomes of a comparison.
LEMMA WinnerIs ==
  ASSUME cfg \in Configs, NEW s \in Ids, NEW t \in Ids
  PROVE  /\ Winner(s, t) = s => ~Beats(t, s)
         /\ Winner(s, t) \notin {s, 0} => Beats(t, s)
<1>1. Rank(s) \in Nat /\ Rank(t) \in Nat
  BY RankIs
<1>2. ~(Beats(s, t) /\ Beats(t, s)) /\ ~Beats(s, s)
  BY <1>1, BeatsRank
<1> QED
  BY <1>2, ResolverAssumption DEF Winner, Ids

\* The types hold in every step, however the conflicts are declared, and nobody
\* has a turn before the bases are checked.
TypeInv ==
  /\ TypeOK
  /\ cfg \in Configs
  /\ pc = "meet" => at \in InZone
  /\ pc \notin {"start", "error"} => BasesValid

LEMMA TypeStep ==
  ASSUME TypeInv, [Next]_vars
  PROVE  TypeInv'
<1>1. N \in Nat
  BY ResolverAssumption
<1>2. IsConfig(cfg) /\ InZone \subseteq Ids
  BY ConfigIs DEF TypeInv
<1>2a. pc = "meet" => at \in Ids
  BY <1>2 DEF TypeInv
<1>3. cfg' = cfg
  BY DEF Next, vars, Validate, PassOver, Take, Ignore, Win, Lose, Undecided, Place, Finish
<1>4. IsConfig(cfg)' /\ InZone' = InZone /\ BasesValid' = BasesValid
  <2>1. IsConfig(cfg)'
    BY <1>2, <1>3 DEF IsConfig
  <2>2. InZone' = InZone
    BY <1>3 DEF InZone
  <2>3. BasesValid' = BasesValid
    BY <1>3, <2>2 DEF BasesValid, CycleFrom, Chain
  <2> QED
    BY <2>1, <2>2, <2>3
<1> USE <1>1 DEF TypeInv, TypeOK, Ids
<1>5. CASE Validate
  BY <1>4, <1>5 DEF Validate
<1>6. CASE PassOver
  BY <1>4, <1>6 DEF PassOver, NextSkill
<1>7. CASE Take
  BY <1>4, <1>7 DEF Take
<1>8. CASE Ignore
  BY <1>4, <1>8 DEF Ignore
<1>9. CASE Win
  BY <1>2, <1>4, <1>9 DEF Win, Meets
<1>10. CASE Lose
  BY <1>2a, <1>4, <1>10 DEF Lose, NextSkill, Meets
<1>11. CASE Undecided
  BY <1>4, <1>11 DEF Undecided
<1>12. CASE Place
  <2>1. at \in Ids
    BY <1>2a, <1>12 DEF Place
  <2>2. forced' \subseteq Ids /\ passive' \subseteq Ids
    BY <2>1, <1>12 DEF Place
  <2> QED
    BY <2>1, <2>2, <1>4, <1>12 DEF Place, NextSkill
<1>13. CASE Finish
  BY <1>4, <1>13 DEF Finish
<1>14. CASE UNCHANGED vars
  BY <1>4, <1>14 DEF vars
<1> QED
  BY <1>5, <1>6, <1>7, <1>8, <1>9, <1>10, <1>11, <1>12, <1>13, <1>14 DEF Next

\* The invariant of the loop: one step per action, and under it what the
\* action can disturb.
LEMMA LoopStep ==
  ASSUME TypeOK, LoopInv, [Next]_vars
  PROVE  LoopInv'
<1>1. N \in Nat /\ c \in Nat \ {0} /\ at \in 1 .. N + 1
  BY ResolverAssumption DEF TypeOK
<1>2. IsConfig(cfg) /\ InZone \subseteq Ids
  BY ConfigIs DEF LoopInv
<1>3. /\ cfg' = cfg /\ InZone' = InZone
      /\ \A s : Forced(s)' = Forced(s)
      /\ \A s, t : Beats(s, t)' = Beats(s, t)
      /\ \A s, t : Declares(s, t)' = Declares(s, t)
      /\ \A s, t : Conflict(s, t)' = Conflict(s, t)
      /\ \A t : Overtaken(t)' = Overtaken(t)
      /\ Distinct' = Distinct
  <2>1. cfg' = cfg
    BY DEF Next, vars, Validate, PassOver, Take, Ignore, Win, Lose, Undecided, Place, Finish
  <2> QED
    BY <2>1 DEF InZone, Forced, Beats, Declares, Conflict, Overtaken, Distinct, Rank
<1>4. \A s \in Ids : cfg.conflicts[s] \in Seq(Ids \cup {Unknown})
  BY <1>2 DEF IsConfig
<1>5. \A s \in Ids : Len(cfg.conflicts[s]) \in Nat
                  /\ DOMAIN cfg.conflicts[s] = 1 .. Len(cfg.conflicts[s])
  BY <1>4
<1>6. \A s \in Ids : Winner(s, s) = s \/ Winner(s, s) = 0
  BY DEF Winner
\* More blocked skills only help a skill that was settled.
<1>7. ASSUME NEW s, NEW n, blocked \subseteq blocked', Met(s, n)
      PROVE  Met(s, n)'
  BY <1>3, <1>7 DEF Met
\* The rival of a turn, and what it means to meet it.
<1>8. ASSUME Meets, Rival \in InZone
      PROVE  /\ at \in Ids /\ Rival \in Ids /\ Declares(at, Rival)
             /\ Rival \in Loaded => Rival < at /\ ~Declares(Rival, at)
  <2>1. at \in InZone /\ at \in Ids /\ c \in DOMAIN cfg.conflicts[at]
    BY <1>1, <1>2, <1>5, <1>8 DEF Meets, LoopInv
  <2>2. Rival \in Range(cfg.conflicts[at])
    BY <2>1 DEF Rival, Range
  <2>3. Rival \in Ids
    BY <1>2, <1>8
  <2>4. Rival \in Loaded => Rival < at /\ ~Declares(Rival, at)
    BY <1>8 DEF LoopInv, Meets, Declares
  <2> QED
    BY <1>8, <2>1, <2>2, <2>3, <2>4 DEF Declares
<1>9. CASE Validate
  BY <1>1, <1>3, <1>7, <1>9 DEF Validate, LoopInv, Loaded
<1>10. CASE PassOver
  <2>1. \A s \in InZone : s < at' => s \in Loaded \cup blocked
    <3> SUFFICES ASSUME NEW s \in InZone, s < at + 1 PROVE s \in Loaded \cup blocked
      BY <1>10 DEF PassOver, NextSkill
    <3>1. s \in Nat
      BY <1>1, <1>2 DEF Ids
    <3>2. s < at \/ s = at
      BY <1>1, <3>1
    <3> QED
      BY <1>10, <3>2 DEF PassOver, LoopInv
  <2>2. \A s \in Loaded : s < at'
    BY <1>1, <1>2, <1>10 DEF PassOver, NextSkill, LoopInv, Ids
  <2>3. pc' = "top" /\ c' = 1 /\ UNCHANGED <<cfg, blocked, forced, passive>>
    BY <1>10 DEF PassOver, NextSkill
  <2> QED
    BY <1>3, <1>7, <2>1, <2>2, <2>3 DEF LoopInv, Loaded
<1>11. CASE Take
  <2>1. at \in InZone /\ at \notin blocked /\ c = 1
    BY <1>11 DEF Take, LoopInv
  <2>2. \A s \in Loaded : at \notin Range(cfg.conflicts[s])
    <3> SUFFICES ASSUME NEW s \in Loaded, at \in Range(cfg.conflicts[s]) PROVE FALSE
      OBVIOUS
    <3>1. s \in Ids /\ Met(s, Len(cfg.conflicts[s]))
      BY <1>2 DEF LoopInv
    <3>2. PICK i \in DOMAIN cfg.conflicts[s] : cfg.conflicts[s][i] = at
      BY DEF Range
    <3>3. i <= Len(cfg.conflicts[s])
      BY <1>5, <3>1, <3>2
    <3> QED
      BY <2>1, <3>1, <3>2, <3>3 DEF Met
  <2>3. Met(at, 0)'
    BY <1>2, <1>3, <1>5, <2>1, <1>11 DEF Met, Take
  <2>4. c' - 1 = 0 /\ at' = at
    BY <2>1, <1>11 DEF Take
  <2> QED
    BY <1>1, <1>3, <1>7, <1>11, <2>1, <2>2, <2>3, <2>4 DEF Take, LoopInv, Loaded
<1>12. CASE Ignore
  <2>1. Met(at, c)
    BY <1>1, <1>5, <1>12 DEF Ignore, Meets, Met, LoopInv, Rival
  <2>2. c' - 1 = c /\ at' = at /\ blocked' = blocked
    BY <1>1, <1>12 DEF Ignore
  <2>3. Met(at, c - 1)'
    BY <1>3, <2>1, <2>2 DEF Met
  <2> QED
    BY <1>3, <1>7, <1>12, <2>2, <2>3 DEF Ignore, Meets, LoopInv, Loaded
<1>13. CASE Win
  <2>1. /\ at \in Ids /\ Rival \in Ids /\ Conflict(at, Rival) /\ Declares(at, Rival)
        /\ Rival \in Loaded => Rival < at /\ ~Declares(Rival, at)
        /\ ~Beats(Rival, at) /\ blocked' = blocked \cup {Rival}
    BY <1>8, <1>13, WinnerIs DEF Win, LoopInv, Conflict
  <2>2. c' - 1 = c /\ UNCHANGED <<cfg, pc, at, forced, passive>> /\ pc = "meet"
    BY <1>1, <1>13 DEF Win, Meets
  <2>3. at \in InZone /\ Rival \in InZone /\ Met(at, c - 1)
    BY <1>13 DEF Win, Meets, LoopInv
  <2>4. Met(at, c - 1)'
    <3> SUFFICES ASSUME NEW i \in DOMAIN cfg.conflicts[at], i <= c,
                        cfg.conflicts[at][i] \in InZone
                 PROVE  /\ cfg.conflicts[at][i] \in blocked'
                        /\ ~Beats(cfg.conflicts[at][i], at)
      BY <1>3, <2>2 DEF Met
    <3>1. i <= c - 1 \/ i = c
      BY <1>1, <1>5, <2>1
    <3>2. CASE i <= c - 1
      BY <2>1, <2>3, <3>2 DEF Met
    <3>3. CASE i = c
      BY <2>1, <3>3 DEF Rival
    <3> QED
      BY <3>1, <3>2, <3>3
  <2>6. Distinct => Beats(at, Rival)
    BY <2>1, BeatsRank, RankIs DEF Distinct, LoopInv
  <2>7. /\ blocked' \subseteq InZone
        /\ \A t \in Loaded \cap blocked' : Overtaken(t)
        /\ Distinct => \A t \in blocked' : \E s \in Ids : Conflict(s, t) /\ Beats(s, t)
    BY <2>1, <2>3, <2>6 DEF LoopInv, Overtaken
  <2>8. blocked \subseteq blocked' /\ Loaded' = Loaded
    BY <2>1, <2>2 DEF Loaded
  <2> QED
    BY <1>3, <1>7, <2>2, <2>3, <2>4, <2>7, <2>8 DEF LoopInv
<1>14. CASE Lose
  <2>1. /\ at \in Ids /\ Rival \in Ids /\ Conflict(at, Rival) /\ Beats(Rival, at)
        /\ blocked' = blocked \cup {at}
    BY <1>8, <1>14, WinnerIs DEF Lose, LoopInv, Conflict
  <2>2. Conflict(Rival, at)
    BY <2>1 DEF Conflict
  <2>3. /\ pc' = "top" /\ c' = 1 /\ at' = at + 1 /\ UNCHANGED <<cfg, forced, passive>>
        /\ pc = "meet" /\ at \in InZone
    BY <1>14 DEF Lose, NextSkill, Meets, LoopInv
  <2>4. \A s \in InZone : s < at' => s \in Loaded \cup blocked'
    <3> SUFFICES ASSUME NEW s \in InZone, s < at + 1 PROVE s \in Loaded \cup blocked'
      BY <2>3
    <3>1. s \in Nat
      BY <1>1, <1>2 DEF Ids
    <3>2. s < at \/ s = at
      BY <1>1, <3>1
    <3> QED
      BY <2>1, <2>3, <3>2 DEF LoopInv
  <2>5. \A s \in Loaded : s < at' /\ s # at
    <3> SUFFICES ASSUME NEW s \in Loaded PROVE s < at + 1 /\ s # at
      BY <2>3
    <3>1. s < at /\ s \in Ids
      BY <1>2 DEF LoopInv
    <3>2. s \in Nat
      BY <1>1, <3>1 DEF Ids
    <3> QED
      BY <1>1, <3>1, <3>2
  <2>6. /\ blocked' \subseteq InZone
        /\ \A t \in Loaded \cap blocked' : Overtaken(t)
        /\ Distinct => \A t \in blocked' : \E s \in Ids : Conflict(s, t) /\ Beats(s, t)
    BY <2>1, <2>2, <2>3, <2>5 DEF LoopInv
  <2>7. blocked \subseteq blocked' /\ Loaded' = Loaded
    BY <2>1, <2>3 DEF Loaded
  <2> QED
    BY <1>3, <1>7, <2>3, <2>4, <2>5, <2>6, <2>7 DEF LoopInv
<1>15. CASE Undecided
  BY <1>3, <1>7, <1>15 DEF Undecided, LoopInv, Loaded
<1>16. CASE Place
  <2>1. /\ pc' = "top" /\ c' = 1 /\ at' = at + 1 /\ UNCHANGED <<cfg, blocked>>
        /\ pc = "meet" /\ at \in InZone /\ c > Len(cfg.conflicts[at])
        /\ Met(at, c - 1)
    BY <1>16 DEF Place, NextSkill, LoopInv
  <2>2. Met(at, Len(cfg.conflicts[at]))
    <3>1. \A i \in DOMAIN cfg.conflicts[at] : i <= c - 1
      BY <1>1, <1>2, <1>5, <2>1
    <3> QED
      BY <2>1, <3>1 DEF Met
  <2>3. /\ Loaded' = Loaded \cup ({at} \ blocked)
        /\ \A s \in forced' : Forced(s)
        /\ \A s \in passive' : ~Forced(s)
    BY <1>16 DEF Place, Loaded, LoopInv
  <2>4. \A s \in InZone : s < at' => s \in Loaded' \cup blocked
    <3> SUFFICES ASSUME NEW s \in InZone, s < at + 1 PROVE s \in Loaded' \cup blocked
      BY <2>1
    <3>1. s \in Nat
      BY <1>1, <1>2 DEF Ids
    <3>2. s < at \/ s = at
      BY <1>1, <3>1
    <3> QED
      BY <2>1, <2>3, <3>2 DEF LoopInv
  <2>5. \A s \in Loaded' : s < at' /\ Met(s, Len(cfg.conflicts[s]))
    <3> SUFFICES ASSUME NEW s \in Loaded'
                 PROVE  s < at + 1 /\ Met(s, Len(cfg.conflicts[s]))
      BY <2>1
    <3>1. CASE s \in Loaded
      <4>1. s \in Nat /\ s < at
        BY <1>1, <1>2, <3>1 DEF LoopInv, Ids
      <4> QED
        BY <1>1, <3>1, <4>1 DEF LoopInv
    <3>2. CASE s \in {at} \ blocked
      BY <1>1, <2>2, <3>2
    <3> QED
      BY <2>3, <3>1, <3>2
  <2>7. \A t \in Loaded' \cap blocked : Overtaken(t)
    BY <2>3 DEF LoopInv
  <2>8. \A s, t \in Loaded' : Declares(s, t) => t < s /\ ~Declares(t, s)
    <3> SUFFICES ASSUME NEW s \in Loaded', NEW t \in Loaded', Declares(s, t)
                 PROVE  t < s /\ ~Declares(t, s)
      OBVIOUS
    <3>1. CASE s \in Loaded /\ t \in Loaded
      BY <3>1 DEF LoopInv
    <3>2. CASE s \in Loaded /\ t = at
      BY <2>1, <3>2 DEF LoopInv, Declares
    <3>3. CASE s = at /\ t \in Loaded
      BY <2>1, <3>3 DEF LoopInv, Declares
    \* A skill that declares itself would have blocked itself.
    <3>4. CASE s = at /\ t = at /\ at \notin blocked
      <4>1. PICK i \in DOMAIN cfg.conflicts[at] : cfg.conflicts[at][i] = at
        BY <3>4 DEF Declares, Range
      <4> QED
        BY <1>2, <1>5, <2>1, <2>2, <3>4, <4>1 DEF Met
    <3> QED
      BY <2>3, <3>1, <3>2, <3>3, <3>4
  <2>6. Loaded' \subseteq InZone
    BY <2>1, <2>3 DEF LoopInv
  <2> QED
    BY <1>3, <1>7, <2>1, <2>3, <2>4, <2>5, <2>6, <2>7, <2>8 DEF LoopInv
<1>17. CASE Finish
  BY <1>1, <1>3, <1>7, <1>17 DEF Finish, LoopInv, Loaded
<1>18. CASE UNCHANGED vars
  BY <1>3, <1>7, <1>18 DEF vars, LoopInv, Loaded
<1> QED
  BY <1>9, <1>10, <1>11, <1>12, <1>13, <1>14, <1>15, <1>16, <1>17, <1>18 DEF Next

\* Before the first step nothing is decided.
LEMMA LoopInit == Init => TypeInv /\ LoopInv
<1> SUFFICES ASSUME Init PROVE TypeInv /\ LoopInv
  OBVIOUS
<1>1. IsConfig(cfg) /\ InZone \subseteq Ids /\ N \in Nat
  BY ConfigIs, ResolverAssumption DEF Init
<1>2. TypeInv
  BY <1>1 DEF Init, TypeInv, TypeOK
<1>3. \A s \in InZone : ~(s < at)
  BY <1>1 DEF Init, Ids
<1>4. LoopInv
  BY <1>3 DEF Init, LoopInv, Loaded
<1> QED
  BY <1>2, <1>4

---------------------------------------------------------------------------
(* A tie between required skills *)

Tied(s, t) == Declares(s, t) /\ Forced(s) /\ Rank(s) = Rank(t)

\* Whom the skill in its turn, or a loaded skill, has met, it has beaten; and
\* what is refused, for which reason.
WonOver(s, n) ==
  \A i \in DOMAIN cfg.conflicts[s] :
    i <= n /\ cfg.conflicts[s][i] \in InZone => Winner(s, cfg.conflicts[s][i]) = s

EndInv ==
  /\ pc = "error" => \/ ~BasesValid
                     \/ \E s, t \in Ids : Tied(s, t)
  /\ pc = "meet" => WonOver(at, c - 1)
  /\ \A s \in Loaded : WonOver(s, Len(cfg.conflicts[s]))

\* The ranks of required skills begin where those of the others end.
LEMMA ForcedRank ==
  ASSUME cfg \in Configs, NEW x \in Ids
  PROVE  Forced(x) <=> Rank(x) >= 1000
<1> DEFINE p == cfg.priority[x]
<1>1. p \in 0 .. 999
  BY ConfigIs DEF IsConfig
<1>2. Rank(x) = IF Forced(x) THEN p + 1000 ELSE p
  BY DEF Rank
<1> HIDE DEF p
<1>3. p + 1000 >= 1000 /\ ~(p >= 1000)
  BY <1>1
<1>4. CASE Forced(x)
  <2>1. Rank(x) = p + 1000
    BY <1>2, <1>4, Zenon
  <2> QED
    BY <1>3, <1>4, <2>1
<1>5. CASE ~Forced(x)
  <2>1. Rank(x) = p
    BY <1>2, <1>5, Zenon
  <2> QED
    BY <1>3, <1>5, <2>1
<1> QED
  BY <1>4, <1>5

\* Two skills of the same rank are both required or both not.
LEMMA SameRank ==
  ASSUME cfg \in Configs, NEW s \in Ids, NEW t \in Ids, Rank(s) = Rank(t)
  PROVE  /\ Forced(s) <=> Forced(t)
         /\ ~Beats(s, t) /\ ~Beats(t, s)
<1>1. \A x \in Ids : Forced(x) <=> Rank(x) >= 1000
  BY ForcedRank
<1>3. Forced(s) <=> Forced(t)
  BY <1>1
<1>4. Rank(s) \in Nat
  BY RankIs
<1>5. ~Beats(s, t) /\ ~Beats(t, s)
  BY <1>4, BeatsRank
<1> QED
  BY <1>3, <1>5

\* A comparison without a winner is one of two required skills of one rank.
LEMMA NobodyWins ==
  ASSUME cfg \in Configs, NEW s \in Ids, NEW t \in Ids, Winner(s, t) = 0
  PROVE  Forced(s) /\ Rank(s) = Rank(t)
<1>1. s # 0 /\ t # 0
  BY ResolverAssumption DEF Ids
<1>2. ~Beats(s, t) /\ ~Beats(t, s) /\ Forced(s)
  BY <1>1 DEF Winner
<1>3. Rank(s) \in Nat /\ Rank(t) \in Nat
  BY RankIs
<1> QED
  BY <1>2, <1>3, BeatsRank

\* One step per action; the bases and the ranks depend on the configuration.
LEMMA EndStep ==
  ASSUME TypeOK, LoopInv, EndInv, [Next]_vars
  PROVE  EndInv'
<1>1. c \in Nat \ {0} /\ cfg \in Configs /\ IsConfig(cfg) /\ InZone \subseteq Ids
  BY ConfigIs DEF TypeOK, LoopInv
<1>2. cfg' = cfg
  BY DEF Next, vars, Validate, PassOver, Take, Ignore, Win, Lose, Undecided, Place, Finish
<1>3. /\ BasesValid' = BasesValid
      /\ \A s, t : Tied(s, t)' = Tied(s, t)
      /\ \A s, n : WonOver(s, n)' = WonOver(s, n)
  BY <1>2 DEF BasesValid, CycleFrom, Chain, InZone, Tied, Declares, Forced, Rank, WonOver,
              Winner, Beats
<1>4. \A s \in Ids : /\ Len(cfg.conflicts[s]) \in Nat
                     /\ DOMAIN cfg.conflicts[s] = 1 .. Len(cfg.conflicts[s])
  BY <1>1 DEF IsConfig
<1>5. pc = "meet" => at \in InZone /\ at \in Ids
  BY <1>1 DEF LoopInv
<1>6. CASE Validate
  BY <1>3, <1>6 DEF Validate, EndInv, Loaded
<1>7. CASE PassOver
  BY <1>3, <1>7 DEF PassOver, NextSkill, EndInv, Loaded
<1>8. CASE Take
  <2>1. at \in Ids /\ c = 1
    BY <1>1, <1>8 DEF Take, LoopInv
  <2>2. WonOver(at, c - 1)
    BY <1>4, <2>1 DEF WonOver
  <2> QED
    BY <1>3, <1>8, <2>2 DEF Take, EndInv, Loaded
<1>9. CASE Ignore
  <2>1. WonOver(at, c)
    BY <1>1, <1>4, <1>5, <1>9 DEF Ignore, Meets, WonOver, EndInv, Rival
  <2>2. c' - 1 = c
    BY <1>1, <1>9 DEF Ignore
  <2> QED
    BY <1>3, <1>9, <2>1, <2>2 DEF Ignore, Meets, EndInv, Loaded
<1>10. CASE Win
  <2>1. WonOver(at, c)
    BY <1>1, <1>4, <1>5, <1>10 DEF Win, Meets, WonOver, EndInv, Rival
  <2>2. c' - 1 = c
    BY <1>1, <1>10 DEF Win
  <2> QED
    BY <1>3, <1>10, <2>1, <2>2 DEF Win, Meets, EndInv, Loaded
<1>11. CASE Lose
  BY <1>3, <1>11 DEF Lose, Meets, NextSkill, EndInv, Loaded
<1>12. CASE Undecided
  <2>1. at \in Ids /\ Rival \in Ids /\ at \in InZone /\ Rival \in InZone /\ Winner(at, Rival) = 0
    BY <1>1, <1>5, <1>12 DEF Undecided, Meets
  <2>2. c \in DOMAIN cfg.conflicts[at]
    BY <1>1, <1>4, <2>1, <1>12 DEF Undecided, Meets
  <2>3. Rival \in Range(cfg.conflicts[at])
    BY <2>2 DEF Rival, Range
  <2>4. Tied(at, Rival)
    BY <1>1, <2>1, <2>3, NobodyWins DEF Tied, Declares
  <2> QED
    BY <1>3, <1>12, <2>1, <2>4 DEF Undecided, EndInv, Loaded
<1>13. CASE Place
  <2>1. WonOver(at, Len(cfg.conflicts[at]))
    BY <1>1, <1>4, <1>5, <1>13 DEF Place, WonOver, EndInv
  <2>2. \A s \in Loaded' : s \in Loaded \/ s = at
    BY <1>13 DEF Place, Loaded
  <2> QED
    BY <1>3, <1>13, <2>1, <2>2 DEF Place, NextSkill, EndInv
<1>14. CASE Finish
  BY <1>3, <1>14 DEF Finish, EndInv, Loaded
<1>15. CASE UNCHANGED vars
  BY <1>3, <1>15 DEF vars, EndInv, Loaded
<1> QED
  BY <1>6, <1>7, <1>8, <1>9, <1>10, <1>11, <1>12, <1>13, <1>14, <1>15 DEF Next

---------------------------------------------------------------------------
(* The chain of bases *)

\* A set of natural numbers has a least member: what the proofs by induction
\* over a number rest on.
LEMMA LeastMember ==
  ASSUME NEW T, T \subseteq Nat, T # {}
  PROVE  \E x \in T : \A y \in T : x <= y
<1> DEFINE R == OpToRel(<, Nat)
<1>1. IsWellFoundedOn(R, Nat)
  BY NatLessThanWellFounded
<1>2. \A x, y \in Nat : y < x => <<y, x>> \in R
  BY DEF OpToRel
<1> HIDE DEF R
<1>3. PICK x \in T : \A y \in T : ~(<<y, x>> \in R)
  BY <1>1, WFMin
<1>4. \A y \in T : ~(y < x)
  BY <1>2, <1>3
<1>5. \A y \in T : x <= y
  BY <1>4
<1> QED
  BY <1>5

\* The body of Chain, for its first m + 1 members.
Follow(s, m, g) ==
  [n \in 0 .. m |-> IF n = 0 THEN s ELSE IF g[n - 1] \in Ids THEN cfg.base[g[n - 1]] ELSE 0]

\* The recursion of Chain has a solution: what is there up to m - 1 goes on to m.
LEMMA FollowExists ==
  ASSUME NEW s, NEW m \in Nat
  PROVE  \E g : g = Follow(s, m, g)
<1> DEFINE T == {k \in Nat : ~ \E g : g = Follow(s, k, g)}
<1> SUFFICES ASSUME T # {} PROVE FALSE
  OBVIOUS
<1>1. PICK k \in T : \A j \in T : k <= j
  BY LeastMember
<1>2. CASE k = 0
  <2> DEFINE g == [n \in {0} |-> s]
  <2>1. 0 .. 0 = {0}
    OBVIOUS
  <2>2. g = Follow(s, 0, g)
    BY <2>1 DEF Follow
  <2> QED
    BY <1>1, <1>2, <2>2
<1>3. CASE k # 0
  <2>1. k - 1 \in Nat /\ k - 1 \notin T
    BY <1>1, <1>3
  <2>2. PICK g : g = Follow(s, k - 1, g)
    BY <2>1
  <2> DEFINE h == [n \in 0 .. k |-> IF n = k
                                    THEN IF g[k - 1] \in Ids THEN cfg.base[g[k - 1]] ELSE 0
                                    ELSE g[n]]
  <2>3. \A n \in 0 .. k - 1 :
          g[n] = IF n = 0 THEN s ELSE IF g[n - 1] \in Ids THEN cfg.base[g[n - 1]] ELSE 0
    BY <2>2 DEF Follow
  <2>4. \A n \in 0 .. k :
          h[n] = IF n = 0 THEN s ELSE IF h[n - 1] \in Ids THEN cfg.base[h[n - 1]] ELSE 0
    <3> SUFFICES ASSUME NEW n \in 0 .. k
                 PROVE  h[n] = IF n = 0 THEN s
                               ELSE IF h[n - 1] \in Ids THEN cfg.base[h[n - 1]] ELSE 0
      OBVIOUS
    <3>1. n # 0 => n - 1 \in 0 .. k /\ n - 1 # k
      BY <1>1
    <3>2. n # 0 => h[n - 1] = g[n - 1]
      BY <3>1
    <3>3. CASE n = k
      BY <1>3, <3>2, <3>3
    <3>4. CASE n # k
      <4>1. n \in 0 .. k - 1
        BY <1>1, <3>4
      <4> QED
        BY <2>3, <3>2, <3>4, <4>1
    <3> QED
      BY <3>3, <3>4
  <2> HIDE DEF h
  <2>5. h = [n \in 0 .. k |-> h[n]]
    BY DEF h
  <2>6. h = Follow(s, k, h)
    BY <2>4, <2>5 DEF Follow
  <2> QED
    BY <1>1, <2>6
<1> QED
  BY <1>2, <1>3

\* What the recursive definition of Chain computes.
LEMMA ChainIs ==
  ASSUME NEW s
  PROVE  \A n \in 0 .. N :
           Chain(s)[n] = IF n = 0 THEN s
                         ELSE IF Chain(s)[n - 1] \in Ids THEN cfg.base[Chain(s)[n - 1]] ELSE 0
<1>1. PICK g : g = Follow(s, N, g)
  BY FollowExists, ResolverAssumption
<1>2. Chain(s) = CHOOSE h : h = Follow(s, N, h)
  BY DEF Chain, Follow
<1>3. Chain(s) = Follow(s, N, Chain(s))
  BY <1>1, <1>2
<1> DEFINE f == Chain(s)
<1>4. f = Follow(s, N, f)
  BY <1>3
<1> HIDE DEF f
<1>5. \A n \in 0 .. N :
        f[n] = IF n = 0 THEN s ELSE IF f[n - 1] \in Ids THEN cfg.base[f[n - 1]] ELSE 0
  BY <1>4 DEF Follow
<1> QED
  BY <1>5 DEF f

\* A chain that is in Ids at its end was there all along.
LEMMA ChainInside ==
  ASSUME NEW s, Chain(s)[N] \in Ids
  PROVE  \A n \in 0 .. N : Chain(s)[n] \in Ids
<1> DEFINE T == {k \in Nat : k <= N /\ Chain(s)[N - k] \notin Ids}
<1>0. N \in Nat /\ 0 \notin Ids
  BY ResolverAssumption DEF Ids
<1> SUFFICES ASSUME T # {} PROVE FALSE
  <2> SUFFICES ASSUME T = {}, NEW n \in 0 .. N PROVE Chain(s)[n] \in Ids
    OBVIOUS
  <2>1. N - n \in Nat /\ N - n <= N /\ N - (N - n) = n
    BY <1>0
  <2> QED
    BY <2>1
<1>1. PICK k \in T : \A j \in T : k <= j
  BY LeastMember
<1>2. k # 0
  BY <1>0, <1>1
<1>3. k - 1 \in Nat /\ k - 1 <= N /\ k - 1 \notin T
  BY <1>0, <1>1, <1>2
<1>4. N - (k - 1) \in 0 .. N /\ N - (k - 1) # 0 /\ N - (k - 1) - 1 = N - k
  BY <1>0, <1>1, <1>2
<1>5. Chain(s)[N - (k - 1)] = 0
  <2>1. Chain(s)[N - k] \notin Ids
    BY <1>1
  <2> QED
    BY <1>4, <2>1, ChainIs
<1> QED
  BY <1>0, <1>3, <1>5

\* N + 1 members of Ids cannot all differ: a chain without a cycle ends.
LEMMA ChainEnds ==
  ASSUME NEW s, ~CycleFrom(s)
  PROVE  Chain(s)[N] \notin Ids
<1> SUFFICES ASSUME Chain(s)[N] \in Ids PROVE FALSE
  OBVIOUS
<1>0. N \in Nat
  BY ResolverAssumption
<1> DEFINE f == [n \in 0 .. N |-> Chain(s)[n]]
<1>1. f \in [0 .. N -> Ids]
  BY ChainInside
<1>2. /\ IsFiniteSet(0 .. N) /\ Cardinality(0 .. N) = N + 1
      /\ IsFiniteSet(Ids) /\ Cardinality(Ids) = N
  <2>1. IsFiniteSet(0 .. N) /\ Cardinality(0 .. N) = N + 1
    BY <1>0, FS_Interval
  <2>2. IsFiniteSet(1 .. N) /\ Cardinality(1 .. N) = IF 1 > N THEN 0 ELSE N - 1 + 1
    BY <1>0, FS_Interval
  <2> QED
    BY <1>0, <2>1, <2>2 DEF Ids
<1> HIDE DEF f
<1>3. PICK m, n \in 0 .. N : m # n /\ f[m] = f[n]
  BY <1>0, <1>1, <1>2, FS_PigeonHole
<1>4. Chain(s)[m] = Chain(s)[n] /\ Chain(s)[m] \in Ids /\ Chain(s)[n] \in Ids
  BY <1>1, <1>3 DEF f
<1>5. m < n \/ n < m
  BY <1>0, <1>3
<1> QED
  BY <1>4, <1>5 DEF CycleFrom

---------------------------------------------------------------------------
(* Theorems *)

\* The types, and that the bases are checked first (Resolver._validate_bases is
\* called before the loop), for any configuration.
LEMMA TypesKept == Spec => []TypeInv
<1>1. Init => TypeInv
  BY LoopInit
<1>2. TypeInv /\ [Next]_vars => TypeInv'
  BY TypeStep
<1> QED
  BY <1>1, <1>2, PTL DEF Spec

\* The inductive invariant of the conflict loop (Resolver._detect_conflicts).
THEOREM LoopCorrect == Spec => [](TypeOK /\ LoopInv)
<1>1. TypeInv /\ LoopInv /\ [Next]_vars => LoopInv'
  BY LoopStep DEF TypeInv
<1>2. Init => LoopInv
  BY LoopInit
<1>3. TypeInv => TypeOK
  BY DEF TypeInv
<1> QED
  BY <1>1, <1>2, <1>3, TypesKept, PTL DEF Spec

\* No skill is forgotten or loaded in two ways, and a skill is loaded and
\* blocked only by a later one that alone declares the conflict, for any
\* declarations (Resolver._detect_conflicts).
THEOREM ResultIsPartition == Spec => []Partitioned
<1>1. ASSUME TypeOK, LoopInv PROVE Partitioned
  <2> SUFFICES ASSUME pc = "done"
               PROVE  /\ forced \cap passive = {}
                      /\ Loaded \cup blocked = InZone
                      /\ \A t \in Loaded \cap blocked :
                           \E s \in Ids : /\ t < s /\ Declares(s, t) /\ ~Declares(t, s)
                                         /\ Rank(s) >= Rank(t)
    BY DEF Partitioned
  <2>1. \A s \in InZone : s < at
    BY <1>1, ConfigIs, ResolverAssumption DEF LoopInv, Ids
  <2>2. forced \cap passive = {}
    BY <1>1 DEF LoopInv
  <2>3. ASSUME NEW t \in Loaded \cap blocked
        PROVE  \E s \in Ids : /\ t < s /\ Declares(s, t) /\ ~Declares(t, s)
                             /\ Rank(s) >= Rank(t)
    <3>1. PICK u \in Ids : t < u /\ Declares(u, t) /\ ~Declares(t, u) /\ ~Beats(t, u)
      BY <1>1, <2>3 DEF LoopInv, Overtaken
    <3>2. cfg \in Configs /\ t \in Ids
      BY <1>1, ConfigIs DEF LoopInv
    <3>3. Rank(u) \in Nat /\ Rank(t) \in Nat /\ ~(Rank(t) > Rank(u))
      BY <3>1, <3>2, RankIs, BeatsRank
    <3>4. Rank(u) >= Rank(t)
      BY <3>3
    <3> QED
      BY <3>1, <3>4
  <2>4. Loaded \cup blocked = InZone
    BY <1>1, <2>1 DEF LoopInv
  <2> QED
    BY <2>2, <2>3, <2>4
<1> QED
  BY <1>1, LoopCorrect, PTL

\* Whom a loaded skill declares is in its conflict_with, and was met.
LEMMA DeclaredWasMet ==
  ASSUME TypeOK, LoopInv, NEW s \in Loaded, NEW t, Declares(s, t)
  PROVE  t \in blocked /\ ~Beats(t, s)
<1>1. s \in Ids /\ Met(s, Len(cfg.conflicts[s]))
  BY ConfigIs DEF LoopInv
<1>2. PICK i \in DOMAIN cfg.conflicts[s] : cfg.conflicts[s][i] = t
  BY DEF Declares, Range
<1>3. i <= Len(cfg.conflicts[s])
  BY <1>1, <1>2, ConfigIs DEF LoopInv, IsConfig
<1> QED
  BY <1>1, <1>2, <1>3 DEF Met, Declares

\* The pairs that end up loaded together: the one further back alone declares the
\* conflict, and neither has another rival.
Escapes(t, s) ==
  /\ t \in Ids /\ s \in Ids /\ t < s
  /\ Opponents(t) = {s} /\ Opponents(s) = {t}
  /\ Declares(s, t) /\ ~Declares(t, s) /\ ~Beats(t, s)

\* The second is never blocked, and the first only when it is loaded by then.
EscapeInv ==
  \A t, s \in Ids : Escapes(t, s) =>
    /\ s \notin blocked
    /\ t \in blocked => s <= at
    /\ pc # "error" /\ t < at => t \in Loaded

LEMMA EscapeStep ==
  ASSUME TypeOK, LoopInv, EscapeInv, [Next]_vars
  PROVE  EscapeInv'
<1>1. N \in Nat /\ at \in 1 .. N + 1
  BY ResolverAssumption DEF TypeOK
<1>2. \A t, s : Escapes(t, s)' <=> Escapes(t, s)
  <2>1. cfg' = cfg
    BY DEF Next, vars, Validate, PassOver, Take, Ignore, Win, Lose, Undecided, Place, Finish
  <2> QED
    BY <2>1 DEF Escapes, Opponents, Conflict, Declares, Beats, Forced, InZone
<1> SUFFICES ASSUME NEW t \in Ids, NEW s \in Ids, Escapes(t, s)
             PROVE  /\ s \notin blocked'
                    /\ t \in blocked' => s <= at'
                    /\ pc' # "error" /\ t < at' => t \in Loaded'
  BY <1>2 DEF EscapeInv
<1>3. /\ t \in Nat /\ s \in Nat /\ t < s /\ t \in InZone
      /\ Opponents(t) = {s} /\ Opponents(s) = {t}
      /\ ~Declares(t, s) /\ ~Beats(t, s)
  BY DEF Escapes, Ids, Declares
<1>4. /\ s \notin blocked
      /\ t \in blocked => s <= at
      /\ pc # "error" /\ t < at => t \in Loaded
  BY DEF EscapeInv
\* Whom the skill at work meets is a rival of it.
<1>5. ASSUME Meets, Rival \in InZone
      PROVE  /\ at \in Ids /\ Rival \in Ids /\ Declares(at, Rival)
             /\ Rival \in Opponents(at) /\ at \in Opponents(Rival)
  <2>1. IsConfig(cfg) /\ InZone \subseteq Ids /\ at \in InZone
    BY <1>5, ConfigIs DEF LoopInv, Meets
  <2>2. c \in DOMAIN cfg.conflicts[at]
    BY <1>5, <2>1 DEF IsConfig, Meets, TypeOK
  <2>3. Declares(at, Rival) /\ at \in Ids /\ Rival \in Ids
    BY <1>5, <2>1, <2>2 DEF Declares, Rival, Range
  <2> QED
    BY <2>3 DEF Opponents, Conflict
<1>6. CASE Win
  <2>1. /\ Declares(at, Rival) /\ Rival \in Opponents(at) /\ at \in Opponents(Rival)
        /\ blocked' = blocked \cup {Rival} /\ UNCHANGED <<pc, at, forced, passive>>
    BY <1>5, <1>6 DEF Win
  <2>2. Rival # s
    BY <1>3, <2>1
  <2>3. Rival = t => at = s
    BY <1>3, <2>1
  <2>4. Loaded' = Loaded
    BY <2>1 DEF Loaded
  <2> QED
    BY <1>1, <1>3, <1>4, <2>1, <2>2, <2>3, <2>4
<1>7. CASE Lose
  <2>1. /\ Declares(at, Rival) /\ Rival \in Opponents(at) /\ at \in Ids /\ Rival \in Ids
        /\ blocked' = blocked \cup {at} /\ at' = at + 1 /\ UNCHANGED <<forced, passive>>
        /\ Winner(at, Rival) \notin {at, 0} /\ pc = "meet"
    BY <1>5, <1>7 DEF Lose, NextSkill, Meets
  <2>2. Beats(Rival, at)
    BY <2>1, WinnerIs DEF LoopInv
  <2>3. at # s /\ at # t
    BY <1>3, <2>1, <2>2
  <2>4. Loaded' = Loaded
    BY <2>1 DEF Loaded
  <2> QED
    BY <1>1, <1>3, <1>4, <2>1, <2>3, <2>4
<1>8. CASE Place
  <2>1. /\ blocked' = blocked /\ at' = at + 1 /\ pc = "meet"
        /\ Loaded' = Loaded \cup ({at} \ blocked)
    BY <1>8 DEF Place, NextSkill, Loaded
  <2>2. t = at => t \notin blocked
    BY <1>1, <1>3, <1>4
  <2> QED
    BY <1>1, <1>3, <1>4, <2>1, <2>2
<1>9. CASE PassOver
  <2>1. /\ UNCHANGED <<blocked, forced, passive>> /\ at' = at + 1 /\ pc = "top"
        /\ at \notin InZone \/ at \in blocked
    BY <1>9 DEF PassOver, NextSkill
  <2>2. t # at
    BY <1>1, <1>3, <1>4, <2>1
  <2>3. Loaded' = Loaded
    BY <2>1 DEF Loaded
  <2> QED
    BY <1>1, <1>3, <1>4, <2>1, <2>2, <2>3
<1>10. CASE Validate \/ Take \/ Ignore \/ Undecided \/ Finish \/ UNCHANGED vars
  <2>1. UNCHANGED <<blocked, forced, passive, at>> /\ (pc' # "error" => pc # "error")
    BY <1>10 DEF Validate, Take, Ignore, Undecided, Finish, Meets, vars
  <2> QED
    BY <1>4, <2>1 DEF Loaded
<1> QED
  BY <1>6, <1>7, <1>8, <1>9, <1>10 DEF Next

\* Which pairs of rivals end up loaded together, as far as it depends on nobody else:
\* where the second alone declares the conflict, the loop is past the first when it
\* finds out (_detect_conflicts).
LEMMA OneSideIsTooLate == Spec => []LoadedTogether
<1>1. Init => EscapeInv
  <2> SUFFICES ASSUME Init, NEW t \in Ids PROVE t \notin blocked /\ ~(t < at)
    BY DEF EscapeInv
  <2> QED
    BY ResolverAssumption DEF Init, Ids
<1>2. ASSUME TypeOK, LoopInv, EscapeInv PROVE LoadedTogether
  <2> SUFFICES ASSUME pc = "done", NEW t \in Ids, NEW s \in Ids, t < s,
                      Opponents(t) = {s}, Opponents(s) = {t}
               PROVE  {t, s} \subseteq Loaded <=>
                        Declares(s, t) /\ ~Declares(t, s) /\ Rank(s) >= Rank(t)
    BY DEF LoadedTogether
  <2>1. N \in Nat /\ t \in 1 .. N /\ s \in 1 .. N /\ at = N + 1
    BY <1>2, ResolverAssumption DEF LoopInv, Ids
  <2>2. ~Beats(t, s) <=> Rank(s) >= Rank(t)
    <3>1. Rank(s) \in Nat /\ Rank(t) \in Nat /\ (Beats(t, s) <=> Rank(t) > Rank(s))
      BY <1>2, RankIs, BeatsRank DEF LoopInv
    <3> DEFINE rs == Rank(s)
               rt == Rank(t)
    <3> HIDE DEF rs, rt
    <3>2. rs \in Nat /\ rt \in Nat /\ (Beats(t, s) <=> rt > rs)
      BY <3>1 DEF rs, rt
    <3>3. ~Beats(t, s) <=> rs >= rt
      BY <3>2
    <3> QED
      BY <3>3 DEF rs, rt
  <2>3. ASSUME {t, s} \subseteq Loaded
        PROVE  Declares(s, t) /\ ~Declares(t, s) /\ ~Beats(t, s)
    <3>1. Declares(s, t) \/ Declares(t, s)
      BY DEF Opponents, Conflict
    <3>2. ~(s < t)
      BY <2>1
    <3>3. Declares(s, t) /\ ~Declares(t, s)
      BY <1>2, <2>3, <3>1, <3>2 DEF LoopInv
    <3> QED
      BY <1>2, <2>3, <3>3, DeclaredWasMet
  <2>4. ASSUME Declares(s, t), ~Declares(t, s), ~Beats(t, s)
        PROVE  {t, s} \subseteq Loaded
    <3>1. Escapes(t, s)
      BY <2>4 DEF Escapes
    <3>2. t < at /\ s < at
      BY <2>1
    <3>3. t \in Loaded /\ s \notin blocked
      BY <1>2, <3>1, <3>2 DEF EscapeInv
    <3>4. s \in Loaded \cup blocked
      BY <1>2, <2>4, <3>2 DEF LoopInv, Declares
    <3> QED
      BY <3>3, <3>4
  <2> QED
    BY <2>2, <2>3, <2>4
<1>3. TypeOK /\ LoopInv /\ EscapeInv /\ [Next]_vars => EscapeInv'
  BY EscapeStep
<1> QED
  BY <1>1, <1>2, <1>3, LoopCorrect, PTL DEF Spec

\* Whom a loaded skill declares a conflict with is blocked; both are loaded only
\* if that skill comes later and the other has not declared it, and two that have no
\* other rival then always are (_detect_conflicts).
THEOREM ResultHasNoConflict == Spec => []NoneInConflict
<1>1. ASSUME TypeOK, LoopInv, LoadedTogether PROVE NoneInConflict
  <2> SUFFICES ASSUME NEW s \in Loaded, NEW t \in Ids, Declares(s, t)
               PROVE  t \in blocked /\ (t \in Loaded => t < s /\ ~Declares(t, s))
    BY <1>1 DEF NoneInConflict
  <2>1. t \in blocked
    BY <1>1, DeclaredWasMet
  <2>2. t \in Loaded => t < s /\ ~Declares(t, s)
    BY <1>1 DEF LoopInv
  <2> QED
    BY <2>1, <2>2
<1> QED
  BY <1>1, LoopCorrect, OneSideIsTooLate, PTL

\* Who is blocked is bounded from both sides by ranks and declarations alone, not
\* by the order in which the loop meets them; for mutual declarations the two
\* bounds are one (_detect_conflicts, _resolve_conflict).
THEOREM ResultIsOrderFree == Spec => []BlockedIffBeaten
<1>1. ASSUME TypeOK, LoopInv PROVE BlockedIffBeaten
  <2> SUFFICES ASSUME pc = "done", Distinct, NEW t \in Ids
               PROVE  /\ t \in blocked =>
                           \E s \in Ids : Conflict(s, t) /\ Rank(s) > Rank(t)
                      /\ (\E s \in Ids : Declares(t, s) /\ Rank(s) > Rank(t)) => t \in blocked
    BY DEF BlockedIffBeaten
  <2>1. ASSUME t \in blocked
        PROVE  \E s \in Ids : Conflict(s, t) /\ Rank(s) > Rank(t)
    BY <1>1, <2>1, BeatsRank DEF LoopInv
  <2>2. ASSUME NEW s \in Ids, Declares(t, s), Rank(s) > Rank(t), t \notin blocked
        PROVE  FALSE
    <3>1. t \in InZone /\ Beats(s, t)
      BY <1>1, <2>2, BeatsRank DEF Declares, LoopInv
    <3>2. t < at
      BY <1>1, ResolverAssumption DEF LoopInv, Ids
    <3>3. t \in Loaded
      BY <1>1, <2>2, <3>1, <3>2 DEF LoopInv
    <3> QED
      BY <1>1, <2>2, <3>1, <3>3, DeclaredWasMet
  <2> QED
    BY <2>1, <2>2
<1> QED
  BY <1>1, LoopCorrect, PTL

\* What the end of the loop says of a tie (EndInv).
LEMMA EndKept == Spec => [](TypeOK /\ LoopInv /\ EndInv)
<1>1. Init => EndInv
  BY DEF Init, EndInv, Loaded
<1>2. TypeOK /\ LoopInv /\ EndInv /\ [Next]_vars => EndInv'
  BY EndStep
<1> QED
  BY <1>1, <1>2, LoopCorrect, PTL DEF Spec

\* A required skill is never dropped for another of its rank: the loop refuses
\* such a pair, and refuses nothing else (Resolver._resolve_conflict's None).
THEOREM OnlyTiesAreRefused == Spec => []RefusedOnlyTied
<1>1. ASSUME TypeOK, LoopInv, EndInv PROVE RefusedOnlyTied
  <2> DEFINE tied == {p \in Ids \X Ids : /\ Declares(p[1], p[2]) /\ Forced(p[1])
                                        /\ Rank(p[1]) = Rank(p[2])}
  <2>1. ASSUME pc = "error", BasesValid PROVE tied # {}
    <3>1. PICK s \in Ids, t \in Ids : Tied(s, t)
      BY <1>1, <2>1 DEF EndInv
    <3>2. <<s, t>> \in tied
      BY <3>1 DEF Tied
    <3> QED
      BY <3>2
  <2>2. ASSUME pc = "done", NEW s \in Ids, NEW t \in Ids, Declares(s, t), Forced(s),
               Rank(s) = Rank(t)
        PROVE  s \in blocked
    <3> SUFFICES ASSUME s \notin blocked PROVE FALSE
      OBVIOUS
    <3>1. cfg \in Configs /\ s \in InZone /\ t \in InZone
      BY <1>1, <2>2 DEF LoopInv, Declares
    <3>2. s < at
      BY <1>1, <2>2, ResolverAssumption DEF LoopInv, Ids
    <3>3. WonOver(s, Len(cfg.conflicts[s]))
      BY <1>1, <2>2, <3>1, <3>2 DEF LoopInv, EndInv
    <3>4. t \in Range(cfg.conflicts[s])
      BY <2>2 DEF Declares
    <3>5. PICK i \in DOMAIN cfg.conflicts[s] : cfg.conflicts[s][i] = t
      BY <3>4 DEF Range
    <3>6. i <= Len(cfg.conflicts[s])
      BY <2>2, <3>1, <3>5, ConfigIs DEF IsConfig
    <3>7. Winner(s, t) = s
      BY <3>1, <3>3, <3>5, <3>6 DEF WonOver
    <3>8. ~Beats(s, t) /\ ~Beats(t, s)
      BY <2>2, <3>1, SameRank
    <3>9. s # 0
      BY ResolverAssumption DEF Ids
    <3> QED
      BY <2>2, <3>7, <3>8, <3>9 DEF Winner
  <2>3. ASSUME pc = "done", NEW p \in tied PROVE p[1] \in blocked
    <3>1. p[1] \in Ids /\ p[2] \in Ids /\ Declares(p[1], p[2])
      BY <2>3
    <3>2. Forced(p[1]) /\ Rank(p[1]) = Rank(p[2])
      BY <2>3
    <3> QED
      BY <2>2, <2>3, <3>1, <3>2
  <2> QED
    BY <2>1, <2>3 DEF RefusedOnlyTied
<1> QED
  BY <1>1, EndKept, PTL

\* However many skills there are, the bases of a loaded one come to an end
\* (Resolver._validate_bases, find_cycle).
THEOREM ChainsEnd == Spec => []BasesEnd
<1>1. ASSUME TypeInv PROVE BasesEnd
  <2> SUFFICES ASSUME pc = "done", NEW s \in Loaded PROVE Chain(s)[N] \notin Ids
    BY DEF BasesEnd
  <2>1. s \in Ids /\ BasesValid
    BY <1>1 DEF TypeInv, TypeOK, Loaded
  <2> QED
    BY <2>1, ChainEnds DEF BasesValid
<1> QED
  BY <1>1, TypesKept, PTL
=============================================================================
