--------------------------- MODULE MCSkillServer ---------------------------
(***************************************************************************)
(* Skills 1 and 2 share the base 3, which belongs to another zone.         *)
(***************************************************************************)
EXTENDS SkillServer

SharedBase == [s \in Ids |-> IF s = 3 THEN 0 ELSE 3]

\* Pins come from overrides; with the entry of 2 skills.yaml does not parse, and
\* with two required rivals it is not resolved.  The zone may not be declared.
WrittenYamls ==
  { [ listed   |-> l,
      pin      |-> [s \in Ids |-> IF s = 1 THEN p ELSE IF s = 3 THEN z.pin ELSE 0],
      required |-> r,
      rivals   |-> {1, 2} \subseteq r,
      policy   |-> z.policy ] :
      l \in {{}, {2}}, p \in {0, 1}, r \in {{}, {1}, {1, 2}},
      z \in [policy : {"free"}, pin : {0, 1}] \cup [policy : {None}, pin : {0}] }
=============================================================================
