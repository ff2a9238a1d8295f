---------------------------- MODULE MCWorkspace ----------------------------
(***************************************************************************)
(* Skill 1 can be imported; 2 and 3 are discovered and share the base 4,   *)
(* which belongs to another zone.                                          *)
(***************************************************************************)
EXTENDS Workspace

SharedBase == [s \in Ids |-> IF s \in {2, 3} THEN 4 ELSE 0]

\* The entry of skill 1 and an override for the base may record hashes; the zone
\* is not declared, free, or one that requires every skill.
WrittenYamls ==
  { [ listed   |-> l,
      pin      |-> [s \in Ids |-> IF s = 1 /\ l # {} THEN 1 ELSE IF s = 4 THEN z.pin ELSE 0],
      required |-> {2, 3},
      rivals   |-> c,
      policy   |-> z.policy ] :
      l \in {{}, {1}}, c \in BOOLEAN,
      z \in [policy : {"free"}, pin : {0, 1}] \cup [policy : {None, "require"}, pin : {0}] }
=============================================================================
