----------------------------- MODULE OrgRegistry -----------------------------
(***************************************************************************)
(* What a review compares: a revision of the repository, the registry that *)
(* org_registry.py builds of its skills.yaml files, and the difference of  *)
(* two registries.                                                         *)
(***************************************************************************)
EXTENDS Naturals, FiniteSets

CONSTANTS
  Configs,  \* skills.yaml files; the first is the one that is checked
  Ids       \* skill ids; two configurations may have the same one

\* registry_key: configuration and id (a skill that moves is another skill).
Keys == Configs \X Ids

\* hash is 0 for a missing file, governance for a skill without an owner; status
\* is the outcome of the resolver; breaks are the rules its metadata violates.
Facts == [ hash      : 0 .. 2,       governance : 0 .. 2,
           status    : {"forced", "passive", "blocked"},
           conflicts : SUBSET Ids,   breaks     : SUBSET {"SO001", "SO008", "SO011"} ]

\* A revision: its skills by key, the configurations that the parser or the
\* resolver refuses, and what skills.lock.json says of the checked one.
IsTree(t) ==
  /\ DOMAIN t.skills \subseteq Keys
  /\ \A k \in DOMAIN t.skills : t.skills[k] \in Facts
  /\ t.unparsed \subseteq Configs /\ t.tied \subseteq Configs

---------------------------------------------------------------------------
(* build_registry *)

ConfigsOf(skills) == {k[1] : k \in DOMAIN skills}

\* One refusal, or no configuration at all, and there is no registry.
HasRegistry(t) == ConfigsOf(t.skills) # {} /\ t.unparsed \cup t.tied = {}

Refs(skills, id) == Cardinality({k \in DOMAIN skills : k[2] = id})
Duplicates(skills) == {id \in Ids : Refs(skills, id) > 1}

---------------------------------------------------------------------------
(* diff_registries *)

Changes(f, g) ==
  {x \in {"content_hash", "governance", "status"} :
     CASE x = "content_hash" -> f.hash # g.hash
       [] x = "governance"   -> f.governance # g.governance
       [] x = "status"       -> f.status # g.status}

\* Mutated Diff: skills are compared id by id.
DiffById(base, head) ==
  LET latest(skills) == {k \in DOMAIN skills : \A c \in Configs : c > k[1] => <<c, k[2]>> \notin DOMAIN skills}
      ids(skills) == {k[2] : k \in DOMAIN skills}
      changed == {k \in latest(head) : \E b \in latest(base) :
                    b[2] = k[2] /\ Changes(base[b], head[k]) # {}}
  IN  [ added      |-> {k \in latest(head) : k[2] \notin ids(base)},
        removed    |-> {k \in latest(base) : k[2] \notin ids(head)},
        changed    |-> [k \in changed |-> {"content_hash"}],
        duplicates |-> {} ]

\* Skills are matched by key; a duplicate is reported when its count changes.
Diff(base, head) ==
  LET old == DOMAIN base
      new == DOMAIN head
      changed == {k \in old \cap new : Changes(base[k], head[k]) # {}}
      count(skills, id) == IF id \in Duplicates(skills) THEN Refs(skills, id) ELSE 1
  IN  [ added      |-> new \ old,
        removed    |-> old \ new,
        changed    |-> [k \in changed |-> Changes(base[k], head[k])],
        duplicates |-> {id \in Ids : count(base, id) # count(head, id)} ]

Listed(diff) == diff.added \cup diff.removed \cup DOMAIN diff.changed
=============================================================================
