----------------------------- MODULE MCResolver -----------------------------
(***************************************************************************)
(* All configurations of three skills that matter to one question each.    *)
(***************************************************************************)
EXTENDS Resolver, TLC

\* What each skill may declare: nothing, one of the others or both, in each order.
Lists(s) == {<<>>} \cup {<<t>> : t \in Ids \ {s}}
            \cup {l \in (Ids \ {s}) \X (Ids \ {s}) : l[1] # l[2]}
Declared(us) == {d \in [us -> UNION {Lists(s) : s \in us}] : \A s \in us : d[s] \in Lists(s)}

NoBases == [s \in Ids |-> 0]
NoConflicts == [s \in Ids |-> <<>>]
AllHere == [s \in Ids |-> "here"]
Equal == [s \in Ids |-> 1]
AllFree == [s \in Ids |-> "free"]

Zone(policy) == [policy |-> policy, skills |-> {}, allow |-> {}]

\* Only comparisons of priorities matter: all orders of three, with all ties.
Priorities == {q \in [Ids -> 1 .. 3] : \A s \in Ids : \A n \in 1 .. q[s] : \E t \in Ids : q[t] = n}

\* Declared on both sides or on one.
Conflicting ==
  { [policy |-> p, priority |-> q, conflicts |-> d, base |-> NoBases, zones |-> AllHere] :
      p \in [Ids -> {"require", "free"}],
      q \in Priorities,
      d \in Declared(Ids) }

Memberships == [Ids -> {"here", "elsewhere"}] \cup {[s \in Ids |-> "everywhere"]}

Based ==
  { [policy |-> AllFree, priority |-> Equal, conflicts |-> NoConflicts, base |-> b, zones |-> w] :
      b \in [Ids -> Ids \cup {0, Unknown}],
      w \in Memberships }

AllConfigs ==
  { [policy |-> k.policy, priority |-> k.priority, conflicts |-> k.conflicts,
     base |-> k.base, zones |-> k.zones, zone |-> z] :
      k \in Based \cup Conflicting,
      z \in { Zone("none"), Zone("free"), Zone("require"),
              [policy |-> "exclusive", skills |-> {}, allow |-> {1}],
              [policy |-> "exclusive", skills |-> {1}, allow |-> {3}] } }
=============================================================================
