---------------------------- MODULE MCReviewAction ----------------------------
EXTENDS ReviewAction

Good == [hash |-> 1, governance |-> 1, status |-> "passive", conflicts |-> {}, breaks |-> {}]

\* Id "a" in both configurations; the lock is of the first.
Base1 ==
  [ skills |-> [k \in {<<1, "a">>, <<2, "a">>} |-> Good],
    unparsed |-> {}, tied |-> {}, lock |-> [k \in {<<1, "a">>} |-> 1] ]
\* Meanwhile somebody has merged a skill "b".
Base2 ==
  [ Base1 EXCEPT !.skills = [k \in {<<1, "a">>, <<2, "a">>, <<1, "b">>} |-> Good],
                 !.lock   = [k \in {<<1, "a">>, <<1, "b">>} |-> 1] ]

Trees == {Base1, Base2}

NoPatch == [set |-> [k \in {} |-> Good], drop |-> {}, unparsed |-> {}, tied |-> {}, relock |-> TRUE]

\* A change of one of the two "a"; a skill without owner and with a bad lifecycle
\* in place of the other one; a change without a lock; a conflict nobody resolves.
Pull ==
  { [NoPatch EXCEPT !.set = [k \in {<<1, "a">>} |-> [Good EXCEPT !.hash = 2]]],
    [NoPatch EXCEPT !.set  = [k \in {<<1, "b">>} |->
                                [Good EXCEPT !.governance = 0, !.breaks = {"SO008", "SO011"}]],
                    !.drop = {<<2, "a">>}],
    [NoPatch EXCEPT !.set = [k \in {<<1, "a">>} |-> [Good EXCEPT !.hash = 0, !.conflicts = {"b"}]],
                    !.relock = FALSE],
    [NoPatch EXCEPT !.tied = {1}] }

Configured ==
  { [summary |-> FALSE, lock |-> FALSE, pack |-> FALSE, failOn |-> "error"],
    [summary |-> TRUE, lock |-> TRUE, pack |-> TRUE, failOn |-> "error"],
    [summary |-> TRUE, lock |-> FALSE, pack |-> TRUE, failOn |-> "warning"] }
=============================================================================
