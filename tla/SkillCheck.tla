------------------------------ MODULE SkillCheck ------------------------------
(***************************************************************************)
(* checker.py and the decision of `check` (cli/check_cmd.py): the          *)
(* diagnostics of one configuration, the trace of the rules, the exit      *)
(* code, and what explainability.py and reviewer.py say of them.           *)
(***************************************************************************)
EXTENDS OrgRegistry

\* The configuration that is checked.
Main == CHOOSE c \in Configs : \A d \in Configs : c <= d
Checked(t) == {k \in DOMAIN t.skills : k[1] = Main}

Severity(rule) == IF rule \in {"SO000", "SO003", "SO011", "SO022"} THEN "error" ELSE "warning"
PackRules == {"SO008", "SO011"}

\* SkillsLock.check, for content hashes.
Drifts(t) == t.lock # [k \in Checked(t) |-> t.skills[k].hash]

\* A conflict that only one side declares.
OneSided(t, k) ==
  \E other \in Checked(t) : other[2] \in t.skills[k].conflicts
                            /\ k[2] \notin t.skills[other].conflicts

\* run_check: a refusal of the parser is the only diagnostic; one of the resolver
\* is among the others, but then the lock is not compared.
Diagnostics(t, opts) ==
  IF Main \in t.unparsed THEN {<<"SO022", Main>>}
  ELSE {d \in {"SO001", "SO008", "SO011"} \X Checked(t) :
          d[1] \in t.skills[d[2]].breaks /\ (d[1] \in PackRules => opts.pack)}
    \cup {d \in {"SO004"} \X Checked(t) : OneSided(t, d[2])}
    \cup {d \in {"SO003"} \X {Main} : Main \in t.tied}
    \cup {d \in {"SO007"} \X {Main} : opts.lock /\ Main \notin t.tied /\ Drifts(t)}

Failed(diags) == {d[1] : d \in diags}
HasError(diags) == \E rule \in Failed(diags) : Severity(rule) = "error"

\* Mutated DiagnosticsAgain: the policy packs are not handed on.
DiagnosticsWithoutPacks(t, opts) == Diagnostics(t, [opts EXCEPT !.pack = FALSE])

\* The check that an evidence export runs for itself.
DiagnosticsAgain(t, opts) == Diagnostics(t, opts)

\* _policy_trace: the rules that did not pass.
Trace(t, opts) == Failed(Diagnostics(t, opts))

\* _should_fail: drift of the lock fails at every threshold but "never".
ShouldFail(diags, opts) ==
  /\ opts.failOn # "never"
  /\ \/ opts.lock /\ "SO007" \in Failed(diags)
     \/ opts.failOn = "warning" /\ diags # {}
     \/ HasError(diags)

\* The status that the reviewer summary and the explanation show; it knows of no
\* threshold.
Status(diags) ==
  IF HasError(diags) THEN "fail" ELSE IF diags # {} THEN "warn" ELSE "pass"
=============================================================================
