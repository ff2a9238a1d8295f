------------------------- MODULE MCPipelineService -------------------------
(***************************************************************************)
(* Small pipelines and inputs for model-checking PipelineService.          *)
(***************************************************************************)
EXTENDS PipelineAudit, SequencesExt

CONSTANTS c1, c2

Nothing == [k \in {} |-> "absent"]
CallerSymmetry == Permutations(Callers)

\* One step.
OneNext == <<0>>
OneFail == <<0>>
OneRequires == <<{"report"}>>
OneChecked == {1}
OneMax == <<0>>
OneSkip == <<{}>>

\* Two steps in a row that need the same artifact; the first may fail twice.
TwoNext == <<2, 0>>
TwoFail == <<0, 0>>
TwoRequires == <<{"report"}, {"report"}>>
TwoChecked == {1, 2}
TwoMax == <<2, 0>>
TwoSkip == <<{}, {}>>

\* The first gate has a failure branch to the second step.
BranchNext == <<0, 0>>
BranchFail == <<2, 0>>

\* Two steps with a command around one without, which can be skipped and
\* whose failure branches to the last.
MixedNext == <<2, 3, 0>>
MixedFail == <<0, 3, 0>>
MixedRequires == <<{"report"}, {"report"}, {"report"}>>
MixedChecked == {1, 3}
MixedMax == <<0, 0, 1>>
MixedSkip == <<{}, {"skip"}, {}>>

\* Two steps in a row, the second with a command.
BypassNext == <<2, 0>>
BypassChecked == {2}

\* _auto_skip as the code runs it: one turn of its loop for the step s, and
\* one pass over the steps in order, since edges lead upwards.
SkipTurn(r, s) ==
  IF r.step # s \/ ~Skips(r, s) THEN r
  ELSE LET left == [r EXCEPT !.skipped = @ \cup {s}]
       IN  IF NextOf[s] = 0 THEN Finish(left) ELSE MoveTo(left, NextOf[s])

\* AutoSkip computes what the loop computes.
ASSUME SkipLoopAssumption ==
  \A s \in Steps, ctx \in Contexts :
    LET r == MoveTo([NoRun EXCEPT !.ctx = ctx], s)
    IN  AutoSkip(r) = FoldLeft(SkipTurn, r, [t \in Steps |-> t])

ReportInputs == {Nothing, "report" :> "artifact", "report" :> "flag"}
ArtifactInputs == {Nothing, "report" :> "artifact"}
SkipInputs == ArtifactInputs \cup {"skip" :> "flag"}
=============================================================================
