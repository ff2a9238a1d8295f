------------------------- MODULE ReleaseSmoke_proofs -------------------------
(***************************************************************************)
(* The report of the smoke script: what a report that passes says about    *)
(* the images, the options and the SBOM, for every set of options, every   *)
(* machine, any number of attempts, images and faults.                     *)
(***************************************************************************)
EXTENDS ReleaseSmoke, TLAPS

---------------------------------------------------------------------------
(* The plan *)

LEMMA PlanSteps == Steps = 1 .. 36
  BY DEF Steps, Plan

LEMMA PlanManifest ==
  ASSUME NEW i \in Steps
  PROVE  Name(i) = "ghcr-manifest" <=> i = 4
  BY PlanSteps DEF Name, Plan

LEMMA PlanSignature ==
  ASSUME NEW i \in Steps
  PROVE  Name(i) = "ghcr-cosign-signature" <=> i = 5
  BY PlanSteps DEF Name, Plan

LEMMA PlanOsSbom ==
  ASSUME NEW i \in Steps
  PROVE  Name(i) = "ghcr-os-sbom-attestation" <=> i = 6
  BY PlanSteps DEF Name, Plan

LEMMA PlanReadiness ==
  ASSUME NEW i \in Steps
  PROVE  Name(i) = "slsa-readiness-report" <=> i = 7
  BY PlanSteps DEF Name, Plan

LEMMA PlanInit ==
  ASSUME NEW i \in Steps
  PROVE  Name(i) = "pypi-mcp-init" <=> i = 33
  BY PlanSteps DEF Name, Plan

LEMMA PlanSbom ==
  ASSUME NEW i \in Steps
  PROVE  Name(i) = "pypi-mcp-runtime-sbom" <=> i = 36
  BY PlanSteps DEF Name, Plan

\* The options that the steps of GHCR and the last steps of the MCP environment need.
LEMMA PlanOptions ==
  /\ Plan[4][3] = {"ghcr"}
  /\ Plan[5][3] = {"ghcr", "signature"}
  /\ Plan[6][3] = {"ghcr", "os-sbom"}
  /\ Plan[33][3] = {"mcp"} /\ Plan[34][3] = {"mcp"} /\ Plan[36][3] = {"mcp"}
  BY DEF Plan

LEMMA PlanProtocol == Name(34) \notin Silent
  BY DEF Name, Plan, Silent

---------------------------------------------------------------------------
(* The inductive invariant *)

\* Every step of the attempt is still to do, has its check, succeeded in silence,
\* or was cut off by a failure.
Covered ==
  \A i \in Wanted(options) :
    i \in todo \/ i \in DOMAIN checks \/ Name(i) \in Silent \/ ~AllOk

\* A check belongs to a step that was asked for, and a silent step has one only
\* if it failed.
Honest ==
  \A i \in DOMAIN checks : i \in Wanted(options) /\ (Name(i) \in Silent => ~checks[i])

\* The steps are taken in their order.
Ordered == \A i \in todo, j \in DOMAIN checks : j < i

\* What a check that passed says of the image that the attempt resolved, and of
\* the SBOM that was kept.
About ==
  \A i \in DOMAIN checks :
    checks[i] =>
      /\ i = 4 => digest \in whole
      /\ i = 5 => digest \in signed
      /\ i = 6 => digest \in attested
      /\ i = 7 => digest # 0
      /\ i = 36 /\ "sbom-output" \in options => kept = attempt

\* The SBOM is no newer than the attempt, and of this attempt only if its check passed.
Kept == kept <= attempt /\ (kept = attempt => 36 \in DOMAIN checks /\ checks[36])

\* An attempt that was undisturbed so far found everything.
Smooth ==
  undisturbed =>
    /\ Ready /\ AllOk
    /\ 4 \in Wanted(options) /\ 4 \notin todo => digest = tag

Over == phase = "done" => todo = {}

IInv == TypeOK /\ Covered /\ Honest /\ Ordered /\ About /\ Kept /\ Smooth /\ Over

\* The step that is done next has no check yet, so that Record adds one.
LEMMA RecordAdds ==
  ASSUME IInv, NEW i \in Steps, NEW ok \in BOOLEAN, i \notin DOMAIN checks, Record(i, ok)
  PROVE  /\ DOMAIN checks' = DOMAIN checks \cup {i}
         /\ checks' \in [DOMAIN checks' -> BOOLEAN] /\ DOMAIN checks' \subseteq Steps
         /\ checks'[i] = ok
         /\ \A j \in DOMAIN checks : checks'[j] = checks[j]
         /\ ~ok \/ ~AllOk => ~AllOk'
         /\ ok /\ AllOk => AllOk'
  BY DEF IInv, TypeOK, Record, AllOk

LEMMA DoingIs ==
  ASSUME IInv, NEW i \in todo, Doing(i)
  PROVE  /\ i \in Steps /\ i \in 1 .. 36 /\ i \in Wanted(options) /\ Plan[i][3] \subseteq options
         /\ i \notin DOMAIN checks
         /\ \A j \in todo : i <= j
         /\ phase = "collect"
<1>1. i \in Wanted(options) /\ i \in Steps /\ Plan[i][3] \subseteq options
  BY DEF IInv, TypeOK, Wanted
<1>2. i \in 1 .. 36
  BY <1>1, PlanSteps
<1>3. i \notin DOMAIN checks
  BY <1>2 DEF IInv, Ordered
<1> QED
  BY <1>1, <1>2, <1>3 DEF Doing

\* A step that appends its check and goes on, or fails and returns.
LEMMA Settled ==
  ASSUME IInv, NEW i \in todo, Doing(i), NEW ok \in BOOLEAN, Record(i, ok),
         options' = options,
         todo' \subseteq todo \ {i},
         ok => todo' = todo \ {i} /\ Name(i) \notin Silent
  PROVE  Covered' /\ Honest' /\ Ordered' /\ todo' \subseteq Wanted(options')
<1>1. /\ i \in Wanted(options) /\ i \in 1 .. 36 /\ i \in Steps
      /\ i \notin DOMAIN checks /\ \A j \in todo : i <= j
  BY DoingIs
<1>2. /\ DOMAIN checks' = DOMAIN checks \cup {i} /\ checks'[i] = ok
      /\ \A j \in DOMAIN checks : checks'[j] = checks[j]
      /\ ~ok \/ ~AllOk => ~AllOk'
  BY <1>1, RecordAdds
<1>3. Wanted(options') = Wanted(options) /\ Wanted(options) \subseteq 1 .. 36
  BY PlanSteps DEF Wanted
<1>4. todo \subseteq Wanted(options) /\ DOMAIN checks \subseteq 1 .. 36
  BY PlanSteps DEF IInv, TypeOK
<1>5. Covered'
  <2>1. CASE ok
    <3> SUFFICES ASSUME NEW j \in Wanted(options), ~(j \in todo'), ~(j \in DOMAIN checks'),
                        ~(Name(j) \in Silent)
                 PROVE  ~AllOk'
      BY <1>3 DEF Covered
    <3>1. j # i /\ j \notin todo /\ j \notin DOMAIN checks
      BY <1>2, <2>1
    <3>2. ~AllOk
      BY <3>1 DEF IInv, Covered
    <3> QED
      BY <3>2, <1>2
  <2>2. CASE ~ok
    BY <2>2, <1>2 DEF Covered
  <2> QED
    BY <2>1, <2>2
<1>6. Honest'
  <2> SUFFICES ASSUME NEW j \in DOMAIN checks'
               PROVE  j \in Wanted(options) /\ (Name(j) \in Silent => ~checks'[j])
    BY <1>3 DEF Honest
  <2>1. CASE j = i
    BY <2>1, <1>1, <1>2
  <2>2. CASE j # i
    BY <2>2, <1>2 DEF IInv, Honest
  <2> QED
    BY <2>1, <2>2
<1>7. Ordered'
  <2> SUFFICES ASSUME NEW k \in todo', NEW j \in DOMAIN checks'
               PROVE  j < k
    BY DEF Ordered
  <2>1. k \in todo /\ k # i /\ i <= k /\ k \in 1 .. 36
    BY <1>1, <1>3, <1>4
  <2>2. CASE j = i
    BY <2>1, <2>2, <1>1
  <2>3. CASE j # i
    BY <2>1, <2>3, <1>2 DEF IInv, Ordered
  <2> QED
    BY <2>2, <2>3
<1>8. todo' \subseteq Wanted(options')
  BY <1>3, <1>4
<1> QED
  BY <1>5, <1>6, <1>7, <1>8

\* Everything a step that appends one check does to the state.
Appends(i, ok) ==
  /\ Doing(i) /\ Record(i, ok)
  /\ UNCHANGED <<started, published, phase, attempt>>
  /\ todo' \subseteq todo \ {i}
  /\ ok => todo' = todo \ {i} /\ Name(i) \notin Silent
  /\ i # 4 \/ ~ok => digest' = digest
  /\ IF i = 36 /\ ok THEN kept' \in {kept, attempt} ELSE kept' = kept
  /\ digest' \in 0 .. Images /\ kept' \in 0 .. Retries
  /\ faults' \in 0 .. MaxFaults /\ undisturbed' \in BOOLEAN
  /\ undisturbed' => undisturbed /\ ok
  /\ ok => /\ i = 4 => digest' = tag /\ digest' \in whole
           /\ i = 5 => digest \in signed
           /\ i = 6 => digest \in attested
           /\ i = 7 => digest # 0
           /\ i = 36 /\ "sbom-output" \in options => kept' = attempt

LEMMA AppendKeeps ==
  ASSUME IInv, NEW i \in todo, NEW ok \in BOOLEAN, Appends(i, ok)
  PROVE  IInv'
<1>1. Doing(i) /\ Record(i, ok)
  BY DEF Appends
<1>2. /\ i \in Wanted(options) /\ i \in 1 .. 36 /\ i \in Steps
      /\ i \notin DOMAIN checks /\ \A j \in todo : i <= j /\ phase = "collect"
  BY <1>1, DoingIs
<1>3. /\ DOMAIN checks' = DOMAIN checks \cup {i} /\ checks'[i] = ok
      /\ checks' \in [DOMAIN checks' -> BOOLEAN] /\ DOMAIN checks' \subseteq Steps
      /\ \A j \in DOMAIN checks : checks'[j] = checks[j] /\ j < i
      /\ ok /\ AllOk => AllOk'
  BY <1>1, <1>2, RecordAdds DEF IInv, Ordered
<1>4. Covered' /\ Honest' /\ Ordered' /\ todo' \subseteq Wanted(options')
  BY <1>1, Settled DEF Appends, started
<1>5. TypeOK'
  BY <1>3, <1>4 DEF IInv, TypeOK, Appends, started, published
<1>6. About'
  <2> SUFFICES ASSUME NEW j \in DOMAIN checks', checks'[j]
               PROVE  /\ j = 4 => digest' \in whole'
                      /\ j = 5 => digest' \in signed'
                      /\ j = 6 => digest' \in attested'
                      /\ j = 7 => digest' # 0
                      /\ j = 36 /\ "sbom-output" \in options' => kept' = attempt'
    BY DEF About
  <2>1. /\ options' = options /\ whole' = whole /\ signed' = signed
        /\ attested' = attested /\ attempt' = attempt
    BY DEF Appends, started, published
  <2>2. CASE j = i
    BY <2>1, <2>2, <1>3 DEF Appends
  <2>3. CASE j # i
    <3>1. j \in DOMAIN checks /\ checks[j] /\ j < i
      BY <2>3, <1>3
    <3>2. j \in Steps /\ j \in 1 .. 36
      BY <3>1, PlanSteps DEF IInv, TypeOK
    <3>3. j \in {4, 5, 6, 7} => digest' = digest
      BY <3>1, <3>2, <1>2 DEF Appends
    <3>4. j = 36 => kept' = kept
      BY <3>1, <1>2 DEF Appends
    <3> QED
      BY <2>1, <3>1, <3>3, <3>4 DEF IInv, About
  <2> QED
    BY <2>2, <2>3
<1>7. Smooth'
  <2> SUFFICES ASSUME undisturbed'
               PROVE  Ready' /\ AllOk' /\ (4 \in Wanted(options') /\ 4 \notin todo' => digest' = tag')
    BY DEF Smooth
  <2>1. undisturbed /\ ok /\ options' = options /\ host' = host /\ public' = public /\ tag' = tag
        /\ whole' = whole /\ signed' = signed /\ attested' = attested
    BY DEF Appends, started, published
  <2>2. Ready /\ AllOk /\ (4 \in Wanted(options) /\ 4 \notin todo => digest = tag)
    BY <2>1 DEF IInv, Smooth
  <2>3. Ready'
    BY <2>1, <2>2 DEF Ready, SourceOk, Requested, Wanted
  <2>4. AllOk'
    BY <2>1, <2>2, <1>3
  <2>5. 4 \in Wanted(options') /\ 4 \notin todo' => digest' = tag'
    <3>1. todo' = todo \ {i}
      BY <2>1 DEF Appends
    <3>2. Wanted(options') = Wanted(options)
      BY <2>1 DEF Wanted
    <3> QED
      BY <3>1, <3>2, <2>1, <2>2 DEF Appends
  <2> QED
    BY <2>3, <2>4, <2>5
<1>8. Over'
  BY <1>2 DEF Over, Appends
<1>9. Kept'
  <2>1. attempt' = attempt /\ attempt \in Nat /\ kept \in Nat
    BY SmokeAssumption DEF Appends, IInv, TypeOK
  <2>2. CASE i = 36 /\ ok
    BY <2>1, <2>2, <1>3 DEF Appends, IInv, Kept
  <2>3. CASE ~(i = 36 /\ ok)
    BY <2>1, <2>3, <1>3 DEF Appends, IInv, Kept
  <2> QED
    BY <2>2, <2>3
<1> QED
  BY <1>4, <1>5, <1>6, <1>7, <1>8, <1>9 DEF IInv

LEMMA FaultTypes ==
  ASSUME IInv, Fault
  PROVE  faults' \in 0 .. MaxFaults /\ undisturbed' = FALSE
<1>1. faults \in 0 .. MaxFaults /\ MaxFaults \in Nat
  BY SmokeAssumption DEF IInv, TypeOK
<1>2. faults < MaxFaults /\ faults' = faults + 1 /\ undisturbed' = FALSE
  BY DEF Fault
<1> QED
  BY <1>1, <1>2

\* A step that leaves no check, or ends the script.
LEMMA QuietKeeps ==
  ASSUME IInv, NEW i \in todo, Doing(i),
         UNCHANGED <<started, published, attempt, checks, digest, kept>>,
         todo' = todo \ {i} \/ todo' = todo,
         \/ phase' = phase /\ UNCHANGED <<faults, undisturbed>>
            /\ todo' = todo \ {i} /\ Name(i) \in Silent
         \/ phase' = "crashed" /\ todo' = todo /\ Fault
  PROVE  IInv'
<1>1. i \in Steps /\ phase = "collect"
  BY DoingIs
<1>2. Wanted(options') = Wanted(options) /\ AllOk' = AllOk
  BY DEF Wanted, started, AllOk
<1>3. TypeOK'
  <2>1. faults' \in 0 .. MaxFaults /\ undisturbed' \in BOOLEAN
    <3>1. CASE Fault
      BY <3>1, FaultTypes
    <3>2. CASE UNCHANGED <<faults, undisturbed>>
      BY <3>2 DEF IInv, TypeOK
    <3> QED
      BY <3>1, <3>2
  <2> QED
    BY <2>1, <1>1, <1>2 DEF IInv, TypeOK, started, published
<1>4. Covered'
  BY <1>2 DEF IInv, Covered
<1>5. Honest' /\ Ordered' /\ About' /\ Kept'
  BY <1>2 DEF IInv, Honest, Ordered, About, Kept, started, published
<1>6. Smooth'
  <2>1. CASE phase' = "crashed" /\ Fault
    BY <2>1 DEF Smooth, Fault
  <2>2. CASE UNCHANGED <<faults, undisturbed>> /\ todo' = todo \ {i} /\ Name(i) \in Silent
    <3>1. i # 4
      BY <2>2, <1>1, PlanManifest DEF Silent
    <3>2. Ready' = Ready
      BY DEF Ready, SourceOk, Requested, Wanted, started, published
    <3> QED
      BY <3>1, <3>2, <2>2, <1>2 DEF IInv, Smooth, published
  <2> QED
    BY <2>1, <2>2
<1>7. Over'
  BY <1>1 DEF Over
<1> QED
  BY <1>3, <1>4, <1>5, <1>6, <1>7 DEF IInv

---------------------------------------------------------------------------
(* The steps *)

LEMMA InitInv ==
  ASSUME Init
  PROVE  IInv
<1>1. TypeOK
  <2>1. DOMAIN checks = {} /\ checks \in [DOMAIN checks -> BOOLEAN]
    BY DEF Init, Nothing
  <2>2. Retries \in Nat \ {0} /\ Images \in Nat /\ MaxFaults \in Nat
    BY SmokeAssumption
  <2>3. /\ tag \in 0 .. Images /\ digest \in 0 .. Images
        /\ attempt \in 1 .. Retries /\ kept \in 0 .. Retries /\ faults \in 0 .. MaxFaults
    BY <2>2 DEF Init
  <2>4. /\ public \subseteq Everything /\ whole \subseteq 1 .. Images
        /\ signed \subseteq 1 .. Images /\ attested \subseteq 1 .. Images
        /\ todo \subseteq Wanted(options) /\ DOMAIN checks \subseteq Steps
    BY <2>1 DEF Init
  <2> QED
    BY <2>1, <2>3, <2>4 DEF Init, TypeOK
<1>2. Covered /\ Honest /\ Ordered /\ About /\ Kept /\ Smooth /\ Over
  BY DEF Init, Covered, Honest, Ordered, About, Kept, Smooth, Over, Nothing
<1> QED
  BY <1>1, <1>2 DEF IInv

\* What is published only grows, apart from the tag.
LEMMA WorldKeeps ==
  ASSUME IInv, Publish \/ PushImage \/ Sign \/ Attest
  PROVE  IInv'
<1>1. /\ UNCHANGED <<started, phase, attempt, todo, checks, digest, kept, faults>>
      /\ public \subseteq public' /\ public' \subseteq Everything
      /\ whole \subseteq whole' /\ signed \subseteq signed' /\ attested \subseteq attested'
      /\ tag' \in 0 .. Images
      /\ whole' \subseteq 1 .. Images /\ signed' \subseteq 1 .. Images /\ attested' \subseteq 1 .. Images
      /\ undisturbed' = FALSE \/ (undisturbed' = undisturbed /\ tag' = tag /\ whole' = whole)
  <2>1. /\ tag \in 0 .. Images /\ Images \in Nat /\ public \subseteq Everything
        /\ whole \subseteq 1 .. Images /\ signed \subseteq 1 .. Images /\ attested \subseteq 1 .. Images
    BY SmokeAssumption DEF IInv, TypeOK
  <2>2. CASE Publish
    BY <2>1, <2>2 DEF Publish
  <2>3. CASE PushImage
    BY <2>1, <2>3 DEF PushImage
  <2>4. CASE Sign
    BY <2>1, <2>4 DEF Sign
  <2>5. CASE Attest
    BY <2>1, <2>5 DEF Attest
  <2> QED
    BY <2>2, <2>3, <2>4, <2>5
<1>2. Wanted(options') = Wanted(options) /\ AllOk' = AllOk
  BY <1>1 DEF Wanted, started, AllOk
<1>3. TypeOK'
  BY <1>1, <1>2 DEF IInv, TypeOK, started
<1>4. Covered' /\ Honest' /\ Ordered' /\ Kept' /\ Over'
  BY <1>1, <1>2 DEF IInv, Covered, Honest, Ordered, Kept, Over
<1>5. About'
  BY <1>1 DEF IInv, About, started
<1>6. Smooth'
  <2> SUFFICES ASSUME undisturbed'
               PROVE  Ready' /\ AllOk' /\ (4 \in Wanted(options') /\ 4 \notin todo' => digest' = tag')
    BY DEF Smooth
  <2>1. undisturbed /\ tag' = tag /\ whole' = whole /\ options' = options /\ host' = host
    BY <1>1 DEF started
  <2>2. Ready /\ AllOk /\ (4 \in Wanted(options) /\ 4 \notin todo => digest = tag)
    BY <2>1 DEF IInv, Smooth
  <2>3. public' = Everything
    BY <1>1, <2>2 DEF Ready
  <2>4. Ready'
    BY <1>1, <2>1, <2>2, <2>3 DEF Ready, SourceOk, Requested, Wanted
  <2> QED
    BY <1>1, <1>2, <2>1, <2>2, <2>4
<1> QED
  BY <1>3, <1>4, <1>5, <1>6 DEF IInv

\* A step that appends a failed check, whether it goes on or returns.
LEMMA FailedCheck ==
  ASSUME IInv, NEW i \in todo, Doing(i), Record(i, FALSE),
         UNCHANGED <<started, published, phase, attempt, digest, kept>>,
         Goes(i) \/ Returns(i),
         Fault \/ (NoFault /\ ~undisturbed)
  PROVE  IInv'
<1>1. faults' \in 0 .. MaxFaults /\ undisturbed' \in BOOLEAN /\ ~undisturbed'
  <2>1. CASE Fault
    BY <2>1, FaultTypes
  <2>2. CASE NoFault /\ ~undisturbed
    BY <2>2 DEF IInv, TypeOK, NoFault
  <2> QED
    BY <2>1, <2>2
<1>2. i \in Steps
  BY DoingIs
<1>3. todo' \subseteq todo \ {i}
  BY <1>2 DEF Goes, Returns, Rest
<1>4. digest' \in 0 .. Images /\ kept' \in 0 .. Retries
  BY DEF IInv, TypeOK
<1>5. Appends(i, FALSE)
  BY <1>1, <1>3, <1>4 DEF Appends
<1> QED
  BY <1>5, AppendKeeps

\* A step of the attempt that only looks, and goes on with what it found.
LEMMA Looked ==
  ASSUME IInv, NEW i \in todo, Doing(i), NEW ok \in BOOLEAN, Record(i, ok),
         UNCHANGED <<started, published, phase, attempt, digest, kept>>,
         Goes(i), NoFault, i \notin {4, 36}, Name(i) \notin Silent,
         undisturbed => ok,
         ok => /\ i = 5 => digest \in signed
               /\ i = 6 => digest \in attested
               /\ i = 7 => digest # 0
  PROVE  IInv'
<1>1. digest' \in 0 .. Images /\ kept' \in 0 .. Retries /\ faults' \in 0 .. MaxFaults
      /\ undisturbed' \in BOOLEAN
  BY DEF IInv, TypeOK, NoFault
<1>2. Appends(i, ok)
  BY <1>1 DEF Appends, Goes, NoFault
<1> QED
  BY <1>2, AppendKeeps

LEMMA DiesKeeps ==
  ASSUME IInv, NEW i \in todo, Doing(i), Dies, UNCHANGED <<started, published, attempt>>
  PROVE  IInv'
  BY QuietKeeps DEF Dies

LEMMA CheckSourceKeeps ==
  ASSUME IInv, CheckSource
  PROVE  IInv'
<1>1. PICK i \in todo :
        Doing(i) /\ Name(i) = "release-source" /\ Record(i, SourceOk) /\ Goes(i)
  BY DEF CheckSource
<1>2. i \in Steps
  BY <1>1, DoingIs
<1>3. i \notin {4, 5, 6, 7, 36} /\ Name(i) \notin Silent
  BY <1>1, <1>2, PlanManifest, PlanSignature, PlanOsSbom, PlanReadiness, PlanSbom DEF Silent
<1>4. undisturbed => SourceOk
  BY DEF IInv, Smooth, Ready
<1>5. SourceOk \in BOOLEAN
  BY DEF SourceOk
<1> QED
  BY <1>1, <1>3, <1>4, <1>5, Looked DEF CheckSource

LEMMA FetchJsonKeeps ==
  ASSUME IInv, FetchJson
  PROVE  IInv'
<1> DEFINE needs(i) == IF Name(i) = "github-release" THEN {"release"}
                       ELSE {"wheel", "sdist", "latest"}
<1>1. PICK i \in todo :
        /\ Doing(i) /\ Name(i) \in {"github-release", "pypi-release"}
        /\ \/ NoFault /\ Record(i, needs(i) \subseteq public) /\ Goes(i) /\ UNCHANGED phase
           \/ Fault /\ Record(i, FALSE) /\ Goes(i) /\ UNCHANGED phase
           \/ Dies
  BY DEF FetchJson
<1>2. i \in Steps
  BY <1>1, DoingIs
<1>3. i \notin {4, 5, 6, 7, 36} /\ Name(i) \notin Silent
  BY <1>1, <1>2, PlanManifest, PlanSignature, PlanOsSbom, PlanReadiness, PlanSbom DEF Silent
<1>4. undisturbed => needs(i) \subseteq public
  BY DEF IInv, Smooth, Ready, Everything
<1>5. (needs(i) \subseteq public) \in BOOLEAN
  OBVIOUS
<1>6. UNCHANGED <<started, published, attempt, digest, kept>>
  BY DEF FetchJson
<1> HIDE DEF needs
<1>7. CASE NoFault /\ Record(i, needs(i) \subseteq public) /\ Goes(i) /\ UNCHANGED phase
  BY <1>1, <1>3, <1>4, <1>5, <1>6, <1>7, Looked
<1>8. CASE Fault /\ Record(i, FALSE) /\ Goes(i) /\ UNCHANGED phase
  BY <1>1, <1>6, <1>8, FailedCheck
<1>9. CASE Dies
  BY <1>1, <1>6, <1>9, DiesKeeps
<1> QED
  BY <1>1, <1>7, <1>8, <1>9

LEMMA InspectKeeps ==
  ASSUME IInv, Inspect
  PROVE  IInv'
<1>1. PICK i \in todo :
        /\ Doing(i) /\ Name(i) = "ghcr-manifest"
        /\ \/ /\ NoFault /\ "docker" \in host /\ tag > 0
              /\ digest' = tag /\ Record(i, tag \in whole) /\ Goes(i)
           \/ /\ Fault /\ "docker" \in host /\ tag > 0
              /\ Record(i, FALSE) /\ Goes(i) /\ UNCHANGED digest
           \/ /\ IF "docker" \in host /\ tag > 0 THEN Fault ELSE NoFault
              /\ Record(i, FALSE) /\ Returns(i) /\ UNCHANGED digest
  BY DEF Inspect, ManifestOk
<1>2. i \in Steps /\ i = 4 /\ Plan[i][3] \subseteq options /\ Name(i) \notin Silent
  BY <1>1, DoingIs, PlanManifest DEF Silent
<1>3. "ghcr" \in options
  BY <1>2, PlanOptions
<1>4. UNCHANGED <<started, published, phase, attempt, kept>>
  BY DEF Inspect, ManifestOk
<1>5. undisturbed => "docker" \in host /\ tag \in whole /\ tag > 0
  BY <1>3, SmokeAssumption DEF IInv, TypeOK, Smooth, Ready
<1>6. CASE /\ NoFault /\ "docker" \in host /\ tag > 0
           /\ digest' = tag /\ Record(i, tag \in whole) /\ Goes(i)
  <2> DEFINE ok == tag \in whole
  <2>1. ok \in BOOLEAN
    OBVIOUS
  <2>2. /\ digest' \in 0 .. Images /\ kept' \in 0 .. Retries /\ faults' \in 0 .. MaxFaults
        /\ undisturbed' \in BOOLEAN
    BY <1>4, <1>6 DEF IInv, TypeOK, NoFault
  <2>3. CASE ok
    <3>1. Record(i, TRUE)
      BY <1>6, <2>3 DEF Record
    <3>2. /\ todo' = todo \ {4} /\ kept' = kept /\ undisturbed' = undisturbed
          /\ digest' = tag /\ digest' \in whole
      BY <1>2, <1>4, <1>6, <2>3 DEF Goes, NoFault
    <3>3. Doing(i) /\ Name(i) \notin Silent /\ UNCHANGED <<started, published, phase, attempt>>
      BY <1>1, <1>2, <1>4
    <3>4. undisturbed' => undisturbed
      BY <3>2
    <3>5. i # 5 /\ i # 6 /\ i # 7 /\ i # 36
      BY <1>2
    <3>6. todo' = todo \ {i}
      BY <1>2, <3>2
    <3>7. Appends(i, TRUE)
      BY <2>2, <3>1, <3>2, <3>3, <3>4, <3>5, <3>6 DEF Appends
    <3> QED
      BY <3>7, AppendKeeps
  <2>4. CASE ~ok
    \* The attempt resolved the digest of an image that lacks a platform: nothing
    \* else is said of an image yet.
    <3>1. Record(i, FALSE)
      BY <1>6, <2>4 DEF Record
    <3>2. todo' = todo \ {i} /\ ~undisturbed'
      BY <1>5, <1>6, <2>4 DEF Goes, NoFault
    <3>3. \A j \in DOMAIN checks : j < 4
      BY <1>1, <1>2 DEF IInv, Ordered
    <3>4. Covered' /\ Honest' /\ Ordered' /\ todo' \subseteq Wanted(options')
      BY <1>1, <1>4, <3>1, <3>2, Settled DEF started
    <3>5. /\ DOMAIN checks' = DOMAIN checks \cup {i} /\ checks'[i] = FALSE
          /\ checks' \in [DOMAIN checks' -> BOOLEAN] /\ DOMAIN checks' \subseteq Steps
      BY <1>1, <1>2, <3>1, RecordAdds, DoingIs
    <3>6. TypeOK'
      BY <1>4, <2>2, <3>4, <3>5 DEF IInv, TypeOK, started, published
    <3>7. About'
      BY <1>2, <3>3, <3>5 DEF About
    <3>8. Smooth' /\ Over'
      BY <1>1, <1>4, <3>2 DEF Smooth, Over, Doing
    <3>9. Kept'
      BY <1>4, <3>3 DEF IInv, Kept
    <3> QED
      BY <3>4, <3>6, <3>7, <3>8, <3>9 DEF IInv
  <2> QED
    BY <2>3, <2>4
<1>7. CASE /\ Fault /\ "docker" \in host /\ tag > 0
           /\ Record(i, FALSE) /\ Goes(i) /\ UNCHANGED digest
  BY <1>1, <1>4, <1>7, FailedCheck
<1>8. CASE /\ IF "docker" \in host /\ tag > 0 THEN Fault ELSE NoFault
           /\ Record(i, FALSE) /\ Returns(i) /\ UNCHANGED digest
  <2>1. Fault \/ (NoFault /\ ~undisturbed)
    BY <1>5, <1>8
  <2> QED
    BY <1>1, <1>4, <1>8, <2>1, FailedCheck
<1> QED
  BY <1>1, <1>6, <1>7, <1>8

LEMMA VerifyKeeps ==
  ASSUME IInv, Verify
  PROVE  IInv'
<1>1. PICK i \in todo, asked \in {<<"ghcr-cosign-signature", "cosign", signed>>,
                                <<"ghcr-os-sbom-attestation", "gh", attested>>} :
        /\ Doing(i) /\ Name(i) = asked[1] /\ Goes(i)
        /\ LET ok == digest # 0 /\ asked[2] \in host /\ Subject \in asked[3]
           IN  \/ NoFault /\ Record(i, ok)
               \/ Fault /\ ok /\ Record(i, FALSE)
  BY DEF Verify
<1> DEFINE ok == digest # 0 /\ asked[2] \in host /\ Subject \in asked[3]
<1>2. /\ i \in Steps /\ i \in 1 .. 36 /\ Plan[i][3] \subseteq options /\ i \in Wanted(options)
      /\ \A j \in todo : i <= j
  BY <1>1, DoingIs
<1>3. \/ i = 5 /\ asked = <<"ghcr-cosign-signature", "cosign", signed>>
      \/ i = 6 /\ asked = <<"ghcr-os-sbom-attestation", "gh", attested>>
  BY <1>1, <1>2, PlanSignature, PlanOsSbom
<1>4. "ghcr" \in options /\ 4 \notin todo /\ 4 \in Wanted(options)
  <2>1. "ghcr" \in options
    BY <1>2, <1>3, PlanOptions
  <2>2. 4 \notin todo
    BY <1>2, <1>3
  <2>3. 4 \in Steps
    BY PlanSteps
  <2> QED
    BY <2>1, <2>2, <2>3, PlanOptions DEF Wanted
<1>5. undisturbed => ok
  <2> SUFFICES ASSUME undisturbed
               PROVE  ok
    OBVIOUS
  <2>1. Ready /\ digest = tag
    BY <1>4 DEF IInv, Smooth
  <2>2. digest # 0
    BY <1>4, <2>1 DEF IInv, TypeOK, Ready
  <2>3. CASE i = 5
    <3>1. Requested("ghcr-cosign-signature")
      BY <1>1, <1>2, <1>3, <2>3 DEF Requested
    <3> QED
      BY <1>3, <2>1, <2>2, <2>3, <3>1 DEF Ready, Subject
  <2>4. CASE i = 6
    <3>1. Requested("ghcr-os-sbom-attestation")
      BY <1>1, <1>2, <1>3, <2>4 DEF Requested
    <3> QED
      BY <1>3, <2>1, <2>2, <2>4, <3>1 DEF Ready, Subject
  <2> QED
    BY <1>3, <2>3, <2>4
<1>6. ok \in BOOLEAN /\ Name(i) \notin Silent
  BY <1>1, <1>3 DEF Silent
<1>7. ok => (i = 5 => digest \in signed) /\ (i = 6 => digest \in attested)
  BY <1>3 DEF Subject
<1>8. UNCHANGED <<started, published, phase, attempt, digest, kept>>
  BY DEF Verify
<1>9. i \notin {4, 7, 36}
  BY <1>3
<1>10. (NoFault /\ Record(i, ok)) \/ (Fault /\ Record(i, FALSE))
  BY <1>1
<1> HIDE DEF ok
<1>11. CASE NoFault /\ Record(i, ok)
  BY <1>1, <1>5, <1>6, <1>7, <1>8, <1>9, <1>11, Looked
<1>12. CASE Fault /\ Record(i, FALSE)
  BY <1>1, <1>8, <1>12, FailedCheck
<1> QED
  BY <1>10, <1>11, <1>12

LEMMA CheckReadinessKeeps ==
  ASSUME IInv, CheckReadiness
  PROVE  IInv'
<1>1. PICK i \in todo :
        /\ Doing(i) /\ Name(i) = "slsa-readiness-report" /\ Goes(i)
        /\ (NoFault /\ Record(i, digest # 0)) \/ (Fault /\ Record(i, FALSE))
  BY DEF CheckReadiness
<1>2. /\ i \in Steps /\ i = 7 /\ i \in Wanted(options) /\ Name(i) \notin Silent
      /\ \A j \in todo : i <= j
  BY <1>1, DoingIs, PlanReadiness DEF Silent
<1>3. undisturbed => digest # 0
  <2> SUFFICES ASSUME undisturbed
               PROVE  digest # 0
    OBVIOUS
  <2>1. Ready
    BY DEF IInv, Smooth
  <2>2. "ghcr" \in options /\ tag \in whole
    BY <1>1, <1>2, <2>1 DEF Ready, Requested
  <2>3. 4 \in Wanted(options) /\ 4 \notin todo
    BY <1>2, <2>2, PlanSteps, PlanOptions DEF Wanted
  <2>4. digest = tag
    BY <2>3 DEF IInv, Smooth
  <2> QED
    BY <2>2, <2>4 DEF IInv, TypeOK
<1>4. UNCHANGED <<started, published, phase, attempt, digest, kept>>
  BY DEF CheckReadiness
<1>5. CASE NoFault /\ Record(i, digest # 0)
  <2> DEFINE ok == digest # 0
  <2>1. /\ Record(i, ok) /\ ok \in BOOLEAN /\ i \notin {4, 5, 6, 36} /\ (undisturbed => ok)
        /\ ok => digest # 0
    BY <1>2, <1>3, <1>5
  <2> HIDE DEF ok
  <2> QED
    BY <1>1, <1>2, <1>4, <1>5, <2>1, Looked
<1>6. CASE Fault /\ Record(i, FALSE)
  BY <1>1, <1>4, <1>6, FailedCheck
<1> QED
  BY <1>1, <1>5, <1>6

LEMMA InstallKeeps ==
  ASSUME IInv, Install
  PROVE  IInv'
<1>1. PICK i \in todo :
        /\ Doing(i) /\ Plan[i][2] \in {"install", "lock", "mcp"}
        /\ Succeeds(i) \/ Fails(i) \/ TimesOut(i)
  BY DEF Install
<1>2. /\ i \in Steps /\ i \in 1 .. 36 /\ i \in Wanted(options) /\ i \notin DOMAIN checks
      /\ \A j \in todo : i <= j /\ phase = "collect"
  BY <1>1, DoingIs
<1>3. i \notin {4, 5, 6, 7}
  BY <1>1, <1>2 DEF Plan
<1>4. UNCHANGED <<started, published, attempt, digest>>
  BY DEF Install
<1>5. undisturbed => Available(i)
  <2> SUFFICES ASSUME undisturbed
               PROVE  Available(i)
    OBVIOUS
  <2>1. Ready
    BY DEF IInv, Smooth
  <2>2. Name(i) = "pypi-mcp-constraints" => Requested("pypi-mcp-constraints")
    BY <1>2 DEF Requested
  <2> QED
    BY <2>1, <2>2 DEF Ready, Available, Everything
<1>6. CASE Succeeds(i)
  <2>1. CASE Name(i) \in Silent
    <3>1. i # 36
      BY <1>2, <2>1, PlanSbom DEF Silent
    <3>2. kept' = kept
      BY <1>2, <1>6, <3>1, PlanSbom DEF Succeeds, Keep
    <3> QED
      BY <1>1, <1>4, <1>6, <2>1, <3>2, QuietKeeps DEF Succeeds, Goes, NoFault
  <2>2. CASE Name(i) \notin Silent
    <3>1. Record(i, TRUE) /\ Keep(i) /\ todo' = todo \ {i} /\ NoFault /\ UNCHANGED phase
      BY <1>6, <2>2 DEF Succeeds, Goes
    <3>2. /\ IF i = 36 THEN kept' \in {kept, attempt} ELSE kept' = kept
          /\ i = 36 /\ "sbom-output" \in options => kept' = attempt
          /\ kept' \in 0 .. Retries
      BY <1>2, <3>1, PlanSbom, SmokeAssumption DEF Keep, IInv, TypeOK
    <3>3. digest' \in 0 .. Images /\ faults' \in 0 .. MaxFaults /\ undisturbed' \in BOOLEAN
      BY <1>4, <3>1 DEF IInv, TypeOK, NoFault
    <3>4. Appends(i, TRUE)
      BY <1>1, <1>3, <1>4, <2>2, <3>1, <3>2, <3>3 DEF Appends, NoFault
    <3> QED
      BY <3>4, AppendKeeps
  <2> QED
    BY <2>1, <2>2
<1>7. CASE Fails(i)
  <2>1. Fault \/ (NoFault /\ ~undisturbed)
    BY <1>5, <1>7 DEF Fails
  <2>2. CASE Name(i) # "pypi-mcp-init"
    BY <1>1, <1>4, <1>7, <2>1, <2>2, FailedCheck DEF Fails
  <2>3. CASE Name(i) = "pypi-mcp-init"
    <3>1. i = 33 /\ Record(34, FALSE) /\ todo' = todo \ {33, 34} /\ UNCHANGED <<kept, phase>>
      <4>1. i = 33 /\ i + 1 = 34
        BY <1>2, <2>3, PlanInit
      <4>2. Record(i + 1, FALSE) /\ todo' = todo \ {i, i + 1} /\ UNCHANGED <<kept, phase>>
        BY <1>7, <2>3 DEF Fails
      <4> QED
        BY <4>1, <4>2
    <3>2. 34 \in Steps /\ 34 \in Wanted(options) /\ 34 \notin DOMAIN checks
      <4>1. 34 \in Steps /\ 34 \in Wanted(options)
        BY <1>2, <3>1, PlanSteps, PlanOptions DEF Wanted
      <4>2. \A j \in DOMAIN checks : j < 33
        BY <1>1, <3>1 DEF IInv, Ordered
      <4> QED
        BY <4>1, <4>2
    <3>3. /\ DOMAIN checks' = DOMAIN checks \cup {34} /\ checks'[34] = FALSE
          /\ checks' \in [DOMAIN checks' -> BOOLEAN] /\ DOMAIN checks' \subseteq Steps
          /\ \A j \in DOMAIN checks : checks'[j] = checks[j]
          /\ ~AllOk'
      BY <3>1, <3>2, RecordAdds
    <3>4. faults' \in 0 .. MaxFaults /\ undisturbed' \in BOOLEAN /\ ~undisturbed'
      <4>1. CASE Fault
        BY <4>1, FaultTypes
      <4>2. CASE NoFault /\ ~undisturbed
        BY <4>2 DEF IInv, TypeOK, NoFault
      <4> QED
        BY <2>1, <4>1, <4>2
    <3>5. Wanted(options') = Wanted(options)
      BY <1>4 DEF Wanted, started
    <3>6. TypeOK'
      BY <1>4, <3>1, <3>3, <3>4, <3>5 DEF IInv, TypeOK, started, published
    <3>7. Covered' /\ Smooth' /\ Over'
      BY <1>2, <3>1, <3>3, <3>4 DEF Covered, Smooth, Over
    <3>8. Honest'
      BY <3>2, <3>3, <3>5 DEF IInv, Honest
    <3>9. Ordered'
      <4> SUFFICES ASSUME NEW k \in todo', NEW j \in DOMAIN checks'
                   PROVE  j < k
        BY DEF Ordered
      <4>1. k \in todo /\ k > 34
        <5>1. k \in todo /\ k # 33 /\ k # 34 /\ 33 <= k
          BY <1>2, <3>1
        <5>2. k \in 1 .. 36
          BY <5>1, PlanSteps DEF IInv, TypeOK, Wanted
        <5> QED
          BY <5>1, <5>2
      <4>2. CASE j = 34
        BY <4>1, <4>2
      <4>3. CASE j # 34
        BY <4>1, <4>3, <3>3 DEF IInv, Ordered
      <4> QED
        BY <4>2, <4>3
    <3>10. About'
      BY <1>4, <3>1, <3>3 DEF IInv, About, started, published
    <3>11. Kept'
      BY <1>4, <3>1, <3>3 DEF IInv, Kept
    <3> QED
      BY <3>6, <3>7, <3>8, <3>9, <3>10, <3>11 DEF IInv
  <2> QED
    BY <2>2, <2>3
<1>8. CASE TimesOut(i)
  <2>1. CASE Dies
    BY <1>1, <1>4, <2>1, DiesKeeps
  <2>2. CASE Fault /\ Record(i, FALSE) /\ Returns(i) /\ UNCHANGED <<kept, phase>>
    BY <1>1, <1>4, <2>2, FailedCheck
  <2> QED
    BY <1>8, <2>1, <2>2 DEF TimesOut
<1> QED
  BY <1>1, <1>6, <1>7, <1>8

LEMMA RetryKeeps ==
  ASSUME IInv, Retry
  PROVE  IInv'
<1>1. /\ phase = "collect" /\ attempt < Retries /\ attempt' = attempt + 1
      /\ todo' = Wanted(options) /\ checks' = Nothing /\ digest' = 0
      /\ undisturbed' = Ready
      /\ UNCHANGED <<started, published, phase, kept, faults>>
  BY DEF Retry
<1>2. DOMAIN checks' = {} /\ checks' \in [DOMAIN checks' -> BOOLEAN]
  BY <1>1 DEF Nothing
<1>3. Wanted(options') = Wanted(options) /\ Ready' = Ready
  BY <1>1 DEF Wanted, Ready, SourceOk, Requested, started, published
<1>4. TypeOK'
  <2>1. attempt' \in 1 .. Retries /\ digest' \in 0 .. Images /\ undisturbed' \in BOOLEAN
    BY <1>1, SmokeAssumption DEF IInv, TypeOK, Ready
  <2> QED
    BY <1>1, <1>2, <1>3, <2>1 DEF IInv, TypeOK, started, published
<1>5. Covered' /\ Honest' /\ Ordered' /\ About'
  BY <1>1, <1>2, <1>3 DEF Covered, Honest, Ordered, About
<1>6. Smooth' /\ Over'
  BY <1>1, <1>2, <1>3 DEF Smooth, Over, AllOk
<1>7. Kept'
  <2>1. kept <= attempt /\ kept \in Nat /\ attempt \in Nat
    BY SmokeAssumption DEF IInv, TypeOK, Kept
  <2> QED
    BY <1>1, <2>1 DEF Kept
<1> QED
  BY <1>4, <1>5, <1>6, <1>7 DEF IInv

LEMMA ReportKeeps ==
  ASSUME IInv, Report
  PROVE  IInv'
<1>1. /\ todo = {} /\ phase' = "done"
      /\ UNCHANGED <<started, published, attempt, todo, checks, digest, kept, faults, undisturbed>>
  BY DEF Report
<1>2. Wanted(options') = Wanted(options) /\ Ready' = Ready /\ AllOk' = AllOk
  BY <1>1 DEF Wanted, Ready, SourceOk, Requested, AllOk, started, published
<1>3. TypeOK'
  BY <1>1, <1>2 DEF IInv, TypeOK, started, published
<1>4. Covered' /\ Honest' /\ Ordered' /\ About' /\ Kept'
  BY <1>1, <1>2 DEF IInv, Covered, Honest, Ordered, About, Kept, started, published
<1>5. Smooth' /\ Over'
  BY <1>1, <1>2 DEF IInv, Smooth, Over, started, published
<1> QED
  BY <1>3, <1>4, <1>5 DEF IInv

LEMMA StutterKeeps ==
  ASSUME IInv, UNCHANGED vars
  PROVE  IInv'
<1>1. /\ UNCHANGED <<options, host, public, tag, whole, signed, attested>>
      /\ UNCHANGED <<phase, attempt, todo, checks, digest, kept, faults, undisturbed>>
  BY DEF vars, started, published
<1>2. Wanted(options') = Wanted(options) /\ Ready' = Ready /\ AllOk' = AllOk
  BY <1>1 DEF Wanted, Ready, SourceOk, Requested, AllOk
<1>3. TypeOK'
  BY <1>1, <1>2 DEF IInv, TypeOK
<1> QED
  BY <1>1, <1>2, <1>3 DEF IInv, Covered, Honest, Ordered, About, Kept, Smooth, Over

THEOREM Inductive == Spec => []IInv
<1>1. IInv /\ [Next]_vars => IInv'
  <2> SUFFICES ASSUME IInv, [Next]_vars
               PROVE  IInv'
    OBVIOUS
  <2>1. CASE Publish \/ PushImage \/ Sign \/ Attest
    BY <2>1, WorldKeeps
  <2>2. CASE CheckSource
    BY <2>2, CheckSourceKeeps
  <2>3. CASE FetchJson
    BY <2>3, FetchJsonKeeps
  <2>4. CASE Inspect
    BY <2>4, InspectKeeps
  <2>5. CASE Verify
    BY <2>5, VerifyKeeps
  <2>6. CASE CheckReadiness
    BY <2>6, CheckReadinessKeeps
  <2>7. CASE Install
    BY <2>7, InstallKeeps
  <2>8. CASE Retry
    BY <2>8, RetryKeeps
  <2>9. CASE Report
    BY <2>9, ReportKeeps
  <2>10. CASE UNCHANGED vars
    BY <2>10, StutterKeeps
  <2> QED
    BY <2>1, <2>2, <2>3, <2>4, <2>5, <2>6, <2>7, <2>8, <2>9, <2>10 DEF Next
<1> QED
  BY <1>1, InitInv, PTL DEF Spec

---------------------------------------------------------------------------
(* The theorems *)

\* What the script keeps in memory has its types, and the digest it resolved is
\* one that was pushed.
THEOREM Types == Spec => []TypeOK
<1>1. IInv => TypeOK
  BY DEF IInv
<1> QED
  BY <1>1, Inductive, PTL

\* A report that passes has a check of everything it was asked for: every early
\* return leaves a check that failed.
THEOREM Complete == Spec => []NothingSkipped
<1>1. IInv => NothingSkipped
  <2> SUFFICES ASSUME IInv, Passed
               PROVE  DOMAIN checks = {i \in Wanted(options) : Name(i) \notin Silent}
    BY DEF NothingSkipped
  <2>1. todo = {} /\ AllOk
    BY DEF IInv, Over, Passed
  <2>2. ASSUME NEW i \in DOMAIN checks
        PROVE  i \in Wanted(options) /\ Name(i) \notin Silent
    BY <2>1 DEF IInv, Honest, AllOk
  <2>3. ASSUME NEW i \in Wanted(options), Name(i) \notin Silent
        PROVE  i \in DOMAIN checks
    BY <2>1, <2>3 DEF IInv, Covered
  <2> QED
    BY <2>2, <2>3
<1> QED
  BY <1>1, Inductive, PTL

\* A step that has a check in a report that passes, asked for by its name.
LEMMA RequestedIs ==
  ASSUME NEW i \in Steps, NEW name, Requested(name),
         \A j \in Steps : Name(j) = name => j = i, name \notin Silent,
         NothingSkipped, Passed
  PROVE  i \in DOMAIN checks /\ checks[i]
<1>1. PICK j \in Wanted(options) : Name(j) = name
  BY DEF Requested
<1>2. j = i
  BY <1>1 DEF Wanted
<1> QED
  BY <1>1, <1>2 DEF NothingSkipped, Passed, AllOk

\* A report that passes speaks of one image.
THEOREM OneImage == Spec => []OneDigestVerified
<1>1. IInv /\ NothingSkipped => OneDigestVerified
  <2> SUFFICES ASSUME IInv, NothingSkipped, Passed
               PROVE  /\ Requested("ghcr-manifest") => digest \in whole
                      /\ Requested("ghcr-cosign-signature") => digest \in signed
                      /\ Requested("ghcr-os-sbom-attestation") => digest \in attested
                      /\ Requested("slsa-readiness-report") => digest # 0
    BY DEF OneDigestVerified
  <2>1. {4, 5, 6, 7} \subseteq Steps
    BY PlanSteps
  <2>2. ASSUME Requested("ghcr-manifest") PROVE 4 \in DOMAIN checks /\ checks[4]
    BY <2>1, <2>2, PlanManifest, RequestedIs DEF Silent
  <2>3. ASSUME Requested("ghcr-cosign-signature") PROVE 5 \in DOMAIN checks /\ checks[5]
    BY <2>1, <2>3, PlanSignature, RequestedIs DEF Silent
  <2>4. ASSUME Requested("ghcr-os-sbom-attestation") PROVE 6 \in DOMAIN checks /\ checks[6]
    BY <2>1, <2>4, PlanOsSbom, RequestedIs DEF Silent
  <2>5. ASSUME Requested("slsa-readiness-report") PROVE 7 \in DOMAIN checks /\ checks[7]
    BY <2>1, <2>5, PlanReadiness, RequestedIs DEF Silent
  <2> QED
    BY <2>2, <2>3, <2>4, <2>5 DEF IInv, About
<1> QED
  BY <1>1, Inductive, Complete, PTL

\* Nothing of a failed attempt hinders a later one.
THEOREM Forgets == Spec => []PassWhenReady
<1>1. IInv => PassWhenReady
  BY DEF IInv, Smooth, PassWhenReady
<1> QED
  BY <1>1, Inductive, PTL

\* The SBOM beside a report is of the attempt the report is about if and only if
\* the report says that its SBOM passed, and so if the report passes.
THEOREM KeptIsReported == Spec => []KeptWithReport
<1>1. IInv /\ NothingSkipped => KeptWithReport
  <2> DEFINE told == \E i \in DOMAIN checks : Name(i) = "pypi-mcp-runtime-sbom" /\ checks[i]
  <2> SUFFICES ASSUME IInv, NothingSkipped, phase = "done",
                      {"mcp", "sbom-output"} \subseteq options
               PROVE  (kept = attempt <=> told) /\ (Passed => kept = attempt)
    BY DEF KeptWithReport
  <2>1. 36 \in Steps /\ 36 \in Wanted(options) /\ Name(36) = "pypi-mcp-runtime-sbom"
    BY PlanSteps, PlanOptions, PlanSbom DEF Wanted
  <2>2. told <=> 36 \in DOMAIN checks /\ checks[36]
    <3>1. ASSUME NEW i \in DOMAIN checks, Name(i) = "pypi-mcp-runtime-sbom" PROVE i = 36
      BY <3>1, PlanSbom DEF IInv, TypeOK
    <3> QED
      BY <2>1, <3>1
  <2>3. kept = attempt <=> 36 \in DOMAIN checks /\ checks[36]
    BY DEF IInv, About, Kept
  <2>4. Passed => 36 \in DOMAIN checks /\ checks[36]
    BY <2>1 DEF NothingSkipped, Silent, Passed, AllOk
  <2> QED
    BY <2>2, <2>3, <2>4
<1> QED
  BY <1>1, Inductive, Complete, PTL
=============================================================================
