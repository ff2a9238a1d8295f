----------------------------- MODULE ReleaseSmoke -----------------------------
(***************************************************************************)
(* scripts/post_release_smoke.py: while the publishing workflows still     *)
(* fill GitHub, PyPI and GHCR, the script looks at one surface after the   *)
(* other, installs the package in fresh environments, starts over when a   *)
(* check failed, and reports the checks of its last attempt.               *)
(***************************************************************************)
EXTENDS Naturals, Sequences

CONSTANTS
  Options,    \* the sets of command-line options the script may be started with
  Hosts,      \* what may hold of the machine and of the checkout
  Retries,    \* --retries
  Images,     \* how many images are pushed under the release tag, one after the other
  MaxFaults   \* bound on failures that are not the fault of what is published

ASSUME SmokeAssumption ==
  Retries \in Nat \ {0} /\ Images \in Nat /\ MaxFaults \in Nat

\* collect_checks: the steps in their order, the function they belong to, and
\* the options under which they run.
Plan == <<
  <<"release-source", "source", {}>>,
  <<"github-release", "github", {"github"}>>,
  <<"pypi-release", "pypi", {"pypi"}>>,
  <<"ghcr-manifest", "ghcr", {"ghcr"}>>,
  <<"ghcr-cosign-signature", "ghcr", {"ghcr", "signature"}>>,
  <<"ghcr-os-sbom-attestation", "ghcr", {"ghcr", "os-sbom"}>>,
  <<"slsa-readiness-report", "slsa", {"slsa"}>>,
  <<"pypi-install-venv", "install", {"install"}>>,
  <<"pypi-install", "install", {"install"}>>,
  <<"pypi-cli-version", "install", {"install"}>>,
  <<"pypi-pip-check", "install", {"install"}>>,
  <<"pypi-default-without-mcp", "install", {"install", "optional-mcp"}>>,
  <<"pypi-mcp-extra-hint", "install", {"install", "optional-mcp"}>>,
  <<"new-user-init", "install", {"install", "new-user"}>>,
  <<"new-user-check", "install", {"install", "new-user"}>>,
  <<"new-user-schema-audit", "install", {"install", "new-user"}>>,
  <<"new-user-schema-audit-stable", "install", {"install", "new-user"}>>,
  <<"new-user-build", "install", {"install", "new-user"}>>,
  <<"new-user-doctor", "install", {"install", "new-user"}>>,
  <<"new-user-conformance", "install", {"install", "new-user"}>>,
  <<"new-user-evidence-export", "install", {"install", "new-user"}>>,
  <<"new-user-evidence-schema", "install", {"install", "new-user"}>>,
  <<"pypi-hash-lock-download", "lock", {"lock"}>>,
  <<"pypi-hash-lock-file", "lock", {"lock"}>>,
  <<"pypi-hash-lock-venv", "lock", {"lock"}>>,
  <<"pypi-hash-lock-install", "lock", {"lock"}>>,
  <<"pypi-hash-lock-cli-version", "lock", {"lock"}>>,
  <<"pypi-hash-lock-pip-check", "lock", {"lock"}>>,
  <<"pypi-mcp-constraints", "mcp", {"mcp"}>>,
  <<"pypi-mcp-venv", "mcp", {"mcp"}>>,
  <<"pypi-mcp-install", "mcp", {"mcp"}>>,
  <<"pypi-mcp-pip-check", "mcp", {"mcp"}>>,
  <<"pypi-mcp-init", "mcp", {"mcp"}>>,
  <<"pypi-mcp-protocol", "mcp", {"mcp"}>>,
  <<"pypi-mcp-runtime-versions", "mcp", {"mcp"}>>,
  <<"pypi-mcp-runtime-sbom", "mcp", {"mcp"}>> >>

Steps == DOMAIN Plan
Name(i) == Plan[i][1]
Rest(i) == {j \in Steps : Plan[j][2] = Plan[i][2]}   \* the steps of its function

\* Steps that append no check when they succeed.
Silent == {"pypi-install-venv", "pypi-hash-lock-venv", "pypi-mcp-constraints",
           "pypi-mcp-venv", "pypi-mcp-init"}
\* Steps whose failure makes their function return.
NewUser == {"new-user-init", "new-user-check", "new-user-schema-audit",
            "new-user-schema-audit-stable", "new-user-build", "new-user-doctor",
            "new-user-conformance", "new-user-evidence-export", "new-user-evidence-schema"}
Stopping == (Silent \ {"pypi-mcp-init"}) \cup NewUser
  \cup {"ghcr-manifest", "pypi-install", "pypi-hash-lock-download", "pypi-hash-lock-file",
        "pypi-hash-lock-install", "pypi-mcp-install"}
\* Commands whose TimeoutExpired nobody catches.
Unguarded == {"pypi-mcp-pip-check", "pypi-mcp-init", "pypi-mcp-protocol",
              "pypi-mcp-runtime-versions", "pypi-mcp-runtime-sbom"}
\* Steps that run no command, so that nothing can time out.
Immediate == {"pypi-hash-lock-file", "pypi-mcp-constraints"}

VARIABLES
  options, host,            \* how and where the script was started
  public,                   \* what GitHub and PyPI show of the release
  tag, whole, signed, attested,  \* GHCR: the image the tag names; images with all
                            \* platforms; with a signature; with an OS SBOM attestation
  phase,                    \* "collect", "done" or "crashed"
  attempt, todo,            \* the attempt, and the steps it still has to do
  checks,                   \* by step, whether the checks it appended passed
  digest,                   \* the image the attempt resolved, 0 for None
  kept,                     \* the attempt whose SBOM lies at --mcp-sbom-output
  faults, undisturbed       \* faults so far; nothing but the script kept this attempt
                            \* from passing

published == <<public, tag, whole, signed, attested>>
started == <<options, host>>
vars == <<started, published, phase, attempt, todo, checks, digest, kept, faults, undisturbed>>

Nothing == [i \in {} |-> TRUE]
Wanted(opts) == {i \in Steps : Plan[i][3] \subseteq opts}
AllOk == \A i \in DOMAIN checks : checks[i]
Passed == phase = "done" /\ AllOk
Requested(name) == \E i \in Wanted(options) : Name(i) = name

Everything == {"release", "wheel", "sdist", "latest"}
SourceOk ==
  "version" \in host /\ ("identifiers" \in options => {"sha", "constraints"} \subseteq host)

\* Everything the options ask for is there.
Ready ==
  /\ SourceOk /\ public = Everything
  /\ "ghcr" \in options => "docker" \in host /\ tag \in whole
  /\ Requested("ghcr-cosign-signature") => "cosign" \in host /\ tag \in signed
  /\ Requested("ghcr-os-sbom-attestation") => "gh" \in host /\ tag \in attested
  /\ Requested("slsa-readiness-report") => "ghcr" \in options
  /\ Requested("pypi-mcp-constraints") => "constraints-file" \in host

Init ==
  /\ options \in Options /\ host \in Hosts
  /\ public = {} /\ tag = 0 /\ whole = {} /\ signed = {} /\ attested = {}
  /\ phase = "collect" /\ attempt = 1 /\ todo = Wanted(options)
  /\ checks = Nothing /\ digest = 0 /\ kept = 0
  /\ faults = 0 /\ undisturbed = FALSE

---------------------------------------------------------------------------
(* The publishing workflows *)

Publish ==
  /\ \E x \in Everything : public' = public \cup {x}
  /\ UNCHANGED <<started, tag, whole, signed, attested, phase, attempt, todo, checks, digest,
                 kept, faults, undisturbed>>

\* A first push, or the workflow run again: the tag moves.
PushImage ==
  /\ tag < Images
  /\ tag' = tag + 1
  /\ whole' \in {whole, whole \cup {tag'}}
  /\ undisturbed' = FALSE
  /\ UNCHANGED <<started, public, signed, attested, phase, attempt, todo, checks, digest, kept,
                 faults>>

\* By digest, after the push.
Sign ==
  /\ \E d \in 1 .. tag : signed' = signed \cup {d}
  /\ UNCHANGED <<started, public, tag, whole, attested, phase, attempt, todo, checks, digest,
                 kept, faults, undisturbed>>

Attest ==
  /\ \E d \in 1 .. tag : attested' = attested \cup {d}
  /\ UNCHANGED <<started, public, tag, whole, signed, phase, attempt, todo, checks, digest,
                 kept, faults, undisturbed>>

---------------------------------------------------------------------------
(* One attempt: collect_checks *)

\* Step i is the next one.
Doing(i) == phase = "collect" /\ i \in todo /\ \A j \in todo : i <= j

Record(i, ok) ==
  checks' = [j \in DOMAIN checks \cup {i} |->
               IF j = i THEN ok /\ (i \in DOMAIN checks => checks[i]) ELSE checks[j]]

Fault == faults < MaxFaults /\ faults' = faults + 1 /\ undisturbed' = FALSE
NoFault == UNCHANGED <<faults, undisturbed>>

Goes(i) == todo' = todo \ {i}
Returns(i) == todo' = todo \ Rest(i)

\* An exception that the script does not handle.
Dies ==
  /\ Fault
  /\ phase' = "crashed"
  /\ UNCHANGED <<todo, checks, digest, kept>>

CheckSource ==
  /\ \E i \in todo : Doing(i) /\ Name(i) = "release-source" /\ Record(i, SourceOk) /\ Goes(i)
  /\ NoFault
  /\ UNCHANGED <<started, published, phase, attempt, digest, kept>>

\* github_release_check and pypi_release_check: what the API says, an error
\* that is caught, or one that is not.
FetchJson ==
  /\ UNCHANGED <<started, published, attempt, digest, kept>>
  /\ \E i \in todo :
       /\ Doing(i)
       /\ LET needs == IF Name(i) = "github-release" THEN {"release"}
                       ELSE {"wheel", "sdist", "latest"}
          IN  /\ Name(i) \in {"github-release", "pypi-release"}
              /\ \/ NoFault /\ Record(i, needs \subseteq public) /\ Goes(i) /\ UNCHANGED phase
                 \/ Fault /\ Record(i, FALSE) /\ Goes(i) /\ UNCHANGED phase
                 \/ Dies

\* ghcr_manifest_check: the platforms that the output lists, and the attestation.
ManifestOk == tag \in whole

\* imagetools inspect resolves the tag; its output may hold no digest.
Inspect ==
  /\ UNCHANGED <<started, published, phase, attempt, kept>>
  /\ \E i \in todo :
       /\ Doing(i) /\ Name(i) = "ghcr-manifest"
       /\ \/ /\ NoFault /\ "docker" \in host /\ tag > 0
             /\ digest' = tag /\ Record(i, ManifestOk) /\ Goes(i)
          \/ /\ Fault /\ "docker" \in host /\ tag > 0
             /\ Record(i, FALSE) /\ Goes(i) /\ UNCHANGED digest
          \/ /\ IF "docker" \in host /\ tag > 0 THEN Fault ELSE NoFault
             /\ Record(i, FALSE) /\ Returns(i) /\ UNCHANGED digest

\* Mutant: the checks of the digest ask for the tag.
SubjectByTag == tag

\* ghcr_signature_check and ghcr_os_sbom_attestation_check ask for image@digest.
Subject == digest

Verify ==
  /\ UNCHANGED <<started, published, phase, attempt, digest, kept>>
  /\ \E i \in todo, asked \in {<<"ghcr-cosign-signature", "cosign", signed>>,
                               <<"ghcr-os-sbom-attestation", "gh", attested>>} :
       /\ Doing(i) /\ Name(i) = asked[1] /\ Goes(i)
       /\ LET ok == digest # 0 /\ asked[2] \in host /\ Subject \in asked[3]
          IN  \/ NoFault /\ Record(i, ok)
              \/ Fault /\ ok /\ Record(i, FALSE)

CheckReadiness ==
  /\ UNCHANGED <<started, published, phase, attempt, digest, kept>>
  /\ \E i \in todo :
       /\ Doing(i) /\ Name(i) = "slsa-readiness-report" /\ Goes(i)
       /\ \/ NoFault /\ Record(i, digest # 0)
          \/ Fault /\ digest # 0 /\ Record(i, FALSE)

\* What a command can find out: the three that ask PyPI for the release, and the
\* constraints file.
Available(i) ==
  /\ Name(i) = "pypi-hash-lock-download" => "wheel" \in public
  /\ Name(i) \in {"pypi-install", "pypi-mcp-install"} => public \cap {"wheel", "sdist"} # {}
  /\ Name(i) = "pypi-mcp-constraints" => "constraints-file" \in host

\* Mutant: an SBOM that is there already is not replaced.
KeepFirst(i) ==
  kept' = IF Name(i) = "pypi-mcp-runtime-sbom" /\ "sbom-output" \in options /\ kept = 0
          THEN attempt ELSE kept

\* The SBOM of the MCP environment is copied out as soon as it is good.
Keep(i) ==
  kept' = IF Name(i) = "pypi-mcp-runtime-sbom" /\ "sbom-output" \in options THEN attempt
          ELSE kept

Succeeds(i) ==
  /\ Available(i) /\ NoFault
  /\ IF Name(i) \in Silent THEN UNCHANGED checks ELSE Record(i, TRUE)
  /\ Goes(i) /\ Keep(i)
  /\ UNCHANGED phase

\* Mutant: a function that cannot set up its environment returns no checks.
FailsQuietly(i) ==
  /\ IF Available(i) THEN Fault ELSE NoFault
  /\ IF Name(i) \in Silent THEN UNCHANGED checks ELSE Record(i, FALSE)
  /\ IF Name(i) \in Stopping THEN Returns(i) ELSE Goes(i)
  /\ UNCHANGED <<kept, phase>>

\* A failed `init` is the failure of the protocol check, which is not tried.
Fails(i) ==
  /\ IF Available(i) THEN Fault ELSE NoFault
  /\ IF Name(i) = "pypi-mcp-init"
     THEN Record(i + 1, FALSE) /\ todo' = todo \ {i, i + 1}
     ELSE Record(i, FALSE) /\ IF Name(i) \in Stopping THEN Returns(i) ELSE Goes(i)
  /\ UNCHANGED <<kept, phase>>

TimesOut(i) ==
  /\ Name(i) \notin Immediate
  /\ IF Name(i) \in Unguarded
     THEN Dies
     ELSE Fault /\ Record(i, FALSE) /\ Returns(i) /\ UNCHANGED <<kept, phase>>

\* pypi_install_smoke, pypi_hash_locked_install_smoke, mcp_runtime_install_smoke.
Install ==
  /\ UNCHANGED <<started, published, attempt, digest>>
  /\ \E i \in todo :
       /\ Doing(i) /\ Plan[i][2] \in {"install", "lock", "mcp"}
       /\ Succeeds(i) \/ Fails(i) \/ TimesOut(i)

---------------------------------------------------------------------------
(* main *)

\* Mutant: the checks of every attempt are collected in one list.
RetryKeeping ==
  /\ phase = "collect" /\ todo = {} /\ ~AllOk /\ attempt < Retries
  /\ attempt' = attempt + 1
  /\ todo' = Wanted(options) /\ digest' = 0
  /\ undisturbed' = Ready
  /\ UNCHANGED <<started, published, phase, checks, kept, faults>>

\* The checks of the failed attempt are dropped, and the digest with them.
Retry ==
  /\ phase = "collect" /\ todo = {} /\ ~AllOk /\ attempt < Retries
  /\ attempt' = attempt + 1
  /\ todo' = Wanted(options) /\ checks' = Nothing /\ digest' = 0
  /\ undisturbed' = Ready
  /\ UNCHANGED <<started, published, phase, kept, faults>>

Report ==
  /\ phase = "collect" /\ todo = {} /\ (AllOk \/ attempt = Retries)
  /\ phase' = "done"
  /\ UNCHANGED <<started, published, attempt, todo, checks, digest, kept, faults, undisturbed>>

Next ==
  \/ Publish \/ PushImage \/ Sign \/ Attest
  \/ CheckSource \/ FetchJson \/ Inspect \/ Verify \/ CheckReadiness \/ Install
  \/ Retry \/ Report

Spec == Init /\ [][Next]_vars

---------------------------------------------------------------------------
(* Properties *)

TypeOK ==
  /\ public \subseteq Everything
  /\ tag \in 0 .. Images /\ digest \in 0 .. Images
  /\ whole \subseteq 1 .. Images /\ signed \subseteq 1 .. Images /\ attested \subseteq 1 .. Images
  /\ phase \in {"collect", "done", "crashed"}
  /\ attempt \in 1 .. Retries /\ kept \in 0 .. Retries
  /\ todo \subseteq Wanted(options)
  /\ DOMAIN checks \subseteq Steps /\ checks \in [DOMAIN checks -> BOOLEAN]
  /\ faults \in 0 .. MaxFaults /\ undisturbed \in BOOLEAN

\* Although the tag may move and the attempt is one of several, a report that
\* passes speaks of one image: the one its attempt resolved has the platforms, the
\* signature and the attestation that were asked for.
OneDigestVerified ==
  Passed =>
    /\ Requested("ghcr-manifest") => digest \in whole
    /\ Requested("ghcr-cosign-signature") => digest \in signed
    /\ Requested("ghcr-os-sbom-attestation") => digest \in attested
    /\ Requested("slsa-readiness-report") => digest # 0

\* A function that returns early never makes a report pass for want of checks: a
\* report that passes has a check of every step its options ask for.
NothingSkipped ==
  Passed => DOMAIN checks = {i \in Wanted(options) : Name(i) \notin Silent}

\* What went wrong in an attempt is forgotten: when everything was published
\* before the last attempt and nothing disturbed it, the report passes.
PassWhenReady == phase = "done" /\ undisturbed => AllOk

\* The SBOM is copied out before the attempt is known to pass, and is uploaded with
\* whatever report there is in the end.  The report tells which attempt it is of:
\* the last one if its own SBOM check passed, and so always if the report passes;
\* otherwise an earlier one, which failed, or none.
KeptWithReport ==
  phase = "done" /\ {"mcp", "sbom-output"} \subseteq options =>
    /\ kept = attempt <=> \E i \in DOMAIN checks : Name(i) = "pypi-mcp-runtime-sbom" /\ checks[i]
    /\ Passed => kept = attempt
=============================================================================
