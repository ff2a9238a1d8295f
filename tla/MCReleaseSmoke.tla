---------------------------- MODULE MCReleaseSmoke ----------------------------
EXTENDS ReleaseSmoke

\* What the surfaces show; the MCP environment and its SBOM, from a checkout
\* that was verified; the default install.
StartedWith ==
  { {"github", "pypi", "ghcr", "signature", "os-sbom", "slsa"},
    {"pypi", "mcp", "sbom-output", "identifiers"},
    {"install", "optional-mcp", "new-user", "lock"} }

Complete == {"version", "sha", "constraints", "constraints-file", "docker", "cosign", "gh"}

Machines == {Complete, Complete \ {"cosign", "sha"}}
=============================================================================
