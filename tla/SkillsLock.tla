----------------------------- MODULE SkillsLock -----------------------------
(***************************************************************************)
(* compiler/lock.py: skills.lock.json and the comparison with it.          *)
(* Priorities and ids never change here, so an entry is its content hash   *)
(* and its two policies.                                                   *)
(***************************************************************************)
EXTENDS SkillFiles

NoLock == [zone |-> "absent", entries |-> [s \in {} |-> 0]]

\* LockEntry: loaded and blocked skills alike, each with the hash of its own
\* file ("" for a missing one).
Entry(y, fs, zone, s) ==
  [ hash      |-> fs[s],
    source    |-> IF s \in y.required THEN "require" ELSE "free",
    effective |-> Effective(y, zone, s) ]

\* All skills of a ResolvedConfig.
Everyone(res) == res.forced \cup res.passive \cup res.blocked

\* SkillsLock.generate: y and res are what the command parsed, fs are the files
\* at the time of the call.
Generate(y, res, zone, fs) ==
  [ zone    |-> IF zone = None THEN "default" ELSE zone,
    entries |-> [s \in Everyone(res) |-> Entry(y, fs, zone, s)] ]

\* Mutated Drift: skills that are gone are not reported.
DriftOfCurrent(lock, y, res, zone, fs) ==
  {s \in Everyone(res) : s \notin DOMAIN lock.entries \/ lock.entries[s] # Entry(y, fs, zone, s)}

\* SkillsLock.check: the skills it reports, N + 1 for the zone.
Drift(lock, y, res, zone, fs) ==
  LET now == Generate(y, res, zone, fs)
      old == DOMAIN lock.entries
      new == DOMAIN now.entries
  IN  (old \ new) \cup (new \ old)
      \cup {s \in old \cap new : lock.entries[s] # now.entries[s]}
      \cup {n \in {N + 1} : lock.zone # now.zone}
=============================================================================
