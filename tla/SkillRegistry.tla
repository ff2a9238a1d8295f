---------------------------- MODULE SkillRegistry ----------------------------
(***************************************************************************)
(* mcp/registry.py: the index of skills that an MCP server or a sync keeps *)
(* in memory, with the contents it has read.  _load replaces its parts one *)
(* after the other and may raise in between; what it had assigned stays.   *)
(***************************************************************************)
EXTENDS SkillFiles

\* A registry that has loaded nothing: _skills and _all_skills with the pins of
\* their skills, _forced_ids and _content_cache.
Empty(zone) ==
  [ zone |-> zone, skills |-> Nothing, all |-> Nothing, forced |-> {}, cache |-> Nothing ]

\* Mutated Index: a base must be visible itself.
IndexVisible(r) == r.skills

\* _resolve_content looks a skill up among the visible ones, then among all.
Index(r) == Over(r.skills, r.all)

Get(r, fs, s) == Content(Index(r), r.cache, fs, s)

\* Mutated Remember: nothing is kept.
RememberNothing(r, fs, s) == r

Remember(r, fs, s) == [r EXCEPT !.cache = Cached(Index(r), r.cache, fs, s)]

\* get_content: nothing for a skill the zone does not show.
Shown(r, fs, s) == IF s \in DOMAIN r.skills THEN Get(r, fs, s) ELSE Got(Nothing)

\* The skills S are read, in order, up to the first that raises: the registry
\* after it and whether it came through.
ReadAll(r, fs, S) ==
  LET w[n \in 0 .. N] ==
        IF n = 0 THEN [r |-> r, ok |-> TRUE]
        ELSE LET before == w[n - 1]
             IN  IF n \notin S \/ ~before.ok THEN before
                 ELSE [ r  |-> Remember(before.r, fs, n),
                        ok |-> Get(before.r, fs, n).ok ]
  IN  w[N]

\* _load: the parser may raise before anything is replaced, the resolver, or an
\* unknown zone, after _all_skills is, and the warming after everything is.
Load(r, y, fs) ==
  LET all      == [r EXCEPT !.all = Pins(y, fs)]
      res      == Resolved(y, fs, IF r.zone = None THEN DefaultZone(y) ELSE r.zone)
      visible  == res.forced \cup res.passive
      indexed  == [all EXCEPT !.skills = [s \in visible |-> Pins(y, fs)[s]],
                              !.forced = res.forced,
                              !.cache  = Nothing]
      warm     == ReadAll(indexed, fs, res.forced)  \* required_on_start
  IN  IF ~Parses(y, fs) THEN [r |-> r, ok |-> FALSE]
      ELSE IF r.zone \notin {None} \cup Zones(y) \/ ~res.ok THEN [r |-> all, ok |-> FALSE]
      ELSE warm

\* Mutated Reload: only a load that succeeds drops the cache.
ReloadKeeping(r, y, fs) == Load(r, y, fs)

\* reload: the cache is cleared first.
Reload(r, y, fs) == Load([r EXCEPT !.cache = Nothing], y, fs)
=============================================================================
