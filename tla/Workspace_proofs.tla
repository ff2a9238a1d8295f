-------------------------- MODULE Workspace_proofs --------------------------
(***************************************************************************)
(* The commands of the compiler in one directory, for any number of        *)
(* skills and versions, any bases and hashes, and any edits and commands.  *)
(***************************************************************************)
EXTENDS Workspace, TLAPS

---------------------------------------------------------------------------
(* What SkillServer_proofs has proved of the readings of a registry        *)

\* Nothing of the server's state is used.
S == INSTANCE SkillServer_proofs WITH reg <- work.reg, seen <- files, prep <- work

LEMMA SameAssumptions == S!FilesAssumption /\ S!ServerAssumption /\ S!Ids = Ids
BY FilesAssumption, WorkspaceAssumption
DEF S!FilesAssumption, S!ServerAssumption, S!Ids, Ids, S!Yaml, Yaml, S!None, None

LEMMA AlongBases ==
  ASSUME NEW T, 0 \in T, \A s \in Ids : BaseOf[s] \in T => s \in T
  PROVE  \A s \in 0 .. N : s \in T
BY SameAssumptions, S!AlongBases

LEMMA Upwards ==
  ASSUME NEW n \in Nat, NEW T, 0 \in T, \A k \in 1 .. n : k - 1 \in T => k \in T
  PROVE  \A k \in 0 .. n : k \in T
BY SameAssumptions, S!Upwards

\* The operators on contents and registries are the same ones.
LEMMA SameContent ==
  ASSUME NEW pins, NEW cache, NEW fs, NEW s
  PROVE  S!Content(pins, cache, fs, s) = Content(pins, cache, fs, s)
BY DEF S!Content, Content, S!Got, Got, S!Nothing, Nothing, S!Only, Only, S!Over, Over,
       S!Raises, Raises, S!PinHolds, PinHolds

LEMMA SameCached ==
  ASSUME NEW pins, NEW cache, NEW fs, NEW s
  PROVE  S!Cached(pins, cache, fs, s) = Cached(pins, cache, fs, s)
BY DEF S!Cached, Cached, S!Content, Content, S!Got, Got, S!Nothing, Nothing, S!Only, Only,
       S!Over, Over, S!Raises, Raises, S!PinHolds, PinHolds

LEMMA SameIndex ==
  ASSUME NEW r
  PROVE  S!Index(r) = Index(r)
BY DEF S!Index, Index, S!Over, Over

LEMMA SameRegistry ==
  ASSUME NEW r, NEW fs, NEW s
  PROVE  S!Remember(r, fs, s) = Remember(r, fs, s) /\ S!Get(r, fs, s) = Get(r, fs, s)
BY SameContent, SameCached, SameIndex DEF S!Remember, Remember, S!Get, Get

LEMMA SameReadAll ==
  ASSUME NEW r, NEW fs, NEW T
  PROVE  S!ReadAll(r, fs, T) = ReadAll(r, fs, T)
BY DEF S!ReadAll, ReadAll, S!Remember, Remember, S!Get, Get, S!Index, Index, S!Cached, Cached,
       S!Content, Content, S!Got, Got, S!Nothing, Nothing, S!Only, Only, S!Over, Over,
       S!Raises, Raises, S!PinHolds, PinHolds

\* What the recursive functions compute.
Read1(pins, cache, fs, s, x) ==
  IF s \in DOMAIN cache THEN Got(cache[s])
  ELSE IF s \notin DOMAIN pins THEN Got(Nothing)
  ELSE IF fs[s] = 0 THEN Got(Only(s, 0))
  ELSE IF ~PinHolds(pins, fs, s) \/ ~x.ok THEN Raises
  ELSE Got(Over(Only(s, fs[s]), x.parts))

LEMMA ContentIs ==
  ASSUME NEW pins, DOMAIN pins \subseteq Ids, NEW cache, DOMAIN cache \subseteq Ids, NEW fs
  PROVE  /\ Content(pins, cache, fs, 0) = Got(Nothing)
         /\ \A s \in Ids : Content(pins, cache, fs, s) =
                             Read1(pins, cache, fs, s, Content(pins, cache, fs, BaseOf[s]))
<1>1. \A s, x : S!Read1(pins, cache, fs, s, x) = Read1(pins, cache, fs, s, x)
  BY DEF S!Read1, Read1, S!Got, Got, S!Nothing, Nothing, S!Only, Only, S!Over, Over,
         S!Raises, Raises, S!PinHolds, PinHolds
<1>2. S!Got(S!Nothing) = Got(Nothing)
  BY DEF S!Got, Got, S!Nothing, Nothing
<1>3. /\ S!Content(pins, cache, fs, 0) = S!Got(S!Nothing)
      /\ \A s \in Ids : S!Content(pins, cache, fs, s) =
                          S!Read1(pins, cache, fs, s, S!Content(pins, cache, fs, BaseOf[s]))
  BY SameAssumptions, S!ContentIs
<1> QED
  BY <1>1, <1>2, <1>3, SameContent

Keep1(pins, cache, fs, s, x) ==
  IF s \in DOMAIN cache \/ s \notin DOMAIN pins \/ fs[s] = 0 THEN cache
  ELSE Over(x, Only(s, Content(pins, cache, fs, s).parts))

LEMMA CachedIs ==
  ASSUME NEW pins, DOMAIN pins \subseteq Ids, NEW cache, DOMAIN cache \subseteq Ids, NEW fs
  PROVE  \E h : /\ h[0] = cache
                /\ \A s \in Ids : h[s] = Keep1(pins, cache, fs, s, h[BaseOf[s]])
                /\ \A s : Cached(pins, cache, fs, s) =
                            IF Content(pins, cache, fs, s).ok THEN h[s] ELSE cache
<1> DEFINE h == S!Kept(pins, cache, fs)
<1>1. \A s, x : S!Keep1(pins, cache, fs, s, x) = Keep1(pins, cache, fs, s, x)
  BY SameContent DEF S!Keep1, Keep1, S!Only, Only, S!Over, Over
<1>2. /\ h[0] = cache
      /\ \A s \in Ids : h[s] = S!Keep1(pins, cache, fs, s, h[BaseOf[s]])
  BY SameAssumptions, S!KeptIs
<1>3. \A s : S!Cached(pins, cache, fs, s) = IF S!Content(pins, cache, fs, s).ok THEN h[s] ELSE cache
  BY SameAssumptions, S!CachedFor
<1> HIDE DEF h
<1> QED
  BY <1>1, <1>2, <1>3, SameContent, SameCached

Walk1(fs, T, n, x) ==
  IF n \notin T \/ ~x.ok THEN x
  ELSE [r |-> Remember(x.r, fs, n), ok |-> Get(x.r, fs, n).ok]

LEMMA ReadAllIs ==
  ASSUME NEW r, NEW fs, NEW T
  PROVE  \E w : /\ w[0] = [r |-> r, ok |-> TRUE]
                /\ \A n \in 1 .. N : w[n] = Walk1(fs, T, n, w[n - 1])
                /\ ReadAll(r, fs, T) = w[N]
<1> DEFINE w == S!Walk(r, fs, T)
<1>1. \A n, x : S!Walk1(fs, T, n, x) = Walk1(fs, T, n, x)
  BY SameRegistry DEF S!Walk1, Walk1
<1>2. w[0] = [r |-> r, ok |-> TRUE] /\ \A n \in 1 .. N : w[n] = S!Walk1(fs, T, n, w[n - 1])
  BY SameAssumptions, S!WalkIs
<1>3. S!ReadAll(r, fs, T) = w[N]
  BY SameAssumptions, S!ReadAllFor
<1> HIDE DEF w
<1> QED
  BY <1>1, <1>2, <1>3, SameReadAll

---------------------------------------------------------------------------
(* Contents *)

LEMMA OverIs ==
  ASSUME NEW f, NEW g
  PROVE  /\ DOMAIN Over(f, g) = DOMAIN f \cup DOMAIN g
         /\ \A s \in DOMAIN f : Over(f, g)[s] = f[s]
         /\ \A s \in DOMAIN g : s \notin DOMAIN f => Over(f, g)[s] = g[s]
BY DEF Over

LEMMA OnlyIs ==
  ASSUME NEW s, NEW x
  PROVE  DOMAIN Only(s, x) = {s} /\ Only(s, x)[s] = x
BY DEF Only

LEMMA GotIs ==
  ASSUME NEW x
  PROVE  Got(x).ok /\ Got(x).parts = x /\ ~Raises.ok /\ DOMAIN Nothing = {}
BY DEF Got, Raises, Nothing

\* One more entry in a cache.
LEMMA AddingTo ==
  ASSUME NEW s, NEW x, NEW g
  PROVE  DOMAIN Over(Only(s, x), g) = {s} \cup DOMAIN g
BY DEF Over, Only

LEMMA AddingAt ==
  ASSUME NEW s, NEW x, NEW g
  PROVE  /\ Over(Only(s, x), g)[s] = x
         /\ \A t \in DOMAIN g : t = s \/ Over(Only(s, x), g)[t] = g[t]
BY DEF Over, Only

LEMMA BaseIn ==
  ASSUME NEW s \in Ids
  PROVE  /\ s \in Nat /\ s # 0 /\ s \in 0 .. N /\ BaseOf[s] \in 0 .. N
         /\ BaseOf[s] = 0 \/ (BaseOf[s] \in Ids /\ BaseOf[s] > s)
<1>1. N \in Nat /\ BaseOf[s] \in 0 .. N /\ (BaseOf[s] = 0 \/ BaseOf[s] > s)
  BY FilesAssumption
<1>2. s \in 1 .. N
  BY DEF Ids
<1>3. BaseOf[s] = 0 \/ BaseOf[s] \in 1 .. N
  BY <1>1
<1> QED
  BY <1>1, <1>2, <1>3 DEF Ids

\* What is read if nothing was kept: what is in the files.
Fresh(pins, fs, s) == Content(pins, Nothing, fs, s)

\* A cache of what is in the files.
Pure(pins, cache, fs) ==
  /\ DOMAIN cache \subseteq Ids
  /\ \A s \in DOMAIN cache : Fresh(pins, fs, s) = Got(cache[s])

LEMMA FreshIs ==
  ASSUME NEW pins, DOMAIN pins \subseteq Ids, NEW fs
  PROVE  /\ Fresh(pins, fs, 0) = Got(Nothing)
         /\ \A s \in Ids :
              Fresh(pins, fs, s) =
                IF s \notin DOMAIN pins THEN Got(Nothing)
                ELSE IF fs[s] = 0 THEN Got(Only(s, 0))
                ELSE IF ~PinHolds(pins, fs, s) \/ ~Fresh(pins, fs, BaseOf[s]).ok THEN Raises
                ELSE Got(Over(Only(s, fs[s]), Fresh(pins, fs, BaseOf[s]).parts))
<1>1. DOMAIN Nothing = {} /\ DOMAIN Nothing \subseteq Ids
  BY GotIs
<1>2. /\ Fresh(pins, fs, 0) = Got(Nothing)
      /\ \A s \in Ids : Fresh(pins, fs, s) = Read1(pins, Nothing, fs, s, Fresh(pins, fs, BaseOf[s]))
  BY <1>1, ContentIs DEF Fresh
<1> QED
  BY <1>1, <1>2 DEF Read1

LEMMA PureReads ==
  ASSUME NEW pins, DOMAIN pins \subseteq Ids, NEW fs, NEW cache, Pure(pins, cache, fs)
  PROVE  \A s \in 0 .. N : Content(pins, cache, fs, s) = Fresh(pins, fs, s)
<1> DEFINE C(s) == Content(pins, cache, fs, s)
           F(s) == Fresh(pins, fs, s)
           T == {s \in 0 .. N : C(s) = F(s)}
<1>1. C(0) = Got(Nothing) /\ \A s \in Ids : C(s) = Read1(pins, cache, fs, s, C(BaseOf[s]))
  BY ContentIs DEF Pure
<1>2. /\ F(0) = Got(Nothing)
      /\ \A s \in Ids : F(s) = IF s \notin DOMAIN pins THEN Got(Nothing)
                               ELSE IF fs[s] = 0 THEN Got(Only(s, 0))
                               ELSE IF ~PinHolds(pins, fs, s) \/ ~F(BaseOf[s]).ok THEN Raises
                               ELSE Got(Over(Only(s, fs[s]), F(BaseOf[s]).parts))
  BY FreshIs
<1>3. \A s \in DOMAIN cache : F(s) = Got(cache[s])
  BY DEF Pure
<1> HIDE DEF C, F
<1>4. 0 \in T
  BY <1>1, <1>2, FilesAssumption
<1>5. ASSUME NEW s \in Ids, BaseOf[s] \in T PROVE s \in T
  <2>1. C(BaseOf[s]) = F(BaseOf[s]) /\ s \in 0 .. N
    BY <1>5, BaseIn
  <2>2. C(s) = F(s)
    BY <1>1, <1>2, <1>3, <2>1 DEF Read1
  <2> QED
    BY <2>1, <2>2
<1> HIDE DEF T
<1>6. \A s \in 0 .. N : s \in T
  BY <1>4, <1>5, AlongBases
<1> QED
  BY <1>6 DEF T, C, F

LEMMA PureKept ==
  ASSUME NEW pins, DOMAIN pins \subseteq Ids, NEW fs, NEW cache, Pure(pins, cache, fs),
         NEW skill \in 0 .. N
  PROVE  Pure(pins, Cached(pins, cache, fs, skill), fs)
<1>1. PICK h : /\ h[0] = cache
               /\ \A s \in Ids : h[s] = Keep1(pins, cache, fs, s, h[BaseOf[s]])
               /\ \A s : Cached(pins, cache, fs, s) =
                           IF Content(pins, cache, fs, s).ok THEN h[s] ELSE cache
  BY CachedIs DEF Pure
<1> DEFINE F(s) == Fresh(pins, fs, s)
           T == {s \in 0 .. N : F(s).ok => Pure(pins, h[s], fs)}
<1>2. \A s \in 0 .. N : Content(pins, cache, fs, s) = F(s)
  BY PureReads
<1>3. /\ F(0) = Got(Nothing)
      /\ \A s \in Ids : F(s) = IF s \notin DOMAIN pins THEN Got(Nothing)
                               ELSE IF fs[s] = 0 THEN Got(Only(s, 0))
                               ELSE IF ~PinHolds(pins, fs, s) \/ ~F(BaseOf[s]).ok THEN Raises
                               ELSE Got(Over(Only(s, fs[s]), F(BaseOf[s]).parts))
  BY FreshIs
<1>4. \A g : Pure(pins, g, fs) <=> (DOMAIN g \subseteq Ids /\ \A s \in DOMAIN g : F(s) = Got(g[s]))
  BY DEF Pure
<1> HIDE DEF F
<1>5. 0 \in T
  BY <1>1, FilesAssumption
<1>6. ASSUME NEW s \in Ids, BaseOf[s] \in T PROVE s \in T
  <2>1. s \in 0 .. N /\ h[s] = Keep1(pins, cache, fs, s, h[BaseOf[s]]) /\ Content(pins, cache, fs, s) = F(s)
    BY <1>1, <1>2, BaseIn
  <2>2. CASE s \in DOMAIN cache \/ s \notin DOMAIN pins \/ fs[s] = 0
    BY <2>1, <2>2 DEF Keep1
  <2>3. CASE ~(s \in DOMAIN cache \/ s \notin DOMAIN pins \/ fs[s] = 0)
    <3> SUFFICES ASSUME F(s).ok PROVE Pure(pins, h[s], fs)
      BY <2>1
    <3> DEFINE g == h[BaseOf[s]]
               p == F(s).parts
               o == Only(s, p)
    <3>1. F(BaseOf[s]).ok /\ F(s) = Got(p)
      BY <1>3, <2>3, GotIs
    <3>2. Pure(pins, g, fs)
      BY <1>6, <3>1
    <3>3. h[s] = Over(g, o)
      BY <2>1, <2>3 DEF Keep1
    <3> HIDE DEF g, p
    <3>4. DOMAIN o = {s} /\ o[s] = p
      BY OnlyIs
    <3> HIDE DEF o
    <3> DEFINE v == Over(g, o)
    <3>5. /\ DOMAIN v = DOMAIN g \cup DOMAIN o
          /\ \A u \in DOMAIN g : v[u] = g[u]
          /\ \A u \in DOMAIN o : u \notin DOMAIN g => v[u] = o[u]
      BY OverIs
    <3> HIDE DEF v
    <3>6. DOMAIN v \subseteq Ids
      BY <1>4, <3>2, <3>4, <3>5
    <3>7. ASSUME NEW u \in DOMAIN v PROVE F(u) = Got(v[u])
      <4>1. CASE u \in DOMAIN g
        BY <1>4, <3>2, <3>5, <4>1
      <4>2. CASE u \notin DOMAIN g
        BY <3>1, <3>4, <3>5, <3>7, <4>2
      <4> QED
        BY <4>1, <4>2
    <3> QED
      BY <1>4, <3>3, <3>6, <3>7 DEF v
  <2> QED
    BY <2>2, <2>3
<1> HIDE DEF T
<1>7. \A s \in 0 .. N : s \in T
  BY <1>5, <1>6, AlongBases
<1>8. F(skill).ok => Pure(pins, h[skill], fs)
  BY <1>7 DEF T
<1> QED
  BY <1>1, <1>2, <1>8

---------------------------------------------------------------------------
(* The registry of a sync *)

IsReg(r) == DOMAIN r = {"zone", "skills", "all", "forced", "cache"}

\* A registry that knows nothing, or has the skills of the command and nothing
\* kept but what is in the files.
Honest(r, pins, fs) ==
  /\ IsReg(r)
  /\ \/ DOMAIN Index(r) = {} /\ DOMAIN r.cache = {}
     \/ Index(r) = pins /\ Pure(pins, r.cache, fs)

LEMMA HonestGet ==
  ASSUME NEW pins, DOMAIN pins \subseteq Ids, NEW fs, NEW r, Honest(r, pins, fs),
         NEW s \in 0 .. N, Get(r, fs, s).parts # Nothing
  PROVE  Get(r, fs, s) = Fresh(pins, fs, s)
<1>1. CASE Index(r) = pins /\ Pure(pins, r.cache, fs)
  BY <1>1, PureReads DEF Get
<1>2. CASE DOMAIN Index(r) = {} /\ DOMAIN r.cache = {}
  <2> DEFINE C(u) == Content(Index(r), r.cache, fs, u)
  <2>1. C(0) = Got(Nothing) /\ \A u \in Ids : C(u) = Read1(Index(r), r.cache, fs, u, C(BaseOf[u]))
    BY <1>2, ContentIs
  <2>2. s = 0 \/ s \in Ids
    BY FilesAssumption DEF Ids
  <2> HIDE DEF C
  <2>3. C(s) = Got(Nothing)
    BY <1>2, <2>1, <2>2 DEF Read1
  <2> QED
    BY <2>3, GotIs DEF Get, C
<1> QED
  BY <1>1, <1>2 DEF Honest

LEMMA HonestRemember ==
  ASSUME NEW pins, DOMAIN pins \subseteq Ids, NEW fs, NEW r, Honest(r, pins, fs), NEW s \in 0 .. N
  PROVE  Honest(Remember(r, fs, s), pins, fs) /\ Index(Remember(r, fs, s)) = Index(r)
<1> DEFINE q == Remember(r, fs, s)
           kept == Cached(Index(r), r.cache, fs, s)
<1>1. q = [r EXCEPT !.cache = kept]
  BY DEF Remember
<1> HIDE DEF q, kept
<1>2. IsReg(q) /\ q.cache = kept /\ q.skills = r.skills /\ q.all = r.all
  BY <1>1 DEF Honest, IsReg
<1>3. Index(q) = Index(r)
  BY <1>2 DEF Index
<1>4. CASE Index(r) = pins /\ Pure(pins, r.cache, fs)
  <2>1. Pure(pins, kept, fs)
    BY <1>4, PureKept DEF kept
  <2> QED
    BY <1>2, <1>3, <1>4, <2>1 DEF Honest, q
<1>5. CASE DOMAIN Index(r) = {} /\ DOMAIN r.cache = {}
  <2>1. PICK h : /\ h[0] = r.cache
                 /\ \A u \in Ids : h[u] = Keep1(Index(r), r.cache, fs, u, h[BaseOf[u]])
                 /\ \A u : Cached(Index(r), r.cache, fs, u) =
                             IF Content(Index(r), r.cache, fs, u).ok THEN h[u] ELSE r.cache
    BY <1>5, CachedIs
  <2>2. s = 0 \/ s \in Ids
    BY FilesAssumption DEF Ids
  <2>3. h[s] = r.cache
    BY <1>5, <2>1, <2>2 DEF Keep1
  <2>4. kept = r.cache
    BY <2>1, <2>3 DEF kept
  <2> QED
    BY <1>2, <1>3, <1>5, <2>4 DEF Honest, q
<1> QED
  BY <1>4, <1>5 DEF Honest

LEMMA HonestReadAll ==
  ASSUME NEW pins, DOMAIN pins \subseteq Ids, NEW fs, NEW r, Honest(r, pins, fs), NEW T
  PROVE  Honest(ReadAll(r, fs, T).r, pins, fs)
<1>1. PICK w : /\ w[0] = [r |-> r, ok |-> TRUE]
               /\ \A n \in 1 .. N : w[n] = Walk1(fs, T, n, w[n - 1])
               /\ ReadAll(r, fs, T) = w[N]
  BY ReadAllIs
<1> DEFINE U == {n \in 0 .. N : Honest(w[n].r, pins, fs)}
<1>2. N \in Nat
  BY FilesAssumption
<1>3. 0 \in U
  BY <1>1, <1>2
<1>4. ASSUME NEW n \in 1 .. N, n - 1 \in U PROVE n \in U
  <2> DEFINE x == w[n - 1]
  <2>1. Honest(x.r, pins, fs) /\ n \in 0 .. N
    BY <1>2, <1>4
  <2>2. w[n] = Walk1(fs, T, n, x)
    BY <1>1
  <2> HIDE DEF x
  <2>3. w[n].r = x.r \/ w[n].r = Remember(x.r, fs, n)
    BY <2>2 DEF Walk1
  <2>4. Honest(Remember(x.r, fs, n), pins, fs)
    BY <2>1, HonestRemember
  <2> QED
    BY <2>1, <2>3, <2>4
<1> HIDE DEF U
<1>5. N \in U
  BY <1>2, <1>3, <1>4, Upwards
<1> QED
  BY <1>1, <1>5 DEF U

LEMMA PinsIn ==
  ASSUME NEW y \in Yaml, NEW fs
  PROVE  Configured(y, fs) \subseteq Ids /\ DOMAIN Pins(y, fs) = Configured(y, fs)
BY FilesAssumption DEF Configured, Found, Pins, Yaml

LEMMA ResolvedIn ==
  ASSUME NEW y, NEW fs, NEW zone
  PROVE  /\ Visible(Resolved(y, fs, zone)) \subseteq Configured(y, fs)
         /\ Resolved(y, fs, zone).forced \subseteq Configured(y, fs)
BY DEF Resolved, Visible

\* Whatever was loaded is sound; what was read while nobody edited is honest.
LEMMA LoadIs ==
  ASSUME NEW zone, NEW y \in Yaml, NEW fs, NEW old, \A u \in Ids : fs[u] \in old[u],
         Load(Empty(zone), y, fs).ok
  PROVE  /\ S!RegSound(Load(Empty(zone), y, fs).r, old)
         /\ Honest(Load(Empty(zone), y, fs).r, Pins(y, fs), fs)
<1> DEFINE r == Empty(zone)
           res == Resolved(y, fs, IF r.zone = None THEN DefaultZone(y) ELSE r.zone)
           visible == res.forced \cup res.passive
           all == [r EXCEPT !.all = Pins(y, fs)]
           indexed == [all EXCEPT !.skills = [s \in visible |-> Pins(y, fs)[s]],
                                  !.forced = res.forced, !.cache = Nothing]
           warm == ReadAll(indexed, fs, res.forced)
<1>1. Configured(y, fs) \subseteq Ids /\ DOMAIN Pins(y, fs) = Configured(y, fs)
  BY PinsIn
<1>2. visible \subseteq Configured(y, fs)
  BY ResolvedIn DEF Visible
<1>3. Load(Empty(zone), y, fs) = warm
  BY DEF Load
<1> HIDE DEF res, warm
<1>4. IsReg(r)
  BY DEF Empty, IsReg
<1> HIDE DEF r
<1>5. /\ IsReg(indexed) /\ indexed.all = Pins(y, fs) /\ indexed.cache = Nothing
      /\ indexed.skills = [s \in visible |-> Pins(y, fs)[s]] /\ indexed.forced = res.forced
  BY <1>4 DEF IsReg
<1> HIDE DEF indexed
<1>6. Index(indexed) = Pins(y, fs)
  <2>1. Index(indexed) = [s \in Configured(y, fs) |-> Pins(y, fs)[s]]
    BY <1>1, <1>2, <1>5 DEF Index, Over
  <2> QED
    BY <2>1 DEF Pins
<1>7. Honest(warm.r, Pins(y, fs), fs)
  <2>1. Pure(Pins(y, fs), Nothing, fs)
    BY GotIs DEF Pure
  <2>2. Honest(indexed, Pins(y, fs), fs)
    BY <1>5, <1>6, <2>1 DEF Honest
  <2> QED
    BY <1>1, <2>2, HonestReadAll DEF warm
<1>8. S!RegSound(warm.r, old)
  <2>1. S!IsReg(indexed) /\ DOMAIN indexed.cache = {}
    BY <1>1, <1>2, <1>5, SameAssumptions, GotIs DEF S!IsReg, IsReg
  <2>2. S!RegSound(indexed, old)
    BY <2>1, SameAssumptions, S!EmptySound
  <2>3. res.forced \subseteq S!Ids /\ \A u \in S!Ids : fs[u] \in old[u]
    BY <1>1, <1>2, SameAssumptions
  <2>4. S!RegSound(S!ReadAll(indexed, fs, res.forced).r, old)
    BY <2>2, <2>3, SameAssumptions, S!ReadAllIs
  <2> QED
    BY <2>4, SameReadAll DEF warm
<1> QED
  BY <1>3, <1>7, <1>8

---------------------------------------------------------------------------
(* SkillContentResolver.read *)

Result(parts, r, cache) == [ok |-> TRUE, parts |-> parts, reg |-> r, cache |-> cache]

\* The body of Read, with x for what the base would bring.
Take1(pins, r, cache, fs, s, x) ==
  LET shown == Shown(r, fs, s)
      base  == BaseRead(pins, r, cache, fs, s, x)
      made  == Over(Only(s, fs[s]), base.parts)
  IN  IF s = 0 THEN [ok |-> TRUE, parts |-> Nothing, reg |-> r, cache |-> cache]
      ELSE IF shown.ok /\ shown.parts # Nothing
      THEN [ok |-> TRUE, parts |-> shown.parts, reg |-> Remember(r, fs, s), cache |-> cache]
      ELSE IF s \in DOMAIN cache
      THEN [ok |-> TRUE, parts |-> cache[s], reg |-> r, cache |-> cache]
      ELSE IF fs[s] = 0
      THEN [ok |-> TRUE, parts |-> Only(s, 0), reg |-> r,
            cache |-> Over(Only(s, Only(s, 0)), cache)]
      ELSE IF ~PinHolds(pins, fs, s) THEN [ok |-> FALSE]
      ELSE IF ~base.ok THEN [ok |-> FALSE]
      ELSE [ok |-> TRUE, parts |-> made, reg |-> base.reg,
            cache |-> Over(Only(s, made), base.cache)]

Takes(pins, r, cache, fs, f) == [s \in 0 .. N |-> Take1(pins, r, cache, fs, s, f[BaseOf[s]])]
Taken(pins, r, cache, fs) == CHOOSE f : f = Takes(pins, r, cache, fs, f)

LEMMA ReadFor ==
  ASSUME NEW pins, NEW r, NEW cache, NEW fs, NEW s
  PROVE  Read(pins, r, cache, fs, s) = Taken(pins, r, cache, fs)[s]
BY DEF Read, Taken, Takes, Take1

\* The recursion has a solution: from the last skill down to the first one.
LEMMA TakenExists ==
  ASSUME NEW pins, NEW r, NEW cache, NEW fs
  PROVE  \E f : f = Takes(pins, r, cache, fs, f)
<1> DEFINE One(s, x) == Take1(pins, r, cache, fs, s, x)
           zero == Result(Nothing, r, cache)
           Solves(f, k) == /\ DOMAIN f = 0 .. N /\ f = [s \in DOMAIN f |-> f[s]]
                           /\ f[0] = zero
                           /\ \A s \in Ids : s > N - k => f[s] = One(s, f[BaseOf[s]])
           U == {k \in 0 .. N : \E f : Solves(f, k)}
<1> HIDE DEF zero
<1>1. N \in Nat /\ Ids = 1 .. N /\ 0 \notin Ids
  BY FilesAssumption DEF Ids
<1>2. 0 \in U
  <2>1. Solves([s \in 0 .. N |-> zero], 0)
    BY <1>1
  <2> QED
    BY <1>1, <2>1
<1>3. ASSUME NEW k \in 1 .. N, k - 1 \in U PROVE k \in U
  <2> DEFINE t == N - k + 1
  <2>1. PICK f : Solves(f, k - 1)
    BY <1>3
  <2> DEFINE v == One(t, f[BaseOf[t]])
             h == [f EXCEPT ![t] = v]
  <2>2. t \in Ids /\ t \in 0 .. N /\ t # 0
    BY <1>1
  <2>3. \A s \in Ids : s > N - k => s = t \/ s > N - (k - 1)
    BY <1>1
  <2>4. \A s \in Ids : s > N - k => BaseOf[s] \in 0 .. N /\ BaseOf[s] # t
    <3> SUFFICES ASSUME NEW s \in Ids, s > N - k PROVE BaseOf[s] \in 0 .. N /\ BaseOf[s] # t
      OBVIOUS
    <3>1. BaseOf[s] \in 0 .. N /\ (BaseOf[s] = 0 \/ BaseOf[s] > s)
      BY FilesAssumption
    <3> QED
      BY <1>1, <2>2, <3>1
  <2> HIDE DEF One, v
  <2>5. DOMAIN h = 0 .. N /\ h[t] = v /\ \A s \in 0 .. N : s # t => h[s] = f[s]
    BY <2>1, <2>2
  <2> HIDE DEF t
  <2>6. ASSUME NEW s \in Ids, s > N - k PROVE h[s] = One(s, h[BaseOf[s]])
    <3>1. h[BaseOf[s]] = f[BaseOf[s]]
      BY <2>4, <2>5, <2>6
    <3>2. CASE s = t
      BY <2>5, <3>1, <3>2 DEF v
    <3>3. CASE s # t
      <4>1. f[s] = One(s, f[BaseOf[s]])
        BY <2>1, <2>3, <2>6, <3>3
      <4>2. s \in 0 .. N
        BY <1>1
      <4> QED
        BY <2>5, <3>1, <3>3, <4>1, <4>2
    <3> QED
      BY <3>2, <3>3
  <2>7. h[0] = zero
    BY <1>1, <2>1, <2>2, <2>5
  <2>8. h = [s \in DOMAIN h |-> h[s]]
    BY <2>5
  <2> HIDE DEF h
  <2>9. Solves(h, k)
    BY <2>5, <2>6, <2>7, <2>8
  <2>10. k \in 0 .. N
    BY <1>1
  <2> HIDE DEF Solves
  <2> QED
    BY <2>9, <2>10
<1> HIDE DEF U
<1>4. \A k \in 0 .. N : k \in U
  BY <1>1, <1>2, <1>3, Upwards
<1>5. N \in U
  BY <1>1, <1>4
<1>6. PICK f : Solves(f, N)
  BY <1>5 DEF U
<1>7. \A x : One(0, x) = zero
  BY DEF Take1, zero, Result
<1> HIDE DEF One
<1>8. \A s \in 0 .. N : f[s] = One(s, f[BaseOf[s]])
  <2>1. \A s \in 0 .. N : s = 0 \/ (s \in Ids /\ s > N - N)
    BY <1>1
  <2> QED
    BY <1>6, <1>7, <2>1
<1>9. f = [s \in 0 .. N |-> One(s, f[BaseOf[s]])]
  BY <1>6, <1>8
<1> QED
  BY <1>9 DEF Takes, One

LEMMA ReadIs ==
  ASSUME NEW pins, NEW r, NEW cache, NEW fs, NEW s \in 0 .. N
  PROVE  Read(pins, r, cache, fs, s) =
           Take1(pins, r, cache, fs, s, Read(pins, r, cache, fs, BaseOf[s]))
<1> DEFINE f == Taken(pins, r, cache, fs)
<1>1. PICK g : g = Takes(pins, r, cache, fs, g)
  BY TakenExists
<1>2. f = Takes(pins, r, cache, fs, f)
  BY <1>1, Zenon DEF Taken
<1>3. \A u : Read(pins, r, cache, fs, u) = f[u]
  BY ReadFor
<1> HIDE DEF f
<1>4. f[s] = Take1(pins, r, cache, fs, s, f[BaseOf[s]])
  BY <1>2, Zenon DEF Takes
<1> QED
  BY <1>3, <1>4, Zenon

\* What the base b brings: contents p, and the registry q and the cache g after it.
OfBase(pins, r, cache, fs, b, p, q, g) ==
  \/ /\ Get(r, fs, b).ok /\ Get(r, fs, b).parts # Nothing
     /\ p = Get(r, fs, b).parts /\ q = Remember(r, fs, b) /\ g = cache
  \/ b \in DOMAIN cache /\ p = cache[b] /\ q = r /\ g = cache
  \/ /\ b \in DOMAIN pins /\ Read(pins, r, cache, fs, b).ok
     /\ p = Read(pins, r, cache, fs, b).parts
     /\ q = Read(pins, r, cache, fs, b).reg /\ g = Read(pins, r, cache, fs, b).cache
  \/ b \notin DOMAIN pins /\ p = Nothing /\ q = r /\ g = cache

ByRegistry(pins, r, cache, fs, s, got) ==
  /\ s \in DOMAIN r.skills /\ Get(r, fs, s).ok /\ Get(r, fs, s).parts # Nothing
  /\ got = Result(Get(r, fs, s).parts, Remember(r, fs, s), cache)

ByCache(pins, r, cache, fs, s, got) ==
  s \in DOMAIN cache /\ got = Result(cache[s], r, cache)

Missing(pins, r, cache, fs, s, got) ==
  /\ s \notin DOMAIN cache /\ fs[s] = 0
  /\ got = Result(Only(s, 0), r, Over(Only(s, Only(s, 0)), cache))

ByFile(pins, r, cache, fs, s, got) ==
  /\ s \notin DOMAIN cache /\ fs[s] # 0 /\ PinHolds(pins, fs, s)
  /\ \E p, q, g : /\ OfBase(pins, r, cache, fs, BaseOf[s], p, q, g)
                  /\ got.ok /\ got.parts = Over(Only(s, fs[s]), p) /\ got.reg = q
                  /\ got.cache = Over(Only(s, got.parts), g)

LEMMA ReadCases ==
  ASSUME NEW pins, NEW r, NEW cache, NEW fs, NEW s \in Ids, Read(pins, r, cache, fs, s).ok
  PROVE  LET got == Read(pins, r, cache, fs, s)
         IN  \/ ByRegistry(pins, r, cache, fs, s, got)
             \/ ByCache(pins, r, cache, fs, s, got)
             \/ Missing(pins, r, cache, fs, s, got)
             \/ ByFile(pins, r, cache, fs, s, got)
<1> DEFINE got == Read(pins, r, cache, fs, s)
           b == BaseOf[s]
           x == Read(pins, r, cache, fs, b)
           base == BaseRead(pins, r, cache, fs, s, x)
           shown == Shown(r, fs, s)
           made == Over(Only(s, fs[s]), base.parts)
<1>1. s \in 0 .. N /\ s # 0
  BY BaseIn
<1>2. got = Take1(pins, r, cache, fs, s, x)
  BY <1>1, ReadIs
<1>3. got = IF shown.ok /\ shown.parts # Nothing
            THEN Result(shown.parts, Remember(r, fs, s), cache)
            ELSE IF s \in DOMAIN cache THEN Result(cache[s], r, cache)
            ELSE IF fs[s] = 0 THEN Result(Only(s, 0), r, Over(Only(s, Only(s, 0)), cache))
            ELSE IF ~PinHolds(pins, fs, s) THEN [ok |-> FALSE]
            ELSE IF ~base.ok THEN [ok |-> FALSE]
            ELSE Result(made, base.reg, Over(Only(s, made), base.cache))
  BY <1>1, <1>2 DEF Take1, Result
<1>4. base.ok => OfBase(pins, r, cache, fs, b, base.parts, base.reg, base.cache)
  <2> HIDE DEF x, b
  <2> SUFFICES ASSUME base.ok
               PROVE  OfBase(pins, r, cache, fs, b, base.parts, base.reg, base.cache)
    OBVIOUS
  <2>1. base = IF Get(r, fs, b).ok /\ Get(r, fs, b).parts # Nothing
               THEN Result(Get(r, fs, b).parts, Remember(r, fs, b), cache)
               ELSE IF b \in DOMAIN cache THEN Result(cache[b], r, cache)
               ELSE IF b \in DOMAIN pins THEN x
               ELSE Result(Nothing, r, cache)
    BY DEF BaseRead, Result, b
  <2> HIDE DEF base
  <2>2. CASE Get(r, fs, b).ok /\ Get(r, fs, b).parts # Nothing
    BY <2>1, <2>2 DEF OfBase, Result
  <2>3. CASE ~(Get(r, fs, b).ok /\ Get(r, fs, b).parts # Nothing) /\ b \in DOMAIN cache
    BY <2>1, <2>3 DEF OfBase, Result
  <2>4. CASE ~(Get(r, fs, b).ok /\ Get(r, fs, b).parts # Nothing) /\ b \notin DOMAIN cache /\ b \in DOMAIN pins
    <3>1. base = x
      BY <2>1, <2>4
    <3> QED
      BY <2>4, <3>1 DEF OfBase, x
  <2>5. CASE ~(Get(r, fs, b).ok /\ Get(r, fs, b).parts # Nothing) /\ b \notin DOMAIN cache /\ b \notin DOMAIN pins
    BY <2>1, <2>5 DEF OfBase, Result
  <2> QED
    BY <2>2, <2>3, <2>4, <2>5
<1>5. shown = IF s \in DOMAIN r.skills THEN Get(r, fs, s) ELSE Got(Nothing)
  BY DEF Shown
<1>6. got.ok
  OBVIOUS
<1> HIDE DEF got, base, shown, x
<1>7. CASE shown.ok /\ shown.parts # Nothing
  <2>1. ByRegistry(pins, r, cache, fs, s, got)
    BY <1>3, <1>5, <1>7, GotIs DEF ByRegistry
  <2> QED
    BY <2>1 DEF got
<1>8. CASE ~(shown.ok /\ shown.parts # Nothing) /\ s \in DOMAIN cache
  <2>1. ByCache(pins, r, cache, fs, s, got)
    BY <1>3, <1>8 DEF ByCache
  <2> QED
    BY <2>1 DEF got
<1>9. CASE ~(shown.ok /\ shown.parts # Nothing) /\ s \notin DOMAIN cache /\ fs[s] = 0
  <2>1. Missing(pins, r, cache, fs, s, got)
    BY <1>3, <1>9 DEF Missing
  <2> QED
    BY <2>1 DEF got
<1>10. CASE ~(shown.ok /\ shown.parts # Nothing) /\ s \notin DOMAIN cache /\ fs[s] # 0
  <2> HIDE DEF made
  <2>1. PinHolds(pins, fs, s) /\ base.ok /\ got = Result(made, base.reg, Over(Only(s, made), base.cache))
    BY <1>3, <1>6, <1>10
  <2>2. /\ got.parts = made /\ got.reg = base.reg /\ got.cache = Over(Only(s, got.parts), base.cache)
    BY <2>1 DEF Result
  <2>3. ByFile(pins, r, cache, fs, s, got)
    BY <1>4, <1>6, <1>10, <2>1, <2>2 DEF ByFile, made
  <2> QED
    BY <2>3 DEF got
<1> QED
  BY <1>7, <1>8, <1>9, <1>10

LEMMA FreshGot ==
  ASSUME NEW pins, DOMAIN pins \subseteq Ids, NEW fs, NEW s \in Ids
  PROVE  Fresh(pins, fs, s).ok => Fresh(pins, fs, s) = Got(Fresh(pins, fs, s).parts)
<1> DEFINE F(u) == Fresh(pins, fs, u)
<1>1. F(s) = IF s \notin DOMAIN pins THEN Got(Nothing)
             ELSE IF fs[s] = 0 THEN Got(Only(s, 0))
             ELSE IF ~PinHolds(pins, fs, s) \/ ~F(BaseOf[s]).ok THEN Raises
             ELSE Got(Over(Only(s, fs[s]), F(BaseOf[s]).parts))
  BY FreshIs
<1>2. ~Raises.ok /\ \A x : Got(x).parts = x
  BY GotIs
<1> HIDE DEF F
<1>3. F(s).ok => F(s) = Got(F(s).parts)
  BY <1>1, <1>2
<1> QED
  BY <1>3 DEF F

LEMMA PureAdds ==
  ASSUME NEW pins, NEW fs, NEW s \in Ids, NEW p, Fresh(pins, fs, s) = Got(p),
         NEW g, Pure(pins, g, fs)
  PROVE  Pure(pins, Over(Only(s, p), g), fs)
<1> DEFINE h == Over(Only(s, p), g)
<1>1. DOMAIN h = {s} \cup DOMAIN g
  BY AddingTo
<1>2. h[s] = p /\ \A u \in DOMAIN g : u = s \/ h[u] = g[u]
  BY AddingAt
<1> HIDE DEF h
<1>3. DOMAIN g \subseteq Ids /\ \A u \in DOMAIN g : Fresh(pins, fs, u) = Got(g[u])
  BY DEF Pure
<1>4. DOMAIN h \subseteq Ids /\ \A u \in DOMAIN h : Fresh(pins, fs, u) = Got(h[u])
  BY <1>1, <1>2, <1>3
<1> QED
  BY <1>4 DEF Pure, h

\* While nobody edits, the registry, the caches and the files say the same.
LEMMA ReadPure ==
  ASSUME NEW pins, DOMAIN pins \subseteq Ids, NEW fs, NEW r, Honest(r, pins, fs),
         NEW cache, Pure(pins, cache, fs)
  PROVE  \A s \in DOMAIN pins : Read(pins, r, cache, fs, s).ok =>
           /\ Fresh(pins, fs, s) = Got(Read(pins, r, cache, fs, s).parts)
           /\ Pure(pins, Read(pins, r, cache, fs, s).cache, fs)
           /\ Honest(Read(pins, r, cache, fs, s).reg, pins, fs)
<1> DEFINE G(s) == Read(pins, r, cache, fs, s)
           F(s) == Fresh(pins, fs, s)
           Fine(s) == s \in DOMAIN pins /\ G(s).ok =>
                        F(s) = Got(G(s).parts) /\ Pure(pins, G(s).cache, fs) /\ Honest(G(s).reg, pins, fs)
           T == {s \in 0 .. N : Fine(s)}
<1>1. 0 \in T
  BY FilesAssumption DEF Ids
<1>2. ASSUME NEW s \in Ids, BaseOf[s] \in T PROVE s \in T
  <2> DEFINE b == BaseOf[s]
  <2>1. s \in 0 .. N /\ b \in 0 .. N /\ (b = 0 \/ b \in Ids)
    BY BaseIn
  <2> SUFFICES ASSUME s \in DOMAIN pins, G(s).ok
               PROVE  /\ F(s) = Got(G(s).parts) /\ Pure(pins, G(s).cache, fs)
                      /\ Honest(G(s).reg, pins, fs)
    BY <2>1
  <2>2. F(0) = Got(Nothing) /\ F(s) = IF s \notin DOMAIN pins THEN Got(Nothing)
                                      ELSE IF fs[s] = 0 THEN Got(Only(s, 0))
                                      ELSE IF ~PinHolds(pins, fs, s) \/ ~F(b).ok THEN Raises
                                      ELSE Got(Over(Only(s, fs[s]), F(b).parts))
    BY FreshIs
  <2>3. \A u \in DOMAIN cache : F(u) = Got(cache[u])
    BY DEF Pure
  <2>4. ASSUME NEW p, NEW g, Pure(pins, g, fs), F(s) = Got(p)
        PROVE  Pure(pins, Over(Only(s, p), g), fs)
    BY <2>4, PureAdds
  <2>5. \A u \in 0 .. N : Get(r, fs, u).parts # Nothing => Get(r, fs, u) = F(u)
    BY HonestGet
  <2>6. \A u \in 0 .. N : Honest(Remember(r, fs, u), pins, fs)
    BY HonestRemember
  <2>7. \A u \in Ids : F(u).ok => F(u) = Got(F(u).parts)
    BY FreshGot
  <2>8. \/ ByRegistry(pins, r, cache, fs, s, G(s)) \/ ByCache(pins, r, cache, fs, s, G(s))
        \/ Missing(pins, r, cache, fs, s, G(s)) \/ ByFile(pins, r, cache, fs, s, G(s))
    BY ReadCases
  <2>9. Fine(b)
    BY <1>2
  <2> HIDE DEF F
  <2>10. CASE ByRegistry(pins, r, cache, fs, s, G(s))
    <3>1. G(s) = Result(Get(r, fs, s).parts, Remember(r, fs, s), cache)
      BY <2>10 DEF ByRegistry
    <3>2. G(s).parts = Get(r, fs, s).parts /\ G(s).reg = Remember(r, fs, s) /\ G(s).cache = cache
      BY <3>1 DEF Result
    <3>3. F(s) = Got(Get(r, fs, s).parts)
      <4>1. Get(r, fs, s).ok /\ Get(r, fs, s) = F(s)
        BY <2>1, <2>5, <2>10 DEF ByRegistry
      <4> QED
        BY <2>7, <4>1
    <3> HIDE DEF G
    <3> QED
      BY <2>1, <2>6, <3>2, <3>3
  <2>11. CASE ByCache(pins, r, cache, fs, s, G(s))
    <3>1. s \in DOMAIN cache /\ G(s) = Result(cache[s], r, cache)
      BY <2>11 DEF ByCache
    <3>2. G(s).parts = cache[s] /\ G(s).reg = r /\ G(s).cache = cache
      BY <3>1 DEF Result
    <3> HIDE DEF G
    <3> QED
      BY <2>3, <3>1, <3>2
  <2>12. CASE Missing(pins, r, cache, fs, s, G(s))
    <3>1. fs[s] = 0 /\ G(s) = Result(Only(s, 0), r, Over(Only(s, Only(s, 0)), cache))
      BY <2>12 DEF Missing
    <3>2. G(s).parts = Only(s, 0) /\ G(s).reg = r /\ G(s).cache = Over(Only(s, Only(s, 0)), cache)
      BY <3>1 DEF Result
    <3> HIDE DEF G
    <3>3. F(s) = Got(Only(s, 0))
      BY <2>2, <3>1
    <3>4. Pure(pins, Over(Only(s, Only(s, 0)), cache), fs)
      BY <2>4, <3>3
    <3> QED
      BY <3>2, <3>3, <3>4
  <2>13. CASE ByFile(pins, r, cache, fs, s, G(s))
    <3>1. PICK p, q, g : /\ OfBase(pins, r, cache, fs, b, p, q, g)
                         /\ G(s).parts = Over(Only(s, fs[s]), p) /\ G(s).reg = q
                         /\ G(s).cache = Over(Only(s, G(s).parts), g)
      BY <2>13 DEF ByFile
    <3>2. fs[s] # 0 /\ PinHolds(pins, fs, s)
      BY <2>13 DEF ByFile
    <3>3. F(b) = Got(p) /\ Pure(pins, g, fs) /\ Honest(q, pins, fs)
      <4>1. CASE /\ Get(r, fs, b).ok /\ Get(r, fs, b).parts # Nothing
                 /\ p = Get(r, fs, b).parts /\ q = Remember(r, fs, b) /\ g = cache
        <5>1. F(b) = Get(r, fs, b) /\ Honest(q, pins, fs)
          BY <2>1, <2>5, <2>6, <4>1
        <5>2. b \in Ids
          BY <2>1, <2>2, <4>1, <5>1, GotIs
        <5> QED
          BY <2>7, <4>1, <5>1, <5>2
      <4>2. CASE b \in DOMAIN cache /\ p = cache[b] /\ q = r /\ g = cache
        BY <2>3, <4>2
      <4>3. CASE b \in DOMAIN pins /\ G(b).ok /\ p = G(b).parts /\ q = G(b).reg /\ g = G(b).cache
        <5> HIDE DEF G
        <5> QED
          BY <2>9, <4>3
      <4>4. CASE b \notin DOMAIN pins /\ p = Nothing /\ q = r /\ g = cache
        <5>1. F(b) = Got(Nothing)
          BY <2>1, <2>2, <4>4, FreshIs DEF F
        <5> QED
          BY <4>4, <5>1
      <4> QED
        BY <3>1, <4>1, <4>2, <4>3, <4>4 DEF OfBase
    <3> HIDE DEF G
    <3>4. F(b).ok /\ F(b).parts = p
      BY <3>3, GotIs
    <3>5. F(s) = Got(G(s).parts)
      BY <2>2, <3>1, <3>2, <3>4
    <3>6. Pure(pins, Over(Only(s, G(s).parts), g), fs)
      BY <2>4, <3>3, <3>5
    <3> QED
      BY <3>1, <3>3, <3>5, <3>6
  <2> QED
    BY <2>8, <2>10, <2>11, <2>12, <2>13
<1> HIDE DEF T
<1>3. \A s \in 0 .. N : s \in T
  BY <1>1, <1>2, AlongBases
<1>4. \A s \in DOMAIN pins : s \in 0 .. N
  BY BaseIn
<1> QED
  BY <1>3, <1>4 DEF T

\* Every text is of a file whose recorded hash, in either index, is none or the
\* one of the text.
Tells(pins, ix, parts) ==
  \A u \in DOMAIN parts :
    \/ parts[u] = 0
    \/ u \in DOMAIN pins /\ pins[u] \in {0, parts[u]}
    \/ u \in DOMAIN ix /\ ix[u] \in {0, parts[u]}

AllTell(pins, ix, cache) == \A s \in DOMAIN cache : Tells(pins, ix, cache[s])

LEMMA SoundIndex ==
  ASSUME NEW r, NEW old, S!RegSound(r, old)
  PROVE  DOMAIN Index(r) \subseteq Ids /\ DOMAIN r.cache \subseteq Ids
<1>1. S!IsReg(r) /\ DOMAIN r.cache \subseteq Ids
  BY SameAssumptions DEF S!RegSound, S!Sound
<1>2. DOMAIN S!Index(r) \subseteq Ids
  BY <1>1, SameAssumptions, S!IndexIs
<1> QED
  BY <1>1, <1>2, SameIndex

LEMMA NothingAtZero ==
  ASSUME NEW r, NEW old, S!RegSound(r, old), NEW fs
  PROVE  Get(r, fs, 0).parts = Nothing
<1>1. Content(Index(r), r.cache, fs, 0) = Got(Nothing)
  BY SoundIndex, ContentIs
<1> QED
  BY <1>1, GotIs DEF Get

LEMMA GetTells ==
  ASSUME NEW r, NEW old, S!RegSound(r, old), NEW fs, \A u \in Ids : fs[u] \in old[u],
         NEW s \in 0 .. N, Get(r, fs, s).ok, NEW pins
  PROVE  Tells(pins, Index(r), Get(r, fs, s).parts)
<1> DEFINE ix == S!Index(r)
           got == S!Content(ix, r.cache, fs, s)
           h == S!Kept(ix, r.cache, fs)[s]
<1>1. ix = Index(r)
  BY SameIndex
<1>2. DOMAIN ix \subseteq S!Ids /\ S!Sound(ix, r.cache, old) /\ \A u \in S!Ids : fs[u] \in old[u]
  BY <1>1, SoundIndex, SameAssumptions DEF S!RegSound
<1>3. got = Get(r, fs, s)
  BY <1>1, SameContent DEF Get
<1> HIDE DEF ix
<1>4. S!ReadsWell(ix, r.cache, fs, old, s)
  BY <1>2, SameAssumptions, S!ReadingsFit
<1>5. got.ok => \A u \in DOMAIN got.parts : S!Fits(ix, h, old, u, got.parts[u])
  BY <1>4 DEF S!ReadsWell, S!Well
<1> HIDE DEF got, h
<1>6. \A u, v : S!Fits(ix, h, old, u, v) => v = 0 \/ (u \in DOMAIN ix /\ ix[u] \in {0, v})
  BY DEF S!Fits
<1> QED
  BY <1>1, <1>3, <1>5, <1>6 DEF Tells

LEMMA RememberSound ==
  ASSUME NEW r, NEW old, S!RegSound(r, old), NEW fs, \A u \in Ids : fs[u] \in old[u],
         NEW s \in Ids
  PROVE  S!RegSound(Remember(r, fs, s), old) /\ Index(Remember(r, fs, s)) = Index(r)
<1>1. s \in S!Ids /\ \A u \in S!Ids : fs[u] \in old[u]
  BY SameAssumptions
<1>2. /\ S!RegSound(S!Remember(r, fs, s), old)
      /\ S!Extends(r, S!Remember(r, fs, s))
  BY <1>1, SameAssumptions, S!RememberIs
<1>3. S!Remember(r, fs, s) = Remember(r, fs, s)
  BY SameRegistry
<1>4. S!RegSound(Remember(r, fs, s), old) /\ S!Extends(r, Remember(r, fs, s))
  BY <1>2, <1>3
<1> QED
  BY <1>4 DEF S!Extends, Index

LEMMA TellsMore ==
  ASSUME NEW pins, NEW ix, NEW s, NEW v, v = 0 \/ (s \in DOMAIN pins /\ pins[s] \in {0, v}),
         NEW p, Tells(pins, ix, p)
  PROVE  Tells(pins, ix, Over(Only(s, v), p))
<1> DEFINE h == Over(Only(s, v), p)
<1>1. DOMAIN h = {s} \cup DOMAIN p
  BY AddingTo
<1>2. h[s] = v /\ \A u \in DOMAIN p : u = s \/ h[u] = p[u]
  BY AddingAt
<1> HIDE DEF h
<1>3. \A u \in DOMAIN h : \/ h[u] = 0
                          \/ u \in DOMAIN pins /\ pins[u] \in {0, h[u]}
                          \/ u \in DOMAIN ix /\ ix[u] \in {0, h[u]}
  BY <1>1, <1>2 DEF Tells
<1> QED
  BY <1>3 DEF Tells, h

LEMMA AllTellMore ==
  ASSUME NEW pins, NEW ix, NEW s, NEW p, Tells(pins, ix, p), NEW g, AllTell(pins, ix, g)
  PROVE  AllTell(pins, ix, Over(Only(s, p), g))
<1> DEFINE h == Over(Only(s, p), g)
<1>1. DOMAIN h = {s} \cup DOMAIN g
  BY AddingTo
<1>2. h[s] = p /\ \A u \in DOMAIN g : u = s \/ h[u] = g[u]
  BY AddingAt
<1> HIDE DEF h
<1>3. \A u \in DOMAIN h : Tells(pins, ix, h[u])
  BY <1>1, <1>2 DEF AllTell
<1> QED
  BY <1>3 DEF AllTell, h

\* A reading delivers nothing else, by whichever way it comes.
LEMMA ReadTells ==
  ASSUME NEW pins, DOMAIN pins \subseteq Ids, NEW fs, NEW r, NEW old, S!RegSound(r, old),
         \A u \in Ids : fs[u] \in old[u], NEW cache, AllTell(pins, Index(r), cache)
  PROVE  \A s \in DOMAIN pins : Read(pins, r, cache, fs, s).ok =>
           /\ Tells(pins, Index(r), Read(pins, r, cache, fs, s).parts)
           /\ AllTell(pins, Index(r), Read(pins, r, cache, fs, s).cache)
           /\ S!RegSound(Read(pins, r, cache, fs, s).reg, old)
           /\ Index(Read(pins, r, cache, fs, s).reg) = Index(r)
<1> DEFINE G(s) == Read(pins, r, cache, fs, s)
           ix == Index(r)
           Good(p, q, g) == /\ Tells(pins, ix, p) /\ AllTell(pins, ix, g)
                            /\ S!RegSound(q, old) /\ Index(q) = ix
           Fine(s) == s \in DOMAIN pins /\ G(s).ok => Good(G(s).parts, G(s).reg, G(s).cache)
           T == {s \in 0 .. N : Fine(s)}
<1>1. 0 \in T
  BY FilesAssumption DEF Ids
<1>2. ASSUME NEW s \in Ids, BaseOf[s] \in T PROVE s \in T
  <2> DEFINE b == BaseOf[s]
  <2>1. s \in 0 .. N /\ b \in 0 .. N /\ (b = 0 \/ b \in Ids)
    BY BaseIn
  <2> SUFFICES ASSUME s \in DOMAIN pins, G(s).ok
               PROVE  Good(G(s).parts, G(s).reg, G(s).cache)
    BY <2>1
  <2>2. \A u \in 0 .. N : Get(r, fs, u).ok => Tells(pins, ix, Get(r, fs, u).parts)
    BY GetTells
  <2>3. \A u \in Ids : S!RegSound(Remember(r, fs, u), old) /\ Index(Remember(r, fs, u)) = ix
    BY RememberSound
  <2>4. Get(r, fs, 0).parts = Nothing /\ Tells(pins, ix, Nothing)
    BY NothingAtZero, GotIs DEF Tells
  <2>5. Tells(pins, ix, Only(s, 0))
    <3> DEFINE o == Only(s, 0)
    <3>1. DOMAIN o = {s} /\ o[s] = 0
      BY OnlyIs
    <3> HIDE DEF o
    <3>2. Tells(pins, ix, o)
      BY <3>1 DEF Tells
    <3> QED
      BY <3>2 DEF o
  <2>6. S!RegSound(r, old) /\ Index(r) = ix /\ AllTell(pins, ix, cache)
    OBVIOUS
  <2>7. \/ ByRegistry(pins, r, cache, fs, s, G(s)) \/ ByCache(pins, r, cache, fs, s, G(s))
        \/ Missing(pins, r, cache, fs, s, G(s)) \/ ByFile(pins, r, cache, fs, s, G(s))
    BY ReadCases
  <2>8. Fine(b)
    BY <1>2
  <2> HIDE DEF ix
  <2>9. CASE ByRegistry(pins, r, cache, fs, s, G(s))
    <3>1. Get(r, fs, s).ok /\ G(s) = Result(Get(r, fs, s).parts, Remember(r, fs, s), cache)
      BY <2>9 DEF ByRegistry
    <3>2. G(s).parts = Get(r, fs, s).parts /\ G(s).reg = Remember(r, fs, s) /\ G(s).cache = cache
      BY <3>1 DEF Result
    <3> HIDE DEF G
    <3> QED
      BY <2>1, <2>2, <2>3, <2>6, <3>1, <3>2
  <2>10. CASE ByCache(pins, r, cache, fs, s, G(s))
    <3>1. s \in DOMAIN cache /\ G(s) = Result(cache[s], r, cache)
      BY <2>10 DEF ByCache
    <3>2. G(s).parts = cache[s] /\ G(s).reg = r /\ G(s).cache = cache
      BY <3>1 DEF Result
    <3> HIDE DEF G
    <3> QED
      BY <2>6, <3>1, <3>2 DEF AllTell
  <2>11. CASE Missing(pins, r, cache, fs, s, G(s))
    <3>1. G(s) = Result(Only(s, 0), r, Over(Only(s, Only(s, 0)), cache))
      BY <2>11 DEF Missing
    <3>2. G(s).parts = Only(s, 0) /\ G(s).reg = r /\ G(s).cache = Over(Only(s, Only(s, 0)), cache)
      BY <3>1 DEF Result
    <3> HIDE DEF G
    <3>3. AllTell(pins, ix, Over(Only(s, Only(s, 0)), cache))
      BY <2>5, <2>6, AllTellMore
    <3> QED
      BY <2>5, <2>6, <3>2, <3>3
  <2>12. CASE ByFile(pins, r, cache, fs, s, G(s))
    <3>1. PICK p, q, g : /\ OfBase(pins, r, cache, fs, b, p, q, g)
                         /\ G(s).parts = Over(Only(s, fs[s]), p) /\ G(s).reg = q
                         /\ G(s).cache = Over(Only(s, G(s).parts), g)
      BY <2>12 DEF ByFile
    <3>2. pins[s] \in {0, fs[s]}
      BY <2>12 DEF ByFile, PinHolds
    <3>3. Good(p, q, g)
      <4>1. CASE /\ Get(r, fs, b).ok /\ Get(r, fs, b).parts # Nothing
                 /\ p = Get(r, fs, b).parts /\ q = Remember(r, fs, b) /\ g = cache
        <5>1. b \in Ids
          BY <2>1, <2>4, <4>1
        <5> QED
          BY <2>1, <2>2, <2>3, <2>6, <4>1, <5>1
      <4>2. CASE b \in DOMAIN cache /\ p = cache[b] /\ q = r /\ g = cache
        BY <2>6, <4>2 DEF AllTell
      <4>3. CASE b \in DOMAIN pins /\ G(b).ok /\ p = G(b).parts /\ q = G(b).reg /\ g = G(b).cache
        <5> HIDE DEF G
        <5> QED
          BY <2>8, <4>3
      <4>4. CASE b \notin DOMAIN pins /\ p = Nothing /\ q = r /\ g = cache
        BY <2>4, <2>6, <4>4
      <4> QED
        BY <3>1, <4>1, <4>2, <4>3, <4>4 DEF OfBase
    <3> HIDE DEF G
    <3>4. Tells(pins, ix, G(s).parts)
      <4>1. Tells(pins, ix, Over(Only(s, fs[s]), p))
        BY <3>2, <3>3, TellsMore
      <4> QED
        BY <3>1, <4>1
    <3>5. AllTell(pins, ix, Over(Only(s, G(s).parts), g))
      BY <3>3, <3>4, AllTellMore
    <3> QED
      BY <3>1, <3>3, <3>4, <3>5
  <2> QED
    BY <2>7, <2>9, <2>10, <2>11, <2>12
<1> HIDE DEF T
<1>3. \A s \in 0 .. N : s \in T
  BY <1>1, <1>2, AlongBases
<1>4. \A s \in DOMAIN pins : s \in 0 .. N
  BY BaseIn
<1> QED
  BY <1>3, <1>4 DEF T

\* Every text in a content is the one kept for its own skill.
Within(p, g) == \A u \in DOMAIN p : u \in DOMAIN g /\ u \in DOMAIN g[u] /\ g[u][u] = p[u]

Closed(g) == \A s \in DOMAIN g : Within(g[s], g)

\* h is g with more skills in it, which come from s on.
Grows(g, h, s) ==
  /\ DOMAIN g \subseteq DOMAIN h /\ DOMAIN h \subseteq Ids
  /\ \A t \in DOMAIN g : h[t] = g[t]
  /\ \A t \in DOMAIN h : t \in DOMAIN g \/ t >= s

LEMMA ClosedMore ==
  ASSUME NEW s, NEW v, NEW q, NEW g, s \notin DOMAIN g, Closed(g), Within(q, g)
  PROVE  LET p == Over(Only(s, v), q) IN Closed(Over(Only(s, p), g))
<1> DEFINE p == Over(Only(s, v), q)
           h == Over(Only(s, p), g)
<1>1. DOMAIN p = {s} \cup DOMAIN q
  BY AddingTo
<1>2. p[s] = v /\ \A u \in DOMAIN q : u = s \/ p[u] = q[u]
  BY AddingAt
<1> HIDE DEF p
<1>3. DOMAIN h = {s} \cup DOMAIN g
  BY AddingTo
<1>4. h[s] = p /\ \A u \in DOMAIN g : u = s \/ h[u] = g[u]
  BY AddingAt
<1> HIDE DEF h
<1>5. \A u \in DOMAIN g : u # s /\ u \in DOMAIN h /\ h[u] = g[u]
  BY <1>3, <1>4
<1>6. Within(p, h)
  <2> SUFFICES ASSUME NEW u \in DOMAIN p PROVE u \in DOMAIN h /\ u \in DOMAIN h[u] /\ h[u][u] = p[u]
    BY DEF Within
  <2>1. CASE u = s
    BY <1>1, <1>3, <1>4, <2>1
  <2>2. CASE u # s
    <3>1. u \in DOMAIN q /\ p[u] = q[u]
      BY <1>1, <1>2, <2>2
    <3>2. u \in DOMAIN g /\ u \in DOMAIN g[u] /\ g[u][u] = q[u]
      BY <3>1 DEF Within
    <3> QED
      BY <1>5, <3>1, <3>2
  <2> QED
    BY <2>1, <2>2
<1>7. ASSUME NEW t \in DOMAIN g PROVE Within(h[t], h)
  <2>1. Within(g[t], g) /\ h[t] = g[t]
    BY <1>5 DEF Closed
  <2>2. \A u \in DOMAIN g[t] : u \in DOMAIN g /\ u \in DOMAIN g[u] /\ g[u][u] = g[t][u]
    BY <2>1 DEF Within
  <2>3. \A u \in DOMAIN g[t] : u \in DOMAIN h /\ u \in DOMAIN h[u] /\ h[u][u] = g[t][u]
    BY <1>5, <2>2
  <2> QED
    BY <2>1, <2>3 DEF Within
<1>8. Closed(h)
  BY <1>3, <1>4, <1>6, <1>7 DEF Closed
<1> QED
  BY <1>8 DEF h, p

LEMMA EmptyGet ==
  ASSUME NEW fs, NEW zone, NEW s \in 0 .. N
  PROVE  Get(Empty(zone), fs, s) = Got(Nothing)
<1> DEFINE r == Empty(zone)
           C(u) == Content(Index(r), r.cache, fs, u)
<1>1. r.skills = Nothing /\ r.all = Nothing /\ r.cache = Nothing
  BY DEF Empty
<1>2. DOMAIN Index(r) = {} /\ DOMAIN r.cache = {}
  BY <1>1, GotIs DEF Index, Over
<1>3. C(0) = Got(Nothing) /\ \A u \in Ids : C(u) = Read1(Index(r), r.cache, fs, u, C(BaseOf[u]))
  BY <1>2, ContentIs
<1>4. s = 0 \/ s \in Ids
  BY FilesAssumption DEF Ids
<1> HIDE DEF C, r
<1>5. C(s) = Got(Nothing)
  BY <1>2, <1>3, <1>4 DEF Read1
<1>6. Get(r, fs, s) = Got(Nothing)
  BY <1>5 DEF Get, C
<1> QED
  BY <1>6 DEF r

\* A build keeps what it reads, its bases too.
LEMMA ReadClosed ==
  ASSUME NEW pins, DOMAIN pins \subseteq Ids, NEW fs, NEW zone,
         NEW cache, Closed(cache), DOMAIN cache \subseteq Ids
  PROVE  \A s \in DOMAIN pins : Read(pins, Empty(zone), cache, fs, s).ok =>
           LET got == Read(pins, Empty(zone), cache, fs, s)
           IN  /\ Closed(got.cache) /\ Grows(cache, got.cache, s)
               /\ s \in DOMAIN got.cache /\ got.cache[s] = got.parts
<1> DEFINE r == Empty(zone)
           G(s) == Read(pins, r, cache, fs, s)
           Good(p, g, s) == Closed(g) /\ Grows(cache, g, s) /\ s \in DOMAIN g /\ g[s] = p
           Fine(s) == s \in DOMAIN pins /\ G(s).ok => Good(G(s).parts, G(s).cache, s)
           T == {s \in 0 .. N : Fine(s)}
<1>1. 0 \in T
  BY FilesAssumption DEF Ids
<1>2. ASSUME NEW s \in Ids, BaseOf[s] \in T PROVE s \in T
  <2> DEFINE b == BaseOf[s]
  <2>1. s \in 0 .. N /\ b \in 0 .. N /\ (b = 0 \/ (b \in Ids /\ b > s)) /\ s \in Nat /\ s >= s
    BY BaseIn
  <2> SUFFICES ASSUME s \in DOMAIN pins, G(s).ok
               PROVE  Good(G(s).parts, G(s).cache, s)
    BY <2>1
  <2>2. /\ \A u : u \notin DOMAIN r.skills
        /\ \A u \in 0 .. N : Get(r, fs, u) = Got(Nothing)
    <3>1. \A u \in 0 .. N : Get(r, fs, u) = Got(Nothing)
      BY EmptyGet
    <3>2. r.skills = Nothing
      BY DEF Empty
    <3> QED
      BY <3>1, <3>2, GotIs
  <2>3. Grows(cache, cache, s) /\ Closed(cache)
    BY DEF Grows
  <2>4. ASSUME NEW v, NEW q, NEW g, s \notin DOMAIN g, Closed(g), Within(q, g), Grows(cache, g, s)
        PROVE  Good(Over(Only(s, v), q), Over(Only(s, Over(Only(s, v), q)), g), s)
    <3> DEFINE p == Over(Only(s, v), q)
               h == Over(Only(s, p), g)
    <3>1. Closed(h)
      BY <2>4, ClosedMore
    <3> HIDE DEF p
    <3>2. DOMAIN h = {s} \cup DOMAIN g
      BY AddingTo
    <3>3. h[s] = p /\ \A u \in DOMAIN g : u = s \/ h[u] = g[u]
      BY AddingAt
    <3> HIDE DEF h
    <3>4. Grows(cache, h, s)
      BY <2>1, <2>4, <3>2, <3>3 DEF Grows
    <3> QED
      BY <3>1, <3>2, <3>3, <3>4 DEF h, p
  <2>5. \/ ByRegistry(pins, r, cache, fs, s, G(s)) \/ ByCache(pins, r, cache, fs, s, G(s))
        \/ Missing(pins, r, cache, fs, s, G(s)) \/ ByFile(pins, r, cache, fs, s, G(s))
    BY ReadCases
  <2>6. Fine(b)
    BY <1>2
  <2> HIDE DEF r
  <2>7. CASE ByRegistry(pins, r, cache, fs, s, G(s))
    BY <2>2, <2>7 DEF ByRegistry
  <2>8. CASE ByCache(pins, r, cache, fs, s, G(s))
    <3>1. s \in DOMAIN cache /\ G(s) = Result(cache[s], r, cache)
      BY <2>8 DEF ByCache
    <3>2. G(s).parts = cache[s] /\ G(s).cache = cache
      BY <3>1 DEF Result
    <3> HIDE DEF G
    <3> QED
      BY <2>3, <3>1, <3>2
  <2>9. CASE Missing(pins, r, cache, fs, s, G(s))
    <3>1. s \notin DOMAIN cache /\ G(s) = Result(Only(s, 0), r, Over(Only(s, Only(s, 0)), cache))
      BY <2>9 DEF Missing
    <3>2. G(s).parts = Only(s, 0) /\ G(s).cache = Over(Only(s, Only(s, 0)), cache)
      BY <3>1 DEF Result
    <3>3. Only(s, 0) = Over(Only(s, 0), Nothing)
      BY DEF Over, Only, Nothing
    <3>4. Within(Nothing, cache)
      BY GotIs DEF Within
    <3>5. Good(Over(Only(s, 0), Nothing), Over(Only(s, Over(Only(s, 0), Nothing)), cache), s)
      BY <2>3, <2>4, <3>1, <3>4
    <3> HIDE DEF G
    <3> QED
      BY <3>2, <3>3, <3>5
  <2>10. CASE ByFile(pins, r, cache, fs, s, G(s))
    <3>1. PICK p, q, g : /\ OfBase(pins, r, cache, fs, b, p, q, g)
                         /\ G(s).parts = Over(Only(s, fs[s]), p)
                         /\ G(s).cache = Over(Only(s, G(s).parts), g)
      BY <2>10 DEF ByFile
    <3>2. s \notin DOMAIN cache
      BY <2>10 DEF ByFile
    <3>3. Closed(g) /\ Within(p, g) /\ Grows(cache, g, s) /\ s \notin DOMAIN g
      <4>1. CASE Get(r, fs, b).ok /\ Get(r, fs, b).parts # Nothing
        BY <2>1, <2>2, <4>1, GotIs
      <4>2. CASE b \in DOMAIN cache /\ p = cache[b] /\ g = cache
        BY <2>3, <3>2, <4>2 DEF Closed
      <4>3. CASE b \in DOMAIN pins /\ G(b).ok /\ p = G(b).parts /\ g = G(b).cache
        <5> HIDE DEF G
        <5>1. Closed(g) /\ Grows(cache, g, b) /\ b \in DOMAIN g /\ g[b] = p
          BY <2>6, <4>3
        <5>2. Within(p, g)
          BY <5>1 DEF Closed
        <5>3. b \in Ids /\ b \in Nat /\ s \in Nat /\ b > s
          BY <2>1, <4>3, BaseIn
        <5>4. \A u \in DOMAIN g : u \in Nat
          BY <5>1, BaseIn DEF Grows
        <5>5. \A u \in DOMAIN g : u \in DOMAIN cache \/ u > s
          BY <5>1, <5>3, <5>4 DEF Grows
        <5>6. Grows(cache, g, s)
          BY <5>1, <5>3, <5>4, <5>5 DEF Grows
        <5> QED
          BY <3>2, <5>1, <5>2, <5>3, <5>5, <5>6
      <4>4. CASE b \notin DOMAIN pins /\ p = Nothing /\ g = cache
        <5>1. Within(Nothing, cache)
          BY GotIs DEF Within
        <5> QED
          BY <2>3, <3>2, <4>4, <5>1
      <4> QED
        BY <3>1, <4>1, <4>2, <4>3, <4>4 DEF OfBase
    <3>4. Good(Over(Only(s, fs[s]), p), Over(Only(s, Over(Only(s, fs[s]), p)), g), s)
      BY <2>4, <3>3
    <3> HIDE DEF G
    <3> QED
      BY <3>1, <3>4
  <2> QED
    BY <2>5, <2>7, <2>8, <2>9, <2>10
<1> HIDE DEF T
<1>3. \A s \in 0 .. N : s \in T
  BY <1>1, <1>2, AlongBases
<1>4. \A s \in DOMAIN pins : s \in 0 .. N
  BY BaseIn
<1> QED
  BY <1>3, <1>4 DEF T

---------------------------------------------------------------------------
(* What the steps do to the memory of the command                          *)

IsWork(w) ==
  DOMAIN w = {"zone", "yaml", "pins", "res", "todo", "done", "cache", "reg", "option", "target", "got"}

\* w is v but for the skills to come, the contents and the readers.
SameCommand(v, w) ==
  w.zone = v.zone /\ w.yaml = v.yaml /\ w.pins = v.pins /\ w.res = v.res /\ w.target = v.target

\* What the users and an import may make of skills.yaml.
IsYaml(y) == y \in Yaml /\ ZoneId \in Zones(y) \cup {"default"}

Typed ==
  /\ files \in Files /\ IsYaml(yaml)
  /\ IsWork(work) /\ cmd \in Outcomes \cup Steps
  /\ work.todo \subseteq Ids
  /\ cmd = "import" =>
       /\ DOMAIN work.done \subseteq Ids
       /\ \A s \in work.todo \cup DOMAIN work.done : work.got[s] \in 0 .. MaxVersion

LEMMA NoWorkIs ==
  /\ IsWork(NoWork) /\ NoWork.pins = Nothing /\ NoWork.todo = {} /\ NoWork.done = Nothing
  /\ NoWork.cache = Nothing /\ NoWork.reg = Empty(None)
BY DEF NoWork, IsWork

LEMMA FirstIn ==
  ASSUME NEW T, T \subseteq Ids, T # {}
  PROVE  FirstOf(T) \in T
<1> DEFINE first == IF T \cap Loaded.forced # {} THEN T \cap Loaded.forced ELSE T
           plain == {s \in first : s \notin work.yaml.listed}
           front == IF plain # {} THEN plain ELSE first
<1>1. first \subseteq T /\ first # {}
  OBVIOUS
<1>2. FirstOf(T) = CHOOSE s \in first : \A t \in first \ {s} : Before(work.yaml, s, t)
  BY DEF FirstOf
<1> HIDE DEF first
<1>3. front \subseteq first /\ front # {}
  BY <1>1
<1>4. \A s \in front, t \in first : (t \in front /\ (s \in work.yaml.listed <=> t \in work.yaml.listed))
                                  \/ (s \notin work.yaml.listed /\ t \in work.yaml.listed)
  OBVIOUS
<1> HIDE DEF front
<1>5. first \subseteq Nat /\ front \subseteq Nat
  BY <1>1, <1>3, BaseIn
<1>6. PICK s \in front : \A t \in front : s <= t
  BY <1>3, <1>5, SameAssumptions, S!LeastMember
<1>7. \A t \in first \ {s} : Before(work.yaml, s, t)
  <2> SUFFICES ASSUME NEW t \in first, t # s PROVE Before(work.yaml, s, t)
    OBVIOUS
  <2>1. CASE s \notin work.yaml.listed /\ t \in work.yaml.listed
    BY <2>1 DEF Before
  <2>2. CASE t \in front /\ (s \in work.yaml.listed <=> t \in work.yaml.listed)
    <3>1. s \in Nat /\ t \in Nat /\ s <= t /\ s # t
      BY <1>5, <1>6, <2>2
    <3> QED
      BY <2>2, <3>1 DEF Before
  <2> QED
    BY <1>4, <2>1, <2>2
<1> QED
  BY <1>1, <1>2, <1>3, <1>7

Edited ==
  /\ cmd' = cmd /\ work' = work /\ ~quiet' /\ results' = results
  /\ files' \in Files /\ IsYaml(yaml')

\* A command that came through the parser and the resolver.
Started(zone, target) ==
  /\ cmd' \in {"validate", "compare", "load"}
  /\ cmd' = "compare" => zone \in Zones(yaml) \cup {DefaultZone(yaml)}
  /\ cmd' # "compare" => zone = ZoneId
  /\ cmd' = "load" => target \in {"directory", "file"}
  /\ quiet' /\ results' = results /\ sources' = sources
  /\ Parses(yaml, files) /\ IsWork(work')
  /\ work'.zone = zone /\ work'.yaml = yaml /\ work'.pins = Pins(yaml, files)
  /\ work'.res = Resolved(yaml, files, zone) /\ work'.todo = {} /\ work'.target = target
  /\ work'.done = Nothing /\ work'.cache = Nothing /\ work'.reg = Empty(None)

GaveUp == cmd' = "failed" /\ work' = NoWork /\ results' = results /\ sources' = sources

Validated ==
  /\ cmd = "validate" /\ cmd' = "read" /\ results' = results /\ sources' = sources /\ quiet' = quiet
  /\ IsWork(work') /\ SameCommand(work, work') /\ work'.todo = work.res.forced
  /\ work'.done = work.done /\ work'.cache = work.cache /\ work'.reg = work.reg

ForcedRead(s, got) ==
  /\ cmd = "read" /\ cmd' = "read" /\ results' = results /\ sources' = sources /\ quiet' = quiet
  /\ s \in work.todo /\ got = Read(work.pins, Empty(None), work.cache, files, s) /\ got.ok
  /\ IsWork(work') /\ SameCommand(work, work') /\ work'.todo = work.todo \ {s}
  /\ work'.done = Over(Only(s, got.parts), work.done) /\ work'.cache = got.cache
  /\ work'.reg = work.reg

ManifestWritten ==
  /\ cmd = "read" /\ work.todo = {} /\ sources' = sources /\ quiet' = quiet
  /\ agents' = [by |-> "build", parts |-> work.done]
  /\ lock' = lock /\ locked' = locked /\ exports' = exports
  /\ \/ cmd' = "lock" /\ work' = work
     \/ cmd' = "built" /\ work' = NoWork

RegistryLoaded ==
  /\ cmd = "load" /\ cmd' = "export" /\ results' = results /\ sources' = sources /\ quiet' = quiet
  /\ Load(Empty(work.zone), yaml, files).ok
  /\ IsWork(work') /\ SameCommand(work, work') /\ work'.todo = Visible(work.res)
  /\ work'.done = work.done /\ work'.cache = work.cache
  /\ work'.reg = Load(Empty(work.zone), yaml, files).r

ExportedOne(s, got, parts) ==
  /\ cmd = "export" /\ cmd' = "export" /\ sources' = sources /\ quiet' = quiet
  /\ lock' = lock /\ locked' = locked /\ agents' = agents
  /\ s \in work.todo /\ got = Read(work.pins, work.reg, work.cache, files, s)
  /\ IsWork(work') /\ SameCommand(work, work') /\ work'.todo = work.todo \ {s}
  /\ work'.done = Over(Only(s, parts), work.done)
  /\ \/ /\ got.ok /\ parts = got.parts /\ work'.cache = got.cache /\ work'.reg = got.reg
     \/ /\ s \notin work.res.forced /\ parts = Nothing
        /\ work'.cache = work.cache /\ work'.reg = work.reg
  /\ exports' = IF work.target = "directory" THEN Over(Only(s, parts), exports) ELSE exports

Imported ==
  /\ cmd' \in {"import", "imported"} /\ results' = results
  /\ files' \in Files /\ IsYaml(yaml') /\ IsWork(work') /\ work'.todo \subseteq Ids
  /\ work'.reg = Empty(None) \/ (cmd = "import" /\ work'.reg = work.reg)
  /\ cmd' = "import" =>
       /\ DOMAIN work'.done \subseteq Ids
       /\ \A s \in work'.todo \cup DOMAIN work'.done : work'.got[s] \in 0 .. MaxVersion

LEMMA ParseDoes ==
  ASSUME NEW next \in {"validate", "compare", "load"}, NEW zone, NEW option, NEW target,
         Parse(next, zone, option, target),
         next = "compare" => zone \in Zones(yaml) \cup {DefaultZone(yaml)},
         next # "compare" => zone = ZoneId,
         next = "load" => target \in {"directory", "file"}
  PROVE  Started(zone, target) \/ GaveUp
<1> DEFINE ok == Parses(yaml, files) /\ Resolved(yaml, files, zone).ok
<1>1. CASE ok
  <2>1. /\ Begins(next)
        /\ work' = [NoWork EXCEPT !.zone = zone, !.yaml = yaml, !.pins = Pins(yaml, files),
                                  !.res = Resolved(yaml, files, zone),
                                  !.option = option, !.target = target]
    BY <1>1 DEF Parse
  <2>2. /\ IsWork(work') /\ work'.zone = zone /\ work'.yaml = yaml /\ work'.pins = Pins(yaml, files)
        /\ work'.res = Resolved(yaml, files, zone) /\ work'.target = target
        /\ work'.todo = NoWork.todo /\ work'.done = NoWork.done
        /\ work'.cache = NoWork.cache /\ work'.reg = NoWork.reg
    BY <2>1, NoWorkIs DEF IsWork
  <2>3. cmd' = next /\ quiet' /\ results' = results /\ sources' = sources
    BY <2>1 DEF Begins
  <2> QED
    BY <1>1, <2>2, <2>3, NoWorkIs DEF Started
<1>2. CASE ~ok
  <2>1. Begins("failed") /\ work' = NoWork
    BY <1>2 DEF Parse
  <2> QED
    BY <2>1 DEF Begins, GaveUp
<1> QED
  BY <1>1, <1>2

LEMMA EditDoes == Typed /\ (EditFile \/ EditYaml) => Edited
<1> SUFFICES ASSUME Typed, EditFile \/ EditYaml PROVE Edited
  OBVIOUS
<1>1. files \in Files /\ IsYaml(yaml)
  BY DEF Typed
<1>2. CASE EditFile
  <2>1. PICK s \in Ids, v \in 0 .. MaxVersion : files' = [files EXCEPT ![s] = v]
    BY <1>2 DEF EditFile
  <2>2. files' \in Files
    BY <1>1, <2>1 DEF Files
  <2> QED
    BY <1>1, <1>2, <2>2 DEF EditFile, Edited
<1>3. CASE EditYaml
  <2>1. yaml' \in Yamls
    BY <1>3 DEF EditYaml
  <2>2. IsYaml(yaml')
    BY <2>1, WorkspaceAssumption DEF IsYaml
  <2> QED
    BY <1>1, <1>3, <2>2 DEF EditYaml, Edited
<1> QED
  BY <1>2, <1>3

LEMMA BuildDoes ==
  ASSUME Typed, Build \/ Validate \/ ReadForced \/ WriteManifest
  PROVE  \/ \E zone, target : Started(zone, target)
         \/ GaveUp \/ Validated \/ ManifestWritten
         \/ \E s, got : ForcedRead(s, got)
<1>1. IsWork(work) /\ work.todo \subseteq Ids
  BY DEF Typed
<1>2. CASE Build
  <2>1. PICK option \in BOOLEAN : Parse("validate", ZoneId, option, None)
    BY <1>2 DEF Build
  <2> QED
    BY <2>1, ParseDoes
<1>3. CASE Validate
  <2>1. work' = [work EXCEPT !.todo = work.res.forced]
    BY <1>3 DEF Validate, Loaded
  <2>2. /\ IsWork(work') /\ SameCommand(work, work') /\ work'.todo = work.res.forced
        /\ work'.done = work.done /\ work'.cache = work.cache /\ work'.reg = work.reg
    BY <1>1, <2>1 DEF IsWork, SameCommand
  <2> QED
    BY <1>3, <2>2 DEF Validate, Enter, Validated
<1>4. CASE ReadForced
  <2> DEFINE s == FirstOf(work.todo)
             got == Read(work.pins, Empty(None), work.cache, files, s)
  <2>1. s \in work.todo
    BY <1>1, <1>4, FirstIn DEF ReadForced
  <2> HIDE DEF s
  <2>2. /\ got.ok
        /\ work' = [work EXCEPT !.todo = @ \ {s}, !.cache = got.cache,
                                !.done = Over(Only(s, got.parts), @)]
    BY <1>4 DEF ReadForced, Known, s
  <2>3. got = Read(work.pins, Empty(None), work.cache, files, s)
    OBVIOUS
  <2> HIDE DEF got
  <2>4. /\ IsWork(work') /\ SameCommand(work, work') /\ work'.todo = work.todo \ {s}
        /\ work'.done = Over(Only(s, got.parts), work.done) /\ work'.cache = got.cache
        /\ work'.reg = work.reg
    BY <1>1, <2>2 DEF IsWork, SameCommand
  <2>5. cmd = "read" /\ cmd' = "read" /\ results' = results /\ sources' = sources /\ quiet' = quiet
    BY <1>4 DEF ReadForced
  <2>6. ForcedRead(s, got)
    BY <2>1, <2>2, <2>3, <2>4, <2>5 DEF ForcedRead
  <2> QED
    BY <2>6
<1>5. CASE WriteManifest
  <2>1. \/ cmd' = "lock" /\ work' = work
        \/ cmd' = "built" /\ work' = NoWork
    BY <1>5 DEF WriteManifest, Enter, End
  <2>2. sources' = sources /\ quiet' = quiet
    BY <1>5 DEF WriteManifest, Enter, End
  <2>3. ManifestWritten
    BY <1>5, <2>1, <2>2 DEF WriteManifest, ManifestWritten
  <2> QED
    BY <2>3
<1> QED
  BY <1>2, <1>3, <1>4, <1>5

LEMMA SyncDoes ==
  ASSUME Typed, Sync \/ LoadRegistry \/ Export
  PROVE  \/ \E zone, target : Started(zone, target)
         \/ GaveUp \/ RegistryLoaded
         \/ \E s, got, parts : ExportedOne(s, got, parts)
<1>1. IsWork(work) /\ work.todo \subseteq Ids
  BY DEF Typed
<1>2. CASE Sync
  <2>1. PICK full \in BOOLEAN, target \in {"directory", "file"} : Parse("load", ZoneId, full, target)
    BY <1>2 DEF Sync
  <2> QED
    BY <2>1, ParseDoes
<1>3. CASE LoadRegistry
  <2> DEFINE loaded == Load(Empty(work.zone), yaml, files)
  <2>1. loaded.ok /\ work' = [work EXCEPT !.reg = loaded.r, !.todo = Visible(work.res)]
    BY <1>3 DEF LoadRegistry, Loaded
  <2> HIDE DEF loaded
  <2>2. /\ IsWork(work') /\ SameCommand(work, work') /\ work'.todo = Visible(work.res)
        /\ work'.done = work.done /\ work'.cache = work.cache /\ work'.reg = loaded.r
    BY <1>1, <2>1 DEF IsWork, SameCommand
  <2>3. /\ cmd = "load" /\ cmd' = "export" /\ results' = results /\ sources' = sources
        /\ quiet' = quiet
    BY <1>3 DEF LoadRegistry, Enter
  <2>4. RegistryLoaded
    BY <2>1, <2>2, <2>3 DEF RegistryLoaded, loaded
  <2> QED
    BY <2>4
<1>4. CASE Export
  <2> DEFINE s == FirstOf(work.todo)
             got == Read(work.pins, work.reg, work.cache, files, s)
             whole == work.option \/ s \in work.res.forced
             parts == IF whole THEN got.parts ELSE Nothing
  <2>1. s \in work.todo
    BY <1>1, <1>4, FirstIn DEF Export
  <2> HIDE DEF s
  <2>2. /\ whole => got.ok
        /\ work' = [work EXCEPT !.todo  = @ \ {s},
                                !.cache = IF whole THEN got.cache ELSE @,
                                !.reg   = IF whole THEN got.reg ELSE @,
                                !.done  = Over(Only(s, parts), @)]
        /\ exports' = IF work.target = "directory" THEN Over(Only(s, parts), exports) ELSE exports
    BY <1>4 DEF Export, Known, Loaded, Exported, s
  <2>3. got = Read(work.pins, work.reg, work.cache, files, s)
    OBVIOUS
  <2>4. s \in work.res.forced => whole
    OBVIOUS
  <2>5. parts = IF whole THEN got.parts ELSE Nothing
    OBVIOUS
  <2>6. whole \in BOOLEAN
    OBVIOUS
  <2> HIDE DEF got, parts, whole
  <2>7. /\ IsWork(work') /\ SameCommand(work, work') /\ work'.todo = work.todo \ {s}
        /\ work'.done = Over(Only(s, parts), work.done)
        /\ work'.cache = (IF whole THEN got.cache ELSE work.cache)
        /\ work'.reg = (IF whole THEN got.reg ELSE work.reg)
    BY <1>1, <2>2 DEF IsWork, SameCommand
  <2>8. \/ got.ok /\ parts = got.parts /\ work'.cache = got.cache /\ work'.reg = got.reg
        \/ s \notin work.res.forced /\ parts = Nothing /\ work'.cache = work.cache /\ work'.reg = work.reg
    BY <2>2, <2>4, <2>5, <2>6, <2>7
  <2>9. /\ cmd = "export" /\ cmd' = "export" /\ sources' = sources /\ quiet' = quiet
        /\ lock' = lock /\ locked' = locked /\ agents' = agents
    BY <1>4 DEF Export
  <2>10. ExportedOne(s, got, parts)
    BY <2>1, <2>2, <2>3, <2>7, <2>8, <2>9 DEF ExportedOne
  <2> QED
    BY <2>10
<1> QED
  BY <1>2, <1>3, <1>4

LEMMA CheckDoes ==
  ASSUME Check
  PROVE  (\E zone, target : Started(zone, target)) \/ GaveUp
<1>1. PICK zone \in Zones(yaml) \cup {DefaultZone(yaml)} : Parse("compare", zone, FALSE, None)
  BY DEF Check
<1> QED
  BY <1>1, ParseDoes

LEMMA ImportDoes == Typed /\ (Import \/ WriteFile \/ Register) => Imported
<1> SUFFICES ASSUME Typed, Import \/ WriteFile \/ Register PROVE Imported
  OBVIOUS
<1>1. files \in Files /\ IsYaml(yaml) /\ IsWork(work) /\ work.todo \subseteq Ids
  BY DEF Typed
<1>2. CASE Import
  <2>1. /\ cmd' = "import" /\ results' = results /\ sources' = sources
    BY <1>2 DEF Import, Begins
  <2>2. PICK force \in BOOLEAN, T \in SUBSET Importable :
          \E got \in [T -> 1 .. MaxVersion] :
            work' = [NoWork EXCEPT !.option = force, !.got = got, !.todo = T]
    BY <1>2 DEF Import
  <2>3. PICK got \in [T -> 1 .. MaxVersion] :
          work' = [NoWork EXCEPT !.option = force, !.got = got, !.todo = T]
    BY <2>2
  <2>4. /\ IsWork(work') /\ work'.todo = T /\ work'.got = got /\ work'.done = Nothing
        /\ work'.reg = Empty(None)
    BY <2>3, NoWorkIs DEF IsWork
  <2>5. T \subseteq Ids /\ DOMAIN Nothing = {} /\ 1 .. MaxVersion \subseteq 0 .. MaxVersion
    BY WorkspaceAssumption, FilesAssumption, GotIs
  <2> QED
    BY <1>1, <2>1, <2>4, <2>5 DEF Imported, sources
<1>3. CASE WriteFile
  <2>1. /\ cmd = "import" /\ cmd' = "import" /\ results' = results /\ yaml' = yaml
    BY <1>3 DEF WriteFile
  <2>2. PICK s \in work.todo :
          LET new == files[s] = 0 \/ work.option
          IN  /\ files' = IF new THEN [files EXCEPT ![s] = work.got[s]] ELSE files
              /\ work' = [work EXCEPT !.todo = @ \ {s},
                                      !.done = IF new THEN Over(Only(s, work.got[s]), @) ELSE @]
    BY <1>3 DEF WriteFile
  <2>3. /\ DOMAIN work.done \subseteq Ids
        /\ \A u \in work.todo \cup DOMAIN work.done : work.got[u] \in 0 .. MaxVersion
    BY <2>1 DEF Typed
  <2>4. /\ IsWork(work') /\ work'.todo = work.todo \ {s} /\ work'.got = work.got
        /\ work'.reg = work.reg
        /\ work'.done = Over(Only(s, work.got[s]), work.done) \/ work'.done = work.done
    BY <1>1, <2>2 DEF IsWork
  <2>5. DOMAIN Over(Only(s, work.got[s]), work.done) = {s} \cup DOMAIN work.done
    BY AddingTo
  <2>6. DOMAIN work'.done \subseteq {s} \cup DOMAIN work.done
    BY <2>4, <2>5
  <2>7. files' \in Files
    BY <1>1, <2>2, <2>3 DEF Files
  <2> QED
    BY <1>1, <2>1, <2>3, <2>4, <2>6, <2>7 DEF Imported
<1>4. CASE Register
  <2> DEFINE new == DOMAIN work.done \ yaml.listed
  <2>1. /\ cmd = "import" /\ cmd' = "imported" /\ work' = NoWork /\ results' = results /\ files' = files
        /\ yaml' = [yaml EXCEPT !.listed = @ \cup new,
                                !.pin = [s \in Ids |-> IF s \in new THEN work.got[s] ELSE @[s]]]
    BY <1>4 DEF Register
  <2>2. new \subseteq Ids /\ \A s \in new : work.got[s] \in 0 .. MaxVersion
    BY <2>1 DEF Typed
  <2>3. yaml \in Yaml
    BY <1>1 DEF IsYaml
  <2> HIDE DEF new
  <2>4. /\ yaml' \in Yaml /\ yaml'.policy = yaml.policy
    BY <2>1, <2>2, <2>3 DEF Yaml
  <2>5. IsYaml(yaml')
    BY <1>1, <2>4 DEF IsYaml, Zones
  <2> QED
    BY <1>1, <2>1, <2>5, NoWorkIs DEF Imported
<1> QED
  BY <1>2, <1>3, <1>4

\* The steps of the specification, with what each leaves behind.
LEMMA StepIs ==
  ASSUME Typed, [Next]_vars
  PROVE  \/ Edited \/ GaveUp \/ Validated \/ ManifestWritten \/ RegistryLoaded \/ Imported
         \/ WriteLock \/ Compare \/ Finalize \/ UNCHANGED vars
         \/ \E zone, target : Started(zone, target)
         \/ \E s, got : ForcedRead(s, got)
         \/ \E s, got, parts : ExportedOne(s, got, parts)
<1>1. CASE EditFile \/ EditYaml
  BY <1>1, EditDoes
<1>2. CASE Build \/ Validate \/ ReadForced \/ WriteManifest
  BY <1>2, BuildDoes
<1>3. CASE Sync \/ LoadRegistry \/ Export
  BY <1>3, SyncDoes
<1>4. CASE Check
  BY <1>4, CheckDoes
<1>5. CASE Import \/ WriteFile \/ Register
  BY <1>5, ImportDoes
<1>6. CASE Fail
  <2>1. GaveUp
    BY <1>6 DEF Fail, End, Enter, GaveUp
  <2> QED
    BY <2>1
<1>7. CASE WriteLock \/ Compare \/ Finalize \/ UNCHANGED vars
  BY <1>7
<1> QED
  BY <1>1, <1>2, <1>3, <1>4, <1>5, <1>6, <1>7 DEF Next

---------------------------------------------------------------------------
(* The command that runs                                                   *)

Parsed == {"validate", "read", "lock", "compare", "load", "export"}

\* It knows what it works on; only an export has a registry.
Commanded ==
  /\ cmd \in Parsed =>
       /\ work.yaml \in Yaml /\ DOMAIN work.pins \subseteq Ids
       /\ Visible(work.res) \subseteq DOMAIN work.pins /\ work.todo \subseteq Visible(work.res)
  /\ cmd # "export" => work.reg = Empty(None)
  /\ cmd \in {"validate", "compare", "load"} => work.done = Nothing /\ work.cache = Nothing
  /\ cmd \in {"load", "export"} => work.target \in {"directory", "file"}

LEMMA CommandStep == Typed /\ Commanded /\ [Next]_vars => Typed' /\ Commanded'
<1> SUFFICES ASSUME Typed, Commanded, [Next]_vars PROVE Typed' /\ Commanded'
  OBVIOUS
<1>1. /\ files \in Files /\ IsYaml(yaml) /\ IsWork(work) /\ cmd \in Outcomes \cup Steps
      /\ work.todo \subseteq Ids
  BY DEF Typed
<1>2. CASE Edited \/ UNCHANGED vars
  <2>1. /\ files' \in Files /\ IsYaml(yaml') /\ cmd' = cmd /\ work' = work
    BY <1>1, <1>2 DEF Edited, vars, sources
  <2> QED
    BY <2>1 DEF Typed, Commanded, IsWork, Visible
<1>3. ASSUME cmd' \in Outcomes, work' = NoWork, sources' = sources PROVE Typed' /\ Commanded'
  <2>1. files' = files /\ yaml' = yaml /\ cmd' \notin Parsed \cup {"import"}
    BY <1>3 DEF sources, Outcomes, Parsed
  <2> QED
    BY <1>1, <1>3, <2>1, NoWorkIs DEF Typed, Commanded, IsWork, Parsed
<1>4. CASE GaveUp
  BY <1>3, <1>4 DEF GaveUp, Outcomes
<1>5. CASE Imported
  <2>1. work'.reg = Empty(None)
    BY <1>5 DEF Imported, Commanded
  <2> QED
    BY <1>5, <2>1 DEF Imported, Typed, Commanded, Parsed, Steps, Outcomes
<1>6. ASSUME NEW zone, NEW target, Started(zone, target) PROVE Typed' /\ Commanded'
  <2>1. files' = files /\ yaml' = yaml /\ yaml \in Yaml
    BY <1>1, <1>6 DEF Started, sources, IsYaml
  <2>2. /\ DOMAIN Pins(yaml, files) = Configured(yaml, files) /\ Configured(yaml, files) \subseteq Ids
    BY <2>1, PinsIn
  <2>3. Visible(work'.res) \subseteq Configured(yaml, files)
    BY <1>6, ResolvedIn DEF Started
  <2>4. Typed'
    BY <1>1, <1>6, <2>1 DEF Started, Typed, Steps
  <2>5. Commanded'
    BY <1>6, <2>1, <2>2, <2>3 DEF Started, Commanded
  <2> QED
    BY <2>4, <2>5
<1>7. ASSUME cmd \in Parsed, cmd' \in {"read", "lock", "export"}, sources' = sources, IsWork(work'),
             SameCommand(work, work'), work'.todo \subseteq Visible(work.res),
             cmd' # "export" => work'.reg = Empty(None),
             cmd' \in {"load", "export"} => cmd \in {"load", "export"}
      PROVE  Typed' /\ Commanded'
  <2>1. files' = files /\ yaml' = yaml /\ cmd' # "import" /\ cmd' \in Steps
    BY <1>7 DEF sources, Steps
  <2>2. Commanded'
    BY <1>7 DEF Parsed, Commanded, SameCommand, Visible
  <2>3. work'.todo \subseteq Ids
    BY <1>7 DEF Commanded
  <2>4. Typed'
    BY <1>1, <1>7, <2>1, <2>3 DEF Typed
  <2> QED
    BY <2>2, <2>4
<1>8. cmd \in Parsed => work.todo \subseteq Visible(work.res)
  BY DEF Commanded
<1>9. CASE Validated
  <2>1. work.res.forced \subseteq Visible(work.res)
    BY DEF Visible
  <2>2. cmd # "export"
    BY <1>9 DEF Validated
  <2> QED
    BY <1>7, <1>9, <2>1, <2>2 DEF Validated, Parsed, Commanded
<1>10. ASSUME NEW s, NEW got, ForcedRead(s, got) PROVE Typed' /\ Commanded'
  BY <1>7, <1>8, <1>10 DEF ForcedRead, Parsed, Commanded
<1>11. CASE ManifestWritten
  <2>1. CASE cmd' = "built" /\ work' = NoWork
    BY <1>3, <1>11, <2>1 DEF ManifestWritten, Outcomes
  <2>2. CASE cmd' = "lock" /\ work' = work
    BY <1>1, <1>7, <1>8, <1>11, <2>2 DEF ManifestWritten, Parsed, Commanded, SameCommand, IsWork
  <2> QED
    BY <1>11, <2>1, <2>2 DEF ManifestWritten
<1>12. CASE RegistryLoaded
  BY <1>7, <1>12 DEF RegistryLoaded, Parsed
<1>13. ASSUME NEW s, NEW got, NEW parts, ExportedOne(s, got, parts) PROVE Typed' /\ Commanded'
  BY <1>7, <1>8, <1>13 DEF ExportedOne, Parsed
<1>14. CASE WriteLock
  BY <1>3, <1>14 DEF WriteLock, End, Enter, Outcomes
<1>15. CASE Compare
  BY <1>3, <1>15 DEF Compare, End, Enter, Outcomes
<1>16. CASE Finalize
  <2>1. work.target \in {"directory", "file"}
    BY <1>16 DEF Finalize, Commanded
  <2> QED
    BY <1>3, <1>16, <2>1 DEF Finalize, End, Enter, Outcomes
<1> QED
  BY <1>2, <1>4, <1>5, <1>6, <1>9, <1>10, <1>11, <1>12, <1>13, <1>14, <1>15, <1>16, StepIs

---------------------------------------------------------------------------
(* What is delivered                                                       *)

AnyVersion == [u \in Ids |-> 0 .. MaxVersion]

\* Everything in memory is of a file with the recorded hash, or without one.
Told ==
  /\ S!RegSound(work.reg, AnyVersion)
  /\ cmd \in Parsed => /\ AllTell(work.pins, Index(work.reg), work.cache)
                       /\ AllTell(work.pins, Index(work.reg), work.done)

LEMMA EmptyRegistry ==
  ASSUME NEW zone, NEW old
  PROVE  S!RegSound(Empty(zone), old)
<1> DEFINE r == Empty(zone)
<1>1. DOMAIN r = {"zone", "skills", "all", "forced", "cache"}
  BY DEF Empty
<1>2. r.skills = Nothing /\ r.all = Nothing /\ r.forced = {} /\ r.cache = Nothing
  BY DEF Empty
<1> HIDE DEF r
<1>3. S!IsReg(r) /\ DOMAIN r.cache = {}
  BY <1>1, <1>2, GotIs DEF S!IsReg
<1>4. S!RegSound(r, old)
  BY <1>3, SameAssumptions, S!EmptySound
<1> QED
  BY <1>4 DEF r

LEMMA NothingTells ==
  ASSUME NEW pins, NEW ix
  PROVE  AllTell(pins, ix, Nothing) /\ Tells(pins, ix, Nothing)
BY GotIs DEF AllTell, Tells

LEMMA ReadDelivers ==
  ASSUME Typed, Commanded, Told, cmd \in Parsed, NEW s \in work.todo,
         Read(work.pins, work.reg, work.cache, files, s).ok
  PROVE  LET got == Read(work.pins, work.reg, work.cache, files, s)
         IN  /\ Tells(work.pins, Index(work.reg), got.parts)
             /\ AllTell(work.pins, Index(work.reg), got.cache)
             /\ S!RegSound(got.reg, AnyVersion) /\ Index(got.reg) = Index(work.reg)
<1>1. \A u \in Ids : files[u] \in AnyVersion[u]
  BY DEF Typed, Files, AnyVersion
<1>2. s \in DOMAIN work.pins /\ DOMAIN work.pins \subseteq Ids
  BY DEF Commanded
<1>3. S!RegSound(work.reg, AnyVersion) /\ AllTell(work.pins, Index(work.reg), work.cache)
  BY DEF Told
<1> QED
  BY <1>1, <1>2, <1>3, ReadTells

LEMMA ForcedDelivers ==
  ASSUME Typed, Commanded, Told, NEW s, NEW got, ForcedRead(s, got)
  PROVE  Tells(work.pins, Index(work.reg), got.parts) /\ AllTell(work.pins, Index(work.reg), got.cache)
<1>1. cmd = "read" /\ s \in work.todo
  BY DEF ForcedRead
<1>2. work.reg = Empty(None) /\ cmd \in Parsed
  BY <1>1 DEF Commanded, Parsed
<1>3. got = Read(work.pins, work.reg, work.cache, files, s) /\ got.ok
  BY <1>2 DEF ForcedRead
<1> QED
  BY <1>1, <1>2, <1>3, ReadDelivers

LEMMA ExportDelivers ==
  ASSUME Typed, Commanded, Told, NEW s, NEW got, NEW parts, ExportedOne(s, got, parts)
  PROVE  /\ Tells(work.pins, Index(work.reg), parts)
         /\ AllTell(work.pins, Index(work.reg), work'.cache)
         /\ S!RegSound(work'.reg, AnyVersion) /\ Index(work'.reg) = Index(work.reg)
<1>1. cmd \in Parsed /\ s \in work.todo /\ got = Read(work.pins, work.reg, work.cache, files, s)
  BY DEF ExportedOne, Parsed
<1>2. CASE got.ok /\ parts = got.parts /\ work'.cache = got.cache /\ work'.reg = got.reg
  BY <1>1, <1>2, ReadDelivers
<1>3. CASE parts = Nothing /\ work'.cache = work.cache /\ work'.reg = work.reg
  BY <1>1, <1>3, NothingTells DEF Told
<1> QED
  BY <1>2, <1>3 DEF ExportedOne

LEMMA ToldStep == Typed /\ Commanded /\ Told /\ [Next]_vars => Told'
<1> SUFFICES ASSUME Typed, Commanded, Told, [Next]_vars PROVE Told'
  OBVIOUS
<1>1. /\ S!RegSound(work.reg, AnyVersion)
      /\ cmd \in Parsed => /\ AllTell(work.pins, Index(work.reg), work.cache)
                           /\ AllTell(work.pins, Index(work.reg), work.done)
  BY DEF Told
<1>2. AnyVersion' = AnyVersion
  BY DEF AnyVersion
<1>3. ASSUME S!RegSound(work'.reg, AnyVersion),
             cmd' \in Parsed => /\ AllTell(work'.pins, Index(work'.reg), work'.cache)
                                /\ AllTell(work'.pins, Index(work'.reg), work'.done)
      PROVE  Told'
  <2>1. S!RegSound(work.reg, AnyVersion)'
    BY <1>3 DEF AnyVersion
  <2> QED
    BY <1>3, <2>1 DEF Told
<1>4. CASE Edited \/ UNCHANGED vars
  BY <1>1, <1>3, <1>4 DEF Edited, vars
<1>5. ASSUME work'.reg = Empty(None), cmd' \notin Parsed PROVE Told'
  BY <1>3, <1>5, EmptyRegistry
<1>6. CASE GaveUp
  BY <1>5, <1>6, NoWorkIs DEF GaveUp, Parsed
<1>7. CASE Imported
  BY <1>5, <1>7 DEF Imported, Commanded, Parsed
<1>8. ASSUME NEW zone, NEW target, Started(zone, target) PROVE Told'
  BY <1>3, <1>8, EmptyRegistry, NothingTells DEF Started
<1>9. CASE Validated
  BY <1>1, <1>3, <1>9 DEF Validated, SameCommand, Parsed
<1>10. ASSUME NEW s, NEW got, ForcedRead(s, got) PROVE Told'
  <2>1. Tells(work.pins, Index(work.reg), got.parts) /\ AllTell(work.pins, Index(work.reg), got.cache)
    BY <1>10, ForcedDelivers
  <2>2. cmd \in Parsed
    BY <1>10 DEF ForcedRead, Parsed
  <2>3. AllTell(work.pins, Index(work.reg), Over(Only(s, got.parts), work.done))
    BY <1>1, <2>1, <2>2, AllTellMore
  <2> QED
    BY <1>1, <1>3, <1>10, <2>1, <2>3 DEF ForcedRead, SameCommand
<1>11. CASE ManifestWritten
  <2>1. CASE cmd' = "built" /\ work' = NoWork
    BY <1>5, <2>1, NoWorkIs DEF Parsed
  <2>2. CASE cmd' = "lock" /\ work' = work
    BY <1>1, <1>3, <1>11, <2>2 DEF ManifestWritten, Parsed
  <2> QED
    BY <1>11, <2>1, <2>2 DEF ManifestWritten
<1>12. CASE RegistryLoaded
  <2> DEFINE r == Load(Empty(work.zone), yaml, files).r
  <2>1. \A u \in Ids : files[u] \in AnyVersion[u]
    BY DEF Typed, Files, AnyVersion
  <2>2. yaml \in Yaml /\ Load(Empty(work.zone), yaml, files).ok
    BY <1>12 DEF Typed, IsYaml, RegistryLoaded
  <2>3. S!RegSound(r, AnyVersion)
    BY <2>1, <2>2, LoadIs
  <2>4. AllTell(work.pins, Index(r), Nothing)
    BY NothingTells
  <2>5. work.done = Nothing /\ work.cache = Nothing
    BY <1>12 DEF RegistryLoaded, Commanded
  <2> HIDE DEF r
  <2>6. work'.reg = r /\ work'.pins = work.pins /\ work'.done = work.done /\ work'.cache = work.cache
    BY <1>12 DEF RegistryLoaded, SameCommand, r
  <2> QED
    BY <1>3, <2>3, <2>4, <2>5, <2>6
<1>13. ASSUME NEW s, NEW got, NEW parts, ExportedOne(s, got, parts) PROVE Told'
  <2>1. /\ Tells(work.pins, Index(work.reg), parts)
        /\ AllTell(work.pins, Index(work.reg), work'.cache)
        /\ S!RegSound(work'.reg, AnyVersion) /\ Index(work'.reg) = Index(work.reg)
    BY <1>13, ExportDelivers
  <2>2. cmd \in Parsed
    BY <1>13 DEF ExportedOne, Parsed
  <2>3. AllTell(work.pins, Index(work.reg), Over(Only(s, parts), work.done))
    BY <1>1, <2>1, <2>2, AllTellMore
  <2> QED
    BY <1>3, <1>13, <2>1, <2>3 DEF ExportedOne, SameCommand
<1>14. CASE WriteLock \/ Compare \/ Finalize
  <2>1. work' = NoWork /\ cmd' \notin Parsed
    BY <1>14 DEF WriteLock, Compare, Finalize, End, Enter, Commanded, Parsed
  <2> QED
    BY <1>5, <2>1, NoWorkIs
<1> QED
  BY <1>4, <1>6, <1>7, <1>8, <1>9, <1>10, <1>11, <1>12, <1>13, <1>14, StepIs

LEMMA WorkspaceBegins == Init => Typed /\ Commanded /\ Told
<1> SUFFICES ASSUME Init PROVE Typed /\ Commanded /\ Told
  OBVIOUS
<1>1. yaml \in Yamls /\ cmd = "idle" /\ work = NoWork
  BY DEF Init
<1>2. files \in Files
  BY <1>1, FilesAssumption, WorkspaceAssumption DEF Init, Files
<1>3. IsYaml(yaml)
  BY <1>1, WorkspaceAssumption DEF IsYaml
<1>4. S!RegSound(work.reg, AnyVersion)
  BY <1>1, NoWorkIs, EmptyRegistry
<1> QED
  BY <1>1, <1>2, <1>3, <1>4, NoWorkIs
  DEF Typed, Commanded, Told, Parsed, Outcomes, IsWork

LEMMA WorkspaceRuns == Spec => [](Typed /\ Commanded /\ Told)
BY WorkspaceBegins, CommandStep, ToldStep, PTL DEF Spec

LEMMA ToldDelivers ==
  ASSUME NEW parts, Tells(work.pins, Index(work.reg), parts)
  PROVE  MayDeliver(parts)
BY DEF Tells, MayDeliver, Known

\* Nothing reaches AGENTS.md or an export that is not what its skill's hash was
\* recorded for, in the configuration of the command or in that of its registry:
\* _read_skill and _resolve_content compare before they use what they read
\* (content_resolver.py, registry.py), and nothing else gets into their caches.
THEOREM DeliversPinned == Spec => DeliveredIsPinned
<1> DEFINE A ==
      /\ agents' # agents => \A s \in DOMAIN agents'.parts : MayDeliver(agents'.parts[s])
      /\ \A s \in DOMAIN exports' :
           (s \notin DOMAIN exports \/ exports'[s] # exports[s]) => MayDeliver(exports'[s])
<1>1. ASSUME Typed, Commanded, Told, [Next]_vars PROVE A
  <2>1. cmd \in Parsed => AllTell(work.pins, Index(work.reg), work.done)
    BY <1>1 DEF Told
  <2>2. CASE agents' = agents /\ exports' = exports
    BY <2>2
  <2>3. ASSUME cmd \in Parsed, exports' = exports, agents'.parts = work.done PROVE A
    <3>1. \A s \in DOMAIN work.done : MayDeliver(work.done[s])
      BY <2>1, <2>3, ToldDelivers DEF AllTell
    <3> QED
      BY <2>3, <3>1
  <2>4. ASSUME NEW s, NEW got, NEW parts, ExportedOne(s, got, parts) PROVE A
    <3> DEFINE h == Over(Only(s, parts), exports)
    <3>1. DOMAIN h = {s} \cup DOMAIN exports
      BY AddingTo
    <3>2. h[s] = parts /\ \A u \in DOMAIN exports : u = s \/ h[u] = exports[u]
      BY AddingAt
    <3> HIDE DEF h
    <3>3. MayDeliver(parts)
      BY <1>1, <2>4, ExportDelivers, ToldDelivers
    <3>4. exports' = h \/ exports' = exports
      BY <2>4 DEF ExportedOne, h
    <3>5. agents' = agents
      BY <2>4 DEF ExportedOne
    <3> QED
      BY <3>1, <3>2, <3>3, <3>4, <3>5
  <2>5. CASE ManifestWritten
    BY <2>3, <2>5 DEF ManifestWritten, Parsed
  <2>6. CASE Finalize
    <3>1. exports' = exports /\ cmd \in Parsed
      BY <2>6 DEF Finalize, Parsed
    <3>2. agents' = agents \/ agents'.parts = work.done
      BY <2>6 DEF Finalize
    <3> QED
      BY <2>2, <2>3, <3>1, <3>2
  <2>7. CASE WriteLock \/ Compare \/ UNCHANGED vars
    BY <2>2, <2>7 DEF WriteLock, Compare, vars, results
  <2>8. CASE Edited \/ GaveUp \/ Validated \/ RegistryLoaded \/ Imported
    BY <2>2, <2>8 DEF Edited, GaveUp, Validated, RegistryLoaded, Imported, results
  <2>9. ASSUME NEW zone, NEW target, Started(zone, target) PROVE A
    BY <2>2, <2>9 DEF Started, results
  <2>10. ASSUME NEW s, NEW got, ForcedRead(s, got) PROVE A
    BY <2>2, <2>10 DEF ForcedRead, results
  <2> HIDE DEF A
  <2> QED
    BY <1>1, <2>4, <2>5, <2>6, <2>7, <2>8, <2>9, <2>10, StepIs
<1>2. ASSUME Typed, Commanded, Told, [Next]_vars PROVE [A]_vars
  BY <1>1, <1>2
<1> HIDE DEF A
<1>3. Spec => [][A]_vars
  BY <1>2, WorkspaceRuns, PTL DEF Spec
<1> QED
  BY <1>3 DEF A, DeliveredIsPinned

---------------------------------------------------------------------------
(* What shares a base                                                      *)

\* A build puts nothing into its manifest that is not kept.
Shared ==
  /\ OneBasePerManifest
  /\ cmd \in {"validate", "read"} =>
       /\ DOMAIN work.cache \subseteq Ids /\ Closed(work.cache)
       /\ \A s \in DOMAIN work.done : s \in DOMAIN work.cache /\ work.done[s] = work.cache[s]

LEMMA NothingClosed == DOMAIN Nothing \subseteq Ids /\ Closed(Nothing)
BY GotIs DEF Closed

LEMMA SharedStep == Typed /\ Commanded /\ Shared /\ [Next]_vars => Shared'
<1> SUFFICES ASSUME Typed, Commanded, Shared, [Next]_vars PROVE Shared'
  OBVIOUS
<1>1. ASSUME agents' = agents \/ agents'.by # "build", cmd' \notin {"validate", "read"}
      PROVE  Shared'
  BY <1>1 DEF Shared, OneBasePerManifest
<1>2. ASSUME agents' = agents, cmd' \in {"validate", "read"} => (cmd \in {"validate", "read"} /\ work'.cache = work.cache /\ work'.done = work.done)
      PROVE  Shared'
  BY <1>2 DEF Shared, OneBasePerManifest, Closed, Within
<1>3. CASE Edited \/ UNCHANGED vars
  BY <1>2, <1>3 DEF Edited, vars, results
<1>4. CASE GaveUp \/ Imported \/ RegistryLoaded
  BY <1>1, <1>4 DEF GaveUp, Imported, RegistryLoaded, results
<1>5. ASSUME NEW zone, NEW target, Started(zone, target) PROVE Shared'
  <2>1. work'.done = Nothing /\ work'.cache = Nothing /\ agents' = agents
    BY <1>5 DEF Started, results
  <2>2. OneBasePerManifest'
    BY <2>1 DEF Shared, OneBasePerManifest
  <2>3. DOMAIN work'.cache \subseteq Ids /\ Closed(work'.cache) /\ DOMAIN work'.done = {}
    BY <2>1, NothingClosed, GotIs
  <2> QED
    BY <2>2, <2>3 DEF Shared, Closed, Within
<1>6. CASE Validated
  BY <1>2, <1>6 DEF Validated, results
<1>7. ASSUME NEW s, NEW got, ForcedRead(s, got) PROVE Shared'
  <2>1. /\ DOMAIN work.cache \subseteq Ids /\ Closed(work.cache)
        /\ \A u \in DOMAIN work.done : u \in DOMAIN work.cache /\ work.done[u] = work.cache[u]
    BY <1>7 DEF Shared, ForcedRead
  <2>2. s \in DOMAIN work.pins /\ DOMAIN work.pins \subseteq Ids
    BY <1>7 DEF Commanded, ForcedRead, Parsed
  <2>3. got.ok /\ got = Read(work.pins, Empty(None), work.cache, files, s)
    BY <1>7 DEF ForcedRead
  <2>4. /\ Closed(got.cache) /\ Grows(work.cache, got.cache, s)
        /\ s \in DOMAIN got.cache /\ got.cache[s] = got.parts
    BY <2>1, <2>2, <2>3, ReadClosed
  <2> DEFINE h == Over(Only(s, got.parts), work.done)
  <2>5. DOMAIN h = {s} \cup DOMAIN work.done
    BY AddingTo
  <2>6. h[s] = got.parts /\ \A u \in DOMAIN work.done : u = s \/ h[u] = work.done[u]
    BY AddingAt
  <2>7. work'.done = h /\ work'.cache = got.cache /\ agents' = agents
    BY <1>7 DEF ForcedRead, results
  <2> HIDE DEF h
  <2>8. OneBasePerManifest'
    BY <2>7 DEF Shared, OneBasePerManifest
  <2>9. \A u \in DOMAIN h : u \in DOMAIN got.cache /\ h[u] = got.cache[u]
    BY <2>1, <2>4, <2>5, <2>6 DEF Grows
  <2>10. DOMAIN got.cache \subseteq Ids
    BY <2>4 DEF Grows
  <2> QED
    BY <2>4, <2>7, <2>8, <2>9, <2>10 DEF Shared, Closed, Within
<1>8. CASE ManifestWritten
  <2>1. cmd = "read" /\ agents'.by = "build" /\ agents'.parts = work.done /\ cmd' \notin {"validate", "read"}
    BY <1>8 DEF ManifestWritten
  <2>2. /\ Closed(work.cache)
        /\ \A u \in DOMAIN work.done : u \in DOMAIN work.cache /\ work.done[u] = work.cache[u]
    BY <2>1 DEF Shared
  <2>3. \A u \in DOMAIN work.done : \A b \in DOMAIN work.done[u] : work.done[u][b] = work.cache[b][b]
    BY <2>2 DEF Closed, Within
  <2>4. OneBasePerManifest'
    BY <2>1, <2>3 DEF OneBasePerManifest
  <2> QED
    BY <2>1, <2>4 DEF Shared
<1>9. ASSUME NEW s, NEW got, NEW parts, ExportedOne(s, got, parts) PROVE Shared'
  BY <1>1, <1>9 DEF ExportedOne
<1>10. CASE WriteLock
  BY <1>1, <1>10 DEF WriteLock, End, Enter
<1>11. CASE Compare
  BY <1>1, <1>11 DEF Compare, End, Enter, results
<1>12. CASE Finalize
  <2>1. cmd' \in {"directory", "file"}
    BY <1>12 DEF Finalize, End, Enter, Commanded
  <2>2. agents' = agents \/ agents'.by = "sync"
    BY <1>12 DEF Finalize
  <2> QED
    BY <1>1, <2>1, <2>2
<1> QED
  BY <1>3, <1>4, <1>5, <1>6, <1>7, <1>8, <1>9, <1>10, <1>11, <1>12, StepIs

\* The skills of a manifest share one version of their base, whatever is edited
\* while the build reads: what the reader has read it keeps, bases too, and it
\* gives out nothing else (SkillContentResolver._cache).
THEOREM SharesBase == Spec => []OneBasePerManifest
<1>1. Init => Shared
  BY DEF Init, Shared, OneBasePerManifest, None
<1>2. Shared => OneBasePerManifest
  BY DEF Shared
<1> QED
  BY <1>1, <1>2, SharedStep, WorkspaceRuns, PTL DEF Spec

---------------------------------------------------------------------------
(* A command that nobody disturbs                                          *)

\* What was parsed is what is there, what was read is what the files say, and
\* what is not done is still to come.
Current ==
  cmd \in Parsed /\ quiet =>
    /\ Parses(yaml, files) /\ work.yaml = yaml /\ work.pins = Pins(yaml, files)
    /\ work.res = Resolved(yaml, files, work.zone)
    /\ cmd = "compare" => work.zone \in Zones(yaml) \cup {DefaultZone(yaml)}
    /\ cmd # "compare" => work.zone = ZoneId
    /\ Pure(work.pins, work.cache, files) /\ Honest(work.reg, work.pins, files)

IsFn(f) == f = [s \in DOMAIN f |-> f[s]]

Done ==
  cmd \in Parsed /\ quiet =>
    /\ \A s \in DOMAIN work.done \cap work.res.forced : Fresh(work.pins, files, s) = Got(work.done[s])
    /\ cmd = "read" => work.res.forced = DOMAIN work.done \cup work.todo
    /\ cmd = "lock" => work.res.forced = DOMAIN work.done
    /\ cmd \in {"read", "lock"} => IsFn(work.done)
    /\ cmd = "export" => Visible(work.res) \subseteq DOMAIN work.done \cup work.todo
    /\ cmd = "export" /\ work.target = "directory" =>
         \A s \in DOMAIN work.done : s \in DOMAIN exports /\ exports[s] = work.done[s]

LEMMA EmptyHonest ==
  ASSUME NEW pins, NEW fs, NEW zone
  PROVE  Honest(Empty(zone), pins, fs) /\ Pure(pins, Nothing, fs)
<1> DEFINE r == Empty(zone)
<1>1. IsReg(r) /\ r.skills = Nothing /\ r.all = Nothing /\ r.cache = Nothing
  BY DEF Empty, IsReg
<1> HIDE DEF r
<1>2. DOMAIN Index(r) = {}
  <2>1. Index(r) = Over(Nothing, Nothing)
    BY <1>1 DEF Index
  <2>2. DOMAIN Over(Nothing, Nothing) = DOMAIN Nothing \cup DOMAIN Nothing
    BY OverIs
  <2> QED
    BY <2>1, <2>2, GotIs
<1>3. Honest(r, pins, fs)
  BY <1>1, <1>2, GotIs DEF Honest
<1> QED
  BY <1>3, GotIs DEF r, Pure

LEMMA FnMore ==
  ASSUME NEW s, NEW x, NEW g
  PROVE  IsFn(Over(Only(s, x), g))
BY DEF IsFn, Over

LEMMA CurrentReads ==
  ASSUME Commanded, Current, quiet, cmd \in Parsed, NEW s \in work.todo,
         NEW r, r = work.reg \/ r = Empty(None), Read(work.pins, r, work.cache, files, s).ok
  PROVE  LET got == Read(work.pins, r, work.cache, files, s)
         IN  /\ Fresh(work.pins, files, s) = Got(got.parts)
             /\ Pure(work.pins, got.cache, files) /\ Honest(got.reg, work.pins, files)
<1>1. s \in DOMAIN work.pins /\ DOMAIN work.pins \subseteq Ids
  BY DEF Commanded
<1>2. Pure(work.pins, work.cache, files) /\ Honest(work.reg, work.pins, files)
  BY DEF Current
<1>3. Honest(r, work.pins, files)
  BY <1>2, EmptyHonest
<1> QED
  BY <1>1, <1>2, <1>3, ReadPure

LEMMA CurrentStep == Typed /\ Commanded /\ Current /\ [Next]_vars => Current'
<1> SUFFICES ASSUME Typed, Commanded, Current, [Next]_vars, quiet', cmd' \in Parsed PROVE Current'
  BY DEF Current
<1>1. ASSUME quiet, cmd \in Parsed, sources' = sources, SameCommand(work, work'),
             cmd' # "compare", cmd # "compare" \/ cmd' = cmd,
             Pure(work.pins, work'.cache, files), Honest(work'.reg, work.pins, files)
      PROVE  Current'
  <2>1. files' = files /\ yaml' = yaml
    BY <1>1 DEF sources
  <2>2. /\ work'.yaml = work.yaml /\ work'.pins = work.pins /\ work'.res = work.res
        /\ work'.zone = work.zone
    BY <1>1 DEF SameCommand
  <2>3. Pure(work'.pins, work'.cache, files') /\ Honest(work'.reg, work'.pins, files')
    BY <1>1, <2>1, <2>2
  <2> QED
    BY <1>1, <2>1, <2>2, <2>3 DEF Current, Pure, Honest
<1>2. quiet /\ cmd \in Parsed => Pure(work.pins, work.cache, files) /\ Honest(work.reg, work.pins, files)
  BY DEF Current
<1>3. ASSUME NEW zone, NEW target, Started(zone, target) PROVE Current'
  <2>1. files' = files /\ yaml' = yaml
    BY <1>3 DEF Started, sources
  <2>2. Pure(work'.pins, work'.cache, files') /\ Honest(work'.reg, work'.pins, files')
    BY <1>3, EmptyHonest DEF Started
  <2> QED
    BY <1>3, <2>1, <2>2 DEF Started, Current
<1>4. CASE Validated
  BY <1>1, <1>2, <1>4 DEF Validated, Parsed
<1>5. ASSUME NEW s, NEW got, ForcedRead(s, got) PROVE Current'
  <2>1. quiet /\ cmd \in Parsed /\ s \in work.todo
    BY <1>5 DEF ForcedRead, Parsed
  <2>2. got = Read(work.pins, Empty(None), work.cache, files, s) /\ got.ok
    BY <1>5 DEF ForcedRead
  <2>3. Pure(work.pins, got.cache, files)
    BY <2>1, <2>2, CurrentReads
  <2> QED
    BY <1>1, <1>2, <1>5, <2>1, <2>3 DEF ForcedRead
<1>6. CASE ManifestWritten
  <2>1. cmd' = "lock" /\ work' = work
    BY <1>6 DEF ManifestWritten, Parsed
  <2> QED
    BY <1>1, <1>2, <1>6, <2>1 DEF ManifestWritten, SameCommand, Parsed
<1>7. CASE RegistryLoaded
  <2>1. quiet /\ cmd \in Parsed /\ yaml \in Yaml
    BY <1>7 DEF RegistryLoaded, Parsed, Typed, IsYaml
  <2>2. \A u \in Ids : files[u] \in AnyVersion[u]
    BY DEF Typed, Files, AnyVersion
  <2>3. Honest(Load(Empty(work.zone), yaml, files).r, Pins(yaml, files), files)
    BY <1>7, <2>1, <2>2, LoadIs DEF RegistryLoaded
  <2>4. work.pins = Pins(yaml, files)
    BY <2>1 DEF Current
  <2> QED
    BY <1>1, <1>2, <1>7, <2>1, <2>3, <2>4 DEF RegistryLoaded
<1>8. ASSUME NEW s, NEW got, NEW parts, ExportedOne(s, got, parts) PROVE Current'
  <2>1. quiet /\ cmd \in Parsed /\ s \in work.todo
    BY <1>8 DEF ExportedOne, Parsed
  <2>2. got = Read(work.pins, work.reg, work.cache, files, s)
    BY <1>8 DEF ExportedOne
  <2>3. got.ok => Pure(work.pins, got.cache, files) /\ Honest(got.reg, work.pins, files)
    BY <2>1, <2>2, CurrentReads
  <2> QED
    BY <1>1, <1>2, <1>8, <2>1, <2>3 DEF ExportedOne
<1>9. ~(GaveUp \/ Imported \/ Edited)
  BY DEF GaveUp, Imported, Edited, Parsed
<1>10. ~(WriteLock \/ Compare \/ Finalize)
  BY DEF WriteLock, Compare, Finalize, End, Enter, Commanded, Parsed
<1>11. CASE UNCHANGED vars
  BY <1>11 DEF Current, vars, sources, Pure, Honest
<1> QED
  BY <1>3, <1>4, <1>5, <1>6, <1>7, <1>8, <1>9, <1>10, <1>11, StepIs

LEMMA DoneStep == Typed /\ Commanded /\ Current /\ Done /\ [Next]_vars => Done'
<1> SUFFICES ASSUME Typed, Commanded, Current, Done, [Next]_vars, quiet', cmd' \in Parsed PROVE Done'
  BY DEF Done
<1>1. ASSUME NEW zone, NEW target, Started(zone, target) PROVE Done'
  <2>1. DOMAIN work'.done = {} /\ cmd' \notin {"read", "lock", "export"}
    BY <1>1, GotIs DEF Started
  <2> QED
    BY <2>1 DEF Done
<1>2. CASE Validated
  <2>1. work'.done = Nothing /\ work'.todo = work'.res.forced /\ cmd' = "read"
    BY <1>2 DEF Validated, Commanded, SameCommand
  <2>2. IsFn(Nothing)
    BY DEF IsFn, Nothing
  <2> QED
    BY <2>1, <2>2, GotIs DEF Done, IsFn
<1>3. ASSUME NEW s, NEW got, ForcedRead(s, got) PROVE Done'
  <2> DEFINE h == Over(Only(s, got.parts), work.done)
  <2>1. DOMAIN h = {s} \cup DOMAIN work.done
    BY AddingTo
  <2>2. h[s] = got.parts /\ \A u \in DOMAIN work.done : u = s \/ h[u] = work.done[u]
    BY AddingAt
  <2>3. IsFn(h)
    BY FnMore
  <2>4. quiet /\ cmd = "read" /\ cmd' = "read" /\ s \in work.todo /\ files' = files /\ work'.done = h
    BY <1>3 DEF ForcedRead, sources
  <2>5. got = Read(work.pins, Empty(None), work.cache, files, s) /\ got.ok
    BY <1>3 DEF ForcedRead
  <2> HIDE DEF h
  <2>6. Fresh(work.pins, files, s) = Got(got.parts)
    BY <2>4, <2>5, CurrentReads DEF Parsed
  <2>7. work'.pins = work.pins /\ work'.res = work.res /\ work'.todo = work.todo \ {s}
    BY <1>3 DEF ForcedRead, SameCommand
  <2>8. /\ \A u \in DOMAIN work.done \cap work.res.forced : Fresh(work.pins, files, u) = Got(work.done[u])
        /\ work.res.forced = DOMAIN work.done \cup work.todo
    BY <2>4 DEF Done, Parsed
  <2>9. \A u \in DOMAIN h \cap work.res.forced : Fresh(work.pins, files, u) = Got(h[u])
    BY <2>1, <2>2, <2>6, <2>8
  <2>10. \A u \in DOMAIN work'.done \cap work'.res.forced :
           Fresh(work'.pins, files', u) = Got(work'.done[u])
    BY <2>4, <2>7, <2>9
  <2>11. work'.res.forced = DOMAIN work'.done \cup work'.todo
    BY <2>1, <2>4, <2>7, <2>8
  <2> QED
    BY <2>3, <2>4, <2>10, <2>11 DEF Done, IsFn, Fresh
<1>4. CASE ManifestWritten
  <2>1. cmd' = "lock" /\ work' = work /\ cmd = "read" /\ work.todo = {} /\ quiet /\ files' = files
    BY <1>4 DEF ManifestWritten, Parsed, sources
  <2> QED
    BY <2>1 DEF Done, Parsed, IsFn, Fresh
<1>5. CASE RegistryLoaded
  <2>1. work'.done = Nothing /\ cmd' = "export" /\ work'.todo = Visible(work'.res)
    BY <1>5 DEF RegistryLoaded, Commanded, SameCommand, Visible
  <2> QED
    BY <2>1, GotIs DEF Done, Visible
<1>6. ASSUME NEW s, NEW got, NEW parts, ExportedOne(s, got, parts) PROVE Done'
  <2> DEFINE h == Over(Only(s, parts), work.done)
             e == Over(Only(s, parts), exports)
  <2>1. DOMAIN h = {s} \cup DOMAIN work.done
    BY AddingTo
  <2>2. h[s] = parts /\ \A u \in DOMAIN work.done : u = s \/ h[u] = work.done[u]
    BY AddingAt
  <2>3. DOMAIN e = {s} \cup DOMAIN exports
    BY AddingTo
  <2>4. e[s] = parts /\ \A u \in DOMAIN exports : u = s \/ e[u] = exports[u]
    BY AddingAt
  <2>5. quiet /\ cmd = "export" /\ cmd' = "export" /\ s \in work.todo /\ files' = files /\ work'.done = h
    BY <1>6 DEF ExportedOne, sources
  <2>6. work.target = "directory" => exports' = e
    BY <1>6 DEF ExportedOne
  <2> HIDE DEF h, e
  <2>7. s \in work.res.forced => Fresh(work.pins, files, s) = Got(parts)
    <3>1. got = Read(work.pins, work.reg, work.cache, files, s)
      BY <1>6 DEF ExportedOne
    <3>2. got.ok => Fresh(work.pins, files, s) = Got(got.parts)
      BY <2>5, <3>1, CurrentReads DEF Parsed
    <3> QED
      BY <1>6, <3>2 DEF ExportedOne
  <2>8. /\ work'.pins = work.pins /\ work'.res = work.res /\ work'.todo = work.todo \ {s}
        /\ work'.target = work.target
    BY <1>6 DEF ExportedOne, SameCommand
  <2>9. /\ \A u \in DOMAIN work.done \cap work.res.forced : Fresh(work.pins, files, u) = Got(work.done[u])
        /\ Visible(work.res) \subseteq DOMAIN work.done \cup work.todo
        /\ work.target = "directory" =>
             \A u \in DOMAIN work.done : u \in DOMAIN exports /\ exports[u] = work.done[u]
    BY <2>5 DEF Done, Parsed
  <2>10. \A u \in DOMAIN h \cap work.res.forced : Fresh(work.pins, files, u) = Got(h[u])
    BY <2>1, <2>2, <2>7, <2>9
  <2>11. \A u \in DOMAIN work'.done \cap work'.res.forced :
           Fresh(work'.pins, files', u) = Got(work'.done[u])
    BY <2>5, <2>8, <2>10
  <2>12. Visible(work.res) \subseteq DOMAIN work'.done \cup work'.todo
    BY <2>1, <2>5, <2>8, <2>9
  <2>13. work'.target = "directory" =>
           \A u \in DOMAIN work'.done : u \in DOMAIN exports' /\ exports'[u] = work'.done[u]
    BY <2>1, <2>2, <2>3, <2>4, <2>5, <2>6, <2>8, <2>9
  <2> QED
    BY <2>5, <2>8, <2>11, <2>12, <2>13 DEF Done, Fresh, Visible
<1>7. ~(GaveUp \/ Imported \/ Edited)
  BY DEF GaveUp, Imported, Edited, Parsed
<1>8. ~(WriteLock \/ Compare \/ Finalize)
  BY DEF WriteLock, Compare, Finalize, End, Enter, Commanded, Parsed
<1>9. CASE UNCHANGED vars
  BY <1>9 DEF Done, vars, sources, results, IsFn, Fresh, Visible
<1> QED
  BY <1>1, <1>2, <1>3, <1>4, <1>5, <1>6, <1>7, <1>8, <1>9, StepIs

\* What a sync has left behind, while nothing is edited.
Synced ==
  /\ quiet /\ cmd = "directory" =>
       \A s \in Outcome.forced : Fresh(Pins(yaml, files), files, s) = Got(exports[s])
  /\ quiet /\ cmd = "file" =>
       \A s \in Outcome.forced : Fresh(Pins(yaml, files), files, s) = Got(agents.parts[s])

LEMMA SyncedStep == Typed /\ Commanded /\ Current /\ Done /\ Synced /\ [Next]_vars => Synced'
<1> SUFFICES ASSUME Typed, Commanded, Current, Done, Synced, [Next]_vars PROVE Synced'
  OBVIOUS
<1>1. ASSUME cmd' \notin {"directory", "file"} \/ ~quiet' PROVE Synced'
  BY <1>1 DEF Synced
<1>2. CASE Finalize
  <2> SUFFICES ASSUME quiet' PROVE Synced'
    BY <1>1
  <2>1. /\ cmd = "export" /\ work.todo = {} /\ cmd' = work.target /\ quiet
        /\ files' = files /\ yaml' = yaml /\ exports' = exports
        /\ cmd' = "file" => agents'.parts = work.done
    BY <1>2 DEF Finalize, End, Enter, sources
  <2>2. work.pins = Pins(yaml, files) /\ work.res = Outcome
    BY <2>1 DEF Current, Parsed, Outcome
  <2>3. Outcome.forced \subseteq DOMAIN work.done
    BY <2>1, <2>2 DEF Done, Parsed, Visible
  <2>4. \A s \in Outcome.forced : Fresh(Pins(yaml, files), files, s) = Got(work.done[s])
    BY <2>1, <2>2, <2>3 DEF Done, Parsed
  <2>5. cmd' = "directory" => \A s \in Outcome.forced : exports[s] = work.done[s]
    BY <2>1, <2>3 DEF Done, Parsed
  <2>6. cmd' = "directory" =>
          \A s \in Outcome'.forced : Fresh(Pins(yaml', files'), files', s) = Got(exports'[s])
    BY <2>1, <2>4, <2>5 DEF Outcome
  <2>7. cmd' = "file" =>
          \A s \in Outcome'.forced : Fresh(Pins(yaml', files'), files', s) = Got(agents'.parts[s])
    BY <2>1, <2>4 DEF Outcome
  <2> QED
    BY <2>6, <2>7 DEF Synced, Outcome, Fresh
<1>3. CASE Edited \/ GaveUp \/ Validated \/ ManifestWritten \/ RegistryLoaded \/ Imported
  BY <1>1, <1>3 DEF Edited, GaveUp, Validated, ManifestWritten, RegistryLoaded, Imported
<1>4. CASE WriteLock \/ Compare
  BY <1>1, <1>4 DEF WriteLock, Compare, End, Enter
<1>5. ASSUME NEW zone, NEW target, Started(zone, target) PROVE Synced'
  BY <1>1, <1>5 DEF Started
<1>6. ASSUME NEW s, NEW got, ForcedRead(s, got) PROVE Synced'
  BY <1>1, <1>6 DEF ForcedRead
<1>7. ASSUME NEW s, NEW got, NEW parts, ExportedOne(s, got, parts) PROVE Synced'
  BY <1>1, <1>7 DEF ExportedOne
<1>8. CASE UNCHANGED vars
  BY <1>8 DEF Synced, vars, sources, results, Outcome, Fresh
<1> QED
  BY <1>2, <1>3, <1>4, <1>5, <1>6, <1>7, <1>8, StepIs

LEMMA SyncRuns == Spec => [](Current /\ Done /\ Synced)
<1>1. Init => Current /\ Done /\ Synced
  BY DEF Init, Current, Done, Synced, Parsed
<1> QED
  BY <1>1, CurrentStep, DoneStep, SyncedStep, WorkspaceRuns, PTL DEF Spec

\* What a build would read now.
LEMMA ReadingIs ==
  ASSUME Typed, NEW s \in Outcome.forced, Reading(s).ok
  PROVE  Fresh(Pins(yaml, files), files, s) = Got(Reading(s).parts)
<1> DEFINE pins == Pins(yaml, files)
<1>1. yaml \in Yaml
  BY DEF Typed, IsYaml
<1>2. DOMAIN pins = Configured(yaml, files) /\ Configured(yaml, files) \subseteq Ids
  BY <1>1, PinsIn
<1>3. s \in DOMAIN pins /\ DOMAIN pins \subseteq Ids
  BY <1>2, ResolvedIn DEF Outcome
<1>4. Honest(Empty(None), pins, files) /\ Pure(pins, Nothing, files)
  BY EmptyHonest
<1> HIDE DEF pins
<1>5. Read(pins, Empty(None), Nothing, files, s).ok =>
        Fresh(pins, files, s) = Got(Read(pins, Empty(None), Nothing, files, s).parts)
  BY <1>3, <1>4, ReadPure
<1> QED
  BY <1>5 DEF Reading, pins

\* The registry and its fallback give the compiler's own contents: a sync that
\* nobody disturbs leaves in its target what a build puts into AGENTS.md
\* (mcp/registry.py against compiler/content_resolver.py).
THEOREM ReadersAgree == Spec => []SyncMatchesBuild
<1>1. Typed /\ Synced => SyncMatchesBuild
  <2> SUFFICES ASSUME Typed, Synced, quiet, Builds
               PROVE  /\ cmd = "directory" => \A s \in Outcome.forced : exports[s] = Manifest[s]
                      /\ cmd = "file" => \A s \in Outcome.forced : agents.parts[s] = Manifest[s]
    BY DEF SyncMatchesBuild
  <2>1. ASSUME NEW s \in Outcome.forced
        PROVE  Fresh(Pins(yaml, files), files, s) = Got(Manifest[s])
    <3>1. Reading(s).ok
      BY DEF Builds
    <3>2. Manifest[s] = Reading(s).parts
      BY DEF Manifest
    <3> QED
      BY <3>1, <3>2, ReadingIs
  <2>2. \A x, y : Got(x) = Got(y) => x = y
    BY DEF Got
  <2> QED
    BY <2>1, <2>2 DEF Synced
<1> QED
  BY <1>1, WorkspaceRuns, SyncRuns, PTL

---------------------------------------------------------------------------
(* What a lock says                                                        *)

\* The skills of a zone, and whether the zone or skills.yaml requires one.
Here(y, fs, zone) == {s \in Configured(y, fs) : zone = None \/ s \notin Elsewhere}
Needed(y, zone, s) == s \in y.required \/ ZonePolicy(y, zone) = "require"

\* A conflict takes no required skill away; of two required ones the command is
\* refused.
LEMMA ResolvedTo ==
  ASSUME NEW y \in Yaml, NEW fs, NEW zone
  PROVE  /\ Everyone(Resolved(y, fs, zone)) = Here(y, fs, zone)
         /\ Resolved(y, fs, zone).forced = {s \in Here(y, fs, zone) : Needed(y, zone, s)}
<1> DEFINE k == AsConfig(y, fs, zone)
           inZone == R(k)!InZone \cap Configured(y, fs)
           rival(s, t) == s # t /\ {s, t} \subseteq inZone /\ R(k)!Conflict(s, t)
           lost == {t \in inZone : \E s \in inZone : rival(s, t) /\ R(k)!Rank(s) > R(k)!Rank(t)}
           tied == {t \in inZone : \E s \in inZone : rival(s, t) /\ R(k)!Rank(s) = R(k)!Rank(t)}
           second == {t \in tied : ~R(k)!Forced(t) /\ \E s \in tied : rival(s, t) /\ Before(y, s, t)}
           loaded == inZone \ (lost \cup second)
           res == Resolved(y, fs, zone)
<1>1. /\ k.zone.policy = ZonePolicy(y, zone) /\ k.zone.skills = {} /\ k.zone.allow = {}
      /\ \A s \in Ids : /\ k.zones[s] = IF s \in Elsewhere THEN "elsewhere" ELSE "here"
                        /\ k.policy[s] = IF s \in y.required THEN "require" ELSE "free"
                        /\ k.priority[s] = 50
  BY DEF AsConfig
<1>2. ZonePolicy(y, zone) = "none" <=> zone = None
  BY DEF ZonePolicy, None
<1>3. /\ res.forced = {s \in loaded : R(k)!Forced(s)}
      /\ res.passive = {s \in loaded : ~R(k)!Forced(s)}
      /\ res.blocked = lost \cup second
  BY DEF Resolved
<1>4. Configured(y, fs) \subseteq Ids
  BY PinsIn
<1> HIDE DEF k, res
<1>5. R(k)!InZone = IF zone = None THEN Ids ELSE Ids \ Elsewhere
  BY <1>1, <1>2 DEF R!InZone, R!Ids, Ids
<1>6. inZone = Here(y, fs, zone)
  BY <1>4, <1>5 DEF Here
<1>7. \A s \in inZone : R(k)!Forced(s) <=> Needed(y, zone, s)
  BY <1>1, <1>4 DEF R!Forced, Needed
<1>8. \A s \in inZone : R(k)!Rank(s) = IF Needed(y, zone, s) THEN 1050 ELSE 50
  BY <1>1, <1>4, <1>7 DEF R!Rank
<1> HIDE DEF inZone
<1>9. \A s \in inZone : Needed(y, zone, s) => s \notin lost \cup second
  BY <1>7, <1>8
<1>10. lost \cup second \subseteq inZone
  OBVIOUS
<1>11. loaded = inZone \ (lost \cup second)
  OBVIOUS
<1> HIDE DEF lost, second, loaded
<1>12. Everyone(res) = inZone
  BY <1>3, <1>10, <1>11 DEF Everyone
<1>13. res.forced = {s \in inZone : Needed(y, zone, s)}
  BY <1>3, <1>7, <1>9, <1>11
<1> QED
  BY <1>6, <1>12, <1>13 DEF res

\* A clean check of the zone a lock was written for, or of no zone where there is
\* only the one that detect_zone makes up.
LEMMA CleanMeans ==
  ASSUME NEW y0 \in Yaml, NEW f0, NEW y \in Yaml, NEW fs,
         NEW zone \in Zones(y) \cup {DefaultZone(y)},
         Drift(Generate(y0, Resolved(y0, f0, ZoneId), ZoneId, f0), y, Resolved(y, fs, zone), zone, fs) = {}
  PROVE  /\ Resolved(y, fs, ZoneId).forced = Resolved(y0, f0, ZoneId).forced
         /\ \A s \in Here(y0, f0, ZoneId) : f0[s] = fs[s] /\ s \in Configured(y, fs)
<1> DEFINE old == Generate(y0, Resolved(y0, f0, ZoneId), ZoneId, f0)
           now == Generate(y, Resolved(y, fs, zone), zone, fs)
           H == Here(y0, f0, ZoneId)
<1>1. ZoneId # None
  BY WorkspaceAssumption
<1>2. old.zone = ZoneId /\ now.zone = IF zone = None THEN "default" ELSE zone
  BY <1>1 DEF Generate
<1>3. /\ old.entries = [s \in H |-> Entry(y0, f0, ZoneId, s)]
      /\ now.entries = [s \in Here(y, fs, zone) |-> Entry(y, fs, zone, s)]
  BY ResolvedTo DEF Generate
<1>4. /\ DOMAIN old.entries = DOMAIN now.entries
      /\ \A s \in DOMAIN old.entries : old.entries[s] = now.entries[s]
      /\ old.zone = now.zone
  <2> HIDE DEF old
  <2>1. Drift(old, y, Resolved(y, fs, zone), zone, fs) = {}
    BY DEF old
  <2> QED
    BY <2>1 DEF Drift
<1> HIDE DEF old, now
<1>5. Here(y, fs, zone) = H
  BY <1>3, <1>4
<1>6. \A s \in H : Entry(y0, f0, ZoneId, s) = Entry(y, fs, zone, s)
  BY <1>3, <1>4, <1>5
<1>7. \A s \in H : f0[s] = fs[s] /\ Effective(y0, ZoneId, s) = Effective(y, zone, s)
  BY <1>6 DEF Entry
<1>8. zone = ZoneId \/ (zone = None /\ y.policy = None)
  BY <1>1, <1>2, <1>4 DEF Zones, DefaultZone
<1>9. \A s : Needed(y, zone, s) <=> Needed(y, ZoneId, s)
  BY <1>1, <1>8 DEF Needed, ZonePolicy, None
<1>10. \A s \in H : Needed(y0, ZoneId, s) <=> Needed(y, ZoneId, s)
  <2>1. \A s : Effective(y0, ZoneId, s) = "require" <=> Needed(y0, ZoneId, s)
    BY DEF Effective, Needed
  <2>2. \A s : Effective(y, zone, s) = "require" <=> Needed(y, zone, s)
    BY DEF Effective, Needed
  <2> QED
    BY <1>7, <1>9, <2>1, <2>2
<1>11. Here(y, fs, ZoneId) = H
  <2>1. \A s \in H : s \notin Elsewhere
    BY <1>1 DEF Here
  <2> QED
    BY <1>1, <1>5, <1>8, <2>1 DEF Here
<1>12. Resolved(y, fs, ZoneId).forced = {s \in H : Needed(y, ZoneId, s)}
  BY <1>11, ResolvedTo
<1>13. Resolved(y0, f0, ZoneId).forced = {s \in H : Needed(y0, ZoneId, s)}
  BY ResolvedTo
<1>14. H \subseteq Configured(y, fs)
  BY <1>11 DEF Here
<1> QED
  BY <1>7, <1>10, <1>12, <1>13, <1>14

\* The same files of the same skills have the same contents, whatever their hashes.
LEMMA SameFresh ==
  ASSUME NEW p, DOMAIN p \subseteq Ids, NEW q, DOMAIN q \subseteq Ids, NEW f, NEW g,
         \A s \in Ids : f[s] = g[s] /\ (s \in DOMAIN p <=> s \in DOMAIN q)
  PROVE  \A s \in 0 .. N :
           Fresh(p, f, s).ok /\ Fresh(q, g, s).ok => Fresh(p, f, s) = Fresh(q, g, s)
<1> DEFINE F(s) == Fresh(p, f, s)
           G(s) == Fresh(q, g, s)
           T == {s \in 0 .. N : F(s).ok /\ G(s).ok => F(s) = G(s)}
<1>1. /\ F(0) = Got(Nothing)
      /\ \A s \in Ids : F(s) = IF s \notin DOMAIN p THEN Got(Nothing)
                               ELSE IF f[s] = 0 THEN Got(Only(s, 0))
                               ELSE IF ~PinHolds(p, f, s) \/ ~F(BaseOf[s]).ok THEN Raises
                               ELSE Got(Over(Only(s, f[s]), F(BaseOf[s]).parts))
  BY FreshIs
<1>2. /\ G(0) = Got(Nothing)
      /\ \A s \in Ids : G(s) = IF s \notin DOMAIN q THEN Got(Nothing)
                               ELSE IF g[s] = 0 THEN Got(Only(s, 0))
                               ELSE IF ~PinHolds(q, g, s) \/ ~G(BaseOf[s]).ok THEN Raises
                               ELSE Got(Over(Only(s, g[s]), G(BaseOf[s]).parts))
  BY FreshIs
<1>3. ~Raises.ok
  BY GotIs
<1> HIDE DEF F, G
<1>4. 0 \in T
  BY <1>1, <1>2, FilesAssumption
<1>5. ASSUME NEW s \in Ids, BaseOf[s] \in T PROVE s \in T
  <2>1. s \in 0 .. N
    BY BaseIn
  <2>2. F(s).ok /\ G(s).ok => F(s) = G(s)
    BY <1>1, <1>2, <1>3, <1>5
  <2> QED
    BY <2>1, <2>2
<1> HIDE DEF T
<1>6. \A s \in 0 .. N : s \in T
  BY <1>4, <1>5, AlongBases
<1> QED
  BY <1>6 DEF T, F, G

\* What the lock was written from.
LockedFrom(y) ==
  LET res == Resolved(y, locked.files, ZoneId)
  IN  /\ locked.pins = Pins(y, locked.files)
      /\ lock = Generate(y, res, ZoneId, locked.files)
      /\ DOMAIN locked.parts = res.forced /\ IsFn(locked.parts)
      /\ \A s \in res.forced : Fresh(locked.pins, locked.files, s) = Got(locked.parts[s])

Locked == locked.quiet => \E y \in Yaml : LockedFrom(y)

Checked ==
  quiet /\ cmd = "clean" =>
    \E zone \in Zones(yaml) \cup {DefaultZone(yaml)} :
      Drift(lock, yaml, Resolved(yaml, files, zone), zone, files) = {}

\* The entries hold the hashes of the files as they were when the lock was written.
Hashed == \A s \in DOMAIN lock.entries : lock.entries[s].hash = locked.files[s]

LEMMA HashedStep == Typed /\ Hashed /\ [Next]_vars => Hashed'
<1> SUFFICES ASSUME Typed, Hashed, [Next]_vars PROVE Hashed'
  OBVIOUS
<1>1. ASSUME lock' = lock, locked' = locked PROVE Hashed'
  BY <1>1 DEF Hashed
<1>2. CASE WriteLock
  <2>1. lock' = Generate(work.yaml, work.res, work.zone, files) /\ locked'.files = files
    BY <1>2 DEF WriteLock, Loaded
  <2> QED
    BY <2>1 DEF Hashed, Generate, Entry
<1>3. CASE Edited \/ GaveUp \/ Validated \/ ManifestWritten \/ RegistryLoaded \/ Imported
  BY <1>1, <1>3 DEF Edited, GaveUp, Validated, ManifestWritten, RegistryLoaded, Imported, results
<1>4. CASE Compare \/ Finalize \/ UNCHANGED vars
  BY <1>1, <1>4 DEF Compare, Finalize, vars, results
<1>5. ASSUME NEW zone, NEW target, Started(zone, target) PROVE Hashed'
  BY <1>1, <1>5 DEF Started, results
<1>6. ASSUME NEW s, NEW got, ForcedRead(s, got) PROVE Hashed'
  BY <1>1, <1>6 DEF ForcedRead, results
<1>7. ASSUME NEW s, NEW got, NEW parts, ExportedOne(s, got, parts) PROVE Hashed'
  BY <1>1, <1>7 DEF ExportedOne
<1> QED
  BY <1>2, <1>3, <1>4, <1>5, <1>6, <1>7, StepIs

LEMMA LockedStep == Typed /\ Commanded /\ Current /\ Done /\ Locked /\ [Next]_vars => Locked'
<1> SUFFICES ASSUME Typed, Commanded, Current, Done, Locked, [Next]_vars PROVE Locked'
  OBVIOUS
<1>1. ASSUME lock' = lock, locked' = locked PROVE Locked'
  BY <1>1 DEF Locked, LockedFrom, IsFn, Fresh
<1>2. CASE WriteLock
  <2> SUFFICES ASSUME quiet PROVE Locked'
    BY <1>2 DEF WriteLock, Locked
  <2>1. /\ cmd = "lock"
        /\ lock' = Generate(work.yaml, work.res, work.zone, files)
        /\ locked'.parts = work.done /\ locked'.pins = work.pins /\ locked'.files = files
    BY <1>2 DEF WriteLock, Loaded, Known
  <2>2. /\ work.yaml = yaml /\ work.pins = Pins(yaml, files) /\ work.zone = ZoneId
        /\ work.res = Resolved(yaml, files, ZoneId)
    BY <2>1 DEF Current, Parsed
  <2>3. /\ work.res.forced = DOMAIN work.done /\ IsFn(work.done)
        /\ \A s \in work.res.forced : Fresh(work.pins, files, s) = Got(work.done[s])
    BY <2>1 DEF Done, Parsed
  <2>4. yaml \in Yaml
    BY DEF Typed, IsYaml
  <2>5. LockedFrom(yaml)'
    <3>1. /\ locked'.pins = Pins(yaml, files)
          /\ lock' = Generate(yaml, Resolved(yaml, files, ZoneId), ZoneId, files)
          /\ DOMAIN locked'.parts = Resolved(yaml, files, ZoneId).forced /\ IsFn(locked'.parts)
          /\ \A s \in Resolved(yaml, files, ZoneId).forced :
               Fresh(locked'.pins, files, s) = Got(locked'.parts[s])
      BY <2>1, <2>2, <2>3
    <3>2. yaml' = yaml /\ locked'.files = files
      BY <1>2, <2>1 DEF WriteLock, End, Enter, sources
    <3> QED
      BY <3>1, <3>2 DEF LockedFrom, IsFn, Fresh
  <2>6. yaml' \in Yaml
    BY <1>2, <2>4 DEF WriteLock, End, Enter, sources
  <2> QED
    BY <2>5, <2>6 DEF Locked, LockedFrom
<1>3. CASE Edited \/ GaveUp \/ Validated \/ ManifestWritten \/ RegistryLoaded \/ Imported
  BY <1>1, <1>3 DEF Edited, GaveUp, Validated, ManifestWritten, RegistryLoaded, Imported, results
<1>4. CASE Compare \/ Finalize \/ UNCHANGED vars
  BY <1>1, <1>4 DEF Compare, Finalize, vars, results
<1>5. ASSUME NEW zone, NEW target, Started(zone, target) PROVE Locked'
  BY <1>1, <1>5 DEF Started, results
<1>6. ASSUME NEW s, NEW got, ForcedRead(s, got) PROVE Locked'
  BY <1>1, <1>6 DEF ForcedRead, results
<1>7. ASSUME NEW s, NEW got, NEW parts, ExportedOne(s, got, parts) PROVE Locked'
  BY <1>1, <1>7 DEF ExportedOne
<1> QED
  BY <1>2, <1>3, <1>4, <1>5, <1>6, <1>7, StepIs

LEMMA CheckedStep == Typed /\ Commanded /\ Current /\ Checked /\ [Next]_vars => Checked'
<1> SUFFICES ASSUME Typed, Commanded, Current, Checked, [Next]_vars PROVE Checked'
  OBVIOUS
<1>1. ASSUME cmd' # "clean" \/ ~quiet' PROVE Checked'
  BY <1>1 DEF Checked
<1>2. CASE Compare
  <2> SUFFICES ASSUME quiet', cmd' = "clean" PROVE Checked'
    BY <1>1
  <2>1. /\ cmd = "compare" /\ quiet /\ sources' = sources /\ lock' = lock
        /\ Drift(lock, work.yaml, work.res, work.zone, files) = {}
    BY <1>2 DEF Compare, End, Enter, results, Loaded
  <2>2. /\ work.yaml = yaml /\ work.res = Resolved(yaml, files, work.zone)
        /\ work.zone \in Zones(yaml) \cup {DefaultZone(yaml)}
    BY <2>1 DEF Current, Parsed
  <2>3. yaml' = yaml /\ files' = files
    BY <2>1 DEF sources
  <2> QED
    BY <2>1, <2>2, <2>3 DEF Checked
<1>3. CASE Edited \/ GaveUp \/ Validated \/ ManifestWritten \/ RegistryLoaded \/ Imported
  BY <1>1, <1>3 DEF Edited, GaveUp, Validated, ManifestWritten, RegistryLoaded, Imported
<1>4. CASE WriteLock
  BY <1>1, <1>4 DEF WriteLock, End, Enter
<1>5. CASE Finalize
  BY <1>1, <1>5 DEF Finalize, End, Enter, Commanded
<1>6. ASSUME NEW zone, NEW target, Started(zone, target) PROVE Checked'
  BY <1>1, <1>6 DEF Started
<1>7. ASSUME NEW s, NEW got, ForcedRead(s, got) PROVE Checked'
  BY <1>1, <1>7 DEF ForcedRead
<1>8. ASSUME NEW s, NEW got, NEW parts, ExportedOne(s, got, parts) PROVE Checked'
  BY <1>1, <1>8 DEF ExportedOne
<1>9. CASE UNCHANGED vars
  BY <1>9 DEF Checked, vars, sources, results
<1> QED
  BY <1>2, <1>3, <1>4, <1>5, <1>6, <1>7, <1>8, <1>9, StepIs

\* What a clean check shows of a lock: for every lock that the files of its entries
\* are those it was written from, and for one of an undisturbed build that it stands
\* for the manifest of then; the entries give the required skills and their files
\* back, and what they do not hold is taken to be as it was (compiler/lock.py).
THEOREM LocksReproduce == Spec => []LockReproduces
<1>1. Init => Locked /\ Checked /\ Hashed
  BY DEF Init, Locked, Checked, Hashed, NoLock
<1>2. ASSUME Typed, Checked, Hashed, cmd = "clean", quiet, NEW s \in DOMAIN lock.entries
      PROVE  s \in Configured(yaml, files) /\ files[s] = locked.files[s]
  <2>1. PICK zone \in Zones(yaml) \cup {DefaultZone(yaml)} :
          Drift(lock, yaml, Resolved(yaml, files, zone), zone, files) = {}
    BY <1>2 DEF Checked
  <2> DEFINE now == Generate(yaml, Resolved(yaml, files, zone), zone, files)
  <2>2. s \in DOMAIN now.entries /\ lock.entries[s] = now.entries[s]
    <3> HIDE DEF now
    <3>1. (DOMAIN lock.entries \ DOMAIN now.entries) = {}
      BY <2>1 DEF Drift, now
    <3>2. {u \in DOMAIN lock.entries \cap DOMAIN now.entries :
             lock.entries[u] # now.entries[u]} = {}
      BY <2>1 DEF Drift, now
    <3> QED
      BY <1>2, <3>1, <3>2
  <2>3. now.entries = [u \in Here(yaml, files, zone) |-> Entry(yaml, files, zone, u)]
    <3>1. yaml \in Yaml
      BY <1>2 DEF Typed, IsYaml
    <3> QED
      BY <3>1, ResolvedTo DEF Generate
  <2> HIDE DEF now
  <2>4. s \in Configured(yaml, files) /\ now.entries[s].hash = files[s]
    BY <2>2, <2>3 DEF Here, Entry
  <2> QED
    BY <1>2, <2>2, <2>4 DEF Hashed
<1>3. Typed /\ Locked /\ Checked /\ Hashed => LockReproduces
  <2> SUFFICES ASSUME Typed, Locked, Checked, cmd = "clean", quiet, Builds, locked.quiet,
                      \A s \in Ids \ DOMAIN lock.entries :
                        /\ locked.files[s] = files[s]
                        /\ s \in DOMAIN locked.pins <=> s \in Configured(yaml, files)
               PROVE  Manifest = locked.parts
    BY <1>2 DEF LockReproduces
  <2> DEFINE p == locked.pins
             q == Pins(yaml, files)
  <2>1. PICK y \in Yaml : LockedFrom(y)
    BY DEF Locked
  <2> DEFINE H == Here(y, locked.files, ZoneId)
             needed == Resolved(y, locked.files, ZoneId).forced
  <2>2. /\ p = Pins(y, locked.files)
        /\ lock = Generate(y, Resolved(y, locked.files, ZoneId), ZoneId, locked.files)
        /\ DOMAIN locked.parts = needed /\ IsFn(locked.parts)
        /\ \A s \in needed : Fresh(p, locked.files, s) = Got(locked.parts[s])
    BY <2>1 DEF LockedFrom
  <2>3. PICK zone \in Zones(yaml) \cup {DefaultZone(yaml)} :
          Drift(lock, yaml, Resolved(yaml, files, zone), zone, files) = {}
    BY DEF Checked
  <2>4. yaml \in Yaml
    BY DEF Typed, IsYaml
  <2>5. /\ Outcome.forced = needed
        /\ \A s \in H : locked.files[s] = files[s] /\ s \in Configured(yaml, files)
    BY <2>2, <2>3, <2>4, CleanMeans DEF Outcome
  <2>6. DOMAIN lock.entries = H
    BY <2>2, ResolvedTo DEF Generate
  <2>7. DOMAIN p = Configured(y, locked.files) /\ DOMAIN p \subseteq Ids
    BY <2>2, PinsIn
  <2>8. DOMAIN q = Configured(yaml, files) /\ DOMAIN q \subseteq Ids
    BY <2>4, PinsIn
  <2>9. H \subseteq DOMAIN p
    BY <2>7 DEF Here
  <2> HIDE DEF p, q, H
  <2>10. \A s \in Ids : locked.files[s] = files[s] /\ (s \in DOMAIN p <=> s \in DOMAIN q)
    BY <2>5, <2>6, <2>8, <2>9 DEF p
  <2>11. \A s \in 0 .. N : Fresh(p, locked.files, s).ok /\ Fresh(q, files, s).ok
                             => Fresh(p, locked.files, s) = Fresh(q, files, s)
    BY <2>7, <2>8, <2>10, SameFresh
  <2>12. ASSUME NEW s \in Outcome.forced PROVE Manifest[s] = locked.parts[s]
    <3>1. Reading(s).ok /\ Manifest[s] = Reading(s).parts
      BY DEF Builds, Manifest
    <3>2. Fresh(q, files, s) = Got(Manifest[s])
      BY <3>1, ReadingIs DEF q
    <3>3. Fresh(p, locked.files, s) = Got(locked.parts[s])
      BY <2>2, <2>5
    <3>4. s \in 0 .. N
      BY <2>4, ResolvedIn, PinsIn, BaseIn DEF Outcome
    <3>5. Got(Manifest[s]) = Got(locked.parts[s])
      BY <2>11, <3>2, <3>3, <3>4, GotIs
    <3> QED
      BY <3>5, GotIs
  <2>13. Manifest = [s \in Outcome.forced |-> Manifest[s]]
    BY DEF Manifest
  <2>14. locked.parts = [s \in Outcome.forced |-> locked.parts[s]]
    BY <2>2, <2>5 DEF IsFn
  <2> HIDE DEF needed
  <2> QED
    BY <2>12, <2>13, <2>14
<1> QED
  BY <1>1, <1>3, LockedStep, CheckedStep, HashedStep, WorkspaceRuns, SyncRuns, PTL DEF Spec
=============================================================================
