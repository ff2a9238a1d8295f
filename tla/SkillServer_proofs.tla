-------------------------- MODULE SkillServer_proofs --------------------------
(***************************************************************************)
(* What an MCP server answers, for any number of skills and versions, any  *)
(* bases and pins, and any edits, reloads and calls.  The contents are put *)
(* together by recursive functions along the bases; what they compute is   *)
(* proved by induction along them.                                         *)
(***************************************************************************)
EXTENDS SkillServer, WellFoundedInduction, TLAPS

---------------------------------------------------------------------------
(* Induction *)

LEMMA LeastMember ==
  ASSUME NEW T, T \subseteq Nat, T # {}
  PROVE  \E x \in T : \A y \in T : x <= y
<1> DEFINE Less == OpToRel(<, Nat)
<1>1. IsWellFoundedOn(Less, Nat)
  BY NatLessThanWellFounded
<1>2. \A x, y \in Nat : y < x => <<y, x>> \in Less
  BY DEF OpToRel
<1> HIDE DEF Less
<1>3. PICK x \in T : \A y \in T : ~(<<y, x>> \in Less)
  BY <1>1, WFMin
<1>4. \A y \in T : ~(y < x)
  BY <1>2, <1>3
<1>5. \A y \in T : x <= y
  BY <1>4
<1> QED
  BY <1>5

\* From 0 to n.
LEMMA Upwards ==
  ASSUME NEW n \in Nat, NEW T, 0 \in T, \A k \in 1 .. n : k - 1 \in T => k \in T
  PROVE  \A k \in 0 .. n : k \in T
<1> DEFINE U == {k \in 0 .. n : k \notin T}
<1> SUFFICES ASSUME U # {} PROVE FALSE
  OBVIOUS
<1>1. U \subseteq Nat
  OBVIOUS
<1>2. PICK k \in U : \A l \in U : k <= l
  BY <1>1, LeastMember
<1>3. k \in 1 .. n /\ k - 1 \in 0 .. n /\ ~(k <= k - 1)
  BY <1>2
<1>4. k - 1 \in T
  BY <1>2, <1>3
<1> QED
  BY <1>2, <1>3, <1>4

\* Along the bases: a base comes after its skills.
LEMMA AlongBases ==
  ASSUME NEW T, 0 \in T, \A s \in Ids : BaseOf[s] \in T => s \in T
  PROVE  \A s \in 0 .. N : s \in T
<1> DEFINE U == {k \in 0 .. N : \A s \in Ids : s > N - k => s \in T}
<1>1. N \in Nat /\ Ids = 1 .. N
  BY FilesAssumption DEF Ids
<1>2. 0 \in U
  BY <1>1
<1>3. ASSUME NEW k \in 1 .. N, k - 1 \in U PROVE k \in U
  <2> DEFINE t == N - k + 1
  <2>1. t \in Ids /\ t \in Nat
    BY <1>1
  <2>2. \A s \in Ids : s > t => s \in T
    BY <1>1, <1>3
  <2>3. BaseOf[t] = 0 \/ (BaseOf[t] \in Ids /\ BaseOf[t] > t)
    <3>1. BaseOf[t] \in 0 .. N /\ (BaseOf[t] = 0 \/ BaseOf[t] > t)
      BY <2>1, FilesAssumption
    <3> QED
      BY <1>1, <3>1
  <2>4. t \in T
    BY <2>1, <2>2, <2>3
  <2>5. \A s \in Ids : s > N - k => s = t \/ s > t
    BY <1>1
  <2> QED
    BY <1>1, <2>2, <2>4, <2>5
<1>4. \A k \in 0 .. N : k \in U
  BY <1>1, <1>2, <1>3, Upwards
<1>5. N \in U /\ N - N = 0
  BY <1>1, <1>4
<1>6. \A s \in Ids : s > 0
  BY <1>1
<1>7. \A s \in 0 .. N : s = 0 \/ s \in Ids
  BY <1>1
<1> QED
  BY <1>5, <1>6, <1>7

---------------------------------------------------------------------------
(* The recursive functions *)

\* The bodies of Content, Cached and ReadAll, with x for what the base or the
\* skill before has brought.
Read1(pins, cache, fs, s, x) ==
  IF s \in DOMAIN cache THEN Got(cache[s])
  ELSE IF s \notin DOMAIN pins THEN Got(Nothing)
  ELSE IF fs[s] = 0 THEN Got(Only(s, 0))
  ELSE IF ~PinHolds(pins, fs, s) THEN Raises
  ELSE IF ~x.ok THEN Raises
  ELSE Got(Over(Only(s, fs[s]), x.parts))

Keep1(pins, cache, fs, s, x) ==
  IF s \in DOMAIN cache \/ s \notin DOMAIN pins THEN cache
  ELSE IF fs[s] = 0 THEN cache
  ELSE Over(x, Only(s, Content(pins, cache, fs, s).parts))

Walk1(fs, S, n, x) ==
  IF n \notin S \/ ~x.ok THEN x
  ELSE [r |-> Remember(x.r, fs, n), ok |-> Get(x.r, fs, n).ok]

Reads(pins, cache, fs, g) == [s \in 0 .. N |-> Read1(pins, cache, fs, s, g[BaseOf[s]])]
Keeps(pins, cache, fs, h) == [s \in 0 .. N |-> Keep1(pins, cache, fs, s, h[BaseOf[s]])]
Walks(r, fs, S, w) ==
  [n \in 0 .. N |-> IF n = 0 THEN [r |-> r, ok |-> TRUE] ELSE Walk1(fs, S, n, w[n - 1])]

Contents(pins, cache, fs) == CHOOSE g : g = Reads(pins, cache, fs, g)
Kept(pins, cache, fs) == CHOOSE h : h = Keeps(pins, cache, fs, h)
Walk(r, fs, S) == CHOOSE w : w = Walks(r, fs, S, w)

LEMMA ContentFor ==
  ASSUME NEW pins, NEW cache, NEW fs, NEW s
  PROVE  Content(pins, cache, fs, s) = Contents(pins, cache, fs)[s]
BY DEF Content, Contents, Reads, Read1

LEMMA CachedFor ==
  ASSUME NEW pins, NEW cache, NEW fs, NEW s
  PROVE  Cached(pins, cache, fs, s) =
           IF Content(pins, cache, fs, s).ok THEN Kept(pins, cache, fs)[s] ELSE cache
BY DEF Cached, Kept, Keeps, Keep1

LEMMA ReadAllFor ==
  ASSUME NEW r, NEW fs, NEW S
  PROVE  ReadAll(r, fs, S) = Walk(r, fs, S)[N]
BY DEF ReadAll, Walk, Walks, Walk1

\* The recursions have solutions: from the last skill down to the first one.
LEMMA ReadsExist ==
  ASSUME NEW pins, DOMAIN pins \subseteq Ids, NEW cache, DOMAIN cache \subseteq Ids, NEW fs
  PROVE  \E g : g = Reads(pins, cache, fs, g)
<1> DEFINE One(s, x) == Read1(pins, cache, fs, s, x)
           Solves(g, k) == /\ DOMAIN g = 0 .. N /\ g = [s \in DOMAIN g |-> g[s]]
                           /\ g[0] = Got(Nothing)
                           /\ \A s \in Ids : s > N - k => g[s] = One(s, g[BaseOf[s]])
           U == {k \in 0 .. N : \E g : Solves(g, k)}
<1>1. N \in Nat /\ Ids = 1 .. N /\ 0 \notin Ids
  BY FilesAssumption DEF Ids
<1>2. 0 \in U
  <2>1. Solves([s \in 0 .. N |-> Got(Nothing)], 0)
    BY <1>1
  <2> QED
    BY <1>1, <2>1
<1>3. ASSUME NEW k \in 1 .. N, k - 1 \in U PROVE k \in U
  <2> DEFINE t == N - k + 1
  <2>1. PICK g : Solves(g, k - 1)
    BY <1>3
  <2> DEFINE v == One(t, g[BaseOf[t]])
             h == [g EXCEPT ![t] = v]
  <2>2. t \in Ids /\ t \in 0 .. N /\ t # 0
    BY <1>1
  <2>3. \A s \in Ids : s > N - k => s = t \/ s > N - (k - 1)
    BY <1>1
  <2>4. \A s \in Ids : s > N - k => BaseOf[s] \in 0 .. N /\ BaseOf[s] # t
    <3> SUFFICES ASSUME NEW s \in Ids, s > N - k PROVE BaseOf[s] \in 0 .. N /\ BaseOf[s] # t
      OBVIOUS
    <3>1. BaseOf[s] \in 0 .. N /\ (BaseOf[s] = 0 \/ BaseOf[s] > s)
      BY FilesAssumption
    <3> QED
      BY <1>1, <2>2, <3>1
  <2> HIDE DEF One, v
  <2>5. DOMAIN h = 0 .. N /\ h[t] = v /\ \A s \in 0 .. N : s # t => h[s] = g[s]
    BY <2>1, <2>2
  <2> HIDE DEF t
  <2>6. ASSUME NEW s \in Ids, s > N - k PROVE h[s] = One(s, h[BaseOf[s]])
    <3>1. h[BaseOf[s]] = g[BaseOf[s]]
      BY <2>4, <2>5, <2>6
    <3>2. CASE s = t
      BY <2>5, <3>1, <3>2 DEF v
    <3>3. CASE s # t
      <4>1. g[s] = One(s, g[BaseOf[s]])
        BY <2>1, <2>3, <2>6, <3>3
      <4>2. s \in 0 .. N
        BY <1>1
      <4> QED
        BY <2>5, <3>1, <3>3, <4>1, <4>2
    <3> QED
      BY <3>2, <3>3
  <2>7. h[0] = Got(Nothing)
    BY <1>1, <2>1, <2>2, <2>5
  <2>8. h = [s \in DOMAIN h |-> h[s]]
    BY <2>5
  <2> HIDE DEF h
  <2>9. Solves(h, k)
    BY <2>5, <2>6, <2>7, <2>8
  <2>10. k \in 0 .. N
    BY <1>1
  <2> HIDE DEF Solves
  <2> QED
    BY <2>9, <2>10
<1> HIDE DEF U
<1>4. \A k \in 0 .. N : k \in U
  BY <1>1, <1>2, <1>3, Upwards
<1>5. N \in U
  BY <1>1, <1>4
<1>6. PICK g : Solves(g, N)
  BY <1>5 DEF U
<1>7. \A x : One(0, x) = Got(Nothing)
  BY <1>1 DEF Read1
<1> HIDE DEF One
<1>8. \A s \in 0 .. N : g[s] = One(s, g[BaseOf[s]])
  <2>1. \A s \in 0 .. N : s = 0 \/ (s \in Ids /\ s > N - N)
    BY <1>1
  <2> QED
    BY <1>6, <1>7, <2>1
<1>9. g = [s \in 0 .. N |-> One(s, g[BaseOf[s]])]
  BY <1>6, <1>8
<1> QED
  BY <1>9 DEF Reads, One

\* The same for the cache.
LEMMA KeepsExist ==
  ASSUME NEW pins, DOMAIN pins \subseteq Ids, NEW cache, DOMAIN cache \subseteq Ids, NEW fs
  PROVE  \E g : g = Keeps(pins, cache, fs, g)
<1> DEFINE One(s, x) == Keep1(pins, cache, fs, s, x)
           Solves(g, k) == /\ DOMAIN g = 0 .. N /\ g = [s \in DOMAIN g |-> g[s]]
                           /\ g[0] = cache
                           /\ \A s \in Ids : s > N - k => g[s] = One(s, g[BaseOf[s]])
           U == {k \in 0 .. N : \E g : Solves(g, k)}
<1>1. N \in Nat /\ Ids = 1 .. N /\ 0 \notin Ids
  BY FilesAssumption DEF Ids
<1>2. 0 \in U
  <2>1. Solves([s \in 0 .. N |-> cache], 0)
    BY <1>1
  <2> QED
    BY <1>1, <2>1
<1>3. ASSUME NEW k \in 1 .. N, k - 1 \in U PROVE k \in U
  <2> DEFINE t == N - k + 1
  <2>1. PICK g : Solves(g, k - 1)
    BY <1>3
  <2> DEFINE v == One(t, g[BaseOf[t]])
             h == [g EXCEPT ![t] = v]
  <2>2. t \in Ids /\ t \in 0 .. N /\ t # 0
    BY <1>1
  <2>3. \A s \in Ids : s > N - k => s = t \/ s > N - (k - 1)
    BY <1>1
  <2>4. \A s \in Ids : s > N - k => BaseOf[s] \in 0 .. N /\ BaseOf[s] # t
    <3> SUFFICES ASSUME NEW s \in Ids, s > N - k PROVE BaseOf[s] \in 0 .. N /\ BaseOf[s] # t
      OBVIOUS
    <3>1. BaseOf[s] \in 0 .. N /\ (BaseOf[s] = 0 \/ BaseOf[s] > s)
      BY FilesAssumption
    <3> QED
      BY <1>1, <2>2, <3>1
  <2> HIDE DEF One, v
  <2>5. DOMAIN h = 0 .. N /\ h[t] = v /\ \A s \in 0 .. N : s # t => h[s] = g[s]
    BY <2>1, <2>2
  <2> HIDE DEF t
  <2>6. ASSUME NEW s \in Ids, s > N - k PROVE h[s] = One(s, h[BaseOf[s]])
    <3>1. h[BaseOf[s]] = g[BaseOf[s]]
      BY <2>4, <2>5, <2>6
    <3>2. CASE s = t
      BY <2>5, <3>1, <3>2 DEF v
    <3>3. CASE s # t
      <4>1. g[s] = One(s, g[BaseOf[s]])
        BY <2>1, <2>3, <2>6, <3>3
      <4>2. s \in 0 .. N
        BY <1>1
      <4> QED
        BY <2>5, <3>1, <3>3, <4>1, <4>2
    <3> QED
      BY <3>2, <3>3
  <2>7. h[0] = cache
    BY <1>1, <2>1, <2>2, <2>5
  <2>8. h = [s \in DOMAIN h |-> h[s]]
    BY <2>5
  <2> HIDE DEF h
  <2>9. Solves(h, k)
    BY <2>5, <2>6, <2>7, <2>8
  <2>10. k \in 0 .. N
    BY <1>1
  <2> HIDE DEF Solves
  <2> QED
    BY <2>9, <2>10
<1> HIDE DEF U
<1>4. \A k \in 0 .. N : k \in U
  BY <1>1, <1>2, <1>3, Upwards
<1>5. N \in U
  BY <1>1, <1>4
<1>6. PICK g : Solves(g, N)
  BY <1>5 DEF U
<1>7. \A x : One(0, x) = cache
  BY <1>1 DEF Keep1
<1> HIDE DEF One
<1>8. \A s \in 0 .. N : g[s] = One(s, g[BaseOf[s]])
  <2>1. \A s \in 0 .. N : s = 0 \/ (s \in Ids /\ s > N - N)
    BY <1>1
  <2> QED
    BY <1>6, <1>7, <2>1
<1>9. g = [s \in 0 .. N |-> One(s, g[BaseOf[s]])]
  BY <1>6, <1>8
<1> QED
  BY <1>9 DEF Keeps, One

\* The same for the skills that are read one after the other.
LEMMA WalksExist ==
  ASSUME NEW r, NEW fs, NEW S
  PROVE  \E w : w = Walks(r, fs, S, w)
<1> DEFINE One(n, x) == Walk1(fs, S, n, x)
           first == [r |-> r, ok |-> TRUE]
           Solves(w, k) == /\ DOMAIN w = 0 .. N /\ w = [n \in DOMAIN w |-> w[n]]
                           /\ w[0] = first
                           /\ \A n \in 1 .. k : w[n] = One(n, w[n - 1])
           U == {k \in 0 .. N : \E w : Solves(w, k)}
<1>1. N \in Nat
  BY FilesAssumption
<1> HIDE DEF One, first
<1>2. 0 \in U
  <2>1. 1 .. 0 = {} /\ 0 \in 0 .. N
    BY <1>1
  <2>2. Solves([n \in 0 .. N |-> first], 0)
    BY <2>1
  <2> QED
    BY <2>1, <2>2
<1>3. ASSUME NEW k \in 1 .. N, k - 1 \in U PROVE k \in U
  <2>1. PICK w : Solves(w, k - 1)
    BY <1>3
  <2> DEFINE v == One(k, w[k - 1])
             h == [w EXCEPT ![k] = v]
  <2> HIDE DEF v
  <2>2. DOMAIN h = 0 .. N /\ h[k] = v /\ \A n \in 0 .. N : n # k => h[n] = w[n]
    BY <1>1, <2>1
  <2>3. \A n \in 1 .. k : n - 1 \in 0 .. N /\ n - 1 # k /\ n \in 0 .. N
    BY <1>1
  <2>4. ASSUME NEW n \in 1 .. k PROVE h[n] = One(n, h[n - 1])
    <3>1. h[n - 1] = w[n - 1]
      BY <2>2, <2>3
    <3>2. CASE n = k
      BY <2>2, <3>1, <3>2 DEF v
    <3>3. CASE n # k
      <4>1. n \in 1 .. k - 1
        BY <1>1, <3>3
      <4>2. w[n] = One(n, w[n - 1])
        BY <2>1, <4>1
      <4> QED
        BY <2>2, <2>3, <3>1, <3>3, <4>2
    <3> QED
      BY <3>2, <3>3
  <2>5. h[0] = first
    BY <1>1, <2>1, <2>2
  <2>6. h = [n \in DOMAIN h |-> h[n]]
    BY <2>2
  <2> HIDE DEF h
  <2>7. Solves(h, k)
    BY <2>2, <2>4, <2>5, <2>6
  <2>8. k \in 0 .. N
    BY <1>1
  <2> HIDE DEF Solves
  <2> QED
    BY <2>7, <2>8
<1> HIDE DEF U
<1>4. \A k \in 0 .. N : k \in U
  BY <1>1, <1>2, <1>3, Upwards
<1>5. N \in U
  BY <1>1, <1>4
<1>6. PICK w : Solves(w, N)
  BY <1>5 DEF U
<1>7. \A n \in 0 .. N : w[n] = IF n = 0 THEN first ELSE One(n, w[n - 1])
  <2>1. \A n \in 0 .. N : n = 0 \/ n \in 1 .. N
    BY <1>1
  <2>2. 0 \notin 1 .. N
    OBVIOUS
  <2> QED
    BY <1>6, <2>1, <2>2
<1>8. w = [n \in 0 .. N |-> IF n = 0 THEN first ELSE One(n, w[n - 1])]
  BY <1>6, <1>7
<1> QED
  BY <1>8 DEF Walks, One, first

---------------------------------------------------------------------------
(* What they compute *)

LEMMA ContentIs ==
  ASSUME NEW pins, DOMAIN pins \subseteq Ids, NEW cache, DOMAIN cache \subseteq Ids, NEW fs
  PROVE  /\ Content(pins, cache, fs, 0) = Got(Nothing)
         /\ \A s \in Ids : Content(pins, cache, fs, s) =
                             Read1(pins, cache, fs, s, Content(pins, cache, fs, BaseOf[s]))
<1>1. N \in Nat /\ Ids = 1 .. N
  BY FilesAssumption DEF Ids
<1>2. PICK g : g = Reads(pins, cache, fs, g)
  BY ReadsExist
<1> DEFINE f == Contents(pins, cache, fs)
<1>3. f = Reads(pins, cache, fs, f)
  BY <1>2, Zenon DEF Contents
<1>4. \A s \in 0 .. N : Content(pins, cache, fs, s) = f[s]
  BY ContentFor
<1> HIDE DEF f
<1>5. \A s \in 0 .. N : f[s] = Read1(pins, cache, fs, s, f[BaseOf[s]])
  BY <1>3, Zenon DEF Reads
<1>6. 0 \in 0 .. N /\ 0 \notin Ids
  BY <1>1
<1>7. Content(pins, cache, fs, 0) = Got(Nothing)
  BY <1>4, <1>5, <1>6 DEF Read1
<1>8. \A s \in Ids : s \in 0 .. N /\ BaseOf[s] \in 0 .. N
  BY <1>1, FilesAssumption
<1> QED
  BY <1>4, <1>5, <1>7, <1>8, Zenon

LEMMA KeptIs ==
  ASSUME NEW pins, DOMAIN pins \subseteq Ids, NEW cache, DOMAIN cache \subseteq Ids, NEW fs
  PROVE  /\ Kept(pins, cache, fs)[0] = cache
         /\ \A s \in Ids : Kept(pins, cache, fs)[s] =
                             Keep1(pins, cache, fs, s, Kept(pins, cache, fs)[BaseOf[s]])
<1>1. N \in Nat /\ Ids = 1 .. N
  BY FilesAssumption DEF Ids
<1>2. PICK h : h = Keeps(pins, cache, fs, h)
  BY KeepsExist
<1> DEFINE f == Kept(pins, cache, fs)
<1>3. f = Keeps(pins, cache, fs, f)
  BY <1>2, Zenon DEF Kept
<1> HIDE DEF f
<1>4. \A s \in 0 .. N : f[s] = Keep1(pins, cache, fs, s, f[BaseOf[s]])
  BY <1>3, Zenon DEF Keeps
<1>5. 0 \in 0 .. N /\ 0 \notin Ids
  BY <1>1
<1>6. f[0] = cache
  BY <1>4, <1>5 DEF Keep1
<1>7. \A s \in Ids : s \in 0 .. N
  BY <1>1
<1> QED
  BY <1>4, <1>6, <1>7, Zenon DEF f

LEMMA WalkIs ==
  ASSUME NEW r, NEW fs, NEW S
  PROVE  /\ Walk(r, fs, S)[0] = [r |-> r, ok |-> TRUE]
         /\ \A n \in 1 .. N : Walk(r, fs, S)[n] = Walk1(fs, S, n, Walk(r, fs, S)[n - 1])
<1>1. N \in Nat
  BY FilesAssumption
<1>2. PICK w : w = Walks(r, fs, S, w)
  BY WalksExist
<1> DEFINE f == Walk(r, fs, S)
<1>3. f = Walks(r, fs, S, f)
  BY <1>2, Zenon DEF Walk
<1> HIDE DEF f
<1>4. \A n \in 0 .. N : f[n] = IF n = 0 THEN [r |-> r, ok |-> TRUE] ELSE Walk1(fs, S, n, f[n - 1])
  BY <1>3, Zenon DEF Walks
<1>5. 0 \in 0 .. N /\ \A n \in 1 .. N : n \in 0 .. N /\ n # 0
  BY <1>1
<1> QED
  BY <1>4, <1>5 DEF f

---------------------------------------------------------------------------
(* Readings *)

LEMMA OverIs ==
  ASSUME NEW f, NEW g
  PROVE  /\ DOMAIN Over(f, g) = DOMAIN f \cup DOMAIN g
         /\ \A s \in DOMAIN f : Over(f, g)[s] = f[s]
         /\ \A s \in DOMAIN g : s \notin DOMAIN f => Over(f, g)[s] = g[s]
BY DEF Over

LEMMA OnlyIs ==
  ASSUME NEW s, NEW x
  PROVE  DOMAIN Only(s, x) = {s} /\ Only(s, x)[s] = x
BY DEF Only

\* What is said of the text of u in some content: it is a version the file has
\* had, no other than a recorded one, and the one that is kept for u itself.
Fits(pins, cache, old, u, v) ==
  /\ u \in Ids /\ v \in old[u]
  /\ \/ v = 0
     \/ /\ u \in DOMAIN pins /\ pins[u] \in {0, v}
        /\ u \in DOMAIN cache /\ u \in DOMAIN cache[u] /\ cache[u][u] = v

Sound(pins, cache, old) ==
  /\ DOMAIN cache \subseteq Ids
  /\ \A s \in DOMAIN cache : \A u \in DOMAIN cache[s] : Fits(pins, cache, old, u, cache[s][u])

\* h is cache with more skills in it, which come from s on.
Enlarges(cache, h, s) ==
  /\ DOMAIN cache \subseteq DOMAIN h
  /\ \A t \in DOMAIN cache : h[t] = cache[t]
  /\ \A t \in DOMAIN h : t \in DOMAIN cache \/ (s # 0 /\ t \in Ids /\ t >= s)

LEMMA FitsOn ==
  ASSUME NEW pins, NEW cache, NEW h, NEW old, NEW s, Enlarges(cache, h, s),
         NEW u, NEW v, Fits(pins, cache, old, u, v)
  PROVE  Fits(pins, h, old, u, v)
BY DEF Enlarges, Fits

\* Reading s: what comes out of it fits, and so does what is kept of it.
Well(pins, cache, fs, old, s, got, h) ==
  got.ok =>
    /\ \A u \in DOMAIN got.parts : Fits(pins, h, old, u, got.parts[u])
    /\ Enlarges(cache, h, s)
    /\ Sound(pins, h, old)
    /\ s \in DOMAIN pins =>
         \/ fs[s] = 0 /\ s \notin DOMAIN cache /\ got.parts = Only(s, 0)
         \/ s \in DOMAIN h /\ h[s] = got.parts

ReadsWell(pins, cache, fs, old, s) ==
  Well(pins, cache, fs, old, s, Content(pins, cache, fs, s), Kept(pins, cache, fs)[s])

LEMMA ReadingsFit ==
  ASSUME NEW pins, DOMAIN pins \subseteq Ids, NEW cache, NEW old, Sound(pins, cache, old),
         NEW fs, \A u \in Ids : fs[u] \in old[u]
  PROVE  \A s \in 0 .. N : ReadsWell(pins, cache, fs, old, s)
<1> DEFINE T == {s \in 0 .. N : ReadsWell(pins, cache, fs, old, s)}
           C(s) == Content(pins, cache, fs, s)
           H(s) == Kept(pins, cache, fs)[s]
<1>1. N \in Nat /\ Ids = 1 .. N
  BY FilesAssumption DEF Ids
<1>2. DOMAIN cache \subseteq Ids
  BY DEF Sound
<1>3. C(0) = Got(Nothing) /\ \A s \in Ids : C(s) = Read1(pins, cache, fs, s, C(BaseOf[s]))
  BY <1>2, ContentIs
<1>4. H(0) = cache /\ \A s \in Ids : H(s) = Keep1(pins, cache, fs, s, H(BaseOf[s]))
  BY <1>2, KeptIs
<1>5. 0 \in 0 .. N /\ 0 \notin Ids /\ \A s \in Ids : s \in 0 .. N /\ s \in Nat
  BY <1>1
<1>6. \A s : Enlarges(cache, cache, s)
  BY DEF Enlarges
<1>7. DOMAIN Nothing = {} /\ \A x : Got(x).ok = TRUE /\ Got(x).parts = x
  BY DEF Nothing, Got
<1> HIDE DEF C, H
<1>8. \A s : ReadsWell(pins, cache, fs, old, s) <=> Well(pins, cache, fs, old, s, C(s), H(s))
  BY DEF ReadsWell, C, H
<1>9. 0 \in T
  <2>1. ReadsWell(pins, cache, fs, old, 0)
    <3>1. 0 \notin DOMAIN pins
      BY <1>5
    <3> QED
      BY <1>3, <1>4, <1>6, <1>7, <1>8, <3>1 DEF Well
  <2> QED
    BY <1>5, <2>1
<1>10. ASSUME NEW s \in Ids, BaseOf[s] \in T PROVE s \in T
  <2> DEFINE b == BaseOf[s]
  <2>1. b \in 0 .. N /\ ReadsWell(pins, cache, fs, old, b) /\ (b = 0 \/ b > s)
    BY <1>10, FilesAssumption
  <2> HIDE DEF b
  <2>2. C(s) = Read1(pins, cache, fs, s, C(b)) /\ H(s) = Keep1(pins, cache, fs, s, H(b))
    BY <1>3, <1>4 DEF b
  <2>3. CASE s \in DOMAIN cache
    <3>1. C(s) = Got(cache[s]) /\ H(s) = cache
      BY <2>2, <2>3 DEF Read1, Keep1
    <3>2. C(s).parts = cache[s]
      BY <1>7, <3>1
    <3>3. \A u \in DOMAIN cache[s] : Fits(pins, cache, old, u, cache[s][u])
      BY <2>3 DEF Sound
    <3>4. ReadsWell(pins, cache, fs, old, s)
      BY <1>6, <1>8, <2>3, <3>1, <3>2, <3>3 DEF Well
    <3> QED
      BY <1>5, <3>4
  <2>4. CASE s \notin DOMAIN cache /\ s \notin DOMAIN pins
    <3>1. C(s) = Got(Nothing) /\ H(s) = cache
      BY <2>2, <2>4 DEF Read1, Keep1
    <3>2. ReadsWell(pins, cache, fs, old, s)
      BY <1>6, <1>7, <1>8, <2>4, <3>1 DEF Well
    <3> QED
      BY <1>5, <3>2
  <2>5. CASE s \notin DOMAIN cache /\ s \in DOMAIN pins /\ fs[s] = 0
    <3>1. C(s) = Got(Only(s, 0)) /\ H(s) = cache
      BY <2>2, <2>5 DEF Read1, Keep1
    <3>2. C(s).parts = Only(s, 0) /\ C(s).ok
      BY <1>7, <3>1
    <3>3. 0 \in old[s]
      BY <2>5
    <3>4. \A u \in DOMAIN Only(s, 0) : Fits(pins, cache, old, u, Only(s, 0)[u])
      <4>1. DOMAIN Only(s, 0) = {s} /\ Only(s, 0)[s] = 0
        BY OnlyIs
      <4> QED
        BY <3>3, <4>1 DEF Fits
    <3>5. ReadsWell(pins, cache, fs, old, s)
      BY <1>6, <1>8, <2>5, <3>1, <3>2, <3>4 DEF Well
    <3> QED
      BY <1>5, <3>5
  <2>6. CASE s \notin DOMAIN cache /\ s \in DOMAIN pins /\ fs[s] # 0
    <3> SUFFICES ASSUME C(s).ok
                 PROVE  /\ \A u \in DOMAIN C(s).parts : Fits(pins, H(s), old, u, C(s).parts[u])
                        /\ Enlarges(cache, H(s), s)
                        /\ Sound(pins, H(s), old)
                        /\ s \in DOMAIN H(s) /\ H(s)[s] = C(s).parts
      BY <1>5, <1>8 DEF Well
    <3> DEFINE p == C(s).parts
               q == C(b).parts
    <3>1. C(b).ok /\ PinHolds(pins, fs, s) /\ C(s) = Got(Over(Only(s, fs[s]), q))
      BY <2>2, <2>6 DEF Read1, Raises
    <3>2. p = Over(Only(s, fs[s]), q)
      BY <1>7, <3>1
    <3>3. H(s) = Over(H(b), Only(s, p))
      BY <2>2, <2>6 DEF Keep1, C
    <3>4. /\ \A u \in DOMAIN q : Fits(pins, H(b), old, u, q[u])
          /\ Enlarges(cache, H(b), b) /\ Sound(pins, H(b), old)
      BY <1>8, <2>1, <3>1 DEF Well
    <3> HIDE DEF p, q
    <3>5. s \notin DOMAIN H(b)
      <4>1. ASSUME s \in DOMAIN H(b) PROVE FALSE
        <5>1. b # 0 /\ s >= b
          BY <2>6, <3>4, <4>1 DEF Enlarges
        <5>2. b \in Nat /\ s \in Nat /\ b > s
          BY <1>1, <1>5, <2>1, <5>1
        <5> QED
          BY <5>1, <5>2
      <4> QED
        BY <4>1
    <3>6. /\ DOMAIN p = {s} \cup DOMAIN q /\ p[s] = fs[s]
          /\ \A u \in DOMAIN q : u # s => p[u] = q[u]
      <4>1. DOMAIN Only(s, fs[s]) = {s} /\ Only(s, fs[s])[s] = fs[s]
        BY OnlyIs
      <4> DEFINE o == Only(s, fs[s])
      <4>2. /\ DOMAIN Over(o, q) = DOMAIN o \cup DOMAIN q
            /\ \A u \in DOMAIN o : Over(o, q)[u] = o[u]
            /\ \A u \in DOMAIN q : u \notin DOMAIN o => Over(o, q)[u] = q[u]
        BY OverIs
      <4> HIDE DEF o
      <4>3. p = Over(o, q) /\ DOMAIN o = {s} /\ o[s] = fs[s]
        BY <3>2, <4>1 DEF o
      <4> QED
        BY <4>2, <4>3
    <3>7. /\ DOMAIN H(s) = DOMAIN H(b) \cup {s} /\ H(s)[s] = p
          /\ \A t \in DOMAIN H(b) : H(s)[t] = H(b)[t]
      <4>1. DOMAIN Only(s, p) = {s} /\ Only(s, p)[s] = p
        BY OnlyIs
      <4> DEFINE o == Only(s, p)
                 h == H(b)
      <4>2. /\ DOMAIN Over(h, o) = DOMAIN h \cup DOMAIN o
            /\ \A u \in DOMAIN h : Over(h, o)[u] = h[u]
            /\ \A u \in DOMAIN o : u \notin DOMAIN h => Over(h, o)[u] = o[u]
        BY OverIs
      <4>3. H(s) = Over(h, o) /\ DOMAIN o = {s} /\ o[s] = p /\ s \notin DOMAIN h
        BY <3>3, <3>5, <4>1
      <4> HIDE DEF o
      <4> QED
        BY <4>2, <4>3
    <3>8. Enlarges(H(b), H(s), s)
      <4>1. s # 0 /\ s >= s
        BY <1>5
      <4> QED
        BY <3>7, <4>1 DEF Enlarges
    <3>9. Enlarges(cache, H(s), s)
      <4>1. \A t \in DOMAIN cache : t \in DOMAIN H(b) /\ H(b)[t] = cache[t]
        BY <3>4 DEF Enlarges
      <4>2. \A t \in DOMAIN H(b) : t \in DOMAIN cache \/ (t \in Ids /\ t >= s)
        <5> SUFFICES ASSUME NEW t \in DOMAIN H(b), t \notin DOMAIN cache
                     PROVE  t \in Ids /\ t >= s
          OBVIOUS
        <5>1. b # 0 /\ t \in Ids /\ t >= b
          BY <3>4 DEF Enlarges
        <5>2. b \in Nat /\ s \in Nat /\ t \in Nat /\ b > s
          BY <1>1, <1>5, <2>1, <5>1
        <5> QED
          BY <5>1, <5>2
      <4>3. s # 0 /\ s >= s
        BY <1>5
      <4> QED
        BY <3>7, <4>1, <4>2, <4>3 DEF Enlarges
    <3>10. \A u \in DOMAIN p : Fits(pins, H(s), old, u, p[u])
      <4>1. Fits(pins, H(s), old, s, p[s])
        <5>1. fs[s] \in old[s] /\ pins[s] \in {0, fs[s]}
          BY <3>1 DEF PinHolds
        <5>2. s \in DOMAIN H(s) /\ H(s)[s] = p /\ s \in DOMAIN p /\ p[s] = fs[s]
          BY <3>6, <3>7
        <5> QED
          BY <2>6, <5>1, <5>2 DEF Fits
      <4>2. ASSUME NEW u \in DOMAIN q, u # s PROVE Fits(pins, H(s), old, u, p[u])
        <5>1. Fits(pins, H(b), old, u, q[u])
          BY <3>4
        <5>2. Fits(pins, H(s), old, u, q[u])
          BY <3>8, <5>1, FitsOn
        <5> QED
          BY <3>6, <4>2, <5>2
      <4> QED
        BY <3>6, <4>1, <4>2
    <3>11. Sound(pins, H(s), old)
      <4>1. DOMAIN H(s) \subseteq Ids
        BY <3>4, <3>7 DEF Sound
      <4>2. ASSUME NEW t \in DOMAIN H(b), NEW u \in DOMAIN H(b)[t]
            PROVE  Fits(pins, H(s), old, u, H(b)[t][u])
        <5>1. Fits(pins, H(b), old, u, H(b)[t][u])
          BY <3>4 DEF Sound
        <5> QED
          BY <3>8, <5>1, FitsOn
      <4>3. ASSUME NEW t \in DOMAIN H(s), NEW u \in DOMAIN H(s)[t]
            PROVE  Fits(pins, H(s), old, u, H(s)[t][u])
        <5>1. CASE t \in DOMAIN H(b)
          BY <3>7, <4>2, <4>3, <5>1
        <5>2. CASE t = s
          BY <3>7, <3>10, <4>3, <5>2
        <5> QED
          BY <3>7, <5>1, <5>2
      <4> QED
        BY <4>1, <4>3 DEF Sound
    <3> QED
      BY <3>7, <3>9, <3>10, <3>11 DEF p
  <2> QED
    BY <2>3, <2>4, <2>5, <2>6
<1> HIDE DEF T
<1>11. \A s \in 0 .. N : s \in T
  BY <1>9, <1>10, AlongBases
<1> QED
  BY <1>11 DEF T

---------------------------------------------------------------------------
(* The registry *)

IsReg(r) ==
  /\ DOMAIN r = {"zone", "skills", "all", "forced", "cache"}
  /\ DOMAIN r.skills \subseteq Ids /\ DOMAIN r.all \subseteq Ids
  /\ r.forced \subseteq DOMAIN r.skills

RegSound(r, old) == IsReg(r) /\ Sound(Index(r), r.cache, old)

\* q is r with more in its cache.
Extends(r, q) ==
  /\ q.zone = r.zone /\ q.skills = r.skills /\ q.all = r.all /\ q.forced = r.forced
  /\ DOMAIN r.cache \subseteq DOMAIN q.cache
  /\ \A t \in DOMAIN r.cache : q.cache[t] = r.cache[t]

\* What is kept of s after it was read.
Has(r, fs, s) == s \in DOMAIN Index(r) => fs[s] = 0 \/ s \in DOMAIN r.cache

LEMMA IndexIs ==
  ASSUME NEW r, IsReg(r)
  PROVE  DOMAIN Index(r) = DOMAIN r.skills \cup DOMAIN r.all /\ DOMAIN Index(r) \subseteq Ids
<1>1. DOMAIN Over(r.skills, r.all) = DOMAIN r.skills \cup DOMAIN r.all
  BY OverIs
<1> QED
  BY <1>1 DEF Index, IsReg

LEMMA Extending ==
  ASSUME NEW r, NEW q, NEW p, Extends(r, q), Extends(q, p)
  PROVE  Extends(r, p)
BY DEF Extends

LEMMA HasOn ==
  ASSUME NEW r, NEW q, Extends(r, q), NEW fs, NEW s, Has(r, fs, s)
  PROVE  Has(q, fs, s)
BY DEF Extends, Has, Index

LEMMA RememberIs ==
  ASSUME NEW old, NEW r, RegSound(r, old), NEW fs, \A u \in Ids : fs[u] \in old[u], NEW s \in Ids
  PROVE  /\ RegSound(Remember(r, fs, s), old)
         /\ Extends(r, Remember(r, fs, s))
         /\ Get(r, fs, s).ok => Has(Remember(r, fs, s), fs, s)
<1> DEFINE pins == Index(r)
           got == Content(pins, r.cache, fs, s)
           h == Kept(pins, r.cache, fs)[s]
           q == Remember(r, fs, s)
<1>1. s \in 0 .. N
  BY FilesAssumption DEF Ids
<1>2. DOMAIN pins \subseteq Ids
  BY IndexIs DEF RegSound
<1>3. Well(pins, r.cache, fs, old, s, got, h)
  <2>1. Sound(pins, r.cache, old)
    BY DEF RegSound
  <2> HIDE DEF pins
  <2>2. ReadsWell(pins, r.cache, fs, old, s)
    BY <1>1, <1>2, <2>1, ReadingsFit
  <2> QED
    BY <2>2 DEF ReadsWell
<1>4. Cached(pins, r.cache, fs, s) = IF got.ok THEN h ELSE r.cache
  BY CachedFor
<1>5. Get(r, fs, s) = got
  BY DEF Get
<1>6. /\ IsReg(q) /\ q.cache = IF got.ok THEN h ELSE r.cache
      /\ q.zone = r.zone /\ q.skills = r.skills /\ q.all = r.all /\ q.forced = r.forced
  <2>1. q = [r EXCEPT !.cache = Cached(pins, r.cache, fs, s)]
    BY DEF Remember
  <2> HIDE DEF q, pins
  <2> QED
    BY <1>4, <2>1 DEF RegSound, IsReg
<1>7. Index(q) = pins
  <2> HIDE DEF q
  <2> QED
    BY <1>6 DEF Index
<1> HIDE DEF q, pins, got, h
<1>8. CASE got.ok
  <2>1. Sound(pins, h, old) /\ Enlarges(r.cache, h, s) /\ q.cache = h
    BY <1>3, <1>6, <1>8 DEF Well
  <2>2. RegSound(q, old) /\ Extends(r, q)
    BY <1>6, <1>7, <2>1 DEF RegSound, Extends, Enlarges
  <2>3. Has(q, fs, s)
    BY <1>3, <1>7, <1>8, <2>1 DEF Well, Has
  <2> QED
    BY <2>2, <2>3 DEF q
<1>9. CASE ~got.ok
  <2>1. q.cache = r.cache
    BY <1>6, <1>9
  <2>2. RegSound(q, old) /\ Extends(r, q)
    BY <1>6, <1>7, <2>1 DEF RegSound, Extends, pins
  <2> QED
    BY <1>5, <1>9, <2>2 DEF q
<1> QED
  BY <1>8, <1>9

LEMMA ReadAllIs ==
  ASSUME NEW old, NEW r, RegSound(r, old), NEW fs, \A u \in Ids : fs[u] \in old[u],
         NEW S, S \subseteq Ids
  PROVE  /\ RegSound(ReadAll(r, fs, S).r, old)
         /\ Extends(r, ReadAll(r, fs, S).r)
         /\ ReadAll(r, fs, S).ok => \A s \in S : Has(ReadAll(r, fs, S).r, fs, s)
<1> DEFINE w == Walk(r, fs, S)
           T == {n \in 0 .. N : /\ RegSound(w[n].r, old) /\ Extends(r, w[n].r)
                                /\ w[n].ok => \A s \in S : s <= n => Has(w[n].r, fs, s)}
<1>1. N \in Nat /\ Ids = 1 .. N
  BY FilesAssumption DEF Ids
<1>2. w[0] = [r |-> r, ok |-> TRUE] /\ \A n \in 1 .. N : w[n] = Walk1(fs, S, n, w[n - 1])
  BY WalkIs
<1>3. ReadAll(r, fs, S) = w[N]
  BY ReadAllFor
<1> HIDE DEF w
<1>4. 0 \in T
  <2>1. w[0].r = r /\ Extends(r, r)
    BY <1>2 DEF Extends
  <2>2. \A s \in S : ~(s <= 0)
    BY <1>1
  <2> QED
    BY <1>1, <2>1, <2>2
<1>5. ASSUME NEW n \in 1 .. N, n - 1 \in T PROVE n \in T
  <2> DEFINE x == w[n - 1]
             q == Remember(x.r, fs, n)
  <2>1. /\ RegSound(x.r, old) /\ Extends(r, x.r)
        /\ x.ok => \A s \in S : s <= n - 1 => Has(x.r, fs, s)
    BY <1>5
  <2>2. w[n] = Walk1(fs, S, n, x)
    BY <1>2
  <2>3. n \in 0 .. N /\ n \in Ids
    BY <1>1
  <2>4. \A s \in S : s <= n => s = n \/ s <= n - 1
    BY <1>1
  <2> HIDE DEF x
  <2>5. CASE n \notin S \/ ~x.ok
    <3>1. w[n] = x
      BY <2>2, <2>5 DEF Walk1
    <3>2. w[n].ok => \A s \in S : s <= n => Has(w[n].r, fs, s)
      BY <2>1, <2>4, <2>5, <3>1
    <3> QED
      BY <2>1, <2>3, <3>1, <3>2
  <2>6. CASE n \in S /\ x.ok
    <3>1. w[n].r = q /\ w[n].ok = Get(x.r, fs, n).ok
      BY <2>2, <2>6 DEF Walk1
    <3>2. RegSound(q, old) /\ Extends(x.r, q) /\ (Get(x.r, fs, n).ok => Has(q, fs, n))
      BY <2>1, <2>3, RememberIs
    <3> HIDE DEF q
    <3>3. Extends(r, q)
      BY <2>1, <3>2, Extending
    <3>4. \A s \in S : s <= n - 1 => Has(q, fs, s)
      BY <2>1, <2>6, <3>2, HasOn
    <3>5. w[n].ok => \A s \in S : s <= n => Has(q, fs, s)
      BY <2>4, <3>1, <3>2, <3>4
    <3> QED
      BY <2>3, <3>1, <3>2, <3>3, <3>5
  <2> QED
    BY <2>5, <2>6
<1> HIDE DEF T
<1>6. \A n \in 0 .. N : n \in T
  BY <1>1, <1>4, <1>5, Upwards
<1>7. N \in T /\ \A s \in S : s <= N
  BY <1>1, <1>6
<1> QED
  BY <1>3, <1>7 DEF T

\* What a zone shows is configured, and what is forced is shown.
LEMMA ResolvedIs ==
  ASSUME NEW y, NEW fs, NEW zone
  PROVE  Resolved(y, fs, zone).forced \cup Resolved(y, fs, zone).passive \subseteq Configured(y, fs)
BY DEF Resolved

LEMMA LoadIs ==
  ASSUME NEW old, NEW r, IsReg(r), DOMAIN r.cache = {}, NEW y \in Yaml,
         NEW fs, \A u \in Ids : fs[u] \in old[u]
  PROVE  RegSound(Load(r, y, fs).r, old) /\ Load(r, y, fs).r.zone = r.zone
<1> DEFINE res == Resolved(y, fs, IF r.zone = None THEN DefaultZone(y) ELSE r.zone)
           visible == res.forced \cup res.passive
           all == [r EXCEPT !.all = Pins(y, fs)]
           indexed == [all EXCEPT !.skills = [s \in visible |-> Pins(y, fs)[s]],
                                  !.forced = res.forced, !.cache = Nothing]
           warm == ReadAll(indexed, fs, res.forced)
<1>1. Configured(y, fs) \subseteq Ids /\ DOMAIN Pins(y, fs) = Configured(y, fs)
  BY FilesAssumption DEF Configured, Found, Pins, Yaml
<1>2. visible \subseteq Configured(y, fs)
  BY ResolvedIs
<1>3. Load(r, y, fs) = IF ~Parses(y, fs) THEN [r |-> r, ok |-> FALSE]
                       ELSE IF r.zone \notin {None} \cup Zones(y) \/ ~res.ok
                       THEN [r |-> all, ok |-> FALSE]
                       ELSE warm
  BY DEF Load
<1> HIDE DEF res
<1>4. \A q : IsReg(q) /\ DOMAIN q.cache = {} => RegSound(q, old)
  BY DEF RegSound, Sound
<1>5. IsReg(all) /\ DOMAIN all.cache = {} /\ all.zone = r.zone
  BY <1>1 DEF IsReg
<1>6. IsReg(indexed) /\ DOMAIN indexed.cache = {} /\ indexed.zone = r.zone
  BY <1>1, <1>2, <1>5 DEF IsReg, Nothing
<1> HIDE DEF all, indexed
<1>7. RegSound(warm.r, old) /\ warm.r.zone = r.zone
  <2>1. res.forced \subseteq Ids
    BY <1>1, <1>2
  <2>2. RegSound(indexed, old)
    BY <1>4, <1>6
  <2>3. RegSound(warm.r, old) /\ Extends(indexed, warm.r)
    BY <2>1, <2>2, ReadAllIs
  <2> QED
    BY <1>6, <2>3 DEF Extends
<1> HIDE DEF warm
<1> QED
  BY <1>3, <1>4, <1>5, <1>7

\* What is kept is what the next reading brings.
LEMMA CachedBack ==
  ASSUME NEW old, NEW r, RegSound(r, old), NEW fs, NEW s \in Ids, s \in DOMAIN r.cache
  PROVE  Get(r, fs, s).parts = r.cache[s]
<1>1. DOMAIN Index(r) \subseteq Ids /\ DOMAIN r.cache \subseteq Ids
  BY IndexIs DEF RegSound, Sound
<1>2. Content(Index(r), r.cache, fs, s) =
        Read1(Index(r), r.cache, fs, s, Content(Index(r), r.cache, fs, BaseOf[s]))
  BY <1>1, ContentIs
<1>3. Content(Index(r), r.cache, fs, s) = Got(r.cache[s])
  BY <1>2 DEF Read1
<1> QED
  BY <1>3 DEF Get, Got

LEMMA ReadBack ==
  ASSUME NEW old, NEW r, RegSound(r, old), NEW fs,
         NEW s \in Ids, s \in DOMAIN r.skills, Has(r, fs, s)
  PROVE  \/ Get(r, fs, s).parts = Only(s, 0)
         \/ s \in DOMAIN r.cache /\ Get(r, fs, s).parts = r.cache[s]
<1>1. DOMAIN Index(r) \subseteq Ids /\ DOMAIN r.cache \subseteq Ids /\ s \in DOMAIN Index(r)
  BY IndexIs DEF RegSound, Sound
<1>2. Content(Index(r), r.cache, fs, s) =
        Read1(Index(r), r.cache, fs, s, Content(Index(r), r.cache, fs, BaseOf[s]))
  BY <1>1, ContentIs
<1>3. CASE s \in DOMAIN r.cache
  BY <1>3, CachedBack
<1>4. CASE s \notin DOMAIN r.cache
  <2>1. fs[s] = 0
    BY <1>1, <1>4 DEF Has
  <2>2. Content(Index(r), r.cache, fs, s) = Got(Only(s, 0))
    BY <1>1, <1>2, <1>4, <2>1 DEF Read1
  <2> QED
    BY <2>2 DEF Get, Got
<1> QED
  BY <1>3, <1>4

---------------------------------------------------------------------------
(* The server *)

\* What a decision record says is what is kept, but for a file that was missing.
Recorded(r, record) ==
  /\ DOMAIN record \subseteq DOMAIN r.skills
  /\ \A s \in DOMAIN record :
       record[s] = Only(s, 0) \/ (s \in DOMAIN r.cache /\ record[s] = r.cache[s])

ServerInv ==
  /\ yaml \in Yaml
  /\ DOMAIN files = Ids /\ DOMAIN seen = Ids
  /\ \A u \in Ids : files[u] \in seen[u]
  /\ RegSound(reg, seen)
  /\ ~Started => DOMAIN reg.cache = {}
  /\ prep.pc = "show" => Started /\ Recorded(reg, prep.record)
  /\ RecordMatchesContent
  /\ DOMAIN prep = {"pc", "record", "shown"}

LEMMA EmptyIs ==
  ASSUME NEW zone
  PROVE  IsReg(Empty(zone)) /\ DOMAIN Empty(zone).cache = {} /\ Empty(zone).zone = zone
BY DEF Empty, IsReg, Nothing

LEMMA EmptySound ==
  ASSUME NEW r, IsReg(r), DOMAIN r.cache = {}, NEW old
  PROVE  RegSound(r, old)
BY DEF RegSound, Sound

\* Another version: what was seen stays seen.
LEMMA SeenOn ==
  ASSUME NEW r, NEW old, RegSound(r, old), NEW new, \A u \in Ids : old[u] \subseteq new[u]
  PROVE  RegSound(r, new)
BY DEF RegSound, Sound, Fits

LEMMA NoCallIs == NoCall.pc = "idle" /\ DOMAIN NoCall = {"pc", "record", "shown"}
BY DEF NoCall

LEMMA ServerInit == Init => ServerInv
<1> SUFFICES ASSUME Init PROVE ServerInv
  OBVIOUS
<1>1. IsReg(reg) /\ DOMAIN reg.cache = {} /\ RegSound(reg, seen)
  BY EmptyIs, EmptySound DEF Init
<1> QED
  BY <1>1, NoCallIs, ServerAssumption DEF Init, ServerInv, RecordMatchesContent

LEMMA ServerStep == ServerInv /\ [Next]_vars => ServerInv'
<1> SUFFICES ASSUME ServerInv, [Next]_vars PROVE ServerInv'
  OBVIOUS
<1>1. /\ yaml \in Yaml /\ DOMAIN files = Ids /\ DOMAIN seen = Ids
      /\ \A u \in Ids : files[u] \in seen[u]
      /\ RegSound(reg, seen) /\ IsReg(reg) /\ DOMAIN prep = {"pc", "record", "shown"}
      /\ RecordMatchesContent
  BY DEF ServerInv, RegSound
<1>2. \A u \in Ids : files[u] \in [s \in Ids |-> {files[s]}][u]
  OBVIOUS
<1>3. CASE EditFile
  <2>1. PICK s \in Ids, v \in 0 .. MaxVersion :
          /\ files' = [files EXCEPT ![s] = v]
          /\ seen' = [seen EXCEPT ![s] = @ \cup {v}]
    BY <1>3 DEF EditFile
  <2>2. /\ DOMAIN files' = Ids /\ DOMAIN seen' = Ids
        /\ \A u \in Ids : files'[u] \in seen'[u] /\ seen[u] \subseteq seen'[u]
    BY <1>1, <2>1
  <2>3. RegSound(reg, seen')
    BY <1>1, <2>2, SeenOn
  <2>4. yaml' = yaml /\ reg' = reg /\ prep' = prep
    BY <1>3 DEF EditFile
  <2> QED
    BY <2>2, <2>3, <2>4 DEF ServerInv, RecordMatchesContent, Started
<1>4. CASE EditYaml
  BY <1>4, ServerAssumption DEF EditYaml, ServerInv, RecordMatchesContent, Started
<1>5. CASE Start
  <2>1. PICK zone \in {None, ZoneId} :
          reg' = IF Load(Empty(zone), yaml, files).ok THEN Load(Empty(zone), yaml, files).r ELSE reg
    BY <1>5 DEF Start
  <2>2. /\ files' = files /\ yaml' = yaml /\ seen' = [s \in Ids |-> {files[s]}]
        /\ prep' = prep /\ ~Started /\ prep.pc # "show"
    BY <1>5 DEF Start, Call
  <2>3. DOMAIN reg.cache = {}
    BY <2>2 DEF ServerInv
  <2>4. RegSound(reg, seen')
    BY <1>1, <2>3, EmptySound
  <2>5. RegSound(Load(Empty(zone), yaml, files).r, seen') /\ Load(Empty(zone), yaml, files).r.zone = zone
    <3>1. /\ IsReg(Empty(zone)) /\ DOMAIN Empty(zone).cache = {} /\ Empty(zone).zone = zone
          /\ \A u \in Ids : files[u] \in seen'[u]
      BY <1>2, <2>2, EmptyIs
    <3> QED
      BY <1>1, <3>1, LoadIs
  <2>6. zone # "absent"
    BY ServerAssumption DEF None
  <2>7. RegSound(reg', seen') /\ (reg'.zone = "absent" => DOMAIN reg'.cache = {})
    BY <2>1, <2>3, <2>4, <2>5, <2>6
  <2>8. RecordMatchesContent'
    BY <1>1, <2>2 DEF RecordMatchesContent
  <2> QED
    BY <1>1, <1>2, <2>2, <2>7, <2>8 DEF ServerInv, Started
<1>6. CASE ReloadAll
  <2> DEFINE cleared == [reg EXCEPT !.cache = Nothing]
  <2>1. /\ files' = files /\ yaml' = yaml /\ seen' = [s \in Ids |-> {files[s]}]
        /\ prep' = NoCall /\ Started /\ reg' = Load(cleared, yaml, files).r
    BY <1>6 DEF ReloadAll, Call, Reload
  <2>2. IsReg(cleared) /\ DOMAIN cleared.cache = {} /\ cleared.zone = reg.zone
    BY <1>1 DEF IsReg, Nothing
  <2> HIDE DEF cleared
  <2>3. RegSound(reg', seen') /\ reg'.zone = reg.zone
    <3>1. \A u \in Ids : files[u] \in seen'[u]
      BY <1>2, <2>1
    <3>2. RegSound(Load(cleared, yaml, files).r, seen') /\ Load(cleared, yaml, files).r.zone = cleared.zone
      BY <1>1, <2>2, <3>1, LoadIs
    <3> QED
      BY <2>1, <2>2, <3>2
  <2> QED
    BY <1>1, <1>2, <2>1, <2>3, NoCallIs DEF ServerInv, Started, RecordMatchesContent
<1>7. CASE GetSkill
  <2>1. PICK s \in DOMAIN reg.skills : reg' = Remember(reg, files, s)
    BY <1>7 DEF GetSkill
  <2>2. /\ files' = files /\ yaml' = yaml /\ seen' = seen /\ prep' = prep
        /\ Started /\ prep.pc # "show"
    BY <1>7 DEF GetSkill, Call
  <2>3. s \in Ids
    BY <1>1 DEF IsReg
  <2>4. RegSound(reg', seen') /\ Extends(reg, reg')
    BY <1>1, <2>1, <2>2, <2>3, RememberIs
  <2> QED
    BY <1>1, <2>2, <2>4 DEF ServerInv, Started, RecordMatchesContent, Extends
<1>8. CASE PrepareRecord
  <2>1. PICK chosen \in SUBSET (DOMAIN reg.skills \ reg.forced) :
          LET all == ReadAll(reg, files, Active(chosen))
          IN  /\ reg' = all.r
              /\ prep' = IF all.ok
                         THEN [ pc     |-> "show",
                                record |-> [s \in Active(chosen) |-> Get(all.r, files, s).parts],
                                shown  |-> Nothing ]
                         ELSE NoCall
    BY <1>8 DEF PrepareRecord
  <2>2. files' = files /\ yaml' = yaml /\ seen' = seen /\ Started
    BY <1>8 DEF PrepareRecord, Call
  <2> DEFINE S == Active(chosen)
             all == ReadAll(reg, files, S)
  <2>3. S \subseteq DOMAIN reg.skills /\ S \subseteq Ids
    BY <1>1 DEF IsReg, Active
  <2>4. /\ RegSound(all.r, seen) /\ Extends(reg, all.r)
        /\ all.ok => \A s \in S : Has(all.r, files, s)
    BY <1>1, <2>3, ReadAllIs
  <2>5. /\ reg' = all.r
        /\ \/ prep' = NoCall
           \/ all.ok /\ prep' = [ pc     |-> "show",
                                  record |-> [s \in S |-> Get(all.r, files, s).parts],
                                  shown  |-> Nothing ]
    BY <2>1
  <2> HIDE DEF S, all
  <2>6. ASSUME all.ok PROVE Recorded(all.r, [s \in S |-> Get(all.r, files, s).parts])
    <3>1. \A s \in S : Has(all.r, files, s) /\ s \in DOMAIN all.r.skills /\ s \in Ids
      BY <2>3, <2>4, <2>6 DEF Extends
    <3>2. ASSUME NEW s \in S
          PROVE  \/ Get(all.r, files, s).parts = Only(s, 0)
                 \/ s \in DOMAIN all.r.cache /\ Get(all.r, files, s).parts = all.r.cache[s]
      BY <2>4, <3>1, ReadBack
    <3> QED
      BY <3>1, <3>2 DEF Recorded
  <2>7. Started'
    BY <2>2, <2>4, <2>5 DEF Extends, Started
  <2>8. CASE prep' = NoCall
    BY <1>1, <2>2, <2>4, <2>5, <2>7, <2>8, NoCallIs DEF ServerInv, RecordMatchesContent
  <2>9. CASE all.ok /\ prep' = [ pc     |-> "show",
                                 record |-> [s \in S |-> Get(all.r, files, s).parts],
                                 shown  |-> Nothing ]
    BY <1>1, <2>2, <2>4, <2>5, <2>6, <2>7, <2>9 DEF ServerInv, RecordMatchesContent
  <2> QED
    BY <2>5, <2>8, <2>9
<1>9. CASE PrepareShow
  <2> DEFINE S == DOMAIN prep.record
             all == ReadAll(reg, files, S)
  <2>1. /\ files' = files /\ yaml' = yaml /\ seen' = seen /\ prep.pc = "show"
        /\ reg' = all.r
        /\ prep' = IF all.ok
                   THEN [prep EXCEPT !.pc = "done",
                                     !.shown = [s \in S |-> Get(all.r, files, s).parts]]
                   ELSE NoCall
    BY <1>9 DEF PrepareShow
  <2>2. Started /\ Recorded(reg, prep.record)
    BY <2>1 DEF ServerInv
  <2>3. S \subseteq DOMAIN reg.skills /\ S \subseteq Ids
    BY <1>1, <2>2 DEF IsReg, Recorded
  <2>4. RegSound(all.r, seen) /\ Extends(reg, all.r)
    BY <1>1, <2>3, ReadAllIs
  <2> HIDE DEF all
  <2>5. Started'
    BY <2>1, <2>2, <2>4 DEF Extends, Started
  <2>6. CASE prep' = NoCall
    BY <1>1, <2>1, <2>4, <2>5, <2>6, NoCallIs DEF ServerInv, RecordMatchesContent
  <2>7. CASE prep' = [prep EXCEPT !.pc = "done",
                                  !.shown = [s \in S |-> Get(all.r, files, s).parts]]
    <3>1. ASSUME NEW s \in S, prep.record[s] # Only(s, 0)
          PROVE  Get(all.r, files, s).parts = prep.record[s]
      <4>1. s \in DOMAIN reg.cache /\ prep.record[s] = reg.cache[s]
        BY <2>2, <3>1 DEF Recorded
      <4>2. s \in DOMAIN all.r.cache /\ all.r.cache[s] = reg.cache[s] /\ s \in Ids
        BY <2>3, <2>4, <4>1 DEF Extends
      <4> QED
        BY <2>4, <4>1, <4>2, CachedBack
    <3>2. /\ prep'.pc = "done" /\ prep'.record = prep.record
          /\ prep'.shown = [s \in S |-> Get(all.r, files, s).parts]
          /\ DOMAIN prep' = {"pc", "record", "shown"}
      BY <1>1, <2>7
    <3>3. RecordMatchesContent'
      BY <3>1, <3>2 DEF RecordMatchesContent
    <3> QED
      BY <1>1, <2>1, <2>4, <2>5, <3>2, <3>3 DEF ServerInv
  <2> QED
    BY <2>1, <2>6, <2>7
<1>10. CASE UNCHANGED vars
  BY <1>10 DEF vars, ServerInv, RecordMatchesContent, Started
<1> QED
  BY <1>3, <1>4, <1>5, <1>6, <1>7, <1>8, <1>9, <1>10 DEF Next

---------------------------------------------------------------------------
(* Theorems *)

LEMMA ServerKept == Spec => []ServerInv
BY ServerInit, ServerStep, PTL DEF Spec

\* A reload that comes through, or fails in the parser, the resolver or the
\* warming, leaves nothing of what was read before it (SkillRegistry.reload).
THEOREM ForgetsOnReload == Spec => []NoneFromBeforeReload
<1>1. ServerInv => NoneFromBeforeReload
  BY DEF ServerInv, RegSound, Sound, Fits, NoneFromBeforeReload
<1> QED
  BY <1>1, ServerKept, PTL

\* A base is read once for all skills that share it (SkillRegistry._content_cache).
THEOREM SharesBases == Spec => []OneBaseAnswered
<1>1. ServerInv => OneBaseAnswered
  BY DEF ServerInv, RegSound, Sound, Fits, OneBaseAnswered
<1> QED
  BY <1>1, ServerKept, PTL

\* Nothing is kept whose recorded hash is another, whatever a failed reload did to
\* the index (SkillRegistry._load).
THEOREM KeepsPinned == Spec => []KeptIsPinned
<1>1. ServerInv => KeptIsPinned
  BY DEF ServerInv, RegSound, Sound, Fits, KeptIsPinned
<1> QED
  BY <1>1, ServerKept, PTL

\* The hashes of a decision record are those of the contents returned with it
\* (prepare_context).
THEOREM RecordsWhatItShows == Spec => []RecordMatchesContent
<1>1. ServerInv => RecordMatchesContent
  BY DEF ServerInv
<1> QED
  BY <1>1, ServerKept, PTL
=============================================================================
