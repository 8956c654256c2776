---------------------------- MODULE LaunchProofs ----------------------------
(***************************************************************************)
(* For every set of pools and tokens, every behaviour of the pools, and    *)
(* any number of starts, crashes and edits in between: what the startup of *)
(* src/src/main.rs and its filter cache promise, and what the mempool      *)
(* listener makes of transactions of any length, by induction over the     *)
(* calls of a multicall.                                                   *)
(***************************************************************************)
EXTENDS Mempool, WellFoundedInduction, TLAPS

Filtering == {"gecko", "slots", "test"}
Running == Filtering \cup {"writing", "paths", "serving"}

\* What main may have loaded: rows of the files without a blacklisted token.
Allowed == {p \in rows : Clean(p)}

\* The inductive invariant.  ServedWasVetted rests on the file: it never lists a
\* pool that no filter let through, torn or not.  CacheReplays rests on the
\* moment at which the file is whole, and NoneFalselyRejected on the pools that
\* reach the filter.
PathsInPools == IF pc = "serving" THEN pathPools \subseteq pools ELSE pathPools = {}
PoolsAllowed == pc \in Running => pools \subseteq Allowed
FileVetted == cache \subseteq vetted
PoolsVetted ==
    pc = "writing" \/ (pc \in {"paths", "serving"} /\ ~flags.skip) => pools \subseteq vetted
FileIsVerdict == whole => cache = verdict /\ pc # "writing"
PoolsReplay ==
    pc \in {"paths", "serving"} /\ whole /\ readable /\ ~flags.skip =>
        pools \cap judged = verdict \cap Allowed
VerdictJudged ==
    /\ verdict \subseteq judged
    /\ pc \in Filtering => pools \subseteq Prefiltered
    /\ pc = "writing" => pools \subseteq judged
FilterSeesAll ==
    pc \in Filtering /\ ~flags.gecko /\ readable => pools = Allowed

LaunchInv ==
    /\ PathsInPools
    /\ PoolsAllowed
    /\ FileVetted
    /\ PoolsVetted
    /\ FileIsVerdict
    /\ PoolsReplay
    /\ VerdictJudged
    /\ FilterSeesAll
    /\ NoneFalselyRejected

\* A set of naturals with a member has a least one.
LEMMA LeastNatural ==
    ASSUME NEW T, T \subseteq Nat, T # {}
    PROVE  \E x \in T : \A y \in T : x <= y
<1>1. PICK x \in T : \A y \in T : ~(<<y, x>> \in OpToRel(<, Nat))
  BY NatLessThanWellFounded, WFMin, Zenon
<1>2. \A y \in T : ~(y < x)
  BY <1>1 DEF OpToRel
<1> QED BY <1>2

\* The first amount that a well-behaved pool swaps at all is given back.
LEMMA GoodPoolsPass ==
    ASSUME NEW n, WellBehaved(n) PROVE RoundTripPasses(n)
<1> DEFINE Takes == {i \in 1 .. 4 : SwapsForth(n, TestAmounts[i])}
<1>1. DOMAIN TestAmounts = 1 .. 4 /\ Range(TestAmounts) = {TestAmounts[i] : i \in 1 .. 4}
  BY DEF TestAmounts, Range
<1>2. \A i \in Takes : SwapsBack(n, TestAmounts[i]) /\ Recovers95(n, TestAmounts[i])
  BY <1>1 DEF WellBehaved
<1>3. PICK i \in Takes : \A j \in Takes : i <= j
  <2>1. Takes # {} /\ Takes \subseteq Nat
    BY <1>1 DEF WellBehaved
  <2> HIDE DEF Takes
  <2> QED BY <2>1, LeastNatural
<1>4. \A j \in 1 .. i - 1 : ~SwapsForth(n, TestAmounts[j])
  BY <1>3
<1> QED BY <1>1, <1>2, <1>3, <1>4 DEF RoundTripPasses, WellBehaved

LEMMA InitLaunch == StartupInit => LaunchInv
  BY DEF StartupInit, LaunchInv, PathsInPools, PoolsAllowed, FileVetted, PoolsVetted,
         FileIsVerdict, PoolsReplay, VerdictJudged, FilterSeesAll,
      NoneFalselyRejected, FilteredWell, Running, Filtering

\* Nothing that the invariant speaks of changes: the listener's steps.
LEMMA LaunchFrame == LaunchInv /\ UNCHANGED startupVars => LaunchInv'
  BY DEF startupVars, world, process, history, LaunchInv, Prefiltered, Loaded,
         PathsInPools, PoolsAllowed, FileVetted, PoolsVetted, FileIsVerdict, PoolsReplay,
         VerdictJudged, FilterSeesAll, NoneFalselyRejected, FilteredWell, Allowed, Clean

\* While the process is down there is little to keep.
LEMMA OffKeeps ==
    ASSUME LaunchInv, pc' \in {"off", "load"}, pathPools' = {}, cache' \subseteq vetted,
           UNCHANGED <<vetted, verdict, judged>>, whole' => cache' = verdict'
    PROVE  LaunchInv'
  BY DEF LaunchInv, PathsInPools, PoolsAllowed, FileVetted, PoolsVetted, FileIsVerdict,
         PoolsReplay, VerdictJudged, FilterSeesAll,
      NoneFalselyRejected, FilteredWell, Running, Filtering

LEMMA LoadKeeps == ASSUME LaunchInv, Load PROVE LaunchInv'
<1>1. /\ PathsInPools /\ FileVetted /\ FileIsVerdict /\ VerdictJudged /\ pc = "load"
      /\ UNCHANGED <<world, cache, flags, pathPools, history>>
  BY DEF LaunchInv, Load
<1>2. UNCHANGED <<rows, readable, nature, blacklist, vetted, whole, verdict, judged>>
      /\ Allowed' = Allowed /\ Prefiltered' = Prefiltered
  BY <1>1 DEF world, history, Allowed, Clean, Prefiltered, Loaded
<1>3. Prefiltered \subseteq Allowed /\ (readable => Prefiltered = Allowed)
  BY DEF Prefiltered, Loaded, Allowed
<1>4. pc' \in {"gecko", "paths"} /\ pools' \subseteq Prefiltered
  BY DEF Load, FromCache
<1>5. pc' = "paths" /\ ~flags.skip => pools' = Prefiltered \cap cache
  BY DEF Load, FromCache
<1>6. pc' = "gecko" => pools' = Prefiltered
  BY DEF Load
<1>7. (PathsInPools /\ PoolsAllowed /\ FileVetted /\ FileIsVerdict)'
  BY <1>1, <1>2, <1>3, <1>4 DEF PathsInPools, PoolsAllowed, FileVetted, FileIsVerdict
<1>8. (PoolsVetted /\ PoolsReplay /\ VerdictJudged)'
  BY <1>1, <1>2, <1>3, <1>4, <1>5
     DEF PoolsVetted, PoolsReplay, VerdictJudged, FileVetted, FileIsVerdict, Filtering
<1>9. (FilterSeesAll /\ NoneFalselyRejected)'
  BY <1>1, <1>2, <1>3, <1>4, <1>6
     DEF FilterSeesAll, NoneFalselyRejected, FilteredWell, Filtering
<1> QED BY <1>7, <1>8, <1>9 DEF LaunchInv

LEMMA GeckoKeeps == ASSUME LaunchInv, GeckoFilter PROVE LaunchInv'
<1>1. /\ pc = "gecko" /\ pc' = "slots" /\ pools' \subseteq pools
      /\ UNCHANGED <<world, cache, flags, pathPools, history>>
  BY DEF GeckoFilter
<1>2. UNCHANGED <<rows, readable, nature, blacklist, vetted, whole, verdict, judged>>
      /\ Allowed' = Allowed /\ Prefiltered' = Prefiltered
  BY <1>1 DEF world, history, Allowed, Clean, Prefiltered, Loaded
<1>3. PathsInPools /\ PoolsAllowed /\ FileVetted /\ FileIsVerdict /\ FilterSeesAll
  BY DEF LaunchInv
<1>4. ~flags.gecko => pools' = {p \in pools : Clean(p)}
  BY DEF GeckoFilter
<1>5. FilterSeesAll'
  BY <1>1, <1>2, <1>3, <1>4 DEF FilterSeesAll, Filtering, Allowed
<1> QED
  BY <1>1, <1>2, <1>3, <1>5
     DEF LaunchInv, PathsInPools, PoolsAllowed, FileVetted, PoolsVetted, FileIsVerdict,
         PoolsReplay, VerdictJudged, NoneFalselyRejected, FilteredWell, Running,
         Filtering

LEMMA SlotsKeep == ASSUME LaunchInv, DetectSlots PROVE LaunchInv'
<1>1. /\ pc = "slots" /\ pc' = "test"
      /\ UNCHANGED <<rows, readable, nature, blacklist, cache, flags, pools, pathPools,
                     vetted, whole, verdict, judged>>
  BY DEF DetectSlots, world
<1> QED
  BY <1>1 DEF LaunchInv, PathsInPools, PoolsAllowed, FileVetted, PoolsVetted, FileIsVerdict,
              PoolsReplay, VerdictJudged, FilterSeesAll,
      NoneFalselyRejected, FilteredWell, Running, Filtering, Allowed, Clean,
      Prefiltered, Loaded

LEMMA TestKeeps == ASSUME LaunchInv, TestPools PROVE LaunchInv'
<1>1. /\ pc = "test" /\ pc' = "writing" /\ whole' = FALSE /\ vetted' = vetted \cup pools'
      /\ judged' = judged \cup Prefiltered /\ verdict' = {}
      /\ UNCHANGED <<rows, readable, nature, blacklist, cache, flags, pathPools>>
  BY DEF TestPools, world
<1>2. Allowed' = Allowed
  BY <1>1 DEF Allowed, Clean
<1>3. PICK lucky, unlucky \in SUBSET pools :
        /\ pools' = Survivors(lucky, unlucky)
        /\ misread' = (misread \/ lucky \cup unlucky # {})
  BY DEF TestPools
<1>4. PathsInPools /\ PoolsAllowed /\ FileVetted /\ FilterSeesAll
  BY DEF LaunchInv
<1>5. pools' \subseteq pools
  BY <1>3 DEF Survivors
<1>6. NoneFalselyRejected'
  <2> SUFFICES ASSUME ~misread', ~flags.gecko, readable,
                      NEW p \in rows, Clean(p), WellBehaved(nature[p])
               PROVE  p \in pools'
    BY <1>1 DEF NoneFalselyRejected, FilteredWell, Clean
  <2>1. p \in pools
    BY <1>1, <1>4 DEF FilterSeesAll, Filtering, Allowed
  <2>2. p \notin unlucky
    BY <1>3
  <2>3. RoundTripPasses(nature[p])
    BY GoodPoolsPass
  <2> QED BY <1>3, <2>1, <2>2, <2>3 DEF Survivors
<1> QED
  BY <1>1, <1>2, <1>4, <1>5, <1>6
     DEF LaunchInv, PathsInPools, PoolsAllowed, FileVetted, PoolsVetted, FileIsVerdict,
         PoolsReplay, VerdictJudged, FilterSeesAll, Running, Filtering

LEMMA SaveKeeps == ASSUME LaunchInv, SaveCache PROVE LaunchInv'
<1>1. /\ pc = "writing" /\ pc' = "paths" /\ cache' = pools /\ verdict' = pools
      /\ UNCHANGED <<rows, readable, nature, blacklist, flags, pools, pathPools, vetted,
                     judged>>
  BY DEF SaveCache, world
<1>2. Allowed' = Allowed
  BY <1>1 DEF Allowed, Clean
<1> QED
  BY <1>1, <1>2
     DEF LaunchInv, PathsInPools, PoolsAllowed, FileVetted, PoolsVetted, FileIsVerdict,
         PoolsReplay, VerdictJudged, FilterSeesAll, NoneFalselyRejected, FilteredWell,
         Running, Filtering

\* A write that breaks off leaves only pools in the file that were vetted.
LEMMA TornIsVetted ==
    ASSUME LaunchInv, pc = "writing" PROVE (UNION Torn \subseteq vetted) /\ ~whole
  BY DEF LaunchInv, FileVetted, PoolsVetted, FileIsVerdict, Torn

LEMMA SaveFailsKeeps == ASSUME LaunchInv, SaveFails PROVE LaunchInv'
<1>1. /\ pc = "writing" /\ pc' = "paths" /\ cache' \in Torn
      /\ UNCHANGED <<rows, readable, nature, blacklist, flags, pools, pathPools, history>>
  BY DEF SaveFails, world
<1>2. Allowed' = Allowed /\ UNCHANGED <<vetted, whole, verdict, judged>>
  BY <1>1 DEF Allowed, Clean, history
<1>3. cache' \subseteq vetted /\ ~whole
  BY <1>1, TornIsVetted
<1> QED
  BY <1>1, <1>2, <1>3
     DEF LaunchInv, PathsInPools, PoolsAllowed, FileVetted, PoolsVetted, FileIsVerdict,
         PoolsReplay, VerdictJudged, FilterSeesAll, NoneFalselyRejected, FilteredWell,
         Running, Filtering

LEMMA BuildKeeps == ASSUME LaunchInv, BuildPaths PROVE LaunchInv'
<1>1. /\ pc = "paths" /\ pc' = "serving" /\ pathPools' \subseteq pools
      /\ UNCHANGED <<rows, readable, nature, blacklist, cache, flags, pools, vetted,
                     whole, verdict, judged>>
  BY DEF BuildPaths, world, history
<1>2. Allowed' = Allowed
  BY <1>1 DEF Allowed, Clean
<1> QED
  BY <1>1, <1>2
     DEF LaunchInv, PathsInPools, PoolsAllowed, FileVetted, PoolsVetted, FileIsVerdict,
         PoolsReplay, VerdictJudged, FilterSeesAll, NoneFalselyRejected, FilteredWell,
         Running, Filtering

\* The steps after which the process is down, or has only just been started.
LEMMA EndsKeep ==
    ASSUME LaunchInv, World \/ Start \/ NoRouters \/ Stop PROVE LaunchInv'
<1>1. PathsInPools /\ FileVetted /\ FileIsVerdict
  BY DEF LaunchInv
<1>2. CASE World
  BY <1>1, <1>2, OffKeeps DEF World, process, history, PathsInPools, FileVetted, FileIsVerdict
<1>3. CASE Start
  BY <1>1, <1>3, OffKeeps DEF Start, history, PathsInPools, FileVetted, FileIsVerdict
<1>4. CASE NoRouters
  BY <1>1, <1>4, OffKeeps DEF NoRouters, Gone, FileVetted, FileIsVerdict
<1>5. CASE Stop
  <2>1. /\ cache' \in IF pc = "writing" THEN Torn ELSE {cache}
        /\ pc' = "off" /\ pathPools' = {} /\ UNCHANGED <<vetted, whole, verdict, judged>>
    BY <1>5 DEF Stop, Gone
  <2>2. cache' \subseteq vetted
    BY <1>1, <2>1, TornIsVetted DEF FileVetted
  <2>3. whole' => cache' = verdict'
    BY <1>1, <2>1, TornIsVetted DEF FileIsVerdict
  <2> QED BY <2>1, <2>2, <2>3, OffKeeps
<1> QED BY <1>2, <1>3, <1>4, <1>5

LEMMA LaunchStep == LaunchInv /\ [Next]_vars => LaunchInv'
<1> SUFFICES ASSUME LaunchInv, [Next]_vars PROVE LaunchInv'
  OBVIOUS
<1>1. CASE Main
  BY <1>1, EndsKeep, LoadKeeps, GeckoKeeps, SlotsKeep, TestKeeps, SaveKeeps, SaveFailsKeeps,
     BuildKeeps DEF Main, StartupStep
<1>2. CASE Outside
  BY <1>2, EndsKeep DEF Outside
<1>3. CASE Subscribe \/ StreamEnds \/ Receive \/ UNCHANGED vars
  BY <1>3, LaunchFrame DEF Subscribe, StreamEnds, Receive, vars
<1> QED BY <1>1, <1>2, <1>3 DEF Next

LEMMA LaunchInvariant == Spec => []LaunchInv
<1>1. Init => LaunchInv
  BY InitLaunch DEF Init
<1> QED BY <1>1, LaunchStep, PTL DEF Spec

\* The prefilter of main looks at every pool of the files before the cache, the
\* filter or SKIP_POOL_FILTER decide on it, so that none of them brings back a
\* pool with a blacklisted token.
THEOREM NoBlacklistedPoolServed == Spec => []NothingBlacklisted
<1>1. LaunchInv => NothingBlacklisted
  BY DEF LaunchInv, PathsInPools, PoolsAllowed, NothingBlacklisted, Allowed, Running
<1> QED BY <1>1, LaunchInvariant, PTL

\* However often the process is killed, the write of the cache file included, a
\* run that does not skip the filter serves only pools that a filter let through.
THEOREM OnlyVettedServed == Spec => []ServedWasVetted
<1>1. LaunchInv => ServedWasVetted
  BY DEF LaunchInv, PoolsVetted, ServedWasVetted
<1> QED BY <1>1, LaunchInvariant, PTL

\* A complete cache file makes the runs after it repeat its verdict, on the pools
\* that a filter has looked at and that have not been blacklisted since.  Of pools
\* that came later nothing is claimed: see NewPoolsTested.
THEOREM CacheRepeatsVerdict == Spec => []CacheReplays
<1>1. LaunchInv => CacheReplays
  <2> SUFFICES ASSUME LaunchInv, pc = "serving", whole, readable, ~flags.skip
               PROVE  pools \cap judged = {p \in verdict \cap rows : Clean(p)}
    BY DEF CacheReplays
  <2>1. pools \cap judged = verdict \cap Allowed
    BY DEF LaunchInv, PoolsReplay
  <2> QED BY <2>1 DEF Allowed
<1> QED BY <1>1, LaunchInvariant, PTL

\* Unless a request failed, the filter keeps every pool that gives back 95% of
\* each test amount it swaps at all: test_pool_filter_reason goes on to smaller
\* amounts when the pool refuses one, and a pool that cannot be tested passes.
\* Shallow pools, which serve a large amount in part, are no such pools.
THEOREM GoodPoolsKept == Spec => []NoneFalselyRejected
<1>1. LaunchInv => NoneFalselyRejected
  BY DEF LaunchInv
<1> QED BY <1>1, LaunchInvariant, PTL

-----------------------------------------------------------------------------
(* The mempool listener *)

\* Induction from 1 to n, for a set instead of a predicate.
LEMMA FromOneTo ==
    ASSUME NEW n \in Nat, NEW S, 1 \in S, \A i \in 1 .. n - 1 : i \in S => i + 1 \in S
    PROVE  1 .. n \subseteq S
<1> DEFINE T == (1 .. n) \ S
<1>1. SUFFICES ASSUME T # {} PROVE FALSE
  OBVIOUS
<1>2. PICK x \in T : \A y \in T : x <= y
  <2>1. T \subseteq Nat
    OBVIOUS
  <2> HIDE DEF T
  <2> QED BY <1>1, <2>1, LeastNatural
<1>3. x - 1 \in 1 .. n - 1 /\ (x - 1) + 1 = x
  BY <1>2
<1>4. x - 1 \in S
  BY <1>2, <1>3
<1> QED BY <1>2, <1>3, <1>4

\* s is a stretch of t.
Stretch(s, t) ==
    \E d \in Nat : d + Len(s) <= Len(t) /\ \A k \in 1 .. Len(s) : t[d + k] = s[k]

LEMMA StretchOfJoin ==
    ASSUME NEW T, NEW t \in Seq(T), NEW u \in Seq(T)
    PROVE  /\ t \o u \in Seq(T)
           /\ Stretch(u, t \o u)
           /\ \A s \in Seq(T) : Stretch(s, t) => Stretch(s, t \o u)
<1>1. /\ t \o u \in Seq(T) /\ Len(t) \in Nat /\ Len(u) \in Nat
      /\ Len(t \o u) = Len(t) + Len(u)
      /\ \A k \in 1 .. Len(t) : (t \o u)[k] = t[k]
      /\ \A k \in 1 .. Len(u) : (t \o u)[Len(t) + k] = u[k]
  OBVIOUS
<1>2. Stretch(u, t \o u)
  BY <1>1 DEF Stretch
<1>3. ASSUME NEW s \in Seq(T), Stretch(s, t) PROVE Stretch(s, t \o u)
  <2>1. PICK d \in Nat : d + Len(s) <= Len(t) /\ \A k \in 1 .. Len(s) : t[d + k] = s[k]
    BY <1>3 DEF Stretch
  <2>2. Len(s) \in Nat
    OBVIOUS
  <2>3. d + Len(s) <= Len(t \o u)
    BY <1>1, <2>1, <2>2
  <2>4. ASSUME NEW k \in 1 .. Len(s) PROVE (t \o u)[d + k] = s[k]
    <3>1. d + k \in 1 .. Len(t)
      BY <1>1, <2>1, <2>2
    <3> QED BY <1>1, <2>1, <3>1
  <2> QED BY <2>3, <2>4 DEF Stretch
<1> QED BY <1>1, <1>2, <1>3

\* Every sequence is a stretch of the sequences strung together: first, there
\* are partial results, so that FlattenSeq computes them; then, each of them has
\* the sequences up to it as stretches.
LEMMA FlattenKeeps ==
    ASSUME NEW T, NEW seqs \in Seq(Seq(T)), seqs # << >>
    PROVE  /\ FlattenSeq(seqs) \in Seq(T)
           /\ Len(seqs) = 1 => FlattenSeq(seqs) = seqs[1]
           /\ \A i \in DOMAIN seqs : Stretch(seqs[i], FlattenSeq(seqs))
<1> DEFINE n == Len(seqs)
           Join(t, i) == t \o seqs[i]
           Obeys(g, k) == /\ g \in [1 .. k -> Seq(T)]
                          /\ g[1] = seqs[1]
                          /\ \A i \in 2 .. k : g[i] = Join(g[i - 1], i)
           Step(g) == [i \in 1 .. n |-> IF i = 1 THEN seqs[i] ELSE Join(g[i - 1], i)]
<1>1. n \in Nat \ {0} /\ DOMAIN seqs = 1 .. n /\ \A i \in 1 .. n : seqs[i] \in Seq(T)
  OBVIOUS
<1> HIDE DEF n
<1>j. \A i \in 1 .. n, t \in Seq(T) : /\ Join(t, i) \in Seq(T)
                                     /\ Stretch(seqs[i], Join(t, i))
                                     /\ \A s \in Seq(T) : Stretch(s, t) => Stretch(s, Join(t, i))
  BY <1>1, StretchOfJoin
<1> HIDE DEF Join
<1>2. \E g : Obeys(g, n)
  <2> DEFINE Reached(k) == \E g : Obeys(g, k)
             S == {k \in 1 .. n : Reached(k)}
  <2>1. Reached(1)
    <3>1. Obeys([i \in 1 .. 1 |-> seqs[1]], 1)
      BY <1>1
    <3> HIDE DEF Obeys
    <3> QED BY <3>1
  <2>2. ASSUME NEW k \in 1 .. n - 1, Reached(k) PROVE Reached(k + 1)
    <3>1. PICK g : Obeys(g, k)
      BY <2>2
    <3> DEFINE h == [i \in 1 .. k + 1 |-> IF i = k + 1 THEN Join(g[k], k + 1) ELSE g[i]]
    <3>2. k \in Nat /\ k + 1 \in 2 .. n /\ g[k] \in Seq(T) /\ seqs[k + 1] \in Seq(T)
      BY <1>1, <3>1
    <3>3. Join(g[k], k + 1) \in Seq(T)
      BY <1>j, <3>2
    <3>4. h \in [1 .. k + 1 -> Seq(T)] /\ h[1] = seqs[1]
      BY <2>2, <3>1, <3>2, <3>3
    <3>5. ASSUME NEW i \in 2 .. k + 1 PROVE h[i] = Join(h[i - 1], i)
      <4>1. i - 1 \in 1 .. k + 1 /\ i - 1 # k + 1
        BY <3>2
      <4>2. CASE i = k + 1
        BY <3>2, <4>1, <4>2
      <4>3. CASE i # k + 1
        <5>1. i \in 2 .. k
          BY <3>2, <4>3
        <5> QED BY <3>1, <4>1, <4>3, <5>1
      <4> QED BY <4>2, <4>3
    <3>6. Obeys(h, k + 1)
      BY <3>4, <3>5
    <3> HIDE DEF Obeys, h
    <3> QED BY <3>6
  <2> HIDE DEF Reached
  <2>3. 1 \in S /\ \A k \in 1 .. n - 1 : k \in S => k + 1 \in S
    BY <1>1, <2>1, <2>2
  <2> HIDE DEF S
  <2>4. 1 .. n \subseteq S
    BY <1>1, <2>3, FromOneTo
  <2>5. Reached(n)
    BY <1>1, <2>4 DEF S
  <2> QED BY <2>5 DEF Reached
<1>3. \E g : g = Step(g)
  <2>1. PICK g : Obeys(g, n)
    BY <1>2
  <2>2. \A i \in 1 .. n : g[i] = IF i = 1 THEN seqs[i] ELSE Join(g[i - 1], i)
    BY <1>1, <2>1
  <2>3. g = Step(g)
    BY <1>1, <2>1, <2>2
  <2> QED BY <2>3
<1> DEFINE f == CHOOSE g : g = Step(g)
<1>4. f = Step(f) /\ FlattenSeq(seqs) = f[n]
  BY <1>1, <1>3 DEF FlattenSeq, n, Join
<1> HIDE DEF f
<1>5. f[1] = seqs[1] /\ \A i \in 2 .. n : f[i] = Join(f[i - 1], i)
  BY <1>1, <1>4
<1> DEFINE Keeps(k) == f[k] \in Seq(T) /\ \A i \in 1 .. k : Stretch(seqs[i], f[k])
           S == {k \in 1 .. n : Keeps(k)}
<1>6. Keeps(1)
  <2>1. ASSUME NEW s \in Seq(T) PROVE Stretch(s, s)
    <3>1. 0 + Len(s) <= Len(s) /\ \A k \in 1 .. Len(s) : s[0 + k] = s[k]
      OBVIOUS
    <3> QED BY <3>1 DEF Stretch
  <2> QED BY <1>1, <1>5, <2>1
<1>7. ASSUME NEW k \in 1 .. n - 1, Keeps(k) PROVE Keeps(k + 1)
  <2>1. /\ k + 1 \in 2 .. n /\ f[k + 1] = Join(f[k], k + 1)
        /\ \A i \in 1 .. k + 1 : seqs[i] \in Seq(T) /\ (i = k + 1 \/ i \in 1 .. k)
    BY <1>1, <1>5
  <2>2. f[k + 1] \in Seq(T) /\ Stretch(seqs[k + 1], f[k + 1])
    BY <1>j, <1>7, <2>1
  <2>3. \A i \in 1 .. k : Stretch(seqs[i], f[k + 1])
    BY <1>j, <1>7, <2>1
  <2> QED BY <2>1, <2>2, <2>3
<1> HIDE DEF Keeps
<1>8. 1 \in S /\ \A k \in 1 .. n - 1 : k \in S => k + 1 \in S
  BY <1>1, <1>6, <1>7
<1> HIDE DEF S
<1>9. 1 .. n \subseteq S
  BY <1>1, <1>8, FromOneTo
<1>10. Keeps(n)
  BY <1>1, <1>9 DEF S
<1>11. n = 1 => f[n] = seqs[1]
  BY <1>5
<1> QED BY <1>1, <1>4, <1>10, <1>11 DEF Keeps, n

\* The listener's part of the inductive invariant: the event is that of the
\* transaction received last, looked up in the pools that are still served.
ListenerInv ==
    /\ rows \subseteq Pools
    /\ pools \subseteq Pools
    /\ seen \subseteq Pending
    /\ \A tx \in seen :
        touched = IF tx.to \in RouterSet THEN Lookup(Pairs(TokenPath(tx))) ELSE {}

\* The calls of a transaction as the listener reads them.
Readings(tx) == [i \in DOMAIN tx.calls |-> Decoded(tx.calls[i])]

LEMMA SeqFacts ==
    ASSUME NEW R, NEW s \in Seq(R)
    PROVE  /\ DOMAIN s = 1 .. Len(s) /\ Len(s) \in Nat
           /\ \A i \in 1 .. Len(s) : s[i] \in R
           /\ s # << >> => 1 \in DOMAIN s
  OBVIOUS

LEMMA CallsType ==
    ASSUME NEW tx \in Pending
    PROVE  /\ DOMAIN tx.calls = 1 .. Len(tx.calls) /\ Len(tx.calls) \in Nat
           /\ 1 \in DOMAIN tx.calls
           /\ \A i \in DOMAIN tx.calls : /\ tx.calls[i].kind \in Kinds
                                         /\ tx.calls[i].path \in Seq(Tokens)
<1> DEFINE R == [kind : Kinds, path : Seq(Tokens)]
           s == tx.calls
<1>1. s \in Seq(R) /\ s # << >>
  BY MempoolAssumption, Zenon
<1>2. \A call \in R : call.kind \in Kinds /\ call.path \in Seq(Tokens)
  OBVIOUS
<1> HIDE DEF R, s
<1>3. /\ DOMAIN s = 1 .. Len(s) /\ Len(s) \in Nat /\ 1 \in DOMAIN s
      /\ \A i \in 1 .. Len(s) : s[i] \in R
  BY <1>1, SeqFacts
<1>4. \A i \in DOMAIN s : s[i].kind \in Kinds /\ s[i].path \in Seq(Tokens)
  BY <1>2, <1>3
<1> QED BY <1>3, <1>4 DEF s

LEMMA ReadingsType ==
    ASSUME NEW tx \in Pending
    PROVE  /\ Readings(tx) \in Seq(Seq(Tokens \cup {NoToken}))
           /\ DOMAIN Readings(tx) = DOMAIN tx.calls
           /\ Len(Readings(tx)) = Len(tx.calls)
           /\ Readings(tx) # << >>
<1> DEFINE T == Tokens \cup {NoToken}
<1>1. DOMAIN tx.calls = 1 .. Len(tx.calls) /\ Len(tx.calls) \in Nat /\ Len(tx.calls) # 0
  BY CallsType
<1>2. ASSUME NEW i \in 1 .. Len(tx.calls) PROVE Decoded(tx.calls[i]) \in Seq(T)
  <2> DEFINE call == tx.calls[i]
  <2>1. call.kind \in Kinds /\ call.path \in Seq(Tokens)
    BY <1>1, CallsType
  <2>2. call.path \in Seq(T) /\ << >> \in Seq(T) /\ <<NoToken, NoToken>> \in Seq(T)
    BY <2>1
  <2> QED BY <2>1, <2>2 DEF Decoded, Kinds
<1>3. Readings(tx) = [i \in 1 .. Len(tx.calls) |-> Decoded(tx.calls[i])]
  BY <1>1 DEF Readings
<1> HIDE DEF T
<1>4. Readings(tx) \in Seq(Seq(T)) /\ Len(Readings(tx)) = Len(tx.calls)
  BY <1>1, <1>2, <1>3
<1> QED BY <1>1, <1>3, <1>4 DEF T

\* Neighbours in a stretch of a path are neighbours in the path.
LEMMA StretchKeepsPairs ==
    ASSUME NEW T, NEW s \in Seq(T), NEW t \in Seq(T), Stretch(s, t), NEW k \in 2 .. Len(s)
    PROVE  {s[k - 1], s[k]} \in Pairs(t)
<1>1. PICK d \in Nat : d + Len(s) <= Len(t) /\ \A j \in 1 .. Len(s) : t[d + j] = s[j]
  BY DEF Stretch
<1>2. Len(s) \in Nat /\ Len(t) \in Nat /\ k \in Int /\ k - 1 \in 1 .. Len(s) /\ k \in 1 .. Len(s)
  OBVIOUS
<1>3. t[d + (k - 1)] = s[k - 1] /\ t[d + k] = s[k]
  BY <1>1, <1>2
<1>4. d + (k - 1) \in 1 .. Len(t) - 1 /\ (d + (k - 1)) + 1 = d + k
  BY <1>1, <1>2
<1>5. {t[d + (k - 1)], t[(d + (k - 1)) + 1]} \in Pairs(t)
  BY <1>4 DEF Pairs
<1> QED BY <1>3, <1>4, <1>5

\* What an understood transaction trades is among the pairs that are looked up.
LEMMA TradedIsLookedUp ==
    ASSUME NEW tx \in Pending, Understood(tx)
    PROVE  TradedPools(tx) \subseteq Lookup(Pairs(TokenPath(tx)))
<1> DEFINE T == Tokens \cup {NoToken}
<1>1. /\ Readings(tx) \in Seq(Seq(T)) /\ Readings(tx) # << >>
      /\ DOMAIN Readings(tx) = DOMAIN tx.calls
  BY ReadingsType
<1>2. /\ DOMAIN tx.calls = 1 .. Len(tx.calls) /\ Len(tx.calls) \in Nat
      /\ MaxCalls \in Nat /\ Len(tx.calls) <= MaxCalls
      /\ \A i \in DOMAIN tx.calls : tx.calls[i].kind \in Kinds
  BY CallsType, MempoolAssumption DEF Understood
<1>3. TokenPath(tx) = FlattenSeq(Readings(tx))
  BY <1>2 DEF TokenPath, Readings
<1> HIDE DEF T
<1>4. /\ FlattenSeq(Readings(tx)) \in Seq(T)
      /\ \A i \in DOMAIN Readings(tx) : Stretch(Readings(tx)[i], FlattenSeq(Readings(tx)))
  BY <1>1, FlattenKeeps
<1>5. ASSUME NEW i \in DOMAIN tx.calls PROVE Readings(tx)[i] = tx.calls[i].path
  <2>1. Decoded(tx.calls[i]) = tx.calls[i].path
    BY <1>2 DEF Understood, Meant, Decoded, Kinds
  <2> QED BY <2>1 DEF Readings
<1>6. SUFFICES ASSUME NEW p \in pools, NEW i \in DOMAIN tx.calls,
                      NEW k \in 2 .. Len(tx.calls[i].path),
                      TokenSet(p) = {tx.calls[i].path[k - 1], tx.calls[i].path[k]}
               PROVE  TokenSet(p) \in Pairs(TokenPath(tx))
  BY DEF TradedPools, Lookup
<1>7. Readings(tx)[i] \in Seq(T)
  BY <1>1
<1>8. k \in 2 .. Len(Readings(tx)[i])
  BY <1>5, <1>6
<1>9. {Readings(tx)[i][k - 1], Readings(tx)[i][k]} \in Pairs(FlattenSeq(Readings(tx)))
  BY <1>1, <1>4, <1>7, <1>8, StretchKeepsPairs
<1> QED BY <1>3, <1>5, <1>6, <1>9

\* A single call names no pool that it does not trade.
LEMMA NothingElseLookedUp ==
    ASSUME NEW tx \in Pending, ~tx.multicall, pools \subseteq Pools
    PROVE  Lookup(Pairs(TokenPath(tx))) \subseteq TradedPools(tx)
<1> DEFINE T == Tokens \cup {NoToken}
           call == tx.calls[1]
<1>1. /\ Readings(tx) \in Seq(Seq(T)) /\ Readings(tx) # << >>
      /\ Len(Readings(tx)) = Len(tx.calls)
  BY ReadingsType
<1>2. Len(tx.calls) = 1 /\ 1 \in DOMAIN tx.calls /\ NoToken \notin Tokens
  BY CallsType, MempoolAssumption, Zenon
<1>3. call.kind \in Kinds /\ call.path \in Seq(Tokens)
  BY CallsType
<1>4. TokenPath(tx) = FlattenSeq(Readings(tx))
  BY DEF TokenPath, Readings
<1> HIDE DEF T
<1>5. FlattenSeq(Readings(tx)) = Readings(tx)[1]
  BY <1>1, <1>2, FlattenKeeps
<1>6. TokenPath(tx) = Decoded(call)
  BY <1>2, <1>4, <1>5 DEF Readings
<1>7. SUFFICES ASSUME NEW p \in pools, TokenSet(p) \in Pairs(Decoded(call))
               PROVE  \E k \in 2 .. Len(call.path) :
                          TokenSet(p) = {call.path[k - 1], call.path[k]}
  BY <1>2, <1>6 DEF TradedPools, Lookup
<1>8. PICK j \in 1 .. Len(Decoded(call)) - 1 :
          TokenSet(p) = {Decoded(call)[j], Decoded(call)[j + 1]}
  BY <1>7 DEF Pairs
<1>9. Decoded(call) = call.path
  <2>1. NoToken \notin TokenSet(p)
    BY <1>2, StartupAssumption DEF TokenSet
  <2>2. Decoded(call) # << >>
    BY <1>8
  <2>3. Decoded(call) # <<NoToken, NoToken>>
    <3>1. SUFFICES ASSUME Decoded(call) = <<NoToken, NoToken>> PROVE FALSE
      OBVIOUS
    <3>2. j = 1
      BY <1>8, <3>1
    <3> QED BY <1>8, <2>1, <3>1, <3>2
  <2> QED BY <1>3, <2>2, <2>3 DEF Decoded, Kinds
<1> HIDE DEF call
<1>10. j + 1 \in 2 .. Len(call.path) /\ (j + 1) - 1 = j
  BY <1>3, <1>8, <1>9
<1> QED BY <1>8, <1>9, <1>10

\* The startup adds nothing to the pools of the files.
LEMMA StartupKeepsKnown ==
    ASSUME rows \subseteq Pools, pools \subseteq Pools, StartupStep
    PROVE  rows' \subseteq Pools /\ pools' \subseteq Pools
<1>1. CASE Start \/ SaveCache \/ SaveFails \/ BuildPaths \/ DetectSlots
  BY <1>1 DEF Start, SaveCache, SaveFails, BuildPaths, DetectSlots, world
<1>2. CASE Load
  BY <1>2 DEF Load, FromCache, Prefiltered, Loaded, world
<1>3. CASE GeckoFilter
  BY <1>3 DEF GeckoFilter, world
<1>4. CASE TestPools
  BY <1>4 DEF TestPools, Survivors, world
<1>5. CASE NoRouters \/ Stop
  BY <1>5 DEF NoRouters, Stop, Gone, world
<1> QED BY <1>1, <1>2, <1>3, <1>4, <1>5 DEF StartupStep

LEMMA ListenerInvariant == Spec => []ListenerInv
<1>1. Init => ListenerInv
  BY DEF Init, StartupInit, ListenerInv
<1>2. ListenerInv /\ [Next]_vars => ListenerInv'
  <2> SUFFICES ASSUME ListenerInv, [Next]_vars PROVE ListenerInv'
    OBVIOUS
  <2>1. CASE Main
    BY <2>1, StartupKeepsKnown DEF Main, ListenerInv
  <2>2. CASE Outside
    <3>1. rows' \subseteq Pools /\ UNCHANGED <<pools, listenerVars>>
      BY <2>2 DEF Outside, World, process, ListenerInv
    <3> QED BY <3>1 DEF listenerVars, ListenerInv, Lookup
  <2>3. CASE Subscribe \/ StreamEnds \/ UNCHANGED vars
    <3>1. UNCHANGED <<rows, pools, seen, touched>>
      BY <2>3 DEF Subscribe, StreamEnds, vars, startupVars, world, process, listenerVars
    <3> QED BY <3>1 DEF ListenerInv, Lookup
  <2>4. CASE Receive
    <3>1. UNCHANGED <<rows, pools>>
      BY <2>4 DEF Receive, startupVars, world, process
    <3> QED BY <2>4, <3>1 DEF Receive, ListenerInv, Lookup
  <2> QED BY <2>1, <2>2, <2>3, <2>4 DEF Next
<1> QED BY <1>1, <1>2, PTL DEF Spec

\* stream_pending_swaps: a pending transaction that the decoders understand, a
\* multicall of any length within the limits included, reaches the searcher with
\* every served pool that it trades; a single call names no other pool.
THEOREM PendingSwapsReachSearcher == Spec => []PendingSeen
<1>1. ListenerInv => PendingSeen
  <2> SUFFICES ASSUME ListenerInv, NEW tx \in seen
               PROVE  /\ Understood(tx) => TradedPools(tx) \subseteq touched
                      /\ ~tx.multicall => touched \subseteq TradedPools(tx)
    BY DEF PendingSeen
  <2>1. /\ tx \in Pending /\ pools \subseteq Pools
        /\ touched = IF tx.to \in RouterSet THEN Lookup(Pairs(TokenPath(tx))) ELSE {}
    BY DEF ListenerInv
  <2>2. ASSUME Understood(tx) PROVE TradedPools(tx) \subseteq touched
    <3>1. tx.to \in RouterSet
      BY <2>2 DEF Understood
    <3> QED BY <2>1, <2>2, <3>1, TradedIsLookedUp
  <2>3. ASSUME ~tx.multicall PROVE touched \subseteq TradedPools(tx)
    BY <2>1, <2>3, NothingElseLookedUp
  <2> QED BY <2>2, <2>3
<1> QED BY <1>1, ListenerInvariant, PTL
=============================================================================
