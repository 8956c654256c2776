-------------------------- MODULE PathBuilderProofs --------------------------
(***************************************************************************)
(* For every graph, every list of start tokens, every order of the edges   *)
(* and every cap: the search is well formed, it exceeds the cap by fewer   *)
(* cycles than it has frames, and below the cap it finds every cycle.      *)
(***************************************************************************)
EXTENDS PathBuilder, TLAPS

\* Once the cap is reached each frame that still may emit, emits one cycle
\* and is gone: what has been emitted beyond the cap is paid for in depth.
FramesPayForCycles ==
    count >= MaxPathsPerToken =>
        count <= MaxPathsPerToken + MaxHops - 1 - Len(path)

CapInv ==
    /\ TypeOK
    /\ FramesPayForCycles
    /\ CapNearlyHolds

-----------------------------------------------------------------------------

\* A pool leads from a token to a token.
LEMMA OtherType ==
    ASSUME ends \in [Pools -> TokenPairs], NEW p \in Pools, NEW t
    PROVE  Other(p, t) \in Tokens
  <1>1. PICK pair \in TokenPairs : ends[p] = pair
    OBVIOUS
  <1>2. \E u \in pair : u # t
    BY DEF TokenPairs
  <1>3. Other(p, t) \in pair
    BY <1>1, <1>2 DEF Other
  <1> QED BY <1>3 DEF TokenPairs

\* A sequence without its last element.
LEMMA FrontType ==
    ASSUME NEW S, NEW q \in Seq(S), q # << >>
    PROVE  Front(q) \in Seq(S) /\ Len(Front(q)) = Len(q) - 1
  BY DEF Front

\* The frame that looks at a pool exists, and it belongs to a start token.
LEMMA LookFacts ==
    ASSUME TypeOK, NEW p \in Pools, Look(p)
    PROVE  /\ start <= Len(StartTokens)
           /\ StartToken \in Tokens
           /\ Len(todo) = Len(path) + 1
           /\ Ticked(p) \in Seq(SUBSET Pools)
           /\ Len(Ticked(p)) = Len(todo)
  <1>1. start <= Len(StartTokens) /\ Len(todo) = Len(path) + 1
    BY PathBuilderAssumption DEF TypeOK, Look, Done
  <1>2. StartToken \in Tokens
    BY <1>1, PathBuilderAssumption DEF TypeOK, StartToken
  <1>3. Ticked(p) \in Seq(SUBSET Pools) /\ Len(Ticked(p)) = Len(todo)
    BY <1>1 DEF TypeOK, Ticked
  <1> QED BY <1>1, <1>2, <1>3

\* The cycle that a pool closes is one.
LEMMA ClosedType ==
    ASSUME TypeOK, NEW p \in Pools, StartToken \in Tokens
    PROVE  Closed(p) \in Cycles
  BY DEF TypeOK, Closed, Cycles, Hops

\* A frame that returns takes one hop and one set of pools along.
LEMMA ReturnFacts ==
    ASSUME TypeOK, ~Done, path # << >>, Return
    PROVE  /\ path' \in Seq(Hops) /\ Len(path') = Len(path) - 1
           /\ todo' \in Seq(SUBSET Pools) /\ Len(todo') = Len(todo) - 1
           /\ visited' \in SUBSET Tokens
  <1>1. Len(path) \in Nat \ {0} /\ Len(todo) = Len(path) + 1
    BY DEF TypeOK
  <1>2. path' \in Seq(Hops) /\ Len(path') = Len(path) - 1
    BY FrontType DEF TypeOK, Return
  <1>3. todo' \in Seq(SUBSET Pools) /\ Len(todo') = Len(todo) - 1
    BY <1>1, FrontType DEF TypeOK, Return
  <1>4. visited' \in SUBSET Tokens
    BY DEF TypeOK, Return
  <1> QED BY <1>2, <1>3, <1>4

\* Initially nothing is on the path.
LEMMA InitTypes == ASSUME Init PROVE TypeOK
  <1>1. CASE StartTokens = << >>
    BY <1>1, PathBuilderAssumption DEF Init, TypeOK, Done
  <1>2. CASE StartTokens # << >>
    <2>1. Len(StartTokens) \in Nat \ {0} /\ StartTokens[1] \in Tokens
      BY <1>2, PathBuilderAssumption
    <2>2. PoolsAt(StartTokens[1]) \in SUBSET Pools
      BY DEF PoolsAt
    <2>3. start \in 1 .. Len(StartTokens) + 1 /\ ~Done
      BY <2>1, PathBuilderAssumption DEF Init, Done
    <2>4. path \in Seq(Hops) /\ Len(path) = 0 /\ 0 <= MaxHops
      BY PathBuilderAssumption DEF Init
    <2>5. todo \in Seq(SUBSET Pools) /\ Len(todo) = 1
      BY <1>2, <2>2 DEF Init
    <2>6. visited \in SUBSET Tokens
      BY <1>2, <2>1 DEF Init
    <2> QED BY <2>3, <2>4, <2>5, <2>6 DEF Init, TypeOK
  <1> QED BY <1>1, <1>2

\* Every step keeps the types.
LEMMA NextTypes == ASSUME TypeOK, [Next]_vars PROVE TypeOK'
  <1>1. CASE NextStart
    <2>1. start \in 1 .. Len(StartTokens) /\ Len(StartTokens) \in Nat
      BY <1>1, PathBuilderAssumption DEF NextStart, TypeOK, Done
    <2>2. PoolsAt(StartTokens[start + 1]) \in SUBSET Pools
      BY DEF PoolsAt
    <2>3. CASE start + 1 <= Len(StartTokens)
      <3>1. StartTokens[start + 1] \in Tokens
        BY <2>1, <2>3, PathBuilderAssumption
      <3> QED BY <1>1, <2>1, <2>2, <2>3, <3>1 DEF NextStart, Search, TypeOK, Done
    <2>4. CASE ~(start + 1 <= Len(StartTokens))
      BY <1>1, <2>1, <2>4 DEF NextStart, Search, TypeOK, Done
    <2> QED BY <2>3, <2>4
  <1>2. ASSUME NEW p \in Pools, Close(p) PROVE TypeOK'
    <2>1. Look(p) /\ ~Done
      BY <1>2 DEF Close, Look
    <2>2. path # << >>
      BY <1>2 DEF Close, TypeOK
    <2>3. emitted' \in SUBSET Cycles /\ count' \in Nat /\ UNCHANGED <<ends, start>> /\ ~Done'
      BY <1>2, <2>1, LookFacts, ClosedType DEF Close, TypeOK, Done
    <2>4. CASE count' >= MaxPathsPerToken
      <3>1. Return
        BY <1>2, <2>4 DEF Close
      <3>2. Len(path') <= MaxHops /\ Len(todo') = Len(path') + 1
        BY <2>1, <2>2, <3>1, LookFacts, ReturnFacts, PathBuilderAssumption DEF TypeOK
      <3> QED BY <2>1, <2>2, <2>3, <3>1, <3>2, ReturnFacts DEF TypeOK
    <2>5. CASE ~(count' >= MaxPathsPerToken)
      <3>1. todo' = Ticked(p) /\ UNCHANGED <<path, visited>>
        BY <1>2, <2>5 DEF Close
      <3> QED BY <2>1, <2>3, <3>1, LookFacts DEF TypeOK
    <2> QED BY <2>4, <2>5
  <1>3. ASSUME NEW p \in Pools, Pass(p) PROVE TypeOK'
    <2>1. Look(p) /\ ~Done /\ ~Done'
      BY <1>3 DEF Pass, Look, Done
    <2> QED BY <1>3, <2>1, LookFacts DEF Pass, TypeOK
  <1>4. ASSUME NEW p \in Pools, Descend(p) PROVE TypeOK'
    <2> DEFINE u == Other(p, Current)
    <2>1. Look(p) /\ ~Done /\ ~Done'
      BY <1>4 DEF Descend, Look, Done
    <2>2. u \in Tokens
      BY OtherType DEF TypeOK
    <2>3. PoolsAt(u) \in SUBSET Pools
      BY DEF PoolsAt
    <2>4. path' \in Seq(Hops) /\ Len(path') = Len(path) + 1 /\ Len(path') <= MaxHops
      BY <1>4, <2>2, PathBuilderAssumption DEF Descend, TypeOK, Hops
    <2>5. todo' \in Seq(SUBSET Pools) /\ Len(todo') = Len(todo) + 1
      <3> HIDE DEF u
      <3>1. todo' = Append(Ticked(p), PoolsAt(u))
        BY <1>4 DEF Descend, u
      <3> QED BY <2>1, <2>3, <3>1, LookFacts
    <2>6. visited' \in SUBSET Tokens /\ UNCHANGED <<ends, start, emitted, count>>
      BY <1>4, <2>2 DEF Descend, TypeOK
    <2> QED BY <2>1, <2>4, <2>5, <2>6, LookFacts DEF TypeOK
  <1>5. CASE Exhausted
    <2>1. ~Done /\ ~Done' /\ path # << >> /\ Return /\ UNCHANGED <<ends, start, emitted, count>>
      BY <1>5 DEF Exhausted, Done
    <2>2. Len(path') <= MaxHops /\ Len(todo') = Len(path') + 1
      BY <2>1, ReturnFacts, PathBuilderAssumption DEF TypeOK
    <2> QED BY <2>1, <2>2, ReturnFacts DEF TypeOK
  <1>6. CASE UNCHANGED vars
    BY <1>6 DEF vars, TypeOK, Done
  <1> QED BY <1>1, <1>2, <1>3, <1>4, <1>5, <1>6 DEF Next, Finished

\* The path never holds more than max_hops hops, there is one set of pools for
\* each frame, and what is emitted are cycles (find_cycles 112-141).
THEOREM PathTypeCorrect == Spec => []TypeOK
  <1> QED BY InitTypes, NextTypes, PTL DEF Spec

-----------------------------------------------------------------------------

\* Initially nothing is emitted.
LEMMA InitCap == ASSUME Init PROVE CapInv
  <1>1. TypeOK
    BY InitTypes
  <1> QED BY <1>1, PathBuilderAssumption
          DEF Init, CapInv, FramesPayForCycles, CapNearlyHolds, TypeOK

\* A step into one cycle more costs the frame once the cap is reached.
LEMMA NextCap == ASSUME CapInv, [Next]_vars PROVE CapInv'
  <1>0. TypeOK /\ TypeOK' /\ FramesPayForCycles /\ CapNearlyHolds
    BY NextTypes DEF CapInv
  <1> DEFINE d == Len(path)
             e == Len(path')
  <1>a. d \in Nat /\ e \in Nat /\ d <= MaxHops /\ count \in Nat
    BY <1>0 DEF TypeOK
  <1> SUFFICES FramesPayForCycles' /\ CapNearlyHolds'
    BY <1>0 DEF CapInv
  <1>1. CASE NextStart
    BY <1>1, PathBuilderAssumption, <1>a
       DEF NextStart, Search, FramesPayForCycles, CapNearlyHolds
  <1>2. ASSUME NEW p \in Pools, Close(p) PROVE FramesPayForCycles' /\ CapNearlyHolds'
    <2>1. count' = count + 1 /\ d >= 2 /\ path # << >> /\ ~Done
      BY <1>0, <1>2 DEF Close, Look, TypeOK
    <2>2. CASE count' >= MaxPathsPerToken
      <3>1. Return
        BY <1>2, <2>2 DEF Close
      <3>2. e = d - 1
        BY <1>0, <2>1, <3>1, ReturnFacts
      <3>3. count' <= MaxPathsPerToken + MaxHops - 1 - e
        <4>1. CASE count >= MaxPathsPerToken
          BY <1>0, <1>a, <2>1, <3>2, <4>1, PathBuilderAssumption DEF FramesPayForCycles
        <4>2. CASE count < MaxPathsPerToken
          BY <1>a, <2>1, <3>2, <4>2, PathBuilderAssumption
        <4> QED BY <1>a, <4>1, <4>2, PathBuilderAssumption
      <3> QED BY <1>a, <2>1, <3>2, <3>3, PathBuilderAssumption
              DEF FramesPayForCycles, CapNearlyHolds
    <2>3. CASE ~(count' >= MaxPathsPerToken)
      BY <1>a, <2>1, <2>3, PathBuilderAssumption DEF FramesPayForCycles, CapNearlyHolds
    <2> QED BY <2>2, <2>3
  <1>3. ASSUME NEW p \in Pools, Pass(p) PROVE FramesPayForCycles' /\ CapNearlyHolds'
    BY <1>0, <1>3 DEF Pass, FramesPayForCycles, CapNearlyHolds
  <1>4. ASSUME NEW p \in Pools, Descend(p) PROVE FramesPayForCycles' /\ CapNearlyHolds'
    BY <1>0, <1>4, <1>a, PathBuilderAssumption DEF Descend, FramesPayForCycles, CapNearlyHolds
  <1>5. CASE Exhausted
    <2>1. e = d - 1 /\ count' = count
      BY <1>0, <1>5, ReturnFacts DEF Exhausted
    <2> QED BY <1>0, <1>a, <2>1, PathBuilderAssumption DEF FramesPayForCycles, CapNearlyHolds
  <1>6. CASE UNCHANGED vars
    BY <1>0, <1>6 DEF vars, FramesPayForCycles, CapNearlyHolds
  <1> QED BY <1>1, <1>2, <1>3, <1>4, <1>5, <1>6 DEF Next, Finished

\* A start token never gets more than max_paths_per_token + max_hops - 2
\* cycles, whatever the callers of a frame that reached the cap go on to find
\* (find_cycles 108-126).
THEOREM CapExceededByDepth == Spec => []CapNearlyHolds
  <1>1. CapInv => CapNearlyHolds
    BY DEF CapInv
  <1> QED BY <1>1, InitCap, NextCap, PTL DEF Spec

-----------------------------------------------------------------------------
(* The cycles found *)

\* The token a frame stands at.
Node(k) == IF k = 0 THEN StartToken ELSE path[k].to

\* The path leads from token to token and never back, and visited is what is
\* on it.
PathIsSimple ==
    /\ \A i \in DOMAIN path : /\ ends[path[i].pool] = {path[i].to, Node(i - 1)}
                              /\ path[i].to # StartToken
    /\ \A i, j \in DOMAIN path : i # j => path[i].to # path[j].to
    /\ ~Done => visited = {StartToken} \cup {path[i].to : i \in DOMAIN path}

\* A frame looks at pools of its own token.
TodoAtNode == \A k \in DOMAIN todo : \A p \in todo[k] : Node(k - 1) \in ends[p]

\* h runs along a simple cycle back to t.
RunsAround(h, t) ==
    /\ h \in Seq(Hops)
    /\ Len(h) \in 3 .. MaxHops + 1
    /\ h[Len(h)].to = t
    /\ \A i \in DOMAIN h : ends[h[i].pool] = {h[i].to, IF i = 1 THEN t ELSE h[i - 1].to}
    /\ \A i, j \in DOMAIN h : i # j => h[i].to # h[j].to /\ h[i].pool # h[j].pool

\* The path is the beginning of h up to a frame that has yet to look at h's
\* next pool.
Ahead(h) ==
    \E k \in DOMAIN todo :
        /\ k \in DOMAIN h
        /\ \A i \in 1 .. k - 1 : i \in DOMAIN path /\ h[i] = path[i]
        /\ h[k].pool \in todo[k]

EmittedAreCycles == \A c \in emitted : RunsAround(c.hops, c.start)

NoneLost ==
    ~Done /\ count < MaxPathsPerToken =>
        \A h : RunsAround(h, StartToken) =>
            Ahead(h) \/ [start |-> StartToken, hops |-> h] \in emitted

SearchInv ==
    /\ TypeOK
    /\ PathIsSimple
    /\ TodoAtNode
    /\ EmittedAreCycles
    /\ NoneLost

\* A sequence with an element more.
LEMMA AppendedFacts ==
    ASSUME NEW S, NEW q \in Seq(S), NEW x
    PROVE  /\ Len(Append(q, x)) = Len(q) + 1
           /\ DOMAIN Append(q, x) = 1 .. Len(q) + 1
           /\ DOMAIN q = 1 .. Len(q) /\ Len(q) \in Nat
           /\ \A i \in DOMAIN q : Append(q, x)[i] = q[i]
           /\ Append(q, x)[Len(q) + 1] = x
  OBVIOUS

\* A sequence without its last element.
LEMMA FrontFacts ==
    ASSUME NEW S, NEW q \in Seq(S), q # << >>
    PROVE  /\ DOMAIN q = 1 .. Len(q) /\ Len(q) \in Nat \ {0}
           /\ Len(Front(q)) = Len(q) - 1
           /\ DOMAIN Front(q) = 1 .. Len(q) - 1
           /\ \A i \in DOMAIN Front(q) : Front(q)[i] = q[i]
           /\ Last(q) = q[Len(q)]
  <1>1. DOMAIN q = 1 .. Len(q) /\ Len(q) \in Nat \ {0}
    OBVIOUS
  <1>2. Front(q) = [i \in 1 .. Len(q) - 1 |-> q[i]]
    BY <1>1 DEF Front
  <1>3. Len(Front(q)) = Len(q) - 1
    BY FrontType
  <1> QED
    BY <1>1, <1>2, <1>3 DEF Last

\* A sequence of known elements.
LEMMA SameSequence ==
    ASSUME NEW S, NEW q \in Seq(S), NEW x \in S, NEW h \in Seq(S), Len(h) = Len(q) + 1,
           \A i \in DOMAIN q : h[i] = q[i], h[Len(h)] = x
    PROVE  h = Append(q, x)
  OBVIOUS

\* The members of SimpleCycles, hop by hop.
LEMMA SimpleCyclesRunAround ==
    ASSUME NEW t
    PROVE  \A h : [start |-> t, hops |-> h] \in SimpleCycles(t, 3 .. MaxHops + 1)
                     <=> RunsAround(h, t)
  <1> SUFFICES ASSUME NEW h
               PROVE  [start |-> t, hops |-> h] \in SimpleCycles(t, 3 .. MaxHops + 1)
                         <=> RunsAround(h, t)
    OBVIOUS
  <1>1. h \in UNION {[1 .. n -> Hops] : n \in 3 .. MaxHops + 1}
           <=> h \in Seq(Hops) /\ Len(h) \in 3 .. MaxHops + 1
    BY PathBuilderAssumption
  <1>2. \A g : [start |-> t, hops |-> h] = [start |-> t, hops |-> g] => g = h
    OBVIOUS
  <1> QED
    BY <1>1, <1>2 DEF SimpleCycles, RunsAround, Last

\* A pool of a token has that token and one other as its ends.
LEMMA OtherEnd ==
    ASSUME ends \in [Pools -> TokenPairs], NEW p \in Pools, NEW t \in ends[p]
    PROVE  /\ Other(p, t) \in Tokens /\ Other(p, t) # t /\ ends[p] = {Other(p, t), t}
           /\ \A u : ends[p] = {u, t} => u = Other(p, t)
  <1>1. PICK u \in Tokens : u # t /\ ends[p] = {u, t}
    BY DEF TokenPairs
  <1>2. \A v \in ends[p] : v # t <=> v = u
    BY <1>1
  <1>3. Other(p, t) = u
    BY <1>1, <1>2 DEF Other
  <1> QED
    BY <1>1, <1>3

\* A frame that looks at a pool of its own token.
LEMMA LookAtNode ==
    ASSUME TypeOK, TodoAtNode, NEW p \in Pools, Look(p)
    PROVE  /\ DOMAIN path = 1 .. Len(path) /\ Len(path) \in Nat
           /\ DOMAIN todo = 1 .. Len(path) + 1
           /\ p \in todo[Len(path) + 1]
           /\ Current = Node(Len(path))
           /\ Current \in ends[p]
           /\ DOMAIN Ticked(p) = 1 .. Len(path) + 1
           /\ \A k \in 1 .. Len(path) : Ticked(p)[k] = todo[k]
           /\ Ticked(p)[Len(path) + 1] = todo[Len(path) + 1] \ {p}
  <1>1. /\ Len(todo) = Len(path) + 1 /\ Len(path) \in Nat
        /\ DOMAIN path = 1 .. Len(path) /\ DOMAIN todo = 1 .. Len(path) + 1
        /\ p \in todo[Len(path) + 1]
    BY LookFacts DEF TypeOK, Look, Last
  <1>2. Current = Node(Len(path))
    BY <1>1 DEF TypeOK, Current, Node, Last
  <1>3. Current \in ends[p]
    BY <1>1, <1>2 DEF TodoAtNode
  <1>4. /\ DOMAIN Ticked(p) = 1 .. Len(path) + 1
        /\ \A k \in 1 .. Len(path) : Ticked(p)[k] = todo[k]
        /\ Ticked(p)[Len(path) + 1] = todo[Len(path) + 1] \ {p}
    BY <1>1 DEF Ticked
  <1> QED
    BY <1>1, <1>2, <1>3, <1>4

\* h goes on from the path with pool p.
GoesOn(h, p) ==
    /\ Len(path) + 1 \in DOMAIN h
    /\ \A i \in 1 .. Len(path) : h[i] = path[i]
    /\ h[Len(path) + 1].pool = p

\* Then the hop is the one over p to its other end; it is the last one if it
\* leads to the start token, and it never leads to a visited token otherwise.
LEMMA NextHop ==
    ASSUME TypeOK, PathIsSimple, TodoAtNode, NEW p \in Pools, Look(p),
           NEW h, RunsAround(h, StartToken), GoesOn(h, p)
    PROVE  /\ h[Len(path) + 1] = [pool |-> p, to |-> Other(p, Current)]
           /\ Other(p, Current) = StartToken <=> Len(h) = Len(path) + 1
           /\ Other(p, Current) = StartToken => [start |-> StartToken, hops |-> h] = Closed(p)
           /\ Other(p, Current) # StartToken =>
                /\ Other(p, Current) \notin visited
                /\ Len(path) + 2 \in DOMAIN h
                /\ h[Len(path) + 2].pool \in PoolsAt(Other(p, Current))
  <1> DEFINE n == Len(path) + 1
             u == Other(p, Current)
  <1>1. /\ DOMAIN path = 1 .. Len(path) /\ Len(path) \in Nat
        /\ Current = Node(Len(path)) /\ Current \in ends[p] /\ ~Done
    BY LookAtNode DEF Look
  <1>2. /\ h \in Seq(Hops) /\ Len(h) \in 3 .. MaxHops + 1 /\ DOMAIN h = 1 .. Len(h)
        /\ n \in 1 .. Len(h) /\ h[n] \in Hops /\ Len(h) \in Nat
        /\ h[Len(h)].to = StartToken
    BY <1>1, PathBuilderAssumption DEF RunsAround, GoesOn
  <1>3. Node(Len(path)) = IF n = 1 THEN StartToken ELSE h[n - 1].to
    BY <1>1 DEF Node, GoesOn
  <1>4. ends[p] = {h[n].to, Current}
    BY <1>1, <1>2, <1>3 DEF RunsAround, GoesOn
  <1>5. h[n].to = u
    BY <1>1, <1>4, OtherEnd DEF TypeOK
  <1>6. h[n] = [pool |-> p, to |-> u]
    BY <1>2, <1>5 DEF GoesOn, Hops
  <1>7. u = StartToken <=> Len(h) = n
    <2>1. n \in DOMAIN h /\ Len(h) \in DOMAIN h
      BY <1>2
    <2>2. Len(h) # n => h[Len(h)].to # h[n].to
      BY <2>1 DEF RunsAround
    <2> QED
      BY <1>2, <1>5, <2>2
  <1>8. ASSUME u = StartToken PROVE [start |-> StartToken, hops |-> h] = Closed(p)
    <2>1. Len(h) = n /\ h[Len(h)] = [pool |-> p, to |-> StartToken]
      BY <1>6, <1>7, <1>8
    <2>2. [pool |-> p, to |-> StartToken] \in Hops
      BY <1>2, <2>1
    <2>3. path \in Seq(Hops) /\ \A i \in DOMAIN path : h[i] = path[i]
      BY <1>1 DEF TypeOK, GoesOn
    <2>4. h = Append(path, [pool |-> p, to |-> StartToken])
      BY <1>2, <2>1, <2>2, <2>3, SameSequence
    <2> QED
      BY <2>4 DEF Closed
  <1>9. ASSUME u # StartToken
        PROVE  /\ u \notin visited
               /\ n + 1 \in DOMAIN h
               /\ h[n + 1].pool \in PoolsAt(u)
    <2>1. \A i \in 1 .. Len(path) : path[i].to # u
      BY <1>1, <1>2, <1>5 DEF RunsAround, GoesOn
    <2>2. u \notin visited
      BY <1>1, <1>9, <2>1 DEF PathIsSimple
    <2>3. n \in Nat \ {0} /\ n < Len(h)
      <3>1. Len(h) # n
        BY <1>7, <1>9
      <3>2. \A a \in Nat : \A b \in 1 .. a : a # b => b \in Nat \ {0} /\ b < a
        OBVIOUS
      <3> HIDE DEF n
      <3> QED
        BY <1>2, <3>1, <3>2
    <2>4. n + 1 \in DOMAIN h /\ n + 1 # 1 /\ (n + 1) - 1 = n /\ h[n + 1] \in Hops
      BY <1>2, <2>3
    <2>5. ends[h[n + 1].pool] = {h[n + 1].to, h[n].to}
      BY <2>4 DEF RunsAround
    <2> QED
      BY <1>5, <2>2, <2>4, <2>5 DEF PoolsAt, Hops
  <1>10. n + 1 = Len(path) + 2
    BY <1>1
  <1> QED
    BY <1>6, <1>7, <1>8, <1>9, <1>10

\* Looking at p takes nothing else from what is ahead, however the frame's own
\* path and pools are carried on.
LEMMA AheadOrGoesOn ==
    ASSUME TypeOK, TodoAtNode, NEW p \in Pools, Look(p), NEW h, Ahead(h),
           DOMAIN Ticked(p) \subseteq DOMAIN todo',
           \A k \in DOMAIN Ticked(p) : Ticked(p)[k] \subseteq todo'[k],
           DOMAIN path \subseteq DOMAIN path',
           \A i \in DOMAIN path : path'[i] = path[i]
    PROVE  Ahead(h)' \/ GoesOn(h, p)
  <1>1. PICK k \in DOMAIN todo :
          /\ k \in DOMAIN h
          /\ \A i \in 1 .. k - 1 : i \in DOMAIN path /\ h[i] = path[i]
          /\ h[k].pool \in todo[k]
    BY DEF Ahead
  <1>2. /\ Len(path) \in Nat /\ DOMAIN todo = 1 .. Len(path) + 1
        /\ DOMAIN Ticked(p) = 1 .. Len(path) + 1
        /\ \A j \in 1 .. Len(path) : Ticked(p)[j] = todo[j]
        /\ Ticked(p)[Len(path) + 1] = todo[Len(path) + 1] \ {p}
    BY LookAtNode
  <1>3. CASE h[k].pool \in Ticked(p)[k]
    BY <1>1, <1>2, <1>3 DEF Ahead
  <1>4. CASE h[k].pool \notin Ticked(p)[k]
    <2>1. k = Len(path) + 1 /\ h[k].pool = p
      BY <1>1, <1>2, <1>4
    <2> QED
      BY <1>1, <1>2, <2>1 DEF GoesOn
  <1> QED
    BY <1>3, <1>4

\* Two ways to write a pair.
LEMMA PairFacts ==
    ASSUME NEW a, NEW b, NEW c, NEW d, {a, b} = {c, d}, a # c
    PROVE  c = b /\ a = d
  OBVIOUS

\* The cycle that a pool closes after two hops at least is simple.
LEMMA ClosedRunsAround ==
    ASSUME TypeOK, PathIsSimple, TodoAtNode, NEW p \in Pools, Look(p),
           Other(p, Current) = StartToken, Len(path) >= 2
    PROVE  RunsAround(Closed(p).hops, Closed(p).start)
  <1> DEFINE x == [pool |-> p, to |-> StartToken]
             h == Append(path, x)
             n == Len(path) + 1
  <1>1. /\ DOMAIN path = 1 .. Len(path) /\ Len(path) \in Nat /\ path \in Seq(Hops)
        /\ Current = Node(Len(path)) /\ Current \in ends[p]
        /\ Len(path) <= MaxHops /\ StartToken \in Tokens
    BY LookAtNode, LookFacts DEF TypeOK
  <1>2. x \in Hops /\ x.to = StartToken /\ x.pool = p
    BY <1>1 DEF Hops
  <1> HIDE DEF x
  <1>3. /\ h \in Seq(Hops) /\ Len(h) = n /\ DOMAIN h = 1 .. n
        /\ \A i \in 1 .. Len(path) : h[i] = path[i]
        /\ h[n] = x
    BY <1>1, <1>2, AppendedFacts
  <1> HIDE DEF h
  <1>4. /\ ends[p] = {StartToken, path[Len(path)].to}
        /\ path[Len(path)].to # StartToken
    BY <1>1, OtherEnd DEF TypeOK, Node
  <1>5. \A i \in DOMAIN h : ends[h[i].pool] = {h[i].to, IF i = 1 THEN StartToken ELSE h[i - 1].to}
    <2> SUFFICES ASSUME NEW i \in 1 .. n
                 PROVE  ends[h[i].pool] = {h[i].to, IF i = 1 THEN StartToken ELSE h[i - 1].to}
      BY <1>3
    <2>1. CASE i = n
      BY <1>1, <1>2, <1>3, <1>4, <2>1
    <2>2. CASE i # n
      <3>1. i \in 1 .. Len(path) /\ i \in DOMAIN path /\ h[i] = path[i]
        BY <1>1, <1>3, <2>2
      <3>2. i # 1 => i - 1 \in 1 .. Len(path) /\ i - 1 # 0 /\ h[i - 1] = path[i - 1]
        BY <1>1, <1>3, <3>1
      <3>3. Node(i - 1) = IF i = 1 THEN StartToken ELSE h[i - 1].to
        BY <3>1, <3>2 DEF Node
      <3>4. ends[path[i].pool] = {path[i].to, Node(i - 1)}
        BY <3>1 DEF PathIsSimple
      <3> QED
        BY <3>1, <3>3, <3>4
    <2> QED
      BY <2>1, <2>2
  <1>6. \A i, j \in DOMAIN h : i # j => h[i].to # h[j].to
    BY <1>1, <1>2, <1>3 DEF PathIsSimple
  \* Two hops over the same pool would share a token that is not their own.
  <1>7. \A i \in 1 .. n, j \in 1 .. n : i < j => h[i].pool # h[j].pool
    <2> SUFFICES ASSUME NEW i \in 1 .. n, NEW j \in 1 .. n, i < j, h[i].pool = h[j].pool
                 PROVE  FALSE
      OBVIOUS
    <2>1. /\ i \in DOMAIN h /\ j \in DOMAIN h /\ j - 1 \in DOMAIN h
          /\ i # j /\ j # 1 /\ i \in Nat /\ j \in Nat
          /\ i # 1 => i - 1 \in DOMAIN h /\ i - 1 # j
      BY <1>1, <1>3
    <2>2. {h[i].to, IF i = 1 THEN StartToken ELSE h[i - 1].to} = {h[j].to, h[j - 1].to}
      BY <1>5, <2>1
    <2>3. h[i].to # h[j].to
      BY <1>6, <2>1
    <2>4. /\ h[j].to = IF i = 1 THEN StartToken ELSE h[i - 1].to
          /\ h[i].to = h[j - 1].to
      BY <2>2, <2>3, PairFacts
    <2>5. i = 1
      BY <1>6, <2>1, <2>4
    <2>6. i = j - 1
      BY <1>6, <2>1, <2>4
    <2>7. j = 2 /\ j \in 1 .. Len(path) /\ j \in DOMAIN path
      BY <1>1, <2>1, <2>5, <2>6
    <2>8. h[j].to # StartToken
      BY <1>3, <2>7 DEF PathIsSimple
    <2> QED
      BY <2>4, <2>5, <2>8
  <1>8. Len(h) \in 3 .. MaxHops + 1 /\ h[Len(h)].to = StartToken
    BY <1>1, <1>2, <1>3, PathBuilderAssumption
  <1>9. \A i, j \in DOMAIN h : i # j => h[i].pool # h[j].pool
    BY <1>1, <1>3, <1>7
  <1>10. RunsAround(h, StartToken)
    BY <1>3, <1>5, <1>6, <1>8, <1>9 DEF RunsAround
  <1> QED
    BY <1>10 DEF Closed, h, x

\* What the steps keep of the path and of what is ahead of it: a search starts
\* with all the pools of its token.
LEMMA SearchStarts ==
    ASSUME NEW i, start' = i, path' = << >>, ends' \in [Pools -> TokenPairs],
           todo' = IF i <= Len(StartTokens) THEN <<PoolsAt(StartTokens[i])'>> ELSE << >>,
           visited' = IF i <= Len(StartTokens) THEN {StartTokens[i]} ELSE {},
           i \in Nat
    PROVE  PathIsSimple' /\ TodoAtNode' /\ NoneLost'
  <1>1. PathIsSimple'
    BY PathBuilderAssumption DEF PathIsSimple, Done, StartToken
  <1>2. TodoAtNode'
    BY PathBuilderAssumption DEF TodoAtNode, Node, StartToken, PoolsAt
  <1>3. NoneLost'
    <2> SUFFICES ASSUME ~Done', NEW h, RunsAround(h, StartToken)'
                 PROVE  Ahead(h)'
      BY DEF NoneLost
    <2>1. todo' = <<PoolsAt(StartTokens[i])'>> /\ StartToken' = StartTokens[i]
      BY PathBuilderAssumption DEF Done, StartToken
    <2>2. 1 \in DOMAIN h /\ h[1] \in Hops
      BY PathBuilderAssumption DEF RunsAround
    <2>3. ends'[h[1].pool] = {h[1].to, StartTokens[i]}
      BY <2>1, <2>2 DEF RunsAround
    <2>4. h[1].pool \in PoolsAt(StartTokens[i])'
      BY <2>2, <2>3 DEF PoolsAt, Hops
    <2>5. /\ 1 \in DOMAIN todo'
          /\ \A k \in 1 .. 1 - 1 : k \in DOMAIN path' /\ h[k] = path'[k]
          /\ h[1].pool \in todo'[1]
      BY <2>1, <2>4
    <2> QED
      BY <2>2, <2>5 DEF Ahead
  <1> QED
    BY <1>1, <1>2, <1>3

LEMMA InitSearch == ASSUME Init PROVE SearchInv
  <1>1. TypeOK
    BY InitTypes
  <1>2. EmittedAreCycles
    BY DEF Init, EmittedAreCycles
  <1>3. CASE StartTokens = << >>
    <2>1. Done /\ path = << >> /\ todo = << >>
      BY <1>3, PathBuilderAssumption DEF Init, Done
    <2> QED
      BY <1>1, <1>2, <2>1 DEF SearchInv, PathIsSimple, TodoAtNode, NoneLost
  <1>4. CASE StartTokens # << >>
    <2>1. 1 <= Len(StartTokens) /\ start = 1 /\ ~Done
      BY <1>4, PathBuilderAssumption DEF Init, Done
    <2>2. path = << >> /\ todo = <<PoolsAt(StartToken)>> /\ visited = {StartToken}
      BY <1>4, <2>1 DEF Init, StartToken
    <2>3. PathIsSimple
      BY <2>1, <2>2 DEF PathIsSimple
    <2>4. TodoAtNode
      BY <2>2 DEF TodoAtNode, Node, PoolsAt
    <2>5. NoneLost
      <3> SUFFICES ASSUME NEW h, RunsAround(h, StartToken) PROVE Ahead(h)
        BY DEF NoneLost
      <3>1. 1 \in DOMAIN h /\ h[1] \in Hops
        BY PathBuilderAssumption DEF RunsAround
      <3>2. h[1].pool \in PoolsAt(StartToken)
        BY <3>1 DEF RunsAround, PoolsAt, Hops
      <3>3. /\ 1 \in DOMAIN todo
            /\ \A k \in 1 .. 1 - 1 : k \in DOMAIN path /\ h[k] = path[k]
            /\ h[1].pool \in todo[1]
        BY <2>2, <3>2
      <3> QED
        BY <3>1, <3>3 DEF Ahead
    <2> QED
      BY <1>1, <1>2, <2>3, <2>4, <2>5 DEF SearchInv
  <1> QED
    BY <1>3, <1>4

\* A frame that returns leaves a path and frames that are as they were.
LEMMA ReturnKeepsPath ==
    ASSUME TypeOK, PathIsSimple, TodoAtNode, ~Done, path # << >>, Return,
           UNCHANGED <<ends, start>>
    PROVE  PathIsSimple' /\ TodoAtNode'
  <1> DEFINE n == Len(path)
  <1>1. /\ DOMAIN path = 1 .. n /\ n \in Nat \ {0}
        /\ DOMAIN path' = 1 .. n - 1
        /\ \A i \in 1 .. n - 1 : path'[i] = path[i]
        /\ Last(path) = path[n]
        /\ DOMAIN todo = 1 .. n + 1 /\ DOMAIN todo' = 1 .. n
        /\ \A i \in 1 .. n : todo'[i] = todo[i]
    <2>1. /\ DOMAIN path = 1 .. n /\ n \in Nat \ {0}
          /\ DOMAIN path' = 1 .. n - 1
          /\ \A i \in 1 .. n - 1 : path'[i] = path[i]
          /\ Last(path) = path[n]
      BY FrontFacts DEF TypeOK, Return
    <2>2. Len(todo) = n + 1 /\ todo # << >>
      BY <2>1 DEF TypeOK
    <2>3. /\ DOMAIN todo = 1 .. Len(todo) /\ DOMAIN todo' = 1 .. Len(todo) - 1
          /\ \A i \in DOMAIN todo' : todo'[i] = todo[i]
      BY <2>2, FrontFacts DEF TypeOK, Return
    <2>4. (n + 1) - 1 = n
      BY <2>1
    <2> QED
      BY <2>1, <2>2, <2>3, <2>4
  <1> HIDE DEF n
  <1>2. StartToken' = StartToken /\ Done' = Done
    BY DEF StartToken, Done
  <1>3. \A k \in 0 .. n - 1 : Node(k)' = Node(k)
    BY <1>1, <1>2 DEF Node
  <1>4. PathIsSimple'
    <2>1. \A i \in DOMAIN path' : /\ ends'[path'[i].pool] = {path'[i].to, Node(i - 1)'}
                                  /\ path'[i].to # StartToken'
      BY <1>1, <1>2, <1>3 DEF PathIsSimple
    <2>2. \A i, j \in DOMAIN path' : i # j => path'[i].to # path'[j].to
      BY <1>1 DEF PathIsSimple
    <2>3. visited' = {StartToken'} \cup {path'[i].to : i \in DOMAIN path'}
      <3>1. \A i \in 1 .. n - 1 : i \in DOMAIN path /\ n \in DOMAIN path /\ i # n
        BY <1>1
      <3>2. \A i \in 1 .. n - 1 : path[i].to # path[n].to
        BY <3>1 DEF PathIsSimple
      <3>3. path[n].to # StartToken /\ n \in DOMAIN path
        BY <1>1 DEF PathIsSimple
      <3>4. \A i \in DOMAIN path : i = n \/ i \in 1 .. n - 1
        BY <1>1
      <3>5. visited' = visited \ {path[n].to}
        BY <1>1 DEF Return
      <3>6. visited = {StartToken} \cup {path[i].to : i \in DOMAIN path}
        BY DEF PathIsSimple
      <3>7. {path'[i].to : i \in DOMAIN path'} = {path[i].to : i \in 1 .. n - 1}
        BY <1>1
      <3>8. visited' = {StartToken} \cup {path[i].to : i \in 1 .. n - 1}
        BY <3>1, <3>2, <3>3, <3>4, <3>5, <3>6
      <3> QED
        BY <1>2, <3>7, <3>8
    <2> QED
      BY <2>1, <2>2, <2>3 DEF PathIsSimple
  <1>5. TodoAtNode'
    <2> SUFFICES ASSUME NEW k \in DOMAIN todo', NEW p \in todo'[k]
                 PROVE  Node(k - 1)' \in ends'[p]
      BY DEF TodoAtNode
    <2>1. k \in DOMAIN todo /\ p \in todo[k] /\ k - 1 \in 0 .. n - 1
      BY <1>1
    <2> QED
      BY <1>3, <2>1 DEF TodoAtNode
  <1> QED
    BY <1>4, <1>5

\* The frame has one pool less to look at.
LEMMA TickKeepsPath ==
    ASSUME TypeOK, PathIsSimple, TodoAtNode, NEW p \in Pools, Look(p), todo' = Ticked(p),
           UNCHANGED <<ends, start, path, visited>>
    PROVE  PathIsSimple' /\ TodoAtNode'
  <1>1. StartToken' = StartToken /\ Done' = Done /\ \A k : Node(k)' = Node(k)
    BY DEF StartToken, Done, Node
  <1>2. PathIsSimple'
    BY <1>1 DEF PathIsSimple
  <1>3. /\ DOMAIN todo = 1 .. Len(path) + 1 /\ Len(path) \in Nat
        /\ DOMAIN todo' = 1 .. Len(path) + 1
        /\ \A k \in 1 .. Len(path) : todo'[k] = todo[k]
        /\ todo'[Len(path) + 1] = todo[Len(path) + 1] \ {p}
    BY LookAtNode
  <1>4. \A k \in DOMAIN todo : todo'[k] \subseteq todo[k]
    BY <1>3
  <1>5. TodoAtNode'
    BY <1>1, <1>3, <1>4 DEF TodoAtNode
  <1> QED
    BY <1>2, <1>5

\* A new frame for a token that is not on the path.
LEMMA DescendKeepsPath ==
    ASSUME TypeOK, PathIsSimple, TodoAtNode, NEW p \in Pools, Descend(p)
    PROVE  /\ PathIsSimple' /\ TodoAtNode'
           /\ DOMAIN Ticked(p) \subseteq DOMAIN todo'
           /\ \A k \in DOMAIN Ticked(p) : Ticked(p)[k] = todo'[k]
           /\ DOMAIN path' = 1 .. Len(path) + 1
           /\ \A i \in DOMAIN path : i \in DOMAIN path' /\ path'[i] = path[i]
           /\ path'[Len(path) + 1] = [pool |-> p, to |-> Other(p, Current)]
           /\ Len(path) + 2 \in DOMAIN todo'
           /\ todo'[Len(path) + 2] = PoolsAt(Other(p, Current))
  <1> DEFINE n == Len(path)
             u == Other(p, Current)
             x == [pool |-> p, to |-> u]
             ps == PoolsAt(u)
  <1>1. /\ Look(p) /\ ~Done /\ u # StartToken /\ u \notin visited
        /\ path' = Append(path, x) /\ todo' = Append(Ticked(p), ps)
        /\ visited' = visited \cup {u}
        /\ ends' = ends /\ start' = start
    BY DEF Descend, Look
  <1>2. /\ DOMAIN path = 1 .. n /\ n \in Nat
        /\ Current = Node(n) /\ Current \in ends[p]
        /\ DOMAIN todo = 1 .. n + 1
        /\ DOMAIN Ticked(p) = 1 .. n + 1
        /\ \A k \in 1 .. n : Ticked(p)[k] = todo[k]
        /\ Ticked(p)[n + 1] = todo[n + 1] \ {p}
    BY <1>1, LookAtNode
  <1>3. ends[p] = {u, Current}
    BY <1>2, OtherEnd DEF TypeOK
  <1>4. x.pool = p /\ x.to = u /\ \A q \in ps : u \in ends[q]
    BY DEF PoolsAt
  <1> HIDE DEF x, u, ps
  <1>5. /\ DOMAIN path' = 1 .. n + 1
        /\ \A i \in 1 .. n : path'[i] = path[i]
        /\ path'[n + 1] = x
    BY <1>1, <1>2, AppendedFacts DEF TypeOK
  <1>6. /\ DOMAIN todo' = 1 .. n + 2
        /\ \A k \in 1 .. n + 1 : todo'[k] = Ticked(p)[k]
        /\ todo'[n + 2] = ps
    <2>1. Ticked(p) \in Seq(SUBSET Pools) /\ Len(Ticked(p)) = n + 1
      BY <1>1, LookFacts
    <2>2. (n + 1) + 1 = n + 2
      BY <1>2
    <2> QED
      BY <1>1, <1>2, <2>1, <2>2, AppendedFacts
  <1>7. StartToken' = StartToken /\ Done' = Done
    BY <1>1 DEF StartToken, Done
  <1>8. /\ \A k \in 0 .. n : Node(k)' = Node(k)
        /\ \A k : k = n + 1 => Node(k)' = u
    BY <1>2, <1>4, <1>5, <1>7 DEF Node
  <1>9. PathIsSimple'
    <2>0. \A i \in 1 .. n + 1 : i = n + 1 \/ (i \in 1 .. n /\ i - 1 \in 0 .. n)
      BY <1>2
    <2>1. \A i \in DOMAIN path' : /\ ends'[path'[i].pool] = {path'[i].to, Node(i - 1)'}
                                  /\ path'[i].to # StartToken'
      <3> SUFFICES ASSUME NEW i \in 1 .. n + 1
                   PROVE  /\ ends'[path'[i].pool] = {path'[i].to, Node(i - 1)'}
                          /\ path'[i].to # StartToken'
        BY <1>5
      <3>1. CASE i = n + 1
        <4>1. i - 1 = n /\ n \in 0 .. n
          BY <1>2, <3>1
        <4>2. Node(i - 1)' = Current
          BY <1>2, <1>8, <4>1
        <4> QED
          BY <1>1, <1>3, <1>4, <1>5, <1>7, <3>1, <4>2
      <3>2. CASE i \in 1 .. n /\ i - 1 \in 0 .. n
        <4>1. /\ ends[path[i].pool] = {path[i].to, Node(i - 1)}
              /\ path[i].to # StartToken
          BY <1>2, <3>2 DEF PathIsSimple
        <4>2. path'[i] = path[i] /\ Node(i - 1)' = Node(i - 1)
          BY <1>5, <1>8, <3>2
        <4> QED
          BY <1>1, <1>7, <4>1, <4>2
      <3> QED
        BY <2>0, <3>1, <3>2
    <2>2. visited = {StartToken} \cup {path[i].to : i \in 1 .. n}
      BY <1>1, <1>2 DEF PathIsSimple
    <2>3. \A i \in 1 .. n : path[i].to # u
      BY <1>1, <2>2
    <2>4. \A i, j \in DOMAIN path' : i # j => path'[i].to # path'[j].to
      <3>1. \A i, j \in 1 .. n : i # j => path[i].to # path[j].to
        BY <1>2 DEF PathIsSimple
      <3> QED
        BY <1>4, <1>5, <2>0, <2>3, <3>1
    <2>5. visited' = {StartToken'} \cup {path'[i].to : i \in DOMAIN path'}
      <3>1. 1 .. n + 1 = (1 .. n) \cup {n + 1}
        BY <1>2
      <3>2. {path'[i].to : i \in DOMAIN path'} = {path[i].to : i \in 1 .. n} \cup {u}
        BY <1>4, <1>5, <3>1
      <3> QED
        BY <1>1, <1>7, <2>2, <3>2
    <2> QED
      BY <2>1, <2>4, <2>5 DEF PathIsSimple
  <1>10. TodoAtNode'
    <2> SUFFICES ASSUME NEW k \in 1 .. n + 2, NEW q \in todo'[k]
                 PROVE  Node(k - 1)' \in ends'[q]
      BY <1>6 DEF TodoAtNode
    <2>1. CASE k = n + 2
      <3>1. k - 1 = n + 1
        BY <1>2, <2>1
      <3> QED
        BY <1>1, <1>4, <1>6, <1>8, <2>1, <3>1
    <2>2. CASE k # n + 2
      <3>1. k \in 1 .. n + 1 /\ k - 1 \in 0 .. n
        BY <1>2, <2>2
      <3>2. k = n + 1 \/ k \in 1 .. n
        BY <1>2, <3>1
      <3>3. q \in todo[k] /\ k \in DOMAIN todo
        BY <1>2, <1>6, <3>1, <3>2
      <3> QED
        BY <1>1, <1>8, <3>1, <3>3 DEF TodoAtNode
    <2> QED
      BY <2>1, <2>2
  <1>11. n + 2 \in 1 .. n + 2 /\ \A k \in 1 .. n + 1 : k \in 1 .. n + 2
    BY <1>2
  <1>12. \A i \in 1 .. n : i \in 1 .. n + 1
    BY <1>2
  <1> QED
    BY <1>2, <1>5, <1>6, <1>9, <1>10, <1>11, <1>12 DEF x, u, ps

\* Looking at a pool neither loses a cycle nor emits anything else.
LEMMA NextSearch == ASSUME SearchInv, [Next]_vars PROVE SearchInv'
  <1>0. TypeOK /\ TypeOK' /\ PathIsSimple /\ TodoAtNode /\ EmittedAreCycles /\ NoneLost
    BY NextTypes DEF SearchInv
  <1>e. UNCHANGED ends
    BY DEF Next, NextStart, Close, Pass, Descend, Exhausted, Finished, vars
  <1>r. \A h, t : RunsAround(h, t)' = RunsAround(h, t)
    BY <1>e DEF RunsAround
  <1>s. UNCHANGED start => StartToken' = StartToken /\ Done' = Done
    BY DEF StartToken, Done
  \* Nothing is emitted.
  <1>k. ASSUME UNCHANGED emitted, PathIsSimple', TodoAtNode', NoneLost'
        PROVE  SearchInv'
    BY <1>0, <1>k, <1>r DEF SearchInv, EmittedAreCycles
  <1>1. CASE NextStart
    <2>1. /\ start \in Nat /\ Search(start + 1) /\ UNCHANGED emitted
          /\ \A t : PoolsAt(t)' = PoolsAt(t)
      BY <1>0, <1>1, <1>e DEF NextStart, TypeOK, PoolsAt
    <2>2. /\ start' = start + 1 /\ path' = << >> /\ ends' \in [Pools -> TokenPairs]
          /\ start + 1 \in Nat
          /\ todo' = IF start + 1 <= Len(StartTokens)
                       THEN <<PoolsAt(StartTokens[start + 1])>> ELSE << >>
          /\ visited' = IF start + 1 <= Len(StartTokens) THEN {StartTokens[start + 1]} ELSE {}
      BY <1>0, <2>1 DEF Search, TypeOK
    <2>3. ASSUME NEW i, i = start + 1
          PROVE  PathIsSimple' /\ TodoAtNode' /\ NoneLost'
      <3>1. PoolsAt(StartTokens[i])' = PoolsAt(StartTokens[start + 1])
        BY <2>1, <2>3
      <3>2. /\ start' = i /\ i \in Nat
            /\ todo' = IF i <= Len(StartTokens) THEN <<PoolsAt(StartTokens[i])'>> ELSE << >>
            /\ visited' = IF i <= Len(StartTokens) THEN {StartTokens[i]} ELSE {}
        BY <2>2, <2>3, <3>1
      <3> QED
        BY <2>2, <3>2, SearchStarts
    <2> QED
      BY <1>k, <2>1, <2>3
  <1>2. ASSUME NEW p \in Pools, Close(p) PROVE SearchInv'
    <2>1. /\ Look(p) /\ ~Done /\ Other(p, Current) = StartToken /\ Len(path) >= 2
          /\ emitted' = emitted \cup {Closed(p)} /\ count' = count + 1
          /\ UNCHANGED start /\ path # << >>
      BY <1>0, <1>2 DEF Close, Look, TypeOK
    <2>2. StartToken' = StartToken /\ Done' = Done /\ count \in Nat
      BY <1>0, <1>s, <2>1 DEF TypeOK
    <2>3. EmittedAreCycles'
      <3>1. RunsAround(Closed(p).hops, Closed(p).start)
        BY <1>0, <2>1, ClosedRunsAround
      <3> QED
        BY <1>0, <1>r, <2>1, <3>1 DEF EmittedAreCycles
    <2>4. CASE count' >= MaxPathsPerToken
      <3>1. PathIsSimple' /\ TodoAtNode'
        BY <1>0, <1>2, <1>e, <2>1, <2>4, ReturnKeepsPath DEF Close
      <3>2. NoneLost'
        BY <2>2, <2>1, <2>4, PathBuilderAssumption DEF NoneLost
      <3> QED
        BY <1>0, <2>3, <3>1, <3>2 DEF SearchInv
    <2>5. CASE ~(count' >= MaxPathsPerToken)
      <3>1. todo' = Ticked(p) /\ UNCHANGED <<path, visited>>
        BY <1>2, <2>5 DEF Close
      <3>2. PathIsSimple' /\ TodoAtNode'
        BY <1>0, <1>e, <2>1, <2>2, <3>1, TickKeepsPath
      <3>3. ASSUME NEW h, RunsAround(h, StartToken)
            PROVE  Ahead(h)' \/ [start |-> StartToken, hops |-> h] \in emitted'
        <4>1. Ahead(h) \/ [start |-> StartToken, hops |-> h] \in emitted
          BY <1>0, <2>1, <2>2, <2>5, <3>3, PathBuilderAssumption DEF NoneLost
        <4>2. CASE Ahead(h)
          <5>1. Ahead(h)' \/ GoesOn(h, p)
            BY <1>0, <2>1, <3>1, <4>2, AheadOrGoesOn
          <5>2. GoesOn(h, p) => [start |-> StartToken, hops |-> h] = Closed(p)
            BY <1>0, <2>1, <3>3, NextHop
          <5> QED
            BY <2>1, <5>1, <5>2
        <4> QED
          BY <2>1, <4>1, <4>2
      <3>4. NoneLost'
        BY <1>r, <2>2, <3>3 DEF NoneLost
      <3> QED
        BY <1>0, <2>3, <3>2, <3>4 DEF SearchInv
    <2> QED
      BY <2>4, <2>5
  <1>3. ASSUME NEW p \in Pools, Pass(p) PROVE SearchInv'
    <2>1. /\ Look(p) /\ ~Done /\ todo' = Ticked(p)
          /\ UNCHANGED <<start, path, visited, emitted, count>>
          /\ IF Other(p, Current) = StartToken
               THEN Len(path) < 2 \/ Closed(p) \in emitted
               ELSE \/ Other(p, Current) \in visited
                    \/ Len(path) >= MaxHops
                    \/ count >= MaxPathsPerToken
      BY <1>3 DEF Pass, Look
    <2>2. StartToken' = StartToken /\ Done' = Done
      BY <1>s, <2>1
    <2>3. PathIsSimple' /\ TodoAtNode'
      BY <1>0, <1>e, <2>1, <2>2, TickKeepsPath
    <2>4. ASSUME NEW h, RunsAround(h, StartToken), count < MaxPathsPerToken
          PROVE  Ahead(h)' \/ [start |-> StartToken, hops |-> h] \in emitted
      <3>1. Ahead(h) \/ [start |-> StartToken, hops |-> h] \in emitted
        BY <1>0, <2>1, <2>4 DEF NoneLost
      <3>2. CASE Ahead(h)
        <4>1. Ahead(h)' \/ GoesOn(h, p)
          BY <1>0, <2>1, <3>2, AheadOrGoesOn
        <4>2. ASSUME GoesOn(h, p) PROVE [start |-> StartToken, hops |-> h] \in emitted
          <5>1. /\ Other(p, Current) = StartToken <=> Len(h) = Len(path) + 1
                /\ Other(p, Current) = StartToken
                     => [start |-> StartToken, hops |-> h] = Closed(p)
                /\ Other(p, Current) # StartToken =>
                     /\ Other(p, Current) \notin visited
                     /\ Len(path) + 2 \in DOMAIN h
            BY <1>0, <2>1, <2>4, <4>2, NextHop
          <5>2. /\ Len(h) \in 3 .. MaxHops + 1 /\ DOMAIN h = 1 .. Len(h)
                /\ Len(path) \in Nat /\ count \in Nat
            BY <1>0, <2>4, PathBuilderAssumption DEF RunsAround, TypeOK
          <5>3. CASE Other(p, Current) = StartToken
            BY <2>1, <5>1, <5>2, <5>3, PathBuilderAssumption
          <5>4. CASE Other(p, Current) # StartToken
            <6>1. Len(path) + 2 \in 1 .. Len(h) /\ Other(p, Current) \notin visited
              BY <5>1, <5>2, <5>4
            <6>2. Len(path) + 2 <= MaxHops + 1 /\ MaxHops \in Nat
              BY <5>2, <6>1, PathBuilderAssumption
            <6>3. ~(Len(path) >= MaxHops)
              BY <5>2, <6>2
            <6>4. ~(count >= MaxPathsPerToken)
              BY <2>4, <5>2, PathBuilderAssumption
            <6> QED
              BY <2>1, <5>4, <6>1, <6>3, <6>4
          <5> QED
            BY <5>3, <5>4
        <4> QED
          BY <4>1, <4>2
      <3> QED
        BY <3>1, <3>2
    <2>5. NoneLost'
      BY <1>r, <2>1, <2>2, <2>4 DEF NoneLost
    <2> QED
      BY <1>k, <2>1, <2>3, <2>5
  <1>4. ASSUME NEW p \in Pools, Descend(p) PROVE SearchInv'
    <2>1. /\ Look(p) /\ ~Done /\ Other(p, Current) # StartToken
          /\ UNCHANGED <<start, emitted, count>>
      BY <1>4 DEF Descend, Look
    <2>2. StartToken' = StartToken /\ Done' = Done
      BY <1>s, <2>1
    <2>3. /\ PathIsSimple' /\ TodoAtNode'
          /\ DOMAIN Ticked(p) \subseteq DOMAIN todo'
          /\ \A k \in DOMAIN Ticked(p) : Ticked(p)[k] = todo'[k]
          /\ DOMAIN path' = 1 .. Len(path) + 1
          /\ \A i \in DOMAIN path : i \in DOMAIN path' /\ path'[i] = path[i]
          /\ path'[Len(path) + 1] = [pool |-> p, to |-> Other(p, Current)]
          /\ Len(path) + 2 \in DOMAIN todo'
          /\ todo'[Len(path) + 2] = PoolsAt(Other(p, Current))
      BY <1>0, <1>4, DescendKeepsPath
    <2>4. ASSUME NEW h, RunsAround(h, StartToken), count < MaxPathsPerToken
          PROVE  Ahead(h)' \/ [start |-> StartToken, hops |-> h] \in emitted
      <3>1. Ahead(h) \/ [start |-> StartToken, hops |-> h] \in emitted
        BY <1>0, <2>1, <2>4 DEF NoneLost
      <3>2. CASE Ahead(h)
        <4>1. Ahead(h)' \/ GoesOn(h, p)
          BY <1>0, <2>1, <2>3, <3>2, AheadOrGoesOn
        <4>2. ASSUME GoesOn(h, p) PROVE Ahead(h)'
          <5>1. /\ h[Len(path) + 1] = [pool |-> p, to |-> Other(p, Current)]
                /\ Len(path) + 2 \in DOMAIN h
                /\ h[Len(path) + 2].pool \in PoolsAt(Other(p, Current))
            BY <1>0, <2>1, <2>4, <4>2, NextHop
          <5>2. /\ Len(path) \in Nat /\ DOMAIN path = 1 .. Len(path)
                /\ (Len(path) + 2) - 1 = Len(path) + 1
            BY <1>0 DEF TypeOK
          <5>3. \A i \in 1 .. Len(path) + 1 : i = Len(path) + 1 \/ i \in 1 .. Len(path)
            BY <5>2
          <5>4. \A i \in 1 .. Len(path) + 1 : i \in DOMAIN path' /\ h[i] = path'[i]
            BY <2>3, <4>2, <5>1, <5>2, <5>3 DEF GoesOn
          <5> QED
            BY <2>3, <5>1, <5>2, <5>4 DEF Ahead
        <4> QED
          BY <4>1, <4>2
      <3> QED
        BY <3>1, <3>2
    <2>5. NoneLost'
      BY <1>r, <2>1, <2>2, <2>4 DEF NoneLost
    <2> QED
      BY <1>k, <2>1, <2>3, <2>5
  <1>5. CASE Exhausted
    <2>1. /\ ~Done /\ path # << >> /\ Last(todo) = {} /\ Return
          /\ UNCHANGED <<start, emitted, count>>
      BY <1>5 DEF Exhausted
    <2>2. StartToken' = StartToken /\ Done' = Done
      BY <1>s, <2>1
    <2>3. PathIsSimple' /\ TodoAtNode'
      BY <1>0, <1>e, <2>1, ReturnKeepsPath
    <2>4. ASSUME NEW h, Ahead(h) PROVE Ahead(h)'
      <3>1. /\ DOMAIN path = 1 .. Len(path) /\ Len(path) \in Nat \ {0}
            /\ DOMAIN path' = 1 .. Len(path) - 1
            /\ \A i \in DOMAIN path' : path'[i] = path[i]
        BY <1>0, <2>1, FrontFacts DEF TypeOK, Return
      <3>2. Len(todo) = Len(path) + 1 /\ todo # << >>
        BY <1>0, <2>1, <3>1 DEF TypeOK
      <3>3. /\ DOMAIN todo = 1 .. Len(todo) /\ todo[Len(todo)] = {}
            /\ DOMAIN todo' = 1 .. Len(todo) - 1
            /\ \A i \in DOMAIN todo' : todo'[i] = todo[i]
        BY <1>0, <2>1, <3>2, FrontFacts DEF TypeOK, Return
      <3>4. PICK k \in DOMAIN todo :
              /\ k \in DOMAIN h
              /\ \A i \in 1 .. k - 1 : i \in DOMAIN path /\ h[i] = path[i]
              /\ h[k].pool \in todo[k]
        BY <2>4 DEF Ahead
      <3>5. k # Len(todo)
        BY <3>3, <3>4
      <3>6. k \in DOMAIN todo' /\ \A i \in 1 .. k - 1 : i \in DOMAIN path'
        BY <3>1, <3>2, <3>3, <3>5
      <3> QED
        BY <3>1, <3>3, <3>4, <3>6 DEF Ahead
    <2>5. NoneLost'
      BY <1>0, <1>r, <2>1, <2>2, <2>4 DEF NoneLost
    <2> QED
      BY <1>k, <2>1, <2>3, <2>5
  <1>6. CASE UNCHANGED vars
    <2>1. StartToken' = StartToken /\ Done' = Done
          /\ UNCHANGED <<ends, start, path, todo, visited, emitted, count>>
      BY <1>6, <1>s DEF vars
    <2>2. PathIsSimple' /\ TodoAtNode'
      BY <1>0, <2>1 DEF PathIsSimple, TodoAtNode, Node
    <2>3. NoneLost'
      BY <1>0, <1>r, <2>1 DEF NoneLost, Ahead
    <2> QED
      BY <1>k, <2>1, <2>2, <2>3
  <1> QED
    BY <1>1, <1>2, <1>3, <1>4, <1>5, <1>6 DEF Next, Finished

\* Below the cap the search from a start token finds exactly the simple cycles
\* of three to max_hops + 1 hops, whatever the graph and the order of its
\* edges, and it emits nothing else even at the cap (find_cycles).
THEOREM SearchIsComplete == Spec => []FindsAllCycles
  <1>1. ASSUME SearchInv, SearchOver PROVE FindsAllCycles
    <2> DEFINE cycles == SimpleCycles(StartToken, 3 .. MaxHops + 1)
    <2>1. \A h : [start |-> StartToken, hops |-> h] \in cycles <=> RunsAround(h, StartToken)
      BY SimpleCyclesRunAround
    <2>2. \A c \in cycles : \E h : c = [start |-> StartToken, hops |-> h]
      BY DEF SimpleCycles
    <2> HIDE DEF cycles
    <2>3. EmittedFrom(StartToken) \subseteq cycles
      <3> SUFFICES ASSUME NEW c \in emitted, c.start = StartToken PROVE c \in cycles
        BY DEF EmittedFrom
      <3>1. c = [start |-> StartToken, hops |-> c.hops]
        BY <1>1 DEF SearchInv, TypeOK, Cycles
      <3>2. RunsAround(c.hops, StartToken)
        BY <1>1 DEF SearchInv, EmittedAreCycles
      <3> QED
        BY <2>1, <3>1, <3>2
    <2>4. \A h : ~Ahead(h)
      <3>1. todo = <<{}>>
        BY <1>1 DEF SearchOver
      <3> QED
        BY <3>1 DEF Ahead
    <2>5. ASSUME count < MaxPathsPerToken, NEW c \in cycles
          PROVE  c \in EmittedFrom(StartToken)
      <3>1. PICK h : c = [start |-> StartToken, hops |-> h]
        BY <2>2
      <3>2. RunsAround(h, StartToken)
        BY <2>1, <3>1
      <3>3. c \in emitted
        BY <1>1, <2>4, <2>5, <3>1, <3>2 DEF SearchInv, NoneLost, SearchOver
      <3> QED
        BY <3>1, <3>3 DEF EmittedFrom
    <2> QED
      BY <2>3, <2>5 DEF FindsAllCycles, EmitsExactly, cycles
  <1>2. SearchInv => FindsAllCycles
    BY <1>1 DEF FindsAllCycles, EmitsExactly
  <1> QED
    BY <1>2, InitSearch, NextSearch, PTL DEF Spec
=============================================================================
