----------------------------- MODULE PathBuilder -----------------------------
(***************************************************************************)
(* The search for arbitrage cycles at startup: src/src/path_builder.rs.    *)
(*                                                                         *)
(* Tokens are the nodes and pools the edges of an undirected multigraph.   *)
(* From each start token a depth-first search emits the cycles back to it. *)
(* A frame of the recursion of find_cycles is an element of todo: the      *)
(* edges that the frame has still to look at.  petgraph's order among them *)
(* is left open.                                                           *)
(***************************************************************************)
EXTENDS Integers, Sequences, SequencesExt, Functions

CONSTANTS
    Tokens,           \* token addresses
    Pools,            \* the loaded pools
    StartTokens,      \* start_tokens, a sequence
    MaxHops,          \* max_hops
    MaxPathsPerToken  \* max_paths_per_token

ASSUME PathBuilderAssumption ==
    /\ StartTokens \in Seq(Tokens)
    /\ MaxHops \in Nat \ {0, 1}
    /\ MaxPathsPerToken \in Nat \ {0}

VARIABLES
    ends,     \* the two tokens of each pool
    start,    \* position in start_tokens; past its end when all is done
    path,     \* current_path: pools taken, and the tokens they led to
    todo,     \* per frame of the recursion, the pools not looked at yet
    visited,  \* visited
    emitted,  \* all_paths, of which seen_hashes holds the hashes
    count     \* count

vars == <<ends, start, path, todo, visited, emitted, count>>

TokenPairs == {tt \in SUBSET Tokens : \E t, u \in tt : t # u /\ tt = {t, u}}
Hops == [pool : Pools, to : Tokens]
Cycles == [start : Tokens, hops : Seq(Hops)]

Done == start > Len(StartTokens)
StartToken == StartTokens[start]

\* The node a frame stands at, the pools at a node, the far end of a pool.
Current == IF path = << >> THEN StartToken ELSE Last(path).to
PoolsAt(t) == {p \in Pools : t \in ends[p]}
Other(p, t) == CHOOSE u \in ends[p] : u # t

-----------------------------------------------------------------------------
(* build_arb_paths *)

\* The search from start_tokens[i], unless it has no pool or there is none.
Search(i) ==
    /\ start' = i
    /\ path' = << >>
    /\ todo' = IF i <= Len(StartTokens) THEN <<PoolsAt(StartTokens[i])>> ELSE << >>
    /\ visited' = IF i <= Len(StartTokens) THEN {StartTokens[i]} ELSE {}
    /\ count' = 0

Init ==
    /\ ends \in [Pools -> TokenPairs]
    /\ start = 1
    /\ path = << >>
    /\ todo = IF StartTokens # << >> THEN <<PoolsAt(StartTokens[1])>> ELSE << >>
    /\ visited = IF StartTokens # << >> THEN {StartTokens[1]} ELSE {}
    /\ emitted = {}
    /\ count = 0

\* The search from one start token is over.
NextStart ==
    /\ ~Done
    /\ path = << >>
    /\ todo = <<{}>>
    /\ Search(start + 1)
    /\ UNCHANGED <<ends, emitted>>

-----------------------------------------------------------------------------
(* find_cycles *)

\* The frame's loop looks at pool p.
Look(p) ==
    /\ ~Done
    /\ todo # << >>
    /\ p \in Last(todo)

Ticked(p) == [todo EXCEPT ![Len(todo)] = @ \ {p}]

\* The cycle that pool p closes.
Closed(p) == [start |-> StartToken, hops |-> Append(path, [pool |-> p, to |-> StartToken])]

\* A frame returns to its caller, which takes its last hop back.
Return ==
    /\ path' = Front(path)
    /\ todo' = Front(todo)
    /\ visited' = visited \ {Last(path).to}

\* Mutant of Close: the frame goes on at the cap.
CloseGoesOn(p) ==
    /\ Look(p)
    /\ Other(p, Current) = StartToken
    /\ Len(path) >= 2 /\ Closed(p) \notin emitted
    /\ emitted' = emitted \cup {Closed(p)}
    /\ count' = count + 1
    /\ todo' = Ticked(p)
    /\ UNCHANGED <<ends, start, path, visited>>

\* A cycle of three hops at least is emitted once.  At the cap the frame
\* returns; its callers go on with their loops.
Close(p) ==
    /\ Look(p)
    /\ Other(p, Current) = StartToken
    /\ Len(path) >= 2 /\ Closed(p) \notin emitted
    /\ emitted' = emitted \cup {Closed(p)}
    /\ count' = count + 1
    /\ IF count' >= MaxPathsPerToken
         THEN Return
         ELSE todo' = Ticked(p) /\ UNCHANGED <<path, visited>>
    /\ UNCHANGED <<ends, start>>

\* The pool leads back too early, or to a known cycle, or to a token that is on
\* the path, or too deep, or the cap makes the new frame return at once.
Pass(p) ==
    /\ Look(p)
    /\ LET onward == Other(p, Current) IN
         IF onward = StartToken
           THEN Len(path) < 2 \/ Closed(p) \in emitted
           ELSE onward \in visited \/ Len(path) >= MaxHops \/ count >= MaxPathsPerToken
    /\ todo' = Ticked(p)
    /\ UNCHANGED <<ends, start, path, visited, emitted, count>>

\* A new frame for a token that is not on the path.
Descend(p) ==
    LET onward == Other(p, Current) IN
    /\ Look(p)
    /\ onward # StartToken
    /\ onward \notin visited
    /\ Len(path) < MaxHops
    /\ count < MaxPathsPerToken
    /\ path' = Append(path, [pool |-> p, to |-> onward])
    /\ todo' = Append(Ticked(p), PoolsAt(onward))
    /\ visited' = visited \cup {onward}
    /\ UNCHANGED <<ends, start, emitted, count>>

\* Mutant of Exhausted: the token stays visited.
ExhaustedStaysVisited ==
    /\ ~Done
    /\ path # << >>
    /\ Last(todo) = {}
    /\ path' = Front(path)
    /\ todo' = Front(todo)
    /\ UNCHANGED <<ends, start, visited, emitted, count>>

\* The frame has looked at all its pools.
Exhausted ==
    /\ ~Done
    /\ path # << >>
    /\ Last(todo) = {}
    /\ Return
    /\ UNCHANGED <<ends, start, emitted, count>>

\* build_arb_paths has returned.
Finished == Done /\ UNCHANGED vars

Next ==
    \/ NextStart
    \/ \E p \in Pools : Close(p) \/ Pass(p) \/ Descend(p)
    \/ Exhausted
    \/ Finished

Spec == Init /\ [][Next]_vars

TypeOK ==
    /\ ends \in [Pools -> TokenPairs]
    /\ start \in 1 .. Len(StartTokens) + 1
    /\ path \in Seq(Hops)
    /\ Len(path) <= MaxHops
    /\ todo \in Seq(SUBSET Pools)
    /\ Len(todo) = (IF Done THEN 0 ELSE Len(path) + 1)
    /\ visited \in SUBSET Tokens
    /\ emitted \in SUBSET Cycles
    /\ count \in Nat

-----------------------------------------------------------------------------
(* Properties *)

\* The simple cycles from token t with a number of hops in ns, by definition:
\* each pool leads on from where the one before ended, all the tokens on the
\* way differ, and so do the pools.
SimpleCycles(t, ns) ==
    {[start |-> t, hops |-> h] : h \in
        {g \in UNION {[1 .. n -> Hops] : n \in ns} :
            /\ Last(g).to = t
            /\ \A i \in DOMAIN g :
                 ends[g[i].pool] = {g[i].to, IF i = 1 THEN t ELSE g[i - 1].to}
            /\ \A i, j \in DOMAIN g :
                 i # j => g[i].to # g[j].to /\ g[i].pool # g[j].pool}}

\* All that the search from the current start token must have looked at.
SearchOver == ~Done /\ path = << >> /\ todo = <<{}>>
EmittedFrom(t) == {c \in emitted : c.start = t}

\* What the search has to have emitted when it is over, if the cycles meant are
\* those with a number of hops in ns: only such, and below the cap all of them.
EmitsExactly(ns) ==
    SearchOver =>
        /\ EmittedFrom(StartToken) \subseteq SimpleCycles(StartToken, ns)
        /\ count < MaxPathsPerToken =>
             EmittedFrom(StartToken) = SimpleCycles(StartToken, ns)

\* The search emits exactly the simple cycles of three to max_hops + 1 hops, as
\* long as it stays below the cap, and nothing else in any case: taking hops
\* back and unmarking tokens loses no cycle in whatever order the edges come.
FindsAllCycles == EmitsExactly(3 .. MaxHops + 1)

\* What the doc comments of the file and of build_arb_paths promise: the cycles
\* of two to max_hops swaps.  The code does not keep it, at either end:
\* current_path does not hold the closing hop when its length is compared.
FindsDocumentedCycles == EmitsExactly(2 .. MaxHops)

\* Frames that are still open when the cap is reached emit one cycle more at
\* most each, and only those two hops deep or deeper can: max_paths_per_token
\* bounds what one start token emits up to the depth of the recursion.
CapNearlyHolds == count <= MaxPathsPerToken + MaxHops - 2

\* What the doc comment of build_arb_paths promises of the cap.  The code does
\* not keep it: a caller whose callee returned at the cap goes on with its loop,
\* and the cap is compared only after a cycle was emitted there too.
CapHolds == count <= MaxPathsPerToken
=============================================================================
