---------------------------- MODULE BlockGossip ----------------------------
(***************************************************************************)
(* The multi-endpoint block stream of src/src/block_stream.rs.             *)
(*                                                                         *)
(* stream_blocks_gossip spawns one gossip_endpoint task per WebSocket URL. *)
(* The tasks share a BlockDedup (behind a mutex) and a broadcast sender.   *)
(* A header is first offered to the dedup set under the lock, and is sent  *)
(* only after the lock is released: the two halves are separate steps.     *)
(*                                                                         *)
(* The broadcast channel (tokio, external) keeps the last BroadcastCap     *)
(* messages; its only receiver is the MarketState worker, which skips      *)
(* forward when it has lagged.                                             *)
(***************************************************************************)
EXTENDS Integers, Sequences, FiniteSets

CONSTANTS
    Endpoints,     \* the WebSocket endpoints, one task each
    Window,        \* DEDUP_WINDOW: how many block numbers are remembered
    BackoffInit,   \* first reconnect delay, 500 ms in the code
    MaxBackoff,    \* MAX_BACKOFF_MS, 30000 ms in the code
    BroadcastCap,  \* messages the broadcast channel keeps for its receiver
    MaxBlock,      \* bound: highest block number the chain reaches
    MaxAccepts     \* bound: headers taken up by the dedup set in all

ASSUME GossipAssumption ==
    /\ Window \in Nat \ {0}
    /\ BackoffInit \in Nat \ {0}
    /\ MaxBackoff \in Nat
    /\ BackoffInit <= MaxBackoff
    /\ BroadcastCap \in Nat \ {0}
    /\ MaxBlock \in Nat
    /\ MaxAccepts \in Nat

VARIABLES
    chainHead,  \* newest block of the chain
    seen,       \* BlockDedup.seen
    ring,       \* BlockDedup.ring, 0 marks a slot that was never filled
    head,       \* BlockDedup.head, the slot that is overwritten next
    pc,         \* where each endpoint task is
    backoff,    \* each task's backoff_ms
    pending,    \* the header a task has put in the dedup set and not yet sent, or 0
    sent,       \* history: every block number broadcast, in order
    rxPos,      \* receiver: number of broadcast messages consumed or skipped
    rxAlive,    \* whether the receiver still exists
    accepted    \* history: every number try_insert answered true for, in order

dedup == <<seen, ring, head, accepted>>
channel == <<sent, rxPos, rxAlive>>
vars == <<chainHead, dedup, pc, backoff, pending, channel>>

Slots == 0 .. Window - 1
Blocks == 1 .. MaxBlock
Places == {"connect", "subscribe", "sleep", "stream", "forward", "exited"}

TypeOK ==
    /\ chainHead \in 0 .. MaxBlock
    /\ seen \subseteq Blocks
    /\ ring \in [Slots -> Blocks \cup {0}]
    /\ head \in Slots
    /\ pc \in [Endpoints -> Places]
    /\ backoff \in [Endpoints -> BackoffInit .. MaxBackoff]
    /\ pending \in [Endpoints -> Blocks \cup {0}]
    /\ sent \in Seq(Blocks)
    /\ rxPos \in Nat
    /\ rxAlive \in BOOLEAN
    /\ accepted \in Seq(Blocks)

Init ==
    /\ chainHead = 0
    /\ seen = {}
    /\ ring = [s \in Slots |-> 0]
    /\ head = 0
    /\ pc = [e \in Endpoints |-> "connect"]
    /\ backoff = [e \in Endpoints |-> BackoffInit]
    /\ pending = [e \in Endpoints |-> 0]
    /\ sent = << >>
    /\ rxPos = 0
    /\ rxAlive = TRUE
    /\ accepted = << >>

-----------------------------------------------------------------------------
(* BlockDedup *)

\* Mutant of TryInsertNew: the head is not advanced.
InsertHeadStays(n) ==
    /\ n \notin seen
    /\ seen' = (seen \cup {n}) \ (IF ring[head] # 0 THEN {ring[head]} ELSE {})
    /\ ring' = [ring EXCEPT ![head] = n]
    /\ head' = head
    /\ accepted' = Append(accepted, n)

\* Mutant of TryInsertNew: the overwritten number stays in the set.
InsertNoEviction(n) ==
    /\ n \notin seen
    /\ seen' = seen \cup {n}
    /\ ring' = [ring EXCEPT ![head] = n]
    /\ head' = (head + 1) % Window
    /\ accepted' = Append(accepted, n)

\* Mutant of TryInsertNew: the number is not looked up in the set.
InsertUnchecked(n) ==
    /\ seen' = (seen \cup {n}) \ (IF ring[head] # 0 THEN {ring[head]} ELSE {})
    /\ ring' = [ring EXCEPT ![head] = n]
    /\ head' = (head + 1) % Window
    /\ accepted' = Append(accepted, n)

\* try_insert on a number that is not in the set: take it up, evict the entry
\* of the slot it overwrites, advance the head.
TryInsertNew(n) ==
    /\ n \notin seen
    /\ seen' = (seen \cup {n}) \ (IF ring[head] # 0 THEN {ring[head]} ELSE {})
    /\ ring' = [ring EXCEPT ![head] = n]
    /\ head' = (head + 1) % Window
    /\ accepted' = Append(accepted, n)

-----------------------------------------------------------------------------
(* gossip_endpoint *)

ConnectOk(e) ==
    /\ pc[e] = "connect"
    /\ pc' = [pc EXCEPT ![e] = "subscribe"]
    /\ UNCHANGED <<chainHead, dedup, backoff, pending, channel>>

\* Mutant of ConnectFail: the task gives up.
ConnectFailExits(e) ==
    /\ pc[e] \in {"connect", "subscribe"}
    /\ pc' = [pc EXCEPT ![e] = "exited"]
    /\ UNCHANGED <<chainHead, dedup, backoff, pending, channel>>

\* A failed connect or subscribe sleeps for backoff_ms.
ConnectFail(e) ==
    /\ pc[e] \in {"connect", "subscribe"}
    /\ pc' = [pc EXCEPT ![e] = "sleep"]
    /\ UNCHANGED <<chainHead, dedup, backoff, pending, channel>>

\* A successful subscription resets the delay.
SubscribeOk(e) ==
    /\ pc[e] = "subscribe"
    /\ pc' = [pc EXCEPT ![e] = "stream"]
    /\ backoff' = [backoff EXCEPT ![e] = BackoffInit]
    /\ UNCHANGED <<chainHead, dedup, pending, channel>>

\* Mutant of StreamEnd: the connection may drop before the header is sent.
StreamEndLosesHeader(e) ==
    /\ pc[e] \in {"stream", "forward"}
    /\ pc' = [pc EXCEPT ![e] = "sleep"]
    /\ pending' = [pending EXCEPT ![e] = 0]
    /\ UNCHANGED <<chainHead, dedup, backoff, channel>>

\* The header stream ends (dropped connection): sleep, then reconnect.
StreamEnd(e) ==
    /\ pc[e] = "stream"
    /\ pc' = [pc EXCEPT ![e] = "sleep"]
    /\ UNCHANGED <<chainHead, dedup, backoff, pending, channel>>

\* Mutant of Wake: the delay is not capped.
WakeUncapped(e) ==
    /\ pc[e] = "sleep"
    /\ pc' = [pc EXCEPT ![e] = "connect"]
    /\ backoff' = [backoff EXCEPT ![e] = 2 * @]
    /\ UNCHANGED <<chainHead, dedup, pending, channel>>

\* The sleep is over: double the delay up to the cap, connect again.
Wake(e) ==
    /\ pc[e] = "sleep"
    /\ pc' = [pc EXCEPT ![e] = "connect"]
    /\ backoff' = [backoff EXCEPT ![e] =
                     IF 2 * @ < MaxBackoff THEN 2 * @ ELSE MaxBackoff]
    /\ UNCHANGED <<chainHead, dedup, pending, channel>>

\* A header arrives for a number in the dedup set: dropped.
DuplicateHeader(e, n) ==
    /\ pc[e] = "stream"
    /\ n \in seen
    /\ UNCHANGED vars

\* A header arrives for a new number.  A node may lag, replay after a
\* reconnect, or re-emit a number after a reorganisation, so any number up to
\* the head of the chain can come.  The lock is released with the number in
\* the set and the event not yet sent.
NewHeader(e, n) ==
    /\ pc[e] = "stream"
    /\ Len(accepted) < MaxAccepts
    /\ TryInsertNew(n)
    /\ pc' = [pc EXCEPT ![e] = "forward"]
    /\ pending' = [pending EXCEPT ![e] = n]
    /\ UNCHANGED <<chainHead, backoff, channel>>

\* Mutant of ForwardOk: the event is not sent.
ForwardNothing(e) ==
    /\ pc[e] = "forward"
    /\ rxAlive
    /\ pc' = [pc EXCEPT ![e] = "stream"]
    /\ pending' = [pending EXCEPT ![e] = 0]
    /\ UNCHANGED <<chainHead, dedup, backoff, sent, rxPos, rxAlive>>

\* block_tx.send succeeds while the receiver exists.
ForwardOk(e) ==
    /\ pc[e] = "forward"
    /\ rxAlive
    /\ sent' = Append(sent, pending[e])
    /\ pc' = [pc EXCEPT ![e] = "stream"]
    /\ pending' = [pending EXCEPT ![e] = 0]
    /\ UNCHANGED <<chainHead, dedup, backoff, rxPos, rxAlive>>

\* block_tx.send fails without a receiver: the task returns for good.
ForwardClosed(e) ==
    /\ pc[e] = "forward"
    /\ ~rxAlive
    /\ pc' = [pc EXCEPT ![e] = "exited"]
    /\ pending' = [pending EXCEPT ![e] = 0]
    /\ UNCHANGED <<chainHead, dedup, backoff, channel>>

Endpoint(e) ==
    \/ ConnectOk(e)
    \/ ConnectFail(e)
    \/ SubscribeOk(e)
    \/ StreamEnd(e)
    \/ Wake(e)
    \/ \E n \in 1 .. chainHead : DuplicateHeader(e, n) \/ NewHeader(e, n)
    \/ ForwardOk(e)
    \/ ForwardClosed(e)

\* stream_blocks_gossip returns once every task has: the block stream stops.
Stopped ==
    /\ \A e \in Endpoints : pc[e] = "exited"
    /\ UNCHANGED vars

-----------------------------------------------------------------------------
(* The chain, and the receiving end of the broadcast channel (external). *)

Mine ==
    /\ chainHead < MaxBlock
    /\ chainHead' = chainHead + 1
    /\ UNCHANGED <<dedup, pc, backoff, pending, channel>>

Lag == Len(sent) - rxPos

\* recv returns the next message, which the channel still holds.
Recv ==
    /\ rxAlive
    /\ Lag \in 1 .. BroadcastCap
    /\ rxPos' = rxPos + 1
    /\ UNCHANGED <<chainHead, dedup, pc, backoff, pending, sent, rxAlive>>

\* recv returns Lagged: jump to the oldest message the channel still holds.
RecvLagged ==
    /\ rxAlive
    /\ Lag > BroadcastCap
    /\ rxPos' = Len(sent) - BroadcastCap
    /\ UNCHANGED <<chainHead, dedup, pc, backoff, pending, sent, rxAlive>>

\* The MarketState worker returns or is aborted, which drops the receiver.
DropReceiver ==
    /\ rxAlive
    /\ rxAlive' = FALSE
    /\ UNCHANGED <<chainHead, dedup, pc, backoff, pending, sent, rxPos>>

Next ==
    \/ \E e \in Endpoints : Endpoint(e)
    \/ Mine
    \/ Recv
    \/ RecvLagged
    \/ DropReceiver
    \/ Stopped

\* The runtime schedules every task that can run; connections that are tried
\* again and again succeed in the end; the receiver keeps polling.
Fairness ==
    /\ \A e \in Endpoints :
         /\ WF_vars(Wake(e))
         /\ SF_vars(ConnectOk(e))
         /\ SF_vars(SubscribeOk(e))
         /\ WF_vars(ForwardOk(e) \/ ForwardClosed(e))
    /\ WF_vars(Recv \/ RecvLagged)

Spec == Init /\ [][Next]_vars
FairSpec == Spec /\ Fairness

-----------------------------------------------------------------------------
(* Properties *)

\* The number the dedup set took up d insertions ago sits d slots behind head.
Behind(d) == IF head >= d THEN head - d ELSE head - d + Window

\* BlockDedup.ring is the record of the last Window insertions, newest just
\* behind head, and slots that were never filled hold 0.
RingIsRecent ==
    \A d \in 1 .. Window :
        ring[Behind(d)] = IF d <= Len(accepted)
                            THEN accepted[Len(accepted) + 1 - d]
                            ELSE 0

\* BlockDedup.seen holds exactly the ring's entries, each in one slot only, so
\* the set can neither grow past DEDUP_WINDOW nor lose a number whose slot has
\* not been overwritten (the purpose of the ring in try_insert).
SeenMatchesRing ==
    /\ seen = {ring[s] : s \in Slots} \ {0}
    /\ \A s, t \in Slots : ring[s] = ring[t] /\ ring[s] # 0 => s = t

\* Whatever the endpoints deliver and however their tasks interleave, a block
\* number passes the dedup set again only after more than DEDUP_WINDOW other
\* numbers did ("duplicates from other endpoints are silently dropped").
NoRepeatInWindow ==
    \A i, j \in DOMAIN accepted :
        i < j /\ j - i <= Window => accepted[i] # accepted[j]

\* A number that try_insert took up is not lost between the unlock and the
\* send: it has been broadcast, or a task is about to, or nobody listens.
\* Otherwise the other endpoints would drop the block as a duplicate of a
\* block that the pipeline never got.
SeenIsForwarded ==
    rxAlive =>
        \A n \in seen :
            \/ \E i \in DOMAIN sent : sent[i] = n
            \/ \E e \in Endpoints : pc[e] = "forward" /\ pending[e] = n

\* An endpoint that sleeps or fails comes back: as long as the connection can
\* be made, gossip_endpoint's loop reaches the stream again.
EndpointRecovers ==
    \A e \in Endpoints :
        pc[e] = "sleep" ~> pc[e] = "stream"

\* Every number that passes the dedup set reaches the receiver, or the
\* receiver jumps over it because it lagged, or the receiver is gone.
AcceptedIsConsumed ==
    \A n \in Blocks :
        n \in seen ~> \/ \E i \in 1 .. rxPos : sent[i] = n
                      \/ ~rxAlive

\* The blocks that the broadcast channel still holds for its receiver.
Held ==
    LET kept == IF Lag < BroadcastCap THEN Lag ELSE BroadcastCap
    IN  [i \in 1 .. kept |-> sent[Len(sent) - kept + i]]

Feed == INSTANCE BlockFeed WITH
    Carriers <- Endpoints, Capacity <- BroadcastCap, mined <- chainHead,
    announced <- accepted, holding <- pending, queue <- Held, open <- rxAlive

\* For the pipeline, any number of endpoints with their dedup set and their
\* broadcast channel are one feed: nothing that passed the dedup set is kept
\* back or repeated within the window, and the receiver gets the rest in the
\* order of the sends, but for the blocks it is too late for.
ImplementsFeed == Feed!Spec
=============================================================================
