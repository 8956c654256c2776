------------------------- MODULE BlockGossipProofs -------------------------
(***************************************************************************)
(* For every window, every set of endpoints and every chain: the dedup     *)
(* structure of block_stream.rs stays consistent, a block number does not  *)
(* pass it twice within a window, no header is lost between the dedup set  *)
(* and the broadcast channel, and every step of the block stream is a step *)
(* of BlockFeed.                                                           *)
(***************************************************************************)
EXTENDS BlockGossip, SequenceTheorems, TLAPS

\* A task that is about to send has a header to send.
ForwardHasHeader == \A e \in Endpoints : pc[e] = "forward" => pending[e] \in Blocks

\* The inductive invariant: the type invariant and the three facts about the
\* dedup structure.  NoRepeatInWindow alone is not inductive: that a number
\* outside seen differs from the last Window insertions is what RingIsRecent
\* and SeenMatchesRing say together.
DedupInv ==
    /\ TypeOK
    /\ ForwardHasHeader
    /\ RingIsRecent
    /\ SeenMatchesRing
    /\ NoRepeatInWindow

\* Advancing the head of the ring by one, as try_insert does, is a step to the
\* next slot or back to slot 0.
LEMMA AdvanceHead ==
    ASSUME NEW W \in Nat \ {0}, NEW h \in 0 .. W - 1
    PROVE  (h + 1) % W = IF h + 1 = W THEN 0 ELSE h + 1
  BY SMT

\* The slots d behind the head, for d in 1..Window, are slots of the ring; only
\* the one Window behind is the head itself.
LEMMA BehindIsSlot ==
    ASSUME TypeOK, NEW d \in 1 .. Window
    PROVE  /\ Behind(d) \in Slots
           /\ d # Window => Behind(d) # head
  BY GossipAssumption DEF TypeOK, Slots, Behind

\* Every slot is some distance behind the head.
LEMMA SlotIsBehind ==
    ASSUME TypeOK, NEW s \in Slots
    PROVE  \E d \in 1 .. Window : s = Behind(d)
<1>1. CASE s < head
  <2>1. head - s \in 1 .. Window /\ Behind(head - s) = s
    BY <1>1, GossipAssumption DEF TypeOK, Slots, Behind
  <2> QED BY <2>1
<1>2. CASE s >= head
  <2>1. head - s + Window \in 1 .. Window
    BY <1>2, GossipAssumption DEF TypeOK, Slots
  <2>2. Behind(head - s + Window) = s
    BY <1>2, GossipAssumption DEF TypeOK, Slots, Behind
  <2> QED BY <2>1, <2>2
<1> QED BY <1>1, <1>2, GossipAssumption DEF TypeOK, Slots

LEMMA InitDedup == Init => DedupInv
  <1> SUFFICES ASSUME Init PROVE DedupInv
    OBVIOUS
  <1>1. TypeOK
    BY GossipAssumption DEF Init, TypeOK, Slots, Blocks, Places
  <1>2. RingIsRecent
    <2> SUFFICES ASSUME NEW d \in 1 .. Window
                 PROVE  ring[Behind(d)] = 0 /\ Len(accepted) = 0
      BY GossipAssumption DEF RingIsRecent
    <2> QED BY <1>1, BehindIsSlot DEF Init
  <1>3. SeenMatchesRing /\ NoRepeatInWindow /\ ForwardHasHeader
    BY DEF Init, SeenMatchesRing, NoRepeatInWindow, ForwardHasHeader
  <1> QED BY <1>1, <1>2, <1>3 DEF DedupInv

\* A step that leaves the dedup structure alone preserves what is said of it.
LEMMA DedupUntouched ==
    DedupInv /\ UNCHANGED dedup => (RingIsRecent /\ SeenMatchesRing /\ NoRepeatInWindow)'
  BY DEF DedupInv, dedup, RingIsRecent, SeenMatchesRing, NoRepeatInWindow, Behind

\* try_insert preserves the dedup structure.
LEMMA InsertKeepsDedup ==
    ASSUME DedupInv, NEW n \in Blocks, TryInsertNew(n)
    PROVE  /\ seen' \subseteq Blocks
           /\ ring' \in [Slots -> Blocks \cup {0}]
           /\ head' \in Slots
           /\ accepted' \in Seq(Blocks)
           /\ (RingIsRecent /\ SeenMatchesRing /\ NoRepeatInWindow)'
  <1> USE GossipAssumption
  <1>0. TypeOK /\ RingIsRecent /\ SeenMatchesRing /\ NoRepeatInWindow
    BY DEF DedupInv
  <1>1. head' = IF head + 1 = Window THEN 0 ELSE head + 1
    BY <1>0, AdvanceHead DEF TryInsertNew, TypeOK, Slots
  <1>2. n # 0 /\ n \notin seen
    BY DEF Blocks, TryInsertNew
  <1>3. \A s \in Slots : ring'[s] = IF s = head THEN n ELSE ring[s]
    BY <1>0 DEF TryInsertNew, TypeOK
  <1>4. /\ seen' \subseteq Blocks
        /\ ring' \in [Slots -> Blocks \cup {0}]
        /\ head' \in Slots
        /\ accepted' \in Seq(Blocks)
    BY <1>0, <1>1 DEF TryInsertNew, TypeOK, Slots
  <1>5. /\ Len(accepted') = Len(accepted) + 1
        /\ accepted'[Len(accepted) + 1] = n
        /\ \A i \in 1 .. Len(accepted) : accepted'[i] = accepted[i]
    BY <1>0 DEF TryInsertNew, TypeOK
  <1>6. RingIsRecent'
    <2> SUFFICES ASSUME NEW d \in 1 .. Window
                 PROVE  ring'[Behind(d)'] = IF d <= Len(accepted')
                                              THEN accepted'[Len(accepted') + 1 - d]
                                              ELSE 0
      BY DEF RingIsRecent
    <2>1. CASE d = 1
      <3>1. Behind(d)' = head
        BY <2>1, <1>0, <1>1 DEF Behind, TypeOK, Slots
      <3>2. ring'[head] = n
        BY <1>3, <1>0 DEF TypeOK
      <3> QED BY <2>1, <3>1, <3>2, <1>5, <1>0 DEF TypeOK
    <2>2. CASE d # 1
      <3>1. d - 1 \in 1 .. Window /\ d - 1 # Window
        BY <2>2
      <3>2. Behind(d)' = Behind(d - 1)
        BY <2>2, <1>0, <1>1 DEF Behind, TypeOK, Slots
      <3>3. Behind(d - 1) \in Slots /\ Behind(d - 1) # head
        BY <3>1, <1>0, BehindIsSlot
      <3>4. ring'[Behind(d)'] = ring[Behind(d - 1)]
        BY <3>2, <3>3, <1>3
      <3>5. ring[Behind(d - 1)] = IF d - 1 <= Len(accepted)
                                    THEN accepted[Len(accepted) + 1 - (d - 1)]
                                    ELSE 0
        BY <3>1, <1>0 DEF RingIsRecent
      <3>6. /\ Len(accepted) \in Nat
            /\ Len(accepted') + 1 - d = Len(accepted) + 1 - (d - 1)
            /\ d <= Len(accepted') <=> d - 1 <= Len(accepted)
            /\ d - 1 <= Len(accepted) =>
                 Len(accepted) + 1 - (d - 1) \in 1 .. Len(accepted)
        BY <1>5, <2>2, <1>0 DEF TypeOK
      <3> QED BY <3>4, <3>5, <3>6, <1>5
    <2> QED BY <2>1, <2>2
  <1>7. SeenMatchesRing'
    <2>1. \A s \in Slots : ring[s] # n
      BY <1>0, <1>2 DEF SeenMatchesRing
    <2>2. \A s, t \in Slots : ring'[s] = ring'[t] /\ ring'[s] # 0 => s = t
      BY <2>1, <1>3, <1>0 DEF SeenMatchesRing
    <2>3. ASSUME NEW m PROVE m \in seen' <=> m \in {ring'[s] : s \in Slots} \ {0}
      <3>1. m \in seen' <=> (m \in seen \/ m = n) /\ (ring[head] # 0 => m # ring[head])
        BY DEF TryInsertNew
      <3>2. m \in seen <=> m # 0 /\ \E s \in Slots : ring[s] = m
        BY <1>0 DEF SeenMatchesRing
      <3>3. head \in Slots
        BY <1>0 DEF TypeOK
      <3>4. CASE m = n
        BY <3>1, <3>3, <3>4, <1>2, <1>3, <2>1
      <3>5. CASE m # n
        BY <3>1, <3>2, <3>3, <3>5, <1>3, <1>0 DEF SeenMatchesRing
      <3> QED BY <3>4, <3>5
    <2>4. seen' = {ring'[s] : s \in Slots} \ {0}
      BY <2>3
    <2> QED BY <2>2, <2>4 DEF SeenMatchesRing
  <1>8. NoRepeatInWindow'
    <2>1. ASSUME NEW i \in 1 .. Len(accepted), Len(accepted) + 1 - i <= Window
          PROVE  accepted[i] # n
      <3>1. Len(accepted) + 1 - i \in 1 .. Window
        BY <2>1, <1>0 DEF TypeOK
      <3>2. ring[Behind(Len(accepted) + 1 - i)] = accepted[i]
        BY <3>1, <2>1, <1>0 DEF RingIsRecent, TypeOK
      <3>3. accepted[i] \in Blocks
        BY <1>0 DEF TypeOK
      <3>4. accepted[i] \in seen
        BY <3>1, <3>2, <3>3, <1>0, BehindIsSlot DEF SeenMatchesRing, Blocks
      <3> QED BY <3>4, <1>2
    <2>2. DOMAIN accepted' = 1 .. Len(accepted) + 1 /\ DOMAIN accepted = 1 .. Len(accepted)
      BY <1>0, <1>4, <1>5 DEF TypeOK
    <2> SUFFICES ASSUME NEW i \in 1 .. Len(accepted) + 1, NEW j \in 1 .. Len(accepted) + 1,
                        i < j, j - i <= Window
                 PROVE  accepted'[i] # accepted'[j]
      BY <2>2 DEF NoRepeatInWindow
    <2>3. i \in 1 .. Len(accepted) /\ accepted'[i] = accepted[i]
      BY <1>5, <1>0 DEF TypeOK
    <2>4. CASE j = Len(accepted) + 1
      BY <2>1, <2>3, <2>4, <1>5
    <2>5. CASE j # Len(accepted) + 1
      <3>0. j \in 1 .. Len(accepted)
        <4>1. Len(accepted) \in Nat
          BY <1>0 DEF TypeOK
        <4> QED BY <4>1, <2>5
      <3>1. j \in 1 .. Len(accepted) /\ accepted'[j] = accepted[j]
        BY <3>0, <1>5
      <3>2. i \in DOMAIN accepted /\ j \in DOMAIN accepted
        BY <3>1, <2>2, <2>3
      <3>3. accepted[i] # accepted[j]
        BY <3>2, <1>0, i < j, j - i <= Window DEF NoRepeatInWindow
      <3>4. accepted'[i] = accepted[i] /\ accepted'[j] = accepted[j]
        BY <3>1, <2>3
      <3> QED BY <3>3, <3>4
    <2> QED BY <2>4, <2>5
  <1> QED BY <1>4, <1>6, <1>7, <1>8

\* Every step of the block stream preserves the inductive invariant.
LEMMA StepKeepsDedup == DedupInv /\ [Next]_vars => DedupInv'
  <1> SUFFICES ASSUME DedupInv, [Next]_vars PROVE DedupInv'
    OBVIOUS
  <1> USE GossipAssumption
  <1>0. TypeOK /\ ForwardHasHeader
    BY DEF DedupInv
  <1>1. ASSUME NEW e \in Endpoints, NEW n \in 1 .. chainHead, NewHeader(e, n)
        PROVE  DedupInv'
    <2>1. n \in Blocks
      BY <1>0, <1>1 DEF TypeOK, ForwardHasHeader, Blocks
    <2>2. TryInsertNew(n)
      BY <1>1 DEF NewHeader
    <2>3. (TypeOK /\ ForwardHasHeader)'
      BY <2>1, <2>2, InsertKeepsDedup, <1>0, <1>1 DEF NewHeader, ForwardHasHeader, TypeOK, Places, channel
    <2> QED BY <2>1, <2>2, <2>3, InsertKeepsDedup DEF DedupInv
  <1>2. ASSUME UNCHANGED dedup, (TypeOK /\ ForwardHasHeader)'
        PROVE  DedupInv'
    BY <1>2, DedupUntouched DEF DedupInv
  <1>3. ASSUME NEW e \in Endpoints, ConnectOk(e)
        PROVE  DedupInv'
    <2>1. TypeOK'
      BY <1>0, <1>3 DEF TypeOK, ConnectOk, Places, dedup, channel
    <2>2. ForwardHasHeader' /\ UNCHANGED dedup
      BY <1>0, <1>3 DEF TypeOK, ForwardHasHeader, ConnectOk, dedup, channel
    <2> QED BY <2>1, <2>2, <1>2
  <1>4. ASSUME NEW e \in Endpoints, ConnectFail(e)
        PROVE  DedupInv'
    <2>1. TypeOK'
      BY <1>0, <1>4 DEF TypeOK, ConnectFail, Places, dedup, channel
    <2>2. ForwardHasHeader' /\ UNCHANGED dedup
      BY <1>0, <1>4 DEF TypeOK, ForwardHasHeader, ConnectFail, dedup, channel
    <2> QED BY <2>1, <2>2, <1>2
  <1>5. ASSUME NEW e \in Endpoints, SubscribeOk(e)
        PROVE  DedupInv'
    <2>1. TypeOK'
      BY <1>0, <1>5 DEF TypeOK, SubscribeOk, Places, dedup, channel
    <2>2. ForwardHasHeader' /\ UNCHANGED dedup
      BY <1>0, <1>5 DEF TypeOK, ForwardHasHeader, SubscribeOk, dedup, channel
    <2> QED BY <2>1, <2>2, <1>2
  <1>6. ASSUME NEW e \in Endpoints, StreamEnd(e)
        PROVE  DedupInv'
    <2>1. TypeOK'
      BY <1>0, <1>6 DEF TypeOK, StreamEnd, Places, dedup, channel
    <2>2. ForwardHasHeader' /\ UNCHANGED dedup
      BY <1>0, <1>6 DEF TypeOK, ForwardHasHeader, StreamEnd, dedup, channel
    <2> QED BY <2>1, <2>2, <1>2
  <1>7. ASSUME NEW e \in Endpoints, Wake(e)
        PROVE  DedupInv'
    <2>1. TypeOK'
      BY <1>0, <1>7 DEF TypeOK, Wake, Places, dedup, channel
    <2>2. ForwardHasHeader' /\ UNCHANGED dedup
      BY <1>0, <1>7 DEF TypeOK, ForwardHasHeader, Wake, dedup, channel
    <2> QED BY <2>1, <2>2, <1>2
  <1>8. ASSUME NEW e \in Endpoints, ForwardOk(e)
        PROVE  DedupInv'
    <2>1. TypeOK'
      BY <1>0, <1>8 DEF TypeOK, ForwardOk, ForwardHasHeader, Places, dedup, channel
    <2>2. ForwardHasHeader' /\ UNCHANGED dedup
      BY <1>0, <1>8 DEF TypeOK, ForwardHasHeader, ForwardOk, dedup, channel
    <2> QED BY <2>1, <2>2, <1>2
  <1>9. ASSUME NEW e \in Endpoints, ForwardClosed(e)
        PROVE  DedupInv'
    <2>1. TypeOK'
      BY <1>0, <1>9 DEF TypeOK, ForwardClosed, Places, dedup, channel
    <2>2. ForwardHasHeader' /\ UNCHANGED dedup
      BY <1>0, <1>9 DEF TypeOK, ForwardHasHeader, ForwardClosed, dedup, channel
    <2> QED BY <2>1, <2>2, <1>2
  <1>10. ASSUME Mine
        PROVE  DedupInv'
    <2>1. TypeOK'
      BY <1>0, <1>10 DEF TypeOK, Mine, dedup, channel
    <2>2. ForwardHasHeader' /\ UNCHANGED dedup
      BY <1>0, <1>10 DEF TypeOK, ForwardHasHeader, Mine, dedup, channel
    <2> QED BY <2>1, <2>2, <1>2
  <1>11. ASSUME Recv
        PROVE  DedupInv'
    <2>1. TypeOK'
      BY <1>0, <1>11 DEF TypeOK, Recv, Lag, dedup, channel
    <2>2. ForwardHasHeader' /\ UNCHANGED dedup
      BY <1>0, <1>11 DEF TypeOK, ForwardHasHeader, Recv, dedup, channel
    <2> QED BY <2>1, <2>2, <1>2
  <1>12. ASSUME RecvLagged
        PROVE  DedupInv'
    <2>1. TypeOK'
      BY <1>0, <1>12 DEF TypeOK, RecvLagged, Lag, dedup, channel
    <2>2. ForwardHasHeader' /\ UNCHANGED dedup
      BY <1>0, <1>12 DEF TypeOK, ForwardHasHeader, RecvLagged, dedup, channel
    <2> QED BY <2>1, <2>2, <1>2
  <1>13. ASSUME DropReceiver
        PROVE  DedupInv'
    <2>1. TypeOK'
      BY <1>0, <1>13 DEF TypeOK, DropReceiver, dedup, channel
    <2>2. ForwardHasHeader' /\ UNCHANGED dedup
      BY <1>0, <1>13 DEF TypeOK, ForwardHasHeader, DropReceiver, dedup, channel
    <2> QED BY <2>1, <2>2, <1>2
  <1>14. ASSUME UNCHANGED vars
        PROVE  DedupInv'
    <2>1. (TypeOK /\ ForwardHasHeader)' /\ UNCHANGED dedup
      BY <1>0, <1>14 DEF TypeOK, ForwardHasHeader, vars, dedup, channel
    <2> QED BY <2>1, <1>2
  <1> QED
    BY <1>1, <1>3, <1>4, <1>5, <1>6, <1>7, <1>8, <1>9, <1>10, <1>11, <1>12, <1>13, <1>14
    DEF Next, Endpoint, DuplicateHeader, Stopped

\* The inductive invariant holds in every reachable state of the block stream.
LEMMA DedupInvariant == Spec => []DedupInv
  <1>1. Init => DedupInv
    BY InitDedup
  <1>2. DedupInv /\ [Next]_vars => DedupInv'
    BY StepKeepsDedup
  <1> QED BY <1>1, <1>2, PTL DEF Spec

\* Type correctness of the block stream, for every instance.
THEOREM GossipTypeCorrect == Spec => []TypeOK
  <1>1. DedupInv => TypeOK
    BY DEF DedupInv
  <1> QED BY <1>1, DedupInvariant, PTL

\* For every DEDUP_WINDOW, however many endpoints deliver, replay or reorder
\* headers, BlockDedup's set is exactly the contents of its ring: it neither
\* leaks entries nor forgets one whose slot is still in use.
THEOREM DedupConsistent == Spec => []SeenMatchesRing
  <1>1. DedupInv => SeenMatchesRing
    BY DEF DedupInv
  <1> QED BY <1>1, DedupInvariant, PTL

\* For every DEDUP_WINDOW, the ring is the record of the last DEDUP_WINDOW
\* insertions in their order, so that try_insert always evicts the oldest.
THEOREM RingIsHistory == Spec => []RingIsRecent
  <1>1. DedupInv => RingIsRecent
    BY DEF DedupInv
  <1> QED BY <1>1, DedupInvariant, PTL

\* For every DEDUP_WINDOW, a block number that passed try_insert does not pass
\* it again within the next DEDUP_WINDOW insertions.
THEOREM DedupNoRepeat == Spec => []NoRepeatInWindow
  <1>1. DedupInv => NoRepeatInWindow
    BY DEF DedupInv
  <1> QED BY <1>1, DedupInvariant, PTL


-----------------------------------------------------------------------------
(* The feed *)

\* A task holds a header only while it is about to send it.
HoldsWhileForwarding == \A e \in Endpoints : pc[e] # "forward" => pending[e] = 0

\* The inductive invariant of the refinement.  SeenIsForwarded rests on the
\* dedup structure, and the receiver is never ahead of what was sent.
FeedInv ==
    /\ DedupInv
    /\ HoldsWhileForwarding
    /\ rxPos <= Len(sent)
    /\ SeenIsForwarded

\* The last k entries of a sequence.
Newest(k, s) == [i \in 1 .. k |-> s[Len(s) - k + i]]

LEMMA NewestIsSeq ==
    ASSUME NEW S, NEW s \in Seq(S), NEW k \in 0 .. Len(s)
    PROVE  /\ Newest(k, s) \in Seq(S)
           /\ Len(Newest(k, s)) = k
           /\ \A i \in 1 .. k : Newest(k, s)[i] = s[Len(s) - k + i]
<1>1. \A i \in 1 .. k : s[Len(s) - k + i] \in S
  OBVIOUS
<1> QED BY <1>1 DEF Newest

\* A longer suffix of a longer sequence.
LEMMA NewestGrows ==
    ASSUME NEW S, NEW s \in Seq(S), NEW k \in 0 .. Len(s), NEW n \in S
    PROVE  Newest(k + 1, Append(s, n)) = Append(Newest(k, s), n)
<1> DEFINE t == Append(s, n)
           new == Newest(k + 1, t)
           old == Newest(k, s)
<1>1. t \in Seq(S) /\ Len(t) = Len(s) + 1 /\ k + 1 \in 0 .. Len(t)
  OBVIOUS
<1>2. new \in Seq(S) /\ Len(new) = k + 1 /\ \A i \in 1 .. k + 1 : new[i] = t[Len(s) - k + i]
  <2>1. /\ new \in Seq(S) /\ Len(new) = k + 1
        /\ \A i \in 1 .. k + 1 : new[i] = t[Len(t) - (k + 1) + i]
    BY <1>1, NewestIsSeq
  <2>2. \A i \in 1 .. k + 1 : Len(t) - (k + 1) + i = Len(s) - k + i
    BY <1>1
  <2> HIDE DEF t, new
  <2> QED BY <2>1, <2>2
<1>3. old \in Seq(S) /\ Len(old) = k /\ \A i \in 1 .. k : old[i] = s[Len(s) - k + i]
  BY NewestIsSeq
<1>4. Append(old, n) \in Seq(S) /\ Len(Append(old, n)) = k + 1
  BY <1>3
<1> HIDE DEF new, old
<1>5. \A i \in 1 .. k + 1 : new[i] = Append(old, n)[i]
  <2> SUFFICES ASSUME NEW i \in 1 .. k + 1 PROVE new[i] = Append(old, n)[i]
    OBVIOUS
  <2>1. CASE i = k + 1
    BY <1>2, <1>3, <2>1
  <2>2. CASE i \in 1 .. k
    <3>1. Append(old, n)[i] = s[Len(s) - k + i]
      BY <1>3, <2>2
    <3>2. Len(s) - k + i \in 1 .. Len(s)
      BY <2>2
    <3>3. t[Len(s) - k + i] = s[Len(s) - k + i]
      BY <3>2
    <3> QED BY <1>2, <3>1, <3>3
  <2>3. i = k + 1 \/ i \in 1 .. k
    OBVIOUS
  <2> HIDE DEF t
  <2> QED BY <2>1, <2>2, <2>3
<1>6. new = Append(old, n)
  BY <1>2, <1>4, <1>5, SeqEqual
<1> QED BY <1>6 DEF new, old

\* The suffix that is shorter by one is the tail.
LEMMA NewestShrinks ==
    ASSUME NEW S, NEW s \in Seq(S), NEW k \in 1 .. Len(s)
    PROVE  Newest(k - 1, s) = Tail(Newest(k, s))
<1> DEFINE small == Newest(k - 1, s)
           big == Newest(k, s)
<1>1. /\ small \in Seq(S) /\ Len(small) = k - 1
      /\ \A i \in 1 .. k - 1 : small[i] = s[Len(s) - (k - 1) + i]
  <2>1. k - 1 \in 0 .. Len(s)
    OBVIOUS
  <2> QED BY <2>1, NewestIsSeq
<1>2. /\ big \in Seq(S) /\ Len(big) = k
      /\ \A i \in 1 .. k : big[i] = s[Len(s) - k + i]
  BY NewestIsSeq
<1> HIDE DEF small, big
<1>3. /\ Tail(big) \in Seq(S) /\ Len(Tail(big)) = k - 1
      /\ \A i \in 1 .. k - 1 : Tail(big)[i] = big[i + 1]
  BY <1>2
<1>4. \A i \in 1 .. k - 1 : small[i] = Tail(big)[i]
  BY <1>1, <1>2, <1>3
<1>5. small = Tail(big)
  BY <1>1, <1>3, <1>4, SeqEqual
<1> QED BY <1>5 DEF small, big

\* How many blocks the channel holds for its receiver.
Kept == IF Lag < BroadcastCap THEN Lag ELSE BroadcastCap

LEMMA HeldIsNewest ==
    ASSUME TypeOK, rxPos <= Len(sent)
    PROVE  /\ Kept \in 0 .. Len(sent)
           /\ Held = Newest(Kept, sent)
           /\ Held \in Seq(Blocks) /\ Len(Held) = Kept
<1>1. Kept \in 0 .. Len(sent)
  BY GossipAssumption DEF TypeOK, Kept, Lag
<1>2. Held = Newest(Kept, sent)
  BY DEF Held, Kept, Newest
<1> QED BY <1>1, <1>2, NewestIsSeq DEF TypeOK

\* block_tx.send: the channel takes the new block, and drops its oldest one
\* if it was full.
LEMMA HeldAfterSend ==
    ASSUME TypeOK, rxPos <= Len(sent), NEW n \in Blocks,
           sent' = Append(sent, n), rxPos' = rxPos
    PROVE  Held' = Append(IF Len(Held) < BroadcastCap THEN Held ELSE Tail(Held), n)
<1> USE GossipAssumption
<1>1. sent \in Seq(Blocks) /\ rxPos \in Nat /\ Len(sent') = Len(sent) + 1
  BY DEF TypeOK
<1>2. Kept \in 0 .. Len(sent) /\ Held = Newest(Kept, sent) /\ Len(Held) = Kept
  BY HeldIsNewest
<1>3. Held' = Newest(Kept', sent')
  BY DEF Held, Kept, Newest
<1>4. Kept' = IF Kept < BroadcastCap THEN Kept + 1 ELSE Kept
  BY <1>1 DEF Kept, Lag
<1>5. CASE Kept < BroadcastCap
  <2>1. Newest(Kept + 1, Append(sent, n)) = Append(Newest(Kept, sent), n)
    BY <1>1, <1>2, NewestGrows
  <2> QED BY <1>2, <1>3, <1>4, <1>5, <2>1
<1>6. CASE ~(Kept < BroadcastCap)
  <2>1. Kept \in 1 .. Len(sent) /\ Kept' = Kept
    BY <1>2, <1>4, <1>6
  <2>2. Newest(Kept - 1, sent) = Tail(Held)
    BY <1>1, <1>2, <2>1, NewestShrinks
  <2>3. Kept - 1 \in 0 .. Len(sent) /\ Kept - 1 + 1 = Kept
    BY <2>1
  <2>4. Newest(Kept - 1 + 1, Append(sent, n)) = Append(Newest(Kept - 1, sent), n)
    BY <1>1, <2>3, NewestGrows
  <2> QED BY <1>2, <1>3, <1>6, <2>1, <2>2, <2>3, <2>4
<1> QED BY <1>5, <1>6

\* recv, in time: the channel's oldest block.
LEMMA HeldAfterRecv ==
    ASSUME TypeOK, rxPos <= Len(sent), Recv
    PROVE  Held # << >> /\ Held' = Tail(Held)
<1> USE GossipAssumption
<1>1. Kept \in 0 .. Len(sent) /\ Held = Newest(Kept, sent) /\ Len(Held) = Kept
  BY HeldIsNewest
<1>2. Kept \in 1 .. Len(sent) /\ Kept' = Kept - 1 /\ sent' = sent
  BY <1>1 DEF TypeOK, Recv, Kept, Lag
<1>3. Held' = Newest(Kept', sent')
  BY DEF Held, Kept, Newest
<1>4. Newest(Kept - 1, sent) = Tail(Held)
  BY <1>1, <1>2, NewestShrinks DEF TypeOK
<1> QED BY <1>1, <1>2, <1>3, <1>4

\* recv, too late: what the channel still holds stays.
LEMMA HeldAfterLag ==
    ASSUME TypeOK, rxPos <= Len(sent), RecvLagged
    PROVE  Held' = Held
<1>1. Kept' = Kept /\ sent' = sent
  BY GossipAssumption DEF TypeOK, RecvLagged, Kept, Lag
<1> QED BY <1>1 DEF Held, Kept

-----------------------------------------------------------------------------
(* The invariant *)

\* The part of FeedInv that DedupInv does not cover.
ChannelInv ==
    /\ HoldsWhileForwarding
    /\ rxPos <= Len(sent)
    /\ SeenIsForwarded

LEMMA InitFeed == Init => FeedInv
  <1> SUFFICES ASSUME Init PROVE FeedInv
    OBVIOUS
  <1>1. DedupInv
    BY InitDedup
  <1>2. HoldsWhileForwarding /\ rxPos <= Len(sent) /\ SeenIsForwarded
    BY DEF Init, HoldsWhileForwarding, SeenIsForwarded
  <1> QED BY <1>1, <1>2 DEF FeedInv

\* A new header is at hand when the lock is released.
LEMMA NewHeaderKeeps ==
    ASSUME FeedInv, NEW e \in Endpoints, NEW n \in 1 .. chainHead, NewHeader(e, n)
    PROVE  ChannelInv'
<1>1. TypeOK /\ HoldsWhileForwarding /\ rxPos <= Len(sent) /\ SeenIsForwarded
  BY DEF FeedInv, DedupInv
<1>2. pc'[e] = "forward" /\ pending'[e] = n
  BY <1>1 DEF NewHeader, TypeOK
<1>3. \A f \in Endpoints \ {e} : pc'[f] = pc[f] /\ pending'[f] = pending[f]
  BY <1>1 DEF NewHeader, TypeOK
<1>4. pc[e] = "stream" /\ UNCHANGED <<sent, rxPos, rxAlive>>
  BY DEF NewHeader, channel
<1>5. HoldsWhileForwarding'
  BY <1>1, <1>2, <1>3 DEF HoldsWhileForwarding
<1>6. SeenIsForwarded'
  <2> SUFFICES ASSUME rxAlive', NEW m \in seen'
               PROVE  \/ \E i \in DOMAIN sent' : sent'[i] = m
                      \/ \E f \in Endpoints : pc'[f] = "forward" /\ pending'[f] = m
    BY DEF SeenIsForwarded
  <2>1. CASE m = n
    BY <1>2, <2>1
  <2>2. CASE m # n
    <3>1. m \in seen
      BY <2>2 DEF NewHeader, TryInsertNew
    <3> QED BY <1>1, <1>3, <1>4, <3>1 DEF SeenIsForwarded
  <2> QED BY <2>1, <2>2
<1> QED BY <1>1, <1>4, <1>5, <1>6 DEF ChannelInv

\* A header leaves a task's hand only for the channel.
LEMMA ForwardKeeps ==
    ASSUME FeedInv, NEW e \in Endpoints, ForwardOk(e)
    PROVE  ChannelInv'
<1>1. TypeOK /\ HoldsWhileForwarding /\ rxPos <= Len(sent) /\ SeenIsForwarded /\ ForwardHasHeader
  BY DEF FeedInv, DedupInv
<1>2. /\ pending[e] \in Blocks /\ sent' = Append(sent, pending[e])
      /\ UNCHANGED <<seen, rxPos, rxAlive>>
  BY <1>1 DEF ForwardOk, ForwardHasHeader, dedup
<1>3. sent \in Seq(Blocks) /\ rxPos \in Nat
  BY <1>1 DEF TypeOK
<1>4. \A f \in Endpoints \ {e} : pc'[f] = pc[f] /\ pending'[f] = pending[f]
  BY <1>1 DEF ForwardOk, TypeOK
<1>5. HoldsWhileForwarding'
  BY <1>1, <1>4 DEF HoldsWhileForwarding, ForwardOk, TypeOK
<1>6. /\ Len(sent') = Len(sent) + 1 /\ sent'[Len(sent) + 1] = pending[e]
      /\ \A i \in DOMAIN sent : i \in DOMAIN sent' /\ sent'[i] = sent[i]
      /\ Len(sent) + 1 \in DOMAIN sent'
  BY <1>2, <1>3
<1>7. SeenIsForwarded'
  <2> SUFFICES ASSUME rxAlive', NEW m \in seen'
               PROVE  \/ \E i \in DOMAIN sent' : sent'[i] = m
                      \/ \E f \in Endpoints : pc'[f] = "forward" /\ pending'[f] = m
    BY DEF SeenIsForwarded
  <2>1. \/ \E i \in DOMAIN sent : sent[i] = m
        \/ \E f \in Endpoints : pc[f] = "forward" /\ pending[f] = m
    BY <1>1, <1>2 DEF SeenIsForwarded
  <2>2. CASE \E i \in DOMAIN sent : sent[i] = m
    BY <2>2, <1>6
  <2>3. CASE \E f \in Endpoints : pc[f] = "forward" /\ pending[f] = m
    <3>1. PICK f \in Endpoints : pc[f] = "forward" /\ pending[f] = m
      BY <2>3
    <3>2. CASE f = e
      BY <3>1, <3>2, <1>6
    <3>3. CASE f # e
      BY <3>1, <3>3, <1>4
    <3> QED BY <3>2, <3>3
  <2> QED BY <2>1, <2>2, <2>3
<1>8. rxPos' <= Len(sent')
  BY <1>1, <1>2, <1>3, <1>6
<1> QED BY <1>5, <1>7, <1>8 DEF ChannelInv

\* A task moves without a header, and the others stay where they are.
LEMMA MoveKeeps ==
    ASSUME FeedInv, NEW e \in Endpoints, NEW place \in Places,
           pc[e] # "forward", place # "forward", pc' = [pc EXCEPT ![e] = place],
           UNCHANGED <<seen, pending, sent, rxPos, rxAlive>>
    PROVE  ChannelInv'
  BY DEF FeedInv, DedupInv, TypeOK, ChannelInv, HoldsWhileForwarding, SeenIsForwarded

LEMMA StepKeepsFeed == FeedInv /\ [Next]_vars => FeedInv'
  <1> SUFFICES ASSUME FeedInv, [Next]_vars PROVE FeedInv'
    OBVIOUS
  <1>0. DedupInv' /\ TypeOK /\ HoldsWhileForwarding /\ rxPos <= Len(sent) /\ SeenIsForwarded
    BY StepKeepsDedup DEF FeedInv, DedupInv
  <1> SUFFICES ChannelInv'
    BY <1>0 DEF FeedInv, ChannelInv
  <1>1. ASSUME NEW e \in Endpoints, NEW n \in 1 .. chainHead, NewHeader(e, n)
        PROVE  ChannelInv'
    BY <1>1, NewHeaderKeeps
  <1>2. ASSUME NEW e \in Endpoints, ForwardOk(e)
        PROVE  ChannelInv'
    BY <1>2, ForwardKeeps
  <1>3. ASSUME NEW e \in Endpoints, ConnectOk(e) \/ ConnectFail(e) \/ SubscribeOk(e)
                                      \/ StreamEnd(e) \/ Wake(e)
        PROVE  ChannelInv'
    <2>1. PICK place \in Places \ {"forward"} : pc' = [pc EXCEPT ![e] = place]
      BY <1>3 DEF ConnectOk, ConnectFail, SubscribeOk, StreamEnd, Wake, Places
    <2>2. pc[e] # "forward" /\ UNCHANGED <<seen, pending, sent, rxPos, rxAlive>>
      BY <1>3 DEF ConnectOk, ConnectFail, SubscribeOk, StreamEnd, Wake, dedup, channel
    <2> QED BY <2>1, <2>2, MoveKeeps
  <1>4. ASSUME NEW e \in Endpoints, ForwardClosed(e)
        PROVE  ChannelInv'
    BY <1>0, <1>4 DEF ForwardClosed, ChannelInv, HoldsWhileForwarding, SeenIsForwarded,
                      TypeOK, dedup, channel
  <1>5. CASE Recv
    BY <1>0, <1>5 DEF Recv, Lag, ChannelInv, HoldsWhileForwarding, SeenIsForwarded, TypeOK, dedup
  <1>6. CASE RecvLagged
    BY <1>0, <1>6, GossipAssumption
       DEF RecvLagged, Lag, ChannelInv, HoldsWhileForwarding, SeenIsForwarded, TypeOK, dedup
  <1>7. CASE DropReceiver
    BY <1>0, <1>7 DEF DropReceiver, ChannelInv, HoldsWhileForwarding, SeenIsForwarded, dedup
  <1>8. CASE Mine
    BY <1>0, <1>8 DEF Mine, ChannelInv, HoldsWhileForwarding, SeenIsForwarded, dedup, channel
  <1>9. CASE UNCHANGED vars
    BY <1>0, <1>9 DEF vars, ChannelInv, HoldsWhileForwarding, SeenIsForwarded, dedup, channel
  <1> QED
    BY <1>1, <1>2, <1>3, <1>4, <1>5, <1>6, <1>7, <1>8, <1>9
    DEF Next, Endpoint, DuplicateHeader, Stopped

LEMMA FeedInvariant == Spec => []FeedInv
  <1> QED BY InitFeed, StepKeepsFeed, PTL DEF Spec

\* For any number of endpoints and any capacity, a number that try_insert took
\* up is not lost between the unlock and the send.
THEOREM HeadersAreForwarded == Spec => []SeenIsForwarded
  <1>1. FeedInv => SeenIsForwarded
    BY DEF FeedInv
  <1> QED BY <1>1, FeedInvariant, PTL

-----------------------------------------------------------------------------
(* The refinement *)

LEMMA FeedStart == Init => Feed!Init
  <1> SUFFICES ASSUME Init PROVE Feed!Init
    OBVIOUS
  <1>1. Held = << >>
    <2>1. Lag = 0
      BY DEF Init, Lag
    <2> QED BY <2>1, GossipAssumption DEF Held
  <1> QED BY <1>1 DEF Init, Feed!Init

\* What the dedup set does not hold was not taken up recently.
LEMMA UnseenIsNotRecent ==
    ASSUME FeedInv, NEW n \in Blocks, n \notin seen
    PROVE  ~Feed!Recent(n)
<1>0. TypeOK /\ RingIsRecent /\ SeenMatchesRing
  BY DEF FeedInv, DedupInv
<1> SUFFICES ASSUME NEW i \in DOMAIN accepted, accepted[i] = n, i + Window > Len(accepted)
             PROVE  FALSE
  BY DEF Feed!Recent
<1> DEFINE d == Len(accepted) + 1 - i
<1>1. d \in 1 .. Window /\ d <= Len(accepted) /\ Len(accepted) + 1 - d = i
  BY <1>0, GossipAssumption DEF TypeOK
<1>2. ring[Behind(d)] = n /\ Behind(d) \in Slots
  BY <1>0, <1>1, BehindIsSlot DEF RingIsRecent
<1>3. n # 0
  BY DEF Blocks
<1> QED BY <1>0, <1>2, <1>3 DEF SeenMatchesRing

LEMMA StepRefines == FeedInv /\ [Next]_vars => [Feed!Next]_(Feed!feedVars)
  <1> SUFFICES ASSUME FeedInv, [Next]_vars PROVE [Feed!Next]_(Feed!feedVars)
    OBVIOUS
  <1>0. TypeOK /\ HoldsWhileForwarding /\ ForwardHasHeader /\ rxPos <= Len(sent)
    BY DEF FeedInv, DedupInv
  <1>1. ASSUME NEW e \in Endpoints, NEW n \in 1 .. chainHead, NewHeader(e, n)
        PROVE  Feed!Announce(e, n)
    <2>1. n \in Blocks
      BY <1>0, GossipAssumption DEF TypeOK, Blocks
    <2>2. ~Feed!Recent(n)
      BY <1>1, <2>1, UnseenIsNotRecent DEF NewHeader, TryInsertNew
    <2>3. pending[e] = 0
      BY <1>0, <1>1 DEF NewHeader, HoldsWhileForwarding
    <2>4. Held' = Held
      BY <1>1 DEF NewHeader, channel, Held, Lag
    <2> QED BY <1>1, <2>2, <2>3, <2>4 DEF NewHeader, TryInsertNew, channel, Feed!Announce
  <1>2. ASSUME NEW e \in Endpoints, ForwardOk(e)
        PROVE  Feed!Publish(e)
    <2>1. pending[e] \in Blocks /\ pending[e] # 0
      BY <1>0, <1>2 DEF ForwardOk, ForwardHasHeader, Blocks
    <2>2. Held' = Append(IF Len(Held) < BroadcastCap THEN Held ELSE Tail(Held), pending[e])
      BY <1>0, <1>2, <2>1, HeldAfterSend DEF ForwardOk
    <2> QED BY <1>2, <2>1, <2>2 DEF ForwardOk, dedup, Feed!Publish
  <1>3. ASSUME NEW e \in Endpoints, ForwardClosed(e)
        PROVE  Feed!Discard(e)
    <2>1. pending[e] # 0
      BY <1>0, <1>3 DEF ForwardClosed, ForwardHasHeader, Blocks
    <2>2. Held' = Held
      BY <1>3 DEF ForwardClosed, channel, Held, Lag
    <2> QED BY <1>3, <2>1, <2>2 DEF ForwardClosed, dedup, channel, Feed!Discard
  <1>4. CASE Recv
    <2>1. Held # << >> /\ Held' = Tail(Held)
      BY <1>0, <1>4, HeldAfterRecv
    <2>2. Feed!Deliver
      BY <1>4, <2>1 DEF Recv, dedup, Feed!Deliver
    <2> QED BY <2>2 DEF Feed!Next
  <1>5. CASE RecvLagged
    <2>1. Held' = Held
      BY <1>0, <1>5, HeldAfterLag
    <2> QED BY <1>5, <2>1 DEF RecvLagged, dedup, Feed!feedVars
  <1>6. CASE DropReceiver
    <2>1. Held' = Held
      BY <1>6 DEF DropReceiver, Held, Lag
    <2>2. Feed!Close
      BY <1>6, <2>1 DEF DropReceiver, dedup, Feed!Close
    <2> QED BY <2>2 DEF Feed!Next
  <1>7. CASE Mine
    <2>1. Held' = Held
      BY <1>7 DEF Mine, channel, Held, Lag
    <2>2. Feed!Mine
      BY <1>7, <2>1 DEF Mine, dedup, channel, Feed!Mine
    <2> QED BY <2>2 DEF Feed!Next
  <1>8. ASSUME UNCHANGED <<chainHead, dedup, pending, channel>>
        PROVE  UNCHANGED Feed!feedVars
    <2>1. Held' = Held
      BY <1>8 DEF channel, Held, Lag
    <2> QED BY <1>8, <2>1 DEF dedup, channel, Feed!feedVars
  <1>9. ASSUME NEW e \in Endpoints, ConnectOk(e) \/ ConnectFail(e) \/ SubscribeOk(e)
                                      \/ StreamEnd(e) \/ Wake(e)
        PROVE  UNCHANGED Feed!feedVars
    <2>1. UNCHANGED <<chainHead, dedup, pending, channel>>
      BY <1>9 DEF ConnectOk, ConnectFail, SubscribeOk, StreamEnd, Wake
    <2> QED BY <2>1, <1>8
  <1>10. CASE UNCHANGED vars
    BY <1>8, <1>10 DEF vars
  <1>11. ASSUME NEW e \in Endpoints, NEW n \in 1 .. chainHead, NewHeader(e, n)
         PROVE  Feed!Next
    BY <1>1, <1>11 DEF Feed!Next
  <1>12. ASSUME NEW e \in Endpoints, ForwardOk(e) \/ ForwardClosed(e)
         PROVE  Feed!Next
    BY <1>2, <1>3, <1>12 DEF Feed!Next
  <1> QED
    BY <1>4, <1>5, <1>6, <1>7, <1>9, <1>10, <1>11, <1>12
    DEF Next, Endpoint, DuplicateHeader, Stopped

\* The safety part of ImplementsFeed, for any number of endpoints, any window
\* and any capacity: the block stream starts as a feed does, and each of its
\* steps is one of the feed, or is not to be seen there.
THEOREM GossipImplementsFeed == Spec => Feed!Init /\ [][Feed!Next]_(Feed!feedVars)
  <1> QED BY FeedStart, FeedInvariant, StepRefines, PTL DEF Spec
=============================================================================
