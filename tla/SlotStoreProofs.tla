-------------------------- MODULE SlotStoreProofs --------------------------
(***************************************************************************)
(* Proofs about SlotStore for every set of pools, slots and workers, every *)
(* length of the chain and every failure of a request: what MarketState    *)
(* applied is never undone, and a simulation sees its block.               *)
(***************************************************************************)
EXTENDS SlotStore, WellFoundedInduction, TLAPS

NatLess == {ss \in Nat \X Nat : ss[1] < ss[2]}

LEMMA NatLessWellFounded == IsWellFoundedOn(NatLess, Nat)
  BY NatLessThanWellFounded DEF NatLess, OpToRel

\* A bounded set of naturals has the maximum that Max picks.
LEMMA MaxFacts ==
    ASSUME NEW S \in SUBSET Nat, S # {}, NEW n \in Nat, \A x \in S : x <= n
    PROVE  Max(S) \in S /\ \A x \in S : x <= Max(S)
  <1> DEFINE T == {n - x : x \in S}
  <1>1. T \subseteq Nat /\ T # {}
    <2>1. \A x \in S : n - x \in Nat
      OBVIOUS
    <2>2. PICK x \in S : TRUE
      OBVIOUS
    <2>3. n - x \in T
      OBVIOUS
    <2> QED
      BY <2>1, <2>3
  <1> HIDE DEF T
  <1>2. PICK d \in T : \A e \in T : <<e, d>> \notin NatLess
    BY <1>1, NatLessWellFounded, WFMin
  <1>3. ASSUME NEW e \in T PROVE d <= e
    <2>1. d \in Nat /\ e \in Nat
      BY <1>1
    <2>2. e < d => <<e, d>> \in NatLess
      BY <2>1 DEF NatLess
    <2> QED
      BY <1>2, <2>1, <2>2
  <1>4. PICK m \in S : d = n - m
    BY DEF T
  <1>5. \A x \in S : m >= x
    BY <1>3, <1>4 DEF T
  <1> QED
    BY <1>4, <1>5 DEF Max

ChainTypes ==
    /\ chain \in Seq([wrote : SUBSET Slots, logs : SUBSET Pools])
    /\ rpcHead \in 1 .. Len(chain)

\* The value of a slot is that of one of the chain's blocks, and a later block
\* never holds an older one.
LEMMA AtFacts ==
    ASSUME ChainTypes, NEW s \in Slots, NEW n \in 1 .. Len(chain)
    PROVE  /\ At(s, n) \in 1 .. n
           /\ \A m \in 1 .. n : At(s, m) <= At(s, n)
  <1>0. Len(chain) \in Nat
    BY DEF ChainTypes
  <1> DEFINE W(k) == {1} \cup {m \in 2 .. k : s \in chain[m].wrote}
  <1>1. ASSUME NEW k \in 1 .. Len(chain)
        PROVE  W(k) \in SUBSET Nat /\ W(k) # {} /\ \A x \in W(k) : 1 <= x /\ x <= k
    BY <1>0, <1>1
  <1>2. ASSUME NEW k \in 1 .. Len(chain)
        PROVE  At(s, k) \in W(k) /\ \A x \in W(k) : x <= At(s, k)
    <2>1. k \in Nat
      BY <1>0
    <2> HIDE DEF W
    <2>2. Max(W(k)) \in W(k) /\ \A x \in W(k) : x <= Max(W(k))
      BY <2>1, <1>1, MaxFacts
    <2> QED
      BY <2>2 DEF At, W
  <1>3. \A m \in 1 .. n : W(m) \subseteq W(n) /\ m \in 1 .. Len(chain)
    BY <1>0
  <1>4. At(s, n) \in 1 .. n
    <2> HIDE DEF W
    <2> QED
      BY <1>0, <1>1, <1>2
  <1>5. \A m \in 1 .. n : At(s, m) <= At(s, n)
    <2> HIDE DEF W
    <2> QED
      BY <1>2, <1>3
  <1> QED
    BY <1>4, <1>5

-----------------------------------------------------------------------------

\* MarketState works on one block after the other: it holds fetched values
\* only between its logs and their application, and its block is handled but
\* not sent until then.
OneBlockAtATime ==
    /\ msPc \in {"recv", "logs", "fetch", "send"}
    /\ msPc # "fetch" => diffs = Nothing
    /\ msPc # "recv" => msBlock \in handled \ sent
    /\ handled \subseteq 2 .. Len(chain)
    /\ sent \subseteq handled

\* Past its logs, a block is one that the RPC node has.
KnownToRpc ==
    \A n \in handled \ missed : (msBlock = n /\ msPc = "logs") \/ n <= rpcHead

\* Fetched values are no older than any block taken up so far, since "latest"
\* is not; of the block at hand all slots are still to fetch or fetched.
FetchedAreRecent ==
    msPc = "fetch" =>
        /\ \A s \in Slots, n \in handled \ missed :
             diffs[s] # Absent => diffs[s] >= At(s, n)
        /\ msBlock \notin missed =>
             \A s \in SlotsOf(msBlock) : s \in msTodo \/ diffs[s] # Absent

\* A simulation's path comes from a block that was sent.
PathsWereSent == \A w \in Workers : simPc[w] = "run" => simBlock[w] \in sent

SlotTypes ==
    /\ ChainTypes
    /\ db \in [Slots -> Int] /\ diffs \in [Slots -> Int] /\ seed \in [Slots -> Int]
    /\ simPc \in [Workers -> {"idle", "run"}]
    /\ simBlock \in [Workers -> Int]
    /\ simDb \in [Workers -> [Slots -> Int]]

\* Seeding asks for each slot once, and writes what it got.
SeedOnce ==
    /\ seedTodo \subseteq Slots /\ seedHeld \subseteq Slots
    /\ \A s \in seedTodo : seed[s] = Absent
    /\ \A s \in seedHeld : seed[s] # Absent

SlotInv ==
    /\ SlotTypes
    /\ SeedOnce
    /\ OneBlockAtATime
    /\ KnownToRpc
    /\ FetchedAreRecent
    /\ PathsWereSent
    /\ AppliedStays
    /\ SeesItsBlock

LEMMA InitSlots == Init => SlotInv
  <1> SUFFICES ASSUME Init PROVE SlotInv
    OBVIOUS
  <1>1. Len(chain) = 1 /\ chain \in Seq([wrote : SUBSET Slots, logs : SUBSET Pools])
    <2>1. [wrote |-> {}, logs |-> {}] \in [wrote : SUBSET Slots, logs : SUBSET Pools]
      OBVIOUS
    <2> QED
      BY <2>1 DEF Init
  <1>2. ChainTypes
    BY <1>1 DEF Init, ChainTypes
  <1>3. db \in [Slots -> Int]
    BY DEF Init, Prefetch, Absent, Zero
  <1>4. diffs \in [Slots -> Int]
    BY DEF Init, Nothing, Absent
  <1>5. simDb \in [Workers -> [Slots -> Int]]
    BY DEF Init, Nothing, Absent
  <1>6. SlotTypes /\ SeedOnce
    BY <1>2, <1>3, <1>4, <1>5, SlotAssumption
       DEF SlotTypes, SeedOnce, Init, Nothing, Absent
  <1> QED
    BY <1>6
       DEF Init, SlotInv, OneBlockAtATime, KnownToRpc, FetchedAreRecent, PathsWereSent,
           AppliedStays, Applied, SeesItsBlock

\* A longer chain changes nothing of its past.
LEMMA PastStays ==
    ASSUME ChainTypes, Mine, NEW n \in 1 .. Len(chain)
    PROVE  /\ \A s \in Slots : At(s, n)' = At(s, n)
           /\ SlotsOf(n)' = SlotsOf(n)
  <1>1. Len(chain) \in Nat
    BY DEF ChainTypes
  <1>2. PICK r : chain' = Append(chain, r)
    BY DEF Mine
  <1>3. \A m \in 1 .. n : chain'[m] = chain[m]
    BY <1>1, <1>2 DEF ChainTypes
  <1>4. ASSUME NEW s \in Slots PROVE At(s, n)' = At(s, n)
    <2>1. {m \in 2 .. n : s \in chain'[m].wrote} = {m \in 2 .. n : s \in chain[m].wrote}
      BY <1>1, <1>3
    <2> QED
      BY <2>1 DEF At
  <1>5. SlotsOf(n)' = SlotsOf(n)
    BY <1>1, <1>3 DEF SlotsOf
  <1> QED
    BY <1>4, <1>5

\* The chain and the RPC node: values and blocks stay, "latest" advances.
LEMMA ChainKeepsSlots ==
    ASSUME SlotInv, Mine \/ RpcSync
    PROVE  SlotInv'
  <1>1. UNCHANGED <<db, msPc, msBlock, msTodo, diffs, handled, sent, missed, simPc, simBlock,
                    simDb, seedTodo, seed, seedHeld>>
    BY DEF Mine, RpcSync, market, sims, seeding
  <1>2. /\ Len(chain) \in Nat /\ rpcHead \in 1 .. Len(chain)
        /\ handled \subseteq 1 .. Len(chain)
        /\ sent \subseteq handled
    BY DEF SlotInv, SlotTypes, ChainTypes, OneBlockAtATime
  <1>3. /\ ChainTypes' /\ Len(chain') \in Nat /\ Len(chain) <= Len(chain')
        /\ rpcHead' \in Nat /\ rpcHead <= rpcHead'
    <2>1. CASE Mine
      <3>1. PICK ws \in SUBSET Slots, ls \in SUBSET Pools :
              chain' = Append(chain, [wrote |-> ws, logs |-> ls])
        BY <2>1 DEF Mine
      <3>2. [wrote |-> ws, logs |-> ls] \in [wrote : SUBSET Slots, logs : SUBSET Pools]
        OBVIOUS
      <3>3. /\ chain' \in Seq([wrote : SUBSET Slots, logs : SUBSET Pools])
            /\ Len(chain') = Len(chain) + 1
        BY <3>1, <3>2 DEF SlotInv, SlotTypes, ChainTypes
      <3> QED
        BY <1>2, <2>1, <3>3 DEF Mine, ChainTypes
    <2>2. CASE RpcSync
      BY <1>2, <2>2 DEF RpcSync, SlotInv, SlotTypes, ChainTypes
    <2> QED
      BY <2>1, <2>2
  <1>4. ASSUME NEW n \in handled
        PROVE  (\A s \in Slots : At(s, n)' = At(s, n)) /\ SlotsOf(n)' = SlotsOf(n)
    <2>1. CASE Mine
      BY <1>2, <2>1, PastStays DEF SlotInv, SlotTypes
    <2>2. CASE RpcSync
      BY <2>2 DEF RpcSync, At, SlotsOf
    <2> QED
      BY <2>1, <2>2
  <1>s. \A n \in handled : SlotsOf(n) \subseteq Slots
    BY SlotAssumption DEF SlotsOf
  <1>5. SlotTypes' /\ SeedOnce' /\ OneBlockAtATime' /\ KnownToRpc' /\ PathsWereSent'
    <2>1. SlotTypes' /\ SeedOnce'
      BY <1>1, <1>3 DEF SlotInv, SlotTypes, SeedOnce
    <2>2. OneBlockAtATime'
      BY <1>1, <1>2, <1>3 DEF SlotInv, OneBlockAtATime
    <2>3. KnownToRpc'
      BY <1>1, <1>2, <1>3 DEF SlotInv, KnownToRpc
    <2>4. PathsWereSent'
      BY <1>1 DEF SlotInv, PathsWereSent
    <2> QED
      BY <2>1, <2>2, <2>3, <2>4
  <1>6. FetchedAreRecent'
    <2>1. msPc = "fetch" => msBlock \in handled
      BY DEF SlotInv, OneBlockAtATime
    <2> QED
      BY <1>1, <1>4, <2>1 DEF SlotInv, FetchedAreRecent
  <1>7. AppliedStays'
    BY <1>1, <1>4, <1>s DEF SlotInv, AppliedStays, Applied, NewAsOrSeed, NewAs
  <1>8. SeesItsBlock'
    <2>1. \A w \in Workers : simPc[w] = "run" => simBlock[w] \in handled
      BY <1>2 DEF SlotInv, PathsWereSent
    <2> QED
      BY <1>1, <1>4, <1>s, <2>1 DEF SlotInv, SeesItsBlock, NewAsOrSeed, NewAs
  <1> QED
    BY <1>5, <1>6, <1>7, <1>8 DEF SlotInv

\* MarketState: each of its steps, the simulators at rest.
LEMMA MarketKeepsSlots ==
    ASSUME SlotInv, UNCHANGED <<chain, rpcHead, seeding, sims>>,
           MsRecv \/ MsLogs \/ (\E s \in Slots : MsFetch(s)) \/ MsApply \/ MsSend
    PROVE  SlotInv'
  <1>1. /\ SlotTypes /\ SeedOnce /\ OneBlockAtATime /\ KnownToRpc /\ FetchedAreRecent
        /\ PathsWereSent /\ AppliedStays /\ SeesItsBlock
    BY DEF SlotInv
  <1>2. /\ Len(chain) \in Nat /\ rpcHead \in 1 .. Len(chain) /\ ChainTypes
        /\ handled \subseteq 1 .. Len(chain) /\ sent \subseteq handled
    BY <1>1 DEF SlotTypes, ChainTypes, OneBlockAtATime
  <1>n. \A n \in handled : n \in 1 .. Len(chain) /\ n \in Nat
    BY <1>2
  <1>r. ASSUME NEW x \in Workers, simPc[x] = "run"
        PROVE  simBlock[x] \in 1 .. Len(chain) /\ simBlock[x] \in Nat
    <2>1. simBlock[x] \in handled
      BY <1>1, <1>2, <1>r DEF PathsWereSent
    <2> QED
      BY <1>n, <2>1
  <1>3. /\ UNCHANGED <<chain, rpcHead, simPc, simBlock, simDb, seedTodo, seed, seedHeld>>
        /\ SeedOnce'
    BY <1>1 DEF sims, seeding, SeedOnce
  <1>4. /\ \A n \in Nat :
               SlotsOf(n)' = SlotsOf(n) /\ \A s \in Slots : At(s, n)' = At(s, n)
        /\ \A n \in Nat : SlotsOf(n) \subseteq Slots
    BY <1>3, SlotAssumption DEF SlotsOf, At
  <1>5. \A s \in Slots, n \in 1 .. Len(chain) : At(s, n) \in Nat \ {0}
    BY <1>2, AtFacts
  <1>6. ASSUME sent \subseteq sent', missed \subseteq missed'
        PROVE  PathsWereSent' /\ SeesItsBlock'
    <2>1. PathsWereSent'
      BY <1>1, <1>3, <1>6 DEF PathsWereSent
    <2> QED
      BY <1>1, <1>3, <1>4, <1>6, <1>r, <2>1 DEF SeesItsBlock, NewAsOrSeed, NewAs
  <1>7. CASE MsRecv
    <2>1. PICK b \in (2 .. Len(chain)) \ handled : msBlock' = b /\ handled' = handled \cup {b}
      BY <1>7 DEF MsRecv
    <2>2. /\ msPc = "recv" /\ msPc' = "logs"
          /\ UNCHANGED <<chain, rpcHead, db, msTodo, diffs, sent, missed, simPc, simBlock, simDb>>
      BY <1>7 DEF MsRecv, sims
    <2>3. SlotTypes' /\ FetchedAreRecent'
      BY <1>1, <1>3, <2>2 DEF SlotTypes, ChainTypes, FetchedAreRecent
    <2>4. OneBlockAtATime'
      BY <1>1, <1>2, <2>1, <2>2 DEF OneBlockAtATime
    <2>5. KnownToRpc'
      BY <1>1, <2>1, <2>2 DEF KnownToRpc
    <2>6. AppliedStays'
      <3>1. \A n \in handled \ missed : \A s \in SlotsOf(n) : NewAsOrSeed(db[s], s, n)
        BY <1>1, <1>3, <2>2 DEF AppliedStays, Applied, NewAsOrSeed, NewAs
      <3> QED
        BY <1>3, <1>2, <1>4, <2>1, <2>2, <3>1
           DEF AppliedStays, Applied, NewAsOrSeed, NewAs
    <2> QED
      BY <1>3, <1>6, <2>2, <2>3, <2>4, <2>5, <2>6 DEF SlotInv
  <1>8. CASE MsLogs
    <2>1. /\ msPc = "logs" /\ diffs = Nothing /\ msBlock \in handled
          /\ UNCHANGED <<chain, rpcHead, db, msBlock, diffs, handled, sent, simPc, simBlock, simDb>>
      BY <1>1, <1>8 DEF MsLogs, OneBlockAtATime, sims
    <2>2. SlotTypes' /\ OneBlockAtATime'
      BY <1>1, <1>3, <1>8, <2>1 DEF MsLogs, SlotTypes, ChainTypes, OneBlockAtATime
    <2>3. CASE /\ msBlock <= rpcHead /\ msPc' = "fetch" /\ missed' = missed
               /\ msTodo' = {s \in Traced : PoolOf[s] \in chain[msBlock].logs}
      <3>1. KnownToRpc'
        BY <1>1, <2>1, <2>3 DEF KnownToRpc
      <3>2. FetchedAreRecent'
        BY <2>1, <2>3 DEF FetchedAreRecent, Nothing, SlotsOf
      <3>3. AppliedStays'
        BY <1>1, <1>3, <1>2, <1>4, <2>1, <2>3
           DEF AppliedStays, Applied, NewAsOrSeed, NewAs
      <3> QED
        BY <1>3, <1>6, <2>1, <2>2, <2>3, <3>1, <3>2, <3>3 DEF SlotInv
    <2>4. CASE missed' = missed \cup {msBlock} /\ msPc' = "recv"
      <3>1. KnownToRpc' /\ FetchedAreRecent'
        BY <1>1, <2>1, <2>4 DEF KnownToRpc, FetchedAreRecent
      <3>2. AppliedStays'
        BY <1>1, <1>3, <1>2, <1>4, <2>1, <2>4
           DEF AppliedStays, Applied, NewAsOrSeed, NewAs
      <3> QED
        BY <1>3, <1>6, <2>1, <2>2, <2>4, <3>1, <3>2 DEF SlotInv
    <2> QED
      BY <1>8, <2>3, <2>4 DEF MsLogs
  <1>9. ASSUME NEW s \in Slots, MsFetch(s) PROVE SlotInv'
    <2>1. /\ msPc = "fetch" /\ s \in msTodo /\ msTodo' = msTodo \ {s} /\ msBlock \in handled
          /\ UNCHANGED <<chain, rpcHead, db, msPc, msBlock, handled, sent, simPc, simBlock, simDb>>
          /\ \/ diffs' = [diffs EXCEPT ![s] = At(s, rpcHead)] /\ missed' = missed
             \/ missed' = missed \cup {msBlock} /\ diffs' = diffs
      BY <1>1, <1>9 DEF MsFetch, OneBlockAtATime, sims
    <2>2. At(s, rpcHead) \in Nat \ {0} /\ At(s, rpcHead) \in Int
      BY <1>2, <1>5
    <2>3. \A n \in handled \ missed : n \in 1 .. rpcHead
      BY <1>1, <1>2, <2>1 DEF KnownToRpc
    <2>4. \A n \in handled \ missed : At(s, rpcHead) >= At(s, n)
      BY <1>2, <1>5, <2>3, AtFacts
    <2>5. SlotTypes'
      BY <1>1, <1>3, <2>1, <2>2 DEF SlotTypes, ChainTypes
    <2>6. OneBlockAtATime' /\ KnownToRpc'
      BY <1>1, <2>1 DEF OneBlockAtATime, KnownToRpc
    <2>7. FetchedAreRecent'
      <3>1. \A r \in Slots, n \in handled' \ missed' : diffs'[r] # Absent => diffs'[r] >= At(r, n)
        BY <1>1, <1>3, <1>2, <2>1, <2>4 DEF FetchedAreRecent, SlotTypes
      <3>2. msBlock \notin missed' =>
              \A r \in SlotsOf(msBlock) : r \in msTodo' \/ diffs'[r] # Absent
        BY <1>1, <1>3, <1>2, <1>4, <2>1, <2>2 DEF FetchedAreRecent, SlotTypes, Absent
      <3> QED
        BY <1>2, <1>4, <2>1, <3>1, <3>2 DEF FetchedAreRecent
    <2>8. AppliedStays'
      BY <1>1, <1>3, <1>2, <1>4, <2>1 DEF AppliedStays, Applied, NewAsOrSeed, NewAs
    <2> QED
      BY <1>3, <1>6, <2>1, <2>5, <2>6, <2>7, <2>8 DEF SlotInv
  <1>10. CASE MsApply
    <2>1. /\ msPc = "fetch" /\ msTodo = {} /\ msBlock \in handled /\ diffs' = Nothing
          /\ db' = [s \in Slots |-> IF diffs[s] # Absent THEN diffs[s] ELSE db[s]]
          /\ msPc' \in {"recv", "send"}
          /\ UNCHANGED <<chain, rpcHead, msBlock, msTodo, handled, sent, missed, simPc, simBlock,
                         simDb>>
      BY <1>1, <1>10 DEF MsApply, OneBlockAtATime, sims
    <2>2. SlotTypes'
      <3>1. db' \in [Slots -> Int] /\ diffs' \in [Slots -> Int]
        BY <1>1, <1>3, <2>1 DEF SlotTypes, Nothing, Absent
      <3> QED
        BY <1>1, <1>3, <2>1, <3>1 DEF SlotTypes, ChainTypes
    <2>3. OneBlockAtATime' /\ KnownToRpc' /\ FetchedAreRecent'
      BY <1>1, <2>1 DEF OneBlockAtATime, KnownToRpc, FetchedAreRecent
    <2>4. \A n \in handled \ missed : \A s \in SlotsOf(n) : NewAsOrSeed(db'[s], s, n)
      <3> SUFFICES ASSUME NEW n \in handled \ missed, NEW s \in SlotsOf(n)
                   PROVE  NewAsOrSeed(db'[s], s, n)
        OBVIOUS
      <3>1. n \in Nat /\ s \in Slots
        BY <1>2, <1>4
      <3>2. db'[s] = IF diffs[s] # Absent THEN diffs[s] ELSE db[s]
        BY <2>1, <3>1
      <3>3. CASE diffs[s] # Absent
        BY <1>1, <1>3, <2>1, <3>1, <3>2, <3>3 DEF FetchedAreRecent, NewAsOrSeed, NewAs
      <3>4. CASE diffs[s] = Absent
        <4>1. n # msBlock
          BY <1>1, <2>1, <3>4 DEF FetchedAreRecent
        <4> QED
          BY <1>1, <1>3, <3>2, <3>4, <4>1 DEF AppliedStays, Applied, NewAsOrSeed, NewAs
      <3> QED
        BY <3>3, <3>4
    <2>5. AppliedStays'
      BY <1>3, <1>2, <1>4, <2>1, <2>4 DEF AppliedStays, Applied, NewAsOrSeed, NewAs
    <2> QED
      BY <1>3, <1>6, <2>1, <2>2, <2>3, <2>5 DEF SlotInv
  <1>11. CASE MsSend
    <2>1. /\ msPc = "send" /\ msPc' = "recv" /\ sent' = sent \cup {msBlock} /\ msBlock \in handled
          /\ UNCHANGED <<chain, rpcHead, db, msBlock, msTodo, diffs, handled, missed, simPc,
                         simBlock, simDb>>
      BY <1>1, <1>11 DEF MsSend, OneBlockAtATime, sims
    <2>2. SlotTypes' /\ OneBlockAtATime' /\ KnownToRpc' /\ FetchedAreRecent'
      BY <1>1, <1>3, <2>1
         DEF SlotTypes, ChainTypes, OneBlockAtATime, KnownToRpc, FetchedAreRecent
    <2>3. AppliedStays'
      BY <1>1, <1>3, <1>2, <1>4, <2>1 DEF AppliedStays, Applied, NewAsOrSeed, NewAs
    <2> QED
      BY <1>3, <1>6, <2>1, <2>2, <2>3 DEF SlotInv
  <1> QED
    BY <1>7, <1>8, <1>9, <1>10, <1>11

\* A simulator: it starts from what was applied, and adds only what is absent.
LEMMA SimulatorKeepsSlots ==
    ASSUME SlotInv, NEW w \in Workers, Simulate(w)
    PROVE  SlotInv'
  <1>1. /\ SlotTypes /\ SeedOnce /\ OneBlockAtATime /\ KnownToRpc /\ FetchedAreRecent
        /\ PathsWereSent /\ AppliedStays /\ SeesItsBlock
    BY DEF SlotInv
  <1>2. /\ Len(chain) \in Nat /\ rpcHead \in 1 .. Len(chain) /\ ChainTypes
        /\ handled \subseteq 1 .. Len(chain) /\ sent \subseteq handled
    BY <1>1 DEF SlotTypes, ChainTypes, OneBlockAtATime
  <1>n. \A n \in handled : n \in 1 .. Len(chain) /\ n \in Nat
    BY <1>2
  <1>r. ASSUME NEW x \in Workers, simPc[x] = "run"
        PROVE  simBlock[x] \in 1 .. Len(chain) /\ simBlock[x] \in Nat
    <2>1. simBlock[x] \in handled
      BY <1>1, <1>2, <1>r DEF PathsWereSent
    <2> QED
      BY <1>n, <2>1
  <1>3. /\ UNCHANGED <<chain, rpcHead, msPc, msBlock, msTodo, diffs, handled, sent, missed,
                  seedTodo, seed, seedHeld>>
        /\ SeedOnce'
    BY <1>1 DEF Simulate, Snapshot, FetchMissing, NotViable, WriteBack, market, seeding,
                SeedOnce
  <1>4. /\ \A n \in Nat :
               SlotsOf(n)' = SlotsOf(n) /\ \A s \in Slots : At(s, n)' = At(s, n)
        /\ \A n \in Nat : SlotsOf(n) \subseteq Slots
    BY <1>3, SlotAssumption DEF SlotsOf, At
  <1>5. \A s \in Slots, n \in 1 .. Len(chain) : At(s, n) \in Nat \ {0}
    BY <1>2, AtFacts
  <1>6. OneBlockAtATime' /\ KnownToRpc' /\ FetchedAreRecent'
    <2>1. OneBlockAtATime' /\ KnownToRpc'
      BY <1>1, <1>3 DEF OneBlockAtATime, KnownToRpc
    <2>2. \A n \in handled : SlotsOf(n)' = SlotsOf(n) /\ \A s \in Slots : At(s, n)' = At(s, n)
      BY <1>4, <1>n
    <2>3. msPc = "fetch" => msBlock \in handled
      BY <1>1 DEF OneBlockAtATime
    <2>4. FetchedAreRecent'
      BY <1>1, <1>3, <2>2, <2>3 DEF FetchedAreRecent
    <2> QED
      BY <2>1, <2>4
  <1>k. ASSUME db' = db PROVE AppliedStays'
    BY <1>1, <1>2, <1>3, <1>4, <1>k DEF AppliedStays, Applied, NewAsOrSeed, NewAs
  <1>7. CASE Snapshot(w)
    <2>1. PICK b \in sent : simBlock' = [simBlock EXCEPT ![w] = b]
      BY <1>7 DEF Snapshot
    <2>2. /\ db' = db /\ simDb' = [simDb EXCEPT ![w] = db] /\ simPc' = [simPc EXCEPT ![w] = "run"]
          /\ b \in Nat
      BY <1>2, <1>7 DEF Snapshot
    <2>3. SlotTypes'
      BY <1>1, <1>3, <2>1, <2>2 DEF SlotTypes, ChainTypes
    <2>4. PathsWereSent'
      BY <1>1, <1>3, <2>1, <2>2 DEF PathsWereSent, SlotTypes
    <2>5. b \notin missed => \A s \in SlotsOf(b) : NewAsOrSeed(db[s], s, b)
      <3>1. ~(msBlock = b /\ msPc \in {"logs", "fetch"})
        BY <1>1 DEF OneBlockAtATime
      <3> QED
        BY <1>1, <1>3, <1>2, <3>1 DEF AppliedStays, Applied
    <2>6. SeesItsBlock'
      <3> SUFFICES ASSUME NEW x \in Workers, simPc'[x] = "run", simBlock'[x] \notin missed,
                          NEW s \in SlotsOf(simBlock'[x])
                   PROVE  NewAsOrSeed(simDb'[x][s], s, simBlock'[x])
        <4>1. \A x \in Workers : simPc'[x] = "run" => simBlock'[x] \in Nat
          BY <1>2, <1>3, <2>4 DEF PathsWereSent
        <4> QED
          BY <1>2, <1>3, <1>4, <4>1 DEF SeesItsBlock, NewAsOrSeed, NewAs
      <3>1. CASE x = w
        BY <1>1, <1>3, <2>1, <2>2, <2>5, <3>1 DEF SlotTypes
      <3>2. CASE x # w
        BY <1>1, <1>3, <2>1, <2>2, <3>2 DEF SlotTypes, SeesItsBlock
      <3> QED
        BY <3>1, <3>2
    <2> QED
      BY <1>3, <1>6, <1>k, <2>2, <2>3, <2>4, <2>6 DEF SlotInv
  <1>8. ASSUME NEW s \in Slots, FetchMissing(w, s) PROVE SlotInv'
    <2>1. PICK v \in Answers(s) : simDb' = [simDb EXCEPT ![w][s] = v]
      BY <1>8 DEF FetchMissing
    <2>2. simPc[w] = "run" /\ simDb[w][s] = Absent /\ UNCHANGED <<db, simPc, simBlock>>
      BY <1>8 DEF FetchMissing
    <2>3. v \in Int
      BY <1>2, <1>5 DEF Answers, Zero
    <2>4. SlotTypes'
      BY <1>1, <1>3, <2>1, <2>2, <2>3 DEF SlotTypes, ChainTypes
    <2>5. PathsWereSent'
      BY <1>1, <1>3, <2>2 DEF PathsWereSent
    <2>6. SeesItsBlock'
      <3> SUFFICES ASSUME NEW x \in Workers, simPc[x] = "run", simBlock[x] \notin missed,
                          NEW r \in SlotsOf(simBlock[x])
                   PROVE  NewAsOrSeed(simDb'[x][r], r, simBlock[x])
        BY <1>3, <1>4, <1>r, <2>2 DEF SeesItsBlock, NewAsOrSeed, NewAs
      <3>1. simBlock[x] \in 1 .. Len(chain) /\ r \in Slots
        BY <1>4, <1>r
      <3>2. NewAsOrSeed(simDb[x][r], r, simBlock[x]) /\ At(r, simBlock[x]) \in Nat
        BY <1>1, <1>3, <1>5, <3>1 DEF SeesItsBlock
      <3>3. x # w \/ r # s
        BY <1>3, <2>2, <3>2 DEF Absent, NewAsOrSeed, NewAs
      <3>4. simDb'[x][r] = simDb[x][r]
        BY <1>1, <1>3, <2>1, <3>1, <3>3 DEF SlotTypes
      <3> QED
        BY <3>2, <3>4
    <2> QED
      BY <1>3, <1>6, <1>k, <2>2, <2>4, <2>5, <2>6 DEF SlotInv
  <1>9. ASSUME Idle(w) PROVE PathsWereSent' /\ SeesItsBlock'
    <2>1. \A x \in Workers : simPc'[x] = "run" =>
             x # w /\ simPc[x] = "run" /\ simBlock'[x] = simBlock[x] /\ simDb'[x] = simDb[x]
      BY <1>1, <1>3, <1>9 DEF Idle, SlotTypes
    <2> QED
      BY <1>1, <1>3, <1>4, <1>r, <2>1 DEF PathsWereSent, SeesItsBlock, NewAsOrSeed, NewAs
  <1>t. ASSUME Idle(w), db' \in [Slots -> Int] PROVE SlotTypes'
    BY <1>1, <1>3, <1>t DEF Idle, SlotTypes, ChainTypes, Nothing, Absent
  <1>10. CASE NotViable(w)
    <2>1. Idle(w) /\ db' = db
      BY <1>10 DEF NotViable
    <2>2. SlotTypes'
      BY <1>1, <1>3, <1>t, <2>1 DEF SlotTypes
    <2> QED
      BY <1>3, <1>6, <1>9, <1>k, <2>1, <2>2 DEF SlotInv
  <1>11. CASE WriteBack(w)
    <2>1. Idle(w) /\ db' = [s \in Slots |-> IF db[s] = Absent THEN simDb[w][s] ELSE db[s]]
      BY <1>11 DEF WriteBack
    <2>2. db' \in [Slots -> Int]
      BY <1>1, <1>3, <2>1 DEF SlotTypes
    <2>3. AppliedStays'
      <3> SUFFICES ASSUME NEW n \in handled \ missed,
                          ~(msBlock = n /\ msPc \in {"logs", "fetch"}),
                          NEW s \in SlotsOf(n)
                   PROVE  NewAsOrSeed(db'[s], s, n)
        BY <1>2, <1>3, <1>4 DEF AppliedStays, Applied, NewAsOrSeed, NewAs
      <3>1. n \in 1 .. Len(chain) /\ s \in Slots
        BY <1>2, <1>4
      <3>2. NewAsOrSeed(db[s], s, n) /\ At(s, n) \in Nat
        BY <1>1, <1>3, <1>5, <3>1 DEF AppliedStays, Applied
      <3>3. db[s] # Absent
        BY <1>3, <3>2 DEF Absent, NewAsOrSeed, NewAs
      <3> QED
        BY <1>3, <2>1, <3>1, <3>2, <3>3 DEF NewAsOrSeed, NewAs
    <2>4. SlotTypes'
      BY <1>t, <2>1, <2>2
    <2> QED
      BY <1>3, <1>6, <1>9, <2>1, <2>3, <2>4 DEF SlotInv
  <1> QED
    BY <1>7, <1>8, <1>10, <1>11 DEF Simulate

\* The searcher: what seeding writes is excepted from then on.
LEMMA SeedingKeepsSlots ==
    ASSUME SlotInv, (\E s \in Slots : SeedFetch(s)) \/ SeedWrite
    PROVE  SlotInv'
  <1>1. /\ SlotTypes /\ SeedOnce /\ OneBlockAtATime /\ KnownToRpc /\ FetchedAreRecent
        /\ PathsWereSent /\ AppliedStays /\ SeesItsBlock
    BY DEF SlotInv
  <1>2. UNCHANGED <<chain, rpcHead, msPc, msBlock, msTodo, diffs, handled, sent, missed, simPc,
                    simBlock, simDb>>
    BY DEF SeedFetch, SeedWrite, market, sims
  <1>3. /\ Len(chain) \in Nat /\ rpcHead \in 1 .. Len(chain) /\ ChainTypes
        /\ handled \subseteq 1 .. Len(chain) /\ sent \subseteq handled
    BY <1>1 DEF SlotTypes, ChainTypes, OneBlockAtATime
  <1>4. /\ \A n \in Nat :
               SlotsOf(n)' = SlotsOf(n) /\ \A s \in Slots : At(s, n)' = At(s, n)
        /\ \A n \in Nat : SlotsOf(n) \subseteq Slots
    BY <1>2, SlotAssumption DEF SlotsOf, At
  <1>5. /\ \A n \in handled : n \in Nat
        /\ \A x \in Workers : simPc[x] = "run" => simBlock[x] \in Nat
    <2>1. \A n \in handled : n \in Nat
      BY <1>3
    <2>2. \A x \in Workers : simPc[x] = "run" => simBlock[x] \in handled
      BY <1>1, <1>3 DEF PathsWereSent
    <2> QED
      BY <2>1, <2>2
  <1>6. OneBlockAtATime' /\ KnownToRpc' /\ FetchedAreRecent' /\ PathsWereSent'
    <2>1. msPc = "fetch" => msBlock \in Nat
      BY <1>1, <1>5 DEF OneBlockAtATime
    <2> QED
      BY <1>1, <1>2, <1>4, <1>5, <2>1
         DEF OneBlockAtATime, KnownToRpc, FetchedAreRecent, PathsWereSent
  <1>7. ASSUME NEW s \in Slots, SeedFetch(s) PROVE SlotInv'
    <2>1. At(s, rpcHead) \in Nat \ {0}
      BY <1>3, AtFacts
    <2>2. seed[s] = Absent /\ db' = db /\ seedTodo' = seedTodo \ {s}
      BY <1>1, <1>7 DEF SeedFetch, SeedOnce
    <2>3. \/ seed' = [seed EXCEPT ![s] = At(s, rpcHead)] /\ seedHeld' = seedHeld \cup {s}
          \/ seed' = seed /\ seedHeld' = seedHeld
      BY <1>7 DEF SeedFetch
    <2>4. SlotTypes' /\ SeedOnce'
      BY <1>1, <1>2, <2>1, <2>2, <2>3 DEF SlotTypes, ChainTypes, SeedOnce, Absent
    <2>5. \A r \in Slots : seed[r] # Absent => seed'[r] = seed[r]
      BY <1>1, <2>2, <2>3 DEF SlotTypes
    <2>6. AppliedStays'
      BY <1>1, <1>2, <1>4, <1>5, <2>2, <2>5 DEF AppliedStays, Applied, NewAsOrSeed, NewAs
    <2>7. SeesItsBlock'
      BY <1>1, <1>2, <1>4, <1>5, <2>5 DEF SeesItsBlock, NewAsOrSeed, NewAs
    <2> QED
      BY <1>6, <2>4, <2>6, <2>7 DEF SlotInv
  <1>8. CASE SeedWrite
    <2>1. /\ db' = [s \in Slots |-> IF s \in seedHeld THEN seed[s] ELSE db[s]]
          /\ seedHeld' = {} /\ UNCHANGED <<seedTodo, seed>>
      BY <1>8 DEF SeedWrite
    <2>2. SlotTypes' /\ SeedOnce'
      BY <1>1, <1>2, <2>1 DEF SlotTypes, ChainTypes, SeedOnce
    <2>3. AppliedStays'
      BY <1>1, <1>2, <1>4, <1>5, <2>1
         DEF AppliedStays, Applied, NewAsOrSeed, NewAs, SeedOnce
    <2>4. SeesItsBlock'
      BY <1>1, <1>2, <1>4, <1>5, <2>1 DEF SeesItsBlock, NewAsOrSeed, NewAs
    <2> QED
      BY <1>6, <2>2, <2>3, <2>4 DEF SlotInv
  <1> QED
    BY <1>7, <1>8

LEMMA StepKeepsSlots == SlotInv /\ [Next]_vars => SlotInv'
  <1> SUFFICES ASSUME SlotInv, [Next]_vars PROVE SlotInv'
    OBVIOUS
  <1>1. CASE Mine \/ RpcSync
    BY <1>1, ChainKeepsSlots
  <1>2. CASE MsRecv \/ MsLogs \/ (\E s \in Slots : MsFetch(s)) \/ MsApply \/ MsSend
    <2>1. UNCHANGED <<chain, rpcHead, seeding, sims>>
      BY <1>2 DEF MsRecv, MsLogs, MsFetch, MsApply, MsSend
    <2> QED
      BY <1>2, <2>1, MarketKeepsSlots
  <1>3. CASE \E w \in Workers : Simulate(w)
    BY <1>3, SimulatorKeepsSlots
  <1>5. CASE (\E s \in Slots : SeedFetch(s)) \/ SeedWrite
    BY <1>5, SeedingKeepsSlots
  <1>4. CASE Resting \/ UNCHANGED vars
    <2>1. UNCHANGED <<chain, rpcHead, db, msPc, msBlock, msTodo, diffs, handled, sent, missed,
                      seedTodo, seed, seedHeld, simPc, simBlock, simDb>>
      BY <1>4 DEF Resting, vars, market, seeding, sims
    <2>2. (SlotTypes /\ SeedOnce /\ OneBlockAtATime /\ KnownToRpc)'
      BY <2>1 DEF SlotInv, SlotTypes, ChainTypes, SeedOnce, OneBlockAtATime, KnownToRpc
    <2>3. (FetchedAreRecent /\ PathsWereSent)'
      BY <2>1 DEF SlotInv, FetchedAreRecent, PathsWereSent, SlotsOf, At
    <2>4. (AppliedStays /\ SeesItsBlock)'
      BY <2>1
         DEF SlotInv, AppliedStays, Applied, SeesItsBlock, SlotsOf, NewAsOrSeed, NewAs,
             At
    <2> QED
      BY <2>2, <2>3, <2>4 DEF SlotInv
  <1> QED
    BY <1>1, <1>2, <1>3, <1>4, <1>5 DEF Next

\* Whatever order the blocks come in and however late the simulators write
\* back: once MarketState has applied a block, the traced slots of its pools are
\* never older than it again (write_back of sim_db.rs, trace_block_diffs),
\* but for reserves that seeding fetched before it (seed_initial_rates).
THEOREM WhatIsAppliedStays == Spec => []AppliedStays
  <1>1. SlotInv => AppliedStays
    BY DEF SlotInv
  <1> QED
    BY <1>1, InitSlots, StepKeepsSlots, PTL DEF Spec

\* A simulation sees each traced slot of its block's pools at least as new as
\* that block, for any number of simulators and whatever requests fail, with
\* the same exception.
THEOREM SimulationsSeeTheirBlock == Spec => []SeesItsBlock
  <1>1. SlotInv => SeesItsBlock
    BY DEF SlotInv
  <1> QED
    BY <1>1, InitSlots, StepKeepsSlots, PTL DEF Spec
=============================================================================
