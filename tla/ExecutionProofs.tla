-------------------------- MODULE ExecutionProofs --------------------------
(***************************************************************************)
(* Of the transaction sender, for every set of tokens, paths and initial   *)
(* files: type correctness, the agreement of the toxic-token file with the *)
(* blacklist in memory, gap-free nonces, and that only failed preflights   *)
(* of its own, or of the paths through it, blacklist a path or a token.    *)
(* Of the simulators with the sender, for any number of simulators and any *)
(* sizes of the channels: blacklistings take effect at once, as from the   *)
(* check against a blacklist to the sender there is no way for a path      *)
(* around that check.                                                      *)
(***************************************************************************)
EXTENDS ExecutionPipeline, FiniteSetTheorems, TLAPS

-----------------------------------------------------------------------------
(* The transaction sender *)

\* The token positions of a path are tokens, and there is at least one.
LEMMA StepTokensType ==
    ASSUME NEW q \in Paths
    PROVE  /\ Len(q) \in Nat \ {0}
           /\ \A i \in 1 .. 2 * Len(q) : StepTokens(q)[i] \in Tokens
  <1>1. q \in Seq(Tokens) /\ q # << >>
    BY TxSenderAssumption
  <1>2. Len(q) \in Nat \ {0}
    BY <1>1
  <1>3. ASSUME NEW i \in 1 .. 2 * Len(q)
        PROVE  StepTokens(q)[i] \in Tokens
    <2>1. i \div 2 \in Nat
      OBVIOUS
    <2>2. ((i \div 2) % Len(q)) + 1 \in 1 .. Len(q)
      BY <1>2, <2>1
    <2>3. StepTokens(q)[i] = q[((i \div 2) % Len(q)) + 1]
      BY DEF StepTokens
    <2> QED
      BY <1>1, <2>2, <2>3
  <1> QED
    BY <1>2, <1>3

\* A job names a path.
LEMMA JobPath ==
    ASSUME NEW job \in ValidPaths
    PROVE  job.path \in Paths /\ job # NoJob
  <1>1. << >> \notin Paths
    BY TxSenderAssumption
  <1> QED
    BY <1>1 DEF ValidPaths, NoJob

-----------------------------------------------------------------------------
(* Type correctness *)

\* After a job the worker is back at the channel; while its tokens are gone
\* through, the position stays in range.
LEMMA NextTokenTypes ==
    ASSUME WorkTypes, txPc \notin {"seed", "recv"}, NextToken
    PROVE  /\ txPc' \in {"recv", "strikeToken"}
           /\ txJob' \in ValidPaths \cup {NoJob}
           /\ txPc' = "recv" => txIdx' = 1
           /\ txPc' # "recv" => txJob' # NoJob /\ txIdx' \in 1 .. 2 * Len(txJob'.path)
           /\ txProvider' \in 1 .. Providers
           /\ txIdx' \in Nat
           /\ addresses' \in SUBSET (Tokens \cup Junk)
           /\ instant' \in BOOLEAN
  <1>1. txJob \in ValidPaths /\ txJob # NoJob /\ txIdx \in 1 .. 2 * Len(txJob.path)
    BY DEF WorkTypes
  <1>2. Len(txJob.path) \in Nat
    BY <1>1, JobPath, StepTokensType
  <1>3. 1 \in 1 .. Providers
    BY TxSenderAssumption
  <1>4. CASE txIdx < 2 * Len(txJob.path)
    <2>1. /\ txPc' = "strikeToken" /\ txIdx' = txIdx + 1 /\ addresses' = {}
          /\ txJob' = txJob /\ txProvider' = txProvider /\ instant' = instant
      BY <1>4 DEF NextToken
    <2>2. txProvider \in 1 .. Providers /\ instant \in BOOLEAN
      BY DEF WorkTypes
    <2>3. txIdx' \in 1 .. 2 * Len(txJob.path) /\ txIdx' \in Nat
      BY <1>1, <1>2, <1>4, <2>1
    <2> QED
      BY <1>1, <2>1, <2>2, <2>3
  <1>5. CASE ~(txIdx < 2 * Len(txJob.path))
    <2>1. Finish
      BY <1>5 DEF NextToken
    <2> QED
      BY <1>3, <2>1 DEF Finish
  <1> QED
    BY <1>4, <1>5

\* Where the worker is busy its job is a ValidPath and its token a token.
LEMMA BusyTypes ==
    ASSUME WorkTypes, txPc \notin {"seed", "recv"}
    PROVE  /\ txJob \in ValidPaths
           /\ txJob.path \in Paths
           /\ Len(txJob.path) \in Nat \ {0}
           /\ Token \in Tokens
  <1>1. txJob \in ValidPaths /\ txIdx \in 1 .. 2 * Len(txJob.path)
    BY DEF WorkTypes
  <1>2. txJob.path \in Paths
    BY <1>1, JobPath
  <1> QED
    BY <1>1, <1>2, StepTokensType DEF Token

LEMMA InitTypes == TxInit => TxTypeOK
  <1> SUFFICES ASSUME TxInit PROVE TxTypeOK
    OBVIOUS
  <1>1. WorldTypes
    BY DEF TxInit, WorldTypes
  <1>2. WorkTypes
    <2>1. 1 \in 1 .. Providers
      BY TxSenderAssumption
    <2>2. /\ validQ = << >> /\ txPc = "seed" /\ txJob = NoJob /\ txProvider = 1
          /\ txIdx = 1 /\ addresses = {} /\ instant = FALSE /\ cachedHead = 0 /\ nonce = 0
      BY DEF TxInit
    <2>3. validQ \in Seq(ValidPaths) /\ txJob \in ValidPaths \cup {NoJob}
      BY <2>2
    <2>4. instant \in BOOLEAN /\ addresses \in SUBSET (Tokens \cup Junk)
      BY <2>2
    <2>5. {txIdx, cachedHead, nonce} \subseteq Nat /\ txProvider \in 1 .. Providers
      BY <2>1, <2>2
    <2>6. txPc \in Places /\ txPc \in {"seed", "recv"} /\ txIdx = 1
      BY <2>2 DEF Places
    <2> QED
      BY <2>3, <2>4, <2>5, <2>6 DEF WorkTypes
  <1>3. ListTypes
    BY TxSenderAssumption DEF TxInit, ListTypes, LoadTokens
  <1>4. HistoryTypes
    BY DEF TxInit, HistoryTypes, LoadTokens
  <1> QED
    BY <1>1, <1>2, <1>3, <1>4 DEF TxTypeOK

\* What a step does to the channel, the job and the position in it.
LEMMA StepWork == TxTypeOK /\ [TxNext]_txVars => WorkTypes'
  <1> SUFFICES ASSUME TxTypeOK, [TxNext]_txVars PROVE WorkTypes'
    OBVIOUS
  <1>w. WorkTypes /\ {mined, rpcHead} \subseteq Nat
    BY DEF TxTypeOK, WorldTypes
  <1>p. 1 \in 1 .. Providers
    BY TxSenderAssumption
  <1>q. validQ # << >> => Head(validQ) \in ValidPaths /\ Tail(validQ) \in Seq(ValidPaths)
    BY <1>w DEF WorkTypes
  \* A step that leaves the channel, the head and the nonce alone and goes on
  \* to the next token or job.
  <1>n. ASSUME NextToken \/ Finish, txPc \notin {"seed", "recv"}, validQ' = validQ,
               cachedHead' = cachedHead, nonce' \in Nat
        PROVE  WorkTypes'
    <2>1. CASE NextToken
      BY <1>n, <1>w, <2>1, NextTokenTypes DEF WorkTypes, Places
    <2>2. CASE Finish
      <3>1. txPc' \in Places /\ txPc' \in {"seed", "recv"}
        BY <2>2 DEF Finish, Places
      <3>2. instant' \in BOOLEAN /\ addresses' \in SUBSET (Tokens \cup Junk)
        BY <2>2 DEF Finish
      <3>3. txIdx' = 1 /\ txProvider' \in 1 .. Providers
        BY <2>2, <1>p DEF Finish
      <3>4. txJob' = NoJob
        BY <2>2 DEF Finish
      <3> QED
        BY <1>n, <1>w, <3>1, <3>2, <3>3, <3>4 DEF WorkTypes
    <2> QED
      BY <1>n, <2>1, <2>2
  <1>1. CASE TxSeed
    BY <1>1, <1>w DEF TxSeed, WorkTypes, work, Places
  <1>2. CASE TxSkipLow
    BY <1>2, <1>w, <1>q DEF TxSkipLow, WorkTypes, work
  <1>3. CASE TxTake
    <2>1. /\ validQ # << >> /\ validQ' = Tail(validQ) /\ cachedHead' \in Nat /\ nonce' = nonce
          /\ txProvider' = txProvider /\ txIdx' = txIdx /\ addresses' = addresses
          /\ instant' = instant /\ txPc = "recv"
      BY <1>3, <1>w DEF TxTake, WorkTypes
    <2>2. CASE txPc' = txPc /\ txJob' = txJob
      BY <1>w, <1>q, <2>1, <2>2 DEF WorkTypes
    <2>3. CASE txPc' \in {"submit", "preflight"} /\ txJob' = Head(validQ)
      <3>1. txJob' \in ValidPaths /\ txJob' # NoJob /\ Len(txJob'.path) \in Nat \ {0}
        BY <1>q, <2>1, <2>3, JobPath, StepTokensType
      <3>2. txIdx' \in 1 .. 2 * Len(txJob'.path)
        BY <1>w, <2>1, <3>1 DEF WorkTypes
      <3> QED
        BY <1>w, <1>q, <2>1, <2>3, <3>1, <3>2 DEF WorkTypes, Places
    <2> QED
      BY <1>3, <2>2, <2>3 DEF TxTake
  <1>4. ASSUME NEW o \in Outcomes, TxPreflight(o)
        PROVE  WorkTypes'
    <2>1. txPc = "preflight" /\ validQ' = validQ /\ cachedHead' = cachedHead /\ nonce' = nonce
      BY <1>4 DEF TxPreflight
    <2>2. CASE txPc' \in {"submit"} /\ UNCHANGED work
      BY <1>w, <2>1, <2>2 DEF WorkTypes, Places, work
    <2>3. CASE txProvider < Providers /\ txProvider' = txProvider + 1
                 /\ UNCHANGED <<txPc, txJob, txIdx, addresses, instant>>
      <3>1. txProvider' \in 1 .. Providers
        BY <1>w, <2>3, TxSenderAssumption DEF WorkTypes
      <3> QED
        BY <1>w, <2>1, <2>3, <3>1 DEF WorkTypes
    <2>4. CASE Finish
      BY <1>w, <1>n, <2>1, <2>4 DEF WorkTypes
    <2>5. CASE txPc' = "strikePath" /\ instant' = (o \in Instant)
                 /\ UNCHANGED <<txJob, txProvider, txIdx, addresses>>
      <3>1. instant' \in BOOLEAN
        BY <2>5
      <3> QED
        BY <1>w, <2>1, <2>5, <3>1 DEF WorkTypes, Places
    <2> QED
      BY <1>4, <2>2, <2>3, <2>4, <2>5 DEF TxPreflight
  <1>5. CASE TxSubmit
    BY <1>5, <1>w, <1>n DEF TxSubmit, WorkTypes
  <1>6. CASE TxStrikePath
    BY <1>6, <1>w DEF TxStrikePath, WorkTypes, Places, work
  <1>7. CASE TxSkipStart
    BY <1>7, <1>w, <1>n DEF TxSkipStart, WorkTypes
  <1>8. CASE TxStrikeToken
    <2>1. txPc = "strikeToken" /\ validQ' = validQ /\ cachedHead' = cachedHead /\ nonce' = nonce
      BY <1>8 DEF TxStrikeToken
    <2>2. CASE txPc' = "read" /\ UNCHANGED work
      BY <1>w, <2>1, <2>2 DEF WorkTypes, Places, work
    <2>3. CASE NextToken
      BY <1>w, <1>n, <2>1, <2>3 DEF WorkTypes
    <2> QED
      BY <1>8, <2>2, <2>3 DEF TxStrikeToken
  <1>9. CASE PersistRead
    <2>1. txPc = "read" /\ validQ' = validQ /\ cachedHead' = cachedHead /\ nonce' = nonce
      BY <1>9 DEF PersistRead
    <2>2. Token \in Tokens /\ ReadAddresses(file) \subseteq Tokens \cup Junk
      <3>1. file \in Files
        BY DEF TxTypeOK, ListTypes
      <3> QED
        BY <1>w, <2>1, <3>1, BusyTypes DEF ReadAddresses, Files, Junk
    <2>3. CASE /\ addresses' = ReadAddresses(file) \cup {Token} \/ addresses' = {Token}
               /\ txPc' = "open"
               /\ UNCHANGED <<txJob, txProvider, txIdx, instant>>
      BY <1>w, <2>1, <2>2, <2>3 DEF WorkTypes, Places
    <2>4. CASE NextToken
      BY <1>w, <1>n, <2>1, <2>4 DEF WorkTypes
    <2> QED
      BY <1>9, <2>3, <2>4 DEF PersistRead
  <1>10. CASE PersistOpen
    <2>1. txPc = "open" /\ validQ' = validQ /\ cachedHead' = cachedHead /\ nonce' = nonce
      BY <1>10 DEF PersistOpen
    <2>2. CASE txPc' = "write" /\ UNCHANGED work
      BY <1>w, <2>1, <2>2 DEF WorkTypes, Places, work
    <2>3. CASE NextToken
      BY <1>w, <1>n, <2>1, <2>3 DEF WorkTypes
    <2> QED
      BY <1>10, <2>2, <2>3 DEF PersistOpen
  <1>11. CASE PersistWrite
    BY <1>11, <1>w, <1>n DEF PersistWrite, WorkTypes
  <1>12. CASE Restart
    <2>1. validQ' = << >> /\ txJob' = NoJob /\ txPc' = "seed"
      BY <1>12 DEF Restart
    <2>2. validQ' \in Seq(ValidPaths) /\ txPc' \in Places
      BY <2>1 DEF Places
    <2>3. txIdx' = 1 /\ txProvider' \in 1 .. Providers /\ cachedHead' = 0 /\ nonce' = 0
      BY <1>12, <1>p DEF Restart
    <2>4. addresses' = {} /\ instant' \in BOOLEAN
      BY <1>12 DEF Restart
    <2> QED
      BY <2>1, <2>2, <2>3, <2>4 DEF WorkTypes
  <1>13. CASE DeliverAny
    <2>1. PICK v \in ValidPaths : validQ' = Append(validQ, v)
      BY <1>13 DEF DeliverAny, Deliver, ValidPaths
    <2>2. validQ' \in Seq(ValidPaths)
      BY <1>w, <2>1 DEF WorkTypes
    <2> QED
      BY <1>13, <1>w, <2>2 DEF DeliverAny, WorkTypes, work
  <1>14. CASE NewBlock \/ Execute \/ UNCHANGED txVars
    BY <1>14, <1>w DEF NewBlock, Execute, txVars, WorkTypes, work
  <1> QED
    BY <1>1, <1>2, <1>3, <1>4, <1>5, <1>6, <1>7, <1>8, <1>9, <1>10, <1>11, <1>12, <1>13, <1>14
       DEF TxNext, TxStep, TxRest

\* The strike counts, the blacklists and the file.
LEMMA StepLists == TxTypeOK /\ [TxNext]_txVars => ListTypes'
  <1> SUFFICES ASSUME TxTypeOK, [TxNext]_txVars PROVE ListTypes'
    OBVIOUS
  <1>t. WorkTypes /\ ListTypes
    BY DEF TxTypeOK
  <1>c. ASSUME NEW n \in Nat PROVE Struck(n) \in Nat
    BY TxSenderAssumption DEF Struck
  <1>f. Blank \in Files /\ Torn \in Files
    BY DEF Blank, Torn, Files, Junk
  <1>1. CASE TxStrikePath
    <2>1. txJob.path \in Paths
      BY <1>1, <1>t, BusyTypes DEF TxStrikePath
    <2>2. strikes' \in [Paths -> Nat]
      BY <1>1, <1>t, <1>c, <2>1 DEF TxStrikePath, ListTypes
    <2>3. blPaths' \in SUBSET Paths
      BY <1>1, <1>t, <2>1 DEF TxStrikePath, ListTypes
    <2> QED
      BY <1>1, <1>t, <2>2, <2>3 DEF TxStrikePath, ListTypes
  <1>2. CASE TxStrikeToken
    <2>1. Token \in Tokens
      BY <1>2, <1>t, BusyTypes DEF TxStrikeToken
    <2>2. tokenStrikes' \in [Tokens -> Nat]
      BY <1>2, <1>t, <1>c, <2>1 DEF TxStrikeToken, ListTypes
    <2>3. blTokens' \in SUBSET Tokens
      BY <1>2, <1>t, <2>1 DEF TxStrikeToken, ListTypes
    <2> QED
      BY <1>2, <1>t, <2>2, <2>3 DEF TxStrikeToken, ListTypes
  <1>3. CASE PersistOpen
    BY <1>3, <1>t, <1>f DEF PersistOpen, ListTypes, lists
  <1>4. CASE PersistWrite
    <2>1. [toml |-> TRUE, entries |-> addresses] \in Files
      BY <1>t DEF WorkTypes, Files
    <2> QED
      BY <1>4, <1>t, <1>f, <2>1 DEF PersistWrite, ListTypes, lists
  <1>5. CASE Restart
    <2>1. file' \in Files
      BY <1>5, <1>t, <1>f DEF Restart, ListTypes
    <2>2. strikes' = [q \in Paths |-> 0] /\ tokenStrikes' = [t \in Tokens |-> 0] /\ blPaths' = {}
      BY <1>5 DEF Restart
    <2>3. blTokens' \in SUBSET Tokens
      BY <1>5 DEF Restart, LoadTokens
    <2> QED
      BY <2>1, <2>2, <2>3 DEF ListTypes
  <1>6. CASE UNCHANGED <<lists, file>>
    BY <1>6, <1>t DEF ListTypes, lists
  <1> QED
    BY <1>1, <1>2, <1>3, <1>4, <1>5, <1>6
       DEF TxNext, TxStep, TxSeed, TxSkipLow, TxTake, TxPreflight, TxSubmit, TxSkipStart,
           PersistRead, DeliverAny, NewBlock, Execute, TxRest, txVars

\* The chain and the sequencer.
LEMMA StepWorld == TxTypeOK /\ [TxNext]_txVars => WorldTypes'
  <1> SUFFICES ASSUME TxTypeOK, [TxNext]_txVars PROVE WorldTypes'
    OBVIOUS
  <1>t. WorldTypes /\ nonce \in Nat
    BY DEF TxTypeOK, WorkTypes
  <1>1. CASE TxSubmit
    BY <1>1, <1>t DEF TxSubmit, WorldTypes
  <1>2. CASE Restart
    BY <1>2, <1>t DEF Restart, WorldTypes
  <1>3. CASE DeliverAny
    BY <1>3, <1>t DEF DeliverAny, Deliver, WorldTypes
  <1>4. CASE NewBlock \/ Execute
    <2>1. CASE NewBlock
      BY <2>1, <1>t DEF NewBlock, WorldTypes
    <2>2. CASE Execute
      BY <2>2, <1>t DEF Execute, WorldTypes
    <2> QED
      BY <1>4, <2>1, <2>2
  <1>5. CASE UNCHANGED world
    BY <1>5, <1>t DEF world, WorldTypes
  <1> QED
    BY <1>1, <1>2, <1>3, <1>4, <1>5
       DEF TxNext, TxStep, TxSeed, TxSkipLow, TxTake, TxPreflight, TxStrikePath, TxSkipStart,
           TxStrikeToken, PersistRead, PersistOpen, PersistWrite, TxRest, txVars

LEMMA StepHistory == TxTypeOK /\ [TxNext]_txVars => HistoryTypes'
  <1> SUFFICES ASSUME TxTypeOK, [TxNext]_txVars PROVE HistoryTypes'
    OBVIOUS
  <1>t. WorkTypes /\ HistoryTypes
    BY DEF TxTypeOK
  <1>1. ASSUME NEW o \in Outcomes, TxPreflight(o) PROVE HistoryTypes'
    <2>1. txJob.path \in Paths
      BY <1>1, <1>t, BusyTypes DEF TxPreflight
    <2>2. fails' \in [Paths -> Nat]
      BY <1>1, <1>t, <2>1 DEF TxPreflight, HistoryTypes
    <2>5. unanswered' \in [Paths -> Nat]
      BY <1>1, <1>t, <2>1 DEF TxPreflight, HistoryTypes
    <2>3. blocked' \in SUBSET Paths
      BY <1>1, <1>t, <2>1 DEF TxPreflight, HistoryTypes
    <2>4. failures' \in [Tokens -> Nat]
      BY <1>1, <1>t DEF TxPreflight, HistoryTypes
    <2> QED
      BY <1>1, <1>t, <2>2, <2>3, <2>4, <2>5 DEF TxPreflight, HistoryTypes
  <1>2. CASE TxSubmit
    BY <1>2, <1>t DEF TxSubmit, HistoryTypes
  <1>3. CASE Restart
    BY <1>3, <1>t DEF Restart, HistoryTypes
  <1>4. CASE UNCHANGED history
    BY <1>4, <1>t DEF history, HistoryTypes
  <1> QED
    BY <1>1, <1>2, <1>3, <1>4
       DEF TxNext, TxStep, TxSeed, TxSkipLow, TxTake, TxStrikePath, TxSkipStart,
           TxStrikeToken, PersistRead, PersistOpen, PersistWrite, DeliverAny, NewBlock,
           Execute, TxRest, txVars

\* Every variable of the transaction sender keeps its type; in particular a
\* busy worker's position is always one of its path's token positions, so
\* striking and persisting never run past the path (run, lines 345 to 366 of
\* tx_sender_pipeline.rs).
THEOREM TxTypeCorrect == TxSpec => []TxTypeOK
  <1>1. TxTypeOK /\ [TxNext]_txVars => TxTypeOK'
    BY StepWork, StepLists, StepWorld, StepHistory DEF TxTypeOK
  <1> QED
    BY <1>1, InitTypes, PTL DEF TxSpec

-----------------------------------------------------------------------------
(* The toxic-token file *)

\* FileIsBlacklist with what holds while the file is being rewritten: the new
\* token is not in the file yet, then the list to be written is complete.
FileInv ==
    /\ FileIsBlacklist
    /\ txPc = "read" => LoadTokens(file) \cup {Token} = blTokens
    /\ txPc \in {"open", "write"} => addresses \cap Tokens = blTokens

LEMMA StepFile ==
    ASSUME DiskMayFail = FALSE
    PROVE  TxTypeOK /\ FileInv /\ [TxNext]_txVars => FileInv'
  <1> SUFFICES ASSUME TxTypeOK, FileInv, [TxNext]_txVars PROVE FileInv'
    OBVIOUS
  <1>t. WorkTypes /\ ListTypes
    BY DEF TxTypeOK
  \* A step that keeps the file and the blacklist and stays outside the rewrite.
  <1>k. ASSUME ~Persisting, file' = file, blTokens' = blTokens,
               txPc' \notin {"read", "open", "write"}
        PROVE  FileInv'
    BY <1>k DEF FileInv, FileIsBlacklist, Persisting, LoadTokens
  <1>n. ASSUME NextToken \/ Finish PROVE txPc' \notin {"read", "open", "write"}
    BY <1>n DEF NextToken, Finish
  <1>1. CASE TxSeed \/ TxSkipLow \/ TxTake
    BY <1>1, <1>k DEF TxSeed, TxSkipLow, TxTake, Persisting, lists
  <1>2. ASSUME NEW o \in Outcomes, TxPreflight(o) PROVE FileInv'
    <2>1. ~Persisting /\ file' = file /\ blTokens' = blTokens
      BY <1>2 DEF TxPreflight, Persisting, lists
    <2>2. txPc' \notin {"read", "open", "write"}
      BY <1>2, <1>n DEF TxPreflight
    <2> QED
      BY <2>1, <2>2, <1>k
  <1>3. CASE TxSubmit \/ TxStrikePath \/ TxSkipStart
    <2>1. ~Persisting /\ file' = file /\ blTokens' = blTokens
      BY <1>3 DEF TxSubmit, TxStrikePath, TxSkipStart, Persisting, lists
    <2>2. txPc' \notin {"read", "open", "write"}
      BY <1>3, <1>n DEF TxSubmit, TxStrikePath, TxSkipStart
    <2> QED
      BY <2>1, <2>2, <1>k
  <1>4. CASE TxStrikeToken
    <2>1. ~Persisting /\ file' = file
      BY <1>4 DEF TxStrikeToken, Persisting
    <2>2. CASE blTokens' = blTokens /\ NextToken
      BY <2>1, <2>2, <1>k, <1>n
    <2>3. CASE blTokens' = blTokens \cup {Token} /\ txPc' = "read" /\ UNCHANGED work
      <3>1. Token' = Token
        BY <2>3 DEF Token, work
      <3>2. LoadTokens(file) = blTokens
        BY <2>1 DEF FileInv, FileIsBlacklist
      <3> QED
        BY <2>1, <2>3, <3>1, <3>2 DEF FileInv, FileIsBlacklist, Persisting, LoadTokens
    <2> QED
      BY <1>4, <2>2, <2>3 DEF TxStrikeToken
  <1>5. CASE PersistRead
    <2>1. /\ txPc = "read" /\ txPc' = "open" /\ file' = file /\ blTokens' = blTokens
          /\ addresses' = ReadAddresses(file) \cup {Token}
      BY <1>5 DEF PersistRead, lists
    <2>2. Token \in Tokens
      BY <1>t, <2>1, BusyTypes
    <2>3. ReadAddresses(file) \cap Tokens = LoadTokens(file)
      BY TxSenderAssumption DEF ReadAddresses, LoadTokens, Junk
    <2>4. addresses' \cap Tokens = blTokens
      BY <2>1, <2>2, <2>3 DEF FileInv
    <2> QED
      BY <2>1, <2>4 DEF FileInv, FileIsBlacklist, Persisting
  <1>6. CASE PersistOpen
    BY <1>6 DEF PersistOpen, FileInv, FileIsBlacklist, Persisting, lists, work
  <1>7. CASE PersistWrite
    <2>1. /\ txPc = "write" /\ file' = [toml |-> TRUE, entries |-> addresses]
          /\ blTokens' = blTokens /\ NextToken
      BY <1>7 DEF PersistWrite, lists
    <2>2. LoadTokens(file') = addresses \cap Tokens
      BY <2>1 DEF LoadTokens
    <2> QED
      BY <2>1, <2>2, <1>n DEF FileInv, FileIsBlacklist
  <1>8. CASE Restart
    BY <1>8 DEF Restart, FileInv, FileIsBlacklist, LoadTokens
  <1>9. CASE DeliverAny \/ NewBlock \/ Execute \/ UNCHANGED txVars
    <2>1. /\ file' = file /\ blTokens' = blTokens /\ txPc' = txPc /\ addresses' = addresses
          /\ Token' = Token
      BY <1>9 DEF DeliverAny, NewBlock, Execute, txVars, lists, work, Token
    <2> QED
      BY <2>1 DEF FileInv, FileIsBlacklist, Persisting, LoadTokens
  <1> QED
    BY <1>1, <1>2, <1>3, <1>4, <1>5, <1>6, <1>7, <1>8, <1>9 DEF TxNext, TxStep, TxRest

\* As long as the disk works, the toxic-token file and the blacklist agree
\* whenever the blacklist's lock is free, whatever the initial file looks like
\* and wherever the process is killed.
THEOREM FileAgrees ==
    ASSUME DiskMayFail = FALSE
    PROVE  TxSpec => []FileIsBlacklist
  <1>1. TxInit => FileInv
    BY DEF TxInit, FileInv, FileIsBlacklist, LoadTokens
  <1>2. TxTypeOK /\ FileInv /\ [TxNext]_txVars => FileInv'
    BY StepFile
  <1>3. FileInv => FileIsBlacklist
    BY DEF FileInv
  <1> QED
    BY <1>1, <1>2, <1>3, TxTypeCorrect, PTL DEF TxSpec

-----------------------------------------------------------------------------
(* Nonces *)

LEMMA StepNonce == TxTypeOK /\ NonceGapFree /\ [TxNext]_txVars => NonceGapFree'
  <1> SUFFICES ASSUME TxTypeOK, NonceGapFree, [TxNext]_txVars PROVE NonceGapFree'
    OBVIOUS
  <1>t. mined \in Nat /\ nonce \in Nat
    BY DEF TxTypeOK, WorldTypes, WorkTypes
  <1>1. CASE TxSeed
    <2>1. nonce' \in {mined, 0} /\ mined' = mined
      BY <1>1 DEF TxSeed, world
    <2>2. CASE nonce' = mined
      <3>1. mined .. mined - 1 = {}
        BY <1>t
      <3> QED
        BY <2>1, <2>2, <3>1 DEF NonceGapFree
    <2>3. CASE nonce' = 0
      <3>1. mined .. 0 - 1 = {}
        BY <1>t
      <3> QED
        BY <2>1, <2>3, <3>1 DEF NonceGapFree
    <2> QED
      BY <2>1, <2>2, <2>3
  <1>2. CASE TxSubmit
    <2>1. mined' = mined /\ nonce' = nonce + 1
      BY <1>2 DEF TxSubmit
    <2>2. CASE pool' = pool \cup {nonce} /\ refused' = refused
      <3>1. mined' .. nonce' - 1 \subseteq (mined .. nonce - 1) \cup {nonce}
        BY <2>1, <1>t
      <3> QED
        BY <2>2, <3>1 DEF NonceGapFree
    <2>3. CASE refused' = TRUE
      BY <2>3 DEF NonceGapFree
    <2> QED
      BY <1>2, <2>2, <2>3 DEF TxSubmit
  <1>3. CASE Restart
    <2>1. mined' = mined /\ nonce' = 0
      BY <1>3 DEF Restart
    <2>2. mined' .. nonce' - 1 = {}
      BY <2>1, <1>t
    <2> QED
      BY <2>2 DEF NonceGapFree
  <1>4. CASE Execute
    <2>1. mined' = mined + 1 /\ pool' = pool \ {mined} /\ nonce' = nonce /\ refused' = refused
      BY <1>4 DEF Execute, history
    <2>2. mined' .. nonce' - 1 \subseteq (mined .. nonce - 1) \ {mined}
      BY <2>1, <1>t
    <2> QED
      BY <2>1, <2>2 DEF NonceGapFree
  <1>5. CASE UNCHANGED <<mined, nonce, pool, refused>>
    BY <1>5 DEF NonceGapFree
  <1> QED
    BY <1>1, <1>2, <1>3, <1>4, <1>5
       DEF TxNext, TxStep, TxSkipLow, TxTake, TxPreflight, TxStrikePath, TxSkipStart,
           TxStrikeToken, PersistRead, PersistOpen, PersistWrite, DeliverAny, NewBlock,
           TxRest, world, history, txVars

\* Whatever fails and however often the process restarts, a transaction waits
\* for an earlier nonce only after one was refused or lost: while none was, all
\* nonces between the account's and the next one to be signed are pending.
THEOREM NoncesLeaveNoGap == TxSpec => []NonceGapFree
  <1>1. TxInit => NonceGapFree
    BY DEF TxInit, NonceGapFree
  <1> QED
    BY <1>1, StepNonce, TxTypeCorrect, PTL DEF TxSpec

-----------------------------------------------------------------------------
(* Strikes *)

\* Each strike of a path that never failed in a token transfer is a failed
\* preflight of its own, counting the failure that is about to be struck.
StrikeInv ==
    /\ BlacklistedForFailures
    /\ \A q \in Paths :
         \/ q \in blocked
         \/ /\ strikes[q] <= fails[q]
            /\ txPc = "strikePath" /\ txJob.path = q => strikes[q] < fails[q]
    /\ txPc = "strikePath" /\ instant => txJob.path \in blocked

LEMMA StepStrikes == TxTypeOK /\ StrikeInv /\ [TxNext]_txVars => StrikeInv'
  <1> SUFFICES ASSUME TxTypeOK, StrikeInv, [TxNext]_txVars PROVE StrikeInv'
    OBVIOUS
  <1>t. /\ WorkTypes
        /\ strikes \in [Paths -> Nat] /\ fails \in [Paths -> Nat]
        /\ blPaths \subseteq Paths /\ StrikeThreshold \in Nat \ {0}
    BY TxSenderAssumption DEF TxTypeOK, ListTypes, HistoryTypes
  \* A step that strikes no path and is not about to.
  <1>k. ASSUME strikes' = strikes, fails' = fails, blPaths' = blPaths,
               blocked' = blocked, txPc' # "strikePath"
        PROVE  StrikeInv'
    BY <1>k DEF StrikeInv, BlacklistedForFailures
  <1>n. ASSUME NextToken \/ Finish PROVE txPc' # "strikePath"
    BY <1>n DEF NextToken, Finish
  <1>1. CASE TxSeed \/ TxSkipLow \/ TxTake
    BY <1>1, <1>k DEF TxSeed, TxSkipLow, TxTake, lists, history
  <1>2. ASSUME NEW o \in Outcomes, TxPreflight(o) PROVE StrikeInv'
    <2>1. strikes' = strikes /\ blPaths' = blPaths /\ txPc = "preflight"
      BY <1>2 DEF TxPreflight, lists
    <2>2. CASE txPc' # "strikePath" /\ UNCHANGED <<fails, blocked>>
      BY <2>1, <2>2, <1>k
    <2>3. CASE /\ txPc' = "strikePath" /\ txJob' = txJob /\ instant' = (o \in Instant)
               /\ fails' = [fails EXCEPT ![txJob.path] = @ + 1]
               /\ blocked' = IF o \in Instant THEN blocked \cup {txJob.path} ELSE blocked
      <3>1. txJob.path \in Paths
        BY <1>t, <2>1, BusyTypes
      <3>2. \A q \in Paths : fails'[q] = IF q = txJob.path THEN fails[q] + 1 ELSE fails[q]
        BY <1>t, <2>3
      <3>3. blocked \subseteq blocked'
        BY <2>3
      <3>4. \A q \in Paths :
              \/ q \in blocked'
              \/ /\ strikes'[q] <= fails'[q]
                 /\ txJob'.path = q => strikes'[q] < fails'[q]
        BY <1>t, <2>1, <2>3, <3>2, <3>3 DEF StrikeInv
      <3>5. BlacklistedForFailures'
        BY <1>t, <2>1, <3>2, <3>3 DEF StrikeInv, BlacklistedForFailures
      <3>6. instant' => txJob'.path \in blocked'
        BY <2>3
      <3> QED
        BY <3>4, <3>5, <3>6 DEF StrikeInv
    <2>5. CASE o = "ok" /\ txPc' = "submit" /\ UNCHANGED <<work, fails, blocked>>
      BY <2>2, <2>5
    <2>6. CASE UNCHANGED <<txPc, fails, blocked>>
      BY <2>1, <2>2, <2>6
    <2>7. CASE Finish /\ UNCHANGED <<fails, blocked>>
      BY <1>n, <2>2, <2>7
    <2> QED
      BY <1>2, <2>3, <2>5, <2>6, <2>7 DEF TxPreflight
  <1>3. CASE TxStrikePath
    <2>1. /\ txPc = "strikePath" /\ txPc' = "strikeToken"
          /\ strikes' = [strikes EXCEPT ![txJob.path] = Struck(@)]
          /\ blPaths' = IF strikes'[txJob.path] >= StrikeThreshold
                          THEN blPaths \cup {txJob.path} ELSE blPaths
          /\ fails' = fails /\ blocked' = blocked
      BY <1>3 DEF TxStrikePath, history
    <2>2. txJob.path \in Paths
      BY <1>t, <2>1, BusyTypes
    <2>3. txJob.path \in blocked \/ (strikes'[txJob.path] = strikes[txJob.path] + 1
                                       /\ strikes[txJob.path] < fails[txJob.path])
      BY <1>t, <2>1, <2>2 DEF StrikeInv, Struck
    <2>4. \A q \in Paths : q \in blocked \/ strikes'[q] <= fails[q]
      BY <1>t, <2>1, <2>2, <2>3 DEF StrikeInv
    <2>5. \A q \in blPaths' : fails[q] >= StrikeThreshold \/ q \in blocked
      BY <1>t, <2>1, <2>2, <2>3 DEF StrikeInv, BlacklistedForFailures
    <2> QED
      BY <2>1, <2>4, <2>5 DEF StrikeInv, BlacklistedForFailures
  <1>4. CASE TxSubmit \/ TxSkipStart \/ TxStrikeToken \/ PersistRead \/ PersistOpen \/ PersistWrite
    <2>1. strikes' = strikes /\ fails' = fails /\ blPaths' = blPaths /\ blocked' = blocked
      BY <1>4 DEF TxSubmit, TxSkipStart, TxStrikeToken, PersistRead, PersistOpen,
                  PersistWrite, lists, history
    <2>2. txPc' # "strikePath"
      BY <1>4, <1>n DEF TxSubmit, TxSkipStart, TxStrikeToken, PersistRead, PersistOpen,
                        PersistWrite
    <2> QED
      BY <2>1, <2>2, <1>k
  <1>5. CASE Restart
    <2>1. /\ strikes' = [q \in Paths |-> 0] /\ blPaths' = {} /\ txPc' = "seed"
          /\ fails' = fails
      BY <1>5 DEF Restart
    <2> QED
      BY <1>t, <2>1 DEF StrikeInv, BlacklistedForFailures
  <1>6. CASE DeliverAny \/ NewBlock \/ Execute \/ UNCHANGED txVars
    <2>1. UNCHANGED <<strikes, fails, blPaths, blocked, txPc, txJob, instant>>
      BY <1>6 DEF DeliverAny, NewBlock, Execute, txVars, lists, history, work
    <2> QED
      BY <2>1 DEF StrikeInv, BlacklistedForFailures
  <1> QED
    BY <1>1, <1>2, <1>3, <1>4, <1>5, <1>6 DEF TxNext, TxStep, TxRest

\* A path is blacklisted only after strike_threshold failed preflights of its
\* own, unanswered ones included, or one that failed in a token transfer: for
\* every threshold, number of providers and interleaving with other paths'
\* strikes, with requests and disk operations that fail and with restarts.
THEOREM OnlyFailuresBlacklist == TxSpec => []BlacklistedForFailures
  <1>1. TxInit => StrikeInv
    BY DEF TxInit, StrikeInv, BlacklistedForFailures
  <1>2. TxTypeOK /\ StrikeInv /\ [TxNext]_txVars => StrikeInv'
    BY StepStrikes
  <1>3. StrikeInv => BlacklistedForFailures
    BY DEF StrikeInv
  <1> QED
    BY <1>1, <1>2, <1>3, TxTypeCorrect, PTL DEF TxSpec

-----------------------------------------------------------------------------
(* Token strikes *)

NoRepeats(q) == \A i, j \in 1 .. Len(q) : q[i] = q[j] => i = j

\* Positions from i on at which a failed path counts against t.
Ahead(q, t, i) == {j \in i .. 2 * Len(q) : StepTokens(q)[j] = t}

\* A token in the middle of a path is the token_out of a step and the token_in
\* of the next one; the path's first token is that of the first and last step.
LEMMA AtMostTwice ==
    ASSUME NEW q \in Paths, NoRepeats(q), NEW t
    PROVE  /\ IsFiniteSet(Ahead(q, t, 1))
           /\ Cardinality(Ahead(q, t, 1)) <= 2
           /\ t \notin Range(q) => Ahead(q, t, 1) = {}
  <1> DEFINE L == Len(q)
             At(j) == ((j \div 2) % L) + 1
  <1>1. L \in Nat \ {0} /\ q \in Seq(Tokens)
    BY StepTokensType, TxSenderAssumption
  <1>2. ASSUME NEW j \in 1 .. 2 * L
        PROVE  /\ At(j) \in 1 .. L
               /\ StepTokens(q)[j] = q[At(j)]
               /\ At(j) = 1 => j \in {1, 2 * L}
               /\ At(j) # 1 => j \in {2 * (At(j) - 1), 2 * (At(j) - 1) + 1}
    <2>1. j \div 2 \in 0 .. L /\ j \in {2 * (j \div 2), 2 * (j \div 2) + 1}
      BY <1>1
    <2>2. CASE j \div 2 = L
      <3>1. L % L = 0
        BY <1>1
      <3>2. At(j) = 1 /\ j = 2 * L
        BY <1>1, <2>1, <2>2, <3>1
      <3> QED
        BY <1>1, <3>2 DEF StepTokens
    <2>3. CASE j \div 2 # L
      <3>1. j \div 2 \in 0 .. L - 1
        BY <1>1, <2>1, <2>3
      <3>2. (j \div 2) % L = j \div 2
        BY <1>1, <3>1
      <3>3. At(j) = j \div 2 + 1 /\ At(j) \in 1 .. L
        BY <1>1, <3>1, <3>2
      <3> QED
        BY <1>1, <2>1, <3>1, <3>3 DEF StepTokens
    <2> QED
      BY <2>2, <2>3
  <1>3. ASSUME NEW k \in 1 .. L, q[k] = t
        PROVE  \E a, b : Ahead(q, t, 1) \subseteq {a, b}
    <2>1. ASSUME NEW j \in Ahead(q, t, 1) PROVE j \in 1 .. 2 * L /\ At(j) = k
      BY <1>2, <1>3, <2>1 DEF Ahead, NoRepeats
    <2>2. CASE k = 1
      <3>1. Ahead(q, t, 1) \subseteq {1, 2 * L}
        BY <1>2, <2>1, <2>2
      <3> QED
        BY <3>1
    <2>3. CASE k # 1
      <3>1. ASSUME NEW j \in Ahead(q, t, 1) PROVE j \in {2 * (k - 1), 2 * (k - 1) + 1}
        <4>1. j \in 1 .. 2 * L /\ At(j) = k
          BY <2>1, <3>1
        <4>2. At(j) # 1 => j \in {2 * (At(j) - 1), 2 * (At(j) - 1) + 1}
          BY <1>2, <4>1
        <4> HIDE DEF At
        <4> QED
          BY <2>3, <4>1, <4>2
      <3> QED
        BY <3>1
    <2> QED
      BY <2>2, <2>3
  <1>4. CASE \E k \in 1 .. L : q[k] = t
    <2>1. PICK a, b : Ahead(q, t, 1) \subseteq {a, b}
      BY <1>3, <1>4
    <2>2. IsFiniteSet({a, b}) /\ Cardinality({a, b}) <= 2
      <3>1. IsFiniteSet({a}) /\ Cardinality({a}) = 1
        BY FS_Singleton
      <3>2. {a, b} = {a} \cup {b}
        OBVIOUS
      <3> QED
        BY <3>1, <3>2, FS_AddElement
    <2>3. /\ IsFiniteSet(Ahead(q, t, 1))
          /\ Cardinality(Ahead(q, t, 1)) <= Cardinality({a, b})
      BY <2>1, <2>2, FS_Subset
    <2>4. Cardinality(Ahead(q, t, 1)) \in Nat /\ Cardinality({a, b}) \in Nat
      BY <2>2, <2>3, FS_CardinalityType
    <2>5. t \in Range(q)
      BY <1>1, <1>4 DEF Range
    <2> QED
      BY <2>2, <2>3, <2>4, <2>5
  <1>5. CASE ~ \E k \in 1 .. L : q[k] = t
    <2>1. Ahead(q, t, 1) = {}
      BY <1>2, <1>5 DEF Ahead
    <2> QED
      BY <2>1, FS_EmptySet
  <1> QED
    BY <1>4, <1>5

\* Going on by one position passes the token there, if it is t.
LEMMA AheadStep ==
    ASSUME NEW q \in Paths, NoRepeats(q), NEW t, NEW i \in 1 .. 2 * Len(q)
    PROVE  /\ Cardinality(Ahead(q, t, i)) \in Nat
           /\ Cardinality(Ahead(q, t, i + 1)) \in Nat
           /\ Cardinality(Ahead(q, t, i))
                = Cardinality(Ahead(q, t, i + 1)) + (IF StepTokens(q)[i] = t THEN 1 ELSE 0)
  <1>1. Len(q) \in Nat \ {0}
    BY StepTokensType
  <1>2. Ahead(q, t, i) \subseteq Ahead(q, t, 1) /\ Ahead(q, t, i + 1) \subseteq Ahead(q, t, 1)
    BY <1>1 DEF Ahead
  <1>3. IsFiniteSet(Ahead(q, t, i)) /\ IsFiniteSet(Ahead(q, t, i + 1))
    BY <1>2, AtMostTwice, FS_Subset
  <1>6. Cardinality(Ahead(q, t, i)) \in Nat /\ Cardinality(Ahead(q, t, i + 1)) \in Nat
    BY <1>3, FS_CardinalityType
  <1>4. ASSUME StepTokens(q)[i] = t
        PROVE  Cardinality(Ahead(q, t, i)) = Cardinality(Ahead(q, t, i + 1)) + 1
    <2>1. Ahead(q, t, i) = Ahead(q, t, i + 1) \cup {i} /\ i \notin Ahead(q, t, i + 1)
      BY <1>1, <1>4 DEF Ahead
    <2> HIDE DEF Ahead
    <2> QED
      BY <1>3, <2>1, FS_AddElement
  <1>5. ASSUME StepTokens(q)[i] # t PROVE Ahead(q, t, i) = Ahead(q, t, i + 1)
    BY <1>1, <1>5 DEF Ahead
  <1>7. Cardinality(Ahead(q, t, i))
          = Cardinality(Ahead(q, t, i + 1)) + (IF StepTokens(q)[i] = t THEN 1 ELSE 0)
    BY <1>4, <1>5, <1>6
  <1> QED
    BY <1>6, <1>7

\* The tokens counted against a path are on it.
LEMMA TokenOnPath ==
    ASSUME NEW q \in Paths, NEW i \in 1 .. 2 * Len(q)
    PROVE  StepTokens(q)[i] \in Range(q)
  <1>1. q \in Seq(Tokens) /\ Len(q) \in Nat \ {0}
    BY StepTokensType, TxSenderAssumption
  <1>2. i \div 2 \in Nat
    BY <1>1
  <1>3. ((i \div 2) % Len(q)) + 1 \in 1 .. Len(q)
    BY <1>1, <1>2
  <1> QED
    BY <1>1, <1>3 DEF StepTokens, Range

\* Strikes that the failed path at hand has still to count against t.
Owed(t) ==
    IF txPc \in {"strikePath", "strikeToken"} THEN Cardinality(Ahead(txJob.path, t, txIdx))
    ELSE IF Persisting THEN Cardinality(Ahead(txJob.path, t, txIdx + 1))
    ELSE 0

Clean(t) == \A q \in blocked : t \notin Range(q)
Listed == Tokens \cap (blTokens \cup file.entries \cup addresses)

\* The instant flag is that of the path at hand, whose tokens are counted from
\* the first one on; a token is on the blacklist before the file is rewritten.
JobInv ==
    /\ txPc \in {"seed", "recv", "preflight", "submit"} => ~instant
    /\ txPc \in {"preflight", "submit", "strikePath"} => txIdx = 1
    /\ instant => txJob.path \in blocked
    /\ Persisting => Token \in blTokens

\* The strikes of a token on no path that failed in a transfer, those still to
\* come included, are at most two for each failure, and what is listed anywhere
\* is not innocent.
CountInv ==
    /\ \A t \in Tokens : Clean(t) => tokenStrikes[t] + Owed(t) <= 2 * failures[t]
    /\ \A t \in Listed : ~Innocent(t, 2 * failures[t])

LEMMA OwedType ==
    ASSUME TxTypeOK, \A q \in Paths : NoRepeats(q), NEW t \in Tokens
    PROVE  Owed(t) \in Nat
  <1>1. CASE txPc \in {"strikePath", "strikeToken"}
    BY <1>1, BusyTypes, AheadStep DEF TxTypeOK, WorkTypes, Owed
  <1>2. CASE Persisting
    <2>1. txPc \notin {"seed", "recv"} /\ txPc \notin {"strikePath", "strikeToken"}
      BY <1>2 DEF Persisting
    <2>2. Cardinality(Ahead(txJob.path, t, txIdx + 1)) \in Nat
      BY <2>1, BusyTypes, AheadStep DEF TxTypeOK, WorkTypes
    <2> QED
      BY <1>2, <2>1, <2>2 DEF Owed
  <1>3. CASE ~Persisting /\ txPc \notin {"strikePath", "strikeToken"}
    BY <1>3 DEF Owed
  <1> QED
    BY <1>1, <1>2, <1>3

\* Past the token at hand, what is owed are the strikes after it.
LEMMA NextTokenOwes ==
    ASSUME TxTypeOK, \A q \in Paths : NoRepeats(q), NEW t \in Tokens,
           txPc \notin {"seed", "recv"}, NextToken
    PROVE  Owed(t)' = Cardinality(Ahead(txJob.path, t, txIdx + 1))
  <1>1. txJob.path \in Paths /\ Len(txJob.path) \in Nat /\ txIdx \in 1 .. 2 * Len(txJob.path)
    BY BusyTypes DEF TxTypeOK, WorkTypes
  <1>2. CASE txIdx < 2 * Len(txJob.path)
    <2>1. txPc' = "strikeToken" /\ txIdx' = txIdx + 1 /\ txJob' = txJob
      BY <1>2 DEF NextToken
    <2>2. Ahead(txJob.path, t, txIdx)' = Ahead(txJob.path, t, txIdx + 1)
      BY <2>1 DEF Ahead, StepTokens
    <2>3. Cardinality(Ahead(txJob.path, t, txIdx))' = Cardinality(Ahead(txJob.path, t, txIdx + 1))
      BY <2>2
    <2> QED
      BY <2>1, <2>3 DEF Owed
  <1>3. CASE ~(txIdx < 2 * Len(txJob.path))
    <2>1. txPc' = "recv"
      BY <1>3 DEF NextToken, Finish
    <2>2. Owed(t)' = 0
      BY <2>1 DEF Owed, Persisting
    <2>3. txIdx = 2 * Len(txJob.path)
      BY <1>1, <1>3
    <2>4. Ahead(txJob.path, t, txIdx + 1) = {}
      BY <1>1, <2>3 DEF Ahead
    <2>5. Cardinality(Ahead(txJob.path, t, txIdx + 1)) = 0
      BY <2>4, FS_EmptySet
    <2> QED
      BY <2>2, <2>5
  <1> QED
    BY <1>2, <1>3

\* Innocence is only lost.
LEMMA InnocenceIsLost ==
    ASSUME NEW t \in Tokens, failures[t] \in Nat, failures'[t] \in Nat,
           failures[t] <= failures'[t], blocked \subseteq blocked'
    PROVE  /\ ~Innocent(t, 2 * failures[t]) => ~Innocent(t, 2 * failures[t])'
           /\ Clean(t)' => Clean(t)
  <1>1. StrikeThreshold \in Nat
    BY TxSenderAssumption
  <1> QED
    BY <1>1 DEF Innocent, Clean

\* A step that fails no path, counts no token and lists none, and after which
\* no more strikes are to come.
LEMMA StepKeepsTokens ==
    ASSUME TxTypeOK, CountInv, \A q \in Paths : NoRepeats(q),
           UNCHANGED <<failures, blocked, blTokens>>,
           file'.entries \cap Tokens \subseteq Listed,
           addresses' \cap Tokens \subseteq Listed,
           \/ UNCHANGED tokenStrikes
           \/ tokenStrikes' = [t \in Tokens |-> 0],
           \A t \in Tokens : Owed(t)' \in Nat /\ Owed(t)' <= Owed(t)
    PROVE  CountInv'
  <1>1. ASSUME NEW t \in Tokens, Clean(t)'
        PROVE  tokenStrikes'[t] + Owed(t)' <= 2 * failures'[t]
    <2>1. Clean(t)
      BY <1>1 DEF Clean
    <2>2. /\ tokenStrikes[t] + Owed(t) <= 2 * failures[t] /\ tokenStrikes[t] \in Nat
          /\ failures[t] \in Nat /\ failures' = failures
      BY <2>1 DEF CountInv, TxTypeOK, ListTypes, HistoryTypes
    <2>3. tokenStrikes'[t] \in {tokenStrikes[t], 0}
      OBVIOUS
    <2>4. Owed(t) \in Nat /\ Owed(t)' \in Nat /\ Owed(t)' <= Owed(t)
      BY OwedType
    <2> QED
      BY <2>2, <2>3, <2>4
  <1>2. ASSUME NEW t \in Listed' PROVE ~Innocent(t, 2 * failures[t])'
    <2>1. t \in Listed /\ t \in Tokens
      BY <1>2 DEF Listed
    <2>2. ~Innocent(t, 2 * failures[t])
      BY <2>1 DEF CountInv
    <2> QED
      BY <2>2 DEF Innocent
  <1> QED
    BY <1>1, <1>2 DEF CountInv

LEMMA StepJob == TxTypeOK /\ JobInv /\ [TxNext]_txVars => JobInv'
  <1> SUFFICES ASSUME TxTypeOK, JobInv, [TxNext]_txVars PROVE JobInv'
    OBVIOUS
  <1>t. WorkTypes
    BY DEF TxTypeOK
  \* A step that goes on to the next token or job.
  <1>n. ASSUME NextToken \/ Finish, blocked \subseteq blocked' PROVE JobInv'
    BY <1>n DEF NextToken, Finish, JobInv, Persisting
  \* A step that stays with the token at hand.
  <1>k. ASSUME UNCHANGED <<txJob, txIdx, instant, blocked>>, blTokens \subseteq blTokens',
               txPc \in {"strikePath", "strikeToken", "read", "open", "write"},
               txPc' \in {"strikeToken", "read", "open", "write"},
               txPc' \in {"read", "open", "write"} => Token \in blTokens'
        PROVE  JobInv'
    <2>1. Token' = Token
      BY <1>k DEF Token
    <2> QED
      BY <1>k, <2>1 DEF JobInv, Persisting
  <1>1. CASE TxSeed \/ TxSkipLow
    BY <1>1 DEF TxSeed, TxSkipLow, JobInv, Persisting, work, history
  <1>2. CASE TxTake
    BY <1>2, <1>t DEF TxTake, JobInv, Persisting, WorkTypes
  <1>3. ASSUME NEW o \in Outcomes, TxPreflight(o) PROVE JobInv'
    <2>1. txPc = "preflight" /\ ~instant /\ txIdx = 1 /\ blocked \subseteq blocked'
      BY <1>3 DEF TxPreflight, JobInv
    <2>2. CASE txPc' \in {"preflight", "submit"} /\ UNCHANGED <<txIdx, instant>>
      BY <2>1, <2>2 DEF JobInv, Persisting
    <2>3. CASE Finish
      BY <2>1, <2>3, <1>n
    <2>4. CASE /\ txPc' = "strikePath" /\ instant' = (o \in Instant)
               /\ blocked' = IF o \in Instant THEN blocked \cup {txJob.path} ELSE blocked
               /\ UNCHANGED <<txJob, txIdx>>
      BY <2>1, <2>4 DEF JobInv, Persisting
    <2> QED
      BY <1>3, <2>1, <2>2, <2>3, <2>4 DEF TxPreflight, work
  <1>4. CASE TxSubmit \/ TxSkipStart
    BY <1>4, <1>n DEF TxSubmit, TxSkipStart, history
  <1>5. CASE TxStrikePath
    BY <1>5, <1>k DEF TxStrikePath, work, history
  <1>6. CASE TxStrikeToken
    <2>1. txPc = "strikeToken" /\ blocked' = blocked
      BY <1>6 DEF TxStrikeToken, history
    <2>2. CASE NextToken
      BY <2>1, <2>2, <1>n
    <2>3. CASE blTokens' = blTokens \cup {Token} /\ txPc' = "read" /\ UNCHANGED work
      BY <2>1, <2>3, <1>k DEF work
    <2> QED
      BY <1>6, <2>2, <2>3 DEF TxStrikeToken
  <1>7. CASE PersistRead \/ PersistOpen \/ PersistWrite
    <2>1. /\ txPc \in {"read", "open", "write"} /\ blocked' = blocked /\ blTokens' = blTokens
          /\ Token \in blTokens
      BY <1>7 DEF PersistRead, PersistOpen, PersistWrite, history, lists, JobInv, Persisting
    <2>2. CASE NextToken
      BY <2>1, <2>2, <1>n
    <2>3. CASE txPc' \in {"open", "write"} /\ UNCHANGED <<txJob, txIdx, instant>>
      BY <2>1, <2>3, <1>k
    <2> QED
      BY <1>7, <2>2, <2>3 DEF PersistRead, PersistOpen, PersistWrite, work
  <1>8. CASE Restart
    BY <1>8 DEF Restart, JobInv, Persisting
  <1>9. CASE DeliverAny \/ NewBlock \/ Execute \/ UNCHANGED txVars
    <2>1. UNCHANGED <<txPc, txJob, txIdx, instant, blocked, blTokens>> /\ Token' = Token
      BY <1>9 DEF DeliverAny, NewBlock, Execute, txVars, lists, history, work, Token
    <2> QED
      BY <2>1 DEF JobInv, Persisting
  <1> QED
    BY <1>1, <1>2, <1>3, <1>4, <1>5, <1>6, <1>7, <1>8, <1>9 DEF TxNext, TxStep, TxRest

LEMMA StepCounts ==
    ASSUME \A q \in Paths : NoRepeats(q)
    PROVE  TxTypeOK /\ JobInv /\ CountInv /\ [TxNext]_txVars => CountInv'
  <1> SUFFICES ASSUME TxTypeOK, JobInv, CountInv, [TxNext]_txVars PROVE CountInv'
    OBVIOUS
  <1>t. /\ WorkTypes
        /\ tokenStrikes \in [Tokens -> Nat] /\ failures \in [Tokens -> Nat]
        /\ blTokens \subseteq Tokens
    BY DEF TxTypeOK, ListTypes, HistoryTypes
  <1>o. ASSUME NEW t \in Tokens PROVE Owed(t) \in Nat
    BY OwedType
  \* A step that leaves counts and lists alone and is not about to strike.
  <1>k. ASSUME UNCHANGED <<tokenStrikes, failures, blocked, blTokens, file>>,
               addresses' \in {addresses, {}},
               txPc' \in {"seed", "recv", "preflight", "submit"}
        PROVE  CountInv'
    <2>1. \A t \in Tokens : Owed(t)' = 0
      BY <1>k DEF Owed, Persisting
    <2>2. /\ file'.entries \cap Tokens \subseteq Listed
          /\ addresses' \cap Tokens \subseteq Listed
      BY <1>k DEF Listed
    <2> QED
      BY <1>k, <1>o, <2>1, <2>2, StepKeepsTokens
  \* A step of the rewrite, which leaves the counts alone and takes what it
  \* lists from the lists.
  <1>p. ASSUME UNCHANGED <<tokenStrikes, failures, blocked, blTokens>>, Persisting,
               file'.entries \cap Tokens \subseteq Listed,
               addresses' \cap Tokens \subseteq Listed,
               NextToken \/ (Persisting' /\ UNCHANGED <<txJob, txIdx>>)
        PROVE  CountInv'
    <2>1. txPc \notin {"seed", "recv", "strikePath", "strikeToken"}
      BY <1>p DEF Persisting
    <2>2. ASSUME NEW t \in Tokens PROVE Owed(t)' = Owed(t)
      <3>1. Owed(t) = Cardinality(Ahead(txJob.path, t, txIdx + 1))
        BY <1>p, <2>1 DEF Owed
      <3>2. CASE NextToken
        BY <2>1, <3>1, <3>2, NextTokenOwes
      <3>3. CASE Persisting' /\ UNCHANGED <<txJob, txIdx>>
        <4>1. txPc' \notin {"strikePath", "strikeToken"}
          BY <3>3 DEF Persisting
        <4>2. Ahead(txJob.path, t, txIdx + 1)' = Ahead(txJob.path, t, txIdx + 1)
          BY <3>3 DEF Ahead, StepTokens
        <4>3. Cardinality(Ahead(txJob.path, t, txIdx + 1))'
                = Cardinality(Ahead(txJob.path, t, txIdx + 1))
          BY <4>2
        <4> QED
          BY <3>1, <3>3, <4>1, <4>3 DEF Owed
      <3> QED
        BY <1>p, <3>2, <3>3
    <2> QED
      BY <1>p, <1>o, <2>2, StepKeepsTokens
  <1>1. CASE TxSeed \/ TxSkipLow \/ TxTake \/ TxSubmit
    BY <1>1, <1>k DEF TxSeed, TxSkipLow, TxTake, TxSubmit, Finish, lists, history, work
  <1>2. ASSUME NEW o \in Outcomes, TxPreflight(o) PROVE CountInv'
    <2>1. /\ UNCHANGED <<tokenStrikes, blTokens, file>>
          /\ txPc = "preflight" /\ txIdx = 1
      BY <1>2 DEF TxPreflight, lists, JobInv
    <2>2. CASE /\ txPc' \in {"recv", "preflight", "submit"}
               /\ UNCHANGED <<blocked, failures>> /\ addresses' \in {addresses, {}}
      BY <2>1, <2>2, <1>k
    <2>3. CASE /\ txPc' = "strikePath"
               /\ blocked' = IF o \in Instant THEN blocked \cup {txJob.path} ELSE blocked
               /\ failures' = [t \in Tokens |-> IF t \in Range(txJob.path)
                                                THEN failures[t] + 1 ELSE failures[t]]
               /\ UNCHANGED <<txJob, txProvider, txIdx, addresses>>
      <3>1. txJob.path \in Paths
        BY <1>t, <2>1, BusyTypes
      <3>2. ASSUME NEW t \in Tokens
            PROVE  /\ failures[t] \in Nat /\ failures'[t] \in Nat
                   /\ failures'[t] = failures[t] + (IF t \in Range(txJob.path) THEN 1 ELSE 0)
        BY <1>t, <2>3
      <3>3. ASSUME NEW t \in Tokens
            PROVE  /\ Owed(t)' \in Nat
                   /\ Owed(t)' <= IF t \in Range(txJob.path) THEN 2 ELSE 0
        <4>1. Ahead(txJob.path, t, txIdx)' = Ahead(txJob.path, t, 1)
          BY <2>1, <2>3 DEF Ahead, StepTokens
        <4>2. Cardinality(Ahead(txJob.path, t, txIdx))' = Cardinality(Ahead(txJob.path, t, 1))
          BY <4>1
        <4>3. Owed(t)' = Cardinality(Ahead(txJob.path, t, 1))
          BY <2>3, <4>2 DEF Owed
        <4>4. /\ IsFiniteSet(Ahead(txJob.path, t, 1))
              /\ Cardinality(Ahead(txJob.path, t, 1)) <= 2
              /\ t \notin Range(txJob.path) => Ahead(txJob.path, t, 1) = {}
          BY <3>1, AtMostTwice
        <4> QED
          BY <4>3, <4>4, FS_CardinalityType, FS_EmptySet
      <3>4. ASSUME NEW t \in Tokens, Clean(t)'
            PROVE  tokenStrikes'[t] + Owed(t)' <= 2 * failures'[t]
        <4>1. Clean(t)
          BY <2>3, <3>4 DEF Clean
        <4>2. tokenStrikes[t] + Owed(t) <= 2 * failures[t] /\ tokenStrikes[t] \in Nat
          BY <1>t, <4>1 DEF CountInv
        <4> QED
          BY <1>o, <2>1, <3>2, <3>3, <4>2
      <3>5. ASSUME NEW t \in Listed' PROVE ~Innocent(t, 2 * failures[t])'
        <4>1. t \in Tokens /\ t \in Listed
          BY <2>1, <2>3, <3>5 DEF Listed
        <4>2. failures[t] <= failures'[t] /\ blocked \subseteq blocked'
          BY <2>3, <3>2, <4>1
        <4> QED
          BY <3>2, <4>1, <4>2, InnocenceIsLost DEF CountInv
      <3> QED
        BY <3>4, <3>5 DEF CountInv
    <2> QED
      BY <1>2, <2>1, <2>2, <2>3 DEF TxPreflight, Finish, work
  <1>3. CASE TxStrikePath
    <2>1. /\ txPc = "strikePath" /\ txPc' = "strikeToken"
          /\ UNCHANGED <<tokenStrikes, failures, blocked, blTokens, file, addresses, txJob, txIdx>>
      BY <1>3 DEF TxStrikePath, work, history
    <2>2. ASSUME NEW t \in Tokens PROVE Owed(t)' = Owed(t)
      <3>1. Ahead(txJob.path, t, txIdx)' = Ahead(txJob.path, t, txIdx)
        BY <2>1 DEF Ahead, StepTokens
      <3>2. Cardinality(Ahead(txJob.path, t, txIdx))' = Cardinality(Ahead(txJob.path, t, txIdx))
        BY <3>1
      <3> QED
        BY <2>1, <3>2 DEF Owed
    <2>3. file'.entries \cap Tokens \subseteq Listed /\ addresses' \cap Tokens \subseteq Listed
      BY <2>1 DEF Listed
    <2> QED
      BY <1>o, <2>1, <2>2, <2>3, StepKeepsTokens
  <1>4. ASSUME NEW t \in Tokens, txPc = "strikeToken"
        PROVE  /\ Cardinality(Ahead(txJob.path, t, txIdx + 1)) \in Nat
               /\ Owed(t) = Cardinality(Ahead(txJob.path, t, txIdx + 1))
                              + (IF Token = t THEN 1 ELSE 0)
    <2>1. txJob.path \in Paths /\ txIdx \in 1 .. 2 * Len(txJob.path)
      BY <1>4, <1>t, BusyTypes DEF WorkTypes
    <2> QED
      BY <1>4, <2>1, AheadStep DEF Owed, Token
  <1>5. CASE TxSkipStart
    <2>1. /\ txPc = "strikeToken" /\ NextToken
          /\ UNCHANGED <<tokenStrikes, failures, blocked, blTokens, file>>
          /\ addresses' = {}
      BY <1>5 DEF TxSkipStart, NextToken, Finish, lists, history
    <2>2. \A t \in Tokens : Owed(t)' \in Nat /\ Owed(t)' <= Owed(t)
      BY <1>4, <2>1, NextTokenOwes
    <2>3. file'.entries \cap Tokens \subseteq Listed /\ addresses' \cap Tokens \subseteq Listed
      BY <2>1 DEF Listed
    <2> QED
      BY <2>1, <2>2, <2>3, StepKeepsTokens
  <1>6. CASE TxStrikeToken
    <2>1. /\ txPc = "strikeToken" /\ UNCHANGED <<failures, blocked, file>>
          /\ tokenStrikes' = [tokenStrikes EXCEPT ![Token] = Struck(@)]
      BY <1>6 DEF TxStrikeToken, history
    <2>2. Token \in Tokens /\ Token \in Range(txJob.path)
      <3>1. txJob.path \in Paths /\ txIdx \in 1 .. 2 * Len(txJob.path)
        BY <2>1, <1>t, BusyTypes DEF WorkTypes
      <3> QED
        BY <3>1, StepTokensType, TokenOnPath DEF Token
    <2>3. ASSUME NEW t \in Tokens
          PROVE  Owed(t)' = Cardinality(Ahead(txJob.path, t, txIdx + 1))
      <3>1. CASE NextToken
        BY <2>1, <3>1, NextTokenOwes
      <3>2. CASE txPc' = "read" /\ UNCHANGED work
        <4>1. Ahead(txJob.path, t, txIdx + 1)' = Ahead(txJob.path, t, txIdx + 1)
          BY <3>2 DEF Ahead, StepTokens, work
        <4>2. Cardinality(Ahead(txJob.path, t, txIdx + 1))'
                = Cardinality(Ahead(txJob.path, t, txIdx + 1))
          BY <4>1
        <4> QED
          BY <3>2, <4>2 DEF Owed, Persisting
      <3> QED
        BY <1>6, <3>1, <3>2 DEF TxStrikeToken
    <2>4. ASSUME NEW t \in Tokens, Clean(t)
          PROVE  /\ tokenStrikes'[t] \in Nat /\ Owed(t)' \in Nat
                 /\ tokenStrikes'[t] + Owed(t)' <= 2 * failures[t]
      <3>1. tokenStrikes[t] + Owed(t) <= 2 * failures[t] /\ tokenStrikes[t] \in Nat
        BY <1>t, <2>4 DEF CountInv
      <3>2. CASE t = Token
        <4>1. ~instant
          BY <2>2, <2>4, <3>2 DEF JobInv, Clean
        <4>2. tokenStrikes'[t] = tokenStrikes[t] + 1
          BY <1>t, <2>1, <3>2, <4>1 DEF Struck
        <4> QED
          BY <1>t, <1>4, <2>1, <2>3, <3>1, <3>2, <4>2
      <3>3. CASE t # Token
        <4>1. tokenStrikes'[t] = tokenStrikes[t]
          BY <1>t, <2>1, <3>3
        <4> QED
          BY <1>t, <1>4, <2>1, <2>3, <3>1, <3>3, <4>1
      <3> QED
        BY <3>2, <3>3
    <2>5. ASSUME NEW t \in Listed' PROVE ~Innocent(t, 2 * failures[t])'
      <3>1. t \in Tokens /\ Innocent(t, 2 * failures[t])' = Innocent(t, 2 * failures[t])
        BY <2>1, <2>5 DEF Listed, Innocent
      <3>2. CASE t \in Listed
        BY <3>1, <3>2 DEF CountInv
      <3>3. CASE t \notin Listed
        <4>1. t = Token /\ tokenStrikes'[t] >= StrikeThreshold
          BY <1>6, <2>1, <2>5, <3>3 DEF TxStrikeToken, NextToken, Finish, Listed, work
        <4>2. Clean(t) => tokenStrikes'[t] <= 2 * failures[t]
          BY <1>t, <2>4, <3>1
        <4>3. StrikeThreshold \in Nat /\ failures[t] \in Nat
          BY <1>t, <3>1, TxSenderAssumption
        <4>4. Clean(t) => tokenStrikes'[t] \in Nat
          BY <2>4, <3>1
        <4> QED
          BY <3>1, <4>1, <4>2, <4>3, <4>4 DEF Innocent, Clean
      <3> QED
        BY <3>2, <3>3
    <2> QED
      BY <2>1, <2>4, <2>5 DEF CountInv, Clean
  <1>7. CASE PersistRead
    <2>1. /\ txPc = "read" /\ UNCHANGED <<tokenStrikes, failures, blocked, blTokens, file>>
          /\ Token \in blTokens
      BY <1>7 DEF PersistRead, lists, history, JobInv, Persisting
    <2>2. addresses' \cap Tokens \subseteq Listed
      BY <1>7, <2>1, TxSenderAssumption
         DEF PersistRead, ReadAddresses, NextToken, Finish, Listed, Junk
    <2>3. file'.entries \cap Tokens \subseteq Listed
      BY <2>1 DEF Listed
    <2> QED
      BY <1>7, <1>p, <2>1, <2>2, <2>3 DEF PersistRead, Persisting
  <1>8. CASE PersistOpen
    <2>1. /\ txPc = "open" /\ UNCHANGED <<tokenStrikes, failures, blocked, blTokens>>
          /\ file' \in {Blank, file} /\ addresses' \in {addresses, {}}
      BY <1>8 DEF PersistOpen, NextToken, Finish, lists, history, work
    <2>2. file'.entries \cap Tokens \subseteq Listed /\ addresses' \cap Tokens \subseteq Listed
      BY <2>1 DEF Listed, Blank
    <2> QED
      BY <1>8, <1>p, <2>1, <2>2 DEF PersistOpen, Persisting, work
  <1>9. CASE PersistWrite
    <2>1. /\ txPc = "write" /\ UNCHANGED <<tokenStrikes, failures, blocked, blTokens>>
          /\ file' \in {Blank, Torn, [toml |-> TRUE, entries |-> addresses]}
          /\ addresses' = {} /\ NextToken
      BY <1>9 DEF PersistWrite, NextToken, Finish, lists, history
    <2>2. Torn.entries \cap Tokens = {}
      BY TxSenderAssumption DEF Torn, Junk
    <2>3. file'.entries \cap Tokens \subseteq Listed /\ addresses' \cap Tokens \subseteq Listed
      BY <2>1, <2>2 DEF Listed, Blank
    <2> QED
      BY <1>p, <2>1, <2>3 DEF Persisting
  <1>10. CASE Restart
    <2>1. /\ UNCHANGED <<failures, blocked>> /\ txPc' = "seed" /\ addresses' = {}
          /\ tokenStrikes' = [t \in Tokens |-> 0] /\ file' \in {file, Torn}
          /\ blTokens' = LoadTokens(file')
      BY <1>10 DEF Restart
    <2>2. Torn.entries \cap Tokens = {}
      BY TxSenderAssumption DEF Torn, Junk
    <2>3. ASSUME NEW t \in Tokens PROVE tokenStrikes'[t] + Owed(t)' <= 2 * failures'[t]
      <3>1. Owed(t)' = 0
        BY <2>1 DEF Owed, Persisting
      <3> QED
        BY <1>t, <2>1, <3>1
    <2>4. ASSUME NEW t \in Listed' PROVE ~Innocent(t, 2 * failures[t])'
      <3>1. t \in Listed
        BY <2>1, <2>2, <2>4 DEF Listed, LoadTokens
      <3> QED
        BY <2>1, <3>1 DEF CountInv, Innocent
    <2> QED
      BY <2>3, <2>4 DEF CountInv
  <1>11. CASE DeliverAny \/ NewBlock \/ Execute \/ UNCHANGED txVars
    <2>1. UNCHANGED <<txPc, txJob, txIdx, addresses, tokenStrikes, failures, blocked,
                      blTokens, file>>
      BY <1>11 DEF DeliverAny, NewBlock, Execute, txVars, lists, history, work
    <2>2. ASSUME NEW t \in Tokens PROVE Owed(t)' = Owed(t)
      <3>1. /\ Ahead(txJob.path, t, txIdx)' = Ahead(txJob.path, t, txIdx)
            /\ Ahead(txJob.path, t, txIdx + 1)' = Ahead(txJob.path, t, txIdx + 1)
        BY <2>1 DEF Ahead, StepTokens
      <3>2. /\ Cardinality(Ahead(txJob.path, t, txIdx))' = Cardinality(Ahead(txJob.path, t, txIdx))
            /\ Cardinality(Ahead(txJob.path, t, txIdx + 1))'
                 = Cardinality(Ahead(txJob.path, t, txIdx + 1))
        BY <3>1
      <3> QED
        BY <2>1, <3>2 DEF Owed, Persisting
    <2>3. file'.entries \cap Tokens \subseteq Listed /\ addresses' \cap Tokens \subseteq Listed
      BY <2>1 DEF Listed
    <2> QED
      BY <1>o, <2>1, <2>2, <2>3, StepKeepsTokens
  <1> QED
    BY <1>1, <1>2, <1>3, <1>5, <1>6, <1>7, <1>8, <1>9, <1>10, <1>11 DEF TxNext, TxStep, TxRest

\* If no path repeats a token, a token that no earlier process listed is
\* blacklisted only after failures of the paths through it that, counted twice,
\* reach the strike_threshold, or after one in a token transfer: for every
\* threshold and number of tokens, paths and providers, with requests and disk
\* operations that fail and with restarts.
THEOREM TokensNeedHalfThreshold ==
    ASSUME \A q \in Paths : NoRepeats(q)
    PROVE  TxSpec => []TokenHalfThreshold
  <1> DEFINE TokenInv == JobInv /\ CountInv
  <1>1. TxInit => TokenInv
    <2> SUFFICES ASSUME TxInit PROVE TokenInv
      OBVIOUS
    <2>1. JobInv
      BY DEF TxInit, JobInv, Persisting
    <2>2. \A t \in Tokens : tokenStrikes[t] + Owed(t) <= 2 * failures[t]
      BY DEF TxInit, Owed, Persisting
    <2>3. \A t \in Listed : t \in Inherited
      BY DEF TxInit, Listed, LoadTokens, Inherited
    <2> QED
      BY <2>1, <2>2, <2>3 DEF CountInv, Innocent
  <1>2. TxTypeOK /\ TokenInv /\ [TxNext]_txVars => TokenInv'
    BY StepJob, StepCounts
  <1>3. TxTypeOK /\ TokenInv => TokenHalfThreshold
    BY DEF TxTypeOK, ListTypes, CountInv, Listed, TokenHalfThreshold
  <1> QED
    BY <1>1, <1>2, <1>3, TxTypeCorrect, PTL DEF TxSpec

-----------------------------------------------------------------------------
(* The simulators and the sender *)

SimPlaces == {"start", "recv", "note", "latest", "paths", "tokens", "simulate", "send"}

\* What the channels and the workers hold.
Wired ==
    /\ {rpcHead, crashes} \subseteq Nat
    /\ arbQ \in Seq(ArbPaths)
    /\ validQ \in Seq(ValidPaths)
    /\ simPc \in [Workers -> SimPlaces]
    /\ simArb \in [Workers -> ArbPaths \cup {NoArb}]
    /\ \A w \in Workers : simPc[w] \notin {"start", "recv"} => simArb[w] \in ArbPaths

LEMMA InitWired == Init => Wired
  BY DEF Init, TxInit, SimInit, Wired, SimPlaces

\* A worker's step within a path it keeps or drops.
LEMMA PassKeepsWired ==
    ASSUME Wired, NEW w \in Workers, NEW pc \in SimPlaces,
           UNCHANGED <<arbQ, validQ, rpcHead, crashes>>,
           \/ Pass(w, pc) /\ simPc[w] \notin {"start", "recv"}
           \/ Pass(w, "recv")
           \/ Drop(w)
    PROVE  Wired'
  BY DEF Wired, Pass, Drop, SimPlaces

\* The sender only takes from its channel.
LEMMA SenderTakes ==
    ASSUME Wired, TxStep
    PROVE  /\ validQ' \in Seq(ValidPaths)
           /\ \/ validQ' = validQ
              \/ validQ # << >> /\ validQ' = Tail(validQ)
           /\ \/ txJob' \in {txJob, NoJob}
              \/ validQ # << >> /\ txJob' = Head(validQ)
           /\ UNCHANGED <<rpcHead, crashes>>
  <1>1. Finish \/ NextToken \/ UNCHANGED work => txJob' \in {txJob, NoJob}
    BY DEF Finish, NextToken, work
  <1>2. CASE TxSkipLow \/ TxTake
    <2>1. /\ validQ # << >> /\ validQ' = Tail(validQ) /\ UNCHANGED <<rpcHead, crashes>>
          /\ txJob' = txJob \/ txJob' = Head(validQ)
      BY <1>2 DEF TxSkipLow, TxTake, world, work
    <2>2. validQ' \in Seq(ValidPaths)
      BY <2>1 DEF Wired
    <2> QED
      BY <2>1, <2>2
  <1>3. ASSUME NEW o \in Outcomes, TxPreflight(o)
        PROVE  validQ' = validQ /\ txJob' \in {txJob, NoJob} /\ UNCHANGED <<rpcHead, crashes>>
    BY <1>1, <1>3 DEF TxPreflight, world, work
  <1>4. CASE TxSubmit
    BY <1>1, <1>4 DEF Wired, TxSubmit
  <1>5. CASE TxSeed \/ TxStrikePath \/ TxSkipStart \/ TxStrikeToken
    BY <1>1, <1>5 DEF Wired, TxSeed, TxStrikePath, TxSkipStart, TxStrikeToken, world
  <1>6. CASE PersistRead \/ PersistOpen \/ PersistWrite
    BY <1>1, <1>6 DEF Wired, PersistRead, PersistOpen, PersistWrite, world
  <1> QED
    BY <1>2, <1>3, <1>4, <1>5, <1>6 DEF TxStep, Wired

LEMMA StepKeepsWired == Wired /\ [Next]_vars => Wired'
  <1> SUFFICES ASSUME Wired, [Next]_vars PROVE Wired'
    OBVIOUS
  <1>1. CASE SearcherSends
    <2>1. PICK q \in Paths, b \in {rpcHead, rpcHead + 1} :
            arbQ' = Append(arbQ, [path |-> q, block |-> b])
      BY <1>1 DEF SearcherSends
    <2> QED
      BY <1>1, <2>1 DEF SearcherSends, Wired, ArbPaths, txVars, world
  <1>2. ASSUME NEW w \in Workers, SimStep(w) PROVE Wired'
    <2>1. CASE SimStart(w)
      BY <2>1, PassKeepsWired DEF SimStart, txVars, world, SimPlaces
    <2>2. CASE SimRecv(w)
      BY <2>2 DEF SimRecv, Wired, txVars, world, SimPlaces
    <2>3. CASE SimNote(w)
      BY <2>3, PassKeepsWired DEF SimNote, txVars, world, SimPlaces
    <2>4. CASE SimLatest(w)
      BY <2>4, PassKeepsWired DEF SimLatest, txVars, world, SimPlaces
    <2>5. CASE SimPaths(w)
      BY <2>5, PassKeepsWired DEF SimPaths, txVars, world, SimPlaces
    <2>6. CASE SimTokens(w)
      BY <2>6, PassKeepsWired DEF SimTokens, txVars, world, SimPlaces
    <2>7. CASE SimSimulate(w)
      BY <2>7, PassKeepsWired DEF SimSimulate, txVars, world, SimPlaces
    <2>8. CASE SimSend(w)
      <3>1. PICK worth \in BOOLEAN :
              validQ' = Append(validQ, [path |-> simArb[w].path, block |-> simArb[w].block,
                                        worth |-> worth])
        BY <2>8 DEF SimSend, Deliver
      <3>2. simArb[w] \in ArbPaths
        BY <2>8 DEF SimSend, Wired
      <3>3. validQ' \in Seq(ValidPaths)
        BY <3>1, <3>2 DEF Wired, ArbPaths, ValidPaths
      <3> QED
        BY <2>8, <3>3 DEF SimSend, Drop, Wired, SimPlaces
    <2> QED
      BY <1>2, <2>1, <2>2, <2>3, <2>4, <2>5, <2>6, <2>7, <2>8 DEF SimStep
  <1>3. CASE Sender
    BY <1>3, SenderTakes DEF Sender, simVars, Wired
  <1>4. CASE World
    BY <1>4 DEF World, NewBlock, Execute, simVars, Wired
  <1>5. CASE RestartAll
    BY <1>5 DEF RestartAll, Restart, Wired, SimPlaces
  <1>6. CASE Resting \/ UNCHANGED vars
    BY <1>6 DEF Resting, vars, txVars, world, simVars, Wired
  <1> QED
    BY <1>1, <1>2, <1>3, <1>4, <1>5, <1>6 DEF Next, Simulate

-----------------------------------------------------------------------------

\* What the sender has comes from the simulators' channel.
LEMMA SenderAddsNothing ==
    ASSUME Wired, TxStep, NEW q \in Paths, ~Sent(q)
    PROVE  ~Sent(q)'
  <1>1. q # << >>
    BY TxSenderAssumption
  <1>2. NoJob.path # q
    BY <1>1 DEF NoJob
  <1>3. ASSUME validQ # << >> PROVE Head(validQ).path # q
    <2>1. Head(validQ) = validQ[1] /\ 1 \in DOMAIN validQ
      BY <1>3 DEF Wired
    <2> QED
      BY <2>1 DEF Sent
  <1>4. ~ \E i \in DOMAIN validQ' : validQ'[i].path = q
    <2>1. CASE validQ' = validQ
      BY <2>1 DEF Sent
    <2>2. CASE validQ # << >> /\ validQ' = Tail(validQ)
      <3>1. ASSUME NEW i \in DOMAIN validQ'
            PROVE  i + 1 \in DOMAIN validQ /\ validQ'[i] = validQ[i + 1]
        BY <2>2, <3>1 DEF Wired
      <3> QED
        BY <3>1 DEF Sent
    <2> QED
      BY <2>1, <2>2, SenderTakes
  <1>5. txJob'.path # q
    BY <1>2, <1>3, SenderTakes DEF Sent
  <1> QED
    BY <1>4, <1>5 DEF Sent

\* A simulator passes on only a path that it has simulated.
LEMMA SimulatorAddsOwn ==
    ASSUME Wired, NEW w \in Workers, SimStep(w), NEW q \in Paths, ~Sent(q),
           ~(simPc[w] = "send" /\ simArb[w].path = q)
    PROVE  ~Sent(q)'
  <1>1. CASE SimSend(w)
    <2>1. PICK worth \in BOOLEAN :
            validQ' = Append(validQ, [path |-> simArb[w].path, block |-> simArb[w].block,
                                      worth |-> worth])
      BY <1>1 DEF SimSend, Deliver
    <2>2. simArb[w] \in ArbPaths /\ simArb[w].path # q
      BY <1>1 DEF SimSend, Wired
    <2>3. [path |-> simArb[w].path, block |-> simArb[w].block, worth |-> worth] \in ValidPaths
      BY <2>2 DEF ArbPaths, ValidPaths
    <2>4. ~ \E i \in DOMAIN validQ' : validQ'[i].path = q
      BY <2>1, <2>2, <2>3 DEF Wired, Sent
    <2>5. txJob' = txJob
      BY <1>1 DEF SimSend, work
    <2> QED
      BY <2>4, <2>5 DEF Sent
  <1>2. CASE ~SimSend(w)
    <2>1. UNCHANGED txVars
      BY <1>2 DEF SimStep, SimStart, SimRecv, SimNote, SimLatest, SimPaths, SimTokens,
                  SimSimulate
    <2> QED
      BY <2>1 DEF Sent, txVars, work
  <1> QED
    BY <1>1, <1>2

\* A worker gets past a check only with a path that passes it.
LEMMA ChecksHold ==
    ASSUME Wired, NEW w \in Workers, SimStep(w), NEW q \in Paths
    PROVE  /\ q \in blPaths /\ ~InSteps(q, {"tokens", "simulate", "send"})
                => ~InSteps(q, {"tokens", "simulate", "send"})'
           /\ Range(q) \cap blTokens # {} /\ ~InSteps(q, {"simulate", "send"})
                => ~InSteps(q, {"simulate", "send"})'
  <1>1. \A v \in Workers \ {w} : simPc'[v] = simPc[v] /\ simArb'[v] = simArb[v]
    BY DEF SimStep, SimStart, SimRecv, SimNote, SimLatest, SimPaths, SimTokens, SimSimulate,
           SimSend, Pass, Drop, Wired
  <1>2. simPc'[w] \in {"recv", "note", "latest", "paths", "tokens", "simulate", "send"}
    BY DEF SimStep, SimStart, SimRecv, SimNote, SimLatest, SimPaths, SimTokens, SimSimulate,
           SimSend, Pass, Drop, Wired
  <1>3. simPc'[w] = "tokens" => simArb'[w].path \notin blPaths
    BY DEF SimStep, SimStart, SimRecv, SimNote, SimLatest, SimPaths, SimTokens, SimSimulate,
           SimSend, Pass, Drop, Wired
  <1>4. simPc'[w] = "simulate" =>
            /\ simPc[w] = "tokens" /\ simArb'[w] = simArb[w]
            /\ Range(simArb'[w].path) \cap blTokens = {}
    BY DEF SimStep, SimStart, SimRecv, SimNote, SimLatest, SimPaths, SimTokens, SimSimulate,
           SimSend, Pass, Drop, Wired
  <1>5. simPc'[w] = "send" => simPc[w] = "simulate" /\ simArb'[w] = simArb[w]
    BY DEF SimStep, SimStart, SimRecv, SimNote, SimLatest, SimPaths, SimTokens, SimSimulate,
           SimSend, Pass, Drop, Wired
  <1>6. ASSUME q \in blPaths, ~InSteps(q, {"tokens", "simulate", "send"})
        PROVE  ~InSteps(q, {"tokens", "simulate", "send"})'
    BY <1>1, <1>3, <1>4, <1>5, <1>6 DEF InSteps
  <1>7. ASSUME Range(q) \cap blTokens # {}, ~InSteps(q, {"simulate", "send"})
        PROVE  ~InSteps(q, {"simulate", "send"})'
    BY <1>1, <1>4, <1>5, <1>7 DEF InSteps
  <1> QED
    BY <1>6, <1>7

LEMMA StepHolds ==
    Wired /\ [Next]_vars =>
        [crashes' = crashes => \A q \in Paths : NotPastPaths(q) /\ NotPastTokens(q)]_vars
  <1> SUFFICES ASSUME Wired, Next, crashes' = crashes, NEW q \in Paths, ~Sent(q)
               PROVE  NotPastPaths(q) /\ NotPastTokens(q)
    BY DEF NotPastPaths, NotPastTokens
  <1>s. ASSUME UNCHANGED simVars
        PROVE  \A pcs : InSteps(q, pcs)' <=> InSteps(q, pcs)
    BY <1>s DEF InSteps, simVars
  <1>1. CASE SearcherSends
    BY <1>1 DEF SearcherSends, NotPastPaths, NotPastTokens, Sent, InSteps, txVars, work
  <1>2. ASSUME NEW w \in Workers, SimStep(w) PROVE NotPastPaths(q) /\ NotPastTokens(q)
    <2>1. ~InSteps(q, {"simulate", "send"}) \/ ~InSteps(q, {"tokens", "simulate", "send"})
            => ~Sent(q)'
      BY <1>2, SimulatorAddsOwn DEF InSteps
    <2> QED
      BY <1>2, <2>1, ChecksHold DEF NotPastPaths, NotPastTokens
  <1>3. CASE Sender
    BY <1>3, <1>s, SenderAddsNothing DEF Sender, NotPastPaths, NotPastTokens
  <1>4. CASE World
    <2>1. ~Sent(q)'
      BY <1>4 DEF World, NewBlock, Execute, Sent, work
    <2> QED
      BY <1>4, <1>s, <2>1 DEF World, NotPastPaths, NotPastTokens
  <1>5. CASE RestartAll
    BY <1>5 DEF RestartAll, Restart, Wired
  <1>6. CASE Resting
    <2>1. ~Sent(q)' /\ UNCHANGED simVars
      BY <1>6 DEF Resting, vars, txVars, work, Sent
    <2> QED
      BY <1>s, <2>1 DEF NotPastPaths, NotPastTokens
  <1> QED
    BY <1>1, <1>2, <1>3, <1>4, <1>5, <1>6 DEF Next, Simulate

\* "Shared blacklist across all workers so one worker's revert info benefits
\* others" (ignition.rs:339): for any number of simulators, wherever each of
\* them is, a path that TxSender has blacklisted, itself or through a token,
\* does not get past the check that it has still ahead.
THEOREM BlacklistsTakeEffect == Spec => BlacklistHolds
  <1>1. Init => Wired
    BY InitWired
  <1>2. Wired /\ [Next]_vars => Wired'
    BY StepKeepsWired
  <1>3. Wired /\ [Next]_vars =>
          [crashes' = crashes => \A q \in Paths : NotPastPaths(q) /\ NotPastTokens(q)]_vars
    BY StepHolds
  <1> QED
    BY <1>1, <1>2, <1>3, PTL DEF Spec, BlacklistHolds
=============================================================================
