------------------------------ MODULE TxSender ------------------------------
(***************************************************************************)
(* The transaction sender worker: src/src/tx_sender_pipeline.rs, with the  *)
(* toxic-token file it keeps and that src/src/main.rs and                  *)
(* src/src/ignition.rs initialise and load when the process starts.        *)
(*                                                                         *)
(* For each ValidPath: skip it if it is not worth submitting or is stale,  *)
(* check it with eth_call on one flash-loan provider after the other, then *)
(* sign and submit it, or count strikes against its path and its tokens.   *)
(* A path or token with enough strikes is blacklisted for the simulators,  *)
(* and a token is also written to the file, with the lock on the token     *)
(* blacklist held.                                                         *)
(*                                                                         *)
(* The process may be killed at any time.  Only the file survives.         *)
(***************************************************************************)
EXTENDS Integers, Sequences, FiniteSets, Functions

CONSTANTS
    Tokens,           \* token addresses
    Paths,            \* cyclic paths, each the sequence of its tokens
    StartTokens,      \* start_tokens of the worker: never blacklisted
    ConfiguredStarts, \* start tokens of the chain's configuration file
    Providers,        \* how many flash-loan providers are tried: 1 or 2
    StrikeThreshold,  \* strike_threshold
    MaxStaleBlocks,   \* max_stale_blocks
    ChannelBuffer,    \* channel_buffer
    DryRun,           \* dry_run
    SkipPreflight,    \* SKIP_PREFLIGHT
    InitialFiles,     \* toxic-token files that an earlier process may have left
    RpcMayFail,       \* whether a request to the node or the sequencer may fail
    DiskMayFail,      \* whether reading or writing the file may fail
    MaxHead,          \* bound: blocks
    MaxJobs,          \* bound: ValidPaths delivered
    MaxCrashes        \* bound: restarts

(* What the file can hold besides addresses. *)
Header == "[toxic_tokens]"
EmptyList == "addresses = []"
TornList == "addresses = ["
Junk == {Header, EmptyList, TornList}

\* A TOML file holds the entries of its list, any other file its lines.
Files == [toml : BOOLEAN, entries : SUBSET (Tokens \cup Junk)]
Blank == [toml |-> FALSE, entries |-> {}]
Torn == [toml |-> FALSE, entries |-> {Header, TornList}]

ASSUME TxSenderAssumption ==
    /\ Paths \subseteq Seq(Tokens) \ {<< >>}
    /\ StartTokens \subseteq Tokens
    /\ ConfiguredStarts \subseteq Tokens
    /\ Tokens \cap Junk = {}
    /\ Providers \in {1, 2}
    /\ StrikeThreshold \in Nat \ {0}
    /\ MaxStaleBlocks \in Nat
    /\ ChannelBuffer \in Nat \ {0}
    /\ {DryRun, SkipPreflight, RpcMayFail, DiskMayFail} \subseteq BOOLEAN
    /\ InitialFiles \subseteq Files
    /\ {MaxHead, MaxJobs, MaxCrashes} \subseteq Nat

VARIABLES
    rpcHead,       \* head of the chain as the RPC node reports it
    validQ,        \* ValidPath channel from the simulators
    txPc,          \* where the worker is
    txJob,         \* the ValidPath it works on
    txProvider,    \* provider it tries
    txIdx,         \* position in the tokens of the path's steps
    addresses,     \* list that persist_toxic_token_file is about to write
    cachedHead,    \* cached_head
    nonce,         \* next nonce to sign with
    strikes,       \* strike_counts
    tokenStrikes,  \* token_strike_counts
    instant,       \* whether the error is tagged INSTANT_BLACKLIST
    blPaths,       \* blacklisted_paths, shared with the simulators
    blTokens,      \* blacklisted_tokens, shared with the simulators
    file,          \* the toxic-token file
    mined,         \* account nonce at the latest block
    pool,          \* nonces of the pending transactions at the sequencer
    delivered,     \* ValidPaths delivered so far
    crashes,       \* restarts so far
    fails,         \* history: per path, its failed preflights
    unanswered,    \* history: per path, those of them for want of an answer
    blocked,       \* history: paths that failed in a token transfer
    failures,      \* history: per token, failed preflights of the paths through it
    refused        \* history: whether a signed transaction was not taken up

world == <<rpcHead, mined, pool, delivered, crashes>>
work == <<txJob, txProvider, txIdx, addresses, instant>>
lists == <<strikes, tokenStrikes, blPaths, blTokens>>
history == <<fails, unanswered, blocked, failures, refused>>
txVars == <<world, work, lists, history, validQ, txPc, cachedHead, nonce, file>>

ValidPaths == [path : Paths, block : Nat, worth : BOOLEAN]
NoJob == [path |-> << >>, block |-> 0, worth |-> FALSE]

Places == {"seed", "recv", "preflight", "submit", "strikePath", "strikeToken",
           "read", "open", "write"}

\* The mutex on the token blacklist is held while the file is rewritten.
Persisting == txPc \in {"read", "open", "write"}

-----------------------------------------------------------------------------
(* The toxic-token file *)

\* Mutant of ReadAddresses: no fallback for legacy files.
ReadTomlOnly(f) == IF f.toml THEN f.entries ELSE {}

\* The list persist_toxic_token_file starts from.  An empty TOML list is taken
\* for a legacy file, whose lines are the addresses.
ReadAddresses(f) == IF f.toml /\ f.entries = {} THEN {Header, EmptyList} ELSE f.entries

\* start_pipeline keeps the entries that parse as addresses.
LoadTokens(f) == f.entries \cap Tokens

-----------------------------------------------------------------------------

\* The tokens against which a failed path counts: token_in and token_out of
\* each step in turn.
StepTokens(q) == [i \in 1 .. 2 * Len(q) |-> q[((i \div 2) % Len(q)) + 1]]
Token == StepTokens(txJob.path)[txIdx]

\* Back to the channel.
Finish ==
    /\ txPc' = "recv"
    /\ txJob' = NoJob /\ txProvider' = 1 /\ txIdx' = 1
    /\ addresses' = {} /\ instant' = FALSE

\* On to the next token of the failed path, if any.
NextToken ==
    IF txIdx < 2 * Len(txJob.path)
      THEN /\ txPc' = "strikeToken"
           /\ txIdx' = txIdx + 1
           /\ addresses' = {}
           /\ UNCHANGED <<txJob, txProvider, instant>>
      ELSE Finish

WorldTypes ==
    /\ {rpcHead, mined, delivered, crashes} \subseteq Nat
    /\ pool \in SUBSET Nat

\* A worker that is busy has a job and a position among its tokens, which is
\* the first one until then.
WorkTypes ==
    /\ validQ \in Seq(ValidPaths)
    /\ txPc \in Places
    /\ txJob \in ValidPaths \cup {NoJob}
    /\ txPc \in {"seed", "recv"} => txIdx = 1
    /\ txPc \notin {"seed", "recv"} => txJob # NoJob /\ txIdx \in 1 .. 2 * Len(txJob.path)
    /\ txProvider \in 1 .. Providers
    /\ {txIdx, cachedHead, nonce} \subseteq Nat
    /\ addresses \in SUBSET (Tokens \cup Junk)
    /\ instant \in BOOLEAN

ListTypes ==
    /\ strikes \in [Paths -> Nat]
    /\ tokenStrikes \in [Tokens -> Nat]
    /\ blPaths \in SUBSET Paths
    /\ blTokens \in SUBSET Tokens
    /\ file \in Files

HistoryTypes ==
    /\ fails \in [Paths -> Nat]
    /\ unanswered \in [Paths -> Nat]
    /\ blocked \in SUBSET Paths
    /\ failures \in [Tokens -> Nat]
    /\ refused \in BOOLEAN

TxTypeOK == WorldTypes /\ WorkTypes /\ ListTypes /\ HistoryTypes

TxInit ==
    /\ file \in InitialFiles
    /\ validQ = << >>
    /\ txPc = "seed"
    /\ txJob = NoJob /\ txProvider = 1 /\ txIdx = 1 /\ addresses = {} /\ instant = FALSE
    /\ cachedHead = 0
    /\ nonce = 0
    /\ strikes = [q \in Paths |-> 0]
    /\ tokenStrikes = [t \in Tokens |-> 0]
    /\ blPaths = {}
    /\ blTokens = LoadTokens(file)
    /\ refused = FALSE
    /\ rpcHead = 1
    /\ mined = 1
    /\ pool = {}
    /\ delivered = 0
    /\ crashes = 0
    /\ fails = [q \in Paths |-> 0]
    /\ unanswered = [q \in Paths |-> 0]
    /\ blocked = {}
    /\ failures = [t \in Tokens |-> 0]

-----------------------------------------------------------------------------
(* run *)

\* Mutant of TxSeed: the transaction count is taken for the last nonce used.
SeedAfterCount ==
    /\ txPc = "seed"
    /\ nonce' = mined + 1
    /\ cachedHead' = rpcHead
    /\ txPc' = "recv"
    /\ UNCHANGED <<world, work, lists, history, validQ, file>>

\* The nonce comes from eth_getTransactionCount and the head from
\* eth_blockNumber; either is 0 if its request fails.
TxSeed ==
    /\ txPc = "seed"
    /\ nonce' \in {mined} \cup (IF RpcMayFail THEN {0} ELSE {})
    /\ cachedHead' \in {rpcHead} \cup (IF RpcMayFail THEN {0} ELSE {})
    /\ txPc' = "recv"
    /\ UNCHANGED <<world, work, lists, history, validQ, file>>

\* A path below the minimum profit is dropped.
TxSkipLow ==
    /\ txPc = "recv"
    /\ validQ # << >>
    /\ ~Head(validQ).worth
    /\ validQ' = Tail(validQ)
    /\ UNCHANGED <<world, work, lists, history, txPc, cachedHead, nonce, file>>

\* The head is refreshed if the last time is more than a second ago and the
\* request succeeds.  A path too far behind it is dropped.  In a dry run the
\* path is only logged.
TxTake ==
    LET job == Head(validQ) IN
    /\ txPc = "recv"
    /\ validQ # << >>
    /\ job.worth
    /\ validQ' = Tail(validQ)
    /\ cachedHead' \in {cachedHead, rpcHead}
    /\ IF \/ cachedHead' > 0 /\ job.block + MaxStaleBlocks < cachedHead'
          \/ DryRun
         THEN UNCHANGED <<txPc, txJob>>
         ELSE /\ txPc' = IF SkipPreflight THEN "submit" ELSE "preflight"
              /\ txJob' = job
    /\ UNCHANGED <<world, txProvider, txIdx, addresses, instant, lists, history, nonce, file>>

\* Outcomes of the preflight eth_call: it passes; it reverts, for want of
\* repayment ("marginal"), in a token transfer ("transfer"), as both, or for
\* another reason; or no answer comes ("transport").
Instant == {"transfer", "both"}
Marginal == {"marginal", "both"}
Outcomes == {"ok", "revert", "marginal"} \cup Instant
                \cup (IF RpcMayFail THEN {"transport"} ELSE {})

\* An instant-blacklist error ends the attempts, any other one does so with
\* the last provider.  Marginal paths get no strike; a missing answer counts as
\* a revert.
TxPreflight(o) ==
    LET q == txJob.path IN
    /\ txPc = "preflight"
    /\ \/ /\ o = "ok"
          /\ txPc' = "submit"
          /\ UNCHANGED <<work, fails, unanswered, blocked, failures>>
       \/ /\ o \notin Instant \cup {"ok"}
          /\ txProvider < Providers
          /\ txProvider' = txProvider + 1
          /\ UNCHANGED <<txPc, txJob, txIdx, addresses, instant>>
          /\ UNCHANGED <<fails, unanswered, blocked, failures>>
       \/ /\ o \in Marginal
          /\ o \in Instant \/ txProvider = Providers
          /\ Finish
          /\ UNCHANGED <<fails, unanswered, blocked, failures>>
       \/ /\ o \notin Marginal \cup {"ok"}
          /\ o \in Instant \/ txProvider = Providers
          /\ txPc' = "strikePath"
          /\ instant' = (o \in Instant)
          /\ fails' = [fails EXCEPT ![q] = @ + 1]
          /\ unanswered' = [unanswered EXCEPT ![q] = IF o = "transport" THEN @ + 1 ELSE @]
          /\ blocked' = IF o \in Instant THEN blocked \cup {q} ELSE blocked
          /\ failures' = [t \in Tokens |-> IF t \in Range(q) THEN failures[t] + 1
                                                             ELSE failures[t]]
          /\ UNCHANGED <<txJob, txProvider, txIdx, addresses>>
    /\ UNCHANGED <<world, lists, refused, validQ, cachedHead, nonce, file>>

\* The transaction is signed with the next nonce and sent to the sequencer,
\* which takes up a nonce that is not used yet.  Request or answer may be lost.
TxSubmit ==
    /\ txPc = "submit"
    /\ nonce' = nonce + 1
    /\ \/ /\ nonce >= mined /\ nonce \notin pool
          /\ pool' = pool \cup {nonce}
          /\ UNCHANGED refused
       \/ /\ nonce < mined \/ nonce \in pool \/ RpcMayFail
          /\ refused' = TRUE
          /\ UNCHANGED pool
    /\ Finish
    /\ UNCHANGED <<rpcHead, mined, delivered, crashes, lists, fails, unanswered, blocked,
                   failures, validQ, cachedHead, file>>

\* A strike count after one more failure.
Struck(count) == IF instant THEN StrikeThreshold ELSE count + 1

\* Mutant of TxStrikePath: one strike too early.
StrikePathEarly ==
    LET q == txJob.path IN
    /\ txPc = "strikePath"
    /\ strikes' = [strikes EXCEPT ![q] = Struck(@)]
    /\ blPaths' = IF strikes[q] + 2 >= StrikeThreshold THEN blPaths \cup {q} ELSE blPaths
    /\ txPc' = "strikeToken"
    /\ UNCHANGED <<world, work, history, tokenStrikes, blTokens, validQ, cachedHead, nonce,
                   file>>

TxStrikePath ==
    LET q == txJob.path IN
    /\ txPc = "strikePath"
    /\ strikes' = [strikes EXCEPT ![q] = Struck(@)]
    /\ blPaths' = IF strikes'[q] >= StrikeThreshold THEN blPaths \cup {q} ELSE blPaths
    /\ txPc' = "strikeToken"
    /\ UNCHANGED <<world, work, history, tokenStrikes, blTokens, validQ, cachedHead, nonce,
                   file>>

TxSkipStart ==
    /\ txPc = "strikeToken"
    /\ Token \in StartTokens
    /\ NextToken
    /\ UNCHANGED <<world, lists, history, validQ, cachedHead, nonce, file>>

\* Mutant of TxStrikeToken: one strike too early.
StrikeTokenEarly ==
    LET tok == Token IN
    /\ txPc = "strikeToken"
    /\ tok \notin StartTokens
    /\ tokenStrikes' = [tokenStrikes EXCEPT ![tok] = Struck(@)]
    /\ IF tokenStrikes'[tok] + 1 >= StrikeThreshold /\ tok \notin blTokens
         THEN /\ blTokens' = blTokens \cup {tok}
              /\ txPc' = "read"
              /\ UNCHANGED work
         ELSE NextToken /\ UNCHANGED blTokens
    /\ UNCHANGED <<world, history, strikes, blPaths, validQ, cachedHead, nonce, file>>

TxStrikeToken ==
    LET tok == Token IN
    /\ txPc = "strikeToken"
    /\ tok \notin StartTokens
    /\ tokenStrikes' = [tokenStrikes EXCEPT ![tok] = Struck(@)]
    /\ IF tokenStrikes'[tok] >= StrikeThreshold /\ tok \notin blTokens
         THEN /\ blTokens' = blTokens \cup {tok}
              /\ txPc' = "read"
              /\ UNCHANGED work
         ELSE NextToken /\ UNCHANGED blTokens
    /\ UNCHANGED <<world, history, strikes, blPaths, validQ, cachedHead, nonce, file>>

-----------------------------------------------------------------------------
(* persist_toxic_token_file, whose error nobody looks at *)

\* A file that cannot be read counts as empty.  Without its directory the
\* function gives up.
PersistRead ==
    /\ txPc = "read"
    /\ \/ /\ \/ addresses' = ReadAddresses(file) \cup {Token}
             \/ DiskMayFail /\ addresses' = {Token}
          /\ txPc' = "open"
          /\ UNCHANGED <<txJob, txProvider, txIdx, instant>>
       \/ DiskMayFail /\ NextToken
    /\ UNCHANGED <<world, lists, history, validQ, cachedHead, nonce, file>>

\* fs::write opens the file and truncates it ...
PersistOpen ==
    /\ txPc = "open"
    /\ \/ file' = Blank /\ txPc' = "write" /\ UNCHANGED work
       \/ DiskMayFail /\ NextToken /\ UNCHANGED file
    /\ UNCHANGED <<world, lists, history, validQ, cachedHead, nonce>>

\* Mutant of PersistWrite: the write is repeated whatever it returns.
PersistWriteRepeats ==
    /\ txPc = "write"
    /\ file' = [toml |-> TRUE, entries |-> addresses]
    /\ txPc' = "open"
    /\ UNCHANGED <<world, work, lists, history, validQ, cachedHead,
                   nonce>>

\* ... and then writes.
PersistWrite ==
    /\ txPc = "write"
    /\ \/ file' = [toml |-> TRUE, entries |-> addresses]
       \/ DiskMayFail /\ file' \in {Blank, Torn}
    /\ NextToken
    /\ UNCHANGED <<world, lists, history, validQ, cachedHead, nonce>>

-----------------------------------------------------------------------------
(* The process is killed and starts again. *)

Restart ==
    /\ crashes < MaxCrashes
    /\ crashes' = crashes + 1
    /\ file' \in {file} \cup (IF txPc = "write" THEN {Torn} ELSE {})
    /\ validQ' = << >>
    /\ txPc' = "seed"
    /\ txJob' = NoJob /\ txProvider' = 1 /\ txIdx' = 1 /\ addresses' = {} /\ instant' = FALSE
    /\ cachedHead' = 0
    /\ nonce' = 0
    /\ strikes' = [q \in Paths |-> 0]
    /\ tokenStrikes' = [t \in Tokens |-> 0]
    /\ blPaths' = {}
    /\ blTokens' = LoadTokens(file')
    /\ refused' = FALSE
    /\ UNCHANGED <<rpcHead, mined, pool, delivered, fails, unanswered, blocked, failures>>

(* External: the simulators deliver, the chain grows, the sequencer executes. *)

Deliver(v) ==
    /\ delivered < MaxJobs
    /\ Len(validQ) < ChannelBuffer
    /\ delivered' = delivered + 1
    /\ validQ' = Append(validQ, v)

DeliverAny ==
    /\ \E q \in Paths, b \in 1 .. MaxHead, w \in BOOLEAN :
         Deliver([path |-> q, block |-> b, worth |-> w])
    /\ UNCHANGED <<rpcHead, mined, pool, crashes, work, lists, history, txPc, cachedHead,
                   nonce, file>>

NewBlock ==
    /\ rpcHead < MaxHead
    /\ rpcHead' = rpcHead + 1
    /\ UNCHANGED <<mined, pool, delivered, crashes, work, lists, history, validQ, txPc,
                   cachedHead, nonce, file>>

Execute ==
    /\ mined \in pool
    /\ mined' = mined + 1
    /\ pool' = pool \ {mined}
    /\ UNCHANGED <<rpcHead, delivered, crashes, work, lists, history, validQ, txPc,
                   cachedHead, nonce, file>>

TxStep ==
    \/ TxSeed
    \/ TxSkipLow
    \/ TxTake
    \/ \E o \in Outcomes : TxPreflight(o)
    \/ TxSubmit
    \/ TxStrikePath
    \/ TxSkipStart
    \/ TxStrikeToken
    \/ PersistRead
    \/ PersistOpen
    \/ PersistWrite

TxRest ==
    /\ txPc = "recv" /\ validQ = << >>
    /\ UNCHANGED txVars

TxNext ==
    \/ TxStep
    \/ Restart
    \/ DeliverAny
    \/ NewBlock
    \/ Execute
    \/ TxRest

TxSpec == TxInit /\ [][TxNext]_txVars

-----------------------------------------------------------------------------
(* Properties *)

\* The toxic-token file and the blacklist in memory agree whenever the
\* blacklist's lock is free, after restarts in the middle of a write too, as
\* long as the disk works (persist_toxic_token_file and the load at startup).
FileIsBlacklist == ~Persisting => LoadTokens(file) = blTokens

\* A path is blacklisted only if strike_threshold preflights of its own failed,
\* unanswered requests among them, or one did in a token transfer: strikes of
\* other paths, of a path's other providers and of an earlier process never do.
BlacklistedForFailures ==
    \A q \in blPaths : fails[q] >= StrikeThreshold \/ q \in blocked

\* "paths that revert on preflight are added here": the same without the
\* unanswered requests.  Violated: build_and_send words a request that got no
\* answer like one that reverted, and run counts a strike for it.
BlacklistedForReverts ==
    \A q \in blPaths : fails[q] - unanswered[q] >= StrikeThreshold \/ q \in blocked

\* A token that no earlier process listed, of too few failures, and on no path
\* that failed in a token transfer.
Inherited == {t \in Tokens : \E f \in InitialFiles : t \in f.entries}
Innocent(t, count) ==
    /\ t \notin Inherited
    /\ count < StrikeThreshold
    /\ \A q \in blocked : t \notin Range(q)

\* A token is blacklisted only after failures of the paths through it: a failed
\* path counts against the token_in and the token_out of each of its steps,
\* twice for one in its middle and never more, so that half the strike_threshold
\* suffices and fewer failures never do.
TokenHalfThreshold == \A t \in blTokens : ~Innocent(t, 2 * failures[t])

\* "Start tokens that should NEVER be blacklisted": no token at which a path
\* can start gets into the token blacklist.  Violated: the worker is given only
\* the start tokens that have a price pool.
StartTokensSafe == ConfiguredStarts \cap blTokens = {}

\* "New toxic tokens are persisted here so they survive restarts": a token that
\* every earlier process listed stays blacklisted.  Violated: a crash between
\* opening and writing the file loses all of them, also the older ones.
ListedSurvive == {t \in Tokens : \A f \in InitialFiles : t \in f.entries} \subseteq blTokens

\* A transaction waits at the sequencer for an earlier nonce only if some
\* transaction signed since the start was not taken up: while none was, the
\* nonces handed out and not executed are all pending.
NonceGapFree == ~refused => mined .. nonce - 1 \subseteq pool
=============================================================================
