-------------------------- MODULE ExecutionPipeline --------------------------
(***************************************************************************)
(* The simulator workers and the transaction sender of one process, as     *)
(* start_pipeline (src/src/ignition.rs) wires them: the ArbPath channel,   *)
(* the ValidPath channel, and the blacklists that the sender fills and the *)
(* simulators consult.  The process may be restarted.                      *)
(***************************************************************************)
EXTENDS Simulator

vars == <<txVars, simVars>>

Init == TxInit /\ SimInit

Simulate == \E w \in Workers : SimStep(w)
Sender == TxStep /\ UNCHANGED simVars
World == (NewBlock \/ Execute) /\ UNCHANGED simVars

\* All that the workers hold in memory is lost with the process.
RestartAll ==
    /\ Restart
    /\ arbQ' = << >>
    /\ sharedLatest' = 0
    /\ simPc' = [w \in Workers |-> "start"]
    /\ simArb' = [w \in Workers |-> NoArb]
    /\ simBlock' = [w \in Workers |-> 0]
    /\ simHead' = [w \in Workers |-> 0]
    /\ UNCHANGED queued

\* Every worker waits on an empty channel.
Resting ==
    /\ \A w \in Workers : simPc[w] = "recv"
    /\ arbQ = << >> /\ validQ = << >> /\ txPc = "recv"
    /\ UNCHANGED vars

Next ==
    \/ SearcherSends
    \/ Simulate
    \/ Sender
    \/ World
    \/ RestartAll
    \/ Resting

Spec == Init /\ [][Next]_vars

\* The runtime schedules each worker that can run; every request ends, with a
\* result or a timeout.
FairSpec ==
    /\ Spec
    /\ \A w \in Workers : WF_vars(SimStep(w))
    /\ WF_vars(Sender)

-----------------------------------------------------------------------------
(* Properties *)

TypeOK == TxTypeOK /\ SimTypeOK

\* Path q is at the sender or on its way there.
Sent(q) ==
    \/ txJob.path = q
    \/ \E i \in DOMAIN validQ : validQ[i].path = q

InSteps(q, pcs) == \E w \in Workers : simPc[w] \in pcs /\ simArb[w].path = q

\* Path q does not get past the check against a blacklist in this step.
NotPastPaths(q) ==
    q \in blPaths =>
        (~Sent(q) /\ ~InSteps(q, {"tokens", "simulate", "send"})
            => ~Sent(q)' /\ ~InSteps(q, {"tokens", "simulate", "send"})')

NotPastTokens(q) ==
    Range(q) \cap blTokens # {} /\ ~Persisting =>
        (~Sent(q) /\ ~InSteps(q, {"simulate", "send"})
            => ~Sent(q)' /\ ~InSteps(q, {"simulate", "send"})')

\* A blacklisting takes effect at once for all workers: a path that is not yet
\* past the check against the blacklist it is on never gets past it, so only
\* what was under way can still be submitted.
BlacklistHolds ==
    [][crashes' = crashes => \A q \in Paths : NotPastPaths(q) /\ NotPastTokens(q)]_vars

\* A worker that took a path always comes back for the next one, however the
\* channels fill up and whoever holds the token blacklist.
WorkersReturn == \A w \in Workers : simPc[w] = "note" ~> simPc[w] = "recv"

\* The sender always finishes what it took, persisting included.
SenderReturns == txPc # "recv" ~> txPc = "recv"
=============================================================================
