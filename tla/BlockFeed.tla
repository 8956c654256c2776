----------------------------- MODULE BlockFeed -----------------------------
(***************************************************************************)
(* What the block stream promises its receiver, without endpoints, locks   *)
(* or a dedup set: any block of the chain is announced, in any order, but  *)
(* not again within Window announcements; what is announced is published   *)
(* in the end; and the receiver takes what is published in that order,     *)
(* missing blocks only when more than Capacity newer ones wait for it.     *)
(***************************************************************************)
EXTENDS Integers, Sequences

CONSTANTS
    Carriers,   \* who may have an announced block at hand
    Window,     \* announcements within which no block is repeated
    Capacity    \* blocks that wait for the receiver at most

VARIABLES
    mined,      \* newest block of the chain
    announced,  \* blocks announced so far
    holding,    \* the announced block a carrier has yet to publish, or 0
    queue,      \* blocks that wait for the receiver
    open        \* whether there is a receiver

feedVars == <<mined, announced, holding, queue, open>>

Init ==
    /\ mined = 0
    /\ announced = << >>
    /\ holding = [c \in Carriers |-> 0]
    /\ queue = << >>
    /\ open = TRUE

Mine ==
    /\ mined' = mined + 1
    /\ UNCHANGED <<announced, holding, queue, open>>

Recent(n) ==
    \E i \in DOMAIN announced : announced[i] = n /\ i + Window > Len(announced)

Announce(c, n) ==
    /\ holding[c] = 0
    /\ ~Recent(n)
    /\ announced' = Append(announced, n)
    /\ holding' = [holding EXCEPT ![c] = n]
    /\ UNCHANGED <<mined, queue, open>>

\* The oldest block makes room if there is none.
Publish(c) ==
    /\ open
    /\ holding[c] # 0
    /\ holding' = [holding EXCEPT ![c] = 0]
    /\ queue' = Append(IF Len(queue) < Capacity THEN queue ELSE Tail(queue), holding[c])
    /\ UNCHANGED <<mined, announced, open>>

\* Without a receiver there is nobody to publish for.
Discard(c) ==
    /\ ~open
    /\ holding[c] # 0
    /\ holding' = [holding EXCEPT ![c] = 0]
    /\ UNCHANGED <<mined, announced, queue, open>>

Deliver ==
    /\ open
    /\ queue # << >>
    /\ queue' = Tail(queue)
    /\ UNCHANGED <<mined, announced, holding, open>>

Close ==
    /\ open
    /\ open' = FALSE
    /\ UNCHANGED <<mined, announced, holding, queue>>

Next ==
    \/ Mine
    \/ \E c \in Carriers : \/ \E n \in 1 .. mined : Announce(c, n)
                           \/ Publish(c)
                           \/ Discard(c)
    \/ Deliver
    \/ Close

\* Carriers do not keep blocks to themselves.
Fairness == \A c \in Carriers : WF_feedVars(Publish(c) \/ Discard(c))

Spec == Init /\ [][Next]_feedVars /\ Fairness
=============================================================================
