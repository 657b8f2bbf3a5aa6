------------------------------ MODULE KeyQueues ------------------------------
(***************************************************************************)
(* What the locks of the files promise their callers: each key has a       *)
(* queue, its first caller alone may have the key, and callers that ask    *)
(* for several keys ask for the next one when they have got the one        *)
(* before. Promises and the map that holds them are not visible here.      *)
(***************************************************************************)
EXTENDS Sequences

CONSTANTS Procs, Keys

VARIABLES
    queue,  \* of each key: who has asked for it and not left it, in order
    users   \* of each key: who has it

queues == <<queue, users>>

Asked(k) == {queue[k][i] : i \in DOMAIN queue[k]}

QueuesInit == queue = [k \in Keys |-> <<>>] /\ users = [k \in Keys |-> {}]

(* A key is free or somebody's, and goes to the first in its queue.        *)
MayTake(p, k) == users[k] = {} /\ queue[k] # <<>> /\ Head(queue[k]) = p

Ask(p, k) ==
    /\ p \notin Asked(k)
    /\ queue' = [queue EXCEPT ![k] = Append(@, p)]
    /\ UNCHANGED users

Take(p, k) ==
    /\ MayTake(p, k)
    /\ users' = [users EXCEPT ![k] = {p}]
    /\ UNCHANGED queue

TakeAndAsk(p, k, l) ==
    /\ MayTake(p, k) /\ k # l /\ p \notin Asked(l)
    /\ users' = [users EXCEPT ![k] = {p}]
    /\ queue' = [queue EXCEPT ![l] = Append(@, p)]

Leave(p, k) ==
    /\ users[k] = {p}
    /\ users' = [users EXCEPT ![k] = {}]
    /\ queue' = [queue EXCEPT ![k] = Tail(@)]

QueuesNext ==
    \E p \in Procs, k \in Keys :
        Ask(p, k) \/ Take(p, k) \/ Leave(p, k) \/ \E l \in Keys : TakeAndAsk(p, k, l)

QueuesSpec == QueuesInit /\ [][QueuesNext]_queues
=============================================================================
