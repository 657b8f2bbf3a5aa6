------------------------------ MODULE FileLocks ------------------------------
(***************************************************************************)
(* The in-process lock everything that rewrites a file relies on:          *)
(* AsyncLock (a chain of promises per key), withFileLock and               *)
(* withMultiFileLock.                                                      *)
(*                                                                         *)
(* A caller chains its own promise behind the one the map holds for the    *)
(* key and puts it in the map; its function runs once the promise before   *)
(* has settled, either way. The map forgets the key when the last promise  *)
(* has settled, in a finally block that runs some time after the settling. *)
(* withMultiFileLock nests these calls, one per key in sorted order, so a  *)
(* caller holds the outer keys while it waits for the next one.            *)
(*                                                                         *)
(* Keys are numbers in their sorted order.                                 *)
(***************************************************************************)
EXTENDS Naturals, Sequences

CONSTANTS
    Procs,      \* the callers
    Keys,       \* the lock keys
    Null        \* no promise, no key

ASSUME LockAssumption == Keys \subseteq Nat /\ Null \notin Procs \cup Keys

VARIABLES
    tail,       \* AsyncLock.chains: whose promise the map holds for a key
    prev,       \* the unsettled promise a caller's promise for a key is chained to
    todo,       \* the keys a caller has still to ask for
    waiting,    \* the key a caller waits for
    held,       \* the keys a caller holds
    settled,    \* the key whose promise has settled, its finally block still to run
    inside,     \* the caller's own function runs
    line        \* the callers of a key that have not settled, in the order they
                \* came (history)

lockVars == <<tail, prev, todo, waiting, held, settled, inside, line>>

Idle(p) == todo[p] = {} /\ waiting[p] = Null /\ held[p] = {} /\ settled[p] = Null /\ ~inside[p]

(* mutation: the keys as each caller lists them                            *)
AsListed(p, k, keys) == IF p = CHOOSE q \in Procs : TRUE
                        THEN k \in keys /\ \A l \in keys : l <= k
                        ELSE k \in keys /\ \A l \in keys : k <= l

(* withMultiFileLock sorts the keys.                                       *)
ComesFirst(p, k, keys) == k \in keys /\ \A l \in keys : k <= l

(* acquire(i + 1)                                                          *)
Rest(keys, k) == keys \ {k}

(* The promise a new one has to wait for; a settled one holds nobody up.   *)
Before(k) == IF tail[k] = Null \/ settled[tail[k]] = k THEN Null ELSE tail[k]

(* AsyncLock.run up to its await                                           *)
Chain(p, k) ==
    /\ prev' = [prev EXCEPT ![p][k] = Before(k)]
    /\ tail' = [tail EXCEPT ![k] = p]
    /\ line' = [line EXCEPT ![k] = Append(@, p)]
    /\ waiting' = [waiting EXCEPT ![p] = k]

(* A call with these keys; withFileLock is a call with one.                *)
Call(p, keys) ==
    /\ Idle(p)
    /\ \E k \in keys :
         /\ ComesFirst(p, k, keys)
         /\ Chain(p, k)
         /\ todo' = [todo EXCEPT ![p] = Rest(keys, k)]
    /\ UNCHANGED <<held, settled, inside>>

(* The promise before has settled.                                         *)
MyTurn(p, k) == prev[p][k] = Null

(* The function of AsyncLock.run starts: it asks for the next key at once, *)
(* or is the function of the caller when there is none left.               *)
StartNext(p) ==
    LET k == waiting[p] IN
    /\ k # Null /\ MyTurn(p, k)
    /\ held' = [held EXCEPT ![p] = @ \cup {k}]
    /\ \E l \in todo[p] :
         /\ ComesFirst(p, l, todo[p])
         /\ Chain(p, l)
         /\ todo' = [todo EXCEPT ![p] = Rest(@, l)]
    /\ UNCHANGED <<settled, inside>>

StartInside(p) ==
    LET k == waiting[p] IN
    /\ k # Null /\ MyTurn(p, k)
    /\ held' = [held EXCEPT ![p] = @ \cup {k}]
    /\ todo[p] = {}
    /\ waiting' = [waiting EXCEPT ![p] = Null]
    /\ inside' = [inside EXCEPT ![p] = TRUE]
    /\ UNCHANGED <<tail, prev, todo, settled, line>>

(* The promise of a key settles: the one chained to it may go on.          *)
Settle(p, k) ==
    /\ settled' = [settled EXCEPT ![p] = k]
    /\ held' = [held EXCEPT ![p] = @ \ {k}]
    /\ prev' = [q \in Procs |-> [prev[q] EXCEPT ![k] = IF @ = p THEN Null ELSE @]]
    /\ line' = [line EXCEPT ![k] = Tail(@)]

(* Nested calls settle from the inside out.                                *)
SettleInnermost(p) ==
    \E k \in held[p] : (\A l \in held[p] : l <= k) /\ Settle(p, k)

(* The function of the caller returns or throws: the inner promise         *)
(* settles.                                                                *)
Return(p) ==
    /\ inside[p]
    /\ SettleInnermost(p)
    /\ inside' = [inside EXCEPT ![p] = FALSE]
    /\ UNCHANGED <<tail, todo, waiting>>

(* mutation: the entry goes whoever it is                                  *)
AlwaysForgotten(p, k) == [tail EXCEPT ![k] = Null]

(* The finally block: a newer caller is left in the map.                   *)
Forgotten(p, k) == IF tail[k] = p THEN [tail EXCEPT ![k] = Null] ELSE tail

(* The finally block of a key; the promise of the key around it settles    *)
(* next.                                                                   *)
Finally(p) ==
    /\ settled[p] # Null
    /\ tail' = Forgotten(p, settled[p])
    /\ \/ SettleInnermost(p)
       \/ /\ held[p] = {} /\ settled' = [settled EXCEPT ![p] = Null]
          /\ UNCHANGED <<held, prev, line>>
    /\ UNCHANGED <<todo, waiting, inside>>

LocksInit ==
    /\ tail = [k \in Keys |-> Null]
    /\ prev = [p \in Procs |-> [k \in Keys |-> Null]]
    /\ todo = [p \in Procs |-> {}] /\ held = [p \in Procs |-> {}]
    /\ waiting = [p \in Procs |-> Null] /\ settled = [p \in Procs |-> Null]
    /\ inside = [p \in Procs |-> FALSE]
    /\ line = [k \in Keys |-> <<>>]

Step(p) == StartNext(p) \/ StartInside(p) \/ Return(p) \/ Finally(p)

LocksNext == \E p \in Procs : Step(p) \/ \E keys \in SUBSET Keys : Call(p, keys)

LocksSpec == LocksInit /\ [][LocksNext]_lockVars

(* Promises that can go on do, and the functions of the callers end.       *)
FairSpec == LocksSpec /\ \A p \in Procs : WF_lockVars(Step(p))

-----------------------------------------------------------------------------

(* The state has the shape the locks give it.                              *)
LocksTypeOK ==
    /\ tail \in [Keys -> Procs \cup {Null}]
    /\ prev \in [Procs -> [Keys -> Procs \cup {Null}]]
    /\ todo \in [Procs -> SUBSET Keys] /\ held \in [Procs -> SUBSET Keys]
    /\ waiting \in [Procs -> Keys \cup {Null}] /\ settled \in [Procs -> Keys \cup {Null}]
    /\ inside \in [Procs -> BOOLEAN]
    /\ line \in [Keys -> Seq(Procs)]
    /\ \A p \in Procs : waiting[p] \notin todo[p] \cup held[p]

(* No two callers run under the same key.                                  *)
MutualExclusion == \A p, q \in Procs : p # q => held[p] \cap held[q] = {}

(* The promises of a key are a queue for it (KeyQueues): however calls     *)
(* nest and wherever a finally block runs, a key is free or one caller's,  *)
(* and it goes to the one that has waited longest. This is what lets the   *)
(* other modules have a lock as a variable.                                *)
Having == [k \in Keys |-> {p \in Procs : k \in held[p]}]

Queues == INSTANCE KeyQueues WITH queue <- line, users <- Having

ImplementsQueues == Queues!QueuesSpec

(* A key is granted in the order it was asked for: no caller overtakes     *)
(* another, so none is passed over for ever.                               *)
FirstComeFirstServed ==
    [][\A p \in Procs : \A k \in held'[p] \ held[p] : Head(line[k]) = p]_lockVars

(* A caller waits only for keys after all those it holds, so no circle of  *)
(* callers wait for each other.                                            *)
OrderedWaits ==
    \A p \in Procs : waiting[p] # Null => \A k \in held[p] : k < waiting[p]

(* "The chain is cleared once the last waiter resolves": when nobody uses  *)
(* a key the map does not have it.                                         *)
NoLeak == (\A p \in Procs : Idle(p)) => \A k \in Keys : tail[k] = Null

(* Every call gets its turn and returns.                                   *)
EveryCallReturns == \A p \in Procs : ~Idle(p) ~> Idle(p)
=============================================================================
