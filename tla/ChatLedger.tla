----------------------------- MODULE ChatLedger -----------------------------
(***************************************************************************)
(* What the chat session store promises its callers: a ledger of sessions. *)
(* A session is opened once, exchanges are only ever added at its end,     *)
(* each exchange is recorded at most once and in one session, and a        *)
(* session that has ended stays ended.  Locks, calls in progress, the      *)
(* index, the search rows, failures and restarts are not visible here.     *)
(***************************************************************************)
EXTENDS Sequences, Naturals

CONSTANTS Ids, Exchanges

VARIABLES
    state,  \* of each session: absent, open or ended
    log     \* the exchanges of each session, oldest first

ledger == <<state, log>>

Recorded == {e \in Exchanges : \E s \in Ids :
                \E i \in 1 .. Len(log[s]) : log[s][i] = e}

LedgerInit ==
    /\ state \in [Ids -> {"absent", "open"}]
    /\ log = [s \in Ids |-> <<>>]

Open(s) ==
    /\ state[s] = "absent"
    /\ state' = [state EXCEPT ![s] = "open"]
    /\ UNCHANGED log

\* An exchange may still reach a session that ended while it was in flight.
Record(s, e) ==
    /\ state[s] # "absent"
    /\ e \in Exchanges \ Recorded
    /\ log' = [log EXCEPT ![s] = Append(@, e)]
    /\ UNCHANGED state

End(s) ==
    /\ state[s] = "open"
    /\ state' = [state EXCEPT ![s] = "ended"]
    /\ UNCHANGED log

LedgerNext ==
    \E s \in Ids : Open(s) \/ End(s) \/ (\E e \in Exchanges : Record(s, e))

LedgerSpec == LedgerInit /\ [][LedgerNext]_ledger
=============================================================================
