-------------------------- MODULE ChatSessionStore --------------------------
(***************************************************************************)
(* The chat session store of the core                                      *)
(* (core/src/services/conversation-session/chat-session-store.ts), for one *)
(* user.  A session is a transcript file; the index file active-sessions   *)
(* says which session each session key is talking in; a SQLite row mirrors *)
(* each transcript for search.  Every public operation of the store is an  *)
(* async function, so it runs as a sequence of steps separated by its      *)
(* awaits, and the operations of concurrent requests interleave there.     *)
(*                                                                         *)
(* A step below is the code between two points where another operation on  *)
(* the same data can run.  Two per-key mutexes order them: the index lock  *)
(* and one transcript lock per session (utils/file-mutex.ts).              *)
(*                                                                         *)
(* Transcripts are abstracted to what the properties tell apart: whether   *)
(* the file exists, decodes, carries ended_at, the exchanges in it, and    *)
(* which call wrote its title and its memory snapshot.  A call appends at  *)
(* most one exchange, so a call names its exchange.                        *)
(***************************************************************************)
EXTENDS Naturals, Sequences

CONSTANTS
    Calls,      \* invocations of the store's operations
    Keys,       \* session keys of the user
    Ids,        \* session ids the clock and the generator can produce
    None,       \* no session, no call
    MaxFaults   \* bound: disk, SQLite and process faults in a behaviour

ASSUME StoreAssumption ==
    /\ None \notin Ids
    /\ None \notin Calls
    /\ MaxFaults \in Nat

VARIABLES
    index,      \* active-sessions.yaml: Keys -> session id or None
    file,       \* conversation/sessions/<id>.md
    row,        \* the SQLite rows of a session
    indexLock,  \* holder of conversation-session-index:<user>
    fileLock,   \* holder of conversation-session-transcript:<user>:<id>
    pc,         \* where each call is
    req,        \* the arguments of each call
    sid,        \* the session a call works on (a local variable)
    copy,       \* the transcript a call has read under the transcript lock
    at,         \* number of exchanges before the one it appended
    tries,      \* mint attempts that collided
    did,        \* whether its transcript write was reported successful
    faults      \* faults so far

shared == <<index, file, row>>
locals == <<req, sid, copy, at, tries, did>>
vars == <<index, file, row, indexLock, fileLock, pc, req, sid, copy, at,
          tries, did, faults>>

Ops == {"ensure", "append", "end", "title", "rebuild"}

PCs == {"idle", "start", "mintFile", "mintRow", "publish",
        "appendRead", "appendWrite", "appendRows",
        "endRead", "endWrite", "endClear", "endRow",
        "titleWrite", "titleRow",
        "rebuildIndex", "rebuildFile", "rebuildWrite",
        "ok", "failed", "dead"}

Request == [op : Ops, key : Keys, expected : Ids \cup {None},
            skipIfTitled : BOOLEAN]

Transcript == [there : BOOLEAN, garbled : BOOLEAN, ended : BOOLEAN,
               turns : Seq(Calls), title : Calls \cup {None},
               snapshot : Calls \cup {None}]

Row == [there : BOOLEAN, ended : BOOLEAN, msgs : SUBSET (Nat \X Calls),
        title : Calls \cup {None}]

NoFile == [there |-> FALSE, garbled |-> FALSE, ended |-> FALSE,
           turns |-> <<>>, title |-> None, snapshot |-> None]

NoRow == [there |-> FALSE, ended |-> FALSE, msgs |-> {}, title |-> None]

\* buildFrontmatter: a new transcript, open, untitled, without exchanges.
Skeleton(snap) == [there |-> TRUE, garbled |-> FALSE, ended |-> FALSE,
                   turns |-> <<>>, title |-> None, snapshot |-> snap]

\* What the operations change in a transcript and in its row.
MarkEnded(t) == [t EXCEPT !.ended = TRUE]
Retitled(t, c) == [t EXCEPT !.title = c]
Resnapped(t, c) == [t EXCEPT !.snapshot = c]
Undecodable(t) == [t EXCEPT !.garbled = TRUE]

RowOpened(r) == [r EXCEPT !.there = TRUE, !.ended = FALSE, !.title = None]
RowEnded(r) == [r EXCEPT !.ended = TRUE]
RowRetitled(r, c) == [r EXCEPT !.title = c]

\* INSERT OR IGNORE keeps what is already at that turn index.
RowWith(r, i, c) ==
    IF \E m \in r.msgs : m[1] = i
      THEN r ELSE [r EXCEPT !.msgs = @ \cup {<<i, c>>}]

MaxMintAttempts == 3

NoMoreAttempts(n) == n = MaxMintAttempts

\* Mutation: generated ids are trusted to be new.
NeverTaken(s) == FALSE

IdTaken(s) == file[s].there

TypeOK ==
    /\ index \in [Keys -> Ids \cup {None}]
    /\ file \in [Ids -> Transcript]
    /\ row \in [Ids -> Row]
    /\ indexLock \in Calls \cup {None}
    /\ fileLock \in [Ids -> Calls \cup {None}]
    /\ pc \in [Calls -> PCs]
    /\ req \in [Calls -> Request]
    /\ sid \in [Calls -> Ids \cup {None}]
    /\ copy \in [Calls -> Transcript]
    /\ at \in [Calls -> Nat]
    /\ tries \in [Calls -> 0 .. MaxMintAttempts]
    /\ did \in [Calls -> BOOLEAN]
    /\ faults \in 0 .. MaxFaults

-----------------------------------------------------------------------------
(* The disk.  ScopedStore.write renames a complete temporary file into     *)
(* place and then appends to the change log: a failing write either left   *)
(* the old content ("lost") or, when only the change log failed, the new   *)
(* one ("landed").  Both throw.                                            *)

Outcomes == {"ok", "landed", "lost"}

Charge(o) ==
    \/ o = "ok" /\ UNCHANGED faults
    \/ o # "ok" /\ faults < MaxFaults /\ faults' = faults + 1

Wrote(o) == o # "lost"

Throws(o) == o # "ok"

\* The transcripts after writing t as the transcript of s.
Stored(s, t, o) == IF Wrote(o) THEN [file EXCEPT ![s] = t] ELSE file

\* A SQLite statement that fails is logged and the operation goes on.
SqlOutcomes == {"ok", "lost"}

Goto(c, l) == pc' = [pc EXCEPT ![c] = l]

HasOpen(k) == index[k] # None

-----------------------------------------------------------------------------
(* Calls                                                                   *)

Begin(c, r) ==
    /\ pc[c] = "idle"
    /\ req' = [req EXCEPT ![c] = r]
    /\ sid' = [sid EXCEPT ![c] = None]
    /\ tries' = [tries EXCEPT ![c] = 0]
    /\ did' = [did EXCEPT ![c] = FALSE]
    /\ Goto(c, "start")
    /\ UNCHANGED <<shared, indexLock, fileLock, copy, at, faults>>

\* ensureActiveSession and appendExchange without an expected id find an
\* active session under the index lock and reuse it.
Reuse(c) ==
    LET r == req[c] IN
    /\ pc[c] = "start"
    /\ r.op = "ensure" \/ (r.op = "append" /\ r.expected = None)
    /\ indexLock = None
    /\ HasOpen(r.key)
    /\ sid' = [sid EXCEPT ![c] = index[r.key]]
    /\ Goto(c, IF r.op = "ensure" THEN "ok" ELSE "appendRead")
    /\ UNCHANGED <<shared, indexLock, fileLock, req, copy, at, tries, did,
                   faults>>

\* ... or keep the index lock and mint one, after building its snapshot.
BeginMint(c) ==
    LET r == req[c] IN
    /\ pc[c] = "start"
    /\ r.op = "ensure" \/ (r.op = "append" /\ r.expected = None)
    /\ indexLock = None
    /\ ~HasOpen(r.key)
    /\ indexLock' = c
    /\ Goto(c, "mintFile")
    /\ UNCHANGED <<shared, fileLock, locals, faults>>

\* One attempt of mintAndRegisterWithSnapshot whose id is taken.
MintCollision(c, s) ==
    /\ pc[c] = "mintFile"
    /\ IdTaken(s)
    /\ tries' = [tries EXCEPT ![c] = tries[c] + 1]
    /\ IF NoMoreAttempts(tries[c] + 1)
         THEN Goto(c, "failed") /\ indexLock' = None
         ELSE UNCHANGED <<pc, indexLock>>
    /\ UNCHANGED <<shared, fileLock, req, sid, copy, at, did, faults>>

\* The transcript skeleton is written before anything refers to it.
MintFile(c, s) ==
    /\ pc[c] = "mintFile"
    /\ ~IdTaken(s)
    /\ \E o \in Outcomes :
         /\ Charge(o)
         /\ file' = Stored(s, Skeleton(IF req[c].op = "ensure" THEN c
                                                              ELSE None), o)
         /\ Goto(c, IF Throws(o) THEN "failed" ELSE "mintRow")
         /\ indexLock' = IF Throws(o) THEN None ELSE indexLock
         /\ sid' = IF Throws(o) THEN sid ELSE [sid EXCEPT ![c] = s]
    /\ UNCHANGED <<index, row, fileLock, req, copy, at, tries, did>>

\* upsertSession, best effort.
MintRow(c) ==
    LET s == sid[c] IN
    /\ pc[c] = "mintRow"
    /\ \E o \in SqlOutcomes :
         /\ Charge(o)
         /\ row' = IF o = "ok"
                     THEN [row EXCEPT ![s] = RowOpened(row[s])] ELSE row
    /\ Goto(c, "publish")
    /\ UNCHANGED <<index, file, indexLock, fileLock, locals>>

\* setActiveUnlocked, the last step under the index lock.
Publish(c) ==
    /\ pc[c] = "publish"
    /\ \E o \in Outcomes :
         /\ Charge(o)
         /\ index' = IF Wrote(o) THEN [index EXCEPT ![req[c].key] = sid[c]]
                                 ELSE index
         /\ Goto(c, IF Throws(o) THEN "failed"
                    ELSE IF req[c].op = "ensure" THEN "ok" ELSE "appendRead")
    /\ indexLock' = None
    /\ UNCHANGED <<file, row, fileLock, locals>>

-----------------------------------------------------------------------------
(* appendExchange                                                          *)

\* With expectedSessionId the exchange goes to that very session, whatever
\* the index says now; a session whose file does not exist is refused.
AppendExpected(c) ==
    LET s == req[c].expected IN
    /\ pc[c] = "start" /\ req[c].op = "append" /\ s # None
    /\ IF file[s].there
         THEN sid' = [sid EXCEPT ![c] = s] /\ Goto(c, "appendRead")
         ELSE UNCHANGED sid /\ Goto(c, "failed")
    /\ UNCHANGED <<shared, indexLock, fileLock, req, copy, at, tries, did,
                   faults>>

\* Mutation: the transcript is read and written without its lock.
AnyTime(s) == TRUE

Unlocked(s) == fileLock[s] = None

\* Take the transcript lock and read the file.
LockAndRead(c, s, l) ==
    /\ Unlocked(s)
    /\ fileLock' = [fileLock EXCEPT ![s] = c]
    /\ copy' = [copy EXCEPT ![c] = file[s]]
    /\ Goto(c, l)

\* Mutation: the lock outlives its section.
Kept(s) == UNCHANGED fileLock

Freed(s) == fileLock' = [fileLock EXCEPT ![s] = None]

\* Leave the locked section: what it read goes out of scope.
Unlock(c, s) ==
    /\ Freed(s)
    /\ copy' = [copy EXCEPT ![c] = NoFile]

AppendRead(c) ==
    /\ pc[c] = "appendRead"
    /\ LockAndRead(c, sid[c], "appendWrite")
    /\ UNCHANGED <<shared, indexLock, req, sid, at, tries, did, faults>>

\* The content the append writes: a file built from nothing when the file
\* vanished, the decoded file with the exchange at its end, or, when it does
\* not decode, the raw text with the exchange behind it.
WithExchange(t, c) ==
    IF t.there THEN [t EXCEPT !.turns = Append(t.turns, c)]
               ELSE [Skeleton(None) EXCEPT !.turns = <<c>>]

\* Mutation: the place of the exchange is counted after it was added.
TurnIndexAfter(t) == IF t.garbled THEN 0 ELSE Len(t.turns) + 1

TurnIndex(t) == IF t.garbled THEN 0 ELSE Len(t.turns)

AppendWrite(c) ==
    LET s == sid[c] t == copy[c] IN
    /\ pc[c] = "appendWrite"
    /\ at' = [at EXCEPT ![c] = TurnIndex(t)]
    /\ \E o \in Outcomes :
         /\ Charge(o)
         /\ file' = Stored(s, WithExchange(t, c), o)
         /\ did' = [did EXCEPT ![c] = ~Throws(o)]
         /\ Goto(c, IF Throws(o) THEN "failed" ELSE "appendRows")
    /\ Unlock(c, s)
    /\ UNCHANGED <<index, row, indexLock, req, sid, tries>>

\* appendMessage: the foreign key refuses a message of a session without a
\* row.
AppendRows(c) ==
    LET s == sid[c] IN
    /\ pc[c] = "appendRows"
    /\ \E o \in SqlOutcomes :
         /\ Charge(o)
         /\ row' = IF o = "ok" /\ row[s].there
                     THEN [row EXCEPT ![s] = RowWith(row[s], at[c], c)]
                     ELSE row
    /\ Goto(c, "ok")
    /\ UNCHANGED <<index, file, indexLock, fileLock, locals>>

-----------------------------------------------------------------------------
(* endActive                                                               *)

\* Under the index lock: which session is active, and is it the expected one.
\* The lock is released again before the transcript is touched.
EndCheck(c) ==
    LET r == req[c] s == index[r.key] IN
    /\ pc[c] = "start" /\ r.op = "end"
    /\ indexLock = None
    /\ IF s = None \/ (r.expected # None /\ s # r.expected)
         THEN Goto(c, "ok") /\ UNCHANGED sid
         ELSE Goto(c, "endRead") /\ sid' = [sid EXCEPT ![c] = s]
    /\ UNCHANGED <<shared, indexLock, fileLock, req, copy, at, tries, did,
                   faults>>

\* A missing or undecodable transcript only loses its index entry.
EndReadDead(c) ==
    /\ pc[c] = "endRead"
    /\ Unlocked(sid[c])
    /\ ~file[sid[c]].there \/ file[sid[c]].garbled
    /\ Goto(c, "endClear")
    /\ UNCHANGED <<shared, indexLock, fileLock, locals, faults>>

EndRead(c) ==
    /\ pc[c] = "endRead"
    /\ file[sid[c]].there /\ ~file[sid[c]].garbled
    /\ LockAndRead(c, sid[c], "endWrite")
    /\ UNCHANGED <<shared, indexLock, req, sid, at, tries, did, faults>>

EndWrite(c) ==
    LET s == sid[c] IN
    /\ pc[c] = "endWrite"
    /\ \E o \in Outcomes :
         /\ Charge(o)
         /\ file' = Stored(s, MarkEnded(copy[c]), o)
         /\ did' = [did EXCEPT ![c] = ~Throws(o)]
         /\ Goto(c, IF Throws(o) THEN "failed" ELSE "endClear")
    /\ Unlock(c, s)
    /\ UNCHANGED <<index, row, indexLock, req, sid, at, tries>>

\* Mutation: only an end that names a session clears the index.
ClearedIfExpected(c) ==
    IF req[c].expected = None THEN index
                              ELSE [index EXCEPT ![req[c].key] = None]

Cleared(c) == [index EXCEPT ![req[c].key] = None]

\* clearActive deletes the key's entry, whichever session it names by now.
EndClear(c) ==
    /\ pc[c] = "endClear"
    /\ indexLock = None
    /\ \E o \in Outcomes :
         /\ Charge(o)
         /\ index' = IF Wrote(o) THEN Cleared(c) ELSE index
         /\ Goto(c, IF Throws(o) THEN "failed"
                    ELSE IF did[c] THEN "endRow" ELSE "ok")
    /\ UNCHANGED <<file, row, indexLock, fileLock, locals>>

EndRow(c) ==
    LET s == sid[c] IN
    /\ pc[c] = "endRow"
    /\ \E o \in SqlOutcomes :
         /\ Charge(o)
         /\ row' = IF o = "ok" /\ row[s].there
                     THEN [row EXCEPT ![s] = RowEnded(row[s])] ELSE row
    /\ Goto(c, "ok")
    /\ UNCHANGED <<index, file, indexLock, fileLock, locals>>

-----------------------------------------------------------------------------
(* setTitle, with the index update TitleService.applyTitle adds to it      *)

TitleRefused(c) ==
    LET r == req[c] t == file[r.expected] IN
    /\ pc[c] = "start" /\ r.op = "title" /\ r.expected # None
    /\ Unlocked(r.expected)
    /\ ~t.there \/ t.garbled \/ (r.skipIfTitled /\ t.title # None)
    /\ Goto(c, "ok")
    /\ UNCHANGED <<shared, indexLock, fileLock, locals, faults>>

TitleRead(c) ==
    LET r == req[c] t == file[r.expected] IN
    /\ pc[c] = "start" /\ r.op = "title" /\ r.expected # None
    /\ t.there /\ ~t.garbled /\ ~(r.skipIfTitled /\ t.title # None)
    /\ LockAndRead(c, r.expected, "titleWrite")
    /\ sid' = [sid EXCEPT ![c] = r.expected]
    /\ UNCHANGED <<shared, indexLock, req, at, tries, did, faults>>

TitleWrite(c) ==
    LET s == sid[c] IN
    /\ pc[c] = "titleWrite"
    /\ \E o \in Outcomes :
         /\ Charge(o)
         /\ file' = Stored(s, Retitled(copy[c], c), o)
         /\ did' = [did EXCEPT ![c] = ~Throws(o)]
         /\ Goto(c, IF Throws(o) THEN "failed" ELSE "titleRow")
    /\ Unlock(c, s)
    /\ UNCHANGED <<index, row, indexLock, req, sid, at, tries>>

TitleRow(c) ==
    LET s == sid[c] IN
    /\ pc[c] = "titleRow"
    /\ \E o \in SqlOutcomes :
         /\ Charge(o)
         /\ row' = IF o = "ok" /\ row[s].there
                     THEN [row EXCEPT ![s] = RowRetitled(row[s], c)] ELSE row
    /\ Goto(c, "ok")
    /\ UNCHANGED <<index, file, indexLock, fileLock, locals>>

-----------------------------------------------------------------------------
(* rebuildMemorySnapshot                                                   *)

\* First compare: the active session is noted, then the snapshot is built
\* with no lock held.
RebuildCheck(c) ==
    LET r == req[c] s == index[r.key] IN
    /\ pc[c] = "start" /\ r.op = "rebuild"
    /\ indexLock = None
    /\ IF s = None \/ (r.expected # None /\ s # r.expected)
         THEN Goto(c, "failed") /\ UNCHANGED sid
         ELSE Goto(c, "rebuildIndex") /\ sid' = [sid EXCEPT ![c] = s]
    /\ UNCHANGED <<shared, indexLock, fileLock, req, copy, at, tries, did,
                   faults>>

\* buildSnapshot may throw, which writes nothing.
RebuildFails(c) ==
    /\ pc[c] = "rebuildIndex"
    /\ faults < MaxFaults /\ faults' = faults + 1
    /\ Goto(c, "failed")
    /\ UNCHANGED <<shared, indexLock, fileLock, locals>>

\* withMultiFileLock takes the index lock first: it sorts before the other.
RebuildLockIndex(c) ==
    /\ pc[c] = "rebuildIndex"
    /\ indexLock = None
    /\ indexLock' = c
    /\ Goto(c, "rebuildFile")
    /\ UNCHANGED <<shared, fileLock, locals, faults>>

\* Mutation: no second compare.
RebuildFileThere(c) == file[sid[c]].there /\ ~file[sid[c]].garbled

\* Second compare, under both locks.
RebuildStillValid(c) ==
    LET s == sid[c] IN
    /\ index[req[c].key] = s
    /\ file[s].there /\ ~file[s].garbled /\ ~file[s].ended

RebuildAbort(c) ==
    /\ pc[c] = "rebuildFile"
    /\ Unlocked(sid[c])
    /\ ~RebuildStillValid(c)
    /\ indexLock' = None
    /\ Goto(c, "failed")
    /\ UNCHANGED <<shared, fileLock, locals, faults>>

RebuildRead(c) ==
    /\ pc[c] = "rebuildFile"
    /\ RebuildStillValid(c)
    /\ LockAndRead(c, sid[c], "rebuildWrite")
    /\ UNCHANGED <<shared, indexLock, req, sid, at, tries, did, faults>>

RebuildWrite(c) ==
    LET s == sid[c] IN
    /\ pc[c] = "rebuildWrite"
    /\ \E o \in Outcomes :
         /\ Charge(o)
         /\ file' = Stored(s, Resnapped(copy[c], c), o)
         /\ did' = [did EXCEPT ![c] = ~Throws(o)]
         /\ Goto(c, IF Throws(o) THEN "failed" ELSE "ok")
    /\ Unlock(c, s)
    /\ indexLock' = None
    /\ UNCHANGED <<index, row, req, sid, at, tries>>

-----------------------------------------------------------------------------
(* The environment                                                         *)

\* A transcript edited by hand no longer decodes.  Doing so between a locked
\* read and its write is the same as not doing it: the write restores it.
Corrupt(s) ==
    /\ file[s].there /\ ~file[s].garbled
    /\ fileLock[s] = None
    /\ faults < MaxFaults /\ faults' = faults + 1
    /\ file' = [file EXCEPT ![s] = Undecodable(file[s])]
    /\ UNCHANGED <<index, row, indexLock, fileLock, pc, locals>>

Running(c) == pc[c] \notin {"idle", "ok", "failed", "dead"}

\* The process stops and starts again: files and rows stay, calls do not.
Restart ==
    /\ faults < MaxFaults /\ faults' = faults + 1
    /\ pc' = [c \in Calls |-> IF Running(c) THEN "dead" ELSE pc[c]]
    /\ indexLock' = None
    /\ fileLock' = [s \in Ids |-> None]
    /\ copy' = [c \in Calls |-> NoFile]
    /\ UNCHANGED <<shared, req, sid, at, tries, did>>

-----------------------------------------------------------------------------
\* The files an earlier run of the program left: no session yet, or one that
\* is active under some key.
FilesFrom(k, s) ==
    /\ index = [j \in Keys |-> IF j = k THEN s ELSE None]
    /\ file = [i \in Ids |-> IF i = s THEN Skeleton(None) ELSE NoFile]
    /\ row = [i \in Ids |-> IF i = s THEN [NoRow EXCEPT !.there = TRUE]
                                     ELSE NoRow]

Init ==
    /\ \E k \in Keys, s \in Ids \cup {None} : FilesFrom(k, s)
    /\ indexLock = None
    /\ fileLock = [s \in Ids |-> None]
    /\ pc = [c \in Calls |-> "idle"]
    /\ \E k \in Keys : req = [c \in Calls |->
         [op |-> "ensure", key |-> k, expected |-> None,
          skipIfTitled |-> FALSE]]
    /\ sid = [c \in Calls |-> None]
    /\ copy = [c \in Calls |-> NoFile]
    /\ at = [c \in Calls |-> 0]
    /\ tries = [c \in Calls |-> 0]
    /\ did = [c \in Calls |-> FALSE]
    /\ faults = 0

\* A session id a caller can name: the active one, which peekActive answers,
\* or one an earlier call answered.
Known(s) ==
    \/ \E k \in Keys : index[k] = s
    \/ \E c \in Calls : pc[c] = "ok" /\ sid[c] = s

\* The requests the callers make.
Sensible(r) ==
    /\ r.op = "title" => r.expected # None
    /\ r.op = "ensure" => r.expected = None
    /\ r.op # "title" => ~r.skipIfTitled
    /\ r.expected # None => Known(r.expected)

StoreStep(c) ==
    \/ Reuse(c) \/ BeginMint(c)
    \/ \E s \in Ids : MintCollision(c, s)
    \/ \E s \in Ids : MintFile(c, s)
    \/ MintRow(c) \/ Publish(c)
    \/ AppendExpected(c) \/ AppendRead(c) \/ AppendWrite(c) \/ AppendRows(c)
    \/ EndCheck(c) \/ EndReadDead(c) \/ EndRead(c) \/ EndWrite(c)
    \/ EndClear(c) \/ EndRow(c)
    \/ TitleRefused(c) \/ TitleRead(c) \/ TitleWrite(c) \/ TitleRow(c)
    \/ RebuildCheck(c) \/ RebuildFails(c) \/ RebuildLockIndex(c)
    \/ RebuildAbort(c) \/ RebuildRead(c) \/ RebuildWrite(c)

Next ==
    \/ \E c \in Calls, r \in Request : Sensible(r) /\ Begin(c, r)
    \/ \E c \in Calls : StoreStep(c)
    \/ \E s \in Ids : Corrupt(s)
    \/ Restart

Spec == Init /\ [][Next]_vars
-----------------------------------------------------------------------------
(* Safety                                                                  *)

\* The index never names a session whose transcript does not exist: the
\* skeleton is written before the id is published, so a caller that peeks an
\* id can always append to it.  Restarts, failed writes and collisions of
\* generated ids included.
PublishedHasFile ==
    \A k \in Keys : index[k] # None => file[index[k]].there

\* No session is active under two keys: an id is minted only when no
\* transcript has it, and a session that left its key never comes back.
OneKeyPerSession ==
    \A j, k \in Keys : index[j] # None /\ index[j] = index[k] => j = k

\* Search never shows a message at a place the transcript does not have it,
\* nor an open session as ended, although each row is written after the
\* transcript lock is gone and every SQLite statement may fail.
MirrorFaithful ==
    \A s \in Ids : ~file[s].garbled =>
      /\ \A m \in row[s].msgs :
           m[1] < Len(file[s].turns) /\ file[s].turns[m[1] + 1] = m[2]
      /\ row[s].ended => file[s].ended

\* The store is a ledger (ChatLedger): no interleaving of appends, ends,
\* titles and rebuilds, no failure and no restart loses, repeats or reorders
\* an exchange, or reopens a session that has ended.
SessionState == [s \in Ids |-> IF ~file[s].there THEN "absent"
                               ELSE IF file[s].ended THEN "ended" ELSE "open"]

Ledger == INSTANCE ChatLedger
            WITH Exchanges <- Calls, state <- SessionState,
                 log <- [s \in Ids |-> file[s].turns]

ImplementsLedger == Ledger!LedgerSpec

\* /refreshmemory replaces the snapshot of a session only while that session
\* is the active one of the key and has not ended: the check made before the
\* snapshot is built is made again when it is written.
RebuildOnlyLive ==
    [][\A c \in Calls : RebuildWrite(c) =>
         /\ index[req[c].key] = sid[c]
         /\ ~file[sid[c]].ended]_vars

-----------------------------------------------------------------------------
(* The inductive invariant: how locks, program counters, copies and files  *)
(* hang together.                                                          *)

InIndexSection ==
    {"mintFile", "mintRow", "publish", "rebuildFile", "rebuildWrite"}

InFileSection == {"appendWrite", "endWrite", "titleWrite", "rebuildWrite"}

Bound == InFileSection \cup
    {"mintRow", "publish", "appendRead", "appendRows", "endRead", "endClear",
     "endRow", "titleRow", "rebuildIndex", "rebuildFile"}

\* Attempts are counted and the fourth is never made.
TriesInv ==
    \A c \in Calls :
      pc[c] \in {"start", "mintFile"} => tries[c] < MaxMintAttempts

\* Whoever is inside a locked section holds its lock.
LockInv ==
    \A c \in Calls :
      /\ pc[c] \in InIndexSection => indexLock = c
      /\ pc[c] \in InFileSection => fileLock[sid[c]] = c

\* A call that works on a session works on one whose transcript exists.
BoundInv ==
    \A c \in Calls :
      pc[c] \in Bound => sid[c] \in Ids /\ file[sid[c]].there

\* Inside its locked section a call's copy is the transcript.
CopyInv ==
    \A c \in Calls : pc[c] \in InFileSection => copy[c] = file[sid[c]]

\* A session being minted is not active yet.
MintInv ==
    \A c \in Calls :
      pc[c] \in {"mintRow", "publish"} => \A k \in Keys : index[k] # sid[c]

\* A rebuild about to write works on the active session, not ended.
RebuildInv ==
    \A c \in Calls :
      pc[c] = "rebuildWrite" =>
        index[req[c].key] = sid[c] /\ ~file[sid[c]].ended

\* A transcript that does not exist holds nothing.
AbsentInv == \A s \in Ids : ~file[s].there => file[s].turns = <<>>

\* The exchange of a call is nowhere before the call wrote it.
FreshInv ==
    \A c \in Calls :
      pc[c] \in {"idle", "start", "mintFile", "mintRow", "publish",
                 "appendRead", "appendWrite"} =>
        \A s \in Ids : \A i \in 1 .. Len(file[s].turns) :
          file[s].turns[i] # c

IInv ==
    /\ TypeOK
    /\ TriesInv
    /\ LockInv
    /\ BoundInv
    /\ CopyInv
    /\ MintInv
    /\ RebuildInv
    /\ AbsentInv
    /\ FreshInv
    /\ PublishedHasFile
    /\ OneKeyPerSession

-----------------------------------------------------------------------------
(* Liveness.  The event loop runs every promise that can settle, and the   *)
(* locks are first come, first served.                                     *)

Fairness == \A c \in Calls : WF_vars(StoreStep(c))

FairSpec == Spec /\ Fairness

\* Every call returns or dies with its process: no lock is left behind by an
\* error path and no two calls wait for each other.
EveryCallReturns == \A c \in Calls : Running(c) ~> ~Running(c)

\* A session that has ended leaves the index, as long as nothing fails and the
\* process does not stop between the two writes of endActive.
EndedLeavesIndex ==
    \A k \in Keys, s \in Ids :
      (index[k] = s /\ file[s].ended) ~> (index[k] # s \/ faults > 0)
=============================================================================
