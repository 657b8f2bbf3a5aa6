-------------------------------- MODULE Edits --------------------------------
(***************************************************************************)
(* One data file that several parties change: calls of /edit, which        *)
(* propose a new content, show it and apply it when its button is pressed; *)
(* scoped appends with front matter, which share the file's lock with      *)
(* them; and apps that write, append to or archive the file through their  *)
(* scoped store without that lock.                                         *)
(*                                                                         *)
(* The content is the set of marks in it; everybody who changes the file   *)
(* puts a mark of their own. Equal contents have equal hashes.             *)
(***************************************************************************)
EXTENDS Naturals, FiniteSets

CONSTANTS
    Edits,       \* the calls of /edit
    Appends,     \* the appends with front matter
    Apps,        \* the apps' other calls on the file
    Users,
    Sequential,  \* TRUE: long polling, a handler ends before the next update
    MaxFaults,   \* a bound: failed sends, writes and log entries, and crashes
    None

Lockers == Edits \cup Appends
Marks   == Lockers \cup Apps

Buttons == {"Confirm", "Cancel"}
Answers == {"error", "none pending", "superseded", "cancelled", "failed", "applied"}
Outcomes == {"expired", "stale_rejected", "confirmed"}

ASSUME EditsAssumption ==
    /\ Edits \cap Appends = {} /\ Lockers \cap Apps = {}
    /\ None \notin Marks \cup Users \cup Buttons \cup Answers \cup Outcomes
    /\ Sequential \in BOOLEAN /\ MaxFaults \in Nat

VARIABLES
    there, lines,    \* the file and the marks in it
    lock,            \* who holds its lock
    pc,              \* where a call is
    user,            \* whose /edit it is
    before, after,   \* the contents of a proposal; for an app before is what it
                     \* has read, for an append what its stat told of the content
    seenThere,       \* an append found the file
    slot,            \* pendingEdits
    tap,             \* the button pressed under a preview
    told,            \* what the user was told in the end
    audit,           \* the outcome in the edit log
    faults,
    applied,         \* proposals written to the file (history)
    superseded,      \* proposals replaced by a newer one before they were
                     \* confirmed (history)
    inTime,          \* previews whose button was pressed in time, and not so
                     \* early that the press was dropped (history)
    unseen,          \* marks a locked writer overwrote without having looked at
                     \* them (history)
    late             \* marks put without the lock while its holder had looked
                     \* and not yet written (history)

fileVars == <<there, lines, lock, seenThere, unseen, late>>
talkVars == <<user, slot, tap, told, inTime, superseded>>
vars == <<there, lines, lock, pc, user, before, after, seenThere, slot, tap, told,
          audit, faults, applied, superseded, inTime, unseen, late>>

Init ==
    /\ there \in BOOLEAN /\ lines = {}
    /\ lock = None
    /\ pc = [m \in Marks |-> "idle"]
    /\ user = [e \in Edits |-> None]
    /\ before = [m \in Marks |-> {}] /\ after = [e \in Edits |-> {}]
    /\ seenThere = [a \in Appends |-> FALSE]
    /\ slot = [u \in Users |-> None]
    /\ tap = [e \in Edits |-> None] /\ told = [e \in Edits |-> None]
    /\ audit = [e \in Edits |-> None]
    /\ faults = 0
    /\ applied = {} /\ superseded = {} /\ inTime = {} /\ unseen = {} /\ late = {}

Goto(m, place) == pc' = [pc EXCEPT ![m] = place]
Fault == faults < MaxFaults /\ faults' = faults + 1

Running(e) == pc[e] \notin {"idle", "done"}

(* mutation: one call of /edit at a time, over any transport               *)
OneAtATime == \A e \in Edits : ~Running(e)

(* Long polling hands over an update when the handler of the one before    *)
(* ended.                                                                  *)
CanDeliver == Sequential => \A e \in Edits : ~Running(e)

(* The finally block: the slot without this call's proposal.               *)
FreeOwn(e) == IF slot[user[e]] = e THEN [slot EXCEPT ![user[e]] = None] ELSE slot

(* The answer of a call whose proposal is not in the slot, and its end:    *)
(* nothing puts the proposal back while the answer is sent. A failed send  *)
(* tells nobody.                                                           *)
Answer(e, text) ==
    /\ Goto(e, "done")
    /\ \/ told' = [told EXCEPT ![e] = text] /\ UNCHANGED faults
       \/ Fault /\ UNCHANGED told

(* mutation: the catch block reports what it caught                        *)
Reported(e) == Goto(e, "done") /\ told' = [told EXCEPT ![e] = "failed"]

(* The catch block tells nobody.                                           *)
Swallowed(e) == Goto(e, "done") /\ UNCHANGED told

-----------------------------------------------------------------------------
(* proposeEdit                                                             *)

(* The command arrives; the query looks for the file.                      *)
Command(e) ==
    /\ pc[e] = "idle" /\ CanDeliver
    /\ \E u \in Users : user' = [user EXCEPT ![e] = u]
    /\ Goto(e, "find")
    /\ UNCHANGED <<fileVars, before, after, slot, tap, told, inTime, superseded,
                   audit, faults, applied>>

(* No file, several, or none that may be written; or the model fails,      *)
(* changes nothing or answers with too much.                               *)
Refuse(e) ==
    /\ pc[e] \in {"find", "generate"}
    /\ Answer(e, "error")
    /\ UNCHANGED <<fileVars, user, before, after, slot, tap, inTime, superseded,
                   audit, applied>>

ReadBefore(e) ==
    /\ pc[e] = "find" /\ there
    /\ before' = [before EXCEPT ![e] = lines]
    /\ Goto(e, "generate")
    /\ UNCHANGED <<fileVars, talkVars, after, audit, faults, applied>>

(* The model may keep or drop what it was shown.                           *)
Rewrites(e) == {before[e] \cup {e}, {e}}

(* Where the preview of a call is on the screen, or about to be.           *)
OnScreen == {"offer", "choice", "lapsed"}

(* Proposals of the same user still to be confirmed.                       *)
Outstanding(e) == {f \in Edits : user[f] = user[e] /\ pc[f] \in OnScreen}

(* A proposal takes the slot of its user at once; then the sending of its  *)
(* preview begins.                                                         *)
Generate(e) ==
    /\ pc[e] = "generate"
    /\ \E new \in Rewrites(e) : after' = [after EXCEPT ![e] = new]
    /\ slot' = [slot EXCEPT ![user[e]] = e]
    /\ superseded' = superseded \cup Outstanding(e)
    /\ Goto(e, "offer")
    /\ UNCHANGED <<fileVars, user, before, tap, told, inTime, audit, faults, applied>>

-----------------------------------------------------------------------------
(* sendOptions and its answer                                              *)

(* The user may press as soon as the preview is on the screen.             *)
Tap(e, button) ==
    /\ pc[e] \in OnScreen /\ tap[e] = None
    /\ tap' = [tap EXCEPT ![e] = button]
    /\ inTime' = IF pc[e] = "lapsed" THEN inTime ELSE inTime \cup {e}
    /\ UNCHANGED <<fileVars, pc, user, before, after, slot, told, superseded, audit,
                   faults, applied>>

(* A press that is handed over before sendMessage has returned finds no    *)
(* entry and is dropped; the button may be pressed again.                  *)
DropPress(e) ==
    /\ pc[e] = "offer" /\ tap[e] # None /\ CanDeliver
    /\ tap' = [tap EXCEPT ![e] = None]
    /\ inTime' = inTime \ {e}
    /\ UNCHANGED <<fileVars, pc, user, before, after, slot, told, superseded, audit,
                   faults, applied>>

(* The proposal's five minutes are long: a press that can be handed over   *)
(* by then has been.                                                       *)
HandedOver(e) == tap[e] # None => ~CanDeliver

(* The preview is sent: its buttons are known from now on. The sending may *)
(* have outlasted the proposal.                                            *)
Listen(e) ==
    /\ pc[e] = "offer"
    /\ \/ Goto(e, "choice")
       \/ HandedOver(e) /\ Goto(e, "lapsed")
    /\ UNCHANGED <<fileVars, talkVars, before, after, audit, faults, applied>>

(* The five minutes pass.                                                  *)
Expire(e) ==
    /\ pc[e] = "choice" /\ HandedOver(e)
    /\ Goto(e, "lapsed")
    /\ UNCHANGED <<fileVars, talkVars, before, after, audit, faults, applied>>

NoChoice(e) ==
    /\ slot' = FreeOwn(e)
    /\ Goto(e, "done")
    /\ UNCHANGED <<fileVars, user, before, after, tap, told, inTime, superseded, audit,
                   applied>>

(* The timer of the options, which starts when the preview is sent.        *)
TimeOut(e) == pc[e] = "lapsed" /\ NoChoice(e) /\ UNCHANGED faults

(* The preview could not be sent, or so it seems: handleEdit swallows      *)
(* that.                                                                   *)
OfferFails(e) == pc[e] = "offer" /\ Fault /\ NoChoice(e)

Pressed(e, button) == pc[e] \in {"choice", "lapsed"} /\ tap[e] = button /\ CanDeliver

(* mutation: whatever the slot holds is taken for the proposal shown       *)
TakesAny(e) == slot[user[e]] # None

(* The stored proposal is the one of this preview.                         *)
StillPending(e) == slot[user[e]] = e

(* Confirm, but the slot is empty or belongs to a newer proposal.          *)
ConfirmTooLate(e) ==
    /\ Pressed(e, "Confirm") /\ ~StillPending(e)
    /\ \/ slot[user[e]] = None /\ Answer(e, "none pending")
       \/ slot[user[e]] # None /\ Answer(e, "superseded")
    /\ UNCHANGED <<fileVars, user, before, after, slot, tap, inTime, superseded,
                   audit, applied>>

(* Confirm: the slot is freed and confirmEdit begins.                      *)
Confirm(e) ==
    /\ Pressed(e, "Confirm") /\ StillPending(e) /\ pc[e] = "choice"
    /\ slot' = [slot EXCEPT ![user[e]] = None]
    /\ Goto(e, "lock")
    /\ UNCHANGED <<fileVars, user, before, after, tap, told, inTime, superseded, audit,
                   faults, applied>>

(* The same after the expiry, which is logged.                             *)
ConfirmExpired(e) ==
    /\ Pressed(e, "Confirm") /\ StillPending(e) /\ pc[e] = "lapsed"
    /\ slot' = [slot EXCEPT ![user[e]] = None]
    /\ \/ audit' = [audit EXCEPT ![e] = "expired"] /\ Answer(e, "failed")
       \/ Fault /\ Swallowed(e) /\ UNCHANGED audit
    /\ UNCHANGED <<fileVars, user, before, after, tap, inTime, superseded, applied>>

(* Cancel frees the slot, whoever holds it.                                *)
Cancel(e) ==
    /\ Pressed(e, "Cancel")
    /\ slot' = [slot EXCEPT ![user[e]] = None]
    /\ Answer(e, "cancelled")
    /\ UNCHANGED <<fileVars, user, before, after, tap, inTime, superseded,
                   audit, applied>>

-----------------------------------------------------------------------------
(* confirmEdit                                                             *)

(* realpath or, under the lock, the read finds no file.                    *)
Vanished(e) ==
    /\ pc[e] \in {"lock", "look"} /\ ~there
    /\ lock' = IF lock = e THEN None ELSE lock
    /\ Answer(e, "failed")
    /\ UNCHANGED <<there, lines, seenThere, unseen, late, user, before, after, slot,
                   tap, inTime, superseded,
                   audit, applied>>

(* withFileLock, for an edit and for an append                             *)
Lock(m) ==
    /\ pc[m] = "lock" /\ lock = None
    /\ lock' = m
    /\ Goto(m, "look")
    /\ UNCHANGED <<there, lines, seenThere, unseen, late, talkVars, before, after,
                   audit, faults, applied>>

Unlock(m) == lock' = None

(* mutation: the hash is not compared                                      *)
Trusting(e) == TRUE

(* The content still has the hash of the proposal.                         *)
Unchanged(e) == lines = before[e]

Fresh(e) ==
    /\ pc[e] = "look" /\ there /\ Unchanged(e)
    /\ Goto(e, "write")
    /\ UNCHANGED <<fileVars, talkVars, before, after, audit, faults, applied>>

(* It has not: that is logged.                                             *)
Stale(e) ==
    /\ pc[e] = "look" /\ there /\ ~Unchanged(e)
    /\ audit' = [audit EXCEPT ![e] = "stale_rejected"]
    /\ Unlock(e)
    /\ Answer(e, "failed")
    /\ UNCHANGED <<there, lines, seenThere, unseen, late, user, before, after, slot,
                   tap, inTime, superseded, applied>>

(* Marks of the file that a locked writer drops without having looked at   *)
(* them.                                                                   *)
Missed(m) == lines \ before[m]

(* atomicWrite                                                             *)
Write(e) ==
    /\ pc[e] = "write"
    /\ there' = TRUE /\ lines' = after[e]
    /\ unseen' = unseen \cup Missed(e)
    /\ applied' = applied \cup {e}
    /\ Goto(e, "record")
    /\ UNCHANGED <<lock, seenThere, late, talkVars, before, after, audit, faults>>

(* Edit log, change log, event and return.                                 *)
Record(e) ==
    /\ pc[e] = "record"
    /\ audit' = [audit EXCEPT ![e] = "confirmed"]
    /\ Unlock(e)
    /\ Answer(e, "applied")
    /\ UNCHANGED <<there, lines, seenThere, unseen, late, user, before, after, slot,
                   tap, inTime, superseded, applied>>

(* The write or an entry of one of the logs fails: the exception leaves    *)
(* the lock and handleEdit swallows it, so nobody is told. The change log  *)
(* comes after the edit log.                                               *)
Throws(e) ==
    /\ \/ pc[e] = "look" /\ there /\ ~Unchanged(e) /\ UNCHANGED audit
       \/ pc[e] = "write" /\ UNCHANGED audit
       \/ pc[e] = "record" /\ \/ UNCHANGED audit
                              \/ audit' = [audit EXCEPT ![e] = "confirmed"]
    /\ Fault
    /\ Unlock(e)
    /\ Swallowed(e)
    /\ UNCHANGED <<there, lines, seenThere, unseen, late, user, before, after, slot,
                   tap, inTime, superseded, applied>>

-----------------------------------------------------------------------------
(* ScopedStore.append with front matter: appendWithFrontmatter             *)

(* withFileLock                                                            *)
ViaLock == "lock"

StartAppend(a) ==
    /\ pc[a] = "idle"
    /\ Goto(a, ViaLock)
    /\ UNCHANGED <<fileVars, talkVars, before, after, audit, faults, applied>>

(* stat.  When the file is missing, whatever it holds later is unknown.    *)
Stat(a) ==
    /\ pc[a] = "look"
    /\ seenThere' = [seenThere EXCEPT ![a] = there]
    /\ before' = [before EXCEPT ![a] = {}]
    /\ Goto(a, "write")
    /\ UNCHANGED <<there, lines, lock, unseen, late, talkVars, after, audit, faults,
                   applied>>

(* The file was missing: writeFile with the front matter.                  *)
Create(a) ==
    /\ pc[a] = "write" /\ ~seenThere[a]
    /\ lines' = {a} /\ unseen' = unseen \cup Missed(a)
    /\ there' = TRUE
    /\ Unlock(a) /\ Goto(a, "done")
    /\ UNCHANGED <<seenThere, late, talkVars, before, after, audit, faults, applied>>

(* The file was there: appendFile, which creates it when it is gone by     *)
(* now.                                                                    *)
AddLine(a) ==
    /\ pc[a] = "write" /\ seenThere[a]
    /\ lines' = lines \cup {a} /\ there' = TRUE
    /\ Unlock(a) /\ Goto(a, "done")
    /\ UNCHANGED <<seenThere, unseen, late, talkVars, before, after, audit, faults,
                   applied>>

(* stat or the write fails.                                                *)
AppendFails(a) ==
    /\ pc[a] \in {"look", "write"} /\ Fault
    /\ Unlock(a) /\ Goto(a, "done")
    /\ UNCHANGED <<there, lines, seenThere, unseen, late, talkVars, before, after,
                   audit, applied>>

-----------------------------------------------------------------------------
(* Apps, without the lock                                                  *)

(* The holder of the lock has looked and is about to replace the file.     *)
InWindow ==
    \/ \E e \in Edits : pc[e] = "write"
    \/ \E a \in Appends : pc[a] = "write" /\ ~seenThere[a]

PutUnlocked(x) == late' = IF InWindow THEN late \cup {x} ELSE late

(* read                                                                    *)
AppRead(x) ==
    /\ pc[x] = "idle"
    /\ before' = [before EXCEPT ![x] = lines]
    /\ Goto(x, "save")
    /\ UNCHANGED <<fileVars, talkVars, after, audit, faults, applied>>

(* write: what was read with the app's own change                          *)
AppWrite(x) ==
    /\ pc[x] = "save"
    /\ there' = TRUE /\ lines' = before[x] \cup {x}
    /\ late' = IF InWindow THEN late \cup before[x] \cup {x} ELSE late
    /\ Goto(x, "done")
    /\ UNCHANGED <<lock, seenThere, unseen, talkVars, before, after, audit, faults,
                   applied>>

(* append without front matter                                             *)
AppAppend(x) ==
    /\ pc[x] = "idle"
    /\ there' = TRUE /\ lines' = lines \cup {x}
    /\ PutUnlocked(x)
    /\ Goto(x, "done")
    /\ UNCHANGED <<lock, seenThere, unseen, talkVars, before, after, audit, faults,
                   applied>>

(* archive: the file moves away with its marks                             *)
AppArchive(x) ==
    /\ pc[x] = "idle" /\ there
    /\ there' = FALSE /\ lines' = {}
    /\ Goto(x, "done")
    /\ UNCHANGED <<lock, seenThere, unseen, late, talkVars, before, after, audit,
                   faults, applied>>

-----------------------------------------------------------------------------

(* The process dies: the file and its logs stay, calls and the slots do    *)
(* not.                                                                    *)
Crash ==
    /\ Fault
    /\ lock' = None
    /\ slot' = [u \in Users |-> None]
    /\ pc' = [m \in Marks |-> IF pc[m] = "idle" THEN "idle" ELSE "done"]
    /\ UNCHANGED <<there, lines, user, before, after, seenThere, tap, told, audit,
                   applied, superseded, inTime, unseen, late>>

EditStep(e) ==
    \/ Refuse(e) \/ ReadBefore(e) \/ Generate(e) \/ Listen(e) \/ Expire(e)
    \/ TimeOut(e)
    \/ ConfirmTooLate(e) \/ Confirm(e) \/ ConfirmExpired(e) \/ Cancel(e)
    \/ Vanished(e) \/ Lock(e) \/ Fresh(e) \/ Stale(e) \/ Write(e) \/ Record(e)

AppendStep(a) == Lock(a) \/ Stat(a) \/ Create(a) \/ AddLine(a)

AppStep(x) == AppRead(x) \/ AppWrite(x) \/ AppAppend(x) \/ AppArchive(x)

Next ==
    \/ \E e \in Edits : \/ Command(e) \/ EditStep(e) \/ OfferFails(e) \/ Throws(e)
                        \/ DropPress(e)
                        \/ \E button \in Buttons : Tap(e, button)
    \/ \E a \in Appends : StartAppend(a) \/ AppendStep(a) \/ AppendFails(a)
    \/ \E x \in Apps : AppStep(x)
    \/ Crash

Spec == Init /\ [][Next]_vars

-----------------------------------------------------------------------------

EditPlaces == {"idle", "find", "generate", "offer", "choice", "lapsed", "lock",
               "look", "write", "record", "done"}
AppendPlaces == {"idle", "lock", "look", "write", "done"}

PlacesOK ==
    /\ pc \in [Marks -> EditPlaces \cup {"save"}]
    /\ \A e \in Edits : pc[e] \in EditPlaces
    /\ \A a \in Appends : pc[a] \in AppendPlaces
    /\ \A x \in Apps : pc[x] \in {"idle", "save", "done"}

FileOK ==
    /\ there \in BOOLEAN /\ lines \subseteq Marks
    /\ lock \in Lockers \cup {None}
    /\ before \in [Marks -> SUBSET Marks] /\ after \in [Edits -> SUBSET Marks]
    /\ seenThere \in [Appends -> BOOLEAN]
    /\ unseen \subseteq Marks /\ late \subseteq Marks

TalkOK ==
    /\ user \in [Edits -> Users \cup {None}]
    /\ \A e \in Edits : pc[e] # "idle" => user[e] \in Users
    /\ slot \in [Users -> Edits \cup {None}]
    /\ tap \in [Edits -> Buttons \cup {None}]
    /\ told \in [Edits -> Answers \cup {None}]
    /\ superseded \subseteq Edits /\ inTime \subseteq Edits

OutcomeOK ==
    /\ audit \in [Edits -> Outcomes \cup {None}]
    /\ faults \in 0 .. MaxFaults
    /\ applied \subseteq Edits

(* The state has the shape the code gives it.                              *)
TypeOK == PlacesOK /\ FileOK /\ TalkOK /\ OutcomeOK

(* "SHA-256 stale-write protection": an edit or a first append overwrites  *)
(* only what was shown or what it found, but for what an app put without   *)
(* the lock between the look and the write. What an app's own write puts   *)
(* back or drops, which takes no lock at all, is not bounded by this.      *)
NoSilentOverwrite == unseen \subseteq late

(* What is applied was confirmed under its own preview, and no newer       *)
(* proposal of the user had replaced it by then.                           *)
OnlyNewestApplied == \A e \in applied : tap[e] = "Confirm" /\ e \notin superseded

(* What the user is told is what happened to the file, and the edit log    *)
(* says so.                                                                *)
AnswersTrue ==
    \A e \in Edits :
       /\ told[e] = "applied" => e \in applied
       /\ told[e] \notin {None, "applied"} => e \notin applied
       /\ audit[e] = "confirmed" => e \in applied
       /\ e \in applied /\ ~Running(e) /\ faults = 0 =>
             audit[e] = "confirmed" /\ told[e] = "applied"

(* "Returns a Promise that resolves with the selected option text": a      *)
(* press is answered when it comes before the proposal has lapsed and is   *)
(* not handed over before the buttons are known, when it is dropped.       *)
PressAnswered ==
    \A e \in inTime : pc[e] = "done" /\ faults = 0 => told[e] # None

-----------------------------------------------------------------------------
(* What the proofs need beyond that                                        *)

(* Who is in the locked section holds the lock.                            *)
LockInv == \A m \in Lockers : pc[m] \in {"look", "write", "record"} => lock = m

(* A missing file has no marks.                                            *)
AbsentInv == ~there => lines = {}

(* What a writer would overwrite unseen came while it was about to write.  *)
LookInv ==
    /\ \A e \in Edits : pc[e] = "write" => Missed(e) \subseteq late
    /\ \A a \in Appends : pc[a] = "write" /\ ~seenThere[a] => lines \subseteq late

(* A proposal in the slot is its user's newest and has a preview on the    *)
(* screen, to be confirmed or timed out: no /edit leaves one behind.       *)
SlotInv ==
    \A u \in Users : slot[u] # None =>
       user[slot[u]] = u /\ pc[slot[u]] \in OnScreen /\ slot[u] \notin superseded

(* Only proposals that were shown are superseded; a confirmed one never    *)
(* is.                                                                     *)
ShownInv ==
    /\ \A e \in superseded : pc[e] \notin {"idle", "find", "generate"}
    /\ \A e \in Edits : pc[e] \in {"lock", "look", "write", "record"} =>
          tap[e] = "Confirm" /\ e \notin superseded

(* An edit is written before it is recorded, and answered when it is over. *)
DoneInv ==
    /\ \A e \in Edits : told[e] # None => pc[e] = "done"
    /\ \A e \in applied : pc[e] \in {"record", "done"}
    /\ \A e \in Edits : pc[e] = "record" => e \in applied

(* Over the webhook a button pressed in time finds its proposal not yet    *)
(* lapsed.                                                                 *)
PressInv ==
    ~Sequential =>
       \A e \in inTime : /\ tap[e] # None
                         /\ pc[e] \in {"offer", "choice", "lock", "look", "write",
                                       "record", "done"}
                         /\ pc[e] = "done" /\ faults = 0 => told[e] # None

IInv ==
    /\ TypeOK /\ LockInv /\ AbsentInv /\ LookInv /\ SlotInv /\ ShownInv /\ DoneInv
    /\ PressInv /\ NoSilentOverwrite /\ OnlyNewestApplied /\ AnswersTrue
=============================================================================
