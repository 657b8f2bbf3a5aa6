------------------------------ MODULE Groceries ------------------------------
(***************************************************************************)
(* The shared grocery list of a household: what is on it, ticked or not,   *)
(* the history of what was cleared, the batch each member may still send   *)
(* to the pantry, and the follow-up an hour after a clear.                 *)
(*                                                                         *)
(* A call is a command or the press of a button. It loads the list under   *)
(* the grocery lock, decides, writes the history where it removes          *)
(* something, and saves the list; what follows is outside the lock. Items  *)
(* are numbers in the order they were put on the list, `name' says what    *)
(* they are.                                                               *)
(***************************************************************************)
EXTENDS Naturals, Sequences, FiniteSets

CONSTANTS
    Calls, Users, Names,
    MaxItems,     \* a bound: items ever put on the list
    MaxFaults,    \* a bound: failed writes, sends and model calls, and crashes
    None

Items == 1 .. MaxItems

ASSUME GroceriesAssumption ==
    MaxItems \in Nat /\ MaxFaults \in Nat /\ None \notin Calls \cup Users

VARIABLES
    list,         \* the items on the list, in the order of its buttons
    ticked,       \* those of them that are bought
    name,         \* what an item is
    history,      \* how often an item is in the history files
    pantry,       \* how often an item was added to the pantry
    pending,      \* pendingPantryItems
    timer,        \* the follow-up: whose it is
    asked,        \* members with a message that offers the pantry
    followed,     \* a follow-up message is on a screen
    lock,         \* who holds the grocery lock
    pc, task, who,
    copy, marks,  \* the list a call has loaded and changed, and its ticks
    batch,        \* what a call has removed, or takes to the pantry
    used,         \* items given out so far
    faults,
    saved,        \* items a saved list has held (history)
    dropped       \* items ticked when the remaining ones were cleared (history)

diskVars == <<list, ticked, history, pantry>>
memVars  == <<pending, timer>>
ghosts   == <<saved, dropped>>
vars == <<list, ticked, name, history, pantry, pending, timer, asked, followed, lock,
          pc, task, who, copy, marks, batch, used, faults, saved, dropped>>

Nothing == [kind |-> "none"]

Init ==
    /\ list = <<>> /\ ticked = {} /\ name = [i \in Items |-> None]
    /\ history = [i \in Items |-> 0] /\ pantry = [i \in Items |-> 0]
    /\ pending = [u \in Users |-> {}] /\ timer = None
    /\ asked = {} /\ followed = FALSE
    /\ lock = None
    /\ pc = [c \in Calls |-> "idle"] /\ task = [c \in Calls |-> Nothing]
    /\ who = [c \in Calls |-> None]
    /\ copy = [c \in Calls |-> <<>>] /\ marks = [c \in Calls |-> {}]
    /\ batch = [c \in Calls |-> {}]
    /\ used = 0 /\ faults = 0 /\ saved = {} /\ dropped = {}

Goto(c, place) == pc' = [pc EXCEPT ![c] = place]
Fault == faults < MaxFaults /\ faults' = faults + 1
On(items) == {items[k] : k \in DOMAIN items}

(* A call is over; its local variables are gone.                           *)
Over(c) ==
    /\ Goto(c, "idle")
    /\ task' = [task EXCEPT ![c] = Nothing] /\ who' = [who EXCEPT ![c] = None]
    /\ copy' = [copy EXCEPT ![c] = <<>>] /\ marks' = [marks EXCEPT ![c] = {}]
    /\ batch' = [batch EXCEPT ![c] = {}]

Local == <<task, who, copy, marks, batch>>

-----------------------------------------------------------------------------
(* Commands and buttons                                                    *)

(* What a member may ask for: items by name, a button of the list whatever *)
(* it showed, or, under the follow-up's message, to clear what remains.    *)
Requests ==
    [kind : {"add"}, name : Names] \cup [kind : {"toggle"}, at : Items]
      \cup [kind : {"clear", "prompt"}]
      \cup (IF followed THEN [kind : {"remaining"}] ELSE {})

Ask(c, u, t) ==
    /\ pc[c] = "idle"
    /\ task' = [task EXCEPT ![c] = t] /\ who' = [who EXCEPT ![c] = u]
    /\ Goto(c, "lock")
    /\ UNCHANGED <<diskVars, memVars, name, asked, followed, lock, copy, marks,
                   batch, used, faults, ghosts>>

(* withGroceryLock                                                         *)
Lock(c) ==
    /\ pc[c] = "lock" /\ lock = None
    /\ lock' = c
    /\ Goto(c, "load")
    /\ UNCHANGED <<diskVars, memVars, name, asked, followed, Local, used, faults,
                   ghosts>>

(* mutation: new items come first                                          *)
AtTheTop(c, i) == <<i>> \o list

(* A new item comes last.                                                  *)
AtTheEnd(c, i) == list \o <<i>>

Named(n) == {i \in On(list) : name[i] = n}

(* addItems: an item of that name is not bought any more, or there is a    *)
(* new one.                                                                *)
LoadAdd(c) ==
    /\ pc[c] = "load" /\ task[c].kind = "add"
    /\ LET n == task[c].name IN
       IF Named(n) # {}
       THEN /\ copy' = [copy EXCEPT ![c] = list]
            /\ marks' = [marks EXCEPT ![c] = ticked \ Named(n)]
            /\ UNCHANGED <<used, name>>
       ELSE /\ used < MaxItems
            /\ used' = used + 1 /\ name' = [name EXCEPT ![used + 1] = n]
            /\ copy' = [copy EXCEPT ![c] = AtTheEnd(c, used + 1)]
            /\ marks' = [marks EXCEPT ![c] = ticked]
    /\ Goto(c, "save")
    /\ UNCHANGED <<diskVars, memVars, asked, followed, lock, task, who, batch,
                   faults, ghosts>>

(* togglePurchased, by position                                            *)
LoadToggle(c) ==
    /\ pc[c] = "load" /\ task[c].kind = "toggle" /\ task[c].at \in DOMAIN list
    /\ copy' = [copy EXCEPT ![c] = list]
    /\ LET i == list[task[c].at] IN
       marks' = [marks EXCEPT ![c] = IF i \in ticked THEN ticked \ {i} ELSE ticked \cup {i}]
    /\ Goto(c, "save")
    /\ UNCHANGED <<diskVars, memVars, name, asked, followed, lock, task, who,
                   batch, used, faults, ghosts>>

(* The position is gone, or nothing is bought; or the bound is reached.    *)
LoadNothing(c) ==
    /\ pc[c] = "load"
    /\ \/ task[c].kind = "toggle" /\ task[c].at \notin DOMAIN list
       \/ task[c].kind = "prompt" /\ ticked = {}
       \/ task[c].kind = "add" /\ Named(task[c].name) = {} /\ used = MaxItems
    /\ lock' = None
    /\ Over(c)
    /\ UNCHANGED <<diskVars, memVars, name, asked, followed, used, faults,
                   ghosts>>

(* The rest of the list, in its order.                                     *)
Without(items) ==
    LET rest[k \in 0 .. Len(list)] ==
            IF k = 0 THEN <<>>
            ELSE IF list[k] \in items THEN rest[k - 1]
            ELSE Append(rest[k - 1], list[k])
    IN rest[Len(list)]

(* clearPurchased; the follow-up clears what is not bought, and all of the *)
(* list.                                                                   *)
Taken(c) == IF task[c].kind = "remaining" THEN On(list) \ ticked ELSE ticked
Left(c) == IF task[c].kind = "remaining" THEN <<>> ELSE Without(ticked)

Removing == {"clear", "prompt", "remaining"}

LoadClear(c) ==
    /\ pc[c] = "load" /\ task[c].kind \in Removing
    /\ task[c].kind = "prompt" => ticked # {}
    /\ batch' = [batch EXCEPT ![c] = Taken(c)]
    /\ copy' = [copy EXCEPT ![c] = Left(c)]
    /\ marks' = [marks EXCEPT ![c] = {}]
    /\ Goto(c, "archive")
    /\ UNCHANGED <<diskVars, memVars, name, asked, followed, lock, task, who,
                   used, faults, ghosts>>

(* mutation: the day's history is replaced                                 *)
Replaced(items) == [i \in Items |-> IF i \in items THEN 1 ELSE 0]

(* Merged with what the day's history has.                                 *)
Recorded(items) == [i \in Items |-> IF i \in items THEN history[i] + 1 ELSE history[i]]

(* archivePurchased                                                        *)
Archive(c) ==
    /\ pc[c] = "archive"
    /\ history' = Recorded(batch[c])
    /\ Goto(c, "save")
    /\ UNCHANGED <<list, ticked, pantry, memVars, name, asked, followed, lock,
                   Local, used, faults, ghosts>>

(* saveGroceryList; clearing the remaining items drops the ticked ones.    *)
Written(c) ==
    /\ list' = copy[c] /\ ticked' = marks[c]
    /\ saved' = saved \cup On(copy[c])
    /\ dropped' = IF task[c].kind = "remaining" THEN dropped \cup ticked ELSE dropped

(* The end of the locked section                                           *)
Save(c) ==
    /\ pc[c] = "save"
    /\ Written(c)
    /\ lock' = None
    /\ IF task[c].kind \in {"clear", "prompt"}
       THEN Goto(c, "after") /\ UNCHANGED Local
       ELSE Over(c)
    /\ UNCHANGED <<history, pantry, memVars, name, asked, followed, used,
                   faults>>

(* A write fails.  The scoped store may throw after the file was written.  *)
LockedFails(c) ==
    /\ Fault
    /\ \/ pc[c] \in {"load", "archive", "save"} /\ UNCHANGED <<diskVars, ghosts>>
       \/ pc[c] = "archive" /\ history' = Recorded(batch[c])
          /\ UNCHANGED <<list, ticked, pantry, ghosts>>
       \/ pc[c] = "save" /\ Written(c) /\ UNCHANGED <<history, pantry>>
    /\ lock' = None
    /\ Over(c)
    /\ UNCHANGED <<memVars, name, asked, followed, used>>

-----------------------------------------------------------------------------
(* After a clear                                                           *)

(* scheduleShoppingFollowup or cancelShoppingFollowup                      *)
FollowUp(c) == timer' = IF copy[c] # <<>> THEN who[c] ELSE None

(* clear: the follow-up, then the message that offers the pantry is sent;  *)
(* the batch is put aside when it has been.                                *)
AfterClear(c) ==
    /\ pc[c] = "after" /\ task[c].kind = "clear"
    /\ FollowUp(c)
    /\ IF batch[c] = {}
       THEN Over(c) /\ UNCHANGED asked
       ELSE Goto(c, "put") /\ asked' = asked \cup {who[c]} /\ UNCHANGED Local
    /\ UNCHANGED <<diskVars, pending, name, followed, lock, used, faults,
                   ghosts>>

PutAside(c) == pending' = [pending EXCEPT ![who[c]] = batch[c]]

SetPending(c) ==
    /\ pc[c] = "put"
    /\ PutAside(c)
    /\ Over(c)
    /\ UNCHANGED <<diskVars, timer, name, asked, followed, lock, used, faults,
                   ghosts>>

(* The message cannot be sent: the batch is never put aside.               *)
ClearAskFails(c) ==
    /\ pc[c] = "after" /\ task[c].kind = "clear" /\ batch[c] # {} /\ Fault
    /\ FollowUp(c)
    /\ Over(c)
    /\ UNCHANGED <<diskVars, pending, name, asked, followed, lock, used, ghosts>>

(* pantry-prompt: the batch is put aside, then the message is sent, or     *)
(* not.                                                                    *)
AfterPrompt(c) ==
    /\ pc[c] = "after" /\ task[c].kind = "prompt"
    /\ PutAside(c)
    /\ \/ asked' = asked \cup {who[c]} /\ UNCHANGED faults
       \/ Fault /\ UNCHANGED asked
    /\ Over(c)
    /\ UNCHANGED <<diskVars, timer, name, followed, lock, used, ghosts>>

(* mutation: the batch stays for the next press                            *)
Kept(u) == pending

(* getPendingPantryItems takes the batch out.                              *)
TakenOut(u) == [pending EXCEPT ![u] = {}]

(* pantry-all takes the batch, if there is still one, to the model.        *)
PressAll(c, u) ==
    /\ pc[c] = "idle" /\ u \in asked
    /\ pending' = TakenOut(u)
    /\ IF pending[u] = {}
       THEN UNCHANGED <<pc, who, batch>>
       ELSE /\ Goto(c, "estimate") /\ who' = [who EXCEPT ![c] = u]
            /\ batch' = [batch EXCEPT ![c] = pending[u]]
    /\ UNCHANGED <<diskVars, timer, name, asked, followed, lock, task, copy,
                   marks, used, faults, ghosts>>

PressSkip(u) ==
    /\ u \in asked
    /\ pending' = TakenOut(u)
    /\ UNCHANGED <<diskVars, timer, name, asked, followed, lock, pc, Local, used,
                   faults, ghosts>>

(* The five minutes of a batch are over.                                   *)
Lapse(u) ==
    /\ pending[u] # {}
    /\ pending' = [pending EXCEPT ![u] = {}]
    /\ UNCHANGED <<diskVars, timer, name, asked, followed, lock, pc, Local, used,
                   faults, ghosts>>

(* The pantry changes under its lock.                                      *)
Stock(c) == pantry' = [i \in Items |-> IF i \in batch[c] THEN pantry[i] + 1 ELSE pantry[i]]

(* Names and expiry are estimated, then the pantry is written.             *)
ToPantry(c) ==
    /\ pc[c] = "estimate"
    /\ Stock(c)
    /\ Over(c)
    /\ UNCHANGED <<list, ticked, history, memVars, name, asked, followed, lock,
                   used, faults, ghosts>>

(* The model or the write fails, or throws after the file was written: the *)
(* batch is gone.                                                          *)
ToPantryFails(c) ==
    /\ pc[c] = "estimate" /\ Fault
    /\ Stock(c) \/ UNCHANGED pantry
    /\ Over(c)
    /\ UNCHANGED <<list, ticked, history, memVars, name, asked, followed, lock, used,
                   ghosts>>

(* handleShoppingFollowupJob                                               *)
TimerFires ==
    /\ timer # None
    /\ timer' = None
    /\ followed' = (followed \/ On(list) \ ticked # {})
    /\ UNCHANGED <<diskVars, pending, name, asked, lock, pc, Local, used, faults,
                   ghosts>>

(* The process dies: calls, batches and the timer are gone.                *)
Crash ==
    /\ Fault
    /\ pending' = [u \in Users |-> {}] /\ timer' = None /\ lock' = None
    /\ pc' = [c \in Calls |-> "idle"] /\ task' = [c \in Calls |-> Nothing]
    /\ who' = [c \in Calls |-> None] /\ copy' = [c \in Calls |-> <<>>]
    /\ marks' = [c \in Calls |-> {}] /\ batch' = [c \in Calls |-> {}]
    /\ UNCHANGED <<diskVars, name, asked, followed, used, ghosts>>

Step(c) ==
    \/ Lock(c) \/ LoadAdd(c) \/ LoadToggle(c) \/ LoadNothing(c) \/ LoadClear(c)
    \/ Archive(c) \/ Save(c) \/ LockedFails(c)
    \/ AfterClear(c) \/ SetPending(c) \/ ClearAskFails(c) \/ AfterPrompt(c)
    \/ ToPantry(c) \/ ToPantryFails(c)

Next ==
    \/ \E c \in Calls : \/ Step(c)
                        \/ \E u \in Users : PressAll(c, u) \/ \E t \in Requests : Ask(c, u, t)
    \/ \E u \in Users : PressSkip(u) \/ Lapse(u)
    \/ TimerFires
    \/ Crash

Spec == Init /\ [][Next]_vars

-----------------------------------------------------------------------------

(* The state has the shape the code gives it.                              *)
TypeOK ==
    /\ list \in Seq(Items) /\ ticked \subseteq On(list)
    /\ name \in [Items -> Names \cup {None}]
    /\ history \in [Items -> Nat] /\ pantry \in [Items -> Nat]
    /\ pending \in [Users -> SUBSET Items] /\ timer \in Users \cup {None}
    /\ asked \subseteq Users /\ followed \in BOOLEAN
    /\ lock \in Calls \cup {None}
    /\ pc \in [Calls -> {"idle", "lock", "load", "archive", "save", "after", "put",
                         "estimate"}]
    /\ who \in [Calls -> Users \cup {None}]
    /\ copy \in [Calls -> Seq(Items)] /\ marks \in [Calls -> SUBSET Items]
    /\ batch \in [Calls -> SUBSET Items]
    /\ used \in 0 .. MaxItems /\ faults \in 0 .. MaxFaults /\ saved \cup dropped \subseteq Items

(* The history is written before the list: an item that was saved is on    *)
(* the list or in the history, unless it was ticked when the follow-up     *)
(* cleared the remaining ones or its own save failed; overlapping calls    *)
(* and failures in between lose none. It is recorded once, and once more   *)
(* at most for each failure.                                               *)
Accounted ==
    /\ \A i \in saved : i \in On(list) \/ history[i] > 0 \/ i \in dropped
    /\ \A i \in Items : history[i] <= 1 + faults

(* An item is put into the pantry once at most, and only after it was      *)
(* cleared and recorded: however often buttons are pressed, and whatever   *)
(* failed before, no member's batch is taken twice or comes to hold what   *)
(* another one's holds.                                                    *)
PantryOnce == \A i \in Items : pantry[i] <= 1 /\ pantry[i] <= history[i]

(* The buttons of a list on a screen carry positions. Until something is   *)
(* cleared they tick what they name: nothing else moves an item.           *)
PositionsKept ==
    [][\/ \A k \in DOMAIN list : k \in DOMAIN list' /\ list'[k] = list[k]
       \/ \E c \in Calls : pc[c] = "save" /\ pc'[c] # "save" /\ task[c].kind \in Removing]_vars
=============================================================================
