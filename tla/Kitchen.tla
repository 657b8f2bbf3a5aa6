------------------------------- MODULE Kitchen -------------------------------
(***************************************************************************)
(* The food app's stock of a household: pantry.yaml, leftovers.yaml,       *)
(* freezer.yaml and waste-log.yaml, shared by the members, each of whom    *)
(* tells the bot what came in or went out and presses the buttons of lists *)
(* and alerts, old ones too, while the daily check throws away what has    *)
(* expired.                                                                *)
(*                                                                         *)
(* Every operation reads a whole file, changes the list and writes it back *)
(* under the lock of that file; a move holds the locks of two files.  A    *)
(* button names a place in a list and the name that was there.             *)
(*                                                                         *)
(* An item is a batch of something with a name. Lines of the waste log     *)
(* typed by hand name no batch and are left out.                           *)
(***************************************************************************)
EXTENDS Naturals, Sequences, FiniteSets, SequencesExt

CONSTANTS
    Calls,      \* operations under way at the same time
    Names,      \* what an item may be called
    None,
    MaxBatches, \* bound: batches that come in
    MaxFaults   \* bound: failed writes and calls cut off by a crash

ASSUME KitchenAssumption ==
    /\ MaxBatches \in Nat /\ MaxFaults \in Nat /\ IsFiniteSet(Calls)
    /\ None \notin Calls \cup Names

VARIABLES
    kitchen,    \* the lists: pantry.yaml, leftovers.yaml, freezer.yaml
    waste,      \* waste-log.yaml: the batches logged, in order
    lock,       \* who holds the lock of each file
    call,       \* what each call is doing
    batches,    \* batches told of so far
    gone,       \* batches used up, or replaced by another of their name (history)
    tossed,     \* batches thrown away by a button or the check (history)
    faults

vars == <<kitchen, waste, lock, call, batches, gone, tossed, faults>>

(* Keys are taken in sorted order: freezer, leftovers, pantry, waste-log.  *)
Lists == {"freezer", "fridge", "pantry"}
Files == Lists \cup {"waste"}
Rank == [freezer |-> 1, fridge |-> 2, pantry |-> 3, waste |-> 4]

Adds == {"putFreezer", "putFridge", "putPantry"}
Buttons == {"use", "freezeLeftover", "tossLeftover", "freezePantry", "tossPantry",
            "thaw", "tossFreezer"}
Tosses == {"tossLeftover", "tossPantry", "tossFreezer"}
Moves == {"freezeLeftover", "freezePantry"}
Ops == Adds \cup Buttons \cup {"remove", "spoiled", "check"}

Batches == 1..MaxBatches
(* A leftover that is used, frozen or wasted stays in its list.            *)
Item == [name : Names, batch : Batches, active : BOOLEAN]

Idle == [pc |-> "idle", op |-> "check", name |-> None, idx |-> 0, batch |-> 0,
         want |-> {}, then |-> "idle", list |-> <<>>, log |-> <<>>, expired |-> {}, left |-> {}]

(* The list an operation works on.                                         *)
Source(op) ==
    CASE op \in {"putFreezer", "thaw", "tossFreezer"} -> "freezer"
      [] op \in {"putPantry", "freezePantry", "tossPantry", "remove", "spoiled"} -> "pantry"
      [] OTHER -> "fridge"

(* mutation: a move locks the list it takes from only                      *)
SourceOnly(op) == {Source(op)}

(* The keys of the first locked section: withMultiFileLock for a move and  *)
(* for the check.                                                          *)
Keys(op) ==
    CASE op \in Moves -> {Source(op), "freezer"}
      [] op = "check" -> {"fridge", "waste"}
      [] OTHER -> {Source(op)}

(* mutation: appendWasteUnsafe where nothing is held                       *)
NoKeys == {}

(* appendWaste locks the log itself.                                       *)
LogKeys == {"waste"}

At(c, l) == call[c].pc = l
Set(c, r) == call' = [call EXCEPT ![c] = r]
Busy(c) == ~At(c, "idle")
Fault == faults < MaxFaults /\ faults' = faults + 1

(* Take these locks, then go on at this step.                              *)
Locking(r, keys, then) ==
    [r EXCEPT !.pc = IF keys = {} THEN then ELSE "lock", !.want = keys, !.then = then]

Unlocked(c) == [f \in Files |-> IF lock[f] = c THEN None ELSE lock[f]]

(* The call returns or throws: its locks are released.                     *)
Leave(c) == Set(c, Idle) /\ lock' = Unlocked(c)

-----------------------------------------------------------------------------
(* A message or a button arrives                                           *)

(* "Add ... to the freezer", "we have leftover ...", "add ... to pantry":  *)
(* a new batch.                                                            *)
Add(c, op, n) ==
    /\ ~Busy(c) /\ op \in Adds /\ batches < MaxBatches
    /\ batches' = batches + 1
    /\ Set(c, Locking([Idle EXCEPT !.op = op, !.name = n, !.batch = batches + 1],
                      Keys(op), "read"))
    /\ UNCHANGED <<kitchen, waste, lock, gone, tossed, faults>>

(* A button of a list or an alert, pressed at any time after it was shown. *)
Press(c, op, i, n) ==
    /\ ~Busy(c) /\ op \in Buttons
    /\ Set(c, Locking([Idle EXCEPT !.op = op, !.name = n, !.idx = i], Keys(op), "read"))
    /\ UNCHANGED <<kitchen, waste, lock, batches, gone, tossed, faults>>

(* "Remove ... from pantry"; "the ... spoiled", which first logs the waste *)
(* by name; the daily check of the leftovers.                              *)
Tell(c, op, n) ==
    /\ ~Busy(c)
    /\ \/ op = "remove" /\ Set(c, Locking([Idle EXCEPT !.op = op, !.name = n],
                                          Keys(op), "read"))
       \/ op = "spoiled" /\ Set(c, Locking([Idle EXCEPT !.op = op, !.name = n],
                                           LogKeys, "logRead"))
       \/ op = "check" /\ Set(c, Locking(Idle, Keys(op), "read"))
    /\ UNCHANGED <<kitchen, waste, lock, batches, gone, tossed, faults>>

-----------------------------------------------------------------------------
(* A locked section                                                        *)

Acquire(c, f) ==
    LET r == call[c] rest == r.want \ {f} IN
    /\ At(c, "lock") /\ f \in r.want /\ lock[f] = None
    /\ \A g \in r.want : Rank[f] <= Rank[g]
    /\ lock' = [lock EXCEPT ![f] = c]
    /\ Set(c, [r EXCEPT !.want = rest, !.pc = IF rest = {} THEN r.then ELSE "lock"])
    /\ UNCHANGED <<kitchen, waste, batches, gone, tossed, faults>>

(* mutation: the status of a leftover is not looked at                     *)
HitsAny(list, r) == r.idx \in DOMAIN list /\ list[r.idx].name = r.name

(* The button still points at an item of its name that is not handled yet. *)
Hits(list, r) ==
    /\ r.idx \in DOMAIN list
    /\ list[r.idx].name = r.name /\ list[r.idx].active

Named(list, n) == {i \in DOMAIN list : list[i].name = n}

(* The places of the list an operation changes; an add of a new name has   *)
(* none.                                                                   *)
Places(list, r) ==
    IF r.op \in Buttons THEN (IF Hits(list, r) THEN {r.idx} ELSE {})
                        ELSE Named(list, r.name)

Active(list) == {i \in DOMAIN list : list[i].active}

(* Load the list and decide: a button that misses and a name that is not   *)
(* there return.                                                           *)
Read(c) ==
    LET r == call[c] list == kitchen[Source(r.op)] IN
    /\ At(c, "read") /\ r.op # "check"
    /\ IF r.op \notin Adds /\ Places(list, r) = {}
       THEN Leave(c)
       ELSE Set(c, [r EXCEPT !.pc = "save", !.list = list]) /\ UNCHANGED lock
    /\ UNCHANGED <<kitchen, waste, batches, gone, tossed, faults>>

(* mutation: the check appends with the self-locking appendWaste           *)
AppendLocking(r) == Locking(r, {"waste"}, "logRead")

AppendUnsafe(r) == [r EXCEPT !.pc = "logRead"]

(* The check: any of the active leftovers may have expired.                *)
CheckRead(c, expired) ==
    LET r == call[c] list == kitchen.fridge IN
    /\ At(c, "read") /\ r.op = "check"
    /\ expired \subseteq Active(list)
    /\ IF expired = {}
       THEN Leave(c)
       ELSE /\ Set(c, AppendUnsafe([r EXCEPT !.list = list, !.expired = expired,
                                             !.left = expired]))
            /\ UNCHANGED lock
    /\ UNCHANGED <<kitchen, waste, batches, gone, tossed, faults>>

Put(list, n, b) ==
    LET new == [name |-> n, batch |-> b, active |-> TRUE] IN
    IF Named(list, n) = {} THEN Append(list, new)
    ELSE [i \in DOMAIN list |-> IF i \in Named(list, n) THEN new ELSE list[i]]

Handled(list, places) ==
    [i \in DOMAIN list |-> IF i \in places THEN [list[i] EXCEPT !.active = FALSE] ELSE list[i]]

(* removePantryItem: what has another name, in the order of the list.      *)
Without(list, n) ==
    LET kept[i \in 0..Len(list)] ==
            IF i = 0 THEN <<>>
            ELSE IF list[i].name = n THEN kept[i - 1]
            ELSE Append(kept[i - 1], list[i])
    IN kept[Len(list)]

Changed(r) ==
    CASE r.op \in Adds -> Put(r.list, r.name, r.batch)
      [] r.op \in {"use", "freezeLeftover", "tossLeftover"} -> Handled(r.list, {r.idx})
      [] r.op = "check" -> Handled(r.list, r.expired)
      [] r.op \in {"remove", "spoiled"} -> Without(r.list, r.name)
      [] OTHER -> RemoveAt(r.list, r.idx)

ActiveBatches(list, places) == {list[i].batch : i \in places \cap Active(list)}

(* What leaves the kitchen with that change, and what is thrown away.      *)
UsedUp(r) == IF r.op \in Moves THEN {}
             ELSE IF r.op = "check" THEN ActiveBatches(r.list, r.expired)
             ELSE ActiveBatches(r.list, Places(r.list, r))
ThrownAway(r) == IF r.op \in Tosses \cup {"check"} THEN UsedUp(r) ELSE {}

(* What follows the write: the freezer's half of a move, the waste log of  *)
(* a toss once the list is unlocked, or nothing.                           *)
AfterSave(c) ==
    LET r == call[c] IN
    CASE r.op \in Moves ->
           Set(c, [r EXCEPT !.pc = "freezerRead", !.batch = r.list[r.idx].batch])
           /\ UNCHANGED lock
      [] r.op \in Tosses ->
           Set(c, Locking([r EXCEPT !.batch = r.list[r.idx].batch], LogKeys, "logRead"))
           /\ lock' = Unlocked(c)
      [] OTHER -> Leave(c)

(* A write that throws may have landed: the change log is written after    *)
(* it.                                                                     *)
Save(c, o) ==
    LET r == call[c] IN
    /\ At(c, "save")
    /\ IF o = "ok" THEN AfterSave(c) /\ UNCHANGED faults ELSE Leave(c) /\ Fault
    /\ IF o = "lost" THEN UNCHANGED <<kitchen, gone, tossed>>
       ELSE /\ kitchen' = [kitchen EXCEPT ![Source(r.op)] = Changed(r)]
            /\ gone' = gone \cup UsedUp(r)
            /\ tossed' = tossed \cup ThrownAway(r)
    /\ UNCHANGED <<waste, batches>>

FreezerRead(c) ==
    /\ At(c, "freezerRead")
    /\ Set(c, [call[c] EXCEPT !.pc = "freezerSave", !.list = kitchen.freezer])
    /\ UNCHANGED <<kitchen, waste, lock, batches, gone, tossed, faults>>

(* A batch of this name in the freezer is overwritten.                     *)
FreezerSave(c, o) ==
    LET r == call[c] IN
    /\ At(c, "freezerSave")
    /\ Leave(c)
    /\ IF o = "ok" THEN UNCHANGED faults ELSE Fault
    /\ IF o = "lost" THEN UNCHANGED <<kitchen, gone>>
       ELSE /\ kitchen' = [kitchen EXCEPT !.freezer = Put(r.list, r.name, r.batch)]
            /\ gone' = gone \cup ActiveBatches(r.list, Named(r.list, r.name))
    /\ UNCHANGED <<waste, batches, tossed>>

LogRead(c) ==
    /\ At(c, "logRead")
    /\ Set(c, [call[c] EXCEPT !.pc = "logSave", !.log = waste])
    /\ UNCHANGED <<kitchen, waste, lock, batches, gone, tossed, faults>>

(* The next expired leftover of the check, in the order of the list.       *)
FirstOf(places) == CHOOSE i \in places : \A j \in places : i <= j

(* The batch a call logs; a line typed by hand has none.                   *)
Logged(r) ==
    CASE r.op = "check" -> <<r.list[FirstOf(r.left)].batch>>
      [] r.op = "spoiled" -> <<>>
      [] OTHER -> <<r.batch>>

AfterLog(c) ==
    LET r == call[c] left == r.left \ {FirstOf(r.left)} IN
    CASE r.op = "check" ->
           Set(c, [r EXCEPT !.left = left, !.pc = IF left = {} THEN "save" ELSE "logRead"])
           /\ UNCHANGED lock
      [] r.op = "spoiled" ->
           Set(c, Locking(r, Keys(r.op), "read")) /\ lock' = Unlocked(c)
      [] OTHER -> Leave(c)

LogSave(c, o) ==
    LET r == call[c] IN
    /\ At(c, "logSave")
    /\ IF o = "ok" THEN AfterLog(c) /\ UNCHANGED faults ELSE Leave(c) /\ Fault
    /\ waste' = IF o = "lost" THEN waste ELSE r.log \o Logged(r)
    /\ UNCHANGED <<kitchen, batches, gone, tossed>>

(* The process dies: files stay, calls do not.                             *)
Crash ==
    LET cut == Cardinality({c \in Calls : Busy(c)}) IN
    /\ cut > 0 /\ faults + cut <= MaxFaults /\ faults' = faults + cut
    /\ call' = [c \in Calls |-> Idle]
    /\ lock' = [f \in Files |-> None]
    /\ UNCHANGED <<kitchen, waste, batches, gone, tossed>>

-----------------------------------------------------------------------------
Init ==
    /\ kitchen = [l \in Lists |-> <<>>]
    /\ waste = <<>>
    /\ lock = [f \in Files |-> None]
    /\ call = [c \in Calls |-> Idle]
    /\ batches = 0 /\ gone = {} /\ tossed = {} /\ faults = 0

Outcomes == {"ok", "landed", "lost"}

CallStep(c) ==
    \/ \E f \in Files : Acquire(c, f)
    \/ Read(c) \/ (\E expired \in SUBSET Batches : CheckRead(c, expired))
    \/ FreezerRead(c) \/ LogRead(c)
    \/ \E o \in Outcomes : Save(c, o) \/ FreezerSave(c, o) \/ LogSave(c, o)

Next ==
    \/ \E c \in Calls, n \in Names :
         \/ \E op \in Adds : Add(c, op, n)
         \/ \E op \in Buttons, i \in Batches : Press(c, op, i, n)
         \/ \E op \in {"remove", "spoiled", "check"} : Tell(c, op, n)
    \/ \E c \in Calls : CallStep(c)
    \/ Crash

Spec == Init /\ [][Next]_vars

-----------------------------------------------------------------------------
Fields == DOMAIN Idle

(* The lists and the locks are functions, a call is a record of its        *)
(* operation and of files it still asks for.                               *)
TypeOK ==
    /\ DOMAIN kitchen = Lists
    /\ lock \in [Files -> Calls \cup {None}]
    /\ DOMAIN call = Calls
    /\ \A c \in Calls : /\ call[c] = [d \in Fields |-> call[c][d]]
                        /\ call[c].op \in Ops
                        /\ call[c].want \subseteq Files

Held(l) == ActiveBatches(kitchen[l], DOMAIN kitchen[l])
AtRest == \A c \in Calls : ~Busy(c)

(* A batch is in one place: in one of the lists, or gone.  Two members who *)
(* press buttons of one item, or one button twice, handle it once, and no  *)
(* stale list brings back what has left the kitchen.                       *)
OnePlace ==
    \A b \in Batches :
        Cardinality({l \in Lists : b \in Held(l)}) + (IF b \in gone THEN 1 ELSE 0) <= 1

(* What came in is still there or has left by somebody's hand: no          *)
(* operation overwrites another's change, and each write that fails or is  *)
(* cut off loses one batch at most.                                        *)
StockKept ==
    AtRest => Cardinality((1..batches) \ (gone \cup UNION {Held(l) : l \in Lists})) <= faults

(* The waste log follows what was thrown away: each failure leaves out one *)
(* batch at most, and without one no batch is logged twice or in error.    *)
WasteLogTrue ==
    AtRest => /\ Cardinality(tossed \ ToSet(waste)) <= faults
              /\ faults = 0 =>
                  ToSet(waste) \subseteq tossed /\ Len(waste) = Cardinality(ToSet(waste))

(* The operations of a set wait for each other, or one for itself.         *)
Circle(cs) ==
    cs # {} /\ \A c \in cs : At(c, "lock") /\ \E f \in call[c].want :
        /\ \A g \in call[c].want : Rank[f] <= Rank[g]
        /\ lock[f] \in cs

(* Moves, the check with its two locks and the self-locking append of a    *)
(* toss never wait for each other in a circle, so each lock comes free.    *)
NoCircle == \A cs \in SUBSET Calls : ~Circle(cs)
=============================================================================
