---------------------------- MODULE KitchenProofs ----------------------------
(***************************************************************************)
(* Kitchen for any number of operations, names, batches and failures: what *)
(* an operation writes back was made from the list in force, operations    *)
(* never wait for each other in a circle, no batch is in two places, and   *)
(* the stock and the waste log lack one batch at most for each failure.    *)
(*                                                                         *)
(* The invariant says which locks a call has at each of its steps: those   *)
(* of the section it is in, but for the ones it still asks for, which come *)
(* later in the order. With it, the second invariant follows each batch:   *)
(* it is in a list, in the hands of one call, or gone, and what is thrown  *)
(* away is in the log or due to it.                                        *)
(***************************************************************************)
EXTENDS Kitchen, FiniteSetTheorems, SequenceTheorems, WellFoundedInduction, TLAPS

(* The step a call is at, or at when it has its locks.                     *)
Stage(r) == IF r.pc = "lock" THEN r.then ELSE r.pc

(* The keys of the section a call is in.                                   *)
Section(r) ==
    IF Stage(r) = "idle" THEN {}
    ELSE IF Stage(r) \in {"logRead", "logSave"} /\ r.op # "check" THEN LogKeys
    ELSE Keys(r.op)

(* A call asks for locks and then goes on to read; the freezer's half      *)
(* belongs to a move.                                                      *)
Stages ==
    \A c \in Calls :
        /\ At(c, "lock") => call[c].want # {} /\ call[c].then \in {"read", "logRead"}
        /\ At(c, "lock") /\ call[c].op = "check" => call[c].then = "read"
        /\ ~At(c, "lock") => call[c].want = {}
        /\ call[c].pc \in {"freezerRead", "freezerSave"} => call[c].op \in Moves

(* A call has the locks of its section it does not ask for any more, and   *)
(* asks for those that come later in the order.                            *)
Sections ==
    \A c \in Calls :
        LET r == call[c] IN
        /\ r.want \subseteq Section(r)
        /\ \A f \in Files : lock[f] = c <=> f \in Section(r) \ r.want
        /\ \A f \in Section(r) \ r.want : \A g \in r.want : Rank[f] < Rank[g]

(* What a call is about to write back was made from the list, or the log,  *)
(* in force: nothing came in between.                                      *)
InForce(r, lists, log) ==
    /\ r.pc = "save" => r.list = lists[Source(r.op)]
    /\ r.op = "check" /\ r.pc \in {"logRead", "logSave"} => r.list = lists.fridge
    /\ r.pc = "freezerSave" => r.list = lists.freezer
    /\ r.pc = "logSave" => r.log = log

CopiesInForce == \A c \in Calls : InForce(call[c], kitchen, waste)

LockInv == TypeOK /\ Stages /\ Sections
IInv == LockInv /\ CopiesInForce

(* A record a call may be left with.                                       *)
Fit(r) ==
    /\ r = [d \in Fields |-> r[d]]
    /\ r.op \in Ops /\ r.want \subseteq Files
    /\ r.pc = "lock" => r.want # {} /\ r.then \in {"read", "logRead"}
    /\ r.pc = "lock" /\ r.op = "check" => r.then = "read"
    /\ r.pc # "lock" => r.want = {}
    /\ r.pc \in {"freezerRead", "freezerSave"} => r.op \in Moves

-----------------------------------------------------------------------------
(* The keys of an operation are files, among them that of its list.        *)
LEMMA KeysOfOp ==
    ASSUME NEW op \in Ops
    PROVE  /\ Keys(op) \subseteq Files /\ Keys(op) # {}
           /\ Source(op) \in Keys(op) /\ Source(op) \in Lists
           /\ op \in Moves => "freezer" \in Keys(op)
           /\ op = "check" => Source(op) = "fridge" /\ Keys(op) = {"fridge", "waste"}
<1> USE DEF Ops, Adds, Buttons, Moves, Files, Lists
<1>1. Source(op) \in Lists
  BY DEF Source
<1>2. CASE op \in Moves
  BY <1>1, <1>2 DEF Keys
<1>3. CASE op = "check"
  BY <1>3 DEF Keys, Source
<1>4. CASE op \notin Moves /\ op # "check"
  <2>1. Keys(op) = {Source(op)}
    BY <1>4 DEF Keys
  <2> QED BY <1>1, <1>4, <2>1
<1> QED BY <1>2, <1>3, <1>4

(* The fields of a call's record.                                          *)
LEMMA TheFields ==
    Fields = {"pc", "op", "name", "idx", "batch", "want", "then", "list", "log", "expired", "left"}
  BY DEF Fields, Idle

(* Handlers start with an idle call's record.                              *)
LEMMA IdleFits == Fit(Idle) /\ Section(Idle) = {} /\ Idle.want = {} /\ Idle.pc = "idle"
  BY TheFields DEF Fit, Idle, Ops, Section, Stage

(* No call is under way at the start.                                      *)
LEMMA InitInv == Init => IInv
<1> SUFFICES ASSUME Init PROVE IInv
  OBVIOUS
<1>1. \A c \in Calls : call[c] = Idle
  BY DEF Init
<1>2. \A f \in Files : lock[f] = None /\ None \notin Calls
  BY KitchenAssumption DEF Init
<1>3. TypeOK
  BY <1>1, IdleFits DEF Init, TypeOK, Fit
<1>4. Stages
  BY <1>1 DEF Stages, At, Idle
<1>5. Sections
  <2>1. \A c \in Calls : Section(call[c]) = {} /\ call[c].want = {}
    BY <1>1, IdleFits
  <2>2. \A c \in Calls : \A f \in Files : lock[f] # c
    BY <1>2
  <2> QED BY <2>1, <2>2, Zenon DEF Sections
<1>6. CopiesInForce
  BY <1>1 DEF CopiesInForce, InForce, Idle
<1> QED BY <1>3, <1>4, <1>5, <1>6 DEF IInv, LockInv

(* A call starts a section, with every lock of the one before released.    *)
LEMMA NewSection ==
    ASSUME LockInv, NEW c \in Calls, NEW r, Fit(r), r.want = Section(r),
           Set(c, r), lock' = Unlocked(c), DOMAIN kitchen' = Lists
    PROVE  LockInv'
<1>1. call'[c] = r /\ \A d \in Calls \ {c} : call'[d] = call[d]
  BY DEF LockInv, TypeOK, Set
<1>2. \A f \in Files : lock'[f] = IF lock[f] = c THEN None ELSE lock[f]
  BY DEF Unlocked
<1>3. None \notin Calls
  BY KitchenAssumption
<1>4. TypeOK'
  <2>1. lock' \in [Files -> Calls \cup {None}]
    BY DEF LockInv, TypeOK, Unlocked
  <2>2. DOMAIN call' = Calls
    BY DEF LockInv, TypeOK, Set
  <2> QED BY <1>1, <2>1, <2>2 DEF LockInv, TypeOK, Fit
<1>5. Stages'
  BY <1>1 DEF LockInv, Stages, At, Fit
<1>6. Sections'
  <2> SUFFICES ASSUME NEW d \in Calls
      PROVE /\ call'[d].want \subseteq Section(call'[d])
            /\ \A f \in Files : lock'[f] = d <=> f \in Section(call'[d]) \ call'[d].want
            /\ \A f \in Section(call'[d]) \ call'[d].want :
                   \A g \in call'[d].want : Rank[f] < Rank[g]
    BY DEF Sections
  <2>1. CASE d = c
    BY <1>1, <1>2, <1>3, <2>1
  <2>2. CASE d # c
    BY <1>1, <1>2, <1>3, <2>2 DEF LockInv, Sections
  <2> QED BY <2>1, <2>2
<1> QED BY <1>4, <1>5, <1>6 DEF LockInv

(* A call goes on within its section.                                      *)
LEMMA SameSection ==
    ASSUME LockInv, NEW c \in Calls, NEW r, Fit(r),
           r.want = call[c].want, Section(r) = Section(call[c]),
           Set(c, r), lock' = lock, DOMAIN kitchen' = Lists
    PROVE  LockInv'
<1>1. call'[c] = r /\ \A d \in Calls \ {c} : call'[d] = call[d]
  BY DEF LockInv, TypeOK, Set
<1>2. DOMAIN call' = Calls
  BY DEF LockInv, TypeOK, Set
<1>3. TypeOK'
  BY <1>1, <1>2 DEF LockInv, TypeOK, Fit
<1>4. Stages'
  BY <1>1 DEF LockInv, Stages, At, Fit
<1>5. Sections'
  <2> SUFFICES ASSUME NEW d \in Calls
      PROVE /\ call'[d].want \subseteq Section(call'[d])
            /\ \A f \in Files : lock'[f] = d <=> f \in Section(call'[d]) \ call'[d].want
            /\ \A f \in Section(call'[d]) \ call'[d].want :
                   \A g \in call'[d].want : Rank[f] < Rank[g]
    BY DEF Sections
  <2>1. CASE d = c
    BY <1>1, <2>1 DEF LockInv, Sections
  <2>2. CASE d # c
    BY <1>1, <2>2 DEF LockInv, Sections
  <2> QED BY <2>1, <2>2
<1> QED BY <1>3, <1>4, <1>5 DEF LockInv

(* What Locking leaves a call with.                                        *)
LEMMA LockingFits ==
    ASSUME NEW r, r = [d \in Fields |-> r[d]], r.op \in Ops,
           NEW then \in {"read", "logRead"}, NEW keys,
           keys = IF then = "logRead" THEN LogKeys ELSE Keys(r.op),
           r.op = "check" => then = "read"
    PROVE  /\ Fit(Locking(r, keys, then))
           /\ Locking(r, keys, then).want = Section(Locking(r, keys, then))
           /\ Locking(r, keys, then).pc = "lock"
<1> DEFINE q == [r EXCEPT !.pc = "lock", !.want = keys, !.then = then]
<1>1. keys \subseteq Files /\ keys # {}
  BY KeysOfOp DEF LogKeys, Files
<1>2. Locking(r, keys, then) = q
  BY <1>1 DEF Locking
<1>3. q = [d \in Fields |-> q[d]] /\ q.op = r.op /\ q.want = keys /\ q.pc = "lock" /\ q.then = then
  BY TheFields
<1> HIDE DEF q
<1>4. Fit(q)
  BY <1>1, <1>3 DEF Fit
<1>5. Section(q) = keys
  BY <1>3 DEF Section, Stage
<1> QED BY <1>2, <1>3, <1>4, <1>5

(* An idle call has no lock.                                               *)
LEMMA IdleHasNone ==
    ASSUME LockInv, NEW c \in Calls, ~Busy(c)
    PROVE  Unlocked(c) = lock
<1>1. Section(call[c]) = {}
  BY DEF Busy, At, Section, Stage
<1>2. \A f \in Files : lock[f] # c
  BY <1>1 DEF LockInv, Sections
<1> QED BY <1>2 DEF Unlocked, LockInv, TypeOK

(* A call comes in and asks for the locks of its first section.            *)
LEMMA ArriveInv ==
    ASSUME LockInv, NEW c \in Calls, ~Busy(c), NEW r, r = [d \in Fields |-> r[d]],
           r.op \in Ops, NEW then \in {"read", "logRead"}, NEW keys,
           keys = IF then = "logRead" THEN LogKeys ELSE Keys(r.op),
           r.op = "check" => then = "read",
           Set(c, Locking(r, keys, then)), UNCHANGED <<kitchen, lock>>
    PROVE  /\ LockInv' /\ call'[c].pc = "lock"
           /\ \A d \in Calls \ {c} : call'[d] = call[d]
<1>1. lock' = Unlocked(c)
  BY IdleHasNone
<1>2. DOMAIN kitchen' = Lists
  BY DEF LockInv, TypeOK
<1>3. LockInv'
  BY <1>1, <1>2, LockingFits, NewSection
<1>4. call'[c] = Locking(r, keys, then) /\ \A d \in Calls \ {c} : call'[d] = call[d]
  BY DEF LockInv, TypeOK, Set
<1> QED BY <1>3, <1>4, LockingFits

(* Whatever a message or a button starts, it asks for the locks it needs.  *)
LEMMA BeginInv ==
    ASSUME LockInv, NEW c \in Calls, NEW n \in Names, NEW op, NEW i,
           Add(c, op, n) \/ Press(c, op, i, n) \/ Tell(c, op, n)
    PROVE  /\ LockInv' /\ call'[c].pc = "lock"
           /\ \A d \in Calls \ {c} : call'[d] = call[d]
<1>1. CASE Add(c, op, n)
  <2> DEFINE r == [Idle EXCEPT !.op = op, !.name = n, !.batch = batches + 1]
  <2>1. r = [d \in Fields |-> r[d]] /\ r.op = op
    BY TheFields DEF Idle
  <2>2. op \in Ops
    BY <1>1 DEF Add, Ops
  <2> QED BY <1>1, <2>1, <2>2, ArriveInv DEF Add
<1>2. CASE Press(c, op, i, n)
  <2> DEFINE r == [Idle EXCEPT !.op = op, !.name = n, !.idx = i]
  <2>1. r = [d \in Fields |-> r[d]] /\ r.op = op
    BY TheFields DEF Idle
  <2>2. op \in Ops
    BY <1>2 DEF Press, Ops
  <2> QED BY <1>2, <2>1, <2>2, ArriveInv DEF Press
<1>3. CASE Tell(c, op, n)
  <2> DEFINE r == [Idle EXCEPT !.op = op, !.name = n]
  <2>1. r = [d \in Fields |-> r[d]] /\ r.op = op
    BY TheFields DEF Idle
  <2>2. Idle = [d \in Fields |-> Idle[d]] /\ Idle.op = "check"
    BY TheFields DEF Idle
  <2>3. "check" \in Ops /\ "spoiled" \in Ops /\ "remove" \in Ops
    BY DEF Ops
  <2>4. ~Busy(c) /\ UNCHANGED <<kitchen, lock>>
    BY <1>3 DEF Tell
  <2>5. \/ op = "remove" /\ Set(c, Locking(r, Keys(op), "read"))
        \/ op = "spoiled" /\ Set(c, Locking(r, LogKeys, "logRead"))
        \/ op = "check" /\ Set(c, Locking(Idle, Keys(op), "read"))
    BY <1>3 DEF Tell
  <2> HIDE DEF r
  <2>6. CASE op = "remove" /\ Set(c, Locking(r, Keys(op), "read"))
    BY <2>1, <2>3, <2>4, <2>6, ArriveInv
  <2>7. CASE op = "spoiled" /\ Set(c, Locking(r, LogKeys, "logRead"))
    BY <2>1, <2>3, <2>4, <2>7, ArriveInv
  <2>8. CASE op = "check" /\ Set(c, Locking(Idle, Keys(op), "read"))
    BY <2>2, <2>3, <2>4, <2>8, ArriveInv
  <2> QED BY <2>5, <2>6, <2>7, <2>8
<1> QED BY <1>1, <1>2, <1>3

(* A call that returns or throws gives back its locks.                     *)
LEMMA LeaveInv ==
    ASSUME LockInv, NEW c \in Calls, Leave(c), DOMAIN kitchen' = Lists
    PROVE  LockInv'
  BY IdleFits, NewSection DEF Leave

(* A lock is free and the smallest asked for.                              *)
LEMMA AcquireInv ==
    ASSUME LockInv, NEW c \in Calls, NEW f \in Files, Acquire(c, f)
    PROVE  LockInv'
<1> DEFINE r == call[c]
           rest == r.want \ {f}
           q == [r EXCEPT !.want = rest, !.pc = IF rest = {} THEN r.then ELSE "lock"]
<1>1. /\ r.pc = "lock" /\ f \in r.want /\ lock[f] = None /\ \A g \in r.want : Rank[f] <= Rank[g]
      /\ lock' = [lock EXCEPT ![f] = c] /\ call' = [call EXCEPT ![c] = q] /\ kitchen' = kitchen
  BY DEF Acquire, Set, At
<1>2. /\ r = [d \in Fields |-> r[d]] /\ r.op \in Ops /\ r.want \subseteq Files
      /\ r.then \in {"read", "logRead"} /\ (r.op = "check" => r.then = "read")
  BY <1>1 DEF LockInv, TypeOK, Stages, At
<1>3. /\ q = [d \in Fields |-> q[d]] /\ q.op = r.op /\ q.want = rest /\ q.then = r.then
      /\ q.pc = IF rest = {} THEN r.then ELSE "lock"
  BY <1>2, TheFields
<1> HIDE DEF q
<1>4. Section(q) = Section(r)
  <2>1. Stage(q) = Stage(r)
    BY <1>1, <1>2, <1>3 DEF Stage
  <2> QED BY <1>3, <2>1 DEF Section
<1>5. /\ r.want \subseteq Section(r)
      /\ \A g \in Files : lock[g] = c <=> g \in Section(r) \ r.want
      /\ \A g \in Section(r) \ r.want : \A h \in r.want : Rank[g] < Rank[h]
  BY DEF LockInv, Sections
<1> HIDE DEF r
<1>6. call'[c] = q /\ \A d \in Calls \ {c} : call'[d] = call[d]
  BY <1>1 DEF LockInv, TypeOK
<1>7. TypeOK'
  <2>1. lock' \in [Files -> Calls \cup {None}] /\ DOMAIN call' = Calls
    BY <1>1 DEF LockInv, TypeOK
  <2>2. q.want \subseteq Files
    BY <1>2, <1>3
  <2> QED BY <1>1, <1>2, <1>3, <1>6, <2>1, <2>2 DEF LockInv, TypeOK
<1>8. Stages'
  BY <1>2, <1>3, <1>6 DEF LockInv, Stages, At
<1>9. Sections'
  <2> SUFFICES ASSUME NEW d \in Calls
      PROVE /\ call'[d].want \subseteq Section(call'[d])
            /\ \A g \in Files : lock'[g] = d <=> g \in Section(call'[d]) \ call'[d].want
            /\ \A g \in Section(call'[d]) \ call'[d].want :
                   \A h \in call'[d].want : Rank[g] < Rank[h]
    BY DEF Sections
  <2>1. \A g \in Files : lock'[g] = IF g = f THEN c ELSE lock[g]
    BY <1>1 DEF LockInv, TypeOK
  <2>2. CASE d = c
    <3>1. Section(q) \ q.want = (Section(r) \ r.want) \cup {f}
      BY <1>1, <1>3, <1>4, <1>5
    <3>2. \A h \in rest : Rank[f] < Rank[h]
      BY <1>1, <1>2 DEF Files, Lists, Rank
    <3> QED BY <1>3, <1>4, <1>5, <1>6, <2>1, <2>2, <3>1, <3>2
  <2>3. CASE d # c
    <3>1. /\ call[d].want \subseteq Section(call[d])
          /\ \A g \in Files : lock[g] = d <=> g \in Section(call[d]) \ call[d].want
          /\ \A g \in Section(call[d]) \ call[d].want : \A h \in call[d].want : Rank[g] < Rank[h]
      BY DEF LockInv, Sections
    <3>2. lock'[f] # d /\ lock[f] # d
      BY <1>1, <2>1, <2>3, KitchenAssumption
    <3> QED BY <1>6, <2>1, <2>3, <3>1, <3>2
  <2> QED BY <2>2, <2>3
<1> QED BY <1>7, <1>8, <1>9 DEF LockInv

(* A call past its locks goes on to a step of the same section.            *)
LEMMA OnwardInv ==
    ASSUME LockInv, NEW c \in Calls, NEW q, call[c].pc \notin {"idle", "lock"},
           q = [d \in Fields |-> q[d]], q.op = call[c].op, q.want = call[c].want,
           \/ /\ call[c].pc \in {"read", "save", "freezerRead"} \/ q.op = "check"
              /\ q.pc \in {"save", "freezerRead", "freezerSave"} \/ q.op = "check"
           \/ q.pc \in {"logRead", "logSave"} /\ call[c].pc \in {"logRead", "logSave"},
           q.pc \notin {"idle", "lock"},
           q.pc \in {"freezerRead", "freezerSave"} => q.op \in Moves,
           Set(c, q), lock' = lock, DOMAIN kitchen' = Lists
    PROVE  LockInv'
<1>1. Fit(q)
  BY DEF LockInv, TypeOK, Stages, At, Fit
<1>2. Section(q) = Section(call[c])
  BY DEF Section, Stage
<1> QED BY <1>1, <1>2, SameSection

(* What TypeOK says of one call.                                           *)
LEMMA CallShape ==
    ASSUME LockInv, NEW c \in Calls
    PROVE  /\ call[c] = [d \in Fields |-> call[c][d]] /\ call[c].op \in Ops
           /\ DOMAIN kitchen = Lists
  BY DEF LockInv, TypeOK

(* A handler that has its list goes on under the same lock or returns.     *)
LEMMA ReadInv ==
    ASSUME LockInv, NEW c \in Calls, Read(c)
    PROVE  LockInv'
<1> DEFINE q == [call[c] EXCEPT !.pc = "save", !.list = kitchen[Source(call[c].op)]]
<1>1. /\ q = [d \in Fields |-> q[d]] /\ q.op = call[c].op /\ q.want = call[c].want
      /\ q.pc = "save"
  BY CallShape, TheFields
<1>2. CASE Leave(c)
  BY <1>2, LeaveInv, CallShape DEF Read
<1>3. CASE Set(c, q) /\ UNCHANGED lock
  <2> HIDE DEF q
  <2> QED BY <1>1, <1>3, OnwardInv, CallShape DEF Read, At
<1> QED BY <1>2, <1>3 DEF Read

(* The check goes on to log under the locks it has.                        *)
LEMMA CheckReadInv ==
    ASSUME LockInv, NEW c \in Calls, NEW expired, CheckRead(c, expired)
    PROVE  LockInv'
<1> DEFINE q == AppendUnsafe([call[c] EXCEPT !.list = kitchen.fridge, !.expired = expired,
                                             !.left = expired])
<1>1. /\ q = [d \in Fields |-> q[d]] /\ q.op = call[c].op /\ q.want = call[c].want
      /\ q.pc = "logRead"
  BY CallShape, TheFields DEF AppendUnsafe
<1>2. CASE Leave(c)
  BY <1>2, LeaveInv, CallShape DEF CheckRead
<1>3. CASE Set(c, q) /\ UNCHANGED lock
  <2> HIDE DEF q
  <2> QED BY <1>1, <1>3, OnwardInv, CallShape DEF CheckRead, At
<1> QED BY <1>2, <1>3 DEF CheckRead

(* After a write a move keeps its locks, a toss changes them for the       *)
(* log's.                                                                  *)
LEMMA SaveInv ==
    ASSUME LockInv, NEW c \in Calls, NEW o, Save(c, o)
    PROVE  LockInv'
<1>1. At(c, "save") /\ DOMAIN kitchen' = Lists
  BY CallShape DEF Save
<1>2. CASE Leave(c)
  BY <1>1, <1>2, LeaveInv
<1>3. CASE AfterSave(c)
  <2> DEFINE r == call[c]
             q == [r EXCEPT !.pc = "freezerRead", !.batch = r.list[r.idx].batch]
             t == [r EXCEPT !.batch = r.list[r.idx].batch]
  <2>1. CASE r.op \in Moves
    <3>1. Set(c, q) /\ lock' = lock
      BY <1>3, <2>1 DEF AfterSave, Tosses, Moves
    <3>2. /\ q = [d \in Fields |-> q[d]] /\ q.op = r.op /\ q.want = r.want
          /\ q.pc = "freezerRead"
      BY CallShape, TheFields
    <3> HIDE DEF q
    <3> QED BY <1>1, <2>1, <3>1, <3>2, OnwardInv DEF At
  <2>2. CASE r.op \in Tosses
    <3>1. Set(c, Locking(t, LogKeys, "logRead")) /\ lock' = Unlocked(c)
      BY <1>3, <2>2 DEF AfterSave, Tosses, Moves
    <3>2. t = [d \in Fields |-> t[d]] /\ t.op = r.op
      BY CallShape, TheFields
    <3>3. t.op # "check" /\ t.op \in Ops
      BY <2>2, <3>2, CallShape DEF Tosses
    <3> HIDE DEF t
    <3> QED BY <1>1, <3>1, <3>2, <3>3, LockingFits, NewSection
  <2>3. CASE r.op \notin Moves \cup Tosses
    BY <1>1, <1>3, <2>3, LeaveInv DEF AfterSave
  <2> QED BY <2>1, <2>2, <2>3
<1> QED BY <1>2, <1>3 DEF Save

(* The freezer's half of a move is under the locks of the move.            *)
LEMMA FreezerInv ==
    ASSUME LockInv, NEW c \in Calls, NEW o, FreezerRead(c) \/ FreezerSave(c, o)
    PROVE  LockInv'
<1>1. CASE FreezerRead(c)
  <2> DEFINE q == [call[c] EXCEPT !.pc = "freezerSave", !.list = kitchen.freezer]
  <2>1. /\ q = [d \in Fields |-> q[d]] /\ q.op = call[c].op /\ q.want = call[c].want
        /\ q.pc = "freezerSave"
    BY CallShape, TheFields
  <2>2. Set(c, q) /\ At(c, "freezerRead") /\ UNCHANGED <<kitchen, lock>>
    BY <1>1 DEF FreezerRead
  <2>3. q.op \in Moves
    BY <2>1, <2>2 DEF LockInv, Stages, At
  <2> HIDE DEF q
  <2> QED BY <2>1, <2>2, <2>3, OnwardInv, CallShape DEF At
<1>2. CASE FreezerSave(c, o)
  BY <1>2, LeaveInv, CallShape DEF FreezerSave
<1> QED BY <1>1, <1>2

(* After the log the check keeps its locks, "spoiled" changes them for the *)
(* pantry's.                                                               *)
LEMMA LogInv ==
    ASSUME LockInv, NEW c \in Calls, NEW o, LogRead(c) \/ LogSave(c, o)
    PROVE  LockInv'
<1> DEFINE r == call[c]
<1>1. CASE LogRead(c)
  <2> DEFINE q == [r EXCEPT !.pc = "logSave", !.log = waste]
  <2>1. /\ q = [d \in Fields |-> q[d]] /\ q.op = r.op /\ q.want = r.want
        /\ q.pc = "logSave"
    BY CallShape, TheFields
  <2>2. Set(c, q) /\ At(c, "logRead") /\ UNCHANGED <<kitchen, lock>>
    BY <1>1 DEF LogRead
  <2> HIDE DEF q
  <2> QED BY <2>1, <2>2, OnwardInv, CallShape DEF At
<1>2. CASE LogSave(c, o) /\ Leave(c)
  BY <1>2, LeaveInv, CallShape DEF LogSave
<1>3. CASE LogSave(c, o) /\ AfterLog(c)
  <2> DEFINE left == r.left \ {FirstOf(r.left)}
             q == [r EXCEPT !.left = left, !.pc = IF left = {} THEN "save" ELSE "logRead"]
  <2>1. At(c, "logSave") /\ UNCHANGED kitchen
    BY <1>3 DEF LogSave
  <2>2. CASE r.op = "check"
    <3>1. Set(c, q) /\ UNCHANGED lock
      BY <1>3, <2>2 DEF AfterLog
    <3> HIDE DEF left
    <3>2. /\ q = [d \in Fields |-> q[d]] /\ q.op = r.op /\ q.want = r.want
          /\ q.pc \in {"save", "logRead"}
      BY CallShape, TheFields
    <3> HIDE DEF q
    <3> QED BY <2>1, <2>2, <3>1, <3>2, OnwardInv, CallShape DEF At
  <2>3. CASE r.op = "spoiled"
    <3>1. Set(c, Locking(r, Keys(r.op), "read")) /\ lock' = Unlocked(c)
      BY <1>3, <2>3 DEF AfterLog
    <3> QED BY <2>1, <2>3, <3>1, LockingFits, NewSection, CallShape
  <2>4. CASE r.op \notin {"check", "spoiled"}
    BY <1>3, <2>1, <2>4, LeaveInv, CallShape DEF AfterLog
  <2> QED BY <2>2, <2>3, <2>4
<1> QED BY <1>1, <1>2, <1>3 DEF LogSave

(* A crash leaves no call and no lock.                                     *)
LEMMA CrashInv ==
    ASSUME LockInv, Crash
    PROVE  LockInv'
<1>1. \A c \in Calls : call'[c] = Idle
  BY DEF Crash
<1>2. \A f \in Files : \A c \in Calls : lock'[f] # c
  BY KitchenAssumption DEF Crash
<1>3. TypeOK'
  BY <1>1, IdleFits DEF Crash, LockInv, TypeOK, Fit
<1>4. Stages'
  BY <1>1, IdleFits DEF Stages, At
<1>5. Sections'
  <2>1. \A c \in Calls : Section(call'[c]) = {} /\ call'[c].want = {}
    BY <1>1, IdleFits
  <2> QED BY <1>2, <2>1, Zenon DEF Sections
<1> QED BY <1>3, <1>4, <1>5 DEF LockInv

(* Every step keeps the locks in order.                                    *)
LEMMA LocksStep == LockInv /\ [Next]_vars => LockInv'
<1> SUFFICES ASSUME LockInv, [Next]_vars PROVE LockInv'
  OBVIOUS
<1>1. ASSUME NEW c \in Calls, NEW n \in Names, NEW op, NEW i,
             Add(c, op, n) \/ Press(c, op, i, n) \/ Tell(c, op, n)
      PROVE  LockInv'
  BY <1>1, BeginInv
<1>2. ASSUME NEW c \in Calls, CallStep(c)
      PROVE  LockInv'
  <2>1. CASE \E f \in Files : Acquire(c, f)
    BY <2>1, AcquireInv
  <2>2. CASE Read(c)
    BY <2>2, ReadInv
  <2>3. CASE \E expired \in SUBSET Batches : CheckRead(c, expired)
    BY <2>3, CheckReadInv
  <2>4. CASE FreezerRead(c) \/ \E o \in Outcomes : FreezerSave(c, o)
    BY <2>4, FreezerInv
  <2>5. CASE LogRead(c) \/ \E o \in Outcomes : LogSave(c, o)
    BY <2>5, LogInv
  <2>6. CASE \E o \in Outcomes : Save(c, o)
    BY <2>6, SaveInv
  <2> QED BY <1>2, <2>1, <2>2, <2>3, <2>4, <2>5, <2>6 DEF CallStep
<1>3. CASE Crash
  BY <1>3, CrashInv
<1>4. CASE UNCHANGED vars
  BY <1>4 DEF vars, LockInv, TypeOK, Stages, Sections, At
<1> QED BY <1>1, <1>2, <1>3, <1>4 DEF Next

-----------------------------------------------------------------------------
(* A call that is about to write, or goes on with a list, has its lock.    *)
LEMMA Covered ==
    ASSUME LockInv, NEW c \in Calls
    PROVE  /\ At(c, "save") => lock[Source(call[c].op)] = c
           /\ At(c, "freezerSave") => lock.freezer = c
           /\ At(c, "logSave") => lock.waste = c
           /\ call[c].op = "check" /\ call[c].pc \in {"logRead", "logSave"} => lock.fridge = c
<1>1. call[c].pc # "lock" => \A f \in Section(call[c]) : f \in Files => lock[f] = c
  BY DEF LockInv, Stages, Sections, At
<1>2. call[c].op \in Ops /\ (call[c].pc = "freezerSave" => call[c].op \in Moves)
  BY DEF LockInv, TypeOK, Stages
<1>3. CASE At(c, "save")
  <2>1. Section(call[c]) = Keys(call[c].op)
    BY <1>3 DEF At, Section, Stage
  <2> QED BY <1>1, <1>2, <1>3, <2>1, KeysOfOp DEF At
<1>4. CASE At(c, "freezerSave")
  <2>1. Section(call[c]) = Keys(call[c].op)
    BY <1>4 DEF At, Section, Stage
  <2> QED BY <1>1, <1>2, <1>4, <2>1, KeysOfOp DEF At
<1>5. CASE call[c].pc \in {"logRead", "logSave"} /\ call[c].op = "check"
  <2>1. Section(call[c]) = {"fridge", "waste"}
    BY <1>2, <1>5, KeysOfOp DEF Section, Stage
  <2> QED BY <1>1, <1>5, <2>1 DEF At, Files, Lists
<1>6. CASE call[c].pc \in {"logRead", "logSave"} /\ call[c].op # "check"
  <2>1. Section(call[c]) = {"waste"}
    BY <1>6 DEF Section, Stage, LogKeys
  <2> QED BY <1>1, <1>6, <2>1 DEF At, Files, Lists
<1> QED BY <1>3, <1>4, <1>5, <1>6 DEF At

(* What has a call's lock only the call changes.                           *)
LEMMA Undisturbed ==
    ASSUME IInv, NEW d \in Calls, call'[d] = call[d],
           \A l \in Lists : lock[l] = d => kitchen'[l] = kitchen[l],
           lock.waste = d => waste' = waste
    PROVE  InForce(call'[d], kitchen', waste')
<1>1. call[d].op \in Ops /\ InForce(call[d], kitchen, waste)
  BY DEF IInv, LockInv, TypeOK, CopiesInForce
<1>2. call[d].pc = "save" => kitchen'[Source(call[d].op)] = kitchen[Source(call[d].op)]
  BY <1>1, Covered, KeysOfOp DEF IInv, At
<1>3. call[d].pc = "freezerSave" => kitchen'.freezer = kitchen.freezer
  BY Covered DEF IInv, At, Lists
<1>4. call[d].pc = "logSave" => waste' = waste
  BY Covered DEF IInv, At
<1>5. call[d].op = "check" /\ call[d].pc \in {"logRead", "logSave"}
          => kitchen'.fridge = kitchen.fridge
  BY Covered DEF IInv, Lists
<1> QED BY <1>1, <1>2, <1>3, <1>4, <1>5 DEF InForce

(* A step of a call that leaves the files alone, or writes one it has      *)
(* locked.                                                                 *)
LEMMA CallCopies ==
    ASSUME IInv, NEW c \in Calls, NEW q, Set(c, q), InForce(q, kitchen', waste'),
           \A l \in Lists : lock[l] # c => kitchen'[l] = kitchen[l],
           lock.waste # c => waste' = waste
    PROVE  CopiesInForce'
<1>1. call'[c] = q /\ \A d \in Calls \ {c} : call'[d] = call[d]
  BY DEF IInv, LockInv, TypeOK, Set
<1>2. ASSUME NEW d \in Calls PROVE InForce(call'[d], kitchen', waste')
  <2>1. CASE d = c
    BY <1>1, <2>1
  <2>2. CASE d # c
    BY <1>1, <2>2, Undisturbed
  <2> QED BY <2>1, <2>2
<1> QED BY <1>2 DEF CopiesInForce

(* A call that returns or takes new locks keeps no copy.                   *)
LEMMA NoCopy ==
    ASSUME IInv, NEW c \in Calls, call'[c].pc \in {"idle", "lock"},
           \A d \in Calls \ {c} : call'[d] = call[d],
           \A l \in Lists : lock[l] # c => kitchen'[l] = kitchen[l],
           lock.waste # c => waste' = waste
    PROVE  CopiesInForce'
<1>1. ASSUME NEW d \in Calls PROVE InForce(call'[d], kitchen', waste')
  <2>1. CASE d = c
    BY <2>1 DEF InForce
  <2>2. CASE d # c
    BY <2>2, Undisturbed
  <2> QED BY <2>1, <2>2
<1> QED BY <1>1 DEF CopiesInForce

(* A call that returns has no copy to write.                               *)
LEMMA LeaveCopies ==
    ASSUME IInv, NEW c \in Calls, Leave(c),
           \A l \in Lists : lock[l] # c => kitchen'[l] = kitchen[l],
           lock.waste # c => waste' = waste
    PROVE  CopiesInForce'
<1>1. call'[c] = Idle /\ \A d \in Calls \ {c} : call'[d] = call[d]
  BY DEF IInv, LockInv, TypeOK, Leave, Set
<1> QED BY <1>1, IdleFits, NoCopy

(* Taking a lock is before the list is read.                               *)
LEMMA AcquireCopies ==
    ASSUME IInv, NEW c \in Calls, NEW f \in Files, Acquire(c, f)
    PROVE  CopiesInForce'
<1> DEFINE rest == call[c].want \ {f}
           q == [call[c] EXCEPT !.want = rest, !.pc = IF rest = {} THEN call[c].then ELSE "lock"]
<1>1. At(c, "lock") /\ Set(c, q) /\ UNCHANGED <<kitchen, waste>> /\ LockInv
  BY DEF Acquire, IInv
<1>2. call[c].then \in {"read", "logRead"}
  BY <1>1 DEF LockInv, Stages
<1>3. q.pc \in {"lock", "read", "logRead"} /\ q.op = call[c].op
  BY <1>1, <1>2, CallShape, TheFields
<1>4. q.op = "check" => q.pc # "logRead"
  BY <1>1 DEF LockInv, Stages
<1> QED BY <1>1, <1>3, <1>4, CallCopies DEF InForce

(* What has just been read is in force.                                    *)
LEMMA ReadCopies ==
    ASSUME IInv, NEW c \in Calls, NEW expired, Read(c) \/ CheckRead(c, expired)
    PROVE  CopiesInForce'
<1> DEFINE r == call[c]
           q == [r EXCEPT !.pc = "save", !.list = kitchen[Source(r.op)]]
           t == AppendUnsafe([r EXCEPT !.list = kitchen.fridge, !.expired = expired,
                                       !.left = expired])
<1>1. UNCHANGED <<kitchen, waste>>
  BY DEF Read, CheckRead
<1>2. CASE Leave(c)
  BY <1>1, <1>2, LeaveCopies
<1>3. CASE Set(c, q)
  <2>1. q.pc = "save" /\ q.op = r.op /\ q.list = kitchen[Source(r.op)]
    BY CallShape, TheFields DEF IInv
  <2> HIDE DEF q
  <2>2. InForce(q, kitchen', waste')
    BY <1>1, <2>1 DEF InForce
  <2> QED BY <1>1, <1>3, <2>2, CallCopies
<1>4. CASE Set(c, t)
  <2>1. t.pc = "logRead" /\ t.op = r.op /\ t.list = kitchen.fridge
    BY CallShape, TheFields DEF IInv, AppendUnsafe
  <2> HIDE DEF t
  <2>2. InForce(t, kitchen', waste')
    BY <1>1, <2>1 DEF InForce
  <2> QED BY <1>1, <1>4, <2>2, CallCopies
<1> QED BY <1>2, <1>3, <1>4 DEF Read, CheckRead

(* The same for the freezer and the log.                                   *)
LEMMA FreezerLogReadCopies ==
    ASSUME IInv, NEW c \in Calls, FreezerRead(c) \/ LogRead(c)
    PROVE  CopiesInForce'
<1> DEFINE r == call[c]
           q == [r EXCEPT !.pc = "freezerSave", !.list = kitchen.freezer]
           t == [r EXCEPT !.pc = "logSave", !.log = waste]
<1>1. UNCHANGED <<kitchen, waste>>
  BY DEF FreezerRead, LogRead
<1>2. CASE FreezerRead(c)
  <2>1. q.pc = "freezerSave" /\ q.op = r.op /\ q.list = kitchen.freezer /\ Set(c, q)
    BY <1>2, CallShape, TheFields DEF IInv, FreezerRead
  <2> HIDE DEF q
  <2>2. InForce(q, kitchen', waste')
    BY <1>1, <2>1 DEF InForce
  <2> QED BY <1>1, <2>1, <2>2, CallCopies
<1>3. CASE LogRead(c)
  <2>1. /\ t.pc = "logSave" /\ t.op = r.op /\ t.log = waste /\ t.list = r.list
        /\ Set(c, t) /\ r.pc = "logRead"
    BY <1>3, CallShape, TheFields DEF IInv, LogRead, At
  <2>2. r.op = "check" => r.list = kitchen.fridge
    BY <2>1 DEF IInv, CopiesInForce, InForce
  <2> HIDE DEF t
  <2>3. InForce(t, kitchen', waste')
    BY <1>1, <2>1, <2>2 DEF InForce
  <2> QED BY <1>1, <2>1, <2>3, CallCopies
<1> QED BY <1>2, <1>3

(* A write changes the file whose lock the call has, and no other.         *)
LEMMA WritesOwn ==
    ASSUME IInv, NEW c \in Calls, NEW o, Save(c, o) \/ FreezerSave(c, o) \/ LogSave(c, o)
    PROVE  /\ \A l \in Lists : lock[l] # c => kitchen'[l] = kitchen[l]
           /\ lock.waste # c => waste' = waste
<1>1. DOMAIN kitchen = Lists /\ call[c].op \in Ops
  BY CallShape DEF IInv
<1>2. CASE Save(c, o)
  <2>1. At(c, "save") /\ waste' = waste
        /\ (kitchen' = kitchen \/ \E x : kitchen' = [kitchen EXCEPT ![Source(call[c].op)] = x])
    BY <1>2 DEF Save
  <2>2. lock[Source(call[c].op)] = c
    BY <2>1, Covered DEF IInv
  <2> QED BY <1>1, <2>1, <2>2
<1>3. CASE FreezerSave(c, o)
  <2>1. At(c, "freezerSave") /\ waste' = waste
        /\ (kitchen' = kitchen \/ \E x : kitchen' = [kitchen EXCEPT !.freezer = x])
    BY <1>3 DEF FreezerSave
  <2>2. lock.freezer = c
    BY <2>1, Covered DEF IInv
  <2> QED BY <1>1, <2>1, <2>2
<1>4. CASE LogSave(c, o)
  <2>1. At(c, "logSave") /\ kitchen' = kitchen
    BY <1>4 DEF LogSave
  <2>2. lock.waste = c
    BY <2>1, Covered DEF IInv
  <2> QED BY <2>1, <2>2
<1> QED BY <1>2, <1>3, <1>4

(* A write of a list leaves every other call's copy in force.              *)
LEMMA SaveCopies ==
    ASSUME IInv, NEW c \in Calls, NEW o, Save(c, o) \/ FreezerSave(c, o)
    PROVE  CopiesInForce'
<1> DEFINE r == call[c]
           q == [r EXCEPT !.pc = "freezerRead", !.batch = r.list[r.idx].batch]
           t == Locking([r EXCEPT !.batch = r.list[r.idx].batch], LogKeys, "logRead")
<1>1. CASE Leave(c)
  BY <1>1, WritesOwn, LeaveCopies
<1>2. CASE Set(c, q)
  <2>1. q.pc = "freezerRead"
    BY CallShape, TheFields DEF IInv
  <2> HIDE DEF q
  <2>2. InForce(q, kitchen', waste')
    BY <2>1 DEF InForce
  <2> QED BY <1>2, <2>2, WritesOwn, CallCopies
<1>3. CASE Set(c, t)
  <2>1. t.pc = "lock"
    BY CallShape, TheFields DEF IInv, Locking, LogKeys
  <2> HIDE DEF t
  <2>2. InForce(t, kitchen', waste')
    BY <2>1 DEF InForce
  <2> QED BY <1>3, <2>2, WritesOwn, CallCopies
<1>4. Leave(c) \/ Set(c, q) \/ Set(c, t)
  <2>1. CASE FreezerSave(c, o)
    BY <2>1 DEF FreezerSave
  <2>2. CASE Save(c, o)
    BY <2>2 DEF Save, AfterSave
  <2> QED BY <2>1, <2>2
<1> QED BY <1>1, <1>2, <1>3, <1>4

(* A write of the log does too, and the check keeps its list.              *)
LEMMA LogSaveCopies ==
    ASSUME IInv, NEW c \in Calls, NEW o, LogSave(c, o)
    PROVE  CopiesInForce'
<1> DEFINE r == call[c]
           left == r.left \ {FirstOf(r.left)}
           q == [r EXCEPT !.left = left, !.pc = IF left = {} THEN "save" ELSE "logRead"]
           t == Locking(r, Keys(r.op), "read")
<1>1. At(c, "logSave") /\ UNCHANGED kitchen
  BY DEF LogSave
<1>2. CASE Leave(c)
  BY <1>2, WritesOwn, LeaveCopies
<1>3. CASE r.op = "check" /\ Set(c, q)
  <2> HIDE DEF left
  <2>1. q.pc \in {"save", "logRead"} /\ q.op = "check" /\ q.list = r.list
    BY <1>3, CallShape, TheFields DEF IInv
  <2>2. r.list = kitchen.fridge /\ Source("check") = "fridge"
    BY <1>1, <1>3, CallShape, KeysOfOp DEF IInv, CopiesInForce, InForce, At
  <2> HIDE DEF q
  <2>3. InForce(q, kitchen', waste')
    BY <1>1, <2>1, <2>2 DEF InForce
  <2> QED BY <1>3, <2>3, WritesOwn, CallCopies
<1>4. CASE Set(c, t)
  <2>1. t.pc = "lock"
    <3>1. Keys(r.op) # {}
      BY CallShape, KeysOfOp DEF IInv
    <3> QED BY <3>1, CallShape DEF IInv, Fields, Locking
  <2> HIDE DEF t
  <2>2. InForce(t, kitchen', waste')
    BY <2>1 DEF InForce
  <2> QED BY <1>4, <2>2, WritesOwn, CallCopies
<1>5. CASE AfterLog(c)
  BY <1>2, <1>3, <1>4, <1>5 DEF AfterLog
<1> QED BY <1>2, <1>5 DEF LogSave

(* No step leaves a call with an old copy.                                 *)
LEMMA CopiesStep == IInv /\ [Next]_vars => CopiesInForce'
<1> SUFFICES ASSUME IInv, [Next]_vars PROVE CopiesInForce'
  OBVIOUS
<1>1. ASSUME NEW c \in Calls, NEW n \in Names, NEW op, NEW i,
             Add(c, op, n) \/ Press(c, op, i, n) \/ Tell(c, op, n)
      PROVE  CopiesInForce'
  <2>1. call'[c].pc = "lock" /\ \A d \in Calls \ {c} : call'[d] = call[d]
    BY <1>1, BeginInv DEF IInv
  <2>2. UNCHANGED <<kitchen, waste>>
    BY <1>1 DEF Add, Press, Tell
  <2> QED BY <2>1, <2>2, NoCopy
<1>2. ASSUME NEW c \in Calls, CallStep(c)
      PROVE  CopiesInForce'
  <2>1. CASE \E f \in Files : Acquire(c, f)
    BY <2>1, AcquireCopies
  <2>2. CASE Read(c) \/ \E expired \in SUBSET Batches : CheckRead(c, expired)
    BY <2>2, ReadCopies
  <2>3. CASE FreezerRead(c) \/ LogRead(c)
    BY <2>3, FreezerLogReadCopies
  <2>4. CASE \E o \in Outcomes : Save(c, o) \/ FreezerSave(c, o)
    BY <2>4, SaveCopies
  <2>5. CASE \E o \in Outcomes : LogSave(c, o)
    BY <2>5, LogSaveCopies
  <2> QED BY <1>2, <2>1, <2>2, <2>3, <2>4, <2>5 DEF CallStep
<1>3. CASE Crash
  <2>1. \A c \in Calls : call'[c].pc = "idle"
    BY <1>3, IdleFits DEF Crash
  <2> QED BY <2>1 DEF CopiesInForce, InForce
<1>4. CASE UNCHANGED vars
  BY <1>4 DEF vars, IInv, CopiesInForce
<1> QED BY <1>1, <1>2, <1>3, <1>4 DEF Next

-----------------------------------------------------------------------------
(* The inductive invariant: every call has exactly the locks of its        *)
(* section, and what it is about to write was made from the list in force. *)
THEOREM Invariance == Spec => []IInv
<1>1. IInv /\ [Next]_vars => IInv'
  BY LocksStep, CopiesStep DEF IInv
<1> QED BY InitInv, <1>1, PTL DEF Spec

(* The lists, the locks and the calls keep their shape.                    *)
THEOREM TypeCorrect == Spec => []TypeOK
<1>1. IInv => TypeOK
  BY DEF IInv, LockInv
<1> QED BY <1>1, Invariance, PTL

(* No update is lost: when a handler writes a list or the log, the file    *)
(* still holds what the handler read, whatever other handlers did          *)
(* meanwhile.                                                              *)
THEOREM NoLostUpdate == Spec => []CopiesInForce
<1>1. IInv => CopiesInForce
  BY DEF IInv
<1> QED BY <1>1, Invariance, PTL

(* In a circle each call would wait for a later key than the one before:   *)
(* the keys would never end, but there are four.                           *)
LEMMA NoCircleOfOrder == LockInv => NoCircle
<1> SUFFICES ASSUME LockInv, NEW cs \in SUBSET Calls, Circle(cs) PROVE FALSE
  BY DEF NoCircle
<1> DEFINE Awaits(c, f) == /\ f \in call[c].want /\ \A g \in call[c].want : Rank[f] <= Rank[g]
                           /\ lock[f] \in cs
<1>1. \A c \in cs : At(c, "lock") /\ \E f \in Files : Awaits(c, f)
  BY DEF Circle, LockInv, TypeOK
<1>2. ASSUME NEW c \in cs, NEW f \in Files, Awaits(c, f)
      PROVE  \E d \in cs, g \in Files : Awaits(d, g) /\ Rank[f] < Rank[g]
  <2>1. PICK d \in cs : lock[f] = d
    BY <1>2
  <2>2. PICK g \in Files : Awaits(d, g)
    BY <1>1
  <2>3. f \in Section(call[d]) \ call[d].want
    BY <2>1 DEF LockInv, Sections
  <2>4. Rank[f] < Rank[g]
    BY <2>2, <2>3 DEF LockInv, Sections
  <2> QED BY <2>2, <2>4
<1> HIDE DEF Awaits
<1>3. Rank \in [Files -> 1..4]
  BY DEF Rank, Files, Lists
<1>4. \A c \in cs, f \in Files : Awaits(c, f) => Rank[f] # 4
  BY <1>2, <1>3
<1>5. \A c \in cs, f \in Files : Awaits(c, f) => Rank[f] # 3
  BY <1>2, <1>3, <1>4
<1>6. \A c \in cs, f \in Files : Awaits(c, f) => Rank[f] # 2
  BY <1>2, <1>3, <1>4, <1>5
<1>7. \A c \in cs, f \in Files : ~Awaits(c, f)
  BY <1>2, <1>3, <1>4, <1>5, <1>6
<1> QED BY <1>1, <1>7 DEF Circle

(* For any operations of any number of members: they never wait for each   *)
(* other in a circle, although moves and the check nest their locks.       *)
THEOREM CircleFree == Spec => []NoCircle
<1>1. IInv => NoCircle
  BY NoCircleOfOrder DEF IInv
<1> QED BY <1>1, Invariance, PTL

-----------------------------------------------------------------------------
(* The stock and the waste log                                             *)

(* A list names each thing once, and has each batch active once.           *)
Tidy(list) ==
    /\ list \in Seq(Item)
    /\ \A i, j \in DOMAIN list : i # j => list[i].name # list[j].name
    /\ \A i, j \in Active(list) : list[i].batch = list[j].batch => i = j

(* A batch a call has in its hands: it is to be put into a list.           *)
InHand(r) ==
    IF \/ r.op \in Adds
       \/ r.op \in Moves /\ r.pc \in {"freezerRead", "freezerSave"}
    THEN {r.batch} ELSE {}

(* A batch a call has thrown away and is to log.                           *)
DueLog(r) ==
    IF r.op \in Tosses /\ Stage(r) \in {"logRead", "logSave"} THEN {r.batch} ELSE {}

(* The batches a check has logged and is to throw away.                    *)
CheckDone(r) ==
    IF r.op = "check" /\ r.pc \in {"logRead", "logSave", "save"}
    THEN {r.list[i].batch : i \in r.expired \ r.left} ELSE {}

(* What a call knows at each of its steps.                                 *)
Knows(r) ==
    /\ r.op # "check" => r.name \in Names
    /\ r.op \in Adds => Stage(r) \in {"read", "save"}
    /\ r.op \in Buttons /\ r.pc = "save" => Hits(r.list, r)
    /\ Stage(r) \in {"logRead", "logSave"} => r.op \in Tosses \cup {"check", "spoiled"}
    /\ r.op = "check" /\ r.pc \in {"logRead", "logSave", "save"} =>
           /\ r.expired \subseteq Active(r.list) /\ r.left \subseteq r.expired
           /\ r.left = {} <=> r.pc = "save"

Told == 1..batches
Shelved == UNION {Held(l) : l \in Lists}
InHands == UNION {InHand(call[c]) : c \in Calls}
DueLogs == UNION {DueLog(call[c]) : c \in Calls}
ChecksDone == UNION {CheckDone(call[c]) : c \in Calls}

DataInv ==
    /\ batches \in 0..MaxBatches /\ faults \in Nat
    /\ DOMAIN kitchen = Lists /\ \A l \in Lists : Tidy(kitchen[l])
    /\ waste \in Seq(Told)
    /\ \A c \in Calls : Knows(call[c])

(* A batch is in one list, in the hands of one call, or gone.              *)
PlaceInv ==
    /\ Shelved \cup InHands \cup gone \subseteq Told
    /\ \A l, k \in Lists : l # k => Held(l) \cap Held(k) = {}
    /\ \A c, d \in Calls : c # d => InHand(call[c]) \cap InHand(call[d]) = {}
    /\ Shelved \cap InHands = {} /\ (Shelved \cup InHands) \cap gone = {}

LossInv == Cardinality(Told \ (gone \cup Shelved \cup InHands)) <= faults

LoggedInv ==
    /\ tossed \subseteq gone /\ DueLogs \subseteq tossed /\ ChecksDone \subseteq ToSet(waste)
    /\ Cardinality(tossed \ (ToSet(waste) \cup DueLogs)) <= faults

(* Without a failure the log is exact.                                     *)
ExactInv ==
    faults = 0 =>
        /\ \A i, j \in DOMAIN waste : waste[i] = waste[j] => i = j
        /\ ToSet(waste) \subseteq tossed \cup ChecksDone
        /\ DueLogs \cap ToSet(waste) = {}
        /\ \A c, d \in Calls : c # d => DueLog(call[c]) \cap DueLog(call[d]) = {}

StockInv == DataInv /\ PlaceInv /\ LossInv /\ LoggedInv /\ ExactInv

(* A list drawn from the places of another keeps their items, each once.   *)
Drawn(new, old, places) ==
    /\ new \in Seq(Item)
    /\ \E e \in [DOMAIN new -> places] :
         /\ \A i, j \in DOMAIN new : e[i] = e[j] => i = j
         /\ \A p \in places : \E i \in DOMAIN new : e[i] = p
         /\ \A i \in DOMAIN new : new[i] = old[e[i]]

LEMMA DrawnTidy ==
    ASSUME NEW old, Tidy(old), NEW new, NEW places \in SUBSET DOMAIN old, Drawn(new, old, places)
    PROVE  /\ Tidy(new)
           /\ ActiveBatches(new, DOMAIN new) = ActiveBatches(old, places)
<1>1. PICK e \in [DOMAIN new -> places] :
          /\ \A i, j \in DOMAIN new : e[i] = e[j] => i = j
          /\ \A p \in places : \E i \in DOMAIN new : e[i] = p
          /\ \A i \in DOMAIN new : new[i] = old[e[i]]
  BY DEF Drawn
<1>2. \A i \in DOMAIN new : e[i] \in DOMAIN old /\ (i \in Active(new) <=> e[i] \in Active(old))
  BY <1>1 DEF Active
<1>3. new \in Seq(Item)
  BY DEF Drawn
<1>4. \A i, j \in DOMAIN new : i # j => new[i].name # new[j].name
  BY <1>1, <1>2 DEF Tidy
<1>5. \A i, j \in Active(new) : new[i].batch = new[j].batch => i = j
  BY <1>1, <1>2 DEF Tidy, Active
<1>6. ActiveBatches(new, DOMAIN new) \subseteq ActiveBatches(old, places)
  BY <1>1, <1>2 DEF ActiveBatches, Active
<1>7. ActiveBatches(old, places) \subseteq ActiveBatches(new, DOMAIN new)
  <2> SUFFICES ASSUME NEW p \in places \cap Active(old)
      PROVE  old[p].batch \in ActiveBatches(new, DOMAIN new)
    BY DEF ActiveBatches
  <2>1. PICK i \in DOMAIN new : e[i] = p
    BY <1>1
  <2> QED BY <1>1, <1>2, <2>1 DEF ActiveBatches
<1> QED BY <1>3, <1>4, <1>5, <1>6, <1>7 DEF Tidy

LEMMA NatInductionSet ==
    ASSUME NEW W, 0 \in W, \A n \in Nat : n \in W => n + 1 \in W
    PROVE  Nat \subseteq W
<1> SUFFICES ASSUME Nat \ W # {} PROVE FALSE
  OBVIOUS
<1>1. PICK n \in Nat \ W : \A m \in Nat \ W : <<m, n>> \notin OpToRel(<, Nat)
  <2>1. Nat \ W \subseteq Nat
    OBVIOUS
  <2> QED BY <2>1, NatLessThanWellFounded, WFMin, Zenon
<1>2. n # 0 /\ n \in Nat
  BY <1>1
<1>3. n - 1 \in Nat /\ n - 1 < n /\ (n - 1) + 1 = n
  BY <1>2
<1>4. n - 1 \in W
  BY <1>1, <1>2, <1>3 DEF OpToRel
<1> QED BY <1>1, <1>2, <1>3, <1>4

(* The recursion of Without.                                               *)
KeptStep(list, n, kept, i) ==
    IF i = 0 THEN <<>>
    ELSE IF list[i].name = n THEN kept[i - 1]
    ELSE Append(kept[i - 1], list[i])

Kept(list, n) == CHOOSE kept : kept = [i \in 0..Len(list) |-> KeptStep(list, n, kept, i)]

LEMMA WithoutUnfold ==
    ASSUME NEW list, NEW n PROVE Without(list, n) = Kept(list, n)[Len(list)]
  BY DEF Without, Kept, KeptStep

LEMMA KeptRule ==
    ASSUME NEW list \in Seq(Item), NEW n, NEW i \in 0..Len(list)
    PROVE  Kept(list, n)[i] = KeptStep(list, n, Kept(list, n), i)
<1> DEFINE W == {m \in Nat : \E f : f = [j \in 0..m |-> KeptStep(list, n, f, j)]}
<1>1. 0 \in W
  <2> DEFINE f == [j \in 0..0 |-> <<>>]
  <2>1. f = [j \in 0..0 |-> KeptStep(list, n, f, j)]
    BY DEF KeptStep
  <2> QED BY <2>1
<1>2. ASSUME NEW m \in Nat, m \in W PROVE m + 1 \in W
  <2>1. PICK f : f = [j \in 0..m |-> KeptStep(list, n, f, j)]
    BY <1>2
  <2> DEFINE g == [j \in 0..m + 1 |-> IF j <= m THEN f[j] ELSE KeptStep(list, n, f, j)]
  <2>2. ASSUME NEW j \in 0..m + 1 PROVE g[j] = KeptStep(list, n, g, j)
    <3>1. CASE j = 0
      <4>1. 0 \in 0..m /\ 0 \in 0..m + 1 /\ 0 <= m
        OBVIOUS
      <4>2. g[0] = f[0]
        BY <4>1
      <4>3. f[0] = KeptStep(list, n, f, 0)
        BY <2>1, <4>1
      <4> QED BY <3>1, <4>2, <4>3 DEF KeptStep
    <3>2. CASE j # 0
      <4>1. j - 1 \in 0..m /\ g[j - 1] = f[j - 1]
        BY <3>2
      <4>2. KeptStep(list, n, g, j) = KeptStep(list, n, f, j)
        BY <4>1 DEF KeptStep
      <4>3. j <= m => f[j] = KeptStep(list, n, f, j)
        BY <2>1
      <4> QED BY <4>2, <4>3
    <3> QED BY <3>1, <3>2
  <2>3. g = [j \in 0..m + 1 |-> KeptStep(list, n, g, j)]
    BY <2>2
  <2> HIDE DEF g
  <2>4. m + 1 \in Nat
    OBVIOUS
  <2> QED BY <2>3, <2>4
<1> HIDE DEF W
<1>3. Len(list) \in W
  BY <1>1, <1>2, NatInductionSet
<1>4. \E f : f = [j \in 0..Len(list) |-> KeptStep(list, n, f, j)]
  BY <1>3 DEF W
<1>5. Kept(list, n) = [j \in 0..Len(list) |-> KeptStep(list, n, Kept(list, n), j)]
  BY <1>4 DEF Kept
<1> QED BY <1>5

LEMMA DrawnMore ==
    ASSUME NEW old \in Seq(Item), NEW places \in SUBSET DOMAIN old, NEW new,
           Drawn(new, old, places), NEW p \in DOMAIN old \ places
    PROVE  Drawn(Append(new, old[p]), old, places \cup {p})
<1>1. PICK e \in [DOMAIN new -> places] :
          /\ \A i, j \in DOMAIN new : e[i] = e[j] => i = j
          /\ \A q \in places : \E i \in DOMAIN new : e[i] = q
          /\ \A i \in DOMAIN new : new[i] = old[e[i]]
  BY DEF Drawn
<1> DEFINE more == Append(new, old[p])
           last == Len(new) + 1
           e2 == [i \in 1..last |-> IF i = last THEN p ELSE e[i]]
<1>2. new \in Seq(Item) /\ old[p] \in Item /\ Len(new) \in Nat /\ DOMAIN new = 1..Len(new)
  BY DEF Drawn
<1>3. /\ more \in Seq(Item) /\ DOMAIN more = 1..last /\ more[last] = old[p]
      /\ \A i \in DOMAIN new : more[i] = new[i] /\ i # last /\ i \in 1..last
      /\ \A i \in 1..last : i = last \/ i \in DOMAIN new
  BY <1>2
<1> HIDE DEF more
<1>4. /\ e2[last] = p /\ last \in 1..last
      /\ \A i \in DOMAIN new : e2[i] = e[i] /\ e[i] \in places
  BY <1>1, <1>2, <1>3
<1>5. e2 \in [1..last -> places \cup {p}]
  BY <1>1, <1>3, <1>4
<1> HIDE DEF last, e2
<1>6. \A i, j \in 1..last : e2[i] = e2[j] => i = j
  BY <1>1, <1>3, <1>4
<1>7. \A q \in places \cup {p} : \E i \in 1..last : e2[i] = q
  BY <1>1, <1>3, <1>4
<1>8. \A i \in 1..last : more[i] = old[e2[i]]
  BY <1>1, <1>3, <1>4
<1>9. Drawn(more, old, places \cup {p})
  <2>1. \E g \in [DOMAIN more -> places \cup {p}] :
           /\ \A i, j \in DOMAIN more : g[i] = g[j] => i = j
           /\ \A q \in places \cup {p} : \E i \in DOMAIN more : g[i] = q
           /\ \A i \in DOMAIN more : more[i] = old[g[i]]
    <3>1. e2 \in [DOMAIN more -> places \cup {p}]
      BY <1>3, <1>5
    <3>2. \A i, j \in DOMAIN more : e2[i] = e2[j] => i = j
      BY <1>3, <1>6
    <3>3. \A q \in places \cup {p} : \E i \in DOMAIN more : e2[i] = q
      BY <1>3, <1>7
    <3>4. \A i \in DOMAIN more : more[i] = old[e2[i]]
      BY <1>3, <1>8
    <3> QED BY <3>1, <3>2, <3>3, <3>4
  <2> QED BY <1>3, <2>1 DEF Drawn
<1> QED BY <1>9 DEF more

(* What is left of a list without a name: the items of other names.        *)
LEMMA WithoutDrawn ==
    ASSUME NEW list \in Seq(Item), NEW n
    PROVE  Drawn(Without(list, n), list, DOMAIN list \ Named(list, n))
<1> DEFINE Rest(m) == {p \in 1..m : list[p].name # n}
           W == {m \in Nat : m <= Len(list) => Drawn(Kept(list, n)[m], list, Rest(m))}
<1>0. Len(list) \in Nat /\ DOMAIN list = 1..Len(list)
  OBVIOUS
<1>1. 0 \in W
  <2>1. Kept(list, n)[0] = <<>>
    BY <1>0, KeptRule DEF KeptStep
  <2>2. Rest(0) = {}
    OBVIOUS
  <2>3. Drawn(<<>>, list, {})
    <3> DEFINE e == [i \in {} |-> i]
    <3>1. <<>> \in Seq(Item) /\ DOMAIN <<>> = {}
      OBVIOUS
    <3>2. e \in [{} -> {}]
      OBVIOUS
    <3> QED BY <3>1, <3>2 DEF Drawn
  <2> QED BY <2>1, <2>2, <2>3
<1>2. ASSUME NEW m \in Nat, m \in W PROVE m + 1 \in W
  <2> SUFFICES ASSUME m + 1 <= Len(list) PROVE Drawn(Kept(list, n)[m + 1], list, Rest(m + 1))
    OBVIOUS
  <2>1. Drawn(Kept(list, n)[m], list, Rest(m))
    BY <1>0, <1>2
  <2>2. Kept(list, n)[m + 1] = IF list[m + 1].name = n THEN Kept(list, n)[m]
                               ELSE Append(Kept(list, n)[m], list[m + 1])
    <3>1. m + 1 \in 0..Len(list) /\ m + 1 # 0 /\ (m + 1) - 1 = m
      BY <1>0
    <3> QED BY <3>1, KeptRule DEF KeptStep
  <2>3. CASE list[m + 1].name = n
    <3>1. Rest(m + 1) = Rest(m)
      BY <2>3
    <3> QED BY <2>1, <2>2, <2>3, <3>1
  <2>4. CASE list[m + 1].name # n
    <3>1. Rest(m + 1) = Rest(m) \cup {m + 1}
      BY <2>4
    <3>2. Rest(m) \in SUBSET DOMAIN list /\ m + 1 \in DOMAIN list \ Rest(m)
      BY <1>0
    <3> HIDE DEF Rest
    <3>3. Drawn(Append(Kept(list, n)[m], list[m + 1]), list, Rest(m) \cup {m + 1})
      BY <2>1, <3>2, DrawnMore
    <3> QED BY <2>2, <2>4, <3>1, <3>3
  <2> QED BY <2>3, <2>4
<1> HIDE DEF W
<1>3. Len(list) \in W
  BY <1>0, <1>1, <1>2, NatInductionSet
<1>4. Drawn(Kept(list, n)[Len(list)], list, Rest(Len(list)))
  BY <1>0, <1>3 DEF W
<1>5. Rest(Len(list)) = DOMAIN list \ Named(list, n)
  BY <1>0 DEF Named
<1> QED BY <1>4, <1>5, WithoutUnfold

(* Taking an item out keeps the others.                                    *)
LEMMA RemoveDrawn ==
    ASSUME NEW list \in Seq(Item), NEW k \in DOMAIN list
    PROVE  Drawn(RemoveAt(list, k), list, DOMAIN list \ {k})
<1>1. Len(list) \in Nat /\ DOMAIN list = 1..Len(list) /\ k \in 1..Len(list)
  OBVIOUS
<1> DEFINE a == SubSeq(list, 1, k - 1) b == SubSeq(list, k + 1, Len(list))
           e == [i \in 1..Len(list) - 1 |-> IF i < k THEN i ELSE i + 1]
<1>2. /\ a \in Seq(Item) /\ Len(a) = k - 1 /\ \A i \in 1..k - 1 : a[i] = list[i]
  BY <1>1
<1>3. /\ b \in Seq(Item) /\ Len(b) = Len(list) - k
      /\ \A i \in 1..Len(list) - k : b[i] = list[i + k]
  BY <1>1
<1>4. RemoveAt(list, k) = a \o b
  BY DEF RemoveAt
<1> HIDE DEF a, b
<1>5. /\ a \o b \in Seq(Item) /\ Len(a \o b) = Len(list) - 1
      /\ \A i \in 1..Len(list) - 1 : (a \o b)[i] = IF i < k THEN a[i] ELSE b[i - k + 1]
  <2>1. a \o b \in Seq(Item) /\ Len(a \o b) = Len(a) + Len(b)
    BY <1>2, <1>3, ConcatProperties
  <2>2. \A i \in 1..Len(a) + Len(b) : (a \o b)[i] = IF i <= Len(a) THEN a[i] ELSE b[i - Len(a)]
    BY <1>2, <1>3, ConcatProperties
  <2>3. \A i \in 1..Len(list) - 1 : i <= k - 1 <=> i < k
    BY <1>1
  <2>4. \A i \in 1..Len(list) - 1 : i - (k - 1) = i - k + 1
    BY <1>1
  <2> QED BY <1>1, <1>2, <1>3, <2>1, <2>2, <2>3, <2>4
<1> DEFINE c == a \o b
<1>55. c \in Seq(Item) /\ Len(c) = Len(list) - 1
  BY <1>5
<1>6. DOMAIN c = 1..Len(list) - 1
  <2> HIDE DEF c
  <2> QED BY <1>1, <1>55
<1>7. \A i \in 1..Len(list) - 1 : c[i] = list[e[i]]
  <2> SUFFICES ASSUME NEW i \in 1..Len(list) - 1 PROVE c[i] = list[e[i]]
    OBVIOUS
  <2>1. CASE i < k
    BY <1>1, <1>2, <1>5, <2>1
  <2>2. CASE ~(i < k)
    <3>1. c[i] = b[i - k + 1] /\ i - k + 1 \in 1..Len(list) - k /\ (i - k + 1) + k = i + 1
      BY <1>1, <1>5, <2>2
    <3>2. b[i - k + 1] = list[(i - k + 1) + k]
      BY <1>3, <3>1
    <3>3. e[i] = i + 1
      BY <2>2
    <3> QED BY <3>1, <3>2, <3>3
  <2> QED BY <2>1, <2>2
<1>8. e \in [1..Len(list) - 1 -> DOMAIN list \ {k}]
  BY <1>1
<1>9. \A i, j \in 1..Len(list) - 1 : e[i] = e[j] => i = j
  BY <1>1
<1>10. ASSUME NEW p \in DOMAIN list \ {k} PROVE \E i \in 1..Len(list) - 1 : e[i] = p
  <2> DEFINE i == IF p < k THEN p ELSE p - 1
  <2>1. i \in 1..Len(list) - 1 /\ e[i] = p
    BY <1>1
  <2> QED BY <2>1
<1> HIDE DEF c, e
<1>11. Drawn(c, list, DOMAIN list \ {k})
  <2>1. \E g \in [DOMAIN c -> DOMAIN list \ {k}] :
           /\ \A i, j \in DOMAIN c : g[i] = g[j] => i = j
           /\ \A q \in DOMAIN list \ {k} : \E i \in DOMAIN c : g[i] = q
           /\ \A i \in DOMAIN c : c[i] = list[g[i]]
    <3>1. e \in [DOMAIN c -> DOMAIN list \ {k}]
      BY <1>6, <1>8
    <3>2. \A i, j \in DOMAIN c : e[i] = e[j] => i = j
      BY <1>6, <1>9
    <3>3. \A q \in DOMAIN list \ {k} : \E i \in DOMAIN c : e[i] = q
      BY <1>6, <1>10
    <3>4. \A i \in DOMAIN c : c[i] = list[e[i]]
      BY <1>6, <1>7
    <3> QED BY <3>1, <3>2, <3>3, <3>4
  <2> QED BY <1>55, <2>1 DEF Drawn
<1> QED BY <1>4, <1>11 DEF c

-----------------------------------------------------------------------------
(* What the changes do to the batches of a list                            *)

All(list) == ActiveBatches(list, DOMAIN list)

(* The batches a change takes out of the list.                             *)
Out(r) == ActiveBatches(r.list, IF r.op = "check" THEN r.expired ELSE Places(r.list, r))

(* The batch it brings in.                                                 *)
Into(r) == IF r.op \in Adds THEN {r.batch} ELSE {}

(* The batches at some places of a list are not at others.                 *)
LEMMA Others ==
    ASSUME NEW list, Tidy(list), NEW places \in SUBSET DOMAIN list
    PROVE  /\ ActiveBatches(list, DOMAIN list \ places) = All(list) \ ActiveBatches(list, places)
           /\ ActiveBatches(list, places) \subseteq All(list)
<1>1. \A i, j \in Active(list) : list[i].batch = list[j].batch => i = j
  BY DEF Tidy
<1>2. Active(list) \subseteq DOMAIN list
  BY DEF Active
<1> QED BY <1>1, <1>2 DEF ActiveBatches, All

LEMMA HandledTidy ==
    ASSUME NEW list, Tidy(list), NEW places \in SUBSET DOMAIN list
    PROVE  /\ Tidy(Handled(list, places))
           /\ All(Handled(list, places)) = All(list) \ ActiveBatches(list, places)
<1> DEFINE new == Handled(list, places)
<1>1. list \in Seq(Item) /\ DOMAIN list = 1..Len(list) /\ Len(list) \in Nat
  BY DEF Tidy
<1>2. /\ DOMAIN new = DOMAIN list
      /\ \A i \in places : new[i] = [list[i] EXCEPT !.active = FALSE]
      /\ \A i \in DOMAIN list \ places : new[i] = list[i]
  BY DEF Handled
<1>3. \A i \in DOMAIN list : list[i] \in Item
  BY <1>1
<1>4. ASSUME NEW x \in Item
      PROVE  /\ [x EXCEPT !.active = FALSE] \in Item
             /\ [x EXCEPT !.active = FALSE].name = x.name
             /\ [x EXCEPT !.active = FALSE].batch = x.batch
             /\ [x EXCEPT !.active = FALSE].active = FALSE
  BY DEF Item
<1>5. /\ \A i \in DOMAIN list : new[i] \in Item /\ new[i].name = list[i].name
                                /\ new[i].batch = list[i].batch
      /\ \A i \in places : new[i].active = FALSE
      /\ \A i \in DOMAIN list \ places : new[i].active = list[i].active
  <2> HIDE DEF new
  <2>1. ASSUME NEW i \in places
        PROVE  /\ new[i] \in Item /\ new[i].name = list[i].name
               /\ new[i].batch = list[i].batch /\ new[i].active = FALSE
    <3>1. list[i] \in Item /\ new[i] = [list[i] EXCEPT !.active = FALSE]
      BY <1>2, <1>3
    <3> QED BY <1>4, <3>1
  <2> QED BY <1>2, <1>3, <2>1
<1>6. new \in Seq(Item)
  <2>1. new = [i \in 1..Len(list) |-> new[i]]
    BY <1>1 DEF Handled
  <2> HIDE DEF new
  <2>2. new \in [1..Len(list) -> Item]
    BY <1>1, <1>5, <2>1
  <2> QED BY <1>1, <2>2
<1> HIDE DEF new
<1>7. Active(new) = Active(list) \ places
  BY <1>2, <1>5 DEF Active
<1>8. All(new) = ActiveBatches(list, DOMAIN list \ places)
  BY <1>2, <1>5, <1>7 DEF All, ActiveBatches, Active
<1>9. Tidy(new)
  <2>1. \A i, j \in DOMAIN new : i # j => new[i].name # new[j].name
    BY <1>2, <1>5 DEF Tidy
  <2>2. \A i, j \in Active(new) : new[i].batch = new[j].batch => i = j
    BY <1>5, <1>7 DEF Tidy, Active
  <2> QED BY <1>6, <2>1, <2>2 DEF Tidy
<1> QED BY <1>8, <1>9, Others DEF new

LEMMA PutTidy ==
    ASSUME NEW list, Tidy(list), NEW n \in Names, NEW b \in Batches, b \notin All(list)
    PROVE  /\ Tidy(Put(list, n, b))
           /\ All(Put(list, n, b)) = (All(list) \ ActiveBatches(list, Named(list, n))) \cup {b}
<1> DEFINE item == [name |-> n, batch |-> b, active |-> TRUE]
           new == Put(list, n, b)
           places == Named(list, n)
<1>1. /\ list \in Seq(Item) /\ DOMAIN list = 1..Len(list) /\ Len(list) \in Nat
      /\ \A i \in DOMAIN list : list[i] \in Item
      /\ \A i, j \in DOMAIN list : i # j => list[i].name # list[j].name
      /\ \A i, j \in Active(list) : list[i].batch = list[j].batch => i = j
  BY DEF Tidy
<1>2. item \in Item /\ item.name = n /\ item.batch = b /\ item.active = TRUE
  BY DEF Item
<1>3. \A i \in Active(list) : list[i].batch # b
  BY DEF All, ActiveBatches, Active
<1>4. places \subseteq DOMAIN list /\ \A i \in DOMAIN list : i \in places <=> list[i].name = n
  BY DEF Named
<1>5. CASE places = {}
  <2>1. new = Append(list, item)
    BY <1>5 DEF Put
  <2> HIDE DEF item
  <2> DEFINE last == Len(list) + 1
  <2>2. /\ new \in Seq(Item) /\ DOMAIN new = DOMAIN list \cup {last} /\ new[last] = item
        /\ \A i \in DOMAIN list : new[i] = list[i] /\ i # last
    BY <1>1, <1>2, <2>1
  <2> HIDE DEF new, last
  <2>3. Active(new) = Active(list) \cup {last}
    BY <1>2, <2>2 DEF Active
  <2>4. Active(list) \subseteq DOMAIN list
    BY DEF Active
  <2>5. Tidy(new)
    <3>1. \A i, j \in DOMAIN new : i # j => new[i].name # new[j].name
      BY <1>1, <1>2, <1>4, <1>5, <2>2
    <3>2. \A i, j \in Active(new) : new[i].batch = new[j].batch => i = j
      BY <1>1, <1>2, <1>3, <2>2, <2>3, <2>4
    <3> QED BY <2>2, <3>1, <3>2 DEF Tidy
  <2>6. All(new) = All(list) \cup {b}
    <3>1. All(new) = {new[i].batch : i \in Active(list) \cup {last}}
      BY <2>2, <2>3, <2>4 DEF All, ActiveBatches
    <3>2. All(list) = {list[i].batch : i \in Active(list)}
      BY <2>4 DEF All, ActiveBatches
    <3>3. \A i \in Active(list) : new[i] = list[i]
      BY <2>2, <2>4
    <3> QED BY <1>2, <2>2, <3>1, <3>2, <3>3
  <2>7. ActiveBatches(list, places) = {}
    BY <1>5 DEF ActiveBatches
  <2> QED BY <2>5, <2>6, <2>7 DEF new
<1>6. CASE places # {}
  <2>1. PICK p : p \in places
    BY <1>6
  <2>2. p \in DOMAIN list /\ places = {p}
    BY <1>1, <1>4, <2>1
  <2>3. new = [i \in DOMAIN list |-> IF i \in places THEN item ELSE list[i]]
    BY <1>6 DEF Put
  <2>4. /\ DOMAIN new = DOMAIN list /\ new[p] = item
        /\ \A i \in DOMAIN list \ {p} : new[i] = list[i]
    BY <2>2, <2>3
  <2>5. new \in Seq(Item)
    <3>1. new \in [1..Len(list) -> Item]
      BY <1>1, <1>2, <2>3
    <3> QED BY <1>1, <3>1
  <2> HIDE DEF new, item
  <2>6. Active(new) = Active(list) \cup {p}
    BY <1>2, <2>2, <2>4 DEF Active
  <2>7. Active(list) \subseteq DOMAIN list
    BY DEF Active
  <2>8. Tidy(new)
    <3>1. \A i \in DOMAIN new : new[i].name = list[i].name
      BY <1>2, <1>4, <2>1, <2>2, <2>4
    <3>2. \A i, j \in DOMAIN new : i # j => new[i].name # new[j].name
      BY <1>1, <2>4, <3>1
    <3>3. \A i, j \in Active(new) : new[i].batch = new[j].batch => i = j
      BY <1>1, <1>2, <1>3, <2>4, <2>6, <2>7
    <3> QED BY <2>5, <3>2, <3>3 DEF Tidy
  <2>9. All(new) = ActiveBatches(list, DOMAIN list \ places) \cup {b}
    <3>1. All(new) = {new[i].batch : i \in Active(list) \cup {p}}
      BY <2>2, <2>4, <2>6, <2>7 DEF All, ActiveBatches
    <3>2. ActiveBatches(list, DOMAIN list \ places) = {list[i].batch : i \in Active(list) \ {p}}
      BY <2>2, <2>7 DEF ActiveBatches
    <3>3. \A i \in Active(list) \ {p} : new[i] = list[i]
      BY <2>4, <2>7
    <3>4. new[p].batch = b
      BY <1>2, <2>4
    <3> HIDE DEF places
    <3> QED BY <3>1, <3>2, <3>3, <3>4
  <2> QED BY <1>4, <2>8, <2>9, Others DEF new
<1> QED BY <1>5, <1>6

(* What an operation writes: its list without what it takes out, with what *)
(* it brings in.                                                           *)
LEMMA ChangedTidy ==
    ASSUME NEW r, Tidy(r.list), r.op \in Ops, Knows(r), r.pc = "save",
           r.op \in Adds => r.batch \in Batches \ All(r.list)
    PROVE  /\ Tidy(Changed(r))
           /\ All(Changed(r)) = (All(r.list) \ Out(r)) \cup Into(r)
           /\ Out(r) \subseteq All(r.list)
<1> USE DEF Ops, Adds, Buttons
<1>1. /\ r.list \in Seq(Item) /\ (r.op # "check" => r.name \in Names)
      /\ (r.op \in Buttons => Hits(r.list, r))
  BY DEF Tidy, Knows
<1>2. CASE r.op \in Adds
  <2>1. Changed(r) = Put(r.list, r.name, r.batch)
    BY <1>2 DEF Changed
  <2>2. Places(r.list, r) = Named(r.list, r.name) /\ Named(r.list, r.name) \subseteq DOMAIN r.list
    BY <1>2 DEF Places, Named
  <2>3. Out(r) = ActiveBatches(r.list, Named(r.list, r.name)) /\ Into(r) = {r.batch}
    BY <1>2, <2>2 DEF Out, Into
  <2>4. r.batch \in Batches /\ r.batch \notin All(r.list) /\ r.name \in Names
    BY <1>1, <1>2
  <2>5. /\ Tidy(Put(r.list, r.name, r.batch))
        /\ All(Put(r.list, r.name, r.batch))
             = (All(r.list) \ ActiveBatches(r.list, Named(r.list, r.name))) \cup {r.batch}
    BY <2>4, PutTidy
  <2>6. ActiveBatches(r.list, Named(r.list, r.name)) \subseteq All(r.list)
    BY <2>2, Others
  <2> QED BY <2>1, <2>3, <2>5, <2>6
<1>3. CASE r.op \in {"use", "freezeLeftover", "tossLeftover"}
  <2>1. Changed(r) = Handled(r.list, {r.idx})
    BY <1>3 DEF Changed
  <2>2. r.idx \in DOMAIN r.list /\ Places(r.list, r) = {r.idx}
    BY <1>1, <1>3 DEF Places, Hits
  <2>3. Out(r) = ActiveBatches(r.list, {r.idx}) /\ Into(r) = {}
    BY <1>3, <2>2 DEF Out, Into
  <2>4. {r.idx} \in SUBSET DOMAIN r.list
    BY <2>2
  <2>5. /\ Tidy(Handled(r.list, {r.idx}))
        /\ All(Handled(r.list, {r.idx})) = All(r.list) \ ActiveBatches(r.list, {r.idx})
    BY <2>4, HandledTidy
  <2>6. ActiveBatches(r.list, {r.idx}) \subseteq All(r.list)
    BY <2>4, Others
  <2> QED BY <2>1, <2>3, <2>5, <2>6
<1>4. CASE r.op = "check"
  <2>1. Changed(r) = Handled(r.list, r.expired)
    BY <1>4 DEF Changed
  <2>2. r.expired \subseteq DOMAIN r.list
    BY <1>4 DEF Knows, Active
  <2>3. Out(r) = ActiveBatches(r.list, r.expired) /\ Into(r) = {}
    BY <1>4 DEF Out, Into
  <2>4. r.expired \in SUBSET DOMAIN r.list
    BY <2>2
  <2>5. /\ Tidy(Handled(r.list, r.expired))
        /\ All(Handled(r.list, r.expired)) = All(r.list) \ ActiveBatches(r.list, r.expired)
    BY <2>4, HandledTidy
  <2>6. ActiveBatches(r.list, r.expired) \subseteq All(r.list)
    BY <2>4, Others
  <2> QED BY <2>1, <2>3, <2>5, <2>6
<1>5. CASE r.op \in {"remove", "spoiled"}
  <2>1. Changed(r) = Without(r.list, r.name)
    BY <1>5 DEF Changed
  <2>2. Places(r.list, r) = Named(r.list, r.name) /\ Named(r.list, r.name) \subseteq DOMAIN r.list
    BY <1>5 DEF Places, Named
  <2>3. Out(r) = ActiveBatches(r.list, Named(r.list, r.name)) /\ Into(r) = {}
    BY <1>5, <2>2 DEF Out, Into
  <2>4. Drawn(Without(r.list, r.name), r.list, DOMAIN r.list \ Named(r.list, r.name))
    BY <1>1, WithoutDrawn
  <2> QED BY <2>1, <2>2, <2>3, <2>4, DrawnTidy, Others DEF All
<1>6. CASE r.op \in {"thaw", "freezePantry", "tossPantry", "tossFreezer"}
  <2>1. Changed(r) = RemoveAt(r.list, r.idx)
    BY <1>6 DEF Changed
  <2>2. r.idx \in DOMAIN r.list /\ Places(r.list, r) = {r.idx}
    BY <1>1, <1>6 DEF Places, Hits
  <2>3. Out(r) = ActiveBatches(r.list, {r.idx}) /\ Into(r) = {}
    BY <1>6, <2>2 DEF Out, Into
  <2>4. Drawn(RemoveAt(r.list, r.idx), r.list, DOMAIN r.list \ {r.idx})
    BY <1>1, <2>2, RemoveDrawn
  <2> QED BY <2>1, <2>2, <2>3, <2>4, DrawnTidy, Others DEF All
<1> QED BY <1>2, <1>3, <1>4, <1>5, <1>6

(* A button is about one batch.                                            *)
LEMMA OneOut ==
    ASSUME NEW r, r.op \in Buttons, Hits(r.list, r)
    PROVE  Out(r) = {r.list[r.idx].batch}
<1>1. r.op # "check" /\ Places(r.list, r) = {r.idx}
  BY DEF Buttons, Places
<1>2. r.idx \in Active(r.list)
  BY DEF Hits, Active
<1> QED BY <1>1, <1>2 DEF Out, ActiveBatches

-----------------------------------------------------------------------------
(* What a step may do to the places of the batches                         *)

(* Batches that are accounted for.                                         *)
Found == gone \cup Shelved \cup InHands

(* The lists but one stay, and the hands of all calls but one.             *)
Frame(c, s) ==
    /\ \A d \in Calls \ {c} : call'[d] = call[d]
    /\ \A l \in Lists \ {s} : kitchen'[l] = kitchen[l]
    /\ DOMAIN kitchen' = Lists

LEMMA FrameSets ==
    ASSUME NEW c \in Calls, NEW s \in Lists, Frame(c, s)
    PROVE  /\ \A d \in Calls \ {c} : InHand(call'[d]) = InHand(call[d])
                                     /\ DueLog(call'[d]) = DueLog(call[d])
                                     /\ CheckDone(call'[d]) = CheckDone(call[d])
           /\ \A l \in Lists \ {s} : Held(l)' = Held(l)
           /\ \A l \in Lists : Held(l) = All(kitchen[l]) /\ Held(l)' = All(kitchen'[l])
           /\ InHands' = UNION {InHand(call'[d]) : d \in Calls}
           /\ DueLogs' = UNION {DueLog(call'[d]) : d \in Calls}
           /\ ChecksDone' = UNION {CheckDone(call'[d]) : d \in Calls}
<1>1. \A l \in Lists : Held(l)' = All(kitchen'[l]) /\ Held(l) = All(kitchen[l])
  BY DEF Held, All, ActiveBatches, Active
<1>2. \A l \in Lists \ {s} : Held(l)' = Held(l)
  BY <1>1 DEF Frame
<1>3. \A d \in Calls \ {c} : call'[d] = call[d]
  BY DEF Frame
<1>4. /\ InHands' = UNION {InHand(call'[d]) : d \in Calls}
      /\ DueLogs' = UNION {DueLog(call'[d]) : d \in Calls}
      /\ ChecksDone' = UNION {CheckDone(call'[d]) : d \in Calls}
  BY DEF InHands, DueLogs, ChecksDone, InHand, DueLog, CheckDone, Stage
<1> QED BY <1>1, <1>2, <1>3, <1>4

(* A batch goes from the hands of a call into a list, from a list into its *)
(* hands or away.                                                          *)
LEMMA PlaceStep ==
    ASSUME PlaceInv, NEW c \in Calls, NEW s \in Lists, Frame(c, s), Told \subseteq Told',
           Held(s)' \subseteq Held(s) \cup InHand(call[c]),
           InHand(call'[c]) \subseteq InHand(call[c]) \cup (Held(s) \ Held(s)') \cup (Told' \ Told),
           InHand(call'[c]) \cap Held(s)' = {},
           gone' \subseteq gone \cup (Held(s) \ Held(s)'),
           gone' \cap InHand(call'[c]) = {}
    PROVE  PlaceInv'
<1> DEFINE H(l) == Held(l)
           K(l) == Held(l)'
           I(d) == InHand(call[d])
           J(d) == InHand(call'[d])
           G == gone
           N == gone'
           T == Told
           V == Told'
<1>1. /\ \A d \in Calls \ {c} : J(d) = I(d)
      /\ \A l \in Lists \ {s} : K(l) = H(l)
      /\ InHands' = UNION {J(d) : d \in Calls} /\ InHands = UNION {I(d) : d \in Calls}
      /\ Shelved' = UNION {K(l) : l \in Lists} /\ Shelved = UNION {H(l) : l \in Lists}
  BY FrameSets DEF InHands, Shelved
<1>2. /\ \A l \in Lists : H(l) \subseteq T /\ H(l) \cap G = {}
      /\ \A d \in Calls : I(d) \subseteq T /\ I(d) \cap G = {}
      /\ \A l \in Lists, d \in Calls : H(l) \cap I(d) = {}
      /\ G \subseteq T
      /\ \A l, k \in Lists : l # k => H(l) \cap H(k) = {}
      /\ \A d, e \in Calls : d # e => I(d) \cap I(e) = {}
  BY <1>1 DEF PlaceInv
<1>3. /\ T \subseteq V /\ K(s) \subseteq H(s) \cup I(c)
      /\ J(c) \subseteq I(c) \cup (H(s) \ K(s)) \cup (V \ T)
      /\ J(c) \cap K(s) = {} /\ N \subseteq G \cup (H(s) \ K(s)) /\ N \cap J(c) = {}
  OBVIOUS
<1> HIDE DEF H, K, I, J, G, N, T, V
<1>4. \A l \in Lists : K(l) \subseteq V /\ K(l) \cap N = {}
  <2> SUFFICES ASSUME NEW l \in Lists PROVE K(l) \subseteq V /\ K(l) \cap N = {}
    OBVIOUS
  <2>1. CASE l = s
    BY <1>2, <1>3, <2>1
  <2>2. CASE l # s
    BY <1>1, <1>2, <1>3, <2>2
  <2> QED BY <2>1, <2>2
<1>5. \A d \in Calls : J(d) \subseteq V /\ J(d) \cap N = {}
  <2> SUFFICES ASSUME NEW d \in Calls PROVE J(d) \subseteq V /\ J(d) \cap N = {}
    OBVIOUS
  <2>1. CASE d = c
    BY <1>2, <1>3, <2>1
  <2>2. CASE d # c
    BY <1>1, <1>2, <1>3, <2>2
  <2> QED BY <2>1, <2>2
<1>6. \A l \in Lists, d \in Calls : K(l) \cap J(d) = {}
  <2> SUFFICES ASSUME NEW l \in Lists, NEW d \in Calls PROVE K(l) \cap J(d) = {}
    OBVIOUS
  <2>1. CASE l = s /\ d = c
    BY <1>3, <2>1
  <2>2. CASE l # s /\ d = c
    BY <1>1, <1>2, <1>3, <2>2
  <2>3. CASE l = s /\ d # c
    BY <1>1, <1>2, <1>3, <2>3
  <2>4. CASE l # s /\ d # c
    BY <1>1, <1>2, <2>4
  <2> QED BY <2>1, <2>2, <2>3, <2>4
<1>7. N \subseteq V
  BY <1>2, <1>3
<1>8. \A l, k \in Lists : l # k => K(l) \cap K(k) = {}
  <2>1. \A l \in Lists \ {s} : K(l) \cap K(s) = {}
    BY <1>1, <1>2, <1>3
  <2> QED BY <1>1, <1>2, <2>1
<1>9. \A d, e \in Calls : d # e => J(d) \cap J(e) = {}
  <2>1. \A d \in Calls \ {c} : J(d) \cap J(c) = {}
    BY <1>1, <1>2, <1>3
  <2> QED BY <1>1, <1>2, <2>1
<1>10. Shelved' \cup InHands' \cup N \subseteq V
  BY <1>1, <1>4, <1>5, <1>7
<1>11. Shelved' \cap InHands' = {} /\ (Shelved' \cup InHands') \cap N = {}
  BY <1>1, <1>4, <1>5, <1>6
<1>12. /\ Shelved' \cup InHands' \cup gone' \subseteq Told'
       /\ \A l, k \in Lists : l # k => Held(l)' \cap Held(k)' = {}
       /\ \A d, e \in Calls : d # e => InHand(call'[d]) \cap InHand(call'[e]) = {}
       /\ Shelved' \cap InHands' = {} /\ (Shelved' \cup InHands') \cap gone' = {}
  BY <1>8, <1>9, <1>10, <1>11 DEF K, J, N, V
<1> QED BY <1>12 DEF PlaceInv, InHand

(* What was found is found after a step that accounts for its own batches. *)
LEMMA FoundStep ==
    ASSUME NEW c \in Calls, NEW s \in Lists, Frame(c, s), NEW X,
           Held(s) \cup InHand(call[c]) \cup gone \cup (Told' \ Told)
               \subseteq Held(s)' \cup InHand(call'[c]) \cup gone' \cup X
    PROVE  Found \cup (Told' \ Told) \subseteq Found' \cup X
<1>1. /\ \A d \in Calls \ {c} : InHand(call'[d]) = InHand(call[d])
      /\ \A l \in Lists \ {s} : Held(l)' = Held(l)
      /\ InHands' = UNION {InHand(call'[d]) : d \in Calls}
  BY FrameSets
<1>2. \A l \in Lists : Held(l) \subseteq Found' \cup X
  <2>1. \A l \in Lists : Held(l)' \subseteq Found'
    BY DEF Found, Shelved
  <2>2. InHand(call'[c]) \subseteq Found' /\ gone' \subseteq Found'
    BY <1>1 DEF Found
  <2>3. Held(s) \subseteq Found' \cup X
    BY <2>1, <2>2
  <2> QED BY <1>1, <2>1, <2>3
<1>3. \A d \in Calls : InHand(call[d]) \subseteq Found' \cup X
  <2>1. \A d \in Calls : InHand(call'[d]) \subseteq Found'
    BY <1>1 DEF Found
  <2>2. Held(s)' \subseteq Found' /\ gone' \subseteq Found'
    BY DEF Found, Shelved
  <2>3. InHand(call[c]) \subseteq Found' \cup X
    BY <2>1, <2>2
  <2> QED BY <1>1, <2>1, <2>3
<1>4. gone \cup (Told' \ Told) \subseteq Found' \cup X
  <2>1. Held(s)' \subseteq Found' /\ gone' \subseteq Found' /\ InHand(call'[c]) \subseteq Found'
    BY <1>1 DEF Found, Shelved
  <2> QED BY <2>1
<1> QED BY <1>2, <1>3, <1>4 DEF Found, Shelved, InHands

(* Counting what is missing.                                               *)
LEMMA NoMore ==
    ASSUME NEW S, IsFiniteSet(S), NEW T \in SUBSET S, NEW f \in Nat, NEW g \in Nat,
           Cardinality(S) <= f, f <= g
    PROVE  Cardinality(T) <= g
<1>1. Cardinality(S) \in Nat /\ Cardinality(T) \in Nat /\ Cardinality(T) <= Cardinality(S)
  BY FS_Subset, FS_CardinalityType
<1> QED BY <1>1

LEMMA OneMore ==
    ASSUME NEW S, IsFiniteSet(S), NEW x, NEW T \in SUBSET (S \cup {x}), NEW f \in Nat,
           Cardinality(S) <= f
    PROVE  Cardinality(T) <= f + 1
<1>1. /\ IsFiniteSet(S \cup {x}) /\ Cardinality(S) \in Nat /\ Cardinality(S \cup {x}) \in Nat
      /\ Cardinality(S \cup {x}) <= Cardinality(S) + 1
  BY FS_AddElement, FS_CardinalityType
<1>2. Cardinality(T) \in Nat /\ Cardinality(T) <= Cardinality(S \cup {x})
  BY <1>1, FS_Subset, FS_CardinalityType
<1> QED BY <1>1, <1>2

LEMMA ToldFinite ==
    ASSUME DataInv
    PROVE  IsFiniteSet(Told) /\ \A S \in SUBSET Told : IsFiniteSet(S)
<1>1. batches \in Nat
  BY KitchenAssumption DEF DataInv
<1>2. IsFiniteSet(1..batches)
  <2>1. 1 \in Int /\ batches \in Int
    BY <1>1
  <2> QED BY <2>1, FS_Interval
<1> QED BY <1>2, FS_Subset DEF Told

(* A step that fails loses one batch at most, any other none.              *)
LEMMA LossStep ==
    ASSUME DataInv, LossInv, NEW X,
           Found \cup (Told' \ Told) \subseteq Found' \cup X,
           \/ X = {} /\ faults' = faults
           \/ (\E x : X = {x}) /\ faults' = faults + 1
    PROVE  LossInv'
<1> DEFINE S == Told \ Found T == Told' \ Found'
<1>1. IsFiniteSet(S) /\ faults \in Nat /\ Cardinality(S) <= faults
  BY ToldFinite DEF DataInv, LossInv, Found
<1>2. T \subseteq S \cup X
  OBVIOUS
<1>3. Cardinality(T) <= faults'
  <2> HIDE DEF S, T
  <2>1. CASE X = {} /\ faults' = faults
    BY <1>1, <1>2, <2>1, NoMore
  <2>2. CASE (\E x : X = {x}) /\ faults' = faults + 1
    BY <1>1, <1>2, <2>2, OneMore
  <2> QED BY <2>1, <2>2
<1> QED BY <1>3 DEF LossInv, Found

(* What a step of one call does to the data.                               *)
LEMMA DataStep ==
    ASSUME DataInv, NEW c \in Calls, NEW s \in Lists, Frame(c, s),
           Tidy(kitchen'[s]), batches' \in 0..MaxBatches, Told \subseteq Told',
           faults' \in Nat, waste' \in Seq(Told'), Knows(call'[c])
    PROVE  DataInv'
<1>1. \A l \in Lists : Tidy(kitchen'[l])
  BY DEF Frame, DataInv
<1>2. \A d \in Calls : Knows(call'[d])
  BY DEF Frame, DataInv
<1>3. \A l \in Lists : Tidy(kitchen[l])'
  BY <1>1 DEF Tidy, Active
<1>4. \A d \in Calls : Knows(call[d])'
  BY <1>2 DEF Knows, Stage, Hits, Active
<1> QED BY <1>3, <1>4 DEF DataInv, Frame

(* The log after a step of one call: what is thrown away is logged or due, *)
(* but for what a failure leaves out.                                      *)
LEMMA LoggedStep ==
    ASSUME DataInv, PlaceInv, LoggedInv, NEW c \in Calls, NEW s \in Lists, Frame(c, s), NEW X,
           \/ X = {} /\ faults' = faults
           \/ (\E x : X = {x}) /\ faults' = faults + 1,
           gone \subseteq gone', tossed \subseteq tossed', tossed' \subseteq tossed \cup gone',
           ToSet(waste) \subseteq ToSet(waste'),
           DueLog(call'[c]) \subseteq tossed',
           CheckDone(call'[c]) \subseteq ToSet(waste'),
           (tossed' \ tossed) \cup DueLog(call[c])
               \subseteq ToSet(waste') \cup DueLog(call'[c]) \cup X
    PROVE  LoggedInv'
<1> DEFINE S == tossed \ (ToSet(waste) \cup DueLogs)
           T == tossed' \ (ToSet(waste') \cup DueLogs')
<1>1. /\ \A d \in Calls \ {c} : DueLog(call'[d]) = DueLog(call[d])
                                /\ CheckDone(call'[d]) = CheckDone(call[d])
      /\ DueLogs' = UNION {DueLog(call'[d]) : d \in Calls}
      /\ ChecksDone' = UNION {CheckDone(call'[d]) : d \in Calls}
  BY FrameSets
<1>2. tossed \subseteq gone /\ DueLogs \subseteq tossed /\ ChecksDone \subseteq ToSet(waste)
  BY DEF LoggedInv
<1>3. tossed' \subseteq gone'
  BY <1>2
<1>4. DueLogs' \subseteq tossed'
  <2> SUFFICES ASSUME NEW d \in Calls PROVE DueLog(call'[d]) \subseteq tossed'
    BY <1>1
  <2>1. CASE d = c
    BY <2>1
  <2>2. CASE d # c
    BY <1>1, <1>2, <2>2 DEF DueLogs
  <2> QED BY <2>1, <2>2
<1>5. ChecksDone' \subseteq ToSet(waste')
  <2> SUFFICES ASSUME NEW d \in Calls PROVE CheckDone(call'[d]) \subseteq ToSet(waste')
    BY <1>1
  <2>1. CASE d = c
    BY <2>1
  <2>2. CASE d # c
    BY <1>1, <1>2, <2>2 DEF ChecksDone
  <2> QED BY <2>1, <2>2
<1>6. T \subseteq S \cup X
  <2>1. DueLog(call'[c]) \subseteq DueLogs'
    BY <1>1
  <2>2. DueLogs \subseteq DueLogs' \cup DueLog(call[c])
    BY <1>1 DEF DueLogs
  <2> HIDE DEF DueLogs
  <2> QED BY <2>1, <2>2
<1>7. IsFiniteSet(S) /\ faults \in Nat /\ Cardinality(S) <= faults
  <2>1. S \in SUBSET Told
    BY <1>2 DEF PlaceInv
  <2> HIDE DEF S
  <2>2. IsFiniteSet(S)
    BY <2>1, ToldFinite
  <2> QED BY <2>2 DEF S, DataInv, LoggedInv
<1>8. Cardinality(T) <= faults'
  <2> HIDE DEF S, T
  <2>1. CASE X = {} /\ faults' = faults
    BY <1>6, <1>7, <2>1, NoMore
  <2>2. CASE (\E x : X = {x}) /\ faults' = faults + 1
    BY <1>6, <1>7, <2>2, OneMore
  <2> QED BY <2>1, <2>2
<1> QED BY <1>3, <1>4, <1>5, <1>8 DEF LoggedInv

(* An exact log stays exact when nothing is logged: a batch that comes to  *)
(* be due is not logged yet, one a check is done with is thrown away.      *)
LEMMA ExactKept ==
    ASSUME ExactInv, LoggedInv, faults \in Nat, NEW c \in Calls, NEW s \in Lists, Frame(c, s),
           faults' \in {faults, faults + 1}, waste' = waste, tossed \subseteq tossed',
           faults' = 0 => CheckDone(call[c]) \subseteq CheckDone(call'[c]) \cup tossed',
           faults' = 0 => (DueLog(call'[c]) \ DueLog(call[c])) \cap (tossed \cup ToSet(waste)) = {}
    PROVE  ExactInv'
<1> SUFFICES ASSUME faults' = 0 PROVE ExactInv'
  BY DEF ExactInv
<1> DEFINE D(d) == DueLog(call[d]) E(d) == DueLog(call'[d])
           K(d) == CheckDone(call[d]) L(d) == CheckDone(call'[d])
<1>1. /\ \A d \in Calls \ {c} : E(d) = D(d) /\ L(d) = K(d)
      /\ DueLogs' = UNION {E(d) : d \in Calls} /\ DueLogs = UNION {D(d) : d \in Calls}
      /\ ChecksDone' = UNION {L(d) : d \in Calls} /\ ChecksDone = UNION {K(d) : d \in Calls}
  BY FrameSets DEF DueLogs, ChecksDone
<1>0. faults = 0
  <2>1. faults \in Nat /\ (faults' = faults \/ faults' = faults + 1) /\ faults' = 0
    OBVIOUS
  <2> QED BY <2>1
<1>2. /\ DueLogs \subseteq tossed
      /\ ToSet(waste) \subseteq tossed \cup ChecksDone
      /\ DueLogs \cap ToSet(waste) = {}
      /\ \A d, e \in Calls : d # e => D(d) \cap D(e) = {}
  BY <1>0 DEF ExactInv, LoggedInv
<1>3. /\ K(c) \subseteq L(c) \cup tossed' /\ tossed \subseteq tossed'
      /\ (E(c) \ D(c)) \cap (tossed \cup ToSet(waste)) = {}
  OBVIOUS
<1> HIDE DEF D, E, K, L
<1>4. ToSet(waste) \subseteq tossed' \cup ChecksDone'
  BY <1>1, <1>2, <1>3
<1>5. \A d \in Calls : E(d) \cap ToSet(waste) = {}
  BY <1>1, <1>2, <1>3
<1>6. \A d \in Calls \ {c} : E(d) \cap E(c) = {}
  BY <1>1, <1>2, <1>3
<1>7. \A d, e \in Calls : d # e => E(d) \cap E(e) = {}
  BY <1>1, <1>2, <1>6
<1>8. DueLogs' \cap ToSet(waste) = {}
  BY <1>1, <1>5
<1>9. \A i, j \in DOMAIN waste : waste[i] = waste[j] => i = j
  BY <1>0 DEF ExactInv
<1>10. \A d, e \in Calls : d # e => DueLog(call'[d]) \cap DueLog(call'[e]) = {}
  BY <1>7 DEF E
<1>11. \A d, e \in Calls : d # e => (DueLog(call[d]) \cap DueLog(call[e]) = {})'
  BY <1>10 DEF DueLog, Stage
<1> QED BY <1>4, <1>8, <1>9, <1>11 DEF ExactInv

(* What Append does to a log.                                              *)
LEMMA AppendLog ==
    ASSUME NEW S, NEW w \in Seq(S), NEW b \in S
    PROVE  /\ w \o <<b>> \in Seq(S) /\ ToSet(w \o <<b>>) = ToSet(w) \cup {b}
           /\ (\A i, j \in DOMAIN w : w[i] = w[j] => i = j) /\ b \notin ToSet(w) =>
                  \A i, j \in DOMAIN (w \o <<b>>) : (w \o <<b>>)[i] = (w \o <<b>>)[j] => i = j
<1> DEFINE new == w \o <<b>> last == Len(w) + 1
<1>1. /\ Len(w) \in Nat /\ DOMAIN w = 1..Len(w)
      /\ new \in Seq(S) /\ DOMAIN new = 1..last /\ new[last] = b
      /\ \A i \in 1..Len(w) : new[i] = w[i]
  OBVIOUS
<1>2. \A i \in 1..last : i = last \/ i \in 1..Len(w)
  BY <1>1
<1>3. last \in 1..last /\ 1..Len(w) \subseteq 1..last
  BY <1>1
<1> HIDE DEF new, last
<1>4. ToSet(new) = ToSet(w) \cup {b}
  BY <1>1, <1>2, <1>3 DEF ToSet
<1>5. ASSUME \A i, j \in DOMAIN w : w[i] = w[j] => i = j, b \notin ToSet(w)
      PROVE  \A i, j \in DOMAIN new : new[i] = new[j] => i = j
  <2>1. \A i \in 1..Len(w) : w[i] # b
    BY <1>1, <1>5 DEF ToSet
  <2> QED BY <1>1, <1>2, <1>5, <2>1
<1> QED BY <1>1, <1>4, <1>5 DEF new

(* An exact log stays exact when a batch is logged that is not in it, by   *)
(* the call it is due from or by a check that is to throw it away.         *)
LEMMA ExactMore ==
    ASSUME ExactInv, LoggedInv, DataInv, NEW c \in Calls, NEW s \in Lists, Frame(c, s),
           faults' = faults, tossed' = tossed, NEW b \in Told, waste' = waste \o <<b>>,
           faults = 0 => b \notin ToSet(waste),
           faults = 0 => CheckDone(call[c]) \subseteq CheckDone(call'[c]),
           DueLog(call'[c]) = {},
           \/ b \in DueLog(call[c])
           \/ b \in CheckDone(call'[c]) /\ (faults = 0 => b \notin tossed)
    PROVE  ExactInv'
<1> SUFFICES ASSUME faults = 0 PROVE ExactInv'
  BY DEF ExactInv
<1> DEFINE D(d) == DueLog(call[d]) E(d) == DueLog(call'[d])
           K(d) == CheckDone(call[d]) L(d) == CheckDone(call'[d])
<1>1. /\ \A d \in Calls \ {c} : E(d) = D(d) /\ L(d) = K(d)
      /\ DueLogs' = UNION {E(d) : d \in Calls} /\ DueLogs = UNION {D(d) : d \in Calls}
      /\ ChecksDone' = UNION {L(d) : d \in Calls} /\ ChecksDone = UNION {K(d) : d \in Calls}
  BY FrameSets DEF DueLogs, ChecksDone
<1>2. /\ DueLogs \subseteq tossed
      /\ \A i, j \in DOMAIN waste : waste[i] = waste[j] => i = j
      /\ ToSet(waste) \subseteq tossed \cup ChecksDone
      /\ DueLogs \cap ToSet(waste) = {}
      /\ \A d, e \in Calls : d # e => D(d) \cap D(e) = {}
  BY DEF ExactInv, LoggedInv
<1>3. /\ b \notin ToSet(waste) /\ K(c) \subseteq L(c) /\ E(c) = {}
      /\ b \in D(c) \/ (b \in L(c) /\ b \notin tossed)
  OBVIOUS
<1>4. /\ ToSet(waste') = ToSet(waste) \cup {b}
      /\ \A i, j \in DOMAIN waste' : waste'[i] = waste'[j] => i = j
  <2>1. waste \in Seq(Told)
    BY DEF DataInv
  <2>2. /\ ToSet(waste \o <<b>>) = ToSet(waste) \cup {b}
        /\ \A i, j \in DOMAIN (waste \o <<b>>) : (waste \o <<b>>)[i] = (waste \o <<b>>)[j] => i = j
    <3>1. (\A i, j \in DOMAIN waste : waste[i] = waste[j] => i = j) /\ b \notin ToSet(waste)
      BY <1>2, <1>3
    <3> HIDE <1>2, <1>3
    <3> QED BY <2>1, <3>1, AppendLog, Zenon
  <2> QED BY <2>2, Zenon
<1> HIDE DEF D, E, K, L
<1>5. ChecksDone \subseteq ChecksDone' /\ L(c) \subseteq ChecksDone'
  BY <1>1, <1>3
<1>6. ToSet(waste') \subseteq tossed \cup ChecksDone'
  BY <1>1, <1>2, <1>3, <1>4, <1>5
<1>7. \A d \in Calls : b \notin E(d)
  BY <1>1, <1>2, <1>3
<1>8. DueLogs' \cap ToSet(waste') = {}
  BY <1>1, <1>2, <1>3, <1>4, <1>7
<1>9. \A d, e \in Calls : d # e => E(d) \cap E(e) = {}
  BY <1>1, <1>2, <1>3
<1>10. \A d, e \in Calls : d # e => DueLog(call'[d]) \cap DueLog(call'[e]) = {}
  BY <1>9 DEF E
<1>11. \A d, e \in Calls : d # e => (DueLog(call[d]) \cap DueLog(call[e]) = {})'
  BY <1>10 DEF DueLog, Stage
<1> QED BY <1>4, <1>6, <1>8, <1>11 DEF ExactInv

(* A call and one list change, and nothing else of these.                  *)
LEMMA FrameOf ==
    ASSUME TypeOK, NEW c \in Calls, NEW r, Set(c, r), NEW s \in Lists, NEW list,
           kitchen' = [kitchen EXCEPT ![s] = list]
    PROVE  Frame(c, s) /\ call'[c] = r /\ kitchen'[s] = list
  BY DEF TypeOK, Set, Frame

LEMMA FrameSame ==
    ASSUME TypeOK, NEW c \in Calls, NEW r, Set(c, r), NEW s \in Lists, kitchen' = kitchen
    PROVE  Frame(c, s) /\ call'[c] = r /\ kitchen'[s] = kitchen[s]
  BY DEF TypeOK, Set, Frame

(* A call that is over has nothing in its hands.                           *)
LEMMA IdleHands ==
    InHand(Idle) = {} /\ DueLog(Idle) = {} /\ CheckDone(Idle) = {} /\ Knows(Idle)
<1>1. /\ Idle.op = "check" /\ Idle.pc = "idle"
      /\ Idle.op \notin Adds \cup Moves \cup Tosses \cup Buttons
  BY DEF Idle, Adds, Moves, Tosses, Buttons
<1> QED BY <1>1 DEF InHand, DueLog, CheckDone, Knows, Stage

(* Numbers a step may leave.                                               *)
LEMMA Counts ==
    ASSUME DataInv, faults' \in {faults, faults + 1}
    PROVE  faults \in Nat /\ faults' \in Nat /\ (faults' = faults + 1 => faults' # 0)
<1>1. faults \in Nat /\ (faults' = faults \/ faults' = faults + 1)
  BY DEF DataInv
<1> QED BY <1>1

(* A step that leaves all of it alone.                                     *)
LEMMA QuietStep ==
    ASSUME TypeOK, StockInv, NEW c \in Calls, NEW r, Set(c, r), Knows(r),
           UNCHANGED <<kitchen, waste, batches, gone, tossed, faults>>,
           InHand(r) = InHand(call[c]), DueLog(r) = DueLog(call[c]),
           CheckDone(r) = CheckDone(call[c])
    PROVE  StockInv'
<1> DEFINE s == "freezer"
<1>1. s \in Lists
  BY DEF Lists
<1> HIDE DEF s
<1>2. Frame(c, s) /\ call'[c] = r /\ kitchen'[s] = kitchen[s]
  BY <1>1, FrameSame
<1>3. Told' = Told /\ Held(s)' = Held(s) /\ waste' = waste /\ gone' = gone /\ tossed' = tossed
      /\ faults' = faults
  BY <1>1, <1>2, FrameSets DEF Told
<1>4. DataInv /\ PlaceInv /\ LossInv /\ LoggedInv /\ ExactInv
  BY DEF StockInv
<1>5. DataInv'
  <2>1. Tidy(kitchen'[s]) /\ batches' \in 0..MaxBatches /\ faults' \in Nat /\ waste' \in Seq(Told')
    BY <1>1, <1>3, <1>4 DEF DataInv
  <2> QED BY <1>1, <1>2, <1>3, <1>4, <2>1, DataStep
<1>6. InHand(call[c]) \cap Held(s) = {} /\ gone \cap InHand(call[c]) = {}
  BY <1>1, <1>4 DEF PlaceInv, Shelved, InHands
<1>7. PlaceInv'
  BY <1>1, <1>2, <1>3, <1>4, <1>6, PlaceStep
<1>8. LossInv'
  <2>1. Found \cup (Told' \ Told) \subseteq Found' \cup {}
    BY <1>1, <1>2, <1>3, FoundStep
  <2> QED BY <1>3, <1>4, <2>1, LossStep
<1>9. DueLog(call[c]) \subseteq tossed /\ CheckDone(call[c]) \subseteq ToSet(waste)
  BY <1>4 DEF LoggedInv, DueLogs, ChecksDone
<1>10. LoggedInv'
  BY <1>1, <1>2, <1>3, <1>4, <1>9, LoggedStep
<1>11. ExactInv'
  BY <1>1, <1>2, <1>3, <1>4, ExactKept, Counts
<1> QED BY <1>5, <1>7, <1>8, <1>10, <1>11 DEF StockInv

(* A call fails: it drops the batch it has in its hands or is to log.      *)
LEMMA FailStep ==
    ASSUME TypeOK, StockInv, NEW c \in Calls, Set(c, Idle),
           UNCHANGED <<kitchen, batches, gone, tossed>>, faults' = faults + 1,
           waste' \in Seq(Told), ToSet(waste) \subseteq ToSet(waste')
    PROVE  StockInv'
<1> DEFINE s == "freezer"
<1>1. s \in Lists
  BY DEF Lists
<1> HIDE DEF s
<1>2. Frame(c, s) /\ call'[c] = Idle /\ kitchen'[s] = kitchen[s]
  BY <1>1, FrameSame
<1>3. Told' = Told /\ Held(s)' = Held(s) /\ gone' = gone /\ tossed' = tossed
  BY <1>1, <1>2, FrameSets DEF Told
<1>4. DataInv /\ PlaceInv /\ LossInv /\ LoggedInv /\ ExactInv
  BY DEF StockInv
<1>5. faults' \in Nat /\ faults' # 0
  BY <1>4, Counts
<1>6. /\ InHand(call'[c]) = {} /\ DueLog(call'[c]) = {} /\ CheckDone(call'[c]) = {}
      /\ Knows(call'[c])
  BY <1>2, IdleHands
<1>7. DataInv'
  <2>1. Tidy(kitchen'[s]) /\ batches' \in 0..MaxBatches /\ waste' \in Seq(Told')
    BY <1>1, <1>2, <1>3, <1>4 DEF DataInv
  <2> QED BY <1>1, <1>2, <1>3, <1>4, <1>5, <1>6, <2>1, DataStep
<1>8. PlaceInv'
  BY <1>1, <1>2, <1>3, <1>4, <1>6, PlaceStep
<1> DEFINE X == {call[c].batch}
<1>9. InHand(call[c]) \subseteq X /\ DueLog(call[c]) \subseteq X
  BY DEF InHand, DueLog
<1>10. \E x : X = {x}
  OBVIOUS
<1> HIDE DEF X
<1>11. LossInv'
  <2>1. Found \cup (Told' \ Told) \subseteq Found' \cup X
    BY <1>1, <1>2, <1>3, <1>9, FoundStep
  <2> QED BY <1>4, <1>10, <2>1, LossStep
<1>12. LoggedInv'
  BY <1>1, <1>2, <1>3, <1>4, <1>6, <1>9, <1>10, LoggedStep
<1>13. ExactInv'
  BY <1>5 DEF ExactInv
<1> QED BY <1>7, <1>8, <1>11, <1>12, <1>13 DEF StockInv

(* A check holds the leftovers while it logs, and what it has logged is    *)
(* there.                                                                  *)
LEMMA CheckHolds ==
    ASSUME IInv, DataInv, NEW d \in Calls, NEW b \in CheckDone(call[d])
    PROVE  lock["fridge"] = d /\ b \in Held("fridge")
<1> DEFINE r == call[d]
<1>1. r.op = "check" /\ r.pc \in {"logRead", "logSave", "save"}
      /\ \E i \in r.expired \ r.left : b = r.list[i].batch
  BY DEF CheckDone
<1>2. r.list = kitchen["fridge"] /\ r.expired \subseteq Active(r.list)
  <2>1. InForce(r, kitchen, waste) /\ Knows(r)
    BY DEF IInv, CopiesInForce, DataInv
  <2>2. Source("check") = "fridge"
    BY DEF Source
  <2> QED BY <1>1, <2>1, <2>2 DEF InForce, Knows
<1>3. b \in Held("fridge")
  <2>1. PICK i \in r.expired : b = r.list[i].batch
    BY <1>1
  <2>2. i \in Active(kitchen["fridge"]) /\ b = kitchen["fridge"][i].batch
    BY <1>2, <2>1
  <2>3. i \in DOMAIN kitchen["fridge"]
    BY <2>2 DEF Active
  <2> QED BY <2>2, <2>3 DEF Held, ActiveBatches
<1>4. lock["fridge"] = d
  <2>1. r.want = {} /\ r.pc # "lock" /\ r.pc # "idle"
    BY <1>1 DEF IInv, LockInv, Stages, At
  <2>2. Section(r) = {"fridge", "waste"}
    BY <1>1, <2>1 DEF Section, Stage, Keys, Moves
  <2>3. "fridge" \in Files
    BY DEF Files, Lists
  <2> QED BY <2>1, <2>2, <2>3 DEF IInv, LockInv, Sections
<1> QED BY <1>3, <1>4

(* A batch in a list this call has is not in the log, unless it put it     *)
(* there.                                                                  *)
LEMMA FreshToLog ==
    ASSUME IInv, StockInv, faults = 0, NEW c \in Calls, NEW s \in Lists,
           s = "fridge" => lock["fridge"] = c, NEW b \in Held(s), b \notin CheckDone(call[c])
    PROVE  b \notin ToSet(waste) /\ b \notin tossed
<1>1. b \notin gone /\ \A k \in Lists \ {s} : b \notin Held(k)
  BY DEF StockInv, PlaceInv, Shelved
<1>2. b \notin tossed
  BY <1>1 DEF StockInv, LoggedInv
<1>3. "fridge" \in Lists /\ DataInv
  BY DEF Lists, StockInv
<1>4. b \notin ChecksDone
  <2> SUFFICES ASSUME NEW d \in Calls, b \in CheckDone(call[d]) PROVE FALSE
    BY DEF ChecksDone
  <2>1. lock["fridge"] = d /\ b \in Held("fridge")
    BY <1>3, CheckHolds
  <2>2. s = "fridge"
    BY <1>1, <1>3, <2>1
  <2> QED BY <2>1, <2>2
<1> QED BY <1>2, <1>4 DEF StockInv, ExactInv

(* What an operation is about to write, and what it takes out of its list. *)
LEMMA SaveFacts ==
    ASSUME IInv, StockInv, NEW c \in Calls, NEW r, r = call[c], At(c, "save")
    PROVE  /\ Source(r.op) \in Lists /\ r.list = kitchen[Source(r.op)]
           /\ Tidy(Changed(r)) /\ All(Changed(r)) = (Held(Source(r.op)) \ Out(r)) \cup InHand(r)
           /\ Out(r) \subseteq Held(Source(r.op)) /\ Out(r) \cap InHand(r) = {}
           /\ DueLog(r) = {}
           /\ UsedUp(r) = (IF r.op \in Moves THEN {} ELSE Out(r))
           /\ ThrownAway(r) = (IF r.op \in Tosses \cup {"check"} THEN Out(r) ELSE {})
           /\ CheckDone(r) = (IF r.op = "check" THEN Out(r) ELSE {})
           /\ r.op \in Moves \cup Tosses =>
                  Out(r) = {r.list[r.idx].batch} /\ r.op \notin Adds
           /\ r.op \in Tosses => r.op # "check" /\ r.op \notin Moves
           /\ Knows(r) /\ Source(r.op) \in Section(r) \ r.want
<1>1. /\ r.pc = "save" /\ r.op \in Ops /\ r.want = {} /\ Stage(r) = "save"
      /\ Knows(r) /\ InForce(r, kitchen, waste)
  BY DEF At, IInv, LockInv, TypeOK, Stages, CopiesInForce, StockInv, DataInv, Stage
<1>2. /\ Source(r.op) \in Lists /\ r.list = kitchen[Source(r.op)] /\ Source(r.op) \in Keys(r.op)
  BY <1>1, KeysOfOp DEF InForce
<1>3. Tidy(r.list) /\ All(r.list) = Held(Source(r.op))
  BY <1>2 DEF StockInv, DataInv, Held, All
<1>4. InHand(r) = Into(r) /\ DueLog(r) = {}
  BY <1>1 DEF InHand, Into, DueLog
<1>5. InHand(r) \cap Held(Source(r.op)) = {} /\ InHand(r) \subseteq Batches
  <2>1. Told \subseteq Batches
    BY KitchenAssumption DEF StockInv, DataInv, Told, Batches
  <2> QED BY <1>2, <2>1 DEF StockInv, PlaceInv, Shelved, InHands
<1>6. r.op \in Adds => r.batch \in Batches \ All(r.list)
  BY <1>3, <1>5 DEF InHand
<1>7. /\ Tidy(Changed(r)) /\ All(Changed(r)) = (All(r.list) \ Out(r)) \cup Into(r)
      /\ Out(r) \subseteq All(r.list)
  BY <1>1, <1>3, <1>6, ChangedTidy
<1>8. UsedUp(r) = IF r.op \in Moves THEN {} ELSE Out(r)
  BY DEF UsedUp, Out
<1>9. ThrownAway(r) = IF r.op \in Tosses \cup {"check"} THEN Out(r) ELSE {}
  <2>1. r.op \in Tosses \cup {"check"} => r.op \notin Moves
    BY DEF Tosses, Moves
  <2> QED BY <1>8, <2>1 DEF ThrownAway
<1>10. CheckDone(r) = IF r.op = "check" THEN Out(r) ELSE {}
  <2>1. CASE r.op = "check"
    <3>1. r.left = {} /\ r.expired \subseteq Active(r.list)
      BY <1>1, <2>1 DEF Knows
    <3>2. r.expired \ r.left = r.expired \cap Active(r.list)
      BY <3>1
    <3> QED BY <1>1, <2>1, <3>2 DEF CheckDone, Out, ActiveBatches
  <2>2. CASE r.op # "check"
    BY <2>2 DEF CheckDone
  <2> QED BY <2>1, <2>2
<1>11. r.op \in Moves \cup Tosses => Out(r) = {r.list[r.idx].batch} /\ r.op \notin Adds
  <2>1. r.op \in Moves \cup Tosses => r.op \in Buttons /\ r.op \notin Adds
    BY DEF Moves, Tosses, Buttons, Adds
  <2>2. r.op \in Buttons => Hits(r.list, r)
    BY <1>1 DEF Knows
  <2> QED BY <2>1, <2>2, OneOut
<1>12. r.op \in Tosses => r.op # "check" /\ r.op \notin Moves
  BY DEF Tosses, Moves
<1>13. Source(r.op) \in Section(r) \ r.want
  BY <1>1, <1>2 DEF Section
<1> QED BY <1>1, <1>2, <1>3, <1>4, <1>5, <1>7, <1>8, <1>9, <1>10, <1>11, <1>12, <1>13

(* A write of a list: the call goes on with what it took out, or it fails. *)
LEMMA WriteStep ==
    ASSUME IInv, StockInv, NEW c \in Calls, NEW r, r = call[c], At(c, "save"),
           NEW n, Set(c, n), Knows(n),
           kitchen' = [kitchen EXCEPT ![Source(r.op)] = Changed(r)],
           gone' = gone \cup UsedUp(r), tossed' = tossed \cup ThrownAway(r),
           UNCHANGED <<waste, batches>>,
           NEW X, \/ X = {} /\ faults' = faults
                  \/ (\E x : X = {x}) /\ faults' = faults + 1,
           InHand(n) \subseteq (IF r.op \in Moves THEN Out(r) ELSE {}),
           DueLog(n) \subseteq (IF r.op \in Tosses THEN Out(r) ELSE {}),
           CheckDone(n) = {},
           r.op \in Moves => Out(r) \subseteq InHand(n) \cup X,
           r.op \in Tosses => Out(r) \subseteq DueLog(n) \cup X
    PROVE  StockInv'
<1> DEFINE s == Source(r.op)
<1>1. /\ s \in Lists /\ Tidy(Changed(r)) /\ All(Changed(r)) = (Held(s) \ Out(r)) \cup InHand(r)
      /\ Out(r) \subseteq Held(s) /\ Out(r) \cap InHand(r) = {} /\ DueLog(r) = {}
      /\ UsedUp(r) = (IF r.op \in Moves THEN {} ELSE Out(r))
      /\ ThrownAway(r) = (IF r.op \in Tosses \cup {"check"} THEN Out(r) ELSE {})
      /\ CheckDone(r) = (IF r.op = "check" THEN Out(r) ELSE {})
      /\ r.op \in Tosses => r.op # "check" /\ r.op \notin Moves
      /\ s \in Section(r) \ r.want
  BY SaveFacts
<1>2. kitchen' = [kitchen EXCEPT ![s] = Changed(r)]
  OBVIOUS
<1> HIDE DEF s
<1>3. Frame(c, s) /\ call'[c] = n /\ kitchen'[s] = Changed(r)
  BY <1>1, <1>2, FrameOf DEF IInv, LockInv
<1>4. Told' = Told /\ Held(s)' = (Held(s) \ Out(r)) \cup InHand(r) /\ waste' = waste
  BY <1>1, <1>3, FrameSets DEF Told
<1>5. DataInv /\ PlaceInv /\ LossInv /\ LoggedInv /\ ExactInv
  BY DEF StockInv
<1>6. faults' \in {faults, faults + 1}
  OBVIOUS
<1>7. DataInv'
  <2>1. Tidy(kitchen'[s]) /\ batches' \in 0..MaxBatches /\ waste' \in Seq(Told')
    BY <1>1, <1>3, <1>4, <1>5 DEF DataInv
  <2> QED BY <1>1, <1>3, <1>4, <1>5, <1>6, <2>1, DataStep, Counts
<1>8. Held(s) \cap InHand(r) = {} /\ Held(s) \cap gone = {} /\ InHand(r) \cap gone = {}
  BY <1>1, <1>5 DEF PlaceInv, Shelved, InHands
<1>9. Out(r) \subseteq Held(s) \ Held(s)'
  BY <1>1, <1>4
<1>10. PlaceInv'
  <2>1. InHand(call'[c]) \subseteq InHand(call[c]) \cup (Held(s) \ Held(s)') \cup (Told' \ Told)
    BY <1>3, <1>9
  <2>2. InHand(call'[c]) \cap Held(s)' = {}
    BY <1>3, <1>9
  <2>3. gone' \subseteq gone \cup (Held(s) \ Held(s)')
    BY <1>1, <1>9
  <2>4. gone' \cap InHand(call'[c]) = {}
    BY <1>1, <1>3, <1>8
  <2> QED BY <1>1, <1>3, <1>4, <1>5, <2>1, <2>2, <2>3, <2>4, PlaceStep
<1>11. LossInv'
  <2>1. Held(s) \cup InHand(call[c]) \cup gone \cup (Told' \ Told)
            \subseteq Held(s)' \cup InHand(call'[c]) \cup gone' \cup X
    BY <1>1, <1>3, <1>4
  <2>2. Found \cup (Told' \ Told) \subseteq Found' \cup X
    BY <1>1, <1>3, <2>1, FoundStep
  <2> QED BY <1>5, <2>2, LossStep
<1>12. CheckDone(r) \subseteq ToSet(waste)
  BY <1>5 DEF LoggedInv, ChecksDone
<1>13. LoggedInv'
  <2>1. /\ gone \subseteq gone' /\ tossed \subseteq tossed' /\ tossed' \subseteq tossed \cup gone'
        /\ DueLog(call'[c]) \subseteq tossed'
    BY <1>1, <1>3 DEF Tosses, Moves
  <2>2. (tossed' \ tossed) \cup DueLog(call[c]) \subseteq ToSet(waste') \cup DueLog(call'[c]) \cup X
    BY <1>1, <1>3, <1>4, <1>12
  <2> QED BY <1>1, <1>3, <1>4, <1>5, <2>1, <2>2, LoggedStep
<1>14. ExactInv'
  <2>1. CheckDone(call[c]) \subseteq CheckDone(call'[c]) \cup tossed' /\ tossed \subseteq tossed'
    BY <1>1
  <2>2. ASSUME faults' = 0
        PROVE  (DueLog(call'[c]) \ DueLog(call[c])) \cap (tossed \cup ToSet(waste)) = {}
    <3>1. faults = 0
      BY <1>5, <1>6, <2>2, Counts
    <3>2. s = "fridge" => lock["fridge"] = c
      <4>1. s \in Files
        BY <1>1 DEF Files
      <4> QED BY <1>1, <4>1 DEF IInv, LockInv, Sections
    <3> SUFFICES ASSUME NEW b \in DueLog(call'[c]) PROVE b \notin tossed /\ b \notin ToSet(waste)
      OBVIOUS
    <3>3. b \in Held(s) /\ b \notin CheckDone(call[c])
      BY <1>1, <1>3
    <3> QED BY <1>1, <3>1, <3>2, <3>3, FreshToLog
  <2>3. faults \in Nat
    BY <1>5 DEF DataInv
  <2> QED BY <1>1, <1>3, <1>4, <1>5, <1>6, <2>1, <2>2, <2>3, ExactKept
<1> QED BY <1>7, <1>10, <1>11, <1>13, <1>14 DEF StockInv

(* A call that goes on to the freezer, or to the log.                      *)
LEMMA SaveStock ==
    ASSUME IInv, StockInv, NEW c \in Calls, NEW o, Save(c, o)
    PROVE  StockInv'
<1> DEFINE r == call[c]
           moved == [r EXCEPT !.pc = "freezerRead", !.batch = r.list[r.idx].batch]
           due == [r EXCEPT !.batch = r.list[r.idx].batch]
           taken == Locking(due, LogKeys, "logRead")
<1>1. At(c, "save") /\ r.op \in Ops /\ r.pc = "save"
  BY DEF Save, At, IInv, LockInv, TypeOK
<1>2. /\ r.op \in Moves \cup Tosses => Out(r) = {r.list[r.idx].batch} /\ r.op \notin Adds
      /\ r.op \in Tosses => r.op # "check" /\ r.op \notin Moves
      /\ Knows(r)
  BY <1>1, SaveFacts
<1>3. DataInv /\ waste \in Seq(Told) /\ TypeOK
  BY DEF StockInv, DataInv, IInv, LockInv
<1>4. CASE o = "lost"
  <2>1. Set(c, Idle) /\ UNCHANGED <<kitchen, gone, tossed, waste, batches>> /\ faults' = faults + 1
    BY <1>4 DEF Save, Leave, Fault
  <2> QED BY <1>3, <2>1, FailStep
<1>5. CASE o # "lost" /\ o # "ok"
  <2>1. /\ Set(c, Idle) /\ faults' = faults + 1
        /\ kitchen' = [kitchen EXCEPT ![Source(r.op)] = Changed(r)]
        /\ gone' = gone \cup UsedUp(r) /\ tossed' = tossed \cup ThrownAway(r)
        /\ UNCHANGED <<waste, batches>>
    BY <1>5 DEF Save, Leave, Fault
  <2> DEFINE X == {r.list[r.idx].batch}
  <2>2. (\E x : X = {x}) /\ (r.op \in Moves \cup Tosses => Out(r) \subseteq X)
    BY <1>2
  <2> HIDE DEF X, r
  <2>3. r = call[c]
    BY DEF r
  <2> QED BY <1>1, <1>2, <2>1, <2>2, <2>3, IdleHands, WriteStep
<1>6. CASE o = "ok"
  <2>1. /\ AfterSave(c) /\ faults' = faults
        /\ kitchen' = [kitchen EXCEPT ![Source(r.op)] = Changed(r)]
        /\ gone' = gone \cup UsedUp(r) /\ tossed' = tossed \cup ThrownAway(r)
        /\ UNCHANGED <<waste, batches>>
    BY <1>6 DEF Save
  <2>2. CASE r.op \in Moves
    <3>0. r.op \notin Tosses
      BY <2>2 DEF Moves, Tosses
    <3>1. Set(c, moved)
      BY <2>1, <2>2, <3>0 DEF AfterSave
    <3>2. /\ moved.op = r.op /\ moved.pc = "freezerRead" /\ moved.name = r.name
          /\ moved.batch = r.list[r.idx].batch
      BY TheFields, <1>3 DEF TypeOK
    <3>3. r.op # "check" /\ r.op \notin Adds /\ r.op \notin Tosses
      BY <2>2 DEF Moves, Adds, Tosses
    <3> HIDE DEF moved
    <3>4. InHand(moved) = Out(r) /\ DueLog(moved) = {} /\ CheckDone(moved) = {}
      BY <1>2, <2>2, <3>2, <3>3 DEF InHand, DueLog, CheckDone
    <3>5. Knows(moved)
      BY <1>2, <3>2, <3>3 DEF Knows, Stage
    <3> HIDE DEF r
    <3>6. r = call[c]
      BY DEF r
    <3> QED BY <1>1, <2>1, <2>2, <3>1, <3>3, <3>4, <3>5, <3>6, WriteStep
  <2>3. CASE r.op \in Tosses
    <3>1. Set(c, taken)
      BY <2>1, <2>3, <1>2 DEF AfterSave
    <3>2. /\ taken.op = r.op /\ taken.pc = "lock" /\ taken.then = "logRead"
          /\ taken.name = r.name /\ taken.batch = r.list[r.idx].batch
      BY TheFields, <1>3 DEF TypeOK, Locking, LogKeys
    <3>3. r.op # "check" /\ r.op \notin Adds /\ r.op \notin Moves
      BY <2>3 DEF Moves, Adds, Tosses
    <3> HIDE DEF taken
    <3>4. InHand(taken) = {} /\ DueLog(taken) = Out(r) /\ CheckDone(taken) = {}
      BY <1>2, <2>3, <3>2, <3>3 DEF InHand, DueLog, CheckDone, Stage
    <3>5. Knows(taken)
      BY <1>2, <2>3, <3>2, <3>3 DEF Knows, Stage
    <3> HIDE DEF r
    <3>6. r = call[c]
      BY DEF r
    <3> QED BY <1>1, <2>1, <2>3, <3>1, <3>3, <3>4, <3>5, <3>6, WriteStep
  <2>4. CASE r.op \notin Moves \cup Tosses
    <3>1. Set(c, Idle)
      BY <2>1, <2>4 DEF AfterSave, Leave
    <3> HIDE DEF r
    <3>2. r = call[c]
      BY DEF r
    <3> QED BY <1>1, <2>1, <2>4, <3>1, <3>2, IdleHands, WriteStep
  <2> QED BY <2>2, <2>3, <2>4
<1> QED BY <1>4, <1>5, <1>6

(* A call that has begun, or looks for its list, has nothing in its hands, *)
(* but what it is told to add.                                             *)
LEMMA ReadHands ==
    ASSUME NEW r, Stage(r) = "read", r.op # "check" => r.name \in Names
    PROVE  /\ InHand(r) = (IF r.op \in Adds THEN {r.batch} ELSE {})
           /\ DueLog(r) = {} /\ CheckDone(r) = {} /\ Knows(r)
<1>1. r.pc \in {"lock", "read"}
  BY DEF Stage
<1> QED BY <1>1 DEF InHand, DueLog, CheckDone, Knows

LEMMA SpoiledHands ==
    ASSUME NEW r, r.op = "spoiled", r.name \in Names, Stage(r) \in {"read", "logRead", "logSave"}
    PROVE  InHand(r) = {} /\ DueLog(r) = {} /\ CheckDone(r) = {} /\ Knows(r)
<1>1. r.op \notin Adds \cup Moves \cup Tosses \cup Buttons \cup {"check"}
  BY DEF Adds, Moves, Tosses, Buttons
<1>2. r.pc # "save"
  BY DEF Stage
<1> QED BY <1>1, <1>2 DEF InHand, DueLog, CheckDone, Knows

LEMMA NotBusyHands ==
    ASSUME StockInv, NEW c \in Calls, ~Busy(c)
    PROVE  InHand(call[c]) = {} /\ DueLog(call[c]) = {} /\ CheckDone(call[c]) = {}
<1>1. call[c].pc = "idle" /\ Stage(call[c]) = "idle" /\ Knows(call[c])
  BY DEF Busy, At, Stage, StockInv, DataInv
<1>2. call[c].op \notin Adds
  BY <1>1 DEF Knows
<1> QED BY <1>1, <1>2 DEF InHand, DueLog, CheckDone

(* What Locking makes of a record.                                         *)
LEMMA LockingRecord ==
    ASSUME NEW r, r = [d \in Fields |-> r[d]], NEW keys, NEW then, keys # {}
    PROVE  LET n == Locking(r, keys, then) IN
           /\ n.pc = "lock" /\ n.then = then /\ Stage(n) = then /\ n.op = r.op
           /\ n.name = r.name /\ n.batch = r.batch
  BY TheFields DEF Locking, Stage

(* A message or a button that adds nothing.                                *)
LEMMA PressStock ==
    ASSUME IInv, StockInv, NEW c \in Calls, NEW n \in Names, NEW op \in Buttons, NEW i,
           Press(c, op, i, n)
    PROVE  StockInv'
<1> DEFINE r == [Idle EXCEPT !.op = op, !.name = n, !.idx = i]
           asks == Locking(r, Keys(op), "read")
<1>1. op \in Ops /\ op # "check" /\ op \notin Adds /\ Keys(op) # {}
  BY KeysOfOp DEF Ops, Buttons, Adds
<1>2. r = [d \in Fields |-> r[d]] /\ r.op = op /\ r.name = n
  BY DEF Idle, Fields
<1> HIDE DEF r
<1>3. Stage(asks) = "read" /\ asks.op = op /\ asks.name = n
  BY <1>1, <1>2, LockingRecord
<1>4. Set(c, asks) /\ UNCHANGED <<kitchen, waste, batches, gone, tossed, faults>> /\ ~Busy(c)
  BY DEF Press, r
<1> HIDE DEF asks
<1>5. InHand(asks) = {} /\ DueLog(asks) = {} /\ CheckDone(asks) = {} /\ Knows(asks)
  BY <1>1, <1>3, ReadHands
<1> QED BY <1>4, <1>5, NotBusyHands, QuietStep DEF IInv, LockInv

LEMMA TellStock ==
    ASSUME IInv, StockInv, NEW c \in Calls, NEW n \in Names, NEW op, Tell(c, op, n)
    PROVE  StockInv'
<1> DEFINE r == [Idle EXCEPT !.op = op, !.name = n]
<1>1. ~Busy(c) /\ UNCHANGED <<kitchen, waste, batches, gone, tossed, faults>>
  BY DEF Tell
<1>2. r = [d \in Fields |-> r[d]] /\ r.op = op /\ r.name = n
      /\ Idle = [d \in Fields |-> Idle[d]] /\ Idle.op = "check"
  BY DEF Idle, Fields
<1>3. ASSUME NEW m, Set(c, m), InHand(m) = {}, DueLog(m) = {}, CheckDone(m) = {}, Knows(m)
      PROVE  StockInv'
  BY <1>1, <1>3, NotBusyHands, QuietStep DEF IInv, LockInv
<1>4. CASE op = "remove" /\ Set(c, Locking(r, Keys(op), "read"))
  <2> DEFINE m == Locking(r, Keys(op), "read")
  <2>1. Keys(op) # {} /\ op # "check" /\ op \notin Adds
    BY <1>4, KeysOfOp DEF Ops, Adds
  <2> HIDE DEF r
  <2>2. Stage(m) = "read" /\ m.op = op /\ m.name = n
    BY <1>2, <2>1, LockingRecord
  <2>3. Set(c, m)
    BY <1>4
  <2> HIDE DEF m
  <2> QED BY <1>3, <2>1, <2>2, <2>3, ReadHands
<1>5. CASE op = "spoiled" /\ Set(c, Locking(r, LogKeys, "logRead"))
  <2> DEFINE m == Locking(r, LogKeys, "logRead")
  <2> HIDE DEF r
  <2>1. Stage(m) = "logRead" /\ m.op = op /\ m.name = n
    BY <1>2, LockingRecord DEF LogKeys
  <2>2. Set(c, m)
    BY <1>5
  <2> HIDE DEF m
  <2> QED BY <1>3, <1>5, <2>1, <2>2, SpoiledHands
<1>6. CASE op = "check" /\ Set(c, Locking(Idle, Keys(op), "read"))
  <2> DEFINE m == Locking(Idle, Keys(op), "read")
  <2>1. Keys(op) # {} /\ "check" \notin Adds
    BY <1>6, KeysOfOp DEF Ops, Adds
  <2> HIDE DEF r
  <2>2. Stage(m) = "read" /\ m.op = "check"
    BY <1>2, <2>1, LockingRecord
  <2>3. Set(c, m)
    BY <1>6
  <2> HIDE DEF m
  <2> QED BY <1>3, <2>1, <2>2, <2>3, ReadHands
<1> QED BY <1>4, <1>5, <1>6 DEF Tell

(* The locks come one after the other.                                     *)
LEMMA AcquireStock ==
    ASSUME IInv, StockInv, NEW c \in Calls, NEW f, Acquire(c, f)
    PROVE  StockInv'
<1> DEFINE r == call[c] rest == r.want \ {f}
           n == [r EXCEPT !.want = rest, !.pc = IF rest = {} THEN r.then ELSE "lock"]
<1>1. r = [d \in Fields |-> r[d]] /\ r.pc = "lock" /\ Knows(r)
      /\ r.then \in {"read", "logRead"} /\ (r.op = "check" => r.then = "read")
  BY DEF Acquire, At, IInv, LockInv, TypeOK, Stages, StockInv, DataInv
<1>2. Set(c, n) /\ UNCHANGED <<kitchen, waste, batches, gone, tossed, faults>>
  BY DEF Acquire
<1> HIDE DEF rest
<1>3. /\ n.op = r.op /\ n.name = r.name /\ n.batch = r.batch /\ n.then = r.then
      /\ n.pc = r.then \/ n.pc = "lock"
  BY <1>1, TheFields
<1> HIDE DEF n
<1>4. Stage(n) = Stage(r) /\ n.pc \in {"read", "logRead", "lock"}
      /\ (n.op = "check" => n.pc \in {"read", "lock"})
  BY <1>1, <1>3 DEF Stage
<1>5. InHand(n) = InHand(r) /\ DueLog(n) = DueLog(r) /\ CheckDone(n) = CheckDone(r)
  BY <1>1, <1>3, <1>4 DEF InHand, DueLog, CheckDone
<1>6. Knows(n)
  BY <1>1, <1>3, <1>4 DEF Knows
<1> QED BY <1>2, <1>5, <1>6, QuietStep DEF IInv, LockInv

(* Loading a list or the log.                                              *)
LEMMA ReadStock ==
    ASSUME IInv, StockInv, NEW c \in Calls, Read(c)
    PROVE  StockInv'
<1> DEFINE r == call[c] list == kitchen[Source(r.op)]
           n == [r EXCEPT !.pc = "save", !.list = list]
<1>1. r = [d \in Fields |-> r[d]] /\ r.pc = "read" /\ Stage(r) = "read" /\ Knows(r)
      /\ r.op # "check" /\ UNCHANGED <<kitchen, waste, batches, gone, tossed, faults>>
  BY DEF Read, At, IInv, LockInv, TypeOK, StockInv, DataInv, Stage
<1>2. InHand(r) = (IF r.op \in Adds THEN {r.batch} ELSE {})
      /\ DueLog(r) = {} /\ CheckDone(r) = {}
  BY <1>1, ReadHands DEF Knows
<1>3. CASE r.op \notin Adds /\ Set(c, Idle)
  BY <1>1, <1>2, <1>3, IdleHands, QuietStep DEF IInv, LockInv
<1>4. CASE (r.op \in Adds \/ Places(list, r) # {}) /\ Set(c, n)
  <2> HIDE DEF list
  <2>1. /\ n.op = r.op /\ n.name = r.name /\ n.batch = r.batch /\ n.idx = r.idx
        /\ n.pc = "save" /\ n.list = list
    BY <1>1, TheFields
  <2> HIDE DEF n
  <2>2. InHand(n) = InHand(r) /\ DueLog(n) = {} /\ CheckDone(n) = {}
    BY <1>1, <1>2, <2>1 DEF InHand, DueLog, CheckDone, Stage
  <2>3. r.op \in Buttons => Hits(n.list, n)
    <3>1. r.op \in Buttons => r.op \notin Adds
      BY DEF Buttons, Adds
    <3> QED BY <1>4, <2>1, <3>1 DEF Places, Hits
  <2>4. Knows(n)
    BY <1>1, <2>1, <2>3 DEF Knows, Stage
  <2> QED BY <1>1, <1>2, <1>4, <2>2, <2>4, QuietStep DEF IInv, LockInv
<1>5. (r.op \notin Adds /\ Set(c, Idle)) \/ ((r.op \in Adds \/ Places(list, r) # {}) /\ Set(c, n))
  <2> HIDE DEF n
  <2>1. IF r.op \notin Adds /\ Places(list, r) = {} THEN Leave(c) ELSE Set(c, n)
    BY DEF Read, n
  <2> HIDE DEF list, r
  <2> QED BY <2>1, Zenon DEF Leave
<1> QED BY <1>3, <1>4, <1>5

LEMMA CheckReadStock ==
    ASSUME IInv, StockInv, NEW c \in Calls, NEW expired, CheckRead(c, expired)
    PROVE  StockInv'
<1> DEFINE r == call[c] list == kitchen.fridge
           n == AppendUnsafe([r EXCEPT !.list = list, !.expired = expired, !.left = expired])
<1>1. r = [d \in Fields |-> r[d]] /\ r.pc = "read" /\ Stage(r) = "read" /\ Knows(r)
      /\ r.op = "check" /\ UNCHANGED <<kitchen, waste, batches, gone, tossed, faults>>
      /\ expired \subseteq Active(list)
  BY DEF CheckRead, At, IInv, LockInv, TypeOK, StockInv, DataInv, Stage
<1>2. InHand(r) = {} /\ DueLog(r) = {} /\ CheckDone(r) = {}
  BY <1>1, ReadHands DEF Adds
<1>3. CASE expired = {}
  <2>1. Set(c, Idle)
    BY <1>3 DEF CheckRead, Leave
  <2> QED BY <1>1, <1>2, <2>1, IdleHands, QuietStep DEF IInv, LockInv
<1>4. CASE expired # {}
  <2>1. Set(c, n)
    BY <1>4 DEF CheckRead
  <2> HIDE DEF list
  <2>2. /\ n.op = "check" /\ n.pc = "logRead" /\ n.list = list /\ n.expired = expired
        /\ n.left = expired
    BY <1>1, TheFields DEF AppendUnsafe
  <2> HIDE DEF n
  <2>3. InHand(n) = {} /\ DueLog(n) = {} /\ CheckDone(n) = {}
    BY <2>2 DEF InHand, DueLog, CheckDone, Adds, Moves, Tosses
  <2>4. Knows(n)
    BY <1>1, <1>4, <2>2 DEF Knows, Stage, Adds, Buttons
  <2> QED BY <1>1, <1>2, <2>1, <2>3, <2>4, QuietStep DEF IInv, LockInv
<1> QED BY <1>3, <1>4

LEMMA FreezerLogReadStock ==
    ASSUME IInv, StockInv, NEW c \in Calls, FreezerRead(c) \/ LogRead(c)
    PROVE  StockInv'
<1> DEFINE r == call[c]
           thawed == [r EXCEPT !.pc = "freezerSave", !.list = kitchen.freezer]
           noted == [r EXCEPT !.pc = "logSave", !.log = waste]
<1>1. r = [d \in Fields |-> r[d]] /\ Knows(r)
      /\ UNCHANGED <<kitchen, waste, batches, gone, tossed, faults>>
  BY DEF FreezerRead, LogRead, IInv, LockInv, TypeOK, StockInv, DataInv
<1>2. CASE FreezerRead(c)
  <2>1. Set(c, thawed) /\ r.pc = "freezerRead" /\ r.op \in Moves
    BY <1>2 DEF FreezerRead, At, IInv, LockInv, Stages
  <2>2. /\ thawed.op = r.op /\ thawed.pc = "freezerSave" /\ thawed.batch = r.batch
        /\ thawed.name = r.name
    BY <1>1, TheFields
  <2> HIDE DEF thawed
  <2>3. InHand(thawed) = InHand(r) /\ DueLog(thawed) = DueLog(r)
        /\ CheckDone(thawed) = CheckDone(r)
    BY <2>1, <2>2 DEF InHand, DueLog, CheckDone, Stage
  <2>4. Knows(thawed)
    BY <1>1, <2>1, <2>2 DEF Knows, Stage, Moves, Adds
  <2> QED BY <1>1, <2>1, <2>3, <2>4, QuietStep DEF IInv, LockInv
<1>3. CASE LogRead(c)
  <2>1. Set(c, noted) /\ r.pc = "logRead"
    BY <1>3 DEF LogRead, At
  <2>2. /\ noted.op = r.op /\ noted.pc = "logSave" /\ noted.batch = r.batch
        /\ noted.name = r.name /\ noted.list = r.list /\ noted.expired = r.expired
        /\ noted.left = r.left
    BY <1>1, TheFields
  <2> HIDE DEF noted
  <2>3. InHand(noted) = InHand(r) /\ DueLog(noted) = DueLog(r)
        /\ CheckDone(noted) = CheckDone(r)
    BY <2>1, <2>2 DEF InHand, DueLog, CheckDone, Stage
  <2>4. Knows(noted)
    BY <1>1, <2>1, <2>2 DEF Knows, Stage
  <2> QED BY <1>1, <2>1, <2>3, <2>4, QuietStep DEF IInv, LockInv
<1> QED BY <1>2, <1>3

(* A batch comes in.                                                       *)
LEMMA AddStock ==
    ASSUME IInv, StockInv, NEW c \in Calls, NEW op, NEW n \in Names, Add(c, op, n)
    PROVE  StockInv'
<1> DEFINE b == batches + 1
           r == [Idle EXCEPT !.op = op, !.name = n, !.batch = b]
           asks == Locking(r, Keys(op), "read")
           s == "freezer"
<1>1. op \in Adds /\ op \in Ops /\ op # "check" /\ Keys(op) # {} /\ s \in Lists
  BY KeysOfOp DEF Add, Ops, Adds, Lists
<1>2. r = [d \in Fields |-> r[d]] /\ r.op = op /\ r.name = n /\ r.batch = b
  BY DEF Idle, Fields
<1>3. /\ Set(c, asks) /\ ~Busy(c) /\ batches' = b /\ kitchen' = kitchen
      /\ UNCHANGED <<waste, gone, tossed, faults>>
  BY DEF Add
<1>4. DataInv /\ PlaceInv /\ LossInv /\ LoggedInv /\ ExactInv /\ TypeOK
  BY DEF StockInv, IInv, LockInv
<1>5. batches \in Nat /\ b \in 0..MaxBatches /\ Told' = Told \cup {b} /\ b \notin Told
  <2>1. batches \in Nat /\ batches < MaxBatches /\ MaxBatches \in Nat
    BY <1>4, KitchenAssumption DEF DataInv, Add
  <2> QED BY <1>3, <2>1 DEF Told
<1> HIDE DEF r, b, s
<1>6. Stage(asks) = "read" /\ asks.op = op /\ asks.name = n /\ asks.batch = b
  BY <1>1, <1>2, LockingRecord
<1> HIDE DEF asks
<1>7. InHand(asks) = {b} /\ DueLog(asks) = {} /\ CheckDone(asks) = {} /\ Knows(asks)
  BY <1>1, <1>6, ReadHands
<1>8. Frame(c, s) /\ call'[c] = asks /\ kitchen'[s] = kitchen[s]
  BY <1>1, <1>3, <1>4, FrameSame
<1>9. Held(s)' = Held(s) /\ Held(s) \subseteq Told /\ gone \subseteq Told
  BY <1>1, <1>4, <1>8, FrameSets DEF PlaceInv, Shelved
<1>10. InHand(call[c]) = {} /\ DueLog(call[c]) = {} /\ CheckDone(call[c]) = {}
  BY <1>3, NotBusyHands
<1>11. DataInv'
  <2>1. Tidy(kitchen'[s]) /\ batches' \in 0..MaxBatches /\ faults' \in Nat
    BY <1>1, <1>3, <1>4, <1>5, <1>8 DEF DataInv
  <2>2. waste' \in Seq(Told')
    <3>1. waste \in Seq(Told) /\ Told \subseteq Told'
      BY <1>4, <1>5 DEF DataInv
    <3> QED BY <1>3, <3>1
  <2> QED BY <1>1, <1>4, <1>5, <1>7, <1>8, <2>1, <2>2, DataStep
<1>12. PlaceInv'
  <2>1. InHand(call'[c]) \subseteq InHand(call[c]) \cup (Held(s) \ Held(s)') \cup (Told' \ Told)
    BY <1>5, <1>7, <1>8
  <2>2. InHand(call'[c]) \cap Held(s)' = {} /\ gone' \cap InHand(call'[c]) = {}
    BY <1>3, <1>5, <1>7, <1>8, <1>9
  <2> QED BY <1>1, <1>3, <1>4, <1>5, <1>8, <1>9, <2>1, <2>2, PlaceStep
<1>13. LossInv'
  <2>1. Found \cup (Told' \ Told) \subseteq Found' \cup {}
    BY <1>1, <1>3, <1>5, <1>7, <1>8, <1>9, <1>10, FoundStep
  <2> QED BY <1>3, <1>4, <2>1, LossStep
<1>14. LoggedInv'
  BY <1>1, <1>3, <1>4, <1>7, <1>8, <1>10, LoggedStep
<1>15. ExactInv'
  BY <1>1, <1>3, <1>4, <1>7, <1>8, <1>10, ExactKept, Counts
<1> QED BY <1>11, <1>12, <1>13, <1>14, <1>15 DEF StockInv

(* A moved batch comes into the freezer, and one of its name is replaced.  *)
LEMMA FreezerStock ==
    ASSUME IInv, StockInv, NEW c \in Calls, NEW o, FreezerSave(c, o)
    PROVE  StockInv'
<1> DEFINE r == call[c] s == "freezer" list == Put(r.list, r.name, r.batch)
           over == ActiveBatches(r.list, Named(r.list, r.name))
<1>1. /\ r.pc = "freezerSave" /\ Stage(r) = "freezerSave" /\ r.op \in Moves /\ Knows(r)
      /\ r.list = kitchen[s] /\ Set(c, Idle) /\ s \in Lists
      /\ UNCHANGED <<waste, batches, tossed>>
  BY DEF FreezerSave, At, IInv, LockInv, Stages, StockInv, DataInv, CopiesInForce, InForce,
         Leave, Stage, Lists
<1>2. DataInv /\ PlaceInv /\ LossInv /\ LoggedInv /\ ExactInv /\ TypeOK /\ waste \in Seq(Told)
  BY DEF StockInv, IInv, LockInv, DataInv
<1>3. CASE o = "lost"
  <2>1. UNCHANGED <<kitchen, gone>> /\ faults' = faults + 1
    BY <1>3 DEF FreezerSave, Fault
  <2> QED BY <1>1, <1>2, <2>1, FailStep
<1>4. CASE o # "lost"
  <2>1. kitchen' = [kitchen EXCEPT ![s] = list] /\ gone' = gone \cup over
        /\ (faults' = faults \/ faults' = faults + 1)
    BY <1>4 DEF FreezerSave, Fault
  <2>2. InHand(r) = {r.batch} /\ DueLog(r) = {} /\ CheckDone(r) = {} /\ r.name \in Names
    BY <1>1 DEF InHand, DueLog, CheckDone, Knows, Moves
  <2>3. r.batch \in Told /\ r.batch \notin gone
        /\ \A k \in Lists : r.batch \notin Held(k)
    BY <1>2, <2>2 DEF PlaceInv, InHands, Shelved
  <2>4. r.batch \in Batches
    BY <1>2, <2>3, KitchenAssumption DEF Told, Batches, DataInv
  <2>5. Tidy(r.list) /\ All(r.list) = Held(s)
    BY <1>1, <1>2 DEF DataInv, Held, All
  <2>6. Tidy(list) /\ All(list) = (Held(s) \ over) \cup {r.batch}
    <3>1. r.batch \notin All(r.list)
      BY <1>1, <2>3, <2>5
    <3> QED BY <2>2, <2>4, <2>5, <3>1, PutTidy
  <2>7. over \subseteq Held(s)
    <3>1. Named(r.list, r.name) \in SUBSET DOMAIN r.list
      BY DEF Named
    <3> HIDE DEF r, s
    <3>2. over \subseteq All(r.list)
      BY <2>5, <3>1, Others
    <3> QED BY <2>5, <3>2
  <2> HIDE DEF list, over, s
  <2>8. Frame(c, s) /\ call'[c] = Idle /\ kitchen'[s] = list
    BY <1>1, <1>2, <2>1, FrameOf
  <2>9. Told' = Told /\ Held(s)' = (Held(s) \ over) \cup {r.batch}
    BY <1>1, <2>6, <2>8, FrameSets DEF Told
  <2>10. InHand(call'[c]) = {} /\ DueLog(call'[c]) = {} /\ CheckDone(call'[c]) = {}
         /\ Knows(call'[c])
    BY <2>8, IdleHands
  <2>11. DataInv'
    <3>1. Tidy(kitchen'[s]) /\ batches' \in 0..MaxBatches /\ waste' \in Seq(Told')
      BY <1>1, <1>2, <2>6, <2>8, <2>9 DEF DataInv
    <3>2. faults' \in Nat
      BY <1>2, <2>1, Counts
    <3> QED BY <1>1, <1>2, <2>8, <2>9, <2>10, <3>1, <3>2, DataStep
  <2>12. PlaceInv'
    <3>1. gone' \subseteq gone \cup (Held(s) \ Held(s)')
      BY <1>1, <2>1, <2>3, <2>7, <2>9
    <3>2. /\ Held(s)' \subseteq Held(s) \cup InHand(call[c])
          /\ InHand(call'[c])
                 \subseteq InHand(call[c]) \cup (Held(s) \ Held(s)') \cup (Told' \ Told)
          /\ InHand(call'[c]) \cap Held(s)' = {} /\ gone' \cap InHand(call'[c]) = {}
      BY <2>2, <2>9, <2>10
    <3> QED BY <1>1, <1>2, <2>8, <2>9, <3>1, <3>2, PlaceStep
  <2> DEFINE X == IF faults' = faults THEN {} ELSE {r.batch}
  <2>13. \/ X = {} /\ faults' = faults
         \/ (\E x : X = {x}) /\ faults' = faults + 1
    BY <2>1
  <2> HIDE DEF X
  <2>14. LossInv'
    <3>1. Found \cup (Told' \ Told) \subseteq Found' \cup X
      BY <1>1, <2>1, <2>2, <2>8, <2>9, <2>10, FoundStep
    <3> QED BY <1>2, <2>13, <3>1, LossStep
  <2>15. LoggedInv'
    BY <1>1, <1>2, <2>1, <2>2, <2>8, <2>10, <2>13, LoggedStep
  <2>16. ExactInv'
    <3>1. faults' \in {faults, faults + 1} /\ faults \in Nat
      BY <1>2, <2>1 DEF DataInv
    <3> QED BY <1>1, <1>2, <2>2, <2>8, <2>10, <3>1, ExactKept
  <2> QED BY <2>11, <2>12, <2>14, <2>15, <2>16 DEF StockInv
<1> QED BY <1>3, <1>4

(* The check takes the first of what is left.                              *)
LEMMA FirstIn ==
    ASSUME NEW S \in SUBSET Nat, S # {}
    PROVE  FirstOf(S) \in S
<1>1. PICK n \in S : \A m \in S : <<m, n>> \notin OpToRel(<, Nat)
  <2>1. S \subseteq Nat
    OBVIOUS
  <2> QED BY <2>1, NatLessThanWellFounded, WFMin, Zenon
<1>2. ASSUME NEW m \in S PROVE n <= m
  <2>1. m \in Nat /\ n \in Nat
    OBVIOUS
  <2>2. ~(m < n)
    BY <1>1, <2>1 DEF OpToRel
  <2> QED BY <2>1, <2>2
<1> QED BY <1>2 DEF FirstOf

(* What a call logs is one batch that came in, or nothing.                 *)
LEMMA LoggedFacts ==
    ASSUME IInv, StockInv, NEW c \in Calls, NEW r, r = call[c], r.pc = "logSave"
    PROVE  /\ r.log = waste /\ r.op \in Tosses \cup {"check", "spoiled"} /\ Knows(r)
           /\ r.op \in Tosses =>
                  Logged(r) = <<r.batch>> /\ DueLog(r) = {r.batch} /\ r.batch \in Told
                  /\ InHand(r) = {} /\ CheckDone(r) = {} /\ r.op # "check" /\ r.op # "spoiled"
           /\ r.op = "spoiled" => Logged(r) = <<>> /\ r.op # "check"
           /\ r.op = "check" =>
                  LET i == FirstOf(r.left) IN
                  /\ Logged(r) = <<r.list[i].batch>> /\ i \in r.left /\ i \in Active(r.list)
                  /\ r.list[i].batch \in Held("fridge") /\ r.list[i].batch \in Told
                  /\ r.list = kitchen["fridge"] /\ lock["fridge"] = c
                  /\ DueLog(r) = {} /\ InHand(r) = {}
<1>1. /\ Knows(r) /\ Stage(r) = "logSave" /\ InForce(r, kitchen, waste) /\ r.want = {}
      /\ r.op \in Tosses \cup {"check", "spoiled"} /\ r.log = waste
  BY DEF IInv, LockInv, Stages, At, CopiesInForce, InForce, StockInv, DataInv, Stage, Knows
<1>2. ASSUME r.op \in Tosses
      PROVE  /\ Logged(r) = <<r.batch>> /\ DueLog(r) = {r.batch} /\ r.batch \in Told
             /\ InHand(r) = {} /\ CheckDone(r) = {} /\ r.op # "check" /\ r.op # "spoiled"
  <2>1. r.op # "check" /\ r.op # "spoiled" /\ r.op \notin Adds /\ r.op \notin Moves
    BY <1>2 DEF Tosses, Adds, Moves
  <2>2. Logged(r) = <<r.batch>> /\ DueLog(r) = {r.batch} /\ InHand(r) = {} /\ CheckDone(r) = {}
    BY <1>1, <1>2, <2>1 DEF Logged, DueLog, InHand, CheckDone
  <2>3. DueLog(r) \subseteq Told
    BY DEF StockInv, LoggedInv, PlaceInv, DueLogs
  <2> QED BY <2>1, <2>2, <2>3
<1>3. ASSUME r.op = "check"
      PROVE  LET i == FirstOf(r.left) IN
             /\ Logged(r) = <<r.list[i].batch>> /\ i \in r.left /\ i \in Active(r.list)
             /\ r.list[i].batch \in Held("fridge") /\ r.list[i].batch \in Told
             /\ r.list = kitchen["fridge"] /\ lock["fridge"] = c
             /\ DueLog(r) = {} /\ InHand(r) = {}
  <2> DEFINE i == FirstOf(r.left)
  <2>1. r.list = kitchen["fridge"] /\ r.left # {} /\ r.left \subseteq Active(r.list)
    BY <1>1, <1>3 DEF InForce, Knows
  <2>2. Active(r.list) \subseteq Nat /\ Active(r.list) \subseteq DOMAIN r.list
    <3>1. r.list \in Seq(Item)
      BY <2>1 DEF StockInv, DataInv, Tidy, Lists
    <3> QED BY <3>1 DEF Active
  <2>3. i \in r.left
    BY <2>1, <2>2, FirstIn
  <2> HIDE DEF i
  <2>4. i \in Active(r.list) /\ r.list[i].batch \in Held("fridge")
    BY <2>1, <2>2, <2>3 DEF Held, ActiveBatches
  <2>5. r.list[i].batch \in Told
    BY <2>4 DEF StockInv, PlaceInv, Shelved, Lists
  <2>6. Section(r) = {"fridge", "waste"} /\ "fridge" \in Files
    BY <1>1, <1>3 DEF Section, Keys, Moves, Files, Lists
  <2>7. lock["fridge"] = c
    BY <1>1, <2>6 DEF IInv, LockInv, Sections
  <2>8. DueLog(r) = {} /\ InHand(r) = {}
    BY <1>3 DEF DueLog, InHand, Tosses, Adds, Moves
  <2>9. Logged(r) = <<r.list[i].batch>>
    BY <1>3 DEF Logged, i
  <2> QED BY <2>1, <2>3, <2>4, <2>5, <2>7, <2>8, <2>9 DEF i
<1>4. r.op = "spoiled" => Logged(r) = <<>> /\ r.op # "check"
  BY DEF Logged
<1> QED BY <1>1, <1>2, <1>3, <1>4

(* A line comes into the waste log.                                        *)
LEMMA LogStock ==
    ASSUME IInv, StockInv, NEW c \in Calls, NEW o, LogSave(c, o)
    PROVE  StockInv'
<1> DEFINE r == call[c] s == "fridge" i == FirstOf(r.left)
           n == [r EXCEPT !.left = r.left \ {i},
                          !.pc = IF r.left \ {i} = {} THEN "save" ELSE "logRead"]
           asks == Locking(r, Keys(r.op), "read")
<1>1. r.pc = "logSave" /\ r = [d \in Fields |-> r[d]] /\ r.op \in Ops
      /\ UNCHANGED <<kitchen, batches, gone, tossed>>
  BY DEF LogSave, At, IInv, LockInv, TypeOK
<1>2. DataInv /\ PlaceInv /\ LossInv /\ LoggedInv /\ ExactInv /\ TypeOK /\ waste \in Seq(Told)
  BY DEF StockInv, IInv, LockInv, DataInv
<1>3. r.log = waste /\ r.op \in Tosses \cup {"check", "spoiled"} /\ Knows(r)
  BY <1>1, LoggedFacts
<1>4. waste \o <<>> = waste /\ waste' = (IF o = "lost" THEN waste ELSE waste \o Logged(r))
  BY <1>2, <1>3 DEF LogSave
<1>5. CASE o # "ok"
  <2>1. Set(c, Idle) /\ faults' = faults + 1
    BY <1>5 DEF LogSave, Leave, Fault
  <2>2. waste' \in Seq(Told) /\ ToSet(waste) \subseteq ToSet(waste')
    <3>1. CASE waste' = waste
      BY <1>2, <3>1
    <3>2. ASSUME NEW b \in Told, waste' = waste \o <<b>>
          PROVE  waste' \in Seq(Told) /\ ToSet(waste) \subseteq ToSet(waste')
      <4>1. ToSet(waste \o <<b>>) = ToSet(waste) \cup {b} /\ waste \o <<b>> \in Seq(Told)
        BY <1>2, AppendLog
      <4> QED BY <3>2, <4>1
    <3>3. waste' = waste \/ \E b \in Told : waste' = waste \o <<b>>
      BY <1>1, <1>3, <1>4, LoggedFacts
    <3> QED BY <3>1, <3>2, <3>3
  <2> QED BY <1>1, <1>2, <2>1, <2>2, FailStep
<1>6. CASE o = "ok" /\ r.op = "spoiled"
  <2>1. waste' = waste /\ faults' = faults
    BY <1>1, <1>4, <1>6, LoggedFacts DEF LogSave
  <2>2. Set(c, asks)
    BY <1>6 DEF LogSave, AfterLog
  <2>3. Keys(r.op) # {} /\ r.name \in Names
    BY <1>1, <1>3, <1>6, KeysOfOp DEF Knows
  <2>4. Stage(asks) = "read" /\ asks.op = r.op /\ asks.name = r.name
    BY <1>1, <2>3, LockingRecord
  <2> HIDE DEF asks
  <2>5. InHand(asks) = {} /\ DueLog(asks) = {} /\ CheckDone(asks) = {} /\ Knows(asks)
    BY <1>6, <2>3, <2>4, SpoiledHands
  <2>6. InHand(r) = {} /\ DueLog(r) = {} /\ CheckDone(r) = {}
    BY <1>1, <1>6, <2>3, SpoiledHands DEF Stage
  <2> QED BY <1>1, <1>2, <2>1, <2>2, <2>5, <2>6, QuietStep
<1>7. CASE o = "ok" /\ r.op # "spoiled"
  <2> DEFINE b == IF r.op = "check" THEN r.list[i].batch ELSE r.batch
             m == IF r.op = "check" THEN n ELSE Idle
  <2>1. s \in Lists /\ faults' = faults /\ b \in Told /\ waste' = waste \o <<b>>
    BY <1>1, <1>3, <1>4, <1>7, LoggedFacts DEF LogSave, Lists
  <2>2. Set(c, m)
    <3>1. AfterLog(c)
      BY <1>7 DEF LogSave
    <3> QED BY <1>7, <3>1, Zenon DEF AfterLog, Leave
  <2>3. /\ InHand(r) = {} /\ InHand(m) = {} /\ DueLog(m) = {} /\ Knows(m)
        /\ CheckDone(r) \subseteq CheckDone(m) /\ CheckDone(m) \subseteq CheckDone(r) \cup {b}
        /\ DueLog(r) \subseteq {b}
        /\ \/ b \in DueLog(r) /\ r.op # "check"
           \/ b \in CheckDone(m) /\ r.op = "check" /\ b \notin CheckDone(r)
              /\ b \in Held("fridge") /\ lock["fridge"] = c
    <3>1. CASE r.op = "check"
      <4>1. /\ i \in r.left /\ i \in Active(r.list) /\ b = r.list[i].batch
            /\ b \in Held("fridge") /\ lock["fridge"] = c /\ InHand(r) = {} /\ DueLog(r) = {}
            /\ r.list = kitchen["fridge"]
        BY <1>1, <3>1, LoggedFacts
      <4>2. r.expired \subseteq Active(r.list) /\ r.left \subseteq r.expired
        BY <1>1, <1>3, <3>1 DEF Knows
      <4>3. \A j, k \in Active(r.list) : r.list[j].batch = r.list[k].batch => j = k
        BY <1>2, <4>1 DEF DataInv, Tidy, Lists
      <4> HIDE DEF i, b
      <4>4. /\ m.op = "check" /\ m.list = r.list /\ m.expired = r.expired
            /\ m.left = r.left \ {i} /\ m.name = r.name
            /\ m.pc = IF r.left \ {i} = {} THEN "save" ELSE "logRead"
        BY <1>1, <3>1, TheFields
      <4> HIDE DEF m, n
      <4>5. m.pc \in {"save", "logRead"}
        BY <4>4
      <4>6. InHand(m) = {} /\ DueLog(m) = {}
        BY <4>4 DEF InHand, DueLog, Adds, Moves, Tosses
      <4>7. Knows(m)
        <5>1. m.op \notin Adds \cup Buttons
          BY <4>4 DEF Adds, Buttons
        <5>2. m.left = {} <=> m.pc = "save"
          BY <4>4
        <5>3. m.expired \subseteq Active(m.list) /\ m.left \subseteq m.expired
          BY <4>2, <4>4
        <5> QED BY <4>4, <5>1, <5>2, <5>3 DEF Knows
      <4>8. CheckDone(r) = {r.list[j].batch : j \in r.expired \ r.left}
        BY <1>1, <3>1 DEF CheckDone
      <4>9. CheckDone(m) = {r.list[j].batch : j \in r.expired \ (r.left \ {i})}
        BY <4>4, <4>5 DEF CheckDone
      <4>10. CheckDone(m) = CheckDone(r) \cup {b} /\ b \notin CheckDone(r)
        <5>1. r.expired \ (r.left \ {i}) = (r.expired \ r.left) \cup {i}
          BY <4>1, <4>2
        <5>2. \A j \in r.expired \ r.left : r.list[j].batch # b
          BY <4>1, <4>2, <4>3
        <5> QED BY <4>1, <4>8, <4>9, <5>1, <5>2
      <4> QED BY <3>1, <4>1, <4>6, <4>7, <4>10
    <3>2. CASE r.op # "check"
      <4>1. /\ InHand(r) = {} /\ DueLog(r) = {r.batch} /\ CheckDone(r) = {}
        BY <1>1, <1>3, <1>7, <3>2, LoggedFacts
      <4>2. b = r.batch /\ m = Idle
        BY <3>2
      <4> QED BY <3>2, <4>1, <4>2, IdleHands
    <3> QED BY <3>1, <3>2
  <2> HIDE DEF b, m, n, s, r
  <2>4. Frame(c, s) /\ call'[c] = m /\ kitchen'[s] = kitchen[s] /\ r = call[c]
    BY <1>1, <1>2, <2>1, <2>2, FrameSame DEF r
  <2>5. Told' = Told /\ Held(s)' = Held(s) /\ waste' \in Seq(Told)
        /\ ToSet(waste') = ToSet(waste) \cup {b}
    <3>1. waste \o <<b>> \in Seq(Told) /\ ToSet(waste \o <<b>>) = ToSet(waste) \cup {b}
      BY <1>2, <2>1, AppendLog
    <3>2. Told' = Told /\ Held(s)' = Held(s)
      BY <1>1, <2>1, <2>4, FrameSets DEF Told
    <3> QED BY <2>1, <3>1, <3>2
  <2>6. DataInv'
    <3>1. Tidy(kitchen'[s]) /\ batches' \in 0..MaxBatches /\ faults' \in Nat
      BY <1>1, <1>2, <2>1, <2>4 DEF DataInv
    <3> QED BY <1>2, <2>1, <2>3, <2>4, <2>5, <3>1, DataStep
  <2>7. PlaceInv'
    BY <1>1, <1>2, <2>1, <2>3, <2>4, <2>5, PlaceStep
  <2>8. LossInv'
    <3>1. Found \cup (Told' \ Told) \subseteq Found' \cup {}
      BY <1>1, <2>1, <2>3, <2>4, <2>5, FoundStep
    <3> QED BY <1>2, <2>1, <3>1, LossStep
  <2>9. CheckDone(call[c]) \subseteq ToSet(waste)
    BY <1>2 DEF LoggedInv, ChecksDone
  <2>10. LoggedInv'
    <3>1. CheckDone(call'[c]) \subseteq ToSet(waste')
          /\ (tossed' \ tossed) \cup DueLog(call[c])
                 \subseteq ToSet(waste') \cup DueLog(call'[c]) \cup {}
          /\ DueLog(call'[c]) \subseteq tossed' /\ ToSet(waste) \subseteq ToSet(waste')
      BY <1>1, <2>3, <2>4, <2>5, <2>9
    <3> QED BY <1>1, <1>2, <2>1, <2>4, <3>1, LoggedStep
  <2>11. ExactInv'
    <3>1. ASSUME faults = 0
          PROVE  /\ b \notin ToSet(waste)
                 /\ b \in CheckDone(m) => b \notin tossed \/ b \in DueLog(r)
      <4>1. CASE b \in DueLog(r)
        <5>1. b \in DueLogs
          BY <2>4, <4>1 DEF DueLogs
        <5> QED BY <1>2, <3>1, <4>1, <5>1 DEF ExactInv
      <4>2. CASE b \notin DueLog(r)
        <5>1. b \in Held(s) /\ lock["fridge"] = c /\ b \notin CheckDone(call[c])
          BY <2>3, <2>4, <4>2 DEF s
        <5> QED BY <2>1, <3>1, <5>1, FreshToLog
      <4> QED BY <4>1, <4>2
    <3>2. tossed' = tossed /\ (faults = 0 => b \notin ToSet(waste))
          /\ \/ b \in DueLog(call[c])
             \/ b \in CheckDone(call'[c]) /\ (faults = 0 => b \notin tossed)
      BY <1>1, <2>3, <2>4, <3>1
    <3> QED BY <1>2, <2>1, <2>3, <2>4, <3>2, ExactMore
  <2> QED BY <2>6, <2>7, <2>8, <2>10, <2>11 DEF StockInv
<1> QED BY <1>5, <1>6, <1>7

(* The batches in the hands of busy calls are no more than those calls.    *)
LEMMA FewHands ==
    ASSUME NEW S, IsFiniteSet(S)
    PROVE  LET T == {call[x].batch : x \in S} IN
           IsFiniteSet(T) /\ Cardinality(T) <= Cardinality(S)
<1> DEFINE T == {call[x].batch : x \in S} g == [x \in S |-> call[x].batch]
<1>1. g \in Surjection(S, T)
  BY DEF Surjection
<1> QED BY <1>1, FS_Surjection

LEMMA ManyMore ==
    ASSUME NEW S, IsFiniteSet(S), NEW Y, IsFiniteSet(Y), NEW T \in SUBSET (S \cup Y),
           NEW f \in Nat, Cardinality(S) <= f, NEW k \in Nat, Cardinality(Y) <= k
    PROVE  Cardinality(T) <= f + k
<1>1. /\ IsFiniteSet(S \cup Y) /\ IsFiniteSet(S \cap Y)
      /\ Cardinality(S \cup Y) = Cardinality(S) + Cardinality(Y) - Cardinality(S \cap Y)
  <2>1. IsFiniteSet(S \cap Y)
    <3>1. S \cap Y \in SUBSET S
      OBVIOUS
    <3> QED BY <3>1, FS_Subset
  <2> QED BY <2>1, FS_Union
<1>2. IsFiniteSet(T) /\ Cardinality(T) <= Cardinality(S \cup Y)
  BY <1>1, FS_Subset
<1>3. /\ Cardinality(T) \in Nat /\ Cardinality(S) \in Nat /\ Cardinality(Y) \in Nat
      /\ Cardinality(S \cap Y) \in Nat /\ Cardinality(S \cup Y) \in Nat
  BY <1>1, <1>2, FS_CardinalityType
<1> QED BY <1>1, <1>2, <1>3

(* The process dies: each call under way loses one batch at most.          *)
LEMMA CrashStock ==
    ASSUME IInv, StockInv, Crash
    PROVE  StockInv'
<1> DEFINE busy == {c \in Calls : Busy(c)}
           cut == Cardinality(busy)
           Y == {call[c].batch : c \in busy}
<1>1. /\ cut > 0 /\ faults' = faults + cut /\ call' = [c \in Calls |-> Idle]
      /\ UNCHANGED <<kitchen, waste, batches, gone, tossed>>
  BY DEF Crash
<1>2. DataInv /\ PlaceInv /\ LossInv /\ LoggedInv /\ ExactInv
  BY DEF StockInv
<1>3. IsFiniteSet(busy) /\ IsFiniteSet(Y) /\ cut \in Nat /\ Cardinality(Y) <= cut
  <2>1. busy \in SUBSET Calls /\ IsFiniteSet(Calls)
    BY KitchenAssumption
  <2>2. IsFiniteSet(busy)
    BY <2>1, FS_Subset
  <2> QED BY <2>2, FewHands, FS_CardinalityType
<1>4. faults \in Nat /\ faults' \in Nat /\ faults' # 0
  <2>1. faults \in Nat
    BY <1>2 DEF DataInv
  <2> HIDE DEF cut
  <2> QED BY <1>1, <1>3, <2>1
<1>5. InHands \subseteq Y /\ DueLogs \subseteq Y
  <2> SUFFICES ASSUME NEW c \in Calls
      PROVE InHand(call[c]) \subseteq Y /\ DueLog(call[c]) \subseteq Y
    BY DEF InHands, DueLogs
  <2>1. CASE ~Busy(c)
    BY <2>1, NotBusyHands
  <2>2. CASE Busy(c)
    BY <2>2 DEF InHand, DueLog
  <2> QED BY <2>1, <2>2
<1> HIDE DEF Y, cut, busy
<1>6. \A c \in Calls : call'[c] = Idle
  BY <1>1
<1>7. InHands' = {} /\ DueLogs' = {} /\ ChecksDone' = {}
  <2>1. \A c \in Calls : /\ InHand(call'[c]) = {} /\ DueLog(call'[c]) = {}
                         /\ CheckDone(call'[c]) = {}
    BY <1>6, IdleHands
  <2>2. \A c \in Calls : /\ InHand(call[c])' = {} /\ DueLog(call[c])' = {}
                         /\ CheckDone(call[c])' = {}
    BY <2>1 DEF InHand, DueLog, CheckDone, Stage
  <2> QED BY <2>2 DEF InHands, DueLogs, ChecksDone
<1>8. Told' = Told /\ Shelved' = Shelved /\ \A l \in Lists : Held(l)' = Held(l)
  BY <1>1 DEF Told, Shelved, Held, ActiveBatches, Active
<1>9. DataInv'
  <2>1. \A c \in Calls : Knows(call'[c])
    BY <1>6, IdleHands
  <2>2. \A c \in Calls : Knows(call[c])'
    BY <2>1 DEF Knows, Stage, Hits, Active
  <2>3. \A l \in Lists : Tidy(kitchen[l])'
    BY <1>1, <1>2 DEF DataInv, Tidy, Active
  <2> QED BY <1>1, <1>2, <1>4, <1>8, <2>2, <2>3 DEF DataInv
<1>10. PlaceInv'
  <2>1. \A c, d \in Calls : (InHand(call[c]) \cap InHand(call[d]))' = {}
    <3>1. \A c \in Calls : InHand(call[c])' \subseteq InHands'
      BY DEF InHands
    <3> QED BY <1>7, <3>1
  <2> QED BY <1>1, <1>2, <1>7, <1>8, <2>1 DEF PlaceInv
<1>11. LossInv'
  <2> DEFINE S == Told \ (gone \cup Shelved \cup InHands) T == Told \ (gone \cup Shelved)
  <2>1. S \in SUBSET Told /\ T \in SUBSET (S \cup Y)
    BY <1>5
  <2>2. IsFiniteSet(S) /\ Cardinality(S) <= faults
    BY <1>2, <2>1, ToldFinite DEF LossInv
  <2>3. Told' \ (gone' \cup Shelved' \cup InHands') = T
    BY <1>1, <1>7, <1>8
  <2> HIDE DEF S, T
  <2>4. Cardinality(T) <= faults'
    BY <1>1, <1>3, <1>4, <2>1, <2>2, ManyMore
  <2> QED BY <2>3, <2>4 DEF LossInv
<1>12. LoggedInv'
  <2> DEFINE S == tossed \ (ToSet(waste) \cup DueLogs) T == tossed \ ToSet(waste)
  <2>1. S \in SUBSET Told /\ T \in SUBSET (S \cup Y)
    BY <1>2, <1>5 DEF LoggedInv, PlaceInv
  <2>2. IsFiniteSet(S) /\ Cardinality(S) <= faults
    BY <1>2, <2>1, ToldFinite DEF LoggedInv
  <2>3. tossed' \ (ToSet(waste') \cup DueLogs') = T
    BY <1>1, <1>7
  <2> HIDE DEF S, T
  <2>4. Cardinality(T) <= faults'
    BY <1>1, <1>3, <1>4, <2>1, <2>2, ManyMore
  <2>5. tossed' \subseteq gone'
    BY <1>1, <1>2 DEF LoggedInv
  <2> QED BY <1>7, <2>3, <2>4, <2>5 DEF LoggedInv
<1>13. ExactInv'
  BY <1>4 DEF ExactInv
<1> QED BY <1>9, <1>10, <1>11, <1>12, <1>13 DEF StockInv

LEMMA InitStock == Init => StockInv
<1> SUFFICES ASSUME Init PROVE StockInv
  OBVIOUS
<1>1. \A c \in Calls : call[c] = Idle
  BY DEF Init
<1>2. InHands = {} /\ DueLogs = {} /\ ChecksDone = {}
  BY <1>1, IdleHands DEF InHands, DueLogs, ChecksDone
<1>3. /\ batches = 0 /\ faults = 0 /\ gone = {} /\ tossed = {} /\ waste = <<>>
      /\ DOMAIN kitchen = Lists /\ \A l \in Lists : kitchen[l] = <<>>
  BY DEF Init
<1>4. Told = {}
  BY <1>3 DEF Told
<1>5. Tidy(<<>>)
  BY DEF Tidy, Active
<1>6. \A l \in Lists : Held(l) = {}
  BY <1>3 DEF Held, ActiveBatches
<1>7. Shelved = {} /\ ToSet(waste) = {}
  BY <1>3, <1>6 DEF Shelved, ToSet
<1>8. DataInv
  <2>1. batches \in 0..MaxBatches
    BY <1>3, KitchenAssumption
  <2>2. waste \in Seq(Told)
    BY <1>3
  <2>3. \A c \in Calls : Knows(call[c])
    BY <1>1, IdleHands
  <2> QED BY <1>3, <1>5, <2>1, <2>2, <2>3 DEF DataInv
<1>9. PlaceInv
  <2>1. \A c, d \in Calls : InHand(call[c]) \cap InHand(call[d]) = {}
    BY <1>1, IdleHands
  <2> QED BY <1>2, <1>3, <1>4, <1>6, <1>7, <2>1 DEF PlaceInv
<1>10. LossInv /\ LoggedInv
  <2>1. Cardinality({}) = 0
    BY FS_EmptySet
  <2> QED BY <1>2, <1>3, <1>4, <1>7, <2>1 DEF LossInv, LoggedInv
<1>11. ExactInv
  <2>1. \A c, d \in Calls : DueLog(call[c]) \cap DueLog(call[d]) = {}
    BY <1>1, IdleHands
  <2>2. DOMAIN waste = {}
    BY <1>3
  <2> QED BY <1>2, <1>7, <2>1, <2>2 DEF ExactInv
<1> QED BY <1>8, <1>9, <1>10, <1>11 DEF StockInv

(* Every step keeps the stock and the log.                                 *)
LEMMA StockStep == IInv /\ StockInv /\ [Next]_vars => StockInv'
<1> SUFFICES ASSUME IInv, StockInv, [Next]_vars PROVE StockInv'
  OBVIOUS
<1>1. ASSUME NEW c \in Calls, NEW n \in Names,
             \/ \E op \in Adds : Add(c, op, n)
             \/ \E op \in Buttons, i \in Batches : Press(c, op, i, n)
             \/ \E op \in {"remove", "spoiled", "check"} : Tell(c, op, n)
      PROVE  StockInv'
  BY <1>1, AddStock, PressStock, TellStock
<1>2. ASSUME NEW c \in Calls, CallStep(c)
      PROVE  StockInv'
  <2>1. CASE \E f \in Files : Acquire(c, f)
    BY <2>1, AcquireStock
  <2>2. CASE Read(c)
    BY <2>2, ReadStock
  <2>3. CASE \E expired \in SUBSET Batches : CheckRead(c, expired)
    BY <2>3, CheckReadStock
  <2>4. CASE FreezerRead(c) \/ LogRead(c)
    BY <2>4, FreezerLogReadStock
  <2>5. CASE \E o \in Outcomes : Save(c, o)
    BY <2>5, SaveStock
  <2>6. CASE \E o \in Outcomes : FreezerSave(c, o)
    BY <2>6, FreezerStock
  <2>7. CASE \E o \in Outcomes : LogSave(c, o)
    BY <2>7, LogStock
  <2> QED BY <1>2, <2>1, <2>2, <2>3, <2>4, <2>5, <2>6, <2>7 DEF CallStep
<1>3. CASE Crash
  BY <1>3, CrashStock
<1>4. CASE UNCHANGED vars
  <2>1. /\ call' = call /\ kitchen' = kitchen /\ waste' = waste /\ gone' = gone
        /\ tossed' = tossed /\ faults' = faults /\ batches' = batches
    BY <1>4 DEF vars
  <2>2. Told' = Told /\ Shelved' = Shelved /\ \A l \in Lists : Held(l)' = Held(l)
    BY <2>1 DEF Told, Shelved, Held, ActiveBatches, Active
  <2>3. InHands' = InHands /\ DueLogs' = DueLogs /\ ChecksDone' = ChecksDone
    BY <2>1 DEF InHands, DueLogs, ChecksDone, InHand, DueLog, CheckDone, Stage
  <2>4. DataInv'
    <3>1. \A l \in Lists : Tidy(kitchen[l])'
      BY <2>1 DEF StockInv, DataInv, Tidy, Active
    <3>2. \A c \in Calls : Knows(call[c])'
      BY <2>1 DEF StockInv, DataInv, Knows, Stage, Hits, Active
    <3> QED BY <2>1, <2>2, <3>1, <3>2 DEF StockInv, DataInv
  <2>5. PlaceInv'
    <3>1. \A c, d \in Calls : c # d => (InHand(call[c]) \cap InHand(call[d]))' = {}
      BY <2>1 DEF StockInv, PlaceInv, InHand
    <3> QED BY <2>1, <2>2, <2>3, <3>1 DEF StockInv, PlaceInv
  <2>6. LossInv' /\ LoggedInv'
    BY <2>1, <2>2, <2>3 DEF StockInv, LossInv, LoggedInv
  <2>7. ExactInv'
    <3>1. faults = 0 => \A c, d \in Calls : c # d => (DueLog(call[c]) \cap DueLog(call[d]))' = {}
      BY <2>1 DEF StockInv, ExactInv, DueLog, Stage
    <3> QED BY <2>1, <2>3, <3>1 DEF StockInv, ExactInv
  <2> QED BY <2>4, <2>5, <2>6, <2>7 DEF StockInv
<1> QED BY <1>1, <1>2, <1>3, <1>4 DEF Next

-----------------------------------------------------------------------------
(* The invariant of the stock and of the log, for every step.              *)
THEOREM StockInvariance == Spec => [](IInv /\ StockInv)
<1>1. Init => IInv /\ StockInv
  BY InitInv, InitStock
<1>2. (IInv /\ StockInv) /\ [Next]_vars => (IInv /\ StockInv)'
  BY LocksStep, CopiesStep, StockStep DEF IInv
<1> QED BY <1>1, <1>2, PTL DEF Spec

(* A batch is in one list or gone, whatever calls do at the same time.     *)
THEOREM OneAtATime == Spec => []OnePlace
<1>1. StockInv => OnePlace
  <2> SUFFICES ASSUME StockInv, NEW b \in Batches
      PROVE  Cardinality({l \in Lists : b \in Held(l)}) + (IF b \in gone THEN 1 ELSE 0) <= 1
    BY DEF OnePlace
  <2> DEFINE S == {l \in Lists : b \in Held(l)}
  <2>1. \A l, k \in S : l = k
    BY DEF StockInv, PlaceInv
  <2>2. S # {} => b \notin gone
    BY DEF StockInv, PlaceInv, Shelved
  <2> HIDE DEF S
  <2>3. CASE S = {}
    <3>1. Cardinality(S) = 0
      BY <2>3, FS_EmptySet
    <3> QED BY <3>1 DEF S
  <2>4. CASE S # {}
    <3>1. PICK l : S = {l}
      BY <2>1, <2>4
    <3>2. Cardinality(S) = 1
      BY <3>1, FS_Singleton
    <3> QED BY <2>2, <2>4, <3>2 DEF S
  <2> QED BY <2>3, <2>4
<1> QED BY <1>1, StockInvariance, PTL

(* What came in is there or has left by somebody's hand, but for one batch *)
(* for each failed write or call cut off.                                  *)
THEOREM NothingLost == Spec => []StockKept
<1>1. StockInv => StockKept
  <2> SUFFICES ASSUME StockInv, AtRest
      PROVE Cardinality((1..batches) \ (gone \cup UNION {Held(l) : l \in Lists})) <= faults
    BY DEF StockKept
  <2>1. InHands = {}
    BY NotBusyHands DEF AtRest, InHands
  <2>2. (1..batches) \ (gone \cup UNION {Held(l) : l \in Lists})
            = Told \ (gone \cup Shelved \cup InHands)
    BY <2>1 DEF Told, Shelved
  <2> QED BY <2>2 DEF StockInv, LossInv
<1> QED BY <1>1, StockInvariance, PTL

(* The waste log lacks one batch at most for each failure, and without one *)
(* it has each batch thrown away once and no other.                        *)
THEOREM LogTrue == Spec => []WasteLogTrue
<1>1. StockInv => WasteLogTrue
  <2> SUFFICES ASSUME StockInv, AtRest
      PROVE  /\ Cardinality(tossed \ ToSet(waste)) <= faults
             /\ faults = 0 => ToSet(waste) \subseteq tossed
                              /\ Len(waste) = Cardinality(ToSet(waste))
    BY DEF WasteLogTrue
  <2>1. DueLogs = {} /\ ChecksDone = {}
    BY NotBusyHands DEF AtRest, DueLogs, ChecksDone
  <2>2. Cardinality(tossed \ ToSet(waste)) <= faults
    BY <2>1 DEF StockInv, LoggedInv
  <2>3. ASSUME faults = 0
        PROVE  ToSet(waste) \subseteq tossed /\ Len(waste) = Cardinality(ToSet(waste))
    <3>1. ToSet(waste) \subseteq tossed /\ \A i, j \in DOMAIN waste : waste[i] = waste[j] => i = j
      BY <2>1, <2>3 DEF StockInv, ExactInv
    <3>2. waste \in Seq(Told)
      BY DEF StockInv, DataInv
    <3>3. DOMAIN waste = 1..Len(waste) /\ Len(waste) \in Nat
      BY <3>2
    <3>4. waste \in [DOMAIN waste -> ToSet(waste)]
      BY <3>2 DEF ToSet
    <3>5. waste \in Bijection(DOMAIN waste, ToSet(waste))
      <4>1. waste \in Injection(DOMAIN waste, ToSet(waste))
        BY <3>1, <3>4 DEF Injection, IsInjective
      <4>2. waste \in Surjection(DOMAIN waste, ToSet(waste))
        BY <3>4 DEF Surjection, ToSet
      <4> QED BY <4>1, <4>2 DEF Bijection
    <3>6. IsFiniteSet(1..Len(waste)) /\ Cardinality(1..Len(waste)) = Len(waste)
      <4>1. 1 \in Int /\ Len(waste) \in Int
        BY <3>3
      <4>2. IsFiniteSet(1..Len(waste))
            /\ Cardinality(1..Len(waste)) = IF 1 > Len(waste) THEN 0 ELSE Len(waste) - 1 + 1
        BY <4>1, FS_Interval
      <4> QED BY <3>3, <4>2
    <3>7. ExistsBijection(DOMAIN waste, ToSet(waste))
      BY <3>5 DEF ExistsBijection
    <3> QED BY <3>1, <3>3, <3>6, <3>7, FS_Bijection
  <2> QED BY <2>2, <2>3
<1> QED BY <1>1, StockInvariance, PTL
=============================================================================
