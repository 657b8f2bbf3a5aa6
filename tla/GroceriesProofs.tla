--------------------------- MODULE GroceriesProofs ---------------------------
(***************************************************************************)
(* Groceries for any number of calls, members, items and failures: no item *)
(* that was saved disappears unaccounted, none reaches the pantry twice or *)
(* before it was recorded, and only a clear moves the buttons of the list. *)
(*                                                                         *)
(* The argument follows an item. Under the lock, a call's copy is the list *)
(* with at most a new item, or the list without what the call takes off    *)
(* (CopyOK). An item on the list is in nobody's batch but that of the call *)
(* that takes it off, one that is off the list is in one batch at most,    *)
(* and it has been recorded (BatchOK).                                     *)
(***************************************************************************)
EXTENDS Groceries, WellFoundedInduction, TLAPS

Working == {"load", "archive", "save"}

(* A call works on the list while it has the lock, for a member, with what *)
(* it was asked.                                                           *)
CallsOK ==
    /\ DOMAIN task = Calls
    /\ \A c \in Calls :
           /\ lock = c <=> pc[c] \in Working
           /\ pc[c] # "idle" => who[c] \in Users
           /\ task[c].kind = "add" => task[c].name \in Names
           /\ pc[c] = "archive" => task[c].kind \in Removing
           /\ pc[c] \in {"idle", "lock", "load"} => batch[c] = {}

(* An item nobody has seen yet.                                            *)
Fresh(i) ==
    /\ i \notin On(list) /\ i \notin saved /\ history[i] = 0 /\ pantry[i] = 0
    /\ \A u \in Users : i \notin pending[u]
    /\ \A c \in Calls : i \notin batch[c]

Unseen == \A i \in Items : i > used => Fresh(i)

(* What a call is about to save: the list with new items at its end, or    *)
(* what it leaves of the list.                                             *)
CopyRight(c) ==
    /\ pc[c] = "save" => marks[c] \subseteq On(copy[c])
    /\ pc[c] = "save" /\ task[c].kind \notin Removing =>
           /\ batch[c] = {}
           /\ \A k \in DOMAIN list : k \in DOMAIN copy[c] /\ copy[c][k] = list[k]
           /\ \A i \in On(copy[c]) \ On(list) : Fresh(i) /\ i <= used
    /\ pc[c] \in {"archive", "save"} /\ task[c].kind \in Removing =>
           /\ marks[c] = {} /\ batch[c] \subseteq On(list)
           /\ On(copy[c]) \subseteq On(list) \ batch[c]
           /\ On(list) \subseteq On(copy[c]) \cup batch[c]
                                 \cup (IF task[c].kind = "remaining" THEN ticked ELSE {})

CopyOK == \A c \in Calls : CopyRight(c)

(* Each item is in one batch at most, of a call or put aside, and was      *)
(* recorded before it went there.                                          *)
BatchOK ==
    /\ \A u, v \in Users : u # v => pending[u] \cap pending[v] = {}
    /\ \A c, d \in Calls : c # d => batch[c] \cap batch[d] = {}
    /\ \A u \in Users, c \in Calls : pending[u] \cap batch[c] = {}
    /\ \A u \in Users : \A i \in pending[u] : pantry[i] = 0 /\ history[i] > 0
    /\ \A c \in Calls : \A i \in batch[c] : pantry[i] = 0 /\ (pc[c] # "archive" => history[i] > 0)

(* What is on the list is not in the pantry, and only the call that takes  *)
(* it off has it in its batch.                                             *)
Listed(i) ==
    /\ pantry[i] = 0 /\ \A u \in Users : i \notin pending[u]
    /\ \A c \in Calls : i \in batch[c] => pc[c] \in {"archive", "save"}
    /\ history[i] <= faults \/ \E c \in Calls : pc[c] = "save" /\ i \in batch[c]

ListOK == \A i \in On(list) : Listed(i)

ItemsOK == Unseen /\ CopyOK /\ BatchOK /\ ListOK /\ Accounted /\ PantryOnce

IInv == TypeOK /\ CallsOK /\ ItemsOK

-----------------------------------------------------------------------------
(* What Without keeps                                                      *)

LEMMA NatInductionSet ==
    ASSUME NEW W, 0 \in W, \A n \in Nat : n \in W => n + 1 \in W
    PROVE  Nat \subseteq W
<1> SUFFICES ASSUME Nat \ W # {} PROVE FALSE
  OBVIOUS
<1>1. PICK n \in Nat \ W : \A m \in Nat \ W : <<m, n>> \notin OpToRel(<, Nat)
  <2>1. Nat \ W \subseteq Nat
    OBVIOUS
  <2> QED BY <2>1, NatLessThanWellFounded, WFMin, Zenon
<1>2. n # 0 /\ n \in Nat
  BY <1>1
<1>3. n - 1 \in Nat /\ n - 1 < n /\ (n - 1) + 1 = n
  BY <1>2
<1>4. n - 1 \in W
  BY <1>1, <1>2, <1>3 DEF OpToRel
<1> QED BY <1>1, <1>2, <1>3, <1>4

(* The recursion of Without.                                               *)
RestStep(items, rest, k) ==
    IF k = 0 THEN <<>>
    ELSE IF list[k] \in items THEN rest[k - 1]
    ELSE Append(rest[k - 1], list[k])

Rest(items) == CHOOSE rest : rest = [k \in 0 .. Len(list) |-> RestStep(items, rest, k)]

LEMMA WithoutUnfold ==
    ASSUME NEW items PROVE Without(items) = Rest(items)[Len(list)]
  BY DEF Without, Rest, RestStep

LEMMA RestRule ==
    ASSUME list \in Seq(Items), NEW items, NEW k \in 0 .. Len(list)
    PROVE  Rest(items)[k] = RestStep(items, Rest(items), k)
<1> DEFINE W == {m \in Nat : \E f : f = [j \in 0 .. m |-> RestStep(items, f, j)]}
<1>1. 0 \in W
  <2> DEFINE f == [j \in 0 .. 0 |-> <<>>]
  <2>1. f = [j \in 0 .. 0 |-> RestStep(items, f, j)]
    BY DEF RestStep
  <2> QED BY <2>1
<1>2. ASSUME NEW m \in Nat, m \in W PROVE m + 1 \in W
  <2>1. PICK f : f = [j \in 0 .. m |-> RestStep(items, f, j)]
    BY <1>2
  <2> DEFINE g == [j \in 0 .. m + 1 |-> IF j <= m THEN f[j] ELSE RestStep(items, f, j)]
  <2>2. ASSUME NEW j \in 0 .. m + 1 PROVE g[j] = RestStep(items, g, j)
    <3>1. CASE j = 0
      <4>1. 0 \in 0 .. m /\ 0 \in 0 .. m + 1 /\ 0 <= m
        OBVIOUS
      <4>2. g[0] = f[0]
        BY <4>1
      <4>3. f[0] = RestStep(items, f, 0)
        BY <2>1, <4>1
      <4> QED BY <3>1, <4>2, <4>3 DEF RestStep
    <3>2. CASE j # 0
      <4>1. j - 1 \in 0 .. m /\ g[j - 1] = f[j - 1]
        BY <3>2
      <4>2. RestStep(items, g, j) = RestStep(items, f, j)
        BY <4>1 DEF RestStep
      <4>3. j <= m => f[j] = RestStep(items, f, j)
        BY <2>1
      <4> QED BY <4>2, <4>3
    <3> QED BY <3>1, <3>2
  <2>3. g = [j \in 0 .. m + 1 |-> RestStep(items, g, j)]
    BY <2>2
  <2> HIDE DEF g
  <2>4. m + 1 \in Nat
    OBVIOUS
  <2> QED BY <2>3, <2>4
<1> HIDE DEF W
<1>3. Len(list) \in W
  BY <1>1, <1>2, NatInductionSet
<1>4. \E f : f = [j \in 0 .. Len(list) |-> RestStep(items, f, j)]
  BY <1>3 DEF W
<1>5. Rest(items) = [j \in 0 .. Len(list) |-> RestStep(items, Rest(items), j)]
  BY <1>4 DEF Rest
<1> QED BY <1>5

LEMMA AppendOn ==
    ASSUME NEW s \in Seq(Items), NEW i \in Items
    PROVE  /\ Append(s, i) \in Seq(Items) /\ On(Append(s, i)) = On(s) \cup {i}
           /\ \A k \in DOMAIN s : k \in DOMAIN Append(s, i) /\ Append(s, i)[k] = s[k]
<1> DEFINE new == Append(s, i) last == Len(s) + 1
<1>1. /\ Len(s) \in Nat /\ DOMAIN s = 1 .. Len(s)
      /\ new \in Seq(Items) /\ DOMAIN new = 1 .. last /\ new[last] = i
      /\ \A k \in 1 .. Len(s) : new[k] = s[k]
  OBVIOUS
<1>2. /\ \A k \in 1 .. last : k = last \/ k \in 1 .. Len(s)
      /\ last \in 1 .. last /\ 1 .. Len(s) \subseteq 1 .. last
  BY <1>1
<1> HIDE DEF new, last
<1>3. On(new) = On(s) \cup {i}
  BY <1>1, <1>2 DEF On
<1> QED BY <1>1, <1>2, <1>3 DEF new

(* It keeps what is not taken.                                             *)
LEMMA WithoutOn ==
    ASSUME list \in Seq(Items), NEW items
    PROVE  Without(items) \in Seq(Items) /\ On(Without(items)) = On(list) \ items
<1> DEFINE F(k) == Rest(items)[k]
           P(k) == F(k) \in Seq(Items) /\ On(F(k)) = {list[j] : j \in 1 .. k} \ items
           W == {k \in Nat : k <= Len(list) => P(k)}
<1>0. Len(list) \in Nat /\ DOMAIN list = 1 .. Len(list) /\ \A j \in DOMAIN list : list[j] \in Items
  OBVIOUS
<1>1. 0 \in W
  <2>1. F(0) = <<>>
    <3>1. 0 \in 0 .. Len(list)
      BY <1>0
    <3>2. Rest(items)[0] = RestStep(items, Rest(items), 0)
      BY <3>1, RestRule
    <3> QED BY <3>2 DEF RestStep
  <2>2. <<>> \in Seq(Items) /\ On(<<>>) = {}
    BY DEF On
  <2>3. {list[j] : j \in 1 .. 0} = {}
    OBVIOUS
  <2>4. P(0)
    <3> HIDE DEF F
    <3> QED BY <2>1, <2>2, <2>3
  <2> QED BY <2>4
<1>2. ASSUME NEW k \in Nat, k \in W PROVE k + 1 \in W
  <2> SUFFICES ASSUME k + 1 <= Len(list) PROVE P(k + 1)
    OBVIOUS
  <2>1. P(k) /\ k + 1 \in 0 .. Len(list) /\ k + 1 # 0 /\ (k + 1) - 1 = k /\ k + 1 \in DOMAIN list
    BY <1>0, <1>2
  <2>2. F(k + 1) = IF list[k + 1] \in items THEN F(k) ELSE Append(F(k), list[k + 1])
    BY <2>1, RestRule DEF RestStep
  <2>3. {list[j] : j \in 1 .. k + 1} = {list[j] : j \in 1 .. k} \cup {list[k + 1]}
    <3>1. 1 .. k + 1 = (1 .. k) \cup {k + 1}
      OBVIOUS
    <3> QED BY <3>1
  <2>4. list[k + 1] \in Items
    BY <1>0, <2>1
  <2> HIDE DEF F
  <2>5. CASE list[k + 1] \in items
    BY <2>1, <2>2, <2>3, <2>5
  <2>6. CASE list[k + 1] \notin items
    <3>1. F(k + 1) \in Seq(Items) /\ On(F(k + 1)) = On(F(k)) \cup {list[k + 1]}
      BY <2>1, <2>2, <2>4, <2>6, AppendOn
    <3> QED BY <2>1, <2>3, <2>6, <3>1
  <2> QED BY <2>5, <2>6
<1> HIDE DEF W
<1>3. Len(list) \in W
  BY <1>0, <1>1, <1>2, NatInductionSet
<1>4. P(Len(list))
  BY <1>0, <1>3 DEF W
<1>5. {list[j] : j \in 1 .. Len(list)} = On(list)
  BY <1>0 DEF On
<1> QED BY <1>4, <1>5, WithoutUnfold

-----------------------------------------------------------------------------
(* The shape of the state                                                  *)

LEMMA InitShape == Init => TypeOK /\ CallsOK
<1> SUFFICES ASSUME Init PROVE TypeOK /\ CallsOK
  OBVIOUS
<1>0. <<>> \in Seq(Items) /\ On(<<>>) = {}
  BY DEF On
<1>1. On(list) = {} /\ list \in Seq(Items)
  BY <1>0 DEF Init
<1>2. /\ pc \in [Calls -> {"idle", "lock", "load", "archive", "save", "after", "put", "estimate"}]
      /\ who \in [Calls -> Users \cup {None}] /\ copy \in [Calls -> Seq(Items)]
      /\ marks \in [Calls -> SUBSET Items] /\ batch \in [Calls -> SUBSET Items]
  BY <1>0 DEF Init
<1>5. /\ name \in [Items -> Names \cup {None}] /\ pending \in [Users -> SUBSET Items]
      /\ history \in [Items -> Nat] /\ pantry \in [Items -> Nat]
  BY DEF Init
<1>6. used \in 0 .. MaxItems /\ faults \in 0 .. MaxFaults
  BY GroceriesAssumption DEF Init
<1>4. TypeOK
  <2> HIDE DEF Items
  <2> QED BY <1>1, <1>2, <1>5, <1>6 DEF Init, TypeOK
<1>3. CallsOK
  BY GroceriesAssumption DEF Init, CallsOK, Working, Nothing, Removing
<1> QED BY <1>3, <1>4

(* The parts of TypeOK and of CallsOK that a call outside the lock         *)
(* disturbs.                                                               *)
LEMMA ShapeOfCalls ==
    ASSUME TypeOK, CallsOK, NEW c \in Calls,
           \/ Lock(c) \/ LoadNothing(c) \/ AfterClear(c) \/ SetPending(c) \/ ClearAskFails(c)
           \/ AfterPrompt(c) \/ ToPantry(c) \/ ToPantryFails(c)
           \/ \E u \in Users : PressAll(c, u) \/ \E t \in Requests : Ask(c, u, t)
    PROVE  TypeOK' /\ CallsOK'
<1>0. \A s, t : s = t => On(s) = On(t)
  OBVIOUS
<1>1. CASE Lock(c)
  BY <1>0, <1>1, GroceriesAssumption
  DEF TypeOK, CallsOK, Working, Removing, Lock, Goto, Local, diskVars, memVars, ghosts
<1>2. CASE LoadNothing(c)
  BY <1>0, <1>2, GroceriesAssumption
  DEF TypeOK, CallsOK, Working, Removing, LoadNothing, Over, Nothing, Goto, Local, diskVars,
      memVars, ghosts
<1>3. CASE AfterClear(c)
  <2>1. who[c] \in Users /\ timer' \in Users \cup {None}
    BY <1>3 DEF CallsOK, AfterClear, FollowUp
  <2>2. /\ pc[c] = "after"
        /\ UNCHANGED <<diskVars, pending, name, followed, lock, used, faults, ghosts>>
    BY <1>3 DEF AfterClear
  <2>3. CASE batch[c] = {}
    <3>1. Over(c) /\ asked' = asked
      BY <1>3, <2>3 DEF AfterClear
    <3> QED
      BY <1>0, <2>1, <2>2, <3>1, GroceriesAssumption
      DEF TypeOK, CallsOK, Working, Removing, Over, Nothing, Goto, diskVars, ghosts
  <2>4. CASE batch[c] # {}
    <3>1. Goto(c, "put") /\ asked' = asked \cup {who[c]} /\ UNCHANGED Local
      BY <1>3, <2>4 DEF AfterClear
    <3> QED
      BY <1>0, <2>1, <2>2, <3>1, GroceriesAssumption
      DEF TypeOK, CallsOK, Working, Removing, Goto, Local, diskVars, ghosts
  <2> QED BY <2>3, <2>4
<1>4. CASE SetPending(c)
  BY <1>0, <1>4, GroceriesAssumption
  DEF TypeOK, CallsOK, Working, Removing, SetPending, PutAside, Over, Nothing, Goto, Local,
      diskVars, memVars, ghosts
<1>5. CASE ClearAskFails(c)
  BY <1>0, <1>5, GroceriesAssumption
  DEF TypeOK, CallsOK, Working, Removing, ClearAskFails, FollowUp, Fault, Over, Nothing, Goto,
      Local, diskVars, memVars, ghosts
<1>6. CASE AfterPrompt(c)
  BY <1>0, <1>6, GroceriesAssumption
  DEF TypeOK, CallsOK, Working, Removing, AfterPrompt, PutAside, Fault, Over, Nothing, Goto,
      Local, diskVars, memVars, ghosts
<1>7. CASE ToPantry(c)
  BY <1>0, <1>7, GroceriesAssumption
  DEF TypeOK, CallsOK, Working, Removing, ToPantry, Stock, Over, Nothing, Goto, Local, diskVars,
      memVars, ghosts
<1>8. CASE ToPantryFails(c)
  <2>1. pantry' \in [Items -> Nat]
    <3>1. CASE Stock(c)
      BY <3>1 DEF TypeOK, Stock
    <3>2. CASE UNCHANGED pantry
      BY <3>2 DEF TypeOK
    <3> QED BY <1>8, <3>1, <3>2 DEF ToPantryFails
  <2>2. TypeOK'
    BY <1>0, <1>8, <2>1, GroceriesAssumption
    DEF TypeOK, ToPantryFails, Fault, Over, Goto, memVars, ghosts
  <2>3. CallsOK'
    BY <1>8, GroceriesAssumption
    DEF TypeOK, CallsOK, Working, Removing, ToPantryFails, Over, Nothing, Goto
  <2> QED BY <2>2, <2>3
<1>9. CASE \E u \in Users : PressAll(c, u)
  <2>1. PICK u \in Users : PressAll(c, u)
    BY <1>9
  <2>2. pending' \in [Users -> SUBSET Items]
    BY <2>1 DEF TypeOK, PressAll, TakenOut
  <2>3. CASE pending[u] = {}
    BY <1>0, <2>1, <2>2, <2>3
    DEF TypeOK, CallsOK, Working, Removing, PressAll, diskVars, ghosts
  <2>4. CASE pending[u] # {}
    <3>1. /\ pc[c] = "idle" /\ Goto(c, "estimate") /\ who' = [who EXCEPT ![c] = u]
          /\ batch' = [batch EXCEPT ![c] = pending[u]]
          /\ UNCHANGED <<diskVars, timer, name, asked, followed, lock, task, copy, marks, used,
                         faults, ghosts>>
      BY <2>1, <2>4 DEF PressAll
    <3> QED
      BY <1>0, <2>2, <3>1, GroceriesAssumption
      DEF TypeOK, CallsOK, Working, Removing, Goto, diskVars, ghosts
  <2> QED BY <2>3, <2>4
<1>10. CASE \E u \in Users : \E t \in Requests : Ask(c, u, t)
  BY <1>0, <1>10, GroceriesAssumption
  DEF TypeOK, CallsOK, Working, Removing, Requests, Ask, Goto, Local, diskVars, memVars, ghosts
<1> QED BY <1>1, <1>2, <1>3, <1>4, <1>5, <1>6, <1>7, <1>8, <1>9, <1>10

LEMMA ShapeOfRest ==
    ASSUME TypeOK, CallsOK, TimerFires \/ Crash \/ \E u \in Users : PressSkip(u) \/ Lapse(u)
    PROVE  TypeOK' /\ CallsOK'
<1>0. \A s, t : s = t => On(s) = On(t)
  OBVIOUS
<1>1. CASE TimerFires
  BY <1>0, <1>1, GroceriesAssumption
  DEF TypeOK, CallsOK, Working, Removing, TimerFires, Local, diskVars, memVars, ghosts
<1>2. CASE Crash
  BY <1>0, <1>2, GroceriesAssumption
  DEF TypeOK, CallsOK, Working, Removing, Crash, Fault, Nothing, Local, diskVars, memVars, ghosts
<1>3. CASE \E u \in Users : PressSkip(u) \/ Lapse(u)
  <2>1. pending' \in [Users -> SUBSET Items]
    BY <1>3 DEF TypeOK, PressSkip, TakenOut, Lapse
  <2> QED
    BY <1>0, <1>3, <2>1 DEF TypeOK, CallsOK, Working, PressSkip, Lapse, Local, diskVars, ghosts
<1> QED BY <1>1, <1>2, <1>3

(* Those of a call under the lock.                                         *)
LEMMA ShapeOfLocked ==
    ASSUME TypeOK, CallsOK, CopyOK, NEW c \in Calls,
           LoadAdd(c) \/ LoadToggle(c) \/ LoadClear(c) \/ Archive(c) \/ Save(c) \/ LockedFails(c)
    PROVE  TypeOK' /\ CallsOK'
<1>0. \A s, t : s = t => On(s) = On(t)
  OBVIOUS
<1>1. CASE LoadAdd(c)
  <2>1. used \in 0 .. MaxItems - 1 => list \o <<used + 1>> \in Seq(Items) /\ used + 1 \in Items
    BY GroceriesAssumption DEF TypeOK, Items
  <2>2. /\ ticked \subseteq Items
        /\ used < MaxItems => used \in 0 .. MaxItems - 1 /\ used + 1 \in 0 .. MaxItems
    BY GroceriesAssumption DEF TypeOK, On
  <2>3. /\ copy' \in [Calls -> Seq(Items)] /\ marks' \in [Calls -> SUBSET Items]
        /\ used' \in 0 .. MaxItems /\ name' \in [Items -> Names \cup {None}]
    <3>1. task[c].name \in Names
      BY <1>1 DEF LoadAdd, CallsOK
    <3>2. copy' \in [Calls -> Seq(Items)] /\ marks' \in [Calls -> SUBSET Items]
      <4>0. copy \in [Calls -> Seq(Items)] /\ marks \in [Calls -> SUBSET Items]
            /\ list \in Seq(Items)
        BY DEF TypeOK
      <4>1. CASE Named(task[c].name) # {}
        <5>1. /\ copy' = [copy EXCEPT ![c] = list]
              /\ marks' = [marks EXCEPT ![c] = ticked \ Named(task[c].name)]
          BY <1>1, <4>1 DEF LoadAdd
        <5> QED BY <2>2, <4>0, <5>1
      <4>2. CASE Named(task[c].name) = {}
        <5>1. /\ copy' = [copy EXCEPT ![c] = list \o <<used + 1>>] /\ used < MaxItems
              /\ marks' = [marks EXCEPT ![c] = ticked]
          BY <1>1, <4>2 DEF LoadAdd, AtTheEnd
        <5>2. list \o <<used + 1>> \in Seq(Items)
          BY <2>1, <2>2, <5>1
        <5> QED BY <2>2, <4>0, <5>1, <5>2
      <4> QED BY <4>1, <4>2
    <3>3. used' \in 0 .. MaxItems /\ name' \in [Items -> Names \cup {None}]
      BY <1>1, <2>1, <2>2, <3>1 DEF LoadAdd, TypeOK
    <3> QED BY <3>2, <3>3
  <2>4. TypeOK'
    BY <1>0, <1>1, <2>3 DEF TypeOK, LoadAdd, Goto, diskVars, memVars, ghosts
  <2>5. CallsOK'
    BY <1>1, GroceriesAssumption DEF TypeOK, CallsOK, Working, Removing, LoadAdd, Goto
  <2> QED BY <2>4, <2>5
<1>2. CASE LoadToggle(c)
  <2>1. ticked \subseteq Items /\ (task[c].at \in DOMAIN list => list[task[c].at] \in Items)
    BY DEF TypeOK, On
  <2> QED
    BY <1>0, <1>2, <2>1, GroceriesAssumption
    DEF TypeOK, CallsOK, Working, Removing, LoadToggle, Goto, Local, diskVars, memVars, ghosts
<1>3. CASE LoadClear(c)
  <2>1. ticked \subseteq Items /\ On(list) \subseteq Items
    BY DEF TypeOK, On
  <2>2. Taken(c) \subseteq Items
    BY <2>1 DEF Taken
  <2>3. Left(c) \in Seq(Items)
    BY WithoutOn DEF Left, TypeOK
  <2> QED
    BY <1>0, <1>3, <2>2, <2>3, GroceriesAssumption
    DEF TypeOK, CallsOK, Working, Removing, LoadClear, Goto, Local, diskVars, memVars, ghosts
<1>4. CASE Archive(c)
  BY <1>0, <1>4, GroceriesAssumption
  DEF TypeOK, CallsOK, Working, Removing, Archive, Recorded, Goto, Local, diskVars, memVars,
      ghosts
<1>5. pc[c] = "save" => marks[c] \subseteq On(copy[c]) /\ On(copy[c]) \subseteq Items
  BY DEF CopyOK, CopyRight, On, TypeOK
<1>6. CASE Save(c)
  <2>1. ticked \subseteq Items
    BY DEF TypeOK, On
  <2>2. /\ list' = copy[c] /\ ticked' = marks[c] /\ marks[c] \subseteq On(copy[c])
        /\ saved' \cup dropped' \subseteq Items
    <3>1. saved \cup dropped \subseteq Items
      BY DEF TypeOK
    <3> QED BY <1>5, <1>6, <2>1, <3>1 DEF Save, Written
  <2>3. /\ pc[c] = "save" /\ lock' = None /\ lock = c
        /\ \A d \in Calls : d # c => pc[d] \notin Working
    BY <1>6 DEF Save, CallsOK, Working
  <2>6. UNCHANGED <<history, pantry, memVars, name, asked, followed, used, faults>>
    BY <1>6 DEF Save
  <2>7. list' \in Seq(Items) /\ ticked' \subseteq On(list')
    BY <1>0, <2>2 DEF TypeOK
  <2>4. CASE task[c].kind \in {"clear", "prompt"}
    <3>1. Goto(c, "after") /\ UNCHANGED Local
      BY <1>6, <2>4 DEF Save
    <3>2. TypeOK'
      BY <2>2, <2>3, <2>6, <2>7, <3>1 DEF TypeOK, Goto, Local, memVars
    <3>3. CallsOK'
      BY <2>3, <3>1, GroceriesAssumption DEF TypeOK, CallsOK, Working, Removing, Goto, Local
    <3> QED BY <3>2, <3>3
  <2>5. CASE task[c].kind \notin {"clear", "prompt"}
    <3>1. Over(c)
      BY <1>6, <2>5 DEF Save
    <3>2. TypeOK'
      BY <2>2, <2>3, <2>6, <2>7, <3>1 DEF TypeOK, Over, Goto, memVars
    <3>3. CallsOK'
      BY <2>3, <3>1, GroceriesAssumption
      DEF TypeOK, CallsOK, Working, Removing, Over, Goto, Nothing
    <3> QED BY <3>2, <3>3
  <2> QED BY <2>4, <2>5
<1>7. CASE LockedFails(c)
  <2>1. ticked \subseteq Items
    BY DEF TypeOK, On
  <2>2. /\ list' \in Seq(Items) /\ ticked' \subseteq On(list')
        /\ saved' \cup dropped' \subseteq Items
        /\ history' \in [Items -> Nat] /\ pantry' \in [Items -> Nat]
    BY <1>0, <1>5, <1>7, <2>1 DEF LockedFails, Written, Recorded, TypeOK, diskVars, ghosts
  <2> QED
    BY <1>0, <1>7, <2>2, GroceriesAssumption
    DEF TypeOK, CallsOK, Working, Removing, LockedFails, Fault, Over, Nothing, Goto, Local,
        diskVars, memVars, ghosts
<1> QED BY <1>1, <1>2, <1>3, <1>4, <1>6, <1>7

-----------------------------------------------------------------------------
(* Where the items are                                                     *)

(* How a step of one call leaves the others.                               *)
Same(d) ==
    /\ pc'[d] = pc[d] /\ task'[d] = task[d]
    /\ copy'[d] = copy[d] /\ marks'[d] = marks[d] /\ batch'[d] = batch[d]

Others(c) == \A d \in Calls \ {c} : Same(d)

(* A call that has nothing to save, before or after, and takes no new      *)
(* batch.                                                                  *)
Quiet(d) ==
    /\ pc'[d] \notin {"archive", "save"}
    /\ \/ batch'[d] = {}
       \/ pc[d] \notin {"archive", "save"} /\ batch'[d] = batch[d]

SameLists ==
    /\ list' = list /\ ticked' = ticked /\ history' = history
    /\ saved' = saved /\ dropped' = dropped

(* A batch is dropped, or nothing happens to the items: a save that was    *)
(* about to happen is given up only where something failed.                *)
LEMMA Drop ==
    ASSUME TypeOK, CallsOK, ItemsOK, SameLists, pantry' = pantry, used' = used,
           faults' \in Nat, faults' >= faults,
           \A u \in Users : pending'[u] \subseteq pending[u],
           \A d \in Calls : Same(d) \/ Quiet(d),
           \A d \in Calls : pc[d] = "save" /\ ~Same(d) => faults' >= faults + 1
    PROVE  ItemsOK'
<1>0. /\ \A s, t : s = t => On(s) = On(t)
      /\ \A i \in Items : history[i] \in Nat /\ pantry[i] \in Nat
      /\ faults \in Nat /\ On(list) \subseteq Items
  BY GroceriesAssumption DEF TypeOK, On
<1>1. /\ On(list') = On(list)
      /\ \A d \in Calls : batch'[d] \subseteq batch[d]
      /\ \A i : Fresh(i) => Fresh(i)'
  <2>1. \A d \in Calls : batch'[d] \subseteq batch[d]
    BY DEF Same, Quiet
  <2> QED BY <1>0, <2>1 DEF Fresh, SameLists
<1>2. Unseen'
  BY <1>1 DEF ItemsOK, Unseen
<1>3. CopyOK'
  <2> SUFFICES ASSUME NEW c \in Calls, Same(c), pc[c] \in {"archive", "save"} PROVE CopyRight(c)'
    BY DEF CopyOK, CopyRight, Same, Quiet
  <2>1. CopyRight(c)
    BY DEF ItemsOK, CopyOK
  <2> QED BY <1>0, <1>1, <2>1 DEF CopyRight, Same, SameLists
<1>4. BatchOK'
  BY <1>0, <1>1 DEF ItemsOK, BatchOK, SameLists, Same, Quiet
<1>5. ListOK'
  <2> SUFFICES ASSUME NEW i \in On(list) PROVE Listed(i)'
    BY <1>1 DEF ListOK
  <2>1. Listed(i) /\ history[i] <= 1 + faults /\ i \in Items
    BY <1>0 DEF ItemsOK, ListOK, Listed, Accounted
  <2>2. pantry'[i] = 0 /\ \A u \in Users : i \notin pending'[u]
    BY <2>1 DEF Listed
  <2>3. ASSUME NEW c \in Calls, i \in batch'[c] PROVE pc'[c] \in {"archive", "save"}
    BY <2>1, <2>3 DEF Listed, Same, Quiet
  <2>4. history'[i] <= faults' \/ \E c \in Calls : pc'[c] = "save" /\ i \in batch'[c]
    <3>1. CASE history[i] <= faults
      BY <1>0, <2>1, <3>1 DEF SameLists
    <3>2. CASE \E c \in Calls : pc[c] = "save" /\ i \in batch[c]
      BY <1>0, <2>1, <3>2 DEF SameLists, Same
    <3> QED BY <2>1, <3>1, <3>2 DEF Listed
  <2> QED BY <2>2, <2>3, <2>4 DEF Listed
<1>6. Accounted' /\ PantryOnce'
  <2>1. \A i \in Items : history'[i] <= 1 + faults' /\ pantry'[i] <= 1 /\ pantry'[i] <= history'[i]
    BY <1>0 DEF ItemsOK, Accounted, PantryOnce, SameLists
  <2> QED BY <1>0, <1>1, <2>1 DEF ItemsOK, Accounted, PantryOnce, SameLists
<1> QED BY <1>2, <1>3, <1>4, <1>5, <1>6 DEF ItemsOK

(* A call's batch is put aside for its member.                             *)
LEMMA Aside ==
    ASSUME TypeOK, CallsOK, ItemsOK, SameLists, pantry' = pantry, used' = used,
           faults' \in Nat, faults' >= faults, NEW c \in Calls, NEW u \in Users,
           pc[c] \in {"after", "put"}, pending' = [pending EXCEPT ![u] = batch[c]],
           Others(c), pc'[c] = "idle", batch'[c] = {}
    PROVE  ItemsOK'
<1>0. /\ \A s, t : s = t => On(s) = On(t)
      /\ \A i \in Items : history[i] \in Nat /\ pantry[i] \in Nat
      /\ faults \in Nat /\ On(list) \subseteq Items
  BY GroceriesAssumption DEF TypeOK, On
<1>1. /\ On(list') = On(list)
      /\ \A d \in Calls : batch'[d] = IF d = c THEN {} ELSE batch[d]
      /\ \A v \in Users : pending'[v] = IF v = u THEN batch[c] ELSE pending[v]
  BY <1>0 DEF Others, Same, SameLists, TypeOK
<1>2. \A i : Fresh(i) => Fresh(i)'
  BY <1>1 DEF Fresh, SameLists
<1>3. Unseen'
  BY <1>2 DEF ItemsOK, Unseen
<1>4. CopyOK'
  <2> SUFFICES ASSUME NEW d \in Calls, Same(d), pc[d] \in {"archive", "save"} PROVE CopyRight(d)'
    BY DEF CopyOK, CopyRight, Same, Others
  <2>1. CopyRight(d)
    BY DEF ItemsOK, CopyOK
  <2> QED BY <1>0, <1>1, <1>2, <2>1 DEF CopyRight, Same, SameLists
<1>5. BatchOK'
  BY <1>1 DEF ItemsOK, BatchOK, SameLists, Others, Same
<1>6. ListOK'
  BY <1>0, <1>1 DEF ItemsOK, ListOK, Listed, SameLists, Others, Same
<1>7. Accounted' /\ PantryOnce'
  BY <1>0, <1>1 DEF ItemsOK, Accounted, PantryOnce, SameLists
<1> QED BY <1>3, <1>4, <1>5, <1>6, <1>7 DEF ItemsOK

(* What was put aside is taken out.                                        *)
LEMMA TakeOut ==
    ASSUME TypeOK, CallsOK, ItemsOK, SameLists, pantry' = pantry, used' = used, faults' = faults,
           NEW c \in Calls, NEW u \in Users,
           pc[c] = "idle", pending' = [pending EXCEPT ![u] = {}],
           Others(c), pc'[c] = "estimate", batch'[c] = pending[u]
    PROVE  ItemsOK'
<1>0. /\ \A s, t : s = t => On(s) = On(t)
      /\ On(list) \subseteq Items
  BY DEF TypeOK, On
<1>1. /\ On(list') = On(list) /\ batch[c] = {}
      /\ \A d \in Calls : batch'[d] = IF d = c THEN pending[u] ELSE batch[d]
      /\ \A v \in Users : pending'[v] = IF v = u THEN {} ELSE pending[v]
  BY <1>0 DEF Others, Same, SameLists, TypeOK, CallsOK
<1>2. \A i : Fresh(i) => Fresh(i)'
  BY <1>1 DEF Fresh, SameLists
<1>3. Unseen'
  BY <1>2 DEF ItemsOK, Unseen
<1>4. CopyOK'
  <2> SUFFICES ASSUME NEW d \in Calls, Same(d), pc[d] \in {"archive", "save"} PROVE CopyRight(d)'
    BY DEF CopyOK, CopyRight, Same, Others
  <2>1. CopyRight(d)
    BY DEF ItemsOK, CopyOK
  <2> QED BY <1>0, <1>1, <1>2, <2>1 DEF CopyRight, Same, SameLists
<1>5. BatchOK'
  BY <1>1 DEF ItemsOK, BatchOK, SameLists, Others, Same
<1>6. ListOK'
  BY <1>0, <1>1 DEF ItemsOK, ListOK, Listed, SameLists, Others, Same
<1>7. Accounted' /\ PantryOnce'
  BY <1>0, <1>1 DEF ItemsOK, Accounted, PantryOnce, SameLists
<1> QED BY <1>3, <1>4, <1>5, <1>6, <1>7 DEF ItemsOK

(* A batch goes into the pantry.                                           *)
LEMMA Stocked ==
    ASSUME TypeOK, CallsOK, ItemsOK, SameLists, used' = used, pending' = pending,
           faults' \in Nat, faults' >= faults, NEW c \in Calls,
           pc[c] = "estimate", Stock(c), Others(c), pc'[c] = "idle", batch'[c] = {}
    PROVE  ItemsOK'
<1>0. /\ \A s, t : s = t => On(s) = On(t)
      /\ \A i \in Items : history[i] \in Nat /\ pantry[i] \in Nat
      /\ faults \in Nat /\ On(list) \subseteq Items
      /\ \A u \in Users : pending[u] \subseteq Items
      /\ \A d \in Calls : batch[d] \subseteq Items
  BY GroceriesAssumption DEF TypeOK, On
<1>1. /\ On(list') = On(list)
      /\ \A d \in Calls : batch'[d] = IF d = c THEN {} ELSE batch[d]
      /\ \A i \in Items : pantry'[i] = IF i \in batch[c] THEN pantry[i] + 1 ELSE pantry[i]
  BY <1>0 DEF Others, Same, SameLists, Stock
<1>2. \A i \in Items : Fresh(i) => Fresh(i)'
  BY <1>1 DEF Fresh, SameLists
<1>3. Unseen'
  BY <1>2 DEF ItemsOK, Unseen
<1>4. CopyOK'
  <2> SUFFICES ASSUME NEW d \in Calls, Same(d), pc[d] \in {"archive", "save"} PROVE CopyRight(d)'
    BY DEF CopyOK, CopyRight, Same, Others
  <2>1. CopyRight(d) /\ On(copy[d]) \subseteq Items
    BY DEF ItemsOK, CopyOK, TypeOK, On
  <2> QED BY <1>0, <1>1, <1>2, <2>1 DEF CopyRight, Same, SameLists
<1>5. BatchOK'
  BY <1>0, <1>1 DEF ItemsOK, BatchOK, SameLists, Others, Same
<1>6. ListOK'
  BY <1>0, <1>1 DEF ItemsOK, ListOK, Listed, SameLists, Others, Same
<1>7. Accounted' /\ PantryOnce'
  <2>1. \A i \in batch[c] : pantry[i] = 0 /\ history[i] > 0
    BY DEF ItemsOK, BatchOK
  <2>2. \A i \in Items : pantry'[i] <= 1 /\ pantry'[i] <= history'[i]
    BY <1>0, <1>1, <2>1 DEF ItemsOK, PantryOnce, SameLists
  <2> QED BY <1>0, <1>1, <2>2 DEF ItemsOK, Accounted, PantryOnce, SameLists
<1> QED BY <1>3, <1>4, <1>5, <1>6, <1>7 DEF ItemsOK

LEMMA Alone ==
    ASSUME CallsOK, NEW c \in Calls, pc[c] \in Working
    PROVE  \A d \in Calls : d # c => pc[d] \notin Working
  BY DEF CallsOK

(* A call that adds or ticks is about to save the list with what is new at *)
(* its end.                                                                *)
LEMMA Loaded ==
    ASSUME TypeOK, CallsOK, ItemsOK, SameLists, pantry' = pantry, pending' = pending,
           faults' = faults, used' \in Nat, used' >= used, NEW c \in Calls,
           pc[c] = "load", task[c].kind \notin Removing,
           Others(c), pc'[c] = "save", task'[c] = task[c], batch'[c] = batch[c],
           marks'[c] \subseteq On(copy'[c]),
           \A k \in DOMAIN list : k \in DOMAIN copy'[c] /\ copy'[c][k] = list[k],
           \A i \in On(copy'[c]) : i \in On(list) \/ (i \in Items /\ i > used /\ i <= used')
    PROVE  ItemsOK'
<1>0. /\ \A s, t : s = t => On(s) = On(t)
      /\ On(list) \subseteq Items /\ used \in Nat
  BY GroceriesAssumption DEF TypeOK, On
<1>1. On(list') = On(list) /\ batch[c] = {} /\ \A d \in Calls : batch'[d] = batch[d]
  BY <1>0 DEF Others, Same, SameLists, CallsOK
<1>2. \A i : Fresh(i) => Fresh(i)'
  BY <1>1 DEF Fresh, SameLists
<1>3. Unseen'
  BY <1>0, <1>2, GroceriesAssumption DEF ItemsOK, Unseen, Items
<1>4. CopyOK'
  <2>1. CopyRight(c)'
    <3>1. \A i \in On(copy'[c]) \ On(list) : Fresh(i)' /\ i <= used'
      BY <1>2 DEF ItemsOK, Unseen
    <3> QED BY <1>1, <3>1 DEF CopyRight, SameLists
  <2>2. ASSUME NEW d \in Calls \ {c} PROVE CopyRight(d)'
    <3>1. pc'[d] \notin {"archive", "save"}
      BY Alone DEF Others, Same, Working
    <3> QED BY <3>1 DEF CopyRight
  <2> QED BY <2>1, <2>2 DEF CopyOK
<1>5. BatchOK'
  BY <1>1 DEF ItemsOK, BatchOK, SameLists, Others, Same
<1>6. ListOK'
  BY <1>0, <1>1 DEF ItemsOK, ListOK, Listed, SameLists, Others, Same
<1>7. Accounted' /\ PantryOnce'
  BY <1>0, <1>1 DEF ItemsOK, Accounted, PantryOnce, SameLists
<1> QED BY <1>3, <1>4, <1>5, <1>6, <1>7 DEF ItemsOK

(* A call that clears has in its batch what it leaves out of its copy.     *)
LEMMA Cleared ==
    ASSUME TypeOK, CallsOK, ItemsOK, SameLists, pantry' = pantry, pending' = pending,
           faults' = faults, used' = used, NEW c \in Calls,
           pc[c] = "load", task[c].kind \in Removing,
           Others(c), pc'[c] = "archive", task'[c] = task[c],
           marks'[c] = {}, batch'[c] = Taken(c), On(copy'[c]) = On(Left(c))
    PROVE  ItemsOK'
<1>0. /\ \A s, t : s = t => On(s) = On(t)
      /\ On(list) \subseteq Items /\ ticked \subseteq On(list)
  BY DEF TypeOK, On
<1>1. /\ On(list') = On(list) /\ batch[c] = {} /\ Taken(c) \subseteq On(list)
      /\ \A d \in Calls : batch'[d] = IF d = c THEN Taken(c) ELSE batch[d]
      /\ \A d \in Calls : d # c => pc[d] \notin {"archive", "save"}
      /\ \A d \in Calls : d # c => pc'[d] = pc[d]
  <2>1. \A d \in Calls : d # c => pc[d] \notin {"archive", "save"}
    BY Alone DEF Working
  <2> QED BY <1>0, <2>1 DEF Others, Same, SameLists, CallsOK, Taken
<1>2. \A i \in On(list) : /\ pantry[i] = 0 /\ history[i] <= faults
                          /\ \A u \in Users : i \notin pending[u]
                          /\ \A d \in Calls : i \notin batch[d]
  BY <1>1 DEF ItemsOK, ListOK, Listed
<1>3. \A i : Fresh(i) => Fresh(i)'
  BY <1>1 DEF Fresh, SameLists
<1>4. Unseen'
  BY <1>3 DEF ItemsOK, Unseen
<1>5. CopyOK'
  <2>1. CopyRight(c)'
    <3>1. CASE task[c].kind = "remaining"
      <4>1. On(copy'[c]) = {} /\ Taken(c) = On(list) \ ticked
        <5>1. On(<<>>) = {}
          BY DEF On
        <5> QED BY <3>1, <5>1 DEF Taken, Left
      <4> QED BY <1>0, <1>1, <3>1, <4>1 DEF CopyRight, SameLists
    <3>2. CASE task[c].kind # "remaining"
      <4>1. On(copy'[c]) = On(list) \ ticked /\ Taken(c) = ticked
        BY <3>2, WithoutOn DEF Taken, Left, TypeOK
      <4> QED BY <1>0, <1>1, <3>2, <4>1 DEF CopyRight, SameLists
    <3> QED BY <3>1, <3>2
  <2>2. ASSUME NEW d \in Calls \ {c} PROVE CopyRight(d)'
    BY <1>1 DEF CopyRight
  <2> QED BY <2>1, <2>2 DEF CopyOK
<1>6. BatchOK'
  BY <1>1, <1>2 DEF ItemsOK, BatchOK, SameLists
<1>7. ListOK'
  BY <1>0, <1>1, <1>2 DEF ListOK, Listed, SameLists
<1>8. Accounted' /\ PantryOnce'
  BY <1>0, <1>1 DEF ItemsOK, Accounted, PantryOnce, SameLists
<1> QED BY <1>4, <1>5, <1>6, <1>7, <1>8 DEF ItemsOK

(* The history is written; the call goes on to save, or it fails.          *)
LEMMA Archived ==
    ASSUME TypeOK, CallsOK, ItemsOK, pantry' = pantry, pending' = pending, used' = used,
           UNCHANGED <<list, ticked, ghosts>>, NEW c \in Calls, pc[c] = "archive",
           history' = Recorded(batch[c]), Others(c),
           \/ /\ pc'[c] = "save" /\ faults' = faults
              /\ task'[c] = task[c] /\ copy'[c] = copy[c] /\ marks'[c] = marks[c]
              /\ batch'[c] = batch[c]
           \/ pc'[c] = "idle" /\ batch'[c] = {} /\ faults' = faults + 1
    PROVE  ItemsOK'
<1>0. /\ \A s, t : s = t => On(s) = On(t)
      /\ \A i \in Items : history[i] \in Nat
      /\ On(list) \subseteq Items /\ faults \in Nat
      /\ \A u \in Users : pending[u] \subseteq Items
      /\ \A d \in Calls : batch[d] \subseteq Items
  BY GroceriesAssumption DEF TypeOK, On
<1>1. /\ On(list') = On(list)
      /\ task[c].kind \in Removing /\ batch[c] \subseteq On(list)
      /\ \A d \in Calls : batch'[d] \subseteq batch[d]
      /\ \A d \in Calls : d # c => /\ pc[d] \notin {"archive", "save"}
                                   /\ pc'[d] = pc[d] /\ batch'[d] = batch[d]
  <2>1. \A d \in Calls : d # c => pc[d] \notin {"archive", "save"}
    BY Alone DEF Working
  <2>2. task[c].kind \in Removing /\ batch[c] \subseteq On(list)
    BY DEF CallsOK, ItemsOK, CopyOK, CopyRight
  <2> QED BY <1>0, <2>1, <2>2 DEF Others, Same
<1>2. \A i \in Items : history'[i] = IF i \in batch[c] THEN history[i] + 1 ELSE history[i]
  BY DEF Recorded
<1>3. \A i \in On(list) : /\ pantry[i] = 0 /\ history[i] <= faults
                          /\ \A u \in Users : i \notin pending[u]
                          /\ \A d \in Calls : d # c => i \notin batch[d]
  BY <1>1 DEF ItemsOK, ListOK, Listed
<1>4. \A i \in Items : Fresh(i) => Fresh(i)'
  BY <1>1, <1>2 DEF Fresh, ghosts
<1>5. Unseen'
  BY <1>4 DEF ItemsOK, Unseen
<1>6. CopyOK'
  <2>1. CopyRight(c)'
    BY <1>0, <1>1 DEF ItemsOK, CopyOK, CopyRight
  <2>2. ASSUME NEW d \in Calls \ {c} PROVE CopyRight(d)'
    BY <1>1 DEF CopyRight
  <2> QED BY <2>1, <2>2 DEF CopyOK
<1>7. BatchOK'
  BY <1>0, <1>1, <1>2 DEF ItemsOK, BatchOK
<1>8. ListOK'
  <2> SUFFICES ASSUME NEW i \in On(list) PROVE Listed(i)'
    BY <1>1 DEF ListOK
  <2>1. history'[i] <= faults' \/ \E d \in Calls : pc'[d] = "save" /\ i \in batch'[d]
    BY <1>0, <1>2, <1>3
  <2>2. \A d \in Calls : i \in batch'[d] => pc'[d] \in {"archive", "save"}
    BY <1>1, <1>3
  <2> QED BY <1>3, <2>1, <2>2 DEF Listed
<1>9. Accounted' /\ PantryOnce'
  <2>1. \A i \in Items : /\ history'[i] <= 1 + faults' /\ pantry'[i] <= 1
                         /\ pantry'[i] <= history'[i]
                         /\ history[i] > 0 => history'[i] > 0
    <3>1. \A i \in batch[c] : pantry[i] = 0 /\ history[i] <= faults
      BY <1>1, <1>3
    <3> QED BY <1>0, <1>2, <3>1 DEF ItemsOK, Accounted, PantryOnce
  <2>2. saved' = saved /\ dropped' = dropped /\ saved \subseteq Items
    BY DEF ghosts, TypeOK
  <2> QED BY <1>1, <2>1, <2>2 DEF ItemsOK, Accounted, PantryOnce
<1> QED BY <1>5, <1>6, <1>7, <1>8, <1>9 DEF ItemsOK

(* The list is saved, with the new items or without those taken off.       *)
LEMMA Saved ==
    ASSUME TypeOK, CallsOK, ItemsOK, history' = history, pantry' = pantry, pending' = pending,
           used' = used, NEW c \in Calls, pc[c] = "save", Written(c), Others(c),
           faults' \in Nat, faults' >= faults, pc'[c] \in {"after", "idle"},
           batch'[c] \in {{}, batch[c]}
    PROVE  ItemsOK'
<1>0. /\ \A s, t : s = t => On(s) = On(t)
      /\ \A i \in Items : history[i] \in Nat
      /\ On(list) \subseteq Items /\ On(copy[c]) \subseteq Items /\ faults \in Nat
  BY GroceriesAssumption DEF TypeOK, On
<1>1. /\ On(list') = On(copy[c]) /\ saved' = saved \cup On(copy[c])
      /\ \A d \in Calls : batch'[d] \subseteq batch[d]
      /\ \A d \in Calls : d # c => /\ pc[d] \notin {"archive", "save"}
                                   /\ pc'[d] = pc[d] /\ batch'[d] = batch[d]
  <2>1. \A d \in Calls : d # c => pc[d] \notin {"archive", "save"}
    BY Alone DEF Working
  <2> QED BY <1>0, <2>1 DEF Others, Same, Written
(* What is on the new list was on the old one, or nobody has seen it.      *)
<1>2. \A i \in On(copy[c]) : i \notin batch[c] /\ (i \in On(list) \/ Fresh(i))
  BY DEF ItemsOK, CopyOK, CopyRight
<1>3. \A i \in On(copy[c]) : /\ pantry[i] = 0 /\ history[i] <= faults
                             /\ \A u \in Users : i \notin pending[u]
                             /\ \A d \in Calls : i \notin batch[d]
  <2> SUFFICES ASSUME NEW i \in On(copy[c])
               PROVE  /\ pantry[i] = 0 /\ history[i] <= faults
                      /\ \A u \in Users : i \notin pending[u]
                      /\ \A d \in Calls : i \notin batch[d]
    OBVIOUS
  <2>1. CASE Fresh(i)
    BY <1>0, <2>1 DEF Fresh
  <2>2. CASE i \in On(list)
    <3>1. Listed(i) /\ i \notin batch[c]
      BY <1>2, <2>2 DEF ItemsOK, ListOK
    <3> QED BY <1>1, <3>1 DEF Listed
  <2> QED BY <1>2, <2>1, <2>2
(* What was on the old one is on the new one, recorded, or dropped.        *)
<1>4. \A i \in On(list) : i \in On(copy[c]) \/ history[i] > 0 \/ i \in dropped'
  <2>1. CASE task[c].kind \notin Removing
    <3>1. \A k \in DOMAIN list : k \in DOMAIN copy[c] /\ copy[c][k] = list[k]
      BY <2>1 DEF ItemsOK, CopyOK, CopyRight
    <3> QED BY <3>1 DEF On
  <2>2. CASE task[c].kind \in Removing
    <3>1. \A i \in batch[c] : history[i] > 0
      BY DEF ItemsOK, BatchOK
    <3>2. On(list) \subseteq On(copy[c]) \cup batch[c]
                            \cup (IF task[c].kind = "remaining" THEN ticked ELSE {})
      BY <2>2 DEF ItemsOK, CopyOK, CopyRight
    <3> QED BY <3>1, <3>2 DEF Written
  <2> QED BY <2>1, <2>2
<1>5. Unseen'
  <2> SUFFICES ASSUME NEW i \in Items, i > used PROVE Fresh(i)'
    BY DEF Unseen
  <2>1. Fresh(i)
    BY DEF ItemsOK, Unseen
  <2>2. i \notin On(copy[c])
    <3>1. i \notin On(list) /\ ~(i <= used)
      BY <2>1, GroceriesAssumption DEF Fresh, TypeOK, Items
    <3> QED BY <3>1 DEF ItemsOK, CopyOK, CopyRight
  <2> QED BY <1>1, <2>1, <2>2 DEF Fresh
<1>6. CopyOK'
  BY <1>1 DEF CopyOK, CopyRight
<1>7. BatchOK'
  BY <1>1 DEF ItemsOK, BatchOK
<1>8. ListOK'
  BY <1>0, <1>1, <1>3 DEF ListOK, Listed
<1>9. Accounted' /\ PantryOnce'
  <2>1. dropped \subseteq dropped'
    BY DEF Written
  <2> QED BY <1>0, <1>1, <1>4, <2>1 DEF ItemsOK, Accounted, PantryOnce
<1> QED BY <1>5, <1>6, <1>7, <1>8, <1>9 DEF ItemsOK

-----------------------------------------------------------------------------
(* The steps                                                               *)

LEMMA OverIt ==
    ASSUME TypeOK, CallsOK, NEW c \in Calls, Over(c)
    PROVE  Others(c) /\ pc'[c] = "idle" /\ batch'[c] = {}
  BY DEF Over, Goto, Others, Same, TypeOK, CallsOK

LEMMA GoOn ==
    ASSUME TypeOK, CallsOK, NEW c \in Calls, NEW place, Goto(c, place), UNCHANGED Local
    PROVE  /\ Others(c) /\ pc'[c] = place /\ task'[c] = task[c] /\ copy'[c] = copy[c]
           /\ marks'[c] = marks[c] /\ batch'[c] = batch[c]
  BY DEF Goto, Others, Same, TypeOK, CallsOK, Local

(* What moves no item.                                                     *)
LEMMA StepDrops ==
    ASSUME IInv, NEW c \in Calls,
           \/ Lock(c) \/ LoadNothing(c) \/ AfterClear(c) \/ ClearAskFails(c)
           \/ \E u \in Users : \E t \in Requests : Ask(c, u, t)
    PROVE  ItemsOK'
<1>0. TypeOK /\ CallsOK /\ ItemsOK /\ faults \in Nat
  BY GroceriesAssumption DEF IInv, TypeOK
<1>1. CASE Lock(c)
  <2>1. /\ Goto(c, "load") /\ UNCHANGED Local /\ pc[c] = "lock" /\ SameLists /\ pantry' = pantry
        /\ used' = used /\ faults' = faults /\ pending' = pending
    BY <1>1 DEF Lock, SameLists, diskVars, memVars, ghosts
  <2>2. \A d \in Calls : (Same(d) \/ Quiet(d)) /\ (pc[d] = "save" => Same(d))
    BY <1>0, <2>1, GoOn DEF Others, Quiet
  <2> QED BY <1>0, <2>1, <2>2, Drop
<1>2. CASE LoadNothing(c)
  <2>1. /\ Over(c) /\ pc[c] = "load" /\ SameLists /\ pantry' = pantry
        /\ used' = used /\ faults' = faults /\ pending' = pending
    BY <1>2 DEF LoadNothing, SameLists, diskVars, memVars, ghosts
  <2>2. \A d \in Calls : (Same(d) \/ Quiet(d)) /\ (pc[d] = "save" => Same(d))
    BY <1>0, <2>1, OverIt DEF Others, Quiet
  <2> QED BY <1>0, <2>1, <2>2, Drop
<1>3. CASE AfterClear(c)
  <2>1. /\ pc[c] = "after" /\ SameLists /\ pantry' = pantry
        /\ used' = used /\ faults' = faults /\ pending' = pending
        /\ Over(c) \/ (Goto(c, "put") /\ UNCHANGED Local)
    BY <1>3 DEF AfterClear, SameLists, diskVars, ghosts
  <2>2. \A d \in Calls : (Same(d) \/ Quiet(d)) /\ (pc[d] = "save" => Same(d))
    BY <1>0, <2>1, OverIt, GoOn DEF Others, Quiet
  <2> QED BY <1>0, <2>1, <2>2, Drop
<1>4. CASE ClearAskFails(c)
  <2>1. /\ Over(c) /\ pc[c] = "after" /\ SameLists /\ pantry' = pantry
        /\ used' = used /\ faults' = faults + 1 /\ pending' = pending
    BY <1>4 DEF ClearAskFails, Fault, SameLists, diskVars, ghosts
  <2>2. \A d \in Calls : (Same(d) \/ Quiet(d)) /\ (pc[d] = "save" => Same(d))
    BY <1>0, <2>1, OverIt DEF Others, Quiet
  <2>3. faults' \in Nat /\ faults' >= faults
    BY <1>0, <2>1
  <2> QED BY <1>0, <2>1, <2>2, <2>3, Drop
<1>5. CASE \E u \in Users : \E t \in Requests : Ask(c, u, t)
  <2>1. /\ Goto(c, "lock") /\ pc[c] = "idle" /\ SameLists /\ pantry' = pantry
        /\ used' = used /\ faults' = faults /\ pending' = pending
        /\ UNCHANGED <<copy, marks, batch>> /\ \E t : task' = [task EXCEPT ![c] = t]
    BY <1>5 DEF Ask, SameLists, diskVars, memVars, ghosts
  <2>2. \A d \in Calls : (Same(d) \/ Quiet(d)) /\ (pc[d] = "save" => Same(d))
    BY <1>0, <2>1 DEF Same, Quiet, Goto, TypeOK, CallsOK
  <2> QED BY <1>0, <2>1, <2>2, Drop
<1> QED BY <1>1, <1>2, <1>3, <1>4, <1>5

(* Batches on their way to the pantry.                                     *)
LEMMA StepBatches ==
    ASSUME IInv, NEW c \in Calls,
           \/ SetPending(c) \/ AfterPrompt(c) \/ ToPantry(c) \/ ToPantryFails(c)
           \/ \E u \in Users : PressAll(c, u)
    PROVE  ItemsOK'
<1>0. TypeOK /\ CallsOK /\ ItemsOK /\ faults \in Nat
  BY GroceriesAssumption DEF IInv, TypeOK
<1>1. CASE SetPending(c)
  <2>1. /\ Over(c) /\ pc[c] = "put" /\ SameLists /\ pantry' = pantry
        /\ used' = used /\ faults' = faults /\ pending' = [pending EXCEPT ![who[c]] = batch[c]]
    BY <1>1 DEF SetPending, PutAside, SameLists, diskVars, ghosts
  <2>2. who[c] \in Users /\ faults' \in Nat /\ faults' >= faults
    BY <1>0, <2>1 DEF CallsOK
  <2> QED BY <1>0, <2>1, <2>2, OverIt, Aside
<1>2. CASE AfterPrompt(c)
  <2>1. /\ Over(c) /\ pc[c] = "after" /\ SameLists /\ pantry' = pantry
        /\ used' = used /\ faults' \in {faults, faults + 1}
        /\ pending' = [pending EXCEPT ![who[c]] = batch[c]]
    BY <1>2 DEF AfterPrompt, Fault, PutAside, SameLists, diskVars, ghosts
  <2>2. who[c] \in Users /\ faults' \in Nat /\ faults' >= faults
    BY <1>0, <2>1 DEF CallsOK
  <2> QED BY <1>0, <2>1, <2>2, OverIt, Aside
<1>3. CASE ToPantry(c)
  <2>1. /\ Over(c) /\ pc[c] = "estimate" /\ Stock(c) /\ SameLists
        /\ used' = used /\ faults' = faults /\ pending' = pending
    BY <1>3 DEF ToPantry, SameLists, memVars, ghosts
  <2> QED BY <1>0, <2>1, OverIt, Stocked
<1>4. CASE ToPantryFails(c)
  <2>1. /\ Over(c) /\ pc[c] = "estimate" /\ (Stock(c) \/ UNCHANGED pantry)
        /\ SameLists /\ used' = used /\ faults' = faults + 1 /\ pending' = pending
    BY <1>4 DEF ToPantryFails, Fault, SameLists, memVars, ghosts
  <2>2. faults' \in Nat /\ faults' >= faults
    BY <1>0, <2>1
  <2>3. CASE Stock(c)
    BY <1>0, <2>1, <2>2, <2>3, OverIt, Stocked
  <2>4. CASE UNCHANGED pantry
    <3>1. \A d \in Calls : (Same(d) \/ Quiet(d)) /\ (pc[d] = "save" => Same(d))
      BY <1>0, <2>1, OverIt DEF Others, Quiet
    <3> QED BY <1>0, <2>1, <2>2, <2>4, <3>1, Drop
  <2> QED BY <2>1, <2>3, <2>4
<1>5. ASSUME NEW u \in Users, PressAll(c, u) PROVE ItemsOK'
  <2>1. /\ pc[c] = "idle" /\ SameLists /\ pantry' = pantry /\ used' = used /\ faults' = faults
        /\ pending' = [pending EXCEPT ![u] = {}]
    BY <1>5 DEF PressAll, TakenOut, SameLists, diskVars, ghosts
  <2>2. CASE pending[u] = {}
    <3>1. \A d \in Calls : Same(d)
      BY <1>5, <2>2 DEF PressAll, Same
    <3>2. \A v \in Users : pending'[v] \subseteq pending[v]
      BY <1>0, <2>1 DEF TypeOK
    <3> QED BY <1>0, <2>1, <3>1, <3>2, Drop
  <2>3. CASE pending[u] # {}
    <3>1. /\ Goto(c, "estimate") /\ batch' = [batch EXCEPT ![c] = pending[u]]
          /\ UNCHANGED <<task, copy, marks>>
      BY <1>5, <2>3 DEF PressAll
    <3>2. Others(c) /\ pc'[c] = "estimate" /\ batch'[c] = pending[u]
      BY <1>0, <3>1 DEF Goto, Others, Same, TypeOK
    <3> QED BY <1>0, <2>1, <3>2, TakeOut
  <2> QED BY <2>2, <2>3
<1> QED BY <1>1, <1>2, <1>3, <1>4, <1>5

(* A call under the lock.                                                  *)
LEMMA StepLocked ==
    ASSUME IInv, NEW c \in Calls,
           \/ LoadAdd(c) \/ LoadToggle(c) \/ LoadClear(c) \/ Archive(c) \/ Save(c)
           \/ LockedFails(c)
    PROVE  ItemsOK'
<1>0. /\ TypeOK /\ CallsOK /\ ItemsOK /\ faults \in Nat
      /\ list \in Seq(Items) /\ ticked \subseteq On(list) /\ used \in Nat
  BY GroceriesAssumption DEF IInv, TypeOK
<1>1. CASE LoadAdd(c)
  <2>1. /\ pc[c] = "load" /\ task[c].kind = "add" /\ Goto(c, "save") /\ SameLists
        /\ pantry' = pantry /\ pending' = pending /\ faults' = faults
        /\ UNCHANGED <<task, batch>>
    BY <1>1 DEF LoadAdd, SameLists, diskVars, memVars, ghosts
  <2>2. task[c].kind \notin Removing
    BY <2>1 DEF Removing
  <2>3. CASE Named(task[c].name) # {}
    <3>1. /\ copy' = [copy EXCEPT ![c] = list] /\ used' = used
          /\ marks' = [marks EXCEPT ![c] = ticked \ Named(task[c].name)]
      BY <1>1, <2>3 DEF LoadAdd
    <3>2. /\ Others(c) /\ pc'[c] = "save" /\ task'[c] = task[c] /\ batch'[c] = batch[c]
          /\ copy'[c] = list /\ marks'[c] \subseteq ticked
      BY <1>0, <2>1, <3>1 DEF Goto, Others, Same, TypeOK, CallsOK
    <3> QED BY <1>0, <2>1, <2>2, <3>1, <3>2, Loaded
  <2>4. CASE Named(task[c].name) = {}
    <3>1. /\ copy' = [copy EXCEPT ![c] = AtTheEnd(c, used + 1)] /\ used < MaxItems
          /\ used' = used + 1 /\ marks' = [marks EXCEPT ![c] = ticked]
      BY <1>1, <2>4 DEF LoadAdd
    <3>2. /\ Others(c) /\ pc'[c] = "save" /\ task'[c] = task[c] /\ batch'[c] = batch[c]
          /\ copy'[c] = AtTheEnd(c, used + 1) /\ marks'[c] = ticked
      BY <1>0, <2>1, <3>1 DEF Goto, Others, Same, TypeOK, CallsOK
    <3>3. used + 1 \in Items /\ used + 1 > used /\ used' >= used /\ used' \in Nat
      BY <1>0, <3>1, GroceriesAssumption DEF Items
    <3>4. /\ On(AtTheEnd(c, used + 1)) = On(list) \cup {used + 1}
          /\ \A k \in DOMAIN list : /\ k \in DOMAIN AtTheEnd(c, used + 1)
                                    /\ AtTheEnd(c, used + 1)[k] = list[k]
      <4>1. AtTheEnd(c, used + 1) = Append(list, used + 1)
        BY <1>0, <3>3 DEF AtTheEnd
      <4> QED BY <1>0, <3>3, <4>1, AppendOn
    <3>5. /\ marks'[c] \subseteq On(copy'[c])
          /\ \A i \in On(copy'[c]) : i \in On(list) \/ (i \in Items /\ i > used /\ i <= used')
      BY <1>0, <3>1, <3>2, <3>3, <3>4
    <3> QED BY <1>0, <2>1, <2>2, <3>2, <3>3, <3>4, <3>5, Loaded
  <2> QED BY <2>3, <2>4
<1>2. CASE LoadToggle(c)
  <2>1. /\ pc[c] = "load" /\ task[c].kind = "toggle" /\ task[c].at \in DOMAIN list
        /\ Goto(c, "save") /\ SameLists
        /\ pantry' = pantry /\ pending' = pending /\ faults' = faults /\ used' = used
        /\ UNCHANGED <<task, batch>> /\ copy' = [copy EXCEPT ![c] = list]
    BY <1>2 DEF LoadToggle, SameLists, diskVars, memVars, ghosts
  <2>2. task[c].kind \notin Removing
    BY <2>1 DEF Removing
  <2>3. list[task[c].at] \in On(list)
    BY <2>1 DEF On
  <2>4. /\ \E m : marks' = [marks EXCEPT ![c] = m] /\ m \subseteq On(list)
    BY <1>0, <1>2, <2>3 DEF LoadToggle
  <2>5. /\ Others(c) /\ pc'[c] = "save" /\ task'[c] = task[c] /\ batch'[c] = batch[c]
        /\ copy'[c] = list /\ marks'[c] \subseteq On(list)
    BY <1>0, <2>1, <2>4 DEF Goto, Others, Same, TypeOK, CallsOK
  <2> QED BY <1>0, <2>1, <2>2, <2>5, Loaded
<1>3. CASE LoadClear(c)
  <2>1. /\ pc[c] = "load" /\ task[c].kind \in Removing /\ Goto(c, "archive") /\ SameLists
        /\ pantry' = pantry /\ pending' = pending /\ faults' = faults /\ used' = used
        /\ task' = task /\ batch' = [batch EXCEPT ![c] = Taken(c)]
        /\ copy' = [copy EXCEPT ![c] = Left(c)] /\ marks' = [marks EXCEPT ![c] = {}]
    BY <1>3 DEF LoadClear, SameLists, diskVars, memVars, ghosts
  <2>2. /\ Others(c) /\ pc'[c] = "archive" /\ task'[c] = task[c] /\ batch'[c] = Taken(c)
        /\ copy'[c] = Left(c) /\ marks'[c] = {}
    BY <1>0, <2>1 DEF Goto, Others, Same, TypeOK, CallsOK
  <2> QED BY <1>0, <2>1, <2>2, Cleared
<1>4. CASE Archive(c)
  <2>1. /\ pc[c] = "archive" /\ Goto(c, "save") /\ UNCHANGED Local
        /\ UNCHANGED <<list, ticked, ghosts>> /\ history' = Recorded(batch[c])
        /\ pantry' = pantry /\ pending' = pending /\ faults' = faults /\ used' = used
    BY <1>4 DEF Archive, memVars
  <2> QED BY <1>0, <2>1, GoOn, Archived
<1>5. CASE Save(c)
  <2>1. /\ pc[c] = "save" /\ Written(c)
        /\ Over(c) \/ (Goto(c, "after") /\ UNCHANGED Local)
        /\ history' = history /\ pantry' = pantry /\ pending' = pending /\ used' = used
        /\ faults' = faults
    BY <1>5 DEF Save, memVars
  <2>2. Others(c) /\ pc'[c] \in {"after", "idle"} /\ batch'[c] \in {{}, batch[c]}
    BY <1>0, <2>1, OverIt, GoOn
  <2> QED BY <1>0, <2>1, <2>2, Saved
<1>6. CASE LockedFails(c)
  <2>1. /\ Over(c) /\ pending' = pending /\ used' = used /\ faults' = faults + 1
    BY <1>6 DEF LockedFails, Fault, memVars
  <2>2. Others(c) /\ pc'[c] = "idle" /\ batch'[c] = {} /\ faults' \in Nat /\ faults' >= faults
    BY <1>0, <2>1, OverIt
  <2>3. CASE pc[c] \in {"load", "archive", "save"} /\ UNCHANGED <<diskVars, ghosts>>
    <3>1. \A d \in Calls : Same(d) \/ Quiet(d)
      BY <2>2 DEF Others, Quiet
    <3>2. SameLists /\ pantry' = pantry
      BY <2>3 DEF SameLists, diskVars, ghosts
    <3>3. faults' >= faults + 1 /\ \A u \in Users : pending'[u] \subseteq pending[u]
      BY <1>0, <2>1
    <3> QED BY <1>0, <2>1, <2>2, <3>1, <3>2, <3>3, Drop
  <2>4. CASE pc[c] = "archive" /\ history' = Recorded(batch[c])
             /\ UNCHANGED <<list, ticked, pantry, ghosts>>
    <3>1. UNCHANGED <<list, ticked, ghosts>> /\ pantry' = pantry
      BY <2>4
    <3> QED BY <1>0, <2>1, <2>2, <2>4, <3>1, Archived
  <2>5. CASE pc[c] = "save" /\ Written(c) /\ UNCHANGED <<history, pantry>>
    BY <1>0, <2>1, <2>2, <2>5, Saved
  <2> QED BY <1>6, <2>3, <2>4, <2>5 DEF LockedFails
<1> QED BY <1>1, <1>2, <1>3, <1>4, <1>5, <1>6

(* The timer, batches given up, and a crash.                               *)
LEMMA StepRest ==
    ASSUME IInv, \/ TimerFires \/ Crash \/ UNCHANGED vars
                 \/ \E u \in Users : PressSkip(u) \/ Lapse(u)
    PROVE  ItemsOK'
<1>0. TypeOK /\ CallsOK /\ ItemsOK /\ faults \in Nat
  BY GroceriesAssumption DEF IInv, TypeOK
<1>1. CASE Crash
  <2>1. /\ SameLists /\ pantry' = pantry /\ used' = used /\ faults' = faults + 1
        /\ \A u \in Users : pending'[u] = {}
        /\ \A d \in Calls : pc'[d] = "idle" /\ batch'[d] = {}
    BY <1>1 DEF Crash, Fault, SameLists, diskVars, ghosts
  <2>2. faults' \in Nat /\ faults' >= faults /\ faults' >= faults + 1
    BY <1>0, <2>1
  <2>3. \A d \in Calls : Quiet(d)
    BY <2>1 DEF Quiet
  <2> QED BY <1>0, <2>1, <2>2, <2>3, Drop
<1>2. CASE \/ TimerFires \/ UNCHANGED vars
           \/ \E u \in Users : PressSkip(u) \/ Lapse(u)
  <2>1. /\ SameLists /\ pantry' = pantry /\ used' = used /\ faults' = faults
        /\ \A d \in Calls : Same(d)
    BY <1>2
    DEF TimerFires, PressSkip, Lapse, vars, Local, Same, SameLists, diskVars, memVars, ghosts
  <2>2. \A u \in Users : pending'[u] \subseteq pending[u]
    BY <1>0, <1>2 DEF TimerFires, PressSkip, TakenOut, Lapse, vars, TypeOK
  <2> QED BY <1>0, <2>1, <2>2, Drop
<1> QED BY <1>1, <1>2

-----------------------------------------------------------------------------
(* The theorems                                                            *)

LEMMA InitInv == Init => IInv
<1> SUFFICES ASSUME Init PROVE IInv
  OBVIOUS
<1>0. On(<<>>) = {}
  BY DEF On
<1>1. ItemsOK
  <2>1. On(list) = {}
    BY <1>0 DEF Init
  <2>2. Unseen
    BY <2>1 DEF Init, Unseen, Fresh
  <2>3. CopyOK
    BY DEF Init, CopyOK, CopyRight
  <2>4. BatchOK /\ ListOK
    BY <2>1 DEF Init, BatchOK, ListOK
  <2>5. Accounted /\ PantryOnce
    BY DEF Init, Accounted, PantryOnce
  <2> QED BY <2>2, <2>3, <2>4, <2>5 DEF ItemsOK
<1> QED BY <1>1, InitShape DEF IInv

LEMMA NextInv == IInv /\ [Next]_vars => IInv'
<1> SUFFICES ASSUME IInv, [Next]_vars PROVE IInv'
  OBVIOUS
<1>0. TypeOK /\ CallsOK /\ CopyOK
  BY DEF IInv, ItemsOK
<1>1. ASSUME NEW c \in Calls,
             \/ Lock(c) \/ LoadNothing(c) \/ AfterClear(c) \/ ClearAskFails(c)
             \/ \E u \in Users : \E t \in Requests : Ask(c, u, t)
      PROVE  IInv'
  BY <1>0, <1>1, StepDrops, ShapeOfCalls DEF IInv
<1>2. ASSUME NEW c \in Calls,
             \/ SetPending(c) \/ AfterPrompt(c) \/ ToPantry(c) \/ ToPantryFails(c)
             \/ \E u \in Users : PressAll(c, u)
      PROVE  IInv'
  BY <1>0, <1>2, StepBatches, ShapeOfCalls DEF IInv
<1>3. ASSUME NEW c \in Calls,
             \/ LoadAdd(c) \/ LoadToggle(c) \/ LoadClear(c) \/ Archive(c) \/ Save(c)
             \/ LockedFails(c)
      PROVE  IInv'
  BY <1>0, <1>3, StepLocked, ShapeOfLocked DEF IInv
<1>4. ASSUME TimerFires \/ Crash \/ \E u \in Users : PressSkip(u) \/ Lapse(u) PROVE IInv'
  BY <1>0, <1>4, StepRest, ShapeOfRest DEF IInv
<1>5. CASE UNCHANGED vars
  <2>1. TypeOK'
    BY <1>0, <1>5 DEF vars, diskVars, memVars, ghosts, TypeOK
  <2>2. CallsOK'
    BY <1>0, <1>5 DEF vars, diskVars, memVars, ghosts, CallsOK
  <2> QED BY <1>5, <2>1, <2>2, StepRest DEF IInv
<1> QED BY <1>1, <1>2, <1>3, <1>4, <1>5 DEF Next, Step

(* The invariant holds in every reachable state.                          *)
THEOREM Invariance == Spec => []IInv
  BY InitInv, NextInv, PTL DEF Spec

(* TypeOK, in every reachable state.                                       *)
THEOREM TypeCorrect == Spec => []TypeOK
<1>1. IInv => TypeOK
  BY DEF IInv
<1> QED BY <1>1, Invariance, PTL

(* saveGroceryList and archivePurchased: an item that was saved is on the  *)
(* list, in the history, or among those a clear of the remaining ones      *)
(* dropped; and it is recorded once, and once more at most for each        *)
(* failure.                                                                *)
THEOREM Accounts == Spec => []Accounted
<1>1. IInv => Accounted
  BY DEF IInv, ItemsOK
<1> QED BY <1>1, Invariance, PTL

(* pantry-all: nothing reaches the pantry twice, or without a record.      *)
THEOREM IntoPantryOnce == Spec => []PantryOnce
<1>1. IInv => PantryOnce
  BY DEF IInv, ItemsOK
<1> QED BY <1>1, Invariance, PTL

(* saveGroceryList: only a clear moves an item to another position.        *)
THEOREM PositionsStay == Spec => PositionsKept
<1> DEFINE Keeps ==
      \/ \A k \in DOMAIN list : k \in DOMAIN list' /\ list'[k] = list[k]
      \/ \E c \in Calls : pc[c] = "save" /\ pc'[c] # "save" /\ task[c].kind \in Removing
<1>1. IInv /\ [Next]_vars => Keeps
  <2> SUFFICES ASSUME IInv, [Next]_vars PROVE Keeps
    OBVIOUS
  <2>1. CASE list' = list
    BY <2>1
  <2>2. ASSUME NEW c \in Calls, pc[c] = "save", Written(c), pc'[c] # "save" PROVE Keeps
    <3>1. CASE task[c].kind \in Removing
      BY <2>2, <3>1
    <3>2. CASE task[c].kind \notin Removing
      <4>1. \A k \in DOMAIN list : k \in DOMAIN copy[c] /\ copy[c][k] = list[k]
        BY <2>2, <3>2 DEF IInv, ItemsOK, CopyOK, CopyRight
      <4> QED BY <2>2, <4>1 DEF Written
    <3> QED BY <3>1, <3>2
  <2>3. ASSUME NEW c \in Calls, Save(c) \/ LockedFails(c) PROVE Keeps
    <3>1. TypeOK /\ CallsOK
      BY DEF IInv
    <3>2. Over(c) \/ Goto(c, "after")
      BY <2>3 DEF Save, LockedFails
    <3>3. pc'[c] # "save"
      BY <3>1, <3>2 DEF Over, Goto, TypeOK
    <3>4. list' = list \/ (pc[c] = "save" /\ Written(c))
      BY <2>3 DEF Save, LockedFails, diskVars
    <3> QED BY <2>1, <2>2, <3>3, <3>4
  <2>4. list' = list \/ \E c \in Calls : Save(c) \/ LockedFails(c)
    BY DEF Next, Step, Ask, Lock, LoadAdd, LoadToggle, LoadNothing, LoadClear, Archive, AfterClear,
           SetPending, ClearAskFails, AfterPrompt, ToPantry, ToPantryFails, PressAll, PressSkip,
           Lapse, TimerFires, Crash, diskVars, vars
  <2> QED BY <2>1, <2>3, <2>4
<1>2. IInv /\ [Next]_vars => [Keeps]_vars
  BY <1>1
<1> QED BY <1>2, Invariance, PTL DEF Spec, PositionsKept
=============================================================================
