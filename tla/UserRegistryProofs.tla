------------------------- MODULE UserRegistryProofs -------------------------
(***************************************************************************)
(* Theorems about UserRegistry, for every set of calls, codes, users and   *)
(* names and every number of faults: the state keeps its shape, and no two *)
(* accounts ever have one display name.                                    *)
(*                                                                         *)
(* The names in memory are only as unique as the lists that may be put in  *)
(* their place: the one in pas.yaml after a restart, the ones that wait to *)
(* be written, and the snapshots that a failed write puts back.            *)
(***************************************************************************)
EXTENDS UserRegistry, FiniteSetTheorems, SequenceTheorems, TLAPS

Distinct(us) ==
    \A u, v \in Users : u # v /\ us[u].name # None => us[u].name # us[v].name

(* An account without a name is no account.                                *)
Filled(us) == \A u \in Users : us[u].name = None => us[u] = NoAccount

Sound(us) == Distinct(us) /\ Filled(us)

Lists == [Users -> Account]
Files == [Codes -> Invite]

(* An entry without a name is no entry.                                    *)
Whole(is) == \A k \in Codes : is[k].name = None => is[k] = NoInvite

(* What a call was called with is there while it is needed.                *)
RequestInv ==
    \A c \in Calls :
        /\ pc[c] \in {"create", "createName", "createCheck"} => req[c].name \in Names
        /\ pc[c] \in {"claim", "claimWrite", "register"} =>
               req[c].op = "redeem" /\ req[c].code \in Codes /\ req[c].user \in Users
        /\ req[c].op \in {"redeem", "remove"} => req[c].user \in Users

Entry == [call : Calls, users : Lists]

(* The inductive invariant: all lists that are or may come to be in force  *)
(* have distinct names.                                                    *)
FilesInv ==
    /\ invites \in Files /\ Whole(invites)
    /\ minted \subseteq Codes /\ claimed \in [Codes -> SUBSET Users]

LocksInv ==
    /\ codeLock \in [Codes -> Calls \cup {None}]
    /\ pathLock \in Calls \cup {None} /\ nameLock \in Calls \cup {None}

AccountsInv ==
    /\ users \in Lists /\ Sound(users)
    /\ saved \in Lists /\ Sound(saved)
    /\ members \subseteq Users
    /\ syncQueue \in Seq(Entry)
    /\ \A i \in 1..Len(syncQueue) : Sound(syncQueue[i].users)

CallsInv ==
    /\ pc \in [Calls -> PCs] /\ req \in [Calls -> Request]
    /\ copy \in [Calls -> Files] /\ \A c \in Calls : Whole(copy[c])
    /\ before \in [Calls -> Lists] /\ \A c \in Calls : Sound(before[c])
    /\ RequestInv

StateInv == FilesInv /\ LocksInv /\ AccountsInv /\ CallsInv /\ faults \in 0..MaxFaults

IInv == StateInv /\ overlapped \in BOOLEAN

-----------------------------------------------------------------------------
(* Records                                                                 *)

LEMMA Nothings ==
    NoRequest \in Request /\ NoInvite \in Invite /\ NoAccount \in Account
BY RegistryAssumption DEF NoRequest, Request, Ops, NoInvite, Invite, NoAccount, Account

LEMMA NothingLists ==
    /\ NoInvites \in Files /\ Whole(NoInvites)
    /\ NoUsers \in Lists /\ Sound(NoUsers)
BY Nothings DEF NoInvites, NoUsers, Files, Lists, Whole, Sound, Distinct, Filled, NoAccount

LEMMA FromInvite ==
    ASSUME NEW i \in Invite, i.name = None => i = NoInvite
    PROVE  /\ AccountFrom(i) \in Account /\ AccountFrom(i).name = i.name
           /\ AccountFrom(i).name = None => AccountFrom(i) = NoAccount
<1>1. AccountFrom(i) \in Account /\ AccountFrom(i).name = i.name
  BY DEF AccountFrom, Invite, Account
<1>2. i.name = None => i.admin = FALSE
  BY DEF NoInvite
<1> QED BY <1>1, <1>2 DEF AccountFrom, NoAccount

LEMMA NewInviteType ==
    ASSUME NEW r \in Request, r.name \in Names
    PROVE  NewInvite(r) \in Invite /\ NewInvite(r).name # None
BY RegistryAssumption DEF NewInvite, Request, Invite

LEMMA UsedByType ==
    ASSUME NEW i \in Invite, NEW u \in Users
    PROVE  UsedBy(i, u) \in Invite /\ UsedBy(i, u).name = i.name
BY DEF UsedBy, Invite

LEMMA WithAppsType ==
    ASSUME NEW a \in Account, NEW c \in Calls
    PROVE  WithApps(a, c) \in Account /\ WithApps(a, c).name = a.name
BY DEF WithApps, Account

LEMMA PastDateType ==
    ASSUME NEW i \in Invite
    PROVE  PastDate(i) \in Invite /\ PastDate(i).name = i.name
BY DEF PastDate, Invite

LEMMA WeekOldType ==
    ASSUME NEW i \in Invite
    PROVE  WeekOld(i) \in Invite /\ WeekOld(i).name = i.name
BY DEF WeekOld, Invite

-----------------------------------------------------------------------------
(* Files and lists                                                         *)

LEMMA WithKeeps ==
    ASSUME NEW is \in Files, Whole(is), NEW k \in Codes, NEW i \in Invite,
           i.name # None
    PROVE  With(is, k, i) \in Files /\ Whole(With(is, k, i))
BY DEF With, Files, Whole

LEMMA CleanedKeeps ==
    ASSUME NEW is \in Files, Whole(is)
    PROVE  Cleaned(is) \in Files /\ Whole(Cleaned(is))
BY Nothings DEF Cleaned, Files, Whole, NoInvite

(* An account may be put in the place of another one of its name, or of    *)
(* none, or when nobody has its name.                                      *)
LEMMA SetKeeps ==
    ASSUME NEW us \in Lists, Sound(us), NEW u \in Users, NEW a \in Account,
           a.name = None \/ a.name = us[u].name \/ ~NameInUse(us, a.name),
           a.name = None => a = NoAccount
    PROVE  Set(us, u, a) \in Lists /\ Sound(Set(us, u, a))
<1>1. Set(us, u, a) \in Lists
  BY DEF Set, Lists
<1>2. \A v \in Users : Set(us, u, a)[v] = IF v = u THEN a ELSE us[v]
  BY DEF Set, Lists
<1>3. Sound(Set(us, u, a))
  BY <1>2 DEF Sound, Distinct, Filled, NameInUse
<1> QED BY <1>1, <1>3

(* The queue in front of pas.yaml.                                         *)
LEMMA QueueGrows ==
    ASSUME NEW q \in Seq(Entry), NEW c \in Calls, NEW us \in Lists, Sound(us),
           \A i \in 1..Len(q) : Sound(q[i].users)
    PROVE  LET r == Append(q, [call |-> c, users |-> us])
           IN /\ r \in Seq(Entry)
              /\ \A i \in 1..Len(r) : Sound(r[i].users)
<1> DEFINE e == [call |-> c, users |-> us]
           r == Append(q, e)
<1>1. e \in Entry /\ e.users = us
  BY DEF Entry
<1> HIDE DEF e
<1>2. r \in Seq(Entry) /\ Len(r) = Len(q) + 1 /\ Len(q) \in Nat
  BY <1>1
<1>3. \A i \in 1..Len(r) : r[i] = IF i = Len(r) THEN e ELSE q[i]
  BY <1>1
<1>4. \A i \in 1..Len(r) : i # Len(r) => i \in 1..Len(q)
  BY <1>2
<1>5. \A i \in 1..Len(r) : Sound(r[i].users)
  BY <1>1, <1>3, <1>4
<1> QED BY <1>2, <1>5 DEF e

LEMMA QueueShrinks ==
    ASSUME NEW q \in Seq(Entry), q # <<>>,
           \A i \in 1..Len(q) : Sound(q[i].users)
    PROVE  /\ Head(q).users \in Lists /\ Sound(Head(q).users)
           /\ Tail(q) \in Seq(Entry)
           /\ \A i \in 1..Len(Tail(q)) : Sound(Tail(q)[i].users)
<1>1. 1 \in 1..Len(q) /\ Head(q) = q[1] /\ q[1] \in Entry
  OBVIOUS
<1>2. \A i \in 1..Len(Tail(q)) : Tail(q)[i] = q[i + 1] /\ i + 1 \in 1..Len(q)
  OBVIOUS
<1> QED BY <1>1, <1>2 DEF Entry

-----------------------------------------------------------------------------
(* What a step leaves alone                                                *)

LEMMA FilesStay == FilesInv /\ UNCHANGED files => FilesInv'
BY DEF FilesInv, files

LEMMA LocksStay == LocksInv /\ UNCHANGED locks => LocksInv'
BY DEF LocksInv, locks

LEMMA AccountsStay == AccountsInv /\ UNCHANGED accounts => AccountsInv'
BY DEF AccountsInv, accounts

LEMMA OneFault ==
    ASSUME faults \in 0..MaxFaults, faults < MaxFaults, faults' = faults + 1
    PROVE  faults' \in 0..MaxFaults
BY RegistryAssumption

LEMMA Returned ==
    ASSUME CallsInv, NEW c \in Calls, Return(c)
    PROVE  CallsInv'
<1>1. pc' = [pc EXCEPT ![c] = "idle"] /\ pc' \in [Calls -> PCs]
  BY DEF CallsInv, Return, Goto, PCs
<1>2. req' = [req EXCEPT ![c] = NoRequest] /\ req' \in [Calls -> Request]
  BY Nothings DEF CallsInv, Return
<1>3. copy' \in [Calls -> Files] /\ \A d \in Calls : Whole(copy'[d])
  BY NothingLists DEF CallsInv, Return
<1>4. before' \in [Calls -> Lists] /\ \A d \in Calls : Sound(before'[d])
  BY NothingLists DEF CallsInv, Return
<1>5. RequestInv'
  BY <1>1, <1>2 DEF CallsInv, RequestInv, NoRequest
<1> QED BY <1>1, <1>2, <1>3, <1>4, <1>5 DEF CallsInv

(* A call goes on with what it knows.                                      *)
LEMMA WentOn ==
    ASSUME CallsInv, NEW c \in Calls, NEW l \in PCs, Goto(c, l), UNCHANGED <<req, before>>,
           NEW is \in Files, Whole(is), copy' = [copy EXCEPT ![c] = is],
           l \in {"create", "createName", "createCheck"} => req[c].name \in Names,
           l \in {"claim", "claimWrite", "register"} =>
               req[c].op = "redeem" /\ req[c].code \in Codes /\ req[c].user \in Users
    PROVE  CallsInv'
<1>1. pc' = [pc EXCEPT ![c] = l] /\ pc' \in [Calls -> PCs]
  BY DEF CallsInv, Goto
<1>2. copy' \in [Calls -> Files] /\ \A d \in Calls : Whole(copy'[d])
  BY DEF CallsInv
<1>3. RequestInv'
  BY <1>1 DEF CallsInv, RequestInv
<1> QED BY <1>1, <1>2, <1>3 DEF CallsInv

LEMMA WentOnAlone ==
    ASSUME CallsInv, NEW c \in Calls, NEW l \in PCs, Goto(c, l),
           UNCHANGED <<req, copy, before>>,
           l \in {"create", "createName", "createCheck"} => req[c].name \in Names,
           l \in {"claim", "claimWrite", "register"} =>
               req[c].op = "redeem" /\ req[c].code \in Codes /\ req[c].user \in Users
    PROVE  CallsInv'
<1>1. copy[c] \in Files /\ Whole(copy[c]) /\ copy' = [copy EXCEPT ![c] = copy[c]]
  BY DEF CallsInv
<1> QED BY <1>1, WentOn

-----------------------------------------------------------------------------
(* createInvite                                                            *)

LEMMA BeginCreateKeeps ==
    ASSUME StateInv, NEW c \in Calls, NEW n \in Names, NEW a \in BOOLEAN,
           BeginCreate(c, n, a)
    PROVE  StateInv'
<1> USE DEF StateInv
<1> DEFINE r == [op |-> "create", code |-> None, user |-> None, name |-> n, admin |-> a]
<1>1. r \in Request /\ r.name = n /\ r.op = "create"
  BY DEF Request, Ops
<1>2. req' = [req EXCEPT ![c] = r] /\ pc' = [pc EXCEPT ![c] = "create"]
  BY DEF BeginCreate, Goto
<1> HIDE DEF r
<1>3. req' \in [Calls -> Request] /\ pc' \in [Calls -> PCs]
  BY <1>1, <1>2 DEF CallsInv, PCs
<1>4. RequestInv'
  BY <1>1, <1>2 DEF CallsInv, RequestInv
<1>5. CallsInv'
  BY <1>3, <1>4 DEF CallsInv, BeginCreate
<1> QED BY <1>5, FilesStay, LocksStay, AccountsStay DEF BeginCreate

LEMMA CreateLockPathKeeps ==
    ASSUME StateInv, NEW c \in Calls, CreateLockPath(c)
    PROVE  StateInv'
<1> USE DEF StateInv
<1>1. CallsInv'
  BY WentOnAlone DEF CreateLockPath, CallsInv, RequestInv, PCs
<1>2. LocksInv'
  BY DEF CreateLockPath, LocksInv
<1> QED BY <1>1, <1>2, FilesStay, AccountsStay DEF CreateLockPath

LEMMA CreateReadKeeps ==
    ASSUME StateInv, NEW c \in Calls, CreateRead(c)
    PROVE  StateInv'
<1> USE DEF StateInv
<1>1. CallsInv'
  BY WentOn DEF CreateRead, CallsInv, RequestInv, PCs, FilesInv
<1>2. LocksInv'
  BY DEF CreateRead, LocksInv
<1> QED BY <1>1, <1>2, FilesStay, AccountsStay DEF CreateRead

LEMMA CreateRefuseKeeps ==
    ASSUME StateInv, NEW c \in Calls, CreateRefuse(c)
    PROVE  StateInv'
<1> USE DEF StateInv
<1>1. LocksInv'
  BY DEF CreateRefuse, CreateLeave, LocksInv
<1> QED BY <1>1, Returned, FilesStay, AccountsStay DEF CreateRefuse

LEMMA CreateDrawKeeps ==
    ASSUME StateInv, NEW c \in Calls, NEW k \in Codes, CreateDraw(c, k)
    PROVE  StateInv'
<1> USE DEF StateInv
<1> DEFINE is == With(copy[c], k, NewInvite(req[c]))
<1>1. req[c] \in Request /\ req[c].name \in Names
  BY DEF CreateDraw, CallsInv, RequestInv
<1>2. copy[c] \in Files /\ Whole(copy[c])
  BY DEF CallsInv
<1>3. is \in Files /\ Whole(is)
  BY <1>1, <1>2, NewInviteType, WithKeeps
<1> HIDE DEF is
<1>4. CallsInv'
  <2>1. Goto(c, "createWrite") /\ UNCHANGED <<req, before>> /\ copy' = [copy EXCEPT ![c] = is]
    BY DEF CreateDraw, is
  <2> QED BY <1>3, <2>1, WentOn DEF PCs
<1>5. FilesInv'
  BY DEF CreateDraw, FilesInv
<1> QED BY <1>4, <1>5, LocksStay, AccountsStay DEF CreateDraw

LEMMA CreateWriteKeeps ==
    ASSUME StateInv, NEW c \in Calls, CreateWrite(c)
    PROVE  StateInv'
<1> USE DEF StateInv
<1>1. FilesInv'
  BY DEF CreateWrite, FilesInv, CallsInv
<1>2. LocksInv'
  BY DEF CreateWrite, CreateLeave, LocksInv
<1> QED BY <1>1, <1>2, Returned, AccountsStay DEF CreateWrite

LEMMA CreateFailsKeeps ==
    ASSUME StateInv, NEW c \in Calls, CreateFails(c)
    PROVE  StateInv'
<1> USE DEF StateInv
<1>1. LocksInv'
  BY DEF CreateFails, CreateLeave, LocksInv
<1> QED BY <1>1, Returned, OneFault, FilesStay, AccountsStay DEF CreateFails

-----------------------------------------------------------------------------
(* claimAndRedeem                                                          *)

LEMMA BeginRedeemKeeps ==
    ASSUME StateInv, NEW c \in Calls, NEW k \in Codes, NEW u \in Users,
           BeginRedeem(c, k, u)
    PROVE  StateInv'
<1> USE DEF StateInv
<1> DEFINE r == [op |-> "redeem", code |-> k, user |-> u, name |-> None, admin |-> FALSE]
<1>1. r \in Request /\ r.op = "redeem" /\ r.code = k /\ r.user = u
  BY DEF Request, Ops
<1>2. req' = [req EXCEPT ![c] = r] /\ pc' = [pc EXCEPT ![c] = "claim"]
  BY DEF BeginRedeem, Goto
<1> HIDE DEF r
<1>3. req' \in [Calls -> Request] /\ pc' \in [Calls -> PCs]
  BY <1>1, <1>2 DEF CallsInv, PCs
<1>4. RequestInv'
  BY <1>1, <1>2 DEF CallsInv, RequestInv
<1>5. CallsInv'
  BY <1>3, <1>4 DEF CallsInv, BeginRedeem
<1> QED BY <1>5, FilesStay, LocksStay, AccountsStay DEF BeginRedeem

LEMMA ClaimRefusedKeeps ==
    ASSUME StateInv, NEW c \in Calls, ClaimRefused(c)
    PROVE  StateInv'
BY Returned, FilesStay, LocksStay, AccountsStay DEF StateInv, ClaimRefused

LEMMA AfterClaimKeeps ==
    ASSUME CallsInv, NEW c \in Calls, pc[c] \in {"claim", "claimWrite"},
           NEW is \in Files, Whole(is), AfterClaim(c, is)
    PROVE  CallsInv'
<1>1. CASE req[c].code \in Legacy
  BY <1>1, Returned DEF AfterClaim
<1>2. CASE req[c].code \notin Legacy
  <2>1. Goto(c, "register") /\ UNCHANGED <<req, before>> /\ copy' = [copy EXCEPT ![c] = is]
    BY <1>2 DEF AfterClaim
  <2> QED BY <2>1, WentOn DEF CallsInv, RequestInv, PCs
<1> QED BY <1>1, <1>2

LEMMA ClaimAgainKeeps ==
    ASSUME StateInv, NEW c \in Calls, ClaimAgain(c)
    PROVE  StateInv'
<1> USE DEF StateInv
<1>1. CallsInv'
  BY AfterClaimKeeps DEF ClaimAgain, FilesInv
<1> QED BY <1>1, FilesStay, LocksStay, AccountsStay DEF ClaimAgain

LEMMA ClaimReadKeeps ==
    ASSUME StateInv, NEW c \in Calls, ClaimRead(c)
    PROVE  StateInv'
<1> USE DEF StateInv
<1> DEFINE k == req[c].code
           is == With(invites, k, UsedBy(invites[k], req[c].user))
<1>1. k \in Codes /\ req[c].user \in Users /\ req[c].op = "redeem"
  BY DEF ClaimRead, CallsInv, RequestInv
<1>2. invites[k] \in Invite /\ invites[k].name # None
  BY <1>1 DEF ClaimRead, FilesInv, Files, Open
<1>3. is \in Files /\ Whole(is)
  BY <1>1, <1>2, UsedByType, WithKeeps DEF FilesInv
<1>4. Goto(c, "claimWrite") /\ UNCHANGED <<req, before>> /\ copy' = [copy EXCEPT ![c] = is]
  BY DEF ClaimRead
<1>5. LocksInv'
  BY <1>1 DEF ClaimRead, LocksInv
<1> HIDE DEF is
<1>6. CallsInv'
  BY <1>1, <1>3, <1>4, WentOn DEF PCs
<1> QED BY <1>5, <1>6, FilesStay, AccountsStay DEF ClaimRead

LEMMA ClaimWriteKeeps ==
    ASSUME StateInv, NEW c \in Calls, ClaimWrite(c)
    PROVE  StateInv'
<1> USE DEF StateInv
<1>1. req[c].code \in Codes /\ req[c].user \in Users
  BY DEF ClaimWrite, CallsInv, RequestInv
<1>2. copy[c] \in Files /\ Whole(copy[c])
  BY DEF CallsInv
<1>3. CallsInv'
  BY <1>2, AfterClaimKeeps DEF ClaimWrite
<1>4. FilesInv'
  BY <1>1, <1>2 DEF ClaimWrite, FilesInv
<1>5. LocksInv'
  BY <1>1 DEF ClaimWrite, FreeCode, LocksInv
<1> QED BY <1>3, <1>4, <1>5, AccountsStay DEF ClaimWrite

LEMMA ClaimFailsKeeps ==
    ASSUME StateInv, NEW c \in Calls, ClaimFails(c)
    PROVE  StateInv'
<1> USE DEF StateInv
<1>1. LocksInv'
  BY DEF ClaimFails, FreeCode, LocksInv
<1> QED BY <1>1, Returned, OneFault, FilesStay, AccountsStay DEF ClaimFails

-----------------------------------------------------------------------------
(* registerUser, removeUser, updateUserApps                                *)

LEMMA RegisterKnownKeeps ==
    ASSUME StateInv, NEW c \in Calls, RegisterKnown(c) \/ RegisterRefused(c)
    PROVE  StateInv'
BY Returned, FilesStay, LocksStay, AccountsStay
   DEF StateInv, RegisterKnown, RegisterRefused

(* What every change of the list does to the accounts.                     *)
LEMMA ChangeQueued ==
    ASSUME AccountsInv, NEW c \in Calls, NEW us \in Lists, Sound(us),
           users' = us, syncQueue' = Queued(c, us), UNCHANGED <<saved, members>>
    PROVE  AccountsInv'
<1>1. /\ syncQueue' \in Seq(Entry)
      /\ \A i \in 1..Len(syncQueue') : Sound(syncQueue'[i].users)
  BY QueueGrows DEF AccountsInv, Queued
<1> QED BY <1>1 DEF AccountsInv

LEMMA RegisterAddKeeps ==
    ASSUME StateInv, NEW c \in Calls, RegisterAdd(c)
    PROVE  StateInv'
<1> USE DEF StateInv
<1> DEFINE us == Set(users, req[c].user, Invited(c))
<1>1. req[c].user \in Users /\ req[c].code \in Codes
  BY DEF RegisterAdd, CallsInv, RequestInv
<1>2. /\ copy[c][req[c].code] \in Invite
      /\ copy[c][req[c].code].name = None => copy[c][req[c].code] = NoInvite
  BY <1>1 DEF CallsInv, Files, Whole
<1>3. Invited(c) \in Account /\ (Invited(c).name = None => Invited(c) = NoAccount)
  BY <1>2, FromInvite DEF Invited
<1>4. ~NameInUse(users, Invited(c).name)
  BY DEF RegisterAdd, NameTaken
<1>5. us \in Lists /\ Sound(us)
  BY <1>1, <1>3, <1>4, SetKeeps DEF AccountsInv
<1>6. users' = us /\ syncQueue' = Queued(c, us) /\ UNCHANGED <<saved, members>>
  BY DEF RegisterAdd
<1> HIDE DEF us
<1>7. AccountsInv'
  BY <1>5, <1>6, ChangeQueued
<1>8. CallsInv'
  BY WentOnAlone DEF RegisterAdd, PCs
<1>9. LocksInv'
  BY DEF RegisterAdd, LocksInv
<1> QED BY <1>7, <1>8, <1>9, FilesStay DEF RegisterAdd

LEMMA ChangeKeeps ==
    ASSUME StateInv, NEW c \in Calls, NEW r \in Request,
           r.op \in {"redeem", "remove"} => r.user \in Users,
           NEW us \in Lists, Sound(us), Change(c, r, us)
    PROVE  StateInv'
<1> USE DEF StateInv
<1>1. AccountsInv'
  BY ChangeQueued DEF Change
<1>2. pc' = [pc EXCEPT ![c] = "sync"] /\ req' = [req EXCEPT ![c] = r]
  BY DEF Change, Goto
<1>3. pc' \in [Calls -> PCs] /\ req' \in [Calls -> Request]
  BY <1>2 DEF CallsInv, PCs
<1>4. before' \in [Calls -> Lists] /\ \A d \in Calls : Sound(before'[d])
  BY DEF Change, CallsInv, AccountsInv
<1>5. RequestInv'
  BY <1>2 DEF CallsInv, RequestInv
<1>6. CallsInv'
  BY <1>3, <1>4, <1>5 DEF CallsInv, Change
<1> QED BY <1>1, <1>6, FilesStay, LocksStay DEF Change

LEMMA RemoveKeeps ==
    ASSUME StateInv, NEW c \in Calls, NEW u \in Users, Remove(c, u)
    PROVE  StateInv'
<1> DEFINE r == [op |-> "remove", code |-> None, user |-> u, name |-> None, admin |-> FALSE]
<1>1. r \in Request /\ r.user = u
  BY DEF Request, Ops
<1>2. NoAccount.name = None
  BY DEF NoAccount
<1>3. Set(users, u, NoAccount) \in Lists /\ Sound(Set(users, u, NoAccount))
  BY <1>2, Nothings, SetKeeps DEF StateInv, AccountsInv
<1>4. Change(c, r, Set(users, u, NoAccount))
  BY DEF Remove
<1> HIDE DEF r
<1> QED BY <1>1, <1>3, <1>4, ChangeKeeps

LEMMA SetAppsKeeps ==
    ASSUME StateInv, NEW c \in Calls, NEW u \in Users, SetApps(c, u)
    PROVE  StateInv'
<1> DEFINE r == [op |-> "apps", code |-> None, user |-> u, name |-> None, admin |-> FALSE]
           a == WithApps(users[u], c)
<1>1. r \in Request /\ r.op = "apps"
  BY DEF Request, Ops
<1>2. a \in Account /\ a.name = users[u].name /\ a.name # None
  BY WithAppsType DEF SetApps, StateInv, AccountsInv, Lists
<1>3. Change(c, r, Set(users, u, a))
  BY DEF SetApps
<1> HIDE DEF r, a
<1>4. Set(users, u, a) \in Lists /\ Sound(Set(users, u, a))
  BY <1>2, SetKeeps DEF StateInv, AccountsInv
<1> QED BY <1>1, <1>3, <1>4, ChangeKeeps

-----------------------------------------------------------------------------
(* The write of pas.yaml                                                   *)

LEMMA LeaveNameKeeps ==
    ASSUME LocksInv, NEW c \in Calls, LeaveName(c), UNCHANGED <<codeLock, pathLock>>
    PROVE  LocksInv'
BY DEF LocksInv, LeaveName

LEMMA SyncSavedKeeps ==
    ASSUME StateInv, NEW c \in Calls, SyncSaved(c)
    PROVE  StateInv'
<1> USE DEF StateInv
<1>1. /\ Head(syncQueue).users \in Lists /\ Sound(Head(syncQueue).users)
      /\ Tail(syncQueue) \in Seq(Entry)
      /\ \A i \in 1..Len(Tail(syncQueue)) : Sound(Tail(syncQueue)[i].users)
  BY QueueShrinks DEF AccountsInv, SyncSaved, Turn
<1>2. members' \subseteq Users
  BY DEF SyncSaved, MembersAfter, AccountsInv, CallsInv, RequestInv
<1>3. AccountsInv'
  BY <1>1, <1>2 DEF SyncSaved, AccountsInv
<1> QED BY <1>3, Returned, LeaveNameKeeps, FilesStay DEF SyncSaved

LEMMA SyncFailsKeeps ==
    ASSUME StateInv, NEW c \in Calls, SyncFails(c)
    PROVE  StateInv'
<1> USE DEF StateInv
<1>1. /\ Tail(syncQueue) \in Seq(Entry)
      /\ \A i \in 1..Len(Tail(syncQueue)) : Sound(Tail(syncQueue)[i].users)
  BY QueueShrinks DEF AccountsInv, SyncFails, Turn
<1>2. RolledBack(c) \in Lists /\ Sound(RolledBack(c))
  <2>1. CASE req[c].op = "redeem"
    <3>1. req[c].user \in Users /\ NoAccount.name = None
      BY <2>1 DEF CallsInv, RequestInv, NoAccount
    <3> QED BY <2>1, <3>1, Nothings, SetKeeps DEF RolledBack, AccountsInv
  <2>2. CASE req[c].op # "redeem"
    BY <2>2 DEF RolledBack, CallsInv
  <2> QED BY <2>1, <2>2
<1>3. AccountsInv'
  BY <1>1, <1>2 DEF SyncFails, AccountsInv
<1> QED BY <1>3, Returned, LeaveNameKeeps, OneFault, FilesStay DEF SyncFails

-----------------------------------------------------------------------------
(* Time and the restart                                                    *)

LEMMA TimeKeeps ==
    ASSUME StateInv, NEW k \in Codes, Expire(k) \/ Age(k)
    PROVE  StateInv'
<1> USE DEF StateInv
<1>1. invites[k] \in Invite /\ invites[k].name # None
  BY DEF Expire, Age, FilesInv, Files
<1>2. \E i \in Invite : i.name # None /\ invites' = With(invites, k, i)
  BY <1>1, PastDateType, WeekOldType DEF Expire, Age
<1>3. FilesInv'
  BY <1>2, WithKeeps DEF FilesInv, Expire, Age
<1>4. CallsInv'
  BY DEF CallsInv, RequestInv, Expire, Age
<1> QED BY <1>3, <1>4, LocksStay, AccountsStay DEF Expire, Age

LEMMA RestartKeeps ==
    ASSUME StateInv, Restart
    PROVE  StateInv'
<1> USE DEF StateInv
<1>1. FilesInv'
  BY CleanedKeeps DEF Restart, FilesInv
<1>2. LocksInv'
  BY DEF Restart, LocksInv
<1>3. AccountsInv'
  <2>1. syncQueue' = <<>> /\ users' = saved /\ saved' = saved /\ members' \subseteq Users
    BY DEF Restart, Registered
  <2> QED BY <2>1 DEF AccountsInv
<1>4. /\ pc' = [c \in Calls |-> "idle"] /\ req' = [c \in Calls |-> NoRequest]
      /\ copy' = [c \in Calls |-> NoInvites] /\ before' = [c \in Calls |-> NoUsers]
  BY DEF Restart
<1>5. RequestInv'
  BY <1>4 DEF RequestInv, NoRequest
<1>6. CallsInv'
  BY <1>4, <1>5, Nothings, NothingLists DEF CallsInv, PCs
<1> QED BY <1>1, <1>2, <1>3, <1>6 DEF Restart

-----------------------------------------------------------------------------
(* What memory and pas.yaml have to do with each other.                    *)
(*                                                                         *)
(* Without a fault, the list in memory is the last one queued for the      *)
(* file, and the file's own when none is queued. When no two writes ever   *)
(* queued together, it is also what the only write under way would write,  *)
(* and what its caller would put back is what the file holds.              *)

Last(q) == q[Len(q)].users

CleanInv ==
    faults = 0 => IF syncQueue = <<>> THEN saved = users ELSE Last(syncQueue) = users

Lone(e) ==
    /\ e.users = users
    /\ pc[e.call] = "sync" /\ RolledBack(e.call) = saved

CalmInv ==
    ~overlapped => /\ Len(syncQueue) <= 1
                   /\ IF syncQueue = <<>> THEN saved = users ELSE Lone(syncQueue[1])

(* An administrator is in each list that is or may come to be in force.    *)
AdminsInv ==
    Undisturbed => /\ Admins(users) # {} /\ Admins(saved) # {}
                   /\ \A i \in 1..Len(syncQueue) : Admins(syncQueue[i].users) # {}

FollowInv == CleanInv /\ CalmInv /\ AdminsInv

(* The queue, after one call more and after one call less.                 *)
LEMMA Queueing ==
    ASSUME NEW q \in Seq(Entry), NEW c \in Calls, NEW us \in Lists
    PROVE  LET r == Append(q, [call |-> c, users |-> us])
           IN /\ r # <<>> /\ Last(r) = us /\ Len(r) = Len(q) + 1 /\ Len(q) \in Nat
              /\ Len(q) = 0 => q = <<>> /\ r[1] = [call |-> c, users |-> us]
              /\ \A i \in 1..Len(r) : (i \in 1..Len(q) /\ r[i] = q[i]) \/ r[i].users = us
<1> DEFINE e == [call |-> c, users |-> us]
           r == Append(q, e)
<1>1. e \in Entry /\ e.users = us
  BY DEF Entry
<1> HIDE DEF e
<1>2. r \in Seq(Entry) /\ Len(r) = Len(q) + 1 /\ Len(q) \in Nat
  BY <1>1
<1>7. r # <<>>
  BY <1>2
<1>3. \A i \in 1..Len(r) : r[i] = IF i = Len(r) THEN e ELSE q[i]
  BY <1>1
<1>4. r[Len(r)] = e /\ (Len(q) = 0 => r[1] = e)
  BY <1>2, <1>3
<1>5. Len(q) = 0 => q = <<>>
  OBVIOUS
<1>6. \A i \in 1..Len(r) : i # Len(r) => i \in 1..Len(q)
  BY <1>2
<1> QED BY <1>1, <1>2, <1>3, <1>4, <1>5, <1>6, <1>7 DEF Last, e

LEMMA Unqueueing ==
    ASSUME NEW q \in Seq(Entry), q # <<>>
    PROVE  /\ Len(q) \in Nat /\ Len(q) >= 1 /\ Head(q) = q[1] /\ 1 \in 1..Len(q)
           /\ Tail(q) # <<>> => Last(Tail(q)) = Last(q)
           /\ Tail(q) = <<>> => Len(q) = 1 /\ Last(q) = q[1].users
           /\ Len(q) <= 1 => Tail(q) = <<>>
           /\ \A i \in 1..Len(Tail(q)) : i + 1 \in 1..Len(q) /\ Tail(q)[i] = q[i + 1]
<1>1. /\ Len(q) \in Nat /\ Len(q) >= 1 /\ Head(q) = q[1] /\ 1 \in 1..Len(q)
      /\ Tail(q) \in Seq(Entry) /\ Len(Tail(q)) = Len(q) - 1
  OBVIOUS
<1>2. \A i \in 1..Len(Tail(q)) : Tail(q)[i] = q[i + 1] /\ i + 1 \in 1..Len(q)
  OBVIOUS
<1>3. Tail(q) = <<>> <=> Len(Tail(q)) = 0
  BY <1>1
<1>4. Tail(q) # <<>> => Len(q) - 1 \in 1..Len(Tail(q))
  BY <1>1, <1>3
<1>5. Tail(q) # <<>> => Tail(q)[Len(q) - 1] = q[Len(q)]
  BY <1>1, <1>2, <1>4
<1> QED BY <1>1, <1>2, <1>3, <1>5 DEF Last

(* Who is an administrator, in lists that differ in one account.           *)
LEMMA AdminsSet ==
    ASSUME NEW us \in Lists, NEW u \in Users, NEW a \in Account
    PROVE  /\ Admins(us) \ {u} \subseteq Admins(Set(us, u, a))
           /\ a.admin => u \in Admins(Set(us, u, a))
BY DEF Admins, Set, Lists

(* A list in which no administrator has to stay for the sake of the guard  *)
(* of removeUser has another one.                                          *)
LEMMA AnotherAdmin ==
    ASSUME NEW us \in Lists, NEW u \in Users, Admins(us) # {}, ~LastAdmin(us, u)
    PROVE  Admins(us) \ {u} # {}
<1>1. CASE us[u].admin
  <2>1. Cardinality({u}) = 1
    BY FS_Singleton
  <2>2. Cardinality(Admins(us)) # 1
    BY <1>1 DEF LastAdmin
  <2>3. Admins(us) # {u}
    BY <2>1, <2>2
  <2> QED BY <2>3
<1>2. CASE ~us[u].admin
  BY <1>2 DEF Admins
<1> QED BY <1>1, <1>2

LEMMA StillUndisturbed ==
    ASSUME IInv, faults' \in {faults, faults + 1}, Noted, Undisturbed'
    PROVE  Undisturbed
<1>1. faults \in Nat /\ overlapped \in BOOLEAN /\ (overlapped => overlapped')
  BY RegistryAssumption DEF IInv, StateInv, Noted
<1>2. faults' = 0 => faults = 0
  BY <1>1
<1> QED BY <1>1, <1>2 DEF Undisturbed

(* A step that has nothing to do with the lists, nor with a call that      *)
(* waits for the file.                                                     *)
LEMMA FollowApart ==
    ASSUME IInv, FollowInv, UNCHANGED <<users, saved, syncQueue>>,
           faults' \in {faults, faults + 1}, Noted,
           \A d \in Calls : pc[d] = "sync" =>
               pc'[d] = "sync" /\ req'[d] = req[d] /\ before'[d] = before[d]
    PROVE  FollowInv'
<1>1. faults \in Nat /\ (~overlapped' => ~overlapped)
  BY RegistryAssumption DEF IInv, StateInv, Noted
<1>2. CleanInv'
  BY <1>1 DEF FollowInv, CleanInv, Last
<1>3. CalmInv'
  <2> SUFFICES ASSUME ~overlapped', syncQueue # <<>>
               PROVE  Lone(syncQueue[1])'
    BY <1>1 DEF FollowInv, CalmInv
  <2>1. Lone(syncQueue[1])
    BY <1>1 DEF FollowInv, CalmInv
  <2>2. syncQueue[1].call \in Calls
    <3>1. syncQueue \in Seq(Entry)
      BY DEF IInv, StateInv, AccountsInv
    <3>2. 1 \in 1..Len(syncQueue)
      BY <3>1, Unqueueing
    <3>3. syncQueue[1] \in Entry
      BY <3>1, <3>2, ElementOfSeq
    <3> QED BY <3>3 DEF Entry
  <2> QED BY <2>1, <2>2 DEF Lone, RolledBack, Set
<1>4. AdminsInv'
  <2>1. \A us \in Lists : Admins(us)' = Admins(us)
    BY DEF Admins
  <2> QED BY StillUndisturbed DEF FollowInv, AdminsInv, Admins
<1> QED BY <1>2, <1>3, <1>4 DEF FollowInv

(* A change of the list, queued for the file by a call that would put back *)
(* what was there.                                                         *)
LEMMA FollowChange ==
    ASSUME IInv, FollowInv, NEW c \in Calls, NEW us \in Lists,
           users' = us, syncQueue' = Queued(c, us), UNCHANGED <<saved, faults>>, Noted,
           pc'[c] = "sync", RolledBack(c)' = users,
           Admins(users) # {} => Admins(us) # {}
    PROVE  FollowInv'
<1>1. /\ overlapped \in BOOLEAN /\ syncQueue \in Seq(Entry)
      /\ syncQueue' = Append(syncQueue, [call |-> c, users |-> us])
  BY DEF IInv, StateInv, AccountsInv, Queued
<1>2. /\ syncQueue' # <<>> /\ Last(syncQueue') = us
      /\ Len(syncQueue') = Len(syncQueue) + 1 /\ Len(syncQueue) \in Nat
      /\ Len(syncQueue) = 0 => syncQueue = <<>> /\ syncQueue'[1] = [call |-> c, users |-> us]
      /\ \A i \in 1..Len(syncQueue') :
             (i \in 1..Len(syncQueue) /\ syncQueue'[i] = syncQueue[i]) \/ syncQueue'[i].users = us
  BY <1>1, Queueing
<1>3. CleanInv'
  BY <1>2 DEF CleanInv, Last
<1>4. CalmInv'
  <2> SUFFICES ASSUME ~overlapped'
               PROVE  Len(syncQueue') <= 1 /\ Lone(syncQueue[1])'
    BY <1>2 DEF CalmInv
  <2>1. ~overlapped /\ ~(Len(syncQueue') > 1)
    BY <1>1 DEF Noted
  <2>2. Len(syncQueue) = 0
    BY <1>2, <2>1
  <2>3. saved = users /\ syncQueue'[1].call = c /\ syncQueue'[1].users = us
    BY <1>2, <2>1, <2>2 DEF FollowInv, CalmInv
  <2> QED BY <1>2, <2>2, <2>3 DEF Lone
<1>5. AdminsInv'
  <2> SUFFICES ASSUME Undisturbed' PROVE /\ Admins(us) # {} /\ Admins(saved) # {}
                       /\ \A i \in 1..Len(syncQueue') : Admins(syncQueue'[i].users) # {}
    BY DEF AdminsInv, Admins
  <2>1. Undisturbed
    BY StillUndisturbed
  <2> QED BY <1>2, <2>1 DEF FollowInv, AdminsInv
<1> QED BY <1>3, <1>4, <1>5 DEF FollowInv

LEMMA OthersStay ==
    ASSUME CallsInv, NEW c \in Calls,
           Return(c) \/ (\E l \in PCs : Goto(c, l) /\ UNCHANGED before
                                        /\ (UNCHANGED req \/ \E r \in Request :
                                                req' = [req EXCEPT ![c] = r]))
    PROVE  \A d \in Calls \ {c} :
               pc'[d] = pc[d] /\ req'[d] = req[d] /\ before'[d] = before[d]
BY DEF Return, Goto, CallsInv

LEMMA FollowAside ==
    ASSUME IInv, FollowInv, NEW c \in Calls, pc[c] # "sync", UNCHANGED accounts,
           faults' \in {faults, faults + 1}, Noted,
           Return(c) \/ (\E l \in PCs : Goto(c, l) /\ UNCHANGED before
                                        /\ (UNCHANGED req \/ \E r \in Request :
                                                req' = [req EXCEPT ![c] = r]))
    PROVE  FollowInv'
<1>1. \A d \in Calls : pc[d] = "sync" =>
           pc'[d] = "sync" /\ req'[d] = req[d] /\ before'[d] = before[d]
  BY OthersStay DEF IInv, StateInv
<1> QED BY <1>1, FollowApart DEF accounts

(* createInvite and claimAndRedeem do not touch the accounts, nor does a   *)
(* registration that is refused.                                           *)
LEMMA FollowInvites ==
    ASSUME IInv, FollowInv, NEW c \in Calls, Noted,
           \/ \E n \in Names, a \in BOOLEAN : BeginCreate(c, n, a)
           \/ CreateLockPath(c) \/ CreateRead(c) \/ CreateRefuse(c)
           \/ \E k \in Codes : CreateDraw(c, k)
           \/ CreateWrite(c) \/ CreateFails(c)
           \/ \E k \in Codes, u \in Users : BeginRedeem(c, k, u)
           \/ ClaimRefused(c) \/ ClaimAgain(c) \/ ClaimRead(c) \/ ClaimWrite(c)
           \/ ClaimFails(c) \/ RegisterKnown(c) \/ RegisterRefused(c)
    PROVE  FollowInv'
<1> DEFINE On(l) == Goto(c, l) /\ UNCHANGED before
                    /\ (UNCHANGED req \/ \E r \in Request : req' = [req EXCEPT ![c] = r])
           Aside == /\ pc[c] # "sync" /\ UNCHANGED accounts /\ faults' \in {faults, faults + 1}
                    /\ Return(c) \/ \E l \in PCs : On(l)
<1>1. \A l \in {"create", "createName", "createCheck", "createWrite", "claim", "claimWrite",
                "register"} : l \in PCs
  BY DEF PCs
<1>2. ASSUME NEW n \in Names, NEW a \in BOOLEAN, BeginCreate(c, n, a)
      PROVE  Aside
  <2>1. [op |-> "create", code |-> None, user |-> None, name |-> n, admin |-> a] \in Request
    BY DEF Request, Ops
  <2>2. On("create")
    BY <1>2, <2>1 DEF BeginCreate
  <2> QED BY <1>1, <1>2, <2>2 DEF BeginCreate
<1>3. ASSUME CreateLockPath(c) PROVE Aside
  <2>1. On("createName")
    BY <1>3 DEF CreateLockPath
  <2> QED BY <1>1, <1>3, <2>1 DEF CreateLockPath
<1>4. ASSUME CreateRead(c) PROVE Aside
  <2>1. On("createCheck")
    BY <1>4 DEF CreateRead
  <2> QED BY <1>1, <1>4, <2>1 DEF CreateRead
<1>5. ASSUME NEW k \in Codes, CreateDraw(c, k) PROVE Aside
  <2>1. On("createWrite")
    BY <1>5 DEF CreateDraw
  <2> QED BY <1>1, <1>5, <2>1 DEF CreateDraw
<1>6. ASSUME CreateRefuse(c) \/ CreateWrite(c) \/ CreateFails(c) PROVE Aside
  BY <1>6 DEF CreateRefuse, CreateWrite, CreateFails
<1>7. ASSUME NEW k \in Codes, NEW u \in Users, BeginRedeem(c, k, u)
      PROVE  Aside
  <2>1. [op |-> "redeem", code |-> k, user |-> u, name |-> None, admin |-> FALSE] \in Request
    BY DEF Request, Ops
  <2>2. On("claim")
    BY <1>7, <2>1 DEF BeginRedeem
  <2> QED BY <1>1, <1>7, <2>2 DEF BeginRedeem
<1>8. ASSUME ClaimRefused(c) \/ ClaimFails(c) \/ RegisterKnown(c) \/ RegisterRefused(c)
      PROVE  Aside
  BY <1>8 DEF ClaimRefused, ClaimFails, RegisterKnown, RegisterRefused
<1>9. ASSUME NEW is, AfterClaim(c, is) PROVE Return(c) \/ On("register")
  BY <1>9 DEF AfterClaim
<1>10. ASSUME ClaimAgain(c) PROVE Aside
  <2>1. Return(c) \/ On("register")
    BY <1>9, <1>10 DEF ClaimAgain
  <2> QED BY <1>1, <1>10, <2>1 DEF ClaimAgain
<1>11. ASSUME ClaimRead(c) PROVE Aside
  <2>1. On("claimWrite")
    BY <1>11 DEF ClaimRead
  <2> QED BY <1>1, <1>11, <2>1 DEF ClaimRead
<1>12. ASSUME ClaimWrite(c) PROVE Aside
  <2>1. Return(c) \/ On("register")
    BY <1>9, <1>12 DEF ClaimWrite
  <2> QED BY <1>1, <1>12, <2>1 DEF ClaimWrite
<1>13. Aside
  BY <1>2, <1>3, <1>4, <1>5, <1>6, <1>7, <1>8, <1>10, <1>11, <1>12
<1> QED BY <1>13, FollowAside

LEMMA FollowRegister ==
    ASSUME IInv, FollowInv, NEW c \in Calls, Noted, RegisterAdd(c)
    PROVE  FollowInv'
<1> DEFINE u == req[c].user
           us == Set(users, u, Invited(c))
<1>1. /\ u \in Users /\ req[c].code \in Codes /\ req[c].op = "redeem"
      /\ users \in Lists /\ Filled(users)
  BY DEF RegisterAdd, IInv, StateInv, CallsInv, RequestInv, AccountsInv, Sound
<1>2. users[u] = NoAccount
  BY <1>1 DEF RegisterAdd, Filled
<1>3. Invited(c) \in Account
  <2>1. copy[c][req[c].code] \in Invite
    BY <1>1 DEF IInv, StateInv, CallsInv, Files
  <2> QED BY <2>1 DEF Invited, AccountFrom, Invite, Account
<1>4. us \in Lists
  BY <1>1, <1>3 DEF Set, Lists
<1>5. Set(us, u, NoAccount) = users
  BY <1>1, <1>2, <1>3 DEF Set, Lists
<1>6. RolledBack(c)' = users
  <2>1. req'[c] = req[c] /\ users' = us
    BY DEF RegisterAdd
  <2> QED BY <1>1, <1>5, <2>1 DEF RolledBack, Set
<1>7. Admins(users) # {} => Admins(us) # {}
  <2>1. u \notin Admins(users)
    BY <1>2 DEF Admins, NoAccount
  <2> QED BY <1>1, <1>3, <2>1, AdminsSet
<1>8. pc'[c] = "sync"
  BY DEF RegisterAdd, Goto, IInv, StateInv, CallsInv
<1>9. users' = us /\ syncQueue' = Queued(c, us) /\ UNCHANGED <<saved, faults>>
  BY DEF RegisterAdd
<1> HIDE DEF us
<1> QED BY <1>4, <1>6, <1>7, <1>8, <1>9, FollowChange

LEMMA FollowMutation ==
    ASSUME IInv, FollowInv, NEW c \in Calls, Noted, NEW r \in Request, NEW us \in Lists,
           Change(c, r, us), r.op # "redeem", Admins(users) # {} => Admins(us) # {}
    PROVE  FollowInv'
<1>1. pc'[c] = "sync" /\ req'[c] = r /\ before'[c] = users
  BY DEF Change, Goto, IInv, StateInv, CallsInv
<1>2. RolledBack(c)' = users
  BY <1>1 DEF RolledBack
<1>3. users' = us /\ syncQueue' = Queued(c, us) /\ UNCHANGED <<saved, faults>>
  BY DEF Change
<1> QED BY <1>1, <1>2, <1>3, FollowChange

LEMMA FollowRemove ==
    ASSUME IInv, FollowInv, NEW c \in Calls, Noted, NEW u \in Users, Remove(c, u)
    PROVE  FollowInv'
<1> DEFINE r == [op |-> "remove", code |-> None, user |-> u, name |-> None, admin |-> FALSE]
           us == Set(users, u, NoAccount)
<1>1. r \in Request /\ r.op # "redeem"
  BY DEF Request, Ops
<1>2. users \in Lists /\ us \in Lists
  BY Nothings DEF Set, Lists, IInv, StateInv, AccountsInv
<1>3. Admins(users) # {} => Admins(us) # {}
  BY <1>2, Nothings, AdminsSet, AnotherAdmin DEF Remove
<1>4. Change(c, r, us)
  BY DEF Remove
<1> HIDE DEF r, us
<1> QED BY <1>1, <1>2, <1>3, <1>4, FollowMutation

LEMMA FollowSetApps ==
    ASSUME IInv, FollowInv, NEW c \in Calls, Noted, NEW u \in Users, SetApps(c, u)
    PROVE  FollowInv'
<1> DEFINE r == [op |-> "apps", code |-> None, user |-> u, name |-> None, admin |-> FALSE]
           a == WithApps(users[u], c)
           us == Set(users, u, a)
<1>1. r \in Request /\ r.op # "redeem"
  BY DEF Request, Ops
<1>2. users \in Lists /\ a \in Account /\ a.admin = users[u].admin
  BY WithAppsType DEF WithApps, Lists, IInv, StateInv, AccountsInv
<1>3. us \in Lists
  BY <1>2 DEF Set, Lists
<1>4. Admins(users) # {} => Admins(us) # {}
  <2>1. u \in Admins(users) => a.admin
    BY <1>2 DEF Admins
  <2>2. Admins(users) \ {u} \subseteq Admins(us) /\ (a.admin => u \in Admins(us))
    BY <1>2, AdminsSet
  <2> QED BY <2>1, <2>2
<1>5. Change(c, r, us)
  BY DEF SetApps
<1> HIDE DEF r, us
<1> QED BY <1>1, <1>3, <1>4, <1>5, FollowMutation

(* The write succeeds: what was the last of the queue still is, or is in   *)
(* the file now.                                                           *)
LEMMA FollowSaved ==
    ASSUME IInv, FollowInv, NEW c \in Calls, Noted, SyncSaved(c)
    PROVE  FollowInv'
<1>1. /\ syncQueue \in Seq(Entry) /\ syncQueue # <<>>
      /\ saved' = Head(syncQueue).users /\ syncQueue' = Tail(syncQueue)
      /\ users' = users /\ faults' = faults /\ overlapped \in BOOLEAN
  BY DEF SyncSaved, Turn, IInv, StateInv, AccountsInv
<1>2. /\ Len(syncQueue) \in Nat /\ Head(syncQueue) = syncQueue[1] /\ 1 \in 1..Len(syncQueue)
      /\ Tail(syncQueue) # <<>> => Last(Tail(syncQueue)) = Last(syncQueue)
      /\ Tail(syncQueue) = <<>> => Len(syncQueue) = 1 /\ Last(syncQueue) = syncQueue[1].users
      /\ Len(syncQueue) <= 1 => Tail(syncQueue) = <<>>
      /\ \A i \in 1..Len(Tail(syncQueue)) :
             i + 1 \in 1..Len(syncQueue) /\ Tail(syncQueue)[i] = syncQueue[i + 1]
  BY <1>1, Unqueueing
<1>3. CleanInv'
  BY <1>1, <1>2 DEF FollowInv, CleanInv, Last
<1>4. CalmInv'
  <2> SUFFICES ASSUME ~overlapped' PROVE syncQueue' = <<>> /\ saved' = users'
    BY DEF CalmInv
  <2>1. ~overlapped
    BY <1>1 DEF Noted
  <2> QED BY <1>1, <1>2, <2>1 DEF FollowInv, CalmInv, Lone
<1>5. AdminsInv'
  <2> SUFFICES ASSUME Undisturbed' PROVE /\ Admins(users) # {} /\ Admins(saved') # {}
                  /\ \A i \in 1..Len(syncQueue') : Admins(syncQueue'[i].users) # {}
    BY <1>1 DEF AdminsInv, Admins
  <2>1. Undisturbed
    BY <1>1, StillUndisturbed
  <2> QED BY <1>1, <1>2, <2>1 DEF FollowInv, AdminsInv
<1> QED BY <1>3, <1>4, <1>5 DEF FollowInv

(* The write fails: if nobody queued behind it, memory is again what the   *)
(* file holds.                                                             *)
LEMMA FollowFails ==
    ASSUME IInv, FollowInv, NEW c \in Calls, Noted, SyncFails(c)
    PROVE  FollowInv'
<1>1. /\ syncQueue \in Seq(Entry) /\ syncQueue # <<>> /\ Head(syncQueue).call = c
      /\ syncQueue' = Tail(syncQueue) /\ users' = RolledBack(c)
      /\ saved' = saved /\ faults' = faults + 1 /\ faults \in Nat /\ overlapped \in BOOLEAN
  BY RegistryAssumption DEF SyncFails, Turn, IInv, StateInv, AccountsInv
<1>2. Head(syncQueue) = syncQueue[1] /\ (Len(syncQueue) <= 1 => Tail(syncQueue) = <<>>)
  BY <1>1, Unqueueing
<1>3. ASSUME ~overlapped' PROVE syncQueue' = <<>> /\ users' = saved /\ Undisturbed
  <2>1. ~overlapped
    BY <1>1, <1>3 DEF Noted
  <2> QED BY <1>1, <1>2, <2>1 DEF FollowInv, CalmInv, Lone, Undisturbed
<1>4. CleanInv'
  <2>1. faults' # 0
    BY <1>1
  <2> QED BY <2>1 DEF CleanInv
<1>5. CalmInv'
  <2> SUFFICES ASSUME ~overlapped' PROVE syncQueue' = <<>> /\ saved' = users'
    BY DEF CalmInv
  <2> QED BY <1>1, <1>3
<1>6. AdminsInv'
  <2> SUFFICES ASSUME Undisturbed' PROVE /\ Admins(users') # {} /\ Admins(saved) # {}
                                         /\ syncQueue' = <<>>
    BY <1>1 DEF AdminsInv, Admins
  <2>1. ~overlapped'
    BY <1>1 DEF Undisturbed
  <2> QED BY <1>3, <2>1 DEF FollowInv, AdminsInv
<1> QED BY <1>4, <1>5, <1>6 DEF FollowInv

LEMMA FollowRestart ==
    ASSUME IInv, FollowInv, Noted, Restart
    PROVE  FollowInv'
<1>1. syncQueue' = <<>> /\ users' = saved /\ saved' = saved /\ faults' = faults
  BY DEF Restart
<1>2. AdminsInv'
  <2>1. Undisturbed' => Undisturbed
    BY <1>1, StillUndisturbed
  <2> QED BY <1>1, <2>1 DEF FollowInv, AdminsInv, Admins
<1>3. CleanInv' /\ CalmInv'
  BY <1>1 DEF CleanInv, CalmInv
<1> QED BY <1>2, <1>3 DEF FollowInv

LEMMA FollowTime ==
    ASSUME IInv, FollowInv, NEW k \in Codes, Noted, Expire(k) \/ Age(k)
    PROVE  FollowInv'
BY FollowApart DEF Expire, Age, accounts

-----------------------------------------------------------------------------
(* Who a code was granted to.                                              *)
(*                                                                         *)
(* A create locks the path of invites.yaml, a claim locks its code, and    *)
(* both rewrite the whole file. Calls of one key exclude each other by the *)
(* locks; that sections of different keys overlap is what is assumed not   *)
(* to happen.                                                              *)

Section == {"createCheck", "createWrite", "claimWrite"}

SameKey(c, d) ==
    IF pc[c] = "claimWrite" THEN pc[d] = "claimWrite" /\ req[d].code = req[c].code
                            ELSE pc[d] # "claimWrite"

OneKeyAtATime ==
    \A c, d \in Calls : pc[c] \in Section /\ pc[d] \in Section => SameKey(c, d)

HoldInv ==
    \A c \in Calls :
        /\ pc[c] \in {"createName", "createCheck", "createWrite"} => pathLock = c
        /\ pc[c] = "claimWrite" => codeLock[req[c].code] = c

Agree(i, j) == i.name = j.name /\ i.usedBy = j.usedBy

(* The mark of a granted code is in the file as long as the invite is ...  *)
GrantInv ==
    \A k \in Codes : claimed[k] # {} =>
        /\ k \in minted
        /\ \E u \in Users : claimed[k] = {u} /\ (invites[k].name # None => invites[k].usedBy = u)

(* ... and in what is about to be written.                                 *)
MarksInv ==
    \A c \in Calls : pc[c] \in Section =>
        \A k \in Codes : claimed[k] # {} => Agree(copy[c][k], invites[k])

ClaimInv ==
    \A c \in Calls :
        /\ pc[c] \in {"claim", "claimWrite"} => req[c].code \in minted
        /\ pc[c] = "claimWrite" => /\ claimed[req[c].code] = {}
                                   /\ copy[c][req[c].code].usedBy = req[c].user

OwnerInv == HoldInv /\ GrantInv /\ MarksInv /\ ClaimInv

LEMMA AloneInFile ==
    ASSUME OwnerInv, OneKeyAtATime, NEW c \in Calls, NEW d \in Calls,
           pc[c] \in Section, pc[d] \in Section
    PROVE  c = d
BY DEF OwnerInv, OneKeyAtATime, SameKey, HoldInv, Section

(* A call that is over, or goes on where it holds nothing.                 *)
LEMMA OwnerLeaves ==
    ASSUME IInv, OwnerInv, NEW c \in Calls, NEW l \in {"idle", "create", "register", "sync"},
           Goto(c, l), \A d \in Calls \ {c} : copy'[d] = copy[d] /\ req'[d] = req[d],
           UNCHANGED <<invites, minted, claimed>>,
           \A d \in Calls \ {c} : pc[d] \in {"createName", "createCheck", "createWrite"} =>
                                      pathLock' = pathLock,
           \A d \in Calls \ {c} : pc[d] = "claimWrite" =>
                                      codeLock'[req[d].code] = codeLock[req[d].code]
    PROVE  OwnerInv'
<1>1. \A d \in Calls : pc'[d] = IF d = c THEN l ELSE pc[d]
  BY DEF Goto, IInv, StateInv, CallsInv
<1>2. HoldInv'
  BY <1>1 DEF OwnerInv, HoldInv
<1>3. GrantInv'
  BY DEF OwnerInv, GrantInv
<1>4. MarksInv'
  BY <1>1 DEF OwnerInv, MarksInv, Section, Agree
<1>5. ClaimInv'
  BY <1>1 DEF OwnerInv, ClaimInv
<1> QED BY <1>2, <1>3, <1>4, <1>5 DEF OwnerInv

LEMMA OwnerReturns ==
    ASSUME IInv, OwnerInv, NEW c \in Calls, Return(c),
           UNCHANGED <<invites, minted, claimed, codeLock, pathLock>>
    PROVE  OwnerInv'
<1>1. \A d \in Calls \ {c} : copy'[d] = copy[d] /\ req'[d] = req[d]
  BY DEF Return, IInv, StateInv, CallsInv
<1> QED BY <1>1, OwnerLeaves DEF Return

LEMMA OwnerCreateEnds ==
    ASSUME IInv, OwnerInv, NEW c \in Calls, CreateRefuse(c) \/ CreateFails(c)
    PROVE  OwnerInv'
<1>1. \A d \in Calls \ {c} : copy'[d] = copy[d] /\ req'[d] = req[d]
  BY DEF CreateRefuse, CreateFails, Return, IInv, StateInv, CallsInv
<1>2. pc[c] \in {"createCheck", "createWrite"} /\ pathLock = c
  BY DEF CreateRefuse, CreateFails, OwnerInv, HoldInv
<1>3. \A d \in Calls \ {c} : pc[d] \notin {"createName", "createCheck", "createWrite"}
  BY <1>2 DEF OwnerInv, HoldInv
<1> QED BY <1>1, <1>3, OwnerLeaves DEF CreateRefuse, CreateFails, CreateLeave, Return, files

LEMMA OwnerClaimFails ==
    ASSUME IInv, OwnerInv, NEW c \in Calls, ClaimFails(c)
    PROVE  OwnerInv'
<1>1. \A d \in Calls \ {c} : copy'[d] = copy[d] /\ req'[d] = req[d]
  BY DEF ClaimFails, Return, IInv, StateInv, CallsInv
<1>2. codeLock[req[c].code] = c /\ codeLock \in [Codes -> Calls \cup {None}]
  BY DEF ClaimFails, OwnerInv, HoldInv, IInv, StateInv, LocksInv
<1>3. \A d \in Calls \ {c} : pc[d] = "claimWrite" =>
                                 req[d].code # req[c].code /\ req[d].code \in Codes
  BY <1>2 DEF OwnerInv, HoldInv, IInv, StateInv, CallsInv, RequestInv
<1>4. \A d \in Calls \ {c} : pc[d] = "claimWrite" => codeLock'[req[d].code] = codeLock[req[d].code]
  BY <1>2, <1>3 DEF ClaimFails, FreeCode
<1>5. UNCHANGED <<invites, minted, claimed, pathLock>> /\ Goto(c, "idle")
  BY DEF ClaimFails, files, Return
<1> QED BY <1>1, <1>4, <1>5, OwnerLeaves

LEMMA OwnerBegins ==
    ASSUME IInv, OwnerInv, NEW c \in Calls,
           \/ \E n \in Names, a \in BOOLEAN : BeginCreate(c, n, a)
           \/ \E u \in Users : Remove(c, u) \/ SetApps(c, u)
    PROVE  OwnerInv'
<1>1. \E l \in {"create", "sync"} : Goto(c, l)
  BY DEF BeginCreate, Remove, SetApps, Change
<1>2. \A d \in Calls \ {c} : copy'[d] = copy[d] /\ req'[d] = req[d]
  BY DEF BeginCreate, Remove, SetApps, Change, IInv, StateInv, CallsInv
<1>3. UNCHANGED <<invites, minted, claimed, codeLock, pathLock>>
  BY DEF BeginCreate, Remove, SetApps, Change, files, locks
<1> QED BY <1>1, <1>2, <1>3, OwnerLeaves

LEMMA OwnerBeginRedeem ==
    ASSUME IInv, OwnerInv, NEW c \in Calls, NEW k \in minted, NEW u \in Users,
           BeginRedeem(c, k, u)
    PROVE  OwnerInv'
<1>1. \A d \in Calls : pc'[d] = IF d = c THEN "claim" ELSE pc[d]
  BY DEF BeginRedeem, Goto, IInv, StateInv, CallsInv
<1>2. /\ req'[c].code = k /\ \A d \in Calls \ {c} : req'[d] = req[d]
      /\ UNCHANGED <<invites, minted, claimed, codeLock, pathLock, copy>>
  BY DEF BeginRedeem, files, locks, IInv, StateInv, CallsInv
<1>3. HoldInv' /\ GrantInv'
  BY <1>1, <1>2 DEF OwnerInv, HoldInv, GrantInv
<1>4. MarksInv'
  BY <1>1, <1>2 DEF OwnerInv, MarksInv, Section, Agree
<1>5. ClaimInv'
  BY <1>1, <1>2 DEF OwnerInv, ClaimInv
<1> QED BY <1>3, <1>4, <1>5 DEF OwnerInv

LEMMA OwnerCreateLocks ==
    ASSUME IInv, OwnerInv, NEW c \in Calls, CreateLockPath(c) \/ CreateRead(c)
    PROVE  OwnerInv'
<1>1. /\ \A d \in Calls \ {c} : pc'[d] = pc[d] /\ copy'[d] = copy[d]
      /\ UNCHANGED <<invites, minted, claimed, codeLock, req>>
  BY DEF CreateLockPath, CreateRead, Goto, files, IInv, StateInv, CallsInv
<1>2. \/ pc'[c] = "createName" /\ pathLock = None /\ pathLock' = c
      \/ pc[c] = "createName" /\ pc'[c] = "createCheck"
         /\ copy'[c] = invites /\ pathLock' = pathLock
  BY DEF CreateLockPath, CreateRead, Goto, IInv, StateInv, CallsInv
<1>3. HoldInv'
  <2>1. c # None /\ \A d \in Calls : d # None
    BY RegistryAssumption
  <2> QED BY <1>1, <1>2, <2>1 DEF OwnerInv, HoldInv
<1>4. GrantInv' /\ ClaimInv'
  BY <1>1, <1>2 DEF OwnerInv, GrantInv, ClaimInv
<1>5. MarksInv'
  BY <1>1, <1>2 DEF OwnerInv, MarksInv, Section, Agree
<1> QED BY <1>3, <1>4, <1>5 DEF OwnerInv

LEMMA OwnerDraws ==
    ASSUME IInv, OwnerInv, NEW c \in Calls, NEW k \in Codes, CreateDraw(c, k)
    PROVE  OwnerInv'
<1>1. /\ \A d \in Calls : pc'[d] = IF d = c THEN "createWrite" ELSE pc[d]
      /\ pc[c] = "createCheck" /\ k \notin minted
      /\ UNCHANGED <<invites, claimed, codeLock, pathLock, req>>
      /\ minted' = minted \cup {k}
  BY DEF CreateDraw, Goto, locks, IInv, StateInv, CallsInv
<1>2. \A d \in Calls, j \in Codes : d # c \/ j # k => copy'[d][j] = copy[d][j]
  BY DEF CreateDraw, With, IInv, StateInv, CallsInv, Files
<1>3. claimed[k] = {}
  BY <1>1 DEF OwnerInv, GrantInv
<1>4. HoldInv' /\ GrantInv'
  BY <1>1 DEF OwnerInv, HoldInv, GrantInv
<1>5. ClaimInv'
  <2>1. \A d \in Calls : pc[d] = "claimWrite" => req[d].code \in Codes /\ d # c
    BY <1>1 DEF IInv, StateInv, CallsInv, RequestInv
  <2> QED BY <1>1, <1>2, <2>1 DEF OwnerInv, ClaimInv
<1>6. MarksInv'
  BY <1>1, <1>2, <1>3 DEF OwnerInv, MarksInv, Section, Agree
<1> QED BY <1>4, <1>5, <1>6 DEF OwnerInv

LEMMA OwnerCreates ==
    ASSUME IInv, OwnerInv, OneKeyAtATime, NEW c \in Calls, CreateWrite(c)
    PROVE  OwnerInv'
<1>1. /\ \A d \in Calls : pc'[d] = IF d = c THEN "idle" ELSE pc[d]
      /\ \A d \in Calls \ {c} : req'[d] = req[d]
      /\ pc[c] = "createWrite" /\ invites' = copy[c]
      /\ UNCHANGED <<minted, claimed, codeLock>>
  BY DEF CreateWrite, CreateLeave, Return, Goto, IInv, StateInv, CallsInv
<1>2. \A d \in Calls \ {c} : pc[d] \notin Section /\ pc[d] # "createName"
  BY <1>1, AloneInFile DEF Section, OwnerInv, HoldInv
<1>3. HoldInv' /\ MarksInv'
  BY <1>1, <1>2 DEF OwnerInv, HoldInv, MarksInv, Section
<1>4. ClaimInv'
  BY <1>1, <1>2 DEF OwnerInv, ClaimInv, Section
<1>5. GrantInv'
  BY <1>1 DEF OwnerInv, GrantInv, MarksInv, Section, Agree
<1> QED BY <1>3, <1>4, <1>5 DEF OwnerInv

LEMMA OwnerReads ==
    ASSUME IInv, OwnerInv, NEW c \in Calls, ClaimRead(c)
    PROVE  OwnerInv'
<1> DEFINE k == req[c].code
<1>1. /\ \A d \in Calls : pc'[d] = IF d = c THEN "claimWrite" ELSE pc[d]
      /\ pc[c] = "claim" /\ codeLock[k] = None /\ k \in Codes
      /\ invites[k].name # None /\ invites[k].usedBy = None
      /\ UNCHANGED <<invites, minted, claimed, pathLock, req>>
  BY DEF ClaimRead, CodeFree, Open, Goto, files, IInv, StateInv, CallsInv, RequestInv
<1>2. /\ \A d \in Calls \ {c} : copy'[d] = copy[d]
      /\ \A j \in Codes \ {k} : copy'[c][j] = invites[j]
      /\ copy'[c][k].usedBy = req[c].user
  BY <1>1 DEF ClaimRead, With, UsedBy, IInv, StateInv, CallsInv, FilesInv, Files
<1>3. codeLock'[k] = c /\ \A j \in Codes \ {k} : codeLock'[j] = codeLock[j]
  BY <1>1 DEF ClaimRead, IInv, StateInv, LocksInv
<1>4. claimed[k] = {} /\ k \in minted
  <2>1. None \notin Users
    BY RegistryAssumption
  <2> QED BY <1>1, <2>1 DEF OwnerInv, GrantInv, ClaimInv
<1>5. HoldInv'
  <2>1. \A d \in Calls : d # None
    BY RegistryAssumption
  <2>2. \A d \in Calls : pc[d] = "claimWrite" => req[d].code \in Codes
    BY DEF IInv, StateInv, CallsInv, RequestInv
  <2> QED BY <1>1, <1>3, <2>1, <2>2 DEF OwnerInv, HoldInv
<1>6. GrantInv'
  BY <1>1 DEF OwnerInv, GrantInv
<1>7. MarksInv'
  BY <1>1, <1>2, <1>4 DEF OwnerInv, MarksInv, Section, Agree
<1>8. ClaimInv'
  BY <1>1, <1>2, <1>4 DEF OwnerInv, ClaimInv
<1> QED BY <1>5, <1>6, <1>7, <1>8 DEF OwnerInv

LEMMA OwnerClaims ==
    ASSUME IInv, OwnerInv, OneKeyAtATime, NEW c \in Calls, ClaimWrite(c)
    PROVE  OwnerInv'
<1> DEFINE k == req[c].code
<1>1. /\ pc[c] = "claimWrite" /\ invites' = copy[c]
      /\ claimed' = [claimed EXCEPT ![k] = @ \cup {req[c].user}]
      /\ k \in Codes /\ req[c].user \in Users /\ claimed \in [Codes -> SUBSET Users]
      /\ UNCHANGED <<minted, pathLock>>
  BY DEF ClaimWrite, IInv, StateInv, CallsInv, FilesInv, RequestInv
<1>2. /\ pc'[c] \in {"idle", "register"} /\ \A d \in Calls \ {c} : pc'[d] = pc[d]
      /\ \A d \in Calls \ {c} : req'[d] = req[d]
  BY DEF ClaimWrite, AfterClaim, Return, Goto, IInv, StateInv, CallsInv
<1>3. \A d \in Calls \ {c} : pc[d] \notin Section
  BY <1>1, AloneInFile DEF Section
<1>4. claimed'[k] = {req[c].user} /\ \A j \in Codes \ {k} : claimed'[j] = claimed[j]
  BY <1>1 DEF OwnerInv, ClaimInv
<1>5. HoldInv' /\ MarksInv'
  BY <1>1, <1>2, <1>3 DEF OwnerInv, HoldInv, MarksInv, Section
<1>6. ClaimInv'
  BY <1>1, <1>2, <1>3 DEF OwnerInv, ClaimInv, Section
<1>7. GrantInv'
  <2>1. k \in minted' /\ invites'[k].usedBy = req[c].user
    BY <1>1 DEF OwnerInv, ClaimInv
  <2>2. \A j \in Codes : claimed[j] # {} => Agree(invites'[j], invites[j])
    BY <1>1 DEF OwnerInv, MarksInv, Section
  <2> QED BY <1>1, <1>4, <2>1, <2>2 DEF OwnerInv, GrantInv, Agree
<1> QED BY <1>5, <1>6, <1>7 DEF OwnerInv

LEMMA OwnerClaimAgain ==
    ASSUME IInv, OwnerInv, NEW c \in Calls, ClaimAgain(c)
    PROVE  OwnerInv'
<1>1. \E l \in {"idle", "register"} : Goto(c, l)
  BY DEF ClaimAgain, AfterClaim, Return
<1>2. \A d \in Calls \ {c} : copy'[d] = copy[d] /\ req'[d] = req[d]
  BY DEF ClaimAgain, AfterClaim, Return, IInv, StateInv, CallsInv
<1>3. UNCHANGED <<invites, minted, claimed, codeLock, pathLock>>
  BY DEF ClaimAgain, files, locks
<1> QED BY <1>1, <1>2, <1>3, OwnerLeaves

LEMMA OwnerAccounts ==
    ASSUME IInv, OwnerInv, NEW c \in Calls,
           \/ ClaimRefused(c) \/ RegisterKnown(c) \/ RegisterRefused(c) \/ RegisterAdd(c)
           \/ SyncSaved(c) \/ SyncFails(c)
    PROVE  OwnerInv'
<1>1. CASE RegisterAdd(c)
  BY <1>1, OwnerLeaves DEF RegisterAdd, files
<1>2. CASE ~RegisterAdd(c)
  BY <1>2, OwnerReturns DEF ClaimRefused, RegisterKnown, RegisterRefused, SyncSaved, SyncFails,
                            files, locks
<1> QED BY <1>1, <1>2

LEMMA OwnerTime ==
    ASSUME IInv, OwnerInv, NEW k \in Codes, Expire(k) \/ Age(k)
    PROVE  OwnerInv'
<1>1. /\ UNCHANGED <<minted, claimed, codeLock, pathLock, pc, req, copy>>
      /\ \A j \in Codes : Agree(invites'[j], invites[j])
  BY DEF Expire, Age, With, PastDate, WeekOld, Agree, locks, IInv, StateInv, FilesInv, Files
<1>2. HoldInv' /\ ClaimInv'
  BY <1>1 DEF OwnerInv, HoldInv, ClaimInv
<1>3. GrantInv' /\ MarksInv'
  BY <1>1 DEF OwnerInv, GrantInv, MarksInv, Agree
<1> QED BY <1>2, <1>3 DEF OwnerInv

LEMMA OwnerRestart ==
    ASSUME IInv, OwnerInv, Restart
    PROVE  OwnerInv'
<1>1. /\ \A c \in Calls : pc'[c] = "idle"
      /\ UNCHANGED <<minted, claimed>>
      /\ \A k \in Codes : invites'[k].name = None \/ invites'[k] = invites[k]
  BY DEF Restart, Cleaned, NoInvite
<1>2. HoldInv' /\ ClaimInv' /\ MarksInv'
  BY <1>1 DEF HoldInv, ClaimInv, MarksInv, Section
<1>3. GrantInv'
  BY <1>1 DEF OwnerInv, GrantInv
<1> QED BY <1>2, <1>3 DEF OwnerInv

LEMMA OwnerNext == IInv /\ OwnerInv /\ OneKeyAtATime /\ [Next]_vars => OwnerInv'
<1> SUFFICES ASSUME IInv, OwnerInv, OneKeyAtATime, [Next]_vars PROVE OwnerInv'
  OBVIOUS
<1>1. CASE Next
  <2> USE <1>1 DEF Next
  <2>1. ASSUME NEW c \in Calls, Begin(c) PROVE OwnerInv'
    BY <2>1, OwnerBegins, OwnerBeginRedeem DEF Begin
  <2>2. ASSUME NEW c \in Calls, CallStep(c) PROVE OwnerInv'
    BY <2>2, OwnerCreateLocks, OwnerCreateEnds, OwnerDraws, OwnerCreates, OwnerClaimAgain,
       OwnerReads, OwnerClaims, OwnerClaimFails, OwnerAccounts DEF CallStep
  <2> QED BY <2>1, <2>2, OwnerTime, OwnerRestart DEF Step
<1>2. CASE UNCHANGED vars
  <2>1. UNCHANGED <<invites, minted, claimed, codeLock, pathLock, pc, req, copy>>
    BY <1>2 DEF vars, files, locks
  <2> QED BY <2>1 DEF OwnerInv, HoldInv, GrantInv, MarksInv, ClaimInv, Agree
<1> QED BY <1>1, <1>2

-----------------------------------------------------------------------------
(* The theorems                                                            *)

LEMMA InitInv == Init => IInv
<1> SUFFICES ASSUME Init PROVE IInv
  OBVIOUS
<1> DEFINE rootAccount == [name |-> RootName, admin |-> TRUE, apps |-> None]
<1>1. \A n \in Names : LegacyInvite(n) \in Invite /\ LegacyInvite(n).name # None
  BY RegistryAssumption DEF LegacyInvite, Invite
<1>2. FilesInv
  BY <1>1, Nothings, RegistryAssumption DEF Init, FilesInv, Files, Whole, NoInvite
<1>3. rootAccount \in Account
  BY RegistryAssumption DEF Account
<1>4. users = [u \in Users |-> IF u = Root THEN rootAccount ELSE NoAccount]
  BY DEF Init
<1> HIDE DEF rootAccount
<1>5. users \in Lists
  BY <1>3, <1>4, Nothings DEF Lists
<1>6. Sound(users)
  <2>1. rootAccount.name # None
    BY RegistryAssumption DEF rootAccount
  <2> QED BY <1>4, <2>1 DEF Sound, Distinct, Filled, NoAccount
<1>7. AccountsInv
  <2>1. syncQueue = <<>> /\ saved = users /\ members \subseteq Users
    BY RegistryAssumption DEF Init
  <2> QED BY <1>5, <1>6, <2>1 DEF AccountsInv
<1>8. LocksInv
  <2>1. codeLock = [k \in Codes |-> None] /\ pathLock = None /\ nameLock = None
    BY DEF Init
  <2> QED BY <2>1 DEF LocksInv
<1>10. faults \in 0..MaxFaults
  <2>1. faults = 0 /\ MaxFaults \in Nat
    BY RegistryAssumption DEF Init
  <2> QED BY <2>1
<1>11. overlapped \in BOOLEAN
  BY DEF Init
<1>9. CallsInv
  <2>1. /\ pc = [c \in Calls |-> "idle"] /\ req = [c \in Calls |-> NoRequest]
        /\ copy = [c \in Calls |-> NoInvites] /\ before = [c \in Calls |-> NoUsers]
    BY DEF Init
  <2>2. RequestInv
    BY <2>1 DEF RequestInv, NoRequest
  <2> QED BY <2>1, <2>2, Nothings, NothingLists DEF CallsInv, PCs
<1> QED BY <1>2, <1>7, <1>8, <1>9, <1>10, <1>11 DEF IInv, StateInv

LEMMA NextInv == IInv /\ [Next]_vars => IInv'
<1> SUFFICES ASSUME IInv, [Next]_vars PROVE IInv'
  OBVIOUS
<1>1. StateInv
  BY DEF IInv
<1>2. CASE Next
  <2>1. overlapped' \in BOOLEAN
    BY <1>2 DEF Next, Noted, IInv
  <2>2. StateInv'
    <3>1. ASSUME NEW c \in Calls, Begin(c) PROVE StateInv'
      <4>1. minted \subseteq Codes
        BY <1>1 DEF StateInv, FilesInv
      <4> QED BY <1>1, <3>1, <4>1, BeginCreateKeeps, BeginRedeemKeeps, RemoveKeeps,
                 SetAppsKeeps DEF Begin
    <3>2. ASSUME NEW c \in Calls, CallStep(c) PROVE StateInv'
      BY <1>1, <3>2, CreateLockPathKeeps, CreateReadKeeps, CreateRefuseKeeps,
         CreateDrawKeeps, CreateWriteKeeps, CreateFailsKeeps, ClaimRefusedKeeps,
         ClaimAgainKeeps, ClaimReadKeeps, ClaimWriteKeeps, ClaimFailsKeeps,
         RegisterKnownKeeps, RegisterAddKeeps, SyncSavedKeeps, SyncFailsKeeps
         DEF CallStep
    <3> QED BY <1>1, <1>2, <3>1, <3>2, TimeKeeps, RestartKeeps DEF Next, Step
  <2> QED BY <2>1, <2>2 DEF IInv
<1>3. CASE UNCHANGED vars
  BY <1>1, <1>3, FilesStay, LocksStay, AccountsStay
     DEF vars, files, locks, accounts, IInv, StateInv, CallsInv, RequestInv
<1> QED BY <1>2, <1>3

(* The lists in force and those that may come to be stay free of doubles   *)
(* (registerUser, syncUsersToConfig, restoreUsers).                        *)
THEOREM Invariance == Spec => []IInv
BY InitInv, NextInv, PTL DEF Spec

(* The state of the registry keeps its shape.                              *)
THEOREM TypeCorrect == Spec => []TypeOK
<1>1. IInv => TypeOK
  BY DEF IInv, StateInv, FilesInv, LocksInv, AccountsInv, CallsInv, Files, Lists,
         Entry, Whole, TypeOK
<1> QED BY <1>1, Invariance, PTL

(* No two accounts have one display name, in memory or in pas.yaml:        *)
(* whatever invites promise, calls overlap, writes fail and processes      *)
(* restart.                                                                *)
THEOREM NamesSafe == Spec => []NamesUnique
<1>1. IInv => NamesUnique
  BY DEF IInv, StateInv, AccountsInv, Sound, Distinct, NamesUnique
<1> QED BY <1>1, Invariance, PTL

LEMMA FollowInit == Init => FollowInv
<1> SUFFICES ASSUME Init PROVE FollowInv
  OBVIOUS
<1>1. /\ syncQueue = <<>> /\ saved = users /\ faults = 0
      /\ users[Root].admin /\ Root \in Users
  BY RegistryAssumption DEF Init
<1>2. Root \in Admins(users)
  BY <1>1 DEF Admins
<1>3. AdminsInv
  BY <1>1, <1>2 DEF AdminsInv
<1> QED BY <1>1, <1>3 DEF FollowInv, CleanInv, CalmInv

LEMMA FollowNext == IInv /\ FollowInv /\ [Next]_vars => FollowInv'
<1> SUFFICES ASSUME IInv, FollowInv, [Next]_vars PROVE FollowInv'
  OBVIOUS
<1>1. CASE Next
  <2> USE <1>1 DEF Next
  <2>1. ASSUME NEW c \in Calls, Begin(c) PROVE FollowInv'
    <3>1. minted \subseteq Codes
      BY DEF IInv, StateInv, FilesInv
    <3> QED BY <2>1, <3>1, FollowInvites, FollowRemove, FollowSetApps DEF Begin
  <2>2. ASSUME NEW c \in Calls, CallStep(c) PROVE FollowInv'
    BY <2>2, FollowInvites, FollowRegister, FollowSaved, FollowFails DEF CallStep
  <2> QED BY <2>1, <2>2, FollowTime, FollowRestart DEF Step
<1>2. CASE UNCHANGED vars
  <2>1. UNCHANGED <<users, saved, syncQueue, pc, req, before, faults, overlapped>>
    BY <1>2 DEF vars, accounts
  <2> QED BY <2>1 DEF FollowInv, CleanInv, CalmInv, AdminsInv, Lone, RolledBack, Set,
                      Admins, Undisturbed, Last
<1> QED BY <1>1, <1>2

(* What a step of the lists may rest on: IInv, and how memory follows the  *)
(* file (syncUsersToConfig, restoreUsers).                                 *)
LEMMA FollowInvariance == Spec => []FollowInv
BY Invariance, FollowInit, FollowNext, PTL DEF Spec

(* When no call is waiting for pas.yaml the file holds what memory holds,  *)
(* unless a write failed that another one had queued behind.               *)
THEOREM SavesFollow == Spec => []SavedFollows
<1>1. FollowInv => SavedFollows
  BY DEF FollowInv, CleanInv, CalmInv, Undisturbed, SavedFollows
<1> QED BY <1>1, FollowInvariance, PTL

(* There is an administrator in memory and in pas.yaml, however many       *)
(* removals overlap and registrations are under way (LastAdminError), as   *)
(* long as no failed write has put back a list changed since.              *)
THEOREM AdminStays == Spec => []AdminRemains
<1>1. FollowInv => AdminRemains
  BY DEF FollowInv, AdminsInv, AdminRemains
<1> QED BY <1>1, FollowInvariance, PTL

(* A code is granted to one user, whoever redeems it at the same time or   *)
(* later, fails or restarts, as long as no two sections of invites.yaml    *)
(* overlap that lock different keys (claimAndRedeem locks the code,        *)
(* createInvite the path).                                                 *)
THEOREM GrantedOnce == Spec /\ []OneKeyAtATime => []OneClaimant
<1>1. Init => OwnerInv
  BY DEF Init, OwnerInv, HoldInv, GrantInv, MarksInv, ClaimInv, Section
<1>2. OwnerInv => OneClaimant
  <2>1. Cardinality({}) = 0 /\ \A u \in Users : Cardinality({u}) = 1
    BY FS_EmptySet, FS_Singleton
  <2> SUFFICES ASSUME GrantInv, NEW k \in Codes PROVE Cardinality(claimed[k]) <= 1
    BY DEF OwnerInv, OneClaimant
  <2>2. CASE claimed[k] = {}
    BY <2>1, <2>2
  <2>3. CASE claimed[k] # {}
    <3>1. PICK u \in Users : claimed[k] = {u}
      BY <2>3 DEF GrantInv
    <3> QED BY <2>1, <3>1
  <2> QED BY <2>2, <2>3
<1> QED BY <1>1, <1>2, OwnerNext, Invariance, PTL DEF Spec
=============================================================================
