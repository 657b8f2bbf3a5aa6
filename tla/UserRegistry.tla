---------------------------- MODULE UserRegistry ----------------------------
(***************************************************************************)
(* Invite codes and user accounts: InviteService (services/invite),        *)
(* redeemInviteAndRegister, UserMutationService and the UserManager it     *)
(* changes, with pas.yaml behind them.                                     *)
(*                                                                         *)
(* Every call is an asynchronous function of one Node process: it runs up  *)
(* to its next await without interruption, and two calls interleave at     *)
(* awaits only.  invites.yaml is read, changed and written whole.          *)
(* createInvite does it under a lock on the file (and on display names),   *)
(* claimAndRedeem under a lock on the code.  The users of pas.yaml are     *)
(* written from the in-memory list by calls that queue for the file.       *)
(***************************************************************************)
EXTENDS Naturals, Sequences, FiniteSets

CONSTANTS
    Calls,      \* the calls that may be under way at the same time
    Codes,      \* invite codes
    Legacy,     \* the codes written before invites named a household
    Users,      \* Telegram user ids
    Root,       \* the administrator the configuration starts with
    Names,      \* normalised display names
    RootName,   \* the name of Root
    None,       \* "no value", outside all the sets above
    MaxFaults   \* how many writes may fail in a behaviour

ASSUME RegistryAssumption ==
    /\ Legacy \subseteq Codes /\ Root \in Users /\ RootName \in Names
    /\ None \notin Calls \cup Codes \cup Users \cup Names
    /\ MaxFaults \in Nat

VARIABLES
    invites,    \* invites.yaml
    minted,     \* the codes drawn so far: 32 random bits, taken never to repeat
    claimed,    \* who a code was ever granted to (history)
    users,      \* UserManager's list
    saved,      \* the users of pas.yaml
    members,    \* the users HouseholdService has a household for
    codeLock,   \* InviteService's own AsyncLock, per code
    pathLock,   \* withMultiFileLock: the lock on invites.yaml
    nameLock,   \* withMultiFileLock: the lock on display names
    syncQueue,  \* callers of mutatePasYaml in order, each with what it writes
    pc, req,    \* where each call is and what it was called with
    copy,       \* the content of invites.yaml a call is about to write
    before,     \* snapshotUsers: what a call restores when its sync fails
    faults,
    overlapped  \* a call had to wait for another one's write of pas.yaml (history)

files == <<invites, minted, claimed>>
accounts == <<users, saved, members, syncQueue>>
locks == <<codeLock, pathLock, nameLock>>
vars == <<files, accounts, locks, pc, req, copy, before, faults, overlapped>>

PCs == {"idle", "create", "createName", "createCheck", "createWrite",
        "claim", "claimWrite", "register", "sync"}

Ops == {"create", "redeem", "remove", "apps"}

Request == [op : Ops, code : Codes \cup {None}, user : Users \cup {None},
            name : Names \cup {None}, admin : BOOLEAN]

NoRequest == [op |-> "apps", code |-> None, user |-> None, name |-> None,
              admin |-> FALSE]

(* apps stands for the lists a call may replace: None as invited, else the *)
(* call that replaced them last.                                           *)
Account == [name : Names \cup {None}, admin : BOOLEAN, apps : Calls \cup {None}]

NoAccount == [name |-> None, admin |-> FALSE, apps |-> None]

Invite == [name : Names \cup {None}, admin : BOOLEAN,
           usedBy : Users \cup {None}, expired : BOOLEAN, old : BOOLEAN]

NoInvite == [name |-> None, admin |-> FALSE, usedBy |-> None,
             expired |-> FALSE, old |-> FALSE]

Registered(us) == {u \in Users : us[u].name # None}
Admins(us) == {u \in Users : us[u].admin}

(* The account an invite gives to the user who claims it.                  *)
AccountFrom(i) == [name |-> i.name, admin |-> i.admin, apps |-> None]

TypeOK ==
    /\ invites \in [Codes -> Invite]
    /\ \A k \in Codes : invites[k].name = None => invites[k] = NoInvite
    /\ minted \subseteq Codes
    /\ claimed \in [Codes -> SUBSET Users]
    /\ users \in [Users -> Account]
    /\ saved \in [Users -> Account]
    /\ members \subseteq Users
    /\ codeLock \in [Codes -> Calls \cup {None}]
    /\ pathLock \in Calls \cup {None}
    /\ nameLock \in Calls \cup {None}
    /\ syncQueue \in Seq([call : Calls, users : [Users -> Account]])
    /\ pc \in [Calls -> PCs]
    /\ req \in [Calls -> Request]
    /\ copy \in [Calls -> [Codes -> Invite]]
    /\ before \in [Calls -> [Users -> Account]]
    /\ faults \in 0..MaxFaults /\ overlapped \in BOOLEAN

Goto(c, l) == pc' = [pc EXCEPT ![c] = l]

NoInvites == [k \in Codes |-> NoInvite]
NoUsers == [u \in Users |-> NoAccount]

(* The call is over, with a result or an error; its place is free again.   *)
Return(c) ==
    /\ Goto(c, "idle")
    /\ req' = [req EXCEPT ![c] = NoRequest]
    /\ copy' = [copy EXCEPT ![c] = NoInvites]
    /\ before' = [before EXCEPT ![c] = NoUsers]

-----------------------------------------------------------------------------
(* createInvite                                                            *)

(* Codes bounds the invites of a behaviour: one is left for every create.  *)
CodeLeft ==
    Cardinality({d \in Calls : pc[d] \in {"create", "createName", "createCheck"}})
        < Cardinality(Codes \ minted)

BeginCreate(c, n, a) ==
    /\ pc[c] = "idle" /\ CodeLeft
    /\ req' = [req EXCEPT ![c] = [op |-> "create", code |-> None, user |-> None,
                                  name |-> n, admin |-> a]]
    /\ Goto(c, "create")
    /\ UNCHANGED <<files, accounts, locks, copy, before, faults>>

(* Keys are taken in sorted order: the path, which starts with a slash,    *)
(* before display-name:uniqueness.                                         *)
CreateLockPath(c) ==
    /\ pc[c] = "create" /\ pathLock = None
    /\ pathLock' = c
    /\ Goto(c, "createName")
    /\ UNCHANGED <<files, accounts, codeLock, nameLock, req, copy, before, faults>>

CreateRead(c) ==
    /\ pc[c] = "createName" /\ nameLock = None
    /\ nameLock' = c
    /\ copy' = [copy EXCEPT ![c] = invites]
    /\ Goto(c, "createCheck")
    /\ UNCHANGED <<files, accounts, codeLock, pathLock, req, before, faults>>

Open(i) == i.name # None /\ i.usedBy = None /\ ~i.expired

NameInUse(us, n) == \E u \in Users : us[u].name = n

NameReserved(is, n) == \E k \in Codes : is[k].name = n /\ Open(is[k])

CreateLeave(c) == pathLock' = None /\ nameLock' = None /\ UNCHANGED codeLock

CreateRefuse(c) ==
    /\ pc[c] = "createCheck"
    /\ NameInUse(users, req[c].name) \/ NameReserved(copy[c], req[c].name)
    /\ CreateLeave(c)
    /\ Return(c)
    /\ UNCHANGED <<files, accounts, faults>>

NewInvite(r) == [name |-> r.name, admin |-> r.admin, usedBy |-> None,
                 expired |-> FALSE, old |-> FALSE]

With(is, k, i) == [is EXCEPT ![k] = i]

(* A random code, put in the content read before.                          *)
CreateDraw(c, k) ==
    /\ pc[c] = "createCheck" /\ k \notin minted
    /\ ~NameInUse(users, req[c].name)
    /\ ~NameReserved(copy[c], req[c].name)
    /\ minted' = minted \cup {k}
    /\ copy' = [copy EXCEPT ![c] = With(copy[c], k, NewInvite(req[c]))]
    /\ Goto(c, "createWrite")
    /\ UNCHANGED <<invites, claimed, accounts, locks, req, before, faults>>

CreateWrite(c) ==
    /\ pc[c] = "createWrite"
    /\ invites' = copy[c]
    /\ CreateLeave(c)
    /\ Return(c)
    /\ UNCHANGED <<minted, claimed, accounts, faults>>

CreateFails(c) ==
    /\ pc[c] = "createWrite" /\ faults < MaxFaults
    /\ faults' = faults + 1
    /\ CreateLeave(c)
    /\ Return(c)
    /\ UNCHANGED <<files, accounts>>

-----------------------------------------------------------------------------
(* claimAndRedeem and redeemInviteAndRegister                              *)

(* The guard and the router redeem for a user who is not registered.       *)
BeginRedeem(c, k, u) ==
    /\ pc[c] = "idle" /\ users[u].name = None
    /\ req' = [req EXCEPT ![c] = [op |-> "redeem", code |-> k, user |-> u,
                                  name |-> None, admin |-> FALSE]]
    /\ Goto(c, "claim")
    /\ UNCHANGED <<files, accounts, locks, copy, before, faults>>

(* mutation: the lock on the code left out                                 *)
CodeAnyTime(k) == TRUE

CodeFree(k) == codeLock[k] = None

FreeCode(k) == codeLock' = [codeLock EXCEPT ![k] = None]

Claimable(i, u) == i.name # None /\ (i.usedBy = u \/ Open(i))

ClaimRefused(c) ==
    LET k == req[c].code IN
    /\ pc[c] = "claim" /\ CodeFree(k)
    /\ ~Claimable(invites[k], req[c].user)
    /\ Return(c)
    /\ UNCHANGED <<files, accounts, locks, faults>>

(* An invite without a household is refused once it is claimed.            *)
AfterClaim(c, is) ==
    IF req[c].code \in Legacy
    THEN Return(c)
    ELSE /\ Goto(c, "register")
         /\ copy' = [copy EXCEPT ![c] = is]
         /\ UNCHANGED <<req, before>>

(* The same user again, after a registration that failed: the code may be  *)
(* used and even expired.                                                  *)
ClaimAgain(c) ==
    LET k == req[c].code IN
    /\ pc[c] = "claim" /\ CodeFree(k)
    /\ invites[k].name # None /\ invites[k].usedBy = req[c].user
    /\ AfterClaim(c, invites)
    /\ UNCHANGED <<files, accounts, locks, faults>>

UsedBy(i, u) == [name |-> i.name, admin |-> i.admin, usedBy |-> u,
                 expired |-> i.expired, old |-> i.old]

ClaimRead(c) ==
    LET k == req[c].code IN
    /\ pc[c] = "claim" /\ CodeFree(k)
    /\ Open(invites[k])
    /\ codeLock' = [codeLock EXCEPT ![k] = c]
    /\ copy' = [copy EXCEPT ![c] = With(invites, k, UsedBy(invites[k], req[c].user))]
    /\ Goto(c, "claimWrite")
    /\ UNCHANGED <<files, accounts, pathLock, nameLock, req, before, faults>>

ClaimWrite(c) ==
    LET k == req[c].code IN
    /\ pc[c] = "claimWrite"
    /\ invites' = copy[c]
    /\ claimed' = [claimed EXCEPT ![k] = @ \cup {req[c].user}]
    /\ FreeCode(k)
    /\ AfterClaim(c, copy[c])
    /\ UNCHANGED <<minted, accounts, pathLock, nameLock, faults>>

ClaimFails(c) ==
    /\ pc[c] = "claimWrite" /\ faults < MaxFaults
    /\ faults' = faults + 1
    /\ FreeCode(req[c].code)
    /\ Return(c)
    /\ UNCHANGED <<files, accounts, pathLock, nameLock>>

Invited(c) == AccountFrom(copy[c][req[c].code])

NameTaken(us, n) == NameInUse(us, n)

(* registerUser under the display-name lock: the same account again is a   *)
(* success, another account of this id or of this name an error.           *)
RegisterKnown(c) ==
    LET u == req[c].user IN
    /\ pc[c] = "register" /\ nameLock = None
    /\ users[u].name # None
    /\ Return(c)
    /\ UNCHANGED <<files, accounts, locks, faults>>

RegisterRefused(c) ==
    /\ pc[c] = "register" /\ nameLock = None
    /\ users[req[c].user].name = None
    /\ NameTaken(users, Invited(c).name)
    /\ Return(c)
    /\ UNCHANGED <<files, accounts, locks, faults>>

(* syncUsersToConfig builds what it writes before it waits for the file.   *)
Queued(c, us) == Append(syncQueue, [call |-> c, users |-> us])

Set(us, u, a) == [us EXCEPT ![u] = a]

RegisterAdd(c) ==
    LET u == req[c].user
        us == Set(users, u, Invited(c)) IN
    /\ pc[c] = "register" /\ nameLock = None
    /\ users[u].name = None
    /\ ~NameTaken(users, Invited(c).name)
    /\ nameLock' = c
    /\ users' = us
    /\ syncQueue' = Queued(c, us)
    /\ Goto(c, "sync")
    /\ UNCHANGED <<files, saved, members, codeLock, pathLock, req, copy, before,
                   faults>>

-----------------------------------------------------------------------------
(* removeUser, updateUserApps and updateUserSharedScopes                   *)

(* mutation: the last administrator counts as one too many                 *)
LastAdminLate(us, u) == us[u].admin /\ Cardinality(Admins(us)) < 1

LastAdmin(us, u) == us[u].admin /\ Cardinality(Admins(us)) <= 1

(* The checks, the snapshot and the change run without an await.           *)
Change(c, r, us) ==
    /\ pc[c] = "idle"
    /\ req' = [req EXCEPT ![c] = r]
    /\ before' = [before EXCEPT ![c] = users]
    /\ users' = us
    /\ syncQueue' = Queued(c, us)
    /\ Goto(c, "sync")
    /\ UNCHANGED <<files, saved, members, locks, copy, faults>>

Remove(c, u) ==
    /\ users[u].name # None /\ ~LastAdmin(users, u)
    /\ Change(c, [op |-> "remove", code |-> None, user |-> u, name |-> None,
                  admin |-> FALSE], Set(users, u, NoAccount))

WithApps(a, c) == [name |-> a.name, admin |-> a.admin, apps |-> c]

SetApps(c, u) ==
    /\ users[u].name # None
    /\ Change(c, [op |-> "apps", code |-> None, user |-> u, name |-> None,
                  admin |-> FALSE], Set(users, u, WithApps(users[u], c)))

-----------------------------------------------------------------------------
(* The write of pas.yaml, one caller at a time in the order they queued,   *)
(* and what the caller does when it succeeds or fails.                     *)

Turn(c) == pc[c] = "sync" /\ syncQueue # <<>> /\ Head(syncQueue).call = c

MembersAfter(c) ==
    CASE req[c].op = "redeem" -> members \cup {req[c].user}
      [] req[c].op = "remove" -> members \ {req[c].user}
      [] OTHER -> members

(* mutation: the lock on display names outlives the call                   *)
LeaveNameKept(c) == UNCHANGED nameLock

LeaveName(c) == nameLock' = IF req[c].op = "redeem" THEN None ELSE nameLock

SyncSaved(c) ==
    /\ Turn(c)
    /\ saved' = Head(syncQueue).users
    /\ members' = MembersAfter(c)
    /\ syncQueue' = Tail(syncQueue)
    /\ LeaveName(c)
    /\ Return(c)
    /\ UNCHANGED <<files, users, codeLock, pathLock, faults>>

(* mutation: a failed write leaves the change in memory                    *)
Unchanged(c) == users

(* A failed registration takes its user out again; a failed removal or     *)
(* update puts back the whole list as it was when the call began.          *)
RolledBack(c) ==
    IF req[c].op = "redeem" THEN Set(users, req[c].user, NoAccount) ELSE before[c]

SyncFails(c) ==
    /\ Turn(c) /\ faults < MaxFaults
    /\ faults' = faults + 1
    /\ users' = RolledBack(c)
    /\ syncQueue' = Tail(syncQueue)
    /\ LeaveName(c)
    /\ Return(c)
    /\ UNCHANGED <<files, saved, members, codeLock, pathLock>>

-----------------------------------------------------------------------------
(* Time, and the process restarted: cleanup runs before the bot is fed.    *)

PastDate(i) == [name |-> i.name, admin |-> i.admin, usedBy |-> i.usedBy,
                expired |-> TRUE, old |-> i.old]

Expire(k) ==
    /\ invites[k].name # None /\ ~invites[k].expired
    /\ invites' = With(invites, k, PastDate(invites[k]))
    /\ UNCHANGED <<minted, claimed, accounts, locks, pc, req, copy, before, faults>>

WeekOld(i) == [name |-> i.name, admin |-> i.admin, usedBy |-> i.usedBy,
               expired |-> i.expired, old |-> TRUE]

(* Seven days after its use.                                               *)
Age(k) ==
    /\ invites[k].name # None
    /\ invites[k].usedBy # None /\ invites[k].expired /\ ~invites[k].old
    /\ invites' = With(invites, k, WeekOld(invites[k]))
    /\ UNCHANGED <<minted, claimed, accounts, locks, pc, req, copy, before, faults>>

Cleaned(is) ==
    [k \in Codes |-> IF is[k].usedBy # None /\ is[k].expired /\ is[k].old
                     THEN NoInvite ELSE is[k]]

Running(c) == pc[c] # "idle"

Restart ==
    /\ invites' = Cleaned(invites)
    /\ users' = saved
    /\ members' = Registered(saved)
    /\ codeLock' = [k \in Codes |-> None]
    /\ pathLock' = None /\ nameLock' = None
    /\ syncQueue' = <<>>
    /\ pc' = [c \in Calls |-> "idle"]
    /\ req' = [c \in Calls |-> NoRequest]
    /\ copy' = [c \in Calls |-> NoInvites]
    /\ before' = [c \in Calls |-> NoUsers]
    /\ UNCHANGED <<minted, claimed, saved, faults>>

-----------------------------------------------------------------------------

LegacyInvite(n) == [name |-> n, admin |-> FALSE, usedBy |-> None,
                    expired |-> FALSE, old |-> FALSE]

Init ==
    /\ \E old \in [Legacy -> Names \ {RootName}] :
           invites = [k \in Codes |-> IF k \in Legacy THEN LegacyInvite(old[k]) ELSE NoInvite]
    /\ minted = Legacy
    /\ claimed = [k \in Codes |-> {}]
    /\ users = [u \in Users |-> IF u = Root
                  THEN [name |-> RootName, admin |-> TRUE, apps |-> None]
                  ELSE NoAccount]
    /\ saved = users
    /\ members = {Root}
    /\ codeLock = [k \in Codes |-> None]
    /\ pathLock = None /\ nameLock = None
    /\ syncQueue = <<>>
    /\ pc = [c \in Calls |-> "idle"]
    /\ req = [c \in Calls |-> NoRequest]
    /\ copy = [c \in Calls |-> NoInvites]
    /\ before = [c \in Calls |-> NoUsers]
    /\ faults = 0 /\ overlapped = FALSE

Begin(c) ==
    \/ \E n \in Names, a \in BOOLEAN : BeginCreate(c, n, a)
    \/ \E k \in minted, u \in Users : BeginRedeem(c, k, u)
    \/ \E u \in Users : Remove(c, u) \/ SetApps(c, u)

CallStep(c) ==
    \/ CreateLockPath(c) \/ CreateRead(c) \/ CreateRefuse(c)
    \/ (\E k \in Codes : CreateDraw(c, k))
    \/ CreateWrite(c) \/ CreateFails(c)
    \/ ClaimRefused(c) \/ ClaimAgain(c) \/ ClaimRead(c) \/ ClaimWrite(c) \/ ClaimFails(c)
    \/ RegisterKnown(c) \/ RegisterRefused(c) \/ RegisterAdd(c)
    \/ SyncSaved(c) \/ SyncFails(c)

Noted == overlapped' = (overlapped \/ Len(syncQueue') > 1)

Step ==
    \/ \E c \in Calls : Begin(c) \/ CallStep(c)
    \/ \E k \in Codes : Expire(k) \/ Age(k)
    \/ Restart

Next == Step /\ Noted

Spec == Init /\ [][Next]_vars

-----------------------------------------------------------------------------
(* What the registry promises.                                             *)

(* No two accounts have one display name, in memory or in pas.yaml: login  *)
(* by name and the router's lookups take the first they find               *)
(* (registerUser's check, and the lists the failure paths put back).       *)
NamesUnique ==
    \A u, v \in Users : u # v =>
        /\ users[u].name # None => users[u].name # users[v].name
        /\ saved[u].name # None => saved[u].name # saved[v].name

(* A failed write takes back the change of its own call. When another call *)
(* had queued behind it, that call writes the taken back change all the    *)
(* same.                                                                   *)
Undisturbed == faults = 0 \/ ~overlapped

(* There is always an administrator, although the guard of removeUser      *)
(* counts administrators whose registration is not saved yet.              *)
AdminRemains == Undisturbed => Admins(users) # {} /\ Admins(saved) # {}

(* "Every in-memory change is durably persisted": when no call is waiting  *)
(* for pas.yaml, the file holds what memory holds.                         *)
SavedFollows == syncQueue = <<>> /\ Undisturbed => saved = users

(* A code is granted to one user, however many redeem it (claimAndRedeem). *)
OneClaimant == \A k \in Codes : Cardinality(claimed[k]) <= 1

(* Every call that began returns, whoever fails: no lock is left taken.    *)
EveryCallReturns == \A c \in Calls : Running(c) ~> ~Running(c)

(* Calls never stop between two awaits, and AsyncLock serves its waiters   *)
(* in order, so none is passed over for ever: strong fairness of each      *)
(* call. Clients call when they like, and nothing has to fail.             *)
FairSpec == Spec /\ \A c \in Calls : SF_vars(CallStep(c) /\ Noted)
=============================================================================
