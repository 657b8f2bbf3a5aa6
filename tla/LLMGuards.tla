------------------------------ MODULE LLMGuards ------------------------------
(***************************************************************************)
(* Admission of LLM calls: LLMGuard (one per app), SystemLLMGuard (for the *)
(* router, the API and other calls of the system itself), the shared       *)
(* HouseholdLLMLimiter, their RateLimiters and the in-memory monthly costs *)
(* of CostTracker.                                                         *)
(*                                                                         *)
(* A guard checks everything and reserves the estimate without an await,   *)
(* so admission is one step. The call then runs concurrently with others;  *)
(* the provider bills it (CostTracker.record) and the guard releases its   *)
(* reservation in a finally block. A call may hang past the expiry of its  *)
(* reservation, outlive the month, or end without being billed.            *)
(***************************************************************************)
EXTENDS Naturals, Sequences, FiniteSets, FiniteSetsExt, Functions

CONSTANTS
    Calls,        \* the calls that may be under way at the same time
    Apps,         \* what a call is attributed to
    Systems,      \* those of Apps guarded by a SystemLLMGuard
    Households,
    Platform,     \* a call that belongs to no household
    Cap, AppCap, GlobalCap,     \* monthly cost caps
    AppRate, HouseRate, Window, \* calls admitted in a window of this length
    Estimates, Costs,           \* what a call may be estimated at and cost
    Expiry,       \* how long a reservation counts
    MonthLength, MaxTime

ASSUME GuardAssumption ==
    /\ Systems \subseteq Apps /\ Platform \notin Households
    /\ {Cap, AppCap, GlobalCap, AppRate, HouseRate, Window, Expiry, MonthLength}
           \subseteq Nat \ {0}
    /\ Estimates \subseteq Nat /\ Costs \subseteq Nat /\ Costs # {} /\ MaxTime \in Nat
    /\ \A S \in {Calls, Apps, Households, Costs} : IsFiniteSet(S)

VARIABLES
    now,
    ledger,       \* CostTracker's monthly costs
    reservations, \* CostTracker's reservations, by the call that holds one
    appStarts,    \* when calls of an app were admitted: entries of its RateLimiter
    houseStarts,  \* the same for the RateLimiter of each household
    calls,
    disposed,     \* the limiter has been disposed of by the shutdown
    uncovered     \* what each household was billed this month beyond a
                  \* reservation (history)

guardVars == <<now, ledger, reservations, appStarts, houseStarts, calls, disposed, uncovered>>

Idle == [state |-> "idle"]
NoReservation == [amount |-> 0, house |-> Platform, expires |-> 0]

Running(c) == calls[c].state # "idle"

Month == now \div MonthLength

FreshLedger(m) == [month |-> m, app |-> [a \in Apps |-> 0],
             house |-> [h \in Households |-> 0], total |-> 0]

(* checkMonthRollover: every reader and writer of the costs calls it       *)
(* first.                                                                  *)
RolledLedger == IF ledger.month = Month THEN ledger ELSE FreshLedger(Month)

RolledReservations ==
    IF ledger.month = Month THEN reservations ELSE [c \in Calls |-> NoReservation]

RolledUncovered ==
    IF ledger.month = Month THEN uncovered ELSE [h \in Households |-> 0]

LiveFor(h, held) == {c \in Calls : held[c].house = h /\ held[c].expires > now}

(* mutation: reservations are not counted                                  *)
NotPending(h, held) == 0

Amounts(held) == [c \in Calls |-> held[c].amount]

Pending(h, held) == SumFunctionOnSet(Amounts(held), LiveFor(h, held))

(* A RateLimiter's entries inside its window.  Expired entries are dropped *)
(* before each use, so keeping them here changes nothing.                  *)
Live(starts) == SelectSeq(starts, LAMBDA t : t + Window > now)

AppRateOK(a) == Len(Live(appStarts[a])) < AppRate
HouseRateOK(h) == h # Platform => Len(Live(houseStarts[h])) < HouseRate

(* HouseholdLLMLimiter.checkCost                                           *)
HouseCostOK(h, est) ==
    h # Platform =>
        RolledLedger.house[h] + Pending(h, RolledReservations) + est < Cap

GlobalOK == RolledLedger.total < GlobalCap

(* SystemLLMGuard.guarded up to the provider call                          *)
SystemAdmits(a, h, est) == HouseRateOK(h) /\ HouseCostOK(h, est) /\ GlobalOK

(* mutation: the cost of an app is not checked                             *)
AnyAppCost(a) == TRUE

AppCostOK(a) == RolledLedger.app[a] < AppCap

(* LLMGuard.guarded up to the provider call                                *)
AppAdmits(a, h, est) ==
    AppRateOK(a) /\ HouseRateOK(h) /\ AppCostOK(a) /\ HouseCostOK(h, est) /\ GlobalOK

Admits(a, h, est) ==
    IF a \in Systems THEN SystemAdmits(a, h, est) ELSE AppAdmits(a, h, est)

Reserve(c, h, est) ==
    reservations' = IF h = Platform THEN RolledReservations
                    ELSE [RolledReservations EXCEPT ![c] =
                             [amount |-> est, house |-> h, expires |-> now + Expiry]]

Rollover == ledger' = RolledLedger /\ uncovered' = RolledUncovered

Admit(c, a, h, est) ==
    /\ calls[c] = Idle /\ ~disposed
    /\ Admits(a, h, est)
    /\ Rollover
    /\ appStarts' = IF a \in Systems THEN appStarts
                    ELSE [appStarts EXCEPT ![a] = Append(@, now)]
    /\ houseStarts' = IF h = Platform THEN houseStarts
                      ELSE [houseStarts EXCEPT ![h] = Append(@, now)]
    /\ Reserve(c, h, est)
    /\ calls' = [calls EXCEPT ![c] = [state |-> "running", app |-> a, house |-> h]]
    /\ UNCHANGED <<now, disposed>>

(* A cap refuses the call: the costs were read, and rolled over, first.    *)
Refuse(a, h, est) ==
    /\ ~disposed
    /\ HouseRateOK(h) /\ (a \notin Systems => AppRateOK(a))
    /\ ~Admits(a, h, est)
    /\ Rollover /\ reservations' = RolledReservations
    /\ UNCHANGED <<now, appStarts, houseStarts, calls, disposed>>

Covered(c) ==
    LET r == RolledReservations[c] IN IF r.expires > now THEN r.amount ELSE 0

Over(c, cost) == IF cost > Covered(c) THEN cost - Covered(c) ELSE 0

(* CostTracker.record, called by the provider before its promise resolves. *)
Charge(c, cost) ==
    LET a == calls[c].app
        h == calls[c].house
    IN /\ calls[c].state = "running"
       /\ ledger' = [month |-> Month,
                     app |-> [RolledLedger.app EXCEPT ![a] = @ + cost],
                     house |-> IF h = Platform THEN RolledLedger.house
                               ELSE [RolledLedger.house EXCEPT ![h] = @ + cost],
                     total |-> RolledLedger.total + cost]
       /\ uncovered' = IF h = Platform THEN RolledUncovered
                       ELSE [RolledUncovered EXCEPT ![h] = @ + Over(c, cost)]
       /\ reservations' = RolledReservations
       /\ calls' = [calls EXCEPT ![c].state = "billed"]
       /\ UNCHANGED <<now, appStarts, houseStarts, disposed>>

(* mutation: the reservation is released with the bill, not in a finally   *)
ReleasedIfBilled(c) ==
    IF calls[c].state = "billed" /\ ~disposed
    THEN [reservations EXCEPT ![c] = NoReservation] ELSE reservations

Released(c) == IF disposed THEN reservations
               ELSE [reservations EXCEPT ![c] = NoReservation]

(* The provider answered or failed: the finally block of guarded.          *)
Finish(c) ==
    /\ Running(c)
    /\ calls' = [calls EXCEPT ![c] = Idle]
    /\ reservations' = Released(c)
    /\ UNCHANGED <<now, ledger, appStarts, houseStarts, disposed, uncovered>>

(* ensureReservationCleanupTimer                                           *)
Sweep ==
    /\ reservations' = [c \in Calls |-> IF reservations[c].expires > now
                                        THEN reservations[c] ELSE NoReservation]
    /\ UNCHANGED <<now, ledger, appStarts, houseStarts, calls, disposed, uncovered>>

(* The callbacks of the shutdown dispose of the limiter and, a few awaits  *)
(* later, flush the cost tracker, which forgets the reservations.          *)
Dispose ==
    /\ ~disposed /\ disposed' = TRUE
    /\ UNCHANGED <<now, ledger, reservations, appStarts, houseStarts, calls, uncovered>>

Forget ==
    /\ disposed /\ reservations' = [c \in Calls |-> NoReservation]
    /\ UNCHANGED <<now, ledger, appStarts, houseStarts, calls, disposed, uncovered>>

Tick ==
    /\ now < MaxTime /\ now' = now + 1
    /\ UNCHANGED <<ledger, reservations, appStarts, houseStarts, calls, disposed, uncovered>>

GuardInit ==
    /\ now = 0 /\ ledger = FreshLedger(0)
    /\ reservations = [c \in Calls |-> NoReservation]
    /\ appStarts = [a \in Apps |-> <<>>] /\ houseStarts = [h \in Households |-> <<>>]
    /\ calls = [c \in Calls |-> Idle]
    /\ disposed = FALSE
    /\ uncovered = [h \in Households |-> 0]

CallStep(c) ==
    \/ \E a \in Apps, h \in Households \cup {Platform}, est \in Estimates : Admit(c, a, h, est)
    \/ \E cost \in Costs : Charge(c, cost)
    \/ Finish(c)

GuardNext ==
    \/ \E c \in Calls : CallStep(c)
    \/ \E a \in Apps, h \in Households \cup {Platform}, est \in Estimates : Refuse(a, h, est)
    \/ Sweep \/ Dispose \/ Forget \/ Tick

GuardSpec == GuardInit /\ [][GuardNext]_guardVars

-----------------------------------------------------------------------------

Call == [state : {"running", "billed"}, app : Apps, house : Households \cup {Platform}]

(* The state has the shape the guards give it.                             *)
GuardTypeOK ==
    /\ now \in 0..MaxTime /\ disposed \in BOOLEAN
    /\ ledger \in [month : Nat, app : [Apps -> Nat], house : [Households -> Nat], total : Nat]
    /\ uncovered \in [Households -> Nat]
    /\ reservations \in [Calls -> [amount : Nat, house : Households \cup {Platform},
                                   expires : Nat]]
    /\ appStarts \in [Apps -> Seq(0..MaxTime)]
    /\ houseStarts \in [Households -> Seq(0..MaxTime)]
    /\ calls \in [Calls -> {Idle} \cup Call]

Unbilled(h) == {c \in LiveFor(h, reservations) : calls[c].state = "running"}

(* What a household was billed this month, with what is reserved for calls *)
(* still to be billed, stays under its cap except for what calls cost      *)
(* beyond their reservation: concurrent calls cannot spend the same        *)
(* headroom twice.                                                         *)
HouseholdBudget ==
    \A h \in Households :
        ledger.house[h] + SumFunctionOnSet(Amounts(reservations), Unbilled(h))
            < Cap + uncovered[h]

(* App and global caps reserve nothing: they may be passed, but only by    *)
(* the calls that were under way when they were reached. The total is what *)
(* the apps have spent, across a month that turns while calls are under    *)
(* way.                                                                    *)
OvershootBounded ==
    LET slack == Cardinality(Calls) * Max(Costs)
    IN /\ \A a \in Apps \ Systems : ledger.app[a] < AppCap + slack
       /\ ledger.total < GlobalCap + slack
       /\ ledger.total = SumFunctionOnSet(ledger.app, Apps)
       /\ ledger.total >= SumFunctionOnSet(ledger.house, Households)

(* No reservation outlives the call that made it, however the call ends,   *)
(* nor the month it was made in, so the headroom of a household comes      *)
(* back.                                                                   *)
ReservationsOwned ==
    ~disposed => \A c \in Calls : reservations[c].house # Platform =>
        /\ Running(c) /\ calls[c].house = reservations[c].house
        /\ ledger.month = (reservations[c].expires - Expiry) \div MonthLength
-----------------------------------------------------------------------------
(* The inductive invariant                                                 *)

(* A reservation is of the household its call is billed to; none is empty  *)
(* of one.                                                                 *)
BelongInv ==
    \A c \in Calls :
        LET r == reservations[c] IN
        /\ r.house = Platform => r.amount = 0
        /\ r.house # Platform /\ Running(c) => calls[c].house = r.house

(* The calls still to be billed.                                           *)
Underway == {c \in Calls : calls[c].state = "running"}
UnderwayOf(a) == {c \in Underway : calls[c].app = a}

(* What has been billed, with the most that the calls under way may cost.  *)
CapsInv ==
    LET most == Max(Costs) slack == Cardinality(Calls) * most
    IN /\ \A a \in Apps \ Systems :
              ledger.app[a] + Cardinality(UnderwayOf(a)) * most < AppCap + slack
       /\ ledger.total + Cardinality(Underway) * most < GlobalCap + slack

SumsInv ==
    /\ ledger.total = SumFunctionOnSet(ledger.app, Apps)
    /\ ledger.total >= SumFunctionOnSet(ledger.house, Households)

GuardInv == GuardTypeOK /\ BelongInv /\ ReservationsOwned /\ HouseholdBudget /\ CapsInv /\ SumsInv
=============================================================================
