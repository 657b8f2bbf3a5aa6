----------------------------- MODULE UsageCosts -----------------------------
(***************************************************************************)
(* What CostTracker keeps of the LLM costs: the counts in memory, the      *)
(* append-only usage log (llm-usage.md, rows queued one behind the other)  *)
(* and the cache of the month (monthly-costs.yaml, written at most every   *)
(* ten seconds by a timer, at the turn of a month and by the shutdown;     *)
(* nothing orders two of these writes). A start reads the cache when it is *)
(* of this month and counts the log again otherwise.                       *)
(*                                                                         *)
(* Every call costs one unit; it is of a household or of none. A log row   *)
(* of an old release, and a cache of one, has no household.                *)
(***************************************************************************)
EXTENDS Naturals, Sequences, FiniteSets, SequencesExt

CONSTANTS
    MaxMonth,   \* months are 0..MaxMonth
    MaxBills,   \* calls billed in a behaviour
    MaxFaults,  \* writes that fail
    MaxStarts   \* restarts

ASSUME CostAssumption == {MaxMonth, MaxBills, MaxFaults, MaxStarts} \subseteq Nat

VARIABLES
    month,      \* the month of the clock
    memory,     \* monthlyTotal, monthlyHouseholdCosts, currentMonth
    log,        \* what the rows of llm-usage.md add up to, by month
    rows,       \* the rows queued for the log
    cache,      \* monthly-costs.yaml
    writes,     \* the writes of the cache under way, with what each writes
    dirty, timer,
    phase,      \* the process: up, flushing (shutdown), flushed,
                \* exited (after a flush), down
    billed,     \* what was really billed, by month (history)
    kept,       \* what was in memory when the flush began (history)
    crowded,    \* a write of the cache or the shutdown began while another write
                \* was under way (history)
    bills, faults, starts

counters == <<bills, faults, starts>>
vars == <<month, memory, log, rows, cache, writes, dirty, timer, phase, billed, kept,
          crowded, counters>>

Months == 0..MaxMonth

Zero == [total |-> 0, house |-> 0]

NoCache == [month |-> MaxMonth + 1, total |-> 0, house |-> 0, houses |-> TRUE]

Plus(sum, housed) == [total |-> sum.total + 1,
                      house |-> IF housed THEN sum.house + 1 ELSE sum.house]

Fresh(m) == [month |-> m, total |-> 0, house |-> 0]

(* persistMonthlyCosts takes what it writes before its first await.        *)
Snapshot(mem, flush) == [month |-> mem.month, total |-> mem.total, house |-> mem.house,
                         houses |-> TRUE, flush |-> flush]

Alive == phase \in {"up", "flushing", "flushed"}

Rolled == memory.month # month

(* checkMonthRollover: the costs of the old month are written if they are  *)
(* dirty, and nobody waits for it.                                         *)
AfterRollover == IF Rolled THEN Fresh(month) ELSE memory

WithOldMonth == IF Rolled /\ dirty THEN Append(writes, Snapshot(memory, FALSE)) ELSE writes

Bill(mem, housed) == [month |-> mem.month, total |-> mem.total + 1,
                      house |-> IF housed THEN mem.house + 1 ELSE mem.house]

(* mutation: no timer while a write is under way                           *)
ArmedUnlessWriting == writes = <<>>

(* schedulePersist                                                         *)
Armed == TRUE

(* record: the cache and the log are both brought up to date, the one by a *)
(* timer and the other through the queue.                                  *)
Record(housed) ==
    /\ Alive /\ bills < MaxBills
    /\ memory' = Bill(AfterRollover, housed)
    /\ writes' = WithOldMonth
    /\ dirty' = TRUE /\ timer' = Armed
    /\ rows' = Append(rows, [month |-> month, housed |-> housed])
    /\ billed' = [billed EXCEPT ![month] = Plus(@, housed)]
    /\ bills' = bills + 1
    /\ UNCHANGED <<month, log, cache, phase, kept, faults, starts>>

(* A getter: it only rolls the month over.                                 *)
Look ==
    /\ phase = "up" /\ Rolled
    /\ memory' = AfterRollover /\ writes' = WithOldMonth
    /\ dirty' = TRUE /\ timer' = TRUE
    /\ UNCHANGED <<month, log, rows, cache, phase, billed, kept, counters>>

AppendRow ==
    /\ Alive /\ rows # <<>>
    /\ log' = [log EXCEPT ![Head(rows).month] = Plus(@, Head(rows).housed)]
    /\ rows' = Tail(rows)
    /\ UNCHANGED <<month, memory, cache, writes, dirty, timer, phase, billed, kept, counters>>

(* A row that cannot be written is logged and dropped; the queue goes on.  *)
DropRow ==
    /\ Alive /\ rows # <<>> /\ faults < MaxFaults
    /\ rows' = Tail(rows) /\ faults' = faults + 1
    /\ UNCHANGED <<month, memory, log, cache, writes, dirty, timer, phase, billed, kept,
                   bills, starts>>

TimerFires ==
    /\ Alive /\ timer
    /\ timer' = FALSE /\ dirty' = FALSE
    /\ writes' = Append(writes, Snapshot(memory, FALSE))
    /\ UNCHANGED <<month, memory, log, rows, cache, phase, billed, kept, counters>>

Landed(w) == [month |-> w.month, total |-> w.total, house |-> w.house, houses |-> w.houses]

(* writeYamlFile renames a complete file into place.                       *)
WriteLands(i) ==
    /\ Alive
    /\ cache' = Landed(writes[i])
    /\ writes' = RemoveAt(writes, i)
    /\ UNCHANGED <<month, memory, log, rows, dirty, timer, phase, billed, kept, counters>>

WriteFails(i) ==
    /\ Alive /\ faults < MaxFaults
    /\ writes' = RemoveAt(writes, i) /\ faults' = faults + 1
    /\ UNCHANGED <<month, memory, log, rows, cache, dirty, timer, phase, billed, kept,
                   bills, starts>>

(* mutation: the flush only stops the timer                                *)
FlushNothing == writes

FlushWrites == IF dirty THEN Append(writes, Snapshot(memory, TRUE)) ELSE writes

(* flush: the shutdown stops the timer and writes if there is something    *)
(* new.                                                                    *)
Flush ==
    /\ phase = "up" /\ phase' = "flushing"
    /\ timer' = FALSE /\ dirty' = FALSE
    /\ writes' = FlushWrites
    /\ kept' = [month |-> memory.month, total |-> memory.total, bills |-> bills]
    /\ UNCHANGED <<month, memory, log, rows, cache, billed, counters>>

FlushReturns ==
    /\ phase = "flushing" /\ \A i \in DOMAIN writes : ~writes[i].flush
    /\ phase' = "flushed"
    /\ UNCHANGED <<month, memory, log, rows, cache, writes, dirty, timer, billed, kept,
                   counters>>

Gone == /\ rows' = <<>> /\ writes' = <<>> /\ dirty' = FALSE /\ timer' = FALSE
        /\ UNCHANGED <<month, memory, log, cache, billed, counters>>

(* The process exits at the end of the shutdown, whatever is under way ... *)
Exit == phase = "flushed" /\ phase' = "exited" /\ Gone /\ UNCHANGED kept

(* ... or is killed at any time.                                           *)
Crash == Alive /\ phase' = "down" /\ Gone /\ UNCHANGED kept

NewMonth ==
    /\ month < MaxMonth /\ month' = month + 1
    /\ UNCHANGED <<memory, log, rows, cache, writes, dirty, timer, phase, billed, kept,
                   counters>>

(* mutation: the log is counted on top of the cache                        *)
RecountOnTop == [month |-> month, total |-> cache.total + log[month].total,
                 house |-> cache.house + log[month].house]

(* rebuildFromLog starts from nothing, also when a cache was read before   *)
(* it.                                                                     *)
Recount == [month |-> month, total |-> log[month].total, house |-> log[month].house]

(* What a cache of this month without households is brought up to.         *)
Upgraded == IF log[month].total > 0 THEN Recount
            ELSE [month |-> month, total |-> cache.total, house |-> 0]

CacheCurrent == cache.month = month

Loaded == IF ~CacheCurrent THEN Recount
          ELSE IF cache.houses THEN [month |-> month, total |-> cache.total,
                                     house |-> cache.house]
          ELSE Upgraded

(* loadMonthlyCache: a count that differs from the cache is written back.  *)
LoadMonthlyCache ==
    /\ ~Alive /\ starts < MaxStarts /\ starts' = starts + 1
    /\ phase' = "up"
    /\ memory' = Loaded
    /\ LET writeBack == \/ ~CacheCurrent /\ log[month].total > 0
                        \/ CacheCurrent /\ ~cache.houses
       IN dirty' = writeBack /\ timer' = writeBack
    /\ UNCHANGED <<month, log, rows, cache, writes, billed, kept, bills, faults>>

(* The data directory of a new install, or one an old release left: a log  *)
(* whose rows have no household column, and its cache of then, or none.    *)
Init ==
    \E before \in 0..1, cached \in BOOLEAN :
        LET sum == [total |-> before, house |-> 0]
        IN /\ month = 0 /\ phase = "down" /\ memory = Fresh(0)
           /\ log = [m \in Months |-> IF m = 0 THEN sum ELSE Zero]
           /\ billed = log
           /\ cache = IF cached THEN [month |-> 0, total |-> before, house |-> 0,
                                      houses |-> FALSE]
                      ELSE NoCache
           /\ rows = <<>> /\ writes = <<>> /\ dirty = FALSE /\ timer = FALSE
           /\ kept = [month |-> 0, total |-> 0, bills |-> 0]
           /\ crowded = FALSE /\ bills = 0 /\ faults = 0 /\ starts = 0

Step ==
    \/ \E housed \in BOOLEAN : Record(housed)
    \/ Look \/ AppendRow \/ DropRow \/ TimerFires
    \/ \E i \in DOMAIN writes : WriteLands(i) \/ WriteFails(i)
    \/ Flush \/ FlushReturns \/ Exit \/ Crash \/ NewMonth \/ LoadMonthlyCache

(* Writes of the cache are not ordered: the later one may land first. A    *)
(* write takes milliseconds and the timer leaves ten seconds between two,  *)
(* so this is rare, but nothing forbids it.                                *)
Crowds ==
    /\ writes # <<>>
    /\ \/ Len(writes') > Len(writes)
       \/ phase = "up" /\ phase' = "flushing"

Noted == crowded' = (crowded \/ Crowds)

Next == Step /\ Noted

(* The timer fires, getters are called, and started writes end.  Nothing   *)
(* promises that the process is started again.                             *)
Spec ==
    /\ Init /\ [][Next]_vars
    /\ WF_vars(TimerFires /\ Noted) /\ WF_vars(Look /\ Noted)
    /\ WF_vars((\E i \in DOMAIN writes : WriteLands(i) \/ WriteFails(i)) /\ Noted)

-----------------------------------------------------------------------------

Sum == [total : Nat, house : Nat]
Rows == [month : Months, housed : BOOLEAN]
Writes == [month : Months, total : Nat, house : Nat, houses : BOOLEAN, flush : BOOLEAN]

MemoryOK ==
    /\ month \in Months
    /\ memory \in [month : Months, total : Nat, house : Nat]
    /\ phase \in {"up", "flushing", "flushed", "exited", "down"}

FlagsOK == {dirty, timer, crowded} \subseteq BOOLEAN

DiskOK ==
    /\ log \in [Months -> Sum]
    /\ cache \in [month : 0..(MaxMonth + 1), total : Nat, house : Nat, houses : BOOLEAN]

QueuesOK == rows \in Seq(Rows) /\ writes \in Seq(Writes)

HistoryOK ==
    /\ billed \in [Months -> Sum]
    /\ kept \in [month : Months, total : Nat, bills : Nat] /\ kept.bills <= bills
    /\ bills \in Nat /\ faults \in Nat /\ starts \in Nat

(* The state has the shape the tracker gives it.                           *)
TypeOK == MemoryOK /\ FlagsOK /\ DiskOK /\ QueuesOK /\ HistoryOK

(* Costs are never counted twice, nor in another month than their own:     *)
(* what the caps are checked against is at most what was billed, through   *)
(* restarts, upgrades and writes that land in another order.               *)
NeverOvercounts ==
    /\ memory.total <= billed[memory.month].total
    /\ memory.house <= billed[memory.month].house
    /\ cache.month \in Months => cache.total <= billed[cache.month].total

(* "Call on shutdown to avoid losing cached cost data": after a shutdown   *)
(* without a failed write the cache has what was in memory. A shutdown     *)
(* that meets a write of the timer's under way finds nothing new to write, *)
(* does not wait for it, and may exit before it lands: hence ~crowded.     *)
FlushSaves ==
    (/\ phase = "exited" /\ faults = 0 /\ ~crowded
     /\ kept.month = month /\ kept.bills = bills /\ kept.total > 0)
        => cache.month = kept.month /\ cache.total >= kept.total

(* Without failures every cost reaches the cache: no sequence of timers,   *)
(* rollovers and writes leaves the tracker with unsaved costs for good.    *)
CostsReachCache ==
    phase = "up" /\ memory.total > 0
        ~> \/ phase # "up" \/ Rolled \/ faults > 0 \/ crowded
           \/ cache.month = memory.month /\ cache.total = memory.total

-----------------------------------------------------------------------------
(* What the proofs need beyond that                                        *)

RowsOf(q, m) == {i \in DOMAIN q : q[i].month = m}
HousedRowsOf(q, m) == {i \in RowsOf(q, m) : q[i].housed}

(* A month's log, with the rows still queued for it, is at most what was   *)
(* billed.                                                                 *)
LogInv ==
    \A m \in Months :
        /\ log[m].total + Cardinality(RowsOf(rows, m)) <= billed[m].total
        /\ log[m].house + Cardinality(HousedRowsOf(rows, m)) <= billed[m].house

(* So is a cache of any age, landed or under way.                          *)
CacheInv ==
    /\ cache.month \in Months => /\ cache.total <= billed[cache.month].total
                                 /\ cache.house <= billed[cache.month].house
    /\ \A i \in DOMAIN writes : /\ writes[i].total <= billed[writes[i].month].total
                               /\ writes[i].house <= billed[writes[i].month].house

Quiet == faults = 0 /\ ~crowded

(* What is not dirty is in the cache, or in the only write under way.      *)
CleanInv ==
    phase = "up" /\ Quiet /\ ~dirty /\ memory.total > 0 =>
        \/ writes = <<>> /\ cache.month = memory.month /\ cache.total = memory.total
        \/ Len(writes) = 1 /\ writes[1].month = memory.month /\ writes[1].total = memory.total

(* What the flush found is in the cache, or in its own write, which it     *)
(* awaits.                                                                 *)
FlushInv ==
    phase \in {"flushing", "flushed", "exited"} /\ Quiet /\ kept.bills = bills /\ kept.total > 0 =>
        /\ ~timer
        /\ \/ writes = <<>> /\ cache.month = kept.month /\ cache.total = kept.total
           \/ /\ phase = "flushing" /\ Len(writes) = 1 /\ writes[1].flush
              /\ writes[1].month = kept.month /\ writes[1].total = kept.total

(* A process that has ended writes nothing.                                *)
DownInv == ~Alive => rows = <<>> /\ writes = <<>>

IInv ==
    /\ TypeOK /\ DownInv /\ LogInv /\ CacheInv /\ CleanInv /\ FlushInv
    /\ NeverOvercounts /\ FlushSaves
=============================================================================
