---------------------------- MODULE LLMCostProofs ----------------------------
(***************************************************************************)
(* The cost tracker keeps the shape of its state, never counts more than   *)
(* was billed, and saves everything in a quiet shutdown: for any number of *)
(* months, bills, failed writes and starts.                                *)
(*                                                                         *)
(* The argument has two halves. Nothing is counted twice because every     *)
(* source of a count is covered by what was billed: the log together with  *)
(* the rows still queued for it (LogInv), and the cache with the writes of *)
(* it, old ones too (CacheInv). Nothing is lost because what is not dirty  *)
(* is in the cache or in the only write under way, and a flush waits for   *)
(* that write (CleanInv, FlushInv), as long as no write met another.       *)
(*                                                                         *)
(* The second part is about LLMGuards, which admits the calls against      *)
(* those costs: what a household is billed and has reserved stays under    *)
(* its cap, the other caps are passed by what the calls under way may      *)
(* cost, and reservations end with their call. Its sums over sets of       *)
(* calls, apps and households are reasoned about with a recursion over the *)
(* subsets of a finite set.                                                *)
(***************************************************************************)
EXTENDS UsageCosts, LLMGuards, FiniteSetTheorems, Functions, WellFoundedInduction, TLAPS

(* The constants, as the proofs need them.                                 *)
LEMMA Bounds == MaxMonth \in Nat /\ 0 \in Months /\ Months \subseteq Nat
  BY CostAssumption DEF Months

(* While nothing has crowded, a write is begun only when there is none,    *)
(* and so is a flush.                                                      *)
LEMMA Crowding ==
    ASSUME IInv, Noted
    PROVE  /\ crowded' \in BOOLEAN
           /\ ~crowded' => /\ ~crowded
                           /\ writes = <<>> \/ ~(Len(writes') > Len(writes))
                           /\ writes = <<>> \/ ~(phase = "up" /\ phase' = "flushing")
<1>1. crowded \in BOOLEAN
  BY DEF IInv, TypeOK, FlagsOK
<1>2. Crowds \in BOOLEAN
  BY DEF Crowds
<1> QED BY <1>1, <1>2 DEF Noted, Crowds

(* What appending adds to the writes under way.                            *)
LEMMA Lengthened ==
    ASSUME NEW q \in Seq(Writes), NEW w \in Writes
    PROVE  /\ Append(q, w) \in Seq(Writes) /\ Len(Append(q, w)) = Len(q) + 1
           /\ Append(q, w)[Len(q) + 1] = w
           /\ \A i \in DOMAIN Append(q, w) :
                 \/ Append(q, w)[i] = w
                 \/ i \in DOMAIN q /\ Append(q, w)[i] = q[i]
  OBVIOUS

(* Removing a write leaves the others.                                     *)
LEMMA Shortened ==
    ASSUME NEW q \in Seq(Writes), NEW i \in DOMAIN q
    PROVE  /\ RemoveAt(q, i) \in Seq(Writes) /\ Len(RemoveAt(q, i)) = Len(q) - 1
           /\ \A j \in DOMAIN RemoveAt(q, i) :
                 \E k \in DOMAIN q : RemoveAt(q, i)[j] = q[k]
<1> DEFINE a == SubSeq(q, 1, i - 1)
           b == SubSeq(q, i + 1, Len(q))
<1>1. i \in 1 .. Len(q) /\ Len(q) \in Nat
  OBVIOUS
<1>2. /\ a \in Seq(Writes) /\ Len(a) = i - 1
      /\ \A j \in 1 .. i - 1 : a[j] = q[j]
  BY <1>1
<1>3. /\ b \in Seq(Writes) /\ Len(b) = Len(q) - i
      /\ \A j \in 1 .. Len(q) - i : b[j] = q[i + j]
  BY <1>1
<1>4. RemoveAt(q, i) = a \o b
  BY DEF RemoveAt
<1> HIDE DEF a, b
<1>5. a \o b \in Seq(Writes) /\ Len(a \o b) = Len(q) - 1
  BY <1>1, <1>2, <1>3
<1>6. ASSUME NEW j \in DOMAIN (a \o b) PROVE \E k \in DOMAIN q : (a \o b)[j] = q[k]
  <2>1. j \in 1 .. Len(q) - 1
    BY <1>5
  <2>2. CASE j <= i - 1
    <3>1. (a \o b)[j] = a[j] /\ a[j] = q[j] /\ j \in DOMAIN q
      BY <1>1, <1>2, <1>3, <2>1, <2>2
    <3> QED BY <3>1
  <2>3. CASE j > i - 1
    <3>1. j \in 1 .. Len(a) + Len(b) /\ j > Len(a)
      BY <1>1, <1>2, <1>3, <2>1, <2>3
    <3>2. (a \o b)[j] = b[j - Len(a)]
      BY <1>2, <1>3, <3>1
    <3>3. j - (i - 1) \in 1 .. Len(q) - i
      BY <1>1, <2>1, <2>3
    <3>4. b[j - (i - 1)] = q[i + (j - (i - 1))]
      BY <1>3, <3>3
    <3>5. i + (j - (i - 1)) \in DOMAIN q
      BY <1>1, <2>1, <2>3
    <3> QED BY <1>2, <3>2, <3>4, <3>5
  <2> QED BY <1>1, <2>1, <2>2, <2>3
<1> QED BY <1>4, <1>5, <1>6

(* A write carries what is in memory.                                      *)
LEMMA Held ==
    ASSUME IInv, NEW flush \in BOOLEAN
    PROVE  /\ Snapshot(memory, flush) \in Writes
           /\ Snapshot(memory, flush).month = memory.month
           /\ Snapshot(memory, flush).total = memory.total
           /\ Snapshot(memory, flush).house = memory.house
           /\ Snapshot(memory, flush).flush = flush
  BY DEF IInv, TypeOK, MemoryOK, Writes, Snapshot

(* A new write of what is in memory is covered by what was billed.         *)
LEMMA Adding ==
    ASSUME IInv, NEW flush \in BOOLEAN, writes' = Append(writes, Snapshot(memory, flush))
    PROVE  /\ writes' \in Seq(Writes) /\ Len(writes') = Len(writes) + 1
           /\ writes'[Len(writes) + 1] = Snapshot(memory, flush)
           /\ \A i \in DOMAIN writes' : /\ writes'[i].total <= billed[writes'[i].month].total
                                       /\ writes'[i].house <= billed[writes'[i].month].house
<1>1. writes \in Seq(Writes)
  BY DEF IInv, TypeOK, QueuesOK
<1>2. Snapshot(memory, flush) \in Writes
  BY Held
<1>3. /\ writes' \in Seq(Writes) /\ Len(writes') = Len(writes) + 1
      /\ writes'[Len(writes) + 1] = Snapshot(memory, flush)
      /\ \A i \in DOMAIN writes' :
            \/ writes'[i] = Snapshot(memory, flush)
            \/ i \in DOMAIN writes /\ writes'[i] = writes[i]
  BY <1>1, <1>2, Lengthened
<1>4. /\ Snapshot(memory, flush).total <= billed[Snapshot(memory, flush).month].total
      /\ Snapshot(memory, flush).house <= billed[Snapshot(memory, flush).month].house
  BY Held DEF IInv, NeverOvercounts
<1>5. \A i \in DOMAIN writes : /\ writes[i].total <= billed[writes[i].month].total
                             /\ writes[i].house <= billed[writes[i].month].house
  BY DEF IInv, CacheInv
<1> QED BY <1>3, <1>4, <1>5

(* So is the write of the old month at its end.                            *)
LEMMA Rolling ==
    ASSUME IInv, writes' = WithOldMonth
    PROVE  /\ writes' \in Seq(Writes)
           /\ \A i \in DOMAIN writes' : /\ writes'[i].total <= billed[writes'[i].month].total
                                       /\ writes'[i].house <= billed[writes'[i].month].house
<1>1. CASE Rolled /\ dirty
  BY <1>1, Adding DEF WithOldMonth
<1>2. CASE ~(Rolled /\ dirty)
  BY <1>2 DEF WithOldMonth, IInv, TypeOK, QueuesOK, CacheInv
<1> QED BY <1>1, <1>2

(* Without one of them the writes stay covered.                            *)
LEMMA Subtracting ==
    ASSUME IInv, NEW i \in DOMAIN writes, writes' = RemoveAt(writes, i)
    PROVE  /\ writes' \in Seq(Writes) /\ Len(writes') = Len(writes) - 1
           /\ Len(writes) = 1 => writes' = <<>>
           /\ \A j \in DOMAIN writes' : /\ writes'[j].total <= billed[writes'[j].month].total
                                       /\ writes'[j].house <= billed[writes'[j].month].house
<1>1. writes \in Seq(Writes)
  BY DEF IInv, TypeOK, QueuesOK
<1>2. /\ writes' \in Seq(Writes) /\ Len(writes') = Len(writes) - 1
      /\ \A j \in DOMAIN writes' : \E k \in DOMAIN writes : writes'[j] = writes[k]
  BY <1>1, Shortened
<1>3. Len(writes) = 1 => writes' = <<>>
  BY <1>2
<1>4. \A j \in DOMAIN writes : /\ writes[j].total <= billed[writes[j].month].total
                             /\ writes[j].house <= billed[writes[j].month].house
  BY DEF IInv, CacheInv
<1> QED BY <1>2, <1>3, <1>4

(* T is S without 1, each position one earlier.                            *)
OneAhead(S, T, n) ==
    /\ S \subseteq 1 .. n /\ T \subseteq 1 .. n - 1
    /\ \A i \in 1 .. n - 1 : i \in T <=> i + 1 \in S

(* A set of positions and the same set one position earlier.               *)
LEMMA Shifted ==
    ASSUME NEW n \in Nat \ {0}, NEW S, NEW T, OneAhead(S, T, n)
    PROVE  /\ IsFiniteSet(S) /\ IsFiniteSet(T)
           /\ Cardinality(S) = Cardinality(T) + (IF 1 \in S THEN 1 ELSE 0)
<1> USE DEF OneAhead
<1>1. IsFiniteSet(1 .. n) /\ IsFiniteSet(1 .. n - 1)
  BY FS_Interval
<1>2. IsFiniteSet(S) /\ IsFiniteSet(T)
  BY <1>1, FS_Subset
<1> DEFINE f == [i \in T |-> i + 1]
<1>3. f \in Bijection(T, S \ {1})
  <2>1. f \in [T -> S \ {1}]
    OBVIOUS
  <2>2. \A i, j \in T : f[i] = f[j] => i = j
    OBVIOUS
  <2>3. ASSUME NEW s \in S \ {1} PROVE \E i \in T : f[i] = s
    <3>1. s - 1 \in 1 .. n - 1 /\ (s - 1) + 1 = s
      OBVIOUS
    <3>2. s - 1 \in T
      BY <3>1
    <3> QED BY <3>1, <3>2
  <2> HIDE DEF f
  <2> QED BY <2>1, <2>2, <2>3 DEF Bijection, Injection, Surjection, IsInjective
<1>4. Cardinality(S \ {1}) = Cardinality(T)
  BY <1>2, <1>3, FS_Bijection, FS_CardinalityType DEF ExistsBijection
<1>5. Cardinality(S \ {1}) = IF 1 \in S THEN Cardinality(S) - 1 ELSE Cardinality(S)
  BY <1>2, FS_RemoveElement
<1>6. Cardinality(S) \in Nat /\ Cardinality(T) \in Nat
  BY <1>2, FS_CardinalityType
<1> QED BY <1>2, <1>4, <1>5, <1>6

(* The rows queued for a month can be counted.                             *)
LEMMA RowsCounted ==
    ASSUME NEW q \in Seq(Rows), NEW m \in Months
    PROVE  /\ IsFiniteSet(RowsOf(q, m)) /\ IsFiniteSet(HousedRowsOf(q, m))
           /\ Cardinality(RowsOf(q, m)) \in Nat /\ Cardinality(HousedRowsOf(q, m)) \in Nat
<1>1. IsFiniteSet(1 .. Len(q))
  BY FS_Interval
<1>2. RowsOf(q, m) \subseteq 1 .. Len(q) /\ HousedRowsOf(q, m) \subseteq 1 .. Len(q)
  BY DEF RowsOf, HousedRowsOf
<1> QED BY <1>1, <1>2, FS_Subset, FS_CardinalityType

(* A queued row adds at most one to the rows of its month.                 *)
LEMMA RowsQueued ==
    ASSUME NEW q \in Seq(Rows), NEW r \in Rows, NEW m \in Months
    PROVE  /\ Cardinality(RowsOf(Append(q, r), m))
                <= Cardinality(RowsOf(q, m)) + (IF r.month = m THEN 1 ELSE 0)
           /\ Cardinality(HousedRowsOf(Append(q, r), m))
                <= Cardinality(HousedRowsOf(q, m)) + (IF r.month = m /\ r.housed THEN 1 ELSE 0)
<1> DEFINE n == Len(q) + 1
<1>1. /\ n \in Nat /\ n \notin DOMAIN q /\ DOMAIN Append(q, r) = DOMAIN q \cup {n}
      /\ Append(q, r)[n] = r /\ \A i \in DOMAIN q : Append(q, r)[i] = q[i]
  OBVIOUS
<1> HIDE DEF n
<1>2. RowsOf(Append(q, r), m) = IF r.month = m THEN RowsOf(q, m) \cup {n} ELSE RowsOf(q, m)
  BY <1>1 DEF RowsOf
<1>3. HousedRowsOf(Append(q, r), m) = IF r.month = m /\ r.housed
                                     THEN HousedRowsOf(q, m) \cup {n} ELSE HousedRowsOf(q, m)
  BY <1>1 DEF RowsOf, HousedRowsOf
<1>4. Cardinality(RowsOf(q, m) \cup {n}) <= Cardinality(RowsOf(q, m)) + 1
  <2>1. IsFiniteSet(RowsOf(q, m)) /\ Cardinality(RowsOf(q, m)) \in Nat
    BY RowsCounted
  <2>2. Cardinality(RowsOf(q, m) \cup {n}) = IF n \in RowsOf(q, m) THEN Cardinality(RowsOf(q, m))
                                         ELSE Cardinality(RowsOf(q, m)) + 1
    BY <2>1, FS_AddElement
  <2> QED BY <2>1, <2>2
<1>5. Cardinality(HousedRowsOf(q, m) \cup {n}) <= Cardinality(HousedRowsOf(q, m)) + 1
  <2>1. IsFiniteSet(HousedRowsOf(q, m)) /\ Cardinality(HousedRowsOf(q, m)) \in Nat
    BY RowsCounted
  <2>2. Cardinality(HousedRowsOf(q, m) \cup {n})
          = IF n \in HousedRowsOf(q, m) THEN Cardinality(HousedRowsOf(q, m))
                                         ELSE Cardinality(HousedRowsOf(q, m)) + 1
    BY <2>1, FS_AddElement
  <2> QED BY <2>1, <2>2
<1>6. Cardinality(RowsOf(q, m)) \in Nat /\ Cardinality(HousedRowsOf(q, m)) \in Nat
  BY RowsCounted
<1>7. Cardinality(RowsOf(Append(q, r), m))
        <= Cardinality(RowsOf(q, m)) + (IF r.month = m THEN 1 ELSE 0)
  BY <1>2, <1>4, <1>6
<1>8. Cardinality(HousedRowsOf(Append(q, r), m))
        <= Cardinality(HousedRowsOf(q, m)) + (IF r.month = m /\ r.housed THEN 1 ELSE 0)
  BY <1>3, <1>5, <1>6
<1> QED BY <1>7, <1>8

(* The first row of the queue counts for its month.                        *)
LEMMA RowsTaken ==
    ASSUME NEW q \in Seq(Rows), q # <<>>, NEW m \in Months
    PROVE  /\ Cardinality(RowsOf(q, m))
                = Cardinality(RowsOf(Tail(q), m)) + (IF Head(q).month = m THEN 1 ELSE 0)
           /\ Cardinality(HousedRowsOf(q, m))
                = Cardinality(HousedRowsOf(Tail(q), m))
                    + (IF Head(q).month = m /\ Head(q).housed THEN 1 ELSE 0)
<1> DEFINE n == Len(q)
<1>1. /\ n \in Nat \ {0} /\ Head(q) = q[1] /\ DOMAIN q = 1 .. n /\ DOMAIN Tail(q) = 1 .. n - 1
      /\ \A i \in 1 .. n - 1 : Tail(q)[i] = q[i + 1]
  OBVIOUS
<1> HIDE DEF n
<1>2. /\ OneAhead(RowsOf(q, m), RowsOf(Tail(q), m), n)
      /\ 1 \in RowsOf(q, m) <=> Head(q).month = m
  BY <1>1 DEF RowsOf, OneAhead
<1>3. /\ OneAhead(HousedRowsOf(q, m), HousedRowsOf(Tail(q), m), n)
      /\ 1 \in HousedRowsOf(q, m) <=> Head(q).month = m /\ Head(q).housed
  BY <1>1, <1>2 DEF HousedRowsOf, RowsOf, OneAhead
<1>4. Cardinality(RowsOf(q, m)) = Cardinality(RowsOf(Tail(q), m))
                                    + (IF 1 \in RowsOf(q, m) THEN 1 ELSE 0)
  BY <1>1, <1>2, Shifted
<1>5. Cardinality(HousedRowsOf(q, m)) = Cardinality(HousedRowsOf(Tail(q), m))
                                          + (IF 1 \in HousedRowsOf(q, m) THEN 1 ELSE 0)
  BY <1>1, <1>3, Shifted
<1> QED BY <1>2, <1>3, <1>4, <1>5

(* A cost is recorded, in memory and as a queued row.                      *)
LEMMA RecordKeeps == ASSUME IInv, NEW housed \in BOOLEAN, Record(housed), Noted PROVE IInv'
<1>1. /\ crowded' \in BOOLEAN
      /\ ~crowded' => /\ ~crowded
                      /\ writes = <<>> \/ ~(Len(writes') > Len(writes))
                      /\ writes = <<>> \/ ~(phase = "up" /\ phase' = "flushing")
  BY Crowding
<1>2. /\ writes' \in Seq(Writes)
      /\ \A j \in DOMAIN writes' : /\ writes'[j].total <= billed[writes'[j].month].total
                                /\ writes'[j].house <= billed[writes'[j].month].house
  BY Rolling DEF Record
<1>3. \A m \in Months : /\ {billed[m].total, billed[m].house} \subseteq Nat
                       /\ {billed'[m].total, billed'[m].house} \subseteq Nat
                       /\ billed[m].total <= billed'[m].total
                       /\ billed[m].house <= billed'[m].house
  BY DEF Record, Plus, IInv, TypeOK, HistoryOK, Sum
<1>4. MemoryOK'
  <2>1. MemoryOK /\ DiskOK /\ QueuesOK /\ HistoryOK /\ NeverOvercounts /\ CacheInv
    BY DEF IInv, TypeOK
  <2>2. AfterRollover \in [month : Months, total : Nat, house : Nat]
    BY <2>1, Bounds DEF AfterRollover, Fresh, MemoryOK
  <2>3. Bill(AfterRollover, housed) \in [month : Months, total : Nat, house : Nat]
    BY <2>2 DEF Bill
  <2> QED BY <2>1, <2>3 DEF Record, MemoryOK
<1>5. FlagsOK'
  BY <1>1, Bounds DEF IInv, Record, Armed, Bill, Plus, AfterRollover, WithOldMonth,
       Snapshot, Fresh, Rolled, counters, Alive, Months, FlagsOK, TypeOK
<1>6. QueuesOK'
  BY <1>1, <1>2, Bounds DEF IInv, Record, Armed, Bill, Plus, counters, Alive,
       Months, QueuesOK, TypeOK, MemoryOK, DiskOK, HistoryOK, Rows, Writes
<1>7. HistoryOK'
  <2>1. MemoryOK /\ DiskOK /\ QueuesOK /\ HistoryOK /\ NeverOvercounts /\ CacheInv
    BY DEF IInv, TypeOK
  <2>2. billed' \in [Months -> Sum]
    <3>1. billed[month] \in Sum
      BY <2>1 DEF MemoryOK, HistoryOK
    <3>2. Plus(billed[month], housed) \in Sum
      BY <3>1 DEF Sum, Plus
    <3> QED BY <2>1, <3>2 DEF Record, HistoryOK
  <2>3. bills' = bills + 1 /\ UNCHANGED <<kept, faults, starts>>
    BY DEF Record
  <2>4. kept'.bills <= bills'
    <3>1. kept.bills \in Nat /\ bills \in Nat /\ kept.bills <= bills
      BY <2>1 DEF HistoryOK
    <3> QED BY <2>3, <3>1
  <2> QED BY <2>1, <2>2, <2>3, <2>4 DEF HistoryOK
<1>8. DownInv'
  BY <1>1, Bounds DEF IInv, Record, Armed, Bill, Plus, AfterRollover, WithOldMonth,
       Snapshot, Fresh, Rolled, counters, Alive, Months, DownInv
<1>9. LogInv'
  <2> SUFFICES ASSUME NEW m \in Months
               PROVE  /\ log'[m].total + Cardinality(RowsOf(rows', m)) <= billed'[m].total
                      /\ log'[m].house + Cardinality(HousedRowsOf(rows', m)) <= billed'[m].house
    BY DEF LogInv
  <2>1. /\ log[m].total \in Nat /\ log[m].house \in Nat
        /\ billed[m].total \in Nat /\ billed[m].house \in Nat
    BY DEF IInv, TypeOK, DiskOK, HistoryOK, Sum
  <2>0. rows \in Seq(Rows)
    BY DEF IInv, TypeOK, QueuesOK
  <2>2. /\ log[m].total + Cardinality(RowsOf(rows, m)) <= billed[m].total
        /\ log[m].house + Cardinality(HousedRowsOf(rows, m)) <= billed[m].house
    BY DEF IInv, LogInv
  <2>3. Cardinality(RowsOf(rows, m)) \in Nat /\ Cardinality(HousedRowsOf(rows, m)) \in Nat
    BY <2>0, RowsCounted
  <2> DEFINE r == [month |-> month, housed |-> housed]
  <2>4. r \in Rows /\ rows' = Append(rows, r) /\ rows' \in Seq(Rows)
    BY <2>0 DEF Record, Rows, IInv, TypeOK, MemoryOK
  <2> DEFINE one == IF r.month = m THEN 1 ELSE 0
             two == IF r.month = m /\ r.housed THEN 1 ELSE 0
  <2>5. /\ Cardinality(RowsOf(rows', m))
             <= Cardinality(RowsOf(rows, m)) + one
        /\ Cardinality(HousedRowsOf(rows', m))
             <= Cardinality(HousedRowsOf(rows, m)) + two
    BY <2>0, <2>4, RowsQueued
  <2>6. Cardinality(RowsOf(rows', m)) \in Nat /\ Cardinality(HousedRowsOf(rows', m)) \in Nat
    BY <2>4, RowsCounted
  <2>7. /\ billed'[m].total = billed[m].total + one
        /\ billed'[m].house = billed[m].house + two
    BY <2>1 DEF Record, Plus, IInv, TypeOK, HistoryOK, Sum
  <2>8. log'[m] = log[m]
    BY DEF Record
  <2>9. one \in Nat /\ two \in Nat
    OBVIOUS
  <2> HIDE DEF one, two
  <2>10. log'[m].total + Cardinality(RowsOf(rows', m)) <= billed'[m].total
    BY <2>1, <2>2, <2>3, <2>5, <2>6, <2>7, <2>8, <2>9
  <2>11. log'[m].house + Cardinality(HousedRowsOf(rows', m)) <= billed'[m].house
    BY <2>1, <2>2, <2>3, <2>5, <2>6, <2>7, <2>8, <2>9
  <2> QED BY <2>10, <2>11
<1>10. CacheInv'
  <2>1. MemoryOK /\ DiskOK /\ QueuesOK /\ HistoryOK /\ NeverOvercounts /\ CacheInv
    BY DEF IInv, TypeOK
  <2>2. cache'.month \in Months => /\ cache'.total <= billed'[cache'.month].total
                                   /\ cache'.house <= billed'[cache'.month].house
    <3>1. cache' = cache
      BY DEF Record
    <3>2. SUFFICES ASSUME cache.month \in Months
                   PROVE  /\ cache.total <= billed'[cache.month].total
                          /\ cache.house <= billed'[cache.month].house
      BY <3>1
    <3>3. /\ cache.total \in Nat /\ cache.total <= billed[cache.month].total
          /\ cache.house \in Nat /\ cache.house <= billed[cache.month].house
      BY <2>1, <3>2 DEF DiskOK, CacheInv
    <3> QED BY <1>3, <3>2, <3>3
  <2>3. ASSUME NEW j \in DOMAIN writes'
        PROVE  /\ writes'[j].total <= billed'[writes'[j].month].total
               /\ writes'[j].house <= billed'[writes'[j].month].house
    <3>1. writes'[j] \in Writes
      BY <1>2
    <3>2. /\ writes'[j].month \in Months
          /\ writes'[j].total \in Nat /\ writes'[j].house \in Nat
      BY <3>1 DEF Writes
    <3>3. /\ writes'[j].total <= billed[writes'[j].month].total
          /\ writes'[j].house <= billed[writes'[j].month].house
      BY <1>2
    <3> QED BY <1>3, <3>2, <3>3
  <2> QED BY <2>2, <2>3 DEF CacheInv
<1>11. CleanInv'
  BY <1>1, <1>2, Bounds DEF IInv, Record, Armed, Bill, Plus, AfterRollover,
       WithOldMonth, Snapshot, Fresh, Rolled, counters, Alive, Months, CleanInv,
       TypeOK, MemoryOK, DiskOK, HistoryOK, QueuesOK, Quiet, Writes
<1>12. FlushInv'
  BY <1>1, <1>2, Bounds DEF IInv, Record, Armed, Bill, Plus, AfterRollover,
       WithOldMonth, Snapshot, Fresh, Rolled, counters, Alive, Months, FlushInv,
       TypeOK, MemoryOK, DiskOK, HistoryOK, QueuesOK, Quiet, CleanInv, Writes
<1>13. NeverOvercounts'
  <2>1. MemoryOK /\ DiskOK /\ QueuesOK /\ HistoryOK /\ NeverOvercounts /\ CacheInv
    BY DEF IInv, TypeOK
  <2>2. /\ memory'.month = month /\ month \in Months
        /\ memory'.total = (IF Rolled THEN 0 ELSE memory.total) + 1
        /\ memory'.house = (IF Rolled THEN 0 ELSE memory.house) + (IF housed THEN 1 ELSE 0)
        /\ memory.total \in Nat /\ memory.house \in Nat
    BY <2>1 DEF MemoryOK, Record, Bill, AfterRollover, Fresh, Rolled
  <2>3. /\ billed[month].total \in Nat /\ billed[month].house \in Nat
        /\ billed'[month].total = billed[month].total + 1
        /\ billed'[month].house = billed[month].house + (IF housed THEN 1 ELSE 0)
    BY <2>1, <2>2 DEF HistoryOK, Sum, Record, Plus
  <2>4. ~Rolled => /\ memory.total <= billed[month].total
                   /\ memory.house <= billed[month].house
    BY <2>1 DEF NeverOvercounts, Rolled
  <2>5. memory'.total <= billed'[month].total
    BY <2>2, <2>3, <2>4
  <2>6. memory'.house <= billed'[month].house
    BY <2>2, <2>3, <2>4
  <2>7. cache'.month \in Months => cache'.total <= billed'[cache'.month].total
    <3>1. cache' = cache
      BY DEF Record
    <3>2. SUFFICES ASSUME cache.month \in Months
                   PROVE  cache.total <= billed'[cache.month].total
      BY <3>1
    <3>3. cache.total \in Nat /\ cache.total <= billed[cache.month].total
      BY <2>1, <3>2 DEF DiskOK, NeverOvercounts
    <3> QED BY <1>3, <3>2, <3>3
  <2> QED BY <2>2, <2>5, <2>6, <2>7 DEF NeverOvercounts
<1>14. FlushSaves'
  BY <1>1, Bounds DEF IInv, Record, Armed, Bill, Plus, AfterRollover, WithOldMonth,
       Snapshot, Fresh, Rolled, counters, Alive, Months, FlushSaves, FlushInv,
       Quiet
<1>15. DiskOK'
  BY DEF IInv, Record, counters, TypeOK, DiskOK
<1> QED BY <1>4, <1>5, <1>6, <1>7, <1>8, <1>9, <1>10, <1>11, <1>12, <1>13, <1>14,
     <1>15 DEF IInv, TypeOK

(* A getter rolls the month over.                                          *)
LEMMA LookKeeps == ASSUME IInv, Look, Noted PROVE IInv'
<1>1. /\ crowded' \in BOOLEAN
      /\ ~crowded' => /\ ~crowded
                      /\ writes = <<>> \/ ~(Len(writes') > Len(writes))
                      /\ writes = <<>> \/ ~(phase = "up" /\ phase' = "flushing")
  BY Crowding
<1>2. /\ writes' \in Seq(Writes)
      /\ \A j \in DOMAIN writes' : /\ writes'[j].total <= billed[writes'[j].month].total
                                /\ writes'[j].house <= billed[writes'[j].month].house
  BY Rolling DEF Look
<1>3. MemoryOK'
  BY <1>1, Bounds DEF IInv, Look, AfterRollover, WithOldMonth, Snapshot, Fresh,
       Rolled, counters, Alive, Months, MemoryOK, TypeOK, DiskOK, HistoryOK,
       QueuesOK, Sum
<1>4. FlagsOK'
  BY <1>1, Bounds DEF IInv, Look, AfterRollover, WithOldMonth, Snapshot, Fresh,
       Rolled, counters, Alive, Months, FlagsOK, TypeOK
<1>5. QueuesOK'
  BY <1>1, <1>2, Bounds DEF IInv, Look, counters, Alive, Months, QueuesOK, TypeOK,
       MemoryOK, DiskOK, HistoryOK, Rows, Writes
<1>6. DownInv'
  BY <1>1, Bounds DEF IInv, Look, AfterRollover, WithOldMonth, Snapshot, Fresh,
       Rolled, counters, Alive, Months, DownInv
<1>7. CacheInv'
  BY <1>1, <1>2, Bounds DEF IInv, Look, counters, Alive, Months, CacheInv, TypeOK,
       MemoryOK, DiskOK, HistoryOK, QueuesOK, Sum, Writes, LogInv
<1>8. CleanInv'
  BY <1>1, <1>2, Bounds DEF IInv, Look, AfterRollover, WithOldMonth, Snapshot,
       Fresh, Rolled, counters, Alive, Months, CleanInv, TypeOK, MemoryOK, DiskOK,
       HistoryOK, QueuesOK, Quiet, Writes
<1>9. FlushInv'
  BY <1>1, <1>2, Bounds DEF IInv, Look, AfterRollover, WithOldMonth, Snapshot,
       Fresh, Rolled, counters, Alive, Months, FlushInv, TypeOK, MemoryOK, DiskOK,
       HistoryOK, QueuesOK, Quiet, CleanInv, Writes
<1>10. NeverOvercounts'
  BY <1>1, Bounds DEF IInv, Look, AfterRollover, WithOldMonth, Snapshot, Fresh,
       Rolled, counters, Alive, Months, NeverOvercounts, TypeOK, MemoryOK, DiskOK,
       HistoryOK, QueuesOK, CacheInv, LogInv, Sum
<1>11. FlushSaves'
  BY <1>1, Bounds DEF IInv, Look, AfterRollover, WithOldMonth, Snapshot, Fresh,
       Rolled, counters, Alive, Months, FlushSaves, FlushInv, Quiet
<1>12. DiskOK' /\ HistoryOK' /\ LogInv'
  BY DEF IInv, Look, counters, TypeOK, DiskOK, HistoryOK, LogInv, HousedRowsOf,
       RowsOf
<1> QED BY <1>3, <1>4, <1>5, <1>6, <1>7, <1>8, <1>9, <1>10, <1>11, <1>12 DEF IInv, TypeOK

(* A queued row is written to the log.                                     *)
LEMMA AppendRowKeeps == ASSUME IInv, AppendRow, Noted PROVE IInv'
<1>1. /\ crowded' \in BOOLEAN
      /\ ~crowded' => /\ ~crowded
                      /\ writes = <<>> \/ ~(Len(writes') > Len(writes))
                      /\ writes = <<>> \/ ~(phase = "up" /\ phase' = "flushing")
  BY Crowding
<1>2. FlagsOK'
  BY <1>1, Bounds DEF IInv, AppendRow, Plus, counters, Alive, Months, FlagsOK,
       TypeOK
<1>3. DiskOK'
  <2>1. DiskOK /\ QueuesOK
    BY DEF IInv, TypeOK
  <2>2. rows # <<>> /\ UNCHANGED cache
        /\ log' = [log EXCEPT ![Head(rows).month] = Plus(log[Head(rows).month], Head(rows).housed)]
    BY DEF AppendRow
  <2>3. Head(rows) \in Rows
    BY <2>1, <2>2 DEF QueuesOK
  <2>4. log[Head(rows).month] \in Sum /\ Head(rows).housed \in BOOLEAN
    BY <2>1, <2>3 DEF DiskOK, Rows
  <2>5. Plus(log[Head(rows).month], Head(rows).housed) \in Sum
    BY <2>4 DEF Sum, Plus
  <2> QED BY <2>1, <2>2, <2>5 DEF DiskOK
<1>4. QueuesOK'
  BY <1>1, Bounds DEF IInv, AppendRow, Plus, counters, Alive, Months, QueuesOK,
       TypeOK, MemoryOK, DiskOK, HistoryOK, Rows, Writes
<1>5. DownInv'
  BY <1>1, Bounds DEF IInv, AppendRow, Plus, counters, Alive, Months, DownInv
<1>6. LogInv'
  <2> SUFFICES ASSUME NEW m \in Months
               PROVE  /\ log'[m].total + Cardinality(RowsOf(rows', m)) <= billed'[m].total
                      /\ log'[m].house + Cardinality(HousedRowsOf(rows', m)) <= billed'[m].house
    BY DEF LogInv
  <2>1. /\ log[m].total \in Nat /\ log[m].house \in Nat
        /\ billed[m].total \in Nat /\ billed[m].house \in Nat
    BY DEF IInv, TypeOK, DiskOK, HistoryOK, Sum
  <2>0. rows \in Seq(Rows)
    BY DEF IInv, TypeOK, QueuesOK
  <2>2. /\ log[m].total + Cardinality(RowsOf(rows, m)) <= billed[m].total
        /\ log[m].house + Cardinality(HousedRowsOf(rows, m)) <= billed[m].house
    BY DEF IInv, LogInv
  <2>3. Cardinality(RowsOf(rows, m)) \in Nat /\ Cardinality(HousedRowsOf(rows, m)) \in Nat
    BY <2>0, RowsCounted
  <2>4. /\ rows # <<>> /\ rows' = Tail(rows) /\ Tail(rows) \in Seq(Rows)
        /\ Head(rows) \in Rows
    BY <2>0 DEF AppendRow
  <2> DEFINE one == IF Head(rows).month = m THEN 1 ELSE 0
             two == IF Head(rows).month = m /\ Head(rows).housed THEN 1 ELSE 0
  <2>5. /\ Cardinality(RowsOf(rows, m))
             = Cardinality(RowsOf(rows', m)) + one
        /\ Cardinality(HousedRowsOf(rows, m))
             = Cardinality(HousedRowsOf(rows', m))
                 + two
    BY <2>0, <2>4, RowsTaken
  <2>6. Cardinality(RowsOf(rows', m)) \in Nat /\ Cardinality(HousedRowsOf(rows', m)) \in Nat
    BY <2>4, RowsCounted
  <2>7. /\ log'[m].total = log[m].total + one
        /\ log'[m].house = log[m].house + two
    <3>1. DiskOK
      BY DEF IInv, TypeOK
    <3>2. log' = [log EXCEPT ![Head(rows).month] = Plus(log[Head(rows).month], Head(rows).housed)]
      BY DEF AppendRow
    <3>3. CASE Head(rows).month = m
      <4>1. log'[m] = Plus(log[m], Head(rows).housed)
        BY <3>1, <3>2, <3>3 DEF DiskOK
      <4> QED BY <3>3, <4>1, <2>1 DEF Plus
    <3>4. CASE Head(rows).month # m
      <4>1. log'[m] = log[m]
        BY <3>1, <3>2, <3>4 DEF DiskOK
      <4> QED BY <3>4, <4>1, <2>1
    <3> QED BY <3>3, <3>4
  <2>8. billed'[m] = billed[m]
    BY DEF AppendRow
  <2>9. one \in Nat /\ two \in Nat
    OBVIOUS
  <2> HIDE DEF one, two
  <2>10. log'[m].total + Cardinality(RowsOf(rows', m)) <= billed'[m].total
    BY <2>1, <2>2, <2>3, <2>5, <2>6, <2>7, <2>8, <2>9
  <2>11. log'[m].house + Cardinality(HousedRowsOf(rows', m)) <= billed'[m].house
    BY <2>1, <2>2, <2>3, <2>5, <2>6, <2>7, <2>8, <2>9
  <2> QED BY <2>10, <2>11
<1>7. CleanInv'
  BY <1>1, Bounds DEF IInv, AppendRow, Plus, counters, Alive, Months, CleanInv,
       TypeOK, MemoryOK, DiskOK, HistoryOK, QueuesOK, Quiet, Writes
<1>8. FlushInv'
  BY <1>1, Bounds DEF IInv, AppendRow, Plus, counters, Alive, Months, FlushInv,
       TypeOK, MemoryOK, DiskOK, HistoryOK, QueuesOK, Quiet, CleanInv, Writes
<1>9. FlushSaves'
  BY <1>1, Bounds DEF IInv, AppendRow, Plus, counters, Alive, Months, FlushSaves,
       FlushInv, Quiet
<1>10. MemoryOK' /\ HistoryOK' /\ CacheInv' /\ NeverOvercounts'
  BY DEF IInv, AppendRow, counters, TypeOK, MemoryOK, HistoryOK, CacheInv,
       NeverOvercounts
<1> QED BY <1>2, <1>3, <1>4, <1>5, <1>6, <1>7, <1>8, <1>9, <1>10 DEF IInv, TypeOK

(* A queued row is lost.                                                   *)
LEMMA DropRowKeeps == ASSUME IInv, DropRow, Noted PROVE IInv'
<1>1. /\ crowded' \in BOOLEAN
      /\ ~crowded' => /\ ~crowded
                      /\ writes = <<>> \/ ~(Len(writes') > Len(writes))
                      /\ writes = <<>> \/ ~(phase = "up" /\ phase' = "flushing")
  BY Crowding
<1>2. FlagsOK'
  BY <1>1, Bounds DEF IInv, DropRow, counters, Alive, Months, FlagsOK, TypeOK
<1>3. QueuesOK'
  BY <1>1, Bounds DEF IInv, DropRow, counters, Alive, Months, QueuesOK, TypeOK,
       MemoryOK, DiskOK, HistoryOK, Rows, Writes
<1>4. HistoryOK'
  <2>1. HistoryOK
    BY DEF IInv, TypeOK
  <2> QED BY <2>1 DEF HistoryOK, DropRow
<1>5. DownInv'
  BY <1>1, Bounds DEF IInv, DropRow, counters, Alive, Months, DownInv
<1>6. LogInv'
  <2> SUFFICES ASSUME NEW m \in Months
               PROVE  /\ log'[m].total + Cardinality(RowsOf(rows', m)) <= billed'[m].total
                      /\ log'[m].house + Cardinality(HousedRowsOf(rows', m)) <= billed'[m].house
    BY DEF LogInv
  <2>1. /\ log[m].total \in Nat /\ log[m].house \in Nat
        /\ billed[m].total \in Nat /\ billed[m].house \in Nat
    BY DEF IInv, TypeOK, DiskOK, HistoryOK, Sum
  <2>0. rows \in Seq(Rows)
    BY DEF IInv, TypeOK, QueuesOK
  <2>2. /\ log[m].total + Cardinality(RowsOf(rows, m)) <= billed[m].total
        /\ log[m].house + Cardinality(HousedRowsOf(rows, m)) <= billed[m].house
    BY DEF IInv, LogInv
  <2>3. Cardinality(RowsOf(rows, m)) \in Nat /\ Cardinality(HousedRowsOf(rows, m)) \in Nat
    BY <2>0, RowsCounted
  <2>4. /\ rows # <<>> /\ rows' = Tail(rows) /\ Tail(rows) \in Seq(Rows)
        /\ Head(rows) \in Rows
    BY <2>0 DEF DropRow
  <2> DEFINE one == IF Head(rows).month = m THEN 1 ELSE 0
             two == IF Head(rows).month = m /\ Head(rows).housed THEN 1 ELSE 0
  <2>5. /\ Cardinality(RowsOf(rows, m))
             = Cardinality(RowsOf(rows', m)) + one
        /\ Cardinality(HousedRowsOf(rows, m))
             = Cardinality(HousedRowsOf(rows', m))
                 + two
    BY <2>0, <2>4, RowsTaken
  <2>6. Cardinality(RowsOf(rows', m)) \in Nat /\ Cardinality(HousedRowsOf(rows', m)) \in Nat
    BY <2>4, RowsCounted
  <2>7. log'[m] = log[m] /\ billed'[m] = billed[m]
    BY DEF DropRow
  <2>9. one \in Nat /\ two \in Nat
    OBVIOUS
  <2> HIDE DEF one, two
  <2>10. log'[m].total + Cardinality(RowsOf(rows', m)) <= billed'[m].total
    BY <2>1, <2>2, <2>3, <2>5, <2>6, <2>7, <2>9
  <2>11. log'[m].house + Cardinality(HousedRowsOf(rows', m)) <= billed'[m].house
    BY <2>1, <2>2, <2>3, <2>5, <2>6, <2>7, <2>9
  <2> QED BY <2>10, <2>11
<1>7. CleanInv'
  BY <1>1, Bounds DEF IInv, DropRow, counters, Alive, Months, CleanInv, TypeOK,
       MemoryOK, DiskOK, HistoryOK, QueuesOK, Quiet, Writes
<1>8. FlushInv'
  BY <1>1, Bounds DEF IInv, DropRow, counters, Alive, Months, FlushInv, TypeOK,
       MemoryOK, DiskOK, HistoryOK, QueuesOK, Quiet, CleanInv, Writes
<1>9. FlushSaves'
  BY <1>1, Bounds DEF IInv, DropRow, counters, Alive, Months, FlushSaves, FlushInv,
       Quiet
<1>10. MemoryOK' /\ DiskOK' /\ CacheInv' /\ NeverOvercounts'
  BY DEF IInv, DropRow, counters, TypeOK, MemoryOK, DiskOK, CacheInv,
       NeverOvercounts
<1> QED BY <1>2, <1>3, <1>4, <1>5, <1>6, <1>7, <1>8, <1>9, <1>10 DEF IInv, TypeOK

(* The timer writes what is in memory.                                     *)
LEMMA TimerFiresKeeps == ASSUME IInv, TimerFires, Noted PROVE IInv'
<1>1. /\ crowded' \in BOOLEAN
      /\ ~crowded' => /\ ~crowded
                      /\ writes = <<>> \/ ~(Len(writes') > Len(writes))
                      /\ writes = <<>> \/ ~(phase = "up" /\ phase' = "flushing")
  BY Crowding
<1>2. /\ writes' \in Seq(Writes) /\ Len(writes') = Len(writes) + 1
      /\ writes'[Len(writes) + 1].month = memory.month
      /\ writes'[Len(writes) + 1].total = memory.total
      /\ \A j \in DOMAIN writes' : /\ writes'[j].total <= billed[writes'[j].month].total
                                /\ writes'[j].house <= billed[writes'[j].month].house
  BY Adding, Held DEF TimerFires
<1>3. FlagsOK'
  BY <1>1, Bounds DEF IInv, TimerFires, Snapshot, counters, Alive, Months, FlagsOK,
       TypeOK
<1>4. QueuesOK'
  BY <1>1, <1>2, Bounds DEF IInv, TimerFires, counters, Alive, Months, QueuesOK,
       TypeOK, MemoryOK, DiskOK, HistoryOK, Rows, Writes
<1>5. DownInv'
  BY <1>1, Bounds DEF IInv, TimerFires, Snapshot, counters, Alive, Months, DownInv
<1>6. CacheInv'
  BY <1>1, <1>2, Bounds DEF IInv, TimerFires, counters, Alive, Months, CacheInv,
       TypeOK, MemoryOK, DiskOK, HistoryOK, QueuesOK, Sum, Writes, LogInv
<1>7. CleanInv'
  <2> SUFFICES ASSUME ~crowded'
               PROVE  /\ Len(writes') = 1 /\ writes'[1].month = memory'.month
                      /\ writes'[1].total = memory'.total
    BY DEF CleanInv, Quiet
  <2>1. writes \in Seq(Writes) /\ memory' = memory
    BY DEF TimerFires, IInv, TypeOK, QueuesOK
  <2>2. writes = <<>>
    BY <1>1, <1>2, <2>1
  <2> QED BY <1>2, <2>1, <2>2
<1>8. FlushInv'
  BY <1>1, <1>2, Bounds DEF IInv, TimerFires, Snapshot, counters, Alive, Months,
       FlushInv, TypeOK, MemoryOK, DiskOK, HistoryOK, QueuesOK, Quiet, CleanInv,
       Writes
<1>9. FlushSaves'
  BY <1>1, Bounds DEF IInv, TimerFires, Snapshot, counters, Alive, Months,
       FlushSaves, FlushInv, Quiet
<1>10. MemoryOK' /\ DiskOK' /\ HistoryOK' /\ LogInv' /\ NeverOvercounts'
  BY DEF IInv, TimerFires, counters, TypeOK, MemoryOK, DiskOK, HistoryOK, LogInv,
       HousedRowsOf, RowsOf, NeverOvercounts
<1> QED BY <1>3, <1>4, <1>5, <1>6, <1>7, <1>8, <1>9, <1>10 DEF IInv, TypeOK

(* A write lands: what was clean is in the cache now.                      *)
LEMMA WriteLandsKeeps == ASSUME IInv, NEW i \in DOMAIN writes, WriteLands(i), Noted PROVE IInv'
<1>1. /\ crowded' \in BOOLEAN
      /\ ~crowded' => /\ ~crowded
                      /\ writes = <<>> \/ ~(Len(writes') > Len(writes))
                      /\ writes = <<>> \/ ~(phase = "up" /\ phase' = "flushing")
  BY Crowding
<1>2. /\ writes' \in Seq(Writes) /\ Len(writes') = Len(writes) - 1
      /\ Len(writes) = 1 => writes' = <<>>
      /\ \A j \in DOMAIN writes' : /\ writes'[j].total <= billed[writes'[j].month].total
                                /\ writes'[j].house <= billed[writes'[j].month].house
  BY Subtracting DEF WriteLands
<1>3. FlagsOK'
  BY <1>1, Bounds DEF IInv, WriteLands, Landed, counters, Alive, Months, FlagsOK,
       TypeOK
<1>4. DiskOK'
  <2>1. DiskOK /\ QueuesOK
    BY DEF IInv, TypeOK
  <2>2. writes[i] \in Writes
    BY <2>1 DEF QueuesOK
  <2>3. Months \subseteq 0 .. (MaxMonth + 1)
    BY Bounds DEF Months
  <2>4. Landed(writes[i])
          \in [month : 0 .. (MaxMonth + 1), total : Nat, house : Nat, houses : BOOLEAN]
    BY <2>2, <2>3 DEF Landed, Writes
  <2> QED BY <2>1, <2>4 DEF WriteLands, DiskOK
<1>5. QueuesOK'
  BY <1>1, <1>2, Bounds DEF IInv, WriteLands, Landed, counters, Alive, Months,
       QueuesOK, TypeOK, MemoryOK, DiskOK, HistoryOK, Rows, Writes
<1>6. DownInv'
  BY <1>1, Bounds DEF IInv, WriteLands, Landed, counters, Alive, Months, DownInv
<1>7. CacheInv'
  BY <1>1, <1>2, Bounds DEF IInv, WriteLands, Landed, counters, Alive, Months,
       CacheInv, TypeOK, MemoryOK, DiskOK, HistoryOK, QueuesOK, Sum, Writes, LogInv
<1>8. CleanInv'
  <2>1. /\ cache' = Landed(writes[i])
        /\ UNCHANGED <<phase, faults, dirty, memory>> /\ i \in DOMAIN writes
    BY DEF WriteLands, counters
  <2> SUFFICES ASSUME phase = "up", Quiet, ~dirty, memory.total > 0
               PROVE  /\ writes' = <<>> /\ cache'.month = memory.month
                      /\ cache'.total = memory.total
    BY <1>1, <2>1 DEF CleanInv, Quiet
  <2>2. writes \in Seq(Writes) /\ CleanInv
    BY DEF IInv, TypeOK, QueuesOK
  <2>3. writes # <<>>
    BY <2>1, <2>2
  <2>4. /\ Len(writes) = 1 /\ writes[1].month = memory.month
        /\ writes[1].total = memory.total
    BY <2>2, <2>3 DEF CleanInv
  <2>5. i = 1 /\ writes' = <<>>
    BY <1>2, <2>1, <2>2, <2>4
  <2> QED BY <2>1, <2>4, <2>5 DEF Landed
<1>9. FlushInv'
  <2>1. /\ cache' = Landed(writes[i])
        /\ UNCHANGED <<phase, faults, timer, kept, bills>> /\ i \in DOMAIN writes
    BY DEF WriteLands, counters
  <2> SUFFICES ASSUME phase \in {"flushing", "flushed", "exited"}, Quiet,
                      kept.bills = bills, kept.total > 0
               PROVE  /\ ~timer
                      /\ writes' = <<>> /\ cache'.month = kept.month
                      /\ cache'.total = kept.total
    BY <1>1, <2>1 DEF FlushInv, Quiet
  <2>2. writes \in Seq(Writes) /\ FlushInv
    BY DEF IInv, TypeOK, QueuesOK
  <2>3. writes # <<>>
    BY <2>1, <2>2
  <2>4. /\ ~timer /\ Len(writes) = 1 /\ writes[1].month = kept.month
        /\ writes[1].total = kept.total
    BY <2>2, <2>3 DEF FlushInv
  <2>5. i = 1 /\ writes' = <<>>
    BY <1>2, <2>1, <2>2, <2>4
  <2> QED BY <2>1, <2>4, <2>5 DEF Landed
<1>10. NeverOvercounts'
  BY <1>1, Bounds DEF IInv, WriteLands, Landed, counters, Alive, Months,
       NeverOvercounts, TypeOK, MemoryOK, DiskOK, HistoryOK, QueuesOK, CacheInv,
       LogInv, Sum
<1>11. FlushSaves'
  BY <1>1, Bounds DEF IInv, WriteLands, Landed, counters, Alive, Months,
       FlushSaves, FlushInv, Quiet
<1>12. MemoryOK' /\ HistoryOK' /\ LogInv'
  BY DEF IInv, WriteLands, counters, TypeOK, MemoryOK, HistoryOK, LogInv,
       HousedRowsOf, RowsOf
<1> QED BY <1>3, <1>4, <1>5, <1>6, <1>7, <1>8, <1>9, <1>10, <1>11, <1>12 DEF IInv, TypeOK

(* A write fails, which ends the quiet.                                    *)
LEMMA WriteFailsKeeps == ASSUME IInv, NEW i \in DOMAIN writes, WriteFails(i), Noted PROVE IInv'
<1>1. /\ crowded' \in BOOLEAN
      /\ ~crowded' => /\ ~crowded
                      /\ writes = <<>> \/ ~(Len(writes') > Len(writes))
                      /\ writes = <<>> \/ ~(phase = "up" /\ phase' = "flushing")
  BY Crowding
<1>2. /\ writes' \in Seq(Writes)
      /\ \A j \in DOMAIN writes' : /\ writes'[j].total <= billed[writes'[j].month].total
                                /\ writes'[j].house <= billed[writes'[j].month].house
  BY Subtracting DEF WriteFails
<1>3. FlagsOK'
  BY <1>1, Bounds DEF IInv, WriteFails, counters, Alive, Months, FlagsOK, TypeOK
<1>4. QueuesOK'
  BY <1>1, <1>2, Bounds DEF IInv, WriteFails, counters, Alive, Months, QueuesOK,
       TypeOK, MemoryOK, DiskOK, HistoryOK, Rows, Writes
<1>5. HistoryOK'
  <2>1. HistoryOK
    BY DEF IInv, TypeOK
  <2> QED BY <2>1 DEF HistoryOK, WriteFails
<1>6. DownInv'
  BY <1>1, Bounds DEF IInv, WriteFails, counters, Alive, Months, DownInv
<1>7. CacheInv'
  BY <1>1, <1>2, Bounds DEF IInv, WriteFails, counters, Alive, Months, CacheInv,
       TypeOK, MemoryOK, DiskOK, HistoryOK, QueuesOK, Sum, Writes, LogInv
<1>8. CleanInv'
  BY <1>1, <1>2, Bounds DEF IInv, WriteFails, counters, Alive, Months, CleanInv,
       TypeOK, MemoryOK, DiskOK, HistoryOK, QueuesOK, Quiet, Writes
<1>9. FlushInv'
  BY <1>1, <1>2, Bounds DEF IInv, WriteFails, counters, Alive, Months, FlushInv,
       TypeOK, MemoryOK, DiskOK, HistoryOK, QueuesOK, Quiet, CleanInv, Writes
<1>10. FlushSaves'
  BY <1>1, Bounds DEF IInv, WriteFails, counters, Alive, Months, FlushSaves,
       FlushInv, Quiet
<1>11. MemoryOK' /\ DiskOK' /\ LogInv' /\ NeverOvercounts'
  BY DEF IInv, WriteFails, counters, TypeOK, MemoryOK, DiskOK, LogInv,
       HousedRowsOf, RowsOf, NeverOvercounts
<1> QED BY <1>3, <1>4, <1>5, <1>6, <1>7, <1>8, <1>9, <1>10, <1>11 DEF IInv, TypeOK

(* The flush writes what is dirty.                                         *)
LEMMA FlushKeeps == ASSUME IInv, Flush, Noted PROVE IInv'
<1>1. /\ crowded' \in BOOLEAN
      /\ ~crowded' => /\ ~crowded
                      /\ writes = <<>> \/ ~(Len(writes') > Len(writes))
                      /\ writes = <<>> \/ ~(phase = "up" /\ phase' = "flushing")
  BY Crowding
<1>2. \/ ~dirty /\ writes' = writes
      \/ /\ dirty /\ writes' \in Seq(Writes) /\ Len(writes') = Len(writes) + 1
         /\ writes'[Len(writes) + 1].month = memory.month
         /\ writes'[Len(writes) + 1].total = memory.total
         /\ writes'[Len(writes) + 1].flush
         /\ \A j \in DOMAIN writes' : /\ writes'[j].total <= billed[writes'[j].month].total
                                   /\ writes'[j].house <= billed[writes'[j].month].house
  BY Adding, Held DEF Flush, FlushWrites
<1>3. MemoryOK'
  BY <1>1, Bounds DEF IInv, Flush, FlushWrites, Snapshot, counters, Alive, Months,
       MemoryOK, TypeOK, DiskOK, HistoryOK, QueuesOK, Sum
<1>4. FlagsOK'
  BY <1>1, Bounds DEF IInv, Flush, FlushWrites, Snapshot, counters, Alive, Months,
       FlagsOK, TypeOK
<1>5. QueuesOK'
  BY <1>1, <1>2, Bounds DEF IInv, Flush, counters, Alive, Months, QueuesOK, TypeOK,
       MemoryOK, DiskOK, HistoryOK, Rows, Writes
<1>6. HistoryOK'
  <2>1. HistoryOK /\ MemoryOK
    BY DEF IInv, TypeOK
  <2>2. /\ kept' = [month |-> memory.month, total |-> memory.total, bills |-> bills]
        /\ UNCHANGED <<billed, bills, faults, starts>>
    BY DEF Flush, counters
  <2>3. kept' \in [month : Months, total : Nat, bills : Nat] /\ kept'.bills <= bills'
    BY <2>1, <2>2 DEF HistoryOK, MemoryOK
  <2> QED BY <2>1, <2>2, <2>3 DEF HistoryOK
<1>7. DownInv'
  BY <1>1, Bounds DEF IInv, Flush, FlushWrites, Snapshot, counters, Alive, Months,
       DownInv
<1>8. CacheInv'
  BY <1>1, <1>2, Bounds DEF IInv, Flush, counters, Alive, Months, CacheInv, TypeOK,
       MemoryOK, DiskOK, HistoryOK, QueuesOK, Sum, Writes, LogInv
<1>9. CleanInv'
  BY <1>1, <1>2, Bounds DEF IInv, Flush, FlushWrites, Snapshot, counters, Alive,
       Months, CleanInv, TypeOK, MemoryOK, DiskOK, HistoryOK, QueuesOK, Quiet,
       Writes
<1>10. FlushInv'
  <2>1. /\ phase = "up" /\ phase' = "flushing" /\ timer' = FALSE
        /\ kept'.month = memory.month /\ kept'.total = memory.total
        /\ UNCHANGED <<cache, faults>>
    BY DEF Flush, counters
  <2> SUFFICES ASSUME Quiet, ~crowded', memory.total > 0
               PROVE  \/ writes' = <<>> /\ cache.month = memory.month
                         /\ cache.total = memory.total
                      \/ /\ Len(writes') = 1 /\ writes'[1].flush
                         /\ writes'[1].month = memory.month
                         /\ writes'[1].total = memory.total
    BY <1>1, <2>1 DEF FlushInv, Quiet
  <2>2. writes = <<>>
    BY <1>1, <2>1
  <2>3. CASE dirty
    BY <1>2, <2>2, <2>3
  <2>4. CASE ~dirty
    BY <1>2, <2>1, <2>2, <2>4 DEF IInv, CleanInv
  <2> QED BY <2>3, <2>4
<1>11. FlushSaves'
  BY <1>1, Bounds DEF IInv, Flush, FlushWrites, Snapshot, counters, Alive, Months,
       FlushSaves, FlushInv, Quiet
<1>12. DiskOK' /\ LogInv' /\ NeverOvercounts'
  BY DEF IInv, Flush, counters, TypeOK, DiskOK, LogInv, HousedRowsOf, RowsOf,
       NeverOvercounts
<1> QED BY <1>3, <1>4, <1>5, <1>6, <1>7, <1>8, <1>9, <1>10, <1>11, <1>12 DEF IInv, TypeOK

(* The flush has no write of its own under way.                            *)
LEMMA FlushReturnsKeeps == ASSUME IInv, FlushReturns, Noted PROVE IInv'
<1>1. /\ crowded' \in BOOLEAN
      /\ ~crowded' => /\ ~crowded
                      /\ writes = <<>> \/ ~(Len(writes') > Len(writes))
                      /\ writes = <<>> \/ ~(phase = "up" /\ phase' = "flushing")
  BY Crowding
<1>2. MemoryOK'
  BY <1>1, Bounds DEF IInv, FlushReturns, counters, Alive, Months, MemoryOK,
       TypeOK, DiskOK, HistoryOK, QueuesOK, Sum
<1>3. FlagsOK'
  BY <1>1, Bounds DEF IInv, FlushReturns, counters, Alive, Months, FlagsOK, TypeOK
<1>4. DownInv'
  BY <1>1, Bounds DEF IInv, FlushReturns, counters, Alive, Months, DownInv
<1>5. CleanInv'
  BY <1>1, Bounds DEF IInv, FlushReturns, counters, Alive, Months, CleanInv,
       TypeOK, MemoryOK, DiskOK, HistoryOK, QueuesOK, Quiet, Writes
<1>6. FlushInv'
  <2>1. /\ phase = "flushing" /\ \A i \in DOMAIN writes : ~writes[i].flush
        /\ UNCHANGED <<cache, writes, timer, kept, bills, faults>>
    BY DEF FlushReturns, counters
  <2> SUFFICES ASSUME Quiet, kept.bills = bills, kept.total > 0
               PROVE  /\ ~timer
                      /\ writes = <<>> /\ cache.month = kept.month
                      /\ cache.total = kept.total
    BY <1>1, <2>1 DEF FlushInv, Quiet
  <2>2. writes \in Seq(Writes) /\ FlushInv
    BY DEF IInv, TypeOK, QueuesOK
  <2>3. ~(Len(writes) = 1 /\ writes[1].flush)
    BY <2>1, <2>2
  <2> QED BY <2>1, <2>2, <2>3 DEF FlushInv
<1>7. FlushSaves'
  BY <1>1, Bounds DEF IInv, FlushReturns, counters, Alive, Months, FlushSaves,
       FlushInv, Quiet
<1>8. DiskOK' /\ QueuesOK' /\ HistoryOK' /\ LogInv' /\ CacheInv' /\
      NeverOvercounts'
  BY DEF IInv, FlushReturns, counters, TypeOK, DiskOK, QueuesOK, Writes, Rows,
       HistoryOK, LogInv, HousedRowsOf, RowsOf, CacheInv, NeverOvercounts
<1> QED BY <1>2, <1>3, <1>4, <1>5, <1>6, <1>7, <1>8 DEF IInv, TypeOK

(* The process exits.                                                      *)
LEMMA ExitKeeps == ASSUME IInv, Exit, Noted PROVE IInv'
<1>1. /\ crowded' \in BOOLEAN
      /\ ~crowded' => /\ ~crowded
                      /\ writes = <<>> \/ ~(Len(writes') > Len(writes))
                      /\ writes = <<>> \/ ~(phase = "up" /\ phase' = "flushing")
  BY Crowding
<1>2. MemoryOK'
  BY <1>1, Bounds DEF IInv, Exit, Gone, counters, Alive, Months, MemoryOK, TypeOK,
       DiskOK, HistoryOK, QueuesOK, Sum
<1>3. FlagsOK'
  BY <1>1, Bounds DEF IInv, Exit, Gone, counters, Alive, Months, FlagsOK, TypeOK
<1>4. QueuesOK'
  BY <1>1, Bounds DEF IInv, Exit, Gone, counters, Alive, Months, QueuesOK, TypeOK,
       MemoryOK, DiskOK, HistoryOK, Rows, Writes
<1>5. DownInv'
  BY <1>1, Bounds DEF IInv, Exit, Gone, counters, Alive, Months, DownInv
<1>6. LogInv'
  <2> SUFFICES ASSUME NEW m \in Months
               PROVE  /\ log'[m].total + Cardinality(RowsOf(rows', m)) <= billed'[m].total
                      /\ log'[m].house + Cardinality(HousedRowsOf(rows', m)) <= billed'[m].house
    BY DEF LogInv
  <2>1. /\ log[m].total \in Nat /\ log[m].house \in Nat
        /\ billed[m].total \in Nat /\ billed[m].house \in Nat /\ rows \in Seq(Rows)
    BY DEF IInv, TypeOK, DiskOK, HistoryOK, QueuesOK, Sum
  <2>2. /\ log[m].total + Cardinality(RowsOf(rows, m)) <= billed[m].total
        /\ log[m].house + Cardinality(HousedRowsOf(rows, m)) <= billed[m].house
    BY DEF IInv, LogInv
  <2>3. Cardinality(RowsOf(rows, m)) \in Nat /\ Cardinality(HousedRowsOf(rows, m)) \in Nat
    BY <2>1, RowsCounted
  <2>4. Cardinality(RowsOf(rows', m)) = 0 /\ Cardinality(HousedRowsOf(rows', m)) = 0
    <3>1. RowsOf(<<>>, m) = {} /\ HousedRowsOf(<<>>, m) = {}
      BY DEF RowsOf, HousedRowsOf
    <3> QED BY <3>1, FS_EmptySet DEF Exit, Gone
  <2> QED BY <2>1, <2>2, <2>3, <2>4 DEF Exit, Gone
<1>7. CacheInv'
  BY <1>1, Bounds DEF IInv, Exit, Gone, counters, Alive, Months, CacheInv, TypeOK,
       MemoryOK, DiskOK, HistoryOK, QueuesOK, Sum, Writes, LogInv
<1>8. CleanInv'
  BY <1>1, Bounds DEF IInv, Exit, Gone, counters, Alive, Months, CleanInv, TypeOK,
       MemoryOK, DiskOK, HistoryOK, QueuesOK, Quiet, Writes
<1>9. FlushInv'
  BY <1>1, Bounds DEF IInv, Exit, Gone, counters, Alive, Months, FlushInv, TypeOK,
       MemoryOK, DiskOK, HistoryOK, QueuesOK, Quiet, CleanInv, Writes
<1>10. FlushSaves'
  <2>1. /\ phase = "flushed" /\ UNCHANGED <<cache, kept, bills, faults>>
    BY DEF Exit, Gone, counters
  <2> SUFFICES ASSUME Quiet, kept.bills = bills, kept.total > 0
               PROVE  cache.month = kept.month /\ cache.total >= kept.total
    BY <1>1, <2>1 DEF FlushSaves, Quiet
  <2>2. /\ FlushInv /\ kept.total \in Nat
    BY DEF IInv, TypeOK, HistoryOK
  <2> QED BY <2>1, <2>2 DEF FlushInv
<1>11. DiskOK' /\ HistoryOK' /\ NeverOvercounts'
  BY DEF IInv, Exit, Gone, counters, TypeOK, DiskOK, HistoryOK, NeverOvercounts
<1> QED BY <1>2, <1>3, <1>4, <1>5, <1>6, <1>7, <1>8, <1>9, <1>10, <1>11 DEF IInv, TypeOK

(* The process is killed.                                                  *)
LEMMA CrashKeeps == ASSUME IInv, Crash, Noted PROVE IInv'
<1>1. /\ crowded' \in BOOLEAN
      /\ ~crowded' => /\ ~crowded
                      /\ writes = <<>> \/ ~(Len(writes') > Len(writes))
                      /\ writes = <<>> \/ ~(phase = "up" /\ phase' = "flushing")
  BY Crowding
<1>2. MemoryOK'
  BY <1>1, Bounds DEF IInv, Crash, Gone, counters, Alive, Months, MemoryOK, TypeOK,
       DiskOK, HistoryOK, QueuesOK, Sum
<1>3. FlagsOK'
  BY <1>1, Bounds DEF IInv, Crash, Gone, counters, Alive, Months, FlagsOK, TypeOK
<1>4. QueuesOK'
  BY <1>1, Bounds DEF IInv, Crash, Gone, counters, Alive, Months, QueuesOK, TypeOK,
       MemoryOK, DiskOK, HistoryOK, Rows, Writes
<1>5. DownInv'
  BY <1>1, Bounds DEF IInv, Crash, Gone, counters, Alive, Months, DownInv
<1>6. LogInv'
  <2> SUFFICES ASSUME NEW m \in Months
               PROVE  /\ log'[m].total + Cardinality(RowsOf(rows', m)) <= billed'[m].total
                      /\ log'[m].house + Cardinality(HousedRowsOf(rows', m)) <= billed'[m].house
    BY DEF LogInv
  <2>1. /\ log[m].total \in Nat /\ log[m].house \in Nat
        /\ billed[m].total \in Nat /\ billed[m].house \in Nat /\ rows \in Seq(Rows)
    BY DEF IInv, TypeOK, DiskOK, HistoryOK, QueuesOK, Sum
  <2>2. /\ log[m].total + Cardinality(RowsOf(rows, m)) <= billed[m].total
        /\ log[m].house + Cardinality(HousedRowsOf(rows, m)) <= billed[m].house
    BY DEF IInv, LogInv
  <2>3. Cardinality(RowsOf(rows, m)) \in Nat /\ Cardinality(HousedRowsOf(rows, m)) \in Nat
    BY <2>1, RowsCounted
  <2>4. Cardinality(RowsOf(rows', m)) = 0 /\ Cardinality(HousedRowsOf(rows', m)) = 0
    <3>1. RowsOf(<<>>, m) = {} /\ HousedRowsOf(<<>>, m) = {}
      BY DEF RowsOf, HousedRowsOf
    <3> QED BY <3>1, FS_EmptySet DEF Crash, Gone
  <2> QED BY <2>1, <2>2, <2>3, <2>4 DEF Crash, Gone
<1>7. CacheInv'
  BY <1>1, Bounds DEF IInv, Crash, Gone, counters, Alive, Months, CacheInv, TypeOK,
       MemoryOK, DiskOK, HistoryOK, QueuesOK, Sum, Writes, LogInv
<1>8. CleanInv'
  BY <1>1, Bounds DEF IInv, Crash, Gone, counters, Alive, Months, CleanInv, TypeOK,
       MemoryOK, DiskOK, HistoryOK, QueuesOK, Quiet, Writes
<1>9. FlushInv'
  BY <1>1, Bounds DEF IInv, Crash, Gone, counters, Alive, Months, FlushInv, TypeOK,
       MemoryOK, DiskOK, HistoryOK, QueuesOK, Quiet, CleanInv, Writes
<1>10. FlushSaves'
  BY <1>1, Bounds DEF IInv, Crash, Gone, counters, Alive, Months, FlushSaves,
       FlushInv, Quiet
<1>11. DiskOK' /\ HistoryOK' /\ NeverOvercounts'
  BY DEF IInv, Crash, Gone, counters, TypeOK, DiskOK, HistoryOK, NeverOvercounts
<1> QED BY <1>2, <1>3, <1>4, <1>5, <1>6, <1>7, <1>8, <1>9, <1>10, <1>11 DEF IInv, TypeOK

(* A month begins.                                                         *)
LEMMA NewMonthKeeps == ASSUME IInv, NewMonth, Noted PROVE IInv'
<1>1. /\ crowded' \in BOOLEAN
      /\ ~crowded' => /\ ~crowded
                      /\ writes = <<>> \/ ~(Len(writes') > Len(writes))
                      /\ writes = <<>> \/ ~(phase = "up" /\ phase' = "flushing")
  BY Crowding
<1>2. MemoryOK'
  BY <1>1, Bounds DEF IInv, NewMonth, counters, Alive, Months, MemoryOK, TypeOK,
       DiskOK, HistoryOK, QueuesOK, Sum
<1>3. FlagsOK'
  BY <1>1, Bounds DEF IInv, NewMonth, counters, Alive, Months, FlagsOK, TypeOK
<1>4. DiskOK'
  BY <1>1, Bounds DEF IInv, NewMonth, counters, Alive, Months, DiskOK, TypeOK,
       MemoryOK, HistoryOK, QueuesOK, Sum, Rows
<1>5. QueuesOK'
  BY <1>1, Bounds DEF IInv, NewMonth, counters, Alive, Months, QueuesOK, TypeOK,
       MemoryOK, DiskOK, HistoryOK, Rows, Writes
<1>6. HistoryOK'
  BY Bounds DEF IInv, NewMonth, counters, Alive, Months, HistoryOK, TypeOK,
       MemoryOK, DiskOK, QueuesOK, Sum
<1>7. LogInv'
  BY <1>1, Bounds DEF IInv, NewMonth, counters, Alive, Months, LogInv, TypeOK,
       MemoryOK, DiskOK, HistoryOK, QueuesOK, Sum, Rows
<1>8. CacheInv'
  BY <1>1, Bounds DEF IInv, NewMonth, counters, Alive, Months, CacheInv, TypeOK,
       MemoryOK, DiskOK, HistoryOK, QueuesOK, Sum, Writes, LogInv
<1>9. CleanInv'
  BY <1>1, Bounds DEF IInv, NewMonth, counters, Alive, Months, CleanInv, TypeOK,
       MemoryOK, DiskOK, HistoryOK, QueuesOK, Quiet, Writes
<1>10. FlushInv'
  BY <1>1, Bounds DEF IInv, NewMonth, counters, Alive, Months, FlushInv, TypeOK,
       MemoryOK, DiskOK, HistoryOK, QueuesOK, Quiet, CleanInv, Writes
<1>11. NeverOvercounts'
  BY <1>1, Bounds DEF IInv, NewMonth, counters, Alive, Months, NeverOvercounts,
       TypeOK, MemoryOK, DiskOK, HistoryOK, QueuesOK, CacheInv, LogInv, Sum
<1>12. FlushSaves'
  <2>1. UNCHANGED <<phase, cache, kept, bills, faults>>
    BY DEF NewMonth, counters
  <2> SUFFICES ASSUME phase = "exited", Quiet, kept.bills = bills, kept.total > 0
               PROVE  cache.month = kept.month /\ cache.total >= kept.total
    BY <1>1, <2>1 DEF FlushSaves, Quiet
  <2>2. FlushInv /\ kept.total \in Nat
    BY DEF IInv, TypeOK, HistoryOK
  <2> QED BY <2>2 DEF FlushInv
<1>13. DownInv'
  BY DEF IInv, NewMonth, counters, TypeOK, DownInv, Alive
<1> QED BY <1>2, <1>3, <1>4, <1>5, <1>6, <1>7, <1>8, <1>9, <1>10, <1>11, <1>12,
     <1>13 DEF IInv, TypeOK

(* The start reads the cache or counts the log.                            *)
LEMMA LoadMonthlyCacheKeeps == ASSUME IInv, LoadMonthlyCache, Noted PROVE IInv'
<1>1. /\ crowded' \in BOOLEAN
      /\ ~crowded' => /\ ~crowded
                      /\ writes = <<>> \/ ~(Len(writes') > Len(writes))
                      /\ writes = <<>> \/ ~(phase = "up" /\ phase' = "flushing")
  BY Crowding
<1>2. MemoryOK'
  BY <1>1, Bounds DEF IInv, LoadMonthlyCache, Loaded, CacheCurrent, Recount,
       Upgraded, counters, Alive, Months, MemoryOK, TypeOK, DiskOK, HistoryOK,
       QueuesOK, Sum
<1>3. FlagsOK'
  BY <1>1, Bounds DEF IInv, LoadMonthlyCache, Loaded, CacheCurrent, Recount,
       Upgraded, counters, Alive, Months, FlagsOK, TypeOK
<1>4. HistoryOK'
  <2>1. HistoryOK
    BY DEF IInv, TypeOK
  <2> QED BY <2>1 DEF HistoryOK, LoadMonthlyCache
<1>5. DownInv'
  BY <1>1, Bounds DEF IInv, LoadMonthlyCache, Loaded, CacheCurrent, Recount,
       Upgraded, counters, Alive, Months, DownInv
<1>6. CleanInv'
  <2>1. /\ memory' = Loaded /\ UNCHANGED <<cache, writes>> /\ writes = <<>>
        /\ ~dirty' => /\ ~CacheCurrent => ~(log[month].total > 0)
                      /\ CacheCurrent => cache.houses
    BY DEF LoadMonthlyCache, IInv, DownInv
  <2>2. log[month].total \in Nat
    BY DEF IInv, TypeOK, MemoryOK, DiskOK, Sum
  <2> SUFFICES ASSUME ~dirty', memory'.total > 0
               PROVE  cache.month = memory'.month /\ cache.total = memory'.total
    BY <2>1 DEF CleanInv
  <2>3. CASE CacheCurrent
    BY <2>1, <2>3 DEF Loaded, CacheCurrent
  <2>4. CASE ~CacheCurrent
    <3>1. memory'.total = log[month].total
      BY <2>1, <2>4 DEF Loaded, Recount
    <3> QED BY <2>1, <2>2, <2>4, <3>1
  <2> QED BY <2>3, <2>4
<1>7. FlushInv'
  BY <1>1, Bounds DEF IInv, LoadMonthlyCache, Loaded, CacheCurrent, Recount,
       Upgraded, counters, Alive, Months, FlushInv, TypeOK, MemoryOK, DiskOK,
       HistoryOK, QueuesOK, Quiet, CleanInv, Writes
<1>8. NeverOvercounts'
  <2>1. /\ memory' = Loaded /\ UNCHANGED <<cache, billed>>
    BY DEF LoadMonthlyCache
  <2>2. /\ month \in Months /\ log[month].total \in Nat /\ log[month].house \in Nat
        /\ billed[month].total \in Nat /\ billed[month].house \in Nat
    BY DEF IInv, TypeOK, MemoryOK, DiskOK, HistoryOK, Sum
  <2>3. /\ log[month].total <= billed[month].total
        /\ log[month].house <= billed[month].house
    <3>1. rows \in Seq(Rows)
      BY DEF IInv, TypeOK, QueuesOK
    <3>2. /\ Cardinality(RowsOf(rows, month)) \in Nat
          /\ Cardinality(HousedRowsOf(rows, month)) \in Nat
      BY <2>2, <3>1, RowsCounted
    <3>3. /\ log[month].total + Cardinality(RowsOf(rows, month)) <= billed[month].total
          /\ log[month].house + Cardinality(HousedRowsOf(rows, month)) <= billed[month].house
      BY <2>2 DEF IInv, LogInv
    <3> QED BY <2>2, <3>2, <3>3
  <2>4. CacheCurrent => /\ cache.total <= billed[month].total
                        /\ cache.house <= billed[month].house
    BY <2>2 DEF CacheCurrent, IInv, CacheInv
  <2>5. /\ Loaded.month = month
        /\ Loaded.total <= billed[month].total /\ Loaded.house <= billed[month].house
    <3>1. CASE Loaded = Recount
      BY <2>3, <3>1 DEF Recount
    <3>2. CASE CacheCurrent /\ Loaded = [month |-> month, total |-> cache.total,
                                         house |-> cache.house]
      BY <2>4, <3>2
    <3>3. CASE CacheCurrent /\ Loaded = [month |-> month, total |-> cache.total, house |-> 0]
      BY <2>2, <2>4, <3>3
    <3> QED BY <3>1, <3>2, <3>3 DEF Loaded, Upgraded
  <2>6. cache.month \in Months => cache.total <= billed[cache.month].total
    BY DEF IInv, NeverOvercounts
  <2> QED BY <2>1, <2>5, <2>6 DEF NeverOvercounts
<1>9. FlushSaves'
  BY <1>1, Bounds DEF IInv, LoadMonthlyCache, Loaded, CacheCurrent, Recount,
       Upgraded, counters, Alive, Months, FlushSaves, FlushInv, Quiet
<1>10. DiskOK' /\ QueuesOK' /\ LogInv' /\ CacheInv'
  BY DEF IInv, LoadMonthlyCache, counters, TypeOK, DiskOK, QueuesOK, Writes, Rows,
       LogInv, HousedRowsOf, RowsOf, CacheInv
<1> QED BY <1>2, <1>3, <1>4, <1>5, <1>6, <1>7, <1>8, <1>9, <1>10 DEF IInv, TypeOK

-----------------------------------------------------------------------------
(* A new install and the data of an old release satisfy the invariant.     *)
LEMMA Initially == Init => IInv
<1> SUFFICES ASSUME Init PROVE IInv
  OBVIOUS
<1>1. PICK before \in 0..1, cached \in BOOLEAN :
        /\ log = [m \in Months |-> IF m = 0 THEN [total |-> before, house |-> 0] ELSE Zero]
        /\ cache = IF cached THEN [month |-> 0, total |-> before, house |-> 0,
                                   houses |-> FALSE]
                   ELSE NoCache
  BY DEF Init
<1>2. /\ month = 0 /\ phase = "down" /\ memory = Fresh(0) /\ billed = log
      /\ rows = <<>> /\ writes = <<>> /\ dirty = FALSE /\ timer = FALSE
      /\ kept = [month |-> 0, total |-> 0, bills |-> 0]
      /\ crowded = FALSE /\ bills = 0 /\ faults = 0 /\ starts = 0
  BY DEF Init
<1>3. /\ before \in Nat /\ 0 \in Months /\ Months \subseteq Nat
      /\ Months \subseteq 0 .. (MaxMonth + 1) /\ MaxMonth + 1 \in Nat
      /\ MaxMonth + 1 \notin Months
  BY Bounds DEF Months
<1>4. log \in [Months -> Sum]
  <2>1. [total |-> before, house |-> 0] \in Sum /\ Zero \in Sum
    BY <1>3 DEF Sum, Zero
  <2> QED BY <1>1, <2>1
<1>5. TypeOK
  <2>1. cache \in [month : 0 .. (MaxMonth + 1), total : Nat, house : Nat, houses : BOOLEAN]
    BY <1>1, <1>3, Bounds DEF NoCache
  <2>2. MemoryOK
    BY <1>2, <1>3 DEF MemoryOK, Fresh
  <2>3. rows \in Seq(Rows) /\ writes \in Seq(Writes)
    BY <1>2
  <2>4. HistoryOK
    BY <1>2, <1>3, <1>4 DEF HistoryOK
  <2>5. FlagsOK
    BY <1>2 DEF FlagsOK
  <2> QED BY <1>4, <2>1, <2>2, <2>3, <2>4, <2>5 DEF TypeOK, DiskOK, QueuesOK
<1>6. \A m \in Months : log[m].total \in Nat /\ log[m].house \in Nat
  BY <1>4 DEF Sum
<1>7. LogInv
  <2>1. \A m \in Months : RowsOf(rows, m) = {} /\ HousedRowsOf(rows, m) = {}
    BY <1>2 DEF RowsOf, HousedRowsOf
  <2>2. \A m \in Months : /\ Cardinality(RowsOf(rows, m)) = 0
                          /\ Cardinality(HousedRowsOf(rows, m)) = 0
    BY <2>1, FS_EmptySet
  <2> QED BY <1>2, <1>6, <2>2 DEF LogInv
<1>8. cache.month \in Months => /\ cache.total <= billed[cache.month].total
                               /\ cache.house <= billed[cache.month].house
  <2>1. log[0] = [total |-> before, house |-> 0]
    BY <1>1, <1>3
  <2>2. CASE cached
    BY <1>1, <1>2, <1>3, <2>1, <2>2
  <2>3. CASE ~cached
    BY <1>1, <1>3, <2>3 DEF NoCache
  <2> QED BY <2>2, <2>3
<1>9. CacheInv
  BY <1>2, <1>8 DEF CacheInv
<1>10. DownInv /\ CleanInv /\ FlushInv /\ FlushSaves
  BY <1>2 DEF DownInv, CleanInv, FlushInv, FlushSaves
<1>11. NeverOvercounts
  BY <1>2, <1>3, <1>6, <1>8 DEF NeverOvercounts, Fresh
<1> QED BY <1>5, <1>7, <1>9, <1>10, <1>11 DEF IInv

(* Every step keeps the invariant.                                         *)
LEMMA NextKeeps == IInv /\ [Next]_vars => IInv'
<1> SUFFICES ASSUME IInv, [Next]_vars PROVE IInv'
  OBVIOUS
<1>1. CASE Step /\ Noted
  <2>1. ASSUME NEW housed \in BOOLEAN, Record(housed) PROVE IInv'
    BY <1>1, <2>1, RecordKeeps
  <2>2. ASSUME NEW i \in DOMAIN writes, WriteLands(i) \/ WriteFails(i) PROVE IInv'
    BY <1>1, <2>2, WriteLandsKeeps, WriteFailsKeeps
  <2>3. CASE Look \/ AppendRow \/ DropRow \/ TimerFires
    BY <1>1, <2>3, LookKeeps, AppendRowKeeps, DropRowKeeps, TimerFiresKeeps
  <2>4. CASE Flush \/ FlushReturns \/ Exit \/ Crash
    BY <1>1, <2>4, FlushKeeps, FlushReturnsKeeps, ExitKeeps, CrashKeeps
  <2>5. CASE NewMonth \/ LoadMonthlyCache
    BY <1>1, <2>5, NewMonthKeeps, LoadMonthlyCacheKeeps
  <2> QED BY <1>1, <2>1, <2>2, <2>3, <2>4, <2>5 DEF Step
<1>2. CASE UNCHANGED vars
  <2>1. TypeOK' /\ DownInv'
    BY <1>2 DEF vars, counters, IInv, TypeOK, MemoryOK, FlagsOK, DiskOK, QueuesOK,
       HistoryOK, DownInv, Alive
  <2>2. LogInv' /\ CacheInv' /\ NeverOvercounts'
    BY <1>2 DEF vars, counters, IInv, LogInv, CacheInv, NeverOvercounts
  <2>3. CleanInv' /\ FlushInv' /\ FlushSaves'
    BY <1>2 DEF vars, counters, IInv, CleanInv, FlushInv, FlushSaves, Quiet
  <2> QED BY <2>1, <2>2, <2>3 DEF IInv
<1> QED BY <1>1, <1>2 DEF Next

(* The inductive invariant: every source of a count is covered by what was *)
(* billed, and what is not dirty is on its way or in the cache.            *)
THEOREM Invariance == Spec => []IInv
  BY Initially, NextKeeps, PTL DEF Spec

(* For any months, bills, faults and starts: memory, log, queues, cache    *)
(* and process keep their shape.                                           *)
THEOREM TypeCorrect == Spec => []TypeOK
<1>1. IInv => TypeOK
  BY DEF IInv
<1> QED BY <1>1, Invariance, PTL

(* Costs are never counted twice nor in another month, through restarts,   *)
(* recounts of the log, upgrades of the cache and writes that land in any  *)
(* order.                                                                  *)
THEOREM NothingCountedTwice == Spec => []NeverOvercounts
<1>1. IInv => NeverOvercounts
  BY DEF IInv
<1> QED BY <1>1, Invariance, PTL

(* A shutdown that meets no other write and no failed one leaves in the    *)
(* cache what was in memory.                                               *)
THEOREM ShutdownSaves == Spec => []FlushSaves
<1>1. IInv => FlushSaves
  BY DEF IInv
<1> QED BY <1>1, Invariance, PTL
-----------------------------------------------------------------------------
(* Sums over finite sets. A fold of the community modules is a recursion   *)
(* over the subsets of a set; that it has a solution, and what it sums to, *)
(* follows from the well-foundedness of proper inclusion and of < on Nat.  *)

Pick(s) == CHOOSE x \in s : TRUE

Rest(f, g, s) == IF s = {} THEN 0 ELSE f[Pick(s)] + g[s \ {Pick(s)}]

Sums(f, S) == CHOOSE g : g = [s \in SUBSET S |-> Rest(f, g, s)]

LEMMA SumUnfold == ASSUME NEW f, NEW S PROVE SumFunctionOnSet(f, S) = Sums(f, S)[S]
BY DEF SumFunctionOnSet, FoldFunctionOnSet, MapThenFoldSet, Sums, Rest, Pick

LEMMA SetInduction ==
    ASSUME NEW S, IsFiniteSet(S), NEW W, {} \in W,
           \A T \in SUBSET S : \A x \in S \ T : T \in W => T \cup {x} \in W
    PROVE  S \in W
<1> SUFFICES ASSUME S \notin W PROVE FALSE
  OBVIOUS
<1> DEFINE Bad == (SUBSET S) \ W
<1>1. Bad # {} /\ Bad \subseteq FiniteSubsetsOf(S)
  BY FS_FiniteSubsetsOfFinite
<1>2. PICK T \in Bad : \A U \in Bad : <<U, T>> \notin StrictSubsetOrdering(S)
  BY <1>1, FS_StrictSubsetOrderingWellFounded, WFMin
<1>3. PICK x \in T : TRUE
  BY <1>2
<1>4. T \ {x} \notin Bad
  BY <1>2, <1>3 DEF StrictSubsetOrdering
<1>5. T \ {x} \in SUBSET S /\ T \ {x} \in W /\ x \in S \ (T \ {x})
  BY <1>2, <1>3, <1>4
<1>6. (T \ {x}) \cup {x} = T
  BY <1>3
<1>7. T \in W
  BY <1>5, <1>6
<1> QED BY <1>2, <1>7

LEMMA NatInductionSet ==
    ASSUME NEW W, 0 \in W, \A n \in Nat : n \in W => n + 1 \in W
    PROVE  Nat \subseteq W
<1> SUFFICES ASSUME Nat \ W # {} PROVE FALSE
  OBVIOUS
<1>1. PICK n \in Nat \ W : \A m \in Nat \ W : <<m, n>> \notin OpToRel(<, Nat)
  <2>1. Nat \ W \subseteq Nat
    OBVIOUS
  <2> QED BY <2>1, NatLessThanWellFounded, WFMin, Zenon
<1>2. n # 0 /\ n \in Nat
  BY <1>1
<1>3. n - 1 \in Nat /\ n - 1 < n /\ (n - 1) + 1 = n
  BY <1>2
<1>4. n - 1 \in W
  BY <1>1, <1>2, <1>3 DEF OpToRel
<1> QED BY <1>1, <1>2, <1>3, <1>4

LEMMA SmallerSet ==
    ASSUME NEW s, IsFiniteSet(s), NEW n \in Nat, Cardinality(s) = n + 1, NEW x \in s
    PROVE  IsFiniteSet(s \ {x}) /\ Cardinality(s \ {x}) = n
<1>1. IsFiniteSet(s \ {x}) /\ Cardinality(s \ {x}) = Cardinality(s) - 1
  BY FS_RemoveElement
<1> QED BY <1>1

(* The recursion behind a sum over a finite set has a solution.            *)
LEMMA SumsExist ==
    ASSUME NEW f, NEW S, IsFiniteSet(S)
    PROVE  Sums(f, S) = [s \in SUBSET S |-> Rest(f, Sums(f, S), s)]
<1> DEFINE Small(n) == {s \in SUBSET S : Cardinality(s) <= n}
           Solved(n) == \E g : g = [s \in Small(n) |-> Rest(f, g, s)]
<1>1. \A s \in SUBSET S : IsFiniteSet(s) /\ Cardinality(s) \in Nat
  BY FS_Subset, FS_CardinalityType
<1>2. \A s \in SUBSET S : s # {} => /\ Pick(s) \in s
                                     /\ s \ {Pick(s)} \in SUBSET S
                                     /\ Cardinality(s \ {Pick(s)}) = Cardinality(s) - 1
  <2> SUFFICES ASSUME NEW s \in SUBSET S, s # {}
      PROVE /\ Pick(s) \in s /\ s \ {Pick(s)} \in SUBSET S
            /\ Cardinality(s \ {Pick(s)}) = Cardinality(s) - 1
    OBVIOUS
  <2>1. Pick(s) \in s
    BY DEF Pick
  <2> QED BY <1>1, <2>1, FS_RemoveElement
<1>3. Solved(0)
  <2>1. \A s \in Small(0) : s = {}
    BY <1>1, FS_EmptySet
  <2>2. [s \in Small(0) |-> 0] = [s \in Small(0) |-> Rest(f, [x \in Small(0) |-> 0], s)]
    BY <2>1 DEF Rest
  <2> QED BY <2>2
<1>4. ASSUME NEW n \in Nat, Solved(n) PROVE Solved(n + 1)
  <2>1. PICK g : g = [s \in Small(n) |-> Rest(f, g, s)]
    BY <1>4
  <2> DEFINE h == [s \in Small(n + 1) |-> IF s \in Small(n) THEN g[s] ELSE Rest(f, g, s)]
  <2>2. ASSUME NEW s \in Small(n + 1) PROVE h[s] = Rest(f, h, s)
    <3>1. h[s] = Rest(f, g, s)
      BY <2>1
    <3>2. CASE s = {}
      BY <3>1, <3>2 DEF Rest
    <3>3. CASE s # {}
      <4>1. s \ {Pick(s)} \in Small(n) /\ s \ {Pick(s)} \in Small(n + 1)
        BY <1>1, <1>2, <3>3
      <4>2. h[s \ {Pick(s)}] = g[s \ {Pick(s)}]
        BY <4>1
      <4> QED BY <3>1, <3>3, <4>2 DEF Rest
    <3> QED BY <3>2, <3>3
  <2>3. h = [s \in Small(n + 1) |-> Rest(f, h, s)]
    BY <2>2
  <2> QED BY <2>3
<1>5. Cardinality(S) \in Nat /\ Small(Cardinality(S)) = SUBSET S
  BY <1>1, FS_Subset
<1>6. Solved(Cardinality(S))
  <2> DEFINE W == {n \in Nat : Solved(n)}
  <2> HIDE DEF Solved, Small
  <2>1. 0 \in W /\ \A n \in Nat : n \in W => n + 1 \in W
    BY <1>3, <1>4
  <2> HIDE DEF W
  <2>2. Nat \subseteq W
    BY <2>1, NatInductionSet
  <2> QED BY <1>5, <2>2 DEF W
<1>7. \E g : g = [s \in SUBSET S |-> Rest(f, g, s)]
  BY <1>5, <1>6
<1> QED BY <1>7 DEF Sums

LEMMA SumsRule ==
    ASSUME NEW f, NEW S, IsFiniteSet(S), NEW T \in SUBSET S
    PROVE  Sums(f, S)[T] = Rest(f, Sums(f, S), T)
<1>1. \A g : g = [s \in SUBSET S |-> Rest(f, g, s)] => g[T] = Rest(f, g, T)
  OBVIOUS
<1> QED BY <1>1, SumsExist

(* ... which is the same for each set that holds the summands.             *)
LEMMA SumsAgree ==
    ASSUME NEW f, NEW S, IsFiniteSet(S), NEW T \in SUBSET S
    PROVE  Sums(f, S)[T] = Sums(f, T)[T]
<1> DEFINE W == {n \in Nat : \A s \in SUBSET T :
                                Cardinality(s) = n => Sums(f, S)[s] = Sums(f, T)[s]}
<1>1. IsFiniteSet(T) /\ \A s \in SUBSET T : IsFiniteSet(s) /\ Cardinality(s) \in Nat
  BY FS_Subset, FS_CardinalityType
<1>2. \A s \in SUBSET T : /\ Sums(f, S)[s] = Rest(f, Sums(f, S), s)
                          /\ Sums(f, T)[s] = Rest(f, Sums(f, T), s)
  BY <1>1, SumsRule
<1>3. 0 \in W
  BY <1>1, <1>2, FS_EmptySet DEF Rest
<1>4. ASSUME NEW n \in Nat, n \in W PROVE n + 1 \in W
  <2> SUFFICES ASSUME NEW s \in SUBSET T, Cardinality(s) = n + 1
      PROVE Sums(f, S)[s] = Sums(f, T)[s]
    OBVIOUS
  <2>1. s # {} /\ Pick(s) \in s
    BY <1>1, FS_EmptySet DEF Pick
  <2>2. s \ {Pick(s)} \in SUBSET T /\ Cardinality(s \ {Pick(s)}) = n
    BY <1>1, <2>1, SmallerSet
  <2>3. Sums(f, S)[s \ {Pick(s)}] = Sums(f, T)[s \ {Pick(s)}]
    BY <1>4, <2>2
  <2> QED BY <1>2, <2>1, <2>3 DEF Rest
<1> HIDE DEF W
<1>5. Cardinality(T) \in W
  BY <1>1, <1>3, <1>4, NatInductionSet
<1> QED BY <1>5 DEF W

(* A sum by its first summand.                                             *)
LEMMA SumFirst ==
    ASSUME NEW f, NEW S, IsFiniteSet(S), S # {}
    PROVE  /\ Pick(S) \in S
           /\ SumFunctionOnSet(f, S)
                = f[Pick(S)] + SumFunctionOnSet(f, S \ {Pick(S)})
<1>1. Pick(S) \in S
  BY DEF Pick
<1>2. IsFiniteSet(S \ {Pick(S)}) /\ S \ {Pick(S)} \in SUBSET S
  BY FS_Subset
<1>3. Sums(f, S)[S] = Rest(f, Sums(f, S), S)
  BY SumsRule
<1>4. Sums(f, S)[S \ {Pick(S)}] = SumFunctionOnSet(f, S \ {Pick(S)})
  BY <1>2, SumsAgree, SumUnfold
<1> QED BY <1>1, <1>3, <1>4, SumUnfold DEF Rest

LEMMA SumEmpty == ASSUME NEW f PROVE SumFunctionOnSet(f, {}) = 0
<1>1. Sums(f, {})[{}] = Rest(f, Sums(f, {}), {})
  BY SumsRule, FS_EmptySet
<1> QED BY <1>1, SumUnfold DEF Rest

LEMMA SumNat ==
    ASSUME NEW D, NEW f \in [D -> Nat], NEW S \in SUBSET D, IsFiniteSet(S)
    PROVE  SumFunctionOnSet(f, S) \in Nat
<1> DEFINE W == {n \in Nat : \A s \in SUBSET S :
                      Cardinality(s) = n => SumFunctionOnSet(f, s) \in Nat}
<1>1. \A s \in SUBSET S : IsFiniteSet(s) /\ Cardinality(s) \in Nat
  BY FS_Subset, FS_CardinalityType
<1>2. 0 \in W
  BY <1>1, SumEmpty, FS_EmptySet
<1>3. ASSUME NEW n \in Nat, n \in W PROVE n + 1 \in W
  <2> SUFFICES ASSUME NEW s \in SUBSET S, Cardinality(s) = n + 1
      PROVE SumFunctionOnSet(f, s) \in Nat
    OBVIOUS
  <2>1. s # {}
    BY <1>1, FS_EmptySet
  <2>2. /\ Pick(s) \in s
        /\ SumFunctionOnSet(f, s) = f[Pick(s)] + SumFunctionOnSet(f, s \ {Pick(s)})
    BY <1>1, <2>1, SumFirst
  <2>3. SumFunctionOnSet(f, s \ {Pick(s)}) \in Nat
    <3>1. s \ {Pick(s)} \in SUBSET S /\ Cardinality(s \ {Pick(s)}) = n
      BY <1>1, <2>2, SmallerSet
    <3> QED BY <1>3, <3>1
  <2> QED BY <2>2, <2>3
<1> HIDE DEF W
<1>4. Cardinality(S) \in W
  BY <1>1, <1>2, <1>3, NatInductionSet
<1> QED BY <1>4 DEF W

(* A sum by any of its summands.                                           *)
LEMMA SumTake ==
    ASSUME NEW D, NEW f \in [D -> Nat], NEW S \in SUBSET D, IsFiniteSet(S), NEW x \in S
    PROVE  SumFunctionOnSet(f, S) = f[x] + SumFunctionOnSet(f, S \ {x})
<1> DEFINE Total(s) == SumFunctionOnSet(f, s)
           W == {n \in Nat : \A s \in SUBSET S : Cardinality(s) = n =>
                               \A y \in s : Total(s) = f[y] + Total(s \ {y})}
<1>1. \A s \in SUBSET S : IsFiniteSet(s) /\ Cardinality(s) \in Nat /\ Total(s) \in Nat
  BY FS_Subset, FS_CardinalityType, SumNat
<1>2. 0 \in W
  BY <1>1, FS_EmptySet
<1>3. ASSUME NEW n \in Nat, n \in W PROVE n + 1 \in W
  <2> SUFFICES ASSUME NEW s \in SUBSET S, Cardinality(s) = n + 1, NEW y \in s
      PROVE Total(s) = f[y] + Total(s \ {y})
    OBVIOUS
  <2> DEFINE p == Pick(s)
  <2>1. p \in s /\ Total(s) = f[p] + Total(s \ {p})
    BY <1>1, SumFirst
  <2>2. CASE y = p
    BY <2>1, <2>2
  <2>3. CASE y # p
    <3>1. s \ {p} \in SUBSET S /\ Cardinality(s \ {p}) = n /\ y \in s \ {p}
      BY <1>1, <2>1, <2>3, SmallerSet
    <3>2. s \ {y} \in SUBSET S /\ Cardinality(s \ {y}) = n /\ p \in s \ {y}
      BY <1>1, <2>1, <2>3, SmallerSet
    <3>3. (s \ {p}) \ {y} = (s \ {y}) \ {p}
      OBVIOUS
    <3>4. Total(s \ {p}) = f[y] + Total((s \ {p}) \ {y})
      BY <1>3, <3>1
    <3>5. Total(s \ {y}) = f[p] + Total((s \ {y}) \ {p})
      BY <1>3, <3>2
    <3>6. Total((s \ {y}) \ {p}) \in Nat /\ f[p] \in Nat /\ f[y] \in Nat
      BY <1>1, <2>1
    <3> HIDE DEF Total
    <3> QED BY <2>1, <3>3, <3>4, <3>5, <3>6
  <2> QED BY <2>2, <2>3
<1> HIDE DEF W
<1>4. Cardinality(S) \in W
  BY <1>1, <1>2, <1>3, NatInductionSet
<1> QED BY <1>1, <1>4 DEF W

(* Sums of functions that agree are equal, and more summands give no less. *)
LEMMA SumSame ==
    ASSUME NEW D, NEW f \in [D -> Nat], NEW g \in [D -> Nat],
           NEW S \in SUBSET D, IsFiniteSet(S), \A x \in S : f[x] = g[x]
    PROVE  SumFunctionOnSet(f, S) = SumFunctionOnSet(g, S)
<1> DEFINE W == {T \in SUBSET S : SumFunctionOnSet(f, T) = SumFunctionOnSet(g, T)}
<1>1. {} \in W
  BY SumEmpty
<1>2. ASSUME NEW T \in SUBSET S, NEW x \in S \ T, T \in W PROVE T \cup {x} \in W
  <2>1. IsFiniteSet(T \cup {x}) /\ T \cup {x} \in SUBSET D /\ (T \cup {x}) \ {x} = T
    BY <1>2, FS_Subset
  <2>2. /\ SumFunctionOnSet(f, T \cup {x}) = f[x] + SumFunctionOnSet(f, T)
        /\ SumFunctionOnSet(g, T \cup {x}) = g[x] + SumFunctionOnSet(g, T)
    BY <2>1, SumTake
  <2> QED BY <1>2, <2>2
<1> HIDE DEF W
<1>3. S \in W
  BY <1>1, <1>2, SetInduction
<1> QED BY <1>3 DEF W

LEMMA SumMore ==
    ASSUME NEW D, NEW f \in [D -> Nat], NEW S \in SUBSET D, IsFiniteSet(S), NEW T \in SUBSET S
    PROVE  SumFunctionOnSet(f, T) <= SumFunctionOnSet(f, S)
<1> DEFINE W == {U \in SUBSET S : SumFunctionOnSet(f, T) <= SumFunctionOnSet(f, T \cup U)}
<1>0. \A U \in SUBSET S : IsFiniteSet(U) /\ SumFunctionOnSet(f, U) \in Nat
  BY FS_Subset, SumNat
<1>1. {} \in W
  <2>1. T \cup {} = T
    OBVIOUS
  <2> QED BY <1>0, <2>1
<1>2. ASSUME NEW U \in SUBSET S, NEW x \in S \ U, U \in W PROVE U \cup {x} \in W
  <2>1. CASE x \in T
    <3>1. T \cup (U \cup {x}) = T \cup U
      BY <2>1
    <3> QED BY <1>2, <3>1
  <2>2. CASE x \notin T
    <3>1. /\ T \cup (U \cup {x}) \in SUBSET S /\ x \in T \cup (U \cup {x})
          /\ (T \cup (U \cup {x})) \ {x} = T \cup U
      BY <1>2, <2>2
    <3>2. SumFunctionOnSet(f, T \cup (U \cup {x})) = f[x] + SumFunctionOnSet(f, T \cup U)
      BY <1>0, <3>1, SumTake
    <3>3. f[x] \in Nat /\ SumFunctionOnSet(f, T) \in Nat /\ SumFunctionOnSet(f, T \cup U) \in Nat
      BY <1>0
    <3> QED BY <1>2, <3>2, <3>3
  <2> QED BY <2>1, <2>2
<1> HIDE DEF W
<1>3. S \in W
  BY <1>1, <1>2, SetInduction
<1>4. T \cup S = S
  OBVIOUS
<1> QED BY <1>3, <1>4 DEF W

(* One summand changes.                                                    *)
LEMMA SumPut ==
    ASSUME NEW S, IsFiniteSet(S), NEW f \in [S -> Nat], NEW x \in S, NEW n \in Nat
    PROVE  LET g == [f EXCEPT ![x] = f[x] + n]
           IN  /\ g \in [S -> Nat]
               /\ SumFunctionOnSet(g, S) = SumFunctionOnSet(f, S) + n
<1> DEFINE g == [f EXCEPT ![x] = f[x] + n]
<1>1. g \in [S -> Nat] /\ g[x] = f[x] + n /\ f[x] \in Nat
  OBVIOUS
<1>2. IsFiniteSet(S \ {x}) /\ S \ {x} \in SUBSET S
  BY FS_Subset
<1>3. SumFunctionOnSet(g, S \ {x}) = SumFunctionOnSet(f, S \ {x})
  <2>1. \A y \in S \ {x} : g[y] = f[y]
    OBVIOUS
  <2> HIDE DEF g
  <2> QED BY <1>1, <1>2, <2>1, SumSame
<1>4. SumFunctionOnSet(f, S \ {x}) \in Nat
  BY <1>2, SumNat
<1> HIDE DEF g
<1>5. SumFunctionOnSet(g, S) = g[x] + SumFunctionOnSet(g, S \ {x})
  BY <1>1, SumTake
<1>6. SumFunctionOnSet(f, S) = f[x] + SumFunctionOnSet(f, S \ {x})
  BY SumTake
<1>7. SumFunctionOnSet(g, S) = SumFunctionOnSet(f, S) + n
  BY <1>1, <1>3, <1>4, <1>5, <1>6
<1> QED BY <1>1, <1>7 DEF g

-----------------------------------------------------------------------------
(* Admission of calls (LLMGuards)                                          *)

(* The constants, as the proofs need them.                                 *)

LEMMA Constants ==
    /\ Platform \notin Households /\ MaxTime \in Nat
    /\ \A n \in {Cap, AppCap, GlobalCap, Expiry, MonthLength} : n \in Nat /\ n > 0
    /\ Estimates \subseteq Nat /\ Costs \subseteq Nat /\ Costs # {}
    /\ IsFiniteSet(Calls) /\ IsFiniteSet(Apps) /\ IsFiniteSet(Households)
    /\ IsFiniteSet(Costs)
BY GuardAssumption

Most == Max(Costs)

(* Finitely many costs have a largest.                                     *)
LEMMA LargestCost ==
    Most \in Nat /\ \A x \in Costs : x <= Most
<1> DEFINE W == {S \in SUBSET Costs : S # {} => \E m \in S : \A x \in S : x <= m}
<1>1. {} \in W
  OBVIOUS
<1>2. ASSUME NEW S \in SUBSET Costs, NEW y \in Costs \ S, S \in W PROVE S \cup {y} \in W
  <2>1. Costs \subseteq Nat
    BY Constants
  <2>2. CASE S = {}
    BY <2>1, <2>2
  <2>3. CASE S # {}
    <3>1. PICK m \in S : \A x \in S : x <= m
      BY <1>2, <2>3
    <3>2. CASE y <= m
      BY <2>1, <3>1, <3>2
    <3>3. CASE ~(y <= m)
      <4>1. \A x \in S \cup {y} : x <= y
        BY <2>1, <3>1, <3>3
      <4> QED BY <4>1
    <3> QED BY <3>2, <3>3
  <2> QED BY <2>2, <2>3
<1> HIDE DEF W
<1>3. Costs \in W
  BY <1>1, <1>2, Constants, SetInduction
<1>4. \E m \in Costs : \A x \in Costs : x <= m
  BY <1>3, Constants DEF W
<1>5. \E m \in Costs : \A x \in Costs : m >= x
  BY <1>4, Constants
<1>6. Most \in Costs /\ \A x \in Costs : Most >= x
  BY <1>5 DEF Most, Max
<1> QED BY <1>6, Constants

LEMMA SumZero ==
    ASSUME NEW S, IsFiniteSet(S)
    PROVE  SumFunctionOnSet([x \in S |-> 0], S) = 0
<1> DEFINE f == [x \in S |-> 0]
           W == {T \in SUBSET S : SumFunctionOnSet(f, T) = 0}
<1>1. {} \in W
  BY SumEmpty
<1>2. ASSUME NEW T \in SUBSET S, NEW y \in S \ T, T \in W PROVE T \cup {y} \in W
  <2>1. IsFiniteSet(T \cup {y}) /\ T \cup {y} \in SUBSET S /\ (T \cup {y}) \ {y} = T
    BY <1>2, FS_Subset
  <2>2. f \in [S -> Nat] /\ f[y] = 0
    BY <1>2
  <2> HIDE DEF f
  <2>3. SumFunctionOnSet(f, T \cup {y}) = f[y] + SumFunctionOnSet(f, T)
    BY <2>1, <2>2, SumTake
  <2> QED BY <1>2, <2>2, <2>3
<1> HIDE DEF W
<1>3. S \in W
  BY <1>1, <1>2, SetInduction
<1> QED BY <1>3 DEF W

LEMMA TimesMore == ASSUME NEW k \in Nat, NEW m \in Nat, NEW n \in Nat, m <= n
                   PROVE m * k <= n * k /\ m * k \in Nat /\ n * k \in Nat
OBVIOUS

LEMMA TimesLess == ASSUME NEW k \in Nat, NEW n \in Nat, n > 0
                   PROVE (n - 1) * k = n * k - k
OBVIOUS

(* Counting calls under way.                                               *)
LEMMA CountLess ==
    ASSUME NEW S \in SUBSET Calls, NEW c \in S
    PROVE  /\ Cardinality(S) * Most \in Nat
           /\ Cardinality(S \ {c}) * Most = Cardinality(S) * Most - Most
<1>1. IsFiniteSet(S) /\ Cardinality(S) \in Nat
  BY Constants, FS_Subset, FS_CardinalityType
<1>2. Cardinality(S \ {c}) = Cardinality(S) - 1 /\ Cardinality(S) > 0
  BY <1>1, FS_RemoveElement, FS_EmptySet
<1> QED BY <1>1, <1>2, LargestCost, TimesLess, TimesMore

LEMMA CountMore ==
    ASSUME NEW S \in SUBSET Calls, NEW T \in SUBSET S
    PROVE  /\ Cardinality(S) * Most \in Nat /\ Cardinality(T) * Most \in Nat
           /\ Cardinality(T) * Most <= Cardinality(S) * Most
<1>1. IsFiniteSet(S) /\ Cardinality(S) \in Nat
  BY Constants, FS_Subset, FS_CardinalityType
<1>2. Cardinality(T) \in Nat /\ Cardinality(T) <= Cardinality(S)
  BY <1>1, FS_Subset, FS_CardinalityType
<1> QED BY <1>1, <1>2, LargestCost, TimesMore

LEMMA MonthIsNat ==
    ASSUME now \in Nat
    PROVE  Month \in Nat
<1>1. MonthLength \in Nat /\ MonthLength > 0
  BY Constants
<1> QED BY <1>1 DEF Month

-----------------------------------------------------------------------------
(* The parts of the invariant, of any costs and reservations.              *)

Ledgers == [month : Nat, app : [Apps -> Nat], house : [Households -> Nat], total : Nat]
Holdings == [Calls -> [amount : Nat, house : Households \cup {Platform}, expires : Nat]]

Owed(h, held) == {c \in LiveFor(h, held) : calls[c].state = "running"}

Budget(costs, held, extra) ==
    \A h \in Households :
        costs.house[h] + SumFunctionOnSet(Amounts(held), Owed(h, held)) < Cap + extra[h]

Belongs(held) ==
    \A c \in Calls :
        /\ held[c].house = Platform => held[c].amount = 0
        /\ held[c].house # Platform /\ Running(c) => calls[c].house = held[c].house

Owned(costs, held) ==
    ~disposed => \A c \in Calls : held[c].house # Platform =>
        /\ Running(c) /\ calls[c].house = held[c].house
        /\ costs.month = (held[c].expires - Expiry) \div MonthLength

Slack == Cardinality(Calls) * Most

Caps(costs) ==
    /\ \A a \in Apps \ Systems :
           costs.app[a] + Cardinality(UnderwayOf(a)) * Most < AppCap + Slack
    /\ costs.total + Cardinality(Underway) * Most < GlobalCap + Slack

Agree(costs) ==
    /\ costs.total = SumFunctionOnSet(costs.app, Apps)
    /\ costs.total >= SumFunctionOnSet(costs.house, Households)

Sound(costs, held, extra) ==
    /\ costs \in Ledgers /\ held \in Holdings /\ extra \in [Households -> Nat]
    /\ Belongs(held) /\ Owned(costs, held) /\ Budget(costs, held, extra)
    /\ Caps(costs) /\ Agree(costs)

(* What else the state is.                                                 *)
Clocks ==
    /\ now \in 0 .. MaxTime /\ disposed \in BOOLEAN
    /\ appStarts \in [Apps -> Seq(0 .. MaxTime)]
    /\ houseStarts \in [Households -> Seq(0 .. MaxTime)]
    /\ calls \in [Calls -> {Idle} \cup Call]

LEMMA InParts ==
    GuardInv <=> Clocks /\ Sound(ledger, reservations, uncovered)
<1>1. HouseholdBudget <=> Budget(ledger, reservations, uncovered)
  BY DEF HouseholdBudget, Budget, Unbilled, Owed
<1>2. ReservationsOwned <=> Owned(ledger, reservations)
  BY DEF ReservationsOwned, Owned
<1>3. BelongInv <=> Belongs(reservations)
  BY DEF BelongInv, Belongs
<1>4. CapsInv <=> Caps(ledger)
  BY DEF CapsInv, Caps, Slack, Most
<1>5. SumsInv <=> Agree(ledger)
  BY DEF SumsInv, Agree
<1>6. GuardTypeOK <=> /\ Clocks /\ ledger \in Ledgers /\ reservations \in Holdings
                        /\ uncovered \in [Households -> Nat]
  BY DEF GuardTypeOK, Clocks, Ledgers, Holdings
<1> QED BY <1>1, <1>2, <1>3, <1>4, <1>5, <1>6 DEF GuardInv, Sound

(* The amounts reserved for a set of calls.                                *)
LEMMA AmountsSum ==
    ASSUME NEW held \in Holdings, NEW S \in SUBSET Calls
    PROVE  /\ Amounts(held) \in [Calls -> Nat]
           /\ IsFiniteSet(S)
           /\ SumFunctionOnSet(Amounts(held), S) \in Nat
           /\ \A T \in SUBSET S : SumFunctionOnSet(Amounts(held), T)
                                    <= SumFunctionOnSet(Amounts(held), S)
<1>1. Amounts(held) \in [Calls -> Nat]
  BY DEF Amounts, Holdings
<1>2. IsFiniteSet(S)
  BY Constants, FS_Subset
<1> QED BY <1>1, <1>2, SumNat, SumMore

(* The costs, reservations and history of this month, whatever the last    *)
(* access saw (checkMonthRollover).                                        *)
LEMMA RolledSound ==
    ASSUME Clocks, Sound(ledger, reservations, uncovered)
    PROVE  /\ Sound(RolledLedger, RolledReservations, RolledUncovered)
           /\ RolledLedger.month = Month /\ Month \in Nat
<1> USE DEF RolledLedger, RolledReservations, RolledUncovered
<1>1. Month \in Nat
  BY Constants, MonthIsNat DEF Clocks
<1>2. CASE ledger.month = Month
  BY <1>1, <1>2
<1>3. CASE ledger.month # Month
  <2> DEFINE L == FreshLedger(Month)
             R == [c \in Calls |-> NoReservation]
             U == [h \in Households |-> 0]
  <2>1. L \in Ledgers /\ R \in Holdings /\ U \in [Households -> Nat]
    BY <1>1 DEF FreshLedger, NoReservation, Ledgers, Holdings
  <2>2. Belongs(R) /\ Owned(L, R)
    BY DEF Belongs, Owned, NoReservation
  <2>3. Agree(L)
    <3>1. L.app = [a \in Apps |-> 0] /\ L.house = [h \in Households |-> 0] /\ L.total = 0
      BY DEF FreshLedger
    <3> QED BY <3>1, Constants, SumZero DEF Agree
  <2>4. Budget(L, R, U)
    <3>1. \A h \in Households : Owed(h, R) = {}
      BY Constants DEF Owed, LiveFor, NoReservation
    <3> QED BY <3>1, Constants, SumEmpty DEF Budget, FreshLedger
  <2>5. Caps(L)
    <3>1. \A S \in SUBSET Calls : Cardinality(S) * Most <= Slack /\ Slack \in Nat
                                  /\ Cardinality(S) * Most \in Nat
      BY CountMore DEF Slack
    <3> QED BY <3>1, Constants DEF Caps, FreshLedger, Underway, UnderwayOf
  <2> QED BY <1>1, <1>3, <2>1, <2>2, <2>3, <2>4, <2>5 DEF Sound, FreshLedger
<1> QED BY <1>2, <1>3

-----------------------------------------------------------------------------
(* Steps that spend nothing                                                *)

OwedNow(h) == Owed(h, reservations)

LEMMA BudgetKept ==
    ASSUME Sound(ledger, reservations, uncovered),
           reservations' \in Holdings, UNCHANGED <<ledger, uncovered>>,
           \A h \in Households : /\ OwedNow(h)' \subseteq OwedNow(h)
                                 /\ \A c \in OwedNow(h)' :
                                      reservations'[c].amount = reservations[c].amount
    PROVE  Budget(ledger, reservations, uncovered)'
<1> SUFFICES ASSUME NEW h \in Households
    PROVE ledger.house[h] + SumFunctionOnSet(Amounts(reservations'), OwedNow(h)')
              < Cap + uncovered[h]
  BY DEF Budget, OwedNow, Amounts, Owed, LiveFor
<1> DEFINE f == Amounts(reservations) g == Amounts(reservations')
           S == OwedNow(h) T == OwedNow(h)'
<1>1. S \in SUBSET Calls /\ T \in SUBSET S
  BY DEF OwedNow, Owed, LiveFor
<1>2. \A c \in T : g[c] = f[c]
  BY <1>1 DEF Amounts
<1>3. f \in [Calls -> Nat] /\ g \in [Calls -> Nat] /\ IsFiniteSet(T)
  BY <1>1, AmountsSum DEF Sound
<1>4. SumFunctionOnSet(f, T) <= SumFunctionOnSet(f, S)
      /\ SumFunctionOnSet(f, S) \in Nat /\ SumFunctionOnSet(f, T) \in Nat
  BY <1>1, AmountsSum DEF Sound
<1>5. ledger.house[h] + SumFunctionOnSet(f, S) < Cap + uncovered[h]
  BY DEF Sound, Budget, OwedNow
<1>6. ledger.house[h] \in Nat /\ uncovered[h] \in Nat /\ Cap \in Nat
  BY Constants DEF Sound, Ledgers
<1> HIDE DEF f, g, S, T
<1>7. SumFunctionOnSet(g, T) = SumFunctionOnSet(f, T)
  BY <1>1, <1>2, <1>3, SumSame
<1> QED BY <1>4, <1>5, <1>6, <1>7 DEF g, T

LEMMA CapsKept ==
    ASSUME Sound(ledger, reservations, uncovered),
           ledger' = ledger, Underway' \subseteq Underway,
           \A c \in Underway' : calls'[c] = calls[c]
    PROVE  Caps(ledger)'
<1>1. Underway \in SUBSET Calls /\ Underway' \in SUBSET Underway
  BY DEF Underway
<1>2. \A a : UnderwayOf(a) \in SUBSET Calls
             /\ UnderwayOf(a)' \in SUBSET UnderwayOf(a)
  BY <1>1 DEF UnderwayOf
<1>3. /\ Cardinality(Underway') * Most <= Cardinality(Underway) * Most
      /\ Cardinality(Underway') * Most \in Nat
      /\ Cardinality(Underway) * Most \in Nat
  BY <1>1, CountMore
<1>4. \A a : /\ Cardinality(UnderwayOf(a)') * Most
                  <= Cardinality(UnderwayOf(a)) * Most
             /\ Cardinality(UnderwayOf(a)') * Most \in Nat
             /\ Cardinality(UnderwayOf(a)) * Most \in Nat
  BY <1>2, CountMore
<1>5. Slack \in Nat
  BY CountMore DEF Slack
<1>6. ledger.total \in Nat /\ \A a \in Apps : ledger.app[a] \in Nat
  BY DEF Sound, Ledgers
<1>7. \A a \in Apps \ Systems :
          ledger.app[a] + Cardinality(UnderwayOf(a)') * Most < AppCap + Slack
  BY <1>4, <1>5, <1>6, Constants DEF Sound, Caps
<1>8. ledger.total + Cardinality(Underway') * Most < GlobalCap + Slack
  BY <1>3, <1>5, <1>6, Constants DEF Sound, Caps
<1> QED BY <1>7, <1>8 DEF Caps, Slack, Most, Max, Underway, UnderwayOf

(* A call ends, and its reservation with it unless the limiter is gone.    *)
LEMMA FinishSound ==
    ASSUME Clocks, Sound(ledger, reservations, uncovered),
           NEW c \in Calls, Finish(c)
    PROVE  (Clocks /\ Sound(ledger, reservations, uncovered))'
<1> USE DEF Sound
<1>1. /\ UNCHANGED <<now, ledger, appStarts, houseStarts, disposed, uncovered>>
      /\ calls'[c] = Idle
      /\ \A d \in Calls \ {c} : calls'[d] = calls[d]
      /\ calls' \in [Calls -> {Idle} \cup Call]
  BY DEF Finish, Clocks
<1>2. /\ reservations' \in Holdings
      /\ \A d \in Calls \ {c} : reservations'[d] = reservations[d]
      /\ reservations'[c] = IF disposed THEN reservations[c] ELSE NoReservation
  BY DEF Finish, Released, NoReservation, Holdings
<1>3. Clocks'
  BY <1>1 DEF Clocks
<1>4. ~Running(c)' /\ \A d \in Calls \ {c} : Running(d)' = Running(d)
  BY <1>1 DEF Running, Idle
<1>5. Belongs(reservations)'
  BY <1>1, <1>2, <1>4 DEF Belongs, NoReservation
<1>6. Owned(ledger, reservations)'
  BY <1>1, <1>2, <1>4 DEF Owned, NoReservation
<1>7. \A h \in Households : \A d \in OwedNow(h)' :
          d # c /\ d \in OwedNow(h) /\ reservations'[d] = reservations[d]
  BY <1>1, <1>2 DEF OwedNow, Owed, LiveFor, Idle
<1>8. Budget(ledger, reservations, uncovered)'
  BY <1>1, <1>2, <1>7, BudgetKept
<1>9. Underway' \subseteq Underway /\ c \notin Underway'
  BY <1>1 DEF Underway, Idle
<1>10. Caps(ledger)'
  BY <1>1, <1>9, CapsKept DEF Underway
<1>11. Agree(ledger)'
  BY <1>1 DEF Agree
<1> QED BY <1>1, <1>2, <1>3, <1>5, <1>6, <1>8, <1>10, <1>11

(* The sweep and the shutdown drop reservations, and the clock ends them.  *)
LEMMA DropSound ==
    ASSUME Clocks, Sound(ledger, reservations, uncovered),
           Sweep \/ Dispose \/ Forget \/ Tick
    PROVE  (Clocks /\ Sound(ledger, reservations, uncovered))'
<1> USE DEF Sound
<1>1. /\ UNCHANGED <<ledger, appStarts, houseStarts, calls, uncovered>>
      /\ now' >= now /\ now' \in 0 .. MaxTime /\ disposed' \in BOOLEAN
      /\ disposed => disposed'
  <2>1. now \in Nat /\ MaxTime \in Nat /\ now <= MaxTime
    BY Constants DEF Clocks
  <2>2. CASE Tick
    BY <2>1, <2>2 DEF Tick, Clocks
  <2>3. CASE Sweep
    BY <2>1, <2>3 DEF Sweep, Clocks
  <2>4. CASE Dispose
    BY <2>1, <2>4 DEF Dispose, Clocks
  <2>5. CASE Forget
    BY <2>1, <2>5 DEF Forget, Clocks
  <2> QED BY <2>2, <2>3, <2>4, <2>5
<1>2. /\ reservations' \in Holdings
      /\ \A d \in Calls : reservations'[d] \in {reservations[d], NoReservation}
  <2>1. reservations \in Holdings /\ NoReservation
            \in [amount : Nat, house : Households \cup {Platform}, expires : Nat]
    BY DEF NoReservation
  <2>2. CASE Sweep
    BY <2>1, <2>2 DEF Sweep, Holdings
  <2>3. CASE Forget
    BY <2>1, <2>3 DEF Forget, Holdings
  <2>4. CASE Dispose \/ Tick
    BY <2>1, <2>4 DEF Dispose, Tick, Holdings
  <2> QED BY <2>2, <2>3, <2>4
<1>3. Clocks'
  BY <1>1 DEF Clocks
<1>4. \A d \in Calls : Running(d)' = Running(d)
  BY <1>1 DEF Running
<1>5. Belongs(reservations)'
  BY <1>1, <1>2, <1>4 DEF Belongs, NoReservation
<1>6. Owned(ledger, reservations)'
  BY <1>1, <1>2, <1>4 DEF Owned, NoReservation, Clocks
<1>7. \A h \in Households : \A d \in OwedNow(h)' :
          d \in OwedNow(h) /\ reservations'[d] = reservations[d]
  <2> SUFFICES ASSUME NEW h \in Households, NEW d \in OwedNow(h)'
      PROVE d \in OwedNow(h) /\ reservations'[d] = reservations[d]
    OBVIOUS
  <2>1. d \in Calls /\ reservations'[d].house = h /\ reservations'[d].expires > now'
        /\ calls[d].state = "running"
    BY <1>1 DEF OwedNow, Owed, LiveFor
  <2>2. reservations'[d] = reservations[d]
    BY <1>2, <2>1, Constants DEF NoReservation
  <2>3. reservations[d].expires \in Nat /\ now \in Nat /\ now' \in Nat
    BY <1>1, <2>1 DEF Holdings, Clocks
  <2> QED BY <1>1, <2>1, <2>2, <2>3 DEF OwedNow, Owed, LiveFor
<1>8. Budget(ledger, reservations, uncovered)'
  BY <1>1, <1>2, <1>7, BudgetKept
<1>9. Caps(ledger)'
  BY <1>1, CapsKept DEF Underway
<1>10. Agree(ledger)'
  BY <1>1 DEF Agree
<1> QED BY <1>1, <1>2, <1>3, <1>5, <1>6, <1>8, <1>9, <1>10

-----------------------------------------------------------------------------
(* Steps that read and write the costs of this month                       *)

(* What the steps find, once the month has been looked at.                 *)
L == RolledLedger
R == RolledReservations
U == RolledUncovered

LEMMA RefuseSound ==
    ASSUME Clocks, Sound(ledger, reservations, uncovered),
           Rollover, reservations' = R,
           UNCHANGED <<now, appStarts, houseStarts, calls, disposed>>
    PROVE  (Clocks /\ Sound(ledger, reservations, uncovered))'
<1>1. Sound(L, R, U) /\ ledger' = L /\ uncovered' = U
  BY RolledSound DEF L, R, U, Rollover
<1>2. Clocks'
  BY DEF Clocks
<1>3. \A h : OwedNow(h)' = Owed(h, R)
  BY DEF OwedNow, Owed, LiveFor
<1>4. Budget(ledger, reservations, uncovered)'
  BY <1>1, <1>3 DEF Sound, Budget, OwedNow, Amounts
<1>5. Underway' = Underway /\ \A a : UnderwayOf(a)' = UnderwayOf(a)
  BY DEF Underway, UnderwayOf
<1>6. Caps(ledger)'
  BY <1>1, <1>5 DEF Sound, Caps, Slack, Most, Max
<1>7. Belongs(reservations)' /\ Owned(ledger, reservations)' /\ Agree(ledger)'
  BY <1>1 DEF Sound, Belongs, Owned, Agree, Running
<1>8. ledger' \in Ledgers /\ reservations' \in Holdings /\ uncovered' \in [Households -> Nat]
  BY <1>1 DEF Sound
<1> QED BY <1>2, <1>4, <1>6, <1>7, <1>8 DEF Sound

(* Admission: the call reserves its estimate of what the cap leaves.       *)
LEMMA AdmitFacts ==
    ASSUME Clocks, Sound(ledger, reservations, uncovered),
           NEW c \in Calls, NEW a \in Apps, NEW h \in Households \cup {Platform},
           NEW est \in Estimates, Admit(c, a, h, est)
    PROVE  /\ ledger' = L /\ uncovered' = U /\ Sound(L, R, U)
           /\ ~disposed /\ UNCHANGED <<now, disposed>>
           /\ calls[c] = Idle /\ R[c].house = Platform
           /\ calls'[c] = [state |-> "running", app |-> a, house |-> h]
           /\ \A d \in Calls \ {c} : calls'[d] = calls[d]
           /\ calls' \in [Calls -> {Idle} \cup Call]
           /\ reservations' \in Holdings
           /\ \A d \in Calls \ {c} : reservations'[d] = R[d]
           /\ reservations'[c] = IF h = Platform THEN R[c]
                                 ELSE [amount |-> est, house |-> h, expires |-> now + Expiry]
           /\ h # Platform => L.house[h] + SumFunctionOnSet(Amounts(R), LiveFor(h, R))
                                + est < Cap
           /\ L.total < GlobalCap /\ (a \notin Systems => L.app[a] < AppCap)
<1>1. Sound(L, R, U) /\ ledger' = L /\ uncovered' = U
  BY RolledSound DEF L, R, U, Rollover, Admit
<1>2. /\ ~disposed /\ UNCHANGED <<now, disposed>> /\ calls[c] = Idle
      /\ Admits(a, h, est) /\ Reserve(c, h, est)
      /\ calls' = [calls EXCEPT ![c] = [state |-> "running", app |-> a, house |-> h]]
  BY DEF Admit
<1>3. R[c].house = Platform
  <2>1. ~Running(c)
    BY <1>2 DEF Running, Idle
  <2> QED BY <1>1, <1>2, <2>1 DEF Sound, Owned
<1>4. [state |-> "running", app |-> a, house |-> h] \in Call
  BY DEF Call
<1>5. /\ calls'[c] = [state |-> "running", app |-> a, house |-> h]
      /\ \A d \in Calls \ {c} : calls'[d] = calls[d]
      /\ calls' \in [Calls -> {Idle} \cup Call]
  BY <1>2, <1>4 DEF Clocks
<1>6. h # Platform => [amount |-> est, house |-> h, expires |-> now + Expiry]
                        \in [amount : Nat, house : Households \cup {Platform}, expires : Nat]
  BY Constants DEF Clocks
<1>7. R \in Holdings
  BY <1>1 DEF Sound
<1>8. /\ reservations' \in Holdings
      /\ \A d \in Calls \ {c} : reservations'[d] = R[d]
      /\ reservations'[c] = IF h = Platform THEN R[c]
                            ELSE [amount |-> est, house |-> h, expires |-> now + Expiry]
  BY <1>2, <1>6, <1>7 DEF Reserve, R, Holdings
<1>9. HouseCostOK(h, est) /\ GlobalOK /\ (a \notin Systems => AppCostOK(a))
  BY <1>2 DEF Admits, SystemAdmits, AppAdmits
<1>10. L.total < GlobalCap /\ (a \notin Systems => L.app[a] < AppCap)
  BY <1>9 DEF GlobalOK, AppCostOK, L
<1>11. h # Platform => L.house[h] + SumFunctionOnSet(Amounts(R), LiveFor(h, R))
                                + est < Cap
  BY <1>9 DEF HouseCostOK, Pending, L, R
<1> QED BY <1>1, <1>2, <1>3, <1>5, <1>8, <1>10, <1>11

(* An admitted call leaves room for itself in the household's budget.      *)
LEMMA AdmitBudget ==
    ASSUME Clocks, Sound(ledger, reservations, uncovered),
           NEW c \in Calls, NEW a \in Apps, NEW h \in Households \cup {Platform},
           NEW est \in Estimates, Admit(c, a, h, est)
    PROVE  Budget(ledger, reservations, uncovered)'
<1> SUFFICES ASSUME NEW k \in Households
    PROVE ledger'.house[k] + SumFunctionOnSet(Amounts(reservations'), OwedNow(k)')
              < Cap + uncovered'[k]
  BY DEF Budget, OwedNow, Amounts, Owed, LiveFor
<1> DEFINE f == Amounts(R) g == Amounts(reservations')
           S == Owed(k, R) T == OwedNow(k)' P == LiveFor(k, R)
<1>1. /\ Sound(L, R, U) /\ ledger' = L /\ uncovered' = U /\ now' = now
      /\ calls[c] = Idle /\ R[c].house = Platform
      /\ \A d \in Calls \ {c} : calls'[d] = calls[d]
      /\ reservations' \in Holdings
      /\ \A d \in Calls \ {c} : reservations'[d] = R[d]
  BY AdmitFacts
<1>2. /\ L.house[k] \in Nat /\ U[k] \in Nat /\ Cap \in Nat /\ est \in Nat /\ R \in Holdings
      /\ now \in Nat /\ Expiry \in Nat /\ Expiry > 0
  BY <1>1, Constants DEF Sound, Ledgers, Clocks
<1>3. S \in SUBSET P /\ P \in SUBSET Calls /\ T \in SUBSET Calls
  BY DEF Owed, OwedNow, LiveFor
<1>4. c \notin P
  BY <1>1, Constants DEF LiveFor
<1>5. T \ {c} = S
  <2>1. \A d \in Calls \ {c} : d \in T <=> d \in S
    BY <1>1 DEF OwedNow, Owed, LiveFor
  <2> QED BY <1>3, <1>4, <2>1
<1>6. f \in [Calls -> Nat] /\ g \in [Calls -> Nat] /\ \A d \in S : g[d] = f[d]
  BY <1>1, <1>2, <1>3, <1>4, AmountsSum DEF Amounts
<1>7. IsFiniteSet(S) /\ IsFiniteSet(T)
  BY <1>2, <1>3, Constants, FS_Subset
<1>8. /\ SumFunctionOnSet(f, P) \in Nat /\ SumFunctionOnSet(f, S) \in Nat
      /\ SumFunctionOnSet(f, S) <= SumFunctionOnSet(f, P)
  BY <1>2, <1>3, AmountsSum
<1>9. SumFunctionOnSet(g, S) = SumFunctionOnSet(f, S)
  <2> HIDE DEF f, g, S
  <2> QED BY <1>3, <1>6, <1>7, SumSame
<1>10. CASE c \in T
  <2>1. h = k /\ g[c] = est
    <3>1. reservations'[c].house = k
      BY <1>10 DEF OwedNow, Owed, LiveFor
    <3>2. h # Platform
      <4>1. h = Platform => reservations'[c] = R[c]
        BY AdmitFacts
      <4> QED BY <1>1, <3>1, <4>1, Constants
    <3>3. reservations'[c] = [amount |-> est, house |-> h, expires |-> now + Expiry]
      BY <3>2, AdmitFacts
    <3> QED BY <3>1, <3>3 DEF Amounts
  <2>2. SumFunctionOnSet(g, T) = g[c] + SumFunctionOnSet(g, T \ {c})
    <3> HIDE DEF g, T
    <3> QED BY <1>3, <1>6, <1>7, <1>10, SumTake
  <2>3. L.house[k] + SumFunctionOnSet(f, P) + est < Cap
    BY <2>1, Constants, AdmitFacts
  <2> HIDE DEF f, g, S, T, P
  <2>4. SumFunctionOnSet(g, T) = est + SumFunctionOnSet(f, S)
    BY <1>5, <1>9, <2>1, <2>2
  <2>5. L.house[k] + SumFunctionOnSet(g, T) < Cap + U[k]
    BY <1>2, <1>8, <2>3, <2>4
  <2> QED BY <1>1, <2>5 DEF g, T
<1>11. CASE c \notin T
  <2>1. T = S
    BY <1>5, <1>11
  <2>2. L.house[k] + SumFunctionOnSet(f, S) < Cap + U[k]
    BY <1>1 DEF Sound, Budget
  <2> HIDE DEF f, g, S, T, P
  <2>3. L.house[k] + SumFunctionOnSet(g, T) < Cap + U[k]
    BY <1>9, <2>1, <2>2
  <2> QED BY <1>1, <2>3 DEF g, T
<1> QED BY <1>10, <1>11

(* So an admission keeps what is reserved, spent and underway in step.     *)
LEMMA AdmitSound ==
    ASSUME Clocks, Sound(ledger, reservations, uncovered),
           NEW c \in Calls, NEW a \in Apps, NEW h \in Households \cup {Platform},
           NEW est \in Estimates, Admit(c, a, h, est)
    PROVE  (Clocks /\ Sound(ledger, reservations, uncovered))'
<1>1. /\ Sound(L, R, U) /\ ledger' = L /\ uncovered' = U /\ ~disposed
      /\ UNCHANGED <<now, disposed>> /\ calls[c] = Idle /\ R[c].house = Platform
      /\ calls'[c] = [state |-> "running", app |-> a, house |-> h]
      /\ \A d \in Calls \ {c} : calls'[d] = calls[d]
      /\ calls' \in [Calls -> {Idle} \cup Call]
      /\ reservations' \in Holdings
      /\ \A d \in Calls \ {c} : reservations'[d] = R[d]
      /\ reservations'[c] = IF h = Platform THEN R[c]
                            ELSE [amount |-> est, house |-> h, expires |-> now + Expiry]
  BY AdmitFacts
<1>2. Clocks'
  <2>1. now \in 0 .. MaxTime /\ appStarts \in [Apps -> Seq(0 .. MaxTime)]
        /\ houseStarts \in [Households -> Seq(0 .. MaxTime)] /\ disposed \in BOOLEAN
    BY DEF Clocks
  <2>2. \A s \in Seq(0 .. MaxTime) : Append(s, now) \in Seq(0 .. MaxTime)
    BY <2>1
  <2>3. appStarts' \in [Apps -> Seq(0 .. MaxTime)]
    BY <2>1, <2>2 DEF Admit
  <2>4. houseStarts' \in [Households -> Seq(0 .. MaxTime)]
    BY <2>1, <2>2 DEF Admit
  <2> QED BY <1>1, <2>1, <2>3, <2>4 DEF Clocks
<1>3. Running(c)' /\ \A d \in Calls \ {c} : Running(d)' = Running(d)
  BY <1>1 DEF Running
<1>4. Belongs(R) /\ Owned(L, R)
  BY <1>1 DEF Sound
<1>5. Belongs(reservations)'
  BY <1>1, <1>3, <1>4, Constants DEF Belongs
<1>6. Owned(ledger, reservations)'
  <2> SUFFICES ASSUME NEW d \in Calls, reservations'[d].house # Platform
      PROVE  /\ Running(d)' /\ calls'[d].house = reservations'[d].house
             /\ ledger'.month = (reservations'[d].expires - Expiry) \div MonthLength
    BY DEF Owned
  <2>1. CASE d # c
    BY <1>1, <1>3, <1>4, <2>1 DEF Owned
  <2>2. CASE d = c
    <3>1. h # Platform
      BY <1>1, <2>2
    <3>2. reservations'[d] = [amount |-> est, house |-> h, expires |-> now + Expiry]
      BY <1>1, <2>2, <3>1
    <3>3. now \in Nat /\ Expiry \in Nat
      BY Constants DEF Clocks
    <3>4. (now + Expiry) - Expiry = now
      BY <3>3
    <3>5. L.month = now \div MonthLength
      BY RolledSound DEF L, Month
    <3> QED BY <1>1, <1>3, <2>2, <3>2, <3>4, <3>5
  <2> QED BY <2>1, <2>2
<1>7. Budget(ledger, reservations, uncovered)'
  BY AdmitBudget
<1>8. Caps(ledger)'
  <2>1. L.total < GlobalCap /\ (a \notin Systems => L.app[a] < AppCap)
    BY AdmitFacts
  <2>2. Underway' \in SUBSET Calls /\ \A b : UnderwayOf(b)' \in SUBSET Calls
    BY DEF Underway, UnderwayOf
  <2>3. \A b \in Apps \ {a} : UnderwayOf(b)' = UnderwayOf(b)
    BY <1>1 DEF Underway, UnderwayOf, Idle
  <2>4. /\ Slack \in Nat /\ Cardinality(Underway') * Most <= Slack
        /\ Cardinality(Underway') * Most \in Nat
    BY <2>2, CountMore DEF Slack
  <2>6. L.total \in Nat /\ \A b \in Apps : L.app[b] \in Nat
    BY <1>1 DEF Sound, Ledgers
  <2>7. L.total + Cardinality(Underway') * Most < GlobalCap + Slack
    BY <2>1, <2>4, <2>6, Constants
  <2>8. ASSUME NEW b \in Apps \ Systems
        PROVE  L.app[b] + Cardinality(UnderwayOf(b)') * Most < AppCap + Slack
    <3>1. CASE b = a
      <4>1. /\ Cardinality(UnderwayOf(b)') * Most <= Slack
            /\ Cardinality(UnderwayOf(b)') * Most \in Nat
        BY <2>2, CountMore DEF Slack
      <4>2. L.app[b] \in Nat /\ L.app[b] < AppCap
        BY <2>1, <2>6, <3>1
      <4> QED BY <2>4, <4>1, <4>2, Constants
    <3>2. CASE b # a
      BY <1>1, <2>3, <3>2 DEF Sound, Caps
    <3> QED BY <3>1, <3>2
  <2> QED BY <1>1, <2>7, <2>8 DEF Caps, Slack, Most, Max, Underway, UnderwayOf
<1>9. Agree(ledger)'
  BY <1>1 DEF Sound, Agree
<1>10. ledger' \in Ledgers /\ uncovered' \in [Households -> Nat]
  BY <1>1 DEF Sound
<1> QED BY <1>1, <1>2, <1>5, <1>6, <1>7, <1>8, <1>9, <1>10 DEF Sound

(* Billing: the cost comes out of what the call reserved, and what it does *)
(* not cover is counted as such.                                           *)
LEMMA BillFacts ==
    ASSUME Clocks, Sound(ledger, reservations, uncovered),
           NEW c \in Calls, NEW cost \in Costs, Charge(c, cost)
    PROVE  /\ Sound(L, R, U) /\ reservations' = R
           /\ UNCHANGED <<now, appStarts, houseStarts, disposed>>
           /\ calls[c].state = "running" /\ calls[c].app \in Apps
           /\ calls[c].house \in Households \cup {Platform}
           /\ cost \in Nat /\ cost <= Most
           /\ calls' = [calls EXCEPT ![c].state = "billed"]
           /\ ledger'.month = L.month
           /\ ledger'.app = [L.app EXCEPT ![calls[c].app] = L.app[calls[c].app] + cost]
           /\ ledger'.house = IF calls[c].house = Platform THEN L.house
                              ELSE [L.house EXCEPT ![calls[c].house]
                                      = L.house[calls[c].house] + cost]
           /\ ledger'.total = L.total + cost
           /\ ledger' \in Ledgers
           /\ uncovered' = IF calls[c].house = Platform THEN U
                           ELSE [U EXCEPT ![calls[c].house]
                                   = U[calls[c].house] + Over(c, cost)]
           /\ uncovered' \in [Households -> Nat]
           /\ Over(c, cost) \in Nat
<1>1. Sound(L, R, U) /\ L.month = Month /\ Month \in Nat
  BY RolledSound DEF L, R, U
<1>2. cost \in Nat /\ cost <= Most
  BY Constants, LargestCost
<1>3. calls[c].state = "running"
  BY DEF Charge
<1>4. calls[c] \in Call
  BY <1>3 DEF Clocks, Idle
<1>5. calls[c].app \in Apps /\ calls[c].house \in Households \cup {Platform}
  BY <1>4 DEF Call
<1>6. Over(c, cost) \in Nat
  BY <1>1, <1>2 DEF Over, Covered, R, Sound, Holdings
<1>7. L \in Ledgers /\ U \in [Households -> Nat]
  BY <1>1 DEF Sound
<1>8. ledger' = [month |-> Month,
                 app |-> [L.app EXCEPT ![calls[c].app] = L.app[calls[c].app] + cost],
                 house |-> IF calls[c].house = Platform THEN L.house
                           ELSE [L.house EXCEPT ![calls[c].house]
                                   = L.house[calls[c].house] + cost],
                 total |-> L.total + cost]
  BY DEF Charge, L
<1>9. ledger' \in Ledgers
  BY <1>1, <1>2, <1>5, <1>7, <1>8 DEF Ledgers
<1>10. uncovered' = IF calls[c].house = Platform THEN U
                    ELSE [U EXCEPT ![calls[c].house]
                            = U[calls[c].house] + Over(c, cost)]
  BY DEF Charge, U
<1>11. uncovered' \in [Households -> Nat]
  BY <1>5, <1>6, <1>7, <1>10
<1>12. reservations' = R /\ UNCHANGED <<now, appStarts, houseStarts, disposed>>
       /\ calls' = [calls EXCEPT ![c].state = "billed"]
  BY DEF Charge, R
<1> QED BY <1>1, <1>2, <1>3, <1>5, <1>6, <1>8, <1>9, <1>10, <1>11, <1>12

(* Which calls are underway once one of them is billed.                    *)
LEMMA BilledCalls ==
    ASSUME Clocks, NEW c \in Calls, calls[c].state = "running",
           calls' = [calls EXCEPT ![c].state = "billed"]
    PROVE  /\ calls' \in [Calls -> {Idle} \cup Call]
           /\ calls'[c].state = "billed" /\ calls'[c].house = calls[c].house
           /\ calls'[c].app = calls[c].app
           /\ \A d \in Calls \ {c} : calls'[d] = calls[d]
           /\ \A d \in Calls : Running(d)' = Running(d)
           /\ Underway' = Underway \ {c} /\ c \in Underway
           /\ \A b : UnderwayOf(b)' = UnderwayOf(b) \ {c}
           /\ c \in UnderwayOf(calls[c].app)
<1>1. calls[c] \in Call
  BY DEF Clocks, Idle
<1>2. calls'[c] = [calls[c] EXCEPT !.state = "billed"]
      /\ \A d \in Calls \ {c} : calls'[d] = calls[d]
  BY DEF Clocks
<1>3. calls'[c] \in Call /\ calls'[c].state = "billed"
      /\ calls'[c].house = calls[c].house /\ calls'[c].app = calls[c].app
  BY <1>1, <1>2 DEF Call
<1>4. calls' \in [Calls -> {Idle} \cup Call]
  BY <1>3 DEF Clocks
<1>5. \A d \in Calls : Running(d)' = Running(d)
  BY <1>2, <1>3 DEF Running
<1>6. Underway' = Underway \ {c} /\ c \in Underway
  BY <1>2, <1>3 DEF Underway
<1>7. \A b : UnderwayOf(b)' = UnderwayOf(b) \ {c}
  BY <1>2, <1>6 DEF UnderwayOf, Underway
<1>8. c \in UnderwayOf(calls[c].app)
  BY <1>6 DEF UnderwayOf
<1> QED BY <1>2, <1>3, <1>4, <1>5, <1>6, <1>7, <1>8

(* A bill replaces the reservation it was made for.                        *)
LEMMA BillBudget ==
    ASSUME Clocks, Sound(ledger, reservations, uncovered),
           NEW c \in Calls, NEW cost \in Costs, Charge(c, cost)
    PROVE  Budget(ledger, reservations, uncovered)'
<1> SUFFICES ASSUME NEW k \in Households
    PROVE ledger'.house[k] + SumFunctionOnSet(Amounts(reservations'), OwedNow(k)')
              < Cap + uncovered'[k]
  BY DEF Budget, OwedNow, Amounts, Owed, LiveFor
<1> DEFINE f == Amounts(R) S == Owed(k, R) T == OwedNow(k)'
<1>1. /\ Sound(L, R, U) /\ reservations' = R /\ now' = now
      /\ cost \in Nat /\ Over(c, cost) \in Nat
      /\ \A d \in Calls \ {c} : calls'[d] = calls[d]
      /\ calls[c].state = "running" /\ calls'[c].state = "billed"
  BY BillFacts, BilledCalls
<1>2. /\ L.house \in [Households -> Nat] /\ U \in [Households -> Nat]
      /\ L.house[k] \in Nat /\ U[k] \in Nat /\ Cap \in Nat /\ R \in Holdings
      /\ L.house[k] + SumFunctionOnSet(f, S) < Cap + U[k]
  BY <1>1, Constants DEF Sound, Ledgers, Budget
<1>3. S \in SUBSET Calls
  BY DEF Owed, LiveFor
<1>4. T = S \ {c}
  <2>1. \A d \in Calls : d \in T <=> d \in S /\ d # c
    BY <1>1 DEF OwedNow, Owed, LiveFor
  <2>2. T \in SUBSET Calls
    BY DEF OwedNow, Owed, LiveFor
  <2> QED BY <1>3, <2>1, <2>2
<1>5. /\ f \in [Calls -> Nat] /\ IsFiniteSet(S) /\ SumFunctionOnSet(f, S) \in Nat
      /\ SumFunctionOnSet(f, T) \in Nat /\ SumFunctionOnSet(f, T) <= SumFunctionOnSet(f, S)
  BY <1>2, <1>3, <1>4, AmountsSum
<1>6. CASE calls[c].house # k
  <2>1. ledger'.house[k] = L.house[k] /\ uncovered'[k] = U[k]
    <3>1. CASE calls[c].house = Platform
      BY <3>1, BillFacts
    <3>2. CASE calls[c].house # Platform
      <4>1. /\ ledger'.house = [L.house EXCEPT ![calls[c].house]
                                   = L.house[calls[c].house] + cost]
            /\ uncovered' = [U EXCEPT ![calls[c].house]
                                = U[calls[c].house] + Over(c, cost)]
        BY <3>2, BillFacts
      <4> QED BY <1>2, <1>6, <4>1
    <3> QED BY <3>1, <3>2
  <2> HIDE DEF f, S, T
  <2>2. L.house[k] + SumFunctionOnSet(f, T) < Cap + U[k]
    BY <1>2, <1>5
  <2> QED BY <1>1, <2>1, <2>2 DEF f, T
<1>7. CASE calls[c].house = k
  <2>1. k # Platform
    BY Constants
  <2>2. ledger'.house[k] = L.house[k] + cost /\ uncovered'[k] = U[k] + Over(c, cost)
    <3>1. /\ ledger'.house = [L.house EXCEPT ![k] = L.house[k] + cost]
          /\ uncovered' = [U EXCEPT ![k] = U[k] + Over(c, cost)]
      BY <1>7, <2>1, BillFacts
    <3> QED BY <1>2, <3>1
  <2>3. CASE c \in S
    <3>1. R[c].expires > now
      BY <2>3 DEF Owed, LiveFor
    <3>2. f[c] = Covered(c)
      BY <3>1 DEF Amounts, Covered, R
    <3>3. Over(c, cost) = IF cost > f[c] THEN cost - f[c] ELSE 0
      BY <3>2 DEF Over
    <3>4. f[c] \in Nat
      BY <1>5
    <3>5. SumFunctionOnSet(f, S) = f[c] + SumFunctionOnSet(f, T)
      <4> HIDE DEF f, S, T
      <4> QED BY <1>3, <1>4, <1>5, <2>3, SumTake
    <3> HIDE DEF f, S, T
    <3>6. L.house[k] + cost + SumFunctionOnSet(f, T) < Cap + (U[k] + Over(c, cost))
      BY <1>1, <1>2, <1>5, <3>3, <3>4, <3>5
    <3> QED BY <1>1, <2>2, <3>6 DEF f, T
  <2>4. CASE c \notin S
    <3>1. Covered(c) = 0
      <4>1. CASE R[c].house = Platform
        BY <1>1, <4>1 DEF Sound, Belongs, Covered, R
      <4>2. CASE R[c].house # Platform
        <5>1. Running(c)
          BY <1>1 DEF Running
        <5>2. R[c].house = k
          BY <1>1, <1>7, <4>2, <5>1 DEF Sound, Belongs
        <5>3. ~(R[c].expires > now)
          BY <1>1, <2>4, <5>2 DEF Owed, LiveFor
        <5> QED BY <5>3 DEF Covered, R
      <4> QED BY <4>1, <4>2
    <3>2. Over(c, cost) = cost
      BY <1>1, <3>1 DEF Over
    <3> HIDE DEF f, S, T
    <3>3. L.house[k] + cost + SumFunctionOnSet(f, T) < Cap + (U[k] + Over(c, cost))
      BY <1>1, <1>2, <1>5, <3>2
    <3> QED BY <1>1, <2>2, <3>3 DEF f, T
  <2> QED BY <2>3, <2>4
<1> QED BY <1>6, <1>7

(* A bill goes over a cap by what was underway at most.                    *)
LEMMA BillCaps ==
    ASSUME Clocks, Sound(ledger, reservations, uncovered),
           NEW c \in Calls, NEW cost \in Costs, Charge(c, cost)
    PROVE  Caps(ledger)'
<1> DEFINE a == calls[c].app
<1>1. /\ Sound(L, R, U) /\ cost \in Nat /\ cost <= Most /\ a \in Apps
      /\ ledger'.app = [L.app EXCEPT ![a] = L.app[a] + cost]
      /\ ledger'.total = L.total + cost
  BY BillFacts
<1>2. /\ Underway' = Underway \ {c} /\ c \in Underway
      /\ \A b : UnderwayOf(b)' = UnderwayOf(b) \ {c}
      /\ c \in UnderwayOf(a)
  BY BillFacts, BilledCalls
<1>3. Underway \in SUBSET Calls /\ \A b : UnderwayOf(b) \in SUBSET Calls
  BY DEF Underway, UnderwayOf
<1>4. /\ L.total \in Nat /\ L.app \in [Apps -> Nat] /\ Most \in Nat /\ Slack \in Nat
      /\ AppCap \in Nat /\ GlobalCap \in Nat
  BY <1>1, Constants, LargestCost, CountMore DEF Sound, Ledgers, Slack
<1>5. L.total + cost + Cardinality(Underway') * Most < GlobalCap + Slack
  <2>1. /\ Cardinality(Underway) * Most \in Nat
        /\ Cardinality(Underway') * Most = Cardinality(Underway) * Most - Most
    BY <1>2, <1>3, CountLess
  <2>2. L.total + Cardinality(Underway) * Most < GlobalCap + Slack
    BY <1>1 DEF Sound, Caps
  <2> QED BY <1>1, <1>4, <2>1, <2>2
<1>6. ASSUME NEW b \in Apps \ Systems
      PROVE  ledger'.app[b] + Cardinality(UnderwayOf(b)') * Most < AppCap + Slack
  <2>1. L.app[b] + Cardinality(UnderwayOf(b)) * Most < AppCap + Slack
    BY <1>1 DEF Sound, Caps
  <2>2. CASE b = a
    <3>1. /\ Cardinality(UnderwayOf(b)) * Most \in Nat
          /\ Cardinality(UnderwayOf(b)') * Most
                = Cardinality(UnderwayOf(b)) * Most - Most
      BY <1>2, <1>3, <2>2, CountLess
    <3>2. ledger'.app[b] = L.app[b] + cost /\ L.app[b] \in Nat
      BY <1>1, <1>4, <2>2
    <3> QED BY <1>1, <1>4, <2>1, <3>1, <3>2
  <2>3. CASE b # a
    <3>1. UnderwayOf(b)' \in SUBSET UnderwayOf(b)
      BY <1>2
    <3>2. /\ Cardinality(UnderwayOf(b)) * Most \in Nat
          /\ Cardinality(UnderwayOf(b)') * Most \in Nat
          /\ Cardinality(UnderwayOf(b)') * Most <= Cardinality(UnderwayOf(b)) * Most
      BY <1>3, <3>1, CountMore
    <3>3. ledger'.app[b] = L.app[b] /\ L.app[b] \in Nat
      BY <1>1, <1>4, <2>3
    <3> QED BY <1>4, <2>1, <3>2, <3>3
  <2> QED BY <2>2, <2>3
<1> QED BY <1>1, <1>5, <1>6 DEF Caps, Slack, Most, Max, Underway, UnderwayOf

(* So a bill keeps them in step.                                           *)
LEMMA BillSound ==
    ASSUME Clocks, Sound(ledger, reservations, uncovered),
           NEW c \in Calls, NEW cost \in Costs, Charge(c, cost)
    PROVE  (Clocks /\ Sound(ledger, reservations, uncovered))'
<1> DEFINE a == calls[c].app h == calls[c].house
<1>1. /\ Sound(L, R, U) /\ reservations' = R
      /\ UNCHANGED <<now, appStarts, houseStarts, disposed>>
      /\ a \in Apps /\ h \in Households \cup {Platform} /\ cost \in Nat
      /\ ledger'.month = L.month
      /\ ledger'.app = [L.app EXCEPT ![a] = L.app[a] + cost]
      /\ ledger'.house = IF h = Platform THEN L.house
                         ELSE [L.house EXCEPT ![h] = L.house[h] + cost]
      /\ ledger'.total = L.total + cost
      /\ ledger' \in Ledgers /\ uncovered' \in [Households -> Nat]
  BY BillFacts
<1>2. /\ calls' \in [Calls -> {Idle} \cup Call]
      /\ \A d \in Calls : calls'[d].house = calls[d].house
      /\ \A d \in Calls : Running(d)' = Running(d)
  BY BillFacts, BilledCalls
<1>3. Clocks'
  BY <1>1, <1>2 DEF Clocks
<1>4. Belongs(reservations)'
  BY <1>1, <1>2 DEF Sound, Belongs
<1>5. Owned(ledger, reservations)'
  BY <1>1, <1>2 DEF Sound, Owned
<1>6. Agree(ledger)'
  <2>1. /\ L.app \in [Apps -> Nat] /\ L.house \in [Households -> Nat] /\ L.total \in Nat
        /\ L.total = SumFunctionOnSet(L.app, Apps)
        /\ L.total >= SumFunctionOnSet(L.house, Households)
        /\ IsFiniteSet(Apps) /\ IsFiniteSet(Households)
    BY <1>1, Constants DEF Sound, Ledgers, Agree
  <2>2. SumFunctionOnSet(ledger'.app, Apps) = L.total + cost
    BY <1>1, <2>1, SumPut
  <2>3. SumFunctionOnSet(L.house, Households) \in Nat
    BY <2>1, SumNat
  <2>4. L.total + cost >= SumFunctionOnSet(ledger'.house, Households)
    <3>1. CASE h = Platform
      <4>1. ledger'.house = L.house
        BY <1>1, <3>1
      <4> QED BY <1>1, <2>1, <2>3, <4>1
    <3>2. CASE h # Platform
      <4>1. ledger'.house = [L.house EXCEPT ![h] = L.house[h] + cost] /\ h \in Households
        BY <1>1, <3>2
      <4>2. SumFunctionOnSet(ledger'.house, Households)
              = SumFunctionOnSet(L.house, Households) + cost
        BY <1>1, <2>1, <4>1, SumPut
      <4> QED BY <1>1, <2>1, <2>3, <4>2
    <3> QED BY <3>1, <3>2
  <2> QED BY <1>1, <2>2, <2>4 DEF Agree
<1> QED BY <1>1, <1>3, <1>4, <1>5, <1>6, BillBudget, BillCaps DEF Sound

-----------------------------------------------------------------------------
(* Nothing is reserved, spent or underway at the start.                    *)
LEMMA InitSound ==
    ASSUME GuardInit
    PROVE  Clocks /\ Sound(ledger, reservations, uncovered)
<1>1. /\ now = 0 /\ ledger = FreshLedger(0) /\ disposed = FALSE
      /\ reservations = [c \in Calls |-> NoReservation]
      /\ appStarts = [a \in Apps |-> <<>>] /\ houseStarts = [h \in Households |-> <<>>]
      /\ calls = [c \in Calls |-> Idle] /\ uncovered = [h \in Households |-> 0]
  BY DEF GuardInit
<1>2. Clocks
  <2>1. now \in 0 .. MaxTime
    BY <1>1, Constants
  <2>2. disposed \in BOOLEAN
    BY <1>1
  <2>3. <<>> \in Seq(0 .. MaxTime)
    OBVIOUS
  <2>4. /\ appStarts \in [Apps -> Seq(0 .. MaxTime)]
        /\ houseStarts \in [Households -> Seq(0 .. MaxTime)]
    BY <1>1, <2>3
  <2>5. calls \in [Calls -> {Idle} \cup Call]
    BY <1>1
  <2> QED BY <2>1, <2>2, <2>4, <2>5 DEF Clocks
<1>3. /\ ledger \in Ledgers /\ reservations \in Holdings /\ uncovered \in [Households -> Nat]
      /\ Belongs(reservations) /\ Owned(ledger, reservations)
  BY <1>1 DEF FreshLedger, NoReservation, Ledgers, Holdings, Belongs, Owned
<1>4. ledger.app = [a \in Apps |-> 0] /\ ledger.house = [h \in Households |-> 0]
      /\ ledger.total = 0
  BY <1>1 DEF FreshLedger
<1>5. Agree(ledger)
  BY <1>4, Constants, SumZero DEF Agree
<1>6. Budget(ledger, reservations, uncovered)
  <2>1. \A h \in Households : Owed(h, reservations) = {}
    BY <1>1, Constants DEF Owed, LiveFor, NoReservation
  <2>2. \A h \in Households : ledger.house[h] = 0 /\ uncovered[h] = 0
    BY <1>1, <1>4
  <2>3. SumFunctionOnSet(Amounts(reservations), {}) = 0
    BY SumEmpty
  <2> QED BY <2>1, <2>2, <2>3, Constants DEF Budget
<1>7. Caps(ledger)
  <2>1. \A S \in SUBSET Calls : Cardinality(S) * Most <= Slack /\ Slack \in Nat
                                /\ Cardinality(S) * Most \in Nat
    BY CountMore DEF Slack
  <2> QED BY <1>4, <2>1, Constants DEF Caps, Underway, UnderwayOf
<1> QED BY <1>2, <1>3, <1>5, <1>6, <1>7 DEF Sound

(* Every step keeps them in step.                                          *)
LEMMA NextSound ==
    ASSUME GuardInv, [GuardNext]_guardVars
    PROVE  GuardInv'
<1>1. Clocks /\ Sound(ledger, reservations, uncovered)
  BY InParts
<1>2. SUFFICES (Clocks /\ Sound(ledger, reservations, uncovered))'
  <2>1. (GuardInv <=> Clocks /\ Sound(ledger, reservations, uncovered))'
    BY InParts, PTL
  <2> QED BY <2>1
<1>3. CASE UNCHANGED guardVars
  BY <1>1, <1>3 DEF guardVars, Clocks, Sound, Belongs, Owned, Budget, Caps, Agree, Owed,
     LiveFor, Amounts, Running, Underway, UnderwayOf, Slack,
     Most, Max
<1>4. CASE \E c \in Calls : CallStep(c)
  <2>1. PICK c \in Calls : CallStep(c)
    BY <1>4
  <2>2. CASE Finish(c)
    BY <1>1, <2>2, FinishSound
  <2>3. CASE \E cost \in Costs : Charge(c, cost)
    BY <1>1, <2>3, BillSound
  <2>4. CASE \E a \in Apps, h \in Households \cup {Platform}, est \in Estimates :
                Admit(c, a, h, est)
    BY <1>1, <2>4, AdmitSound
  <2> QED BY <2>1, <2>2, <2>3, <2>4 DEF CallStep
<1>5. CASE \E a \in Apps, h \in Households \cup {Platform}, est \in Estimates :
              Refuse(a, h, est)
  BY <1>1, <1>5, RefuseSound DEF Refuse, R
<1>6. CASE Sweep \/ Dispose \/ Forget \/ Tick
  BY <1>1, <1>6, DropSound
<1> QED BY <1>3, <1>4, <1>5, <1>6 DEF GuardNext

(* What the limiter keeps, whatever calls are under way, bills and months  *)
(* do.                                                                     *)
THEOREM LimiterSafe == GuardSpec => []GuardInv
<1>1. GuardInit => GuardInv
  BY InitSound, InParts
<1>2. GuardInv /\ [GuardNext]_guardVars => GuardInv'
  BY NextSound
<1> QED BY <1>1, <1>2, PTL DEF GuardSpec

(* The bills and reservations of a household stay under its cap, except    *)
(* for what calls cost beyond their reservation.                           *)
THEOREM BudgetSafe == GuardSpec => []HouseholdBudget
<1>1. GuardInv => HouseholdBudget
  BY DEF GuardInv
<1> QED BY <1>1, LimiterSafe, PTL

(* No reservation outlives its call or its month.                          *)
THEOREM ReservationsSafe == GuardSpec => []ReservationsOwned
<1>1. GuardInv => ReservationsOwned
  BY DEF GuardInv
<1> QED BY <1>1, LimiterSafe, PTL

(* App and global caps are passed by no more than the calls that can be    *)
(* under way cost, and the totals agree.                                   *)
THEOREM OvershootSafe == GuardSpec => []OvershootBounded
<1>1. GuardInv => OvershootBounded
  <2> SUFFICES ASSUME GuardInv PROVE OvershootBounded
    OBVIOUS
  <2>1. Sound(ledger, reservations, uncovered)
    BY InParts
  <2>2. Underway \in SUBSET Calls /\ \A a : UnderwayOf(a) \in SUBSET Calls
    BY DEF Underway, UnderwayOf
  <2>3. /\ Cardinality(Underway) * Most \in Nat
        /\ \A a : Cardinality(UnderwayOf(a)) * Most \in Nat
    BY <2>2, CountMore
  <2>4. /\ Slack \in Nat /\ ledger.total \in Nat /\ \A a \in Apps : ledger.app[a] \in Nat
        /\ AppCap \in Nat /\ GlobalCap \in Nat
    BY <2>1, CountMore, Constants DEF Slack, Sound, Ledgers
  <2>5. ledger.total < GlobalCap + Slack
    BY <2>1, <2>3, <2>4 DEF Sound, Caps
  <2>6. \A a \in Apps \ Systems : ledger.app[a] < AppCap + Slack
    BY <2>1, <2>3, <2>4 DEF Sound, Caps
  <2> QED BY <2>1, <2>5, <2>6 DEF OvershootBounded, Sound, Agree, Slack, Most
<1> QED BY <1>1, LimiterSafe, PTL
=============================================================================
