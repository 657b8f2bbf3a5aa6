-------------------------- MODULE DataStoreProofs --------------------------
(***************************************************************************)
(* The data store: the lock of a file (FileLocks) and what is done to a    *)
(* file under it and without it (Edits).                                   *)
(*                                                                         *)
(* FileLocks for any callers and keys: the lock is exclusive, serves its   *)
(* callers in the order they came, keeps the nested keys sorted and leaves *)
(* nothing in the map.                                                     *)
(*                                                                         *)
(* The invariant says that the promises of a key form one chain: each      *)
(* caller in line is chained to the one in front of it, the map holds the  *)
(* last one, and only the first one runs.                                  *)
(*                                                                         *)
(* Edits: the state of the file and its edits keeps its shape; nothing is  *)
(* overwritten unseen by who holds the lock; what is applied was confirmed *)
(* and never superseded; what is told is true; and over the webhook a      *)
(* button pressed in time is answered: for any calls, users and faults.    *)
(*                                                                         *)
(* The argument has two halves. For the file: whoever is about to write    *)
(* holds the lock, so what it has not looked at was put without the lock   *)
(* since (LookInv). For the talk: the slot holds a proposal that is shown  *)
(* and not superseded (SlotInv), and what was confirmed has left it, so no *)
(* later proposal supersedes it (ShownInv).                                *)
(***************************************************************************)
EXTENDS FileLocks, Edits, TLAPS

-----------------------------------------------------------------------------
(* The lock of a file                                                      *)

Places(k) == 1..Len(line[k])

(* Where a caller is, and that its keys are sorted.                        *)
Callers ==
    \A p \in Procs :
        /\ waiting[p] # Null => /\ settled[p] = Null /\ ~inside[p]
                                /\ \A k \in held[p] : k < waiting[p]
                                /\ \A k \in todo[p] : waiting[p] < k
        /\ waiting[p] = Null => todo[p] = {}
        /\ inside[p] => settled[p] = Null
        /\ settled[p] \notin held[p]

(* Nobody is in line twice, and everybody in line holds or awaits the key. *)
OncePerLine ==
    \A k \in Keys :
        /\ \A i, j \in Places(k) : line[k][i] = line[k][j] => i = j
        /\ \A i \in Places(k) : k \in held[line[k][i]] \/ waiting[line[k][i]] = k

(* Everybody is chained to the one in front, and the map holds the last    *)
(* one.                                                                    *)
Chained ==
    \A k \in Keys :
        /\ \A i \in Places(k) : i > 1 => prev[line[k][i]][k] = line[k][i - 1]
        /\ line[k] # <<>> => tail[k] = line[k][Len(line[k])]
        /\ line[k] = <<>> => tail[k] = Null \/ settled[tail[k]] = k

(* Who waits is in line, and who holds a key is the first in its line.     *)
InLine ==
    \A p \in Procs :
        /\ waiting[p] # Null => \E i \in Places(waiting[p]) : line[waiting[p]][i] = p
        /\ \A k \in held[p] : line[k] # <<>> /\ line[k][1] = p

LocksInv == LocksTypeOK /\ Callers /\ OncePerLine /\ Chained /\ InLine

(* Reaching MyTurn means being the first in line.                          *)
LEMMA FirstInLine ==
    ASSUME LocksInv, NEW p \in Procs, NEW w \in Keys, waiting[p] = w, MyTurn(p, w)
    PROVE  line[w] # <<>> /\ line[w][1] = p
<1>1. PICK i \in Places(w) : line[w][i] = p
  BY LockAssumption DEF LocksInv, InLine, LocksTypeOK
<1>2. CASE i = 1
  BY <1>1, <1>2 DEF LocksInv, LocksTypeOK, Places
<1>3. CASE i # 1
  <2>1. i - 1 \in Places(w) /\ i > 1
    BY <1>1, <1>3 DEF LocksInv, LocksTypeOK, Places
  <2>2. prev[p][w] = line[w][i - 1]
    BY <1>1, <2>1 DEF LocksInv, Chained
  <2>3. line[w][i - 1] \in Procs
    BY <2>1 DEF LocksInv, LocksTypeOK, Places
  <2>4. QED
    BY <2>2, <2>3, LockAssumption DEF MyTurn
<1>4. QED
  BY <1>2, <1>3

(* Somebody whose promise for a key has settled is no longer in its line.  *)
LEMMA SettledLeft ==
    ASSUME LocksInv, NEW p \in Procs, NEW k \in Keys, settled[p] = k
    PROVE  \A i \in Places(k) : line[k][i] # p
<1>1. waiting[p] # k /\ k \notin held[p]
  BY LockAssumption DEF LocksInv, Callers, LocksTypeOK
<1>2. QED
  BY <1>1 DEF LocksInv, OncePerLine

(* A new promise waits for the last one in line.                           *)
LEMMA BeforeIsLast ==
    ASSUME LocksInv, NEW k \in Keys, line[k] # <<>>
    PROVE  Before(k) = line[k][Len(line[k])]
<1>1. Len(line[k]) \in Places(k)
  BY DEF LocksInv, LocksTypeOK, Places
<1>2. tail[k] = line[k][Len(line[k])] /\ tail[k] \in Procs
  BY <1>1 DEF LocksInv, Chained, LocksTypeOK, Places
<1>3. settled[tail[k]] # k
  BY <1>1, <1>2, SettledLeft
<1>4. QED
  BY <1>2, <1>3, LockAssumption DEF Before

(* Joining a line, while the key the caller waited for becomes one it      *)
(* holds.                                                                  *)
LEMMA ChainKeeps ==
    ASSUME LocksInv, LocksTypeOK, NEW p \in Procs, NEW k \in Keys, Chain(p, k),
           settled' = settled, settled[p] = Null,
           k \notin held[p], waiting[p] # k,
           held' \in [Procs -> SUBSET Keys],
           \A q \in Procs : q # p => held'[q] = held[q],
           \A l \in Keys : l \in held[p] \/ waiting[p] = l => l \in held'[p],
           \A l \in held'[p] : l # k /\ line[l] # <<>> /\ line[l][1] = p
    PROVE  OncePerLine' /\ Chained' /\ InLine'
<1> USE DEF Places
<1>t. /\ line \in [Keys -> Seq(Procs)] /\ waiting \in [Procs -> Keys \cup {Null}]
      /\ prev \in [Procs -> [Keys -> Procs \cup {Null}]] /\ tail \in [Keys -> Procs \cup {Null}]
      /\ held \in [Procs -> SUBSET Keys] /\ settled \in [Procs -> Keys \cup {Null}]
  BY DEF LocksTypeOK
<1>l. /\ \A l \in Keys : l # k => line'[l] = line[l]
      /\ line'[k] = Append(line[k], p)
      /\ Len(line'[k]) = Len(line[k]) + 1 /\ line'[k] # <<>>
      /\ line'[k][Len(line[k]) + 1] = p
      /\ \A i \in 1..Len(line[k]) : line'[k][i] = line[k][i]
      /\ Len(line[k]) \in Nat /\ \A i \in 1..Len(line[k]) : line[k][i] \in Procs
  BY <1>t DEF Chain
<1>p. /\ \A q \in Procs, l \in Keys : q # p \/ l # k => prev'[q][l] = prev[q][l]
      /\ prev'[p][k] = Before(k)
  BY <1>t DEF Chain
<1>w. waiting'[p] = k /\ \A q \in Procs : q # p => waiting'[q] = waiting[q]
  BY <1>t DEF Chain
<1>x. tail'[k] = p /\ \A l \in Keys : l # k => tail'[l] = tail[l]
  BY <1>t DEF Chain
<1>n. \A i \in 1..Len(line[k]) : line[k][i] # p
  BY DEF LocksInv, OncePerLine
<1>1. OncePerLine'
  <2> SUFFICES ASSUME NEW l \in Keys
               PROVE  /\ \A i, j \in 1..Len(line'[l]) : line'[l][i] = line'[l][j] => i = j
                      /\ \A i \in 1..Len(line'[l]) :
                             l \in held'[line'[l][i]] \/ waiting'[line'[l][i]] = l
    BY DEF OncePerLine
  <2>1. CASE l # k
    <3>1. line'[l] = line[l] /\ \A i \in 1..Len(line[l]) : line[l][i] \in Procs
      BY <2>1, <1>l, <1>t
    <3>2. ASSUME NEW i \in 1..Len(line[l])
          PROVE  l \in held'[line[l][i]] \/ waiting'[line[l][i]] = l
      <4>1. l \in held[line[l][i]] \/ waiting[line[l][i]] = l
        BY DEF LocksInv, OncePerLine
      <4>2. QED
        BY <4>1, <3>1, <1>w
    <3>3. \A i, j \in 1..Len(line[l]) : line[l][i] = line[l][j] => i = j
      BY DEF LocksInv, OncePerLine
    <3>4. QED
      BY <3>1, <3>2, <3>3
  <2>2. CASE l = k
    <3>1. \A i, j \in 1..Len(line[k]) : line[k][i] = line[k][j] => i = j
      BY DEF LocksInv, OncePerLine
    <3>2. ASSUME NEW i \in 1..Len(line[k])
          PROVE  k \in held'[line[k][i]] \/ waiting'[line[k][i]] = k
      <4>1. k \in held[line[k][i]] \/ waiting[line[k][i]] = k
        BY DEF LocksInv, OncePerLine
      <4>2. QED
        BY <4>1, <1>n, <1>l, <1>w
    <3>3. \A i \in 1..Len(line'[k]) : i = Len(line[k]) + 1 \/ i \in 1..Len(line[k])
      BY <1>l
    <3>4. \A i, j \in 1..Len(line'[k]) : line'[k][i] = line'[k][j] => i = j
      BY <3>1, <3>3, <1>l, <1>n
    <3>5. \A i \in 1..Len(line'[k]) : k \in held'[line'[k][i]] \/ waiting'[line'[k][i]] = k
      BY <3>2, <3>3, <1>l, <1>w
    <3>6. QED
      BY <2>2, <3>4, <3>5
  <2>3. QED
    BY <2>1, <2>2
<1>2. Chained'
  <2> SUFFICES ASSUME NEW l \in Keys
               PROVE  /\ \A i \in 1..Len(line'[l]) :
                             i > 1 => prev'[line'[l][i]][l] = line'[l][i - 1]
                      /\ line'[l] # <<>> => tail'[l] = line'[l][Len(line'[l])]
                      /\ line'[l] = <<>> => tail'[l] = Null \/ settled'[tail'[l]] = l
    BY DEF Chained
  <2>1. CASE l # k
    <3>1. \A i \in 1..Len(line[l]) : line[l][i] \in Procs
      BY <1>t
    <3>2. /\ \A i \in 1..Len(line[l]) : i > 1 => prev[line[l][i]][l] = line[l][i - 1]
          /\ line[l] # <<>> => tail[l] = line[l][Len(line[l])]
          /\ line[l] = <<>> => tail[l] = Null \/ settled[tail[l]] = l
      BY DEF LocksInv, Chained
    <3>3. line'[l] = line[l] /\ tail'[l] = tail[l]
      BY <2>1, <1>l, <1>x
    <3>4. \A i \in 1..Len(line[l]) : i > 1 => prev'[line[l][i]][l] = line[l][i - 1]
      BY <2>1, <3>1, <3>2, <1>p
    <3>5. QED
      BY <3>2, <3>3, <3>4
  <2>2. CASE l = k
    <3>1. ASSUME NEW i \in 1..Len(line'[k]), i > 1
          PROVE  prev'[line'[k][i]][k] = line'[k][i - 1]
      <4>1. CASE i = Len(line[k]) + 1
        <5>1. line[k] # <<>> /\ i - 1 = Len(line[k]) /\ i - 1 \in 1..Len(line[k])
          BY <4>1, <3>1, <1>l
        <5>2. Before(k) = line[k][Len(line[k])]
          BY <5>1, BeforeIsLast
        <5>3. QED
          BY <4>1, <5>1, <5>2, <1>l, <1>p
      <4>2. CASE i # Len(line[k]) + 1
        <5>1. i \in 1..Len(line[k]) /\ i - 1 \in 1..Len(line[k])
          BY <4>2, <3>1, <1>l
        <5>2. prev[line[k][i]][k] = line[k][i - 1]
          BY <5>1, <3>1 DEF LocksInv, Chained
        <5>3. line'[k][i] = line[k][i] /\ line'[k][i - 1] = line[k][i - 1] /\ line[k][i] # p
                /\ line[k][i] \in Procs
          BY <5>1, <1>l, <1>n
        <5>4. QED
          BY <5>2, <5>3, <1>p
      <4>3. QED
        BY <4>1, <4>2
    <3>2. QED
      BY <2>2, <3>1, <1>l, <1>x
  <2>3. QED
    BY <2>1, <2>2
<1>3. InLine'
  <2> SUFFICES ASSUME NEW q \in Procs
               PROVE  /\ waiting'[q] # Null =>
                            \E i \in 1..Len(line'[waiting'[q]]) : line'[waiting'[q]][i] = q
                      /\ \A l \in held'[q] : line'[l] # <<>> /\ line'[l][1] = q
    BY DEF InLine
  <2>1. CASE q = p
    <3>1. /\ line'[waiting'[p]][Len(line[k]) + 1] = p
          /\ Len(line[k]) + 1 \in 1..Len(line'[waiting'[p]])
      BY <1>l, <1>w
    <3>2. \A l \in held'[p] : l \in Keys /\ line'[l] # <<>> /\ line'[l][1] = p
      BY <1>l, <1>t
    <3>3. QED
      BY <2>1, <3>1, <3>2
  <2>2. CASE q # p
    <3>1. waiting'[q] = waiting[q] /\ held'[q] = held[q] /\ held[q] \subseteq Keys
      BY <2>2, <1>w, <1>t
    <3>2. ASSUME NEW l \in held[q]
          PROVE  line'[l] # <<>> /\ line'[l][1] = q
      <4>1. line[l] # <<>> /\ line[l][1] = q /\ l \in Keys
        BY <3>1 DEF LocksInv, InLine
      <4>2. 1 \in 1..Len(line[l])
        BY <4>1, <1>t
      <4>3. QED
        BY <4>1, <4>2, <1>l
    <3>3. ASSUME waiting[q] # Null
          PROVE  \E i \in 1..Len(line'[waiting[q]]) : line'[waiting[q]][i] = q
      <4>1. PICK i \in 1..Len(line[waiting[q]]) : line[waiting[q]][i] = q
        BY <3>3 DEF LocksInv, InLine
      <4>2. waiting[q] \in Keys
        BY <3>3, <1>t
      <4>3. CASE waiting[q] = k
        <5>1. i \in 1..Len(line[k]) /\ line[k][i] = q
          BY <4>1, <4>3
        <5>2. i \in 1..Len(line'[k]) /\ line'[k][i] = q
          BY <5>1, <1>l
        <5>3. QED
          BY <4>3, <5>2
      <4>4. CASE waiting[q] # k
        BY <4>1, <4>2, <4>4, <1>l
      <4>5. QED
        BY <4>3, <4>4
    <3>4. QED
      BY <3>1, <3>2, <3>3
  <2>3. QED
    BY <2>1, <2>2
<1>4. QED
  BY <1>1, <1>2, <1>3

(* Leaving a line, while the map may forget a key that settled before.     *)
LEMMA SettleKeeps ==
    ASSUME LocksInv, LocksTypeOK, NEW p \in Procs, NEW k \in held[p], Settle(p, k),
           waiting' = waiting, waiting[p] = Null,
           tail' \in [Keys -> Procs \cup {Null}],
           \A l \in Keys : \/ tail'[l] = tail[l] /\ (settled[p] = l => tail[l] # p)
                           \/ settled[p] = l /\ tail[l] = p /\ tail'[l] = Null
    PROVE  OncePerLine' /\ Chained' /\ InLine'
<1> USE DEF Places
<1>t. /\ line \in [Keys -> Seq(Procs)] /\ waiting \in [Procs -> Keys \cup {Null}]
      /\ prev \in [Procs -> [Keys -> Procs \cup {Null}]] /\ tail \in [Keys -> Procs \cup {Null}]
      /\ held \in [Procs -> SUBSET Keys] /\ settled \in [Procs -> Keys \cup {Null}]
      /\ k \in Keys
  BY DEF LocksTypeOK
<1>f. line[k] # <<>> /\ line[k][1] = p /\ 1 \in 1..Len(line[k])
  BY <1>t DEF LocksInv, InLine
<1>o. /\ \A i \in 1..Len(line[k]) : i > 1 => line[k][i] # p
      /\ \A l \in Keys : \A i \in 1..Len(line[l]) :
            line[l][i] \in Procs /\ (l \in held[line[l][i]] \/ waiting[line[l][i]] = l)
  BY <1>f, <1>t DEF LocksInv, OncePerLine
<1>l. /\ \A l \in Keys : l # k => line'[l] = line[l]
      /\ line'[k] = Tail(line[k]) /\ Len(line[k]) \in Nat
      /\ Len(line'[k]) = Len(line[k]) - 1 /\ Len(line'[k]) \in Nat
      /\ \A i \in 1..Len(line'[k]) : line'[k][i] = line[k][i + 1] /\ i + 1 \in 1..Len(line[k])
      /\ line'[k] \in Seq(Procs)
  BY <1>t, <1>f DEF Settle
<1>p. \A q \in Procs, l \in Keys :
          prev'[q][l] = IF l = k /\ prev[q][l] = p THEN Null ELSE prev[q][l]
  BY <1>t DEF Settle
<1>h. /\ held'[p] = held[p] \ {k} /\ \A q \in Procs : q # p => held'[q] = held[q]
      /\ settled'[p] = k /\ \A q \in Procs : q # p => settled'[q] = settled[q]
  BY <1>t DEF Settle
<1>1. OncePerLine'
  <2> SUFFICES ASSUME NEW l \in Keys
               PROVE  /\ \A i, j \in 1..Len(line'[l]) : line'[l][i] = line'[l][j] => i = j
                      /\ \A i \in 1..Len(line'[l]) :
                             l \in held'[line'[l][i]] \/ waiting'[line'[l][i]] = l
    BY DEF OncePerLine
  <2>o. \A i, j \in 1..Len(line[l]) : line[l][i] = line[l][j] => i = j
    BY DEF LocksInv, OncePerLine
  <2>1. CASE l # k
    <3>1. line'[l] = line[l]
      BY <2>1, <1>l
    <3>2. \A i \in 1..Len(line[l]) : l \in held'[line[l][i]] \/ waiting'[line[l][i]] = l
      BY <2>1, <1>o, <1>h
    <3>3. QED
      BY <3>1, <3>2, <2>o
  <2>2. CASE l = k
    <3>1. ASSUME NEW i \in 1..Len(line'[k])
          PROVE  k \in held'[line'[k][i]] \/ waiting'[line'[k][i]] = k
      <4>1. i + 1 \in 1..Len(line[k]) /\ i + 1 > 1 /\ line'[k][i] = line[k][i + 1]
        BY <1>l
      <4>2. QED
        BY <4>1, <1>o, <1>h, <1>t
    <3>2. \A i, j \in 1..Len(line'[k]) : line'[k][i] = line'[k][j] => i = j
      BY <2>2, <2>o, <1>l
    <3>3. QED
      BY <2>2, <3>1, <3>2
  <2>3. QED
    BY <2>1, <2>2
<1>2. Chained'
  <2> SUFFICES ASSUME NEW l \in Keys
               PROVE  /\ \A i \in 1..Len(line'[l]) :
                             i > 1 => prev'[line'[l][i]][l] = line'[l][i - 1]
                      /\ line'[l] # <<>> => tail'[l] = line'[l][Len(line'[l])]
                      /\ line'[l] = <<>> => tail'[l] = Null \/ settled'[tail'[l]] = l
    BY DEF Chained
  <2>c. /\ \A i \in 1..Len(line[l]) : i > 1 => prev[line[l][i]][l] = line[l][i - 1]
        /\ line[l] # <<>> => tail[l] = line[l][Len(line[l])]
        /\ line[l] = <<>> => tail[l] = Null \/ settled[tail[l]] = l
    BY DEF LocksInv, Chained
  <2>n. line[l] # <<>> => Len(line[l]) \in 1..Len(line[l])
    BY <1>t
  <2>1. CASE l # k
    <3>1. line'[l] = line[l]
      BY <2>1, <1>l
    <3>2. \A i \in 1..Len(line[l]) : i > 1 => prev'[line[l][i]][l] = line[l][i - 1]
      BY <2>1, <2>c, <1>o, <1>p
    <3>3. line[l] # <<>> => tail'[l] = tail[l]
      <4>1. SUFFICES ASSUME line[l] # <<>>, settled[p] = l
                     PROVE  tail'[l] = tail[l]
        BY <1>t
      <4>2. tail[l] # p
        BY <4>1, <2>c, <2>n, SettledLeft
      <4>3. QED
        BY <4>1, <4>2
    <3>4. line[l] = <<>> => tail'[l] = Null \/ settled'[tail'[l]] = l
      <4>1. CASE tail[l] = p
        BY <4>1, <2>c, LockAssumption
      <4>2. CASE tail[l] # p
        BY <4>2, <2>c, <1>h, <1>t
      <4>3. QED
        BY <4>1, <4>2
    <3>5. QED
      BY <2>c, <3>1, <3>2, <3>3, <3>4
  <2>2. CASE l = k
    <3>s. settled[p] # k
      BY DEF LocksInv, Callers
    <3>1. tail'[k] = tail[k]
      BY <3>s, <1>t
    <3>2. ASSUME NEW i \in 1..Len(line'[k]), i > 1
          PROVE  prev'[line'[k][i]][k] = line'[k][i - 1]
      <4>1. /\ i + 1 \in 1..Len(line[k]) /\ i \in 1..Len(line[k]) /\ i - 1 \in 1..Len(line'[k])
            /\ line'[k][i] = line[k][i + 1] /\ line'[k][i - 1] = line[k][i]
        BY <3>2, <1>l
      <4>2. prev[line[k][i + 1]][k] = line[k][i] /\ line[k][i] # p /\ line[k][i + 1] \in Procs
        BY <4>1, <3>2, <2>2, <2>c, <1>o
      <4>3. QED
        BY <4>1, <4>2, <1>p, <1>t
    <3>3. line'[k] # <<>> => tail[k] = line'[k][Len(line'[k])]
      <4>1. SUFFICES ASSUME line'[k] # <<>>
                     PROVE  tail[k] = line'[k][Len(line'[k])]
        OBVIOUS
      <4>2. Len(line'[k]) \in 1..Len(line'[k]) /\ Len(line'[k]) + 1 = Len(line[k])
        BY <4>1, <1>l
      <4>3. QED
        BY <4>2, <1>l, <1>f, <2>2, <2>c
    <3>4. line'[k] = <<>> => settled'[tail[k]] = k
      <4>1. SUFFICES ASSUME line'[k] = <<>>
                     PROVE  tail[k] = p
        BY <1>h
      <4>2. Len(line'[k]) = 0
        BY <4>1
      <4>3. Len(line[k]) = 1
        BY <4>2, <1>l
      <4>4. QED
        BY <4>3, <2>2, <2>c, <1>f
    <3>5. QED
      BY <2>2, <3>1, <3>2, <3>3, <3>4
  <2>3. QED
    BY <2>1, <2>2
<1>3. InLine'
  <2> SUFFICES ASSUME NEW q \in Procs
               PROVE  /\ waiting[q] # Null =>
                            \E i \in 1..Len(line'[waiting[q]]) : line'[waiting[q]][i] = q
                      /\ \A l \in held'[q] : line'[l] # <<>> /\ line'[l][1] = q
    BY DEF InLine
  <2>1. ASSUME NEW l \in held'[q]
        PROVE  line'[l] # <<>> /\ line'[l][1] = q
    <3>0. held'[q] \subseteq held[q] /\ held[q] \subseteq Keys
      BY <1>h, <1>t
    <3>1. l \in held[q] /\ l \in Keys
      BY <3>0
    <3>2. line[l] # <<>> /\ line[l][1] = q
      BY <3>1 DEF LocksInv, InLine
    <3>3. l # k
      BY <3>2, <1>f, <1>h
    <3>4. QED
      BY <3>1, <3>2, <3>3, <1>l
  <2>2. ASSUME waiting[q] # Null
        PROVE  \E i \in 1..Len(line'[waiting[q]]) : line'[waiting[q]][i] = q
    <3>1. PICK i \in 1..Len(line[waiting[q]]) : line[waiting[q]][i] = q
      BY <2>2 DEF LocksInv, InLine
    <3>2. waiting[q] \in Keys /\ q # p
      BY <2>2, <1>t
    <3>3. CASE waiting[q] = k
      <4>1. i \in 1..Len(line[k]) /\ line[k][i] = q /\ i # 1
        BY <3>1, <3>2, <3>3, <1>f
      <4>2. i - 1 \in 1..Len(line'[k]) /\ line'[k][i - 1] = line[k][(i - 1) + 1]
        BY <4>1, <1>l
      <4>3. (i - 1) + 1 = i
        BY <4>1
      <4>4. QED
        BY <3>3, <4>1, <4>2, <4>3
    <3>4. CASE waiting[q] # k
      BY <3>1, <3>2, <3>4, <1>l
    <3>5. QED
      BY <3>3, <3>4
  <2>3. QED
    BY <2>1, <2>2
<1>4. QED
  BY <1>1, <1>2, <1>3

LEMMA InitHolds == LocksInit => LocksInv
  BY LockAssumption
  DEF LocksInit, LocksInv, LocksTypeOK, Callers, OncePerLine, Chained, InLine, Places

(* The shape of the state and the place of each caller, action by action.  *)
LEMMA CallKeeps ==
    ASSUME LocksInv, LocksTypeOK, NEW p \in Procs, NEW keys \in SUBSET Keys, Call(p, keys)
    PROVE  LocksInv'
<1>1. PICK k \in keys : /\ ComesFirst(p, k, keys) /\ Chain(p, k)
                        /\ todo' = [todo EXCEPT ![p] = Rest(keys, k)]
  BY DEF Call
<1>2. /\ UNCHANGED <<held, settled, inside>> /\ k \in Keys
      /\ waiting[p] = Null /\ held[p] = {} /\ settled[p] = Null /\ ~inside[p]
  BY DEF Call, Idle
<1>b. Before(k) \in Procs \cup {Null}
  BY <1>2 DEF Before, LocksTypeOK
<1>3. LocksTypeOK'
  <2>1. /\ tail' \in [Keys -> Procs \cup {Null}] /\ prev' \in [Procs -> [Keys -> Procs \cup {Null}]]
        /\ waiting' \in [Procs -> Keys \cup {Null}] /\ line' \in [Keys -> Seq(Procs)]
    BY <1>1, <1>2, <1>b DEF LocksTypeOK, Chain
  <2>2. todo' \in [Procs -> SUBSET Keys]
    BY <1>1 DEF LocksTypeOK, Rest
  <2>3. \A q \in Procs : waiting'[q] \notin todo'[q] \cup held'[q]
    BY <1>1, <1>2 DEF LocksTypeOK, Rest, Chain
  <2>4. QED
    BY <1>2, <2>1, <2>2, <2>3 DEF LocksTypeOK
<1>4. Callers'
  <2> SUFFICES ASSUME NEW q \in Procs
               PROVE  /\ waiting'[q] # Null => /\ settled[q] = Null /\ ~inside[q]
                                               /\ \A l \in held[q] : l < waiting'[q]
                                               /\ \A l \in todo'[q] : waiting'[q] < l
                      /\ waiting'[q] = Null => todo'[q] = {}
                      /\ inside[q] => settled[q] = Null
                      /\ settled[q] \notin held[q]
    BY <1>2 DEF Callers
  <2>1. CASE q = p
    <3>1. waiting'[p] = k /\ todo'[p] = keys \ {k} /\ \A l \in keys : k <= l
      BY <1>1 DEF Chain, LocksTypeOK, Rest, ComesFirst
    <3>n. k \in Nat /\ \A l \in keys : l \in Nat
      BY <1>2, LockAssumption
    <3>2. \A l \in todo'[p] : k < l
      BY <3>1, <3>n
    <3>3. QED
      BY <2>1, <3>1, <3>2, <1>2, LockAssumption
  <2>2. CASE q # p
    <3>1. waiting'[q] = waiting[q] /\ todo'[q] = todo[q]
      BY <1>1, <2>2 DEF Chain, LocksTypeOK
    <3>2. QED
      BY <3>1 DEF LocksInv, Callers
  <2>3. QED
    BY <2>1, <2>2
<1>5. OncePerLine' /\ Chained' /\ InLine'
  <2>1. k \notin held[p] /\ waiting[p] # k
    BY <1>2, LockAssumption
  <2>2. \A l \in Keys : l \in held[p] \/ waiting[p] = l => l \in held'[p]
    BY <1>2, LockAssumption
  <2>3. \A l \in held'[p] : l # k /\ line[l] # <<>> /\ line[l][1] = p
    BY <1>2
  <2>4. held' \in [Procs -> SUBSET Keys] /\ \A q \in Procs : q # p => held'[q] = held[q]
    BY <1>2 DEF LocksTypeOK
  <2>5. QED
    BY <1>1, <1>2, <2>1, <2>2, <2>3, <2>4, ChainKeeps
<1>6. QED
  BY <1>3, <1>4, <1>5 DEF LocksInv

LEMMA StartNextKeeps ==
    ASSUME LocksInv, LocksTypeOK, NEW p \in Procs, StartNext(p)
    PROVE  LocksInv'
<1> DEFINE w == waiting[p]
<1>1. PICK k \in todo[p] : /\ ComesFirst(p, k, todo[p]) /\ Chain(p, k)
                           /\ todo' = [todo EXCEPT ![p] = Rest(@, k)]
  BY DEF StartNext
<1>2. /\ UNCHANGED <<settled, inside>> /\ k \in Keys /\ w \in Keys /\ MyTurn(p, w)
      /\ held' = [held EXCEPT ![p] = @ \cup {w}]
  BY <1>1 DEF StartNext, LocksTypeOK
<1>3. /\ settled[p] = Null /\ ~inside[p] /\ \A l \in held[p] : l < w
      /\ w < k /\ \A l \in todo[p] : w < l
  BY <1>2, LockAssumption DEF LocksInv, Callers
<1>4. held'[p] = held[p] \cup {w} /\ \A q \in Procs : q # p => held'[q] = held[q]
  BY <1>2 DEF LocksTypeOK
<1>5. waiting'[p] = k /\ \A q \in Procs : q # p => waiting'[q] = waiting[q] /\ todo'[q] = todo[q]
  BY <1>1 DEF Chain, LocksTypeOK
<1>6. todo'[p] = todo[p] \ {k} /\ \A l \in todo[p] : k <= l
  BY <1>1 DEF LocksTypeOK, Rest, ComesFirst
<1>n. held[p] \subseteq Nat /\ todo[p] \subseteq Nat /\ w \in Nat /\ k \in Nat
  BY <1>2, LockAssumption DEF LocksTypeOK
<1>o. /\ \A l \in held'[p] : l < k
      /\ \A l \in todo'[p] : k < l
  BY <1>3, <1>4, <1>6, <1>n
<1>7. LocksTypeOK'
  <2>b. Before(k) \in Procs \cup {Null}
    BY <1>2 DEF Before, LocksTypeOK
  <2>1. /\ tail' \in [Keys -> Procs \cup {Null}] /\ prev' \in [Procs -> [Keys -> Procs \cup {Null}]]
        /\ waiting' \in [Procs -> Keys \cup {Null}] /\ line' \in [Keys -> Seq(Procs)]
    BY <1>1, <1>2, <2>b DEF LocksTypeOK, Chain
  <2>2. todo' \in [Procs -> SUBSET Keys]
    BY <1>1 DEF LocksTypeOK, Rest
  <2>3. held' \in [Procs -> SUBSET Keys]
    BY <1>2 DEF LocksTypeOK
  <2>4. \A q \in Procs : waiting'[q] \notin todo'[q] \cup held'[q]
    <3>1. k \notin todo'[p] \cup held'[p]
      BY <1>o, <1>6, <1>n
    <3>2. QED
      BY <3>1, <1>4, <1>5 DEF LocksTypeOK
  <2>5. QED
    BY <1>2, <2>1, <2>2, <2>3, <2>4 DEF LocksTypeOK
<1>8. Callers'
  <2> SUFFICES ASSUME NEW q \in Procs
               PROVE  /\ waiting'[q] # Null => /\ settled[q] = Null /\ ~inside[q]
                                               /\ \A l \in held'[q] : l < waiting'[q]
                                               /\ \A l \in todo'[q] : waiting'[q] < l
                      /\ waiting'[q] = Null => todo'[q] = {}
                      /\ inside[q] => settled[q] = Null
                      /\ settled[q] \notin held'[q]
    BY <1>2 DEF Callers
  <2>1. CASE q = p
    <3>1. Null \notin held'[p]
      BY <1>2, <1>4, LockAssumption DEF LocksTypeOK
    <3>2. QED
      BY <2>1, <3>1, <1>2, <1>3, <1>5, <1>o, LockAssumption
  <2>2. CASE q # p
    BY <2>2, <1>4, <1>5 DEF LocksInv, Callers
  <2>3. QED
    BY <2>1, <2>2
<1>9. OncePerLine' /\ Chained' /\ InLine'
  <2>1. k \notin held[p] /\ w # k
    BY <1>3, <1>n
  <2>2. \A l \in Keys : l \in held[p] \/ w = l => l \in held'[p]
    BY <1>4
  <2>3. \A l \in held'[p] : l # k /\ line[l] # <<>> /\ line[l][1] = p
    <3>1. line[w] # <<>> /\ line[w][1] = p
      BY <1>2, FirstInLine
    <3>2. \A l \in held[p] : line[l] # <<>> /\ line[l][1] = p
      BY DEF LocksInv, InLine
    <3>3. QED
      BY <3>1, <3>2, <2>1, <1>4
  <2>4. held' \in [Procs -> SUBSET Keys]
    BY <1>2 DEF LocksTypeOK
  <2>5. QED
    BY <1>1, <1>2, <1>3, <1>4, <2>1, <2>2, <2>3, <2>4, ChainKeeps
<1>10. QED
  BY <1>7, <1>8, <1>9 DEF LocksInv

LEMMA StartInsideKeeps ==
    ASSUME LocksInv, LocksTypeOK, NEW p \in Procs, StartInside(p)
    PROVE  LocksInv'
<1> DEFINE w == waiting[p]
<1>1. /\ UNCHANGED <<tail, prev, todo, settled, line>> /\ w \in Keys /\ MyTurn(p, w)
      /\ held' = [held EXCEPT ![p] = @ \cup {w}] /\ todo[p] = {}
      /\ waiting' = [waiting EXCEPT ![p] = Null] /\ inside' = [inside EXCEPT ![p] = TRUE]
  BY DEF StartInside, LocksTypeOK
<1>2. /\ held'[p] = held[p] \cup {w} /\ waiting'[p] = Null /\ inside'[p]
      /\ \A q \in Procs : q # p => /\ held'[q] = held[q] /\ waiting'[q] = waiting[q]
                                    /\ inside'[q] = inside[q]
  BY <1>1 DEF LocksTypeOK
<1>3. settled[p] = Null /\ line[w] # <<>> /\ line[w][1] = p
  BY <1>1, FirstInLine, LockAssumption DEF LocksInv, Callers
<1>4. LocksTypeOK'
  <2>1. \A q \in Procs : waiting'[q] \notin todo[q] \cup held'[q]
    BY <1>1, <1>2, LockAssumption DEF LocksTypeOK
  <2>2. /\ held' \in [Procs -> SUBSET Keys] /\ waiting' \in [Procs -> Keys \cup {Null}]
        /\ inside' \in [Procs -> BOOLEAN]
    BY <1>1 DEF LocksTypeOK
  <2>3. QED
    BY <1>1, <2>1, <2>2 DEF LocksTypeOK
<1>5. Callers'
  <2>1. Null \notin held'[p]
    BY <1>1, <1>2, LockAssumption DEF LocksTypeOK
  <2>2. QED
    BY <1>1, <1>2, <1>3, <2>1 DEF LocksInv, Callers
<1>6. OncePerLine'
  <2>1. ASSUME NEW k \in Keys, NEW i \in Places(k)
        PROVE  k \in held'[line[k][i]] \/ waiting'[line[k][i]] = k
    <3>1. line[k][i] \in Procs
      BY DEF LocksTypeOK, Places
    <3>2. k \in held[line[k][i]] \/ waiting[line[k][i]] = k
      BY DEF LocksInv, OncePerLine
    <3>3. QED
      BY <3>1, <3>2, <1>2
  <2>2. QED
    BY <2>1, <1>1 DEF LocksInv, OncePerLine, Places
<1>7. Chained'
  BY <1>1 DEF LocksInv, Chained, Places
<1>8. InLine'
  BY <1>1, <1>2, <1>3 DEF LocksInv, InLine, Places
<1>9. QED
  BY <1>4, <1>5, <1>6, <1>7, <1>8 DEF LocksInv

(* What settling leaves of the shape and of the callers.                   *)
LEMMA SettleShape ==
    ASSUME LocksInv, LocksTypeOK, NEW p \in Procs, NEW k \in held[p], Settle(p, k),
           waiting' = waiting, waiting[p] = Null, todo' = todo,
           tail' \in [Keys -> Procs \cup {Null}],
           inside' = [inside EXCEPT ![p] = FALSE]
    PROVE  LocksTypeOK' /\ Callers'
<1>1. k \in Keys /\ line[k] # <<>>
  BY DEF LocksTypeOK, LocksInv, InLine
<1>2. /\ held'[p] = held[p] \ {k} /\ \A q \in Procs : q # p => held'[q] = held[q]
      /\ settled'[p] = k /\ \A q \in Procs : q # p => settled'[q] = settled[q]
      /\ ~inside'[p] /\ \A q \in Procs : q # p => inside'[q] = inside[q]
  BY <1>1 DEF Settle, LocksTypeOK
<1>3. LocksTypeOK'
  <2>1. line' \in [Keys -> Seq(Procs)]
    BY <1>1 DEF Settle, LocksTypeOK
  <2>2. prev' \in [Procs -> [Keys -> Procs \cup {Null}]]
    BY <1>1 DEF Settle, LocksTypeOK
  <2>3. /\ held' \in [Procs -> SUBSET Keys] /\ settled' \in [Procs -> Keys \cup {Null}]
        /\ inside' \in [Procs -> BOOLEAN]
    BY <1>1 DEF Settle, LocksTypeOK
  <2>4. \A q \in Procs : waiting[q] \notin todo[q] \cup held'[q]
    BY <1>2 DEF LocksTypeOK
  <2>5. QED
    BY <2>1, <2>2, <2>3, <2>4 DEF LocksTypeOK
<1>4. Callers'
  BY <1>2 DEF LocksInv, Callers
<1>5. QED
  BY <1>3, <1>4

LEMMA ReturnKeeps ==
    ASSUME LocksInv, LocksTypeOK, NEW p \in Procs, Return(p)
    PROVE  LocksInv'
<1>1. PICK k \in held[p] : Settle(p, k)
  BY DEF Return, SettleInnermost
<1>2. /\ UNCHANGED <<tail, todo, waiting>> /\ inside' = [inside EXCEPT ![p] = FALSE]
      /\ waiting[p] = Null /\ settled[p] = Null
  BY DEF Return, LocksInv, Callers
<1>3. /\ tail' \in [Keys -> Procs \cup {Null}]
      /\ \A l \in Keys : \/ tail'[l] = tail[l] /\ (settled[p] = l => tail[l] # p)
                         \/ settled[p] = l /\ tail[l] = p /\ tail'[l] = Null
  BY <1>2, LockAssumption DEF LocksTypeOK
<1>w. waiting' = waiting /\ todo' = todo
  BY <1>2
<1>4. OncePerLine' /\ Chained' /\ InLine'
  BY ONLY LocksInv, LocksTypeOK, <1>1, <1>2, <1>3, <1>w, SettleKeeps
<1>5. LocksTypeOK' /\ Callers'
  BY ONLY LocksInv, LocksTypeOK, <1>1, <1>2, <1>3, <1>w, SettleShape
<1>6. QED
  BY <1>4, <1>5 DEF LocksInv

LEMMA FinallyKeeps ==
    ASSUME LocksInv, LocksTypeOK, NEW p \in Procs, Finally(p)
    PROVE  LocksInv'
<1>1. /\ settled[p] \in Keys /\ tail' = Forgotten(p, settled[p])
      /\ UNCHANGED <<todo, waiting, inside>>
  BY DEF Finally, LocksTypeOK
<1>2. waiting[p] = Null /\ ~inside[p]
  BY <1>1, LockAssumption DEF LocksInv, Callers, LocksTypeOK
<1>3. /\ tail' \in [Keys -> Procs \cup {Null}]
      /\ \A l \in Keys : \/ tail'[l] = tail[l] /\ (settled[p] = l => tail[l] # p)
                         \/ settled[p] = l /\ tail[l] = p /\ tail'[l] = Null
  BY <1>1 DEF LocksTypeOK, Forgotten
<1>w. waiting' = waiting /\ todo' = todo
  BY <1>1
<1>4. CASE SettleInnermost(p)
  <2>1. PICK k \in held[p] : Settle(p, k)
    BY <1>4 DEF SettleInnermost
  <2>2. inside' = [inside EXCEPT ![p] = FALSE]
    BY <1>1, <1>2 DEF LocksTypeOK
  <2>3. OncePerLine' /\ Chained' /\ InLine'
    BY ONLY LocksInv, LocksTypeOK, <2>1, <1>2, <1>3, <1>w, SettleKeeps
  <2>4. LocksTypeOK' /\ Callers'
    BY ONLY LocksInv, LocksTypeOK, <2>1, <2>2, <1>2, <1>3, <1>w, SettleShape
  <2>5. QED
    BY <2>3, <2>4 DEF LocksInv
<1>5. CASE /\ held[p] = {} /\ settled' = [settled EXCEPT ![p] = Null]
           /\ UNCHANGED <<held, prev, line>>
  <2>1. LocksTypeOK'
    BY <1>1, <1>3, <1>5 DEF LocksTypeOK
  <2>s. settled'[p] = Null /\ \A q \in Procs : q # p => settled'[q] = settled[q]
    BY <1>5 DEF LocksTypeOK
  <2>2. Callers'
    BY <1>1, <1>5, <2>s DEF LocksInv, Callers
  <2>3. OncePerLine' /\ InLine'
    BY <1>1, <1>5 DEF LocksInv, OncePerLine, InLine, Places
  <2>4. Chained'
    <3> SUFFICES ASSUME NEW l \in Keys
                 PROVE  /\ \A i \in Places(l) : i > 1 => prev[line[l][i]][l] = line[l][i - 1]
                        /\ line[l] # <<>> => tail'[l] = line[l][Len(line[l])]
                        /\ line[l] = <<>> => tail'[l] = Null \/ settled'[tail'[l]] = l
      BY <1>5 DEF Chained, Places
    <3>1. /\ \A i \in Places(l) : i > 1 => prev[line[l][i]][l] = line[l][i - 1]
          /\ line[l] # <<>> => tail[l] = line[l][Len(line[l])]
          /\ line[l] = <<>> => tail[l] = Null \/ settled[tail[l]] = l
      BY DEF LocksInv, Chained
    <3>2. line[l] # <<>> => Len(line[l]) \in Places(l)
      BY DEF LocksTypeOK, Places
    <3>3. ASSUME line[l] # <<>>
          PROVE  tail'[l] = tail[l]
      <4>1. settled[p] = l => tail[l] # p
        BY <3>1, <3>2, <3>3, SettledLeft
      <4>2. QED
        BY <4>1, <1>3
    <3>4. ASSUME line[l] = <<>>
          PROVE  tail'[l] = Null \/ settled'[tail'[l]] = l
      <4>1. CASE tail[l] = p
        BY <3>1, <3>4, <4>1, <1>3, LockAssumption
      <4>2. CASE tail[l] # p
        <5>1. tail'[l] = tail[l]
          BY <4>2, <1>3
        <5>2. tail[l] = Null \/ tail[l] \in Procs
          BY DEF LocksTypeOK
        <5>3. QED
          BY <5>1, <5>2, <4>2, <3>1, <3>4, <2>s
      <4>3. QED
        BY <4>1, <4>2
    <3>5. QED
      BY <3>1, <3>3, <3>4
  <2>5. QED
    BY <2>1, <2>2, <2>3, <2>4 DEF LocksInv
<1>6. QED
  BY <1>4, <1>5 DEF Finally

LEMMA StutterKeeps == LocksInv /\ UNCHANGED lockVars => LocksInv'
  BY DEF LocksInv, lockVars, LocksTypeOK, Callers, OncePerLine, Chained, InLine, Places

(* The chains are always in order: the invariant the other theorems rest   *)
(* on.                                                                     *)
THEOREM ChainsInOrder == LocksSpec => []LocksInv
<1>1. LocksInv /\ [LocksNext]_lockVars => LocksInv'
  <2> SUFFICES ASSUME LocksInv, [LocksNext]_lockVars
               PROVE  LocksInv'
    OBVIOUS
  <2> USE DEF LocksInv
  <2>t. LocksTypeOK
    OBVIOUS
  <2>1. ASSUME NEW p \in Procs, Step(p)
        PROVE  LocksInv'
    BY ONLY <2>1, <2>t, LocksInv, StartNextKeeps, StartInsideKeeps, ReturnKeeps, FinallyKeeps
    DEF Step
  <2>2. ASSUME NEW p \in Procs, NEW keys \in SUBSET Keys, Call(p, keys)
        PROVE  LocksInv'
    BY ONLY <2>2, <2>t, LocksInv, CallKeeps
  <2>3. CASE UNCHANGED lockVars
    BY ONLY <2>3, LocksInv, StutterKeeps
  <2>4. QED
    BY ONLY <2>1, <2>2, <2>3, [LocksNext]_lockVars DEF LocksNext
<1>2. QED
  BY InitHolds, <1>1, PTL DEF LocksSpec

(* The state keeps its shape for any callers and keys.                     *)
THEOREM LocksTypeCorrect == LocksSpec => []LocksTypeOK
  BY ChainsInOrder, PTL DEF LocksInv

(* withFileLock: two callers never run under the same key.                 *)
THEOREM Exclusive == LocksSpec => []MutualExclusion
<1>1. LocksInv => MutualExclusion
  BY DEF LocksInv, InLine, MutualExclusion
<1>2. QED
  BY <1>1, ChainsInOrder, PTL

(* withMultiFileLock: a caller that waits holds smaller keys only.         *)
THEOREM Ordered == LocksSpec => []OrderedWaits
<1>1. LocksInv => OrderedWaits
  BY DEF LocksInv, Callers, OrderedWaits
<1>2. QED
  BY <1>1, ChainsInOrder, PTL

(* AsyncLock.run: the map is empty once everybody has left.                *)
THEOREM Forgetful == LocksSpec => []NoLeak
<1>1. LocksInv => NoLeak
  <2> SUFFICES ASSUME LocksInv, \A p \in Procs : Idle(p), NEW k \in Keys
               PROVE  tail[k] = Null
    BY DEF NoLeak
  <2>1. \A p \in Procs : waiting[p] = Null /\ held[p] = {} /\ settled[p] = Null
    BY DEF Idle
  <2>2. line[k] = <<>>
    <3>1. SUFFICES ASSUME line[k] # <<>>
                   PROVE  FALSE
      OBVIOUS
    <3>2. 1 \in Places(k) /\ line[k][1] \in Procs
      BY <3>1 DEF LocksInv, LocksTypeOK, Places
    <3>3. k \in held[line[k][1]] \/ waiting[line[k][1]] = k
      BY <3>2 DEF LocksInv, OncePerLine
    <3>4. QED
      BY <3>2, <3>3, <2>1, LockAssumption
  <2>3. tail[k] = Null \/ settled[tail[k]] = k
    BY <2>2 DEF LocksInv, Chained
  <2>4. tail[k] \in Procs \cup {Null}
    BY DEF LocksInv, LocksTypeOK
  <2>5. QED
    BY <2>1, <2>3, <2>4, LockAssumption
<1>2. QED
  BY <1>1, ChainsInOrder, PTL

(* A key goes to the caller that has waited longest.                       *)
THEOREM InOrder == LocksSpec => FirstComeFirstServed
<1>1. LocksInv /\ [LocksNext]_lockVars =>
          [\A p \in Procs : \A k \in held'[p] \ held[p] : Head(line[k]) = p]_lockVars
  <2> SUFFICES ASSUME LocksInv, LocksNext, NEW q \in Procs, NEW k \in held'[q] \ held[q]
               PROVE  Head(line[k]) = q
    OBVIOUS
  <2>t. LocksTypeOK
    BY DEF LocksInv
  <2>1. ASSUME NEW p \in Procs, StartNext(p) \/ StartInside(p)
        PROVE  Head(line[k]) = q
    <3>1. /\ held' = [held EXCEPT ![p] = @ \cup {waiting[p]}] /\ waiting[p] \in Keys
          /\ MyTurn(p, waiting[p])
      BY <2>1, <2>t DEF StartNext, StartInside, LocksTypeOK
    <3>2. q = p /\ k = waiting[p]
      BY <3>1, <2>t DEF LocksTypeOK
    <3>3. line[k] # <<>> /\ line[k][1] = p /\ k \in Keys
      BY <3>1, <3>2, FirstInLine
    <3>4. QED
      BY <3>2, <3>3, <2>t DEF LocksTypeOK
  <2>2. ASSUME NEW p \in Procs, Return(p) \/ Finally(p)
        PROVE  FALSE
    <3>1. held' = held \/ \E l \in held[p] : held' = [held EXCEPT ![p] = @ \ {l}]
      BY <2>2 DEF Return, Finally, SettleInnermost, Settle
    <3>2. QED
      BY <3>1, <2>t DEF LocksTypeOK
  <2>3. ASSUME NEW p \in Procs, NEW keys \in SUBSET Keys, Call(p, keys)
        PROVE  FALSE
    BY <2>3 DEF Call
  <2>4. QED
    BY <2>1, <2>2, <2>3 DEF LocksNext, Step
<1>2. QED
  BY <1>1, ChainsInOrder, PTL DEF LocksSpec, FirstComeFirstServed

(* How the queues see a step of the locks.                                 *)
LEMMA HeadHas ==
    ASSUME LocksInv, NEW k \in Keys, NEW p \in Procs, k \in held[p]
    PROVE  Having[k] = {p} /\ line[k] # <<>> /\ Head(line[k]) = p
<1>1. \A q \in Procs : k \in held[q] => line[k] # <<>> /\ line[k][1] = q
  BY DEF LocksInv, InLine
<1>2. line[k] \in Seq(Procs)
  BY DEF LocksInv, LocksTypeOK
<1> QED BY <1>1, <1>2 DEF Having

LEMMA NotAsked ==
    ASSUME LocksInv, NEW k \in Keys, NEW p \in Procs, k \notin held[p], waiting[p] # k
    PROVE  p \notin Queues!Asked(k)
  BY DEF LocksInv, LocksTypeOK, OncePerLine, Places, Queues!Asked

LEMMA QueueTakes ==
    ASSUME LocksInv, NEW p \in Procs, NEW k \in Keys, waiting[p] = k, MyTurn(p, k),
           held' = [held EXCEPT ![p] = @ \cup {k}]
    PROVE  Queues!MayTake(p, k) /\ Having' = [Having EXCEPT ![k] = {p}]
<1>1. line[k] # <<>> /\ Head(line[k]) = p
  BY FirstInLine DEF LocksInv, LocksTypeOK
<1>2. Having[k] = {}
  <2> SUFFICES ASSUME NEW q \in Procs, k \in held[q] PROVE FALSE
    BY DEF Having
  <2>1. q = p
    BY <1>1, HeadHas
  <2> QED BY <2>1 DEF LocksInv, LocksTypeOK
<1>3. \A l \in Keys : Having'[l] = IF l = k THEN {p} ELSE Having[l]
  <2>1. \A q \in Procs : k \notin held[q]
    BY <1>2 DEF Having
  <2>2. held \in [Procs -> SUBSET Keys]
    BY DEF LocksInv, LocksTypeOK
  <2> QED BY <2>1, <2>2 DEF Having
<1>4. Having' = [Having EXCEPT ![k] = {p}]
  BY <1>3 DEF Having
<1> QED BY <1>1, <1>2, <1>4 DEF Queues!MayTake

LEMMA QueueLeaves ==
    ASSUME LocksInv, NEW p \in Procs, SettleInnermost(p)
    PROVE  \E k \in Keys : Queues!Leave(p, k)
<1>0. held \in [Procs -> SUBSET Keys]
  BY DEF LocksInv, LocksTypeOK
<1>1. PICK k \in held[p] : Settle(p, k)
  BY DEF SettleInnermost
<1>2. Having[k] = {p} /\ k \in Keys
  BY <1>0, HeadHas
<1>3. \A l \in Keys : Having'[l] = IF l = k THEN {} ELSE Having[l]
  <2>1. \A q \in Procs : q # p => k \notin held[q]
    BY <1>2 DEF Having
  <2> QED BY <1>0, <1>1, <2>1 DEF Having, Settle
<1>4. Having' = [Having EXCEPT ![k] = {}]
  BY <1>3 DEF Having
<1> QED BY <1>1, <1>2, <1>4 DEF Queues!Leave, Settle

LEMMA QueueStep ==
    LocksInv /\ [LocksNext]_lockVars => [Queues!QueuesNext]_(Queues!queues)
<1> SUFFICES ASSUME LocksInv, [LocksNext]_lockVars
             PROVE  Queues!QueuesNext \/ (line' = line /\ Having' = Having)
  BY DEF Queues!queues
<1>0. /\ held \in [Procs -> SUBSET Keys] /\ waiting \in [Procs -> Keys \cup {Null}]
      /\ todo \in [Procs -> SUBSET Keys]
  BY DEF LocksInv, LocksTypeOK
<1>1. ASSUME NEW p \in Procs, NEW keys \in SUBSET Keys, Call(p, keys)
      PROVE  Queues!QueuesNext
  <2>1. PICK k \in keys : Chain(p, k)
    BY <1>1 DEF Call
  <2>2. k \notin held[p] /\ waiting[p] # k /\ Having' = Having
    BY <1>1, LockAssumption DEF Call, Idle, Having
  <2>3. Queues!Ask(p, k)
    BY <2>1, <2>2, NotAsked DEF Queues!Ask, Chain
  <2> QED BY <2>3 DEF Queues!QueuesNext
<1>2. ASSUME NEW p \in Procs, StartNext(p) PROVE Queues!QueuesNext
  <2> DEFINE k == waiting[p]
  <2>1. k \in Keys /\ MyTurn(p, k) /\ held' = [held EXCEPT ![p] = @ \cup {k}]
    BY <1>0, <1>2 DEF StartNext
  <2>2. PICK l \in todo[p] : Chain(p, l)
    BY <1>2 DEF StartNext
  <2>3. l \in Keys /\ k < l /\ k \in Nat
    BY <1>0, <2>1, LockAssumption DEF LocksInv, Callers
  <2>4. k # l /\ l \notin held[p]
    <3>1. \A h \in held[p] : h < k /\ h \in Nat
      BY <1>0, <2>1, LockAssumption DEF LocksInv, Callers
    <3> QED BY <2>3, <3>1, LockAssumption
  <2>5. Queues!TakeAndAsk(p, k, l)
    BY <2>1, <2>2, <2>3, <2>4, QueueTakes, NotAsked DEF Queues!TakeAndAsk, Chain
  <2> QED BY <2>1, <2>3, <2>5 DEF Queues!QueuesNext
<1>3. ASSUME NEW p \in Procs, StartInside(p) PROVE Queues!QueuesNext
  <2> DEFINE k == waiting[p]
  <2>1. /\ k \in Keys /\ MyTurn(p, k) /\ held' = [held EXCEPT ![p] = @ \cup {k}]
        /\ line' = line
    BY <1>0, <1>3 DEF StartInside
  <2>2. Queues!Take(p, k)
    BY <2>1, QueueTakes DEF Queues!Take
  <2> QED BY <2>1, <2>2 DEF Queues!QueuesNext
<1>4. ASSUME NEW p \in Procs, SettleInnermost(p) PROVE Queues!QueuesNext
  BY <1>4, QueueLeaves DEF Queues!QueuesNext
<1>5. ASSUME NEW p \in Procs, Return(p) \/ Finally(p)
      PROVE  SettleInnermost(p) \/ (line' = line /\ Having' = Having)
  BY <1>5 DEF Return, Finally, Having
<1>6. CASE UNCHANGED lockVars
  BY <1>6 DEF lockVars, Having
<1> QED BY <1>1, <1>2, <1>3, <1>4, <1>5, <1>6 DEF LocksNext, Step

(* AsyncLock.run, withMultiFileLock: the promises implement a queue for    *)
(* each key, with one user at most, that is served in order.               *)
THEOREM QueueRefinement == LocksSpec => ImplementsQueues
<1>1. LocksInit => Queues!QueuesInit
  BY DEF LocksInit, Having, Queues!QueuesInit
<1> QED BY <1>1, QueueStep, ChainsInOrder, PTL DEF LocksSpec, ImplementsQueues, Queues!QueuesSpec

-----------------------------------------------------------------------------
(* The edits of a file                                                     *)

(* The constants, as the proofs need them.                                 *)
LEMMA Disjoint ==
    /\ Edits \cap Appends = {} /\ Lockers \cap Apps = {}
    /\ None \notin Lockers /\ None \notin Users /\ MaxFaults \in Nat
    /\ None \notin Buttons /\ None \notin Answers /\ None \notin Outcomes
  BY EditsAssumption DEF Marks

(* An answer changes its own call only.                                    *)
LEMMA AnswerFacts ==
    ASSUME IInv, NEW e \in Edits, NEW text \in Answers \ {"applied"}, Answer(e, text)
    PROVE /\ pc' = [pc EXCEPT ![e] = "done"] /\ faults' \in 0 .. MaxFaults
          /\ told' \in [Edits -> Answers \cup {None}]
          /\ told'[e] # "applied" \/ told'[e] = told[e]
          /\ \A f \in Edits \ {e} : told'[f] = told[f]
          /\ faults' = 0 => faults = 0 /\ told'[e] # None
<1>1. text \in Answers /\ text # "applied"
  OBVIOUS
<1>2. faults' \in 0 .. MaxFaults /\ (faults' = 0 => faults = 0)
  BY Disjoint DEF Answer, Fault, IInv, TypeOK, OutcomeOK
<1>3. \/ told' = [told EXCEPT ![e] = text]
      \/ told' = told /\ faults' = faults + 1
  BY DEF Answer, Fault
<1>4. text # None /\ faults \in Nat
  BY Disjoint DEF IInv, TypeOK, OutcomeOK
<1> QED BY <1>1, <1>2, <1>3, <1>4 DEF Answer, Goto, IInv, TypeOK, TalkOK

(* A call that answers leaves no press in time unanswered.                 *)
LEMMA AnswerPress ==
    ASSUME IInv, NEW e \in Edits, NEW text \in Answers, Answer(e, text),
           UNCHANGED <<tap, inTime>>
    PROVE PressInv'
<1> SUFFICES ASSUME ~Sequential, NEW f \in inTime
             PROVE  /\ tap[f] # None
                    /\ pc'[f] \in {"offer", "choice", "lock", "look", "write", "record", "done"}
                    /\ pc'[f] = "done" /\ faults' = 0 => told'[f] # None
  BY DEF PressInv
<1>1. f \in Edits /\ text # None /\ faults \in Nat
  BY Disjoint DEF IInv, TypeOK, TalkOK, OutcomeOK
<1>2. CASE f = e
  BY <1>1, <1>2 DEF Answer, Fault, Goto, PressInv, IInv, TypeOK, PlacesOK, TalkOK, Marks,
     Lockers
<1>3. CASE f # e
  <2>1. pc'[f] = pc[f] /\ told'[f] = told[f]
    BY <1>1, <1>3 DEF Answer, Goto, IInv, TypeOK, PlacesOK, TalkOK, Marks, Lockers
  <2>2. faults' = 0 => faults = 0
    BY <1>1 DEF Answer, Fault
  <2> QED BY <2>1, <2>2 DEF PressInv, IInv
<1> QED BY <1>2, <1>3

(* The command arrives.                                                    *)
LEMMA CommandKeeps == ASSUME IInv, NEW e \in Edits, Command(e) PROVE IInv'
<1>1. PlacesOK'
  BY Disjoint DEF IInv, Command, Goto, fileVars, talkVars, Lockers, Marks,
       PlacesOK, TypeOK, EditPlaces, AppendPlaces
<1>2. TalkOK'
  <2>1. user' \in [Edits -> Users \cup {None}] /\ user'[e] \in Users
    BY DEF Command, IInv, TypeOK, TalkOK
  <2>2. \A f \in Edits \ {e} : user'[f] = user[f] /\ pc'[f] = pc[f]
    BY DEF Command, Goto, IInv, TypeOK, TalkOK, PlacesOK, Lockers, Marks
  <2>3. \A f \in Edits : pc'[f] # "idle" => user'[f] \in Users
    BY <2>1, <2>2 DEF IInv, TypeOK, TalkOK
  <2> QED BY <2>1, <2>3 DEF Command, talkVars, IInv, TypeOK, TalkOK
<1>3. LockInv'
  BY Disjoint DEF IInv, Command, Goto, fileVars, talkVars, Lockers, Marks, LockInv,
       TypeOK, PlacesOK, FileOK
<1>4. LookInv'
  BY Disjoint DEF IInv, Command, Goto, fileVars, talkVars, Lockers, Marks, LookInv,
       TypeOK, PlacesOK, FileOK, LockInv, AbsentInv, Missed
<1>5. SlotInv'
  BY Disjoint DEF IInv, Command, Goto, fileVars, talkVars, Lockers, Marks, SlotInv,
       OnScreen,
       TypeOK, PlacesOK, TalkOK, ShownInv
<1>6. ShownInv'
  BY Disjoint DEF IInv, Command, Goto, fileVars, talkVars, Lockers, Marks,
       ShownInv, TypeOK, PlacesOK, TalkOK, SlotInv
<1>7. DoneInv'
  BY Disjoint DEF IInv, Command, Goto, fileVars, talkVars, Lockers, Marks, DoneInv,
       TypeOK, PlacesOK, TalkOK, OutcomeOK
<1>8. PressInv'
  BY Disjoint DEF IInv, Command, Goto, fileVars, talkVars, Lockers, Marks,
       PressInv, TypeOK, PlacesOK, TalkOK, OutcomeOK, DoneInv
<1>9. OnlyNewestApplied'
  BY Disjoint DEF IInv, Command, Goto, fileVars, talkVars, Lockers, Marks,
       OnlyNewestApplied, TypeOK, PlacesOK, TalkOK, ShownInv, DoneInv
<1>10. AnswersTrue'
  BY Disjoint DEF IInv, Command, Goto, fileVars, talkVars, Lockers, Marks,
       AnswersTrue, TypeOK, PlacesOK, Outcomes, TalkOK, OutcomeOK, DoneInv, Running
<1>11. FileOK' /\ OutcomeOK' /\ AbsentInv' /\ NoSilentOverwrite'
  BY DEF IInv, TypeOK, Command, fileVars, talkVars, FileOK, OutcomeOK, AbsentInv,
       NoSilentOverwrite
<1> QED BY <1>1, <1>2, <1>3, <1>4, <1>5, <1>6, <1>7, <1>8, <1>9, <1>10, <1>11 DEF IInv, TypeOK

(* It is refused.                                                          *)
LEMMA RefuseKeeps == ASSUME IInv, NEW e \in Edits, Refuse(e) PROVE IInv'
<1>1. PlacesOK'
  BY Disjoint DEF IInv, Refuse, Answer, Fault, Goto, fileVars, talkVars, Lockers,
       Marks, PlacesOK, TypeOK, EditPlaces, AppendPlaces
<1>2. TalkOK'
  BY Disjoint DEF IInv, Refuse, Answer, Fault, Goto, fileVars, talkVars, Lockers,
       Marks, TalkOK, TypeOK, PlacesOK, Answers
<1>3. OutcomeOK'
  BY Disjoint DEF IInv, Refuse, Answer, Fault, Goto, fileVars, talkVars, Lockers,
       Marks, OutcomeOK, TypeOK, Outcomes
<1>4. LockInv'
  BY Disjoint DEF IInv, Refuse, Answer, Fault, Goto, fileVars, talkVars, Lockers,
       Marks, LockInv, TypeOK, PlacesOK, FileOK
<1>5. LookInv'
  BY Disjoint DEF IInv, Refuse, Answer, Fault, Goto, fileVars, talkVars, Lockers,
       Marks, LookInv, TypeOK, PlacesOK, FileOK, LockInv, AbsentInv, Missed
<1>6. SlotInv'
  BY Disjoint DEF IInv, Refuse, Answer, Fault, Goto, fileVars, talkVars, Lockers,
       Marks, SlotInv, OnScreen, TypeOK, PlacesOK, TalkOK, ShownInv
<1>7. ShownInv'
  BY Disjoint DEF IInv, Refuse, Answer, Fault, Goto, fileVars, talkVars, Lockers,
       Marks, ShownInv, TypeOK, PlacesOK, TalkOK, SlotInv
<1>8. DoneInv'
  BY Disjoint DEF IInv, Refuse, Answer, Fault, Goto, fileVars, talkVars, Lockers,
       Marks, DoneInv, TypeOK, PlacesOK, TalkOK, OutcomeOK
<1>9. PressInv'
  BY AnswerPress DEF Refuse, Answers
<1>10. OnlyNewestApplied'
  BY Disjoint DEF IInv, Refuse, Answer, Fault, Goto, fileVars, talkVars, Lockers,
       Marks, OnlyNewestApplied, TypeOK, PlacesOK, TalkOK, ShownInv, DoneInv
<1>11. AnswersTrue'
  BY Disjoint DEF IInv, Refuse, Answer, Fault, Goto, fileVars, talkVars, Lockers,
       Marks, AnswersTrue, TypeOK, PlacesOK, Outcomes, TalkOK, OutcomeOK, DoneInv,
       Running
<1>12. FileOK' /\ AbsentInv' /\ NoSilentOverwrite'
  BY DEF IInv, TypeOK, Refuse, Answer, Fault, fileVars, talkVars, FileOK,
       AbsentInv, NoSilentOverwrite
<1> QED BY <1>1, <1>2, <1>3, <1>4, <1>5, <1>6, <1>7, <1>8, <1>9, <1>10, <1>11,
     <1>12 DEF IInv, TypeOK

(* The file is read.                                                       *)
LEMMA ReadBeforeKeeps == ASSUME IInv, NEW e \in Edits, ReadBefore(e) PROVE IInv'
<1>1. PlacesOK'
  BY Disjoint DEF IInv, ReadBefore, Goto, fileVars, talkVars, Lockers, Marks,
       PlacesOK, TypeOK, EditPlaces, AppendPlaces
<1>2. FileOK'
  BY Disjoint DEF IInv, ReadBefore, Goto, fileVars, talkVars, Lockers, Marks,
       FileOK, TypeOK
<1>3. TalkOK'
  BY Disjoint DEF IInv, ReadBefore, Goto, fileVars, talkVars, Lockers, Marks,
       TalkOK, TypeOK, PlacesOK, Answers
<1>4. LockInv'
  BY Disjoint DEF IInv, ReadBefore, Goto, fileVars, talkVars, Lockers, Marks,
       LockInv, TypeOK, PlacesOK, FileOK
<1>5. LookInv'
  BY Disjoint DEF IInv, ReadBefore, Goto, fileVars, talkVars, Lockers, Marks,
       LookInv, TypeOK, PlacesOK, FileOK, LockInv, AbsentInv, Missed
<1>6. SlotInv'
  BY Disjoint DEF IInv, ReadBefore, Goto, fileVars, talkVars, Lockers, Marks,
       SlotInv, OnScreen, TypeOK, PlacesOK, TalkOK, ShownInv
<1>7. ShownInv'
  BY Disjoint DEF IInv, ReadBefore, Goto, fileVars, talkVars, Lockers, Marks,
       ShownInv, TypeOK, PlacesOK, TalkOK, SlotInv
<1>8. DoneInv'
  BY Disjoint DEF IInv, ReadBefore, Goto, fileVars, talkVars, Lockers, Marks,
       DoneInv, TypeOK, PlacesOK, TalkOK, OutcomeOK
<1>9. PressInv'
  BY Disjoint DEF IInv, ReadBefore, Goto, fileVars, talkVars, Lockers, Marks,
       PressInv, TypeOK, PlacesOK, TalkOK, OutcomeOK, DoneInv
<1>10. OnlyNewestApplied'
  BY Disjoint DEF IInv, ReadBefore, Goto, fileVars, talkVars, Lockers, Marks,
       OnlyNewestApplied, TypeOK, PlacesOK, TalkOK, ShownInv, DoneInv
<1>11. AnswersTrue'
  BY Disjoint DEF IInv, ReadBefore, Goto, fileVars, talkVars, Lockers, Marks,
       AnswersTrue, TypeOK, PlacesOK, Outcomes, TalkOK, OutcomeOK, DoneInv, Running
<1>12. OutcomeOK' /\ AbsentInv' /\ NoSilentOverwrite'
  BY DEF IInv, TypeOK, ReadBefore, fileVars, talkVars, OutcomeOK, AbsentInv,
       NoSilentOverwrite
<1> QED BY <1>1, <1>2, <1>3, <1>4, <1>5, <1>6, <1>7, <1>8, <1>9, <1>10, <1>11,
     <1>12 DEF IInv, TypeOK

(* The proposal takes the slot: its predecessor there is superseded.       *)
LEMMA GenerateKeeps == ASSUME IInv, NEW e \in Edits, Generate(e) PROVE IInv'
<1>1. PlacesOK'
  BY Disjoint DEF IInv, Generate, Rewrites, Outstanding, OnScreen, Goto, fileVars,
       talkVars,
       Lockers, Marks, PlacesOK, TypeOK, EditPlaces, AppendPlaces
<1>2. FileOK'
  BY Disjoint DEF IInv, Generate, Rewrites, Outstanding, OnScreen, Goto, fileVars,
       talkVars,
       Lockers, Marks, FileOK, TypeOK
<1>3. TalkOK'
  BY Disjoint DEF IInv, Generate, Rewrites, Outstanding, OnScreen, Goto, fileVars,
       talkVars,
       Lockers, Marks, TalkOK, TypeOK, PlacesOK, Answers
<1>4. LockInv'
  BY Disjoint DEF IInv, Generate, Rewrites, Outstanding, OnScreen, Goto, fileVars,
       talkVars,
       Lockers, Marks, LockInv, TypeOK, PlacesOK, FileOK
<1>5. LookInv'
  BY Disjoint DEF IInv, Generate, Rewrites, Outstanding, OnScreen, Goto, fileVars,
       talkVars,
       Lockers, Marks, LookInv, TypeOK, PlacesOK, FileOK, LockInv, AbsentInv,
       Missed
<1>6. SlotInv'
  BY Disjoint DEF IInv, Generate, Rewrites, Outstanding, OnScreen, Goto, fileVars,
       talkVars,
       Lockers, Marks, SlotInv, OnScreen, TypeOK, PlacesOK, TalkOK, ShownInv
<1>7. ShownInv'
  BY Disjoint DEF IInv, Generate, Rewrites, Outstanding, OnScreen, Goto, fileVars,
       talkVars,
       Lockers, Marks, ShownInv, TypeOK, PlacesOK, TalkOK, SlotInv
<1>8. DoneInv'
  BY Disjoint DEF IInv, Generate, Rewrites, Outstanding, OnScreen, Goto, fileVars,
       talkVars,
       Lockers, Marks, DoneInv, TypeOK, PlacesOK, TalkOK, OutcomeOK
<1>9. PressInv'
  BY Disjoint DEF IInv, Generate, Rewrites, Outstanding, OnScreen, Goto, fileVars,
       talkVars,
       Lockers, Marks, PressInv, TypeOK, PlacesOK, TalkOK, OutcomeOK, DoneInv
<1>10. OnlyNewestApplied'
  BY Disjoint DEF IInv, Generate, Rewrites, Outstanding, OnScreen, Goto, fileVars,
       talkVars,
       Lockers, Marks, OnlyNewestApplied, TypeOK, PlacesOK, TalkOK, ShownInv,
       DoneInv
<1>11. AnswersTrue'
  BY Disjoint DEF IInv, Generate, Rewrites, Outstanding, OnScreen, Goto, fileVars,
       talkVars,
       Lockers, Marks, AnswersTrue, TypeOK, PlacesOK, Outcomes, TalkOK, OutcomeOK,
       DoneInv, Running
<1>12. OutcomeOK' /\ AbsentInv' /\ NoSilentOverwrite'
  BY DEF IInv, TypeOK, Generate, fileVars, talkVars, OutcomeOK, AbsentInv,
       NoSilentOverwrite
<1> QED BY <1>1, <1>2, <1>3, <1>4, <1>5, <1>6, <1>7, <1>8, <1>9, <1>10, <1>11,
     <1>12 DEF IInv, TypeOK

(* A button is pressed.                                                    *)
LEMMA TapKeeps == ASSUME IInv, NEW e \in Edits, NEW button \in Buttons,
    Tap(e, button) PROVE IInv'
<1>1. TalkOK'
  BY Disjoint DEF IInv, Tap, OnScreen, Goto, fileVars, talkVars, Lockers, Marks, TalkOK,
       TypeOK, PlacesOK, Answers
<1>2. ShownInv'
  BY Disjoint DEF IInv, Tap, OnScreen, Goto, fileVars, talkVars, Lockers, Marks,
       ShownInv,
       TypeOK, PlacesOK, TalkOK, SlotInv
<1>3. PressInv'
  BY Disjoint DEF IInv, Tap, OnScreen, Goto, fileVars, talkVars, Lockers, Marks,
       PressInv,
       TypeOK, PlacesOK, TalkOK, OutcomeOK, DoneInv
<1>4. OnlyNewestApplied'
  BY Disjoint DEF IInv, Tap, OnScreen, Goto, fileVars, talkVars, Lockers, Marks,
       OnlyNewestApplied, TypeOK, PlacesOK, TalkOK, ShownInv, DoneInv
<1>5. PlacesOK' /\ FileOK' /\ OutcomeOK' /\ LockInv' /\ AbsentInv' /\
      LookInv' /\ SlotInv' /\ DoneInv' /\ NoSilentOverwrite' /\ AnswersTrue'
  BY DEF IInv, TypeOK, Tap, fileVars, talkVars, PlacesOK, AppendPlaces, EditPlaces,
       FileOK, OutcomeOK, LockInv, AbsentInv, LookInv, Missed, SlotInv, OnScreen,
       DoneInv,
       NoSilentOverwrite, AnswersTrue, Running
<1> QED BY <1>1, <1>2, <1>3, <1>4, <1>5 DEF IInv, TypeOK

(* A press that comes too early is dropped.                                *)
LEMMA DropPressKeeps == ASSUME IInv, NEW e \in Edits, DropPress(e) PROVE IInv'
<1>1. TalkOK'
  BY Disjoint DEF IInv, DropPress, Goto, fileVars, talkVars, Lockers, Marks, TalkOK,
       TypeOK, PlacesOK, Answers
<1>2. ShownInv'
  BY Disjoint DEF IInv, DropPress, Goto, fileVars, talkVars, Lockers, Marks, ShownInv,
       TypeOK, PlacesOK, TalkOK, SlotInv
<1>3. PressInv'
  BY Disjoint DEF IInv, DropPress, Goto, fileVars, talkVars, Lockers, Marks, PressInv,
       TypeOK, PlacesOK, TalkOK, OutcomeOK, DoneInv
<1>4. OnlyNewestApplied'
  BY Disjoint DEF IInv, DropPress, Goto, fileVars, talkVars, Lockers, Marks,
       OnlyNewestApplied, TypeOK, PlacesOK, TalkOK, ShownInv, DoneInv
<1>5. PlacesOK' /\ FileOK' /\ OutcomeOK' /\ LockInv' /\ AbsentInv' /\
      LookInv' /\ SlotInv' /\ DoneInv' /\ NoSilentOverwrite' /\ AnswersTrue'
  BY DEF IInv, TypeOK, DropPress, fileVars, talkVars, PlacesOK, AppendPlaces,
       EditPlaces,
       FileOK, OutcomeOK, LockInv, AbsentInv, LookInv, Missed, SlotInv, OnScreen,
       DoneInv,
       NoSilentOverwrite, AnswersTrue, Running
<1> QED BY <1>1, <1>2, <1>3, <1>4, <1>5 DEF IInv, TypeOK

(* The preview is sent, in time or not.                                    *)
LEMMA ListenKeeps == ASSUME IInv, NEW e \in Edits, Listen(e) PROVE IInv'
<1>1. PlacesOK'
  BY Disjoint DEF IInv, Listen, HandedOver, Goto, fileVars, talkVars, Lockers, Marks,
       PlacesOK,
       TypeOK, EditPlaces, AppendPlaces
<1>2. TalkOK'
  BY Disjoint DEF IInv, Listen, HandedOver, Goto, fileVars, talkVars, Lockers, Marks,
       TalkOK,
       TypeOK, PlacesOK, Answers
<1>3. LockInv'
  BY Disjoint DEF IInv, Listen, HandedOver, Goto, fileVars, talkVars, Lockers, Marks,
       LockInv,
       TypeOK, PlacesOK, FileOK
<1>4. LookInv'
  BY Disjoint DEF IInv, Listen, HandedOver, Goto, fileVars, talkVars, Lockers, Marks,
       LookInv,
       TypeOK, PlacesOK, FileOK, LockInv, AbsentInv, Missed
<1>5. SlotInv'
  BY Disjoint DEF IInv, Listen, HandedOver, Goto, fileVars, talkVars, Lockers, Marks,
       SlotInv, OnScreen,
       TypeOK, PlacesOK, TalkOK, ShownInv
<1>6. ShownInv'
  BY Disjoint DEF IInv, Listen, HandedOver, Goto, fileVars, talkVars, Lockers, Marks,
       ShownInv,
       TypeOK, PlacesOK, TalkOK, SlotInv
<1>7. DoneInv'
  BY Disjoint DEF IInv, Listen, HandedOver, Goto, fileVars, talkVars, Lockers, Marks,
       DoneInv,
       TypeOK, PlacesOK, TalkOK, OutcomeOK
<1>8. PressInv'
  <2> SUFFICES ASSUME ~Sequential PROVE PressInv'
    BY DEF PressInv
  <2>1. \A f \in Edits \ {e} : pc'[f] = pc[f]
    BY DEF Listen, Goto, IInv, TypeOK, PlacesOK, Marks, Lockers
  <2>2. CASE Goto(e, "choice")
    BY <2>1, <2>2 DEF Listen, Goto, talkVars, PressInv, IInv, TypeOK, PlacesOK, TalkOK,
       Marks, Lockers
  <2>3. CASE HandedOver(e) /\ Goto(e, "lapsed")
    <3>1. e \notin inTime
      BY <2>3 DEF HandedOver, CanDeliver, PressInv, IInv
    <3> QED BY <2>1, <3>1 DEF Listen, talkVars, PressInv, IInv, TypeOK, TalkOK
  <2> QED BY <2>2, <2>3 DEF Listen
<1>9. OnlyNewestApplied'
  BY Disjoint DEF IInv, Listen, HandedOver, Goto, fileVars, talkVars, Lockers, Marks,
       OnlyNewestApplied, TypeOK, PlacesOK, TalkOK, ShownInv, DoneInv
<1>10. AnswersTrue'
  BY Disjoint DEF IInv, Listen, HandedOver, Goto, fileVars, talkVars, Lockers, Marks,
       AnswersTrue, TypeOK, PlacesOK, Outcomes, TalkOK, OutcomeOK, DoneInv, Running
<1>11. FileOK' /\ OutcomeOK' /\ AbsentInv' /\ NoSilentOverwrite'
  BY DEF IInv, TypeOK, Listen, fileVars, talkVars, FileOK, OutcomeOK, AbsentInv,
       NoSilentOverwrite
<1> QED BY <1>1, <1>2, <1>3, <1>4, <1>5, <1>6, <1>7, <1>8, <1>9, <1>10, <1>11 DEF IInv,
       TypeOK

(* Five minutes pass: not for a press that can be delivered.               *)
LEMMA ExpireKeeps == ASSUME IInv, NEW e \in Edits, Expire(e) PROVE IInv'
<1>1. PlacesOK'
  BY Disjoint DEF IInv, Expire, Goto, fileVars, talkVars, Lockers, Marks, PlacesOK,
       TypeOK, EditPlaces, AppendPlaces
<1>2. TalkOK'
  BY Disjoint DEF IInv, Expire, Goto, fileVars, talkVars, Lockers, Marks, TalkOK,
       TypeOK, PlacesOK, Answers
<1>3. LockInv'
  BY Disjoint DEF IInv, Expire, Goto, fileVars, talkVars, Lockers, Marks, LockInv,
       TypeOK, PlacesOK, FileOK
<1>4. LookInv'
  BY Disjoint DEF IInv, Expire, Goto, fileVars, talkVars, Lockers, Marks, LookInv,
       TypeOK, PlacesOK, FileOK, LockInv, AbsentInv, Missed
<1>5. SlotInv'
  BY Disjoint DEF IInv, Expire, Goto, fileVars, talkVars, Lockers, Marks, SlotInv,
       OnScreen,
       TypeOK, PlacesOK, TalkOK, ShownInv
<1>6. ShownInv'
  BY Disjoint DEF IInv, Expire, Goto, fileVars, talkVars, Lockers, Marks, ShownInv,
       TypeOK, PlacesOK, TalkOK, SlotInv
<1>7. DoneInv'
  BY Disjoint DEF IInv, Expire, Goto, fileVars, talkVars, Lockers, Marks, DoneInv,
       TypeOK, PlacesOK, TalkOK, OutcomeOK
<1>8. PressInv'
  <2>1. ~Sequential => tap[e] = None
    BY DEF Expire, HandedOver, CanDeliver
  <2> SUFFICES ASSUME ~Sequential PROVE PressInv'
    BY DEF PressInv
  <2>2. e \notin inTime
    BY <2>1 DEF PressInv, IInv
  <2>3. \A f \in Edits \ {e} : pc'[f] = pc[f]
    BY DEF Expire, Goto, IInv, TypeOK, PlacesOK, Marks, Lockers
  <2> QED BY <2>2, <2>3 DEF Expire, talkVars, PressInv, IInv, TypeOK, TalkOK
<1>9. OnlyNewestApplied'
  BY Disjoint DEF IInv, Expire, Goto, fileVars, talkVars, Lockers, Marks,
       OnlyNewestApplied, TypeOK, PlacesOK, TalkOK, ShownInv, DoneInv
<1>10. AnswersTrue'
  BY Disjoint DEF IInv, Expire, Goto, fileVars, talkVars, Lockers, Marks,
       AnswersTrue, TypeOK, PlacesOK, Outcomes, TalkOK, OutcomeOK, DoneInv, Running
<1>11. FileOK' /\ OutcomeOK' /\ AbsentInv' /\ NoSilentOverwrite'
  BY DEF IInv, TypeOK, Expire, fileVars, talkVars, FileOK, OutcomeOK, AbsentInv,
       NoSilentOverwrite
<1> QED BY <1>1, <1>2, <1>3, <1>4, <1>5, <1>6, <1>7, <1>8, <1>9, <1>10, <1>11 DEF IInv, TypeOK

(* The options time out.                                                   *)
LEMMA TimeOutKeeps == ASSUME IInv, NEW e \in Edits, TimeOut(e) PROVE IInv'
<1>1. PlacesOK'
  BY Disjoint DEF IInv, TimeOut, NoChoice, FreeOwn, Goto, fileVars, talkVars,
       Lockers, Marks, PlacesOK, TypeOK, EditPlaces, AppendPlaces
<1>2. TalkOK'
  BY Disjoint DEF IInv, TimeOut, NoChoice, FreeOwn, Goto, fileVars, talkVars,
       Lockers, Marks, TalkOK, TypeOK, PlacesOK, Answers
<1>3. LockInv'
  BY Disjoint DEF IInv, TimeOut, NoChoice, FreeOwn, Goto, fileVars, talkVars,
       Lockers, Marks, LockInv, TypeOK, PlacesOK, FileOK
<1>4. LookInv'
  BY Disjoint DEF IInv, TimeOut, NoChoice, FreeOwn, Goto, fileVars, talkVars,
       Lockers, Marks, LookInv, TypeOK, PlacesOK, FileOK, LockInv, AbsentInv,
       Missed
<1>5. SlotInv'
  BY Disjoint DEF IInv, TimeOut, NoChoice, FreeOwn, Goto, fileVars, talkVars,
       Lockers, Marks, SlotInv, OnScreen, TypeOK, PlacesOK, TalkOK, ShownInv
<1>6. ShownInv'
  BY Disjoint DEF IInv, TimeOut, NoChoice, FreeOwn, Goto, fileVars, talkVars,
       Lockers, Marks, ShownInv, TypeOK, PlacesOK, TalkOK, SlotInv
<1>7. DoneInv'
  BY Disjoint DEF IInv, TimeOut, NoChoice, FreeOwn, Goto, fileVars, talkVars,
       Lockers, Marks, DoneInv, TypeOK, PlacesOK, TalkOK, OutcomeOK
<1>8. PressInv'
  BY Disjoint DEF IInv, TimeOut, NoChoice, FreeOwn, Goto, fileVars, talkVars,
       Lockers, Marks, PressInv, TypeOK, PlacesOK, TalkOK, OutcomeOK, DoneInv
<1>9. OnlyNewestApplied'
  BY Disjoint DEF IInv, TimeOut, NoChoice, FreeOwn, Goto, fileVars, talkVars,
       Lockers, Marks, OnlyNewestApplied, TypeOK, PlacesOK, TalkOK, ShownInv,
       DoneInv
<1>10. AnswersTrue'
  BY Disjoint DEF IInv, TimeOut, NoChoice, FreeOwn, Goto, fileVars, talkVars,
       Lockers, Marks, AnswersTrue, TypeOK, PlacesOK, Outcomes, TalkOK, OutcomeOK,
       DoneInv, Running
<1>11. FileOK' /\ OutcomeOK' /\ AbsentInv' /\ NoSilentOverwrite'
  BY DEF IInv, TypeOK, TimeOut, NoChoice, fileVars, talkVars, FileOK, OutcomeOK,
       AbsentInv, NoSilentOverwrite
<1> QED BY <1>1, <1>2, <1>3, <1>4, <1>5, <1>6, <1>7, <1>8, <1>9, <1>10, <1>11 DEF IInv, TypeOK

(* The preview could not be sent.                                          *)
LEMMA OfferFailsKeeps == ASSUME IInv, NEW e \in Edits, OfferFails(e) PROVE IInv'
<1>1. PlacesOK'
  BY Disjoint DEF IInv, OfferFails, NoChoice, FreeOwn, Fault, Goto, fileVars,
       talkVars, Lockers, Marks, PlacesOK, TypeOK, EditPlaces, AppendPlaces
<1>2. TalkOK'
  BY Disjoint DEF IInv, OfferFails, NoChoice, FreeOwn, Fault, Goto, fileVars,
       talkVars, Lockers, Marks, TalkOK, TypeOK, PlacesOK, Answers
<1>3. OutcomeOK'
  BY Disjoint DEF IInv, OfferFails, NoChoice, FreeOwn, Fault, Goto, fileVars,
       talkVars, Lockers, Marks, OutcomeOK, TypeOK, Outcomes
<1>4. LockInv'
  BY Disjoint DEF IInv, OfferFails, NoChoice, FreeOwn, Fault, Goto, fileVars,
       talkVars, Lockers, Marks, LockInv, TypeOK, PlacesOK, FileOK
<1>5. LookInv'
  BY Disjoint DEF IInv, OfferFails, NoChoice, FreeOwn, Fault, Goto, fileVars,
       talkVars, Lockers, Marks, LookInv, TypeOK, PlacesOK, FileOK, LockInv,
       AbsentInv, Missed
<1>6. SlotInv'
  BY Disjoint DEF IInv, OfferFails, NoChoice, FreeOwn, Fault, Goto, fileVars,
       talkVars, Lockers, Marks, SlotInv, OnScreen, TypeOK, PlacesOK, TalkOK, ShownInv
<1>7. ShownInv'
  BY Disjoint DEF IInv, OfferFails, NoChoice, FreeOwn, Fault, Goto, fileVars,
       talkVars, Lockers, Marks, ShownInv, TypeOK, PlacesOK, TalkOK, SlotInv
<1>8. DoneInv'
  BY Disjoint DEF IInv, OfferFails, NoChoice, FreeOwn, Fault, Goto, fileVars,
       talkVars, Lockers, Marks, DoneInv, TypeOK, PlacesOK, TalkOK, OutcomeOK
<1>9. PressInv'
  BY Disjoint DEF IInv, OfferFails, NoChoice, FreeOwn, Fault, Goto, fileVars,
       talkVars, Lockers, Marks, PressInv, TypeOK, PlacesOK, TalkOK, OutcomeOK,
       DoneInv
<1>10. OnlyNewestApplied'
  BY Disjoint DEF IInv, OfferFails, NoChoice, FreeOwn, Fault, Goto, fileVars,
       talkVars, Lockers, Marks, OnlyNewestApplied, TypeOK, PlacesOK, TalkOK,
       ShownInv, DoneInv
<1>11. AnswersTrue'
  BY Disjoint DEF IInv, OfferFails, NoChoice, FreeOwn, Fault, Goto, fileVars,
       talkVars, Lockers, Marks, AnswersTrue, TypeOK, PlacesOK, Outcomes, TalkOK,
       OutcomeOK, DoneInv, Running
<1>12. FileOK' /\ AbsentInv' /\ NoSilentOverwrite'
  BY DEF IInv, TypeOK, OfferFails, NoChoice, Fault, fileVars, talkVars, FileOK,
       AbsentInv, NoSilentOverwrite
<1> QED BY <1>1, <1>2, <1>3, <1>4, <1>5, <1>6, <1>7, <1>8, <1>9, <1>10, <1>11,
     <1>12 DEF IInv, TypeOK

(* Confirm, but the slot is empty or another's.                            *)
LEMMA ConfirmTooLateKeeps == ASSUME IInv, NEW e \in Edits, ConfirmTooLate(e) PROVE IInv'
<1>1. /\ pc[e] \in {"choice", "lapsed"} /\ e \notin applied
      /\ UNCHANGED <<fileVars, user, before, after, slot, tap, inTime, superseded, audit,
                     applied>>
  BY DEF ConfirmTooLate, Pressed, IInv, DoneInv
<1>2. PICK text \in Answers \ {"applied"} : Answer(e, text)
  BY Zenon DEF ConfirmTooLate, Answers
<1>3. /\ pc' = [pc EXCEPT ![e] = "done"] /\ faults' \in 0 .. MaxFaults
      /\ told' \in [Edits -> Answers \cup {None}]
      /\ told'[e] # "applied" \/ told'[e] = told[e]
      /\ \A f \in Edits \ {e} : told'[f] = told[f]
      /\ faults' = 0 => faults = 0 /\ told'[e] # None
  BY <1>2, AnswerFacts
<1>4. PlacesOK'
  BY <1>1, <1>3, Disjoint DEF IInv, fileVars, talkVars, Lockers, Marks, PlacesOK,
       TypeOK, EditPlaces, AppendPlaces
<1>5. FileOK'
  BY <1>1, <1>3, Disjoint DEF IInv, TypeOK, fileVars, talkVars, FileOK
<1>6. TalkOK'
  BY <1>1, <1>3, Disjoint DEF IInv, fileVars, talkVars, Lockers, Marks, TalkOK,
       TypeOK, PlacesOK, Answers
<1>7. OutcomeOK'
  BY <1>1, <1>3, Disjoint DEF IInv, fileVars, talkVars, Lockers, Marks, OutcomeOK,
       TypeOK, Outcomes
<1>8. LockInv'
  BY <1>1, <1>3, Disjoint DEF IInv, fileVars, talkVars, Lockers, Marks, LockInv,
       TypeOK, PlacesOK, FileOK
<1>9. AbsentInv'
  BY <1>1, <1>3, Disjoint DEF IInv, fileVars, talkVars, AbsentInv
<1>10. LookInv'
  BY <1>1, <1>3, Disjoint DEF IInv, fileVars, talkVars, Lockers, Marks, LookInv,
       TypeOK, PlacesOK, FileOK, LockInv, AbsentInv, Missed
<1>11. SlotInv'
  <2> SUFFICES ASSUME NEW u \in Users, slot[u] # None
               PROVE  /\ user[slot[u]] = u /\ slot[u] \notin superseded
                      /\ pc'[slot[u]] \in OnScreen
    BY <1>1 DEF SlotInv, OnScreen, fileVars
  <2>1. /\ user[slot[u]] = u /\ slot[u] \notin superseded
        /\ pc[slot[u]] \in OnScreen /\ slot[u] \in Edits
    BY DEF SlotInv, OnScreen, IInv, TypeOK, TalkOK
  <2>2. slot[u] # e
    BY <2>1 DEF ConfirmTooLate, Pressed, StillPending
  <2> QED BY <1>3, <2>1, <2>2 DEF IInv, TypeOK, PlacesOK, Marks, Lockers
<1>12. ShownInv'
  BY <1>1, <1>3, Disjoint DEF IInv, fileVars, talkVars, Lockers, Marks, ShownInv,
       TypeOK, PlacesOK, TalkOK, SlotInv
<1>13. DoneInv'
  BY <1>1, <1>3, Disjoint DEF IInv, fileVars, talkVars, Lockers, Marks, DoneInv,
       TypeOK, PlacesOK, TalkOK, OutcomeOK
<1>14. PressInv'
  BY <1>1, <1>2, AnswerPress
<1>15. NoSilentOverwrite'
  BY <1>1, <1>3, Disjoint DEF IInv, fileVars, talkVars, NoSilentOverwrite
<1>16. OnlyNewestApplied'
  BY <1>1, <1>3, Disjoint DEF IInv, fileVars, talkVars, Lockers, Marks,
       OnlyNewestApplied, TypeOK, PlacesOK, TalkOK, ShownInv, DoneInv
<1>17. AnswersTrue'
  BY <1>1, <1>3, Disjoint DEF IInv, fileVars, talkVars, Lockers, Marks,
       AnswersTrue, TypeOK, PlacesOK, Outcomes, TalkOK, OutcomeOK, DoneInv, Running
<1> QED BY <1>4, <1>5, <1>6, <1>7, <1>8, <1>9, <1>10, <1>11, <1>12, <1>13, <1>14,
     <1>15, <1>16, <1>17 DEF IInv, TypeOK

(* Confirm: what the slot holds was never superseded.                      *)
LEMMA ConfirmKeeps == ASSUME IInv, NEW e \in Edits, Confirm(e) PROVE IInv'
<1>1. PlacesOK'
  BY Disjoint DEF IInv, Confirm, Pressed, StillPending, Goto, fileVars, talkVars,
       Lockers, Marks, PlacesOK, TypeOK, EditPlaces, AppendPlaces
<1>2. TalkOK'
  BY Disjoint DEF IInv, Confirm, Pressed, StillPending, Goto, fileVars, talkVars,
       Lockers, Marks, TalkOK, TypeOK, PlacesOK, Answers
<1>3. LockInv'
  BY Disjoint DEF IInv, Confirm, Pressed, StillPending, Goto, fileVars, talkVars,
       Lockers, Marks, LockInv, TypeOK, PlacesOK, FileOK
<1>4. LookInv'
  BY Disjoint DEF IInv, Confirm, Pressed, StillPending, Goto, fileVars, talkVars,
       Lockers, Marks, LookInv, TypeOK, PlacesOK, FileOK, LockInv, AbsentInv,
       Missed
<1>5. SlotInv'
  BY Disjoint DEF IInv, Confirm, Pressed, StillPending, Goto, fileVars, talkVars,
       Lockers, Marks, SlotInv, OnScreen, TypeOK, PlacesOK, TalkOK, ShownInv
<1>6. ShownInv'
  BY Disjoint DEF IInv, Confirm, Pressed, StillPending, Goto, fileVars, talkVars,
       Lockers, Marks, ShownInv, TypeOK, PlacesOK, TalkOK, SlotInv
<1>7. DoneInv'
  BY Disjoint DEF IInv, Confirm, Pressed, StillPending, Goto, fileVars, talkVars,
       Lockers, Marks, DoneInv, TypeOK, PlacesOK, TalkOK, OutcomeOK
<1>8. PressInv'
  BY Disjoint DEF IInv, Confirm, Pressed, StillPending, Goto, fileVars, talkVars,
       Lockers, Marks, PressInv, TypeOK, PlacesOK, TalkOK, OutcomeOK, DoneInv
<1>9. OnlyNewestApplied'
  BY Disjoint DEF IInv, Confirm, Pressed, StillPending, Goto, fileVars, talkVars,
       Lockers, Marks, OnlyNewestApplied, TypeOK, PlacesOK, TalkOK, ShownInv,
       DoneInv
<1>10. AnswersTrue'
  BY Disjoint DEF IInv, Confirm, Pressed, StillPending, Goto, fileVars, talkVars,
       Lockers, Marks, AnswersTrue, TypeOK, PlacesOK, Outcomes, TalkOK, OutcomeOK,
       DoneInv, Running
<1>11. FileOK' /\ OutcomeOK' /\ AbsentInv' /\ NoSilentOverwrite'
  BY DEF IInv, TypeOK, Confirm, fileVars, talkVars, FileOK, OutcomeOK, AbsentInv,
       NoSilentOverwrite
<1> QED BY <1>1, <1>2, <1>3, <1>4, <1>5, <1>6, <1>7, <1>8, <1>9, <1>10, <1>11 DEF IInv, TypeOK

(* Confirm after the expiry.                                               *)
LEMMA ConfirmExpiredKeeps == ASSUME IInv, NEW e \in Edits, ConfirmExpired(e) PROVE IInv'
<1>1. PlacesOK'
  BY Disjoint DEF IInv, ConfirmExpired, Pressed, StillPending, Swallowed, Answer,
       Fault, Goto, fileVars, talkVars, Lockers, Marks, PlacesOK, TypeOK,
       EditPlaces, AppendPlaces
<1>2. TalkOK'
  BY Disjoint DEF IInv, ConfirmExpired, Pressed, StillPending, Swallowed, Answer,
       Fault, Goto, fileVars, talkVars, Lockers, Marks, TalkOK, TypeOK, PlacesOK,
       Answers
<1>3. OutcomeOK'
  BY Disjoint DEF IInv, ConfirmExpired, Pressed, StillPending, Swallowed, Answer,
       Fault, Goto, fileVars, talkVars, Lockers, Marks, OutcomeOK, TypeOK, Outcomes
<1>4. LockInv'
  BY Disjoint DEF IInv, ConfirmExpired, Pressed, StillPending, Swallowed, Answer,
       Fault, Goto, fileVars, talkVars, Lockers, Marks, LockInv, TypeOK, PlacesOK,
       FileOK
<1>5. LookInv'
  BY Disjoint DEF IInv, ConfirmExpired, Pressed, StillPending, Swallowed, Answer,
       Fault, Goto, fileVars, talkVars, Lockers, Marks, LookInv, TypeOK, PlacesOK,
       FileOK, LockInv, AbsentInv, Missed
<1>6. SlotInv'
  BY Disjoint DEF IInv, ConfirmExpired, Pressed, StillPending, Swallowed, Answer,
       Fault, Goto, fileVars, talkVars, Lockers, Marks, SlotInv, OnScreen, TypeOK,
       PlacesOK,
       TalkOK, ShownInv
<1>7. ShownInv'
  BY Disjoint DEF IInv, ConfirmExpired, Pressed, StillPending, Swallowed, Answer,
       Fault, Goto, fileVars, talkVars, Lockers, Marks, ShownInv, TypeOK, PlacesOK,
       TalkOK, SlotInv
<1>8. DoneInv'
  BY Disjoint DEF IInv, ConfirmExpired, Pressed, StillPending, Swallowed, Answer,
       Fault, Goto, fileVars, talkVars, Lockers, Marks, DoneInv, TypeOK, PlacesOK,
       TalkOK, OutcomeOK
<1>9. PressInv'
  BY Disjoint DEF IInv, ConfirmExpired, Pressed, StillPending, Swallowed, Answer,
       Fault, Goto, fileVars, talkVars, Lockers, Marks, PressInv, TypeOK, PlacesOK,
       TalkOK, OutcomeOK, DoneInv
<1>10. OnlyNewestApplied'
  BY Disjoint DEF IInv, ConfirmExpired, Pressed, StillPending, Swallowed, Answer,
       Fault, Goto, fileVars, talkVars, Lockers, Marks, OnlyNewestApplied, TypeOK,
       PlacesOK, TalkOK, ShownInv, DoneInv
<1>11. AnswersTrue'
  BY Disjoint DEF IInv, ConfirmExpired, Pressed, StillPending, Swallowed, Answer,
       Fault, Goto, fileVars, talkVars, Lockers, Marks, AnswersTrue, TypeOK,
       PlacesOK, Outcomes, TalkOK, OutcomeOK, DoneInv, Running
<1>12. FileOK' /\ AbsentInv' /\ NoSilentOverwrite'
  BY DEF IInv, TypeOK, ConfirmExpired, Swallowed, Answer, Fault, fileVars,
       talkVars, FileOK, AbsentInv, NoSilentOverwrite
<1> QED BY <1>1, <1>2, <1>3, <1>4, <1>5, <1>6, <1>7, <1>8, <1>9, <1>10, <1>11,
     <1>12 DEF IInv, TypeOK

(* Cancel, which may free another's slot.                                  *)
LEMMA CancelKeeps == ASSUME IInv, NEW e \in Edits, Cancel(e) PROVE IInv'
<1>1. PlacesOK'
  BY Disjoint DEF IInv, Cancel, Pressed, Answer, Fault, Goto, fileVars, talkVars,
       Lockers, Marks, PlacesOK, TypeOK, EditPlaces, AppendPlaces
<1>2. TalkOK'
  BY Disjoint DEF IInv, Cancel, Pressed, Answer, Fault, Goto, fileVars, talkVars,
       Lockers, Marks, TalkOK, TypeOK, PlacesOK, Answers
<1>3. OutcomeOK'
  BY Disjoint DEF IInv, Cancel, Pressed, Answer, Fault, Goto, fileVars, talkVars,
       Lockers, Marks, OutcomeOK, TypeOK, Outcomes
<1>4. LockInv'
  BY Disjoint DEF IInv, Cancel, Pressed, Answer, Fault, Goto, fileVars, talkVars,
       Lockers, Marks, LockInv, TypeOK, PlacesOK, FileOK
<1>5. LookInv'
  BY Disjoint DEF IInv, Cancel, Pressed, Answer, Fault, Goto, fileVars, talkVars,
       Lockers, Marks, LookInv, TypeOK, PlacesOK, FileOK, LockInv, AbsentInv,
       Missed
<1>6. SlotInv'
  BY Disjoint DEF IInv, Cancel, Pressed, Answer, Fault, Goto, fileVars, talkVars,
       Lockers, Marks, SlotInv, OnScreen, TypeOK, PlacesOK, TalkOK, ShownInv
<1>7. ShownInv'
  BY Disjoint DEF IInv, Cancel, Pressed, Answer, Fault, Goto, fileVars, talkVars,
       Lockers, Marks, ShownInv, TypeOK, PlacesOK, TalkOK, SlotInv
<1>8. DoneInv'
  BY Disjoint DEF IInv, Cancel, Pressed, Answer, Fault, Goto, fileVars, talkVars,
       Lockers, Marks, DoneInv, TypeOK, PlacesOK, TalkOK, OutcomeOK
<1>9. PressInv'
  BY AnswerPress DEF Cancel, talkVars, Answers
<1>10. OnlyNewestApplied'
  BY Disjoint DEF IInv, Cancel, Pressed, Answer, Fault, Goto, fileVars, talkVars,
       Lockers, Marks, OnlyNewestApplied, TypeOK, PlacesOK, TalkOK, ShownInv,
       DoneInv
<1>11. AnswersTrue'
  BY Disjoint DEF IInv, Cancel, Pressed, Answer, Fault, Goto, fileVars, talkVars,
       Lockers, Marks, AnswersTrue, TypeOK, PlacesOK, Outcomes, TalkOK, OutcomeOK,
       DoneInv, Running
<1>12. FileOK' /\ AbsentInv' /\ NoSilentOverwrite'
  BY DEF IInv, TypeOK, Cancel, Answer, Fault, fileVars, talkVars, FileOK,
       AbsentInv, NoSilentOverwrite
<1> QED BY <1>1, <1>2, <1>3, <1>4, <1>5, <1>6, <1>7, <1>8, <1>9, <1>10, <1>11,
     <1>12 DEF IInv, TypeOK

(* The file is gone.                                                       *)
LEMMA VanishedKeeps == ASSUME IInv, NEW e \in Edits, Vanished(e) PROVE IInv'
<1>1. PlacesOK'
  BY Disjoint DEF IInv, Vanished, Answer, Fault, Goto, fileVars, talkVars, Lockers,
       Marks, PlacesOK, TypeOK, EditPlaces, AppendPlaces
<1>2. FileOK'
  BY Disjoint DEF IInv, Vanished, Answer, Fault, Goto, fileVars, talkVars, Lockers,
       Marks, FileOK, TypeOK
<1>3. TalkOK'
  BY Disjoint DEF IInv, Vanished, Answer, Fault, Goto, fileVars, talkVars, Lockers,
       Marks, TalkOK, TypeOK, PlacesOK, Answers
<1>4. OutcomeOK'
  BY Disjoint DEF IInv, Vanished, Answer, Fault, Goto, fileVars, talkVars, Lockers,
       Marks, OutcomeOK, TypeOK, Outcomes
<1>5. LockInv'
  BY Disjoint DEF IInv, Vanished, Answer, Fault, Goto, fileVars, talkVars, Lockers,
       Marks, LockInv, TypeOK, PlacesOK, FileOK
<1>6. LookInv'
  BY Disjoint DEF IInv, Vanished, Answer, Fault, Goto, fileVars, talkVars, Lockers,
       Marks, LookInv, TypeOK, PlacesOK, FileOK, LockInv, AbsentInv, Missed
<1>7. SlotInv'
  BY Disjoint DEF IInv, Vanished, Answer, Fault, Goto, fileVars, talkVars, Lockers,
       Marks, SlotInv, OnScreen, TypeOK, PlacesOK, TalkOK, ShownInv
<1>8. ShownInv'
  BY Disjoint DEF IInv, Vanished, Answer, Fault, Goto, fileVars, talkVars, Lockers,
       Marks, ShownInv, TypeOK, PlacesOK, TalkOK, SlotInv
<1>9. DoneInv'
  BY Disjoint DEF IInv, Vanished, Answer, Fault, Goto, fileVars, talkVars, Lockers,
       Marks, DoneInv, TypeOK, PlacesOK, TalkOK, OutcomeOK
<1>10. PressInv'
  BY AnswerPress DEF Vanished, talkVars, Answers
<1>11. OnlyNewestApplied'
  BY Disjoint DEF IInv, Vanished, Answer, Fault, Goto, fileVars, talkVars, Lockers,
       Marks, OnlyNewestApplied, TypeOK, PlacesOK, TalkOK, ShownInv, DoneInv
<1>12. AnswersTrue'
  BY Disjoint DEF IInv, Vanished, Answer, Fault, Goto, fileVars, talkVars, Lockers,
       Marks, AnswersTrue, TypeOK, PlacesOK, Outcomes, TalkOK, OutcomeOK, DoneInv,
       Running
<1>13. AbsentInv' /\ NoSilentOverwrite'
  BY DEF IInv, Vanished, Answer, Fault, fileVars, talkVars, AbsentInv,
       NoSilentOverwrite
<1> QED BY <1>1, <1>2, <1>3, <1>4, <1>5, <1>6, <1>7, <1>8, <1>9, <1>10, <1>11,
     <1>12, <1>13 DEF IInv, TypeOK

(* The lock is taken.                                                      *)
LEMMA LockKeeps == ASSUME IInv, NEW m \in Lockers, Lock(m) PROVE IInv'
<1>1. PlacesOK'
  BY Disjoint DEF IInv, Lock, Goto, fileVars, talkVars, Lockers, Marks, PlacesOK,
       TypeOK, EditPlaces, AppendPlaces
<1>2. FileOK'
  BY Disjoint DEF IInv, Lock, Goto, fileVars, talkVars, Lockers, Marks, FileOK,
       TypeOK
<1>3. TalkOK'
  BY Disjoint DEF IInv, Lock, Goto, fileVars, talkVars, Lockers, Marks, TalkOK,
       TypeOK, PlacesOK, Answers
<1>4. LockInv'
  BY Disjoint DEF IInv, Lock, Goto, fileVars, talkVars, Lockers, Marks, LockInv,
       TypeOK, PlacesOK, FileOK
<1>5. LookInv'
  BY Disjoint DEF IInv, Lock, Goto, fileVars, talkVars, Lockers, Marks, LookInv,
       TypeOK, PlacesOK, FileOK, LockInv, AbsentInv, Missed
<1>6. SlotInv'
  BY Disjoint DEF IInv, Lock, Goto, fileVars, talkVars, Lockers, Marks, SlotInv,
       OnScreen,
       TypeOK, PlacesOK, TalkOK, ShownInv
<1>7. ShownInv'
  BY Disjoint DEF IInv, Lock, Goto, fileVars, talkVars, Lockers, Marks, ShownInv,
       TypeOK, PlacesOK, TalkOK, SlotInv
<1>8. DoneInv'
  BY Disjoint DEF IInv, Lock, Goto, fileVars, talkVars, Lockers, Marks, DoneInv,
       TypeOK, PlacesOK, TalkOK, OutcomeOK
<1>9. PressInv'
  BY Disjoint DEF IInv, Lock, Goto, fileVars, talkVars, Lockers, Marks, PressInv,
       TypeOK, PlacesOK, TalkOK, OutcomeOK, DoneInv
<1>10. OnlyNewestApplied'
  BY Disjoint DEF IInv, Lock, Goto, fileVars, talkVars, Lockers, Marks,
       OnlyNewestApplied, TypeOK, PlacesOK, TalkOK, ShownInv, DoneInv
<1>11. AnswersTrue'
  BY Disjoint DEF IInv, Lock, Goto, fileVars, talkVars, Lockers, Marks,
       AnswersTrue, TypeOK, PlacesOK, Outcomes, TalkOK, OutcomeOK, DoneInv, Running
<1>12. OutcomeOK' /\ AbsentInv' /\ NoSilentOverwrite'
  BY DEF IInv, TypeOK, Lock, fileVars, talkVars, OutcomeOK, AbsentInv,
       NoSilentOverwrite
<1> QED BY <1>1, <1>2, <1>3, <1>4, <1>5, <1>6, <1>7, <1>8, <1>9, <1>10, <1>11,
     <1>12 DEF IInv, TypeOK

(* Nothing is missed by a writer whose hash still fits.                    *)
LEMMA FreshKeeps == ASSUME IInv, NEW e \in Edits, Fresh(e) PROVE IInv'
<1>1. PlacesOK'
  BY Disjoint DEF IInv, Fresh, Unchanged, Goto, fileVars, talkVars, Lockers, Marks,
       PlacesOK, TypeOK, EditPlaces, AppendPlaces
<1>2. TalkOK'
  BY Disjoint DEF IInv, Fresh, Unchanged, Goto, fileVars, talkVars, Lockers, Marks,
       TalkOK, TypeOK, PlacesOK, Answers
<1>3. LockInv'
  BY Disjoint DEF IInv, Fresh, Unchanged, Goto, fileVars, talkVars, Lockers, Marks,
       LockInv, TypeOK, PlacesOK, FileOK
<1>4. LookInv'
  BY Disjoint DEF IInv, Fresh, Unchanged, Goto, fileVars, talkVars, Lockers, Marks,
       LookInv, TypeOK, PlacesOK, FileOK, LockInv, AbsentInv, Missed
<1>5. SlotInv'
  BY Disjoint DEF IInv, Fresh, Unchanged, Goto, fileVars, talkVars, Lockers, Marks,
       SlotInv, OnScreen, TypeOK, PlacesOK, TalkOK, ShownInv
<1>6. ShownInv'
  BY Disjoint DEF IInv, Fresh, Unchanged, Goto, fileVars, talkVars, Lockers, Marks,
       ShownInv, TypeOK, PlacesOK, TalkOK, SlotInv
<1>7. DoneInv'
  BY Disjoint DEF IInv, Fresh, Unchanged, Goto, fileVars, talkVars, Lockers, Marks,
       DoneInv, TypeOK, PlacesOK, TalkOK, OutcomeOK
<1>8. PressInv'
  BY Disjoint DEF IInv, Fresh, Unchanged, Goto, fileVars, talkVars, Lockers, Marks,
       PressInv, TypeOK, PlacesOK, TalkOK, OutcomeOK, DoneInv
<1>9. OnlyNewestApplied'
  BY Disjoint DEF IInv, Fresh, Unchanged, Goto, fileVars, talkVars, Lockers, Marks,
       OnlyNewestApplied, TypeOK, PlacesOK, TalkOK, ShownInv, DoneInv
<1>10. AnswersTrue'
  BY Disjoint DEF IInv, Fresh, Unchanged, Goto, fileVars, talkVars, Lockers, Marks,
       AnswersTrue, TypeOK, PlacesOK, Outcomes, TalkOK, OutcomeOK, DoneInv, Running
<1>11. FileOK' /\ OutcomeOK' /\ AbsentInv' /\ NoSilentOverwrite'
  BY DEF IInv, TypeOK, Fresh, fileVars, talkVars, FileOK, OutcomeOK, AbsentInv,
       NoSilentOverwrite
<1> QED BY <1>1, <1>2, <1>3, <1>4, <1>5, <1>6, <1>7, <1>8, <1>9, <1>10, <1>11 DEF IInv, TypeOK

(* The hash no longer fits.                                                *)
LEMMA StaleKeeps == ASSUME IInv, NEW e \in Edits, Stale(e) PROVE IInv'
<1>1. PlacesOK'
  BY Disjoint DEF IInv, Stale, Unchanged, Unlock, Answer, Fault, Goto, fileVars,
       talkVars, Lockers, Marks, PlacesOK, TypeOK, EditPlaces, AppendPlaces
<1>2. FileOK'
  BY Disjoint DEF IInv, Stale, Unchanged, Unlock, Answer, Fault, Goto, fileVars,
       talkVars, Lockers, Marks, FileOK, TypeOK
<1>3. TalkOK'
  BY Disjoint DEF IInv, Stale, Unchanged, Unlock, Answer, Fault, Goto, fileVars,
       talkVars, Lockers, Marks, TalkOK, TypeOK, PlacesOK, Answers
<1>4. OutcomeOK'
  BY Disjoint DEF IInv, Stale, Unchanged, Unlock, Answer, Fault, Goto, fileVars,
       talkVars, Lockers, Marks, OutcomeOK, TypeOK, Outcomes
<1>5. LockInv'
  BY Disjoint DEF IInv, Stale, Unchanged, Unlock, Answer, Fault, Goto, fileVars,
       talkVars, Lockers, Marks, LockInv, TypeOK, PlacesOK, FileOK
<1>6. LookInv'
  BY Disjoint DEF IInv, Stale, Unchanged, Unlock, Answer, Fault, Goto, fileVars,
       talkVars, Lockers, Marks, LookInv, TypeOK, PlacesOK, FileOK, LockInv,
       AbsentInv, Missed
<1>7. SlotInv'
  BY Disjoint DEF IInv, Stale, Unchanged, Unlock, Answer, Fault, Goto, fileVars,
       talkVars, Lockers, Marks, SlotInv, OnScreen, TypeOK, PlacesOK, TalkOK, ShownInv
<1>8. ShownInv'
  BY Disjoint DEF IInv, Stale, Unchanged, Unlock, Answer, Fault, Goto, fileVars,
       talkVars, Lockers, Marks, ShownInv, TypeOK, PlacesOK, TalkOK, SlotInv
<1>9. DoneInv'
  BY Disjoint DEF IInv, Stale, Unchanged, Unlock, Answer, Fault, Goto, fileVars,
       talkVars, Lockers, Marks, DoneInv, TypeOK, PlacesOK, TalkOK, OutcomeOK
<1>10. PressInv'
  BY AnswerPress DEF Stale, talkVars, Answers
<1>11. OnlyNewestApplied'
  BY Disjoint DEF IInv, Stale, Unchanged, Unlock, Answer, Fault, Goto, fileVars,
       talkVars, Lockers, Marks, OnlyNewestApplied, TypeOK, PlacesOK, TalkOK,
       ShownInv, DoneInv
<1>12. AnswersTrue'
  BY Disjoint DEF IInv, Stale, Unchanged, Unlock, Answer, Fault, Goto, fileVars,
       talkVars, Lockers, Marks, AnswersTrue, TypeOK, PlacesOK, Outcomes, TalkOK,
       OutcomeOK, DoneInv, Running
<1>13. AbsentInv' /\ NoSilentOverwrite'
  BY DEF IInv, Stale, Unlock, Answer, Fault, fileVars, talkVars, AbsentInv,
       NoSilentOverwrite
<1> QED BY <1>1, <1>2, <1>3, <1>4, <1>5, <1>6, <1>7, <1>8, <1>9, <1>10, <1>11,
     <1>12, <1>13 DEF IInv, TypeOK

(* The file is replaced: what is missed came late.                         *)
LEMMA WriteKeeps == ASSUME IInv, NEW e \in Edits, Write(e) PROVE IInv'
<1>1. PlacesOK'
  BY Disjoint DEF IInv, Write, Missed, Goto, fileVars, talkVars, Lockers, Marks,
       PlacesOK, TypeOK, EditPlaces, AppendPlaces
<1>2. FileOK'
  BY Disjoint DEF IInv, Write, Missed, Goto, fileVars, talkVars, Lockers, Marks,
       FileOK, TypeOK
<1>3. TalkOK'
  BY Disjoint DEF IInv, Write, Missed, Goto, fileVars, talkVars, Lockers, Marks,
       TalkOK, TypeOK, PlacesOK, Answers
<1>4. OutcomeOK'
  BY Disjoint DEF IInv, Write, Missed, Goto, fileVars, talkVars, Lockers, Marks,
       OutcomeOK, TypeOK, Outcomes
<1>5. LockInv'
  BY Disjoint DEF IInv, Write, Missed, Goto, fileVars, talkVars, Lockers, Marks,
       LockInv, TypeOK, PlacesOK, FileOK
<1>6. AbsentInv'
  BY Disjoint DEF IInv, Write, Missed, Goto, fileVars, talkVars, Lockers, Marks,
       AbsentInv, TypeOK, FileOK
<1>7. LookInv'
  BY Disjoint DEF IInv, Write, Missed, Goto, fileVars, talkVars, Lockers, Marks,
       LookInv, TypeOK, PlacesOK, FileOK, LockInv, AbsentInv
<1>8. SlotInv'
  BY Disjoint DEF IInv, Write, Missed, Goto, fileVars, talkVars, Lockers, Marks,
       SlotInv, OnScreen, TypeOK, PlacesOK, TalkOK, ShownInv
<1>9. ShownInv'
  BY Disjoint DEF IInv, Write, Missed, Goto, fileVars, talkVars, Lockers, Marks,
       ShownInv, TypeOK, PlacesOK, TalkOK, SlotInv
<1>10. DoneInv'
  BY Disjoint DEF IInv, Write, Missed, Goto, fileVars, talkVars, Lockers, Marks,
       DoneInv, TypeOK, PlacesOK, TalkOK, OutcomeOK
<1>11. PressInv'
  BY Disjoint DEF IInv, Write, Missed, Goto, fileVars, talkVars, Lockers, Marks,
       PressInv, TypeOK, PlacesOK, TalkOK, OutcomeOK, DoneInv
<1>12. NoSilentOverwrite'
  BY Disjoint DEF IInv, Write, Missed, Goto, fileVars, talkVars, Lockers, Marks,
       NoSilentOverwrite, TypeOK, PlacesOK, FileOK, LookInv
<1>13. OnlyNewestApplied'
  BY Disjoint DEF IInv, Write, Missed, Goto, fileVars, talkVars, Lockers, Marks,
       OnlyNewestApplied, TypeOK, PlacesOK, TalkOK, ShownInv, DoneInv
<1>14. AnswersTrue'
  BY Disjoint DEF IInv, Write, Missed, Goto, fileVars, talkVars, Lockers, Marks,
       AnswersTrue, TypeOK, PlacesOK, Outcomes, TalkOK, OutcomeOK, DoneInv, Running
<1> QED BY <1>1, <1>2, <1>3, <1>4, <1>5, <1>6, <1>7, <1>8, <1>9, <1>10, <1>11,
     <1>12, <1>13, <1>14 DEF IInv, TypeOK

(* The outcome is logged and told.                                         *)
LEMMA RecordKeeps == ASSUME IInv, NEW e \in Edits, Record(e) PROVE IInv'
<1>1. PlacesOK'
  BY Disjoint DEF IInv, Record, Unlock, Answer, Fault, Goto, fileVars, talkVars,
       Lockers, Marks, PlacesOK, TypeOK, EditPlaces, AppendPlaces
<1>2. FileOK'
  BY Disjoint DEF IInv, Record, Unlock, Answer, Fault, Goto, fileVars, talkVars,
       Lockers, Marks, FileOK, TypeOK
<1>3. TalkOK'
  BY Disjoint DEF IInv, Record, Unlock, Answer, Fault, Goto, fileVars, talkVars,
       Lockers, Marks, TalkOK, TypeOK, PlacesOK, Answers
<1>4. OutcomeOK'
  BY Disjoint DEF IInv, Record, Unlock, Answer, Fault, Goto, fileVars, talkVars,
       Lockers, Marks, OutcomeOK, TypeOK, Outcomes
<1>5. LockInv'
  BY Disjoint DEF IInv, Record, Unlock, Answer, Fault, Goto, fileVars, talkVars,
       Lockers, Marks, LockInv, TypeOK, PlacesOK, FileOK
<1>6. LookInv'
  BY Disjoint DEF IInv, Record, Unlock, Answer, Fault, Goto, fileVars, talkVars,
       Lockers, Marks, LookInv, TypeOK, PlacesOK, FileOK, LockInv, AbsentInv,
       Missed
<1>7. SlotInv'
  BY Disjoint DEF IInv, Record, Unlock, Answer, Fault, Goto, fileVars, talkVars,
       Lockers, Marks, SlotInv, OnScreen, TypeOK, PlacesOK, TalkOK, ShownInv
<1>8. ShownInv'
  BY Disjoint DEF IInv, Record, Unlock, Answer, Fault, Goto, fileVars, talkVars,
       Lockers, Marks, ShownInv, TypeOK, PlacesOK, TalkOK, SlotInv
<1>9. DoneInv'
  BY Disjoint DEF IInv, Record, Unlock, Answer, Fault, Goto, fileVars, talkVars,
       Lockers, Marks, DoneInv, TypeOK, PlacesOK, TalkOK, OutcomeOK
<1>10. PressInv'
  BY AnswerPress DEF Record, talkVars, Answers
<1>11. OnlyNewestApplied'
  BY Disjoint DEF IInv, Record, Unlock, Answer, Fault, Goto, fileVars, talkVars,
       Lockers, Marks, OnlyNewestApplied, TypeOK, PlacesOK, TalkOK, ShownInv,
       DoneInv
<1>12. AnswersTrue'
  BY Disjoint DEF IInv, Record, Unlock, Answer, Fault, Goto, fileVars, talkVars,
       Lockers, Marks, AnswersTrue, TypeOK, PlacesOK, Outcomes, TalkOK, OutcomeOK,
       DoneInv, Running
<1>13. AbsentInv' /\ NoSilentOverwrite'
  BY DEF IInv, Record, Unlock, Answer, Fault, fileVars, talkVars, AbsentInv,
       NoSilentOverwrite
<1> QED BY <1>1, <1>2, <1>3, <1>4, <1>5, <1>6, <1>7, <1>8, <1>9, <1>10, <1>11,
     <1>12, <1>13 DEF IInv, TypeOK

(* The write or a log fails.                                               *)
LEMMA ThrowsKeeps == ASSUME IInv, NEW e \in Edits, Throws(e) PROVE IInv'
<1>1. PlacesOK'
  BY Disjoint DEF IInv, Throws, Unlock, Swallowed, Fault, Unchanged, Goto,
       fileVars, talkVars, Lockers, Marks, PlacesOK, TypeOK, EditPlaces,
       AppendPlaces
<1>2. FileOK'
  BY Disjoint DEF IInv, Throws, Unlock, Swallowed, Fault, Unchanged, Goto,
       fileVars, talkVars, Lockers, Marks, FileOK, TypeOK
<1>3. TalkOK'
  BY Disjoint DEF IInv, Throws, Unlock, Swallowed, Fault, Unchanged, Goto,
       fileVars, talkVars, Lockers, Marks, TalkOK, TypeOK, PlacesOK, Answers
<1>4. OutcomeOK'
  BY Disjoint DEF IInv, Throws, Unlock, Swallowed, Fault, Unchanged, Goto,
       fileVars, talkVars, Lockers, Marks, OutcomeOK, TypeOK, Outcomes
<1>5. LockInv'
  BY Disjoint DEF IInv, Throws, Unlock, Swallowed, Fault, Unchanged, Goto,
       fileVars, talkVars, Lockers, Marks, LockInv, TypeOK, PlacesOK, FileOK
<1>6. LookInv'
  BY Disjoint DEF IInv, Throws, Unlock, Swallowed, Fault, Unchanged, Goto,
       fileVars, talkVars, Lockers, Marks, LookInv, TypeOK, PlacesOK, FileOK,
       LockInv, AbsentInv, Missed
<1>7. SlotInv'
  BY Disjoint DEF IInv, Throws, Unlock, Swallowed, Fault, Unchanged, Goto,
       fileVars, talkVars, Lockers, Marks, SlotInv, OnScreen, TypeOK, PlacesOK, TalkOK,
       ShownInv
<1>8. ShownInv'
  BY Disjoint DEF IInv, Throws, Unlock, Swallowed, Fault, Unchanged, Goto,
       fileVars, talkVars, Lockers, Marks, ShownInv, TypeOK, PlacesOK, TalkOK,
       SlotInv, OnScreen
<1>9. DoneInv'
  BY Disjoint DEF IInv, Throws, Unlock, Swallowed, Fault, Unchanged, Goto,
       fileVars, talkVars, Lockers, Marks, DoneInv, TypeOK, PlacesOK, TalkOK,
       OutcomeOK
<1>10. PressInv'
  BY Disjoint DEF IInv, Throws, Unlock, Swallowed, Fault, Unchanged, Goto,
       fileVars, talkVars, Lockers, Marks, PressInv, TypeOK, PlacesOK, TalkOK,
       OutcomeOK, DoneInv
<1>11. OnlyNewestApplied'
  BY Disjoint DEF IInv, Throws, Unlock, Swallowed, Fault, Unchanged, Goto,
       fileVars, talkVars, Lockers, Marks, OnlyNewestApplied, TypeOK, PlacesOK,
       TalkOK, ShownInv, DoneInv
<1>12. AnswersTrue'
  BY Disjoint DEF IInv, Throws, Unlock, Swallowed, Fault, Unchanged, Goto,
       fileVars, talkVars, Lockers, Marks, AnswersTrue, TypeOK, PlacesOK, Outcomes,
       TalkOK, OutcomeOK, DoneInv, Running
<1>13. AbsentInv' /\ NoSilentOverwrite'
  BY DEF IInv, Throws, Unlock, Swallowed, Fault, fileVars, talkVars, AbsentInv,
       NoSilentOverwrite
<1> QED BY <1>1, <1>2, <1>3, <1>4, <1>5, <1>6, <1>7, <1>8, <1>9, <1>10, <1>11,
     <1>12, <1>13 DEF IInv, TypeOK

(* An append begins.                                                       *)
LEMMA StartAppendKeeps == ASSUME IInv, NEW a \in Appends, StartAppend(a) PROVE IInv'
<1>1. PlacesOK'
  BY Disjoint DEF IInv, StartAppend, ViaLock, Goto, fileVars, talkVars, Lockers,
       Marks, PlacesOK, TypeOK, EditPlaces, AppendPlaces
<1>2. TalkOK'
  BY Disjoint DEF IInv, StartAppend, ViaLock, Goto, fileVars, talkVars, Lockers,
       Marks, TalkOK, TypeOK, PlacesOK, Answers
<1>3. LockInv'
  BY Disjoint DEF IInv, StartAppend, ViaLock, Goto, fileVars, talkVars, Lockers,
       Marks, LockInv, TypeOK, PlacesOK, FileOK
<1>4. LookInv'
  BY Disjoint DEF IInv, StartAppend, ViaLock, Goto, fileVars, talkVars, Lockers,
       Marks, LookInv, TypeOK, PlacesOK, FileOK, LockInv, AbsentInv, Missed
<1>5. SlotInv'
  BY Disjoint DEF IInv, StartAppend, ViaLock, Goto, fileVars, talkVars, Lockers,
       Marks, SlotInv, OnScreen, TypeOK, PlacesOK, TalkOK, ShownInv
<1>6. ShownInv'
  BY Disjoint DEF IInv, StartAppend, ViaLock, Goto, fileVars, talkVars, Lockers,
       Marks, ShownInv, TypeOK, PlacesOK, TalkOK, SlotInv
<1>7. DoneInv'
  BY Disjoint DEF IInv, StartAppend, ViaLock, Goto, fileVars, talkVars, Lockers,
       Marks, DoneInv, TypeOK, PlacesOK, TalkOK, OutcomeOK
<1>8. PressInv'
  BY Disjoint DEF IInv, StartAppend, ViaLock, Goto, fileVars, talkVars, Lockers,
       Marks, PressInv, TypeOK, PlacesOK, TalkOK, OutcomeOK, DoneInv
<1>9. OnlyNewestApplied'
  BY Disjoint DEF IInv, StartAppend, ViaLock, Goto, fileVars, talkVars, Lockers,
       Marks, OnlyNewestApplied, TypeOK, PlacesOK, TalkOK, ShownInv, DoneInv
<1>10. AnswersTrue'
  BY Disjoint DEF IInv, StartAppend, ViaLock, Goto, fileVars, talkVars, Lockers,
       Marks, AnswersTrue, TypeOK, PlacesOK, Outcomes, TalkOK, OutcomeOK, DoneInv,
       Running
<1>11. FileOK' /\ OutcomeOK' /\ AbsentInv' /\ NoSilentOverwrite'
  BY DEF IInv, TypeOK, StartAppend, fileVars, talkVars, FileOK, OutcomeOK,
       AbsentInv, NoSilentOverwrite
<1> QED BY <1>1, <1>2, <1>3, <1>4, <1>5, <1>6, <1>7, <1>8, <1>9, <1>10, <1>11 DEF IInv, TypeOK

(* stat: a missing file has no marks to miss.                              *)
LEMMA StatKeeps == ASSUME IInv, NEW a \in Appends, Stat(a) PROVE IInv'
<1>1. PlacesOK'
  BY Disjoint DEF IInv, Stat, Goto, fileVars, talkVars, Lockers, Marks, PlacesOK,
       TypeOK, EditPlaces, AppendPlaces
<1>2. FileOK'
  BY Disjoint DEF IInv, Stat, Goto, fileVars, talkVars, Lockers, Marks, FileOK,
       TypeOK
<1>3. TalkOK'
  BY Disjoint DEF IInv, Stat, Goto, fileVars, talkVars, Lockers, Marks, TalkOK,
       TypeOK, PlacesOK, Answers
<1>4. LockInv'
  BY Disjoint DEF IInv, Stat, Goto, fileVars, talkVars, Lockers, Marks, LockInv,
       TypeOK, PlacesOK, FileOK
<1>5. LookInv'
  BY Disjoint DEF IInv, Stat, Goto, fileVars, talkVars, Lockers, Marks, LookInv,
       TypeOK, PlacesOK, FileOK, LockInv, AbsentInv, Missed
<1>6. SlotInv'
  BY Disjoint DEF IInv, Stat, Goto, fileVars, talkVars, Lockers, Marks, SlotInv,
       OnScreen,
       TypeOK, PlacesOK, TalkOK, ShownInv
<1>7. ShownInv'
  BY Disjoint DEF IInv, Stat, Goto, fileVars, talkVars, Lockers, Marks, ShownInv,
       TypeOK, PlacesOK, TalkOK, SlotInv
<1>8. DoneInv'
  BY Disjoint DEF IInv, Stat, Goto, fileVars, talkVars, Lockers, Marks, DoneInv,
       TypeOK, PlacesOK, TalkOK, OutcomeOK
<1>9. PressInv'
  BY Disjoint DEF IInv, Stat, Goto, fileVars, talkVars, Lockers, Marks, PressInv,
       TypeOK, PlacesOK, TalkOK, OutcomeOK, DoneInv
<1>10. OnlyNewestApplied'
  BY Disjoint DEF IInv, Stat, Goto, fileVars, talkVars, Lockers, Marks,
       OnlyNewestApplied, TypeOK, PlacesOK, TalkOK, ShownInv, DoneInv
<1>11. AnswersTrue'
  BY Disjoint DEF IInv, Stat, Goto, fileVars, talkVars, Lockers, Marks,
       AnswersTrue, TypeOK, PlacesOK, Outcomes, TalkOK, OutcomeOK, DoneInv, Running
<1>12. OutcomeOK' /\ AbsentInv' /\ NoSilentOverwrite'
  BY DEF IInv, TypeOK, Stat, fileVars, talkVars, OutcomeOK, AbsentInv,
       NoSilentOverwrite
<1> QED BY <1>1, <1>2, <1>3, <1>4, <1>5, <1>6, <1>7, <1>8, <1>9, <1>10, <1>11,
     <1>12 DEF IInv, TypeOK

(* The file is written anew: what is missed came late.                     *)
LEMMA CreateKeeps == ASSUME IInv, NEW a \in Appends, Create(a) PROVE IInv'
<1>1. PlacesOK'
  BY Disjoint DEF IInv, Create, Missed, Unlock, Goto, fileVars, talkVars, Lockers,
       Marks, PlacesOK, TypeOK, EditPlaces, AppendPlaces
<1>2. FileOK'
  BY Disjoint DEF IInv, Create, Missed, Unlock, Goto, fileVars, talkVars, Lockers,
       Marks, FileOK, TypeOK
<1>3. TalkOK'
  BY Disjoint DEF IInv, Create, Missed, Unlock, Goto, fileVars, talkVars, Lockers,
       Marks, TalkOK, TypeOK, PlacesOK, Answers
<1>4. LockInv'
  BY Disjoint DEF IInv, Create, Missed, Unlock, Goto, fileVars, talkVars, Lockers,
       Marks, LockInv, TypeOK, PlacesOK, FileOK
<1>5. AbsentInv'
  BY Disjoint DEF IInv, Create, Missed, Unlock, Goto, fileVars, talkVars, Lockers,
       Marks, AbsentInv, TypeOK, FileOK
<1>6. LookInv'
  BY Disjoint DEF IInv, Create, Missed, Unlock, Goto, fileVars, talkVars, Lockers,
       Marks, LookInv, TypeOK, PlacesOK, FileOK, LockInv, AbsentInv
<1>7. SlotInv'
  BY Disjoint DEF IInv, Create, Missed, Unlock, Goto, fileVars, talkVars, Lockers,
       Marks, SlotInv, OnScreen, TypeOK, PlacesOK, TalkOK, ShownInv
<1>8. ShownInv'
  BY Disjoint DEF IInv, Create, Missed, Unlock, Goto, fileVars, talkVars, Lockers,
       Marks, ShownInv, TypeOK, PlacesOK, TalkOK, SlotInv
<1>9. DoneInv'
  BY Disjoint DEF IInv, Create, Missed, Unlock, Goto, fileVars, talkVars, Lockers,
       Marks, DoneInv, TypeOK, PlacesOK, TalkOK, OutcomeOK
<1>10. PressInv'
  BY Disjoint DEF IInv, Create, Missed, Unlock, Goto, fileVars, talkVars, Lockers,
       Marks, PressInv, TypeOK, PlacesOK, TalkOK, OutcomeOK, DoneInv
<1>11. NoSilentOverwrite'
  BY Disjoint DEF IInv, Create, Missed, Unlock, Goto, fileVars, talkVars, Lockers,
       Marks, NoSilentOverwrite, TypeOK, PlacesOK, FileOK, LookInv
<1>12. OnlyNewestApplied'
  BY Disjoint DEF IInv, Create, Missed, Unlock, Goto, fileVars, talkVars, Lockers,
       Marks, OnlyNewestApplied, TypeOK, PlacesOK, TalkOK, ShownInv, DoneInv
<1>13. AnswersTrue'
  BY Disjoint DEF IInv, Create, Missed, Unlock, Goto, fileVars, talkVars, Lockers,
       Marks, AnswersTrue, TypeOK, PlacesOK, Outcomes, TalkOK, OutcomeOK, DoneInv,
       Running
<1>14. OutcomeOK'
  BY DEF IInv, TypeOK, Create, Unlock, fileVars, talkVars, OutcomeOK
<1> QED BY <1>1, <1>2, <1>3, <1>4, <1>5, <1>6, <1>7, <1>8, <1>9, <1>10, <1>11,
     <1>12, <1>13, <1>14 DEF IInv, TypeOK

(* A line is appended.                                                     *)
LEMMA AddLineKeeps == ASSUME IInv, NEW a \in Appends, AddLine(a) PROVE IInv'
<1>1. PlacesOK'
  BY Disjoint DEF IInv, AddLine, Unlock, Goto, fileVars, talkVars, Lockers, Marks,
       PlacesOK, TypeOK, EditPlaces, AppendPlaces
<1>2. FileOK'
  BY Disjoint DEF IInv, AddLine, Unlock, Goto, fileVars, talkVars, Lockers, Marks,
       FileOK, TypeOK
<1>3. TalkOK'
  BY Disjoint DEF IInv, AddLine, Unlock, Goto, fileVars, talkVars, Lockers, Marks,
       TalkOK, TypeOK, PlacesOK, Answers
<1>4. LockInv'
  BY Disjoint DEF IInv, AddLine, Unlock, Goto, fileVars, talkVars, Lockers, Marks,
       LockInv, TypeOK, PlacesOK, FileOK
<1>5. AbsentInv'
  BY Disjoint DEF IInv, AddLine, Unlock, Goto, fileVars, talkVars, Lockers, Marks,
       AbsentInv, TypeOK, FileOK
<1>6. LookInv'
  BY Disjoint DEF IInv, AddLine, Unlock, Goto, fileVars, talkVars, Lockers, Marks,
       LookInv, TypeOK, PlacesOK, FileOK, LockInv, AbsentInv, Missed
<1>7. SlotInv'
  BY Disjoint DEF IInv, AddLine, Unlock, Goto, fileVars, talkVars, Lockers, Marks,
       SlotInv, OnScreen, TypeOK, PlacesOK, TalkOK, ShownInv
<1>8. ShownInv'
  BY Disjoint DEF IInv, AddLine, Unlock, Goto, fileVars, talkVars, Lockers, Marks,
       ShownInv, TypeOK, PlacesOK, TalkOK, SlotInv
<1>9. DoneInv'
  BY Disjoint DEF IInv, AddLine, Unlock, Goto, fileVars, talkVars, Lockers, Marks,
       DoneInv, TypeOK, PlacesOK, TalkOK, OutcomeOK
<1>10. PressInv'
  BY Disjoint DEF IInv, AddLine, Unlock, Goto, fileVars, talkVars, Lockers, Marks,
       PressInv, TypeOK, PlacesOK, TalkOK, OutcomeOK, DoneInv
<1>11. OnlyNewestApplied'
  BY Disjoint DEF IInv, AddLine, Unlock, Goto, fileVars, talkVars, Lockers, Marks,
       OnlyNewestApplied, TypeOK, PlacesOK, TalkOK, ShownInv, DoneInv
<1>12. AnswersTrue'
  BY Disjoint DEF IInv, AddLine, Unlock, Goto, fileVars, talkVars, Lockers, Marks,
       AnswersTrue, TypeOK, PlacesOK, Outcomes, TalkOK, OutcomeOK, DoneInv, Running
<1>13. OutcomeOK' /\ NoSilentOverwrite'
  BY DEF IInv, TypeOK, AddLine, Unlock, fileVars, talkVars, OutcomeOK,
       NoSilentOverwrite
<1> QED BY <1>1, <1>2, <1>3, <1>4, <1>5, <1>6, <1>7, <1>8, <1>9, <1>10, <1>11,
     <1>12, <1>13 DEF IInv, TypeOK

(* The append fails.                                                       *)
LEMMA AppendFailsKeeps == ASSUME IInv, NEW a \in Appends, AppendFails(a) PROVE IInv'
<1>1. PlacesOK'
  BY Disjoint DEF IInv, AppendFails, Fault, Unlock, Goto, fileVars, talkVars,
       Lockers, Marks, PlacesOK, TypeOK, EditPlaces, AppendPlaces
<1>2. FileOK'
  BY Disjoint DEF IInv, AppendFails, Fault, Unlock, Goto, fileVars, talkVars,
       Lockers, Marks, FileOK, TypeOK
<1>3. TalkOK'
  BY Disjoint DEF IInv, AppendFails, Fault, Unlock, Goto, fileVars, talkVars,
       Lockers, Marks, TalkOK, TypeOK, PlacesOK, Answers
<1>4. OutcomeOK'
  BY Disjoint DEF IInv, AppendFails, Fault, Unlock, Goto, fileVars, talkVars,
       Lockers, Marks, OutcomeOK, TypeOK, Outcomes
<1>5. LockInv'
  BY Disjoint DEF IInv, AppendFails, Fault, Unlock, Goto, fileVars, talkVars,
       Lockers, Marks, LockInv, TypeOK, PlacesOK, FileOK
<1>6. LookInv'
  BY Disjoint DEF IInv, AppendFails, Fault, Unlock, Goto, fileVars, talkVars,
       Lockers, Marks, LookInv, TypeOK, PlacesOK, FileOK, LockInv, AbsentInv,
       Missed
<1>7. SlotInv'
  BY Disjoint DEF IInv, AppendFails, Fault, Unlock, Goto, fileVars, talkVars,
       Lockers, Marks, SlotInv, OnScreen, TypeOK, PlacesOK, TalkOK, ShownInv
<1>8. ShownInv'
  BY Disjoint DEF IInv, AppendFails, Fault, Unlock, Goto, fileVars, talkVars,
       Lockers, Marks, ShownInv, TypeOK, PlacesOK, TalkOK, SlotInv
<1>9. DoneInv'
  BY Disjoint DEF IInv, AppendFails, Fault, Unlock, Goto, fileVars, talkVars,
       Lockers, Marks, DoneInv, TypeOK, PlacesOK, TalkOK, OutcomeOK
<1>10. PressInv'
  BY Disjoint DEF IInv, AppendFails, Fault, Unlock, Goto, fileVars, talkVars,
       Lockers, Marks, PressInv, TypeOK, PlacesOK, TalkOK, OutcomeOK, DoneInv
<1>11. OnlyNewestApplied'
  BY Disjoint DEF IInv, AppendFails, Fault, Unlock, Goto, fileVars, talkVars,
       Lockers, Marks, OnlyNewestApplied, TypeOK, PlacesOK, TalkOK, ShownInv,
       DoneInv
<1>12. AnswersTrue'
  BY Disjoint DEF IInv, AppendFails, Fault, Unlock, Goto, fileVars, talkVars,
       Lockers, Marks, AnswersTrue, TypeOK, PlacesOK, Outcomes, TalkOK, OutcomeOK,
       DoneInv, Running
<1>13. AbsentInv' /\ NoSilentOverwrite'
  BY DEF IInv, AppendFails, Fault, Unlock, fileVars, talkVars, AbsentInv,
       NoSilentOverwrite
<1> QED BY <1>1, <1>2, <1>3, <1>4, <1>5, <1>6, <1>7, <1>8, <1>9, <1>10, <1>11,
     <1>12, <1>13 DEF IInv, TypeOK

(* An app reads.                                                           *)
LEMMA AppReadKeeps == ASSUME IInv, NEW x \in Apps, AppRead(x) PROVE IInv'
<1>1. PlacesOK'
  BY Disjoint DEF IInv, AppRead, Goto, fileVars, talkVars, Lockers, Marks,
       PlacesOK, TypeOK, EditPlaces, AppendPlaces
<1>2. FileOK'
  BY Disjoint DEF IInv, AppRead, Goto, fileVars, talkVars, Lockers, Marks, FileOK,
       TypeOK
<1>3. TalkOK'
  BY Disjoint DEF IInv, AppRead, Goto, fileVars, talkVars, Lockers, Marks, TalkOK,
       TypeOK, PlacesOK, Answers
<1>4. LockInv'
  BY Disjoint DEF IInv, AppRead, Goto, fileVars, talkVars, Lockers, Marks, LockInv,
       TypeOK, PlacesOK, FileOK
<1>5. LookInv'
  BY Disjoint DEF IInv, AppRead, Goto, fileVars, talkVars, Lockers, Marks, LookInv,
       TypeOK, PlacesOK, FileOK, LockInv, AbsentInv, Missed
<1>6. SlotInv'
  BY Disjoint DEF IInv, AppRead, Goto, fileVars, talkVars, Lockers, Marks, SlotInv,
       OnScreen,
       TypeOK, PlacesOK, TalkOK, ShownInv
<1>7. ShownInv'
  BY Disjoint DEF IInv, AppRead, Goto, fileVars, talkVars, Lockers, Marks,
       ShownInv, TypeOK, PlacesOK, TalkOK, SlotInv
<1>8. DoneInv'
  BY Disjoint DEF IInv, AppRead, Goto, fileVars, talkVars, Lockers, Marks, DoneInv,
       TypeOK, PlacesOK, TalkOK, OutcomeOK
<1>9. PressInv'
  BY Disjoint DEF IInv, AppRead, Goto, fileVars, talkVars, Lockers, Marks,
       PressInv, TypeOK, PlacesOK, TalkOK, OutcomeOK, DoneInv
<1>10. OnlyNewestApplied'
  BY Disjoint DEF IInv, AppRead, Goto, fileVars, talkVars, Lockers, Marks,
       OnlyNewestApplied, TypeOK, PlacesOK, TalkOK, ShownInv, DoneInv
<1>11. AnswersTrue'
  BY Disjoint DEF IInv, AppRead, Goto, fileVars, talkVars, Lockers, Marks,
       AnswersTrue, TypeOK, PlacesOK, Outcomes, TalkOK, OutcomeOK, DoneInv, Running
<1>12. OutcomeOK' /\ AbsentInv' /\ NoSilentOverwrite'
  BY DEF IInv, TypeOK, AppRead, fileVars, talkVars, OutcomeOK, AbsentInv,
       NoSilentOverwrite
<1> QED BY <1>1, <1>2, <1>3, <1>4, <1>5, <1>6, <1>7, <1>8, <1>9, <1>10, <1>11,
     <1>12 DEF IInv, TypeOK

(* An app writes: inside the window its marks count as late.               *)
LEMMA AppWriteKeeps == ASSUME IInv, NEW x \in Apps, AppWrite(x) PROVE IInv'
<1>1. PlacesOK'
  BY Disjoint DEF IInv, AppWrite, InWindow, Goto, fileVars, talkVars, Lockers,
       Marks, PlacesOK, TypeOK, EditPlaces, AppendPlaces
<1>2. FileOK'
  BY Disjoint DEF IInv, AppWrite, InWindow, Goto, fileVars, talkVars, Lockers,
       Marks, FileOK, TypeOK
<1>3. TalkOK'
  BY Disjoint DEF IInv, AppWrite, InWindow, Goto, fileVars, talkVars, Lockers,
       Marks, TalkOK, TypeOK, PlacesOK, Answers
<1>4. LockInv'
  BY Disjoint DEF IInv, AppWrite, InWindow, Goto, fileVars, talkVars, Lockers,
       Marks, LockInv, TypeOK, PlacesOK, FileOK
<1>5. AbsentInv'
  BY Disjoint DEF IInv, AppWrite, InWindow, Goto, fileVars, talkVars, Lockers,
       Marks, AbsentInv, TypeOK, FileOK
<1>6. LookInv'
  BY Disjoint DEF IInv, AppWrite, InWindow, Goto, fileVars, talkVars, Lockers,
       Marks, LookInv, TypeOK, PlacesOK, FileOK, LockInv, AbsentInv, Missed
<1>7. SlotInv'
  BY Disjoint DEF IInv, AppWrite, InWindow, Goto, fileVars, talkVars, Lockers,
       Marks, SlotInv, OnScreen, TypeOK, PlacesOK, TalkOK, ShownInv
<1>8. ShownInv'
  BY Disjoint DEF IInv, AppWrite, InWindow, Goto, fileVars, talkVars, Lockers,
       Marks, ShownInv, TypeOK, PlacesOK, TalkOK, SlotInv
<1>9. DoneInv'
  BY Disjoint DEF IInv, AppWrite, InWindow, Goto, fileVars, talkVars, Lockers,
       Marks, DoneInv, TypeOK, PlacesOK, TalkOK, OutcomeOK
<1>10. PressInv'
  BY Disjoint DEF IInv, AppWrite, InWindow, Goto, fileVars, talkVars, Lockers,
       Marks, PressInv, TypeOK, PlacesOK, TalkOK, OutcomeOK, DoneInv
<1>11. NoSilentOverwrite'
  BY Disjoint DEF IInv, AppWrite, InWindow, Goto, fileVars, talkVars, Lockers,
       Marks, NoSilentOverwrite, TypeOK, PlacesOK, FileOK, LookInv
<1>12. OnlyNewestApplied'
  BY Disjoint DEF IInv, AppWrite, InWindow, Goto, fileVars, talkVars, Lockers,
       Marks, OnlyNewestApplied, TypeOK, PlacesOK, TalkOK, ShownInv, DoneInv
<1>13. AnswersTrue'
  BY Disjoint DEF IInv, AppWrite, InWindow, Goto, fileVars, talkVars, Lockers,
       Marks, AnswersTrue, TypeOK, PlacesOK, Outcomes, TalkOK, OutcomeOK, DoneInv,
       Running
<1>14. OutcomeOK'
  BY DEF IInv, TypeOK, AppWrite, fileVars, talkVars, OutcomeOK
<1> QED BY <1>1, <1>2, <1>3, <1>4, <1>5, <1>6, <1>7, <1>8, <1>9, <1>10, <1>11,
     <1>12, <1>13, <1>14 DEF IInv, TypeOK

(* An app appends, likewise.                                               *)
LEMMA AppAppendKeeps == ASSUME IInv, NEW x \in Apps, AppAppend(x) PROVE IInv'
<1>1. PlacesOK'
  BY Disjoint DEF IInv, AppAppend, PutUnlocked, InWindow, Goto, fileVars, talkVars,
       Lockers, Marks, PlacesOK, TypeOK, EditPlaces, AppendPlaces
<1>2. FileOK'
  BY Disjoint DEF IInv, AppAppend, PutUnlocked, InWindow, Goto, fileVars, talkVars,
       Lockers, Marks, FileOK, TypeOK
<1>3. TalkOK'
  BY Disjoint DEF IInv, AppAppend, PutUnlocked, InWindow, Goto, fileVars, talkVars,
       Lockers, Marks, TalkOK, TypeOK, PlacesOK, Answers
<1>4. LockInv'
  BY Disjoint DEF IInv, AppAppend, PutUnlocked, InWindow, Goto, fileVars, talkVars,
       Lockers, Marks, LockInv, TypeOK, PlacesOK, FileOK
<1>5. AbsentInv'
  BY Disjoint DEF IInv, AppAppend, PutUnlocked, InWindow, Goto, fileVars, talkVars,
       Lockers, Marks, AbsentInv, TypeOK, FileOK
<1>6. LookInv'
  BY Disjoint DEF IInv, AppAppend, PutUnlocked, InWindow, Goto, fileVars, talkVars,
       Lockers, Marks, LookInv, TypeOK, PlacesOK, FileOK, LockInv, AbsentInv,
       Missed
<1>7. SlotInv'
  BY Disjoint DEF IInv, AppAppend, PutUnlocked, InWindow, Goto, fileVars, talkVars,
       Lockers, Marks, SlotInv, OnScreen, TypeOK, PlacesOK, TalkOK, ShownInv
<1>8. ShownInv'
  BY Disjoint DEF IInv, AppAppend, PutUnlocked, InWindow, Goto, fileVars, talkVars,
       Lockers, Marks, ShownInv, TypeOK, PlacesOK, TalkOK, SlotInv
<1>9. DoneInv'
  BY Disjoint DEF IInv, AppAppend, PutUnlocked, InWindow, Goto, fileVars, talkVars,
       Lockers, Marks, DoneInv, TypeOK, PlacesOK, TalkOK, OutcomeOK
<1>10. PressInv'
  BY Disjoint DEF IInv, AppAppend, PutUnlocked, InWindow, Goto, fileVars, talkVars,
       Lockers, Marks, PressInv, TypeOK, PlacesOK, TalkOK, OutcomeOK, DoneInv
<1>11. NoSilentOverwrite'
  BY Disjoint DEF IInv, AppAppend, PutUnlocked, InWindow, Goto, fileVars, talkVars,
       Lockers, Marks, NoSilentOverwrite, TypeOK, PlacesOK, FileOK, LookInv
<1>12. OnlyNewestApplied'
  BY Disjoint DEF IInv, AppAppend, PutUnlocked, InWindow, Goto, fileVars, talkVars,
       Lockers, Marks, OnlyNewestApplied, TypeOK, PlacesOK, TalkOK, ShownInv,
       DoneInv
<1>13. AnswersTrue'
  BY Disjoint DEF IInv, AppAppend, PutUnlocked, InWindow, Goto, fileVars, talkVars,
       Lockers, Marks, AnswersTrue, TypeOK, PlacesOK, Outcomes, TalkOK, OutcomeOK,
       DoneInv, Running
<1>14. OutcomeOK'
  BY DEF IInv, TypeOK, AppAppend, PutUnlocked, fileVars, talkVars, OutcomeOK
<1> QED BY <1>1, <1>2, <1>3, <1>4, <1>5, <1>6, <1>7, <1>8, <1>9, <1>10, <1>11,
     <1>12, <1>13, <1>14 DEF IInv, TypeOK

(* An app moves the file away: nothing is left to miss.                    *)
LEMMA AppArchiveKeeps == ASSUME IInv, NEW x \in Apps, AppArchive(x) PROVE IInv'
<1>1. PlacesOK'
  BY Disjoint DEF IInv, AppArchive, Goto, fileVars, talkVars, Lockers, Marks,
       PlacesOK, TypeOK, EditPlaces, AppendPlaces
<1>2. FileOK'
  BY Disjoint DEF IInv, AppArchive, Goto, fileVars, talkVars, Lockers, Marks,
       FileOK, TypeOK
<1>3. TalkOK'
  BY Disjoint DEF IInv, AppArchive, Goto, fileVars, talkVars, Lockers, Marks,
       TalkOK, TypeOK, PlacesOK, Answers
<1>4. LockInv'
  BY Disjoint DEF IInv, AppArchive, Goto, fileVars, talkVars, Lockers, Marks,
       LockInv, TypeOK, PlacesOK, FileOK
<1>5. AbsentInv'
  BY Disjoint DEF IInv, AppArchive, Goto, fileVars, talkVars, Lockers, Marks,
       AbsentInv, TypeOK, FileOK
<1>6. LookInv'
  BY Disjoint DEF IInv, AppArchive, Goto, fileVars, talkVars, Lockers, Marks,
       LookInv, TypeOK, PlacesOK, FileOK, LockInv, AbsentInv, Missed
<1>7. SlotInv'
  BY Disjoint DEF IInv, AppArchive, Goto, fileVars, talkVars, Lockers, Marks,
       SlotInv, OnScreen, TypeOK, PlacesOK, TalkOK, ShownInv
<1>8. ShownInv'
  BY Disjoint DEF IInv, AppArchive, Goto, fileVars, talkVars, Lockers, Marks,
       ShownInv, TypeOK, PlacesOK, TalkOK, SlotInv
<1>9. DoneInv'
  BY Disjoint DEF IInv, AppArchive, Goto, fileVars, talkVars, Lockers, Marks,
       DoneInv, TypeOK, PlacesOK, TalkOK, OutcomeOK
<1>10. PressInv'
  BY Disjoint DEF IInv, AppArchive, Goto, fileVars, talkVars, Lockers, Marks,
       PressInv, TypeOK, PlacesOK, TalkOK, OutcomeOK, DoneInv
<1>11. OnlyNewestApplied'
  BY Disjoint DEF IInv, AppArchive, Goto, fileVars, talkVars, Lockers, Marks,
       OnlyNewestApplied, TypeOK, PlacesOK, TalkOK, ShownInv, DoneInv
<1>12. AnswersTrue'
  BY Disjoint DEF IInv, AppArchive, Goto, fileVars, talkVars, Lockers, Marks,
       AnswersTrue, TypeOK, PlacesOK, Outcomes, TalkOK, OutcomeOK, DoneInv, Running
<1>13. OutcomeOK' /\ NoSilentOverwrite'
  BY DEF IInv, TypeOK, AppArchive, fileVars, talkVars, OutcomeOK, NoSilentOverwrite
<1> QED BY <1>1, <1>2, <1>3, <1>4, <1>5, <1>6, <1>7, <1>8, <1>9, <1>10, <1>11,
     <1>12, <1>13 DEF IInv, TypeOK

(* The process dies.                                                       *)
LEMMA CrashKeeps == ASSUME IInv, Crash PROVE IInv'
<1>1. PlacesOK'
  BY Disjoint DEF IInv, Crash, Fault, Goto, fileVars, talkVars, Lockers, Marks,
       PlacesOK, TypeOK, EditPlaces, AppendPlaces
<1>2. FileOK'
  BY Disjoint DEF IInv, Crash, Fault, Goto, fileVars, talkVars, Lockers, Marks,
       FileOK, TypeOK
<1>3. TalkOK'
  BY Disjoint DEF IInv, Crash, Fault, Goto, fileVars, talkVars, Lockers, Marks,
       TalkOK, TypeOK, PlacesOK, Answers
<1>4. OutcomeOK'
  BY Disjoint DEF IInv, Crash, Fault, Goto, fileVars, talkVars, Lockers, Marks,
       OutcomeOK, TypeOK, Outcomes
<1>5. LockInv'
  BY Disjoint DEF IInv, Crash, Fault, Goto, fileVars, talkVars, Lockers, Marks,
       LockInv, TypeOK, PlacesOK, FileOK
<1>6. LookInv'
  BY Disjoint DEF IInv, Crash, Fault, Goto, fileVars, talkVars, Lockers, Marks,
       LookInv, TypeOK, PlacesOK, FileOK, LockInv, AbsentInv, Missed
<1>7. SlotInv'
  BY Disjoint DEF IInv, Crash, Fault, Goto, fileVars, talkVars, Lockers, Marks,
       SlotInv, OnScreen, TypeOK, PlacesOK, TalkOK, ShownInv
<1>8. ShownInv'
  BY Disjoint DEF IInv, Crash, Fault, Goto, fileVars, talkVars, Lockers, Marks,
       ShownInv, TypeOK, PlacesOK, TalkOK, SlotInv
<1>9. DoneInv'
  BY Disjoint DEF IInv, Crash, Fault, Goto, fileVars, talkVars, Lockers, Marks,
       DoneInv, TypeOK, PlacesOK, TalkOK, OutcomeOK
<1>10. PressInv'
  BY Disjoint DEF IInv, Crash, Fault, Goto, fileVars, talkVars, Lockers, Marks,
       PressInv, TypeOK, PlacesOK, TalkOK, OutcomeOK, DoneInv
<1>11. OnlyNewestApplied'
  BY Disjoint DEF IInv, Crash, Fault, Goto, fileVars, talkVars, Lockers, Marks,
       OnlyNewestApplied, TypeOK, PlacesOK, TalkOK, ShownInv, DoneInv
<1>12. AnswersTrue'
  BY Disjoint DEF IInv, Crash, Fault, Goto, fileVars, talkVars, Lockers, Marks,
       AnswersTrue, TypeOK, PlacesOK, Outcomes, TalkOK, OutcomeOK, DoneInv, Running
<1>13. AbsentInv' /\ NoSilentOverwrite'
  BY DEF IInv, Crash, Fault, fileVars, talkVars, AbsentInv, NoSilentOverwrite
<1> QED BY <1>1, <1>2, <1>3, <1>4, <1>5, <1>6, <1>7, <1>8, <1>9, <1>10, <1>11,
     <1>12, <1>13 DEF IInv, TypeOK

-----------------------------------------------------------------------------
(* Nothing is proposed at the start.                                       *)
LEMMA Initially == Init => IInv
<1> SUFFICES ASSUME Init PROVE IInv
  OBVIOUS
<1>1. TypeOK
  BY Disjoint DEF Init, TypeOK, PlacesOK, FileOK, TalkOK, OutcomeOK, EditPlaces,
     AppendPlaces, Marks, Lockers
<1>2. \A m \in Marks : pc[m] = "idle"
  BY DEF Init
<1>3. LockInv /\ AbsentInv /\ LookInv
  BY <1>2 DEF Init, LockInv, AbsentInv, LookInv, Marks, Lockers
<1>4. SlotInv /\ ShownInv /\ DoneInv /\ PressInv
  BY <1>2 DEF Init, SlotInv, ShownInv, DoneInv, PressInv, Marks, Lockers
<1>5. NoSilentOverwrite /\ OnlyNewestApplied /\ AnswersTrue
  BY Disjoint DEF Init, NoSilentOverwrite, OnlyNewestApplied, AnswersTrue,
     Outcomes, Answers
<1> QED BY <1>1, <1>3, <1>4, <1>5 DEF IInv

(* Every step keeps the invariant.                                         *)
LEMMA NextKeeps == IInv /\ [Next]_vars => IInv'
<1> SUFFICES ASSUME IInv, [Next]_vars PROVE IInv'
  OBVIOUS
<1>1. ASSUME NEW e \in Edits, Command(e) \/ OfferFails(e) \/ Throws(e) \/ DropPress(e)
      PROVE  IInv'
  BY <1>1, CommandKeeps, OfferFailsKeeps, ThrowsKeeps, DropPressKeeps
<1>2. ASSUME NEW e \in Edits, EditStep(e) PROVE IInv'
  <2>1. e \in Lockers
    BY DEF Lockers
  <2> QED
    BY <1>2, <2>1, RefuseKeeps, ReadBeforeKeeps, GenerateKeeps, ListenKeeps, ExpireKeeps,
       TimeOutKeeps, ConfirmTooLateKeeps, ConfirmKeeps, ConfirmExpiredKeeps,
       CancelKeeps, VanishedKeeps, FreshKeeps, StaleKeeps,
       WriteKeeps, RecordKeeps, LockKeeps DEF EditStep
<1>3. ASSUME NEW e \in Edits, NEW button \in Buttons, Tap(e, button) PROVE IInv'
  BY <1>3, TapKeeps
<1>4. ASSUME NEW a \in Appends, StartAppend(a) \/ AppendStep(a) \/ AppendFails(a)
      PROVE  IInv'
  <2>1. a \in Lockers
    BY DEF Lockers
  <2> QED BY <1>4, <2>1, StartAppendKeeps, LockKeeps, StatKeeps, CreateKeeps, AddLineKeeps,
             AppendFailsKeeps DEF AppendStep
<1>5. ASSUME NEW x \in Apps, AppStep(x) PROVE IInv'
  BY <1>5, AppReadKeeps, AppWriteKeeps, AppAppendKeeps, AppArchiveKeeps DEF AppStep
<1>6. CASE Crash
  BY <1>6, CrashKeeps
<1>7. CASE UNCHANGED vars
  <2>1. TypeOK'
    BY <1>7 DEF vars, IInv, TypeOK, PlacesOK, FileOK, TalkOK, OutcomeOK
  <2>2. LockInv' /\ AbsentInv' /\ LookInv' /\ NoSilentOverwrite'
    BY <1>7 DEF vars, IInv, LockInv, AbsentInv, LookInv, Missed, NoSilentOverwrite
  <2>3. SlotInv' /\ ShownInv' /\ DoneInv' /\ PressInv'
    BY <1>7 DEF vars, IInv, SlotInv, ShownInv, DoneInv, PressInv
  <2>4. OnlyNewestApplied' /\ AnswersTrue'
    BY <1>7 DEF vars, IInv, OnlyNewestApplied, AnswersTrue, Running
  <2> QED BY <2>1, <2>2, <2>3, <2>4 DEF IInv
<1> QED BY <1>1, <1>2, <1>3, <1>4, <1>5, <1>6, <1>7 DEF Next

(* The inductive invariant: a writer holds the lock, and the slot holds    *)
(* what is shown and not superseded.                                       *)
THEOREM Invariance == Spec => []IInv
  BY Initially, NextKeeps, PTL DEF Spec

(* For any calls, users and faults: the file, the proposals, the slots and *)
(* the answers keep their shape.                                           *)
THEOREM TypeCorrect == Spec => []TypeOK
<1>1. IInv => TypeOK
  BY DEF IInv
<1> QED BY <1>1, Invariance, PTL

(* A holder of the file's lock overwrites nothing it has not looked at,    *)
(* but for what was put without the lock meanwhile.                        *)
THEOREM SafeOverwrites == Spec => []NoSilentOverwrite
<1>1. IInv => NoSilentOverwrite
  BY DEF IInv
<1> QED BY <1>1, Invariance, PTL

(* No proposal is applied that was not confirmed, or that a newer one of   *)
(* its user had replaced, whatever previews are pressed in whatever order. *)
THEOREM NewestApplied == Spec => []OnlyNewestApplied
<1>1. IInv => OnlyNewestApplied
  BY DEF IInv
<1> QED BY <1>1, Invariance, PTL

(* What a user is told and what the edit log says is what happened to the  *)
(* file.                                                                   *)
THEOREM TrueAnswers == Spec => []AnswersTrue
<1>1. IInv => AnswersTrue
  BY DEF IInv
<1> QED BY <1>1, Invariance, PTL

(* Over the webhook, where a press is delivered while its command runs:    *)
(* a press in time, not so early that it is dropped, is answered.          *)
THEOREM PressesAnswered == ASSUME ~Sequential PROVE Spec => []PressAnswered
<1>1. IInv => PressAnswered
  BY DEF IInv, PressInv, PressAnswered
<1> QED BY <1>1, Invariance, PTL
=============================================================================
