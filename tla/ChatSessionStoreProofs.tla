----------------------- MODULE ChatSessionStoreProofs -----------------------
(***************************************************************************)
(* Theorems about ChatSessionStore, for every set of calls, keys and ids   *)
(* and every number of faults: the inductive invariant IInv, the safety    *)
(* invariants and action property it implies, and that the store is a      *)
(* ledger (ChatLedger).                                                    *)
(***************************************************************************)
EXTENDS ChatSessionStore, TLAPS

-----------------------------------------------------------------------------
(* Transcripts and rows                                                    *)

LEMMA NoFileType == NoFile \in Transcript
BY DEF NoFile, Transcript

LEMMA SkeletonType ==
    \A x \in Calls \cup {None} :
      /\ Skeleton(x) \in Transcript
      /\ Skeleton(x).there /\ ~Skeleton(x).ended /\ Skeleton(x).turns = <<>>
BY DEF Skeleton, Transcript

\* The edits of a transcript give a transcript, and change nothing else of it.
LEMMA EndedType ==
    \A t \in Transcript :
      /\ MarkEnded(t) \in Transcript
      /\ MarkEnded(t).there = t.there
      /\ MarkEnded(t).ended
      /\ MarkEnded(t).garbled = t.garbled
      /\ MarkEnded(t).turns = t.turns
BY DEF MarkEnded, Transcript

LEMMA RetitledType ==
    ASSUME NEW t \in Transcript, NEW c \in Calls
    PROVE  /\ Retitled(t, c) \in Transcript
           /\ Retitled(t, c).there = t.there
           /\ Retitled(t, c).ended = t.ended
           /\ Retitled(t, c).garbled = t.garbled
           /\ Retitled(t, c).turns = t.turns
BY DEF Retitled, Transcript

LEMMA ResnappedType ==
    ASSUME NEW t \in Transcript, NEW c \in Calls
    PROVE  /\ Resnapped(t, c) \in Transcript
           /\ Resnapped(t, c).there = t.there
           /\ Resnapped(t, c).ended = t.ended
           /\ Resnapped(t, c).garbled = t.garbled
           /\ Resnapped(t, c).turns = t.turns
BY DEF Resnapped, Transcript

LEMMA UndecodableType ==
    \A t \in Transcript :
      /\ Undecodable(t) \in Transcript
      /\ Undecodable(t).there = t.there
      /\ Undecodable(t).ended = t.ended
      /\ Undecodable(t).garbled
      /\ Undecodable(t).turns = t.turns
BY DEF Undecodable, Transcript

LEMMA WithExchangeType ==
    ASSUME NEW t \in Transcript, NEW c \in Calls, t.there
    PROVE  /\ WithExchange(t, c) \in Transcript
           /\ WithExchange(t, c).there
           /\ WithExchange(t, c).ended = t.ended
           /\ WithExchange(t, c).garbled = t.garbled
           /\ WithExchange(t, c).turns = Append(t.turns, c)
<1>1. WithExchange(t, c) = [t EXCEPT !.turns = Append(t.turns, c)]
    BY DEF WithExchange
<1>2. Append(t.turns, c) \in Seq(Calls)
    BY DEF Transcript
<1> QED
    BY <1>1, <1>2 DEF Transcript

LEMMA NoRowType == NoRow \in Row /\ [NoRow EXCEPT !.there = TRUE] \in Row
BY DEF NoRow, Row

LEMMA RowEditTypes ==
    ASSUME NEW r \in Row, NEW c \in Calls, NEW i \in Nat
    PROVE  /\ RowOpened(r) \in Row
           /\ RowEnded(r) \in Row
           /\ RowRetitled(r, c) \in Row
           /\ RowWith(r, i, c) \in Row
<1>1. RowOpened(r) \in Row /\ RowEnded(r) \in Row
    BY DEF RowOpened, RowEnded, Row
<1>2. RowRetitled(r, c) \in Row
    BY DEF RowRetitled, Row
<1>3. RowWith(r, i, c) \in Row
  <2>1. r.msgs \cup {<<i, c>>} \in SUBSET (Nat \X Calls)
      BY DEF Row
  <2>2. [r EXCEPT !.msgs = r.msgs \cup {<<i, c>>}] \in Row
      BY <2>1 DEF Row
  <2> QED
      BY <2>2 DEF RowWith
<1> QED
    BY <1>1, <1>2, <1>3

LEMMA TurnIndexType == \A t \in Transcript : TurnIndex(t) \in Nat
BY DEF TurnIndex, Transcript

LEMMA StoredFacts ==
    ASSUME file \in [Ids -> Transcript],
           NEW s \in Ids, NEW t \in Transcript, NEW o
    PROVE  /\ Stored(s, t, o) \in [Ids -> Transcript]
           /\ Stored(s, t, o)[s] = (IF Wrote(o) THEN t ELSE file[s])
           /\ \A z \in Ids \ {s} : Stored(s, t, o)[z] = file[z]
BY DEF Stored

LEMMA ChargeType ==
    ASSUME NEW o, Charge(o), faults \in 0 .. MaxFaults
    PROVE  faults' \in 0 .. MaxFaults
BY StoreAssumption DEF Charge

-----------------------------------------------------------------------------
(* The inductive invariant                                                 *)

LEMMA InitIInv == Init => IInv
<1> SUFFICES ASSUME Init PROVE IInv
    OBVIOUS
<1> USE StoreAssumption
<1>1. PICK k \in Keys, s \in Ids \cup {None} : FilesFrom(k, s)
    BY DEF Init
<1>2. TypeOK
    BY <1>1, NoFileType, NoRowType, SkeletonType
       DEF Init, TypeOK, FilesFrom, Request, Ops, PCs, MaxMintAttempts
<1>3. \A z \in Ids : file[z].turns = <<>>
    BY <1>1, SkeletonType DEF FilesFrom, NoFile
<1>4. FreshInv /\ AbsentInv
    BY <1>3 DEF FreshInv, AbsentInv
<1>5. PublishedHasFile /\ OneKeyPerSession
    BY <1>1, <1>2, SkeletonType
       DEF FilesFrom, PublishedHasFile, OneKeyPerSession, TypeOK
<1>6. TriesInv /\ LockInv /\ BoundInv /\ CopyInv /\ MintInv /\ RebuildInv
    BY DEF Init, TriesInv, LockInv, BoundInv, CopyInv, MintInv, RebuildInv,
           InIndexSection, InFileSection, Bound
<1> QED
    BY <1>2, <1>4, <1>5, <1>6 DEF IInv

LEMMA TypeStep ==
    ASSUME IInv, NEW c \in Calls, StoreStep(c)
    PROVE  TypeOK'
<1> USE StoreAssumption
        DEF IInv, TypeOK, Goto, PCs, shared, locals
<1>1. CASE Reuse(c)
    BY <1>1
       DEF Reuse, Request, BoundInv, Bound, InFileSection
<1>2. CASE BeginMint(c)
    BY <1>2
       DEF BeginMint, BoundInv, Bound, InFileSection
<1>3. ASSUME NEW s \in Ids, MintCollision(c, s) PROVE TypeOK'
    BY <1>3
       DEF MintCollision, NoMoreAttempts, MaxMintAttempts, TriesInv, BoundInv, Bound, InFileSection
<1>4. ASSUME NEW s \in Ids, MintFile(c, s) PROVE TypeOK'
    BY <1>4, SkeletonType, StoredFacts, ChargeType
       DEF MintFile, Throws, IdTaken, BoundInv, Bound, InFileSection
<1>5. CASE MintRow(c)
    BY <1>5, RowEditTypes, ChargeType
       DEF MintRow, BoundInv, Bound, InFileSection
<1>6. CASE Publish(c)
    BY <1>6, ChargeType
       DEF Publish, Request, Throws, BoundInv, Bound, InFileSection
<1>7. CASE AppendExpected(c)
    BY <1>7
       DEF AppendExpected, Request, BoundInv, Bound, InFileSection
<1>8. CASE AppendRead(c)
    BY <1>8
       DEF AppendRead, LockAndRead, Unlocked, BoundInv, Bound, InFileSection
<1>9. CASE AppendWrite(c)
  <2>1. sid[c] \in Ids /\ copy[c] = file[sid[c]] /\ file[sid[c]].there
    BY <1>9 DEF AppendWrite, BoundInv, Bound, CopyInv, InFileSection
  <2>2. WithExchange(copy[c], c) \in Transcript
    BY <2>1, WithExchangeType
  <2>3. PICK o \in Outcomes :
            /\ Charge(o) /\ file' = Stored(sid[c], WithExchange(copy[c], c), o)
            /\ did' = [did EXCEPT ![c] = ~Throws(o)]
            /\ pc' = [pc EXCEPT ![c] = IF Throws(o) THEN "failed" ELSE "appendRows"]
    BY <1>9 DEF AppendWrite
  <2>4. file' \in [Ids -> Transcript] /\ faults' \in 0 .. MaxFaults
    BY <2>1, <2>2, <2>3, StoredFacts, ChargeType
  <2>5. did' \in [Calls -> BOOLEAN] /\ pc' \in [Calls -> PCs]
    BY <2>3 DEF Throws
  <2>6. fileLock' \in [Ids -> Calls \cup {None}] /\ copy' \in [Calls -> Transcript]
    BY <1>9, <2>1, NoFileType DEF AppendWrite, Unlock, Freed
  <2>7. at' \in [Calls -> Nat]
    BY <1>9, TurnIndexType DEF AppendWrite
  <2> QED
    BY <1>9, <2>4, <2>5, <2>6, <2>7 DEF AppendWrite
<1>10. CASE AppendRows(c)
  <2>1. sid[c] \in Ids
      BY <1>10 DEF AppendRows, BoundInv, Bound
  <2>2. RowWith(row[sid[c]], at[c], c) \in Row
      BY <2>1, RowEditTypes
  <2>3. row' \in [Ids -> Row]
      BY <1>10, <2>1, <2>2 DEF AppendRows
  <2> QED
      BY <1>10, <2>3, ChargeType DEF AppendRows
<1>11. CASE EndCheck(c)
    BY <1>11
       DEF EndCheck, Request, BoundInv, Bound, InFileSection
<1>12. CASE EndReadDead(c)
    BY <1>12
       DEF EndReadDead, BoundInv, Bound, InFileSection
<1>13. CASE EndRead(c)
    BY <1>13
       DEF EndRead, LockAndRead, Unlocked, BoundInv, Bound, InFileSection
<1>14. CASE EndWrite(c)
  <2>1. sid[c] \in Ids /\ copy[c] = file[sid[c]] /\ file[sid[c]].there
    BY <1>14 DEF EndWrite, BoundInv, Bound, CopyInv, InFileSection
  <2>2. MarkEnded(copy[c]) \in Transcript
    BY <2>1, EndedType
  <2>3. PICK o \in Outcomes :
            /\ Charge(o) /\ file' = Stored(sid[c], MarkEnded(copy[c]), o)
            /\ did' = [did EXCEPT ![c] = ~Throws(o)]
            /\ pc' = [pc EXCEPT ![c] = IF Throws(o) THEN "failed" ELSE "endClear"]
    BY <1>14 DEF EndWrite
  <2>4. file' \in [Ids -> Transcript] /\ faults' \in 0 .. MaxFaults
    BY <2>1, <2>2, <2>3, StoredFacts, ChargeType
  <2>5. did' \in [Calls -> BOOLEAN] /\ pc' \in [Calls -> PCs]
    BY <2>3 DEF Throws
  <2>6. fileLock' \in [Ids -> Calls \cup {None}] /\ copy' \in [Calls -> Transcript]
    BY <1>14, <2>1, NoFileType DEF EndWrite, Unlock, Freed
  <2> QED
    BY <1>14, <2>4, <2>5, <2>6 DEF EndWrite
<1>15. CASE EndClear(c)
    BY <1>15, ChargeType
       DEF EndClear, Cleared, Throws, BoundInv, Bound, InFileSection
<1>16. CASE EndRow(c)
    BY <1>16, RowEditTypes, ChargeType
       DEF EndRow, BoundInv, Bound, InFileSection
<1>17. CASE TitleRefused(c)
    BY <1>17
       DEF TitleRefused, BoundInv, Bound, InFileSection
<1>18. CASE TitleRead(c)
    BY <1>18
       DEF TitleRead, LockAndRead, Unlocked, Request, BoundInv, Bound, InFileSection
<1>19. CASE TitleWrite(c)
  <2>1. sid[c] \in Ids /\ copy[c] = file[sid[c]] /\ file[sid[c]].there
    BY <1>19 DEF TitleWrite, BoundInv, Bound, CopyInv, InFileSection
  <2>2. Retitled(copy[c], c) \in Transcript
    BY <2>1, RetitledType
  <2>3. PICK o \in Outcomes :
            /\ Charge(o) /\ file' = Stored(sid[c], Retitled(copy[c], c), o)
            /\ did' = [did EXCEPT ![c] = ~Throws(o)]
            /\ pc' = [pc EXCEPT ![c] = IF Throws(o) THEN "failed" ELSE "titleRow"]
    BY <1>19 DEF TitleWrite
  <2>4. file' \in [Ids -> Transcript] /\ faults' \in 0 .. MaxFaults
    BY <2>1, <2>2, <2>3, StoredFacts, ChargeType
  <2>5. did' \in [Calls -> BOOLEAN] /\ pc' \in [Calls -> PCs]
    BY <2>3 DEF Throws
  <2>6. fileLock' \in [Ids -> Calls \cup {None}] /\ copy' \in [Calls -> Transcript]
    BY <1>19, <2>1, NoFileType DEF TitleWrite, Unlock, Freed
  <2> QED
    BY <1>19, <2>4, <2>5, <2>6 DEF TitleWrite
<1>20. CASE TitleRow(c)
  <2>1. sid[c] \in Ids
      BY <1>20 DEF TitleRow, BoundInv, Bound
  <2>2. RowRetitled(row[sid[c]], c) \in Row
      BY <2>1, RowEditTypes
  <2>3. row' \in [Ids -> Row]
      BY <1>20, <2>1, <2>2 DEF TitleRow
  <2> QED
      BY <1>20, <2>3, ChargeType DEF TitleRow
<1>21. CASE RebuildCheck(c)
    BY <1>21
       DEF RebuildCheck, Request, BoundInv, Bound, InFileSection
<1>22. CASE RebuildFails(c)
    BY <1>22
       DEF RebuildFails, BoundInv, Bound, InFileSection
<1>23. CASE RebuildLockIndex(c)
    BY <1>23
       DEF RebuildLockIndex, BoundInv, Bound, InFileSection
<1>24. CASE RebuildAbort(c)
    BY <1>24
       DEF RebuildAbort, BoundInv, Bound, InFileSection
<1>25. CASE RebuildRead(c)
    BY <1>25
       DEF RebuildRead, LockAndRead, Unlocked, RebuildStillValid, BoundInv, Bound, InFileSection
<1>26. CASE RebuildWrite(c)
  <2>1. sid[c] \in Ids /\ copy[c] = file[sid[c]] /\ file[sid[c]].there
    BY <1>26 DEF RebuildWrite, BoundInv, Bound, CopyInv, InFileSection
  <2>2. Resnapped(copy[c], c) \in Transcript
    BY <2>1, ResnappedType
  <2>3. PICK o \in Outcomes :
            /\ Charge(o) /\ file' = Stored(sid[c], Resnapped(copy[c], c), o)
            /\ did' = [did EXCEPT ![c] = ~Throws(o)]
            /\ pc' = [pc EXCEPT ![c] = IF Throws(o) THEN "failed" ELSE "ok"]
    BY <1>26 DEF RebuildWrite
  <2>4. file' \in [Ids -> Transcript] /\ faults' \in 0 .. MaxFaults
    BY <2>1, <2>2, <2>3, StoredFacts, ChargeType
  <2>5. did' \in [Calls -> BOOLEAN] /\ pc' \in [Calls -> PCs]
    BY <2>3 DEF Throws
  <2>6. fileLock' \in [Ids -> Calls \cup {None}] /\ copy' \in [Calls -> Transcript]
    BY <1>26, <2>1, NoFileType DEF RebuildWrite, Unlock, Freed
  <2> QED
    BY <1>26, <2>4, <2>5, <2>6 DEF RebuildWrite
<1> QED
    BY <1>1, <1>2, <1>3, <1>4, <1>5, <1>6, <1>7, <1>8, <1>9, <1>10, <1>11, <1>12, <1>13,
       <1>14, <1>15, <1>16, <1>17, <1>18, <1>19, <1>20, <1>21, <1>22, <1>23, <1>24, <1>25, <1>26
    DEF StoreStep

\* The parts of the invariant that tie locks, program counters and files.
StructInv ==
    /\ TriesInv
    /\ LockInv
    /\ BoundInv
    /\ CopyInv
    /\ MintInv
    /\ RebuildInv
    /\ PublishedHasFile
    /\ OneKeyPerSession

LEMMA StructStep ==
    ASSUME IInv, TypeOK', NEW c \in Calls, StoreStep(c)
    PROVE  StructInv'
<1> USE StoreAssumption
<1> USE DEF IInv, TypeOK, Goto, shared, locals, StructInv, TriesInv, LockInv,
            BoundInv, CopyInv, MintInv, RebuildInv, PublishedHasFile,
            OneKeyPerSession, InIndexSection, InFileSection, Bound, Request
<1>1. CASE Reuse(c)
  <2>1. TriesInv' /\ LockInv'
      BY <1>1 DEF Reuse, HasOpen
  <2>2. BoundInv'
      BY <1>1 DEF Reuse, HasOpen
  <2>3. CopyInv'
      BY <1>1 DEF Reuse, HasOpen
  <2>4. MintInv' /\ RebuildInv'
      BY <1>1 DEF Reuse, HasOpen
  <2>5. PublishedHasFile' /\ OneKeyPerSession'
      BY <1>1 DEF Reuse, HasOpen
  <2> QED
      BY <2>1, <2>2, <2>3, <2>4, <2>5
<1>2. CASE BeginMint(c)
    BY <1>2 DEF BeginMint
<1>3. ASSUME NEW s \in Ids, MintCollision(c, s) PROVE StructInv'
    BY <1>3 DEF MintCollision, NoMoreAttempts, IdTaken, MaxMintAttempts
<1>4. ASSUME NEW s \in Ids, MintFile(c, s) PROVE StructInv'
  <2>a. \A d \in Calls : pc[d] \in Bound => sid[d] # s
      BY <1>4 DEF MintFile, IdTaken
  <2>b. /\ ~file[s].there
        /\ file' \in [Ids -> Transcript]
        /\ \A z \in Ids \ {s} : file'[z] = file[z]
        /\ pc'[c] = "mintRow" => file'[s].there
    <3>1. PICK o \in Outcomes, x \in Calls \cup {None} :
            /\ file' = Stored(s, Skeleton(x), o)
            /\ pc'[c] = "mintRow" => Wrote(o)
        BY <1>4 DEF MintFile, Throws, Wrote
    <3> QED
        BY <1>4, <3>1, StoredFacts, SkeletonType DEF MintFile, IdTaken
  <2>1. TriesInv' /\ LockInv'
      BY <1>4, <2>a, <2>b DEF MintFile, Throws
  <2>2. BoundInv'
      BY <1>4, <2>a, <2>b DEF MintFile, Throws
  <2>3. CopyInv'
      BY <1>4, <2>a, <2>b DEF MintFile, Throws
  <2>4. MintInv' /\ RebuildInv'
      BY <1>4, <2>a, <2>b DEF MintFile, Throws
  <2>5. PublishedHasFile' /\ OneKeyPerSession'
      BY <1>4, <2>a, <2>b DEF MintFile, Throws
  <2> QED
      BY <2>1, <2>2, <2>3, <2>4, <2>5
<1>5. CASE MintRow(c)
    BY <1>5 DEF MintRow
<1>6. CASE Publish(c)
  <2>1. TriesInv' /\ LockInv'
      BY <1>6 DEF Publish, Throws
  <2>2. BoundInv' /\ CopyInv'
      BY <1>6 DEF Publish, Throws
  <2>3. \A d \in Calls \ {c} : pc[d] \notin InIndexSection
      BY <1>6 DEF Publish
  <2>4. MintInv' /\ RebuildInv'
      BY <1>6, <2>3 DEF Publish, Throws
  <2>5. index' = index \/ index' = [index EXCEPT ![req[c].key] = sid[c]]
      BY <1>6 DEF Publish
  <2>6. /\ file' = file /\ sid[c] \in Ids /\ file[sid[c]].there
        /\ \A k \in Keys : index[k] # sid[c]
      BY <1>6 DEF Publish
  <2>7. /\ index \in [Keys -> Ids \cup {None}] /\ req[c].key \in Keys
        /\ PublishedHasFile /\ OneKeyPerSession
      OBVIOUS
  <2>8. PublishedHasFile' /\ OneKeyPerSession'
      BY ONLY <2>5, <2>6, <2>7 DEF PublishedHasFile, OneKeyPerSession
  <2> QED
      BY <2>1, <2>2, <2>4, <2>8
<1>7. CASE AppendExpected(c)
  <2>1. req[c].expected \in Ids \cup {None}
      OBVIOUS
  <2>2. TriesInv' /\ LockInv' /\ CopyInv'
      BY <1>7 DEF AppendExpected
  <2>3. BoundInv'
      BY <1>7, <2>1 DEF AppendExpected
  <2>4. MintInv' /\ RebuildInv'
    <3>1. /\ \A d \in Calls \ {c} : sid'[d] = sid[d] /\ pc'[d] = pc[d]
          /\ pc'[c] \in {"appendRead", "failed"}
          /\ UNCHANGED <<index, file, req>>
        BY <1>7 DEF AppendExpected
    <3>2. MintInv /\ RebuildInv
        OBVIOUS
    <3> QED
        BY ONLY <3>1, <3>2 DEF MintInv, RebuildInv
  <2>5. PublishedHasFile' /\ OneKeyPerSession'
      BY <1>7 DEF AppendExpected
  <2> QED
      BY <2>2, <2>3, <2>4, <2>5
<1>8. CASE AppendRead(c)
    BY <1>8 DEF AppendRead, LockAndRead, Unlocked
<1>9. CASE AppendWrite(c)
  <2>a. /\ sid[c] \in Ids /\ file[sid[c]].there
        /\ copy[c] = file[sid[c]] /\ fileLock[sid[c]] = c
        /\ copy[c] \in Transcript /\ file \in [Ids -> Transcript]
      BY <1>9 DEF AppendWrite
  <2>b. /\ WithExchange(copy[c], c) \in Transcript /\ WithExchange(copy[c], c).there
        /\ WithExchange(copy[c], c).ended = file[sid[c]].ended
      BY ONLY <2>a, c \in Calls, WithExchangeType
  <2>c. \E o \in Outcomes : file' = Stored(sid[c], WithExchange(copy[c], c), o)
      BY <1>9 DEF AppendWrite
  <2>d. \A d \in Calls \ {c} : pc[d] \in InFileSection => sid[d] # sid[c]
      BY <2>a
  <2>w. /\ sid[c] \in Ids
        /\ file' \in [Ids -> Transcript]
        /\ \A z \in Ids \ {sid[c]} : file'[z] = file[z]
        /\ file'[sid[c]].there
        /\ file'[sid[c]].ended = file[sid[c]].ended
      BY ONLY <2>a, <2>b, <2>c, StoredFacts
  <2>1. TriesInv' /\ LockInv'
      BY <1>9, <2>d, <2>w DEF AppendWrite, Unlock, Freed, Throws
  <2>2. BoundInv'
      BY <1>9, <2>d, <2>w DEF AppendWrite, Unlock, Freed, Throws
  <2>3. CopyInv'
      BY <1>9, <2>d, <2>w DEF AppendWrite, Unlock, Freed, Throws
  <2>4. MintInv' /\ RebuildInv'
      BY <1>9, <2>d, <2>w DEF AppendWrite, Unlock, Freed, Throws
  <2>5. PublishedHasFile' /\ OneKeyPerSession'
      BY <1>9, <2>d, <2>w DEF AppendWrite, Unlock, Freed, Throws
  <2> QED
      BY <2>1, <2>2, <2>3, <2>4, <2>5
<1>10. CASE AppendRows(c)
    BY <1>10 DEF AppendRows
<1>11. CASE EndCheck(c)
  <2>1. TriesInv' /\ LockInv'
      BY <1>11 DEF EndCheck
  <2>2. BoundInv'
      BY <1>11 DEF EndCheck
  <2>3. CopyInv'
      BY <1>11 DEF EndCheck
  <2>4. MintInv' /\ RebuildInv'
      BY <1>11 DEF EndCheck
  <2>5. PublishedHasFile' /\ OneKeyPerSession'
      BY <1>11 DEF EndCheck
  <2> QED
      BY <2>1, <2>2, <2>3, <2>4, <2>5
<1>12. CASE EndReadDead(c)
    BY <1>12 DEF EndReadDead, Unlocked
<1>13. CASE EndRead(c)
    BY <1>13 DEF EndRead, LockAndRead, Unlocked
<1>14. CASE EndWrite(c)
  <2>a. /\ sid[c] \in Ids /\ file[sid[c]].there
        /\ copy[c] = file[sid[c]] /\ fileLock[sid[c]] = c
        /\ copy[c] \in Transcript /\ file \in [Ids -> Transcript]
      BY <1>14 DEF EndWrite
  <2>b. /\ MarkEnded(copy[c]) \in Transcript /\ MarkEnded(copy[c]).there
      BY ONLY <2>a, c \in Calls, EndedType
  <2>c. \E o \in Outcomes : file' = Stored(sid[c], MarkEnded(copy[c]), o)
      BY <1>14 DEF EndWrite
  <2>d. \A d \in Calls \ {c} : pc[d] \in InFileSection => sid[d] # sid[c]
      BY <2>a
  <2>w. /\ sid[c] \in Ids
        /\ file' \in [Ids -> Transcript]
        /\ \A z \in Ids \ {sid[c]} : file'[z] = file[z]
        /\ file'[sid[c]].there
      BY ONLY <2>a, <2>b, <2>c, StoredFacts
  <2>1. TriesInv' /\ LockInv'
      BY <1>14, <2>d, <2>w DEF EndWrite, Unlock, Freed, Throws
  <2>2. BoundInv'
      BY <1>14, <2>d, <2>w DEF EndWrite, Unlock, Freed, Throws
  <2>3. CopyInv'
      BY <1>14, <2>d, <2>w DEF EndWrite, Unlock, Freed, Throws
  <2>4. MintInv' /\ RebuildInv'
      BY <1>14, <2>d, <2>w DEF EndWrite, Unlock, Freed, Throws
  <2>5. PublishedHasFile' /\ OneKeyPerSession'
      BY <1>14, <2>d, <2>w DEF EndWrite, Unlock, Freed, Throws
  <2> QED
      BY <2>1, <2>2, <2>3, <2>4, <2>5
<1>15. CASE EndClear(c)
    BY <1>15 DEF EndClear, Cleared, Throws
<1>16. CASE EndRow(c)
    BY <1>16 DEF EndRow
<1>17. CASE TitleRefused(c)
    BY <1>17 DEF TitleRefused, Unlocked
<1>18. CASE TitleRead(c)
    BY <1>18 DEF TitleRead, LockAndRead, Unlocked
<1>19. CASE TitleWrite(c)
  <2>a. /\ sid[c] \in Ids /\ file[sid[c]].there
        /\ copy[c] = file[sid[c]] /\ fileLock[sid[c]] = c
        /\ copy[c] \in Transcript /\ file \in [Ids -> Transcript]
      BY <1>19 DEF TitleWrite
  <2>b. /\ Retitled(copy[c], c) \in Transcript /\ Retitled(copy[c], c).there
        /\ Retitled(copy[c], c).ended = file[sid[c]].ended
      BY ONLY <2>a, c \in Calls, RetitledType
  <2>c. \E o \in Outcomes : file' = Stored(sid[c], Retitled(copy[c], c), o)
      BY <1>19 DEF TitleWrite
  <2>d. \A d \in Calls \ {c} : pc[d] \in InFileSection => sid[d] # sid[c]
      BY <2>a
  <2>w. /\ sid[c] \in Ids
        /\ file' \in [Ids -> Transcript]
        /\ \A z \in Ids \ {sid[c]} : file'[z] = file[z]
        /\ file'[sid[c]].there
        /\ file'[sid[c]].ended = file[sid[c]].ended
      BY ONLY <2>a, <2>b, <2>c, StoredFacts
  <2>1. TriesInv' /\ LockInv'
      BY <1>19, <2>d, <2>w DEF TitleWrite, Unlock, Freed, Throws
  <2>2. BoundInv'
      BY <1>19, <2>d, <2>w DEF TitleWrite, Unlock, Freed, Throws
  <2>3. CopyInv'
      BY <1>19, <2>d, <2>w DEF TitleWrite, Unlock, Freed, Throws
  <2>4. MintInv' /\ RebuildInv'
      BY <1>19, <2>d, <2>w DEF TitleWrite, Unlock, Freed, Throws
  <2>5. PublishedHasFile' /\ OneKeyPerSession'
      BY <1>19, <2>d, <2>w DEF TitleWrite, Unlock, Freed, Throws
  <2> QED
      BY <2>1, <2>2, <2>3, <2>4, <2>5
<1>20. CASE TitleRow(c)
    BY <1>20 DEF TitleRow
<1>21. CASE RebuildCheck(c)
  <2>1. TriesInv' /\ LockInv'
      BY <1>21 DEF RebuildCheck
  <2>a. \A d \in Calls \ {c} : pc'[d] = pc[d] /\ sid'[d] = sid[d]
      BY <1>21 DEF RebuildCheck
  <2>b. pc'[c] \in {"failed", "rebuildIndex"} /\ file' = file
      BY <1>21 DEF RebuildCheck
  <2>c. pc'[c] = "rebuildIndex" => sid'[c] \in Ids /\ file[sid'[c]].there
    <3>1. req[c].key \in Keys
        BY DEF Request
    <3>2. pc'[c] = "rebuildIndex" => sid'[c] = index[req[c].key] /\ index[req[c].key] # None
        BY <1>21 DEF RebuildCheck
    <3> QED
        BY ONLY <3>1, <3>2, TypeOK, PublishedHasFile, StoreAssumption
        DEF TypeOK, PublishedHasFile
  <2>2. BoundInv'
      BY ONLY BoundInv, <2>a, <2>b, <2>c DEF BoundInv, Bound, InFileSection
  <2>3. CopyInv'
      BY <1>21 DEF RebuildCheck
  <2>d. index' = index /\ row' = row /\ indexLock' = indexLock /\ req' = req
      BY <1>21 DEF RebuildCheck
  <2>4. MintInv' /\ RebuildInv'
      BY ONLY c \in Calls, MintInv, RebuildInv, <2>a, <2>b, <2>d
      DEF MintInv, RebuildInv, InIndexSection
  <2>5. PublishedHasFile' /\ OneKeyPerSession'
      BY <1>21 DEF RebuildCheck
  <2> QED
      BY <2>1, <2>2, <2>3, <2>4, <2>5
<1>22. CASE RebuildFails(c)
    BY <1>22 DEF RebuildFails
<1>23. CASE RebuildLockIndex(c)
    BY <1>23 DEF RebuildLockIndex
<1>24. CASE RebuildAbort(c)
    BY <1>24 DEF RebuildAbort, Unlocked
<1>25. CASE RebuildRead(c)
    BY <1>25 DEF RebuildRead, LockAndRead, Unlocked, RebuildStillValid
<1>26. CASE RebuildWrite(c)
  <2>a. /\ sid[c] \in Ids /\ file[sid[c]].there
        /\ copy[c] = file[sid[c]] /\ fileLock[sid[c]] = c
        /\ copy[c] \in Transcript /\ file \in [Ids -> Transcript]
      BY <1>26 DEF RebuildWrite
  <2>b. /\ Resnapped(copy[c], c) \in Transcript /\ Resnapped(copy[c], c).there
        /\ Resnapped(copy[c], c).ended = file[sid[c]].ended
      BY ONLY <2>a, c \in Calls, ResnappedType
  <2>c. \E o \in Outcomes : file' = Stored(sid[c], Resnapped(copy[c], c), o)
      BY <1>26 DEF RebuildWrite
  <2>d. \A d \in Calls \ {c} : pc[d] \in InFileSection => sid[d] # sid[c]
      BY <2>a
  <2>w. /\ sid[c] \in Ids
        /\ file' \in [Ids -> Transcript]
        /\ \A z \in Ids \ {sid[c]} : file'[z] = file[z]
        /\ file'[sid[c]].there
        /\ file'[sid[c]].ended = file[sid[c]].ended
      BY ONLY <2>a, <2>b, <2>c, StoredFacts
  <2>1. TriesInv' /\ LockInv'
      BY <1>26, <2>d, <2>w DEF RebuildWrite, Unlock, Freed, Throws
  <2>2. BoundInv'
      BY <1>26, <2>d, <2>w DEF RebuildWrite, Unlock, Freed, Throws
  <2>3. CopyInv'
      BY <1>26, <2>d, <2>w DEF RebuildWrite, Unlock, Freed, Throws
  <2>4. MintInv' /\ RebuildInv'
      BY <1>26, <2>d, <2>w DEF RebuildWrite, Unlock, Freed, Throws
  <2>5. PublishedHasFile' /\ OneKeyPerSession'
      BY <1>26, <2>d, <2>w DEF RebuildWrite, Unlock, Freed, Throws
  <2> QED
      BY <2>1, <2>2, <2>3, <2>4, <2>5
<1> QED
    BY <1>1, <1>2, <1>3, <1>4, <1>5, <1>6, <1>7, <1>8, <1>9, <1>10, <1>11, <1>12, <1>13,
       <1>14, <1>15, <1>16, <1>17, <1>18, <1>19, <1>20, <1>21, <1>22, <1>23, <1>24, <1>25, <1>26
    DEF StoreStep

-----------------------------------------------------------------------------
(* What a step does to the transcripts                                     *)

SameBut(s) == \A z \in Ids \ {s} : file'[z] = file[z]

\* A transcript appears, gets the exchange of c, or keeps its exchanges and
\* perhaps ends.
Appears(s) ==
    /\ ~file[s].there
    /\ file'[s].there /\ ~file'[s].ended /\ file'[s].turns = <<>>

Receives(s, c) ==
    /\ pc[c] = "appendWrite" /\ pc'[c] \in {"appendRows", "failed"}
    /\ file[s].there /\ file'[s].there
    /\ file'[s].ended = file[s].ended /\ file'[s].garbled = file[s].garbled
    /\ file'[s].turns = Append(file[s].turns, c)

Keeps(s) ==
    /\ file[s].there /\ file'[s].there
    /\ file[s].ended => file'[s].ended
    /\ file'[s].garbled = file[s].garbled
    /\ file'[s].turns = file[s].turns

FileStep(c) ==
    \/ file' = file
    \/ \E s \in Ids : SameBut(s) /\ (Appears(s) \/ Receives(s, c) \/ Keeps(s))

LEMMA StoredStep ==
    ASSUME file \in [Ids -> Transcript],
           NEW s \in Ids, NEW t \in Transcript, NEW o \in Outcomes,
           file' = Stored(s, t, o)
    PROVE  file' = file \/ (SameBut(s) /\ file'[s] = t)
BY DEF Stored, SameBut

LEMMA FileStepLemma ==
    ASSUME IInv, NEW c \in Calls, StoreStep(c)
    PROVE  FileStep(c)
<1> USE DEF Goto, shared, locals
<1>0. /\ file \in [Ids -> Transcript]
      /\ copy \in [Calls -> Transcript]
      /\ sid \in [Calls -> Ids \cup {None}]
      /\ pc \in [Calls -> PCs]
    BY DEF IInv, TypeOK
<1>a. ASSUME pc[c] \in InFileSection
      PROVE  /\ sid[c] \in Ids
             /\ copy[c] = file[sid[c]]
             /\ copy[c].there
    BY <1>a DEF IInv, BoundInv, CopyInv, Bound
<1>1. ASSUME NEW s \in Ids, MintFile(c, s) PROVE FileStep(c)
  <2>1. PICK x \in Calls \cup {None}, o \in Outcomes :
          file' = Stored(s, Skeleton(x), o)
      BY <1>1 DEF MintFile
  <2>2. file' = file \/ (SameBut(s) /\ file'[s] = Skeleton(x))
      BY <1>0, <2>1, SkeletonType, StoredStep
  <2> QED
      BY <1>1, <2>2, SkeletonType DEF FileStep, Appears, MintFile, IdTaken
<1>2. CASE AppendWrite(c)
  <2>1. sid[c] \in Ids /\ copy[c] = file[sid[c]] /\ copy[c].there
      BY <1>2, <1>a DEF AppendWrite, InFileSection
  <2>2. /\ WithExchange(copy[c], c) \in Transcript
        /\ WithExchange(copy[c], c).there
        /\ WithExchange(copy[c], c).ended = copy[c].ended
        /\ WithExchange(copy[c], c).garbled = copy[c].garbled
        /\ WithExchange(copy[c], c).turns = Append(copy[c].turns, c)
      BY ONLY <1>0, <2>1, c \in Calls, WithExchangeType
  <2>3. PICK o \in Outcomes : file' = Stored(sid[c], WithExchange(copy[c], c), o)
      BY <1>2 DEF AppendWrite
  <2>4. \/ file' = file
        \/ SameBut(sid[c]) /\ file'[sid[c]] = WithExchange(copy[c], c)
      BY ONLY <1>0, <2>1, <2>2, <2>3, StoredStep
  <2>5. pc[c] = "appendWrite" /\ pc'[c] \in {"appendRows", "failed"}
      BY <1>0, <1>2 DEF AppendWrite
  <2> QED
      BY ONLY <2>1, <2>2, <2>4, <2>5 DEF FileStep, Receives
<1>3. CASE EndWrite(c)
  <2>1. sid[c] \in Ids /\ copy[c] = file[sid[c]] /\ copy[c].there
      BY <1>3, <1>a DEF EndWrite, InFileSection
  <2>2. /\ MarkEnded(copy[c]) \in Transcript
        /\ MarkEnded(copy[c]).there
        /\ copy[c].ended => MarkEnded(copy[c]).ended
        /\ MarkEnded(copy[c]).garbled = copy[c].garbled
        /\ MarkEnded(copy[c]).turns = copy[c].turns
      BY ONLY <1>0, <2>1, c \in Calls, EndedType
  <2>3. PICK o \in Outcomes : file' = Stored(sid[c], MarkEnded(copy[c]), o)
      BY <1>3 DEF EndWrite
  <2>4. \/ file' = file
        \/ SameBut(sid[c]) /\ file'[sid[c]] = MarkEnded(copy[c])
      BY ONLY <1>0, <2>1, <2>2, <2>3, StoredStep
  <2> QED
      BY ONLY <2>1, <2>2, <2>4 DEF FileStep, Keeps
<1>4. CASE TitleWrite(c)
  <2>1. sid[c] \in Ids /\ copy[c] = file[sid[c]] /\ copy[c].there
      BY <1>4, <1>a DEF TitleWrite, InFileSection
  <2>2. /\ Retitled(copy[c], c) \in Transcript
        /\ Retitled(copy[c], c).there
        /\ copy[c].ended => Retitled(copy[c], c).ended
        /\ Retitled(copy[c], c).garbled = copy[c].garbled
        /\ Retitled(copy[c], c).turns = copy[c].turns
      BY ONLY <1>0, <2>1, c \in Calls, RetitledType
  <2>3. PICK o \in Outcomes : file' = Stored(sid[c], Retitled(copy[c], c), o)
      BY <1>4 DEF TitleWrite
  <2>4. \/ file' = file
        \/ SameBut(sid[c]) /\ file'[sid[c]] = Retitled(copy[c], c)
      BY ONLY <1>0, <2>1, <2>2, <2>3, StoredStep
  <2> QED
      BY ONLY <2>1, <2>2, <2>4 DEF FileStep, Keeps
<1>5. CASE RebuildWrite(c)
  <2>1. sid[c] \in Ids /\ copy[c] = file[sid[c]] /\ copy[c].there
      BY <1>5, <1>a DEF RebuildWrite, InFileSection
  <2>2. /\ Resnapped(copy[c], c) \in Transcript
        /\ Resnapped(copy[c], c).there
        /\ copy[c].ended => Resnapped(copy[c], c).ended
        /\ Resnapped(copy[c], c).garbled = copy[c].garbled
        /\ Resnapped(copy[c], c).turns = copy[c].turns
      BY ONLY <1>0, <2>1, c \in Calls, ResnappedType
  <2>3. PICK o \in Outcomes : file' = Stored(sid[c], Resnapped(copy[c], c), o)
      BY <1>5 DEF RebuildWrite
  <2>4. \/ file' = file
        \/ SameBut(sid[c]) /\ file'[sid[c]] = Resnapped(copy[c], c)
      BY ONLY <1>0, <2>1, <2>2, <2>3, StoredStep
  <2> QED
      BY ONLY <2>1, <2>2, <2>4 DEF FileStep, Keeps
<1>6. ASSUME NEW s \in Ids, MintCollision(c, s) PROVE FileStep(c)
    BY <1>6 DEF FileStep, MintCollision
<1>7. CASE Reuse(c) \/ BeginMint(c) \/ MintRow(c) \/ Publish(c)
           \/ AppendExpected(c) \/ AppendRead(c) \/ AppendRows(c)
    BY <1>7 DEF FileStep, Reuse, BeginMint, MintRow, Publish, AppendExpected,
       AppendRead, AppendRows
<1>8. CASE EndCheck(c) \/ EndReadDead(c) \/ EndRead(c) \/ EndClear(c)
           \/ EndRow(c) \/ TitleRefused(c) \/ TitleRead(c) \/ TitleRow(c)
    BY <1>8 DEF FileStep, EndCheck, EndReadDead, EndRead, EndClear, EndRow,
       TitleRefused, TitleRead, TitleRow
<1>9. CASE RebuildCheck(c) \/ RebuildFails(c) \/ RebuildLockIndex(c)
           \/ RebuildAbort(c) \/ RebuildRead(c)
    BY <1>9 DEF FileStep, RebuildCheck, RebuildFails, RebuildLockIndex,
       RebuildAbort, RebuildRead
<1> QED
    BY <1>1, <1>2, <1>3, <1>4, <1>5, <1>6, <1>7, <1>8, <1>9 DEF StoreStep

\* Before its exchange is written.
EarlyPCs == {"idle", "start", "mintFile", "mintRow", "publish", "appendRead",
             "appendWrite"}

\* A call moves its own program counter, and never back before its write.
LEMMA PcStep ==
    ASSUME TypeOK, NEW c \in Calls, StoreStep(c)
    PROVE  /\ \A d \in Calls \ {c} : pc'[d] = pc[d]
           /\ pc'[c] \in EarlyPCs => pc[c] \in EarlyPCs
<1>1. CASE \/ Reuse(c) \/ BeginMint(c) \/ \E s \in Ids : MintCollision(c, s)
           \/ MintRow(c) \/ AppendExpected(c)
    BY <1>1 DEF EarlyPCs, Reuse, BeginMint, MintCollision, MintRow,
       AppendExpected, Goto, locals, TypeOK
<1>2. CASE (\E s \in Ids : MintFile(c, s)) \/ Publish(c) \/ AppendRead(c) \/ AppendWrite(c)
           \/ AppendRows(c)
    BY <1>2 DEF EarlyPCs, MintFile, Publish, AppendRead, AppendWrite,
       AppendRows, LockAndRead, Goto, locals, TypeOK
<1>3. CASE EndCheck(c) \/ EndReadDead(c) \/ EndRead(c) \/ EndWrite(c) \/ EndClear(c) \/ EndRow(c)
    BY <1>3 DEF EarlyPCs, EndCheck, EndReadDead, EndRead, EndWrite,
       EndClear, EndRow, LockAndRead, Goto, locals, TypeOK
<1>4. CASE TitleRefused(c) \/ TitleRead(c) \/ TitleWrite(c) \/ TitleRow(c)
    BY <1>4 DEF EarlyPCs, TitleRefused, TitleRead, TitleWrite, TitleRow,
       LockAndRead, Goto, locals, TypeOK
<1>5. CASE \/ RebuildCheck(c) \/ RebuildFails(c) \/ RebuildLockIndex(c)
           \/ RebuildAbort(c) \/ RebuildRead(c) \/ RebuildWrite(c)
    BY <1>5 DEF EarlyPCs, RebuildCheck, RebuildFails, RebuildLockIndex,
       RebuildAbort, RebuildRead, RebuildWrite, LockAndRead, Goto, locals, TypeOK
<1> QED
    BY <1>1, <1>2, <1>3, <1>4, <1>5 DEF StoreStep

LEMMA FreshStep ==
    ASSUME IInv, TypeOK', NEW c \in Calls, StoreStep(c)
    PROVE  FreshInv' /\ AbsentInv'
<1>1. FileStep(c)
    BY FileStepLemma
<1>2. /\ file \in [Ids -> Transcript] /\ file' \in [Ids -> Transcript]
      /\ FreshInv /\ AbsentInv
    BY DEF IInv, TypeOK
<1>3. AbsentInv'
    BY <1>1, <1>2 DEF FileStep, SameBut, Appears, Receives, Keeps, AbsentInv
<1>4. \A d \in Calls \ {c} : pc'[d] = pc[d]
    BY PcStep DEF IInv
<1>5. pc'[c] \in EarlyPCs => pc[c] \in EarlyPCs
    BY PcStep DEF IInv
<1>6. ASSUME NEW d \in Calls, pc'[d] \in EarlyPCs, NEW s \in Ids
      PROVE  \A i \in 1 .. Len(file'[s].turns) : file'[s].turns[i] # d
  <2>1. pc[d] \in EarlyPCs
      BY <1>4, <1>5, <1>6
  <2>2. \A i \in 1 .. Len(file[s].turns) : file[s].turns[i] # d
      BY <1>2, <2>1 DEF FreshInv, EarlyPCs
  <2>3. file[s].turns \in Seq(Calls)
      BY <1>2 DEF Transcript
  <2>4. CASE file'[s].turns = file[s].turns
      BY <2>2, <2>4
  <2>5. CASE file'[s].turns = <<>>
      BY <2>5
  <2>6. CASE Receives(s, c)
    <3>1. d # c
        BY <1>6, <2>6 DEF Receives, EarlyPCs
    <3> QED
        BY <2>2, <2>3, <2>6, <3>1 DEF Receives
  <2> QED
      BY <1>1, <2>4, <2>5, <2>6 DEF FileStep, SameBut, Appears, Keeps
<1> QED
    BY <1>3, <1>6 DEF FreshInv, EarlyPCs

LEMMA StepIInv == IInv /\ [Next]_vars => IInv'
<1> SUFFICES ASSUME IInv, [Next]_vars PROVE IInv'
    OBVIOUS
<1> USE StoreAssumption
<1>1. ASSUME NEW c \in Calls, NEW r \in Request, Begin(c, r) PROVE IInv'
  <2>1. TypeOK'
      BY <1>1 DEF IInv, TypeOK, Begin, Goto, PCs, shared, MaxMintAttempts
  <2>2. StructInv'
      BY <1>1 DEF IInv, TypeOK, Begin, Goto, shared, MaxMintAttempts,
         StructInv, TriesInv, LockInv, BoundInv, CopyInv, MintInv, RebuildInv,
         PublishedHasFile, OneKeyPerSession, InIndexSection, InFileSection,
         Bound
  <2>3. FreshInv' /\ AbsentInv'
      BY <1>1 DEF IInv, TypeOK, Begin, Goto, shared, FreshInv, AbsentInv
  <2> QED
      BY <2>1, <2>2, <2>3 DEF IInv, StructInv
<1>2. ASSUME NEW c \in Calls, StoreStep(c) PROVE IInv'
  <2>1. TypeOK'
      BY <1>2, TypeStep
  <2>2. StructInv'
      BY <1>2, <2>1, StructStep
  <2>3. FreshInv' /\ AbsentInv'
      BY <1>2, <2>1, FreshStep
  <2> QED
      BY <2>1, <2>2, <2>3 DEF IInv, StructInv
<1>3. ASSUME NEW s \in Ids, Corrupt(s) PROVE IInv'
  <2>1. /\ file \in [Ids -> Transcript]
        /\ Undecodable(file[s]) \in Transcript
        /\ file[s].there /\ fileLock[s] = None
        /\ file' = [file EXCEPT ![s] = Undecodable(file[s])]
      BY <1>3, UndecodableType DEF Corrupt, IInv, TypeOK
  <2>2. /\ file' \in [Ids -> Transcript]
        /\ \A z \in Ids : /\ z # s => file'[z] = file[z]
                         /\ file'[z].there = file[z].there
                         /\ file'[z].ended = file[z].ended
                         /\ file'[z].turns = file[z].turns
      BY ONLY <2>1, UndecodableType, s \in Ids
  <2>3. UNCHANGED <<index, row, indexLock, fileLock, pc, locals>>
      BY <1>3 DEF Corrupt
  <2>4. TypeOK'
      BY <1>3, <2>2, <2>3 DEF Corrupt, IInv, TypeOK, locals
  <2>5. \A d \in Calls : pc[d] \in InFileSection => sid[d] # s
      BY <2>1 DEF IInv, LockInv
  <2>6. CopyInv'
      BY <2>2, <2>3, <2>5 DEF IInv, CopyInv, BoundInv, Bound, locals
  <2>7. TriesInv' /\ LockInv' /\ BoundInv' /\ MintInv'
      BY <2>2, <2>3
         DEF IInv, TriesInv, LockInv, BoundInv, MintInv, locals
  <2>8. RebuildInv' /\ AbsentInv' /\ FreshInv'
      BY <2>2, <2>3
         DEF IInv, RebuildInv, AbsentInv, FreshInv, BoundInv, Bound,
             InFileSection, locals
  <2>9. PublishedHasFile' /\ OneKeyPerSession'
      BY <2>2, <2>3 DEF IInv, PublishedHasFile, OneKeyPerSession, TypeOK
  <2> QED
      BY <2>4, <2>6, <2>7, <2>8, <2>9 DEF IInv
<1>4. CASE Restart
  <2>1. TypeOK'
      BY <1>4, NoFileType DEF IInv, TypeOK, Restart, PCs, shared
  <2>2. \A d \in Calls :
          /\ pc'[d] \notin Bound \cup {"start", "mintFile"}
          /\ pc'[d] \in EarlyPCs => pc[d] \in EarlyPCs
      BY <1>4 DEF IInv, TypeOK, Restart, Running, Bound, InFileSection,
         EarlyPCs, PCs
  <2>3. UNCHANGED <<index, file, row>>
      BY <1>4 DEF Restart, shared
  <2>4. /\ TriesInv' /\ LockInv' /\ BoundInv'
        /\ CopyInv' /\ MintInv' /\ RebuildInv'
      BY <2>2 DEF TriesInv, LockInv, BoundInv, CopyInv, MintInv, RebuildInv,
         Bound, InFileSection, InIndexSection
  <2>5. FreshInv' /\ AbsentInv' /\ PublishedHasFile' /\ OneKeyPerSession'
      BY <2>2, <2>3 DEF IInv, FreshInv, AbsentInv, PublishedHasFile,
         OneKeyPerSession, EarlyPCs
  <2> QED
      BY <2>1, <2>4, <2>5 DEF IInv
<1>5. CASE UNCHANGED vars
    BY <1>5 DEF vars, IInv, TypeOK, TriesInv, LockInv, BoundInv, CopyInv,
       MintInv, RebuildInv, AbsentInv, FreshInv, PublishedHasFile,
       OneKeyPerSession
<1> QED
    BY <1>1, <1>2, <1>3, <1>4, <1>5 DEF Next

\* IInv holds in every reachable state.
THEOREM Invariance == Spec => []IInv
BY InitIInv, StepIInv, PTL DEF Spec

-----------------------------------------------------------------------------
(* What follows                                                            *)

\* Every variable has its type in every reachable state.
THEOREM TypeCorrect == Spec => []TypeOK
<1>1. IInv => TypeOK
    BY DEF IInv
<1> QED
    BY <1>1, Invariance, PTL

\* The index never names a session without a transcript: the write order of
\* mintAndRegisterWithSnapshot survives failures, collisions and restarts.
THEOREM PublishedSafe == Spec => []PublishedHasFile
<1>1. IInv => PublishedHasFile
    BY DEF IInv
<1> QED
    BY <1>1, Invariance, PTL

\* No session is active under two keys.
THEOREM KeysSafe == Spec => []OneKeyPerSession
<1>1. IInv => OneKeyPerSession
    BY DEF IInv
<1> QED
    BY <1>1, Invariance, PTL

\* rebuildMemorySnapshot writes only the active session, and not an ended one.
THEOREM RebuildSafe == Spec => RebuildOnlyLive
<1>1. IInv /\ [Next]_vars =>
        [\A c \in Calls : RebuildWrite(c) =>
           /\ index[req[c].key] = sid[c]
           /\ ~file[sid[c]].ended]_vars
    BY DEF IInv, RebuildInv, RebuildWrite
<1> QED
    BY <1>1, Invariance, PTL DEF Spec, RebuildOnlyLive

-----------------------------------------------------------------------------
(* The store is a ledger                                                   *)

Log == [s \in Ids |-> file[s].turns]

LEMMA LedgerStart == Init => Ledger!LedgerInit
<1> SUFFICES ASSUME Init PROVE Ledger!LedgerInit
    OBVIOUS
<1>1. PICK k \in Keys, s \in Ids \cup {None} : FilesFrom(k, s)
    BY DEF Init
<1>2. \A z \in Ids : file[z].turns = <<>> /\ ~file[z].ended
    BY <1>1, SkeletonType DEF FilesFrom, NoFile
<1> QED
    BY <1>2 DEF Ledger!LedgerInit, SessionState

LEMMA FileStepLedger ==
    ASSUME IInv, IInv', NEW c \in Calls, FileStep(c)
    PROVE  Ledger!LedgerNext \/ UNCHANGED <<SessionState, Log>>
<1>1. /\ file \in [Ids -> Transcript] /\ file' \in [Ids -> Transcript]
      /\ AbsentInv /\ FreshInv
    BY DEF IInv, TypeOK
<1>2. CASE file' = file
    BY <1>2 DEF SessionState, Log
<1>3. ASSUME NEW s \in Ids, SameBut(s), Appears(s)
      PROVE  Ledger!LedgerNext
  <2>1. Log' = Log
      BY <1>1, <1>3 DEF Log, SameBut, Appears, AbsentInv
  <2>2. /\ SessionState[s] = "absent"
        /\ SessionState' = [SessionState EXCEPT ![s] = "open"]
      BY <1>3 DEF SessionState, SameBut, Appears
  <2> QED
      BY <2>1, <2>2 DEF Ledger!LedgerNext, Ledger!Open, Log
<1>4. ASSUME NEW s \in Ids, SameBut(s), Receives(s, c)
      PROVE  Ledger!LedgerNext
  <2>1. /\ SessionState[s] # "absent"
        /\ SessionState' = SessionState
      BY <1>4 DEF SessionState, SameBut, Receives
  <2>2. Log' = [Log EXCEPT ![s] = Append(Log[s], c)]
      BY <1>4 DEF Log, SameBut, Receives
  <2>3. c \in Calls \ Ledger!Recorded
      BY <1>1, <1>4 DEF Ledger!Recorded, FreshInv, Receives
  <2> QED
      BY <2>1, <2>2, <2>3 DEF Ledger!LedgerNext, Ledger!Record, Log
<1>5. ASSUME NEW s \in Ids, SameBut(s), Keeps(s)
      PROVE  Ledger!LedgerNext \/ UNCHANGED <<SessionState, Log>>
  <2>1. Log' = Log
      BY <1>5 DEF Log, SameBut, Keeps
  <2>2. CASE file'[s].ended = file[s].ended
      BY <1>5, <2>1, <2>2 DEF SessionState, SameBut, Keeps
  <2>3. CASE file'[s].ended # file[s].ended
    <3>1. ~file[s].ended /\ file'[s].ended
        BY <1>1, <1>5, <2>3 DEF Keeps, Transcript
    <3>2. /\ SessionState[s] = "open"
          /\ SessionState' = [SessionState EXCEPT ![s] = "ended"]
        BY <1>5, <3>1 DEF SessionState, SameBut, Keeps
    <3> QED
        BY <2>1, <3>2 DEF Ledger!LedgerNext, Ledger!End, Log
  <2> QED
      BY <2>2, <2>3
<1> QED
    BY <1>2, <1>3, <1>4, <1>5 DEF FileStep

LEMMA LedgerStep ==
    IInv /\ IInv' /\ [Next]_vars => [Ledger!LedgerNext]_(Ledger!ledger)
<1> SUFFICES ASSUME IInv, IInv', [Next]_vars
             PROVE  Ledger!LedgerNext \/ UNCHANGED <<SessionState, Log>>
    BY DEF Ledger!ledger, Log
<1>1. ASSUME NEW c \in Calls, NEW r \in Request, Begin(c, r)
      PROVE  UNCHANGED <<SessionState, Log>>
    BY <1>1 DEF Begin, SessionState, Log, shared
<1>2. ASSUME NEW c \in Calls, StoreStep(c)
      PROVE  Ledger!LedgerNext \/ UNCHANGED <<SessionState, Log>>
    BY <1>2, FileStepLemma, FileStepLedger
<1>3. ASSUME NEW s \in Ids, Corrupt(s)
      PROVE  UNCHANGED <<SessionState, Log>>
  <2>1. /\ file \in [Ids -> Transcript]
        /\ file' = [file EXCEPT ![s] = Undecodable(file[s])]
      BY <1>3 DEF IInv, TypeOK, Corrupt
  <2>2. \A z \in Ids : /\ file'[z].there = file[z].there
                      /\ file'[z].ended = file[z].ended
                      /\ file'[z].turns = file[z].turns
      BY ONLY <2>1, UndecodableType, s \in Ids
  <2> QED
      BY <2>2 DEF SessionState, Log
<1>4. CASE Restart
    BY <1>4 DEF Restart, SessionState, Log, shared
<1>5. CASE UNCHANGED vars
    BY <1>5 DEF vars, SessionState, Log
<1> QED
    BY <1>1, <1>2, <1>3, <1>4, <1>5 DEF Next

\* No interleaving, failure or restart loses, repeats or reorders an exchange
\* or reopens a session: the store implements the ledger.
THEOREM LedgerRefinement == Spec => ImplementsLedger
BY LedgerStart, LedgerStep, Invariance, PTL
   DEF Spec, ImplementsLedger, Ledger!LedgerSpec

-----------------------------------------------------------------------------
(* The rows of a session say what its transcript says                      *)

\* What the steps leave of a transcript that still decodes: its exchanges keep
\* their places, and what has ended stays ended.
Grows(s) ==
    ~file'[s].garbled =>
      /\ ~file[s].garbled
      /\ file[s].ended => file'[s].ended
      /\ Len(file[s].turns) <= Len(file'[s].turns)
      /\ \A i \in 1 .. Len(file[s].turns) : file'[s].turns[i] = file[s].turns[i]

\* A transcript that does not exist is neither garbled nor ended.
AbsentClean == \A s \in Ids : ~file[s].there => ~file[s].garbled /\ ~file[s].ended

\* A call has reported no write before it makes one.
DidInv == \A c \in Calls : pc[c] \in {"start", "endRead"} => ~did[c]

\* A row about to be inserted says where its exchange is.
PlaceInv ==
    \A c \in Calls :
      LET t == file[sid[c]] IN
      pc[c] = "appendRows" /\ ~t.garbled =>
        at[c] < Len(t.turns) /\ t.turns[at[c] + 1] = c

\* A row about to be ended is that of a session that has.
EndRowInv ==
    \A c \in Calls :
      LET t == file[sid[c]] IN
      (pc[c] = "endRow" \/ (pc[c] = "endClear" /\ did[c])) /\ ~t.garbled => t.ended

MirrorInv == AbsentClean /\ DidInv /\ PlaceInv /\ EndRowInv /\ MirrorFaithful

LEMMA StepGrows ==
    ASSUME IInv, AbsentClean, NEW c \in Calls, StoreStep(c), NEW s \in Ids
    PROVE  Grows(s)
<1>1. FileStep(c)
    BY FileStepLemma
<1>2. /\ file \in [Ids -> Transcript] /\ file[s].turns \in Seq(Calls)
      /\ AbsentInv
    BY DEF IInv, TypeOK, Transcript
<1>3. CASE file' = file
    BY <1>2, <1>3 DEF Grows
<1>4. ASSUME NEW z \in Ids, SameBut(z), Appears(z) \/ Receives(z, c) \/ Keeps(z)
      PROVE  Grows(s)
  <2>1. CASE s # z
      BY <1>2, <1>4, <2>1 DEF Grows, SameBut
  <2>2. CASE s = z /\ Appears(z)
      BY <1>2, <2>2 DEF Grows, Appears, AbsentClean, AbsentInv
  <2>3. CASE s = z /\ Receives(z, c)
      BY <1>2, <2>3 DEF Grows, Receives
  <2>4. CASE s = z /\ Keeps(z)
      BY <1>2, <2>4 DEF Grows, Keeps
  <2> QED
      BY <1>4, <2>1, <2>2, <2>3, <2>4
<1> QED
    BY <1>1, <1>3, <1>4 DEF FileStep

\* What a step that grows transcripts leaves true of the rows and of the calls.
LEMMA GrowsKeepsRows ==
    ASSUME \A s \in Ids : Grows(s),
           file \in [Ids -> Transcript], file' \in [Ids -> Transcript],
           row \in [Ids -> Row], MirrorFaithful,
           NEW s \in Ids, ~file'[s].garbled
    PROVE  /\ \A m \in row[s].msgs :
                m[1] < Len(file'[s].turns) /\ file'[s].turns[m[1] + 1] = m[2]
           /\ row[s].ended => file'[s].ended
<1>1. /\ ~file[s].garbled /\ file[s].turns \in Seq(Calls)
      /\ Len(file[s].turns) \in Nat /\ Len(file'[s].turns) \in Nat
      /\ Len(file[s].turns) <= Len(file'[s].turns)
    BY DEF Grows, Transcript
<1>2. ASSUME NEW m \in row[s].msgs
      PROVE  m[1] < Len(file'[s].turns) /\ file'[s].turns[m[1] + 1] = m[2]
  <2>1. m[1] \in Nat /\ m[1] < Len(file[s].turns) /\ file[s].turns[m[1] + 1] = m[2]
      BY <1>1 DEF MirrorFaithful, Row
  <2>2. m[1] + 1 \in 1 .. Len(file[s].turns)
      BY <1>1, <2>1
  <2>3. file'[s].turns[m[1] + 1] = m[2]
      BY <2>1, <2>2 DEF Grows
  <2> QED
      BY <1>1, <2>1, <2>3
<1> QED
    BY <1>1, <1>2 DEF MirrorFaithful, Grows

SameCall(d) ==
    pc'[d] = pc[d] /\ sid'[d] = sid[d] /\ at'[d] = at[d] /\ did'[d] = did[d]

\* What a step that grows transcripts leaves true of a call that rests.
LEMMA GrowsKeepsCalls ==
    ASSUME \A s \in Ids : Grows(s), IInv, file' \in [Ids -> Transcript],
           DidInv, PlaceInv, EndRowInv,
           NEW d \in Calls, SameCall(d)
    PROVE  /\ pc'[d] \in {"start", "endRead"} => ~did'[d]
           /\ LET t == file'[sid'[d]] IN
              /\ pc'[d] = "appendRows" /\ ~t.garbled =>
                    at'[d] < Len(t.turns) /\ t.turns[at'[d] + 1] = d
              /\ (pc'[d] = "endRow" \/ (pc'[d] = "endClear" /\ did'[d])) /\ ~t.garbled
                    => t.ended
<1> USE DEF SameCall
<1> DEFINE t == file[sid[d]] u == file'[sid[d]]
<1>1. ASSUME pc[d] = "appendRows", ~u.garbled
      PROVE  at[d] < Len(u.turns) /\ u.turns[at[d] + 1] = d
  <2>1. sid[d] \in Ids /\ at[d] \in Nat
      BY <1>1 DEF IInv, BoundInv, Bound, TypeOK
  <2>2. ~t.garbled /\ Len(t.turns) <= Len(u.turns) /\ Len(t.turns) \in Nat
        /\ Len(u.turns) \in Nat
      BY <1>1, <2>1 DEF Grows, IInv, TypeOK, Transcript
  <2>3. at[d] < Len(t.turns) /\ t.turns[at[d] + 1] = d
      BY <1>1, <2>2 DEF PlaceInv
  <2>4. at[d] + 1 \in 1 .. Len(t.turns)
      BY <2>1, <2>2, <2>3
  <2>5. u.turns[at[d] + 1] = t.turns[at[d] + 1]
      BY <1>1, <2>1, <2>4 DEF Grows
  <2> QED
      BY <2>1, <2>2, <2>3, <2>5
<1>2. ASSUME pc[d] = "endRow" \/ (pc[d] = "endClear" /\ did[d]), ~u.garbled
      PROVE  u.ended
  <2>1. sid[d] \in Ids
      BY <1>2 DEF IInv, BoundInv, Bound
  <2> QED
      BY <1>2, <2>1 DEF Grows, EndRowInv
<1> QED
    BY <1>1, <1>2 DEF DidInv

\* The parts of MirrorInv that a step of c which writes no row may disturb.
LEMMA MirrorGrown ==
    ASSUME IInv, IInv', MirrorInv, NEW c \in Calls, StoreStep(c), row' = row,
           \A d \in Calls \ {c} : SameCall(d),
           pc'[c] \in {"start", "endRead"} => ~did'[c],
           LET t == file'[sid'[c]]
           IN  /\ pc'[c] = "appendRows" /\ ~t.garbled =>
                     at'[c] < Len(t.turns) /\ t.turns[at'[c] + 1] = c
               /\ (pc'[c] = "endRow" \/ (pc'[c] = "endClear" /\ did'[c])) /\ ~t.garbled
                     => t.ended
    PROVE  MirrorInv'
<1>1. /\ \A s \in Ids : Grows(s)
      /\ file \in [Ids -> Transcript] /\ file' \in [Ids -> Transcript]
      /\ row \in [Ids -> Row]
    BY StepGrows DEF MirrorInv, IInv, TypeOK
<1>2. AbsentClean'
  <2>1. FileStep(c)
      BY FileStepLemma
  <2> QED
      BY <1>1, <2>1 DEF MirrorInv, AbsentClean, FileStep, SameBut, Appears, Receives, Keeps
<1>3. MirrorFaithful'
    BY <1>1, GrowsKeepsRows DEF MirrorInv, MirrorFaithful
<1>4. DidInv' /\ PlaceInv' /\ EndRowInv'
    BY <1>1, GrowsKeepsCalls DEF MirrorInv, DidInv, PlaceInv, EndRowInv
<1> QED
    BY <1>2, <1>3, <1>4 DEF MirrorInv

\* A step of c is no step of another call.
LEMMA OthersRest ==
    ASSUME TypeOK, NEW c \in Calls, StoreStep(c), NEW d \in Calls \ {c}
    PROVE  SameCall(d)
<1> USE DEF SameCall, Goto, locals, TypeOK
<1>1. CASE \/ Reuse(c) \/ BeginMint(c) \/ \E s \in Ids : MintCollision(c, s)
           \/ MintRow(c) \/ AppendExpected(c)
    BY <1>1 DEF Reuse, BeginMint, MintCollision, MintRow, AppendExpected
<1>2. CASE (\E s \in Ids : MintFile(c, s)) \/ Publish(c) \/ AppendRead(c) \/ AppendWrite(c)
           \/ AppendRows(c)
    BY <1>2 DEF MintFile, Publish, AppendRead, AppendWrite, AppendRows, LockAndRead
<1>3. CASE EndCheck(c) \/ EndReadDead(c) \/ EndRead(c) \/ EndWrite(c) \/ EndClear(c) \/ EndRow(c)
    BY <1>3 DEF EndCheck, EndReadDead, EndRead, EndWrite, EndClear, EndRow, LockAndRead
<1>4. CASE TitleRefused(c) \/ TitleRead(c) \/ TitleWrite(c) \/ TitleRow(c)
    BY <1>4 DEF TitleRefused, TitleRead, TitleWrite, TitleRow, LockAndRead
<1>5. CASE \/ RebuildCheck(c) \/ RebuildFails(c) \/ RebuildLockIndex(c)
           \/ RebuildAbort(c) \/ RebuildRead(c) \/ RebuildWrite(c)
    BY <1>5 DEF RebuildCheck, RebuildFails, RebuildLockIndex, RebuildAbort,
       RebuildRead, RebuildWrite, LockAndRead
<1> QED
    BY <1>1, <1>2, <1>3, <1>4, <1>5 DEF StoreStep

\* Steps after which c is not about to write a row of its exchange or its end.
Elsewhere == PCs \ {"start", "appendRows", "endRead", "endClear", "endRow"}

LEMMA MirrorElsewhere ==
    ASSUME IInv, IInv', MirrorInv, NEW c \in Calls, StoreStep(c), row' = row,
           pc'[c] \in Elsewhere
    PROVE  MirrorInv'
BY MirrorGrown, OthersRest DEF Elsewhere, IInv

LEMMA MirrorMint ==
    ASSUME IInv, IInv', MirrorInv, NEW c \in Calls,
           \/ Reuse(c) \/ BeginMint(c) \/ Publish(c)
           \/ \E s \in Ids : MintCollision(c, s) \/ MintFile(c, s)
    PROVE  MirrorInv'
<1>1. pc'[c] \in Elsewhere /\ row' = row
    BY DEF Elsewhere, PCs, Reuse, BeginMint, Publish, MintCollision, MintFile,
       Goto, shared, IInv, TypeOK
<1> QED
    BY <1>1, MirrorElsewhere DEF StoreStep

LEMMA MirrorTitle ==
    ASSUME IInv, IInv', MirrorInv, NEW c \in Calls,
           \/ TitleRefused(c) \/ TitleRead(c) \/ TitleWrite(c)
           \/ RebuildCheck(c) \/ RebuildFails(c) \/ RebuildLockIndex(c)
           \/ RebuildAbort(c) \/ RebuildRead(c) \/ RebuildWrite(c)
    PROVE  MirrorInv'
<1>1. CASE TitleRefused(c) \/ TitleRead(c) \/ TitleWrite(c)
  <2>1. pc'[c] \in Elsewhere /\ row' = row
      BY <1>1 DEF Elsewhere, PCs, TitleRefused, TitleRead, TitleWrite,
         LockAndRead, Goto, shared, IInv, TypeOK
  <2> QED
      BY <1>1, <2>1, MirrorElsewhere DEF StoreStep
<1>2. CASE \/ RebuildCheck(c) \/ RebuildFails(c) \/ RebuildLockIndex(c)
           \/ RebuildAbort(c) \/ RebuildRead(c) \/ RebuildWrite(c)
  <2>1. pc'[c] \in Elsewhere /\ row' = row
      BY <1>2 DEF Elsewhere, PCs, RebuildCheck, RebuildFails,
         RebuildLockIndex, RebuildAbort, RebuildRead, RebuildWrite,
         LockAndRead, Goto, shared, IInv, TypeOK
  <2> QED
      BY <1>2, <2>1, MirrorElsewhere DEF StoreStep
<1> QED
    BY <1>1, <1>2

LEMMA MirrorAppend ==
    ASSUME IInv, IInv', MirrorInv, NEW c \in Calls,
           AppendExpected(c) \/ AppendRead(c) \/ AppendWrite(c)
    PROVE  MirrorInv'
<1>1. CASE AppendExpected(c) \/ AppendRead(c)
  <2>1. pc'[c] \in Elsewhere /\ row' = row
      BY <1>1 DEF Elsewhere, PCs, AppendExpected, AppendRead, LockAndRead,
         Goto, shared, IInv, TypeOK
  <2> QED
      BY <1>1, <2>1, MirrorElsewhere DEF StoreStep
<1>2. CASE AppendWrite(c)
  <2>1. /\ sid[c] \in Ids /\ copy[c] = file[sid[c]] /\ file[sid[c]].there
        /\ file \in [Ids -> Transcript] /\ file[sid[c]] \in Transcript
      BY <1>2 DEF AppendWrite, IInv, TypeOK, BoundInv, Bound, CopyInv, InFileSection
  <2> DEFINE t == file[sid[c]]
  <2>2. /\ WithExchange(t, c) \in Transcript
        /\ WithExchange(t, c).garbled = t.garbled
        /\ WithExchange(t, c).turns = Append(t.turns, c)
      BY <2>1, WithExchangeType
  <2>3. /\ sid' = sid /\ row' = row
        /\ at'[c] = TurnIndex(t)
        /\ pc'[c] \in {"failed", "appendRows"}
        /\ pc'[c] = "appendRows" => file' = [file EXCEPT ![sid[c]] = WithExchange(t, c)]
      BY <1>2, <2>1 DEF AppendWrite, Goto, Throws, Wrote, Stored, IInv, TypeOK
  <2>4. ASSUME pc'[c] = "appendRows", ~file'[sid[c]].garbled
        PROVE  /\ at'[c] < Len(file'[sid[c]].turns)
               /\ file'[sid[c]].turns[at'[c] + 1] = c
    <3>1. file'[sid[c]].turns = Append(t.turns, c) /\ ~t.garbled
        BY <2>1, <2>2, <2>3, <2>4
    <3>2. at'[c] = Len(t.turns) /\ t.turns \in Seq(Calls)
        BY <2>1, <2>3, <3>1 DEF TurnIndex, Transcript
    <3> QED
        BY <3>1, <3>2
  <2> QED
      BY <1>2, <2>3, <2>4, MirrorGrown, OthersRest DEF StoreStep, IInv
<1> QED
    BY <1>1, <1>2

LEMMA MirrorEnd ==
    ASSUME IInv, IInv', MirrorInv, NEW c \in Calls,
           \/ EndCheck(c) \/ EndReadDead(c) \/ EndRead(c)
           \/ EndWrite(c) \/ EndClear(c)
    PROVE  MirrorInv'
<1> USE DEF Goto, shared, locals, IInv, TypeOK
<1>1. CASE EndRead(c)
  <2>1. pc'[c] \in Elsewhere /\ row' = row
      BY <1>1 DEF Elsewhere, PCs, EndRead, LockAndRead
  <2> QED
      BY <1>1, <2>1, MirrorElsewhere DEF StoreStep
<1>2. CASE EndCheck(c)
  <2>1. pc'[c] \in {"ok", "endRead"} /\ row' = row /\ ~did'[c]
      BY <1>2 DEF EndCheck, MirrorInv, DidInv
  <2> QED
      BY <1>2, <2>1, MirrorGrown, OthersRest DEF StoreStep
<1>3. CASE EndReadDead(c)
  <2>1. pc'[c] = "endClear" /\ row' = row /\ ~did'[c]
      BY <1>3 DEF EndReadDead, MirrorInv, DidInv
  <2> QED
      BY <1>3, <2>1, MirrorGrown, OthersRest DEF StoreStep
<1>4. CASE EndWrite(c)
  <2>1. /\ sid[c] \in Ids /\ copy[c] = file[sid[c]]
        /\ MarkEnded(copy[c]).ended
      BY <1>4, EndedType DEF EndWrite, BoundInv, Bound, CopyInv, InFileSection
  <2>2. /\ sid' = sid /\ row' = row
        /\ pc'[c] \in {"failed", "endClear"}
        /\ pc'[c] = "endClear" => file' = [file EXCEPT ![sid[c]] = MarkEnded(copy[c])]
      BY <1>4 DEF EndWrite, Throws, Wrote, Stored
  <2>3. pc'[c] = "endClear" => file'[sid'[c]].ended
      BY <2>1, <2>2
  <2> QED
      BY <1>4, <2>2, <2>3, MirrorGrown, OthersRest DEF StoreStep
<1>5. CASE EndClear(c)
  <2>1. /\ pc[c] = "endClear" /\ UNCHANGED <<file, row, sid, did>>
        /\ pc'[c] \in {"failed", "endRow", "ok"}
        /\ pc'[c] = "endRow" => did[c]
      BY <1>5 DEF EndClear
  <2>2. pc'[c] = "endRow" /\ ~file[sid[c]].garbled => file[sid[c]].ended
      BY <2>1 DEF MirrorInv, EndRowInv
  <2> QED
      BY <1>5, <2>1, <2>2, MirrorGrown, OthersRest DEF StoreStep
<1> QED
    BY <1>1, <1>2, <1>3, <1>4, <1>5

\* A step that writes a row writes what the transcript says.
LEMMA RowSays ==
    ASSUME IInv, MirrorInv, NEW c \in Calls, StoreStep(c), file' = file,
           pc'[c] \in Elsewhere, NEW s \in Ids, NEW r \in Row,
           row' = row \/ row' = [row EXCEPT ![s] = r],
           ~file[s].garbled =>
             /\ r.ended => file[s].ended
             /\ \A m \in r.msgs :
                  \/ m \in row[s].msgs
                  \/ m[1] < Len(file[s].turns) /\ file[s].turns[m[1] + 1] = m[2]
    PROVE  MirrorInv'
<1>1. /\ file \in [Ids -> Transcript] /\ row \in [Ids -> Row]
      /\ \A d \in Calls \ {c} : SameCall(d)
    BY OthersRest DEF IInv, TypeOK
<1>2. MirrorFaithful'
  <2>1. CASE row' = row
      BY <2>1 DEF MirrorInv, MirrorFaithful
  <2>2. CASE row' = [row EXCEPT ![s] = r]
    <3>1. ASSUME NEW z \in Ids, ~file[z].garbled
          PROVE  /\ \A m \in row'[z].msgs :
                      m[1] < Len(file[z].turns) /\ file[z].turns[m[1] + 1] = m[2]
                 /\ row'[z].ended => file[z].ended
      <4>1. CASE z = s
          BY <1>1, <2>2, <3>1, <4>1 DEF MirrorInv, MirrorFaithful
      <4>2. CASE z # s
          BY <1>1, <2>2, <3>1, <4>2 DEF MirrorInv, MirrorFaithful
      <4> QED
          BY <4>1, <4>2
    <3> QED
        BY <3>1 DEF MirrorFaithful
  <2> QED
      BY <2>1, <2>2
<1>3. /\ AbsentClean' /\ DidInv'
    BY <1>1 DEF MirrorInv, AbsentClean, DidInv, SameCall, Elsewhere
<1>4. PlaceInv' /\ EndRowInv'
    BY <1>1 DEF MirrorInv, PlaceInv, EndRowInv, SameCall, Elsewhere
<1> QED
    BY <1>2, <1>3, <1>4 DEF MirrorInv

LEMMA MirrorRows ==
    ASSUME IInv, MirrorInv, NEW c \in Calls,
           MintRow(c) \/ AppendRows(c) \/ EndRow(c) \/ TitleRow(c)
    PROVE  MirrorInv'
<1>1. /\ file' = file /\ pc'[c] \in Elsewhere /\ StoreStep(c)
      /\ row \in [Ids -> Row]
    BY DEF MintRow, AppendRows, EndRow, TitleRow, StoreStep, Goto, Elsewhere,
       PCs, IInv, TypeOK
<1>2. sid[c] \in Ids /\ row[sid[c]] \in Row
    BY <1>1 DEF MintRow, AppendRows, EndRow, TitleRow, IInv, BoundInv, Bound
<1>3. MirrorFaithful
    BY DEF MirrorInv
<1> DEFINE r == row[sid[c]] t == file[sid[c]]
<1>4. CASE MintRow(c)
  <2>1. /\ RowOpened(r) \in Row /\ ~RowOpened(r).ended
        /\ RowOpened(r).msgs = r.msgs
      BY <1>2 DEF RowOpened, Row, IInv
  <2>2. row' = row \/ row' = [row EXCEPT ![sid[c]] = RowOpened(r)]
      BY <1>4 DEF MintRow
  <2> QED
      BY <1>1, <1>2, <2>1, <2>2, RowSays
<1>5. CASE AppendRows(c)
  <2>1. /\ pc[c] = "appendRows" /\ at[c] \in Nat
        /\ row' = row \/ row' = [row EXCEPT ![sid[c]] = RowWith(r, at[c], c)]
      BY <1>5 DEF AppendRows, IInv, TypeOK
  <2>2. RowWith(r, at[c], c) \in Row
      BY <1>2, <2>1, RowEditTypes
  <2>3. /\ RowWith(r, at[c], c).ended = r.ended
        /\ \A m \in RowWith(r, at[c], c).msgs : m \in r.msgs \/ m = <<at[c], c>>
      BY <1>2 DEF RowWith, Row
  <2>4. ~t.garbled => at[c] < Len(t.turns) /\ t.turns[at[c] + 1] = c
      BY <2>1 DEF MirrorInv, PlaceInv
  <2>5. ~t.garbled =>
          /\ RowWith(r, at[c], c).ended => t.ended
          /\ \A m \in RowWith(r, at[c], c).msgs :
               m \in r.msgs \/ (m[1] < Len(t.turns) /\ t.turns[m[1] + 1] = m[2])
      BY <1>2, <1>3, <2>3, <2>4 DEF MirrorFaithful
  <2> QED
      BY <1>1, <1>2, <2>1, <2>2, <2>5, RowSays
<1>6. CASE EndRow(c)
  <2>1. /\ RowEnded(r) \in Row /\ RowEnded(r).msgs = r.msgs
      BY <1>2 DEF RowEnded, Row
  <2>2. /\ row' = row \/ row' = [row EXCEPT ![sid[c]] = RowEnded(r)]
        /\ pc[c] = "endRow"
      BY <1>6 DEF EndRow
  <2>3. ~t.garbled => t.ended
      BY <2>2 DEF MirrorInv, EndRowInv
  <2> QED
      BY <1>1, <1>2, <2>1, <2>2, <2>3, RowSays
<1>7. CASE TitleRow(c)
  <2>1. /\ RowRetitled(r, c) \in Row /\ RowRetitled(r, c).msgs = r.msgs
        /\ RowRetitled(r, c).ended = r.ended
      BY <1>2 DEF RowRetitled, Row
  <2>2. row' = row \/ row' = [row EXCEPT ![sid[c]] = RowRetitled(r, c)]
      BY <1>7 DEF TitleRow
  <2> QED
      BY <1>1, <1>2, <1>3, <2>1, <2>2, RowSays DEF MirrorFaithful
<1> QED
    BY <1>4, <1>5, <1>6, <1>7

LEMMA MirrorNext == IInv /\ IInv' /\ MirrorInv /\ [Next]_vars => MirrorInv'
<1> SUFFICES ASSUME IInv, IInv', MirrorInv, [Next]_vars PROVE MirrorInv'
    OBVIOUS
<1>1. ASSUME NEW c \in Calls, NEW r \in Request, Begin(c, r) PROVE MirrorInv'
  <2>1. /\ UNCHANGED <<file, row>>
        /\ pc'[c] = "start" /\ ~did'[c]
        /\ \A d \in Calls \ {c} : SameCall(d)
      BY <1>1 DEF Begin, Goto, shared, SameCall, IInv, TypeOK
  <2> QED
      BY <2>1 DEF MirrorInv, AbsentClean, DidInv, PlaceInv, EndRowInv,
         MirrorFaithful, SameCall
<1>2. ASSUME NEW c \in Calls, StoreStep(c) PROVE MirrorInv'
    BY <1>2, MirrorMint, MirrorAppend, MirrorEnd, MirrorTitle, MirrorRows
       DEF StoreStep
<1>3. ASSUME NEW s \in Ids, Corrupt(s) PROVE MirrorInv'
  <2>1. /\ file \in [Ids -> Transcript] /\ file[s].there
        /\ file' = [file EXCEPT ![s] = Undecodable(file[s])]
        /\ UNCHANGED <<row, pc, sid, at, did>>
      BY <1>3 DEF Corrupt, IInv, TypeOK, locals
  <2>2. /\ file'[s].garbled /\ file'[s].there
        /\ \A z \in Ids \ {s} : file'[z] = file[z]
      BY <2>1, UndecodableType
  <2>3. \A c \in Calls : pc[c] \in Bound => sid[c] \in Ids
      BY DEF IInv, BoundInv
  <2>4. AbsentClean' /\ DidInv' /\ MirrorFaithful'
      BY <2>1, <2>2 DEF MirrorInv, AbsentClean, DidInv, MirrorFaithful
  <2>5. PlaceInv' /\ EndRowInv'
      BY <2>1, <2>2, <2>3 DEF MirrorInv, PlaceInv, EndRowInv, Bound
  <2> QED
      BY <2>4, <2>5 DEF MirrorInv
<1>4. CASE Restart
  <2>1. /\ UNCHANGED <<file, row>>
        /\ \A c \in Calls : pc'[c] \in {"idle", "ok", "failed", "dead"}
      BY <1>4 DEF Restart, Running, shared
  <2> QED
      BY <2>1 DEF MirrorInv, AbsentClean, DidInv, PlaceInv, EndRowInv, MirrorFaithful
<1>5. CASE UNCHANGED vars
    BY <1>5 DEF vars, MirrorInv, AbsentClean, DidInv, PlaceInv, EndRowInv,
       MirrorFaithful
<1> QED
    BY <1>1, <1>2, <1>3, <1>4, <1>5 DEF Next

LEMMA MirrorStart == Init => MirrorInv
<1> SUFFICES ASSUME Init PROVE MirrorInv
    OBVIOUS
<1>1. PICK k \in Keys, s \in Ids \cup {None} : FilesFrom(k, s)
    BY DEF Init
<1>2. AbsentClean /\ MirrorFaithful
    BY <1>1, SkeletonType
       DEF FilesFrom, AbsentClean, MirrorFaithful, NoFile, NoRow
<1>3. DidInv /\ PlaceInv /\ EndRowInv
    BY DEF Init, DidInv, PlaceInv, EndRowInv
<1> QED
    BY <1>2, <1>3 DEF MirrorInv

\* Search shows a message only where the transcript has it and a session as
\* ended only when it is, for any calls, failed statements and restarts, as long
\* as the transcript still decodes (appendMessage, endSession after the lock).
THEOREM MirrorSafe == Spec => []MirrorFaithful
<1>1. MirrorInv => MirrorFaithful
    BY DEF MirrorInv
<1> QED
    BY <1>1, MirrorStart, MirrorNext, Invariance, PTL DEF Spec

=============================================================================
