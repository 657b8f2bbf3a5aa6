----------------------- MODULE ConversationFlowProofs -----------------------
(***************************************************************************)
(* For any number of updates, any threshold and any faults: the state      *)
(* keeps its shape, a session does not end before its last activity, and a *)
(* prompt is accepted once.  When the bot polls, also: a session is reset  *)
(* for idleness once, a failed turn ends nothing but the empty session it  *)
(* minted, and summaries that were turned off are forgotten.               *)
(*                                                                         *)
(* The argument has three parts.  Ids are minted in order, at most one by  *)
(* an update, so that a new session is really new.  What is written about  *)
(* a session is decided in the step that writes it, so the activity and    *)
(* the nonce hold with all updates interleaved.  And under polling a       *)
(* single update is under way, so that between its check and its write the *)
(* index still names the session it checked.                               *)
(*                                                                         *)
(* Each lemma about an action first says what the action does to the       *)
(* update and to the state, then that every part of the invariant is kept. *)
(***************************************************************************)
EXTENDS ConversationFlow, FiniteSetTheorems, TLAPS

(* The constants, as the proofs need them.                                 *)
LEMMA Constants ==
    /\ Cardinality(Updates) \in Nat /\ IsFiniteSet(Updates)
    /\ Sessions = 0 .. Cardinality(Updates) /\ 0 \in Sessions
    /\ None \notin Sessions /\ None \notin Updates
    /\ None \notin Prompts /\ None \notin Summaries
    /\ IdleTicks \in Nat /\ PromptTicks \in Nat /\ MaxClock \in Nat /\ MaxFaults \in Nat
    /\ Sequential \in BOOLEAN /\ Kinds \subseteq AllKinds
<1>1. Cardinality(Updates) \in Nat /\ IsFiniteSet(Updates)
  BY FlowAssumption, FS_CardinalityType
<1>2. Sessions = 0 .. Cardinality(Updates) /\ Sessions \subseteq Nat
  BY <1>1 DEF Sessions
<1>3. None \notin Prompts
  BY FlowAssumption DEF Prompts
<1>4. None \notin Summaries
  <2>1. None \notin [of : Nat, by : {"idle", "command"}]
    BY FlowAssumption
  <2> QED BY <1>2, <2>1 DEF Summaries
<1> QED BY <1>1, <1>2, <1>3, <1>4, FlowAssumption

(* The jobs of an update are two, and no other update has them.            *)
LEMMA JobPlaces ==
    /\ \A u \in Updates : <<u, "idle">> \in Jobs /\ <<u, "command">> \in Jobs
    /\ \A u, v \in Updates : <<u, "idle">> # <<v, "command">>
    /\ \A u, v \in Updates : <<u, "idle">> = <<v, "idle">> => u = v
  BY DEF Jobs

(* None is no session and no update.                                       *)
LEMMA Threes == None \in Sessions \cup {None} /\ None \notin Sessions
          /\ None \notin Updates
  BY Constants

(* The updates that have used up their session are finitely many; one more *)
(* is one more.                                                            *)
LEMMA SpentCounted ==
    /\ IsFiniteSet(Spent) /\ Cardinality(Spent) \in Nat
    /\ Cardinality(Spent) <= Cardinality(Updates)
    /\ \A u \in Updates \ Spent : /\ Cardinality(Spent) + 1 <= Cardinality(Updates)
                                  /\ Cardinality(Spent \cup {u}) = Cardinality(Spent) + 1
<1>1. Spent \subseteq Updates
  BY DEF Spent
<1>2. IsFiniteSet(Updates) /\ Cardinality(Updates) \in Nat
  BY Constants
<1>3. /\ IsFiniteSet(Spent) /\ Cardinality(Spent) \in Nat
      /\ Cardinality(Spent) <= Cardinality(Updates)
  BY <1>1, <1>2, FS_Subset, FS_CardinalityType
<1>4. ASSUME NEW u \in Updates \ Spent
      PROVE  /\ Cardinality(Spent) + 1 <= Cardinality(Updates)
             /\ Cardinality(Spent \cup {u}) = Cardinality(Spent) + 1
  <2>1. Cardinality(Spent \cup {u}) = Cardinality(Spent) + 1
    BY <1>3, <1>4, FS_AddElement
  <2>2. Spent \cup {u} \subseteq Updates
    BY <1>1, <1>4
  <2>3. Cardinality(Spent \cup {u}) <= Cardinality(Updates)
    BY <1>2, <2>2, FS_Subset
  <2> QED BY <2>1, <2>3
<1> QED BY <1>3, <1>4

(* A job that is replaced by one that names a session where it must.       *)
LEMMA JobChanged ==
    ASSUME WorkOK, NEW j \in Jobs, NEW r \in WorkRec,
           r.stage \in {"summarize", "save"} => r.of # None,
           work' = [work EXCEPT ![j] = r], UNCHANGED summary
    PROVE  WorkOK'
  BY DEF WorkOK

(* A step of one update leaves the hooks of the others alone.              *)
LEMMA HookKept ==
    ASSUME IInv, NEW u \in Updates, \A v \in Updates \ {u} : upd'[v] = upd[v],
           \A v \in Updates \ {u} : work'[<<v, "idle">>] = work[<<v, "idle">>],
           upd'[u].pc \in {"idle", "peek", "read"} =>
             upd'[u].why = "hook" /\ work'[<<u, "idle">>].stage = "none"
    PROVE  HookInv'
  BY DEF IInv, HookInv

(* A session that is replaced by one whose activity is not in the future.  *)
LEMMA SessionChanged ==
    ASSUME IInv, NEW s \in Sessions, NEW r \in SessRec, r.touched <= clock,
           r.stage = "ended" => r.touched <= r.endedAt,
           sess' = [sess EXCEPT ![s] = r], active' \in Sessions \cup {None},
           UNCHANGED <<resets, clock>>
    PROVE  /\ SessOK' /\ ActivityInv' /\ sess'[s] = r
           /\ \A t \in Sessions \ {s} : sess'[t] = sess[t]
<1>1. sess \in [Sessions -> SessRec] /\ resets \in [Sessions -> Nat]
  BY DEF IInv, TypeOK, SessOK
<1>2. sess' \in [Sessions -> SessRec] /\ sess'[s] = r
      /\ \A t \in Sessions \ {s} : sess'[t] = sess[t]
  BY <1>1
<1>3. ActivityInv'
  BY <1>2 DEF IInv, ActivityInv
<1> QED BY <1>1, <1>2, <1>3 DEF SessOK

(* What a session looks like with one turn more.                           *)
LEMMA AppendedShape ==
    ASSUME NEW s \in Sessions, sess[s] \in SessRec, clock \in Nat
    PROVE  /\ Appended(s) \in SessRec /\ Appended(s).stage = sess[s].stage
           /\ Appended(s).endedAt = sess[s].endedAt
           /\ Appended(s).touched = IF sess[s].stage = "ended" THEN sess[s].touched ELSE clock
<1>1. /\ sess[s].exchanges + 1 \in Nat
      /\ (IF sess[s].stage = "ended" THEN sess[s].touched ELSE clock) \in Nat
  BY DEF SessRec
<1>2. Appended(s) \in SessRec
  BY <1>1 DEF SessRec, Appended
<1>3. /\ Appended(s).stage = sess[s].stage /\ Appended(s).endedAt = sess[s].endedAt
      /\ Appended(s).touched = IF sess[s].stage = "ended" THEN sess[s].touched ELSE clock
  BY DEF SessRec, Appended
<1> QED BY <1>2, <1>3

(* A turn more does not end it or start it again.                          *)
LEMMA AppendedStage == ASSUME NEW s \in Sessions, sess[s] \in SessRec
                       PROVE  Appended(s).stage = sess[s].stage
  BY DEF SessRec, Appended

(* Without a new session the ids stay minted in order.                     *)
LEMMA MintKept == ASSUME IInv, Used' = Used /\ Spent \subseteq Spent' PROVE MintInv'
<1>1. NextId' = NextId
  <2>1. NextId = Cardinality(Used)
    BY DEF NextId, Used
  <2>2. NextId' = Cardinality(Used')
    BY DEF NextId, Used
  <2> QED BY <2>1, <2>2
<1>2. /\ Used = 0 .. NextId - 1 /\ NextId \in Nat /\ NextId <= 1 + Cardinality(Spent)
  BY DEF IInv, MintInv
<1>3. Spent' \subseteq Updates
  BY DEF Spent
<1>4. IsFiniteSet(Spent')
  BY <1>3, Constants, FS_Subset
<1>5. Cardinality(Spent) <= Cardinality(Spent')
  BY <1>4, FS_Subset
<1>6. Cardinality(Spent) \in Nat /\ Cardinality(Spent') \in Nat
  BY <1>4, SpentCounted, FS_CardinalityType
<1> QED BY <1>1, <1>2, <1>5, <1>6 DEF MintInv

(* An update that has not minted yet finds an id: there is one for each of *)
(* them, besides the first session.                                        *)
LEMMA Minting ==
    ASSUME IInv, NEW u \in Updates, u \notin Spent
    PROVE  NextId \in Sessions /\ NextId \notin Used /\ NextId # None
<1>1. /\ Used = 0 .. NextId - 1 /\ NextId \in Nat /\ NextId <= 1 + Cardinality(Spent)
  BY DEF IInv, MintInv
<1>2. /\ Cardinality(Spent) \in Nat /\ Cardinality(Spent) + 1 <= Cardinality(Updates)
  BY SpentCounted
<1> QED BY <1>1, <1>2, Constants

(* A new session is the next id, and empty.                                *)
LEMMA Minted ==
    ASSUME IInv, NEW u \in Updates, u \notin Spent, NEW r \in Sessions \cup {None},
           active' = NextId, sess' = [sess EXCEPT ![NextId] = Fresh(r)],
           UNCHANGED <<resets, clock>>
    PROVE  /\ SessOK' /\ ActivityInv' /\ Used' = Used \cup {NextId}
           /\ NextId \in Sessions /\ NextId # None /\ NextId \notin Used
           /\ sess'[NextId].exchanges = 0
           /\ \A s \in Sessions \ {NextId} : sess'[s] = sess[s]
<1>1. NextId \in Sessions /\ NextId \notin Used /\ NextId # None
  BY Minting
<1>2. clock \in Nat
  BY Constants DEF IInv, TypeOK, BoundsOK
<1>3. /\ Fresh(r) \in SessRec /\ Fresh(r).stage = "open" /\ Fresh(r).exchanges = 0
      /\ Fresh(r).touched = clock
  BY <1>2 DEF Fresh, Unused, SessRec
<1>4. /\ SessOK' /\ ActivityInv' /\ sess'[NextId] = Fresh(r)
      /\ \A t \in Sessions \ {NextId} : sess'[t] = sess[t]
  <2>1. Fresh(r).touched <= clock /\ active' \in Sessions \cup {None}
    BY <1>1, <1>2, <1>3
  <2>2. Fresh(r).stage = "ended" => Fresh(r).touched <= Fresh(r).endedAt
    BY <1>3
  <2> HIDE DEF Fresh
  <2> QED BY <1>1, <1>3, <2>1, <2>2, SessionChanged
<1>5. Used' = Used \cup {NextId}
  BY <1>1, <1>3, <1>4 DEF Used
<1> QED BY <1>1, <1>3, <1>4, <1>5

(* With one session more, minted by an update that had not, the ids stay   *)
(* minted in order.                                                        *)
LEMMA MintStep ==
    ASSUME IInv, NEW u \in Updates, u \notin Spent,
           Spent \cup {u} \subseteq Spent',
           Used' = Used \/ Used' = Used \cup {NextId}
    PROVE  MintInv'
<1>1. CASE Used' = Used
  BY <1>1, MintKept
<1>2. CASE Used' = Used \cup {NextId}
  <2>1. /\ Used = 0 .. NextId - 1 /\ NextId \in Nat /\ NextId <= 1 + Cardinality(Spent)
    BY DEF IInv, MintInv
  <2>2. Used' = 0 .. NextId
    BY <1>2, <2>1
  <2>3. NextId' = NextId + 1
    <3>1. NextId' = Cardinality(Used')
      BY DEF NextId, Used
    <3>2. Cardinality(0 .. NextId) = NextId - 0 + 1
      BY <2>1, FS_Interval
    <3> QED BY <2>1, <2>2, <3>1, <3>2
  <2>4. Cardinality(Spent \cup {u}) = Cardinality(Spent) + 1
            /\ Cardinality(Spent) \in Nat
    BY SpentCounted
  <2>5. IsFiniteSet(Spent') /\ Cardinality(Spent') \in Nat
    <3>1. Spent' \subseteq Updates
      BY DEF Spent
    <3> QED BY <3>1, Constants, FS_Subset, FS_CardinalityType
  <2>6. Cardinality(Spent \cup {u}) <= Cardinality(Spent')
    BY <2>5, FS_Subset
  <2> QED BY <2>1, <2>2, <2>3, <2>4, <2>5, <2>6 DEF MintInv
<1> QED BY <1>1, <1>2

(* An update arrives: it is the only one under way when the bot polls.     *)
LEMMA ReceiveKeeps ==
    ASSUME IInv, NEW u \in Updates, Receive(u)
    PROVE  IInv'
<1>1. PICK k \in AllKinds : upd' = [upd EXCEPT ![u] = [@ EXCEPT !.pc = "peek",
          !.kind = k]]
  BY FlowAssumption DEF Receive
<1>2. /\ upd[u].pc = "idle" /\ upd \in [Updates -> UpdRec]
      /\ {"peek"} \subseteq PCs
  BY Threes, <1>1 DEF IInv, TypeOK, TalkOK, PCs, Receive, At
<1>3. /\ upd' \in [Updates -> UpdRec]
      /\ \A v \in Updates \ {u} : upd'[v] = upd[v]
  <2>1. [upd[u] EXCEPT !.pc = "peek", !.kind = k] \in UpdRec
    <3>1. upd[u] \in UpdRec /\ "peek" \in PCs
      BY <1>2
    <3> QED BY <3>1 DEF UpdRec
  <2> QED BY <1>2, <2>1, <1>1
<1>4. /\ upd'[u].seen = upd[u].seen /\ upd'[u].reset = upd[u].reset
      /\ upd'[u].bound = upd[u].bound /\ upd'[u].isNew = upd[u].isNew
      /\ upd'[u].why = upd[u].why /\ upd'[u].target = upd[u].target
      /\ upd'[u].asked = upd[u].asked /\ upd'[u].nonce = upd[u].nonce
      /\ upd'[u].used = upd[u].used
  BY <1>2, <1>1 DEF UpdRec
<1>5. upd'[u].pc = "peek"
  BY <1>1, <1>2 DEF Receive, At, UpdRec
<1>6. MayStart
  BY <1>1, <1>2 DEF Receive, At, UpdRec
<1>7. UNCHANGED <<clock, active, sess, flushOn, summary, prompt, work, resets, faults>>
  BY <1>1, <1>2 DEF Receive, At, UpdRec
<1>8. Used' = Used /\ Spent \subseteq Spent'
  BY <1>1, <1>2, <1>3, <1>4, <1>5, <1>6, <1>7 DEF Used, Spent
<1>9. SessOK' /\ WorkOK' /\ BoundsOK' /\ ActivityInv' /\ ResetInv'
  BY <1>7 DEF IInv, TypeOK, SessOK, WorkOK, BoundsOK, ActivityInv, ResetInv, Used
<1>10. TalkOK'
  BY <1>3, <1>7 DEF IInv, TypeOK, TalkOK
<1>11. MintInv'
  BY <1>8, MintKept
<1>12. HookInv'
  <2>1. upd[u].why = "hook" /\ work[<<u, "idle">>].stage = "none"
    BY <1>2 DEF IInv, HookInv
  <2> QED BY <2>1, <1>3, <1>4, <1>7, HookKept
<1> USE Constants, <1>1, <1>2, <1>3, <1>4, <1>5, <1>6, <1>7, <1>8
<1>13. BoundInv'
  BY DEF IInv, BoundInv, Unminted, BeforeTurn
<1>14. TargetInv'
  BY DEF IInv, TargetInv, BoundInv
<1>15. ShownInv'
  BY DEF IInv, TypeOK, ShownInv, TalkOK, Prompts
<1>16. NonceInv'
  BY DEF IInv, TypeOK, NonceInv, ShownInv, Unasked
<1>17. OnceInv'
  BY DEF IInv, OnceInv, NonceInv
<1>18. AloneInv'
  BY DEF IInv, AloneInv, Busy, PCs, MayStart
<1>19. EndInv'
  BY DEF IInv, TypeOK, EndInv, EndOK, RollsBack, AloneInv, Busy, PCs,
       TalkOK, MayStart
<1> QED BY <1>9, <1>10, <1>11, <1>12, <1>13, <1>14, <1>15, <1>16, <1>17, <1>18,
     <1>19 DEF IInv, TypeOK

(* A button takes the pending prompt with it, so that no other press finds *)
(* it.                                                                     *)
LEMMA PressButtonKeeps ==
    ASSUME IInv, NEW u \in Updates, PressButton(u)
    PROVE  IInv'
<1> DEFINE Case1(k, p) ==
              /\ ~(Pending /\ prompt.by = p) /\ prompt' = prompt
              /\ upd' = [upd EXCEPT ![u] = [@ EXCEPT !.kind = k, !.nonce = p,
                        !.pc = "done"]]
<1> DEFINE Case2(k, p) ==
              /\ Pending /\ prompt.by = p /\ prompt' = None /\ OnScreen(p)
              /\ k = "yes"
              /\ upd' = [upd EXCEPT ![u] = [@ EXCEPT !.kind = k, !.nonce = p,
                        !.used = TRUE, !.pc = "endCheck", !.why = "newchat"]]
<1> DEFINE Case3(k, p) ==
              /\ Pending /\ prompt.by = p /\ prompt' = None /\ OnScreen(p)
              /\ k # "yes"
              /\ upd' = [upd EXCEPT ![u] = [@ EXCEPT !.kind = k, !.nonce = p,
                        !.used = TRUE, !.pc = "done", !.why = "hook"]]
<1>1. PICK k \in AllKinds, p \in Updates : Case1(k, p) \/ Case2(k, p) \/ Case3(k, p)
  BY FlowAssumption DEF PressButton, Consumed
<1>2. ~upd[u].used
  BY DEF IInv, NonceInv, PressButton, At
<1>3. /\ upd[u].pc = "idle" /\ upd \in [Updates -> UpdRec]
      /\ {"endCheck", "done"} \subseteq PCs
  BY Threes, <1>1, <1>2 DEF IInv, TypeOK, TalkOK, PCs, PressButton, At
<1>4. /\ upd' \in [Updates -> UpdRec]
      /\ \A v \in Updates \ {u} : upd'[v] = upd[v]
  <2>1. CASE Case1(k, p)
    <3>1. [upd[u] EXCEPT !.kind = k, !.nonce = p, !.pc = "done"] \in UpdRec
      <4>1. upd[u] \in UpdRec /\ "endCheck" \in PCs /\ "done" \in PCs
        BY <1>3
      <4> QED BY <4>1 DEF UpdRec
    <3> QED BY <1>1, <1>2, <1>3, <2>1, <3>1 DEF Pending
  <2>2. CASE Case2(k, p)
    <3>1. [upd[u] EXCEPT !.kind = k, !.nonce = p, !.used = TRUE, !.pc = "endCheck",
              !.why = "newchat"] \in UpdRec
      <4>1. upd[u] \in UpdRec /\ "endCheck" \in PCs /\ "done" \in PCs
        BY <1>3
      <4> QED BY <4>1 DEF UpdRec
    <3> QED BY <1>1, <1>2, <1>3, <2>2, <3>1 DEF Pending
  <2>3. CASE Case3(k, p)
    <3>1. [upd[u] EXCEPT !.kind = k, !.nonce = p, !.used = TRUE, !.pc = "done",
              !.why = "hook"] \in UpdRec
      <4>1. upd[u] \in UpdRec /\ "endCheck" \in PCs /\ "done" \in PCs
        BY <1>3
      <4> QED BY <4>1 DEF UpdRec
    <3> QED BY <1>1, <1>2, <1>3, <2>3, <3>1 DEF Pending
  <2> QED BY <1>1, <2>1, <2>2, <2>3
<1>5. /\ upd'[u].seen = upd[u].seen /\ upd'[u].reset = upd[u].reset
      /\ upd'[u].bound = upd[u].bound /\ upd'[u].isNew = upd[u].isNew
      /\ upd'[u].target = upd[u].target /\ upd'[u].asked = upd[u].asked
  <2>1. CASE Case1(k, p)
    BY <1>1, <1>2, <1>3, <2>1 DEF Pending, UpdRec
  <2>2. CASE Case2(k, p)
    BY <1>1, <1>2, <1>3, <2>2 DEF Pending, UpdRec
  <2>3. CASE Case3(k, p)
    BY <1>1, <1>2, <1>3, <2>3 DEF Pending, UpdRec
  <2> QED BY <1>1, <2>1, <2>2, <2>3
<1>6. \/ upd'[u].pc = "done"
      \/ upd'[u].pc = "endCheck" /\ upd'[u].why = "newchat"
  <2>1. CASE Case1(k, p)
    BY <1>1, <1>2, <1>3, <2>1 DEF Pending, UpdRec
  <2>2. CASE Case2(k, p)
    BY <1>1, <1>2, <1>3, <2>2 DEF Pending, UpdRec
  <2>3. CASE Case3(k, p)
    BY <1>1, <1>2, <1>3, <2>3 DEF Pending, UpdRec
  <2> QED BY <1>1, <2>1, <2>2, <2>3
<1>7. MayStart
  BY <1>1, <1>2, <1>3 DEF PressButton, At, Pending, Consumed, UpdRec
<1>8. \/ ~upd'[u].used /\ UNCHANGED prompt
      \/ /\ upd'[u].used /\ upd'[u].nonce \in Updates
         /\ OnScreen(upd'[u].nonce)
         /\ prompt # None /\ prompt.by = upd'[u].nonce /\ prompt' = None
  <2>1. CASE Case1(k, p)
    BY <1>1, <1>2, <1>3, <2>1 DEF Pending, UpdRec
  <2>2. CASE Case2(k, p)
    BY <1>1, <1>2, <1>3, <2>2 DEF Pending, UpdRec
  <2>3. CASE Case3(k, p)
    BY <1>1, <1>2, <1>3, <2>3 DEF Pending, UpdRec
  <2> QED BY <1>1, <2>1, <2>2, <2>3
<1>9. UNCHANGED <<clock, active, sess, flushOn, summary, work, resets, faults>>
  BY <1>1, <1>2, <1>3 DEF PressButton, At, Pending, Consumed, UpdRec
<1>10. Used' = Used /\ Spent \subseteq Spent'
  BY <1>1, <1>2, <1>3, <1>4, <1>5, <1>6, <1>7, <1>8, <1>9 DEF Used, Spent
<1>11. SessOK' /\ WorkOK' /\ BoundsOK' /\ ActivityInv' /\ ResetInv'
  BY <1>9 DEF IInv, TypeOK, SessOK, WorkOK, BoundsOK, ActivityInv, ResetInv, Used
<1>12. MintInv'
  BY <1>10, MintKept
<1>13. HookInv'
  <2>1. upd'[u].pc \notin {"idle", "peek", "read"}
    BY <1>3, <1>6, <1>7
  <2> QED BY <2>1, <1>4, <1>9, HookKept
<1> USE Constants, <1>1, <1>2, <1>3, <1>4, <1>5, <1>6, <1>7, <1>8, <1>9, <1>10
<1>14. TalkOK'
  BY DEF IInv, TypeOK, TalkOK, Prompts, BoundsOK
<1>15. BoundInv'
  BY DEF IInv, BoundInv, Unminted, BeforeTurn
<1>16. TargetInv'
  BY DEF IInv, TargetInv, BoundInv
<1>17. ShownInv'
  BY DEF IInv, TypeOK, ShownInv, TalkOK, Prompts
<1>18. NonceInv'
  BY DEF IInv, TypeOK, NonceInv, ShownInv, Unasked, OnScreen, At
<1>19. OnceInv'
  BY DEF IInv, OnceInv, NonceInv
<1>20. AloneInv'
  BY DEF IInv, AloneInv, Busy, PCs, MayStart
<1>21. EndInv'
  BY DEF IInv, TypeOK, EndInv, EndOK, RollsBack, AloneInv, Busy, PCs,
       TalkOK, MayStart
<1> QED BY <1>11, <1>12, <1>13, <1>14, <1>15, <1>16, <1>17, <1>18, <1>19, <1>20,
     <1>21 DEF IInv, TypeOK

(* The hook remembers the session the index names, if there is one.        *)
LEMMA HookPeekKeeps ==
    ASSUME IInv, NEW u \in Updates, HookPeek(u)
    PROVE  IInv'
<1> DEFINE Case1 ==
              upd' = [upd EXCEPT ![u] = [@ EXCEPT !.seen = active, !.pc = "route"]]
<1> DEFINE Case2 ==
              upd' = [upd EXCEPT ![u] = [@ EXCEPT !.seen = active, !.pc = "read"]]
                        /\ active # None
<1>1. Case1 \/ Case2
  BY DEF HookPeek, At
<1>2. /\ upd[u].pc = "peek" /\ upd \in [Updates -> UpdRec]
      /\ active \in Sessions \cup {None}
      /\ {"route", "read"} \subseteq PCs
  BY Threes DEF IInv, TypeOK, TalkOK, PCs, HookPeek, At, SessOK, BoundInv
<1>3. /\ upd' \in [Updates -> UpdRec]
      /\ \A v \in Updates \ {u} : upd'[v] = upd[v]
  <2>1. CASE Case1
    <3>1. [upd[u] EXCEPT !.seen = active, !.pc = "route"] \in UpdRec
      <4>1. upd[u] \in UpdRec /\ {"route", "read"} \subseteq PCs
                /\ active \in Sessions \cup {None}
        BY <1>2
      <4> QED BY <4>1 DEF UpdRec
    <3> QED BY <1>2, <2>1, <3>1
  <2>2. CASE Case2
    <3>1. [upd[u] EXCEPT !.seen = active, !.pc = "read"] \in UpdRec
      <4>1. upd[u] \in UpdRec /\ {"route", "read"} \subseteq PCs
                /\ active \in Sessions \cup {None}
        BY <1>2
      <4> QED BY <4>1 DEF UpdRec
    <3> QED BY <1>2, <2>2, <3>1
  <2> QED BY <1>1, <2>1, <2>2
<1>4. /\ upd'[u].kind = upd[u].kind /\ upd'[u].reset = upd[u].reset
      /\ upd'[u].bound = upd[u].bound /\ upd'[u].isNew = upd[u].isNew
      /\ upd'[u].why = upd[u].why /\ upd'[u].target = upd[u].target
      /\ upd'[u].asked = upd[u].asked /\ upd'[u].nonce = upd[u].nonce
      /\ upd'[u].used = upd[u].used
  <2>1. CASE Case1
    BY <1>2, <2>1 DEF UpdRec
  <2>2. CASE Case2
    BY <1>2, <2>2 DEF UpdRec
  <2> QED BY <1>1, <2>1, <2>2
<1>5. \/ upd'[u].pc = "route"
      \/ upd'[u].pc = "read" /\ upd'[u].seen # None
  <2>1. CASE Case1
    BY <1>2, <2>1 DEF UpdRec
  <2>2. CASE Case2
    BY <1>2, <2>2 DEF UpdRec
  <2> QED BY <1>1, <2>1, <2>2
<1>6. UNCHANGED <<clock, active, sess, flushOn, summary, prompt, work, resets, faults>>
  BY <1>2 DEF HookPeek, At, UpdRec
<1>7. Used' = Used /\ Spent \subseteq Spent'
  BY <1>1, <1>2, <1>3, <1>4, <1>5, <1>6 DEF Used, Spent
<1>8. SessOK' /\ WorkOK' /\ BoundsOK' /\ ActivityInv' /\ ResetInv'
  BY <1>6 DEF IInv, TypeOK, SessOK, WorkOK, BoundsOK, ActivityInv, ResetInv, Used
<1>9. TalkOK'
  BY <1>3, <1>6 DEF IInv, TypeOK, TalkOK
<1>10. MintInv'
  BY <1>7, MintKept
<1>11. HookInv'
  <2>1. upd[u].why = "hook" /\ work[<<u, "idle">>].stage = "none"
    BY <1>2 DEF IInv, HookInv
  <2> QED BY <2>1, <1>3, <1>4, <1>6, HookKept
<1> USE Constants, <1>1, <1>2, <1>3, <1>4, <1>5, <1>6, <1>7
<1>12. BoundInv'
  BY DEF IInv, BoundInv, Unminted, BeforeTurn
<1>13. TargetInv'
  BY DEF IInv, TargetInv, BoundInv
<1>14. ShownInv'
  BY DEF IInv, TypeOK, ShownInv, TalkOK, Prompts
<1>15. NonceInv'
  BY DEF IInv, TypeOK, NonceInv, ShownInv, Unasked
<1>16. OnceInv'
  BY DEF IInv, OnceInv, NonceInv
<1>17. AloneInv'
  BY DEF IInv, AloneInv, Busy, PCs
<1>18. EndInv'
  BY DEF IInv, TypeOK, EndInv, EndOK, RollsBack, AloneInv, Busy, PCs,
       TalkOK
<1> QED BY <1>8, <1>9, <1>10, <1>11, <1>12, <1>13, <1>14, <1>15, <1>16, <1>17,
     <1>18 DEF IInv, TypeOK

(* It goes on to end that session, or gives the reset up.                  *)
LEMMA HookReadKeeps ==
    ASSUME IInv, NEW u \in Updates, HookRead(u)
    PROVE  IInv'
<1> DEFINE Case1 ==
              To(u, "endCheck")
<1> DEFINE Case2 ==
              To(u, "route")
<1>1. Case1 \/ Case2
  BY DEF HookRead, At, To, Protected
<1>2. /\ upd[u].pc = "read" /\ upd \in [Updates -> UpdRec]
      /\ {"endCheck", "route"} \subseteq PCs
  BY Threes DEF IInv, TypeOK, TalkOK, PCs, HookRead, At
<1>3. /\ upd' \in [Updates -> UpdRec]
      /\ \A v \in Updates \ {u} : upd'[v] = upd[v]
  <2>1. CASE Case1
    BY <1>2, <2>1 DEF To, UpdRec
  <2>2. CASE Case2
    BY <1>2, <2>2 DEF To, UpdRec
  <2> QED BY <1>1, <2>1, <2>2
<1>4. /\ upd'[u].kind = upd[u].kind /\ upd'[u].seen = upd[u].seen
      /\ upd'[u].reset = upd[u].reset /\ upd'[u].bound = upd[u].bound
      /\ upd'[u].isNew = upd[u].isNew /\ upd'[u].why = upd[u].why
      /\ upd'[u].target = upd[u].target /\ upd'[u].asked = upd[u].asked
      /\ upd'[u].nonce = upd[u].nonce /\ upd'[u].used = upd[u].used
  <2>1. CASE Case1
    BY <1>2, <2>1 DEF To, UpdRec
  <2>2. CASE Case2
    BY <1>2, <2>2 DEF To, UpdRec
  <2> QED BY <1>1, <2>1, <2>2
<1>5. \/ upd'[u].pc = "route"
      \/ upd'[u].pc = "endCheck"
  <2>1. CASE Case1
    BY <1>2, <2>1 DEF To, UpdRec
  <2>2. CASE Case2
    BY <1>2, <2>2 DEF To, UpdRec
  <2> QED BY <1>1, <2>1, <2>2
<1>6. work' = [work EXCEPT ![<<u, "idle">>].of = TurnsOf(upd[u].seen)]
  BY <1>2 DEF HookRead, At, To, Protected, UpdRec
<1>7. UNCHANGED <<clock, active, sess, flushOn, summary, prompt, resets, faults>>
  BY <1>2 DEF HookRead, At, To, Protected, UpdRec
<1>8. Used' = Used /\ Spent \subseteq Spent'
  BY <1>1, <1>2, <1>3, <1>4, <1>5, <1>6, <1>7 DEF Used, Spent
<1>9. SessOK' /\ BoundsOK' /\ ActivityInv' /\ ResetInv'
  BY <1>7 DEF IInv, TypeOK, SessOK, BoundsOK, ActivityInv, ResetInv, Used
<1>10. TalkOK'
  BY <1>3, <1>7 DEF IInv, TypeOK, TalkOK
<1>11. WorkOK'
  <2>1. <<u, "idle">> \in Jobs
    BY JobPlaces
  <2>2. work[<<u, "idle">>] \in WorkRec /\ work[<<u, "idle">>].stage = "none"
    BY <2>1, <1>2 DEF IInv, TypeOK, WorkOK, HookInv
  <2>3. TurnsOf(upd[u].seen) \in Sessions \cup {None}
    BY <1>2 DEF TurnsOf, UpdRec
  <2>4. /\ [work[<<u, "idle">>] EXCEPT !.of = TurnsOf(upd[u].seen)] \in WorkRec
        /\ [work[<<u, "idle">>] EXCEPT !.of = TurnsOf(upd[u].seen)].stage = "none"
    BY <2>2, <2>3 DEF WorkRec
  <2> QED BY <2>1, <2>4, <1>6, <1>7, JobChanged DEF IInv, TypeOK
<1>12. MintInv'
  BY <1>8, MintKept
<1>13. HookInv'
  <2>1. \A v \in Updates \ {u} : work'[<<v, "idle">>] = work[<<v, "idle">>]
    BY <1>6, <1>5, <1>7, JobPlaces DEF IInv, TypeOK, WorkOK
  <2>2. upd'[u].pc \notin {"idle", "peek", "read"}
    BY <1>2, <1>6, <1>5
  <2> QED BY <2>1, <2>2, <1>3, HookKept
<1>14. EndInv'
  <2>1. \A v \in Updates \ {u} : EndOK(v) => EndOK(v)'
    BY <1>3, <1>7 DEF EndOK, RollsBack
  <2>2. upd'[u].why = "hook"
    BY <1>2, <1>4 DEF IInv, HookInv
  <2>3. EndOK(u)'
    BY <2>2, <1>2, <1>5, <1>7 DEF EndOK, RollsBack
  <2> QED BY <2>1, <2>3, <1>7 DEF IInv, EndInv
<1> USE Constants, JobPlaces, <1>1, <1>2, <1>3, <1>4, <1>5, <1>6, <1>7, <1>8
<1>15. BoundInv'
  BY DEF IInv, BoundInv, Unminted, BeforeTurn
<1>16. TargetInv'
  BY DEF IInv, TargetInv, BoundInv
<1>17. ShownInv'
  BY DEF IInv, TypeOK, ShownInv, TalkOK, Prompts
<1>18. NonceInv'
  BY DEF IInv, TypeOK, NonceInv, ShownInv, Unasked
<1>19. OnceInv'
  BY DEF IInv, OnceInv, NonceInv
<1>20. AloneInv'
  BY DEF IInv, AloneInv, Busy, PCs
<1> QED BY <1>9, <1>10, <1>11, <1>12, <1>13, <1>14, <1>15, <1>16, <1>17, <1>18,
     <1>19, <1>20 DEF IInv, TypeOK

(* What is about to be ended is the session the index names.               *)
LEMMA EndCheckKeeps ==
    ASSUME IInv, NEW u \in Updates, EndCheck(u)
    PROVE  IInv'
<1> DEFINE Case1 ==
              upd' = [upd EXCEPT ![u] = [@ EXCEPT !.target = active,
                        !.pc = "endWrite"]] /\ active # None
<1> DEFINE Case2 ==
              upd' = [upd EXCEPT ![u] = [@ EXCEPT !.target = active, !.pc = "route"]]
                        /\ upd[u].why = "hook"
<1> DEFINE Case3 ==
              upd' = [upd EXCEPT ![u] = [@ EXCEPT !.target = active, !.pc = "done"]]
                        /\ upd[u].why # "hook"
<1>1. Case1 \/ Case2 \/ Case3
  BY DEF EndCheck, At, AfterNoEnd
<1>2. /\ upd[u].pc = "endCheck" /\ upd \in [Updates -> UpdRec]
      /\ active \in Sessions \cup {None}
      /\ {"endWrite", "route", "done"} \subseteq PCs
  BY Threes DEF IInv, TypeOK, TalkOK, PCs, EndCheck, At, SessOK, BoundInv
<1>3. /\ upd' \in [Updates -> UpdRec]
      /\ \A v \in Updates \ {u} : upd'[v] = upd[v]
  <2>1. CASE Case1
    <3>1. [upd[u] EXCEPT !.target = active, !.pc = "endWrite"] \in UpdRec
      <4>1. upd[u] \in UpdRec /\ {"endWrite", "route", "done"} \subseteq PCs
                /\ active \in Sessions \cup {None}
        BY <1>2
      <4> QED BY <4>1 DEF UpdRec
    <3> QED BY <1>2, <2>1, <3>1
  <2>2. CASE Case2
    <3>1. [upd[u] EXCEPT !.target = active, !.pc = "route"] \in UpdRec
      <4>1. upd[u] \in UpdRec /\ {"endWrite", "route", "done"} \subseteq PCs
                /\ active \in Sessions \cup {None}
        BY <1>2
      <4> QED BY <4>1 DEF UpdRec
    <3> QED BY <1>2, <2>2, <3>1
  <2>3. CASE Case3
    <3>1. [upd[u] EXCEPT !.target = active, !.pc = "done"] \in UpdRec
      <4>1. upd[u] \in UpdRec /\ {"endWrite", "route", "done"} \subseteq PCs
                /\ active \in Sessions \cup {None}
        BY <1>2
      <4> QED BY <4>1 DEF UpdRec
    <3> QED BY <1>2, <2>3, <3>1
  <2> QED BY <1>1, <2>1, <2>2, <2>3
<1>4. /\ upd'[u].kind = upd[u].kind /\ upd'[u].seen = upd[u].seen
      /\ upd'[u].reset = upd[u].reset /\ upd'[u].bound = upd[u].bound
      /\ upd'[u].isNew = upd[u].isNew /\ upd'[u].why = upd[u].why
      /\ upd'[u].asked = upd[u].asked /\ upd'[u].nonce = upd[u].nonce
      /\ upd'[u].used = upd[u].used
  <2>1. CASE Case1
    BY <1>2, <2>1 DEF UpdRec
  <2>2. CASE Case2
    BY <1>2, <2>2 DEF UpdRec
  <2>3. CASE Case3
    BY <1>2, <2>3 DEF UpdRec
  <2> QED BY <1>1, <2>1, <2>2, <2>3
<1>5. upd'[u].target = active
  <2>1. CASE Case1
    BY <1>2, <2>1 DEF UpdRec
  <2>2. CASE Case2
    BY <1>2, <2>2 DEF UpdRec
  <2>3. CASE Case3
    BY <1>2, <2>3 DEF UpdRec
  <2> QED BY <1>1, <2>1, <2>2, <2>3
<1>6. \/ upd'[u].pc = "endWrite" /\ active # None
      \/ upd[u].why = "hook" /\ upd'[u].pc = "route"
      \/ upd[u].why # "hook" /\ upd'[u].pc = "done"
  <2>1. CASE Case1
    BY <1>2, <2>1 DEF UpdRec
  <2>2. CASE Case2
    BY <1>2, <2>2 DEF UpdRec
  <2>3. CASE Case3
    BY <1>2, <2>3 DEF UpdRec
  <2> QED BY <1>1, <2>1, <2>2, <2>3
<1>7. UNCHANGED <<clock, active, sess, flushOn, summary, prompt, work, resets, faults>>
  BY <1>2 DEF EndCheck, At, AfterNoEnd, UpdRec
<1>8. Used' = Used /\ Spent \subseteq Spent'
  BY <1>1, <1>2, <1>3, <1>4, <1>5, <1>6, <1>7 DEF Used, Spent
<1>9. SessOK' /\ WorkOK' /\ BoundsOK' /\ ActivityInv' /\ ResetInv'
  BY <1>7 DEF IInv, TypeOK, SessOK, WorkOK, BoundsOK, ActivityInv, ResetInv, Used
<1>10. TalkOK'
  BY <1>3, <1>7 DEF IInv, TypeOK, TalkOK
<1>11. MintInv'
  BY <1>8, MintKept
<1>12. HookInv'
  <2>1. upd'[u].pc \notin {"idle", "peek", "read"}
    BY <1>2, <1>5, <1>6
  <2> QED BY <2>1, <1>3, <1>7, HookKept
<1> USE Constants, <1>1, <1>2, <1>3, <1>4, <1>5, <1>6, <1>7, <1>8
<1>13. BoundInv'
  BY DEF IInv, BoundInv, Unminted, BeforeTurn
<1>14. TargetInv'
  BY DEF IInv, TargetInv, BoundInv
<1>15. ShownInv'
  BY DEF IInv, TypeOK, ShownInv, TalkOK, Prompts
<1>16. NonceInv'
  BY DEF IInv, TypeOK, NonceInv, ShownInv, Unasked
<1>17. OnceInv'
  BY DEF IInv, OnceInv, NonceInv
<1>18. AloneInv'
  BY DEF IInv, AloneInv, Busy, PCs
<1>19. EndInv'
  BY DEF IInv, TypeOK, EndInv, EndOK, RollsBack, AloneInv, Busy, PCs,
       TalkOK
<1> QED BY <1>9, <1>10, <1>11, <1>12, <1>13, <1>14, <1>15, <1>16, <1>17, <1>18,
     <1>19 DEF IInv, TypeOK

(* The session ends at the clock of now, which is not before its last      *)
(* activity.                                                               *)
LEMMA EndWriteKeeps ==
    ASSUME IInv, NEW u \in Updates, EndWrite(u)
    PROVE  IInv'
<1> DEFINE Case1 ==
              To(u, "endClear") /\ sess' = [sess EXCEPT ![upd[u].target] =
                                    [@ EXCEPT !.stage = "ended", !.endedAt = clock]]
<1> DEFINE Case2 ==
              upd[u].why = "hook" /\ To(u, "route") /\ sess' = sess
<1> DEFINE Case3 ==
              upd[u].why # "hook" /\ To(u, "done") /\ sess' = sess
<1>1. Case1 \/ Case2 \/ Case3
  BY DEF EndWrite, At, To, AfterNoEnd, NoFault, Fault
<1>2. /\ upd[u].pc = "endWrite" /\ upd \in [Updates -> UpdRec]
      /\ {"endClear", "route", "done"} \subseteq PCs
  BY Threes DEF IInv, TypeOK, TalkOK, PCs, EndWrite, At
<1>3. /\ upd' \in [Updates -> UpdRec]
      /\ \A v \in Updates \ {u} : upd'[v] = upd[v]
  <2>1. CASE Case1
    BY <1>2, <2>1 DEF To, UpdRec
  <2>2. CASE Case2
    BY <1>2, <2>2 DEF To, UpdRec
  <2>3. CASE Case3
    BY <1>2, <2>3 DEF To, UpdRec
  <2> QED BY <1>1, <2>1, <2>2, <2>3
<1>4. /\ upd'[u].kind = upd[u].kind /\ upd'[u].seen = upd[u].seen
      /\ upd'[u].reset = upd[u].reset /\ upd'[u].bound = upd[u].bound
      /\ upd'[u].isNew = upd[u].isNew /\ upd'[u].why = upd[u].why
      /\ upd'[u].target = upd[u].target /\ upd'[u].asked = upd[u].asked
      /\ upd'[u].nonce = upd[u].nonce /\ upd'[u].used = upd[u].used
  <2>1. CASE Case1
    BY <1>2, <2>1 DEF To, UpdRec
  <2>2. CASE Case2
    BY <1>2, <2>2 DEF To, UpdRec
  <2>3. CASE Case3
    BY <1>2, <2>3 DEF To, UpdRec
  <2> QED BY <1>1, <2>1, <2>2, <2>3
<1>5. \/ /\ upd'[u].pc = "endClear"
         /\ sess' = [sess EXCEPT ![upd[u].target] = [@ EXCEPT !.stage = "ended",
                                                          !.endedAt = clock]]
      \/ upd[u].why = "hook" /\ upd'[u].pc = "route" /\ sess' = sess
      \/ upd[u].why # "hook" /\ upd'[u].pc = "done" /\ sess' = sess
  <2>1. CASE Case1
    BY <1>2, <2>1 DEF To, UpdRec
  <2>2. CASE Case2
    BY <1>2, <2>2 DEF To, UpdRec
  <2>3. CASE Case3
    BY <1>2, <2>3 DEF To, UpdRec
  <2> QED BY <1>1, <2>1, <2>2, <2>3
<1>6. faults' \in 0 .. MaxFaults
  BY Constants DEF IInv, TypeOK, BoundsOK, EndWrite, NoFault, Fault
<1>7. UNCHANGED <<clock, active, flushOn, summary, prompt, work, resets>>
  BY <1>2 DEF EndWrite, At, To, AfterNoEnd, NoFault, Fault, UpdRec
<1>8. Used' = Used /\ Spent \subseteq Spent'
  <2>1. upd[u].target \in Sessions /\ sess[upd[u].target].stage # "unused"
    BY <1>2 DEF IInv, TargetInv, Used
  <2>2. \A s \in Sessions : sess'[s].stage = sess[s].stage \/ (s = upd[u].target
            /\ sess'[s].stage = "ended")
    BY <2>1, <1>5, <1>6 DEF IInv, TypeOK, SessOK, SessRec
  <2>3. Used' = Used
    BY <2>1, <2>2 DEF Used
  <2>4. Spent \subseteq Spent'
    BY <1>1, <1>2, <1>3, <1>4, <1>5, <1>6, <1>7 DEF Spent
  <2> QED BY <2>3, <2>4
<1>9. WorkOK'
  BY <1>7 DEF IInv, TypeOK, WorkOK
<1>10. SessOK' /\ ActivityInv'
  <2>1. upd[u].target \in Sessions /\ sess[upd[u].target] \in SessRec /\ clock \in Nat
    BY <1>2 DEF IInv, TargetInv, Used, TypeOK, SessOK, BoundsOK
  <2>2. CASE sess' = sess
    BY <2>2, <1>7 DEF IInv, TypeOK, SessOK, ActivityInv
  <2>3. CASE sess' = [sess EXCEPT ![upd[u].target] = [@ EXCEPT !.stage = "ended",
            !.endedAt = clock]]
    <3> DEFINE r == [sess[upd[u].target] EXCEPT !.stage = "ended", !.endedAt = clock]
    <3>1. r \in SessRec /\ r.touched = sess[upd[u].target].touched /\ r.endedAt = clock
      BY <2>1 DEF SessRec
    <3>2. r.touched <= clock
      BY <2>1, <3>1 DEF IInv, ActivityInv
    <3> QED BY <2>1, <2>3, <3>1, <3>2, <1>7, SessionChanged DEF IInv, TypeOK, SessOK
  <2> QED BY <1>5, <2>2, <2>3
<1>11. TalkOK'
  BY <1>3, <1>7 DEF IInv, TypeOK, TalkOK
<1>12. MintInv'
  BY <1>8, MintKept
<1>13. HookInv'
  <2>1. upd'[u].pc \notin {"idle", "peek", "read"}
    BY <1>2, <1>5, <1>6
  <2> QED BY <2>1, <1>3, <1>7, HookKept
<1> USE Constants, <1>1, <1>2, <1>3, <1>4, <1>5, <1>6, <1>7, <1>8
<1>14. BoundsOK'
  BY DEF IInv, TypeOK, BoundsOK
<1>15. BoundInv'
  BY DEF IInv, BoundInv, Unminted, BeforeTurn
<1>16. TargetInv'
  BY DEF IInv, TargetInv, BoundInv
<1>17. ShownInv'
  BY DEF IInv, TypeOK, ShownInv, TalkOK, Prompts
<1>18. NonceInv'
  BY DEF IInv, TypeOK, NonceInv, ShownInv, Unasked
<1>19. OnceInv'
  BY DEF IInv, OnceInv, NonceInv
<1>20. AloneInv'
  BY DEF IInv, AloneInv, Busy, PCs
<1>21. EndInv'
  BY DEF IInv, TypeOK, EndInv, EndOK, RollsBack, AloneInv, Busy, PCs,
       TalkOK
<1>22. ResetInv'
  BY DEF IInv, TypeOK, ResetInv, Used, SessOK
<1> QED BY <1>9, <1>10, <1>11, <1>12, <1>13, <1>14, <1>15, <1>16, <1>17, <1>18,
     <1>19, <1>20, <1>21, <1>22 DEF IInv, TypeOK

(* The index names no session any more, so that the one that was reset is  *)
(* not reset again.                                                        *)
LEMMA EndClearKeeps ==
    ASSUME IInv, NEW u \in Updates, EndClear(u)
    PROVE  IInv'
<1> DEFINE Case1 ==
              /\ upd' = [upd EXCEPT ![u] = [@ EXCEPT !.pc = "flush",
                        !.reset = upd[u].target]]
              /\ active' = None /\ upd[u].why = "hook"
              /\ resets' = [resets EXCEPT ![upd[u].target] = @ + 1]
              /\ work' = [work EXCEPT ![<<u, "idle">>].stage = "enabled"]
<1> DEFINE Case2 ==
              /\ upd' = [upd EXCEPT ![u] = [@ EXCEPT !.pc = "done", !.reset = None]]
              /\ active' = None /\ upd[u].why # "hook"
              /\ UNCHANGED <<resets, work>>
<1> DEFINE Case3 ==
              upd[u].why = "hook" /\ To(u, "route") /\ UNCHANGED <<active, resets,
                        work>>
<1> DEFINE Case4 ==
              upd[u].why # "hook" /\ To(u, "done") /\ UNCHANGED <<active, resets, work>>
<1>1. Case1 \/ Case2 \/ Case3 \/ Case4
  BY DEF EndClear, At, To, AfterEnd, AfterNoEnd, NoFault, Fault, Dropped
<1>2. /\ upd[u].pc = "endClear" /\ upd \in [Updates -> UpdRec]
      /\ {"flush", "route", "done"} \subseteq PCs
  BY Threes DEF IInv, TypeOK, TalkOK, PCs, EndClear, At
<1>3. /\ upd' \in [Updates -> UpdRec]
      /\ \A v \in Updates \ {u} : upd'[v] = upd[v]
  <2>1. CASE Case1
    <3>1. [upd[u] EXCEPT !.pc = "flush", !.reset = upd[u].target] \in UpdRec
      <4>1. upd[u] \in UpdRec /\ {"flush", "route", "done"} \subseteq PCs
        BY <1>2
      <4> QED BY <4>1 DEF UpdRec
    <3> QED BY <1>2, <2>1, <3>1 DEF To
  <2>2. CASE Case2
    <3>1. [upd[u] EXCEPT !.pc = "done", !.reset = None] \in UpdRec
      <4>1. upd[u] \in UpdRec /\ {"flush", "route", "done"} \subseteq PCs
        BY <1>2
      <4> QED BY <4>1 DEF UpdRec
    <3> QED BY <1>2, <2>2, <3>1 DEF To
  <2>3. CASE Case3
    BY <1>2, <2>3 DEF To, UpdRec
  <2>4. CASE Case4
    BY <1>2, <2>4 DEF To, UpdRec
  <2> QED BY <1>1, <2>1, <2>2, <2>3, <2>4
<1>4. /\ upd'[u].kind = upd[u].kind /\ upd'[u].seen = upd[u].seen
      /\ upd'[u].bound = upd[u].bound /\ upd'[u].isNew = upd[u].isNew
      /\ upd'[u].why = upd[u].why /\ upd'[u].target = upd[u].target
      /\ upd'[u].asked = upd[u].asked /\ upd'[u].nonce = upd[u].nonce
      /\ upd'[u].used = upd[u].used
  <2>1. CASE Case1
    BY <1>2, <2>1 DEF To, UpdRec
  <2>2. CASE Case2
    BY <1>2, <2>2 DEF To, UpdRec
  <2>3. CASE Case3
    BY <1>2, <2>3 DEF To, UpdRec
  <2>4. CASE Case4
    BY <1>2, <2>4 DEF To, UpdRec
  <2> QED BY <1>1, <2>1, <2>2, <2>3, <2>4
<1>5. \/ /\ active' = None /\ upd[u].why = "hook" /\ upd'[u].pc = "flush"
         /\ resets' = [resets EXCEPT ![upd[u].target] = @ + 1]
         /\ work' = [work EXCEPT ![<<u, "idle">>].stage = "enabled"]
         /\ upd'[u].reset = upd[u].target
      \/ /\ active' = None /\ upd[u].why # "hook" /\ upd'[u].pc = "done"
         /\ UNCHANGED <<resets, work>> /\ upd'[u].reset = None
      \/ /\ UNCHANGED <<active, resets, work>> /\ upd'[u].reset = upd[u].reset
         /\ \/ upd[u].why = "hook" /\ upd'[u].pc = "route"
            \/ upd[u].why # "hook" /\ upd'[u].pc = "done"
  <2>1. CASE Case1
    BY <1>2, <2>1 DEF To, UpdRec
  <2>2. CASE Case2
    BY <1>2, <2>2 DEF To, UpdRec
  <2>3. CASE Case3
    BY <1>2, <2>3 DEF To, UpdRec
  <2>4. CASE Case4
    BY <1>2, <2>4 DEF To, UpdRec
  <2> QED BY <1>1, <2>1, <2>2, <2>3, <2>4
<1>6. faults' \in 0 .. MaxFaults
  BY Constants DEF IInv, TypeOK, BoundsOK, EndClear, NoFault, Fault
<1>7. UNCHANGED <<clock, sess, flushOn, summary, prompt>>
  BY <1>2 DEF EndClear, At, To, AfterEnd, AfterNoEnd, NoFault, Fault, Dropped,
       UpdRec
<1>8. Used' = Used /\ Spent \subseteq Spent'
  BY <1>1, <1>2, <1>3, <1>4, <1>5, <1>6, <1>7 DEF Used, Spent
<1>9. ActivityInv'
  BY <1>7 DEF IInv, TypeOK, ActivityInv
<1>10. TalkOK'
  BY <1>3, <1>7 DEF IInv, TypeOK, TalkOK
<1>11. WorkOK'
  <2>1. <<u, "idle">> \in Jobs /\ <<u, "command">> \in Jobs
            /\ work \in [Jobs -> WorkRec]
    BY JobPlaces DEF IInv, TypeOK, WorkOK
  <2>2. CASE work' = [work EXCEPT ![<<u, "idle">>].stage = "enabled"]
    <3>1. /\ [work[<<u, "idle">>] EXCEPT !.stage = "enabled"] \in WorkRec
          /\ [work[<<u, "idle">>] EXCEPT !.stage = "enabled"].stage = "enabled"
      BY <2>1 DEF WorkRec
    <3> QED BY <2>1, <2>2, <3>1, <1>7, JobChanged DEF IInv, TypeOK
  <2>3. CASE UNCHANGED work
    BY <2>3, <1>7 DEF IInv, TypeOK, WorkOK
  <2> QED BY <1>5, <2>2, <2>3
<1>12. MintInv'
  BY <1>8, MintKept
<1>13. HookInv'
  <2>1. \A v \in Updates \ {u} : work'[<<v, "idle">>] = work[<<v, "idle">>]
    BY <1>5, <1>7, JobPlaces DEF IInv, TypeOK, WorkOK
  <2>2. upd'[u].pc \notin {"idle", "peek", "read"}
    BY <1>2, <1>5
  <2> QED BY <2>1, <2>2, <1>3, HookKept
<1>14. ResetInv'
  <2> SUFFICES ASSUME Sequential, NEW s \in Sessions, resets'[s] > 0
               PROVE  resets'[s] = 1 /\ s \in Used' /\ s # active'
    BY DEF ResetInv
  <2>1. /\ upd[u].target = active /\ upd[u].target \in Used
        /\ resets \in [Sessions -> Nat]
        /\ resets[s] > 0 => resets[s] = 1 /\ s \in Used /\ s # active
    BY <1>2 DEF IInv, TypeOK, SessOK, EndInv, EndOK, TargetInv, ResetInv
  <2>2. CASE active' = None /\ resets' = [resets EXCEPT ![upd[u].target] = @ + 1]
    <3>1. CASE s = upd[u].target
      BY <2>1, <2>2, <3>1, <1>8, Constants
    <3>2. CASE s # upd[u].target
      BY <2>1, <2>2, <3>2, <1>8, Constants
    <3> QED BY <3>1, <3>2
  <2>3. CASE UNCHANGED resets /\ active' \in {active, None}
    BY <2>1, <2>3, <1>8, Constants
  <2> QED BY <1>5, <2>2, <2>3
<1> USE Constants, JobPlaces, <1>1, <1>2, <1>3, <1>4, <1>5, <1>6, <1>7, <1>8
<1>15. SessOK'
  BY DEF IInv, TypeOK, SessOK, SessRec
<1>16. BoundsOK'
  BY DEF IInv, TypeOK, BoundsOK
<1>17. BoundInv'
  BY DEF IInv, BoundInv, Unminted, BeforeTurn
<1>18. TargetInv'
  BY DEF IInv, TargetInv, BoundInv
<1>19. ShownInv'
  BY DEF IInv, TypeOK, ShownInv, TalkOK, Prompts
<1>20. NonceInv'
  BY DEF IInv, TypeOK, NonceInv, ShownInv, Unasked
<1>21. OnceInv'
  BY DEF IInv, OnceInv, NonceInv
<1>22. AloneInv'
  BY DEF IInv, AloneInv, Busy, PCs
<1>23. EndInv'
  BY DEF IInv, TypeOK, EndInv, EndOK, RollsBack, AloneInv, Busy, PCs,
       TalkOK
<1> QED BY <1>9, <1>10, <1>11, <1>12, <1>13, <1>14, <1>15, <1>16, <1>17, <1>18,
     <1>19, <1>20, <1>21, <1>22, <1>23 DEF IInv, TypeOK

(* The flush is over, or its timer fires: only the job is marked.          *)
LEMMA FlushRaceKeeps ==
    ASSUME IInv, NEW u \in Updates, FlushRace(u, "flush", <<u, "idle">>, "notice")
              \/ FlushRace(u, "flushWait", <<u, "command">>, "done")
    PROVE  IInv'
<1> DEFINE Case1 ==
              /\ upd[u].pc = "flush" /\ To(u, "notice")
              /\ work' = [work EXCEPT ![<<u, "idle">>].aborted =
                            IF work[<<u, "idle">>].stage = "over" THEN @ ELSE TRUE]
<1> DEFINE Case2 ==
              /\ upd[u].pc = "flushWait" /\ To(u, "done")
              /\ work' = [work EXCEPT ![<<u, "command">>].aborted =
                            IF work[<<u, "command">>].stage = "over" THEN @ ELSE TRUE]
<1>1. Case1 \/ Case2
  BY DEF FlushRace, At, To
<1>2. /\ upd[u].pc \in {"flush", "flushWait"} /\ upd \in [Updates -> UpdRec]
      /\ {"notice", "done"} \subseteq PCs
  BY Threes DEF IInv, TypeOK, TalkOK, PCs, FlushRace, At
<1>3. /\ upd' \in [Updates -> UpdRec]
      /\ \A v \in Updates \ {u} : upd'[v] = upd[v]
  <2>1. CASE Case1
    BY <1>2, <2>1 DEF To, UpdRec
  <2>2. CASE Case2
    BY <1>2, <2>2 DEF To, UpdRec
  <2> QED BY <1>1, <2>1, <2>2
<1>4. /\ upd'[u].kind = upd[u].kind /\ upd'[u].seen = upd[u].seen
      /\ upd'[u].reset = upd[u].reset /\ upd'[u].bound = upd[u].bound
      /\ upd'[u].isNew = upd[u].isNew /\ upd'[u].why = upd[u].why
      /\ upd'[u].target = upd[u].target /\ upd'[u].asked = upd[u].asked
      /\ upd'[u].nonce = upd[u].nonce /\ upd'[u].used = upd[u].used
  <2>1. CASE Case1
    BY <1>2, <2>1 DEF To, UpdRec
  <2>2. CASE Case2
    BY <1>2, <2>2 DEF To, UpdRec
  <2> QED BY <1>1, <2>1, <2>2
<1>5. \/ /\ upd[u].pc = "flush" /\ upd'[u].pc = "notice"
         /\ work' = [work EXCEPT ![<<u, "idle">>].aborted =
                       IF work[<<u, "idle">>].stage = "over" THEN @ ELSE TRUE]
      \/ /\ upd[u].pc = "flushWait" /\ upd'[u].pc = "done"
         /\ work' = [work EXCEPT ![<<u, "command">>].aborted =
                       IF work[<<u, "command">>].stage = "over" THEN @ ELSE TRUE]
  <2>1. CASE Case1
    BY <1>2, <2>1 DEF To, UpdRec
  <2>2. CASE Case2
    BY <1>2, <2>2 DEF To, UpdRec
  <2> QED BY <1>1, <2>1, <2>2
<1>6. UNCHANGED <<clock, active, sess, flushOn, summary, prompt, resets, faults>>
  BY <1>2 DEF FlushRace, At, To, At, UpdRec
<1>7. Used' = Used /\ Spent \subseteq Spent'
  BY <1>1, <1>2, <1>3, <1>4, <1>5, <1>6 DEF Used, Spent
<1>8. SessOK' /\ BoundsOK' /\ ActivityInv' /\ ResetInv'
  BY <1>6 DEF IInv, TypeOK, SessOK, BoundsOK, ActivityInv, ResetInv, Used
<1>9. TalkOK'
  BY <1>3, <1>6 DEF IInv, TypeOK, TalkOK
<1>10. WorkOK'
  <2>1. <<u, "idle">> \in Jobs /\ <<u, "command">> \in Jobs
            /\ work \in [Jobs -> WorkRec]
    BY JobPlaces DEF IInv, TypeOK, WorkOK
  <2>2. ASSUME NEW j \in Jobs,
               work' = [work EXCEPT ![j].aborted = IF work[j].stage = "over" THEN @ ELSE TRUE]
        PROVE  WorkOK'
    <3> DEFINE r == [work[j] EXCEPT !.aborted = IF work[j].stage = "over" THEN @ ELSE TRUE]
    <3>1. r \in WorkRec /\ r.stage = work[j].stage /\ r.of = work[j].of
      BY <2>1 DEF WorkRec
    <3>2. r.stage \in {"summarize", "save"} => r.of # None
      BY <3>1 DEF IInv, TypeOK, WorkOK
    <3> QED BY <2>2, <3>1, <3>2, <1>6, JobChanged DEF IInv, TypeOK
  <2> QED BY <1>5, <2>1, <2>2
<1>11. MintInv'
  BY <1>7, MintKept
<1>12. HookInv'
  <2>1. \A v \in Updates \ {u} : work'[<<v, "idle">>] = work[<<v, "idle">>]
    BY <1>5, <1>6, JobPlaces DEF IInv, TypeOK, WorkOK
  <2>2. upd'[u].pc \notin {"idle", "peek", "read"}
    BY <1>2, <1>5
  <2> QED BY <2>1, <2>2, <1>3, HookKept
<1> USE Constants, JobPlaces, <1>1, <1>2, <1>3, <1>4, <1>5, <1>6, <1>7
<1>13. BoundInv'
  BY DEF IInv, BoundInv, Unminted, BeforeTurn
<1>14. TargetInv'
  BY DEF IInv, TargetInv, BoundInv
<1>15. ShownInv'
  BY DEF IInv, TypeOK, ShownInv, TalkOK, Prompts
<1>16. NonceInv'
  BY DEF IInv, TypeOK, NonceInv, ShownInv, Unasked
<1>17. OnceInv'
  BY DEF IInv, OnceInv, NonceInv
<1>18. AloneInv'
  BY DEF IInv, AloneInv, Busy, PCs
<1>19. EndInv'
  BY DEF IInv, TypeOK, EndInv, EndOK, RollsBack, AloneInv, Busy, PCs,
       TalkOK
<1> QED BY <1>8, <1>9, <1>10, <1>11, <1>12, <1>13, <1>14, <1>15, <1>16, <1>17,
     <1>18, <1>19 DEF IInv, TypeOK

(* The notice changes nothing but where the update is.                     *)
LEMMA NoticeKeeps ==
    ASSUME IInv, NEW u \in Updates, Notice(u)
    PROVE  IInv'
<1>1. /\ upd[u].pc = "notice" /\ upd \in [Updates -> UpdRec]
      /\ {"route"} \subseteq PCs
  BY Threes DEF IInv, TypeOK, TalkOK, PCs, Notice, At
<1>2. /\ upd' \in [Updates -> UpdRec]
      /\ \A v \in Updates \ {u} : upd'[v] = upd[v]
  BY <1>1 DEF Notice, To, UpdRec
<1>3. /\ upd'[u].kind = upd[u].kind /\ upd'[u].seen = upd[u].seen
      /\ upd'[u].reset = upd[u].reset /\ upd'[u].bound = upd[u].bound
      /\ upd'[u].isNew = upd[u].isNew /\ upd'[u].why = upd[u].why
      /\ upd'[u].target = upd[u].target /\ upd'[u].asked = upd[u].asked
      /\ upd'[u].nonce = upd[u].nonce /\ upd'[u].used = upd[u].used
  BY <1>1 DEF Notice, To, UpdRec
<1>4. upd'[u].pc = "route"
  BY <1>1 DEF Notice, At, To, UpdRec
<1>5. UNCHANGED <<clock, active, sess, flushOn, summary, prompt, work, resets, faults>>
  BY <1>1 DEF Notice, At, To, UpdRec
<1>6. Used' = Used /\ Spent \subseteq Spent'
  BY <1>1, <1>2, <1>3, <1>4, <1>5 DEF Used, Spent
<1>7. SessOK' /\ WorkOK' /\ BoundsOK' /\ ActivityInv' /\ ResetInv'
  BY <1>5 DEF IInv, TypeOK, SessOK, WorkOK, BoundsOK, ActivityInv, ResetInv, Used
<1>8. TalkOK'
  BY <1>2, <1>5 DEF IInv, TypeOK, TalkOK
<1>9. MintInv'
  BY <1>6, MintKept
<1>10. HookInv'
  <2>1. upd'[u].pc \notin {"idle", "peek", "read"}
    BY <1>1, <1>4
  <2> QED BY <2>1, <1>2, <1>5, HookKept
<1> USE Constants, <1>1, <1>2, <1>3, <1>4, <1>5, <1>6
<1>11. BoundInv'
  BY DEF IInv, BoundInv, Unminted, BeforeTurn
<1>12. TargetInv'
  BY DEF IInv, TargetInv, BoundInv
<1>13. ShownInv'
  BY DEF IInv, TypeOK, ShownInv, TalkOK, Prompts
<1>14. NonceInv'
  BY DEF IInv, TypeOK, NonceInv, ShownInv, Unasked
<1>15. OnceInv'
  BY DEF IInv, OnceInv, NonceInv
<1>16. AloneInv'
  BY DEF IInv, AloneInv, Busy, PCs
<1>17. EndInv'
  BY DEF IInv, TypeOK, EndInv, EndOK, RollsBack, AloneInv, Busy, PCs,
       TalkOK
<1> QED BY <1>7, <1>8, <1>9, <1>10, <1>11, <1>12, <1>13, <1>14, <1>15, <1>16, <1>17
     DEF IInv, TypeOK

(* A command goes to its handler.                                          *)
LEMMA RouteCommandKeeps ==
    ASSUME IInv, NEW u \in Updates, RouteCommand(u)
    PROVE  IInv'
<1> DEFINE Case1 ==
              To(u, "done")
<1> DEFINE Case2 ==
              To(u, "ensure")
<1> DEFINE Case3 ==
              To(u, "flushPeek")
<1> DEFINE Case4 ==
              ToEnd(u, "newchat")
<1>1. Case1 \/ Case2 \/ Case3 \/ Case4
  BY DEF RouteCommand, At, To, ToEnd
<1>2. /\ upd[u].pc = "route" /\ upd \in [Updates -> UpdRec]
      /\ {"done", "ensure", "flushPeek", "endCheck"} \subseteq PCs
  BY Threes DEF IInv, TypeOK, TalkOK, PCs, RouteCommand, At
<1>3. /\ upd' \in [Updates -> UpdRec]
      /\ \A v \in Updates \ {u} : upd'[v] = upd[v]
  <2>1. CASE Case1
    BY <1>2, <2>1 DEF To, ToEnd, UpdRec
  <2>2. CASE Case2
    BY <1>2, <2>2 DEF To, ToEnd, UpdRec
  <2>3. CASE Case3
    BY <1>2, <2>3 DEF To, ToEnd, UpdRec
  <2>4. CASE Case4
    <3>1. [upd[u] EXCEPT !.pc = "endCheck", !.why = "newchat"] \in UpdRec
      <4>1. upd[u] \in UpdRec /\ {"done", "ensure", "flushPeek",
                "endCheck"} \subseteq PCs
        BY <1>2
      <4> QED BY <4>1 DEF UpdRec
    <3> QED BY <1>2, <2>4, <3>1 DEF To, ToEnd
  <2> QED BY <1>1, <2>1, <2>2, <2>3, <2>4
<1>4. /\ upd'[u].kind = upd[u].kind /\ upd'[u].seen = upd[u].seen
      /\ upd'[u].reset = upd[u].reset /\ upd'[u].bound = upd[u].bound
      /\ upd'[u].isNew = upd[u].isNew /\ upd'[u].target = upd[u].target
      /\ upd'[u].asked = upd[u].asked /\ upd'[u].nonce = upd[u].nonce
      /\ upd'[u].used = upd[u].used
  <2>1. CASE Case1
    BY <1>2, <2>1 DEF To, ToEnd, UpdRec
  <2>2. CASE Case2
    BY <1>2, <2>2 DEF To, ToEnd, UpdRec
  <2>3. CASE Case3
    BY <1>2, <2>3 DEF To, ToEnd, UpdRec
  <2>4. CASE Case4
    BY <1>2, <2>4 DEF To, ToEnd, UpdRec
  <2> QED BY <1>1, <2>1, <2>2, <2>3, <2>4
<1>5. \/ upd'[u].pc \in {"done", "ensure", "flushPeek"} /\ upd'[u].why = upd[u].why
      \/ upd'[u].pc = "endCheck" /\ upd'[u].why = "newchat"
  <2>1. CASE Case1
    BY <1>2, <2>1 DEF To, ToEnd, UpdRec
  <2>2. CASE Case2
    BY <1>2, <2>2 DEF To, ToEnd, UpdRec
  <2>3. CASE Case3
    BY <1>2, <2>3 DEF To, ToEnd, UpdRec
  <2>4. CASE Case4
    BY <1>2, <2>4 DEF To, ToEnd, UpdRec
  <2> QED BY <1>1, <2>1, <2>2, <2>3, <2>4
<1>6. UNCHANGED <<clock, active, sess, flushOn, summary, prompt, work, resets, faults>>
  BY <1>2 DEF RouteCommand, At, To, ToEnd, UpdRec
<1>7. Used' = Used /\ Spent \subseteq Spent'
  BY <1>1, <1>2, <1>3, <1>4, <1>5, <1>6 DEF Used, Spent
<1>8. SessOK' /\ WorkOK' /\ BoundsOK' /\ ActivityInv' /\ ResetInv'
  BY <1>6 DEF IInv, TypeOK, SessOK, WorkOK, BoundsOK, ActivityInv, ResetInv, Used
<1>9. TalkOK'
  BY <1>3, <1>6 DEF IInv, TypeOK, TalkOK
<1>10. MintInv'
  BY <1>7, MintKept
<1>11. HookInv'
  <2>1. upd'[u].pc \notin {"idle", "peek", "read"}
    BY <1>2, <1>5
  <2> QED BY <2>1, <1>3, <1>6, HookKept
<1> USE Constants, <1>1, <1>2, <1>3, <1>4, <1>5, <1>6, <1>7
<1>12. BoundInv'
  BY DEF IInv, BoundInv, Unminted, BeforeTurn
<1>13. TargetInv'
  BY DEF IInv, TargetInv, BoundInv
<1>14. ShownInv'
  BY DEF IInv, TypeOK, ShownInv, TalkOK, Prompts
<1>15. NonceInv'
  BY DEF IInv, TypeOK, NonceInv, ShownInv, Unasked
<1>16. OnceInv'
  BY DEF IInv, OnceInv, NonceInv
<1>17. AloneInv'
  BY DEF IInv, AloneInv, Busy, PCs
<1>18. EndInv'
  BY DEF IInv, TypeOK, EndInv, EndOK, RollsBack, AloneInv, Busy, PCs,
       TalkOK
<1> QED BY <1>8, <1>9, <1>10, <1>11, <1>12, <1>13, <1>14, <1>15, <1>16, <1>17,
     <1>18 DEF IInv, TypeOK

(* A photo is bound to the session of the moment.                          *)
LEMMA RoutePhotoKeeps ==
    ASSUME IInv, NEW u \in Updates, RoutePhoto(u)
    PROVE  IInv'
<1>1. /\ upd[u].pc = "route" /\ upd \in [Updates -> UpdRec]
      /\ active \in Sessions \cup {None}
      /\ {"append"} \subseteq PCs
  BY Threes DEF IInv, TypeOK, TalkOK, PCs, RoutePhoto, At, SessOK, BoundInv
<1>2. /\ upd' \in [Updates -> UpdRec]
      /\ \A v \in Updates \ {u} : upd'[v] = upd[v]
  <2>1. [upd[u] EXCEPT !.pc = "append", !.bound = active] \in UpdRec
    <3>1. upd[u] \in UpdRec /\ "append" \in PCs /\ active \in Sessions \cup {None}
      BY <1>1
    <3> QED BY <3>1 DEF UpdRec
  <2> QED BY <1>1, <2>1 DEF RoutePhoto
<1>3. /\ upd'[u].kind = upd[u].kind /\ upd'[u].seen = upd[u].seen
      /\ upd'[u].reset = upd[u].reset /\ upd'[u].isNew = upd[u].isNew
      /\ upd'[u].why = upd[u].why /\ upd'[u].target = upd[u].target
      /\ upd'[u].asked = upd[u].asked /\ upd'[u].nonce = upd[u].nonce
      /\ upd'[u].used = upd[u].used
  BY <1>1 DEF RoutePhoto, UpdRec
<1>4. upd'[u].pc = "append" /\ upd'[u].bound = active
  BY <1>1 DEF RoutePhoto, At, UpdRec
<1>5. UNCHANGED <<clock, active, sess, flushOn, summary, prompt, work, resets, faults>>
  BY <1>1 DEF RoutePhoto, At, UpdRec
<1>6. Used' = Used /\ Spent \subseteq Spent'
  BY <1>1, <1>2, <1>3, <1>4, <1>5 DEF Used, Spent
<1>7. SessOK' /\ WorkOK' /\ BoundsOK' /\ ActivityInv' /\ ResetInv'
  BY <1>5 DEF IInv, TypeOK, SessOK, WorkOK, BoundsOK, ActivityInv, ResetInv, Used
<1>8. TalkOK'
  BY <1>2, <1>5 DEF IInv, TypeOK, TalkOK
<1>9. MintInv'
  BY <1>6, MintKept
<1>10. HookInv'
  <2>1. upd'[u].pc \notin {"idle", "peek", "read"}
    BY <1>1, <1>4
  <2> QED BY <2>1, <1>2, <1>5, HookKept
<1> USE Constants, <1>1, <1>2, <1>3, <1>4, <1>5, <1>6
<1>11. BoundInv'
  BY DEF IInv, BoundInv, Unminted, BeforeTurn
<1>12. TargetInv'
  BY DEF IInv, TargetInv, BoundInv
<1>13. ShownInv'
  BY DEF IInv, TypeOK, ShownInv, TalkOK, Prompts
<1>14. NonceInv'
  BY DEF IInv, TypeOK, NonceInv, ShownInv, Unasked
<1>15. OnceInv'
  BY DEF IInv, OnceInv, NonceInv
<1>16. AloneInv'
  BY DEF IInv, AloneInv, Busy, PCs
<1>17. EndInv'
  BY DEF IInv, TypeOK, EndInv, EndOK, RollsBack, AloneInv, Busy, PCs,
       TalkOK
<1> QED BY <1>7, <1>8, <1>9, <1>10, <1>11, <1>12, <1>13, <1>14, <1>15, <1>16, <1>17
     DEF IInv, TypeOK

(* A text becomes a turn, ends the session, or puts a prompt of its own.   *)
LEMMA RouteTextKeeps ==
    ASSUME IInv, NEW u \in Updates, RouteText(u)
    PROVE  IInv'
<1> DEFINE Case1 ==
              To(u, "ensure") /\ prompt' = prompt
<1> DEFINE Case2 ==
              To(u, "done") /\ prompt' = prompt
<1> DEFINE Case3 ==
              ToEnd(u, "newchat") /\ prompt' = prompt
<1> DEFINE Case4 ==
              To(u, "buttons") /\ prompt' = [by |-> u, until |-> clock + PromptTicks]
<1>1. Case1 \/ Case2 \/ Case3 \/ Case4
  BY DEF RouteText, At, To, ToEnd
<1>2. /\ upd[u].pc = "route" /\ upd \in [Updates -> UpdRec]
      /\ {"ensure", "done", "endCheck", "buttons"} \subseteq PCs
  BY Threes DEF IInv, TypeOK, TalkOK, PCs, RouteText, At
<1>3. /\ upd' \in [Updates -> UpdRec]
      /\ \A v \in Updates \ {u} : upd'[v] = upd[v]
  <2>1. CASE Case1
    BY <1>2, <2>1 DEF To, ToEnd, UpdRec
  <2>2. CASE Case2
    BY <1>2, <2>2 DEF To, ToEnd, UpdRec
  <2>3. CASE Case3
    <3>1. [upd[u] EXCEPT !.pc = "endCheck", !.why = "newchat"] \in UpdRec
      <4>1. upd[u] \in UpdRec /\ {"ensure", "done", "endCheck", "buttons"} \subseteq PCs
        BY <1>2
      <4> QED BY <4>1 DEF UpdRec
    <3> QED BY <1>2, <2>3, <3>1 DEF To, ToEnd
  <2>4. CASE Case4
    BY <1>2, <2>4 DEF To, ToEnd, UpdRec
  <2> QED BY <1>1, <2>1, <2>2, <2>3, <2>4
<1>4. /\ upd'[u].kind = upd[u].kind /\ upd'[u].seen = upd[u].seen
      /\ upd'[u].reset = upd[u].reset /\ upd'[u].bound = upd[u].bound
      /\ upd'[u].isNew = upd[u].isNew /\ upd'[u].target = upd[u].target
      /\ upd'[u].asked = upd[u].asked /\ upd'[u].nonce = upd[u].nonce
      /\ upd'[u].used = upd[u].used
  <2>1. CASE Case1
    BY <1>2, <2>1 DEF To, ToEnd, UpdRec
  <2>2. CASE Case2
    BY <1>2, <2>2 DEF To, ToEnd, UpdRec
  <2>3. CASE Case3
    BY <1>2, <2>3 DEF To, ToEnd, UpdRec
  <2>4. CASE Case4
    BY <1>2, <2>4 DEF To, ToEnd, UpdRec
  <2> QED BY <1>1, <2>1, <2>2, <2>3, <2>4
<1>5. \/ /\ upd'[u].pc \in {"ensure", "done"} /\ upd'[u].why = upd[u].why
         /\ prompt' = prompt
      \/ upd'[u].pc = "endCheck" /\ upd'[u].why = "newchat" /\ prompt' = prompt
      \/ /\ upd'[u].pc = "buttons" /\ upd'[u].why = upd[u].why
         /\ prompt' = [by |-> u, until |-> clock + PromptTicks]
  <2>1. CASE Case1
    BY <1>2, <2>1 DEF To, ToEnd, UpdRec
  <2>2. CASE Case2
    BY <1>2, <2>2 DEF To, ToEnd, UpdRec
  <2>3. CASE Case3
    BY <1>2, <2>3 DEF To, ToEnd, UpdRec
  <2>4. CASE Case4
    BY <1>2, <2>4 DEF To, ToEnd, UpdRec
  <2> QED BY <1>1, <2>1, <2>2, <2>3, <2>4
<1>6. UNCHANGED <<clock, active, sess, flushOn, summary, work, resets, faults>>
  BY <1>2 DEF RouteText, At, To, ToEnd, UpdRec
<1>7. Used' = Used /\ Spent \subseteq Spent'
  BY <1>1, <1>2, <1>3, <1>4, <1>5, <1>6 DEF Used, Spent
<1>8. SessOK' /\ WorkOK' /\ BoundsOK' /\ ActivityInv' /\ ResetInv'
  BY <1>6 DEF IInv, TypeOK, SessOK, WorkOK, BoundsOK, ActivityInv, ResetInv, Used
<1>9. MintInv'
  BY <1>7, MintKept
<1>10. HookInv'
  <2>1. upd'[u].pc \notin {"idle", "peek", "read"}
    BY <1>2, <1>5
  <2> QED BY <2>1, <1>3, <1>6, HookKept
<1> USE Constants, <1>1, <1>2, <1>3, <1>4, <1>5, <1>6, <1>7
<1>11. TalkOK'
  BY DEF IInv, TypeOK, TalkOK, Prompts, BoundsOK
<1>12. BoundInv'
  BY DEF IInv, BoundInv, Unminted, BeforeTurn
<1>13. TargetInv'
  BY DEF IInv, TargetInv, BoundInv
<1>14. ShownInv'
  BY DEF IInv, TypeOK, ShownInv, TalkOK, Prompts
<1>15. NonceInv'
  BY DEF IInv, TypeOK, NonceInv, ShownInv, Unasked
<1>16. OnceInv'
  BY DEF IInv, OnceInv, NonceInv
<1>17. AloneInv'
  BY DEF IInv, AloneInv, Busy, PCs
<1>18. EndInv'
  BY DEF IInv, TypeOK, EndInv, EndOK, RollsBack, AloneInv, Busy, PCs,
       TalkOK
<1> QED BY <1>8, <1>9, <1>10, <1>11, <1>12, <1>13, <1>14, <1>15, <1>16, <1>17,
     <1>18 DEF IInv, TypeOK

(* The buttons are shown, or the prompt is dropped.                        *)
LEMMA SendButtonsKeeps ==
    ASSUME IInv, NEW u \in Updates, SendButtons(u)
    PROVE  IInv'
<1> DEFINE Case1 ==
              upd' = [upd EXCEPT ![u] = [@ EXCEPT !.pc = "done", !.asked = TRUE]]
                        /\ prompt' = prompt
<1> DEFINE Case2 ==
              To(u, "ensure") /\ prompt' = None
<1> DEFINE Case3 ==
              To(u, "done") /\ prompt' = None
<1>1. Case1 \/ Case2 \/ Case3
  BY DEF SendButtons, At, To, NoFault, Fault
<1>2. /\ upd[u].pc = "buttons" /\ upd \in [Updates -> UpdRec]
      /\ {"done", "ensure"} \subseteq PCs
  BY Threes DEF IInv, TypeOK, TalkOK, PCs, SendButtons, At
<1>3. /\ upd' \in [Updates -> UpdRec]
      /\ \A v \in Updates \ {u} : upd'[v] = upd[v]
  <2>1. CASE Case1
    <3>1. [upd[u] EXCEPT !.pc = "done", !.asked = TRUE] \in UpdRec
      <4>1. upd[u] \in UpdRec /\ {"done", "ensure"} \subseteq PCs
        BY <1>2
      <4> QED BY <4>1 DEF UpdRec
    <3> QED BY <1>2, <2>1, <3>1 DEF To
  <2>2. CASE Case2
    BY <1>2, <2>2 DEF To, UpdRec
  <2>3. CASE Case3
    BY <1>2, <2>3 DEF To, UpdRec
  <2> QED BY <1>1, <2>1, <2>2, <2>3
<1>4. /\ upd'[u].kind = upd[u].kind /\ upd'[u].seen = upd[u].seen
      /\ upd'[u].reset = upd[u].reset /\ upd'[u].bound = upd[u].bound
      /\ upd'[u].isNew = upd[u].isNew /\ upd'[u].why = upd[u].why
      /\ upd'[u].target = upd[u].target /\ upd'[u].nonce = upd[u].nonce
      /\ upd'[u].used = upd[u].used
  <2>1. CASE Case1
    BY <1>2, <2>1 DEF To, UpdRec
  <2>2. CASE Case2
    BY <1>2, <2>2 DEF To, UpdRec
  <2>3. CASE Case3
    BY <1>2, <2>3 DEF To, UpdRec
  <2> QED BY <1>1, <2>1, <2>2, <2>3
<1>5. \/ /\ upd'[u].pc = "done" /\ upd'[u].asked /\ prompt' = prompt
      \/ /\ upd'[u].pc \in {"ensure", "done"} /\ upd'[u].asked = upd[u].asked
         /\ prompt' = None
  <2>1. CASE Case1
    BY <1>2, <2>1 DEF To, UpdRec
  <2>2. CASE Case2
    BY <1>2, <2>2 DEF To, UpdRec
  <2>3. CASE Case3
    BY <1>2, <2>3 DEF To, UpdRec
  <2> QED BY <1>1, <2>1, <2>2, <2>3
<1>6. faults' \in 0 .. MaxFaults
  BY Constants DEF IInv, TypeOK, BoundsOK, SendButtons, NoFault, Fault
<1>7. UNCHANGED <<clock, active, sess, flushOn, summary, work, resets>>
  BY <1>2 DEF SendButtons, At, To, NoFault, Fault, UpdRec
<1>8. Used' = Used /\ Spent \subseteq Spent'
  BY <1>1, <1>2, <1>3, <1>4, <1>5, <1>6, <1>7 DEF Used, Spent
<1>9. SessOK' /\ WorkOK' /\ ActivityInv' /\ ResetInv'
  BY <1>7 DEF IInv, TypeOK, SessOK, WorkOK, ActivityInv, ResetInv, Used
<1>10. MintInv'
  BY <1>8, MintKept
<1>11. HookInv'
  <2>1. upd'[u].pc \notin {"idle", "peek", "read"}
    BY <1>2, <1>5, <1>6
  <2> QED BY <2>1, <1>3, <1>7, HookKept
<1> USE Constants, <1>1, <1>2, <1>3, <1>4, <1>5, <1>6, <1>7, <1>8
<1>12. TalkOK'
  BY DEF IInv, TypeOK, TalkOK, Prompts, BoundsOK
<1>13. BoundsOK'
  BY DEF IInv, TypeOK, BoundsOK
<1>14. BoundInv'
  BY DEF IInv, BoundInv, Unminted, BeforeTurn
<1>15. TargetInv'
  BY DEF IInv, TargetInv, BoundInv
<1>16. ShownInv'
  BY DEF IInv, TypeOK, ShownInv, TalkOK, Prompts
<1>17. NonceInv'
  BY DEF IInv, TypeOK, NonceInv, ShownInv, Unasked
<1>18. OnceInv'
  BY DEF IInv, OnceInv, NonceInv
<1>19. AloneInv'
  BY DEF IInv, AloneInv, Busy, PCs
<1>20. EndInv'
  BY DEF IInv, TypeOK, EndInv, EndOK, RollsBack, AloneInv, Busy, PCs,
       TalkOK
<1> QED BY <1>9, <1>10, <1>11, <1>12, <1>13, <1>14, <1>15, <1>16, <1>17, <1>18,
     <1>19, <1>20 DEF IInv, TypeOK

(* /flushmemory remembers the session the index names.                     *)
LEMMA FlushPeekKeeps ==
    ASSUME IInv, NEW u \in Updates, FlushPeek(u)
    PROVE  IInv'
<1> DEFINE Case1 ==
              upd' = [upd EXCEPT ![u] = [@ EXCEPT !.seen = active, !.pc = "done"]]
<1> DEFINE Case2 ==
              upd' = [upd EXCEPT ![u] = [@ EXCEPT !.seen = active, !.pc = "flushRead"]]
                        /\ active # None
<1>1. Case1 \/ Case2
  BY DEF FlushPeek, At
<1>2. /\ upd[u].pc = "flushPeek" /\ upd \in [Updates -> UpdRec]
      /\ active \in Sessions \cup {None}
      /\ {"done", "flushRead"} \subseteq PCs
  BY Threes DEF IInv, TypeOK, TalkOK, PCs, FlushPeek, At, SessOK, BoundInv
<1>3. /\ upd' \in [Updates -> UpdRec]
      /\ \A v \in Updates \ {u} : upd'[v] = upd[v]
  <2>1. CASE Case1
    <3>1. [upd[u] EXCEPT !.seen = active, !.pc = "done"] \in UpdRec
      <4>1. upd[u] \in UpdRec /\ {"done", "flushRead"} \subseteq PCs
                /\ active \in Sessions \cup {None}
        BY <1>2
      <4> QED BY <4>1 DEF UpdRec
    <3> QED BY <1>2, <2>1, <3>1
  <2>2. CASE Case2
    <3>1. [upd[u] EXCEPT !.seen = active, !.pc = "flushRead"] \in UpdRec
      <4>1. upd[u] \in UpdRec /\ {"done", "flushRead"} \subseteq PCs
                /\ active \in Sessions \cup {None}
        BY <1>2
      <4> QED BY <4>1 DEF UpdRec
    <3> QED BY <1>2, <2>2, <3>1
  <2> QED BY <1>1, <2>1, <2>2
<1>4. /\ upd'[u].kind = upd[u].kind /\ upd'[u].reset = upd[u].reset
      /\ upd'[u].bound = upd[u].bound /\ upd'[u].isNew = upd[u].isNew
      /\ upd'[u].why = upd[u].why /\ upd'[u].target = upd[u].target
      /\ upd'[u].asked = upd[u].asked /\ upd'[u].nonce = upd[u].nonce
      /\ upd'[u].used = upd[u].used
  <2>1. CASE Case1
    BY <1>2, <2>1 DEF UpdRec
  <2>2. CASE Case2
    BY <1>2, <2>2 DEF UpdRec
  <2> QED BY <1>1, <2>1, <2>2
<1>5. \/ upd'[u].pc = "done"
      \/ upd'[u].pc = "flushRead" /\ upd'[u].seen # None
  <2>1. CASE Case1
    BY <1>2, <2>1 DEF UpdRec
  <2>2. CASE Case2
    BY <1>2, <2>2 DEF UpdRec
  <2> QED BY <1>1, <2>1, <2>2
<1>6. UNCHANGED <<clock, active, sess, flushOn, summary, prompt, work, resets, faults>>
  BY <1>2 DEF FlushPeek, At, UpdRec
<1>7. Used' = Used /\ Spent \subseteq Spent'
  BY <1>1, <1>2, <1>3, <1>4, <1>5, <1>6 DEF Used, Spent
<1>8. SessOK' /\ WorkOK' /\ BoundsOK' /\ ActivityInv' /\ ResetInv'
  BY <1>6 DEF IInv, TypeOK, SessOK, WorkOK, BoundsOK, ActivityInv, ResetInv, Used
<1>9. TalkOK'
  BY <1>3, <1>6 DEF IInv, TypeOK, TalkOK
<1>10. MintInv'
  BY <1>7, MintKept
<1>11. HookInv'
  <2>1. upd'[u].pc \notin {"idle", "peek", "read"}
    BY <1>2, <1>5
  <2> QED BY <2>1, <1>3, <1>6, HookKept
<1> USE Constants, <1>1, <1>2, <1>3, <1>4, <1>5, <1>6, <1>7
<1>12. BoundInv'
  BY DEF IInv, BoundInv, Unminted, BeforeTurn
<1>13. TargetInv'
  BY DEF IInv, TargetInv, BoundInv
<1>14. ShownInv'
  BY DEF IInv, TypeOK, ShownInv, TalkOK, Prompts
<1>15. NonceInv'
  BY DEF IInv, TypeOK, NonceInv, ShownInv, Unasked
<1>16. OnceInv'
  BY DEF IInv, OnceInv, NonceInv
<1>17. AloneInv'
  BY DEF IInv, AloneInv, Busy, PCs
<1>18. EndInv'
  BY DEF IInv, TypeOK, EndInv, EndOK, RollsBack, AloneInv, Busy, PCs,
       TalkOK
<1> QED BY <1>8, <1>9, <1>10, <1>11, <1>12, <1>13, <1>14, <1>15, <1>16, <1>17,
     <1>18 DEF IInv, TypeOK

(* It starts a job only for a session with turns.                          *)
LEMMA FlushReadKeeps ==
    ASSUME IInv, NEW u \in Updates, FlushRead(u)
    PROVE  IInv'
<1> DEFINE Case1 ==
              To(u, "flushWait") /\ TurnsOf(upd[u].seen) # None
              /\ work' = [work EXCEPT ![<<u, "command">>] =
                   [stage |-> "summarize", of |-> TurnsOf(upd[u].seen),
                             aborted |-> FALSE]]
<1> DEFINE Case2 ==
              To(u, "done") /\ work' = work
<1>1. Case1 \/ Case2
  BY DEF FlushRead, At, To
<1>2. /\ upd[u].pc = "flushRead" /\ upd \in [Updates -> UpdRec]
      /\ {"done", "flushWait"} \subseteq PCs
  BY Threes DEF IInv, TypeOK, TalkOK, PCs, FlushRead, At
<1>3. /\ upd' \in [Updates -> UpdRec]
      /\ \A v \in Updates \ {u} : upd'[v] = upd[v]
  <2>1. CASE Case1
    BY <1>2, <2>1 DEF To, UpdRec
  <2>2. CASE Case2
    BY <1>2, <2>2 DEF To, UpdRec
  <2> QED BY <1>1, <2>1, <2>2
<1>4. /\ upd'[u].kind = upd[u].kind /\ upd'[u].seen = upd[u].seen
      /\ upd'[u].reset = upd[u].reset /\ upd'[u].bound = upd[u].bound
      /\ upd'[u].isNew = upd[u].isNew /\ upd'[u].why = upd[u].why
      /\ upd'[u].target = upd[u].target /\ upd'[u].asked = upd[u].asked
      /\ upd'[u].nonce = upd[u].nonce /\ upd'[u].used = upd[u].used
  <2>1. CASE Case1
    BY <1>2, <2>1 DEF To, UpdRec
  <2>2. CASE Case2
    BY <1>2, <2>2 DEF To, UpdRec
  <2> QED BY <1>1, <2>1, <2>2
<1>5. \/ upd'[u].pc = "done" /\ work' = work
      \/ /\ upd'[u].pc = "flushWait" /\ TurnsOf(upd[u].seen) # None
         /\ work' = [work EXCEPT ![<<u, "command">>] =
                       [stage |-> "summarize", of |-> TurnsOf(upd[u].seen),
                                 aborted |-> FALSE]]
  <2>1. CASE Case1
    BY <1>2, <2>1 DEF To, UpdRec
  <2>2. CASE Case2
    BY <1>2, <2>2 DEF To, UpdRec
  <2> QED BY <1>1, <2>1, <2>2
<1>6. UNCHANGED <<clock, active, sess, flushOn, summary, prompt, resets, faults>>
  BY <1>2 DEF FlushRead, At, To, UpdRec
<1>7. Used' = Used /\ Spent \subseteq Spent'
  BY <1>1, <1>2, <1>3, <1>4, <1>5, <1>6 DEF Used, Spent
<1>8. SessOK' /\ BoundsOK' /\ ActivityInv' /\ ResetInv'
  BY <1>6 DEF IInv, TypeOK, SessOK, BoundsOK, ActivityInv, ResetInv, Used
<1>9. TalkOK'
  BY <1>3, <1>6 DEF IInv, TypeOK, TalkOK
<1>10. WorkOK'
  <2>1. <<u, "idle">> \in Jobs /\ <<u, "command">> \in Jobs
            /\ work \in [Jobs -> WorkRec]
    BY JobPlaces DEF IInv, TypeOK, WorkOK
  <2>2. CASE UNCHANGED work
    BY <2>2, <1>6 DEF IInv, TypeOK, WorkOK
  <2>3. ASSUME TurnsOf(upd[u].seen) # None,
               work' = [work EXCEPT ![<<u, "command">>] =
                         [stage |-> "summarize", of |-> TurnsOf(upd[u].seen),
                                   aborted |-> FALSE]]
        PROVE  WorkOK'
    <3>1. TurnsOf(upd[u].seen) \in Sessions \cup {None}
      BY <1>2 DEF TurnsOf, UpdRec
    <3>2. [stage |-> "summarize", of |-> TurnsOf(upd[u].seen),
              aborted |-> FALSE] \in WorkRec
      BY <3>1 DEF WorkRec
    <3> QED BY <2>1, <2>3, <3>2, <1>6, JobChanged DEF IInv, TypeOK
  <2> QED BY <1>5, <2>2, <2>3
<1>11. MintInv'
  BY <1>7, MintKept
<1>12. HookInv'
  <2>1. \A v \in Updates \ {u} : work'[<<v, "idle">>] = work[<<v, "idle">>]
    BY <1>5, <1>6, JobPlaces DEF IInv, TypeOK, WorkOK
  <2>2. upd'[u].pc \notin {"idle", "peek", "read"}
    BY <1>2, <1>5
  <2> QED BY <2>1, <2>2, <1>3, HookKept
<1> USE Constants, JobPlaces, <1>1, <1>2, <1>3, <1>4, <1>5, <1>6, <1>7
<1>13. BoundInv'
  BY DEF IInv, BoundInv, Unminted, BeforeTurn
<1>14. TargetInv'
  BY DEF IInv, TargetInv, BoundInv
<1>15. ShownInv'
  BY DEF IInv, TypeOK, ShownInv, TalkOK, Prompts
<1>16. NonceInv'
  BY DEF IInv, TypeOK, NonceInv, ShownInv, Unasked
<1>17. OnceInv'
  BY DEF IInv, OnceInv, NonceInv
<1>18. AloneInv'
  BY DEF IInv, AloneInv, Busy, PCs
<1>19. EndInv'
  BY DEF IInv, TypeOK, EndInv, EndOK, RollsBack, AloneInv, Busy, PCs,
       TalkOK
<1> QED BY <1>8, <1>9, <1>10, <1>11, <1>12, <1>13, <1>14, <1>15, <1>16, <1>17,
     <1>18, <1>19 DEF IInv, TypeOK

(* A turn takes the active session or mints one, which is its own and      *)
(* empty.                                                                  *)
LEMMA EnsureSessionKeeps ==
    ASSUME IInv, NEW u \in Updates, EnsureSession(u)
    PROVE  IInv'
<1>1. u \notin Spent => NextId \in Sessions /\ NextId \notin Used /\ NextId # None
  BY Minting
<1>2. ~upd[u].isNew /\ upd[u].pc = "ensure" /\ u \notin Spent
  BY DEF IInv, EnsureSession, At, BoundInv, Unminted, BeforeTurn, Spent
<1> DEFINE Case1 ==
              upd' = [upd EXCEPT ![u] = [@ EXCEPT !.pc = "llm", !.bound = active]]
                        /\ active # None /\ UNCHANGED <<active, sess>>
<1> DEFINE Case2 ==
              upd' = [upd EXCEPT ![u] = [@ EXCEPT !.pc = "llm", !.bound = NextId,
                        !.isNew = TRUE]] /\ active = None /\ active' = NextId
              /\ sess' = [sess EXCEPT ![NextId] = Fresh(upd[u].reset)]
<1> DEFINE Case3 ==
              To(u, "llm") /\ UNCHANGED <<active, sess>>
<1>3. Case1 \/ Case2 \/ Case3
  BY DEF EnsureSession, At, To, NoFault, Fault
<1>4. /\ upd[u].pc = "ensure" /\ upd \in [Updates -> UpdRec]
      /\ active \in Sessions \cup {None}
      /\ {"llm"} \subseteq PCs
  BY Threes, <1>1, <1>2 DEF IInv, TypeOK, TalkOK, PCs, EnsureSession, At, SessOK,
       BoundInv
<1>5. /\ upd' \in [Updates -> UpdRec]
      /\ \A v \in Updates \ {u} : upd'[v] = upd[v]
  <2>1. CASE Case1
    <3>1. [upd[u] EXCEPT !.pc = "llm", !.bound = active] \in UpdRec
      <4>1. /\ upd[u] \in UpdRec /\ "llm" \in PCs /\ active \in Sessions \cup {None}
            /\ NextId \in Sessions
        BY <1>1, <1>2, <1>4
      <4> QED BY <4>1 DEF UpdRec
    <3> QED BY <1>1, <1>2, <1>4, <2>1, <3>1 DEF To
  <2>2. CASE Case2
    <3>1. [upd[u] EXCEPT !.pc = "llm", !.bound = NextId, !.isNew = TRUE] \in UpdRec
      <4>1. /\ upd[u] \in UpdRec /\ "llm" \in PCs /\ active \in Sessions \cup {None}
            /\ NextId \in Sessions
        BY <1>1, <1>2, <1>4
      <4> QED BY <4>1 DEF UpdRec
    <3> QED BY <1>1, <1>2, <1>4, <2>2, <3>1 DEF To
  <2>3. CASE Case3
    BY <1>1, <1>2, <1>4, <2>3 DEF To, UpdRec
  <2> QED BY <1>3, <2>1, <2>2, <2>3
<1>6. /\ upd'[u].kind = upd[u].kind /\ upd'[u].seen = upd[u].seen
      /\ upd'[u].reset = upd[u].reset /\ upd'[u].why = upd[u].why
      /\ upd'[u].target = upd[u].target /\ upd'[u].asked = upd[u].asked
      /\ upd'[u].nonce = upd[u].nonce /\ upd'[u].used = upd[u].used
  <2>1. CASE Case1
    BY <1>4, <2>1 DEF To, UpdRec
  <2>2. CASE Case2
    BY <1>4, <2>2 DEF To, UpdRec
  <2>3. CASE Case3
    BY <1>4, <2>3 DEF To, UpdRec
  <2> QED BY <1>3, <2>1, <2>2, <2>3
<1>7. upd'[u].pc = "llm"
  <2>1. CASE Case1
    BY <1>4, <2>1 DEF To, UpdRec
  <2>2. CASE Case2
    BY <1>4, <2>2 DEF To, UpdRec
  <2>3. CASE Case3
    BY <1>4, <2>3 DEF To, UpdRec
  <2> QED BY <1>3, <2>1, <2>2, <2>3
<1>8. \/ /\ upd'[u].bound = active /\ upd'[u].isNew = upd[u].isNew
         /\ UNCHANGED <<active, sess>> /\ active # None
      \/ /\ upd'[u].bound = NextId /\ upd'[u].isNew /\ active = None
         /\ active' = NextId /\ sess' = [sess EXCEPT ![NextId] = Fresh(upd[u].reset)]
      \/ /\ upd'[u].bound = upd[u].bound /\ upd'[u].isNew = upd[u].isNew
         /\ UNCHANGED <<active, sess>>
  <2>1. CASE Case1
    BY <1>4, <2>1 DEF To, UpdRec
  <2>2. CASE Case2
    BY <1>4, <2>2 DEF To, UpdRec
  <2>3. CASE Case3
    BY <1>4, <2>3 DEF To, UpdRec
  <2> QED BY <1>3, <2>1, <2>2, <2>3
<1>9. faults' \in 0 .. MaxFaults
  BY Constants DEF IInv, TypeOK, BoundsOK, EnsureSession, NoFault, Fault
<1>10. UNCHANGED <<clock, flushOn, summary, prompt, work, resets>>
  BY <1>1, <1>2, <1>4 DEF EnsureSession, At, To, NoFault, Fault, UpdRec
<1>11. Spent \subseteq Spent'
  BY <1>1, <1>2, <1>3, <1>4, <1>5, <1>6, <1>7, <1>8, <1>9, <1>10 DEF Spent
<1>12. \/ UNCHANGED <<active, sess>>
      \/ /\ u \notin Spent /\ u \in Spent' /\ active' = NextId /\ active = None
         /\ sess' = [sess EXCEPT ![NextId] = Fresh(upd[u].reset)]
  BY <1>1, <1>2, <1>3, <1>4, <1>5, <1>6, <1>7, <1>8, <1>9, <1>10, <1>11 DEF Spent
<1>13. /\ SessOK' /\ ActivityInv'
      /\ \/ UNCHANGED <<active, sess>> /\ Used' = Used
         \/ /\ u \notin Spent /\ u \in Spent' /\ Used' = Used \cup {NextId}
            /\ active' = NextId /\ active = None /\ NextId \in Sessions /\ NextId # None
            /\ NextId \notin Used /\ sess'[NextId].exchanges = 0
            /\ \A s \in Sessions \ {NextId} : sess'[s] = sess[s]
  <2>1. CASE UNCHANGED <<active, sess>>
    BY <2>1, <1>10 DEF IInv, TypeOK, SessOK, ActivityInv, Used
  <2>2. CASE /\ u \notin Spent /\ u \in Spent' /\ active' = NextId /\ active = None
            /\ sess' = [sess EXCEPT ![NextId] = Fresh(upd[u].reset)]
    <3>1. upd[u].reset \in Sessions \cup {None}
      BY <1>4 DEF UpdRec
    <3> QED BY <2>2, <3>1, <1>10, Minted
  <2> QED BY <1>12, <2>1, <2>2
<1>14. WorkOK'
  BY <1>10 DEF IInv, TypeOK, WorkOK
<1>15. TalkOK'
  BY <1>5, <1>10 DEF IInv, TypeOK, TalkOK
<1>16. MintInv'
  BY <1>11, <1>13, MintKept, MintStep
<1>17. HookInv'
  <2>1. upd'[u].pc \notin {"idle", "peek", "read"}
    BY <1>4, <1>7, <1>8
  <2> QED BY <2>1, <1>5, <1>10, HookKept
<1>18. EndInv'
  <2>1. upd'[u].isNew => active' = upd'[u].bound /\ active' # None
            /\ sess'[active'].exchanges = 0
    BY <1>1, <1>2, <1>3, <1>4, <1>5, <1>6, <1>7, <1>8, <1>9, <1>10, <1>11, <1>12, <1>13
  <2> QED BY <2>1, <1>4, <1>5, <1>6, <1>7, <1>10 DEF IInv, EndInv, EndOK, RollsBack,
       AloneInv, Busy, PCs
<1> USE Constants, <1>1, <1>2, <1>3, <1>4, <1>5, <1>6, <1>7, <1>8, <1>9, <1>10,
    <1>11, <1>12, <1>13
<1>19. BoundsOK'
  BY DEF IInv, TypeOK, BoundsOK, BoundInv, Unminted, BeforeTurn
<1>20. BoundInv'
  BY DEF IInv, BoundInv, Unminted, BeforeTurn
<1>21. TargetInv'
  BY DEF IInv, TargetInv, BoundInv, Unminted, BeforeTurn
<1>22. ShownInv'
  BY DEF IInv, TypeOK, ShownInv, TalkOK, Prompts, BoundInv, Unminted, BeforeTurn
<1>23. NonceInv'
  BY DEF IInv, TypeOK, NonceInv, ShownInv, Unasked, BoundInv, Unminted,
       BeforeTurn
<1>24. OnceInv'
  BY DEF IInv, OnceInv, NonceInv, BoundInv, Unminted, BeforeTurn
<1>25. AloneInv'
  BY DEF IInv, AloneInv, Busy, PCs, BoundInv, Unminted, BeforeTurn
<1>26. ResetInv'
  BY DEF IInv, TypeOK, ResetInv, Used, SessOK, BoundInv, Unminted, BeforeTurn
<1> QED BY <1>13, <1>14, <1>15, <1>16, <1>17, <1>18, <1>19, <1>20, <1>21, <1>22,
     <1>23, <1>24, <1>25, <1>26 DEF IInv, TypeOK

(* The model answers; the setting may change.                              *)
LEMMA AnswersKeeps ==
    ASSUME IInv, NEW u \in Updates, Answers(u)
    PROVE  IInv'
<1>1. PICK pc \in {"send", "remove", "removeAgain"} : To(u, pc)
  BY DEF Answers
<1>2. /\ upd[u].pc = "llm" /\ upd \in [Updates -> UpdRec]
      /\ pc \in PCs
  BY Threes DEF IInv, TypeOK, TalkOK, PCs, Answers, At
<1>3. /\ upd' \in [Updates -> UpdRec]
      /\ \A v \in Updates \ {u} : upd'[v] = upd[v]
  BY <1>1, <1>2 DEF To, UpdRec
<1>4. /\ upd'[u].kind = upd[u].kind /\ upd'[u].seen = upd[u].seen
      /\ upd'[u].reset = upd[u].reset /\ upd'[u].bound = upd[u].bound
      /\ upd'[u].isNew = upd[u].isNew /\ upd'[u].why = upd[u].why
      /\ upd'[u].target = upd[u].target /\ upd'[u].asked = upd[u].asked
      /\ upd'[u].nonce = upd[u].nonce /\ upd'[u].used = upd[u].used
  BY <1>1, <1>2 DEF To, UpdRec
<1>5. upd'[u].pc \in {"send", "remove", "removeAgain"}
  BY <1>1, <1>2 DEF To, UpdRec
<1>6. flushOn' \in BOOLEAN
  BY DEF IInv, TypeOK, BoundsOK, Answers
<1>7. UNCHANGED <<clock, active, sess, summary, prompt, work, resets, faults>>
  BY <1>2 DEF Answers, At, To, UpdRec
<1>8. Used' = Used /\ Spent \subseteq Spent'
  BY <1>1, <1>2, <1>3, <1>4, <1>5, <1>6, <1>7 DEF Used, Spent
<1>9. SessOK' /\ WorkOK' /\ ActivityInv' /\ ResetInv'
  BY <1>7 DEF IInv, TypeOK, SessOK, WorkOK, ActivityInv, ResetInv, Used
<1>10. TalkOK'
  BY <1>3, <1>7 DEF IInv, TypeOK, TalkOK
<1>11. MintInv'
  BY <1>8, MintKept
<1>12. HookInv'
  <2>1. upd'[u].pc \notin {"idle", "peek", "read"}
    BY <1>2, <1>5, <1>6
  <2> QED BY <2>1, <1>3, <1>7, HookKept
<1> USE Constants, <1>1, <1>2, <1>3, <1>4, <1>5, <1>6, <1>7, <1>8
<1>13. BoundsOK'
  BY DEF IInv, TypeOK, BoundsOK
<1>14. BoundInv'
  BY DEF IInv, BoundInv, Unminted, BeforeTurn
<1>15. TargetInv'
  BY DEF IInv, TargetInv, BoundInv
<1>16. ShownInv'
  BY DEF IInv, TypeOK, ShownInv, TalkOK, Prompts
<1>17. NonceInv'
  BY DEF IInv, TypeOK, NonceInv, ShownInv, Unasked
<1>18. OnceInv'
  BY DEF IInv, OnceInv, NonceInv
<1>19. AloneInv'
  BY DEF IInv, AloneInv, Busy, PCs
<1>20. EndInv'
  BY DEF IInv, TypeOK, EndInv, EndOK, RollsBack, AloneInv, Busy, PCs,
       TalkOK
<1> QED BY <1>9, <1>10, <1>11, <1>12, <1>13, <1>14, <1>15, <1>16, <1>17, <1>18,
     <1>19, <1>20 DEF IInv, TypeOK

(* The model fails: a turn that minted its session goes on to end it.      *)
LEMMA NoAnswerKeeps ==
    ASSUME IInv, NEW u \in Updates, NoAnswer(u)
    PROVE  IInv'
<1> DEFINE Case1 ==
              ToEnd(u, "rollback") /\ upd[u].isNew
<1> DEFINE Case2 ==
              To(u, "done") /\ ~upd[u].isNew
<1>1. Case1 \/ Case2
  BY DEF NoAnswer, At, To, ToEnd
<1>2. /\ upd[u].pc = "llm" /\ upd \in [Updates -> UpdRec]
      /\ {"endCheck", "done"} \subseteq PCs
  BY Threes DEF IInv, TypeOK, TalkOK, PCs, NoAnswer, At
<1>3. /\ upd' \in [Updates -> UpdRec]
      /\ \A v \in Updates \ {u} : upd'[v] = upd[v]
  <2>1. CASE Case1
    <3>1. [upd[u] EXCEPT !.pc = "endCheck", !.why = "rollback"] \in UpdRec
      <4>1. upd[u] \in UpdRec /\ {"endCheck", "done"} \subseteq PCs
        BY <1>2
      <4> QED BY <4>1 DEF UpdRec
    <3> QED BY <1>2, <2>1, <3>1 DEF To, ToEnd
  <2>2. CASE Case2
    BY <1>2, <2>2 DEF To, ToEnd, UpdRec
  <2> QED BY <1>1, <2>1, <2>2
<1>4. /\ upd'[u].kind = upd[u].kind /\ upd'[u].seen = upd[u].seen
      /\ upd'[u].reset = upd[u].reset /\ upd'[u].bound = upd[u].bound
      /\ upd'[u].isNew = upd[u].isNew /\ upd'[u].target = upd[u].target
      /\ upd'[u].asked = upd[u].asked /\ upd'[u].nonce = upd[u].nonce
      /\ upd'[u].used = upd[u].used
  <2>1. CASE Case1
    BY <1>2, <2>1 DEF To, ToEnd, UpdRec
  <2>2. CASE Case2
    BY <1>2, <2>2 DEF To, ToEnd, UpdRec
  <2> QED BY <1>1, <2>1, <2>2
<1>5. \/ /\ upd[u].isNew /\ upd'[u].pc = "endCheck" /\ upd'[u].why = "rollback"
      \/ /\ ~upd[u].isNew /\ upd'[u].pc = "done" /\ upd'[u].why = upd[u].why
  <2>1. CASE Case1
    BY <1>2, <2>1 DEF To, ToEnd, UpdRec
  <2>2. CASE Case2
    BY <1>2, <2>2 DEF To, ToEnd, UpdRec
  <2> QED BY <1>1, <2>1, <2>2
<1>6. UNCHANGED <<clock, active, sess, flushOn, summary, prompt, work, resets, faults>>
  BY <1>2 DEF NoAnswer, At, To, ToEnd, UpdRec
<1>7. Used' = Used /\ Spent \subseteq Spent'
  BY <1>1, <1>2, <1>3, <1>4, <1>5, <1>6 DEF Used, Spent
<1>8. SessOK' /\ WorkOK' /\ BoundsOK' /\ ActivityInv' /\ ResetInv'
  BY <1>6 DEF IInv, TypeOK, SessOK, WorkOK, BoundsOK, ActivityInv, ResetInv, Used
<1>9. TalkOK'
  BY <1>3, <1>6 DEF IInv, TypeOK, TalkOK
<1>10. MintInv'
  BY <1>7, MintKept
<1>11. HookInv'
  <2>1. upd'[u].pc \notin {"idle", "peek", "read"}
    BY <1>2, <1>5
  <2> QED BY <2>1, <1>3, <1>6, HookKept
<1> USE Constants, <1>1, <1>2, <1>3, <1>4, <1>5, <1>6, <1>7
<1>12. BoundInv'
  BY DEF IInv, BoundInv, Unminted, BeforeTurn
<1>13. TargetInv'
  BY DEF IInv, TargetInv, BoundInv
<1>14. ShownInv'
  BY DEF IInv, TypeOK, ShownInv, TalkOK, Prompts
<1>15. NonceInv'
  BY DEF IInv, TypeOK, NonceInv, ShownInv, Unasked
<1>16. OnceInv'
  BY DEF IInv, OnceInv, NonceInv
<1>17. AloneInv'
  BY DEF IInv, AloneInv, Busy, PCs
<1>18. EndInv'
  BY DEF IInv, TypeOK, EndInv, EndOK, RollsBack, AloneInv, Busy, PCs,
       TalkOK
<1> QED BY <1>8, <1>9, <1>10, <1>11, <1>12, <1>13, <1>14, <1>15, <1>16, <1>17,
     <1>18 DEF IInv, TypeOK

(* The summary is removed, or a failure keeps it.                          *)
LEMMA RemovalKeeps ==
    ASSUME IInv, NEW u \in Updates, NEW pc \in {"remove", "removeAgain"},
           NEW next \in {"removeAgain", "send"}, Removal(u, pc, next)
    PROVE  IInv'
<1>1. /\ upd[u].pc \in {"remove", "removeAgain"} /\ upd \in [Updates -> UpdRec]
      /\ {"removeAgain", "send"} \subseteq PCs
  BY Threes DEF IInv, TypeOK, TalkOK, PCs, Removal, At
<1>2. /\ upd' \in [Updates -> UpdRec]
      /\ \A v \in Updates \ {u} : upd'[v] = upd[v]
  BY <1>1 DEF Removal, To, UpdRec
<1>3. /\ upd'[u].kind = upd[u].kind /\ upd'[u].seen = upd[u].seen
      /\ upd'[u].reset = upd[u].reset /\ upd'[u].bound = upd[u].bound
      /\ upd'[u].isNew = upd[u].isNew /\ upd'[u].why = upd[u].why
      /\ upd'[u].target = upd[u].target /\ upd'[u].asked = upd[u].asked
      /\ upd'[u].nonce = upd[u].nonce /\ upd'[u].used = upd[u].used
  BY <1>1 DEF Removal, To, UpdRec
<1>4. upd'[u].pc \in {"removeAgain", "send"} /\ summary' \in {None, summary}
  BY <1>1 DEF Removal, At, To, UpdRec
<1>5. UNCHANGED <<clock, active, sess, flushOn, prompt, work, resets>>
  BY <1>1 DEF Removal, At, To, UpdRec
<1>6. Used' = Used /\ Spent \subseteq Spent'
  BY <1>1, <1>2, <1>3, <1>4, <1>5 DEF Used, Spent
<1>7. SessOK' /\ BoundsOK' /\ ActivityInv' /\ ResetInv'
  <2>1. BoundsOK'
    BY <1>5, Constants DEF IInv, TypeOK, BoundsOK, Removal, Fault, NoFault
  <2>2. SessOK' /\ ActivityInv' /\ ResetInv'
    BY <1>5 DEF IInv, TypeOK, SessOK, ActivityInv, ResetInv, Used
  <2> QED BY <2>1, <2>2
<1>8. TalkOK'
  BY <1>2, <1>5 DEF IInv, TypeOK, TalkOK
<1>9. MintInv'
  BY <1>6, MintKept
<1>10. HookInv'
  <2>1. upd'[u].pc \notin {"idle", "peek", "read"}
    BY <1>1, <1>4
  <2> QED BY <2>1, <1>2, <1>5, HookKept
<1> USE Constants, <1>1, <1>2, <1>3, <1>4, <1>5, <1>6
<1>11. WorkOK'
  BY DEF IInv, TypeOK, WorkOK, WorkRec, Summaries
<1>12. BoundInv'
  BY DEF IInv, BoundInv, Unminted, BeforeTurn
<1>13. TargetInv'
  BY DEF IInv, TargetInv, BoundInv
<1>14. ShownInv'
  BY DEF IInv, TypeOK, ShownInv, TalkOK, Prompts
<1>15. NonceInv'
  BY DEF IInv, TypeOK, NonceInv, ShownInv, Unasked
<1>16. OnceInv'
  BY DEF IInv, OnceInv, NonceInv
<1>17. AloneInv'
  BY DEF IInv, AloneInv, Busy, PCs
<1>18. EndInv'
  BY DEF IInv, TypeOK, EndInv, EndOK, RollsBack, AloneInv, Busy, PCs,
       TalkOK
<1> QED BY <1>7, <1>8, <1>9, <1>10, <1>11, <1>12, <1>13, <1>14, <1>15, <1>16,
     <1>17, <1>18 DEF IInv, TypeOK

(* The reply is sent or refused.                                           *)
LEMMA SendReplyKeeps ==
    ASSUME IInv, NEW u \in Updates, SendReply(u)
    PROVE  IInv'
<1> DEFINE Case1 ==
              To(u, "append")
<1> DEFINE Case2 ==
              To(u, "done")
<1>1. Case1 \/ Case2
  BY DEF SendReply, At, To, NoFault, Fault
<1>2. /\ upd[u].pc = "send" /\ upd \in [Updates -> UpdRec]
      /\ {"append", "done"} \subseteq PCs
  BY Threes DEF IInv, TypeOK, TalkOK, PCs, SendReply, At
<1>3. /\ upd' \in [Updates -> UpdRec]
      /\ \A v \in Updates \ {u} : upd'[v] = upd[v]
  <2>1. CASE Case1
    BY <1>2, <2>1 DEF To, UpdRec
  <2>2. CASE Case2
    BY <1>2, <2>2 DEF To, UpdRec
  <2> QED BY <1>1, <2>1, <2>2
<1>4. /\ upd'[u].kind = upd[u].kind /\ upd'[u].seen = upd[u].seen
      /\ upd'[u].reset = upd[u].reset /\ upd'[u].bound = upd[u].bound
      /\ upd'[u].isNew = upd[u].isNew /\ upd'[u].why = upd[u].why
      /\ upd'[u].target = upd[u].target /\ upd'[u].asked = upd[u].asked
      /\ upd'[u].nonce = upd[u].nonce /\ upd'[u].used = upd[u].used
  <2>1. CASE Case1
    BY <1>2, <2>1 DEF To, UpdRec
  <2>2. CASE Case2
    BY <1>2, <2>2 DEF To, UpdRec
  <2> QED BY <1>1, <2>1, <2>2
<1>5. upd'[u].pc \in {"append", "done"}
  <2>1. CASE Case1
    BY <1>2, <2>1 DEF To, UpdRec
  <2>2. CASE Case2
    BY <1>2, <2>2 DEF To, UpdRec
  <2> QED BY <1>1, <2>1, <2>2
<1>6. faults' \in 0 .. MaxFaults
  BY Constants DEF IInv, TypeOK, BoundsOK, SendReply, NoFault, Fault
<1>7. UNCHANGED <<clock, active, sess, flushOn, summary, prompt, work, resets>>
  BY <1>2 DEF SendReply, At, To, NoFault, Fault, UpdRec
<1>8. Used' = Used /\ Spent \subseteq Spent'
  BY <1>1, <1>2, <1>3, <1>4, <1>5, <1>6, <1>7 DEF Used, Spent
<1>9. SessOK' /\ WorkOK' /\ ActivityInv' /\ ResetInv'
  BY <1>7 DEF IInv, TypeOK, SessOK, WorkOK, ActivityInv, ResetInv, Used
<1>10. TalkOK'
  BY <1>3, <1>7 DEF IInv, TypeOK, TalkOK
<1>11. MintInv'
  BY <1>8, MintKept
<1>12. HookInv'
  <2>1. upd'[u].pc \notin {"idle", "peek", "read"}
    BY <1>2, <1>5, <1>6
  <2> QED BY <2>1, <1>3, <1>7, HookKept
<1> USE Constants, <1>1, <1>2, <1>3, <1>4, <1>5, <1>6, <1>7, <1>8
<1>13. BoundsOK'
  BY DEF IInv, TypeOK, BoundsOK
<1>14. BoundInv'
  BY DEF IInv, BoundInv, Unminted, BeforeTurn
<1>15. TargetInv'
  BY DEF IInv, TargetInv, BoundInv
<1>16. ShownInv'
  BY DEF IInv, TypeOK, ShownInv, TalkOK, Prompts
<1>17. NonceInv'
  BY DEF IInv, TypeOK, NonceInv, ShownInv, Unasked
<1>18. OnceInv'
  BY DEF IInv, OnceInv, NonceInv
<1>19. AloneInv'
  BY DEF IInv, AloneInv, Busy, PCs
<1>20. EndInv'
  BY DEF IInv, TypeOK, EndInv, EndOK, RollsBack, AloneInv, Busy, PCs,
       TalkOK
<1> QED BY <1>9, <1>10, <1>11, <1>12, <1>13, <1>14, <1>15, <1>16, <1>17, <1>18,
     <1>19, <1>20 DEF IInv, TypeOK

(* The turn chooses its session, or mints one.                             *)
LEMMA AppendToKeeps ==
    ASSUME IInv, NEW u \in Updates, AppendTo(u)
    PROVE  IInv'
<1>1. u \notin Spent => NextId \in Sessions /\ NextId \notin Used /\ NextId # None
  BY Minting
<1>2. upd[u].pc = "append" /\ (upd[u].bound = None => u \notin Spent)
  BY DEF IInv, AppendTo, At, BoundInv, Unminted, BeforeTurn, Spent
<1> DEFINE Case1 ==
              /\ upd[u].bound = None /\ active = None /\ active' = NextId
              /\ sess' = [sess EXCEPT ![NextId] = Fresh(upd[u].reset)]
              /\ upd' = [upd EXCEPT ![u] = [@ EXCEPT !.pc = "into", !.target = NextId]]
<1> DEFINE Case2 ==
              /\ upd[u].bound = None /\ active # None /\ UNCHANGED <<active, sess>>
              /\ upd' = [upd EXCEPT ![u] = [@ EXCEPT !.pc = "into", !.target = active]]
<1> DEFINE Case3 ==
              /\ upd[u].bound # None /\ UNCHANGED <<active, sess>>
              /\ upd' = [upd EXCEPT ![u] = [@ EXCEPT !.pc = "into",
                        !.target = upd[u].bound]]
<1>3. Case1 \/ Case2 \/ Case3
  BY DEF AppendTo, At
<1>4. /\ upd[u].pc = "append" /\ upd \in [Updates -> UpdRec]
      /\ active \in Sessions \cup {None}
      /\ {"into"} \subseteq PCs
  BY Threes, <1>1, <1>2 DEF IInv, TypeOK, TalkOK, PCs, AppendTo, At, SessOK,
       BoundInv
<1>5. /\ upd' \in [Updates -> UpdRec]
      /\ \A v \in Updates \ {u} : upd'[v] = upd[v]
  <2>1. CASE Case1
    <3>1. [upd[u] EXCEPT !.pc = "into", !.target = NextId] \in UpdRec
      <4>1. upd[u] \in UpdRec /\ "into" \in PCs /\ upd[u].bound \in Sessions \cup {None}
        BY <1>4 DEF UpdRec
      <4>2. active = None /\ upd[u].bound = None => NextId \in Sessions
        BY <1>1, <1>2
      <4>3. ASSUME NEW s \in Sessions \cup {None}
            PROVE  [upd[u] EXCEPT !.pc = "into", !.target = s] \in UpdRec
        BY <4>1 DEF UpdRec
      <4> QED BY <1>4, <2>1, <4>1, <4>2, <4>3
    <3> QED BY <1>1, <1>2, <1>4, <2>1, <3>1
  <2>2. CASE Case2
    <3>1. [upd[u] EXCEPT !.pc = "into", !.target = active] \in UpdRec
      <4>1. upd[u] \in UpdRec /\ "into" \in PCs /\ upd[u].bound \in Sessions \cup {None}
        BY <1>4 DEF UpdRec
      <4>2. active = None /\ upd[u].bound = None => NextId \in Sessions
        BY <1>1, <1>2
      <4>3. ASSUME NEW s \in Sessions \cup {None}
            PROVE  [upd[u] EXCEPT !.pc = "into", !.target = s] \in UpdRec
        BY <4>1 DEF UpdRec
      <4> QED BY <1>4, <2>2, <4>1, <4>2, <4>3
    <3> QED BY <1>1, <1>2, <1>4, <2>2, <3>1
  <2>3. CASE Case3
    <3>1. [upd[u] EXCEPT !.pc = "into", !.target = upd[u].bound] \in UpdRec
      <4>1. upd[u] \in UpdRec /\ "into" \in PCs /\ upd[u].bound \in Sessions \cup {None}
        BY <1>4 DEF UpdRec
      <4>2. active = None /\ upd[u].bound = None => NextId \in Sessions
        BY <1>1, <1>2
      <4>3. ASSUME NEW s \in Sessions \cup {None}
            PROVE  [upd[u] EXCEPT !.pc = "into", !.target = s] \in UpdRec
        BY <4>1 DEF UpdRec
      <4> QED BY <1>4, <2>3, <4>1, <4>2, <4>3
    <3> QED BY <1>1, <1>2, <1>4, <2>3, <3>1
  <2> QED BY <1>3, <2>1, <2>2, <2>3
<1>6. /\ upd'[u].kind = upd[u].kind /\ upd'[u].seen = upd[u].seen
      /\ upd'[u].reset = upd[u].reset /\ upd'[u].bound = upd[u].bound
      /\ upd'[u].isNew = upd[u].isNew /\ upd'[u].why = upd[u].why
      /\ upd'[u].asked = upd[u].asked /\ upd'[u].nonce = upd[u].nonce
      /\ upd'[u].used = upd[u].used
  <2>1. CASE Case1
    BY <1>4, <2>1 DEF UpdRec
  <2>2. CASE Case2
    BY <1>4, <2>2 DEF UpdRec
  <2>3. CASE Case3
    BY <1>4, <2>3 DEF UpdRec
  <2> QED BY <1>3, <2>1, <2>2, <2>3
<1>7. upd'[u].pc = "into"
  <2>1. CASE Case1
    BY <1>4, <2>1 DEF UpdRec
  <2>2. CASE Case2
    BY <1>4, <2>2 DEF UpdRec
  <2>3. CASE Case3
    BY <1>4, <2>3 DEF UpdRec
  <2> QED BY <1>3, <2>1, <2>2, <2>3
<1>8. \/ /\ upd'[u].target = NextId /\ upd[u].bound = None /\ active = None
         /\ active' = NextId /\ sess' = [sess EXCEPT ![NextId] = Fresh(upd[u].reset)]
      \/ /\ upd'[u].target \in {active, upd[u].bound} \ {None}
         /\ UNCHANGED <<active, sess>>
  <2>1. CASE Case1
    BY <1>4, <2>1 DEF UpdRec
  <2>2. CASE Case2
    BY <1>4, <2>2 DEF UpdRec
  <2>3. CASE Case3
    BY <1>4, <2>3 DEF UpdRec
  <2> QED BY <1>3, <2>1, <2>2, <2>3
<1>9. UNCHANGED <<clock, flushOn, summary, prompt, work, resets, faults>>
  BY <1>1, <1>2, <1>4 DEF AppendTo, At, UpdRec
<1>10. Spent \subseteq Spent'
  BY <1>1, <1>2, <1>3, <1>4, <1>5, <1>6, <1>7, <1>8, <1>9 DEF Spent
<1>11. \/ UNCHANGED <<active, sess>>
      \/ /\ u \notin Spent /\ u \in Spent' /\ active' = NextId /\ active = None
         /\ sess' = [sess EXCEPT ![NextId] = Fresh(upd[u].reset)]
  BY <1>1, <1>2, <1>3, <1>4, <1>5, <1>6, <1>7, <1>8, <1>9, <1>10 DEF Spent
<1>12. /\ SessOK' /\ ActivityInv'
      /\ \/ UNCHANGED <<active, sess>> /\ Used' = Used
         \/ /\ u \notin Spent /\ u \in Spent' /\ Used' = Used \cup {NextId}
            /\ active' = NextId /\ active = None /\ NextId \in Sessions /\ NextId # None
            /\ NextId \notin Used /\ sess'[NextId].exchanges = 0
            /\ \A s \in Sessions \ {NextId} : sess'[s] = sess[s]
  <2>1. CASE UNCHANGED <<active, sess>>
    BY <2>1, <1>9 DEF IInv, TypeOK, SessOK, ActivityInv, Used
  <2>2. CASE /\ u \notin Spent /\ u \in Spent' /\ active' = NextId /\ active = None
            /\ sess' = [sess EXCEPT ![NextId] = Fresh(upd[u].reset)]
    <3>1. upd[u].reset \in Sessions \cup {None}
      BY <1>4 DEF UpdRec
    <3> QED BY <2>2, <3>1, <1>9, Minted
  <2> QED BY <1>11, <2>1, <2>2
<1>13. WorkOK' /\ BoundsOK'
  BY <1>9 DEF IInv, TypeOK, WorkOK, BoundsOK
<1>14. TalkOK'
  BY <1>5, <1>9 DEF IInv, TypeOK, TalkOK
<1>15. MintInv'
  BY <1>10, <1>12, MintKept, MintStep
<1>16. HookInv'
  <2>1. upd'[u].pc \notin {"idle", "peek", "read"}
    BY <1>4, <1>7, <1>8
  <2> QED BY <2>1, <1>5, <1>9, HookKept
<1> USE Constants, <1>1, <1>2, <1>3, <1>4, <1>5, <1>6, <1>7, <1>8, <1>9, <1>10,
    <1>11, <1>12
<1>17. BoundInv'
  BY DEF IInv, BoundInv, Unminted, BeforeTurn
<1>18. TargetInv'
  BY DEF IInv, TargetInv, BoundInv, Unminted, BeforeTurn
<1>19. ShownInv'
  BY DEF IInv, TypeOK, ShownInv, TalkOK, Prompts, BoundInv, Unminted, BeforeTurn
<1>20. NonceInv'
  BY DEF IInv, TypeOK, NonceInv, ShownInv, Unasked, BoundInv, Unminted,
       BeforeTurn
<1>21. OnceInv'
  BY DEF IInv, OnceInv, NonceInv, BoundInv, Unminted, BeforeTurn
<1>22. AloneInv'
  BY DEF IInv, AloneInv, Busy, PCs, BoundInv, Unminted, BeforeTurn
<1>23. EndInv'
  BY DEF IInv, TypeOK, EndInv, EndOK, RollsBack, AloneInv, Busy, PCs,
       TalkOK, BoundInv, Unminted, BeforeTurn
<1>24. ResetInv'
  BY DEF IInv, TypeOK, ResetInv, Used, SessOK, BoundInv, Unminted, BeforeTurn
<1> QED BY <1>12, <1>13, <1>14, <1>15, <1>16, <1>17, <1>18, <1>19, <1>20, <1>21,
     <1>22, <1>23, <1>24 DEF IInv, TypeOK

(* The turn is added: the activity of an ended session stays where it is.  *)
LEMMA AppendIntoKeeps ==
    ASSUME IInv, NEW u \in Updates, AppendInto(u)
    PROVE  IInv'
<1>1. /\ upd[u].pc = "into" /\ upd \in [Updates -> UpdRec]
      /\ {"done"} \subseteq PCs
  BY Threes DEF IInv, TypeOK, TalkOK, PCs, AppendInto, At
<1>2. /\ upd' \in [Updates -> UpdRec]
      /\ \A v \in Updates \ {u} : upd'[v] = upd[v]
  BY <1>1 DEF AppendInto, To, NoFault, Fault, UpdRec
<1>3. /\ upd'[u].kind = upd[u].kind /\ upd'[u].seen = upd[u].seen
      /\ upd'[u].reset = upd[u].reset /\ upd'[u].bound = upd[u].bound
      /\ upd'[u].isNew = upd[u].isNew /\ upd'[u].why = upd[u].why
      /\ upd'[u].target = upd[u].target /\ upd'[u].asked = upd[u].asked
      /\ upd'[u].nonce = upd[u].nonce /\ upd'[u].used = upd[u].used
  BY <1>1 DEF AppendInto, To, NoFault, Fault, UpdRec
<1>4. upd'[u].pc = "done"
  BY <1>1 DEF AppendInto, At, To, NoFault, Fault, UpdRec
<1>5. \/ sess' = sess
      \/ sess' = [sess EXCEPT ![upd[u].target] = Appended(upd[u].target)]
  BY <1>1 DEF AppendInto, At, To, NoFault, Fault, UpdRec
<1>6. faults' \in 0 .. MaxFaults
  BY Constants DEF IInv, TypeOK, BoundsOK, AppendInto, NoFault, Fault
<1>7. UNCHANGED <<clock, active, flushOn, summary, prompt, work, resets>>
  BY <1>1 DEF AppendInto, At, To, NoFault, Fault, UpdRec
<1>8. Used' = Used /\ Spent \subseteq Spent'
  <2>1. upd[u].target \in Sessions /\ sess[upd[u].target].stage # "unused"
    BY <1>1 DEF IInv, TargetInv, Used
  <2>2. \A s \in Sessions : sess'[s].stage = sess[s].stage \/ (s = upd[u].target
            /\ sess'[s].stage = "ended")
    BY <2>1, <1>4, <1>5, <1>6, AppendedStage DEF IInv, TypeOK, SessOK
  <2>3. Used' = Used
    BY <2>1, <2>2 DEF Used
  <2>4. Spent \subseteq Spent'
    BY <1>1, <1>2, <1>3, <1>4, <1>5, <1>6, <1>7 DEF Spent
  <2> QED BY <2>3, <2>4
<1>9. WorkOK'
  BY <1>7 DEF IInv, TypeOK, WorkOK
<1>10. SessOK' /\ ActivityInv'
  <2>1. upd[u].target \in Sessions /\ sess[upd[u].target] \in SessRec /\ clock \in Nat
    BY <1>1 DEF IInv, TargetInv, Used, TypeOK, SessOK, BoundsOK
  <2>2. CASE sess' = sess
    BY <2>2, <1>7 DEF IInv, TypeOK, SessOK, ActivityInv
  <2>3. CASE sess' = [sess EXCEPT ![upd[u].target] = Appended(upd[u].target)]
    <3> DEFINE s == upd[u].target
    <3>1. /\ Appended(s) \in SessRec /\ Appended(s).stage = sess[s].stage
          /\ Appended(s).endedAt = sess[s].endedAt
          /\ Appended(s).touched = IF sess[s].stage = "ended" THEN sess[s].touched ELSE clock
      BY <2>1, AppendedShape
    <3>2. /\ Appended(s).touched <= clock
          /\ Appended(s).stage = "ended" => Appended(s).touched <= Appended(s).endedAt
      BY <2>1, <3>1 DEF IInv, ActivityInv
    <3> QED BY <2>1, <2>3, <3>1, <3>2, <1>7, SessionChanged DEF IInv, TypeOK, SessOK
  <2> QED BY <1>5, <2>2, <2>3
<1>11. TalkOK'
  BY <1>2, <1>7 DEF IInv, TypeOK, TalkOK
<1>12. MintInv'
  BY <1>8, MintKept
<1>13. HookInv'
  <2>1. upd'[u].pc \notin {"idle", "peek", "read"}
    BY <1>1, <1>4, <1>5
  <2> QED BY <2>1, <1>2, <1>7, HookKept
<1> USE Constants, <1>1, <1>2, <1>3, <1>4, <1>5, <1>6, <1>7, <1>8
<1>14. BoundsOK'
  BY DEF IInv, TypeOK, BoundsOK
<1>15. BoundInv'
  BY DEF IInv, BoundInv, Unminted, BeforeTurn
<1>16. TargetInv'
  BY DEF IInv, TargetInv, BoundInv
<1>17. ShownInv'
  BY DEF IInv, TypeOK, ShownInv, TalkOK, Prompts
<1>18. NonceInv'
  BY DEF IInv, TypeOK, NonceInv, ShownInv, Unasked
<1>19. OnceInv'
  BY DEF IInv, OnceInv, NonceInv
<1>20. AloneInv'
  BY DEF IInv, AloneInv, Busy, PCs
<1>21. EndInv'
  BY DEF IInv, TypeOK, EndInv, EndOK, RollsBack, AloneInv, Busy, PCs,
       TalkOK, Appended
<1>22. ResetInv'
  BY DEF IInv, TypeOK, ResetInv, Used, SessOK
<1> QED BY <1>9, <1>10, <1>11, <1>12, <1>13, <1>14, <1>15, <1>16, <1>17, <1>18,
     <1>19, <1>20, <1>21, <1>22 DEF IInv, TypeOK

(* The job of an idle reset asks the setting first.                        *)
LEMMA FlushEnabledKeeps == ASSUME IInv, NEW u \in Updates, FlushEnabled(u) PROVE IInv'
<1>1. UNCHANGED <<upd, clock, active, sess, flushOn, summary, prompt, resets, faults>>
  BY DEF FlushEnabled, JobTo
<1>2. /\ SessOK' /\ TalkOK' /\ BoundsOK' /\ BoundInv' /\ TargetInv'
      /\ ActivityInv' /\ ShownInv' /\ NonceInv' /\ OnceInv' /\ AloneInv'
      /\ EndInv' /\ ResetInv'
  BY <1>1 DEF IInv, TypeOK, SessOK, TalkOK, BoundsOK, BoundInv, TargetInv, ActivityInv,
      ShownInv, NonceInv, Unasked, OnceInv, AloneInv, EndInv, ResetInv, Used, Unminted, EndOK,
                RollsBack
<1>3. WorkOK'
  BY <1>1, Constants DEF IInv, TypeOK, WorkOK, WorkRec, Summaries, Jobs, FlushEnabled,
      JobTo
<1>4. MintInv'
  <2>1. Used' = Used /\ Spent \subseteq Spent'
    BY <1>1 DEF Used, Spent
  <2> QED BY <2>1, MintKept
<1>5. HookInv'
  BY <1>1, JobPlaces DEF IInv, TypeOK, HookInv, WorkOK, FlushEnabled, JobTo
<1> QED BY <1>2, <1>3, <1>4, <1>5 DEF IInv, TypeOK

(* The model has summarized, or has not.                                   *)
LEMMA SummarizedKeeps == ASSUME IInv, NEW j \in Jobs, Summarized(j) PROVE IInv'
<1>1. UNCHANGED <<upd, clock, active, sess, flushOn, summary, prompt, resets, faults>>
  BY DEF Summarized, JobTo
<1>2. /\ SessOK' /\ TalkOK' /\ BoundsOK' /\ BoundInv' /\ TargetInv'
      /\ ActivityInv' /\ ShownInv' /\ NonceInv' /\ OnceInv' /\ AloneInv'
      /\ EndInv' /\ ResetInv'
  BY <1>1 DEF IInv, TypeOK, SessOK, TalkOK, BoundsOK, BoundInv, TargetInv, ActivityInv,
      ShownInv, NonceInv, Unasked, OnceInv, AloneInv, EndInv, ResetInv, Used, Unminted, EndOK,
                RollsBack
<1>3. WorkOK'
  BY <1>1, Constants DEF IInv, TypeOK, WorkOK, WorkRec, Summaries, Jobs, Summarized,
      JobTo
<1>4. MintInv'
  <2>1. Used' = Used /\ Spent \subseteq Spent'
    BY <1>1 DEF Used, Spent
  <2> QED BY <2>1, MintKept
<1>5. HookInv'
  BY <1>1, JobPlaces DEF IInv, TypeOK, HookInv, WorkOK, Summarized, JobTo
<1> QED BY <1>2, <1>3, <1>4, <1>5 DEF IInv, TypeOK

(* The summary is saved.                                                   *)
LEMMA SummarySavedKeeps == ASSUME IInv, NEW j \in Jobs, SummarySaved(j) PROVE IInv'
<1>1. UNCHANGED <<upd, clock, active, sess, flushOn, prompt, resets>>
  BY DEF SummarySaved, JobTo
<1>2. /\ SessOK' /\ TalkOK' /\ BoundInv' /\ TargetInv' /\ ActivityInv'
      /\ ShownInv' /\ NonceInv' /\ OnceInv' /\ AloneInv' /\ EndInv'
      /\ ResetInv'
  BY <1>1 DEF IInv, TypeOK, SessOK, TalkOK, BoundInv, TargetInv, ActivityInv, ShownInv,
      NonceInv, Unasked, OnceInv, AloneInv, EndInv, ResetInv, Used, Unminted, EndOK, RollsBack
<1>3. WorkOK'
  BY <1>1, Constants DEF IInv, TypeOK, WorkOK, WorkRec, Summaries, Jobs, SummarySaved,
      JobTo
<1>4. BoundsOK'
  BY <1>1, Constants DEF IInv, TypeOK, BoundsOK, SummarySaved, Fault, NoFault
<1>5. MintInv'
  <2>1. Used' = Used /\ Spent \subseteq Spent'
    BY <1>1 DEF Used, Spent
  <2> QED BY <2>1, MintKept
<1>6. HookInv'
  BY <1>1, JobPlaces DEF IInv, TypeOK, HookInv, WorkOK, SummarySaved, JobTo
<1> QED BY <1>2, <1>3, <1>4, <1>5, <1>6 DEF IInv, TypeOK

(* Time passes: no activity becomes one of the future, no prompt comes     *)
(* back.                                                                   *)
LEMMA TickKeeps == ASSUME IInv, Tick PROVE IInv'
<1>1. UNCHANGED <<upd, active, sess, flushOn, summary, prompt, work, resets, faults>>
  BY DEF Tick
<1>2. /\ SessOK' /\ TalkOK' /\ WorkOK' /\ BoundInv' /\ TargetInv'
      /\ HookInv' /\ ShownInv' /\ NonceInv' /\ OnceInv' /\ AloneInv'
      /\ ResetInv'
  BY <1>1 DEF IInv, TypeOK, SessOK, TalkOK, WorkOK, BoundInv, TargetInv, HookInv,
      ShownInv, NonceInv, Unasked, OnceInv, AloneInv, ResetInv, Used, Unminted
<1>3. BoundsOK'
  BY <1>1, Constants DEF IInv, TypeOK, BoundsOK, Tick
<1>4. MintInv'
  <2>1. Used' = Used /\ Spent \subseteq Spent'
    BY <1>1 DEF Used, Spent
  <2> QED BY <2>1, MintKept
<1>5. ActivityInv'
  BY <1>1, Constants DEF IInv, TypeOK, SessOK, SessRec, BoundsOK, ActivityInv, Tick
<1>6. EndInv'
  BY <1>1 DEF IInv, EndInv, EndOK, RollsBack
<1> QED BY <1>2, <1>3, <1>4, <1>5, <1>6 DEF IInv, TypeOK

(* Any step of an update.                                                  *)
LEMMA StepKeeps == ASSUME IInv, NEW u \in Updates, Step(u) PROVE IInv'
<1>1. CASE FlushSettles(u) \/ FlushTimeout(u)
  BY <1>1, FlushRaceKeeps DEF FlushSettles, FlushTimeout
<1>2. CASE MessageAnswered(u) \/ AskAnswered(u)
  BY <1>2, AnswersKeeps DEF MessageAnswered, AskAnswered
<1>3. CASE MessageFailed(u) \/ AskFailed(u)
  BY <1>3, NoAnswerKeeps DEF MessageFailed, AskFailed
<1>4. CASE RemoveSummary(u) \/ RemoveAgain(u)
  BY <1>4, RemovalKeeps DEF RemoveSummary, RemoveAgain
<1> QED BY <1>1, <1>2, <1>3, <1>4, HookPeekKeeps, HookReadKeeps, EndCheckKeeps,
     EndWriteKeeps, EndClearKeeps, FlushEnabledKeeps, NoticeKeeps,
     RouteCommandKeeps, RoutePhotoKeeps, RouteTextKeeps, SendButtonsKeeps,
     FlushPeekKeeps, FlushReadKeeps, EnsureSessionKeeps,
     SendReplyKeeps, AppendToKeeps, AppendIntoKeeps DEF Step

(* The first state: one open session with a turn, and nothing under way.   *)
LEMMA Initially == Init => IInv
<1> SUFFICES ASSUME Init PROVE IInv
  OBVIOUS
<1> USE Constants
<1>1. /\ sess \in [Sessions -> SessRec] /\ active = 0
      /\ sess[0].stage = "open" /\ sess[0].touched = 0
      /\ \A s \in Sessions \ {0} : sess[s].stage = "unused" /\ sess[s].touched = 0
  BY DEF Init, Unused, SessRec
<1>2. /\ upd \in [Updates -> UpdRec]
      /\ \A u \in Updates : /\ upd[u].pc = "idle" /\ upd[u].bound = None
                /\ ~upd[u].isNew
                            /\ upd[u].why = "hook" /\ ~upd[u].asked /\ ~upd[u].used
  <2>1. Waiting \in UpdRec
    BY DEF Waiting, UpdRec, PCs, AllKinds
  <2> QED BY <2>1 DEF Init, Waiting
<1>3. /\ work \in [Jobs -> WorkRec] /\ \A j \in Jobs : work[j].stage = "none"
      /\ summary = None /\ prompt = None /\ clock = 0 /\ faults = 0
                /\ flushOn \in BOOLEAN
      /\ resets \in [Sessions -> Nat] /\ \A s \in Sessions : resets[s] = 0
  BY DEF Init, NoWork, WorkRec
<1>4. TypeOK
  BY <1>1, <1>2, <1>3 DEF TypeOK, SessOK, TalkOK, WorkOK, BoundsOK
<1>5. Used = {0}
  BY <1>1 DEF Used
<1>6. MintInv
  <2>1. NextId = 1
    BY <1>5, FS_Singleton DEF NextId, Used
  <2>2. Cardinality(Spent) \in Nat
    BY SpentCounted
  <2> QED BY <1>5, <2>1, <2>2 DEF MintInv
<1>7. BoundInv /\ TargetInv
  BY <1>1, <1>2, <1>5 DEF BoundInv, TargetInv, Unminted, BeforeTurn
<1>8. HookInv
  BY <1>2, <1>3, JobPlaces DEF HookInv
<1>9. ActivityInv
  BY <1>1, <1>3 DEF ActivityInv
<1>10. ShownInv /\ NonceInv /\ OnceInv
  BY <1>2, <1>3 DEF ShownInv, NonceInv, OnceInv
<1>11. AloneInv /\ EndInv
  BY <1>2 DEF AloneInv, Busy, EndInv, EndOK, RollsBack
<1>12. ResetInv
  BY <1>3 DEF ResetInv
<1> QED BY <1>4, <1>6, <1>7, <1>8, <1>9, <1>10, <1>11, <1>12 DEF IInv

(* A step that changes nothing.                                            *)
LEMMA StutterKeeps == ASSUME IInv, UNCHANGED vars PROVE IInv'
<1>1. Used' = Used /\ Spent \subseteq Spent'
  BY DEF vars, Used, Spent
<1>2. MintInv'
  BY <1>1, MintKept
<1>3. SessOK' /\ TalkOK' /\ WorkOK' /\ BoundsOK'
  BY DEF IInv, vars, TypeOK, SessOK, TalkOK, WorkOK, BoundsOK
<1>4. BoundInv' /\ TargetInv' /\ HookInv' /\ ActivityInv'
  BY <1>1 DEF IInv, vars, BoundInv, TargetInv, HookInv, ActivityInv, Unminted
<1>5. ShownInv' /\ NonceInv' /\ OnceInv' /\ AloneInv'
  BY DEF IInv, vars, ShownInv, NonceInv, Unasked, OnceInv, AloneInv
<1>6. EndInv' /\ ResetInv'
  BY <1>1 DEF IInv, vars, EndInv, EndOK, RollsBack, ResetInv
<1> QED BY <1>2, <1>3, <1>4, <1>5, <1>6 DEF IInv, TypeOK

(* Every step keeps the invariant.                                         *)
LEMMA NextKeeps == IInv /\ [Next]_vars => IInv'
<1> SUFFICES ASSUME IInv, [Next]_vars PROVE IInv'
  OBVIOUS
<1>1. ASSUME NEW u \in Updates, Receive(u) \/ PressButton(u) \/ Step(u)
      PROVE  IInv'
  BY <1>1, ReceiveKeeps, PressButtonKeeps, StepKeeps
<1>2. ASSUME NEW j \in Jobs, Summarized(j) \/ SummarySaved(j)
      PROVE  IInv'
  BY <1>2, SummarizedKeeps, SummarySavedKeeps
<1> QED BY <1>1, <1>2, TickKeeps, StutterKeeps DEF Next

(* The inductive invariant: what an update is about to end, read or extend *)
(* exists, and, when the bot polls, is still what the index names;         *)
(* activity is never in the future; a used nonce is not pending again.     *)
THEOREM Invariance == Spec => []IInv
  BY Initially, NextKeeps, PTL DEF Spec

(* For any updates, kinds, thresholds and bounds: sessions, updates,       *)
(* prompts and jobs keep their shape.                                      *)
THEOREM TypeCorrect == Spec => []TypeOK
<1>1. IInv => TypeOK
  BY DEF IInv
<1> QED BY <1>1, Invariance, PTL

(* The end of a session is never before its last activity, although turns  *)
(* that were bound before the end are appended after it: the append looks  *)
(* at the stage under the transcript lock.                                 *)
THEOREM ActivityEnds == Spec => []EndedAfterActivity
<1>1. IInv => EndedAfterActivity
  BY DEF IInv, ActivityInv, EndedAfterActivity
<1> QED BY <1>1, Invariance, PTL

(* However many buttons are pressed, however late, and whatever prompts    *)
(* came after it, a prompt is accepted at most once: the press takes it.   *)
THEOREM ConfirmedOnce == Spec => []OneConfirm
<1>1. IInv => OneConfirm
  <2> SUFFICES ASSUME IInv, NEW p \in Updates
               PROVE  Cardinality({u \in Updates : upd[u].nonce = p
                         /\ upd[u].used}) <= 1
    BY DEF OneConfirm
  <2> DEFINE Users == {u \in Updates : upd[u].nonce = p /\ upd[u].used}
  <2> SUFFICES Cardinality(Users) <= 1
    OBVIOUS
  <2> HIDE DEF Users
  <2>1. CASE Users = {}
    BY <2>1, FS_EmptySet
  <2>2. CASE Users # {}
    <3>1. PICK u \in Updates : u \in Users
      BY <2>2 DEF Users
    <3>2. Users = {u}
      BY <3>1 DEF IInv, OnceInv, Users
    <3>3. Cardinality({u}) = 1
      BY FS_Singleton
    <3> QED BY <3>2, <3>3
  <2> QED BY <2>1, <2>2
<1> QED BY <1>1, Invariance, PTL

(* When the bot polls, a session is reset for idleness at most once: after *)
(* the reset it is not active, and no later session has its id.            *)
THEOREM ResetOnce == ASSUME Sequential PROVE Spec => []OneReset
<1>1. IInv => OneReset
  BY DEF IInv, TypeOK, SessOK, ResetInv, OneReset
<1> QED BY <1>1, Invariance, PTL

(* When the bot polls, the rollback of a failed turn ends the session that *)
(* turn minted, with nothing in it: no other update can change the index   *)
(* between the mint and the end.                                           *)
THEOREM RollbackEndsItsOwn == ASSUME Sequential PROVE Spec => RollbackOwnEmpty
<1>1. IInv => \A u \in Updates : Ends(u, "rollback") =>
        upd[u].isNew /\ upd[u].target = upd[u].bound
                  /\ sess[upd[u].target].exchanges = 0
  BY DEF IInv, EndInv, EndOK, RollsBack, Ends, At
<1> QED BY <1>1, Invariance, PTL DEF RollbackOwnEmpty

(* A step of an update that neither waits for its flush nor removes the    *)
(* summary, and leaves the jobs, the setting and the summary alone.        *)
LEMMA ForgetsKept ==
    ASSUME FlushInv, KeptInv, TypeOK, NEW u \in Updates,
           upd[u].pc \notin {"flush", "remove", "removeAgain"}, upd'[u].pc # "flush",
           \A v \in Updates \ {u} : upd'[v] = upd[v],
           UNCHANGED <<work, flushOn, summary>>, faults' \in Nat, faults <= faults'
    PROVE  FlushInv' /\ KeptInv'
<1>1. FlushInv'
  BY DEF FlushInv, At
<1>2. \A v \in Updates : Outlived(v) => Outlived(v)'
  BY DEF Outlived
<1>3. \A v \in Updates : /\ At(v, "remove") => At(v, "remove")'
                         /\ At(v, "removeAgain") => At(v, "removeAgain")'
  BY DEF At
<1>4. faults \in Nat
  BY Constants DEF TypeOK, BoundsOK
<1> QED BY <1>1, <1>2, <1>3, <1>4 DEF KeptInv

(* A step of a job that moves its stage on, and nothing of an update.      *)
LEMMA JobForgets ==
    ASSUME Sequential, IInv, FlushInv, KeptInv, NEW j \in Jobs,
           NEW stage \in {"summarize", "save", "over"}, JobTo(j, stage),
           stage = "summarize" => j[2] = "idle" /\ work[j].stage = "enabled" /\ flushOn,
           stage = "save" => work[j].stage = "summarize",
           stage = "over" => work[j].stage \in {"enabled", "summarize", "save"},
           UNCHANGED <<upd, flushOn>>
    PROVE  /\ FlushInv'
           /\ \A u \in Updates : /\ work'[<<u, "idle">>].aborted = work[<<u, "idle">>].aborted
                                  /\ work'[<<u, "idle">>].of = work[<<u, "idle">>].of
<1>1. work \in [Jobs -> WorkRec]
  BY DEF IInv, TypeOK, WorkOK
<1>2. /\ work'[j].stage = stage /\ work'[j].aborted = work[j].aborted /\ work'[j].of = work[j].of
      /\ \A i \in Jobs \ {j} : work'[i] = work[i]
  BY <1>1 DEF JobTo, WorkRec
<1>3. FlushInv'
  BY <1>2, JobPlaces DEF FlushInv, At
<1>4. \A u \in Updates : work'[<<u, "idle">>].aborted = work[<<u, "idle">>].aborted
                         /\ work'[<<u, "idle">>].of = work[<<u, "idle">>].of
  BY <1>2, JobPlaces
<1> QED BY <1>3, <1>4

(* The job asks the setting before it summarizes.                          *)
LEMMA FlushEnabledForgets ==
    ASSUME Sequential, IInv, FlushInv, KeptInv, NEW u \in Updates, FlushEnabled(u)
    PROVE  FlushInv' /\ KeptInv'
<1> DEFINE j == <<u, "idle">>
<1>1. j \in Jobs /\ j[2] = "idle"
  BY JobPlaces
<1>2. PICK stage \in {"summarize", "over"} : JobTo(j, stage) /\ (stage = "summarize" => flushOn)
  BY DEF FlushEnabled
<1>3. work[j].stage = "enabled" /\ UNCHANGED <<upd, flushOn, summary, faults>>
  BY DEF FlushEnabled
<1> HIDE DEF j
<1>4. /\ FlushInv'
      /\ \A v \in Updates : /\ work'[<<v, "idle">>].aborted = work[<<v, "idle">>].aborted
                             /\ work'[<<v, "idle">>].of = work[<<v, "idle">>].of
  BY <1>1, <1>2, <1>3, JobForgets
<1> QED BY <1>3, <1>4 DEF KeptInv, Outlived, At

(* The model's answer moves the job on.                                    *)
LEMMA SummarizedForgets ==
    ASSUME Sequential, IInv, FlushInv, KeptInv, NEW j \in Jobs, Summarized(j)
    PROVE  FlushInv' /\ KeptInv'
<1>1. PICK stage \in {"save", "over"} : JobTo(j, stage)
  BY DEF Summarized
<1>2. work[j].stage = "summarize" /\ UNCHANGED <<upd, flushOn, summary, faults>>
  BY DEF Summarized
<1>3. /\ FlushInv'
      /\ \A v \in Updates : /\ work'[<<v, "idle">>].aborted = work[<<v, "idle">>].aborted
                             /\ work'[<<v, "idle">>].of = work[<<v, "idle">>].of
  BY <1>1, <1>2, JobForgets
<1> QED BY <1>2, <1>3 DEF KeptInv, Outlived, At

(* A save that is not an aborted job's finds the setting still on.         *)
LEMMA SummarySavedForgets ==
    ASSUME Sequential, IInv, FlushInv, KeptInv, NEW j \in Jobs, SummarySaved(j)
    PROVE  FlushInv' /\ KeptInv'
<1>1. /\ JobTo(j, "over") /\ work[j].stage = "save" /\ UNCHANGED <<upd, flushOn>>
      /\ \/ summary' = [of |-> work[j].of, by |-> j[2]] /\ faults' = faults
         \/ faults' = faults + 1 /\ summary' = summary
  BY DEF SummarySaved, Fault, NoFault
<1>2. /\ FlushInv'
      /\ \A u \in Updates : /\ work'[<<u, "idle">>].aborted = work[<<u, "idle">>].aborted
                             /\ work'[<<u, "idle">>].of = work[<<u, "idle">>].of
  BY <1>1, JobForgets
<1>3. CASE summary' = summary /\ faults' = faults + 1
  <2>1. faults \in Nat
    BY Constants DEF IInv, TypeOK, BoundsOK
  <2>2. \A u \in Updates : /\ Outlived(u) => Outlived(u)'
                           /\ At(u, "remove") => At(u, "remove")'
                           /\ At(u, "removeAgain") => At(u, "removeAgain")'
    BY <1>1, <1>2, <1>3 DEF Outlived, At
  <2>3. KeptInv'
    BY <1>1, <1>3, <2>1, <2>2 DEF KeptInv
  <2> QED BY <1>2, <2>3
<1>4. CASE summary' = [of |-> work[j].of, by |-> j[2]] /\ faults' = faults
  <2> SUFFICES ASSUME ~flushOn, j[2] = "idle"
               PROVE  \E u \in Updates : Outlived(u)'
    BY <1>1, <1>2, <1>4 DEF KeptInv
  <2>1. PICK u \in Updates : j = <<u, "idle">>
    BY DEF Jobs
  <2>2. work[<<u, "idle">>].aborted
    <3>1. work[<<u, "idle">>] \in WorkRec
      BY JobPlaces DEF IInv, TypeOK, WorkOK
    <3> QED BY <1>1, <2>1, <3>1 DEF FlushInv, WorkRec
  <2> QED BY <1>2, <1>4, <2>1, <2>2 DEF Outlived
<1> QED BY <1>1, <1>3, <1>4

(* After the end the job starts, and its update waits for it.              *)
LEMMA EndClearForgets ==
    ASSUME Sequential, IInv, FlushInv, KeptInv, NEW u \in Updates, EndClear(u)
    PROVE  FlushInv' /\ KeptInv'
<1> DEFINE j == <<u, "idle">>
<1>1. upd \in [Updates -> UpdRec] /\ work \in [Jobs -> WorkRec] /\ upd[u].pc = "endClear"
  BY DEF IInv, TypeOK, TalkOK, WorkOK, EndClear, At
<1>2. UNCHANGED <<flushOn, summary>> /\ faults \in Nat /\ faults' \in Nat /\ faults <= faults'
  BY Constants DEF IInv, TypeOK, BoundsOK, EndClear, Fault, NoFault
<1>3. \A v \in Updates \ {u} : upd'[v] = upd[v]
  BY <1>1 DEF EndClear, To
<1>4. \/ upd'[u].pc # "flush" /\ work' = work
      \/ upd'[u].pc = "flush" /\ work' = [work EXCEPT ![j].stage = "enabled"]
  <2>1. CASE upd[u].why = "hook" /\ NoFault
    BY <1>1, <2>1 DEF EndClear, To, AfterEnd, AfterNoEnd, UpdRec
  <2>2. CASE ~(upd[u].why = "hook" /\ NoFault)
    BY <1>1, <2>2 DEF EndClear, To, AfterEnd, AfterNoEnd, UpdRec
  <2> QED BY <2>1, <2>2
<1>5. CASE upd'[u].pc # "flush" /\ work' = work
  BY <1>1, <1>2, <1>3, <1>5, ForgetsKept DEF IInv
<1>6. CASE upd'[u].pc = "flush" /\ work' = [work EXCEPT ![j].stage = "enabled"]
  <2>1. /\ work'[j].stage = "enabled" /\ work'[j].aborted = work[j].aborted
        /\ work'[j].of = work[j].of /\ \A i \in Jobs \ {j} : work'[i] = work[i]
    BY <1>1, <1>6, JobPlaces DEF WorkRec
  <2>2. FlushInv'
    <3>1. \A v \in Updates \ {u} : work'[<<v, "idle">>] = work[<<v, "idle">>]
      BY <2>1, JobPlaces
    <3>2. work'[<<u, "idle">>].stage = "enabled"
      BY <2>1
    <3> HIDE DEF j
    <3> QED BY <1>2, <1>3, <1>6, <3>1, <3>2 DEF FlushInv, At
  <2>3. \A v \in Updates : Outlived(v)' = Outlived(v)
    BY <1>2, <2>1, JobPlaces DEF Outlived
  <2>4. \A v \in Updates : /\ At(v, "remove") => At(v, "remove")'
                           /\ At(v, "removeAgain") => At(v, "removeAgain")'
    BY <1>1, <1>3 DEF At
  <2> QED BY <1>2, <2>2, <2>3, <2>4 DEF KeptInv
<1> QED BY <1>4, <1>5, <1>6

(* A timer that fires leaves an aborted job, a job that is over leaves     *)
(* none.                                                                   *)
LEMMA FlushRaceForgets ==
    ASSUME Sequential, IInv, FlushInv, KeptInv, NEW u \in Updates,
           FlushSettles(u) \/ FlushTimeout(u)
    PROVE  FlushInv' /\ KeptInv'
<1>1. PICK pc \in {"flush", "flushWait"}, by \in {"idle", "command"},
           next \in {"notice", "done"} :
        FlushRace(u, pc, <<u, by>>, next) /\ (by = "idle" <=> pc = "flush")
  BY DEF FlushSettles, FlushTimeout
<1> DEFINE j == <<u, by>>
<1>2. upd \in [Updates -> UpdRec] /\ work \in [Jobs -> WorkRec] /\ j \in Jobs
  BY JobPlaces DEF IInv, TypeOK, TalkOK, WorkOK
<1>3. /\ upd[u].pc = pc /\ upd'[u].pc = next /\ \A v \in Updates \ {u} : upd'[v] = upd[v]
      /\ UNCHANGED <<flushOn, summary, faults>>
  BY <1>1, <1>2 DEF FlushRace, At, To, UpdRec
<1>4. /\ work'[j].stage = work[j].stage /\ work'[j].of = work[j].of
      /\ work'[j].aborted = IF work[j].stage = "over" THEN work[j].aborted ELSE TRUE
      /\ \A i \in Jobs \ {j} : work'[i] = work[i]
  BY <1>1, <1>2 DEF FlushRace, WorkRec
<1>5. \A v \in Updates : work[<<v, "idle">>] \in WorkRec
  BY <1>2, JobPlaces
<1>6. FlushInv'
  <2>1. ASSUME NEW v \in Updates, v # u \/ by # "idle"
        PROVE  work'[<<v, "idle">>] = work[<<v, "idle">>]
    BY <1>4, <2>1, JobPlaces
  <2>2. CASE by = "idle"
    <3>1. pc = "flush" /\ work[j].stage # "none" /\ next # "flush"
      BY <1>1, <1>3, <2>2 DEF FlushInv, At
    <3>2. /\ work'[<<u, "idle">>].stage = work[<<u, "idle">>].stage
          /\ work'[<<u, "idle">>].stage # "none"
          /\ work'[<<u, "idle">>].aborted \/ work'[<<u, "idle">>].stage = "over"
      BY <1>4, <2>2, <3>1
    <3> HIDE DEF j
    <3> QED BY <1>3, <2>1, <3>2 DEF FlushInv, At
  <2>3. CASE by = "command"
    BY <1>1, <1>3, <2>1, <2>3 DEF FlushInv, At
  <2> QED BY <2>2, <2>3
<1>7. \A v \in Updates : Outlived(v) => Outlived(v)'
  BY <1>3, <1>4, JobPlaces DEF Outlived
<1>8. \A v \in Updates : /\ At(v, "remove") => At(v, "remove")'
                         /\ At(v, "removeAgain") => At(v, "removeAgain")'
  BY <1>1, <1>3 DEF At
<1> QED BY <1>3, <1>6, <1>7, <1>8 DEF KeptInv

(* The hook notes the session of its job before the job has begun, and     *)
(* /flushmemory has a job of its own.                                      *)
LEMMA ReadForgets ==
    ASSUME Sequential, IInv, FlushInv, KeptInv, NEW u \in Updates,
           HookRead(u) \/ FlushRead(u)
    PROVE  FlushInv' /\ KeptInv'
<1>1. upd \in [Updates -> UpdRec] /\ work \in [Jobs -> WorkRec]
  BY DEF IInv, TypeOK, TalkOK, WorkOK
<1>2. UNCHANGED <<flushOn, summary, faults>> /\ upd[u].pc \in {"read", "flushRead"}
  BY DEF HookRead, FlushRead, At
<1>3. upd'[u].pc # "flush" /\ \A v \in Updates \ {u} : upd'[v] = upd[v]
  BY <1>1 DEF HookRead, FlushRead, To, UpdRec
<1>4. /\ \A v \in Updates : work'[<<v, "idle">>].stage = work[<<v, "idle">>].stage
                            /\ work'[<<v, "idle">>].aborted = work[<<v, "idle">>].aborted
      /\ \A v \in Updates : work[<<v, "idle">>].stage # "none" =>
                            work'[<<v, "idle">>].of = work[<<v, "idle">>].of
  <2>1. CASE HookRead(u)
    <3>1. work[<<u, "idle">>].stage = "none"
      BY <2>1 DEF IInv, HookInv, HookRead, At
    <3> QED BY <1>1, <2>1, <3>1, JobPlaces DEF HookRead, WorkRec
  <2>2. CASE FlushRead(u)
    BY <1>1, <2>2, JobPlaces DEF FlushRead
  <2> QED BY <2>1, <2>2
<1>5. FlushInv'
  BY <1>2, <1>3, <1>4 DEF FlushInv, At
<1>6. \A v \in Updates : Outlived(v) => Outlived(v)'
  BY <1>2, <1>4 DEF Outlived, FlushInv
<1>7. \A v \in Updates : /\ At(v, "remove") => At(v, "remove")'
                         /\ At(v, "removeAgain") => At(v, "removeAgain")'
  BY <1>2, <1>3 DEF At
<1> QED BY <1>2, <1>5, <1>6, <1>7 DEF KeptInv

(* Who turns the summaries off goes on to remove the one there is; no idle *)
(* reset is under way besides, but those aborted before.                   *)
LEMMA AnswersForgets ==
    ASSUME Sequential, IInv, FlushInv, KeptInv, NEW u \in Updates, Answers(u)
    PROVE  FlushInv' /\ KeptInv'
<1>1. upd \in [Updates -> UpdRec] /\ upd[u].pc = "llm" /\ UNCHANGED <<work, summary, faults>>
  BY DEF IInv, TypeOK, TalkOK, Answers, At
<1>2. \A v \in Updates \ {u} : upd'[v] = upd[v]
  BY <1>1 DEF Answers, To
<1>3. \/ upd'[u].pc = "send" /\ flushOn' = flushOn
      \/ upd'[u].pc = "send" /\ flushOn'
      \/ upd'[u].pc = "remove"
      \/ upd'[u].pc = "removeAgain" /\ ~flushOn
  BY <1>1 DEF Answers, To, UpdRec
<1>4. \A v \in Updates : ~At(v, "flush")
  BY <1>1 DEF IInv, AloneInv, Busy, PCs, At
<1>5. FlushInv'
  BY <1>1, <1>2, <1>3, <1>4 DEF FlushInv, At
<1>6. \A v \in Updates : /\ Outlived(v) => Outlived(v)'
                         /\ At(v, "remove") => At(v, "remove")'
                         /\ At(v, "removeAgain") => At(v, "removeAgain")'
  BY <1>1, <1>2 DEF Outlived, At
<1>7. CASE upd'[u].pc = "remove"
  BY <1>5, <1>7 DEF KeptInv, At
<1>8. CASE flushOn' = flushOn \/ flushOn' \/ ~flushOn
  BY <1>1, <1>5, <1>6, <1>8 DEF KeptInv
<1> QED BY <1>3, <1>7, <1>8

(* It takes two failures to keep anything.                                 *)
LEMMA RemovalForgets ==
    ASSUME Sequential, IInv, FlushInv, KeptInv, NEW u \in Updates,
           RemoveSummary(u) \/ RemoveAgain(u)
    PROVE  FlushInv' /\ KeptInv'
<1>1. PICK pc, next \in {"remove", "removeAgain", "send"} :
        /\ Removal(u, pc, next)
        /\ \/ pc = "remove" /\ next = "removeAgain"
           \/ pc = "removeAgain" /\ next = "send"
  BY DEF RemoveSummary, RemoveAgain
<1>2. upd \in [Updates -> UpdRec] /\ upd[u].pc = pc /\ UNCHANGED <<work, flushOn>>
  BY <1>1 DEF IInv, TypeOK, TalkOK, Removal, At
<1>3. upd'[u].pc = next /\ \A v \in Updates \ {u} : upd'[v] = upd[v]
  BY <1>1, <1>2 DEF Removal, To, UpdRec
<1>4. FlushInv'
  BY <1>1, <1>2, <1>3 DEF FlushInv, At
<1>5. faults \in Nat
  BY Constants DEF IInv, TypeOK, BoundsOK
<1>6. CASE summary' = None
  BY <1>4, <1>6 DEF KeptInv
<1>7. CASE faults' = faults + 1 /\ summary' = summary
  <2>1. \A v \in Updates : Outlived(v) => Outlived(v)'
    BY <1>2, <1>7 DEF Outlived
  <2>2. \A v \in Updates : At(v, "remove") \/ At(v, "removeAgain") => v = u
    BY <1>1, <1>2 DEF IInv, AloneInv, Busy, PCs, At
  <2>3. CASE pc = "remove"
    BY <1>1, <1>2, <1>3, <1>4, <1>5, <1>7, <2>1, <2>3 DEF KeptInv, At
  <2>4. CASE pc = "removeAgain"
    BY <1>1, <1>2, <1>3, <1>4, <1>5, <1>7, <2>1, <2>2, <2>4 DEF KeptInv, At
  <2> QED BY <1>1, <2>3, <2>4
<1> QED BY <1>1, <1>6, <1>7 DEF Removal, Fault, NoFault

(* The steps of an update that have to do with no flush.                   *)
QuietStep(u) ==
    \/ Receive(u) \/ PressButton(u) \/ HookPeek(u) \/ EndCheck(u) \/ EndWrite(u) \/ Notice(u)
    \/ RouteCommand(u) \/ RoutePhoto(u) \/ RouteText(u) \/ SendButtons(u) \/ FlushPeek(u)
    \/ EnsureSession(u) \/ NoAnswer(u) \/ SendReply(u) \/ AppendTo(u) \/ AppendInto(u)

(* They forget nothing and bring nothing back.                             *)
LEMMA QuietForgets ==
    ASSUME IInv, FlushInv, KeptInv, NEW u \in Updates, QuietStep(u)
    PROVE  FlushInv' /\ KeptInv'
<1>1. upd \in [Updates -> UpdRec] /\ faults \in Nat /\ TypeOK
  BY Constants DEF IInv, TypeOK, TalkOK, BoundsOK
<1>2. UNCHANGED <<work, flushOn, summary>> /\ upd[u].pc \notin {"flush", "remove", "removeAgain"}
  BY DEF QuietStep, Receive, PressButton, HookPeek, EndCheck, EndWrite, Notice, RouteCommand,
     RoutePhoto, RouteText, SendButtons, FlushPeek, EnsureSession, NoAnswer, SendReply,
     AppendTo, AppendInto, At
<1>3. faults' \in Nat /\ faults <= faults'
  <2>1. CASE EndWrite(u) \/ SendButtons(u) \/ EnsureSession(u)
    BY <1>1, <2>1 DEF EndWrite, SendButtons, EnsureSession, Fault, NoFault
  <2>2. CASE SendReply(u) \/ AppendInto(u)
    BY <1>1, <2>2 DEF SendReply, AppendInto, Fault, NoFault
  <2>3. CASE UNCHANGED faults
    BY <1>1, <2>3
  <2> QED BY <2>1, <2>2, <2>3 DEF QuietStep, Receive, PressButton, HookPeek, EndCheck, Notice,
        RouteCommand, RoutePhoto, RouteText, FlushPeek, NoAnswer, AppendTo
<1>4. \A v \in Updates \ {u} : upd'[v] = upd[v]
  BY <1>1 DEF QuietStep, Receive, PressButton, HookPeek, EndCheck, EndWrite, Notice,
     RouteCommand, RoutePhoto, RouteText, SendButtons, FlushPeek, EnsureSession, NoAnswer,
     SendReply, AppendTo, AppendInto, To, ToEnd
<1>5. upd'[u].pc # "flush"
  <2>1. CASE Receive(u)
    BY <1>1, <2>1 DEF Receive, To, ToEnd, AfterNoEnd, UpdRec
  <2>2. CASE PressButton(u)
    <3>1. PICK k \in AllKinds, p \in Updates :
             \/ upd' = [upd EXCEPT ![u] = [@ EXCEPT !.kind = k, !.nonce = p, !.pc = "done"]]
             \/ upd' = [upd EXCEPT ![u] = [@ EXCEPT !.kind = k, !.nonce = p, !.used = TRUE,
                              !.pc = "endCheck", !.why = "newchat"]]
             \/ upd' = [upd EXCEPT ![u] = [@ EXCEPT !.kind = k, !.nonce = p, !.used = TRUE,
                              !.pc = "done", !.why = "hook"]]
      BY <2>2, FlowAssumption DEF PressButton
    <3>2. CASE upd' = [upd EXCEPT ![u] = [@ EXCEPT !.kind = k, !.nonce = p, !.pc = "done"]]
      BY <1>1, <3>2 DEF UpdRec
    <3>3. CASE upd' = [upd EXCEPT ![u] = [@ EXCEPT !.kind = k, !.nonce = p, !.used = TRUE,
                           !.pc = "endCheck", !.why = "newchat"]]
      BY <1>1, <3>3 DEF UpdRec
    <3>4. CASE upd' = [upd EXCEPT ![u] = [@ EXCEPT !.kind = k, !.nonce = p, !.used = TRUE,
                           !.pc = "done", !.why = "hook"]]
      BY <1>1, <3>4 DEF UpdRec
    <3> QED BY <3>1, <3>2, <3>3, <3>4
  <2>3. CASE HookPeek(u)
    BY <1>1, <2>3 DEF HookPeek, To, ToEnd, AfterNoEnd, UpdRec
  <2>4. CASE EndCheck(u)
    BY <1>1, <2>4 DEF EndCheck, To, ToEnd, AfterNoEnd, UpdRec
  <2>5. CASE EndWrite(u)
    BY <1>1, <2>5 DEF EndWrite, To, ToEnd, AfterNoEnd, UpdRec
  <2>6. CASE Notice(u)
    BY <1>1, <2>6 DEF Notice, To, ToEnd, AfterNoEnd, UpdRec
  <2>7. CASE RouteCommand(u)
    BY <1>1, <2>7 DEF RouteCommand, To, ToEnd, AfterNoEnd, UpdRec
  <2>8. CASE RoutePhoto(u)
    BY <1>1, <2>8 DEF RoutePhoto, To, ToEnd, AfterNoEnd, UpdRec
  <2>9. CASE RouteText(u)
    BY <1>1, <2>9 DEF RouteText, To, ToEnd, AfterNoEnd, UpdRec
  <2>10. CASE SendButtons(u)
    BY <1>1, <2>10 DEF SendButtons, To, ToEnd, AfterNoEnd, UpdRec
  <2>11. CASE FlushPeek(u)
    BY <1>1, <2>11 DEF FlushPeek, To, ToEnd, AfterNoEnd, UpdRec
  <2>12. CASE EnsureSession(u)
    BY <1>1, <2>12 DEF EnsureSession, To, ToEnd, AfterNoEnd, UpdRec
  <2>13. CASE NoAnswer(u)
    <3>1. ToEnd(u, "rollback") \/ To(u, "done")
      BY <2>13 DEF NoAnswer
    <3> QED BY <1>1, <3>1 DEF To, ToEnd, UpdRec
  <2>14. CASE SendReply(u)
    BY <1>1, <2>14 DEF SendReply, To, ToEnd, AfterNoEnd, UpdRec
  <2>15. CASE AppendTo(u)
    BY <1>1, <2>15 DEF AppendTo, To, ToEnd, AfterNoEnd, UpdRec
  <2>16. CASE AppendInto(u)
    BY <1>1, <2>16 DEF AppendInto, To, ToEnd, AfterNoEnd, UpdRec
  <2> QED BY <2>1, <2>2, <2>3, <2>4, <2>5, <2>6, <2>7, <2>8,
         <2>9, <2>10, <2>11, <2>12, <2>13, <2>14, <2>15, <2>16 DEF QuietStep
<1> QED BY <1>1, <1>2, <1>3, <1>4, <1>5, ForgetsKept

(* No step brings back the summary of an idle reset.                       *)
LEMMA NextForgets ==
    ASSUME Sequential, IInv, FlushInv, KeptInv, [Next]_vars
    PROVE  FlushInv' /\ KeptInv'
<1>1. ASSUME NEW u \in Updates, Receive(u) \/ PressButton(u) \/ Step(u)
      PROVE  FlushInv' /\ KeptInv'
  <2>1. CASE QuietStep(u)
    BY <2>1, QuietForgets
  <2>2. CASE Answers(u)
    BY <2>2, AnswersForgets
  <2>3. CASE \/ HookRead(u) \/ FlushRead(u) \/ EndClear(u) \/ FlushEnabled(u)
             \/ FlushSettles(u) \/ FlushTimeout(u) \/ RemoveSummary(u) \/ RemoveAgain(u)
    BY <2>3, ReadForgets, EndClearForgets, FlushEnabledForgets, FlushRaceForgets,
       RemovalForgets
  <2> QED BY <1>1, <2>1, <2>2, <2>3 DEF Step, QuietStep, MessageAnswered, MessageFailed,
        AskAnswered, AskFailed
<1>2. ASSUME NEW j \in Jobs, Summarized(j) \/ SummarySaved(j)
      PROVE  FlushInv' /\ KeptInv'
  BY <1>2, SummarizedForgets, SummarySavedForgets
<1>3. CASE Tick \/ UNCHANGED vars
  BY <1>3 DEF Tick, vars, FlushInv, KeptInv, Outlived, At
<1> QED BY <1>1, <1>2, <1>3 DEF Next

(* When the bot polls: once the user has turned the summaries off and the  *)
(* removals are through, what is kept of an idle reset is at most the late *)
(* save of a flush its timer had aborted, unless both removals failed.     *)
THEOREM OffForgotten == ASSUME Sequential PROVE Spec => []OffForgets
<1>1. Init => FlushInv /\ KeptInv
  <2> SUFFICES ASSUME Init PROVE FlushInv /\ KeptInv
    OBVIOUS
  <2>1. \A u \in Updates : /\ ~work[<<u, "idle">>].aborted /\ ~At(u, "flush")
                           /\ work[<<u, "idle">>].stage = "none"
    BY JobPlaces DEF Init, NoWork, Waiting, At
  <2>2. summary = None
    BY DEF Init
  <2> QED BY <2>1, <2>2 DEF FlushInv, KeptInv
<1>2. IInv /\ FlushInv /\ KeptInv /\ [Next]_vars => FlushInv' /\ KeptInv'
  BY NextForgets
<1>3. KeptInv => OffForgets
  BY DEF KeptInv, OffForgets
<1> QED BY <1>1, <1>2, <1>3, Invariance, PTL DEF Spec

=============================================================================
