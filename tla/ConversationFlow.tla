-------------------------- MODULE ConversationFlow --------------------------
(***************************************************************************)
(* One user's conversation as the router and the conversation service run  *)
(* it: the idle-reset hook, the /newchat command and its natural-language  *)
(* form with the confirmation buttons, a text or /ask turn, /flushmemory,  *)
(* a photo turn, and the memory flush that may outlive the turn it belongs *)
(* to.  Each update is an actor; between two of its steps (an await) any   *)
(* other update may run, unless the bot polls, when updates go one by one. *)
(*                                                                         *)
(* The session store is used through its operations, one step per lock     *)
(* section; ChatSessionStore models those operations themselves.           *)
(***************************************************************************)
EXTENDS Naturals, FiniteSets

CONSTANTS
    Updates,      \* the updates Telegram delivers
    Kinds,        \* what they are, a subset of AllKinds
    IdleTicks,    \* auto_reset_idle_minutes, in ticks of the clock
    PromptTicks,  \* how long a confirmation prompt lives, in ticks
    MaxClock,     \* bound: the clock stops here
    MaxFaults,    \* bound: writes and sends that fail
    Sequential,   \* TRUE when the bot polls: one update at a time
    None          \* no session, no prompt, no summary

AllKinds == {"text", "ask", "newchat", "flushmemory", "photo", "yes", "no"}

ASSUME FlowAssumption ==
    /\ Kinds \subseteq AllKinds
    /\ IdleTicks \in Nat \ {0} /\ PromptTicks \in Nat
    /\ MaxClock \in Nat /\ MaxFaults \in Nat
    /\ Sequential \in BOOLEAN
    /\ IsFiniteSet(Updates)
    /\ None \notin Nat \cup Updates
    /\ None \notin [by : Updates, until : Nat] \cup [of : Nat, by : {"idle", "command"}]

\* Every update mints at most one session, and one is open at the start.
Sessions == 0 .. Cardinality(Updates)

VARIABLES
    clock,
    active,     \* the session the index names
    sess,       \* the transcripts
    flushOn,    \* the user's flush_memory_on_idle_reset
    summary,    \* the entry recent-session-summary of the context store
    prompt,     \* the pending confirmation of a new chat
    upd,        \* where each update is
    work,       \* the summarize-and-save jobs
    resets,     \* history: idle resets that went through, per session
    faults

vars == <<clock, active, sess, flushOn, summary, prompt, upd, work, resets, faults>>

PCs == {"idle", "peek", "read", "endCheck", "endWrite", "endClear", "flush",
        "notice", "route", "buttons", "flushPeek", "flushRead", "flushWait", "ensure", "llm",
        "remove", "removeAgain", "send", "append", "into", "done"}

\* The summarize-and-save of the idle reset and of /flushmemory are two jobs.
Jobs == Updates \X {"idle", "command"}

Unused == [stage |-> "unused", exchanges |-> 0, touched |-> 0, endedAt |-> 0, parent |-> None]
Fresh(parent) == [Unused EXCEPT !.stage = "open", !.touched = clock, !.parent = parent]
Waiting == [pc |-> "idle", kind |-> "text", seen |-> None, reset |-> None, bound |-> None,
            isNew |-> FALSE, why |-> "hook", target |-> None, asked |-> FALSE,
            nonce |-> None, used |-> FALSE]
NoWork == [stage |-> "none", of |-> None, aborted |-> FALSE]

Init ==
    /\ clock = 0
    /\ active = 0
    /\ sess = [s \in Sessions |-> IF s = 0 THEN [Unused EXCEPT !.stage = "open", !.exchanges = 1]
                                           ELSE Unused]
    /\ flushOn \in BOOLEAN
    /\ summary = None
    /\ prompt = None
    /\ upd = [u \in Updates |-> Waiting]
    /\ work = [j \in Jobs |-> NoWork]
    /\ resets = [s \in Sessions |-> 0]
    /\ faults = 0

Busy == PCs \ {"idle", "done"}

SessRec == [stage : {"unused", "open", "ended"}, exchanges : Nat, touched : Nat,
            endedAt : Nat, parent : Sessions \cup {None}]
UpdRec == [pc : PCs, kind : AllKinds, seen : Sessions \cup {None},
           reset : Sessions \cup {None}, bound : Sessions \cup {None}, isNew : BOOLEAN,
           why : {"hook", "newchat", "rollback"}, target : Sessions \cup {None},
           asked : BOOLEAN, nonce : Updates \cup {None}, used : BOOLEAN]
WorkRec == [stage : {"none", "enabled", "summarize", "save", "over"},
            of : Sessions \cup {None}, aborted : BOOLEAN]
Prompts == [by : Updates, until : Nat]
Summaries == [of : Sessions, by : {"idle", "command"}]

SessOK == /\ active \in Sessions \cup {None}
          /\ sess \in [Sessions -> SessRec]
          /\ resets \in [Sessions -> Nat]
TalkOK == /\ upd \in [Updates -> UpdRec]
          /\ prompt \in Prompts \cup {None}
WorkOK == /\ work \in [Jobs -> WorkRec]
          /\ \A j \in Jobs : work[j].stage \in {"summarize", "save"} => work[j].of # None
          /\ summary \in Summaries \cup {None}
BoundsOK == clock \in 0 .. MaxClock /\ faults \in 0 .. MaxFaults /\ flushOn \in BOOLEAN

(* Sessions, updates, prompts and jobs keep their shape.                   *)
TypeOK == SessOK /\ TalkOK /\ WorkOK /\ BoundsOK

-----------------------------------------------------------------------------
(* Helpers                                                                 *)

At(u, pc) == upd[u].pc = pc
To(u, pc) == upd' = [upd EXCEPT ![u].pc = pc]
Fault == faults < MaxFaults /\ faults' = faults + 1
NoFault == UNCHANGED faults

\* The prompt of a user counts while its time is not over.
Pending == prompt # None /\ prompt.until > clock

\* isIdle: strictly longer than the threshold.
IdleTooLong(s) == clock - sess[s].touched > IdleTicks

\* The ids are random; the next unused one stands for all of them.
NextId == Cardinality({s \in Sessions : sess[s].stage # "unused"})

\* Whether the update may start: the webhook starts them at once, polling
\* waits until the one before is through.
MayStart == Sequential => \A v \in Updates : upd[v].pc \in {"idle", "done"}

-----------------------------------------------------------------------------
(* An update arrives                                                       *)

\* routeMessage and routePhoto start with the idle-reset hook.
Receive(u) ==
    /\ At(u, "idle")
    /\ MayStart
    /\ \E k \in Kinds \ {"yes", "no"} :
         upd' = [upd EXCEPT ![u] = [@ EXCEPT !.pc = "peek", !.kind = k]]
    /\ UNCHANGED <<clock, active, sess, flushOn, summary, prompt, work, resets, faults>>

NotConsumed == prompt
Consumed == None

\* The prompt was shown, or it may be by now: its sending has begun.
OnScreen(p) == upd[p].asked \/ At(p, "buttons")

\* A button of a prompt on the screen, pressed at any time and any number of
\* times.  The nonce must be the pending one; the entry is taken with it.
PressButton(u) ==
    /\ At(u, "idle")
    /\ MayStart
    /\ \E k \in Kinds \cap {"yes", "no"}, p \in Updates :
         /\ OnScreen(p)
         /\ \/ /\ Pending /\ prompt.by = p
               /\ prompt' = Consumed
               /\ upd' = [upd EXCEPT ![u] = [@ EXCEPT !.kind = k, !.nonce = p, !.used = TRUE,
                                         !.pc = IF k = "yes" THEN "endCheck" ELSE "done",
                                         !.why = IF k = "yes" THEN "newchat" ELSE "hook"]]
            \/ /\ ~(Pending /\ prompt.by = p)
               /\ upd' = [upd EXCEPT ![u] = [@ EXCEPT !.kind = k, !.nonce = p, !.pc = "done"]]
               /\ UNCHANGED prompt
    /\ UNCHANGED <<clock, active, sess, flushOn, summary, work, resets, faults>>

-----------------------------------------------------------------------------
(* The idle-reset hook                                                     *)

HookPeek(u) ==
    /\ At(u, "peek")
    /\ upd' = [upd EXCEPT ![u] = [@ EXCEPT !.seen = active,
                              !.pc = IF active = None THEN "route" ELSE "read"]]
    /\ UNCHANGED <<clock, active, sess, flushOn, summary, prompt, work, resets, faults>>

\* A session with fewer than two turns has nothing to summarize.
TurnsOf(s) == IF sess[s].exchanges > 0 THEN s ELSE None

Protected == Pending

\* readSession, then the checks up to the call of endActive: nothing is awaited
\* between them.
HookRead(u) ==
    /\ At(u, "read")
    /\ To(u, IF IdleTooLong(upd[u].seen) /\ ~Protected THEN "endCheck" ELSE "route")
    /\ work' = [work EXCEPT ![<<u, "idle">>].of = TurnsOf(upd[u].seen)]
    /\ UNCHANGED <<clock, active, sess, flushOn, summary, prompt, resets, faults>>

-----------------------------------------------------------------------------
(* endActive, in its three sections, for the hook, /newchat and a rollback *)

\* Where an update goes when endActive returns an id, and when it returns null
\* or throws: the hook gives up the reset and the turn goes on.
AfterEnd(u) == IF upd[u].why = "hook" THEN "flush" ELSE "done"
AfterNoEnd(u) == IF upd[u].why = "hook" THEN "route" ELSE "done"

\* Section one: only the hook passes the session it expects.
EndCheck(u) ==
    /\ At(u, "endCheck")
    /\ LET stale == upd[u].why = "hook" /\ active # upd[u].seen IN
       upd' = [upd EXCEPT ![u] = [@ EXCEPT !.target = active,
                              !.pc = IF active = None \/ stale THEN AfterNoEnd(u) ELSE "endWrite"]]
    /\ UNCHANGED <<clock, active, sess, flushOn, summary, prompt, work, resets, faults>>

\* Section two: ended_at goes into the transcript.
EndWrite(u) ==
    /\ At(u, "endWrite")
    /\ \/ /\ sess' = [sess EXCEPT ![upd[u].target] = [@ EXCEPT !.stage = "ended",
                                      !.endedAt = clock]]
          /\ To(u, "endClear")
          /\ NoFault
       \/ /\ Fault
          /\ To(u, AfterNoEnd(u))
          /\ UNCHANGED sess
    /\ UNCHANGED <<clock, active, flushOn, summary, prompt, work, resets>>

KeptEntry == active
Dropped == None

\* Section three: the key is dropped from the index, whatever it names by now.
\* The hook then starts the flush it has eight seconds for.
EndClear(u) ==
    /\ At(u, "endClear")
    /\ \/ /\ active' = Dropped
          /\ upd' = [upd EXCEPT ![u] = [@ EXCEPT !.pc = AfterEnd(u),
                                    !.reset = IF upd[u].why = "hook" THEN upd[u].target ELSE None]]
          /\ IF upd[u].why = "hook"
             THEN /\ resets' = [resets EXCEPT ![upd[u].target] = @ + 1]
                  /\ work' = [work EXCEPT ![<<u, "idle">>].stage = "enabled"]
             ELSE UNCHANGED <<resets, work>>
          /\ NoFault
       \/ /\ Fault
          /\ To(u, AfterNoEnd(u))
          /\ UNCHANGED <<active, resets, work>>
    /\ UNCHANGED <<clock, sess, flushOn, summary, prompt>>

-----------------------------------------------------------------------------
(* Summarize and save, racing a timer                                      *)

JobTo(j, stage) == work' = [work EXCEPT ![j].stage = stage]

\* The idle reset asks the user's setting first; /flushmemory does not.
FlushEnabled(u) ==
    LET j == <<u, "idle">> IN
    /\ work[j].stage = "enabled"
    /\ JobTo(j, IF flushOn /\ work[j].of # None THEN "summarize" ELSE "over")
    /\ UNCHANGED <<clock, active, sess, flushOn, summary, prompt, upd, resets, faults>>

\* The model answers with a summary, with none, or not usably; an answer that
\* comes after the abort counts as none.
Summarized(j) ==
    /\ work[j].stage = "summarize"
    /\ \E next \in {"save", "over"} :
         /\ next = "save" => ~work[j].aborted
         /\ JobTo(j, next)
    /\ UNCHANGED <<clock, active, sess, flushOn, summary, prompt, upd, resets, faults>>

\* The save lands whether or not the timer has fired in the meantime.
SummarySaved(j) ==
    /\ work[j].stage = "save"
    /\ \/ summary' = [of |-> work[j].of, by |-> j[2]] /\ NoFault
       \/ Fault /\ UNCHANGED summary
    /\ JobTo(j, "over")
    /\ UNCHANGED <<clock, active, sess, flushOn, prompt, upd, resets>>

\* The race: the job is over, or the timer aborts it and the turn goes on.
FlushRace(u, pc, j, next) ==
    /\ At(u, pc)
    /\ To(u, next)
    /\ work' = [work EXCEPT ![j].aborted = IF work[j].stage = "over" THEN @ ELSE TRUE]
    /\ UNCHANGED <<clock, active, sess, flushOn, summary, prompt, resets, faults>>

FlushSettles(u) ==
    \/ work[u, "idle"].stage = "over" /\ FlushRace(u, "flush", <<u, "idle">>, "notice")
    \/ work[u, "command"].stage = "over" /\ FlushRace(u, "flushWait", <<u, "command">>, "done")

TimerNeverFires(u) == FALSE /\ UNCHANGED vars
FlushTimeout(u) ==
    \/ work[u, "idle"].stage # "over" /\ FlushRace(u, "flush", <<u, "idle">>, "notice")
    \/ work[u, "command"].stage # "over" /\ FlushRace(u, "flushWait", <<u, "command">>, "done")

\* "Previous conversation ended after ...": a failed send is only logged.
Notice(u) ==
    /\ At(u, "notice")
    /\ To(u, "route")
    /\ UNCHANGED <<clock, active, sess, flushOn, summary, prompt, work, resets, faults>>

-----------------------------------------------------------------------------
(* Routing                                                                 *)

ToEnd(u, why) == upd' = [upd EXCEPT ![u] = [@ EXCEPT !.pc = "endCheck", !.why = why]]

\* Commands go to their handlers; /newchat is dropped when the hook has just
\* reset the session.
RouteCommand(u) ==
    /\ At(u, "route")
    /\ upd[u].kind \in {"newchat", "ask", "flushmemory"}
    /\ CASE upd[u].kind = "newchat" ->
              IF upd[u].reset # None THEN To(u, "done") ELSE ToEnd(u, "newchat")
         [] upd[u].kind = "ask" -> To(u, "ensure")
         [] OTHER -> To(u, "flushPeek")
    /\ UNCHANGED <<clock, active, sess, flushOn, summary, prompt, work, resets, faults>>

\* A photo is bound to the session of this moment, before its handler runs.
RoutePhoto(u) ==
    /\ At(u, "route")
    /\ upd[u].kind = "photo"
    /\ upd' = [upd EXCEPT ![u] = [@ EXCEPT !.pc = "append", !.bound = active]]
    /\ UNCHANGED <<clock, active, sess, flushOn, summary, prompt, work, resets, faults>>

\* Free text: the session-control classifier says new chat (at once, or after
\* a confirmation); it is not asked when the hook has just reset the session.
\* Other text goes to an app, which leaves the conversation alone, or to the
\* conversation.
RouteText(u) ==
    /\ At(u, "route")
    /\ upd[u].kind = "text"
    /\ \/ /\ \E pc \in {"ensure", "done"} : To(u, pc)
          /\ UNCHANGED prompt
       \/ /\ upd[u].reset = None
          /\ ToEnd(u, "newchat")
          /\ UNCHANGED prompt
       \/ /\ upd[u].reset = None
          /\ To(u, "buttons")
          /\ prompt' = [by |-> u, until |-> clock + PromptTicks]
    /\ UNCHANGED <<clock, active, sess, flushOn, summary, work, resets, faults>>

\* The buttons are sent after the prompt is stored.  When that fails the user's
\* prompt is removed, whichever it is by then, and the text is routed on.
SendButtons(u) ==
    /\ At(u, "buttons")
    /\ \/ /\ upd' = [upd EXCEPT ![u] = [@ EXCEPT !.pc = "done", !.asked = TRUE]]
          /\ UNCHANGED prompt
          /\ NoFault
       \/ /\ Fault
          /\ prompt' = None
          /\ \E pc \in {"ensure", "done"} : To(u, pc)
    /\ UNCHANGED <<clock, active, sess, flushOn, summary, work, resets>>

\* /flushmemory reads the active session and its turns, then starts the job.
FlushPeek(u) ==
    /\ At(u, "flushPeek")
    /\ upd' = [upd EXCEPT ![u] = [@ EXCEPT !.seen = active,
                              !.pc = IF active = None THEN "done" ELSE "flushRead"]]
    /\ UNCHANGED <<clock, active, sess, flushOn, summary, prompt, work, resets, faults>>

FlushRead(u) ==
    /\ At(u, "flushRead")
    /\ LET s == TurnsOf(upd[u].seen) IN
       /\ To(u, IF s = None THEN "done" ELSE "flushWait")
       /\ IF s = None THEN UNCHANGED work
          ELSE work' = [work EXCEPT ![<<u, "command">>] =
                          [stage |-> "summarize", of |-> s, aborted |-> FALSE]]
    /\ UNCHANGED <<clock, active, sess, flushOn, summary, prompt, resets, faults>>

-----------------------------------------------------------------------------
(* A turn of the conversation                                              *)

\* ensureActiveSession: the session the index names, ended or not, or a new one.
\* When it fails the turn goes on without a session.
EnsureSession(u) ==
    /\ At(u, "ensure")
    /\ \/ /\ active # None
          /\ upd' = [upd EXCEPT ![u] = [@ EXCEPT !.pc = "llm", !.bound = active]]
          /\ UNCHANGED <<active, sess>>
          /\ NoFault
       \/ /\ active = None
          /\ active' = NextId
          /\ sess' = [sess EXCEPT ![NextId] = Fresh(upd[u].reset)]
          /\ upd' = [upd EXCEPT ![u] = [@ EXCEPT !.pc = "llm", !.bound = NextId,
                                    !.isNew = TRUE]]
          /\ NoFault
       \/ /\ Fault
          /\ To(u, "llm")
          /\ UNCHANGED <<active, sess>>
    /\ UNCHANGED <<clock, flushOn, summary, prompt, work, resets>>

\* The model's answer, with or without a tag that sets flush_memory_on_idle_reset;
\* a setting that cannot be written is skipped.  Off, the saved summary has to go:
\* the writer's hook removes it when the setting was on, the tag handler always.
Answers(u) ==
    /\ At(u, "llm")
    /\ \/ To(u, "send") /\ UNCHANGED flushOn
       \/ /\ flushOn' \in BOOLEAN
          /\ To(u, IF flushOn' THEN "send" ELSE IF flushOn THEN "remove" ELSE "removeAgain")
    /\ UNCHANGED <<clock, active, sess, summary, prompt, work, resets, faults>>

\* Mutation: the rollback ends the session whether or not it has exchanges.
RollbackAlways(u) ==
    /\ At(u, "llm")
    /\ ToEnd(u, "rollback")
    /\ UNCHANGED <<clock, active, sess, flushOn, summary, prompt, work, resets, faults>>
NoAnswer(u) ==
    /\ At(u, "llm")
    /\ IF upd[u].isNew THEN ToEnd(u, "rollback") ELSE To(u, "done")
    /\ UNCHANGED <<clock, active, sess, flushOn, summary, prompt, work, resets, faults>>

\* A message and /ask have the same course in code of their own.
MessageAnswered(u) == upd[u].kind = "text" /\ Answers(u)
MessageFailed(u) == upd[u].kind = "text" /\ NoAnswer(u)
AskAnswered(u) == upd[u].kind = "ask" /\ Answers(u)
AskFailed(u) == upd[u].kind = "ask" /\ NoAnswer(u)

\* Mutation: another entry is removed.
RemoveOther(u, pc, next) ==
    /\ At(u, pc)
    /\ To(u, next)
    /\ NoFault /\ UNCHANGED summary
    /\ UNCHANGED <<clock, active, sess, flushOn, prompt, work, resets>>

\* disableFlushAndCleanup: a removal that fails is only logged.
Removal(u, pc, next) ==
    /\ At(u, pc)
    /\ To(u, next)
    /\ \/ summary' = None /\ NoFault
       \/ Fault /\ UNCHANGED summary
    /\ UNCHANGED <<clock, active, sess, flushOn, prompt, work, resets>>

RemoveSummary(u) == Removal(u, "remove", "removeAgain")
RemoveAgain(u) == Removal(u, "removeAgain", "send")

\* The reply goes out first; when even the plain text is refused the turn is
\* not recorded.
SendReply(u) ==
    /\ At(u, "send")
    /\ \/ To(u, "append") /\ NoFault
       \/ Fault /\ To(u, "done")
    /\ UNCHANGED <<clock, active, sess, flushOn, summary, prompt, work, resets>>

\* appendExchange: a bound turn goes to its session; one without takes the
\* active session or mints one.
AppendTo(u) ==
    /\ At(u, "append")
    /\ IF upd[u].bound = None /\ active = None
       THEN /\ active' = NextId
            /\ sess' = [sess EXCEPT ![NextId] = Fresh(upd[u].reset)]
            /\ upd' = [upd EXCEPT ![u] = [@ EXCEPT !.pc = "into", !.target = NextId]]
       ELSE /\ upd' = [upd EXCEPT ![u] = [@ EXCEPT !.pc = "into",
                                      !.target = IF upd[u].bound = None THEN active ELSE upd[u].bound]]
            /\ UNCHANGED <<active, sess>>
    /\ UNCHANGED <<clock, flushOn, summary, prompt, work, resets, faults>>

\* Under the transcript lock: the turns are added, and the last activity moves
\* unless the session has ended meanwhile.
BumpedAlways(s) == [sess[s] EXCEPT !.exchanges = @ + 1, !.touched = clock]
Appended(s) == [sess[s] EXCEPT !.exchanges = @ + 1,
                               !.touched = IF sess[s].stage = "ended" THEN @ ELSE clock]
AppendInto(u) ==
    /\ At(u, "into")
    /\ \/ sess' = [sess EXCEPT ![upd[u].target] = Appended(upd[u].target)] /\ NoFault
       \/ Fault /\ UNCHANGED sess
    /\ To(u, "done")
    /\ UNCHANGED <<clock, active, flushOn, summary, prompt, work, resets>>

Tick ==
    /\ clock < MaxClock
    /\ clock' = clock + 1
    /\ UNCHANGED <<active, sess, flushOn, summary, prompt, upd, work, resets, faults>>

-----------------------------------------------------------------------------
Step(u) ==
    \/ HookPeek(u) \/ HookRead(u) \/ EndCheck(u) \/ EndWrite(u) \/ EndClear(u)
    \/ FlushEnabled(u) \/ FlushSettles(u) \/ FlushTimeout(u) \/ Notice(u)
    \/ RouteCommand(u) \/ RoutePhoto(u) \/ RouteText(u) \/ SendButtons(u)
    \/ FlushPeek(u) \/ FlushRead(u) \/ EnsureSession(u) \/ MessageAnswered(u) \/ MessageFailed(u)
    \/ AskAnswered(u) \/ AskFailed(u)
    \/ RemoveSummary(u) \/ RemoveAgain(u) \/ SendReply(u) \/ AppendTo(u) \/ AppendInto(u)

Next ==
    \/ Tick
    \/ \E u \in Updates : Receive(u) \/ PressButton(u) \/ Step(u)
    \/ \E j \in Jobs : Summarized(j) \/ SummarySaved(j)

\* Every await of an update returns and every timer fires; nothing makes an
\* update arrive, and the summarizer's model may never answer.
Spec == Init /\ [][Next]_vars /\ \A u \in Updates : WF_vars(Step(u))

-----------------------------------------------------------------------------
(* Properties                                                              *)

AtRest == /\ \A u \in Updates : upd[u].pc \in {"idle", "done"}
          /\ \A j \in Jobs : work[j].stage \in {"none", "over"}

\* ended_at never falls behind last_activity_at, although turns that were bound
\* before the end are appended after it.
EndedAfterActivity ==
    \A s \in Sessions : sess[s].stage = "ended" => sess[s].touched <= sess[s].endedAt

\* A prompt is accepted once, however often and however late its buttons are
\* pressed and whatever prompts came after it.
OneConfirm ==
    \A p \in Updates : Cardinality({u \in Updates : upd[u].nonce = p /\ upd[u].used}) <= 1

\* A session is reset for idleness once, with one notice and one summary.
OneReset == \A s \in Sessions : resets[s] <= 1

\* The write that ends a session, for the reason `why'.
Ends(u, why) == At(u, "endWrite") /\ upd[u].why = why /\ upd'[u].pc = "endClear"

\* The rollback of a failed turn ends the session this turn minted, and only
\* while nobody has said anything in it.
RollbackOwnEmpty ==
    [][\A u \in Updates : Ends(u, "rollback") =>
         upd[u].isNew /\ upd[u].target = upd[u].bound /\ sess[upd[u].target].exchanges = 0]_vars

\* The job of an idle reset that went on after its timer had aborted it, and
\* whose summary is the one that is kept.
Outlived(u) ==
    work[<<u, "idle">>].aborted /\ work[<<u, "idle">>].of = summary.of

\* "Turning the toggle OFF (chat OR GUI) MUST delete the existing" entry (urs.md,
\* REQ-CONV-FLUSH-011), here for the chat: once the two removals are through, no
\* summary of an idle reset is kept or still saved, whatever that reset was doing,
\* but by a flush whose answer came just before its timer, or if both failed.
OffForgets ==
    ~flushOn /\ summary # None /\ summary.by = "idle" =>
        \/ \E u \in Updates : At(u, "remove") \/ At(u, "removeAgain") \/ Outlived(u)
        \/ faults >= 2

\* Every update that arrives is finished, even when the summarizer hangs.
EveryUpdateEnds == \A u \in Updates : At(u, "peek") ~> At(u, "done")

-----------------------------------------------------------------------------
(* What the proofs need beyond that                                        *)

Used == {s \in Sessions : sess[s].stage # "unused"}

\* Who mints a session is one of these ever after, and was none before.
Spent == {u \in Updates : upd[u].isNew \/ upd[u].pc \in {"into", "done"}}

\* The sessions are minted in order, at most one by an update.
MintInv == /\ Used = 0 .. NextId - 1
           /\ NextId \in Nat /\ NextId <= 1 + Cardinality(Spent)

BeforeTurn == {"idle", "peek", "read", "flush", "notice", "route", "buttons", "ensure"}
Unminted(u) == \/ upd[u].pc \in BeforeTurn
               \/ upd[u].pc \in {"endCheck", "endWrite", "endClear"} /\ upd[u].why = "hook"

\* What an update works on exists; a turn has minted no session before it began.
BoundInv ==
    /\ active # None => active \in Used
    /\ \A u \in Updates : /\ upd[u].bound # None => upd[u].bound \in Used
                          /\ upd[u].isNew => upd[u].bound # None
                          /\ Unminted(u) => ~upd[u].isNew

\* So does what it is about to read, end or extend.
TargetInv ==
    \A u \in Updates :
        /\ upd[u].pc \in {"read", "flushRead"} => upd[u].seen # None
        /\ upd[u].pc \in {"endWrite", "endClear", "into"} => upd[u].target \in Used

\* The hook comes first, and its job after it.
HookInv ==
    \A u \in Updates : upd[u].pc \in {"idle", "peek", "read"} =>
        upd[u].why = "hook" /\ work[u, "idle"].stage = "none"

\* Activity is never in the future, and the end of a session is its last activity.
ActivityInv ==
    \A s \in Sessions : /\ sess[s].touched <= clock
                        /\ sess[s].stage = "ended" => sess[s].touched <= sess[s].endedAt

\* A prompt belongs to an update whose buttons are being sent or were sent.
ShownInv == /\ prompt # None => upd[prompt.by].pc \in {"buttons", "done"}
            /\ \A u \in Updates : upd[u].asked => upd[u].pc = "done"

\* Up to its routing an update has asked nothing.
Unasked(u) == \/ upd[u].pc \in {"idle", "peek", "read", "flush", "notice", "route"}
              \/ upd[u].pc \in {"endCheck", "endWrite", "endClear"} /\ upd[u].why = "hook"

\* A nonce that was used is of a prompt that was shown, and is not pending again.
NonceInv ==
    \A u \in Updates : upd[u].used =>
        /\ upd[u].pc # "idle" /\ upd[u].nonce \in Updates /\ ~Unasked(upd[u].nonce)
        /\ prompt # None => prompt.by # upd[u].nonce

\* Nobody else has used it.
OnceInv ==
    \A u, v \in Updates :
        upd[u].used /\ upd[v].used /\ upd[u].nonce = upd[v].nonce => u = v

\* Under polling one update is under way.
AloneInv == Sequential =>
    \A u, v \in Updates : upd[u].pc \in Busy /\ upd[v].pc \in Busy => u = v

\* A turn that may end, or is about to end, the session it minted.
RollsBack(u) == \/ upd[u].pc = "llm" /\ upd[u].isNew
                \/ upd[u].pc \in {"endCheck", "endWrite"} /\ upd[u].why = "rollback"

\* It ends the session the index names, and for a failed turn only a session of
\* its own with nothing in it.
EndOK(u) ==
    /\ upd[u].pc \in {"endWrite", "endClear"} => upd[u].target = active
    /\ RollsBack(u) => /\ upd[u].isNew /\ active = upd[u].bound /\ active # None
                       /\ sess[active].exchanges = 0
EndInv == Sequential => \A u \in Updates : EndOK(u)

\* Under polling a session that was reset is not, and will never be, active.
ResetInv == Sequential =>
    \A s \in Sessions : resets[s] > 0 => resets[s] = 1 /\ s \in Used /\ s # active

\* While the job of an idle reset runs its update waits for it, unless its timer
\* has aborted it; what it will save is wanted.
FlushInv == Sequential =>
    \A u \in Updates :
        LET job == work[<<u, "idle">>] IN
        /\ At(u, "flush") \/ job.aborted => job.stage # "none"
        /\ job.stage \in {"enabled", "summarize", "save"} /\ ~job.aborted => At(u, "flush")
        /\ job.stage \in {"summarize", "save"} /\ ~job.aborted => flushOn

\* What is kept all the same has failed to go once, or twice.
KeptInv ==
    ~flushOn /\ summary # None /\ summary.by = "idle" =>
        \/ \E u \in Updates : At(u, "remove") \/ Outlived(u)
        \/ faults >= 1 /\ \E u \in Updates : At(u, "removeAgain")
        \/ faults >= 2

IInv == /\ TypeOK /\ MintInv /\ BoundInv /\ TargetInv /\ HookInv /\ ActivityInv
        /\ ShownInv /\ NonceInv /\ OnceInv
        /\ AloneInv /\ EndInv /\ ResetInv
=============================================================================
