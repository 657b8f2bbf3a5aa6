# A TLA+ model of the personal automation system

The personal automation system (PAS) is one Node.js process that a household talks to over
Telegram.  A router hands each message to an app or to the conversation; services keep users,
sessions, schedules, costs, alerts and settings in YAML and Markdown files (one SQLite index for
search); LLM providers, Telegram and the file system are outside.  There is no second process and no
thread: every race in the system is between two async functions that interleave at their awaits, and
every crash leaves whatever files had been renamed into place by then.

This directory holds TLA+ modules of those interleavings, TLC configurations that check them on small
instances and TLAPS proofs that hold for every instance.  `tlc -config X.cfg M` checks a run and
`tlapm M.tla` a proof module; `PROJECT.json` lists runs, mutants, theorems, hazards and, for each
definition, the source lines it stands for.

 1. [Components](#1-components)
 2. [Conventions](#2-conventions)
 3. [The modules](#3-the-modules)
 4. [Runs, bounds and what they show](#4-runs-bounds-and-what-they-show)
 5. [Fairness](#5-fairness)
 6. [Proofs](#6-proofs)
 7. [What the models found](#7-what-the-models-found)
 8. [Not modelled, and the plan](#8-not-modelled-and-the-plan)

## 1. Components

Paths are under `src/`, services under `core/src/services/`.

| component | state | operations | hard behaviour | what makes it correct |
|---|---|---|---|---|
| chat session store (`conversation-session/`, `chat-transcript-index/`) | `active-sessions.yaml` (key to session), one transcript per session, SQLite rows | ensure, append, end, title, rebuild the memory snapshot, peek, read | per-user index lock and per-transcript locks taken separately or nested; ids that collide; a write may fail before or after it landed; hand-edited files | a ledger: nothing appended is lost, repeated or reordered, ended sessions stay ended; an index entry has a file; rows agree with transcripts |
| conversation turn and idle reset (`conversation/`) | the active session as an update sees it, the pending confirmation, the summary in the context store | idle hook, `/newchat` and its buttons, text, `/ask`, photo, `/flushmemory`, rollback of a failed turn | sessions are read before an await and used after it; a summary that outlives its timer; updates that overlap under the webhook | one reset per idle session, one acceptance per prompt, a rollback only of one's own empty session, the turn goes on when the summarizer hangs |
| users and invites (`user-manager/`, `invite/`, `household/`, `config/`) | invites.yaml, users in memory and in pas.yaml, the household map | create, claim, register, remove, change apps, start-up clean-up | three different locks over the same files, a list captured before it queues for the file, rollback after a failed write | names are unique, a code has one claimant, an administrator remains, the file follows memory |
| LLM admission (`llm/*guard*`, `household-llm-limiter`, `cost-tracker`) | rate windows, month's costs, reservations | admit, refuse, bill, release, expire, month roll-over, shutdown | concurrent calls share headroom; a reservation that expires under a running call; a month that turns meanwhile | a household's budget is not spent twice; caps without reservations overshoot by what is under way at most |
| LLM cost accounting (`llm/cost-tracker.ts`) | counts in memory, usage log, monthly cache | record, timer's write, roll-over, flush, start | unordered writes of one file, a start on a cache of any age | a start never bills twice; a flush leaves nothing behind |
| scheduler (`scheduler/`) | scheduled-jobs.yaml, a promise queue, failure counts, disabled-jobs.yaml | scheduleOnce, cancelOnce, check, cron, disable, re-enable, stop | handlers run inside the queue; the list is saved after they ran; the stop gives up after thirty seconds | a task is attempted once and not lost; a stop that did not time out leaves nothing running |
| file locks (`core/src/utils/async-lock.ts`, `file-mutex.ts`) | a map of promise chains | run, withFileLock, withMultiFileLock | the map entry is removed after the promise settled, when a newer caller may be in it | exclusion, no circle of waiters, no entry left behind |
| food stock (`apps/food/src/handlers/{leftover,freezer,perishable}-handler.ts`, stores) | pantry, leftovers, freezer and waste log of a household | add, use, freeze, thaw, toss, remove, spoiled, daily check | buttons of old lists pressed by several members, operations over two files, one lock inside another | an item is handled once, nothing vanishes, the waste log follows what was thrown away |
| food lists (`apps/food/src/services/grocery-store.ts`, `handlers/shopping-followup.ts`, `index.ts`) | the shared grocery list, the history of a day, each member's batch for the pantry, the follow-up timer | add, toggle, clear, offer the pantry, take or skip the batch, follow up, clear the rest | a clear writes two files; buttons carry positions; the batch is put aside after its buttons were sent | what was on the list is on it or in the history; nothing reaches the pantry twice; a button ticks what it names |
| meal plan, votes, cook sessions (`apps/food`) | the plan, sessions in memory | generate, vote, finalise | a plan loaded, kept over an LLM call and saved whole | no vote or meal is lost |
| router (`router/`) | pending verifications, per-user buffers | dispatch, classify, verify, buttons | an answer to an entry another message replaced | each message is handled once, by one route |
| settings, config (`settings/`, `config/`) | several YAML files, a pending confirmation | batch update, confirm | a batch that fails half way | all of a confirmed batch, or what it reports |
| data store and edits (`data-store/scoped-store.ts`, `edit/`, `conversation/handle-edit.ts`, `telegram/`, `utils/file.ts`) | user files, the edit log, one pending proposal per user, the buttons that wait for a press | read, write, append, archive, propose, show, confirm, cancel | some writers take the file's lock and some do not; several previews of one user on the screen; a press that waits for its own handler | an edit is applied to what was shown, once confirmed, unless replaced; what is told is true |
| data queries and indexes (`data-query/`, `file-index/`, `context-store/`) | index in memory | query, rebuild | an index that follows events | the index follows the files |
| alerts, reports (`alerts/`, `reports/`, `condition-evaluator/`, `daily-diff/`) | definitions, last-fired times | evaluate, fire, save | an alert that overlaps itself or is edited while it runs | a cooldown holds |
| app registry, toggles, installer, knowledge | loaded apps, toggles | install, enable, disable | mostly start-up code | toggles survive overlapping writes |
| HTTP API, webhooks, n8n, server, shutdown | API keys, in-flight requests | request, drain | a request that arrives during the drain | the drain waits for all it accepted |
| GUI (`core/src/gui`) | login sessions, regression runs | login, run, cancel | a run cancelled as it ends | one run at a time, a verdict per case |
| household, spaces | households.yaml, spaces | create, join, leave | queued writes | members of a space belong to its household |
| interaction context, titles, retrieval, prompts | small caches | record, read | caches that expire | titles only fill an empty title (modelled with the store) |
| LLM providers, model selection, retry | the selected model | complete, retry | time-outs | the selection saved is the one used |
| Telegram, audio, logger, metrics, backup, system info, credentials, vault, onboarding, event bus, outbound bridge | mostly none | I/O | failures | - |
| notes and echo apps, regression runner, scripts | files | append | - | - |

**How they interact.**  An update enters the router, which first awaits the idle-reset hook (it peeks
and reads the session, may end it and start the memory flush), then dispatches.  A conversation turn
ensures a session, loads its history, calls the model through a guard (rate windows, caps,
reservation), which bills the cost tracker, and appends the exchange to the session it was bound to.
Scheduled jobs call app handlers directly.  All of them serialise read-modify-write cycles of a file
through `withFileLock`; the scheduler and the sync of pas.yaml have queues of their own.  At a
shutdown the scheduler drains, the limiter is disposed of and the cost tracker flushes, in this order.

## 2. Conventions

* A **step** is the code between two points where somebody else can run: two awaits that matter for
  shared state.  Code without an await is one step, however long.
* A component's module has its state as VARIABLES, one action per step, and `Next`.  A lock is a
  variable that is free or held by a call; `FileLocks` models the lock itself, and its theorems
  (`QueueRefinement`: a key is free or one caller's; order of nested keys) justify that abstraction.
* Written files survive a crash, calls and memory do not.  A write is all or nothing (`atomicWrite`
  renames a complete file), but where the code can throw after the rename - the scoped store appends
  to its change log afterwards - a failing write either *landed* or was *lost*.
* Faults are counted, and `MaxFaults` bounds them; the other bounds are named in each module.
* Variables and operators marked *(history)* exist for properties and never appear in a guard.
  Operators marked *mutation* are what a plausible bug would put in place of the operator after them;
  nothing in `Next` uses them.  Each property was seen to fail under the mutation PROJECT.json lists
  with it.

## 3. The modules

### ChatSessionStore, ChatLedger
`ChatSessionStore` is one user's store: `index`, `file` (transcripts), `row` (SQLite), the two kinds
of locks, and calls with their local variables.  `Begin` accepts any operation with any id a caller
can know; each operation is then a chain of actions named after its awaits.  `ensure` and `append`
without an id share the minting path (`BeginMint`, up to three `MintCollision`, `MintFile`, `MintRow`,
`Publish`), which runs under the index lock and writes the skeleton before the index names it.
`endActive` is three sections - `EndCheck` under the index lock, `EndRead`/`EndWrite` under the
transcript's, `EndClear` under the index lock again - and `EndRow`.  `rebuildMemorySnapshot` compares
twice and takes both locks (`RebuildLockIndex`, `RebuildRead`, `RebuildWrite`).  `Corrupt` is a
transcript edited by hand, `Restart` the process dying.

`ChatLedger` is what callers may rely on: sessions are opened once, exchanges are only added, an ended
session stays ended.  It allows an exchange to be recorded in an ended session, because the code does.
`ImplementsLedger` maps transcripts to ledger states; the index, the rows and the locks are invisible.

### ConversationFlow
One user's updates from arrival to the end, each an actor with a program counter: the idle-reset hook
(`HookPeek`, `HookRead`, `EndCheck`/`EndWrite`/`EndClear` with an expected id, the flush and its
eight-second race, the notice), routing, the confirmation prompt of a new chat and its buttons, a turn
(`EnsureSession`, the model's answer or failure with the rollback, the reply, the append), photos bound
before their handler runs, `/flushmemory`, and the summarize-and-save jobs, which go on after their
timer fired.  An answer may turn `flush_memory_on_idle_reset` off; the saved summary is then removed by
the settings writer's hook (`RemoveSummary`) and again by the tag handler (`RemoveAgain`), and either
removal may fail.  Buttons may be pressed as soon as their sending has begun (`OnScreen`).  The store
appears as its lock sections.  `Sequential` tells polling (an update waits for the one before) from the
webhook (updates overlap).

### UserRegistry
Concurrent calls of createInvite, redeemInviteAndRegister, removeUser and updateUserApps over
invites.yaml, the users in memory, pas.yaml and the household map.  The model keeps the three
different locks apart - per code for a claim, path and display names for a create, display names for a
registration - because the code does: a claim and a create, or two claims of different codes, rewrite
the same file under different keys.  `syncQueue` is the queue of writes of pas.yaml; each entry is the
list captured when it was queued.

### LLMGuards
Admission is one step (the guards do not await), a call then runs, is billed and finishes in any order
with the others.  Time ticks: entries leave the rate windows, reservations expire, the month turns at
the first read or write after its end.  `uncovered` is a history of what calls cost beyond their
reservation, which is what the budget can be passed by.  `GuardInv`, the invariant of its proofs, stands
at the end of the module.

### UsageCosts
The same tracker from the disk's side: memory, the append-only log, the cache, its timer, the write of
the old month at a roll-over and the flush of the shutdown, none of which wait for each other; a start
takes the cache of this month, upgrades an old one, or counts the log.

### Scheduler
`queue` is OneOffManager's promise chain; its head is being performed.  A check loads the due tasks,
runs their handlers one by one inside the queue and saves the list without those attempted.  Cron runs
are outside the queue.  JobFailureNotifier counts failures, disables a job and saves that in its own
file.  `StopBegins`, `StopReturns` with or without a time-out, `Exit`, `Crash` and `Start` complete
the life of the process.

The invariant of its proofs (`HeadInv`, `LoopInv`, `OwedInv`, `StopInv`) stands at the end of the
module.

### FileLocks, KeyQueues
AsyncLock's chain of promises for each key and withMultiFileLock's nesting.  `tail` is the map, `prev`
the promise one is chained to, `settled` a caller whose promise has settled while its finally block is
still to run - the window in which a newer caller may already be in the map.

`KeyQueues` is what callers may rely on: a queue for each key, whose first caller alone may have the key; a
caller of several keys asks for the next one in the step in which it gets the one before.
`ImplementsQueues` maps a key's line to its queue and the callers that hold it to its users; promises and
the map are invisible.

### Edits
One data file.  A call of `/edit` finds and reads it (`ReadBefore`), has the model rewrite it
(`Generate`, which takes the one slot of its user in `pendingEdits`), sends the preview and, when that
has returned, registers its buttons (`Listen`): a press (`Tap`) may come before, and is then dropped if
it is handed over before (`DropPress`).  The call waits for a press (`Expire`, `TimeOut`), takes its
proposal out of the slot (`Confirm`, `ConfirmTooLate`, `ConfirmExpired`, `Cancel`) and applies it under
the file's lock (`Lock`, `Fresh` or `Stale`, `Write`, `Record`).  `OfferFails` and `Throws` are the
exceptions that `handleEdit` swallows.
Appends with front matter (`Stat`, then `Create` or `AddLine`) share that lock; an app's `read`,
`write`, plain `append` and `archive` do not take it.  The content of the file is the set of marks its
writers left, so that equal contents have equal hashes.  `Sequential` is long polling: grammY hands the
bot one update at a time and the handler of `/edit` awaits its press.  `unseen` and `late` are
histories: what a holder of the lock overwrote without having looked at it, and what was put without the
lock between such a look and its write.

### Groceries
The household's grocery list.  A call takes the grocery lock, loads the list and decides (`LoadAdd`,
`LoadToggle`, `LoadClear`, or `LoadNothing`), writes the day's history when it clears (`Archive`), and
saves (`Save`; `Without` is the list without what is taken off, in its order); outside the lock a clear
starts or stops the follow-up, sends the message with the
pantry buttons and puts the batch aside (`AfterClear`, `SetPending`; `AfterPrompt` does it the other way
round, as the code does).  `PressAll` takes the batch out and `ToPantry` writes it (`Stock`) after the
model has estimated it; `ToPantryFails` is a failure before the pantry's file was written or after it.
`Lapse` is the five minutes of a batch.  `TimerFires` is the follow-up, whose buttons clear what
remains.  A button of the list carries a position, and any position may be pressed at any time.

### Kitchen
The food app's pantry, leftovers, freezer and waste log.  A call takes the locks of its first section
in sorted order (`Acquire`), loads its list and decides (`Read`, `CheckRead`), and writes (`Save`); a
move goes on to the freezer under the same locks (`FreezerRead`, `FreezerSave`), a toss unlocks and
then appends to the waste log under that file's lock (`LogRead`, `LogSave`), the check appends first
with the unlocked variant because it holds the log already, and "the milk spoiled" logs first and
removes afterwards.  Buttons carry any place and name: those of old lists are still on the screens.

## 4. Runs, bounds and what they show

| run | module | instance | checked |
|---|---|---|---|
| `store_calls` | MCChatSessionStore | 2 calls, each one operation; 2 keys, 2 ids, 1 fault | rows agree with transcripts; no session under two keys; refinement of the ledger; a rebuild only writes the live session; an ended session leaves the index; every call returns |
| `flow_polling` | MCConversationFlow | 3 updates of any kind, one at a time, clock to 3, 1 fault | one reset per session, one acceptance per prompt, rollback of one's own empty session only, summaries turned off are forgotten but for a late save |
| `flow_webhook` | MCConversationFlow | 2 overlapping updates (text, /newchat, /flushmemory, yes), 1 fault | ended_at is not before the last activity; every update ends although the summarizer may hang |
| `registry_calls` | MCUserRegistry | 2 concurrent calls, again and again, 1 code, 2 users and the first, 2 names, 1 failed write | an administrator remains, file follows memory, one claimant, every call returns |
| `registry_double_claim` | MCUserRegistry | 2 codes, 3 names, no fault | *violated*: `OneClaimant` |
| `guards_caps` | MCLLMGuards | 2 calls, an app and a system caller, 1 household, months of 3 ticks | household budget, bounded overshoot and agreeing ledgers, reservations belong to running calls of this month |
| `costs` | UsageCosts | 2 months, 2 bills, 2 starts, 1 fault | never counts more than was billed, flush saves everything, costs reach the cache |
| `scheduler` | Scheduler | a one-off job and a cron job, 1 caller, queue of 2, 1 fault | no task lost, attempted once, a stop that did not time out has drained, due tasks are attempted |
| `locks` | FileLocks | 3 callers, 3 keys, any set of keys | the promise chains implement a queue for each key, with one user at a time; every call returns |
| `kitchen` | MCKitchen | 2 concurrent calls, again and again, 2 batches, 2 names, 1 fault (a failed write or a crash) | an item is handled once, stock kept, waste log true, no circle of waiting operations |
| `edits` | MCEdits | webhook; 2 calls of /edit, 1 or 2 users, 2 appends, 1 call of an app, 1 fault (a failed send, write or log entry, or a crash) | nothing overwritten unseen but what came without the lock, only confirmed proposals that nothing replaced are applied, answers and edit log are true, a press that came in time and found its buttons registered is answered |
| `groceries` | MCGroceries | 2 concurrent calls, again and again, 1 member, 2 names, 3 items, 1 fault (a failed write, send or model call, or a crash) | no item lost, none in the pantry twice or without a record, positions kept until something is cleared |

**Why these bounds.**  Every hazard of the models needs two actors that overlap, or one actor and a
fault; two calls give each pair of operations at each pair of awaits, and calls of the registry, the
guards, the locks and the kitchen begin again without end, so a run sees sequences of any length. In the
session store each call is one operation, and an instance starts either empty or with a session active,
which an earlier operation would have left. Two ids let an id collide across keys and be exhausted. One
fault suffices to reach each error path and, in `kitchen`, what one failure may lose; the properties
that count losses are stated in the number of faults. The clocks run a little longer than the longest
period they measure. `registry_calls` has a single code because with two the code's lock no longer
protects the file, which is `registry_double_claim`, and because the graph of two codes with a failed
write (seven million states with symmetry, which liveness does not allow) is too large for progress.
That names are unique needs two codes to be at stake, an account made from one taking the name of the
other between its claim and its registration, so it is no property of that run: `NamesSafe` proves it
for any number of codes. In `edits` each call is made once: two edits of one
user have two previews on the screen, two of different users contend for the file, and two appends and
an app give the file every order of a locked and an unlocked writer. In `groceries` three items of two
names allow an item to be cleared and put on the list anew. One member is enough there: the batches of
different members never meet. `scheduler` has no nesting job, because one would block the queue for good
(section 7), and no isolated one, because a failure of those is never counted.

`CHECK_DEADLOCK FALSE` stands where the system may come to rest: all updates handled, all calls
returned, the clock or the starts used up.

## 5. Fairness

* `store_calls`: weak fairness of each call's steps.  Promises that can settle do.  The bounded number
  of operations means no lock can be taken from a waiter for ever.
* `registry_calls`: strong fairness of each call, because calls come again and again: the
  lock is first come first served (proved: `InOrder` of DataStoreProofs), so a waiter is not passed over
  for ever, which a lock variable alone would allow.
* `flow_webhook`: weak fairness of each update, its timer included; **none** for the summarizer, which
  may hang.  That is the point of the property.
* `scheduler`: handlers end, the queue goes on, the interval fires while the process is up and a
  process that is down is started again.  Crashes are limited by the faults.
* `costs`: the timer fires and the writes end.
* `locks`: promises that can go on do, functions under a lock end.

The other runs check safety only, where fairness plays no part.  `PressAnswered` of Edits is a safety
property too: a call that is over has answered its press.  It rests on one assumption of time
(`HandedOver`): a press that can be delivered is delivered before the five minutes of its proposal end.
A press that is delivered before the sending of the preview has returned is dropped by the code, and
leaves `inTime`: the property promises nothing for it.

## 6. Proofs

Proof modules extend the component's module (LLMCostProofs and DataStoreProofs two of them); leaves use
the SMT backend and Zenon, temporal steps LS4.  Besides each module's named assumption on its constants
nothing is assumed.  A few theorems have a hypothesis on the behaviour that their statements spell out:
that updates come one by one, or all at once (`Sequential`), and `OneKeyAtATime` of `GrantedOnce`.

**ChatSessionStoreProofs.**  `IInv` (in ChatSessionStore) is inductive: whoever is in a locked section
holds its lock (`LockInv`); a call bound to a session works on an existing transcript (`BoundInv`); in
its locked section a call's copy *is* the transcript (`CopyInv`), which is why writing the copy back
loses nothing; a session being minted is not active (`MintInv`), which gives `OneKeyPerSession`; a
rebuild about to write sees the active, open session (`RebuildInv`); the exchange of a call that has
not written is nowhere (`FreshInv`), which gives "at most once" in the ledger.  From it: `TypeCorrect`,
`PublishedSafe` (an index entry has a transcript), `KeysSafe`, `RebuildSafe` and `LedgerRefinement`
(every step maps to a step of `ChatLedger` or a stutter).  `MirrorSafe` needs a second invariant,
`MirrorInv`: a transcript that decodes only grows, by what the caller then puts into the row, and a
call that has yet to write the row (`EndRowInv`, `PlaceInv`) has already written the transcript; so a
row that is late or missing never says more than the transcript.

**UserRegistryProofs.**  `NamesSafe`: for any number of calls, codes, users and failures, no two
accounts share a display name in memory or in pas.yaml. The invariant says that the holder of the
display-name lock is the only registration between its check and its write, and that every list on its
way to the file, every list kept for a rollback and the file itself has distinct names and only names
that cannot be given away meanwhile. `SavesFollow` and `AdminStays` rest on a second one, `FollowInv`:
the last list queued for pas.yaml is what memory holds, or the file is when nothing is queued; each list
in the queue, the file and memory has an administrator, for as long as no failed write has put back a
list that others changed meanwhile (`Undisturbed`, section 7). `GrantedOnce` says when a code has one
claimant: as long as no two sections that rewrite invites.yaml under different keys overlap
(`OneKeyAtATime`). Then whoever is in such a section is alone in it, its copy has the marks of all
granted codes (`MarksInv`), and the file keeps them (`GrantInv`). `registry_double_claim` shows that the
hypothesis is needed, and `registry_calls`, whose single code leaves only a create to overlap with,
never claims twice without it.

**KitchenProofs.**  `IInv` says that a call has exactly the locks of the section it is in, but for those
it still asks for, which come later in the order (`Sections`), and that what it is about to write was
made from the list in force (`CopiesInForce`). From it: `NoLostUpdate`, for the nested sections of moves
and of the daily check too; `CircleFree`: in a circle each call would wait for a later key than the one
before, and there are four keys; and `TypeCorrect`. What the lists then hold is followed batch by batch
(`StockInv`): a batch is in one list, in the hands of one call that moves it or will log it, or gone
(`PlaceInv`); what is none of these was lost to a failure, one batch each (`LossInv`); what was thrown
away is in the log or due to it (`LoggedInv`), and without a failure exactly once (`ExactInv`). Buttons
carry places, so lists are compared by a one-to-one map of positions (`Drawn`), and a filtered list is
treated with an induction over its length. From it: `OneAtATime`, `NothingLost`, `LogTrue`.

**SchedulerProofs.**  `IInv` says that a check under way is the head of the write queue (`HeadInv`),
that no operation can therefore touch the file while it runs and what it has loaded is what the file
holds, so that the list it saves loses nothing (`LoopInv`); that each task promised is in the file, or
attempted, or excused by a cancel (`OwedInv`); and that a stop which waits for the queue waits for the
check (`StopInv`).  From it: `TasksKept`, `OneAttempt`, `CleanStop`, `TypeCorrect`.

**DataStoreProofs.**  The file locks first. `ChainsInOrder` is their inductive invariant: the callers of
a key form one chain from the oldest to the one in the map, each chained to the one before, and who
holds or has settled the key is at the head of it. From it: exclusion (`Exclusive`), sorted waits
(`Ordered`), an empty map when nobody is left (`Forgetful`), and that a key is granted in the order it
was asked for (`InOrder`).  Together they make `QueueRefinement`: seen through the line of each key and
who holds it, every step of the promises is a step of `KeyQueues` or a stutter.

Then Edits, in two halves that meet in nothing but the program counters.  For the file: a writer holds
the lock (`LockInv`), and whatever is in the file beyond what the writer compared or looked for was put
without the lock since (`LookInv`).  For the talk: the slot of a user holds a proposal of that user that
is on the screen and that nothing has superseded (`SlotInv`); what was confirmed has left the slot, so a
later proposal does not count it among those it replaces (`ShownInv`); an edit is written before it is
recorded and answered when it is over (`DoneInv`).  From it: `SafeOverwrites`, `NewestApplied`,
`TrueAnswers`, `TypeCorrect`, and, assuming that updates are not handed over one by one,
`PressesAnswered` (`PressInv`): a press that was not dropped while the preview was being sent is
answered.

**LLMCostProofs.**  UsageCosts has two halves. Nothing is counted twice since every source of a count is
covered by what was billed: the log together with the rows still queued for it (`LogInv`, which counts
positions of a queue and needs the library's facts on cardinalities), the cache and every write of it,
however old (`CacheInv`). A quiet shutdown loses nothing since what is not dirty is in the cache or in
the only write under way (`CleanInv`), and what a flush found is in the cache or in the write it waits
for (`FlushInv`). From it: `NothingCountedTwice`, `ShutdownSaves`, `TypeCorrect`.

LLMGuards admits calls against those costs. `GuardInv` (`LimiterSafe`) says that a reservation ends with
its call and its month (`ReservationsOwned`) and is the household's that the call is billed to
(`BelongInv`), that a household's bills and the reservations still to be billed fit its cap but for what
calls cost beyond their reservation (`HouseholdBudget`), that the bills of an app, and all bills, would
exceed their caps by less than a full set of calls even if every call still under way cost the most
(`CapsInv`), and that the ledgers agree (`SumsInv`). An admission or a bill changes one term of each
sum; that the sum changes by as much is shown for every finite set of calls, apps or households
(`SumPut`, `SumMore`) by well-founded induction on its subsets. From it: `BudgetSafe`, `OvershootSafe`,
`ReservationsSafe`.

**GroceriesProofs.**  The argument follows an item (`ItemsOK`). Under the lock a call's copy is the list
with new items at its end, or the list without what the call takes off (`CopyOK`); so a save loses only
what was recorded before or is dropped on purpose (`Accounts`), and moves an item only when it clears
(`PositionsStay`). An item on the list is in no batch but that of the call that takes it off (`ListOK`);
one that is off it is in one batch at most, of a call or of a member, and was recorded before
(`BatchOK`), so it reaches the pantry once (`IntoPantryOnce`). The bound on the records holds because a
call that has recorded an item and does not save it has failed. What `Without` keeps is shown by
induction on the length of the list (`WithoutOn`).

**ConversationFlowProofs.**  Ids are minted in order, at most one by an update, so a new session is
really new (`MintInv`). What is written about a session is decided in the step that writes it, so its
activity (`ActivityInv`) and the nonces of the prompts (`ShownInv`, `NonceInv`, `OnceInv`) are kept with
all updates interleaved. When the bot polls, one update is under way (`AloneInv`), so between its check
and its write the index still names the session it checked (`EndInv`, `ResetInv`). From it:
`ActivityEnds`, `ConfirmedOnce`, `TypeCorrect` and, assuming that updates come one by one, `ResetOnce`
and `RollbackEndsItsOwn`. `OffForgotten` rests on two more: the job of an idle reset keeps its update
waiting unless its timer has aborted it, so nobody turns the setting off under a job that is still
wanted (`FlushInv`); and a summary that is kept with the setting off has failed to go, once or twice, or
outlived its timer (`KeptInv`).

Only model-checked: everything under fairness, which is out of the prover's reach: `EveryCallReturns` of
ChatSessionStore, UserRegistry and FileLocks, `EndedLeavesIndex`, `EveryUpdateEnds`, `CostsReachCache`
and `TasksAttempted`. Every invariant and every action property of a run is a theorem, `OneClaimant`
under the hypothesis above, and so is the type invariant of every module (that of LLMGuards as part of
`GuardInv`). The induction theorems of the library take an operator, which the provers cannot
instantiate; where the proofs need induction over a number or a finite set it is stated for a set
(`NatInductionSet`) or derived from the existence of a minimal element (`WFMin`). Filtered lists and
sums are recursive functions or folds, never RECURSIVE operators, for that reason.

## 7. What the models found

A violated statement of the repository, with its run:

* **One code, two users** (`registry_double_claim`).  Claims lock the code, not the file
  (`invite/index.ts:266`); two claims of different codes overwrite each other's `usedBy`, and the
  code whose mark was lost is redeemed again.

Two races of `endActive` under the webhook, which the actions of ConversationFlow and ChatSessionStore
have and their properties leave out:

* two hooks that overlap both pass the compare of the expected id (`chat-session-store.ts:534`) before
  either clears it, and both give notice and summarize: `OneReset` is checked under polling;
* its last section clears the key whichever session it names by then (`chat-session-store.ts:589`): two
  ends and a mint in between, and the new session loses its entry while it is open.

Met while modelling, without a run of their own:

* a failed turn ends whichever session the key names (`handle-message.ts:309`); under polling that is
  its own, which `RollbackOwnEmpty` shows;
* the idle-reset hook looks for a pending confirmation once (`idle-reset-hook.ts:68`); one that another
  update attaches before the session is ended does not keep it.  Only the webhook allows that, so no
  property says that a confirmation protects its session: there it does not, and under polling the hook's
  own guard is all there is to it;
* a summary may land after its timer fired and the user turned the setting off
  (`idle-reset-hook.ts:161`): `OffForgets` bounds what may be left to such a save (`Outlived`);
* the flush of the cost tracker does not wait for a timer's write under way (`cost-tracker.ts:536`);
* nothing holds the name of an invite between claim and registration (`invite/index.ts:173`): the
  second user is refused at registration, with a used code;
* a failed sync restores a captured list and so undoes in memory what others changed meanwhile, while
  their own write still has it (`user-mutation-service.ts:179`): `SavedFollows` and `AdminRemains` are
  stated for histories without that overlap;
* a one-off handler that awaits `scheduleOnce` waits for itself (`oneoff-manager.ts:257`);
* a disabled one-off job cannot be re-enabled (`gui/routes/scheduler.ts:96`), and a per-user job never
  fails in the eyes of the counter (`per-user-dispatch.ts:85`);
* freezing a leftover writes `frozen` before the freezer's list: a failure in between loses it
  (`leftover-handler.ts:101`), which `StockKept` bounds by one batch per failure; freezing a batch of a
  name that is already in the freezer overwrites that entry's quantity (`freezer-store.ts:56`);
* under long polling a press of `/edit` is handed over only when the handler that waits for it has
  given up: `sendOptions` always times out there, and with `Sequential = TRUE` TLC violates
  `PressAnswered` at once (`telegram/index.ts:89`, `bootstrap.ts:40`);
* over the webhook a press that is handled while the preview is still being sent (`telegram/index.ts:81`)
  finds no entry, which is made only then (`:95`), and is dropped (`:175`); if the user does not press
  again, the call times out;
* Cancel under an older preview deletes the newer proposal (`handle-edit.ts:92`), which only costs the
  newer one its confirmation;
* the edit log has what happened at the confirmation only: proposals that time out, are cancelled or are
  replaced leave no line, and what fails after the write is neither told nor, perhaps, logged;
* the lock of an edit and of an append with front matter is the real path of the file; an app's plain
  `append`, `write` and `archive` take none, so the compare of the hash narrows the window and does not
  close it.  `NoSilentOverwrite` says how far it goes; and an app that reads and writes the file whole
  drops what was appended in between, of which no property speaks;
* a press on an old grocery list ticks whatever is at that position by now (`food/src/index.ts:1363`);
* "clear the rest" after a shopping trip empties the list but records only what was not bought: ticked
  items leave without a line in the history (`shopping-followup.ts:145`), which `Accounted` excepts;
* the batch for the pantry is put aside after the message with its buttons was sent
  (`food/src/index.ts:1432`): a press in between finds none, or the batch of the clear before.

## 8. Not modelled, and the plan

Left out of the modelled components: in Edits the choice of the file, the paths and scopes of a store,
data queries and the change log's content, and a file that a crash leaves half created; in Groceries the
guided shopping mode, departments, quantities and several items in one message; the import of the legacy
history and full-text queries of the session store; prompts, tool calls and the settings dialogue of a
conversation; per-user and per-app columns of the usage log; reads that decide nothing. Logging, wording
and formatting are nowhere. Not planned at all: pages and charts of the GUI, static analysis of app
packages, scaffolding, developer scripts, and wrappers of I/O without state of their own (Telegram,
audio, metrics, system information, backup).

Order of the work that remains, and what each module is to show:

1. **MealPlan** - plan and votes kept over an LLM call and saved whole.  Abstract specification: a vote,
   once acknowledged, counts.
2. **Router** - dispatch, pending verification with its buttons and time-out, buffered replies.
   Abstract specification: each message is answered by one route.
3. **Settings** and **ConfigWriter** - batches over several files, confirmation of dangerous settings,
   composed with the queue of pas.yaml of UserRegistry.
4. **FileIndex** - the index behind `data:changed`, composed with the writers of Edits.
5. **Alerts** - an alert that overlaps itself, edited or deleted while it runs.
6. **Shutdown** - composes the drain of requests, the scheduler's stop, the limiter and the flush in the
   order of the server.
7. **Households, Spaces; RegressionRuns; ModelSelection.**
8. **Proofs** - the locks of the components as an instance of FileLocks; an abstract specification of the
   grocery list and of the kitchen, whose steps the invariants already describe.

The set of runs is kept at about a dozen: a new module first takes the place of a question that a proof
has answered for every instance.
