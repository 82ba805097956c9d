# Intentic, modelled in TLA+

Intentic is a workspace for coding agents. A person writes to a *conversation* in
the editor; a daemon in the sandbox (Node, `src/_sandbox/sandbox`, supervised and
restarted by the Rust `netd`) runs one coding agent per conversation, each in a
worktree of its own, lands the finished work on the shared branch, and picks back
up whatever a spent allowance, an outage or its own death cut short. A platform
(API and ingress) reaches the sandbox from outside; devices, extensions, a code
search and a deploy engine surround it.

This directory holds the TLA+ modules that model its core, the TLC
configurations that check them, and the proofs TLAPS checks. Every definition is
translated from the source; `PROJECT.json` maps each one to its lines.

## 1. Inventory

Components, the state each keeps, its operations, and what makes it correct. The
status of each is in `PROJECT.json`; the modelled ones come first.

| Component (source under `src/_sandbox/sandbox/src` unless said) | State | Operations | Hard behaviour | Correct when |
|---|---|---|---|---|
| **Waiting queue** `conversations/actor/conversation-queue.ts` | messages, revision, hold, soonest booking | join, schedule, reschedule, take, hand back, hold, release, reroute, edit, remove, supersede | long sequences of bookings, hold and hand-backs over turns | no words lost or reordered, a Stop's hold not undone by a machine |
| **Conversation actor** `conversation-decide.ts`, `held-decide.ts`, `limit-hold.ts`, `conversation-actors.ts` | phase, parked cards, stop, promise, leases, journal record, held turn, ladder count, queue | one decision per event, then its effects in order | an effect that throws drops the ones behind it | the books agree with the actor; automatic re-runs are bounded |
| **Registry books** `conversations/registry/agents-registry.ts` | the entry per conversation, dirty set, owed journal rows | open, settle, abandon, queue, hold, journal, remove, archive, persist | one save carries everyone's changes and may fail | what a restart reads is what the windows saw |
| **Turn journal** `store/journals/turn-journal.ts` | one row per conversation in flight: run, attempts, settled | write, spend an attempt, consume | written by the actor and, past it, by a boot's recovery | the row is the live run's; attempts are bounded |
| **Turn runs** `agent/run/turn/turn-runs.ts`, `placement/turn-placement.ts` | one live run per conversation, its number and its log | claim, begin, settle, record, end | the run, the phase and the record finish at different moments | phase and run agree; nothing drawn is lost |
| **Turn pipeline** `agent/run/stream-agent.ts`, `settle/` | none of its own | gates, begin, placement, exit | refusals before the begin, walls after it | every begun turn settles |
| **Resume pass, restart recovery** `agent/run/turn/turn-resume.ts`, `holds/`, `recovery/`, `bootstrap/boot-resumes.ts` | what it judged, across its awaits | fire, re-mint, give up, withdraw, recover, re-run | acts behind awaits on what it judged before them | a turn goes again at most as often as allowed; a promise has something behind it |
| **Run log and record** `sessions/run-log.ts`, `sessions/turn-transcript.ts` | `running.jsonl`, kept logs, the transcript | open, append, close, keep, append to the record | crash between any two writes, failing appends and removals | every turn recorded, once, in order |
| **Land by hand, archive presses** `conversations/land/land-by-hand.ts`, `registry/archive-press.ts` | none of their own | settle at rest, archive mark | checks that precede their act by awaits | neither ends a turn that runs |
| Fleet invariants `conversations/invariant.ts` | none | periodic checks | | stated here as properties |
| **Turn admission** `agent/run/turn/turn-admission.ts`, `message-receipts.ts`, `booked-release.ts`, `continuation.ts` | the conversation's lock, receipts, starts in flight | say, book, start, steer, hand back, take back, release, drain | words leave the queue after their turn started; the sender asks again | words reach exactly one turn; what waits goes |
| **Land** `conversations/land/land.ts`, `land-target.ts`, `turn-landing.ts` | land leases, repository locks, landed tips | sync, plan, write, prove, record | several repositories, partial refusal, nested locks, children landing into parents | tips stamped are those written; all or nothing; no deadlock |
| **Project delivery** `conversations/land/project-delivery.ts`, `delivery-arrivals.ts` | owed lands on disk, attempts in memory, the card's verdict | land, attempt, send, merge back, queue, check | a computer that comes and goes, late answers, restarts | every land sent or accounted for, once; no newer land overwritten |
| Worktrees and git `conversations/worktrees`, `git` | trees on disk | make, reset, remove | git's own | |
| **State convergence** `store/evolution/` | files, pre-images and a journal of a conversion | plan, record, apply, settle, put back, commit, prune | death half way, then another build | old files or new files, never a mixture |
| Audit trail `audit/` | hash chain, cursor | append, prune, forward | torn writes | the chain verifies; nothing forwarded is skipped |
| **Approvals** `approvals/` | the items' files, the ledger of yeses, a timer | approve, take back, arm, pass (judge, spend, act), turn | two writers of one file, overlapping arms, death between | one yes is one act, on what it was given to |
| Automations `automations/` | schedules, fire journal | wake, journal, fire, catch up | death between | a one-time wake fires once |
| Boot records and reaper `bootstrap`, `system/boot` | restart record, process sweeps | | facts read from the machine | |
| Steering, checkpoints `agent/checkpoints`, `sessions/steer-captures.ts` | steer slots, captures | reserve, fill, take | late captures | a capture is filed under its own message |
| Agents' tools and providers `agent`, `harness`, `engines` | sessions of third parties | calls | | |
| Children, workflows, loops, needs `workflows`, `loops`, `needs` | trees of conversations | | built on turns and the queue | |
| Runners, peers, offload `runners`, `peers`, `offload` | turns on other machines | | | |
| Access, privacy, fences `access`, `privacy`, `fences`, `safety` | settings | one decision per request | | |
| Extensions, panels `extensions`, `panels`, `src/_extensions` | none across steps | rendering, calls | | |
| netd `src/_sandbox/netd` | the daemon's process | kill, restart, tunnels | | |
| Ingress `src/_platform/ingress` | who holds a sandbox's id | claim, displace, tear down | late teardown of a displaced tunnel | the live tunnel keeps the id |
| Platform API `src/_platform/api`, `prisma` | relational database | CRUD, jobs | | |
| Deploy engine `src/_deploy` | applied resources | plan, apply, prune | an apply that fails half way | converges; prunes only what it owns |
| Device sync `src/_devices/machine`, other helpers `src/_devices` | two disks | | | |
| Code search `src/_search` | rebuildable index | | | |
| Editor and site `src/_editor`, `src/_site` | view of the daemon's cards | | | |
| OS image, tools, contracts `src/_os`, `src/_tools`, `src/_shared` | none | | | |

How the modelled ones interact. A sender (a press, an admission, the resume pass,
a boot) claims a *run*; the run tells the conversation's *actor* events; the actor
decides synchronously and then runs its effects one by one: a call to the *books*
(the registry's entry in memory and the journal row that goes with it) and a save
of them to the *database*. The run writes a *log* as it draws and, once settled,
its rows to the *record*, then takes its log away and its row off the journal. A
boot reads entries and rows back, restores holds, and recovers what was cut.
*Admission* stands ahead of all of it: every message comes to a conversation
through its lock and leaves as a start, a steer or an item of the queue, and every
end of a turn drains what waits. A turn's end, a press or a parent's merge *lands*
the work under leases and locks; a land announces itself to *delivery*, which owes
it to the owner's computer. *State convergence* runs ahead of them, before a boot
opens any store; *approvals* beside them, starting turns through the same door.

## 2. Modules

    TurnQueue            pure functions of what waits
       ^ EXTENDS
    Conversation         one actor, its books and the database; any sender, any order
       ^ EXTENDS
    TurnRuns             the runs, resume pass, boots

    RunLog               log, record and row of the same runs, on their own

    MessageDelivery      what a conversation promises its senders (abstract)
       ^ INSTANCE
    Admission            EXTENDS TurnQueue: the lock, with the turns as it meets them

    Land                 leases, locks, two phases, books
    Delivery             from a land to the owner's folder
    StateConvergence     an update's conversion, over builds and crashes
    Approvals            the owner's yes, the ledger and who acts on it

    X_proofs             what is proved of X, for X each of TurnQueue, TurnRuns,
                         RunLog, Admission, Land, Delivery, Approvals and
                         StateConvergence. Each EXTENDS its X and TLAPS;
                         TurnRuns_proofs holds what is proved of Conversation too,
                         and it and Admission_proofs EXTEND TurnQueue_proofs.

    MCConversation, MCTurnRuns, MCAdmission, MCLand, MCStateConvergence
                         small instances for TLC

**TurnQueue** (`conversation-queue.ts`). A queue is a record of items and the
queue-level fields the code derives in `next` (`Moved`): a hold only while
something unbooked waits, a `scheduled` pause only while a booking stands. Each
function of the file is an operator of the same name. `Together`, what goes out as
one turn, is here for the admission module to use. Filters (`Only`, `Without`) are
a recursive function over positions, which the provers can be led through, where
they know nothing of `SelectSeq`.

**Conversation** (`conversation-decide.ts` and the effects it returns). One action
per event kind; its guard is the handler's early return, its primes its
assignments, its effects in the order the actor runs them. The central operator is
`Saved`: one save of the fleet's dirty entries and owed rows, which may fail. A
failed save leaves the entry dirty and its row owed, and drops the effects behind
it, which is why it takes `late` (is the hold's own write behind this save?). The
state is the actor's (`phase` ... `queue`), the books' (`entry`, `dirty`, `owed`)
and the database's (`disk`); `missed` (what a failed save cost), `rungs` (stop
re-runs since one got somewhere) and `forgot` (how often since then a restart cost
the daemon their count) are ghosts that no action reads. `Restart` is the
process dying at any point and the next one reading the database, its holds put
back by `RestoredHold`; `Disposed` is a purge. `OtherSaved` is any other
conversation's save, which writes this one's changes too.

**TurnRuns** composes the actor with those who tell it things. A run goes
`accepted` (claimed, journalled) -> `begun` -> `going` -> `failing`/`closing` ->
`finished` (settled) -> `recorded`/`unrecorded` -> `ended`, or `cut` by a restart,
and each step is the conjunction of the run's move and the event it sends. The
resume pass keeps what it judged over its awaits (`pass`, `judged`). A boot reads
the row left (`left`), then over several steps records, spends or clears it and
starts the turn again (`recovery`). `SendTurn` is every start that is not a
re-run: a person's words, a press on a hold, the daemon's own.

**RunLog** models the same runs where it matters what is on disk: the running log
by its head and by whose patches are in it, logs kept of runs the record refused,
the record, and the row, with a restart between any two writes and appends and
removals that fail. `todo` is the list of kept logs a writer took at its start;
`stuck` is a ghost.

**Admission** (`turn-admission.ts` with what it calls). `op` is the one piece of
work the conversation's lock is in; between its steps (`Say`, `Drain` -> `Deliver`
-> `StartClaims`/`StartBusy`/`StartArchived`/`Steer` -> `Take`) anything else may
happen: a turn moves a stage, a person stops it, answers a card, archives, rewinds,
takes words back; the resume pass carries on or gives up; the daemon dies and a
boot recovers, before which neither the lock nor a pass lets anything go (but for
a message sent, with `EarlySends`). The queue is TurnQueue's, function for function. `Remembered` is
what a daemon can answer a repeated message with: what it kept since it started,
and what it reads from the queue and from rows. A turn's opening row carries one
id, the first of the messages joined into it (`turnOf`), so of the others (`Behind`)
a record and a live run tell nothing (`Names`), and `named` is the part of the
record that a later daemon knows. `HandBack` is the turns whose words a refusal
returns. `heard` (which turns carried a message to the model), `accepted`,
`takenBack`, `forgotten` (messages a turn had, whose ids a restart lost) and `quiet`
are ghosts. **MessageDelivery** is the abstract side: a
message is unsaid, waiting, carried, over, taken back or forgotten, and `Moves` is
what may become of it; `At` in Admission is the refinement mapping, `KeepsPromise` the
property that says every behaviour of Admission is one of MessageDelivery.

**Land** (`land.ts` and its doors). A `job` is one land of one conversation through
one door (its turn's end, a press, its parent's merge, a measure, a hand settle)
and goes `called` -> `own` (lease) -> `parent` (its parent's lease) -> `sync` ->
`lock` (each repository in one order) -> `plan` -> `write` -> `prove` -> `unlock` ->
`record` -> `free`. A write may be refused by the tree, or taken only in part,
which `Prove` reads back. People edit and discard in the shared tree: a discard
waits for the repository's lock, an edit by hand does not.

**Delivery** (`project-delivery.ts`). A land appends an attempt to the project's
line; an attempt locates the folder, takes over what its conversation still has
waiting, builds, sends, dequeues and merges back, or queues and records its
verdict, one await to an action. The owner's computer connects, disconnects and
attaches as it likes.

**StateConvergence** (`state-convergence.ts`, `state-journal.ts`). A build is the
plan it would make: trees regrouped, documents moved, files retired. A boot
recovers the open episodes of other builds, prunes, plans, records pre-images,
opens the episode, applies, settles and, once the daemon is up, commits; a failure
puts back. `Crash` may fall between any two effects on the disk, and the next
`Boot` may be of any build. The journal is a set, since with one episode open its
order decides nothing; what is left of a plan is a set too, done by kind in the
order `applyPlan` goes (`Due`), copies, renames, writes, and recorded in the order
of `recordEpisode`. Two trees may be copied to one address, as the regroup's table
has it twice, and the second copy throws (`Blocked`, `Collide`). `Home` is the
address a tree has once a build converted, `Kin` the addresses of one file. A tree
inside another that moves as well (`attachments` into `artifacts`) is an address
of its own here.

**Approvals** (`approvals-executor.ts`, `approval-decisions.ts`, the routes). The
item's file is written whole by the owner's routes, the agent, the executor and the
turn; the ledger only by the routes and the executor. `arm` and `pass` are split at
their awaits; `given`, `acts`, `revoked` and `asked` are histories.

### What is abstracted, and why it may be

- A message, a card, a plan (where and when a held turn goes next) is a value;
  text, usage, checklists and readings, which no event branches on, are left out.
- An actor's effect chain is one step. Its later effects run in the microtasks
  behind its save; only a save that fails can be told from the chain done whole,
  and failure is modelled.
- A settle and its run's finish behind it are one step: all is refused busy between.
- A person's press on a hold starts a turn like any other (`SendTurn`).
- The instants the resume pass waits for are not modelled: it may judge any
  unfired hold at any time, so what is shown holds for every clock.
- Admission meets a turn by its stages; a save lands with its event (failures are
  Conversation's), a queue is kept at revision 0 (an edit's version is
  Conversation's `ChangeOf`), and a turn's record, journal clear and settle are one
  step (RunLog's). A restart that falls where words are on two disks or on none is
  left out by name (`BetweenWrites`, section 4), so what a crash does between a
  turn's start and its words leaving the queue is not checked.
- Admission takes receipts as read before anything is delivered
  (`message-receipts.ts:75` keeps none until they are). A drain or a release does
  not read them, which matters only to words refused at the door before they are
  handed back, and to a re-run claimed before its first turn is on the record. The
  tail of the record that is read (8 turns) and the receipts kept (256) stand for
  all there are. A Continue, which `bookContinuation` looks for in the queue alone,
  is asked for once under its id.
- In Land a commit is the set of changes it carries; two conversations' changes
  clash or do not. Lockfiles, derived files, version commits and branches other
  than the main line are left out.
- In StateConvergence what a file says is a number; conversions of a document's
  contents are the stores' own reads and not modelled.
- In Delivery one project and one file stand for all: projects have lines of their
  own, and files are merged one by one. In Approvals what an item says is a word,
  the owner's requests come one at a time, and an arm whose listing of the queue
  throws is left out.
- Not modelled of the actor: notes, steers, grants, the keep-warm clock. Of the
  resume pass: holds for memory (`holdCutForMemory`) and their release, and
  `pressOnly`. Of a boot: parked cards put back (a parked turn is cut like any).

## 3. Runs

Deadlock is checked in the runs of `Conversation` and `TurnRuns`. The others end,
within their bounds, with nothing left to do.

| Run | Instance | Shows |
|---|---|---|
| `conversation` | 1 run, an allowance's holds, 2 plans (symmetric: only ever compared), the row, the archive mark, saves that fail; a person's words, a child's report, a person's "carry on", 1 instant, 4 queue changes; 1 card, 1 land, re-mints | `EntryOnDisk`, `HoldOnEntry`, `JournalOnDisk`, `TypeOK`, `QueueOnEntry`, `OrderKept`, `WordsOutliveTurns`, `StopHolds` |
| `turn_runs_restart` | 3 runs, 2 restarts, allowance and stop, 1 rung | `LiveRunOnDisk`, `RestartsBounded`, `LadderBound` |
| `turn_runs_beside` | 2 runs, 1 restart, the other walls, hand lands, early turns; records and a boot's own row writes fail | `PhaseHasRun`, `EndedStaysEnded` |
| `run_log` | 3 runs, 2 restarts; appends and removals fail | `RecordedOnce`, `RecordInOrder`, `NoRunLost` |
| `admission` | words alone, beside a report and a Continue booked for later, or joined with more words; 2 turns, 1 restart, 1 press; limits, promises, give-ups, rewinds, archives | `DeliveredOnce`, `WordsKept`, `TakenBackUnsaid`, `WaitingGoes`, `KeepsPromise` |
| `land` | 2 conversations over 2 repositories in opposite order, a child of one; 5 doors, 2 lands, 1 edit, 1 restart | `TipProven`, `WholeOrNothing`, `RebaseAlone`, `LandsEnd` |
| `state_convergence` | 3 releases, 8 addresses; 2 deaths, 1 failure, 1 edit | `OneOpen`, `ImagesTrue`, `PutBackWhole`, `CommitsWhole`, `EpisodeCloses` |
| `delivery` | 2 conversations, 3 lands, 1 move of the computer, 1 restart | `LandsAccounted`, `SentOnce`, `NewestLandStands`, `QueuedGoes` |
| `approvals` | an item the daemon does and one a turn does; 2 wordings, 1 yes, 2 arms, 2 upsets (a revert, a rewrite, a failed write or a death) | `TypeOK`, `OneYesRunsOnce`, `RevokedNeverRuns`, `DoneAsApproved`, `ApprovalTakenUp` |

Every property of a passing run has a mutant: a definition with a plausible bug in
it (the `Mutant of` operators), under which TLC finds the property violated.

What the properties say, in short:

- `EntryOnDisk`: once nothing owes a save, a restart reads the entry memory has.
- `HoldOnEntry`: the entry keeps exactly the actor's hold, but where a failed save
  cut the chain.
- `QueueOnEntry`: the actor's queue and the entry's never part.
- `JournalOnDisk`: the newest run's record is on disk or owed with the next save.
- `LadderBound`: a stopped turn goes again by itself at most `RETRY_LADDER_TRIES`
  times without getting anywhere, whatever comes between, and as often again for
  each restart that cost the daemon the count (section 4).
- `OrderKept`, `WordsOutliveTurns`, `StopHolds`: two messages that wait keep their
  order; a turn drops only continuations; only a person undoes a Stop's hold.
- `PhaseHasRun`: the phase is `running` exactly while one run is between its begin
  and its settle.
- `LiveRunOnDisk`: the row a crash would leave is the live run's.
- `RestartsBounded`, `EndedStaysEnded`: a cut turn is re-run at most
  `MAX_RESUME_ATTEMPTS` times, and one that is done never.
- `DeliveredOnce`, `WordsKept`, `TakenBackUnsaid`: a message sent again, queued,
  handed back, steered or cut is carried to the model by one turn and its re-runs;
  it is always somewhere, and waits or goes, never both; what was taken back is
  never said. Of a message whose id a restart lost, as happens only to words joined
  behind others (section 4), no more is said than that it is somewhere. `KeepsPromise` is the refinement, `WaitingGoes` that what waits goes.
- `TipProven`: a tip recorded as landed was read in the tree it went to.
  `WholeOrNothing`: a refused land wrote nowhere, unless the tree changed under it
  by hand or failed it. `RebaseAlone`: a checkout being rebased is nobody else's.
  `LandsEnd`: no lands wait on each other for good.
- `OneOpen`, `ImagesTrue`: one episode at most is open, and its pre-images are the
  files as they were before it, at the file's address or at one the regrouping
  brings there. `PutBackWhole`, `CommitsWhole`: an episode forgotten
  leaves every file the stores read as it was, or as a store has written it since,
  but for one renamed to a path that the same release deletes (`Unimaged`, section
  4); one committed leaves a finished conversion.
  `EpisodeCloses`: none stays open.
- `LandsAccounted`: no land is dropped unsaid, but for what a crash finds in memory
  alone: attempts in line, and a waiting land the attempt that carries it has already
  taken off the disk (`project-delivery.ts:358`, called at 561). `SentOnce`: none is sent twice but
  over a crash. `NewestLandStands`: a merge never undoes a newer land.
  `QueuedGoes`: what waits is delivered or said not to be.
- `OneYesRunsOnce`, `RevokedNeverRuns`, `DoneAsApproved`: one yes, one act, none
  once it was taken back, on the words it was given to. `ApprovalTakenUp`: an
  approval the owner was told of is acted on or failed.
- `NoRunLost`, `RecordedOnce`, `RecordInOrder`: whatever a run drew is found by a
  boot; the record has it once, oldest first.

### Bounds

`MaxRun`, `MaxBoots`, `MaxLands`, `MaxRevision` and, in the newer modules,
`MaxPresses`, `MaxWork`, `MaxMore`, `MaxEdits`, `MaxCrashes`, `MaxFails`, `MaxMoves`,
`MaxNow`, `MaxYes` and `MaxUpsets` bound counters in guards; `Touchable` limits what
people edit. Nothing else is bounded. Two runs are enough for every overtaking (an older and a newer one),
three for an overtaking behind a re-run and for a record refused twice. Two
restarts let a re-run die in turn, which the attempt counts are about. Three
messages are one of each kind the queue distinguishes, and four changes let the
shortest sequences that could reorder, drop or release (two joins, a hold, one
more) be followed by another. Rungs and attempts are bounded by the code's own
constants, which the proofs leave free. The `conversation`
run takes its parts one at a time (`PartSpec`, MCConversation): what waits; the
leases and cards; the holds, rows and failing saves, with two held turns at once
only while there is no row. Each is taken through every turn, purge and restart
with the others at rest. The parts meet in `Saved`, which all exercise, and its
properties are proved without the parting. It holds for an
allowance only; the other reasons' holds are in `turn_runs_restart` and
`turn_runs_beside`, and `HoldOnEntry`, `EntryOnDisk` and `LadderBound` are proved
for all of them. `turn_runs_restart` has neither early turns nor records that
refuse, so it says nothing of what a boot does to the row of a turn begun ahead of
its recovery.

Two turns and four messages are enough for `admission`: one turn live, one the
words start, and one of each voice that the code tells apart, or two that are
joined (`PartSpec`, MCAdmission: more words meet only words); one restart meets
every step of the lock and loses an id. In `land` two conversations take two repositories' locks in
opposite order, the child adds the second lease, and the person's edit falls
between any plan and its write. Three builds in `state_convergence` are an older,
this one and a newer, and two deaths let a put-back be cut off in turn. Three lands
in `delivery` let one of a conversation wait, a second carry it, and another
conversation's come between. In `approvals` one yes is enough for a second act
under it, and two upsets let an agent's rewrite meet a crash or a failed write.

Each module has a type invariant. Conversation's and Approvals' are checked by a
run and proved; Land's (`LandTypeOK`) and Admission's (`TypesKept`) are proved;
RunLog's, TurnRuns' and Delivery's are part of what is proved (`Typed`, `AllTypes`);
StateConvergence's is proved (`Typing`) and in no run's list: adding `TypeOK` to
the `.cfg`'s invariants checks it on the instance too.

`Remints` and a `MaxLands` of zero close the parts a run is not about, as an empty
`Reasons` closes failures and promises to carry on.

Three constants say how the environment behaves rather than how big it is.
`EarlyTurns` lets a turn start while a boot still recovers the last; `Overtakes`
lets one start before the last is on the record; `RemovesFail` lets a kept log
fail to be removed. The code allows all three, as it does a message that
arrives while a boot recovers (`EarlySends`, Admission). `LiveRunOnDisk` is checked without
the first and `NoRunLost` without the second because with them it does not hold:
section 4.

### Fairness

Safety runs of `Conversation`, `TurnRuns` and `RunLog` assume none. The others
assume weak fairness (one strong), never of a person, a failure or a death:

- **Admission**: of the daemon's work taken together, which goes on while there is
  any: the lock's own (a queue of promises in one process, so what is queued runs),
  each turn's steps (a provider answers or its timeout ends the turn) and the passes
  (each re-arms its timer as it ends). Cards, presses,
  archives and the start of a rewind are people's and unfair.
- **Land**: of each land's next step: git returns, and a keyed lock is handed over in
  order of asking.
- **StateConvergence**: of the daemon's next effect, and of the host starting some
  build again after a death.
- **Delivery**: of the attempt, of the check (every minute) and of the computer
  coming back one day; strong fairness of locating it, since a machine that comes
  and goes is asked again at each arrival.
- **Approvals**: of the owner's request once begun, arms, timers, the pass and the
  clock. Turns and the agent are not fair, so `ApprovalTakenUp` holds whatever they
  do.

## 4. Where the code and its words differ

Three runs are expected to be violated, each stating what a comment in the source
says. TLC's trace is the scenario; `PROJECT.json` "findings" quotes the line.

- `turn_runs_stuck_phase`: the save that opens a turn fails, the run ends, and the
  phase stays `running` until a restart (`stream-agent.ts:291`).
- `approvals_dead_turn`: a turn carrying an item out dies with nothing else
  approved. No timer is armed (`approvals-executor.ts:29` counts approved items
  only) and nothing but an owner's write, a boot or a pass's end arms, so the item
  stays `running`, where line 21 says a pass reconsiders it.

- `put_back_lost`: a file a rename brings to a path the same plan deletes has no
  pre-image of its own, and a put-back cannot bring it back
  (`state-journal.ts:238`, where `verify.json` is regrouped and retired in one
  boot), where line 268 says every file is put back as it was.

The rest were met while modelling and have no run of their own. Each is reproduced
by the property named, in the module named, with the constants given:

- A run whose record was refused files its settled row after the next run began,
  over that run's (`conversation-decide.ts:580`): `LiveRunOnDisk` (MCTurnRuns), two
  runs, `Reasons = {"limit"}`, `RecordsFail = TRUE`.
- A boot that can neither write a row's spent attempt nor drop the row re-runs its
  turn all the same, uncounted (`store/journals/turn-journal.ts:131`, "rather than
  risking a re-run that returns on every boot"): `RestartsBounded` in
  `turn_runs_restart`'s instance with `RecordsFail = TRUE`.
- A land by hand drops the hold a card's promise rested on and leaves the promise
  (`conversation-decide.ts:526`): `ResumingHasRecovery`,
  `Reasons = {"outage"}`, `HandLands = TRUE`.
- Behind a credential re-mint the pass drops whichever hold stands by then
  (`turn-resume.ts:406`): `HoldDroppedAsJudged`, `Reasons = {"auth"}`.
- The next turn starts between a run's finish and its record, and a crash leaves
  the first one nowhere (`turn-runs.ts:549`): `NoRunLost` (RunLog),
  `Overtakes = TRUE`.
- A settle's save fails ahead of the hold it moved, which is then written on no
  entry (`conversation-decide.ts:793`): the state `missed` containing `"hold"`
  stands for, and the exception in `HoldOnEntry`.
- With `EarlyTurns`, a recovery clears or spends a conversation's row by
  conversation and not by run, and takes a newer turn's (`turn-journal.ts:120`):
  `LiveRunOnDisk` fails with `EarlyTurns = TRUE`.
- An overflow's hold is fired while its own turn is still closing; the re-run is
  refused busy and a fired hold is not asked again (`turn-resume.ts:364`):
  `ResumingHasRecovery` fails with `Reasons = {"overflow"}`.
- A hold that rests behind another ending than its own (a turn begun over it that
  failed to open; a door's refusal ahead of any begin) is taken off at the next
  boot (`limit-hold.ts:187`).
- A kept log that could not be removed is appended again once a later turn is the
  record's last (`turn-transcript.ts:209`), and so may be the turn behind it: the
  exception in `RecordedOnce`.
- By another route to the same loss, a run that is on the record is overtaken and
  its late close removes the log the next run has opened (`run-log.ts:150`, which
  nothing makes the next run wait for, `turn-runs.ts:389`): `NoRunLost` again, with
  `Overtakes = TRUE`.
- A restart forgets rungs of the stop ladder (`limit-hold.ts:50`, "so a restart
  neither forgets them nor climbs them again"). One that falls during the re-run
  finds no hold, since a fired one is not kept, and the next stop starts a ladder
  afresh; one that brings an unfired hold back puts its count on the hold alone
  (`conversation-decide.ts:720`), and goes with it if another turn supersedes it.
  `RungsRemembered` (Conversation) in `turn_runs_restart`'s instance; `LadderBound`
  allows the ladder once more for each such restart, counted by `forgot`.
- Words joined into one turn have the first one's id on its row and no other
  (`turn-admission.ts:196`), so the daemon after a restart does not know the others
  and delivers them a second time when their sender asks again, and once more after
  each restart behind that, where `message-receipts.ts:7` has a message "met with
  its first answer instead of a second delivery": `NeverTwice` (Admission) in
  `admission`'s instance. `DeliveredOnce` and the others leave out such messages by
  the ghost `forgotten`, and nothing bounds how
  often: the model keeps an id forgotten for good, even where a later steer puts it
  on a row.
- What let waiting words go drains nothing behind it: an archive pressed again, a
  rewind's end, a promise given up (`NothingLeftWaiting`, Admission, with `GivesUp`,
  `Rewinds` or `Archives`). They go with the next message, turn or boot;
  `WaitingGoes` leaves these three out by the ghost `quiet`.
- A message sent again while a boot still recovers the turn that carried it is not
  known to the new daemon, neither on the record nor live, and goes twice
  (`message-receipts.ts:39`): `DeliveredOnce` with `EarlySends = TRUE`.
- A crash between a queued start's claim and its words leaving the queue
  (`turn-admission.ts:303`), or before a claimed run's row is on disk, finds the
  words in two places or in none: the restarts `BetweenWrites` leaves out.
- A press that read its conversation's record at the door, behind another land of
  the same work, writes again what a person discarded in between
  (`land-by-hand.ts:136`): `DiscardStays` (Land), with MCLand's `Alone` instance.
- The regroup's table gives two of its addresses twice (`state-regroup.ts:49`, where
  `identities.json` goes to `config/personas.json` as `personas.json` does, and
  line 72, `bridge-tokens.json` beside `control-tokens.json`). A state dir with both
  files plans both copies, the second throws, and the boot puts everything back and
  vouches for nothing, as does each boot behind it: `Collide`.
- A put-back works through the same entries whether or not the update, or an earlier
  put-back, had got to them. For releases the assumptions allow, but the run's are not
  of, that brings a file where there was none (`state-journal.ts:271`):
  `PutBackWhole`, with three releases of which the newest renames a tree and
  retires a file where it lands, and the middle one's stores open both addresses.
- A land that undoes the one still waiting takes it out of the queue and, having
  nothing left to carry, tells no card: the card goes on saying `waiting`
  (`project-delivery.ts:622`): `WaitingIsOwed` (Delivery).
- Of approvals: `setTimeout` is not clamped, so a date past 24.8 days fires at once
  and re-arms (`approvals-executor.ts:303`; `conversation-deadline.ts:30` clamps); an
  arm fails a stale item from its own older list, over an outcome written since; an
  item's mark after the owner rejected it writes its file again; and a turn reads
  its file later than the yes was judged, so `DoneAsApproved` is of direct items.

## 5. Proofs

Every theorem holds for every value of the constants its module's assumption
allows: any number of runs, messages, conversations, lands, boots, saves failing or
not. Where one has a hypothesis besides, it names a behaviour of the environment
under which the property is false, and section 4 says how.

| Module | Theorem | States |
|---|---|---|
| Conversation | `LadderBounded`, `HoldKeptOnEntry`, `EntrySaved`, `RecordStands`, `QueueKeptOnEntry` | `LadderBound`, `HoldOnEntry`, `EntryOnDisk`, `JournalOnDisk`, `QueueOnEntry` |
| | `TypesAll`, `OrderStands`, `WordsStand`, `StopStands` | `TypeOK`, `OrderKept`, `WordsOutliveTurns`, `StopHolds` |
| TurnRuns | `PhaseAgrees`, `EndedRunsStay` (`~WritesFail`) | `PhaseHasRun`, `EndedStaysEnded` |
| | `NewestRunStands` (`~EarlyTurns /\ ~RecordsFail`) | `LiveRunOnDisk` |
| | `RestartsCounted` (`~RecordsFail`) | `RestartsBounded` |
| RunLog (`~Overtakes`) | `NothingDrawnIsLost`, `WrittenDownOnce`, `RecordKeepsOrder` | `NoRunLost`, `RecordedOnce`, `RecordInOrder` |
| Admission (`~EarlySends`) | `OneDelivery`, `WordsStay`, `TakenBackStays` | `DeliveredOnce`, `WordsKept`, `TakenBackUnsaid` |
| | `PromiseKept` | `KeepsPromise`: Admission implements MessageDelivery |
| | `TypesKept` | its types |
| Land | `RebasedAlone`, `RefusedWhole`, `TipsProven`, `LandTypeOK` | `RebaseAlone`, `WholeOrNothing`, `TipProven`, its types |
| Delivery | `EveryLandAccounted`, `TheNewestStands`, `FolderSentOnce` | `LandsAccounted`, `NewestLandStands`, `SentOnce` |
| Approvals | `TypesHold`, `YesIsSpentOnce`, `TakenBackIsNeverRun`, `DirectIsAsApproved` | `TypeOK`, `OneYesRunsOnce`, `RevokedNeverRuns`, `DoneAsApproved` |
| StateConvergence | `Typing`, `OneEpisodeOpen`, `PreImagesTrue`, `CommitsOverWhole` | `TypeOK`, `OneOpen`, `ImagesTrue`, `CommitsWhole` |
| | `JournalWrittenAhead` | whatever file a boot changes while it applies, the open episode names (`NamedAhead`) |

Assumptions are those the modules declare: `AttachmentLimitAssumption`,
`ConversationAssumption`, `TurnRunsAssumption`, `RunLogAssumption`,
`AdmissionAssumption`, `LandAssumption`, `DeliveryAssumption`,
`ApprovalsAssumption`, `PathsAssumption` and `PlansAssumption`. They type the
bounds and switches, and three say more. A
booking is an instant or another conversation, never both. In Land there are
finitely many conversations and each child is younger than its parent, since a
conversation is spawned by one that is there; without it two of them could wait
for each other's lease. `PlansAssumption` (StateConvergence) is what holds of the
tables releases are built from (`state-regroup.ts:28`): a tree is regrouped to one
address, none of them one another tree leaves, and only copies share theirs; what
stores open and where documents move are addresses that stay, and nothing the same
release deletes; builds of one digest convert the same files the same way
(`documents.ts:138`).

The hypotheses:

- `~WritesFail`: a save that fails as a turn begins parts phase and run
  (`turn_runs_stuck_phase`), and a row whose clear failed is left by an ended run.
- `~EarlyTurns`, `~RecordsFail`: recovery takes a newer turn's row; the settled row
  of a refused record is filed over one; a row neither spent nor dropped is read
  again, uncounted.
- `~Overtakes`: a turn starts once the last is on the record or set aside.
- `~EarlySends`: a message sent again while a boot recovers the turn that carried it
  goes twice. That some joined words do so too needs no such overlap, and is in what
  the theorems state (`forgotten`), not in a hypothesis.

### The arguments

**Conversation.** Almost every event ends in a save or in nothing, so each
invariant rests on one lemma of what `Saved` does to it (`SavedTypes`,
`SavedBounded`, `SavedHold`, `SavedOnDisk`, `SavedRow`, `SavedQueue`) and one lemma
per family of events (turn, journal, lease, hold, queue, process).

- *The ladder.* `LadderBound` is not inductive: a new hold
  inherits a count. `LadderCount` says the count the daemon goes by (`Counted`: the
  actor's, or an unfired stopped hold's if that is more) is behind the rungs spent
  by at most a ladder for each restart that cost it (`forgot`), and that an unfired
  stopped hold carries at least the actor's count. It
  still needs `StoredBounded`, that the tries on the entry and on disk are
  bounded, because a restart reads them back into the hold. `LadderInv` is both.
- *The kept hold.* A restart takes the entry from disk and the hold from the
  entry, so `HoldOnEntry` needs a hold on either copy to fit the shape a
  restore gives back, and an entry the fleet does not know to hold nothing:
  `HoldInv`.
- *The saved entry.* `EntryOnDisk` is inductive on top of the types, given that
  `Restored` is idempotent (`RestoredTwice`), since memory after a restart holds
  the restored entry and the disk the raw one.
- *The record's row.* Which row stands is the one owed, or with none owed the one on
  disk (`StandingRow`); the record is that one.
- *The queue on the entry.* An empty queue pauses nothing (`QueueSound`), so an entry
  opened over one needs no copy of it, and an entry the fleet does not know keeps
  none (`QueueFits`).
- *What waits.* `WaitInv` types the queue and both its copies, of which a step makes
  only copies of one there was (`NextCopies`). Each operation filters the queue,
  changes messages in place, or puts some ahead or behind (`OnlyRow`, `ChangedRow`,
  `AheadRow`, `AppendRow`), so it keeps the order of those that stay. A boot finds
  what waited (`BootFinds`): by `EntryOnDisk` and `QueueOnEntry`, or, where a purge
  failed to remove its rows, because they are still of an empty queue or have been
  written over (`RowsInv`).

**TurnRuns.** What a step asks of the actor and of the rows is sorted once
(`ActorSteps`, `StepRows`): a mild step moves neither the record, the rows nor what a
boot recovers. `PhaseInv`: one run is open at a time, and the phase is `running`
exactly while one is between its begin and its settle. `EndedInv`: every row, on
disk, on the record or read by a boot, that names a run which is over says it
settled (`Honest`). `LiveInv`: the record is the open run's and written while it is
live, and a recovery has no run beside it. `TriesInv`: every run of a turn is a further attempt
(`AttemptsDiffer`), each row counts the attempts of its turn's last run or more
(`Counts`), and nothing stands for the turn a recovery carries but the row it read
(`RecoveryAlone`).

**RunLog.** One run is in hand at a time, the journal's row names
it, and every older one has ended (`OneInHand`); a run's stage says where its rows
are (`PutDown`): in the running log, which is then its own, until it settles, and on
the record or in a kept log from then on. With the types and `NoRunLost` itself that
is `IInv`. `RecordedOnce` and `RecordInOrder` are inductive only with what a writer
may still append. `OnceInv`: what is on the record already, and may be appended
again, is its last, where the stamp that stops it (`AlreadyRecorded`) looks, and
every kept log still to be written is newer. `OrderInv`: a writer passes every older
kept log before its own rows.

**Admission.** `AdmissionInv` says of each message where it can be
(`MessageSound`): told to turns of one origin, which alone have heard it, or in one
other place (the queue, the lock's hands, the boot's). `RunsSound` says how turns
stand: one at most is live, claims come last, a re-run is of its origin.
`RecoveryAlone`: while a boot recovers, nothing else is said. `IdsKept`: whatever is
on the record and not forgotten is answered again, from its row's id or from memory,
and only what is on the record, or is being put there, is forgotten; `MessageSound`
is of the messages that are not. `OpSound` ties the
lock's step to what it read, which is what a step after an await needs. There is a
lemma for each step of the lock, each stage of a turn and each thing a person does.
The refinement follows from where each message was and is: what is in hand stays so
or waits again, what is spent stays spent, only what waited is taken back, and only
what a turn had is forgotten (`Seen`, `InHand`, `Spent`, `Still`). TurnQueue_proofs gives what each function of
the queue does to the messages in it.

**Land.** A lease and a lock are queues whose head holds, and a land heads the
queues its step says it does (`HoldsItsQueues`): so one land at a time plans and
writes in a repository and rebases a checkout, which is `RebaseAlone`. From a plan
to its write the plan still fits the tree, unless the land met a mishap: the tree
changed by hand under it, or failed it (`PlanFits`). That is `WholeOrNothing`. What
a land would record was in its tree or is what its plan has yet to put there
(`RecordsProven`); a tree holds its own work and what a land brought in, a branch
its own work and its descendants', which the age of conversations orders
(`BroughtIn`). Those are `TipProven`.

**Delivery.** Lands go through the line, the attempt and the queue in order
(`Ordered`), one of a conversation waits (`OneEach`), and the attempt's step says
whether the queue still has what it carries (`QueueAtStep`): that is `Shape`, and
with the types and `Accounted` it is `IInv`. `NewestHeld`: the copy's land is the
last of all lands made. `SentInv`: a land still owed (`Unsent`) has been sent at
most once for each crash, and any other at most once more.

**Approvals.** A yes is a token. It is in the ledger (`PinsUnused`), or
held by the pass that spent it (`HeldUnused`), or used, and never in two of these:
what is pinned or held covers exactly the words it was given to and has done
nothing yet, a yes the pass holds is pinned no more, and one not given yet
(`NotYetGiven`) is nowhere. The three promises alone are not inductive: that a pass
about to act has done nothing under its yes before, and that the words it acts on
are those the yes covers, is only in `Tokens`. `PassShape` ties the pass's step to
the items it holds yeses for. `IInv` is `TypeOK`, `Tokens` and the promises; there
is one lemma per family of actions for the types and one for the tokens.

**StateConvergence.** `Standing` says which episode is open by where the boot is:
once it has recovered, only one of its own conversion set; while it records a new
one, none. That is `OneOpen`. The pre-images need more, because a boot that resumes
an episode copies aside from volumes that are half converted. A layout step only
ever takes a file from one of its addresses to another (`Kin`), and a write either
deletes a file that is to leave (`Leaving`) or lands where nothing stood. So while an
episode is open, what stands at an address that is to leave is nothing or what stood
there, or at another address of the same file, before the episode (`Ground`), and
only such files have a pre-image (`Shaped`). Put-backs keep that as well, since they
go between the same addresses. `IInv` is `TypeOK`, `Standing`, and those
(`OpenTrue`, `RecordTrue`); it is inductive.

The commit is about what the volumes will be, not what they are. `Ahead` says that
with the rest of the plan done they are those of a finished conversion: it holds of
a fresh plan, and each copy, rename and write leaves it as it was, in whatever order
`Due` allows. The one exception is two copies that meet, which leave a step that can
only throw (`Doomed`). With the shape of what is left (`Laid`: each layout step has
its files still to take, no two but copies share an end, a write deletes what leaves
or fills an address that stays) that is `Finishing`, and over a plan with nothing
left to do it says `Converged`. `Named` says that an open episode has an entry for every step left,
which is `JournalWrittenAhead`.

### Only model-checked

- Liveness, which is under fairness and out of the prover's reach, as `ENABLED` is:
  `WaitingGoes`, `LandsEnd`, `EpisodeCloses`, `QueuedGoes`, `ApprovalTakenUp`.
- `PutBackWhole` of StateConvergence. It is not true of every release the assumptions
  allow (section 4), but depends on which addresses an older release's stores open
  beside those a newer one moves; TLC checks it for the run's releases.

The library's induction theorems take an operator, which no installed prover can
instantiate. Where a fold had to be reasoned about (a filter of a queue), a set of
numbers stands for the operator: `Inductive` in TurnQueue_proofs, from the least
counterexample.

## 6. Plan

Modules, in order:

1. **Automations'** fire journal: a one-time wake journalled, switched off and fired
   in steps a crash may fall between; catch-up after a downtime.
2. **AuditTrail**: the chain over torn writes and pruning, the forwarder's cursor.
3. **IngressRegistry** (claim, displace, tear down, per slot and instance),
   **DeployEngine** over small graphs, steer slots against late captures.
4. Admission over `Conversation`'s failing saves, so that `BetweenWrites` becomes
   an action.

Proofs: `PutBackWhole` under an assumption about what older releases open (no address
a later one moves a tree to), by what a put-back cut off anywhere and done again
leaves; then the modules above.

Not planned: user interface, calls to providers and devices, schemas, the code
search's index, the platform's database; either pure input and output, or state
whose only step is a transaction of another program.
