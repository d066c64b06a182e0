# A verification of the exercises' site, its visualiser engine and its checker

The repository holds 44 Go concurrency exercises, a checker for them
(`tools/check`) and a site (`web/`) on which a learner edits, runs and watches
them. The site brings its own Go toolchain into the browser, and a **visualiser**
that replays scenes of goroutines on a deterministic simulator.

These modules model that code in TLA+: the simulator, the timeline and the player
made of its runs, the toolchain and the programs in their workers, the filesystem
they use, the code pane, the page around it, and the runner of the scaffolds. TLC
checks them on small instances, and TLAPS proves what matters most for every
instance: of the simulator's channels, locks and time, what it records, the timeline
and the player, the toolchain, the run of a program, its filesystem, the code pane,
the page around it, and the checker.

## Inventory

| Part | State | Operations | Hard because |
| --- | --- | --- | --- |
| Scheduler (`sim.ts`) | status of each goroutine, ready queue, the goroutine that runs, tokens and where they are | resume, park, wake, finish, panic, go, fatal | a wake is a queue entry and the goroutine runs later; a token is in one place of the picture and in one structure |
| Channels and select (`sim.ts`) | buffer, closed, send and receive queues, one record per parked select | send, notify, receive, select, close, make | a select waits in several queues; those that did not fire it keep a dead waiter |
| Timers and contexts (`sim.ts`) | timer state, a tick nobody received, done | start, reset, stop, fire, cancel, deadline | a tick races Reset and Stop |
| Mutex, condition, wait group (`sim.ts`) | holder, queues, counter | lock, unlock, wait, signal, broadcast, add, wait | the lock is handed to a waiter before that waiter runs; Wait releases and parks at once |
| Time and the verdict (`sim.ts`) | virtual time, ends of work and sleep, the outcome | advance, fire what is due, conclude | several things due at one instant; the verdict is read off what is left |
| Recording (`sim.ts`) | steps with their moves and snapshots, the cap on steps | emit, put, append, shift, print, mark, exit, judge | moves and snapshots are two accounts of one thing; a run may halt inside an operation |
| Endings and stops (`sim.ts`) | none | lockCycle, resolveStops, lineFor | searches over a finished run |
| Timeline and player (`timeline.ts`, `Player.tsx`) | beats; position, playing, the frame asked for | frames, renders, every button and key | a frame reads the last render; positions are compared with and without a tolerance |
| Toolchain (`client.ts`, `toolchain.ts`, `toolchain.worker.ts`, `go.ts`) | pending requests by id, the chain of builds, the formatter, the global filesystem | build, format, start | awaits between a change of a global and its use; failures at every step |
| Running program (`client.ts`, `runner.worker.ts`, `go.ts`) | the batch of output, its timer, the watchdog, the promise | print, flush, tick, exit, stop | answers, errors and Stop race; timers cannot fire while Go runs |
| Filesystem (`memfs.ts`) | directories, files as growing arrays, descriptors | open, read, write, truncate, rename, remove | size and capacity of a file; open files that are removed |
| Code pane (`CodePane.tsx`, `storage.ts`) | text, two timers, the check in flight, the job, the status of the last render; saved: the code, the status | edit, check, format, reset, keep mine, run, test, stop, leave, render, reload | state read before an await, or at a render, and used after it; saves that are dropped; a toolchain that dies |
| Page (`router.ts`, `data.ts`, `ExerciseView.tsx`, `Markdown.tsx`, `VizDoor.tsx`, `doorIntent.ts`) | route, cache of fetches, view, doors, the pending intent | navigate, fetch, mount, subscribe, ask | a request made before anyone listens, or after they have gone |
| Theme, shell, splitter (`theme.ts`, `App.tsx`, `Sidebar.tsx`, `Splitter.tsx`) | preference, list and drawer, statuses, fractions; all saved | clicks, keys, renders, other pages | several pages share the storage; effects come after renders |
| Console (`console.ts`, its use in `CodePane.tsx`) | lines, the line that has not ended, chips | write, note, clear, greet; of the pane, every end of a run | output is cut anywhere and of two kinds; Clear comes in the middle of a line; each end of a run treats the chips in its own way |
| Checker (`tools/check/run.go`) | a semaphore, a wait group, verdicts | build and run every scaffold | a bounded pool of goroutines |

How they meet: a scene is a program of operations over the simulator, which records
a run; the timeline cuts the run into beats and the player plays them. The code
pane asks the toolchain's worker for builds by message, starts one worker per run,
and prints to the console, whose failing tests send an intent to the doors of the
README. Programs and tools call the filesystem. Pages of one browser meet in
`localStorage` only.

What makes each part correct is in the table of runs; `PROJECT.json` lists the
hazards of the code at their lines with the properties that cover them.

## Modules and code

| Module | Models |
| --- | --- |
| `GoSched` | goroutines, the ready queue, tokens |
| `GoComm` (extends `GoSched`) | channels, select, timers and contexts as sources |
| `GoSync` (extends `GoSched`) | mutexes, conditions, wait groups |
| `GoClock` (extends `GoComm`) | virtual time, the run loop, the verdict |
| `WaitSets` | abstract: what parking promises, without queues |
| `Recording` | steps, moves and snapshots of a run, from the first to the closing one |
| `Ending` | the three searches, as questions and answers |
| `Timeline` | `buildTimeline` and the functions on positions, as functions of a run |
| `Player` (extends `Timeline`) | frames, renders and clicks |
| `Toolchain` | client, worker, chain of builds, formatter, the globals of `go.ts` |
| `Calls` | abstract: each call is answered at most once and about its own files |
| `Runner` | one run of a program from its worker's start to the settled promise |
| `MemFS` | the tree, the arrays and the descriptors, with every error |
| `Files` | abstract: a file is a sequence of bytes |
| `CodePane` | the pane with its storage, its jobs, and the pages of its life; of the toolchain, that it answers, fails or dies |
| `Site` | routes, fetches, the view, the doors and intents |
| `Theme`, `Shell`, `Splitter`, `Console` | the parts of the page with these names |
| `Checker` | `checkScaffolds` and `checkScaffold` |
| `Programs` (extends `Checker`) | puts `Checker`, `Runner` and `MemFS` beside each other, and says what is claimed of each |
| `Page` | the same for `Site`, `Theme`, `Shell`, `Splitter` and `Console` |
| `Replay` (extends `Player`) | the same for `Recording`, `Ending` and the player of what was recorded |
| `GoSchedProofs`, `GoSyncProofs` | theorems about the modules they name |
| `GoClockProofs` | theorems about `GoComm` and `GoClock`, whose operations are those of `GoComm` |
| `ToolchainProofs`, `CodePaneProofs`, `ProgramProofs`, `PageProofs`, `ReplayProofs` | theorems about the modules they name |
| `MC*` | instances for TLC and their bounds |

Variables have the names of the fields they model: `ready`, `status`, `buf`, `sendq`,
`holder`, `condq`, `fireAt` in the engine; `pending`, `globalFs`, `formatter` in the
toolchain; `buffered`, `idleTicks`, `truncated` in a run; `stored`, `checkTimer`,
`runRef` in the pane. What has no field in the code says so in its declaration:
message queues, and the variables marked *history*, which no action reads.

**What one step is.** JavaScript runs to the next `await`, callback or end of the
handler, and Go's simulator from one operation of a goroutine to the next; so an
action is the code between two such points, with every call it makes. Where the
code awaits, the model has two actions and anything may come between.

**The engine.** One step is one operation of the goroutine `cur`, or one step of
the scheduler while `cur = Nil`. A program is not part of the modules: the running
goroutine may execute any operation with any operand a scene could write, so what
holds of them holds of every scene over these nodes. The engine numbers tokens in
the order they are made; `GoSched` names one by its maker and a count of that
maker, so that schedules do not differ by names. The record that the waiters of a
select share is the pair `<<g, n>>`, the n-th park of `g`, and its flag is
membership in `fired`. Waiters of a mutex and of a condition are sets, because
the engine picks at random; `close` and `cancel` wake in the order of the queue.

**Recording.** The state that a snapshot shows, and what `emit` appends. Who waits
for what is in the other modules of the engine, so here one that is blocked is
woken by any operation of another. `Recording` is where `os.Exit`, the slices,
facts, printing, tests and `MAX_STEPS` are.

**React.** A click or a key runs its effects before the next event, so such a
handler and the effects of what it sets are one action. Effects of a first render,
of a promise's answer and of an animation frame come later and are actions of
their own: `Mount`, `Subscribe`, `Render`. A frame of the player leaves its
position to the next render (`due`, `pausing`), and another frame or click may
come first.

**Storage.** Every save may be dropped (`try` in `storage.ts`), and pages of one browser
share it. `Theme`, `Shell` and `Splitter` decide it save by save; `CodePane` has a storage that
throws for a while, and another page that saves its own code or status. The modules say which keys.

**The status of an exercise.** `setStatus` saves it and sets a state of the app; the pane hears of it
at the next render, through a ref. In `CodePane`, `status` is what the next render will show and
`seen` what the last one did. An edit takes away only a status it has seen.

## Runs

| Run | Instance | Shows |
| --- | --- | --- |
| `comm_rendezvous` | 3 goroutines, an unbuffered channel, 3 parks altogether, selects of 2 | `NoMissedRendezvous`, `ReadyExact`, `NoLostWakeup`, and that parking implements `WaitSets`: three are needed for a queue of two on one end, and two parks of one goroutine leave a dead waiter in a queue |
| `comm_timers` | 2 goroutines (one started by `go`), a timer, a channel of capacity 1 | `CommTypeOK`, `FiresOnce`, `NoMissedSignal`, `TokensInPlace` |
| `sync` | 3 goroutines, 2 mutexes, a condition, a wait group up to 2 | all of `GoSync`; three are a holder, a waiter and a signaller |
| `clock` | 2 goroutines, a timer of 2 ms, a deadline at 2 ms, durations 1, 2 and for ever | `ClockInv`, `OnTime`, `VerdictIsFinal`: two things due at one instant, work and sleep across them |
| `clock_until` | the same with `until` at 3 ms | a violation, see below |
| `replay` | see below | what is made of a run, from its recording to the player |
| `toolchain` | 3 calls: a run, a format, a check that fails, a test without a main; everything may fail | `OneBuild`, `BuildsAreReal`, the service `Calls`, `EveryCallEnds` |
| `toolchain_format` | 2 calls, nothing dies | a violation, see below |
| `pane` | 3 versions of the code, 2 of them published, 2 mounts, 1 job, 1 edit, 1 fault | `PaneInv`, `VerdictFitsCode`, `FormatKeepsEdits`, `PaneSettles` |
| `pane_stop` | 2 versions, one of which loops | a violation, see below |
| `page` | see below | what a page keeps, and that it settles |
| `programs` | see below | what programs need of the checker, their worker and their files |

`replay`, `page` and `programs` each hold parts that share no state. Their module has a
variable `part`, chosen at the beginning: a behaviour moves the variables of its part, and
the others stand still. So each part is checked as if it were alone, and the parts cost the
sum of their states.

- **replay** has four. *positions*: every position one click leads to, in every run of up to
  three steps at instants 0 and 1 (the run ends by 2) with every set of stops; three steps are
  two that join a batch and one that does not. *plays*: a player that plays three such runs with frames of two lengths, two restarts, new runs or changes of
  preference, and any clicks. *recording*: two goroutines, a slice of two, two tests, a
  cap of two steps, so that the third operation is one too many, three tokens. Three operations
  are enough to fill a cell, take its value out and end the run while it is held. *ending*: all graphs of four goroutines and three
  mutexes, all runs of up to three events with all pairs of stops from a set, all codes
  of three lines.
- **page** has five. *site*: three exercises (two doors, one door, none), two clicks, one failed
  fetch. *theme* and *shell*: two pages and three or four events. *splitter*: a scale of
  seven and three renders. *console*: two runs of any kind that end in any way, three marks
  in pieces of up to two, a cap of two lines, a spec that comes late, Clear and Reset at any time.
- **programs** has four. *checker*: three exercises, four processors and so two places, two
  runs each. *run*: three writes to two descriptors, a cap of two. *tree*: paths of up to
  two names, absolute, relative and `..`, three nodes, files of up to one byte and one descriptor.
  *file*: one name, two descriptors of it as long as its array has its first length, files of up to
  three bytes in arrays of at least two.

Bounds are conjuncts of the guards, or of the next state in the `MC` modules, and are
named in the modules. They are chosen so that each queue, cap and counter reaches its limit
and is passed: a select of two cases leaves a dead waiter as a larger one would; capacities 0
and 1 are the two shapes of a channel; three calls are one under way, one in line and one that
disturbs them; one edit is enough to change the text under a build or a check that is in flight. One fault
is one of: a storage that starts to throw, a save by another page, a build that is rejected or crashes, a runner that fails, a tool that dies, a
reload that finds a new version; it meets everything the learner does, but no second fault. Deadlock is not
checked: programs may block for ever, calls are bounded, and a learner may do nothing.
Goroutines are symmetric in the runs that say so; liveness is checked without symmetry.

A property of several parts is a conjunction of named ones, each with its comment in its
module; so `PaneInv` is `PaneTypeOK`, `OneJob` and `NothingUnsaved`, and `ClockInv` is `ClockTypeOK`,
`NothingOverdue`, `ClockLosesNobody` and `VerdictFits`.

### Refinement

- `GoComm` implements `WaitSets` (`comm_rendezvous`, and proved): a goroutine takes a set of places in one
  step and leaves all of them in one step. The mapping `WaitsOf` reads the places of the *live*
  waiters; the dead ones a select leaves behind disappear in it, which is what `Shared.fired` is for.
- `Toolchain` implements `Calls` (`toolchain`, and proved): pages, messages and the worker together
  answer a call at most once and about its own files.
- `MemFS` implements `Files` (`programs`, and proved): the content of a file is the used part of its array, and
  nothing of the spare part ever shows. This holds for programs that do not write past the end
  of a file (`Gaps` is false): see below.

### Fairness and liveness

| Property | Fairness | Why the code has it |
| --- | --- | --- |
| `EveryCallEnds` | weak, of messages, downloads and the steps of each handler | event loops run what is due; a started tool ends or dies |
| `PaneSettles` | weak, of the check's timer, of answers while no tool has died, and of the programs that end | `EveryCallEnds` has them: a call is answered unless the page shows an error. `client.ts:36` settles no call when a worker dies, so a pane may stay busy then, and `JobsEnd` says so. That the toolchain gets ready is not assumed, nor anything the learner does |
| `PlaybackEnds` | weak, of renders and frames | the browser renders, and asks for a frame as long as one is wanted |
| `PageSettles` | weak, of fetches, mounts, effects and Monaco's answers | promises settle, React runs the effects of what it renders |
| `ProgramsEnd` | weak, of messages and ticks; strong, of the flush timer; weak, of each goroutine of the checker | a timer that is due has its turn among the timers of a program that sleeps again and again; Go runs who can run, and a command ends by its timeout |

`OutputAppears` has the premise that the program yields again and again: JavaScript's timers do not
fire while Go computes, and the code cannot change that. The run loop of the simulator is one
sequential loop, so its modules need no fairness.

### Findings

Three runs show that the code does not do what the repository says it does.

- `clock_until`: `model.ts` says that a deadlock is a state in which "nothing can wake anything".
  `Sim.conclude` looks at goroutines only, and a run that stops at `until` with everybody blocked on
  a timer that still runs is called a deadlock. Without an `until` the property holds (`clock`).
- `toolchain_format`: the first format between the two parts of a build's `startGo` replaces the
  global filesystem, and the build of correct files fails. Without formats it holds (`BuildsAreReal`).
- `pane_stop`: "runner worker (one per run, so Stop always works)", but who leaves the pane while its
  build is under way leaves a program behind that nothing can stop.

Other things the models take as they are, and that a reader of the code should know:

- `memfs.ts:333`: truncation keeps the array, and a write past the end of a file shows the old
  bytes in the gap again. The Go tools do not write past an end; `Gaps` says whether programs do.
- `memfs.ts:243`: `rename` replaces a directory that is not empty, and moves a directory below itself.
- `Player.tsx:610`: a frame that begins within half a millisecond before a stop passes it.
- `Player.tsx:78`: a new run sets the position to 0 in an effect, and a frame before the next
  render may overwrite it.
- `Player.tsx:174`: Restart between the frame that ended playback and its render leaves a player
  whose button says Pause and that stands still (`raced` in `Player`).
- `App.tsx:33`: a page that opens writes the preference for the column back that it has just read,
  over that of a page that was quicker.

## Proofs

| Module | For every | Theorems |
| --- | --- | --- |
| `GoSyncProofs` | finite set of goroutines; any mutexes, conditions, wait groups, deltas | `SyncTypes`, `SyncReadyExact`, `LocksAreNotIdle`, `WaitsInOnePlace`, `GroupsAtZeroAreEmpty`, `LockedOnReturn` |
| `GoClockProofs` | channels, capacities, timers, contexts, and selects of any size; durations, deadlines and `until` | `CommTypes`, `CommReadyExact`, `ParksFireOnce`, `NobodyIsLost`, `WaitSetsImplemented`, `NoRendezvousIsMissed`, `NoSignalIsMissed`, `TokensStayInPlace`, `ClockIsRight`, `EverythingIsOnTime`, `VerdictsAreFinal` |
| `ReplayProofs` | goroutines, slices, tests and caps; graphs of waits, events, stops and codes; runs, display times, lengths of frames, positions and any number of clicks | `RecordingIsTrue`, `RecordedRunsAreRuns`, `EndingsAreRead`, `TimelineIsRight`, `PlayerIsKept`, `PlaybackGoesOn` |
| `ToolchainProofs` | requests and any number of calls, with tools that die | `ToolTypes`, `BuildsTakeTurns`, `ServiceImplemented`, `BuildsAnswerForThemselves` |
| `CodePaneProofs` | codes, scaffolds, behaviours; any number of pages, jobs, edits and faults | `PaneKeepsItsWork`, `VerdictsFit`, `FormatsKeepEdits` |
| `ProgramProofs` | exercises, processors and runs; texts, limits and prints; paths, flags, bytes, files, descriptors and lengths of arrays | `CheckTypes`, `ReportsAreWhole`, `NeverTooMany`, `CheckerSafe`, `RunIsKept`, `TreeIsKept`, `FilesAreSequences` |
| `PageProofs` | exercises and their doors, pages, scales and limits; any number of clicks, failed fetches and events; tests, texts cut into any pieces, caps and runs of the console | `SiteIsKept`, `ThemeIsKept`, `ShellIsKept`, `SplitterIsKept`, `ConsoleIsKept` |

The assumptions are those named in the modules (`SchedAssumption`, `CommAssumption`,
`SyncAssumption`, `ClockAssumption`, `ToolchainAssumption`, `PaneAssumption`, `CheckerAssumption`,
`ProgramsAssumption`, `PageAssumption`, `ConsoleAssumption`, `TimelineAssumption`, `PlayerAssumption`, `ReplayAssumption`, `QuestionsAssumption`): sets of nodes
are disjoint, as the ids of a scene are unique, goroutines are finitely many, a condition has a mutex, the value that
stands for nothing is no code, no status, no run, no exercise, no test, no chip, no line, no number and no time, a newline is no word, bounds are natural numbers, a path is absolute or
not and a sequence of names, bytes are numbers and 0 is one, a scene is drawn by one door of its exercise at most (`Markdown.tsx`
groups the fences by tier, and a tier has one pin), what is recommended is in the catalogue, and the first fraction of a splitter is
within its limits. One that waits for a mutex waits for one of the scene and has not ended, and the `nth` of a stop is at least 1. A batch is shown for longer than the tolerance of half a millisecond, as the constants of
`timeline.ts` have it. That the steps of a run are in the order of time and none is later than its end is what `PlayerAssumption`
says of `Runs`, and what `RecordedRunsAreRuns` proves of the simulator. `VerdictsAreFinal` assumes
that the scene has no `until`: with one it is false, which is what `clock_until` shows.

**Sync.** None of the properties is inductive. `Unlock` makes a waiter of the mutex ready, and
that keeps the ready queue exact only if the waiter was blocked. `Parked` states it: while the
program runs, a goroutine with a `waitMu` is blocked; one in a condition is blocked, has no `waitMu`
and is in no other condition; one in a wait group is blocked, there once, and nowhere else; and
a blocked goroutine is in one of the three. `SyncInv` is the conjunction. One lemma per operation
shows that it keeps it. `GoSchedProofs` has the lemmas that do not depend on what is waited for.

**Channels.** `FiresOnce` is not inductive either: the waiter that is popped must be of the park its
goroutine is in, and not one a select left behind. `Waiting` says what makes it so: a record is
in a queue at most once and is of no later park than its goroutine's last (`OldTickets`), those
that have not fired are the last ones of the blocked goroutines (`FiresOnce`), and whoever is blocked
has such a record in some queue (`BlockedWait`). Every operation is one of two kinds: it *keeps*
the queues (each loses only waiters that have fired or fire in this step, `Kept`), or it *parks* the
running goroutine (`Joins`). The lemma of an operation shows which kind it is.

**Places.** The refinement of `WaitSets` needs more than which kind a step is: a step that keeps the queues
*shrinks* what waits (`Shrinks`: the live waiters of a goroutine are all there or all gone, since those
of one park share their record), and one that parks *grows* it for one goroutine that waited nowhere (`Grows`).
So each operation maps to `Wake` of some goroutines, to `Park` of one, or to a stutter. `MeetInv`
adds to `NoMissedRendezvous` and `NoMissedSignal` that a buffer never exceeds its capacity: a full one is
then exactly at it. `TokensInPlace` holds because locations are changed by few operators (`Moved`,
`Shelved`, `Without`, `DropHeld`), and each changes tokens at named nodes only: `PlaceInv` says, for the
buffers, the timers and the hands of senders apart, that tokens are where the structures have them, and that
nobody has a token whose number was not given out (`Numbered`), so that a new token is never drawn over an old one.

**Clock.** `NothingOverdue` and `OnTime` need the calendar (`Calendar`): who sleeps or works and which timer runs has
a time, nobody else has, and none of those times is past (`Ahead`). The jump of the clock keeps it because
it goes to the least of the times, what is fired then is due exactly at that time, and no operation moves who is
away: one lemma per operation (`Effect`) shows that it only touches goroutines that run or are queued, which
is where the invariant of the channels is used again. `Turns` says that things fire only between two
turns of goroutines, and that a run that was stopped has its reason. `Going` holds until the verdict, `Concluded` after it; the step between them
is the one lemma about `Sim.conclude`. `VerdictIsFinal` follows from the times that are left: when the next one is
`Forever`, so are all. In the model a sleeper has a status of its own, `sleeping`, where the code has
`blocked` and a `wake`; what reads the status as the code does uses `Parked`. `Forever` stands for `Infinity`, and
`Fits` keeps every other time below it.

**Recording.** `RecordingInv` compares the last step with the one before it, and what makes it inductive is the state that is
not yet recorded: `RecSteps` says that the tokens are where the last step shows them, and the whole world too unless time has gone on, and
`RecWorld` that a token is in a cell or printed exactly where its place says. An operation builds its step by births, moves and
drops, each a call on `[loc, moves, made]`. `Tells` is what each call keeps: the moves so far lead from the places before the operation to where the tokens
are now, and no token has two. A token may be moved if it has not been in this step, or if the step made it (`Free`): `emit` then
turns the birth and the move into one. `MoveEach` needs an induction for its loops, the cells of a shift and the hands of those who leave. `RecLimits` counts
the steps in each phase.
The simulator records at most one step at a time, at the instant it leaves (`RecordsNow`); so the steps are in the order of time, and what holds
of the last step holds of every one.

**Ending.** A behaviour is a question and its answer, so the invariant only says which search gave the answer (`EndIInv`), and the work is in
the searches. The path that `lockCycle` takes from a goroutine is the chain of those it waits for, up to the first place where it ends or meets
somebody again (`PathIs`); there is such a place within the number of goroutines, by the pigeonhole (`ChainTurns`). If the chain returns to its start there,
everybody on it waits for himself (`AllInTheRing`); if it meets another one there, it never returns to its start (`NeverReturns`). So a ring is named
exactly when there is one. `resolveStops` keeps that the next stop is searched from behind the last one found (`StopsSoFar`); the n-th match
is found by counting the matches up to an index, which grow by one at most (`HitsMore`, `NthIs`).

**Timeline.** The beats are a recursive function of the step they begin with, of the clock and of the display. `Shows` says what the beats from
a step on are: they begin where they are told to, follow one another, cover every step from there in one batch, and end at the
end of the run. It is proved from the last step back, with `BatchFacts` for what one batch is. What follows for positions needs `Row` alone: each beat has a length
and begins where the one before ends, and a batch is longer than the tolerance. The search by halving keeps that the beat
it looks for is between its bounds, by induction on their distance; and the ends of two batches are further apart than the tolerance, so that
Step and Step back undo each other.

**Player.** `PlayerIInv` adds to `PlayerInv` that what is played is one of the runs; then `Row` holds of it, and a frame, which moves
within it and stops at a stop, goes on and not beyond the end: `PlaybackGoesOn`.

**Toolchain.** `Messages`: a call under way to the worker has no handler yet, and every answer under way
is about its own files. `Chain`: each build is in the chain once, all but the first wait, and one that is
started is the first and has its files in the directory. With the types they are inductive. `OneBuild`
follows, and so does the refinement: a call maps to a call, an answer the page receives to a settled
one, everything else to a stutter. `BuildsAreReal` needs the whole course of a build, in `RealInv`: as long as
nobody formats, a build that is started has the globals of `go.ts`, the tool that runs reads the
filesystem of the build, each earlier tool took these files, and every answer given or under way
is what the files deserve (`Course`, `RealPosts`, `RealResults`). With a format it is false, which is what `toolchain_format` shows.

**Code pane.** `IInv` has three parts beside the values. `Work`: jobs are numbered without a gap (`JobsAre`), a job that waits for
the toolchain is in the line once, with its text, and is building (`Lined`), the pane on the page has one job at most and Stop reaches only what
runs (`OneMine`), and one that is gone is not busy. `Text`: when no save is due, and neither the storage dropped the last save
nor another page has saved since (`kept`), the stored text is the shown one. What a dropped save loses is lost, and so are the last 300 ms
before a reload; leaving the pane loses nothing, because it saves what is due. `Verdict`: a job that goes on is about the text shown unless the
text has changed since it was started (`overtaken`), so the verdict it leaves is too, and an edit takes that verdict away if a render had shown it. What is left to a
learner who was quicker is said by `judged`: a verdict of an overtaken job, or one that no render had shown before the edit, is about no text, and the code
shows it; the next verdict of tests that nothing overtook is exact again.
`FormatKeepsEdits` is an action property that follows from the guard of the answer and the types.

**Checker.** The counters count sets (`CheckTypeOK`), the loop has started exactly the goroutines below
`next` (`Started`), a goroutine that releases has its verdict (`Judged`), a good verdict is of as many failed
runs as were asked for (`Counting`), and when `checkScaffolds` has returned nobody is left (`Settled`).
That the set of goroutines at work is never larger than the semaphore (`Bounded`) follows from the count.

**Run.** That output is neither lost nor doubled (`NothingLost`) is about the last line of the invariant: what is shown, then
what is under way, then the batch, is what was printed, cut at the limit. `Carried` says it, with a batch whose count is
that of the prints until it is cut (`CountOK`). `Queue`: a message of the end is the last one of the worker and comes after the flush, so that
`ExitShowsAll` survives the page's reading it. `Course` says what ticks and the watchdog can be at each stage of a program. A print, a flush and an end are
lemmas about a batch alone (`Takes`, `FlushSends`, `EndsWell`); the lemmas of the actions put them into `RunInv`.

**Filesystem.** `FSInv` says that nodes are numbered without a gap up to some k, that tables, arrays and descriptors are about those
(`FSTyped`), and that each node but the root has one name in one directory (`Single`): `rename` and `remove` look up the name
again after they have found the node. From it follow the types and `OneName`. `FailureKeeps` is proved call by call: every error
returns before the first write. `LosesOne` compares what can be reached by a path before and after: `Reached` is the least set
with the root that is closed under entries, and each call takes away one entry at most.

**Files.** The content of a file is `Shown`, the used part of its array. Each call of `MemFS` maps to `Read`, `Write`, `Truncate`, `ReadAll` or
`Naming` of `Files`, or to a stutter: a write into the array is the abstract overwrite (`Mixes`) whether the
array had room or is a copy of twice the length (`Begins`), and since no write begins past the end, the spare part of an
array, old bytes included, is overwritten before it shows.

**Recursive functions.** Resolving a path, the text of a queue of messages, sums of lengths, the moves of a step, the path of a goroutine, the stops, the beats of a run and the search
for one, the lines of a text, as they are written and as they are read, are recursive functions. The theorems of the
library on induction take an operator, which the provers cannot instantiate; so `NatSetInduction` does induction with a
*set* of numbers, and `IntervalRecursion` builds from it that a function defined by recursion on an interval has
its values: any property one can write as a set is within reach.

**Page.** A splitter between two renders shows what the pointer or a key left or what React wrote (`ShownFrom`), and React wrote last
what it read last unless something was saved since (`ReadLast`); so one that is let go and saved shows what is saved, or
the next render differs from the last one and writes (`Rests`). The list of `Shell` fits the exercise (`ScopeFits`) from the effect of a new route on, and not
in the first render, which the property leaves out for the same reason. `Theme` needs `Painted` for each document: the blocks of code have the editor's theme, or the
last colouring call that was not answered found that theme; calls are answered in their order, so the last one decides. What a page was told of the
system may be old, so `Fits` claims the effective theme only of a page that has heard. `Site` needs `DoorsFit`, that what a door shows is its
own scene, for `OneDoor` to follow from the disjointness of the doors, and `ClicksCount`, that doors opened by clicks and the
intent that waits are together no more than the clicks: with an intent that waited twice, the last answer would break it.

**Console.** What was said is read mark by mark (`Reads`), and what the console writes is cut at the newlines (`Cuts`): two recursive
functions, one on the whole of what was said and one on a piece. `Agrees` relates them: the line that has not ended is the one that
is being read, what was reported is what was told, and the lines shown are the last of all (`Shows`). `CutOnce` is one round
of `write`'s loop: up to the mark it has come to, the console agrees with the reading as it stood where the rest of the piece begins. That
the rest of a piece may be appended at once (`ChunkRead`) is what makes the result independent of how the output is cut. `Holds` is all that is kept of the text and the
greeting, and speaks of a console and of what was said to it, so that each operation of the console is a lemma about two records (`NotedKeeps`, `WrittenKeeps`, `ClearedIs`) and each end of a run is a
few of them in a row. That a console without lines has said nothing, on which the greeting depends, `ReadIn` gets from the reading: whatever is said leaves a line.
Chips are not a function of what is shown: a build, a main and another test leave them alone, and the page sets them itself when tests begin, do not build or are stopped, and on Reset and Clear the reckoning
begins anew. So `Follows` is relative to `basis`, the chips the page set last and the number of lines reported by then: a line that ends keeps it (`FollowsMore`), and setting the chips begins
it again (`FollowsAnew`). An end of a run that sets no chips keeps both (`OverKeeps`); one that does must leave no chip running *after* its note has ended the
last line (`OverCut`), which is `StopClears`.

Only model-checked, and why: liveness (the table above) and whatever depends on `ENABLED`, which the installed provers do not
handle. Every safety invariant the runs check is stated by a theorem.

## Not modelled, and why

- Layout and the hash of a diagram (`layout.ts`, `diagramHash.ts`), the drawing (`Graph.tsx`,
  `CodePanel.tsx`): geometry and text, no state beside the frame.
- The 29 scenes (`viz/specs`): each is one program, and the modules of the engine let TLC choose all programs.
  A scene that uses locks, channels and time together is covered by three modules and not by one.
- What an operation changed before it called `Sim.fatal`, which is an error of the scene and ends the
  run; the wording of reasons; edge states, the list of changed parts and the keys in a snapshot.
- Empty selects, and selects that name one node twice in one direction: no scene has one.
- Modes, times, `chmod` and `stat` of the filesystem; loading of its library and the generated test main.
- Some failures, each in the module that does not have it: a build of correct files that fails because `go.run` rejects or exits with 2
  (`go.ts:80-86`) is an outcome in `CodePane` (`crashed`) and not in `Toolchain`; a spec whose chunk cannot be fetched
  (`useVizSpec.ts:20-21`), while docs and pane load the same chunk, so that a link in one implies the spec in both, is not in `Site`; a verdict that arrives when
  the learner is at another exercise is in `CodePane` and not in `Shell`, whose `SetStatus` is about the exercise of the page; a storage that throws when it is *read* is
  nowhere: `storage.ts` answers with the default, which is what an empty one does.
- Monaco: `Theme` lets its answers to `colorize` arrive in the order of the calls. `Markdown.tsx:141-146` relies on it: nothing there looks
  whether an answer is older than the one before.
- In `CodePane`, the check that a pane has sent for its last text when it is already gone: nobody reads it. In `Console`, leaving the pane: a console is of one pane, and is gone with it.
- The tabs of read-only files, the links of the console, focus, titles and scrolling.
- The star count of the header: one call a day, and nothing depends on it.
- Lints, hooks, `try` and the diagrams of the checker, the generators in `web/tools`, and the scripts
  in `web/scripts`: sequential, and about text. They were read for what they say of the code.
- The exercises, incomplete on purpose, and the solutions, which are documents.
