# Lector in TLA+

Lector is a terminal screen reader: it runs a program on a pseudo terminal
(directly or through tmux control mode), keeps a model of the program's screen,
composes that model with its own overlays into scenes, draws the scenes on the
outer terminal, and speaks what changed through a speech server process.  This
directory holds TLA+ models of the parts of Lector whose correctness depends on
order, partial failure, bounds and concurrency, the TLC configurations that
check them on small instances, and TLAPS proofs that hold for every value of the
constants.

Source paths below are relative to the crate's `src/` directory; `lector-ghostty`
is `crates/lector-ghostty/src/lib.rs`.

## The system

| Component | State it keeps | Hard behaviour |
|---|---|---|
| Event loop, process (`main.rs`) | poll registrations, deadlines, signals, terminal settings | many sources on one thread, edge-triggered readiness, stop and continue, cleanup whose steps fail |
| Output scheduler (`output_scheduler.rs`) | pending and active transactions, frames awaiting a flush, the synchronized-output hold | partial writes, blocked and failed flushes, eviction at the limit, two timeouts racing close and bypass |
| Scene renderer (`presentation.rs`, `app/view_stack.rs`, receipts in `app.rs`) | shadow of the physical screen, predicted scenes of queued frames, numbers of pictures | a shadow trusted while frames are half way, replaced or rejected; wide cells; hashes that collide |
| Virtual terminal (`terminal.rs`, `view.rs`, `lector-ghostty`) | live, committed and presented screens, history, print reports | batches cut anywhere, transactions, renumbered history, a bounded journal |
| Views (`views/*`, `app/view_stack.rs`) | base views, overlays, transitions, retired views | views closed while their frames are on the way, refused frames |
| Screen reader (`screen_reader/*`, `app.rs`, `app/pty.rs`) | bursts with deadlines, echo queue, deferred deletions | reading while the screen still changes, behind the keys |
| Review, tables, clipboard (`review/*`, `views/review.rs`, `table*`, `clipboard.rs`) | frozen documents, cursors, pending keys, tables found, a ring | long sequences of keys between machines that must agree |
| tmux (`tmux_*.rs`, `app/pty.rs`, `app/tmux_*.rs`) | pane flow, gateway, connection forest, topology, pane copies, key tables | lossy pauses, captures and inventories racing output, refusals, nested and reused connections |
| Speech (`speech/*`, `proc_server_common.rs`, `native_tts_server.rs`) | mailbox, server, calls, utterances | two threads, a server that crashes, hangs, answers late |
| Child pty, probe, input (`pty.rs`, `terminal_protocol.rs`, `app/input.rs`) | write queue, terminfo cache, unfinished sequences, keys down | a child that stops reading, late answers among keys, several Lectors |
| Diagnostics (`diagnostics.rs`) | bounded log queue, writer thread | drop-oldest under contention |

The event loop owns everything but the speech worker, the log writer and the
startup signal monitor, which are threads.  A program's output goes `pty.rs` →
`app/pty.rs` → terminal model → view stack → renderer → scheduler → terminal; a
frame's receipt comes back from the scheduler to the renderer (`confirm`) and to
the screen reader, which may read only what is on the glass.  Speech goes screen
reader → worker mailbox → supervisor → process driver → server, and lifecycle
events come back through the supervisor's handle.

## Modules

Every module names the files it translates, and `map` in `PROJECT.json` the lines
of each definition.  An action is a whole handler; a handler is split only where
another thread, another process, a crash, or a call that can block or fail gets
in between.

**The way to the glass**

| Module | Models | State and steps |
|---|---|---|
| `FrameQueue` | the contract between scheduler and renderer | frames waiting, current, owed, reported; accept, evict, clean up, activate, begin, finish, report, abandon |
| `OutputScheduler` | `output_scheduler.rs` | one variable per field; one action per public operation; `drain_ready` ends a step at each call of the writer |
| `ScenePresentation` | which rows a frame repaints, the shadow, receipts, suspend and resume | EXTENDS `FrameQueue`; scene, shadow (`presented`, `confirmed`), the batch of every generation, physical rows |
| `SceneRenderer` | what the incremental renderer writes for a row | cells with wide halves, operation hints, the screen the terminal makes of it |
| `SceneImages` | pictures: pane stores, clipping, numbering, transmission | the terminal's uploads and placements beside the renderer's belief |
| `TmuxLayout` | the parser of tmux's layouts and its borders | the tree read node by node, rectangles, verdict |

**From bytes to a view**

| Module | Models | State and steps |
|---|---|---|
| `TerminalStream` | `lector-ghostty` observer and batches, `view.rs` commit | grid, observer, transaction, report; symbols arrive, batches end anywhere |
| `ViewEvidence` | the journal of print records, publication, finalization | revisions and epochs; frames captured, flushed, finalized |
| `ViewHistory` | history rows, lineage, deltas, the reviewed history | tracked row, windows, chained deltas; scrolls, trims, resets, frames late |
| `ViewStack` | `views/stack.rs`, transitions in `app/view_stack.rs` | base, overlays, retired views, scenes waiting and written |
| `Stabilization` | when a burst is read | live, presented and read revisions, adaptive profile, ages |
| `AutoRead` | what is read of a burst | screens before and after, print summary, echo queue |
| `DeferredDeletes` | Backspace and Delete | a line behind its keys, intents |
| `TableNavigation` | table detection and commands | screen, cursor, session |
| `Review` | the review overlay, its parser, and the clipboards | document, pending keys, cursor, page, selection, searches, ring |

**Speech and log**

| Module | Models | State and steps |
|---|---|---|
| `SpeechWorker` | `speech/worker.rs` | the mailbox and the thread; wait, take, return, exit |
| `SpeechSupervisor` | `speech/supervisor.rs` | policy, handle, children; a section under the lock is one step |
| `SpeechRpc` | `speech/proc_driver.rs`, `proc_server_common.rs` | two pipes, both ends' buffers, identifiers, deadlines, the watchdog |
| `NativeSpeech` | `native_tts_server.rs` | utterances, the synthesizer's reports, stop; speak, stop and replacement may fail |
| `LogQueue` | `diagnostics.rs` | queue, counters outside the lock, throttle table by key, writer, file |

**Process, child and terminal**

| Module | Models | State and steps |
|---|---|---|
| `Session` | `main.rs` | program counter of startup, loop and cleanup; terminal settings; readiness edges; signals |
| `ChildPty` | writes to the child in `pty.rs` | queue, pipe, what the child got |
| `TerminfoCache` | the shared terminfo database | installers of several processes, locks, staging, deaths |
| `TerminalProbe` | startup probe and shutdown fence | bytes tagged with their sender |
| `TerminalInput` | splitting bytes into keys; who gets a press and its release | pending bytes and timeout; keys down, transitions |

**tmux**

| Module | Models | State and steps |
|---|---|---|
| `TmuxPaneFlow` | flow control and recovery of a pane | `app` is Lector's side, `srv` and `wire` are tmux |
| `TmuxGateway` | `tmux_gateway.rs`, `tmux_control.rs` | transport, parser, blocks, expiry |
| `TmuxConnections` | the forest of connections | origins, gateways, confirmations, deadlines |
| `TmuxTopology` | `tmux_model.rs` inventories and notifications | server, copy, queries |
| `TmuxPanes` | bootstrap, buffering, replay of pane copies | panes, stream, copies |
| `TmuxKeys` | prefix keys and the command queue | tables known and real, queue, replies |

`FrameQueue` is both the abstract specification that `OutputScheduler` refines
(`Frames == INSTANCE FrameQueue WITH ...`, `ImplementsFrameQueue`) and the
environment on which `ScenePresentation` builds the renderer.  What is checked of
the renderer therefore rests on a contract that is proved of the scheduler.

### Suites

`MCScenePresentation`, `MCView`, `MCReading`, `Speech`, `Terminal` and `Tmux`
each put several components into one specification: the variable `part`, chosen in
the initial state, says which component a behaviour runs, and the others stand
still.  The suite is the disjoint union of the components' state graphs, so a
property of one component is checked exactly as it would be alone, and the
progress properties of the parts combine into one formula (`[]<>Settled`).  `Speech`
and `Terminal` leave the constants of their parts open, so that the runs and the proofs
speak of the same definitions.
Components whose interaction carries the risk are composed for real: the scheduler
with its contract and the renderer on it, both ends of the speech pipe, the worker
with the supervisor's servers, Lector's and tmux's sides of every tmux module,
program, view, scheduler and listener in `ViewStack`, `ViewEvidence` and
`ViewHistory`, parser, view and clipboards in `Review`.

### Abstractions

Bytes are counted or stood for by symbols.  Timestamps are ages, saturated at the
timeout they are compared with, so time needs no bound.  A queue position of the
scheduler is fixed when a transaction is activated (activation only happens on an
empty active queue), so `active` is a function from positions.  In
`ScenePresentation` a row is one value and a difference in cursor, modes, titles
or pictures is left out, since it only makes the renderer write more;
`SceneRenderer` and `SceneImages` look inside a row.  A pane's contents in
`TmuxPaneFlow` are the number of chunks received, so that a lost, a repeated and a
misplaced chunk can be told from the right one.  Of tmux the models assume that it
answers commands in order on one stream, that a pause discards a suffix of what it
has not written, that its notification may be swallowed by the reply block it is
written in, that pausing a paused pane is not refused, and that a sequence joined
by `;` runs without output in between (what the comments at `app/pty.rs:1229-1233`
say); each other command may fail.  In `Review` a search is for one character.
Variables marked *history* observe the run and guide nothing.  Definitions marked
*mutant* are broken variants of the definition below them; no specification uses
them, and putting one in the original's place makes the property it belongs to
fail.

## Runs

| Run | Properties | Shows |
|---|---|---|
| `scheduler` | `SchedulerShape`, `NoTornTransaction`, `ReceiptsExact`, `BacklogServed`, `ReceiptsInOrder`, `DrainSteps`, `ImplementsFrameQueue` | holds with their two timeouts and the bypass, and the two limits with effects and the DEC 2026 wrapper: no transaction is torn, a receipt means flushed bytes, frames keep their order, the loop is woken and does not spin, and the contract is kept |
| `scheduler_live` | `SchedulerProgress` | accepted frames settle and holds end, whether or not the application closes them |
| `scene` | `ShadowExact`, `LayoutTiles` | a patch meets the shadow it was computed from, and the shadow errs only in rows whose update was given up; an accepted layout covers every cell once |
| `view` | `CommittedIsShown`, `BatchEndsExactly`, `RecordExact`, `ScreenExact` | no half-drawn screen is taken for a committed one over any cut of the stream; auto-read gets a whole record or none; the reviewed history is that of the frame shown; cells and pictures on the terminal are the frame's |
| `reading` | `PresentedIsReadable`, `ReadingHasADeadline`, `AppearsIsHeard`, `SpokenExact`, `ReviewExact`, `ReadingProgress` | the listener reads the view on the screen; every burst is read in the end; text that appears is heard; deletions and table cells are spoken for what they are; review, parser, selection and clipboards agree |
| `speech` | `MailboxExact`, `MailboxOrder`, `RpcExact`, `UtterancesInOrder`, `LossIsCounted`, `SpeechProgress` | bounded queues that lose only what they count, in order, and come to rest |
| `supervisor` | `ServersAccounted`, `RecoveryIsOrderly`, `SupervisorProgress` | no orphan server, no lost fatal event, spaced restarts, replacement that may fail; calls end, shutdown completes |
| `terminal` | `TerminalReturned`, `GapEndsChild`, `InputReachesItsOwner`, `DatabaseStays`, `TerminalProgress` | the terminal is given back whatever fails; a slow child sees a prefix; answers, keys and releases reach their owners; no input is stranded |
| `tmux` | `FlowExact`, `ConnectionsExact`, `SettledIsExact`, `StreamsExact`, `KeysExact`, `TmuxProgress` | a running pane is tmux's, streams are told apart, nothing dangles, inventories, copies and key tables become exact, and recovery ends |
| `scene_damage`, `flow_marker`, `bootstrap_refusal` | `ShadowIsScreen`, `RunningIsExact`, `RefusalSurvived` | violations: see Findings |

What the bundled properties consist of:

* `SchedulerShape`: `TypeOK`, `NoDanglingBoundary` (what ends a hold is a frame still
  owed), `OneUnstartedRender`.  `ReceiptsExact`: `GenerationOrder`,
  `ReceiptMeansFlushed`.  `BacklogServed`: `NoLostWakeup`, `BoundedBacklog`, with the
  limits of each part.  `DrainSteps`: `HoldRespected`, `NoBusySpin`.
  `SchedulerProgress`: `RendersSettle`, `HoldsEnd`.
* `ShadowExact`: `TypeOK`, `PatchesFitTheirBase`, `ShadowErrsOnDropped`.
* `RecordExact`: `ViewEvidence!EvidenceExact`, `ViewHistory!HistoryExact`.
  `ScreenExact`: `SceneRenderer!RenderExact`, `SceneImages!PicturesExact`.
* `SpokenExact`: `DeferredDeletes!SpokenIsDeleted`, `TableNavigation!SpokenUnderCursor`.
  `ReviewExact`: `CursorShown`, `VisualInStep`, `CopiedIsSelected`, `RingExact`,
  `MovesReturn`.
* `MailboxExact`: `TypeOK`, `CountersExact`.  `MailboxOrder`: `CutIsFinal`,
  `SpeechInOrder`, `NewestKept`, `StartIsAFence`.
* `ServersAccounted`: `TypeOK`, `NoOrphan`, `ActiveIsAsConfigured`, `FatalIsReported`.
  `RecoveryIsOrderly`: `RestartsAreSpaced`, `FailedReplacementKeepsServer`.
* `InputReachesItsOwner`: `TerminalProbe!InputSeparated`, `TerminalInput!InputExact`,
  `TerminalInput!ReleaseFollowsPress`.
* `FlowExact`: `TypeOK`, `ExactUntilErased`, `OneTransaction`, `RecoveryHasAWakeup`.
  `ConnectionsExact`: `TmuxConnections!NothingDangling`, `DeepestFirst`.
  `StreamsExact`: `TmuxGateway!StreamsSeparated`, `TmuxPanes!CopiesExact`.  `KeysExact`:
  `TmuxKeys!ActsInOrder`, `KeysAreCurrent` (silent once a command was dropped for room).

### Bounds

*Scheduler.*  Sizes of one and two bytes with a write budget of two make every case
of a partial write occur (nothing, part, all, budget exhausted in the middle); a
capacity of four makes refusal, eviction and replacement reachable with a started
transaction in the queue; three generations are one started, one waiting and one
new, the most the queue holds at once.  One idle and two hard ticks separate the
two timeouts.  Holds and capacity are two parts, since their inputs multiply.
*Scene.*  Two rows (one damaged, one not), two values, three generations; layouts of
up to five nodes on a 3 × 3 window, which has room for a gap, an overlap and a child
that sticks out.
*View.*  A grid of two by two and four events reach a transaction opened, drawn and
closed in one, two and three batches; the journal holds one entry, so the second
batch loses the first; a history of two rows with three retained is trimmed by the
second scroll; rows of three cells hold a wide character in both places; pictures
in five configurations with two-valued hashes, so that numbers collide.
*Reading.*  One connection and one overlay over the root; delays of one to three
ticks keep the quiet window, with and without training, and the hard deadline apart,
and updates are plain text or repaints that settle; screens of two rows by three
columns with repeated letters, where prefix and suffix overlap; four Backspaces with
the screen behind by up to all of them; tables with bars and with gutters; review
documents with a wrapped line, a blank at the wrap, an empty row, a wide character
and nested braces, four keys, clicks, resizes or ring commands after the overlay is
opened (`"v`, a motion, a resize and `y` is one such sequence), two copies into a
ring of two with one more by a program.
*Speech.*  Two announcements and four bytes, texts of one, two and four bytes (the
last is cut to three), five requests; frames shorter than, equal to and longer than
the limit, two calls, every cut of a line; five utterances over a queue of two, with any call into
the backend failing; two producers over a queue of three bytes, three records, and three
throttled calls for two keys with room for one in the table.
*Supervisor.*  Two servers, two rates, three processes (initial, restart,
replacement), a crash window of two ticks, an event queue of one, the tightest place
for a fatal event to be lost in.
*Terminal.*  Two bytes of input and one of output with a budget of one per turn, one
stall, one stop, one failing step; a write queue of two bytes over a pipe of one;
three keys among two answers; three installers in two processes; two keys, four
events; six bytes of input in seven kinds.
*tmux.*  One disturbance of each behaviour (a refused command, a pause by tmux, a
switch of the alternate screen, an unrelated command, a hiding), because a recovery
that is undisturbed is what is promised; contents modulo three distinguish a lost
from a repeated chunk; a quiet interval of one tick and a hard deadline of two make
both pass; a reply limit of three, the length of the longest sequence, makes refusals
happen, and one of two for the keys, so that an inventory that is waited for can be
dropped; payloads that contain block ends; three identifiers for up to four
connections, so that one is reused; two sessions, two windows, three panes with two
changes and one error; two panes with two chunks each and a buffer of two.

### Fairness

Only what the operating system, the event loop and the external programs do as long
as they live is assumed, and never that a write succeeds, that a program closes its
transaction or that a user acts.

* `scheduler_live`: a drain that has begun goes on (it is one function call), the
  event loop calls it once its deadline has passed, time passes, and a full terminal
  becomes writable again.
* `reading`: the event loop runs (`LoopStep`), frames reach the screen, deadlines that
  have passed are served, time passes.
* `speech`, `supervisor`: the operating system runs the worker, the watchdog, the
  log writer and the native server's timer; a backend call returns, which the
  driver's deadlines guarantee; `terminate()` runs to its end.
* `terminal`: Lector's thread runs; a stopped Lector is continued; a child that is
  alive reads; time passes for a silent probe; every installer that has not died
  goes on.
* `tmux`: tmux executes the commands it has received, the event loop parses what
  arrives and runs its ticks, time passes.  The program in the pane may write for
  ever, and the pane must stay visible for its recovery to be promised.

## Proofs

Eight modules hold theorems.  Each theorem holds for every value of the constants
that satisfies the assumptions named: `OutputScheduler` assumes naturals for sizes and
times, a positive write budget, and a control limit not above the capacity (64 KiB
against 2 MiB in the code); `SpeechSupervisor` that the initial server and rate are
among the possible ones and that window and queues are not empty; `ScenePresentation`
that damage names rows and that junk is no value; `DatabaseKept` that `Nobody` is no
installer; `ChildEnded` that its sizes are naturals; `SpokenInOrder` that the queue has
room for one text; `FramesAreExact` that the limit and every line have at least one byte;
`LogAccounts` that producers and keys are finitely many, that a record has at least one byte, and
that the queue's limit is at least two bytes (what a record over the record limit is
replaced by) and at least the record limit; `TopologySettles` that ids are positive and one session, window and pane exist from
the beginning; `MailboxCounts` and `MailboxInOrder` that the mailbox holds at least one
request and the longest text; `DeadlinesStand` and `ViewsStayReadable` that the root view
is no connection's, that there are two screens at most, and that the hard delay is a
natural; `KeysActInOrder` that a command carries at least one key and a window has a
pane; `ConnectionsHold` that there is an identifier at all.

None of the properties is inductive as it stands; what each proof adds is below.

| Module | Theorems | Property of a run |
|---|---|---|
| `OutputSchedulerProofs` | `TypeCorrect`, `Implements`, `Ordered`, `Replaceable`, `ReceiptOrder`, `ReceiptsAreTrue`, `NothingDangles`, `NothingTorn`, `Shaped`, `ReceiptsCorrect`, `DrainsBehave`, `AlwaysWoken`, `BacklogBounded`, `Served` | `ImplementsFrameQueue`, `ReceiptsInOrder`, `NoTornTransaction`, `SchedulerShape`, `ReceiptsExact`, `DrainSteps`, `BacklogServed` |
| `ScenePresentationProofs` | `FramesInOrder`, `KeepsTheContract`, `ShadowIsExact` | `ShadowExact` |
| `SpeechSupervisorProofs` | `ServersAreAccounted`, `RecoveryOrderly` | `ServersAccounted`, `RecoveryIsOrderly` |
| `SpeechProofs` | `MailboxCounts`, `MailboxInOrder`, `SpokenInOrder`, `FramesAreExact`, `LogAccounts` | `MailboxExact`, `MailboxOrder`, `UtterancesInOrder`, `RpcExact`, `LossIsCounted` |
| `ReadingProofs` | `DeadlinesStand`, `ViewsStayReadable` | `ReadingHasADeadline`, `PresentedIsReadable` |
| `TerminalProofs` | `ShellGetsItBack`, `DatabaseKept`, `ChildEnded`, `ReleasesFollow` | `TerminalReturned`, `DatabaseStays`, `GapEndsChild`, `InputReachesItsOwner` (its part `ReleaseFollowsPress`) |
| `TmuxProofs` | `TopologySettles`, `KeysActInOrder`, `ConnectionsHold` | `SettledIsExact`, `KeysExact`, `ConnectionsExact` |
| `FiniteSums` | lemmas only | |

*Scheduler, order and bytes.*  `Implements` needs `SlotInv` (only the render position
holds a generation), so that "the current frame" is a function of the active queue; then
every action is matched with one operation of the contract or with a stuttering step.
`Ordered`, `Replaceable` and `ReceiptOrder` carry the contract's order through the
refinement mapping (`OrderInv`).  For `ReceiptsAreTrue`, `FlushInv` adds that every
generation with unflushed bytes is still active or awaits its receipt and that a
completion happens only with nothing unflushed.  For `NothingDangles`, a boundary
generation is retained: replacement hands the boundary to the new frame, eviction keeps
the boundary frame or clears it.  For `NothingTorn`, `WireInv` says that the transaction
the stream is in is at the front with its missing bytes and that no other has started.

*Scheduler, service.*  `DrainsBehave` is an action property; `DrainInv` says what is known
in each phase of `drain_ready`: a flush is owed exactly in the phases that flush, an
unforced write loop under a hold runs only for the bypassing frame, and a drain without
progress found nothing that it could start.  `AlwaysWoken` needs `WakeInv`: pending output
has an age, retained effects fit their limit, and a receipt that is owed has its flush or
its deadline; then each branch of `next_delay` gives a deadline.  `BacklogBounded` needs
`BacklogInv`, the two limits together with the size of the waiting frame, because support
for DEC 2026 can be learned while a frame waits that was accepted without its wrapper.
It is an argument about sums over the active queue: `FiniteSums` proves that such a sum
is additive and monotone.

*Contract and scene.*  `FramesInOrder`: owed frames are increasing, newer than the last one
reported, older than the current one, which is older than the waiting one, all below the
next generation; and a frame waits behind a current one only if that one has begun,
without which `Accept` could leave two replaceable frames.  `KeepsTheContract` shows that
every step of the renderer and of the lifecycle is a step of the contract or leaves its
frames alone, so what is proved of the scheduler may be used on the way to the glass.
`ShadowIsExact` follows the shadow through the frames in flight: a patch leaves alone
only rows that are right in the shadow (`Patches`), the last frame written is the screen
(`OwedIsScreen`), and every row of the scene that is not on the screen is written by a
frame on its way or was given up (`Accounted`).

*Supervisor.*  A server that nobody owns must be the candidate between its start and its
registration; a candidate must differ from the active server for its failure to spare
that one; and a fatal failure must end the worker's calls, or a later event could push it
out of the queue.  `SupervisorInv` collects those facts with the types.

*Mailbox.*  `MailInv`: the announcements in the queue are in the order in which they were
made, newer than everything spoken and everything cut off, nothing behind a `start()` is
older than it, all are older than what comes next (`InLine`), and the counters are what
the queue holds (`CountersExact`).  Each of the queue's operations, which are filters, the
removal of the oldest announcement and an append, keeps such a line and changes each count
by what it removes; those are lemmas about sequences, proved once.  `MailboxOrder` follows
step by step: what is spoken is taken from the front, so it is newer than everything
spoken, and what an interrupt cuts off is gone from the queue and older than what will be
queued.

*Reading.*  `StableInv` says why a burst is never forgotten: as long as no overlay covers it
and no transaction is open, a newest frame that is not read has a burst that has begun, or
an announcement that reads it is due, whether or not it is shown already; so it can be
shown at any moment.  `ViewsStayReadable` is about views that are closed while scenes that
show them are on the way: `StackInv` says that every view of a waiting scene, of one being
written and the presented one is on the stack or among the retired views (`Readable`).  What
takes a view from the stack retires it (`Keeps`), what the scheduler does leaves views alone
(`Alike`), and only views that no scene names are pruned.

*Voice.*  A call into the backend may fail at each place the code makes one: a text is then
gone; a failed stop, or a failed replacement after a stop that was not reported, returns
with the queue empty and no utterance to wait for while the synthesizer speaks on.
`unstopped` remembers what such a call left behind, so that `UtterancesInOrder` can say
that nothing else sounds behind the queue's back.  `NativeInv` relates the queue, what was
spoken, the reports and the stop in progress: what is heard and what waits are in order
(`NativeOrder`); the synthesizer has every text at most once, it has the active one or has
reported it, and otherwise only what a failure left (`NativeSounds`); and while a stop is
under way, only what it waits for besides that (`NativeStops`).  `FramesAreExact` is a theorem about lines in a model that moves bytes: `RpcInv`
describes the whole stream in each direction (unsent, in the pipe, in the reader's buffer)
as whole lines with a head of which the reader holds the first bytes, or has thrown them
away because the line is too long.  Moving the cut between two buffers keeps that, so the
pieces in which a line arrives do not matter.

*Log.*  `LossIsCounted` counts records wherever they are, so `LogInv` says where that is: in
a producer's hands, with the writer, queued, written, lost to the device, or discarded
(`LogPlaces`), in one of the first five at most (`LogApart`); that their number and what
was dropped make up all that were formatted (`LogCounted`, a sum over the producers and
one over the queue, by `FiniteSums`); and that a record on its way fits the queue, so that
discarding from the front always makes room for it (`LogHands`).  `LogCalls` counts the
throttled calls of each key and the keys of the table (`KeysKept`): a call
that finds the table's lock taken, or the table full, is in no count in the code
(`diagnostics.rs:192-198`); the history variable `past.missed` has those, and the property
says that no other call is lost.

*Terminal.*  `SessionInv` says how far the terminal has been taken or given back at every
place of the process, also on the paths of a failed call.  `CacheInv` says that only the
holder of the file lock is past it, and that the one that replaces the database saw that
it was not complete.  `ChildInv`: what the child was given, the pipe and the queue are in
the order written, and a loss is either being counted in this turn or has ended the
child.  `KeyInv`: a press Lector took is remembered while the key is down, and one that
the application got is remembered with the mode it was sent in, also while its release is
held back.  That such a release may be written to a legacy application is listed below
(`NoReleaseToLegacy`); what is proved is that it goes nowhere but to the mode of its press.

*tmux.*  `TopologySettles` is about what will have been heard, so `TopoInv` describes the
stream as a path: the notices still to be read lead, one step of `Reconcile` after the
other, from Lector's topology to tmux's, or at one of them Lector will ask for an inventory
(`Chain`).  Until the first command of an inventory is executed nothing is collected
(`TopoFresh`), and whatever changes then is in the replies; from there on, unless tmux
changed between two commands, the replies are those of one topology, and the notices
behind the last of them lead on from it (`Consonant`); those before it, of which a
creation or a split always leaves one to be read during the inventory that the first
requested, are overwritten when the inventory is installed.  That the replies come in the order of the
queries (`TopoReplies`) keeps a layer from being taken for another.  `KeysActInOrder`:
`KeyOrder` says that every number carried out comes before every number sent, and that
before every number queued, and each command is rising in itself, which joining input and
cutting it into pieces keep.  `KeyTables` says what brings the tables back: Lector's table
is the server's, or an inventory is awaited or the answer to a command that changes tables
is still to be read, and an inventory's answer that is older than such a change has the
answer to the change behind it; an awaited inventory is on its way unless a command was
dropped.

*Connections.*  `ConnInv` puts time into the tree: a connection is younger than the one
that carries it (`ConnTree`), though its identifier may be smaller.  That makes the
recursion of `collect_descendants` end for any tree of any depth, since it goes down a
rank made of the age of the parent and the identifier reached; by induction over that
rank a listed subtree is closed under children and has every connection after those
nested in it (`Closed`, `SubtreeIs`).  Removing a subtree, or those of a destroyed pane,
then leaves a tree, and the gateways that are left read exactly the nested clients that
are left (`Gates`).  For the cascade, `DeepFirst` says that of the connections there were
when the user asked, those nested in one that is still to be asked come before it or are
the one waited for: a connection that starts meanwhile is younger than the request, and
one that goes only shortens the list.

Induction over data: the library's induction theorems take an operator as a parameter,
which the provers cannot instantiate.  `FiniteSums` states induction over finite sets
with a family of sets in the operator's place (`SubsetInduction`), and over the length of a
sequence with a set of lengths (`CountInduction`, `AppendInduction`), and derives from them
least elements, sums over sets and along sequences, what a filter keeps, and that a
recursion that goes down a rank has a solution (`RankedRecursion`).  The mailbox, the view
stack and the connections filter with a recursive function written out, because the
provers know nothing of the standard library's `SelectSeq`.  What deeper recursive definitions compute
(a parser, a difference of two rows) stays out of reach.

Only model-checked:

* every progress property (`SchedulerProgress`, `ReadingProgress`, `SpeechProgress`,
  `SupervisorProgress`, `TerminalProgress`, `TmuxProgress`): liveness under fairness and
  ENABLED are beyond the prover;
* what deeper recursive definitions and folds compute: `LayoutTiles`, `AppearsIsHeard`,
  `SpokenExact`, `ReviewExact`, `ScreenExact`, `StreamsExact`, and the parts
  `InputSeparated` and `InputExact` of `InputReachesItsOwner`;
* `CommittedIsShown`, `RecordExact`, `BatchEndsExactly`, and `FlowExact` of `tmux`, for
  which no proof has been written.

## Findings

* `scene_damage`: an unstarted frame that is replaced takes its damage with it.  The
  next frame's prediction contains the rows, its bytes do not, and its receipt
  confirms them; the rows stay wrong until something repaints them.
* `flow_marker`: a tick clears the recapture marker of a hidden pane although the
  capture that its output raced is unanswered; the capture then completes the recovery
  without that output.
* `bootstrap_refusal`: the refused capture of a pane that closed meanwhile is an error
  that ends Lector.

### Statements the code does not keep, not run

Each of these is a definition in its module that states what a comment, a doc or an
assertion says, or what a reader would expect of it; checking it as an invariant (or
property) of the module's suite, with the change named, gives a counterexample.
Whether each is a defect is a judgement for the maintainers.

| Definition | What fails |
|---|---|
| `OutputScheduler!BellsRetained` | a control burst over its limit discards queued bells, which the module comment says are retained |
| `ScenePresentation!GapReconstructed` | `invalidate()`, meant to make the next frame reconstruct what was never drawn, is undone when the receipt of an older frame confirms |
| `ViewStack!NoHiddenFrame` | a frame that replaces the compositor's bypass frame inherits its right to pass a hold |
| `TerminalStream!OpenerCarriesHistory` | rows that scroll off before a transaction opens in the same read are missing from the opener's snapshot (the assertion at `view.rs:1540`) |
| `Stabilization!HardMeansOverdue` | after an announcement the hard deadline of an older burst ends a new one |
| `AutoRead!OutputStaysAudible` | keys not yet echoed silence output that ends in them (`screen_reader.rs:311-315`) |
| `DeferredDeletes!SpokenIsGone` (`Keys = {"del"}`) | a forward delete may be announced before it happened |
| `TableNavigation!CurrentCellIsRead` | with the cursor on a bar the first column is read |
| `ChildPty!NothingOvertakes` | bytes written after a dropped tail may reach the child in the turn that ends by terminating it |
| `TerminalProbe!RepliesStayWithBroker` | an answer that comes when the probe has been declared finished is passed on as input |
| `TerminalInput!NoReleaseToLegacy` | a Ctrl-C release that was held back is written as read (`app/input.rs:701-708`), also to a legacy application, which `terminal_input.rs:164-165` says gets none; a release that is not held back is transcoded to nothing |
| `TmuxPaneFlow!ExactUntilErased` (`Modes = {"visible", "covered"}`) | a pane behind a zoomed one keeps deferred output across a capture, which applies it twice |
| `TmuxTopology!UncertaintyIsResolved` | a window created between two commands of an inventory is announced during it, which asks for no second one (`app/pty.rs:1154-1156`, against `docs/tmux-topology.md:48-50`), and stays unknown |
| `TmuxConnections!StrikesWhatWasAsked` | an identifier is reused while a confirmed abandonment still names it |
| `TmuxKeys!AwaitedIsComing` | an inventory is waited for that was refused for room |
| `Review!BraceReturns` | in a wrapped line `%` starts from the line's first brace and not from the cursor's (`README.md:340`) |
| `Review!RepeatsFromCursor` | after the cursor moved away, `;` goes on from the last match (`README.md:339`) |
| `Review!SoftBoundariesKept` | blanks at a soft wrap are dropped from a copy and the words joined |

### Exemptions

Cases in which a checked property is silent, because the code decides against it or
another statement covers them: text overprinted after a carriage return, text the echo
rule silences and the line recalled by Up or Down (`AppearsIsHeard`); keys pressed past
the start of the line (`SpokenIsDeleted`); changes of tmux between two
commands of the last inventory (see `UncertaintyIsResolved` above), and a second failure of it
(`SettledIsExact`); texts behind one the backend refused in `advance()`, and what sounds
after a stop that failed (`UtterancesInOrder`); a command dropped because too many are
unanswered (`KeysAreCurrent`, see `AwaitedIsComing` above); frames refused for room twice
(`ReadingProgress`: the one retry that `app.rs:1957-1962` grants can itself be refused);
an interrupting announcement that is dropped for room (`MailboxOrder`: its interrupt
goes with it, and no comment promises otherwise); the payload of effects that encode to
no bytes (`BacklogServed` counts encoded bytes, as the code does).

## Not modelled

* Terminal emulation (Ghostty), tmux, the synthesizers and the `similar` crate are
  external; the models use only what the code relies on.
* Escape sequence encoding, colours, styles, hyperlinks, titles; names, options and
  sizes of tmux objects; key names; mouse reports.
* Symbol expansion and speech configuration: text transformations without state.
* Lua bindings and the console, popups, choosers: their effect on the views is in
  `ViewStack`, on the clipboards in `Review`.
* The line editor, the review cursor's text navigation commands, key maps: sequential
  and about grapheme boundaries, which are data.
* Marks, pasting, and clearing of the system clipboard.
* Test harness, benchmark, helper programs, build tooling.

## Plan

Done: the scheduler with its contract and proofs; renderer, cells, pictures, layout;
stream, evidence, history, views, stabilization, auto-read, deletions, tables, review;
worker, supervisor, protocol, native server, log; session, child, probe, cache, input;
flow, gateway, connections, topology, panes and keys of tmux.

Open: the proofs listed above as not written, of which `FlowExact` says most; the
`InputExact` part of the input, whose parser would have to be stated as a loop; and the
not modelled parts.
