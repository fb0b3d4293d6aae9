# rain-de in TLA+

`rain-de` is a desktop shell for Wayland compositors.  This directory holds TLA+
specifications of the parts of it whose correctness depends on the order of
events, TLC configurations that check them on small instances, and proofs,
checked by TLAPS, of what holds for every instance.

## 1. The system

```
 compositor ──wire──▶ Wayland thread ──chan (32)──▶ GTK main loop: DockState
            ◀─requests──   (rain-client)  ◀──cmds──      lists, map, focus, buckets
                                                           │  ▲        │
                                          popover, drag ───┘  │        └─▶ pinned.json
                                                              └── rain-appd (entries)
```

| Component | State | Operations | Interacts with |
|---|---|---|---|
| **DockState, DockBucket, DockApp** (`rain-dock/src/state`) | two `ListStore`s of buckets, `map_is_pinned`, `bucket_focused`; in a bucket its windows, `last_focus`, `is_focused`, `is_running` | `add_app`, `remove_app`, `process_state_changed`, `change_focus`, `insert_bucket`, `remove_bucket`, `move_bucket`, `pin_bucket`, `unpin_bucket`, `load_pinned_buckets`, `save_pinned_buckets` | events from the bridge, clicks and drags, the file, appd |
| **Dock UI** (`rain-dock/src/ui`) | open popover and the flag its button captured, drag payload, handlers of a list item, the revealer | right click, pin button, drag prepare and drop, bind and unbind, enter and leave | DockState, bridge |
| **Bridge, Runner, dispatcher** (`rain-client/src/wayland`) | event channel (32), command channel, `still_running`, seat, optional module | `Bridge::new`, `send`, `recv`, the thread's loop, `Runner::drop` | compositor, GTK main loop |
| **ToplevelModule** | what is known of each window handle | one handler per protocol event, one per command | compositor, event channel |
| **Entry lookup** (`rain-client/src/appd`, `manager.rs:405-469`, `602-622`) | cache of entries, requests in flight | `resolve_entry`, `retry_unresolved_entries` | rain-appd over D-Bus |
| **rain-appd** | the index of desktop entries | `find_entries`, `get_entry`, `get_all_entries` | the dock |
| **Finder pool** (`rain-utils/src/finder/{dispatcher,runner}.rs`) | epoch, one bounded task channel per worker, response channels | `submit`, `submit_blocking`, worker loop, `Runner::drop` | engine |
| **Search engine and matcher** | candidates left by the previous pattern; rows of the score matrix | `search`, `match_score`, `rank_and_sort` | pool |
| **BitSet** (`rain-utils/src/collections`) | blocks and a cached count | set, reset, flip, the same for all bits, `& \| ^ !`, iterators | none |
| **rain-shell** | owns Runner, Bridge and the GTK application | `main` | all of the above |

What is hard in each, and what makes it correct:

* *DockState.*  Every callback runs to completion on the GTK main loop, so there
  is no data race; what can go wrong is a *sequence*: the lists, the map and the
  flags are updated one after the other by methods that call each other, a menu
  captures a flag and uses it later, a drag reads a position that a removal
  shifts, saves finish in any order, the process dies between two steps.
  Correct: lists, map and flags describe one dock; no window and no pin is lost
  by rearranging buckets; the focus shown is the focus there is.
* *Wayland thread.*  Two threads dispatch the same queue one after the other, a
  bounded channel blocks the dispatcher, commands and events are two sources.
  Correct: nothing is lost or reordered, start-up completes, the drop joins.
* *ToplevelModule.*  A window is described in pieces.  Correct: it is announced
  once, when it can be named; what is known catches up; Closed comes last.
* *Entry lookup.*  Answers arrive late and out of order, buckets come and go
  under them, failures are cached, the daemon answers before it has read
  everything.  Correct: no bucket is forgotten, icon and cache agree with the
  daemon once everything has settled.
* *Bar and menus.*  One flag for all popovers, handlers that read what others
  write.  Correct: no menu hangs on a hidden bar.
* *Finder pool.*  Epochs cut off obsolete searches between two tests; a dropped
  future closes a response channel; drop and submit race.  Correct: the latest
  submit gets every match, none gets a false one, everything returns and joins.
* *Engine, matcher, BitSet.*  Sequential: reuse of earlier results, boundaries.
  Correct: the result is that of a computation from scratch.

`PROJECT.json` lists the hazards at their lines, with the properties that watch
them or the reason why none does yet.

## 2. The modules

| Module | What it is |
|---|---|
| `Taskbar` | abstract: pinned classes, open windows of each class, pins on disk, pins being written |
| `DockState` | the dock: manager.rs, bucket.rs, pinned.json, the pin menu, drag and drop |
| `DockState_proofs` | the theorems about DockState |
| `MCDockState` | instances of DockState for TLC |
| `Toplevel`, `MCToplevel` | the toplevel module between a compositor and the event channel |
| `Toplevel_proofs` | the theorems about Toplevel |
| `DockSystem`, `MCDockSystem` | Toplevel and DockState composed: from the screen to the dock |
| `DockSystem_proofs` | the theorems about the composition |
| `WaylandThread` | threads, channels, start-up and shutdown of the connection |
| `WaylandThread_proofs` | the theorems about WaylandThread |
| `Appd` | the daemon's index while it fills, its answers, the command of an entry |
| `EntryResolver` | the dock's cache of entries, requests in flight, the icons of buckets |
| `AutoHide` | the bar under the pointer, the popover menus and their flag |
| `DockUi`, `MCDockUi` | Appd, EntryResolver and AutoHide composed: what a user sees of a bucket and does with it |
| `DockUi_proofs` | the theorems about DockUi and its three components |
| `Matcher` | bounds, bonuses, the score in two reused rows; the reference score |
| `Engine` | a search that reuses the candidates of the pattern before |
| `FinderPool` | worker threads with an Engine each, task and response channels, submits, the drop |
| `Finder`, `MCFinder` | a program's use of the finder: through a pool or with an engine of its own |
| `Finder_proofs` | the theorems about the worker pool, in the program that uses it |
| `NatSet` | abstract: a finite set of naturals below a capacity |
| `BitSet`, `MCBitSet` | words, cached count, operators and iterators |
| `BitSet_proofs` | the theorems about BitSet |
| `SequenceFacts` | what the operators on sequences do, as lemmas several proofs cite |

In several modules a definition is preceded by a `Faulty:` variant of it.  No
specification uses these; each is a plausible mistake in the code, kept to show
that the property named for it in `PROJECT.json` notices it.

### DockState

`dock` is the DockState object: `list` holds the two `ListStore`s (`"free"` is
`buckets`, `"pinned"` is `pinned_buckets`), `map` is `map_is_pinned` with
`"none"` for a missing key, `focus` is `bucket_focused`.  A bucket is a record;
the lists of the code hold references to it, and since a bucket is in at most
one list (which `Consistent` shows) a setter is an update in place
(`SetBucket`).  Each method is an operator from dock to dock, and a handler is
the composition of the methods it calls, so that `Closed` contains the trailing
`remove_bucket` and `ClickPin` the trailing save.  Positions count from 1;
`AtEnd` (0) is the index `None`.

The callbacks are the actions: `Opened`, `StateChanged`, `Closed` (the events of
`recv_wayland_events`), `RightClick`, `DismissMenu`, `ClickPin`, `ClickUnpin`,
`PrepareDrag`, `CancelDrag`, `Drop`, `CompleteSave`, `FailSave`, one `LoadNext`
for each entry of pinned.json while `DockState::new` runs, and `Restart`, a
crash at any moment.  A closed bucket takes its open popover with it
(`DismissedWith`: GTK unbinds the list item, factory.rs unparents the popover).
`NextFocus` is the set of values `last_focus` may take when its window goes: the
first value of a hash map in arbitrary order, read *before* the removal, so the
window being removed is among them.

The event's class is the `app_id` the window has when the event is sent;
DockState accepts any, and a `Closed` of a window it has never heard of.

Abstracted: titles, the flags besides focus; icons and entries are in
EntryResolver, which leaves out that `resolve_icon_from_class` looks for the class
in lower case (manager.rs:464).  Not modelled:
`clear_bucket` and `DockState::update_app` (never called), `max_buckets` and
`is_visible` (never read), `auto_hide` and `popup_is_open` (the bar's matter).

### Toplevel

The compositor is external: `screen`, `active` and the batches it sends (each
ends in `done`, as the module's handlers expect).  `pending` is the field
`windows`; an action of `Dispatch` is one call of `handle_event`, and `done`
sends with `HasRoom` as the guard of the blocking send.  A handle is never
destroyed by the program, so ids are not used twice.  `DoneAfterClosed` says
whether the compositor sends `done` after `closed`: `Closed` is reported to the
dock only then, and the runs assume it.  `Reconnect` is the end of the process
and the connection of the next one: wire, channel and what the module knew are
lost, and `untold` holds the windows the compositor still has to introduce to
the new client, one batch each (`Introduce`), before it tells of anything else.

### DockSystem

The two instances share `Classes` and `Windows`; `Deliver` takes one event and
applies the handler in the same step, as the task of `recv_wayland_events` does.
`Restart` is the restart of the dock and the module's `Reconnect` in one step.  `EventsLegal` is what DockState's guards assume of
the events.  The dock's own requests to the compositor need no action here: the
compositor may focus or close any window at any time.

### WaylandThread

`main` follows the main thread: `start`, `globals` (first roundtrip),
`oldEvents` (second roundtrip), `loop` (GTK), `joining` (in `Runner::drop`),
`done`.  `thread` is `none`, `top` (about to test `still_running` and poll),
`serving` or `exited`; `sources` are the ready event sources of this turn in the
order they are served, `batch` the messages the poll has read.  An event is a
number; the blocking send disables the dispatch while the channel is full.  The
command source is served until its queue is empty, the Wayland source until its
batch is.  `LoseConnection` may happen at any time after start-up.

### DockUi

Three instances side by side.  `Appd` is the daemon: the provider thread
(`Provide`) and the consumer task (`Consume`) around a bounded channel, the
index they fill, and `GetEntry`, which answers from what the index holds at that
moment.  It also holds `from_entry`, `get_sanitize_exec_cmd` and the splitting
of `launch_with_gtk`; a text is a sequence of tokens, a character wherever a
%-code may stand, else a whole word.  Names and icons are one token, so no code
stands in them.

`EntryResolver` is the part of DockState that DockState's module leaves out:
`cache`, `proxy` and the tasks `resolve_entry` spawns, one record for each, which
is `spawned` (not polled yet), `asked` or `answered`.  A task holds a clone of
its bucket object: `shown` turns FALSE when that object leaves the dock, and what
the task sets on it then is lost, although another bucket of the class may have
taken its place.  The buckets themselves come (`add_app`, `pin_bucket_in_ram`),
move (`insert_bucket` of the same object) and go in any order, which includes
every order DockState makes.  `SetAppdProxy` holds the retry.

`AutoHide` is the pointer over the box of bar and trigger, the revealer's target
and the one open menu.  GTK is external: a click outside a popover dismisses it
and does nothing else, so there is one at a time; and whether an unparented
popover still runs its hide handler is left open (`Unbind`), so the flag may
stay set without a menu.

In `DockUi`, `Disappear` moves or removes a bucket and unbinds its button in one
step, as the list view does, `PinButton` does it from the open menu, which it
then pops down, and `OpenNewWindow` launches from the cache as it is when it is
clicked.  `CallFails` is every error of the bus.  `misled` and `launched` are
history.

### Finder

`Matcher` and `Engine` are pure operators over character sequences; the state of
a `Matcher` (its two rows) and of an `Engine` (last pattern, candidates, rows)
goes in and comes out, so that what one call leaves behind meets the next.  ASCII
and UTF-8 bounds are the same definition over characters.

In `FinderPool` a worker's program counter is `receiving`, `searching`,
`answering` or `ended`: `Take` is the receive with the first test of the epoch,
`Finish` the search with the second, `Answer` the response.  A submit is known
by its epoch; `Submit`, one `Send` for each worker, `Return`.  The fields `late`
and `undisturbed` of a submit are history.  The receive loop of
a submit ends when the last response sender is gone, so `HasSender` says who
holds one.  `Abandon` is the caller dropping the future at an await.  Closing a
channel drops the tasks in it and makes waiting sends fail; whether a channel
whose *receiver* is gone still keeps its tasks is left open (`Answer`).

`Finder` gives a program either a pool or an engine that it asks any pattern
after any other.

### BitSet

A word is the set of its bits that are 1.  Every operation is an action; the
checked and unchecked forms, the owned and borrowed operators have one action
each.  The count is modelled as the code computes it, in `reset` from the wrong
bits; the history variable `miscounted` remembers whether that has made a
difference since the bits were last counted afresh.  Iterators are records of a
word and an index, and `Yielded` calls one n times.

## 3. The runs

| Run | Instance | Shows |
|---|---|---|
| `dock_core` | 2 classes, 2 windows, pinned.json of up to 2 entries (a repeated class included), 1 save in flight | `TypeOK`, `Consistent`, `FocusPointerValid`, `MenuMatchesDock`, `DropTakesTargetPlace` and `ImplementsTaskbar` over all interleavings of all callbacks |
| `dock_overlap` | 2 classes, 1 window, 2 saves | violates `SavedWhenQuiet`: the older write may win |
| `toplevel_core` | 2 windows, 2 app_ids, channel of 1, 6 messages under way | `TypeOK`, `KnowsOpenWindows`, `OnlyUnnamedHandlesStay` |
| `system_core` | 2 classes, 2 windows, channel of 1, 5 messages, 1 save | `EventsLegal`, `WindowsConverge`, `ActiveConverges`, `FocusTruthful` |
| `system_focus` | the same | violates `FocusShown` |
| `thread_core` | channel of 2, 2 events at the start, 4 in all, 2 commands | order and loss, seat, quit, and the liveness properties |
| `thread_start` | channel of 2, 3 events at the start | violates `StartupCompletes` |
| `ui_core` | 2 classes, one with two desktop files in either order and one with none, 2 requests in flight, channel of 1 | `NobodyForgotten`, `IconsSettle`, `LaunchesAsWritten`, `MenuOnShownBar`, and the liveness property `EntriesResolve` |
| `finder_core` | a pool of 1 or 2 workers over 4 candidates, 3 submits, 1 abandoned; or no pool and an engine over 7 sets of texts | `ResponsesFit`, `LatestIsComplete`, `ResultsSound`, `WorkersLast`, `EngineExact`, and the liveness properties `SubmitsEnd`, `DropJoins` |
| `finder_drop` | the pools of `finder_core`, nothing abandoned | violates `PendingSubmitsFail` |
| `bitset_core` | words of 2 bits, 5 indices, up to 4 words, operands of up to 2 | `CountExact`, `IteratorsExact`, `ImplementsNatSet`, `OperationsExact` |
| `bitset_count` | the same | violates `CountIsMembers` |

**Bounds.**  Two windows of one class and two classes are what the rules of
focus and emptiness distinguish (a sibling in the bucket, another bucket).  Two
buckets in one list are enough for a removal to shift the target of a drop, which
is what the mutant of `DropTakesTargetPlace` gets wrong; that bystanders keep their
order is `AlwaysDropTakesTargetPlace`, proved for lists of any length.
The capacity 32 is replaced by 1 or 2: only "full" and "not full" are told
apart.  `MaxSaves`, `MaxWire`, `MaxEvents` and `MaxCmds` bound queues that the
code leaves unbounded, or histories.  In `ui_core` two requests are enough for a
bucket that leaves or moves while it is asked for and is asked for again; the
invariants were also checked with `MaxTasks = 3` (2.3 million states), which is
too slow for the liveness property.  In `finder_core` three submits make a second
test of the epoch fail behind a first that passed and fill a task channel; 3
workers asked for 4 candidates get 2 chunks, so that a worker less runs than the
pool reports; the texts hold every class of character a bonus distinguishes.  In
`bitset_core` an index may need one, two or four words, and an operand may be
shorter, longer or empty; `CountMod` keeps the wrap-around of `usize`.  The theorems of section 4 have no bounds.
`PromptDiskSpec` in the two MC modules lets a write finish before anything else
happens, where the properties are not about overlapping writes; what `dock_core`
checks with it is proved without it.  `MenuOnlySpec` leaves
out the drags, which never save, and failing writes, so that what
`dock_overlap` finds is due to the order of the writes alone.

**Deadlock** is not checked in `toplevel_core`, where every window may be gone,
nor in the runs of WaylandThread and Finder, where the program ends.

**Fairness.**  DockState, Toplevel and DockSystem state safety only.  In DockUi,
weak fairness of the main loop's tasks, which are polled when they are ready, and
of the bus, which answers every call or reports that nobody will; none for the
user, for the connection to be made or for the daemon's index.  In Finder, weak
fairness of each worker thread, of each submit (a blocked thread or a task that
is woken) and of the thread that drops the Runner, and every search ends; none
for callers, who need not submit, abandon or drop.  In WaylandThread, weak fairness of the main thread, of the Wayland thread and of
the task that receives events while GTK runs: threads of the operating system
and tasks of a main loop that runs.  None for the user, for new events or for
the loss of the connection.

**What the violations say.**

* `dock_overlap`: `save_pinned_buckets` (manager.rs:547) spawns a write of its
  own for each snapshot and nothing orders them.
* `system_focus`: `remove_app` and `remove_bucket` (manager.rs:193-195,
  233-235) forget `bucket_focused` but keep the bucket's `is_focused`, so a pinned
  bucket whose focused window closes, or a focused bucket that is moved before
  another gets the focus, stays drawn as focused; and `process_state_changed`
  (manager.rs:714) clears the focus of a bucket on a state change of *any*
  unfocused window of its class, such as a new title of a window in the
  background.
* `thread_start`: the second roundtrip (dispatcher.rs:81) sends on the main
  thread into a channel whose only receiver waits for it to return: with more
  than 32 described windows open at the start the shell never starts.
* `finder_drop`: the drop of the finder's `Runner` closes the task channels, which
  throws away the queued tasks and their response senders; the receive loop of a
  submit that waits for them ends (dispatcher.rs:76, 113) and the submit returns
  `Ok` with what it has, in the trace with nothing.  dispatcher.rs:27-30 says that
  *any pending or future request* fails with `BrokenPipe`.  Of future requests it is
  true from the first closed channel on, which is not a property of a run but a
  theorem, `AlwaysFutureSubmitsFail`.
  `SubmitsEnd` says only that nobody waits for ever, not with what a submit ends.
* `bitset_count`: `reset` and `reset_unchecked` (bitset.rs:164-167, 187-191) test
  the word against the inverted mask: the count goes down when *another* bit of
  the word is set, and stays when the bit itself was the only one.

**What passing properties except.**  Two exceptions in them are not the docs', but
what the code does.

* `DropJoinsWithRoom`.  `Runner::drop` of the Wayland thread (runner.rs:41) joins a
  thread that may be waiting for room in the event channel, which nobody empties
  any more once GTK has returned.  The receiver is not gone either, which would
  make the send fail: it lives in the closure that `app` owns (main.rs:32), and
  `_runner_guard`, declared after `app`, is dropped before it.  So the program may
  hang when it quits, although "the `drop()` will quit the Wayland thread"
  (runner.rs:10-11): without the disjunct `Blocked`, TLC finds a thread with one
  event more to dispatch than the channel holds.  The property excepts exactly
  this state.
* `WorkersLast` and `SubmitsEnd`.  A worker whose response nobody receives, because
  the future of its submit was dropped, leaves its loop (runner.rs:108), although
  the Runner, which "keeps the worker threads active" (runner.rs:14), is alive.
  Later submits then fail, or, if the channel of the ended worker keeps the tasks in
  it, one may wait for ever.  Without `AnyAbandoned` TLC finds such a worker.

**Observations.**  They have no run of their own: of the first ones nothing we found
in the repository says otherwise, and the last two differ from their docs by what
a single line says, which a model adds nothing to.

* With `AppIdChanges = TRUE`, `WindowsConverge` fails: the dock looks for a closed
  window in the bucket of the app_id it has now (manager.rs:191, 661-663), so one
  that has changed it stays in the bucket it was put into.
* A window that is closed before it has a title stays in the module's map
  (`OnlyUnnamedHandlesStay` is the strongest that holds).
* Entries: an error for a class is cached as a default entry and never asked for
  again, also when the daemon was only still reading; a late error replaces a
  good entry that arrived before it; and a bucket that comes back between two
  answers keeps the icon of the first.  `IconsSettle` therefore excepts the
  classes in `misled`.  An entry without `Icon` gives the bucket a themed icon
  without a name.
* The bar stays out when a menu closes with the pointer already outside, until
  the pointer has come and gone again; with `auto_hide` FALSE, which nothing sets,
  it would never come out, because the dock is built before any bucket exists.
* Commands that are not well formed (section 4): the codes are replaced one after
  the other in the whole text, so `%%u` launches `%`, and a code in a name would be
  replaced in its turn.  No property of a run covers them.
* A submit that is overtaken may return the matches of some workers with `Ok`.
* `workers()` of the finder ("the number of worker threads", runner.rs:145) may
  report more workers than there are chunks, and so threads.
* `rank_and_sort` sorts in ascending order, its doc says descending (matcher.rs:242).

## 4. The proofs

Every theorem holds for all values of the constants that satisfy the named
assumptions of the module it is about, and for instances of any size.  The
assumptions are those of the code: null values are not members of the sets they
complete, bounds are natural numbers, a channel has room for one, files and
operands are sequences of what they hold, bytes fill a word (`WAssumption`),
candidates have ids of their own (`IdsAssumption`: runner.rs gives each its position),
texts, patterns and queries are sequences, and for launches the commands are well
formed (`WellFormedCommands`).  TLC evaluates them on every run of the module that
needs them.

| Module | Theorems |
|---|---|
| `DockState_proofs` | `DockInvariant`, `TypeCorrect`, `AlwaysConsistent`, `AlwaysFocusPointerValid`, `AlwaysMenuMatchesDock`, `AlwaysDropTakesTargetPlace`, `DockImplementsTaskbar` |
| `Toplevel_proofs` | `ToplevelInvariant`, `TypeCorrect`, `AlwaysKnowsOpenWindows`, `OnlyUnnamedStay`, `AlwaysOrderly` |
| `DockSystem_proofs` | `SystemInvariant`, `EventsAlwaysLegal`, `WindowsAlwaysConverge`, `ActiveAlwaysConverges`, `FocusAlwaysTruthful` |
| `WaylandThread_proofs` | `ThreadInvariant`, `TypeCorrect`, `AlwaysEventsInOrder`, `AlwaysSeatReachesModule`, `AlwaysQuitOvertakesNothing` |
| `DockUi_proofs` | `UiInvariant`, `TypeCorrect`, `AlwaysNobodyForgotten`, `AlwaysIconsSettle`, `AlwaysMenuOnShownBar`, `AlwaysLaunchesAsWritten` |
| `Finder_proofs` | `PoolInvariant`, `PoolTypeCorrect`, `AlwaysResponsesFit`, `AlwaysWorkersLast`, `AlwaysFutureSubmitsFail`, `EngineInvariant`, `AlwaysEngineExact`, `TypeCorrect`, `MatchInvariant`, `AlwaysResultsSound`, `AlwaysLatestIsComplete` |
| `BitSet_proofs` | `BitSetInvariant`, `TypeCorrect`, `CountWithinRange`, `Implements`, `OperationsAreTheirNames`, `AlwaysIteratorsExact` |

Each module defines its inductive invariant `IInv` as a conjunction of named
parts, proves one lemma for each action (or for each method an action is made
of) and derives the checked properties from the invariant.

### DockState

*The invariant.*  `IInv` is the conjunction of the checked invariants and
`OneGesture`.  None is inductive alone: the map may be trusted to find a bucket
only if the lists hold one bucket of each class (`Distinct`), the map names the
list of every bucket (`Indexed`) and names no list in vain (`Found`); that
`remove_bucket` leaves no pointer behind needs `PointedBucketIsFocused`, because
it looks at the bucket's flag, not at the pointer; that the menu's flag stays
right needs `OneGesture`, because a drop would change it.

*The argument.*  Lemmas about positions (`RemoveAtProperties`,
`InsertAtProperties`, `IndexUnique`, `FindsBucket`), then one lemma for each
method of the manager (`SetBucketLemma`, `RemoveBucketLemma`,
`InsertBucketLemma`, `ChangeFocusLemma`, `AddAppLemma`, `RemoveAppLemma`,
`MoveBucketLemma`, `PinInRamLemma`, `UnpinLemma`, `ProcessStateChangedLemma`):
a consistent dock becomes a consistent dock, with these windows and these pins.
The step lemma has one case for each action and cites the methods it calls; the
refinement uses the same lemmas for what happens to `WinsOf` and `PinnedSet`.
Removing and inserting a bucket keep the order of the others (`SameOrder`) and
an insertion takes the place it was given, so a drop does what
`DropTakesTargetPlace` says of it (`MovePlaces`).

### Toplevel

*The invariant.*  The checked properties speak of an empty wire; the invariant
says what is true while messages are under way, for each window by itself
(`Placed`).  A window in `untold` has been mentioned by nobody; any other is
`InStep`: the last message of each kind about it is the truth, and if there is
none the module knows it already (`AppIdArrives`, `TitleArrives`,
`FocusArrives`, `OpenIsKnown`, `GoneIsClosed`); a window still to be introduced
will be described in full after it (`ToldInFull`); and a window that the module
can name but has not reported so has a `done` to come (`ReportFollows`), which
needs that every batch ends in one (`EndsInDone`).

*The argument.*  `Latest`, `Has` and `Mentions` are the only views of the wire:
lemmas say what appending a batch and taking the head does to them
(`SentSays`, `TakenSays`, ...), each compositor step shows `InStep` for the
windows it tells of and leaves the others `Undisturbed`, each handler does so
for the window of its message.  `OnlyUnnamedStay` has `DoneAfterClosed` as a
hypothesis, as the runs have it in their configuration: without the `done` the
property is false, as section 3 reports.

*For the composition* the module also proves `AlwaysOrderly`, which looks down
the pipeline: nothing is said of a window after its `closed` but the `done` that
reports it (`InOrder`), and the classes in messages, module and channel are the
compositor's (`ClassesTrue`).

### DockSystem

*The invariant.*  Every step of the system is a step of Toplevel and of DockState,
or leaves one of them alone (`StepOfBoth`; the `Same...` lemmas say that the
instances of the proof modules are the composition's own), so the invariants of
both hold.  New is what relates them, for each window by itself (`Followed`).
`Heard` says that the dock has been told of the window or is about to be,
`Leaving` that its `Closed` is in the channel: what the module has reported and
not yet closed is exactly what is heard and not leaving, a window never reported
is unheard of, and the events of a window stand in the channel in the order
opened, changed, closed (`Ordered`).  `ShowsAnnounced` says what the dock shows:
the announced windows, each in the bucket of its class.

*The argument.*  One event is appended by `done`, one is taken by `Deliver`, and
nothing else touches the channel (`Appended`, `Taken`); gestures, loads and
saves keep every window in its bucket (`GesturesKeepWindows`), which is where
the lemmas on the dock's methods are used again.  `HeadExpected` is
`EventsLegal`: it discharges what DockState assumes of its events.  When nothing
is under way the reported windows are the nameable ones on the screen
(`QuietAnnounced`), and `WindowsAlwaysConverge` follows.  Its two hypotheses are
values of constants, those of the run: with `AppIdChanges` the property is
false, and without `DoneAfterClosed` a closed window is not reported.

*The focus* is told in another way than the life of a window: a `state` changes
what the module knows at once, and only the next `done` reports it.  The
invariant (`FocusFollowed`) therefore compares the module with what the dock is
going to take the window for (`Believes`: what the last event of the window in
the channel says, or what the dock holds if there is none), unless a `done` is
still to come (`FocusTold`); every `state` has one, and a `done` appends what the
module knows (`DispatchTells`).  On the dock's side a class that has the focus
has an active window (`FocusHeld`), because `change_focus` follows an event that
makes one active, and the event that takes the last one away takes the focus
too.  `ActiveAlwaysConverges` and `FocusAlwaysTruthful` follow under the same
hypotheses.  `FocusShown`, which says more, is false (section 3).

### WaylandThread

`EventsInOrder` is part of the invariant, and needs to know what may be on the
wire while the main thread still dispatches it (`WireShape`: globals before
their sync, old events before theirs).  That `quit` overtakes nothing needs that
it is the last command in the channel until the thread has met it
(`QuitIsLast`), and that a command is either executed or still waiting
(`CommandsCounted`), which is exact only with a seat and an open connection.

### DockUi

`NobodyForgotten` and `IconsSettle` depend on the requests in flight.
The invariant sees them as a set: an answer for a class that is not misled is
the daemon's last word on it (`RepliesFinal`), and so is what the cache holds
(`CacheFinal`); an icon is the generic one or that of the cached entry
(`IconsKnown`), and if it is not yet the final one a request for the very bucket
that shows it is under way (`IconsUnderWay`).  The hypothesis that makes them
inductive is the daemon's: an answer for a class all of whose files are read
never changes.

`LaunchesAsWritten` has two parts.  *What a command becomes*: `get_sanitize_exec_cmd`
makes six replacements, each in the whole text; the property reads the command
once, from the left, and puts what a code stands for in its place (`Expansion`).
A text, a sequence in which every `%` stands before another token (`Text`), stays
one when a code in it is replaced by a text (`ReplacedText`), and the replacement
of two texts side by side is the two replacements side by side
(`ReplacedConcat`); so all six go part by part (`SanitizedParts`), and by
induction from the end of the command both are the same (`SanitizedIsExpansion`).
*Whose command it is*: what the index, a reply on its way and the cache hold for
a class is made of a file of that class, or is its default entry (`OwnInv`),
although replies come in any order and outlive the buckets they were asked for.

The theorem has a hypothesis the others have not, `WellFormedCommands`: a `%` in
a file's command stands only before one of the six codes the program handles, and
a name is one token that is not `%`.  Of other files the property is false, as the
code replaces in text what it does not parse: `%%u` would launch `%`, and a code it
does not know is passed on as it stands.

### Finder

*The engine.*  `EngineExact` compares a search that reuses two rows, computes a
window of each and may start from the last search's candidates with a full
search in a fresh matrix.  The argument has three parts.  Row by row, what the
reused rows hold in the window is the matrix, and what they hold outside it is
never read (`RowsAreTheMatrix`, `MatchExact`).  A score is positive exactly if
the slice contains the pattern, and the greedy scan finds a slice exactly if the
text does (`MatchPositive`, `BoundsIffContained`), for texts and patterns of any
length.  And the cache holds every candidate that contains the last pattern
(`CacheSound`), so a longer pattern, which contains the last one, loses nothing
(`PrefixContained`, `CachedEnough`, `SearchExact`).  `EngineInv` is that the
cache is sound and the last answer exact; nothing is said of the rows, because
whatever they hold is harmless.

*The pool.*  `ResponsesFit` says of a worker that answers that it finds room;
that it will, needs the count of all who may still answer: the answers that wait
and the workers that hold a task of a submit are never more than the workers it
has reached (`RoomForAll`), and the response channel has room for all workers.
`WorkersLast` needs that a submit fails only at a channel the drop has closed
(`FailedIsClosed`) and that the drop closes them in order (`ClosedInOrder`).  `FutureSubmitsFail`
needs that the first channel is closed if any is, and that a submit which began
after that is still before it, or has failed there (`LateInv`); whether it did is
the history field `late`.

*The matches.*  `ResultsSound` and `LatestIsComplete` say what a submit has when
it returns.  `MatchInv` says it of every answer that waits (`Collected`): there
is an injective map `owner` from the answers to workers, an answer is the full
search of its owner's chunk (`ChunksSearched`: every engine's cache is sound for
its chunk), its owner no longer holds a task of the submit, and as long as the
submit is the latest and undisturbed every worker it has reached either holds
its task or owns an answer.  That the answers together are a full search of all
candidates is a fact about the chunks (`ChunksCover`, `ChunksApart`).

### BitSet

`CountExact` is inductive only modulo `CountMod`, as the code computes the count
(`CountModulo`); `CountWithinRange` is the property itself, under the
hypothesis that the capacity is below 2^64, which no memory exceeds and which
the run's instance satisfies.  The refinement of `NatSet` (`Implements`) rests on
the lemmas about positions: word `i \div W` and bit `i % W` name every number
once, growing appends empty words and truncating drops words without members.

`IteratorsExact` is about a lazy iterator that is called to its end and twice
beyond.  An iterator is described by what it has still to yield (`Left`): the
members in what is left of the word it holds and in the words it has not looked
at (`IterOK`).  A call yields the least of them and leaves the others, or says
that there is none; so after `n` calls the iterator has yielded the `n` least
members in order, for operands of any lengths and both conventions of the index
(`Seen`).

### Functions written by recursion

The scores, the searches over a list, the replacements in a command and the calls
of an iterator are recursive functions and folds.  What they compute is proved by induction over a number all
the same: a set of numbers that has a counterexample has a least one
(`LeastNat`, `Induct`), which needs no theorem with an operator for a parameter.
`Induct` is applied twice to each such function: to show that the
function its definition chooses exists, and to what it computes.

### What is only model-checked

* Liveness: `StartupCompletes`, `EventsDelivered`, `CommandsTaken`,
  `DropJoinsWithRoom`, `EntriesResolve`, `SubmitsEnd`, `DropJoins`.  They need
  fairness and `ENABLED`, which TLAPS does not handle.

## 5. The plan

Every safety and action property of the passing runs has its theorem.

Next in the model: the commands of clicks and menus told apart, from the button
to the handle; a second activation with two receivers on one channel.

## 6. Not modelled

Wording, CSS, layer-shell set-up and logging; the D-Bus and Wayland
libraries beyond what the code expects of them; GTK beyond the callbacks it
makes; an unset `HOME` or an unreadable pinned.json, which the code treats as no
file (`InitFiles` contains the empty one); a second activation of the
application, which would start a second dock on the same event channel.  Of the
toplevel commands only their order and execution (WaylandThread), not what each
asks of the compositor.  Of GTK's list view, whether it binds an item again after
unbinding it, which factory.rs does not provide for (the right-click gesture is
added by setup and removed by unbind).  Of the daemon, `get_all_ids`,
`get_all_entries` and `run`, which no program of the repository calls; a
directory that changes after the daemon has read it is not watched by the code
either.  Of the finder, the order of the collected matches, the table of accents
and the width of scores.
