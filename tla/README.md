# Formal models of commons-c

commons-c is a set of small C libraries shared by SDL and LVGL applications. The parts with
behaviour over time are the thread pool and what runs on it, a few objects shared between
threads, and a grid widget that recycles its item views; the rest are algorithms over texts, bits and
lists. The modules here model both in TLA+; TLC checks them on small instances. TLAPS proves, for every
instance, the safety of the thread pool, its updater and its refinement, of the counter, the lazy value
and the Luna call, of the mice, the grid, the lists and the touchpad, and, for texts of any length and
contents, what the downloaded file, the list of modules, constraints, escaped bytes and addresses mean.

## Inventory

State, operations, interactions, what is hard, and what correctness means, per component. The
status of each is repeated in `PROJECT.json`.

**util/executor** keeps a pending list and an active list of tasks, each with a mutex and a
condition variable, a flag `destroyed` with a mutex of its own, and an array of threads.
Operations: create, submit, cancel, task state, active count, destroy; the threads poll, run,
finalize and free. Callbacks of a task may submit and cancel. Hard: three locks and no step under
more than one of them, a task that is on neither list for a moment, every worker clearing the list
on its way out, calls that race with destroy, spurious wakeups, addresses used again. Correct: a
task is in one place; it is finalized exactly once; a cancelled pending task does not run; destroy
returns and leaves no task.

**util/linked-list** is a header that generates list functions for a node type: append, remove,
sorted insert, find, free. The executor uses the doubly linked form. Correct: what a sequence does.

**util/refcounter** is a counter with a mutex. Whoever is told that it dropped the last reference
destroys the object. Hard: the comparison with zero after the unlock, an assertion that reads
without the lock. Correct: exactly one is told, when nobody else holds one.

**util/lazy** runs a supplier once under a mutex and keeps its value. Hard: SDL mutexes are
recursive, so a supplier may obtain the value it is supplying. Correct: one supplier call, every
caller gets its result.

**util/array-list** is a growing array: add at the end or before an index, remove, sort, search.
Hard: growth by doubling, failed growth. Correct: what a sequence does.

**util/version-info** parses versions and constraints and compares them; **util/uuidstr** formats
and compares UUIDs; **util/logging** formats lines for several back ends. Pure computation and output.

**device/evmouse** opens the mice under `/dev/input` and reads their events in a loop until another
thread interrupts it. State: two flags and a grab flag per device, under one mutex. Hard: an
interrupt before, during and just after a listen, several listeners, grabs that fail one by one.
Correct: an interrupt is heard once and soon, the grab flags are true to the kernel.

**device/gcdb-updater** downloads a controller database in an executor task. State: the pointer of
the task in flight, a context per task. Calls executor submit, cancel and task state. Hard: the task
pointer is never cleared, the task uses the updater that deinit frees, the lists' gap makes a running
update look finished. Correct: one update at a time, none after deinit.

**device/cec-sdl** starts a thread that opens a CEC adapter and waits to be told to quit. Hard: the
quit flag and the signal are under another lock than the wait. Correct: deinit returns.

**device/gamepad-touchpad** finds the event nodes of a controller in sysfs that SDL leaves alone, and
grabs them. Correct: never a node outside the controller, never one that SDL reads, release undoes it.

**lvgl/widgets/gridview** keeps views for the rows near the visible area, in a pool of views in use
(by position) and a pool of free ones; scrolling, data changes, focus and deletion of views move them.
Hard: a window that is stale when the data changed, two recycling loops with different bounds,
changes applied to positions in order. Correct: no two views at a position, no view without an item,
every visible item bound, the focus on an item.

**lvgl/sdl_img** prints and parses image descriptions and calls SDL to decode. No state.

**media/sps-parser** reads picture dimensions from H.264 and HEVC headers, bit by bit. Hard: emulation
prevention bytes, dozens of optional fields before the size, two framings of HEVC sets. **media/ss4s/modules-list** reads module descriptions and chooses a
video and an audio module by preference, weight, conflicts and a probe.

**net/hostport**, **net/sockaddr** split, parse, compare and print addresses; **net/wol** sends a
datagram. **io/copyfile**, **io/ini-writer** write files. **os/info** reads the system's version.
**platform/webos** holds a synchronous Luna call (a condition variable waited on until the one reply
comes, without a limit), two readers of settings and linker placeholders.

## Plan

In the order of importance; all but the last is done.

1. `Executor` with its abstract specification `TaskLifecycle`, refinement, liveness, and
   `ExecutorProofs`: the inductive invariant for any instance.
2. `RefCounter`, proved in `SharedProofs` with `Lazy` of item 8.
3. `EvMouse`: flags, loop, grabs.
4. `GridView`: window, pools, changes, focus, rebinding and deleted views.
5. `GcdbUpdater`, which EXTENDS `Executor` and adds the updater's thread, with `GcdbProofs`, which
   uses the theorems of `ExecutorProofs`; `GcdbDownload`: what one update does to the file.
6. `LinkedList`: pointers against the sequence they stand for, which is what `Executor` and
   `GridView` take a list to be; `ArrayList`: memory against a sequence, with a failing allocator.
7. The pure algorithms, each against a reference or a round trip: `VersionInfo`, `Ss4sModules` (which
   uses it), `SpsParser` with `SpsBytes`, `SpsSyntax` and `SpsReading`, `NetAddress`, and the sysfs walk of `GamepadTouchpad`.
   `Text` holds what several of them take from the C library.
8. Waiting: `CecSdl`, `LunaCall`, `Lazy`.
9. Proofs beyond the core: the refinement of `TaskLifecycle`, step by step, in `ExecutorProofs`;
   `EvMouseProofs`, `GridViewProofs`, `ListProofs` (both kinds of lists), `TouchpadProofs`; in
   `SharedProofs` the context of `LunaCall`; and `TextProofs`, whose subjects are read or written
   piece by piece.
10. Left: that `SpsParser` passes over each optional field as the standards write it, for which its
   scripts would have to be functions, and the safety behind the liveness of `CecSdl`.

Runs have a bound of a few workers, tasks, mice, rows, users or nodes each; the theorems have none.

## Executor

`Executor.tla` models every step of `executor.c`. A step is a critical section of one lock with the
thread-local code next to it. `executor->lock` guards only the flag and `active.lock` one list
operation, so neither is a variable. `pending.lock` is one (`lock`), because a worker holds it from
the test of an empty list over the test of the flag to `SDL_CondWait`, and while it calls the
finalizers of cleared tasks.

| code | model |
|---|---|
| `thread_worker` loop | `wpc[w]`: poll, (empty, sleep, waiting), polled, start, running, finalizing, then clear, clearing, exited |
| `queue_poll` | `PollTask`, `PollEmpty`, `PollCheck`, `CondWait`, `SpuriousWake` |
| flag tested after the poll | `Drop` or `Activate` |
| `task->cancelled` read, action, finalizer | `Start` or `Skip`, `Finish`, `Retire` |
| `queue_clear` | `ClearBegin`, `ClearTask`, `ClearEnd` |
| `executor_submit` | `Submit` (flag), `SubmitPush` (allocate, append), `SubmitSignal` |
| `executor_cancel` | `Cancel` (flag), `CancelActive`, `CancelPending` |
| `executor_destroy` | `DestroyBegin` (flag), `Broadcast`, `Join`, `DestroyEnd` |

A task is the address `calloc` returned and is used again once freed, so a stale pointer may name a
newer task, as in the code. `results`, `late` and `doomed` are history. Callers are any threads: a
worker calls from its callbacks, the owner until it destroys, another thread at any time. A call made
after the flag is set returns at once and is no step.

`TaskLifecycle` is the promise of `executor.h` with neither threads nor locks: tasks are queued in
the order of submission, taken from the head, perhaps run, finalized once, and gone; "ok" is reported
only for an action that ran and ended before the close; the executor ends with no task left. The
mapping reads a task's phase off the list it is in or the program counter of the worker that owns it.

Runs:

- `executor_safety`: two workers, two addresses, three submissions, one spurious wakeup, calls from
  the owner, a worker's callbacks and a foreign thread. Two addresses and three submissions make an
  address be used again while another task lives.
- `executor_lifecycle`: under `FairSpec`, with calls from the owner and a worker. The executor
  implements `TaskLifecycle`, every task ends, no task outlives the join, and destroy returns unless
  a worker is at the brink of sleep.
- `executor_shutdown_hangs`: destroy may not return. It broadcasts without `pending.lock`, between a
  worker's test of the flag and its wait. One task and no spurious wakeup are enough.
- `executor_task_leaks`: a foreign thread's submit that tested the flag before destroy set it leaves a
  task that nobody finalizes.
- `executor_cancel_misses`: a cancel that looks between a poll and the push to the active list marks
  nothing, and the action runs.

Fairness: threads are scheduled (weak fairness of each thread's steps and of a call that began), and
callbacks return. The last is strong fairness of `Finish` and `Retire`, because the step is disabled
now and then while the callback makes a call of its own. Nothing makes a caller call, the owner
destroy, or a sleeper wake alone. Deadlock is not checked in these runs: a destroyed executor stops.

## RefCounter

`RefCounter.tla` gives each thread at most one reference, taken for it by a holder. The assertion of
`refcounter_ref` is a step of its own before the increment, as it reads without the lock, and the
comparison in `refcounter_unref` one after the decrement. `CountsHolders` makes both assertions of the
header hold, `OneLast` is the regression of `refcounter_tests.c`. It is part of the run `units`, with
three threads: while one compares, another drops the last reference it was handed by the third.

## EvMouse

`EvMouse.tla` has an action per critical section of `mouse->lock`, one for `select` and one for each
`read` with its dispatch. What an event says is left out, whether the listener was called is not.
Another program may hold a mouse's grab (`holder` is the kernel's view), and each grab may fail alone.
`evmouse_close` is called when no listen is under way.

The run `evmouse` has one listening thread, which listens again and again, and three mice. An
interrupt when nobody listens is heard by the next listen (`EarlyInterruptHeard`); one in the loop
ends it (`InterruptEndsListen`) within a round (`AtMostARound`) and leaves nothing for the next
(`NothingLeftBehind`); the grab flags are the kernel's (`GrabsKnown`). Fairness: a thread in its loop
is scheduled, as `select` has a timeout of a millisecond. Nothing makes anybody interrupt.

The run `evmouse_two_listeners` shows that the first listener's interrupt can be undone by a second
thread that consumes the interrupt, listens again and sets `listening`, which the first one's loop
reads. The guard at the top of `evmouse_listen` does not cover a loop that was interrupted and has
not looked yet.

## GridView

`GridView.tla` has one action per call of the interface and per LVGL event, as everything runs on one
thread. The grid is a record and each function of `lv_gridview.c` an operator on it: `UpdateGrid`
computes the window of rows, applies the reported changes and calls `FillRows`, which recycles what
left the window, binds what is in it and serves `focus_when_available`. A view in use has its position,
its cell, whether it was bound since the data last changed, and whether it was told that it has the
focus. `mode` says what the application does besides reloads: it reports changes anywhere ("edits") or
at the end of its data only ("reloads"), or it changes the data in place (`Touch`), asks for views to
be bound again (`Rebind`, `RebindItem`) and deletes views of its own (`DeleteItem`, the handler
`item_delete_cb`; "rebinds"). Two history fields let the properties tell these apart: `gone` holds the
positions whose view was deleted, `stale` the position from which on `lv_gridview_rebind` has left
views as they were: it returns at the first item without a view (`lv_gridview.c:273`). After a view of
the window was deleted, an update that recycles its row, such as a scroll, fails the assertion at
`lv_gridview.c:644`: the program then stays where it is (`Halted`). When no view was deleted, TLC would
report a failed assertion as a deadlock of the run. LVGL is external: it scrolls only what it has laid
out, and only within the content.

- `gridview`: one column, up to four items, windows of two rows that overlap, one change of at most two
  items at a time, three views in use. What is in the window has a view unless it was deleted, bound to
  the current data once it was rebound (`WindowFilled`), a view that was moved is in the cell of its
  position (`CellsRight`), and, for changes at the end or in place, no item has two views
  (`OneViewEach`) and only the focused item's view has the focus (`OneFocused`). The bound on views leaves room for one outside the window, which is how views
  come to be in the way of others. The number of columns and the row height do not change.
- `gridview_jump_asserts`: a scroll from rows 0 and 1 to rows 4 and 5 recycles rows 2 and 3 too, which
  nobody used, and the assertion fails.
- `gridview_reload_keeps_views`: a reload to no items leaves the last row's view in use.

Two more things met while modelling have no run. With changes in the middle of the data `OneViewEach`
does not hold: a view is moved as far as `max_item_end`, past the last row that `fill_rows` remembers,
so that no scroll recycles it and a later change moves another view onto its position. And
`lv_gridview.h:124` says that a number of changes that is not positive invalidates the dataset, but
`lv_gridview.c:196` does so only for a negative one.

## GcdbUpdater and GcdbDownload

`GcdbUpdater.tla` is the updater of the controller database on an executor: the actions of `Executor`
with one thread, `App`, that starts updates, submits other tasks, and takes the updater down.

| code | model |
|---|---|
| `commons_gcdb_updater_update`: `executor_task_state` | `QueryActive`, `QueryPending` (one list after the other) |
| `update_thread_start` | `StartUpdate`, `Push`, `Submitted` (which sets `update_task`) |
| `commons_gcdb_updater_deinit` | `DeinitBegin`, `DeinitCancel`, `DeinitEnd` |
| the workers, `executor_destroy` | `Executes` |

`updater->lock` is not a variable, as one thread makes all calls. The run `gcdb` has two workers, two
addresses and three submissions, so that an update's address comes back as another task's. It shows
when each promise fails, and no other way for it to fail:

- `OneUpdate`: two updates are there at once only if the query fell between the two lists, after the
  worker had taken the first from one and before it was on the other (`test_gcdb_update.c:22` expects
  the second call to be refused). TLC reaches this in ten steps.
- `NoLateUse`: after deinit, which frees what an update uses, an update goes on only if a worker had
  it already. TLC reaches that too: deinit marks the task and does not wait for it.
- `OthersAlone`: `update_task` is not cleared when an update ends. Another task is cancelled, or keeps
  an update from starting, only when it has got the address of one that ended.

`GcdbDownload.tla` is one update at a time: the etag read from the comments at the top of the file,
the answer, header lines, the body in chunks that break lines anywhere, and an error at any point.
`FileTrueToEtag`: between updates the file is what the server had under the etag in it, each line of
the platform once, except after a transfer that was cut; it is empty only until an update has said UPDATED, and no
other answer changes it. That exception is the code's: the etag is
written before the body, `update_task` reports UPDATED by the status alone (line 195), and the next
update is answered 304. A last line without a newline is never written. `lockf` is taken to succeed,
as the code asserts it. A line is two pieces, the second of which ends it, and a chunk any number of pieces;
`Scanned` goes through what the buffer holds and the new chunk piece by piece, as the loop of
`write_mapping_lines` does. `DatabaseAssumption` says what a server can have.

## The waiting parts

- `CecSdl.tla`: the thread of `cec_sdl.c`, from `libcecc_initialise` to the join.
  `CecStops`: deinit returns unless the worker was between its test of `quit` and its wait when
  deinit signalled, which holds another lock. Fair are the worker's and the owner's own steps.
- `LunaCall.tla`: the caller, the callback on another thread, the mutex and the condition.
  `LunaReturns`: once a reply has arrived the call returns with it, whether it came before, during or
  after the wait. Fair are the steps of caller and callback; that a reply comes is not assumed, and
  without one the call never returns. `ContextLives`: the context and its mutex, which are on the
  caller's stack, are there until the callback has unlocked it.
- `Lazy.tla`: three users, a supplier that may return null and may obtain the value it supplies.
  `OneValue`: one supplier call, and every call outside it returns the value. A nested call sees an
  unset one, since the flag is set before the supplier is called (`lazy.h:33`).

## Lists

`LinkedList.tla` keeps `head`, `next` and `prev` and changes them as the macros and `queue_poll` do;
`content` is the sequence they stand for. A walk along `next` is a function of the number of steps;
`Place` is where the loop of sortedinsert stops. `LinksHoldContent` ties the two together in both
directions, and says what walking finds, for four nodes, two of which are equal to the comparator. `ArrayList.tla` keeps the memory
behind the list, six cells of it, and lets any `realloc` fail; `MemoryHoldsItems` compares memory and
sequence, and says that a failed `realloc` is the only way for the size to pass the capacity
(`array_list_add` does not learn of it).

## Algorithms

- `VersionInfo.tla`: `ConstraintMeaning` compares constraints, read from text, with the full versions
  that a shorter one stands for: `<`, `>` and `<>` hold if they do for all of these, `=`, `<=` and `>=` if
  they do for some, which is what `version_info_test.c` expects. The meaning is that of the operator and the
  numbers the text was made of, not of what the model parsed. Parts are 2 and 10, so that digits and numbers
  are in a different order; all versions of up to three parts, all operators and three that do not exist.
- `Ss4sModules.tla`: the ini handler line by line, the sort and the choice. `ListTrueToFile`: every
  field of a module (video, audio, group, weight, conflicts, versions) is what its own section says, or
  blank if that says nothing, so that nothing of another section, kept or dropped, is in it; and the modules
  are those of the sections that the system satisfies, each once. `SelectionSound`: what was
  chosen can do it, and the two do not conflict. `HeaviestVideo`: nothing heavier was passed over but
  for a module asked for by name. Files have two sections, calls any mix of names, and the probe any
  answer. A section that comes back later in a file makes a second module; such files are left out
  (`WellFormed`).
- `SpsBytes.tla`: the bytes the bit reader takes from a stream, and what a writer puts there: a byte 3
  where two zeroes would be followed by one of at most 3. `SpsParser.tla`: the bits and both parsers.
  `SpsSyntax.tla` writes parameter sets the way the standards define them, with emulation prevention
  bytes. `SpsReading.tla` takes a parameter set through three steps: written, un-escaped, parsed.
  `SizeIsRight` says that the parser finds the size it means. H.264 sets begin with their NAL unit
  header, which that parser skips. The HEVC parser begins at `vps_id` (line 278) and skips no header.
  One test gives it a set from `vps_id` on (`sps_parser_tests.c:44`), the other a set from the header
  42 01 on (lines 14 and 32). That header is read as one sub-layer, whose two flags and fourteen bits make
  up for its sixteen, so the size is right, but only if the set has no sub-layers of its own: with one,
  TLC finds a wrong size or none, for every set tried. `SizeIsRight` says so of both framings. The sets cover
  chroma formats, scaling lists that are absent, flat or cut short, all picture orders, cropping, field
  coding, sub-layers, and four mixes of the optional VUI parts. Left out is the chroma location of the VUI: the
  parser skips five bits twice (lines 398 and 399) where the standard has two numbers of variable length.
- `NetAddress.tla`: `WrittenIsReadBack` parses what was written, for IPv4 and IPv6 with and without
  port, and host names up to the limits (3 and 7 characters here for 63 and 253). Its exceptions are
  the code's: `hostport.c` writes IPv6 without brackets; an IPv4 address followed by a bad port is
  taken for a name. `sockaddr_clone` and `sockaddr_compare`, which copy and compare 16 bytes and so not
  all of an IPv6 address, are left out.
  `AddressesAssumption` says of `inet_pton` and `inet_ntop` what the code relies on: what one writes the
  other reads back, with no colon in an IPv4 address and no bracket in an IPv6 one; a port has 16 bits.
- `GamepadTouchpad.tla`: directories in sysfs are sequences of names. Between reading the names and
  opening them devices may go and come, with the numbers of others. `GrabsOwn`: a pad grabs nodes of its own
  HID device that SDL does not read, and nothing once released, except for a device plugged in since
  and a joystick whose `js` node was not made when its directory was read.

The run `units` checks RefCounter and the parts of these four sections but `GcdbUpdater`, side by
side: each behaviour is one of one part, which the variable `unit` names, so the states are the sum
of the parts' and not their product. `MCUnits` extends the parts that have proofs, so that TLC
evaluates their assumptions, and instantiates `CecSdl`, whose tuple of variables is repeated because TLC
does not take it through an instance; it also assumes of its files that they are well-formed, which TLC
evaluates too. Parts come to a stop, so deadlock is not checked.

## What is proved

`ExecutorProofs` proves `Spec => []IInv` from `ThreadsAssumption` (finitely many workers, at least
one, the owner not among them), `TasksAssumption` (the null task is no address) and
`BoundsAssumption`, for any such constants. None of the safety properties is inductive alone. `IInv`
adds: who holds `pending.lock` and who owns a task can be told from the program counters
(`LockHolder`, `TaskHolder`); how many finalizer calls a task has had follows from where it is
(`FinalizerCalls`); a late start happens once because the flag stays set (`LateStarts`); a doomed task
stays marked (`Doomed`); a worker leaves only after the flag (`ExitOnlyDestroyed`); calls come from
callbacks or a live owner (`CallsFromCallbacks`), so once every worker has left, the last of them
cleared the list and nobody fills it (`ExitedNonePending`, if only the owner and the workers call).
There is a lemma per action, a lemma per list operation, and each safety property of the runs follows.

The module also proves that the executor implements `TaskLifecycle` (`LifecycleImplemented`), from
`IInv` and the hypothesis `ClosedCallers`, that only the owner and the workers make calls; without it
a foreign submit leaves a task in an ended executor, as `executor_task_leaks` shows. The phase of a
task is a choice among workers; `PhaseIs` shows with `Ownership` that there is one to choose. `OneMoves`
and `NoneMoves` say that a step that moves one task, or none, between lists and workers changes one
phase, or none; with them each action is one step of the life cycle (`PollTask` is `Take`, and so on)
or a stutter. The end needs that the last worker has left and the list is empty.

`SharedProofs` proves the same way, for any finite set of threads, that RefCounter's count is the
cardinality of the holders and that one thread alone is told that it was the last; and for any users
and supplier that `Lazy` has one value: the mutex keeps one user in the supplier (`OneInside`), before
it is called nobody has an answer (`Untouched`), afterwards all have the value (`Settled`). For `LunaCall`,
for any messages and number of wakeups, `LunaInv` says who holds the mutex and that the mark
`finished` is set inside the callback's lock: the caller, who looks under the same mutex, sees it only when
the callback has left the context (`ContextLivesSafe`).

`GcdbProofs` first proves `GcdbSpec => Spec` (`GcdbUsesExecutor`): every step of the updater is a step
of the executor or leaves its variables alone. So `IInv`, and with it `FinalizedOnce`, holds of the
updater as well. On top of it, with `AppAssumption` (the thread may call the executor), `GcdbInv` is
inductive; its parts say in which executor call the thread is at each of its own points (`Places`),
that `update_task` and the arguments of calls are updates or addresses updates had (`Pointer`), that
only such tasks are marked (`Marked`), that before any query fell between the lists the only update is
the one `update_task` names or will name (`Only`), that at the end of deinit's cancel an update still
pending is marked (`Undone`), and that one it was in time for stays marked and does not run (`InTime`).
`OneUpdate`, `NoLateUse` and `OthersAlone` follow, for any number of workers, tasks and addresses.

`EvMouseProofs`, from finitely many mice (`MiceAssumption`) and for any listeners: `IInv` adds to the
properties that a thread in the loop has the devices open (`ListenersOpen`), that what `select` reported
is read before the loop goes round (`Unread`), that only open mice are flagged (`GrabsOpen`), and that
an early interrupt waits for a listen that has not begun (`Early`). `GrabsKnown`, `NothingLeftBehind`
and `EarlyInterruptHeard` follow. `AtMostARound` is proved for one listener, by the calls made since the
interrupt plus the mice still to read being at most the mice; with two it is false, as the second may
set the flag that the first one's loop reads (`evmouse_two_listeners`).

`GridViewProofs`, from `SizesAssumption`, `ItemsAssumption` and `ModesAssumption` (sizes are positive,
positions lie in a bounded range), for any number of items, rows and views. `IInv` is `Good` of the
grid: every field has its type (`Grids`) and the window is in order; when changes come at the end or in
place only, no two views have a position (`OneEach`) and the view told of the focus is the focused
item's (`FocusRight`). Each function of the code that loops is a fold; a lemma says what one round
keeps, and the fold keeps it by going round that often. Two theorems have hypotheses that the code needs:

- `CellsRight` under `FixedCells`: one number of columns, and rows below 256. With two numbers of
  columns TLC finds a view in the wrong cell: the grid is filled anew after `clear_rows`, which leaves
  the window's last row. From row 256 on `row_idx` is truncated.
- `WindowFilled` under `Steady`: one row height, and a content area that is never empty nor smaller than
  the paddings. The invariant then has every window in sight (`Placed`) and filled (`Kept`), and
  `FilledKept` shows that `update_grid` fills the rows or leaves no item in the window. TLC finds it
  violated otherwise: a change of the row height alone updates nothing, and with a height of 0, or
  paddings that leave no room, `update_grid` returns before it fills anything.

`ListProofs`, from finitely many nodes with integer keys (`NodesAssumption`, `KeyAssumption`):
`LinksInv` says that the nodes of `content` are distinct, that each one's links are its neighbours in
it, and that a node in no list has none. By induction over steps a walk gets to the node of that place
(`Walked`), so length, n-th, last, index, find and the place of a sorted insert are those of the
sequence, and each operation, `queue_poll` included, keeps the invariant. For an array list, from
`ValuesAssumption` and `CellsAssumption`, `ArrayInv` ties each cell below the size to its item, and the
capacity to the size unless a `realloc` failed; doubling any positive capacity often enough reaches
what is needed (`DoubledIsEnough`), and `memmove` moves exactly the items behind the place (`AddKeeps`).

`TouchpadProofs`, from `PadsAssumption`, `PathsAssumption`, `InputsAssumption` and `NumbersAssumption`
(two devices never have one node, the free grabber is no pad): an input device in the directory found by
the walk lies below the pad's own HID directory (`BelowIsOwn`); a name still to be opened is that of a
device found when the directory was read or of one plugged in since (`NamesKnown`), since a number is one
device's at a time (`Nodes`); hence `GrabsOwn`, for any devices that come and go in any order.

`TextProofs` is about data of any length. A recursive function is unfolded once, into the fact that each
of its values follows from the one before (`NumberBy`, `TakenBy` and the like), and induction is over a
set of numbers or sequences (`AllOf`, `AllSequences`), from the well-foundedness of `<`.

- `GcdbDownload`, from `DatabaseAssumption`: what `write_mapping_lines` writes and keeps of two chunks,
  one after the other, is what it writes and keeps of them in one (`ChunksAnywhere`). `DbInv` says that the
  file and the buffer are those of what has come of the body (`BodyInv`); when nothing is left the file is
  the version's, and no longer empty (`FileTrueToEtagSafe`), unless the transfer was cut.
- `Ss4sModules`, from `FilesAssumption` (files are sequences of lines): `ListInv` keeps the list among
  what sorting the file's modules can give. Line by line, in a well-formed file, each module closed has
  in every field what its section said and the one being read what it has said so far (`LineRead`), and
  when it is dropped nothing of it is left (`BlankDescribed`), so that `ListTrueToFile` follows, under the hypothesis that all files are `WellFormed`. The heaviest that can is
  the first that can, as the list is sorted (`HeaviestVideoSafe`); the three ways to an audio module each
  lead to one that goes with the video module (`SelectionSoundSafe`).
- `VersionInfo`: `ConstraintMeans` is the second half of `ConstraintMeaning`, for any numbers: the first
  part in which two versions differ decides for all full versions they stand for (`Decided`), and without
  one there is a full version that both stand for (`Common`), which is why `=`, `<=` and `>=` then hold
  for some and `<`, `>` and `<>` not for all.
- `SpsBytes`: `EscapedIsTaken`, reader and writer count the zeroes of the payload alike, so the reader
  takes the payload of every stream that was escaped.
- `NetAddress`, from `AddressesAssumption`, `CallsAssumption` (texts are sequences of characters, ports
  have 16 bits) and `LimitsAssumption`: what `%d` writes of a number `strtol` reads (`DecimalIs`); a text put
  together with brackets and a colon comes apart at them (`ColonCut`, `BracketIs`), so every address is
  read back (`AddressWritten`). `NetInv` says that a host is an address or a name in which
  `find_hostname_end` finds nothing wrong. Where it stops is one place (`EndAt`), and for a name followed by
  a port that is the colon, so names are read back too (`NameWritten`), and `WrittenIsReadBack` follows,
  with the two exceptions it states.

Only model-checked: liveness, of the executor, the mice and the waiting parts, which is out of the
prover's reach; what the runs that expect a violation show; `SizeIsRight`, since `SpsParser` passes over
optional fields with a recursive operator, which the prover does not take; that `VersionInfo` reads the
texts of constraints as they are meant, the first half of `ConstraintMeaning`. `OneViewEach` and
`OneFocused` say nothing of changes in the middle of the data, where the first is false.

## Not modelled

Wording, formatting and logging; failing locks, and failing allocations but in `ArrayList`; in
`GridView` presses that are forwarded, which only send an event, and the destruction of the widget; the key
presses of `cec_key.c`, which turn a CEC code into an SDL event and share no state with the thread; copying and
comparing addresses; the parts whose status in `PROJECT.json` is `not_modelled`: they format, print, read or
write and have no state over time (`util/logging`, `util/uuidstr`, `io/copyfile`, `io/ini-writer`,
`os/info`, `net/wol`, `lvgl/sdl_img`). Third-party headers (`ceccloader.h`) and the build files are
left aside.
