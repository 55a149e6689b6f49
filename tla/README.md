# ghastty: specifications, model checks and proofs

ghastty is a terminal emulator: a core in Zig (`src/src`), shared by several
front ends, and a Qt front end in C++ (`src/qt`). This directory holds TLA+
modules of its concurrent core and of the parts of the Qt front end that are
as hard, the TLC configurations that check them, and proofs checked by TLAPS.
`PROJECT.json` lists the components, the runs, the lines each definition models, the
hazards, the findings and the theorems.

## 1. The system

Each surface (one terminal) has four long-lived threads in the core, plus the
gather thread that feeds one of them:

    child --pty--> gather --ring--> parse ("reader")      termio/Exec.zig
                                      | terminal, under renderer.State.mutex
       main (app) <--app mailbox------+-------- writer, renderer, search
       writer (io) <--termio mailbox--+-------- main
       renderer <-----rend mailbox----+-------- main, writer, search

A mailbox is a `BlockingQueue` of 64 messages; a producer pushes and then sets
the consumer's async wakeup. The terminal is shared memory under one mutex,
`renderer.State.mutex`. What makes the core hard is that the same few threads
wait for each other through full mailboxes, that mutex, condition variables,
wakeup flags and joins, in code spread over a dozen files.

The Qt front end adds two more kinds of difficulty. A frame goes from the
renderer thread over a parked dma-buf to the GUI thread and on to the Wayland
compositor, which gives buffers and permission to draw back when it likes:

    renderer --parked frame--> GUI --present--> compositor
       ^--- frame callback (m_compositorReady), release (m_buffersInFlight)

And its one GUI thread runs nested event loops - a dialog, a tab that is dragged -
which close and open windows under the feet of the code that started them.

### Inventory

| component | state | operations | hard | what makes it correct |
|---|---|---|---|---|
| blocking queue (`datastruct/blocking_queue.zig`, `lib/compat/thread.zig`) | ring, two indices, a count, `not_full_waiters`, condition variable | push with instant/forever/ns, pop, drain iterator | wake-ups against barging producers, timeouts, one signal per drain | a bounded FIFO; counts agree; no producer left asleep |
| read thread (`termio/Exec.zig`) | ring of buffers, head/tail/count, `bridging`, `done`, idle pipe | gather, publish, bridge, parse, release, quit | buffers used without a lock, three polls, signals after unlocking | exclusive ownership, order, nothing dropped, ends on quit |
| io thread and mailbox (`termio/Thread.zig`, `mailbox.zig`, `Termio.zig`) | mailbox, wakeup, stop, coalesce, synchronized output and selection scroll timers | drain, handlers, resize, start and failed start | sends under the mutex, errors in a drain, timer cancels | no deadlock, all mail read, stays until stopped |
| stream handler (`termio/stream_handler.zig`) | terminal, `termio_messaged` | one handler per sequence | gives up the mutex in the middle of a batch | changes are shown, replies are sent |
| renderer thread (`renderer/Thread.zig`, `generic.zig`) | flags (visible, focused, blink), timers, swap chain | drain, update, draw, frame completed | timer cancel against reset, GPU callbacks | last change is drawn, timers match focus |
| state hand-off (`renderer/State.zig`) | mutex, `demand`, `handoff_gen` | `lockDemand`, `unlockDemand`, `yieldToDemand` | relaxed counters and a futex | renderer not starved, parser not stalled |
| app and surfaces (`App.zig`, `Surface.zig`, `apprt/*.zig`) | list of surfaces, app mailbox, focused surface | tick, messages by surface address, create, close, quit | close while messages are in flight | mail reaches only its own live surface |
| search (`terminal/search/*`) | mailbox, search state, last notified values | needle, select, refresh, stop and join | callbacks push with forever while being joined | totals match the terminal, close returns |
| font grids (`font/SharedGridSet.zig`) | map of grids with reference counts, lock | ref, deref | last deref against a new ref | a grid lives exactly as long as its users |
| containers (`ref_counted_set.zig`, `circ_buf.zig`, `cache_table.zig`, `split_tree.zig`) | open addressing tables, rings, trees | add, use, release, resize | probe distances, id reuse, wrap around | agree with the abstract set, sequence or tree |
| terminal (`Terminal.zig`, `Screen.zig`, `PageList.zig`, `page.zig`) | pages, cursor, tracked pins, screens | print, scroll, resize, erase, switch screen | pins across pruning and reflow | pins stay valid, page sizes add up |
| parser (`Parser.zig`, `parse_table.zig`, `stream.zig`) | state, parameters, intermediates | next(byte) | limits, aborts in the middle | one action per final byte, bounded buffers |
| tmux control mode (`tmux/control.zig`, `viewer.zig`) | viewer state, command queue, windows, panes | notifications, command replies | notifications between a command and its reply | replies matched to commands |
| kitty graphics, clipboard | chunked transmissions, limits | transmit, place, delete | partial transmissions | limits hold, chunks of one image only |
| key bindings (`input/Binding.zig`) | trigger tree, sequence in progress | press, chain, time out | leader sequences | queued keys are sent or consumed once |
| configuration, CLI, crash reports | files | parse, format | none concurrent, except the ssh cache | |
| ssh cache (`cli/ssh-cache/DiskCache.zig`) | one file, file lock | add, remove, prune, contains | several processes, crash in a rewrite | entries are not lost |
| Qt windows (`qt/src/MainWindow.cpp`, `app`, `undo`, `TabWidget.cpp`) | windows, tabs, panes and their owners, undo stacks, quit timer | open, split, close, tear off, adopt, undo, quit | nested event loops, deferred deletion, posted closes to old owners | a pane has one owner, the app outlives windows, the process ends when it should |
| Qt frames (`qt/src/GhosttySurface.cpp`, `wayland/SubsurfacePresenter.cpp`, `renderer/generic.zig`, `Vulkan.zig`) | parked dma-buf, ready token, buffers in flight, cache, swap chain | draw, park, drain, present, hide, show, resize, reparent, exit | two waits with timeouts, releases in any order, two drawing threads | nothing shown while hidden, no hole, newest contents shown, no wait in vain |
| GTK, macOS, web front ends, build, `pkg`, `vendor` | | | | not part of this work |

## 2. Modules

| module | models | extends or uses |
|---|---|---|
| `BoundedFifo` | what a mailbox promises: an abstract FIFO with `Begin`, `Commit`, `Fail`, `Take` | |
| `BlockingQueue` | `blocking_queue.zig` on the condition variable of `lib/compat/thread.zig` | instance of `BoundedFifo` as its refinement |
| `BlockingQueueProofs`, `BlockingQueueRefinement` | theorems about `BlockingQueue` | extend it |
| `ReadThread` | `Exec.ReadThread` on POSIX: gather stage, ring, parse stage | |
| `ReadThreadProofs` | theorems about `ReadThread` | extends it |
| `SurfaceThreads` | main, writer, reader and renderer of a surface, their mailboxes, wakeups, mutex and joins | uses mailboxes at the level the `BlockingQueue` runs justify |
| `SurfaceThreadsProofs` | theorems about `SurfaceThreads`: types, holders, circles of waits | extends it |
| `SurfaceThreadsMail` | theorems about its notifications: mail, senders, changes | extends `SurfaceThreadsProofs` |
| `FramePresent` | swap chain and `draw_mutex`, the parked frame of `GhosttySurface`, `SubsurfacePresenter`, the compositor | |
| `FramePresentProofs` | theorems about `FramePresent`: types, what is shown | extends it |
| `FramePresentFlow` | theorems about its waits and the newest contents | extends `FramePresentProofs` |
| `Windows` | `MainWindow`, `GhosttyApp`, `TabBar`, `UndoStack` and the core's count of surfaces | |
| `WindowsProofs` | theorems about `Windows` | extends it |
| `MC...` | constants for TLC | |

**BlockingQueue.** `data`, `write`, `read`, `len` and `not_full_waiters` are the
fields of the Zig struct; `waiters` and `signals` are the two halves of the
condition's state word, `notified` the sleepers whose futex wait has returned.
A push is `Call`, then `PushNow`, or `PushWait` and, after the condition
variable's own steps, `PushResume` or `PushTimeout`; each is one critical
section. `drain` keeps the mutex until `deinit`. The condition variable itself
is an atomic state word and a futex; `Consume`, `Resleep`, `Expire` and
`Unregister` are the exits of `waitTimeout`, where `Expire` and `Unregister`
are apart because another thread can signal between them. `signal` comes from
the standard library and is modelled from the protocol `waitTimeout` follows.
An interrupted wait does not occur: no thread of the program is canceled.

**ReadThread.** Bytes are numbered in the order the child writes them, so that
loss, duplication and reordering show in the number the terminal gets. Every
critical section, every signal after it, every poll and read is a step of its
own. Buffers hold real sequences of bytes, because they are handed over without
copying. The child may write, exit, or never exit (another process may hold the
pty open after the child is gone); quit comes at any time. The gather thread may
fail to start, or the pty refuse to be non-blocking: the thread then returns
(`SpawnFails`) and nobody reads the pty.

**SurfaceThreads.** A mailbox is its length; what a message says is chosen when
it is handled (`WriterWork`), since no property depends on which message it
was. A blocked push follows what `BlockingQueue` shows: one signal, one look,
then the value is in or dropped. `push[t]` remembers where to go on and whether
to take the mutex again (`Mailbox.send`, `surfaceMessageWriter`). A wakeup is a
flag that is cleared before the drain, as the event loop does. `WriterDrained`
redraws only if a message was handled (pc `"redraw"`). `back` is the main
thread's return place, because messages handled in `App.drainMailbox` and input
events send alike. The main thread takes and releases the mutex in one step,
except around a send made with the mutex held; while no holder sleeps
(`NoBlockedHolder`, checked with everything switched on), a critical section
with no push in it can be one step.

`threadEnter` fails in two ways. Without a read thread (`WriterStartFails`), nothing
is registered with the loop that is to drain, and the io thread ends. After it
(`WriterInputFails`: an `input` that cannot be read or queued), the read thread is
joined first (`WriterAbandons`) and the watcher of the child and the termios timer
are in that loop, with memory of a function that has returned: the io thread is
`"stranded"`, may tell the app something, may end (`WriterRunsDry`), and does not
drain or stop. `Gone` are the threads that will not come back to their mailboxes.
`Aborts` names the threads whose handlers may fail: the drain ends there; the
renderer goes on to its render, and a resize that fails (`WriterResizeFails`) does
not tell the renderer. The message that makes a surface visible renders in the
middle of the drain (`"show"`, then back to `"drain"`). In a synchronized update a
render takes nothing from the terminal but counts as its look at it: the end of the
update is a change of its own.

**FramePresent.** `rpc` and `gpc` are the places of the renderer thread and the
GUI thread; every critical section of `m_pendingMutex` or `m_compositorMutex`,
every atomic and every wait is a step. Buffers are numbered as they are exported
and `pix` is the version of the terminal drawn into each, so that stale pictures
show. The compositor holds what was committed until it has something newer, and
sends releases and frame callbacks in either order (`ReleaseFirst`). Hide and
Show, the loss of the platform window, a move to another top-level, a resize with
its inline draw, and the destructor are sequences of steps on the GUI thread, with
the renderer between any two. The two 100 ms waits may run out at any time with
`Timeouts`; without it nothing may depend on them. Three things may fail: the `dup`
of a descriptor (`DupFails`), its import into a `wl_buffer` (`ImportFails`), and the
creation of the presenter (`CreateFails`). `UpdateFrame(FALSE)` is a render that finds
nothing new, or finds a synchronized update and returns.

**Windows.** One record `gui` holds everything; a function of the source is an
operator from such records to records (or to sets of them, where a dialog may or
may not ask), so a handler reads like the calls it makes. `queue` is Qt's queue
of posted events: first come, first served, but a deletion waits for the event
loop it was posted in (`IsDue`), and is posted again at the end when Qt comes past it
(`Requeued`). `stack` is the nested loops; each frame keeps
what its caller remembered - a tab index, a window - for use when the loop ends
(`Accept`, `EndDrag`, `Drop`). Native input comes only at depth zero, since
dialogs are modal; shells exit, other processes ask for windows, and posted
events run at any depth. `phase = "undefined"` ends a behaviour where the program
has none: a window is deleted with its own dialog on the stack, or a surface is
freed after the app. A tab is the set of its panes; the split tree, zoom and
titles are left out. A loop of the code over a list is a recursive function of the
prefix it has been through (`CloseTabs`, `CloseAll`, `Teardown`; `Kept` for what
stays of a list). A behaviour starts from windows opened before, given as the tabs of
each and the panes of each tab; `WindowsAssumption` asks that panes are numbered as
they were made and each is in one tab. The current tab may be any tab. Whether a close asks first
depends on `confirm-close-surface` and on libghostty and is left open.

With `Hides`, windows are hidden and shown: all of them (`ToggleVisibility`), the
quick terminal by its own toggle or when it loses the focus (`Toggled`), and one that
`initial-window = false` never showed (`Init`). `Seen` are the windows neither closed
nor hidden. Native input goes to these, and Qt's quit on the last window is decided
by them: closing a hidden window posts no quit. A window already closed waits for its
deletion and a toggle does not bring it back. `initialize` fails when libghostty makes
no app; its window is deleted before it was registered, and its destructor may find
itself the last (`UninitializedWindow`). `undoLast` reopens a tab in the active window
or, if the active one is the quick terminal or none is, in the last that is not the
quick terminal, though it may be closed.

Left out of SurfaceThreads: the reader thread's internals (that is
`ReadThread`), the draw mutex, the renderer's early exit when the surface is
invisible, terminal edits by the main thread, the
inspector's pushes to the renderer (`Surface.zig:923`, `:940`), timers other
than the resize coalescing. `Termio`'s `rendererMessageWriter` is never called
and has no action.

## 3. What is checked

Constants, bounds and states are those of the `.cfg` files. All passing runs
exhaust their state space.

| run | question | instance |
|---|---|---|
| `bq_safety` | Is the ring right, is the waiter count right, and is the queue a FIFO? `TypeOK`, `RingInv`, `WaitersCounted`, `FifoSpec` | 2 producers, 2 values, capacity 2, all three timeouts, pop and drain; 192 272 states |
| `bq_live` | Can a waiting producer be forgotten? `NoStrandedProducer`, `PushReturns` | 3 producers, forever pushes, capacity 2; 20 064 states |
| `rt_all` | Ownership, order, loss and lost wakeups of the pipeline; is every byte read parsed without help of the poll timeout, and does quit end both threads? `TypeOK`, `BufferExclusive`, `RingInv`, `InOrder`, `EndsDrained`, `NoLostWakeup`, `IdleWakePending`, `TakenIsParsed`, `QuitEnds` | 2 buffers of 4 bytes, 6 bytes, pipe of 1, a gather thread that may not start; 190 497 states |
| `st_steady` | Can the threads of an open surface deadlock, mail lie unread, a push never return? `NoWaitCycle`, `NoStrandedSender`, `MailWillBeRead`, `SendsReturn`, `Settles` | mailboxes of 1 (renderer 2), 1 batch, 2 messages, 1 send; no close, failure or push that goes against the order; 198 674 states |
| `st_failures` | Does anybody ever sleep in a push with the mutex, and which waits can close a circle? `TypeOK`, `NoBlockedHolder`, `WaitsOrdered` | mailboxes of 1, failing starts, handlers and resizes, configuration changes, close, all senders; 2 298 508 states |
| `st_ample` | With room in every mailbox: is every change drawn, does close complete? `ChangesWillBeShown`, `CloseCompletes` | mailboxes of 8, never full; 243 228 states |
| `fp_live` | Does a frame always get on, without help of a timeout? `ParkedIsDrained`, `TokenComes`, `BufferComes`, `NewestShown`, `ChangesShown`, `ExitEnds` | swap chain of 3, 6 dma-bufs, 2 changes, 1 hide, exit; 51 694 states |
| `fp_events` | Is anything shown while hidden, or nothing where the window is transparent? `TypeOK`, `NoGhost`, `NoHole` | swap chain of 1, 2 sizes, one resize, move and loss of the platform window, timeouts, failing dups, a presenter that cannot be made, drawing before the first Show; 2 308 606 states |
| `fp_failures` | Does a frame that fails give its place in flight back? `BufferComes` | as `fp_live`, with dups and imports that fail and releases in any order; 140 793 states |
| `wn_safety` | Do panes, windows, the app and the quit timer stay consistent under nested loops? `TypeOK`, `Owned`, `AppOutlivesWindows`, `QuitTimerSettles`, `HeadlessEnds` | 3 windows, 4 panes, 3 inputs or shell exits, 2 nested loops, undo of 1, windows hidden and shown, a quit delay or none to run, three layouts to start from; 1 269 928 states |

**Why the bounds are enough.** Capacity 2 is the smallest at which a ring has a
slot that is neither first nor last and a wrap that is not the identity; three
producers are the fewest with one barging, one woken and one asleep. Two buffers
with a threshold of two show a full buffer, a saturated and a
small batch, a batch that bridges, reads on and has spent its budget, and a
ring that is full. The program's mailboxes hold 64 and are
cut to 1 or 2 so that a handful of sends fills them: which messages fill a
mailbox does not matter to its waiters. The renderer's mailbox keeps two places
in runs about wakeups, because the reset of the cursor blink, which is published
without a notification at most twice a second, would fill a mailbox of one by
itself. A mailbox of 8 in `st_ample` is larger than all messages of that run:
the run is about the order of changes and renders and about the joins, and
section "Disagreements" says what a full mailbox does to them.

The swap chain of `fp_live` is that of the program, and six dma-bufs are one chain
given up by a hide and its successor; two changes are enough for an older picture
to overtake a newer one. `fp_events` cuts the chain to one: what is shown does not
depend on which slot it is in, and every event of the GUI thread happens once,
between any two steps of the renderer. `wn_safety` starts from a window that has
no tab yet, from one with a split and a second tab, and from two windows, so that
three inputs reach what otherwise takes six; three windows allow the quick
terminal or a torn-off tab beside two others, two nested loops a dialog over
another one, and an undo stack of one entry overflows. Windows are hidden at the
start, by the toggle of all of them or by that of the quick terminal; without hiding
(`Hides` off) the run passes with all three modes of `quit-after-last-window-closed`
(1 363 313 states), and "Disagreements" says what hiding does to the third, in which
the end is left to Qt. `fp_failures`
needs no hide of its own beyond that of `fp_live`: a failed frame returns before
anything could be hidden. Handlers fail in `st_failures` in any thread; there a
mailbox of one is enough, because the waits do not depend on how long a queue is.

**Deadlock** checking is on for the queue. It is off for the read thread and the
surface, which end, and for frames and windows, whose process ends;
`NoWaitCycle`, `WaitsOrdered`, `QuitEnds`, `CloseCompletes`, `Settles`, `TokenComes`,
`BufferComes` and `ExitEnds` say instead what may not be waited for in vain.

**Fairness.** `BlockingQueue`: every producer that can take a step inside push
takes it, the consumer keeps popping (its loop runs while it has mail), the
futex wakes sleepers in the order they came (Linux does), so no sleeper is
passed over for ever, and a woken sleeper competes for signals often enough
to get one (strong fairness). Nothing is assumed about the callers.
`ReadThread`: the two threads are scheduled; nothing is assumed of the child,
the quit, or the poll's timeout. `SurfaceThreads`: each of the four threads
makes progress when it can; nothing is assumed of users, output, timers that
push, or failures. `FramePresent`: the renderer's loop and the GUI's event loop
run; the compositor answers a commit with a frame callback and releases replaced
buffers, as the protocol obliges it for a visible surface. `Windows` states none:
`HeadlessEnds` says that the event or the timer that ends the process is there.

### Disagreements between code and comments

These have a run that TLC must find violated.

- `bq_forever_dropped`: a forever push sleeps once. Between the signal and
  taking the mutex again another producer may take the slot; the push then
  returns 0 and its message is dropped, although the timeout is documented as
  "Run forever or until interrupted".
- `wn_wrong_tab`: `onTabCloseRequested` and `closeTabsByMode` keep tab indices
  while their dialog runs. A tab that closes meanwhile - its shell exits, or a
  close was already posted - shifts the rest, and the accepted dialog closes a
  tab it never asked about, with whatever runs in it.

These are found the same way, by checking the property named on the instance
described; no run is kept for them.

- `NoWaitCycle` (`st_steady` with `Closes` on and two sends): while a surface
  closes, the parse stage may wait for room in the app mailbox, whose consumer is in
  `Surface.deinit`, or in the termio mailbox, whose consumer joins it
  (`Exec.zig:229`). The quit pipe, by which the join is not to "get stuck waiting for
  data to stop flowing" (`Exec.zig:203-205`), does not interrupt that wait.
- `StaysUntilStopped` (SurfaceThreads, `st_failures`): if `threadEnter` fails, the
  loop run that is meant to drain until the stop message
  (`termio/Thread.zig:224`) has no completion registered and returns at once;
  later forever sends to that mailbox wait for a thread that is gone. If it fails
  after the read thread has started, the loop runs, but neither wakeup nor stop is
  registered with it.
- `ChangesWillBeShown` (`st_ample` with `Cap <- CapTiny`): the render of a batch
  is queued first "because we have the lock" (`Termio.zig:685`), but a full mailbox
  makes the handler give the lock up; the renderer then reads half a batch and
  nothing asks for the rest until the next output or timer.
- FramePresent, each with a swap chain of 3, `Timeouts` off, `Init_Next`, and
  `MaxBuffers` 6, `MaxCells` 3, `MaxInFlight` 5 unless said otherwise:
  - `NoRedrawWhileHeld` (`ReleaseFirst` off, 3 buffers, 5 changes): the first
    present gives its place in `m_buffersInFlight` back at once
    (`SubsurfacePresenter.cpp:555`), so the compositor may hold one buffer more
    than the gate believes, against "a buffer is never reused while held"
    (`GhosttySurface.h:407`).
  - `ParkedIsDrained` (one move): a drain that takes a picture first returns and
    leaves the dma-buf parked (`GhosttySurface.cpp:2498`), against "no parked
    frame is forgotten" (`:2463`).
  - `GuiNotBehindWait` (2 sizes, 1 resize): the renderer keeps `draw_mutex` in both
    waits, so the inline draw of a resize waits for it although it is to commit
    "without ever blocking" (`GhosttySurface.cpp:2232`).
  - `BufferComes` (2 sizes, 1 resize, `Timeouts` on): a parked frame that is
    overwritten or dropped for its size keeps its place in the count, against
    `SubsurfacePresenter.h:140-142`.
  - `CacheBounded` (1 hide, 4 changes): the buffers of the swap chain given up by
    the hide stay in the cache, against "bounded at `swap_chain_count` entries"
    (`SubsurfacePresenter.h:252`).
  - `NewestShown` (2 sizes, 1 resize): each thread presents its own last target
    again, so an older picture may replace a newer one, against
    `generic.zig:1741-1743`.
  - `ShownFits` (2 sizes, 1 resize, 1 hide): a size stored while hidden is taken
    for drawn by the next Show, against `GhosttySurface.cpp:396`.
  - `NothingParkedAtExit`: the destructor closes the parked descriptor before it
    stops the thread that parks (`GhosttySurface.cpp:265-276`).
  - `NoHole` (`Advertised` off): a frame of a format the compositor does not take
    still sets `m_subsurfaceHasFrame`, against `GhosttySurface.h:421`; so does a
    frame whose import fails (`ImportFails` on).
  - `TokenComes` (`fp_failures`): a frame whose import fails takes the ready token
    with it, since no commit arms a frame callback; only the 100 ms timeout goes on.
- `HeadlessEnds` (`wn_safety` with `Modes = {"now"}`): without a delay, quitting after
  the last window is left to Qt (`setQuitOnLastWindowClosed`, `MainWindow.cpp:218`),
  which acts when a visible window is closed. A window that is hidden by a shortcut
  and whose shell then exits goes without a quit, and the process stays without
  windows, although Qt "covers the common (no-delay) case" (`MainWindow.cpp:211`).
- `AppOutlivesSurfaces` (Windows, `MaxWindows` 2, `MaxInputs` 2): a pane whose
  posted close runs after its window was closed is deleted after the window, and
  `~MainWindow` frees the app before it, against "Destroy this window's surfaces
  (freeing their ghostty_surface_t) before any app teardown" (`MainWindow.cpp:166`).

### Further observations, without a run of their own

Properties and constants to reproduce them with are in the modules.

- `NoStuckSignal` (BlockingQueue, `Timeouts = {"forever", "ns"}`) fails: a waiter
  whose deadline passes looks for a signal, then unregisters; a signal between
  the two belongs to nobody. It later wakes a forever push in vain. The program
  makes no timed push today.
- `gui.phase # "undefined"` (Windows) fails: the last shell of a window exits while
  a dialog of that window runs; the window is deleted in the nested loop, and the
  dialog, which is on the stack, with it (`MainWindow.cpp:880`).
- Windows, seen while modelling: `close()` does nothing inside `closeEvent`, so a
  window whose last tab goes during its own "Close Window?" dialog stays open and
  empty if the answer is Cancel, with `m_skipCloseConfirm` set; closing the last
  tab pushes no undo entry, because the tab is removed before `closeEvent` takes
  its titles, although `MainWindow.cpp:548` says it does.
- `HangupDrains` (ReadThread, `rt_all`'s constants) fails: the outer poll
  ends the stage on a hangup even when it reports data as well.
  `WakeOnlyWhileBridging` fails: the parse stage decides to write to the idle
  pipe under the mutex and writes after it, when bridging may be over. The
  stale byte shortens one later bridge, which is why `IdleWakePending`, and not
  this, is the property that matters.
- `NoWaitCycle` fails with `"config"` in `WriterWork`: `Termio.changeConfig`
  sends to the io thread's own mailbox from the io thread (`Termio.zig:458`);
  and with `AppForever = {"writer"}`, two batches and two sends: the io thread
  waits for the main thread (`Exec.zig:383`) while the main thread waits for
  the io thread (`mailbox.zig:77`); and with `AppForever = {"renderer"}`, two
  batches and four sends: the same of the renderer (`generic.zig:2015`).
  `WaitsOrdered` names these waits and the joins, and says there are no others.
- `MailWillBeRead` fails with `Aborts = {"writer"}`, two sends and mailboxes of
  more than one (`CapAmple`): a handler that returns an error ends the drain
  after the wakeup was consumed (`Thread.zig:315`), with the next message still
  in the mailbox.
- `RendMailWillBeRead` fails: the reset of the cursor blink is published after
  the notification that could deliver it (`Termio.zig:686`, `:701`); it is read
  with the next render.

## 4. What is proved

### The queue

`BlockingQueueProofs` and `BlockingQueueRefinement`, for every finite set of
producers, every set of values, every capacity of at least one, with or without
drains:

| theorem | states |
|---|---|
| `TypeCorrect` | `Spec => []TypeOK`: indices in the ring, count in bounds, no underflow of either waiter count |
| `RingAccounted` | `Spec => []RingInv` |
| `WaitersAreCounted` | `Spec => []WaitersCounted` |
| `NoLostProducer` | if no push is timed, `Spec => []NoStrandedProducer` |
| `Refinement` | `Spec => FifoSpec`: the queue implements `BoundedFifo` |

Assumptions: the capacity is a positive number, the producers are finitely
many, the timeouts are the three of the code, and `None` is not a call.

*The inductive invariant.* `TypeOK` is not inductive: `not_full_waiters - 1`
stays a natural number only because the count is what it counts, the condition
variable's `waiters` likewise, and a stored value is a value only because the
push still has its arguments. `Inv` adds `RingInv`, `WaitersCounted`,
`WaitersAsleep` (waiters = pushes asleep or about to unregister) and
`CallPresent`. Four lemmas about `At(f, S)`, the producers at one of a set of
places, say how its cardinality moves when one producer moves; after them each
action takes a few lines.

*No lost wakeup.* `WakeupInv` adds that only sleepers are notified, that there
are at most as many signals as notified sleepers, that nobody is at a deadline,
and `WakeupDue`: while a push sleeps there is something to pop, an open drain, a
woken push or a signal. The step that matters is `SignalNotFullWakes`: a pop
that empties the queue finds `not_full_waiters` positive (by `WaitersCounted`),
so it signals, and if it finds all sleepers notified already then they are as
many as the waiters and more than the signals. Timed pushes break the second
part, which is `NoStuckSignal` above; hence the hypothesis `Untimed`.

*Refinement.* `Unread` reads the ring from its oldest value. `StoreAppends` and
`RemoveTakesHead` show that storing appends and removing takes the head; the
first needs that `Slot(len)` differs from every occupied slot, which is where
`RingInv` and the capacity enter. `RInv` adds that an idle producer has no call
and that only timed pushes expire.

### The read thread

`ReadThreadProofs`, for any number and capacity of buffers, any threshold, spin
limit and idle pipe, any kernel queue and any number of bytes:

| theorem | states |
|---|---|
| `TypeCorrect` | `Spec => []TypeOK`: a batch fits its buffer, the count stays in the ring |
| `RingKept` | `Spec => []RingInv` |
| `BuffersAreExclusive` | `Spec => []BufferExclusive`: neither stage touches the other's buffer |
| `BytesInOrder` | `Spec => InOrder`: no byte lost, repeated or out of order |
| `EndedIsDrained` | `Spec => []EndsDrained`: nothing read is left behind |
| `WakeupsKept` | `Spec => []NoLostWakeup`: neither stage sleeps on what has happened |
| `BridgeIsWoken` | `Spec => []IdleWakePending`: a bridge with nothing in flight is woken |

Assumptions: `BufferAssumption` (buffers, capacity, pipe and kernel queue are at
least one). No fairness, and no bound but `MaxBytes`, which is any number.

*The inductive invariant* says where every byte between the pty and the terminal
is. `Place(k)` is the buffer `k` places after `tail`; `RingInv` puts `head` at
`Place(count)`, so while a buffer is free, which it is while the gather stage
fills one, `head` is no place in flight (`Places`) and filling it disturbs no
published batch (`ReadKeeps`). `Bytes` describes the contents: a published batch
is a run of consecutive bytes (`Published`), each run starts where the one before
it ends (`Adjacent`), the first starts at the next byte of the terminal
(`Oldest`), and the last ends where the buffer in hand begins (`Newest`,
`Gathered`; `NoneInFlight` if there is none). Publishing extends the chain at one
end (`PublishKeeps`), releasing cuts it at the other (`ReleaseKeeps`).
`InOrder` alone is not inductive: what the next byte is depends on the contents
written long before. `EndInv` adds the shutdown: `done` is the last thing the
gather stage says, and the parse stage ends only after it and on an empty ring.
`NothingMoves` covers all steps that move neither a byte nor a buffer.

*Wakeups* (`WakeInv`). A stage looks at its condition and goes to sleep under one
mutex, so the condition can come true only in a critical section of the other
stage, whose next step is the signal. The bridge has no condition variable; it
arms `bridging` under the mutex before it polls, and the parse stage that empties
the ring while `bridging` is set is bound to write to the idle pipe. A stale byte
in that pipe does no harm to this, it only ends a bridge early.

### The surface's threads

`SurfaceThreadsProofs` and `SurfaceThreadsMail`, for mailboxes of any capacities
and any number of batches, messages and sends:

| theorem | hypotheses | states |
|---|---|---|
| `Types` | | `Spec => []TypeOK` |
| `HoldersAwake` | | `Spec => []NoBlockedHolder`: nobody sleeps in a push with the mutex |
| `Ordered` | | `Spec => []WaitsOrdered`: only five waits can close a circle, or wait for a thread that is gone |
| `NoCycle` | `Steady` | `Spec => []NoWaitCycle`: without those five there is no circle |
| `MailIsRead` | `"writer"` not in `Aborts` | `Spec => []MailWillBeRead` |
| `NoSenderStranded` | `Aborts = {}`, `Cap["rend"] > 1` | `Spec => []NoStrandedSender` |
| `ChangesAreShown` | `"writer"` not in `Aborts` | `Spec /\ [](pc["reader"] # "push") => []ChangesWillBeShown` |
| `ChangesAreShownWithRoom` | `"writer"` not in `Aborts`, no `"config"`, `Ample` | `Spec => []ChangesWillBeShown` |

The first three need nothing: they hold through failed starts, failed handlers and
close. The hypotheses of the others name what the code does break each property
with; each is a disagreement or an observation of section 3.
`Steady` excludes four things: the close, forever pushes of the
io thread and the renderer to the app (`child_exited`, `password_input`,
`renderer_health`), a failed start, and the io thread's push to its own mailbox
(the color scheme report of `changeConfig`). An open surface does the second and
the fourth, so `NoCycle` alone says little of it: `Ordered` is the theorem about the
code as it is, and `NoCycle` the case in which none of its exceptions is in play. A drain that an error ends leaves mail behind (`MailIsRead`,
`NoSenderStranded`). A renderer mailbox of one place can be filled by the reset of
the cursor blink alone, which nobody announces; the program's holds 64. A stream
handler that waits for room lets the mutex go half way through a batch
(`ChangesAreShown`); `Ample` says that the mailboxes of the app and the io thread
hold all messages of the behaviour, so that it never waits.

*The inductive invariant* `Inv` says per thread where it can be and what it can be
pushing there (`MainPlace`, `ReaderPlace`, ...), that the mutex is held only by a
reader that parses and by a main thread about to notify the writer, and that only
blocked pushes are signalled. Its proof goes by thread: a lemma for what the steps
of each leave alone (`ReaderSteps`, ...), one for its own part, and two for the
steps that end a wait. `NoBlockedHolder` follows by looking at the places.

*Circles.* `AgainstOrder` names the five waits: a forever push of the io thread or of
the renderer to the app; the io thread's push to itself; its join of the read thread;
the main thread's wait for an io thread that is gone after a failed start; and the io
thread's wait for a renderer the close has joined. `Ordered` follows from `Inv` and
`Closing`, by which a renderer that is gone was told to stop and the main thread does
nothing but close from there on. `WaitOrder` says for each thread whom it can wait for
besides: the renderer for a holder of the mutex; the io thread for it and the
renderer; the main thread for these and the io thread; the reader for the io thread,
the main thread and the holder, which is awake. So the lowest thread of any set in
that order can go on, or its wait is one of the five. With `Steady`, none of them
occurs: `LockOrder` is the same order without exceptions, and `SteadyInv` says that no
thread but the reader, whom nobody waits for then, is ever gone.

*Notifications.* `MailInv` extends `MailWillBeRead` from the idle loop to every
place of the consumer, and says the same of the app's mail, which is read again
after every event, and of the renderer's, with one unannounced message allowed
while a batch is being parsed. `ChangeInv` rests on the mutex: a batch queues its
render while it holds it, and the renderer cannot be over with that render before
the batch ends; a change by the io thread is owed a redraw (`Owing`) until its
drain asks for one. `Budget` bounds what was sent and can still be sent by `Total`.

### Frames

`FramePresentProofs`, for any swap chain, sizes, numbers of buffers and of events,
with and without timeouts and failing dups:

| theorem | states |
|---|---|
| `NoGhostEver` | `Init_Next => []NoGhost`: a hidden surface shows nothing |
| `NoHoleEver` | if the compositor takes the format and no import fails (`Accepted`), `Init_Next => []NoHole` |
| `WellTyped` | if `"1x1"` is not the name of a size, `Spec => []TypeOK` |

`NoGhost` is not inductive: a drain or a Show that is half done may still commit.
`GhostInv` says at which places of the GUI thread a frame may be on the screen;
all commits happen on that thread, so the renderer's and the compositor's steps
leave it alone (`RendererAside`, `CompositorAside`), and each of the GUI's
sequences hides after it could last have shown. `HoleInv` ties `hasFrame` to a
committed buffer at each place; it needs `GhostInv` for Hide, and `Accepted` in
`DrainShows`: a drain that sets the flag has committed.

`FramePresentFlow`, for any swap chain, numbers of buffers, changes and hides, with
the destructor at any time:

| theorem | hypotheses | states |
|---|---|---|
| `ParkedFramesDrained` | | `Init_Next => [](Still => ParkedIsDrained)` |
| `TokensCome` | `Accepted` | `Init_Next => [](Fixed => TokenComes)` |
| `BuffersCome` | `Accepted`, no `Timeouts` | `Init_Next => [](Fixed => BufferComes)` |
| `NewestIsShown` | `Accepted`, no `DupFails` | `Init_Next => [](Fixed => NewestShown)` |

All of them take a surface that has been shown before it draws (`~LateShow`) and
the placeholder size `"1x1"` to be no size of the widget. `Still` says that so far
the widget has kept its top-level and its platform window, `Fixed` that it has kept
its size as well: a move leaves a frame parked, a resize loses a place of
`m_buffersInFlight` and lets two threads present different targets, as section 3
lists under "Disagreements". So these theorems speak of the surface that is drawn to,
hidden, shown and closed, and the runs with a move or a resize show what happens to
the others. A wait that times out adds a buffer to those in flight without a place
for it (`BuffersCome`); a frame whose descriptor cannot be duplicated is never shown
(`NewestIsShown`); one that cannot be imported is neither shown nor followed by a
frame callback (`Accepted`: the format is taken and no import fails). `fp_failures`
checks `BufferComes` with imports that fail, where the theorem does not speak.

*The argument* follows the frame. `FlowInv`: the slot `m_drainScheduled` is taken
only while an invocation is queued, so whoever parks a frame finds a drain that will
still look, or posts one. `TokenInv`: the one token of the first wait is always
somewhere - set, with the frame callback, with the parked frame, with the renderer
that is about to park, or with the Hide event - and a hidden surface has it.
`CacheInv`: the presenter remembers what the compositor shows. `GateInv`: no more
buffers are in flight than the chain has, and when there are as many, one is parked
or will be released; this needs all of the former, and that Hide resets the count.
`OrderInv`: the visibility messages in the renderer's mailbox alternate and the last
one agrees with the widget, so that the swap chain a hidden renderer gave up is
drawn anew. `FreshInv` and `SettledInv`: a target is presented only when it has the
newest cells, or when they were rebuilt since and another drawing is due; so what is
parked last, or else was presented last, is the newest.

### Windows

`WindowsProofs`, for any number of windows, panes, inputs, nested loops and undo
entries, any modes and any windows open at the start:

| theorem | states |
|---|---|
| `WindowsTypeOK` | `Spec => []TypeOK` |
| `WindowsOwned` | `Spec => []Owned`: what a window lists, what is in its tabs and who owns it agree |
| `WindowsAppOutlives` | `Spec => []AppOutlivesWindows`: the app is freed after the last window |
| `WindowsQuitTimerSettles` | `Spec => []QuitTimerSettles`: with a pane listed, the timer is or will be off |
| `WindowsHeadlessEnds` | if windows are never hidden or none of the modes is `"now"`, `Spec => []HeadlessEnds`: without windows, the end is on its way |
| `WindowsInvariant` | `Spec => []Inv(gui)`, which the five follow from |

The only assumption besides is `WindowsAssumption`; no fairness is used. The others
hold with hidden windows as without; `HeadlessEnds` among the disagreements is why
`WindowsHeadlessEnds` has its hypothesis. `phase =
"undefined"` ends a behaviour of the model, so the theorems say nothing of a program
that deletes a window under its own dialog.

*The inductive invariant* `Inv` is a conjunction of parts about one state `g`.
`Owning` is `Owned` for all windows, with tabs that are disjoint; `Living` says that
windows are listed once, that a window that is not listed has no tabs, and that a
listed one has an app. `Posted` gives each event its due (`Fine`): its window is
there, its panes are of no window if it deletes them. `Deleted`: a closed window has
its deletion posted. `Framed`: a window in `closeEvent` is open, and has one dialog.
`Accounted`: a surface of the core is listed by a window or on a page about to be
deleted. `Timed`, `Armed` and `Quitting` say what the last request to the quit timer
is while there are panes, once there is no surface, and that with the mode `"now"`
and no window ever hidden the end was posted with the last close.

`Opened` is the part without which `AppOutlivesWindows` does not hold: `Teardown`
handles what was posted to `qApp` before it frees the app, so an event that opens a
window ("new window", the quick terminal, undo) must not be among them. It never is,
because each is posted while a window is open, and when that window closes its
deletion is posted behind the event. The queue is first come, first served, except
that a deletion that has to wait for its loop is posted again, behind all others: the
queue is turned (`Requeued`). The events that are turned past are deletions, so no
other event changes its place among the others and no deletion comes nearer
(`TurnedFine`). `DeletedAfter` is about places in the queue for this reason. `HeadlessEnds` rests on `Accounted`: a
core that still has surfaces after the last window has their deletion in the queue.

*The proof* goes by kinds of change. Handlers are compositions of functions on the
record, so each function is shown to make one of a few changes - a window closes
(`Closing`), pages leave (`Removing`), a pane comes (`Adding`), a page moves
(`Moving`), a window is made (`Making`) or goes (`Leaving`), an event is taken
(`Taking`), surfaces are freed (`Freeing`), the timer is set (`Timing`) - and each
of these is shown once to keep the invariant. `Fit(r, g)` says that `r` has the
invariant if `g` has it and composes. `Armed` is kept apart (`Inv0` is the rest): it
fails in the middle of `~MainWindow`, where the window is gone and the timer not yet
started, and is shown again at its end. A recursive function over a prefix exists
and satisfies its equation by a lemma about its `CHOOSE`; that it stays in a set its
step stays in is `Induct`, by the least number that is an exception
(`NatLessThanWellFounded`). The same argument gives the order of what `Kept` keeps
and the first and last places that `SelectInSeq` and `SelectLastInSeq` find
(`LeastOf`, `GreatestOf`).

### Model-checked only

Every invariant of every passing run is a theorem, with the hypotheses stated above.
Liveness is not (`PushReturns`, `TakenIsParsed`, `QuitEnds`, `SendsReturn`,
`Settles`, `CloseCompletes`, `ChangesShown`, `ExitEnds`; `NoStrandedProducer` is a
safety property and proved): it is beyond the prover, and so are the properties the
runs find violated, which do not hold.

## 5. Plan

In this order; each module composes with those before it where they share state.

1. *done*: `BlockingQueue`, `BoundedFifo`, `ReadThread`, `SurfaceThreads`,
   `FramePresent`, `Windows`, and a theorem for every invariant their runs check.
2. `Handoff` (`renderer/State.zig`): demand and generation counters against the
   futex timeout; refines a lock with bounded waiting. Runs: two demanders and
   one hot loop; property: a demander is passed over at most once per timeout.
3. `RendererTimers` (`renderer/Thread.zig`) and `TermioTimers`
   (`termio/Thread.zig`): cancel against expiry, focus and visibility flags,
   synchronized output. Property: after the last event the timers match the
   flags.
4. `SurfaceLifecycle` (`App.zig`, `Surface.zig`, `apprt/embedded.zig`): creation,
   messages by address, close, quit in the middle of a drain. Property: mail is
   delivered to the surface it was sent for.
5. `SearchThread`, composed with the lifecycle: its joins and its pushes.
6. `SharedGridSet`, `RefCountedSet`, `CircBuf`: each against an abstract
   specification, with theorems (reference counts, ring as a sequence).
7. Metal's asynchronous frame completion; split zoom in `Windows`.
8. `Parser` over byte classes, `TmuxViewer`'s command queue, `DiskCache` with
   several processes and crashes.
9. Theorems next in line: the refinement of the new containers, each with its module.

## 6. Not modelled

Drawing, font shaping, the terminal grid as a whole, option parsing, widgets,
and front ends other than Qt: large data or I/O with little control to check.
The Windows read thread: other primitives, same structure. Build, packaging and
vendored code. The components marked `not_modelled` in `PROJECT.json` with
"Planned" are in the plan above, and so are three known difficulties that no
property covers: focus against the cursor timer's cancel (`renderer/Thread.zig:368`),
a canceled synchronized output timer that acts as an expired one
(`termio/Thread.zig:416`), and the join of the search thread in close
(`Surface.zig:216`).

Of the C and C++ of the repository most is vendored or generated (fontconfig,
libintl, stb, the headers of the C API); what the modules map is the Zig core and
the Qt files named above.
