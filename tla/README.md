# ewlibs and eedit: specifications, model checking and proofs

This directory holds a verification development for the repository next to it
(`src/`): TLA+ modules translated from the code, TLC configurations that check
small instances of them, and TLAPS proofs of what matters for every instance.
`PROJECT.json` lists the runs, the mutant that shows each property can fail, the
lines each definition stands for, the hazards of the code and the theorems.

The repository is two programs' worth of code: **ewlibs**, a C++ library (objects,
containers, the threads of a GUI, fonts, OpenGL, files, sockets), and **eedit**, a
text editor built on it (`src/app/eedit`). A network test program contains a tftp
client, the one protocol over the library's sockets.

## 1. The system's parts

| part | state | operations | talks to | hard because |
|---|---|---|---|---|
| event queue (`core/message_queue.hpp`) | a deque, a mutex, a condition variable | `push`, `size`, `wait`, `get` | every thread of eedit | tests without the lock, a size torn by a push, a wait without a predicate, a batch size that is out of date |
| core thread (`core/core.cpp`, `core/event/process_event.cpp`, `core/rpc/rpc.cpp`) | `core_running`, the input queue, views and buffers | main loop, `push_event`, answers, quit | user interfaces, through two queues | the order of answer, flag and drain when it stops |
| application (`application/application.cpp`) | the threads, the chosen interface, the key map | `setup`, `run` | starts and joins the core | a join against a loop that needs the core's answer |
| user interfaces (`ui/ew`, `ui/ncurses`, `ui/debug`) | their queue, the selected buffer, the screen | main loop, handshake, keys, resize, close | core | they may send before they know a buffer or without a width, and delete their queue |
| modification log (`api/src/buffer_log.cpp`) | a list of commits that is also a tree, the current and the last one | `insert_commit` (with reverts), `undo`, `redo` | text buffer | an edit in the middle of the history, which logs inverted commits first |
| text buffer (`deprecated/text_buffer.hpp`) and rope (`include/ew/core/container/flexible_array.hpp`) | a tree of pages, a list of its leaves, a cached leaf, iterators | insert, remove, find, iterate | log, index, text mode | caches and iterators that outlive nodes |
| line index (`deprecated/text_buffer_indexer.cpp`) | a count of line ends per node | node callbacks, two searches | rope | callbacks that see the leaves one by one and out of order |
| handle tables (`api/src/handle_table.h`) with byte buffers, editor buffers, views | tables of pointers, the last index given | construct, destroy, get | core, rpc, modules | reuse of identifiers, the table's limit, two tables whose numbers one command mixes up |
| input map (`core/input/event/input_event_map.hpp`) | a tree of key sequences; the place in it is kept in the view | parse, lookup, walk | process_event | state between two events |
| screens, layout, filters (`api/src/screen.cpp`, `core/text_layout.cpp`, `core/filters`), text mode and marks (`modules/mode`) | a screen per view, the view's start, the mark, refresh flags | layout, motion, edits, pages | core, text buffer | borders of a screen; offsets kept across edits |
| codecs (`api/src/codec.cpp`, `utf8.cpp`) | a table; none | decode | filters, keyboards | malformed input at a boundary |
| GUI event dispatcher (`platform/unix/graphics/gui/event/event.cpp`) with X11 display and windows | a list of events, a counter per type, the window list, properties | push, remove by window, dispatch, resize filter | poller, program, X server | counters and list that part ways; a wait without a predicate; addresses used again; events of windows that are gone |
| object tree (`common/core/object/object.cpp`) | parent, slots of children, a count, a mutex per object | set_parent, destructor, questions | widgets | two locks in the order of the tree; a count kept apart from the slots |
| widgets (`common/graphics/gui/widget/widget.cpp`) and the editor's (`ui/ew/*.cpp`) | places and sizes, focus, selection, thumb, waiting screen | layout, hit test, dispatch of events | dispatcher, core | pointer and focus events in any order; unsigned lengths that wrap |
| tftp client (`test/ew/network/connection/tftp.cpp`) over `udp_connection` | block numbers, the file, a timeout counter | `get`, `put` | a server | packets lost, late, repeated, too short; one socket for all transfers |
| files, other network classes, system calls, console, time | descriptors | open, read, write, connect | all | partial results |
| fonts, rendering, mathematics, win32, demonstrations | | | | not a subject here |

`PROJECT.json` ("components") has the same list with the files of each part and
whether it is modelled; section 6 says what is left out and why.

**How the parts interact.** eedit runs two threads. The user interface's thread
pushes events into the core's queue (`push_event`); the core thread processes
them one at a time and pushes answers and screens into the queue the event names.
The ew interface has in addition the events of the GUI library: the display's
dispatcher holds them until the main loop dispatches them, and it is inside such a
dispatch that a key, a resize or a close is pushed to the core. Buffers, views,
the input map and the logs belong to the core thread alone.

## 2. The modules

| module | what it is | composes / refines |
|---|---|---|
| `MessageChannel` | the abstract FIFO channel | |
| `EventQueue` | `event_queue<T>` and its two consumer loops | implements `MessageChannel` |
| `EditorSession` | core thread, user interface thread, handshake, inputs, quit protocol, join | two channels as `MessageChannel` describes them |
| `UndoHistory` | what undo promises | |
| `BufferLog` | the log of a buffer, its edits, undo and redo of its head | implements `UndoHistory` |
| `HandleTable`, `BufferTables` | a table of identifiers; the tables of byte and editor buffers | `BufferTables` extends `HandleTable` |
| `Utf8`, `InputMap`, `KeyInput` | the utf8 automaton; the tree of key sequences; translation of keys and the walk | `KeyInput` extends both |
| `EditorCore` | from the keyboard to the file | composes `BufferTables` and `KeyInput` |
| `FlexArray`, `TextIndex` | the rope; the line index its callbacks keep | `TextIndex` extends `FlexArray` |
| `TextLayout`, `TextView` | the layout of a screen; one view under the commands | `TextView` extends `TextLayout` |
| `GuiDispatcher` | X server, poller, dispatcher, and the program that makes and destroys windows | |
| `ObjectTree` | the tree of objects and its locks | |
| `WidgetTree`, `MainWindow` | places, hit test and layouts of a tree of widgets; the window of eedit | `MainWindow` instantiates `WidgetTree` |
| `Tftp` | the client, its socket, a lossy network and a server | |
| `MC*` | values of the constants for TLC | extend their module |
| `*Proofs` | theorems and proofs | extend their module |

### EventQueue

One action is one access to the shared state. `push` is `PushLock`, `PushAppend`
(`push_back`), `PushNotify` (`notify_one` and the guard's end). `wait` is
`WaitCheck` (the size test without the mutex), `WaitSleep` (the mutex, then
`wait_until`, which releases it and sleeps in one step), `WaitTimeout` or a
notification, `WaitReturn`. `get` is `GetPeek` (`empty()` without the mutex) and
`GetPop`. `CountSize` and `Handle` are the consumer's loop: with
`policy = "drain"` the core's (`core.cpp:509-535`), which reads the size again
after every event, with `"batch"` the user interfaces' (`main_window.cpp:258-287`,
`ncurses.cpp:255-262`), which read it once. Time is abstract: a timed wait can end
at any moment.

`size()` is read without the mutex while `push_back` may be writing. It subtracts
fields of the deque's two iterators (libstdc++), and a `push_back` that fills the last
slot of a node of `NodeSize` slots moves the finish iterator to the next node field by
field: while the push that is a multiple of `NodeSize` runs, `size()` may return, besides
the true number, any of `TornSizes`, and a reading that straddles the append is placed at
its beginning. Other pushes change one field, and `empty()` compares one. A torn number
that is too large makes the loop call `get()` on an empty queue (`GetFails`): the core's
`assert(msg)` fails, a user interface dereferences a null pointer or the event it has
already deleted, and the program is stopped. So `EveryGetDelivers` names the one way a
`get()` comes back empty: the loop counts on a torn size, and no size is torn before
the push that fills the first node. `pushed` and `taken` are histories; `late` counts the
timeouts the oldest message has waited through since the last size of 0 the loop took for
an empty queue, a torn one included.

### EditorSession

The two queues are sequences, and a push or a get is one step, which is what
`EventQueue` shows a queue to be as long as no torn size stops the program. The core
thread's program counter `corePc` follows `core::main`: `wait`, `process` (an event is in
`cur`), `stop` (inside `process_application_event`, between the answer and
`core_running = false`), `next`, `drain`, `exited`. The user interface's `uiPc` follows
its loop; `test` and `push` are the two accesses of `push_event` (`core.cpp:231` and
`:266`), and `ret` is where the thread goes on after it. Events are `rpc`
(`get_buffer_id_list`), `layout`, `key`, `click` and `quit`, answers `buffers` or
`nobuffer`, `screen` and `quit`. ncurses sends its request before the loop, ew when its
window is created (`EwCreate`), debug sends a quit event and leaves. A session without a
file never gets a buffer (`application.cpp:636`) and stays empty.

`Checked` is what `check_input_msg` asserts of a key, a button or a layout event
(`core.cpp:242-245`, `:437-454`): a buffer, and a screen no dimension of which is 0. The
third assertion there, on `view_id`, cannot fail: the interfaces send an address of
theirs. A button pressed or released in the ew window, or its wheel (`EwClick`), is
pushed with the buffer the text view has or with none (`text_view.hpp:661-731`), while
its keys and layouts wait for a buffer. `room` says whether the view has a width and a
height: a terminal always has, but a text view beside the line numbers and the scroll
bar may be left with a width of 0 by a resize. `fault` records that the program was
stopped by an assertion or wrote to a queue that is deleted. The keys of `undo`, `redo`
and `save-buffer` are left out: those commands stop at an `assert(0)`.

### UndoHistory and BufferLog

`log` is the list of commits in the order of their allocation; a pointer is a
place in it and 0 is null. An edit made after undos first logs what was undone
again, inverted and last first: each turn of that loop (`buffer_log.cpp:174-190`)
is a step `Revert`, and `FinishEdit` is what follows the loop. `Undo` and `Redo` are
`buffer_log_undo` and `buffer_log_redo`: they move the head of the log and nothing else.
Nothing of this commit drives the log as a whole: the text mode does not log its edits,
and the undo and redo commands (`core/undo/undo.cpp`), which are not modelled, stop at an
`assert(0)` with their changes of the text commented out. So the client of the module is
one that logs edits of the text the head stands for (`text`, a version of the history
`versions`, not a state of the program). `UndoHistory` is the promise: every text there
ever was can be got back.

### HandleTable, BufferTables, KeyInput, EditorCore

`Finds`, `Refuses` and `Overruns` are the three ways `get_index` ends: an index, 0,
or a read behind the table. `BufferTables` opens the files of the command line
(`OpenFile`, `OpenFileFails`, `FilesDone`, `OpenDummy`), and modules open and close
buffers at any time (`ModuleOpens`, `ModuleOpensEditor`, `ModuleCloses`), also ones
they do not hold (`strays`). Editor buffers are never closed:
`editor_buffer_close` has a declaration only.

`InputMap` parses lines of tokens into a tree of nodes and looks one level of it
up; `KeyInput` reads the configuration line by line (`ReadLine`), translates what
the keyboard gives (`NcursesEvent`, `X11Key` with the automaton of `Utf8`) and walks
(`KeyPressed`). `EditorCore` runs the action a walk ends in on the byte buffer of
the editor buffer that is shown, the first of the list (`ByteBuffer`) - except for
`page-up`: `page_up_internal` (`text_mode.cpp:541`) looks the number of that byte buffer
up among the editor buffers, and lays out the bytes of what it finds there
(`PageUpBuffers`). Both tables count from 1 and the files are opened in both in step, so
the two numbers agree unless a module was given a byte buffer before the files were
opened (`early`). Then page-up lays out another file, or none, and may stop at the
assertion that the start of the screen is among the lines laid out (`PageUpFails`).
`process_event_ctx.cpp` (108, 126, 137) mixes the numbers up in the same way, without
effect: `ui_must_resync_flag` has no caller, and `set_buffer_changed_flag` is called from
disabled code only, so that the flag the core asks for (`core.cpp:410`) is never set.

Worth knowing: of several lines that bind one sequence the last wins, while
overlapping ranges go by the order of the nodes; the upper end of a range is not
enforced for typed code points; under ncurses Return arrives as ctrl+m and does
nothing, ESC and DEL insert themselves, and a key code without a translation stops
the program; under ew a modifier alone sends an event that resets a half-typed
sequence; a line without "=" runs on into the next; the automaton of `utf8.cpp`
lacks the lead byte EE, overwrites the row of F0 and shares a state for F4, unlike
the table in its comment (`utf8.cpp:20-41`), so that U+3FFFF arrives as U+0FFF and
an emoji not at all. `TypedTextArrives` in `MCEditorCore` evaluates this.

### FlexArray and TextIndex

`tree` is the object: nodes with their pages, root, list, cached leaf. Inserts
(`InsertOffset`, `InsertIt`), erases (`EraseIt`, `EraseRange`), iterators made,
moved and dropped, each with the whole rearrangement of leaves the code does.
`content` is a history of what the calls asked for, and `calm` turns false with the
first edit through an iterator older than the last edit, where the promise ends.
`copy_forward` asserts when a leaf fills exactly (line 1600). `TextIndex` adds the
callback that keeps `count` and the two searches in it.

### TextLayout and TextView

The layout passes code points one by one through decoder, tabs, marks and screen,
each with the state it keeps between chunks. `TextView` is one view: edits at the
mark, moves by pages, jumps, `SetStartOffset` (the scroll bar's RPC). A page up
lays screens out from a rewound start whose other fields are uninitialised
(`text_mode.cpp:392-394`): any member of `Garbage`. It is taken to work on the buffer of
the view; what it does where the numbers of the two tables differ is in `EditorCore`.
`fault` says at which assertion the core stopped. Worth knowing: a page up steps back one
line more than the screen has; with a screen of one line it never ends; screens keep
their first dimension after a resize (`core.cpp:159-163`); tabs go by the index in the
line.

### GuiDispatcher

`mode` is the threading model. With `"threads"`, `open()` starts a poller thread
and that one a dispatcher thread; the program is a third. With `"single"`, which
eedit selects (`ui.cpp:39`), one thread plays the three roles in turns. The poller:
`PollStart`, `PollFetch` (the X events, under the display's lock), `PollLookup` and
`PollTranslate` for each (the window is looked up under the mutex of the window
list and used after it), `PollPush`, `PollStop`, `PollJoin`. The dispatcher:
`DispTop`, `DispWait`, `DispSize` and `DispCap` (the two readings of the list's
size), then `DispFront`, `DispLock` (`have_widget` under the display's lock) and
`DispHandle` (the resize filter and the callback) for each event. The program:
`AppCreate`, `AppDestroy` and `AppRemoveEvents` (the two halves of `del_widget`),
`AppClose`, `AppJoin`. A member of `Windows` is an address, which `new` may give to
a second window; `gen` is that window's X drawable, by which `get_window` tells them
apart while the dispatcher cannot. An X event whose window is gone finds no window:
the translation of a button or of a `ReparentNotify` needs one (`NeedsWindow`; the
first asserts it, `x11_event.cpp:190`, the second uses it) and stops the program, the
others are dropped. Draw, key and motion events are dispatched alike, so `input` stands
for those of the server and `draw` for those that callbacks push.

### ObjectTree

One step per lock: `Take` (the child's mutex), `Leave` (out of the old parent's
slot, under both), `Clear` (the link), `Join` (a hole or a new slot of the new
parent), `Compare` (the questions), `New`, `Destroy` with everything below. `Order`
is the tree the program means, and `crossed` says that a call went against it.
Nothing prevents a cycle, which the destructor would follow for ever (`Destroy` is
not enabled there); a call that goes against the order may wait for ever.

### WidgetTree and MainWindow

`WidgetTree` has a geometry (a place in the parent and a size for each widget) and
what the code computes from it: `Global`, `WidgetUnder`, `Resized` with unsigned
lengths modulo `Word`. `MainWindow` is eedit's tree of eight widgets with one action
per event of the window (`Create`, `Resize`, `Key`, `Press`, `Release`, `Wheel`,
`Motion`, `Enter`, `PointerLeave`, `FocusIn`, `FocusOut`, `Expose`, `Draw`) and per
message of the core (`BufferList`, `NewScreen`). Each event finds its target (the
selected widget, or the one under the pointer), moves the focus there, calls it and
paints when it was for the window itself. A ratio of the scroll bar is a number of
parts of `Parts`. Worth knowing: until the first resize all widgets lie in the upper
left corner and the scroll bar is 0 high; `set_begin_ratio` on a drag leaves the end,
which fails an assertion before the first screen (`scroll_bar.cpp:157`); a drag
scrolls nothing, since the view's `m_buffer_id` stays 0; clicks are sent before a
buffer is known; keys over line numbers and status bar are dropped.

### Tftp

`get` and `put` are two machines; each step is one call of the current state's
callback. The network is two sets of packets: what was sent may be delivered at any
later time, in any order and as often as the network likes, so lost, late and repeated
packets and a server that repeats itself are all in it, without a bound. `MaxLate` bounds
what is on its way from one transfer into the next. The server serves block by block,
refuses, answers with a packet that is shorter than its header, and restarts. Packets
carry their transfer number for the properties only. Worth knowing: every data packet
ends the count of timeouts, one it already has too (`tftp.cpp:358`), and a packet of
another type begins the wait again uncounted, so a get ends only if its server stops
sending; a packet without a whole header stops the client (`byte_stream.hpp:60`); data is
written whatever its number, so duplicates are written twice; a short write goes
unnoticed; an acknowledgement before any packet goes to an address nobody has set; OACK,
DATA and ERROR count as block 0 in a put, after which a put sends its data two bytes
early; a put never retransmits and never gets to its second block; one connected socket
serves all transfers, so a packet of the last one can end this one. Block numbers are
modulo 2^16.

## 3. What the runs check

Each passing run also fires every action of its specification. Every property
has a mutant in `PROJECT.json`: a change of one definition, the way a bug in that
code would change it, that makes TLC find the property violated.

| run | question | answer |
|---|---|---|
| `event_queue` | do the unlocked tests, the torn size, the lost notification and the stale batch size lose, duplicate, reorder or delay messages? | nothing is lost, repeated or out of order (`ImplementsChannel`, with liveness unless the program stops); a `get()` is empty only behind a torn size (`EveryGetDelivers`), a message waits through one timeout (`AtMostOneTimeout`) |
| `session` | does a session start, show a screen and end, whatever the order of the two threads? | `HandshakeShowsScreen` and `QuitEnds`; only events pushed after the quit was answered are dropped (`OnlyLateEventsDropped`), and the ways to stop early are those `FaultsHaveACause` lists: an input without a buffer, a view without a width, an event behind a quit |
| `session_early_key` | does every key reach the core with a buffer, as `check_input_msg` asserts? | no: a key typed into ncurses before the list of buffers arrived (a finding) |
| `buffer_log` | can the log be replayed, and is no text lost, after any edits, undos and redos? | `Replayable`, `ImplementsHistory` |
| `core` | does a key run what the configuration says, on the file the user sees? | `KeysRunTheirBindings`, `BuffersFindTheirFile`, `StopsHaveACause`; every command but page-up, and page-up unless a module opened a byte buffer before the files (`CommandsReachTheFileShown`) |
| `rope` | do tree, list, cache, iterators and line counts agree with the text? | `ContentInOrder`, `TreeAndListAgree`, `AcceptedReadsItsOffset`, `IndexMatchesText` |
| `text` | does the screen show the text, and is it the current one? | `ShowsTextInOrder`, `ScreenIsCurrent`, `PageUpGoesUp`, `FaultsHaveACause` |
| `gui` | what do the counters, the ignored resizes and the lookups by address still guarantee when windows come and go? | `PendingCoversList`, `CallbackOnLiveWindow`, `CallbackForItsOwnWindow`, `LastResizeHandled`, `WindowKnowsItsSize`; undefined behaviour needs one of the causes in `FaultsHaveACause` |
| `gui_live` | is what is pushed dispatched, and does `close()` return? | with one thread everything (`ListIsEmptied`); `CloseReturns` unless `stop()` came in the gap before the wait |
| `objects` | do threads that move objects at once leave one tree? | `SlotsAndLinksAgree`; `EveryCallReturns` as long as calls follow the program's tree |
| `window` | do layout, hit test, focus, grab and drawing fit together? | `TilesTheWindow`, `WidgetsKnowTheirFocus`, `DragHasTheGrab`, `ReleaseFollowsPress`, `NewScreensGetDrawn`, `FaultsHaveACause` |
| `tftp` | has every block arrived, in order of first arrival, when a transfer is reported as done (a get may have written blocks twice), and does it end? | `FilesArrive` unless the client was deceived by what it cannot tell; `TransferEnds` except in the two places `Hangs` names and in a get that is sent packets for ever (`SentForEver`) |

**Bounds.** Each is large enough for the case its properties are about.

- `event_queue`: two producers with two messages each - a push between two accesses
  of the consumer, a push during a batch, the order of two producers. Nodes of two
  slots, so that the second and the fourth push fill one; a torn size of 0, or of 3,
  which is more than the queue holds.
- `session`: three user inputs, so that a key or a click, a resize that takes the width
  away or a quit, and a further event can be queued at once.
- `buffer_log`: two characters, texts of up to two characters, six commits - two
  undone commits, their reverts, an edit after them and an undo into the reverts.
  The bound on the log is a guard of edits only: an edit that starts has room for
  its reverts.
- `core`: tables with two usable handles, so that they fill, wrap and refuse; two
  files and one that is missing; three buffers of modules; the default map, the one
  of its `#else`, and one with the clashes a configuration can have.
- `rope`: pages of two items, at most four items, one iterator that outlives two
  edits: leaves split, empty and are replaced on both sides of an inner node.
- `text`: up to three characters in an edited text, and texts of fourteen for the
  pages; screens of one to three columns and none to two lines; tab stops of four.
- `gui`: two addresses, two windows made in all, two X events, a button among them: a resize under way
  while another is ignored, events left over from a destroyed window, a batch of
  two. `gui_live`: one X event of any kind and one event pushed by a callback.
- `objects`: three objects, two threads, five calls: a hole that one thread leaves
  and another fills while the first is between its two steps.
- `window`: a size with room and one without, bars of two pixels, points in tab bar,
  text, scroll bar and outside, two buttons, one draw event.
- `tftp`: two transfers of files of one and two blocks and of a file whose name does not
  fit into a request, one small file here already, one packet late from the first
  transfer into the second; repeats are not bounded.

**Fairness.** `EventQueue`: weak fairness of the consumer's thread with its timed
wait's end, and of a producer that holds the mutex; a producer need not push. The
consumer never keeps the mutex over a step, so weak fairness is enough.
`EditorSession`: weak fairness of each of the two threads as a whole, none of the
user. `GuiDispatcher`: weak fairness of the poller, of the dispatcher and of the two
steps that end what the program began; none of the X server, of spurious wake-ups
or of what the program begins. `ObjectTree`: weak fairness of each thread's steps
inside a call. `Tftp`: weak fairness of the client's machine, whose wait ends with a
packet or a timeout; none of network and server, which may be silent or go on for ever. These are what a scheduler gives
that runs every ready thread. The other modules have no liveness property: their
code runs to its end on one thread, each action being one call.

**Deadlock** is checked in `event_queue`, `session` and `buffer_log` (a session that
has ended stutters in `Ended`; a log can always be undone, redone or edited). It is
not checked where the program really may stop: a closed display, a failed assertion
or undefined behaviour (`gui`, `gui_live`, `rope`, `text`, `core`, `window`), threads
that wait for each other's objects (`objects`), a user who quits (`tftp`).

## 4. What is proved

The theorems hold for every value of the constants that the named assumptions
allow; each `*Proofs` module extends the module it is about. They follow one
pattern: an inductive invariant (here `IInv`) with `Init => IInv` and
`IInv /\ [Next]_vars => IInv'`, one lemma per action, and the properties as
consequences. TLC has checked each on the run's instance first.

| module | properties proved for every instance | still only on the instance |
|---|---|---|
| `EditorSessionProofs` | of the queue: `EveryGetDelivers`, `AtMostOneTimeout`, the channel's safety part; of the session: `OnlyLateEventsDropped`, `FaultsHaveACause` | the channel's fairness; `QuitEnds`, `HandshakeShowsScreen` |
| `BufferLogProofs` | `Replayable`, `ImplementsHistory`, and that undo and redo follow one line | |
| `EditorCoreProofs` | `BuffersFindTheirFile`, `CommandsReachTheFileShown`, `StopsHaveACause`, `KeysRunTheirBindings`, and that full tables are never enlarged | |
| `GuiDispatcherProofs` | all six invariants of `gui` | `CloseReturns`, `ListIsEmptied` |
| `ObjectTreeProofs` | `SlotsAndLinksAgree` | `EveryCallReturns` |
| `MainWindowProofs` | all five invariants of `window`, and `ReleaseFollowsPress` | |
| `TextViewProofs` | all four invariants of `text` | |
| `TftpProofs` | `FilesArrive` | `TransferEnds` |
| | | all of `rope` |

**EditorSessionProofs.** The queue, for any number of producers and messages, nodes of any
size and any torn sizes: the mutex's owner is exactly the producer between lock and
release; what was pushed is what was taken, then the message in hand, then the queue; the
consumer's count is at most what the queue holds, or was torn, and then a node's worth of
messages less one had been pushed (`GetInv`, `TornInv`); a message has waited through a
timeout only while the consumer is past its sleep and about to look, since after a timeout
it does not test the size again before it counts. The session: the interface knows of a
quit only from the core's answer, which the core sends in the step before it clears
`core_running` (`QuitInv`); so what is pushed after that is late, and the core leaves its
inner loop on an empty queue only (`LateInv`). What is pushed carries the buffer and the
width the interface had at that moment (`PushInv`), so an event that fails the check was
a key of ncurses or a click in ew before a buffer, or came from a text view without a
width.

**BufferLogProofs.** The invariant is the line of commits, that it can be replayed,
that each version is the previous one with its commit done to it, and what is true
while an edit waits: the versions after the length the log had mirror those before
it. Only through the mirror is the text at the end of the reverts the text the edit
was made on. Two lemmas about texts carry it: an inverted commit fits where the
commit was done and takes its effect back.

**EditorCoreProofs.** Nothing closes an editor buffer, so that table is filled from 1
upwards without gaps, and so is the other one until a byte buffer is closed; a table
without gaps gives the next index or is full and refuses, and does not run past its
end. As long as modules close only what they hold, editor buffers and held buffers
are different ones and open. Commands then work on an entry nothing rewrites. Page-up
needs more: while no module has been given a byte buffer, the two tables are filled in
step (`InStep`), so the file shown has the same number in both, and nothing changes these
numbers later (`SameNumbers`). The keys
(`ConfigAssumption`: every line of a configuration has a path and an action, the only
way the parser leaves its assertions alone) take two inductions over the lines and
their tokens. The tree: once a line is read, paths share a node exactly as far as
their lines begin alike, there are no other nodes, a start begun later has a later
node, and a node's action is that of the last line that ends there. The walk: after
any keys it stands at the node the lines still possible lead to, or nowhere when
there is none (`WalkedTo`); what the walk runs is then what the reference over the
lines (`Expected`) says.

**GuiDispatcherProofs.** The display's lock is the dispatcher's exactly while a
callback runs and the program's exactly while it destroys a window. A destroyed
window leaves a trace in the numbers of the drawables, which tells a stale pointer
and a batch longer than the list from a sound one. Resizes are handled in the order
they were pushed in, and the counter is exact until a window is destroyed, so the
one that is not ignored is the last. With one thread the newest resize of a window
carries what `_properties` hold, and these follow the server's last
`ConfigureNotify`. The list after `remove_widget_events` is a filtered sequence,
reasoned about through the set of its places.

**ObjectTreeProofs.** Links and slots disagree between the two steps in which
`set_parent` takes a child out of its old parent, and another thread may fill the
hole meanwhile. The child's own mutex keeps this from being seen: only its holder is
between the two steps, the child is then in no slot, and once the link is cleared it
has no parent until the same thread gives it one. Links lead only to objects alive,
because the destructor takes everything below an object.

**MainWindowProofs** (assumes that bars have a positive length, that sizes are
positive and below `Word`, that points are pairs of integers). The layout: the
functions of `WidgetTree` recur over the tree, and are evaluated along the eight
widgets. Whatever the size, a layout keeps the lengths that `on_create` has fixed and
the window's place (`Built`) - so what a window too small has left behind cannot
spoil a later layout; a layout with room then puts each widget at a place that is
known (`Fits`, `LayoutFits`), these places tile the window (`FitsTiles`), and the
descent of the hit test ends in one that holds the pixel (`FitsHits`). The events: a
held thumb keeps the bar selected; unless a button went up while another was down,
every button that is down was pressed on the selected widget (`PressInv`), from which
the release follows; a screen that was not drawn has pushed a draw event, and only a
paint takes one; without a screen the bar's end is still 0 (`TextInv`), which is why
its assertion needs a drag.

**TextViewProofs** (assumes `LayoutAssumption` and `ViewAssumption`: glyphs and tabs
are at least one pixel and one cell, views open with a positive dimension, an
uninitialised start is anything, its index counted modulo the tab's width). While a screen
is drawn the pen is kept at the end of its last line, in pixels and in cells
(`PenInv`), and the lines so far show the text without a gap (`Drawn`); so each layout
draws its screen from the first cell of its start (`LayoutIs`), whatever the decoder,
tabs and marks keep between chunks. Cells have ranks: the offset, then the split of a
tab. In a page up the rank of the first cell of each screen grows until the search
stops, so it stops within `MaxScreens` screens, at the old start or at a cause
(`LineListIs`): the bound of the model is never what ends it. The offsets in its list
of lines never fall, and without tabs they grow over any two lines (`GoodList`), hence
the start two lines above is smaller. `ViewInv` adds that the screen is the layout of
the text as it is, and what a layout needs of the view's start: fewer cells of a tab
above the screen than the tab has. The start itself may lie behind the end of the text.

**TftpProofs** (files of up to 65535 blocks). A get: the server sends block k + 1 only
on an acknowledgement of k, and the client acknowledges only the last block it has in
order; so no packet of this transfer holds a block behind the next one (`GetInv`). A
put: the only data packet is block 1, and it is acknowledged only when the server's
transfer is this one and has stored it (`PutInv`).

**Only model-checked, and why.** Liveness under fairness is out of the prover's
reach: `QuitEnds`, `HandshakeShowsScreen`, `CloseReturns`, `ListIsEmptied`,
`EveryCallReturns`, `TransferEnds` and the fairness part of `ImplementsChannel`. The
prover does not read `RECURSIVE` operators, with which the tree of the rope is
written: `FlexArray` and `TextIndex` have no theorem, so the four properties of `rope`
(`ContentInOrder`, `TreeAndListAgree`, `AcceptedReadsItsOffset`, `IndexMatchesText`)
are only checked on its instance.

## 5. Disagreements between code, comments and tests

`session_early_key` is the finding: `check_input_msg` asserts that a key names a
buffer, and the ncurses loop sends one that does not. What else was met while
modelling is in section 2 under "worth knowing"; the properties whose name ends in
`Cause` list what can go wrong in each part and exactly when. Four more:

- page-up takes the number of a byte buffer for that of an editor buffer
  (`text_mode.cpp:541`). No module of this commit opens a byte buffer before the files, so
  the two agree here; a module that does makes page-up work on another file.
- A window's last resize is ignored while any other window's resize is pending, for
  there is one counter for all: `_properties` are right nevertheless (with one
  thread), but `on_resize` is not called. With threads an old resize dispatched after
  the poller has stored a newer size overwrites it (`event.cpp:312`).
- After a window was destroyed its resizes stay counted, so later ones may be ignored
  for good (`LastResizeHandled` excludes this case: `Removed`).
- Destroying a parent counts its children down twice, and `get_child` does not see
  children behind a hole; no program relies on either.

## 6. What is not modelled, and why

- **Hazard without a property**: the SIGINT handler of ncurses pushes from inside a
  thread that may hold the queue's mutex; raw mode keeps ctrl-c from raising the
  signal, so only a kill from outside reaches it.
- **Output**: drawing, fonts, OpenGL, colours, mathematics (floating point).
- **Thin layers** over system calls: files, tcp connections, console, time, exceptions.
- **Code that cannot run or is never called**: redo, undo and save at their
  `assert(0)`; the second half of `text_mode.cpp` (685-1740), disabled; hexadecimal
  and byte filters, folding, `add_tab`, `pop()`, `put_cp`, reversed iterators of the
  rope, the window's own resize requests.
- **Other code**: the win32 platform (the unix side of the same interface is
  modelled), experiments under `playground/` (timers, signals and slots), drawing
  demonstrations, build files, allocation failures.

## 7. What is left

The tree of the rope as a recursive function over its nodes, and proofs of the
properties of `rope`; they need the shape of a rebuilt subtree as an invariant.
