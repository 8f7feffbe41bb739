---------------------------- MODULE GuiDispatcher ----------------------------
(***************************************************************************)
(* The event path of ew::graphics::gui on X11: the poller turns X events   *)
(* into gui events (x11/x11_event.cpp), the event_dispatcher queues them   *)
(* and hands them to the windows' callbacks (event/event.cpp), and the     *)
(* program opens, destroys and closes (window.cpp, display.cpp).           *)
(*                                                                         *)
(* Two threading models exist.  "single": one thread polls, dispatches and *)
(* runs the program in turns (eedit).  "threads": open() starts a poller   *)
(* thread, which starts a dispatcher thread, beside the program's own.     *)
(* One step is one critical section of the event list's mutex or of the    *)
(* display's lock, or one unlocked access to the state they share.         *)
(*                                                                         *)
(* A window is its address: a destroyed window's address may be given to a *)
(* new one, whose X drawable (gen) then differs.                           *)
(***************************************************************************)
EXTENDS Integers, Sequences, FiniteSets, Functions

CONSTANTS
  Modes,        \* threading models to consider
  Windows,      \* addresses a window may have
  NoWindow,     \* the null pointer
  Sizes,        \* window sizes
  XKinds,       \* kinds of X events, see AllXKinds
  InitSize,     \* the size a window is created with
  MaxX,         \* bound: events the X server sends
  MaxCreates,   \* bound: windows the program creates, at all addresses
  MaxDraws      \* bound: draw events the callbacks push

EventTypes == {"create", "resize", "map", "input", "draw"}
AllXKinds  == {"configure", "reparent", "map", "button", "input"}
ASSUME WindowsAssumption == NoWindow \notin Windows /\ InitSize \in Sizes
ASSUME KindsAssumption == Modes \subseteq {"single", "threads"} /\ XKinds \subseteq AllXKinds
ASSUME BoundsAssumption ==
  MaxX \in Nat /\ MaxCreates \in Nat /\ MaxDraws \in Nat

Faults     == {"none", "no_dispatcher", "null_window", "stale_window",
               "empty_front"}

Event == [type: EventTypes, win: Windows \cup {NoWindow}, gen: Nat,
          size: Sizes, id: Nat]
XEvent == [kind: XKinds, win: Windows, gen: Nat \ {0}, size: Sizes]
NoEvent == [type |-> "map", win |-> NoWindow, gen |-> 0,
            size |-> InitSize, id |-> 0]

VARIABLES
  mode,         \* "single" or "threads"
  running,      \* _is_running: the threads have a dispatcher and go on
  dpyLock,      \* owner of the display's lock: "none", "app", "dispatcher"
  widgets,      \* _widget_list
  gen,          \* per address: the drawable of its last window (0: never used)
  props,        \* per window: the size in _properties
  xsize,        \* per window: its size in the X server
  xqueue,       \* X events the client has not read
  list,         \* event_list
  pending,      \* pending_event_counters
  ppc,          \* poller: "start", "idle", "lookup", "translate", "stop", "join",
                \*   "done"
  xevs,         \* poller: xevent_vec, what is left of it
  found,        \* poller: what get_window returned
  vec,          \* poller: event_vec
  dpc,          \* dispatcher: "top", "enter", "sleep", "size", "cap", "front",
                \*   "lock", "handle", "done"
  nr,           \* dispatcher: events left in the batch
  ev,           \* dispatcher: the event in hand
  apc,          \* program: "run", "destroy", "closing", "closed"
  victim,       \* program: the window it is destroying
  fault,        \* undefined behaviour met: the model stops there
  resizes,      \* history: resize events pushed
  resized,      \* history: the last one on_resize got
  stopLost,     \* history: stop() found the dispatcher about to wait
  xleft, draws  \* the bounds MaxX and MaxDraws

progVars == <<apc, victim, widgets, gen>>
pollVars == <<ppc, xevs, found, vec>>
dispVars == <<dpc, nr, ev>>
histVars == <<resizes, resized, stopLost>>
vars == <<mode, running, dpyLock, progVars, props, xsize, xqueue, list, pending,
          pollVars, dispVars, fault, histVars, xleft, draws>>

Init ==
  /\ mode \in Modes
  /\ running = FALSE
  /\ dpyLock = "none"
  /\ widgets = {}
  /\ gen = [w \in Windows |-> 0]
  /\ props = [w \in Windows |-> InitSize]
  /\ xsize = [w \in Windows |-> InitSize]
  /\ xqueue = <<>>
  /\ list = <<>>
  /\ pending = [t \in EventTypes |-> 0]
  /\ ppc = IF mode = "threads" THEN "start" ELSE "idle"
  /\ xevs = <<>> /\ found = NoWindow /\ vec = <<>>
  /\ dpc = IF mode = "threads" THEN "done" ELSE "size"
  /\ nr = 0 /\ ev = NoEvent
  /\ apc = "run" /\ victim = NoWindow
  /\ fault = "none"
  /\ resizes = 0 /\ resized = 0
  /\ stopLost = FALSE
  /\ xleft = MaxX /\ draws = 0

(* Windows created so far, and whether one of them was destroyed.          *)
Made == FoldFunction(+, 0, gen)
Removed == \E w \in Windows : gen[w] > IF w \in widgets THEN 1 ELSE 0

(* Nothing is said of the program after undefined behaviour.               *)
Sound == fault = "none"

(* In single mode a role runs only while the other two are at rest.        *)
PollerRests     == ppc = "idle"
DispatcherRests == dpc = "size"
PollerTurn      == mode = "threads" \/ (DispatcherRests /\ apc = "run")
DispatcherTurn  == mode = "threads" \/ (PollerRests /\ apc = "run")
ProgramTurn     == mode = "threads" \/ (DispatcherRests /\ PollerRests)

-----------------------------------------------------------------------------
(* event_dispatcher: the queue.                                            *)

CountOf(t, s) == Cardinality({i \in DOMAIN s : s[i].type = t})

(* push(): append and count under the mutex, then notify_one().            *)
Push(es) ==
  /\ list' = list \o es
  /\ pending' = [t \in EventTypes |-> pending[t] + CountOf(t, es)]

Wake == IF dpc = "sleep" THEN "size" ELSE dpc

(* Mutant: the events of a destroyed window stay.                          *)
KeepWidgetEvents(w) == list

(* The j-th smallest of the indices K, and the events of s that are not    *)
(* for window w, in their order.                                           *)
Nth(K, j) == CHOOSE i \in K : Cardinality({k \in K : k <= i}) = j
Without(s, w) ==
  LET kept == {i \in DOMAIN s : s[i].win # w}
  IN [j \in 1..Cardinality(kept) |-> s[Nth(kept, j)]]

(* remove_widget_events(): the list loses the window's events, the         *)
(* counters do not.                                                        *)
RemoveWidgetEvents(w) == Without(list, w)

-----------------------------------------------------------------------------
(* The X server.                                                           *)

XSend(w, k, s) ==
  /\ Sound /\ w \in widgets /\ xleft > 0
  /\ xleft' = xleft - 1
  /\ k = "configure" \/ s = xsize[w]
  /\ xsize' = [xsize EXCEPT ![w] = s]
  /\ xqueue' = Append(xqueue, [kind |-> k, win |-> w, gen |-> gen[w], size |-> s])
  /\ UNCHANGED <<mode, running, dpyLock, progVars, props, list, pending,
                 pollVars, dispVars, fault, histVars, draws>>

XServer == \E w \in Windows, k \in XKinds, s \in Sizes : XSend(w, k, s)

-----------------------------------------------------------------------------
(* The poller.                                                             *)

(* event_poller_thread_function(): the dispatcher and its thread exist     *)
(* only once the thread that open() started runs.                          *)
PollStart ==
  /\ Sound /\ ppc = "start"
  /\ ppc' = "idle" /\ running' = TRUE /\ dpc' = "top"
  /\ UNCHANGED <<mode, dpyLock, progVars, props, xsize, xqueue, list, pending,
                 xevs, found, vec, nr, ev, fault, histVars, xleft, draws>>

(* poll_events(): read every pending X event under the display's lock.     *)
PollFetch ==
  /\ Sound /\ ppc = "idle" /\ PollerTurn /\ apc # "closed"
  /\ xqueue # <<>> /\ dpyLock = "none"
  /\ xevs' = xqueue /\ xqueue' = <<>>
  /\ ppc' = "lookup"
  /\ UNCHANGED <<mode, running, dpyLock, progVars, props, xsize, list, pending,
                 found, vec, dispVars, fault, histVars, xleft, draws>>

(* Without an X event it returns when the list is not empty or no window is *)
(* left, and blocks otherwise; the thread ends when it is not to run.      *)
PollReturn ==
  /\ Sound /\ ppc = "idle" /\ mode = "threads" /\ ~running
  /\ xqueue = <<>> /\ (list # <<>> \/ widgets = {})
  /\ ppc' = "stop"
  /\ UNCHANGED <<mode, running, dpyLock, progVars, props, xsize, xqueue, list,
                 pending, xevs, found, vec, dispVars, fault, histVars, xleft, draws>>

(* get_window(): the window of the event's drawable, under the list's      *)
(* mutex; the pointer is used after it.                                    *)
PollLookup ==
  /\ Sound /\ ppc = "lookup" /\ xevs # <<>>
  /\ LET x == Head(xevs)
     IN found' = IF x.win \in widgets /\ x.gen = gen[x.win] THEN x.win ELSE NoWindow
  /\ ppc' = "translate"
  /\ UNCHANGED <<mode, running, dpyLock, progVars, props, xsize, xqueue, list,
                 pending, xevs, vec, dispVars, fault, histVars, xleft, draws>>

(* Button events assert that they have a window; ReparentNotify does not   *)
(* test the pointer it follows.  Any other event ends here without one.    *)
NeedsWindow == {"button", "reparent"}

(* What translate_gui_event() appends to event_vec for X event x and the   *)
(* window w that get_window returned; "input" stands for the keys and the  *)
(* pointer, "button" for the pointer's buttons.                            *)
Translated(x, w) ==
  LET e(t, s, i) == [type |-> t, win |-> w, gen |-> x.gen, size |-> s, id |-> i]
  IN IF x.kind = "map" THEN <<e("map", InitSize, 0)>>
     ELSE IF w = NoWindow \/ (x.kind = "configure" /\ x.size = props[w]) THEN <<>>
     ELSE CASE x.kind \in {"button", "input"} -> <<e("input", InitSize, 0)>>
            [] x.kind = "configure" -> <<e("resize", x.size, resizes + 1)>>
            [] x.kind = "reparent"  -> <<e("resize", props[w], resizes + 1)>>

(* Mutant: the poller leaves _properties to the dispatcher.                *)
PropsLeftAlone(x, w) == props

(* ConfigureNotify stores the new size in the window at once.              *)
TranslatedProps(x, w) ==
  IF w # NoWindow /\ x.kind = "configure"
  THEN [props EXCEPT ![w] = x.size] ELSE props

(* The window may have been destroyed since the lookup: while its          *)
(* destructor runs it is not available; once it is freed anything may      *)
(* happen.                                                                 *)
PollTranslate ==
  /\ Sound /\ ppc = "translate"
  /\ LET x == Head(xevs)
         stale == found # NoWindow /\ found \notin widgets
     IN \/ /\ stale
           /\ UNCHANGED <<vec, props, resizes, fault>>
        \/ /\ stale /\ ~(apc = "destroy" /\ victim = found)
           /\ fault' = "stale_window"
           /\ UNCHANGED <<vec, props, resizes>>
        \/ /\ ~stale
           /\ fault' = IF x.kind \in NeedsWindow /\ found = NoWindow
                       THEN "null_window" ELSE "none"
           /\ vec' = vec \o Translated(x, found)
           /\ resizes' = resizes + CountOf("resize", Translated(x, found))
           /\ props' = TranslatedProps(x, found)
  /\ xevs' = Tail(xevs) /\ found' = NoWindow /\ ppc' = "lookup"
  /\ UNCHANGED <<mode, running, dpyLock, progVars, xsize, xqueue, list, pending,
                 dispVars, resized, stopLost, xleft, draws>>

(* push_events() with force: nothing is filtered.                          *)
PollPush ==
  /\ Sound /\ ppc = "lookup" /\ xevs = <<>>
  /\ Push(vec) /\ vec' = <<>>
  /\ dpc' = IF vec = <<>> THEN dpc ELSE Wake
  /\ ppc' = IF mode = "threads" /\ ~running THEN "stop" ELSE "idle"
  /\ UNCHANGED <<mode, running, dpyLock, progVars, props, xsize, xqueue,
                 xevs, found, nr, ev, fault, histVars, xleft, draws>>

(* Mutant: the poller joins the dispatcher's thread without stop().        *)
PollJoinWithoutStop ==
  /\ Sound /\ ppc = "stop"
  /\ ppc' = "join"
  /\ UNCHANGED <<mode, running, dpyLock, progVars, props, xsize, xqueue, list,
                 pending, xevs, found, vec, dispVars, fault, histVars, xleft, draws>>

(* stop() notifies without the mutex: a dispatcher between its test of     *)
(* _is_running and its wait does not hear it.                              *)
PollStop ==
  /\ Sound /\ ppc = "stop"
  /\ ppc' = "join"
  /\ dpc' = Wake
  /\ stopLost' = (stopLost \/ dpc = "enter")
  /\ UNCHANGED <<mode, running, dpyLock, progVars, props, xsize, xqueue, list,
                 pending, xevs, found, vec, nr, ev, fault,
                 resizes, resized, xleft, draws>>

(* The dispatcher's thread has ended: its events are destroyed with it.    *)
PollJoin ==
  /\ Sound /\ ppc = "join" /\ dpc = "done"
  /\ ppc' = "done" /\ list' = <<>>
  /\ UNCHANGED <<mode, running, dpyLock, progVars, props, xsize, xqueue,
                 pending, xevs, found, vec, dispVars, fault, histVars, xleft, draws>>

Poller == PollStart \/ PollFetch \/ PollReturn \/ PollLookup \/ PollTranslate
            \/ PollPush \/ PollStop \/ PollJoin

-----------------------------------------------------------------------------
(* The dispatcher.                                                         *)

(* event_dispatcher_thread_function(): the test of _is_running.            *)
DispTop ==
  /\ Sound /\ dpc = "top"
  /\ dpc' = IF running THEN "enter" ELSE "done"
  /\ UNCHANGED <<mode, running, dpyLock, progVars, props, xsize, xqueue, list,
                 pending, pollVars, nr, ev, fault, histVars, xleft, draws>>

(* dispatch_all_events(): wait without a predicate and without a timeout.  *)
DispWait ==
  /\ Sound /\ dpc = "enter"
  /\ dpc' = "sleep"
  /\ UNCHANGED <<mode, running, dpyLock, progVars, props, xsize, xqueue, list,
                 pending, pollVars, nr, ev, fault, histVars, xleft, draws>>

(* A condition variable may wake without a notification.                   *)
DispSpurious ==
  /\ Sound /\ dpc = "sleep"
  /\ dpc' = "size"
  /\ UNCHANGED <<mode, running, dpyLock, progVars, props, xsize, xqueue, list,
                 pending, pollVars, nr, ev, fault, histVars, xleft, draws>>

Rest == IF mode = "threads" THEN "top" ELSE "size"

(* Mutant: the batch is one event short.                                   *)
DispSizeShort ==
  /\ Sound /\ dpc = "size" /\ DispatcherTurn /\ apc # "closed"
  /\ list # <<>> \/ mode = "threads"
  /\ nr' = IF list = <<>> THEN 0 ELSE Len(list) - 1
  /\ dpc' = IF nr' = 0 THEN Rest ELSE "cap"
  /\ UNCHANGED <<mode, running, dpyLock, progVars, props, xsize, xqueue, list,
                 pending, pollVars, ev, fault, histVars, xleft, draws>>

(* The caller of dispatch_events() reads the size of the batch first.      *)
DispSize ==
  /\ Sound /\ dpc = "size" /\ DispatcherTurn /\ apc # "closed"
  /\ list # <<>> \/ mode = "threads"
  /\ nr' = Len(list)
  /\ dpc' = IF list = <<>> THEN Rest ELSE "cap"
  /\ UNCHANGED <<mode, running, dpyLock, progVars, props, xsize, xqueue, list,
                 pending, pollVars, ev, fault, histVars, xleft, draws>>

(* dispatch_events(): the batch is capped once, before its first event.    *)
DispCap ==
  /\ Sound /\ dpc = "cap"
  /\ nr' = IF nr > Len(list) THEN Len(list) ELSE nr
  /\ dpc' = "front"
  /\ UNCHANGED <<mode, running, dpyLock, progVars, props, xsize, xqueue, list,
                 pending, pollVars, ev, fault, histVars, xleft, draws>>

DispBatchEnd ==
  /\ Sound /\ dpc = "front" /\ nr = 0
  /\ dpc' = Rest
  /\ UNCHANGED <<mode, running, dpyLock, progVars, props, xsize, xqueue, list,
                 pending, pollVars, nr, ev, fault, histVars, xleft, draws>>

(* Mutant: the counter is left as it is.                                   *)
DispFrontUncounted ==
  /\ Sound /\ dpc = "front" /\ nr > 0 /\ list # <<>>
  /\ ev' = Head(list) /\ list' = Tail(list) /\ nr' = nr - 1
  /\ dpc' = "lock"
  /\ UNCHANGED <<mode, running, dpyLock, progVars, props, xsize, xqueue, pending,
                 pollVars, fault, histVars, xleft, draws>>

(* Mutant: the event is counted down twice, as pop() would have to.        *)
DispFrontCountedTwice ==
  /\ Sound /\ dpc = "front" /\ nr > 0 /\ list # <<>>
  /\ ev' = Head(list) /\ list' = Tail(list) /\ nr' = nr - 1
  /\ pending' = [pending EXCEPT ![Head(list).type] = @ - 2]
  /\ dpc' = "lock"
  /\ UNCHANGED <<mode, running, dpyLock, progVars, props, xsize, xqueue,
                 pollVars, fault, histVars, xleft, draws>>

(* Mutant: the batch starts one event too long.                            *)
DispFrontPastEnd ==
  /\ Sound /\ dpc = "front"
  /\ IF list = <<>>
     THEN fault' = "empty_front" /\ UNCHANGED <<list, pending, nr, ev, dpc>>
     ELSE /\ ev' = Head(list) /\ list' = Tail(list)
          /\ nr' = IF nr = 0 THEN 0 ELSE nr - 1
          /\ pending' = [pending EXCEPT ![Head(list).type] = @ - 1]
          /\ dpc' = "lock" /\ UNCHANGED fault
  /\ UNCHANGED <<mode, running, dpyLock, progVars, props, xsize, xqueue,
                 pollVars, histVars, xleft, draws>>

(* The front of the list, counted down and removed under the mutex.  A     *)
(* list emptied since the cap has no front: assert(ev).                    *)
DispFront ==
  /\ Sound /\ dpc = "front" /\ nr > 0
  /\ IF list = <<>>
     THEN fault' = "empty_front" /\ UNCHANGED <<list, pending, nr, ev, dpc>>
     ELSE /\ ev' = Head(list) /\ list' = Tail(list) /\ nr' = nr - 1
          /\ pending' = [pending EXCEPT ![Head(list).type] = @ - 1]
          /\ dpc' = "lock" /\ UNCHANGED fault
  /\ UNCHANGED <<mode, running, dpyLock, progVars, props, xsize, xqueue,
                 pollVars, histVars, xleft, draws>>

(* Mutant: dispatch_event() trusts the pointer of the event.               *)
DispLockTrusting ==
  /\ Sound /\ dpc = "lock" /\ dpyLock = "none" /\ ev.win # NoWindow
  /\ dpyLock' = "dispatcher" /\ dpc' = "handle"
  /\ UNCHANGED <<mode, running, progVars, props, xsize, xqueue, list, pending,
                 pollVars, nr, ev, fault, histVars, xleft, draws>>

(* dispatch_event(): no window, or one that left the display's list, gets  *)
(* nothing; the display stays locked while a callback runs.                *)
DispLock ==
  /\ Sound /\ dpc = "lock"
  /\ ev.win = NoWindow \/ dpyLock = "none"
  /\ IF ev.win \in widgets
     THEN dpyLock' = "dispatcher" /\ dpc' = "handle" /\ UNCHANGED ev
     ELSE dpc' = "front" /\ ev' = NoEvent /\ UNCHANGED dpyLock
  /\ UNCHANGED <<mode, running, progVars, props, xsize, xqueue, list, pending,
                 pollVars, nr, fault, histVars, xleft, draws>>

Ignored == ev.type = "resize" /\ pending["resize"] # 0

(* A resize is ignored while another is pending; any callback may ask for  *)
(* a redraw of its window (push_draw_event).                               *)
DispHandle ==
  /\ Sound /\ dpc = "handle"
  /\ \/ UNCHANGED <<list, pending, draws>>
     \/ /\ ~Ignored /\ draws < MaxDraws
        /\ draws' = draws + 1
        /\ Push(<<[NoEvent EXCEPT !.type = "draw", !.win = ev.win, !.gen = gen[ev.win]]>>)
  /\ IF ev.type = "resize" /\ ~Ignored
     THEN props' = [props EXCEPT ![ev.win] = ev.size] /\ resized' = ev.id
     ELSE UNCHANGED <<props, resized>>
  /\ dpyLock' = "none" /\ dpc' = "front" /\ ev' = NoEvent
  /\ UNCHANGED <<mode, running, progVars, xsize, xqueue, pollVars, nr, fault,
                 resizes, stopLost, xleft>>

Dispatcher == DispTop \/ DispWait \/ DispSize \/ DispCap \/ DispBatchEnd
                \/ DispFront \/ DispLock \/ DispHandle

-----------------------------------------------------------------------------
(* The program.                                                            *)

NoDispatcher == mode = "threads" /\ ppc = "start"

(* build_Window() registers the window, then pushes its WidgetCreateEvent. *)
CreateEvent(w) ==
  <<[NoEvent EXCEPT !.type = "create", !.win = w, !.gen = gen[w] + 1]>>

(* window::window(): under the display's lock.  The list is filtered and   *)
(* pushed to through the dispatcher, which a thread may not have made yet. *)
AppCreate(w) ==
  /\ Sound /\ apc = "run" /\ ProgramTurn /\ dpyLock = "none"
  /\ w \notin widgets /\ Made < MaxCreates
  /\ widgets' = widgets \cup {w}
  /\ gen' = [gen EXCEPT ![w] = @ + 1]
  /\ props' = [props EXCEPT ![w] = InitSize]
  /\ xsize' = [xsize EXCEPT ![w] = InitSize]
  /\ IF NoDispatcher
     THEN fault' = "no_dispatcher" /\ UNCHANGED <<list, pending, dpc>>
     ELSE Push(CreateEvent(w)) /\ dpc' = Wake /\ UNCHANGED fault
  /\ UNCHANGED <<mode, running, dpyLock, apc, victim, xqueue, pollVars, nr, ev,
                 histVars, xleft, draws>>

(* Mutant: the program deletes the window without the display's lock.      *)
AppDestroyUnlocked(w) ==
  /\ Sound /\ apc = "run" /\ ProgramTurn
  /\ w \in widgets
  /\ widgets' = widgets \ {w} /\ victim' = w /\ apc' = "destroy"
  /\ UNCHANGED <<mode, running, dpyLock, gen, props, xsize, xqueue, list, pending,
                 pollVars, dispVars, fault, histVars, xleft, draws>>

(* ~window_private_data(), under the display's lock: del_widget() takes    *)
(* the window off the display's list ...                                   *)
AppDestroy(w) ==
  /\ Sound /\ apc = "run" /\ ProgramTurn /\ dpyLock = "none"
  /\ w \in widgets
  /\ dpyLock' = "app"
  /\ widgets' = widgets \ {w} /\ victim' = w /\ apc' = "destroy"
  /\ UNCHANGED <<mode, running, gen, props, xsize, xqueue, list, pending,
                 pollVars, dispVars, fault, histVars, xleft, draws>>

(* ... then its events off the dispatcher's.                               *)
AppRemoveEvents ==
  /\ Sound /\ apc = "destroy"
  /\ list' = RemoveWidgetEvents(victim)
  /\ dpyLock' = "none" /\ apc' = "run" /\ victim' = NoWindow
  /\ UNCHANGED <<mode, running, widgets, gen, props, xsize, xqueue, pending,
                 pollVars, dispVars, fault, histVars, xleft, draws>>

(* close(): in threads mode stop the poller and join it; a display that    *)
(* does not run is left as it is.                                          *)
AppClose ==
  /\ Sound /\ apc = "run" /\ ProgramTurn
  /\ IF mode = "single"
     THEN apc' = "closed" /\ list' = <<>> /\ UNCHANGED running
     ELSE running /\ running' = FALSE /\ apc' = "closing" /\ UNCHANGED list
  /\ UNCHANGED <<mode, dpyLock, victim, widgets, gen, props, xsize, xqueue,
                 pending, pollVars, dispVars, fault, histVars, xleft, draws>>

AppJoin ==
  /\ Sound /\ apc = "closing" /\ ppc = "done"
  /\ apc' = "closed"
  /\ UNCHANGED <<mode, running, dpyLock, victim, widgets, gen, props, xsize,
                 xqueue, list, pending, pollVars, dispVars, fault, histVars, xleft, draws>>

Program == (\E w \in Windows : AppCreate(w) \/ AppDestroy(w))
             \/ AppRemoveEvents \/ AppClose \/ AppJoin

-----------------------------------------------------------------------------

Next == XServer \/ Poller \/ Dispatcher \/ DispSpurious \/ Program

(* The threads are scheduled; the program finishes what it began; nothing  *)
(* is assumed of the server or of what the program begins.                 *)
Fairness ==
  /\ WF_vars(Poller)
  /\ WF_vars(Dispatcher)
  /\ WF_vars(AppRemoveEvents \/ AppJoin)

Spec == Init /\ [][Next]_vars /\ Fairness

-----------------------------------------------------------------------------
(* Properties.                                                             *)

TypeOK ==
  /\ mode \in Modes /\ running \in BOOLEAN
  /\ dpyLock \in {"none", "app", "dispatcher"}
  /\ widgets \subseteq Windows /\ gen \in [Windows -> Nat]
  /\ props \in [Windows -> Sizes] /\ xsize \in [Windows -> Sizes]
  /\ xqueue \in Seq(XEvent) /\ xevs \in Seq(XEvent)
  /\ list \in Seq(Event) /\ vec \in Seq(Event) /\ ev \in Event
  /\ pending \in [EventTypes -> Int]
  /\ ppc \in {"start", "idle", "lookup", "translate", "stop", "join", "done"}
  /\ dpc \in {"top", "enter", "sleep", "size", "cap", "front", "lock", "handle",
               "done"}
  /\ apc \in {"run", "destroy", "closing", "closed"}
  /\ found \in Windows \cup {NoWindow} /\ victim \in Windows \cup {NoWindow}
  /\ nr \in Nat /\ resizes \in Nat /\ resized \in Nat
  /\ fault \in Faults /\ stopLost \in BOOLEAN
  /\ xleft \in Nat /\ draws \in Nat

(* A counter is never below the number of events of its type in the list,  *)
(* and equal to it as long as no window has been destroyed: a resize is    *)
(* never taken for the last one while another waits (event.cpp:304).       *)
PendingCoversList ==
  \A t \in EventTypes :
    /\ pending[t] >= CountOf(t, list)
    /\ ~Removed /\ apc = "run" => pending[t] = CountOf(t, list)

(* While a callback runs, in either threading model, its window is on the  *)
(* display's list and the dispatcher holds the display's lock: the window  *)
(* is neither destroyed nor being destroyed (event.cpp:283-289).           *)
CallbackOnLiveWindow ==
  dpc = "handle" => ev.win \in widgets /\ dpyLock = "dispatcher"

(* With one thread a callback never gets an event made for an earlier      *)
(* window at the same address (event.cpp:175-193).                         *)
CallbackForItsOwnWindow ==
  dpc = "handle" /\ mode = "single" => ev.gen = gen[ev.win]

(* Until a window is destroyed, once no resize is on its way the last one  *)
(* that was pushed has reached on_resize (event.cpp:304-309).              *)
LastResizeHandled ==
  /\ ~Removed /\ apc = "run" /\ fault = "none"
  /\ CountOf("resize", list) = 0 /\ CountOf("resize", vec) = 0
  /\ ~(dpc \in {"lock", "handle"} /\ ev.type = "resize")
  => resized = resizes

(* With one thread, once nothing is on its way every window's _properties  *)
(* hold its size in the server, whichever resizes were ignored.            *)
WindowKnowsItsSize ==
  /\ mode = "single" /\ fault = "none" /\ apc = "run"
  /\ PollerRests /\ DispatcherRests
  /\ xqueue = <<>> /\ list = <<>>
  => \A w \in widgets : props[w] = xsize[w]

(* Undefined behaviour has these causes only: a window created before the  *)
(* dispatcher exists, a window destroyed beside the two threads, and a     *)
(* button event or ReparentNotify that was queued for a window since       *)
(* destroyed.  The last one stops a program of one thread too              *)
(* (x11_event.cpp:190); nothing else does.                                 *)
FaultsHaveACause ==
  /\ fault = "no_dispatcher" => mode = "threads" /\ ~running
  /\ fault = "null_window" => Removed
  /\ fault \in {"empty_front", "stale_window"} => mode = "threads" /\ Removed

(* close() of a display without windows returns, unless stop() came while  *)
(* the dispatcher was about to wait (event.cpp:196-208).                   *)
CloseReturns ==
  (apc = "closing" /\ widgets = {}) ~>
    (apc = "closed" \/ stopLost \/ fault # "none")

(* With one thread what is pushed does not stay in the list.               *)
ListIsEmptied ==
  (mode = "single" /\ list # <<>>) ~> (list = <<>> \/ fault # "none")
=============================================================================
