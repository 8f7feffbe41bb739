---------------------------- MODULE EditorSession ----------------------------
(***************************************************************************)
(* One run of eedit: the core thread (core/core.cpp,                       *)
(* core/event/process_event.cpp, core/rpc/rpc.cpp) and the thread of the   *)
(* user interface the user chose - "ew" (ui/ew), "ncurses" (ui/ncurses) or *)
(* "debug" (ui/debug) - as application::run starts and joins them.  They   *)
(* talk through two event queues, one into the core and one into the user  *)
(* interface; each is the FIFO channel that EventQueue implements as long  *)
(* as no torn size stops the program, so a push and a get are one step     *)
(* each here.                                                              *)
(*                                                                         *)
(* The session starts with the handshake (the user interface asks for the  *)
(* list of buffers, then for a first layout) and ends with the quit        *)
(* protocol (a quit event or the quit-editor command, the core's answer,   *)
(* the end of both loops, the join).                                       *)
(***************************************************************************)
EXTENDS Naturals, Sequences

CONSTANTS
  Uis,          \* the user interfaces to start with
  MaxInputs     \* bound: keys, clicks, resizes and clicks on close

ASSUME UisAssumption == Uis \subseteq {"ew", "ncurses", "debug"}
ASSUME MaxInputsAssumption == MaxInputs \in Nat

VARIABLES
  ui,           \* which user interface runs
  hasFile,      \* a file was given, so the buffer list is not empty
  corePc,       \* where the core thread is, see the core's actions
  running,      \* core_ctx.core_running
  coreQ,        \* core_ctx.m_msg_queue
  cur,          \* the event core::main processes
  uiPc,         \* where the user interface's thread is
  ret,          \* where that thread goes on after its push_event
  out,          \* the event it is pushing
  uiQ,          \* the user interface's m_event_queue
  uiQAlive,     \* that queue has not been deleted
  nr,           \* nr of the user interface's loop
  asked,        \* the buffer list has been requested (view_state, ui_state)
  ebid,         \* a buffer is selected (m_have_buffer_id, m_cur_ebid)
  shown,        \* a screen has been shown (m_screen of the text view)
  room,         \* the view has a width and a height: a terminal always has, a
                \* text view may not, see WidgetTree
  quitting,     \* m_quit of ncurses, the negation of loop of the main window
  inputs,       \* user inputs so far
  fault         \* "none", or what stopped the program

coreVars == <<corePc, running, cur>>
uiVars   == <<uiPc, ret, out, nr, asked, ebid, shown, room, quitting, inputs>>
cfgVars  == <<ui, hasFile>>
vars     == <<cfgVars, coreVars, coreQ, uiVars, uiQ, uiQAlive, fault>>

(* Events to the core.  withBuffer: editor_buffer_id is not 0.  sized: no  *)
(* field of screen_dim is 0.  reply: src.queue is not null.  stale is a    *)
(* history variable: the event was accepted when the core had stopped      *)
(* running.                                                                *)
CoreEvent == [type : {"rpc", "layout", "key", "click", "quit"},
              withBuffer : BOOLEAN, sized : BOOLEAN, reply : BOOLEAN,
              stale : BOOLEAN]

ToCore(type, withBuffer, sized, reply) ==
  [type |-> type, withBuffer |-> withBuffer, sized |-> sized, reply |-> reply,
   stale |-> FALSE]

NoEvent == [type |-> "none"]

(* Events to the user interface: the answer to get_buffer_id_list with or  *)
(* without a buffer, a new screen, the answer to quit.                     *)
UiEvent == {"buffers", "nobuffer", "screen", "quit"}

Init ==
  /\ ui \in Uis
  /\ hasFile \in BOOLEAN
  /\ corePc = "unstarted" /\ running = TRUE /\ coreQ = <<>> /\ cur = NoEvent
  /\ uiPc = "start" /\ ret = "start" /\ out = NoEvent
  /\ uiQ = <<>> /\ uiQAlive = TRUE /\ nr = 0
  /\ asked = FALSE /\ ebid = FALSE /\ shown = FALSE /\ room = TRUE
  /\ quitting = FALSE
  /\ inputs = 0 /\ fault = "none"

-----------------------------------------------------------------------------
(* The core thread.                                                        *)

CoreStart ==
  /\ fault = "none" /\ corePc = "unstarted"
  /\ corePc' = "wait"
  /\ running' = TRUE
  /\ UNCHANGED <<cfgVars, coreQ, cur, uiVars, uiQ, uiQAlive, fault>>

(* get() of the next event, on entry to the inner loop and inside it: only *)
(* the outer loop looks at core_running.                                   *)
CoreGet ==
  /\ fault = "none" /\ coreQ # <<>>
  /\ \/ corePc = "wait" /\ running
     \/ corePc = "next"
  /\ cur' = Head(coreQ)
  /\ coreQ' = Tail(coreQ)
  /\ corePc' = "process"
  /\ UNCHANGED <<cfgVars, running, uiVars, uiQ, uiQAlive, fault>>

(* send_event_to_ui and send_rpc_answer: a push into the queue the event   *)
(* came from, if there is one.  The queue may be gone.                     *)
SendToUi(e) ==
  IF ~cur.reply      THEN UNCHANGED <<uiQ, fault>>
  ELSE IF ~uiQAlive  THEN fault' = "use_after_delete" /\ UNCHANGED uiQ
                     ELSE uiQ' = Append(uiQ, e) /\ UNCHANGED fault

(* process_event of everything but a quit: one push at most.               *)
ProcessRpc ==
  /\ fault = "none" /\ corePc = "process" /\ cur.type = "rpc"
  /\ SendToUi(IF hasFile THEN "buffers" ELSE "nobuffer")
  /\ corePc' = "next"
  /\ UNCHANGED <<cfgVars, running, coreQ, cur, uiVars, uiQAlive>>

(* The request sets the view's need-refresh flag, notify_buffer_changes    *)
(* sends the new screen.                                                   *)
ProcessLayout ==
  /\ fault = "none" /\ corePc = "process" /\ cur.type = "layout"
  /\ SendToUi("screen")
  /\ corePc' = "next"
  /\ UNCHANGED <<cfgVars, running, coreQ, cur, uiVars, uiQAlive>>

(* A key or a button runs a command that changes the view, or none.        *)
ProcessInput ==
  /\ fault = "none" /\ corePc = "process" /\ cur.type \in {"key", "click"}
  /\ \/ SendToUi("screen")
     \/ UNCHANGED <<uiQ, fault>>
  /\ corePc' = "next"
  /\ UNCHANGED <<cfgVars, running, coreQ, cur, uiVars, uiQAlive>>

(* Mutant: the core stops without telling the user interface.              *)
QuitSilently ==
  /\ fault = "none" /\ corePc = "process" /\ cur.type \in {"quit", "key"}
  /\ corePc' = "stop"
  /\ UNCHANGED <<cfgVars, running, coreQ, cur, uiVars, uiQ, uiQAlive, fault>>

(* process_application_event, for a quit event or the quit-editor command, *)
(* which no button is bound to: the answer first, core_running afterwards. *)
QuitAnswer ==
  /\ fault = "none" /\ corePc = "process" /\ cur.type \in {"quit", "key"}
  /\ SendToUi("quit")
  /\ corePc' = "stop"
  /\ UNCHANGED <<cfgVars, running, coreQ, cur, uiVars, uiQAlive>>

QuitStop ==
  /\ fault = "none" /\ corePc = "stop"
  /\ running' = FALSE
  /\ corePc' = "next"
  /\ UNCHANGED <<cfgVars, coreQ, cur, uiVars, uiQ, uiQAlive, fault>>

(* Mutant: the inner loop stops with the outer one.                        *)
CoreIdleWhenStopped ==
  /\ fault = "none" /\ corePc = "next" /\ (coreQ = <<>> \/ ~running)
  /\ corePc' = "wait"
  /\ UNCHANGED <<cfgVars, running, cur, coreQ, uiVars, uiQ, uiQAlive, fault>>

(* The inner loop found the queue empty.                                   *)
CoreIdle ==
  /\ fault = "none" /\ corePc = "next" /\ coreQ = <<>>
  /\ corePc' = "wait"
  /\ UNCHANGED <<cfgVars, running, cur, coreQ, uiVars, uiQ, uiQAlive, fault>>

(* The outer loop ends; what is left in the queue is dropped.              *)
CoreLeave ==
  /\ fault = "none" /\ corePc = "wait" /\ ~running
  /\ corePc' = "drain"
  /\ UNCHANGED <<cfgVars, running, cur, coreQ, uiVars, uiQ, uiQAlive, fault>>

CoreDrop ==
  /\ fault = "none" /\ corePc = "drain" /\ coreQ # <<>>
  /\ coreQ' = Tail(coreQ)
  /\ UNCHANGED <<cfgVars, coreVars, uiVars, uiQ, uiQAlive, fault>>

CoreExit ==
  /\ fault = "none" /\ corePc = "drain" /\ coreQ = <<>>
  /\ corePc' = "exited"
  /\ UNCHANGED <<cfgVars, running, cur, coreQ, uiVars, uiQ, uiQAlive, fault>>

-----------------------------------------------------------------------------
(* push_event, called by the user interface's thread: core_running is      *)
(* tested without a lock, the event is checked, and pushed.  A test that   *)
(* sees core_running cleared late is a test made earlier: the step between *)
(* the two lets the core clear it.                                         *)

Pushing(e, then) ==
  /\ out' = e /\ uiPc' = "test" /\ ret' = then

(* check_input_msg asserts a buffer and a screen with a size; view_id is   *)
(* the text view's or the terminal's address and never 0.  process_event   *)
(* asserts the same of the same event.                                     *)
Checked(e) == e.type \in {"key", "click", "layout"} => e.withBuffer /\ e.sized

PushTest ==
  /\ fault = "none" /\ uiPc = "test"
  /\ \/ ~running /\ uiPc' = ret /\ UNCHANGED fault
     \/ running /\ Checked(out) /\ uiPc' = "push" /\ UNCHANGED fault
     \/ running /\ ~Checked(out) /\ fault' = "assert" /\ UNCHANGED uiPc
  /\ UNCHANGED <<cfgVars, coreVars, coreQ, ret, out, nr, asked, ebid, shown, room,
                 quitting, inputs, uiQ, uiQAlive>>

PushDo ==
  /\ fault = "none" /\ uiPc = "push"
  /\ coreQ' = Append(coreQ, [out EXCEPT !.stale = ~running])
  /\ uiPc' = ret
  /\ UNCHANGED <<cfgVars, coreVars, ret, out, nr, asked, ebid, shown, room,
                 quitting, inputs, uiQ, uiQAlive, fault>>

-----------------------------------------------------------------------------
(* The user interface's thread.                                            *)

(* ncurses asks for the buffer list before its loop; debug sends a quit    *)
(* without a queue for the answer and returns; ew enters its loop.         *)
UiStart ==
  /\ fault = "none" /\ uiPc = "start"
  /\ \/ ui = "ncurses" /\ asked' = TRUE
        /\ Pushing(ToCore("rpc", FALSE, room, TRUE), "loop")
     \/ ui = "debug" /\ UNCHANGED asked
        /\ Pushing(ToCore("quit", FALSE, FALSE, FALSE), "left")
     \/ ui = "ew" /\ uiPc' = "loop" /\ UNCHANGED <<out, ret, asked>>
  /\ UNCHANGED <<cfgVars, coreVars, coreQ, nr, ebid, shown, room, quitting, inputs,
                 uiQ, uiQAlive, fault>>

(* The timed wait, then nr = size().  The ew loop tests its flag here.     *)
UiWait ==
  /\ fault = "none" /\ uiPc = "loop"
  /\ ~quitting
  /\ nr' = Len(uiQ)
  /\ uiPc' = "batch"
  /\ UNCHANGED <<cfgVars, coreVars, coreQ, ret, out, asked, ebid, shown, room,
                 quitting, inputs, uiQ, uiQAlive, fault>>

(* Mutant: the buffer is selected and no layout is asked for.              *)
UiEventNoLayout ==
  /\ fault = "none" /\ uiPc = "batch" /\ nr > 0
  /\ nr' = nr - 1
  /\ uiQ' = Tail(uiQ)
  /\ ebid' = (ebid \/ Head(uiQ) = "buffers")
  /\ quitting' = (quitting \/ Head(uiQ) = "quit")
  /\ shown' = (shown \/ Head(uiQ) = "screen")
  /\ UNCHANGED <<cfgVars, coreVars, coreQ, uiPc, ret, out, asked, room, inputs,
                 uiQAlive, fault>>

(* process_editor_ui_event for one event of the batch.  The first answer   *)
(* with a buffer selects it and asks for a layout; a screen is shown.      *)
UiEventStep ==
  /\ fault = "none" /\ uiPc = "batch" /\ nr > 0
  /\ nr' = nr - 1
  /\ uiQ' = Tail(uiQ)
  /\ IF Head(uiQ) = "buffers" /\ ~ebid
     THEN ebid' = TRUE /\ Pushing(ToCore("layout", TRUE, room, TRUE), "batch")
     ELSE UNCHANGED <<ebid, out, uiPc, ret>>
  /\ quitting' = (quitting \/ Head(uiQ) = "quit")
  /\ shown' = (shown \/ Head(uiQ) = "screen")
  /\ UNCHANGED <<cfgVars, coreVars, coreQ, asked, room, inputs, uiQAlive, fault>>

(* The end of the batch: ncurses leaves its loop at once when it quits, ew *)
(* dispatches its widgets' events first.                                   *)
UiBatchEnd ==
  /\ fault = "none" /\ uiPc = "batch" /\ nr = 0
  /\ uiPc' = IF ui = "ncurses" /\ quitting THEN "left" ELSE "input"
  /\ UNCHANGED <<cfgVars, coreVars, coreQ, ret, out, nr, asked, ebid, shown, room,
                 quitting, inputs, uiQ, uiQAlive, fault>>

(* No input: wgetch times out, or the dispatcher's queue is empty.         *)
NoInput ==
  /\ fault = "none" /\ uiPc = "input"
  /\ uiPc' = "loop"
  /\ UNCHANGED <<cfgVars, coreVars, coreQ, ret, out, nr, asked, ebid, shown, room,
                 quitting, inputs, uiQ, uiQAlive, fault>>

Input == fault = "none" /\ uiPc = "input" /\ inputs < MaxInputs
         /\ inputs' = inputs + 1
         /\ UNCHANGED <<cfgVars, coreVars, coreQ, nr, asked, ebid, shown, quitting,
                        uiQ, uiQAlive, fault>>

(* A key: ncurses pushes it with the buffer it has, or with none.          *)
NcursesKey ==
  /\ ui = "ncurses" /\ Input
  /\ Pushing(ToCore("key", ebid, room, TRUE), "loop")
  /\ UNCHANGED room

(* A key: text_view ignores it until it has a buffer.                      *)
EwKey ==
  /\ ui = "ew" /\ ebid /\ Input
  /\ Pushing(ToCore("key", ebid, room, TRUE), "input")
  /\ UNCHANGED room

(* A button pressed or released, or the wheel, which the scroll bar passes *)
(* on: text_view pushes it with the buffer it has, or with none.           *)
EwClick ==
  /\ ui = "ew" /\ asked /\ Input
  /\ Pushing(ToCore("click", ebid, room, TRUE), "input")
  /\ UNCHANGED room

(* The window's first event: text_view::on_create asks for the buffers.    *)
EwCreate ==
  /\ fault = "none" /\ uiPc = "input" /\ ui = "ew" /\ ~asked
  /\ asked' = TRUE
  /\ Pushing(ToCore("rpc", FALSE, room, TRUE), "input")
  /\ UNCHANGED <<cfgVars, coreVars, coreQ, nr, ebid, shown, room, quitting, inputs,
                 uiQ, uiQAlive, fault>>

(* A resize may leave the text view no width, beside the line numbers and  *)
(* the scroll bar; it asks for a layout, once there is a buffer.           *)
EwResize ==
  /\ ui = "ew" /\ asked /\ Input
  /\ room' \in BOOLEAN
  /\ IF ebid THEN Pushing(ToCore("layout", TRUE, room', TRUE), "input")
             ELSE UNCHANGED <<out, uiPc, ret>>

EwClose ==
  /\ ui = "ew" /\ asked /\ Input
  /\ Pushing(ToCore("quit", FALSE, FALSE, TRUE), "input")
  /\ UNCHANGED room

(* Mutant: closing the window ends the loop without the core's answer.     *)
EwLeaveEarly ==
  /\ fault = "none" /\ ui = "ew" /\ uiPc = "loop"
  /\ quitting \/ out.type = "quit"
  /\ uiQAlive' = FALSE
  /\ uiQ' = <<>>
  /\ uiPc' = "left"
  /\ UNCHANGED <<cfgVars, coreVars, coreQ, ret, out, nr, asked, ebid, shown, room,
                 quitting, inputs, fault>>

(* The ew loop ends: the window is deleted, and its queue with it.         *)
EwLeave ==
  /\ fault = "none" /\ ui = "ew" /\ uiPc = "loop" /\ quitting
  /\ uiQAlive' = FALSE
  /\ uiQ' = <<>>
  /\ uiPc' = "left"
  /\ UNCHANGED <<cfgVars, coreVars, coreQ, ret, out, nr, asked, ebid, shown, room,
                 quitting, inputs, fault>>

(* application::run joins the core thread.                                 *)
Join ==
  /\ fault = "none" /\ uiPc = "left" /\ corePc = "exited"
  /\ uiPc' = "joined"
  /\ UNCHANGED <<cfgVars, coreVars, coreQ, ret, out, nr, asked, ebid, shown, room,
                 quitting, inputs, uiQ, uiQAlive, fault>>

(* The program has ended, well or not.                                     *)
Ended ==
  /\ uiPc = "joined" \/ fault # "none"
  /\ UNCHANGED vars

-----------------------------------------------------------------------------

Core == \/ CoreStart \/ CoreGet \/ ProcessRpc \/ ProcessLayout \/ ProcessInput
        \/ QuitAnswer \/ QuitStop \/ CoreIdle \/ CoreLeave \/ CoreDrop \/ CoreExit

UiLoop == \/ UiStart \/ PushTest \/ PushDo \/ UiWait \/ UiEventStep
          \/ UiBatchEnd \/ NoInput \/ EwCreate \/ EwLeave \/ Join

UserInput == NcursesKey \/ EwKey \/ EwClick \/ EwResize \/ EwClose

Next == Core \/ UiLoop \/ UserInput \/ Ended

(* Both threads are scheduled.  The user need not do anything.             *)
Fairness == WF_vars(Core) /\ WF_vars(UiLoop)

Spec == Init /\ [][Next]_vars /\ Fairness

-----------------------------------------------------------------------------

TypeOK ==
  /\ ui \in Uis /\ hasFile \in BOOLEAN
  /\ corePc \in {"unstarted", "wait", "process", "stop", "next", "drain", "exited"}
  /\ running \in BOOLEAN
  /\ coreQ \in Seq(CoreEvent)
  /\ cur \in CoreEvent \cup {NoEvent}
  /\ uiPc \in {"start", "test", "push", "loop", "batch", "input", "left", "joined"}
  /\ ret \in {"start", "loop", "batch", "input", "left"}
  /\ out \in CoreEvent \cup {NoEvent}
  /\ uiQ \in Seq(UiEvent) /\ uiQAlive \in BOOLEAN
  /\ nr \in 0..Len(uiQ)
  /\ asked \in BOOLEAN /\ ebid \in BOOLEAN /\ shown \in BOOLEAN
  /\ room \in BOOLEAN /\ quitting \in BOOLEAN
  /\ inputs \in 0..MaxInputs
  /\ fault \in {"none", "assert", "use_after_delete"}

(* The drain at the end of core::main throws away no event a user          *)
(* interface had handed over in time: what it finds was pushed after       *)
(* core_running was cleared, by a thread that had read it before.          *)
OnlyLateEventsDropped ==
  corePc \in {"drain", "exited"} =>
    \A i \in 1..Len(coreQ) : coreQ[i].stale

(* The session goes wrong in few ways.  check_input_msg stops it for an    *)
(* input without a buffer, a key of ncurses or a click in the ew window    *)
(* before the core had named one: the ew text view holds back its keys and *)
(* layouts, and no other event comes too early.  It stops it for what a    *)
(* text view without a width sends.  The core writes to a deleted queue    *)
(* when the ew window went away because the core had answered a quit, and  *)
(* the core still worked on events queued behind that quit: what it        *)
(* processed before always finds a queue.                                  *)
FaultsHaveACause ==
  /\ fault = "assert" =>
       \/ ~ebid /\ <<ui, out.type>> \in {<<"ncurses", "key">>, <<"ew", "click">>}
       \/ ~room /\ ui = "ew" /\ ebid
  /\ fault = "use_after_delete" => ui = "ew" /\ quitting /\ ~running

(* A request to quit, from the window, the debug interface or a key, ends  *)
(* the session, wherever either thread is: nobody waits in the join for a  *)
(* core that was never told, or in its loop for an answer that never came. *)
QuitEnds ==
  (uiPc = "test" /\ out.type = "quit") \/ corePc = "stop"
    ~> (uiPc = "joined" \/ fault # "none")

(* The start-up handshake gets through: whoever asks for the buffers of a  *)
(* session with a file is shown a screen, unless the session ends before.  *)
HandshakeShowsScreen ==
  asked /\ hasFile ~> shown \/ ~running \/ fault # "none"

-----------------------------------------------------------------------------
(* What the source says and the code does not keep.                        *)

(* core.cpp:449, assert(msg->editor_buffer_id): no key reaches the core    *)
(* without a buffer.                                                       *)
NoAssertFails == fault # "assert"
=============================================================================
