----------------------------- MODULE EventQueue -----------------------------
(***************************************************************************)
(* event_queue<T> of eedit (core/message_queue.hpp) and the two loops that *)
(* consume it: the core thread's, which drains the queue ("drain",         *)
(* core/core.cpp), and the user interfaces', which take a batch of the     *)
(* size they read first ("batch", ui/ew/main_window.cpp and                *)
(* ui/ncurses/ncurses.cpp).                                                *)
(*                                                                         *)
(* One step is one access to the shared state: push() is acquire, append   *)
(* and notify, release; wait() reads the size without the lock, then takes *)
(* the lock and sleeps without a predicate; get() tests empty() without    *)
(* the lock, then pops under it.  Time is abstract: the timed wait may     *)
(* end at any moment, and it may end without a notification.               *)
(*                                                                         *)
(* size() reads the fields of the deque's two iterators one by one, and a  *)
(* push that fills the last slot of a node changes several of them: an     *)
(* unlocked size() that overlaps such a push may return another number.    *)
(* A consumer that counts on too many messages gets one that is not there, *)
(* and the program stops.  empty() compares one field and is not torn.     *)
(*                                                                         *)
(* A session has two such queues, so this module and EditorSession, which  *)
(* have one module of proofs, share no name.                               *)
(***************************************************************************)
EXTENDS Naturals, Sequences

CONSTANTS
  Producers,    \* the threads that push
  Consumer,     \* the thread that waits and gets: every queue has one
  Nobody,       \* "no thread" as the owner of the mutex
  NoMsg,        \* what get() leaves in its out parameter when it fails
  MaxMsgs,      \* bound: messages one producer pushes
  NodeSize,     \* the slots of a node of the deque
  TornSizes     \* what size() may return while a push fills a node

ASSUME ThreadsAssumption ==
  /\ Consumer \notin Producers
  /\ Nobody \notin Producers \cup {Consumer}

ASSUME BoundsAssumption ==
  MaxMsgs \in Nat /\ NodeSize \in Nat \ {0} /\ TornSizes \subseteq Nat

Msg == Producers \X (1..MaxMsgs)

ASSUME NoMsgAssumption == NoMsg \notin Msg

VARIABLES
  queue,        \* m_queue
  lock,         \* the owner of m_queue_mtx
  ppc,          \* per producer: "idle", "locked" (about to append), "appended"
  count,        \* per producer: messages pushed so far
  policy,       \* which of the two consumer loops runs
  cpc,          \* the consumer's next access, see the actions below
  asleep,       \* the consumer is in the wait set of m_queue_cond_var
  left,         \* the consumer's local nr
  msg,          \* the consumer's local msg: NoMsg for nullptr
  pushed,       \* history: every message appended, in order
  taken,        \* history: every message processed, in order
  torn,         \* history: the size that left counts from was torn
  late          \* history: timeouts the oldest message has waited through,
                \* from the last size of 0 the loop took for an empty queue

pvars == <<ppc, count, pushed>>
hist  == <<taken, torn, late>>
qvars == <<queue, lock, ppc, count, policy, cpc, asleep, left, msg,
           pushed, taken, torn, late>>

QueueInit ==
  /\ queue  = <<>>
  /\ lock   = Nobody
  /\ ppc    = [p \in Producers |-> "idle"]
  /\ count  = [p \in Producers |-> 0]
  /\ policy \in {"drain", "batch"}
  /\ cpc    = "check"
  /\ asleep = FALSE
  /\ left   = 0
  /\ msg    = NoMsg
  /\ pushed = <<>>
  /\ taken  = <<>>
  /\ torn   = FALSE
  /\ late   = 0

-----------------------------------------------------------------------------
(* push(): a producer's side.                                              *)

PushLock(p) ==
  /\ ppc[p] = "idle" /\ count[p] < MaxMsgs
  /\ lock = Nobody
  /\ lock' = p
  /\ ppc' = [ppc EXCEPT ![p] = "locked"]
  /\ UNCHANGED <<queue, count, policy, cpc, asleep, left, msg, pushed, hist>>

PushAppend(p) ==
  /\ ppc[p] = "locked"
  /\ ppc' = [ppc EXCEPT ![p] = "appended"]
  /\ count' = [count EXCEPT ![p] = @ + 1]
  /\ queue' = Append(queue, <<p, count[p] + 1>>)
  /\ pushed' = Append(pushed, <<p, count[p] + 1>>)
  /\ UNCHANGED <<lock, policy, cpc, asleep, left, msg, hist>>

(* notify_one() reaches the consumer only if it already sleeps; the guard  *)
(* then goes out of scope.                                                 *)
PushNotify(p) ==
  /\ ppc[p] = "appended"
  /\ ppc' = [ppc EXCEPT ![p] = "idle"]
  /\ asleep' = FALSE
  /\ lock' = Nobody
  /\ UNCHANGED <<queue, count, policy, cpc, left, msg, pushed, hist>>

-----------------------------------------------------------------------------
(* The consumer's side.                                                    *)

(* What an unlocked size() returns.  A push fills a node when its number   *)
(* is a multiple of NodeSize, however many were popped in between; a       *)
(* reading that goes on beyond the append stands at its beginning.         *)
FillsNode == (Len(pushed) + 1) % NodeSize = 0

Sizes ==
  {Len(queue)} \cup
  IF FillsNode /\ \E p \in Producers : ppc[p] = "locked" THEN TornSizes ELSE {}

(* wait(): the size test before the lock.                                  *)
WaitCheck ==
  /\ cpc = "check"
  /\ \E n \in Sizes : cpc' = IF n # 0 THEN "count" ELSE "enter"
  /\ UNCHANGED <<queue, lock, pvars, policy, asleep, left, msg, hist>>

(* wait(): take the lock; wait_until() releases it and sleeps atomically.  *)
WaitSleep ==
  /\ cpc = "enter"
  /\ lock = Nobody
  /\ cpc' = "sleep"
  /\ asleep' = TRUE
  /\ UNCHANGED <<queue, lock, pvars, policy, left, msg, hist>>

(* Mutant: after a timeout the consumer goes back to sleep.                *)
WaitTimeoutSleepsAgain ==
  /\ cpc = "sleep" /\ asleep
  /\ late' = IF queue = <<>> THEN late ELSE late + 1
  /\ UNCHANGED <<queue, lock, pvars, policy, cpc, asleep, left, msg>>
  /\ UNCHANGED <<taken, torn>>

(* Mutant: wait() instead of wait_until().                                 *)
WaitWithoutTimeout == FALSE

(* wait_until() gives up.                                                  *)
WaitTimeout ==
  /\ cpc = "sleep" /\ asleep
  /\ asleep' = FALSE
  /\ late' = IF queue = <<>> THEN late ELSE late + 1
  /\ UNCHANGED <<queue, lock, pvars, policy, cpc, left, msg, taken, torn>>

(* A notified or timed out consumer re-acquires the lock, reads a size     *)
(* nobody uses, and returns.                                               *)
WaitReturn ==
  /\ cpc = "sleep" /\ ~asleep
  /\ lock = Nobody
  /\ cpc' = "count"
  /\ UNCHANGED <<queue, lock, pvars, policy, asleep, left, msg, hist>>

(* nr = size() in the loop of the consumer, without the lock.              *)
CountSize ==
  /\ cpc = "count"
  /\ left' \in Sizes
  /\ torn' = (left' # Len(queue))
  /\ cpc' = IF left' = 0 THEN "check" ELSE "peek"
  /\ late' = IF left' = 0 THEN 0 ELSE late
  /\ UNCHANGED <<queue, lock, pvars, policy, asleep, msg, taken>>

(* get(): the emptiness test before the lock.                              *)
GetPeek ==
  /\ cpc = "peek"
  /\ queue # <<>>
  /\ cpc' = "pop"
  /\ UNCHANGED <<queue, lock, pvars, policy, asleep, left, msg, hist>>

(* get() returns FALSE and leaves msg alone: the core asserts msg; a user  *)
(* interface dereferences nullptr, or the event it has already deleted.    *)
GetFails ==
  /\ cpc = "peek"
  /\ queue = <<>>
  /\ cpc' = "stopped"
  /\ UNCHANGED <<queue, lock, pvars, policy, asleep, left, msg, hist>>

(* get(): front and pop under the lock.                                    *)
GetPop ==
  /\ cpc = "pop"
  /\ lock = Nobody
  /\ queue # <<>>
  /\ msg' = Head(queue)
  /\ queue' = Tail(queue)
  /\ late' = 0
  /\ cpc' = "handle"
  /\ UNCHANGED <<lock, pvars, policy, asleep, left, taken, torn>>

(* Mutant: do { get } while (nr--), one get() more than the batch has.     *)
HandleOneMore ==
  /\ cpc = "handle"
  /\ taken' = Append(taken, msg)
  /\ IF policy = "batch"
     THEN left' = left - 1 /\ UNCHANGED torn
     ELSE left' \in Sizes /\ torn' = (left' # Len(queue))
  /\ cpc' = IF left = 0 THEN "check" ELSE "peek"
  /\ msg' = IF policy = "batch" /\ left # 0 THEN msg ELSE NoMsg
  /\ UNCHANGED <<queue, lock, pvars, policy, asleep, late>>

(* The message is processed and deleted; a batch counts down and keeps its *)
(* pointer, a drain reads the size again and starts from nullptr.          *)
Handle ==
  /\ cpc = "handle"
  /\ taken' = Append(taken, msg)
  /\ IF policy = "batch"
     THEN left' = left - 1 /\ UNCHANGED torn
     ELSE left' \in Sizes /\ torn' = (left' # Len(queue))
  /\ cpc' = IF left' = 0 THEN "check" ELSE "peek"
  /\ msg' = IF policy = "batch" /\ left' # 0 THEN msg ELSE NoMsg
  /\ UNCHANGED <<queue, lock, pvars, policy, asleep, late>>

Wait == WaitCheck \/ WaitSleep \/ WaitTimeout \/ WaitReturn
Get  == GetPeek \/ GetFails \/ GetPop

(* A stopped consumer is a stopped program.                                *)
Stopped == cpc = "stopped" /\ UNCHANGED qvars

QueueNext ==
  \/ /\ cpc # "stopped"
     /\ \E p \in Producers : PushLock(p) \/ PushAppend(p) \/ PushNotify(p)
  \/ WaitCheck \/ WaitSleep \/ WaitTimeout \/ WaitReturn
  \/ CountSize \/ GetPeek \/ GetFails \/ GetPop \/ Handle
  \/ Stopped

(* The consumer thread is scheduled again and again, its timed wait ends,  *)
(* and a producer that holds the mutex gets to release it.  A producer     *)
(* need not start a push.                                                  *)
QueueFairness ==
  /\ WF_qvars(Wait \/ Get \/ CountSize \/ Handle)
  /\ \A p \in Producers :
       WF_qvars(cpc # "stopped" /\ (PushAppend(p) \/ PushNotify(p)))

QueueSpec == QueueInit /\ [][QueueNext]_qvars /\ QueueFairness

-----------------------------------------------------------------------------

QueueTypeOK ==
  /\ queue \in Seq(Msg)
  /\ lock \in Producers \cup {Nobody}
  /\ ppc \in [Producers -> {"idle", "locked", "appended"}]
  /\ count \in [Producers -> 0..MaxMsgs]
  /\ policy \in {"drain", "batch"}
  /\ cpc \in {"check", "enter", "sleep", "count", "peek", "pop", "handle",
              "stopped"}
  /\ asleep \in BOOLEAN
  /\ left \in Nat
  /\ msg \in Msg \cup {NoMsg}
  /\ pushed \in Seq(Msg)
  /\ taken \in Seq(Msg)
  /\ torn \in BOOLEAN
  /\ late \in Nat

(* A get() of the loop finds a message, although size and emptiness are    *)
(* read outside the lock and the batch size is as old as the batch         *)
(* (assert(msg) in core::main; the user interfaces use msg without looking *)
(* at get()'s result), unless the loop counts on a torn size, and that     *)
(* takes a push that fills a node: none of the first NodeSize - 1 does it. *)
EveryGetDelivers ==
  /\ cpc = "stopped" => torn /\ Len(pushed) >= NodeSize - 1
  /\ cpc = "pop" => queue # <<>>

(* A push that falls between the unlocked size test of wait() and its      *)
(* sleep is not notified, but the timeout makes up for it, and once only:  *)
(* no message sits in the queue through two timeouts, unless the loop has  *)
(* read a torn 0 between them.                                             *)
AtMostOneTimeout == late <= 1

(* The queue and its consumer loop implement the channel: what was sent is *)
(* what was appended, what was received is what was processed.             *)
Channel == INSTANCE MessageChannel WITH sent <- pushed, received <- taken

channel == <<pushed, taken>>

(* Every message is processed exactly once, in the order of the pushes,    *)
(* and in the end, unless the program stops.                               *)
ImplementsChannel ==
  /\ Channel!SafeSpec
  /\ WF_channel(Channel!Receive) \/ <>(cpc = "stopped")

=============================================================================
