------------------------- MODULE EditorSessionProofs -------------------------
(***************************************************************************)
(* Proofs about event_queue and its consumer loops, for any number of      *)
(* producers and messages, any size of the deque's nodes and whatever a    *)
(* torn size() returns; and about a session that talks through two such    *)
(* queues, for any number of inputs and each of the user interfaces.       *)
(*                                                                         *)
(* The queue: the mutex is held exactly by the producer that is between    *)
(* PushLock and PushNotify (LockInv); what was appended is what was        *)
(* processed, then the message in hand, then the queue (FifoInv); a get()  *)
(* is only started when the queue holds as many messages as the loop       *)
(* still counts on, because nobody else removes any, or when the loop      *)
(* counts on a torn size (GetInv); a message that waited through a timeout *)
(* finds the consumer on its way to it (OldestInv).                        *)
(*                                                                         *)
(* The session: the user interface knows of a quit only from the core's    *)
(* answer, and the core sends it in the step before it clears              *)
(* core_running (QuitInv); the ew window, and its queue, go away only on a *)
(* quit.  Once core_running is cleared what is pushed is late, and the     *)
(* core leaves its inner loop on an empty queue only (LateInv).  What is   *)
(* pushed carries the buffer the interface has at that moment (PushInv).   *)
(***************************************************************************)
EXTENDS EditorSession, EventQueue, SequenceTheorems, TLAPS

-----------------------------------------------------------------------------
(* The queue.                                                              *)

LockInv ==
  \A p \in Producers :
    /\ lock = p <=> ppc[p] \in {"locked", "appended"}
    /\ ppc[p] = "locked" => count[p] < MaxMsgs

InHand == IF cpc = "handle" THEN <<msg>> ELSE <<>>

FifoInv == pushed = (taken \o InHand) \o queue

GetInv ==
  /\ cpc \in {"peek", "pop"} =>
       /\ left > 0
       /\ torn \/ (queue # <<>> /\ (policy = "batch" => left <= Len(queue)))
  /\ cpc = "pop" => queue # <<>>
  /\ cpc = "handle" =>
       /\ msg # NoMsg /\ left > 0
       /\ torn \/ (policy = "batch" => left <= Len(queue) + 1)
  /\ cpc = "stopped" => torn

(* A torn size needs a push that fills a node.                             *)
TornInv == torn => Len(pushed) >= NodeSize - 1

OldestInv ==
  /\ asleep => cpc = "sleep" /\ late = 0
  /\ late > 0 =>
       /\ late = 1 /\ queue # <<>>
       /\ cpc \in {"sleep", "count", "peek", "pop"}

QueueInv == QueueTypeOK /\ LockInv /\ FifoInv /\ GetInv /\ TornInv /\ OldestInv

-----------------------------------------------------------------------------

(* Moving a message from the end of one sequence to the next one over.     *)
LEMMA AppendConcat ==
  ASSUME NEW S, NEW s \in Seq(S), NEW t \in Seq(S), NEW m \in S
  PROVE  s \o Append(t, m) = Append(s \o t, m)
<1>1. s \o Append(t, m) \in Seq(S) /\ Append(s \o t, m) \in Seq(S)
  BY ConcatProperties
<1> QED
  BY <1>1, SeqEqual, ConcatProperties, AppendProperties

LEMMA HeadConcat ==
  ASSUME NEW S, NEW s \in Seq(S), NEW t \in Seq(S), t # <<>>
  PROVE  (s \o <<Head(t)>>) \o Tail(t) = s \o t
<1>1. <<Head(t)>> \o Tail(t) = t
  BY HeadTailProperties
<1> QED
  BY <1>1, ConcatAssociative, HeadTailProperties

(* A size that is not the queue's was read while a push filled a node.     *)
LEMMA SizesLemma ==
  ASSUME QueueInv, NEW n \in Sizes
  PROVE  n \in Nat /\ (n # Len(queue) => Len(pushed) >= NodeSize - 1)
<1>1. Len(queue) \in Nat /\ Len(pushed) \in Nat
  BY DEF QueueInv, QueueTypeOK
<1>2. n \in Nat
  BY <1>1, BoundsAssumption DEF Sizes
<1>3. ASSUME FillsNode PROVE Len(pushed) >= NodeSize - 1
  <2> DEFINE k == Len(pushed) + 1
  <2>1. k \in Nat /\ k > 0 /\ NodeSize \in Nat /\ NodeSize > 0
    BY <1>1, BoundsAssumption
  <2>2. k % NodeSize = 0
    BY <1>3 DEF FillsNode
  <2> HIDE DEF k
  <2>3. ~(k < NodeSize)
    BY <2>1, <2>2
  <2> QED
    BY <1>1, <2>1, <2>3 DEF k
<1> QED
  BY <1>2, <1>3 DEF Sizes

(* The message in hand is one.                                             *)
LEMMA HeldLemma ==
  ASSUME QueueInv
  PROVE  InHand \in Seq(Msg) /\ taken \o InHand \in Seq(Msg)
<1>1. InHand \in Seq(Msg)
  BY DEF QueueInv, QueueTypeOK, GetInv, InHand
<1> QED
  BY <1>1, ConcatProperties DEF QueueInv, QueueTypeOK

LEMMA QueueInitInv == QueueInit => QueueInv
<1> SUFFICES ASSUME QueueInit PROVE QueueInv
  OBVIOUS
<1> USE DEF QueueInit
<1>1. QueueTypeOK
  <2>1. queue \in Seq(Msg) /\ pushed \in Seq(Msg) /\ taken \in Seq(Msg)
    OBVIOUS
  <2>2. count \in [Producers -> 0..MaxMsgs]
    BY BoundsAssumption
  <2>3. ppc \in [Producers -> {"idle", "locked", "appended"}]
    OBVIOUS
  <2>4. asleep \in BOOLEAN /\ torn \in BOOLEAN
    OBVIOUS
  <2> QED
    BY <2>1, <2>2, <2>3, <2>4 DEF QueueTypeOK
<1>2. LockInv
  BY ThreadsAssumption DEF LockInv
<1>3. FifoInv
  BY DEF FifoInv, InHand
<1>4. GetInv /\ TornInv /\ OldestInv
  BY DEF GetInv, TornInv, OldestInv
<1> QED
  BY <1>1, <1>2, <1>3, <1>4 DEF QueueInv

(* A producer's push: the mutex, the queue and the history move together.  *)
LEMMA ProducerInv ==
  ASSUME QueueInv, NEW p \in Producers,
         PushLock(p) \/ PushAppend(p) \/ PushNotify(p)
  PROVE  QueueInv'
<1> USE DEF QueueInv, hist
<1>1. CASE PushLock(p)
  <2>1. QueueTypeOK'
    BY <1>1 DEF PushLock, QueueTypeOK
  <2>2. LockInv'
    BY <1>1, ThreadsAssumption DEF PushLock, LockInv, QueueTypeOK
  <2>3. (FifoInv /\ GetInv /\ TornInv /\ OldestInv)'
    BY <1>1 DEF PushLock, FifoInv, InHand, GetInv, TornInv, OldestInv
  <2> QED BY <2>1, <2>2, <2>3
<1>2. CASE PushAppend(p)
  <2> DEFINE m == <<p, count[p] + 1>>
  <2>1. count[p] + 1 \in 1..MaxMsgs
    BY <1>2, BoundsAssumption DEF PushAppend, QueueTypeOK, LockInv
  <2>2. m \in Msg
    BY <2>1 DEF Msg
  <2>3. QueueTypeOK'
    BY <1>2, <2>1, <2>2 DEF PushAppend, QueueTypeOK
  <2>4. LockInv'
    BY <1>2 DEF PushAppend, LockInv, QueueTypeOK
  <2>5. FifoInv'
    <3>1. InHand' = InHand
      BY <1>2 DEF PushAppend, InHand
    <3>2. (taken \o InHand) \o Append(queue, m) = Append((taken \o InHand) \o queue, m)
      <4>1. taken \o InHand \in Seq(Msg) /\ queue \in Seq(Msg)
        BY HeldLemma DEF QueueTypeOK
      <4> QED
        BY <4>1, <2>2, AppendConcat
    <3> QED
      BY <1>2, <3>1, <3>2 DEF PushAppend, FifoInv
  <2>6. Len(queue') = Len(queue) + 1 /\ queue' # <<>> /\ Len(queue) \in Nat
    BY <1>2 DEF PushAppend, QueueTypeOK
  <2>a. UNCHANGED <<policy, cpc, asleep, left, msg, torn, late>>
    BY <1>2 DEF PushAppend
  <2>b. GetInv'
    BY <2>6, <2>a DEF GetInv, QueueTypeOK
  <2>7. OldestInv'
    BY <2>6, <2>a DEF OldestInv
  <2>8. TornInv'
    <3>1. Len(pushed') = Len(pushed) + 1 /\ Len(pushed) \in Nat
      BY <1>2 DEF PushAppend, QueueTypeOK
    <3> QED
      BY <1>2, <3>1, BoundsAssumption DEF PushAppend, TornInv
  <2> QED BY <2>3, <2>4, <2>5, <2>b, <2>7, <2>8
<1>3. CASE PushNotify(p)
  <2>1. QueueTypeOK'
    BY <1>3 DEF PushNotify, QueueTypeOK
  <2>2. LockInv'
    BY <1>3, ThreadsAssumption DEF PushNotify, LockInv, QueueTypeOK
  <2>3. (FifoInv /\ GetInv /\ TornInv /\ OldestInv)'
    BY <1>3 DEF PushNotify, FifoInv, InHand, GetInv, TornInv, OldestInv
  <2> QED BY <2>1, <2>2, <2>3
<1> QED
  BY <1>1, <1>2, <1>3

(* wait(): nothing is removed from the queue, and a timeout that lets a    *)
(* message wait is followed by the way to the get().                       *)
LEMMA WaitInv ==
  ASSUME QueueInv, Wait
  PROVE  QueueInv'
<1> USE DEF QueueInv, pvars, hist
<1>1. CASE WaitCheck
  <2>1. late = 0
    BY <1>1 DEF WaitCheck, OldestInv, QueueTypeOK
  <2>2. cpc' \in {"count", "enter"}
    BY <1>1 DEF WaitCheck
  <2>3. UNCHANGED <<queue, lock, ppc, count, policy, asleep, left, msg, pushed,
                    taken, torn, late>>
    BY <1>1 DEF WaitCheck
  <2>4. QueueTypeOK'
    BY <2>2, <2>3 DEF QueueTypeOK
  <2>5. LockInv' /\ TornInv'
    BY <2>3 DEF LockInv, TornInv
  <2>6. FifoInv'
    BY <1>1, <2>2, <2>3 DEF WaitCheck, FifoInv, InHand
  <2>7. GetInv' /\ OldestInv'
    BY <1>1, <2>1, <2>2, <2>3 DEF WaitCheck, GetInv, OldestInv
  <2> QED BY <2>4, <2>5, <2>6, <2>7
<1>2. CASE WaitSleep
  <2>1. QueueTypeOK'
    BY <1>2 DEF WaitSleep, QueueTypeOK
  <2>2. LockInv' /\ FifoInv' /\ TornInv'
    BY <1>2 DEF WaitSleep, LockInv, FifoInv, InHand, TornInv
  <2>3. GetInv'
    BY <1>2 DEF WaitSleep, GetInv
  <2>4. late = 0
    BY <1>2 DEF WaitSleep, OldestInv, QueueTypeOK
  <2>5. OldestInv'
    BY <1>2, <2>4 DEF WaitSleep, OldestInv
  <2> QED BY <2>1, <2>2, <2>3, <2>5
<1>3. CASE WaitTimeout
  <2>1. QueueTypeOK'
    <3>1. asleep' \in BOOLEAN
      BY <1>3 DEF WaitTimeout
    <3>2. late' \in Nat
      BY <1>3 DEF WaitTimeout, QueueTypeOK
    <3>3. UNCHANGED <<queue, lock, ppc, count, policy, cpc, left, msg, pushed,
                      taken, torn>>
      BY <1>3 DEF WaitTimeout
    <3> QED
      BY <3>1, <3>2, <3>3 DEF QueueTypeOK
  <2>2. LockInv' /\ FifoInv' /\ TornInv'
    BY <1>3 DEF WaitTimeout, LockInv, FifoInv, InHand, TornInv
  <2>3. GetInv' /\ OldestInv'
    BY <1>3 DEF WaitTimeout, GetInv, OldestInv, QueueTypeOK
  <2> QED BY <2>1, <2>2, <2>3
<1>4. CASE WaitReturn
  <2>1. QueueTypeOK'
    BY <1>4 DEF WaitReturn, QueueTypeOK
  <2>2. LockInv' /\ FifoInv' /\ TornInv'
    BY <1>4 DEF WaitReturn, LockInv, FifoInv, InHand, TornInv
  <2>3. GetInv' /\ OldestInv'
    BY <1>4 DEF WaitReturn, GetInv, OldestInv, QueueTypeOK
  <2> QED BY <2>1, <2>2, <2>3
<1> QED
  BY <1>1, <1>2, <1>3, <1>4 DEF Wait

(* The loop around get(): the count it goes by exceeds what is in the      *)
(* queue only if it was torn.                                              *)
LEMMA GetLoopInv ==
  ASSUME QueueInv, CountSize \/ Get \/ Handle
  PROVE  QueueInv'
<1> USE DEF QueueInv, pvars, hist
<1>s. Len(queue) \in Nat /\ (Len(queue) = 0 <=> queue = <<>>)
  BY DEF QueueTypeOK
<1>1. CASE CountSize
  <2>1. /\ left' \in Nat /\ torn' \in BOOLEAN /\ late' \in Nat
        /\ torn' => Len(pushed) >= NodeSize - 1
        /\ ~torn' => left' = Len(queue)
    BY <1>1, SizesLemma DEF CountSize, QueueTypeOK
  <2>2. /\ UNCHANGED <<queue, lock, ppc, count, policy, asleep, msg, pushed, taken>>
        /\ cpc = "count" /\ late' = IF left' = 0 THEN 0 ELSE late
        /\ cpc' = IF left' = 0 THEN "check" ELSE "peek"
    BY <1>1 DEF CountSize
  <2>3. QueueTypeOK'
    BY <2>1, <2>2 DEF QueueTypeOK
  <2>4. LockInv' /\ TornInv'
    BY <2>1, <2>2 DEF LockInv, TornInv
  <2>5. FifoInv'
    BY <2>2 DEF FifoInv, InHand
  <2>6. GetInv'
    BY <2>1, <2>2, <1>s DEF GetInv
  <2>7. OldestInv'
    BY <2>1, <2>2, <1>s DEF OldestInv, QueueTypeOK
  <2> QED BY <2>3, <2>4, <2>5, <2>6, <2>7
<1>2. CASE GetPeek
  <2>1. QueueTypeOK'
    BY <1>2 DEF GetPeek, QueueTypeOK
  <2>2. LockInv' /\ FifoInv' /\ TornInv'
    BY <1>2 DEF GetPeek, LockInv, FifoInv, InHand, TornInv
  <2>3. GetInv' /\ OldestInv'
    BY <1>2 DEF GetPeek, GetInv, OldestInv, QueueTypeOK
  <2> QED BY <2>1, <2>2, <2>3
<1>3. CASE GetFails
  <2>1. QueueTypeOK'
    BY <1>3 DEF GetFails, QueueTypeOK
  <2>2. LockInv' /\ FifoInv' /\ TornInv'
    BY <1>3 DEF GetFails, LockInv, FifoInv, InHand, TornInv
  <2>3. GetInv' /\ OldestInv'
    BY <1>3 DEF GetFails, GetInv, OldestInv, QueueTypeOK
  <2> QED BY <2>1, <2>2, <2>3
<1>4. CASE GetPop
  <2>0. /\ Head(queue) \in Msg /\ Tail(queue) \in Seq(Msg)
        /\ Len(Tail(queue)) = Len(queue) - 1
    BY <1>4, HeadTailProperties DEF GetPop, QueueTypeOK
  <2>1. QueueTypeOK'
    BY <1>4, <2>0 DEF GetPop, QueueTypeOK
  <2>2. LockInv' /\ TornInv'
    BY <1>4 DEF GetPop, LockInv, TornInv
  <2>3. FifoInv'
    <3>1. InHand = <<>> /\ InHand' = <<Head(queue)>>
      BY <1>4 DEF GetPop, InHand
    <3>2. pushed = taken \o queue
      BY <3>1 DEF FifoInv, QueueTypeOK
    <3>3. (taken \o <<Head(queue)>>) \o Tail(queue) = taken \o queue
      BY <1>4, HeadConcat DEF GetPop, QueueTypeOK
    <3> QED
      BY <1>4, <3>1, <3>2, <3>3 DEF GetPop, FifoInv
  <2>4. GetInv'
    BY <1>4, <2>0, NoMsgAssumption DEF GetPop, GetInv, QueueTypeOK
  <2>5. OldestInv'
    BY <1>4 DEF GetPop, OldestInv, QueueTypeOK
  <2> QED BY <2>1, <2>2, <2>3, <2>4, <2>5
<1>5. CASE Handle
  <2>0. left > 0 /\ msg \in Msg /\ left \in Nat
    BY <1>5 DEF Handle, GetInv, QueueTypeOK
  <2>1. /\ left' \in Nat /\ torn' \in BOOLEAN
        /\ torn' => Len(pushed) >= NodeSize - 1
        /\ policy = "batch" => left' = left - 1 /\ torn' = torn
        /\ policy # "batch" => torn' \/ left' = Len(queue)
    <3>1. CASE policy = "batch"
      BY <1>5, <2>0, <3>1 DEF Handle, QueueTypeOK, TornInv
    <3>2. CASE policy # "batch"
      BY <1>5, <3>2, SizesLemma DEF Handle
    <3> QED
      BY <3>1, <3>2
  <2>2. /\ UNCHANGED <<queue, lock, ppc, count, policy, asleep, pushed, late>>
        /\ cpc = "handle" /\ taken' = Append(taken, msg)
        /\ cpc' = IF left' = 0 THEN "check" ELSE "peek"
        /\ msg' \in {msg, NoMsg}
    BY <1>5 DEF Handle
  <2>3. QueueTypeOK'
    BY <2>0, <2>1, <2>2 DEF QueueTypeOK
  <2>4. LockInv' /\ TornInv'
    BY <2>1, <2>2 DEF LockInv, TornInv
  <2>5. FifoInv'
    <3>1. InHand = <<msg>> /\ InHand' = <<>>
      BY <2>2 DEF InHand
    <3>2. taken' = taken \o <<msg>> /\ taken' \in Seq(Msg)
      BY <2>0, <2>2 DEF QueueTypeOK
    <3> QED
      BY <2>2, <3>1, <3>2 DEF FifoInv
  <2>6. GetInv'
    BY <2>0, <2>1, <2>2, <1>s DEF GetInv, QueueTypeOK
  <2>7. OldestInv'
    BY <2>2 DEF OldestInv, QueueTypeOK
  <2> QED BY <2>3, <2>4, <2>5, <2>6, <2>7
<1> QED
  BY <1>1, <1>2, <1>3, <1>4, <1>5 DEF Get

LEMMA QueueStutterInv == ASSUME QueueInv, UNCHANGED qvars PROVE QueueInv'
BY DEF QueueInv, qvars, QueueTypeOK, LockInv, FifoInv, InHand, GetInv, TornInv,
       OldestInv

LEMMA QueueNextInv == ASSUME QueueInv, [QueueNext]_qvars PROVE QueueInv'
BY ProducerInv, WaitInv, GetLoopInv, QueueStutterInv
   DEF QueueNext, Stopped, Wait, Get

(* The inductive invariant holds in every state of every run.              *)
THEOREM QueueInvariantHolds == QueueSpec => []QueueInv
<1>1. QueueInv /\ [QueueNext]_qvars => QueueInv'
  BY QueueNextInv
<1> QED
  BY QueueInitInv, <1>1, PTL DEF QueueSpec

-----------------------------------------------------------------------------

(* Every variable of the queue and of its users keeps its type, for any    *)
(* number of producers and messages.                                       *)
THEOREM QueueTypeCorrect == QueueSpec => []QueueTypeOK
<1>1. QueueInv => QueueTypeOK
  BY DEF QueueInv
<1> QED
  BY QueueInvariantHolds, <1>1, PTL

(* No get() of a consumer loop comes back without a message, although it   *)
(* decides on values read outside the lock, unless the loop counts on a    *)
(* size that a push filling a node has torn.                               *)
THEOREM GetDelivers == QueueSpec => []EveryGetDelivers
<1>1. QueueInv => EveryGetDelivers
  BY DEF QueueInv, GetInv, TornInv, EveryGetDelivers
<1> QED
  BY QueueInvariantHolds, <1>1, PTL

(* A message missed by the unlocked test of wait() waits through one       *)
(* timeout, never through two between which no torn 0 was read.            *)
THEOREM OneTimeoutAtMost == QueueSpec => []AtMostOneTimeout
<1>1. QueueInv => AtMostOneTimeout
  BY DEF QueueInv, QueueTypeOK, OldestInv, AtMostOneTimeout
<1> QED
  BY QueueInvariantHolds, <1>1, PTL

(* A step of the queue is a step of the channel, or none.                  *)
LEMMA ChannelStep ==
  ASSUME QueueInv, [QueueNext]_qvars
  PROVE  [Channel!Next]_Channel!vars
<1> USE DEF QueueInv, hist
<1>1. ASSUME NEW p \in Producers, PushAppend(p) PROVE Channel!Next
  <2> DEFINE m == <<p, count[p] + 1>>
  <2>1. m \in Msg
    BY <1>1, BoundsAssumption DEF PushAppend, QueueTypeOK, LockInv, Msg
  <2>2. Channel!Send(m)
    BY <1>1 DEF PushAppend, Channel!Send
  <2> QED
    BY <2>1, <2>2 DEF Channel!Next
<1>2. ASSUME Handle PROVE Channel!Next
  <2>1. InHand = <<msg>> /\ msg \in Msg
    BY <1>2 DEF Handle, InHand, GetInv, QueueTypeOK
  <2>2. pushed = (taken \o <<msg>>) \o queue
    BY <2>1 DEF FifoInv
  <2>3. Len(taken) < Len(pushed) /\ pushed[Len(taken) + 1] = msg
    BY <2>1, <2>2 DEF QueueTypeOK
  <2>4. Channel!Receive
    BY <1>2, <2>3 DEF Handle, Channel!Receive, pvars
  <2> QED
    BY <2>4 DEF Channel!Next
<1>3. ASSUME UNCHANGED <<pushed, taken>> PROVE UNCHANGED Channel!vars
  BY <1>3 DEF Channel!vars
<1>4. ASSUME QueueNext, ~Handle, ~(\E p \in Producers : PushAppend(p))
      PROVE  UNCHANGED <<pushed, taken>>
  <2>1. ASSUME NEW p \in Producers, PushLock(p) \/ PushNotify(p)
        PROVE  UNCHANGED <<pushed, taken>>
    BY <2>1 DEF PushLock, PushNotify, hist
  <2>2. ASSUME Wait \/ CountSize \/ Get PROVE UNCHANGED <<pushed, taken>>
    BY <2>2 DEF Wait, WaitCheck, WaitSleep, WaitTimeout, WaitReturn,
                CountSize, Get, GetPeek, GetFails, GetPop, pvars, hist
  <2> QED
    BY <1>4, <2>1, <2>2 DEF QueueNext, Stopped, qvars, Wait, Get
<1>5. ASSUME UNCHANGED qvars PROVE UNCHANGED <<pushed, taken>>
  BY <1>5 DEF qvars
<1> QED
  BY <1>1, <1>2, <1>3, <1>4, <1>5

(* The queue and its consumer loop implement the channel's safety part:    *)
(* no message is lost, duplicated or overtaken.                            *)
THEOREM ImplementsSafeChannel == QueueSpec => Channel!SafeSpec
<1>1. QueueInit => Channel!Init
  BY DEF QueueInit, Channel!Init
<1>2. QueueInv /\ [QueueNext]_qvars => [Channel!Next]_Channel!vars
  BY ChannelStep
<1> QED
  BY QueueInvariantHolds, <1>1, <1>2, PTL DEF QueueSpec, Channel!SafeSpec

-----------------------------------------------------------------------------
(* The session.                                                            *)

(* A quit the user interface may know of is one the core stops for.        *)
QuitKnown == quitting \/ \E i \in DOMAIN uiQ : uiQ[i] = "quit"

QuitInv ==
  /\ QuitKnown => corePc = "stop" \/ ~running
  /\ ~running => corePc # "unstarted"
  /\ ~uiQAlive => ui = "ew" /\ quitting

LateInv ==
  /\ corePc \in {"drain", "exited"} => ~running
  /\ corePc \in {"drain", "exited"} \/ (corePc = "wait" /\ ~running) =>
       \A i \in 1 .. Len(coreQ) : coreQ[i].stale

PushInv ==
  /\ ui # "ew" => room
  /\ uiPc \in {"test", "push"} => out \in CoreEvent
  /\ uiPc = "test" /\ out.type \in {"key", "click", "layout"} =>
       /\ out.sized = room /\ out.withBuffer = ebid
       /\ ebid \/ <<ui, out.type>> \in {<<"ncurses", "key">>, <<"ew", "click">>}

(* The batch is counted once, and only its own loop works on it.           *)
BatchInv == nr # 0 => uiPc = "batch" \/ (uiPc \in {"test", "push"} /\ ret = "batch")

IInv == TypeOK /\ BatchInv /\ QuitInv /\ LateInv /\ PushInv /\ FaultsHaveACause
-----------------------------------------------------------------------------
(* The types.                                                              *)

LEMMA ToCoreTypes ==
  ASSUME NEW t \in {"rpc", "layout", "key", "click", "quit"}, NEW b \in BOOLEAN,
         NEW z \in BOOLEAN, NEW r \in BOOLEAN
  PROVE  /\ ToCore(t, b, z, r) \in CoreEvent /\ ToCore(t, b, z, r).type = t
         /\ ToCore(t, b, z, r).withBuffer = b /\ ToCore(t, b, z, r).sized = z
BY DEF ToCore, CoreEvent

(* A push into the user interface's queue, or nothing, or the fault.       *)
LEMMA SendTypes ==
  ASSUME TypeOK, NEW e \in UiEvent, SendToUi(e)
  PROVE  /\ uiQ' \in Seq(UiEvent) /\ nr \in 0 .. Len(uiQ')
         /\ fault' \in {"none", "assert", "use_after_delete"}
<1>1. uiQ \in Seq(UiEvent) /\ nr \in 0 .. Len(uiQ)
      /\ fault \in {"none", "assert", "use_after_delete"}
  BY DEF TypeOK
<1>2. uiQ' \in {uiQ, Append(uiQ, e)} /\ fault' \in {fault, "use_after_delete"}
  BY DEF SendToUi
<1>3. Append(uiQ, e) \in Seq(UiEvent) /\ Len(Append(uiQ, e)) = Len(uiQ) + 1 BY <1>1
<1> QED BY <1>1, <1>2, <1>3

LEMMA CoreTypes == ASSUME TypeOK, Core PROVE TypeOK'
<1> USE DEF TypeOK, cfgVars, uiVars
<1>1. CASE CoreStart \/ QuitStop
  <2>1. running' \in BOOLEAN BY <1>1 DEF CoreStart, QuitStop
  <2> QED BY <1>1, <2>1 DEF CoreStart, QuitStop
<1>2. CASE CoreGet
  <2>1. cur' \in CoreEvent /\ coreQ' \in Seq(CoreEvent) BY <1>2 DEF CoreGet
  <2> QED BY <1>2, <2>1 DEF CoreGet
<1>3. CASE ProcessRpc \/ ProcessLayout \/ ProcessInput \/ QuitAnswer
  <2>1. /\ corePc' \in {"next", "stop"} /\ UNCHANGED <<cfgVars, running, coreQ, cur, uiVars, uiQAlive>>
        /\ \/ \E e \in UiEvent : SendToUi(e)
           \/ UNCHANGED <<uiQ, fault>>
    <3>1. CASE ProcessRpc BY <3>1 DEF ProcessRpc, UiEvent
    <3>2. CASE ProcessLayout \/ ProcessInput \/ QuitAnswer
      BY <3>2 DEF ProcessLayout, ProcessInput, QuitAnswer, UiEvent
    <3> QED BY <1>3, <3>1, <3>2
  <2>2. /\ uiQ' \in Seq(UiEvent) /\ nr \in 0 .. Len(uiQ')
        /\ fault' \in {"none", "assert", "use_after_delete"}
    BY <2>1, SendTypes
  <2> QED BY <2>1, <2>2
<1>4. CASE CoreIdle \/ CoreLeave \/ CoreExit
  BY <1>4 DEF CoreIdle, CoreLeave, CoreExit
<1>5. CASE CoreDrop
  <2>1. coreQ' \in Seq(CoreEvent) BY <1>5 DEF CoreDrop
  <2> QED BY <1>5, <2>1 DEF CoreDrop, coreVars
<1> QED BY <1>1, <1>2, <1>3, <1>4, <1>5 DEF Core

LEMMA EventTypes ==
  ASSUME NEW e \in CoreEvent, NEW b \in BOOLEAN
  PROVE  [e EXCEPT !.stale = b] \in CoreEvent /\ [e EXCEPT !.stale = b].stale = b
BY DEF CoreEvent

LEMMA UiTypes == ASSUME TypeOK, BatchInv, PushInv, UiLoop PROVE TypeOK'
<1> USE DEF TypeOK, cfgVars, coreVars
<1>1. CASE UiStart
  <2>1. /\ uiPc' \in {"test", "loop"} /\ ret' \in {"loop", "left", ret}
        /\ out' \in {ToCore("rpc", FALSE, room, TRUE), ToCore("quit", FALSE, FALSE, FALSE), out}
        /\ UNCHANGED <<cfgVars, coreVars, coreQ, nr, ebid, shown, room, quitting, inputs,
                       uiQ, uiQAlive, fault>>
    BY <1>1 DEF UiStart, Pushing
  <2>2. asked' \in BOOLEAN BY <1>1 DEF UiStart
  <2>4. /\ ToCore("rpc", FALSE, room, TRUE) \in CoreEvent
        /\ ToCore("quit", FALSE, FALSE, FALSE) \in CoreEvent
    BY DEF ToCore, CoreEvent
  <2>3. out' \in CoreEvent \cup {NoEvent} BY <2>1, <2>4
  <2> QED BY <2>1, <2>2, <2>3
<1>2. CASE PushTest
  BY <1>2 DEF PushTest
<1>3. CASE PushDo
  <2>1. out \in CoreEvent BY <1>3 DEF PushInv, PushDo
  <2>2. (~running) \in BOOLEAN OBVIOUS
  <2>3. [out EXCEPT !.stale = ~running] \in CoreEvent BY <2>1, <2>2, EventTypes
  <2>4. coreQ' \in Seq(CoreEvent) BY <1>3, <2>3 DEF PushDo
  <2> QED BY <1>3, <2>4 DEF PushDo
<1>4. CASE UiWait
  <2>1. nr' \in 0..Len(uiQ') BY <1>4 DEF UiWait
  <2> QED BY <1>4, <2>1 DEF UiWait
<1>5. CASE UiEventStep
  <2>1. nr \in 1..Len(uiQ) BY <1>5 DEF UiEventStep
  <2>2. uiQ' \in Seq(UiEvent) /\ Len(uiQ') = Len(uiQ) - 1 BY <1>5, <2>1 DEF UiEventStep
  <2>3. nr' \in 0..Len(uiQ') BY <1>5, <2>1, <2>2 DEF UiEventStep
  <2>4. ebid' \in BOOLEAN /\ quitting' \in BOOLEAN /\ shown' \in BOOLEAN
    BY <1>5 DEF UiEventStep
  <2>5. /\ out' \in {out, ToCore("layout", TRUE, room, TRUE)} /\ uiPc' \in {uiPc, "test"}
        /\ ret' \in {ret, "batch"}
        /\ UNCHANGED <<cfgVars, coreVars, coreQ, asked, room, inputs, uiQAlive, fault>>
    BY <1>5 DEF UiEventStep, Pushing
  <2>7. ToCore("layout", TRUE, room, TRUE) \in CoreEvent BY DEF ToCore, CoreEvent
  <2>6. out' \in CoreEvent \cup {NoEvent} BY <2>5, <2>7
  <2> QED BY <2>2, <2>3, <2>4, <2>5, <2>6
<1>6. CASE UiBatchEnd \/ NoInput \/ Join
  BY <1>6 DEF UiBatchEnd, NoInput, Join
<1>7. CASE EwCreate
  <2>1. out' \in CoreEvent \cup {NoEvent} BY <1>7, ToCoreTypes DEF EwCreate, Pushing
  <2>2. asked' \in BOOLEAN BY <1>7 DEF EwCreate
  <2> QED BY <1>7, <2>1, <2>2 DEF EwCreate, Pushing
<1>8. CASE EwLeave
  <2>1. nr = 0 BY <1>8 DEF EwLeave, BatchInv
  <2>2. uiQ' = <<>> /\ uiQ' \in Seq(UiEvent)
    <3>1. <<>> \in Seq(UiEvent) OBVIOUS
    <3> QED BY <1>8, <3>1 DEF EwLeave
  <2>4. uiQAlive' \in BOOLEAN BY <1>8 DEF EwLeave
  <2>3. nr' \in 0..Len(uiQ')
    <3>1. nr' = 0 BY <1>8, <2>1 DEF EwLeave
    <3>2. Len(uiQ') = 0 BY <2>2
    <3> QED BY <3>1, <3>2
  <2> QED BY <1>8, <2>2, <2>3, <2>4 DEF EwLeave
<1> QED
  BY <1>1, <1>2, <1>3, <1>4, <1>5, <1>6, <1>7, <1>8 DEF UiLoop

(* What an input pushes, or nothing, and what it does to the room.         *)
LEMMA InputPushes ==
  ASSUME TypeOK, UserInput
  PROVE  /\ uiPc = "input" /\ Input /\ room' \in BOOLEAN /\ (ui # "ew" => room' = room)
         /\ \/ UNCHANGED <<out, uiPc, ret>>
            \/ /\ out' \in CoreEvent /\ uiPc' = "test" /\ ret' \in {"loop", "input"}
               /\ out'.type \in {"key", "click", "layout"} =>
                    /\ out'.sized = room' /\ out'.withBuffer = ebid
                    /\ \/ ebid
                       \/ <<ui, out'.type>> \in {<<"ncurses", "key">>, <<"ew", "click">>}
<1>1. room \in BOOLEAN /\ ebid \in BOOLEAN BY DEF TypeOK
<1>2. uiPc = "input" /\ Input
  BY DEF UserInput, NcursesKey, EwKey, EwClick, EwResize, EwClose, Input
<1>3. CASE NcursesKey \/ EwKey
  <2>1. /\ room' = room /\ out' = ToCore("key", ebid, room, TRUE) /\ uiPc' = "test"
        /\ ret' \in {"loop", "input"} /\ (ebid \/ ui = "ncurses")
    BY <1>3 DEF NcursesKey, EwKey, Pushing
  <2> QED BY <1>1, <1>2, <2>1 DEF ToCore, CoreEvent
<1>4. CASE EwClick
  <2>1. /\ room' = room /\ out' = ToCore("click", ebid, room, TRUE) /\ uiPc' = "test"
        /\ ret' = "input" /\ ui = "ew"
    BY <1>4 DEF EwClick, Pushing
  <2> QED BY <1>1, <1>2, <2>1 DEF ToCore, CoreEvent
<1>5. CASE EwResize
  <2>1. ui = "ew" /\ room' \in BOOLEAN BY <1>5 DEF EwResize
  <2>2. CASE ebid
    <3>1. out' = ToCore("layout", TRUE, room', TRUE) /\ uiPc' = "test" /\ ret' = "input"
      BY <1>5, <2>2 DEF EwResize, Pushing
    <3> QED BY <1>1, <1>2, <2>1, <2>2, <3>1 DEF ToCore, CoreEvent
  <2>3. CASE ~ebid
    <3>1. UNCHANGED <<out, uiPc, ret>> BY <1>5, <2>3 DEF EwResize
    <3> QED BY <1>2, <2>1, <3>1
  <2> QED BY <2>2, <2>3
<1>6. CASE EwClose
  <2>1. /\ room' = room /\ out' = ToCore("quit", FALSE, FALSE, TRUE) /\ uiPc' = "test"
        /\ ret' = "input"
    BY <1>6 DEF EwClose, Pushing
  <2> QED BY <1>1, <1>2, <2>1, ToCoreTypes
<1> QED BY <1>3, <1>4, <1>5, <1>6 DEF UserInput

LEMMA InputTypes == ASSUME TypeOK, UserInput PROVE TypeOK'
<1> USE DEF TypeOK, cfgVars, coreVars
<1>1. /\ Input /\ uiPc' \in {uiPc, "test"} /\ ret' \in {ret, "loop", "input"}
      /\ (out' = out \/ out' \in CoreEvent) /\ room' \in BOOLEAN
  BY InputPushes
<1>2. inputs' \in 0..MaxInputs BY <1>1, MaxInputsAssumption DEF Input
<1> QED BY <1>1, <1>2 DEF Input

LEMMA NextTypes == ASSUME TypeOK, BatchInv, PushInv, [Next]_vars PROVE TypeOK'
<1>1. CASE UNCHANGED vars BY <1>1 DEF TypeOK, vars, cfgVars, coreVars, uiVars
<1>2. CASE Ended
  <2>1. UNCHANGED vars BY <1>2 DEF Ended
  <2> QED BY <2>1 DEF TypeOK, vars, cfgVars, coreVars, uiVars
<1> QED BY <1>1, <1>2, CoreTypes, UiTypes, InputTypes DEF Next
-----------------------------------------------------------------------------
(* The batch, and what is pushed.                                          *)

(* The core leaves the user interface's variables alone.                   *)
LEMMA CoreKeeps == ASSUME Core PROVE UNCHANGED <<cfgVars, uiVars, uiQAlive>> /\ fault = "none"
BY DEF Core, CoreStart, CoreGet, ProcessRpc, ProcessLayout, ProcessInput, QuitAnswer, QuitStop,
   CoreIdle, CoreLeave, CoreDrop, CoreExit

LEMMA NextBatch == ASSUME TypeOK, BatchInv, [Next]_vars PROVE BatchInv'
<1>1. CASE UNCHANGED <<nr, uiPc, ret>>
  BY <1>1 DEF BatchInv
<1>2. CASE UserInput
  <2>1. uiPc = "input" /\ nr' = nr
    BY <1>2 DEF UserInput, NcursesKey, EwKey, EwClick, EwResize, EwClose, Input
  <2> QED BY <2>1 DEF BatchInv
<1>3. CASE UiStart \/ UiBatchEnd \/ NoInput \/ EwCreate \/ EwLeave \/ Join
  <2>1. nr' = nr /\ (uiPc \in {"start", "input", "loop", "left"} \/ nr = 0)
    BY <1>3 DEF UiStart, UiBatchEnd, NoInput, EwCreate, EwLeave, Join
  <2>2. nr' = 0 BY <2>1 DEF BatchInv
  <2> QED BY <2>2 DEF BatchInv
<1>4. CASE PushTest \/ PushDo
  <2>1. /\ nr' = nr /\ ret' = ret /\ uiPc \in {"test", "push"}
        /\ uiPc' \in {"test", "push", ret}
    BY <1>4 DEF PushTest, PushDo
  <2> QED BY <2>1 DEF BatchInv
<1>5. CASE UiWait BY <1>5 DEF UiWait, BatchInv
<1>6. CASE UiEventStep
  <2>1. uiPc' = "batch" \/ (uiPc' = "test" /\ ret' = "batch")
    BY <1>6 DEF UiEventStep, Pushing
  <2> QED BY <2>1 DEF BatchInv
<1>7. CASE Core BY <1>1, <1>7, CoreKeeps DEF uiVars
<1>8. CASE Ended \/ UNCHANGED vars BY <1>1, <1>8 DEF Ended, vars, uiVars
<1> QED BY <1>2, <1>3, <1>4, <1>5, <1>6, <1>7, <1>8 DEF Next, UiLoop

LEMMA NextPush == ASSUME TypeOK, PushInv, [Next]_vars PROVE PushInv'
<1>0. ui' = ui
  BY DEF Next, Core, CoreStart, CoreGet, ProcessRpc, ProcessLayout, ProcessInput,
     QuitAnswer, QuitStop, CoreIdle, CoreLeave, CoreDrop, CoreExit, UiLoop, UiStart,
     PushTest, PushDo, UiWait, UiEventStep, UiBatchEnd, NoInput, EwCreate, EwLeave, Join,
     UserInput, NcursesKey, EwKey, EwClick, EwResize, EwClose, Input, Ended, vars, cfgVars
<1>1. CASE UNCHANGED <<uiPc, out, ebid, room>>
  BY <1>0, <1>1 DEF PushInv
<1>2. CASE uiPc' \notin {"test", "push"} /\ room' = room
  BY <1>0, <1>2 DEF PushInv
<1>r. room \in BOOLEAN BY DEF TypeOK
<1>3. CASE UiStart /\ uiPc' = "test"
  <2>1. /\ out' \in {ToCore("rpc", FALSE, room, TRUE), ToCore("quit", FALSE, FALSE, FALSE)}
        /\ room' = room
    BY <1>3 DEF UiStart, Pushing
  <2>3. ASSUME NEW e \in {ToCore("rpc", FALSE, room, TRUE),
                          ToCore("quit", FALSE, FALSE, FALSE)}
        PROVE  e \in CoreEvent /\ e.type \in {"rpc", "quit"}
    <3>1. CASE e = ToCore("rpc", FALSE, room, TRUE) BY <1>r, <3>1 DEF ToCore, CoreEvent
    <3>2. CASE e = ToCore("quit", FALSE, FALSE, FALSE) BY <3>2 DEF ToCore, CoreEvent
    <3> QED BY <3>1, <3>2
  <2>2. out' \in CoreEvent /\ out'.type \in {"rpc", "quit"} BY <2>1, <2>3
  <2> QED BY <1>0, <1>3, <2>1, <2>2 DEF PushInv
<1>4. CASE EwCreate
  <2>1. out' = ToCore("rpc", FALSE, room, TRUE) /\ uiPc' = "test" /\ room' = room
    BY <1>4 DEF EwCreate, Pushing
  <2>2. out' \in CoreEvent /\ out'.type = "rpc" BY <1>r, <2>1 DEF ToCore, CoreEvent
  <2> QED BY <1>0, <2>1, <2>2 DEF PushInv
<1>5. CASE UiEventStep /\ uiPc' = "test"
  <2>1. out' = ToCore("layout", TRUE, room, TRUE) /\ room' = room /\ ebid' = TRUE
    BY <1>5 DEF UiEventStep, Pushing
  <2>2. out' \in CoreEvent /\ out'.withBuffer = TRUE /\ out'.sized = room
    BY <1>r, <2>1 DEF ToCore, CoreEvent
  <2> QED BY <1>0, <1>5, <2>1, <2>2 DEF PushInv
<1>6. CASE UserInput
  <2>1. ebid' = ebid /\ uiPc = "input" BY <1>6, InputPushes DEF Input
  <2>2. CASE UNCHANGED <<out, uiPc, ret>>
    <3>1. uiPc' = "input" BY <2>1, <2>2
    <3> QED BY <1>0, <1>6, <3>1, InputPushes DEF PushInv
  <2>3. CASE uiPc' = "test"
    BY <1>0, <1>6, <2>1, <2>3, InputPushes DEF PushInv
  <2> QED BY <1>6, <2>2, <2>3, InputPushes
<1>7. CASE PushTest
  <2>1. uiPc = "test" /\ uiPc' \in {"test", "push", ret} /\ UNCHANGED <<out, ret, room>>
        /\ (uiPc' = "test" => UNCHANGED <<ebid, out, uiPc>>) /\ ret # "test"
    BY <1>7 DEF PushTest, TypeOK
  <2> QED BY <1>0, <1>1, <2>1 DEF PushInv
<1>8. CASE PushDo \/ UiWait \/ UiBatchEnd \/ NoInput \/ EwLeave \/ Join
  BY <1>2, <1>8 DEF PushDo, UiWait, UiBatchEnd, NoInput, EwLeave, Join, TypeOK
<1>9. CASE UiStart /\ uiPc' # "test"
  BY <1>2, <1>9 DEF UiStart, Pushing
<1>10. CASE UiEventStep /\ uiPc' # "test"
  BY <1>2, <1>10 DEF UiEventStep, Pushing
<1>11. CASE Core BY <1>1, <1>11, CoreKeeps DEF uiVars
<1>12. CASE Ended \/ UNCHANGED vars BY <1>1, <1>12 DEF Ended, vars, uiVars
<1> QED BY <1>3, <1>4, <1>5, <1>6, <1>7, <1>8, <1>9, <1>10, <1>11, <1>12
        DEF Next, UiLoop
-----------------------------------------------------------------------------
(* The quit, the end of the core and the faults.                           *)

(* What a push into the user interface's queue adds to what it may know.   *)
LEMMA SendAddsQuit ==
  ASSUME TypeOK, NEW e \in UiEvent, SendToUi(e), quitting' = quitting, QuitKnown'
  PROVE  QuitKnown \/ e = "quit"
<1>1. uiQ \in Seq(UiEvent) BY DEF TypeOK
<1>2. CASE quitting' BY <1>2 DEF QuitKnown
<1>3. CASE \E i \in DOMAIN uiQ' : uiQ'[i] = "quit"
  <2>1. PICK i \in DOMAIN uiQ' : uiQ'[i] = "quit" BY <1>3
  <2>2. CASE uiQ' = uiQ BY <2>1, <2>2 DEF QuitKnown
  <2>3. CASE uiQ' = Append(uiQ, e)
    <3>1. DOMAIN uiQ' = 1..(Len(uiQ) + 1) /\ DOMAIN uiQ = 1..Len(uiQ) /\ Len(uiQ) \in Nat
      BY <1>1, <2>3
    <3>2. CASE i \in DOMAIN uiQ
      <4>1. uiQ[i] = "quit" BY <1>1, <2>1, <2>3, <3>2
      <4> QED BY <3>2, <4>1 DEF QuitKnown
    <3>3. CASE i = Len(uiQ) + 1
      <4>1. uiQ'[i] = e BY <1>1, <2>3, <3>3
      <4> QED BY <2>1, <4>1
    <3> QED BY <3>1, <3>2, <3>3
  <2> QED BY <2>2, <2>3 DEF SendToUi
<1> QED BY <1>2, <1>3 DEF QuitKnown

LEMMA NextQuit == ASSUME TypeOK, BatchInv, QuitInv, [Next]_vars PROVE QuitInv'
<1>1. CASE UNCHANGED <<quitting, uiQ, corePc, running, uiQAlive, ui>>
  BY <1>1 DEF QuitInv, QuitKnown
<1>2. CASE Core
  <2>1. UNCHANGED <<ui, quitting, uiQAlive>> BY <1>2, CoreKeeps DEF cfgVars, uiVars
  <2>2. ~uiQAlive' => ui' = "ew" /\ quitting' BY <2>1 DEF QuitInv
  <2>3. CASE CoreStart
    <3>1. corePc = "unstarted" /\ corePc' = "wait" /\ uiQ' = uiQ /\ running' = TRUE
      BY <2>3 DEF CoreStart
    <3>2. ~QuitKnown' BY <2>1, <3>1 DEF QuitInv, QuitKnown
    <3> QED BY <2>2, <3>1, <3>2 DEF QuitInv
  <2>4. CASE QuitStop
    <3>1. running' = FALSE /\ corePc' = "next" BY <2>4 DEF QuitStop
    <3> QED BY <2>2, <3>1 DEF QuitInv
  <2>5. CASE QuitAnswer
    <3>1. running' = running /\ corePc' = "stop" BY <2>5 DEF QuitAnswer
    <3> QED BY <2>2, <3>1 DEF QuitInv
  <2>6. CASE CoreGet \/ CoreIdle \/ CoreLeave \/ CoreDrop \/ CoreExit
    <3>1. /\ corePc \in {"wait", "next", "drain"} /\ corePc' # "unstarted"
          /\ running' = running /\ uiQ' = uiQ
      BY <2>6 DEF CoreGet, CoreIdle, CoreLeave, CoreDrop, CoreExit, coreVars
    <3>2. QuitKnown' => QuitKnown BY <2>1, <3>1 DEF QuitKnown
    <3> QED BY <2>2, <3>1, <3>2 DEF QuitInv
  <2>7. CASE ProcessRpc \/ ProcessLayout \/ ProcessInput
    <3>1. /\ corePc = "process" /\ corePc' = "next" /\ running' = running
          /\ \/ \E e \in {"buffers", "nobuffer", "screen"} : SendToUi(e)
             \/ UNCHANGED uiQ
      <4>1. CASE ProcessRpc BY <4>1 DEF ProcessRpc
      <4>2. CASE ProcessLayout \/ ProcessInput BY <4>2 DEF ProcessLayout, ProcessInput
      <4> QED BY <2>7, <4>1, <4>2
    <3>2. QuitKnown' => QuitKnown
      <4>1. CASE UNCHANGED uiQ BY <2>1, <4>1 DEF QuitKnown
      <4>2. ASSUME NEW e \in {"buffers", "nobuffer", "screen"}, SendToUi(e)
            PROVE  QuitKnown' => QuitKnown
        <5>1. e \in UiEvent /\ e # "quit" BY DEF UiEvent
        <5> QED BY <2>1, <4>2, <5>1, SendAddsQuit
      <4> QED BY <3>1, <4>1, <4>2
    <3> QED BY <2>2, <3>1, <3>2 DEF QuitInv
  <2> QED BY <1>2, <2>3, <2>4, <2>5, <2>6, <2>7 DEF Core
<1>3. CASE UiEventStep
  <2>1. nr \in 1..Len(uiQ) /\ uiQ \in Seq(UiEvent) BY <1>3 DEF UiEventStep, TypeOK
  <2>2. UNCHANGED <<corePc, running, uiQAlive, ui>> /\ uiQ' = Tail(uiQ)
        /\ quitting' = (quitting \/ Head(uiQ) = "quit")
    BY <1>3 DEF UiEventStep, coreVars, cfgVars
  <2>3. 1 \in DOMAIN uiQ /\ Head(uiQ) = uiQ[1] BY <2>1
  <2>4. \A i \in DOMAIN Tail(uiQ) : i + 1 \in DOMAIN uiQ /\ Tail(uiQ)[i] = uiQ[i + 1]
    BY <2>1
  <2>5. QuitKnown' => QuitKnown
    <3>1. quitting' => quitting \/ uiQ[1] = "quit" BY <2>2, <2>3
    <3>2. (\E i \in DOMAIN uiQ' : uiQ'[i] = "quit") => \E i \in DOMAIN uiQ : uiQ[i] = "quit"
      BY <2>2, <2>4
    <3> QED BY <2>3, <3>1, <3>2 DEF QuitKnown
  <2>6. quitting => quitting' BY <2>2
  <2> QED BY <2>2, <2>5, <2>6 DEF QuitInv
<1>4. CASE EwLeave
  <2>1. ui = "ew" /\ quitting /\ UNCHANGED <<ui, quitting, corePc, running>>
    BY <1>4 DEF EwLeave, cfgVars, coreVars
  <2>2. QuitKnown BY <2>1 DEF QuitKnown
  <2> QED BY <2>1, <2>2 DEF QuitInv
<1>5. CASE UserInput
  BY <1>1, <1>5 DEF UserInput, NcursesKey, EwKey, EwClick, EwResize, EwClose, Input, coreVars, cfgVars
<1>6. CASE UiStart \/ PushTest \/ PushDo \/ UiWait \/ UiBatchEnd \/ NoInput \/ EwCreate \/ Join
  BY <1>1, <1>6 DEF UiStart, PushTest, PushDo, UiWait, UiBatchEnd, NoInput, EwCreate, Join,
     coreVars, cfgVars
<1>7. CASE Ended \/ UNCHANGED vars
  BY <1>1, <1>7 DEF Ended, vars, coreVars, cfgVars, uiVars
<1> QED BY <1>2, <1>3, <1>4, <1>5, <1>6, <1>7 DEF Next, UiLoop

LEMMA NextLate == ASSUME TypeOK, PushInv, QuitInv, LateInv, [Next]_vars PROVE LateInv'
<1>1. CASE UNCHANGED <<corePc, running, coreQ>>
  BY <1>1 DEF LateInv
<1>2. coreQ \in Seq(CoreEvent) BY DEF TypeOK
<1>3. CASE PushDo
  <2> DEFINE e == [out EXCEPT !.stale = ~running]
  <2>1. out \in CoreEvent BY <1>3 DEF PushInv, PushDo
  <2>2. e.stale = ~running BY <2>1 DEF CoreEvent
  <2>3. coreQ' = Append(coreQ, e) /\ UNCHANGED <<corePc, running>> BY <1>3 DEF PushDo, coreVars
  <2>4. ~running => e.stale BY <2>2, Zenon
  <2> HIDE DEF e
  <2>5. \A i \in 1..Len(coreQ') : (i \in 1..Len(coreQ) /\ coreQ'[i] = coreQ[i]) \/ coreQ'[i] = e
    BY <1>2, <2>3
  <2> QED BY <2>3, <2>4, <2>5 DEF LateInv
<1>4. CASE CoreStart
  <2>1. running' = TRUE /\ corePc' = "wait" BY <1>4 DEF CoreStart
  <2> QED BY <2>1 DEF LateInv
<1>5. CASE CoreGet \/ ProcessRpc \/ ProcessLayout \/ ProcessInput \/ QuitAnswer \/ QuitStop
  <2>1. corePc' \in {"process", "next", "stop"}
    BY <1>5 DEF CoreGet, ProcessRpc, ProcessLayout, ProcessInput, QuitAnswer, QuitStop
  <2> QED BY <2>1 DEF LateInv
<1>6. CASE CoreIdle
  <2>1. coreQ' = <<>> /\ corePc' = "wait" BY <1>6 DEF CoreIdle
  <2>2. 1..Len(coreQ') = {} BY <2>1
  <2> QED BY <2>1, <2>2 DEF LateInv
<1>7. CASE CoreLeave
  <2>1. corePc = "wait" /\ ~running /\ UNCHANGED <<running, coreQ>> BY <1>7 DEF CoreLeave
  <2> QED BY <2>1 DEF LateInv
<1>8. CASE CoreDrop
  <2>1. corePc = "drain" /\ coreQ # <<>> /\ coreQ' = Tail(coreQ) /\ UNCHANGED <<corePc, running>>
    BY <1>8 DEF CoreDrop, coreVars
  <2>2. \A i \in 1..Len(coreQ') : i + 1 \in 1..Len(coreQ) /\ coreQ'[i] = coreQ[i + 1]
    BY <1>2, <2>1
  <2> QED BY <2>1, <2>2 DEF LateInv
<1>9. CASE CoreExit
  <2>1. corePc = "drain" /\ corePc' = "exited" /\ UNCHANGED <<running, coreQ>>
    BY <1>9 DEF CoreExit
  <2> QED BY <2>1 DEF LateInv
<1>10. CASE UserInput
  BY <1>1, <1>10 DEF UserInput, NcursesKey, EwKey, EwClick, EwResize, EwClose, Input, coreVars
<1>11. CASE UiStart \/ PushTest \/ UiWait \/ UiEventStep \/ UiBatchEnd \/ NoInput \/ EwCreate
            \/ EwLeave \/ Join
  BY <1>1, <1>11 DEF UiStart, PushTest, UiWait, UiEventStep, UiBatchEnd, NoInput, EwCreate,
     EwLeave, Join, coreVars
<1>12. CASE Ended \/ UNCHANGED vars BY <1>1, <1>12 DEF Ended, vars, coreVars
<1> QED BY <1>3, <1>4, <1>5, <1>6, <1>7, <1>8, <1>9, <1>10, <1>11, <1>12 DEF Next, Core, UiLoop

LEMMA NextFaults ==
  ASSUME TypeOK, PushInv, QuitInv, FaultsHaveACause, [Next]_vars
  PROVE  FaultsHaveACause'
<1>1. CASE fault' = "none"
  BY <1>1 DEF FaultsHaveACause
<1>2. CASE PushTest
  <2>1. fault = "none" /\ uiPc = "test" /\ UNCHANGED <<ui, ebid, room, out>>
    BY <1>2 DEF PushTest, cfgVars
  <2>2. \/ fault' = fault
        \/ fault' = "assert" /\ ~Checked(out)
    BY <1>2, Zenon DEF PushTest
  <2>3. CASE fault' = "assert" /\ ~Checked(out)
    <3>1. out.type \in {"key", "click", "layout"} /\ ~(out.withBuffer /\ out.sized)
      BY <2>3 DEF Checked
    <3>2. /\ out.sized = room /\ out.withBuffer = ebid
          /\ ebid \/ <<ui, out.type>> \in {<<"ncurses", "key">>, <<"ew", "click">>}
          /\ ui # "ew" => room
      BY <2>1, <3>1 DEF PushInv
    <3>3. \/ ~ebid /\ <<ui, out.type>> \in {<<"ncurses", "key">>, <<"ew", "click">>}
          \/ ~room /\ ui = "ew" /\ ebid
      BY <3>1, <3>2
    <3> QED BY <2>1, <2>3, <3>3 DEF FaultsHaveACause
  <2> QED BY <1>1, <2>1, <2>2, <2>3
<1>3. CASE Core
  <2>1. UNCHANGED <<ui, quitting>> /\ fault = "none" BY <1>3, CoreKeeps DEF cfgVars, uiVars
  <2>2. \/ fault' = "none"
        \/ fault' = "use_after_delete" /\ ~uiQAlive /\ corePc = "process" /\ running' = running
    <3>1. CASE ProcessRpc \/ ProcessLayout \/ ProcessInput \/ QuitAnswer
      BY <2>1, <3>1 DEF ProcessRpc, ProcessLayout, ProcessInput, QuitAnswer, SendToUi
    <3>2. CASE CoreStart \/ CoreGet \/ QuitStop \/ CoreIdle \/ CoreLeave \/ CoreDrop \/ CoreExit
      BY <2>1, <3>2 DEF CoreStart, CoreGet, QuitStop, CoreIdle, CoreLeave, CoreDrop, CoreExit
    <3> QED BY <1>3, <3>1, <3>2 DEF Core
  <2>3. CASE fault' = "use_after_delete"
    <3>1. ~uiQAlive /\ corePc = "process" /\ running' = running BY <2>2, <2>3
    <3>2. ui = "ew" /\ quitting /\ QuitKnown BY <3>1 DEF QuitInv, QuitKnown
    <3>3. ~running BY <3>1, <3>2 DEF QuitInv
    <3>4. ui' = "ew" /\ quitting' /\ ~running' BY <2>1, <3>1, <3>2, <3>3
    <3> QED BY <2>3, <3>4 DEF FaultsHaveACause
  <2> QED BY <1>1, <2>2, <2>3
<1>4. CASE UserInput
  <2>1. fault' = "none" BY <1>4 DEF UserInput, NcursesKey, EwKey, EwClick, EwResize, EwClose, Input
  <2> QED BY <1>1, <2>1
<1>5. CASE UiStart \/ PushDo \/ UiWait \/ UiEventStep \/ UiBatchEnd \/ NoInput \/ EwCreate
           \/ EwLeave \/ Join
  <2>1. fault' = "none"
    BY <1>5 DEF UiStart, PushDo, UiWait, UiEventStep, UiBatchEnd, NoInput, EwCreate, EwLeave, Join
  <2> QED BY <1>1, <2>1
<1>6. CASE Ended \/ UNCHANGED vars
  <2>1. UNCHANGED <<fault, ui, ebid, room, out, quitting, running>>
    BY <1>6 DEF Ended, vars, uiVars, coreVars, cfgVars
  <2> QED BY <2>1 DEF FaultsHaveACause
<1> QED BY <1>2, <1>3, <1>4, <1>5, <1>6 DEF Next, UiLoop
-----------------------------------------------------------------------------
(* The theorems.                                                           *)

LEMMA InitInv == Init => IInv
<1> SUFFICES ASSUME Init PROVE IInv OBVIOUS
<1>1. TypeOK
  <2>1. inputs \in 0..MaxInputs /\ nr \in 0..Len(uiQ) BY MaxInputsAssumption DEF Init
  <2>2. coreQ \in Seq(CoreEvent) /\ uiQ \in Seq(UiEvent) BY DEF Init
  <2>3. running \in BOOLEAN /\ uiQAlive \in BOOLEAN /\ asked \in BOOLEAN /\ ebid \in BOOLEAN
        /\ shown \in BOOLEAN /\ quitting \in BOOLEAN
    BY DEF Init
  <2>4. cur \in CoreEvent \cup {NoEvent} /\ out \in CoreEvent \cup {NoEvent} BY DEF Init
  <2> QED BY <2>1, <2>2, <2>3, <2>4 DEF Init, TypeOK
<1>2. BatchInv BY DEF Init, BatchInv
<1>3. QuitInv
  <2>1. ~QuitKnown BY DEF Init, QuitKnown
  <2> QED BY <2>1 DEF Init, QuitInv
<1>4. LateInv BY DEF Init, LateInv
<1>5. PushInv BY DEF Init, PushInv
<1>6. FaultsHaveACause BY DEF Init, FaultsHaveACause
<1> QED BY <1>1, <1>2, <1>3, <1>4, <1>5, <1>6 DEF IInv

(* In every reachable state of a session, with any user interface: the     *)
(* types, the batch's count, what the interface may know of a quit, what   *)
(* is late, and what is pushed.                                            *)
THEOREM InvariantHolds == Spec => []IInv
<1>1. ASSUME IInv, [Next]_vars PROVE IInv'
  BY <1>1, NextTypes, NextBatch, NextPush, NextQuit, NextLate, NextFaults DEF IInv
<1> QED BY <1>1, InitInv, PTL DEF Spec

(* The variables of both threads and of the two queues keep their types;   *)
(* the batch's count never exceeds the queue it was read from.             *)
THEOREM TypeCorrect == Spec => []TypeOK
<1>1. IInv => TypeOK BY DEF IInv
<1> QED BY <1>1, InvariantHolds, PTL

(* The drain at the end of core::main throws away late events only.        *)
THEOREM DropsLateEventsOnly == Spec => []OnlyLateEventsDropped
<1>1. IInv => OnlyLateEventsDropped BY DEF IInv, LateInv, OnlyLateEventsDropped
<1> QED BY <1>1, InvariantHolds, PTL

(* The assertions stop a key of ncurses and a click in the ew window that  *)
(* have no buffer yet, and what a text view without a width sends; the     *)
(* core writes to a deleted queue only behind a quit it has answered.      *)
THEOREM EveryFaultHasACause == Spec => []FaultsHaveACause
<1>1. IInv => FaultsHaveACause BY DEF IInv
<1> QED BY <1>1, InvariantHolds, PTL
=============================================================================
