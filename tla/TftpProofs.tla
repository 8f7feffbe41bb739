----------------------------- MODULE TftpProofs -----------------------------
(***************************************************************************)
(* Proofs about the tftp client: what a transfer that ends well has done,  *)
(* for files of any length and any number of transfers, and packets that   *)
(* are lost, late or repeated as often as the network likes.               *)
(*                                                                         *)
(* A get: the server sends block k + 1 only on an acknowledgement of k,    *)
(* and the client acknowledges only the last block it has in order; so no  *)
(* packet of this transfer holds a block behind last + 1 (GetInv).  A put: *)
(* the only data packet is block 1, and block 1 is acknowledged only when  *)
(* the server's transfer is this one and has stored it (PutInv).           *)
(***************************************************************************)
EXTENDS Tftp, TLAPS

(* Nothing is older than its transfer.                                     *)
TidInv ==
  /\ \A p \in toClient : p.tid <= tid
  /\ \A p \in toServer : p.tid <= tid
  /\ srv.tid <= tid
  /\ st \in {"send_rrq", "send_wrq"} =>
       /\ tid > 0 /\ srv.tid < tid
       /\ \A p \in toClient : p.tid < tid
       /\ \A p \in toServer : p.tid < tid

(* Which states go with which command.                                     *)
OpInv ==
  /\ op = "get" => file \in Files /\ tid > 0
       /\ st \in {"send_rrq", "wait_data", "send_ack", "read_ok", "read_error", "stopped"}
  /\ op = "put" => file \in Files /\ tid > 0
       /\ st \in {"send_wrq", "wait_ack", "send_data", "write_ok", "write_error", "stopped"}
       /\ last \in {0, 1} /\ expected \in {0, 1}
  /\ op = "none" => st \in {"prompt", "quit"}
  /\ st \in {"prompt", "send_rrq", "send_wrq"} =>
       /\ last = 0 /\ expected = 0 /\ ~isLast /\ timeouts = 0
       /\ ~known /\ ~shifted /\ out = <<>>
  /\ st \in {"wait_data", "send_ack", "wait_ack", "send_data"} => timeouts < MaxTimeouts

(* The blocks written follow each other, and reach up to last.             *)
InOrder ==
  /\ \A i \in DOMAIN out : out[i] <= last
  /\ \A i \in DOMAIN out : \A b \in 1..(out[i] - 1) : \E j \in 1..(i - 1) : out[j] = b
  /\ \A b \in 1..last : \E j \in DOMAIN out : out[j] = b

GetNet ==
  /\ \A p \in toClient : p.tid = tid /\ p.type = "data" =>
       /\ p.blk \in 1..(last + 1) /\ p.blk <= Blocks[file]
       /\ p.last = (p.blk = Blocks[file])
  /\ \A p \in toServer : p.tid = tid =>
       \/ p.type = "rrq" /\ p.file = file
       \/ p.type = "ack" /\ p.blk <= last
  /\ srv.tid = tid =>
       /\ srv.mode = "send" /\ srv.file = file
       /\ srv.blk \in 1..(last + 1) /\ srv.blk <= Blocks[file]

GetInv ==
  op = "get" /\ "stale" \notin odd =>
    /\ GetNet
    /\ last <= Blocks[file]
    /\ isLast => last = Blocks[file]
    /\ st = "wait_data" => expected = U16(last + 1)
    /\ st = "read_ok" => isLast
    /\ "cut" \notin odd => InOrder

(* In a put's live states the first block is all there is.                 *)
PutNet ==
  /\ \A p \in toClient : p.tid = tid /\ p.type = "ack" =>
       p.blk = 0 \/ (p.blk = 1 /\ srv.tid = tid /\ Len(store) = 1)
  /\ \A p \in toServer : p.tid = tid =>
       \/ p.type = "wrq"
       \/ p.type = "data" /\ p.blk = 1 /\ expected = 1 /\ (p.good \/ shifted)
  /\ srv.tid = tid =>
       /\ srv.mode = "recv" /\ srv.blk = Len(store)
       /\ Len(store) = 0 \/ (Len(store) = 1 /\ expected = 1)
       /\ \A i \in DOMAIN store : store[i].blk = i /\ (store[i].good \/ shifted)

PutLive == op = "put" /\ (st \in {"wait_ack", "write_ok", "send_wrq"} \/ (st = "send_data" /\ last = 0))

PutInv ==
  PutLive /\ odd \cap {"stale", "restart"} = {} =>
    /\ PutNet
    /\ last = 0
    /\ expected = 0 /\ st # "send_data" => ~isLast
    /\ isLast => Blocks[file] = 1
    /\ st = "send_data" => expected = 0
    /\ st = "write_ok" => isLast /\ srv.tid = tid /\ Len(store) = 1

IInv == TypeOK /\ TidInv /\ OpInv /\ GetInv /\ PutInv
-----------------------------------------------------------------------------
(* What numbers, packets and the server's transfer are.                    *)

LEMMA LastNumFact == LastNum \in Nat /\ LastNum >= 2
BY DEF LastNum

LEMMA NumFacts ==
  /\ 0 \in Nums /\ 1 \in Nums
  /\ \A n \in Nums : n \in Nat /\ n <= LastNum
  /\ \A n \in Nat : n <= LastNum => n \in Nums
BY LastNumFact DEF Nums

LEMMA U16Facts == \A n \in Nat : U16(n) \in Nums /\ (n <= LastNum => U16(n) = n)
<1>1. \A n \in Nat : U16(n) \in Nat /\ U16(n) <= LastNum
  BY DEF U16, LastNum
<1>2. \A n \in Nat : n <= LastNum => U16(n) = n
  BY DEF U16, LastNum
<1> QED BY <1>1, <1>2, NumFacts

LEMMA BlockFacts == \A f \in Files : Blocks[f] \in Nums /\ Blocks[f] > 0
BY BlocksAssumption, LastNumFact DEF Nums

LEMMA RequestFacts ==
  ASSUME NEW p \in ToServer
  PROVE  /\ p.tid \in Tids /\ p.type \in {"rrq", "wrq", "ack", "data"}
         /\ p.type \in {"rrq", "wrq"} => p.file \in Files
         /\ p.type \in {"ack", "data"} => p.blk \in Nums
         /\ p.type = "data" => p.last \in BOOLEAN /\ p.good \in BOOLEAN
BY DEF ToServer

LEMMA AnswerFacts ==
  ASSUME NEW p \in ToClient
  PROVE  /\ p.tid \in Tids /\ p.type \in {"data", "ack", "oack", "err", "short"}
         /\ p.type \in {"data", "ack"} => p.blk \in Nums
         /\ p.type = "data" => p.last \in BOOLEAN
BY DEF ToClient

LEMMA TransferFacts ==
  ASSUME NEW s \in Transfer
  PROVE  /\ s.mode \in {"none", "send", "recv"}
         /\ s.mode # "none" => s.tid \in Tids /\ s.file \in Files /\ s.blk \in Nums
         /\ s.mode = "none" => s = Idle
BY DEF Transfer, Idle

LEMMA SentFacts ==
  ASSUME NEW s \in Transfer, s.mode # "none"
  PROVE  Block(s) \in ToClient /\ AckOf(s) \in ToClient
BY TransferFacts DEF Block, AckOf, ToClient

LEMMA BareFacts ==
  ASSUME NEW t \in Tids
  PROVE  \A typ \in {"err", "oack", "short"} : Bare(t, typ) \in ToClient
BY DEF Bare, ToClient

(* The commands of the user, and the end of a transfer.                    *)
LEMMA CommandTypes ==
  ASSUME TypeOK, OpInv, (\E f \in Files : Get(f) \/ Put(f)) \/ Quit \/ End \/ GiveUp
  PROVE  TypeOK'
<1> USE DEF TypeOK, client, network, server, States
<1>1. ASSUME NEW f \in Files, Get(f) PROVE TypeOK'
  <2>1. tid' \in 0..MaxTransfers BY <1>1, BoundsAssumption DEF Get, NewTransfer
  <2> QED BY <1>1, <2>1 DEF Get, NewTransfer
<1>2. ASSUME NEW f \in Files, Put(f) PROVE TypeOK'
  <2>1. tid' \in 0..MaxTransfers BY <1>2, BoundsAssumption DEF Put, NewTransfer
  <2> QED BY <1>2, <2>1 DEF Put, NewTransfer
<1>3. CASE Quit \/ GiveUp
  BY <1>3 DEF Quit, GiveUp
<1>4. CASE End
  <2>1. toClient' \subseteq ToClient /\ toServer' \subseteq ToServer
    <3>1. PICK c \in SUBSET toClient, s \in SUBSET toServer : toClient' = c /\ toServer' = s
      BY <1>4 DEF End
    <3>2. toClient \subseteq ToClient /\ toServer \subseteq ToServer OBVIOUS
    <3> HIDE DEF TypeOK, OpInv
    <3> QED BY <3>1, <3>2
  <2>2. timeouts' \in 0..MaxTimeouts BY <1>4 DEF End, MaxTimeouts
  <2>3. /\ st' = "prompt" /\ op' = "none" /\ file' = "none" /\ last' = 0 /\ expected' = 0
        /\ isLast' = FALSE /\ known' = FALSE /\ shifted' = FALSE /\ out' = <<>>
        /\ UNCHANGED <<tid, local, srv, store, odd>>
    BY <1>4 DEF End
  <2>4. isLast' \in BOOLEAN /\ known' \in BOOLEAN /\ shifted' \in BOOLEAN BY <2>3
  <2>5. tid' \in 0..MaxTransfers /\ local' \in SUBSET Files
        /\ srv' \in Transfer /\ store' \in Seq(ToServer)
        /\ odd' \subseteq {"stale", "cut", "restart"}
    BY <2>3
  <2>6. last' \in Nums /\ expected' \in Nums /\ out' \in Seq(Nums) BY <2>3, NumFacts
  <2>7. st' \in States /\ op' \in {"none", "get", "put"} /\ file' \in Files \cup {"none"}
    BY <2>3
  <2> HIDE DEF TypeOK, OpInv, States
  <2> QED BY <2>1, <2>2, <2>4, <2>5, <2>6, <2>7 DEF TypeOK
<1> QED BY <1>1, <1>2, <1>3, <1>4

(* In a transfer there is a file and a number.                             *)
LEMMA InTransfer ==
  ASSUME TypeOK, OpInv, st \notin {"prompt", "quit", "stopped"}
  PROVE  /\ tid \in Tids /\ file \in Files
         /\ st \in {"send_rrq", "wait_data", "send_ack", "read_ok", "read_error"} => op = "get"
         /\ st \in {"send_wrq", "wait_ack", "send_data", "write_ok", "write_error"} => op = "put"
<1>1. op \in {"get", "put"} BY DEF TypeOK, OpInv
<1>2. tid \in Tids BY <1>1 DEF TypeOK, OpInv, Tids
<1> QED BY <1>1, <1>2 DEF OpInv

LEMMA GetTypes ==
  ASSUME TypeOK, OpInv, SendRrq \/ GetTimeout \/ GetPacket \/ SendAck \/ SendAckAstray
  PROVE  TypeOK'
<1> USE DEF TypeOK, client, network, server, States
<1>1. CASE SendRrq
  <2>1. [type |-> "rrq", tid |-> tid, file |-> file] \in ToServer
    BY <1>1, InTransfer DEF SendRrq, ToServer
  <2> QED BY <1>1, <2>1, NumFacts DEF SendRrq, ToSrv
<1>2. CASE GetTimeout
  <2>1. timeouts' \in 0..MaxTimeouts BY <1>2 DEF GetTimeout, OpInv, MaxTimeouts
  <2> QED BY <1>2, <2>1 DEF GetTimeout
<1>3. CASE GetPacket
  <2>1. PICK p \in toClient : GetOther(p) \/ GetData(p)
    BY <1>3 DEF GetPacket
  <2>3. p \in ToClient OBVIOUS
  <2>4. CASE GetOther(p)
    BY <1>3, <2>4 DEF GetPacket, GetOther
  <2>5. CASE GetData(p)
    <3>1. p.blk \in Nums /\ p.last \in BOOLEAN BY <2>3, <2>5, AnswerFacts DEF GetData
    <3>2. isLast' \in BOOLEAN BY <2>5, <3>1 DEF GetData
    <3>3. last' \in Nums /\ timeouts' \in 0..MaxTimeouts
      BY <2>5, <3>1 DEF GetData, MaxTimeouts
    <3>4. out' \in Seq(Nums)
      <4>1. Append(out, p.blk) \in Seq(Nums) BY <3>1
      <4> QED BY <2>5, <4>1 DEF GetData
    <3>5. odd' \subseteq {"stale", "cut", "restart"} BY <2>5 DEF GetData
    <3> QED BY <1>3, <2>5, <3>2, <3>3, <3>4, <3>5 DEF GetPacket, GetData, network
  <2> QED BY <2>1, <2>4, <2>5
<1>4. CASE SendAck \/ SendAckAstray
  <2>1. [type |-> "ack", tid |-> tid, blk |-> last] \in ToServer
    BY <1>4, InTransfer DEF SendAck, SendAckAstray, ToServer
  <2>2. expected' \in Nums
    BY <1>4, NumFacts, U16Facts DEF SendAck, SendAckAstray
  <2>3. CASE SendAck BY <2>3, <2>1, <2>2 DEF SendAck, ToSrv
  <2>4. CASE SendAckAstray BY <2>4, <2>1, <2>2 DEF SendAckAstray, ToSrv
  <2> QED BY <1>4, <2>3, <2>4
<1> QED BY <1>1, <1>2, <1>3, <1>4

LEMMA PutTypes ==
  ASSUME TypeOK, OpInv, SendWrq \/ PutTimeout \/ PutPacket \/ SendData
  PROVE  TypeOK'
<1> USE DEF TypeOK, client, network, server, States
<1>1. CASE SendWrq
  <2>1. [type |-> "wrq", tid |-> tid, file |-> file] \in ToServer
    BY <1>1, InTransfer DEF SendWrq, ToServer
  <2> QED BY <1>1, <2>1, NumFacts DEF SendWrq, ToSrv
<1>2. CASE PutTimeout
  <2>1. timeouts' \in 0..MaxTimeouts BY <1>2 DEF PutTimeout, OpInv, MaxTimeouts
  <2> QED BY <1>2, <2>1 DEF PutTimeout
<1>3. CASE PutPacket
  <2>1. PICK p \in toClient : /\ PutAnswer(p)
                             /\ odd' = odd \cup (IF p.tid = tid THEN {} ELSE {"stale"})
    BY <1>3 DEF PutPacket
  <2>3. odd' \subseteq {"stale", "cut", "restart"} BY <2>1
  <2>4. CASE ReadBlock(p)
    <3>1. isLast' \in BOOLEAN BY <2>4 DEF ReadBlock
    <3>2. shifted' \in BOOLEAN BY <2>4 DEF ReadBlock
    <3>3. last' \in Nums /\ timeouts' \in 0..MaxTimeouts BY <2>4 DEF ReadBlock, MaxTimeouts
    <3> QED BY <1>3, <2>3, <2>4, <3>1, <3>2, <3>3 DEF PutPacket, ReadBlock
  <2>5. CASE ~ReadBlock(p)
    <3>1. st' \in {"write_ok", "write_error", "stopped"} /\ UNCHANGED <<last, isLast, timeouts, shifted>>
      BY <2>1, <2>5 DEF PutAnswer
    <3> QED BY <1>3, <2>3, <3>1 DEF PutPacket
  <2> QED BY <2>4, <2>5
<1>4. CASE SendData
  <2>1. U16(last + 1) \in Nums BY NumFacts, U16Facts
  <2>2. [type |-> "data", tid |-> tid, blk |-> U16(last + 1), last |-> isLast, good |-> ~shifted]
          \in ToServer
    BY <1>4, <2>1, InTransfer DEF SendData, ToServer
  <2> QED BY <1>4, <2>1, <2>2 DEF SendData, ToSrv
<1> QED BY <1>1, <1>2, <1>3, <1>4

LEMMA ServerTypes ==
  ASSUME TypeOK, Serve \/ Restart
  PROVE  TypeOK'
<1> USE DEF TypeOK, client, network, server, States
<1>1. CASE Serve
  <2>1. PICK p \in toServer :
          /\ ServeRequest(p) \/ ServeAck(p) \/ ServeData(p)
          /\ odd' = odd \cup IF Foreign(p) THEN {"stale"} ELSE {}
    BY <1>1 DEF Serve
  <2>2. p \in ToServer OBVIOUS
  <2>4. odd' \subseteq {"stale", "cut", "restart"} BY <2>1
  <2>5. srv' \in Transfer /\ store' \in Seq(ToServer) /\ toClient' \subseteq ToClient
    <3>1. CASE ServeRequest(p)
      <4>1. CASE /\ srv' = srv /\ store' = store
                 /\ Answer(Bare(p.tid, "err")) \/ Answer(Bare(p.tid, "short"))
        BY <2>2, <4>1, RequestFacts, BareFacts DEF Answer
      <4>2. CASE /\ p.type = "rrq" /\ Answer(Block(srv')) /\ store' = store
                 /\ srv' = [mode |-> "send", tid |-> p.tid, file |-> p.file, blk |-> 1]
        <5>1. srv' \in Transfer /\ srv'.mode = "send"
          BY <2>2, <4>2, RequestFacts, NumFacts DEF Transfer
        <5> QED BY <4>2, <5>1, SentFacts DEF Answer
      <4>3. CASE /\ p.type = "wrq" /\ store' = <<>>
                 /\ srv' = [mode |-> "recv", tid |-> p.tid, file |-> p.file, blk |-> 0]
                 /\ Answer(AckOf(srv')) \/ Answer(Bare(p.tid, "oack"))
        <5>1. srv' \in Transfer /\ srv'.mode = "recv"
          BY <2>2, <4>3, RequestFacts, NumFacts DEF Transfer
        <5> QED BY <2>2, <4>3, <5>1, RequestFacts, SentFacts, BareFacts DEF Answer
      <4> QED BY <3>1, <4>1, <4>2, <4>3 DEF ServeRequest
    <3>2. CASE ServeAck(p)
      <4>1. srv.file \in Files /\ srv.blk \in Nums /\ srv.tid \in Tids
        BY <3>2, TransferFacts DEF ServeAck
      <4>2. srv.blk + 1 \in Nums
        <5>1. srv.blk < Blocks[srv.file] BY <3>2 DEF ServeAck
        <5>2. Blocks[srv.file] \in Nat /\ Blocks[srv.file] <= LastNum
          BY <4>1, BlockFacts, NumFacts
        <5>3. srv.blk + 1 \in Nat /\ srv.blk + 1 <= LastNum
          BY <4>1, <5>1, <5>2, NumFacts, LastNumFact
        <5> QED BY <5>3, NumFacts
      <4>3. srv' \in Transfer /\ srv'.mode = "send"
        BY <3>2, <4>1, <4>2, TransferFacts DEF ServeAck, Transfer, Idle
      <4> QED BY <3>2, <4>3, SentFacts DEF ServeAck, Answer
    <3>3. CASE ServeData(p)
      <4>1. srv.file \in Files /\ srv.blk \in Nums /\ srv.tid \in Tids
        BY <3>3, TransferFacts DEF ServeData
      <4>2. p.blk \in Nums BY <2>2, <3>3, RequestFacts DEF ServeData
      <4>3. srv' \in Transfer /\ srv'.mode = "recv"
        BY <3>3, <4>1, <4>2, TransferFacts DEF ServeData, Transfer, Idle
      <4>4. store' \in Seq(ToServer) BY <2>2, <3>3 DEF ServeData
      <4> QED BY <3>3, <4>3, <4>4, SentFacts DEF ServeData, Answer
    <3> QED BY <2>1, <3>1, <3>2, <3>3
  <2> QED BY <1>1, <2>4, <2>5 DEF Serve
<1>2. CASE Restart
  BY <1>2 DEF Restart, Transfer
<1> QED BY <1>1, <1>2

LEMMA NextTypes ==
  ASSUME TypeOK, OpInv, [Next]_vars
  PROVE  TypeOK'
<1>1. CASE UNCHANGED vars
  BY <1>1 DEF TypeOK, vars, client, network, server
<1>2. CASE Next
  BY <1>2, CommandTypes, GetTypes, PutTypes, ServerTypes DEF Next, Machine, Server
<1> QED BY <1>1, <1>2

-----------------------------------------------------------------------------
(* What the steps do to the network and to the server's transfer.          *)

(* The server answers a packet with its number, or with its transfer's.    *)
LEMMA ServeNumbers ==
  ASSUME Serve, TypeOK
  PROVE  /\ toServer' = toServer
         /\ srv'.tid = srv.tid \/ \E p \in toServer : srv'.tid = p.tid
         /\ \A q \in toClient' : \/ q \in toClient
                                \/ q.tid = srv'.tid
                                \/ \E p \in toServer : q.tid = p.tid
<1>1. PICK p \in toServer : ServeRequest(p) \/ ServeAck(p) \/ ServeData(p)
  BY DEF Serve
<1>2. toServer' = toServer BY DEF Serve
<1>3. srv \in Transfer BY DEF TypeOK
<1>4. CASE ServeRequest(p) BY <1>2, <1>4 DEF ServeRequest, Answer, Block, AckOf, Bare
<1>5. CASE ServeAck(p)
  <2>1. srv'.tid = srv.tid BY <1>3, <1>5 DEF ServeAck, Transfer, Idle
  <2> QED BY <1>2, <1>5, <2>1 DEF ServeAck, Answer, Block
<1>6. CASE ServeData(p)
  <2>1. srv'.tid = srv.tid BY <1>3, <1>6 DEF ServeData, Transfer, Idle
  <2> QED BY <1>2, <1>6, <2>1 DEF ServeData, Answer, AckOf
<1> QED BY <1>1, <1>4, <1>5, <1>6

LEMMA NumbersAreNat ==
  ASSUME TypeOK
  PROVE  /\ tid \in Nat /\ srv.tid \in Nat
         /\ \A p \in toClient : p.tid \in Nat
         /\ \A p \in toServer : p.tid \in Nat
<1>1. \A t \in Tids : t \in Nat BY DEF Tids
<1>2. tid \in Nat BY DEF TypeOK
<1>3. srv.tid \in Nat
  <2>1. srv \in Transfer BY DEF TypeOK
  <2> QED BY <1>1, <2>1, TransferFacts DEF Idle
<1>4. \A p \in toClient : p.tid \in Nat BY <1>1, AnswerFacts DEF TypeOK
<1>5. \A p \in toServer : p.tid \in Nat BY <1>1, RequestFacts DEF TypeOK
<1> QED BY <1>2, <1>3, <1>4, <1>5

LEMMA NextTid ==
  ASSUME TypeOK, OpInv, TidInv, [Next]_vars
  PROVE  TidInv'
<1>1. CASE UNCHANGED vars
  BY <1>1 DEF TidInv, vars, client, network, server
<1>2. ASSUME NEW f \in Files, Get(f) \/ Put(f) PROVE TidInv'
  <2>1. tid' = tid + 1 /\ UNCHANGED <<toClient, toServer, srv>>
    BY <1>2 DEF Get, Put, NewTransfer, network, server
  <2> QED BY <2>1, NumbersAreNat DEF TidInv
<1>3. CASE Quit \/ GiveUp \/ GetTimeout \/ PutTimeout
  <2>1. UNCHANGED <<tid, toClient, toServer, srv>> /\ st' \notin {"send_rrq", "send_wrq"}
    BY <1>3 DEF Quit, GiveUp, GetTimeout, PutTimeout, network, server
  <2> QED BY <2>1 DEF TidInv
<1>4. CASE End \/ GetPacket \/ PutPacket
  <2>1. toClient' \subseteq toClient
    <3>1. CASE End BY <3>1 DEF End
    <3>2. CASE GetPacket BY <3>2 DEF GetPacket, network
    <3>3. CASE PutPacket BY <3>3 DEF PutPacket, network
    <3> QED BY <1>4, <3>1, <3>2, <3>3
  <2>2. toServer' \subseteq toServer BY <1>4 DEF End, GetPacket, PutPacket, network
  <2>3. UNCHANGED <<tid, srv>> /\ st' \notin {"send_rrq", "send_wrq"}
    <3>1. CASE End BY <3>1 DEF End
    <3>2. CASE GetPacket BY <3>2 DEF GetPacket, GetOther, GetData, server
    <3>3. CASE PutPacket BY <3>3 DEF PutPacket, PutAnswer, ReadBlock, server
    <3> QED BY <1>4, <3>1, <3>2, <3>3
  <2> QED BY <2>1, <2>2, <2>3 DEF TidInv
<1>5. CASE SendRrq \/ SendAck \/ SendAckAstray \/ SendWrq \/ SendData
  <2>1. UNCHANGED <<tid, srv, toClient>> /\ st' \notin {"send_rrq", "send_wrq"}
    BY <1>5 DEF SendRrq, SendAck, SendAckAstray, SendWrq, SendData, server
  <2>2. \A p \in toServer' : p \in toServer \/ p.tid = tid
    BY <1>5 DEF SendRrq, SendAck, SendAckAstray, SendWrq, SendData, ToSrv
  <2> QED BY <2>1, <2>2, NumbersAreNat DEF TidInv
<1>6. CASE Serve
  <2>1. UNCHANGED <<st, tid>> BY <1>6 DEF Serve, client
  <2> QED BY <1>6, <2>1, ServeNumbers DEF TidInv
<1>7. CASE Restart
  <2>1. UNCHANGED <<st, tid, toClient, toServer>> /\ srv'.tid = 0
    BY <1>7 DEF Restart, client, network, Idle
  <2> QED BY <2>1, NumbersAreNat DEF TidInv
<1> QED BY <1>1, <1>2, <1>3, <1>4, <1>5, <1>6, <1>7 DEF Next, Machine, Server

LEMMA NextOp ==
  ASSUME TypeOK, OpInv, [Next]_vars
  PROVE  OpInv'
<1>1. CASE UNCHANGED vars
  BY <1>1 DEF OpInv, vars, client
<1>2. ASSUME NEW f \in Files, Get(f) PROVE OpInv'
  <2>1. /\ st = "prompt" /\ st' = "send_rrq" /\ op' = "get" /\ file' = f /\ tid' = tid + 1
        /\ UNCHANGED <<last, expected, isLast, timeouts, known, shifted, out>>
    BY <1>2 DEF Get, NewTransfer
  <2>2. tid + 1 > 0 BY NumbersAreNat
  <2> QED BY <2>1, <2>2 DEF OpInv
<1>3. ASSUME NEW f \in Files, Put(f) PROVE OpInv'
  <2>1. /\ st = "prompt" /\ st' = "send_wrq" /\ op' = "put" /\ file' = f /\ tid' = tid + 1
        /\ UNCHANGED <<last, expected, isLast, timeouts, known, shifted, out>>
    BY <1>3 DEF Put, NewTransfer
  <2>2. tid + 1 > 0 BY NumbersAreNat
  <2> QED BY <2>1, <2>2 DEF OpInv
<1>4. CASE Quit
  <2>1. st = "prompt" /\ st' = "quit" /\ UNCHANGED <<op, file, tid, last, expected>>
    BY <1>4 DEF Quit
  <2> QED BY <2>1 DEF OpInv, TypeOK
<1>5. CASE GiveUp
  <2>1. /\ \/ st = "send_rrq" /\ st' = "read_error"
           \/ st = "send_wrq" /\ st' = "write_error"
        /\ UNCHANGED <<op, file, tid, last, expected>>
    BY <1>5 DEF GiveUp
  <2> QED BY <2>1 DEF OpInv
<1>6. CASE End
  <2>1. /\ st' = "prompt" /\ op' = "none" /\ last' = 0 /\ expected' = 0 /\ timeouts' = 0
        /\ isLast' = FALSE /\ known' = FALSE /\ shifted' = FALSE /\ out' = <<>>
    BY <1>6 DEF End
  <2> QED BY <2>1 DEF OpInv
<1>7. CASE SendRrq \/ SendWrq
  <2>1. /\ \/ st = "send_rrq" /\ st' = "wait_data"
           \/ st = "send_wrq" /\ st' = "wait_ack" /\ last' = 0 /\ expected' = 0
        /\ UNCHANGED <<op, file, tid, timeouts>>
    BY <1>7 DEF SendRrq, SendWrq
  <2> QED BY <2>1 DEF OpInv, MaxTimeouts
<1>8. CASE GetTimeout \/ PutTimeout
  <2>1. /\ timeouts' = timeouts + 1
        /\ \/ st = "wait_data" /\ st' = "send_ack" /\ timeouts + 1 # MaxTimeouts
           \/ st = "wait_data" /\ st' = "read_error"
           \/ st = "wait_ack" /\ st' = "wait_ack" /\ timeouts + 1 # MaxTimeouts
           \/ st = "wait_ack" /\ st' = "write_error"
        /\ UNCHANGED <<op, file, tid, last, expected>>
    BY <1>8 DEF GetTimeout, PutTimeout
  <2>2. timeouts < MaxTimeouts /\ timeouts \in Nat BY <2>1 DEF OpInv, TypeOK
  <2>3. timeouts + 1 # MaxTimeouts => timeouts' < MaxTimeouts
    BY <2>1, <2>2 DEF MaxTimeouts
  <2> QED BY <2>1, <2>3 DEF OpInv
<1>9. CASE GetPacket
  <2>1. /\ st = "wait_data" /\ st' \in {"wait_data", "send_ack", "read_error", "stopped"}
        /\ timeouts' \in {0, timeouts} /\ UNCHANGED <<op, file, tid>>
    BY <1>9 DEF GetPacket, GetOther, GetData
  <2> QED BY <2>1, InTransfer DEF OpInv, MaxTimeouts
<1>10. CASE SendAck \/ SendAckAstray
  <2>1. /\ st = "send_ack" /\ st' \in {"wait_data", "read_ok"}
        /\ UNCHANGED <<op, file, tid, timeouts>>
    BY <1>10 DEF SendAck, SendAckAstray
  <2> QED BY <2>1, InTransfer DEF OpInv
<1>11. CASE PutPacket
  <2>1. /\ st = "wait_ack" /\ st' \in {"send_data", "write_ok", "write_error", "stopped"}
        /\ timeouts' \in {0, timeouts} /\ UNCHANGED <<op, file, tid, expected>>
        /\ last' \in {last, expected}
    BY <1>11 DEF PutPacket, PutAnswer, ReadBlock
  <2> QED BY <2>1, InTransfer DEF OpInv, MaxTimeouts
<1>12. CASE SendData
  <2>1. /\ st = "send_data" /\ st' = "wait_ack" /\ U16(last + 1) # 2
        /\ expected' = U16(last + 1) /\ UNCHANGED <<op, file, tid, last, timeouts>>
    BY <1>12 DEF SendData
  <2>2. op = "put" /\ last \in {0, 1} BY <2>1, InTransfer DEF OpInv
  <2>3. expected' = 1 BY <2>1, <2>2, U16Facts, LastNumFact
  <2> QED BY <2>1, <2>2, <2>3 DEF OpInv
<1>13. CASE Serve \/ Restart
  BY <1>13 DEF OpInv, Serve, Restart, client
<1> QED
  BY <1>1, <1>2, <1>3, <1>4, <1>5, <1>6, <1>7, <1>8, <1>9, <1>10, <1>11, <1>12, <1>13
     DEF Next, Machine, Server

-----------------------------------------------------------------------------
(* A get.                                                                  *)

(* What holds of the network is kept by a step that loses packets of it,   *)
(* acknowledges a block not behind last, and does not lower last.          *)
LEMMA GetNetKept ==
  ASSUME TypeOK, GetNet, UNCHANGED <<tid, file, srv>>,
         last' \in Nat, last <= last', last \in Nat,
         toClient' \subseteq toClient,
         \A p \in toServer' : \/ p \in toServer
                              \/ p.type = "rrq" /\ p.file = file
                              \/ p.type = "ack" /\ p.blk \in Nat /\ p.blk <= last'
  PROVE  GetNet'
<1>1. ASSUME NEW p \in toClient', p.tid = tid', p.type = "data"
      PROVE  /\ p.blk \in 1..(last' + 1) /\ p.blk <= Blocks[file']
             /\ p.last = (p.blk = Blocks[file'])
  <2>1. p \in toClient /\ p.tid = tid /\ file' = file BY <1>1
  <2>2. p.blk \in 1..(last + 1) /\ p.blk <= Blocks[file] /\ p.last = (p.blk = Blocks[file])
    BY <1>1, <2>1 DEF GetNet
  <2>3. p.blk \in 1..(last' + 1) BY <2>2
  <2> QED BY <2>1, <2>2, <2>3
<1>2. ASSUME NEW p \in toServer', p.tid = tid'
      PROVE  \/ p.type = "rrq" /\ p.file = file'
             \/ p.type = "ack" /\ p.blk <= last'
  <2>1. CASE p \in toServer
    <3>1. p.type = "ack" => p.blk \in Nat
      BY <2>1, RequestFacts, NumFacts DEF TypeOK
    <3> QED BY <1>2, <2>1, <3>1 DEF GetNet
  <2> QED BY <1>2, <2>1
<1>3. srv'.tid = tid' =>
       /\ srv'.mode = "send" /\ srv'.file = file'
       /\ srv'.blk \in 1..(last' + 1) /\ srv'.blk <= Blocks[file']
  BY DEF GetNet
<1> QED BY <1>1, <1>2, <1>3 DEF GetNet

(* A block that is written behind all the blocks before it.                *)
LEMMA InOrderAppend ==
  ASSUME InOrder, out \in Seq(Nums), last \in Nums, last' \in Nums,
         NEW b \in Nums, b \in 1..(last + 1), out' = Append(out, b),
         last' = IF b = last + 1 THEN b ELSE last
  PROVE  InOrder'
<1>1. last \in Nat /\ last' \in Nat /\ b \in Nat BY NumFacts
<1>2. /\ Len(out) \in Nat /\ DOMAIN out = 1..Len(out) /\ DOMAIN out' = 1..(Len(out) + 1)
      /\ \A i \in 1..Len(out) : out'[i] = out[i] /\ out[i] \in Nat
      /\ out'[Len(out) + 1] = b
  <2>1. Len(out) \in Nat /\ DOMAIN out = 1..Len(out) BY DEF InOrder
  <2>2. DOMAIN out' = 1..(Len(out) + 1) BY <2>1
  <2>3. \A i \in 1..Len(out) : out'[i] = out[i] BY <2>1
  <2>4. \A i \in 1..Len(out) : out[i] \in Nums BY <2>1
  <2>5. out'[Len(out) + 1] = b BY <2>1
  <2> QED BY <2>1, <2>2, <2>3, <2>4, <2>5, NumFacts
<1>3. last <= last' /\ b <= last' BY <1>1
<1>4. \A i \in DOMAIN out' : out'[i] <= last'
  <2> TAKE i \in DOMAIN out'
  <2>1. CASE i = Len(out) + 1 BY <1>2, <1>3, <2>1
  <2>2. CASE i \in 1..Len(out)
    <3>1. out'[i] <= last /\ out'[i] \in Nat BY <1>2, <2>2 DEF InOrder
    <3> QED BY <1>1, <1>3, <3>1
  <2> QED BY <1>2, <2>1, <2>2
<1>5. ASSUME NEW i \in DOMAIN out', NEW c \in 1..(out'[i] - 1)
      PROVE  \E j \in 1..(i - 1) : out'[j] = c
  <2>1. CASE i = Len(out) + 1
    <3>1. c \in 1..last BY <1>1, <1>2, <2>1
    <3>2. PICK j \in DOMAIN out : out[j] = c BY <3>1 DEF InOrder
    <3>3. j \in 1..(i - 1) /\ out'[j] = c BY <1>2, <2>1, <3>2
    <3> QED BY <3>3
  <2>2. CASE i \in 1..Len(out)
    <3>1. i \in DOMAIN out /\ c \in 1..(out[i] - 1) BY <1>2, <2>2
    <3>2. PICK j \in 1..(i - 1) : out[j] = c BY <3>1 DEF InOrder
    <3>3. j \in 1..Len(out) BY <1>2, <2>2
    <3>4. out'[j] = c BY <1>2, <3>2, <3>3
    <3> QED BY <3>4
  <2> QED BY <1>2, <2>1, <2>2
<1>6. ASSUME NEW c \in 1..last'
      PROVE  \E j \in DOMAIN out' : out'[j] = c
  <2>1. CASE c = b
    <3>1. Len(out) + 1 \in DOMAIN out' /\ out'[Len(out) + 1] = c BY <1>2, <2>1
    <3> QED BY <3>1
  <2>2. CASE c # b
    <3>1. c \in 1..last BY <1>1, <2>2
    <3>2. PICK j \in DOMAIN out : out[j] = c BY <3>1 DEF InOrder
    <3>3. j \in DOMAIN out' /\ out'[j] = c BY <1>2, <3>2
    <3> QED BY <3>3
  <2> QED BY <2>1, <2>2
<1> QED BY <1>4, <1>5, <1>6 DEF InOrder

(* The steps of a transfer keep its command, and what was odd stays odd.   *)
LEMMA GetGoesOn ==
  ASSUME TypeOK, OpInv, GetInv, UNCHANGED op, odd \subseteq odd',
         op' = "get", "stale" \notin odd'
  PROVE  /\ op = "get" /\ GetNet /\ file \in Files /\ tid \in Nat /\ tid > 0
         /\ last <= Blocks[file] /\ (isLast => last = Blocks[file])
         /\ st = "wait_data" => expected = U16(last + 1)
         /\ st = "read_ok" => isLast
         /\ "cut" \notin odd' => InOrder
<1>1. op = "get" /\ "stale" \notin odd /\ ("cut" \notin odd' => "cut" \notin odd) OBVIOUS
<1> QED BY <1>1, NumbersAreNat DEF GetInv, OpInv

LEMMA GetReceives ==
  ASSUME TypeOK, OpInv, GetInv, GetPacket
  PROVE  GetInv'
<1> SUFFICES ASSUME op' = "get", "stale" \notin odd'
             PROVE  /\ GetNet' /\ last' <= Blocks[file'] /\ (isLast' => last' = Blocks[file'])
                    /\ st' = "wait_data" => expected' = U16(last' + 1)
                    /\ st' = "read_ok" => isLast'
                    /\ "cut" \notin odd' => InOrder'
  BY DEF GetInv
<1>1. PICK p \in toClient : GetOther(p) \/ GetData(p)
  BY DEF GetPacket
<1>2. st = "wait_data" /\ UNCHANGED <<op, file, tid, expected, toServer, srv>>
  BY DEF GetPacket, network, server
<1>3. toClient' = toClient BY DEF GetPacket, network
<1>4. odd \subseteq odd' BY <1>1 DEF GetOther, GetData
<1>5. /\ GetNet /\ file \in Files /\ last <= Blocks[file] /\ (isLast => last = Blocks[file])
      /\ expected = U16(last + 1) /\ ("cut" \notin odd' => InOrder)
  BY <1>2, <1>4, GetGoesOn
<1>6. last \in Nums /\ last \in Nat /\ last <= LastNum BY NumFacts DEF TypeOK
<1>7. CASE UNCHANGED <<last, isLast, out, odd>> /\ st' \in {"wait_data", "read_error", "stopped"}
  <2>1. GetNet' BY <1>2, <1>3, <1>5, <1>6, <1>7, GetNetKept
  <2>2. InOrder => InOrder' BY <1>7 DEF InOrder
  <2> QED BY <1>2, <1>5, <1>7, <2>1, <2>2
<1>8. CASE GetData(p) /\ st' = "send_ack"
  <2>1. /\ p.type = "data" /\ isLast' = (isLast \/ p.last)
        /\ last' = IF p.blk = expected THEN p.blk ELSE last
        /\ p.tid = tid
        /\ "cut" \notin odd' =>
             out' = IF \A i \in DOMAIN out : out[i] # p.blk THEN Append(out, p.blk) ELSE out
    BY <1>8 DEF GetData
  <2>2. /\ p.blk \in 1..(last + 1) /\ p.blk <= Blocks[file] /\ p.last = (p.blk = Blocks[file])
    BY <1>5, <2>1 DEF GetNet
  <2>3. p.blk \in Nums /\ p.blk \in Nat
    <3>1. p \in ToClient BY DEF TypeOK
    <3> QED BY <2>1, <3>1, AnswerFacts, NumFacts
  <2>4. Blocks[file] \in Nat /\ Blocks[file] <= LastNum BY <1>5, BlockFacts, NumFacts
  <2>5. p.blk = expected => p.blk = last + 1
    <3>1. CASE last < LastNum
      <4>1. last + 1 \in Nat /\ last + 1 <= LastNum BY <1>6, <3>1, LastNumFact
      <4> QED BY <1>5, <4>1, U16Facts
    <3>2. CASE last = LastNum
      <4>1. expected = 0 BY <1>5, <3>2 DEF U16, LastNum
      <4> QED BY <2>2, <4>1
    <3> QED BY <1>6, <3>1, <3>2, LastNumFact
  <2>6. p.blk = last + 1 => p.blk = expected
    <3>1. p.blk = last + 1 => last + 1 \in Nat /\ last + 1 <= LastNum
      BY <1>6, <2>2, <2>4, LastNumFact
    <3> QED BY <1>5, <3>1, U16Facts
  <2>7. last' = IF p.blk = last + 1 THEN p.blk ELSE last BY <2>1, <2>5, <2>6
  <2>8. last' \in Nums /\ last' \in Nat /\ last <= last' /\ last' <= Blocks[file]
    BY <1>5, <1>6, <2>2, <2>3, <2>7
  <2>9. GetNet' BY <1>2, <1>3, <1>5, <1>6, <2>8, GetNetKept
  <2>10. isLast' => last' = Blocks[file]
    <3>1. CASE isLast BY <1>5, <1>6, <2>2, <2>3, <2>4, <2>7, <3>1
    <3>2. CASE p.last
      <4>1. p.blk = Blocks[file] BY <2>2, <3>2
      <4> QED BY <1>5, <1>6, <2>2, <2>3, <2>4, <2>7, <4>1
    <3> QED BY <2>1, <3>1, <3>2
  <2>11. ASSUME "cut" \notin odd' PROVE InOrder'
    <3>1. CASE \A i \in DOMAIN out : out[i] # p.blk
      <4>1. out' = Append(out, p.blk) BY <2>1, <2>11, <3>1
      <4> QED BY <1>5, <1>6, <2>2, <2>3, <2>7, <2>8, <2>11, <4>1, InOrderAppend DEF TypeOK
    <3>2. CASE \E i \in DOMAIN out : out[i] = p.blk
      <4>1. out' = out BY <2>1, <2>11, <3>2
      <4>2. p.blk <= last BY <1>5, <2>11, <3>2 DEF InOrder
      <4>3. last' = last BY <1>6, <2>3, <2>7, <4>2
      <4> QED BY <1>5, <2>11, <4>1, <4>3 DEF InOrder
    <3> QED BY <3>1, <3>2
  <2> QED BY <1>2, <1>8, <2>8, <2>9, <2>10, <2>11
<1> QED BY <1>1, <1>2, <1>7, <1>8 DEF GetOther, GetData

LEMMA GetSends ==
  ASSUME TypeOK, TidInv, OpInv, GetInv, SendRrq \/ SendAck \/ SendAckAstray \/ GetTimeout
  PROVE  GetInv'
<1> SUFFICES ASSUME op' = "get", "stale" \notin odd'
             PROVE  /\ GetNet' /\ last' <= Blocks[file'] /\ (isLast' => last' = Blocks[file'])
                    /\ st' = "wait_data" => expected' = U16(last' + 1)
                    /\ st' = "read_ok" => isLast'
                    /\ "cut" \notin odd' => InOrder'
  BY DEF GetInv
<1>1. UNCHANGED <<op, file, tid, isLast, out, toClient, srv, odd>>
  BY DEF SendRrq, SendAck, SendAckAstray, GetTimeout, server, network
<1>2. /\ GetNet /\ file \in Files /\ last <= Blocks[file] /\ (isLast => last = Blocks[file])
      /\ ("cut" \notin odd' => InOrder)
  BY <1>1, GetGoesOn
<1>3. last' = last
  BY DEF SendRrq, SendAck, SendAckAstray, GetTimeout, OpInv
<1>4. last \in Nat BY NumFacts DEF TypeOK
<1>5. InOrder => InOrder' BY <1>1, <1>3 DEF InOrder
<1>6. \A p \in toServer' : \/ p \in toServer
                           \/ p.type = "rrq" /\ p.file = file
                           \/ p.type = "ack" /\ p.blk \in Nat /\ p.blk <= last'
  <2>1. CASE SendRrq BY <2>1 DEF SendRrq, ToSrv
  <2>2. CASE SendAck \/ SendAckAstray BY <1>3, <1>4, <2>2 DEF SendAck, SendAckAstray, ToSrv
  <2>3. CASE GetTimeout BY <2>3 DEF GetTimeout, network
  <2> QED BY <2>1, <2>2, <2>3
<1>7. GetNet' BY <1>1, <1>2, <1>3, <1>4, <1>6, GetNetKept
<1>8. st' = "wait_data" => expected' = U16(last' + 1)
  <2>1. CASE SendRrq
    <3>1. last' = 0 /\ expected' = 1 BY <2>1 DEF SendRrq
    <3> QED BY <3>1, U16Facts, LastNumFact
  <2>2. CASE SendAck \/ SendAckAstray BY <1>3, <2>2 DEF SendAck, SendAckAstray
  <2>3. CASE GetTimeout BY <2>3 DEF GetTimeout
  <2> QED BY <2>1, <2>2, <2>3
<1>9. st' = "read_ok" => isLast'
  BY <1>1 DEF SendRrq, SendAck, SendAckAstray, GetTimeout
<1> QED BY <1>1, <1>2, <1>3, <1>5, <1>7, <1>8, <1>9

LEMMA GetServed ==
  ASSUME TypeOK, TidInv, OpInv, GetInv, Serve \/ Restart
  PROVE  GetInv'
<1> SUFFICES ASSUME op' = "get", "stale" \notin odd'
             PROVE  /\ GetNet' /\ last' <= Blocks[file'] /\ (isLast' => last' = Blocks[file'])
                    /\ st' = "wait_data" => expected' = U16(last' + 1)
                    /\ st' = "read_ok" => isLast'
                    /\ "cut" \notin odd' => InOrder'
  BY DEF GetInv
<1>1. UNCHANGED <<st, op, file, tid, last, expected, isLast, out>>
  BY DEF Serve, Restart, client
<1>2. odd \subseteq odd' BY DEF Serve, Restart
<1>3. /\ GetNet /\ file \in Files /\ last <= Blocks[file] /\ (isLast => last = Blocks[file])
      /\ st = "wait_data" => expected = U16(last + 1)
      /\ st = "read_ok" => isLast
      /\ ("cut" \notin odd' => InOrder) /\ tid > 0 /\ tid \in Nat
  BY <1>1, <1>2, GetGoesOn
<1>4. last \in Nat BY NumFacts DEF TypeOK
<1>5. InOrder => InOrder' BY <1>1 DEF InOrder
<1>6. Blocks[file] \in Nat /\ Blocks[file] >= 1 BY <1>3, BlockFacts, NumFacts
<1>7. srv \in Transfer BY DEF TypeOK
<1> DEFINE NewData(q) == q.tid = tid /\ q.type = "data" =>
             /\ q.blk \in 1..(last + 1) /\ q.blk <= Blocks[file]
             /\ q.last = (q.blk = Blocks[file])
           SrvOK(s) == s.tid = tid =>
             /\ s.mode = "send" /\ s.file = file
             /\ s.blk \in 1..(last + 1) /\ s.blk <= Blocks[file]
<1>8. ASSUME NEW s \in Transfer, SrvOK(s) PROVE NewData(Block(s)) /\ NewData(AckOf(s))
  BY <1>8 DEF Block, AckOf
<1>9. SrvOK(srv) BY <1>3 DEF GetNet
<1>10. /\ toServer' = toServer /\ SrvOK(srv')
       /\ \A q \in toClient' : q \in toClient \/ NewData(q)
  <2>1. CASE Serve
    <3>1. PICK p \in toServer : /\ (ServeRequest(p) \/ ServeAck(p) \/ ServeData(p))
                                /\ odd' = odd \cup IF Foreign(p) THEN {"stale"} ELSE {}
      BY <2>1 DEF Serve
    <3>2. toServer' = toServer BY <2>1 DEF Serve
    <3>3. ~Foreign(p) BY <3>1
    <3>4. p \in ToServer BY DEF TypeOK
    <3>5. CASE ServeRequest(p)
      <4>1. p.type \in {"rrq", "wrq"} BY <3>5 DEF ServeRequest
      <4>2. p.tid = tid BY <3>3, <4>1 DEF Foreign
      <4>3. p.type = "rrq" /\ p.file = file BY <1>3, <4>1, <4>2 DEF GetNet
      <4>4. CASE /\ srv' = srv
                 /\ Answer(Bare(p.tid, "err")) \/ Answer(Bare(p.tid, "short"))
        BY <1>9, <3>2, <4>4 DEF Answer, Bare
      <4>5. CASE srv' = [mode |-> "send", tid |-> p.tid, file |-> p.file, blk |-> 1]
                 /\ Answer(Block(srv'))
        <5>1. SrvOK(srv') BY <1>4, <1>6, <4>3, <4>5
        <5>2. NewData(Block(srv')) BY <5>1 DEF Block
        <5> QED BY <3>2, <4>5, <5>1, <5>2 DEF Answer
      <4> QED BY <3>5, <4>3, <4>4, <4>5 DEF ServeRequest
    <3>6. CASE ServeAck(p)
      <4>1. /\ p.type = "ack" /\ srv.mode = "send" /\ p.blk = srv.blk
            /\ srv.blk < Blocks[srv.file]
            /\ srv' = [srv EXCEPT !.blk = @ + 1] /\ Answer(Block(srv'))
        BY <3>6 DEF ServeAck
      <4>2. p.tid = srv.tid BY <3>3, <4>1 DEF Foreign
      <4>3. srv \in [mode : {"send", "recv"}, tid : Tids, file : Files, blk : Nums]
        BY <1>7, <4>1 DEF Transfer, Idle
      <4>4. srv'.mode = "send" /\ srv'.tid = srv.tid /\ srv'.file = srv.file
            /\ srv'.blk = srv.blk + 1
        BY <4>1, <4>3
      <4>5. SrvOK(srv')
        <5>1. SUFFICES ASSUME srv.tid = tid
                       PROVE  srv'.blk \in 1..(last + 1) /\ srv'.blk <= Blocks[file]
          BY <1>9, <4>4
        <5>2. p.blk <= last BY <1>3, <4>1, <4>2, <5>1 DEF GetNet
        <5>3. srv.file = file /\ srv.blk \in Nat BY <1>9, <5>1, <1>4
        <5> QED BY <1>4, <1>6, <4>1, <4>4, <5>2, <5>3
      <4>6. NewData(Block(srv')) BY <4>5 DEF Block
      <4> QED BY <3>2, <4>1, <4>5, <4>6 DEF Answer
    <3>7. CASE ServeData(p)
      <4>1. srv.mode = "recv" /\ Answer(AckOf(srv'))
        BY <3>7 DEF ServeData
      <4>2. srv'.tid = srv.tid BY <1>7, <3>7 DEF ServeData, Transfer, Idle
      <4>3. srv.tid # tid BY <1>9, <4>1
      <4> QED BY <3>2, <4>1, <4>2, <4>3 DEF Answer, AckOf
    <3> QED BY <3>1, <3>5, <3>6, <3>7
  <2>2. CASE Restart
    <3>1. srv'.tid = 0 /\ UNCHANGED <<toServer, toClient>> BY <2>2 DEF Restart, network, Idle
    <3> QED BY <1>3, <3>1
  <2> QED BY <2>1, <2>2
<1>11. GetNet'
  <2>1. ASSUME NEW p \in toClient', p.tid = tid', p.type = "data"
        PROVE  /\ p.blk \in 1..(last' + 1) /\ p.blk <= Blocks[file']
               /\ p.last = (p.blk = Blocks[file'])
    BY <1>1, <1>3, <1>10, <2>1 DEF GetNet
  <2>2. ASSUME NEW p \in toServer', p.tid = tid'
        PROVE  \/ p.type = "rrq" /\ p.file = file'
               \/ p.type = "ack" /\ p.blk <= last'
    BY <1>1, <1>3, <1>10, <2>2 DEF GetNet
  <2> QED BY <1>1, <1>10, <2>1, <2>2 DEF GetNet
<1> QED BY <1>1, <1>3, <1>5, <1>11

LEMMA NextGet ==
  ASSUME TypeOK, TidInv, OpInv, GetInv, [Next]_vars
  PROVE  GetInv'
<1>1. CASE UNCHANGED vars
  BY <1>1 DEF GetInv, GetNet, InOrder, vars, client, network, server
<1>2. ASSUME NEW f \in Files, Get(f) PROVE GetInv'
  <2>1. /\ st = "prompt" /\ st' = "send_rrq" /\ op' = "get" /\ file' = f /\ tid' = tid + 1
        /\ UNCHANGED <<last, expected, isLast, out, toClient, toServer, srv>>
    BY <1>2 DEF Get, NewTransfer, network, server
  <2>2. last = 0 /\ ~isLast /\ out = <<>> BY <2>1 DEF OpInv
  <2>3. /\ \A p \in toClient' : p.tid # tid'
        /\ \A p \in toServer' : p.tid # tid'
        /\ srv'.tid # tid'
    BY <2>1, NumbersAreNat DEF TidInv
  <2>4. GetNet' BY <2>3 DEF GetNet
  <2>5. InOrder' BY <2>1, <2>2 DEF InOrder
  <2>6. last' <= Blocks[file'] BY <2>1, <2>2, BlockFacts, NumFacts
  <2> QED BY <2>1, <2>2, <2>4, <2>5, <2>6 DEF GetInv
<1>3. ASSUME NEW f \in Files, Put(f) PROVE GetInv'
  BY <1>3 DEF Put, NewTransfer, GetInv
<1>4. CASE Quit \/ End
  <2>1. op' = "none" BY <1>4 DEF Quit, End, OpInv, TypeOK
  <2> QED BY <2>1 DEF GetInv
<1>5. CASE GiveUp
  <2>1. /\ st' \in {"read_error", "write_error"}
        /\ UNCHANGED <<op, file, tid, last, isLast, out, toClient, toServer, srv, odd>>
    BY <1>5 DEF GiveUp, network, server
  <2> QED BY <2>1 DEF GetInv, GetNet, InOrder
<1>6. CASE SendWrq \/ PutTimeout \/ PutPacket \/ SendData
  <2>1. st \in {"send_wrq", "wait_ack", "send_data"} /\ op' = op
    BY <1>6 DEF SendWrq, PutTimeout, PutPacket, SendData
  <2>2. op' = "put" BY <2>1, InTransfer
  <2> QED BY <2>2 DEF GetInv
<1> QED BY <1>1, <1>2, <1>3, <1>4, <1>5, <1>6, GetReceives, GetSends, GetServed
        DEF Next, Machine, Server

-----------------------------------------------------------------------------
(* A put.                                                                  *)

PutBody ==
  /\ PutNet
  /\ last = 0
  /\ expected = 0 /\ st # "send_data" => ~isLast
  /\ isLast => Blocks[file] = 1
  /\ st = "send_data" => expected = 0
  /\ st = "write_ok" => isLast /\ srv.tid = tid /\ Len(store) = 1

LEMMA PutGoesOn ==
  ASSUME TypeOK, OpInv, PutInv, PutLive, odd \subseteq odd',
         odd' \cap {"stale", "restart"} = {}
  PROVE  PutBody /\ file \in Files /\ tid \in Nat /\ tid > 0
<1>1. odd \cap {"stale", "restart"} = {} OBVIOUS
<1> QED BY <1>1, NumbersAreNat DEF PutInv, PutLive, PutBody, OpInv

LEMMA PutSends ==
  ASSUME TypeOK, TidInv, OpInv, PutInv, SendWrq \/ SendData \/ PutTimeout
  PROVE  PutInv'
<1> SUFFICES ASSUME PutLive', odd' \cap {"stale", "restart"} = {}
             PROVE  PutBody'
  BY DEF PutInv, PutBody
<1>1. UNCHANGED <<op, file, tid, isLast, toClient, srv, store, odd, shifted>>
  BY DEF SendWrq, SendData, PutTimeout, server, network
<1>2. /\ st \in {"send_wrq", "wait_ack"} \/ (st = "send_data" /\ last = 0)
      /\ st' = "wait_ack" /\ last' = last
  <2>1. CASE SendWrq BY <2>1 DEF SendWrq, OpInv
  <2>2. CASE PutTimeout BY <2>2 DEF PutTimeout, PutLive
  <2>3. CASE SendData
    <3>1. st = "send_data" /\ st' = "wait_ack" /\ U16(last + 1) # 2 /\ last' = last
      BY <2>3 DEF SendData
    <3>2. last \in {0, 1} BY <3>1, InTransfer DEF OpInv
    <3> QED BY <3>1, <3>2, U16Facts, LastNumFact
  <2> QED BY <2>1, <2>2, <2>3
<1>3. op = "put" BY <1>2, InTransfer
<1>4. PutBody /\ file \in Files
  BY <1>1, <1>2, <1>3, PutGoesOn DEF PutLive
<1>5. CASE SendWrq
  <2>1. /\ st = "send_wrq" /\ expected' = 0 /\ expected = 0
        /\ toServer' = toServer \cup {[type |-> "wrq", tid |-> tid, file |-> file]}
    BY <1>5 DEF SendWrq, ToSrv, OpInv
  <2>2. \A p \in toServer' : p \in toServer \/ p.type = "wrq" BY <2>1
  <2>3. PutNet' BY <1>1, <1>4, <2>1, <2>2 DEF PutNet, PutBody
  <2> QED BY <1>1, <1>2, <1>4, <2>1, <2>3 DEF PutBody
<1>6. CASE PutTimeout
  <2>1. expected' = expected /\ toServer' = toServer /\ st = "wait_ack"
    BY <1>6 DEF PutTimeout, network
  <2>2. PutNet' BY <1>1, <1>4, <2>1 DEF PutNet, PutBody
  <2> QED BY <1>1, <1>2, <1>4, <2>1, <2>2 DEF PutBody
<1>7. CASE SendData
  <2>1. U16(last + 1) = 1 BY <1>4, U16Facts, LastNumFact DEF PutBody
  <2>2. /\ st = "send_data" /\ expected' = 1
        /\ toServer' = toServer \cup {[type |-> "data", tid |-> tid, blk |-> 1,
                                       last |-> isLast, good |-> ~shifted]}
    BY <1>7, <2>1 DEF SendData, ToSrv
  <2>3. \A p \in toServer' : \/ p \in toServer
                             \/ p.type = "data" /\ p.blk = 1 /\ (p.good \/ shifted)
    <3> DEFINE d == [type |-> "data", tid |-> tid, blk |-> 1, last |-> isLast, good |-> ~shifted]
    <3>1. d.type = "data" /\ d.blk = 1 OBVIOUS
    <3>2. d.good = ~shifted OBVIOUS
    <3>3. d.good \/ shifted BY <3>2, Zenon
    <3>4. \A p \in toServer' : p \in toServer \/ p = d BY <2>2
    <3> HIDE DEF d
    <3> QED BY <3>1, <3>3, <3>4
  <2>4. PutNet'
    <3>1. \A p \in toClient' : p.tid = tid' /\ p.type = "ack" =>
            p.blk = 0 \/ (p.blk = 1 /\ srv'.tid = tid' /\ Len(store') = 1)
      BY <1>1, <1>4 DEF PutNet, PutBody
    <3>2. ASSUME NEW p \in toServer', p.tid = tid'
          PROVE  \/ p.type = "wrq"
                 \/ p.type = "data" /\ p.blk = 1 /\ expected' = 1 /\ (p.good \/ shifted')
      BY <1>1, <1>4, <2>2, <2>3, <3>2 DEF PutNet, PutBody
    <3>3. srv'.tid = tid' =>
            /\ srv'.mode = "recv" /\ srv'.blk = Len(store')
            /\ Len(store') = 0 \/ (Len(store') = 1 /\ expected' = 1)
            /\ \A i \in DOMAIN store' : store'[i].blk = i /\ (store'[i].good \/ shifted')
      BY <1>1, <1>4, <2>2 DEF PutNet, PutBody
    <3> QED BY <3>1, <3>2, <3>3 DEF PutNet
  <2> QED BY <1>1, <1>2, <1>4, <2>2, <2>4 DEF PutBody
<1> QED BY <1>5, <1>6, <1>7

LEMMA PutReceives ==
  ASSUME TypeOK, TidInv, OpInv, PutInv, PutPacket
  PROVE  PutInv'
<1> SUFFICES ASSUME PutLive', odd' \cap {"stale", "restart"} = {}
             PROVE  PutBody'
  BY DEF PutInv, PutBody
<1>1. PICK p \in toClient : /\ PutAnswer(p)
                            /\ odd' = odd \cup (IF p.tid = tid THEN {} ELSE {"stale"})
  BY DEF PutPacket
<1>2. st = "wait_ack" /\ UNCHANGED <<op, file, tid, expected, toServer, srv, store>>
  BY DEF PutPacket, network, server
<1>3. toClient' = toClient /\ p.tid = tid BY <1>1 DEF PutPacket, network
<1>4. op = "put" BY <1>2, InTransfer
<1>5. PutBody /\ file \in Files /\ tid \in Nat BY <1>1, <1>2, <1>4, PutGoesOn DEF PutLive
<1>6. CASE Acked(p) /\ isLast /\ st' = "write_ok" /\ UNCHANGED <<last, isLast, shifted>>
  <2>1. expected = 1 BY <1>2, <1>4, <1>5, <1>6 DEF PutBody, OpInv
  <2>2. p.type = "ack" /\ p.blk = 1 BY <1>6, <2>1 DEF Acked, Number
  <2>3. srv.tid = tid /\ Len(store) = 1 BY <1>3, <1>5, <2>2 DEF PutBody, PutNet
  <2>4. PutNet' BY <1>2, <1>3, <1>5, <1>6 DEF PutNet, PutBody
  <2> QED BY <1>2, <1>5, <1>6, <2>3, <2>4 DEF PutBody
<1>7. CASE ReadBlock(p)
  <2>1. /\ st' = "send_data" /\ last' = expected
        /\ isLast' = (expected + 1 = Blocks[file])
    BY <1>7 DEF ReadBlock
  <2>2. last' = 0 /\ expected = 0 BY <2>1 DEF PutLive
  <2>3. \A q \in toServer : q.tid = tid => q.type = "wrq" BY <1>5, <2>2 DEF PutBody, PutNet
  <2>4. srv.tid = tid => Len(store) = 0 BY <1>5, <2>2 DEF PutBody, PutNet
  <2>5. PutNet'
    <3>1. store \in Seq(ToServer) BY DEF TypeOK
    <3>2. srv.tid = tid => DOMAIN store = {} BY <2>4, <3>1
    <3>3. \A q \in toClient' : q.tid = tid' /\ q.type = "ack" =>
            q.blk = 0 \/ (q.blk = 1 /\ srv'.tid = tid' /\ Len(store') = 1)
      BY <1>2, <1>3, <1>5 DEF PutNet, PutBody
    <3>4. \A q \in toServer' : q.tid = tid' => q.type = "wrq" BY <1>2, <2>3
    <3>5. srv'.tid = tid' =>
            /\ srv'.mode = "recv" /\ srv'.blk = Len(store') /\ Len(store') = 0
      BY <1>2, <1>5, <2>4 DEF PutNet, PutBody
    <3>6. srv'.tid = tid' =>
            \A i \in DOMAIN store' : store'[i].blk = i /\ (store'[i].good \/ shifted')
      BY <1>2, <3>2
    <3> QED BY <3>3, <3>4, <3>5, <3>6 DEF PutNet
  <2>6. isLast' => Blocks[file'] = 1
    <3>1. isLast' => expected + 1 = Blocks[file] BY <2>1, Zenon
    <3>2. expected + 1 = 1 BY <2>2
    <3> QED BY <1>2, <3>1, <3>2, Zenon
  <2>7. st' = "send_data" /\ expected' = 0 BY <1>2, <2>1, <2>2
  <2> QED BY <2>2, <2>5, <2>6, <2>7 DEF PutBody
<1>8. CASE st' \in {"write_error", "stopped"}
  BY <1>8 DEF PutLive
<1> QED BY <1>1, <1>6, <1>7, <1>8 DEF PutAnswer

LEMMA PutServed ==
  ASSUME TypeOK, TidInv, OpInv, PutInv, Serve \/ Restart
  PROVE  PutInv'
<1> SUFFICES ASSUME PutLive', odd' \cap {"stale", "restart"} = {}
             PROVE  PutBody'
  BY DEF PutInv, PutBody
<1>1. UNCHANGED <<st, op, file, tid, last, expected, isLast, shifted>>
  BY DEF Serve, Restart, client
<1>2. odd \subseteq odd' BY DEF Serve, Restart
<1>3. PutBody /\ tid > 0 BY <1>1, <1>2, PutGoesOn DEF PutLive
<1>4. srv \in Transfer /\ store \in Seq(ToServer) BY DEF TypeOK
<1> DEFINE AckOK(q, s, c) == q.tid = tid /\ q.type = "ack" =>
             q.blk = 0 \/ (q.blk = 1 /\ s.tid = tid /\ Len(c) = 1)
           SrvOK(s, c) == s.tid = tid =>
             /\ s.mode = "recv" /\ s.blk = Len(c)
             /\ Len(c) = 0 \/ (Len(c) = 1 /\ expected = 1)
             /\ \A i \in DOMAIN c : c[i].blk = i /\ (c[i].good \/ shifted)
<1>5. SrvOK(srv, store) BY <1>3 DEF PutNet, PutBody
<1>6. \A q \in toClient : AckOK(q, srv, store) BY <1>3 DEF PutNet, PutBody
<1>7. /\ toServer' = toServer /\ SrvOK(srv', store')
      /\ \A q \in toClient' : AckOK(q, srv', store')
      /\ st = "write_ok" => srv'.tid = tid /\ Len(store') = 1
  <2>1. CASE Serve
    <3>1. PICK p \in toServer : /\ (ServeRequest(p) \/ ServeAck(p) \/ ServeData(p))
                                /\ odd' = odd \cup IF Foreign(p) THEN {"stale"} ELSE {}
      BY <2>1 DEF Serve
    <3>2. toServer' = toServer BY <2>1 DEF Serve
    <3>3. ~Foreign(p) BY <3>1
    <3>4. st = "write_ok" => srv.tid = tid /\ Len(store) = 1 BY <1>3 DEF PutBody
    <3>5. CASE ServeRequest(p)
      <4>1. p.type \in {"rrq", "wrq"} BY <3>5 DEF ServeRequest
      <4>2. p.tid = tid BY <3>3, <4>1 DEF Foreign
      <4>3. p.type = "wrq" BY <1>3, <4>1, <4>2 DEF PutNet, PutBody
      <4>4. CASE /\ srv' = srv /\ store' = store
                 /\ Answer(Bare(p.tid, "err")) \/ Answer(Bare(p.tid, "short"))
        BY <1>5, <1>6, <3>2, <3>4, <4>4 DEF Answer, Bare
      <4>5. CASE /\ srv.tid # p.tid /\ store' = <<>>
                 /\ srv' = [mode |-> "recv", tid |-> p.tid, file |-> p.file, blk |-> 0]
                 /\ Answer(AckOf(srv')) \/ Answer(Bare(p.tid, "oack"))
        <5>1. SrvOK(srv', store') BY <4>5
        <5>2. \A q \in toClient : q.tid = tid /\ q.type = "ack" => q.blk = 0
          BY <1>6, <4>2, <4>5
        <5>3. \A q \in toClient' : AckOK(q, srv', store')
          BY <4>5, <5>2 DEF Answer, AckOf, Bare
        <5> QED BY <3>2, <3>4, <4>2, <4>5, <5>1, <5>3
      <4> QED BY <3>5, <4>3, <4>4, <4>5 DEF ServeRequest
    <3>6. CASE ServeAck(p)
      <4>1. /\ srv.mode = "send" /\ store' = store
            /\ srv' = [srv EXCEPT !.blk = @ + 1] /\ Answer(Block(srv'))
        BY <3>6 DEF ServeAck
      <4>2. srv'.tid = srv.tid BY <1>4, <4>1 DEF Transfer, Idle
      <4>3. srv.tid # tid BY <1>5, <4>1
      <4>4. \A q \in toClient' : AckOK(q, srv', store')
        BY <1>6, <4>1, <4>2 DEF Answer, Block
      <4> QED BY <3>2, <3>4, <4>2, <4>3, <4>4
    <3>7. CASE ServeData(p)
      <4>1. /\ p.type = "data" /\ srv.mode = "recv" /\ Answer(AckOf(srv'))
            /\ srv' = IF p.blk = srv.blk + 1 THEN [srv EXCEPT !.blk = @ + 1] ELSE srv
            /\ store' = IF p.blk = srv.blk + 1 THEN Append(store, p) ELSE store
        BY <3>7 DEF ServeData
      <4>2. p.tid = srv.tid BY <3>3, <4>1 DEF Foreign
      <4>3. /\ srv'.tid = srv.tid /\ srv'.mode = "recv"
            /\ srv'.blk = IF p.blk = srv.blk + 1 THEN srv.blk + 1 ELSE srv.blk
        BY <1>4, <4>1 DEF Transfer, Idle
      <4>4. CASE srv.tid # tid
        <5>1. \A q \in toClient' : AckOK(q, srv', store')
          BY <1>6, <4>1, <4>3, <4>4 DEF Answer, AckOf
        <5> QED BY <3>2, <3>4, <4>3, <4>4, <5>1
      <4>5. CASE srv.tid = tid
        <5>1. p.blk = 1 /\ expected = 1 /\ (p.good \/ shifted)
          BY <1>3, <4>1, <4>2, <4>5 DEF PutNet, PutBody
        <5>2. srv.blk = Len(store) /\ Len(store) \in {0, 1} BY <1>5, <4>5
        <5>3. Len(store') = 1 /\ srv'.blk = 1
              /\ \A i \in DOMAIN store' : store'[i].blk = i /\ (store'[i].good \/ shifted)
          <6>1. CASE Len(store) = 0
            <7>1. p \in ToServer BY DEF TypeOK
            <7>2. store' = <<p>> /\ srv'.blk = 1
              BY <1>4, <4>1, <4>3, <5>1, <5>2, <6>1, <7>1
            <7>3. Len(<<p>>) = 1 /\ DOMAIN <<p>> = {1} /\ <<p>>[1] = p OBVIOUS
            <7> QED BY <5>1, <7>2, <7>3
          <6>2. CASE Len(store) = 1
            BY <1>5, <4>1, <4>3, <4>5, <5>1, <5>2, <6>2
          <6> QED BY <5>2, <6>1, <6>2
        <5>4. SrvOK(srv', store') BY <4>3, <5>1, <5>3
        <5>5. \A q \in toClient' : AckOK(q, srv', store')
          BY <1>6, <4>1, <4>3, <4>5, <5>3 DEF Answer, AckOf
        <5> QED BY <3>2, <4>3, <4>5, <5>3, <5>4, <5>5
      <4> QED BY <4>4, <4>5
    <3> QED BY <3>1, <3>5, <3>6, <3>7
  <2>2. CASE Restart
    <3>1. "restart" \in odd' BY <2>2 DEF Restart
    <3> QED BY <3>1
  <2> QED BY <2>1, <2>2
<1>8. PutNet'
  <2>1. \A p \in toServer' : p.tid = tid' =>
          \/ p.type = "wrq"
          \/ p.type = "data" /\ p.blk = 1 /\ expected' = 1 /\ (p.good \/ shifted')
    BY <1>1, <1>3, <1>7 DEF PutNet, PutBody
  <2> QED BY <1>1, <1>7, <2>1 DEF PutNet
<1> QED BY <1>1, <1>3, <1>7, <1>8 DEF PutBody

LEMMA NextPut ==
  ASSUME TypeOK, TidInv, OpInv, PutInv, [Next]_vars
  PROVE  PutInv'
<1>1. CASE UNCHANGED vars
  BY <1>1 DEF PutInv, PutLive, PutNet, vars, client, network, server
<1>2. ASSUME NEW f \in Files, Put(f) PROVE PutInv'
  <2>1. /\ st = "prompt" /\ st' = "send_wrq" /\ tid' = tid + 1
        /\ UNCHANGED <<last, expected, isLast, toClient, toServer, srv>>
    BY <1>2 DEF Put, NewTransfer, network, server
  <2>2. last = 0 /\ ~isLast BY <2>1 DEF OpInv
  <2>3. /\ \A p \in toClient' : p.tid # tid'
        /\ \A p \in toServer' : p.tid # tid'
        /\ srv'.tid # tid'
    BY <2>1, NumbersAreNat DEF TidInv
  <2>4. PutNet' BY <2>3 DEF PutNet
  <2> QED BY <2>1, <2>2, <2>4 DEF PutInv
<1>3. ASSUME NEW f \in Files, Get(f) PROVE PutInv'
  BY <1>3 DEF Get, NewTransfer, PutInv, PutLive
<1>4. CASE Quit \/ End \/ GiveUp
  <2>1. st' \in {"quit", "prompt", "read_error", "write_error"} BY <1>4 DEF Quit, End, GiveUp
  <2> QED BY <2>1 DEF PutInv, PutLive
<1>5. CASE SendRrq \/ GetTimeout \/ GetPacket \/ SendAck \/ SendAckAstray
  <2>1. st \in {"send_rrq", "wait_data", "send_ack"} /\ op' = op
    BY <1>5 DEF SendRrq, GetTimeout, GetPacket, SendAck, SendAckAstray
  <2>2. op' = "get" BY <2>1, InTransfer
  <2> QED BY <2>2 DEF PutInv, PutLive
<1> QED BY <1>1, <1>2, <1>3, <1>4, <1>5, PutReceives, PutSends, PutServed
        DEF Next, Machine, Server
-----------------------------------------------------------------------------
(* The theorems.                                                           *)

LEMMA InitInv == Init => IInv
<1> SUFFICES ASSUME Init PROVE IInv OBVIOUS
<1>1. TypeOK
  <2>1. /\ tid \in 0..MaxTransfers /\ timeouts \in 0..MaxTimeouts
    BY BoundsAssumption DEF Init, MaxTimeouts
  <2>2. st \in States /\ op \in {"none", "get", "put"} /\ file \in Files \cup {"none"}
    BY DEF Init, States
  <2>3. last \in Nums /\ expected \in Nums /\ out \in Seq(Nums) BY NumFacts DEF Init
  <2>4. isLast \in BOOLEAN /\ known \in BOOLEAN /\ shifted \in BOOLEAN BY DEF Init
  <2>5. local \in SUBSET Files BY FilesAssumption DEF Init
  <2>6. /\ toClient \subseteq ToClient /\ toServer \subseteq ToServer
        /\ srv \in Transfer /\ store \in Seq(ToServer)
        /\ odd \subseteq {"stale", "cut", "restart"}
    BY DEF Init, Transfer
  <2> QED BY <2>1, <2>2, <2>3, <2>4, <2>5, <2>6 DEF TypeOK
<1>2. TidInv BY DEF Init, TidInv, Idle
<1>3. OpInv BY DEF Init, OpInv
<1>4. GetInv BY DEF Init, GetInv
<1>5. PutInv BY DEF Init, PutInv, PutLive
<1> QED BY <1>1, <1>2, <1>3, <1>4, <1>5 DEF IInv

(* In every reachable state: the types, and what the packets on their way  *)
(* and the server's transfer may hold, given what the client has counted.  *)
THEOREM InvariantHolds == Spec => []IInv
<1>1. ASSUME IInv, [Next]_vars PROVE IInv'
  BY <1>1, NextTypes, NextTid, NextOp, NextGet, NextPut DEF IInv
<1> QED BY <1>1, InitInv, PTL DEF Spec

(* The variables of the client, the network and the server keep their      *)
(* types: block numbers stay in 16 bits, at most three timeouts count.     *)
THEOREM TypeCorrect == Spec => []TypeOK
<1>1. IInv => TypeOK BY DEF IInv
<1> QED BY <1>1, InvariantHolds, PTL

(* A get that ends well has written every block, the first time in order,  *)
(* whatever was lost, late or repeated; a put that does has left its one   *)
(* block at the server.                                                    *)
THEOREM TransfersArrive == Spec => []FilesArrive
<1>1. IInv => GetHasTheFile
  <2> SUFFICES ASSUME IInv, st = "read_ok", odd \cap {"stale", "cut"} = {}
               PROVE  /\ \E i \in DOMAIN out : out[i] = Blocks[file]
                      /\ \A i \in DOMAIN out : \A b \in 1..(out[i] - 1) :
                            \E j \in 1..(i - 1) : out[j] = b
    BY DEF GetHasTheFile
  <2>1. op = "get" /\ file \in Files BY InTransfer DEF IInv
  <2>2. isLast /\ last = Blocks[file] /\ InOrder BY <2>1 DEF IInv, GetInv
  <2>3. Blocks[file] \in 1..last BY <2>1, <2>2, BlockFacts, NumFacts
  <2> QED BY <2>2, <2>3 DEF InOrder
<1>2. IInv => PutHasTheFile
  <2> SUFFICES ASSUME IInv, st = "write_ok", odd \cap {"stale", "restart"} = {}
               PROVE  /\ Len(store) = Blocks[file]
                      /\ \A i \in DOMAIN store : store[i].blk = i /\ (store[i].good \/ shifted)
    BY DEF PutHasTheFile
  <2>1. op = "put" /\ file \in Files BY InTransfer DEF IInv
  <2>2. PutNet /\ isLast /\ Blocks[file] = 1 /\ srv.tid = tid /\ Len(store) = 1
    BY <2>1 DEF IInv, PutInv, PutLive
  <2> QED BY <2>2 DEF PutNet
<1>3. IInv => FilesArrive BY <1>1, <1>2 DEF FilesArrive
<1> QED BY <1>3, InvariantHolds, PTL
=============================================================================
