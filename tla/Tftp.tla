-------------------------------- MODULE Tftp --------------------------------
(***************************************************************************)
(* The tftp client of the network test program (test/ew/network/connection *)
(* /tftp.cpp): "get" and "put" as two machines of states, each step one    *)
(* call of the current state's callback, over one udp_connection that the  *)
(* session keeps for all its transfers.                                    *)
(*                                                                         *)
(* What was sent may be delivered at any time later, in any order and as   *)
(* often as the network likes, also in a later transfer, or never: this    *)
(* stands for lost, late and repeated packets, and for a server that       *)
(* repeats itself.  The server is not part of the program: it sends block  *)
(* by block, refuses, answers with a packet that ends in its header, and   *)
(* forgets everything when it restarts.  Nobody on the way sees a packet's *)
(* transfer number: it is there for the properties.                        *)
(***************************************************************************)
EXTENDS Naturals, Sequences, FiniteSets

CONSTANTS
  Files,          \* the names that may be asked for
  Blocks,         \* the number of blocks of each; the last one is short
  MaxTransfers,   \* bound: transfers of one session
  Long,           \* those whose name does not fit into a request
  Present,        \* the sets of files that may exist here at the start
  MaxLate         \* bound: packets that are still on their way after a transfer

LastNum == 65535      \* the last number of a block
U16(n)  == n % 65536  \* last_recv_block, last_sent_block, expected_block

ASSUME BlocksAssumption == Blocks \in [Files -> 1..LastNum]
ASSUME FilesAssumption == Long \subseteq Files /\ Present \subseteq SUBSET Files
ASSUME BoundsAssumption == MaxTransfers \in Nat /\ MaxLate \in Nat

MaxTimeouts == 3

VARIABLES
  st,             \* machine->st; "prompt" between two transfers, "stopped" at an assertion
  op,             \* "get" or "put"
  file,           \* machine->filename
  tid,            \* number of the transfer
  last,           \* last_recv_block, last_sent_block
  expected,       \* expected_block
  isLast,         \* is_last_block
  timeouts,       \* nr_timeout
  known,          \* data_from holds the server's address
  shifted,        \* what a put sends starts two bytes too late
  out,            \* the blocks a get has written, in the order of their first times
  local,          \* the files that exist here
  toClient, toServer,   \* the packets sent so far
  srv,            \* the server's transfer
  store,          \* the blocks of the put file at the server
  odd             \* history: what this transfer could not notice

client  == <<st, op, file, tid, last, expected, isLast, timeouts, known, shifted, out, local>>
server  == <<srv, store>>
network == <<toClient, toServer>>
vars    == <<client, network, server, odd>>

Tids  == 1..MaxTransfers
Nums  == 0..LastNum
ToServer == [type : {"rrq", "wrq"}, tid : Tids, file : Files]
              \cup [type : {"ack"}, tid : Tids, blk : Nums]
              \cup [type : {"data"}, tid : Tids, blk : Nums, last : BOOLEAN, good : BOOLEAN]
ToClient == [type : {"data"}, tid : Tids, blk : Nums, last : BOOLEAN]
              \cup [type : {"ack"}, tid : Tids, blk : Nums]
              \cup [type : {"oack", "err", "short"}, tid : Tids]

Idle == [mode |-> "none", tid |-> 0]
Transfer == {Idle} \cup [mode : {"send", "recv"}, tid : Tids, file : Files, blk : Nums]

Init ==
  /\ st = "prompt" /\ op = "none" /\ file = "none" /\ tid = 0
  /\ last = 0 /\ expected = 0 /\ isLast = FALSE /\ timeouts = 0
  /\ known = FALSE /\ shifted = FALSE /\ out = <<>>
  /\ local \in Present
  /\ toClient = {} /\ toServer = {}
  /\ srv = Idle /\ store = <<>> /\ odd = {}

ToSrv(p) == toServer' = toServer \cup {p}

-----------------------------------------------------------------------------
(* The prompt.  A get of a file that is here, a put of one that is not and *)
(* anything else is refused without a trace.                               *)

NewTransfer(o, f, s) ==
  /\ st = "prompt" /\ tid < MaxTransfers
  /\ st' = s /\ op' = o /\ file' = f /\ tid' = tid + 1
  /\ odd' = {}
  /\ UNCHANGED <<last, expected, isLast, timeouts, known, shifted, out, network, server>>

(* The file is created before it is asked for, and stays if the get fails. *)
Get(f) ==
  /\ f \notin local
  /\ local' = local \cup {f}
  /\ NewTransfer("get", f, "send_rrq")

Put(f) ==
  /\ f \in local
  /\ NewTransfer("put", f, "send_wrq")
  /\ UNCHANGED local

Quit ==
  /\ st = "prompt"
  /\ st' = "quit"
  /\ UNCHANGED <<op, file, tid, last, expected, isLast, timeouts, known, shifted,
                 out, local, network, server, odd>>

(* read_ok, read_error, write_ok, write_error: the loop ends, the machine  *)
(* is deleted and the next one starts from its constructor's values.       *)
End ==
  /\ st \in {"read_ok", "read_error", "write_ok", "write_error"}
  /\ st' = "prompt"
  /\ last' = 0 /\ expected' = 0 /\ isLast' = FALSE /\ timeouts' = 0
  /\ known' = FALSE /\ shifted' = FALSE /\ out' = <<>>
  /\ op' = "none" /\ file' = "none"
  /\ \E c \in {d \in SUBSET toClient : Cardinality(d) <= MaxLate}, s \in SUBSET toServer :
       /\ Cardinality(c) + Cardinality(s) <= MaxLate
       /\ toClient' = c /\ toServer' = s
  /\ UNCHANGED <<tid, local, srv, store, odd>>

(* A request for a long name cannot be built: three tries, then the error. *)
GiveUp ==
  /\ file \in Long /\ st \in {"send_rrq", "send_wrq"}
  /\ st' = IF st = "send_rrq" THEN "read_error" ELSE "write_error"
  /\ UNCHANGED <<op, file, tid, last, expected, isLast, timeouts, known, shifted,
                 out, local, network, server, odd>>

-----------------------------------------------------------------------------
(* A get.  A send that fails is tried again: the state stays.              *)

SendRrq ==
  /\ st = "send_rrq" /\ file \notin Long
  /\ ToSrv([type |-> "rrq", tid |-> tid, file |-> file])
  /\ last' = 0 /\ expected' = 1
  /\ st' = "wait_data"
  /\ UNCHANGED <<op, file, tid, isLast, timeouts, known, shifted, out, local, toClient,
                 server, odd>>

(* Mutant: the timeouts are not counted.                                   *)
GetTimeoutUncounted ==
  /\ st = "wait_data"
  /\ st' = "send_ack"
  /\ UNCHANGED <<op, file, tid, last, expected, isLast, timeouts, known, shifted, out,
                 local, network, server, odd>>

(* The select ends without a packet.                                       *)
GetTimeout ==
  /\ st = "wait_data"
  /\ timeouts' = timeouts + 1
  /\ st' = IF timeouts + 1 = MaxTimeouts THEN "read_error" ELSE "send_ack"
  /\ UNCHANGED <<op, file, tid, last, expected, isLast, known, shifted, out, local,
                 network, server, odd>>

(* A packet that is not data leaves only its sender's address behind, and  *)
(* the wait begins again uncounted.  Data without the whole number of its  *)
(* block stops the client (extract_bytes).                                 *)
GetOther(p) ==
  /\ p.type # "data"
  /\ \/ UNCHANGED st
     \/ p.type = "short" /\ st' = "stopped"
  /\ UNCHANGED <<last, isLast, timeouts, out, odd>>

(* Data is written whatever its number, and ends the count of timeouts,    *)
(* though it may have come before.  The write may fail or be short, which  *)
(* only its unread count says.                                             *)
GetData(p) ==
  /\ p.type = "data"
  /\ \/ /\ st' = "read_error"
        /\ UNCHANGED <<last, isLast, timeouts, out, odd>>
     \/ /\ st' = "send_ack"
        /\ isLast' = (isLast \/ p.last)
        /\ last' = IF p.blk = expected THEN p.blk ELSE last
        /\ timeouts' = 0
        /\ \E full \in BOOLEAN :
             /\ out' = IF full /\ \A i \in DOMAIN out : out[i] # p.blk
                       THEN Append(out, p.blk) ELSE out
             /\ odd' = odd \cup (IF p.tid = tid THEN {} ELSE {"stale"})
                           \cup (IF full THEN {} ELSE {"cut"})

GetPacket ==
  /\ st = "wait_data"
  /\ \E p \in toClient : GetOther(p) \/ GetData(p)
  /\ known' = TRUE
  /\ UNCHANGED <<op, file, tid, expected, shifted, local, network, server>>

(* Mutant: the block that is waited for is acknowledged.                   *)
SendAckAhead ==
  /\ st = "send_ack" /\ known
  /\ ToSrv([type |-> "ack", tid |-> tid, blk |-> expected])
  /\ expected' = U16(last + 1)
  /\ st' = IF isLast THEN "read_ok" ELSE "wait_data"
  /\ UNCHANGED <<op, file, tid, last, isLast, timeouts, known, shifted, out, local,
                 toClient, server, odd>>

(* After data and after a timeout: the last block in order is acknowledged.*)
SendAck ==
  /\ st = "send_ack" /\ known
  /\ ToSrv([type |-> "ack", tid |-> tid, blk |-> last])
  /\ expected' = U16(last + 1)
  /\ st' = IF isLast THEN "read_ok" ELSE "wait_data"
  /\ UNCHANGED <<op, file, tid, last, isLast, timeouts, known, shifted, out, local,
                 toClient, server, odd>>

(* After a timeout without any packet: the address is not initialised.     *)
(* The send fails (and is tried again), goes anywhere, or, where the       *)
(* memory is that of the last transfer's address, reaches the server.      *)
SendAckAstray ==
  /\ st = "send_ack" /\ ~known
  /\ \/ UNCHANGED toServer
     \/ ToSrv([type |-> "ack", tid |-> tid, blk |-> last])
  /\ expected' = U16(last + 1)
  /\ st' = "wait_data"
  /\ UNCHANGED <<op, file, tid, last, isLast, timeouts, known, shifted, out, local,
                 toClient, server, odd>>

-----------------------------------------------------------------------------
(* A put.                                                                  *)

SendWrq ==
  /\ st = "send_wrq" /\ file \notin Long
  /\ ToSrv([type |-> "wrq", tid |-> tid, file |-> file])
  /\ last' = 0 /\ expected' = 0
  /\ st' = "wait_ack"
  /\ UNCHANGED <<op, file, tid, isLast, timeouts, known, shifted, out, local, toClient,
                 server, odd>>

PutTimeout ==
  /\ st = "wait_ack"
  /\ timeouts' = timeouts + 1
  /\ st' = IF timeouts + 1 = MaxTimeouts THEN "write_error" ELSE "wait_ack"
  /\ UNCHANGED <<op, file, tid, last, expected, isLast, known, shifted, out, local,
                 network, server, odd>>

(* Whatever is not an acknowledgement, an error too, counts as block 0.    *)
Number(p) == IF p.type = "ack" THEN p.blk ELSE 0

Acked(p) == Number(p) = expected

(* The next block is read behind the bytes that were parsed: two for what  *)
(* is not an acknowledgement, though four are overwritten by the header.   *)
ReadBlock(p) ==
  /\ last' = expected
  /\ isLast' = (expected + 1 = Blocks[file])
  /\ shifted' = (p.type # "ack")
  /\ timeouts' = 0
  /\ st' = "send_data"

(* A packet without a whole number stops the client (extract_bytes).       *)
PutAnswer(p) ==
  \/ p.type # "short" /\ Acked(p) /\ ~isLast /\ ReadBlock(p)
  \/ /\ \/ p.type = "short" /\ st' = "stopped"
        \/ p.type # "short" /\ Acked(p) /\ isLast /\ st' = "write_ok"
        \/ p.type # "short" /\ (Acked(p) => ~isLast) /\ st' = "write_error"
     /\ UNCHANGED <<last, isLast, timeouts, shifted>>

PutPacket ==
  /\ st = "wait_ack"
  /\ \E p \in toClient :
       /\ PutAnswer(p)
       /\ odd' = odd \cup (IF p.tid = tid THEN {} ELSE {"stale"})
  /\ known' = TRUE
  /\ UNCHANGED <<op, file, tid, expected, out, local, network, server>>

(* The second block is never sent: the callback sleeps and returns.        *)
SendData ==
  /\ st = "send_data" /\ U16(last + 1) # 2
  /\ ToSrv([type |-> "data", tid |-> tid, blk |-> U16(last + 1), last |-> isLast,
            good |-> ~shifted])
  /\ expected' = U16(last + 1)
  /\ st' = "wait_ack"
  /\ UNCHANGED <<op, file, tid, last, isLast, timeouts, known, shifted, out, local,
                 toClient, server, odd>>

-----------------------------------------------------------------------------
(* The server.                                                             *)

Answer(p) == toClient' = toClient \cup {p}

Block(s)     == [type |-> "data", tid |-> s.tid, blk |-> s.blk, last |-> s.blk = Blocks[s.file]]
AckOf(s)     == [type |-> "ack", tid |-> s.tid, blk |-> s.blk]
Bare(t, typ) == [type |-> typ, tid |-> t]

(* A request: refused, answered with a packet that is too short, or the    *)
(* start of a transfer.  One that starts the server's transfer again, like *)
(* any packet that changes nothing, is as good as lost.                    *)
ServeRequest(p) ==
  \/ /\ p.type \in {"rrq", "wrq"}
     /\ Answer(Bare(p.tid, "err")) \/ Answer(Bare(p.tid, "short"))
     /\ UNCHANGED <<srv, store>>
  \/ /\ p.type = "rrq" /\ srv.tid # p.tid
     /\ srv' = [mode |-> "send", tid |-> p.tid, file |-> p.file, blk |-> 1]
     /\ Answer(Block(srv'))
     /\ UNCHANGED store
  \/ /\ p.type = "wrq" /\ srv.tid # p.tid
     /\ srv' = [mode |-> "recv", tid |-> p.tid, file |-> p.file, blk |-> 0]
     /\ store' = <<>>
     /\ Answer(AckOf(srv')) \/ Answer(Bare(p.tid, "oack"))

(* The acknowledgement of the block being sent: the next one, if any.      *)
ServeAck(p) ==
  /\ p.type = "ack" /\ srv.mode = "send"
  /\ p.blk = srv.blk /\ srv.blk < Blocks[srv.file]
  /\ srv' = [srv EXCEPT !.blk = @ + 1]
  /\ Answer(Block(srv'))
  /\ UNCHANGED store

(* The block being waited for is stored; any block is acknowledged with    *)
(* the last one stored.                                                    *)
ServeData(p) ==
  /\ p.type = "data" /\ srv.mode = "recv"
  /\ srv' = IF p.blk = srv.blk + 1 THEN [srv EXCEPT !.blk = @ + 1] ELSE srv
  /\ store' = IF p.blk = srv.blk + 1 THEN Append(store, p) ELSE store
  /\ Answer(AckOf(srv'))

(* A packet of an earlier transfer, taken for one of this.                 *)
Foreign(p) == p.tid # IF p.type \in {"rrq", "wrq"} THEN tid ELSE srv.tid

Serve ==
  /\ \E p \in toServer :
       /\ ServeRequest(p) \/ ServeAck(p) \/ ServeData(p)
       /\ odd' = odd \cup IF Foreign(p) THEN {"stale"} ELSE {}
  /\ UNCHANGED <<client, toServer>>

Restart ==
  /\ srv.mode # "none"
  /\ srv' = Idle
  /\ odd' = odd \cup {"restart"}
  /\ UNCHANGED <<client, network, store>>

-----------------------------------------------------------------------------

Machine == \/ GiveUp \/ SendRrq \/ GetTimeout \/ GetPacket \/ SendAck
           \/ SendWrq \/ PutTimeout \/ PutPacket \/ SendData \/ End

(* The model ends with the last transfer.                                  *)
Server == /\ st \notin {"prompt", "quit", "stopped"} \/ (st = "prompt" /\ tid < MaxTransfers)
          /\ Serve \/ Restart

Next == \/ \E f \in Files : Get(f) \/ Put(f)
        \/ Quit \/ Machine \/ SendAckAstray \/ Server

(* The machine's loop runs; a send to a known address is not refused for   *)
(* ever.  Nothing is assumed of the network, the server or the user.       *)
Spec == Init /\ [][Next]_vars /\ WF_vars(Machine)

-----------------------------------------------------------------------------

States == {"prompt", "quit", "send_rrq", "wait_data", "send_ack", "read_ok", "read_error",
           "send_wrq", "wait_ack", "send_data", "write_ok", "write_error", "stopped"}

TypeOK ==
  /\ st \in States /\ op \in {"none", "get", "put"} /\ file \in Files \cup {"none"}
  /\ tid \in 0..MaxTransfers /\ last \in Nums /\ expected \in Nums
  /\ isLast \in BOOLEAN /\ known \in BOOLEAN /\ shifted \in BOOLEAN
  /\ timeouts \in 0..MaxTimeouts
  /\ out \in Seq(Nums) /\ local \in SUBSET Files
  /\ toClient \subseteq ToClient /\ toServer \subseteq ToServer
  /\ srv \in Transfer /\ store \in Seq(ToServer)
  /\ odd \subseteq {"stale", "cut", "restart"}

(* A get that ends well has written every block of the file, each one for  *)
(* the first time behind all the blocks before it, whatever the network    *)
(* lost, repeated or mixed up - unless a write was short or a packet of an *)
(* earlier transfer was taken for one of this: the client tells neither.   *)
GetHasTheFile ==
  st = "read_ok" /\ odd \cap {"stale", "cut"} = {} =>
    /\ \E i \in DOMAIN out : out[i] = Blocks[file]
    /\ \A i \in DOMAIN out : \A b \in 1..(out[i] - 1) : \E j \in 1..(i - 1) : out[j] = b

(* A put that ends well has left the whole file at the server, unless a    *)
(* packet of an earlier transfer or a restart of the server deceived it,   *)
(* or the first answer was not an acknowledgement.                         *)
PutHasTheFile ==
  st = "write_ok" /\ odd \cap {"stale", "restart"} = {} =>
    /\ Len(store) = Blocks[file]
    /\ \A i \in DOMAIN store : store[i].blk = i /\ (store[i].good \/ shifted)

(* Every block of a transfer reported as done has arrived, both ways; a get *)
(* may have written some of them twice.                                    *)
FilesArrive == GetHasTheFile /\ PutHasTheFile

(* A transfer hangs in two places only: before the acknowledgement that    *)
(* goes to no address, and before the second block of a put.  Elsewhere it *)
(* ends, or stops at an assertion, unless it is a get that is sent packets *)
(* for ever: every one of them, data it already has too, begins the wait   *)
(* again, and data forgets the timeouts as well.                           *)
Hangs == (st = "send_ack" /\ ~known) \/ (st = "send_data" /\ last = 1)

SentForEver == []<><<GetPacket>>_vars

TransferEnds ==
  \/ SentForEver
  \/ st \notin {"prompt", "quit"} ~> st \in {"prompt", "stopped"} \/ Hangs
=============================================================================
