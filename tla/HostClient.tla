----------------------------- MODULE HostClient -----------------------------
(***************************************************************************)
(* orazio_client.c: the threads of a host program call sendPacket          *)
(* (deferred, or blocking until the robot's response), readConfiguration,  *)
(* sync, get and setBaseVelocity on one OrazioClient, whose write_mutex    *)
(* guards the transmit side and whose read_mutex guards the receive side.  *)
(*                                                                         *)
(* TxRing is the transmit buffer; here it is a sequence of packets that    *)
(* are queued whole or refused.  The robot answers once per epoch, as      *)
(* Orazio_commHandle does: the answers to the packets it has received, its *)
(* status, END_EPOCH.  Either direction of the serial line may lose        *)
(* packets (a checksum fails, a buffer is full), MaxLosses times in all.   *)
(***************************************************************************)
EXTENDS Integers, Sequences, SequencesExt

CONSTANTS Threads,
          Calls,      \* [thread -> the calls it makes]
          TIMEOUT,    \* packets a blocking call waits for
          TxRoom,     \* packets that fit in the transmit buffer
          Joints,     \* joints the robot declares
          SeqWidth,   \* sequence numbers are modulo this (2^16)
          FirstSeqs,  \* numbers of packets sent before, deferred and long gone
          MaxCalls, MaxLosses, LineMax   \* bounds

None == "none"
Kinds == {"send", "invalid", "query", "configure", "sync", "get", "getJoint", "setVelocity"}

ASSUME ClientAssumption ==
  /\ None \notin Threads /\ Calls \in [Threads -> SUBSET Kinds]
  /\ TIMEOUT \in Nat \ {0} /\ TxRoom \in Nat \ {0} /\ Joints \in Nat
  /\ SeqWidth \in Nat \ {0, 1} /\ FirstSeqs \subseteq 0 .. SeqWidth - 1
  /\ MaxCalls \in Nat /\ MaxLosses \in Nat /\ LineMax \in Nat

VARIABLES
  global_seq,
  taken,                       \* sequence numbers taken from it, in all
  write_mutex, read_mutex,     \* who holds them
  tx,                          \* the client's transmit buffer
  drive_seq,                   \* drive_control_packet.header.seq
  received,                    \* the last packet received of each type
  num_joints,
  pc, call,                    \* each thread: where it is, and its call
  wire, line,                  \* packets on their way to and from the robot
  robot_seq, executed,         \* the robot's epoch; packets it has executed
  calls, losses

numbers == <<global_seq, taken>>
sendVars == <<numbers, tx, drive_seq>>
mutexes == <<write_mutex, read_mutex>>
robot == <<line, robot_seq, executed, losses>>
clientVars == <<sendVars, mutexes, received, num_joints, pc, call, wire, robot, calls>>

NewCall(kind, timeout) ==
  [kind |-> kind, seq |-> 0, timeout |-> timeout, current |-> 0, result |-> None, left |-> 0]
NoCall == NewCall(None, 0)
NoPacket == [type |-> None, seq |-> 0, param |-> None]

ClientInit ==
  /\ global_seq \in FirstSeqs /\ taken = 0 /\ tx = <<>> /\ drive_seq = 0
  /\ write_mutex = None /\ read_mutex = None
  /\ received = [RESPONSE |-> NoPacket, SYSTEM_PARAM |-> None, STATUS |-> 0, END_EPOCH |-> 0]
  /\ num_joints = 0
  /\ pc = [t \in Threads |-> "idle"] /\ call = [t \in Threads |-> NoCall]
  /\ wire = <<>> /\ line = <<>> /\ robot_seq = 0 /\ executed = <<>>
  /\ calls = 0 /\ losses = 0

Goto(t, label) == pc' = [pc EXCEPT ![t] = label]
TakeNumber == global_seq' = (global_seq + 1) % SeqWidth /\ taken' = taken + 1
Blocking(t) == call[t].kind \in {"query", "configure"}

\* A query asks for the system's parameters, and so does the first of
\* readConfiguration; the others ask for joints, drive and sonar.
Packet(t) ==
  [type  |-> IF Blocking(t) THEN "PARAM_CONTROL" ELSE "JOINT_CONTROL",
   seq   |-> call[t].seq,
   param |-> IF ~Blocking(t) THEN None ELSE IF call[t].left = 0 THEN "system" ELSE "other"]
DrivePacket(seq) == [type |-> "DRIVE_CONTROL", seq |-> seq, param |-> None]

\* A thread calls a function of orazio_client.h.
Call(t, kind) ==
  /\ pc[t] = "idle" /\ calls < MaxCalls /\ kind \in Calls[t]
  /\ calls' = calls + 1
  /\ call' = [call EXCEPT ![t] = NewCall(kind, TIMEOUT)]
  /\ Goto(t, CASE kind \in {"send", "invalid", "query", "configure"} -> "lockWrite"
               [] kind = "sync" -> "syncLockWrite"
               [] kind \in {"get", "getJoint"} -> "getLock"
               [] kind = "setVelocity" -> "setVelocity")
  /\ UNCHANGED <<sendVars, mutexes, received, num_joints, wire, robot>>

-----------------------------------------------------------------------------
(* OrazioClient_sendPacket, and readConfiguration, a chain of them         *)

\* Mutant of LockWrite: the write mutex is not waited for.
LockWriteAnyway(t) ==
  /\ pc[t] \in {"lockWrite", "syncLockWrite"}
  /\ write_mutex' = t
  /\ Goto(t, IF pc[t] = "syncLockWrite" THEN "syncFlush"
             ELSE IF Blocking(t) THEN "lockRead" ELSE "nextSeq")
  /\ UNCHANGED <<sendVars, read_mutex, received, num_joints, call, wire, robot, calls>>

LockWrite(t) ==
  /\ pc[t] \in {"lockWrite", "syncLockWrite"} /\ write_mutex = None
  /\ write_mutex' = t
  /\ Goto(t, IF pc[t] = "syncLockWrite" THEN "syncFlush"
             ELSE IF Blocking(t) THEN "lockRead" ELSE "nextSeq")
  /\ UNCHANGED <<sendVars, read_mutex, received, num_joints, call, wire, robot, calls>>

LockRead(t) ==
  /\ pc[t] \in {"lockRead", "syncLockRead", "getLock"} /\ read_mutex = None
  /\ read_mutex' = t
  /\ Goto(t, CASE pc[t] = "lockRead" -> "nextSeq"
               [] pc[t] = "syncLockRead" -> "syncRead"
               [] pc[t] = "getLock" -> "getCopy")
  /\ UNCHANGED <<sendVars, write_mutex, received, num_joints, call, wire, robot, calls>>

\* _sendPacket takes a number, then looks at the packet's type and size.
NextSeq(t) ==
  /\ pc[t] = "nextSeq"
  /\ TakeNumber
  /\ IF call[t].kind = "invalid"
       THEN /\ call' = [call EXCEPT ![t].result = "UnknownType"]
            /\ Goto(t, "unlock")
       ELSE /\ call' = [call EXCEPT ![t].seq = global_seq']
            /\ Goto(t, "put")
  /\ UNCHANGED <<tx, drive_seq, mutexes, received, num_joints, wire, robot, calls>>

\* PacketHandler_sendPacket
Put(t) ==
  /\ pc[t] = "put"
  /\ IF Len(tx) < TxRoom
       THEN /\ tx' = Append(tx, Packet(t))
            /\ call' = [call EXCEPT ![t].result = "Success"]
            /\ Goto(t, IF Blocking(t) THEN "flush" ELSE "unlock")
       ELSE /\ tx' = tx
            /\ call' = [call EXCEPT ![t].result = "TxBufferFull"]
            /\ Goto(t, "unlock")
  /\ UNCHANGED <<numbers, drive_seq, mutexes, received, num_joints, wire, robot, calls>>

\* _flushBuffer, packet by packet: the robot may take some of them before.
Flush(t) ==
  /\ pc[t] \in {"flush", "syncFlush"} /\ tx # <<>>
  /\ wire' = Append(wire, Head(tx)) /\ tx' = Tail(tx)
  /\ UNCHANGED <<numbers, drive_seq, mutexes, received, num_joints, pc, call, robot, calls>>

\* send_result is Timeout until the response comes.
Flushed(t) ==
  /\ pc[t] = "flush" /\ tx = <<>>
  /\ call' = [call EXCEPT ![t].result = "Timeout"]
  /\ Goto(t, "await")
  /\ UNCHANGED <<sendVars, mutexes, received, num_joints, wire, robot, calls>>

\* _readPacket: the next good packet goes to the variable of its type.
ReadPacket ==
  /\ line # <<>>
  /\ line' = Tail(line)
  /\ received' = IF Head(line).type \in DOMAIN received
                 THEN [received EXCEPT ![Head(line).type] = Head(line).content] ELSE received
  /\ UNCHANGED <<robot_seq, executed, losses>>

\* Mutant of Answered: the response is known by its type alone.
AnsweredType(t, r) == r.type = Packet(t).type

\* Is the last response the one to this thread's packet?
Answered(t, r) == r.type = Packet(t).type /\ r.seq = call[t].seq

\* One round of the loop that waits for the response.
Await(t) ==
  /\ pc[t] = "await"
  /\ ReadPacket
  /\ IF Answered(t, received'.RESPONSE)
       THEN /\ call' = [call EXCEPT ![t].result = "Success"]
            /\ Goto(t, "unlock")
       ELSE /\ call' = [call EXCEPT ![t].timeout = @ - 1]
            /\ Goto(t, IF call[t].timeout = 1 THEN "unlock" ELSE "await")
  /\ UNCHANGED <<sendVars, mutexes, num_joints, wire, calls>>

\* Mutant of Unlock: after a timeout the mutexes are kept.
UnlockOnSuccess(t) ==
  /\ pc[t] = "unlock"
  /\ IF call[t].result = "Timeout" THEN UNCHANGED mutexes
     ELSE write_mutex' = None /\ read_mutex' = IF Blocking(t) THEN None ELSE read_mutex
  /\ Goto(t, IF call[t].kind = "configure" /\ call[t].result = "Success"
             THEN "configure" ELSE "idle")
  /\ UNCHANGED <<sendVars, received, num_joints, call, wire, robot, calls>>

\* The mutexes that the call took are released.
Unlock(t) ==
  /\ pc[t] = "unlock"
  /\ write_mutex' = None
  /\ read_mutex' = IF Blocking(t) THEN None ELSE read_mutex
  /\ Goto(t, IF call[t].kind = "configure" /\ call[t].result = "Success"
             THEN "configure" ELSE "idle")
  /\ UNCHANGED <<sendVars, received, num_joints, call, wire, robot, calls>>

SendPacket(t) == \/ LockWrite(t) \/ LockRead(t) \/ NextSeq(t) \/ Put(t)
                 \/ Flush(t) \/ Flushed(t) \/ Await(t) \/ Unlock(t)

\* readConfiguration after a query: n is how many are left, this one included.
Query(t, n) ==
  /\ call' = [call EXCEPT ![t].left = n, ![t].timeout = TIMEOUT]
  /\ Goto(t, "lockWrite")

\* The first response is taken for cl->system_param's arrival: when that
\* packet has never come the memory is not initialized, and whatever it holds
\* is the robot's version (the program exits) and its number of joints.
Configure(t) ==
  /\ pc[t] = "configure"
  /\ \/ /\ call[t].left = 0 /\ received.SYSTEM_PARAM # None
        /\ num_joints' = Joints /\ Query(t, Joints + 2)
     \/ /\ call[t].left = 0 /\ received.SYSTEM_PARAM = None
        /\ pc' = [u \in Threads |-> "exit"] /\ UNCHANGED <<num_joints, call>>
     \/ /\ call[t].left = 0 /\ received.SYSTEM_PARAM = None
        /\ \E n \in 0 .. Joints : num_joints' = n /\ Query(t, n + 2)
     \/ call[t].left > 1 /\ Query(t, call[t].left - 1) /\ UNCHANGED num_joints
     \/ call[t].left = 1 /\ Goto(t, "idle") /\ UNCHANGED <<num_joints, call>>
  /\ UNCHANGED <<sendVars, mutexes, received, wire, robot, calls>>

-----------------------------------------------------------------------------
(* OrazioClient_sync, one cycle; LockWrite, LockRead and Flush are shared  *)

\* After the flush _sendPacket queues drive_control_packet, for the next one.
SyncDrive(t) ==
  /\ pc[t] = "syncFlush" /\ tx = <<>>
  /\ IF drive_seq = 0
       THEN UNCHANGED sendVars
       ELSE /\ TakeNumber
            /\ drive_seq' = global_seq'
            /\ tx' = <<DrivePacket(global_seq')>>
  /\ write_mutex' = None
  /\ Goto(t, "syncSeq")
  /\ UNCHANGED <<read_mutex, received, num_joints, call, wire, robot, calls>>

\* current_seq=cl->end_epoch.seq, without a lock
SyncSeq(t) ==
  /\ pc[t] = "syncSeq"
  /\ call' = [call EXCEPT ![t].current = received.END_EPOCH]
  /\ Goto(t, "syncLockRead")
  /\ UNCHANGED <<sendVars, mutexes, received, num_joints, wire, robot, calls>>

SyncRead(t) ==
  /\ pc[t] = "syncRead"
  /\ ReadPacket
  /\ read_mutex' = None
  /\ Goto(t, "syncCheck")
  /\ UNCHANGED <<sendVars, write_mutex, num_joints, call, wire, calls>>

\* while (current_seq==cl->end_epoch.seq), without a lock
SyncCheck(t) ==
  /\ pc[t] = "syncCheck"
  /\ Goto(t, IF received.END_EPOCH = call[t].current THEN "syncLockRead" ELSE "idle")
  /\ UNCHANGED <<sendVars, mutexes, received, num_joints, call, wire, robot, calls>>

Sync(t) == SyncDrive(t) \/ SyncSeq(t) \/ SyncRead(t) \/ SyncCheck(t)

-----------------------------------------------------------------------------
(* OrazioClient_get and OrazioClient_setBaseVelocity                       *)

\* An index the configuration does not know returns before the unlock.
GetCopy(t) ==
  /\ pc[t] = "getCopy"
  /\ IF call[t].kind = "getJoint" /\ num_joints = 0
       THEN read_mutex' = read_mutex /\ call' = [call EXCEPT ![t].result = "GenericError"]
       ELSE read_mutex' = None /\ call' = [call EXCEPT ![t].result = "Success"]
  /\ Goto(t, "idle")
  /\ UNCHANGED <<sendVars, write_mutex, received, num_joints, wire, robot, calls>>

SetVelocity(t) ==
  /\ pc[t] = "setVelocity" /\ write_mutex = None
  /\ drive_seq' = 1
  /\ Goto(t, "idle")
  /\ UNCHANGED <<numbers, tx, mutexes, received, num_joints, call, wire, robot, calls>>

Step(t) == SendPacket(t) \/ Configure(t) \/ Sync(t) \/ GetCopy(t) \/ SetVelocity(t)

-----------------------------------------------------------------------------
(* The robot and the serial line                                           *)

Sent(type, content) == [type |-> type, content |-> content]

\* What Orazio_handlePacket and Orazio_handleParamCtl send for a packet.
Echo(param) ==
  IF param = None THEN <<>>
  ELSE <<IF param = "system" THEN Sent("SYSTEM_PARAM", "received")
         ELSE Sent("OTHER_PARAM", None)>>
Answers(p) == Echo(p.param) \o <<Sent("RESPONSE", p)>>

\* Orazio_commHandle, while the host does not fall behind by more than LineMax.
RobotEpoch ==
  /\ Len(line) <= LineMax
  /\ robot_seq' = (robot_seq + 1) % SeqWidth
  /\ executed' = executed \o wire
  /\ line' = line \o FlattenSeq([i \in 1 .. Len(wire) |-> Answers(wire[i])])
                  \o <<Sent("STATUS", robot_seq'), Sent("END_EPOCH", robot_seq')>>
  /\ wire' = <<>>
  /\ UNCHANGED <<sendVars, mutexes, received, num_joints, pc, call, losses, calls>>

Lose ==
  /\ losses < MaxLosses
  /\ \/ (\E i \in 1 .. Len(wire) : wire' = RemoveAt(wire, i)) /\ line' = line
     \/ (\E i \in 1 .. Len(line) : line' = RemoveAt(line, i)) /\ wire' = wire
  /\ losses' = losses + 1
  /\ UNCHANGED <<sendVars, mutexes, received, num_joints, pc, call, robot_seq, executed, calls>>

ClientNext == \/ \E t \in Threads : Step(t) \/ \E kind \in Kinds : Call(t, kind)
        \/ RobotEpoch \/ Lose

ClientSpec == ClientInit /\ [][ClientNext]_clientVars

\* Threads are scheduled, and the robot's timer goes on ticking.  Nobody has to
\* call, losses end, and a mutex need not go to who waits for it: a thread that
\* calls sync without end may starve the others (MaxCalls is what ends it here).
ClientFairSpec ==
  ClientSpec /\ (\A t \in Threads : WF_clientVars(Step(t))) /\ WF_clientVars(RobotEpoch)

-----------------------------------------------------------------------------
(* Properties *)

Seqs == 0 .. SeqWidth - 1
Labels == {"idle", "lockWrite", "lockRead", "nextSeq", "put", "flush", "await", "unlock",
           "configure", "exit", "syncLockWrite", "syncFlush", "syncSeq", "syncLockRead",
           "syncRead", "syncCheck", "getLock", "getCopy", "setVelocity"}
Packets == [type : {"JOINT_CONTROL", "PARAM_CONTROL", "DRIVE_CONTROL"}, seq : Seqs,
            param : {None, "system", "other"}]

ClientTypeOK ==
  /\ global_seq \in Seqs /\ taken \in Nat /\ drive_seq \in Seqs
  /\ tx \in Seq(Packets) /\ Len(tx) <= TxRoom
  /\ write_mutex \in Threads \cup {None} /\ read_mutex \in Threads \cup {None}
  /\ received \in [RESPONSE : Packets \cup {NoPacket}, SYSTEM_PARAM : {None, "received"},
                   STATUS : Seqs, END_EPOCH : Seqs]
  /\ num_joints \in 0 .. Joints /\ pc \in [Threads -> Labels]
  /\ \A t \in Threads : call[t].timeout \in 0 .. TIMEOUT /\ call[t].seq \in Seqs
  /\ wire \in Seq(Packets) /\ executed \in Seq(Packets) /\ robot_seq \in Seqs

\* A blocking call that got Success was executed by the robot: that very
\* packet, not one of the same type that this or another thread sent before
\* (orazio_client.c:296; numbers come again only when all have).  What it asked for
\* came before the response, if nothing was lost: readConfiguration then uses
\* the robot's parameters and not memory that nobody wrote.
SuccessMeansExecuted ==
  \A t \in Threads :
    pc[t] \in {"unlock", "idle"} /\ Blocking(t) /\ call[t].result = "Success"
      => /\ Packet(t) \in ToSet(executed)
         /\ losses = 0 => received.SYSTEM_PARAM # None

\* b is a later number than a, if they are less than half the numbers apart.
Later(a, b) == (b - a) % SeqWidth \in 1 .. SeqWidth \div 2

\* The packets of all threads reach the robot in the order of their sequence
\* numbers, each at most once, though a deferred packet is flushed by another
\* thread's call (orazio_client.c:257-289), and also when the numbers wrap.
InSequence ==
  LET sent == executed \o wire \o tx
  IN  \A i, j \in 1 .. Len(sent) : i < j => Later(sent[i].seq, sent[j].seq)

\* Every call returns, whatever the other threads call and however packets
\* are lost: waiting for a response is bounded, sync waits for an END_EPOCH
\* that comes again, and the mutexes are taken in one order.
\* orazio_client.h:17, "all functions below support multithreading".
CallsReturn == \A t \in Threads : pc[t] # "idle" ~> pc[t] \in {"idle", "exit"}
=============================================================================
