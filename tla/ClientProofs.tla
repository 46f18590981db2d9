---------------------------- MODULE ClientProofs ----------------------------
(***************************************************************************)
(* The host's client: for any threads, any calls they make and any         *)
(* packets lost, the types; the packets reach the robot in the order of    *)
(* their numbers; and a response is taken for the packet it answers.       *)
(*                                                                         *)
(* A number says little once all of them have been taken, so what follows  *)
(* from numbers holds while taken <= SeqWidth: the packets have numbers    *)
(* less and less far behind global_seq (AgeInv), who waits for a number    *)
(* waits for its own packet (OwnInv), responses are to what was executed   *)
(* (ResponseInv), after the parameters it asked for (KnownInv).            *)
(***************************************************************************)
EXTENDS HostClient, SequenceTheorems, WellFoundedInduction, TLAPS

\* A set of naturals that has 0, and with each natural the next one, has them all.
LEMMA Induct ==
  ASSUME NEW S, 0 \in S, \A n \in Nat : n \in S => n + 1 \in S
  PROVE  Nat \subseteq S
<1> SUFFICES ASSUME NEW m \in Nat \ S PROVE FALSE
  OBVIOUS
<1>1. PICK x \in Nat \ S : \A y \in Nat \ S : ~(<<y, x>> \in OpToRel(<, Nat))
  BY WFMin, NatLessThanWellFounded
<1>2. \A y \in Nat \ S : ~(y < x)
  BY <1>1, Zenon DEF OpToRel
<1>3. x # 0 /\ x - 1 \in Nat
  OBVIOUS
<1>4. x - 1 \in S
  BY <1>2, <1>3
<1> QED BY <1>3, <1>4

\* A set of sequences that is closed under concatenation
LEMMA Flattened ==
  ASSUME NEW G, <<>> \in G, \A s, t \in G : s \o t \in G, NEW n \in Nat, NEW f \in [1 .. n -> G]
  PROVE  FlattenSeq(f) \in G
<1>1. Len(f) = n
  <2>1. f \in Seq(G)
    OBVIOUS
  <2> QED BY <2>1
<1>2. CASE n = 0
  <2>1. f = <<>>
    BY <1>2
  <2> QED BY <1>1, <1>2, <2>1 DEF FlattenSeq
<1>3. CASE n # 0
  <2> DEFINE Extends(g, m) == g \in [1 .. m -> G] /\ \A i \in 1 .. m :
                                g[i] = IF i = 1 THEN f[i] ELSE g[i - 1] \o f[i]
             S == {m \in Nat : m <= n => \E g : Extends(g, m)}
             Equation(g) == g = [i \in 1 .. n |-> IF i = 1 THEN f[i] ELSE g[i - 1] \o f[i]]
             h == CHOOSE g : Equation(g)
             I == {m \in Nat : m \in 1 .. n => h[m] \in G}
  <2>1. \E g : Extends(g, n)
    <3>1. 0 \in S
      <4>1. Extends([i \in 1 .. 0 |-> <<>>], 0)
        OBVIOUS
      <4> QED BY <4>1
    <3>2. ASSUME NEW m \in Nat, m \in S, m + 1 <= n PROVE \E g : Extends(g, m + 1)
      <4>1. PICK g : Extends(g, m)
        BY <3>2
      <4> DEFINE k == [i \in 1 .. m + 1 |-> IF i = m + 1 THEN IF i = 1 THEN f[i] ELSE g[m] \o f[i]
                                            ELSE g[i]]
      <4>2. f[m + 1] \in G /\ (m > 0 => g[m] \in G)
        BY <3>2, <4>1
      <4>3. k \in [1 .. m + 1 -> G]
        BY <4>1, <4>2
      <4>4. ASSUME NEW i \in 1 .. m + 1 PROVE k[i] = IF i = 1 THEN f[i] ELSE k[i - 1] \o f[i]
        <5>1. CASE i = m + 1
          <6>1. k[i] = IF i = 1 THEN f[i] ELSE g[m] \o f[i]
            BY <5>1
          <6>2. i # 1 => k[i - 1] = g[m]
            BY <5>1
          <6> HIDE DEF k
          <6> QED BY <6>1, <6>2
        <5>2. CASE i # m + 1
          <6>1. i \in 1 .. m /\ k[i] = g[i] /\ (i # 1 => k[i - 1] = g[i - 1])
            BY <5>2
          <6>2. g[i] = IF i = 1 THEN f[i] ELSE g[i - 1] \o f[i]
            BY <4>1, <6>1
          <6> HIDE DEF k
          <6> QED BY <6>1, <6>2
        <5> QED BY <5>1, <5>2
      <4>5. Extends(k, m + 1)
        BY <4>3, <4>4
      <4> QED BY <4>5
    <3>3. \A m \in Nat : m \in S => m + 1 \in S
      BY <3>2
    <3> HIDE DEF S
    <3>4. n \in S
      BY <3>1, <3>3, Induct
    <3> QED BY <3>4 DEF S
  <2>2. \E g : Equation(g)
    <3>1. PICK g : Extends(g, n)
      BY <2>1
    <3>2. Equation(g)
      BY <3>1
    <3> QED BY <3>2
  <2>3. Equation(h)
    <3> HIDE DEF Equation
    <3> QED BY <2>2
  <2>4. FlattenSeq(f) = h[n]
    BY <1>1, <1>3 DEF FlattenSeq
  <2>5. 0 \in I
    OBVIOUS
  <2>6. ASSUME NEW m \in Nat, m \in I, m + 1 \in 1 .. n PROVE h[m + 1] \in G
    <3> HIDE DEF h
    <3>1. h[m + 1] = IF m + 1 = 1 THEN f[m + 1] ELSE h[m] \o f[m + 1]
      <4>1. \A i \in 1 .. n : h[i] = IF i = 1 THEN f[i] ELSE h[i - 1] \o f[i]
        BY <2>3
      <4>2. (m + 1) - 1 = m
        OBVIOUS
      <4> QED BY <2>6, <4>1, <4>2
    <3>2. f[m + 1] \in G /\ (m > 0 => h[m] \in G)
      BY <2>6
    <3> QED BY <3>1, <3>2
  <2>7. \A m \in Nat : m \in I => m + 1 \in I
    <3> HIDE DEF h
    <3> QED BY <2>6
  <2>8. n \in I
    <3> HIDE DEF I
    <3> QED BY <2>5, <2>7, Induct
  <2> HIDE DEF h
  <2> QED BY <1>3, <2>4, <2>8
<1> QED BY <1>2, <1>3

-----------------------------------------------------------------------------
(* The inductive invariant *)

\* What comes from the robot
Messages ==
  [type : {"RESPONSE"}, content : Packets] \cup [type : {"SYSTEM_PARAM"}, content : {"received"}]
  \cup [type : {"OTHER_PARAM"}, content : {None}]
  \cup [type : {"STATUS", "END_EPOCH"}, content : Seqs]
Results == {None, "UnknownType", "Success", "TxBufferFull", "Timeout", "GenericError"}
CallRecord ==
  [kind : Kinds \cup {None}, seq : Seqs, timeout : 0 .. TIMEOUT, current : Seqs,
   result : Results, left : Nat]

\* A packet is being sent, or its response awaited.
Sending == {"lockWrite", "lockRead", "nextSeq", "put", "flush", "await"}

TypeInv ==
  /\ ClientTypeOK /\ line \in Seq(Messages) /\ call \in [Threads -> CallRecord]
  /\ losses \in Nat /\ \A t \in Threads : pc[t] \in Sending => call[t].timeout > 0

\* From LockWrite to Unlock or SyncDrive a thread has the write mutex.
Writing == {"lockRead", "nextSeq", "put", "flush", "await", "unlock", "syncFlush"}
LockInv == \A t \in Threads : pc[t] \in Writing => write_mutex = t

-----------------------------------------------------------------------------
(* Types *)

LEMMA ClientConstants ==
  /\ SeqWidth \in Nat /\ SeqWidth > 1 /\ TIMEOUT \in Nat /\ TIMEOUT > 0
  /\ TxRoom \in Nat /\ TxRoom > 0 /\ Joints \in Nat
  /\ FirstSeqs \subseteq Seqs /\ 0 \in Seqs /\ 1 \in Seqs /\ None \notin Threads
  /\ \A n \in Int : n % SeqWidth \in Seqs
BY ClientAssumption DEF Seqs

LEMMA SeqsNat == Seqs \subseteq Nat
BY ClientConstants DEF Seqs

LEMMA NextNumber == ASSUME NEW n \in Seqs PROVE (n + 1) % SeqWidth \in Seqs
<1>1. n + 1 \in Int
  BY ClientConstants DEF Seqs
<1> QED BY <1>1, ClientConstants

LEMMA NumberTaken ==
  ASSUME TypeInv, TakeNumber
  PROVE  global_seq' \in Seqs /\ taken' \in Nat
BY NextNumber DEF TypeInv, ClientTypeOK, TakeNumber

\* A field of a call is set.
LEMMA CallSet ==
  ASSUME NEW c \in CallRecord
  PROVE  /\ \A r \in Results : [c EXCEPT !.result = r] \in CallRecord
         /\ \A n \in Seqs : [c EXCEPT !.seq = n] \in CallRecord
         /\ \A n \in Seqs : [c EXCEPT !.current = n] \in CallRecord
         /\ \A n \in 0 .. TIMEOUT : [c EXCEPT !.timeout = n] \in CallRecord
         /\ \A n \in Nat : [c EXCEPT !.left = n, !.timeout = TIMEOUT] \in CallRecord
<1>1. TIMEOUT \in 0 .. TIMEOUT
  BY ClientConstants
<1> QED BY <1>1 DEF CallRecord

LEMMA TypeStarts == ClientInit => TypeInv /\ LockInv
<1> SUFFICES ASSUME ClientInit PROVE TypeInv /\ LockInv
  OBVIOUS
<1>1. NoCall \in CallRecord
  BY ClientConstants DEF NoCall, NewCall, CallRecord, Results
<1>2. received \in [RESPONSE : Packets \cup {NoPacket}, SYSTEM_PARAM : {None, "received"},
                    STATUS : Seqs, END_EPOCH : Seqs]
  BY ClientConstants DEF ClientInit
<1>3. pc \in [Threads -> Labels] /\ \A t \in Threads : pc[t] = "idle"
  BY DEF ClientInit, Labels
<1>4. call \in [Threads -> CallRecord]
  BY <1>1 DEF ClientInit
<1>5. \A t \in Threads : call[t].timeout \in 0 .. TIMEOUT /\ call[t].seq \in Seqs
  BY <1>4 DEF CallRecord
<1>6. \A t \in Threads : pc[t] \notin Sending /\ pc[t] \notin Writing
  BY <1>3 DEF Sending, Writing
<1>7. num_joints \in 0 .. Joints /\ tx \in Seq(Packets) /\ Len(tx) <= TxRoom
  BY ClientConstants DEF ClientInit
<1>8. /\ wire \in Seq(Packets) /\ executed \in Seq(Packets) /\ line \in Seq(Messages)
      /\ write_mutex \in Threads \cup {None} /\ read_mutex \in Threads \cup {None}
  BY DEF ClientInit
<1>9. global_seq \in Seqs /\ taken \in Nat /\ drive_seq \in Seqs /\ robot_seq \in Seqs
      /\ losses \in Nat
  BY ClientConstants DEF ClientInit
<1> QED
  BY <1>2, <1>3, <1>4, <1>5, <1>6, <1>7, <1>8, <1>9 DEF TypeInv, LockInv, ClientTypeOK

\* Where a call begins
LEMMA CallGoes ==
  ASSUME TypeInv, NEW t \in Threads, NEW kind \in Kinds, Call(t, kind)
  PROVE  \E label \in {"lockWrite", "syncLockWrite", "getLock", "setVelocity"} :
           /\ pc' = [pc EXCEPT ![t] = label]
           /\ kind \in {"query", "configure"} => label = "lockWrite"
<1>1. CASE kind \in {"send", "invalid", "query", "configure"}
  BY <1>1 DEF Call, Goto
<1>2. CASE kind = "sync"
  BY <1>2 DEF Call, Goto
<1>3. CASE kind \in {"get", "getJoint"}
  BY <1>3 DEF Call, Goto
<1>4. CASE kind = "setVelocity"
  BY <1>4 DEF Call, Goto
<1> QED BY <1>1, <1>2, <1>3, <1>4 DEF Kinds

LEMMA LockReadGoes ==
  ASSUME TypeInv, NEW t \in Threads, LockRead(t)
  PROVE  \/ pc[t] = "lockRead" /\ pc' = [pc EXCEPT ![t] = "nextSeq"]
         \/ pc[t] = "syncLockRead" /\ pc' = [pc EXCEPT ![t] = "syncRead"]
         \/ pc[t] = "getLock" /\ pc' = [pc EXCEPT ![t] = "getCopy"]
<1>1. CASE pc[t] = "lockRead"
  BY <1>1 DEF LockRead, Goto
<1>2. CASE pc[t] = "syncLockRead"
  BY <1>2 DEF LockRead, Goto
<1>3. CASE pc[t] = "getLock"
  BY <1>3 DEF LockRead, Goto
<1> QED BY <1>1, <1>2, <1>3 DEF LockRead

\* What is left after a packet was read: it is in the variable of its type.
LEMMA ReadIs ==
  ASSUME TypeInv, ReadPacket
  PROVE  /\ line # <<>> /\ line' = Tail(line) /\ line' \in Seq(Messages) /\ line[1] \in Messages
         /\ UNCHANGED <<robot_seq, executed, losses>>
         /\ received' \in [RESPONSE : Packets \cup {NoPacket}, SYSTEM_PARAM : {None, "received"},
                           STATUS : Seqs, END_EPOCH : Seqs]
         /\ received'.RESPONSE = IF line[1].type = "RESPONSE" THEN line[1].content
                                 ELSE received.RESPONSE
         /\ received'.SYSTEM_PARAM = IF line[1].type = "SYSTEM_PARAM" THEN "received"
                                     ELSE received.SYSTEM_PARAM
<1>1. /\ line # <<>> /\ line' = Tail(line) /\ line' \in Seq(Messages) /\ line[1] \in Messages
      /\ Head(line) = line[1]
  BY DEF ReadPacket, TypeInv
<1>2. /\ received \in [RESPONSE : Packets \cup {NoPacket}, SYSTEM_PARAM : {None, "received"},
                       STATUS : Seqs, END_EPOCH : Seqs]
      /\ DOMAIN received = {"RESPONSE", "SYSTEM_PARAM", "STATUS", "END_EPOCH"}
  BY DEF TypeInv, ClientTypeOK
<1>3. CASE line[1].type = "RESPONSE"
  BY <1>1, <1>2, <1>3 DEF ReadPacket, Messages
<1>4. CASE line[1].type = "SYSTEM_PARAM"
  BY <1>1, <1>2, <1>4 DEF ReadPacket, Messages
<1>5. CASE line[1].type = "STATUS"
  BY <1>1, <1>2, <1>5 DEF ReadPacket, Messages
<1>6. CASE line[1].type = "END_EPOCH"
  BY <1>1, <1>2, <1>6 DEF ReadPacket, Messages
<1>7. CASE line[1].type = "OTHER_PARAM"
  BY <1>1, <1>2, <1>7 DEF ReadPacket, Messages
<1> QED BY <1>1, <1>3, <1>4, <1>5, <1>6, <1>7 DEF Messages

\* Messages in which responses are to packets of K, and one to a query for the system's
\* parameters comes right after these
Orderly(K) ==
  {s \in Seq(Messages) :
     \A k \in 1 .. Len(s) : s[k].type = "RESPONSE" =>
       /\ s[k].content \in K
       /\ s[k].content.param = "system" => k > 1 /\ s[k - 1].type = "SYSTEM_PARAM"}

LEMMA OrderlyAppend ==
  ASSUME NEW K, NEW s \in Orderly(K), NEW u \in Orderly(K)
  PROVE  s \o u \in Orderly(K)
<1>1. s \in Seq(Messages) /\ u \in Seq(Messages) /\ s \o u \in Seq(Messages)
      /\ Len(s) \in Nat /\ Len(u) \in Nat /\ Len(s \o u) = Len(s) + Len(u)
  BY DEF Orderly
<1> SUFFICES ASSUME NEW k \in 1 .. Len(s \o u), (s \o u)[k].type = "RESPONSE"
             PROVE  /\ (s \o u)[k].content \in K
                    /\ (s \o u)[k].content.param = "system"
                         => k > 1 /\ (s \o u)[k - 1].type = "SYSTEM_PARAM"
  BY <1>1 DEF Orderly
<1>2. CASE k <= Len(s)
  <2>1. k \in 1 .. Len(s) /\ (s \o u)[k] = s[k] /\ (k > 1 => (s \o u)[k - 1] = s[k - 1])
    BY <1>1, <1>2
  <2> QED BY <2>1 DEF Orderly
<1>3. CASE k > Len(s)
  <2> DEFINE m == k - Len(s)
  <2>1. m \in 1 .. Len(u) /\ (s \o u)[k] = u[m] /\ (m > 1 => (s \o u)[k - 1] = u[m - 1] /\ k > 1)
    BY <1>1, <1>3
  <2> HIDE DEF m
  <2> QED BY <2>1 DEF Orderly
<1> QED BY <1>1, <1>2, <1>3

LEMMA PairOf == ASSUME NEW a, NEW b PROVE <<a>> \o <<b>> = <<a, b>>
<1> DEFINE S == {a, b}
<1>1. <<a>> \in Seq(S) /\ <<b>> \in Seq(S) /\ <<a, b>> \in Seq(S)
  OBVIOUS
<1>2. <<a>> \o <<b>> \in Seq(S) /\ Len(<<a>> \o <<b>>) = 2 /\ Len(<<a, b>>) = 2
  BY <1>1
<1>3. (<<a>> \o <<b>>)[1] = a /\ (<<a>> \o <<b>>)[2] = b
  BY <1>1
<1> HIDE DEF S
<1>4. \A i \in 1 .. 2 : (<<a>> \o <<b>>)[i] = <<a, b>>[i]
  BY <1>3
<1> QED BY <1>1, <1>2, <1>4, SeqEqual

LEMMA AnswersOrderly ==
  ASSUME NEW K, NEW p \in Packets, p \in K
  PROVE  Answers(p) \in Orderly(K)
<1> DEFINE response == Sent("RESPONSE", p)
<1>1. response \in Messages /\ response.type = "RESPONSE" /\ response.content = p
  BY DEF Sent, Messages
<1>2. CASE p.param = "system"
  <2>1. Answers(p) = <<Sent("SYSTEM_PARAM", "received"), response>>
    <3>1. Answers(p) = Echo(p.param) \o <<response>>
      BY DEF Answers
    <3>2. Echo(p.param) = <<Sent("SYSTEM_PARAM", "received")>>
      BY <1>2 DEF Echo, None
    <3> QED BY <3>1, <3>2, PairOf
  <2>2. Sent("SYSTEM_PARAM", "received") \in Messages
        /\ Sent("SYSTEM_PARAM", "received").type = "SYSTEM_PARAM"
    BY DEF Sent, Messages
  <2> HIDE DEF response
  <2> QED BY <1>1, <2>1, <2>2 DEF Orderly
<1>3. CASE p.param = "other"
  <2>1. Answers(p) = <<Sent("OTHER_PARAM", None), response>>
    <3>1. Answers(p) = Echo(p.param) \o <<response>>
      BY DEF Answers
    <3>2. Echo(p.param) = <<Sent("OTHER_PARAM", None)>>
      BY <1>3 DEF Echo, None
    <3> QED BY <3>1, <3>2, PairOf
  <2>2. Sent("OTHER_PARAM", None) \in Messages /\ Sent("OTHER_PARAM", None).type = "OTHER_PARAM"
    BY DEF Sent, Messages
  <2> HIDE DEF response
  <2> QED BY <1>1, <1>3, <2>1, <2>2 DEF Orderly
<1>4. CASE p.param = None
  <2>1. Answers(p) = <<response>>
    <3>1. Answers(p) = Echo(p.param) \o <<response>>
      BY DEF Answers
    <3>2. Echo(p.param) = <<>>
      BY <1>4 DEF Echo, None
    <3> QED BY <3>1, <3>2
  <2> HIDE DEF response
  <2> QED BY <1>1, <1>4, <2>1 DEF Orderly, None
<1> QED BY <1>2, <1>3, <1>4 DEF Packets

\* What the robot sends in an epoch
LEMMA EpochOrderly ==
  ASSUME wire \in Seq(Packets)
  PROVE  FlattenSeq([i \in 1 .. Len(wire) |-> Answers(wire[i])]) \in Orderly(ToSet(wire))
<1> DEFINE K == ToSet(wire)
           f == [i \in 1 .. Len(wire) |-> Answers(wire[i])]
<1>1. \A i \in 1 .. Len(wire) : wire[i] \in Packets /\ wire[i] \in K
  BY DEF ToSet
<1> HIDE DEF K
<1>2. f \in [1 .. Len(wire) -> Orderly(K)]
  BY <1>1, AnswersOrderly
<1>3. <<>> \in Orderly(K)
  BY DEF Orderly
<1>4. \A s, u \in Orderly(K) : s \o u \in Orderly(K)
  BY OrderlyAppend
<1>5. Len(wire) \in Nat
  OBVIOUS
<1> HIDE DEF f
<1>6. FlattenSeq(f) \in Orderly(K)
  BY <1>2, <1>3, <1>4, <1>5, Flattened
<1> QED BY <1>6 DEF f, K

LEMMA EpochType ==
  ASSUME TypeInv, RobotEpoch
  PROVE  /\ line' \in Seq(Messages) /\ robot_seq' \in Seqs
         /\ executed' \in Seq(Packets) /\ wire' = <<>>
<1>1. /\ wire \in Seq(Packets) /\ executed \in Seq(Packets) /\ line \in Seq(Messages)
      /\ robot_seq \in Seqs
  BY DEF TypeInv, ClientTypeOK
<1>2. FlattenSeq([i \in 1 .. Len(wire) |-> Answers(wire[i])]) \in Seq(Messages)
  BY <1>1, EpochOrderly DEF Orderly
<1>3. robot_seq' \in Seqs
  BY <1>1, NextNumber DEF RobotEpoch
<1>4. Sent("STATUS", robot_seq') \in Messages /\ Sent("END_EPOCH", robot_seq') \in Messages
  BY <1>3 DEF Sent, Messages
<1>5. <<Sent("STATUS", robot_seq'), Sent("END_EPOCH", robot_seq')>> \in Seq(Messages)
  BY <1>4
<1> QED BY <1>1, <1>2, <1>3, <1>5 DEF RobotEpoch

\* An element is taken out of a sequence.
LEMMA RemoveIs ==
  ASSUME NEW S, NEW s \in Seq(S), NEW i \in 1 .. Len(s)
  PROVE  /\ RemoveAt(s, i) \in Seq(S) /\ Len(RemoveAt(s, i)) = Len(s) - 1
         /\ \A k \in 1 .. Len(s) - 1 : RemoveAt(s, i)[k] = s[IF k < i THEN k ELSE k + 1]
<1> DEFINE a == SubSeq(s, 1, i - 1)
           b == SubSeq(s, i + 1, Len(s))
<1>1. RemoveAt(s, i) = a \o b
  BY DEF RemoveAt
<1>2. Len(s) \in Nat /\ i \in Nat
  OBVIOUS
<1>3. a \in Seq(S) /\ Len(a) = i - 1 /\ \A k \in 1 .. i - 1 : a[k] = s[k]
  BY <1>2
<1>4. b \in Seq(S) /\ Len(b) = Len(s) - i /\ \A k \in 1 .. Len(s) - i : b[k] = s[i + k]
  BY <1>2
<1> HIDE DEF a, b
<1>5. /\ a \o b \in Seq(S) /\ Len(a \o b) = Len(a) + Len(b)
      /\ \A k \in 1 .. Len(a) + Len(b) : (a \o b)[k] = IF k <= Len(a) THEN a[k] ELSE b[k - Len(a)]
  BY <1>3, <1>4, ConcatProperties
<1>6. ASSUME NEW k \in 1 .. Len(s) - 1 PROVE (a \o b)[k] = s[IF k < i THEN k ELSE k + 1]
  <2>0. k \in Nat /\ i \in Nat
    BY <1>2
  <2>1. CASE k < i
    <3>1. k \in 1 .. i - 1 /\ k \in 1 .. Len(a) + Len(b) /\ k <= Len(a)
      BY <1>2, <1>3, <1>4, <2>1
    <3> QED BY <1>3, <1>5, <2>1, <3>1
  <2>2. CASE k >= i
    <3>1. k \in 1 .. Len(a) + Len(b) /\ ~(k <= Len(a)) /\ k - Len(a) \in 1 .. Len(s) - i
      BY <1>2, <1>3, <1>4, <2>2
    <3>2. b[k - Len(a)] = s[i + (k - Len(a))]
      BY <1>4, <3>1
    <3>3. i + (k - Len(a)) = k + 1
      BY <1>2, <1>3
    <3>4. (a \o b)[k] = b[k - Len(a)]
      BY <1>5, <3>1
    <3>5. ~(k < i)
      BY <1>2, <2>2
    <3>6. (IF k < i THEN k ELSE k + 1) = k + 1
      BY <3>5
    <3> QED BY <3>2, <3>3, <3>4, <3>6, Zenon
  <2>3. k < i \/ k >= i
    BY <2>0
  <2> QED BY <2>1, <2>2, <2>3, Zenon
<1>7. Len(a) + Len(b) = Len(s) - 1
  BY <1>2, <1>3, <1>4
<1> QED BY <1>1, <1>5, <1>6, <1>7

LEMMA LoseType ==
  ASSUME TypeInv, Lose
  PROVE  wire' \in Seq(Packets) /\ line' \in Seq(Messages)
<1>1. wire \in Seq(Packets) /\ line \in Seq(Messages)
  BY DEF TypeInv, ClientTypeOK
<1> QED BY <1>1, RemoveIs DEF Lose

LEMMA TypeStep == TypeInv /\ [ClientNext]_clientVars => TypeInv'
<1> SUFFICES ASSUME TypeInv, [ClientNext]_clientVars PROVE TypeInv'
  OBVIOUS
<1>1. ASSUME NEW t \in Threads, NEW kind \in Kinds, Call(t, kind) PROVE TypeInv'
  <2>1. PICK label \in {"lockWrite", "syncLockWrite", "getLock", "setVelocity"} :
          pc' = [pc EXCEPT ![t] = label]
    BY <1>1, CallGoes
  <2>2. NewCall(kind, TIMEOUT) \in CallRecord /\ NewCall(kind, TIMEOUT).timeout > 0
    BY ClientConstants DEF NewCall, CallRecord, Results
  <2> QED BY <1>1, <2>1, <2>2
       DEF Call, TypeInv, ClientTypeOK, CallRecord, Labels, Sending, sendVars, numbers, mutexes,
           robot
<1>2. ASSUME NEW t \in Threads, LockWrite(t) PROVE TypeInv'
  BY <1>2 DEF LockWrite, Goto, TypeInv, ClientTypeOK, Labels, Sending, sendVars, numbers, robot
<1>3. ASSUME NEW t \in Threads, LockRead(t) PROVE TypeInv'
  BY <1>3, LockReadGoes
  DEF LockRead, TypeInv, ClientTypeOK, Labels, Sending, sendVars, numbers, robot
<1>4. ASSUME NEW t \in Threads, NextSeq(t) PROVE TypeInv'
  <2>1. global_seq' \in Seqs /\ taken' \in Nat
    BY <1>4, NumberTaken DEF NextSeq
  <2>2. call' \in [Threads -> CallRecord]
    <3>1. call[t] \in CallRecord
      BY DEF TypeInv
    <3>2. CASE call[t].kind = "invalid"
      <4>1. [call[t] EXCEPT !.result = "UnknownType"] \in CallRecord
        BY <3>1, CallSet DEF Results
      <4>2. call' = [call EXCEPT ![t] = [call[t] EXCEPT !.result = "UnknownType"]]
        BY <1>4, <3>2 DEF NextSeq
      <4> QED BY <4>1, <4>2 DEF TypeInv
    <3>3. CASE call[t].kind # "invalid"
      <4>1. [call[t] EXCEPT !.seq = global_seq'] \in CallRecord
        BY <2>1, <3>1, CallSet
      <4>2. call' = [call EXCEPT ![t] = [call[t] EXCEPT !.seq = global_seq']]
        BY <1>4, <3>3 DEF NextSeq
      <4> QED BY <4>1, <4>2 DEF TypeInv
    <3> QED BY <3>2, <3>3
  <2>3. \A u \in Threads : pc'[u] \in Sending => pc[u] \in Sending
                                                /\ call'[u].timeout = call[u].timeout
    BY <1>4 DEF NextSeq, Goto, TypeInv, ClientTypeOK, CallRecord, Sending
  <2>4. pc' \in [Threads -> Labels]
    BY <1>4 DEF NextSeq, Goto, TypeInv, ClientTypeOK, Labels
  <2>5. \A u \in Threads : call'[u].timeout \in 0 .. TIMEOUT /\ call'[u].seq \in Seqs
    BY <2>2 DEF CallRecord
  <2> QED BY <1>4, <2>1, <2>2, <2>3, <2>4, <2>5
          DEF NextSeq, TypeInv, ClientTypeOK, mutexes, robot
<1>5. ASSUME NEW t \in Threads, Put(t) PROVE TypeInv'
  <2>1. Packet(t) \in Packets
    BY DEF TypeInv, CallRecord, Packet, Packets
  <2>2. call' \in [Threads -> CallRecord]
    <3>1. PICK r \in {"Success", "TxBufferFull"} : call' = [call EXCEPT ![t].result = r]
      BY <1>5 DEF Put
    <3>2. r \in Results
      BY DEF Results
    <3>3. [call[t] EXCEPT !.result = r] \in CallRecord
      BY <3>2, CallSet DEF TypeInv
    <3>4. call' = [call EXCEPT ![t] = [call[t] EXCEPT !.result = r]]
      BY <3>1
    <3> QED BY <3>3, <3>4 DEF TypeInv
  <2>3. tx' \in Seq(Packets) /\ Len(tx') <= TxRoom
    <3>1. tx \in Seq(Packets) /\ Len(tx) <= TxRoom /\ Len(tx) \in Nat
      BY DEF TypeInv, ClientTypeOK
    <3>2. CASE Len(tx) < TxRoom
      <4>1. tx' = Append(tx, Packet(t))
        BY <1>5, <3>2 DEF Put
      <4>2. Append(tx, Packet(t)) \in Seq(Packets) /\ Len(Append(tx, Packet(t))) = Len(tx) + 1
        BY <2>1, <3>1, AppendProperties
      <4> QED BY <3>1, <3>2, <4>1, <4>2, ClientConstants
    <3>3. CASE ~(Len(tx) < TxRoom)
      BY <1>5, <3>1, <3>3 DEF Put
    <3> QED BY <3>2, <3>3
  <2>4. \A u \in Threads : pc'[u] \in Sending => pc[u] \in Sending
                                                /\ call'[u].timeout = call[u].timeout
    BY <1>5 DEF Put, Goto, TypeInv, ClientTypeOK, CallRecord, Sending
  <2>5. pc' \in [Threads -> Labels]
    BY <1>5 DEF Put, Goto, TypeInv, ClientTypeOK, Labels
  <2>6. \A u \in Threads : call'[u].timeout \in 0 .. TIMEOUT /\ call'[u].seq \in Seqs
    BY <2>2 DEF CallRecord
  <2> QED BY <1>5, <2>2, <2>3, <2>4, <2>5, <2>6
          DEF Put, TypeInv, ClientTypeOK, numbers, mutexes, robot
<1>6. ASSUME NEW t \in Threads, Flush(t) PROVE TypeInv'
  <2>1. tx \in Seq(Packets) /\ Len(tx) <= TxRoom /\ wire \in Seq(Packets) /\ tx # <<>>
    BY <1>6 DEF Flush, TypeInv, ClientTypeOK
  <2>2. /\ Head(tx) \in Packets /\ Tail(tx) \in Seq(Packets) /\ Len(Tail(tx)) = Len(tx) - 1
        /\ Append(wire, Head(tx)) \in Seq(Packets) /\ Len(tx) \in Nat
    BY <2>1, HeadTailProperties, AppendProperties
  <2>3. tx' \in Seq(Packets) /\ Len(tx') <= TxRoom /\ wire' \in Seq(Packets)
    BY <1>6, <2>1, <2>2, ClientConstants DEF Flush
  <2> QED BY <1>6, <2>3 DEF Flush, TypeInv, ClientTypeOK, numbers, mutexes, robot
<1>7. ASSUME NEW t \in Threads, Flushed(t) PROVE TypeInv'
  <2>1. call' \in [Threads -> CallRecord]
    BY <1>7, CallSet DEF Flushed, TypeInv, Results
  <2> QED BY <1>7, <2>1
       DEF Flushed, Goto, TypeInv, ClientTypeOK, CallRecord, Labels, Sending, sendVars, numbers,
           mutexes, robot
<1>8. ASSUME NEW t \in Threads, Await(t) PROVE TypeInv'
  <2>1. call[t].timeout \in 1 .. TIMEOUT /\ call[t] \in CallRecord
    BY <1>8, ClientConstants DEF Await, TypeInv, CallRecord, Sending
  <2>2. call[t].timeout - 1 \in 0 .. TIMEOUT
    BY <2>1, ClientConstants
  <2>3. call' \in [Threads -> CallRecord]
    BY <1>8, <2>1, <2>2, CallSet DEF Await, TypeInv, Results
  <2>4. pc' \in [Threads -> Labels]
    BY <1>8 DEF Await, Goto, TypeInv, ClientTypeOK, Labels
  <2>5. \A u \in Threads : pc'[u] \in Sending => call'[u].timeout > 0
    <3>1. CASE Answered(t, received'.RESPONSE)
      <4>1. pc' = [pc EXCEPT ![t] = "unlock"] /\ \A u \in Threads : u # t => call'[u] = call[u]
        BY <1>8, <3>1 DEF Await, Goto, TypeInv
      <4> QED BY <4>1 DEF TypeInv, ClientTypeOK, Sending
    <3>2. CASE ~Answered(t, received'.RESPONSE)
      <4>1. /\ pc' = [pc EXCEPT ![t] = IF call[t].timeout = 1 THEN "unlock" ELSE "await"]
            /\ call'[t].timeout = call[t].timeout - 1
            /\ \A u \in Threads : u # t => call'[u] = call[u]
        BY <1>8, <2>1, <3>2 DEF Await, Goto, TypeInv, CallRecord
      <4>2. pc'[t] \in Sending => call'[t].timeout > 0
        BY <2>1, <4>1 DEF TypeInv, ClientTypeOK, Sending
      <4> QED BY <4>1, <4>2 DEF TypeInv, ClientTypeOK
    <3> QED BY <3>1, <3>2
  <2>6. \A u \in Threads : call'[u].timeout \in 0 .. TIMEOUT /\ call'[u].seq \in Seqs
    BY <2>3 DEF CallRecord
  <2> QED BY <1>8, <2>3, <2>4, <2>5, <2>6, ReadIs
          DEF Await, TypeInv, ClientTypeOK, sendVars, numbers, mutexes
<1>9. ASSUME NEW t \in Threads, Unlock(t) PROVE TypeInv'
  BY <1>9 DEF Unlock, Goto, TypeInv, ClientTypeOK, Labels, Sending, sendVars, numbers, robot
<1>10. ASSUME NEW t \in Threads, Configure(t) PROVE TypeInv'
  <2>0. /\ UNCHANGED <<sendVars, mutexes, received, wire, robot, calls>>
        /\ Joints \in 0 .. Joints /\ Joints + 2 \in Nat /\ call[t].left \in Nat
        /\ \A n \in 0 .. Joints : n + 2 \in Nat
    <3>1. UNCHANGED <<sendVars, mutexes, received, wire, robot, calls>>
      BY <1>10 DEF Configure
    <3>2. Joints \in 0 .. Joints /\ Joints + 2 \in Nat /\ \A n \in 0 .. Joints : n + 2 \in Nat
      BY ClientConstants
    <3>3. call[t].left \in Nat
      BY DEF TypeInv, CallRecord
    <3> QED BY <3>1, <3>2, <3>3
  <2>1. ASSUME NEW n \in Nat, Query(t, n), num_joints' \in 0 .. Joints PROVE TypeInv'
    <3> DEFINE c == [call[t] EXCEPT !.left = n, !.timeout = TIMEOUT]
    <3>1. call' = [call EXCEPT ![t] = c]
      BY <2>1 DEF Query, TypeInv
    <3>2. c \in CallRecord /\ c.timeout = TIMEOUT
      BY CallSet DEF TypeInv, CallRecord
    <3> HIDE DEF c
    <3>3. call' \in [Threads -> CallRecord] /\ call'[t].timeout = TIMEOUT
          /\ \A u \in Threads : u # t => call'[u] = call[u]
      BY <3>1, <3>2 DEF TypeInv
    <3>4. /\ pc' \in [Threads -> Labels] /\ pc' = [pc EXCEPT ![t] = "lockWrite"]
      BY <2>1 DEF Query, Goto, TypeInv, ClientTypeOK, Labels
    <3>5. \A u \in Threads : pc'[u] \in Sending => call'[u].timeout > 0
      BY <3>3, <3>4, ClientConstants DEF TypeInv, ClientTypeOK
    <3>6. \A u \in Threads : call'[u].timeout \in 0 .. TIMEOUT /\ call'[u].seq \in Seqs
      BY <3>3 DEF CallRecord
    <3> QED BY <2>0, <2>1, <3>3, <3>4, <3>5, <3>6
            DEF TypeInv, ClientTypeOK, sendVars, numbers, mutexes, robot
  <2>2. num_joints \in 0 .. Joints
    BY DEF TypeInv, ClientTypeOK
  <2>3. CASE num_joints' = Joints /\ Query(t, Joints + 2)
    BY <2>0, <2>1, <2>3
  <2>4. CASE pc' = [u \in Threads |-> "exit"] /\ UNCHANGED <<num_joints, call>>
    BY <2>0, <2>4 DEF TypeInv, ClientTypeOK, Labels, Sending, sendVars, numbers, mutexes, robot
  <2>5. CASE \E n \in 0 .. Joints : num_joints' = n /\ Query(t, n + 2)
    BY <2>0, <2>1, <2>5
  <2>6. CASE call[t].left > 1 /\ Query(t, call[t].left - 1) /\ UNCHANGED num_joints
    <3>1. call[t].left - 1 \in Nat
      BY <2>0, <2>6
    <3> QED BY <2>1, <2>2, <2>6, <3>1
  <2>7. CASE Goto(t, "idle") /\ UNCHANGED <<num_joints, call>>
    BY <2>0, <2>7
    DEF Goto, TypeInv, ClientTypeOK, Labels, Sending, sendVars, numbers, mutexes, robot
  <2> QED BY <1>10, <2>3, <2>4, <2>5, <2>6, <2>7 DEF Configure
<1>11. ASSUME NEW t \in Threads, SyncDrive(t) PROVE TypeInv'
  <2>1. TakeNumber => global_seq' \in Seqs /\ taken' \in Nat
    BY NumberTaken
  <2>2. \A n \in Seqs : DrivePacket(n) \in Packets
    BY DEF DrivePacket, Packets
  <2>3. /\ global_seq' \in Seqs /\ taken' \in Nat /\ drive_seq' \in Seqs
        /\ tx' \in Seq(Packets) /\ Len(tx') <= TxRoom
    <3>1. CASE drive_seq = 0
      BY <1>11, <3>1 DEF SyncDrive, TypeInv, ClientTypeOK, sendVars, numbers
    <3>2. CASE drive_seq # 0
      <4>1. TakeNumber /\ drive_seq' = global_seq' /\ tx' = <<DrivePacket(global_seq')>>
        BY <1>11, <3>2 DEF SyncDrive
      <4>2. DrivePacket(global_seq') \in Packets
        BY <2>1, <2>2, <4>1
      <4>3. tx' \in Seq(Packets) /\ Len(tx') = 1
        BY <4>1, <4>2
      <4> QED BY <2>1, <4>1, <4>3, ClientConstants
    <3> QED BY <3>1, <3>2
  <2> QED BY <1>11, <2>3
          DEF SyncDrive, Goto, TypeInv, ClientTypeOK, Labels, Sending, sendVars, numbers, robot
<1>12. ASSUME NEW t \in Threads, SyncSeq(t) PROVE TypeInv'
  <2>1. call' \in [Threads -> CallRecord]
    BY <1>12, CallSet DEF SyncSeq, TypeInv, ClientTypeOK
  <2> QED BY <1>12, <2>1
       DEF SyncSeq, Goto, TypeInv, ClientTypeOK, CallRecord, Labels, Sending, sendVars, numbers,
           mutexes, robot
<1>13. ASSUME NEW t \in Threads, SyncRead(t) PROVE TypeInv'
  BY <1>13, ReadIs DEF SyncRead, Goto, TypeInv, ClientTypeOK, Labels, Sending, sendVars, numbers
<1>14. ASSUME NEW t \in Threads, SyncCheck(t) PROVE TypeInv'
  BY <1>14
  DEF SyncCheck, Goto, TypeInv, ClientTypeOK, Labels, Sending, sendVars, numbers, mutexes, robot
<1>15. ASSUME NEW t \in Threads, GetCopy(t) PROVE TypeInv'
  <2>1. call' \in [Threads -> CallRecord]
    BY <1>15, CallSet DEF GetCopy, TypeInv, Results
  <2> QED BY <1>15, <2>1
       DEF GetCopy, Goto, TypeInv, ClientTypeOK, CallRecord, Labels, Sending, sendVars, numbers,
           robot
<1>16. ASSUME NEW t \in Threads, SetVelocity(t) PROVE TypeInv'
  BY <1>16, ClientConstants
  DEF SetVelocity, Goto, TypeInv, ClientTypeOK, Labels, Sending, numbers, mutexes, robot
<1>17. CASE RobotEpoch
  BY <1>17, EpochType DEF RobotEpoch, TypeInv, ClientTypeOK, sendVars, numbers, mutexes
<1>18. CASE Lose
  BY <1>18, LoseType DEF Lose, TypeInv, ClientTypeOK, sendVars, numbers, mutexes
<1>19. CASE UNCHANGED clientVars
  BY <1>19 DEF TypeInv, ClientTypeOK, clientVars, sendVars, numbers, mutexes, robot
<1> QED
  BY <1>1, <1>2, <1>3, <1>4, <1>5, <1>6, <1>7, <1>8, <1>9, <1>10, <1>11, <1>12, <1>13, <1>14,
     <1>15, <1>16, <1>17, <1>18, <1>19
  DEF ClientNext, Step, SendPacket, Sync

\* The write mutex is given back by the thread that has it.
LEMMA LockStep == TypeInv /\ LockInv /\ [ClientNext]_clientVars => LockInv'
<1> SUFFICES ASSUME TypeInv, LockInv, [ClientNext]_clientVars PROVE LockInv'
  OBVIOUS
<1>0. pc \in [Threads -> Labels] /\ None \notin Threads
  BY ClientConstants DEF TypeInv, ClientTypeOK
<1>1. ASSUME NEW t \in Threads, NEW kind \in Kinds, Call(t, kind) PROVE LockInv'
  <2>1. PICK label \in {"lockWrite", "syncLockWrite", "getLock", "setVelocity"} :
          pc' = [pc EXCEPT ![t] = label]
    BY <1>1, CallGoes
  <2> QED BY <1>0, <1>1, <2>1 DEF Call, LockInv, Writing, mutexes
<1>2. ASSUME NEW t \in Threads, LockWrite(t) PROVE LockInv'
  BY <1>0, <1>2 DEF LockWrite, Goto, LockInv, Writing
<1>3. ASSUME NEW t \in Threads, LockRead(t) PROVE LockInv'
  BY <1>0, <1>3, LockReadGoes DEF LockRead, LockInv, Writing
<1>4. ASSUME NEW t \in Threads, NextSeq(t) \/ Put(t) \/ Flush(t) \/ Flushed(t) \/ Await(t)
      PROVE  LockInv'
  BY <1>0, <1>4 DEF NextSeq, Put, Flush, Flushed, Await, Goto, LockInv, Writing, mutexes
<1>5. ASSUME NEW t \in Threads, Unlock(t) \/ SyncDrive(t) PROVE LockInv'
  BY <1>0, <1>5 DEF Unlock, SyncDrive, Goto, LockInv, Writing
<1>6. ASSUME NEW t \in Threads, Configure(t) PROVE LockInv'
  <2>1. \/ \E label \in {"lockWrite", "idle"} : pc' = [pc EXCEPT ![t] = label]
        \/ pc' = [u \in Threads |-> "exit"]
    <3>1. call[t].left \in Nat
      BY DEF TypeInv, CallRecord
    <3>2. CASE call[t].left = 0 /\ received.SYSTEM_PARAM # None
      BY <1>6, <3>2 DEF Configure, Query, Goto
    <3>3. CASE call[t].left = 0 /\ received.SYSTEM_PARAM = None
      BY <1>6, <3>3 DEF Configure, Query, Goto
    <3>4. CASE call[t].left > 1
      BY <1>6, <3>1, <3>4 DEF Configure, Query, Goto
    <3>5. CASE call[t].left = 1
      BY <1>6, <3>5 DEF Configure, Query, Goto
    <3> QED BY <3>1, <3>2, <3>3, <3>4, <3>5
  <2> QED BY <1>0, <1>6, <2>1 DEF Configure, LockInv, Writing, mutexes
<1>7. ASSUME NEW t \in Threads, SyncSeq(t) \/ SyncRead(t) \/ SyncCheck(t) PROVE LockInv'
  BY <1>0, <1>7 DEF SyncSeq, SyncRead, SyncCheck, Goto, LockInv, Writing, mutexes
<1>8. ASSUME NEW t \in Threads, GetCopy(t) \/ SetVelocity(t) PROVE LockInv'
  BY <1>0, <1>8 DEF GetCopy, SetVelocity, Goto, LockInv, Writing, mutexes
<1>9. CASE RobotEpoch \/ Lose \/ UNCHANGED clientVars
  BY <1>9 DEF RobotEpoch, Lose, clientVars, LockInv, mutexes
<1> QED
  BY <1>1, <1>2, <1>3, <1>4, <1>5, <1>6, <1>7, <1>8, <1>9 DEF ClientNext, Step, SendPacket, Sync

-----------------------------------------------------------------------------
(* Numbers and their ages *)

\* How many numbers after n is g?
Gap(g, n) == (g - n) % SeqWidth

LEMMA Remainder ==
  ASSUME NEW n \in Nat \ {0}, NEW k \in Int, NEW r \in 0 .. n - 1
  PROVE  (n * k + r) % n = r
OBVIOUS

LEMMA SmallRemainder ==
  ASSUME NEW x \in Int
  PROVE  /\ 0 <= x /\ x < SeqWidth => x % SeqWidth = x
         /\ x < 0 /\ 0 <= x + SeqWidth => x % SeqWidth = x + SeqWidth
         /\ x = SeqWidth => x % SeqWidth = 0
<1> DEFINE W == SeqWidth
<1>1. W \in Nat \ {0}
  BY ClientConstants
<1> HIDE DEF W
<1>2. ASSUME 0 <= x, x < W PROVE x % W = x
  <2>1. (W * 0 + x) % W = x
    BY <1>1, <1>2, Remainder
  <2>2. W * 0 + x = x
    BY <1>1
  <2> QED BY <2>1, <2>2
<1>3. ASSUME x < 0, 0 <= x + W PROVE x % W = x + W
  <2>1. (W * (-1) + (x + W)) % W = x + W
    BY <1>1, <1>3, Remainder
  <2>2. W * (-1) + (x + W) = x
    BY <1>1
  <2> QED BY <2>1, <2>2
<1>4. ASSUME x = W PROVE x % W = 0
  <2>1. (W * 1 + 0) % W = 0
    BY <1>1, Remainder
  <2>2. W * 1 + 0 = x
    BY <1>1, <1>4
  <2> QED BY <2>1, <2>2
<1> QED BY <1>2, <1>3, <1>4 DEF W

LEMMA GapIs ==
  ASSUME NEW g \in Seqs, NEW n \in Seqs
  PROVE  /\ Gap(g, n) = IF n <= g THEN g - n ELSE g - n + SeqWidth
         /\ Gap(g, n) \in Seqs /\ (Gap(g, n) = 0 <=> g = n)
<1>1. g \in Nat /\ n \in Nat /\ g < SeqWidth /\ n < SeqWidth /\ SeqWidth \in Nat /\ g - n \in Int
  BY ClientConstants DEF Seqs
<1>2. CASE n <= g
  <2>1. (g - n) % SeqWidth = g - n
    BY <1>1, <1>2, SmallRemainder
  <2> QED BY <1>1, <1>2, <2>1 DEF Gap, Seqs
<1>3. CASE ~(n <= g)
  <2>1. (g - n) % SeqWidth = g - n + SeqWidth
    BY <1>1, <1>3, SmallRemainder
  <2> QED BY <1>1, <1>3, <2>1 DEF Gap, Seqs
<1> QED BY <1>2, <1>3

\* The next number is one farther from all but those that come again.
LEMMA GapNext ==
  ASSUME NEW g \in Seqs, NEW n \in Seqs, Gap(g, n) + 1 < SeqWidth
  PROVE  Gap((g + 1) % SeqWidth, n) = Gap(g, n) + 1
<1>1. g \in Nat /\ n \in Nat /\ g < SeqWidth /\ n < SeqWidth /\ SeqWidth \in Nat /\ SeqWidth > 0
  BY ClientConstants DEF Seqs
<1>2. (g + 1) % SeqWidth = IF g + 1 = SeqWidth THEN 0 ELSE g + 1
  <2>1. CASE g + 1 = SeqWidth
    BY <1>1, <2>1, SmallRemainder
  <2>2. CASE g + 1 < SeqWidth
    BY <1>1, <2>2, SmallRemainder
  <2> QED BY <1>1, <2>1, <2>2
<1>3. (g + 1) % SeqWidth \in Seqs
  BY NextNumber
<1>4. PICK h \in Seqs : h = (g + 1) % SeqWidth
  BY <1>3
<1>5. h = IF g + 1 = SeqWidth THEN 0 ELSE g + 1
  BY <1>2, <1>4
<1>6. Gap(h, n) = IF n <= h THEN h - n ELSE h - n + SeqWidth
  BY GapIs
<1>7. Gap(g, n) = IF n <= g THEN g - n ELSE g - n + SeqWidth
  BY GapIs
<1>8. Gap(h, n) = Gap(g, n) + 1
  BY <1>1, <1>5, <1>6, <1>7
<1> QED BY <1>4, <1>8

LEMMA GapLater ==
  ASSUME NEW g \in Seqs, NEW a \in Seqs, NEW b \in Seqs, Gap(g, b) < Gap(g, a)
  PROVE  (b - a) % SeqWidth = Gap(g, a) - Gap(g, b)
<1>1. g \in Nat /\ a \in Nat /\ b \in Nat /\ g < SeqWidth /\ a < SeqWidth /\ b < SeqWidth
      /\ SeqWidth \in Nat
  BY ClientConstants DEF Seqs
<1>2. Gap(g, a) = IF a <= g THEN g - a ELSE g - a + SeqWidth
  BY GapIs
<1>3. Gap(g, b) = IF b <= g THEN g - b ELSE g - b + SeqWidth
  BY GapIs
<1>4. Gap(b, a) = IF a <= b THEN b - a ELSE b - a + SeqWidth
  BY GapIs
<1>5. Gap(b, a) = Gap(g, a) - Gap(g, b)
  BY <1>1, <1>2, <1>3, <1>4
<1> QED BY <1>5 DEF Gap

LEMMA NumberOf ==
  ASSUME NEW s \in Seq(Packets), NEW i \in 1 .. Len(s)
  PROVE  s[i] \in Packets /\ s[i].seq \in Seqs
<1>1. s[i] \in Packets
  BY ElementOfSeq
<1> QED BY <1>1 DEF Packets

\* The packets of s have the numbers, in order, of the m taken up to g.
Ordered(s, g, m) ==
  /\ \A i \in 1 .. Len(s) : Gap(g, s[i].seq) < m
  /\ \A i, j \in 1 .. Len(s) : i < j => Gap(g, s[j].seq) < Gap(g, s[i].seq)

LEMMA OrderedAppend ==
  ASSUME NEW s \in Seq(Packets), NEW p \in Packets, NEW g \in Seqs, NEW m \in Nat, m > 0,
         Ordered(s, g, m), p.seq = g, \A i \in 1 .. Len(s) : s[i].seq # g
  PROVE  Ordered(Append(s, p), g, m)
<1> DEFINE a == Append(s, p)
<1>1. /\ Len(a) = Len(s) + 1 /\ Len(s) \in Nat /\ \A i \in 1 .. Len(s) : a[i] = s[i]
      /\ a[Len(s) + 1] = p
  BY AppendProperties
<1> HIDE DEF a
<1>2. Gap(g, p.seq) = 0
  BY GapIs
<1>3. \A i \in 1 .. Len(s) : Gap(g, s[i].seq) \in Nat /\ Gap(g, s[i].seq) > 0
  <2> TAKE i \in 1 .. Len(s)
  <2>1. s[i].seq \in Seqs
    BY NumberOf
  <2>2. Gap(g, s[i].seq) \in Nat /\ Gap(g, s[i].seq) # 0
    BY <2>1, GapIs, SeqsNat
  <2> QED BY <2>2
<1>4. \A i \in 1 .. Len(a) : i \in 1 .. Len(s) \/ i = Len(s) + 1
  BY <1>1
<1>5. \A i \in 1 .. Len(a) : Gap(g, a[i].seq) < m
  BY <1>1, <1>2, <1>4 DEF Ordered
<1>6. \A i, j \in 1 .. Len(a) : i < j => Gap(g, a[j].seq) < Gap(g, a[i].seq)
  <2> SUFFICES ASSUME NEW i \in 1 .. Len(a), NEW j \in 1 .. Len(a), i < j
               PROVE  Gap(g, a[j].seq) < Gap(g, a[i].seq)
    OBVIOUS
  <2>1. i \in 1 .. Len(s)
    BY <1>1
  <2>2. CASE j \in 1 .. Len(s)
    BY <1>1, <2>1, <2>2 DEF Ordered
  <2>3. CASE j = Len(s) + 1
    BY <1>1, <1>2, <1>3, <2>1, <2>3
  <2> QED BY <1>4, <2>2, <2>3
<1> QED BY <1>5, <1>6 DEF Ordered, a

\* A number more is taken.
LEMMA OrderedNext ==
  ASSUME NEW s \in Seq(Packets), NEW g \in Seqs, NEW m \in Nat, m + 1 <= SeqWidth,
         Ordered(s, g, m)
  PROVE  /\ Ordered(s, (g + 1) % SeqWidth, m + 1)
         /\ \A i \in 1 .. Len(s) : s[i].seq # (g + 1) % SeqWidth
<1>1. PICK h \in Seqs : h = (g + 1) % SeqWidth
  BY NextNumber
<1>2. \A i \in 1 .. Len(s) : s[i].seq \in Seqs /\ Gap(g, s[i].seq) \in Nat
                            /\ Gap(g, s[i].seq) < m
  <2> TAKE i \in 1 .. Len(s)
  <2>1. s[i].seq \in Seqs
    BY NumberOf
  <2>2. Gap(g, s[i].seq) \in Nat
    BY <2>1, GapIs, SeqsNat
  <2>3. Gap(g, s[i].seq) < m
    BY DEF Ordered
  <2> QED BY <2>1, <2>2, <2>3
<1>3. \A i \in 1 .. Len(s) : Gap(h, s[i].seq) = Gap(g, s[i].seq) + 1
  <2> TAKE i \in 1 .. Len(s)
  <2>1. s[i].seq \in Seqs /\ Gap(g, s[i].seq) \in Nat /\ Gap(g, s[i].seq) < m
    BY <1>2
  <2>2. SeqWidth \in Nat
    BY ClientConstants
  <2>3. Gap(g, s[i].seq) + 1 < SeqWidth
    BY <2>1, <2>2
  <2> QED BY <1>1, <2>1, <2>3, GapNext
<1>4. \A i \in 1 .. Len(s) : s[i].seq # h
  <2> TAKE i \in 1 .. Len(s)
  <2>1. Gap(h, s[i].seq) # 0
    BY <1>2, <1>3
  <2> QED BY <1>2, <2>1, GapIs
<1>5. Ordered(s, h, m + 1)
  BY <1>2, <1>3 DEF Ordered
<1> QED BY <1>1, <1>4, <1>5

\* u is s without one of its elements.
Thinned(u, s) ==
  /\ Len(u) = Len(s) - 1
  /\ \E i \in 1 .. Len(s) : \A k \in 1 .. Len(u) : u[k] = s[IF k < i THEN k ELSE k + 1]

LEMMA OrderedThinned ==
  ASSUME NEW s \in Seq(Packets), NEW u \in Seq(Packets), Thinned(u, s), NEW g \in Seqs,
         NEW m \in Nat
  PROVE  /\ Ordered(s, g, m) => Ordered(u, g, m)
         /\ \A k \in 1 .. Len(u) : \E i \in 1 .. Len(s) : u[k] = s[i]
<1>1. PICK i \in 1 .. Len(s) : \A k \in 1 .. Len(u) : u[k] = s[IF k < i THEN k ELSE k + 1]
  BY DEF Thinned
<1> DEFINE to(k) == IF k < i THEN k ELSE k + 1
<1>2. Len(s) \in Nat /\ Len(u) \in Nat /\ Len(u) = Len(s) - 1
  BY DEF Thinned
<1>3. \A k \in 1 .. Len(u) : to(k) \in 1 .. Len(s) /\ u[k] = s[to(k)]
  <2> TAKE k \in 1 .. Len(u)
  <2>1. to(k) \in 1 .. Len(s)
    BY <1>2
  <2> QED BY <1>1, <2>1
<1>4. \A k, l \in 1 .. Len(u) : k < l => to(k) < to(l)
  BY <1>2
<1> HIDE DEF to
<1> QED BY <1>3, <1>4 DEF Ordered

-----------------------------------------------------------------------------
(* The packets on their way *)

\* All packets in the order in which they were put, without those that were lost
AllSent == executed \o wire \o tx

LEMMA SentTyped == TypeInv => AllSent \in Seq(Packets)
<1> SUFFICES ASSUME TypeInv PROVE AllSent \in Seq(Packets)
  OBVIOUS
<1>1. executed \in Seq(Packets) /\ wire \in Seq(Packets) /\ tx \in Seq(Packets)
  BY DEF TypeInv, ClientTypeOK
<1>2. executed \o wire \in Seq(Packets)
  BY <1>1, ConcatProperties
<1> QED BY <1>1, <1>2, ConcatProperties DEF AllSent

LEMMA ToSetIs ==
  ASSUME NEW S, NEW s \in Seq(S)
  PROVE  \A x : x \in ToSet(s) <=> \E i \in 1 .. Len(s) : x = s[i]
<1>1. DOMAIN s = 1 .. Len(s)
  BY LenProperties
<1> QED BY <1>1 DEF ToSet

LEMMA ToSetConcat ==
  ASSUME NEW S, NEW s \in Seq(S), NEW u \in Seq(S)
  PROVE  ToSet(s) \subseteq ToSet(s \o u) /\ ToSet(u) \subseteq ToSet(s \o u)
<1>1. /\ s \o u \in Seq(S) /\ Len(s \o u) = Len(s) + Len(u) /\ Len(s) \in Nat /\ Len(u) \in Nat
      /\ \A i \in 1 .. Len(s) + Len(u) : (s \o u)[i] =
                     IF i <= Len(s) THEN s[i] ELSE u[i - Len(s)]
  BY ConcatProperties, LenProperties
<1>2. ASSUME NEW x \in ToSet(s) PROVE x \in ToSet(s \o u)
  <2>1. PICK i \in 1 .. Len(s) : x = s[i]
    BY ToSetIs
  <2>2. i \in 1 .. Len(s \o u) /\ (s \o u)[i] = x
    BY <1>1, <2>1
  <2> QED BY <1>1, <2>2, ToSetIs
<1>3. ASSUME NEW x \in ToSet(u) PROVE x \in ToSet(s \o u)
  <2>1. PICK i \in 1 .. Len(u) : x = u[i]
    BY ToSetIs
  <2>2. PICK k \in Int : k = Len(s) + i
    BY <1>1
  <2>3. k \in 1 .. Len(s) + Len(u) /\ ~(k <= Len(s)) /\ k - Len(s) = i
    BY <1>1, <2>2
  <2>4. (s \o u)[k] = u[k - Len(s)]
    BY <1>1, <2>3
  <2>5. k \in 1 .. Len(s \o u) /\ (s \o u)[k] = x
    BY <1>1, <2>1, <2>3, <2>4
  <2> QED BY <1>1, <2>5, ToSetIs
<1> QED BY <1>2, <1>3

LEMMA ConcatAppend ==
  ASSUME NEW S, NEW s \in Seq(S), NEW u \in Seq(S), NEW p \in S
  PROVE  s \o Append(u, p) = Append(s \o u, p)
<1>1. <<p>> \in Seq(S) /\ s \o u \in Seq(S)
  BY ConcatProperties
<1>2. s \o Append(u, p) = s \o (u \o <<p>>)
  BY AppendIsConcat
<1>3. (s \o u) \o <<p>> = Append(s \o u, p)
  BY <1>1, AppendIsConcat
<1> QED BY <1>1, <1>2, <1>3, ConcatAssociative

\* A packet is put, or all are executed.
LEMMA ConcatPut ==
  ASSUME NEW S, NEW e \in Seq(S), NEW w \in Seq(S), NEW x \in Seq(S)
  PROVE  /\ \A p \in S : e \o w \o Append(x, p) = Append(e \o w \o x, p)
         /\ e \o w \o <<>> \o x = e \o w \o x
<1>1. e \o w \in Seq(S)
  BY ConcatProperties
<1>2. \A p \in S : e \o w \o Append(x, p) = Append(e \o w \o x, p)
  BY <1>1, ConcatAppend
<1>3. e \o w \o <<>> = e \o w
  BY <1>1, ConcatEmptySeq
<1> QED BY <1>2, <1>3

LEMMA HeadAndTail ==
  ASSUME NEW S, NEW x \in Seq(S), NEW h \in S, NEW r \in Seq(S), x # <<>>, h = x[1],
         Len(r) = Len(x) - 1, \A i \in 1 .. Len(r) : r[i] = x[i + 1]
  PROVE  x = <<h>> \o r
<1>0. <<h>> \in Seq(S) /\ Len(<<h>>) = 1 /\ <<h>>[1] = h
  OBVIOUS
<1>1. x \in Seq(S) /\ Len(x) \in Nat \ {0}
  BY EmptySeq
<1>2. <<h>> \o r \in Seq(S) /\ Len(<<h>> \o r) = 1 + Len(r)
      /\ \A i \in 1 .. 1 + Len(r) : (<<h>> \o r)[i] = IF i <= 1 THEN <<h>>[i] ELSE r[i - 1]
  BY <1>0, ConcatProperties
<1>3. Len(r) \in Nat
  BY LenProperties
<1>5. \A i \in 1 .. Len(x) : x[i] = (<<h>> \o r)[i]
  <2> TAKE i \in 1 .. Len(x)
  <2>1. CASE i = 1
    <3>1. 1 \in 1 .. 1 + Len(r) /\ 1 <= 1
      BY <1>1, <1>3
    <3>2. (<<h>> \o r)[1] = <<h>>[1]
      BY <1>2, <3>1
    <3> QED BY <1>0, <2>1, <3>2
  <2>2. CASE i # 1
    <3>1. i \in 1 .. 1 + Len(r) /\ ~(i <= 1) /\ i - 1 \in 1 .. Len(r) /\ (i - 1) + 1 = i
      BY <1>1, <1>3, <2>2
    <3>2. (<<h>> \o r)[i] = r[i - 1] /\ r[i - 1] = x[(i - 1) + 1]
      BY <1>2, <1>3, <3>1
    <3> QED BY <3>1, <3>2
  <2> QED BY <2>1, <2>2
<1>6. Len(x) = Len(<<h>> \o r)
  BY <1>1, <1>2, <1>3
<1> QED BY <1>1, <1>2, <1>5, <1>6, SeqEqual

\* What x begins with is moved to w.
LEMMA ConcatFlush ==
  ASSUME NEW S, NEW e \in Seq(S), NEW w \in Seq(S), NEW c \in Seq(S), NEW r \in Seq(S),
         NEW v, v = w \o c, NEW x, x = c \o r
  PROVE  e \o v \o r = e \o w \o x
<1>1. PICK a \in Seq(S) : a = e \o w
  BY ConcatProperties
<1>2. (e \o w) \o c = e \o (w \o c)
  BY ConcatAssociative, SMTT(30)
<1>3. (a \o c) \o r = a \o (c \o r)
  BY ConcatAssociative, SMTT(30)
<1> QED BY <1>1, <1>2, <1>3

\* A packet on the wire is lost.
LEMMA ConcatThinned ==
  ASSUME NEW S, NEW e \in Seq(S), NEW w \in Seq(S), NEW x \in Seq(S), NEW u \in Seq(S),
         Thinned(u, w)
  PROVE  Thinned(e \o u \o x, e \o w \o x)
<1>1. PICK i \in 1 .. Len(w) : \A k \in 1 .. Len(u) : u[k] = w[IF k < i THEN k ELSE k + 1]
  BY DEF Thinned
<1>2. PICK le \in Nat, lw \in Nat, lu \in Nat, lx \in Nat :
        le = Len(e) /\ lw = Len(w) /\ lu = Len(u) /\ lx = Len(x) /\ lu = lw - 1
  BY LenProperties DEF Thinned
<1>3. /\ e \o w \in Seq(S) /\ Len(e \o w) = le + lw
      /\ \A k \in 1 .. le + lw : (e \o w)[k] = IF k <= le THEN e[k] ELSE w[k - le]
  BY <1>2, ConcatProperties
<1>4. /\ e \o u \in Seq(S) /\ Len(e \o u) = le + lu
      /\ \A k \in 1 .. le + lu : (e \o u)[k] = IF k <= le THEN e[k] ELSE u[k - le]
  <2>1. /\ e \o u \in Seq(S) /\ Len(e \o u) = Len(e) + Len(u)
        /\ \A k \in 1 .. Len(e) + Len(u) :
             (e \o u)[k] = IF k <= Len(e) THEN e[k] ELSE u[k - Len(e)]
    BY ConcatProperties
  <2> QED BY <1>2, <2>1
<1>5. /\ Len(e \o w \o x) = (le + lw) + lx
      /\ \A k \in 1 .. (le + lw) + lx :
           (e \o w \o x)[k] = IF k <= le + lw THEN (e \o w)[k] ELSE x[k - (le + lw)]
  BY <1>2, <1>3, ConcatProperties
<1>6. /\ Len(e \o u \o x) = (le + lu) + lx
      /\ \A k \in 1 .. (le + lu) + lx :
           (e \o u \o x)[k] =
              IF k <= le + lu THEN (e \o u)[k] ELSE x[k - (le + lu)]
  <2>1. /\ Len(e \o u \o x) = Len(e \o u) + Len(x)
        /\ \A k \in 1 .. Len(e \o u) + Len(x) :
             (e \o u \o x)[k] = IF k <= Len(e \o u) THEN (e \o u)[k] ELSE x[k - Len(e \o u)]
    BY <1>4, ConcatProperties
  <2> QED BY <1>2, <1>4, <2>1
<1>7. PICK j \in Nat : j = le + i
  BY <1>2
<1>8. j \in 1 .. (le + lw) + lx /\ i <= lw /\ i >= 1
  BY <1>2, <1>7
<1> DEFINE a == e \o u \o x
           b == e \o w \o x
<1>9. ASSUME NEW k \in 1 .. Len(a) PROVE a[k] = b[IF k < j THEN k ELSE k + 1]
  <2>0. k \in Nat /\ k >= 1 /\ k <= (le + lu) + lx
    BY <1>2, <1>6
  <2>1. CASE k <= le
    <3>1. /\ k \in 1 .. (le + lw) + lx /\ k \in 1 .. le + lw /\ k <= le + lw
          /\ k \in 1 .. (le + lu) + lx /\ k \in 1 .. le + lu /\ k <= le + lu
          /\ k < j
      BY <1>7, <1>8, <2>0, <2>1
    <3>2. b[k] = e[k]
      BY <1>3, <1>5, <2>1, <3>1
    <3>3. a[k] = e[k]
      BY <1>4, <1>6, <2>1, <3>1
    <3> QED BY <3>1, <3>2, <3>3
  <2>2. CASE ~(k <= le) /\ k <= le + lu
    <3>1. /\ k \in 1 .. (le + lu) + lx /\ k \in 1 .. le + lu
          /\ k - le \in 1 .. lu /\ (k < j <=> k - le < i)
          /\ (k + 1) - le = (k - le) + 1
      BY <1>7, <1>8, <2>0, <2>2
    <3>2. a[k] = u[k - le]
      BY <1>4, <1>6, <2>2, <3>1
    <3>3. u[k - le] = w[IF k - le < i THEN k - le ELSE (k - le) + 1]
      BY <1>1, <1>2, <3>1
    <3>4. CASE k < j
      <4>1. k \in 1 .. (le + lw) + lx /\ k \in 1 .. le + lw /\ k <= le + lw
        BY <1>2, <2>0, <2>2
      <4>2. b[k] = w[k - le]
        BY <1>3, <1>5, <2>2, <4>1
      <4> QED BY <3>1, <3>2, <3>3, <3>4, <4>2
    <3>5. CASE ~(k < j)
      <4>1. k + 1 \in 1 .. (le + lw) + lx /\ k + 1 \in 1 .. le + lw /\ k + 1 <= le + lw
            /\ ~(k + 1 <= le)
        BY <1>2, <2>0, <2>2
      <4>2. b[k + 1] = w[(k + 1) - le]
        BY <1>3, <1>5, <4>1
      <4> QED BY <3>1, <3>2, <3>3, <3>5, <4>2
    <3> QED BY <3>4, <3>5
  <2>3. CASE ~(k <= le + lu)
    <3>1. /\ k \in 1 .. (le + lu) + lx /\ k + 1 \in 1 .. (le + lw) + lx
          /\ ~(k + 1 <= le + lw) /\ k - (le + lu) = (k + 1) - (le + lw) /\ ~(k < j)
      BY <1>2, <1>7, <1>8, <2>0, <2>3
    <3>2. a[k] = x[k - (le + lu)]
      BY <1>6, <2>3, <3>1
    <3>3. b[k + 1] = x[(k + 1) - (le + lw)]
      BY <1>5, <3>1
    <3> QED BY <3>1, <3>2, <3>3
  <2> QED BY <2>0, <1>2, <2>1, <2>2, <2>3
<1>10. Len(a) = Len(b) - 1
  BY <1>2, <1>5, <1>6
<1>11. j \in 1 .. Len(b)
  BY <1>5, <1>8
<1> HIDE DEF a, b
<1>12. Thinned(a, b)
  BY <1>9, <1>10, <1>11 DEF Thinned
<1> QED BY <1>12 DEF a, b

-----------------------------------------------------------------------------
(* Numbers in order *)

\* No number has come again.
NumbersFresh == taken <= SeqWidth

\* The packets have the numbers, in order, and who is about to put a packet has the last one,
\* which no other packet has.
AgeInv ==
  /\ Ordered(AllSent, global_seq, taken)
  /\ \A t \in Threads : pc[t] = "put" =>
       /\ call[t].seq = global_seq /\ taken > 0
       /\ \A i \in 1 .. Len(AllSent) : AllSent[i].seq # global_seq

\* A packet with the number of the one that is waited for is that one.
Waiting == {"flush", "await"}
OwnInv ==
  \A t \in Threads : pc[t] \in Waiting =>
    \A i \in 1 .. Len(AllSent) : AllSent[i].seq = call[t].seq => AllSent[i] = Packet(t)

Same(t) == /\ call'[t].kind = call[t].kind /\ call'[t].seq = call[t].seq
           /\ call'[t].left = call[t].left

LEMMA SamePacket == \A t : Same(t) => Packet(t)' = Packet(t)
BY DEF Same, Packet, Blocking

\* No packet is put, and no number taken.
Quiet ==
  /\ UNCHANGED numbers /\ AllSent' = AllSent
  /\ \A t \in Threads : /\ pc'[t] = "put" => pc[t] = "put" /\ Same(t)
                        /\ pc'[t] \in Waiting => pc[t] \in Waiting /\ Same(t)

LEMMA QuietStep ==
  ASSUME TypeInv, [ClientNext]_clientVars,
         \A t \in Threads : ~NextSeq(t) /\ ~Put(t) /\ ~SyncDrive(t), ~Lose
  PROVE  Quiet
<1>0. pc \in [Threads -> Labels] /\ call \in [Threads -> CallRecord]
  BY DEF TypeInv, ClientTypeOK
<1>1. ASSUME NEW t \in Threads, NEW kind \in Kinds, Call(t, kind) PROVE Quiet
  <2>1. PICK label \in {"lockWrite", "syncLockWrite", "getLock", "setVelocity"} :
          pc' = [pc EXCEPT ![t] = label]
    BY <1>1, CallGoes
  <2>2. UNCHANGED sendVars /\ AllSent' = AllSent /\ \A u \in Threads : u # t => call'[u] = call[u]
    BY <1>0, <1>1 DEF Call, AllSent, robot, sendVars
  <2> QED BY <1>0, <2>1, <2>2 DEF Quiet, Same, Waiting, sendVars
<1>2. ASSUME NEW t \in Threads, LockWrite(t) PROVE Quiet
  BY <1>0, <1>2 DEF LockWrite, Goto, Quiet, Same, Waiting, AllSent, robot, sendVars
<1>3. ASSUME NEW t \in Threads, LockRead(t) PROVE Quiet
  BY <1>0, <1>3, LockReadGoes DEF LockRead, Quiet, Same, Waiting, AllSent, robot, sendVars
<1>4. ASSUME NEW t \in Threads, Flush(t) PROVE Quiet
  <2>1. executed \in Seq(Packets) /\ wire \in Seq(Packets) /\ tx \in Seq(Packets) /\ tx # <<>>
    BY <1>4 DEF TypeInv, ClientTypeOK, Flush
  <2>2. wire' = Append(wire, Head(tx)) /\ tx' = Tail(tx) /\ executed' = executed
    BY <1>4 DEF Flush, robot
  <2>3. PICK h \in Packets, r \in Seq(Packets) :
          /\ h = Head(tx) /\ r = Tail(tx) /\ h = tx[1] /\ Len(r) = Len(tx) - 1
          /\ \A i \in 1 .. Len(r) : r[i] = tx[i + 1]
    <3>1. /\ Head(tx) \in Packets /\ Tail(tx) \in Seq(Packets) /\ Head(tx) = tx[1]
          /\ Len(Tail(tx)) = Len(tx) - 1 /\ \A i \in 1 .. Len(Tail(tx)) : Tail(tx)[i] = tx[i + 1]
      BY <2>1
    <3> QED BY <3>1
  <2>4. PICK c \in Seq(Packets) : c = <<h>>
    <3>1. <<h>> \in Seq(Packets)
      OBVIOUS
    <3> QED BY <3>1, Zenon
  <2>5. PICK v \in Seq(Packets) : v = Append(wire, h)
    BY <2>1, AppendProperties
  <2>6. executed \o v \o r = executed \o wire \o tx
    <3>1. tx = c \o r
      BY <2>1, <2>3, <2>4, HeadAndTail
    <3>2. v = wire \o c
      BY <2>1, <2>4, <2>5, AppendIsConcat
    <3>3. PICK e \in Seq(Packets), w \in Seq(Packets) : e = executed /\ w = wire
      BY <2>1
    <3>4. e \o v \o r = e \o w \o (c \o r)
      BY <3>2, <3>3, ConcatFlush, SMTT(30)
    <3> QED BY <3>1, <3>3, <3>4
  <2>7. executed' = executed /\ wire' = v /\ tx' = r
    BY <2>2, <2>3, <2>5
  <2>8. AllSent' = AllSent
    BY <2>6, <2>7 DEF AllSent
  <2> QED BY <1>4, <2>8 DEF Flush, Quiet, Same
<1>5. ASSUME NEW t \in Threads, Flushed(t) PROVE Quiet
  <2>1. \A u \in Threads : Same(u)
    BY <1>0, <1>5 DEF Flushed, Same, CallRecord
  <2> QED BY <1>0, <1>5, <2>1 DEF Flushed, Goto, Quiet, Waiting, AllSent, robot, sendVars
<1>6. ASSUME NEW t \in Threads, Await(t) PROVE Quiet
  <2>1. \A u \in Threads : Same(u)
    <3>1. CASE Answered(t, received'.RESPONSE)
      BY <1>0, <1>6, <3>1 DEF Await, Same, CallRecord
    <3>2. CASE ~Answered(t, received'.RESPONSE)
      BY <1>0, <1>6, <3>2 DEF Await, Same, CallRecord
    <3> QED BY <3>1, <3>2
  <2>2. \A u \in Threads : (u # t => pc'[u] = pc[u]) /\ pc'[t] \in {"unlock", "await"}
    BY <1>0, <1>6 DEF Await, Goto
  <2>3. UNCHANGED numbers /\ AllSent' = AllSent
    BY <1>6 DEF Await, ReadPacket, AllSent, sendVars
  <2>4. pc[t] = "await"
    BY <1>6 DEF Await
  <2> QED BY <2>1, <2>2, <2>3, <2>4 DEF Quiet, Waiting
<1>7. ASSUME NEW t \in Threads, Unlock(t) PROVE Quiet
  BY <1>0, <1>7 DEF Unlock, Goto, Quiet, Same, Waiting, AllSent, robot, sendVars
<1>8. ASSUME NEW t \in Threads, Configure(t) PROVE Quiet
  <2>1. UNCHANGED numbers /\ AllSent' = AllSent
    BY <1>8 DEF Configure, AllSent, robot, sendVars
  <2>2. \A n : Query(t, n) => /\ pc'[t] = "lockWrite"
                              /\ \A u \in Threads : u # t => pc'[u] = pc[u] /\ call'[u] = call[u]
    BY <1>0 DEF Query, Goto
  <2>3. \/ pc'[t] \in {"lockWrite", "idle"}
           /\ \A u \in Threads : u # t => pc'[u] = pc[u] /\ call'[u] = call[u]
        \/ \A u \in Threads : pc'[u] = "exit"
    BY <1>0, <1>8, <2>2 DEF Configure, Goto
  <2> QED BY <2>1, <2>3 DEF Quiet, Same, Waiting
<1>9. ASSUME NEW t \in Threads, SyncSeq(t) PROVE Quiet
  <2>1. \A u \in Threads : Same(u)
    BY <1>0, <1>9 DEF SyncSeq, Same, CallRecord
  <2> QED BY <1>0, <1>9, <2>1 DEF SyncSeq, Goto, Quiet, Waiting, AllSent, robot, sendVars
<1>10. ASSUME NEW t \in Threads, SyncRead(t) PROVE Quiet
  BY <1>0, <1>10 DEF SyncRead, ReadPacket, Goto, Quiet, Same, Waiting, AllSent, sendVars
<1>11. ASSUME NEW t \in Threads, SyncCheck(t) PROVE Quiet
  BY <1>0, <1>11 DEF SyncCheck, Goto, Quiet, Same, Waiting, AllSent, robot, sendVars
<1>12. ASSUME NEW t \in Threads, GetCopy(t) PROVE Quiet
  <2>1. \A u \in Threads : Same(u)
    BY <1>0, <1>12 DEF GetCopy, Same, CallRecord
  <2> QED BY <1>0, <1>12, <2>1 DEF GetCopy, Goto, Quiet, Waiting, AllSent, robot, sendVars
<1>13. ASSUME NEW t \in Threads, SetVelocity(t) PROVE Quiet
  BY <1>0, <1>13 DEF SetVelocity, Goto, Quiet, Same, Waiting, AllSent, robot
<1>14. CASE RobotEpoch
  <2>1. executed \in Seq(Packets) /\ wire \in Seq(Packets) /\ tx \in Seq(Packets)
    BY DEF TypeInv, ClientTypeOK
  <2>2. executed' = executed \o wire /\ wire' = <<>> /\ tx' = tx
    BY <1>14 DEF RobotEpoch, sendVars
  <2>3. executed \o wire \o <<>> \o tx = executed \o wire \o tx
    BY <2>1, ConcatPut
  <2>4. AllSent' = executed \o wire \o <<>> \o tx
    BY <2>2 DEF AllSent
  <2>5. AllSent' = AllSent
    BY <2>3, <2>4 DEF AllSent
  <2> QED BY <1>14, <2>5 DEF RobotEpoch, Quiet, Same, sendVars
<1>15. CASE UNCHANGED clientVars
  BY <1>15 DEF clientVars, Quiet, Same, AllSent, robot, sendVars
<1> QED
  BY <1>1, <1>2, <1>3, <1>4, <1>5, <1>6, <1>7, <1>8, <1>9, <1>10, <1>11, <1>12, <1>13, <1>14,
     <1>15
  DEF ClientNext, Step, SendPacket, Sync

LEMMA OneWriter ==
  ASSUME LockInv, NEW t \in Threads, NEW u \in Threads, pc[t] \in Writing, pc[u] \in Writing
  PROVE  t = u
BY DEF LockInv

\* A packet on the wire is lost, or what the robot sends.
LEMMA SentLost ==
  ASSUME TypeInv, Lose
  PROVE  AllSent' = AllSent \/ Thinned(AllSent', AllSent)
<1>1. /\ executed \in Seq(Packets) /\ wire \in Seq(Packets) /\ tx \in Seq(Packets)
      /\ executed' = executed /\ tx' = tx
  BY DEF TypeInv, ClientTypeOK, Lose, sendVars
<1>2. CASE wire' = wire
  BY <1>1, <1>2 DEF AllSent
<1>3. CASE \E i \in 1 .. Len(wire) : wire' = RemoveAt(wire, i)
  <2>1. PICK i \in 1 .. Len(wire) : wire' = RemoveAt(wire, i)
    BY <1>3
  <2>2. /\ wire' \in Seq(Packets) /\ Len(wire') = Len(wire) - 1
        /\ \A k \in 1 .. Len(wire) - 1 : wire'[k] = wire[IF k < i THEN k ELSE k + 1]
    BY <1>1, <2>1, RemoveIs
  <2>3. PICK u \in Seq(Packets) : u = wire'
    BY <2>2
  <2>4. Thinned(u, wire)
    BY <2>2, <2>3 DEF Thinned
  <2>5. Thinned(executed \o u \o tx, executed \o wire \o tx)
    BY <1>1, <2>4, ConcatThinned
  <2>6. AllSent' = executed \o u \o tx
    BY <1>1, <2>3 DEF AllSent
  <2> QED BY <2>5, <2>6 DEF AllSent
<1> QED BY <1>2, <1>3 DEF Lose

LEMMA AgeStarts == ClientInit => AgeInv /\ OwnInv
<1> SUFFICES ASSUME ClientInit PROVE AgeInv /\ OwnInv
  OBVIOUS
<1>1. AllSent = <<>> /\ Len(AllSent) = 0
  <2>1. <<>> \o <<>> \o <<>> = <<>>
    BY ConcatEmptySeq
  <2> QED BY <2>1 DEF ClientInit, AllSent
<1>2. \A t \in Threads : pc[t] = "idle"
  BY DEF ClientInit
<1> HIDE DEF AllSent
<1> QED BY <1>1, <1>2 DEF AgeInv, OwnInv, Ordered, Waiting

LEMMA AgeStep ==
  TypeInv /\ TypeInv' /\ LockInv /\ AgeInv /\ OwnInv /\ NumbersFresh' /\ [ClientNext]_clientVars
    => AgeInv' /\ OwnInv'
<1> SUFFICES ASSUME TypeInv, TypeInv', LockInv, AgeInv, OwnInv, NumbersFresh',
                    [ClientNext]_clientVars
             PROVE  AgeInv' /\ OwnInv'
  OBVIOUS
<1>1. PICK s \in Seq(Packets), g \in Seqs, m \in Nat :
        s = AllSent /\ g = global_seq /\ m = taken
  BY SentTyped DEF TypeInv, ClientTypeOK
<1>2. PICK z \in Seq(Packets), h \in Seqs, n \in Nat :
        z = AllSent' /\ h = global_seq' /\ n = taken'
  <2>1. (TypeInv => AllSent \in Seq(Packets))'
    BY SentTyped, PTL
  <2> QED BY <2>1 DEF TypeInv, ClientTypeOK
<1>3. Ordered(s, g, m) /\ n <= SeqWidth
  BY <1>1, <1>2 DEF AgeInv, NumbersFresh
<1>4. /\ pc \in [Threads -> Labels] /\ call \in [Threads -> CallRecord]
      /\ \A t \in Threads : pc[t] = "put" =>
           call[t].seq = g /\ m > 0 /\ \A i \in 1 .. Len(s) : s[i].seq # g
      /\ \A t \in Threads : pc[t] \in Waiting =>
           \A i \in 1 .. Len(s) : s[i].seq = call[t].seq => s[i] = Packet(t)
  BY <1>1 DEF TypeInv, ClientTypeOK, AgeInv, OwnInv
<1>5. ASSUME Ordered(z, h, n),
             \A t \in Threads : pc'[t] = "put" =>
               call'[t].seq = h /\ n > 0 /\ \A i \in 1 .. Len(z) : z[i].seq # h,
             \A t \in Threads : pc'[t] \in Waiting =>
               \A i \in 1 .. Len(z) : z[i].seq = call'[t].seq => z[i] = Packet(t)'
      PROVE  AgeInv' /\ OwnInv'
  BY <1>2, <1>5 DEF AgeInv, OwnInv
<1>6. CASE Quiet
  <2>1. z = s /\ h = g /\ n = m
    BY <1>1, <1>2, <1>6 DEF Quiet, numbers
  <2>2. \A t \in Threads : pc'[t] = "put" =>
          call'[t].seq = h /\ n > 0 /\ \A i \in 1 .. Len(z) : z[i].seq # h
    BY <1>4, <1>6, <2>1 DEF Quiet, Same
  <2>3. ASSUME NEW t \in Threads, pc'[t] \in Waiting, NEW i \in 1 .. Len(z),
               z[i].seq = call'[t].seq
        PROVE  z[i] = Packet(t)'
    <3>1. pc[t] \in Waiting /\ Same(t)
      BY <1>6, <2>3 DEF Quiet
    <3>2. s[i] = Packet(t)
      BY <1>4, <2>1, <2>3, <3>1 DEF Same
    <3> QED BY <2>1, <3>1, <3>2, SamePacket
  <2> QED BY <1>3, <1>5, <2>1, <2>2, <2>3
<1>7. CASE Lose
  <2>1. h = g /\ n = m /\ UNCHANGED <<pc, call>>
    BY <1>1, <1>2, <1>7 DEF Lose, sendVars, numbers
  <2>2. Ordered(z, g, m) /\ \A k \in 1 .. Len(z) : \E i \in 1 .. Len(s) : z[k] = s[i]
    <3>1. CASE z = s
      BY <1>3, <3>1
    <3>2. CASE Thinned(z, s)
      BY <1>3, <3>2, OrderedThinned
    <3> QED BY <1>1, <1>2, <1>7, <3>1, <3>2, SentLost
  <2>3. \A t : Packet(t)' = Packet(t)
    BY <2>1 DEF Packet, Blocking
  <2> QED BY <1>4, <1>5, <2>1, <2>2, <2>3
<1>8. ASSUME NEW t \in Threads, pc[t] \in Writing, \A u \in Threads : u # t => pc'[u] = pc[u]
      PROVE  \A u \in Threads : pc'[u] \in Writing => u = t
  BY <1>8, OneWriter
<1>9. {"put"} \cup Waiting \subseteq Writing
  BY DEF Waiting, Writing
<1>10. ASSUME TakeNumber
       PROVE  h = (g + 1) % SeqWidth /\ n = m + 1 /\ Ordered(s, h, n) /\ n > 0
              /\ \A i \in 1 .. Len(s) : s[i].seq # h
  <2>1. h = (g + 1) % SeqWidth /\ n = m + 1
    BY <1>1, <1>2, <1>10 DEF TakeNumber
  <2> QED BY <1>3, <2>1, OrderedNext
<1>11. ASSUME NEW t \in Threads, NextSeq(t) PROVE AgeInv' /\ OwnInv'
  <2>1. z = s
    BY <1>1, <1>2, <1>11 DEF NextSeq, AllSent, robot
  <2>2. pc[t] \in Writing /\ \A u \in Threads : u # t => pc'[u] = pc[u]
    BY <1>4, <1>11 DEF NextSeq, Goto, Writing
  <2>3. \A u \in Threads : pc'[u] \in {"put"} \cup Waiting => u = t
    BY <1>8, <1>9, <2>2
  <2>4. pc'[t] \in {"put", "unlock"} /\ (pc'[t] = "put" => call'[t].seq = h)
    BY <1>2, <1>4, <1>11 DEF NextSeq, Goto, CallRecord
  <2>5. TakeNumber
    BY <1>11 DEF NextSeq
  <2>6. \A u \in Threads : pc'[u] \notin Waiting
    BY <2>3, <2>4 DEF Waiting
  <2>7. \A u \in Threads : pc'[u] = "put" => call'[u].seq = h
    BY <2>3, <2>4
  <2> QED BY <1>5, <1>10, <2>1, <2>5, <2>6, <2>7
<1>12. ASSUME NEW t \in Threads, Put(t) PROVE AgeInv' /\ OwnInv'
  <2>1. h = g /\ n = m
    BY <1>1, <1>2, <1>12 DEF Put, numbers
  <2>2. pc[t] = "put" /\ \A u \in Threads : u # t => pc'[u] = pc[u]
    BY <1>4, <1>12 DEF Put, Goto
  <2>3. \A u \in Threads : pc'[u] \in {"put"} \cup Waiting => u = t
    BY <1>8, <1>9, <2>2
  <2>4. pc'[t] \in {"flush", "unlock"}
    BY <1>4, <1>12 DEF Put, Goto
  <2>5. \A u \in Threads : pc'[u] # "put"
    BY <2>3, <2>4
  <2>6. call[t].seq = g /\ m > 0 /\ \A i \in 1 .. Len(s) : s[i].seq # g
    BY <1>4, <2>2
  <2>7. CASE Len(tx) < TxRoom
    <3>1. PICK p \in Packets : p = Packet(t)
      <4>1. Packet(t) \in Packets
        BY DEF TypeInv, CallRecord, Packet, Packets
      <4> QED BY <4>1
    <3>2. p.seq = g
      BY <2>6, <3>1 DEF Packet
    <3>3. z = Append(s, p)
      <4>1. executed \in Seq(Packets) /\ wire \in Seq(Packets) /\ tx \in Seq(Packets)
        BY DEF TypeInv, ClientTypeOK
      <4>2. executed \o wire \o Append(tx, p) = Append(executed \o wire \o tx, p)
        BY <4>1, ConcatPut, SMTT(30)
      <4>3. AllSent' = executed \o wire \o Append(tx, p)
        BY <1>12, <2>7, <3>1 DEF Put, robot, AllSent
      <4> QED BY <1>1, <1>2, <4>2, <4>3 DEF AllSent
    <3>4. Ordered(z, h, n)
      BY <1>3, <2>1, <2>6, <3>2, <3>3, OrderedAppend
    <3>5. Same(t)
      BY <1>4, <1>12, <2>7 DEF Put, Same, CallRecord
    <3>6. Packet(t)' = p
      BY <3>1, <3>5, SamePacket
    <3>7. /\ Len(z) = Len(s) + 1 /\ Len(s) \in Nat /\ z[Len(s) + 1] = p
          /\ \A i \in 1 .. Len(s) : z[i] = s[i]
      BY <3>3, AppendProperties
    <3>8. \A i \in 1 .. Len(z) : z[i].seq = g => z[i] = p
      <4> TAKE i \in 1 .. Len(z)
      <4>1. i \in 1 .. Len(s) \/ i = Len(s) + 1
        BY <3>7
      <4> QED BY <2>6, <3>7, <4>1
    <3>9. call'[t].seq = g
      BY <2>6, <3>5 DEF Same
    <3>10. \A u \in Threads : pc'[u] \in Waiting =>
             \A i \in 1 .. Len(z) : z[i].seq = call'[u].seq => z[i] = Packet(u)'
      BY <2>3, <3>6, <3>8, <3>9
    <3> QED BY <1>5, <2>5, <3>4, <3>10
  <2>8. CASE ~(Len(tx) < TxRoom)
    <3>1. z = s
      BY <1>1, <1>2, <1>12, <2>8 DEF Put, AllSent, robot
    <3>2. pc'[t] = "unlock"
      BY <1>4, <1>12, <2>8 DEF Put, Goto
    <3>3. \A u \in Threads : pc'[u] \notin Waiting
      BY <2>3, <3>2 DEF Waiting
    <3> QED BY <1>3, <1>5, <2>1, <2>5, <3>1, <3>3
  <2> QED BY <2>7, <2>8
<1>13. ASSUME NEW t \in Threads, SyncDrive(t) PROVE AgeInv' /\ OwnInv'
  <2>1. pc[t] \in Writing /\ pc'[t] = "syncSeq" /\ \A u \in Threads : u # t => pc'[u] = pc[u]
    BY <1>4, <1>13 DEF SyncDrive, Goto, Writing
  <2>2. \A u \in Threads : pc'[u] \notin {"put"} \cup Waiting
    BY <1>8, <1>9, <2>1 DEF Waiting
  <2>3. \A u \in Threads : pc'[u] # "put" /\ pc'[u] \notin Waiting
    BY <2>2
  <2>4. CASE drive_seq = 0
    <3>1. z = s /\ h = g /\ n = m
      BY <1>1, <1>2, <1>13, <2>4 DEF SyncDrive, AllSent, robot, sendVars, numbers
    <3> QED BY <1>3, <1>5, <2>3, <3>1
  <2>5. CASE drive_seq # 0
    <3>1. /\ TakeNumber /\ tx = <<>> /\ tx' = <<DrivePacket(h)>>
          /\ executed' = executed /\ wire' = wire
      BY <1>2, <1>13, <2>5 DEF SyncDrive, robot
    <3>2. PICK p \in Packets : p = DrivePacket(h) /\ p.seq = h
      <4>1. DrivePacket(h) \in Packets /\ DrivePacket(h).seq = h
        BY DEF DrivePacket, Packets
      <4> QED BY <4>1
    <3>3. z = Append(s, p)
      <4>1. executed \in Seq(Packets) /\ wire \in Seq(Packets) /\ tx \in Seq(Packets)
        BY DEF TypeInv, ClientTypeOK
      <4>2. executed \o wire \o Append(tx, p) = Append(executed \o wire \o tx, p)
        BY <4>1, ConcatPut, SMTT(30)
      <4>3. Append(tx, p) = <<p>>
        <5>1. Append(<<>>, p) = <<>> \o <<p>> /\ <<p>> \in Seq(Packets)
          BY AppendIsConcat, EmptySeq
        <5> QED BY <3>1, <5>1, ConcatEmptySeq
      <4>4. AllSent' = executed \o wire \o Append(tx, p)
        BY <3>1, <3>2, <4>3 DEF AllSent
      <4> QED BY <1>1, <1>2, <4>2, <4>4 DEF AllSent
    <3>4. Ordered(s, h, n) /\ n > 0 /\ \A i \in 1 .. Len(s) : s[i].seq # h
      BY <1>10, <3>1
    <3>5. Ordered(z, h, n)
      BY <3>2, <3>3, <3>4, OrderedAppend
    <3> QED BY <1>5, <2>3, <3>5
  <2> QED BY <2>4, <2>5
<1> QED BY <1>6, <1>7, <1>11, <1>12, <1>13, QuietStep

-----------------------------------------------------------------------------
(* Responses to what was executed *)

\* What a call is, by the place it has reached
Elsewhere == {"syncLockWrite", "syncFlush", "syncSeq", "syncLockRead", "syncRead", "syncCheck",
              "getLock", "getCopy", "setVelocity"}
KindInv ==
  \A t \in Threads :
    /\ pc[t] \in {"flush", "await", "configure"} => Blocking(t)
    /\ pc[t] \in Elsewhere => ~Blocking(t)
    /\ pc[t] = "await" => call[t].result = "Timeout"
    /\ pc[t] = "configure" => call[t].result = "Success"

\* Messages in which responses are to packets of K
Echoed(K) ==
  {s \in Seq(Messages) : \A k \in 1 .. Len(s) : s[k].type = "RESPONSE" => s[k].content \in K}

\* A response that has come, or is on the line, is to a packet the robot has executed.
ResponseInv ==
  /\ received.RESPONSE \in {NoPacket} \cup ToSet(executed)
  /\ line \in Echoed(ToSet(executed))

\* Until the system's parameters come nobody asks for others, if nothing was lost: their
\* response comes after them.
KnownInv ==
  losses = 0 /\ received.SYSTEM_PARAM = None =>
    /\ line \in Orderly(ToSet(executed)) /\ received.RESPONSE.param # "system"
    /\ \A t \in Threads : call[t].left = 0

\* SuccessMeansExecuted, also between two packets of readConfiguration
Done == {"unlock", "configure", "idle"}
SuccessInv ==
  \A t \in Threads : pc[t] \in Done /\ Blocking(t) /\ call[t].result = "Success" =>
    /\ Packet(t) \in ToSet(executed)
    /\ losses = 0 => received.SYSTEM_PARAM # None

LEMMA KindStep == TypeInv /\ KindInv /\ [ClientNext]_clientVars => KindInv'
<1> SUFFICES ASSUME TypeInv, KindInv, [ClientNext]_clientVars PROVE KindInv'
  OBVIOUS
<1>0. pc \in [Threads -> Labels] /\ call \in [Threads -> CallRecord]
  BY DEF TypeInv, ClientTypeOK
<1>1. ASSUME NEW t \in Threads, NEW kind \in Kinds, Call(t, kind) PROVE KindInv'
  <2>1. PICK label \in {"lockWrite", "syncLockWrite", "getLock", "setVelocity"} :
          /\ pc' = [pc EXCEPT ![t] = label]
          /\ kind \in {"query", "configure"} => label = "lockWrite"
    BY <1>1, CallGoes
  <2>2. call'[t].kind = kind /\ \A u \in Threads : u # t => call'[u] = call[u]
    BY <1>0, <1>1 DEF Call, NewCall
  <2> QED BY <1>0, <2>1, <2>2 DEF KindInv, Blocking, Elsewhere
<1>2. ASSUME NEW t \in Threads, LockWrite(t) PROVE KindInv'
  BY <1>0, <1>2 DEF LockWrite, Goto, KindInv, Blocking, Elsewhere
<1>3. ASSUME NEW t \in Threads, LockRead(t) PROVE KindInv'
  BY <1>0, <1>3, LockReadGoes DEF LockRead, KindInv, Blocking, Elsewhere
<1>4. ASSUME NEW t \in Threads, NextSeq(t) PROVE KindInv'
  <2>1. pc'[t] \in {"put", "unlock"} /\ \A u \in Threads : u # t => pc'[u] = pc[u]
                                                             /\ call'[u] = call[u]
    BY <1>0, <1>4 DEF NextSeq, Goto
  <2> QED BY <2>1 DEF KindInv, Blocking, Elsewhere
<1>5. ASSUME NEW t \in Threads, Put(t) PROVE KindInv'
  <2>1. /\ call'[t].kind = call[t].kind /\ pc'[t] \in {"flush", "unlock"}
        /\ pc'[t] = "flush" => Blocking(t)
        /\ \A u \in Threads : u # t => pc'[u] = pc[u] /\ call'[u] = call[u]
    BY <1>0, <1>5 DEF Put, Goto, CallRecord
  <2> QED BY <2>1 DEF KindInv, Blocking, Elsewhere
<1>6. ASSUME NEW t \in Threads, Flush(t) PROVE KindInv'
  BY <1>6 DEF Flush, KindInv, Blocking
<1>7. ASSUME NEW t \in Threads, Flushed(t) PROVE KindInv'
  <2>1. /\ call'[t].kind = call[t].kind /\ call'[t].result = "Timeout" /\ pc'[t] = "await"
        /\ \A u \in Threads : u # t => pc'[u] = pc[u] /\ call'[u] = call[u]
    BY <1>0, <1>7 DEF Flushed, Goto, CallRecord
  <2>2. Blocking(t)
    BY <1>7 DEF Flushed, KindInv
  <2> QED BY <2>1, <2>2 DEF KindInv, Blocking, Elsewhere
<1>8. ASSUME NEW t \in Threads, Await(t) PROVE KindInv'
  <2>1. /\ call'[t].kind = call[t].kind /\ pc'[t] \in {"await", "unlock"}
        /\ pc'[t] = "await" => call'[t].result = call[t].result
        /\ \A u \in Threads : u # t => pc'[u] = pc[u] /\ call'[u] = call[u]
    <3>1. CASE Answered(t, received'.RESPONSE)
      BY <1>0, <1>8, <3>1 DEF Await, Goto, CallRecord
    <3>2. CASE ~Answered(t, received'.RESPONSE)
      BY <1>0, <1>8, <3>2 DEF Await, Goto, CallRecord
    <3> QED BY <3>1, <3>2
  <2>2. pc[t] = "await" /\ Blocking(t) /\ call[t].result = "Timeout"
    BY <1>8 DEF Await, KindInv
  <2> QED BY <2>1, <2>2 DEF KindInv, Blocking, Elsewhere
<1>9. ASSUME NEW t \in Threads, Unlock(t) PROVE KindInv'
  BY <1>0, <1>9 DEF Unlock, Goto, KindInv, Blocking, Elsewhere
<1>10. ASSUME NEW t \in Threads, Configure(t) PROVE KindInv'
  <2>1. \A n : Query(t, n) => /\ pc'[t] = "lockWrite"
                              /\ \A u \in Threads : u # t => pc'[u] = pc[u] /\ call'[u] = call[u]
    BY <1>0 DEF Query, Goto
  <2>2. \/ pc'[t] \in {"lockWrite", "idle"}
           /\ \A u \in Threads : u # t => pc'[u] = pc[u] /\ call'[u] = call[u]
        \/ \A u \in Threads : pc'[u] = "exit"
    BY <1>0, <1>10, <2>1 DEF Configure, Goto
  <2> QED BY <2>2 DEF KindInv, Blocking, Elsewhere
<1>11. ASSUME NEW t \in Threads, SyncDrive(t) PROVE KindInv'
  BY <1>0, <1>11 DEF SyncDrive, Goto, KindInv, Blocking, Elsewhere
<1>12. ASSUME NEW t \in Threads, SyncSeq(t) PROVE KindInv'
  <2>1. /\ call'[t].kind = call[t].kind /\ pc[t] = "syncSeq" /\ pc'[t] = "syncLockRead"
        /\ \A u \in Threads : u # t => pc'[u] = pc[u] /\ call'[u] = call[u]
    BY <1>0, <1>12 DEF SyncSeq, Goto, CallRecord
  <2> QED BY <2>1 DEF KindInv, Blocking, Elsewhere
<1>13. ASSUME NEW t \in Threads, SyncRead(t) \/ SyncCheck(t) PROVE KindInv'
  BY <1>0, <1>13 DEF SyncRead, SyncCheck, Goto, KindInv, Blocking, Elsewhere
<1>14. ASSUME NEW t \in Threads, GetCopy(t) PROVE KindInv'
  <2>1. pc'[t] = "idle" /\ \A u \in Threads : u # t => pc'[u] = pc[u] /\ call'[u] = call[u]
    BY <1>0, <1>14 DEF GetCopy, Goto
  <2> QED BY <2>1 DEF KindInv, Blocking, Elsewhere
<1>15. ASSUME NEW t \in Threads, SetVelocity(t) PROVE KindInv'
  BY <1>0, <1>15 DEF SetVelocity, Goto, KindInv, Blocking, Elsewhere
<1>16. CASE RobotEpoch \/ Lose \/ UNCHANGED clientVars
  BY <1>16 DEF RobotEpoch, Lose, clientVars, KindInv, Blocking
<1> QED
  BY <1>1, <1>2, <1>3, <1>4, <1>5, <1>6, <1>7, <1>8, <1>9, <1>10, <1>11, <1>12, <1>13, <1>14,
     <1>15, <1>16
  DEF ClientNext, Step, SendPacket, Sync

LEMMA ResponseStarts == ClientInit => KindInv /\ ResponseInv /\ KnownInv /\ SuccessInv
<1> SUFFICES ASSUME ClientInit PROVE KindInv /\ ResponseInv /\ KnownInv /\ SuccessInv
  OBVIOUS
<1>1. /\ \A t \in Threads : pc[t] = "idle" /\ call[t] = NoCall
      /\ received.RESPONSE = NoPacket /\ line = <<>>
  BY DEF ClientInit
<1>2. \A t \in Threads : ~Blocking(t) /\ call[t].left = 0
  BY <1>1 DEF Blocking, NoCall, NewCall, None
<1>3. \A K : line \in Echoed(K) /\ line \in Orderly(K)
  BY <1>1 DEF Echoed, Orderly
<1>4. received.RESPONSE.param # "system"
  BY <1>1 DEF NoPacket, None
<1>5. KindInv /\ SuccessInv
  BY <1>1, <1>2 DEF KindInv, SuccessInv, Elsewhere
<1> QED BY <1>1, <1>2, <1>3, <1>4, <1>5 DEF ResponseInv, KnownInv

LEMMA OrderlyMore ==
  ASSUME NEW K, NEW L, K \subseteq L
  PROVE  Orderly(K) \subseteq Orderly(L) /\ Echoed(K) \subseteq Echoed(L)
         /\ Orderly(K) \subseteq Echoed(K)
BY DEF Orderly, Echoed

LEMMA EchoedAppend ==
  ASSUME NEW K, NEW s \in Echoed(K), NEW u \in Echoed(K)
  PROVE  s \o u \in Echoed(K)
<1>1. s \in Seq(Messages) /\ u \in Seq(Messages) /\ s \o u \in Seq(Messages)
      /\ Len(s) \in Nat /\ Len(u) \in Nat /\ Len(s \o u) = Len(s) + Len(u)
  BY DEF Echoed
<1>2. ASSUME NEW k \in 1 .. Len(s \o u), (s \o u)[k].type = "RESPONSE"
      PROVE  (s \o u)[k].content \in K
  <2>1. CASE k <= Len(s)
    <3>1. k \in 1 .. Len(s) /\ (s \o u)[k] = s[k]
      BY <1>1, <2>1
    <3> QED BY <1>2, <3>1 DEF Echoed
  <2>2. CASE k > Len(s)
    <3> DEFINE m == k - Len(s)
    <3>1. m \in 1 .. Len(u) /\ (s \o u)[k] = u[m]
      BY <1>1, <2>2
    <3> HIDE DEF m
    <3> QED BY <1>2, <3>1 DEF Echoed
  <2> QED BY <1>1, <2>1, <2>2
<1> QED BY <1>1, <1>2 DEF Echoed

\* A message is lost, or read.
LEMMA EchoedLess ==
  ASSUME NEW K, NEW s \in Echoed(K), NEW u \in Seq(Messages),
         \A k \in 1 .. Len(u) : \E i \in 1 .. Len(s) : u[k] = s[i]
  PROVE  u \in Echoed(K)
BY DEF Echoed

\* If what is read is not the system's parameters, all others still have them before.
LEMMA OrderlyRead ==
  ASSUME NEW K, NEW s \in Orderly(K), NEW u \in Seq(Messages), Len(s) = Len(u) + 1,
         \A k \in 1 .. Len(u) : u[k] = s[k + 1], s[1].type # "SYSTEM_PARAM"
  PROVE  /\ u \in Orderly(K)
         /\ s[1].type = "RESPONSE" => s[1].content \in K /\ s[1].content.param # "system"
<1>1. Len(s) \in Nat /\ Len(u) \in Nat /\ 1 \in 1 .. Len(s)
  <2>1. s \in Seq(Messages)
    BY DEF Orderly
  <2> QED BY <2>1, LenProperties
<1>2. ASSUME NEW k \in 1 .. Len(u), u[k].type = "RESPONSE"
      PROVE  /\ u[k].content \in K
             /\ u[k].content.param = "system" => k > 1 /\ u[k - 1].type = "SYSTEM_PARAM"
  <2>1. PICK m \in 1 .. Len(s) : m = k + 1 /\ m - 1 = k /\ u[k] = s[m]
    BY <1>1
  <2>2. /\ s[m].content \in K
        /\ s[m].content.param = "system" => m > 1 /\ s[m - 1].type = "SYSTEM_PARAM"
    BY <1>2, <2>1 DEF Orderly
  <2>3. k # 1 => k > 1 /\ k - 1 \in 1 .. Len(u) /\ (k - 1) + 1 = k
    BY <1>1
  <2> QED BY <2>1, <2>2, <2>3
<1> QED BY <1>1, <1>2 DEF Orderly

\* What changes on the line, and in what was received
LEMMA LineStep ==
  ASSUME TypeInv, [ClientNext]_clientVars
  PROVE  ReadPacket \/ RobotEpoch \/ Lose \/ UNCHANGED <<line, received, executed, losses>>
<1>1. ASSUME NEW t \in Threads, NEW kind \in Kinds, Call(t, kind)
      PROVE  UNCHANGED <<line, received, executed, losses>>
  BY <1>1 DEF Call, robot
<1>2. ASSUME NEW t \in Threads, Await(t) \/ SyncRead(t) PROVE ReadPacket
  BY <1>2 DEF Await, SyncRead
<1>3. ASSUME NEW t \in Threads,
             \/ LockWrite(t) \/ LockRead(t) \/ NextSeq(t) \/ Put(t) \/ Flush(t) \/ Flushed(t)
             \/ Unlock(t)
      PROVE  UNCHANGED <<line, received, executed, losses>>
  BY <1>3 DEF LockWrite, LockRead, NextSeq, Put, Flush, Flushed, Unlock, robot
<1>4. ASSUME NEW t \in Threads,
             \/ Configure(t) \/ SyncDrive(t) \/ SyncSeq(t) \/ SyncCheck(t) \/ GetCopy(t)
             \/ SetVelocity(t)
      PROVE  UNCHANGED <<line, received, executed, losses>>
  BY <1>4 DEF Configure, SyncDrive, SyncSeq, SyncCheck, GetCopy, SetVelocity, robot
<1>5. CASE UNCHANGED clientVars
  BY <1>5 DEF clientVars, robot
<1> QED BY <1>1, <1>2, <1>3, <1>4, <1>5 DEF ClientNext, Step, SendPacket, Sync

LEMMA EpochLine ==
  ASSUME TypeInv, RobotEpoch, NEW K
  PROVE  /\ ToSet(executed) \subseteq ToSet(executed')
         /\ line \in Echoed(ToSet(executed)) => line' \in Echoed(ToSet(executed'))
         /\ line \in Orderly(ToSet(executed)) => line' \in Orderly(ToSet(executed'))
<1>1. wire \in Seq(Packets) /\ executed \in Seq(Packets) /\ robot_seq' \in Seqs
  BY EpochType DEF TypeInv, ClientTypeOK
<1>2. executed' = executed \o wire
  BY DEF RobotEpoch
<1>3. ToSet(executed) \subseteq ToSet(executed') /\ ToSet(wire) \subseteq ToSet(executed')
  BY <1>1, <1>2, ToSetConcat
<1>4. PICK L : L = ToSet(executed')
  OBVIOUS
<1>5. PICK a \in Orderly(L) :
        a = FlattenSeq([i \in 1 .. Len(wire) |-> Answers(wire[i])])
  BY <1>1, <1>3, <1>4, EpochOrderly, OrderlyMore
<1>6. PICK b \in Orderly(L) : b = <<Sent("STATUS", robot_seq'), Sent("END_EPOCH", robot_seq')>>
  <2>1. PICK x \in Messages, y \in Messages :
          /\ x = Sent("STATUS", robot_seq') /\ y = Sent("END_EPOCH", robot_seq')
          /\ x.type # "RESPONSE" /\ y.type # "RESPONSE"
    <3>1. /\ Sent("STATUS", robot_seq') \in Messages /\ Sent("END_EPOCH", robot_seq') \in Messages
          /\ Sent("STATUS", robot_seq').type # "RESPONSE"
          /\ Sent("END_EPOCH", robot_seq').type # "RESPONSE"
      BY <1>1 DEF Sent, Messages
    <3> QED BY <3>1
  <2>2. <<x, y>> \in Orderly(L)
    BY <2>1 DEF Orderly
  <2> QED BY <2>1, <2>2
<1>7. line' = (line \o a) \o b
  BY <1>5, <1>6 DEF RobotEpoch
<1>8. ASSUME line \in Orderly(L) PROVE line' \in Orderly(L)
  <2>1. line \o a \in Orderly(L)
    BY <1>8, OrderlyAppend
  <2> QED BY <1>7, <2>1, OrderlyAppend
<1>9. ASSUME line \in Echoed(L) PROVE line' \in Echoed(L)
  <2>1. a \in Echoed(L) /\ b \in Echoed(L)
    BY OrderlyMore
  <2>2. line \o a \in Echoed(L)
    BY <1>9, <2>1, EchoedAppend
  <2> QED BY <1>7, <2>1, <2>2, EchoedAppend
<1>10. Orderly(ToSet(executed)) \subseteq Orderly(L) /\ Echoed(ToSet(executed)) \subseteq Echoed(L)
  BY <1>3, <1>4, OrderlyMore
<1> QED BY <1>3, <1>4, <1>8, <1>9, <1>10

\* What was lost, received or executed stays so.
LEMMA Kept ==
  ASSUME TypeInv, [ClientNext]_clientVars
  PROVE  /\ losses' = 0 => losses = 0
         /\ received.SYSTEM_PARAM # None => received'.SYSTEM_PARAM # None
         /\ ToSet(executed) \subseteq ToSet(executed')
<1>1. CASE ReadPacket
  <2>1. "received" # None
    BY DEF None
  <2>2. executed' = executed /\ losses' = losses
    BY <1>1, ReadIs
  <2>3. received.SYSTEM_PARAM # None => received'.SYSTEM_PARAM # None
    BY <1>1, <2>1, ReadIs
  <2> QED BY <2>2, <2>3
<1>2. CASE RobotEpoch
  <2>1. UNCHANGED <<received, losses>>
    BY <1>2 DEF RobotEpoch
  <2> QED BY <1>2, <2>1, EpochLine
<1>3. CASE Lose
  BY <1>3 DEF Lose, TypeInv
<1>4. CASE UNCHANGED <<line, received, executed, losses>>
  BY <1>4
<1> QED BY <1>1, <1>2, <1>3, <1>4, LineStep

\* A message of the line is lost.
LEMMA LineLost ==
  ASSUME TypeInv, Lose
  PROVE  /\ line' \in Seq(Messages)
         /\ \A k \in 1 .. Len(line') : \E i \in 1 .. Len(line) : line'[k] = line[i]
<1>1. line \in Seq(Messages)
  BY DEF TypeInv
<1>2. CASE line' = line
  BY <1>1, <1>2
<1>3. CASE \E i \in 1 .. Len(line) : line' = RemoveAt(line, i)
  <2>1. PICK i \in 1 .. Len(line) : line' = RemoveAt(line, i)
    BY <1>3
  <2>2. /\ line' \in Seq(Messages) /\ Len(line') = Len(line) - 1
        /\ \A k \in 1 .. Len(line) - 1 : line'[k] = line[IF k < i THEN k ELSE k + 1]
    BY <1>1, <2>1, RemoveIs
  <2>3. Len(line) \in Nat
    BY <1>1, LenProperties
  <2>4. \A k \in 1 .. Len(line') : (IF k < i THEN k ELSE k + 1) \in 1 .. Len(line)
    BY <2>2, <2>3
  <2> QED BY <2>2, <2>4
<1> QED BY <1>2, <1>3 DEF Lose

\* The first message is read.
LEMMA LineRead ==
  ASSUME TypeInv, ReadPacket
  PROVE  /\ line' \in Seq(Messages) /\ Len(line) = Len(line') + 1 /\ Len(line') \in Nat
         /\ \A k \in 1 .. Len(line') : line'[k] = line[k + 1]
<1>1. line \in Seq(Messages) /\ line # <<>> /\ line' = Tail(line)
  BY ReadIs DEF TypeInv
<1> QED BY <1>1

LEMMA ResponseStep ==
  TypeInv /\ ResponseInv /\ [ClientNext]_clientVars => ResponseInv'
<1> SUFFICES ASSUME TypeInv, ResponseInv, [ClientNext]_clientVars PROVE ResponseInv'
  OBVIOUS
<1>1. /\ received.RESPONSE \in {NoPacket} \cup ToSet(executed)
      /\ line \in Echoed(ToSet(executed))
  BY DEF ResponseInv
<1>2. CASE ReadPacket
  <2>1. executed' = executed
    BY <1>2, ReadIs
  <2>2. PICK K : K = ToSet(executed)
    OBVIOUS
  <2>3. /\ line' \in Seq(Messages) /\ Len(line) = Len(line') + 1 /\ Len(line') \in Nat
        /\ \A k \in 1 .. Len(line') : line'[k] = line[k + 1]
    BY <1>2, LineRead
  <2>4. \A k \in 1 .. Len(line') : k + 1 \in 1 .. Len(line)
    BY <2>3
  <2>5. line' \in Echoed(K)
    BY <1>1, <2>2, <2>3, <2>4, EchoedLess
  <2>6. line[1].type = "RESPONSE" => line[1].content \in K
    <3>1. 1 \in 1 .. Len(line)
      BY <2>3
    <3> QED BY <1>1, <2>2, <3>1 DEF Echoed
  <2>7. received'.RESPONSE \in {NoPacket} \cup K
    BY <1>1, <1>2, <2>2, <2>6, ReadIs
  <2> QED BY <2>1, <2>2, <2>5, <2>7 DEF ResponseInv
<1>3. CASE RobotEpoch
  <2>1. received' = received
    BY <1>3 DEF RobotEpoch
  <2> QED BY <1>1, <1>3, <2>1, EpochLine DEF ResponseInv
<1>4. CASE Lose
  <2>1. received' = received /\ executed' = executed
    BY <1>4 DEF Lose
  <2>2. line' \in Echoed(ToSet(executed))
    BY <1>1, <1>4, LineLost, EchoedLess
  <2> QED BY <1>1, <2>1, <2>2 DEF ResponseInv
<1>5. CASE UNCHANGED <<line, received, executed, losses>>
  BY <1>1, <1>5 DEF ResponseInv
<1> QED BY <1>2, <1>3, <1>4, <1>5, LineStep

\* Only readConfiguration has more to ask for.
LEMMA LeftStep ==
  ASSUME TypeInv, [ClientNext]_clientVars, \A t \in Threads : ~Configure(t)
  PROVE  \A u \in Threads : call'[u].left \in {0, call[u].left}
<1>0. call \in [Threads -> CallRecord]
  BY DEF TypeInv
<1>1. ASSUME NEW t \in Threads, NEW kind \in Kinds, Call(t, kind)
      PROVE  \A u \in Threads : call'[u].left \in {0, call[u].left}
  BY <1>0, <1>1 DEF Call, NewCall
<1>2. ASSUME NEW t \in Threads, NextSeq(t) \/ Put(t) \/ Flushed(t) \/ SyncSeq(t) \/ GetCopy(t)
      PROVE  \A u \in Threads : call'[u].left \in {0, call[u].left}
  <2>1. CASE NextSeq(t)
    <3>1. CASE call[t].kind = "invalid"
      BY <1>0, <2>1, <3>1 DEF NextSeq, CallRecord
    <3>2. CASE call[t].kind # "invalid"
      <4>1. call' = [call EXCEPT ![t].seq = global_seq']
        BY <2>1, <3>2 DEF NextSeq
      <4> QED BY <1>0, <4>1 DEF CallRecord
    <3> QED BY <3>1, <3>2
  <2>2. CASE Put(t)
    <3>1. PICK r : call' = [call EXCEPT ![t].result = r]
      BY <2>2 DEF Put
    <3> QED BY <1>0, <3>1 DEF CallRecord
  <2>3. CASE Flushed(t) \/ SyncSeq(t)
    BY <1>0, <2>3 DEF Flushed, SyncSeq, CallRecord
  <2>4. CASE GetCopy(t)
    BY <1>0, <2>4 DEF GetCopy, CallRecord
  <2> QED BY <1>2, <2>1, <2>2, <2>3, <2>4
<1>3. ASSUME NEW t \in Threads, Await(t)
      PROVE  \A u \in Threads : call'[u].left \in {0, call[u].left}
  <2>1. CASE Answered(t, received'.RESPONSE)
    BY <1>0, <1>3, <2>1 DEF Await, CallRecord
  <2>2. CASE ~Answered(t, received'.RESPONSE)
    BY <1>0, <1>3, <2>2 DEF Await, CallRecord
  <2> QED BY <2>1, <2>2
<1>4. ASSUME NEW t \in Threads,
             \/ LockWrite(t) \/ LockRead(t) \/ Flush(t) \/ Unlock(t) \/ SyncDrive(t) \/ SyncRead(t)
             \/ SyncCheck(t) \/ SetVelocity(t)
      PROVE  call' = call
  BY <1>4 DEF LockWrite, LockRead, Flush, Unlock, SyncDrive, SyncRead, SyncCheck, SetVelocity
<1>5. CASE RobotEpoch \/ Lose \/ UNCHANGED clientVars
  BY <1>5 DEF RobotEpoch, Lose, clientVars
<1> QED BY <1>1, <1>2, <1>3, <1>4, <1>5 DEF ClientNext, Step, SendPacket, Sync

LEMMA KnownStep ==
  TypeInv /\ KindInv /\ KnownInv /\ SuccessInv /\ [ClientNext]_clientVars => KnownInv'
<1> SUFFICES ASSUME TypeInv, KindInv, KnownInv, SuccessInv, [ClientNext]_clientVars,
                    losses' = 0, received'.SYSTEM_PARAM = None
             PROVE  /\ line' \in Orderly(ToSet(executed')) /\ received'.RESPONSE.param # "system"
                    /\ \A t \in Threads : call'[t].left = 0
  BY DEF KnownInv
<1>1. losses = 0 /\ received.SYSTEM_PARAM = None
  BY Kept
<1>2. /\ line \in Orderly(ToSet(executed)) /\ received.RESPONSE.param # "system"
      /\ \A t \in Threads : call[t].left = 0
  BY <1>1 DEF KnownInv
<1>3. \A t \in Threads : ~Configure(t)
  <2> SUFFICES ASSUME NEW t \in Threads, Configure(t) PROVE FALSE
    OBVIOUS
  <2>1. pc[t] = "configure" /\ Blocking(t) /\ call[t].result = "Success"
    BY DEF Configure, KindInv
  <2> QED BY <1>1, <2>1 DEF SuccessInv, Done
<1>4. \A t \in Threads : call'[t].left = 0
  BY <1>2, <1>3, LeftStep
<1>5. CASE ReadPacket
  <2>1. PICK K : K = ToSet(executed) /\ K = ToSet(executed')
    BY <1>5, ReadIs
  <2>2. line[1].type # "SYSTEM_PARAM"
    <3>1. "received" # None
      BY DEF None
    <3> QED BY <1>5, <3>1, ReadIs
  <2>3. /\ line' \in Seq(Messages) /\ Len(line) = Len(line') + 1
        /\ \A k \in 1 .. Len(line') : line'[k] = line[k + 1]
    BY <1>5, LineRead
  <2>4. line' \in Orderly(K) /\ (line[1].type = "RESPONSE" => line[1].content.param # "system")
    BY <1>2, <2>1, <2>2, <2>3, OrderlyRead
  <2>5. received'.RESPONSE.param # "system"
    BY <1>2, <1>5, <2>4, ReadIs
  <2> QED BY <1>4, <2>1, <2>4, <2>5
<1>6. CASE RobotEpoch
  <2>1. received' = received
    BY <1>6 DEF RobotEpoch
  <2> QED BY <1>2, <1>4, <1>6, <2>1, EpochLine
<1>7. CASE Lose
  <2>1. losses' = losses + 1
    BY <1>7 DEF Lose
  <2> QED BY <1>1, <2>1
<1>8. CASE UNCHANGED <<line, received, executed, losses>>
  BY <1>2, <1>4, <1>8
<1> QED BY <1>5, <1>6, <1>7, <1>8, LineStep

\* Success is kept from a call to its end, and only the response brings it.
LEMMA SuccessKept ==
  ASSUME TypeInv, KindInv, [ClientNext]_clientVars, NEW u \in Threads,
         pc'[u] \in Done, Blocking(u)', call'[u].result = "Success"
  PROVE  /\ Same(u)
         /\ \/ pc[u] \in Done /\ Blocking(u) /\ call[u].result = "Success"
            \/ Await(u) /\ Answered(u, received'.RESPONSE)
<1>0. pc \in [Threads -> Labels] /\ call \in [Threads -> CallRecord]
  BY DEF TypeInv, ClientTypeOK
<1> DEFINE Before == pc[u] \in Done /\ Blocking(u) /\ call[u].result = "Success" /\ Same(u)
<1>1. ASSUME call'[u] = call[u], pc[u] \in Done PROVE Before
  BY <1>1 DEF Blocking, Same
<1>2. ASSUME NEW t \in Threads, t # u, Step(t) \/ \E kind \in Kinds : Call(t, kind) PROVE Before
  <2>1. pc'[u] = "exit" \/ (pc'[u] = pc[u] /\ call'[u] = call[u])
    <3>1. CASE \E kind \in Kinds : Call(t, kind)
      <4>1. PICK kind \in Kinds : Call(t, kind)
        BY <3>1
      <4>2. pc'[u] = pc[u]
        BY <1>0, <1>2, <4>1, CallGoes
      <4> QED BY <1>0, <1>2, <4>1, <4>2 DEF Call
    <3>2. CASE LockWrite(t) \/ NextSeq(t)
      BY <1>0, <1>2, <3>2 DEF LockWrite, NextSeq, Goto
    <3>8. CASE LockRead(t)
      BY <1>0, <1>2, <3>8, LockReadGoes DEF LockRead
    <3>3. CASE Put(t) \/ Flush(t) \/ Flushed(t)
      BY <1>0, <1>2, <3>3 DEF Put, Flush, Flushed, Goto
    <3>4. CASE Await(t) \/ Unlock(t)
      BY <1>0, <1>2, <3>4 DEF Await, Unlock, Goto
    <3>5. CASE Configure(t)
      <4>1. \A n : Query(t, n) => pc'[u] = pc[u] /\ call'[u] = call[u]
        BY <1>0, <1>2 DEF Query, Goto
      <4> QED BY <1>0, <1>2, <3>5, <4>1 DEF Configure, Goto
    <3>6. CASE SyncDrive(t) \/ SyncSeq(t) \/ SyncRead(t) \/ SyncCheck(t)
      BY <1>0, <1>2, <3>6 DEF SyncDrive, SyncSeq, SyncRead, SyncCheck, Goto
    <3>7. CASE GetCopy(t) \/ SetVelocity(t)
      BY <1>0, <1>2, <3>7 DEF GetCopy, SetVelocity, Goto
    <3> QED BY <1>2, <3>1, <3>2, <3>3, <3>4, <3>5, <3>6, <3>7, <3>8
        DEF Step, SendPacket, Sync
  <2> QED BY <1>1, <2>1 DEF Done
<1>3. ASSUME NEW kind \in Kinds, Call(u, kind) PROVE FALSE
  <2>1. pc'[u] \in {"lockWrite", "syncLockWrite", "getLock", "setVelocity"}
    BY <1>0, <1>3, CallGoes
  <2> QED BY <2>1 DEF Done
<1>4. ASSUME LockWrite(u) \/ LockRead(u) \/ Flushed(u) \/ SyncDrive(u) \/ SyncSeq(u) \/ SyncRead(u)
      PROVE  FALSE
  <2>1. CASE LockWrite(u)
    BY <1>0, <2>1 DEF LockWrite, Goto, Done
  <2>2. CASE LockRead(u)
    BY <1>0, <2>2, LockReadGoes DEF Done
  <2>3. CASE Flushed(u) \/ SyncDrive(u) \/ SyncSeq(u) \/ SyncRead(u)
    BY <1>0, <2>3 DEF Flushed, SyncDrive, SyncSeq, SyncRead, Goto, Done
  <2> QED BY <1>4, <2>1, <2>2, <2>3
<1>5. ASSUME NextSeq(u) PROVE FALSE
  BY <1>0, <1>5 DEF NextSeq, Goto, Done, CallRecord
<1>6. ASSUME Put(u) PROVE FALSE
  <2>1. call'[u].kind = call[u].kind
    BY <1>0, <1>6 DEF Put, CallRecord
  <2>2. Blocking(u)
    BY <2>1 DEF Blocking
  <2> QED BY <1>0, <1>6, <2>2 DEF Put, Goto, Done, CallRecord
<1>7. ASSUME Flush(u) PROVE FALSE
  BY <1>7 DEF Flush, Done
<1>8. ASSUME Await(u) PROVE Same(u) /\ Answered(u, received'.RESPONSE)
  <2>1. CASE Answered(u, received'.RESPONSE)
    BY <1>0, <1>8, <2>1 DEF Await, Same, CallRecord
  <2>2. CASE ~Answered(u, received'.RESPONSE)
    <3>1. call'[u].result = call[u].result
      BY <1>0, <1>8, <2>2 DEF Await, CallRecord
    <3>2. call[u].result = "Timeout"
      BY <1>8 DEF Await, KindInv
    <3> QED BY <3>1, <3>2
  <2> QED BY <2>1, <2>2
<1>9. ASSUME Unlock(u) \/ Configure(u) PROVE Before
  <2>1. CASE Unlock(u)
    BY <1>1, <2>1 DEF Unlock, Done
  <2>2. CASE Configure(u)
    <3>1. \A n : Query(u, n) => pc'[u] = "lockWrite"
      BY <1>0 DEF Query, Goto
    <3>2. pc'[u] \in {"lockWrite", "exit"} \/ call' = call
      BY <2>2, <3>1 DEF Configure
    <3>3. call'[u] = call[u] /\ pc[u] \in Done
      BY <2>2, <3>2 DEF Configure, Done
    <3> QED BY <1>1, <3>3
  <2> QED BY <1>9, <2>1, <2>2
<1>10. ASSUME SyncCheck(u) \/ GetCopy(u) \/ SetVelocity(u) PROVE FALSE
  <2>1. pc[u] \in Elsewhere
    BY <1>10 DEF SyncCheck, GetCopy, SetVelocity, Elsewhere
  <2>2. call'[u].kind = call[u].kind
    BY <1>0, <1>10 DEF SyncCheck, GetCopy, SetVelocity, CallRecord
  <2> QED BY <2>1, <2>2 DEF KindInv, Blocking
<1>11. ASSUME RobotEpoch \/ Lose \/ UNCHANGED clientVars PROVE Before
  <2>1. UNCHANGED <<pc, call>>
    BY <1>11 DEF RobotEpoch, Lose, clientVars
  <2> QED BY <1>1, <2>1
<1>12. ASSUME Step(u) \/ \E kind \in Kinds : Call(u, kind)
       PROVE  Before \/ (Same(u) /\ Await(u) /\ Answered(u, received'.RESPONSE))
  <2> HIDE DEF Before
  <2> QED BY <1>3, <1>4, <1>5, <1>6, <1>7, <1>8, <1>9, <1>10, <1>12 DEF Step, SendPacket, Sync
<1>13. Before \/ (Same(u) /\ Await(u) /\ Answered(u, received'.RESPONSE))
  <2> HIDE DEF Before
  <2> QED BY <1>2, <1>11, <1>12 DEF ClientNext
<1> QED BY <1>13

LEMMA SuccessStep ==
  TypeInv /\ KindInv /\ OwnInv /\ SuccessInv /\ ResponseInv' /\ KnownInv'
    /\ [ClientNext]_clientVars => SuccessInv'
<1> SUFFICES ASSUME TypeInv, KindInv, OwnInv, SuccessInv, [ClientNext]_clientVars, ResponseInv',
                    KnownInv'
             PROVE  SuccessInv'
  OBVIOUS
<1> SUFFICES ASSUME NEW u \in Threads, pc'[u] \in Done, Blocking(u)', call'[u].result = "Success"
             PROVE  /\ Packet(u)' \in ToSet(executed')
                    /\ losses' = 0 => received'.SYSTEM_PARAM # None
  BY DEF SuccessInv
<1>1. Same(u) /\ Packet(u)' = Packet(u)
  BY SuccessKept, SamePacket
<1>2. CASE pc[u] \in Done /\ Blocking(u) /\ call[u].result = "Success"
  <2>1. Packet(u) \in ToSet(executed) /\ (losses = 0 => received.SYSTEM_PARAM # None)
    BY <1>2 DEF SuccessInv
  <2> QED BY <1>1, <2>1, Kept
<1>3. CASE Await(u) /\ Answered(u, received'.RESPONSE)
  <2>1. executed' = executed
    BY <1>3, ReadIs DEF Await
  <2>2. PICK p : p = received'.RESPONSE /\ p \in {NoPacket} \cup ToSet(executed)
    BY <2>1 DEF ResponseInv
  <2>3. Packet(u).type = "PARAM_CONTROL" /\ Packet(u).seq = call[u].seq
    <3>1. Blocking(u)
      BY <1>3 DEF Await, KindInv
    <3> QED BY <3>1 DEF Packet
  <2>4. p.type = "PARAM_CONTROL" /\ p.seq = call[u].seq /\ p \in ToSet(executed)
    <3>1. NoPacket.type # "PARAM_CONTROL"
      BY DEF NoPacket, None
    <3> QED BY <1>3, <2>2, <2>3, <3>1 DEF Answered
  <2>5. executed \in Seq(Packets) /\ wire \in Seq(Packets) /\ tx \in Seq(Packets)
    BY DEF TypeInv, ClientTypeOK
  <2>6. PICK i \in 1 .. Len(executed) : executed[i] = p
    BY <2>4, <2>5, ToSetIs
  <2>7. i \in 1 .. Len(AllSent) /\ AllSent[i] = p
    <3>1. /\ executed \o wire \in Seq(Packets)
          /\ Len(executed \o wire) = Len(executed) + Len(wire)
          /\ i \in 1 .. Len(executed) + Len(wire) /\ (executed \o wire)[i] = p
      BY <2>5, <2>6
    <3>2. PICK z \in Seq(Packets) : z = executed \o wire /\ i \in 1 .. Len(z) /\ z[i] = p
      BY <3>1
    <3>3. i \in 1 .. Len(z \o tx) /\ (z \o tx)[i] = p
      BY <2>5, <3>2
    <3> QED BY <3>2, <3>3 DEF AllSent
  <2>8. p = Packet(u)
    BY <1>3, <2>4, <2>7 DEF OwnInv, Waiting, Await
  <2>9. losses' = 0 => received'.SYSTEM_PARAM # None
    <3> SUFFICES ASSUME losses' = 0, received'.SYSTEM_PARAM = None PROVE FALSE
      OBVIOUS
    <3>1. p.param # "system" /\ call'[u].left = 0
      BY <2>2 DEF KnownInv
    <3>2. Packet(u)'.param = "system"
      BY <3>1 DEF Packet
    <3> QED BY <1>1, <2>8, <3>1, <3>2
  <2> QED BY <1>1, <2>1, <2>4, <2>8, <2>9
<1> QED BY <1>2, <1>3, SuccessKept

-----------------------------------------------------------------------------
(* Theorems *)

LEMMA ClientTypesHold == ClientSpec => [](TypeInv /\ LockInv)
<1>1. TypeInv /\ LockInv /\ [ClientNext]_clientVars => (TypeInv /\ LockInv)'
  BY TypeStep, LockStep
<1> QED BY <1>1, TypeStarts, PTL DEF ClientSpec

\* What holds as long as no number has come again
FreshInv == AgeInv /\ OwnInv /\ KnownInv /\ SuccessInv
ClientInv == /\ TypeInv /\ LockInv /\ KindInv /\ ResponseInv
             /\ NumbersFresh => FreshInv

\* Numbers are taken, never given back.
LEMMA TakenGrows == TypeInv /\ [ClientNext]_clientVars /\ NumbersFresh' => NumbersFresh
<1> SUFFICES ASSUME TypeInv, [ClientNext]_clientVars, NumbersFresh' PROVE NumbersFresh
  OBVIOUS
<1>1. ASSUME \A t \in Threads : ~NextSeq(t) /\ ~Put(t) /\ ~SyncDrive(t)
      PROVE  taken' = taken
  <2>1. CASE Lose
    BY <2>1 DEF Lose, sendVars, numbers
  <2>2. CASE ~Lose
    BY <1>1, <2>2, QuietStep DEF Quiet, numbers
  <2> QED BY <2>1, <2>2
<1>2. ASSUME NEW t \in Threads, NextSeq(t) \/ Put(t) \/ SyncDrive(t)
      PROVE  taken' = taken \/ taken' = taken + 1
  BY <1>2 DEF NextSeq, Put, SyncDrive, TakeNumber, sendVars, numbers
<1>3. taken \in Nat /\ (taken' = taken \/ taken' = taken + 1) /\ taken' <= SeqWidth
  BY <1>1, <1>2 DEF NumbersFresh, TypeInv, ClientTypeOK
<1> QED BY <1>3, ClientConstants DEF NumbersFresh

LEMMA ClientInvHolds == ClientSpec => []ClientInv
<1>1. ClientInit => ClientInv
  BY TypeStarts, AgeStarts, ResponseStarts DEF ClientInv, FreshInv
<1>2. ClientInv /\ TypeInv' /\ [ClientNext]_clientVars => ClientInv'
  <2> SUFFICES ASSUME ClientInv, TypeInv', [ClientNext]_clientVars PROVE ClientInv'
    OBVIOUS
  <2>1. LockInv' /\ KindInv' /\ ResponseInv'
    BY LockStep, KindStep, ResponseStep DEF ClientInv
  <2>2. ASSUME NumbersFresh' PROVE FreshInv'
    <3>1. FreshInv
      BY <2>2, TakenGrows DEF ClientInv
    <3>2. AgeInv' /\ OwnInv'
      BY <2>2, <3>1, AgeStep DEF ClientInv, FreshInv
    <3>3. KnownInv'
      BY <3>1, KnownStep DEF ClientInv, FreshInv
    <3>4. SuccessInv'
      BY <2>1, <3>1, <3>3, SuccessStep DEF ClientInv, FreshInv
    <3> QED BY <3>2, <3>3, <3>4 DEF FreshInv
  <2> QED BY <2>1, <2>2 DEF ClientInv
<1> QED BY <1>1, <1>2, ClientTypesHold, PTL DEF ClientSpec

\* The client's variables have their types: among them, at most TxRoom packets in the
\* transmit buffer, and a call's packets to wait for never below 0, whatever the threads
\* call and whatever is lost.
THEOREM ClientTypes == ClientSpec => []ClientTypeOK
<1>1. TypeInv => ClientTypeOK
  BY DEF TypeInv
<1> QED BY <1>1, ClientTypesHold, PTL

LEMMA HalfIs == ASSUME NEW n \in Nat PROVE n \div 2 \in Nat /\ n \div 2 <= n
OBVIOUS

\* The packets of all threads reach the robot in the order of their numbers, each at most
\* once, until half of the numbers have been taken: any number may be the first, so the
\* numbers may wrap meanwhile.
THEOREM PacketsInSequence ==
  ClientSpec => [](taken <= SeqWidth \div 2 => InSequence)
<1>1. ASSUME ClientInv, taken <= SeqWidth \div 2 PROVE InSequence
  <2>1. PICK s \in Seq(Packets), g \in Seqs, m \in Nat :
          s = AllSent /\ g = global_seq /\ m = taken
    BY <1>1, SentTyped DEF ClientInv, TypeInv, ClientTypeOK
  <2>2. PICK half \in Nat : half = SeqWidth \div 2 /\ half <= SeqWidth
    BY ClientConstants, HalfIs
  <2>3. Ordered(s, g, m) /\ m <= half
    BY <1>1, <2>1, <2>2, ClientConstants DEF ClientInv, FreshInv, AgeInv, NumbersFresh
  <2>4. ASSUME NEW i \in 1 .. Len(s), NEW j \in 1 .. Len(s), i < j
        PROVE  (s[j].seq - s[i].seq) % SeqWidth \in 1 .. half
    <3>1. PICK a \in Seqs, b \in Seqs : a = s[i].seq /\ b = s[j].seq
      BY NumberOf
    <3>2. Gap(g, b) < Gap(g, a) /\ Gap(g, a) < m
      BY <2>3, <2>4, <3>1 DEF Ordered
    <3>3. PICK x \in Nat, y \in Nat : x = Gap(g, a) /\ y = Gap(g, b)
      BY GapIs, SeqsNat
    <3>4. (b - a) % SeqWidth = x - y
      BY <3>2, <3>3, GapLater
    <3> QED BY <2>3, <3>1, <3>2, <3>3, <3>4
  <2> QED BY <2>1, <2>2, <2>4 DEF InSequence, Later, AllSent
<1>2. ClientInv => (taken <= SeqWidth \div 2 => InSequence)
  BY <1>1
<1> QED BY <1>2, ClientInvHolds, PTL

\* A blocking call that got Success was executed by the robot, that very packet, and if
\* nothing was lost the robot's parameters have come: as long as no number comes again.
THEOREM SuccessIsExecuted == ClientSpec => [](taken <= SeqWidth => SuccessMeansExecuted)
<1>1. ClientInv => (taken <= SeqWidth => SuccessMeansExecuted)
  BY DEF ClientInv, FreshInv, NumbersFresh, SuccessInv, SuccessMeansExecuted, Done
<1> QED BY <1>1, ClientInvHolds, PTL
=============================================================================
