---------------------------- MODULE CommandQueue ----------------------------
(***************************************************************************)
(* What deferred_packet_handler.c promises the firmware: the packets that  *)
(* were received wait in one queue, whatever their types, and their        *)
(* actions are executed once each, in the order of reception, on the       *)
(* packet as it was received.  A packet is lost only when the queue is     *)
(* full.                                                                   *)
(***************************************************************************)
EXTENDS Naturals, Sequences

CONSTANTS Packets, Capacity

VARIABLES waiting,     \* packets received and not yet executed, oldest first
          executed     \* the packets whose action was executed, in order

qvars == <<waiting, executed>>

QInit == waiting = <<>> /\ executed = <<>>

\* That one more waits is said apart, before all packets are tried.
Accept ==
  /\ Len(waiting) < Capacity
  /\ Len(waiting') = Len(waiting) + 1
  /\ \E p \in Packets : waiting' = Append(waiting, p)
  /\ executed' = executed

Lose ==
  /\ Len(waiting) >= Capacity
  /\ UNCHANGED qvars

Execute ==
  /\ waiting # <<>>
  /\ executed' = Append(executed, Head(waiting))
  /\ waiting' = Tail(waiting)

QNext == Accept \/ Lose \/ Execute

QSpec == QInit /\ [][QNext]_qvars
=============================================================================
