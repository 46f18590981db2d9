----------------------------- MODULE QueueSpec -----------------------------
(***************************************************************************)
(* What queue.h promises to the threads of orazio_logger.c: a first-in     *)
(* first-out queue of items, and an emptiness test that, being made        *)
(* without the lock, may miss an insertion in progress but answers         *)
(* "empty" only of a queue that is empty.                                  *)
(***************************************************************************)
EXTENDS Sequences

CONSTANTS Items,       \* what the threads enqueue
          NoItem       \* the NULL that dequeue returns for an empty queue

Answers == {"none", "empty", "nonempty"}

VARIABLES items,       \* the items in the queue, oldest first
          got,         \* what the consumer's last dequeue returned
          answer       \* what the consumer's last isempty returned

avars == <<items, got, answer>>

AInit == items = <<>> /\ got = NoItem /\ answer = "none"

Insert(d) ==
  /\ items' = Append(items, d)
  /\ UNCHANGED <<got, answer>>

Remove ==
  /\ IF items = <<>>
       THEN got' = NoItem /\ items' = items
       ELSE got' = Head(items) /\ items' = Tail(items)
  /\ answer' = "none"

AnswerEmpty ==
  /\ items = <<>>
  /\ answer' = "empty"
  /\ UNCHANGED <<items, got>>

AnswerNonempty ==
  /\ answer' = "nonempty"
  /\ UNCHANGED <<items, got>>

ANext == \/ \E d \in Items : Insert(d)
         \/ Remove
         \/ AnswerEmpty
         \/ AnswerNonempty

ASpec == AInit /\ [][ANext]_avars
=============================================================================
