---------------------------- MODULE LinkedQueue ----------------------------
(***************************************************************************)
(* queue.h as the threads of orazio_logger.c share it.  Producers enqueue  *)
(* with the semaphore `critical' held, the one consumer dequeues with it   *)
(* held, and the consumer calls isempty without it (orazio_logger.c:211),  *)
(* so the stores of enqueue are steps of their own here.                   *)
(*                                                                         *)
(* Nodes are named by their order of allocation: no node is ever freed     *)
(* (dequeue drops it), so an address never comes back.  0 is NULL.         *)
(***************************************************************************)
EXTENDS Naturals, Sequences

CONSTANTS Producers,   \* the threads that enqueue: main and the camera's
          Items, NoItem,
          MaxNodes     \* bound: nodes malloc'ed in one behaviour

ASSUME ItemsAssumption == NoItem \notin Items
ASSUME BoundAssumption == MaxNodes \in Nat

NULL == 0
Node == 1 .. MaxNodes
Free == "free"         \* nobody holds `critical'

ASSUME ThreadsAssumption == Free \notin Producers

VARIABLES head, tail,  \* struct queue
          next, data,  \* struct node, for every node allocated so far
          allocated,   \* number of nodes allocated so far
          critical,    \* who holds the semaphore
          pc,          \* where the holder of the lock is in enqueue
          temp,        \* enqueue's local: the new node
          check,       \* where the consumer is in isempty
          got, answer  \* results of the last dequeue and isempty

linkedVars == <<head, tail, next, data, allocated, critical, pc, temp, check, got, answer>>

LinkedInit ==
  /\ head = NULL /\ tail = NULL                     \* createQueue
  /\ next = [n \in Node |-> NULL]
  /\ data = [n \in Node |-> NoItem]
  /\ allocated = 0
  /\ critical = Free
  /\ pc = "idle" /\ temp = NULL
  /\ check = "idle" /\ got = NoItem /\ answer = "none"

-----------------------------------------------------------------------------
(* enqueue *)

\* sem_wait(&critical) and newNode: the node is private until it is linked.
\* The test of q->tail picks the branch.
NewNode(p, d) ==
  /\ critical = Free
  /\ allocated < MaxNodes
  /\ critical' = p
  /\ allocated' = allocated + 1
  /\ temp' = allocated + 1
  /\ data' = [data EXCEPT ![allocated + 1] = d]
  /\ next' = [next EXCEPT ![allocated + 1] = NULL]
  /\ pc' = IF tail = NULL THEN "first" ELSE "link"
  /\ UNCHANGED <<head, tail, check, got, answer>>

\* q->head = q->tail = temp: two stores of a plain assignment, which the
\* compiler may emit in either order.
FirstTail ==
  /\ pc \in {"first", "headSet"}
  /\ tail' = temp
  /\ pc' = IF pc = "first" THEN "tailSet" ELSE "unlock"
  /\ UNCHANGED <<head, next, data, allocated, critical, temp, check, got, answer>>

FirstHead ==
  /\ pc \in {"first", "tailSet"}
  /\ head' = temp
  /\ pc' = IF pc = "first" THEN "headSet" ELSE "unlock"
  /\ UNCHANGED <<tail, next, data, allocated, critical, temp, check, got, answer>>

\* Mutant of Link: the new node never becomes the tail.
LinkOnly ==
  /\ pc = "link"
  /\ next' = [next EXCEPT ![tail] = temp]
  /\ pc' = "unlock"
  /\ UNCHANGED <<head, tail, data, allocated, critical, temp, check, got, answer>>

Link ==
  /\ pc = "link"
  /\ next' = [next EXCEPT ![tail] = temp]
  /\ pc' = "setTail"
  /\ UNCHANGED <<head, tail, data, allocated, critical, temp, check, got, answer>>

SetTail ==
  /\ pc = "setTail"
  /\ tail' = temp
  /\ pc' = "unlock"
  /\ UNCHANGED <<head, next, data, allocated, critical, temp, check, got, answer>>

\* sem_post(&critical)
Unlock ==
  /\ pc = "unlock"
  /\ critical' = Free
  /\ pc' = "idle" /\ temp' = NULL
  /\ UNCHANGED <<head, tail, next, data, allocated, check, got, answer>>

-----------------------------------------------------------------------------
(* The consumer *)

\* dequeue under the lock.  One step: the producers are locked out, and the
\* only reader without the lock is this same thread.
Dequeue ==
  /\ critical = Free /\ check = "idle"
  /\ IF head = NULL
       THEN got' = NoItem /\ UNCHANGED <<head, tail>>
       ELSE /\ got' = data[head]
            /\ head' = next[head]
            /\ tail' = IF next[head] = NULL THEN NULL ELSE tail
  /\ answer' = "none"
  /\ UNCHANGED <<next, data, allocated, critical, pc, temp, check>>

\* isempty: head is read, and tail only if head was NULL.
ReadHead ==
  /\ check = "idle"
  /\ IF head = NULL
       THEN check' = "tail" /\ answer' = answer
       ELSE check' = "idle" /\ answer' = "nonempty"
  /\ UNCHANGED <<head, tail, next, data, allocated, critical, pc, temp, got>>

ReadTail ==
  /\ check = "tail"
  /\ check' = "idle"
  /\ answer' = IF tail = NULL THEN "empty" ELSE "nonempty"
  /\ UNCHANGED <<head, tail, next, data, allocated, critical, pc, temp, got>>

LinkedNext == \/ \E p \in Producers, d \in Items : NewNode(p, d)
              \/ FirstTail \/ FirstHead \/ Link \/ SetTail \/ Unlock
              \/ Dequeue
              \/ ReadHead \/ ReadTail

LinkedSpec == LinkedInit /\ [][LinkedNext]_linkedVars

-----------------------------------------------------------------------------
(* Properties *)

\* The queue's items: the data of the nodes from head to tail.  An insertion
\* counts from its last store.
Contents ==
  IF head = NULL \/ tail = NULL
    THEN <<>>
    ELSE [i \in 1 .. (tail - head + 1) |-> data[head + i - 1]]

Abstract == INSTANCE QueueSpec WITH items <- Contents

\* Every step of queue.h under these threads is a step of the abstract queue:
\* items come out in the order they went in, none is lost or duplicated, and
\* an "empty" answer of the unlocked isempty is true when it is given.
LinkedImplementsQueue == Abstract!ASpec

LinkedTypeOK ==
  /\ head \in Node \cup {NULL} /\ tail \in Node \cup {NULL}
  /\ next \in [Node -> Node \cup {NULL}]
  /\ data \in [Node -> Items \cup {NoItem}]
  /\ allocated \in 0 .. MaxNodes
  /\ critical \in Producers \cup {Free}
  /\ pc \in {"idle", "first", "headSet", "tailSet", "link", "setTail", "unlock"}
  /\ temp \in Node \cup {NULL}
  /\ check \in {"idle", "tail"}
  /\ got \in Items \cup {NoItem}
  /\ answer \in {"none", "empty", "nonempty"}

\* head and tail are NULL together except in the middle of the first
\* insertion, when the lock is held: dequeue, under the lock, may test head
\* alone and enqueue may test tail alone.
EndsAgree == (head = NULL) # (tail = NULL) => pc \in {"headSet", "tailSet"}

\* The chain is never broken: following next from head reaches tail through
\* every node allocated between them, in order, and stops there.
ChainIntact ==
  head # NULL /\ tail # NULL =>
    /\ head <= tail
    /\ \A n \in head .. tail - 1 : next[n] = n + 1
    /\ pc # "setTail" => next[tail] = NULL

\* The newest node that is linked is the last one allocated.
TempIsNewest ==
  /\ (pc = "idle") <=> (critical = Free)
  /\ (pc = "idle") <=> (temp = NULL)
  /\ pc # "idle" => temp = allocated
  /\ pc \in {"link", "setTail"} => tail = allocated - 1 /\ head # NULL /\ tail # NULL
  /\ pc = "setTail" => next[tail] = temp
  /\ pc = "first" => head = NULL /\ tail = NULL
  /\ pc = "headSet" => head = temp /\ tail = NULL
  /\ pc = "tailSet" => tail = temp /\ head = NULL
  /\ pc \in {"idle", "unlock"} /\ tail # NULL => tail = allocated

\* Nodes that hold an item, and next pointers of the nodes past tail.
NodesWritten ==
  /\ \A n \in Node : n <= allocated => data[n] \in Items
  /\ \A n \in Node : n >= allocated => next[n] = NULL

\* The inductive invariant.
QueueInv == LinkedTypeOK /\ EndsAgree /\ ChainIntact /\ TempIsNewest /\ NodesWritten
=============================================================================
