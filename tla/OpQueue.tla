------------------------------- MODULE OpQueue -------------------------------
(***************************************************************************)
(* The operation queue of the server and of every arbiter (dsm_queue.c): a *)
(* ring that is full when one cell is left, and doubles then.  Its clients *)
(* DsmServer and DsmArbiter see it as a sequence; that it behaves as one   *)
(* is what FifoSpec of this module says.                                   *)
(***************************************************************************)
EXTENDS Integers, Sequences

CONSTANTS Fds,          \* The descriptors that are queued.
          NoFd,         \* What a cell holds that was never written.
          QueueSize,    \* The size at first (DSM_MIN_OPQUEUE_SIZE).
          MaxSize       \* Bound: the queue is not grown beyond this size.

ASSUME QueueSizeAssumption == QueueSize \in Nat \ {0}
ASSUME MaxSizeAssumption   == MaxSize \in Nat
ASSUME NoFdAssumption      == NoFd \notin Fds

VARIABLES queue, queueSize, head, tail,
          val,          \* What the last getHead or dequeue returned.
          panicked      \* dsm_cpanic was called.

vars == <<queue, queueSize, head, tail, val, panicked>>

TypeOK == /\ queueSize \in Nat \ {0}
          /\ queue \in [0 .. queueSize - 1 -> Fds \cup {NoFd}]
          /\ head \in 0 .. queueSize - 1 /\ tail \in 0 .. queueSize - 1
          /\ val \in Fds \cup {NoFd}
          /\ panicked \in BOOLEAN

Cells(n) == [i \in 0 .. n - 1 |-> NoFd]         \* Fresh memory.

Init == /\ queueSize = QueueSize /\ queue = Cells(QueueSize)
        /\ head = 0 /\ tail = 0
        /\ val = NoFd /\ panicked = FALSE

IsEmpty  == head = tail
IsFull   == (head + 1) % queueSize = tail

(* How many descriptors are queued, and the i-th of them.                  *)
Count  == IF tail <= head THEN head - tail ELSE head + queueSize - tail
At(i)  == queue[(tail + i) % queueSize]

(* The copying loop moves the queued descriptors to the front.             *)
FaultyGrown == [j \in 0 .. 2 * queueSize - 1 |->        \* Copies from cell 0.
                  IF j < Count THEN queue[j] ELSE NoFd]
Grown == [j \in 0 .. 2 * queueSize - 1 |-> IF j < Count THEN At(j) ELSE NoFd]

NextHead == (head + 1) % queueSize

EnqueueInPlace(fd) ==
  /\ ~panicked /\ ~IsFull
  /\ queue' = [queue EXCEPT ![head] = fd]
  /\ head' = NextHead
  /\ UNCHANGED <<queueSize, tail, val, panicked>>

EnqueueResized(fd) ==
  /\ ~panicked /\ IsFull
  /\ 2 * queueSize <= MaxSize
  /\ queue' = [Grown EXCEPT ![Count] = fd]
  /\ queueSize' = 2 * queueSize
  /\ head' = (Count + 1) % (2 * queueSize)
  /\ tail' = 0
  /\ UNCHANGED <<val, panicked>>

GetHead ==
  /\ ~panicked /\ ~IsEmpty
  /\ val' = queue[tail]
  /\ UNCHANGED <<queue, queueSize, head, tail, panicked>>

Dequeue ==
  /\ ~panicked /\ ~IsEmpty
  /\ val' = queue[tail]
  /\ tail' = (tail + 1) % queueSize
  /\ UNCHANGED <<queue, queueSize, head, panicked>>

(* getHead or dequeue on an empty queue.                                   *)
Panic ==
  /\ ~panicked /\ IsEmpty
  /\ panicked' = TRUE
  /\ UNCHANGED <<queue, queueSize, head, tail, val>>

Next == \/ \E fd \in Fds : EnqueueInPlace(fd) \/ EnqueueResized(fd)
        \/ GetHead \/ Dequeue \/ Panic

Spec == Init /\ [][Next]_vars

-----------------------------------------------------------------------------
(* The ring is a first-in first-out queue: through wrapping around and     *)
(* growing, no descriptor is lost, repeated, reordered or made up.         *)
Queued == [i \in 1 .. Count |-> At(i - 1)]

Fifo == INSTANCE Fifo WITH items <- Queued, result <- val
FifoSpec == Fifo!FifoSpec
=============================================================================
