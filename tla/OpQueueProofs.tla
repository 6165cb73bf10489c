---------------------------- MODULE OpQueueProofs ----------------------------
(***************************************************************************)
(* The ring of dsm_queue.c, of any size and however often it has grown, is *)
(* a first-in first-out queue.                                             *)
(*                                                                         *)
(* TypeOK is inductive and enough for the refinement: the queue is where   *)
(* the ring lies from the tail on, wrapped around once.  Wrap takes the    *)
(* remainders apart; after it everything is linear arithmetic.             *)
(***************************************************************************)
EXTENDS OpQueue, SequenceTheorems, TLAPS

(* One wrap-around, without the remainder.                                 *)
LEMMA Wrap ==
  ASSUME NEW n \in Nat \ {0}, NEW a \in Nat, a < 2 * n
  PROVE  a % n = IF a < n THEN a ELSE a - n
OBVIOUS

(* What the types say of the indices and the array.                        *)
LEMMA Bounds ==
  ASSUME TypeOK
  PROVE  /\ queueSize \in Nat \ {0}
         /\ head \in 0 .. queueSize - 1 /\ tail \in 0 .. queueSize - 1
         /\ queue \in [0 .. queueSize - 1 -> Fds \cup {NoFd}]
BY DEF TypeOK

(* The i-th descriptor from the tail on lies in the ring.                  *)
Place(i) == IF tail + i < queueSize THEN tail + i ELSE tail + i - queueSize

(* At is Place of the array.                                               *)
LEMMA Places ==
  ASSUME TypeOK, NEW i \in 0 .. queueSize - 1
  PROVE  /\ (tail + i) % queueSize = Place(i)
         /\ Place(i) \in 0 .. queueSize - 1
         /\ At(i) = queue[Place(i)]
<1>1. queueSize \in Nat \ {0} /\ tail \in 0 .. queueSize - 1
  BY Bounds
<1>2. tail + i \in Nat /\ tail + i < 2 * queueSize
  BY <1>1
<1>3. (tail + i) % queueSize = Place(i)
  <2> DEFINE a == tail + i
  <2>1. a \in Nat /\ a < 2 * queueSize
    BY <1>2
  <2> HIDE DEF a
  <2>2. a % queueSize = IF a < queueSize THEN a ELSE a - queueSize
    BY <1>1, <2>1, Wrap
  <2> QED
    BY <1>1, <1>2, <2>2 DEF a, Place
<1>4. Place(i) \in 0 .. queueSize - 1
  BY <1>1 DEF Place
<1> QED
  BY <1>3, <1>4 DEF At

(* The queue is full with one cell to spare, as head = tail means empty.   *)
LEMMA HeadFacts ==
  ASSUME TypeOK
  PROVE  /\ NextHead = IF head + 1 < queueSize THEN head + 1 ELSE 0
         /\ Count \in 0 .. queueSize - 1
         /\ Count = 0 <=> IsEmpty
         /\ IsFull <=> Count = queueSize - 1
<1>1. /\ queueSize \in Nat \ {0}
      /\ head \in 0 .. queueSize - 1 /\ tail \in 0 .. queueSize - 1
  BY Bounds
<1>2. head + 1 \in Nat /\ head + 1 < 2 * queueSize
  BY <1>1
<1>3. (head + 1) % queueSize = IF head + 1 < queueSize THEN head + 1 ELSE 0
  <2> DEFINE a == head + 1
  <2>1. a \in Nat /\ a < 2 * queueSize
    BY <1>2
  <2> HIDE DEF a
  <2>2. a % queueSize = IF a < queueSize THEN a ELSE a - queueSize
    BY <1>1, <2>1, Wrap
  <2>3. head + 1 >= queueSize => head + 1 = queueSize
    BY <1>1
  <2> QED
    BY <1>1, <2>2, <2>3 DEF a
<1>4. Count \in 0 .. queueSize - 1 /\ (Count = 0 <=> IsEmpty)
  BY <1>1 DEF Count, IsEmpty
<1>5. IsFull <=> Count = queueSize - 1
  BY <1>1, <1>3 DEF Count, IsFull
<1> QED
  BY <1>3, <1>4, <1>5 DEF NextHead

-----------------------------------------------------------------------------
(* Types.                                                                  *)
LEMMA TypeInit == Init => TypeOK
<1> SUFFICES ASSUME Init PROVE TypeOK
  OBVIOUS
<1>1. queueSize \in Nat \ {0} /\ head = 0 /\ tail = 0
  BY QueueSizeAssumption DEF Init
<1>2. head \in 0 .. queueSize - 1 /\ tail \in 0 .. queueSize - 1
  BY <1>1
<1>3. queue \in [0 .. queueSize - 1 -> Fds \cup {NoFd}]
  BY DEF Init, Cells
<1> QED
  BY <1>1, <1>2, <1>3 DEF Init, TypeOK

(* The copy is a queue of the double size.                                 *)
LEMMA GrownType ==
  ASSUME TypeOK
  PROVE  Grown \in [0 .. 2 * queueSize - 1 -> Fds \cup {NoFd}]
<1>1. Count \in 0 .. queueSize - 1
  BY HeadFacts
<1> SUFFICES ASSUME NEW j \in 0 .. 2 * queueSize - 1, j < Count
             PROVE  At(j) \in Fds \cup {NoFd}
  BY DEF Grown
<1>2. j \in 0 .. queueSize - 1
  BY <1>1, Bounds
<1> QED
  BY <1>2, Places, Bounds

(* The doubled ring starts at 0 and has room for as many again.            *)
LEMMA ResizedFacts ==
  ASSUME TypeOK, NEW fd, EnqueueResized(fd)
  PROVE  /\ Count = queueSize - 1
         /\ queueSize' = 2 * queueSize /\ tail' = 0 /\ head' = queueSize
<1>1. Count = queueSize - 1
  BY HeadFacts DEF EnqueueResized
<1>2. queueSize \in Nat \ {0}
  BY Bounds
<1>3. (Count + 1) % (2 * queueSize) = queueSize
  <2>1. Count + 1 = queueSize /\ 2 * queueSize \in Nat \ {0} /\ queueSize < 2 * (2 * queueSize)
    BY <1>1, <1>2
  <2>2. queueSize % (2 * queueSize) = IF queueSize < 2 * queueSize THEN queueSize
                                      ELSE queueSize - 2 * queueSize
    BY <1>2, <2>1, Wrap
  <2> QED
    BY <1>2, <2>1, <2>2
<1> QED
  BY <1>1, <1>3 DEF EnqueueResized

(* Each operation keeps the indices in the ring.                           *)
LEMMA TypeStep == TypeOK /\ [Next]_vars => TypeOK'
<1> SUFFICES ASSUME TypeOK, [Next]_vars PROVE TypeOK'
  OBVIOUS
<1>b. /\ queueSize \in Nat \ {0}
      /\ head \in 0 .. queueSize - 1 /\ tail \in 0 .. queueSize - 1
      /\ queue \in [0 .. queueSize - 1 -> Fds \cup {NoFd}]
  BY Bounds
<1>1. ASSUME NEW fd \in Fds, EnqueueInPlace(fd) PROVE TypeOK'
  <2>1. NextHead \in 0 .. queueSize - 1
    BY <1>b, HeadFacts
  <2> QED
    BY <1>1, <2>1 DEF EnqueueInPlace, TypeOK
<1>2. ASSUME NEW fd \in Fds, EnqueueResized(fd) PROVE TypeOK'
  <2>1. queueSize' \in Nat \ {0} /\ head' \in 0 .. queueSize' - 1 /\ tail' \in 0 .. queueSize' - 1
    BY <1>2, <1>b, ResizedFacts
  <2>2. queue' \in [0 .. queueSize' - 1 -> Fds \cup {NoFd}]
    BY <1>2, GrownType, ResizedFacts DEF EnqueueResized
  <2> QED
    BY <1>2, <2>1, <2>2 DEF EnqueueResized, TypeOK
<1>3. CASE GetHead
  BY <1>3, <1>b DEF GetHead, TypeOK
<1>4. CASE Dequeue
  <2>1. (tail + 1) % queueSize \in 0 .. queueSize - 1
    BY <1>b
  <2> QED
    BY <1>4, <1>b, <2>1 DEF Dequeue, TypeOK
<1>5. CASE Panic
  BY <1>5 DEF Panic, TypeOK
<1>6. CASE UNCHANGED vars
  BY <1>6 DEF vars, TypeOK
<1> QED
  BY <1>1, <1>2, <1>3, <1>4, <1>5, <1>6 DEF Next

(* The head and the tail stay in the ring, which keeps its type.           *)
THEOREM QueueTypes == Spec => []TypeOK
BY TypeInit, TypeStep, PTL DEF Spec

-----------------------------------------------------------------------------
(* The queue as a sequence.                                                *)
Cell == Fds \cup {NoFd}

(* The queue, element by element.                                          *)
LEMMA QueuedFacts ==
  ASSUME TypeOK
  PROVE  /\ Queued \in Seq(Cell) /\ Len(Queued) = Count
         /\ \A i \in 1 .. Count : Queued[i] = queue[Place(i - 1)]
         /\ Queued = << >> <=> IsEmpty
<1>1. Count \in 0 .. queueSize - 1 /\ queueSize \in Nat \ {0}
  BY HeadFacts, Bounds
<1>2. \A i \in 1 .. Count : At(i - 1) = queue[Place(i - 1)] /\ At(i - 1) \in Cell
  <2> TAKE i \in 1 .. Count
  <2>1. i - 1 \in 0 .. queueSize - 1
    BY <1>1
  <2> QED
    BY <2>1, Places, Bounds DEF Cell
<1>3. Queued \in Seq(Cell) /\ Len(Queued) = Count
  BY <1>1, <1>2 DEF Queued
<1>4. Queued = << >> <=> Count = 0
  BY <1>1, <1>3, EmptySeq
<1> QED
  BY <1>2, <1>3, <1>4, HeadFacts DEF Queued

(* A function on 1 .. n is a sequence.                                     *)
LEMMA IsSeq ==
  ASSUME NEW S, NEW n \in Nat, NEW t \in [1 .. n -> S]
  PROVE  t \in Seq(S) /\ Len(t) = n
OBVIOUS

(* What makes a sequence another one with a last element more.             *)
LEMMA IsAppend ==
  ASSUME NEW S, NEW s \in Seq(S), NEW e \in S, NEW t \in Seq(S),
         Len(t) = Len(s) + 1, \A i \in 1 .. Len(s) + 1 : t[i] = IF i = Len(s) + 1 THEN e ELSE s[i]
  PROVE  t = Append(s, e)
<1>1. /\ Append(s, e) \in Seq(S) /\ Len(Append(s, e)) = Len(s) + 1
      /\ \A i \in 1 .. Len(s) : Append(s, e)[i] = s[i]
      /\ Append(s, e)[Len(s) + 1] = e
  BY AppendProperties
<1>2. \A i \in 1 .. Len(t) : t[i] = Append(s, e)[i]
  BY <1>1
<1> QED
  BY <1>1, <1>2, SeqEqual

(* And with the first one less.                                            *)
LEMMA IsTail ==
  ASSUME NEW S, NEW s \in Seq(S), s # << >>, NEW t \in Seq(S),
         Len(t) = Len(s) - 1, \A i \in 1 .. Len(s) - 1 : t[i] = s[i + 1]
  PROVE  t = Tail(s)
<1>1. /\ Tail(s) \in Seq(S) /\ Len(Tail(s)) = Len(s) - 1
      /\ \A i \in 1 .. Len(Tail(s)) : Tail(s)[i] = s[i + 1]
  BY HeadTailProperties
<1> QED
  BY <1>1, SeqEqual

(* A new descriptor goes to the cell behind the last one.                  *)
LEMMA InPlacePuts ==
  ASSUME TypeOK, NEW fd \in Fds, EnqueueInPlace(fd)
  PROVE  Queued' = Append(Queued, fd)
<1>b. /\ queueSize \in Nat \ {0}
      /\ head \in 0 .. queueSize - 1 /\ tail \in 0 .. queueSize - 1
      /\ queue \in [0 .. queueSize - 1 -> Cell]
      /\ Count \in 0 .. queueSize - 2
  BY Bounds, HeadFacts DEF EnqueueInPlace, Cell
<1>1. head' = (IF head + 1 < queueSize THEN head + 1 ELSE 0) /\ tail' = tail
      /\ queueSize' = queueSize /\ queue' = [queue EXCEPT ![head] = fd]
  BY HeadFacts DEF EnqueueInPlace
<1>2. Count' = Count + 1
  BY <1>b, <1>1 DEF Count
<1>3. Place(Count) = head
  BY <1>b DEF Place, Count
<1>4. \A i \in 0 .. Count : (tail + i) % queueSize = Place(i) /\ Place(i) \in 0 .. queueSize - 1
  <2> TAKE i \in 0 .. Count
  <2>1. i \in 0 .. queueSize - 1
    BY <1>b
  <2> QED
    BY <2>1, Places
<1>5. \A i \in 0 .. Count - 1 : Place(i) # head
  BY <1>b DEF Place, Count
<1>6. \A i \in 1 .. Count + 1 : At(i - 1)' = IF i = Count + 1 THEN fd ELSE At(i - 1)
  <2> TAKE i \in 1 .. Count + 1
  <2>1. i - 1 \in 0 .. Count
    BY <1>b
  <2>2. At(i - 1)' = queue'[Place(i - 1)] /\ At(i - 1) = queue[Place(i - 1)]
    BY <1>1, <1>4, <2>1 DEF At
  <2>3. CASE i = Count + 1
    BY <1>b, <1>1, <1>3, <2>2, <2>3
  <2>4. CASE i # Count + 1
    <3>1. Place(i - 1) # head /\ Place(i - 1) \in 0 .. queueSize - 1
      BY <1>b, <1>4, <1>5, <2>1, <2>4
    <3> QED
      BY <1>b, <1>1, <2>2, <2>4, <3>1
  <2> QED
    BY <2>3, <2>4
<1>7. Queued \in Seq(Cell) /\ Len(Queued) = Count /\ fd \in Cell
  BY QueuedFacts DEF Cell
<1>8. Queued' = [i \in 1 .. Count + 1 |-> IF i = Count + 1 THEN fd ELSE At(i - 1)]
  BY <1>2, <1>6 DEF Queued
<1>9. \A i \in 1 .. Count + 1 : Queued'[i] = IF i = Count + 1 THEN fd ELSE Queued[i]
  <2>1. \A i \in 1 .. Count : Queued[i] = At(i - 1)
    BY DEF Queued
  <2>2. \A i \in 1 .. Count + 1 : i = Count + 1 \/ i \in 1 .. Count
    BY <1>b
  <2> QED
    BY <1>8, <2>1, <2>2
<1>10. Queued' \in Seq(Cell) /\ Len(Queued') = Count + 1
  <2>1. \A i \in 1 .. Count + 1 : i # Count + 1 => Queued[i] \in Cell
    BY <1>b, <1>7, ElementOfSeq
  <2>2. Queued' \in [1 .. Count + 1 -> Cell]
    BY <1>7, <1>8, <1>9, <2>1
  <2> QED
    BY <1>b, <2>2, IsSeq
<1> QED
  BY <1>7, <1>9, <1>10, IsAppend

(* So it does after the ring has been copied and doubled.                  *)
LEMMA ResizedPuts ==
  ASSUME TypeOK, NEW fd \in Fds, EnqueueResized(fd)
  PROVE  Queued' = Append(Queued, fd)
<1>b. queueSize \in Nat \ {0} /\ Count \in 0 .. queueSize - 1
  BY Bounds, HeadFacts
<1>1. /\ Count = queueSize - 1 /\ queueSize' = 2 * queueSize /\ tail' = 0 /\ head' = queueSize
      /\ queue' = [Grown EXCEPT ![Count] = fd]
  BY ResizedFacts DEF EnqueueResized
<1>2. Count' = Count + 1
  BY <1>b, <1>1 DEF Count
<1>3. \A j \in 0 .. Count : queue'[j] = IF j = Count THEN fd ELSE At(j)
  BY <1>b, <1>1 DEF Grown
<1>4. \A i \in 1 .. Count + 1 : At(i - 1)' = IF i = Count + 1 THEN fd ELSE At(i - 1)
  <2> TAKE i \in 1 .. Count + 1
  <2> DEFINE j == i - 1
  <2>1. j \in 0 .. Count /\ j \in Nat /\ j < 2 * (2 * queueSize) /\ j < 2 * queueSize
        /\ 2 * queueSize \in Nat \ {0}
    BY <1>b
  <2> HIDE DEF j
  <2>2. j % (2 * queueSize) = j
    BY <2>1, Wrap
  <2>3. (tail' + j) % queueSize' = j
    BY <1>1, <2>1, <2>2
  <2>4. At(j)' = queue'[j]
    BY <2>3 DEF At
  <2>5. At(j)' = IF j = Count THEN fd ELSE At(j)
    BY <1>3, <2>1, <2>4
  <2>6. j = Count <=> i = Count + 1
    BY <1>b DEF j
  <2> QED
    BY <2>5, <2>6 DEF j
<1>5. Queued \in Seq(Cell) /\ Len(Queued) = Count /\ fd \in Cell
  BY QueuedFacts DEF Cell
<1>6. Queued' = [i \in 1 .. Count + 1 |-> IF i = Count + 1 THEN fd ELSE At(i - 1)]
  BY <1>2, <1>4 DEF Queued
<1>7. \A i \in 1 .. Count + 1 : Queued'[i] = IF i = Count + 1 THEN fd ELSE Queued[i]
  <2>1. \A i \in 1 .. Count : Queued[i] = At(i - 1)
    BY DEF Queued
  <2>2. \A i \in 1 .. Count + 1 : i = Count + 1 \/ i \in 1 .. Count
    BY <1>b
  <2> QED
    BY <1>6, <2>1, <2>2
<1>8. Queued' \in Seq(Cell) /\ Len(Queued') = Count + 1
  <2>1. \A i \in 1 .. Count + 1 : i # Count + 1 => Queued[i] \in Cell
    BY <1>b, <1>5, ElementOfSeq
  <2>2. Queued' \in [1 .. Count + 1 -> Cell]
    BY <1>5, <1>6, <1>7, <2>1
  <2> QED
    BY <1>b, <2>2, IsSeq
<1> QED
  BY <1>5, <1>7, <1>8, IsAppend

(* The cell at the tail holds the descriptor that waits longest.           *)
LEMMA HeadIsOldest ==
  ASSUME TypeOK, ~IsEmpty
  PROVE  Queued # << >> /\ Head(Queued) = queue[tail]
<1>1. Count \in 1 .. queueSize - 1 /\ queueSize \in Nat \ {0} /\ tail \in 0 .. queueSize - 1
  BY HeadFacts, Bounds
<1>2. Place(0) = tail
  BY <1>1 DEF Place
<1>3. Queued # << >> /\ Queued[1] = queue[Place(1 - 1)]
  BY <1>1, QueuedFacts
<1>4. Place(1 - 1) = Place(0)
  BY DEF Place
<1> QED
  BY <1>2, <1>3, <1>4

(* Dequeue drops that one and no other.                                    *)
LEMMA DequeueTakes ==
  ASSUME TypeOK, Dequeue
  PROVE  Queued' = Tail(Queued)
<1>b. /\ queueSize \in Nat \ {0}
      /\ head \in 0 .. queueSize - 1 /\ tail \in 0 .. queueSize - 1
      /\ Count \in 1 .. queueSize - 1
  BY Bounds, HeadFacts DEF Dequeue
<1>1. (tail + 1) % queueSize = IF tail + 1 < queueSize THEN tail + 1 ELSE tail + 1 - queueSize
  <2>1. 1 \in 0 .. queueSize - 1
    BY <1>b
  <2> QED
    BY <2>1, Places DEF Place
<1>2. tail' = (IF tail + 1 < queueSize THEN tail + 1 ELSE tail + 1 - queueSize)
      /\ head' = head /\ queueSize' = queueSize /\ queue' = queue
  BY <1>1 DEF Dequeue
<1>3. Count' = Count - 1
  BY <1>b, <1>2 DEF Count
<1>4. \A i \in 1 .. Count - 1 : At(i - 1)' = At(i)
  <2> TAKE i \in 1 .. Count - 1
  <2> DEFINE a == tail' + (i - 1)
  <2>1. a \in Nat /\ a < 2 * queueSize
    BY <1>b, <1>2
  <2>2. i \in 0 .. queueSize - 1
    BY <1>b
  <2>3. (IF a < queueSize THEN a ELSE a - queueSize) = Place(i)
    BY <1>b, <1>2 DEF Place
  <2> HIDE DEF a
  <2>4. a % queueSize = Place(i)
    BY <1>b, <2>1, <2>3, Wrap
  <2>5. At(i - 1)' = queue[Place(i)]
    BY <1>2, <2>4 DEF At, a
  <2> QED
    BY <2>2, <2>5, Places
<1>5. Queued \in Seq(Cell) /\ Len(Queued) = Count
  BY QueuedFacts
<1>6. Queued' = [i \in 1 .. Count - 1 |-> At(i)]
  BY <1>3, <1>4 DEF Queued
<1>7. \A i \in 1 .. Count - 1 : i + 1 \in 1 .. Count /\ At(i) = Queued[i + 1]
  BY <1>b DEF Queued
<1>8. \A i \in 1 .. Count - 1 : Queued'[i] = Queued[i + 1] /\ Queued'[i] \in Cell
  BY <1>5, <1>6, <1>7, ElementOfSeq
<1>9. Queued' \in Seq(Cell) /\ Len(Queued') = Count - 1
  BY <1>b, <1>6, <1>8
<1>10. Queued # << >>
  BY <1>b, <1>5, EmptySeq
<1> QED
  BY <1>5, <1>8, <1>9, <1>10, IsTail

-----------------------------------------------------------------------------
(* The ring implements the queue: from the ring's point of view nothing is *)
(* lost, repeated or reordered, by wrapping around or by growing.          *)
THEOREM RingIsFifo == Spec => FifoSpec
<1>1. Init => Fifo!FifoInit
  <2> SUFFICES ASSUME Init PROVE Fifo!FifoInit
    OBVIOUS
  <2>1. TypeOK /\ IsEmpty
    BY TypeInit DEF Init, IsEmpty
  <2> QED
    BY <2>1, QueuedFacts DEF Init, Fifo!FifoInit
<1>2. TypeOK /\ [Next]_vars => [Fifo!FifoNext]_(Fifo!fifoVars)
  <2> SUFFICES ASSUME TypeOK, [Next]_vars
               PROVE  [Fifo!FifoNext]_(Fifo!fifoVars)
    OBVIOUS
  <2>1. ASSUME NEW fd \in Fds, EnqueueInPlace(fd) PROVE Fifo!Put(fd)
    BY <2>1, InPlacePuts DEF Fifo!Put, EnqueueInPlace
  <2>2. ASSUME NEW fd \in Fds, EnqueueResized(fd) PROVE Fifo!Put(fd)
    BY <2>2, ResizedPuts DEF Fifo!Put, EnqueueResized
  <2>3. ASSUME GetHead PROVE Fifo!Look
    <3>1. Queued' = Queued
      BY <2>3 DEF GetHead, Queued, Count, At
    <3> QED
      BY <2>3, <3>1, HeadIsOldest DEF GetHead, Fifo!Look
  <2>4. ASSUME Dequeue PROVE Fifo!Take
    BY <2>4, HeadIsOldest, DequeueTakes DEF Dequeue, Fifo!Take
  <2>5. ASSUME Panic PROVE Fifo!Fail
    <3>1. Queued' = Queued
      BY <2>5 DEF Panic, Queued, Count, At
    <3> QED
      BY <2>5, <3>1, QueuedFacts DEF Panic, Fifo!Fail
  <2>6. ASSUME UNCHANGED vars PROVE UNCHANGED Fifo!fifoVars
    <3>1. Queued' = Queued
      BY <2>6 DEF vars, Queued, Count, At
    <3> QED
      BY <2>6, <3>1 DEF vars, Fifo!fifoVars
  <2> QED
    BY <2>1, <2>2, <2>3, <2>4, <2>5, <2>6 DEF Next, Fifo!FifoNext
<1> QED
  BY <1>1, <1>2, QueueTypes, PTL DEF Spec, FifoSpec, Fifo!FifoSpec
=============================================================================
