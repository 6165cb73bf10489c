-------------------------------- MODULE Fifo --------------------------------
(***************************************************************************)
(* What an operation queue promises: descriptors come out in the order     *)
(* they went in, however many there are, and asking an empty queue for one *)
(* is a fatal error.                                                       *)
(***************************************************************************)
EXTENDS Sequences

CONSTANT Fds, NoFd

VARIABLES items,        \* The descriptors waiting, oldest first.
          result,       \* The last descriptor handed out.
          panicked      \* A fatal error has ended the program.

fifoVars == <<items, result, panicked>>

FifoInit == items = << >> /\ result = NoFd /\ panicked = FALSE

Put(fd) == /\ ~panicked
           /\ items' = Append(items, fd)
           /\ UNCHANGED <<result, panicked>>

Look    == /\ ~panicked /\ items # << >>
           /\ result' = Head(items)
           /\ UNCHANGED <<items, panicked>>

Take    == /\ ~panicked /\ items # << >>
           /\ result' = Head(items) /\ items' = Tail(items)
           /\ UNCHANGED panicked

Fail    == /\ ~panicked /\ items = << >>
           /\ panicked' = TRUE
           /\ UNCHANGED <<items, result>>

FifoNext == (\E fd \in Fds : Put(fd)) \/ Look \/ Take \/ Fail

FifoSpec == FifoInit /\ [][FifoNext]_fifoVars
=============================================================================
