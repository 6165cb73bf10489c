------------------------------- MODULE LocalDsm -------------------------------
(***************************************************************************)
(* The DSM of one machine (src/dev/dsm): processes that share a file, a    *)
(* semaphore to serialise their stores, and a process group that a writer  *)
(* stops and continues as a whole.  A store is a write of that kind when it*)
(* faults; only the arbiter protects its mapping of the page, so only its  *)
(* stores do, and those of the others are plain stores.                    *)
(*                                                                         *)
(* One step per system call, loops and calls that nothing can come between *)
(* taken together.                                                         *)
(***************************************************************************)
EXTENDS Integers, FiniteSets

CONSTANTS Procs,        \* The processes that call dsm_init.
          Stores        \* Bound: the stores each of them makes.


VARIABLES loc, arbiter, size, todo,     \* Of each process; arbiter: the flag.
          names, fileSize,              \* /dev/shm, and the file's size.
          sem_barrier, sem_tally,       \* Named semaphores.
          sem_lock, pgid,               \* The table in the shared file.
          \* Kept by the kernel for each process; protected: its own mapping.
          group, handler, stopped, pending, protected

vars == <<loc, arbiter, size, todo, names, fileSize, sem_barrier, sem_tally,
          sem_lock, pgid, group, handler, stopped, pending, protected>>
files   == <<names, fileSize>>
sems    == <<sem_barrier, sem_tally, sem_lock>>
kernel  == <<group, handler, stopped, pending, protected>>

nproc   == Cardinality(Procs)
Signals == {"TSTP", "CONT"}
Nobody  == "nobody"             \* The process group they were all started in.
Names   == {"dsm_barrier", "dsm_tally", "dsm_object"}

(* The shell that starts them is not one of them, nor is its group.        *)
ASSUME LocalAssumption ==
  IsFiniteSet(Procs) /\ Procs # {} /\ Nobody \notin Procs /\ Stores \in Nat

Writing   == {"freeze", "store", "sigill", "release"}
Locations == {"getSems", "getSharedFile", "setSize", "map", "initTable", "raise",
              "barrier", "tally", "check", "lead", "lock", "unlock", "join", "handlers",
              "user", "seize", "unfreeze", "exited", "reaped", "panic"} \cup Writing

TypeOK ==
  /\ loc \in [Procs -> Locations]
  /\ arbiter \in [Procs -> BOOLEAN]
  /\ size \in [Procs -> {0, 2}] /\ fileSize \in {0, 2}
  /\ todo \in [Procs -> 0 .. Stores]
  /\ names \subseteq Names
  /\ sem_barrier \in 0 .. nproc /\ sem_tally \in 0 .. nproc /\ sem_lock \in {0, 1}
  /\ pgid \in Procs \cup {Nobody}
  /\ group \in [Procs -> Procs \cup {Nobody}]
  /\ handler \in [Procs -> [Signals -> {"default", "installed"}]]
  /\ stopped \in [Procs -> BOOLEAN]
  /\ pending \in [Procs -> SUBSET Signals]
  /\ protected \in [Procs -> BOOLEAN]

Init ==
  /\ loc = [p \in Procs |-> "getSems"] /\ arbiter = [p \in Procs |-> FALSE]
  /\ size = [p \in Procs |-> 0] /\ todo = [p \in Procs |-> Stores]
  /\ names = {} /\ fileSize = 0
  /\ sem_barrier = 0 /\ sem_tally = 0 /\ sem_lock = 0 /\ pgid = Nobody
  /\ group = [p \in Procs |-> Nobody]
  /\ handler = [p \in Procs |-> [s \in Signals |-> "default"]]
  /\ stopped = [p \in Procs |-> FALSE] /\ pending = [p \in Procs |-> {}]
  /\ protected = [p \in Procs |-> FALSE]

Move(p, from, to) == loc[p] = from /\ ~stopped[p] /\ loc' = [loc EXCEPT ![p] = to]

-----------------------------------------------------------------------------
(* dsm_init: getting at the shared objects.                                *)

GetSems(p) ==
  /\ Move(p, "getSems", "getSharedFile")
  /\ names' = names \cup {"dsm_barrier", "dsm_tally"}
  /\ UNCHANGED <<arbiter, size, todo, fileSize, sems, pgid, kernel>>

GetSharedFile(p) ==
  /\ Move(p, "getSharedFile", "setSize")
  /\ arbiter' = [arbiter EXCEPT ![p] = "dsm_object" \notin names]
  /\ names' = names \cup {"dsm_object"}
  /\ UNCHANGED <<size, todo, fileSize, sems, pgid, kernel>>

(* ftruncate by the arbiter, fstat by the others.                          *)
SetSize(p) ==
  /\ Move(p, "setSize", "map")
  /\ fileSize' = IF arbiter[p] THEN 2 ELSE fileSize
  /\ size' = [size EXCEPT ![p] = fileSize']
  /\ UNCHANGED <<arbiter, todo, names, sems, pgid, kernel>>

(* mmap refuses to map nothing.                                            *)
Map(p) ==
  /\ Move(p, "map", IF size[p] = 0 THEN "panic"
                    ELSE IF arbiter[p] THEN "initTable" ELSE "barrier")
  /\ UNCHANGED <<arbiter, size, todo, files, sems, pgid, kernel>>

(* dsm_initTable leaves the lock open; the arbiter takes it at once, until *)
(* its process group exists.  Then it protects the page, in its mapping.   *)
FaultyFirstLock == 1                            \* Forgets to take it.
FirstLock == 0

InitTable(p) ==
  /\ Move(p, "initTable", "raise")
  /\ sem_lock' = FirstLock
  /\ pgid' = p
  /\ protected' = [protected EXCEPT ![p] = TRUE]
  /\ UNCHANGED <<arbiter, size, todo, files, sem_barrier, sem_tally,
                 group, handler, stopped, pending>>

FaultyReleased == nproc - 2                     \* One too few.
Released == nproc - 1

RaiseBarrier(p) ==
  /\ Move(p, "raise", "tally")
  /\ sem_barrier' = sem_barrier + Released
  /\ UNCHANGED <<arbiter, size, todo, files, sem_tally, sem_lock, pgid, kernel>>

WaitBarrier(p) ==
  /\ Move(p, "barrier", "tally")
  /\ sem_barrier > 0 /\ sem_barrier' = sem_barrier - 1
  /\ UNCHANGED <<arbiter, size, todo, files, sem_tally, sem_lock, pgid, kernel>>

Tally(p) ==
  /\ Move(p, "tally", "check")
  /\ sem_tally' = sem_tally + 1
  /\ UNCHANGED <<arbiter, size, todo, files, sem_barrier, sem_lock, pgid, kernel>>

(* destroySharedData panics if a name has been unlinked already.           *)
FaultyLastIn == sem_tally >= nproc - 1          \* Counts one too few.
LastIn == sem_tally >= nproc

Check(p) ==
  /\ Move(p, "check", IF LastIn /\ names # Names THEN "panic"
                      ELSE IF arbiter[p] THEN "lead" ELSE "lock")
  /\ names' = IF LastIn THEN {} ELSE names
  /\ UNCHANGED <<arbiter, size, todo, fileSize, sems, pgid, kernel>>

-----------------------------------------------------------------------------
(* dsm_init: the process group and the handlers.                           *)

Lead(p) ==
  /\ Move(p, "lead", "handlers")
  /\ group' = [group EXCEPT ![p] = p]
  /\ sem_lock' = sem_lock + 1
  /\ UNCHANGED <<arbiter, size, todo, files, sem_barrier, sem_tally, pgid,
                 handler, stopped, pending, protected>>

(* dsm_getTablePGID, and setpgid, which fails if the group is gone.        *)
LockTable(p) ==
  /\ Move(p, "lock", "unlock")
  /\ sem_lock = 1 /\ sem_lock' = 0
  /\ UNCHANGED <<arbiter, size, todo, files, sem_barrier, sem_tally, pgid, kernel>>

UnlockTable(p) ==
  /\ Move(p, "unlock", "join")
  /\ sem_lock' = sem_lock + 1
  /\ UNCHANGED <<arbiter, size, todo, files, sem_barrier, sem_tally, pgid, kernel>>

GroupExists == \E q \in Procs : group[q] = pgid /\ loc[q] # "reaped"

Join(p) ==
  /\ Move(p, "join", IF GroupExists THEN "handlers" ELSE "panic")
  /\ group' = [group EXCEPT ![p] = IF GroupExists THEN pgid ELSE @]
  /\ UNCHANGED <<arbiter, size, todo, files, sems, pgid, handler, stopped, pending,
                 protected>>

InstallHandlers(p) ==
  /\ Move(p, "handlers", "user")
  /\ handler' = [handler EXCEPT ![p] = [s \in Signals |-> "installed"]]
  /\ UNCHANGED <<arbiter, size, todo, files, sems, pgid, group, stopped, pending, protected>>

-----------------------------------------------------------------------------
(* A store to a page that may be written: nobody hears of it.              *)
PlainStore(p) ==
  /\ loc[p] = "user" /\ ~stopped[p]
  /\ todo[p] > 0 /\ todo' = [todo EXCEPT ![p] = @ - 1]
  /\ ~protected[p]
  /\ UNCHANGED <<loc, arbiter, size, files, sems, pgid, kernel>>

-----------------------------------------------------------------------------
(* A store that faults: seizeAccess, the store, releaseAccess.             *)

Fault(p) ==
  /\ Move(p, "user", "seize")
  /\ todo[p] > 0
  /\ protected[p]
  /\ UNCHANGED <<arbiter, size, todo, files, sems, pgid, kernel>>

Seize(p) ==
  /\ Move(p, "seize", "freeze")
  /\ sem_lock = 1 /\ sem_lock' = 0
  /\ UNCHANGED <<arbiter, size, todo, files, sem_barrier, sem_tally, pgid, kernel>>

(* dsm_killpg: ignore the signal, send it to the group, and set it back to *)
(* the default, which for the sender replaces the installed handler.       *)
FaultyOthers(p) == {q \in Procs : group[q] = group[p] /\ loc[q] \notin {"reaped", "panic"}}
Others(p) == {q \in Procs \ {p} : group[q] = group[p] /\ loc[q] \notin {"reaped", "panic"}}
SetBack(p, s) == handler' = [handler EXCEPT ![p][s] = "default"]

(* Either signal discards the other where it is pending.                   *)
Freeze(p) ==
  /\ Move(p, "freeze", "store")
  /\ SetBack(p, "TSTP")
  /\ pending' = [q \in Procs |-> CASE q \in Others(p) -> (pending[q] \ {"CONT"}) \cup {"TSTP"}
                                   [] q = p -> {}
                                   [] OTHER -> pending[q]]
  /\ UNCHANGED <<arbiter, size, todo, files, sems, pgid, group, stopped, protected>>

Store(p) ==
  /\ Move(p, "store", "sigill")
  /\ todo' = [todo EXCEPT ![p] = @ - 1]
  /\ protected' = [protected EXCEPT ![p] = FALSE]
  /\ UNCHANGED <<arbiter, size, files, sems, pgid, group, handler, stopped, pending>>

Sigill(p) ==
  /\ Move(p, "sigill", "release")
  /\ protected' = [protected EXCEPT ![p] = TRUE]
  /\ UNCHANGED <<arbiter, size, todo, files, sems, pgid, group, handler, stopped, pending>>

Release(p) ==
  /\ Move(p, "release", "unfreeze")
  /\ sem_lock' = sem_lock + 1
  /\ UNCHANGED <<arbiter, size, todo, files, sem_barrier, sem_tally, pgid, kernel>>

FaultyContinued(p) == {q \in Others(p) : loc[q] = "user"}     \* Not those on their way in.
Continued(p) == Others(p)

Unfreeze(p) ==
  /\ Move(p, "unfreeze", "user")
  /\ SetBack(p, "CONT")
  /\ stopped' = [q \in Procs |-> stopped[q] /\ q \notin Continued(p)]
  /\ pending' = [q \in Procs |-> CASE q \in Continued(p) -> (pending[q] \ {"TSTP"}) \cup {"CONT"}
                                   [] q = p -> {}
                                   [] OTHER -> pending[q]]
  /\ UNCHANGED <<arbiter, size, todo, files, sems, pgid, group, protected>>

-----------------------------------------------------------------------------
(* A signal arrives.  The handlers do nothing.  (One that interrupts a     *)
(* sem_wait makes dsm_down panic: NobodyInterrupted says that none does.)  *)
Deliver(p, s) ==
  /\ s \in pending[p] /\ ~stopped[p]
  /\ pending' = [pending EXCEPT ![p] = @ \ {s}]
  /\ stopped' = [stopped EXCEPT ![p] = s = "TSTP" /\ handler[p][s] = "default"]
  /\ UNCHANGED <<loc, arbiter, size, todo, files, sems, pgid, group, handler, protected>>

(* dsm_exit: leave the group (the arbiter leads its own), reset handlers.  *)
(* A signal sent to it as a member arrives before setpgid returns, so it   *)
(* still meets the installed handler.                                      *)
Exit(p) ==
  /\ Move(p, "user", "exited")
  /\ todo[p] = 0 /\ pending[p] = {}
  /\ group' = [group EXCEPT ![p] = p]
  /\ handler' = [handler EXCEPT ![p] = [s \in Signals |-> "default"]]
  /\ UNCHANGED <<arbiter, size, todo, files, sems, pgid, stopped, pending, protected>>

(* The process has ended, with exit or dsm_panic: its parent waits for it.  *)
Reap(p) ==
  /\ \E end \in {"exited", "panic"} : Move(p, end, "reaped")
  /\ UNCHANGED <<arbiter, size, todo, files, sems, pgid, kernel>>

Step(p) == \/ GetSems(p) \/ GetSharedFile(p) \/ SetSize(p) \/ Map(p) \/ InitTable(p)
           \/ RaiseBarrier(p) \/ WaitBarrier(p) \/ Tally(p) \/ Check(p)
           \/ Lead(p) \/ LockTable(p) \/ UnlockTable(p) \/ Join(p) \/ InstallHandlers(p)
           \/ PlainStore(p)
           \/ Fault(p) \/ Seize(p) \/ Freeze(p) \/ Store(p) \/ Sigill(p) \/ Release(p)
           \/ Unfreeze(p) \/ Exit(p) \/ Reap(p)
           \/ \E s \in Signals : Deliver(p, s)

Next == \E p \in Procs : Step(p)

Spec == Init /\ [][Next]_vars

(* Every process is scheduled.                                             *)
FairSpec == Spec /\ \A p \in Procs : WF_vars(Step(p))

-----------------------------------------------------------------------------
(* The lock in the shared file has one holder at most, and none while it is*)
(* open, although code of three modules takes it: the arbiter before the   *)
(* table is ready, every joiner that reads the table, and the arbiter for  *)
(* each of its writes, which a joiner therefore never meets half done.     *)
LockHolders == {p \in Procs : \/ loc[p] \in Writing \cup {"raise", "unlock"}
                              \/ (arbiter[p] /\ loc[p] \in {"tally", "check", "lead"})}
LockIsExclusive == Cardinality(LockHolders) + sem_lock <= 1

(* A process that has read the group's number finds the arbiter already    *)
(* leading that group: the number is its pid, in the table long before.    *)
GroupReady == \A p, q \in Procs : loc[p] = "join" /\ arbiter[q] => group[q] = q

(* The shared objects disappear only when nobody has still to open them.   *)
DestroyedByTheLast ==
  names = {} => \A p \in Procs : loc[p] = "getSems" \/ sem_tally = nproc

(* No signal comes to a process that waits for a semaphore: dsm_down would *)
(* panic.  Nobody is in the group while it waits on its way in, and the    *)
(* arbiter, which waits later, gets none of those that it sends.           *)
NobodyInterrupted ==
  \A p \in Procs : loc[p] \in {"barrier", "lock", "seize"} => pending[p] = {}

(* What a write stops it continues: a joiner that is in the group without  *)
(* its handlers yet when the arbiter writes is stopped by it, at once or   *)
(* later, but not left so after the write, nor does it stop for good then. *)
WriteUnderWay == \E p \in Procs : loc[p] \in Writing \cup {"unfreeze"}
NobodyLeftStopped ==
  ~WriteUnderWay => \A p \in Procs : ~stopped[p] /\ "TSTP" \notin pending[p]

(* Every process ends, in panic at worst, however its start meets the      *)
(* arbiter's stores: unless the arbiter panics before it opens the lock.   *)
EveryoneFinishes ==
  <>(\/ \A p \in Procs : loc[p] = "reaped"
     \/ \E p \in Procs : arbiter[p] /\ loc[p] = "reaped" /\ group[p] = Nobody)

(* dsm_sync.c:72, of the lock a write takes: "Acquire shared object        *)
(* semaphore to ensure atomicity."  Nobody else stores while one writes.   *)
(* It does not hold: only the arbiter's stores take the lock.              *)
WritesAreAtomic ==
  [][\A p, q \in Procs : p # q /\ loc[p] \in Writing => todo'[q] = todo[q]]_vars

(* dsm_manager.c:244: "If last to check in, unlink shared object and       *)
(* semaphore."  Whoever does finds them there.  It does not hold: two      *)
(* processes may both count the other, and then both are the last.         *)
OnlyOneIsLast == \A p \in Procs : loc[p] = "check" /\ LastIn => names = Names
=============================================================================
