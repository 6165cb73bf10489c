------------------------------ MODULE DsmStartup ------------------------------
(***************************************************************************)
(* How the processes of one machine find each other (dsm_interface.c,      *)
(* dsm_init up to the start message): they race for the shared file, the   *)
(* winner initialises it and forks the arbiter, and all wait on a named    *)
(* semaphore until the arbiter listens.  One step per system call or       *)
(* access to the file.  The exchange that follows the connection is        *)
(* DsmSession's; here it is the set of the processes that got through it.  *)
(***************************************************************************)
EXTENDS Integers, FiniteSets

CONSTANTS Procs,        \* The processes of this machine.
          NProc         \* nproc: the processes of the session.

ASSUME StartupAssumption == IsFiniteSet(Procs) /\ NProc \in Nat /\ Cardinality(Procs) <= NProc

VARIABLES loc,          \* Where each process is.
          first,        \* first[p]: p created the shared file.
          size,         \* size[p]: the size p will map, in pages.
          names,        \* The names in /dev/shm.
          fileSize,     \* The size of the shared file, in pages.
          data_off,     \* smap->data_off, in pages: shared by all.
          sem_start,    \* The value of the semaphore.
          arb,          \* The arbiter: not forked, setting up, or listening.
          posts,        \* How often the arbiter has upped sem_start.
          started,      \* The arbiter has received the start message.
          page          \* page[p]: the page p has protected, or -1.

vars == <<loc, first, size, names, fileSize, data_off, sem_start, arb, posts,
          started, page>>
shared == <<names, fileSize, data_off, sem_start>>
arbiter == <<arb, posts, started>>

Locations == {"getSem", "getSharedFile", "setSize", "map", "zero", "initMap", "down",
              "connect", "recv_gid", "protect", "recv_waitDone", "ready", "panic"}

DSM_SHM_FILE_SIZE == 2

TypeOK ==
  /\ loc \in [Procs -> Locations]
  /\ first \in [Procs -> BOOLEAN]
  /\ size \in [Procs -> {0, DSM_SHM_FILE_SIZE}]
  /\ names \subseteq {"dsm_start", "dsm_file"}
  /\ fileSize \in {0, DSM_SHM_FILE_SIZE}
  /\ data_off \in {0, 1}
  /\ sem_start \in 0 .. NProc /\ posts \in 0 .. NProc
  /\ arb \in {"none", "setup", "listening"}
  /\ started \in BOOLEAN
  /\ page \in [Procs -> {-1, 0, 1}]

Init ==
  /\ loc = [p \in Procs |-> "getSem"]
  /\ first = [p \in Procs |-> FALSE] /\ size = [p \in Procs |-> 0]
  /\ names = {} /\ fileSize = 0 /\ data_off = 0 /\ sem_start = 0
  /\ arb = "none" /\ posts = 0 /\ started = FALSE
  /\ page = [p \in Procs |-> -1]

-----------------------------------------------------------------------------
Move(p, from, to) == loc[p] = from /\ loc' = [loc EXCEPT ![p] = to]

GetSem(p) ==
  /\ Move(p, "getSem", "getSharedFile")
  /\ names' = names \cup {"dsm_start"}
  /\ UNCHANGED <<first, size, fileSize, data_off, sem_start, arbiter, page>>

(* shm_open with O_CREAT|O_EXCL: whoever creates the file is first.        *)
FaultyCreates(p) == TRUE                      \* Without O_EXCL.
Creates(p) == "dsm_file" \notin names

GetSharedFile(p) ==
  /\ Move(p, "getSharedFile", "setSize")
  /\ names' = names \cup {"dsm_file"}
  /\ first' = [first EXCEPT ![p] = Creates(p)]
  /\ UNCHANGED <<size, fileSize, data_off, sem_start, arbiter, page>>

(* ftruncate by the first, fstat by the others.                            *)
SetSize(p) ==
  /\ Move(p, "setSize", "map")
  /\ fileSize' = IF first[p] THEN DSM_SHM_FILE_SIZE ELSE fileSize
  /\ size' = [size EXCEPT ![p] = fileSize']
  /\ UNCHANGED <<first, names, data_off, sem_start, arbiter, page>>

(* mmap refuses to map nothing.                                            *)
Map(p) ==
  /\ Move(p, "map", IF size[p] = 0 THEN "panic" ELSE "zero")
  /\ UNCHANGED <<first, size, shared, arbiter, page>>

(* mapSharedFile zeroes what it has mapped, whoever calls it.              *)
Zero(p) ==
  /\ Move(p, "zero", IF first[p] THEN "initMap" ELSE "down")
  /\ data_off' = 0
  /\ UNCHANGED <<first, size, names, fileSize, sem_start, arbiter, page>>

InitMap(p) ==
  /\ Move(p, "initMap", "down")
  /\ data_off' = 1
  /\ arb' = "setup"
  /\ UNCHANGED <<first, size, names, fileSize, sem_start, posts, started, page>>

Down(p) ==
  /\ Move(p, "down", "connect")
  /\ sem_start > 0 /\ sem_start' = sem_start - 1
  /\ UNCHANGED <<first, size, names, fileSize, data_off, arbiter, page>>

(* Connect to the arbiter's port and register.                             *)
Connect(p) ==
  /\ Move(p, "connect", IF arb = "listening" THEN "recv_gid" ELSE "panic")
  /\ UNCHANGED <<first, size, shared, arbiter, page>>

(* The arbiter answers from its poll loop, that is, after it has posted.   *)
RecvGid(p) ==
  /\ Move(p, "recv_gid", "protect")
  /\ posts = NProc
  /\ UNCHANGED <<first, size, shared, arbiter, page>>

Protect(p) ==
  /\ Move(p, "protect", "recv_waitDone")
  /\ page' = [page EXCEPT ![p] = data_off]
  /\ UNCHANGED <<first, size, shared, arbiter>>

RecvWaitDone(p) ==
  /\ Move(p, "recv_waitDone", "ready")
  /\ started
  /\ UNCHANGED <<first, size, shared, arbiter, page>>

-----------------------------------------------------------------------------
ArbListen ==
  /\ arb = "setup" /\ arb' = "listening"
  /\ UNCHANGED <<loc, first, size, shared, posts, started, page>>

FaultyMayPost == arb # "none"                 \* Before it listens.
MayPost == arb = "listening"

FaultyFewPosts == posts < NProc - 1            \* One process is forgotten.
FaultyMorePosts == posts <= NProc             \* One post too many.
MorePosts == posts < NProc

ArbPost ==
  /\ MayPost
  /\ MorePosts
  /\ posts' = posts + 1 /\ sem_start' = sem_start + 1
  /\ UNCHANGED <<loc, first, size, names, fileSize, data_off, arb, started, page>>

Registered ==
  {p \in Procs : loc[p] \in {"recv_gid", "protect", "recv_waitDone", "ready"}}
FaultyAllRegistered == Cardinality(Registered) + 1 >= Cardinality(Procs)
AllRegistered == Registered = Procs

(* The start message: msg_waitDone unlinks the names.                      *)
ArbStart ==
  /\ posts = NProc /\ ~started
  /\ AllRegistered
  /\ started' = TRUE
  /\ names' = {}
  /\ UNCHANGED <<loc, first, size, fileSize, data_off, sem_start, arb, posts, page>>

ProcStep(p) == \/ GetSem(p) \/ GetSharedFile(p) \/ SetSize(p) \/ Map(p) \/ Zero(p)
               \/ InitMap(p) \/ Down(p) \/ Connect(p) \/ RecvGid(p) \/ Protect(p)
               \/ RecvWaitDone(p)
ArbStep == ArbListen \/ ArbPost \/ ArbStart

Next == (\E p \in Procs : ProcStep(p)) \/ ArbStep

Spec == Init /\ [][Next]_vars
FairSpec == Spec /\ WF_vars(ArbStep) /\ \A p \in Procs : WF_vars(ProcStep(p))

-----------------------------------------------------------------------------
(* However the processes race for the file, at most one forks an arbiter:  *)
(* the name is gone again only when nobody can win it a second time.       *)
OneArbiter == \A p, q \in Procs : first[p] /\ first[q] => p = q

(* Nobody is let past the semaphore before the arbiter accepts             *)
(* connections: no connection is refused.                                  *)
ListenerReady == \A p \in Procs : loc[p] = "connect" => arb = "listening"

(* Once the session runs, no latecomer erases the shared file any more.    *)
PageSurvives == [][started => UNCHANGED <<data_off, fileSize>>]_vars

(* dsm_init returns in every process.  If one has mapped the file before it*)
(* had a size and failed, the others are not held up by that before they   *)
(* wait for the session, which then never starts.                          *)
EveryoneReady ==
  <>(\/ \A p \in Procs : loc[p] = "ready"
     \/ /\ \E p \in Procs : loc[p] = "panic"
        /\ \A p \in Procs : loc[p] \in {"panic", "recv_waitDone"})

(* "Protect the shared page" (dsm_interface.c:319): a program that asks    *)
(* for the shared page (dsm_getSharedPage) gets the page it has protected. *)
SharedPageIsProtected ==
  \A p \in Procs : loc[p] = "ready" => page[p] = data_off
=============================================================================
