----------------------------- MODULE DsmProcess -----------------------------
(***************************************************************************)
(* An application process of the session: dsm_init from the connection on, *)
(* the SIGSEGV and SIGILL handlers that bracket a store (dsm_sync.c),      *)
(* dsm_barrier and dsm_exit (dsm_interface.c).                             *)
(*                                                                         *)
(* A step is a system call or a run of user code between two of them.  A   *)
(* process with a SIGTSTP pending may still complete the send() it is in,  *)
(* and nothing else: the signal stops it when it leaves the kernel.        *)
(***************************************************************************)
EXTENDS DsmNet

VARIABLES loc,          \* Where the process is.
          todo,         \* The rest of its program.
          procGid,      \* gid.
          rounds        \* History: the barriers it has announced itself at.

procVars == <<loc, todo, procGid, rounds>>

Locations == {"connect", "recv_gid", "recv_waitDone", "user",
              "takeAccess", "store", "sigill", "dropAccess",
              "barrier", "exited", "reaped", "killed", "panic"}

ProcessTypeOK ==
  /\ loc     \in [Procs -> Locations]
  /\ todo    \in [Procs -> Seq(Op)]
  /\ procGid \in [Procs -> Nat \cup {-1}]
  /\ rounds  \in [Procs -> Nat]

ProcessInit ==
  /\ loc     = [p \in Procs |-> "connect"]
  /\ todo \in Workloads
  /\ procGid = [p \in Procs |-> -1]
  /\ rounds  = [p \in Procs |-> 0]

Running(p)  == ~susp[p] /\ ~tstp[p]
Goto(p, l)  == loc' = [loc EXCEPT ![p] = l]
Calls(p, o) == loc[p] = "user" /\ todo[p] # << >> /\ Head(todo[p]).op = o
OpDone(p)    == todo' = [todo EXCEPT ![p] = Tail(@)]

SendToArbiter(p, m) == ~susp[p] /\ p2a' = Send(p2a, p, m)

(* dsm_recvall on the arbiter's socket, while at l.                        *)
Receive(p, l) == /\ loc[p] = l /\ Running(p)
                 /\ a2p[p] # << >> /\ a2p' = Consume(a2p, p)

-----------------------------------------------------------------------------
(* Joining the session.                                                    *)

ProcConnect(p) ==
  /\ loc[p] = "connect"
  /\ SendToArbiter(p, AddProc(p))
  /\ Goto(p, "recv_gid")
  /\ UNCHANGED <<todo, procGid, rounds, a2p, signals, mem>>

ProcRecvGid(p) ==
  /\ Receive(p, "recv_gid")
  /\ \/ /\ Head(a2p[p]).type = "SET_GID" /\ Head(a2p[p]).pid = p
        /\ procGid' = [procGid EXCEPT ![p] = Head(a2p[p]).gid]
        /\ Goto(p, "recv_waitDone")
     \/ /\ Head(a2p[p]).type = "SET_GID" => Head(a2p[p]).pid # p
        /\ Goto(p, "panic") /\ UNCHANGED procGid
  /\ UNCHANGED <<todo, rounds, p2a, signals, mem>>

ProcRecvWaitDone(p) ==
  /\ Receive(p, "recv_waitDone")
  /\ Goto(p, IF Head(a2p[p]).type = "WAIT_DONE" THEN "user" ELSE "panic")
  /\ UNCHANGED <<todo, procGid, rounds, p2a, signals, mem>>

-----------------------------------------------------------------------------
(* A store to the protected page.                                          *)

(* SIGSEGV, first half of takeAccess: ask for write access.                *)
ProcRequest(p) ==
  /\ Calls(p, "write")
  /\ SendToArbiter(p, Simple("SYNC_REQ"))
  /\ Goto(p, "takeAccess")
  /\ UNCHANGED <<todo, procGid, rounds, a2p, signals, mem>>

(* The rest of the handler: the answer came, plant UD2, unprotect the page. *)
ProcGranted(p) ==
  /\ Receive(p, "takeAccess")
  /\ Goto(p, IF Head(a2p[p]).type = "WRITE_OKAY" THEN "store" ELSE "panic")
  /\ UNCHANGED <<todo, procGid, rounds, p2a, signals, mem>>

(* The faulting instruction runs again.                                    *)
ProcStore(p) ==
  /\ loc[p] = "store" /\ Running(p)
  /\ mem' = [mem EXCEPT ![Home[p]][Head(todo[p]).off] = <<p, Len(todo[p])>>]
  /\ Goto(p, "sigill")
  /\ UNCHANGED <<todo, procGid, rounds, p2a, a2p, signals>>

(* SIGILL: protect the page again and send what it holds at that place.    *)
ProcSigill(p) ==
  /\ loc[p] = "sigill"
  /\ LET off == Head(todo[p]).off
     IN  SendToArbiter(p, SyncInfo(off, mem[Home[p]][off]))
  /\ OpDone(p)
  /\ Goto(p, "dropAccess")
  /\ UNCHANGED <<procGid, rounds, a2p, signals, mem>>

-----------------------------------------------------------------------------
(* dsm_barrier and dsm_exit.                                               *)

ProcBarrier(p) ==
  /\ Calls(p, "barrier")
  /\ SendToArbiter(p, Simple("WAIT_BARR"))
  /\ OpDone(p)
  /\ rounds' = [rounds EXCEPT ![p] = @ + 1]
  /\ Goto(p, "barrier")
  /\ UNCHANGED <<procGid, a2p, signals, mem>>

(* kill(getpid(), SIGTSTP) ends dropAccess and dsm_barrier: the process    *)
(* stops at once, and is back in user code when something continues it.    *)
ProcSelfStop(p) ==
  /\ loc[p] \in {"dropAccess", "barrier"} /\ Running(p)
  /\ susp' = [susp EXCEPT ![p] = TRUE]
  /\ Goto(p, "user")
  /\ UNCHANGED <<todo, procGid, rounds, tstp, gone, p2a, a2p, mem>>

ProcExit(p) ==
  /\ Calls(p, "exit")
  /\ SendToArbiter(p, Simple("PRGM_DONE"))
  /\ OpDone(p)
  /\ Goto(p, "exited")
  /\ UNCHANGED <<procGid, rounds, a2p, signals, mem>>

(* The process returns from main, and its parent waits for it.             *)
ProcReap(p) ==
  /\ loc[p] = "exited" /\ Running(p)
  /\ gone' = gone \cup {p}
  /\ Goto(p, "reaped")
  /\ UNCHANGED <<todo, procGid, rounds, susp, tstp, p2a, a2p, mem>>

-----------------------------------------------------------------------------
(* The process is killed from outside, any time after it connected.        *)
ProcKilled(p) ==
  /\ loc[p] \notin {"connect", "exited", "reaped", "killed", "panic"}
  /\ gone' = gone \cup {p}
  /\ Goto(p, "killed")
  /\ UNCHANGED <<todo, procGid, rounds, susp, tstp, p2a, a2p, mem>>

(* A pending SIGTSTP stops the process.                                    *)
DeliverTstp(p) ==
  /\ tstp[p]
  /\ susp' = [susp EXCEPT ![p] = TRUE]
  /\ tstp' = [tstp EXCEPT ![p] = FALSE]
  /\ UNCHANGED <<procVars, gone, p2a, a2p, mem>>

ProcessStep(p) ==
  \/ ProcConnect(p)
  \/ ProcRecvGid(p)
  \/ ProcRecvWaitDone(p)
  \/ ProcRequest(p)
  \/ ProcGranted(p)
  \/ ProcStore(p)
  \/ ProcSigill(p)
  \/ ProcBarrier(p)
  \/ ProcSelfStop(p)
  \/ ProcExit(p)
  \/ ProcReap(p)
  \/ DeliverTstp(p)
=============================================================================
