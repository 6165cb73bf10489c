----------------------------- MODULE DsmSession -----------------------------
(***************************************************************************)
(* A networked session: the server, the arbiters and the processes, run    *)
(* side by side and tied together by the sockets and signals of DsmNet,    *)
(* and by what each of them notices when a peer is gone.                   *)
(***************************************************************************)
EXTENDS DsmServer, DsmArbiter, DsmProcess

CONSTANT Killable       \* The processes that may be killed.
ASSUME KillableAssumption == Killable \subseteq Procs

vars == <<serverVars, arbVars, procVars, netVars>>

Init == ServerInit /\ ArbiterInit /\ ProcessInit /\ NetInit

-----------------------------------------------------------------------------
(***************************************************************************)
(* Closed sockets: once everything a peer sent has been read, recv()       *)
(* returns 0.  The server and the arbiters panic at that; a process        *)
(* panics if it is in one of its receives.                                 *)
(***************************************************************************)
FaultyServerLosesArbiter(a) ==          \* Drops the connection and goes on.
  /\ srvState = "up" /\ a \in conns
  /\ arbState[a] = "panic" /\ a2s[a] = << >>
  /\ conns' = conns \ {a}
  /\ UNCHANGED <<srvState, started, gid, nproc_waiting, writeVars, backlog,
                 arbVars, procVars, netVars>>

ServerLosesArbiter(a) ==
  /\ srvState = "up" /\ a \in conns
  /\ arbState[a] = "panic" /\ a2s[a] = << >>
  /\ srvState' = "panic"
  /\ UNCHANGED <<started, gid, nproc_waiting, writeVars, backlog, conns,
                 arbVars, procVars, netVars>>

ArbiterLosesServer(a) ==
  /\ arbState[a] = "up" /\ pass[a] = {}
  /\ srvState # "up" /\ s2a[a] = << >>
  /\ arbState' = [arbState EXCEPT ![a] = "panic"]
  /\ UNCHANGED <<arbStarted, fds, pass, ptab, arbQueue, serverVars, procVars, netVars>>

ArbiterLosesProcess(a, p) ==
  /\ arbState[a] = "up" /\ pass[a] = {}
  /\ p \in Accepted(a) /\ loc[p] \in {"killed", "panic"} /\ p2a[p] = << >>
  /\ arbState' = [arbState EXCEPT ![a] = "panic"]
  /\ UNCHANGED <<arbStarted, fds, pass, ptab, arbQueue, serverVars, procVars, netVars>>

ProcessLosesArbiter(p) ==
  /\ loc[p] \in {"recv_gid", "recv_waitDone", "takeAccess"} /\ Running(p)
  /\ arbState[Home[p]] \in {"exited", "panic"} /\ a2p[p] = << >>
  /\ Goto(p, "panic")
  /\ UNCHANGED <<todo, procGid, rounds, serverVars, arbVars, netVars>>

-----------------------------------------------------------------------------
ServerActs(a) ==
  \/ ServerStep(a) /\ UNCHANGED <<arbVars, procVars, p2a, a2p, signals, mem>>
  \/ ServerLosesArbiter(a)

ArbiterActs(a) ==
  \/ ArbiterStep(a) /\ UNCHANGED <<serverVars, procVars>>
  \/ ArbiterLosesServer(a)
  \/ \E p \in Procs : ArbiterLosesProcess(a, p)

ProcessActs(p) ==
  \/ ProcessStep(p) /\ UNCHANGED <<serverVars, arbVars, a2s, s2a>>
  \/ ProcessLosesArbiter(p)

Kill(p) == ProcKilled(p) /\ UNCHANGED <<serverVars, arbVars, a2s, s2a>>

Next == \/ \E a \in Arbiters : ServerActs(a) \/ ArbiterActs(a)
        \/ \E p \in Procs : ProcessActs(p)
        \/ \E p \in Killable : Kill(p)

Spec == Init /\ [][Next]_vars

(***************************************************************************)
(* Fairness.  Every program is scheduled, and its poll loop serves every   *)
(* socket.  Programs are finite, so an arbiter that keeps making passes    *)
(* runs out of local messages and then waits for the server's to arrive.   *)
(***************************************************************************)
Fairness == /\ \A a \in Arbiters : WF_vars(ServerActs(a)) /\ WF_vars(ArbiterActs(a))
            /\ \A p \in Procs : WF_vars(ProcessActs(p))

FairSpec == Spec /\ Fairness

-----------------------------------------------------------------------------
(* The state of every component has its type.                              *)
TypeOK == ServerTypeOK /\ ArbiterTypeOK /\ ProcessTypeOK /\ NetTypeOK

(* Is the shared page writable in p's address space?  Is p in user code?   *)
Writable(p) == loc[p] \in {"store", "sigill"}
InUser(p)   == loc[p] = "user" /\ ~susp[p]

(***************************************************************************)
(* The sanity checks of the handlers ("Received out of order message!",    *)
(* "Inconsistent internal state!", "No writer queued!", "Bad message!")    *)
(* never fail: until a process has died or left, nobody panics.            *)
(***************************************************************************)
NoProtocolPanic ==
  gone = {} => /\ srvState # "panic"
               /\ \A a \in Arbiters : arbState[a] # "panic"
               /\ \A p \in Procs : loc[p] # "panic"

(* At most one process of the session can write to the shared page: the    *)
(* grant (MSG_WRITE_OKAY) is a token, whatever is queued on each machine.  *)
SingleWriter == \A p, q \in Procs : Writable(p) /\ Writable(q) => p = q

(***************************************************************************)
(* While p can write, nobody else runs user code for longer than it takes  *)
(* a signal to arrive: every other process is stopped, is about to be, or  *)
(* is in the DSM's own code, waiting or on its way to stop itself; or it   *)
(* has ended.                                                              *)
(***************************************************************************)
Held(q) == \/ susp[q] \/ tstp[q]
           \/ loc[q] \in {"takeAccess", "dropAccess", "barrier",
                          "exited", "reaped", "killed", "panic"}

WriterAlone == \A p, q \in Procs : Writable(p) /\ p # q => Held(q)

(***************************************************************************)
(* The grant, the server's queue and the queue of the writer's arbiter     *)
(* name the same process: neither queue stores who was granted, each is    *)
(* read at its head (dsm_getOpQueueHead), so both heads must keep pointing *)
(* at the writer until its data is in.                                     *)
(***************************************************************************)
Granted(p) == Writable(p) \/ Waiting(a2p, p, "WRITE_OKAY")

GrantAgreement ==
  \A p \in Procs : Granted(p) =>
    /\ step = "WAITING_SYNC_INFO"
    /\ opqueue # << >> /\ Head(opqueue) = Home[p]
    /\ arbQueue[Home[p]] # << >> /\ Head(arbQueue[Home[p]]) = p

(* Outside a write, and at the moment a writer is let in, every machine's  *)
(* page holds the same data: no write is lost or still to be applied when  *)
(* the processes are continued.                                            *)
Quiet == \/ step \in {"READY", "WAITING_STOP_ACK"}
         \/ \E p \in Procs : loc[p] = "store"

PagesAgree ==
  Quiet => \A a, b \in {c \in Arbiters : arbState[c] = "up"} : mem[a] = mem[b]

(* The server's step and its queue move together, and an acknowledgement   *)
(* counter is zero outside the step that counts it.                        *)
StepMatchesQueue ==
  /\ (step = "READY") <=> (opqueue = << >>)
  /\ step # "WAITING_STOP_ACK" => nproc_stopped = 0
  /\ step # "WAITING_SYNC_ACK" => nproc_synced = 0
  /\ nproc_waiting < NProc

(* No process is back in user code from a barrier that another process has *)
(* not reached, although the resume for a write and the release of the     *)
(* barrier are the same signal and the announcement of a barrier may be    *)
(* still unread when the resume is sent.  So it is until a process leaves: *)
(* see BarrierSuspends.                                                    *)
HasLeft(p) == loc[p] \in {"exited", "reaped"}
BarrierHolds ==
  (\A p \in Procs : ~HasLeft(p)) =>
    \A p, q \in Procs : InUser(p) => rounds[p] <= rounds[q]

(* msg_waitDone skips the signal for a stopped process with the remark     *)
(* "shouldn't happen" (dsm_arbiter.c:448): at a release nobody is stopped. *)
NobodyStoppedAtRelease ==
  \A a \in Arbiters : Waiting(s2a, a, "WAIT_DONE") =>
    \A p \in Table(a) : ~ptab[p].is_stopped

(* dsm_init blocks its caller until all processes have connected, and then *)
(* the global identifiers are distinct and below the number of processes.  *)
InitBlocks ==
  /\ \A p, q \in Procs : loc[p] = "user" =>
       ptab[q].used \/ loc[q] \in {"exited", "reaped"}
  /\ \A p, q \in Procs : p # q /\ procGid[p] = procGid[q] => procGid[p] = NoGid
  /\ \A p \in Procs : procGid[p] < NProc

(***************************************************************************)
(* The session implements CoherentPage.  The writer is not stored anywhere *)
(* in the code: it is who both queues have at their heads, from the grant  *)
(* until its arbiter forwards the data.  The current page is the one of    *)
(* the machine at the head of the server's queue.  A machine is a member   *)
(* until its arbiter exits: one that panics keeps its copy.                *)
(***************************************************************************)
Writer ==
  LET a == Head(opqueue)
  IN  IF step = "WAITING_SYNC_INFO" /\ ~\E i \in DOMAIN a2s[a] : a2s[a][i].type = "SYNC_INFO"
      THEN Head(arbQueue[a]) ELSE Server

Asking ==
  {p \in Procs : \/ loc[p] \in {"takeAccess", "store"}
                 \/ /\ loc[p] \in {"killed", "panic"}
                    /\ \E i \in DOMAIN arbQueue[Home[p]] : arbQueue[Home[p]][i] = p
                    /\ ~\E i \in DOMAIN p2a[p] : p2a[p][i].type = "SYNC_INFO"}

Present == {a \in Arbiters : arbState[a] # "exited"}
Source  == IF opqueue # << >> THEN Head(opqueue)
           ELSE CHOOSE a \in Arbiters : Present = {} \/ a \in Present

Coherent == INSTANCE CoherentPage WITH
  Machines <- Arbiters, Pages <- [Offsets -> Values], Nobody <- Server,
  FirstPage <- [o \in Offsets |-> Zero],
  asking  <- Asking,
  writer  <- Writer,
  page    <- mem[Source],
  members <- Present,
  copies  <- mem
CoherentSpec == Coherent!PageSpec

-----------------------------------------------------------------------------
(* Liveness, up to the session being torn down.                            *)
TornDown == srvState # "up"

(* dsm_init returns in every process.                                      *)
EveryoneStarts ==
  <>(TornDown \/ \A p \in Procs : loc[p] \notin {"connect", "recv_gid", "recv_waitDone"})

(* The freeze that precedes a write completes, and so does the update that *)
(* follows it: the server is never left counting acknowledgements.         *)
AcksArrive ==
  /\ (step = "WAITING_STOP_ACK") ~> (TornDown \/ step = "WAITING_SYNC_INFO")
  /\ (step = "WAITING_SYNC_ACK") ~> (TornDown \/ step \in {"READY", "WAITING_SYNC_INFO"})

(* A queued writer that was stopped while it waits for its grant.          *)
Frozen(p) == loc[p] = "takeAccess" /\ susp[p] /\ ptab[p].is_queued

(* Every request for write access is granted, unless some queued writer is *)
(* frozen (and then nobody else ever gets past it).                        *)
WriteGranted ==
  \A p \in Procs : (loc[p] = "takeAccess")
                     ~> (loc[p] # "takeAccess" \/ TornDown \/ \E q \in Procs : Frozen(q))

(* A barrier that every process has reached is released by every arbiter.  *)
AllAnnounced == \A p, q \in Procs : rounds[p] = rounds[q] /\ rounds[p] > 0
BarrierReleased ==
  AllAnnounced ~> (TornDown \/ \A p \in Procs : ~ptab[p].is_waiting)

(* The death of a process ends the whole session: its arbiter, the server, *)
(* and then every other arbiter.                                           *)
FailureEndsSession ==
  \A p \in Procs : (loc[p] = "killed")
    ~> (srvState = "panic" /\ \A a \in Arbiters : arbState[a] \in {"panic", "exited"})

-----------------------------------------------------------------------------
(* Statements of the documentation that the code does not live up to.      *)

(* dsm_interface.h:25: dsm_barrier suspends its caller until all have      *)
(* reached the barrier; so the caller does return once they have.          *)
BarrierReturns ==
  \A p \in Procs : (AllAnnounced /\ loc[p] = "barrier") ~> (TornDown \/ InUser(p))

(* dsm_interface.h:25: nobody gets past a barrier before all the processes *)
(* that are still there have reached it.                                   *)
BarrierSuspends ==
  \A p, q \in Procs : InUser(p) /\ ~HasLeft(q) => rounds[p] <= rounds[q]

(* dsm_arbiter.c:462: after MSG_WRITE_OKAY "a write-operation may now      *)
(* proceed"; so the process it is forwarded to does proceed.               *)
WriteProceeds ==
  \A p \in Procs : Waiting(a2p, p, "WRITE_OKAY") ~> (TornDown \/ loc[p] = "store")
=============================================================================
