------------------------------ MODULE DsmServer ------------------------------
(***************************************************************************)
(* The session server (dsm_server.c): it numbers the processes, starts the *)
(* session, serialises the write operations and releases the barriers.     *)
(* One action per message handler; a handler that calls dsm_cpanic leaves  *)
(* srvState = "panic", after which no handler runs.                        *)
(***************************************************************************)
EXTENDS DsmNet

VARIABLES srvState,       \* "up", "exited" (alive = 0), or "panic".
          started,        \* The session has begun.
          gid,            \* The global process counter.
          nproc_stopped, nproc_waiting, nproc_synced,
          step, opqueue,  \* The operation queue: its step, its descriptors.
          backlog,        \* Connections the listener has not accepted yet.
          conns           \* The arbiters in pollableSet (listener excluded).

counters   == <<nproc_stopped, nproc_waiting, nproc_synced>>
writeVars  == <<step, opqueue, nproc_stopped, nproc_synced>>
serverVars == <<srvState, started, gid, nproc_waiting, writeVars, backlog, conns>>

Steps == {"READY", "WAITING_STOP_ACK", "WAITING_SYNC_INFO", "WAITING_SYNC_ACK"}

ServerTypeOK ==
  /\ srvState \in {"up", "exited", "panic"}
  /\ started \in BOOLEAN
  /\ gid \in Nat
  /\ nproc_stopped \in Nat /\ nproc_waiting \in Nat /\ nproc_synced \in Nat
  /\ step \in Steps
  /\ opqueue \in Seq(Arbiters)
  /\ backlog \subseteq Arbiters /\ conns \subseteq Arbiters

(* Every arbiter connects before it lets its processes in (getServerSocket). *)
ServerInit ==
  /\ srvState = "up" /\ started = FALSE /\ gid = 0
  /\ nproc_stopped = 0 /\ nproc_waiting = 0 /\ nproc_synced = 0
  /\ step = "READY" /\ opqueue = << >>
  /\ backlog = Arbiters /\ conns = {}

-----------------------------------------------------------------------------
(* processConnection: register a connection of the backlog.                *)
SrvAccept(a) ==
  /\ srvState = "up"
  /\ a \in backlog
  /\ backlog' = backlog \ {a} /\ conns' = conns \cup {a}
  /\ UNCHANGED <<srvState, started, gid, nproc_waiting, writeVars, a2s, s2a>>

(* processMessage: read the next message of a, which has type t.           *)
SrvReceive(a, t) ==
  /\ srvState = "up"
  /\ a \in conns
  /\ Waiting(a2s, a, t)
  /\ a2s' = Consume(a2s, a)

SrvPanic ==
  /\ srvState' = "panic"
  /\ UNCHANGED <<started, gid, nproc_waiting, writeVars, backlog, conns, s2a>>

(***************************************************************************)
(* The counts the handlers wait for, "(count += n) >= nproc" in the code.  *)
(* Beside each stands a faulty variant that the properties must tell from  *)
(* it; variants are named Faulty... throughout and used by no action.      *)
(***************************************************************************)
FaultyAllRegistered == nproc_waiting + 2 >= NProc     \* Starts one early.
AllRegistered == nproc_waiting + 1 >= NProc

FaultyAllAtBarrier == nproc_waiting >= NProc          \* Tests before counting.
AllAtBarrier == nproc_waiting + 1 >= NProc

FaultyAllStopped(n) == nproc_stopped + n > NProc      \* Waits for one too many.
AllStopped(n) == nproc_stopped + n >= NProc

FaultyAllSynced(n) == nproc_synced + n >= NProc - 1   \* Leaves the writer out.
AllSynced(n) == nproc_synced + n >= NProc

FaultyNextGid == gid                                  \* Forgets to count.
NextGid == gid + 1

SrvAddProc(a) ==
  /\ SrvReceive(a, "ADD_PROC")
  /\ \/ started /\ SrvPanic
     \/ /\ ~started
        /\ LET replied == Send(s2a, a, SetGid(Head(a2s[a]).pid, gid))
           IN  s2a' = IF AllRegistered
                      THEN SendAll(replied, conns, Simple("WAIT_DONE"))
                      ELSE replied
        /\ gid' = NextGid
        /\ started' = AllRegistered
        /\ nproc_waiting' = IF AllRegistered THEN 0 ELSE nproc_waiting + 1
        /\ UNCHANGED <<srvState, writeVars, backlog, conns>>

SrvSyncRequest(a) ==
  /\ SrvReceive(a, "SYNC_REQ")
  /\ \/ /\ ~started \/ (opqueue = << >> /\ step # "READY")
        /\ SrvPanic
     \/ /\ started
        /\ opqueue = << >> => step = "READY"
        /\ opqueue' = Append(opqueue, a)
        /\ IF opqueue = << >>
           THEN /\ s2a' = SendAll(s2a, conns, Simple("STOP_ALL"))
                /\ step' = "WAITING_STOP_ACK"
           ELSE UNCHANGED <<s2a, step>>
        /\ UNCHANGED <<srvState, started, gid, counters, backlog, conns>>

(* msg_stopDone: grant the write once NProc processes are reported stopped. *)
SrvStopDone(a) ==
  LET n == Head(a2s[a]).nproc
  IN  /\ SrvReceive(a, "STOP_DONE")
      /\ \/ /\ \/ ~started
               \/ step # "WAITING_STOP_ACK"
               \/ AllStopped(n) /\ opqueue = << >>
            /\ SrvPanic
         \/ /\ started /\ step = "WAITING_STOP_ACK"
            /\ IF AllStopped(n)
               THEN /\ opqueue # << >>
                    /\ s2a' = Send(s2a, Head(opqueue), Simple("WRITE_OKAY"))
                    /\ step' = "WAITING_SYNC_INFO"
                    /\ nproc_stopped' = 0
               ELSE nproc_stopped' = nproc_stopped + n /\ UNCHANGED <<s2a, step>>
            /\ UNCHANGED <<srvState, started, gid, nproc_waiting,
                           nproc_synced, opqueue, backlog, conns>>

(* The body of msg_syncDone once the step is right: n more processes have  *)
(* the data.  A completed operation hands over to the next one, if any.    *)
FaultyStepAfter(queue) == "READY"                     \* Drops the hand-over.
StepAfter(queue) == IF queue = << >> THEN "READY" ELSE "WAITING_SYNC_INFO"

Synced(n) ==
  IF AllSynced(n)
  THEN /\ nproc_synced' = 0
       /\ opqueue' = Tail(opqueue)
       /\ step' = StepAfter(Tail(opqueue))
       /\ s2a' = IF Tail(opqueue) = << >>
                 THEN SendAll(s2a, conns, Simple("CONT_ALL"))
                 ELSE Send(s2a, Head(Tail(opqueue)), Simple("WRITE_OKAY"))
  ELSE /\ nproc_synced' = nproc_synced + n
       /\ step' = "WAITING_SYNC_ACK"
       /\ UNCHANGED <<opqueue, s2a>>

IsWriter(a) == opqueue # << >> /\ Head(opqueue) = a

(* msg_syncInfo: pass the data on to every arbiter, or, when there is only *)
(* one, count all the processes as updated and fall into msg_syncDone.     *)
SrvSyncInfo(a) ==
  /\ SrvReceive(a, "SYNC_INFO")
  /\ \/ /\ ~started \/ step # "WAITING_SYNC_INFO" \/ ~IsWriter(a)
        /\ SrvPanic
     \/ /\ started /\ step = "WAITING_SYNC_INFO" /\ IsWriter(a)
        /\ IF Cardinality(conns) = 1
           THEN Synced(NProc)
           ELSE /\ s2a' = SendAll(s2a, conns, Head(a2s[a]))
                /\ step' = "WAITING_SYNC_ACK"
                /\ UNCHANGED <<opqueue, nproc_synced>>
        /\ UNCHANGED <<srvState, started, gid, nproc_stopped, nproc_waiting,
                       backlog, conns>>

SrvSyncDone(a) ==
  /\ SrvReceive(a, "SYNC_DONE")
  /\ \/ /\ \/ ~started
           \/ step # "WAITING_SYNC_ACK"
           \/ AllSynced(Head(a2s[a]).nproc) /\ opqueue = << >>
        /\ SrvPanic
     \/ /\ started /\ step = "WAITING_SYNC_ACK"
        /\ AllSynced(Head(a2s[a]).nproc) => opqueue # << >>
        /\ Synced(Head(a2s[a]).nproc)
        /\ UNCHANGED <<srvState, started, gid, nproc_stopped, nproc_waiting,
                       backlog, conns>>

SrvWaitBarr(a) ==
  /\ SrvReceive(a, "WAIT_BARR")
  /\ \/ ~started /\ SrvPanic
     \/ /\ started
        /\ IF AllAtBarrier
           THEN /\ s2a' = SendAll(s2a, conns, Simple("WAIT_DONE"))
                /\ nproc_waiting' = 0
           ELSE nproc_waiting' = nproc_waiting + 1 /\ UNCHANGED s2a
        /\ UNCHANGED <<srvState, started, gid, writeVars, backlog, conns>>

(* msg_prgmDone: drop the arbiter; the last one to leave ends the server.  *)
SrvPrgmDone(a) ==
  /\ SrvReceive(a, "PRGM_DONE")
  /\ \/ ~started /\ SrvPanic
     \/ /\ started
        /\ conns' = conns \ {a}
        /\ srvState' = IF conns = {a} THEN "exited" ELSE "up"
        /\ UNCHANGED <<started, gid, nproc_waiting, writeVars, backlog, s2a>>

ServerStep(a) ==
  \/ SrvAccept(a)
  \/ SrvAddProc(a)
  \/ SrvSyncRequest(a)
  \/ SrvStopDone(a)
  \/ SrvSyncInfo(a)
  \/ SrvSyncDone(a)
  \/ SrvWaitBarr(a)
  \/ SrvPrgmDone(a)
=============================================================================
