----------------------------- MODULE DsmArbiter -----------------------------
(***************************************************************************)
(* The arbiter of a machine (dsm_arbiter.c): it relays its processes'      *)
(* requests to the server, freezes and resumes them with signals, and      *)
(* copies other machines' writes into the shared page of its own.          *)
(*                                                                         *)
(* Its main loop works in passes.  poll() marks the sockets that have      *)
(* something to read, and the pass then reads one message from each of     *)
(* them, the server's socket first (pollableSet->fds[1]), the processes'   *)
(* in the order they were accepted.                                        *)
(***************************************************************************)
EXTENDS DsmNet

VARIABLES arbState,     \* "up", "closing" (alive = 0), "exited", or "panic".
          arbStarted,   \* started.
          fds,          \* The processes in pollableSet, in order.
          pass,         \* The sockets the current pass has still to read.
          ptab,         \* The process table, here indexed by process.
          arbQueue      \* The operation queue (dsm_queue.c).

arbVars == <<arbState, arbStarted, fds, pass, ptab, arbQueue>>

NoGid  == -1
Entry  == [used : BOOLEAN, gid : Nat \cup {NoGid},
           is_stopped : BOOLEAN, is_waiting : BOOLEAN, is_queued : BOOLEAN]
Unused == [used |-> FALSE, gid |-> NoGid,
           is_stopped |-> FALSE, is_waiting |-> FALSE, is_queued |-> FALSE]

(* The processes registered with arbiter a, and whether p is one.          *)
Table(a) == {p \in Local(a) : ptab[p].used}

ArbiterTypeOK ==
  /\ arbState   \in [Arbiters -> {"up", "closing", "exited", "panic"}]
  /\ arbStarted \in [Arbiters -> BOOLEAN]
  /\ fds        \in [Arbiters -> Seq(Procs)]
  /\ pass       \in [Arbiters -> SUBSET (Procs \cup {Server})]
  /\ ptab       \in [Procs -> Entry]
  /\ arbQueue   \in [Arbiters -> Seq(Procs)]

ArbiterInit ==
  /\ arbState   = [a \in Arbiters |-> "up"]
  /\ arbStarted = [a \in Arbiters |-> FALSE]
  /\ fds        = [a \in Arbiters |-> << >>]
  /\ pass       = [a \in Arbiters |-> {}]
  /\ ptab       = [p \in Procs |-> Unused]
  /\ arbQueue   = [a \in Arbiters |-> << >>]

-----------------------------------------------------------------------------
(* The main loop.                                                          *)

Accepted(a) == {fds[a][i] : i \in DOMAIN fds[a]}
Slot(a, p)  == CHOOSE i \in DOMAIN fds[a] : fds[a][i] = p

(* The connections the listener has not accepted.                          *)
Pending(a) == {p \in Local(a) \ Accepted(a) : p2a[p] # << >>}

(* processConnection: accept p, unless the session has started.            *)
ArbAccept(a, p) ==
  /\ arbState[a] = "up" /\ pass[a] = {}
  /\ ~arbStarted[a]
  /\ p \in Pending(a)
  /\ fds' = [fds EXCEPT ![a] = Append(@, p)]
  /\ UNCHANGED <<arbState, arbStarted, pass, ptab, arbQueue, channels, signals, mem>>

(* poll(): a local message is readable as soon as it is sent; a message of *)
(* the server may still be on its way, so it need not be seen yet.  The    *)
(* listener, fds[0], comes first: a connection is accepted before a pass.  *)
FaultyReadable(a, fromServer) ==      \* Serves the server alone, if it can.
  IF fromServer THEN {Server} ELSE {p \in Accepted(a) : p2a[p] # << >>}

Readable(a, fromServer) == {p \in Accepted(a) : p2a[p] # << >>}
                           \cup (IF fromServer THEN {Server} ELSE {})

ArbPoll(a, fromServer) ==
  /\ arbState[a] = "up" /\ pass[a] = {}
  /\ arbStarted[a] \/ Pending(a) = {}
  /\ fromServer => s2a[a] # << >>
  /\ Readable(a, fromServer) # {}
  /\ pass' = [pass EXCEPT ![a] = Readable(a, fromServer)]
  /\ UNCHANGED <<arbState, arbStarted, fds, ptab, arbQueue, channels, signals, mem>>

(* processMessage: the next socket of the pass has a message of type t.    *)
FromServer(a, t) ==
  /\ arbState[a] = "up"
  /\ Server \in pass[a]
  /\ Waiting(s2a, a, t)
  /\ s2a' = Consume(s2a, a)

FromProcess(a, p, t) ==
  /\ arbState[a] = "up"
  /\ p \in pass[a] /\ Server \notin pass[a]
  /\ \A q \in pass[a] : Slot(a, p) <= Slot(a, q)
  /\ Waiting(p2a, p, t)
  /\ p2a' = Consume(p2a, p)

HasRead(a, x) == pass' = [pass EXCEPT ![a] = @ \ {x}]

ArbPanic(a) ==
  /\ arbState' = [arbState EXCEPT ![a] = "panic"]
  /\ UNCHANGED <<arbStarted, fds, pass, ptab, arbQueue, a2p, a2s, mem>>

(***************************************************************************)
(* signalProcess, called for the processes of S in table order: kill()     *)
(* fails on a pid that no longer exists, and the arbiter panics there.     *)
(***************************************************************************)
Signalled(a, S)  == {p \in S : \A q \in S \cap gone : Slot(a, p) < Slot(a, q)}
SignalFails(S)   == S \cap gone # {}

-----------------------------------------------------------------------------
(* Messages from a process.                                                *)

ArbAddProc(a, p) ==
  /\ FromProcess(a, p, "ADD_PROC")
  /\ \/ /\ arbStarted[a] \/ ptab[p].used
        /\ ArbPanic(a)
     \/ /\ ~arbStarted[a] /\ ~ptab[p].used
        /\ HasRead(a, p)
        /\ ptab' = [ptab EXCEPT ![p] = [Unused EXCEPT !.used = TRUE, !.is_waiting = TRUE]]
        /\ a2s' = Send(a2s, a, Head(p2a[p]))
        /\ UNCHANGED <<arbState, arbStarted, fds, arbQueue, a2p, mem>>
  /\ UNCHANGED <<s2a, signals>>

FaultyEnqueued(queue, p) == <<p>> \o queue              \* Last in, first out.
Enqueued(queue, p) == Append(queue, p)

ArbSyncRequest(a, p) ==
  /\ FromProcess(a, p, "SYNC_REQ")
  /\ HasRead(a, p)
  /\ arbQueue' = [arbQueue EXCEPT ![a] = Enqueued(@, p)]
  /\ ptab' = [ptab EXCEPT ![p].is_stopped = TRUE, ![p].is_queued = TRUE]
  /\ a2s' = Send(a2s, a, Simple("SYNC_REQ"))
  /\ UNCHANGED <<arbState, arbStarted, fds, a2p, s2a, signals, mem>>

(* msg_syncInfo, outbound: forward, then dequeue the head of the queue.    *)
ArbForwardSync(a, p) ==
  /\ FromProcess(a, p, "SYNC_INFO")
  /\ a2s' = Send(a2s, a, Head(p2a[p]))
  /\ \/ /\ arbQueue[a] = << >>
        /\ arbState' = [arbState EXCEPT ![a] = "panic"]
        /\ UNCHANGED <<pass, ptab, arbQueue>>
     \/ /\ arbQueue[a] # << >>
        /\ HasRead(a, p)
        /\ arbQueue' = [arbQueue EXCEPT ![a] = Tail(@)]
        /\ ptab' = [ptab EXCEPT ![p].is_queued = FALSE]
        /\ UNCHANGED arbState
  /\ UNCHANGED <<arbStarted, fds, a2p, s2a, signals, mem>>

ArbWaitBarr(a, p) ==
  /\ FromProcess(a, p, "WAIT_BARR")
  /\ HasRead(a, p)
  /\ ptab' = [ptab EXCEPT ![p].is_waiting = TRUE]
  /\ a2s' = Send(a2s, a, Head(p2a[p]))
  /\ UNCHANGED <<arbState, arbStarted, fds, arbQueue, a2p, s2a, signals, mem>>

(***************************************************************************)
(* msg_prgmDone: forget p.  dsm_removePollable shuffles the descriptors    *)
(* after p down by one, so the loop of the pass steps over the next one.   *)
(***************************************************************************)
ShuffledDown(s, k) == [i \in 1 .. Len(s) - 1 |-> IF i < k THEN s[i] ELSE s[i + 1]]
SteppedOver(a, p)  == {q \in Accepted(a) : Slot(a, q) = Slot(a, p) + 1}

ArbPrgmDone(a, p) ==
  /\ FromProcess(a, p, "PRGM_DONE")
  /\ pass' = [pass EXCEPT ![a] = (@ \ {p}) \ SteppedOver(a, p)]
  /\ fds'  = [fds EXCEPT ![a] = ShuffledDown(@, Slot(a, p))]
  /\ ptab' = [ptab EXCEPT ![p] = Unused]
  /\ arbState' = [arbState EXCEPT ![a] = IF Len(fds[a]) = 1 THEN "closing" ELSE @]
  /\ UNCHANGED <<arbStarted, arbQueue, a2p, a2s, s2a, signals, mem>>

-----------------------------------------------------------------------------
(* Messages from the server.                                               *)

ArbSetGid(a) ==
  LET m == Head(s2a[a])
  IN  /\ FromServer(a, "SET_GID")
      /\ \/ /\ arbStarted[a] \/ m.pid \notin Table(a)
            /\ ArbPanic(a)
         \/ /\ ~arbStarted[a] /\ m.pid \in Table(a)
            /\ HasRead(a, Server)
            /\ ptab' = [ptab EXCEPT ![m.pid].gid = m.gid]
            /\ a2p' = Send(a2p, m.pid, m)
            /\ UNCHANGED <<arbState, arbStarted, fds, arbQueue, a2s, mem>>
      /\ UNCHANGED <<p2a, signals>>

(* The number of processes an acknowledgement stands for: fp - 2.          *)
FaultyNLocal(a) == Len(fds[a]) - 2      \* Takes the two sockets off twice.
NLocal(a) == Len(fds[a])

(* msg_stopAll: freeze whoever is neither stopped nor at the barrier.      *)
ToStop(a)   == {p \in Table(a) : ~ptab[p].is_stopped}
FaultyToFreeze(a) == {p \in ToStop(a) : ptab[p].is_waiting}   \* Inverted test.
ToFreeze(a) == {p \in ToStop(a) : ~ptab[p].is_waiting}

ArbStopAll(a) ==
  /\ FromServer(a, "STOP_ALL")
  /\ KillTstp(Signalled(a, ToFreeze(a)))
  /\ \/ SignalFails(ToFreeze(a)) /\ ArbPanic(a)
     \/ /\ ~SignalFails(ToFreeze(a))
        /\ HasRead(a, Server)
        /\ ptab' = [p \in Procs |-> [ptab[p] EXCEPT !.is_stopped = @ \/ p \in ToStop(a)]]
        /\ a2s' = Send(a2s, a, Done("STOP_DONE", NLocal(a)))
        /\ UNCHANGED <<arbState, arbStarted, fds, arbQueue, a2p, mem>>
  /\ UNCHANGED p2a

(* msg_contAll: resume everyone but the queued writers; those at the       *)
(* barrier are only marked as no longer stopped.                           *)
FaultyToCont(a) ==                      \* Forgets those at the barrier.
  {p \in Table(a) : ~ptab[p].is_queued /\ ~ptab[p].is_waiting}
ToCont(a) == {p \in Table(a) : ~ptab[p].is_queued}
FaultyToWake(a) == ToCont(a)            \* Wakes those at the barrier too.
ToWake(a) == {p \in ToCont(a) : ~ptab[p].is_waiting}

ArbContAll(a) ==
  /\ FromServer(a, "CONT_ALL")
  /\ KillCont(Signalled(a, ToWake(a)))
  /\ \/ SignalFails(ToWake(a)) /\ ArbPanic(a)
     \/ /\ ~SignalFails(ToWake(a))
        /\ HasRead(a, Server)
        /\ ptab' = [p \in Procs |-> [ptab[p] EXCEPT !.is_stopped = @ /\ p \notin ToCont(a)]]
        /\ UNCHANGED <<arbState, arbStarted, fds, arbQueue, a2p, a2s, mem>>
  /\ UNCHANGED p2a

(* msg_waitDone: the first one starts the session, by message; every later *)
(* one releases a barrier, by signal.                                      *)
ToRelease(a) == {p \in Table(a) : arbStarted[a] /\ ~ptab[p].is_stopped}

ArbWaitDone(a) ==
  /\ FromServer(a, "WAIT_DONE")
  /\ KillCont(Signalled(a, ToRelease(a)))
  /\ \/ SignalFails(ToRelease(a)) /\ ArbPanic(a)
     \/ /\ ~SignalFails(ToRelease(a))
        /\ HasRead(a, Server)
        /\ ptab' = [p \in Procs |-> [ptab[p] EXCEPT !.is_waiting = @ /\ p \notin Table(a)]]
        /\ a2p' = IF arbStarted[a] THEN a2p
                  ELSE SendAll(a2p, Accepted(a), Simple("WAIT_DONE"))
        /\ arbStarted' = [arbStarted EXCEPT ![a] = TRUE]
        /\ UNCHANGED <<arbState, fds, arbQueue, a2s, mem>>
  /\ UNCHANGED p2a

(* msg_writeOkay: the grant goes to the head of the arbiter's own queue.   *)
FaultyGrantee(a) == {arbQueue[a][i] : i \in DOMAIN arbQueue[a]}   \* All queued.
Grantee(a) == {Head(arbQueue[a])}

ArbWriteOkay(a) ==
  /\ FromServer(a, "WRITE_OKAY")
  /\ \/ arbQueue[a] = << >> /\ ArbPanic(a)
     \/ /\ arbQueue[a] # << >>
        /\ HasRead(a, Server)
        /\ a2p' = SendAll(a2p, Grantee(a), Head(s2a[a]))
        /\ UNCHANGED <<arbState, arbStarted, fds, ptab, arbQueue, a2s, mem>>
  /\ UNCHANGED <<p2a, signals>>

(* msg_syncInfo, inbound: the data always goes to the start of the page,   *)
(* whatever offset the message carries.                                    *)
ArbApplySync(a) ==
  /\ FromServer(a, "SYNC_INFO")
  /\ HasRead(a, Server)
  /\ mem' = [mem EXCEPT ![a][0] = Head(s2a[a]).buf]
  /\ a2s' = Send(a2s, a, Done("SYNC_DONE", NLocal(a)))
  /\ UNCHANGED <<arbState, arbStarted, fds, ptab, arbQueue, p2a, a2p, signals>>

(* The end of arbiter(): no process is left, so disconnect and exit.       *)
ArbExit(a) ==
  /\ arbState[a] = "closing"
  /\ a2s' = Send(a2s, a, Simple("PRGM_DONE"))
  /\ arbState' = [arbState EXCEPT ![a] = "exited"]
  /\ UNCHANGED <<arbStarted, fds, pass, ptab, arbQueue, p2a, a2p, s2a, signals, mem>>

FromServerStep(a) ==
  \/ ArbSetGid(a)
  \/ ArbStopAll(a)
  \/ ArbContAll(a)
  \/ ArbWaitDone(a)
  \/ ArbWriteOkay(a)
  \/ ArbApplySync(a)

FromProcessStep(a, p) ==
  \/ ArbAddProc(a, p)
  \/ ArbSyncRequest(a, p)
  \/ ArbForwardSync(a, p)
  \/ ArbWaitBarr(a, p)
  \/ ArbPrgmDone(a, p)

ArbiterStep(a) ==
  \/ \E p \in Procs : ArbAccept(a, p) \/ FromProcessStep(a, p)
  \/ \E fromServer \in BOOLEAN : ArbPoll(a, fromServer)
  \/ FromServerStep(a)
  \/ ArbExit(a)
=============================================================================
