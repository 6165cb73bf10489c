--------------------------- MODULE DsmWriterProofs ---------------------------
(***************************************************************************)
(* A writer has the session to itself, for any number of machines and      *)
(* processes, any programs, and with processes leaving or dying.           *)
(*                                                                         *)
(* A write is bracketed by two broadcasts: the server sends MSG_STOP_ALL   *)
(* and counts the processes that the arbiters answer to have stopped, and  *)
(* sends MSG_CONT_ALL when the last queued write is done.  The proof has   *)
(* four parts.                                                             *)
(*                                                                         *)
(* 1. StartInv, EnrolInv: before a machine is started its processes are in *)
(*    dsm_init, and afterwards its poll set and its table agree.           *)
(* 2. StopInv: the round of freezes is a barrier with a count, like the    *)
(*    round of updates of DsmSessionProofs.  The count reaches NProc only  *)
(*    when every arbiter has answered for every process (Whole): a process *)
(*    that left is missing from every later round, and no later round can  *)
(*    be complete.                                                         *)
(* 3. Settled: what holds of a started session while the rounds are Whole. *)
(*    A machine that was frozen is held until it reads the resume          *)
(*    (HoldInv).  The two ways in which a process could slip away are the  *)
(*    hard part: the release of a barrier is the same SIGCONT as the       *)
(*    resume, so the announcement of a barrier must have been read by the  *)
(*    arbiter before the resume is (FlushInv, by the order in which a pass *)
(*    serves its sockets), and a release must find nobody stopped          *)
(*    (BarrierInv, by counting the announcements on their way).            *)
(* 4. While a grant is out the step is WAITING_SYNC_INFO, no freeze is on  *)
(*    its way, so every machine is halted and its processes held.          *)
(***************************************************************************)
EXTENDS DsmSessionProofs

-----------------------------------------------------------------------------
(***************************************************************************)
(* The kinds of step, with the losses of a peer as the breakdowns they are. *)
(***************************************************************************)
Breaks == /\ srvState' \in {srvState, "panic"}
          /\ UNCHANGED <<started, gid, nproc_waiting, writeVars, backlog, conns>>
          /\ UNCHANGED <<arbStarted, fds, pass, ptab, arbQueue, procVars, netVars>>
          /\ \A b \in Arbiters : \/ arbState'[b] = arbState[b]
                                 \/ arbState[b] = "up" /\ arbState'[b] = "panic"

(* Every step of the session is of one of these kinds.                     *)
LEMMA StepKinds ==
  ASSUME TypeOK, [Next]_vars
  PROVE  \/ \E a \in Arbiters : /\ ServerStep(a)
                                /\ UNCHANGED <<arbVars, procVars, p2a, a2p, signals, mem>>
         \/ \E a \in Arbiters : ArbiterStep(a) /\ UNCHANGED <<serverVars, procVars>>
         \/ \E p \in Procs : /\ ProcessStep(p) \/ ProcKilled(p)
                             /\ UNCHANGED <<serverVars, arbVars, a2s, s2a>>
         \/ \E p \in Procs : ProcessLosesArbiter(p)
         \/ Breaks
<1>0. arbState \in [Arbiters -> {"up", "closing", "exited", "panic"}]
  BY DEF TypeOK, ArbiterTypeOK
<1>1. ASSUME NEW a \in Arbiters, ServerLosesArbiter(a) PROVE Breaks
  BY <1>1 DEF ServerLosesArbiter, Breaks, arbVars
<1>2. ASSUME NEW a \in Arbiters, ArbiterLosesServer(a) \/ \E p \in Procs : ArbiterLosesProcess(a, p)
      PROVE  Breaks
  BY <1>0, <1>2 DEF ArbiterLosesServer, ArbiterLosesProcess, Breaks, serverVars
<1>3. UNCHANGED vars => Breaks
  BY DEF vars, Breaks, serverVars, arbVars
<1>4. CASE \E a \in Arbiters : ServerActs(a)
  BY <1>1, <1>4 DEF ServerActs
<1>5. CASE \E a \in Arbiters : ArbiterActs(a)
  BY <1>2, <1>5 DEF ArbiterActs
<1>6. CASE (\E p \in Procs : ProcessActs(p)) \/ (\E p \in Killable : Kill(p))
  BY <1>6, KillableAssumption DEF ProcessActs, Kill
<1> QED BY <1>3, <1>4, <1>5, <1>6 DEF Next

(* What an arbiter does stays on its machine.                              *)
SameMachine(b) ==
  /\ arbState'[b] = arbState[b] /\ arbStarted'[b] = arbStarted[b] /\ fds'[b] = fds[b]
  /\ pass'[b] = pass[b] /\ arbQueue'[b] = arbQueue[b]
  /\ s2a'[b] = s2a[b] /\ a2s'[b] = a2s[b]
SameProcess(q) ==
  /\ susp'[q] = susp[q] /\ tstp'[q] = tstp[q] /\ p2a'[q] = p2a[q] /\ a2p'[q] = a2p[q]
  /\ ptab'[q] = ptab[q]

(* An arbiter reads and changes nothing of another machine.                *)
LEMMA ArbiterIsLocal ==
  ASSUME TypeOK, PlaceInv, NEW a \in Arbiters, ArbiterStep(a)
  PROVE  /\ \A b \in Arbiters : b # a => SameMachine(b)
         /\ \A q \in Procs : Home[q] # a => SameProcess(q)
<1>0. /\ a2s \in [Arbiters -> Seq(Message)] /\ s2a \in [Arbiters -> Seq(Message)]
      /\ p2a \in [Procs -> Seq(Message)] /\ a2p \in [Procs -> Seq(Message)]
      /\ susp \in [Procs -> BOOLEAN] /\ tstp \in [Procs -> BOOLEAN]
      /\ arbState \in [Arbiters -> {"up", "closing", "exited", "panic"}]
      /\ arbStarted \in [Arbiters -> BOOLEAN] /\ fds \in [Arbiters -> Seq(Procs)]
      /\ pass \in [Arbiters -> SUBSET (Procs \cup {Server})]
      /\ ptab \in [Procs -> Entry] /\ arbQueue \in [Arbiters -> Seq(Procs)]
  BY DEF TypeOK, NetTypeOK, ArbiterTypeOK
<1>q. /\ fds[a] \in Seq(Local(a)) /\ pass[a] \subseteq Local(a) \cup {Server} /\ arbQueue[a] \in Seq(Local(a))
  BY DEF PlaceInv
<1>1. ASSUME NEW p \in Procs, ArbAccept(a, p)
      PROVE  /\ \A b \in Arbiters : b # a => SameMachine(b)
             /\ \A q \in Procs : Home[q] # a => SameProcess(q)
  BY <1>0, <1>1 DEF ArbAccept, SameMachine, SameProcess, channels, signals
<1>2. ASSUME NEW f \in BOOLEAN, ArbPoll(a, f)
      PROVE  /\ \A b \in Arbiters : b # a => SameMachine(b)
             /\ \A q \in Procs : Home[q] # a => SameProcess(q)
  BY <1>0, <1>2 DEF ArbPoll, SameMachine, SameProcess, channels, signals
<1>3. ASSUME NEW p \in Procs, FromProcessStep(a, p)
      PROVE  /\ \A b \in Arbiters : b # a => SameMachine(b)
             /\ \A q \in Procs : Home[q] # a => SameProcess(q)
  <2>1. Home[p] = a /\ p2a' = Consume(p2a, p) /\ UNCHANGED <<s2a, a2p, signals, arbStarted>>
    <3>1. p \in pass[a]
      BY <1>3 DEF FromProcessStep, ArbAddProc, ArbSyncRequest, ArbForwardSync,
                  ArbWaitBarr, ArbPrgmDone, FromProcess
    <3> QED BY <1>3, <3>1, ReaderIsLocal
         DEF FromProcessStep, ArbAddProc, ArbSyncRequest, ArbForwardSync, ArbPanic,
             ArbWaitBarr, ArbPrgmDone, FromProcess
  <2>2. \A q \in Procs : q # p => p2a'[q] = p2a[q]
    BY <1>0, <2>1 DEF Consume
  <2>3. CASE ArbAddProc(a, p)
    BY <1>0, <2>1, <2>2, <2>3 DEF ArbAddProc, ArbPanic, HasRead, Send, SameMachine, SameProcess, signals
  <2>4. CASE ArbSyncRequest(a, p)
    BY <1>0, <2>1, <2>2, <2>4 DEF ArbSyncRequest, HasRead, Send, SameMachine, SameProcess, signals
  <2>5. CASE ArbForwardSync(a, p)
    BY <1>0, <2>1, <2>2, <2>5 DEF ArbForwardSync, HasRead, Send, SameMachine, SameProcess, signals
  <2>6. CASE ArbWaitBarr(a, p)
    BY <1>0, <2>1, <2>2, <2>6 DEF ArbWaitBarr, HasRead, Send, SameMachine, SameProcess, signals
  <2>7. CASE ArbPrgmDone(a, p)
    BY <1>0, <2>1, <2>2, <2>7 DEF ArbPrgmDone, SameMachine, SameProcess, signals
  <2> QED BY <1>3, <2>3, <2>4, <2>5, <2>6, <2>7 DEF FromProcessStep
<1>4. ASSUME NEW S, \A q \in S : q \in Procs /\ Home[q] = a, KillTstp(S) \/ KillCont(S) \/ UNCHANGED signals
      PROVE  \A q \in Procs : Home[q] # a => susp'[q] = susp[q] /\ tstp'[q] = tstp[q]
  BY <1>0, <1>4 DEF KillTstp, KillCont, signals
<1>5. ASSUME FromServerStep(a)
      PROVE  /\ \A b \in Arbiters : b # a => SameMachine(b)
             /\ \A q \in Procs : Home[q] # a => SameProcess(q)
  <2>1. UNCHANGED p2a /\ s2a' = Consume(s2a, a)
    BY <1>5 DEF FromServerStep, ArbSetGid, ArbStopAll, ArbContAll, ArbWaitDone, ArbWriteOkay,
                ArbApplySync, FromServer
  <2>2. \A b \in Arbiters : b # a => s2a'[b] = s2a[b]
    BY <1>0, <2>1 DEF Consume
  <2>3. \A q \in Procs : Home[q] # a => susp'[q] = susp[q] /\ tstp'[q] = tstp[q]
    <3>1. CASE ArbStopAll(a)
      BY <1>4, <3>1 DEF ArbStopAll, Signalled, ToFreeze, ToStop, Table, Local
    <3>2. CASE ArbContAll(a)
      BY <1>4, <3>2 DEF ArbContAll, Signalled, ToWake, ToCont, Table, Local
    <3>3. CASE ArbWaitDone(a)
      BY <1>4, <3>3 DEF ArbWaitDone, Signalled, ToRelease, Table, Local
    <3>4. CASE UNCHANGED signals
      BY <3>4 DEF signals
    <3> QED BY <1>5, <3>1, <3>2, <3>3, <3>4
         DEF FromServerStep, ArbSetGid, ArbWriteOkay, ArbApplySync
  <2>4. /\ \A b \in Arbiters : b # a =>
             /\ arbState'[b] = arbState[b] /\ arbStarted'[b] = arbStarted[b] /\ fds'[b] = fds[b]
             /\ pass'[b] = pass[b] /\ arbQueue'[b] = arbQueue[b] /\ a2s'[b] = a2s[b]
        /\ \A q \in Procs : Home[q] # a => a2p'[q] = a2p[q] /\ ptab'[q] = ptab[q]
    <3>1. CASE ArbSetGid(a)
      <4>1. Head(s2a[a]).pid \in Table(a) => Home[Head(s2a[a]).pid] = a
        BY DEF Table, Local
      <4> QED BY <1>0, <3>1, <4>1 DEF ArbSetGid, ArbPanic, HasRead, Send
    <3>2. CASE ArbStopAll(a)
      <4>1. \A q \in Procs : Home[q] # a => q \notin ToStop(a)
        BY DEF ToStop, Table, Local
      <4>2. \A q \in Procs : Home[q] # a /\ ~SignalFails(ToFreeze(a)) => ptab'[q] = ptab[q]
        <5> TAKE q \in Procs
        <5>1. ptab[q] \in Entry
          BY <1>0
        <5> QED BY <3>2, <4>1, <5>1 DEF ArbStopAll, Entry
      <4> QED BY <1>0, <3>2, <4>2 DEF ArbStopAll, ArbPanic, HasRead, Send
    <3>3. CASE ArbContAll(a)
      <4>1. \A q \in Procs : Home[q] # a => q \notin ToCont(a)
        BY DEF ToCont, Table, Local
      <4>2. \A q \in Procs : Home[q] # a /\ ~SignalFails(ToWake(a)) => ptab'[q] = ptab[q]
        <5> TAKE q \in Procs
        <5>1. ptab[q] \in Entry
          BY <1>0
        <5> QED BY <3>3, <4>1, <5>1 DEF ArbContAll, Entry
      <4> QED BY <1>0, <3>3, <4>2 DEF ArbContAll, ArbPanic, HasRead
    <3>4. CASE ArbWaitDone(a)
      <4>1. \A q \in Procs : Home[q] # a => q \notin Table(a) /\ q \notin Accepted(a)
        BY <1>q DEF Table, Local, Accepted
      <4>2. \A q \in Procs : Home[q] # a /\ ~SignalFails(ToRelease(a)) => ptab'[q] = ptab[q] /\ a2p'[q] = a2p[q]
        <5> TAKE q \in Procs
        <5>1. ptab[q] \in Entry
          BY <1>0
        <5>2. ~SignalFails(ToRelease(a)) => ptab'[q] = [ptab[q] EXCEPT !.is_waiting = @ /\ q \notin Table(a)]
          BY <3>4 DEF ArbWaitDone
        <5>3. ~SignalFails(ToRelease(a)) /\ Home[q] # a => ptab'[q] = ptab[q]
          BY <4>1, <5>1, <5>2 DEF Entry
        <5>4. ~SignalFails(ToRelease(a)) /\ Home[q] # a => a2p'[q] = a2p[q]
          BY <1>0, <3>4, <4>1 DEF ArbWaitDone, SendAll
        <5> QED BY <5>3, <5>4
      <4> QED BY <1>0, <3>4, <4>2 DEF ArbWaitDone, ArbPanic, HasRead
    <3>5. CASE ArbWriteOkay(a)
      <4>1. arbQueue[a] # << >> => \A q \in Procs : Home[q] # a => q \notin Grantee(a)
        BY <1>q DEF Grantee, Local
      <4> QED BY <1>0, <3>5, <4>1 DEF ArbWriteOkay, ArbPanic, HasRead, SendAll
    <3>6. CASE ArbApplySync(a)
      BY <1>0, <3>6 DEF ArbApplySync, HasRead, Send
    <3> QED BY <1>5, <3>1, <3>2, <3>3, <3>4, <3>5, <3>6 DEF FromServerStep
  <2> QED BY <2>1, <2>2, <2>3, <2>4 DEF SameMachine, SameProcess
<1>6. CASE ArbExit(a)
  BY <1>0, <1>6 DEF ArbExit, SameMachine, SameProcess, Send, signals
<1> QED BY <1>1, <1>2, <1>3, <1>5, <1>6 DEF ArbiterStep

(* What a process does is one of six things, and touches nobody else.      *)
Talks == {<<"connect", "ADD_PROC", "recv_gid">>, <<"user", "SYNC_REQ", "takeAccess">>,
          <<"sigill", "SYNC_INFO", "dropAccess">>, <<"user", "WAIT_BARR", "barrier">>,
          <<"user", "PRGM_DONE", "exited">>}

Says(p) == /\ ~susp[p] /\ UNCHANGED <<a2p, susp, tstp>>
           /\ \E m \in Message : /\ p2a'[p] = Append(p2a[p], m)
                                 /\ <<loc[p], m.type, loc'[p]>> \in Talks
Hears(p) == /\ Running(p) /\ a2p[p] # << >> /\ a2p'[p] = Tail(a2p[p])
            /\ UNCHANGED <<p2a, susp, tstp>>
            /\ \/ loc[p] = "recv_gid" /\ loc'[p] \in {"recv_waitDone", "panic"}
               \/ loc[p] = "recv_waitDone" /\ loc'[p] = IF Head(a2p[p]).type = "WAIT_DONE" THEN "user" ELSE "panic"
               \/ loc[p] = "takeAccess" /\ loc'[p] = IF Head(a2p[p]).type = "WRITE_OKAY" THEN "store" ELSE "panic"
Shifts(p) == /\ UNCHANGED <<p2a, a2p, susp, tstp>>
             /\ \/ loc[p] = "store" /\ loc'[p] = "sigill"
                \/ loc[p] = "exited" /\ loc'[p] = "reaped"
                \/ loc[p] \notin {"connect", "exited", "reaped", "killed", "panic"} /\ loc'[p] = "killed"
Halts(p) == /\ UNCHANGED <<p2a, a2p, tstp>> /\ susp'[p] /\ ~tstp[p] /\ ~susp[p]
            /\ loc[p] \in {"dropAccess", "barrier"} /\ loc'[p] = "user"
Delivers(p) == UNCHANGED <<p2a, a2p, loc>> /\ tstp[p] /\ susp'[p]

(* A process's step, seen as one of the six.                               *)
LEMMA ProcessMoves ==
  ASSUME TypeInv, NEW p \in Procs, ProcessStep(p) \/ ProcKilled(p), UNCHANGED ptab
  PROVE  /\ \A q \in Procs : q # p => loc'[q] = loc[q] /\ SameProcess(q)
         /\ Says(p) \/ Hears(p) \/ Shifts(p) \/ Halts(p) \/ Delivers(p)
<1>0. /\ p2a \in [Procs -> Seq(Message)] /\ a2p \in [Procs -> Seq(Message)]
      /\ susp \in [Procs -> BOOLEAN] /\ tstp \in [Procs -> BOOLEAN]
      /\ loc \in [Procs -> Locations] /\ todo \in [Procs -> Seq(Op)]
      /\ mem \in [Arbiters -> [Offsets -> Values]]
  BY DEF TypeInv, TypeOK, NetTypeOK, ProcessTypeOK
<1> DEFINE Alone == \A q \in Procs : q # p => loc'[q] = loc[q] /\ SameProcess(q)
<1>1. ASSUME NEW m \in Message, SendToArbiter(p, m), NEW l, Goto(p, l), UNCHANGED <<a2p, signals>>,
             <<loc[p], m.type, l>> \in Talks
      PROVE  Alone /\ Says(p)
  <2>1. p2a'[p] = Append(p2a[p], m) /\ loc'[p] = l /\ ~susp[p] /\ UNCHANGED <<a2p, susp, tstp>>
    BY <1>0, <1>1 DEF SendToArbiter, Send, Goto, signals
  <2>2. Says(p)
    BY <1>1, <2>1 DEF Says
  <2>3. Alone
    BY <1>0, <1>1 DEF SendToArbiter, Send, Goto, signals, SameProcess
  <2> QED BY <2>2, <2>3
<1>2. ASSUME NEW l, Receive(p, l), Goto(p, loc'[p]), UNCHANGED <<p2a, signals>>
      PROVE  Alone /\ Running(p) /\ a2p[p] # << >> /\ a2p'[p] = Tail(a2p[p]) /\ UNCHANGED <<p2a, susp, tstp>>
  BY <1>0, <1>2 DEF Receive, Consume, Goto, signals, SameProcess
<1>3. CASE ProcConnect(p)
  <2>1. AddProc(p) \in Message /\ AddProc(p).type = "ADD_PROC"
    BY MessageTypes DEF AddProc
  <2> QED BY <1>1, <1>3, <2>1 DEF ProcConnect, Talks
<1>4. CASE ProcRecvGid(p)
  <2>1. /\ Receive(p, "recv_gid") /\ UNCHANGED <<p2a, signals>>
        /\ Goto(p, loc'[p]) /\ loc[p] = "recv_gid" /\ loc'[p] \in {"recv_waitDone", "panic"}
    BY <1>0, <1>4 DEF ProcRecvGid, Receive, Goto
  <2> QED BY <1>2, <2>1 DEF Hears
<1>5. CASE ProcRecvWaitDone(p)
  <2>1. /\ Receive(p, "recv_waitDone") /\ UNCHANGED <<p2a, signals>>
        /\ Goto(p, loc'[p]) /\ loc[p] = "recv_waitDone"
        /\ loc'[p] = IF Head(a2p[p]).type = "WAIT_DONE" THEN "user" ELSE "panic"
    BY <1>0, <1>5 DEF ProcRecvWaitDone, Receive, Goto
  <2> QED BY <1>2, <2>1 DEF Hears
<1>6. CASE ProcGranted(p)
  <2>1. /\ Receive(p, "takeAccess") /\ UNCHANGED <<p2a, signals>>
        /\ Goto(p, loc'[p]) /\ loc[p] = "takeAccess"
        /\ loc'[p] = IF Head(a2p[p]).type = "WRITE_OKAY" THEN "store" ELSE "panic"
    BY <1>0, <1>6 DEF ProcGranted, Receive, Goto
  <2> QED BY <1>2, <2>1 DEF Hears
<1>7. \A t \in SimpleTypes : Simple(t) \in Message /\ Simple(t).type = t
  BY MessageTypes DEF Simple
<1>8. CASE ProcRequest(p)
  <2>1. loc[p] = "user" /\ "SYNC_REQ" \in SimpleTypes
    BY <1>8 DEF ProcRequest, Calls, SimpleTypes
  <2> QED BY <1>1, <1>7, <1>8, <2>1 DEF ProcRequest, Talks
<1>9. CASE ProcBarrier(p)
  <2>1. loc[p] = "user" /\ "WAIT_BARR" \in SimpleTypes
    BY <1>9 DEF ProcBarrier, Calls, SimpleTypes
  <2> QED BY <1>1, <1>7, <1>9, <2>1 DEF ProcBarrier, Talks
<1>10. CASE ProcExit(p)
  <2>1. loc[p] = "user" /\ "PRGM_DONE" \in SimpleTypes
    BY <1>10 DEF ProcExit, Calls, SimpleTypes
  <2> QED BY <1>1, <1>7, <1>10, <2>1 DEF ProcExit, Talks
<1>11. CASE ProcSigill(p)
  <2>1. todo[p] # << >> /\ Head(todo[p]).op = "write" /\ Head(todo[p]) \in Op
    BY <1>0, <1>11, SeqTypes DEF ProcSigill, TypeInv, StoreInv
  <2>2. Head(todo[p]).off \in Offsets
    BY <2>1 DEF Op
  <2>3. PICK m : m = SyncInfo(Head(todo[p]).off, mem[Home[p]][Head(todo[p]).off])
    OBVIOUS
  <2>4. m \in Message /\ m.type = "SYNC_INFO"
    <3>1. mem[Home[p]][Head(todo[p]).off] \in Values
      BY <1>0, <2>2, HomeAssumption
    <3> QED BY <2>2, <2>3, <3>1, MessageTypes DEF SyncInfo
  <2>5. SendToArbiter(p, m) /\ Goto(p, "dropAccess") /\ UNCHANGED <<a2p, signals>> /\ loc[p] = "sigill"
    BY <1>11, <2>3 DEF ProcSigill
  <2> QED BY <1>1, <2>4, <2>5 DEF Talks
<1>12. CASE ProcStore(p) \/ ProcReap(p) \/ ProcKilled(p)
  <2>1. Shifts(p)
    BY <1>0, <1>12 DEF ProcStore, ProcReap, ProcKilled, Goto, Shifts, signals
  <2>2. Alone
    BY <1>0, <1>12 DEF ProcStore, ProcReap, ProcKilled, Goto, SameProcess, signals
  <2> QED BY <2>1, <2>2
<1>13. CASE ProcSelfStop(p)
  BY <1>0, <1>13 DEF ProcSelfStop, Goto, Running, Halts, SameProcess
<1>14. CASE DeliverTstp(p)
  BY <1>0, <1>14 DEF DeliverTstp, Delivers, SameProcess, procVars
<1> QED BY <1>3, <1>4, <1>5, <1>6, <1>8, <1>9, <1>10, <1>11, <1>12, <1>13, <1>14 DEF ProcessStep

-----------------------------------------------------------------------------
(***************************************************************************)
(* The order of the messages in a channel.                                 *)
(***************************************************************************)
(* Every message of a type in T has one of a type in S before it.          *)
Preceded(s, T, S) ==
  \A j \in DOMAIN s : s[j].type \in T => \E i \in DOMAIN s : i < j /\ s[i].type \in S
(* Every message of a type in T has one of a type in S behind it.          *)
Followed(s, T, S) ==
  \A j \in DOMAIN s : s[j].type \in T => \E i \in DOMAIN s : j < i /\ s[i].type \in S
(* No message of type u is behind one of type t.                           *)
NoneBehind(s, t, u) == \A i, j \in DOMAIN s : s[i].type = t /\ s[j].type = u => j < i

(* A message that is sent goes behind everything that is there.            *)
LEMMA OrderAppend ==
  ASSUME NEW s \in Seq(Message), NEW m \in Message
  PROVE  /\ \A T, S : Preceded(s, T, S) /\ (m.type \in T => \E i \in DOMAIN s : s[i].type \in S)
                        => Preceded(Append(s, m), T, S)
         /\ \A T, S : Followed(s, T, S) /\ m.type \notin T => Followed(Append(s, m), T, S)
         /\ \A T, S : m.type \in S /\ m.type \notin T => Followed(Append(s, m), T, S)
         /\ \A t, u : NoneBehind(s, t, u) /\ t # u /\ (m.type = u => \A i \in DOMAIN s : s[i].type # t)
                        => NoneBehind(Append(s, m), t, u)
<1>1. /\ DOMAIN s = 1 .. Len(s) /\ DOMAIN Append(s, m) = 1 .. Len(s) + 1 /\ Len(s) \in Nat
      /\ \A i \in DOMAIN s : Append(s, m)[i] = s[i]
      /\ Append(s, m)[Len(s) + 1] = m
  BY AppendPlaces
<1>2. \A T, S : Preceded(s, T, S) /\ (m.type \in T => \E i \in DOMAIN s : s[i].type \in S)
                  => Preceded(Append(s, m), T, S)
  BY <1>1 DEF Preceded
<1>3. \A T, S : Followed(s, T, S) /\ m.type \notin T => Followed(Append(s, m), T, S)
  BY <1>1 DEF Followed
<1>4. \A T, S : m.type \in S /\ m.type \notin T => Followed(Append(s, m), T, S)
  BY <1>1 DEF Followed
<1>5. \A t, u : NoneBehind(s, t, u) /\ t # u /\ (m.type = u => \A i \in DOMAIN s : s[i].type # t)
                  => NoneBehind(Append(s, m), t, u)
  BY <1>1 DEF NoneBehind
<1> QED BY <1>2, <1>3, <1>4, <1>5

(* The message that is read is the first one.                              *)
LEMMA OrderTail ==
  ASSUME NEW s \in Seq(Message), s # << >>
  PROVE  /\ \A T, S : Preceded(s, T, S) => Head(s).type \notin T
         /\ \A T, S : Preceded(s, T, S) /\ Head(s).type \notin S => Preceded(Tail(s), T, S)
         /\ \A T, S : Followed(s, T, S) => Followed(Tail(s), T, S)
         /\ \A t, u : NoneBehind(s, t, u) => NoneBehind(Tail(s), t, u)
<1>1. /\ DOMAIN s = 1 .. Len(s) /\ Len(s) \in Nat \ {0}
      /\ DOMAIN Tail(s) = 1 .. Len(s) - 1
      /\ \A i \in DOMAIN Tail(s) : i + 1 \in DOMAIN s /\ Tail(s)[i] = s[i + 1]
      /\ Head(s) = s[1]
  BY TailPlaces
<1>2. \A T, S : Preceded(s, T, S) => Head(s).type \notin T
  BY <1>1 DEF Preceded
<1>3. ASSUME NEW T, NEW S, Preceded(s, T, S), Head(s).type \notin S PROVE Preceded(Tail(s), T, S)
  <2> SUFFICES ASSUME NEW j \in DOMAIN Tail(s), Tail(s)[j].type \in T
               PROVE  \E i \in DOMAIN Tail(s) : i < j /\ Tail(s)[i].type \in S
    BY DEF Preceded
  <2>1. PICK i \in DOMAIN s : i < j + 1 /\ s[i].type \in S
    BY <1>1, <1>3 DEF Preceded
  <2>2. i # 1
    BY <1>1, <1>3, <2>1
  <2>3. i - 1 \in DOMAIN Tail(s) /\ Tail(s)[i - 1] = s[i] /\ i - 1 < j
    BY <1>1, <2>1, <2>2
  <2> QED BY <2>1, <2>3
<1>4. ASSUME NEW T, NEW S, Followed(s, T, S) PROVE Followed(Tail(s), T, S)
  <2> SUFFICES ASSUME NEW j \in DOMAIN Tail(s), Tail(s)[j].type \in T
               PROVE  \E i \in DOMAIN Tail(s) : j < i /\ Tail(s)[i].type \in S
    BY DEF Followed
  <2>1. PICK i \in DOMAIN s : j + 1 < i /\ s[i].type \in S
    BY <1>1, <1>4 DEF Followed
  <2>2. i - 1 \in DOMAIN Tail(s) /\ Tail(s)[i - 1] = s[i] /\ j < i - 1
    BY <1>1, <2>1
  <2> QED BY <2>1, <2>2
<1>5. ASSUME NEW t, NEW u, NoneBehind(s, t, u) PROVE NoneBehind(Tail(s), t, u)
  BY <1>1, <1>5 DEF NoneBehind
<1> QED BY <1>2, <1>3, <1>4, <1>5

-----------------------------------------------------------------------------
(***************************************************************************)
(* A machine whose arbiter has not started: its processes are in dsm_init, *)
(* and what the server sends comes behind the WAIT_DONE that starts it.    *)
(***************************************************************************)
Orders == {"STOP_ALL", "CONT_ALL", "WRITE_OKAY", "SYNC_INFO"}

Starting(q) == /\ loc[q] \in {"connect", "recv_gid", "recv_waitDone", "killed", "panic"}
               /\ ~ptab[q].is_stopped /\ ~ptab[q].is_queued
               /\ ~Has(a2p, q, "WAIT_DONE")
               /\ \A i \in DOMAIN p2a[q] : p2a[q][i].type = "ADD_PROC"

StartInv ==
  /\ \A q \in Procs : ~arbStarted[Home[q]] => Starting(q)
  /\ \A a \in Arbiters : ~arbStarted[a] =>
       /\ arbState[a] \in {"up", "panic"} /\ arbQueue[a] = << >>
       /\ Preceded(s2a[a], Orders, {"WAIT_DONE"})
       /\ started => Has(s2a, a, "WAIT_DONE")
  /\ ~started => \A a \in Arbiters : ~arbStarted[a] /\ ~Has(a2s, a, "WAIT_BARR")

(* Nobody has joined, and nothing has been sent.                           *)
LEMMA StartInit == Init => StartInv
  BY HomeAssumption DEF Init, ServerInit, ArbiterInit, ProcessInit, NetInit, StartInv, Starting, Has, Preceded, Unused

(* The server sends orders only once it has started the session.           *)
LEMMA ServerOrders ==
  ASSUME TypeOK, NEW a \in Arbiters, ServerStep(a)
  PROVE  /\ \A b \in Arbiters : Has(a2s', b, "WAIT_BARR") => Has(a2s, b, "WAIT_BARR")
         /\ started => started'
         /\ started => \E S : \E x \in Message : s2a' = SendAll(s2a, S, x)
         /\ ~started => \/ ~started' /\ \E S : \E x \in Message : s2a' = SendAll(s2a, S, x) /\ x.type \notin Orders
                        \/ /\ started' /\ UNCHANGED <<backlog, conns>>
                           /\ \E x \in Message : /\ x.type \notin Orders
                                /\ s2a' = SendAll(Send(s2a, a, x), conns, Simple("WAIT_DONE"))
<1>0. /\ a2s \in [Arbiters -> Seq(Message)] /\ s2a \in [Arbiters -> Seq(Message)] /\ gid \in Nat
      /\ started \in BOOLEAN
  BY DEF TypeOK, NetTypeOK, ServerTypeOK
<1>1. \A b \in Arbiters : Has(a2s', b, "WAIT_BARR") => Has(a2s, b, "WAIT_BARR")
  <2>1. \/ UNCHANGED a2s
        \/ a2s[a] # << >> /\ a2s' = Consume(a2s, a)
    BY ServerEffect
  <2>2. a2s[a] # << >> => \A b \in Arbiters : Has(Consume(a2s, a), b, "WAIT_BARR") => Has(a2s, b, "WAIT_BARR")
    BY <1>0, ConsumeHas
  <2> QED BY <2>1, <2>2
<1>2. CASE Registers(a)
  <2>1. ~started /\ SrvAddProc(a)
    BY <1>2 DEF Registers
  <2>2. PICK x \in Message : x = SetGid(Head(a2s[a]).pid, gid) /\ x.type \notin Orders
    <3>1. Head(a2s[a]) \in Message /\ Head(a2s[a]).type = "ADD_PROC"
      BY <1>0, <2>1, ChannelTypes DEF SrvAddProc, SrvReceive, Waiting
    <3>2. SetGid(Head(a2s[a]).pid, gid) \in Message
      BY <1>0, <3>1, PayloadTypes, MessageTypes
    <3> QED BY <3>2 DEF SetGid, Orders
  <2>3. CASE AllRegistered
    BY <1>1, <2>1, <2>2, <2>3 DEF SrvAddProc
  <2>4. CASE ~AllRegistered
    <3>1. s2a' = Send(s2a, a, x) /\ ~started'
      BY <2>1, <2>2, <2>4 DEF SrvAddProc
    <3>a. s2a \in [Arbiters -> Seq(Message)]
      BY <1>0
    <3>2. s2a' = SendAll(s2a, {a}, x)
      BY <3>a, <3>1, SendIsSendAll
    <3> QED BY <1>1, <2>1, <2>2, <3>1, <3>2
  <2> QED BY <2>3, <2>4
<1>3. CASE ~Registers(a)
  <2>1. UNCHANGED started /\ \E S : \E x \in Message : s2a' = SendAll(s2a, S, x)
    BY <1>3, ServerEffect
  <2>2. CASE started
    BY <1>1, <2>1, <2>2
  <2>3. CASE ~started
    <3>1. UNCHANGED s2a
      BY <1>3, <2>3 DEF Registers, ServerStep, SrvAccept, SrvSyncRequest, SrvStopDone, SrvSyncInfo,
                        SrvSyncDone, SrvWaitBarr, SrvPrgmDone, SrvPanic
    <3>2. PICK x \in Message : x = Simple("WAIT_DONE") /\ x.type \notin Orders
      BY MessageTypes DEF Simple, SimpleTypes, Orders
    <3>a. s2a \in [Arbiters -> Seq(Message)]
      BY <1>0
    <3>b. s2a = SendAll(s2a, {}, x)
      BY <3>a DEF SendAll
    <3>3. s2a' = SendAll(s2a, {}, x)
      BY <3>1, <3>b
    <3> QED BY <1>1, <2>1, <2>3, <3>2, <3>3
  <2> QED BY <2>2, <2>3
<1> QED BY <1>2, <1>3

(* The server sends an order to nobody before its WAIT_DONE.               *)
LEMMA StartServer ==
  ASSUME TypeOK, ChainInv, LinkInv, CountInv', StartInv, NEW a \in Arbiters, ServerStep(a),
         UNCHANGED <<arbVars, procVars, p2a, a2p, signals, mem>>
  PROVE  StartInv'
<1> DEFINE WD == "WAIT_DONE"
<1>0. s2a \in [Arbiters -> Seq(Message)]
  BY DEF TypeOK, NetTypeOK
<1>1. UNCHANGED <<arbStarted, arbState, arbQueue, ptab, loc, p2a, a2p>>
  BY DEF arbVars, procVars
<1>2. \A q \in Procs : ~arbStarted'[Home[q]] => Starting(q)'
  BY <1>1 DEF StartInv, Starting, Has
<1>3. /\ \A b \in Arbiters : Has(a2s', b, "WAIT_BARR") => Has(a2s, b, "WAIT_BARR")
      /\ started => started'
      /\ started => \E S : \E x \in Message : s2a' = SendAll(s2a, S, x)
      /\ ~started => \/ ~started' /\ \E S : \E x \in Message : s2a' = SendAll(s2a, S, x) /\ x.type \notin Orders
                     \/ /\ started' /\ UNCHANGED <<backlog, conns>>
                        /\ \E x \in Message : /\ x.type \notin Orders
                             /\ s2a' = SendAll(Send(s2a, a, x), conns, Simple("WAIT_DONE"))
  BY ServerOrders
<1>4. ~started' => \A b \in Arbiters : ~arbStarted'[b] /\ ~Has(a2s', b, "WAIT_BARR")
  BY <1>1, <1>3 DEF StartInv
<1>5. ASSUME NEW S, NEW x \in Message, s2a' = SendAll(s2a, S, x), NEW b \in Arbiters
      PROVE  /\ Preceded(s2a[b], Orders, {WD}) /\ (Has(s2a, b, WD) \/ x.type \notin Orders)
                  => Preceded(s2a'[b], Orders, {WD})
             /\ Has(s2a, b, WD) => Has(s2a', b, WD)
  <2>1. Has(s2a, b, WD) => Has(s2a', b, WD)
    BY <1>0, <1>5, SendAllHas
  <2>2. s2a[b] \in Seq(Message) /\ (s2a'[b] = s2a[b] \/ s2a'[b] = Append(s2a[b], x))
    BY <1>0, <1>5 DEF SendAll
  <2>3. Has(s2a, b, WD) => \E i \in DOMAIN s2a[b] : s2a[b][i].type \in {WD}
    BY DEF Has
  <2>4. /\ Preceded(s2a[b], Orders, {WD}) /\ (x.type \in Orders => \E i \in DOMAIN s2a[b] : s2a[b][i].type \in {WD})
             => Preceded(Append(s2a[b], x), Orders, {WD})
    BY <2>2, OrderAppend
  <2> QED BY <2>1, <2>2, <2>3, <2>4
<1>6. ASSUME NEW b \in Arbiters, ~arbStarted[b]
      PROVE  /\ Preceded(s2a'[b], Orders, {WD})
             /\ started' => Has(s2a', b, WD)
  <2>0. Preceded(s2a[b], Orders, {WD}) /\ arbState[b] \in {"up", "panic"} /\ (started => Has(s2a, b, WD))
    BY <1>6 DEF StartInv
  <2>1. CASE started
    <3>1. PICK S : \E x \in Message : s2a' = SendAll(s2a, S, x)
      BY <1>3, <2>1
    <3>2. PICK x \in Message : s2a' = SendAll(s2a, S, x)
      BY <3>1
    <3> QED BY <1>5, <2>0, <2>1, <3>2
  <2>2. CASE ~started /\ ~started'
    <3>1. PICK S : \E x \in Message : s2a' = SendAll(s2a, S, x) /\ x.type \notin Orders
      BY <1>3, <2>2
    <3>2. PICK x \in Message : s2a' = SendAll(s2a, S, x) /\ x.type \notin Orders
      BY <3>1
    <3> QED BY <1>5, <2>0, <2>2, <3>2
  <2>3. CASE ~started /\ started'
    <3>1. PICK x \in Message : /\ x.type \notin Orders /\ UNCHANGED <<backlog, conns>>
                               /\ s2a' = SendAll(Send(s2a, a, x), conns, Simple("WAIT_DONE"))
      BY <1>3, <2>3
    <3>2. b \in conns
      <4>1. backlog' = {}
        BY <2>3 DEF CountInv
      <4>2. Live(b)
        BY <2>0 DEF Live
      <4> QED BY <3>1, <4>1, <4>2 DEF LinkInv
    <3>3. PICK w \in Message : w = Simple(WD) /\ w.type = WD /\ w.type \notin Orders
      BY MessageTypes DEF Simple, SimpleTypes, Orders
    <3>4. /\ s2a[b] \in Seq(Message) /\ Append(s2a[b], x) \in Seq(Message)
          /\ s2a'[b] = Append(s2a[b], w) \/ s2a'[b] = Append(Append(s2a[b], x), w)
      BY <1>0, <3>1, <3>2, <3>3, SeqTypes DEF SendAll, Send
    <3>5. Preceded(Append(s2a[b], x), Orders, {WD}) /\ Preceded(Append(s2a[b], w), Orders, {WD})
      BY <2>0, <3>1, <3>3, <3>4, OrderAppend
    <3>6. Preceded(Append(Append(s2a[b], x), w), Orders, {WD})
      BY <3>3, <3>4, <3>5, OrderAppend
    <3>7. Has(s2a', b, WD)
      <4>1. Append(s2a[b], w)[Len(s2a[b]) + 1] = w /\ Len(s2a[b]) + 1 \in DOMAIN Append(s2a[b], w)
        BY <3>4, AppendPlaces
      <4>2. /\ Append(Append(s2a[b], x), w)[Len(Append(s2a[b], x)) + 1] = w
            /\ Len(Append(s2a[b], x)) + 1 \in DOMAIN Append(Append(s2a[b], x), w)
        BY <3>4, AppendPlaces
      <4> QED BY <3>3, <3>4, <4>1, <4>2 DEF Has
    <3> QED BY <3>4, <3>5, <3>6, <3>7
  <2> QED BY <2>1, <2>2, <2>3
<1> QED BY <1>1, <1>2, <1>4, <1>6 DEF StartInv, Has

(* An arbiter starts by reading that WAIT_DONE, before any order.          *)
LEMMA StartArbiter ==
  ASSUME TypeOK, PlaceInv, ChainInv, StartInv, NEW a \in Arbiters, ArbiterStep(a),
         UNCHANGED <<serverVars, procVars>>
  PROVE  StartInv'
<1> DEFINE WD == "WAIT_DONE"
<1>0. /\ s2a \in [Arbiters -> Seq(Message)] /\ a2s \in [Arbiters -> Seq(Message)]
      /\ p2a \in [Procs -> Seq(Message)] /\ a2p \in [Procs -> Seq(Message)]
      /\ arbStarted \in [Arbiters -> BOOLEAN] /\ ptab \in [Procs -> Entry]
      /\ arbState \in [Arbiters -> {"up", "closing", "exited", "panic"}]
      /\ arbQueue \in [Arbiters -> Seq(Procs)]
  BY DEF TypeOK, NetTypeOK, ArbiterTypeOK
<1>1. /\ \A b \in Arbiters : b # a => SameMachine(b)
      /\ \A q \in Procs : Home[q] # a => SameProcess(q)
  BY ArbiterIsLocal
<1>2. UNCHANGED <<started, loc>>
  BY DEF serverVars, procVars
<1>3. CASE arbStarted[a]
  <2>1. arbStarted'[a]
    BY <1>0, <1>3 DEF ArbiterStep, ArbAccept, ArbPoll, ArbExit, FromProcessStep, FromServerStep, ArbAddProc,
                      ArbSyncRequest, ArbForwardSync, ArbWaitBarr, ArbPrgmDone, ArbSetGid, ArbStopAll,
                      ArbContAll, ArbWaitDone, ArbWriteOkay, ArbApplySync, ArbPanic
  <2>2. started
    BY <1>3 DEF StartInv
  <2>3. ASSUME NEW b \in Arbiters, ~arbStarted'[b]
        PROVE  /\ ~arbStarted[b] /\ arbState'[b] \in {"up", "panic"} /\ arbQueue'[b] = << >>
               /\ Preceded(s2a'[b], Orders, {WD}) /\ Has(s2a', b, WD)
    BY <1>1, <2>1, <2>2, <2>3 DEF StartInv, SameMachine, Has
  <2>4. ASSUME NEW q \in Procs, ~arbStarted'[Home[q]] PROVE Starting(q)'
    BY <1>1, <1>2, <2>1, <2>4, HomeAssumption DEF StartInv, SameProcess, SameMachine, Starting, Has
  <2> QED BY <1>2, <2>2, <2>3, <2>4 DEF StartInv, Has
<1>4. CASE ~arbStarted[a]
  <2>0. /\ \A q \in Procs : Home[q] = a => Starting(q)
        /\ arbState[a] \in {"up", "panic"} /\ arbQueue[a] = << >>
        /\ Preceded(s2a[a], Orders, {WD}) /\ (started => Has(s2a, a, WD))
    BY <1>4 DEF StartInv
  <2>k. ASSUME ~arbStarted'[a] => /\ arbState'[a] \in {"up", "panic"} /\ arbQueue'[a] = << >>
                                  /\ Preceded(s2a'[a], Orders, {WD})
                                  /\ started => Has(s2a', a, WD),
               \A q \in Procs : Home[q] = a /\ ~arbStarted'[a] => Starting(q)',
               ~started => ~arbStarted'[a] /\ ~Has(a2s', a, "WAIT_BARR")
        PROVE  StartInv'
    <3>1. ASSUME NEW b \in Arbiters, ~arbStarted'[b]
          PROVE  /\ arbState'[b] \in {"up", "panic"} /\ arbQueue'[b] = << >>
                 /\ Preceded(s2a'[b], Orders, {WD}) /\ (started' => Has(s2a', b, WD))
      BY <1>1, <1>2, <2>k, <3>1 DEF StartInv, SameMachine, Has
    <3>2. ASSUME NEW q \in Procs, ~arbStarted'[Home[q]] PROVE Starting(q)'
      BY <1>1, <1>2, <2>k, <3>2, HomeAssumption DEF StartInv, SameProcess, SameMachine, Starting, Has
    <3>3. ~started' => \A b \in Arbiters : ~arbStarted'[b] /\ ~Has(a2s', b, "WAIT_BARR")
      BY <1>1, <1>2, <2>k DEF StartInv, SameMachine, Has
    <3> QED BY <3>1, <3>2, <3>3 DEF StartInv, Has
  <2>1. ASSUME NEW p \in Procs, ArbAccept(a, p) PROVE StartInv'
    BY <1>2, <1>4, <2>0, <2>1, <2>k DEF ArbAccept, channels, signals, StartInv, Starting, Has
  <2>2. ASSUME NEW f \in BOOLEAN, ArbPoll(a, f) PROVE StartInv'
    BY <1>2, <1>4, <2>0, <2>2, <2>k DEF ArbPoll, channels, signals, StartInv, Starting, Has
  <2>3. ASSUME NEW p \in Procs, FromProcessStep(a, p) PROVE StartInv'
    <3>1. p \in pass[a] /\ p2a[p] # << >> /\ p2a' = Consume(p2a, p)
      BY <2>3 DEF FromProcessStep, ArbAddProc, ArbSyncRequest, ArbForwardSync,
                  ArbWaitBarr, ArbPrgmDone, FromProcess, Waiting
    <3>2. Home[p] = a
      BY <3>1, ReaderIsLocal
    <3>3. Head(p2a[p]).type = "ADD_PROC"
      <4>1. 1 \in DOMAIN p2a[p] /\ Head(p2a[p]) = p2a[p][1]
        BY <1>0, <3>1
      <4> QED BY <2>0, <3>2, <4>1 DEF Starting
    <3>4. ArbAddProc(a, p)
      BY <2>3, <3>3 DEF FromProcessStep, ArbSyncRequest, ArbForwardSync,
                        ArbWaitBarr, ArbPrgmDone, FromProcess, Waiting
    <3>5. /\ UNCHANGED <<arbStarted, arbQueue, s2a, a2p>> /\ arbState'[a] \in {arbState[a], "panic"}
          /\ UNCHANGED a2s \/ a2s' = Send(a2s, a, Head(p2a[p]))
          /\ \A q \in Procs : ~ptab[q].is_stopped /\ ~ptab[q].is_queued => ~ptab'[q].is_stopped /\ ~ptab'[q].is_queued
      <4>1. /\ UNCHANGED <<arbStarted, arbQueue, s2a, a2p>> /\ arbState'[a] \in {arbState[a], "panic"}
            /\ UNCHANGED a2s \/ a2s' = Send(a2s, a, Head(p2a[p]))
        BY <1>0, <3>4 DEF ArbAddProc, ArbPanic
      <4>2. UNCHANGED ptab \/ ptab' = [ptab EXCEPT ![p] = [Unused EXCEPT !.used = TRUE, !.is_waiting = TRUE]]
        BY <3>4 DEF ArbAddProc, ArbPanic
      <4>3. \A q \in Procs : ptab'[q] = ptab[q] \/ (~ptab'[q].is_stopped /\ ~ptab'[q].is_queued)
        BY <1>0, <4>2 DEF Unused
      <4> QED BY <4>1, <4>3
    <3>6. \A q \in Procs : Starting(q) => \A i \in DOMAIN p2a'[q] : p2a'[q][i].type = "ADD_PROC"
      <4> SUFFICES ASSUME NEW q \in Procs, Starting(q), NEW i \in DOMAIN p2a'[q]
                   PROVE  p2a'[q][i].type = "ADD_PROC"
        OBVIOUS
      <4>1. CASE q = p
        <5>1. p2a'[q] = Tail(p2a[p]) /\ p2a[p] \in Seq(Message)
          BY <1>0, <3>1, <4>1 DEF Consume
        <5>2. i + 1 \in DOMAIN p2a[p] /\ Tail(p2a[p])[i] = p2a[p][i + 1]
          BY <3>1, <5>1, TailPlaces
        <5> QED BY <4>1, <5>1, <5>2 DEF Starting
      <4>2. CASE q # p
        BY <1>0, <3>1, <4>2 DEF Consume, Starting
      <4> QED BY <4>1, <4>2
    <3>7. ~started => ~Has(a2s', a, "WAIT_BARR")
      <4>1. Head(p2a[p]) \in Message
        BY <1>0, <3>1, ChannelTypes
      <4>a. a2s \in [Arbiters -> Seq(Message)]
        BY <1>0
      <4>2. Has(Send(a2s, a, Head(p2a[p])), a, "WAIT_BARR") <=> Has(a2s, a, "WAIT_BARR")
        BY <4>a, <3>3, <4>1, SendHas
      <4>3. ~started => ~Has(a2s, a, "WAIT_BARR")
        BY DEF StartInv
      <4> QED BY <3>5, <4>2, <4>3, Zenon
    <3>8. \A q \in Procs : Home[q] = a => Starting(q)'
      BY <1>2, <2>0, <3>5, <3>6 DEF Starting, Has
    <3>9. arbState'[a] \in {"up", "panic"} /\ arbQueue'[a] = << >>
      BY <2>0, <3>5
    <3>10. Preceded(s2a'[a], Orders, {WD}) /\ (started => Has(s2a', a, WD))
      BY <2>0, <3>5
    <3>11. ~arbStarted'[a]
      BY <1>4, <3>5
    <3> QED BY <2>k, <3>7, <3>8, <3>9, <3>10, <3>11
  <2>4. ASSUME FromServerStep(a) PROVE StartInv'
    <3>1. /\ s2a[a] # << >> /\ s2a' = Consume(s2a, a) /\ arbState[a] = "up" /\ UNCHANGED p2a
      BY <2>4 DEF FromServerStep, ArbSetGid, ArbStopAll, ArbContAll, ArbWaitDone, ArbWriteOkay,
                ArbApplySync, FromServer, Waiting
    <3>2. Head(s2a[a]).type \notin Orders
      BY <1>0, <2>0, <3>1, OrderTail
    <3>3. CASE ArbWaitDone(a)
      <4>a. s2a \in [Arbiters -> Seq(Message)] /\ Head(s2a[a]).type = WD
        BY <1>0, <3>3 DEF ArbWaitDone, FromServer, Waiting
      <4>1. Has(s2a, a, WD)
        BY <3>1, <4>a, ConsumeHas
      <4>2. started
        BY <4>1 DEF ChainInv
      <4>3. ~SignalFails(ToRelease(a))
        BY <1>4 DEF SignalFails, ToRelease
      <4>4. arbStarted'[a]
        BY <1>0, <3>3, <4>3 DEF ArbWaitDone
      <4> QED BY <2>k, <4>2, <4>4
    <3>4. CASE ArbSetGid(a)
      <4>1. /\ UNCHANGED <<arbStarted, arbQueue, a2s>> /\ arbState'[a] \in {"up", "panic"}
            /\ Head(s2a[a]).type = "SET_GID"
            /\ \A q \in Procs : ptab'[q].is_stopped = ptab[q].is_stopped /\ ptab'[q].is_queued = ptab[q].is_queued
        <5>1. \A q \in Procs, g \in Nat : LET e == [ptab[q] EXCEPT !.gid = g]
                                          IN  e.is_stopped = ptab[q].is_stopped /\ e.is_queued = ptab[q].is_queued
          <6> TAKE q \in Procs, g \in Nat
          <6>1. ptab[q] \in Entry
            BY <1>0
          <6> QED BY <6>1 DEF Entry
        <5>a. s2a \in [Arbiters -> Seq(Message)]
          BY <1>0
        <5>2. Head(s2a[a]).type = "SET_GID" /\ Head(s2a[a]) \in Message
          BY <5>a, <3>1, <3>4, ChannelTypes DEF ArbSetGid, FromServer, Waiting
        <5>3. Head(s2a[a]).gid \in Nat
          BY <5>2, PayloadTypes
        <5>4. UNCHANGED <<arbStarted, arbQueue, a2s>> /\ arbState'[a] \in {"up", "panic"}
          BY <1>0, <3>1, <3>4 DEF ArbSetGid, ArbPanic
        <5>5. UNCHANGED ptab \/ ptab' = [ptab EXCEPT ![Head(s2a[a]).pid].gid = Head(s2a[a]).gid]
          BY <3>4 DEF ArbSetGid, ArbPanic
        <5>6. \A q \in Procs : ptab'[q] = ptab[q] \/ ptab'[q] = [ptab[q] EXCEPT !.gid = Head(s2a[a]).gid]
          BY <1>0, <5>5
        <5> QED BY <5>1, <5>2, <5>3, <5>4, <5>6
      <4>2. \A q \in Procs : Has(a2p', q, WD) => Has(a2p, q, WD)
        <5>1. UNCHANGED a2p \/ (Head(s2a[a]).pid \in Procs /\ a2p' = Send(a2p, Head(s2a[a]).pid, Head(s2a[a])))
          BY <3>4 DEF ArbSetGid, ArbPanic, Table, Local
        <5>2. Head(s2a[a]) \in Message
          BY <1>0, <3>1, ChannelTypes
        <5>0. a2p \in [Procs -> Seq(Message)] /\ Head(s2a[a]).type # WD
          BY <1>0, <4>1
        <5>3. ASSUME NEW k \in Procs, NEW q \in Procs
              PROVE  Has(Send(a2p, k, Head(s2a[a])), q, WD) => Has(a2p, q, WD)
          BY <5>0, <5>2, SendHas
        <5> QED BY <5>1, <5>3, Zenon
      <4>3. \A q \in Procs : Home[q] = a => Starting(q)'
        BY <1>2, <2>0, <3>1, <4>1, <4>2 DEF Starting, Has
      <4>4. Preceded(s2a'[a], Orders, {WD})
        <5>1. Head(s2a[a]).type \notin {WD} /\ s2a[a] \in Seq(Message) /\ s2a'[a] = Tail(s2a[a])
          BY <1>0, <3>1, <4>1 DEF Consume
        <5> QED BY <2>0, <3>1, <5>1, OrderTail
      <4>5. started => Has(s2a', a, WD)
        <5>1. Same(s2a, Consume(s2a, a), Arbiters, WD)
          BY <1>0, <3>1, <4>1, ConsumeSame
        <5> QED BY <2>0, <3>1, <5>1 DEF Same
      <4>6. ~started => ~Has(a2s', a, "WAIT_BARR") /\ ~arbStarted'[a]
        BY <1>4, <4>1 DEF StartInv
      <4> QED BY <2>0, <2>k, <4>1, <4>3, <4>4, <4>5, <4>6
    <3> QED BY <2>4, <3>2, <3>3, <3>4
         DEF FromServerStep, ArbStopAll, ArbContAll, ArbWriteOkay, ArbApplySync, FromServer, Waiting, Orders
  <2>5. CASE ArbExit(a)
    BY <2>0, <2>5 DEF ArbExit
  <2> QED BY <2>1, <2>2, <2>3, <2>4, <2>5 DEF ArbiterStep
<1> QED BY <1>3, <1>4

(* A process that has not been told to start only joins.                   *)
LEMMA StartProcess ==
  ASSUME TypeInv, StartInv, NEW p \in Procs, ProcessStep(p) \/ ProcKilled(p),
         UNCHANGED <<serverVars, arbVars, a2s, s2a>>
  PROVE  StartInv'
<1>0. /\ p2a \in [Procs -> Seq(Message)] /\ a2p \in [Procs -> Seq(Message)]
  BY DEF TypeInv, TypeOK, NetTypeOK
<1>1. UNCHANGED <<arbStarted, arbState, arbQueue, ptab, started>>
  BY DEF arbVars, serverVars
<1>2. /\ \A q \in Procs : q # p => loc'[q] = loc[q] /\ SameProcess(q)
      /\ Says(p) \/ Hears(p) \/ Shifts(p) \/ Halts(p) \/ Delivers(p)
  BY <1>1, ProcessMoves
<1>3. \A q \in Procs : q # p /\ Starting(q) => Starting(q)'
  BY <1>1, <1>2 DEF Starting, SameProcess, Has
<1>4. ASSUME Starting(p) PROVE Starting(p)'
  <2>1. CASE Says(p)
    <3>1. PICK m \in Message : p2a'[p] = Append(p2a[p], m) /\ m.type = "ADD_PROC" /\ loc'[p] = "recv_gid"
      BY <1>4, <2>1 DEF Says, Talks, Starting
    <3>2. \A i \in DOMAIN p2a'[p] : p2a'[p][i].type = "ADD_PROC"
      <4>1. p2a[p] \in Seq(Message)
        BY <1>0
      <4> QED BY <1>4, <3>1, <4>1 DEF Starting
    <3> QED BY <1>1, <1>4, <2>1, <3>1, <3>2 DEF Starting, Says, Has
  <2>2. CASE Hears(p)
    <3>1. Head(a2p[p]).type # "WAIT_DONE" /\ ~Has(a2p', p, "WAIT_DONE")
      <4>1. a2p[p] # << >> /\ a2p'[p] = Tail(a2p[p]) /\ a2p[p] \in Seq(Message)
        BY <1>0, <2>2 DEF Hears
      <4>2. /\ DOMAIN a2p[p] = 1 .. Len(a2p[p]) /\ Len(a2p[p]) \in Nat \ {0}
            /\ \A i \in DOMAIN Tail(a2p[p]) : i + 1 \in DOMAIN a2p[p] /\ Tail(a2p[p])[i] = a2p[p][i + 1]
            /\ Head(a2p[p]) = a2p[p][1]
        BY <4>1, TailPlaces
      <4>3. \A i \in DOMAIN a2p[p] : a2p[p][i].type # "WAIT_DONE"
        BY <1>4 DEF Starting, Has
      <4> QED BY <4>1, <4>2, <4>3 DEF Has
    <3> QED BY <1>1, <1>4, <2>2, <3>1 DEF Starting, Hears, Has
  <2>3. CASE Shifts(p)
    BY <1>1, <1>4, <2>3 DEF Starting, Shifts, Has
  <2>4. CASE Halts(p)
    BY <1>4, <2>4 DEF Starting, Halts
  <2>5. CASE Delivers(p)
    BY <1>1, <1>4, <2>5 DEF Starting, Delivers, Has
  <2> QED BY <1>2, <2>1, <2>2, <2>3, <2>4, <2>5
<1> QED BY <1>1, <1>3, <1>4 DEF StartInv, Has

(* Every step of the session keeps StartInv.                               *)
LEMMA StartStep ==
  ASSUME TypeInv, PlaceInv, ChainInv, LinkInv, CountInv', StartInv, [Next]_vars
  PROVE  StartInv'
<1>0. TypeOK
  BY DEF TypeInv
<1>1. ASSUME NEW p \in Procs, ProcessLosesArbiter(p) PROVE StartInv'
  <2>1. /\ UNCHANGED <<arbStarted, arbState, arbQueue, ptab, started, s2a, a2s, a2p, p2a>>
        /\ \A q \in Procs : loc'[q] = loc[q] \/ loc'[q] = "panic"
    BY <1>0, <1>1 DEF ProcessLosesArbiter, Goto, arbVars, serverVars, netVars, channels, TypeOK, ProcessTypeOK
  <2> QED BY <2>1 DEF StartInv, Starting, Has
<1>2. CASE Breaks
  <2>1. /\ UNCHANGED <<arbStarted, arbQueue, ptab, started, s2a, a2s, a2p, p2a, loc>>
        /\ \A b \in Arbiters : \/ arbState'[b] = arbState[b]
                               \/ arbState[b] = "up" /\ arbState'[b] = "panic"
    BY <1>2 DEF Breaks, procVars, netVars, channels
  <2>2. \A q \in Procs : ~arbStarted'[Home[q]] => Starting(q)'
    BY <2>1 DEF StartInv, Starting, Has
  <2>3. \A b \in Arbiters : ~arbStarted[b] => arbState'[b] \in {"up", "panic"}
    BY <2>1 DEF StartInv
  <2> QED BY <2>1, <2>2, <2>3 DEF StartInv, Has
<1> QED BY <1>0, <1>1, <1>2, StepKinds, StartServer, StartArbiter, StartProcess

-----------------------------------------------------------------------------
(***************************************************************************)
(* The processes in the poll set of an arbiter are those in its table.     *)
(***************************************************************************)
EnrolInv ==
  \A q \in Procs : /\ ptab[q].used => q \in Accepted(Home[q])
                   /\ started /\ q \in Accepted(Home[q]) => ptab[q].used

(* No table has an entry.                                                  *)
LEMMA EnrolInit == Init => EnrolInv
  BY DEF Init, ServerInit, ArbiterInit, EnrolInv, Unused

(* dsm_removePollable leaves nothing of the entry it takes out.            *)
LEMMA ShuffledGone ==
  ASSUME NEW S, NEW s \in Seq(S), NEW k \in DOMAIN s, Distinct(s)
  PROVE  \A j \in DOMAIN ShuffledDown(s, k) :
           /\ ShuffledDown(s, k)[j] # s[k]
           /\ \E i \in DOMAIN s : ShuffledDown(s, k)[j] = s[i]
  BY DEF ShuffledDown, Distinct

(* A process is in the poll set before it is in the table, and leaves both *)
(* at once.                                                                *)
LEMMA EnrolArbiter ==
  ASSUME TypeOK, PlaceInv, ListInv, CountInv, StartInv, EnrolInv, NEW a \in Arbiters, ArbiterStep(a),
         UNCHANGED <<serverVars, procVars>>
  PROVE  EnrolInv'
<1>0. /\ arbStarted \in [Arbiters -> BOOLEAN] /\ ptab \in [Procs -> Entry]
      /\ fds \in [Arbiters -> Seq(Procs)] /\ fds[a] \in Seq(Local(a))
      /\ pass[a] \subseteq Accepted(a) \cup {Server} /\ Distinct(fds[a])
  BY DEF TypeOK, ArbiterTypeOK, PlaceInv, ListInv
<1>1. /\ \A b \in Arbiters : b # a => SameMachine(b)
      /\ \A q \in Procs : Home[q] # a => SameProcess(q)
  BY ArbiterIsLocal
<1>2. UNCHANGED <<started, loc>>
  BY DEF serverVars, procVars
<1>k. ASSUME \A q \in Procs : Home[q] = a =>
                /\ ptab'[q].used => q \in Accepted(a)'
                /\ started /\ q \in Accepted(a)' => ptab'[q].used
      PROVE  EnrolInv'
  <2> SUFFICES ASSUME NEW q \in Procs
               PROVE  /\ ptab'[q].used => q \in Accepted(Home[q])'
                      /\ started' /\ q \in Accepted(Home[q])' => ptab'[q].used
    BY DEF EnrolInv
  <2>1. CASE Home[q] = a
    BY <1>2, <1>k, <2>1
  <2>2. CASE Home[q] # a
    <3>1. ptab'[q] = ptab[q] /\ Accepted(Home[q])' = Accepted(Home[q])
      BY <1>1, <2>2, HomeAssumption DEF SameMachine, SameProcess, Accepted
    <3> QED BY <1>2, <3>1 DEF EnrolInv
  <2> QED BY <2>1, <2>2
<1>3. ASSUME UNCHANGED fds, \A q \in Procs : ptab'[q].used = ptab[q].used PROVE EnrolInv'
  BY <1>k, <1>3 DEF EnrolInv, Accepted
<1>4. ASSUME NEW p \in Procs, ArbAccept(a, p) PROVE EnrolInv'
  <2>1. /\ fds'[a] = Append(fds[a], p) /\ UNCHANGED ptab /\ ~arbStarted[a] /\ p \in Local(a) /\ p \notin Accepted(a)
    BY <1>0, <1>4 DEF ArbAccept, Pending
  <2>2. Accepted(a)' = Accepted(a) \cup {p}
    <3>1. /\ DOMAIN fds[a] = 1 .. Len(fds[a]) /\ Len(fds[a]) \in Nat
          /\ DOMAIN fds'[a] = 1 .. Len(fds[a]) + 1
          /\ \A i \in DOMAIN fds[a] : fds'[a][i] = fds[a][i]
          /\ fds'[a][Len(fds[a]) + 1] = p
      BY <1>0, <2>1, AppendPlaces DEF Local
    <3> QED BY <3>1 DEF Accepted
  <2>3. started => ptab[p].used
    BY <2>1 DEF CountInv, StartInv, Starting, Left, Local
  <2> QED BY <1>k, <2>1, <2>2, <2>3 DEF EnrolInv
<1>5. ASSUME NEW f \in BOOLEAN, ArbPoll(a, f) PROVE EnrolInv'
  BY <1>3, <1>5 DEF ArbPoll
<1>6. ASSUME FromServerStep(a) \/ ArbExit(a) PROVE EnrolInv'
  <2>1. \A q \in Procs : ptab'[q].used = ptab[q].used
    BY <1>6, ServedEffect
  <2>2. UNCHANGED fds
    BY <1>6 DEF FromServerStep, ArbExit, ArbSetGid, ArbStopAll, ArbContAll, ArbWaitDone, ArbWriteOkay,
                ArbApplySync, ArbPanic
  <2> QED BY <1>3, <2>1, <2>2
<1>7. ASSUME NEW p \in Procs, FromProcessStep(a, p) PROVE EnrolInv'
  <2>1. p \in pass[a]
    BY <1>7 DEF FromProcessStep, ArbAddProc, ArbSyncRequest, ArbForwardSync,
                ArbWaitBarr, ArbPrgmDone, FromProcess
  <2>2. Home[p] = a /\ p \in Accepted(a)
    BY <1>0, <2>1, ReaderIsLocal, ServerAssumption
  <2>3. CASE ArbPrgmDone(a, p)
    <3>1. fds' = [fds EXCEPT ![a] = ShuffledDown(@, Slot(a, p))] /\ ptab' = [ptab EXCEPT ![p] = Unused]
      BY <2>3 DEF ArbPrgmDone
    <3>2. Slot(a, p) \in DOMAIN fds[a] /\ fds[a][Slot(a, p)] = p
      BY <2>2 DEF Slot, Accepted
    <3>3. fds'[a] = ShuffledDown(fds[a], Slot(a, p))
      BY <1>0, <3>1
    <3>4. \A j \in DOMAIN fds'[a] : fds'[a][j] # p /\ fds'[a][j] \in Accepted(a)
      BY <1>0, <3>2, <3>3, ShuffledGone DEF Accepted
    <3>5. \A i \in DOMAIN fds[a] : i # Slot(a, p) => \E j \in DOMAIN fds'[a] : fds'[a][j] = fds[a][i]
      BY <1>0, <3>2, <3>3, ShuffledDistinct
    <3>6. Accepted(a)' = Accepted(a) \ {p}
      BY <3>2, <3>4, <3>5 DEF Accepted
    <3>7. \A q \in Procs : ptab'[q].used = (q # p /\ ptab[q].used)
      BY <1>0, <3>1 DEF Unused, Entry
    <3> QED BY <1>k, <3>6, <3>7 DEF EnrolInv
  <2>4. CASE ~ArbPrgmDone(a, p)
    <3>1. UNCHANGED fds
      BY <1>7, <2>4 DEF FromProcessStep, ArbAddProc, ArbSyncRequest, ArbForwardSync, ArbWaitBarr, ArbPanic
    <3>2. \A q \in Procs : q # p => ptab'[q].used = ptab[q].used
      BY <1>7, <2>2, ReadEffect
    <3>3. ptab'[p].used = ptab[p].used \/ ptab'[p].used
      <4>0. ptab[p] \in Entry
        BY <1>0
      <4>1. CASE ArbAddProc(a, p)
        BY <1>0, <4>1 DEF ArbAddProc, ArbPanic, Unused
      <4>2. CASE ArbSyncRequest(a, p)
        <5>1. ptab'[p] = [ptab[p] EXCEPT !.is_stopped = TRUE, !.is_queued = TRUE]
          BY <1>0, <4>2 DEF ArbSyncRequest
        <5> QED BY <4>0, <5>1 DEF Entry
      <4>3. CASE ArbForwardSync(a, p) \/ ArbWaitBarr(a, p)
        <5>1. ptab'[p] \in {ptab[p], [ptab[p] EXCEPT !.is_queued = FALSE], [ptab[p] EXCEPT !.is_waiting = TRUE]}
          BY <1>0, <4>3 DEF ArbForwardSync, ArbWaitBarr
        <5> QED BY <4>0, <5>1 DEF Entry
      <4> QED BY <1>7, <2>4, <4>1, <4>2, <4>3 DEF FromProcessStep
    <3> QED BY <1>k, <2>2, <3>1, <3>2, <3>3 DEF EnrolInv, Accepted
  <2> QED BY <2>3, <2>4
<1> QED BY <1>4, <1>5, <1>6, <1>7 DEF ArbiterStep

(* The session starts when everyone has registered.                        *)
LEMMA EnrolStep ==
  ASSUME TypeInv, PlaceInv, ListInv, ChainInv, CountInv, CountInv', StartInv, EnrolInv, [Next]_vars
  PROVE  EnrolInv'
<1>0. TypeOK
  BY DEF TypeInv
<1>1. ASSUME UNCHANGED <<ptab, fds>>, started' => started PROVE EnrolInv'
  BY <1>1 DEF EnrolInv, Accepted
<1>2. ASSUME NEW a \in Arbiters, ServerStep(a), UNCHANGED <<arbVars, procVars, p2a, a2p, signals, mem>>
      PROVE  EnrolInv'
  <2>1. UNCHANGED <<ptab, fds, loc>>
    BY <1>2 DEF arbVars, procVars
  <2>2. CASE ~started
    <3>1. ASSUME started', NEW q \in Procs PROVE ptab[q].used
      <4>1. loc[q] \notin Left
        BY <2>2 DEF ChainInv
      <4> QED BY <2>1, <3>1, <4>1 DEF CountInv
    <3> QED BY <2>1, <3>1 DEF EnrolInv, Accepted
  <2> QED BY <1>1, <2>1, <2>2
<1>3. ASSUME NEW p \in Procs, \/ ProcessLosesArbiter(p)
                              \/ (ProcessStep(p) \/ ProcKilled(p)) /\ UNCHANGED <<serverVars, arbVars, a2s, s2a>>
      PROVE  EnrolInv'
  BY <1>1, <1>3 DEF ProcessLosesArbiter, arbVars, serverVars
<1>4. CASE Breaks
  BY <1>1, <1>4 DEF Breaks
<1> QED BY <1>0, <1>2, <1>3, <1>4, StepKinds, EnrolArbiter

(* In a session that has started nobody registers any more.                *)
LEMMA NobodyRegisters ==
  ASSUME TypeInv, PlaceInv, ListInv, JoinInv, EnrolInv, [Next]_vars, started
  PROVE  \A q \in Procs : ptab'[q].used => ptab[q].used
<1>0. TypeOK /\ ptab \in [Procs -> Entry] /\ p2a \in [Procs -> Seq(Message)]
  BY DEF TypeInv, TypeOK, ArbiterTypeOK, NetTypeOK
<1>1. CASE UNCHANGED ptab
  BY <1>1
<1>2. ASSUME NEW a \in Arbiters, ArbiterStep(a) PROVE \A q \in Procs : ptab'[q].used => ptab[q].used
  <2>1. ASSUME NEW p \in Procs, FromProcessStep(a, p) PROVE \A q \in Procs : ptab'[q].used => ptab[q].used
    <3>1. p \in pass[a]
      BY <2>1 DEF FromProcessStep, ArbAddProc, ArbSyncRequest, ArbForwardSync,
                  ArbWaitBarr, ArbPrgmDone, FromProcess
    <3>2. Home[p] = a /\ p \in Accepted(a)
      BY <3>1, ReaderIsLocal, ServerAssumption DEF ListInv
    <3>3. ptab[p].used
      BY <3>2 DEF EnrolInv
    <3>4. \A q \in Procs : q # p => ptab'[q].used = ptab[q].used
      BY <1>0, <2>1, <3>2, ReadEffect
    <3> QED BY <3>3, <3>4
  <2>2. ASSUME FromServerStep(a) \/ ArbExit(a) PROVE \A q \in Procs : ptab'[q].used => ptab[q].used
    BY <1>0, <2>2, ServedEffect
  <2>3. ASSUME NEW p \in Procs, ArbAccept(a, p) PROVE UNCHANGED ptab
    BY <2>3 DEF ArbAccept
  <2>4. ASSUME NEW f \in BOOLEAN, ArbPoll(a, f) PROVE UNCHANGED ptab
    BY <2>4 DEF ArbPoll
  <2> QED BY <1>1, <1>2, <2>1, <2>2, <2>3, <2>4 DEF ArbiterStep
<1>3. \/ \E a \in Arbiters : ArbiterStep(a)
      \/ UNCHANGED ptab
  BY <1>0, StepKinds DEF Breaks, arbVars, ProcessLosesArbiter
<1> QED BY <1>1, <1>2, <1>3

-----------------------------------------------------------------------------
(***************************************************************************)
(* The round of freezes that precedes a write, and the resume behind it.   *)
(***************************************************************************)
Stopping(a) == Has(s2a, a, "STOP_ALL")      \* a is still to freeze its processes.
StopAck(a)  == Has(a2s, a, "STOP_DONE")     \* a's answer is on its way back.
Resuming(a) == Has(s2a, a, "CONT_ALL")      \* a is still to resume them.

FrozenSteps == {"WAITING_SYNC_INFO", "WAITING_SYNC_ACK"}
StopCounted == {p \in Procs : ~Stopping(Home[p]) /\ ~StopAck(Home[p]) /\ ~Resuming(Home[p])}

StopLink(a) ==
  /\ Stopping(a) \/ StopAck(a) => step = "WAITING_STOP_ACK"
  /\ Once(s2a, a, "STOP_ALL") /\ Once(a2s, a, "STOP_DONE") /\ Once(s2a, a, "CONT_ALL")
  /\ ~(Stopping(a) /\ StopAck(a)) /\ ~(Resuming(a) /\ StopAck(a))
  /\ step = "WAITING_STOP_ACK" /\ Resuming(a) => Stopping(a) \/ ~Live(a)
  /\ step \in FrozenSteps => ~Resuming(a)
  /\ NoneBehind(s2a[a], "STOP_ALL", "CONT_ALL")
  /\ \A m : In(a2s, a, m) /\ m.type = "STOP_DONE" => m.nproc <= Cardinality(Local(a))

StopInv ==
  /\ step # "READY" => started
  /\ \A a \in Arbiters : StopLink(a)
  /\ step = "WAITING_STOP_ACK" => nproc_stopped <= Cardinality(StopCounted)

(***************************************************************************)
(* Nothing is missing in the round: whoever it still has to stop, and      *)
(* whoever it counts, is everybody.  Once it has been missing, no later    *)
(* round is complete, so what a complete round needs can be assumed.       *)
(***************************************************************************)
Full(a)  == \A q \in Local(a) : ptab[q].used
Exact(a) == /\ Stopping(a) => Full(a)
            /\ Resuming(a) => Stopping(a)
            /\ \A m : In(a2s, a, m) /\ m.type = "STOP_DONE" => m.nproc = Cardinality(Local(a))
Whole ==
  /\ step = "READY" => \A a \in Arbiters : Full(a)
  /\ step = "WAITING_STOP_ACK" => /\ nproc_stopped = Cardinality(StopCounted)
                                  /\ \A a \in Arbiters : Exact(a)

(* There is no freeze before the first write.                              *)
LEMMA StopInit == Init => StopInv
  BY DEF Init, ServerInit, NetInit, StopInv, StopLink, Stopping, StopAck, Resuming, Has, Once, In,
         FrozenSteps, NoneBehind

(* The freezes and resumes on their way are left alone, or one is read.    *)
Steady(old, new) ==
  \A a \in Arbiters :
    /\ Has(new, a, "STOP_ALL") <=> Has(old, a, "STOP_ALL")
    /\ Has(new, a, "CONT_ALL") => Has(old, a, "CONT_ALL")
    /\ Once(old, a, "STOP_ALL") => Once(new, a, "STOP_ALL")
    /\ Once(old, a, "CONT_ALL") => Once(new, a, "CONT_ALL")
    /\ NoneBehind(old[a], "STOP_ALL", "CONT_ALL") => NoneBehind(new[a], "STOP_ALL", "CONT_ALL")
Keeps(old, new) == \A a \in Arbiters : Has(old, a, "CONT_ALL") => Has(new, a, "CONT_ALL")

(* Sending anything but a freeze or a resume leaves those as they were.    *)
LEMMA SteadySend ==
  ASSUME NEW ch \in [Arbiters -> Seq(Message)], NEW S, NEW x \in Message,
         x.type \notin {"STOP_ALL", "CONT_ALL"}
  PROVE  Steady(ch, SendAll(ch, S, x)) /\ Keeps(ch, SendAll(ch, S, x))
<1>1. Same(ch, SendAll(ch, S, x), Arbiters, "STOP_ALL") /\ Same(ch, SendAll(ch, S, x), Arbiters, "CONT_ALL")
  BY SendSame
<1>2. ASSUME NEW a \in Arbiters
      PROVE  NoneBehind(ch[a], "STOP_ALL", "CONT_ALL") => NoneBehind(SendAll(ch, S, x)[a], "STOP_ALL", "CONT_ALL")
  <2>1. ch[a] \in Seq(Message) /\ (SendAll(ch, S, x)[a] = ch[a] \/ SendAll(ch, S, x)[a] = Append(ch[a], x))
    BY DEF SendAll
  <2> QED BY <2>1, OrderAppend
<1> QED BY <1>1, <1>2 DEF Same, Steady, Keeps

(* So does reading anything but a freeze.                                  *)
LEMMA SteadyConsume ==
  ASSUME NEW ch \in [Arbiters -> Seq(Message)], NEW b \in Arbiters, ch[b] # << >>,
         Head(ch[b]).type # "STOP_ALL"
  PROVE  /\ Steady(ch, Consume(ch, b))
         /\ Head(ch[b]).type # "CONT_ALL" => Keeps(ch, Consume(ch, b))
<1>1. Same(ch, Consume(ch, b), Arbiters, "STOP_ALL")
  BY ConsumeSame
<1>2. Head(ch[b]).type # "CONT_ALL" => Same(ch, Consume(ch, b), Arbiters, "CONT_ALL")
  BY ConsumeSame
<1>3. \A a \in Arbiters : /\ Has(Consume(ch, b), a, "CONT_ALL") => Has(ch, a, "CONT_ALL")
                          /\ Once(ch, a, "CONT_ALL") => Once(Consume(ch, b), a, "CONT_ALL")
  BY ConsumeHas
<1>4. ASSUME NEW a \in Arbiters
      PROVE  NoneBehind(ch[a], "STOP_ALL", "CONT_ALL") => NoneBehind(Consume(ch, b)[a], "STOP_ALL", "CONT_ALL")
  <2>1. ch[a] \in Seq(Message) /\ (Consume(ch, b)[a] = ch[a] \/ (ch[a] # << >> /\ Consume(ch, b)[a] = Tail(ch[a])))
    BY DEF Consume
  <2>2. ch[a] # << >> => (NoneBehind(ch[a], "STOP_ALL", "CONT_ALL") => NoneBehind(Tail(ch[a]), "STOP_ALL", "CONT_ALL"))
    BY <2>1, OrderTail
  <2> QED BY <2>1, <2>2
<1> QED BY <1>1, <1>2, <1>3, <1>4 DEF Same, Steady, Keeps

(* Two such steps in a row are one.                                        *)
LEMMA SteadyTwice ==
  /\ \A x, y, z : Steady(x, y) /\ Steady(y, z) => Steady(x, z)
  /\ \A x, y, z : Keeps(x, y) /\ Keeps(y, z) => Keeps(x, z)
  /\ \A x : Steady(x, x) /\ Keeps(x, x)
BY DEF Steady, Keeps

(* A step that leaves the round as it is.                                  *)
LEMMA StopKept ==
  ASSUME StopInv, Steady(s2a, s2a'), Same(a2s, a2s', Arbiters, "STOP_DONE"),
         step' = step \/ (step \in FrozenSteps /\ step' \in FrozenSteps),
         step' = "WAITING_STOP_ACK" => UNCHANGED nproc_stopped,
         step' # "READY" => started',
         \A a \in Arbiters : ~Live(a) => ~Live(a)',
         \A a \in Arbiters : Resuming(a) /\ ~Resuming(a)' => Live(a)
  PROVE  StopInv' /\ ((\A a \in Arbiters : Full(a)' => Full(a)) => (Whole' => Whole))
<1>1. \A a \in Arbiters : /\ StopAck(a)' <=> StopAck(a)
                          /\ Once(a2s, a, "STOP_DONE") => Once(a2s, a, "STOP_DONE")'
                          /\ \A m : m.type = "STOP_DONE" => (In(a2s, a, m)' <=> In(a2s, a, m))
  BY DEF Same, StopAck, Has, Once, In
<1>2. \A a \in Arbiters : /\ Stopping(a)' <=> Stopping(a)
                          /\ Resuming(a)' => Resuming(a)
                          /\ Once(s2a, a, "STOP_ALL") => Once(s2a, a, "STOP_ALL")'
                          /\ Once(s2a, a, "CONT_ALL") => Once(s2a, a, "CONT_ALL")'
                          /\ NoneBehind(s2a[a], "STOP_ALL", "CONT_ALL") => NoneBehind(s2a'[a], "STOP_ALL", "CONT_ALL")
  BY DEF Steady, Stopping, Resuming, Has, Once
<1>3. step = "WAITING_STOP_ACK" <=> step' = "WAITING_STOP_ACK"
  BY DEF FrozenSteps
<1>4. \A a \in Arbiters : StopLink(a)'
  <2> TAKE a \in Arbiters
  <2>1. StopLink(a)
    BY DEF StopInv
  <2> QED BY <1>1, <1>2, <1>3, <2>1 DEF StopLink, FrozenSteps
<1>5. step = "WAITING_STOP_ACK" => StopCounted' = StopCounted
  <2> SUFFICES ASSUME step = "WAITING_STOP_ACK", NEW q \in Procs
               PROVE  LET b == Home[q]
                      IN  (~Stopping(b) /\ ~StopAck(b) /\ ~Resuming(b)) <=> (~Stopping(b)' /\ ~StopAck(b)' /\ ~Resuming(b)')
    BY DEF StopCounted
  <2>1. Home[q] \in Arbiters
    BY HomeAssumption
  <2>2. StopLink(Home[q])
    BY <2>1 DEF StopInv
  <2> QED BY <1>1, <1>2, <2>1, <2>2 DEF StopLink
<1>6. StopInv'
  BY <1>3, <1>4, <1>5 DEF StopInv
<1>7. ASSUME \A a \in Arbiters : Full(a)' => Full(a), Whole' PROVE Whole
  <2>1. step = "READY" => \A a \in Arbiters : Full(a)
    BY <1>7 DEF Whole, FrozenSteps
  <2>2. ASSUME step = "WAITING_STOP_ACK"
        PROVE  nproc_stopped = Cardinality(StopCounted) /\ \A a \in Arbiters : Exact(a)
    <3>1. nproc_stopped = Cardinality(StopCounted) /\ \A a \in Arbiters : Exact(a)'
      BY <1>3, <1>5, <1>7, <2>2 DEF Whole
    <3>2. \A a \in Arbiters : Exact(a)
      <4> TAKE a \in Arbiters
      <4>1. Exact(a)' /\ StopLink(a) /\ (Full(a)' => Full(a))
        BY <1>7, <3>1 DEF StopInv
      <4>2. Stopping(a) => Full(a)
        BY <1>2, <4>1 DEF Exact
      <4>3. Resuming(a) => Stopping(a)
        BY <1>2, <2>2, <4>1 DEF Exact, StopLink
      <4>4. \A m : In(a2s, a, m) /\ m.type = "STOP_DONE" => m.nproc = Cardinality(Local(a))
        <5> SUFFICES ASSUME NEW m, In(a2s, a, m), m.type = "STOP_DONE" PROVE m.nproc = Cardinality(Local(a))
          OBVIOUS
        <5>1. In(a2s, a, m)'
          BY <1>1
        <5>2. In(a2s, a, m)' /\ m.type = "STOP_DONE" => m.nproc = Cardinality(Local(a))
          BY <4>1 DEF Exact, Local
        <5> QED BY <5>1, <5>2
      <4> QED BY <4>2, <4>3, <4>4 DEF Exact
    <3> QED BY <3>1, <3>2
  <2> QED BY <2>1, <2>2 DEF Whole
<1> QED BY <1>6, <1>7

-----------------------------------------------------------------------------
(***************************************************************************)
(* The kinds of step of a server that has started the session.             *)
(***************************************************************************)
Takes(a, t) == a \in conns /\ a2s[a] # << >> /\ Head(a2s[a]).type = t /\ a2s' = Consume(a2s, a)
Puts(S, t)  == \E x \in Message : x.type = t /\ s2a' = SendAll(s2a, S, x)

(* The round stays where it is.                                            *)
Rests(a) == /\ UNCHANGED <<step, nproc_stopped>>
            /\ opqueue # << >> => opqueue' # << >> /\ Head(opqueue') = Head(opqueue)
            /\ UNCHANGED a2s \/ \E t : t # "STOP_DONE" /\ Takes(a, t)
            /\ \E S, t : t \notin Orders /\ Puts(S, t)
(* The first request of a queue: freeze everyone.                          *)
Freezes(a) == /\ Takes(a, "SYNC_REQ") /\ Puts(conns, "STOP_ALL")
              /\ step = "READY" /\ step' = "WAITING_STOP_ACK" /\ UNCHANGED nproc_stopped
(* An acknowledgement, and the grant that the last one brings.             *)
Counts(a)  == /\ Takes(a, "STOP_DONE") /\ step = "WAITING_STOP_ACK"
              /\ \/ /\ ~AllStopped(Head(a2s[a]).nproc) /\ UNCHANGED <<s2a, step, opqueue>>
                    /\ nproc_stopped' = nproc_stopped + Head(a2s[a]).nproc
                 \/ /\ AllStopped(Head(a2s[a]).nproc) /\ step' = "WAITING_SYNC_INFO"
                    /\ UNCHANGED opqueue /\ Puts({Head(opqueue)}, "WRITE_OKAY")
(* The data is passed on; the last acknowledgement hands over to the next  *)
(* writer or resumes everyone.                                             *)
Spreads(a) == /\ Takes(a, "SYNC_INFO") /\ Puts(conns, "SYNC_INFO")
              /\ step = "WAITING_SYNC_INFO" /\ step' = "WAITING_SYNC_ACK"
Ends(a) == \/ Takes(a, "SYNC_INFO") /\ conns = {a} /\ step = "WAITING_SYNC_INFO"
           \/ Takes(a, "SYNC_DONE") /\ step = "WAITING_SYNC_ACK"
HandsOver(a) == /\ Ends(a) /\ step' = "WAITING_SYNC_INFO"
                /\ opqueue' # << >> /\ Puts({Head(opqueue')}, "WRITE_OKAY")
Resumes(a)   == Ends(a) /\ step' = "READY" /\ Puts(conns, "CONT_ALL")

(* What a handler of the server does to the round is one of the six.       *)
LEMMA ServerKinds ==
  ASSUME TypeOK, StepMatchesQueue, StopInv, NEW a \in Arbiters, ServerStep(a), started
  PROVE  /\ started'
         /\ \/ Rests(a) \/ Freezes(a) \/ Counts(a)
            \/ Spreads(a) \/ HandsOver(a) \/ Resumes(a)
<1>0. /\ s2a \in [Arbiters -> Seq(Message)] /\ a2s \in [Arbiters -> Seq(Message)]
      /\ opqueue \in Seq(Arbiters) /\ conns \subseteq Arbiters /\ nproc_synced \in Nat
  BY DEF TypeOK, NetTypeOK, ServerTypeOK
<1>m. \A t \in SimpleTypes : Simple(t) \in Message /\ Simple(t).type = t
  BY MessageTypes DEF Simple
<1>p. \A S : \A t \in SimpleTypes : s2a' = SendAll(s2a, S, Simple(t)) => Puts(S, t)
  <2> TAKE S
  <2> TAKE t \in SimpleTypes
  <2> HAVE s2a' = SendAll(s2a, S, Simple(t))
  <2>1. Simple(t) \in Message /\ Simple(t).type = t
    BY <1>m
  <2> QED BY <2>1 DEF Puts
<1>s. \A b \in Arbiters : \A t \in SimpleTypes : s2a' = Send(s2a, b, Simple(t)) => Puts({b}, t)
  <2>1. \A b \in Arbiters : \A t : Send(s2a, b, Simple(t)) = SendAll(s2a, {b}, Simple(t))
    BY <1>0 DEF Send, SendAll
  <2> TAKE b \in Arbiters
  <2> TAKE t \in SimpleTypes
  <2> HAVE s2a' = Send(s2a, b, Simple(t))
  <2>2. s2a' = SendAll(s2a, {b}, Simple(t))
    BY <2>1
  <2> QED BY <1>p, <2>2
<1>u. UNCHANGED s2a => Puts({}, "WAIT_DONE")
  <2>1. s2a = SendAll(s2a, {}, Simple("WAIT_DONE"))
    BY <1>0 DEF SendAll
  <2> QED BY <1>p, <2>1 DEF SimpleTypes
<1>t. \A t : SrvReceive(a, t) => Takes(a, t)
  BY DEF SrvReceive, Waiting, Takes
<1>o. "WAIT_DONE" \notin Orders
  BY DEF Orders
<1>n. \A t : SrvReceive(a, t) /\ t # "STOP_DONE" /\ SrvPanic => Rests(a) /\ started'
  BY <1>t, <1>u, <1>o DEF SrvPanic, writeVars, Rests
<1>k. ASSUME NEW n \in Nat, Synced(n), opqueue # << >>, AllSynced(n), Ends(a) PROVE HandsOver(a) \/ Resumes(a)
  <2>1. CASE Tail(opqueue) = << >>
    <3>1. step' = "READY" /\ s2a' = SendAll(s2a, conns, Simple("CONT_ALL"))
      BY <1>k, <2>1 DEF Synced, StepAfter
    <3> QED BY <1>k, <1>p, <3>1 DEF Resumes, SimpleTypes
  <2>2. CASE Tail(opqueue) # << >>
    <3>0. PICK h \in Arbiters : h = Head(Tail(opqueue))
      BY <1>0, <1>k, <2>2, SeqTypes
    <3>1. step' = "WAITING_SYNC_INFO" /\ opqueue' = Tail(opqueue) /\ s2a' = Send(s2a, h, Simple("WRITE_OKAY"))
      BY <1>k, <2>2, <3>0 DEF Synced, StepAfter
    <3>2. Puts({h}, "WRITE_OKAY")
      BY <1>s, <3>1 DEF SimpleTypes
    <3> QED BY <1>k, <2>2, <3>0, <3>1, <3>2 DEF HandsOver
  <2> QED BY <2>1, <2>2
<1>1. CASE SrvAccept(a)
  BY <1>1, <1>u, <1>o DEF SrvAccept, writeVars, Rests
<1>2. CASE SrvAddProc(a)
  BY <1>2, <1>n DEF SrvAddProc
<1>3. CASE SrvSyncRequest(a)
  <2>1. CASE SrvPanic
    BY <1>3, <1>n, <2>1 DEF SrvSyncRequest
  <2>2. CASE ~SrvPanic /\ opqueue = << >>
    <3>1. /\ SrvReceive(a, "SYNC_REQ") /\ step = "READY" /\ step' = "WAITING_STOP_ACK" /\ started'
          /\ UNCHANGED nproc_stopped /\ s2a' = SendAll(s2a, conns, Simple("STOP_ALL"))
      BY <1>3, <2>2 DEF SrvSyncRequest, counters
    <3> QED BY <1>p, <1>t, <3>1 DEF Freezes, SimpleTypes
  <2>3. CASE ~SrvPanic /\ opqueue # << >>
    <3>1. /\ SrvReceive(a, "SYNC_REQ") /\ UNCHANGED <<s2a, step, nproc_stopped, started>>
          /\ opqueue' = Append(opqueue, a)
      BY <1>3, <2>3 DEF SrvSyncRequest, counters
    <3>2. opqueue' # << >> /\ Head(opqueue') = Head(opqueue)
      BY <1>0, <2>3, <3>1, AppendPlaces, SeqTypes
    <3> QED BY <1>t, <1>u, <1>o, <3>1, <3>2 DEF Rests
  <2> QED BY <2>1, <2>2, <2>3
<1>4. CASE SrvStopDone(a)
  <2>1. PICK n : n = Head(a2s[a]).nproc
    OBVIOUS
  <2>2. SrvReceive(a, "STOP_DONE")
    BY <1>4 DEF SrvStopDone
  <2>3. StopAck(a)
    <3>1. a2s[a] # << >> /\ Head(a2s[a]).type = "STOP_DONE"
      BY <2>2 DEF SrvReceive, Waiting
    <3>2. a2s \in [Arbiters -> Seq(Message)]
      BY <1>0
    <3> QED BY <3>1, <3>2, ConsumeHas DEF StopAck
  <2>4. step = "WAITING_STOP_ACK" /\ opqueue # << >>
    BY <2>3 DEF StopInv, StopLink, StepMatchesQueue
  <2>5. PICK h \in Arbiters : h = Head(opqueue)
    BY <1>0, <2>4, SeqTypes
  <2>6. CASE AllStopped(n)
    <3>1. s2a' = Send(s2a, h, Simple("WRITE_OKAY")) /\ step' = "WAITING_SYNC_INFO" /\ UNCHANGED <<opqueue, started>>
      BY <1>4, <2>1, <2>4, <2>5, <2>6 DEF SrvStopDone
    <3>2. Puts({h}, "WRITE_OKAY")
      BY <1>s, <3>1 DEF SimpleTypes
    <3> QED BY <1>t, <2>1, <2>2, <2>4, <2>5, <2>6, <3>1, <3>2 DEF Counts
  <2>7. CASE ~AllStopped(n)
    <3>1. UNCHANGED <<s2a, step, opqueue, started>> /\ nproc_stopped' = nproc_stopped + n
      BY <1>4, <2>1, <2>4, <2>7 DEF SrvStopDone
    <3> QED BY <1>t, <2>1, <2>2, <2>4, <2>7, <3>1 DEF Counts
  <2> QED BY <2>6, <2>7, <1>4, <2>1 DEF SrvStopDone, Counts
<1>5. CASE SrvSyncInfo(a)
  <2>0. SrvReceive(a, "SYNC_INFO") /\ Takes(a, "SYNC_INFO")
    BY <1>5, <1>t DEF SrvSyncInfo
  <2>1. CASE SrvPanic
    BY <1>n, <2>0, <2>1
  <2>2. CASE ~SrvPanic
    <3>1. step = "WAITING_SYNC_INFO" /\ opqueue # << >> /\ started'
      BY <1>5, <2>2 DEF SrvSyncInfo, IsWriter
    <3>2. CASE Cardinality(conns) = 1
      <4>1. conns = {a}
        <5>1. IsFiniteSet(conns)
          BY <1>0, FiniteArbiters, FS_Subset
        <5>2. PICK c : conns = {c}
          BY <3>2, <5>1, FS_Singleton
        <5> QED BY <2>0, <5>2 DEF Takes
      <4>2. Synced(NProc) /\ NProc \in Nat
        BY <1>5, <2>2, <3>2, NProcType DEF SrvSyncInfo
      <4>3. AllSynced(NProc)
        BY <1>0, NProcType DEF AllSynced
      <4> QED BY <1>k, <2>0, <3>1, <4>1, <4>2, <4>3 DEF Ends
    <3>3. CASE Cardinality(conns) # 1
      <4>1. s2a' = SendAll(s2a, conns, Head(a2s[a])) /\ step' = "WAITING_SYNC_ACK"
        BY <1>5, <2>2, <3>3 DEF SrvSyncInfo
      <4>2. Head(a2s[a]) \in Message /\ Head(a2s[a]).type = "SYNC_INFO"
        BY <1>0, <2>0, ChannelTypes DEF Takes
      <4>3. Puts(conns, "SYNC_INFO")
        BY <4>1, <4>2 DEF Puts
      <4> QED BY <2>0, <3>1, <4>1, <4>3 DEF Spreads
    <3> QED BY <3>2, <3>3
  <2> QED BY <2>1, <2>2
<1>6. CASE SrvSyncDone(a)
  <2>0. SrvReceive(a, "SYNC_DONE") /\ Takes(a, "SYNC_DONE")
    BY <1>6, <1>t DEF SrvSyncDone
  <2>1. CASE SrvPanic
    BY <1>n, <2>0, <2>1
  <2>2. CASE ~SrvPanic
    <3>1. PICK n : n = Head(a2s[a]).nproc
      OBVIOUS
    <3>2. /\ step = "WAITING_SYNC_ACK" /\ Synced(n) /\ started' /\ UNCHANGED nproc_stopped
      BY <1>6, <2>2, <3>1 DEF SrvSyncDone
    <3>3. n \in Nat
      <4>1. Head(a2s[a]) \in Message /\ Head(a2s[a]).type = "SYNC_DONE"
        BY <1>0, <2>0, ChannelTypes DEF Takes
      <4> QED BY <3>1, <4>1, PayloadTypes
    <3>4. opqueue # << >>
      BY <3>2 DEF StepMatchesQueue
    <3>5. CASE AllSynced(n)
      BY <1>k, <2>0, <3>2, <3>3, <3>4, <3>5 DEF Ends
    <3>6. CASE ~AllSynced(n)
      <4>1. UNCHANGED <<s2a, opqueue, step>>
        BY <3>2, <3>6 DEF Synced
      <4> QED BY <1>u, <1>o, <2>0, <3>2, <4>1 DEF Rests
    <3> QED BY <3>5, <3>6
  <2> QED BY <2>1, <2>2
<1>7. CASE SrvWaitBarr(a)
  <2>0. SrvReceive(a, "WAIT_BARR")
    BY <1>7 DEF SrvWaitBarr
  <2>1. CASE SrvPanic
    BY <1>n, <2>0, <2>1
  <2>2. CASE ~SrvPanic
    <3>1. /\ UNCHANGED <<started, writeVars>>
          /\ UNCHANGED s2a \/ s2a' = SendAll(s2a, conns, Simple("WAIT_DONE"))
      BY <1>7, <2>2 DEF SrvWaitBarr
    <3>2. \E S : Puts(S, "WAIT_DONE")
      BY <1>p, <1>u, <3>1 DEF SimpleTypes
    <3> QED BY <1>t, <1>o, <2>0, <3>1, <3>2 DEF Rests, writeVars
  <2> QED BY <2>1, <2>2
<1>8. CASE SrvPrgmDone(a)
  <2>0. SrvReceive(a, "PRGM_DONE")
    BY <1>8 DEF SrvPrgmDone
  <2>1. CASE SrvPanic
    BY <1>n, <2>0, <2>1
  <2>2. CASE ~SrvPanic
    <3>1. UNCHANGED <<started, writeVars, s2a>>
      BY <1>8, <2>2 DEF SrvPrgmDone
    <3> QED BY <1>t, <1>o, <1>u, <2>0, <3>1 DEF Rests, writeVars
  <2> QED BY <2>1, <2>2
<1> QED BY <1>1, <1>2, <1>3, <1>4, <1>5, <1>6, <1>7, <1>8 DEF ServerStep

(* What is in a channel after a broadcast.                                 *)
LEMMA PutsHas ==
  ASSUME s2a \in [Arbiters -> Seq(Message)], NEW S, NEW t, Puts(S, t)
  PROVE  \A b \in Arbiters : \A u :
           /\ Has(s2a', b, u) <=> Has(s2a, b, u) \/ (b \in S /\ t = u)
           /\ Once(s2a, b, u) /\ ~(b \in S /\ t = u /\ Has(s2a, b, u)) => Once(s2a', b, u)
<1>1. PICK x \in Message : x.type = t /\ s2a' = SendAll(s2a, S, x)
  BY DEF Puts
<1> SUFFICES ASSUME NEW b \in Arbiters, NEW u
             PROVE  /\ Has(s2a', b, u) <=> Has(s2a, b, u) \/ (b \in S /\ t = u)
                    /\ Once(s2a, b, u) /\ ~(b \in S /\ t = u /\ Has(s2a, b, u)) => Once(s2a', b, u)
  OBVIOUS
<1>2. /\ Has(SendAll(s2a, S, x), b, u) <=> Has(s2a, b, u) \/ (b \in S /\ x.type = u)
      /\ Once(s2a, b, u) /\ ~(b \in S /\ x.type = u /\ Has(s2a, b, u)) => Once(SendAll(s2a, S, x), b, u)
  BY SendAllHas
<1> QED BY <1>1, <1>2

(* What a broadcast leaves as it was.                                      *)
LEMMA PutsKept ==
  ASSUME s2a \in [Arbiters -> Seq(Message)], NEW S, NEW t, Puts(S, t)
  PROVE  /\ t \notin {"STOP_ALL", "CONT_ALL"} => Steady(s2a, s2a') /\ Keeps(s2a, s2a')
         /\ \A u : u # t => Same(s2a, s2a', Arbiters, u)
         /\ \A b \in Arbiters :
              s2a'[b] = s2a[b] \/ \E x \in Message : b \in S /\ x.type = t /\ s2a'[b] = Append(s2a[b], x)
<1>1. PICK x \in Message : x.type = t /\ s2a' = SendAll(s2a, S, x)
  BY DEF Puts
<1>2. t \notin {"STOP_ALL", "CONT_ALL"} => Steady(s2a, SendAll(s2a, S, x)) /\ Keeps(s2a, SendAll(s2a, S, x))
  BY <1>1, SteadySend
<1>3. \A u : u # t => Same(s2a, SendAll(s2a, S, x), Arbiters, u)
  BY <1>1, SendSame
<1>4. \A b \in Arbiters : SendAll(s2a, S, x)[b] = s2a[b] \/ (b \in S /\ SendAll(s2a, S, x)[b] = Append(s2a[b], x))
  BY DEF SendAll
<1> QED BY <1>1, <1>2, <1>3, <1>4

(* What is left in a channel after a message is taken.                     *)
LEMMA TakesHas ==
  ASSUME a2s \in [Arbiters -> Seq(Message)], NEW a \in Arbiters, NEW t, Takes(a, t)
  PROVE  /\ Has(a2s, a, t) /\ Head(a2s[a]) \in Message /\ In(a2s, a, Head(a2s[a]))
         /\ \A b \in Arbiters : \A u : (Has(a2s', b, u) => Has(a2s, b, u)) /\ (Once(a2s, b, u) => Once(a2s', b, u))
         /\ \A b \in Arbiters : \A m : In(a2s', b, m) => In(a2s, b, m)
         /\ \A u : u # t => Same(a2s, a2s', Arbiters, u)
         /\ Once(a2s, a, t) => ~Has(a2s', a, t)
<1>1. a2s[a] # << >> /\ Head(a2s[a]).type = t /\ a2s' = Consume(a2s, a)
  BY DEF Takes
<1>2. Has(a2s, a, t) /\ Head(a2s[a]) \in Message /\ In(a2s, a, Head(a2s[a]))
  BY <1>1, ConsumeHas, HasIn, ChannelTypes
<1>3. \A b \in Arbiters : \A u : /\ Has(Consume(a2s, a), b, u) => Has(a2s, b, u)
                                 /\ Once(a2s, b, u) => Once(Consume(a2s, a), b, u)
  BY <1>1, ConsumeHas
<1>4. \A b \in Arbiters : \A m : In(Consume(a2s, a), b, m) => In(a2s, b, m)
  BY <1>1, ConsumeIn
<1>5. \A u : u # t => Same(a2s, Consume(a2s, a), Arbiters, u)
  BY <1>1, ConsumeSame
<1>6. Once(a2s, a, t) => ~Has(Consume(a2s, a), a, t)
  BY <1>1, ConsumeHas
<1> QED BY <1>1, <1>2, <1>3, <1>4, <1>5, <1>6

(* Before the session starts the round does not move.                      *)
LEMMA IdleStart ==
  ASSUME TypeOK, StopInv, NEW a \in Arbiters, ServerStep(a), ~started
  PROVE  /\ UNCHANGED <<step, opqueue, nproc_stopped>>
         /\ Steady(s2a, s2a') /\ Keeps(s2a, s2a') /\ Same(a2s, a2s', Arbiters, "STOP_DONE")
<1>0. s2a \in [Arbiters -> Seq(Message)] /\ a2s \in [Arbiters -> Seq(Message)] /\ conns \subseteq Arbiters
  BY DEF TypeOK, NetTypeOK, ServerTypeOK
<1>1. UNCHANGED <<step, opqueue, nproc_stopped>>
  BY DEF ServerStep, SrvAccept, SrvAddProc, SrvSyncRequest, SrvStopDone, SrvSyncInfo, SrvSyncDone,
         SrvWaitBarr, SrvPrgmDone, SrvPanic, writeVars
<1>2. Steady(s2a, s2a') /\ Keeps(s2a, s2a')
  <2>1. \A ch \in [Arbiters -> Seq(Message)], x \in Message : \A S :
          x.type \notin Orders => Steady(ch, SendAll(ch, S, x)) /\ Keeps(ch, SendAll(ch, S, x))
    BY SteadySend DEF Orders
  <2>2. CASE \E S : \E x \in Message : s2a' = SendAll(s2a, S, x) /\ x.type \notin Orders
    <3>1. PICK S : \E x \in Message : s2a' = SendAll(s2a, S, x) /\ x.type \notin Orders
      BY <2>2
    <3>2. PICK x \in Message : s2a' = SendAll(s2a, S, x) /\ x.type \notin Orders
      BY <3>1
    <3>3. s2a \in [Arbiters -> Seq(Message)]
      BY <1>0
    <3>4. Steady(s2a, SendAll(s2a, S, x)) /\ Keeps(s2a, SendAll(s2a, S, x))
      <4>1. x.type \notin {"STOP_ALL", "CONT_ALL"}
        BY <3>2 DEF Orders
      <4> QED BY <3>2, <3>3, <4>1, SteadySend
    <3> QED BY <3>2, <3>4
  <2>3. ASSUME NEW x \in Message, x.type \notin Orders,
               s2a' = SendAll(Send(s2a, a, x), conns, Simple("WAIT_DONE"))
        PROVE  Steady(s2a, s2a') /\ Keeps(s2a, s2a')
    <3>1. PICK r : r = Send(s2a, a, x)
      OBVIOUS
    <3>2. r \in [Arbiters -> Seq(Message)] /\ r = SendAll(s2a, {a}, x)
      <4>1. s2a \in [Arbiters -> Seq(Message)]
        BY <1>0
      <4>2. Send(s2a, a, x) \in [Arbiters -> Seq(Message)]
        BY <4>1, ChannelTypes
      <4>3. Send(s2a, a, x) = SendAll(s2a, {a}, x)
        BY <4>1 DEF Send, SendAll
      <4> QED BY <3>1, <4>2, <4>3
    <3>3. Simple("WAIT_DONE") \in Message /\ Simple("WAIT_DONE").type \notin Orders
      BY MessageTypes DEF Simple, SimpleTypes, Orders
    <3>4. Steady(s2a, r) /\ Keeps(s2a, r)
      BY <1>0, <2>1, <2>3, <3>2
    <3>5. Steady(r, s2a') /\ Keeps(r, s2a')
      BY <2>1, <2>3, <3>1, <3>2, <3>3
    <3> QED BY <3>4, <3>5, SteadyTwice
  <2> QED BY <2>2, <2>3, ServerOrders
<1>3. Same(a2s, a2s', Arbiters, "STOP_DONE")
  <2>1. UNCHANGED a2s \/ (a2s[a] # << >> /\ a2s' = Consume(a2s, a))
    BY ServerEffect
  <2>2. ASSUME a2s[a] # << >> PROVE Head(a2s[a]).type # "STOP_DONE"
    <3>1. Head(a2s[a]).type = "STOP_DONE" => StopAck(a)
      BY <1>0, <2>2, ConsumeHas DEF StopAck
    <3> QED BY <3>1 DEF StopInv, StopLink
  <2> QED BY <1>0, <2>1, <2>2, ConsumeSame, SameChannel
<1> QED BY <1>1, <1>2, <1>3

-----------------------------------------------------------------------------
(* a's processes are held, from the freeze to the resume.                  *)
Halted(a) == Resuming(a) \/ (step # "READY" /\ ~Stopping(a))

(* What every step keeps of the round; a machine is halted and let go by   *)
(* its own arbiter only.                                                   *)
GoesOn == /\ StopInv' /\ (Whole' => Whole)
          /\ \A b \in Arbiters : /\ Whole' /\ Halted(b)' => Halted(b)
                                 /\ Live(b) /\ Halted(b) => Halted(b)'

(* A step that changes neither the table nor what is on its way.           *)
LEMMA RoundUntouched ==
  ASSUME StopInv, UNCHANGED <<step, nproc_stopped, a2s, s2a, ptab>>, started => started',
         \A a \in Arbiters : ~Live(a) => ~Live(a)'
  PROVE  GoesOn
<1>1. \A a \in Arbiters : /\ Stopping(a)' <=> Stopping(a)
                          /\ Resuming(a)' <=> Resuming(a)
                          /\ Full(a)' <=> Full(a)
  BY DEF Stopping, Resuming, Has, Full
<1>2. Steady(s2a, s2a') /\ Same(a2s, a2s', Arbiters, "STOP_DONE")
  BY SteadyTwice, SameChannel
<1>3. step' # "READY" => started'
  BY DEF StopInv
<1>4. StopInv' /\ ((\A a \in Arbiters : Full(a)' => Full(a)) => (Whole' => Whole))
  BY <1>1, <1>2, <1>3, StopKept
<1>5. \A b \in Arbiters : Halted(b)' <=> Halted(b)
  BY <1>1 DEF Halted
<1> QED BY <1>1, <1>4, <1>5 DEF GoesOn

(* A handler that has no part in the round.                                *)
LEMMA ServerRests ==
  ASSUME TypeOK, StopInv, UNCHANGED <<arbVars>>,
         \/ step' = step /\ (step = "WAITING_STOP_ACK" => UNCHANGED nproc_stopped)
         \/ step \in FrozenSteps /\ step' \in FrozenSteps,
         step # "READY" => started',
         Steady(s2a, s2a') /\ Keeps(s2a, s2a'), Same(a2s, a2s', Arbiters, "STOP_DONE")
  PROVE  GoesOn
<1>1. \A a \in Arbiters : Full(a)' => Full(a)
  BY DEF arbVars, Full
<1>2. \A a \in Arbiters : Live(a)' <=> Live(a)
  BY DEF arbVars, Live
<1>3. \A a \in Arbiters : /\ Stopping(a)' <=> Stopping(a)
                          /\ Resuming(a)' <=> Resuming(a)
  BY DEF Steady, Keeps, Stopping, Resuming, Has
<1>4. step' # "READY" <=> step # "READY"
  BY DEF FrozenSteps
<1>5. StopInv' /\ ((\A a \in Arbiters : Full(a)' => Full(a)) => (Whole' => Whole))
  <2>1. step' = step \/ (step \in FrozenSteps /\ step' \in FrozenSteps)
    OBVIOUS
  <2>2. step' = "WAITING_STOP_ACK" => UNCHANGED nproc_stopped
    BY DEF FrozenSteps
  <2> QED BY <1>2, <1>3, <1>4, <2>1, <2>2, StopKept
<1>6. \A b \in Arbiters : Halted(b)' <=> Halted(b)
  BY <1>3, <1>4 DEF Halted
<1> QED BY <1>1, <1>5, <1>6 DEF GoesOn

(* The freeze is sent to every arbiter that is still there.                *)
LEMMA ServerFreezes ==
  ASSUME TypeOK, StepMatchesQueue, CountInv, LinkInv, StopInv, NEW a \in Arbiters, Freezes(a),
         started, started', UNCHANGED arbVars
  PROVE  GoesOn
<1>0. s2a \in [Arbiters -> Seq(Message)] /\ a2s \in [Arbiters -> Seq(Message)]
  BY DEF TypeOK, NetTypeOK
<1>1. /\ Takes(a, "SYNC_REQ") /\ Puts(conns, "STOP_ALL")
      /\ step = "READY" /\ step' = "WAITING_STOP_ACK" /\ nproc_stopped' = 0
  BY DEF Freezes, StepMatchesQueue
<1>2. \A b \in Arbiters : ~Stopping(b) /\ ~StopAck(b)
  BY <1>1 DEF StopInv, StopLink
<1>3. /\ \A b \in Arbiters : Stopping(b)' <=> b \in conns
      /\ \A b \in Arbiters : Resuming(b)' <=> Resuming(b)
      /\ \A b \in Arbiters : Once(s2a', b, "STOP_ALL") /\ Once(s2a', b, "CONT_ALL")
  <2>0. s2a \in [Arbiters -> Seq(Message)]
    BY <1>0
  <2>1. \A b \in Arbiters : \A u :
           /\ Has(s2a', b, u) <=> Has(s2a, b, u) \/ (b \in conns /\ "STOP_ALL" = u)
           /\ Once(s2a, b, u) /\ ~(b \in conns /\ "STOP_ALL" = u /\ Has(s2a, b, u)) => Once(s2a', b, u)
    BY <1>1, <2>0, PutsHas
  <2>2. \A b \in Arbiters : ~Has(s2a, b, "STOP_ALL") /\ Once(s2a, b, "STOP_ALL") /\ Once(s2a, b, "CONT_ALL")
    BY <1>2 DEF StopInv, StopLink, Stopping
  <2>3. \A b \in Arbiters : (Stopping(b)' <=> Has(s2a', b, "STOP_ALL")) /\ (Resuming(b)' <=> Has(s2a', b, "CONT_ALL"))
    BY DEF Stopping, Resuming, Has
  <2>4. \A b \in Arbiters : Stopping(b)' <=> b \in conns
    BY <2>1, <2>2, <2>3
  <2>5. \A b \in Arbiters : Resuming(b)' <=> Resuming(b)
    BY <2>1, <2>3 DEF Resuming
  <2> QED BY <2>1, <2>2, <2>4, <2>5
<1>4. \A b \in Arbiters : ~StopAck(b)' /\ Once(a2s', b, "STOP_DONE") /\ \A m : ~(In(a2s', b, m) /\ m.type = "STOP_DONE")
  <2>0. a2s \in [Arbiters -> Seq(Message)]
    BY <1>0
  <2>1. Same(a2s, a2s', Arbiters, "STOP_DONE")
    BY <1>1, <2>0, TakesHas
  <2>2. \A b \in Arbiters : ~Has(a2s', b, "STOP_DONE") /\ Once(a2s', b, "STOP_DONE")
    BY <1>2, <2>1 DEF Same, StopAck, StopInv, StopLink
  <2> QED BY <2>2 DEF StopAck, Has, In
<1>5. \A b \in Arbiters : NoneBehind(s2a'[b], "STOP_ALL", "CONT_ALL")
  <2> TAKE b \in Arbiters
  <2>0. s2a \in [Arbiters -> Seq(Message)] /\ s2a[b] \in Seq(Message)
    BY <1>0
  <2>1. NoneBehind(s2a[b], "STOP_ALL", "CONT_ALL")
    BY DEF StopInv, StopLink
  <2>2. s2a'[b] = s2a[b] \/ \E x \in Message : b \in conns /\ x.type = "STOP_ALL" /\ s2a'[b] = Append(s2a[b], x)
    BY <1>1, <2>0, PutsKept
  <2>3. \A x \in Message : x.type = "STOP_ALL" => NoneBehind(Append(s2a[b], x), "STOP_ALL", "CONT_ALL")
    BY <2>0, <2>1, OrderAppend
  <2> QED BY <2>1, <2>2, <2>3
<1>6. \A b \in Arbiters : b \in conns \/ ~Live(b)'
  BY DEF CountInv, LinkInv, Live, arbVars
<1>7. nproc_stopped' <= Cardinality(StopCounted')
  <2>1. StopCounted' \subseteq Procs
    BY DEF StopCounted
  <2>2. Cardinality(StopCounted') \in Nat
    BY <2>1, ProcsAssumption, FS_Subset, FS_CardinalityType
  <2> QED BY <1>1, <2>2
<1>8. StopInv'
  <2>1. \A b \in Arbiters : StopLink(b)'
    BY <1>1, <1>3, <1>4, <1>5, <1>6 DEF StopLink, FrozenSteps
  <2> QED BY <1>1, <1>7, <2>1 DEF StopInv
<1>9. ASSUME Whole', NEW b \in Arbiters PROVE Stopping(b)' /\ Full(b)
  <2>1. Cardinality(StopCounted') = 0 /\ Exact(b)'
    BY <1>1, <1>9 DEF Whole
  <2>2. StopCounted' = {}
    <3>1. StopCounted' \subseteq Procs
      BY DEF StopCounted
    <3> QED BY <2>1, <3>1, ProcsAssumption, FS_Subset, FS_EmptySet
  <2>3. PICK p \in Procs : Home[p] = b
    BY HomeAssumption
  <2>4. Stopping(b)' \/ StopAck(b)' \/ Resuming(b)'
    BY <2>2, <2>3 DEF StopCounted
  <2>5. Stopping(b)'
    BY <1>4, <2>1, <2>4 DEF Exact
  <2>6. Full(b)'
    BY <2>1, <2>5 DEF Exact
  <2> QED BY <2>5, <2>6 DEF Full, arbVars
<1>10. Whole' => Whole
  BY <1>1, <1>9 DEF Whole
<1>11. \A b \in Arbiters : Whole' /\ Halted(b)' => Halted(b)
  BY <1>3, <1>9 DEF Halted
<1>12. \A b \in Arbiters : Live(b) /\ Halted(b) => Halted(b)'
  BY <1>1, <1>3 DEF Halted
<1> QED BY <1>8, <1>10, <1>11, <1>12 DEF GoesOn

(* A set of processes that grows by those of a machine.                    *)
LEMMA JoinCount ==
  ASSUME NEW C, C \subseteq Procs, NEW a \in Arbiters, C \cap Local(a) = {}
  PROVE  /\ Cardinality(C) \in Nat /\ Cardinality(Local(a)) \in Nat /\ Cardinality(Local(a)) > 0
         /\ Cardinality(C \cup Local(a)) = Cardinality(C) + Cardinality(Local(a))
         /\ Cardinality(C \cup Local(a)) <= NProc
         /\ Cardinality(C \cup Local(a)) = NProc => C \cup Local(a) = Procs
<1>1. IsFiniteSet(C) /\ IsFiniteSet(Local(a)) /\ IsFiniteSet(C \cup Local(a)) /\ C \cup Local(a) \subseteq Procs
  BY ProcsAssumption, FS_Subset DEF Local
<1>2. Cardinality(C) \in Nat /\ Cardinality(Local(a)) \in Nat
  BY <1>1, FS_CardinalityType
<1>3. Cardinality(C \cup Local(a)) = Cardinality(C) + Cardinality(Local(a)) - Cardinality(C \cap Local(a))
  BY <1>1, FS_Union
<1>4. Cardinality(C \cap Local(a)) = 0
  BY FS_EmptySet
<1>5. Cardinality(Local(a)) > 0
  <2>1. Local(a) # {}
    BY HomeAssumption DEF Local
  <2> QED BY <1>1, <1>2, <2>1, FS_EmptySet
<1>6. Cardinality(C \cup Local(a)) <= NProc
  BY <1>1, ProcsAssumption, FS_Subset DEF NProc
<1>7. Cardinality(C \cup Local(a)) = NProc => C \cup Local(a) = Procs
  BY <1>1, ProcsAssumption, FS_Subset DEF NProc
<1> QED BY <1>2, <1>3, <1>4, <1>5, <1>6, <1>7

(* An acknowledgement moves its machine's processes into the count; at     *)
(* NProc nobody is left to be frozen.                                      *)
LEMMA ServerCounts ==
  ASSUME TypeOK, StepMatchesQueue, StopInv, NEW a \in Arbiters, Counts(a),
         started, started', UNCHANGED arbVars
  PROVE  GoesOn
<1> DEFINE SD == "STOP_DONE"
           All == StopCounted \cup Local(a)
<1>0. s2a \in [Arbiters -> Seq(Message)] /\ a2s \in [Arbiters -> Seq(Message)] /\ nproc_stopped \in Nat
      /\ opqueue \in Seq(Arbiters)
  BY DEF TypeOK, NetTypeOK, ServerTypeOK
<1>1. PICK m : m = Head(a2s[a])
  OBVIOUS
<1>2. Takes(a, SD) /\ step = "WAITING_STOP_ACK" /\ m.type = SD
  BY <1>1 DEF Counts, Takes
<1>3. /\ In(a2s, a, m) /\ m \in Message /\ StopAck(a)
      /\ \A b \in Arbiters : (StopAck(b)' => StopAck(b)) /\ Once(a2s', b, SD)
      /\ \A b \in Arbiters : \A x : In(a2s', b, x) => In(a2s, b, x)
      /\ ~StopAck(a)'
  <2>0. a2s \in [Arbiters -> Seq(Message)]
    BY <1>0
  <2>1. /\ Has(a2s, a, SD) /\ Head(a2s[a]) \in Message /\ In(a2s, a, Head(a2s[a]))
        /\ \A b \in Arbiters : \A u : (Has(a2s', b, u) => Has(a2s, b, u)) /\ (Once(a2s, b, u) => Once(a2s', b, u))
        /\ \A b \in Arbiters : \A x : In(a2s', b, x) => In(a2s, b, x)
        /\ Once(a2s, a, SD) => ~Has(a2s', a, SD)
    BY <1>2, <2>0, TakesHas
  <2>2. \A b \in Arbiters : StopAck(b)' <=> Has(a2s', b, SD)
    BY DEF StopAck, Has
  <2>3. \A b \in Arbiters : Once(a2s, b, SD)
    BY DEF StopInv, StopLink
  <2> QED BY <1>1, <2>1, <2>2, <2>3 DEF StopAck
<1>4. /\ m.nproc \in Nat /\ m.nproc <= Cardinality(Local(a))
      /\ ~Stopping(a) /\ ~Resuming(a) /\ nproc_stopped <= Cardinality(StopCounted)
  BY <1>2, <1>3, PayloadTypes DEF StopInv, StopLink
<1>5. /\ StopCounted \subseteq Procs /\ StopCounted \cap Local(a) = {}
  BY <1>3 DEF StopCounted, Local
<1>6. /\ Cardinality(StopCounted) \in Nat /\ Cardinality(Local(a)) \in Nat
      /\ Cardinality(All) = Cardinality(StopCounted) + Cardinality(Local(a))
      /\ Cardinality(All) <= NProc
      /\ Cardinality(All) = NProc => All = Procs
  BY <1>5, JoinCount
<1>7. /\ \A b \in Arbiters : Stopping(b)' <=> Stopping(b)
      /\ \A b \in Arbiters : Resuming(b)' <=> Resuming(b)
      /\ \A b \in Arbiters : Once(s2a', b, "STOP_ALL") /\ Once(s2a', b, "CONT_ALL")
                             /\ NoneBehind(s2a'[b], "STOP_ALL", "CONT_ALL")
  <2>0. s2a \in [Arbiters -> Seq(Message)]
    BY <1>0
  <2>1. Steady(s2a, s2a') /\ Keeps(s2a, s2a')
    <3>1. UNCHANGED s2a => Steady(s2a, s2a') /\ Keeps(s2a, s2a')
      BY SteadyTwice
    <3>2. ASSUME NEW S, Puts(S, "WRITE_OKAY") PROVE Steady(s2a, s2a') /\ Keeps(s2a, s2a')
      BY <2>0, <3>2, PutsKept
    <3> QED BY <3>1, <3>2 DEF Counts
  <2>2. \A b \in Arbiters : Once(s2a, b, "STOP_ALL") /\ Once(s2a, b, "CONT_ALL") /\ NoneBehind(s2a[b], "STOP_ALL", "CONT_ALL")
    BY DEF StopInv, StopLink
  <2> QED BY <2>1, <2>2 DEF Steady, Keeps, Stopping, Resuming, Has
<1>8. \A b \in Arbiters : (Live(b)' <=> Live(b)) /\ (Full(b)' <=> Full(b))
  BY DEF arbVars, Live, Full
<1>9. \A b \in Arbiters : \A x : In(a2s', b, x) /\ x.type = SD => x.nproc <= Cardinality(Local(b))
  BY <1>3 DEF StopInv, StopLink
<1>10. \A b \in Arbiters : b # a => \A x : In(a2s, b, x) => In(a2s', b, x)
  <2>1. \A b \in Arbiters : b # a => a2s'[b] = a2s[b]
    BY <1>0, <1>2 DEF Takes, Consume
  <2> QED BY <2>1 DEF In
<1>11. \A x : In(a2s, a, x) /\ x.type = SD => x = m
  <2>1. Once(a2s, a, SD)
    BY DEF StopInv, StopLink
  <2> QED BY <1>2, <1>3, <2>1 DEF Once, In
<1>12. CASE ~AllStopped(m.nproc)
  <2>1. step' = step /\ nproc_stopped' = nproc_stopped + m.nproc
    BY <1>1, <1>12 DEF Counts
  <2>2. StopCounted' = All
    <3>1. \A b \in Arbiters : b # a => (StopAck(b)' <=> StopAck(b))
      <4>1. \A b \in Arbiters : b # a => a2s'[b] = a2s[b]
        BY <1>0, <1>2 DEF Takes, Consume
      <4> QED BY <4>1 DEF StopAck, Has
    <3>2. \A q \in Procs : q \in StopCounted' <=> q \in All
      <4> TAKE q \in Procs
      <4>1. CASE Home[q] = a
        BY <1>3, <1>4, <1>7, <4>1 DEF StopCounted, Local
      <4>2. CASE Home[q] # a
        BY <1>7, <3>1, <4>2, HomeAssumption DEF StopCounted, Local
      <4> QED BY <4>1, <4>2
    <3>3. StopCounted' \subseteq Procs /\ All \subseteq Procs
      BY DEF StopCounted, Local
    <3> QED BY <3>2, <3>3
  <2>3. StopInv'
    <3>1. \A b \in Arbiters : StopLink(b)'
      <4> TAKE b \in Arbiters
      <4>1. StopLink(b)
        BY DEF StopInv
      <4> QED BY <1>2, <1>3, <1>7, <1>8, <1>9, <2>1, <4>1 DEF StopLink, FrozenSteps
    <3>2. nproc_stopped' <= Cardinality(StopCounted')
      BY <1>0, <1>4, <1>6, <2>1, <2>2
    <3> QED BY <3>1, <3>2 DEF StopInv
  <2>4. ASSUME Whole' PROVE Whole
    <3>1. nproc_stopped + m.nproc = Cardinality(All) /\ \A b \in Arbiters : Exact(b)'
      BY <1>2, <2>1, <2>2, <2>4 DEF Whole
    <3>2. nproc_stopped = Cardinality(StopCounted) /\ m.nproc = Cardinality(Local(a))
      BY <1>0, <1>4, <1>6, <3>1
    <3>3. \A b \in Arbiters : Exact(b)
      <4> TAKE b \in Arbiters
      <4>1. Exact(b)'
        BY <3>1
      <4>2. (Stopping(b) => Full(b)) /\ (Resuming(b) => Stopping(b))
        BY <1>7, <1>8, <4>1 DEF Exact
      <4>3. ASSUME NEW x, In(a2s, b, x), x.type = SD PROVE x.nproc = Cardinality(Local(b))
        <5>1. CASE b = a
          BY <1>11, <3>2, <4>3, <5>1
        <5>2. CASE b # a
          <6>1. In(a2s', b, x)
            BY <1>10, <4>3, <5>2
          <6>2. \A y : In(a2s', b, y) /\ y.type = SD => y.nproc = Cardinality(Local(b))
            BY <4>1 DEF Exact, In, Local
          <6> QED BY <4>3, <6>1, <6>2
        <5> QED BY <5>1, <5>2
      <4> QED BY <4>2, <4>3 DEF Exact
    <3> QED BY <1>2, <3>2, <3>3 DEF Whole
  <2>5. \A b \in Arbiters : Halted(b)' <=> Halted(b)
    BY <1>7, <2>1 DEF Halted
  <2> QED BY <2>3, <2>4, <2>5 DEF GoesOn
<1>13. CASE AllStopped(m.nproc)
  <2>1. step' = "WAITING_SYNC_INFO"
    BY <1>1, <1>13 DEF Counts
  <2>2. /\ All = Procs /\ nproc_stopped = Cardinality(StopCounted) /\ m.nproc = Cardinality(Local(a))
    <3>1. nproc_stopped + m.nproc >= NProc
      BY <1>13 DEF AllStopped
    <3>2. nproc_stopped \in Nat /\ m.nproc \in Nat /\ NProc \in Nat
      BY <1>0, <1>4, NProcType
    <3>3. /\ Cardinality(StopCounted) \in Nat /\ Cardinality(Local(a)) \in Nat
          /\ Cardinality(All) = Cardinality(StopCounted) + Cardinality(Local(a))
          /\ Cardinality(All) <= NProc
          /\ nproc_stopped <= Cardinality(StopCounted) /\ m.nproc <= Cardinality(Local(a))
      BY <1>4, <1>6
    <3>4. /\ Cardinality(All) = NProc /\ nproc_stopped = Cardinality(StopCounted)
          /\ m.nproc = Cardinality(Local(a))
      BY <3>1, <3>2, <3>3
    <3> QED BY <1>6, <3>4
  <2>3. \A b \in Arbiters : /\ ~Stopping(b) /\ ~Resuming(b) /\ ~StopAck(b)'
                            /\ b # a => ~StopAck(b)
    <3> TAKE b \in Arbiters
    <3>1. PICK p \in Procs : Home[p] = b
      BY HomeAssumption
    <3>2. CASE b = a
      BY <1>3, <1>4, <3>2
    <3>3. CASE b # a
      BY <1>3, <2>2, <3>1, <3>3 DEF StopCounted, Local
    <3> QED BY <3>2, <3>3
  <2>4. StopInv'
    <3>1. \A b \in Arbiters : StopLink(b)'
      BY <1>3, <1>7, <1>9, <2>1, <2>3 DEF StopLink, FrozenSteps
    <3> QED BY <2>1, <3>1 DEF StopInv
  <2>5. Whole
    <3>1. \A b \in Arbiters : Exact(b)
      <4> TAKE b \in Arbiters
      <4>1. ASSUME NEW x, In(a2s, b, x), x.type = SD PROVE x.nproc = Cardinality(Local(b))
        <5>1. StopAck(b)
          BY <4>1 DEF StopAck, Has, In
        <5> QED BY <1>11, <2>2, <2>3, <4>1, <5>1
      <4> QED BY <2>3, <4>1 DEF Exact
    <3> QED BY <1>2, <2>2, <3>1 DEF Whole
  <2>6. \A b \in Arbiters : Halted(b)' <=> Halted(b)
    BY <1>2, <1>7, <2>1 DEF Halted
  <2> QED BY <2>4, <2>5, <2>6 DEF GoesOn
<1> QED BY <1>12, <1>13

(* The resume is sent to everyone, when nobody is being frozen.            *)
LEMMA ServerResumes ==
  ASSUME TypeOK, CountInv, LinkInv, StopInv, NEW a \in Arbiters, Resumes(a),
         started, started', UNCHANGED arbVars
  PROVE  GoesOn
<1>0. s2a \in [Arbiters -> Seq(Message)] /\ a2s \in [Arbiters -> Seq(Message)]
  BY DEF TypeOK, NetTypeOK
<1>1. /\ Puts(conns, "CONT_ALL") /\ step \in FrozenSteps /\ step' = "READY"
      /\ \E t : t # "STOP_DONE" /\ Takes(a, t)
  BY DEF Resumes, Ends, FrozenSteps
<1>2. \A b \in Arbiters : ~Stopping(b) /\ ~StopAck(b) /\ ~Resuming(b)
  BY <1>1 DEF StopInv, StopLink, FrozenSteps
<1>3. /\ \A b \in Arbiters : ~Stopping(b)' /\ (b \in conns => Resuming(b)')
      /\ \A b \in Arbiters : Once(s2a', b, "STOP_ALL") /\ Once(s2a', b, "CONT_ALL")
  <2>0. s2a \in [Arbiters -> Seq(Message)]
    BY <1>0
  <2>1. \A b \in Arbiters : \A u :
           /\ Has(s2a', b, u) <=> Has(s2a, b, u) \/ (b \in conns /\ "CONT_ALL" = u)
           /\ Once(s2a, b, u) /\ ~(b \in conns /\ "CONT_ALL" = u /\ Has(s2a, b, u)) => Once(s2a', b, u)
    BY <1>1, <2>0, PutsHas
  <2>2. \A b \in Arbiters : /\ ~Has(s2a, b, "CONT_ALL") /\ Once(s2a, b, "STOP_ALL") /\ Once(s2a, b, "CONT_ALL")
                            /\ ~Has(s2a, b, "STOP_ALL")
    BY <1>2 DEF StopInv, StopLink, Resuming, Stopping
  <2>3. \A b \in Arbiters : (Stopping(b)' <=> Has(s2a', b, "STOP_ALL")) /\ (Resuming(b)' <=> Has(s2a', b, "CONT_ALL"))
    BY DEF Stopping, Resuming, Has
  <2>4. \A b \in Arbiters : ~Has(s2a', b, "STOP_ALL") /\ (b \in conns => Has(s2a', b, "CONT_ALL"))
    BY <2>1, <2>2
  <2>5. \A b \in Arbiters : Once(s2a', b, "STOP_ALL") /\ Once(s2a', b, "CONT_ALL")
    BY <2>1, <2>2
  <2> QED BY <2>3, <2>4, <2>5
<1>4. \A b \in Arbiters : ~StopAck(b)' /\ Once(a2s', b, "STOP_DONE") /\ \A m : ~(In(a2s', b, m) /\ m.type = "STOP_DONE")
  <2>0. a2s \in [Arbiters -> Seq(Message)]
    BY <1>0
  <2>1. Same(a2s, a2s', Arbiters, "STOP_DONE")
    BY <1>1, <2>0, TakesHas
  <2>2. \A b \in Arbiters : ~Has(a2s', b, "STOP_DONE") /\ Once(a2s', b, "STOP_DONE")
    BY <1>2, <2>1 DEF Same, StopAck, StopInv, StopLink
  <2> QED BY <2>2 DEF StopAck, Has, In
<1>5. \A b \in Arbiters : NoneBehind(s2a'[b], "STOP_ALL", "CONT_ALL")
  <2>1. \A b \in Arbiters : ~Has(s2a', b, "STOP_ALL")
    BY <1>3 DEF Stopping, Has
  <2> QED BY <2>1 DEF NoneBehind, Has
<1>6. StopInv'
  <2>1. \A b \in Arbiters : StopLink(b)'
    BY <1>1, <1>3, <1>4, <1>5 DEF StopLink, FrozenSteps
  <2> QED BY <1>1, <2>1 DEF StopInv
<1>7. Whole
  BY <1>1 DEF Whole, FrozenSteps
<1>8. \A b \in Arbiters : Halted(b)
  BY <1>1, <1>2 DEF Halted, FrozenSteps
<1>9. \A b \in Arbiters : Live(b) => Halted(b)'
  <2>1. \A b \in Arbiters : Live(b) => b \in conns
    BY DEF CountInv, LinkInv
  <2> QED BY <1>3, <2>1 DEF Halted
<1> QED BY <1>6, <1>7, <1>8, <1>9 DEF GoesOn

(* Every step of the server.                                               *)
LEMMA RoundServer ==
  ASSUME TypeOK, StepMatchesQueue, CountInv, LinkInv, StopInv, NEW a \in Arbiters, ServerStep(a),
         UNCHANGED arbVars
  PROVE  GoesOn
<1>0. s2a \in [Arbiters -> Seq(Message)] /\ a2s \in [Arbiters -> Seq(Message)]
  BY DEF TypeOK, NetTypeOK
<1>1. CASE ~started
  <2>1. /\ UNCHANGED <<step, opqueue, nproc_stopped>>
        /\ Steady(s2a, s2a') /\ Keeps(s2a, s2a') /\ Same(a2s, a2s', Arbiters, "STOP_DONE")
    BY <1>1, IdleStart
  <2>2. step = "READY"
    BY <1>1 DEF StopInv
  <2> QED BY <2>1, <2>2, ServerRests
<1>2. CASE started
  <2>1. /\ started'
        /\ \/ Rests(a) \/ Freezes(a) \/ Counts(a)
           \/ Spreads(a) \/ HandsOver(a) \/ Resumes(a)
    BY <1>2, ServerKinds
  <2>t. \A t : t # "STOP_DONE" /\ Takes(a, t) => Same(a2s, a2s', Arbiters, "STOP_DONE")
    <3>0. a2s \in [Arbiters -> Seq(Message)]
      BY <1>0
    <3> QED BY <3>0, TakesHas
  <2>p. \A S, t : t \notin {"STOP_ALL", "CONT_ALL"} /\ Puts(S, t) => Steady(s2a, s2a') /\ Keeps(s2a, s2a')
    <3>0. s2a \in [Arbiters -> Seq(Message)]
      BY <1>0
    <3> QED BY <3>0, PutsKept
  <2>2. CASE Rests(a)
    <3>1. Same(a2s, a2s', Arbiters, "STOP_DONE")
      BY <2>2, <2>t, SameChannel DEF Rests
    <3>2. Steady(s2a, s2a') /\ Keeps(s2a, s2a')
      BY <2>2, <2>p DEF Rests, Orders
    <3> QED BY <2>1, <2>2, <3>1, <3>2, ServerRests DEF Rests
  <2>3. CASE Spreads(a) \/ HandsOver(a)
    <3>1. Same(a2s, a2s', Arbiters, "STOP_DONE")
      BY <2>3, <2>t DEF Spreads, HandsOver, Ends
    <3>2. Steady(s2a, s2a') /\ Keeps(s2a, s2a')
      BY <2>3, <2>p DEF Spreads, HandsOver
    <3>3. step \in FrozenSteps /\ step' \in FrozenSteps
      BY <2>3 DEF Spreads, HandsOver, Ends, FrozenSteps
    <3> QED BY <2>1, <3>1, <3>2, <3>3, ServerRests
  <2> QED BY <1>2, <2>1, <2>2, <2>3, ServerFreezes, ServerCounts, ServerResumes
<1> QED BY <1>1, <1>2

-----------------------------------------------------------------------------
(* What an arbiter that does not freeze its machine does to the round.     *)
LEMMA ArbiterQuiet ==
  ASSUME TypeOK, PlaceInv, NEW a \in Arbiters, ArbiterStep(a), ~ArbStopAll(a)
  PROVE  /\ \E S : \E x \in Message : x.type # "STOP_DONE" /\ a2s' = SendAll(a2s, S, x)
         /\ \/ UNCHANGED s2a
            \/ /\ s2a[a] # << >> /\ Head(s2a[a]).type # "STOP_ALL" /\ s2a' = Consume(s2a, a)
               /\ arbState[a] = "up" /\ (Head(s2a[a]).type = "CONT_ALL" => ArbContAll(a))
         /\ \A b \in Arbiters : ~Live(b) => ~Live(b)'
<1> DEFINE Up == \E S : \E x \in Message : x.type # "STOP_DONE" /\ a2s' = SendAll(a2s, S, x)
           Read == \/ UNCHANGED s2a
                   \/ /\ s2a[a] # << >> /\ Head(s2a[a]).type # "STOP_ALL" /\ s2a' = Consume(s2a, a)
                      /\ arbState[a] = "up" /\ (Head(s2a[a]).type = "CONT_ALL" => ArbContAll(a))
<1>0. a2s \in [Arbiters -> Seq(Message)] /\ p2a \in [Procs -> Seq(Message)]
  BY DEF TypeOK, NetTypeOK
<1>s. ASSUME NEW x \in Message, x.type # "STOP_DONE", a2s' = Send(a2s, a, x) PROVE Up
  <2>1. a2s' = SendAll(a2s, {a}, x)
    BY <1>0, <1>s DEF Send, SendAll
  <2> QED BY <1>s, <2>1
<1>u. UNCHANGED a2s => Up
  <2>1. Simple("STOP_ALL") \in Message /\ Simple("STOP_ALL").type # "STOP_DONE"
    BY MessageTypes DEF Simple, SimpleTypes
  <2>2. a2s = SendAll(a2s, {}, Simple("STOP_ALL"))
    BY <1>0 DEF SendAll
  <2> QED BY <2>1, <2>2
<1>m. \A t \in SimpleTypes : Simple(t) \in Message /\ Simple(t).type = t
  BY MessageTypes DEF Simple
<1>d. \A n \in Nat : Done("SYNC_DONE", n) \in Message /\ Done("SYNC_DONE", n).type = "SYNC_DONE"
  BY MessageTypes DEF Done
<1> HIDE DEF Up
<1>1. Up
  <2>1. ASSUME NEW p \in Procs, FromProcessStep(a, p) PROVE Up
    <3>1. p2a[p] # << >>
      BY <2>1 DEF FromProcessStep, ArbAddProc, ArbSyncRequest, ArbForwardSync, ArbWaitBarr,
                  ArbPrgmDone, FromProcess, Waiting
    <3>2. PICK x : x = Head(p2a[p])
      OBVIOUS
    <3>3. x \in Message
      BY <1>0, <3>1, <3>2, ChannelTypes
    <3>4. x.type = "STOP_DONE" => UNCHANGED a2s
      BY <2>1, <3>2 DEF FromProcessStep, ArbAddProc, ArbSyncRequest, ArbForwardSync, ArbWaitBarr,
                  ArbPrgmDone, FromProcess, Waiting
    <3>5. Simple("SYNC_REQ") \in Message /\ Simple("SYNC_REQ").type = "SYNC_REQ"
      BY <1>m DEF SimpleTypes
    <3>6. UNCHANGED a2s \/ a2s' = Send(a2s, a, x) \/ a2s' = Send(a2s, a, Simple("SYNC_REQ"))
      BY <2>1, <3>2 DEF FromProcessStep, ArbAddProc, ArbSyncRequest, ArbForwardSync, ArbWaitBarr,
                  ArbPrgmDone, ArbPanic
    <3> QED BY <1>s, <1>u, <3>3, <3>4, <3>5, <3>6
  <2>2. CASE FromServerStep(a)
    <3>1. CASE ArbApplySync(a)
      <4>1. NLocal(a) \in Nat
        BY DEF NLocal, TypeOK, ArbiterTypeOK
      <4> QED BY <1>s, <1>d, <3>1, <4>1 DEF ArbApplySync
    <3>2. CASE ~ArbApplySync(a)
      <4>1. UNCHANGED a2s
        BY <2>2, <3>2 DEF FromServerStep, ArbSetGid, ArbContAll, ArbWaitDone, ArbWriteOkay, ArbPanic
      <4> QED BY <1>u, <4>1
    <3> QED BY <3>1, <3>2
  <2>3. CASE ArbExit(a)
    <3>1. Simple("PRGM_DONE") \in Message /\ Simple("PRGM_DONE").type = "PRGM_DONE"
      BY <1>m DEF SimpleTypes
    <3> QED BY <1>s, <2>3, <3>1 DEF ArbExit
  <2>4. CASE \E p \in Procs : ArbAccept(a, p)
    BY <1>u, <2>4 DEF ArbAccept, channels
  <2>5. CASE \E f \in BOOLEAN : ArbPoll(a, f)
    BY <1>u, <2>5 DEF ArbPoll, channels
  <2> QED BY <2>1, <2>2, <2>3, <2>4, <2>5 DEF ArbiterStep
<1>2. Read
  <2>1. CASE FromServerStep(a)
    BY <2>1 DEF FromServerStep, ArbSetGid, ArbContAll, ArbWaitDone, ArbWriteOkay, ArbApplySync, FromServer, Waiting
  <2>2. CASE ~FromServerStep(a)
    <3>1. UNCHANGED s2a
      BY <2>2 DEF ArbiterStep, FromProcessStep, ArbAddProc, ArbSyncRequest, ArbForwardSync, ArbWaitBarr,
                  ArbPrgmDone, ArbExit, ArbAccept, ArbPoll, channels
    <3> QED BY <3>1
  <2> QED BY <2>1, <2>2
<1>3. \A b \in Arbiters : ~Live(b) => ~Live(b)'
  <2>1. CASE ArbApplySync(a)
    BY <2>1 DEF ArbApplySync, Live
  <2>2. CASE ~ArbApplySync(a)
    BY <2>2, ArbiterEffect
  <2> QED BY <2>1, <2>2
<1> QED BY <1>1, <1>2, <1>3 DEF Up

(* What an arbiter's step keeps of the round.                              *)
RoundGoes(a) ==
  /\ StopInv' /\ (started => (Whole' => Whole))
  /\ \A b \in Arbiters : /\ Halted(b)' => Halted(b) \/ (b = a /\ ArbStopAll(a))
                         /\ Halted(b) => Halted(b)' \/ (b = a /\ ArbContAll(a))

(* An arbiter that freezes nobody leaves the round as it is.               *)
LEMMA RoundQuiet ==
  ASSUME TypeOK, PlaceInv, StopInv, NEW a \in Arbiters, ArbiterStep(a), ~ArbStopAll(a), UNCHANGED serverVars,
         started => \A q \in Procs : ptab'[q].used => ptab[q].used
  PROVE  RoundGoes(a)
<1>0. a2s \in [Arbiters -> Seq(Message)] /\ s2a \in [Arbiters -> Seq(Message)]
  BY DEF TypeOK, NetTypeOK
<1>1. /\ \E S : \E x \in Message : x.type # "STOP_DONE" /\ a2s' = SendAll(a2s, S, x)
      /\ \/ UNCHANGED s2a
         \/ /\ s2a[a] # << >> /\ Head(s2a[a]).type # "STOP_ALL" /\ s2a' = Consume(s2a, a)
            /\ arbState[a] = "up" /\ (Head(s2a[a]).type = "CONT_ALL" => ArbContAll(a))
      /\ \A b \in Arbiters : ~Live(b) => ~Live(b)'
  BY ArbiterQuiet
<1>2. Same(a2s, a2s', Arbiters, "STOP_DONE")
  <2>0. PICK S : \E x \in Message : x.type # "STOP_DONE" /\ a2s' = SendAll(a2s, S, x)
    BY <1>1
  <2>1. PICK x \in Message : x.type # "STOP_DONE" /\ a2s' = SendAll(a2s, S, x)
    BY <2>0
  <2>2. a2s \in [Arbiters -> Seq(Message)]
    BY <1>0
  <2>3. Same(a2s, SendAll(a2s, S, x), Arbiters, "STOP_DONE")
    BY <2>1, <2>2, SendSame
  <2> QED BY <2>1, <2>3
<1>3. /\ Steady(s2a, s2a') 
      /\ \A b \in Arbiters : Has(s2a, b, "CONT_ALL") => Has(s2a', b, "CONT_ALL") \/ (b = a /\ ArbContAll(a) /\ arbState[a] = "up")
  <2>0. s2a \in [Arbiters -> Seq(Message)]
    BY <1>0
  <2>1. CASE UNCHANGED s2a
    BY <2>1, SteadyTwice
  <2>2. CASE /\ s2a[a] # << >> /\ Head(s2a[a]).type # "STOP_ALL" /\ s2a' = Consume(s2a, a)
             /\ arbState[a] = "up" /\ (Head(s2a[a]).type = "CONT_ALL" => ArbContAll(a))
    <3>1. Steady(s2a, s2a') /\ (Head(s2a[a]).type # "CONT_ALL" => Keeps(s2a, s2a'))
      BY <2>0, <2>2, SteadyConsume
    <3>2. \A b \in Arbiters : b # a => s2a'[b] = s2a[b]
      BY <2>0, <2>2 DEF Consume
    <3>3. \A b \in Arbiters : b # a => (Has(s2a, b, "CONT_ALL") => Has(s2a', b, "CONT_ALL"))
      BY <3>2 DEF Has
    <3> QED BY <2>2, <3>1, <3>3 DEF Keeps
  <2> QED BY <1>1, <2>1, <2>2
<1>4. UNCHANGED <<step, nproc_stopped, started>>
  BY DEF serverVars, writeVars
<1>5. step' # "READY" => started'
  BY <1>4 DEF StopInv
<1>6. \A b \in Arbiters : Resuming(b) => Resuming(b)' \/ (b = a /\ ArbContAll(a) /\ arbState[a] = "up")
  <2>1. \A b \in Arbiters : Resuming(b)' <=> Has(s2a', b, "CONT_ALL")
    BY DEF Resuming, Has
  <2> QED BY <1>3, <2>1 DEF Resuming
<1>7. \A b \in Arbiters : Resuming(b) /\ ~Resuming(b)' => Live(b)
  BY <1>6 DEF Live
<1>8. StopInv' /\ ((\A b \in Arbiters : Full(b)' => Full(b)) => (Whole' => Whole))
  BY <1>1, <1>2, <1>3, <1>4, <1>5, <1>7, StopKept
<1>9. started => \A b \in Arbiters : Full(b)' => Full(b)
  BY DEF Full, Local
<1>10. \A b \in Arbiters : (Stopping(b)' <=> Stopping(b)) /\ (Resuming(b)' => Resuming(b))
  BY <1>3 DEF Steady, Stopping, Resuming, Has
<1>11. \A b \in Arbiters : /\ Halted(b)' => Halted(b)
                           /\ Halted(b) => Halted(b)' \/ (b = a /\ ArbContAll(a))
  BY <1>4, <1>6, <1>10 DEF Halted
<1> QED BY <1>8, <1>9, <1>11 DEF RoundGoes

(* An acknowledgement for the whole machine means that everyone of it is   *)
(* still registered.                                                       *)
LEMMA AllAreIn ==
  ASSUME TypeOK, PlaceInv, ListInv, EnrolInv, started, NEW a \in Arbiters,
         NLocal(a) = Cardinality(Local(a))
  PROVE  Full(a)
<1>1. fds[a] \in Seq(Local(a)) /\ Distinct(fds[a])
  BY DEF PlaceInv, ListInv
<1>2. IsFiniteSet(Local(a))
  BY ProcsAssumption, FS_Subset DEF Local
<1>3. Len(fds[a]) \in Nat /\ fds[a] \in [1 .. Len(fds[a]) -> Local(a)] /\ DOMAIN fds[a] = 1 .. Len(fds[a])
  BY <1>1
<1>4. fds[a] \in Injection(1 .. Len(fds[a]), Local(a))
  BY <1>1, <1>3 DEF Injection, IsInjective, Distinct
<1>5. Cardinality(1 .. Len(fds[a])) = Cardinality(Local(a))
  BY <1>3, FS_Interval DEF NLocal
<1>6. fds[a] \in Surjection(1 .. Len(fds[a]), Local(a))
  BY <1>2, <1>4, <1>5, FS_Injection
<1>7. \A q \in Local(a) : q \in Accepted(a)
  BY <1>3, <1>6 DEF Surjection, Accepted
<1> QED BY <1>7 DEF Full, EnrolInv, Local

(* An arbiter that freezes its machine acknowledges that.                  *)
LEMMA RoundStops ==
  ASSUME TypeOK, PlaceInv, ListInv, EnrolInv, StopInv, NEW a \in Arbiters, ArbStopAll(a), UNCHANGED serverVars,
         \A b \in Arbiters : b # a => SameMachine(b),
         started => \A q \in Procs : ptab'[q].used => ptab[q].used
  PROVE  /\ RoundGoes(a) /\ Halted(a)' /\ ~Resuming(a)' /\ ~Halted(a) /\ step = "WAITING_STOP_ACK"
         /\ Whole' => ~ArbPanic(a) /\ Full(a)
<1> DEFINE SD == "STOP_DONE"
           C == StopCounted
<1>0. /\ a2s \in [Arbiters -> Seq(Message)] /\ s2a \in [Arbiters -> Seq(Message)]
      /\ nproc_stopped \in Nat
  BY DEF TypeOK, NetTypeOK, ServerTypeOK
<1>1. /\ s2a[a] # << >> /\ Head(s2a[a]).type = "STOP_ALL" /\ s2a' = Consume(s2a, a)
      /\ UNCHANGED <<step, nproc_stopped, started>>
  BY DEF ArbStopAll, FromServer, Waiting, serverVars, writeVars
<1>2. Stopping(a) /\ StopLink(a)
  <2>1. s2a \in [Arbiters -> Seq(Message)]
    BY <1>0
  <2>2. Has(s2a, a, "STOP_ALL")
    BY <1>1, <2>1, ConsumeHas
  <2> QED BY <2>2 DEF Stopping, StopInv
<1>3. step = "WAITING_STOP_ACK" /\ started /\ ~StopAck(a)
  BY <1>2 DEF StopLink, StopInv
<1>4. ~Resuming(a)
  <2>1. NoneBehind(s2a[a], "STOP_ALL", "CONT_ALL")
    BY <1>2 DEF StopLink
  <2>2. s2a[a] \in Seq(Message)
    BY <1>0
  <2>3. DOMAIN s2a[a] = 1 .. Len(s2a[a]) /\ Len(s2a[a]) \in Nat \ {0} /\ Head(s2a[a]) = s2a[a][1]
    BY <1>1, <2>2, TailPlaces
  <2>4. \A j \in DOMAIN s2a[a] : s2a[a][j].type = "CONT_ALL" => j < 1
    BY <1>1, <2>1, <2>3 DEF NoneBehind
  <2> QED BY <2>3, <2>4 DEF Resuming, Has
<1>5. /\ ~Has(s2a', a, "STOP_ALL") /\ ~Has(s2a', a, "CONT_ALL")
      /\ Once(s2a', a, "STOP_ALL") /\ Once(s2a', a, "CONT_ALL")
  <2>1. s2a \in [Arbiters -> Seq(Message)]
    BY <1>0
  <2>2. /\ \A t : Has(Consume(s2a, a), a, t) => Has(s2a, a, t)
        /\ \A t : Once(s2a, a, t) => Once(Consume(s2a, a), a, t)
        /\ Once(s2a, a, "STOP_ALL") => ~Has(Consume(s2a, a), a, "STOP_ALL")
    BY <1>1, <2>1, ConsumeHas
  <2>3. Once(s2a, a, "STOP_ALL") /\ Once(s2a, a, "CONT_ALL") /\ ~Has(s2a, a, "CONT_ALL")
    BY <1>2, <1>4 DEF StopLink, Resuming
  <2> QED BY <1>1, <2>2, <2>3
<1>6. ~Stopping(a)' /\ ~Resuming(a)'
  BY <1>5 DEF Stopping, Resuming, Has
<1>7. NoneBehind(s2a'[a], "STOP_ALL", "CONT_ALL")
  BY <1>5 DEF NoneBehind, Has
<1>8. \A b \in Arbiters : b # a => /\ StopLink(b)' /\ (Stopping(b)' <=> Stopping(b)) /\ (StopAck(b)' <=> StopAck(b))
                                   /\ (Resuming(b)' <=> Resuming(b)) /\ (Halted(b)' <=> Halted(b))
                                   /\ Exact(b)' /\ (Full(b)' => Full(b)) => Exact(b)
  <2> TAKE b \in Arbiters
  <2> HAVE b # a
  <2>1. s2a'[b] = s2a[b] /\ a2s'[b] = a2s[b] /\ arbState'[b] = arbState[b] /\ StopLink(b)
    BY DEF SameMachine, StopInv
  <2>2. (Stopping(b)' <=> Stopping(b)) /\ (StopAck(b)' <=> StopAck(b)) /\ (Resuming(b)' <=> Resuming(b))
    BY <2>1 DEF Stopping, StopAck, Resuming, Has
  <2>3. \A m : In(a2s, b, m)' <=> In(a2s, b, m)
    BY <2>1 DEF In
  <2>4. Halted(b)' <=> Halted(b)
    BY <1>1, <2>2 DEF Halted
  <2>5. StopLink(b)'
    BY <1>1, <2>1, <2>2, <2>3 DEF StopLink, Once, Live
  <2>6. Exact(b)' /\ (Full(b)' => Full(b)) => Exact(b)
    BY <2>2, <2>3 DEF Exact
  <2> QED BY <2>2, <2>4, <2>5, <2>6
<1>9. \A b \in Arbiters : Full(b)' => Full(b)
  BY <1>3 DEF Full, Local
<1>10. Halted(a)'
  BY <1>1, <1>3, <1>6 DEF Halted
<1>h. ~Halted(a)
  BY <1>2, <1>4 DEF Halted
<1>11. C \subseteq Procs /\ C \cap Local(a) = {}
  BY <1>2 DEF StopCounted, Local
<1>12. /\ Cardinality(C) \in Nat /\ Cardinality(Local(a)) > 0 /\ Cardinality(Local(a)) \in Nat
       /\ Cardinality(C \cup Local(a)) = Cardinality(C) + Cardinality(Local(a))
  <2> HIDE DEF C
  <2> QED BY <1>11, JoinCount
<1>13. nproc_stopped <= Cardinality(C)
  BY <1>3 DEF StopInv
<1>14. CASE ArbPanic(a)
  <2>1. a2s' = a2s
    BY <1>14 DEF ArbPanic
  <2>2. StopCounted' = C \cup Local(a)
    <3>1. \A q \in Procs : Home[q] # a => (q \in StopCounted' <=> q \in C)
      BY <1>8, HomeAssumption DEF StopCounted
    <3>2. \A q \in Procs : Home[q] = a => q \in StopCounted'
      <4>1. ~StopAck(a)'
        BY <1>3, <2>1 DEF StopAck, Has
      <4> QED BY <1>6, <4>1 DEF StopCounted
    <3> QED BY <3>1, <3>2 DEF StopCounted, Local
  <2>3. StopLink(a)'
    <3>1. \A m : In(a2s, a, m)' <=> In(a2s, a, m)
      BY <2>1 DEF In
    <3>2. Once(a2s, a, "STOP_DONE")' /\ ~StopAck(a)'
      BY <1>2, <1>3, <2>1 DEF StopLink, Once, StopAck, Has
    <3> QED BY <1>1, <1>2, <1>3, <1>5, <1>6, <1>7, <3>1, <3>2 DEF StopLink, FrozenSteps
  <2>4. StopInv'
    <3>1. \A b \in Arbiters : StopLink(b)'
      BY <1>8, <2>3
    <3>2. nproc_stopped' <= Cardinality(StopCounted')
      BY <1>0, <1>1, <1>12, <1>13, <2>2
    <3> QED BY <1>1, <1>3, <3>1, <3>2 DEF StopInv
  <2>5. ~Whole'
    <3>1. nproc_stopped' # Cardinality(StopCounted')
      BY <1>0, <1>1, <1>12, <1>13, <2>2
    <3> QED BY <1>1, <1>3, <3>1 DEF Whole
  <2>6. RoundGoes(a)
    BY <1>8, <1>10, <2>4, <2>5 DEF RoundGoes
  <2> QED BY <1>3, <1>6, <1>h, <1>10, <2>5, <2>6
<1>15. CASE ~ArbPanic(a)
  <2>0. PICK x : x = Done("STOP_DONE", NLocal(a))
    OBVIOUS
  <2>1. a2s' = Send(a2s, a, x)
    BY <1>15, <2>0 DEF ArbStopAll
  <2>2. NLocal(a) \in Nat /\ NLocal(a) <= Cardinality(Local(a))
    BY LocalFits
  <2>3. x \in Message /\ x.type = "STOP_DONE" /\ x.nproc = NLocal(a)
    BY <2>0, <2>2, MessageTypes DEF Done
  <2>4. Has(a2s', a, SD) /\ Once(a2s', a, SD)
    <3>0. a2s \in [Arbiters -> Seq(Message)]
      BY <1>0
    <3>1. /\ Has(Send(a2s, a, x), a, SD) <=> Has(a2s, a, SD) \/ (a = a /\ x.type = SD)
          /\ Once(a2s, a, SD) /\ ~(a = a /\ x.type = SD /\ Has(a2s, a, SD)) => Once(Send(a2s, a, x), a, SD)
      BY <2>3, <3>0, SendHas
    <3>2. Once(a2s, a, SD) /\ ~Has(a2s, a, SD)
      BY <1>2, <1>3 DEF StopLink, StopAck
    <3> QED BY <2>1, <2>3, <3>1, <3>2
  <2>5. In(a2s', a, x) /\ \A m : In(a2s', a, m) /\ m.type = SD => m = x
    <3>0. a2s \in [Arbiters -> Seq(Message)]
      BY <1>0
    <3>1. Send(a2s, a, x) = SendAll(a2s, {a}, x)
      BY <3>0, SendIsSendAll
    <3>2. \A m : In(SendAll(a2s, {a}, x), a, m) <=> In(a2s, a, m) \/ (a \in {a} /\ m = x)
      BY <2>3, <3>0, SendAllIn
    <3>3. \A m : In(a2s, a, m) /\ m.type = SD => FALSE
      BY <1>3 DEF In, StopAck, Has
    <3> QED BY <2>1, <3>1, <3>2, <3>3
  <2>6. StopAck(a)' /\ Once(a2s, a, SD)' /\ (In(a2s, a, x)') /\ \A m : In(a2s, a, m)' /\ m.type = SD => m = x
    BY <2>4, <2>5 DEF StopAck, Has, Once, In
  <2>7. StopLink(a)'
    BY <1>1, <1>3, <1>5, <1>6, <1>7, <2>2, <2>3, <2>6 DEF StopLink, FrozenSteps, Local
  <2>8. StopCounted' = C
    <3>1. \A q \in Procs : Home[q] # a => (q \in StopCounted' <=> q \in C)
      BY <1>8, HomeAssumption DEF StopCounted
    <3>2. \A q \in Procs : Home[q] = a => q \notin StopCounted' /\ q \notin C
      BY <1>2, <2>6 DEF StopCounted
    <3> QED BY <3>1, <3>2 DEF StopCounted
  <2>9. StopInv'
    <3>1. \A b \in Arbiters : StopLink(b)'
      BY <1>8, <2>7
    <3> QED BY <1>1, <1>3, <1>13, <2>8, <3>1 DEF StopInv
  <2>10. ASSUME Whole' PROVE Whole /\ Full(a)
    <3>1. nproc_stopped = Cardinality(C) /\ \A b \in Arbiters : Exact(b)'
      BY <1>1, <1>3, <2>8, <2>10 DEF Whole
    <3>2. NLocal(a) = Cardinality(Local(a))
      <4>1. \A m : In(a2s, a, m)' /\ m.type = "STOP_DONE" => m.nproc = Cardinality(Local(a))
        BY <3>1 DEF Exact, Local
      <4> QED BY <2>3, <2>6, <4>1
    <3>3. Full(a)
      BY <1>3, <3>2, AllAreIn
    <3>4. Exact(a)
      <4>1. \A m : In(a2s, a, m) /\ m.type = SD => FALSE
        BY <1>3 DEF In, StopAck, Has
      <4> QED BY <1>4, <3>3, <4>1 DEF Exact
    <3>5. \A b \in Arbiters : Exact(b)
      BY <1>8, <1>9, <3>1, <3>4
    <3> QED BY <1>3, <3>1, <3>3, <3>5 DEF Whole
  <2>11. RoundGoes(a)
    BY <1>8, <1>h, <1>10, <2>9, <2>10 DEF RoundGoes
  <2> QED BY <1>3, <1>6, <1>h, <1>10, <1>15, <2>10, <2>11
<1> QED BY <1>14, <1>15

(* Every step of an arbiter.                                               *)
LEMMA FreezeArbiter ==
  ASSUME TypeOK, PlaceInv, ListInv, EnrolInv, StopInv, NEW a \in Arbiters, ArbiterStep(a), UNCHANGED serverVars,
         started => \A q \in Procs : ptab'[q].used => ptab[q].used
  PROVE  RoundGoes(a)
<1>1. \A b \in Arbiters : b # a => SameMachine(b)
  BY ArbiterIsLocal
<1>2. CASE ArbStopAll(a)
  BY <1>1, <1>2, RoundStops
<1>3. CASE ~ArbStopAll(a)
  BY <1>3, RoundQuiet
<1> QED BY <1>2, <1>3

(* The whole system.                                                       *)
LEMMA FreezeStep ==
  ASSUME TypeInv, PlaceInv, ListInv, JoinInv, StepMatchesQueue, CountInv, LinkInv, EnrolInv, StopInv, [Next]_vars
  PROVE  /\ StopInv' /\ (started /\ Whole' => Whole)
         /\ ~(\E a \in Arbiters : ArbiterStep(a) /\ UNCHANGED <<serverVars, procVars>>) => GoesOn
<1>0. TypeOK
  BY DEF TypeInv
<1>1. ASSUME NEW a \in Arbiters, ServerStep(a), UNCHANGED <<arbVars, procVars, p2a, a2p, signals, mem>>
      PROVE  GoesOn
  BY <1>0, <1>1, RoundServer
<1>2. ASSUME NEW a \in Arbiters, ArbiterStep(a), UNCHANGED <<serverVars, procVars>>
      PROVE  StopInv' /\ (started /\ Whole' => Whole)
  <2>1. started => \A q \in Procs : ptab'[q].used => ptab[q].used
    BY NobodyRegisters
  <2>2. UNCHANGED serverVars
    BY <1>2
  <2>3. RoundGoes(a)
    BY <1>0, <1>2, <2>1, <2>2, FreezeArbiter
  <2> QED BY <2>3 DEF RoundGoes
<1>3. UNCHANGED <<serverVars, arbVars, a2s, s2a>> => GoesOn
  <2> HAVE UNCHANGED <<serverVars, arbVars, a2s, s2a>>
  <2>1. UNCHANGED <<step, nproc_stopped, a2s, s2a, ptab, started, arbState>>
    BY DEF serverVars, writeVars, arbVars
  <2>2. \A a \in Arbiters : ~Live(a) => ~Live(a)'
    BY <2>1 DEF Live
  <2> QED BY <2>1, <2>2, RoundUntouched
<1>4. ASSUME NEW p \in Procs, ProcessLosesArbiter(p) PROVE GoesOn
  <2>1. UNCHANGED <<serverVars, arbVars, a2s, s2a>>
    BY <1>4 DEF ProcessLosesArbiter, netVars, channels
  <2> QED BY <1>3, <2>1
<1>5. ASSUME Breaks PROVE GoesOn
  <2>1. UNCHANGED <<step, nproc_stopped, a2s, s2a, ptab, started>>
    BY <1>5 DEF Breaks, writeVars, netVars, channels
  <2>2. \A a \in Arbiters : ~Live(a) => ~Live(a)'
    <3>1. \A b \in Arbiters : arbState'[b] = arbState[b] \/ arbState[b] = "up"
      BY <1>5 DEF Breaks
    <3> QED BY <3>1 DEF Live
  <2>3. UNCHANGED <<step, nproc_stopped, a2s, s2a, ptab>> /\ (started => started')
    BY <2>1
  <2> QED BY <2>2, <2>3, RoundUntouched
<1>6. GoesOn => StopInv' /\ (started /\ Whole' => Whole)
  BY DEF GoesOn
<1>7. \/ \E a \in Arbiters : ArbiterStep(a) /\ UNCHANGED <<serverVars, procVars>>
      \/ GoesOn
  <2>1. \/ \E a \in Arbiters : /\ ServerStep(a)
                                /\ UNCHANGED <<arbVars, procVars, p2a, a2p, signals, mem>>
        \/ \E a \in Arbiters : ArbiterStep(a) /\ UNCHANGED <<serverVars, procVars>>
        \/ UNCHANGED <<serverVars, arbVars, a2s, s2a>>
        \/ \E p \in Procs : ProcessLosesArbiter(p)
        \/ Breaks
    BY <1>0, StepKinds
  <2> QED BY <1>1, <1>3, <1>4, <1>5, <2>1
<1>8. CASE \E a \in Arbiters : ArbiterStep(a) /\ UNCHANGED <<serverVars, procVars>>
  BY <1>2, <1>8
<1>9. CASE GoesOn
  BY <1>6, <1>9
<1> QED BY <1>7, <1>8, <1>9

-----------------------------------------------------------------------------
(***************************************************************************)
(* What a complete round achieves.                                         *)
(***************************************************************************)
Serving(a) == arbState[a] = "up" /\ arbStarted[a]

(* The processes of a machine that is halted are held.                     *)
HoldInv ==
  /\ \A a \in Arbiters : Halted(a) => arbStarted[a]
  /\ \A q \in Procs : Halted(Home[q]) => /\ Held(q) \/ Writable(q)
                                         /\ ptab[q].used => ptab[q].is_stopped

(* Where a process is, what its arbiter still has to read from it, and     *)
(* what the arbiter's table says of it.                                    *)
Only(q, t)   == p2a[q] # << >> /\ Tail(p2a[q]) = << >> /\ Head(p2a[q]).type = t
Parked(q, l) == loc[q] \in {l, "killed"} \/ (loc[q] = "user" /\ susp[q])
Flags(q, u, w, k) == ptab[q].used = u /\ ptab[q].is_waiting = w /\ ptab[q].is_queued = k

Idling(q)  == /\ p2a[q] = << >> /\ Flags(q, TRUE, FALSE, FALSE)
              /\ loc[q] \in {"recv_gid", "recv_waitDone", "user", "dropAccess", "barrier", "killed", "panic"}
Asks(q)    == /\ Only(q, "SYNC_REQ") /\ Flags(q, TRUE, FALSE, FALSE)
              /\ loc[q] \in {"takeAccess", "killed", "panic"}
Queued(q)  == /\ p2a[q] = << >> /\ Flags(q, TRUE, FALSE, TRUE)
              /\ loc[q] \in {"takeAccess", "store", "sigill", "killed", "panic"}
Wrote(q)   == Only(q, "SYNC_INFO") /\ Flags(q, TRUE, FALSE, TRUE) /\ Parked(q, "dropAccess")
Arrives(q) == Only(q, "WAIT_BARR") /\ Flags(q, TRUE, FALSE, FALSE) /\ Parked(q, "barrier")
Waits(q)   == p2a[q] = << >> /\ Flags(q, TRUE, TRUE, FALSE) /\ Parked(q, "barrier")
Leaves(q)  == Only(q, "PRGM_DONE") /\ Flags(q, TRUE, FALSE, FALSE) /\ loc[q] \in Left
Away(q)    == /\ p2a[q] = << >> /\ Flags(q, FALSE, FALSE, FALSE) /\ loc[q] \in Left
              /\ ~ptab[q].is_stopped
Position(q) == \/ Idling(q) \/ Asks(q) \/ Queued(q) \/ Wrote(q)
               \/ Arrives(q) \/ Waits(q) \/ Leaves(q) \/ Away(q)

PosInv ==
  \A q \in Procs : Serving(Home[q]) =>
    /\ Position(q)
    /\ ~Halted(Home[q]) /\ ptab[q].is_stopped => ptab[q].is_queued

QueueInv ==
  \A a \in Arbiters : Serving(a) => /\ Distinct(arbQueue[a])
                                    /\ \A i \in DOMAIN arbQueue[a] : ptab[arbQueue[a][i]].is_queued

(***************************************************************************)
(* Before a machine is resumed its arbiter has read every announcement of  *)
(* a barrier: the update or the grant that comes first takes a pass of its *)
(* own, and that pass reads them.                                          *)
(***************************************************************************)
Unread(q) == loc[q] = "user" /\ Has(p2a, q, "WAIT_BARR")
Ahead(a)  == Preceded(s2a[a], {"CONT_ALL"}, {"SYNC_INFO", "WRITE_OKAY"})
Due(a) == \/ step = "WAITING_SYNC_ACK" /\ ~Updating(a)
          \/ OnTurn(a) /\ ~Sent(a)
          \/ ~Ahead(a)
Flush(a) ==
  \A q \in Local(a) :
    /\ Unread(q) /\ (Server \in pass[a] \/ Due(a)) => q \in pass[a]
    /\ Unread(q) /\ Due(a) => Server \notin pass[a]
    /\ loc[q] = "barrier" /\ Has(p2a, q, "WAIT_BARR") => ~Running(q)
FlushInv == \A a \in Arbiters : Serving(a) /\ Full(a) /\ Halted(a) => Flush(a)

(* The server counts those at the barrier, and releases everyone.          *)
Announced == {x \in Arbiters \X Nat : /\ x[2] \in DOMAIN a2s[x[1]]
                                      /\ a2s[x[1]][x[2]].type = "WAIT_BARR"}
AtBarrier == {q \in Procs : ptab[q].is_waiting /\ ~Has(s2a, Home[q], "WAIT_DONE")}
BarrierInv ==
  /\ \A a \in Arbiters : Once(s2a, a, "WAIT_DONE")
  /\ \A q \in Procs : Has(s2a, Home[q], "WAIT_DONE") /\ Serving(Home[q]) => ptab[q].is_waiting
  /\ IsFiniteSet(Announced)
  /\ nproc_waiting + Cardinality(Announced) <= Cardinality(AtBarrier)

Settled == HoldInv /\ PosInv /\ QueueInv /\ FlushInv /\ BarrierInv
SettledInv == started /\ Whole => Settled

-----------------------------------------------------------------------------
(* A step of a process.                                                    *)
LEMMA HeldProcess ==
  ASSUME TypeInv, NEW p \in Procs, Says(p) \/ Hears(p) \/ Shifts(p) \/ Halts(p) \/ Delivers(p)
  PROVE  Held(p) \/ Writable(p) => Held(p)' \/ Writable(p)'
<1>1. CASE Says(p)
  <2>1. PICK m : <<loc[p], m.type, loc'[p]>> \in Talks
    BY <1>1 DEF Says
  <2>2. <<loc[p], loc'[p]>> \in {<<"connect", "recv_gid">>, <<"user", "takeAccess">>,
          <<"sigill", "dropAccess">>, <<"user", "barrier">>, <<"user", "exited">>}
    BY <2>1 DEF Talks
  <2>3. ~susp[p] /\ UNCHANGED <<susp, tstp>>
    BY <1>1 DEF Says
  <2> QED BY <2>2, <2>3 DEF Held, Writable
<1>2. CASE Hears(p)
  BY <1>2 DEF Hears, Running, Held, Writable
<1>3. CASE Shifts(p)
  BY <1>3 DEF Shifts, Held, Writable
<1>4. CASE Halts(p) \/ Delivers(p)
  BY <1>4 DEF Halts, Delivers, Held
<1> QED BY <1>1, <1>2, <1>3, <1>4

(* A message sent into an empty channel is the only one.                   *)
LEMMA OnlyAppend ==
  ASSUME NEW s \in Seq(Message), s = << >>, NEW m \in Message
  PROVE  Append(s, m) # << >> /\ Tail(Append(s, m)) = << >> /\ Head(Append(s, m)) = m
OBVIOUS

(* A process moves from one position to the next.                          *)
LEMMA PositionProcess ==
  ASSUME TypeInv, NEW p \in Procs, Says(p) \/ Hears(p) \/ Shifts(p) \/ Halts(p) \/ Delivers(p), UNCHANGED ptab,
         Position(p), Passed(p) => ptab[p].is_queued
  PROVE  Position(p)'
<1>0. p2a[p] \in Seq(Message) /\ a2p[p] \in Seq(Message) /\ a2p \in [Procs -> Seq(Message)]
  BY DEF TypeInv, TypeOK, NetTypeOK
<1>f. \A u, w, k : Flags(p, u, w, k)' <=> Flags(p, u, w, k)
  BY DEF Flags
<1>1. CASE Says(p)
  <2>1. PICK m \in Message : p2a'[p] = Append(p2a[p], m) /\ <<loc[p], m.type, loc'[p]>> \in Talks
    BY <1>1 DEF Says
  <2>2. ~susp[p] /\ UNCHANGED susp
    BY <1>1 DEF Says
  <2>3. p2a[p] = << >> => \A t : Only(p, t)' <=> m.type = t
    BY <1>0, <2>1, OnlyAppend DEF Only
  <2>4. loc[p] # "connect"
    BY DEF Position, Idling, Asks, Queued, Wrote, Arrives, Waits, Leaves, Away, Parked, Left
  <2>5. CASE loc[p] = "user"
    <3>1. Idling(p)
      BY <2>2, <2>5 DEF Position, Idling, Asks, Queued, Wrote, Arrives, Waits, Leaves, Away, Parked, Left
    <3>2. <<m.type, loc'[p]>> \in {<<"SYNC_REQ", "takeAccess">>, <<"WAIT_BARR", "barrier">>, <<"PRGM_DONE", "exited">>}
      BY <2>1, <2>5 DEF Talks
    <3> QED BY <1>f, <2>3, <3>1, <3>2 DEF Idling, Position, Asks, Arrives, Leaves, Parked, Left
  <2>6. CASE loc[p] = "sigill"
    <3>1. Queued(p)
      BY <2>6 DEF Position, Idling, Asks, Queued, Wrote, Arrives, Waits, Leaves, Away, Parked, Left
    <3>2. m.type = "SYNC_INFO" /\ loc'[p] = "dropAccess"
      BY <2>1, <2>6 DEF Talks
    <3> QED BY <1>f, <2>3, <3>1, <3>2 DEF Queued, Position, Wrote, Parked
  <2>7. loc[p] \in {"connect", "user", "sigill"}
    BY <2>1 DEF Talks
  <2> QED BY <2>4, <2>5, <2>6, <2>7
<1>2. CASE Hears(p)
  <2>0. UNCHANGED p2a /\ \A t : Only(p, t)' <=> Only(p, t)
    BY <1>2 DEF Hears, Only
  <2>1. CASE loc[p] \in {"recv_gid", "recv_waitDone"}
    <3>1. Idling(p)
      BY <2>1 DEF Position, Idling, Asks, Queued, Wrote, Arrives, Waits, Leaves, Away, Parked, Left
    <3>2. loc'[p] \in {"recv_waitDone", "user", "panic"}
      BY <1>2, <2>1 DEF Hears
    <3>3. Idling(p)'
      BY <1>f, <2>0, <3>1, <3>2 DEF Idling
    <3> QED BY <3>3 DEF Position
  <2>2. CASE loc[p] = "takeAccess"
    <3>1. Asks(p) \/ Queued(p)
      BY <2>2 DEF Position, Idling, Asks, Queued, Wrote, Arrives, Waits, Leaves, Away, Parked, Left
    <3>2. CASE Head(a2p[p]).type = "WRITE_OKAY"
      <4>1. a2p[p] # << >> /\ loc'[p] = "store"
        BY <1>2, <2>2, <3>2 DEF Hears
      <4>2. Passed(p)
        BY <1>0, <3>2, <4>1, ConsumeHas DEF Passed
      <4>3. Queued(p)
        BY <3>1, <4>2 DEF Asks, Flags
      <4>4. Queued(p)'
        BY <1>f, <2>0, <4>1, <4>3 DEF Queued
      <4> QED BY <4>4 DEF Position
    <3>3. CASE Head(a2p[p]).type # "WRITE_OKAY"
      <4>1. loc'[p] = "panic"
        BY <1>2, <2>2, <3>3 DEF Hears
      <4>2. Asks(p)' \/ Queued(p)'
        BY <1>f, <2>0, <3>1, <4>1 DEF Queued, Asks
      <4> QED BY <4>2 DEF Position
    <3> QED BY <3>2, <3>3
  <2> QED BY <1>2, <2>1, <2>2 DEF Hears
<1>3. CASE Shifts(p) \/ Halts(p) \/ Delivers(p)
  <2>0. UNCHANGED p2a /\ \A t : Only(p, t)' <=> Only(p, t)
    BY <1>3 DEF Shifts, Halts, Delivers, Only
  <2>1. \/ UNCHANGED susp /\ loc[p] = "store" /\ loc'[p] = "sigill"
        \/ UNCHANGED susp /\ loc[p] = "exited" /\ loc'[p] = "reaped"
        \/ UNCHANGED susp /\ loc[p] \notin {"connect", "exited", "reaped", "killed", "panic"} /\ loc'[p] = "killed"
        \/ susp'[p] /\ loc[p] \in {"dropAccess", "barrier"} /\ loc'[p] = "user"
        \/ susp'[p] /\ loc'[p] = loc[p]
    BY <1>3 DEF Shifts, Halts, Delivers
  <2>2. Idling(p) => Idling(p)'
    BY <1>f, <2>0, <2>1 DEF Idling
  <2>3. Asks(p) => Asks(p)'
    BY <1>f, <2>0, <2>1 DEF Asks
  <2>4. Queued(p) => Queued(p)'
    BY <1>f, <2>0, <2>1 DEF Queued
  <2>5. Wrote(p) => Wrote(p)'
    BY <1>f, <2>0, <2>1 DEF Wrote, Parked
  <2>6. Arrives(p) => Arrives(p)'
    BY <1>f, <2>0, <2>1 DEF Arrives, Parked
  <2>7. Waits(p) => Waits(p)'
    BY <1>f, <2>0, <2>1 DEF Waits, Parked
  <2>8. Leaves(p) => Leaves(p)'
    BY <1>f, <2>0, <2>1 DEF Leaves, Left
  <2>9. Away(p) => Away(p)'
    BY <1>f, <2>0, <2>1 DEF Away, Left
  <2> QED BY <2>2, <2>3, <2>4, <2>5, <2>6, <2>7, <2>8, <2>9 DEF Position
<1> QED BY <1>1, <1>2, <1>3

(* A message with nothing behind it is the only one.                       *)
LEMMA OnlyOne ==
  ASSUME NEW S, NEW s \in Seq(S), s # << >>, Tail(s) = << >>
  PROVE  Len(s) = 1 /\ DOMAIN s = {1} /\ \A i \in DOMAIN s : s[i] = Head(s)
<1>1. Len(Tail(s)) = 0
  <2>1. Len(<< >>) = 0
    OBVIOUS
  <2> QED BY <2>1
<1>2. Len(s) \in Nat \ {0} /\ Len(Tail(s)) = Len(s) - 1 /\ DOMAIN s = 1 .. Len(s) /\ Head(s) = s[1]
  OBVIOUS
<1> QED BY <1>1, <1>2

(* Nothing changes for a barrier or a queue when the tables and the        *)
(* channels between the arbiters and the server are left alone.            *)
LEMMA FlushProcess ==
  ASSUME TypeInv, NEW p \in Procs, Says(p) \/ Hears(p) \/ Shifts(p) \/ Halts(p) \/ Delivers(p),
         Position(p), Held(p) \/ Writable(p),
         loc[p] = "barrier" /\ Has(p2a, p, "WAIT_BARR") => ~Running(p)
  PROVE  /\ Unread(p)' => Unread(p)
         /\ loc'[p] = "barrier" /\ Has(p2a', p, "WAIT_BARR") => ~Running(p)'
<1>0. p2a[p] \in Seq(Message)
  BY DEF TypeInv, TypeOK, NetTypeOK
<1>u. Unread(p)' <=> loc'[p] = "user" /\ Has(p2a', p, "WAIT_BARR")
  BY DEF Unread, Has
<1>e. p2a[p] = << >> => ~Has(p2a, p, "WAIT_BARR")
  BY DEF Has
<1>1. CASE Says(p)
  <2>1. PICK m : p2a'[p] = Append(p2a[p], m) /\ <<loc[p], m.type, loc'[p]>> \in Talks
    BY <1>1 DEF Says
  <2>2. ~susp[p] /\ UNCHANGED <<susp, tstp>>
    BY <1>1 DEF Says
  <2>3. loc'[p] \notin {"user", "barrier"} \/ (loc[p] = "user" /\ loc'[p] = "barrier")
    BY <2>1 DEF Talks
  <2>4. loc[p] = "user" => tstp'[p]
    BY <2>2 DEF Held, Writable
  <2> QED BY <1>u, <2>3, <2>4 DEF Running
<1>2. CASE Hears(p)
  <2>1. UNCHANGED p2a
    BY <1>2 DEF Hears
  <2>2. loc[p] \in {"recv_gid", "recv_waitDone"} => p2a[p] = << >>
    BY DEF Position, Idling, Asks, Queued, Wrote, Arrives, Waits, Leaves, Away, Parked, Left
  <2>3. loc'[p] # "barrier" /\ (loc'[p] = "user" => loc[p] = "recv_waitDone")
    BY <1>2 DEF Hears
  <2> QED BY <1>u, <1>e, <2>1, <2>2, <2>3
<1>3. CASE Shifts(p)
  <2>1. loc'[p] \notin {"user", "barrier"}
    BY <1>3 DEF Shifts
  <2> QED BY <1>u, <2>1
<1>4. CASE Halts(p)
  <2>1. UNCHANGED p2a /\ loc'[p] = "user" /\ Running(p) /\ loc[p] \in {"dropAccess", "barrier"}
    BY <1>4 DEF Halts, Running
  <2>2. loc[p] = "dropAccess" => ~Has(p2a, p, "WAIT_BARR")
    <3>1. loc[p] = "dropAccess" => Idling(p) \/ Wrote(p)
      BY DEF Position, Idling, Asks, Queued, Wrote, Arrives, Waits, Leaves, Away, Parked, Left
    <3>2. Only(p, "SYNC_INFO") => ~Has(p2a, p, "WAIT_BARR")
      <4>1. p2a[p] # << >> /\ Tail(p2a[p]) = << >> => \A i \in DOMAIN p2a[p] : p2a[p][i] = Head(p2a[p])
        BY <1>0, OnlyOne
      <4> QED BY <4>1 DEF Only, Has
    <3> QED BY <1>e, <3>1, <3>2 DEF Idling, Wrote
  <2> QED BY <1>u, <2>1, <2>2
<1>5. CASE Delivers(p)
  <2>1. UNCHANGED <<p2a, loc>> /\ susp'[p]
    BY <1>5 DEF Delivers
  <2>2. Unread(p)' => Unread(p)
    BY <1>u, <2>1 DEF Unread
  <2> QED BY <2>1, <2>2 DEF Running
<1> QED BY <1>1, <1>2, <1>3, <1>4, <1>5

(* Every step of a process, its death included.                            *)
LEMMA SettledProcess ==
  ASSUME TypeInv, GrantInv, Settled, NEW p \in Procs, ProcessStep(p) \/ ProcKilled(p),
         UNCHANGED <<serverVars, arbVars, a2s, s2a>>
  PROVE  Settled'
<1>0. arbQueue \in [Arbiters -> Seq(Procs)] /\ \A q \in Procs : Home[q] \in Arbiters
  BY HomeAssumption DEF TypeInv, TypeOK, ArbiterTypeOK
<1>1. /\ UNCHANGED <<ptab, arbState, arbStarted, arbQueue, pass, step, opqueue, nproc_waiting, a2s, s2a>>
  BY DEF serverVars, arbVars, writeVars
<1>2. /\ \A q \in Procs : q # p => loc'[q] = loc[q] /\ SameProcess(q)
      /\ Says(p) \/ Hears(p) \/ Shifts(p) \/ Halts(p) \/ Delivers(p)
  BY <1>1, ProcessMoves
<1>3. \A a \in Arbiters : /\ Halted(a)' <=> Halted(a)
                          /\ Serving(a)' <=> Serving(a)
                          /\ Full(a)' <=> Full(a)
                          /\ Due(a)' <=> Due(a)
  BY <1>1 DEF Halted, Serving, Full, Due, Resuming, Stopping, Ahead, Updating, OnTurn, Sent, Has
<1>4. HoldInv'
  <2>1. ASSUME NEW q \in Procs, Held(q) \/ Writable(q) PROVE Held(q)' \/ Writable(q)'
    <3>1. CASE q = p
      BY <1>2, <2>1, <3>1, HeldProcess
    <3>2. CASE q # p
      BY <1>2, <2>1, <3>2 DEF SameProcess, Held, Writable
    <3> QED BY <3>1, <3>2
  <2>2. HoldInv
    BY DEF Settled
  <2> QED BY <1>0, <1>1, <1>3, <2>1, <2>2 DEF HoldInv
<1>5. PosInv'
  <2> SUFFICES ASSUME NEW q \in Procs, Serving(Home[q])
               PROVE  Position(q)' /\ (~Halted(Home[q]) /\ ptab[q].is_stopped => ptab[q].is_queued)
    BY <1>0, <1>1, <1>3 DEF PosInv
  <2>1. Position(q) /\ (~Halted(Home[q]) /\ ptab[q].is_stopped => ptab[q].is_queued)
    BY DEF Settled, PosInv
  <2>2. CASE q # p
    BY <1>1, <1>2, <2>1, <2>2
       DEF SameProcess, Position, Idling, Asks, Queued, Wrote, Arrives, Waits, Leaves, Away, Parked, Only, Flags
  <2>3. CASE q = p
    <3>1. Passed(p) => ptab[p].is_queued
      <4>1. Passed(p) => arbQueue[Home[p]] # << >> /\ Head(arbQueue[Home[p]]) = p
        BY DEF GrantInv, InOrder, Holds, AtHead
      <4>2. arbQueue[Home[p]] \in Seq(Procs)
        BY <1>0
      <4>3. Passed(p) => 1 \in DOMAIN arbQueue[Home[p]] /\ arbQueue[Home[p]][1] = p
        BY <4>1, <4>2
      <4>4. Serving(Home[p]) /\ Home[p] \in Arbiters
        BY <1>0, <2>3
      <4> QED BY <4>3, <4>4 DEF Settled, QueueInv
    <3>2. Position(p)'
      BY <1>1, <1>2, <2>1, <2>3, <3>1, PositionProcess
    <3> QED BY <2>1, <2>3, <3>2
  <2> QED BY <2>2, <2>3
<1>6. QueueInv'
  BY <1>1, <1>3 DEF Settled, QueueInv
<1>7. FlushInv'
  <2> SUFFICES ASSUME NEW a \in Arbiters, Serving(a), Full(a), Halted(a), NEW q \in Procs, Home[q] = a
               PROVE  /\ Unread(q)' => Unread(q)
                      /\ loc'[q] = "barrier" /\ Has(p2a', q, "WAIT_BARR") => ~Running(q)'
    <3>1. \A a \in Arbiters : Serving(a) /\ Full(a) /\ Halted(a) => Flush(a)
      BY DEF Settled, FlushInv
    <3>2. \A q \in Procs : Has(p2a, q, "WAIT_BARR")' <=> Has(p2a', q, "WAIT_BARR")
      BY DEF Has
    <3> QED BY <1>1, <1>3, <3>1, <3>2 DEF FlushInv, Flush, Local
  <2>1. Flush(a) /\ q \in Local(a)
    BY DEF Settled, FlushInv, Local
  <2>2. CASE q # p
    BY <1>1, <1>2, <2>1, <2>2 DEF Flush, SameProcess, Unread, Has, Running
  <2>3. CASE q = p
    <3>1. Position(p) /\ (Held(p) \/ Writable(p))
      BY <2>3 DEF Settled, PosInv, HoldInv
    <3>2. loc[p] = "barrier" /\ Has(p2a, p, "WAIT_BARR") => ~Running(p)
      BY <2>1, <2>3 DEF Flush
    <3> QED BY <1>2, <2>3, <3>1, <3>2, FlushProcess
  <2> QED BY <2>2, <2>3
<1>8. BarrierInv'
  BY <1>1, <1>3, <1>0 DEF Settled, BarrierInv, Once, Has, Announced, AtBarrier
<1> QED BY <1>4, <1>5, <1>6, <1>7, <1>8 DEF Settled

(* A loss of a peer.                                                       *)
LEMMA SettledLoses ==
  ASSUME TypeInv, Settled, NEW p \in Procs, ProcessLosesArbiter(p)
  PROVE  Settled'
<1>0. loc \in [Procs -> Locations] /\ \A q \in Procs : Home[q] \in Arbiters
  BY HomeAssumption DEF TypeInv, TypeOK, ProcessTypeOK
<1>1. /\ UNCHANGED <<ptab, arbState, arbStarted, arbQueue, pass, step, opqueue, nproc_waiting, a2s, s2a>>
      /\ UNCHANGED <<p2a, a2p, susp, tstp>>
      /\ \A q \in Procs : q # p => loc'[q] = loc[q]
      /\ loc'[p] = "panic" /\ ~Serving(Home[p])
  BY <1>0 DEF ProcessLosesArbiter, serverVars, arbVars, writeVars, netVars, channels, signals, Goto, Serving
<1>3. \A a \in Arbiters : /\ Halted(a)' <=> Halted(a)
                          /\ Serving(a)' <=> Serving(a)
                          /\ Full(a)' <=> Full(a)
                          /\ Due(a)' <=> Due(a)
  BY <1>1 DEF Halted, Serving, Full, Due, Resuming, Stopping, Ahead, Updating, OnTurn, Sent, Has
<1>4. HoldInv'
  <2>1. \A q \in Procs : Held(q) \/ Writable(q) => Held(q)' \/ Writable(q)'
    BY <1>1 DEF Held, Writable
  <2>2. HoldInv
    BY DEF Settled
  <2> QED BY <1>0, <1>1, <1>3, <2>1, <2>2 DEF HoldInv
<1>5. PosInv'
  <2> SUFFICES ASSUME NEW q \in Procs, Serving(Home[q]), q # p
               PROVE  Position(q)' /\ (~Halted(Home[q]) /\ ptab[q].is_stopped => ptab[q].is_queued)
    BY <1>0, <1>1, <1>3 DEF PosInv
  <2>1. Position(q) /\ (~Halted(Home[q]) /\ ptab[q].is_stopped => ptab[q].is_queued)
    BY DEF Settled, PosInv
  <2> QED BY <1>1, <2>1 DEF Position, Idling, Asks, Queued, Wrote, Arrives, Waits, Leaves, Away, Parked, Only, Flags
<1>6. QueueInv'
  BY <1>1, <1>3 DEF Settled, QueueInv
<1>7. FlushInv'
  <2>1. \A a \in Arbiters : Serving(a) /\ Full(a) /\ Halted(a) => Flush(a)
    BY DEF Settled, FlushInv
  <2>2. \A q \in Procs : q # p => /\ Unread(q)' <=> Unread(q)
                                  /\ Has(p2a, q, "WAIT_BARR")' <=> Has(p2a, q, "WAIT_BARR")
                                  /\ Running(q)' <=> Running(q)
    BY <1>1 DEF Unread, Has, Running
  <2> QED BY <1>1, <1>3, <2>1, <2>2 DEF FlushInv, Flush, Local
<1>8. BarrierInv'
  BY <1>1, <1>3, <1>0 DEF Settled, BarrierInv, Once, Has, Announced, AtBarrier
<1> QED BY <1>4, <1>5, <1>6, <1>7, <1>8 DEF Settled

(* A server or an arbiter that breaks down lets nobody go.                 *)
LEMMA SettledBreaks ==
  ASSUME TypeInv, Settled, Breaks
  PROVE  Settled'
<1>0. \A q \in Procs : Home[q] \in Arbiters
  BY HomeAssumption
<1>1. /\ UNCHANGED <<ptab, arbStarted, arbQueue, pass, step, opqueue, nproc_waiting, a2s, s2a>>
      /\ UNCHANGED <<p2a, a2p, susp, tstp, loc>>
      /\ \A a \in Arbiters : Serving(a)' => Serving(a)
  BY DEF Breaks, writeVars, netVars, procVars, channels, signals, Serving
<1>3. \A a \in Arbiters : /\ Halted(a)' <=> Halted(a)
                          /\ Full(a)' <=> Full(a)
                          /\ Due(a)' <=> Due(a)
  BY <1>1 DEF Halted, Full, Due, Resuming, Stopping, Ahead, Updating, OnTurn, Sent, Has
<1>4. HoldInv'
  BY <1>0, <1>1, <1>3 DEF Settled, HoldInv, Held, Writable
<1>5. PosInv'
  <2> SUFFICES ASSUME NEW q \in Procs, Serving(Home[q])
               PROVE  Position(q)' /\ (~Halted(Home[q]) /\ ptab[q].is_stopped => ptab[q].is_queued)
    BY <1>0, <1>1, <1>3 DEF PosInv
  <2>1. Position(q) /\ (~Halted(Home[q]) /\ ptab[q].is_stopped => ptab[q].is_queued)
    BY DEF Settled, PosInv
  <2> QED BY <1>1, <2>1 DEF Position, Idling, Asks, Queued, Wrote, Arrives, Waits, Leaves, Away, Parked, Only, Flags
<1>6. QueueInv'
  BY <1>1 DEF Settled, QueueInv
<1>7. FlushInv'
  <2>1. \A a \in Arbiters : Serving(a) /\ Full(a) /\ Halted(a) => Flush(a)
    BY DEF Settled, FlushInv
  <2>2. \A q \in Procs : /\ Unread(q)' <=> Unread(q)
                         /\ Has(p2a, q, "WAIT_BARR")' <=> Has(p2a, q, "WAIT_BARR")
                         /\ Running(q)' <=> Running(q)
    BY <1>1 DEF Unread, Has, Running
  <2> QED BY <1>1, <1>3, <2>1, <2>2 DEF FlushInv, Flush, Local
<1>8. BarrierInv'
  BY <1>1, <1>0 DEF Settled, BarrierInv, Once, Has, Announced, AtBarrier
<1> QED BY <1>4, <1>5, <1>6, <1>7, <1>8 DEF Settled

-----------------------------------------------------------------------------
(* What an arbiter does to its table when it reads a process's message.    *)
LEMMA TableRead ==
  ASSUME TypeOK, PlaceInv, NEW a \in Arbiters, NEW p \in Procs, FromProcessStep(a, p)
  PROVE  /\ arbState[a] = "up" /\ p \in pass[a] /\ Server \notin pass[a] /\ Home[p] = a
         /\ p2a[p] # << >> /\ p2a' = Consume(p2a, p) /\ UNCHANGED <<s2a, susp, tstp, arbStarted>>
         /\ \A q \in Procs : q # p => ptab'[q] = ptab[q]
         /\ \/ /\ ArbSyncRequest(a, p) /\ Head(p2a[p]).type = "SYNC_REQ"
               /\ ptab'[p].used = ptab[p].used /\ ptab'[p].is_waiting = ptab[p].is_waiting
               /\ ptab'[p].is_queued /\ ptab'[p].is_stopped
               /\ arbQueue'[a] = Append(arbQueue[a], p) /\ pass'[a] = pass[a] \ {p}
            \/ /\ ArbForwardSync(a, p) /\ Head(p2a[p]).type = "SYNC_INFO"
               /\ ptab'[p].used = ptab[p].used /\ ptab'[p].is_waiting = ptab[p].is_waiting
               /\ ptab'[p].is_stopped = ptab[p].is_stopped
               /\ \/ arbState'[a] # "up"
                  \/ /\ ~ptab'[p].is_queued
                     /\ arbQueue'[a] = Tail(arbQueue[a]) /\ pass'[a] = pass[a] \ {p}
            \/ /\ ArbWaitBarr(a, p) /\ Head(p2a[p]).type = "WAIT_BARR"
               /\ ptab'[p].used = ptab[p].used /\ ptab'[p].is_queued = ptab[p].is_queued
               /\ ptab'[p].is_stopped = ptab[p].is_stopped /\ ptab'[p].is_waiting
               /\ UNCHANGED arbQueue /\ pass'[a] = pass[a] \ {p}
            \/ /\ ArbPrgmDone(a, p) /\ Head(p2a[p]).type = "PRGM_DONE"
               /\ ptab'[p] = Unused /\ UNCHANGED arbQueue /\ pass'[a] \subseteq pass[a]
            \/ /\ ArbAddProc(a, p) /\ Head(p2a[p]).type = "ADD_PROC"
               /\ arbState'[a] # "up" \/ ~arbStarted[a]
               /\ UNCHANGED ptab \/ (~arbStarted[a] /\ ptab'[p].is_waiting)
<1>0. /\ ptab \in [Procs -> Entry] /\ arbState \in [Arbiters -> {"up", "closing", "exited", "panic"}]
      /\ pass \in [Arbiters -> SUBSET (Procs \cup {Server})] /\ arbQueue \in [Arbiters -> Seq(Procs)]
  BY DEF TypeOK, ArbiterTypeOK
<1>1. /\ arbState[a] = "up" /\ p \in pass[a] /\ Server \notin pass[a]
      /\ p2a[p] # << >> /\ p2a' = Consume(p2a, p) /\ UNCHANGED <<s2a, susp, tstp, arbStarted>>
  BY DEF FromProcessStep, ArbAddProc, ArbSyncRequest, ArbForwardSync, ArbWaitBarr, ArbPrgmDone, ArbPanic,
         FromProcess, Waiting, signals
<1>2. Home[p] = a
  BY <1>1, ReaderIsLocal
<1>t. \A q \in Procs : ptab[q] \in Entry
  BY <1>0
<1>e. ptab[p] \in [used : BOOLEAN, gid : Nat \cup {NoGid}, is_stopped : BOOLEAN, is_waiting : BOOLEAN, is_queued : BOOLEAN]
  BY <1>0 DEF Entry
<1>3. CASE ArbSyncRequest(a, p)
  <2>1. Head(p2a[p]).type = "SYNC_REQ" /\ arbQueue'[a] = Append(arbQueue[a], p) /\ pass'[a] = pass[a] \ {p}
    BY <1>0, <1>3 DEF ArbSyncRequest, FromProcess, Waiting, HasRead, Enqueued
  <2>2. ptab' = [ptab EXCEPT ![p].is_stopped = TRUE, ![p].is_queued = TRUE]
    BY <1>3 DEF ArbSyncRequest
  <2>3. \A q \in Procs : q # p => ptab'[q] = ptab[q]
    BY <1>0, <2>2
  <2>4. ptab'[p] = [ptab[p] EXCEPT !.is_stopped = TRUE, !.is_queued = TRUE]
    BY <1>0, <2>2
  <2>5. /\ ptab'[p].used = ptab[p].used /\ ptab'[p].is_waiting = ptab[p].is_waiting
        /\ ptab'[p].is_queued /\ ptab'[p].is_stopped
    BY <1>e, <2>4
  <2> QED BY <1>1, <1>2, <1>3, <2>1, <2>3, <2>5
<1>4. CASE ArbForwardSync(a, p)
  <2>1. Head(p2a[p]).type = "SYNC_INFO"
    BY <1>4 DEF ArbForwardSync, FromProcess, Waiting
  <2>2. CASE arbQueue[a] = << >>
    <3>1. arbState'[a] # "up" /\ UNCHANGED ptab
      BY <1>0, <1>4, <2>2 DEF ArbForwardSync
    <3> QED BY <1>1, <1>2, <1>4, <2>1, <3>1
  <2>3. CASE arbQueue[a] # << >>
    <3>1. /\ ptab' = [ptab EXCEPT ![p].is_queued = FALSE]
          /\ arbQueue'[a] = Tail(arbQueue[a]) /\ pass'[a] = pass[a] \ {p}
      BY <1>0, <1>4, <2>3 DEF ArbForwardSync, HasRead
    <3>2. \A q \in Procs : q # p => ptab'[q] = ptab[q]
      BY <1>0, <3>1
    <3>3. ptab'[p] = [ptab[p] EXCEPT !.is_queued = FALSE]
      BY <1>0, <3>1
    <3>4. /\ ptab'[p].used = ptab[p].used /\ ptab'[p].is_waiting = ptab[p].is_waiting
          /\ ptab'[p].is_stopped = ptab[p].is_stopped /\ ~ptab'[p].is_queued
      BY <1>e, <3>3
    <3> QED BY <1>1, <1>2, <1>4, <2>1, <3>1, <3>2, <3>4
  <2> QED BY <2>2, <2>3
<1>5. CASE ArbWaitBarr(a, p)
  <2>1. Head(p2a[p]).type = "WAIT_BARR" /\ UNCHANGED arbQueue /\ pass'[a] = pass[a] \ {p}
    BY <1>0, <1>5 DEF ArbWaitBarr, FromProcess, Waiting, HasRead
  <2>2. ptab' = [ptab EXCEPT ![p].is_waiting = TRUE]
    BY <1>5 DEF ArbWaitBarr
  <2>3. \A q \in Procs : q # p => ptab'[q] = ptab[q]
    BY <1>0, <2>2
  <2>4. ptab'[p] = [ptab[p] EXCEPT !.is_waiting = TRUE]
    BY <1>0, <2>2
  <2>5. /\ ptab'[p].used = ptab[p].used /\ ptab'[p].is_queued = ptab[p].is_queued
        /\ ptab'[p].is_stopped = ptab[p].is_stopped /\ ptab'[p].is_waiting
    BY <1>e, <2>4
  <2> QED BY <1>1, <1>2, <1>5, <2>1, <2>3, <2>5
<1>6. CASE ArbPrgmDone(a, p)
  <2>1. Head(p2a[p]).type = "PRGM_DONE" /\ UNCHANGED arbQueue /\ pass'[a] \subseteq pass[a]
    BY <1>0, <1>6 DEF ArbPrgmDone, FromProcess, Waiting
  <2>2. ptab' = [ptab EXCEPT ![p] = Unused]
    BY <1>6 DEF ArbPrgmDone
  <2>3. ptab'[p] = Unused /\ \A q \in Procs : q # p => ptab'[q] = ptab[q]
    BY <1>0, <2>2
  <2> QED BY <1>1, <1>2, <1>6, <2>1, <2>3
<1>7. CASE ArbAddProc(a, p)
  <2>1. Head(p2a[p]).type = "ADD_PROC"
    BY <1>7 DEF ArbAddProc, FromProcess, Waiting
  <2>2. CASE ArbPanic(a)
    <3>1. arbState'[a] # "up" /\ UNCHANGED ptab
      BY <1>0, <2>2 DEF ArbPanic
    <3> QED BY <1>1, <1>2, <1>7, <2>1, <3>1
  <2>3. CASE ~ArbPanic(a)
    <3>1. ~arbStarted[a] /\ ptab' = [ptab EXCEPT ![p] = [Unused EXCEPT !.used = TRUE, !.is_waiting = TRUE]]
      BY <1>7, <2>3 DEF ArbAddProc
    <3>2. \A q \in Procs : q # p => ptab'[q] = ptab[q]
      BY <1>0, <3>1
    <3>3. ptab'[p].is_waiting
      BY <1>0, <3>1 DEF Unused
    <3> QED BY <1>1, <1>2, <1>7, <2>1, <3>1, <3>2, <3>3
  <2> QED BY <2>2, <2>3
<1> QED BY <1>3, <1>4, <1>5, <1>6, <1>7 DEF FromProcessStep

SameFlags(q) == /\ ptab'[q].used = ptab[q].used /\ ptab'[q].is_waiting = ptab[q].is_waiting
                /\ ptab'[q].is_queued = ptab[q].is_queued

(* What it does when it reads a message of the server.                     *)
LEMMA TableServed ==
  ASSUME TypeOK, PlaceInv, NEW a \in Arbiters, FromServerStep(a)
  PROVE  /\ arbState[a] = "up" /\ Server \in pass[a]
         /\ s2a[a] # << >> /\ s2a' = Consume(s2a, a) /\ UNCHANGED <<p2a, arbQueue>>
         /\ arbState'[a] = "up" => pass'[a] = pass[a] \ {Server}
         /\ arbState'[a] # "up" => UNCHANGED <<ptab, arbStarted>>
         /\ \/ /\ ArbStopAll(a) /\ Head(s2a[a]).type = "STOP_ALL" /\ UNCHANGED <<susp, arbStarted>>
               /\ arbState'[a] = "up" => ~ArbPanic(a)
               /\ ~ArbPanic(a) => \A q \in Procs :
                    /\ SameFlags(q) /\ (ptab'[q].is_stopped <=> ptab[q].is_stopped \/ q \in Table(a))
                    /\ q \in ToFreeze(a) => tstp'[q] \/ susp[q]
               /\ \A q \in Procs : tstp[q] => tstp'[q]
            \/ /\ ArbContAll(a) /\ Head(s2a[a]).type = "CONT_ALL" /\ UNCHANGED arbStarted
               /\ arbState'[a] = "up" => \A q \in Procs :
                    SameFlags(q) /\ (ptab'[q].is_stopped <=> ptab[q].is_stopped /\ q \notin ToCont(a))
               /\ \A q \in Procs : q \notin ToWake(a) => susp'[q] = susp[q] /\ tstp'[q] = tstp[q]
            \/ /\ ArbWaitDone(a) /\ Head(s2a[a]).type = "WAIT_DONE"
               /\ arbState'[a] = "up" => arbStarted'[a] /\ \A q \in Procs :
                    /\ ptab'[q].used = ptab[q].used /\ ptab'[q].is_queued = ptab[q].is_queued
                    /\ ptab'[q].is_stopped = ptab[q].is_stopped
                    /\ ptab'[q].is_waiting <=> ptab[q].is_waiting /\ q \notin Table(a)
               /\ \A q \in Procs : q \notin ToRelease(a) => susp'[q] = susp[q] /\ tstp'[q] = tstp[q]
            \/ /\ Head(s2a[a]).type \in {"SET_GID", "WRITE_OKAY", "SYNC_INFO"}
               /\ UNCHANGED <<susp, tstp, arbStarted>>
               /\ \A q \in Procs : SameFlags(q) /\ ptab'[q].is_stopped = ptab[q].is_stopped
<1>0. /\ ptab \in [Procs -> Entry] /\ arbState \in [Arbiters -> {"up", "closing", "exited", "panic"}]
      /\ pass \in [Arbiters -> SUBSET (Procs \cup {Server})] /\ arbStarted \in [Arbiters -> BOOLEAN]
      /\ susp \in [Procs -> BOOLEAN] /\ tstp \in [Procs -> BOOLEAN]
  BY DEF TypeOK, ArbiterTypeOK, NetTypeOK
<1>1. /\ arbState[a] = "up" /\ Server \in pass[a]
      /\ s2a[a] # << >> /\ s2a' = Consume(s2a, a) /\ UNCHANGED <<p2a, arbQueue>>
  BY DEF FromServerStep, ArbSetGid, ArbStopAll, ArbContAll, ArbWaitDone, ArbWriteOkay, ArbApplySync, ArbPanic,
         FromServer, Waiting
<1>2. ArbPanic(a) => arbState'[a] = "panic" /\ UNCHANGED <<ptab, arbStarted>>
  BY <1>0 DEF ArbPanic
<1>3. ~ArbPanic(a) => arbState' = arbState /\ HasRead(a, Server)
  BY DEF FromServerStep, ArbSetGid, ArbStopAll, ArbContAll, ArbWaitDone, ArbWriteOkay, ArbApplySync
<1>4. /\ arbState'[a] = "up" => pass'[a] = pass[a] \ {Server}
      /\ arbState'[a] # "up" => UNCHANGED <<ptab, arbStarted>>
  BY <1>0, <1>1, <1>2, <1>3 DEF HasRead
<1>5. \A q \in Procs : ptab[q] \in Entry
  BY <1>0
<1>s. \A S : S \cap gone = {} => Signalled(a, S) = S
  BY DEF Signalled
<1>6. CASE ArbStopAll(a)
  <2>1. Head(s2a[a]).type = "STOP_ALL" /\ UNCHANGED <<susp, arbStarted>>
    BY <1>6 DEF ArbStopAll, ArbPanic, FromServer, Waiting, KillTstp
  <2>2. \A q \in Procs : tstp[q] => tstp'[q]
    BY <1>0, <1>6 DEF ArbStopAll, KillTstp
  <2>3. ASSUME ~ArbPanic(a), NEW q \in Procs
        PROVE  /\ SameFlags(q) /\ (ptab'[q].is_stopped <=> ptab[q].is_stopped \/ q \in Table(a))
               /\ q \in ToFreeze(a) => tstp'[q] \/ susp[q]
    <3>1. ptab' = [r \in Procs |-> [ptab[r] EXCEPT !.is_stopped = @ \/ r \in ToStop(a)]]
      BY <1>6, <2>3 DEF ArbStopAll
    <3>2. ptab'[q] = [ptab[q] EXCEPT !.is_stopped = @ \/ q \in ToStop(a)]
      BY <3>1
    <3>e. ptab[q] \in [used : BOOLEAN, gid : Nat \cup {NoGid}, is_stopped : BOOLEAN, is_waiting : BOOLEAN, is_queued : BOOLEAN]
      BY <1>5 DEF Entry
    <3>3. SameFlags(q) /\ ptab'[q].is_stopped = (ptab[q].is_stopped \/ q \in ToStop(a))
      BY <3>2, <3>e DEF SameFlags
    <3>4. ToFreeze(a) \cap gone = {} /\ KillTstp(Signalled(a, ToFreeze(a)))
      BY <1>6, <2>3 DEF ArbStopAll, SignalFails
    <3>5. KillTstp(ToFreeze(a))
      BY <1>s, <3>4
    <3>6. q \in ToFreeze(a) => tstp'[q] \/ susp[q]
      BY <1>0, <3>5 DEF KillTstp
    <3>7. q \in ToStop(a) <=> q \in Table(a) /\ ~ptab[q].is_stopped
      BY DEF ToStop
    <3> QED BY <3>3, <3>6, <3>7
  <2> QED BY <1>1, <1>2, <1>4, <1>6, <2>1, <2>2, <2>3
<1>7. CASE ArbContAll(a)
  <2>1. Head(s2a[a]).type = "CONT_ALL" /\ UNCHANGED arbStarted
    BY <1>7 DEF ArbContAll, ArbPanic, FromServer, Waiting
  <2>2. \A q \in Procs : q \notin ToWake(a) => susp'[q] = susp[q] /\ tstp'[q] = tstp[q]
    BY <1>0, <1>7 DEF ArbContAll, KillCont, Signalled
  <2>3. ASSUME ~ArbPanic(a), NEW q \in Procs
        PROVE  SameFlags(q) /\ (ptab'[q].is_stopped <=> ptab[q].is_stopped /\ q \notin ToCont(a))
    <3>1. ptab' = [r \in Procs |-> [ptab[r] EXCEPT !.is_stopped = @ /\ r \notin ToCont(a)]]
      BY <1>7, <2>3 DEF ArbContAll
    <3>2. ptab'[q] = [ptab[q] EXCEPT !.is_stopped = @ /\ q \notin ToCont(a)]
      BY <3>1
    <3>e. ptab[q] \in [used : BOOLEAN, gid : Nat \cup {NoGid}, is_stopped : BOOLEAN, is_waiting : BOOLEAN, is_queued : BOOLEAN]
      BY <1>5 DEF Entry
    <3>3. SameFlags(q) /\ ptab'[q].is_stopped = (ptab[q].is_stopped /\ q \notin ToCont(a))
      BY <3>2, <3>e DEF SameFlags
    <3> QED BY <3>3
  <2> QED BY <1>1, <1>2, <1>4, <1>7, <2>1, <2>2, <2>3
<1>8. CASE ArbWaitDone(a)
  <2>1. Head(s2a[a]).type = "WAIT_DONE"
    BY <1>8 DEF ArbWaitDone, FromServer, Waiting
  <2>2. \A q \in Procs : q \notin ToRelease(a) => susp'[q] = susp[q] /\ tstp'[q] = tstp[q]
    BY <1>0, <1>8 DEF ArbWaitDone, KillCont, Signalled
  <2>3. ASSUME ~ArbPanic(a), NEW q \in Procs
        PROVE  /\ arbStarted'[a] /\ ptab'[q].used = ptab[q].used /\ ptab'[q].is_queued = ptab[q].is_queued
               /\ ptab'[q].is_stopped = ptab[q].is_stopped
               /\ ptab'[q].is_waiting <=> ptab[q].is_waiting /\ q \notin Table(a)
    <3>1. /\ ptab' = [r \in Procs |-> [ptab[r] EXCEPT !.is_waiting = @ /\ r \notin Table(a)]]
          /\ arbStarted' = [arbStarted EXCEPT ![a] = TRUE]
      BY <1>8, <2>3 DEF ArbWaitDone
    <3>2. ptab'[q] = [ptab[q] EXCEPT !.is_waiting = @ /\ q \notin Table(a)] /\ arbStarted'[a]
      BY <1>0, <3>1
    <3>e. ptab[q] \in [used : BOOLEAN, gid : Nat \cup {NoGid}, is_stopped : BOOLEAN, is_waiting : BOOLEAN, is_queued : BOOLEAN]
      BY <1>5 DEF Entry
    <3>3. /\ ptab'[q].used = ptab[q].used /\ ptab'[q].is_queued = ptab[q].is_queued
          /\ ptab'[q].is_stopped = ptab[q].is_stopped
          /\ ptab'[q].is_waiting = (ptab[q].is_waiting /\ q \notin Table(a))
      BY <3>2, <3>e
    <3> QED BY <3>2, <3>3
  <2>4. Procs # {}
    BY HomeAssumption
  <2>5. arbState'[a] = "up" => ~ArbPanic(a)
    BY <1>2
  <2>6. ~ArbPanic(a) => arbStarted'[a]
    BY <2>3, <2>4
  <2> QED BY <1>1, <1>4, <1>8, <2>1, <2>2, <2>3, <2>5, <2>6
<1>9. CASE ArbSetGid(a)
  <2>1. Head(s2a[a]).type = "SET_GID" /\ UNCHANGED <<susp, tstp, arbStarted>>
    BY <1>9 DEF ArbSetGid, FromServer, Waiting, ArbPanic, signals
  <2>2. ASSUME NEW q \in Procs PROVE SameFlags(q) /\ ptab'[q].is_stopped = ptab[q].is_stopped
    <3>1. CASE ArbPanic(a)
      BY <1>2, <3>1 DEF SameFlags
    <3>2. CASE ~ArbPanic(a)
      <4>0. PICK r, g : r = Head(s2a[a]).pid /\ g = Head(s2a[a]).gid
        OBVIOUS
      <4>1. ptab' = [ptab EXCEPT ![r].gid = g] /\ r \in Table(a)
        BY <1>9, <3>2, <4>0 DEF ArbSetGid
      <4>2. ptab'[q] = IF q = r THEN [ptab[q] EXCEPT !.gid = g] ELSE ptab[q]
        BY <1>0, <4>1
      <4>e. ptab[q] \in [used : BOOLEAN, gid : Nat \cup {NoGid}, is_stopped : BOOLEAN, is_waiting : BOOLEAN, is_queued : BOOLEAN]
        BY <1>5 DEF Entry
      <4> QED BY <4>2, <4>e DEF SameFlags
    <3> QED BY <3>1, <3>2
  <2> QED BY <1>1, <1>4, <2>1, <2>2
<1>10. CASE ArbWriteOkay(a) \/ ArbApplySync(a)
  <2>1. /\ Head(s2a[a]).type \in {"WRITE_OKAY", "SYNC_INFO"} /\ UNCHANGED <<susp, tstp, arbStarted, ptab>>
    BY <1>10 DEF ArbWriteOkay, ArbApplySync, FromServer, Waiting, ArbPanic, signals
  <2>2. \A q \in Procs : SameFlags(q) /\ ptab'[q].is_stopped = ptab[q].is_stopped
    BY <2>1 DEF SameFlags
  <2> QED BY <1>1, <1>4, <2>1, <2>2
<1> QED BY <1>6, <1>7, <1>8, <1>9, <1>10 DEF FromServerStep

(* The steps that read nothing.                                            *)
LEMMA TableRest ==
  ASSUME TypeOK, NEW a \in Arbiters,
         ArbiterStep(a), ~FromServerStep(a), ~\E p \in Procs : FromProcessStep(a, p)
  PROVE  /\ UNCHANGED <<p2a, s2a, susp, tstp, ptab, arbQueue, arbStarted>>
         /\ \/ UNCHANGED <<arbState, pass, a2s>> /\ ~arbStarted[a]
            \/ /\ pass[a] = {} /\ UNCHANGED <<arbState, a2s>>
               /\ \E f \in BOOLEAN : pass'[a] = Readable(a, f)
            \/ arbState'[a] # "up" /\ a2s' = Send(a2s, a, Simple("PRGM_DONE"))
<1>0. /\ arbState \in [Arbiters -> {"up", "closing", "exited", "panic"}]
      /\ pass \in [Arbiters -> SUBSET (Procs \cup {Server})]
  BY DEF TypeOK, ArbiterTypeOK
<1>1. CASE \E p \in Procs : ArbAccept(a, p)
  BY <1>1 DEF ArbAccept, channels, signals
<1>2. CASE \E f \in BOOLEAN : ArbPoll(a, f)
  <2>1. PICK f \in BOOLEAN : ArbPoll(a, f)
    BY <1>2
  <2>2. pass'[a] = Readable(a, f)
    BY <1>0, <2>1 DEF ArbPoll
  <2> QED BY <2>1, <2>2 DEF ArbPoll, channels, signals
<1>3. CASE ArbExit(a)
  BY <1>0, <1>3 DEF ArbExit, signals
<1> QED BY <1>1, <1>2, <1>3 DEF ArbiterStep

(* A resume that is read lets the machine go.                              *)
LEMMA ContLetsGo ==
  ASSUME TypeOK, StopInv, NEW a \in Arbiters, ArbContAll(a), UNCHANGED serverVars
  PROVE  Resuming(a) /\ ~Halted(a)'
<1>0. s2a \in [Arbiters -> Seq(Message)]
  BY DEF TypeOK, NetTypeOK
<1>1. /\ s2a[a] # << >> /\ Head(s2a[a]).type = "CONT_ALL" /\ s2a' = Consume(s2a, a) /\ arbState[a] = "up"
      /\ UNCHANGED step
  BY DEF ArbContAll, FromServer, Waiting, serverVars, writeVars
<1>2. /\ Has(s2a, a, "CONT_ALL")
      /\ Once(s2a, a, "CONT_ALL") => ~Has(Consume(s2a, a), a, "CONT_ALL")
  BY <1>0, <1>1, ConsumeHas
<1>3. Steady(s2a, Consume(s2a, a))
  BY <1>0, <1>1, SteadyConsume
<1>4. Resuming(a) /\ StopLink(a)
  BY <1>2 DEF Resuming, StopInv
<1>5. ~Resuming(a)' /\ (Stopping(a)' <=> Stopping(a))
  <2>1. Resuming(a)' <=> Has(s2a', a, "CONT_ALL")
    BY DEF Resuming, Has
  <2>2. Stopping(a)' <=> Has(s2a', a, "STOP_ALL")
    BY DEF Stopping, Has
  <2>3. Once(s2a, a, "CONT_ALL")
    BY <1>4 DEF StopLink
  <2> QED BY <1>1, <1>2, <1>3, <2>1, <2>2, <2>3 DEF Steady, Stopping
<1>6. step \in {"READY", "WAITING_STOP_ACK"} \cup FrozenSteps
  BY DEF TypeOK, ServerTypeOK, Steps, FrozenSteps
<1> QED BY <1>1, <1>4, <1>5, <1>6 DEF StopLink, Halted, Live

(* Before its first order from the server, a machine is released.          *)
LEMMA OrderedIsStarted ==
  ASSUME TypeOK, StartInv, NEW a \in Arbiters, s2a[a] # << >>, Head(s2a[a]).type \in Orders
  PROVE  arbStarted[a]
<1>1. s2a[a] \in Seq(Message)
  BY DEF TypeOK, NetTypeOK
<1>2. Preceded(s2a[a], Orders, {"WAIT_DONE"}) => Head(s2a[a]).type \notin Orders
  BY <1>1, OrderTail
<1> QED BY <1>2 DEF StartInv

HoldAt(a)  == Halted(a) => /\ arbStarted[a]
                           /\ \A q \in Local(a) : /\ Held(q) \/ Writable(q)
                                                  /\ ptab[q].used => ptab[q].is_stopped

(* An arbiter holds its processes from the freeze to the resume.           *)
LEMMA HoldArbiter ==
  ASSUME TypeOK, PlaceInv, StartInv, StopInv, Settled, NEW a \in Arbiters, ArbiterStep(a),
         UNCHANGED <<serverVars, procVars>>, RoundGoes(a),
         ArbStopAll(a) => ~Halted(a) /\ ~ArbPanic(a) /\ Full(a)
  PROVE  HoldAt(a)'
<1> SUFFICES ASSUME Halted(a)'
             PROVE  /\ arbStarted'[a]
                    /\ \A q \in Local(a) : /\ Held(q)' \/ Writable(q)'
                                           /\ ptab'[q].used => ptab'[q].is_stopped
  BY DEF HoldAt, Local
<1>0. UNCHANGED loc /\ \A q \in Local(a) : q \in Procs /\ Home[q] = a
  BY DEF procVars, Local
<1>1. CASE Halted(a)
  <2>1. arbStarted[a] /\ \A q \in Local(a) : /\ Held(q) \/ Writable(q)
                                             /\ ptab[q].used => ptab[q].is_stopped
    BY <1>0, <1>1 DEF Settled, HoldInv
  <2>2. ~ArbContAll(a) /\ ~ArbStopAll(a)
    BY <1>1, ContLetsGo
  <2>3. ASSUME FromServerStep(a)
        PROVE  /\ arbStarted'[a]
               /\ \A q \in Local(a) : /\ Held(q)' \/ Writable(q)'
                                      /\ ptab'[q].used => ptab'[q].is_stopped
    <3>1. \A q \in Local(a) : q \notin ToRelease(a)
      BY <2>1 DEF ToRelease, Table
    <3>2. /\ \A q \in Procs : q \notin ToRelease(a) => susp'[q] = susp[q] /\ tstp'[q] = tstp[q]
          /\ \/ UNCHANGED <<ptab, arbStarted>>
             \/ arbStarted'[a] /\ \A q \in Procs : ptab'[q].used = ptab[q].used /\ ptab'[q].is_stopped = ptab[q].is_stopped
             \/ UNCHANGED arbStarted /\ \A q \in Procs : ptab'[q].used = ptab[q].used /\ ptab'[q].is_stopped = ptab[q].is_stopped
      BY <2>2, <2>3, TableServed DEF SameFlags
    <3>3. \A q \in Local(a) : susp'[q] = susp[q] /\ tstp'[q] = tstp[q]
      BY <1>0, <3>1, <3>2
    <3>4. \A q \in Local(a) : Held(q)' \/ Writable(q)'
      BY <1>0, <2>1, <3>3 DEF Held, Writable
    <3>5. arbStarted'[a] /\ \A q \in Local(a) : ptab'[q].used => ptab'[q].is_stopped
      BY <1>0, <2>1, <3>2
    <3> QED BY <3>4, <3>5
  <2>4. ASSUME NEW p \in Procs, FromProcessStep(a, p)
        PROVE  /\ arbStarted'[a]
               /\ \A q \in Local(a) : /\ Held(q)' \/ Writable(q)'
                                      /\ ptab'[q].used => ptab'[q].is_stopped
    <3>1. UNCHANGED <<susp, tstp, arbStarted>> /\ Home[p] = a
      BY <2>4, TableRead
    <3>2. ptab'[p].used => ptab'[p].is_stopped
      <4>1. \/ ptab'[p].is_stopped
            \/ ptab'[p].used = ptab[p].used /\ ptab'[p].is_stopped = ptab[p].is_stopped
            \/ ptab'[p] = Unused
            \/ UNCHANGED ptab
        BY <2>1, <2>4, TableRead
      <4>2. ptab[p].used => ptab[p].is_stopped
        BY <2>1, <3>1 DEF Local
      <4>3. ptab'[p] = Unused => ~ptab'[p].used
        BY DEF Unused
      <4>4. UNCHANGED ptab => ptab'[p].used = ptab[p].used /\ ptab'[p].is_stopped = ptab[p].is_stopped
        OBVIOUS
      <4> QED BY <4>1, <4>2, <4>3, <4>4
    <3>3. \A q \in Local(a) : q # p => ptab'[q] = ptab[q]
      BY <1>0, <2>4, TableRead
    <3>4. \A q \in Local(a) : ptab'[q].used => ptab'[q].is_stopped
      BY <2>1, <3>2, <3>3
    <3>5. \A q \in Local(a) : Held(q)' \/ Writable(q)'
      BY <1>0, <2>1, <3>1 DEF Held, Writable
    <3> QED BY <2>1, <3>1, <3>4, <3>5
  <2>5. CASE ~FromServerStep(a) /\ ~\E p \in Procs : FromProcessStep(a, p)
    <3>1. UNCHANGED <<susp, tstp, ptab, arbStarted>>
      BY <2>5, TableRest
    <3> QED BY <1>0, <2>1, <3>1 DEF Held, Writable
  <2> QED BY <2>3, <2>4, <2>5
<1>2. CASE ~Halted(a)
  <2>1. ArbStopAll(a)
    BY <1>2 DEF RoundGoes
  <2>2. ~ArbPanic(a) /\ Full(a)
    BY <2>1
  <2>3. FromServerStep(a)
    BY <2>1 DEF FromServerStep
  <2>4. Head(s2a[a]).type = "STOP_ALL" /\ s2a[a] # << >>
    BY <2>1 DEF ArbStopAll, FromServer, Waiting
  <2>5. arbStarted[a] /\ arbState[a] = "up"
    <3>1. arbStarted[a]
      BY <2>4, OrderedIsStarted DEF Orders
    <3> QED BY <2>1, <3>1 DEF ArbStopAll, FromServer
  <2>6. /\ UNCHANGED <<susp, arbStarted>>
        /\ \A q \in Procs : /\ SameFlags(q) /\ (ptab'[q].is_stopped <=> ptab[q].is_stopped \/ q \in Table(a))
                            /\ q \in ToFreeze(a) => tstp'[q] \/ susp[q]
        /\ \A q \in Procs : tstp[q] => tstp'[q]
    <3>1. Head(s2a[a]).type \notin {"CONT_ALL", "WAIT_DONE", "SET_GID", "WRITE_OKAY", "SYNC_INFO"}
      BY <2>4
    <3> QED BY <2>2, <2>3, <3>1, TableServed
  <2>7. ASSUME NEW q \in Local(a) PROVE (Held(q)' \/ Writable(q)') /\ ptab'[q].is_stopped
    <3>1. ptab[q].used /\ q \in Procs /\ Home[q] = a /\ q \in Table(a)
      BY <1>0, <2>2 DEF Full, Table
    <3>2. Position(q) /\ (ptab[q].is_stopped => ptab[q].is_queued)
      BY <1>2, <2>5, <3>1 DEF Settled, PosInv, Serving
    <3>3. CASE q \in ToFreeze(a)
      BY <2>6, <3>1, <3>3 DEF Held
    <3>4. CASE q \notin ToFreeze(a)
      <4>1. ptab[q].is_queued \/ ptab[q].is_waiting
        BY <3>1, <3>2, <3>4 DEF ToFreeze, ToStop
      <4>2. Queued(q) \/ Wrote(q) \/ Waits(q)
        BY <3>2, <4>1 DEF Position, Idling, Asks, Arrives, Leaves, Away, Flags
      <4>3. loc[q] \in {"takeAccess", "store", "sigill", "dropAccess", "barrier", "killed", "panic"} \/ susp[q]
        BY <4>2 DEF Queued, Wrote, Waits, Parked
      <4> QED BY <1>0, <2>6, <3>1, <4>3 DEF Held, Writable
    <3> QED BY <2>6, <3>1, <3>3, <3>4
  <2> QED BY <2>5, <2>6, <2>7
<1> QED BY <1>1, <1>2

(* A process that is left alone, but for its signals, stays in its         *)
(* position.                                                               *)
LEMMA PosKept ==
  ASSUME NEW q \in Procs, Position(q), p2a'[q] = p2a[q], loc'[q] = loc[q], SameFlags(q),
         ptab[q].used \/ ptab'[q].is_stopped = ptab[q].is_stopped,
         susp'[q] = susp[q] \/ ~(Wrote(q) \/ Arrives(q) \/ Waits(q))
  PROVE  Position(q)'
<1>f. \A u, w, k : Flags(q, u, w, k)' <=> Flags(q, u, w, k)
  BY DEF Flags, SameFlags
<1>o. \A t : Only(q, t)' <=> Only(q, t)
  BY DEF Only
<1>p. susp'[q] = susp[q] => \A l : Parked(q, l)' <=> Parked(q, l)
  BY DEF Parked
<1>1. Idling(q) => Idling(q)'
  BY <1>f DEF Idling
<1>2. Asks(q) => Asks(q)'
  BY <1>f, <1>o DEF Asks
<1>3. Queued(q) => Queued(q)'
  BY <1>f DEF Queued
<1>4. susp'[q] = susp[q] => (Wrote(q) => Wrote(q)') /\ (Arrives(q) => Arrives(q)') /\ (Waits(q) => Waits(q)')
  BY <1>f, <1>o, <1>p DEF Wrote, Arrives, Waits
<1>5. Leaves(q) => Leaves(q)'
  BY <1>f, <1>o DEF Leaves
<1>6. Away(q) => Away(q)'
  <2> HAVE Away(q)
  <2>1. ~ptab[q].used /\ ~ptab[q].is_stopped
    BY DEF Away, Flags
  <2>2. ~ptab'[q].is_stopped
    BY <2>1
  <2> QED BY <1>f, <2>2 DEF Away
<1> QED BY <1>1, <1>2, <1>3, <1>4, <1>5, <1>6 DEF Position

(* The first release finds everyone waiting for it in dsm_init.            *)
LEMMA FirstRelease ==
  ASSUME TypeOK, JoinInv, CountInv, StartInv, started, NEW q \in Procs, ~arbStarted[Home[q]]
  PROVE  /\ p2a[q] = << >> /\ ptab[q].used /\ ~ptab[q].is_stopped /\ ~ptab[q].is_queued
         /\ loc[q] \in {"recv_gid", "recv_waitDone", "killed", "panic"}
<1>0. p2a[q] \in Seq(Message)
  BY DEF TypeOK, NetTypeOK
<1>1. Starting(q)
  BY DEF StartInv
<1>2. ptab[q].used
  BY <1>1 DEF CountInv, Starting, Left
<1>3. loc[q] # "connect" /\ \A m : ~(In(p2a, q, m) /\ m.type = "ADD_PROC")
  <2>1. \A m : In(p2a, q, m) /\ m.type = "ADD_PROC" => m = AddProc(q)
    BY DEF JoinInv
  <2>2. ~In(p2a, q, AddProc(q)) /\ loc[q] # "connect"
    BY <1>2 DEF JoinInv
  <2> QED BY <2>1, <2>2
<1>4. p2a[q] = << >>
  <2>1. \A i \in DOMAIN p2a[q] : FALSE
    <3> SUFFICES ASSUME NEW i \in DOMAIN p2a[q] PROVE FALSE
      OBVIOUS
    <3>1. p2a[q][i].type = "ADD_PROC" /\ In(p2a, q, p2a[q][i])
      BY <1>1 DEF Starting, In
    <3> QED BY <1>3, <3>1
  <2>2. Len(p2a[q]) \in Nat /\ DOMAIN p2a[q] = 1 .. Len(p2a[q])
    BY <1>0
  <2>3. Len(p2a[q]) = 0
    BY <2>1, <2>2
  <2> QED BY <1>0, <2>3
<1> QED BY <1>1, <1>2, <1>3, <1>4 DEF Starting

(* A machine that is to be resumed is complete.                            *)
LEMMA ResumedIsFull ==
  ASSUME TypeOK, StopInv, Whole, NEW a \in Arbiters, Resuming(a)
  PROVE  Full(a)
<1>1. step \in {"READY", "WAITING_STOP_ACK"} \cup FrozenSteps
  BY DEF TypeOK, ServerTypeOK, Steps, FrozenSteps
<1>2. step \notin FrozenSteps
  BY DEF StopInv, StopLink
<1> QED BY <1>1, <1>2 DEF Whole, Exact

PosAt(a) == Serving(a) => \A q \in Local(a) :
              Position(q) /\ (~Halted(a) /\ ptab[q].is_stopped => ptab[q].is_queued)

(* Reading a message moves its sender on.                                  *)
LEMMA PosRead ==
  ASSUME TypeOK, PlaceInv, GrantInv, StartInv, StopInv, Settled, NEW a \in Arbiters, NEW p \in Procs,
         FromProcessStep(a, p), UNCHANGED <<serverVars, procVars>>, RoundGoes(a)
  PROVE  PosAt(a)'
<1> SUFFICES ASSUME Serving(a)', NEW q \in Local(a)
             PROVE  Position(q)' /\ (~Halted(a)' /\ ptab'[q].is_stopped => ptab'[q].is_queued)
  BY DEF PosAt, Local
<1>0. UNCHANGED loc /\ q \in Procs /\ Home[q] = a
  BY DEF procVars, Local
<1>1. /\ arbState[a] = "up" /\ Home[p] = a
      /\ p2a[p] # << >> /\ p2a' = Consume(p2a, p) /\ UNCHANGED <<s2a, susp, tstp, arbStarted>>
      /\ \A r \in Procs : r # p => ptab'[r] = ptab[r]
  BY TableRead
<1>2. Serving(a)
  BY <1>1 DEF Serving
<1>3. \A r \in Local(a) : Position(r) /\ (~Halted(a) /\ ptab[r].is_stopped => ptab[r].is_queued)
  BY <1>2 DEF Settled, PosInv, Local
<1>4. ~ArbContAll(a)
  BY TableRead DEF ArbContAll, FromServer
<1>5. Halted(a) => Halted(a)'
  BY <1>4 DEF RoundGoes
<1>6. CASE q # p
  <2>1. p2a'[q] = p2a[q] /\ ptab'[q] = ptab[q]
    <3>1. p2a \in [Procs -> Seq(Message)]
      BY DEF TypeOK, NetTypeOK
    <3> QED BY <1>0, <1>1, <1>6, <3>1 DEF Consume
  <2>2. Position(q)'
    BY <1>0, <1>1, <1>3, <2>1, PosKept DEF SameFlags
  <2> QED BY <1>3, <1>5, <2>1, <2>2
<1>7. CASE q = p
  <2>0. p2a \in [Procs -> Seq(Message)]
    BY DEF TypeOK, NetTypeOK
  <2>1. p2a'[p] = Tail(p2a[p])
    BY <1>1, <2>0 DEF Consume
  <2>2. Position(p) /\ (~Halted(a) /\ ptab[p].is_stopped => ptab[p].is_queued)
    BY <1>3, <1>7
  <2>3. /\ Asks(p) \/ Wrote(p) \/ Arrives(p) \/ Leaves(p)
        /\ p2a'[p] = << >>
    BY <1>1, <2>1, <2>2 DEF Position, Idling, Asks, Queued, Wrote, Arrives, Waits, Leaves, Away, Only
  <2>4. arbStarted[a] /\ arbState'[a] = "up"
    BY <1>2 DEF Serving
  <2>5. CASE /\ ArbSyncRequest(a, p) /\ Head(p2a[p]).type = "SYNC_REQ"
             /\ ptab'[p].used = ptab[p].used /\ ptab'[p].is_waiting = ptab[p].is_waiting
             /\ ptab'[p].is_queued /\ ptab'[p].is_stopped
    <3>1. Asks(p)
      BY <2>3, <2>5 DEF Asks, Wrote, Arrives, Leaves, Only
    <3>2. ptab'[p].is_queued = TRUE
      <4>1. ptab' \in [Procs -> Entry]
        BY FromProcessTypes DEF ArbiterTypeOK
      <4>2. ptab'[p] \in Entry
        BY <4>1
      <4>3. ptab'[p].is_queued \in BOOLEAN
        BY <4>2 DEF Entry
      <4> QED BY <2>5, <4>3
    <3>3. Queued(p)'
      BY <1>0, <1>7, <2>3, <2>5, <3>1, <3>2 DEF Asks, Queued, Flags
    <3> QED BY <1>7, <2>5, <3>3 DEF Position
  <2>6. CASE /\ ArbForwardSync(a, p) /\ Head(p2a[p]).type = "SYNC_INFO"
             /\ ptab'[p].used = ptab[p].used /\ ptab'[p].is_waiting = ptab[p].is_waiting
             /\ ~ptab'[p].is_queued
    <3>1. Wrote(p)
      BY <2>3, <2>6 DEF Asks, Wrote, Arrives, Leaves, Only
    <3>2. ptab'[p].is_queued = FALSE
      <4>1. ptab' \in [Procs -> Entry]
        BY FromProcessTypes DEF ArbiterTypeOK
      <4>2. ptab'[p] \in Entry
        BY <4>1
      <4>3. ptab'[p].is_queued \in BOOLEAN
        BY <4>2 DEF Entry
      <4> QED BY <2>6, <4>3
    <3>3. Idling(p)'
      BY <1>0, <1>7, <2>3, <2>6, <3>1, <3>2 DEF Wrote, Idling, Flags, Parked
    <3>4. Halted(a)
      <4>1. Returning(p)
        <5>1. Has(p2a, p, "SYNC_INFO")
          BY <1>1, <2>0, <2>6, ConsumeHas
        <5> QED BY <5>1 DEF Returning
      <4>2. OnTurn(a)
        BY <1>1, <4>1 DEF GrantInv, InOrder, Holds
      <4> QED BY <4>2 DEF OnTurn, StopInv, StopLink, Halted
    <3> QED BY <1>5, <1>7, <3>3, <3>4 DEF Position
  <2>7. CASE /\ ArbWaitBarr(a, p) /\ Head(p2a[p]).type = "WAIT_BARR"
             /\ ptab'[p].used = ptab[p].used /\ ptab'[p].is_queued = ptab[p].is_queued
             /\ ptab'[p].is_stopped = ptab[p].is_stopped /\ ptab'[p].is_waiting
    <3>1. Arrives(p)
      BY <2>3, <2>7 DEF Asks, Wrote, Arrives, Leaves, Only
    <3>2. ptab'[p].is_waiting = TRUE
      <4>1. ptab' \in [Procs -> Entry]
        BY FromProcessTypes DEF ArbiterTypeOK
      <4>2. ptab'[p] \in Entry
        BY <4>1
      <4>3. ptab'[p].is_waiting \in BOOLEAN
        BY <4>2 DEF Entry
      <4> QED BY <2>7, <4>3
    <3>3. Waits(p)'
      BY <1>0, <1>1, <1>7, <2>3, <2>7, <3>1, <3>2 DEF Arrives, Waits, Flags, Parked
    <3>4. ~Halted(a)' /\ ptab'[q].is_stopped => ptab'[q].is_queued
      BY <1>5, <1>7, <2>2, <2>7
    <3> QED BY <1>7, <3>3, <3>4 DEF Position
  <2>8. CASE ptab'[p] = Unused /\ Head(p2a[p]).type = "PRGM_DONE"
    <3>1. Leaves(p)
      BY <2>3, <2>8 DEF Asks, Wrote, Arrives, Leaves, Only
    <3>2. Away(p)'
      BY <1>0, <1>7, <2>3, <2>8, <3>1 DEF Leaves, Away, Flags, Unused
    <3>3. ~ptab'[q].is_stopped
      BY <1>7, <2>8 DEF Unused
    <3> QED BY <1>7, <3>2, <3>3 DEF Position
  <2>9. ~(Head(p2a[p]).type = "ADD_PROC")
    BY <2>3 DEF Asks, Wrote, Arrives, Leaves, Only
  <2>10. \/ /\ ArbSyncRequest(a, p) /\ Head(p2a[p]).type = "SYNC_REQ"
            /\ ptab'[p].used = ptab[p].used /\ ptab'[p].is_waiting = ptab[p].is_waiting
            /\ ptab'[p].is_queued /\ ptab'[p].is_stopped
         \/ /\ ArbForwardSync(a, p) /\ Head(p2a[p]).type = "SYNC_INFO"
            /\ ptab'[p].used = ptab[p].used /\ ptab'[p].is_waiting = ptab[p].is_waiting
            /\ ~ptab'[p].is_queued
         \/ /\ ArbWaitBarr(a, p) /\ Head(p2a[p]).type = "WAIT_BARR"
            /\ ptab'[p].used = ptab[p].used /\ ptab'[p].is_queued = ptab[p].is_queued
            /\ ptab'[p].is_stopped = ptab[p].is_stopped /\ ptab'[p].is_waiting
         \/ ptab'[p] = Unused /\ Head(p2a[p]).type = "PRGM_DONE"
    BY <2>4, <2>9, TableRead
  <2> QED BY <2>5, <2>6, <2>7, <2>8, <2>10
<1> QED BY <1>6, <1>7

(* Reading a message of the server moves those on whom it concerns.        *)
LEMMA PosServed ==
  ASSUME TypeOK, PlaceInv, JoinInv, CountInv, StartInv, StopInv, Whole, Settled, started, NEW a \in Arbiters,
         FromServerStep(a), UNCHANGED <<serverVars, procVars>>, RoundGoes(a), ArbStopAll(a) => Halted(a)'
  PROVE  PosAt(a)'
<1> SUFFICES ASSUME Serving(a)', NEW q \in Local(a)
             PROVE  Position(q)' /\ (~Halted(a)' /\ ptab'[q].is_stopped => ptab'[q].is_queued)
  BY DEF PosAt, Local
<1>0. UNCHANGED loc /\ q \in Procs /\ Home[q] = a
  BY DEF procVars, Local
<1>s. s2a \in [Arbiters -> Seq(Message)]
  BY DEF TypeOK, NetTypeOK
<1>1. /\ arbState[a] = "up" /\ Server \in pass[a]
      /\ s2a[a] # << >> /\ s2a' = Consume(s2a, a) /\ UNCHANGED p2a
  BY TableServed
<1>u. arbState'[a] = "up" /\ arbStarted'[a]
  BY DEF Serving
<1>h. ~ArbContAll(a) /\ Halted(a) => Halted(a)'
  BY DEF RoundGoes
<1>2. CASE ~arbStarted[a]
  <2>1. /\ p2a[q] = << >> /\ ptab[q].used /\ ~ptab[q].is_stopped /\ ~ptab[q].is_queued
        /\ loc[q] \in {"recv_gid", "recv_waitDone", "killed", "panic"}
    BY <1>0, <1>2, FirstRelease
  <2>2. /\ ptab'[q].used = ptab[q].used /\ ptab'[q].is_queued = ptab[q].is_queued
        /\ ptab'[q].is_stopped = ptab[q].is_stopped
        /\ ptab'[q].is_waiting <=> ptab[q].is_waiting /\ q \notin Table(a)
    BY <1>0, <1>u, <1>2, TableServed
  <2>3. q \in Table(a)
    BY <1>0, <2>1 DEF Table
  <2>4. ptab'[q] \in Entry /\ ptab[q] \in Entry
    <3>1. ptab' \in [Procs -> Entry] /\ ptab \in [Procs -> Entry]
      BY FromServerTypes DEF ArbiterTypeOK, TypeOK
    <3> QED BY <1>0, <3>1
  <2>5. ptab'[q].is_waiting \in BOOLEAN /\ ptab'[q].used \in BOOLEAN /\ ptab'[q].is_queued \in BOOLEAN
    BY <2>4 DEF Entry
  <2>6. Flags(q, TRUE, FALSE, FALSE)'
    BY <2>1, <2>2, <2>3, <2>5 DEF Flags
  <2>7. Idling(q)'
    BY <1>0, <1>1, <2>1, <2>6 DEF Idling
  <2> QED BY <2>1, <2>2, <2>7 DEF Position
<1>3. CASE arbStarted[a]
  <2>0. Serving(a)
    BY <1>1, <1>3 DEF Serving
  <2>1. Position(q) /\ (~Halted(a) /\ ptab[q].is_stopped => ptab[q].is_queued)
    BY <1>0, <2>0 DEF Settled, PosInv
  <2>2. CASE ArbStopAll(a)
    <3>1. Head(s2a[a]).type = "STOP_ALL"
      BY <2>2 DEF ArbStopAll, FromServer, Waiting
    <3>2. Halted(a)' /\ UNCHANGED susp
      BY <2>2, <3>1, TableServed
    <3>3. SameFlags(q) /\ (ptab'[q].is_stopped <=> ptab[q].is_stopped \/ q \in Table(a))
      BY <1>0, <1>u, <3>1, TableServed
    <3>4. ptab[q].used \/ ptab'[q].is_stopped = ptab[q].is_stopped
      <4>1. ptab'[q] \in Entry /\ ptab[q] \in Entry
        <5>1. ptab' \in [Procs -> Entry] /\ ptab \in [Procs -> Entry]
          BY FromServerTypes DEF ArbiterTypeOK, TypeOK
        <5> QED BY <1>0, <5>1
      <4>2. ptab'[q].is_stopped \in BOOLEAN /\ ptab[q].is_stopped \in BOOLEAN
        BY <4>1 DEF Entry
      <4> QED BY <3>3, <4>2 DEF Table
    <3>5. Position(q)'
      BY <1>0, <1>1, <2>1, <3>2, <3>3, <3>4, PosKept
    <3> QED BY <3>2, <3>5
  <2>3. CASE ArbContAll(a)
    <3>1. Head(s2a[a]).type = "CONT_ALL"
      BY <2>3 DEF ArbContAll, FromServer, Waiting
    <3>2. Resuming(a) /\ Full(a)
      BY <2>3, ContLetsGo, ResumedIsFull
    <3>3. SameFlags(q) /\ (ptab'[q].is_stopped <=> ptab[q].is_stopped /\ q \notin ToCont(a))
      BY <1>0, <1>u, <3>1, TableServed
    <3>4. q \notin ToWake(a) => susp'[q] = susp[q]
      BY <1>0, <3>1, TableServed
    <3>5. ptab[q].used \/ ptab'[q].is_stopped = ptab[q].is_stopped
      <4>1. ptab[q].used
        BY <1>0, <3>2 DEF Full
      <4> QED BY <4>1
    <3>6. Wrote(q) \/ Waits(q) => q \notin ToWake(a)
      BY DEF Wrote, Waits, Flags, ToWake, ToCont
    <3>7. Due(a)
      <4>1. s2a[a] \in Seq(Message)
        BY <1>s
      <4>2. Ahead(a) => Head(s2a[a]).type \notin {"CONT_ALL"}
        BY <1>1, <4>1, OrderTail DEF Ahead
      <4> QED BY <3>1, <4>2 DEF Due
    <3>8. ~Unread(q)
      <4>1. Flush(a)
        BY <2>0, <3>2 DEF Settled, FlushInv, Halted
      <4> QED BY <1>1, <3>7, <4>1 DEF Flush
    <3>9. Position(q)'
      <4>1. CASE Arrives(q)
        <5>1. Has(p2a, q, "WAIT_BARR")
          <6>1. p2a[q] \in Seq(Message) /\ p2a[q] # << >> /\ Head(p2a[q]).type = "WAIT_BARR"
            BY <1>0, <4>1 DEF TypeOK, NetTypeOK, Arrives, Only
          <6>2. 1 \in DOMAIN p2a[q] /\ p2a[q][1] = Head(p2a[q])
            BY <6>1, TailPlaces
          <6> QED BY <6>1, <6>2 DEF Has
        <5>2. loc[q] \in {"barrier", "killed"}
          BY <3>8, <4>1, <5>1 DEF Arrives, Parked, Unread
        <5>3. Arrives(q)'
          BY <1>0, <1>1, <3>3, <4>1, <5>2 DEF Arrives, Only, Flags, Parked, SameFlags
        <5> QED BY <5>3 DEF Position
      <4>2. CASE ~Arrives(q)
        BY <1>0, <1>1, <2>1, <3>3, <3>4, <3>5, <3>6, <4>2, PosKept
      <4> QED BY <4>1, <4>2
    <3>10. ~Halted(a)' /\ ptab'[q].is_stopped => ptab'[q].is_queued
      <4>1. ptab'[q].is_stopped => q \notin ToCont(a)
        BY <3>3
      <4>2. ptab[q].used
        BY <1>0, <3>2 DEF Full
      <4> QED BY <1>0, <3>3, <4>1, <4>2 DEF ToCont, Table, SameFlags
    <3> QED BY <3>9, <3>10
  <2>4. CASE ArbWaitDone(a)
    <3>1. Head(s2a[a]).type = "WAIT_DONE"
      BY <2>4 DEF ArbWaitDone, FromServer, Waiting
    <3>2. ptab[q].is_waiting
      <4>1. Has(s2a, a, "WAIT_DONE")
        BY <1>1, <1>s, <3>1, ConsumeHas
      <4> QED BY <1>0, <2>0, <4>1 DEF Settled, BarrierInv
    <3>3. Waits(q)
      BY <2>1, <3>2 DEF Position, Idling, Asks, Queued, Wrote, Arrives, Leaves, Away, Flags
    <3>4. /\ ptab'[q].used = ptab[q].used /\ ptab'[q].is_queued = ptab[q].is_queued
          /\ ptab'[q].is_stopped = ptab[q].is_stopped
          /\ ptab'[q].is_waiting <=> ptab[q].is_waiting /\ q \notin Table(a)
      BY <1>0, <1>u, <3>1, TableServed
    <3>5. ptab'[q].is_waiting = FALSE
      <4>1. ptab'[q] \in Entry
        <5>1. ptab' \in [Procs -> Entry]
          BY FromServerTypes DEF ArbiterTypeOK
        <5> QED BY <1>0, <5>1
      <4>2. ptab'[q].is_waiting \in BOOLEAN
        BY <4>1 DEF Entry
      <4>3. q \in Table(a)
        BY <1>0, <3>3 DEF Waits, Flags, Table
      <4> QED BY <3>4, <4>2, <4>3
    <3>6. Idling(q)'
      BY <1>0, <1>1, <3>3, <3>4, <3>5 DEF Waits, Idling, Flags, Parked
    <3>7. ~ArbContAll(a)
      BY <3>1 DEF ArbContAll, FromServer, Waiting
    <3> QED BY <1>h, <2>1, <3>4, <3>6, <3>7 DEF Position
  <2>5. CASE ~ArbStopAll(a) /\ ~ArbContAll(a) /\ ~ArbWaitDone(a)
    <3>1. UNCHANGED susp /\ SameFlags(q) /\ ptab'[q].is_stopped = ptab[q].is_stopped
      BY <1>0, <2>5, TableServed
    <3>2. Position(q)'
      BY <1>0, <1>1, <2>1, <3>1, PosKept
    <3> QED BY <1>h, <2>1, <2>5, <3>1, <3>2 DEF SameFlags
  <2> QED BY <2>2, <2>3, <2>4, <2>5
<1> QED BY <1>2, <1>3

(* Every step of an arbiter.                                               *)
LEMMA PosArbiter ==
  ASSUME TypeOK, PlaceInv, JoinInv, CountInv, GrantInv, StartInv, StopInv, Whole, Settled, started,
         NEW a \in Arbiters, ArbiterStep(a), UNCHANGED <<serverVars, procVars>>, RoundGoes(a),
         ArbStopAll(a) => Halted(a)'
  PROVE  PosAt(a)'
<1>1. CASE \E p \in Procs : FromProcessStep(a, p)
  BY <1>1, PosRead
<1>2. CASE FromServerStep(a)
  BY <1>2, PosServed
<1>3. CASE ~FromServerStep(a) /\ ~\E p \in Procs : FromProcessStep(a, p)
  <2> SUFFICES ASSUME Serving(a)', NEW q \in Local(a)
               PROVE  Position(q)' /\ (~Halted(a)' /\ ptab'[q].is_stopped => ptab'[q].is_queued)
    BY DEF PosAt, Local
  <2>0. UNCHANGED loc /\ q \in Procs /\ Home[q] = a
    BY DEF procVars, Local
  <2>1. UNCHANGED <<p2a, susp, ptab, arbStarted>> /\ (arbState'[a] = "up" => arbState[a] = "up")
    BY <1>3, TableRest
  <2>2. Position(q) /\ (~Halted(a) /\ ptab[q].is_stopped => ptab[q].is_queued)
    BY <2>0, <2>1 DEF Settled, PosInv, Serving
  <2>3. ~ArbContAll(a)
    BY <1>3 DEF FromServerStep
  <2>4. Position(q)'
    BY <2>0, <2>1, <2>2, PosKept DEF SameFlags
  <2> QED BY <2>1, <2>2, <2>3, <2>4 DEF RoundGoes
<1> QED BY <1>1, <1>2, <1>3

QueueAt(a) == Serving(a) => /\ Distinct(arbQueue[a])
                            /\ \A i \in DOMAIN arbQueue[a] : ptab[arbQueue[a][i]].is_queued

(* A process is queued once, by the message that asks for it.              *)
LEMMA QueueRead ==
  ASSUME TypeOK, PlaceInv, GrantInv, Settled, NEW a \in Arbiters, NEW p \in Procs,
         FromProcessStep(a, p), UNCHANGED <<serverVars, procVars>>
  PROVE  QueueAt(a)'
<1> SUFFICES ASSUME Serving(a)'
             PROVE  /\ Distinct(arbQueue'[a])
                    /\ \A i \in DOMAIN arbQueue'[a] : ptab'[arbQueue'[a][i]].is_queued
  BY DEF QueueAt, Distinct
<1>0. arbQueue \in [Arbiters -> Seq(Procs)] /\ p2a \in [Procs -> Seq(Message)]
  BY DEF TypeOK, ArbiterTypeOK, NetTypeOK
<1>1. /\ arbState[a] = "up" /\ Home[p] = a /\ p2a[p] # << >> /\ UNCHANGED arbStarted
      /\ \A r \in Procs : r # p => ptab'[r] = ptab[r]
  BY TableRead
<1>2. Serving(a) /\ arbState'[a] = "up" /\ arbStarted[a]
  BY <1>1 DEF Serving
<1>3. Position(p)
  BY <1>1, <1>2 DEF Settled, PosInv
<1>4. PICK s : s = arbQueue[a]
  OBVIOUS
<1>5. s \in Seq(Procs) /\ Distinct(s) /\ \A i \in DOMAIN s : s[i] \in Procs /\ ptab[s[i]].is_queued
  <2>1. s \in Seq(Procs)
    BY <1>0, <1>4
  <2> QED BY <1>2, <1>4, <2>1 DEF Settled, QueueInv
<1>6. CASE /\ Head(p2a[p]).type = "SYNC_REQ" /\ ptab'[p].is_queued
           /\ arbQueue'[a] = Append(arbQueue[a], p)
  <2>1. Asks(p)
    BY <1>1, <1>3, <1>6 DEF Position, Idling, Asks, Queued, Wrote, Arrives, Waits, Leaves, Away, Only
  <2>2. \A i \in DOMAIN s : s[i] # p
    BY <1>5, <2>1 DEF Asks, Flags
  <2>3. /\ DOMAIN Append(s, p) = 1 .. Len(s) + 1 /\ Len(s) \in Nat /\ DOMAIN s = 1 .. Len(s)
        /\ \A i \in 1 .. Len(s) : Append(s, p)[i] = s[i]
        /\ Append(s, p)[Len(s) + 1] = p
    BY <1>5
  <2>4. Distinct(Append(s, p))
    BY <1>5, <2>2, <2>3 DEF Distinct
  <2>5. \A i \in DOMAIN Append(s, p) : ptab'[Append(s, p)[i]].is_queued
    <3> TAKE i \in DOMAIN Append(s, p)
    <3>1. Append(s, p)[i] = p \/ (i \in DOMAIN s /\ Append(s, p)[i] = s[i])
      BY <2>3
    <3> QED BY <1>1, <1>5, <1>6, <2>2, <3>1
  <2> QED BY <1>4, <1>6, <2>4, <2>5
<1>7. CASE /\ Head(p2a[p]).type = "SYNC_INFO" /\ arbQueue'[a] = Tail(arbQueue[a])
  <2>1. Returning(p)
    <3>1. Has(p2a, p, "SYNC_INFO")
      BY <1>0, <1>1, <1>7, ConsumeHas
    <3> QED BY <3>1 DEF Returning
  <2>2. s # << >> /\ Head(s) = p
    BY <1>1, <1>4, <2>1 DEF GrantInv, InOrder, Holds, AtHead
  <2>3. /\ DOMAIN s = 1 .. Len(s) /\ Len(s) \in Nat \ {0} /\ DOMAIN Tail(s) = 1 .. Len(s) - 1 /\ s[1] = p
        /\ \A i \in DOMAIN Tail(s) : i + 1 \in DOMAIN s /\ Tail(s)[i] = s[i + 1]
    BY <1>5, <2>2, TailPlaces
  <2>4. Distinct(Tail(s))
    BY <1>5, <2>3 DEF Distinct
  <2>5. \A i \in DOMAIN Tail(s) : Tail(s)[i] # p /\ Tail(s)[i] \in Procs /\ ptab[Tail(s)[i]].is_queued
    BY <1>5, <2>3 DEF Distinct
  <2> QED BY <1>1, <1>4, <1>7, <2>4, <2>5
<1>8. CASE UNCHANGED arbQueue /\ Head(p2a[p]).type \in {"WAIT_BARR", "PRGM_DONE"}
  <2>1. Arrives(p) \/ Leaves(p)
    BY <1>1, <1>3, <1>8 DEF Position, Idling, Asks, Queued, Wrote, Arrives, Waits, Leaves, Away, Only
  <2>2. \A i \in DOMAIN s : s[i] # p
    BY <1>5, <2>1 DEF Arrives, Leaves, Flags
  <2> QED BY <1>1, <1>4, <1>5, <1>8, <2>2
<1>9. Head(p2a[p]).type # "ADD_PROC"
  BY <1>1, <1>3 DEF Position, Idling, Asks, Queued, Wrote, Arrives, Waits, Leaves, Away, Only
<1> QED BY <1>2, <1>6, <1>7, <1>8, <1>9, TableRead

(* Every step of an arbiter.                                               *)
LEMMA QueueArbiter ==
  ASSUME TypeOK, PlaceInv, GrantInv, StartInv, Settled, NEW a \in Arbiters, ArbiterStep(a),
         UNCHANGED <<serverVars, procVars>>
  PROVE  QueueAt(a)'
<1>0. arbQueue \in [Arbiters -> Seq(Procs)]
  BY DEF TypeOK, ArbiterTypeOK
<1>1. CASE \E p \in Procs : FromProcessStep(a, p)
  BY <1>1, QueueRead
<1>2. CASE FromServerStep(a) \/ ~\E p \in Procs : FromProcessStep(a, p)
  <2> SUFFICES ASSUME Serving(a)'
               PROVE  /\ Distinct(arbQueue'[a])
                      /\ \A i \in DOMAIN arbQueue'[a] : ptab'[arbQueue'[a][i]].is_queued
    BY DEF QueueAt, Distinct
  <2>1. UNCHANGED arbQueue /\ (arbState'[a] = "up" => arbState[a] = "up")
    BY <1>2, TableServed, TableRest
  <2>2. arbState'[a] = "up" => \A q \in Procs : ptab'[q].is_queued = ptab[q].is_queued
    <3>1. CASE FromServerStep(a)
      <4>1. FromServerStep(a) /\ arbState'[a] = "up" => ~ArbPanic(a)
        <5>1. ArbPanic(a) => arbState'[a] = "panic"
          BY DEF ArbPanic, TypeOK, ArbiterTypeOK
        <5> QED BY <5>1
      <4> QED BY <3>1, <4>1, TableServed DEF SameFlags
    <3>2. CASE ~FromServerStep(a)
      <4>1. UNCHANGED ptab
        BY <1>2, <3>2, TableRest
      <4> QED BY <4>1
    <3> QED BY <3>1, <3>2
  <2>3. CASE arbStarted[a]
    <3>1. Distinct(arbQueue[a]) /\ \A i \in DOMAIN arbQueue[a] : ptab[arbQueue[a][i]].is_queued
      BY <2>1, <2>3 DEF Serving, Settled, QueueInv
    <3>2. arbQueue[a] \in Seq(Procs)
      BY <1>0
    <3>3. \A i \in DOMAIN arbQueue[a] : arbQueue[a][i] \in Procs
      BY <3>2
    <3> QED BY <2>1, <2>2, <3>1, <3>3 DEF Serving
  <2>4. CASE ~arbStarted[a]
    <3>1. arbQueue[a] = << >>
      BY <2>4 DEF StartInv
    <3> QED BY <2>1, <3>1 DEF Distinct
  <2> QED BY <2>3, <2>4
<1> QED BY <1>1, <1>2

(* A process with an unread announcement has nothing else unread.          *)
LEMMA HasArrived ==
  ASSUME TypeOK, NEW q \in Procs, Position(q), Has(p2a, q, "WAIT_BARR")
  PROVE  Arrives(q) /\ p2a[q] # << >> /\ Tail(p2a[q]) = << >>
<1>0. p2a[q] \in Seq(Message)
  BY DEF TypeOK, NetTypeOK
<1>1. p2a[q] # << >>
  BY DEF Has
<1>2. Tail(p2a[q]) = << >>
  BY <1>1 DEF Position, Idling, Asks, Queued, Wrote, Arrives, Waits, Leaves, Away, Only
<1>3. \A i \in DOMAIN p2a[q] : p2a[q][i] = Head(p2a[q])
  BY <1>0, <1>1, <1>2, OnlyOne
<1>4. Head(p2a[q]).type = "WAIT_BARR"
  BY <1>3 DEF Has
<1> QED BY <1>1, <1>2, <1>4 DEF Position, Idling, Asks, Queued, Wrote, Arrives, Waits, Leaves, Away, Only

FlushAt(a) == Serving(a) /\ Full(a) /\ Halted(a) => Flush(a)

(* The pass in which an arbiter reads the update or the grant also reads   *)
(* every announcement of its processes.                                    *)
LEMMA FlushArbiter ==
  ASSUME TypeOK, PlaceInv, JoinInv, CountInv, StartInv, EnrolInv, StopInv, Settled, started,
         NEW a \in Arbiters, ArbiterStep(a), UNCHANGED <<serverVars, procVars>>, RoundGoes(a),
         \A q \in Procs : ptab'[q].used => ptab[q].used,
         ArbStopAll(a) => ~Halted(a) /\ ~ArbPanic(a) /\ ~Resuming(a)' /\ step = "WAITING_STOP_ACK"
  PROVE  FlushAt(a)'
<1> SUFFICES ASSUME Serving(a)', Full(a)', Halted(a)'
             PROVE  Flush(a)'
  BY DEF FlushAt
<1> SUFFICES ASSUME NEW q \in Local(a)
             PROVE  /\ Unread(q)' /\ (Server \in pass'[a] \/ Due(a)') => q \in pass'[a]
                    /\ Unread(q)' /\ Due(a)' => Server \notin pass'[a]
                    /\ loc'[q] = "barrier" /\ Has(p2a', q, "WAIT_BARR") => ~Running(q)'
  <2>1. \A q \in Procs : Has(p2a, q, "WAIT_BARR")' <=> Has(p2a', q, "WAIT_BARR")
    BY DEF Has
  <2> QED BY <2>1 DEF Flush, Local
<1>0. /\ UNCHANGED <<loc, step, opqueue>> /\ q \in Procs /\ Home[q] = a
      /\ Unread(q)' <=> loc[q] = "user" /\ Has(p2a', q, "WAIT_BARR")
  BY DEF procVars, Local, serverVars, writeVars, Unread, Has
<1>t. /\ p2a \in [Procs -> Seq(Message)] /\ s2a \in [Arbiters -> Seq(Message)]
      /\ pass \in [Arbiters -> SUBSET (Procs \cup {Server})]
  BY DEF TypeOK, NetTypeOK, ArbiterTypeOK
<1>f. Full(a)
  BY DEF Full, Local
<1>c. ~ArbContAll(a)
  BY ContLetsGo
<1>u. /\ arbState[a] = "up" /\ arbState'[a] = "up" /\ arbStarted'[a]
  <2>1. arbState'[a] = "up" => arbState[a] = "up"
    BY TableServed, TableRest, TableRead DEF ArbiterStep
  <2> QED BY <2>1 DEF Serving
<1>e. p2a'[q] = << >> => ~Has(p2a', q, "WAIT_BARR")
  BY DEF Has
<1>1. CASE ~arbStarted[a]
  <2>1. p2a[q] = << >>
    BY <1>0, <1>1, FirstRelease
  <2>2. UNCHANGED p2a
    <3>1. ~\E p \in Procs : FromProcessStep(a, p)
      BY <1>1, <1>u, TableRead
    <3> QED BY <3>1, TableServed, TableRest
  <2> QED BY <1>0, <1>e, <2>1, <2>2
<1>2. CASE arbStarted[a]
  <2>0. Serving(a)
    BY <1>2, <1>u DEF Serving
  <2>1. Position(q) /\ (~Halted(a) /\ ptab[q].is_stopped => ptab[q].is_queued)
    BY <1>0, <2>0 DEF Settled, PosInv
  <2>2. CASE ArbStopAll(a)
    <3>0. /\ Head(s2a[a]).type = "STOP_ALL" /\ ~Halted(a) /\ ~ArbPanic(a) /\ step = "WAITING_STOP_ACK"
      BY <2>2 DEF ArbStopAll, FromServer, Waiting
    <3>1. UNCHANGED <<p2a, susp>> /\ (q \in ToFreeze(a) => tstp'[q] \/ susp[q])
      BY <1>0, <2>2, <3>0, TableServed DEF FromServerStep
    <3>2. ~Due(a)'
      <4>1. \A j \in DOMAIN s2a'[a] : s2a'[a][j].type # "CONT_ALL"
        BY <2>2 DEF Resuming, Has
      <4>2. Ahead(a)'
        BY <4>1 DEF Ahead, Preceded
      <4> QED BY <1>0, <3>0, <4>2 DEF Due, OnTurn
    <3>3. pass'[a] = pass[a] \ {Server}
      BY <1>u, <2>2, TableServed DEF FromServerStep
    <3>4. loc[q] = "barrier" /\ Has(p2a, q, "WAIT_BARR") => q \in ToFreeze(a)
      <4> HAVE loc[q] = "barrier" /\ Has(p2a, q, "WAIT_BARR")
      <4>1. Arrives(q)
        BY <1>0, <2>1, HasArrived
      <4>2. ptab[q].used /\ ~ptab[q].is_waiting /\ ~ptab[q].is_queued
        BY <4>1 DEF Arrives, Flags
      <4> QED BY <2>1, <3>0, <4>2, <1>0 DEF ToFreeze, ToStop, Table, Local
    <3> QED BY <1>0, <3>1, <3>2, <3>3, <3>4 DEF Running
  <2>3. CASE ~ArbStopAll(a)
    <3>0. Halted(a)
      BY <2>3 DEF RoundGoes
    <3>1. Flush(a)
      BY <1>f, <2>0, <3>0 DEF Settled, FlushInv
    <3>2. /\ Unread(q) /\ (Server \in pass[a] \/ Due(a)) => q \in pass[a]
          /\ Unread(q) /\ Due(a) => Server \notin pass[a]
          /\ loc[q] = "barrier" /\ Has(p2a, q, "WAIT_BARR") => ~Running(q)
      BY <3>1 DEF Flush
    <3>3. CASE FromServerStep(a)
      <4>1. /\ Server \in pass[a] /\ pass'[a] = pass[a] \ {Server} /\ UNCHANGED p2a
        BY <1>u, <3>3, TableServed
      <4>2. Unread(q)' <=> Unread(q)
        BY <1>0, <4>1 DEF Unread, Has
      <4>3. susp'[q] = susp[q] /\ tstp'[q] = tstp[q]
        <5>1. ptab[q].used => ptab[q].is_stopped
          BY <1>0, <3>0 DEF Settled, HoldInv
        <5>2. q \notin ToRelease(a)
          BY <5>1 DEF ToRelease, Table
        <5> QED BY <1>0, <1>c, <2>3, <3>3, <5>2, TableServed
      <4>4. q # Server
        BY <1>0, ServerAssumption
      <4> QED BY <1>0, <3>2, <4>1, <4>2, <4>3, <4>4 DEF Running
    <3>4. ASSUME NEW p \in Procs, FromProcessStep(a, p)
          PROVE  /\ Unread(q)' /\ (Server \in pass'[a] \/ Due(a)') => q \in pass'[a]
                 /\ Unread(q)' /\ Due(a)' => Server \notin pass'[a]
                 /\ loc'[q] = "barrier" /\ Has(p2a', q, "WAIT_BARR") => ~Running(q)'
      <4>1. /\ Server \notin pass[a] /\ Home[p] = a /\ p2a[p] # << >> /\ p2a' = Consume(p2a, p)
            /\ UNCHANGED <<s2a, susp, tstp>> /\ arbStarted[a]
        BY <1>2, <3>4, TableRead
      <4>2. pass'[a] \subseteq pass[a] /\ (q # p => (q \in pass[a] => q \in pass'[a]))
        <5>1. ptab'[p].used
          BY <4>1 DEF Full, Local
        <5>2. ptab'[p] # Unused
          BY <5>1 DEF Unused
        <5>3. Head(p2a[p]).type # "ADD_PROC"
          <6>1. Position(p)
            BY <2>0, <4>1 DEF Settled, PosInv
          <6> QED BY <4>1, <6>1 DEF Position, Idling, Asks, Queued, Wrote, Arrives, Waits, Leaves, Away, Only
        <5>4. pass'[a] = pass[a] \ {p}
          <6>1. \/ pass'[a] = pass[a] \ {p}
                \/ arbState'[a] # "up"
                \/ ptab'[p] = Unused
                \/ Head(p2a[p]).type = "ADD_PROC"
            BY <3>4, TableRead
          <6> QED BY <1>u, <5>2, <5>3, <6>1
        <5> QED BY <5>4
      <4>3. Due(a)' <=> Due(a)
        BY <1>0, <4>1 DEF Due, Updating, OnTurn, Sent, Ahead, Has
      <4>4. CASE q = p
        <5>1. ~Has(p2a', p, "WAIT_BARR")
          <6>1. p2a'[p] = Tail(p2a[p])
            BY <1>t, <4>1 DEF Consume
          <6>2. Position(p)
            BY <2>0, <4>1 DEF Settled, PosInv
          <6>3. Tail(p2a[p]) = << >>
            BY <4>1, <6>2 DEF Position, Idling, Asks, Queued, Wrote, Arrives, Waits, Leaves, Away, Only
          <6> QED BY <1>e, <4>4, <6>1, <6>3
        <5> QED BY <1>0, <4>4, <5>1
      <4>5. CASE q # p
        <5>1. p2a'[q] = p2a[q]
          BY <1>0, <1>t, <4>1, <4>5 DEF Consume
        <5>2. (Unread(q)' <=> Unread(q)) /\ (Has(p2a', q, "WAIT_BARR") <=> Has(p2a, q, "WAIT_BARR"))
          BY <1>0, <5>1 DEF Unread, Has
        <5> QED BY <1>0, <3>2, <4>1, <4>2, <4>3, <4>5, <5>2 DEF Running
      <4> QED BY <4>4, <4>5
    <3>5. CASE ~FromServerStep(a) /\ ~\E p \in Procs : FromProcessStep(a, p)
      <4>1. /\ UNCHANGED <<p2a, s2a, susp, tstp>>
            /\ pass[a] = {}
            /\ \E f \in BOOLEAN : pass'[a] = Readable(a, f)
        BY <1>2, <1>u, <3>5, TableRest
      <4>2. (Unread(q)' <=> Unread(q)) /\ (Due(a)' <=> Due(a)) /\ (Running(q)' <=> Running(q))
            /\ (Has(p2a', q, "WAIT_BARR") <=> Has(p2a, q, "WAIT_BARR"))
        BY <1>0, <4>1 DEF Unread, Due, Updating, OnTurn, Sent, Ahead, Has, Running
      <4>3. ~(Unread(q) /\ Due(a))
        BY <3>2, <4>1
      <4>4. Unread(q) => q \in pass'[a]
        <5>1. q \in Accepted(a)
          BY <1>0, <1>f DEF Full, EnrolInv
        <5>2. Unread(q) => p2a[q] # << >>
          BY DEF Unread, Has
        <5> QED BY <1>0, <4>1, <5>1, <5>2 DEF Readable
      <4> QED BY <1>0, <3>2, <4>2, <4>3, <4>4
    <3> QED BY <3>3, <3>4, <3>5
  <2> QED BY <2>2, <2>3
<1> QED BY <1>1, <1>2

(* What a message sent to the server does to the announcements.            *)
LEMMA AnnounceSend ==
  ASSUME a2s \in [Arbiters -> Seq(Message)], NEW S, NEW x \in Message, a2s' = SendAll(a2s, S, x)
  PROVE  /\ x.type # "WAIT_BARR" => Announced' = Announced
         /\ \A a \in Arbiters : S = {a} /\ x.type = "WAIT_BARR" =>
              Announced' = Announced \cup {<<a, Len(a2s[a]) + 1>>}
<1>1. \A b \in Arbiters : /\ a2s[b] \in Seq(Message) /\ Len(a2s[b]) \in Nat /\ DOMAIN a2s[b] = 1 .. Len(a2s[b])
                          /\ a2s'[b] = IF b \in S THEN Append(a2s[b], x) ELSE a2s[b]
  BY DEF SendAll
<1>2. \A s \in Seq(Message) : /\ DOMAIN Append(s, x) = 1 .. Len(s) + 1 /\ DOMAIN s = 1 .. Len(s) /\ Len(s) \in Nat
                              /\ \A i \in DOMAIN s : Append(s, x)[i] = s[i]
                              /\ Append(s, x)[Len(s) + 1] = x
  OBVIOUS
<1>3. \A b \in Arbiters : \A i \in Nat :
        /\ b \notin S \/ x.type # "WAIT_BARR" =>
             (i \in DOMAIN a2s'[b] /\ a2s'[b][i].type = "WAIT_BARR" <=> i \in DOMAIN a2s[b] /\ a2s[b][i].type = "WAIT_BARR")
        /\ b \in S /\ x.type = "WAIT_BARR" =>
             (i \in DOMAIN a2s'[b] /\ a2s'[b][i].type = "WAIT_BARR"
                <=> i = Len(a2s[b]) + 1 \/ (i \in DOMAIN a2s[b] /\ a2s[b][i].type = "WAIT_BARR"))
  <2> TAKE b \in Arbiters
  <2> TAKE i \in Nat
  <2>0. PICK s \in Seq(Message) : s = a2s[b]
    BY <1>1
  <2>1. CASE b \notin S
    BY <1>1, <2>1
  <2>2. CASE b \in S
    <3>1. a2s'[b] = Append(s, x)
      BY <1>1, <2>0, <2>2
    <3>2. /\ DOMAIN Append(s, x) = 1 .. Len(s) + 1 /\ DOMAIN s = 1 .. Len(s) /\ Len(s) \in Nat
          /\ \A j \in DOMAIN s : Append(s, x)[j] = s[j]
          /\ Append(s, x)[Len(s) + 1] = x
      BY <1>2
    <3>3. i \in DOMAIN Append(s, x) <=> i = Len(s) + 1 \/ i \in DOMAIN s
      BY <3>2
    <3>4. Len(s) + 1 \notin DOMAIN s
      BY <3>2
    <3> QED BY <2>0, <2>2, <3>1, <3>2, <3>3, <3>4
  <2> QED BY <2>1, <2>2
<1>4. Announced' = {y \in Arbiters \X Nat : y[2] \in DOMAIN a2s'[y[1]] /\ a2s'[y[1]][y[2]].type = "WAIT_BARR"}
  BY DEF Announced
<1>5. ASSUME x.type # "WAIT_BARR" PROVE Announced' = Announced
  BY <1>3, <1>4, <1>5 DEF Announced
<1>6. ASSUME NEW a \in Arbiters, S = {a}, x.type = "WAIT_BARR"
      PROVE  Announced' = Announced \cup {<<a, Len(a2s[a]) + 1>>}
  <2>1. Len(a2s[a]) + 1 \in Nat
    BY <1>1
  <2>2. ASSUME NEW b \in Arbiters, NEW i \in Nat
        PROVE  <<b, i>> \in Announced' <=> <<b, i>> \in Announced \/ (b = a /\ i = Len(a2s[a]) + 1)
    BY <1>3, <1>4, <1>6, <2>2 DEF Announced
  <2>3. Announced \subseteq Arbiters \X Nat /\ Announced' \subseteq Arbiters \X Nat
    BY <1>4 DEF Announced
  <2>4. ASSUME NEW y \in Arbiters \X Nat
        PROVE  y \in Announced' <=> y \in Announced \/ y = <<a, Len(a2s[a]) + 1>>
    <3>1. PICK b \in Arbiters, i \in Nat : y = <<b, i>>
      OBVIOUS
    <3> QED BY <2>2, <3>1
  <2> QED BY <2>1, <2>3, <2>4
<1> QED BY <1>5, <1>6

(* Only msg_waitBarr announces a process at a barrier.                     *)
LEMMA ArbiterSends ==
  ASSUME TypeOK, PlaceInv, NEW a \in Arbiters, ArbiterStep(a), ~\E p \in Procs : ArbWaitBarr(a, p)
  PROVE  \E S : \E x \in Message : x.type # "WAIT_BARR" /\ a2s' = SendAll(a2s, S, x)
<1> DEFINE Up == \E S : \E x \in Message : x.type # "WAIT_BARR" /\ a2s' = SendAll(a2s, S, x)
<1>0. a2s \in [Arbiters -> Seq(Message)] /\ p2a \in [Procs -> Seq(Message)]
  BY DEF TypeOK, NetTypeOK
<1>s. ASSUME NEW x \in Message, x.type # "WAIT_BARR", a2s' = Send(a2s, a, x) PROVE Up
  <2>1. a2s' = SendAll(a2s, {a}, x)
    BY <1>0, <1>s DEF Send, SendAll
  <2> QED BY <1>s, <2>1
<1>u. UNCHANGED a2s => Up
  <2>1. Simple("STOP_ALL") \in Message /\ Simple("STOP_ALL").type # "WAIT_BARR"
    BY MessageTypes DEF Simple, SimpleTypes
  <2>2. a2s = SendAll(a2s, {}, Simple("STOP_ALL"))
    BY <1>0 DEF SendAll
  <2> QED BY <2>1, <2>2
<1>m. \A t \in SimpleTypes : Simple(t) \in Message /\ Simple(t).type = t
  BY MessageTypes DEF Simple
<1>d. \A t \in {"STOP_DONE", "SYNC_DONE"}, n \in Nat : Done(t, n) \in Message /\ Done(t, n).type = t
  BY MessageTypes DEF Done
<1> HIDE DEF Up
<1>1. ASSUME NEW p \in Procs, FromProcessStep(a, p) PROVE Up
  <2>1. p2a[p] # << >>
    BY <1>1, TableRead
  <2>2. PICK x : x = Head(p2a[p])
    OBVIOUS
  <2>3. x \in Message
    BY <1>0, <2>1, <2>2, ChannelTypes
  <2>4. x.type = "WAIT_BARR" => UNCHANGED a2s
    BY <1>1, <2>2 DEF FromProcessStep, ArbAddProc, ArbSyncRequest, ArbForwardSync, ArbWaitBarr,
                ArbPrgmDone, FromProcess, Waiting
  <2>5. Simple("SYNC_REQ") \in Message /\ Simple("SYNC_REQ").type = "SYNC_REQ"
    BY <1>m DEF SimpleTypes
  <2>6. UNCHANGED a2s \/ a2s' = Send(a2s, a, x) \/ a2s' = Send(a2s, a, Simple("SYNC_REQ"))
    BY <1>1, <2>2 DEF FromProcessStep, ArbAddProc, ArbSyncRequest, ArbForwardSync, ArbWaitBarr,
                ArbPrgmDone, ArbPanic
  <2> QED BY <1>s, <1>u, <2>3, <2>4, <2>5, <2>6
<1>2. ASSUME FromServerStep(a) PROVE Up
  <2>0. NLocal(a) \in Nat
    BY DEF NLocal, TypeOK, ArbiterTypeOK
  <2>1. \/ UNCHANGED a2s
        \/ a2s' = Send(a2s, a, Done("STOP_DONE", NLocal(a)))
        \/ a2s' = Send(a2s, a, Done("SYNC_DONE", NLocal(a)))
    BY <1>2 DEF FromServerStep, ArbSetGid, ArbStopAll, ArbContAll, ArbWaitDone, ArbWriteOkay, ArbApplySync, ArbPanic
  <2> QED BY <1>s, <1>u, <1>d, <2>0, <2>1
<1>3. ASSUME ~FromServerStep(a) /\ ~\E p \in Procs : FromProcessStep(a, p) PROVE Up
  <2>1. UNCHANGED a2s \/ a2s' = Send(a2s, a, Simple("PRGM_DONE"))
    BY <1>3, TableRest
  <2>2. Simple("PRGM_DONE") \in Message /\ Simple("PRGM_DONE").type = "PRGM_DONE"
    BY <1>m DEF SimpleTypes
  <2> QED BY <1>s, <1>u, <2>1, <2>2
<1> QED BY <1>1, <1>2, <1>3 DEF Up

(* Nobody stops waiting at a barrier before the release arrives.           *)
LEMMA WaitsOn ==
  ASSUME TypeOK, PlaceInv, StartInv, Settled, NEW a \in Arbiters, ArbiterStep(a),
         UNCHANGED <<serverVars, procVars>>, NEW q \in Procs, ptab[q].is_waiting,
         Home[q] = a => ~ArbWaitDone(a)
  PROVE  ptab'[q].is_waiting
<1>0. /\ q \in Procs /\ ptab[q].is_waiting /\ p2a \in [Procs -> Seq(Message)]
  BY DEF TypeOK, NetTypeOK
<1>1. \A r \in Procs : Home[r] # a => SameProcess(r)
  BY ArbiterIsLocal
<1>4. CASE Home[q] # a
  BY <1>0, <1>1, <1>4 DEF SameProcess
<1>5. CASE Home[q] = a
  <2>2. CASE FromServerStep(a)
    <3>1. ~ArbWaitDone(a)
      BY <1>5
    <3>2. arbState'[a] # "up" => UNCHANGED ptab
      BY <2>2, TableServed
    <3>3. arbState'[a] = "up" => SameFlags(q)
      BY <2>2, <3>1, TableServed
    <3> QED BY <1>0, <3>2, <3>3 DEF SameFlags
  <2>3. ASSUME NEW p \in Procs, FromProcessStep(a, p)
        PROVE  ptab'[q].is_waiting
    <3>1. CASE q # p
      <4>1. ptab'[q] = ptab[q]
        BY <1>0, <2>3, <3>1, TableRead
      <4> QED BY <1>0, <4>1
    <3>2. CASE q = p
      <4>1. ptab'[p] # Unused
        <5> SUFFICES ASSUME ptab'[p] = Unused PROVE FALSE
          OBVIOUS
        <5>1. arbState[a] = "up" /\ p2a[p] # << >> /\ Head(p2a[p]).type \in {"PRGM_DONE", "ADD_PROC"}
          <6>1. ~ptab'[p].is_waiting /\ ~ptab'[p].used /\ ~ptab'[p].is_queued
            BY DEF Unused
          <6>2. ptab[p].is_waiting
            BY <1>0, <3>2
          <6>3. \/ Head(p2a[p]).type \in {"PRGM_DONE", "ADD_PROC"}
                \/ ptab'[p].is_waiting = ptab[p].is_waiting
                \/ ptab'[p].is_waiting
            BY <2>3, TableRead
          <6>4. arbState[a] = "up" /\ p2a[p] # << >>
            BY <2>3, TableRead
          <6> QED BY <6>1, <6>2, <6>3, <6>4
        <5>2. Head(p2a[p]).type = "PRGM_DONE"
          <6>1. Head(p2a[p]).type = "ADD_PROC" => UNCHANGED ptab \/ ptab'[p].is_waiting
            BY <2>3, TableRead
          <6>2. UNCHANGED ptab => ptab'[p].is_waiting
            BY <1>0, <3>2
          <6>3. ~ptab'[p].is_waiting
            BY DEF Unused
          <6> QED BY <5>1, <6>1, <6>2, <6>3
        <5>3. arbStarted[a]
          <6>1. p2a[p] \in Seq(Message)
            BY <1>0
          <6>2. 1 \in DOMAIN p2a[p] /\ Head(p2a[p]) = p2a[p][1]
            BY <5>1, <6>1, TailPlaces
          <6>3. ~(\A i \in DOMAIN p2a[p] : p2a[p][i].type = "ADD_PROC")
            BY <5>2, <6>2
          <6> QED BY <1>5, <3>2, <6>3 DEF StartInv, Starting
        <5>4. Leaves(p)
          <6>1. Position(p)
            BY <1>5, <3>2, <5>1, <5>3 DEF Serving, Settled, PosInv
          <6> QED BY <5>1, <5>2, <6>1 DEF Position, Idling, Asks, Queued, Wrote, Arrives, Waits, Leaves, Away, Only
        <5> QED BY <1>0, <3>2, <5>4 DEF Leaves, Flags
      <4>2. \/ ptab'[p].is_waiting = ptab[p].is_waiting
            \/ ptab'[p].is_waiting
            \/ UNCHANGED ptab
        BY <2>3, <4>1, TableRead
      <4> QED BY <1>0, <3>2, <4>2
    <3> QED BY <3>1, <3>2
  <2>4. CASE ~FromServerStep(a) /\ ~\E p \in Procs : FromProcessStep(a, p)
    <3>1. UNCHANGED ptab
      BY <2>4, TableRest
    <3> QED BY <1>0, <3>1
  <2> QED BY <1>5, <2>2, <2>3, <2>4
<1> QED BY <1>4, <1>5

(* Passing an announcement on marks its process as waiting.                *)
LEMMA BarrierArbiter ==
  ASSUME TypeOK, PlaceInv, StartInv, Settled, NEW a \in Arbiters, ArbiterStep(a),
         UNCHANGED <<serverVars, procVars>>
  PROVE  BarrierInv'
<1>0. /\ s2a \in [Arbiters -> Seq(Message)] /\ p2a \in [Procs -> Seq(Message)] /\ a2s \in [Arbiters -> Seq(Message)]
      /\ nproc_waiting \in Nat /\ UNCHANGED nproc_waiting
  BY DEF TypeOK, NetTypeOK, ServerTypeOK, serverVars
<1>1. (\A b \in Arbiters : b # a => SameMachine(b)) /\ (\A r \in Procs : Home[r] # a => SameProcess(r))
  BY ArbiterIsLocal
<1>2. \A b \in Arbiters : (Has(s2a, b, "WAIT_DONE")' <=> Has(s2a', b, "WAIT_DONE"))
                          /\ (Once(s2a, b, "WAIT_DONE")' <=> Once(s2a', b, "WAIT_DONE"))
  BY DEF Has, Once
<1>3. \A q \in Procs : Home[q] \in Arbiters
  BY HomeAssumption
<1>4. /\ \A b \in Arbiters : Once(s2a, b, "WAIT_DONE")
      /\ \A q \in Procs : Has(s2a, Home[q], "WAIT_DONE") /\ Serving(Home[q]) => ptab[q].is_waiting
      /\ IsFiniteSet(Announced)
      /\ nproc_waiting + Cardinality(Announced) <= Cardinality(AtBarrier)
  BY DEF Settled, BarrierInv
<1>5. /\ UNCHANGED s2a \/ (s2a[a] # << >> /\ s2a' = Consume(s2a, a))
      /\ arbState'[a] = "up" => arbState[a] = "up"
      /\ arbStarted'[a] => arbStarted[a] \/ ArbWaitDone(a)
  BY TableServed, TableRead, TableRest
<1>6. /\ Once(s2a', a, "WAIT_DONE") /\ (Has(s2a', a, "WAIT_DONE") => Has(s2a, a, "WAIT_DONE"))
      /\ ArbWaitDone(a) => Has(s2a, a, "WAIT_DONE") /\ ~Has(s2a', a, "WAIT_DONE")
  <2>1. s2a \in [Arbiters -> Seq(Message)] /\ Once(s2a, a, "WAIT_DONE")
    BY <1>0, <1>4
  <2>2. s2a[a] # << >> =>
          /\ Has(Consume(s2a, a), a, "WAIT_DONE") => Has(s2a, a, "WAIT_DONE")
          /\ Once(s2a, a, "WAIT_DONE") => Once(Consume(s2a, a), a, "WAIT_DONE")
          /\ Head(s2a[a]).type = "WAIT_DONE" => Has(s2a, a, "WAIT_DONE")
          /\ Head(s2a[a]).type = "WAIT_DONE" /\ Once(s2a, a, "WAIT_DONE") => ~Has(Consume(s2a, a), a, "WAIT_DONE")
    BY <2>1, ConsumeHas
  <2>3. ArbWaitDone(a) => s2a[a] # << >> /\ Head(s2a[a]).type = "WAIT_DONE" /\ s2a' = Consume(s2a, a)
    BY DEF ArbWaitDone, FromServer, Waiting
  <2> QED BY <1>5, <2>1, <2>2, <2>3
<1>7. \A b \in Arbiters : Once(s2a', b, "WAIT_DONE") /\ (Has(s2a', b, "WAIT_DONE") => Has(s2a, b, "WAIT_DONE"))
  <2> TAKE b \in Arbiters
  <2>1. b # a => s2a'[b] = s2a[b]
    BY <1>1 DEF SameMachine
  <2> QED BY <1>4, <1>6, <2>1 DEF Once, Has
<1>8. \A q \in Procs : Has(s2a', Home[q], "WAIT_DONE") /\ Serving(Home[q])' => ptab'[q].is_waiting
  <2> TAKE q \in Procs
  <2> HAVE Has(s2a', Home[q], "WAIT_DONE") /\ Serving(Home[q])'
  <2>1. Has(s2a, Home[q], "WAIT_DONE") /\ (Home[q] = a => ~ArbWaitDone(a))
    BY <1>3, <1>6, <1>7
  <2>2. Serving(Home[q])
    BY <1>1, <1>3, <1>5, <2>1 DEF Serving, SameMachine
  <2> QED BY <1>4, <2>1, <2>2, WaitsOn
<1>9. AtBarrier \subseteq AtBarrier'
  <2> SUFFICES ASSUME NEW q \in Procs, ptab[q].is_waiting, ~Has(s2a, Home[q], "WAIT_DONE")
               PROVE  ptab'[q].is_waiting /\ ~Has(s2a', Home[q], "WAIT_DONE")
    BY <1>2, <1>3 DEF AtBarrier
  <2> QED BY <1>3, <1>6, <1>7, WaitsOn
<1>10. AtBarrier' \subseteq Procs /\ IsFiniteSet(AtBarrier')
  BY ProcsAssumption, FS_Subset DEF AtBarrier
<1>11. IsFiniteSet(Announced') /\ nproc_waiting' + Cardinality(Announced') <= Cardinality(AtBarrier')
  <2>0. IsFiniteSet(AtBarrier) /\ Cardinality(AtBarrier) \in Nat /\ Cardinality(AtBarrier') \in Nat
        /\ Cardinality(AtBarrier) <= Cardinality(AtBarrier') /\ Cardinality(Announced) \in Nat
    BY <1>4, <1>9, <1>10, FS_Subset, FS_CardinalityType
  <2>1. CASE ~\E p \in Procs : ArbWaitBarr(a, p)
    <3>0. PICK S : \E x \in Message : x.type # "WAIT_BARR" /\ a2s' = SendAll(a2s, S, x)
      BY <2>1, ArbiterSends
    <3>1. PICK x \in Message : x.type # "WAIT_BARR" /\ a2s' = SendAll(a2s, S, x)
      BY <3>0
    <3>2. a2s \in [Arbiters -> Seq(Message)]
      BY <1>0
    <3>3. Announced' = Announced
      BY <3>1, <3>2, AnnounceSend
    <3> QED BY <1>0, <1>4, <2>0, <3>3
  <2>2. ASSUME NEW p \in Procs, ArbWaitBarr(a, p)
        PROVE  IsFiniteSet(Announced') /\ nproc_waiting' + Cardinality(Announced') <= Cardinality(AtBarrier')
    <3>1. /\ p2a[p] # << >> /\ Head(p2a[p]).type = "WAIT_BARR" /\ arbState[a] = "up" /\ UNCHANGED s2a
          /\ a2s' = Send(a2s, a, Head(p2a[p]))
      BY <2>2 DEF ArbWaitBarr, FromProcess, Waiting
    <3>2. Home[p] = a /\ ptab'[p].is_waiting
      <4>1. FromProcessStep(a, p)
        BY <2>2 DEF FromProcessStep
      <4> QED BY <3>1, <4>1, TableRead
    <3>3. PICK x : x = Head(p2a[p])
      OBVIOUS
    <3>4. x \in Message /\ x.type = "WAIT_BARR" /\ a2s' = SendAll(a2s, {a}, x)
      <4>1. p2a \in [Procs -> Seq(Message)] /\ a2s \in [Arbiters -> Seq(Message)]
        BY <1>0
      <4>2. x \in Message
        BY <3>1, <3>3, <4>1, ChannelTypes
      <4> QED BY <3>1, <3>3, <4>1, <4>2, SendIsSendAll
    <3>5. Announced' = Announced \cup {<<a, Len(a2s[a]) + 1>>}
      <4>1. a2s \in [Arbiters -> Seq(Message)]
        BY <1>0
      <4> QED BY <3>4, <4>1, AnnounceSend
    <3>6. IsFiniteSet(Announced') /\ Cardinality(Announced') <= Cardinality(Announced) + 1
      <4>1. PICK y : y = <<a, Len(a2s[a]) + 1>>
        OBVIOUS
      <4>2. /\ IsFiniteSet(Announced \cup {y})
            /\ Cardinality(Announced \cup {y}) = Cardinality(Announced) \/ Cardinality(Announced \cup {y}) = Cardinality(Announced) + 1
        BY <1>4, FS_AddElement
      <4> QED BY <2>0, <3>5, <4>1, <4>2
    <3>7. arbStarted[a]
      <4>1. p2a[p] \in Seq(Message)
        BY <1>0
      <4>2. 1 \in DOMAIN p2a[p] /\ Head(p2a[p]) = p2a[p][1]
        BY <3>1, <4>1, TailPlaces
      <4>3. ~(\A i \in DOMAIN p2a[p] : p2a[p][i].type = "ADD_PROC")
        BY <3>1, <4>2
      <4> QED BY <3>2, <4>3 DEF StartInv, Starting
    <3>8. ~ptab[p].is_waiting
      <4>1. Position(p)
        BY <3>1, <3>2, <3>7 DEF Serving, Settled, PosInv
      <4>2. Arrives(p)
        BY <3>1, <4>1 DEF Position, Idling, Asks, Queued, Wrote, Arrives, Waits, Leaves, Away, Only
      <4> QED BY <4>2 DEF Arrives, Flags
    <3>9. p \notin AtBarrier /\ p \in AtBarrier'
      <4>1. ~Has(s2a, a, "WAIT_DONE")
        BY <1>4, <3>1, <3>2, <3>7, <3>8 DEF Serving
      <4>2. ~Has(s2a, Home[p], "WAIT_DONE")'
        BY <3>1, <3>2, <4>1 DEF Has
      <4> QED BY <3>2, <3>8, <4>2 DEF AtBarrier
    <3>10. Cardinality(AtBarrier \cup {p}) = Cardinality(AtBarrier) + 1
      BY <2>0, <3>9, FS_AddElement
    <3>11. Cardinality(AtBarrier \cup {p}) <= Cardinality(AtBarrier')
      <4>1. AtBarrier \cup {p} \subseteq AtBarrier'
        BY <1>9, <3>9
      <4> QED BY <1>10, <4>1, FS_Subset
    <3> QED BY <1>0, <1>4, <2>0, <3>6, <3>10, <3>11, FS_CardinalityType
  <2> QED BY <2>1, <2>2
<1> QED BY <1>2, <1>3, <1>7, <1>8, <1>11 DEF BarrierInv

(* A step of an arbiter concerns its own machine.                          *)
LEMMA SettledArbiter ==
  ASSUME TypeOK, PlaceInv, ListInv, JoinInv, CountInv, GrantInv, StartInv, EnrolInv, StopInv, Whole, Whole', Settled,
         started, NEW a \in Arbiters, ArbiterStep(a), UNCHANGED <<serverVars, procVars>>,
         \A q \in Procs : ptab'[q].used => ptab[q].used
  PROVE  Settled'
<1>1. (\A b \in Arbiters : b # a => SameMachine(b)) /\ (\A r \in Procs : Home[r] # a => SameProcess(r))
  BY ArbiterIsLocal
<1>2. ArbStopAll(a) => /\ RoundGoes(a) /\ Halted(a)' /\ ~Resuming(a)' /\ ~Halted(a) /\ step = "WAITING_STOP_ACK"
                       /\ ~ArbPanic(a) /\ Full(a)
  <2> HAVE ArbStopAll(a)
  <2>1. UNCHANGED serverVars
    OBVIOUS
  <2> QED BY <1>1, <2>1, RoundStops
<1>3. RoundGoes(a)
  <2>1. UNCHANGED serverVars
    OBVIOUS
  <2> QED BY <2>1, FreezeArbiter
<1>4. HoldAt(a)'
  BY <1>2, <1>3, HoldArbiter
<1>5. PosAt(a)'
  BY <1>2, <1>3, PosArbiter
<1>6. QueueAt(a)'
  BY QueueArbiter
<1>7. FlushAt(a)'
  BY <1>2, <1>3, FlushArbiter
<1>8. BarrierInv'
  BY BarrierArbiter
<1>9. UNCHANGED <<step, opqueue, loc>> /\ \A q \in Procs : Home[q] \in Arbiters
  BY HomeAssumption DEF serverVars, writeVars, procVars
<1>10. ASSUME NEW b \in Arbiters, b # a
       PROVE  HoldAt(b)' /\ PosAt(b)' /\ QueueAt(b)' /\ FlushAt(b)'
  <2>1. SameMachine(b) /\ \A q \in Local(b) : q \in Procs /\ Home[q] = b /\ SameProcess(q)
    BY <1>1, <1>10 DEF Local
  <2>2. (Halted(b)' <=> Halted(b)) /\ (Serving(b)' <=> Serving(b)) /\ (Full(b)' <=> Full(b)) /\ (Due(b)' <=> Due(b))
    <3>1. Halted(b)' <=> Halted(b)
      BY <1>3, <1>10 DEF RoundGoes
    <3>2. (Serving(b)' <=> Serving(b)) /\ (Full(b)' <=> Full(b))
      BY <2>1 DEF Serving, Full, SameMachine, SameProcess, Local
    <3>3. Due(b)' <=> Due(b)
      BY <1>9, <2>1 DEF SameMachine, Due, Updating, OnTurn, Sent, Ahead, Has
    <3> QED BY <3>1, <3>2, <3>3
  <2>3. HoldAt(b)'
    <3>1. Halted(b) => arbStarted[b] /\ \A q \in Local(b) : (Held(q) \/ Writable(q)) /\ (ptab[q].used => ptab[q].is_stopped)
      BY <2>1 DEF Settled, HoldInv
    <3>2. \A q \in Local(b) : (Held(q) \/ Writable(q) => Held(q)' \/ Writable(q)')
      BY <1>9, <2>1 DEF SameProcess, Held, Writable
    <3>3. Local(b)' = Local(b)
      BY DEF Local
    <3> QED BY <2>1, <2>2, <3>1, <3>2, <3>3 DEF HoldAt, SameMachine, SameProcess
  <2>4. PosAt(b)'
    <3>1. Serving(b) => \A q \in Local(b) : Position(q) /\ (~Halted(b) /\ ptab[q].is_stopped => ptab[q].is_queued)
      BY <2>1 DEF Settled, PosInv
    <3>2. ASSUME NEW q \in Local(b), Position(q) PROVE Position(q)'
      BY <1>9, <2>1, <3>2, PosKept DEF SameProcess, SameFlags
    <3>3. Local(b)' = Local(b)
      BY DEF Local
    <3> QED BY <2>1, <2>2, <3>1, <3>2, <3>3 DEF PosAt, SameProcess
  <2>5. QueueAt(b)'
    <3>1. Serving(b) => Distinct(arbQueue[b]) /\ \A i \in DOMAIN arbQueue[b] : ptab[arbQueue[b][i]].is_queued
      BY DEF Settled, QueueInv
    <3>2. arbQueue[b] \in Seq(Local(b)) /\ arbQueue'[b] = arbQueue[b]
      BY <2>1 DEF PlaceInv, SameMachine
    <3>3. \A i \in DOMAIN arbQueue[b] : arbQueue[b][i] \in Local(b)
      BY <3>2
    <3> QED BY <2>1, <2>2, <3>1, <3>2, <3>3 DEF QueueAt, Distinct, SameProcess
  <2>6. FlushAt(b)'
    <3>1. Serving(b) /\ Full(b) /\ Halted(b) => Flush(b)
      BY DEF Settled, FlushInv
    <3>2. \A q \in Local(b) : /\ Unread(q)' <=> Unread(q)
                              /\ Has(p2a, q, "WAIT_BARR")' <=> Has(p2a, q, "WAIT_BARR")
                              /\ Running(q)' <=> Running(q)
      BY <1>9, <2>1 DEF SameProcess, Unread, Has, Running
    <3>3. Local(b)' = Local(b) /\ pass'[b] = pass[b]
      BY <2>1 DEF Local, SameMachine
    <3>4. Flush(b) => Flush(b)'
      BY <1>9, <2>1, <2>2, <3>2, <3>3 DEF Flush
    <3> QED BY <2>2, <3>1, <3>4 DEF FlushAt
  <2> QED BY <2>3, <2>4, <2>5, <2>6
<1>11. \A b \in Arbiters : HoldAt(b)' /\ PosAt(b)' /\ QueueAt(b)' /\ FlushAt(b)'
  BY <1>4, <1>5, <1>6, <1>7, <1>10
<1>12. HoldInv'
  BY <1>9, <1>11 DEF HoldInv, HoldAt, Local
<1>13. PosInv'
  BY <1>9, <1>11 DEF PosInv, PosAt, Local
<1>14. QueueInv'
  BY <1>11 DEF QueueInv, QueueAt, Distinct
<1>15. FlushInv'
  BY <1>11 DEF FlushInv, FlushAt
<1> QED BY <1>8, <1>12, <1>13, <1>14, <1>15 DEF Settled

(* A resume that is sent behind an update or a grant has that before it.   *)
LEMMA AheadPuts ==
  ASSUME s2a \in [Arbiters -> Seq(Message)], NEW S, NEW t, Puts(S, t), NEW b \in Arbiters, Ahead(b),
         t = "CONT_ALL" => Updating(b) \/ Sent(b)
  PROVE  Ahead(b)'
<1>1. PICK s \in Seq(Message) : s = s2a[b]
  OBVIOUS
<1>2. Preceded(s, {"CONT_ALL"}, {"SYNC_INFO", "WRITE_OKAY"})
  BY <1>1 DEF Ahead
<1>3. Ahead(b)' <=> Preceded(s2a'[b], {"CONT_ALL"}, {"SYNC_INFO", "WRITE_OKAY"})
  BY DEF Ahead
<1>4. CASE s2a'[b] = s2a[b]
  BY <1>1, <1>2, <1>3, <1>4
<1>5. CASE \E x \in Message : b \in S /\ x.type = t /\ s2a'[b] = Append(s2a[b], x)
  <2>1. PICK x \in Message : x.type = t /\ s2a'[b] = Append(s, x)
    BY <1>1, <1>5
  <2>2. x.type \in {"CONT_ALL"} => \E i \in DOMAIN s : s[i].type \in {"SYNC_INFO", "WRITE_OKAY"}
    BY <1>1, <2>1 DEF Updating, Sent, Has
  <2>3. Preceded(Append(s, x), {"CONT_ALL"}, {"SYNC_INFO", "WRITE_OKAY"})
    BY <1>2, <2>2, OrderAppend
  <2> QED BY <1>3, <2>1, <2>3
<1>6. s2a'[b] = s2a[b] \/ \E x \in Message : b \in S /\ x.type = t /\ s2a'[b] = Append(s2a[b], x)
  BY PutsKept
<1> QED BY <1>4, <1>5, <1>6

(* The server makes no machine due to be flushed that was not.             *)
LEMMA DueServer ==
  ASSUME TypeOK, StepMatchesQueue, CountInv, LinkInv, GrantInv, StopInv, started, NEW a \in Arbiters, ServerStep(a),
         UNCHANGED <<arbVars, procVars, p2a, a2p, signals, mem>>,
         NEW b \in Arbiters, Live(b), Due(b)'
  PROVE  Due(b)
<1>0. s2a \in [Arbiters -> Seq(Message)] /\ a2s \in [Arbiters -> Seq(Message)] /\ b \in conns
  BY DEF TypeOK, NetTypeOK, LinkInv, CountInv
<1>1. \/ Rests(a) \/ Freezes(a) \/ Counts(a)
      \/ Spreads(a) \/ HandsOver(a) \/ Resumes(a)
  BY ServerKinds
<1>2. (Updating(b)' <=> Has(s2a', b, "SYNC_INFO")) /\ (Sent(b)' <=> Has(s2a', b, "WRITE_OKAY"))
  BY DEF Updating, Sent, Has
<1>p. \A S, t : Puts(S, t) =>
        /\ Updating(b)' <=> Updating(b) \/ (b \in S /\ t = "SYNC_INFO")
        /\ Sent(b)' <=> Sent(b) \/ (b \in S /\ t = "WRITE_OKAY")
        /\ Ahead(b) /\ (t = "CONT_ALL" => Updating(b) \/ Sent(b)) => Ahead(b)'
  <2> TAKE S, t
  <2> HAVE Puts(S, t)
  <2>1. s2a \in [Arbiters -> Seq(Message)]
    BY <1>0
  <2>2. \A u : Has(s2a', b, u) <=> Has(s2a, b, u) \/ (b \in S /\ t = u)
    BY <2>1, PutsHas
  <2>3. Ahead(b) /\ (t = "CONT_ALL" => Updating(b) \/ Sent(b)) => Ahead(b)'
    BY <2>1, AheadPuts
  <2> QED BY <1>2, <2>2, <2>3 DEF Updating, Sent
<1>d. Due(b)' <=> \/ step' = "WAITING_SYNC_ACK" /\ ~Updating(b)'
                  \/ step' = "WAITING_SYNC_INFO" /\ opqueue' # << >> /\ Head(opqueue') = b /\ ~Sent(b)'
                  \/ ~Ahead(b)'
  BY DEF Due, OnTurn
<1>3. CASE Rests(a)
  <2>1. PICK S, t : t \notin Orders /\ Puts(S, t)
    BY <1>3 DEF Rests
  <2>2. step' = step /\ (opqueue # << >> => opqueue' # << >> /\ Head(opqueue') = Head(opqueue))
    BY <1>3 DEF Rests
  <2>3. step = "WAITING_SYNC_INFO" => opqueue # << >>
    BY DEF StepMatchesQueue
  <2> QED BY <1>p, <1>d, <2>1, <2>2, <2>3 DEF Due, OnTurn, Orders
<1>4. CASE Freezes(a)
  BY <1>p, <1>d, <1>4 DEF Freezes, Due
<1>5. CASE Counts(a)
  <2>1. CASE UNCHANGED <<s2a, step, opqueue>>
    BY <2>1 DEF Due, OnTurn, Updating, Sent, Ahead, Has
  <2>2. CASE step' = "WAITING_SYNC_INFO" /\ UNCHANGED opqueue /\ Puts({Head(opqueue)}, "WRITE_OKAY")
    BY <1>p, <1>d, <2>2 DEF Due
  <2> QED BY <1>5, <2>1, <2>2 DEF Counts
<1>6. CASE Spreads(a)
  BY <1>0, <1>p, <1>d, <1>6 DEF Spreads, Due
<1>7. CASE HandsOver(a)
  BY <1>p, <1>d, <1>7 DEF HandsOver, Due
<1>8. CASE Resumes(a)
  <2>1. step' = "READY" /\ Puts(conns, "CONT_ALL")
    BY <1>8 DEF Resumes
  <2>2. ~Ahead(b) \/ (~Updating(b) /\ ~Sent(b))
    BY <1>p, <1>d, <2>1
  <2>3. CASE Takes(a, "SYNC_DONE") /\ step = "WAITING_SYNC_ACK"
    BY <2>2, <2>3 DEF Due
  <2>4. CASE Takes(a, "SYNC_INFO") /\ conns = {a} /\ step = "WAITING_SYNC_INFO"
    <3>1. b = a
      BY <1>0, <2>4
    <3>2. Returned(a)
      <4>1. a2s \in [Arbiters -> Seq(Message)] /\ a2s[a] # << >> /\ Head(a2s[a]).type = "SYNC_INFO"
        BY <1>0, <2>4 DEF Takes
      <4> QED BY <4>1, ConsumeHas DEF Returned
    <3>3. OnTurn(a)
      BY <3>2 DEF GrantInv, InOrder
    <3> QED BY <2>2, <3>1, <3>3 DEF Due
  <2> QED BY <1>8, <2>3, <2>4 DEF Resumes, Ends
<1> QED BY <1>1, <1>3, <1>4, <1>5, <1>6, <1>7, <1>8

(* Reading a message leaves no more announcements than there were, and one *)
(* less when it is one of them.                                            *)
LEMMA AnnounceTake ==
  ASSUME a2s \in [Arbiters -> Seq(Message)], NEW a \in Arbiters, a2s[a] # << >>, a2s' = Consume(a2s, a),
         IsFiniteSet(Announced)
  PROVE  /\ IsFiniteSet(Announced') /\ Cardinality(Announced') <= Cardinality(Announced)
         /\ Head(a2s[a]).type = "WAIT_BARR" => Cardinality(Announced') + 1 <= Cardinality(Announced)
<1> DEFINE Back(y) == IF y[1] = a THEN <<a, y[2] + 1>> ELSE y
           Others  == Announced \ {<<a, 1>>}
           f == [y \in Announced' |-> Back(y)]
<1>1. PICK s \in Seq(Message) : s = a2s[a] /\ s # << >>
  OBVIOUS
<1>2. /\ \A i \in DOMAIN Tail(s) : i + 1 \in DOMAIN s /\ Tail(s)[i] = s[i + 1] /\ i + 1 # 1
      /\ 1 \in DOMAIN s /\ Head(s) = s[1]
  <2>1. /\ DOMAIN s = 1 .. Len(s) /\ Len(s) \in Nat \ {0} /\ DOMAIN Tail(s) = 1 .. Len(s) - 1
        /\ \A i \in DOMAIN Tail(s) : i + 1 \in DOMAIN s /\ Tail(s)[i] = s[i + 1]
        /\ Head(s) = s[1]
    BY <1>1, TailPlaces
  <2> QED BY <2>1
<1>3. \A b \in Arbiters : a2s'[b] = IF b = a THEN Tail(s) ELSE a2s[b]
  BY <1>1 DEF Consume
<1>4. Announced' = {y \in Arbiters \X Nat : y[2] \in DOMAIN a2s'[y[1]] /\ a2s'[y[1]][y[2]].type = "WAIT_BARR"}
  BY DEF Announced
<1>5. ASSUME NEW b \in Arbiters, NEW i \in Nat, <<b, i>> \in Announced'
      PROVE  Back(<<b, i>>) \in Others
  <2>1. i \in DOMAIN a2s'[b] /\ a2s'[b][i].type = "WAIT_BARR"
    BY <1>4, <1>5
  <2>2. CASE b = a
    <3>1. i \in DOMAIN Tail(s) /\ Tail(s)[i].type = "WAIT_BARR"
      BY <1>3, <2>1, <2>2
    <3>2. i + 1 \in DOMAIN s /\ s[i + 1].type = "WAIT_BARR" /\ i + 1 # 1 /\ i + 1 \in Nat
      BY <1>2, <3>1
    <3>3. <<a, i + 1>> \in Announced
      BY <1>1, <3>2 DEF Announced
    <3> QED BY <2>2, <3>2, <3>3
  <2>3. CASE b # a
    <3>1. <<b, i>> \in Announced
      BY <1>3, <2>1, <2>3 DEF Announced
    <3> QED BY <2>3, <3>1
  <2> QED BY <2>2, <2>3
<1>6. Announced' \subseteq Arbiters \X Nat
  BY <1>4
<1>7. \A y \in Announced' : \E b \in Arbiters, i \in Nat : y = <<b, i>>
  BY <1>6
<1>8. f \in Injection(Announced', Others)
  <2>1. ASSUME NEW y \in Announced' PROVE Back(y) \in Others
    BY <1>5, <1>7
  <2>2. f \in [Announced' -> Others]
    BY <2>1
  <2>3. ASSUME NEW y \in Announced', NEW z \in Announced', f[y] = f[z] PROVE y = z
    <3>1. PICK b \in Arbiters, i \in Nat : y = <<b, i>>
      BY <1>7
    <3>2. PICK c \in Arbiters, j \in Nat : z = <<c, j>>
      BY <1>7
    <3>3. Back(y) = Back(z)
      BY <2>3
    <3> QED BY <3>1, <3>2, <3>3
  <2> HIDE DEF f
  <2> QED BY <2>2, <2>3 DEF Injection, IsInjective
<1>9. /\ IsFiniteSet(Others) /\ Cardinality(Announced) \in Nat /\ Cardinality(Others) \in Nat
      /\ Cardinality(Others) = IF <<a, 1>> \in Announced THEN Cardinality(Announced) - 1 ELSE Cardinality(Announced)
  <2>1. PICK e : e = <<a, 1>>
    OBVIOUS
  <2>2. /\ IsFiniteSet(Announced \ {e})
        /\ Cardinality(Announced \ {e}) = IF e \in Announced THEN Cardinality(Announced) - 1 ELSE Cardinality(Announced)
    BY FS_RemoveElement
  <2>3. Cardinality(Announced) \in Nat /\ Cardinality(Announced \ {e}) \in Nat
    BY <2>2, FS_CardinalityType
  <2> QED BY <2>1, <2>2, <2>3
<1>10. IsFiniteSet(Announced') /\ Cardinality(Announced') <= Cardinality(Others)
  <2> HIDE DEF f, Others
  <2> QED BY <1>8, <1>9, FS_Injection
<1>11. Head(a2s[a]).type = "WAIT_BARR" => <<a, 1>> \in Announced
  <2> HAVE Head(a2s[a]).type = "WAIT_BARR"
  <2>1. 1 \in DOMAIN a2s[a] /\ a2s[a][1].type = "WAIT_BARR"
    BY <1>1, <1>2
  <2> QED BY <2>1 DEF Announced
<1>12. Cardinality(Announced') \in Nat
  BY <1>10, FS_CardinalityType
<1> HIDE DEF Others
<1> QED BY <1>9, <1>10, <1>11, <1>12

(* What the server does for a barrier.                                     *)
LEMMA BarrierKinds ==
  ASSUME TypeOK, NEW a \in Arbiters, ServerStep(a), started
  PROVE  \/ /\ UNCHANGED nproc_waiting /\ \E S : \E x \in Message : x.type # "WAIT_DONE" /\ s2a' = SendAll(s2a, S, x)
            /\ UNCHANGED a2s \/ (a2s[a] # << >> /\ a2s' = Consume(a2s, a))
         \/ /\ a2s[a] # << >> /\ Head(a2s[a]).type = "WAIT_BARR" /\ a2s' = Consume(a2s, a)
            /\ \/ ~AllAtBarrier /\ nproc_waiting' = nproc_waiting + 1 /\ UNCHANGED s2a
               \/ AllAtBarrier /\ nproc_waiting' = 0 /\ s2a' = SendAll(s2a, conns, Simple("WAIT_DONE"))
<1>0. s2a \in [Arbiters -> Seq(Message)] /\ a2s \in [Arbiters -> Seq(Message)] /\ opqueue \in Seq(Arbiters)
  BY DEF TypeOK, NetTypeOK, ServerTypeOK
<1> DEFINE Puts2 == \E S : \E x \in Message : x.type # "WAIT_DONE" /\ s2a' = SendAll(s2a, S, x)
<1>1. \A t \in SimpleTypes : Simple(t) \in Message /\ Simple(t).type = t
  BY MessageTypes DEF Simple
<1>2. CASE SrvWaitBarr(a)
  BY <1>2 DEF SrvWaitBarr, SrvReceive, Waiting
<1>3. CASE ~SrvWaitBarr(a)
  <2>1. UNCHANGED nproc_waiting
    BY <1>3 DEF ServerStep, SrvAccept, SrvAddProc, SrvSyncRequest, SrvStopDone, SrvSyncInfo, SrvSyncDone, SrvPrgmDone,
                SrvPanic, counters
  <2>2. UNCHANGED a2s \/ (a2s[a] # << >> /\ a2s' = Consume(a2s, a))
    BY <1>3 DEF ServerStep, SrvAccept, SrvAddProc, SrvSyncRequest, SrvStopDone, SrvSyncInfo, SrvSyncDone, SrvPrgmDone,
                SrvReceive, Waiting
  <2>3. Puts2
    <3>1. ASSUME NEW S, NEW t \in {"STOP_ALL", "CONT_ALL", "WRITE_OKAY"}, s2a' = SendAll(s2a, S, Simple(t)) PROVE Puts2
      BY <1>1, <3>1 DEF SimpleTypes
    <3>2. ASSUME NEW b, s2a' = Send(s2a, b, Simple("WRITE_OKAY")) PROVE Puts2
      <4>1. s2a' = SendAll(s2a, {b}, Simple("WRITE_OKAY"))
        BY <1>0, <3>2 DEF Send, SendAll
      <4> QED BY <3>1, <4>1
    <3>3. UNCHANGED s2a => Puts2
      <4>1. s2a = SendAll(s2a, {}, Simple("STOP_ALL"))
        BY <1>0 DEF SendAll
      <4> QED BY <3>1, <4>1
    <3>4. ASSUME SrvSyncInfo(a), s2a' = SendAll(s2a, conns, Head(a2s[a])) PROVE Puts2
      <4>1. a2s[a] # << >> /\ Head(a2s[a]).type = "SYNC_INFO"
        BY <3>4 DEF SrvSyncInfo, SrvReceive, Waiting
      <4>2. PICK x : x = Head(a2s[a])
        OBVIOUS
      <4>3. x \in Message
        BY <1>0, <4>1, <4>2, ChannelTypes
      <4> QED BY <3>4, <4>1, <4>2, <4>3
    <3>5. \A n : Synced(n) => \/ UNCHANGED s2a
                              \/ s2a' = SendAll(s2a, conns, Simple("CONT_ALL"))
                              \/ s2a' = Send(s2a, Head(Tail(opqueue)), Simple("WRITE_OKAY"))
      BY DEF Synced
    <3>6. \/ UNCHANGED s2a
          \/ \E t \in {"STOP_ALL", "CONT_ALL", "WRITE_OKAY"} : s2a' = SendAll(s2a, conns, Simple(t))
          \/ \E b : s2a' = Send(s2a, b, Simple("WRITE_OKAY"))
          \/ SrvSyncInfo(a) /\ s2a' = SendAll(s2a, conns, Head(a2s[a]))
      <4>1. CASE SrvSyncInfo(a)
        BY <3>5, <4>1 DEF SrvSyncInfo, SrvPanic
      <4>2. CASE SrvSyncDone(a)
        BY <3>5, <4>2 DEF SrvSyncDone, SrvPanic
      <4>3. CASE SrvAccept(a) \/ SrvAddProc(a) \/ SrvSyncRequest(a) \/ SrvStopDone(a) \/ SrvPrgmDone(a)
        BY <4>3 DEF SrvAccept, SrvAddProc, SrvSyncRequest, SrvStopDone, SrvPrgmDone, SrvPanic
      <4> QED BY <1>3, <4>1, <4>2, <4>3 DEF ServerStep
    <3> HIDE DEF Puts2
    <3> QED BY <3>1, <3>2, <3>3, <3>4, <3>6
  <2> QED BY <2>1, <2>2, <2>3
<1> QED BY <1>2, <1>3

(* The server counts those who announced themselves, and releases all when *)
(* all of them wait.                                                       *)
LEMMA BarrierServer ==
  ASSUME TypeOK, StepMatchesQueue, BarrierInv, started, NEW a \in Arbiters, ServerStep(a),
         UNCHANGED <<arbVars, procVars, p2a, a2p, signals, mem>>
  PROVE  BarrierInv'
<1>0. s2a \in [Arbiters -> Seq(Message)] /\ a2s \in [Arbiters -> Seq(Message)] /\ nproc_waiting \in Nat
      /\ UNCHANGED <<ptab, arbState, arbStarted>> /\ \A q \in Procs : Home[q] \in Arbiters
  BY HomeAssumption DEF TypeOK, NetTypeOK, ServerTypeOK, arbVars
<1>1. /\ \A b \in Arbiters : Once(s2a, b, "WAIT_DONE")
      /\ \A q \in Procs : Has(s2a, Home[q], "WAIT_DONE") /\ Serving(Home[q]) => ptab[q].is_waiting
      /\ IsFiniteSet(Announced) /\ nproc_waiting + Cardinality(Announced) <= Cardinality(AtBarrier)
  BY DEF BarrierInv
<1>2. /\ \A b \in Arbiters : /\ Has(s2a, b, "WAIT_DONE")' <=> Has(s2a', b, "WAIT_DONE")
                             /\ Once(s2a, b, "WAIT_DONE")' <=> Once(s2a', b, "WAIT_DONE")
                             /\ Serving(b)' <=> Serving(b)
      /\ AtBarrier' = {q \in Procs : ptab[q].is_waiting /\ ~Has(s2a', Home[q], "WAIT_DONE")}
  BY <1>0 DEF Has, Once, Serving, AtBarrier
<1>3. IsFiniteSet(AtBarrier) /\ Cardinality(AtBarrier) \in Nat /\ Cardinality(AtBarrier) <= NProc
      /\ (Cardinality(AtBarrier) = NProc => AtBarrier = Procs)
      /\ Cardinality(Announced) \in Nat
  <2>1. AtBarrier \subseteq Procs
    BY DEF AtBarrier
  <2> QED BY <1>1, <2>1, ProcsAssumption, FS_Subset, FS_CardinalityType DEF NProc
<1>4. a2s[a] # << >> /\ a2s' = Consume(a2s, a) =>
        /\ IsFiniteSet(Announced') /\ Cardinality(Announced') <= Cardinality(Announced)
        /\ Head(a2s[a]).type = "WAIT_BARR" => Cardinality(Announced') + 1 <= Cardinality(Announced)
  <2>1. a2s \in [Arbiters -> Seq(Message)] /\ IsFiniteSet(Announced)
    BY <1>0, <1>1
  <2> QED BY <2>1, AnnounceTake
<1>5. UNCHANGED a2s => Announced' = Announced
  BY DEF Announced
<1>6. Same(s2a, s2a', Arbiters, "WAIT_DONE") =>
        /\ \A b \in Arbiters : Once(s2a', b, "WAIT_DONE")
        /\ \A q \in Procs : Has(s2a', Home[q], "WAIT_DONE") <=> Has(s2a, Home[q], "WAIT_DONE")
        /\ AtBarrier' = AtBarrier
  BY <1>0, <1>1, <1>2 DEF Same, AtBarrier
<1>7. CASE /\ UNCHANGED nproc_waiting /\ \E S : \E x \in Message : x.type # "WAIT_DONE" /\ s2a' = SendAll(s2a, S, x)
           /\ UNCHANGED a2s \/ (a2s[a] # << >> /\ a2s' = Consume(a2s, a))
  <2>1. PICK S : \E x \in Message : x.type # "WAIT_DONE" /\ s2a' = SendAll(s2a, S, x)
    BY <1>7
  <2>2. PICK x \in Message : x.type # "WAIT_DONE" /\ s2a' = SendAll(s2a, S, x)
    BY <2>1
  <2>3. Same(s2a, s2a', Arbiters, "WAIT_DONE")
    <3>1. s2a \in [Arbiters -> Seq(Message)]
      BY <1>0
    <3> QED BY <2>2, <3>1, SendSame
  <2>4. /\ \A b \in Arbiters : Once(s2a', b, "WAIT_DONE")
        /\ \A q \in Procs : Has(s2a', Home[q], "WAIT_DONE") /\ Serving(Home[q])' => ptab'[q].is_waiting
    BY <1>0, <1>1, <1>2, <1>6, <2>3
  <2>5. IsFiniteSet(Announced') /\ Cardinality(Announced') \in Nat /\ Cardinality(Announced') <= Cardinality(Announced)
    BY <1>1, <1>3, <1>4, <1>5, <1>7, FS_CardinalityType
  <2>6. nproc_waiting' + Cardinality(Announced') <= Cardinality(AtBarrier')
    BY <1>0, <1>1, <1>3, <1>6, <1>7, <2>3, <2>5
  <2> QED BY <1>0, <1>2, <2>4, <2>5, <2>6 DEF BarrierInv
<1>8. CASE /\ a2s[a] # << >> /\ Head(a2s[a]).type = "WAIT_BARR" /\ a2s' = Consume(a2s, a)
           /\ ~AllAtBarrier /\ nproc_waiting' = nproc_waiting + 1 /\ UNCHANGED s2a
  <2>1. IsFiniteSet(Announced') /\ Cardinality(Announced') \in Nat /\ Cardinality(Announced') + 1 <= Cardinality(Announced)
    BY <1>4, <1>8, FS_CardinalityType
  <2>2. Same(s2a, s2a', Arbiters, "WAIT_DONE")
    BY <1>8, SameChannel
  <2>3. nproc_waiting' + Cardinality(Announced') <= Cardinality(AtBarrier')
    BY <1>0, <1>1, <1>3, <1>6, <1>8, <2>1, <2>2
  <2>4. /\ \A b \in Arbiters : Once(s2a', b, "WAIT_DONE")
        /\ \A q \in Procs : Has(s2a', Home[q], "WAIT_DONE") /\ Serving(Home[q])' => ptab'[q].is_waiting
    BY <1>0, <1>1, <1>2, <1>6, <2>2
  <2> QED BY <1>0, <1>2, <2>1, <2>3, <2>4 DEF BarrierInv
<1>9. CASE /\ a2s[a] # << >> /\ Head(a2s[a]).type = "WAIT_BARR" /\ a2s' = Consume(a2s, a)
           /\ AllAtBarrier /\ nproc_waiting' = 0 /\ s2a' = SendAll(s2a, conns, Simple("WAIT_DONE"))
  <2>0. Simple("WAIT_DONE") \in Message /\ Simple("WAIT_DONE").type = "WAIT_DONE"
    BY MessageTypes DEF Simple, SimpleTypes
  <2>1. /\ IsFiniteSet(Announced') /\ Cardinality(Announced') \in Nat
        /\ Cardinality(Announced') + 1 <= Cardinality(Announced)
    BY <1>4, <1>9, FS_CardinalityType
  <2>2. nproc_waiting + 1 >= NProc /\ NProc \in Nat
    BY <1>9, NProcType DEF AllAtBarrier
  <2>3. Cardinality(AtBarrier) = NProc /\ Cardinality(Announced') = 0
    BY <1>0, <1>1, <1>3, <2>1, <2>2
  <2>4. \A q \in Procs : ptab[q].is_waiting /\ ~Has(s2a, Home[q], "WAIT_DONE")
    BY <1>3, <2>3 DEF AtBarrier
  <2>5. \A b \in Arbiters : ~Has(s2a, b, "WAIT_DONE")
    BY <2>4, HomeAssumption
  <2>6. \A b \in Arbiters : Once(s2a', b, "WAIT_DONE")
    <3> TAKE b \in Arbiters
    <3>1. PICK x : x = Simple("WAIT_DONE")
      OBVIOUS
    <3>2. s2a \in [Arbiters -> Seq(Message)] /\ x \in Message /\ Once(s2a, b, "WAIT_DONE")
      BY <1>0, <1>1, <2>0, <3>1
    <3>3. Once(SendAll(s2a, conns, x), b, "WAIT_DONE")
      BY <2>5, <3>2, SendAllHas
    <3> QED BY <1>9, <3>1, <3>3
  <2>7. \A q \in Procs : Has(s2a', Home[q], "WAIT_DONE") /\ Serving(Home[q])' => ptab'[q].is_waiting
    BY <1>0, <2>4
  <2>8. Cardinality(AtBarrier') \in Nat
    <3>1. AtBarrier' \subseteq Procs
      BY <1>2
    <3> QED BY <3>1, ProcsAssumption, FS_Subset, FS_CardinalityType
  <2>9. nproc_waiting' + Cardinality(Announced') <= Cardinality(AtBarrier')
    BY <1>9, <2>3, <2>8
  <2> QED BY <1>0, <1>2, <2>1, <2>6, <2>7, <2>9 DEF BarrierInv
<1> QED BY <1>7, <1>8, <1>9, BarrierKinds

(* A step of the server in a session that has started.                     *)
LEMMA SettledServer ==
  ASSUME TypeOK, StepMatchesQueue, CountInv, LinkInv, GrantInv, StopInv, Settled, Whole', started,
         NEW a \in Arbiters, ServerStep(a),
         UNCHANGED <<arbVars, procVars, p2a, a2p, signals, mem>>
  PROVE  Settled'
<1>0. /\ UNCHANGED <<arbState, arbStarted, fds, pass, ptab, arbQueue, loc, p2a, susp, tstp>>
      /\ \A q \in Procs : Home[q] \in Arbiters
  BY HomeAssumption DEF arbVars, procVars, signals
<1>1. GoesOn
  <2>1. UNCHANGED arbVars
    OBVIOUS
  <2> QED BY <2>1, RoundServer
<1>2. \A b \in Arbiters : (Halted(b)' => Halted(b)) /\ (Live(b) /\ Halted(b) => Halted(b)')
  BY <1>1 DEF GoesOn
<1>3. \A b \in Arbiters : (Serving(b)' <=> Serving(b)) /\ (Serving(b) => Live(b)) /\ (Full(b)' <=> Full(b))
  BY <1>0 DEF Serving, Live, Full, Local
<1>4. HoldInv'
  <2>1. \A q \in Procs : (Held(q)' <=> Held(q)) /\ (Writable(q)' <=> Writable(q))
    BY <1>0 DEF Held, Writable
  <2> QED BY <1>0, <1>2, <2>1 DEF Settled, HoldInv
<1>5. PosInv'
  <2>1. \A q \in Procs : Position(q) => Position(q)'
    <3> TAKE q \in Procs
    <3> HAVE Position(q)
    <3>1. p2a'[q] = p2a[q] /\ loc'[q] = loc[q] /\ susp'[q] = susp[q] /\ ptab'[q] = ptab[q]
      BY <1>0
    <3> QED BY <3>1, PosKept DEF SameFlags
  <2> QED BY <1>0, <1>2, <1>3, <2>1 DEF Settled, PosInv
<1>6. QueueInv'
  BY <1>0, <1>3 DEF Settled, QueueInv, Distinct
<1>7. FlushInv'
  <2> SUFFICES ASSUME NEW b \in Arbiters, Serving(b)', Full(b)', Halted(b)'
               PROVE  Flush(b)'
    BY DEF FlushInv
  <2>1. Flush(b) /\ Live(b)
    BY <1>2, <1>3 DEF Settled, FlushInv
  <2>2. Due(b)' => Due(b)
    BY <2>1, DueServer
  <2>3. \A q \in Procs : /\ Unread(q)' <=> Unread(q)
                         /\ Has(p2a, q, "WAIT_BARR")' <=> Has(p2a, q, "WAIT_BARR")
                         /\ Running(q)' <=> Running(q)
    BY <1>0 DEF Unread, Has, Running
  <2>4. \A q \in Local(b) : q \in Procs
    BY DEF Local
  <2>5. Local(b)' = Local(b)
    BY DEF Local
  <2> QED BY <1>0, <2>1, <2>2, <2>3, <2>4, <2>5 DEF Flush
<1>8. BarrierInv'
  BY BarrierServer DEF Settled
<1> QED BY <1>4, <1>5, <1>6, <1>7, <1>8 DEF Settled

(* The step that starts the session: nobody is held, and nobody has come   *)
(* to a barrier.                                                           *)
LEMMA SettledBegins ==
  ASSUME TypeOK, ChainInv, StartInv, StopInv, ~started, started', NEW a \in Arbiters, ServerStep(a),
         UNCHANGED <<arbVars, procVars, p2a, a2p, signals, mem>>
  PROVE  Settled'
<1>0. /\ s2a \in [Arbiters -> Seq(Message)] /\ a2s \in [Arbiters -> Seq(Message)] /\ gid \in Nat
      /\ UNCHANGED <<ptab, arbStarted>> /\ \A q \in Procs : Home[q] \in Arbiters
  BY HomeAssumption DEF TypeOK, NetTypeOK, ServerTypeOK, arbVars
<1>1. \A b \in Arbiters : ~arbStarted[b] /\ ~Has(s2a, b, "WAIT_DONE") /\ ~Has(a2s, b, "WAIT_BARR")
  BY DEF StartInv, ChainInv
<1>2. \A b \in Arbiters : ~Serving(b)'
  BY <1>0, <1>1 DEF Serving
<1>3. \A b \in Arbiters : ~Has(s2a, b, "CONT_ALL")
  <2> TAKE b \in Arbiters
  <2>1. Preceded(s2a[b], Orders, {"WAIT_DONE"})
    BY <1>1 DEF StartInv
  <2>2. "CONT_ALL" \in Orders
    BY DEF Orders
  <2> QED BY <1>1, <2>1, <2>2 DEF Preceded, Has
<1>4. \A b \in Arbiters : ~Halted(b)'
  <2>1. step = "READY"
    BY DEF StopInv
  <2>2. UNCHANGED step /\ Steady(s2a, s2a')
    BY IdleStart
  <2>3. \A b \in Arbiters : ~Has(s2a', b, "CONT_ALL")
    BY <1>3, <2>2 DEF Steady
  <2> QED BY <2>1, <2>2, <2>3 DEF Halted, Resuming, Has
<1>5. PICK x : x = SetGid(Head(a2s[a]).pid, gid)
  OBVIOUS
<1>6. /\ nproc_waiting' = 0 /\ a2s[a] # << >> /\ Head(a2s[a]).type = "ADD_PROC"
      /\ s2a' = SendAll(Send(s2a, a, x), conns, Simple("WAIT_DONE"))
  BY <1>5 DEF ServerStep, SrvAccept, SrvAddProc, SrvSyncRequest, SrvStopDone, SrvSyncInfo, SrvSyncDone, SrvWaitBarr, SrvPrgmDone,
          SrvPanic, SrvReceive, Waiting
<1>7. x \in Message /\ x.type = "SET_GID"
  <2>1. PICK m \in Message : m = Head(a2s[a])
    BY <1>0, <1>6, ChannelTypes
  <2>2. m.pid \in Procs
    BY <1>6, <2>1, PayloadTypes
  <2> QED BY <1>0, <1>5, <2>1, <2>2, MessageTypes DEF SetGid
<1>8. \A b \in Arbiters : Once(s2a', b, "WAIT_DONE")
  <2> TAKE b \in Arbiters
  <2>0. PICK w : w = Simple("WAIT_DONE")
    OBVIOUS
  <2>1. w \in Message
    BY <2>0, MessageTypes DEF SimpleTypes
  <2>2. s2a \in [Arbiters -> Seq(Message)] /\ Once(s2a, b, "WAIT_DONE") /\ ~Has(s2a, b, "WAIT_DONE")
    BY <1>0, <1>1 DEF Once, Has
  <2>3. PICK c : c = Send(s2a, a, x)
    OBVIOUS
  <2>4. c \in [Arbiters -> Seq(Message)]
    BY <1>7, <2>2, <2>3, ChannelTypes
  <2>5. Once(c, b, "WAIT_DONE") /\ ~Has(c, b, "WAIT_DONE")
    BY <1>7, <2>2, <2>3, SendHas
  <2>6. Once(SendAll(c, conns, w), b, "WAIT_DONE")
    BY <2>1, <2>4, <2>5, SendAllHas
  <2> QED BY <1>6, <2>0, <2>3, <2>6
<1>9. Announced' = {}
  <2>1. \A b \in Arbiters : ~Has(a2s', b, "WAIT_BARR")
    BY <1>1, ServerOrders
  <2> QED BY <2>1 DEF Announced, Has
<1>10. BarrierInv'
  <2>1. IsFiniteSet(Announced') /\ Cardinality(Announced') = 0
    BY <1>9, FS_EmptySet
  <2>2. Cardinality(AtBarrier') \in Nat
    <3>1. AtBarrier' \subseteq Procs
      BY DEF AtBarrier
    <3> QED BY <3>1, ProcsAssumption, FS_Subset, FS_CardinalityType
  <2>3. nproc_waiting' + Cardinality(Announced') <= Cardinality(AtBarrier')
    BY <1>6, <2>1, <2>2
  <2>4. \A b \in Arbiters : Once(s2a, b, "WAIT_DONE")'
    BY <1>8 DEF Once
  <2>5. \A q \in Procs : ~Serving(Home[q])'
    BY <1>0, <1>2
  <2> QED BY <2>1, <2>3, <2>4, <2>5 DEF BarrierInv
<1>11. \A q \in Procs : ~Halted(Home[q])' /\ ~Serving(Home[q])'
  BY <1>0, <1>2, <1>4
<1> QED BY <1>2, <1>4, <1>10, <1>11 DEF Settled, HoldInv, PosInv, QueueInv, FlushInv

(* Every step of the session.                                              *)
LEMMA SettledStep ==
  ASSUME TypeInv, PlaceInv, ListInv, ChainInv, JoinInv, StepMatchesQueue, CountInv, LinkInv, GrantInv, StartInv,
         EnrolInv, StopInv, SettledInv, [Next]_vars
  PROVE  SettledInv'
<1> SUFFICES ASSUME started', Whole' PROVE Settled'
  BY DEF SettledInv
<1>0. TypeOK
  BY DEF TypeInv
<1>1. started => Settled /\ Whole
  BY FreezeStep DEF SettledInv
<1>2. started => \A q \in Procs : ptab'[q].used => ptab[q].used
  BY NobodyRegisters
<1>3. ASSUME NEW a \in Arbiters, ServerStep(a), UNCHANGED <<arbVars, procVars, p2a, a2p, signals, mem>>
      PROVE  Settled'
  <2>1. CASE started
    BY <1>0, <1>1, <1>3, <2>1, SettledServer
  <2>2. CASE ~started
    BY <1>0, <1>3, <2>2, SettledBegins
  <2> QED BY <2>1, <2>2
<1>4. UNCHANGED started => started
  OBVIOUS
<1>5. ASSUME NEW a \in Arbiters, ArbiterStep(a), UNCHANGED <<serverVars, procVars>>
      PROVE  Settled'
  <2>1. started
    BY <1>5 DEF serverVars
  <2> QED BY <1>0, <1>1, <1>2, <1>5, <2>1, SettledArbiter
<1>6. ASSUME NEW p \in Procs, ProcessStep(p) \/ ProcKilled(p), UNCHANGED <<serverVars, arbVars, a2s, s2a>>
      PROVE  Settled'
  <2>1. started
    BY <1>6 DEF serverVars
  <2> QED BY <1>1, <1>6, <2>1, SettledProcess
<1>7. ASSUME NEW p \in Procs, ProcessLosesArbiter(p)
      PROVE  Settled'
  <2>1. started
    BY <1>7 DEF ProcessLosesArbiter, serverVars
  <2> QED BY <1>1, <1>7, <2>1, SettledLoses
<1>8. ASSUME Breaks PROVE Settled'
  <2>1. started
    BY <1>8 DEF Breaks
  <2> QED BY <1>1, <1>8, <2>1, SettledBreaks
<1> QED BY <1>0, <1>3, <1>5, <1>6, <1>7, <1>8, StepKinds

(* The writer has the session to itself: the machines are halted.          *)
LEMMA AloneFollows ==
  ASSUME TypeOK, GrantInv, StopInv, SettledInv
  PROVE  WriterAlone
<1> SUFFICES ASSUME NEW p \in Procs, NEW q \in Procs, Writable(p), p # q
             PROVE  Held(q)
  BY DEF WriterAlone
<1>1. step = "WAITING_SYNC_INFO"
  BY DEF GrantInv, InOrder, Holds, OnTurn
<1>2. started /\ Whole
  BY <1>1 DEF StopInv, Whole
<1>3. Home[q] \in Arbiters /\ ~Stopping(Home[q])
  BY <1>1, HomeAssumption DEF StopInv, StopLink
<1>4. Halted(Home[q])
  BY <1>1, <1>3 DEF Halted
<1>5. Held(q) \/ Writable(q)
  BY <1>2, <1>4 DEF SettledInv, Settled, HoldInv
<1>6. ~Writable(q)
  BY GrantMeaning DEF SingleWriter
<1> QED BY <1>5, <1>6

WriterInv == /\ TypeInv /\ PlaceInv /\ StepMatchesQueue /\ RegistrationInv /\ GrantInv
             /\ ListInv /\ LinkInv /\ StartInv /\ EnrolInv /\ StopInv /\ SettledInv

(* The inductive invariant holds in every reachable state: what a freeze   *)
(* has stopped stays stopped until the resume, on every machine.           *)
THEOREM WriterInvariant == Spec => []WriterInv
<1>1. Init => WriterInv
  <2> SUFFICES ASSUME Init PROVE WriterInv
    OBVIOUS
  <2>1. TypeInv /\ PlaceInv /\ GrantInv /\ RegistrationInv /\ ListInv /\ LinkInv /\ StartInv /\ EnrolInv /\ StopInv
    BY TypeInit, PlaceInit, GrantInit, RegistrationInit, ListInit, LinkInit, StartInit, EnrolInit, StopInit
  <2>2. StepMatchesQueue
    BY NProcType DEF Init, ServerInit, StepMatchesQueue
  <2>3. SettledInv
    BY DEF Init, ServerInit, SettledInv
  <2> QED BY <2>1, <2>2, <2>3 DEF WriterInv
<1>2. WriterInv /\ [Next]_vars => WriterInv'
  <2> SUFFICES ASSUME WriterInv, [Next]_vars PROVE WriterInv'
    OBVIOUS
  <2>0. /\ TypeInv /\ PlaceInv /\ StepMatchesQueue /\ RegistrationInv /\ GrantInv
        /\ ListInv /\ LinkInv /\ StartInv /\ EnrolInv /\ StopInv /\ SettledInv
    BY DEF WriterInv
  <2>1. ChainInv /\ JoinInv /\ CountInv
    BY <2>0 DEF RegistrationInv
  <2>2. TypeInv' /\ PlaceInv' /\ StepMatchesQueue' /\ RegistrationInv' /\ GrantInv'
    BY <2>0, TypeStep, PlaceStep, MatchesStep, RegistrationStep, GrantStep
  <2>3. CountInv'
    BY <2>2 DEF RegistrationInv
  <2>4. ListInv' /\ LinkInv'
    BY <2>0, ListStep, LinkStep
  <2>5. StartInv'
    BY <2>0, <2>1, <2>3, StartStep
  <2>6. EnrolInv'
    BY <2>0, <2>1, <2>3, EnrolStep
  <2>7. StopInv'
    BY <2>0, <2>1, FreezeStep
  <2>8. SettledInv'
    BY <2>0, <2>1, SettledStep
  <2> QED BY <2>2, <2>4, <2>5, <2>6, <2>7, <2>8 DEF WriterInv
<1> QED BY <1>1, <1>2, PTL DEF Spec

(* While a process can write to the shared page, everybody else is         *)
(* stopped, about to be, or in the code of the DSM: the round of           *)
(* MSG_STOP_ALL and its acknowledgements, which the server counts, really  *)
(* stops every process before MSG_WRITE_OKAY is sent.                      *)
THEOREM WriterRunsAlone == Spec => []WriterAlone
<1>1. WriterInv => WriterAlone
  BY AloneFollows DEF WriterInv, TypeInv
<1> QED BY <1>1, WriterInvariant, PTL
=============================================================================
