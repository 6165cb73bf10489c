-------------------------- MODULE DsmBarrierProofs --------------------------
(***************************************************************************)
(* Barriers hold, and their release reaches everyone; for any number of    *)
(* machines and processes, and any programs.                               *)
(*                                                                         *)
(* This is about sessions that nobody has left and in which nobody was     *)
(* killed (Intact).  There the freezes count exactly everyone (ExactInv),  *)
(* so whoever is at a barrier is held there (Settled); all have passed the *)
(* same number of barriers (LevelInv); and no barrier is released in the   *)
(* middle of a round (RestInv, ReleaseInv).                                *)
(***************************************************************************)
EXTENDS DsmProtocolProofs

-----------------------------------------------------------------------------
(***************************************************************************)
(* Sessions that nobody has left and in which nobody has died: everyone is *)
(* in, every arbiter runs and is connected, and the rounds of freezes are  *)
(* counted exactly, so that all of Settled holds.                          *)
(***************************************************************************)
Intact == gone = {} /\ \A p \in Procs : ~HasLeft(p)

ExactInv ==
  started /\ Intact /\ step = "WAITING_STOP_ACK" =>
    /\ nproc_stopped = Cardinality(StopCounted)
    /\ \A a \in Arbiters : \A m : In(a2s, a, m) /\ m.type = "STOP_DONE" => m.nproc = Cardinality(Local(a))

(* An intact session was never anything else.                              *)
LEMMA WasIntact ==
  ASSUME TypeInv, [Next]_vars, Intact'
  PROVE  Intact
<1>0. TypeOK /\ loc \in [Procs -> Locations]
  BY DEF TypeInv, TypeOK, ProcessTypeOK
<1>1. ASSUME NEW a \in Arbiters, ServerStep(a), UNCHANGED <<arbVars, procVars, p2a, a2p, signals, mem>>
      PROVE  Intact
  BY <1>1 DEF Intact, HasLeft, procVars, signals
<1>2. ASSUME NEW a \in Arbiters, ArbiterStep(a), UNCHANGED <<serverVars, procVars>>
      PROVE  Intact
  <2>1. UNCHANGED gone
    BY <1>2 DEF ArbiterStep, FromProcessStep, FromServerStep, ArbAccept, ArbPoll, ArbExit, ArbAddProc, ArbSyncRequest,
       ArbForwardSync, ArbWaitBarr, ArbPrgmDone, ArbSetGid, ArbStopAll, ArbContAll, ArbWaitDone, ArbWriteOkay,
       ArbApplySync, signals, KillTstp, KillCont
  <2> QED BY <1>2, <2>1 DEF Intact, HasLeft, procVars
<1>3. ASSUME NEW p \in Procs, ProcessStep(p) \/ ProcKilled(p), UNCHANGED <<serverVars, arbVars, a2s, s2a>>
      PROVE  Intact
  <2>1. gone \subseteq gone' /\ \A q \in Procs : HasLeft(q) => HasLeft(q)'
    BY <1>0, <1>3 DEF ProcessStep, ProcConnect, ProcRecvGid, ProcRecvWaitDone, ProcRequest, ProcGranted, ProcStore,
       ProcSigill, ProcBarrier, ProcSelfStop, ProcExit, ProcReap, DeliverTstp, ProcKilled, Goto, signals, procVars,
       HasLeft, Calls, Receive
  <2> QED BY <2>1 DEF Intact
<1>4. ASSUME NEW p \in Procs, ProcessLosesArbiter(p) PROVE Intact
  BY <1>0, <1>4 DEF ProcessLosesArbiter, Goto, netVars, signals, Intact, HasLeft
<1>5. CASE Breaks
  BY <1>5 DEF Breaks, netVars, signals, procVars, Intact, HasLeft
<1> QED BY <1>0, <1>1, <1>2, <1>3, <1>4, <1>5, StepKinds

(* In an intact session that has started, every process is in the table of *)
(* a running arbiter that the server is connected to.                      *)
LEMMA IntactHas ==
  ASSUME ProtocolInv, Intact, started
  PROVE  /\ \A a \in Arbiters : arbState[a] = "up" /\ a \in conns /\ Full(a) /\ Live(a)
         /\ \A p \in Procs : loc[p] \notin {"killed", "panic"} \cup Left /\ ptab[p].used /\ Home[p] \in Arbiters
<1>0. /\ TypeOK /\ CountInv /\ LinkInv /\ EnrolInv /\ EndInv /\ NoProtocolPanic
  BY DEF ProtocolInv, WriterInv, TypeInv, RegistrationInv
<1>1. \A p \in Procs : loc[p] \notin {"killed", "panic"} \cup Left /\ ptab[p].used /\ Home[p] \in Arbiters
  BY <1>0, HomeAssumption DEF Intact, HasLeft, Left, EndInv, NoProtocolPanic, CountInv
<1>2. ASSUME NEW a \in Arbiters
      PROVE  arbState[a] = "up" /\ a \in conns /\ Full(a) /\ Live(a)
  <2>1. PICK p \in Procs : Home[p] = a
    BY HomeAssumption
  <2>2. Live(a)
    BY <1>0, <1>1, <2>1, StaysLive
  <2>3. p \in Accepted(a)
    BY <1>0, <1>1, <2>1 DEF EnrolInv
  <2>4. fds[a] # << >>
    BY <2>3 DEF Accepted
  <2>5. arbState[a] \in {"up", "closing", "exited", "panic"}
    BY <1>0 DEF TypeOK, ArbiterTypeOK
  <2>6. arbState[a] = "up"
    BY <1>0, <2>4, <2>5 DEF EndInv, NoProtocolPanic, Intact
  <2>7. a \in conns
    BY <1>0, <2>2 DEF CountInv, LinkInv
  <2> QED BY <1>1, <2>2, <2>6, <2>7 DEF Full, Local
<1> QED BY <1>1, <1>2

(* So the rounds of an intact session are whole.                           *)
LEMMA IntactIsWhole ==
  ASSUME ProtocolInv, ExactInv, Intact, started
  PROVE  Whole /\ Settled
<1>0. StopInv /\ SettledInv
  BY DEF ProtocolInv, WriterInv
<1>1. \A a \in Arbiters : Full(a) /\ Live(a)
  BY IntactHas
<1>2. Whole
  BY <1>0, <1>1 DEF Whole, ExactInv, Exact, StopInv, StopLink
<1> QED BY <1>0, <1>2 DEF SettledInv

(* An acknowledgement counts all processes of a machine that has them all. *)
LEMMA FullCount ==
  ASSUME TypeOK, PlaceInv, ListInv, EnrolInv, NEW a \in Arbiters,
         \A p \in Procs : ptab[p].used
  PROVE  NLocal(a) = Cardinality(Local(a)) /\ NLocal(a) \in Nat
<1>1. fds[a] \in Seq(Local(a)) /\ Distinct(fds[a])
  BY DEF PlaceInv, ListInv
<1>3. Len(fds[a]) \in Nat /\ fds[a] \in [1 .. Len(fds[a]) -> Local(a)] /\ DOMAIN fds[a] = 1 .. Len(fds[a])
  BY <1>1
<1>4. fds[a] \in Injection(1 .. Len(fds[a]), Local(a))
  BY <1>1, <1>3 DEF Injection, IsInjective, Distinct
<1>5. \A q \in Local(a) : \E i \in 1 .. Len(fds[a]) : fds[a][i] = q
  BY <1>3 DEF EnrolInv, Local, Accepted
<1>6. fds[a] \in Surjection(1 .. Len(fds[a]), Local(a))
  BY <1>3, <1>5 DEF Surjection
<1>7. IsFiniteSet(1 .. Len(fds[a])) /\ Cardinality(1 .. Len(fds[a])) = Len(fds[a])
  BY <1>3, FS_Interval
<1>8. Cardinality(Local(a)) = Cardinality(1 .. Len(fds[a]))
  BY <1>4, <1>6, <1>7, FS_Surjection
<1> QED BY <1>3, <1>7, <1>8 DEF NLocal

(* A step that keeps who is to answer, and the answers, keeps the count.   *)
LEMMA ExactKept ==
  ASSUME ExactInv, Intact, started, step' = step, nproc_stopped' = nproc_stopped,
         step = "WAITING_STOP_ACK" => \A b \in Arbiters :
           /\ Stopping(b)' \/ StopAck(b)' \/ Resuming(b)' <=> Stopping(b) \/ StopAck(b) \/ Resuming(b)
           /\ \A m : In(a2s', b, m) /\ m.type = "STOP_DONE" =>
                       In(a2s, b, m) \/ m.nproc = Cardinality(Local(b))
  PROVE  ExactInv'
<1> SUFFICES ASSUME step = "WAITING_STOP_ACK"
             PROVE  /\ nproc_stopped' = Cardinality(StopCounted')
                    /\ \A a \in Arbiters : \A m : In(a2s', a, m) /\ m.type = "STOP_DONE" => m.nproc = Cardinality(Local(a))
  BY DEF ExactInv
<1>1. StopCounted' = StopCounted
  BY HomeAssumption DEF StopCounted
<1> QED BY <1>1 DEF ExactInv

-----------------------------------------------------------------------------
(* The server counts every process once in a round.                        *)
LEMMA ExactServer ==
  ASSUME ProtocolInv, ExactInv, Intact, started, NEW a \in Arbiters, ServerStep(a),
         UNCHANGED <<arbVars, procVars, p2a, a2p, signals, mem>>
  PROVE  ExactInv'
<1> DEFINE SD == "STOP_DONE"
<1>0. /\ TypeOK /\ StepMatchesQueue /\ CountInv /\ StopInv
      /\ s2a \in [Arbiters -> Seq(Message)] /\ a2s \in [Arbiters -> Seq(Message)] /\ nproc_stopped \in Nat
  BY DEF ProtocolInv, WriterInv, TypeInv, RegistrationInv, TypeOK, NetTypeOK, ServerTypeOK
<1>1. \A b \in Arbiters : b \in conns
  BY IntactHas
<1>2. \A b \in Arbiters : /\ StopAck(b)' <=> Has(a2s', b, SD)
                          /\ Stopping(b)' <=> Has(s2a', b, "STOP_ALL")
                          /\ Resuming(b)' <=> Has(s2a', b, "CONT_ALL")
  BY DEF StopAck, Stopping, Resuming, Has
<1>3. CASE Rests(a)
  <2>1. Same(a2s, a2s', Arbiters, SD)
    <3>1. UNCHANGED a2s => Same(a2s, a2s', Arbiters, SD)
      BY SameChannel
    <3>2. ASSUME NEW t, t # SD, Takes(a, t) PROVE Same(a2s, a2s', Arbiters, SD)
      BY <1>0, <3>2, TakesHas
    <3> QED BY <1>3, <3>1, <3>2 DEF Rests
  <2>2. PICK S : \E t : t \notin Orders /\ Puts(S, t)
    BY <1>3 DEF Rests
  <2>3. PICK t : t \notin Orders /\ Puts(S, t)
    BY <2>2
  <2>4. \A b \in Arbiters : \A u : u # t => (Has(s2a', b, u) <=> Has(s2a, b, u))
    BY <1>0, <2>3, PutsHas
  <2>5. \A b \in Arbiters : /\ StopAck(b)' <=> StopAck(b)
                            /\ Stopping(b)' <=> Stopping(b)
                            /\ Resuming(b)' <=> Resuming(b)
    BY <1>2, <2>1, <2>3, <2>4 DEF Same, Orders, StopAck, Stopping, Resuming
  <2>6. \A b \in Arbiters : \A m : In(a2s', b, m) /\ m.type = SD => In(a2s, b, m)
    BY <2>1 DEF Same
  <2> QED BY <1>3, <2>5, <2>6, ExactKept DEF Rests
<1>4. CASE Freezes(a)
  <2>1. /\ Takes(a, "SYNC_REQ") /\ Puts(conns, "STOP_ALL")
        /\ step = "READY" /\ nproc_stopped' = 0
    BY <1>0, <1>4 DEF Freezes, StepMatchesQueue
  <2>2. \A b \in Arbiters : Stopping(b)'
    BY <1>0, <1>1, <1>2, <2>1, PutsHas
  <2>3. StopCounted' = {}
    BY <2>2, HomeAssumption DEF StopCounted
  <2>4. \A b \in Arbiters : \A m : ~(In(a2s', b, m) /\ m.type = SD)
    <3> SUFFICES ASSUME NEW b \in Arbiters, NEW m, In(a2s', b, m), m.type = SD PROVE FALSE
      OBVIOUS
    <3>1. In(a2s, b, m)
      BY <1>0, <2>1, TakesHas
    <3>2. StopAck(b)
      BY <3>1 DEF In, StopAck, Has
    <3> QED BY <1>0, <2>1, <3>2 DEF StopInv, StopLink
  <2> QED BY <2>1, <2>3, <2>4, FS_EmptySet DEF ExactInv
<1>5. CASE Counts(a)
  <2> SUFFICES ASSUME step' = "WAITING_STOP_ACK" PROVE ExactInv'
    BY DEF ExactInv
  <2> DEFINE All == StopCounted \cup Local(a)
  <2>1. PICK m : m = Head(a2s[a])
    OBVIOUS
  <2>2. /\ Takes(a, SD) /\ step = "WAITING_STOP_ACK" /\ m.type = SD
        /\ UNCHANGED s2a /\ nproc_stopped' = nproc_stopped + m.nproc
    BY <1>5, <2>1 DEF Counts, Takes
  <2>3. /\ In(a2s, a, m) /\ StopAck(a) /\ ~StopAck(a)'
        /\ \A b \in Arbiters : \A x : In(a2s', b, x) => In(a2s, b, x)
    <3>1. Once(a2s, a, SD)
      BY <1>0 DEF StopInv, StopLink
    <3> QED BY <1>0, <1>2, <2>1, <2>2, <3>1, TakesHas DEF StopAck
  <2>4. m.nproc = Cardinality(Local(a)) /\ nproc_stopped = Cardinality(StopCounted)
    BY <2>2, <2>3 DEF ExactInv
  <2>5. StopCounted \subseteq Procs /\ StopCounted \cap Local(a) = {}
    BY <2>3 DEF StopCounted, Local
  <2>6. Cardinality(All) = Cardinality(StopCounted) + Cardinality(Local(a))
    BY <2>5, JoinCount
  <2>7. StopCounted' = All
    <3>1. ~Stopping(a) /\ ~Resuming(a)
      BY <1>0, <2>3 DEF StopInv, StopLink
    <3>2. \A b \in Arbiters : (Stopping(b)' <=> Stopping(b)) /\ (Resuming(b)' <=> Resuming(b))
      BY <1>2, <2>2 DEF Stopping, Resuming
    <3>3. \A b \in Arbiters : b # a => (StopAck(b)' <=> StopAck(b))
      <4>1. \A b \in Arbiters : b # a => a2s'[b] = a2s[b]
        BY <1>0, <2>2 DEF Takes, Consume
      <4> QED BY <4>1 DEF StopAck, Has
    <3>4. \A q \in Procs : q \in StopCounted' <=> q \in All
      <4> TAKE q \in Procs
      <4>1. Home[q] \in Arbiters
        BY HomeAssumption
      <4> QED BY <2>3, <3>1, <3>2, <3>3, <4>1 DEF StopCounted, Local
    <3>5. StopCounted' \subseteq Procs /\ All \subseteq Procs
      BY DEF StopCounted, Local
    <3> QED BY <3>4, <3>5
  <2>8. nproc_stopped' = Cardinality(StopCounted')
    BY <2>2, <2>4, <2>6, <2>7
  <2>9. \A b \in Arbiters : \A x : In(a2s', b, x) /\ x.type = SD => x.nproc = Cardinality(Local(b))
    BY <2>2, <2>3 DEF ExactInv
  <2> QED BY <2>8, <2>9 DEF ExactInv
<1>6. CASE Spreads(a) \/ HandsOver(a) \/ Resumes(a)
  BY <1>6 DEF ExactInv, Spreads, HandsOver, Resumes
<1> QED BY <1>0, <1>3, <1>4, <1>5, <1>6, ServerKinds

(* An arbiter of an intact session answers for all of its processes.       *)
LEMMA ExactArbiter ==
  ASSUME ProtocolInv, NoProtocolPanic', Intact', ExactInv, Intact, started, NEW a \in Arbiters, ArbiterStep(a),
         UNCHANGED <<serverVars, procVars>>
  PROVE  ExactInv'
<1> DEFINE SD == "STOP_DONE"
<1>0. /\ TypeOK /\ PlaceInv /\ ListInv /\ EnrolInv /\ StopInv
      /\ s2a \in [Arbiters -> Seq(Message)] /\ a2s \in [Arbiters -> Seq(Message)]
      /\ UNCHANGED <<step, nproc_stopped>>
  BY DEF ProtocolInv, WriterInv, TypeInv, TypeOK, NetTypeOK, serverVars, writeVars
<1>1. \A b \in Arbiters : /\ StopAck(b)' <=> Has(a2s', b, SD)
                          /\ Stopping(b)' <=> Has(s2a', b, "STOP_ALL")
                          /\ Resuming(b)' <=> Has(s2a', b, "CONT_ALL")
  BY DEF StopAck, Stopping, Resuming, Has
<1>2. CASE ArbStopAll(a)
  <2>1. /\ s2a[a] # << >> /\ Head(s2a[a]).type = "STOP_ALL" /\ s2a' = Consume(s2a, a)
        /\ ~ArbPanic(a)
    <3>1. arbState'[a] # "panic"
      BY DEF NoProtocolPanic, Intact
    <3>2. arbState \in [Arbiters -> {"up", "closing", "exited", "panic"}]
      BY <1>0 DEF TypeOK, ArbiterTypeOK
    <3> QED BY <1>2, <3>1, <3>2 DEF ArbStopAll, FromServer, Waiting, ArbPanic
  <2>2. a2s' = SendAll(a2s, {a}, Done(SD, NLocal(a)))
    <3>1. a2s' = Send(a2s, a, Done(SD, NLocal(a)))
      BY <1>2, <2>1 DEF ArbStopAll
    <3> QED BY <1>0, <3>1, ArbiterSend
  <2>3. NLocal(a) = Cardinality(Local(a)) /\ NLocal(a) \in Nat
    BY <1>0, FullCount, IntactHas
  <2>4. PICK x : x = Done(SD, NLocal(a))
    OBVIOUS
  <2>5. x \in Message /\ x.type = SD /\ x.nproc = Cardinality(Local(a))
    BY <2>3, <2>4, MessageTypes DEF Done
  <2>s. a2s' = SendAll(a2s, {a}, x)
    BY <2>2, <2>4
  <2>6. \A b \in Arbiters : \A m : In(a2s', b, m) <=> In(a2s, b, m) \/ (b = a /\ m = x)
    BY <1>0, <2>5, <2>s, SendAllIn
  <2>7. \A b \in Arbiters : StopAck(b)' <=> StopAck(b) \/ b = a
    <3>1. \A b \in Arbiters : Has(a2s', b, SD) <=> Has(a2s, b, SD) \/ b = a
      <4>1. \A b \in Arbiters : Has(SendAll(a2s, {a}, x), b, SD) <=> Has(a2s, b, SD) \/ (b \in {a} /\ x.type = SD)
        BY <1>0, <2>5, SendAllHas
      <4> QED BY <2>5, <2>s, <4>1
    <3> QED BY <1>1, <3>1 DEF StopAck
  <2>8. Stopping(a)
    BY <1>0, <2>1, ConsumeHas DEF Stopping
  <2>9. \A b \in Arbiters : b # a => (Stopping(b)' <=> Stopping(b)) /\ (Resuming(b)' <=> Resuming(b))
    <3>1. \A b \in Arbiters : b # a => s2a'[b] = s2a[b]
      BY <1>0, <2>1 DEF Consume
    <3> QED BY <1>1, <3>1 DEF Stopping, Resuming, Has
  <2>10. \A b \in Arbiters : Stopping(b)' \/ StopAck(b)' \/ Resuming(b)' <=> Stopping(b) \/ StopAck(b) \/ Resuming(b)
    BY <2>7, <2>8, <2>9
  <2>11. \A b \in Arbiters : \A m : In(a2s', b, m) /\ m.type = SD =>
                       In(a2s, b, m) \/ m.nproc = Cardinality(Local(b))
    BY <2>5, <2>6
  <2> QED BY <1>0, <2>10, <2>11, ExactKept
<1>3. CASE ~ArbStopAll(a)
  <2>1. Same(a2s, a2s', Arbiters, SD)
    <3>1. PICK S : \E x \in Message : x.type # SD /\ a2s' = SendAll(a2s, S, x)
      BY <1>0, <1>3, ArbiterQuiet
    <3>2. PICK x \in Message : x.type # SD /\ a2s' = SendAll(a2s, S, x)
      BY <3>1
    <3> QED BY <1>0, <3>2, SendSame
  <2>2. ASSUME step = "WAITING_STOP_ACK", NEW b \in Arbiters
        PROVE  Stopping(b)' \/ StopAck(b)' \/ Resuming(b)' <=> Stopping(b) \/ StopAck(b) \/ Resuming(b)
    <3>1. StopAck(b)' <=> StopAck(b)
      BY <1>1, <2>1 DEF Same, StopAck
    <3>2. Resuming(b) => Stopping(b)
      BY <1>0, <2>2, IntactHas DEF StopInv, StopLink
    <3>3. (Stopping(b)' <=> Stopping(b)) /\ (Resuming(b)' => Resuming(b))
      <4>1. CASE UNCHANGED s2a
        BY <4>1 DEF Stopping, Resuming, Has
      <4>2. CASE s2a[a] # << >> /\ Head(s2a[a]).type # "STOP_ALL" /\ s2a' = Consume(s2a, a)
        <5>1. Steady(s2a, s2a')
          BY <1>0, <4>2, SteadyConsume
        <5> QED BY <1>1, <5>1 DEF Steady, Stopping, Resuming
      <4> QED BY <1>0, <1>3, <4>1, <4>2, ArbiterQuiet
    <3> QED BY <3>1, <3>2, <3>3
  <2>3. \A b \in Arbiters : \A m : In(a2s', b, m) /\ m.type = SD => In(a2s, b, m)
    BY <2>1 DEF Same
  <2> QED BY <1>0, <2>2, <2>3, ExactKept
<1> QED BY <1>2, <1>3

-----------------------------------------------------------------------------
LEMMA ExactStep ==
  ASSUME ProtocolInv, ProtocolInv', ExactInv, [Next]_vars
  PROVE  ExactInv'
<1> SUFFICES ASSUME started', Intact', step' = "WAITING_STOP_ACK" PROVE ExactInv'
  BY DEF ExactInv
<1>0. TypeInv /\ TypeOK /\ StepMatchesQueue /\ StopInv /\ NoProtocolPanic'
  BY DEF ProtocolInv, WriterInv, TypeInv
<1>1. Intact
  BY <1>0, WasIntact
<1>2. ASSUME UNCHANGED <<started, step, nproc_stopped, a2s, s2a>> PROVE ExactInv'
  <2>1. \A b \in Arbiters : /\ StopAck(b)' <=> StopAck(b)
                            /\ Stopping(b)' <=> Stopping(b)
                            /\ Resuming(b)' <=> Resuming(b)
    BY <1>2 DEF StopAck, Stopping, Resuming, Has
  <2>2. \A b \in Arbiters : \A m : In(a2s', b, m) => In(a2s, b, m)
    BY <1>2
  <2> QED BY <1>1, <1>2, <2>1, <2>2, ExactKept
<1>3. ASSUME NEW a \in Arbiters, ServerStep(a), UNCHANGED <<arbVars, procVars, p2a, a2p, signals, mem>>
      PROVE  ExactInv'
  <2>1. CASE started
    BY <1>1, <1>3, <2>1, ExactServer
  <2>2. CASE ~started
    <3>1. step = "READY" /\ UNCHANGED step
      BY <1>0, <1>3, <2>2, IdleStart DEF StopInv
    <3> QED BY <3>1
  <2> QED BY <2>1, <2>2
<1>4. ASSUME NEW a \in Arbiters, ArbiterStep(a), UNCHANGED <<serverVars, procVars>>
      PROVE  ExactInv'
  <2>1. started
    BY <1>4 DEF serverVars
  <2> QED BY <1>0, <1>1, <1>4, <2>1, ExactArbiter
<1>5. ASSUME NEW p \in Procs, ProcessStep(p) \/ ProcKilled(p), UNCHANGED <<serverVars, arbVars, a2s, s2a>>
      PROVE  ExactInv'
  BY <1>2, <1>5 DEF serverVars, writeVars
<1>6. ASSUME NEW p \in Procs, ProcessLosesArbiter(p) PROVE ExactInv'
  BY <1>2, <1>6 DEF ProcessLosesArbiter, serverVars, writeVars, netVars, channels
<1>7. CASE Breaks
  BY <1>2, <1>7 DEF Breaks, writeVars, netVars, channels
<1> QED BY <1>0, <1>3, <1>4, <1>5, <1>6, <1>7, StepKinds

LEMMA ExactInit == Init => ExactInv
BY DEF Init, ServerInit, ExactInv

-----------------------------------------------------------------------------
(***************************************************************************)
(* Barriers.  A process is open when it announced itself at a barrier that *)
(* was not released yet.  Its level is the number of barriers that it has  *)
(* passed, and the level of all processes is the same.                     *)
(***************************************************************************)
Open(q)  == (ptab[q].is_waiting /\ ~Has(s2a, Home[q], "WAIT_DONE")) \/ Has(p2a, q, "WAIT_BARR")
Level(q) == IF Open(q) THEN rounds[q] - 1 ELSE rounds[q]
LevelInv == /\ ~started => \A q \in Procs : rounds[q] = 0
            /\ started /\ Intact => \A p, q \in Procs : Level(p) = Level(q)

(* What a process of an intact session is doing.                           *)
LEMMA IntactPosition ==
  ASSUME ProtocolInv, ExactInv, Intact, started, NEW q \in Procs
  PROVE  /\ ~arbStarted[Home[q]] =>
              /\ Has(s2a, Home[q], "WAIT_DONE") /\ loc[q] \in {"connect", "recv_gid", "recv_waitDone"}
              /\ ptab[q].used /\ p2a[q] = << >> /\ ~ptab[q].is_stopped
         /\ arbStarted[Home[q]] =>
              /\ Serving(Home[q]) /\ Position(q)
              /\ ~Halted(Home[q]) /\ ptab[q].is_stopped => ptab[q].is_queued
              /\ Has(s2a, Home[q], "WAIT_DONE") => ptab[q].is_waiting
<1>0. /\ TypeOK /\ StartInv /\ JoinInv /\ CountInv /\ Settled
  BY IntactIsWhole DEF ProtocolInv, WriterInv, TypeInv, RegistrationInv
<1>1. Home[q] \in Arbiters /\ arbState[Home[q]] = "up"
  BY HomeAssumption, IntactHas
<1>2. ASSUME ~arbStarted[Home[q]]
      PROVE  /\ Has(s2a, Home[q], "WAIT_DONE") /\ loc[q] \in {"connect", "recv_gid", "recv_waitDone"}
             /\ ptab[q].used /\ p2a[q] = << >> /\ ~ptab[q].is_stopped
  <2>1. p2a[q] = << >> /\ ptab[q].used /\ ~ptab[q].is_stopped /\ loc[q] \in {"recv_gid", "recv_waitDone", "killed", "panic"}
    BY <1>0, <1>2, FirstRelease
  <2> QED BY <1>0, <1>1, <1>2, <2>1, IntactHas DEF StartInv
<1>3. ASSUME arbStarted[Home[q]]
      PROVE  /\ Serving(Home[q]) /\ Position(q)
             /\ ~Halted(Home[q]) /\ ptab[q].is_stopped => ptab[q].is_queued
             /\ Has(s2a, Home[q], "WAIT_DONE") => ptab[q].is_waiting
  BY <1>0, <1>1, <1>3 DEF Settled, PosInv, BarrierInv, Serving
<1> QED BY <1>2, <1>3

(* A process at an open barrier cannot run.                                *)
LEMMA OpenIsParked ==
  ASSUME ProtocolInv, ExactInv, Intact, started, NEW q \in Procs
  PROVE  /\ Open(q) => arbStarted[Home[q]] /\ Parked(q, "barrier") /\ ~ptab[q].is_queued
         /\ Has(p2a, q, "WAIT_BARR") => Arrives(q)
<1>1. CASE ~arbStarted[Home[q]]
  BY <1>1, IntactPosition DEF Open, Has
<1>2. CASE arbStarted[Home[q]]
  <2>1. Position(q) /\ TypeOK
    BY <1>2, IntactPosition DEF ProtocolInv, WriterInv, TypeInv
  <2>2. Has(p2a, q, "WAIT_BARR") => Arrives(q)
    BY <2>1, HasArrived
  <2>3. ptab[q].is_waiting => Waits(q)
    BY <2>1 DEF Position, Flags, Idling, Asks, Queued, Wrote, Arrives, Leaves, Away
  <2> QED BY <1>2, <2>2, <2>3 DEF Open, Arrives, Waits, Flags
<1> QED BY <1>1, <1>2

-----------------------------------------------------------------------------
(* Nothing that the level depends on changes.                              *)
LEMMA LevelKept ==
  ASSUME LevelInv, Intact, started, started',
         \A q \in Procs : (Open(q)' <=> Open(q)) /\ rounds'[q] = rounds[q]
  PROVE  LevelInv'
BY DEF LevelInv, Level

(* At a release everyone waits, and the release is on its way to nobody.   *)
LEMMA Released ==
  ASSUME TypeOK, BarrierInv, NEW a \in Arbiters, a2s[a] # << >>, Head(a2s[a]).type = "WAIT_BARR",
         a2s' = Consume(a2s, a), AllAtBarrier
  PROVE  \A q \in Procs : ptab[q].is_waiting /\ ~Has(s2a, Home[q], "WAIT_DONE")
<1>0. a2s \in [Arbiters -> Seq(Message)] /\ nproc_waiting \in Nat
  BY DEF TypeOK, NetTypeOK, ServerTypeOK
<1>1. IsFiniteSet(Announced) /\ nproc_waiting + Cardinality(Announced) <= Cardinality(AtBarrier)
  BY DEF BarrierInv
<1>2. /\ IsFiniteSet(Announced') /\ Cardinality(Announced') \in Nat
      /\ Cardinality(Announced') + 1 <= Cardinality(Announced) /\ Cardinality(Announced) \in Nat
  BY <1>0, <1>1, AnnounceTake, FS_CardinalityType
<1>3. IsFiniteSet(AtBarrier) /\ Cardinality(AtBarrier) \in Nat /\ Cardinality(AtBarrier) <= NProc
      /\ (Cardinality(AtBarrier) = NProc => AtBarrier = Procs)
  <2>1. AtBarrier \subseteq Procs
    BY DEF AtBarrier
  <2> QED BY <2>1, ProcsAssumption, FS_Subset, FS_CardinalityType DEF NProc
<1>4. nproc_waiting + 1 >= NProc /\ NProc \in Nat
  BY NProcType DEF AllAtBarrier
<1>5. Cardinality(AtBarrier) = NProc
  BY <1>0, <1>1, <1>2, <1>3, <1>4
<1> QED BY <1>3, <1>5 DEF AtBarrier

(* The server's release closes the barrier of everyone at once.            *)
LEMMA LevelServer ==
  ASSUME ProtocolInv, ExactInv, LevelInv, Intact, started, started', NEW a \in Arbiters, ServerStep(a),
         UNCHANGED <<arbVars, procVars, p2a, a2p, signals, mem>>
  PROVE  LevelInv'
<1>0. /\ TypeOK /\ Settled /\ s2a \in [Arbiters -> Seq(Message)] /\ rounds \in [Procs -> Nat]
      /\ UNCHANGED <<ptab, p2a, rounds>>
  BY IntactIsWhole DEF ProtocolInv, WriterInv, TypeInv, TypeOK, NetTypeOK, ProcessTypeOK, arbVars, procVars
<1>1. \A q \in Procs : Open(q)' <=> \/ ptab[q].is_waiting /\ ~Has(s2a', Home[q], "WAIT_DONE")
                                    \/ Has(p2a, q, "WAIT_BARR")
  BY <1>0 DEF Open, Has
<1>2. \A q \in Procs : Home[q] \in Arbiters
  BY HomeAssumption
<1>3. CASE Same(s2a, s2a', Arbiters, "WAIT_DONE")
  <2>1. \A q \in Procs : Open(q)' <=> Open(q)
    BY <1>1, <1>2, <1>3 DEF Same, Open
  <2> QED BY <1>0, <2>1, LevelKept
<1>4. CASE /\ a2s[a] # << >> /\ Head(a2s[a]).type = "WAIT_BARR" /\ a2s' = Consume(a2s, a)
           /\ AllAtBarrier /\ s2a' = SendAll(s2a, conns, Simple("WAIT_DONE"))
  <2>1. \A q \in Procs : ptab[q].is_waiting /\ ~Has(s2a, Home[q], "WAIT_DONE")
    BY <1>0, <1>4, Released DEF Settled
  <2>2. \A q \in Procs : Has(s2a', Home[q], "WAIT_DONE")
    <3>1. PICK x : x = Simple("WAIT_DONE")
      OBVIOUS
    <3>2. x \in Message /\ x.type = "WAIT_DONE"
      BY <3>1, MessageTypes DEF Simple, SimpleTypes
    <3>3. \A b \in Arbiters : b \in conns => Has(SendAll(s2a, conns, x), b, "WAIT_DONE")
      BY <1>0, <3>2, SendAllHas
    <3> QED BY <1>2, <1>4, <3>1, <3>3, IntactHas
  <2>3. \A q \in Procs : ~Has(p2a, q, "WAIT_BARR")
    <3> SUFFICES ASSUME NEW q \in Procs, Has(p2a, q, "WAIT_BARR") PROVE FALSE
      OBVIOUS
    <3>1. Arrives(q)
      BY OpenIsParked
    <3> QED BY <2>1, <3>1 DEF Arrives, Flags
  <2>4. \A q \in Procs : Open(q) /\ ~Open(q)'
    BY <1>1, <2>1, <2>2, <2>3 DEF Open
  <2>5. \A p, q \in Procs : Level(p)' = Level(q)'
    <3>1. \A q \in Procs : Level(q) = rounds[q] - 1 /\ Level(q)' = rounds[q] /\ rounds[q] \in Nat
      BY <1>0, <2>4 DEF Level
    <3> SUFFICES ASSUME NEW p \in Procs, NEW q \in Procs PROVE Level(p)' = Level(q)'
      OBVIOUS
    <3>2. rounds[p] - 1 = rounds[q] - 1
      BY <3>1 DEF LevelInv
    <3> QED BY <3>1, <3>2
  <2> QED BY <2>5 DEF LevelInv
<1>5. ASSUME NEW S, NEW x \in Message, x.type # "WAIT_DONE", s2a' = SendAll(s2a, S, x)
      PROVE  Same(s2a, s2a', Arbiters, "WAIT_DONE")
  BY <1>0, <1>5, SendSame
<1>6. UNCHANGED s2a => Same(s2a, s2a', Arbiters, "WAIT_DONE")
  BY SameChannel
<1> QED BY <1>0, <1>3, <1>4, <1>5, <1>6, BarrierKinds

(* An arbiter passes announcements and releases on, and so opens or closes *)
(* nobody's barrier.                                                       *)
LEMMA LevelArbiter ==
  ASSUME ProtocolInv, ExactInv, LevelInv, Intact, NoProtocolPanic', Intact', started, NEW a \in Arbiters,
         ArbiterStep(a), UNCHANGED <<serverVars, procVars>>
  PROVE  LevelInv'
<1>0. /\ TypeOK /\ PlaceInv /\ Settled /\ JoinInv /\ ChainInv /\ UNCHANGED <<rounds, started>>
      /\ s2a \in [Arbiters -> Seq(Message)] /\ p2a \in [Procs -> Seq(Message)]
  BY IntactIsWhole DEF ProtocolInv, WriterInv, RegistrationInv, TypeInv, TypeOK, NetTypeOK, procVars, serverVars
<1>1. \A q \in Procs : Open(q)' <=> \/ ptab'[q].is_waiting /\ ~Has(s2a', Home[q], "WAIT_DONE")
                                    \/ Has(p2a', q, "WAIT_BARR")
  BY DEF Open, Has
<1>2. \A q \in Procs : Home[q] \in Arbiters
  BY HomeAssumption
<1> SUFFICES ASSUME NEW q \in Procs PROVE Open(q)' <=> Open(q)
  BY <1>0, LevelKept
<1>3. CASE Home[q] # a
  <2>1. ptab'[q] = ptab[q] /\ p2a'[q] = p2a[q] /\ s2a'[Home[q]] = s2a[Home[q]]
    BY <1>0, <1>2, <1>3, ArbiterIsLocal DEF SameProcess, SameMachine
  <2> QED BY <1>1, <2>1 DEF Open, Has
<1>4. ASSUME Home[q] = a, NEW p \in Procs, FromProcessStep(a, p) PROVE Open(q)' <=> Open(q)
  <2>1. p2a[p] # << >> /\ p2a' = Consume(p2a, p) /\ UNCHANGED s2a /\ \A r \in Procs : r # p => ptab'[r] = ptab[r]
    BY <1>0, <1>4, TableRead
  <2>2. CASE p # q
    <3>1. ptab'[q] = ptab[q] /\ p2a'[q] = p2a[q]
      BY <1>0, <2>1, <2>2 DEF Consume
    <3> QED BY <1>1, <2>1, <3>1 DEF Open, Has
  <2>3. CASE p = q /\ Head(p2a[q]).type # "WAIT_BARR" /\ ptab'[q].is_waiting = ptab[q].is_waiting
    <3>1. Has(p2a', q, "WAIT_BARR") <=> Has(p2a, q, "WAIT_BARR")
      BY <1>0, <2>1, <2>3, ConsumeSame DEF Same
    <3> QED BY <1>1, <2>1, <2>3, <3>1 DEF Open
  <2>4. CASE p = q /\ Head(p2a[q]).type = "WAIT_BARR" /\ ptab'[q].is_waiting
    <3>1. Has(p2a, q, "WAIT_BARR")
      BY <1>0, <2>1, <2>4, ConsumeHas
    <3>2. Open(q)
      BY <3>1 DEF Open
    <3>3. Arrives(q) /\ arbStarted[Home[q]]
      BY <3>1, <3>2, OpenIsParked
    <3>4. ~ptab[q].is_waiting
      BY <3>3 DEF Arrives, Flags
    <3>5. ~Has(s2a, Home[q], "WAIT_DONE")
      BY <3>3, <3>4, IntactPosition
    <3> QED BY <1>1, <2>1, <2>4, <3>2, <3>5
  <2>5. Head(p2a[q]).type = "PRGM_DONE" => p # q
    <3>1. Head(p2a[q]).type = "PRGM_DONE" /\ p = q => Has(p2a, q, "PRGM_DONE")
      BY <1>0, <2>1, ConsumeHas
    <3>2. Has(p2a, q, "PRGM_DONE") => loc[q] \in Left
      BY <1>0 DEF ChainInv, Left
    <3> QED BY <3>1, <3>2, IntactHas
  <2>6. Head(p2a[q]).type = "ADD_PROC" => p # q
    <3>1. ~arbStarted[Home[q]] => p2a[q] = << >>
      BY IntactPosition
    <3>2. Position(q) => p2a[q] = << >> \/ Head(p2a[q]).type # "ADD_PROC"
      BY DEF Position, Idling, Asks, Queued, Wrote, Arrives, Waits, Leaves, Away, Only
    <3> QED BY <2>1, <3>1, <3>2, IntactPosition
  <2> QED BY <1>0, <1>4, <2>1, <2>2, <2>3, <2>4, <2>5, <2>6, TableRead
<1>5. CASE Home[q] = a /\ FromServerStep(a)
  <2>1. arbState'[a] = "up"
    <3>1. arbState[a] = "up" /\ arbState'[a] # "panic"
      BY IntactHas DEF NoProtocolPanic, Intact
    <3>2. UNCHANGED arbState \/ ArbPanic(a)
      BY <1>5 DEF FromServerStep, ArbSetGid, ArbStopAll, ArbContAll, ArbWaitDone, ArbWriteOkay, ArbApplySync
    <3> QED BY <1>0, <3>1, <3>2 DEF ArbPanic, TypeOK, ArbiterTypeOK
  <2>2. s2a[a] # << >> /\ s2a' = Consume(s2a, a) /\ UNCHANGED p2a
    BY <1>0, <1>5, TableServed
  <2>3. CASE Head(s2a[a]).type # "WAIT_DONE" /\ ptab'[q].is_waiting = ptab[q].is_waiting
    <3>1. Has(s2a', Home[q], "WAIT_DONE") <=> Has(s2a, Home[q], "WAIT_DONE")
      BY <1>0, <1>2, <2>2, <2>3, ConsumeSame DEF Same
    <3> QED BY <1>1, <2>2, <2>3, <3>1 DEF Open
  <2>4. CASE Head(s2a[a]).type = "WAIT_DONE" /\ (ptab'[q].is_waiting <=> ptab[q].is_waiting /\ q \notin Table(a))
    <3>1. Has(s2a, a, "WAIT_DONE")
      BY <1>0, <2>2, <2>4, ConsumeHas
    <3>2. q \in Table(a)
      BY <1>5, IntactHas DEF Table, Local
    <3> QED BY <1>1, <1>5, <2>2, <2>4, <3>1, <3>2 DEF Open
  <2> QED BY <1>0, <1>5, <2>1, <2>2, <2>3, <2>4, TableServed DEF SameFlags
<1>6. CASE Home[q] = a /\ ~FromServerStep(a) /\ ~\E p \in Procs : FromProcessStep(a, p)
  <2>1. UNCHANGED <<p2a, s2a, ptab>>
    BY <1>0, <1>6, TableRest
  <2> QED BY <1>1, <2>1 DEF Open
<1> QED BY <1>3, <1>4, <1>5, <1>6

(* A process opens its barrier as it counts it.                            *)
LEMMA LevelProcess ==
  ASSUME ProtocolInv, ExactInv, LevelInv, Intact, started, NEW p \in Procs, ProcessStep(p) \/ ProcKilled(p),
         UNCHANGED <<serverVars, arbVars, a2s, s2a>>
  PROVE  LevelInv'
<1>0. /\ TypeInv /\ TypeOK /\ UNCHANGED <<started, ptab, s2a>>
      /\ p2a \in [Procs -> Seq(Message)] /\ rounds \in [Procs -> Nat]
  BY DEF ProtocolInv, WriterInv, TypeInv, TypeOK, NetTypeOK, ProcessTypeOK, arbVars, serverVars
<1>1. \A q \in Procs : Open(q)' <=> (ptab[q].is_waiting /\ ~Has(s2a, Home[q], "WAIT_DONE")) \/ Has(p2a', q, "WAIT_BARR")
  BY <1>0 DEF Open, Has
<1>2. /\ \A q \in Procs : q # p => loc'[q] = loc[q] /\ SameProcess(q)
      /\ Says(p) \/ Hears(p) \/ Shifts(p) \/ Halts(p) \/ Delivers(p)
  BY <1>0, ProcessMoves
<1>3. \A q \in Procs : q # p => (Open(q)' <=> Open(q))
  <2>1. \A q \in Procs : q # p => (Has(p2a', q, "WAIT_BARR") <=> Has(p2a, q, "WAIT_BARR"))
    BY <1>2 DEF SameProcess, Has
  <2> QED BY <1>1, <2>1 DEF Open
<1>4. CASE ProcBarrier(p)
  <2>1. loc[p] = "user" /\ ~susp[p] /\ p2a' = Send(p2a, p, Simple("WAIT_BARR")) /\ rounds' = [rounds EXCEPT ![p] = @ + 1]
    BY <1>4 DEF ProcBarrier, Calls, SendToArbiter
  <2>2. ~Open(p)
    BY <2>1, OpenIsParked DEF Parked
  <2>3. Open(p)'
    <3>1. Simple("WAIT_BARR") \in Message /\ Simple("WAIT_BARR").type = "WAIT_BARR"
      BY MessageTypes DEF Simple, SimpleTypes
    <3>2. p2a'[p] = Append(p2a[p], Simple("WAIT_BARR"))
      BY <1>0, <2>1 DEF Send
    <3>3. Has(p2a', p, "WAIT_BARR")
      <4>1. Len(p2a'[p]) = Len(p2a[p]) + 1 /\ p2a'[p][Len(p2a[p]) + 1] = Simple("WAIT_BARR")
            /\ Len(p2a[p]) + 1 \in DOMAIN p2a'[p]
        BY <1>0, <3>1, <3>2
      <4> QED BY <3>1, <4>1 DEF Has
    <3> QED BY <1>1, <3>3
  <2>4. \A q \in Procs : Level(q)' = Level(q)
    <3>1. \A q \in Procs : q # p => Level(q)' = Level(q)
      BY <1>0, <1>3, <2>1 DEF Level
    <3>2. Level(p)' = rounds'[p] - 1 /\ Level(p) = rounds[p]
      BY <2>2, <2>3 DEF Level
    <3>3. rounds'[p] = rounds[p] + 1 /\ rounds[p] \in Nat
      BY <1>0, <2>1
    <3>4. Level(p)' = Level(p)
      BY <3>2, <3>3
    <3> QED BY <3>1, <3>4
  <2> QED BY <1>0, <2>4 DEF LevelInv
<1>5. CASE ~ProcBarrier(p)
  <2>1. UNCHANGED rounds /\ (loc[p] = "user" => loc'[p] # "barrier")
    <3>1. ~ProcBarrier(p)
      BY <1>5
    <3>2. loc \in [Procs -> Locations]
      BY <1>0 DEF TypeOK, ProcessTypeOK
    <3> QED BY <3>1, <3>2 DEF ProcessStep, ProcKilled, ProcConnect, ProcRecvGid, ProcRecvWaitDone, ProcRequest, ProcGranted,
             ProcStore, ProcSigill, ProcSelfStop, ProcExit, ProcReap, DeliverTstp, Goto, procVars, Receive, Calls
  <2>2. Has(p2a', p, "WAIT_BARR") <=> Has(p2a, p, "WAIT_BARR")
    <3>1. CASE p2a'[p] = p2a[p]
      BY <3>1 DEF Has
    <3>2. ASSUME NEW m \in Message, m.type # "WAIT_BARR", p2a'[p] = Append(p2a[p], m)
          PROVE  Has(p2a', p, "WAIT_BARR") <=> Has(p2a, p, "WAIT_BARR")
      <4>1. /\ DOMAIN p2a'[p] = DOMAIN p2a[p] \cup {Len(p2a[p]) + 1} /\ p2a'[p][Len(p2a[p]) + 1] = m
            /\ \A i \in DOMAIN p2a[p] : p2a'[p][i] = p2a[p][i]
        BY <1>0, <3>2
      <4> QED BY <3>2, <4>1 DEF Has
    <3>3. Says(p) => \E m \in Message : m.type # "WAIT_BARR" /\ p2a'[p] = Append(p2a[p], m)
      BY <2>1 DEF Says, Talks
    <3> QED BY <1>2, <3>1, <3>2, <3>3 DEF Hears, Shifts, Halts, Delivers
  <2>3. Open(p)' <=> Open(p)
    BY <1>1, <2>2 DEF Open
  <2> QED BY <1>0, <1>3, <2>1, <2>3, LevelKept
<1> QED BY <1>4, <1>5

-----------------------------------------------------------------------------
(* The step that starts the session: nobody has come to a barrier.         *)
LEMMA LevelBegins ==
  ASSUME ProtocolInv, ProtocolInv', LevelInv, ~started, started', NEW a \in Arbiters, ServerStep(a),
         UNCHANGED <<arbVars, procVars, p2a, a2p, signals, mem>>
  PROVE  LevelInv'
<1>0. /\ StartInv /\ StartInv' /\ UNCHANGED <<arbStarted, rounds>> /\ \A q \in Procs : Home[q] \in Arbiters
  BY HomeAssumption DEF ProtocolInv, WriterInv, arbVars, procVars
<1>1. \A q \in Procs : ~Open(q)'
  <2> TAKE q \in Procs
  <2>1. ~arbStarted'[Home[q]]
    BY <1>0 DEF StartInv
  <2>2. Has(s2a', Home[q], "WAIT_DONE")
    BY <1>0, <2>1 DEF StartInv, Has
  <2>3. Starting(q)'
    BY <1>0, <2>1 DEF StartInv
  <2>4. ~Has(p2a', q, "WAIT_BARR")
    BY <2>3 DEF Starting, Has
  <2> QED BY <2>2, <2>4 DEF Open, Has
<1>2. \A q \in Procs : Level(q)' = 0
  BY <1>0, <1>1 DEF Level, LevelInv
<1> QED BY <1>2 DEF LevelInv

LEMMA LevelStep ==
  ASSUME ProtocolInv, ProtocolInv', ExactInv, LevelInv, [Next]_vars
  PROVE  LevelInv'
<1>0. /\ TypeInv /\ TypeOK /\ StartInv /\ StopInv /\ NoProtocolPanic' /\ \A q \in Procs : Home[q] \in Arbiters
  BY HomeAssumption DEF ProtocolInv, WriterInv, TypeInv
<1>1. started' /\ Intact' => Intact
  BY <1>0, WasIntact
<1>2. ASSUME UNCHANGED <<started, ptab, s2a, p2a, rounds>> PROVE LevelInv'
  <2>1. \A q \in Procs : Open(q)' <=> Open(q)
    BY <1>2 DEF Open, Has
  <2>2. started /\ Intact => LevelInv'
    BY <1>2, <2>1, LevelKept
  <2> QED BY <1>1, <1>2, <2>2 DEF LevelInv
<1>3. ASSUME NEW a \in Arbiters, ServerStep(a), UNCHANGED <<arbVars, procVars, p2a, a2p, signals, mem>>
      PROVE  LevelInv'
  <2>1. CASE started /\ Intact'
    <3>1. started'
      BY <1>0, <1>3, <2>1, ServerOrders
    <3> QED BY <1>1, <1>3, <2>1, <3>1, LevelServer
  <2>2. CASE ~started /\ started'
    BY <1>3, <2>2, LevelBegins
  <2>3. CASE ~started' \/ ~Intact'
    <3>1. started => started'
      BY <1>0, <1>3, ServerOrders
    <3> QED BY <1>3, <2>2, <2>3, <3>1 DEF LevelInv, procVars
  <2> QED BY <2>1, <2>2, <2>3
<1>4. ASSUME NEW a \in Arbiters, ArbiterStep(a), UNCHANGED <<serverVars, procVars>>
      PROVE  LevelInv'
  <2>1. UNCHANGED <<started, rounds>>
    BY <1>4 DEF serverVars, procVars
  <2>2. CASE started /\ Intact'
    BY <1>0, <1>1, <1>4, <2>1, <2>2, LevelArbiter
  <2>3. CASE ~started \/ ~Intact'
    BY <2>1, <2>3 DEF LevelInv
  <2> QED BY <2>2, <2>3
<1>5. ASSUME NEW p \in Procs, ProcessStep(p) \/ ProcKilled(p), UNCHANGED <<serverVars, arbVars, a2s, s2a>>
      PROVE  LevelInv'
  <2>1. UNCHANGED started
    BY <1>5 DEF serverVars
  <2>2. CASE started /\ Intact'
    BY <1>1, <1>5, <2>1, <2>2, LevelProcess
  <2>3. CASE started /\ ~Intact'
    BY <2>1, <2>3 DEF LevelInv
  <2>4. CASE ~started
    <3>1. loc[p] # "user"
      BY <1>0, <2>4 DEF StartInv, Starting
    <3>2. UNCHANGED rounds
      BY <1>5, <3>1 DEF ProcessStep, ProcKilled, ProcConnect, ProcRecvGid, ProcRecvWaitDone, ProcRequest, ProcGranted,
             ProcStore, ProcSigill, ProcBarrier, ProcSelfStop, ProcExit, ProcReap, DeliverTstp, procVars, Calls
    <3> QED BY <2>1, <2>4, <3>2 DEF LevelInv
  <2> QED BY <2>2, <2>3, <2>4
<1>6. ASSUME NEW p \in Procs, ProcessLosesArbiter(p) PROVE LevelInv'
  BY <1>2, <1>6 DEF ProcessLosesArbiter, serverVars, arbVars, netVars, channels
<1>7. CASE Breaks
  BY <1>2, <1>7 DEF Breaks, procVars, netVars, channels
<1> QED BY <1>0, <1>3, <1>4, <1>5, <1>6, <1>7, StepKinds

LEMMA LevelInit == Init => LevelInv
BY DEF Init, ServerInit, ProcessInit, LevelInv

(* Equal levels are what a barrier promises: who runs user code is not     *)
(* open, so it is as far as its level, and nobody is behind its level.     *)
LEMMA BarrierFollows ==
  ASSUME ProtocolInv, ExactInv, LevelInv, gone = {}
  PROVE  BarrierHolds
<1> SUFFICES ASSUME Intact, NEW p \in Procs, NEW q \in Procs, InUser(p) PROVE rounds[p] <= rounds[q]
  BY DEF BarrierHolds, Intact
<1>1. rounds \in [Procs -> Nat]
  BY DEF ProtocolInv, WriterInv, TypeInv, TypeOK, ProcessTypeOK
<1>2. CASE ~started
  BY <1>2 DEF LevelInv
<1>3. CASE started
  <2>1. ~Open(p)
    BY <1>3, OpenIsParked DEF InUser, Parked
  <2>2. Level(p) = rounds[p] /\ Level(q) \in {rounds[q], rounds[q] - 1}
    BY <2>1 DEF Level
  <2>3. Level(p) = Level(q)
    BY <1>3 DEF LevelInv
  <2>4. rounds[p] \in Nat /\ rounds[q] \in Nat
    BY <1>1
  <2> QED BY <2>2, <2>3, <2>4
<1> QED BY <1>2, <1>3

(* Until a process is killed, no process is back in user code from a       *)
(* barrier that another has not reached, whatever writes and resumptions   *)
(* there are in between.                                                   *)
THEOREM BarriersHold == Spec => [](gone = {} => BarrierHolds)
<1>1. Init => ExactInv /\ LevelInv
  BY ExactInit, LevelInit
<1>2. ProtocolInv /\ ProtocolInv' /\ ExactInv /\ LevelInv /\ [Next]_vars => ExactInv' /\ LevelInv'
  BY ExactStep, LevelStep
<1>3. ProtocolInv /\ ExactInv /\ LevelInv => (gone = {} => BarrierHolds)
  BY BarrierFollows
<1> QED BY <1>1, <1>2, <1>3, ProtocolInvariant, PTL DEF Spec

-----------------------------------------------------------------------------
(***************************************************************************)
(* Releases and rounds.  As long as a write is asked for or being spread,  *)
(* some process is not at the barrier: the one that asks, or the one that  *)
(* wrote.  So no barrier is released in the middle of a round, and who is  *)
(* at the barrier has been resumed when the release arrives.               *)
(***************************************************************************)
Resting(p) == ~ptab[p].is_waiting /\ p2a[p] = << >> /\ Parked(p, "dropAccess")
RestInv    == Intact => \A a \in Arbiters : Served(a) => \E p \in Procs : Home[p] = a /\ Resting(p)

LEMMA RestArbiter ==
  ASSUME ProtocolInv, ExactInv, RestInv, Intact, NEW a \in Arbiters, ArbiterStep(a), UNCHANGED <<serverVars, procVars>>
  PROVE  RestInv'
<1>0. /\ TypeOK /\ PlaceInv /\ GrantInv /\ StopInv /\ StartInv /\ SettledInv /\ AskInv
      /\ p2a \in [Procs -> Seq(Message)]
  BY DEF ProtocolInv, WriterInv, TypeInv, TypeOK, NetTypeOK
<1> SUFFICES ASSUME NEW b \in Arbiters, Served(b)'
             PROVE  \E p \in Procs : Home[p] = b /\ Resting(p)'
  BY DEF RestInv
<1>1. ASSUME Served(b), NEW p \in Procs, Home[p] = b, Resting(p) PROVE Resting(p)'
  <2>1. Parked(p, "dropAccess")'
    BY <1>0, <1>1, ParkedKept DEF Resting
  <2>2. ~ptab'[p].is_waiting /\ p2a'[p] = << >>
    <3>1. CASE FromServerStep(a)
      <4>1. UNCHANGED p2a /\ (ptab'[p].is_waiting => ptab[p].is_waiting)
        BY <1>0, <3>1, TableServed DEF SameFlags
      <4> QED BY <1>1, <4>1 DEF Resting
    <3>2. ASSUME NEW q \in Procs, FromProcessStep(a, q) PROVE ~ptab'[p].is_waiting /\ p2a'[p] = << >>
      <4>1. p2a[q] # << >> /\ p2a' = Consume(p2a, q) /\ \A r \in Procs : r # q => ptab'[r] = ptab[r]
        BY <1>0, <3>2, TableRead
      <4>2. p # q
        BY <1>1, <4>1 DEF Resting
      <4> QED BY <1>0, <1>1, <4>1, <4>2 DEF Resting, Consume
    <3>3. CASE ~FromServerStep(a) /\ ~\E q \in Procs : FromProcessStep(a, q)
      BY <1>0, <1>1, <3>3, TableRest DEF Resting
    <3> QED BY <3>1, <3>2, <3>3
  <2> QED BY <2>1, <2>2 DEF Resting
<1>2. ASSUME b = a, NEW p \in Procs, ArbForwardSync(a, p)
      PROVE  Home[p] = b /\ Resting(p)'
  <2>1. Parked(p, "dropAccess")' /\ Home[p] = a
    BY <1>0, <1>2, ForwardParks
  <2>2. /\ p2a[p] # << >> /\ Head(p2a[p]).type = "SYNC_INFO" /\ p2a' = Consume(p2a, p)
        /\ ptab'[p].is_waiting = ptab[p].is_waiting
    <3>1. Head(p2a[p]).type = "SYNC_INFO" /\ FromProcessStep(a, p)
      BY <1>2 DEF ArbForwardSync, FromProcess, Waiting, FromProcessStep
    <3> QED BY <1>0, <3>1, TableRead
  <2>3. 1 \in DOMAIN p2a[p] /\ p2a[p][1].type = "SYNC_INFO"
    BY <1>0, <2>2
  <2>4. started /\ arbStarted[Home[p]]
    BY <1>0, <2>1, <2>3 DEF StartInv, Starting
  <2>5. Position(p)
    BY <2>4, IntactPosition
  <2>6. Wrote(p)
    BY <2>2, <2>5 DEF Position, Idling, Asks, Queued, Wrote, Arrives, Waits, Leaves, Away, Only
  <2> QED BY <1>0, <1>2, <2>1, <2>2, <2>6 DEF Wrote, Only, Flags, Resting, Consume
<1>3. CASE Served(b)
  <2>1. PICK p \in Procs : Home[p] = b /\ Resting(p)
    BY <1>3 DEF RestInv
  <2> QED BY <1>1, <1>3, <2>1
<1> QED BY <1>0, <1>2, <1>3, ServedArbiter

LEMMA RestStep ==
  ASSUME ProtocolInv, ExactInv, RestInv, [Next]_vars
  PROVE  RestInv'
<1>0. /\ TypeInv /\ TypeOK /\ StepMatchesQueue /\ GrantInv /\ StartInv /\ StopInv /\ LineInv
  BY DEF ProtocolInv, WriterInv, TypeInv
<1> SUFFICES ASSUME Intact' PROVE RestInv'
  BY DEF RestInv
<1>1. Intact
  BY <1>0, WasIntact
<1>2. ASSUME UNCHANGED <<step, opqueue, a2s, ptab, p2a, susp, loc>> PROVE RestInv'
  <2>1. \A b \in Arbiters : Served(b)' <=> Served(b)
    BY <1>2 DEF Served, Returned, Has
  <2>2. \A p \in Procs : Resting(p) => Resting(p)'
    BY <1>2 DEF Resting, Parked
  <2> QED BY <1>1, <2>1, <2>2 DEF RestInv
<1>3. ASSUME NEW a \in Arbiters, ServerStep(a), UNCHANGED <<arbVars, procVars, p2a, a2p, signals, mem>>
      PROVE  RestInv'
  <2>1. \A b \in Arbiters : Served(b)' => Served(b)
    BY <1>0, <1>3, ServedServer
  <2>2. \A p \in Procs : Resting(p) => Resting(p)'
    BY <1>3 DEF Resting, Parked, arbVars, procVars, signals
  <2> QED BY <1>1, <2>1, <2>2 DEF RestInv
<1>4. ASSUME NEW a \in Arbiters, ArbiterStep(a), UNCHANGED <<serverVars, procVars>> PROVE RestInv'
  BY <1>1, <1>4, RestArbiter
<1>5. ASSUME NEW p \in Procs, ProcessStep(p) \/ ProcKilled(p), UNCHANGED <<serverVars, arbVars, a2s, s2a>>
      PROVE  RestInv'
  <2>1. UNCHANGED <<step, opqueue, a2s, ptab>>
    BY <1>5 DEF serverVars, writeVars, arbVars
  <2>2. \A b \in Arbiters : Served(b)' <=> Served(b)
    BY <2>1 DEF Served, Returned, Has
  <2>3. \A q \in Procs : Parked(q, "dropAccess") => Parked(q, "dropAccess")' /\ p2a'[q] = p2a[q]
    BY <1>0, <1>5, ParkedMoves
  <2>4. \A q \in Procs : Resting(q) => Resting(q)'
    BY <2>1, <2>3 DEF Resting
  <2> QED BY <1>1, <2>2, <2>4 DEF RestInv
<1>6. ASSUME NEW p \in Procs, ProcessLosesArbiter(p) PROVE RestInv'
  <2>1. /\ UNCHANGED <<step, opqueue, a2s, susp, ptab, p2a>> /\ \A q \in Procs : q # p => loc'[q] = loc[q]
        /\ ~Parked(p, "dropAccess")
    BY <1>0, <1>6 DEF ProcessLosesArbiter, Goto, Parked, serverVars, arbVars, writeVars, netVars, channels, signals,
                      TypeOK, ProcessTypeOK
  <2>2. \A b \in Arbiters : Served(b)' <=> Served(b)
    BY <2>1 DEF Served, Returned, Has
  <2>3. \A q \in Procs : Resting(q) => Resting(q)'
    BY <2>1 DEF Resting, Parked
  <2> QED BY <1>1, <2>2, <2>3 DEF RestInv
<1>7. CASE Breaks
  BY <1>2, <1>7 DEF Breaks, writeVars, procVars, netVars, channels, signals
<1> QED BY <1>0, <1>3, <1>4, <1>5, <1>6, <1>7, StepKinds

LEMMA RestInit == Init => RestInv
BY DEF Init, NetInit, ServerInit, RestInv, Served, Returned, Has

(* In the middle of a round somebody is not at the barrier.                *)
LEMMA MidRound ==
  ASSUME ProtocolInv, ExactInv, RestInv, Intact, started, step # "READY"
  PROVE  \E p \in Procs : ~ptab[p].is_waiting
<1>0. /\ TypeOK /\ PlaceInv /\ StepMatchesQueue /\ AskInv /\ LineInv /\ EnrolInv /\ EndInv /\ CountInv /\ StartInv /\ Settled
  BY IntactIsWhole DEF ProtocolInv, WriterInv, RegistrationInv, TypeInv
<1>1. PICK a \in Arbiters : opqueue # << >> /\ Head(opqueue) = a
  BY <1>0 DEF StepMatchesQueue, TypeOK, ServerTypeOK
<1>2. CASE Served(a)
  BY <1>2 DEF RestInv, Resting
<1>3. CASE ~Served(a)
  <2>1. arbQueue[a] # << >>
    <3>1. NoOf(opqueue, a) + NoIn(a2s, a, Request) = Len(arbQueue[a])
      BY <1>0, <1>3 DEF LineInv, LineAt
    <3> QED BY <1>0, <1>1, <3>1, LineTypes
  <2>2. PICK q \in Procs : q = Head(arbQueue[a]) /\ Home[q] = a
    BY <1>0, <2>1, QueuedLive
  <2>3. arbStarted[a]
    BY <1>0, <2>1 DEF StartInv
  <2>4. Serving(a) /\ Position(q)
    BY <2>2, <2>3, IntactPosition
  <2>5. ptab[q].is_queued
    <3>1. 1 \in DOMAIN arbQueue[a] /\ arbQueue[a][1] = q
      BY <1>0, <2>1, <2>2 DEF TypeOK, ArbiterTypeOK
    <3> QED BY <1>0, <2>4, <3>1 DEF Settled, QueueInv
  <2> QED BY <2>4, <2>5 DEF Position, Idling, Asks, Queued, Wrote, Arrives, Waits, Leaves, Away, Flags
<1> QED BY <1>2, <1>3

-----------------------------------------------------------------------------
(***************************************************************************)
(* What stands in the stream of an arbiter around a release: nothing that  *)
(* resumes behind it, no freeze before it, and in the middle of a round a  *)
(* freeze behind it.                                                       *)
(***************************************************************************)
Streamed(a) == NoneBehind(s2a[a], "WAIT_DONE", "CONT_ALL") /\ NoneBehind(s2a[a], "STOP_ALL", "WAIT_DONE")
ReleaseAt(a) == Streamed(a) /\ (Has(s2a, a, "WAIT_DONE") /\ step # "READY" => Stopping(a))
ReleaseInv == started /\ Intact => \A a \in Arbiters : ReleaseAt(a)

(* What is sent to an arbiter keeps the order of its stream.               *)
LEMMA StreamSend ==
  ASSUME s2a \in [Arbiters -> Seq(Message)], NEW a \in Arbiters, Streamed(a), NEW x \in Message,
         s2a'[a] = Append(s2a[a], x),
         x.type = "CONT_ALL" => ~Has(s2a, a, "WAIT_DONE"),
         x.type = "WAIT_DONE" => ~Stopping(a)
  PROVE  Streamed(a)'
<1>1. s2a[a] \in Seq(Message)
  OBVIOUS
<1>2. NoneBehind(Append(s2a[a], x), "WAIT_DONE", "CONT_ALL")
  <2>1. x.type = "CONT_ALL" => \A i \in DOMAIN s2a[a] : s2a[a][i].type # "WAIT_DONE"
    BY DEF Has
  <2> QED BY <1>1, <2>1, OrderAppend DEF Streamed
<1>3. NoneBehind(Append(s2a[a], x), "STOP_ALL", "WAIT_DONE")
  <2>1. x.type = "WAIT_DONE" => \A i \in DOMAIN s2a[a] : s2a[a][i].type # "STOP_ALL"
    BY DEF Stopping, Has
  <2> QED BY <1>1, <2>1, OrderAppend DEF Streamed
<1> QED BY <1>2, <1>3 DEF Streamed

LEMMA SameAppend ==
  ASSUME NEW s \in Seq(Message), NEW x \in Message, NEW y \in Message
  PROVE  /\ Append(s, x) = Append(s, y) => x = y
         /\ Append(s, x) # s
<1>1. /\ Append(s, x)[Len(s) + 1] = x /\ Append(s, y)[Len(s) + 1] = y
      /\ Len(Append(s, x)) = Len(s) + 1 /\ Len(s) \in Nat
  OBVIOUS
<1> QED BY <1>1

(* The server releases a barrier between two rounds, and resumes at the    *)
(* end of a round, when no release is on its way.                          *)
LEMMA ReleaseServer ==
  ASSUME ProtocolInv, ExactInv, RestInv, ReleaseInv, Intact, started, NEW a \in Arbiters, ServerStep(a),
         UNCHANGED <<arbVars, procVars, p2a, a2p, signals, mem>>
  PROVE  ReleaseInv'
<1>0. /\ TypeOK /\ StepMatchesQueue /\ StopInv /\ Settled /\ s2a \in [Arbiters -> Seq(Message)]
  BY IntactIsWhole DEF ProtocolInv, WriterInv, TypeInv, TypeOK, NetTypeOK
<1>1. \A b \in Arbiters : ReleaseAt(b) /\ b \in conns /\ (Stopping(b) => step = "WAITING_STOP_ACK")
  BY <1>0, IntactHas DEF ReleaseInv, StopInv, StopLink
<1>2. \A b \in Arbiters : Stopping(b)' <=> Has(s2a', b, "STOP_ALL")
  BY DEF Stopping, Has
<1> SUFFICES ASSUME NEW b \in Arbiters PROVE ReleaseAt(b)'
  BY DEF ReleaseInv
<1>3. CASE /\ a2s[a] # << >> /\ Head(a2s[a]).type = "WAIT_BARR" /\ a2s' = Consume(a2s, a)
           /\ AllAtBarrier /\ s2a' = SendAll(s2a, conns, Simple("WAIT_DONE"))
  <2>1. \A q \in Procs : ptab[q].is_waiting
    BY <1>0, <1>3, Released DEF Settled
  <2>2. step = "READY"
    BY <2>1, MidRound
  <2>3. step' = "READY"
    <3>1. Rests(a)
      BY <1>0, <1>3, <2>2, ServerKinds DEF Freezes, Counts, Spreads, HandsOver, Resumes, Ends, Takes
    <3> QED BY <2>2, <3>1 DEF Rests
  <2>4. PICK x \in Message : x = Simple("WAIT_DONE") /\ x.type = "WAIT_DONE"
    BY MessageTypes DEF Simple, SimpleTypes
  <2>5. s2a'[b] = Append(s2a[b], x)
    BY <1>0, <1>1, <1>3, <2>4 DEF SendAll
  <2>6. Streamed(b)'
    BY <1>0, <1>1, <2>2, <2>4, <2>5, StreamSend DEF ReleaseAt
  <2> QED BY <2>3, <2>6 DEF ReleaseAt
<1>4. ASSUME NEW S, NEW x \in Message, x.type # "WAIT_DONE", s2a' = SendAll(s2a, S, x)
      PROVE  ReleaseAt(b)'
  <2>1. s2a'[b] = s2a[b] \/ s2a'[b] = Append(s2a[b], x)
    BY <1>0, <1>4 DEF SendAll
  <2>2. /\ Has(s2a', b, "WAIT_DONE") => Has(s2a, b, "WAIT_DONE")
        /\ Stopping(b) => Stopping(b)'
    <3>1. \A t : Has(SendAll(s2a, S, x), b, t) <=> Has(s2a, b, t) \/ (b \in S /\ x.type = t)
      BY <1>0, SendAllHas
    <3> QED BY <1>2, <1>4, <3>1 DEF Stopping
  <2>3. s2a'[b] = s2a[b] => Streamed(b)'
    BY <1>1 DEF ReleaseAt, Streamed
  <2>4. ASSUME NEW t, t # "CONT_ALL", \E T : Puts(T, t) PROVE Streamed(b)'
    <3>1. PICK T : Puts(T, t)
      BY <2>4
    <3>2. CASE s2a'[b] = s2a[b]
      BY <2>3, <3>2
    <3>3. ASSUME NEW y \in Message, y.type = t, s2a'[b] = Append(s2a[b], y) PROVE Streamed(b)'
      <4>1. s2a[b] \in Seq(Message)
        BY <1>0
      <4>2. s2a'[b] # s2a[b]
        BY <3>3, <4>1, SameAppend
      <4>3. x = y
        BY <2>1, <3>3, <4>1, <4>2, SameAppend
      <4> QED BY <1>0, <1>1, <1>4, <2>4, <3>3, <4>3, StreamSend DEF ReleaseAt
    <3> QED BY <1>0, <3>1, <3>2, <3>3, PutsKept
  <2>5. CASE Rests(a)
    <3>1. PICK T : \E t : t \notin Orders /\ Puts(T, t)
      BY <2>5 DEF Rests
    <3>2. PICK t : t \notin Orders /\ Puts(T, t)
      BY <3>1
    <3>3. Streamed(b)'
      BY <2>4, <3>2 DEF Orders
    <3> QED BY <1>1, <2>2, <2>5, <3>3 DEF Rests, ReleaseAt, Has
  <2>6. CASE Freezes(a)
    <3>1. Puts(conns, "STOP_ALL")
      BY <2>6 DEF Freezes
    <3>2. Streamed(b)'
      BY <2>4, <3>1
    <3>3. Stopping(b)'
      BY <1>0, <1>1, <1>2, <3>1, PutsHas
    <3> QED BY <3>2, <3>3 DEF ReleaseAt
  <2>7. CASE Counts(a) \/ Spreads(a) \/ HandsOver(a)
    <3>1. step # "READY"
      BY <2>7 DEF Counts, Spreads, HandsOver, Ends
    <3>2. Streamed(b)'
      <4>1. UNCHANGED s2a \/ \E T : Puts(T, "WRITE_OKAY") \/ Puts(T, "SYNC_INFO")
        BY <2>7 DEF Counts, Spreads, HandsOver
      <4>2. \A T : Puts(T, "WRITE_OKAY") => Streamed(b)'
        BY <2>4
      <4>3. \A T : Puts(T, "SYNC_INFO") => Streamed(b)'
        BY <2>4
      <4> QED BY <2>3, <4>1, <4>2, <4>3
    <3> QED BY <1>1, <2>2, <3>1, <3>2 DEF ReleaseAt, Has
  <2>8. CASE Resumes(a)
    <3>1. step \in FrozenSteps /\ step' = "READY"
      BY <2>8 DEF Resumes, Ends, FrozenSteps
    <3>2. ~Has(s2a, b, "WAIT_DONE")
      BY <1>1, <3>1 DEF ReleaseAt, FrozenSteps
    <3>3. Streamed(b)'
      BY <1>0, <1>1, <1>4, <2>1, <2>3, <3>2, StreamSend DEF ReleaseAt
    <3> QED BY <3>1, <3>3 DEF ReleaseAt
  <2> QED BY <1>0, <2>5, <2>6, <2>7, <2>8, ServerKinds
<1>5. UNCHANGED s2a => \E x \in Message : x.type # "WAIT_DONE" /\ s2a' = SendAll(s2a, {}, x)
  <2>1. Simple("STOP_ALL") \in Message /\ Simple("STOP_ALL").type = "STOP_ALL"
    BY MessageTypes DEF Simple, SimpleTypes
  <2>2. s2a = SendAll(s2a, {}, Simple("STOP_ALL"))
    BY <1>0 DEF SendAll
  <2> QED BY <2>1, <2>2
<1> QED BY <1>0, <1>3, <1>4, <1>5, BarrierKinds

(* An arbiter takes the freeze behind a release after the release.         *)
LEMMA ReleaseArbiter ==
  ASSUME ProtocolInv, ReleaseInv, Intact, started, NEW a \in Arbiters, ArbiterStep(a), UNCHANGED <<serverVars, procVars>>
  PROVE  ReleaseInv'
<1>0. /\ TypeOK /\ PlaceInv /\ s2a \in [Arbiters -> Seq(Message)] /\ UNCHANGED step
  BY DEF ProtocolInv, WriterInv, TypeInv, TypeOK, NetTypeOK, serverVars, writeVars
<1> SUFFICES ASSUME NEW b \in Arbiters PROVE ReleaseAt(b)'
  BY DEF ReleaseInv
<1>1. ReleaseAt(b)
  BY DEF ReleaseInv
<1>2. CASE s2a'[b] = s2a[b]
  BY <1>0, <1>1, <1>2 DEF ReleaseAt, Streamed, Has, Stopping
<1>3. CASE b = a /\ s2a[a] # << >> /\ s2a' = Consume(s2a, a)
  <2>1. s2a'[a] = Tail(s2a[a]) /\ s2a[a] \in Seq(Message)
    BY <1>0, <1>3 DEF Consume
  <2>2. Streamed(a)'
    <3>1. NoneBehind(Tail(s2a[a]), "WAIT_DONE", "CONT_ALL") /\ NoneBehind(Tail(s2a[a]), "STOP_ALL", "WAIT_DONE")
      BY <1>1, <1>3, <2>1, OrderTail DEF ReleaseAt, Streamed
    <3> QED BY <2>1, <3>1 DEF Streamed
  <2>3. Has(s2a', a, "WAIT_DONE") => Has(s2a, a, "WAIT_DONE")
    BY <1>0, <1>3, ConsumeHas
  <2>4. CASE Head(s2a[a]).type = "STOP_ALL"
    <3>1. \A j \in DOMAIN s2a[a] : s2a[a][j].type # "WAIT_DONE"
      BY <1>1, <1>3, <2>1, <2>4, FirstHasNone DEF ReleaseAt, Streamed
    <3>2. ~Has(s2a, a, "WAIT_DONE")
      BY <3>1 DEF Has
    <3> QED BY <1>3, <2>2, <2>3, <3>2 DEF ReleaseAt, Has
  <2>5. CASE Head(s2a[a]).type # "STOP_ALL"
    <3>1. Has(s2a', a, "STOP_ALL") <=> Has(s2a, a, "STOP_ALL")
      BY <1>0, <1>3, <2>5, ConsumeSame DEF Same
    <3>2. Stopping(a)' <=> Has(s2a', a, "STOP_ALL")
      BY DEF Stopping, Has
    <3>3. Has(s2a, a, "WAIT_DONE")' <=> Has(s2a', a, "WAIT_DONE")
      BY DEF Has
    <3> QED BY <1>0, <1>1, <1>3, <2>2, <2>3, <3>1, <3>2, <3>3 DEF ReleaseAt, Stopping
  <2> QED BY <2>4, <2>5
<1>4. CASE b # a
  <2>1. s2a'[b] = s2a[b]
    BY <1>0, <1>4, ArbiterIsLocal DEF SameMachine
  <2> QED BY <1>2, <2>1
<1>5. FromServerStep(a) => s2a[a] # << >> /\ s2a' = Consume(s2a, a)
  BY <1>0, TableServed
<1>6. ~FromServerStep(a) => UNCHANGED s2a
  <2>1. (\E p \in Procs : FromProcessStep(a, p)) => UNCHANGED s2a
    BY <1>0, TableRead
  <2>2. ~FromServerStep(a) /\ ~(\E p \in Procs : FromProcessStep(a, p)) => UNCHANGED s2a
    BY <1>0, TableRest
  <2> QED BY <2>1, <2>2
<1> QED BY <1>2, <1>3, <1>4, <1>5, <1>6

(* The step that starts the session: no freeze was ever sent.              *)
LEMMA ReleaseBegins ==
  ASSUME TypeOK, ChainInv, StartInv, StopInv, ~started, started', NEW a \in Arbiters, ServerStep(a)
  PROVE  ReleaseInv'
<1>1. \A b \in Arbiters : ~Has(s2a, b, "CONT_ALL") /\ ~Has(s2a, b, "STOP_ALL")
  <2> TAKE b \in Arbiters
  <2>1. Preceded(s2a[b], Orders, {"WAIT_DONE"}) /\ ~Has(s2a, b, "WAIT_DONE")
    BY DEF StartInv, ChainInv
  <2>2. "CONT_ALL" \in Orders /\ "STOP_ALL" \in Orders
    BY DEF Orders
  <2> QED BY <2>1, <2>2 DEF Preceded, Has
<1>2. step = "READY" /\ UNCHANGED step /\ Steady(s2a, s2a')
  BY IdleStart DEF StopInv
<1>3. \A b \in Arbiters : ~Has(s2a', b, "CONT_ALL") /\ ~Has(s2a', b, "STOP_ALL")
  BY <1>1, <1>2 DEF Steady
<1>4. \A b \in Arbiters : ReleaseAt(b)'
  BY <1>2, <1>3 DEF ReleaseAt, Streamed, NoneBehind, Has
<1> QED BY <1>4 DEF ReleaseInv

LEMMA ReleaseStep ==
  ASSUME ProtocolInv, ExactInv, RestInv, ReleaseInv, [Next]_vars
  PROVE  ReleaseInv'
<1>0. TypeInv /\ TypeOK /\ StopInv /\ StartInv /\ ChainInv
  BY DEF ProtocolInv, WriterInv, TypeInv, RegistrationInv
<1> SUFFICES ASSUME started', Intact' PROVE ReleaseInv'
  BY DEF ReleaseInv
<1>1. Intact
  BY <1>0, WasIntact
<1>2. ASSUME UNCHANGED <<started, step, s2a>> PROVE ReleaseInv'
  BY <1>1, <1>2 DEF ReleaseInv, ReleaseAt, Streamed, Has, Stopping
<1>3. ASSUME NEW a \in Arbiters, ServerStep(a), UNCHANGED <<arbVars, procVars, p2a, a2p, signals, mem>>
      PROVE  ReleaseInv'
  BY <1>0, <1>1, <1>3, ReleaseServer, ReleaseBegins
<1>4. ASSUME NEW a \in Arbiters, ArbiterStep(a), UNCHANGED <<serverVars, procVars>> PROVE ReleaseInv'
  <2>1. started
    BY <1>4 DEF serverVars
  <2> QED BY <1>1, <1>4, <2>1, ReleaseArbiter
<1>5. ASSUME NEW p \in Procs, ProcessStep(p) \/ ProcKilled(p), UNCHANGED <<serverVars, arbVars, a2s, s2a>>
      PROVE  ReleaseInv'
  BY <1>2, <1>5 DEF serverVars, writeVars
<1>6. ASSUME NEW p \in Procs, ProcessLosesArbiter(p) PROVE ReleaseInv'
  BY <1>2, <1>6 DEF ProcessLosesArbiter, serverVars, writeVars, netVars, channels
<1>7. CASE Breaks
  BY <1>2, <1>7 DEF Breaks, writeVars, netVars, channels
<1> QED BY <1>0, <1>3, <1>4, <1>5, <1>6, <1>7, StepKinds

LEMMA ReleaseInit == Init => ReleaseInv
BY DEF Init, ServerInit, ReleaseInv

(* Who is still stopped when a release arrives is neither at the barrier   *)
(* nor frozen: so there is nobody.                                         *)
LEMMA ReleaseFollows ==
  ASSUME ProtocolInv, ExactInv, ReleaseInv, Intact
  PROVE  NobodyStoppedAtRelease
<1> SUFFICES ASSUME NEW a \in Arbiters, Waiting(s2a, a, "WAIT_DONE"), NEW p \in Table(a), ptab[p].is_stopped
             PROVE  FALSE
  BY DEF NobodyStoppedAtRelease
<1>0. /\ TypeOK /\ StartInv /\ s2a \in [Arbiters -> Seq(Message)] /\ p \in Procs /\ Home[p] = a
  BY DEF ProtocolInv, WriterInv, TypeInv, TypeOK, NetTypeOK, Table, Local
<1>1. started /\ arbStarted[a]
  <2>1. arbStarted[a]
    BY <1>0 DEF StartInv, Starting
  <2> QED BY <1>0, <2>1 DEF StartInv
<1>2. s2a[a] # << >> /\ Head(s2a[a]).type = "WAIT_DONE" /\ Has(s2a, a, "WAIT_DONE")
  <2>1. s2a[a] # << >> /\ Head(s2a[a]).type = "WAIT_DONE"
    BY DEF Waiting
  <2> QED BY <1>0, <2>1, ConsumeHas
<1>3. ReleaseAt(a)
  BY <1>1 DEF ReleaseInv
<1>4. ~Resuming(a)
  <2>1. \A j \in DOMAIN s2a[a] : s2a[a][j].type # "CONT_ALL"
    BY <1>0, <1>2, <1>3, FirstHasNone DEF ReleaseAt, Streamed
  <2> QED BY <2>1 DEF Resuming, Has
<1>5. ~Halted(a)
  BY <1>2, <1>3, <1>4 DEF ReleaseAt, Halted
<1>6. ptab[p].is_waiting /\ ptab[p].is_queued /\ Position(p)
  BY <1>0, <1>1, <1>2, <1>5, IntactPosition
<1> QED BY <1>6 DEF Position, Idling, Asks, Queued, Wrote, Arrives, Waits, Leaves, Away, Flags

(* The "shouldn't happen" of msg_waitDone does not happen: until a process *)
(* leaves or is killed, nobody is stopped when a release arrives.          *)
THEOREM ReleaseFindsNobodyStopped == Spec => [](Intact => NobodyStoppedAtRelease)
<1>1. Init => ExactInv /\ RestInv /\ ReleaseInv
  BY ExactInit, RestInit, ReleaseInit
<1>2. ProtocolInv /\ ProtocolInv' /\ ExactInv /\ RestInv /\ ReleaseInv /\ [Next]_vars => ExactInv' /\ RestInv' /\ ReleaseInv'
  BY ExactStep, RestStep, ReleaseStep
<1>3. ProtocolInv /\ ExactInv /\ ReleaseInv => (Intact => NobodyStoppedAtRelease)
  BY ReleaseFollows
<1> QED BY <1>1, <1>2, <1>3, ProtocolInvariant, PTL DEF Spec
=============================================================================
