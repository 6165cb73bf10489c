-------------------------- MODULE DsmSessionProofs --------------------------
(***************************************************************************)
(* Proofs about DsmSession, for any number of machines and processes, any  *)
(* placement of the processes and any programs they run.                   *)
(***************************************************************************)
EXTENDS DsmSession, FiniteSetTheorems, SequenceTheorems, TLAPS

-----------------------------------------------------------------------------
(* The number of processes is a number, and at least two (-nproc >= 2).    *)
LEMMA NProcType == NProc \in Nat /\ NProc >= 2
BY ProcsAssumption, FS_CardinalityType DEF NProc

(* The queues and channels are only appended to and taken from.            *)
LEMMA SeqTypes ==
  ASSUME NEW S
  PROVE  /\ << >> \in Seq(S)
         /\ \A s \in Seq(S), e \in S : Append(s, e) \in Seq(S) /\ Append(s, e) # << >>
         /\ \A s \in Seq(S) : s # << >> => Head(s) \in S /\ Tail(s) \in Seq(S)
<1>1. << >> \in Seq(S)
  BY EmptySeq
<1>2. ASSUME NEW s \in Seq(S), NEW e \in S
      PROVE  Append(s, e) \in Seq(S) /\ Append(s, e) # << >>
  BY AppendProperties
<1>3. ASSUME NEW s \in Seq(S), s # << >>
      PROVE  Head(s) \in S /\ Tail(s) \in Seq(S)
  BY <1>3, HeadTailProperties
<1> QED BY <1>1, <1>2, <1>3

(* Every message the programs construct is a message.                      *)
LEMMA MessageTypes ==
  /\ \A t \in SimpleTypes : Simple(t) \in Message
  /\ \A p \in Procs : AddProc(p) \in Message
  /\ \A p \in Procs, g \in Nat : SetGid(p, g) \in Message
  /\ \A o \in Offsets, v \in Values : SyncInfo(o, v) \in Message
  /\ \A t \in {"STOP_DONE", "SYNC_DONE"}, n \in Nat : Done(t, n) \in Message
BY DEF Message, Simple, AddProc, SetGid, SyncInfo, Done

(* What a message of each type carries.                                    *)
LEMMA PayloadTypes ==
  ASSUME NEW m \in Message
  PROVE  /\ m.type = "ADD_PROC" => m.pid \in Procs
         /\ m.type = "SET_GID" => m.pid \in Procs /\ m.gid \in Nat
         /\ m.type = "SYNC_INFO" => m.off \in Offsets /\ m.buf \in Values
         /\ m.type \in {"STOP_DONE", "SYNC_DONE"} => m.nproc \in Nat
BY DEF Message, SimpleTypes

(* Sending and receiving keep a family of channels a family of channels.   *)
LEMMA ChannelTypes ==
  ASSUME NEW K, NEW ch \in [K -> Seq(Message)], NEW k \in K
  PROVE  /\ \A m \in Message : Send(ch, k, m) \in [K -> Seq(Message)]
         /\ \A S, m : m \in Message => SendAll(ch, S, m) \in [K -> Seq(Message)]
         /\ ch[k] # << >> => Consume(ch, k) \in [K -> Seq(Message)]
         /\ ch[k] # << >> => Head(ch[k]) \in Message
<1>1. ASSUME NEW m \in Message PROVE Send(ch, k, m) \in [K -> Seq(Message)]
  BY <1>1 DEF Send
<1>2. ASSUME NEW S, NEW m \in Message PROVE SendAll(ch, S, m) \in [K -> Seq(Message)]
  BY <1>2 DEF SendAll
<1>3. ch[k] # << >> => Consume(ch, k) \in [K -> Seq(Message)]
  BY DEF Consume
<1>4. ch[k] # << >> => Head(ch[k]) \in Message
  OBVIOUS
<1> QED BY <1>1, <1>2, <1>3, <1>4

-----------------------------------------------------------------------------
(* A process that is handling a store has that store before it.            *)
StoreInv ==
  \A p \in Procs : loc[p] \in {"takeAccess", "store", "sigill"} =>
                     todo[p] # << >> /\ Head(todo[p]).op = "write"

TypeInv == TypeOK /\ StoreInv

LEMMA TypeInit == Init => TypeInv
<1> SUFFICES ASSUME Init PROVE TypeInv
  OBVIOUS
<1>1. ServerTypeOK
  BY SeqTypes DEF Init, ServerInit, ServerTypeOK, Steps
<1>2. ArbiterTypeOK
  BY DEF Init, ArbiterInit, ArbiterTypeOK, Entry, Unused, NoGid
<1>3. ProcessTypeOK
  <2>1. todo \in [Procs -> Seq(Op)]
    BY WorkloadsAssumption DEF Init, ProcessInit
  <2> QED BY <2>1 DEF Init, ProcessInit, ProcessTypeOK, Locations
<1>4. NetTypeOK
  BY DEF Init, NetInit, NetTypeOK, Values
<1>5. StoreInv
  BY DEF Init, ProcessInit, StoreInv
<1> QED BY <1>1, <1>2, <1>3, <1>4, <1>5 DEF TypeInv, TypeOK

(* The server's steps.                                                     *)
LEMMA SyncedTypes ==
  ASSUME ServerTypeOK, s2a \in [Arbiters -> Seq(Message)],
         NEW n \in Nat, Synced(n), AllSynced(n) => opqueue # << >>
  PROVE  /\ nproc_synced' \in Nat /\ step' \in Steps
         /\ opqueue' \in Seq(Arbiters) /\ s2a' \in [Arbiters -> Seq(Message)]
<1>1. CASE AllSynced(n)
  <2>1. Tail(opqueue) \in Seq(Arbiters)
    BY <1>1 DEF ServerTypeOK
  <2>2. Simple("CONT_ALL") \in Message /\ Simple("WRITE_OKAY") \in Message
    BY MessageTypes DEF SimpleTypes
  <2>3. SendAll(s2a, conns, Simple("CONT_ALL")) \in [Arbiters -> Seq(Message)]
    BY <2>2 DEF SendAll
  <2>4. CASE Tail(opqueue) = << >>
    <3>1. nproc_synced' = 0 /\ opqueue' = Tail(opqueue)
      BY <1>1 DEF Synced
    <3>2. s2a' = SendAll(s2a, conns, Simple("CONT_ALL"))
      BY <1>1, <2>4 DEF Synced
    <3>3. step' \in Steps
      BY <1>1 DEF Synced, StepAfter, Steps
    <3> QED BY <3>1, <3>2, <3>3, <2>1, <2>3
  <2>5. CASE Tail(opqueue) # << >>
    <3>1. Head(Tail(opqueue)) \in Arbiters
      BY <2>1, <2>5
    <3>2. Send(s2a, Head(Tail(opqueue)), Simple("WRITE_OKAY")) \in [Arbiters -> Seq(Message)]
      BY <3>1, <2>2, ChannelTypes
    <3>3. nproc_synced' = 0 /\ opqueue' = Tail(opqueue)
      BY <1>1 DEF Synced
    <3>4. s2a' = Send(s2a, Head(Tail(opqueue)), Simple("WRITE_OKAY"))
      BY <1>1, <2>5 DEF Synced
    <3>5. step' \in Steps
      BY <1>1 DEF Synced, StepAfter, Steps
    <3> QED BY <3>2, <3>3, <3>4, <3>5, <2>1
  <2> QED BY <2>4, <2>5
<1>2. CASE ~AllSynced(n)
  BY <1>2 DEF Synced, ServerTypeOK, Steps
<1> QED BY <1>1, <1>2

LEMMA ServerTypes ==
  ASSUME TypeOK, NEW a \in Arbiters, ServerStep(a)
  PROVE  /\ ServerTypeOK'
         /\ a2s' \in [Arbiters -> Seq(Message)] /\ s2a' \in [Arbiters -> Seq(Message)]
<1> DEFINE Chans == /\ a2s' \in [Arbiters -> Seq(Message)]
                    /\ s2a' \in [Arbiters -> Seq(Message)]
<1> SUFFICES ServerTypeOK' /\ Chans
  OBVIOUS
<1> USE DEF ServerTypeOK, writeVars
<1>0. /\ ServerTypeOK
      /\ a2s \in [Arbiters -> Seq(Message)] /\ s2a \in [Arbiters -> Seq(Message)]
  BY DEF TypeOK, NetTypeOK
<1>p. SrvPanic /\ a2s' \in [Arbiters -> Seq(Message)] => ServerTypeOK' /\ Chans
  BY <1>0 DEF SrvPanic
<1>r. ASSUME NEW t, SrvReceive(a, t)
      PROVE  /\ a2s' \in [Arbiters -> Seq(Message)]
             /\ Head(a2s[a]) \in Message /\ Head(a2s[a]).type = t
  BY <1>0, <1>r, ChannelTypes DEF SrvReceive, Waiting
<1>1. CASE SrvAccept(a)
  BY <1>0, <1>1 DEF SrvAccept
<1>2. CASE SrvAddProc(a)
  <2>1. CASE SrvPanic
    BY <1>2, <1>p, <1>r, <2>1 DEF SrvAddProc
  <2>2. CASE ~SrvPanic
    <3> DEFINE m == SetGid(Head(a2s[a]).pid, gid)
    <3>1. m \in Message
      BY <1>0, <1>2, <1>r, PayloadTypes, MessageTypes DEF SrvAddProc
    <3>2. Simple("WAIT_DONE") \in Message
      BY MessageTypes DEF SimpleTypes
    <3>3. Send(s2a, a, m) \in [Arbiters -> Seq(Message)]
      BY <1>0, <3>1, ChannelTypes
    <3>4. SendAll(Send(s2a, a, m), conns, Simple("WAIT_DONE")) \in [Arbiters -> Seq(Message)]
      BY <3>2, <3>3, ChannelTypes
    <3>5. s2a' \in [Arbiters -> Seq(Message)]
      BY <1>2, <2>2, <3>3, <3>4 DEF SrvAddProc
    <3>6. gid' = gid + 1 /\ nproc_waiting' \in {0, nproc_waiting + 1}
      BY <1>2, <2>2 DEF SrvAddProc, NextGid
    <3>7. started' \in BOOLEAN
      <4>1. started' = AllRegistered
        BY <1>2, <2>2 DEF SrvAddProc
      <4> QED BY <4>1 DEF AllRegistered
    <3>8. UNCHANGED <<srvState, writeVars, backlog, conns>>
      BY <1>2, <2>2 DEF SrvAddProc
    <3> QED BY <1>0, <1>2, <1>r, <3>5, <3>6, <3>7, <3>8 DEF SrvAddProc
  <2> QED BY <2>1, <2>2
<1>3. CASE SrvSyncRequest(a)
  <2>1. CASE SrvPanic
    BY <1>3, <1>p, <1>r, <2>1 DEF SrvSyncRequest
  <2>2. CASE ~SrvPanic
    <3>1. Simple("STOP_ALL") \in Message
      BY MessageTypes DEF SimpleTypes
    <3>2. SendAll(s2a, conns, Simple("STOP_ALL")) \in [Arbiters -> Seq(Message)]
      BY <1>0, <3>1, ChannelTypes
    <3>3. /\ opqueue' = Append(opqueue, a)
          /\ UNCHANGED <<srvState, started, gid, counters, backlog, conns>>
      BY <1>3, <2>2 DEF SrvSyncRequest
    <3>4. /\ step' \in {step, "WAITING_STOP_ACK"}
          /\ s2a' \in {s2a, SendAll(s2a, conns, Simple("STOP_ALL"))}
      BY <1>3, <2>2 DEF SrvSyncRequest
    <3>5. opqueue' \in Seq(Arbiters)
      BY <1>0, <3>3, SeqTypes
    <3> QED BY <1>0, <1>3, <1>r, <3>2, <3>3, <3>4, <3>5 DEF SrvSyncRequest, Steps, counters
  <2> QED BY <2>1, <2>2
<1>4. CASE SrvStopDone(a)
  <2>1. CASE SrvPanic
    BY <1>4, <1>p, <1>r, <2>1 DEF SrvStopDone
  <2>2. CASE ~SrvPanic
    <3>1. Head(a2s[a]).nproc \in Nat
      BY <1>4, <1>r, PayloadTypes DEF SrvStopDone
    <3>2. Simple("WRITE_OKAY") \in Message
      BY MessageTypes DEF SimpleTypes
    <3>a. opqueue # << >> => Head(opqueue) \in Arbiters
      BY <1>0, SeqTypes
    <3>3. opqueue # << >> => Send(s2a, Head(opqueue), Simple("WRITE_OKAY"))
                               \in [Arbiters -> Seq(Message)]
      BY <1>0, <3>2, <3>a, ChannelTypes
    <3>4. /\ step' \in {step, "WAITING_SYNC_INFO"}
          /\ nproc_stopped' \in {0, nproc_stopped + Head(a2s[a]).nproc}
          /\ UNCHANGED <<srvState, started, gid, nproc_waiting,
                         nproc_synced, opqueue, backlog, conns>>
      BY <1>4, <2>2 DEF SrvStopDone
    <3>5. s2a' = s2a \/ (opqueue # << >> /\ s2a' = Send(s2a, Head(opqueue), Simple("WRITE_OKAY")))
      BY <1>4, <2>2 DEF SrvStopDone
    <3>6. s2a' \in [Arbiters -> Seq(Message)]
      BY <1>0, <3>3, <3>5
    <3> QED BY <1>0, <1>4, <1>r, <3>1, <3>4, <3>6 DEF SrvStopDone, Steps
  <2> QED BY <2>1, <2>2
<1>5. CASE SrvSyncInfo(a)
  <2>1. CASE SrvPanic
    BY <1>5, <1>p, <1>r, <2>1 DEF SrvSyncInfo
  <2>2. CASE ~SrvPanic /\ Cardinality(conns) = 1
    <3>1. Synced(NProc) /\ opqueue # << >>
      BY <1>5, <2>2 DEF SrvSyncInfo, IsWriter
    <3>2. /\ nproc_synced' \in Nat /\ step' \in Steps
          /\ opqueue' \in Seq(Arbiters) /\ s2a' \in [Arbiters -> Seq(Message)]
      BY <1>0, <3>1, NProcType, SyncedTypes
    <3> QED BY <1>0, <1>5, <1>r, <2>2, <3>2 DEF SrvSyncInfo
  <2>3. CASE ~SrvPanic /\ Cardinality(conns) # 1
    <3>1. SendAll(s2a, conns, Head(a2s[a])) \in [Arbiters -> Seq(Message)]
      BY <1>0, <1>5, <1>r, ChannelTypes DEF SrvSyncInfo
    <3> QED BY <1>0, <1>5, <1>r, <2>3, <3>1 DEF SrvSyncInfo, Steps
  <2> QED BY <2>1, <2>2, <2>3
<1>6. CASE SrvSyncDone(a)
  <2>1. CASE SrvPanic
    BY <1>6, <1>p, <1>r, <2>1 DEF SrvSyncDone
  <2>2. CASE ~SrvPanic
    <3> DEFINE n == Head(a2s[a]).nproc
    <3>1. n \in Nat
      BY <1>6, <1>r, PayloadTypes DEF SrvSyncDone
    <3>2. Synced(n) /\ (AllSynced(n) => opqueue # << >>)
      BY <1>6, <2>2 DEF SrvSyncDone
    <3>3. /\ nproc_synced' \in Nat /\ step' \in Steps
          /\ opqueue' \in Seq(Arbiters) /\ s2a' \in [Arbiters -> Seq(Message)]
      BY <1>0, <3>1, <3>2, SyncedTypes
    <3> QED BY <1>0, <1>6, <1>r, <2>2, <3>3 DEF SrvSyncDone
  <2> QED BY <2>1, <2>2
<1>7. CASE SrvWaitBarr(a)
  <2>1. CASE SrvPanic
    BY <1>7, <1>p, <1>r, <2>1 DEF SrvWaitBarr
  <2>2. CASE ~SrvPanic
    <3>1. Simple("WAIT_DONE") \in Message
      BY MessageTypes DEF SimpleTypes
    <3>2. SendAll(s2a, conns, Simple("WAIT_DONE")) \in [Arbiters -> Seq(Message)]
      BY <1>0, <3>1, ChannelTypes
    <3>3. /\ s2a' = s2a \/ s2a' = SendAll(s2a, conns, Simple("WAIT_DONE"))
          /\ nproc_waiting' = 0 \/ nproc_waiting' = nproc_waiting + 1
          /\ UNCHANGED <<srvState, started, gid, writeVars, backlog, conns>>
      BY <1>7, <2>2 DEF SrvWaitBarr
    <3>4. a2s' \in [Arbiters -> Seq(Message)]
      BY <1>7, <1>r DEF SrvWaitBarr
    <3> QED BY <1>0, <3>2, <3>3, <3>4
  <2> QED BY <2>1, <2>2
<1>8. CASE SrvPrgmDone(a)
  <2>1. CASE SrvPanic
    BY <1>8, <1>p, <1>r, <2>1 DEF SrvPrgmDone
  <2>2. CASE ~SrvPanic
    BY <1>0, <1>8, <1>r, <2>2 DEF SrvPrgmDone
  <2> QED BY <2>1, <2>2
<1> QED BY <1>1, <1>2, <1>3, <1>4, <1>5, <1>6, <1>7, <1>8 DEF ServerStep

-----------------------------------------------------------------------------
(* What an arbiter's handlers do to the entries of the process table.      *)
LEMMA EntryTypes ==
  ASSUME NEW e \in Entry, NEW b \in BOOLEAN, NEW g \in Nat \cup {NoGid}
  PROVE  /\ [e EXCEPT !.is_stopped = b] \in Entry
         /\ [e EXCEPT !.is_waiting = b] \in Entry
         /\ [e EXCEPT !.is_queued = b] \in Entry
         /\ [e EXCEPT !.gid = g] \in Entry
         /\ [e EXCEPT !.used = b] \in Entry
         /\ Unused \in Entry
         /\ e.is_stopped \in BOOLEAN /\ e.is_waiting \in BOOLEAN
BY DEF Entry, Unused, NoGid

LEMMA TableTypes ==
  ASSUME ptab \in [Procs -> Entry], NEW p \in Procs, NEW e \in Entry
  PROVE  [ptab EXCEPT ![p] = e] \in [Procs -> Entry]
OBVIOUS

LEMMA ShuffledTypes ==
  ASSUME NEW S, NEW s \in Seq(S), NEW k
  PROVE  ShuffledDown(s, k) \in Seq(S)
<1> DEFINE e(i) == IF i < k THEN s[i] ELSE s[i + 1]
           n    == Len(s) - 1
<1>1. Len(s) \in Nat /\ \A i \in 1 .. Len(s) : s[i] \in S
  OBVIOUS
<1>2. CASE s = << >>
  <2>1. ShuffledDown(s, k) = << >>
    BY <1>2 DEF ShuffledDown
  <2> QED BY <2>1, SeqTypes
<1>3. CASE s # << >>
  <2>1. n \in Nat /\ \A i \in 1 .. n : e(i) \in S
    BY <1>1, <1>3
  <2>2. [i \in 1 .. n |-> e(i)] \in Seq(S)
    <3> HIDE DEF n, e
    <3> QED BY <2>1, IsASeq
  <2> QED BY <2>2 DEF ShuffledDown
<1> QED BY <1>2, <1>3

(* Signals keep their types whomever they are sent to.                     *)
LEMMA SignalTypes ==
  ASSUME susp \in [Procs -> BOOLEAN], tstp \in [Procs -> BOOLEAN], gone \subseteq Procs,
         \/ \E S : KillTstp(S) \/ KillCont(S)
         \/ UNCHANGED signals
  PROVE  /\ susp' \in [Procs -> BOOLEAN] /\ tstp' \in [Procs -> BOOLEAN]
         /\ gone' \subseteq Procs
BY DEF KillTstp, KillCont, signals

(* The arbiters' steps.                                                    *)
LEMMA FromProcessTypes ==
  ASSUME TypeOK, NEW a \in Arbiters, NEW p \in Procs, FromProcessStep(a, p)
  PROVE  ArbiterTypeOK' /\ NetTypeOK'
<1> USE DEF ArbiterTypeOK, NetTypeOK, signals
<1>0. ArbiterTypeOK /\ NetTypeOK
  BY DEF TypeOK
<1>r. ASSUME NEW t, FromProcess(a, p, t)
      PROVE  /\ p2a' \in [Procs -> Seq(Message)]
             /\ Head(p2a[p]) \in Message
  BY <1>0, <1>r, ChannelTypes DEF FromProcess, Waiting
<1>h. HasRead(a, p) => pass' \in [Arbiters -> SUBSET (Procs \cup {Server})]
  BY <1>0 DEF HasRead
<1>s. \A m \in Message : Send(a2s, a, m) \in [Arbiters -> Seq(Message)]
  BY <1>0, ChannelTypes
<1>t. ptab[p] \in Entry /\ arbQueue[a] \in Seq(Procs)
  BY <1>0
<1>p. ArbPanic(a) => arbState' \in [Arbiters -> {"up", "closing", "exited", "panic"}]
  BY <1>0 DEF ArbPanic
<1>1. CASE ArbAddProc(a, p)
  <2>0. p2a' \in [Procs -> Seq(Message)] /\ Head(p2a[p]) \in Message
    BY <1>1, <1>r DEF ArbAddProc
  <2>1. CASE ArbPanic(a)
    BY <1>0, <1>1, <1>p, <2>0, <2>1 DEF ArbAddProc, ArbPanic
  <2>2. CASE ~ArbPanic(a)
    <3> DEFINE e == [Unused EXCEPT !.used = TRUE, !.is_waiting = TRUE]
    <3>1. HasRead(a, p) /\ ptab' = [ptab EXCEPT ![p] = e]
      BY <1>1, <2>2 DEF ArbAddProc
    <3>2. a2s' = Send(a2s, a, Head(p2a[p]))
      BY <1>1, <2>2 DEF ArbAddProc
    <3>3. UNCHANGED <<arbState, arbStarted, fds, arbQueue, a2p, mem, s2a, signals>>
      BY <1>1, <2>2 DEF ArbAddProc
    <3>4. e \in Entry
      BY DEF Entry, Unused, NoGid
    <3>5. ptab' \in [Procs -> Entry]
      BY <1>0, <3>1, <3>4, TableTypes
    <3> HIDE DEF e
    <3> QED BY <1>0, <1>h, <1>s, <2>0, <3>1, <3>2, <3>3, <3>5
  <2> QED BY <2>1, <2>2
<1>2. CASE ArbSyncRequest(a, p)
  <2>0. p2a' \in [Procs -> Seq(Message)] /\ Simple("SYNC_REQ") \in Message
    BY <1>2, <1>r, MessageTypes DEF ArbSyncRequest, SimpleTypes
  <2>1. HasRead(a, p) /\ a2s' = Send(a2s, a, Simple("SYNC_REQ"))
    BY <1>2 DEF ArbSyncRequest
  <2>2. arbQueue' = [arbQueue EXCEPT ![a] = Append(@, p)]
    BY <1>2 DEF ArbSyncRequest, Enqueued
  <2>3. UNCHANGED <<arbState, arbStarted, fds, a2p, s2a, signals, mem>>
    BY <1>2 DEF ArbSyncRequest
  <2>4. Append(arbQueue[a], p) \in Seq(Procs)
    BY <1>t, SeqTypes
  <2>5. arbQueue' \in [Arbiters -> Seq(Procs)]
    BY <1>0, <2>2, <2>4
  <2>6. ptab' = [ptab EXCEPT ![p] = [[ptab[p] EXCEPT !.is_stopped = TRUE]
                                       EXCEPT !.is_queued = TRUE]]
    BY <1>0, <1>2 DEF ArbSyncRequest
  <2>7. ptab' \in [Procs -> Entry]
    BY <1>0, <1>t, <2>6, EntryTypes, TableTypes
  <2> QED BY <1>0, <1>h, <1>s, <2>0, <2>1, <2>3, <2>5, <2>7
<1>3. CASE ArbForwardSync(a, p)
  <2>0. p2a' \in [Procs -> Seq(Message)] /\ a2s' \in [Arbiters -> Seq(Message)]
    BY <1>3, <1>r, <1>s DEF ArbForwardSync
  <2>1. UNCHANGED <<arbStarted, fds, a2p, s2a, signals, mem>>
    BY <1>3 DEF ArbForwardSync
  <2>2. CASE arbQueue[a] = << >>
    <3>1. arbState' = [arbState EXCEPT ![a] = "panic"] /\ UNCHANGED <<pass, ptab, arbQueue>>
      BY <1>3, <2>2 DEF ArbForwardSync
    <3> QED BY <1>0, <2>0, <2>1, <3>1
  <2>3. CASE arbQueue[a] # << >>
    <3>1. HasRead(a, p) /\ UNCHANGED arbState
      BY <1>3, <2>3 DEF ArbForwardSync
    <3>2. arbQueue' = [arbQueue EXCEPT ![a] = Tail(arbQueue[a])]
      BY <1>3, <2>3 DEF ArbForwardSync
    <3>3. Tail(arbQueue[a]) \in Seq(Procs)
      BY <1>t, <2>3, SeqTypes
    <3>4. arbQueue' \in [Arbiters -> Seq(Procs)]
      BY <1>0, <3>2, <3>3
    <3>5. ptab' = [ptab EXCEPT ![p] = [ptab[p] EXCEPT !.is_queued = FALSE]]
      BY <1>3, <2>3 DEF ArbForwardSync
    <3>6. ptab' \in [Procs -> Entry]
      BY <1>0, <1>t, <3>5, EntryTypes, TableTypes
    <3> QED BY <1>0, <1>h, <2>0, <2>1, <3>1, <3>4, <3>6
  <2> QED BY <2>2, <2>3
<1>4. CASE ArbWaitBarr(a, p)
  <2>0. p2a' \in [Procs -> Seq(Message)] /\ a2s' \in [Arbiters -> Seq(Message)]
    BY <1>4, <1>r, <1>s DEF ArbWaitBarr
  <2>1. HasRead(a, p) /\ UNCHANGED <<arbState, arbStarted, fds, arbQueue, a2p, s2a, signals, mem>>
    BY <1>4 DEF ArbWaitBarr
  <2>2. ptab' = [ptab EXCEPT ![p] = [ptab[p] EXCEPT !.is_waiting = TRUE]]
    BY <1>4 DEF ArbWaitBarr
  <2>3. ptab' \in [Procs -> Entry]
    BY <1>0, <1>t, <2>2, EntryTypes, TableTypes
  <2> QED BY <1>0, <1>h, <2>0, <2>1, <2>3
<1>5. CASE ArbPrgmDone(a, p)
  <2>0. p2a' \in [Procs -> Seq(Message)]
    BY <1>5, <1>r DEF ArbPrgmDone
  <2>1. UNCHANGED <<arbStarted, arbQueue, a2p, a2s, s2a, signals, mem>>
    BY <1>5 DEF ArbPrgmDone
  <2>2. pass' \in [Arbiters -> SUBSET (Procs \cup {Server})]
    <3>1. pass' = [pass EXCEPT ![a] = (pass[a] \ {p}) \ SteppedOver(a, p)]
      BY <1>5 DEF ArbPrgmDone
    <3> QED BY <1>0, <3>1
  <2>3. fds' \in [Arbiters -> Seq(Procs)]
    <3>1. fds' = [fds EXCEPT ![a] = ShuffledDown(fds[a], Slot(a, p))]
      BY <1>5 DEF ArbPrgmDone
    <3>2. fds[a] \in Seq(Procs)
      BY <1>0
    <3>3. ShuffledDown(fds[a], Slot(a, p)) \in Seq(Procs)
      BY <3>2, ShuffledTypes
    <3> QED BY <1>0, <3>1, <3>3
  <2>4. ptab' \in [Procs -> Entry]
    <3>1. ptab' = [ptab EXCEPT ![p] = Unused]
      BY <1>5 DEF ArbPrgmDone
    <3> QED BY <1>0, <1>t, <3>1, EntryTypes, TableTypes
  <2>5. arbState' \in [Arbiters -> {"up", "closing", "exited", "panic"}]
    <3>1. arbState' = [arbState EXCEPT ![a] = IF Len(fds[a]) = 1 THEN "closing" ELSE @]
      BY <1>5 DEF ArbPrgmDone
    <3> QED BY <1>0, <3>1
  <2> QED BY <1>0, <2>0, <2>1, <2>2, <2>3, <2>4, <2>5
<1> QED BY <1>1, <1>2, <1>3, <1>4, <1>5 DEF FromProcessStep

LEMMA FromServerTypes ==
  ASSUME TypeOK, NEW a \in Arbiters, FromServerStep(a)
  PROVE  ArbiterTypeOK' /\ NetTypeOK'
<1> USE DEF ArbiterTypeOK, NetTypeOK
<1> DEFINE m == Head(s2a[a])
           States == {"up", "closing", "exited", "panic"}
<1>0. ArbiterTypeOK /\ NetTypeOK
  BY DEF TypeOK
<1>r. ASSUME NEW t, FromServer(a, t)
      PROVE  /\ s2a' \in [Arbiters -> Seq(Message)]
             /\ m \in Message /\ m.type = t
  BY <1>0, <1>r, ChannelTypes DEF FromServer, Waiting
<1>h. HasRead(a, Server) => pass' \in [Arbiters -> SUBSET (Procs \cup {Server})]
  BY <1>0 DEF HasRead
<1>s. \A x \in Message : Send(a2s, a, x) \in [Arbiters -> Seq(Message)]
  BY <1>0, ChannelTypes
<1>n. NLocal(a) \in Nat
  BY <1>0 DEF NLocal
<1>p. ArbPanic(a) => /\ arbState' \in [Arbiters -> States]
                     /\ UNCHANGED <<arbStarted, fds, pass, ptab, arbQueue, a2p, a2s, mem>>
  BY <1>0 DEF ArbPanic
<1>1. CASE ArbSetGid(a)
  <2>0. s2a' \in [Arbiters -> Seq(Message)] /\ m \in Message /\ UNCHANGED <<p2a, signals>>
    BY <1>1, <1>r DEF ArbSetGid
  <2>1. CASE ArbPanic(a)
    BY <1>0, <1>p, <2>0, <2>1 DEF signals
  <2>2. CASE ~ArbPanic(a)
    <3>1. m.type = "SET_GID"
      BY <1>1, <1>r DEF ArbSetGid
    <3>2. m.pid \in Procs /\ m.gid \in Nat
      BY <2>0, <3>1, PayloadTypes
    <3>3. HasRead(a, Server) /\ ptab' = [ptab EXCEPT ![m.pid] = [ptab[m.pid] EXCEPT !.gid = m.gid]]
      BY <1>1, <2>2 DEF ArbSetGid
    <3>4. a2p' = Send(a2p, m.pid, m)
      BY <1>1, <2>2 DEF ArbSetGid
    <3>5. UNCHANGED <<arbState, arbStarted, fds, arbQueue, a2s, mem>>
      BY <1>1, <2>2 DEF ArbSetGid
    <3>6. [ptab[m.pid] EXCEPT !.gid = m.gid] \in Entry
      BY <1>0, <3>2, EntryTypes
    <3>7. ptab' \in [Procs -> Entry]
      BY <1>0, <3>2, <3>3, <3>6, TableTypes
    <3>8. a2p' \in [Procs -> Seq(Message)]
      BY <1>0, <2>0, <3>2, <3>4, ChannelTypes
    <3> HIDE DEF m
    <3> QED BY <1>0, <1>h, <2>0, <3>3, <3>5, <3>7, <3>8 DEF signals
  <2> QED BY <2>1, <2>2
<1>2. CASE ArbStopAll(a)
  <2>0. s2a' \in [Arbiters -> Seq(Message)] /\ UNCHANGED p2a
    BY <1>2, <1>r DEF ArbStopAll
  <2>1. /\ susp' \in [Procs -> BOOLEAN] /\ tstp' \in [Procs -> BOOLEAN]
        /\ gone' \subseteq Procs
    BY <1>0, <1>2, SignalTypes DEF ArbStopAll
  <2>2. CASE ArbPanic(a)
    BY <1>0, <1>p, <2>0, <2>1, <2>2
  <2>3. CASE ~ArbPanic(a)
    <3>1. HasRead(a, Server) /\ UNCHANGED <<arbState, arbStarted, fds, arbQueue, a2p, mem>>
      BY <1>2, <2>3 DEF ArbStopAll
    <3>2. ptab' = [p \in Procs |-> [ptab[p] EXCEPT !.is_stopped = ptab[p].is_stopped \/ p \in ToStop(a)]]
      BY <1>2, <2>3 DEF ArbStopAll
    <3>3. ptab' \in [Procs -> Entry]
      BY <1>0, <3>2, EntryTypes
    <3>4. Done("STOP_DONE", NLocal(a)) \in Message
      BY <1>n, MessageTypes
    <3>5. a2s' \in [Arbiters -> Seq(Message)]
      BY <1>2, <2>3, <1>s, <3>4 DEF ArbStopAll
    <3> QED BY <1>0, <1>h, <2>0, <2>1, <3>1, <3>3, <3>5
  <2> QED BY <2>2, <2>3
<1>3. CASE ArbContAll(a)
  <2>0. s2a' \in [Arbiters -> Seq(Message)] /\ UNCHANGED p2a
    BY <1>3, <1>r DEF ArbContAll
  <2>1. /\ susp' \in [Procs -> BOOLEAN] /\ tstp' \in [Procs -> BOOLEAN]
        /\ gone' \subseteq Procs
    BY <1>0, <1>3, SignalTypes DEF ArbContAll
  <2>2. CASE ArbPanic(a)
    BY <1>0, <1>p, <2>0, <2>1, <2>2
  <2>3. CASE ~ArbPanic(a)
    <3>1. HasRead(a, Server) /\ UNCHANGED <<arbState, arbStarted, fds, arbQueue, a2p, a2s, mem>>
      BY <1>3, <2>3 DEF ArbContAll
    <3>2. ptab' = [p \in Procs |-> [ptab[p] EXCEPT !.is_stopped = ptab[p].is_stopped /\ p \notin ToCont(a)]]
      BY <1>3, <2>3 DEF ArbContAll
    <3>3. ptab' \in [Procs -> Entry]
      BY <1>0, <3>2, EntryTypes
    <3> QED BY <1>0, <1>h, <2>0, <2>1, <3>1, <3>3
  <2> QED BY <2>2, <2>3
<1>4. CASE ArbWaitDone(a)
  <2>0. s2a' \in [Arbiters -> Seq(Message)] /\ UNCHANGED p2a
    BY <1>4, <1>r DEF ArbWaitDone
  <2>1. /\ susp' \in [Procs -> BOOLEAN] /\ tstp' \in [Procs -> BOOLEAN]
        /\ gone' \subseteq Procs
    BY <1>0, <1>4, SignalTypes DEF ArbWaitDone
  <2>2. CASE ArbPanic(a)
    BY <1>0, <1>p, <2>0, <2>1, <2>2
  <2>3. CASE ~ArbPanic(a)
    <3>1. HasRead(a, Server) /\ UNCHANGED <<arbState, fds, arbQueue, a2s, mem>>
      BY <1>4, <2>3 DEF ArbWaitDone
    <3>2. ptab' = [p \in Procs |-> [ptab[p] EXCEPT !.is_waiting = ptab[p].is_waiting /\ p \notin Table(a)]]
      BY <1>4, <2>3 DEF ArbWaitDone
    <3>3. ptab' \in [Procs -> Entry]
      BY <1>0, <3>2, EntryTypes
    <3>4. a2p' \in {a2p, SendAll(a2p, Accepted(a), Simple("WAIT_DONE"))}
      BY <1>4, <2>3 DEF ArbWaitDone
    <3>5. a2p' \in [Procs -> Seq(Message)]
      <4>1. Simple("WAIT_DONE") \in Message
        BY MessageTypes DEF SimpleTypes
      <4>2. SendAll(a2p, Accepted(a), Simple("WAIT_DONE")) \in [Procs -> Seq(Message)]
        BY <1>0, <4>1 DEF SendAll
      <4> QED BY <1>0, <3>4, <4>2
    <3>6. arbStarted' = [arbStarted EXCEPT ![a] = TRUE]
      BY <1>4, <2>3 DEF ArbWaitDone
    <3>7. arbStarted' \in [Arbiters -> BOOLEAN]
      BY <1>0, <3>6
    <3> QED BY <1>0, <1>h, <2>0, <2>1, <3>1, <3>3, <3>5, <3>7
  <2> QED BY <2>2, <2>3
<1>5. CASE ArbWriteOkay(a)
  <2>0. s2a' \in [Arbiters -> Seq(Message)] /\ m \in Message /\ UNCHANGED <<p2a, signals>>
    BY <1>5, <1>r DEF ArbWriteOkay
  <2>1. CASE ArbPanic(a)
    BY <1>0, <1>p, <2>0, <2>1 DEF signals
  <2>2. CASE ~ArbPanic(a)
    <3>1. HasRead(a, Server) /\ UNCHANGED <<arbState, arbStarted, fds, ptab, arbQueue, a2s, mem>>
      BY <1>5, <2>2 DEF ArbWriteOkay
    <3>2. a2p' = SendAll(a2p, Grantee(a), m)
      BY <1>5, <2>2 DEF ArbWriteOkay
    <3>3. a2p' \in [Procs -> Seq(Message)]
      <4> HIDE DEF m
      <4> QED BY <1>0, <2>0, <3>2 DEF SendAll
    <3> QED BY <1>0, <1>h, <2>0, <3>1, <3>3 DEF signals
  <2> QED BY <2>1, <2>2
<1>6. CASE ArbApplySync(a)
  <2>0. s2a' \in [Arbiters -> Seq(Message)] /\ m \in Message /\ m.type = "SYNC_INFO"
    BY <1>6, <1>r DEF ArbApplySync
  <2>1. HasRead(a, Server) /\ UNCHANGED <<arbState, arbStarted, fds, ptab, arbQueue, p2a, a2p, signals>>
    BY <1>6 DEF ArbApplySync
  <2>2. mem' = [mem EXCEPT ![a] = [mem[a] EXCEPT ![0] = m.buf]]
    BY <1>6 DEF ArbApplySync
  <2>3. m.buf \in Values
    BY <2>0, PayloadTypes
  <2>4. mem' \in [Arbiters -> [Offsets -> Values]]
    <3> HIDE DEF m
    <3> QED BY <1>0, <2>2, <2>3
  <2>5. Done("SYNC_DONE", NLocal(a)) \in Message
    BY <1>n, MessageTypes
  <2>6. a2s' \in [Arbiters -> Seq(Message)]
    BY <1>6, <1>s, <2>5 DEF ArbApplySync
  <2> QED BY <1>0, <1>h, <2>0, <2>1, <2>4, <2>6 DEF signals
<1> QED BY <1>1, <1>2, <1>3, <1>4, <1>5, <1>6 DEF FromServerStep

LEMMA ArbiterTypes ==
  ASSUME TypeOK, NEW a \in Arbiters, ArbiterStep(a)
  PROVE  ArbiterTypeOK' /\ NetTypeOK'
<1>0. ArbiterTypeOK /\ NetTypeOK
  BY DEF TypeOK
<1>1. ASSUME NEW p \in Procs, ArbAccept(a, p)
      PROVE  ArbiterTypeOK' /\ NetTypeOK'
  <2>1. fds' = [fds EXCEPT ![a] = Append(fds[a], p)]
    BY <1>1 DEF ArbAccept
  <2>2. Append(fds[a], p) \in Seq(Procs)
    BY <1>0, SeqTypes DEF ArbiterTypeOK
  <2> QED BY <1>0, <1>1, <2>1, <2>2
          DEF ArbAccept, ArbiterTypeOK, NetTypeOK, channels, signals
<1>2. ASSUME NEW p \in Procs, FromProcessStep(a, p)
      PROVE  ArbiterTypeOK' /\ NetTypeOK'
  BY <1>2, FromProcessTypes
<1>3. ASSUME NEW b \in BOOLEAN, ArbPoll(a, b)
      PROVE  ArbiterTypeOK' /\ NetTypeOK'
  <2>1. Readable(a, b) \subseteq Procs \cup {Server}
    BY <1>0 DEF Readable, Accepted, ArbiterTypeOK
  <2> QED BY <1>0, <1>3, <2>1
          DEF ArbPoll, ArbiterTypeOK, NetTypeOK, channels, signals
<1>4. CASE FromServerStep(a)
  BY <1>4, FromServerTypes
<1>5. CASE ArbExit(a)
  <2>1. a2s' \in [Arbiters -> Seq(Message)]
    <3>1. Simple("PRGM_DONE") \in Message
      BY MessageTypes DEF SimpleTypes
    <3> QED BY <1>0, <1>5, <3>1, ChannelTypes DEF ArbExit, NetTypeOK
  <2> QED BY <1>0, <1>5, <2>1 DEF ArbExit, ArbiterTypeOK, NetTypeOK, signals
<1> QED BY <1>1, <1>2, <1>3, <1>4, <1>5 DEF ArbiterStep

-----------------------------------------------------------------------------
(* A process's place and program, and the store it is at.                  *)
ProcInv == loc \in [Procs -> Locations] /\ todo \in [Procs -> Seq(Op)] /\ StoreInv

(* A step that moves p to l, and may drop the call at the head of its      *)
(* program, keeps ProcInv if it leaves p at a store only when there is one. *)
LEMMA Moves ==
  ASSUME ProcInv, NEW p \in Procs, NEW l \in Locations, Goto(p, l),
         \/ /\ UNCHANGED todo
            /\ l \in {"takeAccess", "store", "sigill"} =>
                 todo[p] # << >> /\ Head(todo[p]).op = "write"
         \/ /\ OpDone(p) /\ todo[p] # << >>
            /\ l \notin {"takeAccess", "store", "sigill"}
  PROVE  ProcInv'
<1>1. loc' = [loc EXCEPT ![p] = l]
  BY DEF Goto
<1>2. CASE UNCHANGED todo /\ (l \in {"takeAccess", "store", "sigill"} =>
                                todo[p] # << >> /\ Head(todo[p]).op = "write")
  BY <1>1, <1>2 DEF ProcInv, StoreInv
<1>3. CASE /\ OpDone(p) /\ todo[p] # << >>
           /\ l \notin {"takeAccess", "store", "sigill"}
  <2>1. todo' = [todo EXCEPT ![p] = Tail(todo[p])]
    BY <1>3 DEF OpDone
  <2>2. Tail(todo[p]) \in Seq(Op)
    BY <1>3, SeqTypes DEF ProcInv
  <2>3. todo' \in [Procs -> Seq(Op)]
    BY <2>1, <2>2 DEF ProcInv
  <2>4. \A q \in Procs : q # p => loc'[q] = loc[q] /\ todo'[q] = todo[q]
    BY <1>1, <2>1 DEF ProcInv
  <2>5. loc'[p] = l
    BY <1>1 DEF ProcInv
  <2> QED BY <1>1, <1>3, <2>3, <2>4, <2>5 DEF ProcInv, StoreInv
<1> QED BY <1>2, <1>3

LEMMA ProcessTypes ==
  ASSUME TypeInv, NEW p \in Procs, ProcessStep(p) \/ ProcKilled(p), UNCHANGED <<a2s, s2a>>
  PROVE  ProcessTypeOK' /\ NetTypeOK' /\ StoreInv'
<1> DEFINE P2A == p2a' \in [Procs -> Seq(Message)]
           A2P == a2p' \in [Procs -> Seq(Message)]
<1>0. ProcInv /\ ProcessTypeOK /\ NetTypeOK
  BY DEF TypeInv, TypeOK, ProcInv, ProcessTypeOK
<1>s. ASSUME NEW m \in Message, SendToArbiter(p, m) PROVE P2A
  BY <1>0, <1>s, ChannelTypes DEF SendToArbiter, NetTypeOK
<1>r. ASSUME NEW l, Receive(p, l)
      PROVE  A2P /\ Head(a2p[p]) \in Message /\ loc[p] = l
  BY <1>0, <1>r, ChannelTypes DEF Receive, NetTypeOK
<1>m. \A t \in SimpleTypes : Simple(t) \in Message
  BY MessageTypes
<1>q. SUFFICES /\ ProcInv' /\ P2A /\ A2P
               /\ procGid' \in [Procs -> Nat \cup {-1}] /\ rounds' \in [Procs -> Nat]
               /\ susp' \in [Procs -> BOOLEAN] /\ tstp' \in [Procs -> BOOLEAN]
               /\ gone' \subseteq Procs /\ mem' \in [Arbiters -> [Offsets -> Values]]
  BY <1>0, <1>q DEF ProcInv, ProcessTypeOK, NetTypeOK
<1> USE DEF ProcessTypeOK, NetTypeOK, signals
<1>1. CASE ProcConnect(p)
  <2>1. AddProc(p) \in Message
    BY MessageTypes
  <2>2. P2A
    BY <1>1, <1>s, <2>1 DEF ProcConnect
  <2>3. ProcInv'
    BY <1>0, <1>1, Moves DEF ProcConnect, Locations
  <2> QED BY <1>0, <1>1, <2>2, <2>3 DEF ProcConnect
<1>2. CASE ProcRecvGid(p)
  <2>1. A2P /\ Head(a2p[p]) \in Message
    BY <1>2, <1>r DEF ProcRecvGid
  <2>2. UNCHANGED <<todo, rounds, p2a, signals, mem>>
    BY <1>2 DEF ProcRecvGid
  <2>3. ProcInv'
    <3>1. Goto(p, "recv_waitDone") \/ Goto(p, "panic")
      BY <1>2 DEF ProcRecvGid
    <3> QED BY <1>0, <2>2, <3>1, Moves DEF Locations
  <2>4. procGid' \in [Procs -> Nat \cup {-1}]
    <3>1. CASE UNCHANGED procGid
      BY <1>0, <3>1
    <3>2. CASE ~UNCHANGED procGid
      <4>1. /\ Head(a2p[p]).type = "SET_GID"
            /\ procGid' = [procGid EXCEPT ![p] = Head(a2p[p]).gid]
        BY <1>2, <3>2 DEF ProcRecvGid
      <4>2. Head(a2p[p]).gid \in Nat
        BY <2>1, <4>1, PayloadTypes
      <4> QED BY <1>0, <4>1, <4>2
    <3> QED BY <3>1, <3>2
  <2> QED BY <1>0, <2>1, <2>2, <2>3, <2>4
<1>3. CASE ProcRecvWaitDone(p)
  <2>1. A2P
    BY <1>3, <1>r DEF ProcRecvWaitDone
  <2>2. UNCHANGED <<todo, procGid, rounds, p2a, signals, mem>>
    BY <1>3 DEF ProcRecvWaitDone
  <2>3. ProcInv'
    <3>1. Goto(p, "user") \/ Goto(p, "panic")
      BY <1>3 DEF ProcRecvWaitDone
    <3> QED BY <1>0, <2>2, <3>1, Moves DEF Locations
  <2> QED BY <1>0, <2>1, <2>2, <2>3
<1>4. CASE ProcRequest(p)
  <2>1. P2A
    BY <1>4, <1>s, <1>m DEF ProcRequest, SimpleTypes
  <2>2. ProcInv'
    BY <1>0, <1>4, Moves DEF ProcRequest, Calls, Locations
  <2> QED BY <1>0, <1>4, <2>1, <2>2 DEF ProcRequest
<1>5. CASE ProcGranted(p)
  <2>1. A2P /\ loc[p] = "takeAccess"
    BY <1>5, <1>r DEF ProcGranted
  <2>2. UNCHANGED <<todo, procGid, rounds, p2a, signals, mem>>
    BY <1>5 DEF ProcGranted
  <2>3. ProcInv'
    <3>1. Goto(p, "store") \/ Goto(p, "panic")
      BY <1>5 DEF ProcGranted
    <3>2. todo[p] # << >> /\ Head(todo[p]).op = "write"
      BY <1>0, <2>1 DEF ProcInv, StoreInv
    <3> QED BY <1>0, <2>2, <3>1, <3>2, Moves DEF Locations
  <2> QED BY <1>0, <2>1, <2>2, <2>3
<1>6. CASE ProcStore(p)
  <2>1. todo[p] # << >> /\ Head(todo[p]).op = "write"
    BY <1>0, <1>6 DEF ProcStore, ProcInv, StoreInv
  <2>2. Head(todo[p]) \in Op /\ Len(todo[p]) \in Nat
    BY <1>0, <2>1, SeqTypes
  <2>3. Head(todo[p]).off \in Offsets
    BY <2>1, <2>2 DEF Op
  <2>4. <<p, Len(todo[p])>> \in Values
    BY <2>2 DEF Values
  <2>5. mem' \in [Arbiters -> [Offsets -> Values]]
    <3>1. Home[p] \in Arbiters
      BY HomeAssumption
    <3>2. mem' = [mem EXCEPT ![Home[p]] =
                     [mem[Home[p]] EXCEPT ![Head(todo[p]).off] = <<p, Len(todo[p])>>]]
      BY <1>6 DEF ProcStore
    <3> QED BY <1>0, <2>3, <2>4, <3>1, <3>2
  <2>6. ProcInv'
    BY <1>0, <1>6, <2>1, Moves DEF ProcStore, Locations
  <2> QED BY <1>0, <1>6, <2>5, <2>6 DEF ProcStore
<1>7. CASE ProcSigill(p)
  <2> DEFINE off == Head(todo[p]).off
  <2>1. todo[p] # << >> /\ Head(todo[p]).op = "write"
    BY <1>0, <1>7 DEF ProcSigill, ProcInv, StoreInv
  <2>2. Head(todo[p]) \in Op
    BY <1>0, <2>1, SeqTypes
  <2>3. off \in Offsets
    BY <2>1, <2>2 DEF Op
  <2>4. SyncInfo(off, mem[Home[p]][off]) \in Message
    BY <1>0, <2>3, HomeAssumption, MessageTypes
  <2>5. P2A
    BY <1>7, <1>s, <2>4 DEF ProcSigill
  <2>6. ProcInv'
    BY <1>0, <1>7, <2>1, Moves DEF ProcSigill, Locations
  <2> QED BY <1>0, <1>7, <2>5, <2>6 DEF ProcSigill
<1>8. CASE ProcBarrier(p)
  <2>1. P2A
    BY <1>8, <1>s, <1>m DEF ProcBarrier, SimpleTypes
  <2>2. ProcInv'
    BY <1>0, <1>8, Moves DEF ProcBarrier, Calls, Locations
  <2>3. rounds' \in [Procs -> Nat]
    BY <1>0, <1>8 DEF ProcBarrier
  <2>4. UNCHANGED <<procGid, a2p, signals, mem>>
    BY <1>8 DEF ProcBarrier
  <2> QED BY <1>0, <2>1, <2>2, <2>3, <2>4
<1>9. CASE ProcSelfStop(p)
  <2>1. ProcInv'
    BY <1>0, <1>9, Moves DEF ProcSelfStop, Locations
  <2> QED BY <1>0, <1>9, <2>1 DEF ProcSelfStop
<1>10. CASE ProcExit(p)
  <2>1. P2A
    BY <1>10, <1>s, <1>m DEF ProcExit, SimpleTypes
  <2>2. ProcInv'
    BY <1>0, <1>10, Moves DEF ProcExit, Calls, Locations
  <2> QED BY <1>0, <1>10, <2>1, <2>2 DEF ProcExit
<1>11. CASE ProcReap(p)
  <2>1. ProcInv'
    BY <1>0, <1>11, Moves DEF ProcReap, Locations
  <2> QED BY <1>0, <1>11, <2>1 DEF ProcReap
<1>12. CASE ProcKilled(p)
  <2>1. ProcInv'
    BY <1>0, <1>12, Moves DEF ProcKilled, Locations
  <2> QED BY <1>0, <1>12, <2>1 DEF ProcKilled
<1>13. CASE DeliverTstp(p)
  BY <1>0, <1>13 DEF DeliverTstp, procVars, ProcInv, StoreInv
<1> QED BY <1>1, <1>2, <1>3, <1>4, <1>5, <1>6, <1>7, <1>8, <1>9, <1>10, <1>11,
           <1>12, <1>13 DEF ProcessStep

-----------------------------------------------------------------------------
LEMMA TypeStep == TypeInv /\ [Next]_vars => TypeInv'
<1> SUFFICES ASSUME TypeInv, [Next]_vars PROVE TypeInv'
  OBVIOUS
<1>0. /\ TypeOK /\ ServerTypeOK /\ ArbiterTypeOK /\ ProcessTypeOK /\ NetTypeOK
      /\ StoreInv
  BY DEF TypeInv, TypeOK
<1>q. SUFFICES /\ ServerTypeOK' /\ ArbiterTypeOK' /\ ProcessTypeOK' /\ NetTypeOK'
               /\ StoreInv'
  BY <1>q DEF TypeInv, TypeOK
<1>s. UNCHANGED serverVars => ServerTypeOK'
  BY <1>0 DEF serverVars, writeVars, ServerTypeOK
<1>a. UNCHANGED arbVars => ArbiterTypeOK'
  BY <1>0 DEF arbVars, ArbiterTypeOK
<1>p. UNCHANGED procVars => ProcessTypeOK' /\ StoreInv'
  BY <1>0 DEF procVars, ProcessTypeOK, StoreInv
<1>n. UNCHANGED netVars => NetTypeOK'
  BY <1>0 DEF netVars, channels, signals, NetTypeOK
<1>1. ASSUME NEW a \in Arbiters, ServerStep(a),
             UNCHANGED <<arbVars, procVars, p2a, a2p, signals, mem>>
      PROVE  /\ ServerTypeOK' /\ ArbiterTypeOK' /\ ProcessTypeOK' /\ NetTypeOK'
             /\ StoreInv'
  <2>1. NetTypeOK'
    BY <1>0, <1>1, ServerTypes DEF NetTypeOK, signals
  <2> QED BY <1>0, <1>1, <1>a, <1>p, <2>1, ServerTypes
<1>2. ASSUME NEW a \in Arbiters, ServerLosesArbiter(a)
      PROVE  /\ ServerTypeOK' /\ ArbiterTypeOK' /\ ProcessTypeOK' /\ NetTypeOK'
             /\ StoreInv'
  <2>1. ServerTypeOK'
    BY <1>0, <1>2 DEF ServerLosesArbiter, ServerTypeOK, writeVars
  <2> QED BY <1>2, <1>a, <1>p, <1>n, <2>1 DEF ServerLosesArbiter
<1>3. ASSUME NEW a \in Arbiters, ArbiterStep(a), UNCHANGED <<serverVars, procVars>>
      PROVE  /\ ServerTypeOK' /\ ArbiterTypeOK' /\ ProcessTypeOK' /\ NetTypeOK'
             /\ StoreInv'
  BY <1>0, <1>3, <1>s, <1>p, ArbiterTypes
<1>4. ASSUME NEW a \in Arbiters,
             ArbiterLosesServer(a) \/ \E p \in Procs : ArbiterLosesProcess(a, p)
      PROVE  /\ ServerTypeOK' /\ ArbiterTypeOK' /\ ProcessTypeOK' /\ NetTypeOK'
             /\ StoreInv'
  <2>1. /\ arbState' = [arbState EXCEPT ![a] = "panic"]
        /\ UNCHANGED <<arbStarted, fds, pass, ptab, arbQueue, serverVars, procVars, netVars>>
    BY <1>4 DEF ArbiterLosesServer, ArbiterLosesProcess
  <2>2. ArbiterTypeOK'
    BY <1>0, <2>1 DEF ArbiterTypeOK
  <2> QED BY <1>s, <1>p, <1>n, <2>1, <2>2
<1>5. ASSUME NEW p \in Procs, ProcessStep(p) \/ ProcKilled(p),
             UNCHANGED <<serverVars, arbVars, a2s, s2a>>
      PROVE  /\ ServerTypeOK' /\ ArbiterTypeOK' /\ ProcessTypeOK' /\ NetTypeOK'
             /\ StoreInv'
  BY <1>5, <1>s, <1>a, ProcessTypes
<1>6. ASSUME NEW p \in Procs, ProcessLosesArbiter(p)
      PROVE  /\ ServerTypeOK' /\ ArbiterTypeOK' /\ ProcessTypeOK' /\ NetTypeOK'
             /\ StoreInv'
  <2>1. ProcInv
    BY <1>0 DEF ProcInv, ProcessTypeOK
  <2>2. Goto(p, "panic") /\ UNCHANGED <<todo, procGid, rounds, serverVars, arbVars, netVars>>
    BY <1>6 DEF ProcessLosesArbiter
  <2>3. ProcInv'
    BY <2>1, <2>2, Moves DEF Locations
  <2>4. ProcessTypeOK' /\ StoreInv'
    BY <1>0, <2>2, <2>3 DEF ProcInv, ProcessTypeOK
  <2> QED BY <1>s, <1>a, <1>n, <2>2, <2>4
<1>7. CASE UNCHANGED vars
  BY <1>7, <1>s, <1>a, <1>p, <1>n DEF vars
<1> QED
  <2>1. CASE Next
    <3>1. ASSUME NEW p \in Killable PROVE p \in Procs
      BY KillableAssumption
    <3> QED BY <2>1, <3>1, <1>1, <1>2, <1>3, <1>4, <1>5, <1>6
            DEF Next, ServerActs, ArbiterActs, ProcessActs, Kill
  <2> QED BY <1>7, <2>1

(* Every variable of every component keeps its type.                       *)
THEOREM TypeCorrect == Spec => []TypeOK
<1>1. TypeInv => TypeOK
  BY DEF TypeInv
<1> QED BY TypeInit, TypeStep, <1>1, PTL DEF Spec

-----------------------------------------------------------------------------
(***************************************************************************)
(* The write grant is a token: proofs, for any number of machines and      *)
(* processes, that one process at a time holds it and that it is the one   *)
(* both queues name.                                                       *)
(*                                                                         *)
(* A grant is born when the server sends MSG_WRITE_OKAY.  It travels to    *)
(* the arbiter, to the process, through the store, and back as             *)
(* MSG_SYNC_INFO, and dies when the server reads that message.  The        *)
(* inductive invariant GrantInv says that wherever it is, it is nowhere    *)
(* else, and that it is at the head of the server's queue, and of the      *)
(* arbiter's until the arbiter has forwarded the data.                     *)
(***************************************************************************)

Has(ch, k, t)  == \E i \in DOMAIN ch[k] : ch[k][i].type = t
Once(ch, k, t) == \A i, j \in DOMAIN ch[k] :
                     ch[k][i].type = t /\ ch[k][j].type = t => i = j

(* Every queue of an arbiter holds processes of its machine only.          *)
PlaceInv ==
  \A a \in Arbiters : /\ fds[a] \in Seq(Local(a))
                      /\ pass[a] \subseteq Local(a) \cup {Server}
                      /\ arbQueue[a] \in Seq(Local(a))

(* The five places a grant can be in.                                      *)
Sent(a)      == Has(s2a, a, "WRITE_OKAY")
Passed(p)    == Has(a2p, p, "WRITE_OKAY")
Returning(p) == Has(p2a, p, "SYNC_INFO")
Returned(a)  == Has(a2s, a, "SYNC_INFO")

OnTurn(a) == step = "WAITING_SYNC_INFO" /\ opqueue # << >> /\ Head(opqueue) = a
AtHead(p) == arbQueue[Home[p]] # << >> /\ Head(arbQueue[Home[p]]) = p

Holds(p) == Passed(p) \/ Writable(p) \/ Returning(p)

AtMostOnce ==
  /\ \A a \in Arbiters : Once(s2a, a, "WRITE_OKAY") /\ Once(a2s, a, "SYNC_INFO")
  /\ \A p \in Procs : Once(a2p, p, "WRITE_OKAY") /\ Once(p2a, p, "SYNC_INFO")

Apart ==
  /\ \A a \in Arbiters : ~(Sent(a) /\ Returned(a))
  /\ \A p \in Procs : Holds(p) => /\ ~Sent(Home[p]) /\ ~Returned(Home[p])
                                  /\ ~(Passed(p) /\ Writable(p))
                                  /\ ~(Passed(p) /\ Returning(p))
                                  /\ ~(Writable(p) /\ Returning(p))

InOrder ==
  /\ \A a \in Arbiters : Sent(a) \/ Returned(a) => OnTurn(a)
  /\ \A p \in Procs : Holds(p) => OnTurn(Home[p]) /\ AtHead(p)

GrantInv == AtMostOnce /\ Apart /\ InOrder

(* There is no grant anywhere.                                             *)
NoGrant == /\ \A a \in Arbiters : ~Sent(a) /\ ~Returned(a)
           /\ \A p \in Procs : ~Holds(p)

-----------------------------------------------------------------------------
(* Sequences: what is at each place after an append or a take.             *)
LEMMA AppendPlaces ==
  ASSUME NEW S, NEW s \in Seq(S), NEW e \in S
  PROVE  /\ DOMAIN Append(s, e) = 1 .. Len(s) + 1
         /\ \A i \in DOMAIN s : i \in 1 .. Len(s) /\ Append(s, e)[i] = s[i]
         /\ Append(s, e)[Len(s) + 1] = e
         /\ s # << >> => Head(Append(s, e)) = Head(s)
         /\ s = << >> => Head(Append(s, e)) = e
OBVIOUS

LEMMA TailPlaces ==
  ASSUME NEW S, NEW s \in Seq(S), s # << >>
  PROVE  /\ DOMAIN s = 1 .. Len(s) /\ Len(s) \in Nat \ {0}
         /\ DOMAIN Tail(s) = 1 .. Len(s) - 1
         /\ \A i \in DOMAIN Tail(s) : i + 1 \in DOMAIN s /\ Tail(s)[i] = s[i + 1]
         /\ Head(s) = s[1]
OBVIOUS

(* What a channel holds after a send, a broadcast and a receive.           *)
LEMMA SendHas ==
  ASSUME NEW K, NEW ch \in [K -> Seq(Message)], NEW k \in K, NEW m \in Message,
         NEW j \in K, NEW t
  PROVE  /\ Has(Send(ch, k, m), j, t) <=> Has(ch, j, t) \/ (j = k /\ m.type = t)
         /\ Once(ch, j, t) /\ ~(j = k /\ m.type = t /\ Has(ch, j, t))
              => Once(Send(ch, k, m), j, t)
<1>1. CASE j # k
  <2>1. Send(ch, k, m)[j] = ch[j]
    BY <1>1 DEF Send
  <2> QED BY <1>1, <2>1 DEF Has, Once
<1>2. CASE j = k
  <2> DEFINE s == ch[k]
  <2>1. Send(ch, k, m)[j] = Append(s, m)
    BY <1>2 DEF Send
  <2>2. /\ DOMAIN Append(s, m) = 1 .. Len(s) + 1
        /\ \A i \in DOMAIN s : i \in 1 .. Len(s) /\ Append(s, m)[i] = s[i]
        /\ Append(s, m)[Len(s) + 1] = m
        /\ DOMAIN s = 1 .. Len(s) /\ Len(s) \in Nat
    BY AppendPlaces
  <2> HIDE DEF s
  <2>3. \A i \in DOMAIN Append(s, m) : i \in DOMAIN s \/ i = Len(s) + 1
    BY <2>2
  <2>4. ch[j] = s
    BY <1>2 DEF s
  <2>5. Has(Send(ch, k, m), j, t) <=> Has(ch, j, t) \/ m.type = t
    BY <2>1, <2>2, <2>3, <2>4 DEF Has
  <2>6. ASSUME Once(ch, j, t), m.type # t \/ ~Has(ch, j, t)
        PROVE  Once(Send(ch, k, m), j, t)
    BY <2>1, <2>2, <2>3, <2>4, <2>6 DEF Has, Once
  <2> QED BY <1>2, <2>5, <2>6
<1> QED BY <1>1, <1>2

LEMMA SendAllHas ==
  ASSUME NEW K, NEW ch \in [K -> Seq(Message)], NEW S, NEW m \in Message,
         NEW j \in K, NEW t
  PROVE  /\ Has(SendAll(ch, S, m), j, t) <=> Has(ch, j, t) \/ (j \in S /\ m.type = t)
         /\ Once(ch, j, t) /\ ~(j \in S /\ m.type = t /\ Has(ch, j, t))
              => Once(SendAll(ch, S, m), j, t)
<1>1. CASE j \notin S
  <2>1. SendAll(ch, S, m)[j] = ch[j]
    BY <1>1 DEF SendAll
  <2> QED BY <1>1, <2>1 DEF Has, Once
<1>2. CASE j \in S
  <2>1. SendAll(ch, S, m)[j] = Send(ch, j, m)[j]
    BY <1>2 DEF SendAll, Send
  <2>2. /\ Has(SendAll(ch, S, m), j, t) <=> Has(Send(ch, j, m), j, t)
        /\ Once(SendAll(ch, S, m), j, t) <=> Once(Send(ch, j, m), j, t)
    BY <2>1 DEF Has, Once
  <2> QED BY <1>2, <2>2, SendHas
<1> QED BY <1>1, <1>2

LEMMA ConsumeHas ==
  ASSUME NEW K, NEW ch \in [K -> Seq(Message)], NEW k \in K, ch[k] # << >>,
         NEW j \in K, NEW t
  PROVE  /\ Has(Consume(ch, k), j, t) => Has(ch, j, t)
         /\ Once(ch, j, t) => Once(Consume(ch, k), j, t)
         /\ Head(ch[k]).type = t => Has(ch, k, t)
         /\ Head(ch[k]).type = t /\ Once(ch, k, t) => ~Has(Consume(ch, k), k, t)
<1> DEFINE s == ch[k]
<1>1. /\ DOMAIN s = 1 .. Len(s) /\ Len(s) \in Nat \ {0}
      /\ DOMAIN Tail(s) = 1 .. Len(s) - 1
      /\ \A i \in DOMAIN Tail(s) : i + 1 \in DOMAIN s /\ Tail(s)[i] = s[i + 1]
      /\ Head(s) = s[1]
  BY TailPlaces
<1>2. Consume(ch, k)[k] = Tail(s) /\ (j # k => Consume(ch, k)[j] = ch[j])
  BY DEF Consume
<1> HIDE DEF s
<1>3. ch[k] = s
  BY DEF s
<1>4. 1 \in DOMAIN s /\ \A i \in DOMAIN Tail(s) : i + 1 # 1
  BY <1>1
<1>5. \A i, l \in DOMAIN Tail(s) : i + 1 = l + 1 => i = l
  BY <1>1
<1>6. Head(ch[k]).type = t => Has(ch, k, t)
  BY <1>1, <1>3, <1>4 DEF Has
<1>7. Head(ch[k]).type = t /\ Once(ch, k, t) => ~Has(Consume(ch, k), k, t)
  BY <1>1, <1>2, <1>3, <1>4 DEF Has, Once
<1>8. CASE j # k
  BY <1>2, <1>6, <1>7, <1>8 DEF Has, Once
<1>9. CASE j = k
  <2>1. Has(Consume(ch, k), k, t) => Has(ch, k, t)
    BY <1>1, <1>2, <1>3 DEF Has
  <2>2. Once(ch, k, t) => Once(Consume(ch, k), k, t)
    BY <1>1, <1>2, <1>3, <1>5 DEF Once
  <2> QED BY <1>6, <1>7, <1>9, <2>1, <2>2
<1> QED BY <1>8, <1>9

-----------------------------------------------------------------------------
(* Who an arbiter deals with: its own processes.                           *)
LEMMA PlaceInit == Init => PlaceInv
BY SeqTypes DEF Init, ArbiterInit, PlaceInv

LEMMA ReaderIsLocal ==
  ASSUME PlaceInv, NEW a \in Arbiters, NEW p \in Procs, p \in pass[a]
  PROVE  p \in Local(a) /\ Home[p] = a
BY ServerAssumption DEF PlaceInv, Local

LEMMA PlaceArbiter ==
  ASSUME TypeOK, PlaceInv, NEW a \in Arbiters, ArbiterStep(a)
  PROVE  PlaceInv'
<1>0. /\ fds \in [Arbiters -> Seq(Procs)]
      /\ pass \in [Arbiters -> SUBSET (Procs \cup {Server})]
      /\ arbQueue \in [Arbiters -> Seq(Procs)]
  BY DEF TypeOK, ArbiterTypeOK
<1>1. /\ fds[a] \in Seq(Local(a)) /\ pass[a] \subseteq Local(a) \cup {Server}
      /\ arbQueue[a] \in Seq(Local(a))
  BY DEF PlaceInv
<1>q. ASSUME NEW f \in Seq(Local(a)), NEW s \in SUBSET (Local(a) \cup {Server}),
             NEW q \in Seq(Local(a)),
             fds' = [fds EXCEPT ![a] = f], pass' = [pass EXCEPT ![a] = s],
             arbQueue' = [arbQueue EXCEPT ![a] = q]
      PROVE  PlaceInv'
  <2>1. fds'[a] = f /\ pass'[a] = s /\ arbQueue'[a] = q
    BY <1>0, <1>q
  <2>2. \A b \in Arbiters : b # a =>
           fds'[b] = fds[b] /\ pass'[b] = pass[b] /\ arbQueue'[b] = arbQueue[b]
    BY <1>0, <1>q
  <2> QED BY <1>q, <2>1, <2>2 DEF PlaceInv, Local
<1>u. /\ UNCHANGED fds => fds' = [fds EXCEPT ![a] = fds[a]]
      /\ UNCHANGED arbQueue => arbQueue' = [arbQueue EXCEPT ![a] = arbQueue[a]]
      /\ UNCHANGED pass => pass' = [pass EXCEPT ![a] = pass[a]]
  BY <1>0
<1>h. ASSUME NEW x, HasRead(a, x), UNCHANGED <<fds, arbQueue>> PROVE PlaceInv'
  <2>1. pass' = [pass EXCEPT ![a] = pass[a] \ {x}]
    BY <1>h DEF HasRead
  <2>2. pass[a] \ {x} \in SUBSET (Local(a) \cup {Server})
    BY <1>1
  <2> QED BY <1>1, <1>h, <1>u, <1>q, <2>1, <2>2
<1>p. ASSUME UNCHANGED <<fds, pass, arbQueue>> PROVE PlaceInv'
  BY <1>p DEF PlaceInv, Local
<1>2. ASSUME NEW p \in Procs, ArbAccept(a, p) PROVE PlaceInv'
  <2>1. p \in Local(a)
    BY <1>2 DEF ArbAccept, Pending
  <2>2. fds' = [fds EXCEPT ![a] = Append(fds[a], p)] /\ UNCHANGED <<pass, arbQueue>>
    BY <1>2 DEF ArbAccept
  <2>3. Append(fds[a], p) \in Seq(Local(a))
    BY <1>1, <2>1, SeqTypes
  <2> QED BY <1>1, <1>u, <1>q, <2>2, <2>3
<1>3. ASSUME NEW b \in BOOLEAN, ArbPoll(a, b) PROVE PlaceInv'
  <2>1. Readable(a, b) \subseteq Local(a) \cup {Server}
    BY <1>1 DEF Readable, Accepted
  <2>2. pass' = [pass EXCEPT ![a] = Readable(a, b)] /\ UNCHANGED <<fds, arbQueue>>
    BY <1>3 DEF ArbPoll
  <2> QED BY <1>1, <1>u, <1>q, <2>1, <2>2
<1>4. ASSUME NEW p \in Procs, FromProcessStep(a, p) PROVE PlaceInv'
  <2>0. p \in Local(a)
    <3>1. p \in pass[a]
      BY <1>4 DEF FromProcessStep, ArbAddProc, ArbSyncRequest, ArbForwardSync,
                  ArbWaitBarr, ArbPrgmDone, FromProcess
    <3> QED BY <3>1, ReaderIsLocal
  <2>1. CASE ArbAddProc(a, p)
    BY <1>h, <1>p, <2>1 DEF ArbAddProc, ArbPanic
  <2>2. CASE ArbSyncRequest(a, p)
    <3>1. arbQueue' = [arbQueue EXCEPT ![a] = Append(arbQueue[a], p)] /\ UNCHANGED fds
      BY <2>2 DEF ArbSyncRequest, Enqueued
    <3>2. pass' = [pass EXCEPT ![a] = pass[a] \ {p}]
      BY <2>2 DEF ArbSyncRequest, HasRead
    <3>3. Append(arbQueue[a], p) \in Seq(Local(a))
      BY <1>1, <2>0, SeqTypes
    <3>4. pass[a] \ {p} \in SUBSET (Local(a) \cup {Server})
      BY <1>1
    <3> QED BY <1>1, <1>u, <1>q, <3>1, <3>2, <3>3, <3>4
  <2>3. CASE ArbForwardSync(a, p)
    <3>0. UNCHANGED fds
      BY <2>3 DEF ArbForwardSync
    <3>1. CASE UNCHANGED <<pass, arbQueue>>
      BY <1>p, <3>0, <3>1
    <3>2. CASE ~UNCHANGED <<pass, arbQueue>>
      <4>1. arbQueue[a] # << >> /\ arbQueue' = [arbQueue EXCEPT ![a] = Tail(arbQueue[a])]
        BY <2>3, <3>2 DEF ArbForwardSync
      <4>2. pass' = [pass EXCEPT ![a] = pass[a] \ {p}]
        BY <2>3, <3>2 DEF ArbForwardSync, HasRead
      <4>3. Tail(arbQueue[a]) \in Seq(Local(a))
        BY <1>1, <4>1, SeqTypes
      <4>4. pass[a] \ {p} \in SUBSET (Local(a) \cup {Server})
        BY <1>1
      <4> QED BY <1>1, <1>u, <1>q, <3>0, <4>1, <4>2, <4>3, <4>4
    <3> QED BY <3>1, <3>2
  <2>4. CASE ArbWaitBarr(a, p)
    BY <1>h, <2>4 DEF ArbWaitBarr
  <2>5. CASE ArbPrgmDone(a, p)
    <3>1. fds' = [fds EXCEPT ![a] = ShuffledDown(fds[a], Slot(a, p))] /\ UNCHANGED arbQueue
      BY <2>5 DEF ArbPrgmDone
    <3>2. pass' = [pass EXCEPT ![a] = (pass[a] \ {p}) \ SteppedOver(a, p)]
      BY <2>5 DEF ArbPrgmDone
    <3>3. ShuffledDown(fds[a], Slot(a, p)) \in Seq(Local(a))
      BY <1>1, ShuffledTypes
    <3>4. (pass[a] \ {p}) \ SteppedOver(a, p) \in SUBSET (Local(a) \cup {Server})
      BY <1>1
    <3> QED BY <1>1, <1>u, <1>q, <3>1, <3>2, <3>3, <3>4
  <2> QED BY <1>4, <2>1, <2>2, <2>3, <2>4, <2>5 DEF FromProcessStep
<1>5. CASE FromServerStep(a)
  <2>1. UNCHANGED <<fds, arbQueue>> /\ (HasRead(a, Server) \/ UNCHANGED pass)
    BY <1>5 DEF FromServerStep, ArbSetGid, ArbStopAll, ArbContAll, ArbWaitDone,
                ArbWriteOkay, ArbApplySync, ArbPanic
  <2> QED BY <1>h, <1>p, <2>1
<1>6. CASE ArbExit(a)
  BY <1>p, <1>6 DEF ArbExit
<1> QED BY <1>2, <1>3, <1>4, <1>5, <1>6 DEF ArbiterStep

LEMMA PlaceStep == TypeInv /\ PlaceInv /\ [Next]_vars => PlaceInv'
<1> SUFFICES ASSUME TypeInv, PlaceInv, [Next]_vars PROVE PlaceInv'
  OBVIOUS
<1>1. UNCHANGED <<fds, pass, arbQueue>> => PlaceInv'
  BY DEF PlaceInv, Local
<1>2. UNCHANGED arbVars => PlaceInv'
  BY <1>1 DEF arbVars
<1>3. ASSUME NEW a \in Arbiters, ServerActs(a) PROVE PlaceInv'
  BY <1>2, <1>3 DEF ServerActs, ServerLosesArbiter
<1>4. ASSUME NEW a \in Arbiters, ArbiterActs(a) PROVE PlaceInv'
  <2>1. CASE ArbiterStep(a)
    BY <2>1, PlaceArbiter DEF TypeInv
  <2>2. CASE ArbiterLosesServer(a) \/ \E p \in Procs : ArbiterLosesProcess(a, p)
    BY <1>1, <2>2 DEF ArbiterLosesServer, ArbiterLosesProcess
  <2> QED BY <1>4, <2>1, <2>2 DEF ArbiterActs
<1>5. ASSUME NEW p \in Procs, ProcessActs(p) \/ Kill(p) PROVE PlaceInv'
  BY <1>2, <1>5 DEF ProcessActs, ProcessLosesArbiter, Kill
<1>6. CASE UNCHANGED vars
  BY <1>2, <1>6 DEF vars
<1> QED
  <2>1. Killable \subseteq Procs
    BY KillableAssumption
  <2> QED BY <1>3, <1>4, <1>5, <1>6, <2>1 DEF Next

-----------------------------------------------------------------------------
(* There is one grant at most: who holds it excludes everybody else.       *)
LEMMA OneGrant ==
  ASSUME GrantInv
  PROVE  /\ \A a, b \in Arbiters : (Sent(a) \/ Returned(a)) /\ (Sent(b) \/ Returned(b)) => a = b
         /\ \A p, q \in Procs : Holds(p) /\ Holds(q) => p = q
         /\ \A a \in Arbiters, p \in Procs : Holds(p) => ~Sent(a) /\ ~Returned(a)
         /\ step # "WAITING_SYNC_INFO" => NoGrant
<1>1. \A p \in Procs : Home[p] \in Arbiters
  BY HomeAssumption
<1>2. ASSUME NEW a \in Arbiters, NEW p \in Procs, Holds(p) PROVE ~Sent(a) /\ ~Returned(a)
  <2>1. OnTurn(Home[p]) /\ ~Sent(Home[p]) /\ ~Returned(Home[p])
    BY <1>2 DEF GrantInv, InOrder, Apart
  <2> QED BY <2>1 DEF GrantInv, InOrder, OnTurn
<1>3. ASSUME NEW p \in Procs, NEW q \in Procs, Holds(p), Holds(q) PROVE p = q
  BY <1>3 DEF GrantInv, InOrder, OnTurn, AtHead
<1>4. ASSUME NEW a \in Arbiters, NEW b \in Arbiters,
             Sent(a) \/ Returned(a), Sent(b) \/ Returned(b)
      PROVE  a = b
  BY <1>4 DEF GrantInv, InOrder, OnTurn
<1>5. step # "WAITING_SYNC_INFO" => NoGrant
  BY DEF GrantInv, InOrder, OnTurn, NoGrant
<1> QED BY <1>2, <1>3, <1>4, <1>5

(* A step that neither makes nor moves the grant keeps the invariant.      *)
LEMMA GrantKept ==
  ASSUME GrantInv, AtMostOnce',
         \A a \in Arbiters : (Sent(a)' => Sent(a)) /\ (Returned(a)' => Returned(a)),
         \A p \in Procs : /\ Passed(p)' => Passed(p)
                          /\ Writable(p)' => Writable(p)
                          /\ Returning(p)' => Returning(p),
         \A a \in Arbiters : OnTurn(a) => OnTurn(a)',
         \A p \in Procs : Holds(p) /\ AtHead(p) => AtHead(p)'
  PROVE  GrantInv'
<1>1. \A p \in Procs : Holds(p)' => Holds(p)
  BY DEF Holds
<1>2. \A p \in Procs : Home[p] \in Arbiters
  BY HomeAssumption
<1>3. Apart'
  BY <1>1, <1>2 DEF GrantInv, Apart
<1>4. InOrder'
  BY <1>1, <1>2 DEF GrantInv, InOrder
<1> QED BY <1>3, <1>4 DEF GrantInv

(* A grant made when there is none, for the arbiter whose turn it is.      *)
LEMMA GrantMade ==
  ASSUME NEW b \in Arbiters, OnTurn(b)', Once(s2a, b, "WRITE_OKAY")',
         \A a \in Arbiters : (Sent(a)' => a = b) /\ ~Returned(a)',
         \A p \in Procs : ~Holds(p)'
  PROVE  GrantInv'
<1>1. AtMostOnce'
  BY DEF AtMostOnce, Sent, Returned, Holds, Passed, Returning, Has, Once
<1>2. Apart' /\ InOrder'
  BY DEF Apart, InOrder
<1> QED BY <1>1, <1>2 DEF GrantInv

LEMMA NoGrantSafe == NoGrant' => GrantInv'
BY DEF NoGrant, GrantInv, AtMostOnce, Apart, InOrder,
       Sent, Returned, Holds, Passed, Returning, Has, Once

LEMMA GrantInit == Init => GrantInv
<1> SUFFICES ASSUME Init PROVE GrantInv
  OBVIOUS
<1>1. /\ \A p \in Procs : p2a[p] = << >> /\ a2p[p] = << >> /\ loc[p] = "connect"
      /\ \A a \in Arbiters : a2s[a] = << >> /\ s2a[a] = << >>
  BY DEF Init, NetInit, ProcessInit
<1>2. DOMAIN << >> = {}
  OBVIOUS
<1>3. /\ \A p \in Procs : \A t : /\ ~Has(p2a, p, t) /\ ~Has(a2p, p, t)
                                 /\ Once(p2a, p, t) /\ Once(a2p, p, t)
      /\ \A a \in Arbiters : \A t : /\ ~Has(a2s, a, t) /\ ~Has(s2a, a, t)
                                    /\ Once(a2s, a, t) /\ Once(s2a, a, t)
  BY <1>1, <1>2 DEF Has, Once
<1> QED BY <1>1, <1>3 DEF GrantInv, AtMostOnce, Apart, InOrder, Sent, Returned,
                          Holds, Passed, Returning, Writable

-----------------------------------------------------------------------------
(* The server makes the grant, and ends it.                                *)
LEMMA GrantServer ==
  ASSUME TypeOK, GrantInv, NEW a \in Arbiters, ServerStep(a),
         UNCHANGED <<arbVars, procVars, p2a, a2p, signals, mem>>
  PROVE  GrantInv'
<1> DEFINE WO == "WRITE_OKAY"
           SI == "SYNC_INFO"
<1>0. /\ a2s \in [Arbiters -> Seq(Message)] /\ s2a \in [Arbiters -> Seq(Message)]
      /\ opqueue \in Seq(Arbiters) /\ nproc_synced \in Nat
  BY DEF TypeOK, NetTypeOK, ServerTypeOK
<1>f. \A p \in Procs : /\ Passed(p)' <=> Passed(p)
                       /\ Writable(p)' <=> Writable(p)
                       /\ Returning(p)' <=> Returning(p)
                       /\ Holds(p)' <=> Holds(p)
                       /\ AtHead(p)' <=> AtHead(p)
                       /\ Once(a2p, p, WO)' <=> Once(a2p, p, WO)
                       /\ Once(p2a, p, SI)' <=> Once(p2a, p, SI)
  BY DEF arbVars, procVars, Passed, Writable, Returning, Holds, AtHead, Has, Once
(* Either nothing is received, or a message is taken from a.               *)
<1>c. ASSUME NEW t, SrvReceive(a, t)
      PROVE  /\ \A b \in Arbiters : (Returned(b)' => Returned(b)) /\ Once(a2s, b, SI)'
             /\ t = SI => Returned(a) /\ ~Returned(a)'
             /\ Head(a2s[a]) \in Message /\ Head(a2s[a]).type = t
  <2>1. /\ a2s[a] # << >> /\ Head(a2s[a]).type = t /\ a2s' = Consume(a2s, a)
        /\ Head(a2s[a]) \in Message
    BY <1>0, <1>c, ChannelTypes DEF SrvReceive, Waiting
  <2>2. \A b \in Arbiters : Once(a2s, b, SI)
    BY DEF GrantInv, AtMostOnce
  <2>3. \A b \in Arbiters : /\ Has(Consume(a2s, a), b, SI) => Has(a2s, b, SI)
                            /\ Once(Consume(a2s, a), b, SI)
    BY <1>0, <2>1, <2>2, ConsumeHas
  <2>4. t = SI => Has(a2s, a, SI) /\ ~Has(Consume(a2s, a), a, SI)
    BY <1>0, <2>1, <2>2, ConsumeHas
  <2>5. \A b \in Arbiters : (Returned(b)' => Returned(b)) /\ Once(a2s, b, SI)'
    BY <2>1, <2>3 DEF Returned, Has, Once
  <2>6. t = SI => Returned(a) /\ ~Returned(a)'
    BY <2>1, <2>4 DEF Returned, Has
  <2> QED BY <2>1, <2>5, <2>6
(* A handler that sends no grant.                                          *)
<1>k. ASSUME \A b \in Arbiters : (Returned(b)' => Returned(b)) /\ Once(a2s, b, SI)',
             \A b \in Arbiters : (Sent(b)' => Sent(b)) /\ Once(s2a, b, WO)',
             \A b \in Arbiters : OnTurn(b) => OnTurn(b)'
      PROVE  GrantInv'
  <2>1. AtMostOnce'
    BY <1>f, <1>k DEF GrantInv, AtMostOnce
  <2> QED BY <1>f, <1>k, <2>1, GrantKept
<1>s. ASSUME NEW m \in Message, m.type # WO,
             \/ UNCHANGED s2a
             \/ \E b \in Arbiters : s2a' = Send(s2a, b, m)
             \/ \E S : s2a' = SendAll(s2a, S, m)
      PROVE  \A b \in Arbiters : (Sent(b)' => Sent(b)) /\ Once(s2a, b, WO)'
  <2>1. \A b \in Arbiters : Once(s2a, b, WO)
    BY DEF GrantInv, AtMostOnce
  <2>2. CASE UNCHANGED s2a
    BY <2>1, <2>2 DEF Sent, Has, Once
  <2>3. ASSUME NEW b \in Arbiters, s2a' = Send(s2a, b, m)
        PROVE  \A c \in Arbiters : (Sent(c)' => Sent(c)) /\ Once(s2a, c, WO)'
    <3>1. \A c \in Arbiters : /\ Has(Send(s2a, b, m), c, WO) => Has(s2a, c, WO)
                              /\ Once(Send(s2a, b, m), c, WO)
      <4>1. m.type # WO
        BY <1>s
      <4>2. s2a \in [Arbiters -> Seq(Message)]
        BY <1>0
      <4> QED BY <2>1, <4>1, <4>2, SendHas
    <3> QED BY <2>3, <3>1 DEF Sent, Has, Once
  <2>4. ASSUME NEW S, s2a' = SendAll(s2a, S, m)
        PROVE  \A c \in Arbiters : (Sent(c)' => Sent(c)) /\ Once(s2a, c, WO)'
    <3>1. \A c \in Arbiters : /\ Has(SendAll(s2a, S, m), c, WO) => Has(s2a, c, WO)
                              /\ Once(SendAll(s2a, S, m), c, WO)
      <4>1. m.type # WO
        BY <1>s
      <4>2. s2a \in [Arbiters -> Seq(Message)]
        BY <1>0
      <4> QED BY <2>1, <4>1, <4>2, SendAllHas
    <3> QED BY <2>4, <3>1 DEF Sent, Has, Once
  <2> QED BY <1>s, <2>2, <2>3, <2>4
<1>m. \A t \in SimpleTypes : Simple(t) \in Message /\ Simple(t).type = t
  BY MessageTypes DEF Simple
<1>t. UNCHANGED <<step, opqueue>> => \A b \in Arbiters : OnTurn(b) => OnTurn(b)'
  BY DEF OnTurn
<1>u. UNCHANGED s2a => \A b \in Arbiters : (Sent(b)' => Sent(b)) /\ Once(s2a, b, WO)'
  BY DEF GrantInv, AtMostOnce, Sent, Has, Once
<1>p. ASSUME NEW t, SrvReceive(a, t), SrvPanic PROVE GrantInv'
  BY <1>c, <1>k, <1>p, <1>t, <1>u DEF SrvPanic, writeVars
(* A handler that makes a grant, when there is none.                       *)
<1>g. ASSUME \A b \in Arbiters : ~Sent(b) /\ ~Returned(b)', \A p \in Procs : ~Holds(p),
             NEW b \in Arbiters, s2a' = Send(s2a, b, Simple(WO)), OnTurn(b)'
      PROVE  GrantInv'
  <2>1. Simple(WO) \in Message
    BY <1>m DEF SimpleTypes
  <2>2. \A c \in Arbiters : /\ Has(Send(s2a, b, Simple(WO)), c, WO) => c = b
                            /\ Once(Send(s2a, b, Simple(WO)), c, WO)
    <3>1. \A c \in Arbiters : Once(s2a, c, WO) /\ ~Has(s2a, c, WO)
      BY <1>g DEF GrantInv, AtMostOnce, Sent
    <3> SUFFICES ASSUME NEW c \in Arbiters
                 PROVE  /\ Has(Send(s2a, b, Simple(WO)), c, WO) => c = b
                        /\ Once(Send(s2a, b, Simple(WO)), c, WO)
      OBVIOUS
    <3>2. s2a \in [Arbiters -> Seq(Message)]
      BY <1>0
    <3> QED BY <2>1, <3>1, <3>2, SendHas
  <2>3. \A c \in Arbiters : (Sent(c)' => c = b) /\ Once(s2a, c, WO)'
    BY <1>g, <2>2 DEF Sent, Has, Once
  <2> QED BY <1>f, <1>g, <2>3, GrantMade
<1>n. ASSUME NEW n, \A b \in Arbiters : ~Sent(b) /\ ~Returned(b)', \A p \in Procs : ~Holds(p),
             AllSynced(n) => opqueue # << >>, Synced(n)
      PROVE  GrantInv'
  <2>1. CASE ~AllSynced(n)
    <3>1. UNCHANGED s2a
      BY <1>n, <2>1 DEF Synced
    <3> QED BY <1>f, <1>n, <1>u, <3>1, NoGrantSafe DEF NoGrant
  <2>2. CASE AllSynced(n) /\ Tail(opqueue) = << >>
    <3>1. s2a' = SendAll(s2a, conns, Simple("CONT_ALL"))
      BY <1>n, <2>2 DEF Synced
    <3>2. \A b \in Arbiters : Sent(b)' => Sent(b)
      BY <1>m, <1>s, <3>1 DEF SimpleTypes
    <3> QED BY <1>f, <1>n, <3>2, NoGrantSafe DEF NoGrant
  <2>3. CASE AllSynced(n) /\ Tail(opqueue) # << >>
    <3>1. PICK b \in Arbiters : b = Head(Tail(opqueue))
      <4>1. Tail(opqueue) \in Seq(Arbiters)
        BY <1>0, <1>n, <2>3, SeqTypes
      <4> QED BY <2>3, <4>1, SeqTypes
    <3>2. s2a' = Send(s2a, b, Simple(WO))
      BY <1>n, <2>3, <3>1 DEF Synced
    <3>3. step' = "WAITING_SYNC_INFO" /\ opqueue' = Tail(opqueue)
      BY <1>n, <2>3 DEF Synced, StepAfter
    <3>4. OnTurn(b)'
      BY <2>3, <3>1, <3>3 DEF OnTurn
    <3> QED BY <1>g, <1>n, <3>1, <3>2, <3>4
  <2> QED BY <2>1, <2>2, <2>3
<1> HIDE DEF WO, SI
<1>1. CASE SrvAccept(a)
  <2>1. UNCHANGED <<a2s, s2a, step, opqueue>>
    BY <1>1 DEF SrvAccept, writeVars
  <2>2. \A b \in Arbiters : (Returned(b)' => Returned(b)) /\ Once(a2s, b, SI)'
    BY <2>1 DEF GrantInv, AtMostOnce, Returned, Has, Once, SI
  <2> QED BY <1>k, <1>t, <1>u, <2>1, <2>2
<1>2. CASE SrvAddProc(a)
  <2>1. CASE SrvPanic
    BY <1>2, <1>p, <2>1 DEF SrvAddProc
  <2>2. CASE ~SrvPanic
    <3> DEFINE m == SetGid(Head(a2s[a]).pid, gid)
               replied == Send(s2a, a, m)
    <3>1. m \in Message /\ m.type # WO
      <4>1. Head(a2s[a]).pid \in Procs /\ gid \in Nat
        BY <1>2, <1>c, PayloadTypes DEF SrvAddProc, TypeOK, ServerTypeOK
      <4> QED BY <4>1, MessageTypes DEF SetGid, WO
    <3>2. s2a' = replied \/ s2a' = SendAll(replied, conns, Simple("WAIT_DONE"))
      BY <1>2, <2>2 DEF SrvAddProc
    <3>3. replied \in [Arbiters -> Seq(Message)]
      BY <1>0, <3>1, ChannelTypes
    <3>4. \A b \in Arbiters : Once(s2a, b, WO)
      BY DEF GrantInv, AtMostOnce, WO
    <3>5. \A b \in Arbiters : (Has(replied, b, WO) => Has(s2a, b, WO)) /\ Once(replied, b, WO)
      <4> HIDE DEF m
      <4> SUFFICES ASSUME NEW b \in Arbiters
                   PROVE  (Has(replied, b, WO) => Has(s2a, b, WO)) /\ Once(replied, b, WO)
        OBVIOUS
      <4>1. /\ Has(replied, b, WO) <=> Has(s2a, b, WO) \/ (b = a /\ m.type = WO)
            /\ Once(s2a, b, WO) /\ ~(b = a /\ m.type = WO /\ Has(s2a, b, WO)) => Once(replied, b, WO)
        BY <1>0, <3>1, SendHas
      <4> QED BY <3>1, <3>4, <4>1
    <3>6. Simple("WAIT_DONE") \in Message /\ Simple("WAIT_DONE").type # WO
      BY <1>m DEF SimpleTypes, WO
    <3> HIDE DEF replied
    <3>7. \A b \in Arbiters :
             /\ Has(SendAll(replied, conns, Simple("WAIT_DONE")), b, WO) => Has(s2a, b, WO)
             /\ Once(SendAll(replied, conns, Simple("WAIT_DONE")), b, WO)
      BY <3>3, <3>5, <3>6, SendAllHas
    <3>8. \A b \in Arbiters : (Sent(b)' => Sent(b)) /\ Once(s2a, b, WO)'
      BY <3>2, <3>5, <3>7 DEF Sent, Has, Once, WO
    <3>9. UNCHANGED <<step, opqueue>>
      BY <1>2, <2>2 DEF SrvAddProc, writeVars
    <3> QED BY <1>2, <1>c, <1>k, <1>t, <3>8, <3>9 DEF SrvAddProc
  <2> QED BY <2>1, <2>2
<1>3. CASE SrvSyncRequest(a)
  <2>1. CASE SrvPanic
    BY <1>3, <1>p, <2>1 DEF SrvSyncRequest
  <2>2. CASE ~SrvPanic
    <3>1. s2a' = s2a \/ s2a' = SendAll(s2a, conns, Simple("STOP_ALL"))
      BY <1>3, <2>2 DEF SrvSyncRequest
    <3>2. \A b \in Arbiters : (Sent(b)' => Sent(b)) /\ Once(s2a, b, WO)'
      BY <1>m, <1>s, <3>1 DEF SimpleTypes, WO
    <3>3. \A b \in Arbiters : OnTurn(b) => OnTurn(b)'
      <4>1. opqueue' = Append(opqueue, a) /\ (opqueue # << >> => UNCHANGED step)
        BY <1>3, <2>2 DEF SrvSyncRequest
      <4>2. opqueue # << >> => Head(Append(opqueue, a)) = Head(opqueue)
        BY <1>0, AppendPlaces
      <4>3. Append(opqueue, a) # << >>
        BY <1>0, SeqTypes
      <4> QED BY <4>1, <4>2, <4>3 DEF OnTurn
    <3> QED BY <1>3, <1>c, <1>k, <3>2, <3>3 DEF SrvSyncRequest
  <2> QED BY <2>1, <2>2
<1>4. CASE SrvStopDone(a)
  <2>1. CASE SrvPanic
    BY <1>4, <1>p, <2>1 DEF SrvStopDone
  <2>2. CASE ~SrvPanic /\ UNCHANGED <<s2a, step>>
    <3>1. UNCHANGED opqueue
      BY <1>4, <2>2 DEF SrvStopDone
    <3> QED BY <1>4, <1>c, <1>k, <1>t, <1>u, <2>2, <3>1 DEF SrvStopDone
  <2>3. CASE ~SrvPanic /\ ~UNCHANGED <<s2a, step>>
    <3>1. /\ step = "WAITING_STOP_ACK" /\ opqueue # << >>
          /\ s2a' = Send(s2a, Head(opqueue), Simple(WO))
          /\ step' = "WAITING_SYNC_INFO" /\ opqueue' = opqueue
      BY <1>4, <2>3 DEF SrvStopDone, WO
    <3>2. NoGrant
      BY <3>1, OneGrant
    <3>3. PICK b \in Arbiters : b = Head(opqueue)
      BY <1>0, <3>1, SeqTypes
    <3>4. OnTurn(b)'
      BY <3>1, <3>3 DEF OnTurn
    <3>5. \A c \in Arbiters : ~Sent(c) /\ ~Returned(c)'
      BY <1>4, <1>c, <3>2 DEF SrvStopDone, NoGrant
    <3> QED BY <1>g, <3>1, <3>2, <3>3, <3>4, <3>5 DEF NoGrant
  <2> QED BY <2>1, <2>2, <2>3
<1>5. CASE SrvSyncInfo(a)
  <2>0. Returned(a) /\ ~Returned(a)'
    BY <1>5, <1>c DEF SrvSyncInfo, SI
  <2>1. CASE SrvPanic
    BY <1>5, <1>p, <2>1 DEF SrvSyncInfo
  <2>2. /\ \A b \in Arbiters : ~Sent(b) /\ ~Returned(b)'
        /\ \A p \in Procs : ~Holds(p)
    <3>1. \A b \in Arbiters : Returned(b)' => Returned(b)
      BY <1>5, <1>c DEF SrvSyncInfo
    <3>2. ~Sent(a)
      BY <2>0 DEF GrantInv, Apart
    <3> QED BY <2>0, <3>1, <3>2, OneGrant
  <2>3. CASE ~SrvPanic /\ Cardinality(conns) = 1
    <3>1. Synced(NProc) /\ opqueue # << >>
      BY <1>5, <2>3 DEF SrvSyncInfo, IsWriter
    <3> QED BY <1>n, <2>2, <3>1
  <2>4. CASE ~SrvPanic /\ Cardinality(conns) # 1
    <3>1. s2a' = SendAll(s2a, conns, Head(a2s[a]))
      BY <1>5, <2>4 DEF SrvSyncInfo
    <3>2. Head(a2s[a]) \in Message /\ Head(a2s[a]).type # WO
      BY <1>5, <1>c DEF SrvSyncInfo, WO
    <3>3. \A b \in Arbiters : Sent(b)' => Sent(b)
      BY <1>s, <3>1, <3>2 DEF WO
    <3> QED BY <1>f, <2>2, <3>3, NoGrantSafe DEF NoGrant
  <2> QED BY <2>1, <2>3, <2>4
<1>6. CASE SrvSyncDone(a)
  <2>1. CASE SrvPanic
    BY <1>6, <1>p, <2>1 DEF SrvSyncDone
  <2>2. CASE ~SrvPanic
    <3> DEFINE n == Head(a2s[a]).nproc
    <3>1. step = "WAITING_SYNC_ACK" /\ (AllSynced(n) => opqueue # << >>) /\ Synced(n)
      BY <1>6, <2>2 DEF SrvSyncDone
    <3>2. NoGrant
      BY <3>1, OneGrant
    <3>3. \A b \in Arbiters : ~Sent(b) /\ ~Returned(b)'
      BY <1>6, <1>c, <3>2 DEF SrvSyncDone, NoGrant
    <3> QED BY <1>n, <3>1, <3>2, <3>3 DEF NoGrant
  <2> QED BY <2>1, <2>2
<1>7. CASE SrvWaitBarr(a)
  <2>1. CASE SrvPanic
    BY <1>7, <1>p, <2>1 DEF SrvWaitBarr
  <2>2. CASE ~SrvPanic
    <3>1. s2a' = s2a \/ s2a' = SendAll(s2a, conns, Simple("WAIT_DONE"))
      BY <1>7, <2>2 DEF SrvWaitBarr
    <3>2. \A b \in Arbiters : (Sent(b)' => Sent(b)) /\ Once(s2a, b, WO)'
      BY <1>m, <1>s, <3>1 DEF SimpleTypes, WO
    <3>3. UNCHANGED <<step, opqueue>>
      BY <1>7, <2>2 DEF SrvWaitBarr, writeVars
    <3> QED BY <1>7, <1>c, <1>k, <1>t, <3>2, <3>3 DEF SrvWaitBarr
  <2> QED BY <2>1, <2>2
<1>8. CASE SrvPrgmDone(a)
  <2>1. CASE SrvPanic
    BY <1>8, <1>p, <2>1 DEF SrvPrgmDone
  <2>2. CASE ~SrvPanic
    <3>1. UNCHANGED <<s2a, step, opqueue>>
      BY <1>8, <2>2 DEF SrvPrgmDone, writeVars
    <3> QED BY <1>8, <1>c, <1>k, <1>t, <1>u, <3>1 DEF SrvPrgmDone
  <2> QED BY <2>1, <2>2
<1> QED BY <1>1, <1>2, <1>3, <1>4, <1>5, <1>6, <1>7, <1>8 DEF ServerStep

-----------------------------------------------------------------------------
(* The grant, and everything about it that a step of an arbiter or of a    *)
(* process leaves alone, read off the channels and queues it changes.      *)
LEMMA HasIsLocal ==
  /\ UNCHANGED s2a => \A a \in Arbiters :
       (Sent(a)' => Sent(a)) /\ (Once(s2a, a, "WRITE_OKAY") => Once(s2a, a, "WRITE_OKAY")')
  /\ UNCHANGED a2s => \A a \in Arbiters :
       (Returned(a)' => Returned(a)) /\ (Once(a2s, a, "SYNC_INFO") => Once(a2s, a, "SYNC_INFO")')
  /\ UNCHANGED a2p => \A p \in Procs :
       (Passed(p)' => Passed(p)) /\ (Once(a2p, p, "WRITE_OKAY") => Once(a2p, p, "WRITE_OKAY")')
  /\ UNCHANGED p2a => \A p \in Procs :
       (Returning(p)' => Returning(p)) /\ (Once(p2a, p, "SYNC_INFO") => Once(p2a, p, "SYNC_INFO")')
  /\ UNCHANGED loc => \A p \in Procs : Writable(p)' => Writable(p)
  /\ UNCHANGED arbQueue => \A p \in Procs : AtHead(p) => AtHead(p)'
  /\ UNCHANGED <<step, opqueue>> => \A a \in Arbiters : OnTurn(a) => OnTurn(a)'
BY DEF Sent, Returned, Passed, Returning, Writable, AtHead, OnTurn, Has, Once

(* An arbiter reading a process's message: it may pass on the data, and so *)
(* the grant, or change its queue behind the head.                         *)
LEMMA GrantFromProcess ==
  ASSUME TypeOK, PlaceInv, GrantInv, NEW a \in Arbiters, NEW p \in Procs,
         FromProcessStep(a, p), UNCHANGED <<serverVars, procVars>>
  PROVE  GrantInv'
<1>0. /\ a2s \in [Arbiters -> Seq(Message)] /\ p2a \in [Procs -> Seq(Message)]
      /\ arbQueue \in [Arbiters -> Seq(Procs)]
  BY DEF TypeOK, NetTypeOK, ArbiterTypeOK
<1> DEFINE m == Head(p2a[p])
<1>1. /\ p \in pass[a] /\ p2a[p] # << >> /\ p2a' = Consume(p2a, p)
      /\ UNCHANGED s2a
  BY DEF FromProcessStep, ArbAddProc, ArbSyncRequest, ArbForwardSync, ArbWaitBarr,
         ArbPrgmDone, FromProcess, Waiting
<1>2. Home[p] = a
  BY <1>1, ReaderIsLocal
<1>3. m \in Message
  BY <1>0, <1>1, ChannelTypes
<1>4. UNCHANGED <<loc, step, opqueue, a2p>>
  <2>1. UNCHANGED a2p
    BY DEF FromProcessStep, ArbAddProc, ArbSyncRequest, ArbForwardSync, ArbWaitBarr,
           ArbPrgmDone, ArbPanic
  <2> QED BY <2>1 DEF procVars, serverVars, writeVars
<1>5. /\ \A b \in Arbiters : Once(s2a, b, "WRITE_OKAY") /\ Once(a2s, b, "SYNC_INFO")
      /\ \A q \in Procs : Once(a2p, q, "WRITE_OKAY") /\ Once(p2a, q, "SYNC_INFO")
  BY DEF GrantInv, AtMostOnce
(* What is left of the process's messages.                                 *)
<1>6. /\ \A q \in Procs : (Returning(q)' => Returning(q)) /\ Once(p2a, q, "SYNC_INFO")'
      /\ m.type = "SYNC_INFO" => Returning(p) /\ ~Returning(p)'
  <2>1. /\ \A q \in Procs : /\ Has(Consume(p2a, p), q, "SYNC_INFO") => Has(p2a, q, "SYNC_INFO")
                            /\ Once(Consume(p2a, p), q, "SYNC_INFO")
    BY <1>0, <1>1, <1>5, ConsumeHas
  <2>2. m.type = "SYNC_INFO" => /\ Has(p2a, p, "SYNC_INFO")
                                /\ ~Has(Consume(p2a, p), p, "SYNC_INFO")
    BY <1>0, <1>1, <1>5, ConsumeHas
  <2> HIDE DEF m
  <2> QED BY <1>1, <2>1, <2>2 DEF Returning, Has, Once
<1> HIDE DEF m
<1>7. /\ \A b \in Arbiters : (Sent(b)' => Sent(b)) /\ Once(s2a, b, "WRITE_OKAY")'
      /\ \A q \in Procs : (Passed(q)' => Passed(q)) /\ Once(a2p, q, "WRITE_OKAY")'
      /\ \A q \in Procs : Writable(q)' => Writable(q)
      /\ \A b \in Arbiters : OnTurn(b) => OnTurn(b)'
  BY <1>1, <1>4, <1>5, HasIsLocal
(* A handler that passes no data on.                                       *)
<1>s. ASSUME NEW x \in Message, x.type # "SYNC_INFO",
             UNCHANGED a2s \/ a2s' = Send(a2s, a, x)
      PROVE  \A b \in Arbiters : (Returned(b)' => Returned(b)) /\ Once(a2s, b, "SYNC_INFO")'
  <2>1. CASE UNCHANGED a2s
    BY <1>5, <2>1, HasIsLocal
  <2>2. CASE a2s' = Send(a2s, a, x)
    <3>1. \A b \in Arbiters : /\ Has(Send(a2s, a, x), b, "SYNC_INFO") => Has(a2s, b, "SYNC_INFO")
                              /\ Once(Send(a2s, a, x), b, "SYNC_INFO")
      BY <1>0, <1>5, <1>s, SendHas
    <3> QED BY <2>2, <3>1 DEF Returned, Has, Once
  <2> QED BY <1>s, <2>1, <2>2
<1>k. ASSUME \A b \in Arbiters : (Returned(b)' => Returned(b)) /\ Once(a2s, b, "SYNC_INFO")',
             \A q \in Procs : AtHead(q) => AtHead(q)'
      PROVE  GrantInv'
  <2>1. AtMostOnce'
    BY <1>6, <1>7, <1>k DEF AtMostOnce
  <2> QED BY <1>6, <1>7, <1>k, <2>1, GrantKept
<1>8. CASE ArbAddProc(a, p)
  <2>1. m.type = "ADD_PROC" /\ (UNCHANGED a2s \/ a2s' = Send(a2s, a, m)) /\ UNCHANGED arbQueue
    BY <1>8 DEF ArbAddProc, ArbPanic, FromProcess, Waiting, m
  <2> QED BY <1>3, <1>k, <1>s, <2>1, HasIsLocal
<1>9. CASE ArbSyncRequest(a, p)
  <2>1. a2s' = Send(a2s, a, Simple("SYNC_REQ")) /\ arbQueue' = [arbQueue EXCEPT ![a] = Append(arbQueue[a], p)]
    BY <1>9 DEF ArbSyncRequest, Enqueued
  <2>2. Simple("SYNC_REQ") \in Message /\ Simple("SYNC_REQ").type # "SYNC_INFO"
    BY MessageTypes DEF Simple, SimpleTypes
  <2>3. \A q \in Procs : AtHead(q) => AtHead(q)'
    <3>1. Append(arbQueue[a], p) # << >>
          /\ (arbQueue[a] # << >> => Head(Append(arbQueue[a], p)) = Head(arbQueue[a]))
      <4>1. arbQueue[a] \in Seq(Procs)
        BY <1>0
      <4> QED BY <4>1, AppendPlaces, SeqTypes
    <3>2. /\ arbQueue'[a] = Append(arbQueue[a], p)
          /\ \A b \in Arbiters : b # a => arbQueue'[b] = arbQueue[b]
      BY <1>0, <2>1
    <3>3. \A q \in Procs : Home[q] \in Arbiters
      BY HomeAssumption
    <3> QED BY <3>1, <3>2, <3>3 DEF AtHead
  <2> QED BY <1>k, <1>s, <2>1, <2>2, <2>3
<1>10. CASE ArbForwardSync(a, p)
  <2>1. m.type = "SYNC_INFO" /\ a2s' = Send(a2s, a, m)
    BY <1>10 DEF ArbForwardSync, FromProcess, Waiting, m
  <2>2. Returning(p) /\ ~Returning(p)' /\ Holds(p)
    BY <1>6, <2>1 DEF Holds
  <2>3. OnTurn(a) /\ \A b \in Arbiters : ~Sent(b) /\ ~Returned(b)
    BY <1>2, <2>2, OneGrant DEF GrantInv, InOrder
  <2>4. ~Passed(p) /\ ~Writable(p) /\ \A q \in Procs : Holds(q) => q = p
    BY <2>2, OneGrant DEF GrantInv, Apart
  <2>5. \A q \in Procs : ~Holds(q)'
    BY <1>6, <1>7, <2>2, <2>4 DEF Holds
  <2>6. \A b \in Arbiters : (Returned(b)' => b = a) /\ Once(a2s, b, "SYNC_INFO")'
    <3>1. \A b \in Arbiters : ~Has(a2s, b, "SYNC_INFO")
      BY <2>3 DEF Returned
    <3>2. \A b \in Arbiters : /\ Has(Send(a2s, a, m), b, "SYNC_INFO") => b = a
                              /\ Once(Send(a2s, a, m), b, "SYNC_INFO")
      <4>1. \A b \in Arbiters : Once(a2s, b, "SYNC_INFO")
        BY <1>5
      <4>2. a2s \in [Arbiters -> Seq(Message)]
        BY <1>0
      <4> QED BY <1>3, <3>1, <4>1, <4>2, SendHas
    <3> QED BY <2>1, <3>2 DEF Returned, Has, Once
  <2>7. AtMostOnce'
    BY <1>6, <1>7, <2>6 DEF AtMostOnce
  <2>8. Apart'
    BY <1>7, <2>3, <2>5 DEF Apart
  <2>9. InOrder'
    BY <1>7, <2>3, <2>5, <2>6 DEF InOrder
  <2> QED BY <2>7, <2>8, <2>9 DEF GrantInv
<1>11. CASE ArbWaitBarr(a, p)
  <2>1. m.type = "WAIT_BARR" /\ a2s' = Send(a2s, a, m) /\ UNCHANGED arbQueue
    BY <1>11 DEF ArbWaitBarr, FromProcess, Waiting, m
  <2> QED BY <1>3, <1>k, <1>s, <2>1, HasIsLocal
<1>12. CASE ArbPrgmDone(a, p)
  <2>1. UNCHANGED <<a2s, arbQueue>>
    BY <1>12 DEF ArbPrgmDone
  <2> QED BY <1>5, <1>k, <2>1, HasIsLocal
<1> QED BY <1>8, <1>9, <1>10, <1>11, <1>12 DEF FromProcessStep

(* An arbiter reading a message of the server: the grant goes to the head  *)
(* of its queue.                                                           *)
LEMMA GrantFromServer ==
  ASSUME TypeOK, PlaceInv, GrantInv, NEW a \in Arbiters,
         FromServerStep(a), UNCHANGED <<serverVars, procVars>>
  PROVE  GrantInv'
<1>0. /\ a2s \in [Arbiters -> Seq(Message)] /\ s2a \in [Arbiters -> Seq(Message)]
      /\ a2p \in [Procs -> Seq(Message)]
  BY DEF TypeOK, NetTypeOK
<1> DEFINE m == Head(s2a[a])
<1>1. /\ s2a[a] # << >> /\ s2a' = Consume(s2a, a) /\ UNCHANGED <<p2a, arbQueue>>
  BY DEF FromServerStep, ArbSetGid, ArbStopAll, ArbContAll, ArbWaitDone, ArbWriteOkay,
         ArbApplySync, ArbPanic, FromServer, Waiting
<1>2. m \in Message
  BY <1>0, <1>1, ChannelTypes
<1>3. UNCHANGED <<loc, step, opqueue>>
  BY DEF procVars, serverVars, writeVars
<1>4. /\ \A b \in Arbiters : Once(s2a, b, "WRITE_OKAY") /\ Once(a2s, b, "SYNC_INFO")
      /\ \A q \in Procs : Once(a2p, q, "WRITE_OKAY") /\ Once(p2a, q, "SYNC_INFO")
  BY DEF GrantInv, AtMostOnce
(* What is left of the server's messages.                                  *)
<1>5. /\ \A b \in Arbiters : (Sent(b)' => Sent(b)) /\ Once(s2a, b, "WRITE_OKAY")'
      /\ m.type = "WRITE_OKAY" => Sent(a) /\ ~Sent(a)'
  <2>1. \A b \in Arbiters : /\ Has(Consume(s2a, a), b, "WRITE_OKAY") => Has(s2a, b, "WRITE_OKAY")
                            /\ Once(Consume(s2a, a), b, "WRITE_OKAY")
    BY <1>0, <1>1, <1>4, ConsumeHas
  <2>2. m.type = "WRITE_OKAY" => /\ Has(s2a, a, "WRITE_OKAY")
                                 /\ ~Has(Consume(s2a, a), a, "WRITE_OKAY")
    BY <1>0, <1>1, <1>4, ConsumeHas
  <2> HIDE DEF m
  <2> QED BY <1>1, <2>1, <2>2 DEF Sent, Has, Once
<1>6. /\ \A q \in Procs : (Returning(q)' => Returning(q)) /\ Once(p2a, q, "SYNC_INFO")'
      /\ \A q \in Procs : (Writable(q)' => Writable(q)) /\ (AtHead(q) => AtHead(q)')
      /\ \A b \in Arbiters : OnTurn(b) => OnTurn(b)'
  BY <1>1, <1>3, <1>4, HasIsLocal
(* An acknowledgement is no grant.                                         *)
<1>s. ASSUME NEW x \in Message, x.type # "SYNC_INFO",
             UNCHANGED a2s \/ a2s' = Send(a2s, a, x)
      PROVE  \A b \in Arbiters : (Returned(b)' => Returned(b)) /\ Once(a2s, b, "SYNC_INFO")'
  <2>1. CASE UNCHANGED a2s
    BY <1>4, <2>1, HasIsLocal
  <2>2. CASE a2s' = Send(a2s, a, x)
    <3>1. \A b \in Arbiters : /\ Has(Send(a2s, a, x), b, "SYNC_INFO") => Has(a2s, b, "SYNC_INFO")
                              /\ Once(Send(a2s, a, x), b, "SYNC_INFO")
      BY <1>0, <1>4, <1>s, SendHas
    <3> QED BY <2>2, <3>1 DEF Returned, Has, Once
  <2> QED BY <1>s, <2>1, <2>2
<1>d. \A n \in Nat, t \in {"STOP_DONE", "SYNC_DONE"} :
         Done(t, n) \in Message /\ Done(t, n).type # "SYNC_INFO"
  BY MessageTypes DEF Done
<1>n. NLocal(a) \in Nat
  BY DEF TypeOK, ArbiterTypeOK, NLocal
<1>7. \A b \in Arbiters : (Returned(b)' => Returned(b)) /\ Once(a2s, b, "SYNC_INFO")'
  <2>1. \/ UNCHANGED a2s
        \/ a2s' = Send(a2s, a, Done("STOP_DONE", NLocal(a)))
        \/ a2s' = Send(a2s, a, Done("SYNC_DONE", NLocal(a)))
    BY DEF FromServerStep, ArbSetGid, ArbStopAll, ArbContAll, ArbWaitDone, ArbWriteOkay,
           ArbApplySync, ArbPanic
  <2> QED BY <1>4, <1>d, <1>n, <1>s, <2>1, HasIsLocal
<1>k. ASSUME \A q \in Procs : (Passed(q)' => Passed(q)) /\ Once(a2p, q, "WRITE_OKAY")'
      PROVE  GrantInv'
  <2>1. AtMostOnce'
    BY <1>5, <1>6, <1>7, <1>k DEF AtMostOnce
  <2> QED BY <1>5, <1>6, <1>7, <1>k, <2>1, GrantKept
<1>a. UNCHANGED a2p => GrantInv'
  BY <1>4, <1>k, HasIsLocal
<1>p. ArbPanic(a) => GrantInv'
  BY <1>a DEF ArbPanic
<1>b. ASSUME NEW S, NEW x \in Message, x.type # "WRITE_OKAY", a2p' = SendAll(a2p, S, x)
      PROVE  GrantInv'
  <2>1. \A q \in Procs : /\ Has(SendAll(a2p, S, x), q, "WRITE_OKAY") => Has(a2p, q, "WRITE_OKAY")
                         /\ Once(SendAll(a2p, S, x), q, "WRITE_OKAY")
    <3>1. x.type # "WRITE_OKAY"
      BY <1>b
    <3>2. a2p \in [Procs -> Seq(Message)]
      BY <1>0
    <3>3. \A q \in Procs : Once(a2p, q, "WRITE_OKAY")
      BY <1>4
    <3> QED BY <3>1, <3>2, <3>3, SendAllHas
  <2>2. \A q \in Procs : (Passed(q)' => Passed(q)) /\ Once(a2p, q, "WRITE_OKAY")'
    BY <1>b, <2>1 DEF Passed, Has, Once
  <2> QED BY <1>k, <2>2
<1> HIDE DEF m
<1>8. CASE ArbSetGid(a)
  <2>1. CASE ArbPanic(a)
    BY <1>p, <2>1
  <2>2. CASE ~ArbPanic(a)
    <3>1. m.type = "SET_GID" /\ a2p' = Send(a2p, m.pid, m)
      BY <1>8, <2>2 DEF ArbSetGid, FromServer, Waiting, m
    <3>2. PICK p \in Procs : p = m.pid
      BY <1>2, <3>1, PayloadTypes
    <3>3. \A q \in Procs : /\ Has(Send(a2p, p, m), q, "WRITE_OKAY") => Has(a2p, q, "WRITE_OKAY")
                           /\ Once(Send(a2p, p, m), q, "WRITE_OKAY")
      <4>1. m.type # "WRITE_OKAY"
        BY <3>1
      <4>2. a2p \in [Procs -> Seq(Message)] /\ \A q \in Procs : Once(a2p, q, "WRITE_OKAY")
        BY <1>0, <1>4
      <4> QED BY <1>2, <4>1, <4>2, SendHas
    <3>4. \A q \in Procs : (Passed(q)' => Passed(q)) /\ Once(a2p, q, "WRITE_OKAY")'
      BY <3>1, <3>2, <3>3 DEF Passed, Has, Once
    <3> QED BY <1>k, <3>4
  <2> QED BY <2>1, <2>2
<1>9. CASE ArbStopAll(a)
  BY <1>9, <1>a, <1>p DEF ArbStopAll
<1>10. CASE ArbContAll(a)
  BY <1>10, <1>a, <1>p DEF ArbContAll
<1>11. CASE ArbWaitDone(a)
  <2>1. CASE ArbPanic(a) \/ UNCHANGED a2p
    BY <1>a, <1>p, <2>1
  <2>2. CASE ~(ArbPanic(a) \/ UNCHANGED a2p)
    <3>1. a2p' = SendAll(a2p, Accepted(a), Simple("WAIT_DONE"))
      BY <1>11, <2>2 DEF ArbWaitDone
    <3>2. Simple("WAIT_DONE") \in Message /\ Simple("WAIT_DONE").type # "WRITE_OKAY"
      BY MessageTypes DEF Simple, SimpleTypes
    <3> QED BY <1>b, <3>1, <3>2
  <2> QED BY <2>1, <2>2
<1>12. CASE ArbWriteOkay(a)
  <2>1. CASE ArbPanic(a)
    BY <1>p, <2>1
  <2>2. CASE ~ArbPanic(a)
    <3>1. arbQueue[a] # << >> /\ m.type = "WRITE_OKAY" /\ a2p' = SendAll(a2p, {Head(arbQueue[a])}, m)
      BY <1>12, <2>2 DEF ArbWriteOkay, FromServer, Waiting, Grantee, m
    <3>2. PICK p : p = Head(arbQueue[a])
      OBVIOUS
    <3>3. p \in Local(a)
      <4>1. arbQueue[a] \in Seq(Local(a))
        BY DEF PlaceInv
      <4> QED BY <3>1, <3>2, <4>1, SeqTypes
    <3>4. p \in Procs /\ Home[p] = a
      BY <3>3 DEF Local
    <3>5. Sent(a) /\ ~Sent(a)' /\ OnTurn(a) /\ ~Returned(a)
      BY <1>5, <3>1 DEF GrantInv, InOrder, Apart
    <3>6. \A q \in Procs : ~Holds(q)
      BY <3>5, OneGrant
    <3>7. \A b \in Arbiters : ~Sent(b)' /\ ~Returned(b)'
      BY <1>5, <1>7, <3>5, OneGrant
    <3>8. \A q \in Procs : (Passed(q)' => q = p) /\ Once(a2p, q, "WRITE_OKAY")'
      <4>1. \A q \in Procs : ~Has(a2p, q, "WRITE_OKAY") /\ Once(a2p, q, "WRITE_OKAY")
        BY <1>4, <3>6 DEF Holds, Passed
      <4>2. a2p \in [Procs -> Seq(Message)]
        BY <1>0
      <4>3. ASSUME NEW q \in Procs
            PROVE  /\ Has(SendAll(a2p, {p}, m), q, "WRITE_OKAY") => q = p
                   /\ Once(SendAll(a2p, {p}, m), q, "WRITE_OKAY")
        BY <1>2, <4>1, <4>2, SendAllHas
      <4> QED BY <3>1, <3>2, <4>3 DEF Passed, Has, Once
    <3>9. \A q \in Procs : ~Writable(q)' /\ ~Returning(q)' /\ (Holds(q)' => q = p)
      BY <1>6, <3>6, <3>8 DEF Holds
    <3>10. OnTurn(a)' /\ AtHead(p)'
      BY <1>1, <1>6, <3>1, <3>2, <3>4, <3>5 DEF AtHead
    <3>11. AtMostOnce'
      BY <1>5, <1>6, <1>7, <3>8 DEF AtMostOnce
    <3>12. Apart'
      BY <3>7, <3>9, HomeAssumption DEF Apart
    <3>13. InOrder'
      BY <3>4, <3>7, <3>9, <3>10 DEF InOrder
    <3> QED BY <3>11, <3>12, <3>13 DEF GrantInv
  <2> QED BY <2>1, <2>2
<1>13. CASE ArbApplySync(a)
  BY <1>13, <1>a DEF ArbApplySync
<1> QED BY <1>8, <1>9, <1>10, <1>11, <1>12, <1>13 DEF FromServerStep

(* A process turns the grant it receives into a writable page, and the     *)
(* writable page into the message that returns the grant.                  *)
LEMMA GrantProcess ==
  ASSUME TypeOK, GrantInv, NEW p \in Procs, ProcessStep(p) \/ ProcKilled(p),
         UNCHANGED <<serverVars, arbVars, a2s, s2a>>
  PROVE  GrantInv'
<1>0. /\ p2a \in [Procs -> Seq(Message)] /\ a2p \in [Procs -> Seq(Message)]
      /\ loc \in [Procs -> Locations]
  BY DEF TypeOK, NetTypeOK, ProcessTypeOK
<1>1. UNCHANGED <<arbQueue, step, opqueue>>
  BY DEF arbVars, serverVars, writeVars
<1>2. /\ \A a \in Arbiters : Once(s2a, a, "WRITE_OKAY") /\ Once(a2s, a, "SYNC_INFO")
      /\ \A q \in Procs : Once(a2p, q, "WRITE_OKAY") /\ Once(p2a, q, "SYNC_INFO")
  BY DEF GrantInv, AtMostOnce
<1>3. /\ \A a \in Arbiters : (Sent(a)' => Sent(a)) /\ Once(s2a, a, "WRITE_OKAY")'
      /\ \A a \in Arbiters : (Returned(a)' => Returned(a)) /\ Once(a2s, a, "SYNC_INFO")'
      /\ \A a \in Arbiters : OnTurn(a) => OnTurn(a)'
      /\ \A q \in Procs : AtHead(q) => AtHead(q)'
  BY <1>1, <1>2, HasIsLocal
<1> DEFINE KeepsP2A == \A q \in Procs : (Returning(q)' => Returning(q)) /\ Once(p2a, q, "SYNC_INFO")'
           KeepsA2P == \A q \in Procs : (Passed(q)' => Passed(q)) /\ Once(a2p, q, "WRITE_OKAY")'
           KeepsLoc == \A q \in Procs : Writable(q)' => Writable(q)
<1>k. KeepsP2A /\ KeepsA2P /\ KeepsLoc => GrantInv'
  <2> SUFFICES ASSUME KeepsP2A, KeepsA2P, KeepsLoc PROVE GrantInv'
    OBVIOUS
  <2>1. AtMostOnce'
    BY <1>3 DEF AtMostOnce
  <2> QED BY <1>3, <2>1, GrantKept
<1>u. (UNCHANGED p2a => KeepsP2A) /\ (UNCHANGED a2p => KeepsA2P) /\ (UNCHANGED loc => KeepsLoc)
  BY <1>2, HasIsLocal
<1>s. ASSUME NEW m \in Message, m.type # "SYNC_INFO", SendToArbiter(p, m)
      PROVE  KeepsP2A
  <2>1. m.type # "SYNC_INFO" /\ p2a' = Send(p2a, p, m)
    BY <1>s DEF SendToArbiter
  <2>2. \A q \in Procs : /\ Has(Send(p2a, p, m), q, "SYNC_INFO") => Has(p2a, q, "SYNC_INFO")
                         /\ Once(Send(p2a, p, m), q, "SYNC_INFO")
    BY <1>0, <1>2, <2>1, SendHas
  <2> QED BY <2>1, <2>2 DEF Returning, Has, Once
<1>r. ASSUME NEW l, Receive(p, l)
      PROVE  /\ KeepsA2P /\ loc[p] = l
             /\ Head(a2p[p]).type = "WRITE_OKAY" => Passed(p) /\ ~Passed(p)'
  <2>1. a2p[p] # << >> /\ a2p' = Consume(a2p, p) /\ loc[p] = l
    BY <1>r DEF Receive
  <2>2. \A q \in Procs : /\ Has(Consume(a2p, p), q, "WRITE_OKAY") => Has(a2p, q, "WRITE_OKAY")
                         /\ Once(Consume(a2p, p), q, "WRITE_OKAY")
    BY <1>0, <1>2, <2>1, ConsumeHas
  <2>3. Head(a2p[p]).type = "WRITE_OKAY" =>
          Has(a2p, p, "WRITE_OKAY") /\ ~Has(Consume(a2p, p), p, "WRITE_OKAY")
    BY <1>0, <1>2, <2>1, ConsumeHas
  <2> QED BY <2>1, <2>2, <2>3 DEF Passed, Has, Once
<1>g. ASSUME NEW l, Goto(p, l)
      PROVE  /\ \A q \in Procs : q # p => (Writable(q)' => Writable(q))
             /\ Writable(p)' => l \in {"store", "sigill"}
             /\ l \notin {"store", "sigill"} => KeepsLoc
  BY <1>0, <1>g DEF Goto, Writable
<1>m. /\ \A t \in SimpleTypes : Simple(t) \in Message /\ Simple(t).type # "SYNC_INFO"
      /\ AddProc(p) \in Message /\ AddProc(p).type # "SYNC_INFO"
  BY MessageTypes DEF Simple, SimpleTypes, AddProc
<1> HIDE DEF KeepsP2A, KeepsA2P, KeepsLoc
<1>4. CASE ProcConnect(p)
  BY <1>4, <1>g, <1>k, <1>m, <1>s, <1>u DEF ProcConnect
<1>5. CASE ProcRecvGid(p)
  <2>1. KeepsA2P /\ KeepsP2A
    BY <1>5, <1>r, <1>u DEF ProcRecvGid
  <2>2. KeepsLoc
    BY <1>5, <1>g DEF ProcRecvGid
  <2> QED BY <1>k, <2>1, <2>2
<1>6. CASE ProcRecvWaitDone(p)
  <2>1. KeepsA2P /\ KeepsP2A
    BY <1>6, <1>r, <1>u DEF ProcRecvWaitDone
  <2>2. KeepsLoc
    BY <1>6, <1>g DEF ProcRecvWaitDone
  <2> QED BY <1>k, <2>1, <2>2
<1>7. CASE ProcRequest(p)
  <2>1. KeepsA2P /\ KeepsP2A
    BY <1>7, <1>m, <1>s, <1>u DEF ProcRequest, SimpleTypes
  <2>2. KeepsLoc
    BY <1>7, <1>g DEF ProcRequest
  <2> QED BY <1>k, <2>1, <2>2
<1>8. CASE ProcGranted(p)
  <2>1. KeepsA2P /\ KeepsP2A
    BY <1>8, <1>r, <1>u DEF ProcGranted
  <2>2. CASE Goto(p, "panic")
    BY <1>g, <1>k, <2>1, <2>2
  <2>3. CASE ~Goto(p, "panic")
    <3>1. Head(a2p[p]).type = "WRITE_OKAY" /\ Goto(p, "store")
      BY <1>8, <2>3 DEF ProcGranted
    <3>2. Passed(p) /\ ~Passed(p)' /\ Holds(p)
      BY <1>8, <1>r, <3>1 DEF ProcGranted, Holds
    <3>3. OnTurn(Home[p])' /\ AtHead(p)'
      BY <1>3, <3>2, HomeAssumption DEF GrantInv, InOrder
    <3>4. /\ \A a \in Arbiters : ~Sent(a)' /\ ~Returned(a)'
          /\ \A q \in Procs : Holds(q) => q = p
          /\ ~Returning(p)
      BY <1>3, <3>2, OneGrant DEF GrantInv, Apart
    <3>5. ~Returning(p)' /\ \A q \in Procs : Holds(q)' => q = p
      BY <1>g, <2>1, <3>1, <3>4 DEF Holds, KeepsA2P, KeepsP2A
    <3>6. AtMostOnce'
      BY <1>3, <2>1 DEF AtMostOnce, KeepsA2P, KeepsP2A
    <3>7. Apart'
      BY <3>2, <3>4, <3>5, HomeAssumption DEF Apart
    <3>8. InOrder'
      BY <3>3, <3>4, <3>5 DEF InOrder
    <3> QED BY <3>6, <3>7, <3>8 DEF GrantInv
  <2> QED BY <2>2, <2>3
<1>9. CASE ProcStore(p)
  <2>1. KeepsA2P /\ KeepsP2A
    BY <1>9, <1>u DEF ProcStore
  <2>2. Writable(p)
    BY <1>9 DEF ProcStore, Writable
  <2>3. KeepsLoc
    BY <1>9, <1>g, <2>2 DEF ProcStore, KeepsLoc
  <2> QED BY <1>k, <2>1, <2>3
<1>10. CASE ProcSigill(p)
  <2>1. Writable(p) /\ Holds(p) /\ Goto(p, "dropAccess") /\ UNCHANGED a2p
    BY <1>10 DEF ProcSigill, Writable, Holds
  <2>2. KeepsA2P /\ KeepsLoc /\ ~Writable(p)'
    BY <1>g, <1>u, <2>1
  <2>3. OnTurn(Home[p])' /\ AtHead(p)'
    BY <1>3, <2>1, HomeAssumption DEF GrantInv, InOrder
  <2>4. /\ \A a \in Arbiters : ~Sent(a)' /\ ~Returned(a)'
        /\ \A q \in Procs : Holds(q) => q = p
        /\ ~Returning(p) /\ ~Passed(p)
    BY <1>3, <2>1, OneGrant DEF GrantInv, Apart
  <2>5. \A q \in Procs : (Returning(q)' => q = p) /\ Once(p2a, q, "SYNC_INFO")'
    <3> DEFINE x == SyncInfo(Head(todo[p]).off, mem[Home[p]][Head(todo[p]).off])
    <3>1. p2a' = Send(p2a, p, x) /\ x.type = "SYNC_INFO"
      BY <1>10 DEF ProcSigill, SendToArbiter, SyncInfo
    <3>2. \A q \in Procs : ~Has(p2a, q, "SYNC_INFO")
      BY <2>4 DEF Holds, Returning
    <3> HIDE DEF x
    <3>3. \A q \in Procs : q # p => Send(p2a, p, x)[q] = p2a[q]
      BY <1>0 DEF Send
    <3>4. \A q \in Procs : q # p => ~Has(Send(p2a, p, x), q, "SYNC_INFO")
      BY <3>2, <3>3 DEF Has
    <3>5. Once(Send(p2a, p, x), p, "SYNC_INFO")
      <4>1. Send(p2a, p, x)[p] = Append(p2a[p], x)
        BY <1>0 DEF Send
      <4>2. \A i \in DOMAIN Append(p2a[p], x) :
               i = Len(p2a[p]) + 1 \/ (i \in DOMAIN p2a[p] /\ Append(p2a[p], x)[i] = p2a[p][i])
        BY <1>0
      <4> QED BY <3>2, <4>1, <4>2 DEF Has, Once
    <3>6. \A q \in Procs : q # p => Once(Send(p2a, p, x), q, "SYNC_INFO")
      BY <3>4 DEF Has, Once
    <3> QED BY <3>1, <3>4, <3>5, <3>6 DEF Returning, Has, Once
  <2>6. \A q \in Procs : Holds(q)' => q = p /\ ~Passed(q)' /\ ~Writable(q)'
    BY <2>2, <2>4, <2>5 DEF Holds, KeepsA2P, KeepsLoc
  <2>7. AtMostOnce'
    BY <1>3, <2>2, <2>5 DEF AtMostOnce, KeepsA2P
  <2>8. Apart'
    BY <2>4, <2>6, HomeAssumption DEF Apart
  <2>9. InOrder'
    BY <2>3, <2>4, <2>6 DEF InOrder
  <2> QED BY <2>7, <2>8, <2>9 DEF GrantInv
<1>11. CASE ProcBarrier(p)
  <2>1. KeepsA2P /\ KeepsP2A
    BY <1>11, <1>m, <1>s, <1>u DEF ProcBarrier, SimpleTypes
  <2>2. KeepsLoc
    BY <1>11, <1>g DEF ProcBarrier
  <2> QED BY <1>k, <2>1, <2>2
<1>12. CASE ProcSelfStop(p)
  BY <1>12, <1>g, <1>k, <1>u DEF ProcSelfStop
<1>13. CASE ProcExit(p)
  <2>1. KeepsA2P /\ KeepsP2A
    BY <1>13, <1>m, <1>s, <1>u DEF ProcExit, SimpleTypes
  <2>2. KeepsLoc
    BY <1>13, <1>g DEF ProcExit
  <2> QED BY <1>k, <2>1, <2>2
<1>14. CASE ProcReap(p)
  BY <1>14, <1>g, <1>k, <1>u DEF ProcReap
<1>15. CASE ProcKilled(p)
  BY <1>15, <1>g, <1>k, <1>u DEF ProcKilled
<1>16. CASE DeliverTstp(p)
  BY <1>16, <1>k, <1>u DEF DeliverTstp, procVars
<1> QED BY <1>4, <1>5, <1>6, <1>7, <1>8, <1>9, <1>10, <1>11, <1>12, <1>13, <1>14,
           <1>15, <1>16 DEF ProcessStep

-----------------------------------------------------------------------------
(* The grant survives every step of the session, the loss of a peer and    *)
(* the death of a process included.                                        *)
LEMMA GrantUntouched ==
  ASSUME GrantInv, UNCHANGED <<channels, step, opqueue, arbQueue>>,
         \A p \in Procs : Writable(p)' => Writable(p)
  PROVE  GrantInv'
<1>1. UNCHANGED <<p2a, a2p, a2s, s2a>> /\ UNCHANGED <<step, opqueue>> /\ UNCHANGED arbQueue
  BY DEF channels
<1>2. /\ \A a \in Arbiters : Once(s2a, a, "WRITE_OKAY") /\ Once(a2s, a, "SYNC_INFO")
      /\ \A q \in Procs : Once(a2p, q, "WRITE_OKAY") /\ Once(p2a, q, "SYNC_INFO")
  BY DEF GrantInv, AtMostOnce
<1>3. /\ \A a \in Arbiters : (Sent(a)' => Sent(a)) /\ Once(s2a, a, "WRITE_OKAY")'
      /\ \A a \in Arbiters : (Returned(a)' => Returned(a)) /\ Once(a2s, a, "SYNC_INFO")'
      /\ \A q \in Procs : (Passed(q)' => Passed(q)) /\ Once(a2p, q, "WRITE_OKAY")'
      /\ \A q \in Procs : (Returning(q)' => Returning(q)) /\ Once(p2a, q, "SYNC_INFO")'
      /\ \A a \in Arbiters : OnTurn(a) => OnTurn(a)'
      /\ \A q \in Procs : AtHead(q) => AtHead(q)'
  BY <1>1, <1>2, HasIsLocal
<1>4. AtMostOnce'
  BY <1>3 DEF AtMostOnce
<1> QED BY <1>3, <1>4, GrantKept

LEMMA GrantStep == TypeInv /\ PlaceInv /\ GrantInv /\ [Next]_vars => GrantInv'
<1> SUFFICES ASSUME TypeInv, PlaceInv, GrantInv, [Next]_vars PROVE GrantInv'
  OBVIOUS
<1>0. TypeOK /\ loc \in [Procs -> Locations]
  BY DEF TypeInv, TypeOK, ProcessTypeOK
<1>w. UNCHANGED loc => \A p \in Procs : Writable(p)' => Writable(p)
  BY HasIsLocal
<1>1. ASSUME NEW a \in Arbiters, ServerActs(a) PROVE GrantInv'
  <2>1. CASE ServerStep(a) /\ UNCHANGED <<arbVars, procVars, p2a, a2p, signals, mem>>
    BY <1>0, <2>1, GrantServer
  <2>2. CASE ServerLosesArbiter(a)
    <3>1. UNCHANGED <<loc, channels, step, opqueue, arbQueue>>
      BY <2>2 DEF ServerLosesArbiter, writeVars, arbVars, procVars, netVars
    <3> QED BY <1>w, <3>1, GrantUntouched
  <2> QED BY <1>1, <2>1, <2>2 DEF ServerActs
<1>2. ASSUME NEW a \in Arbiters, ArbiterActs(a) PROVE GrantInv'
  <2>1. CASE ArbiterLosesServer(a) \/ \E p \in Procs : ArbiterLosesProcess(a, p)
    <3>1. UNCHANGED <<loc, channels, step, opqueue, arbQueue>>
      BY <2>1 DEF ArbiterLosesServer, ArbiterLosesProcess, serverVars, writeVars,
                  procVars, netVars
    <3> QED BY <1>w, <3>1, GrantUntouched
  <2>2. ASSUME ArbiterStep(a), UNCHANGED <<serverVars, procVars>> PROVE GrantInv'
    <3>0. UNCHANGED <<loc, step, opqueue>>
      BY <2>2 DEF serverVars, writeVars, procVars
    <3>1. ASSUME NEW p \in Procs, ArbAccept(a, p) PROVE GrantInv'
      <4>1. UNCHANGED <<channels, arbQueue>>
        BY <3>1 DEF ArbAccept
      <4> QED BY <1>w, <3>0, <4>1, GrantUntouched
    <3>2. ASSUME NEW p \in Procs, FromProcessStep(a, p) PROVE GrantInv'
      BY <1>0, <2>2, <3>2, GrantFromProcess
    <3>3. ASSUME NEW b \in BOOLEAN, ArbPoll(a, b) PROVE GrantInv'
      <4>1. UNCHANGED <<channels, arbQueue>>
        BY <3>3 DEF ArbPoll
      <4> QED BY <1>w, <3>0, <4>1, GrantUntouched
    <3>4. CASE FromServerStep(a)
      BY <1>0, <2>2, <3>4, GrantFromServer
    <3>5. CASE ArbExit(a)
      <4>1. UNCHANGED <<p2a, a2p, s2a, arbQueue>> /\ a2s' = Send(a2s, a, Simple("PRGM_DONE"))
        BY <3>5 DEF ArbExit
      <4>2. Simple("PRGM_DONE") \in Message /\ Simple("PRGM_DONE").type # "SYNC_INFO"
        BY MessageTypes DEF Simple, SimpleTypes
      <4>3. /\ \A b \in Arbiters : Once(s2a, b, "WRITE_OKAY") /\ Once(a2s, b, "SYNC_INFO")
            /\ \A q \in Procs : Once(a2p, q, "WRITE_OKAY") /\ Once(p2a, q, "SYNC_INFO")
        BY DEF GrantInv, AtMostOnce
      <4>4. \A b \in Arbiters : /\ Has(Send(a2s, a, Simple("PRGM_DONE")), b, "SYNC_INFO")
                                     => Has(a2s, b, "SYNC_INFO")
                                /\ Once(Send(a2s, a, Simple("PRGM_DONE")), b, "SYNC_INFO")
        <5>1. a2s \in [Arbiters -> Seq(Message)]
          BY <1>0 DEF TypeOK, NetTypeOK
        <5> QED BY <4>2, <4>3, <5>1, SendHas
      <4>5. \A b \in Arbiters : (Returned(b)' => Returned(b)) /\ Once(a2s, b, "SYNC_INFO")'
        BY <4>1, <4>4 DEF Returned, Has, Once
      <4>6. /\ \A b \in Arbiters : (Sent(b)' => Sent(b)) /\ Once(s2a, b, "WRITE_OKAY")'
            /\ \A q \in Procs : (Passed(q)' => Passed(q)) /\ Once(a2p, q, "WRITE_OKAY")'
            /\ \A q \in Procs : (Returning(q)' => Returning(q)) /\ Once(p2a, q, "SYNC_INFO")'
            /\ \A b \in Arbiters : OnTurn(b) => OnTurn(b)'
            /\ \A q \in Procs : AtHead(q) => AtHead(q)'
        BY <3>0, <4>1, <4>3, HasIsLocal
      <4>7. AtMostOnce'
        BY <4>5, <4>6 DEF AtMostOnce
      <4> QED BY <1>w, <3>0, <4>5, <4>6, <4>7, GrantKept
    <3> QED BY <2>2, <3>1, <3>2, <3>3, <3>4, <3>5 DEF ArbiterStep
  <2> QED BY <1>2, <2>1, <2>2 DEF ArbiterActs
<1>3. ASSUME NEW p \in Procs, ProcessActs(p) \/ Kill(p) PROVE GrantInv'
  <2>1. CASE ProcessLosesArbiter(p)
    <3>1. UNCHANGED <<channels, step, opqueue, arbQueue>> /\ Goto(p, "panic")
      BY <2>1 DEF ProcessLosesArbiter, serverVars, writeVars, arbVars, netVars
    <3>2. \A q \in Procs : Writable(q)' => Writable(q)
      BY <1>0, <3>1 DEF Goto, Writable
    <3> QED BY <3>1, <3>2, GrantUntouched
  <2>2. CASE (ProcessStep(p) \/ ProcKilled(p)) /\ UNCHANGED <<serverVars, arbVars, a2s, s2a>>
    BY <1>0, <2>2, GrantProcess
  <2> QED BY <1>3, <2>1, <2>2 DEF ProcessActs, Kill
<1>4. CASE UNCHANGED vars
  <2>1. UNCHANGED <<loc, channels, step, opqueue, arbQueue>>
    BY <1>4 DEF vars, serverVars, writeVars, arbVars, procVars, netVars
  <2> QED BY <1>w, <2>1, GrantUntouched
<1> QED
  <2>1. Killable \subseteq Procs
    BY KillableAssumption
  <2> QED BY <1>1, <1>2, <1>3, <1>4, <2>1 DEF Next

-----------------------------------------------------------------------------
(* What the invariant says to a user of the session.                       *)
LEMMA GrantMeaning ==
  ASSUME TypeOK, GrantInv
  PROVE  SingleWriter /\ GrantAgreement
<1>1. \A p \in Procs : Granted(p) => Holds(p)
  <2> SUFFICES ASSUME NEW p \in Procs, Waiting(a2p, p, "WRITE_OKAY") PROVE Passed(p)
    BY DEF Granted, Holds
  <2>1. a2p \in [Procs -> Seq(Message)] /\ a2p[p] # << >> /\ Head(a2p[p]).type = "WRITE_OKAY"
    BY DEF Waiting, TypeOK, NetTypeOK
  <2> QED BY <2>1, ConsumeHas DEF Passed
<1>2. SingleWriter
  BY OneGrant DEF SingleWriter, Holds
<1>3. GrantAgreement
  BY <1>1 DEF GrantAgreement, GrantInv, InOrder, OnTurn, AtHead
<1> QED BY <1>2, <1>3

(* The inductive invariant, for use in further proofs.                     *)
THEOREM GrantInvariant == Spec => [](TypeInv /\ PlaceInv /\ GrantInv)
<1>1. Init => TypeInv /\ PlaceInv /\ GrantInv
  BY TypeInit, PlaceInit, GrantInit
<1>2. (TypeInv /\ PlaceInv /\ GrantInv) /\ [Next]_vars => (TypeInv /\ PlaceInv /\ GrantInv)'
  BY TypeStep, PlaceStep, GrantStep
<1> QED BY <1>1, <1>2, PTL DEF Spec

(* Two processes of the session can never write to the shared page at the  *)
(* same time.                                                              *)
THEOREM WriterIsAlone == Spec => []SingleWriter
<1>1. TypeInv /\ PlaceInv /\ GrantInv => SingleWriter
  BY GrantMeaning DEF TypeInv
<1> QED BY GrantInvariant, <1>1, PTL

(* Whoever has been granted the write is at the head of the server's queue *)
(* and of the queue of its arbiter.                                        *)
THEOREM QueuesAgree == Spec => []GrantAgreement
<1>1. TypeInv /\ PlaceInv /\ GrantInv => GrantAgreement
  BY GrantMeaning DEF TypeInv
<1> QED BY GrantInvariant, <1>1, PTL

-----------------------------------------------------------------------------
(***************************************************************************)
(* What the server counts, for any number of machines and processes.       *)
(*                                                                         *)
(* First, that its operation step, its queue and its three counters move   *)
(* together: StepMatchesQueue is inductive, given the types.               *)
(*                                                                         *)
(* Then, that the start of a session gathers everyone: dsm_init returns    *)
(* nowhere before each process is registered, and each gets an identifier  *)
(* of its own.  RegistrationInv says it in four parts: the session's       *)
(* start is announced after it (ChainInv), a process's request is in one   *)
(* place at a time (JoinInv), the server has counted no more processes     *)
(* than have asked (CountInv), and gives every number once (GidInv).       *)
(***************************************************************************)
(* What StepMatchesQueue reads; only the server's handlers change it.      *)
tally == <<step, opqueue, nproc_stopped, nproc_waiting, nproc_synced>>

LEMMA TallyKept == StepMatchesQueue /\ UNCHANGED tally => StepMatchesQueue'
  BY NProcType DEF StepMatchesQueue, tally, NProc

(* The end of a synchronisation pops one operation, and the step follows   *)
(* what is left; before the end, the operation stays queued.               *)
LEMMA SyncedMatches ==
  ASSUME ServerTypeOK, opqueue # << >>, NEW n \in Nat, Synced(n),
         nproc_stopped = 0, nproc_stopped' = nproc_stopped,
         nproc_waiting < NProc, nproc_waiting' = nproc_waiting
  PROVE  StepMatchesQueue'
<1>1. nproc_waiting' < NProc'
  BY DEF NProc
<1>2. CASE AllSynced(n)
  <2>1. /\ nproc_synced' = 0
        /\ opqueue' = Tail(opqueue)
        /\ step' = IF opqueue' = << >> THEN "READY" ELSE "WAITING_SYNC_INFO"
    BY <1>2 DEF Synced, StepAfter
  <2> QED BY <1>1, <2>1 DEF StepMatchesQueue
<1>3. CASE ~AllSynced(n)
  BY <1>1, <1>3 DEF Synced, StepMatchesQueue
<1> QED BY <1>2, <1>3

LEMMA ServerMatches ==
  ASSUME TypeOK, StepMatchesQueue, NEW a \in Arbiters, ServerStep(a)
  PROVE  StepMatchesQueue'
<1>0. ServerTypeOK /\ NProc \in Nat /\ NProc >= 2 /\ NProc' = NProc
  BY NProcType DEF TypeOK, NProc
<1>p. SrvPanic => UNCHANGED tally
  BY DEF SrvPanic, tally, writeVars
<1>r. ASSUME NEW t, SrvReceive(a, t)
      PROVE  Head(a2s[a]) \in Message /\ Head(a2s[a]).type = t
  BY <1>r, ChannelTypes DEF SrvReceive, Waiting, TypeOK, NetTypeOK
<1>1. CASE SrvAccept(a) \/ SrvPrgmDone(a)
  <2>1. UNCHANGED tally
    BY <1>1, <1>p DEF SrvAccept, SrvPrgmDone, tally, writeVars
  <2> QED BY <2>1, TallyKept
<1>2. CASE SrvAddProc(a) \/ SrvWaitBarr(a)
  <2>1. CASE SrvPanic
    BY <2>1, <1>p, TallyKept
  <2>2. CASE ~SrvPanic
    <3>1. UNCHANGED <<step, opqueue, nproc_stopped, nproc_synced>>
      BY <1>2, <2>2 DEF SrvAddProc, SrvWaitBarr, writeVars
    <3>2. nproc_waiting' = 0 \/ (nproc_waiting' = nproc_waiting + 1
                                 /\ ~(nproc_waiting + 1 >= NProc))
      BY <1>2, <2>2 DEF SrvAddProc, SrvWaitBarr, AllRegistered, AllAtBarrier
    <3>3. nproc_waiting' < NProc'
      BY <1>0, <3>2 DEF ServerTypeOK
    <3> QED BY <3>1, <3>3 DEF StepMatchesQueue
  <2> QED BY <2>1, <2>2
<1>3. CASE SrvSyncRequest(a)
  <2>1. CASE SrvPanic
    BY <2>1, <1>p, TallyKept
  <2>2. CASE ~SrvPanic
    <3>1. /\ opqueue' = Append(opqueue, a)
          /\ UNCHANGED <<nproc_stopped, nproc_waiting, nproc_synced>>
          /\ opqueue = << >> => step' = "WAITING_STOP_ACK"
          /\ opqueue # << >> => step' = step
      BY <1>3, <2>2 DEF SrvSyncRequest, counters
    <3>2. opqueue' # << >>
      BY <1>0, <3>1, SeqTypes DEF ServerTypeOK
    <3>3. nproc_waiting' < NProc'
      BY <1>0, <3>1 DEF StepMatchesQueue
    <3>4. step' # "READY"
      BY <3>1 DEF StepMatchesQueue
    <3> QED BY <3>1, <3>2, <3>3, <3>4 DEF StepMatchesQueue
  <2> QED BY <2>1, <2>2
<1>4. CASE SrvStopDone(a)
  <2>1. CASE SrvPanic
    BY <2>1, <1>p, TallyKept
  <2>2. CASE ~SrvPanic
    <3>1. step = "WAITING_STOP_ACK" /\ UNCHANGED <<nproc_waiting, nproc_synced, opqueue>>
      BY <1>4, <2>2 DEF SrvStopDone
    <3>2. \/ nproc_stopped' = 0 /\ step' = "WAITING_SYNC_INFO"
          \/ step' = step
      BY <1>4, <2>2 DEF SrvStopDone
    <3>3. nproc_waiting' < NProc'
      BY <1>0, <3>1 DEF StepMatchesQueue
    <3> QED BY <3>1, <3>2, <3>3 DEF StepMatchesQueue
  <2> QED BY <2>1, <2>2
<1>5. CASE SrvSyncInfo(a)
  <2>1. CASE SrvPanic
    BY <2>1, <1>p, TallyKept
  <2>2. CASE ~SrvPanic
    <3>1. /\ step = "WAITING_SYNC_INFO" /\ opqueue # << >>
          /\ UNCHANGED <<nproc_stopped, nproc_waiting>>
          /\ \/ Synced(NProc)
             \/ step' = "WAITING_SYNC_ACK" /\ UNCHANGED <<opqueue, nproc_synced>>
      BY <1>5, <2>2 DEF SrvSyncInfo, IsWriter
    <3>2. nproc_stopped = 0 /\ nproc_waiting < NProc
      BY <3>1 DEF StepMatchesQueue
    <3>3. CASE Synced(NProc)
      BY <1>0, <3>1, <3>2, <3>3, SyncedMatches
    <3>4. CASE ~Synced(NProc)
      <4>1. nproc_waiting' < NProc'
        BY <1>0, <3>1, <3>2
      <4> QED BY <3>1, <3>2, <3>4, <4>1 DEF StepMatchesQueue
    <3> QED BY <3>3, <3>4
  <2> QED BY <2>1, <2>2
<1>6. CASE SrvSyncDone(a)
  <2>1. CASE SrvPanic
    BY <2>1, <1>p, TallyKept
  <2>2. CASE ~SrvPanic
    <3> DEFINE n == Head(a2s[a]).nproc
    <3>1. n \in Nat
      BY <1>6, <1>r, PayloadTypes DEF SrvSyncDone
    <3>2. /\ step = "WAITING_SYNC_ACK" /\ Synced(n)
          /\ UNCHANGED <<nproc_stopped, nproc_waiting>>
      BY <1>6, <2>2 DEF SrvSyncDone
    <3>3. opqueue # << >> /\ nproc_stopped = 0 /\ nproc_waiting < NProc
      BY <3>2 DEF StepMatchesQueue
    <3> QED BY <1>0, <3>1, <3>2, <3>3, SyncedMatches
  <2> QED BY <2>1, <2>2
<1> QED BY <1>1, <1>2, <1>3, <1>4, <1>5, <1>6 DEF ServerStep

LEMMA MatchesStep == TypeInv /\ StepMatchesQueue /\ [Next]_vars => StepMatchesQueue'
<1> SUFFICES ASSUME TypeInv, StepMatchesQueue, [Next]_vars PROVE StepMatchesQueue'
  OBVIOUS
<1>1. ASSUME NEW a \in Arbiters, ServerActs(a) PROVE StepMatchesQueue'
  <2>1. CASE ServerStep(a)
    BY <2>1, ServerMatches DEF TypeInv
  <2>2. CASE ServerLosesArbiter(a)
    BY <2>2, TallyKept DEF ServerLosesArbiter, tally, writeVars
  <2> QED BY <1>1, <2>1, <2>2 DEF ServerActs
<1>2. UNCHANGED serverVars => StepMatchesQueue'
  BY TallyKept DEF tally, serverVars, writeVars
<1>3. ASSUME NEW a \in Arbiters, ArbiterActs(a) PROVE UNCHANGED serverVars
  BY <1>3 DEF ArbiterActs, ArbiterLosesServer, ArbiterLosesProcess
<1>4. ASSUME NEW p, ProcessActs(p) \/ Kill(p) PROVE UNCHANGED serverVars
  BY <1>4 DEF ProcessActs, ProcessLosesArbiter, Kill
<1>5. UNCHANGED vars => UNCHANGED serverVars
  BY DEF vars
<1> QED BY <1>1, <1>2, <1>3, <1>4, <1>5 DEF Next

(* The server never rests with an operation queued, is never busy without  *)
(* one, and starts every round of acknowledgements counting from zero.     *)
THEOREM StepFollowsQueue == Spec => []StepMatchesQueue
<1>1. Init => StepMatchesQueue
  BY NProcType DEF Init, ServerInit, StepMatchesQueue
<1>2. Init => TypeInv
  BY TypeInit
<1>3. (TypeInv /\ StepMatchesQueue) /\ [Next]_vars => (TypeInv /\ StepMatchesQueue)'
  BY TypeStep, MatchesStep
<1> QED BY <1>1, <1>2, <1>3, PTL DEF Spec

-----------------------------------------------------------------------------
(* A given message in a channel, and its being there once.                 *)
In(ch, k, m)     == \E i \in DOMAIN ch[k] : ch[k][i] = m
OnceOf(ch, k, m) == \A i, j \in DOMAIN ch[k] : ch[k][i] = m /\ ch[k][j] = m => i = j

(* What is in a channel, message by message, after a broadcast or a read.  *)
LEMMA HasIn ==
  ASSUME NEW K, NEW ch \in [K -> Seq(Message)], NEW k \in K
  PROVE  /\ \A t : Has(ch, k, t) <=> \E m \in Message : In(ch, k, m) /\ m.type = t
         /\ \A m : In(ch, k, m) => m \in Message
         /\ ch[k] # << >> => In(ch, k, Head(ch[k]))
<1> DEFINE s == ch[k]
<1>1. s \in Seq(Message)
  OBVIOUS
<1>2. \A i \in DOMAIN s : s[i] \in Message
  BY <1>1
<1>3. s # << >> => 1 \in DOMAIN s /\ Head(s) = s[1]
  BY <1>1
<1> QED BY <1>2, <1>3 DEF Has, In

LEMMA SendAllIn ==
  ASSUME NEW K, NEW ch \in [K -> Seq(Message)], NEW S, NEW x \in Message,
         NEW j \in K, NEW m
  PROVE  /\ In(SendAll(ch, S, x), j, m) <=> In(ch, j, m) \/ (j \in S /\ m = x)
         /\ OnceOf(ch, j, m) /\ ~(j \in S /\ m = x /\ In(ch, j, m))
              => OnceOf(SendAll(ch, S, x), j, m)
<1>1. CASE j \notin S
  <2>1. SendAll(ch, S, x)[j] = ch[j]
    BY <1>1 DEF SendAll
  <2> QED BY <1>1, <2>1 DEF In, OnceOf
<1>2. CASE j \in S
  <2> DEFINE s == ch[j]
  <2>1. SendAll(ch, S, x)[j] = Append(s, x)
    BY <1>2 DEF SendAll
  <2>2. /\ DOMAIN Append(s, x) = 1 .. Len(s) + 1
        /\ \A i \in DOMAIN s : i \in 1 .. Len(s) /\ Append(s, x)[i] = s[i]
        /\ Append(s, x)[Len(s) + 1] = x
        /\ DOMAIN s = 1 .. Len(s) /\ Len(s) \in Nat
    BY AppendPlaces
  <2>4. ch[j] = s
    OBVIOUS
  <2> HIDE DEF s
  <2>3. \A i \in DOMAIN Append(s, x) : i \in DOMAIN s \/ i = Len(s) + 1
    BY <2>2
  <2>5. In(SendAll(ch, S, x), j, m) <=> In(ch, j, m) \/ m = x
    BY <2>1, <2>2, <2>3, <2>4 DEF In
  <2>6. ASSUME OnceOf(ch, j, m), m # x \/ ~In(ch, j, m)
        PROVE  OnceOf(SendAll(ch, S, x), j, m)
    BY <2>1, <2>2, <2>3, <2>4, <2>6 DEF In, OnceOf
  <2> QED BY <1>2, <2>5, <2>6
<1> QED BY <1>1, <1>2

LEMMA SendIsSendAll ==
  ASSUME NEW K, NEW ch \in [K -> Seq(Message)], NEW k \in K, NEW m
  PROVE  /\ Send(ch, k, m) = SendAll(ch, {k}, m)
         /\ ch = SendAll(ch, {}, m)
BY DEF Send, SendAll

LEMMA ConsumeIn ==
  ASSUME NEW K, NEW ch \in [K -> Seq(Message)], NEW k \in K, ch[k] # << >>,
         NEW j \in K, NEW m
  PROVE  /\ In(Consume(ch, k), j, m) => In(ch, j, m)
         /\ In(ch, j, m) => In(Consume(ch, k), j, m) \/ (j = k /\ m = Head(ch[k]))
         /\ OnceOf(ch, j, m) => OnceOf(Consume(ch, k), j, m)
         /\ m = Head(ch[k]) /\ OnceOf(ch, k, m) => ~In(Consume(ch, k), k, m)
<1> DEFINE s == ch[k]
<1>1. /\ DOMAIN s = 1 .. Len(s) /\ Len(s) \in Nat \ {0}
      /\ DOMAIN Tail(s) = 1 .. Len(s) - 1
      /\ \A i \in DOMAIN Tail(s) : i + 1 \in DOMAIN s /\ Tail(s)[i] = s[i + 1]
      /\ Head(s) = s[1]
  BY TailPlaces
<1>2. Consume(ch, k)[k] = Tail(s) /\ (j # k => Consume(ch, k)[j] = ch[j])
  BY DEF Consume
<1>3. ch[k] = s
  OBVIOUS
<1> HIDE DEF s
<1>4. 1 \in DOMAIN s /\ \A i \in DOMAIN Tail(s) : i + 1 # 1
  BY <1>1
<1>5. \A i, l \in DOMAIN Tail(s) : i + 1 = l + 1 => i = l
  BY <1>1
<1>7. m = Head(ch[k]) /\ OnceOf(ch, k, m) => ~In(Consume(ch, k), k, m)
  BY <1>1, <1>2, <1>3, <1>4 DEF In, OnceOf
<1>8. CASE j # k
  BY <1>2, <1>7, <1>8 DEF In, OnceOf
<1>9. CASE j = k
  <2>1. In(Consume(ch, k), k, m) => In(ch, k, m)
    BY <1>1, <1>2, <1>3 DEF In
  <2>2. OnceOf(ch, k, m) => OnceOf(Consume(ch, k), k, m)
    BY <1>1, <1>2, <1>3, <1>5 DEF OnceOf
  <2>3. ASSUME NEW i \in DOMAIN s, i # 1 PROVE i - 1 \in DOMAIN Tail(s) /\ Tail(s)[i - 1] = s[i]
    <3>1. i - 1 \in DOMAIN Tail(s) /\ (i - 1) + 1 = i
      BY <1>1, <2>3
    <3> QED BY <1>1, <3>1
  <2>4. In(ch, k, m) => In(Consume(ch, k), k, m) \/ m = Head(ch[k])
    <3> SUFFICES ASSUME NEW i \in DOMAIN s, s[i] = m, m # Head(s)
                 PROVE  In(Consume(ch, k), k, m)
      BY <1>3 DEF In
    <3>1. i - 1 \in DOMAIN Tail(s) /\ Tail(s)[i - 1] = m
      BY <1>1, <2>3
    <3> QED BY <1>2, <3>1 DEF In
  <2> QED BY <1>7, <1>9, <2>1, <2>2, <2>4
<1> QED BY <1>8, <1>9

-----------------------------------------------------------------------------
(* The steps of a session, sorted by what they read.                       *)
Idle == UNCHANGED <<channels, loc, procGid, ptab, started, gid, nproc_waiting, backlog, conns>>

LEMMA StepCases ==
  ASSUME TypeInv, PlaceInv, [Next]_vars
  PROVE  \/ \E a \in Arbiters : /\ ServerStep(a)
                                /\ UNCHANGED <<arbVars, procVars, p2a, a2p, signals, mem>>
         \/ \E a \in Arbiters, p \in Procs :
              FromProcessStep(a, p) /\ Home[p] = a /\ UNCHANGED <<serverVars, procVars>>
         \/ \E a \in Arbiters : (FromServerStep(a) \/ ArbExit(a)) /\ UNCHANGED <<serverVars, procVars>>
         \/ \E p \in Procs : /\ ProcessStep(p) \/ ProcKilled(p)
                             /\ UNCHANGED <<serverVars, arbVars, a2s, s2a>>
         \/ \E p \in Procs : ProcessLosesArbiter(p)
         \/ Idle
<1>1. ASSUME NEW a \in Arbiters, ServerLosesArbiter(a) PROVE Idle
  BY <1>1 DEF ServerLosesArbiter, Idle, arbVars, procVars, netVars
<1>2. ASSUME NEW a \in Arbiters, ArbiterLosesServer(a) \/ \E p \in Procs : ArbiterLosesProcess(a, p)
      PROVE  Idle
  BY <1>2 DEF ArbiterLosesServer, ArbiterLosesProcess, Idle, serverVars, procVars, netVars
<1>3. ASSUME NEW a \in Arbiters, UNCHANGED <<serverVars, procVars>>,
             (\E p \in Procs : ArbAccept(a, p)) \/ (\E b \in BOOLEAN : ArbPoll(a, b))
      PROVE  Idle
  BY <1>3 DEF ArbAccept, ArbPoll, Idle, serverVars, procVars
<1>4. UNCHANGED vars => Idle
  BY DEF vars, Idle, serverVars, arbVars, procVars, netVars
<1>5. ASSUME NEW a \in Arbiters, NEW p \in Procs, FromProcessStep(a, p) PROVE Home[p] = a
  <2>1. p \in pass[a]
    BY <1>5 DEF FromProcessStep, ArbAddProc, ArbSyncRequest, ArbForwardSync,
                ArbWaitBarr, ArbPrgmDone, FromProcess
  <2> QED BY <2>1, ReaderIsLocal
<1>6. CASE \E a \in Arbiters : ServerActs(a)
  BY <1>1, <1>6 DEF ServerActs
<1>7. CASE \E a \in Arbiters : ArbiterActs(a)
  <2>1. PICK a \in Arbiters : ArbiterActs(a)
    BY <1>7
  <2>2. CASE ArbiterStep(a) /\ UNCHANGED <<serverVars, procVars>>
    BY <1>3, <1>5, <2>2 DEF ArbiterStep
  <2> QED BY <1>2, <2>1, <2>2 DEF ArbiterActs
<1>8. CASE (\E p \in Procs : ProcessActs(p)) \/ (\E p \in Killable : Kill(p))
  BY <1>8, KillableAssumption DEF ProcessActs, Kill
<1> QED BY <1>4, <1>6, <1>7, <1>8 DEF Next

(* The server registers the process that a reports.                        *)
Registers(a) == ~started /\ SrvAddProc(a)

(* What a handler of the server does to the channels and connections; all  *)
(* but the registration leave the count of processes alone.                *)
LEMMA ServerEffect ==
  ASSUME TypeOK, NEW a \in Arbiters, ServerStep(a)
  PROVE  /\ \/ UNCHANGED a2s
            \/ a \in conns /\ a2s[a] # << >> /\ a2s' = Consume(a2s, a)
         /\ ~Registers(a) =>
              /\ UNCHANGED <<started, gid>> /\ (~started => UNCHANGED nproc_waiting)
              /\ \E S : \E x \in Message :
                   /\ s2a' = SendAll(s2a, S, x)
                   /\ x.type # "SET_GID" /\ (x.type = "WAIT_DONE" => started)
              /\ \/ UNCHANGED <<backlog, conns>>
                 \/ backlog' = backlog \ {a} /\ conns' = conns \cup {a} /\ UNCHANGED a2s
                 \/ UNCHANGED backlog /\ conns' = conns \ {a}
<1>0. /\ s2a \in [Arbiters -> Seq(Message)] /\ a2s \in [Arbiters -> Seq(Message)]
      /\ opqueue \in Seq(Arbiters)
  BY DEF TypeOK, NetTypeOK, ServerTypeOK
<1>1. \/ UNCHANGED a2s
      \/ a \in conns /\ a2s[a] # << >> /\ a2s' = Consume(a2s, a)
  BY DEF ServerStep, SrvAccept, SrvAddProc, SrvSyncRequest, SrvStopDone, SrvSyncInfo,
         SrvSyncDone, SrvWaitBarr, SrvPrgmDone, SrvReceive, Waiting
<1> DEFINE Out == \E S : \E x \in Message : /\ s2a' = SendAll(s2a, S, x)
                                        /\ x.type # "SET_GID" /\ (x.type = "WAIT_DONE" => started)
           Kept == UNCHANGED <<started, gid>> /\ (~started => UNCHANGED nproc_waiting)
           Nets == \/ UNCHANGED <<backlog, conns>>
                   \/ backlog' = backlog \ {a} /\ conns' = conns \cup {a} /\ UNCHANGED a2s
                   \/ UNCHANGED backlog /\ conns' = conns \ {a}
<1> SUFFICES ASSUME ~Registers(a) PROVE Kept /\ Out /\ Nets
  BY <1>1
<1>m. \A t \in SimpleTypes : Simple(t) \in Message /\ Simple(t).type = t
  BY MessageTypes DEF Simple
<1>s. ASSUME NEW S, NEW x \in Message, s2a' = SendAll(s2a, S, x),
             x.type # "SET_GID", x.type = "WAIT_DONE" => started
      PROVE  Out
  BY <1>s
<1>u. UNCHANGED s2a => Out
  <2>1. Simple("STOP_ALL") \in Message /\ Simple("STOP_ALL").type = "STOP_ALL"
    BY <1>m DEF SimpleTypes
  <2>2. s2a = SendAll(s2a, {}, Simple("STOP_ALL"))
    BY <1>0 DEF SendAll
  <2> QED BY <1>s, <2>1, <2>2
<1>a. \A t \in SimpleTypes : t # "WAIT_DONE" /\ s2a' = SendAll(s2a, conns, Simple(t)) => Out
  BY <1>m, <1>s DEF SimpleTypes
<1>o. ASSUME NEW b \in Arbiters, s2a' = Send(s2a, b, Simple("WRITE_OKAY")) PROVE Out
  <2>1. s2a' = SendAll(s2a, {b}, Simple("WRITE_OKAY"))
    BY <1>0, <1>o DEF Send, SendAll
  <2>2. Simple("WRITE_OKAY") \in Message /\ Simple("WRITE_OKAY").type = "WRITE_OKAY"
    BY <1>m DEF SimpleTypes
  <2> QED BY <1>s, <2>1, <2>2
<1> HIDE DEF Out
<1>p. SrvPanic => Out /\ Kept /\ UNCHANGED <<backlog, conns>>
  BY <1>u DEF SrvPanic
<1>y. ASSUME NEW n \in Nat, Synced(n), opqueue # << >> PROVE Out
  <2>1. CASE AllSynced(n)
    <3>1. CASE Tail(opqueue) = << >>
      <4>1. s2a' = SendAll(s2a, conns, Simple("CONT_ALL"))
        BY <1>y, <2>1, <3>1 DEF Synced
      <4> QED BY <1>a, <4>1 DEF SimpleTypes
    <3>2. CASE Tail(opqueue) # << >>
      <4>1. s2a' = Send(s2a, Head(Tail(opqueue)), Simple("WRITE_OKAY"))
        BY <1>y, <2>1, <3>2 DEF Synced
      <4>2. Head(Tail(opqueue)) \in Arbiters
        BY <1>0, <1>y, <3>2, SeqTypes
      <4> QED BY <1>o, <4>1, <4>2
    <3> QED BY <3>1, <3>2
  <2>2. CASE ~AllSynced(n)
    BY <1>u, <1>y, <2>2 DEF Synced
  <2> QED BY <2>1, <2>2
<1>r. ASSUME NEW t, SrvReceive(a, t)
      PROVE  Head(a2s[a]) \in Message /\ Head(a2s[a]).type = t
  BY <1>0, <1>r, ChannelTypes DEF SrvReceive, Waiting
<1>2. CASE SrvAccept(a)
  BY <1>2, <1>u DEF SrvAccept
<1>3. CASE SrvAddProc(a)
  BY <1>3, <1>p DEF SrvAddProc, Registers
<1>4. CASE SrvSyncRequest(a)
  <2>1. Out
    <3>1. \/ SrvPanic \/ UNCHANGED s2a
          \/ s2a' = SendAll(s2a, conns, Simple("STOP_ALL"))
      BY <1>4 DEF SrvSyncRequest
    <3> QED BY <1>a, <1>p, <1>u, <3>1 DEF SimpleTypes
  <2>2. SrvPanic \/ UNCHANGED <<started, gid, nproc_waiting, backlog, conns>>
    BY <1>4 DEF SrvSyncRequest, counters
  <2> QED BY <1>p, <2>1, <2>2
<1>5. CASE SrvStopDone(a)
  <2>1. Out
    <3>1. \/ SrvPanic \/ UNCHANGED s2a
          \/ opqueue # << >> /\ s2a' = Send(s2a, Head(opqueue), Simple("WRITE_OKAY"))
      BY <1>5 DEF SrvStopDone
    <3>2. opqueue # << >> => Head(opqueue) \in Arbiters
      BY <1>0, SeqTypes
    <3> QED BY <1>o, <1>p, <1>u, <3>1, <3>2
  <2>2. SrvPanic \/ UNCHANGED <<started, gid, nproc_waiting, backlog, conns>>
    BY <1>5 DEF SrvStopDone
  <2> QED BY <1>p, <2>1, <2>2
<1>6. CASE SrvSyncInfo(a)
  <2>1. Head(a2s[a]) \in Message /\ Head(a2s[a]).type = "SYNC_INFO"
    BY <1>6, <1>r DEF SrvSyncInfo
  <2>2. Out
    <3>1. CASE SrvPanic
      BY <1>p, <3>1
    <3>2. CASE ~SrvPanic
      <4>1. opqueue # << >> /\ (Synced(NProc) \/ s2a' = SendAll(s2a, conns, Head(a2s[a])))
        BY <1>6, <3>2 DEF SrvSyncInfo, IsWriter
      <4> QED BY <1>s, <1>y, <2>1, <4>1, NProcType
    <3> QED BY <3>1, <3>2
  <2>3. SrvPanic \/ UNCHANGED <<started, gid, nproc_waiting, backlog, conns>>
    BY <1>6 DEF SrvSyncInfo
  <2> QED BY <1>p, <2>2, <2>3
<1>7. CASE SrvSyncDone(a)
  <2>1. Head(a2s[a]).nproc \in Nat
    BY <1>7, <1>r, PayloadTypes DEF SrvSyncDone
  <2>2. Out
    <3>1. CASE SrvPanic
      BY <1>p, <3>1
    <3>2. CASE ~SrvPanic
      <4>1. Synced(Head(a2s[a]).nproc) /\ (AllSynced(Head(a2s[a]).nproc) => opqueue # << >>)
        BY <1>7, <3>2 DEF SrvSyncDone
      <4>2. CASE AllSynced(Head(a2s[a]).nproc)
        BY <1>y, <2>1, <4>1, <4>2
      <4>3. CASE ~AllSynced(Head(a2s[a]).nproc)
        BY <1>u, <4>1, <4>3 DEF Synced
      <4> QED BY <4>2, <4>3
    <3> QED BY <3>1, <3>2
  <2>3. SrvPanic \/ UNCHANGED <<started, gid, nproc_waiting, backlog, conns>>
    BY <1>7 DEF SrvSyncDone
  <2> QED BY <1>p, <2>2, <2>3
<1>8. CASE SrvWaitBarr(a)
  <2>1. Out
    <3>1. \/ SrvPanic \/ UNCHANGED s2a
          \/ started /\ s2a' = SendAll(s2a, conns, Simple("WAIT_DONE"))
      BY <1>8 DEF SrvWaitBarr
    <3>2. Simple("WAIT_DONE") \in Message /\ Simple("WAIT_DONE").type = "WAIT_DONE"
      BY <1>m DEF SimpleTypes
    <3> QED BY <1>p, <1>s, <1>u, <3>1, <3>2
  <2>2. SrvPanic \/ (started /\ UNCHANGED <<started, gid, backlog, conns>>)
    BY <1>8 DEF SrvWaitBarr
  <2> QED BY <1>p, <2>1, <2>2
<1>9. CASE SrvPrgmDone(a)
  <2>1. SrvPanic \/ (UNCHANGED <<s2a, started, gid, nproc_waiting, backlog>> /\ conns' = conns \ {a})
    BY <1>9 DEF SrvPrgmDone
  <2> QED BY <1>p, <1>u, <2>1
<1> QED BY <1>2, <1>3, <1>4, <1>5, <1>6, <1>7, <1>8, <1>9 DEF ServerStep

(* An arbiter reads a message of one of its processes.                     *)
LEMMA ReadEffect ==
  ASSUME TypeOK, NEW a \in Arbiters, NEW p \in Procs, FromProcessStep(a, p), Home[p] = a
  PROVE  LET m == Head(p2a[p]) IN
         /\ p2a[p] # << >> /\ p2a' = Consume(p2a, p) /\ UNCHANGED <<s2a, a2p>>
         /\ \A q \in Procs : q # p => ptab'[q].used = ptab[q].used
         /\ \/ /\ m.type = "ADD_PROC" /\ ~ptab[p].used /\ ptab'[p].used
               /\ a2s' = SendAll(a2s, {a}, m)
            \/ /\ ptab'[p].used = ptab[p].used \/ (m.type = "PRGM_DONE" /\ ~ptab'[p].used)
               /\ \E S : \E x \in Message : x.type # "ADD_PROC" /\ a2s' = SendAll(a2s, S, x)
<1> DEFINE m == Head(p2a[p])
           Out == \E S : \E x \in Message : x.type # "ADD_PROC" /\ a2s' = SendAll(a2s, S, x)
           Others == \A q \in Procs : q # p => ptab'[q].used = ptab[q].used
<1>0. /\ a2s \in [Arbiters -> Seq(Message)] /\ p2a \in [Procs -> Seq(Message)]
      /\ ptab \in [Procs -> Entry] /\ \A q \in Procs : ptab[q] \in Entry
  BY DEF TypeOK, NetTypeOK, ArbiterTypeOK
<1>1. p2a[p] # << >> /\ p2a' = Consume(p2a, p) /\ UNCHANGED <<s2a, a2p>>
  BY DEF FromProcessStep, ArbAddProc, ArbSyncRequest, ArbForwardSync, ArbWaitBarr,
         ArbPrgmDone, FromProcess, Waiting, ArbPanic
<1>2. m \in Message
  BY <1>0, <1>1, ChannelTypes
<1>s. ASSUME NEW x \in Message, x.type # "ADD_PROC", a2s' = Send(a2s, a, x) PROVE Out
  <2>1. a2s' = SendAll(a2s, {a}, x)
    BY <1>0, <1>s DEF Send, SendAll
  <2> QED BY <1>s, <2>1
<1>u. UNCHANGED a2s => Out
  <2>1. Simple("STOP_ALL") \in Message /\ Simple("STOP_ALL").type # "ADD_PROC"
    BY MessageTypes DEF Simple, SimpleTypes
  <2>2. a2s = SendAll(a2s, {}, Simple("STOP_ALL"))
    BY <1>0 DEF SendAll
  <2> QED BY <2>1, <2>2
<1>p. UNCHANGED ptab => Others /\ ptab'[p].used = ptab[p].used
  OBVIOUS
<1> HIDE DEF Out
<1> SUFFICES /\ Others
             /\ \/ /\ m.type = "ADD_PROC" /\ ~ptab[p].used /\ ptab'[p].used
                   /\ a2s' = SendAll(a2s, {a}, m)
                \/ /\ ptab'[p].used = ptab[p].used \/ (m.type = "PRGM_DONE" /\ ~ptab'[p].used)
                   /\ Out
  BY <1>1 DEF Out
<1>3. CASE ArbAddProc(a, p)
  <2>1. CASE ArbPanic(a)
    BY <1>p, <1>u, <2>1 DEF ArbPanic
  <2>2. CASE ~ArbPanic(a)
    <3>1. /\ m.type = "ADD_PROC" /\ ~ptab[p].used /\ a2s' = Send(a2s, a, m)
          /\ ptab' = [ptab EXCEPT ![p] = [Unused EXCEPT !.used = TRUE, !.is_waiting = TRUE]]
      BY <1>3, <2>2 DEF ArbAddProc, FromProcess, Waiting
    <3>2. a2s' = SendAll(a2s, {a}, m)
      BY <1>0, <3>1 DEF Send, SendAll
    <3>3. Others /\ ptab'[p].used
      BY <1>0, <3>1 DEF Unused
    <3> QED BY <3>1, <3>2, <3>3
  <2> QED BY <2>1, <2>2
<1>4. CASE ArbSyncRequest(a, p)
  <2>1. Simple("SYNC_REQ") \in Message /\ Simple("SYNC_REQ").type # "ADD_PROC"
    BY MessageTypes DEF Simple, SimpleTypes
  <2>2. Out
    BY <1>4, <1>s, <2>1 DEF ArbSyncRequest
  <2>3. ptab' = [ptab EXCEPT ![p] = [ptab[p] EXCEPT !.is_stopped = TRUE, !.is_queued = TRUE]]
    BY <1>0, <1>4 DEF ArbSyncRequest
  <2>4. Others /\ ptab'[p].used = ptab[p].used
    BY <1>0, <2>3 DEF Entry
  <2> QED BY <2>2, <2>4
<1>5. CASE ArbForwardSync(a, p)
  <2>1. Out
    BY <1>2, <1>5, <1>s DEF ArbForwardSync, FromProcess, Waiting
  <2>2. UNCHANGED ptab \/ ptab' = [ptab EXCEPT ![p] = [ptab[p] EXCEPT !.is_queued = FALSE]]
    BY <1>0, <1>5 DEF ArbForwardSync
  <2>3. Others /\ ptab'[p].used = ptab[p].used
    BY <1>0, <2>2 DEF Entry
  <2> QED BY <2>1, <2>3
<1>6. CASE ArbWaitBarr(a, p)
  <2>1. Out
    BY <1>2, <1>6, <1>s DEF ArbWaitBarr, FromProcess, Waiting
  <2>2. ptab' = [ptab EXCEPT ![p] = [ptab[p] EXCEPT !.is_waiting = TRUE]]
    BY <1>0, <1>6 DEF ArbWaitBarr
  <2>3. Others /\ ptab'[p].used = ptab[p].used
    BY <1>0, <2>2 DEF Entry
  <2> QED BY <2>1, <2>3
<1>7. CASE ArbPrgmDone(a, p)
  <2>1. /\ m.type = "PRGM_DONE" /\ UNCHANGED a2s
        /\ ptab' = [ptab EXCEPT ![p] = Unused]
    BY <1>7 DEF ArbPrgmDone, FromProcess, Waiting
  <2>2. Others /\ ~ptab'[p].used
    BY <1>0, <2>1 DEF Unused
  <2> QED BY <1>u, <2>1, <2>2
<1> QED BY <1>3, <1>4, <1>5, <1>6, <1>7 DEF FromProcessStep

(* An arbiter reads a message of the server, or says goodbye to it.        *)
LEMMA ServedEffect ==
  ASSUME TypeOK, NEW a \in Arbiters, FromServerStep(a) \/ ArbExit(a)
  PROVE  LET m == Head(s2a[a]) IN
         /\ UNCHANGED p2a
         /\ UNCHANGED s2a \/ (s2a[a] # << >> /\ s2a' = Consume(s2a, a))
         /\ \A q \in Procs : ptab'[q].used = ptab[q].used
         /\ \E S : \E x \in Message : x.type # "ADD_PROC" /\ a2s' = SendAll(a2s, S, x)
         /\ \E S : \E x \in Message :
              /\ a2p' = SendAll(a2p, S, x)
              /\ x.type = "SET_GID" => x = m /\ s2a[a] # << >>
              /\ x.type = "WAIT_DONE" => m.type = "WAIT_DONE" /\ s2a[a] # << >>
<1> DEFINE m == Head(s2a[a])
           Up == \E S : \E x \in Message : x.type # "ADD_PROC" /\ a2s' = SendAll(a2s, S, x)
           Down == \E S : \E x \in Message :
              /\ a2p' = SendAll(a2p, S, x)
              /\ x.type = "SET_GID" => x = m /\ s2a[a] # << >>
              /\ x.type = "WAIT_DONE" => m.type = "WAIT_DONE" /\ s2a[a] # << >>
           Used == \A q \in Procs : ptab'[q].used = ptab[q].used
<1>0. /\ a2s \in [Arbiters -> Seq(Message)] /\ s2a \in [Arbiters -> Seq(Message)]
      /\ a2p \in [Procs -> Seq(Message)] /\ fds \in [Arbiters -> Seq(Procs)]
      /\ arbQueue \in [Arbiters -> Seq(Procs)]
      /\ ptab \in [Procs -> Entry] /\ \A q \in Procs : ptab[q] \in Entry
  BY DEF TypeOK, NetTypeOK, ArbiterTypeOK
<1>1. /\ UNCHANGED p2a
      /\ ~ArbExit(a) => s2a[a] # << >> /\ s2a' = Consume(s2a, a)
      /\ ArbExit(a) => UNCHANGED s2a
  BY DEF FromServerStep, ArbSetGid, ArbStopAll, ArbContAll, ArbWaitDone, ArbWriteOkay,
         ArbApplySync, FromServer, Waiting, ArbExit
<1>2. s2a[a] # << >> => m \in Message
  BY <1>0, ChannelTypes
<1>m. \A t \in SimpleTypes : Simple(t) \in Message /\ Simple(t).type = t
  BY MessageTypes DEF Simple
<1>n. NLocal(a) \in Nat
  BY <1>0 DEF NLocal
<1>s. ASSUME NEW x \in Message, x.type # "ADD_PROC", a2s' = Send(a2s, a, x) PROVE Up
  <2>1. a2s' = SendAll(a2s, {a}, x)
    BY <1>0, <1>s DEF Send, SendAll
  <2> QED BY <1>s, <2>1
<1>u. (UNCHANGED a2s => Up) /\ (UNCHANGED a2p => Down)
  <2>1. Simple("STOP_ALL") \in Message /\ Simple("STOP_ALL").type = "STOP_ALL"
    BY <1>m DEF SimpleTypes
  <2>2. a2s = SendAll(a2s, {}, Simple("STOP_ALL")) /\ a2p = SendAll(a2p, {}, Simple("STOP_ALL"))
    BY <1>0 DEF SendAll
  <2> QED BY <2>1, <2>2
<1>t. ASSUME NEW S, NEW x \in Message, a2p' = SendAll(a2p, S, x),
             x.type = "SET_GID" => x = m /\ s2a[a] # << >>,
             x.type = "WAIT_DONE" => m.type = "WAIT_DONE" /\ s2a[a] # << >>
      PROVE  Down
  BY <1>t
<1>v. UNCHANGED ptab => Used
  OBVIOUS
<1> SUFFICES Used /\ Up /\ Down
  BY <1>1
<1> HIDE DEF Up, Down
<1>p. ArbPanic(a) => Used /\ Up /\ Down
  BY <1>u, <1>v DEF ArbPanic
<1>3. CASE ArbSetGid(a)
  <2>1. CASE ArbPanic(a)
    BY <1>p, <2>1
  <2>2. CASE ~ArbPanic(a)
    <3>1. /\ m.type = "SET_GID" /\ s2a[a] # << >> /\ UNCHANGED a2s
          /\ a2p' = Send(a2p, m.pid, m)
          /\ ptab' = [ptab EXCEPT ![m.pid].gid = m.gid]
      BY <1>3, <2>2 DEF ArbSetGid, FromServer, Waiting
    <3>2. m \in Message /\ m.pid \in Procs
      BY <1>2, <3>1, PayloadTypes
    <3>3. a2p' = SendAll(a2p, {m.pid}, m)
      BY <1>0, <3>1, <3>2 DEF Send, SendAll
    <3>4. Down
      BY <1>t, <3>1, <3>2, <3>3
    <3>5. Used
      BY <1>0, <3>1 DEF Entry
    <3> QED BY <1>u, <3>1, <3>4, <3>5
  <2> QED BY <2>1, <2>2
<1>4. CASE ArbStopAll(a)
  <2>1. CASE ArbPanic(a)
    BY <1>p, <2>1
  <2>2. CASE ~ArbPanic(a)
    <3>1. /\ UNCHANGED a2p /\ a2s' = Send(a2s, a, Done("STOP_DONE", NLocal(a)))
          /\ ptab' = [p \in Procs |-> [ptab[p] EXCEPT !.is_stopped = @ \/ p \in ToStop(a)]]
      BY <1>4, <2>2 DEF ArbStopAll
    <3>2. Done("STOP_DONE", NLocal(a)) \in Message /\ Done("STOP_DONE", NLocal(a)).type # "ADD_PROC"
      BY <1>n, MessageTypes DEF Done
    <3>3. Used
      BY <1>0, <3>1 DEF Entry
    <3> QED BY <1>s, <1>u, <3>1, <3>2, <3>3
  <2> QED BY <2>1, <2>2
<1>5. CASE ArbContAll(a)
  <2>1. CASE ArbPanic(a)
    BY <1>p, <2>1
  <2>2. CASE ~ArbPanic(a)
    <3>1. /\ UNCHANGED <<a2p, a2s>>
          /\ ptab' = [p \in Procs |-> [ptab[p] EXCEPT !.is_stopped = @ /\ p \notin ToCont(a)]]
      BY <1>5, <2>2 DEF ArbContAll
    <3>3. Used
      BY <1>0, <3>1 DEF Entry
    <3> QED BY <1>u, <3>1, <3>3
  <2> QED BY <2>1, <2>2
<1>6. CASE ArbWaitDone(a)
  <2>1. CASE ArbPanic(a)
    BY <1>p, <2>1
  <2>2. CASE ~ArbPanic(a)
    <3>1. /\ m.type = "WAIT_DONE" /\ s2a[a] # << >> /\ UNCHANGED a2s
          /\ UNCHANGED a2p \/ a2p' = SendAll(a2p, Accepted(a), Simple("WAIT_DONE"))
          /\ ptab' = [p \in Procs |-> [ptab[p] EXCEPT !.is_waiting = @ /\ p \notin Table(a)]]
      BY <1>6, <2>2 DEF ArbWaitDone, FromServer, Waiting
    <3>2. Simple("WAIT_DONE") \in Message /\ Simple("WAIT_DONE").type = "WAIT_DONE"
      BY <1>m DEF SimpleTypes
    <3>3. Down
      BY <1>t, <1>u, <3>1, <3>2
    <3>4. Used
      BY <1>0, <3>1 DEF Entry
    <3> QED BY <1>u, <3>1, <3>3, <3>4
  <2> QED BY <2>1, <2>2
<1>7. CASE ArbWriteOkay(a)
  <2>1. CASE ArbPanic(a)
    BY <1>p, <2>1
  <2>2. CASE ~ArbPanic(a)
    <3>1. /\ m.type = "WRITE_OKAY" /\ s2a[a] # << >> /\ UNCHANGED <<a2s, ptab>>
          /\ a2p' = SendAll(a2p, Grantee(a), m)
      BY <1>7, <2>2 DEF ArbWriteOkay, FromServer, Waiting
    <3>2. Down
      BY <1>2, <1>t, <3>1
    <3> QED BY <1>u, <1>v, <3>1, <3>2
  <2> QED BY <2>1, <2>2
<1>8. CASE ArbApplySync(a)
  <2>1. UNCHANGED <<a2p, ptab>> /\ a2s' = Send(a2s, a, Done("SYNC_DONE", NLocal(a)))
    BY <1>8 DEF ArbApplySync
  <2>2. Done("SYNC_DONE", NLocal(a)) \in Message /\ Done("SYNC_DONE", NLocal(a)).type # "ADD_PROC"
    BY <1>n, MessageTypes DEF Done
  <2> QED BY <1>s, <1>u, <1>v, <2>1, <2>2
<1>9. CASE ArbExit(a)
  <2>1. UNCHANGED <<a2p, ptab>> /\ a2s' = Send(a2s, a, Simple("PRGM_DONE"))
    BY <1>9 DEF ArbExit
  <2>2. Simple("PRGM_DONE") \in Message /\ Simple("PRGM_DONE").type # "ADD_PROC"
    BY <1>m DEF SimpleTypes
  <2> QED BY <1>s, <1>u, <1>v, <2>1, <2>2
<1> QED BY <1>3, <1>4, <1>5, <1>6, <1>7, <1>8, <1>9 DEF FromServerStep

Inside == {"user", "takeAccess", "store", "sigill", "dropAccess", "barrier"}
Left   == {"exited", "reaped"}

(* A process moves, and may send or read one message.                      *)
LEMMA ProcEffect ==
  ASSUME TypeInv, NEW p \in Procs, ProcessStep(p) \/ ProcKilled(p)
  PROVE  /\ \A q \in Procs : q # p => loc'[q] = loc[q] /\ procGid'[q] = procGid[q]
         /\ loc'[p] = "connect" => loc[p] = "connect"
         /\ loc'[p] \in Inside \cup Left =>
              loc[p] \in Inside \cup Left \/ (a2p[p] # << >> /\ Head(a2p[p]).type = "WAIT_DONE")
         /\ loc[p] \in Left => loc'[p] \in Left
         /\ procGid'[p] # procGid[p] =>
              /\ a2p[p] # << >> /\ Head(a2p[p]).type = "SET_GID" /\ Head(a2p[p]).pid = p
              /\ procGid'[p] = Head(a2p[p]).gid
         /\ UNCHANGED a2p \/ (a2p[p] # << >> /\ a2p' = Consume(a2p, p))
         /\ \E S : \E x \in Message :
              /\ p2a' = SendAll(p2a, S, x) /\ S \subseteq {p}
              /\ x.type = "ADD_PROC" => x = AddProc(p) /\ loc[p] = "connect" /\ loc'[p] # "connect"
              /\ x.type = "PRGM_DONE" => loc'[p] \in Left
<1> DEFINE Sends == \E S : \E x \in Message :
              /\ p2a' = SendAll(p2a, S, x) /\ S \subseteq {p}
              /\ x.type = "ADD_PROC" => x = AddProc(p) /\ loc[p] = "connect" /\ loc'[p] # "connect"
              /\ x.type = "PRGM_DONE" => loc'[p] \in Left
           Reads == UNCHANGED a2p \/ (a2p[p] # << >> /\ a2p' = Consume(a2p, p))
           Moved == /\ \A q \in Procs : q # p => loc'[q] = loc[q]
                    /\ loc'[p] = "connect" => loc[p] = "connect"
                    /\ loc'[p] \in Inside \cup Left =>
                         \/ loc[p] \in Inside \cup Left
                         \/ a2p[p] # << >> /\ Head(a2p[p]).type = "WAIT_DONE"
                    /\ loc[p] \in Left => loc'[p] \in Left
           Numbered == /\ \A q \in Procs : q # p => procGid'[q] = procGid[q]
                       /\ procGid'[p] # procGid[p] =>
                            /\ a2p[p] # << >> /\ Head(a2p[p]).type = "SET_GID" /\ Head(a2p[p]).pid = p
                            /\ procGid'[p] = Head(a2p[p]).gid
<1> SUFFICES Sends /\ Reads /\ Moved /\ Numbered
  OBVIOUS
<1>0. /\ p2a \in [Procs -> Seq(Message)] /\ loc \in [Procs -> Locations]
      /\ procGid \in [Procs -> Nat \cup {-1}] /\ todo \in [Procs -> Seq(Op)]
      /\ mem \in [Arbiters -> [Offsets -> Values]] /\ Home[p] \in Arbiters
  BY HomeAssumption DEF TypeInv, TypeOK, NetTypeOK, ProcessTypeOK
<1>m. /\ \A t \in SimpleTypes : Simple(t) \in Message /\ Simple(t).type = t
      /\ AddProc(p) \in Message /\ AddProc(p).type = "ADD_PROC"
  BY MessageTypes DEF Simple, AddProc
<1>s. ASSUME NEW x \in Message, SendToArbiter(p, x),
             x.type = "ADD_PROC" => x = AddProc(p) /\ loc[p] = "connect" /\ loc'[p] # "connect",
             x.type = "PRGM_DONE" => loc'[p] \in Left
      PROVE  Sends
  <2>1. p2a' = SendAll(p2a, {p}, x)
    BY <1>0, <1>s DEF SendToArbiter, Send, SendAll
  <2> QED BY <1>s, <2>1
<1>u. (UNCHANGED p2a => Sends) /\ (UNCHANGED a2p => Reads) /\ (UNCHANGED procGid => Numbered)
  <2>1. Simple("SYNC_REQ") \in Message /\ Simple("SYNC_REQ").type = "SYNC_REQ"
    BY <1>m DEF SimpleTypes
  <2>2. p2a = SendAll(p2a, {}, Simple("SYNC_REQ"))
    BY <1>0 DEF SendAll
  <2> QED BY <2>1, <2>2
<1>t. \A t \in SimpleTypes : t # "PRGM_DONE" /\ SendToArbiter(p, Simple(t)) => Sends
  BY <1>m, <1>s DEF SimpleTypes
<1>g. ASSUME NEW l, Goto(p, l)
      PROVE  loc'[p] = l /\ \A q \in Procs : q # p => loc'[q] = loc[q]
  BY <1>0, <1>g DEF Goto
<1>r. ASSUME NEW l, Receive(p, l)
      PROVE  Reads /\ loc[p] = l /\ a2p[p] # << >>
  BY <1>r DEF Receive
<1>v. UNCHANGED loc => Moved
  OBVIOUS
<1> HIDE DEF Sends
<1> USE DEF Inside, Left
<1>1. CASE ProcConnect(p)
  <2>1. loc'[p] = "recv_gid" /\ loc[p] = "connect" /\ Moved
    BY <1>1, <1>g DEF ProcConnect
  <2>2. Sends
    BY <1>1, <1>m, <1>s, <2>1 DEF ProcConnect
  <2> QED BY <1>1, <1>u, <2>1, <2>2 DEF ProcConnect
<1>2. CASE ProcRecvGid(p)
  <2>0. (Goto(p, "recv_waitDone") \/ Goto(p, "panic")) /\ loc[p] = "recv_gid"
    BY <1>2 DEF ProcRecvGid, Receive
  <2>1. Moved
    BY <1>g, <2>0
  <2>2. Numbered
    <3>1. a2p[p] # << >>
      BY <1>2, <1>r DEF ProcRecvGid
    <3>2. \/ UNCHANGED procGid
          \/ /\ Head(a2p[p]).type = "SET_GID" /\ Head(a2p[p]).pid = p
             /\ procGid' = [procGid EXCEPT ![p] = Head(a2p[p]).gid]
      BY <1>2 DEF ProcRecvGid
    <3> QED BY <1>0, <3>1, <3>2
  <2> QED BY <1>2, <1>r, <1>u, <2>1, <2>2 DEF ProcRecvGid
<1>3. CASE ProcRecvWaitDone(p)
  <2>1. loc'[p] \in {"user", "panic"} /\ (loc'[p] = "user" => Head(a2p[p]).type = "WAIT_DONE")
        /\ \A q \in Procs : q # p => loc'[q] = loc[q]
    BY <1>3, <1>g DEF ProcRecvWaitDone
  <2>2. Reads /\ loc[p] = "recv_waitDone" /\ a2p[p] # << >>
    BY <1>3, <1>r DEF ProcRecvWaitDone
  <2>3. Moved
    BY <2>1, <2>2
  <2> QED BY <1>3, <1>u, <2>2, <2>3 DEF ProcRecvWaitDone
<1>4. CASE ProcRequest(p)
  <2>1. Moved
    BY <1>4, <1>g DEF ProcRequest, Calls
  <2> QED BY <1>4, <1>t, <1>u, <2>1 DEF ProcRequest, SimpleTypes
<1>5. CASE ProcGranted(p)
  <2>1. loc[p] = "takeAccess" /\ Reads
    BY <1>5, <1>r DEF ProcGranted
  <2>2. Moved
    BY <1>5, <1>g, <2>1 DEF ProcGranted
  <2> QED BY <1>5, <1>u, <2>1, <2>2 DEF ProcGranted
<1>6. CASE ProcStore(p)
  <2>1. Moved
    BY <1>6, <1>g DEF ProcStore
  <2> QED BY <1>6, <1>u, <2>1 DEF ProcStore
<1>7. CASE ProcSigill(p)
  <2>1. Moved
    BY <1>7, <1>g DEF ProcSigill
  <2> DEFINE x == SyncInfo(Head(todo[p]).off, mem[Home[p]][Head(todo[p]).off])
  <2>2. p2a' = SendAll(p2a, {p}, x) /\ x.type = "SYNC_INFO"
    BY <1>0, <1>7 DEF ProcSigill, SendToArbiter, Send, SendAll, SyncInfo
  <2>3. x \in Message
    <3>1. todo[p] # << >> /\ Head(todo[p]).op = "write"
      BY <1>7 DEF ProcSigill, TypeInv, StoreInv
    <3>2. Head(todo[p]) \in Op
      BY <1>0, <3>1
    <3>3. Head(todo[p]).off \in Offsets
      BY <3>1, <3>2 DEF Op
    <3>4. mem[Home[p]][Head(todo[p]).off] \in Values
      BY <1>0, <3>3
    <3> QED BY <3>3, <3>4, MessageTypes
  <2> HIDE DEF x
  <2>4. Sends
    BY <2>2, <2>3 DEF Sends
  <2> QED BY <1>7, <1>u, <2>1, <2>4 DEF ProcSigill
<1>8. CASE ProcBarrier(p)
  <2>1. Moved
    BY <1>8, <1>g DEF ProcBarrier, Calls
  <2> QED BY <1>8, <1>t, <1>u, <2>1 DEF ProcBarrier, SimpleTypes
<1>9. CASE ProcSelfStop(p)
  <2>1. Moved
    BY <1>9, <1>g DEF ProcSelfStop
  <2> QED BY <1>9, <1>u, <2>1 DEF ProcSelfStop
<1>10. CASE ProcExit(p)
  <2>1. Moved /\ loc'[p] = "exited"
    BY <1>10, <1>g DEF ProcExit, Calls
  <2>2. Simple("PRGM_DONE") \in Message /\ Simple("PRGM_DONE").type = "PRGM_DONE"
    BY <1>m DEF SimpleTypes
  <2>3. Sends
    BY <1>10, <1>s, <2>1, <2>2 DEF ProcExit
  <2> QED BY <1>10, <1>u, <2>1, <2>3 DEF ProcExit
<1>11. CASE ProcReap(p)
  <2>1. Moved
    BY <1>11, <1>g DEF ProcReap
  <2> QED BY <1>11, <1>u, <2>1 DEF ProcReap
<1>12. CASE ProcKilled(p)
  <2>1. Moved
    BY <1>12, <1>g DEF ProcKilled
  <2> QED BY <1>12, <1>u, <2>1 DEF ProcKilled
<1>13. CASE DeliverTstp(p)
  <2>1. UNCHANGED <<loc, procGid, p2a, a2p>>
    BY <1>13 DEF DeliverTstp, procVars
  <2> QED BY <1>u, <1>v, <2>1
<1> QED BY <1>1, <1>2, <1>3, <1>4, <1>5, <1>6, <1>7, <1>8, <1>9, <1>10, <1>11, <1>12, <1>13
        DEF ProcessStep

-----------------------------------------------------------------------------
(* Nobody is past dsm_init, and nobody is told to be, before the session   *)
(* has begun; and whoever says that it is done has left.                   *)
ChainInv ==
  /\ \A a \in Arbiters : Has(s2a, a, "WAIT_DONE") => started
  /\ \A p \in Procs : Has(a2p, p, "WAIT_DONE") => started
  /\ \A p \in Procs : loc[p] \in Inside \cup Left => started
  /\ \A p \in Procs : Has(p2a, p, "PRGM_DONE") => loc[p] \in Left

LEMMA ChainInit == Init => ChainInv
<1> SUFFICES ASSUME Init PROVE ChainInv
  OBVIOUS
<1>1. /\ \A p \in Procs : p2a[p] = << >> /\ a2p[p] = << >> /\ loc[p] = "connect"
      /\ \A a \in Arbiters : s2a[a] = << >>
  BY DEF Init, NetInit, ProcessInit
<1>2. DOMAIN << >> = {}
  OBVIOUS
<1> QED BY <1>1, <1>2 DEF ChainInv, Has, Inside, Left

LEMMA ChainStep == ASSUME TypeInv, PlaceInv, ChainInv, [Next]_vars PROVE ChainInv'
<1>0. /\ a2s \in [Arbiters -> Seq(Message)] /\ s2a \in [Arbiters -> Seq(Message)]
      /\ p2a \in [Procs -> Seq(Message)] /\ a2p \in [Procs -> Seq(Message)]
      /\ TypeOK /\ started \in BOOLEAN
  BY DEF TypeInv, TypeOK, NetTypeOK, ServerTypeOK
<1> DEFINE WD == "WAIT_DONE"
           PD == "PRGM_DONE"
<1>1. ASSUME NEW a \in Arbiters, ServerStep(a),
             UNCHANGED <<arbVars, procVars, p2a, a2p, signals, mem>>
      PROVE  ChainInv'
  <2>1. UNCHANGED <<loc, p2a, a2p>>
    BY <1>1 DEF procVars
  <2>2. /\ started => started'
        /\ \A b \in Arbiters : Has(s2a, b, WD)' => started'
    <3>1. CASE ~Registers(a)
      <4>1. PICK S : \E x \in Message : /\ s2a' = SendAll(s2a, S, x)
                                        /\ x.type = WD => started
        BY <1>0, <1>1, <3>1, ServerEffect
      <4>2. PICK x \in Message : s2a' = SendAll(s2a, S, x) /\ (x.type = WD => started)
        BY <4>1
      <4>0. s2a \in [Arbiters -> Seq(Message)]
        BY <1>0
      <4>3. \A b \in Arbiters : Has(SendAll(s2a, S, x), b, WD) => Has(s2a, b, WD) \/ x.type = WD
        BY <4>0, SendAllHas
      <4>4. \A b \in Arbiters : Has(s2a, b, WD)' => Has(s2a, b, WD) \/ x.type = WD
        BY <4>2, <4>3 DEF Has
      <4>5. started' = started
        BY <1>0, <1>1, <3>1, ServerEffect
      <4> QED BY <4>2, <4>4, <4>5 DEF ChainInv
    <3>2. CASE Registers(a)
      <4>1. ~started /\ (~SrvPanic => started' = AllRegistered)
        BY <3>2 DEF Registers, SrvAddProc
      <4>2. \A b \in Arbiters : ~Has(s2a, b, WD)
        BY <4>1 DEF ChainInv
      <4>3. CASE AllRegistered
        BY <3>2, <4>1, <4>3 DEF Registers, SrvAddProc
      <4>4. CASE ~AllRegistered
        <5>1. PICK m \in Message : s2a' = Send(s2a, a, m) /\ m.type # WD
          <6> DEFINE m == SetGid(Head(a2s[a]).pid, gid)
          <6>1. s2a' = Send(s2a, a, m)
            BY <3>2, <4>4 DEF Registers, SrvAddProc
          <6>2. Head(a2s[a]) \in Message /\ Head(a2s[a]).type = "ADD_PROC" /\ gid \in Nat
            BY <1>0, <3>2, ChannelTypes DEF Registers, SrvAddProc, SrvReceive, Waiting, TypeOK, ServerTypeOK
          <6>3. m \in Message
            BY <6>2, PayloadTypes, MessageTypes
          <6>4. m.type # WD
            BY DEF SetGid
          <6> QED BY <6>1, <6>3, <6>4
        <5>0. s2a \in [Arbiters -> Seq(Message)]
          BY <1>0
        <5>2. \A b \in Arbiters : ~Has(Send(s2a, a, m), b, WD)
          BY <5>0, <4>2, <5>1, SendHas
        <5> QED BY <4>1, <5>1, <5>2 DEF Has
      <4> QED BY <4>3, <4>4
    <3> QED BY <3>1, <3>2
  <2> QED BY <2>1, <2>2 DEF ChainInv, Has
<1>2. ASSUME NEW a \in Arbiters, NEW p \in Procs, FromProcessStep(a, p), Home[p] = a,
             UNCHANGED <<serverVars, procVars>>
      PROVE  ChainInv'
  <2>1. UNCHANGED <<loc, started, s2a, a2p>> /\ p2a[p] # << >> /\ p2a' = Consume(p2a, p)
    BY <1>0, <1>2, ReadEffect DEF serverVars, procVars
  <2>2. \A q \in Procs : Has(Consume(p2a, p), q, PD) => Has(p2a, q, PD)
    BY <1>0, <2>1, ConsumeHas
  <2> QED BY <2>1, <2>2 DEF ChainInv, Has
<1>3. ASSUME NEW a \in Arbiters, FromServerStep(a) \/ ArbExit(a), UNCHANGED <<serverVars, procVars>>
      PROVE  ChainInv'
  <2>1. UNCHANGED <<loc, started, p2a>> /\ (UNCHANGED s2a \/ (s2a[a] # << >> /\ s2a' = Consume(s2a, a)))
    BY <1>0, <1>3, ServedEffect DEF serverVars, procVars
  <2>2. s2a[a] # << >> => \A b \in Arbiters : Has(Consume(s2a, a), b, WD) => Has(s2a, b, WD)
    BY <1>0, ConsumeHas
  <2>3. \A b \in Arbiters : Has(s2a, b, WD)' => Has(s2a, b, WD)
    BY <2>1, <2>2 DEF Has
  <2>4. PICK S : \E x \in Message : /\ a2p' = SendAll(a2p, S, x)
                                    /\ x.type = WD => Head(s2a[a]).type = WD /\ s2a[a] # << >>
    BY <1>0, <1>3, ServedEffect
  <2>5. PICK x \in Message : /\ a2p' = SendAll(a2p, S, x)
                             /\ x.type = WD => Head(s2a[a]).type = WD /\ s2a[a] # << >>
    BY <2>4
  <2>6. \A q \in Procs : Has(SendAll(a2p, S, x), q, WD) => Has(a2p, q, WD) \/ x.type = WD
    BY <1>0, SendAllHas
  <2>7. x.type = WD => Has(s2a, a, WD)
    BY <1>0, <2>5, ConsumeHas
  <2>8. \A q \in Procs : Has(a2p, q, WD)' => started
    BY <2>5, <2>6, <2>7 DEF ChainInv, Has
  <2> QED BY <2>1, <2>3, <2>8 DEF ChainInv, Has
<1>4. ASSUME NEW p \in Procs, ProcessStep(p) \/ ProcKilled(p), UNCHANGED <<serverVars, arbVars, a2s, s2a>>
      PROVE  ChainInv'
  <2>1. /\ \A q \in Procs : q # p => loc'[q] = loc[q]
        /\ loc'[p] \in Inside \cup Left =>
              loc[p] \in Inside \cup Left \/ (a2p[p] # << >> /\ Head(a2p[p]).type = WD)
        /\ loc[p] \in Left => loc'[p] \in Left
        /\ UNCHANGED a2p \/ (a2p[p] # << >> /\ a2p' = Consume(a2p, p))
    BY <1>4, ProcEffect
  <2>2. UNCHANGED <<started, s2a>>
    BY <1>4 DEF serverVars
  <2>3. a2p[p] # << >> => /\ \A q \in Procs : Has(Consume(a2p, p), q, WD) => Has(a2p, q, WD)
                          /\ Head(a2p[p]).type = WD => Has(a2p, p, WD)
    BY <1>0, ConsumeHas
  <2>4. \A q \in Procs : Has(a2p, q, WD)' => started'
    BY <2>1, <2>2, <2>3 DEF ChainInv, Has
  <2>5. \A q \in Procs : loc'[q] \in Inside \cup Left => started'
    BY <2>1, <2>2, <2>3 DEF ChainInv
  <2>6. PICK S : \E x \in Message : /\ p2a' = SendAll(p2a, S, x) /\ S \subseteq {p}
                                    /\ x.type = PD => loc'[p] \in Left
    BY <1>4, ProcEffect
  <2>7. PICK x \in Message : /\ p2a' = SendAll(p2a, S, x) /\ S \subseteq {p}
                             /\ x.type = PD => loc'[p] \in Left
    BY <2>6
  <2>0. p2a \in [Procs -> Seq(Message)]
    BY <1>0
  <2>8. \A q \in Procs : Has(SendAll(p2a, S, x), q, PD) => Has(p2a, q, PD) \/ (q \in S /\ x.type = PD)
    BY <2>0, SendAllHas
  <2>9. \A q \in Procs : Has(p2a, q, PD)' => loc'[q] \in Left
    BY <2>1, <2>7, <2>8 DEF ChainInv, Has
  <2> QED BY <2>2, <2>4, <2>5, <2>9 DEF ChainInv, Has
<1>5. ASSUME NEW p \in Procs, ProcessLosesArbiter(p) PROVE ChainInv'
  <2>1. UNCHANGED <<started, s2a, a2p, p2a>> /\ Goto(p, "panic")
        /\ loc[p] \in {"recv_gid", "recv_waitDone", "takeAccess"}
    BY <1>5 DEF ProcessLosesArbiter, serverVars, netVars, channels
  <2>2. \A q \in Procs : /\ loc'[q] \in Inside \cup Left => loc[q] \in Inside \cup Left
                         /\ loc[q] \in Left => loc'[q] \in Left
    BY <2>1 DEF Goto, Inside, Left, TypeInv, TypeOK, ProcessTypeOK
  <2> QED BY <2>1, <2>2 DEF ChainInv, Has
<1>6. CASE Idle
  BY <1>6 DEF Idle, channels, ChainInv, Has
<1> QED BY <1>1, <1>2, <1>3, <1>4, <1>5, <1>6, StepCases

-----------------------------------------------------------------------------
(* A process is registered once: its request is nowhere before it          *)
(* connects, then with its arbiter, then, the process being in the         *)
(* arbiter's table, with the server.                                       *)
JoinInv ==
  \A p \in Procs :
    /\ \A m : In(p2a, p, m) /\ m.type = "ADD_PROC" => m = AddProc(p)
    /\ OnceOf(p2a, p, AddProc(p))
    /\ loc[p] = "connect" => ~In(p2a, p, AddProc(p))
    /\ loc[p] = "connect" \/ In(p2a, p, AddProc(p)) =>
         ~ptab[p].used /\ \A a \in Arbiters : ~In(a2s, a, AddProc(p))
    /\ \A a \in Arbiters : In(a2s, a, AddProc(p)) => a = Home[p] /\ (ptab[p].used \/ started)
    /\ \A a \in Arbiters : OnceOf(a2s, a, AddProc(p))

LEMMA JoinInit == Init => JoinInv
<1> SUFFICES ASSUME Init PROVE JoinInv
  OBVIOUS
<1>1. /\ \A p \in Procs : p2a[p] = << >> /\ ~ptab[p].used
      /\ \A a \in Arbiters : a2s[a] = << >>
  BY DEF Init, NetInit, ArbiterInit, Unused
<1>2. DOMAIN << >> = {}
  OBVIOUS
<1>3. /\ \A p \in Procs : \A m : ~In(p2a, p, m) /\ OnceOf(p2a, p, m)
      /\ \A a \in Arbiters : \A m : ~In(a2s, a, m) /\ OnceOf(a2s, a, m)
  BY <1>1, <1>2 DEF In, OnceOf
<1> QED BY <1>1, <1>3 DEF JoinInv

(* A step that sends no request keeps the invariant.                       *)
LEMMA JoinKept ==
  ASSUME JoinInv, started => started',
         \A p \in Procs : loc'[p] = "connect" => loc[p] = "connect",
         \A p \in Procs : ptab'[p].used = ptab[p].used \/ (started /\ ~ptab'[p].used),
         \A p \in Procs : \A m : In(p2a, p, m)' => In(p2a, p, m) \/ m.type # "ADD_PROC",
         \A p \in Procs : OnceOf(p2a, p, AddProc(p)) => OnceOf(p2a, p, AddProc(p))',
         \A a \in Arbiters, p \in Procs : In(a2s, a, AddProc(p))' => In(a2s, a, AddProc(p)),
         \A a \in Arbiters, p \in Procs : OnceOf(a2s, a, AddProc(p)) => OnceOf(a2s, a, AddProc(p))'
  PROVE  JoinInv'
<1> SUFFICES ASSUME NEW p \in Procs
    PROVE  /\ \A m : In(p2a, p, m)' /\ m.type = "ADD_PROC" => m = AddProc(p)
           /\ OnceOf(p2a, p, AddProc(p))'
           /\ loc'[p] = "connect" => ~In(p2a, p, AddProc(p))'
           /\ loc'[p] = "connect" \/ In(p2a, p, AddProc(p))' =>
                ~ptab'[p].used /\ \A a \in Arbiters : ~In(a2s, a, AddProc(p))'
           /\ \A a \in Arbiters : In(a2s, a, AddProc(p))' => a = Home[p] /\ (ptab'[p].used \/ started')
           /\ \A a \in Arbiters : OnceOf(a2s, a, AddProc(p))'
  BY DEF JoinInv
<1>1. AddProc(p).type = "ADD_PROC"
  BY DEF AddProc
<1>2. In(p2a, p, AddProc(p))' => In(p2a, p, AddProc(p))
  BY <1>1
<1> QED BY <1>2 DEF JoinInv

(* A request, and a reply, say whose they are.                             *)
LEMMA AddProcIs ==
  \A p, q \in Procs : AddProc(p).type = "ADD_PROC" /\ (AddProc(p) = AddProc(q) => p = q)
BY DEF AddProc

(* Its arbiter passes a request on in the step that enters the process.    *)
LEMMA JoinStep == ASSUME TypeInv, PlaceInv, ChainInv, JoinInv, [Next]_vars PROVE JoinInv'
<1>0. /\ a2s \in [Arbiters -> Seq(Message)] /\ p2a \in [Procs -> Seq(Message)]
      /\ TypeOK /\ loc \in [Procs -> Locations]
  BY DEF TypeInv, TypeOK, NetTypeOK, ProcessTypeOK
<1>p. a2s \in [Arbiters -> Seq(Message)] /\ p2a \in [Procs -> Seq(Message)]
  BY <1>0
<1> DEFINE AP == "ADD_PROC"
<1>u. /\ UNCHANGED p2a => /\ \A p \in Procs : \A m : In(p2a, p, m)' => In(p2a, p, m)
                          /\ \A p \in Procs : \A m : OnceOf(p2a, p, m) => OnceOf(p2a, p, m)'
      /\ UNCHANGED a2s => /\ \A a \in Arbiters : \A m : In(a2s, a, m)' => In(a2s, a, m)
                          /\ \A a \in Arbiters : \A m : OnceOf(a2s, a, m) => OnceOf(a2s, a, m)'
  OBVIOUS
<1>s. ASSUME NEW S, NEW x \in Message, x.type # AP, a2s' = SendAll(a2s, S, x)
      PROVE  \A a \in Arbiters, p \in Procs :
               /\ In(a2s, a, AddProc(p))' => In(a2s, a, AddProc(p))
               /\ OnceOf(a2s, a, AddProc(p)) => OnceOf(a2s, a, AddProc(p))'
  <2> SUFFICES ASSUME NEW a \in Arbiters, NEW p \in Procs
      PROVE  /\ In(a2s, a, AddProc(p))' => In(a2s, a, AddProc(p))
             /\ OnceOf(a2s, a, AddProc(p)) => OnceOf(a2s, a, AddProc(p))'
    OBVIOUS
  <2>1. PICK n : n = AddProc(p)
    OBVIOUS
  <2>2. x # n
    BY <1>s, <2>1, AddProcIs
  <2>3. a2s \in [Arbiters -> Seq(Message)]
    BY <1>0
  <2>4. /\ In(SendAll(a2s, S, x), a, n) => In(a2s, a, n)
        /\ OnceOf(a2s, a, n) => OnceOf(SendAll(a2s, S, x), a, n)
    BY <2>2, <2>3, SendAllIn
  <2> QED BY <1>s, <2>1, <2>4
<1>1. ASSUME NEW a \in Arbiters, ServerStep(a),
             UNCHANGED <<arbVars, procVars, p2a, a2p, signals, mem>>
      PROVE  JoinInv'
  <2>1. UNCHANGED <<loc, p2a, ptab>>
    BY <1>1 DEF procVars, arbVars
  <2>2. started => started'
    BY <1>0, <1>1, ServerEffect DEF Registers
  <2>3. UNCHANGED a2s \/ (a2s[a] # << >> /\ a2s' = Consume(a2s, a))
    BY <1>0, <1>1, ServerEffect
  <2>4. a2s[a] # << >> => \A b \in Arbiters : \A m :
          /\ In(Consume(a2s, a), b, m) => In(a2s, b, m)
          /\ OnceOf(a2s, b, m) => OnceOf(Consume(a2s, a), b, m)
    BY <1>0, ConsumeIn
  <2>5. \A b \in Arbiters : \A m : /\ In(a2s, b, m)' => In(a2s, b, m)
                                   /\ OnceOf(a2s, b, m) => OnceOf(a2s, b, m)'
    BY <1>u, <2>3, <2>4
  <2> QED BY <1>u, <2>1, <2>2, <2>5, JoinKept
<1>2. ASSUME NEW a \in Arbiters, NEW p \in Procs, FromProcessStep(a, p), Home[p] = a,
             UNCHANGED <<serverVars, procVars>>
      PROVE  JoinInv'
  <2>0. PICK m : m = Head(p2a[p])
    OBVIOUS
  <2>1. /\ p2a[p] # << >> /\ p2a' = Consume(p2a, p)
        /\ \A q \in Procs : q # p => ptab'[q].used = ptab[q].used
        /\ \/ /\ m.type = AP /\ ~ptab[p].used /\ ptab'[p].used
              /\ a2s' = SendAll(a2s, {a}, m)
           \/ /\ ptab'[p].used = ptab[p].used \/ (m.type = "PRGM_DONE" /\ ~ptab'[p].used)
              /\ \E S : \E x \in Message : x.type # AP /\ a2s' = SendAll(a2s, S, x)
    BY <1>0, <1>2, <2>0, ReadEffect
  <2>2. UNCHANGED <<loc, started>>
    BY <1>2 DEF serverVars, procVars
  <2>3. \A q \in Procs : \A n : /\ In(Consume(p2a, p), q, n) => In(p2a, q, n)
                                /\ OnceOf(p2a, q, n) => OnceOf(Consume(p2a, p), q, n)
    BY <1>0, <2>1, ConsumeIn
  <2>4. \A q \in Procs : \A n : /\ In(p2a, q, n)' => In(p2a, q, n)
                                /\ OnceOf(p2a, q, n) => OnceOf(p2a, q, n)'
    BY <2>1, <2>3
  <2>m. m \in Message /\ In(p2a, p, m)
    BY <1>0, <2>0, <2>1, HasIn
  <2>5. CASE /\ m.type = AP /\ ~ptab[p].used /\ ptab'[p].used
             /\ a2s' = SendAll(a2s, {a}, m)
    <3>1. m = AddProc(p)
      BY <2>m, <2>5 DEF JoinInv
    <3>2. ~In(p2a, p, m)'
      <4>1. OnceOf(p2a, p, m)
        BY <3>1 DEF JoinInv
      <4>2. ~In(Consume(p2a, p), p, m)
        BY <1>0, <2>0, <2>1, <4>1, ConsumeIn
      <4> QED BY <2>1, <4>2
    <3>3. loc[p] # "connect" /\ \A b \in Arbiters : ~In(a2s, b, m)
      BY <2>m, <3>1 DEF JoinInv
    <3>4. \A b \in Arbiters : \A n : /\ In(SendAll(a2s, {a}, m), b, n) <=> In(a2s, b, n) \/ (b = a /\ n = m)
                                     /\ OnceOf(a2s, b, n) /\ ~(b = a /\ n = m /\ In(a2s, b, n))
                                          => OnceOf(SendAll(a2s, {a}, m), b, n)
      BY <1>p, <2>m, SendAllIn
    <3>5. \A b \in Arbiters : \A n : /\ In(a2s, b, n)' <=> In(a2s, b, n) \/ (b = a /\ n = m)
                                     /\ OnceOf(a2s, b, n) /\ ~(n = m /\ In(a2s, b, n)) => OnceOf(a2s, b, n)'
      BY <2>5, <3>4
    <3>6. ASSUME NEW q \in Procs
          PROVE  /\ \A n : In(p2a, q, n)' /\ n.type = "ADD_PROC" => n = AddProc(q)
                 /\ OnceOf(p2a, q, AddProc(q))'
                 /\ loc'[q] = "connect" => ~In(p2a, q, AddProc(q))'
                 /\ loc'[q] = "connect" \/ In(p2a, q, AddProc(q))' =>
                      ~ptab'[q].used /\ \A b \in Arbiters : ~In(a2s, b, AddProc(q))'
                 /\ \A b \in Arbiters : In(a2s, b, AddProc(q))' => b = Home[q] /\ (ptab'[q].used \/ started')
                 /\ \A b \in Arbiters : OnceOf(a2s, b, AddProc(q))'
      <4>1. CASE q = p
        BY <1>2, <2>2, <2>4, <2>5, <3>1, <3>2, <3>3, <3>5, <4>1 DEF JoinInv
      <4>2. CASE q # p
        <5>1. AddProc(q) # m
          BY <3>1, <4>2, AddProcIs
        <5> QED BY <2>1, <2>2, <2>4, <3>5, <4>2, <5>1 DEF JoinInv
      <4> QED BY <4>1, <4>2
    <3> QED BY <3>6 DEF JoinInv
  <2>6. CASE /\ ptab'[p].used = ptab[p].used \/ (m.type = "PRGM_DONE" /\ ~ptab'[p].used)
             /\ \E S : \E x \in Message : x.type # AP /\ a2s' = SendAll(a2s, S, x)
    <3>1. m.type = "PRGM_DONE" => started
      <4>1. m.type = "PRGM_DONE" => Has(p2a, p, "PRGM_DONE")
        BY <1>0, <2>0, <2>1, ConsumeHas
      <4> QED BY <4>1 DEF ChainInv
    <3>2. PICK S : \E x \in Message : x.type # AP /\ a2s' = SendAll(a2s, S, x)
      BY <2>6
    <3>3. \A q \in Procs : ptab'[q].used = ptab[q].used \/ (started /\ ~ptab'[q].used)
      BY <2>1, <2>6, <3>1
    <3> QED BY <1>s, <2>2, <2>4, <3>2, <3>3, JoinKept
  <2> QED BY <2>1, <2>5, <2>6
<1>3. ASSUME NEW a \in Arbiters, FromServerStep(a) \/ ArbExit(a), UNCHANGED <<serverVars, procVars>>
      PROVE  JoinInv'
  <2>1. UNCHANGED <<loc, started, p2a>> /\ \A q \in Procs : ptab'[q].used = ptab[q].used
    BY <1>0, <1>3, ServedEffect DEF serverVars, procVars
  <2>2. PICK S : \E x \in Message : x.type # AP /\ a2s' = SendAll(a2s, S, x)
    BY <1>0, <1>3, ServedEffect
  <2> QED BY <1>s, <1>u, <2>1, <2>2, JoinKept
<1>4. ASSUME NEW p \in Procs, ProcessStep(p) \/ ProcKilled(p), UNCHANGED <<serverVars, arbVars, a2s, s2a>>
      PROVE  JoinInv'
  <2>1. /\ \A q \in Procs : q # p => loc'[q] = loc[q]
        /\ loc'[p] = "connect" => loc[p] = "connect"
        /\ UNCHANGED <<started, ptab, a2s>>
    BY <1>4, ProcEffect DEF serverVars, arbVars
  <2>2. PICK S : \E x \in Message :
                   /\ p2a' = SendAll(p2a, S, x) /\ S \subseteq {p}
                   /\ x.type = AP => x = AddProc(p) /\ loc[p] = "connect" /\ loc'[p] # "connect"
    BY <1>4, ProcEffect
  <2>3. PICK x \in Message :
               /\ p2a' = SendAll(p2a, S, x) /\ S \subseteq {p}
               /\ x.type = AP => x = AddProc(p) /\ loc[p] = "connect" /\ loc'[p] # "connect"
    BY <2>2
  <2>4. \A q \in Procs : \A n : /\ In(SendAll(p2a, S, x), q, n) <=> In(p2a, q, n) \/ (q \in S /\ n = x)
                                /\ OnceOf(p2a, q, n) /\ ~(q \in S /\ n = x /\ In(p2a, q, n))
                                     => OnceOf(SendAll(p2a, S, x), q, n)
    BY <1>p, SendAllIn
  <2>5. \A q \in Procs : \A n : /\ In(p2a, q, n)' <=> In(p2a, q, n) \/ (q \in S /\ n = x)
                                /\ OnceOf(p2a, q, n) /\ ~(q \in S /\ n = x /\ In(p2a, q, n))
                                     => OnceOf(p2a, q, n)'
    BY <2>3, <2>4
  <2>6. CASE x.type # AP
    <3>1. \A q \in Procs : AddProc(q) # x
      BY <2>6, AddProcIs
    <3>2. \A q \in Procs : \A n : In(p2a, q, n)' => In(p2a, q, n) \/ n.type # AP
      BY <2>5, <2>6
    <3>3. \A q \in Procs : OnceOf(p2a, q, AddProc(q)) => OnceOf(p2a, q, AddProc(q))'
      BY <2>5, <3>1
    <3>4. \A q \in Procs : loc'[q] = "connect" => loc[q] = "connect"
      BY <2>1
    <3> QED BY <1>u, <2>1, <3>2, <3>3, <3>4, JoinKept
  <2>7. CASE x.type = AP
    <3>1. x = AddProc(p) /\ loc[p] = "connect" /\ loc'[p] # "connect" /\ S \subseteq {p}
      BY <2>3, <2>7
    <3>2. ~In(p2a, p, x) /\ ~ptab[p].used /\ \A b \in Arbiters : ~In(a2s, b, x)
      BY <3>1 DEF JoinInv
    <3>3. \A b \in Arbiters : \A n : /\ In(a2s, b, n)' <=> In(a2s, b, n)
                                     /\ OnceOf(a2s, b, n)' <=> OnceOf(a2s, b, n)
      BY <2>1
    <3>4. ASSUME NEW q \in Procs
          PROVE  /\ \A n : In(p2a, q, n)' /\ n.type = "ADD_PROC" => n = AddProc(q)
                 /\ OnceOf(p2a, q, AddProc(q))'
                 /\ loc'[q] = "connect" => ~In(p2a, q, AddProc(q))'
                 /\ loc'[q] = "connect" \/ In(p2a, q, AddProc(q))' =>
                      ~ptab'[q].used /\ \A b \in Arbiters : ~In(a2s, b, AddProc(q))'
                 /\ \A b \in Arbiters : In(a2s, b, AddProc(q))' => b = Home[q] /\ (ptab'[q].used \/ started')
                 /\ \A b \in Arbiters : OnceOf(a2s, b, AddProc(q))'
      <4>1. CASE q = p
        BY <2>1, <2>5, <3>1, <3>2, <3>3, <4>1 DEF JoinInv
      <4>2. CASE q # p
        <5>1. q \notin S
          BY <3>1, <4>2
        <5> QED BY <2>1, <2>5, <3>3, <4>2, <5>1 DEF JoinInv
      <4> QED BY <4>1, <4>2
    <3> QED BY <3>4 DEF JoinInv
  <2> QED BY <2>6, <2>7
<1>5. ASSUME NEW p \in Procs, ProcessLosesArbiter(p) PROVE JoinInv'
  <2>1. UNCHANGED <<started, ptab, a2s, p2a>> /\ Goto(p, "panic")
    BY <1>5 DEF ProcessLosesArbiter, serverVars, arbVars, netVars, channels
  <2>2. \A q \in Procs : loc'[q] = "connect" => loc[q] = "connect"
    BY <1>0, <2>1 DEF Goto
  <2> QED BY <1>u, <2>1, <2>2, JoinKept
<1>6. CASE Idle
  <2>1. UNCHANGED <<started, ptab, a2s, p2a, loc>>
    BY <1>6 DEF Idle, channels
  <2> QED BY <1>u, <2>1, JoinKept
<1> QED BY <1>1, <1>2, <1>3, <1>4, <1>5, <1>6, StepCases

-----------------------------------------------------------------------------
(* The processes the server has counted, and its count of them.            *)
Reg(p)     == ptab[p].used /\ ~In(a2s, Home[p], AddProc(p))
Registered == {p \in Procs : Reg(p)}

CountInv ==
  /\ gid <= NProc
  /\ ~started => gid = nproc_waiting /\ gid <= Cardinality(Registered)
  /\ started => backlog = {} /\ \A p \in Procs : ptab[p].used \/ loc[p] \in Left
  /\ backlog \cap conns = {}
  /\ \A p \in Procs : Reg(p) => Home[p] \notin backlog

LEMMA CountInit == Init => CountInv
<1> SUFFICES ASSUME Init PROVE CountInv
  OBVIOUS
<1>1. /\ gid = 0 /\ ~started /\ nproc_waiting = 0 /\ conns = {}
      /\ \A p \in Procs : ~ptab[p].used
  BY DEF Init, ServerInit, ArbiterInit, Unused
<1>2. Registered = {}
  BY <1>1 DEF Registered, Reg
<1>3. Cardinality(Registered) = 0
  BY <1>2, FS_EmptySet
<1> QED BY <1>1, <1>3, NProcType DEF CountInv, Reg

(* A step that counts nobody keeps the count.                              *)
LEMMA CountKept ==
  ASSUME CountInv, gid \in Nat, UNCHANGED <<started, gid>>, ~started => UNCHANGED nproc_waiting,
         \A p \in Procs : ~started /\ Reg(p) => Reg(p)',
         \A p \in Procs : Reg(p)' => Reg(p) \/ Home[p] \notin backlog',
         backlog' \subseteq backlog, backlog' \cap conns' = {},
         \A p \in Procs : started => ptab'[p].used \/ loc'[p] \in Left
  PROVE  CountInv'
<1>1. ~started => Cardinality(Registered) <= Cardinality(Registered')
  <2>1. ~started => Registered \subseteq Registered'
    BY DEF Registered
  <2>2. Registered' \subseteq Procs /\ IsFiniteSet(Registered')
    BY ProcsAssumption, FS_Subset DEF Registered
  <2> QED BY <2>1, <2>2, FS_Subset
<1>2. Cardinality(Registered) \in Nat /\ Cardinality(Registered') \in Nat
  BY ProcsAssumption, FS_Subset, FS_CardinalityType DEF Registered
<1>3. NProc' = NProc
  BY DEF NProc
<1>4. /\ \A p \in Procs : Reg(p)' => Home[p] \notin backlog'
      /\ started => backlog' = {}
  BY DEF CountInv
<1> QED BY <1>1, <1>2, <1>3, <1>4 DEF CountInv

(* The registration counts the one process whose request it consumes; when *)
(* it is the last, every process is in the table of its arbiter.           *)
LEMMA CountStep ==
  ASSUME TypeInv, PlaceInv, ChainInv, JoinInv, StepMatchesQueue, CountInv, [Next]_vars
  PROVE  CountInv'
<1>0. /\ a2s \in [Arbiters -> Seq(Message)] /\ p2a \in [Procs -> Seq(Message)]
      /\ TypeOK /\ loc \in [Procs -> Locations] /\ gid \in Nat
      /\ backlog \subseteq Arbiters /\ conns \subseteq Arbiters
      /\ started \in BOOLEAN /\ nproc_waiting \in Nat
  BY DEF TypeInv, TypeOK, NetTypeOK, ProcessTypeOK, ServerTypeOK
<1>h. \A p \in Procs : Home[p] \in Arbiters
  BY HomeAssumption
<1>c. started => \A p \in Procs : ptab[p].used \/ loc[p] \in Left
  BY DEF CountInv
<1>1. ASSUME NEW a \in Arbiters, ServerStep(a),
             UNCHANGED <<arbVars, procVars, p2a, a2p, signals, mem>>
      PROVE  CountInv'
  <2>1. UNCHANGED <<loc, ptab>>
    BY <1>1 DEF procVars, arbVars
  <2>2. \/ UNCHANGED a2s
        \/ a \in conns /\ a2s[a] # << >> /\ a2s' = Consume(a2s, a)
    BY <1>0, <1>1, ServerEffect
  <2>3. a2s[a] # << >> => \A b \in Arbiters : \A m :
          /\ In(Consume(a2s, a), b, m) => In(a2s, b, m)
          /\ In(a2s, b, m) => In(Consume(a2s, a), b, m) \/ (b = a /\ m = Head(a2s[a]))
          /\ m = Head(a2s[a]) /\ OnceOf(a2s, a, m) => ~In(Consume(a2s, a), a, m)
    BY <1>0, ConsumeIn
  <2>4. \A b \in Arbiters : \A m : /\ In(a2s, b, m)' => In(a2s, b, m)
                                   /\ In(a2s, b, m) => In(a2s, b, m)' \/ (b = a /\ a \in conns)
    BY <2>2, <2>3
  <2>5. \A p \in Procs : Reg(p) => Reg(p)'
    BY <1>h, <2>1, <2>4 DEF Reg
  <2>6. \A p \in Procs : Reg(p)' => Reg(p) \/ Home[p] \in conns
    BY <1>h, <2>1, <2>4 DEF Reg
  <2>7. backlog \cap conns = {}
    BY DEF CountInv
  <2>8. CASE ~Registers(a)
    <3>1. UNCHANGED <<started, gid>> /\ (~started => UNCHANGED nproc_waiting)
      BY <1>0, <1>1, <2>8, ServerEffect
    <3>2. \/ UNCHANGED <<backlog, conns>>
          \/ backlog' = backlog \ {a} /\ conns' = conns \cup {a} /\ UNCHANGED a2s
          \/ UNCHANGED backlog /\ conns' = conns \ {a}
      BY <1>0, <1>1, <2>8, ServerEffect
    <3>3. backlog' \subseteq backlog /\ backlog' \cap conns' = {}
      BY <2>7, <3>2
    <3>4. \A p \in Procs : Reg(p)' => Reg(p) \/ Home[p] \notin backlog'
      BY <2>6, <2>7, <3>3
    <3> QED BY <1>0, <1>c, <2>1, <2>5, <3>1, <3>3, <3>4, CountKept
  <2>9. CASE Registers(a)
    <3>0. PICK m : m = Head(a2s[a])
      OBVIOUS
    <3>1. /\ ~started /\ a \in conns /\ a2s[a] # << >> /\ m.type = "ADD_PROC"
          /\ a2s' = Consume(a2s, a)
          /\ gid' = gid + 1 /\ started' = AllRegistered
          /\ nproc_waiting' = IF AllRegistered THEN 0 ELSE nproc_waiting + 1
          /\ UNCHANGED <<backlog, conns>>
      BY <2>9, <3>0 DEF Registers, SrvAddProc, SrvReceive, Waiting, NextGid
    <3>2. m \in Message /\ In(a2s, a, m)
      BY <1>0, <3>0, <3>1, HasIn
    <3>3. PICK p \in Procs : m = AddProc(p)
      BY <3>1, <3>2 DEF Message, SimpleTypes, AddProc
    <3>4. a = Home[p] /\ ptab[p].used /\ OnceOf(a2s, a, m)
      BY <3>1, <3>2, <3>3 DEF JoinInv
    <3>5. Reg(p)' /\ ~Reg(p)
      <4>1. ~In(a2s, a, m)'
        BY <2>3, <3>0, <3>1, <3>4
      <4> QED BY <2>1, <3>2, <3>3, <3>4, <4>1 DEF Reg
    <3>6. gid + 1 <= Cardinality(Registered') /\ Registered' \subseteq Procs
      <4>1. Registered \cup {p} \subseteq Registered' /\ p \notin Registered
        BY <2>5, <3>5 DEF Registered
      <4>2. Registered' \subseteq Procs /\ Registered \subseteq Procs
        BY DEF Registered
      <4>3. IsFiniteSet(Registered') /\ IsFiniteSet(Registered)
        BY <4>2, ProcsAssumption, FS_Subset
      <4>4. Cardinality(Registered \cup {p}) = Cardinality(Registered) + 1
        BY <4>1, <4>3, FS_AddElement
      <4>5. Cardinality(Registered \cup {p}) <= Cardinality(Registered')
        BY <4>1, <4>3, FS_Subset
      <4>6. gid <= Cardinality(Registered)
        BY <3>1 DEF CountInv
      <4> QED BY <1>0, <4>2, <4>3, <4>4, <4>5, <4>6, FS_CardinalityType
    <3>7. gid = nproc_waiting /\ nproc_waiting < NProc
      BY <3>1 DEF CountInv, StepMatchesQueue
    <3>8. \A q \in Procs : Reg(q)' => Home[q] \notin backlog'
      BY <2>6, <2>7, <3>1 DEF CountInv
    <3>9. AllRegistered => Registered' = Procs
      <4>1. AllRegistered => NProc <= gid + 1
        BY <3>7, NProcType DEF AllRegistered
      <4>2. Cardinality(Registered') <= NProc /\ Cardinality(Registered') \in Nat
        BY <3>6, ProcsAssumption, FS_Subset, FS_CardinalityType DEF NProc
      <4>3. AllRegistered => Cardinality(Registered') = NProc
        BY <1>0, <3>6, <4>1, <4>2, NProcType
      <4> QED BY <3>6, <4>3, ProcsAssumption, FS_Subset DEF NProc
    <3>10. started' => backlog' = {} /\ \A q \in Procs : ptab'[q].used
      <4> SUFFICES ASSUME AllRegistered
                   PROVE  backlog' = {} /\ \A q \in Procs : ptab'[q].used
        BY <3>1
      <4>1. \A q \in Procs : Reg(q)'
        BY <3>9 DEF Registered
      <4>2. \A q \in Procs : ptab'[q].used /\ Home[q] \notin backlog'
        BY <3>8, <4>1 DEF Reg
      <4> QED BY <1>0, <3>1, <4>2, HomeAssumption
    <3>11. ~started' => gid' = nproc_waiting' /\ gid' <= Cardinality(Registered')
      BY <3>1, <3>6, <3>7
    <3>12. gid' <= NProc' /\ NProc' = NProc
      BY <1>0, <3>1, <3>7, NProcType DEF NProc
    <3> QED BY <2>7, <3>1, <3>8, <3>10, <3>11, <3>12 DEF CountInv
  <2> QED BY <2>8, <2>9
<1>k. \A p \in Procs : Reg(p) => Home[p] \notin backlog
  BY DEF CountInv
(* Steps of which the server sees nothing.                                 *)
<1>u. ASSUME UNCHANGED <<started, gid, nproc_waiting, backlog, conns>>,
             \A p \in Procs : ~started => (Reg(p)' <=> Reg(p)),
             \A p \in Procs : started => ptab'[p].used \/ loc'[p] \in Left
      PROVE  CountInv'
  <2>1. backlog' \subseteq backlog /\ backlog' \cap conns' = {}
    BY <1>u DEF CountInv
  <2>2. \A p \in Procs : Reg(p)' => Reg(p) \/ Home[p] \notin backlog'
    BY <1>u DEF CountInv
  <2> QED BY <1>0, <1>u, <2>1, <2>2, CountKept
<1>a. ASSUME NEW S, NEW x \in Message, NEW q \in Procs, NEW n
      PROVE  In(SendAll(a2s, S, x), Home[q], n) <=> In(a2s, Home[q], n) \/ (Home[q] \in S /\ n = x)
  <2>1. a2s \in [Arbiters -> Seq(Message)] /\ Home[q] \in Arbiters
    BY <1>0, <1>h
  <2> QED BY <2>1, SendAllIn
<1>s. ASSUME NEW S, NEW x \in Message, x.type # "ADD_PROC", a2s' = SendAll(a2s, S, x)
      PROVE  \A p \in Procs : In(a2s, Home[p], AddProc(p))' <=> In(a2s, Home[p], AddProc(p))
  <2> SUFFICES ASSUME NEW p \in Procs
               PROVE  In(a2s, Home[p], AddProc(p))' <=> In(a2s, Home[p], AddProc(p))
    OBVIOUS
  <2>1. x # AddProc(p)
    BY <1>s, AddProcIs
  <2>2. In(SendAll(a2s, S, x), Home[p], AddProc(p)) <=> In(a2s, Home[p], AddProc(p))
    BY <1>a, <2>1
  <2> QED BY <1>s, <2>2
<1>2. ASSUME NEW a \in Arbiters, NEW p \in Procs, FromProcessStep(a, p), Home[p] = a,
             UNCHANGED <<serverVars, procVars>>
      PROVE  CountInv'
  <2>0. PICK m : m = Head(p2a[p])
    OBVIOUS
  <2>1. /\ p2a[p] # << >>
        /\ \A q \in Procs : q # p => ptab'[q].used = ptab[q].used
        /\ \/ /\ m.type = "ADD_PROC" /\ ~ptab[p].used /\ ptab'[p].used
              /\ a2s' = SendAll(a2s, {a}, m)
           \/ /\ ptab'[p].used = ptab[p].used \/ (m.type = "PRGM_DONE" /\ ~ptab'[p].used)
              /\ \E S : \E x \in Message : x.type # "ADD_PROC" /\ a2s' = SendAll(a2s, S, x)
    BY <1>0, <1>2, <2>0, ReadEffect
  <2>2. UNCHANGED <<loc, started, gid, nproc_waiting, backlog, conns>>
    BY <1>2 DEF serverVars, procVars
  <2>m. m \in Message /\ In(p2a, p, m)
    BY <1>0, <2>0, <2>1, HasIn
  <2>3. CASE /\ m.type = "ADD_PROC" /\ ~ptab[p].used /\ ptab'[p].used
             /\ a2s' = SendAll(a2s, {a}, m)
    <3>1. m = AddProc(p)
      BY <2>m, <2>3 DEF JoinInv
    <3>2. ASSUME NEW q \in Procs
          PROVE  In(a2s, Home[q], AddProc(q))' <=>
                   In(a2s, Home[q], AddProc(q)) \/ (Home[q] = a /\ AddProc(q) = m)
      <4>1. In(SendAll(a2s, {a}, m), Home[q], AddProc(q)) <=>
              In(a2s, Home[q], AddProc(q)) \/ (Home[q] \in {a} /\ AddProc(q) = m)
        BY <1>a, <2>m
      <4> QED BY <2>3, <4>1
    <3>3. \A q \in Procs : Reg(q)' <=> Reg(q)
      <4> SUFFICES ASSUME NEW q \in Procs PROVE Reg(q)' <=> Reg(q)
        OBVIOUS
      <4>1. CASE q = p
        <5>1. In(a2s, Home[p], AddProc(p))'
          BY <1>2, <3>1, <3>2
        <5> QED BY <2>3, <4>1, <5>1 DEF Reg
      <4>2. CASE q # p
        <5>1. AddProc(q) # m
          BY <3>1, <4>2, AddProcIs
        <5>2. In(a2s, Home[q], AddProc(q))' <=> In(a2s, Home[q], AddProc(q))
          BY <3>2, <5>1
        <5> QED BY <2>1, <4>2, <5>2 DEF Reg
      <4> QED BY <4>1, <4>2
    <3>4. \A q \in Procs : started => ptab'[q].used \/ loc'[q] \in Left
      BY <1>c, <2>1, <2>2, <2>3
    <3> QED BY <1>u, <2>2, <3>3, <3>4
  <2>4. CASE /\ ptab'[p].used = ptab[p].used \/ (m.type = "PRGM_DONE" /\ ~ptab'[p].used)
             /\ \E S : \E x \in Message : x.type # "ADD_PROC" /\ a2s' = SendAll(a2s, S, x)
    <3>1. m.type = "PRGM_DONE" => started /\ loc[p] \in Left
      <4>1. m.type = "PRGM_DONE" => Has(p2a, p, "PRGM_DONE")
        BY <1>0, <2>0, <2>1, ConsumeHas
      <4> QED BY <4>1 DEF ChainInv
    <3>2. PICK S : \E x \in Message : x.type # "ADD_PROC" /\ a2s' = SendAll(a2s, S, x)
      BY <2>4
    <3>3. \A q \in Procs : In(a2s, Home[q], AddProc(q))' <=> In(a2s, Home[q], AddProc(q))
      BY <1>s, <3>2
    <3>4. \A q \in Procs : ~started => ptab'[q].used = ptab[q].used
      BY <2>1, <2>4, <3>1
    <3>5. \A q \in Procs : ~started => (Reg(q)' <=> Reg(q))
      BY <3>3, <3>4 DEF Reg
    <3>6. \A q \in Procs : started => ptab'[q].used \/ loc'[q] \in Left
      BY <1>c, <2>1, <2>2, <2>4, <3>1
    <3> QED BY <1>u, <2>2, <3>5, <3>6
  <2> QED BY <2>1, <2>3, <2>4
<1>3. ASSUME NEW a \in Arbiters, FromServerStep(a) \/ ArbExit(a), UNCHANGED <<serverVars, procVars>>
      PROVE  CountInv'
  <2>1. /\ UNCHANGED <<loc, started, gid, nproc_waiting, backlog, conns>>
        /\ \A q \in Procs : ptab'[q].used = ptab[q].used
    BY <1>0, <1>3, ServedEffect DEF serverVars, procVars
  <2>2. PICK S : \E x \in Message : x.type # "ADD_PROC" /\ a2s' = SendAll(a2s, S, x)
    BY <1>0, <1>3, ServedEffect
  <2>3. \A p \in Procs : In(a2s, Home[p], AddProc(p))' <=> In(a2s, Home[p], AddProc(p))
    BY <1>s, <2>2
  <2>4. \A p \in Procs : Reg(p)' <=> Reg(p)
    BY <2>1, <2>3 DEF Reg
  <2>5. \A p \in Procs : started => ptab'[p].used \/ loc'[p] \in Left
    BY <1>c, <2>1
  <2> QED BY <1>u, <2>1, <2>4, <2>5
<1>4. ASSUME NEW p \in Procs, ProcessStep(p) \/ ProcKilled(p), UNCHANGED <<serverVars, arbVars, a2s, s2a>>
      PROVE  CountInv'
  <2>1. UNCHANGED <<started, gid, nproc_waiting, backlog, conns, ptab, a2s>>
    BY <1>4 DEF serverVars, arbVars
  <2>2. \A q \in Procs : loc[q] \in Left => loc'[q] \in Left
    BY <1>4, ProcEffect
  <2>3. \A q \in Procs : Reg(q)' <=> Reg(q)
    BY <2>1 DEF Reg
  <2>4. \A q \in Procs : started => ptab'[q].used \/ loc'[q] \in Left
    BY <1>c, <2>1, <2>2
  <2> QED BY <1>u, <2>1, <2>3, <2>4
<1>5. ASSUME NEW p \in Procs, ProcessLosesArbiter(p) PROVE CountInv'
  <2>1. /\ UNCHANGED <<started, gid, nproc_waiting, backlog, conns, ptab, a2s>>
        /\ Goto(p, "panic") /\ loc[p] \in {"recv_gid", "recv_waitDone", "takeAccess"}
    BY <1>5 DEF ProcessLosesArbiter, serverVars, arbVars, netVars, channels
  <2>2. \A q \in Procs : loc[q] \in Left => loc'[q] \in Left
    BY <1>0, <2>1 DEF Goto, Left
  <2>3. \A q \in Procs : Reg(q)' <=> Reg(q)
    BY <2>1 DEF Reg
  <2>4. \A q \in Procs : started => ptab'[q].used \/ loc'[q] \in Left
    BY <1>c, <2>1, <2>2
  <2> QED BY <1>u, <2>1, <2>3, <2>4
<1>6. CASE Idle
  <2>1. UNCHANGED <<started, gid, nproc_waiting, backlog, conns, ptab, a2s, loc>>
    BY <1>6 DEF Idle, channels
  <2>2. \A q \in Procs : Reg(q)' <=> Reg(q)
    BY <2>1 DEF Reg
  <2> QED BY <1>c, <1>u, <2>1, <2>2
<1> QED BY <1>1, <1>2, <1>3, <1>4, <1>5, <1>6, StepCases

-----------------------------------------------------------------------------
(* An identifier on its way to p, or arrived; each is given to one process *)
(* and counted by gid.                                                     *)
Told(p, g) == \/ \E a \in Arbiters : In(s2a, a, SetGid(p, g))
              \/ \E q \in Procs : In(a2p, q, SetGid(p, g))
              \/ procGid[p] = g

GidInv == \A p \in Procs, g \in Nat :
            Told(p, g) => g < gid /\ \A q \in Procs : Told(q, g) => q = p

LEMMA SetGidIs ==
  /\ \A p, g : SetGid(p, g).type = "SET_GID"
  /\ \A p, q, g, h : SetGid(p, g) = SetGid(q, h) => p = q /\ g = h
  /\ \A m \in Message : m.type = "SET_GID" => m = SetGid(m.pid, m.gid)
<1>1. \A p, g : SetGid(p, g).type = "SET_GID" /\ SetGid(p, g).pid = p /\ SetGid(p, g).gid = g
  BY DEF SetGid
<1>2. \A m \in Message : m.type = "SET_GID" => m = SetGid(m.pid, m.gid)
  BY DEF Message, SimpleTypes, SetGid
<1>3. ASSUME NEW p, NEW q, NEW g, NEW h, SetGid(p, g) = SetGid(q, h) PROVE p = q /\ g = h
  BY <1>1, <1>3
<1> QED BY <1>1, <1>2, <1>3

LEMMA GidInit == Init => GidInv
<1> SUFFICES ASSUME Init PROVE GidInv
  OBVIOUS
<1>1. /\ \A p \in Procs : a2p[p] = << >> /\ procGid[p] = -1
      /\ \A a \in Arbiters : s2a[a] = << >>
  BY DEF Init, NetInit, ProcessInit
<1>2. DOMAIN << >> = {}
  OBVIOUS
<1>3. /\ \A p \in Procs : \A m : ~In(a2p, p, m)
      /\ \A a \in Arbiters : \A m : ~In(s2a, a, m)
  BY <1>1, <1>2 DEF In
<1>4. \A p \in Procs, g \in Nat : ~Told(p, g)
  BY <1>1, <1>3 DEF Told
<1> QED BY <1>4 DEF GidInv

(* Only the registration makes a number, and only the current one.         *)
LEMMA GidStep == ASSUME TypeInv, PlaceInv, GidInv, [Next]_vars PROVE GidInv'
<1>0. /\ s2a \in [Arbiters -> Seq(Message)] /\ a2p \in [Procs -> Seq(Message)]
      /\ TypeOK /\ gid \in Nat
  BY DEF TypeInv, TypeOK, NetTypeOK, ServerTypeOK
<1>k. ASSUME UNCHANGED gid, \A p \in Procs, g \in Nat : Told(p, g)' => Told(p, g)
      PROVE  GidInv'
  BY <1>k DEF GidInv
<1>s. ASSUME NEW S, NEW x \in Message, NEW b \in Arbiters, NEW n
      PROVE  In(SendAll(s2a, S, x), b, n) <=> In(s2a, b, n) \/ (b \in S /\ n = x)
  BY <1>0, SendAllIn
<1>d. ASSUME NEW S, NEW x \in Message, NEW q \in Procs, NEW n
      PROVE  In(SendAll(a2p, S, x), q, n) <=> In(a2p, q, n) \/ (q \in S /\ n = x)
  BY <1>0, SendAllIn
<1>1. ASSUME NEW a \in Arbiters, ServerStep(a),
             UNCHANGED <<arbVars, procVars, p2a, a2p, signals, mem>>
      PROVE  GidInv'
  <2>1. UNCHANGED <<procGid, a2p>>
    BY <1>1 DEF procVars
  <2>2. CASE ~Registers(a)
    <3>1. PICK S : \E x \in Message : s2a' = SendAll(s2a, S, x) /\ x.type # "SET_GID"
      BY <1>0, <1>1, <2>2, ServerEffect
    <3>2. PICK x \in Message : s2a' = SendAll(s2a, S, x) /\ x.type # "SET_GID"
      BY <3>1
    <3>3. \A p, g : SetGid(p, g) # x
      BY <3>2, SetGidIs
    <3>4. ASSUME NEW b \in Arbiters, NEW p, NEW g, In(s2a, b, SetGid(p, g))'
          PROVE  In(s2a, b, SetGid(p, g))
      <4>1. In(SendAll(s2a, S, x), b, SetGid(p, g))
        BY <3>2, <3>4
      <4> QED BY <1>s, <3>3, <4>1
    <3>5. \A p \in Procs, g \in Nat : Told(p, g)' => Told(p, g)
      BY <2>1, <3>4 DEF Told
    <3>6. UNCHANGED gid
      BY <1>0, <1>1, <2>2, ServerEffect
    <3> QED BY <1>k, <3>5, <3>6
  <2>3. CASE Registers(a)
    <3>0. PICK r : r = Head(a2s[a]).pid
      OBVIOUS
    <3>1. /\ gid' = gid + 1
          /\ s2a' = IF AllRegistered THEN SendAll(Send(s2a, a, SetGid(r, gid)), conns, Simple("WAIT_DONE"))
                    ELSE Send(s2a, a, SetGid(r, gid))
      BY <2>3, <3>0 DEF Registers, SrvAddProc, NextGid
    <3>2. r \in Procs
      BY <1>0, <2>3, <3>0, ChannelTypes, PayloadTypes
         DEF Registers, SrvAddProc, SrvReceive, Waiting, TypeOK, NetTypeOK
    <3> DEFINE x == SetGid(r, gid)
               y == Simple("WAIT_DONE")
    <3>3. x \in Message /\ y \in Message /\ \A p, g : SetGid(p, g) # y
      <4>1. y.type = "WAIT_DONE"
        BY DEF Simple
      <4>2. \A p, g : SetGid(p, g) # y
        BY <4>1, SetGidIs
      <4>3. y \in Message
        BY MessageTypes DEF SimpleTypes
      <4>4. x \in Message
        BY <1>0, <3>2, MessageTypes
      <4> QED BY <4>2, <4>3, <4>4
    <3>4. PICK t : t = Send(s2a, a, x)
      OBVIOUS
    <3>5. t \in [Arbiters -> Seq(Message)] /\ t = SendAll(s2a, {a}, x)
      <4>1. Send(s2a, a, x) \in [Arbiters -> Seq(Message)]
        BY <1>0, <3>3, ChannelTypes
      <4>2. Send(s2a, a, x) = SendAll(s2a, {a}, x)
        BY <1>0, SendIsSendAll
      <4> QED BY <3>4, <4>1, <4>2
    <3>6. s2a' = t \/ s2a' = SendAll(t, conns, y)
      BY <3>1, <3>4
    <3>7. ASSUME NEW b \in Arbiters, NEW n, In(t, b, n) PROVE In(s2a, b, n) \/ n = x
      <4>1. In(SendAll(s2a, {a}, x), b, n)
        BY <3>5, <3>7
      <4> QED BY <1>s, <3>3, <4>1
    <3>8. ASSUME NEW b \in Arbiters, NEW n PROVE In(SendAll(t, conns, y), b, n) => In(t, b, n) \/ n = y
      <4>1. ASSUME NEW S, NEW z \in Message
            PROVE  In(SendAll(t, S, z), b, n) => In(t, b, n) \/ n = z
        <5>1. t \in [Arbiters -> Seq(Message)]
          BY <3>5
        <5> HIDE DEF x, y
        <5> QED BY <5>1, SendAllIn
      <4> QED BY <3>3, <4>1
    <3>9. ASSUME NEW b \in Arbiters, NEW n, In(s2a, b, n)' PROVE In(s2a, b, n) \/ n = x \/ n = y
      <4>1. In(s2a', b, n)
        BY <3>9
      <4>2. In(t, b, n) \/ In(SendAll(t, conns, y), b, n)
        BY <3>6, <4>1
      <4> QED BY <3>7, <3>8, <4>2
    <3>10. ASSUME NEW p \in Procs, NEW g \in Nat, Told(p, g)'
           PROVE  Told(p, g) \/ (p = r /\ g = gid)
      <4>1. CASE \E b \in Arbiters : In(s2a, b, SetGid(p, g))'
        <5>1. PICK b \in Arbiters : In(s2a, b, SetGid(p, g))'
          BY <4>1
        <5>2. In(s2a, b, SetGid(p, g)) \/ SetGid(p, g) = SetGid(r, gid)
          BY <3>3, <3>9, <5>1
        <5> QED BY <5>2, SetGidIs DEF Told
      <4>2. CASE ~\E b \in Arbiters : In(s2a, b, SetGid(p, g))'
        BY <2>1, <3>10, <4>2 DEF Told
      <4> QED BY <4>1, <4>2
    <3>11. ASSUME NEW p \in Procs, NEW g \in Nat, Told(p, g)'
           PROVE  g < gid' /\ \A q \in Procs : Told(q, g)' => q = p
      <4>1. CASE g = gid
        <5>1. \A q \in Procs : ~Told(q, g)
          BY <1>0, <4>1 DEF GidInv
        <5>2. p = r /\ \A q \in Procs : Told(q, g)' => q = r
          BY <3>10, <3>11, <5>1
        <5> QED BY <1>0, <3>1, <4>1, <5>2
      <4>2. CASE g # gid
        <5>1. Told(p, g) /\ \A q \in Procs : Told(q, g)' => Told(q, g)
          BY <3>10, <3>11, <4>2
        <5>2. g < gid /\ \A q \in Procs : Told(q, g)' => q = p
          BY <5>1 DEF GidInv
        <5> QED BY <1>0, <3>1, <5>2
      <4> QED BY <4>1, <4>2
    <3> QED BY <3>11 DEF GidInv
  <2> QED BY <2>2, <2>3
<1>2. ASSUME NEW a \in Arbiters, NEW p \in Procs, FromProcessStep(a, p), Home[p] = a,
             UNCHANGED <<serverVars, procVars>>
      PROVE  GidInv'
  <2>1. UNCHANGED <<s2a, a2p, procGid, gid>>
    BY <1>0, <1>2, ReadEffect DEF serverVars, procVars
  <2> QED BY <1>k, <2>1 DEF Told
<1>3. ASSUME NEW a \in Arbiters, FromServerStep(a) \/ ArbExit(a), UNCHANGED <<serverVars, procVars>>
      PROVE  GidInv'
  <2>1. UNCHANGED <<procGid, gid>> /\ (UNCHANGED s2a \/ (s2a[a] # << >> /\ s2a' = Consume(s2a, a)))
    BY <1>0, <1>3, ServedEffect DEF serverVars, procVars
  <2>2. PICK S : \E x \in Message : /\ a2p' = SendAll(a2p, S, x)
                                    /\ x.type = "SET_GID" => x = Head(s2a[a]) /\ s2a[a] # << >>
    BY <1>0, <1>3, ServedEffect
  <2>3. PICK x \in Message : /\ a2p' = SendAll(a2p, S, x)
                             /\ x.type = "SET_GID" => x = Head(s2a[a]) /\ s2a[a] # << >>
    BY <2>2
  <2>4. x.type = "SET_GID" => In(s2a, a, x)
    BY <1>0, <2>3, HasIn
  <2>5. ASSUME NEW q \in Procs, NEW n, In(a2p, q, n)' PROVE In(a2p, q, n) \/ n = x
    <3>1. In(SendAll(a2p, S, x), q, n)
      BY <2>3, <2>5
    <3> QED BY <1>d, <3>1
  <2>6. ASSUME s2a[a] # << >>
        PROVE  \A b \in Arbiters : \A n : In(Consume(s2a, a), b, n) => In(s2a, b, n)
    BY <1>0, <2>6, ConsumeIn
  <2>7. ASSUME NEW b \in Arbiters, NEW n, In(s2a, b, n)' PROVE In(s2a, b, n)
    <3>1. In(s2a', b, n)
      BY <2>7
    <3> QED BY <2>1, <2>6, <3>1
  <2>8. ASSUME NEW p \in Procs, NEW g \in Nat, Told(p, g)' PROVE Told(p, g)
    <3>1. CASE \E q \in Procs : In(a2p, q, SetGid(p, g))'
      <4>1. PICK q \in Procs : In(a2p, q, SetGid(p, g)) \/ SetGid(p, g) = x
        BY <2>5, <3>1
      <4>2. SetGid(p, g) = x => In(s2a, a, SetGid(p, g))
        BY <2>4, SetGidIs
      <4> QED BY <4>1, <4>2 DEF Told
    <3>2. CASE ~\E q \in Procs : In(a2p, q, SetGid(p, g))'
      BY <2>1, <2>7, <2>8, <3>2 DEF Told
    <3> QED BY <3>1, <3>2
  <2> QED BY <1>k, <2>1, <2>8
<1>4. ASSUME NEW p \in Procs, ProcessStep(p) \/ ProcKilled(p), UNCHANGED <<serverVars, arbVars, a2s, s2a>>
      PROVE  GidInv'
  <2>0. PICK m : m = Head(a2p[p])
    OBVIOUS
  <2>1. /\ \A q \in Procs : q # p => procGid'[q] = procGid[q]
        /\ procGid'[p] # procGid[p] =>
              a2p[p] # << >> /\ m.type = "SET_GID" /\ m.pid = p /\ procGid'[p] = m.gid
        /\ UNCHANGED a2p \/ (a2p[p] # << >> /\ a2p' = Consume(a2p, p))
    BY <1>4, <2>0, ProcEffect
  <2>2. UNCHANGED <<s2a, gid>>
    BY <1>4 DEF serverVars
  <2>3. a2p[p] # << >> => m \in Message /\ In(a2p, p, m)
    BY <1>0, <2>0, HasIn
  <2>4. ASSUME a2p[p] # << >>
        PROVE  \A q \in Procs : \A n : In(Consume(a2p, p), q, n) => In(a2p, q, n)
    BY <1>0, <2>4, ConsumeIn
  <2>5. ASSUME NEW q \in Procs, NEW n, In(a2p, q, n)' PROVE In(a2p, q, n)
    <3>1. In(a2p', q, n)
      BY <2>5
    <3> QED BY <2>1, <2>4, <3>1
  <2>6. procGid'[p] # procGid[p] => In(a2p, p, SetGid(p, procGid'[p]))
    BY <2>1, <2>3, SetGidIs
  <2>7. ASSUME NEW q \in Procs, NEW g \in Nat, Told(q, g)' PROVE Told(q, g)
    <3>1. CASE procGid'[q] = g /\ procGid[q] # g
      BY <2>1, <2>6, <3>1 DEF Told
    <3>2. CASE ~(procGid'[q] = g /\ procGid[q] # g)
      BY <2>2, <2>5, <2>7, <3>2 DEF Told
    <3> QED BY <3>1, <3>2
  <2> QED BY <1>k, <2>2, <2>7
<1>5. ASSUME NEW p \in Procs, ProcessLosesArbiter(p) PROVE GidInv'
  <2>1. UNCHANGED <<s2a, a2p, procGid, gid>>
    BY <1>5 DEF ProcessLosesArbiter, serverVars, netVars, channels
  <2> QED BY <1>k, <2>1 DEF Told
<1>6. CASE Idle
  <2>1. UNCHANGED <<s2a, a2p, procGid, gid>>
    BY <1>6 DEF Idle, channels
  <2> QED BY <1>k, <2>1 DEF Told
<1> QED BY <1>1, <1>2, <1>3, <1>4, <1>5, <1>6, StepCases

-----------------------------------------------------------------------------
(* The inductive invariant of the start of a session.                      *)
RegistrationInv == ChainInv /\ JoinInv /\ CountInv /\ GidInv

LEMMA InitBlocksFollows == TypeInv /\ RegistrationInv => InitBlocks
<1> SUFFICES ASSUME TypeInv, ChainInv, CountInv, GidInv PROVE InitBlocks
  BY DEF RegistrationInv
<1>1. gid \in Nat /\ \A p \in Procs : procGid[p] \in Nat \/ procGid[p] = NoGid
  BY DEF TypeInv, TypeOK, ServerTypeOK, ProcessTypeOK, NoGid
<1>2. \A p, q \in Procs : loc[p] = "user" => ptab[q].used \/ loc[q] \in {"exited", "reaped"}
  BY DEF ChainInv, CountInv, Inside, Left
<1>3. \A p \in Procs : procGid[p] \in Nat =>
        procGid[p] < gid /\ \A q \in Procs : procGid[q] = procGid[p] => q = p
  BY DEF GidInv, Told
<1>4. \A p, q \in Procs : p # q /\ procGid[p] = procGid[q] => procGid[p] = NoGid
  BY <1>1, <1>3
<1>5. \A p \in Procs : procGid[p] < NProc
  BY <1>1, <1>3, NProcType DEF CountInv, NoGid
<1> QED BY <1>2, <1>4, <1>5 DEF InitBlocks

LEMMA RegistrationInit == Init => RegistrationInv
BY ChainInit, JoinInit, CountInit, GidInit DEF RegistrationInv

LEMMA RegistrationStep ==
  ASSUME TypeInv, PlaceInv, StepMatchesQueue, RegistrationInv, [Next]_vars
  PROVE  RegistrationInv'
BY ChainStep, JoinStep, CountStep, GidStep DEF RegistrationInv

(* Nobody returns from dsm_init before every process of the session is     *)
(* registered, and their global identifiers are distinct and small enough: *)
(* msg_addProc and msg_setgid, through two hops that interleave freely.    *)
THEOREM InitGathersAll == Spec => []InitBlocks
<1> DEFINE Inv == TypeInv /\ PlaceInv /\ StepMatchesQueue /\ RegistrationInv
<1>1. Init => Inv
  <2>1. Init => StepMatchesQueue
    BY NProcType DEF Init, ServerInit, StepMatchesQueue
  <2> QED BY <2>1, TypeInit, PlaceInit, RegistrationInit
<1>2. Inv /\ [Next]_vars => Inv'
  BY TypeStep, PlaceStep, MatchesStep, RegistrationStep
<1>3. Inv => InitBlocks
  BY InitBlocksFollows
<1> QED BY <1>1, <1>2, <1>3, PTL DEF Spec

-----------------------------------------------------------------------------
(***************************************************************************)
(* The copies of the shared page agree whenever they should.               *)
(*                                                                         *)
(* A write ends with a round of updates: the server sends the data to      *)
(* every machine and counts, process by process, the acknowledgements of   *)
(* the arbiters.  The argument is that of a barrier with a count.  A       *)
(* machine is being told (Updating), has answered (Acking), or has been    *)
(* counted, never two of these at once; an answer counts no process of     *)
(* another machine; so the count cannot reach the number of processes      *)
(* before every machine has the data.  Between rounds the data that        *)
(* travels is what the page of the writer's machine holds, because nobody  *)
(* else can store before it has arrived (GrantInv).                        *)
(*                                                                         *)
(* The arbiters apply every update at the start of the page, so this holds *)
(* of programs that store only there: Offsets = {0}.                       *)
(***************************************************************************)

(* A process is in an arbiter's list once, and only those in it are read.  *)
Distinct(s) == \A i, j \in DOMAIN s : s[i] = s[j] => i = j

ListInv == \A a \in Arbiters : /\ Distinct(fds[a])
                               /\ pass[a] \subseteq Accepted(a) \cup {Server}

(* A new entry at the end of a list keeps the list free of doubles.        *)
LEMMA AppendDistinct ==
  ASSUME NEW S, NEW s \in Seq(S), NEW e \in S, Distinct(s), \A i \in DOMAIN s : s[i] # e
  PROVE  /\ Distinct(Append(s, e))
         /\ \A i \in DOMAIN s : i \in DOMAIN Append(s, e) /\ Append(s, e)[i] = s[i]
<1>1. /\ DOMAIN Append(s, e) = 1 .. Len(s) + 1
      /\ \A i \in DOMAIN s : i \in 1 .. Len(s) /\ Append(s, e)[i] = s[i]
      /\ Append(s, e)[Len(s) + 1] = e
      /\ DOMAIN s = 1 .. Len(s) /\ Len(s) \in Nat
  BY AppendPlaces
<1>2. \A i \in DOMAIN Append(s, e) : i \in DOMAIN s \/ i = Len(s) + 1
  BY <1>1
<1> QED BY <1>1, <1>2 DEF Distinct

(* dsm_removePollable takes one entry out, and no other.                   *)
LEMMA ShuffledDistinct ==
  ASSUME NEW S, NEW s \in Seq(S), NEW k \in DOMAIN s, Distinct(s)
  PROVE  /\ Distinct(ShuffledDown(s, k))
         /\ \A i \in DOMAIN s : i # k => \E j \in DOMAIN ShuffledDown(s, k) : ShuffledDown(s, k)[j] = s[i]
<1> DEFINE r == ShuffledDown(s, k)
<1>1. /\ DOMAIN s = 1 .. Len(s) /\ Len(s) \in Nat /\ k \in Int
      /\ DOMAIN r = 1 .. Len(s) - 1
      /\ \A i \in DOMAIN r : r[i] = IF i < k THEN s[i] ELSE s[i + 1]
  BY DEF ShuffledDown
<1> HIDE DEF r
<1>2. ASSUME NEW i \in DOMAIN r, NEW j \in DOMAIN r, r[i] = r[j] PROVE i = j
  <2> DEFINE at(l) == IF l < k THEN l ELSE l + 1
  <2>1. \A l \in DOMAIN r : at(l) \in DOMAIN s /\ r[l] = s[at(l)]
    BY <1>1
  <2>2. at(i) = at(j)
    BY <1>2, <2>1 DEF Distinct
  <2> QED BY <1>1, <2>2
<1>3. ASSUME NEW i \in DOMAIN s, i # k PROVE \E j \in DOMAIN r : r[j] = s[i]
  <2>1. CASE i < k
    BY <1>1, <2>1
  <2>2. CASE i > k
    <3>1. i - 1 \in DOMAIN r /\ r[i - 1] = s[i]
      BY <1>1, <2>2
    <3> QED BY <3>1
  <2> QED BY <1>1, <1>3, <2>1, <2>2
<1> QED BY <1>2, <1>3 DEF Distinct, r

(* Nobody is connected yet.                                                *)
LEMMA ListInit == Init => ListInv
BY DEF Init, ArbiterInit, ListInv, Distinct

(* An arbiter accepts nobody twice, and reads only whom it has accepted.   *)
LEMMA ListArbiter ==
  ASSUME TypeOK, PlaceInv, ListInv, NEW a \in Arbiters, ArbiterStep(a)
  PROVE  ListInv'
<1>0. /\ fds \in [Arbiters -> Seq(Procs)]
      /\ pass \in [Arbiters -> SUBSET (Procs \cup {Server})]
  BY DEF TypeOK, ArbiterTypeOK
<1>1. Distinct(fds[a]) /\ pass[a] \subseteq Accepted(a) \cup {Server}
  BY DEF ListInv
<1>q. ASSUME NEW f \in Seq(Procs), NEW s, Distinct(f),
             \A x \in s : x = Server \/ \E i \in DOMAIN f : f[i] = x,
             fds' = [fds EXCEPT ![a] = f], pass' = [pass EXCEPT ![a] = s]
      PROVE  ListInv'
  <2>1. fds'[a] = f /\ pass'[a] = s
    BY <1>0, <1>q
  <2>2. \A b \in Arbiters : b # a => fds'[b] = fds[b] /\ pass'[b] = pass[b]
    BY <1>0, <1>q
  <2>3. ASSUME NEW b \in Arbiters
        PROVE  Distinct(fds'[b]) /\ pass'[b] \subseteq {fds'[b][i] : i \in DOMAIN fds'[b]} \cup {Server}
    <3>1. CASE b = a
      BY <1>q, <2>1, <3>1
    <3>2. CASE b # a
      <4>1. Distinct(fds[b]) /\ pass[b] \subseteq {fds[b][i] : i \in DOMAIN fds[b]} \cup {Server}
        BY DEF ListInv, Accepted
      <4>2. fds'[b] = fds[b] /\ pass'[b] = pass[b]
        BY <2>2, <3>2
      <4> QED BY <4>1, <4>2
    <3> QED BY <3>1, <3>2
  <2> QED BY <2>3 DEF ListInv, Accepted
<1>s. ASSUME NEW s, s \subseteq pass[a], UNCHANGED fds, pass' = [pass EXCEPT ![a] = s]
      PROVE  ListInv'
  <2>1. fds' = [fds EXCEPT ![a] = fds[a]] /\ fds[a] \in Seq(Procs)
    BY <1>0, <1>s
  <2>2. \A x \in s : x = Server \/ \E i \in DOMAIN fds[a] : fds[a][i] = x
    BY <1>1, <1>s DEF Accepted
  <2> QED BY <1>1, <1>q, <1>s, <2>1, <2>2
<1>u. UNCHANGED <<fds, pass>> => ListInv'
  BY DEF ListInv, Accepted
<1>2. ASSUME NEW p \in Procs, ArbAccept(a, p) PROVE ListInv'
  <2>1. p \notin Accepted(a) /\ pass[a] = {}
    BY <1>2 DEF ArbAccept, Pending
  <2>2. fds' = [fds EXCEPT ![a] = Append(fds[a], p)] /\ pass' = [pass EXCEPT ![a] = {}]
    BY <1>0, <1>2, <2>1 DEF ArbAccept
  <2>3. \A i \in DOMAIN fds[a] : fds[a][i] # p
    BY <2>1 DEF Accepted
  <2>4. Distinct(Append(fds[a], p))
    BY <1>0, <1>1, <2>3, AppendDistinct
  <2>5. Append(fds[a], p) \in Seq(Procs)
    BY <1>0, SeqTypes
  <2> DEFINE f == Append(fds[a], p)
  <2>6. PICK s : s = {}
    OBVIOUS
  <2>7. \A x \in s : x = Server \/ \E i \in DOMAIN f : f[i] = x
    BY <2>6
  <2>8. fds' = [fds EXCEPT ![a] = f] /\ pass' = [pass EXCEPT ![a] = s]
    BY <2>2, <2>6
  <2> HIDE DEF f
  <2> QED BY <1>q, <2>4, <2>5, <2>7, <2>8 DEF f
<1>3. ASSUME NEW b \in BOOLEAN, ArbPoll(a, b) PROVE ListInv'
  <2>1. fds' = [fds EXCEPT ![a] = fds[a]] /\ fds[a] \in Seq(Procs)
        /\ pass' = [pass EXCEPT ![a] = Readable(a, b)]
    BY <1>0, <1>3 DEF ArbPoll
  <2>2. \A x \in Readable(a, b) : x = Server \/ \E i \in DOMAIN fds[a] : fds[a][i] = x
    BY DEF Readable, Accepted
  <2> QED BY <1>1, <1>q, <2>1, <2>2
<1>4. ASSUME NEW p \in Procs, FromProcessStep(a, p) PROVE ListInv'
  <2>1. CASE UNCHANGED fds /\ (UNCHANGED pass \/ HasRead(a, p))
    BY <1>s, <1>u, <2>1 DEF HasRead
  <2>2. CASE ArbPrgmDone(a, p)
    <3>1. p \in pass[a] /\ p # Server
      BY <2>2, ServerAssumption DEF ArbPrgmDone, FromProcess
    <3>2. \E k \in DOMAIN fds[a] : fds[a][k] = p
      BY <1>1, <3>1 DEF Accepted
    <3>3. Slot(a, p) \in DOMAIN fds[a] /\ fds[a][Slot(a, p)] = p
      BY <3>2 DEF Slot
    <3> DEFINE r == ShuffledDown(fds[a], Slot(a, p))
               s == (pass[a] \ {p}) \ SteppedOver(a, p)
    <3>4. fds' = [fds EXCEPT ![a] = r] /\ pass' = [pass EXCEPT ![a] = s]
      BY <2>2 DEF ArbPrgmDone
    <3>5. r \in Seq(Procs)
      BY <1>0, ShuffledTypes
    <3>6. Distinct(r) /\ \A i \in DOMAIN fds[a] : i # Slot(a, p) => \E j \in DOMAIN r : r[j] = fds[a][i]
      BY <1>0, <1>1, <3>3, ShuffledDistinct
    <3>7. \A x \in s : x # p /\ (x = Server \/ \E i \in DOMAIN fds[a] : fds[a][i] = x)
      BY <1>1 DEF Accepted
    <3> HIDE DEF r, s
    <3>8. \A x \in s : x = Server \/ \E j \in DOMAIN r : r[j] = x
      BY <3>3, <3>6, <3>7
    <3> QED BY <1>q, <3>4, <3>5, <3>6, <3>8
  <2> QED BY <1>4, <2>1, <2>2 DEF FromProcessStep, ArbAddProc, ArbSyncRequest, ArbForwardSync,
                                  ArbWaitBarr, ArbPanic
<1>5. CASE FromServerStep(a) \/ ArbExit(a)
  <2>1. UNCHANGED fds /\ (HasRead(a, Server) \/ UNCHANGED pass)
    BY <1>5 DEF FromServerStep, ArbSetGid, ArbStopAll, ArbContAll, ArbWaitDone,
                ArbWriteOkay, ArbApplySync, ArbPanic, ArbExit
  <2> QED BY <1>s, <1>u, <2>1 DEF HasRead
<1> QED BY <1>2, <1>3, <1>4, <1>5 DEF ArbiterStep

(* Only arbiters touch their poll sets.                                    *)
LEMMA ListStep == TypeInv /\ PlaceInv /\ ListInv /\ [Next]_vars => ListInv'
<1> SUFFICES ASSUME TypeInv, PlaceInv, ListInv, [Next]_vars PROVE ListInv'
  OBVIOUS
<1>1. UNCHANGED <<fds, pass>> => ListInv'
  BY DEF ListInv, Accepted
<1>2. ASSUME NEW a \in Arbiters, ArbiterActs(a) PROVE ListInv'
  <2>1. CASE ArbiterStep(a)
    BY <2>1, ListArbiter DEF TypeInv
  <2>2. CASE ~ArbiterStep(a)
    BY <1>1, <1>2, <2>2 DEF ArbiterActs, ArbiterLosesServer, ArbiterLosesProcess
  <2> QED BY <2>1, <2>2
<1>3. ASSUME NEW a \in Arbiters, ServerActs(a) PROVE UNCHANGED <<fds, pass>>
  BY <1>3 DEF ServerActs, ServerLosesArbiter, arbVars
<1>4. ASSUME NEW p, ProcessActs(p) \/ Kill(p) PROVE UNCHANGED <<fds, pass>>
  BY <1>4 DEF ProcessActs, ProcessLosesArbiter, Kill, arbVars
<1>5. UNCHANGED vars => UNCHANGED <<fds, pass>>
  BY DEF vars, arbVars
<1> QED BY <1>1, <1>2, <1>3, <1>4, <1>5 DEF Next

(* An acknowledgement stands for processes of its machine.                 *)
LEMMA LocalFits ==
  ASSUME TypeOK, PlaceInv, ListInv, NEW a \in Arbiters
  PROVE  NLocal(a) \in Nat /\ NLocal(a) <= Cardinality(Local(a)) /\ Cardinality(Local(a)) \in Nat
<1>1. fds[a] \in Seq(Local(a)) /\ Distinct(fds[a])
  BY DEF PlaceInv, ListInv
<1>2. IsFiniteSet(Local(a))
  BY ProcsAssumption, FS_Subset DEF Local
<1>3. Len(fds[a]) \in Nat /\ fds[a] \in [1 .. Len(fds[a]) -> Local(a)]
  BY <1>1
<1>4. fds[a] \in Injection(1 .. Len(fds[a]), Local(a))
  BY <1>1, <1>3 DEF Injection, IsInjective, Distinct
<1>5. Cardinality(1 .. Len(fds[a])) <= Cardinality(Local(a))
  BY <1>2, <1>4, FS_Injection
<1>6. Cardinality(1 .. Len(fds[a])) = Len(fds[a])
  BY <1>3, FS_Interval
<1> QED BY <1>2, <1>3, <1>5, <1>6, FS_CardinalityType DEF NLocal

-----------------------------------------------------------------------------
(* An arbiter is still there, if only to say goodbye.                      *)
Live(a) == arbState[a] # "exited"

(* What a step of an arbiter that applies no update does to the channels.  *)
LEMMA ArbiterEffect ==
  ASSUME TypeOK, PlaceInv, NEW a \in Arbiters, ArbiterStep(a), ~ArbApplySync(a)
  PROVE  /\ UNCHANGED mem
         /\ \A b \in Arbiters : ~Live(b) => ~Live(b)'
         /\ \E S : \E x \in Message :
              /\ a2s' = SendAll(a2s, S, x) /\ S \subseteq {a} /\ x.type # "SYNC_DONE"
              /\ x.type = "PRGM_DONE" => ~Live(a)'
              /\ x.type = "SYNC_INFO" =>
                   \E p \in Procs : Home[p] = a /\ p2a[p] # << >> /\ x = Head(p2a[p])
         /\ \/ UNCHANGED s2a
            \/ s2a[a] # << >> /\ Head(s2a[a]).type # "SYNC_INFO" /\ s2a' = Consume(s2a, a)
         /\ \/ UNCHANGED p2a
            \/ \E p \in Procs : p2a[p] # << >> /\ p2a' = Consume(p2a, p)
         /\ \E S : \E x \in Message :
              /\ a2p' = SendAll(a2p, S, x)
              /\ x.type = "WRITE_OKAY" => s2a[a] # << >> /\ Head(s2a[a]).type = "WRITE_OKAY"
<1> DEFINE Up == \E S : \E x \in Message :
              /\ a2s' = SendAll(a2s, S, x) /\ S \subseteq {a} /\ x.type # "SYNC_DONE"
              /\ x.type = "PRGM_DONE" => ~Live(a)'
              /\ x.type = "SYNC_INFO" =>
                   \E p \in Procs : Home[p] = a /\ p2a[p] # << >> /\ x = Head(p2a[p])
           Down == \E S : \E x \in Message :
              /\ a2p' = SendAll(a2p, S, x)
              /\ x.type = "WRITE_OKAY" => s2a[a] # << >> /\ Head(s2a[a]).type = "WRITE_OKAY"
           Lives == \A b \in Arbiters : ~Live(b) => ~Live(b)'
           Read == \/ UNCHANGED s2a
                   \/ s2a[a] # << >> /\ Head(s2a[a]).type # "SYNC_INFO" /\ s2a' = Consume(s2a, a)
           Heard == \/ UNCHANGED p2a
                    \/ \E p \in Procs : p2a[p] # << >> /\ p2a' = Consume(p2a, p)
<1>0. /\ a2s \in [Arbiters -> Seq(Message)] /\ s2a \in [Arbiters -> Seq(Message)]
      /\ a2p \in [Procs -> Seq(Message)] /\ p2a \in [Procs -> Seq(Message)]
      /\ arbState \in [Arbiters -> {"up", "closing", "exited", "panic"}]
      /\ fds \in [Arbiters -> Seq(Procs)]
  BY DEF TypeOK, NetTypeOK, ArbiterTypeOK
<1>m. \A t \in SimpleTypes : Simple(t) \in Message /\ Simple(t).type = t
  BY MessageTypes DEF Simple
<1>n. /\ Done("STOP_DONE", NLocal(a)) \in Message
      /\ Done("STOP_DONE", NLocal(a)).type = "STOP_DONE"
  <2>1. NLocal(a) \in Nat
    BY <1>0 DEF NLocal
  <2> QED BY <2>1, MessageTypes DEF Done
<1>s. ASSUME NEW x \in Message, a2s' = Send(a2s, a, x), x.type # "SYNC_DONE",
             x.type = "PRGM_DONE" => ~Live(a)',
             x.type = "SYNC_INFO" =>
               \E p \in Procs : Home[p] = a /\ p2a[p] # << >> /\ x = Head(p2a[p])
      PROVE  Up
  <2>1. a2s' = SendAll(a2s, {a}, x)
    BY <1>0, <1>s DEF Send, SendAll
  <2> QED BY <1>s, <2>1
<1>t. ASSUME NEW S, NEW x \in Message, a2p' = SendAll(a2p, S, x),
             x.type = "WRITE_OKAY" => s2a[a] # << >> /\ Head(s2a[a]).type = "WRITE_OKAY"
      PROVE  Down
  BY <1>t
<1>u. (UNCHANGED a2s => Up) /\ (UNCHANGED a2p => Down)
  <2>1. Simple("STOP_ALL") \in Message /\ Simple("STOP_ALL").type = "STOP_ALL"
    BY <1>m DEF SimpleTypes
  <2>2. a2s = SendAll(a2s, {}, Simple("STOP_ALL")) /\ a2p = SendAll(a2p, {}, Simple("STOP_ALL"))
    BY <1>0 DEF SendAll
  <2> QED BY <2>1, <2>2
<1>l. /\ UNCHANGED arbState => Lives
      /\ arbState[a] # "exited" /\ (\A b \in Arbiters : b # a => arbState'[b] = arbState[b]) => Lives
  BY DEF Live
<1> HIDE DEF Up, Down
<1>p. ASSUME ArbPanic(a), arbState[a] = "up" PROVE Up /\ Down /\ Lives /\ UNCHANGED mem
  <2>1. \A b \in Arbiters : b # a => arbState'[b] = arbState[b]
    BY <1>0, <1>p DEF ArbPanic
  <2>2. Lives
    BY <1>l, <1>p, <2>1
  <2> QED BY <1>p, <1>u, <2>2 DEF ArbPanic
<1> SUFFICES UNCHANGED mem /\ Lives /\ Up /\ Read /\ Heard /\ Down
  BY DEF Up, Down
<1>1. ASSUME (\E p \in Procs : ArbAccept(a, p)) \/ (\E b \in BOOLEAN : ArbPoll(a, b))
      PROVE  UNCHANGED mem /\ Lives /\ Up /\ Read /\ Heard /\ Down
  <2>1. UNCHANGED <<arbState, mem, a2s, s2a, p2a, a2p>>
    BY <1>1 DEF ArbAccept, ArbPoll, channels
  <2> QED BY <1>l, <1>u, <2>1
<1>2. ASSUME NEW p \in Procs, FromProcessStep(a, p)
      PROVE  UNCHANGED mem /\ Lives /\ Up /\ Read /\ Heard /\ Down
  <2>0. PICK m : m = Head(p2a[p])
    OBVIOUS
  <2>1. /\ arbState[a] = "up" /\ p2a[p] # << >> /\ p2a' = Consume(p2a, p) /\ UNCHANGED <<s2a, a2p, mem>>
        /\ p \in pass[a]
    BY <1>2 DEF FromProcessStep, ArbAddProc, ArbSyncRequest, ArbForwardSync, ArbWaitBarr,
         ArbPrgmDone, FromProcess, Waiting, ArbPanic
  <2>2. m \in Message
    BY <1>0, <2>0, <2>1, ChannelTypes
  <2>3. Home[p] = a
    BY <2>1, ReaderIsLocal
  <2>4. Lives
    <3>1. \A b \in Arbiters : b # a => arbState'[b] = arbState[b]
      BY <1>0, <1>2 DEF FromProcessStep, ArbAddProc, ArbSyncRequest, ArbForwardSync, ArbWaitBarr,
           ArbPrgmDone, ArbPanic
    <3> QED BY <1>l, <2>1, <3>1
  <2>5. Up
    <3>1. CASE ArbAddProc(a, p)
      <4>1. m.type = "ADD_PROC" /\ (UNCHANGED a2s \/ a2s' = Send(a2s, a, m))
        BY <2>0, <3>1 DEF ArbAddProc, FromProcess, Waiting, ArbPanic
      <4> QED BY <1>s, <1>u, <2>2, <4>1
    <3>2. CASE ArbSyncRequest(a, p)
      <4>1. a2s' = Send(a2s, a, Simple("SYNC_REQ"))
        BY <3>2 DEF ArbSyncRequest
      <4>2. Simple("SYNC_REQ") \in Message /\ Simple("SYNC_REQ").type = "SYNC_REQ"
        BY <1>m DEF SimpleTypes
      <4> QED BY <1>s, <4>1, <4>2
    <3>3. CASE ArbForwardSync(a, p)
      <4>1. m.type = "SYNC_INFO" /\ a2s' = Send(a2s, a, m)
        BY <2>0, <3>3 DEF ArbForwardSync, FromProcess, Waiting
      <4> QED BY <1>s, <2>0, <2>1, <2>2, <2>3, <4>1
    <3>4. CASE ArbWaitBarr(a, p)
      <4>1. m.type = "WAIT_BARR" /\ a2s' = Send(a2s, a, m)
        BY <2>0, <3>4 DEF ArbWaitBarr, FromProcess, Waiting
      <4> QED BY <1>s, <2>2, <4>1
    <3>5. CASE ArbPrgmDone(a, p)
      BY <1>u, <3>5 DEF ArbPrgmDone
    <3> QED BY <1>2, <3>1, <3>2, <3>3, <3>4, <3>5 DEF FromProcessStep
  <2> QED BY <1>u, <2>1, <2>4, <2>5
<1>3. ASSUME FromServerStep(a)
      PROVE  UNCHANGED mem /\ Lives /\ Up /\ Read /\ Heard /\ Down
  <2>0. PICK m : m = Head(s2a[a])
    OBVIOUS
  <2>1. arbState[a] = "up" /\ s2a[a] # << >> /\ s2a' = Consume(s2a, a) /\ UNCHANGED p2a
    BY <1>3 DEF FromServerStep, ArbSetGid, ArbStopAll, ArbContAll, ArbWaitDone, ArbWriteOkay,
         ArbApplySync, FromServer, Waiting
  <2>2. m \in Message
    BY <1>0, <2>0, <2>1, ChannelTypes
  <2>3. m.type # "SYNC_INFO"
    BY <1>3, <2>0 DEF FromServerStep, ArbSetGid, ArbStopAll, ArbContAll, ArbWaitDone, ArbWriteOkay,
         FromServer, Waiting
  <2>4. CASE ArbPanic(a)
    BY <1>p, <2>0, <2>1, <2>3, <2>4
  <2>5. CASE ~ArbPanic(a)
    <3>1. UNCHANGED <<arbState, mem>>
      BY <1>3, <2>5 DEF FromServerStep, ArbSetGid, ArbStopAll, ArbContAll, ArbWaitDone, ArbWriteOkay
    <3>2. UNCHANGED a2s \/ a2s' = Send(a2s, a, Done("STOP_DONE", NLocal(a)))
      BY <1>3, <2>5 DEF FromServerStep, ArbSetGid, ArbStopAll, ArbContAll, ArbWaitDone, ArbWriteOkay
    <3>3. Up
      BY <1>n, <1>s, <1>u, <3>2
    <3>4. Down
      <4>1. CASE ArbSetGid(a)
        <5>1. m.type = "SET_GID" /\ a2p' = Send(a2p, m.pid, m)
          BY <2>0, <2>5, <4>1 DEF ArbSetGid, FromServer, Waiting
        <5>2. m.pid \in Procs
          BY <2>2, <5>1, PayloadTypes
        <5>3. PICK q \in Procs : q = m.pid
          BY <5>2
        <5>4. a2p' = SendAll(a2p, {q}, m)
          BY <1>0, <5>1, <5>3 DEF Send, SendAll
        <5> QED BY <1>t, <2>2, <5>1, <5>4
      <4>2. CASE ArbStopAll(a) \/ ArbContAll(a)
        BY <1>u, <2>5, <4>2 DEF ArbStopAll, ArbContAll
      <4>3. CASE ArbWaitDone(a)
        <5>1. UNCHANGED a2p \/ a2p' = SendAll(a2p, Accepted(a), Simple("WAIT_DONE"))
          BY <2>5, <4>3 DEF ArbWaitDone
        <5>2. Simple("WAIT_DONE") \in Message /\ Simple("WAIT_DONE").type = "WAIT_DONE"
          BY <1>m DEF SimpleTypes
        <5> QED BY <1>t, <1>u, <5>1, <5>2
      <4>4. CASE ArbWriteOkay(a)
        <5>1. m.type = "WRITE_OKAY" /\ a2p' = SendAll(a2p, Grantee(a), m)
          BY <2>0, <2>5, <4>4 DEF ArbWriteOkay, FromServer, Waiting
        <5> QED BY <1>t, <2>0, <2>1, <2>2, <5>1
      <4> QED BY <1>3, <4>1, <4>2, <4>3, <4>4 DEF FromServerStep
    <3> QED BY <1>l, <2>0, <2>1, <2>3, <3>1, <3>3, <3>4
  <2> QED BY <2>4, <2>5
<1>4. ASSUME ArbExit(a)
      PROVE  UNCHANGED mem /\ Lives /\ Up /\ Read /\ Heard /\ Down
  <2>1. /\ UNCHANGED <<a2p, p2a, s2a, mem>> /\ arbState[a] = "closing"
        /\ a2s' = Send(a2s, a, Simple("PRGM_DONE")) /\ arbState' = [arbState EXCEPT ![a] = "exited"]
    BY <1>4 DEF ArbExit
  <2>2. ~Live(a)' /\ Lives
    BY <1>0, <1>l, <2>1 DEF Live
  <2>3. Simple("PRGM_DONE") \in Message /\ Simple("PRGM_DONE").type = "PRGM_DONE"
    BY <1>m DEF SimpleTypes
  <2> QED BY <1>s, <1>u, <2>1, <2>2, <2>3
<1> QED BY <1>1, <1>2, <1>3, <1>4 DEF ArbiterStep

(* What a process does to the page, and what it says of it.                *)
LEMMA ProcWrites ==
  ASSUME TypeInv, NEW p \in Procs, ProcessStep(p) \/ ProcKilled(p)
  PROVE  /\ ProcStore(p) \/ UNCHANGED mem
         /\ \A q \in Procs : q # p => loc'[q] = loc[q]
         /\ loc'[p] = "store" => loc[p] = "store" \/ (a2p[p] # << >> /\ Head(a2p[p]).type = "WRITE_OKAY")
         /\ \E S : \E x \in Message :
              /\ p2a' = SendAll(p2a, S, x) /\ S \subseteq {p}
              /\ x.type = "SYNC_INFO" => \E o \in Offsets : x.buf = mem[Home[p]][o]
<1>0. /\ p2a \in [Procs -> Seq(Message)] /\ loc \in [Procs -> Locations]
      /\ todo \in [Procs -> Seq(Op)]
      /\ mem \in [Arbiters -> [Offsets -> Values]] /\ Home[p] \in Arbiters
  BY HomeAssumption DEF TypeInv, TypeOK, NetTypeOK, ProcessTypeOK
<1> DEFINE Sends == \E S : \E x \in Message :
              /\ p2a' = SendAll(p2a, S, x) /\ S \subseteq {p}
              /\ x.type = "SYNC_INFO" => \E o \in Offsets : x.buf = mem[Home[p]][o]
<1>m. /\ \A t \in SimpleTypes : Simple(t) \in Message /\ Simple(t).type = t
      /\ AddProc(p) \in Message /\ AddProc(p).type = "ADD_PROC"
  BY MessageTypes DEF Simple, AddProc
<1>s. ASSUME NEW x \in Message, SendToArbiter(p, x),
             x.type = "SYNC_INFO" => \E o \in Offsets : x.buf = mem[Home[p]][o]
      PROVE  Sends
  <2>1. p2a' = SendAll(p2a, {p}, x)
    BY <1>0, <1>s DEF SendToArbiter, Send, SendAll
  <2> QED BY <1>s, <2>1
<1>u. UNCHANGED p2a => Sends
  <2>1. Simple("SYNC_REQ") \in Message /\ Simple("SYNC_REQ").type = "SYNC_REQ"
    BY <1>m DEF SimpleTypes
  <2>2. p2a = SendAll(p2a, {}, Simple("SYNC_REQ"))
    BY <1>0 DEF SendAll
  <2> QED BY <2>1, <2>2
<1>g. ASSUME NEW l, Goto(p, l) PROVE loc'[p] = l /\ \A q \in Procs : q # p => loc'[q] = loc[q]
  BY <1>0, <1>g DEF Goto
<1> DEFINE GoesOn == \E l : Goto(p, l) /\ (l = "store" => a2p[p] # << >> /\ Head(a2p[p]).type = "WRITE_OKAY")
<1>l. ASSUME GoesOn \/ UNCHANGED loc
      PROVE  /\ \A q \in Procs : q # p => loc'[q] = loc[q]
             /\ loc'[p] = "store" => loc[p] = "store" \/ (a2p[p] # << >> /\ Head(a2p[p]).type = "WRITE_OKAY")
  <2>1. CASE UNCHANGED loc
    BY <2>1
  <2>2. CASE GoesOn
    <3>1. PICK l : Goto(p, l) /\ (l = "store" => a2p[p] # << >> /\ Head(a2p[p]).type = "WRITE_OKAY")
      BY <2>2
    <3> QED BY <1>g, <3>1
  <2> QED BY <1>l, <2>1, <2>2
<1>v. ASSUME NEW l, Goto(p, l), l # "store" PROVE GoesOn
  BY <1>v
<1> HIDE DEF GoesOn
<1> SUFFICES /\ ProcStore(p) \/ UNCHANGED mem
             /\ GoesOn \/ UNCHANGED loc
             /\ Sends
  BY <1>l
<1> HIDE DEF Sends
<1>1. CASE ProcConnect(p)
  <2>1. Sends
    BY <1>1, <1>m, <1>s DEF ProcConnect
  <2>2. GoesOn
    BY <1>1, <1>v DEF ProcConnect
  <2> QED BY <1>1, <2>1, <2>2 DEF ProcConnect
<1>2. CASE ProcRecvGid(p)
  <2>1. Goto(p, "recv_waitDone") \/ Goto(p, "panic")
    BY <1>2 DEF ProcRecvGid
  <2>2. GoesOn
    BY <1>v, <2>1
  <2> QED BY <1>2, <1>u, <2>2 DEF ProcRecvGid
<1>3. CASE ProcRecvWaitDone(p)
  <2>1. \E l : Goto(p, l) /\ l # "store"
    BY <1>3 DEF ProcRecvWaitDone
  <2>2. GoesOn
    BY <1>v, <2>1
  <2> QED BY <1>3, <1>u, <2>2 DEF ProcRecvWaitDone
<1>4. CASE ProcRequest(p) \/ ProcBarrier(p) \/ ProcExit(p)
  <2>1. \E l : Goto(p, l) /\ l # "store"
    BY <1>4 DEF ProcRequest, ProcBarrier, ProcExit
  <2>2. GoesOn
    BY <1>v, <2>1
  <2>3. \E t \in SimpleTypes : SendToArbiter(p, Simple(t))
    BY <1>4 DEF ProcRequest, ProcBarrier, ProcExit, SimpleTypes
  <2>4. \A t \in SimpleTypes : Simple(t).type # "SYNC_INFO"
    BY <1>m DEF SimpleTypes
  <2>5. Sends
    BY <1>m, <1>s, <2>3, <2>4
  <2> QED BY <1>4, <2>2, <2>5 DEF ProcRequest, ProcBarrier, ProcExit
<1>5. CASE ProcGranted(p)
  <2>1. a2p[p] # << >> /\ Goto(p, IF Head(a2p[p]).type = "WRITE_OKAY" THEN "store" ELSE "panic")
    BY <1>5 DEF ProcGranted, Receive
  <2>2. GoesOn
    BY <2>1 DEF GoesOn
  <2> QED BY <1>5, <1>u, <2>2 DEF ProcGranted
<1>6. CASE ProcStore(p)
  <2>1. GoesOn
    BY <1>6, <1>v DEF ProcStore
  <2> QED BY <1>6, <1>u, <2>1 DEF ProcStore
<1>7. CASE ProcSigill(p)
  <2> DEFINE o == Head(todo[p]).off
             x == SyncInfo(o, mem[Home[p]][o])
  <2>1. GoesOn
    BY <1>7, <1>v DEF ProcSigill
  <2>2. SendToArbiter(p, x) /\ x.buf = mem[Home[p]][o]
    BY <1>7 DEF ProcSigill, SyncInfo
  <2>3. o \in Offsets
    <3>1. todo[p] # << >> /\ Head(todo[p]).op = "write"
      BY <1>7 DEF ProcSigill, TypeInv, StoreInv
    <3>2. Head(todo[p]) \in Op
      BY <1>0, <3>1
    <3> QED BY <3>1, <3>2 DEF Op
  <2>4. x \in Message
    <3>1. mem[Home[p]][o] \in Values
      BY <1>0, <2>3
    <3> QED BY <2>3, <3>1, MessageTypes
  <2> HIDE DEF x, o
  <2>5. Sends
    BY <1>s, <2>2, <2>3, <2>4
  <2> QED BY <1>7, <2>1, <2>5 DEF ProcSigill
<1>8. CASE ProcSelfStop(p) \/ ProcReap(p) \/ ProcKilled(p)
  <2>1. \E l : Goto(p, l) /\ l # "store"
    BY <1>8 DEF ProcSelfStop, ProcReap, ProcKilled
  <2>2. GoesOn
    BY <1>v, <2>1
  <2> QED BY <1>8, <1>u, <2>2 DEF ProcSelfStop, ProcReap, ProcKilled
<1>9. CASE DeliverTstp(p)
  BY <1>9, <1>u DEF DeliverTstp, procVars
<1> QED BY <1>1, <1>2, <1>3, <1>4, <1>5, <1>6, <1>7, <1>8, <1>9 DEF ProcessStep

-----------------------------------------------------------------------------
(* Once the session has begun the server is connected to every arbiter     *)
(* that has not left.                                                      *)
LinkInv ==
  \A a \in Arbiters : /\ a \in backlog \cup conns \/ ~Live(a)
                      /\ Has(a2s, a, "PRGM_DONE") => ~Live(a)

(* Everyone waits to be accepted by the server.                            *)
LEMMA LinkInit == Init => LinkInv
<1> SUFFICES ASSUME Init PROVE LinkInv
  OBVIOUS
<1>1. backlog = Arbiters /\ \A a \in Arbiters : a2s[a] = << >>
  BY DEF Init, ServerInit, NetInit
<1>2. DOMAIN << >> = {}
  OBVIOUS
<1> QED BY <1>1, <1>2 DEF LinkInv, Has

(* Only MSG_PRGM_DONE makes the server drop an arbiter, and only an        *)
(* arbiter that is gone has sent one.                                      *)
LEMMA LinkStep == ASSUME TypeInv, PlaceInv, LinkInv, [Next]_vars PROVE LinkInv'
<1>0. /\ a2s \in [Arbiters -> Seq(Message)] /\ TypeOK
  BY DEF TypeInv, TypeOK, NetTypeOK
<1> DEFINE PD == "PRGM_DONE"
<1>k. ASSUME \A a \in Arbiters : a \in backlog \cup conns => a \in backlog' \cup conns' \/ ~Live(a)',
             \A a \in Arbiters : ~Live(a) => ~Live(a)',
             \A a \in Arbiters : Has(a2s, a, PD)' => Has(a2s, a, PD) \/ ~Live(a)'
      PROVE  LinkInv'
  <2> SUFFICES ASSUME NEW a \in Arbiters
               PROVE  /\ a \in backlog' \cup conns' \/ ~Live(a)'
                      /\ Has(a2s, a, PD)' => ~Live(a)'
    BY DEF LinkInv
  <2> QED BY <1>k DEF LinkInv
<1>1. ASSUME NEW a \in Arbiters, ServerStep(a), UNCHANGED arbVars PROVE LinkInv'
  <2>1. \/ UNCHANGED a2s
        \/ a2s[a] # << >> /\ a2s' = Consume(a2s, a)
    BY <1>0, <1>1, ServerEffect
  <2>2. ASSUME a2s[a] # << >>
        PROVE  /\ \A b \in Arbiters : Has(Consume(a2s, a), b, PD) => Has(a2s, b, PD)
               /\ Head(a2s[a]).type = PD => Has(a2s, a, PD)
    BY <1>0, <2>2, ConsumeHas
  <2>3. \A b \in Arbiters : Has(a2s', b, PD) => Has(a2s, b, PD)
    BY <2>1, <2>2
  <2>4. \A b \in Arbiters : Live(b)' <=> Live(b)
    BY <1>1 DEF Live, arbVars
  <2>5. CASE SrvPrgmDone(a)
    <3>1. a2s[a] # << >> /\ Head(a2s[a]).type = PD /\ backlog' = backlog /\ conns \ {a} \subseteq conns'
      BY <2>5 DEF SrvPrgmDone, SrvReceive, Waiting, SrvPanic
    <3>2. ~Live(a)
      BY <2>2, <3>1 DEF LinkInv
    <3>3. \A b \in Arbiters : b \in backlog \cup conns => b \in backlog' \cup conns' \/ ~Live(b)'
      BY <2>4, <3>1, <3>2
    <3> QED BY <1>k, <2>3, <2>4, <3>3 DEF Has
  <2>6. CASE ~SrvPrgmDone(a)
    <3>1. backlog \cup conns \subseteq backlog' \cup conns'
      BY <1>1, <2>6 DEF ServerStep, SrvAccept, SrvAddProc, SrvSyncRequest, SrvStopDone,
                        SrvSyncInfo, SrvSyncDone, SrvWaitBarr, SrvPanic
    <3> QED BY <1>k, <2>3, <2>4, <3>1 DEF Has
  <2> QED BY <2>5, <2>6
<1>2. ASSUME NEW a \in Arbiters, ArbiterStep(a), UNCHANGED <<serverVars, procVars>> PROVE LinkInv'
  <2>0. UNCHANGED <<backlog, conns>>
    BY <1>2 DEF serverVars
  <2>1. CASE ArbApplySync(a)
    <3>1. a2s' = Send(a2s, a, Done("SYNC_DONE", NLocal(a))) /\ UNCHANGED arbState
      BY <2>1 DEF ArbApplySync
    <3>2. PICK x \in Message : a2s' = Send(a2s, a, x) /\ x.type # PD
      <4>1. NLocal(a) \in Nat
        BY <1>0 DEF NLocal, TypeOK, ArbiterTypeOK
      <4> QED BY <3>1, <4>1, MessageTypes DEF Done
    <3>3. \A b \in Arbiters : Has(Send(a2s, a, x), b, PD) => Has(a2s, b, PD)
      BY <1>0, <3>2, SendHas
    <3>4. \A b \in Arbiters : (Live(b)' <=> Live(b)) /\ (Has(a2s, b, PD)' => Has(a2s, b, PD))
      BY <3>1, <3>2, <3>3 DEF Live, Has
    <3> QED BY <1>k, <2>0, <3>4
  <2>2. CASE ~ArbApplySync(a)
    <3>1. \A b \in Arbiters : ~Live(b) => ~Live(b)'
      BY <1>0, <1>2, <2>2, ArbiterEffect
    <3>0. \E S : \E x \in Message :
            /\ a2s' = SendAll(a2s, S, x) /\ S \subseteq {a} /\ x.type # "SYNC_DONE"
            /\ x.type = "PRGM_DONE" => ~Live(a)'
            /\ x.type = "SYNC_INFO" =>
                 \E p \in Procs : Home[p] = a /\ p2a[p] # << >> /\ x = Head(p2a[p])
      BY <1>0, <1>2, <2>2, ArbiterEffect
    <3>2. PICK S : \E x \in Message : /\ a2s' = SendAll(a2s, S, x) /\ S \subseteq {a}
                                      /\ x.type = PD => ~Live(a)'
      BY <3>0, Zenon
    <3>3. PICK x \in Message : /\ a2s' = SendAll(a2s, S, x) /\ S \subseteq {a}
                               /\ x.type = PD => ~Live(a)'
      BY <3>2, Zenon
    <3>4. \A b \in Arbiters : Has(SendAll(a2s, S, x), b, PD) => Has(a2s, b, PD) \/ (b \in S /\ x.type = PD)
      BY <1>0, SendAllHas
    <3>5. \A b \in Arbiters : Has(a2s', b, PD) => Has(a2s, b, PD) \/ (b = a /\ x.type = PD)
      BY <3>3, <3>4
    <3>6. \A b \in Arbiters : Has(a2s, b, PD)' => Has(a2s, b, PD) \/ ~Live(b)'
      BY <3>3, <3>5 DEF Has
    <3> QED BY <1>k, <2>0, <3>1, <3>6
  <2> QED BY <2>1, <2>2
<1>3. ASSUME UNCHANGED <<backlog, conns, a2s>>, \A a \in Arbiters : ~Live(a) => ~Live(a)' PROVE LinkInv'
  BY <1>3, <1>k DEF Has
<1>4. ASSUME NEW a \in Arbiters, ServerActs(a) PROVE LinkInv'
  <2>1. CASE ServerLosesArbiter(a)
    BY <1>3, <2>1 DEF ServerLosesArbiter, netVars, channels, arbVars, Live
  <2> QED BY <1>1, <1>4, <2>1 DEF ServerActs
<1>5. ASSUME NEW a \in Arbiters, ArbiterActs(a) PROVE LinkInv'
  <2>1. CASE ArbiterLosesServer(a) \/ \E p \in Procs : ArbiterLosesProcess(a, p)
    <3>1. /\ UNCHANGED <<backlog, conns, a2s>> /\ arbState[a] = "up"
          /\ arbState' = [arbState EXCEPT ![a] = "panic"]
      BY <2>1 DEF ArbiterLosesServer, ArbiterLosesProcess, serverVars, netVars, channels
    <3>2. \A b \in Arbiters : ~Live(b) => ~Live(b)'
      BY <1>0, <3>1 DEF Live, TypeOK, ArbiterTypeOK
    <3> QED BY <1>3, <3>1, <3>2
  <2> QED BY <1>2, <1>5, <2>1 DEF ArbiterActs
<1>6. ASSUME NEW p, ProcessActs(p) \/ Kill(p) PROVE LinkInv'
  <2>1. UNCHANGED <<backlog, conns, a2s, arbState>>
    BY <1>6 DEF ProcessActs, ProcessLosesArbiter, Kill, serverVars, arbVars, netVars, channels
  <2> QED BY <1>3, <2>1 DEF Live
<1>7. CASE UNCHANGED vars
  BY <1>3, <1>7 DEF vars, serverVars, arbVars, netVars, channels, Live
<1> QED BY <1>4, <1>5, <1>6, <1>7 DEF Next

-----------------------------------------------------------------------------
(* Messages of type t: the ones in new are the ones that were in old.      *)
Same(old, new, K, t) ==
  \A k \in K : /\ Has(new, k, t) <=> Has(old, k, t)
               /\ Once(old, k, t) => Once(new, k, t)
               /\ \A m : m.type = t => (In(new, k, m) <=> In(old, k, m))

(* A channel that is left alone is the same.                               *)
LEMMA SameChannel == ASSUME NEW ch, NEW K, NEW t PROVE Same(ch, ch, K, t)
BY DEF Same

(* Sending another type of message leaves those of type t as they were.    *)
LEMMA SendSame ==
  ASSUME NEW K, NEW ch \in [K -> Seq(Message)], NEW S, NEW x \in Message, NEW t, x.type # t
  PROVE  Same(ch, SendAll(ch, S, x), K, t)
<1> SUFFICES ASSUME NEW k \in K
             PROVE  /\ Has(SendAll(ch, S, x), k, t) <=> Has(ch, k, t)
                    /\ Once(ch, k, t) => Once(SendAll(ch, S, x), k, t)
                    /\ \A m : m.type = t => (In(SendAll(ch, S, x), k, m) <=> In(ch, k, m))
  BY DEF Same
<1>1. /\ Has(SendAll(ch, S, x), k, t) <=> Has(ch, k, t)
      /\ Once(ch, k, t) => Once(SendAll(ch, S, x), k, t)
  BY SendAllHas
<1>2. ASSUME NEW m, m.type = t PROVE In(SendAll(ch, S, x), k, m) <=> In(ch, k, m)
  BY <1>2, SendAllIn
<1> QED BY <1>1, <1>2

(* So does reading one of another type.                                    *)
LEMMA ConsumeSame ==
  ASSUME NEW K, NEW ch \in [K -> Seq(Message)], NEW k \in K, ch[k] # << >>,
         NEW t, Head(ch[k]).type # t
  PROVE  Same(ch, Consume(ch, k), K, t)
<1> SUFFICES ASSUME NEW j \in K
             PROVE  /\ Has(Consume(ch, k), j, t) <=> Has(ch, j, t)
                    /\ Once(ch, j, t) => Once(Consume(ch, k), j, t)
                    /\ \A m : m.type = t => (In(Consume(ch, k), j, m) <=> In(ch, j, m))
  BY DEF Same
<1>0. Consume(ch, k) \in [K -> Seq(Message)]
  BY ChannelTypes
<1>1. /\ Has(Consume(ch, k), j, t) => Has(ch, j, t)
      /\ Once(ch, j, t) => Once(Consume(ch, k), j, t)
  BY ConsumeHas
<1>2. ASSUME NEW m, m.type = t PROVE In(Consume(ch, k), j, m) <=> In(ch, j, m)
  BY <1>2, ConsumeIn
<1>3. Has(ch, j, t) => Has(Consume(ch, k), j, t)
  <2>1. HAVE Has(ch, j, t)
  <2>2. PICK m \in Message : In(ch, j, m) /\ m.type = t
    BY <2>1, HasIn
  <2>3. In(Consume(ch, k), j, m)
    BY <1>2, <2>2
  <2> QED BY <1>0, <2>2, <2>3, HasIn
<1> QED BY <1>1, <1>2, <1>3

(* Reading adds nothing to a channel, sending adds what is sent.           *)
LEMMA ConsumeLess ==
  ASSUME NEW K, NEW ch \in [K -> Seq(Message)], NEW k \in K, ch[k] # << >>
  PROVE  /\ \A j \in K : \A m : In(Consume(ch, k), j, m) => In(ch, j, m)
         /\ \A j \in K : \A t : Has(Consume(ch, k), j, t) => Has(ch, j, t)
         /\ Has(ch, k, Head(ch[k]).type) /\ In(ch, k, Head(ch[k]))
<1>1. ASSUME NEW j \in K, NEW m PROVE In(Consume(ch, k), j, m) => In(ch, j, m)
  BY ConsumeIn
<1>2. ASSUME NEW j \in K, NEW t PROVE Has(Consume(ch, k), j, t) => Has(ch, j, t)
  BY ConsumeHas
<1>3. In(ch, k, Head(ch[k]))
  BY HasIn
<1>4. Has(ch, k, Head(ch[k]).type)
  BY <1>3 DEF Has, In
<1> QED BY <1>1, <1>2, <1>3, <1>4

(* Sending adds to a channel what is sent, and nothing else.               *)
LEMMA SendAllMore ==
  ASSUME NEW K, NEW ch \in [K -> Seq(Message)], NEW S, NEW x \in Message
  PROVE  /\ \A j \in K : \A m : In(SendAll(ch, S, x), j, m) => In(ch, j, m) \/ (j \in S /\ m = x)
         /\ \A j \in K : \A t : Has(SendAll(ch, S, x), j, t) => Has(ch, j, t) \/ (j \in S /\ x.type = t)
<1>1. ASSUME NEW j \in K, NEW m
      PROVE  In(SendAll(ch, S, x), j, m) => In(ch, j, m) \/ (j \in S /\ m = x)
  BY SendAllIn
<1>2. ASSUME NEW j \in K, NEW t
      PROVE  Has(SendAll(ch, S, x), j, t) => Has(ch, j, t) \/ (j \in S /\ x.type = t)
  BY SendAllHas
<1> QED BY <1>1, <1>2

-----------------------------------------------------------------------------
(***************************************************************************)
(* A round of updates.  The server sends the data to every machine, each   *)
(* applies it and acknowledges it for its own processes.                   *)
(***************************************************************************)
Updating(a) == Has(s2a, a, "SYNC_INFO")     \* The data is on its way to a.
Acking(a)   == Has(a2s, a, "SYNC_DONE")     \* Its answer is on its way back.

(* The processes whose machines have had their say in the round.           *)
Counted == {p \in Procs : ~Updating(Home[p]) /\ ~Acking(Home[p])}

Value(a) == mem[a][0]

(* Between the end of a round and the next store all pages are alike.      *)
Fresh == \/ \E a \in Arbiters : Sent(a)
         \/ \E p \in Procs : Passed(p) \/ loc[p] = "store"
Calm  == step \in {"READY", "WAITING_STOP_ACK"} \/ Fresh

RoundInv ==
  /\ step # "READY" => started
  /\ \A a \in Arbiters : /\ Updating(a) \/ Acking(a) => step = "WAITING_SYNC_ACK"
                         /\ Once(s2a, a, "SYNC_INFO") /\ Once(a2s, a, "SYNC_DONE")
                         /\ ~(Updating(a) /\ Acking(a))
  /\ \A a \in Arbiters : \A m : In(a2s, a, m) /\ m.type = "SYNC_DONE" =>
                                  m.nproc <= Cardinality(Local(a))
  /\ step = "WAITING_SYNC_ACK" => nproc_synced <= Cardinality(Counted)

DataInv ==
  /\ \A a \in Arbiters : \A m : In(a2s, a, m) /\ m.type = "SYNC_INFO" => m.buf = Value(a)
  /\ \A p \in Procs : \A m : In(p2a, p, m) /\ m.type = "SYNC_INFO" => m.buf = Value(Home[p])
  /\ step = "WAITING_SYNC_ACK" => \A a \in Arbiters :
       /\ \A m : In(s2a, a, m) /\ m.type = "SYNC_INFO" => m.buf = Value(Head(opqueue))
       /\ Live(a) /\ ~Updating(a) => Value(a) = Value(Head(opqueue))
  /\ Calm => \A a, b \in Arbiters : Live(a) /\ Live(b) => Value(a) = Value(b)

(* There is no round before the first write.                               *)
LEMMA RoundInit == Init => RoundInv /\ DataInv
<1> SUFFICES ASSUME Init PROVE RoundInv /\ DataInv
  OBVIOUS
<1>1. /\ step = "READY" /\ \A a \in Arbiters : a2s[a] = << >> /\ s2a[a] = << >>
      /\ \A p \in Procs : p2a[p] = << >>
      /\ mem  = [a \in Arbiters |-> [o \in Offsets |-> Zero]]
  BY DEF Init, ServerInit, NetInit
<1>2. DOMAIN << >> = {}
  OBVIOUS
<1>3. RoundInv
  BY <1>1, <1>2 DEF RoundInv, Has, Once, In, Updating, Acking
<1>4. \A a \in Arbiters : Value(a) = Zero
  BY <1>1, OffsetAssumption DEF Value
<1>5. DataInv
  BY <1>1, <1>2, <1>4 DEF DataInv, In
<1> QED BY <1>3, <1>5

(* No grant is out while acknowledgements are counted.                     *)
LEMMA FreshIsGrant ==
  /\ GrantInv /\ step # "WAITING_SYNC_INFO" => ~Fresh
  /\ GrantInv' /\ step' # "WAITING_SYNC_INFO" => ~Fresh'
<1>1. /\ InOrder /\ step # "WAITING_SYNC_INFO" => ~Fresh
      /\ InOrder' /\ step' # "WAITING_SYNC_INFO" => ~Fresh'
  BY DEF InOrder, OnTurn, Fresh, Holds, Writable
<1> QED BY <1>1 DEF GrantInv

-----------------------------------------------------------------------------
(* Most steps have no part in a round.                                     *)
LEMMA RoundKept ==
  ASSUME RoundInv, Offsets = {0} => DataInv, UNCHANGED mem,
         step' = "WAITING_SYNC_ACK" <=> step = "WAITING_SYNC_ACK",
         step = "WAITING_SYNC_ACK" => /\ UNCHANGED nproc_synced
                                      /\ Head(opqueue') = Head(opqueue),
         step' # "READY" => started',
         Same(s2a, s2a', Arbiters, "SYNC_INFO"), Same(a2s, a2s', Arbiters, "SYNC_DONE"),
         Offsets = {0} => \A a \in Arbiters : \A m : In(a2s', a, m) /\ m.type = "SYNC_INFO" =>
                                                       In(a2s, a, m) \/ m.buf = Value(a),
         Offsets = {0} => \A p \in Procs : \A m : In(p2a', p, m) /\ m.type = "SYNC_INFO" =>
                                                    In(p2a, p, m) \/ m.buf = Value(Home[p]),
         \A a \in Arbiters : ~Live(a) => ~Live(a)',
         Calm' => Calm
  PROVE  RoundInv' /\ (Offsets = {0} => DataInv')
<1> DEFINE SI == "SYNC_INFO"
           SD == "SYNC_DONE"
<1>1. \A a \in Arbiters : /\ Updating(a)' <=> Updating(a)
                          /\ Acking(a)' <=> Acking(a)
                          /\ Once(s2a, a, SI) => Once(s2a', a, SI)
                          /\ Once(a2s, a, SD) => Once(a2s', a, SD)
                          /\ \A m : m.type = SI => (In(s2a', a, m) <=> In(s2a, a, m))
                          /\ \A m : m.type = SD => (In(a2s', a, m) <=> In(a2s, a, m))
  BY DEF Same, Updating, Acking, Has
<1>2. Counted' = Counted
  <2>1. \A p \in Procs : Home[p] \in Arbiters
    BY HomeAssumption
  <2> QED BY <1>1, <2>1 DEF Counted
<1>3. \A a : Value(a)' = Value(a)
  BY DEF Value
<1>4. RoundInv'
  <2>1. \A a \in Arbiters : /\ Updating(a)' \/ Acking(a)' => step' = "WAITING_SYNC_ACK"
                            /\ Once(s2a', a, SI) /\ Once(a2s', a, SD)
                            /\ ~(Updating(a)' /\ Acking(a)')
    BY <1>1 DEF RoundInv
  <2>2. \A a \in Arbiters : \A m : In(a2s', a, m) /\ m.type = SD => m.nproc <= Cardinality(Local(a))
    BY <1>1 DEF RoundInv
  <2>3. step' = "WAITING_SYNC_ACK" => nproc_synced' <= Cardinality(Counted')
    BY <1>2 DEF RoundInv
  <2> QED BY <2>1, <2>2, <2>3 DEF RoundInv, In, Once, Local
<1>5. ASSUME Offsets = {0} PROVE DataInv'
  <2>1. \A a \in Arbiters : \A m : In(a2s', a, m) /\ m.type = SI => m.buf = Value(a)'
    BY <1>3, <1>5 DEF DataInv
  <2>2. \A p \in Procs : \A m : In(p2a', p, m) /\ m.type = SI => m.buf = Value(Home[p])'
    BY <1>3, <1>5 DEF DataInv
  <2>3. ASSUME step' = "WAITING_SYNC_ACK", NEW a \in Arbiters
        PROVE  /\ \A m : In(s2a', a, m) /\ m.type = SI => m.buf = Value(Head(opqueue))'
               /\ Live(a)' /\ ~Updating(a)' => Value(a)' = Value(Head(opqueue))'
    <3>1. /\ \A m : In(s2a, a, m) /\ m.type = SI => m.buf = Value(Head(opqueue))
          /\ Live(a) /\ ~Updating(a) => Value(a) = Value(Head(opqueue))
      BY <1>5, <2>3 DEF DataInv
    <3>2. Value(Head(opqueue))' = Value(Head(opqueue))
      BY <2>3 DEF Value
    <3> QED BY <1>1, <1>3, <3>1, <3>2
  <2>4. Calm' => \A a, b \in Arbiters : Live(a)' /\ Live(b)' => Value(a)' = Value(b)'
    BY <1>3, <1>5 DEF DataInv
  <2> QED BY <2>1, <2>2, <2>3, <2>4 DEF DataInv, In
<1> QED BY <1>4, <1>5

(* Two such steps in a row are one.                                        *)
LEMMA SameTwice ==
  ASSUME NEW K, NEW t, NEW x, NEW y, NEW z, Same(x, y, K, t), Same(y, z, K, t)
  PROVE  Same(x, z, K, t)
BY DEF Same

(* What the server does in a step that is not part of a round.             *)
LEMMA ServerOrdinary ==
  ASSUME TypeOK, NEW a \in Arbiters, ServerStep(a), ~SrvSyncInfo(a), ~SrvSyncDone(a)
  PROVE  /\ UNCHANGED nproc_synced /\ (started => started')
         /\ \/ UNCHANGED a2s
            \/ /\ a2s[a] # << >> /\ a2s' = Consume(a2s, a)
               /\ Head(a2s[a]).type # "SYNC_INFO" /\ Head(a2s[a]).type # "SYNC_DONE"
         /\ \/ UNCHANGED step
            \/ step = "READY" /\ step' = "WAITING_STOP_ACK" /\ started'
            \/ step = "WAITING_STOP_ACK" /\ step' = "WAITING_SYNC_INFO"
         /\ UNCHANGED opqueue \/ opqueue' = Append(opqueue, a)
         /\ Same(s2a, s2a', Arbiters, "SYNC_INFO")
         /\ Same(s2a, s2a', Arbiters, "WRITE_OKAY") \/ step = "WAITING_STOP_ACK"
<1>0. /\ s2a \in [Arbiters -> Seq(Message)] /\ a2s \in [Arbiters -> Seq(Message)]
      /\ opqueue \in Seq(Arbiters) /\ started \in BOOLEAN
  BY DEF TypeOK, NetTypeOK, ServerTypeOK
<1> DEFINE Out == /\ Same(s2a, s2a', Arbiters, "SYNC_INFO")
                  /\ Same(s2a, s2a', Arbiters, "WRITE_OKAY") \/ step = "WAITING_STOP_ACK"
           Turns == /\ \/ UNCHANGED step
                       \/ step = "READY" /\ step' = "WAITING_STOP_ACK" /\ started'
                       \/ step = "WAITING_STOP_ACK" /\ step' = "WAITING_SYNC_INFO"
                    /\ UNCHANGED opqueue \/ opqueue' = Append(opqueue, a)
           Kept == UNCHANGED nproc_synced /\ (started => started')
<1>1. \/ UNCHANGED a2s
      \/ /\ a2s[a] # << >> /\ a2s' = Consume(a2s, a)
         /\ Head(a2s[a]).type # "SYNC_INFO" /\ Head(a2s[a]).type # "SYNC_DONE"
  BY DEF ServerStep, SrvAccept, SrvAddProc, SrvSyncRequest, SrvStopDone,
         SrvWaitBarr, SrvPrgmDone, SrvReceive, Waiting
<1> SUFFICES Kept /\ Turns /\ Out
  BY <1>1
<1>m. \A t \in SimpleTypes : Simple(t) \in Message /\ Simple(t).type = t
  BY MessageTypes DEF Simple
<1>s. ASSUME NEW S, NEW x \in Message, s2a' = SendAll(s2a, S, x),
             x.type # "SYNC_INFO", x.type # "WRITE_OKAY" \/ step = "WAITING_STOP_ACK"
      PROVE  Out
  BY <1>0, <1>s, SendSame
<1>u. UNCHANGED s2a => Out
  BY SameChannel
<1>a. ASSUME NEW t \in SimpleTypes, t # "WRITE_OKAY", s2a' = SendAll(s2a, conns, Simple(t))
      PROVE  Out
  <2>1. t # "SYNC_INFO"
    BY DEF SimpleTypes
  <2> QED BY <1>a, <1>m, <1>s, <2>1
<1> HIDE DEF Out
<1>p. SrvPanic => Out /\ Kept /\ Turns
  BY <1>u DEF SrvPanic, writeVars
<1>2. CASE SrvAccept(a)
  BY <1>2, <1>u DEF SrvAccept, writeVars
<1>3. CASE SrvAddProc(a)
  <2>1. CASE SrvPanic
    BY <1>p, <2>1
  <2>2. CASE ~SrvPanic
    <3>0. PICK m : m = Head(a2s[a])
      OBVIOUS
    <3>1. /\ m \in Message /\ m.type = "ADD_PROC" /\ ~started
          /\ UNCHANGED <<step, opqueue, nproc_synced>>
      BY <1>0, <1>3, <2>2, <3>0, ChannelTypes DEF SrvAddProc, SrvReceive, Waiting, writeVars
    <3>2. Out
      <4>1. gid \in Nat /\ m.pid \in Procs
        BY <3>1, PayloadTypes DEF TypeOK, ServerTypeOK
      <4>2. PICK g : g = SetGid(m.pid, gid)
        OBVIOUS
      <4>3. g \in Message /\ g.type = "SET_GID"
        BY <4>1, <4>2, MessageTypes DEF SetGid
      <4>4. PICK r : r = SendAll(s2a, {a}, g)
        OBVIOUS
      <4>5. r \in [Arbiters -> Seq(Message)] /\ r = Send(s2a, a, g)
        <5>1. r = Send(s2a, a, g)
          BY <1>0, <4>4 DEF Send, SendAll
        <5>2. Send(s2a, a, g) \in [Arbiters -> Seq(Message)]
          BY <1>0, <4>3, ChannelTypes
        <5> QED BY <5>1, <5>2
      <4>6. s2a' = r \/ s2a' = SendAll(r, conns, Simple("WAIT_DONE"))
        BY <1>3, <2>2, <3>0, <4>2, <4>5 DEF SrvAddProc, SrvPanic
      <4>7. Same(s2a, r, Arbiters, "SYNC_INFO") /\ Same(s2a, r, Arbiters, "WRITE_OKAY")
        BY <1>0, <4>3, <4>4, SendSame
      <4>8. /\ Same(r, SendAll(r, conns, Simple("WAIT_DONE")), Arbiters, "SYNC_INFO")
            /\ Same(r, SendAll(r, conns, Simple("WAIT_DONE")), Arbiters, "WRITE_OKAY")
        <5>1. Simple("WAIT_DONE") \in Message /\ Simple("WAIT_DONE").type = "WAIT_DONE"
          BY <1>m DEF SimpleTypes
        <5> QED BY <4>5, <5>1, SendSame
      <4> QED BY <4>6, <4>7, <4>8, SameTwice DEF Out
    <3> QED BY <3>1, <3>2
  <2> QED BY <2>1, <2>2
<1>4. CASE SrvSyncRequest(a)
  <2>1. Out
    <3>1. \/ SrvPanic \/ UNCHANGED s2a
          \/ s2a' = SendAll(s2a, conns, Simple("STOP_ALL"))
      BY <1>4 DEF SrvSyncRequest
    <3> QED BY <1>a, <1>p, <1>u, <3>1 DEF SimpleTypes
  <2>2. SrvPanic \/ (Kept /\ Turns)
    BY <1>4 DEF SrvSyncRequest, counters
  <2> QED BY <1>p, <2>1, <2>2
<1>5. CASE SrvStopDone(a)
  <2>1. CASE SrvPanic
    BY <1>p, <2>1
  <2>2. CASE ~SrvPanic
    <3>1. step = "WAITING_STOP_ACK" /\ Kept /\ Turns
      BY <1>5, <2>2 DEF SrvStopDone
    <3>2. \/ UNCHANGED s2a
          \/ opqueue # << >> /\ s2a' = Send(s2a, Head(opqueue), Simple("WRITE_OKAY"))
      BY <1>5, <2>2 DEF SrvStopDone
    <3>3. ASSUME opqueue # << >>, s2a' = Send(s2a, Head(opqueue), Simple("WRITE_OKAY")) PROVE Out
      <4>1. PICK b \in Arbiters : b = Head(opqueue)
        BY <1>0, <3>3, SeqTypes
      <4>2. s2a' = SendAll(s2a, {b}, Simple("WRITE_OKAY"))
        BY <1>0, <3>3, <4>1 DEF Send, SendAll
      <4>3. Simple("WRITE_OKAY") \in Message /\ Simple("WRITE_OKAY").type = "WRITE_OKAY"
        BY <1>m DEF SimpleTypes
      <4> QED BY <1>s, <3>1, <4>2, <4>3
    <3> QED BY <1>u, <3>1, <3>2, <3>3
  <2> QED BY <2>1, <2>2
<1>6. CASE SrvWaitBarr(a)
  <2>1. Out
    <3>1. \/ SrvPanic \/ UNCHANGED s2a
          \/ s2a' = SendAll(s2a, conns, Simple("WAIT_DONE"))
      BY <1>6 DEF SrvWaitBarr
    <3> QED BY <1>a, <1>p, <1>u, <3>1 DEF SimpleTypes
  <2>2. SrvPanic \/ (Kept /\ Turns)
    BY <1>6 DEF SrvWaitBarr, writeVars
  <2> QED BY <1>p, <2>1, <2>2
<1>7. CASE SrvPrgmDone(a)
  <2>1. SrvPanic \/ (UNCHANGED s2a /\ Kept /\ Turns)
    BY <1>7 DEF SrvPrgmDone, writeVars
  <2> QED BY <1>p, <1>u, <2>1
<1> QED BY <1>2, <1>3, <1>4, <1>5, <1>6, <1>7 DEF ServerStep

(* The steps of the server outside a round.                                *)
LEMMA RoundServerOrdinary ==
  ASSUME TypeOK, GrantInv, StepMatchesQueue, RoundInv, Offsets = {0} => DataInv,
         NEW a \in Arbiters, ServerStep(a),
         ~SrvSyncInfo(a), ~SrvSyncDone(a),
         UNCHANGED <<arbVars, procVars, p2a, a2p, signals, mem>>
  PROVE  RoundInv' /\ (Offsets = {0} => DataInv')
<1>0. a2s \in [Arbiters -> Seq(Message)] /\ opqueue \in Seq(Arbiters)
  BY DEF TypeOK, NetTypeOK, ServerTypeOK
<1>1. /\ UNCHANGED nproc_synced /\ (started => started')
      /\ \/ UNCHANGED a2s
         \/ /\ a2s[a] # << >> /\ a2s' = Consume(a2s, a)
            /\ Head(a2s[a]).type # "SYNC_INFO" /\ Head(a2s[a]).type # "SYNC_DONE"
      /\ \/ UNCHANGED step
         \/ step = "READY" /\ step' = "WAITING_STOP_ACK" /\ started'
         \/ step = "WAITING_STOP_ACK" /\ step' = "WAITING_SYNC_INFO"
      /\ UNCHANGED opqueue \/ opqueue' = Append(opqueue, a)
      /\ Same(s2a, s2a', Arbiters, "SYNC_INFO")
      /\ Same(s2a, s2a', Arbiters, "WRITE_OKAY") \/ step = "WAITING_STOP_ACK"
  BY ServerOrdinary
<1>2. Same(a2s, a2s', Arbiters, "SYNC_DONE") /\ Same(a2s, a2s', Arbiters, "SYNC_INFO")
  <2>1. CASE UNCHANGED a2s
    BY <2>1, SameChannel
  <2>2. CASE /\ a2s[a] # << >> /\ a2s' = Consume(a2s, a)
             /\ Head(a2s[a]).type # "SYNC_INFO" /\ Head(a2s[a]).type # "SYNC_DONE"
    BY <1>0, <2>2, ConsumeSame
  <2> QED BY <1>1, <2>1, <2>2
<1>3. step = "WAITING_SYNC_ACK" => Head(opqueue') = Head(opqueue)
  <2>1. step = "WAITING_SYNC_ACK" => opqueue # << >>
    BY DEF StepMatchesQueue
  <2> QED BY <1>0, <1>1, <2>1, AppendPlaces
<1>4. Calm' => Calm
  <2>1. CASE step \in {"READY", "WAITING_STOP_ACK"}
    BY <2>1 DEF Calm
  <2>2. CASE step \notin {"READY", "WAITING_STOP_ACK"}
    <3>1. UNCHANGED step /\ Same(s2a, s2a', Arbiters, "WRITE_OKAY")
      BY <1>1, <2>2
    <3>2. Fresh' => Fresh
      <4>1. \A b \in Arbiters : Sent(b)' => Sent(b)
        BY <3>1 DEF Same, Sent, Has
      <4>2. UNCHANGED <<a2p, loc>>
        BY DEF procVars
      <4> QED BY <4>1, <4>2 DEF Fresh, Passed, Has
    <3> QED BY <3>1, <3>2 DEF Calm
  <2> QED BY <2>1, <2>2
<1>5. step' # "READY" => started'
  BY <1>1 DEF RoundInv
<1>6. /\ \A b \in Arbiters : \A m : In(a2s', b, m) /\ m.type = "SYNC_INFO" => In(a2s, b, m)
      /\ \A p \in Procs : \A m : In(p2a', p, m) => In(p2a, p, m)
  BY <1>2 DEF Same
<1>7. \A b \in Arbiters : ~Live(b) => ~Live(b)'
  BY DEF Live, arbVars
<1>8. step' = "WAITING_SYNC_ACK" <=> step = "WAITING_SYNC_ACK"
  BY <1>1
<1> QED BY <1>1, <1>2, <1>3, <1>4, <1>5, <1>6, <1>7, <1>8, RoundKept

(* What the server sends when it finishes a write is no data.              *)
LEMMA SyncedSame ==
  ASSUME TypeOK, opqueue # << >>, NEW n \in Nat, Synced(n)
  PROVE  Same(s2a, s2a', Arbiters, "SYNC_INFO")
<1>0. s2a \in [Arbiters -> Seq(Message)] /\ opqueue \in Seq(Arbiters)
  BY DEF TypeOK, NetTypeOK, ServerTypeOK
<1>m. \A t \in SimpleTypes : Simple(t) \in Message /\ Simple(t).type = t
  BY MessageTypes DEF Simple
<1>1. UNCHANGED s2a => Same(s2a, s2a', Arbiters, "SYNC_INFO")
  BY SameChannel
<1>2. ASSUME NEW S, NEW t \in SimpleTypes, s2a' = SendAll(s2a, S, Simple(t))
      PROVE  Same(s2a, s2a', Arbiters, "SYNC_INFO")
  <2>1. t # "SYNC_INFO"
    BY DEF SimpleTypes
  <2> QED BY <1>0, <1>m, <1>2, <2>1, SendSame
<1>3. CASE ~AllSynced(n)
  BY <1>1, <1>3 DEF Synced
<1>4. CASE AllSynced(n) /\ Tail(opqueue) = << >>
  <2>1. s2a' = SendAll(s2a, conns, Simple("CONT_ALL")) /\ "CONT_ALL" \in SimpleTypes
    BY <1>4 DEF Synced, SimpleTypes
  <2> QED BY <1>2, <2>1
<1>5. CASE AllSynced(n) /\ Tail(opqueue) # << >>
  <2>1. PICK b \in Arbiters : b = Head(Tail(opqueue))
    BY <1>0, <1>5, SeqTypes
  <2>2. s2a' = Send(s2a, b, Simple("WRITE_OKAY")) /\ "WRITE_OKAY" \in SimpleTypes
    BY <1>5, <2>1 DEF Synced, SimpleTypes
  <2>3. s2a' = SendAll(s2a, {b}, Simple("WRITE_OKAY"))
    BY <1>0, <2>2 DEF Send, SendAll
  <2> QED BY <1>2, <2>2, <2>3
<1> QED BY <1>3, <1>4, <1>5

(* The parts of the invariant, put together after a step.                  *)
LEMMA RoundMade ==
  ASSUME step' # "READY" => started',
         \A a \in Arbiters : /\ Updating(a)' \/ Acking(a)' => step' = "WAITING_SYNC_ACK"
                             /\ ~(Updating(a)' /\ Acking(a)'),
         \A a \in Arbiters : Once(s2a', a, "SYNC_INFO") /\ Once(a2s', a, "SYNC_DONE"),
         \A a \in Arbiters : \A m : In(a2s', a, m) /\ m.type = "SYNC_DONE" =>
                                      m.nproc <= Cardinality(Local(a)),
         step' = "WAITING_SYNC_ACK" => nproc_synced' <= Cardinality(Counted')
  PROVE  RoundInv'
<1>1. \A a \in Arbiters : Once(s2a, a, "SYNC_INFO")' /\ Once(a2s, a, "SYNC_DONE")'
  BY DEF Once
<1>2. \A a \in Arbiters : \A m : In(a2s, a, m)' /\ m.type = "SYNC_DONE" =>
                                      m.nproc <= Cardinality(Local(a))
  BY DEF In
<1> QED BY <1>1, <1>2 DEF RoundInv, Local

(* A single arbiter has the server to itself.                              *)
LEMMA FiniteArbiters == IsFiniteSet(Arbiters)
<1>1. Home \in Surjection(Procs, Arbiters)
  BY HomeAssumption DEF Surjection
<1> QED BY <1>1, ProcsAssumption, FS_Surjection

(* msg_syncInfo of the server starts a round, or ends the write at once if *)
(* there is one machine only.                                              *)
LEMMA RoundSyncInfo ==
  ASSUME TypeOK, TypeOK', GrantInv, GrantInv', StepMatchesQueue, CountInv, LinkInv,
         RoundInv, Offsets = {0} => DataInv, NEW a \in Arbiters, SrvSyncInfo(a),
         UNCHANGED <<arbVars, procVars, p2a, a2p, signals, mem>>
  PROVE  RoundInv' /\ (Offsets = {0} => DataInv')
<1> DEFINE SI == "SYNC_INFO"
           SD == "SYNC_DONE"
<1>0. /\ s2a \in [Arbiters -> Seq(Message)] /\ a2s \in [Arbiters -> Seq(Message)]
      /\ opqueue \in Seq(Arbiters) /\ conns \subseteq Arbiters
      /\ s2a' \in [Arbiters -> Seq(Message)] /\ a2s' \in [Arbiters -> Seq(Message)]
  BY DEF TypeOK, NetTypeOK, ServerTypeOK
<1>1. PICK m : m = Head(a2s[a])
  OBVIOUS
<1>2. /\ a2s[a] # << >> /\ m \in Message /\ m.type = SI /\ a2s' = Consume(a2s, a) /\ a \in conns
  BY <1>0, <1>1, ChannelTypes, SrvSyncInfo(a) DEF SrvSyncInfo, SrvReceive, Waiting
<1>3. In(a2s, a, m) /\ Returned(a)
  BY <1>0, <1>1, <1>2, HasIn DEF Returned
<1>4. step = "WAITING_SYNC_INFO" /\ opqueue # << >> /\ Head(opqueue) = a
  BY <1>3 DEF GrantInv, InOrder, OnTurn
<1>5. started /\ nproc_synced = 0
  BY <1>4 DEF RoundInv, StepMatchesQueue
<1>6. /\ started' /\ UNCHANGED <<conns, backlog>>
      /\ IF Cardinality(conns) = 1
         THEN Synced(NProc)
         ELSE /\ s2a' = SendAll(s2a, conns, m)
              /\ step' = "WAITING_SYNC_ACK"
              /\ UNCHANGED <<opqueue, nproc_synced>>
  BY <1>1, <1>4, <1>5, SrvSyncInfo(a) DEF SrvSyncInfo, IsWriter
<1>7. \A b \in Arbiters : ~Updating(b) /\ ~Acking(b)
  BY <1>4 DEF RoundInv
<1>8. \A b \in Arbiters : b \in conns \/ ~Live(b)
  BY <1>5 DEF LinkInv, CountInv
<1>9. Same(a2s, a2s', Arbiters, SD)
  BY <1>0, <1>1, <1>2, ConsumeSame
<1>10. /\ \A b \in Arbiters : \A x : In(a2s', b, x) => In(a2s, b, x)
       /\ \A p \in Procs : \A x : In(p2a', p, x) => In(p2a, p, x)
  BY <1>0, <1>2, ConsumeIn
<1>11. \A b \in Arbiters : Value(b)' = Value(b) /\ (Live(b)' <=> Live(b))
  BY DEF Value, Live, arbVars
<1>12. \A b \in Arbiters : ~Acking(b)' /\ Once(a2s', b, SD)
  BY <1>7, <1>9 DEF Same, Acking, Has, RoundInv
<1>13. \A b \in Arbiters : \A x : In(a2s', b, x) /\ x.type = SD => x.nproc <= Cardinality(Local(b))
  BY <1>10 DEF RoundInv
<1>14. ASSUME Offsets = {0}
       PROVE  /\ \A b \in Arbiters : \A x : In(a2s', b, x) /\ x.type = SI => x.buf = Value(b)'
              /\ \A p \in Procs : \A x : In(p2a', p, x) /\ x.type = SI => x.buf = Value(Home[p])'
  BY <1>10, <1>11, <1>14, HomeAssumption DEF DataInv
<1>15. Offsets = {0} => m.buf = Value(a)
  BY <1>2, <1>3 DEF DataInv
<1>16. CASE Cardinality(conns) = 1
  <2>1. conns = {a}
    <3>1. IsFiniteSet(conns)
      BY <1>0, FiniteArbiters, FS_Subset
    <3>2. \E c : conns = {c}
      BY <1>16, <3>1, FS_Singleton
    <3> QED BY <1>2, <3>2
  <2>2. AllSynced(NProc)
    BY <1>5, NProcType DEF AllSynced
  <2>3. step' \in {"READY", "WAITING_SYNC_INFO"}
    BY <1>6, <1>16, <2>2 DEF Synced, StepAfter
  <2>4. Same(s2a, s2a', Arbiters, SI)
    BY <1>4, <1>6, <1>16, NProcType, SyncedSame
  <2>5. \A b \in Arbiters : ~Updating(b)' /\ Once(s2a', b, SI)
    BY <1>7, <2>4 DEF Same, Updating, Has, RoundInv
  <2>6. RoundInv'
    BY <1>6, <1>12, <1>13, <2>3, <2>5, RoundMade
  <2>7. \A b, c \in Arbiters : Live(b)' /\ Live(c)' => b = c
    BY <1>8, <1>11, <2>1
  <2>8. Offsets = {0} => DataInv'
    BY <1>14, <2>3, <2>7 DEF DataInv, In
  <2> QED BY <2>6, <2>8
<1>17. CASE Cardinality(conns) # 1
  <2>1. /\ s2a' = SendAll(s2a, conns, m) /\ step' = "WAITING_SYNC_ACK"
        /\ UNCHANGED <<opqueue, nproc_synced>>
    BY <1>6, <1>17
  <2>2. \A b \in Arbiters : (Updating(b)' <=> b \in conns) /\ Once(s2a', b, SI)
    <3> SUFFICES ASSUME NEW b \in Arbiters
                 PROVE  (Has(s2a', b, SI) <=> b \in conns) /\ Once(s2a', b, SI)
      BY DEF Updating, Has
    <3>1. ~Has(s2a, b, SI) /\ Once(s2a, b, SI)
      BY <1>7 DEF Updating, RoundInv
    <3> QED BY <1>0, <1>2, <2>1, <3>1, SendAllHas
  <2>3. \A b \in Arbiters : \A x : In(s2a', b, x) /\ x.type = SI => x = m
    <3> SUFFICES ASSUME NEW b \in Arbiters, NEW x, In(s2a', b, x), x.type = SI PROVE x = m
      OBVIOUS
    <3>1. In(s2a, b, x) => x \in Message /\ Has(s2a, b, SI)
      BY <1>0, HasIn
    <3>2. ~In(s2a, b, x)
      BY <1>7, <3>1 DEF Updating
    <3>3. In(SendAll(s2a, conns, m), b, x) <=> In(s2a, b, x) \/ (b \in conns /\ x = m)
      BY <1>0, <1>2, SendAllIn
    <3> QED BY <2>1, <3>2, <3>3
  <2>4. nproc_synced' <= Cardinality(Counted')
    <3>1. IsFiniteSet(Counted')
      BY ProcsAssumption, FS_Subset DEF Counted
    <3> QED BY <1>5, <2>1, <3>1, FS_CardinalityType
  <2>5. RoundInv'
    BY <1>6, <1>12, <1>13, <2>1, <2>2, <2>4, RoundMade
  <2>6. ~Calm'
    <3>1. ~Fresh'
      BY <2>1, FreshIsGrant
    <3> QED BY <2>1, <3>1 DEF Calm
  <2>7. Value(Head(opqueue))' = Value(a)
    BY <1>4, <2>1 DEF Value
  <2>8. \A b \in Arbiters : Live(b)' => Updating(b)'
    BY <1>8, <1>11, <2>2
  <2>9. Offsets = {0} => \A b \in Arbiters : \A x : In(s2a', b, x) /\ x.type = SI
                                              => x.buf = Value(Head(opqueue))'
    BY <1>15, <2>3, <2>7
  <2>10. Offsets = {0} => DataInv'
    BY <1>14, <2>6, <2>8, <2>9 DEF DataInv, In
  <2> QED BY <2>5, <2>10
<1> QED BY <1>16, <1>17

(* msg_syncDone counts the processes of one more machine; at NProc         *)
(* everyone has the data.                                                  *)
LEMMA RoundSyncDone ==
  ASSUME TypeOK, TypeOK', GrantInv, GrantInv', StepMatchesQueue,
         RoundInv, Offsets = {0} => DataInv, NEW a \in Arbiters, SrvSyncDone(a),
         UNCHANGED <<arbVars, procVars, p2a, a2p, signals, mem>>
  PROVE  RoundInv' /\ (Offsets = {0} => DataInv')
<1> DEFINE SI == "SYNC_INFO"
           SD == "SYNC_DONE"
<1>0. /\ s2a \in [Arbiters -> Seq(Message)] /\ a2s \in [Arbiters -> Seq(Message)]
      /\ opqueue \in Seq(Arbiters) /\ nproc_synced \in Nat
  BY DEF TypeOK, NetTypeOK, ServerTypeOK
<1>1. PICK m : m = Head(a2s[a])
  OBVIOUS
<1>2. /\ a2s[a] # << >> /\ m \in Message /\ m.type = SD /\ a2s' = Consume(a2s, a)
  BY <1>0, <1>1, ChannelTypes, SrvSyncDone(a) DEF SrvSyncDone, SrvReceive, Waiting
<1>3. In(a2s, a, m) /\ Acking(a)
  BY <1>0, <1>1, <1>2, HasIn DEF Acking
<1>4. step = "WAITING_SYNC_ACK" /\ started /\ opqueue # << >> /\ ~Updating(a)
  BY <1>3 DEF RoundInv, StepMatchesQueue
<1>5. PICK n \in Nat : n = m.nproc
  BY <1>2, PayloadTypes
<1>6. n <= Cardinality(Local(a))
  BY <1>2, <1>3, <1>5 DEF RoundInv
<1>7. Synced(n) /\ UNCHANGED <<started, conns>>
  BY <1>1, <1>4, <1>5, SrvSyncDone(a) DEF SrvSyncDone, SrvPanic
<1>8. Same(s2a, s2a', Arbiters, SI)
  BY <1>4, <1>7, SyncedSame
<1>9. Same(a2s, a2s', Arbiters, SI)
  BY <1>0, <1>1, <1>2, ConsumeSame
<1>10. /\ \A b \in Arbiters : \A x : In(a2s', b, x) => In(a2s, b, x)
       /\ \A b \in Arbiters : (Acking(b)' => Acking(b)) /\ Once(a2s', b, SD)
       /\ ~Acking(a)'
  <2>1. \A b \in Arbiters : \A x : In(a2s', b, x) => In(a2s, b, x)
    BY <1>0, <1>2, ConsumeIn
  <2>2. \A b \in Arbiters : Once(a2s, b, SD)
    BY DEF RoundInv
  <2>3. \A b \in Arbiters : (Has(Consume(a2s, a), b, SD) => Has(a2s, b, SD)) /\ Once(Consume(a2s, a), b, SD)
    BY <1>0, <1>2, <2>2, ConsumeHas
  <2>4. ~Has(Consume(a2s, a), a, SD)
    BY <1>0, <1>1, <1>2, <2>2, ConsumeHas
  <2>5. \A b \in Arbiters : Acking(b)' <=> Has(a2s', b, SD)
    BY DEF Acking, Has
  <2>6. \A b \in Arbiters : (Acking(b)' => Acking(b)) /\ Once(a2s', b, SD)
    BY <1>2, <2>3, <2>5 DEF Acking
  <2> QED BY <1>2, <2>1, <2>4, <2>5, <2>6
<1>11. \A b \in Arbiters : /\ Updating(b)' <=> Updating(b)
                           /\ Once(s2a', b, SI)
                           /\ \A x : x.type = SI => (In(s2a', b, x) <=> In(s2a, b, x))
  BY <1>8 DEF Same, Updating, Has, RoundInv
<1>12. \A b \in Arbiters : Value(b)' = Value(b) /\ (Live(b)' <=> Live(b))
  BY DEF Value, Live, arbVars
<1>13. ASSUME Offsets = {0}
       PROVE  /\ \A b \in Arbiters : \A x : In(a2s', b, x) /\ x.type = SI => x.buf = Value(b)'
              /\ \A p \in Procs : \A x : In(p2a', p, x) /\ x.type = SI => x.buf = Value(Home[p])'
  BY <1>10, <1>12, <1>13, HomeAssumption DEF DataInv
<1>14. \A b \in Arbiters : \A x : In(a2s', b, x) /\ x.type = SD => x.nproc <= Cardinality(Local(b))
  BY <1>10 DEF RoundInv
<1>15. nproc_synced + n <= Cardinality(Counted') /\ Counted' \subseteq Procs /\ IsFiniteSet(Counted')
  <2>1. IsFiniteSet(Counted) /\ IsFiniteSet(Counted') /\ IsFiniteSet(Local(a)) /\ Counted' \subseteq Procs
    BY ProcsAssumption, FS_Subset DEF Counted, Local
  <2>2. Counted \cap Local(a) = {}
    BY <1>3 DEF Counted, Local
  <2>3. Counted \cup Local(a) \subseteq Counted'
    <3>1. ASSUME NEW p \in Counted PROVE p \in Counted'
      <4>1. p \in Procs /\ Home[p] \in Arbiters /\ ~Updating(Home[p]) /\ ~Acking(Home[p])
        BY HomeAssumption DEF Counted
      <4>2. ~Updating(Home[p])' /\ ~Acking(Home[p])'
        BY <1>10, <1>11, <4>1
      <4> QED BY <4>1, <4>2 DEF Counted
    <3>2. ASSUME NEW p \in Local(a) PROVE p \in Counted'
      <4>1. p \in Procs /\ Home[p] = a
        BY DEF Local
      <4>2. ~Updating(Home[p])' /\ ~Acking(Home[p])'
        BY <1>4, <1>10, <1>11, <4>1
      <4> QED BY <4>1, <4>2 DEF Counted
    <3> QED BY <3>1, <3>2
  <2>4. Cardinality(Counted \cup Local(a)) = Cardinality(Counted) + Cardinality(Local(a))
    <3>1. /\ Cardinality(Counted \cup Local(a)) =
               Cardinality(Counted) + Cardinality(Local(a)) - Cardinality(Counted \cap Local(a))
      BY <2>1, FS_Union
    <3>2. Cardinality(Counted \cap Local(a)) = 0
      BY <2>2, FS_EmptySet
    <3> QED BY <2>1, <3>1, <3>2, FS_CardinalityType
  <2>5. Cardinality(Counted \cup Local(a)) <= Cardinality(Counted')
    BY <2>1, <2>3, FS_Subset
  <2>6. nproc_synced <= Cardinality(Counted)
    BY <1>4 DEF RoundInv
  <2>7. /\ Cardinality(Counted) \in Nat /\ Cardinality(Local(a)) \in Nat
        /\ Cardinality(Counted') \in Nat
    BY <2>1, FS_CardinalityType
  <2> QED BY <1>0, <1>5, <1>6, <2>1, <2>4, <2>5, <2>6, <2>7
<1>16. CASE ~AllSynced(n)
  <2>1. step' = "WAITING_SYNC_ACK" /\ nproc_synced' = nproc_synced + n /\ UNCHANGED opqueue
    BY <1>7, <1>16 DEF Synced
  <2>2. \A b \in Arbiters : ~(Updating(b)' /\ Acking(b)')
    BY <1>10, <1>11 DEF RoundInv
  <2>3. RoundInv'
    BY <1>4, <1>7, <1>10, <1>11, <1>14, <1>15, <2>1, <2>2, RoundMade
  <2>4. ~Calm'
    BY <2>1, FreshIsGrant DEF Calm
  <2>5. Value(Head(opqueue))' = Value(Head(opqueue))
    BY <2>1 DEF Value
  <2>6. ASSUME Offsets = {0}, NEW b \in Arbiters
        PROVE  /\ \A x : In(s2a', b, x) /\ x.type = SI => x.buf = Value(Head(opqueue))'
               /\ Live(b)' /\ ~Updating(b)' => Value(b)' = Value(Head(opqueue))'
    BY <1>4, <1>11, <1>12, <2>5, <2>6 DEF DataInv
  <2>7. Offsets = {0} => DataInv'
    BY <1>13, <2>4, <2>6 DEF DataInv, In
  <2> QED BY <2>3, <2>7
<1>17. CASE AllSynced(n)
  <2>1. step' \in {"READY", "WAITING_SYNC_INFO"}
    BY <1>7, <1>17 DEF Synced, StepAfter
  <2>2. Counted' = Procs
    <3>1. Cardinality(Procs) <= Cardinality(Counted')
      <4>1. NProc <= nproc_synced + n
        BY <1>0, <1>5, <1>17, NProcType DEF AllSynced
      <4>2. Cardinality(Counted') \in Nat
        BY <1>15, FS_CardinalityType
      <4> QED BY <1>0, <1>5, <1>15, <4>1, <4>2, NProcType DEF NProc
    <3> QED BY <1>15, <3>1, ProcsAssumption, FS_Subset, FS_CardinalityType
  <2>3. \A b \in Arbiters : ~Updating(b)' /\ ~Acking(b)'
    <3>1. ASSUME NEW b \in Arbiters PROVE ~Updating(b)' /\ ~Acking(b)'
      <4>1. PICK p \in Procs : Home[p] = b
        BY HomeAssumption
      <4>2. ~Updating(Home[p])' /\ ~Acking(Home[p])'
        BY <2>2 DEF Counted
      <4> QED BY <4>1, <4>2
    <3> QED BY <3>1
  <2>4. RoundInv'
    BY <1>4, <1>7, <1>10, <1>11, <1>14, <2>1, <2>3, RoundMade
  <2>5. Offsets = {0} => \A b, c \in Arbiters : Live(b)' /\ Live(c)' => Value(b)' = Value(c)'
    BY <1>4, <1>11, <1>12, <2>3 DEF DataInv
  <2>6. Offsets = {0} => DataInv'
    BY <1>13, <2>1, <2>5 DEF DataInv, In
  <2> QED BY <2>4, <2>6
<1> QED BY <1>16, <1>17

(* msg_syncInfo of an arbiter: the data of the round is copied and         *)
(* acknowledged.                                                           *)
LEMMA RoundApply ==
  ASSUME TypeOK, TypeOK', PlaceInv, ListInv, GrantInv, GrantInv', StepMatchesQueue,
         RoundInv, Offsets = {0} => DataInv, NEW a \in Arbiters, ArbApplySync(a),
         UNCHANGED <<serverVars, procVars>>
  PROVE  RoundInv' /\ (Offsets = {0} => DataInv')
<1> DEFINE SI == "SYNC_INFO"
           SD == "SYNC_DONE"
<1>0. /\ s2a \in [Arbiters -> Seq(Message)] /\ a2s \in [Arbiters -> Seq(Message)]
      /\ opqueue \in Seq(Arbiters) /\ mem \in [Arbiters -> [Offsets -> Values]]
  BY DEF TypeOK, NetTypeOK, ServerTypeOK
<1>1. PICK m : m = Head(s2a[a])
  OBVIOUS
<1>2. /\ s2a[a] # << >> /\ m \in Message /\ m.type = SI /\ s2a' = Consume(s2a, a)
      /\ mem' = [mem EXCEPT ![a][0] = m.buf] /\ UNCHANGED <<arbState, p2a, a2p>>
  BY <1>0, <1>1, ChannelTypes, ArbApplySync(a) DEF ArbApplySync, FromServer, Waiting
<1>3. In(s2a, a, m) /\ Updating(a)
  BY <1>0, <1>1, <1>2, HasIn DEF Updating
<1>4. /\ step = "WAITING_SYNC_ACK" /\ started /\ opqueue # << >> /\ ~Acking(a)
      /\ Offsets = {0} => m.buf = Value(Head(opqueue))
      /\ Head(opqueue) \in Arbiters
  <2>1. step = "WAITING_SYNC_ACK" /\ started /\ opqueue # << >> /\ ~Acking(a)
    BY <1>3 DEF RoundInv, StepMatchesQueue
  <2> QED BY <1>0, <1>2, <1>3, <2>1, SeqTypes DEF DataInv
<1>5. /\ UNCHANGED <<step, opqueue, started, nproc_synced>>
  BY DEF serverVars, writeVars
<1>6. /\ \A b \in Arbiters : b # a => Value(b)' = Value(b)
      /\ Value(a)' = m.buf
  BY <1>0, <1>2, OffsetAssumption DEF Value
<1>7. Offsets = {0} => Value(Head(opqueue))' = Value(Head(opqueue))
  <2>1. PICK h \in Arbiters : h = Head(opqueue) /\ h = Head(opqueue')
    BY <1>4, <1>5
  <2>2. Offsets = {0} => Value(h)' = Value(h)
    BY <1>4, <1>6, <2>1
  <2> QED BY <2>1, <2>2 DEF Value
<1>8. PICK n \in Nat : n = NLocal(a) /\ n <= Cardinality(Local(a))
  BY LocalFits
<1>9. PICK d \in Message : /\ d.type = SD /\ d.nproc <= Cardinality(Local(a))
                           /\ a2s' = SendAll(a2s, {a}, d)
  <2>1. a2s' = Send(a2s, a, Done(SD, n)) /\ Done(SD, n).type = SD /\ Done(SD, n).nproc = n
    BY <1>8, ArbApplySync(a) DEF ArbApplySync, Done
  <2>2. Send(a2s, a, Done(SD, n)) = SendAll(a2s, {a}, Done(SD, n))
    BY <1>0 DEF Send, SendAll
  <2>3. Done(SD, n) \in Message
    BY MessageTypes
  <2> QED BY <1>8, <2>1, <2>2, <2>3
<1>10. \A b \in Arbiters : /\ Updating(b)' => Updating(b)
                           /\ b # a => (Updating(b) => Updating(b)')
                           /\ Once(s2a', b, SI)
                           /\ \A x : In(s2a', b, x) => In(s2a, b, x)
  <2>1. \A b \in Arbiters : Once(s2a, b, SI)
    BY DEF RoundInv
  <2>2. \A b \in Arbiters : (Has(Consume(s2a, a), b, SI) => Has(s2a, b, SI)) /\ Once(Consume(s2a, a), b, SI)
    BY <1>0, <1>2, <2>1, ConsumeHas
  <2>3. \A b \in Arbiters : b # a => Consume(s2a, a)[b] = s2a[b]
    BY <1>0 DEF Consume
  <2>4. \A b \in Arbiters : \A x : In(Consume(s2a, a), b, x) => In(s2a, b, x)
    BY <1>0, <1>2, ConsumeIn
  <2>5. \A b \in Arbiters : Updating(b)' <=> Has(s2a', b, SI)
    BY DEF Updating, Has
  <2>6. \A b \in Arbiters : b # a => (Has(s2a, b, SI) => Has(Consume(s2a, a), b, SI))
    BY <2>3 DEF Has
  <2> QED BY <1>2, <2>2, <2>4, <2>5, <2>6 DEF Updating
<1>11. ~Updating(a)'
  <2>1. ~Has(Consume(s2a, a), a, SI)
    BY <1>0, <1>1, <1>2, ConsumeHas DEF RoundInv
  <2> QED BY <1>2, <2>1 DEF Updating, Has
<1>12. \A b \in Arbiters : /\ Acking(b)' <=> Acking(b) \/ b = a
                           /\ Once(a2s', b, SD)
                           /\ \A x : In(a2s', b, x) => In(a2s, b, x) \/ (b = a /\ x = d)
  <2>0. a2s \in [Arbiters -> Seq(Message)]
    BY <1>0
  <2>1. ASSUME NEW b \in Arbiters
        PROVE  /\ Has(a2s', b, SD) <=> Has(a2s, b, SD) \/ b = a
               /\ Once(a2s', b, SD)
    <3>1. Once(a2s, b, SD) /\ ~(b = a /\ Has(a2s, b, SD))
      BY <1>4 DEF RoundInv, Acking
    <3>2. /\ Has(SendAll(a2s, {a}, d), b, SD) <=> Has(a2s, b, SD) \/ (b \in {a} /\ d.type = SD)
          /\ Once(a2s, b, SD) /\ ~(b \in {a} /\ d.type = SD /\ Has(a2s, b, SD))
               => Once(SendAll(a2s, {a}, d), b, SD)
      BY <2>0, SendAllHas
    <3> QED BY <1>9, <3>1, <3>2
  <2>2. ASSUME NEW b \in Arbiters, NEW x, In(a2s', b, x)
        PROVE  In(a2s, b, x) \/ (b = a /\ x = d)
    <3>1. In(SendAll(a2s, {a}, d), b, x) <=> In(a2s, b, x) \/ (b \in {a} /\ x = d)
      BY <2>0, SendAllIn
    <3> QED BY <1>9, <2>2, <3>1
  <2>3. \A b \in Arbiters : Acking(b)' <=> Has(a2s', b, SD)
    BY DEF Acking, Has
  <2> QED BY <2>1, <2>2, <2>3 DEF Acking
<1>13. RoundInv'
  <2>1. \A b \in Arbiters : ~(Updating(b)' /\ Acking(b)')
    BY <1>10, <1>11, <1>12 DEF RoundInv
  <2>2. Counted' = Counted
    <3>1. \A b \in Arbiters : (~Updating(b) /\ ~Acking(b)) <=> (~Updating(b)' /\ ~Acking(b)')
      BY <1>3, <1>10, <1>11, <1>12
    <3> QED BY <3>1, HomeAssumption DEF Counted
  <2>3. \A b \in Arbiters : \A x : In(a2s', b, x) /\ x.type = SD => x.nproc <= Cardinality(Local(b))
    BY <1>9, <1>12 DEF RoundInv
  <2>4. nproc_synced' <= Cardinality(Counted')
    BY <1>4, <1>5, <2>2 DEF RoundInv
  <2> QED BY <1>4, <1>5, <1>10, <1>12, <2>1, <2>3, <2>4, RoundMade
<1>14. ASSUME Offsets = {0} PROVE DataInv'
  <2>1. ~Calm'
    BY <1>4, <1>5, FreshIsGrant DEF Calm
  <2>2. \A b \in Arbiters : \A x : In(a2s', b, x) => x.type # SI
    <3>1. \A b \in Arbiters : ~Has(a2s, b, SI)
      BY <1>4 DEF GrantInv, InOrder, Returned, OnTurn
    <3>2. \A b \in Arbiters : \A x : In(a2s, b, x) => x.type # SI
      BY <3>1 DEF Has, In
    <3> QED BY <1>9, <1>12, <3>2
  <2>3. \A p \in Procs : \A x : In(p2a', p, x) => x.type # SI
    <3>1. \A p \in Procs : ~Has(p2a, p, SI)
      BY <1>4 DEF GrantInv, InOrder, Returning, Holds, OnTurn
    <3> QED BY <1>2, <3>1 DEF Has, In
  <2>4. \A b \in Arbiters :
          /\ \A x : In(s2a', b, x) /\ x.type = SI => x.buf = Value(Head(opqueue))'
          /\ Live(b)' /\ ~Updating(b)' => Value(b)' = Value(Head(opqueue))'
    <3>1. \A b \in Arbiters : \A x : In(s2a', b, x) /\ x.type = SI => x.buf = Value(Head(opqueue))'
      BY <1>4, <1>7, <1>10, <1>14 DEF DataInv
    <3>2. ASSUME NEW b \in Arbiters, Live(b)', ~Updating(b)' PROVE Value(b)' = Value(Head(opqueue))
      <4>1. CASE b = a
        BY <1>4, <1>6, <1>14, <4>1
      <4>2. CASE b # a
        <5>1. Live(b) /\ ~Updating(b)
          BY <1>2, <1>10, <3>2, <4>2 DEF Live
        <5> QED BY <1>4, <1>6, <1>14, <4>2, <5>1 DEF DataInv
      <4> QED BY <4>1, <4>2
    <3> QED BY <1>7, <1>14, <3>1, <3>2
  <2> QED BY <2>1, <2>2, <2>3, <2>4 DEF DataInv, In
<1> QED BY <1>13, <1>14

(* The writer stores: nobody has the data yet, and nobody else may store.  *)
LEMMA RoundStore ==
  ASSUME TypeOK, GrantInv, RoundInv, Offsets = {0} => DataInv, NEW p \in Procs, ProcStore(p),
         UNCHANGED <<serverVars, arbVars, a2s, s2a>>
  PROVE  RoundInv' /\ (Offsets = {0} => DataInv')
<1>1. UNCHANGED <<a2s, s2a, p2a, a2p, step, started, opqueue, nproc_synced>>
  BY DEF ProcStore, serverVars, writeVars
<1>2. Holds(p) /\ step = "WAITING_SYNC_INFO"
  BY DEF ProcStore, Holds, Writable, GrantInv, InOrder, OnTurn
<1>3. /\ \A a \in Arbiters : ~Sent(a) /\ ~Returned(a)
      /\ \A q \in Procs : Holds(q) => q = p
      /\ ~Passed(p) /\ ~Returning(p)
  <2>1. /\ \A a \in Arbiters : ~Sent(a) /\ ~Returned(a)
        /\ \A q \in Procs : Holds(q) => q = p
    BY <1>2, OneGrant
  <2>2. Writable(p)
    BY DEF ProcStore, Writable
  <2> QED BY <1>2, <2>1, <2>2 DEF GrantInv, Apart
<1>4. RoundInv'
  BY <1>1 DEF RoundInv, Updating, Acking, Counted, Has, Once, In, Local
<1>5. \A a \in Arbiters : \A m : In(a2s', a, m) => m.type # "SYNC_INFO"
  BY <1>1, <1>3 DEF Returned, Has, In
<1>6. \A q \in Procs : \A m : In(p2a', q, m) => m.type # "SYNC_INFO"
  BY <1>1, <1>3 DEF Returning, Holds, Has, In
<1>7. ~Calm'
  <2>1. \A a \in Arbiters : ~Sent(a)'
    BY <1>1, <1>3 DEF Sent, Has
  <2>2. \A q \in Procs : ~Passed(q)'
    BY <1>1, <1>3 DEF Passed, Holds, Has
  <2>3. \A q \in Procs : loc'[q] # "store"
    <3>1. \A q \in Procs : loc[q] = "store" => q = p
      BY <1>3 DEF Holds, Writable
    <3>2. loc' = [loc EXCEPT ![p] = "sigill"] /\ loc \in [Procs -> Locations]
      BY DEF ProcStore, Goto, TypeOK, ProcessTypeOK
    <3> QED BY <3>1, <3>2
  <2> QED BY <1>1, <1>2, <2>1, <2>2, <2>3 DEF Calm, Fresh
<1>8. DataInv'
  BY <1>1, <1>2, <1>5, <1>6, <1>7 DEF DataInv, In
<1> QED BY <1>4, <1>8

(* The steps of the processes.                                             *)
LEMMA RoundProcess ==
  ASSUME TypeInv, GrantInv, RoundInv, Offsets = {0} => DataInv,
         NEW p \in Procs, ProcessStep(p) \/ ProcKilled(p),
         UNCHANGED <<serverVars, arbVars, a2s, s2a>>
  PROVE  RoundInv' /\ (Offsets = {0} => DataInv')
<1>0. /\ p2a \in [Procs -> Seq(Message)] /\ a2p \in [Procs -> Seq(Message)]
      /\ TypeOK
  BY DEF TypeInv, TypeOK, NetTypeOK
<1>1. CASE ProcStore(p)
  BY <1>0, <1>1, RoundStore
<1>2. CASE ~ProcStore(p)
  <2>1. /\ UNCHANGED mem
        /\ \A q \in Procs : q # p => loc'[q] = loc[q]
        /\ loc'[p] = "store" => loc[p] = "store" \/ (a2p[p] # << >> /\ Head(a2p[p]).type = "WRITE_OKAY")
        /\ \E S : \E x \in Message :
             /\ p2a' = SendAll(p2a, S, x) /\ S \subseteq {p}
             /\ x.type = "SYNC_INFO" => \E o \in Offsets : x.buf = mem[Home[p]][o]
    BY <1>2, ProcWrites
  <2>2. UNCHANGED a2p \/ (a2p[p] # << >> /\ a2p' = Consume(a2p, p))
    BY ProcEffect
  <2>3. UNCHANGED <<step, opqueue, started, nproc_synced, arbState>>
    BY DEF serverVars, writeVars, arbVars
  <2>4. PICK S : \E x \in Message :
               /\ p2a' = SendAll(p2a, S, x) /\ S \subseteq {p}
               /\ Offsets = {0} /\ x.type = "SYNC_INFO" => x.buf = Value(Home[p])
    BY <2>1 DEF Value
  <2>5. PICK x \in Message :
               /\ p2a' = SendAll(p2a, S, x) /\ S \subseteq {p}
               /\ Offsets = {0} /\ x.type = "SYNC_INFO" => x.buf = Value(Home[p])
    BY <2>4
  <2>6. ASSUME Offsets = {0}, NEW q \in Procs, NEW m, In(p2a', q, m), m.type = "SYNC_INFO"
        PROVE  In(p2a, q, m) \/ m.buf = Value(Home[q])
    <3>0. p2a \in [Procs -> Seq(Message)]
      BY <1>0
    <3>1. In(SendAll(p2a, S, x), q, m) => In(p2a, q, m) \/ (q \in S /\ m = x)
      BY <3>0, SendAllMore
    <3> QED BY <2>5, <2>6, <3>1
  <2>7. Fresh' => Fresh
    <3>1. \A q \in Procs : Has(a2p', q, "WRITE_OKAY") => Has(a2p, q, "WRITE_OKAY")
      BY <1>0, <2>2, ConsumeLess
    <3>2. loc'[p] = "store" => loc[p] = "store" \/ Passed(p)
      <4>1. a2p[p] # << >> /\ Head(a2p[p]).type = "WRITE_OKAY" => Has(a2p, p, "WRITE_OKAY")
        BY <1>0, ConsumeHas
      <4> QED BY <2>1, <4>1 DEF Passed
    <3>3. \A q \in Procs : Passed(q)' => Passed(q)
      BY <3>1 DEF Passed, Has
    <3>4. \A q \in Procs : loc'[q] = "store" => loc[q] = "store" \/ Passed(q)
      BY <2>1, <3>2
    <3>5. \A a \in Arbiters : Sent(a)' <=> Sent(a)
      BY DEF Sent, Has
    <3> QED BY <3>3, <3>4, <3>5 DEF Fresh
  <2>8. Calm' => Calm
    BY <2>3, <2>7 DEF Calm
  <2>9. Same(s2a, s2a', Arbiters, "SYNC_INFO") /\ Same(a2s, a2s', Arbiters, "SYNC_DONE")
    BY SameChannel
  <2>10. \A a \in Arbiters : ~Live(a) => ~Live(a)'
    BY <2>3 DEF Live
  <2>11. step' # "READY" => started'
    BY <2>3 DEF RoundInv
  <2> QED BY <2>1, <2>3, <2>6, <2>8, <2>9, <2>10, <2>11, RoundKept
<1> QED BY <1>1, <1>2

(* The steps of the arbiters.                                              *)
LEMMA RoundArbiter ==
  ASSUME TypeOK, TypeOK', PlaceInv, ListInv, GrantInv, GrantInv', StepMatchesQueue,
         RoundInv, Offsets = {0} => DataInv, NEW a \in Arbiters, ArbiterStep(a),
         UNCHANGED <<serverVars, procVars>>
  PROVE  RoundInv' /\ (Offsets = {0} => DataInv')
<1>0. /\ a2s \in [Arbiters -> Seq(Message)] /\ s2a \in [Arbiters -> Seq(Message)]
      /\ p2a \in [Procs -> Seq(Message)] /\ a2p \in [Procs -> Seq(Message)]
  BY DEF TypeOK, NetTypeOK
<1>1. CASE ArbApplySync(a)
  BY <1>1, RoundApply
<1>2. CASE ~ArbApplySync(a)
  <2>1. /\ UNCHANGED mem
        /\ \A b \in Arbiters : ~Live(b) => ~Live(b)'
        /\ \E S : \E x \in Message :
             /\ a2s' = SendAll(a2s, S, x) /\ S \subseteq {a} /\ x.type # "SYNC_DONE"
             /\ x.type = "PRGM_DONE" => ~Live(a)'
             /\ x.type = "SYNC_INFO" =>
                  \E p \in Procs : Home[p] = a /\ p2a[p] # << >> /\ x = Head(p2a[p])
        /\ \/ UNCHANGED s2a
           \/ s2a[a] # << >> /\ Head(s2a[a]).type # "SYNC_INFO" /\ s2a' = Consume(s2a, a)
        /\ \/ UNCHANGED p2a
           \/ \E p \in Procs : p2a[p] # << >> /\ p2a' = Consume(p2a, p)
        /\ \E S : \E x \in Message :
             /\ a2p' = SendAll(a2p, S, x)
             /\ x.type = "WRITE_OKAY" => s2a[a] # << >> /\ Head(s2a[a]).type = "WRITE_OKAY"
    BY <1>2, ArbiterEffect
  <2>2. UNCHANGED <<step, opqueue, started, nproc_synced, loc>>
    BY DEF serverVars, writeVars, procVars
  <2>3. Same(s2a, s2a', Arbiters, "SYNC_INFO")
    <3>1. UNCHANGED s2a => Same(s2a, s2a', Arbiters, "SYNC_INFO")
      BY SameChannel
    <3>2. ASSUME s2a[a] # << >>, Head(s2a[a]).type # "SYNC_INFO", s2a' = Consume(s2a, a)
          PROVE  Same(s2a, s2a', Arbiters, "SYNC_INFO")
      BY <1>0, <3>2, ConsumeSame
    <3> QED BY <2>1, <3>1, <3>2
  <2>4. PICK S : \E x \in Message :
             /\ a2s' = SendAll(a2s, S, x) /\ S \subseteq {a} /\ x.type # "SYNC_DONE"
             /\ x.type = "SYNC_INFO" =>
                  \E p \in Procs : Home[p] = a /\ p2a[p] # << >> /\ x = Head(p2a[p])
    BY <2>1
  <2>5. PICK x \in Message :
             /\ a2s' = SendAll(a2s, S, x) /\ S \subseteq {a} /\ x.type # "SYNC_DONE"
             /\ x.type = "SYNC_INFO" =>
                  \E p \in Procs : Home[p] = a /\ p2a[p] # << >> /\ x = Head(p2a[p])
    BY <2>4
  <2>6. Same(a2s, a2s', Arbiters, "SYNC_DONE")
    <3>1. Same(a2s, SendAll(a2s, S, x), Arbiters, "SYNC_DONE")
      BY <1>0, <2>5, SendSame
    <3> QED BY <2>5, <3>1
  <2>7. ASSUME Offsets = {0}, NEW b \in Arbiters, NEW m, In(a2s', b, m), m.type = "SYNC_INFO"
        PROVE  In(a2s, b, m) \/ m.buf = Value(b)
    <3>0. a2s \in [Arbiters -> Seq(Message)]
      BY <1>0
    <3>1. In(SendAll(a2s, S, x), b, m) => In(a2s, b, m) \/ (b \in S /\ m = x)
      BY <3>0, SendAllMore
    <3>2. CASE In(a2s, b, m)
      BY <3>2
    <3>3. CASE b = a /\ m = x
      <4>1. PICK p \in Procs : Home[p] = a /\ p2a[p] # << >> /\ x = Head(p2a[p])
        BY <2>5, <2>7, <3>3
      <4>2. In(p2a, p, x)
        BY <1>0, <4>1, HasIn
      <4> QED BY <2>7, <3>3, <4>1, <4>2 DEF DataInv
    <3> QED BY <2>5, <2>7, <3>1, <3>2, <3>3
  <2>8. \A p \in Procs : \A m : In(p2a', p, m) => In(p2a, p, m)
    BY <1>0, <2>1, ConsumeLess
  <2>9. Calm' => Calm
    <3>1. PICK G : \E y \in Message :
                    /\ a2p' = SendAll(a2p, G, y)
                    /\ y.type = "WRITE_OKAY" => s2a[a] # << >> /\ Head(s2a[a]).type = "WRITE_OKAY"
      BY <2>1
    <3>2. PICK y \in Message :
                    /\ a2p' = SendAll(a2p, G, y)
                    /\ y.type = "WRITE_OKAY" => s2a[a] # << >> /\ Head(s2a[a]).type = "WRITE_OKAY"
      BY <3>1
    <3>3. \A p \in Procs : Has(SendAll(a2p, G, y), p, "WRITE_OKAY")
                              => Has(a2p, p, "WRITE_OKAY") \/ y.type = "WRITE_OKAY"
      <4>1. a2p \in [Procs -> Seq(Message)]
        BY <1>0
      <4> QED BY <4>1, SendAllMore
    <3>4. s2a[a] # << >> /\ Head(s2a[a]).type = "WRITE_OKAY" => Sent(a)
      <4>1. s2a \in [Arbiters -> Seq(Message)]
        BY <1>0
      <4> QED BY <4>1, ConsumeLess DEF Sent
    <3>5. \A p \in Procs : Passed(p)' => Passed(p) \/ Sent(a)
      <4>1. \A p \in Procs : /\ Passed(p)' <=> Has(a2p', p, "WRITE_OKAY")
                             /\ Passed(p) <=> Has(a2p, p, "WRITE_OKAY")
        BY DEF Passed, Has
      <4>2. \A p \in Procs : Has(a2p', p, "WRITE_OKAY") => Has(a2p, p, "WRITE_OKAY") \/ y.type = "WRITE_OKAY"
        BY <3>2, <3>3
      <4>3. y.type = "WRITE_OKAY" => Sent(a)
        BY <3>2, <3>4
      <4> QED BY <4>1, <4>2, <4>3
    <3>6. \A b \in Arbiters : Has(s2a', b, "WRITE_OKAY") => Has(s2a, b, "WRITE_OKAY")
      <4>1. s2a \in [Arbiters -> Seq(Message)]
        BY <1>0
      <4>2. UNCHANGED s2a \/ (s2a[a] # << >> /\ s2a' = Consume(s2a, a))
        BY <2>1
      <4>3. CASE UNCHANGED s2a
        BY <4>3
      <4>4. CASE s2a[a] # << >> /\ s2a' = Consume(s2a, a)
        <5>1. \A b \in Arbiters : Has(Consume(s2a, a), b, "WRITE_OKAY") => Has(s2a, b, "WRITE_OKAY")
          BY <4>1, <4>4, ConsumeLess
        <5> QED BY <4>4, <5>1
      <4> QED BY <4>2, <4>3, <4>4
    <3>7. \A b \in Arbiters : Sent(b)' => Sent(b)
      BY <3>6 DEF Sent, Has
    <3> QED BY <2>2, <3>5, <3>7 DEF Calm, Fresh
  <2>10. step' # "READY" => started'
    BY <2>2 DEF RoundInv
  <2> QED BY <2>1, <2>2, <2>3, <2>6, <2>7, <2>8, <2>9, <2>10, RoundKept
<1> QED BY <1>1, <1>2

(* Every step of the session keeps both invariants.                        *)
LEMMA RoundStep ==
  ASSUME TypeInv, TypeOK', PlaceInv, ListInv, StepMatchesQueue, CountInv, LinkInv,
         GrantInv, GrantInv', RoundInv, Offsets = {0} => DataInv, [Next]_vars
  PROVE  RoundInv' /\ (Offsets = {0} => DataInv')
<1>0. TypeOK
  BY DEF TypeInv
<1>1. ASSUME UNCHANGED <<channels, mem, serverVars>>,
             \A q \in Procs : loc'[q] = "store" => loc[q] = "store",
             \A a \in Arbiters : ~Live(a) => ~Live(a)'
      PROVE  RoundInv' /\ (Offsets = {0} => DataInv')
  <2>1. UNCHANGED <<a2s, s2a, p2a, a2p, mem, step, opqueue, started, nproc_synced>>
    BY <1>1 DEF channels, serverVars, writeVars
  <2>2. /\ Same(s2a, s2a', Arbiters, "SYNC_INFO") /\ Same(a2s, a2s', Arbiters, "SYNC_DONE")
        /\ step' # "READY" => started'
    BY <2>1, SameChannel DEF RoundInv
  <2>3. Calm' => Calm
    BY <1>1, <2>1 DEF Calm, Fresh, Sent, Passed, Has
  <2> QED BY <1>1, <2>1, <2>2, <2>3, RoundKept
<1>2. ASSUME NEW a \in Arbiters, ServerActs(a) PROVE RoundInv' /\ (Offsets = {0} => DataInv')
  <2>1. CASE ServerStep(a) /\ UNCHANGED <<arbVars, procVars, p2a, a2p, signals, mem>>
    <3>1. CASE SrvSyncInfo(a)
      BY <1>0, <2>1, <3>1, RoundSyncInfo
    <3>2. CASE SrvSyncDone(a)
      BY <1>0, <2>1, <3>2, RoundSyncDone
    <3>3. CASE ~SrvSyncInfo(a) /\ ~SrvSyncDone(a)
      BY <1>0, <2>1, <3>3, RoundServerOrdinary
    <3> QED BY <3>1, <3>2, <3>3
  <2>2. CASE ServerLosesArbiter(a)
    <3>1. UNCHANGED <<a2s, s2a, p2a, a2p, mem, step, opqueue, started, nproc_synced, loc, arbState>>
      BY <2>2 DEF ServerLosesArbiter, netVars, channels, writeVars, procVars, arbVars
    <3>2. /\ Same(s2a, s2a', Arbiters, "SYNC_INFO") /\ Same(a2s, a2s', Arbiters, "SYNC_DONE")
          /\ step' # "READY" => started'
      BY <3>1, SameChannel DEF RoundInv
    <3>3. (Calm' => Calm) /\ \A b \in Arbiters : ~Live(b) => ~Live(b)'
      BY <3>1 DEF Calm, Fresh, Sent, Passed, Has, Live
    <3> QED BY <3>1, <3>2, <3>3, RoundKept
  <2> QED BY <1>2, <2>1, <2>2 DEF ServerActs
<1>3. ASSUME NEW a \in Arbiters, ArbiterActs(a) PROVE RoundInv' /\ (Offsets = {0} => DataInv')
  <2>1. CASE ArbiterStep(a) /\ UNCHANGED <<serverVars, procVars>>
    BY <1>0, <2>1, RoundArbiter
  <2>2. CASE ArbiterLosesServer(a) \/ \E p \in Procs : ArbiterLosesProcess(a, p)
    <3>1. /\ UNCHANGED <<channels, mem, serverVars, loc>>
          /\ arbState[a] = "up" /\ arbState' = [arbState EXCEPT ![a] = "panic"]
      BY <2>2 DEF ArbiterLosesServer, ArbiterLosesProcess, netVars, procVars
    <3>2. \A b \in Arbiters : ~Live(b) => ~Live(b)'
      BY <1>0, <3>1 DEF Live, TypeOK, ArbiterTypeOK
    <3> QED BY <1>1, <3>1, <3>2
  <2> QED BY <1>3, <2>1, <2>2 DEF ArbiterActs
<1>4. ASSUME NEW p \in Procs, ProcessActs(p) \/ Kill(p) PROVE RoundInv' /\ (Offsets = {0} => DataInv')
  <2>1. CASE (ProcessStep(p) \/ ProcKilled(p)) /\ UNCHANGED <<serverVars, arbVars, a2s, s2a>>
    BY <2>1, RoundProcess
  <2>2. CASE ProcessLosesArbiter(p)
    <3>1. UNCHANGED <<channels, mem, serverVars, arbState>> /\ Goto(p, "panic")
      BY <2>2 DEF ProcessLosesArbiter, netVars, arbVars
    <3>2. \A q \in Procs : loc'[q] = "store" => loc[q] = "store"
      BY <1>0, <3>1 DEF Goto, TypeOK, ProcessTypeOK
    <3> QED BY <1>1, <3>1, <3>2 DEF Live
  <2> QED BY <1>4, <2>1, <2>2 DEF ProcessActs, Kill
<1>5. CASE UNCHANGED vars
  BY <1>1, <1>5 DEF vars, netVars, arbVars, procVars, Live
<1> QED BY <1>2, <1>3, <1>4, <1>5, KillableAssumption DEF Next

-----------------------------------------------------------------------------
PageInv == RegistrationInv /\ GrantInv /\ ListInv /\ LinkInv /\ RoundInv /\ DataInv

(* What is wanted follows from the invariant.                              *)
LEMMA PagesFollow == ASSUME TypeOK, DataInv, Offsets = {0} PROVE PagesAgree
<1> SUFFICES ASSUME Quiet, NEW a \in Arbiters, NEW b \in Arbiters,
                    arbState[a] = "up", arbState[b] = "up"
             PROVE  mem[a] = mem[b]
  BY DEF PagesAgree
<1>1. Calm /\ Live(a) /\ Live(b)
  BY DEF Quiet, Calm, Fresh, Live
<1>2. mem[a][0] = mem[b][0]
  BY <1>1 DEF DataInv, Value
<1>3. mem[a] \in [{0} -> Values] /\ mem[b] \in [{0} -> Values]
  BY DEF TypeOK, NetTypeOK
<1> QED BY <1>2, <1>3

(* The inductive invariant holds in every reachable state, when programs   *)
(* store at the start of the page only.                                    *)
THEOREM PageInvariant == Offsets = {0} => (Spec => [](TypeInv /\ PlaceInv /\ StepMatchesQueue /\ PageInv))
<1> SUFFICES ASSUME Offsets = {0} PROVE Spec => [](TypeInv /\ PlaceInv /\ StepMatchesQueue /\ PageInv)
  OBVIOUS
<1> DEFINE I == TypeInv /\ PlaceInv /\ StepMatchesQueue /\ PageInv
<1>1. Init => I
  <2>1. Init => StepMatchesQueue
    BY NProcType DEF Init, ServerInit, StepMatchesQueue, NProc
  <2> QED BY <2>1, TypeInit, PlaceInit, RegistrationInit, GrantInit, ListInit, LinkInit, RoundInit DEF PageInv
<1>2. I /\ [Next]_vars => I'
  <2> SUFFICES ASSUME I, [Next]_vars PROVE I'
    OBVIOUS
  <2>1. TypeInv' /\ PlaceInv' /\ StepMatchesQueue'
    BY TypeStep, PlaceStep, MatchesStep
  <2>2. RegistrationInv' /\ GrantInv' /\ ListInv' /\ LinkInv'
    BY RegistrationStep, GrantStep, ListStep, LinkStep DEF PageInv
  <2>3. TypeOK' /\ CountInv
    BY <2>1 DEF TypeInv, PageInv, RegistrationInv
  <2>4. RoundInv' /\ DataInv'
    BY <2>2, <2>3, RoundStep DEF PageInv
  <2> QED BY <2>1, <2>2, <2>4 DEF PageInv
<1> QED BY <1>1, <1>2, PTL DEF Spec

(* Outside a write, and whenever a writer has just been let in, all        *)
(* machines still in the session have the same page (dsm_server.c and      *)
(* dsm_arbiter.c, msg_syncInfo and msg_syncDone), for any number of        *)
(* machines and processes.                                                 *)
THEOREM PagesStayEqual == Offsets = {0} => (Spec => []PagesAgree)
<1> SUFFICES ASSUME Offsets = {0} PROVE Spec => []PagesAgree
  OBVIOUS
<1>1. TypeInv /\ PageInv => PagesAgree
  BY PagesFollow DEF TypeInv, PageInv
<1>2. Spec => [](TypeInv /\ PlaceInv /\ StepMatchesQueue /\ PageInv)
  BY PageInvariant
<1> QED BY <1>1, <1>2, PTL
=============================================================================
