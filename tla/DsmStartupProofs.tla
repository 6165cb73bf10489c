--------------------------- MODULE DsmStartupProofs ---------------------------
(***************************************************************************)
(* Start-up on one machine, for any number of processes: one of them forks *)
(* the arbiter, nobody connects before it listens, and the shared file is  *)
(* left alone once the session runs.                                       *)
(*                                                                         *)
(* Two invariants.  RaceInv follows the race for the file: its name stays  *)
(* until the session starts, and by then every process is past the race.   *)
(* ListenInv follows the arbiter: until the winner has forked it there is  *)
(* none, and what is posted is posted by one that listens.                 *)
(***************************************************************************)
EXTENDS DsmStartup, TLAPS

TypeInv == TypeOK /\ sem_start <= posts

RaceInv ==
  /\ \A p \in Procs : first[p] => loc[p] \notin {"getSem", "getSharedFile"}
  /\ \A p \in Procs : first[p] /\ ~started => "dsm_file" \in names
  /\ \A p \in Procs : loc[p] = "initMap" => first[p]
  /\ started => Registered = Procs
  /\ OneArbiter

Winning == {"setSize", "map", "zero", "initMap"}
ListenInv ==
  /\ arb # "none" => \E p \in Procs : first[p]
  /\ \A p \in Procs : first[p] /\ loc[p] \in Winning => arb = "none"
  /\ posts > 0 => arb = "listening"
  /\ ListenerReady

(* The steps that only move a process on.                                  *)
LEMMA MoveFacts ==
  ASSUME TypeOK, NEW p \in Procs, NEW from, NEW to \in Locations, Move(p, from, to)
  PROVE  /\ loc[p] = from /\ loc'[p] = to
         /\ loc' \in [Procs -> Locations]
         /\ \A q \in Procs : q # p => loc'[q] = loc[q]
BY DEF TypeOK, Move

-----------------------------------------------------------------------------
(* Types.  The semaphore never exceeds what the arbiter has posted.        *)
LEMMA TypeInit == Init => TypeInv
<1> SUFFICES ASSUME Init PROVE TypeInv
  OBVIOUS
<1>1. NProc \in Nat
  BY StartupAssumption
<1>2. loc \in [Procs -> Locations]
  BY DEF Init, Locations
<1>3. /\ first \in [Procs -> BOOLEAN]
      /\ size \in [Procs -> {0, DSM_SHM_FILE_SIZE}]
      /\ page \in [Procs -> {-1, 0, 1}]
  BY DEF Init
<1>4. names \subseteq {"dsm_start", "dsm_file"}
  BY DEF Init
<1>5. sem_start \in 0 .. NProc /\ posts \in 0 .. NProc
  BY <1>1 DEF Init
<1>6. /\ fileSize \in {0, DSM_SHM_FILE_SIZE} /\ data_off \in {0, 1}
      /\ arb \in {"none", "setup", "listening"}
      /\ sem_start <= posts
  BY DEF Init
<1>7. started \in BOOLEAN
  BY DEF Init
<1>8. TypeOK
  BY <1>2, <1>3, <1>4, <1>5, <1>6, <1>7 DEF TypeOK
<1> QED
  BY <1>6, <1>8 DEF TypeInv

LEMMA TypeStep == TypeInv /\ [Next]_vars => TypeInv'
<1> SUFFICES ASSUME TypeInv, [Next]_vars
             PROVE  TypeInv'
  OBVIOUS
<1> USE StartupAssumption DEF TypeInv, TypeOK
<1>1. ASSUME NEW p \in Procs, ProcStep(p)
      PROVE  TypeInv'
  <2>1. CASE GetSem(p)
    BY <2>1 DEF GetSem, Move, Locations, arbiter
  <2>2. CASE GetSharedFile(p)
    BY <2>2 DEF GetSharedFile, Move, Locations, Creates, arbiter
  <2>3. CASE SetSize(p)
    BY <2>3 DEF SetSize, Move, Locations, DSM_SHM_FILE_SIZE, arbiter
  <2>4. CASE Map(p)
    BY <2>4 DEF Map, Move, Locations, shared, arbiter
  <2>5. CASE Zero(p)
    BY <2>5 DEF Zero, Move, Locations, arbiter
  <2>6. CASE InitMap(p)
    BY <2>6 DEF InitMap, Move, Locations
  <2>7. CASE Down(p)
    BY <2>7 DEF Down, Move, Locations, arbiter
  <2>8. CASE Connect(p)
    BY <2>8 DEF Connect, Move, Locations, shared, arbiter
  <2>9. CASE RecvGid(p)
    BY <2>9 DEF RecvGid, Move, Locations, shared, arbiter
  <2>10. CASE Protect(p)
    BY <2>10 DEF Protect, Move, Locations, shared, arbiter
  <2>11. CASE RecvWaitDone(p)
    BY <2>11 DEF RecvWaitDone, Move, Locations, shared, arbiter
  <2> QED
    BY <1>1, <2>1, <2>2, <2>3, <2>4, <2>5, <2>6, <2>7, <2>8, <2>9, <2>10, <2>11
    DEF ProcStep
<1>2. CASE ArbListen
  BY <1>2 DEF ArbListen, shared
<1>3. CASE ArbPost
  BY <1>3 DEF ArbPost, MorePosts
<1>4. CASE ArbStart
  BY <1>4 DEF ArbStart
<1>5. CASE UNCHANGED vars
  BY <1>5 DEF vars
<1> QED
  BY <1>1, <1>2, <1>3, <1>4, <1>5 DEF Next, ArbStep

(* Every variable of the start-up has its type, for every set of processes.*)
THEOREM StartupTypes == Spec => []TypeOK
<1>1. TypeInv => TypeOK
  BY DEF TypeInv
<1> QED
  BY <1>1, TypeInit, TypeStep, PTL DEF Spec

-----------------------------------------------------------------------------
(* The race for the file.                                                  *)
LEMMA RaceInit == Init => RaceInv
BY DEF Init, RaceInv, OneArbiter, Registered

(* A process that has registered stays registered.                         *)
LEMMA StaysRegistered ==
  ASSUME TypeInv, started => Registered = Procs,
         NEW p \in Procs, ProcStep(p), started
  PROVE  /\ GetSem(p) \/ GetSharedFile(p) \/ SetSize(p) \/ Zero(p) \/ InitMap(p) => FALSE
         /\ started' /\ Registered' = Procs
<1>1. \A q \in Procs : loc[q] \in {"recv_gid", "protect", "recv_waitDone", "ready"}
  BY DEF Registered
<1>2. RecvGid(p) \/ Protect(p) \/ RecvWaitDone(p)
  BY <1>1 DEF ProcStep, GetSem, GetSharedFile, SetSize, Map, Zero, InitMap, Down, Connect, Move
<1>3. started' = started
  BY <1>2 DEF RecvGid, Protect, RecvWaitDone, arbiter
<1>4. PICK to \in {"protect", "recv_waitDone", "ready"} : loc' = [loc EXCEPT ![p] = to]
  BY <1>2 DEF RecvGid, Protect, RecvWaitDone, Move
<1>5. \A q \in Procs : loc'[q] \in {"recv_gid", "protect", "recv_waitDone", "ready"}
  BY <1>1, <1>4 DEF TypeInv, TypeOK
<1>6. Registered' = Procs
  BY <1>5 DEF Registered
<1> QED
  BY <1>1, <1>3, <1>6 DEF GetSem, GetSharedFile, SetSize, Zero, InitMap, Move

LEMMA RaceStep == TypeInv /\ RaceInv /\ [Next]_vars => RaceInv'
<1> SUFFICES ASSUME TypeInv, RaceInv, [Next]_vars
             PROVE  RaceInv'
  OBVIOUS
<1>1. ASSUME NEW p \in Procs, ProcStep(p), started
      PROVE  RaceInv'
  <2>1. /\ started' /\ Registered' = Procs
        /\ Map(p) \/ Down(p) \/ Connect(p) \/ RecvGid(p) \/ Protect(p) \/ RecvWaitDone(p)
    BY <1>1, StaysRegistered DEF RaceInv, ProcStep
  <2>2. first' = first
    BY <2>1 DEF Map, Down, Connect, RecvGid, Protect, RecvWaitDone
  <2>3. \A q \in Procs : loc'[q] \in {"recv_gid", "protect", "recv_waitDone", "ready"}
    BY <2>1 DEF Registered
  <2> QED
    BY <2>1, <2>2, <2>3 DEF RaceInv, OneArbiter
<1>2. ASSUME NEW p \in Procs, ProcStep(p), ~started
      PROVE  RaceInv'
  <2>1. ~started'
    BY <1>2 DEF ProcStep, GetSem, GetSharedFile, SetSize, Map, Zero, InitMap, Down, Connect,
                RecvGid, Protect, RecvWaitDone, arbiter
  <2>2. CASE GetSem(p)
    <3>1. loc' = [loc EXCEPT ![p] = "getSharedFile"] /\ loc[p] = "getSem"
      BY <2>2 DEF GetSem, Move
    <3>2. first' = first /\ names \subseteq names'
      BY <2>2 DEF GetSem
    <3>3. ~first[p]
      BY <3>1 DEF RaceInv
    <3>4. \A q \in Procs : loc'[q] = IF q = p THEN "getSharedFile" ELSE loc[q]
      BY <3>1 DEF TypeInv, TypeOK
    <3>5. \A q \in Procs : first'[q] => loc'[q] \notin {"getSem", "getSharedFile"}
      BY <3>2, <3>3, <3>4 DEF RaceInv
    <3>6. \A q \in Procs : first'[q] => "dsm_file" \in names'
      BY <1>2, <3>2 DEF RaceInv
    <3>7. \A q \in Procs : loc'[q] = "initMap" => first'[q]
      BY <3>2, <3>4 DEF RaceInv
    <3> QED
      BY <2>1, <3>2, <3>5, <3>6, <3>7 DEF RaceInv, OneArbiter
  <2>3. CASE GetSharedFile(p)
    <3>1. loc' = [loc EXCEPT ![p] = "setSize"]
      BY <2>3 DEF GetSharedFile, Move
    <3>2. first' = [first EXCEPT ![p] = "dsm_file" \notin names] /\ "dsm_file" \in names'
      BY <2>3 DEF GetSharedFile, Creates
    <3>3. \A q \in Procs : first[q] => "dsm_file" \in names
      BY <1>2 DEF RaceInv
    <3>4. OneArbiter'
      BY <3>2, <3>3 DEF RaceInv, OneArbiter, TypeInv, TypeOK
    <3> QED
      BY <2>1, <3>1, <3>2, <3>4 DEF RaceInv, TypeInv, TypeOK
  <2>4. CASE Zero(p)
    <3>1. loc' = [loc EXCEPT ![p] = IF first[p] THEN "initMap" ELSE "down"]
      BY <2>4 DEF Zero, Move
    <3>2. first' = first /\ names' = names
      BY <2>4 DEF Zero
    <3> QED
      BY <1>2, <2>1, <3>1, <3>2 DEF RaceInv, OneArbiter, TypeInv, TypeOK
  <2>5. CASE SetSize(p) \/ Map(p) \/ InitMap(p) \/ Down(p) \/ Connect(p) \/ RecvGid(p)
               \/ Protect(p) \/ RecvWaitDone(p)
    <3>1. PICK to \in Locations \ {"getSem", "getSharedFile", "initMap"} :
            loc' = [loc EXCEPT ![p] = to]
      BY <2>5 DEF SetSize, Map, InitMap, Down, Connect, RecvGid, Protect, RecvWaitDone,
                  Move, Locations
    <3>2. first' = first /\ names' = names
      BY <2>5 DEF SetSize, Map, InitMap, Down, Connect, RecvGid, Protect, RecvWaitDone, shared
    <3> QED
      BY <1>2, <2>1, <3>1, <3>2 DEF RaceInv, OneArbiter, TypeInv, TypeOK
  <2> QED
    BY <1>2, <2>2, <2>3, <2>4, <2>5 DEF ProcStep
<1>3. CASE ArbListen \/ ArbPost
  <2>1. UNCHANGED <<loc, first, names, started>>
    BY <1>3 DEF ArbListen, ArbPost, shared
  <2> QED
    BY <2>1 DEF RaceInv, OneArbiter, Registered
<1>4. CASE ArbStart
  <2>1. UNCHANGED <<loc, first>> /\ started' /\ Registered = Procs
    BY <1>4 DEF ArbStart, AllRegistered
  <2> QED
    BY <2>1 DEF RaceInv, OneArbiter, Registered
<1>5. CASE UNCHANGED vars
  <2>1. UNCHANGED <<loc, first, names, started>>
    BY <1>5 DEF vars
  <2> QED
    BY <2>1 DEF RaceInv, OneArbiter, Registered
<1> QED
  BY <1>1, <1>2, <1>3, <1>4, <1>5 DEF Next, ArbStep

(* However many processes race for the file, one arbiter is forked.        *)
THEOREM OneArbiterOnly == Spec => []OneArbiter
<1>1. RaceInv => OneArbiter
  BY DEF RaceInv
<1> QED
  BY <1>1, TypeInit, TypeStep, RaceInit, RaceStep, PTL DEF Spec

(* Once the session runs, no step of any process changes the shared file.  *)
THEOREM FileSurvives == Spec => PageSurvives
<1>1. TypeInv /\ RaceInv /\ [Next]_vars => [started => UNCHANGED <<data_off, fileSize>>]_vars
  <2> SUFFICES ASSUME TypeInv, RaceInv, Next, started
               PROVE  UNCHANGED <<data_off, fileSize>>
    BY DEF vars
  <2>1. ASSUME NEW p \in Procs, ProcStep(p)
        PROVE  UNCHANGED <<data_off, fileSize>>
    <3>1. Map(p) \/ Down(p) \/ Connect(p) \/ RecvGid(p) \/ Protect(p) \/ RecvWaitDone(p)
      BY <2>1, StaysRegistered DEF RaceInv, ProcStep
    <3> QED
      BY <3>1 DEF Map, Down, Connect, RecvGid, Protect, RecvWaitDone, shared
  <2>2. ASSUME ArbStep
        PROVE  UNCHANGED <<data_off, fileSize>>
    BY <2>2 DEF ArbStep, ArbListen, ArbPost, ArbStart, shared
  <2> QED
    BY <2>1, <2>2 DEF Next
<1> QED
  BY <1>1, TypeInit, TypeStep, RaceInit, RaceStep, PTL DEF Spec, PageSurvives

-----------------------------------------------------------------------------
(* The arbiter.                                                            *)
LEMMA ListenInit == Init => ListenInv
BY DEF Init, ListenInv, ListenerReady

LEMMA ListenStep == TypeInv /\ RaceInv /\ ListenInv /\ [Next]_vars => ListenInv'
<1> SUFFICES ASSUME TypeInv, RaceInv, ListenInv, [Next]_vars
             PROVE  ListenInv'
  OBVIOUS
<1>1. ASSUME NEW p \in Procs, GetSem(p) \/ SetSize(p) \/ Map(p) \/ Zero(p) \/ Connect(p)
                              \/ RecvGid(p) \/ Protect(p) \/ RecvWaitDone(p)
      PROVE  ListenInv'
  <2>1. UNCHANGED <<first, arb, posts>>
    BY <1>1 DEF GetSem, SetSize, Map, Zero, Connect, RecvGid, Protect, RecvWaitDone, arbiter
  <2>2. PICK to \in Locations :
          /\ loc' = [loc EXCEPT ![p] = to] /\ to # "connect"
          /\ first[p] /\ to \in Winning => loc[p] \in Winning
    BY <1>1 DEF GetSem, SetSize, Map, Zero, Connect, RecvGid, Protect, RecvWaitDone,
                Move, Locations, Winning
  <2> QED
    BY <2>1, <2>2 DEF ListenInv, ListenerReady, TypeInv, TypeOK
<1>2. ASSUME NEW p \in Procs, GetSharedFile(p)
      PROVE  ListenInv'
  <2>1. /\ loc' = [loc EXCEPT ![p] = "setSize"]
        /\ first' = [first EXCEPT ![p] = "dsm_file" \notin names]
        /\ UNCHANGED <<arb, posts>> /\ ~first[p]
    BY <1>2 DEF GetSharedFile, Creates, Move, arbiter, RaceInv
  <2>2. ~started
    BY <1>2, StaysRegistered DEF RaceInv, ProcStep
  <2>3. "dsm_file" \notin names => arb = "none"
    BY <2>2 DEF RaceInv, ListenInv
  <2>4. \A q \in Procs : q # p => loc'[q] = loc[q] /\ first'[q] = first[q]
    BY <2>1 DEF TypeInv, TypeOK
  <2>5. loc'[p] = "setSize" /\ (first'[p] => arb = "none")
    BY <2>1, <2>3 DEF TypeInv, TypeOK
  <2>6. arb' # "none" => \E q \in Procs : first'[q]
    BY <2>1, <2>4 DEF ListenInv
  <2>7. \A q \in Procs : first'[q] /\ loc'[q] \in Winning => arb' = "none"
    BY <2>1, <2>4, <2>5 DEF ListenInv
  <2> QED
    BY <2>1, <2>4, <2>5, <2>6, <2>7 DEF ListenInv, ListenerReady
<1>3. ASSUME NEW p \in Procs, InitMap(p)
      PROVE  ListenInv'
  <2>1. /\ loc' = [loc EXCEPT ![p] = "down"] /\ loc[p] = "initMap"
        /\ arb' = "setup" /\ UNCHANGED <<first, posts>>
    BY <1>3 DEF InitMap, Move
  <2>2. first[p] /\ arb = "none"
    BY <2>1 DEF RaceInv, ListenInv, Winning
  <2>3. ~(posts > 0) /\ \A q \in Procs : loc[q] # "connect"
    BY <2>2 DEF ListenInv, ListenerReady
  <2>4. \A q \in Procs : q # p => ~first[q]
    BY <2>2 DEF RaceInv, OneArbiter
  <2> QED
    BY <2>1, <2>2, <2>3, <2>4 DEF ListenInv, ListenerReady, Winning, TypeInv, TypeOK
<1>4. ASSUME NEW p \in Procs, Down(p)
      PROVE  ListenInv'
  <2>1. /\ loc' = [loc EXCEPT ![p] = "connect"] /\ sem_start > 0
        /\ UNCHANGED <<first, arb, posts>>
    BY <1>4 DEF Down, Move, arbiter
  <2>2. NProc \in Nat /\ posts \in 0 .. NProc /\ sem_start \in 0 .. NProc
    BY StartupAssumption DEF TypeInv, TypeOK
  <2>3. arb = "listening"
    BY <2>1, <2>2 DEF TypeInv, ListenInv
  <2> QED
    BY <2>1, <2>3 DEF ListenInv, ListenerReady, Winning, TypeInv, TypeOK
<1>5. CASE ArbListen \/ ArbPost
  <2>1. UNCHANGED <<loc, first>> /\ arb # "none" /\ arb' = "listening"
    BY <1>5 DEF ArbListen, ArbPost, MayPost, shared
  <2> QED
    BY <2>1 DEF ListenInv, ListenerReady
<1>6. CASE ArbStart \/ UNCHANGED vars
  <2>1. UNCHANGED <<loc, first, arb, posts>>
    BY <1>6 DEF ArbStart, vars
  <2> QED
    BY <2>1 DEF ListenInv, ListenerReady
<1> QED
  BY <1>1, <1>2, <1>3, <1>4, <1>5, <1>6 DEF Next, ProcStep, ArbStep

(* Nobody connects to an arbiter that does not listen yet.                 *)
THEOREM NobodyRefused == Spec => []ListenerReady
<1>1. ListenInv => ListenerReady
  BY DEF ListenInv
<1> QED
  BY <1>1, TypeInit, TypeStep, RaceInit, RaceStep, ListenInit, ListenStep, PTL DEF Spec
=============================================================================
