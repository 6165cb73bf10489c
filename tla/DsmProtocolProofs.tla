-------------------------- MODULE DsmProtocolProofs --------------------------
(***************************************************************************)
(* No message of a session comes to a program that does not expect it, and *)
(* the pages of the machines behave like one page; for any number of       *)
(* machines and processes, and any programs.                               *)
(*                                                                         *)
(* A handler panics when its sanity check fails, so NoProtocolPanic says   *)
(* what every message finds.  On top of WriterInv this takes four parts.   *)
(*                                                                         *)
(* 1. AskInv: a process is in its arbiter's queue, or about to be, as      *)
(*    often as it waits for a grant: once at most.                         *)
(* 2. LineInv: a machine is in the server's queue, or about to be, as      *)
(*    often as it has processes in its own.  So a grant finds a process,   *)
(*    and a request the server's queue never empties under it.             *)
(* 3. NameInv: a number is given to who asked for it, and read in dsm_init.*)
(* 4. EndInv: an arbiter closes when it has no process left, and a process *)
(*    that can be signalled has a pid.                                     *)
(*                                                                         *)
(* ProtocolInv is all of these, with those of the modules below.  From it  *)
(* follows that the abstract page of CoherentPage is there: the writer is  *)
(* the head of two queues, and the machine whose page is current has not   *)
(* left (ParkInv).  Each step is then a step of that page or none.         *)
(***************************************************************************)
EXTENDS DsmWriterProofs

-----------------------------------------------------------------------------
(* How often e is in the sequence s.                                       *)
Places(s, e) == {i \in DOMAIN s : s[i] = e}
NoOf(s, e)   == Cardinality(Places(s, e))

(* The count is a number, zero if e is nowhere, and not if it comes first. *)
LEMMA CountPlaces ==
  ASSUME NEW S, NEW s \in Seq(S), NEW e
  PROVE  /\ IsFiniteSet(Places(s, e)) /\ NoOf(s, e) \in Nat
         /\ NoOf(s, e) = 0 <=> \A i \in DOMAIN s : s[i] # e
         /\ s = << >> => NoOf(s, e) = 0
<1>1. IsFiniteSet(Places(s, e))
  <2>1. Places(s, e) \subseteq 1 .. Len(s) /\ Len(s) \in Nat
    BY DEF Places
  <2>2. IsFiniteSet(1 .. Len(s))
    BY <2>1, FS_Interval
  <2> QED BY <2>1, <2>2, FS_Subset
<1>2. NoOf(s, e) \in Nat /\ (NoOf(s, e) = 0 <=> Places(s, e) = {})
  BY <1>1, FS_CardinalityType, FS_EmptySet DEF NoOf
<1>3. Places(s, e) = {} <=> \A i \in DOMAIN s : s[i] # e
  BY DEF Places
<1>4. s = << >> => \A i \in DOMAIN s : s[i] # e
  OBVIOUS
<1> QED BY <1>1, <1>2, <1>3, <1>4

(* What is appended counts once.                                           *)
LEMMA CountAppend ==
  ASSUME NEW S, NEW s \in Seq(S), NEW x \in S, NEW e
  PROVE  NoOf(Append(s, x), e) = NoOf(s, e) + (IF x = e THEN 1 ELSE 0)
<1>1. /\ DOMAIN Append(s, x) = 1 .. Len(s) + 1 /\ DOMAIN s = 1 .. Len(s) /\ Len(s) \in Nat
      /\ \A i \in DOMAIN s : Append(s, x)[i] = s[i]
      /\ Append(s, x)[Len(s) + 1] = x
  BY AppendPlaces
<1>2. IsFiniteSet(Places(s, e)) /\ NoOf(s, e) \in Nat
  BY CountPlaces
<1>3. CASE x # e
  <2>1. Places(Append(s, x), e) = Places(s, e)
    BY <1>1, <1>3 DEF Places
  <2> QED BY <1>2, <1>3, <2>1 DEF NoOf
<1>4. CASE x = e
  <2>1. Places(Append(s, x), e) = Places(s, e) \cup {Len(s) + 1}
    BY <1>1, <1>4 DEF Places
  <2>2. Len(s) + 1 \notin Places(s, e)
    BY <1>1 DEF Places
  <2> QED BY <1>2, <1>4, <2>1, <2>2, FS_AddElement DEF NoOf
<1> QED BY <1>3, <1>4

(* What is taken from the front no longer counts.                          *)
LEMMA CountTail ==
  ASSUME NEW S, NEW s \in Seq(S), s # << >>, NEW e
  PROVE  NoOf(s, e) = NoOf(Tail(s), e) + (IF Head(s) = e THEN 1 ELSE 0)
<1> DEFINE Rest == Places(s, e) \ {1}
           f == [i \in Places(Tail(s), e) |-> i + 1]
<1>1. /\ DOMAIN s = 1 .. Len(s) /\ Len(s) \in Nat \ {0}
      /\ DOMAIN Tail(s) = 1 .. Len(s) - 1
      /\ \A i \in DOMAIN Tail(s) : i + 1 \in DOMAIN s /\ Tail(s)[i] = s[i + 1]
      /\ Head(s) = s[1]
  BY TailPlaces
<1>2. IsFiniteSet(Places(s, e)) /\ NoOf(s, e) \in Nat
  BY CountPlaces
<1>3. \A i \in Places(Tail(s), e) : i \in Nat /\ i >= 1 /\ i + 1 \in Rest
  BY <1>1 DEF Places
<1>4. \A j \in Rest : j - 1 \in Places(Tail(s), e) /\ (j - 1) + 1 = j
  <2> TAKE j \in Rest
  <2>1. j \in 1 .. Len(s) /\ j # 1 /\ s[j] = e
    BY <1>1 DEF Places
  <2>2. j - 1 \in DOMAIN Tail(s) /\ (j - 1) + 1 = j
    BY <1>1, <2>1
  <2>3. Tail(s)[j - 1] = e
    BY <1>1, <2>1, <2>2
  <2> QED BY <2>2, <2>3 DEF Places
<1>5. f \in Bijection(Places(Tail(s), e), Rest)
  <2>1. f \in [Places(Tail(s), e) -> Rest]
    BY <1>3
  <2>2. \A i, j \in Places(Tail(s), e) : f[i] = f[j] => i = j
    BY <1>3
  <2>3. \A j \in Rest : \E i \in Places(Tail(s), e) : f[i] = j
    BY <1>4
  <2> HIDE DEF f
  <2> QED BY <2>1, <2>2, <2>3 DEF Bijection, Injection, IsInjective, Surjection
<1>6. NoOf(Tail(s), e) = Cardinality(Rest)
  <2>1. IsFiniteSet(Rest)
    BY <1>2, FS_Subset
  <2>2. IsFiniteSet(Places(Tail(s), e))
    <3>1. Tail(s) \in Seq(S)
      OBVIOUS
    <3> QED BY <3>1, CountPlaces
  <2>3. ExistsBijection(Places(Tail(s), e), Rest)
    BY <1>5 DEF ExistsBijection
  <2> QED BY <2>2, <2>3, FS_Bijection DEF NoOf
<1>7. Cardinality(Rest) = IF 1 \in Places(s, e) THEN NoOf(s, e) - 1 ELSE NoOf(s, e)
  BY <1>2, FS_RemoveElement DEF NoOf
<1>8. 1 \in Places(s, e) <=> Head(s) = e
  BY <1>1 DEF Places
<1> QED BY <1>2, <1>6, <1>7, <1>8

(* How often a message is in a channel.                                    *)
NoIn(ch, k, m) == NoOf(ch[k], m)

LEMMA CountSend ==
  ASSUME NEW K, NEW ch \in [K -> Seq(Message)], NEW S, NEW x \in Message, NEW j \in K, NEW m
  PROVE  /\ NoIn(ch, j, m) \in Nat
         /\ j \in S /\ x = m => NoIn(SendAll(ch, S, x), j, m) = NoIn(ch, j, m) + 1
         /\ j \notin S \/ x # m => NoIn(SendAll(ch, S, x), j, m) = NoIn(ch, j, m)
<1>1. ch[j] \in Seq(Message) /\ DOMAIN ch = K
  OBVIOUS
<1>2. NoOf(Append(ch[j], x), m) = NoOf(ch[j], m) + (IF x = m THEN 1 ELSE 0)
  BY <1>1, CountAppend
<1>3. NoOf(ch[j], m) \in Nat
  BY <1>1, CountPlaces
<1>4. SendAll(ch, S, x)[j] = IF j \in S THEN Append(ch[j], x) ELSE ch[j]
  BY <1>1 DEF SendAll
<1> QED BY <1>2, <1>3, <1>4 DEF NoIn

LEMMA CountConsume ==
  ASSUME NEW K, NEW ch \in [K -> Seq(Message)], NEW k \in K, ch[k] # << >>, NEW j \in K, NEW m
  PROVE  /\ NoIn(ch, j, m) \in Nat /\ NoIn(Consume(ch, k), j, m) \in Nat
         /\ j = k /\ Head(ch[k]) = m => NoIn(ch, j, m) = NoIn(Consume(ch, k), j, m) + 1
         /\ j # k \/ Head(ch[k]) # m => NoIn(ch, j, m) = NoIn(Consume(ch, k), j, m)
<1>1. ch[j] \in Seq(Message) /\ ch[k] \in Seq(Message) /\ DOMAIN ch = K
  OBVIOUS
<1>2. NoOf(ch[k], m) = NoOf(Tail(ch[k]), m) + (IF Head(ch[k]) = m THEN 1 ELSE 0)
  BY <1>1, CountTail
<1>3. NoOf(ch[j], m) \in Nat
  BY <1>1, CountPlaces
<1>4. Consume(ch, k)[j] = IF j = k THEN Tail(ch[k]) ELSE ch[j]
  BY <1>1 DEF Consume
<1>5. Consume(ch, k)[j] \in Seq(Message)
  BY <1>1, <1>4
<1>6. NoOf(Consume(ch, k)[j], m) \in Nat
  BY <1>5, CountPlaces
<1> QED BY <1>2, <1>3, <1>4, <1>6 DEF NoIn

Request  == Simple("SYNC_REQ")
Asked(q) == NoIn(p2a, q, Request)           \* Requests its arbiter has not read.
Lined(q) == NoOf(arbQueue[Home[q]], q)      \* Its entries in the arbiter's queue.
Dead     == {"killed", "panic"}
Wanting  == {"takeAccess", "store", "sigill"}

(* The request for write access is the only message of its type.           *)
LEMMA RequestIs ==
  /\ Request \in Message /\ Request.type = "SYNC_REQ"
  /\ \A m \in Message : m.type = "SYNC_REQ" => m = Request
<1>1. Request \in Message /\ Request.type = "SYNC_REQ"
  BY MessageTypes DEF Request, Simple, SimpleTypes
<1>2. ASSUME NEW m \in Message, m.type = "SYNC_REQ" PROVE m = Request
  BY <1>2 DEF Message, Request, Simple, SimpleTypes
<1> QED BY <1>1, <1>2

(***************************************************************************)
(* A process that asked for write access is in one place: its request is   *)
(* still to be read, or it is in its arbiter's queue, where it stays until *)
(* its data was forwarded.  Nobody else is in that queue, and whoever is   *)
(* was marked as stopped and as queued.                                    *)
(***************************************************************************)
AskAt(q) ==
  /\ Asked(q) + Lined(q) <= 1
  /\ loc[q] \in Wanting => Asked(q) + Lined(q) = 1 /\ ~Returning(q)
  /\ loc[q] \notin Wanting \cup Dead => Asked(q) = 0 /\ (Lined(q) = 0 \/ Returning(q))
  /\ Returning(q) => loc[q] \in {"dropAccess", "killed"} \/ (loc[q] = "user" /\ susp[q])
  /\ Lined(q) > 0 => ptab[q].is_stopped /\ ptab[q].is_queued
AskInv == \A q \in Procs : AskAt(q)

LEMMA AskTypes ==
  ASSUME TypeOK, NEW q \in Procs
  PROVE  /\ Asked(q) \in Nat /\ Lined(q) \in Nat
         /\ Lined(q) = 0 <=> \A i \in DOMAIN arbQueue[Home[q]] : arbQueue[Home[q]][i] # q
         /\ AtHead(q) => Lined(q) > 0
<1>1. p2a[q] \in Seq(Message) /\ arbQueue[Home[q]] \in Seq(Procs) /\ Home[q] \in Arbiters
  BY HomeAssumption DEF TypeOK, NetTypeOK, ArbiterTypeOK
<1>2. /\ Asked(q) \in Nat /\ Lined(q) \in Nat
      /\ Lined(q) = 0 <=> \A i \in DOMAIN arbQueue[Home[q]] : arbQueue[Home[q]][i] # q
  BY <1>1, CountPlaces DEF Asked, NoIn, Lined
<1>3. AtHead(q) => 1 \in DOMAIN arbQueue[Home[q]] /\ arbQueue[Home[q]][1] = q
  BY <1>1, TailPlaces DEF AtHead
<1> QED BY <1>2, <1>3

LEMMA AskInit == Init => AskInv
<1> SUFFICES ASSUME Init, NEW q \in Procs PROVE AskAt(q)
  BY DEF AskInv
<1>1. p2a[q] = << >> /\ arbQueue[Home[q]] = << >> /\ loc[q] = "connect"
  BY HomeAssumption DEF Init, NetInit, ArbiterInit, ProcessInit
<1>2. Asked(q) = 0 /\ Lined(q) = 0
  BY <1>1, CountPlaces, SeqTypes DEF Asked, NoIn, Lined
<1>3. ~Returning(q)
  BY <1>1 DEF Returning, Has
<1> QED BY <1>1, <1>2, <1>3 DEF AskAt, Wanting

(* What a step leaves alone.                                               *)
LEMMA AskSame ==
  ASSUME NEW q \in Procs, AskAt(q), Asked(q)' = Asked(q), Lined(q)' = Lined(q),
         Returning(q)' <=> Returning(q), loc'[q] = loc[q], Returning(q) /\ susp[q] => susp'[q],
         Lined(q) > 0 => ptab'[q].is_stopped /\ ptab'[q].is_queued
  PROVE  AskAt(q)'
BY DEF AskAt

LEMMA AskProcess ==
  ASSUME TypeInv, GrantInv, AskInv, NEW p \in Procs, ProcessStep(p) \/ ProcKilled(p),
         UNCHANGED <<serverVars, arbVars, a2s, s2a>>
  PROVE  AskInv'
<1> SUFFICES ASSUME NEW q \in Procs PROVE AskAt(q)'
  BY DEF AskInv
<1>0. TypeOK /\ UNCHANGED <<ptab, arbQueue>> /\ AskAt(q)
  BY DEF TypeInv, arbVars, AskInv
<1>1. /\ \A x \in Procs : x # p => loc'[x] = loc[x] /\ SameProcess(x)
      /\ Says(p) \/ Hears(p) \/ Shifts(p) \/ Halts(p) \/ Delivers(p)
  BY <1>0, ProcessMoves
<1>2. Lined(q)' = Lined(q)
  BY <1>0 DEF Lined
<1>3. p2a'[q] = p2a[q] => Asked(q)' = Asked(q) /\ (Returning(q)' <=> Returning(q))
  BY DEF Asked, NoIn, Returning, Has
<1>4. CASE q # p
  BY <1>0, <1>1, <1>2, <1>3, <1>4, AskSame DEF SameProcess, AskAt
<1>5. CASE q = p
  <2>0. Asked(p) \in Nat /\ Lined(p) \in Nat /\ (AtHead(p) => Lined(p) > 0)
    BY <1>0, AskTypes
  <2>1. CASE Says(p)
    <3>1. PICK m \in Message : p2a'[p] = Append(p2a[p], m) /\ <<loc[p], m.type, loc'[p]>> \in Talks
      BY <2>1 DEF Says
    <3>2. p2a[p] \in Seq(Message)
      BY <1>0 DEF TypeOK, NetTypeOK
    <3>3. Asked(p)' = Asked(p) + (IF m = Request THEN 1 ELSE 0)
      BY <3>1, <3>2, CountAppend DEF Asked, NoIn
    <3>4. Returning(p)' <=> Returning(p) \/ m.type = "SYNC_INFO"
      <4>1. /\ DOMAIN p2a'[p] = 1 .. Len(p2a[p]) + 1 /\ DOMAIN p2a[p] = 1 .. Len(p2a[p])
            /\ \A i \in DOMAIN p2a[p] : p2a'[p][i] = p2a[p][i]
            /\ p2a'[p][Len(p2a[p]) + 1] = m /\ Len(p2a[p]) \in Nat
        BY <3>1, <3>2, AppendPlaces
      <4> QED BY <4>1 DEF Returning, Has
    <3>5. ~susp[p] /\ susp' = susp
      BY <2>1 DEF Says
    <3>6. m = Request <=> m.type = "SYNC_REQ"
      BY RequestIs
    <3>7. loc[p] = "sigill" => Lined(p) > 0
      BY <2>0 DEF GrantInv, InOrder, Holds, Writable
    <3>8. CASE loc[p] = "connect" /\ m.type = "ADD_PROC" /\ loc'[p] = "recv_gid"
      BY <1>0, <1>2, <1>5, <2>0, <3>3, <3>4, <3>5, <3>6, <3>8 DEF AskAt, Wanting, Dead
    <3>9. CASE loc[p] = "user" /\ m.type = "SYNC_REQ" /\ loc'[p] = "takeAccess"
      BY <1>0, <1>2, <1>5, <2>0, <3>3, <3>4, <3>5, <3>6, <3>9 DEF AskAt, Wanting, Dead
    <3>10. CASE loc[p] = "sigill" /\ m.type = "SYNC_INFO" /\ loc'[p] = "dropAccess"
      BY <1>0, <1>2, <1>5, <2>0, <3>3, <3>4, <3>5, <3>6, <3>7, <3>10 DEF AskAt, Wanting, Dead
    <3>11. CASE loc[p] = "user" /\ m.type \in {"WAIT_BARR", "PRGM_DONE"} /\ loc'[p] \in {"barrier", "exited"}
      BY <1>0, <1>2, <1>5, <2>0, <3>3, <3>4, <3>5, <3>6, <3>11 DEF AskAt, Wanting, Dead
    <3> QED BY <3>1, <3>8, <3>9, <3>10, <3>11 DEF Talks
  <2>2. CASE Hears(p)
    <3>1. UNCHANGED <<p2a, susp>>
      BY <2>2 DEF Hears
    <3> QED BY <1>0, <1>2, <1>3, <1>5, <2>2, <3>1 DEF AskAt, Hears, Wanting, Dead
  <2>3. CASE Shifts(p)
    <3>1. UNCHANGED <<p2a, susp>>
      BY <2>3 DEF Shifts
    <3> QED BY <1>0, <1>2, <1>3, <1>5, <2>3, <3>1 DEF AskAt, Shifts, Wanting, Dead
  <2>4. CASE Halts(p)
    <3>1. UNCHANGED p2a
      BY <2>4 DEF Halts
    <3> QED BY <1>0, <1>2, <1>3, <1>5, <2>4, <3>1 DEF AskAt, Halts, Wanting, Dead
  <2>5. CASE Delivers(p)
    BY <1>0, <1>2, <1>3, <1>5, <2>5, AskSame DEF AskAt, Delivers
  <2> QED BY <1>1, <2>1, <2>2, <2>3, <2>4, <2>5
<1> QED BY <1>4, <1>5

(* Its process's message, read by the arbiter.                             *)
LEMMA AskRead ==
  ASSUME TypeOK, PlaceInv, GrantInv, ChainInv, StartInv, AskInv, NEW a \in Arbiters, NEW p \in Procs,
         FromProcessStep(a, p), UNCHANGED <<serverVars, procVars>>
  PROVE  \A q \in Local(a) : AskAt(q)'
<1> SUFFICES ASSUME NEW q \in Local(a) PROVE AskAt(q)'
  OBVIOUS
<1> DEFINE m == Head(p2a[p])
<1>0. q \in Procs /\ Home[q] = a /\ AskAt(q) /\ loc' = loc
  BY DEF Local, AskInv, procVars
<1>1. /\ Home[p] = a /\ p2a[p] # << >> /\ p2a' = Consume(p2a, p) /\ UNCHANGED susp
      /\ \A x \in Procs : x # p => ptab'[x] = ptab[x]
  BY TableRead
<1>2. /\ p2a \in [Procs -> Seq(Message)] /\ arbQueue[a] \in Seq(Procs) /\ m \in Message
      /\ arbQueue \in [Arbiters -> Seq(Procs)]
  BY <1>1, SeqTypes DEF TypeOK, NetTypeOK, ArbiterTypeOK
<1>3. /\ Asked(q)' \in Nat
      /\ q = p /\ m = Request => Asked(q) = Asked(q)' + 1
      /\ q # p \/ m # Request => Asked(q) = Asked(q)'
  <2>1. p2a \in [Procs -> Seq(Message)] /\ p2a[p] # << >> /\ q \in Procs
    BY <1>0, <1>1, <1>2
  <2>2. NoIn(Consume(p2a, p), q, Request) \in Nat
    BY <2>1, CountConsume
  <2>3. q = p /\ m = Request => NoIn(p2a, q, Request) = NoIn(Consume(p2a, p), q, Request) + 1
    BY <2>1, CountConsume
  <2>4. q # p \/ m # Request => NoIn(p2a, q, Request) = NoIn(Consume(p2a, p), q, Request)
    BY <2>1, CountConsume
  <2> QED BY <1>1, <2>2, <2>3, <2>4 DEF Asked
<1>4. /\ Asked(q) \in Nat /\ Lined(q) \in Nat
      /\ AtHead(p) => Lined(p) > 0
  BY <1>0, AskTypes
<1>5. m.type = "SYNC_INFO" => Returning(p) /\ AtHead(p) /\ ~Returning(p)'
  BY <1>1, <1>2, ConsumeHas DEF GrantInv, AtMostOnce, InOrder, Holds, Returning
<1>6. q # p \/ m.type # "SYNC_INFO" => (Returning(q)' <=> Returning(q))
  <2>1. CASE m.type # "SYNC_INFO"
    BY <1>0, <1>1, <1>2, <2>1, ConsumeSame DEF Same, Returning
  <2>2. CASE q # p
    BY <1>0, <1>1, <1>2, <2>2 DEF Returning, Has, Consume
  <2> QED BY <2>1, <2>2
<1>8. CASE ArbSyncRequest(a, p)
  <2>1. m.type = "SYNC_REQ" /\ arbQueue'[a] = Append(arbQueue[a], p) /\ ptab'[p].is_queued /\ ptab'[p].is_stopped
    BY <1>2, <1>8 DEF ArbSyncRequest, FromProcess, Waiting, Enqueued, TypeOK, ArbiterTypeOK, Entry
  <2>2. Lined(q)' = Lined(q) + (IF q = p THEN 1 ELSE 0)
    BY <1>0, <1>2, <2>1, CountAppend DEF Lined
  <2>3. m = Request
    BY <1>2, <2>1, RequestIs
  <2>4. CASE q # p
    BY <1>0, <1>1, <1>3, <1>4, <1>6, <2>2, <2>4, AskSame DEF AskAt
  <2>5. CASE q = p
    <3>1. Asked(q) = 1 /\ Lined(q) = 0 /\ Asked(q)' = 0 /\ Lined(q)' = 1
      BY <1>0, <1>3, <1>4, <2>2, <2>3, <2>5 DEF AskAt
    <3> QED BY <1>0, <1>1, <1>6, <2>1, <2>5, <3>1 DEF AskAt
  <2> QED BY <2>4, <2>5
<1>9. CASE ArbForwardSync(a, p)
  <2>1. m.type = "SYNC_INFO"
    BY <1>9 DEF ArbForwardSync, FromProcess, Waiting
  <2>2. arbQueue[a] # << >> /\ Head(arbQueue[a]) = p
    BY <1>1, <1>5, <2>1 DEF AtHead
  <2>3. arbQueue'[a] = Tail(arbQueue[a])
    BY <1>2, <1>9, <2>2 DEF ArbForwardSync
  <2>4. Lined(q) = Lined(q)' + (IF q = p THEN 1 ELSE 0)
    BY <1>0, <1>2, <2>2, <2>3, CountTail DEF Lined
  <2>5. Tail(arbQueue[a]) \in Seq(Procs)
    BY <1>2, <2>2, SeqTypes
  <2>6. Lined(q)' \in Nat
    BY <1>0, <2>3, <2>5, CountPlaces DEF Lined
  <2>7. m # Request
    BY <2>1, RequestIs
  <2>8. CASE q # p
    BY <1>0, <1>1, <1>3, <1>4, <1>6, <2>4, <2>6, <2>8, AskSame DEF AskAt
  <2>9. CASE q = p
    <3>1. Returning(q) /\ ~Returning(q)' /\ Lined(q) > 0
      BY <1>4, <1>5, <2>1, <2>9
    <3>2. Asked(q)' = 0 /\ Lined(q)' = 0
      BY <1>0, <1>3, <1>4, <2>4, <2>6, <2>7, <2>9, <3>1 DEF AskAt
    <3> QED BY <1>0, <3>1, <3>2 DEF AskAt
  <2> QED BY <2>8, <2>9
<1>10. ASSUME m.type \notin {"SYNC_REQ", "SYNC_INFO"}, arbQueue'[a] = arbQueue[a],
              q = p /\ Lined(q) > 0 => ptab'[p].is_stopped /\ ptab'[p].is_queued
       PROVE  AskAt(q)'
  <2>1. m # Request
    BY <1>10, RequestIs
  <2>2. Lined(q)' = Lined(q) /\ Asked(q)' = Asked(q)
    BY <1>0, <1>3, <1>4, <1>10, <2>1 DEF Lined
  <2> QED BY <1>0, <1>1, <1>6, <1>10, <2>2, AskSame DEF AskAt
<1>11. CASE ArbWaitBarr(a, p)
  <2>1. /\ m.type = "WAIT_BARR" /\ UNCHANGED arbQueue
        /\ ptab'[p].is_queued = ptab[p].is_queued /\ ptab'[p].is_stopped = ptab[p].is_stopped
    BY <1>11 DEF ArbWaitBarr, FromProcess, Waiting, TypeOK, ArbiterTypeOK, Entry
  <2> QED BY <1>0, <1>10, <2>1 DEF AskAt
<1>12. CASE ArbPrgmDone(a, p)
  <2>1. m.type = "PRGM_DONE" /\ UNCHANGED arbQueue
    BY <1>12 DEF ArbPrgmDone, FromProcess, Waiting
  <2>2. loc[p] \in Left
    BY <1>1, <1>2, <2>1, ConsumeHas DEF ChainInv
  <2>3. q = p => Lined(q) = 0
    BY <1>0, <2>2 DEF AskAt, Left, Wanting, Dead
  <2> QED BY <1>10, <2>1, <2>3
<1>13. CASE ArbAddProc(a, p)
  <2>1. m.type = "ADD_PROC" /\ UNCHANGED arbQueue /\ (UNCHANGED ptab \/ ~arbStarted[a])
    BY <1>13 DEF ArbAddProc, FromProcess, Waiting, ArbPanic
  <2>2. ~arbStarted[a] => Lined(q) = 0
    BY <1>0, CountPlaces, <1>2 DEF StartInv, Lined
  <2> QED BY <1>0, <1>10, <2>1, <2>2 DEF AskAt
<1> QED BY <1>8, <1>9, <1>11, <1>12, <1>13 DEF FromProcessStep

(* A message of the server, read by the arbiter.                           *)
LEMMA AskServed ==
  ASSUME TypeOK, PlaceInv, GrantInv, AskInv, NEW a \in Arbiters,
         FromServerStep(a), UNCHANGED <<serverVars, procVars>>
  PROVE  \A q \in Local(a) : AskAt(q)'
<1> SUFFICES ASSUME NEW q \in Local(a) PROVE AskAt(q)'
  OBVIOUS
<1>0. q \in Procs /\ Home[q] = a /\ AskAt(q) /\ loc' = loc
  BY DEF Local, AskInv, procVars
<1>1. UNCHANGED <<p2a, arbQueue>>
  BY TableServed
<1>2. Asked(q)' = Asked(q) /\ Lined(q)' = Lined(q) /\ (Returning(q)' <=> Returning(q))
  BY <1>1 DEF Asked, NoIn, Lined, Returning, Has
<1>3. Returning(q) => Lined(q) > 0
  BY <1>0, AskTypes DEF GrantInv, InOrder, Holds
<1>4. Lined(q) > 0 => q \notin ToCont(a) /\ q \notin ToWake(a) /\ q \notin ToRelease(a)
  BY <1>0 DEF AskAt, ToCont, ToWake, ToRelease
<1>5. Lined(q) > 0 => susp'[q] = susp[q] /\ ptab'[q].is_stopped /\ ptab'[q].is_queued
  <2> SUFFICES ASSUME Lined(q) > 0 PROVE susp'[q] = susp[q] /\ ptab'[q].is_stopped /\ ptab'[q].is_queued
    OBVIOUS
  <2>1. ptab[q].is_stopped /\ ptab[q].is_queued
    BY <1>0 DEF AskAt
  <2>2. susp'[q] = susp[q]
    BY <1>0, <1>4, TableServed
  <2>3. arbState'[a] # "up" => UNCHANGED ptab
    BY TableServed
  <2>4. CASE arbState'[a] # "up"
    BY <2>1, <2>2, <2>3, <2>4
  <2>5. CASE arbState'[a] = "up"
    BY <1>0, <1>4, <2>1, <2>2, <2>5, TableServed DEF SameFlags
  <2> QED BY <2>4, <2>5
<1> QED BY <1>0, <1>2, <1>3, <1>5, AskSame

LEMMA AskArbiter ==
  ASSUME TypeOK, PlaceInv, GrantInv, ChainInv, StartInv, AskInv, NEW a \in Arbiters, ArbiterStep(a),
         UNCHANGED <<serverVars, procVars>>
  PROVE  AskInv'
<1> SUFFICES ASSUME NEW q \in Procs PROVE AskAt(q)'
  BY DEF AskInv
<1>0. AskAt(q) /\ loc' = loc /\ Home[q] \in Arbiters
  BY HomeAssumption DEF AskInv, procVars
<1>1. CASE Home[q] # a
  <2>1. SameProcess(q) /\ SameMachine(Home[q])
    BY <1>0, <1>1, ArbiterIsLocal
  <2>2. Asked(q)' = Asked(q) /\ Lined(q)' = Lined(q) /\ (Returning(q)' <=> Returning(q))
    BY <2>1 DEF SameProcess, SameMachine, Asked, NoIn, Lined, Returning, Has
  <2> QED BY <1>0, <2>1, <2>2, AskSame DEF AskAt, SameProcess
<1>2. CASE Home[q] = a /\ FromServerStep(a)
  BY <1>2, AskServed DEF Local
<1>3. CASE Home[q] = a /\ \E p \in Procs : FromProcessStep(a, p)
  BY <1>3, AskRead DEF Local
<1>4. CASE ~FromServerStep(a) /\ ~\E p \in Procs : FromProcessStep(a, p)
  <2>1. UNCHANGED <<p2a, susp, ptab, arbQueue>>
    BY <1>4, TableRest
  <2>2. Asked(q)' = Asked(q) /\ Lined(q)' = Lined(q) /\ (Returning(q)' <=> Returning(q))
    BY <2>1 DEF Asked, NoIn, Lined, Returning, Has
  <2> QED BY <1>0, <2>1, <2>2, AskSame DEF AskAt
<1> QED BY <1>1, <1>2, <1>3, <1>4

LEMMA AskStep ==
  ASSUME TypeInv, PlaceInv, GrantInv, ChainInv, StartInv, AskInv, [Next]_vars
  PROVE  AskInv'
<1>0. TypeOK
  BY DEF TypeInv
<1>1. ASSUME UNCHANGED <<p2a, arbQueue, ptab, susp>>,
             \A q \in Procs : loc'[q] = loc[q] \/ (loc[q] \in {"recv_gid", "recv_waitDone", "takeAccess"} /\ loc'[q] = "panic")
      PROVE  AskInv'
  <2> SUFFICES ASSUME NEW q \in Procs PROVE AskAt(q)'
    BY DEF AskInv
  <2>1. Asked(q)' = Asked(q) /\ Lined(q)' = Lined(q) /\ (Returning(q)' <=> Returning(q)) /\ AskAt(q)
    BY <1>1 DEF Asked, NoIn, Lined, Returning, Has, AskInv
  <2>2. CASE loc'[q] = loc[q]
    BY <1>1, <2>1, <2>2, AskSame DEF AskAt
  <2>3. CASE loc[q] \in {"recv_gid", "recv_waitDone", "takeAccess"} /\ loc'[q] = "panic"
    BY <1>1, <2>1, <2>3 DEF AskAt, Wanting, Dead
  <2> QED BY <1>1, <2>2, <2>3
<1>2. ASSUME NEW a \in Arbiters, ServerStep(a), UNCHANGED <<arbVars, procVars, p2a, a2p, signals, mem>>
      PROVE  AskInv'
  BY <1>1, <1>2 DEF arbVars, procVars, signals
<1>3. ASSUME NEW p \in Procs, ProcessLosesArbiter(p) PROVE AskInv'
  <2>1. /\ UNCHANGED <<p2a, arbQueue, ptab, susp>>
        /\ loc' = [loc EXCEPT ![p] = "panic"] /\ loc[p] \in {"recv_gid", "recv_waitDone", "takeAccess"}
    BY <1>3 DEF ProcessLosesArbiter, Goto, arbVars, netVars, channels, signals
  <2> QED BY <1>0, <1>1, <2>1 DEF TypeOK, ProcessTypeOK
<1>4. CASE Breaks
  BY <1>1, <1>4 DEF Breaks, procVars, netVars, channels, signals
<1> QED BY <1>0, <1>2, <1>3, <1>4, AskProcess, AskArbiter, StepKinds

-----------------------------------------------------------------------------
(***************************************************************************)
(* The two queues count the same: a machine is in the server's queue, or   *)
(* about to be, as often as it has processes in its own; and once more     *)
(* while the server still serves a process that its arbiter has dequeued.  *)
(***************************************************************************)
Served(a) == Returned(a) \/ (step = "WAITING_SYNC_ACK" /\ Head(opqueue) = a)
LineAt(a) ==
  /\ Served(a)  => NoOf(opqueue, a) + NoIn(a2s, a, Request) = Len(arbQueue[a]) + 1
  /\ ~Served(a) => NoOf(opqueue, a) + NoIn(a2s, a, Request) = Len(arbQueue[a])
LineInv == \A a \in Arbiters : LineAt(a)

LEMMA LineTypes ==
  ASSUME TypeOK, NEW a \in Arbiters
  PROVE  /\ NoOf(opqueue, a) \in Nat /\ NoIn(a2s, a, Request) \in Nat /\ Len(arbQueue[a]) \in Nat
         /\ (arbQueue[a] = << >>) <=> (Len(arbQueue[a]) = 0)
         /\ opqueue = << >> => NoOf(opqueue, a) = 0
         /\ opqueue # << >> /\ Head(opqueue) = a => NoOf(opqueue, a) > 0
         /\ a2s[a] # << >> /\ Head(a2s[a]) = Request => NoIn(a2s, a, Request) > 0
<1>1. a2s[a] \in Seq(Message) /\ arbQueue[a] \in Seq(Procs) /\ opqueue \in Seq(Arbiters)
  BY DEF TypeOK, NetTypeOK, ArbiterTypeOK, ServerTypeOK
<1>2. /\ NoOf(opqueue, a) \in Nat /\ NoIn(a2s, a, Request) \in Nat
      /\ opqueue = << >> => NoOf(opqueue, a) = 0
      /\ NoOf(opqueue, a) = 0 <=> \A i \in DOMAIN opqueue : opqueue[i] # a
      /\ NoIn(a2s, a, Request) = 0 <=> \A i \in DOMAIN a2s[a] : a2s[a][i] # Request
  BY <1>1, CountPlaces DEF NoIn
<1>3. Len(arbQueue[a]) \in Nat /\ (arbQueue[a] = << >> <=> Len(arbQueue[a]) = 0)
  BY <1>1
<1>4. /\ opqueue # << >> => 1 \in DOMAIN opqueue /\ opqueue[1] = Head(opqueue)
      /\ a2s[a] # << >> => 1 \in DOMAIN a2s[a] /\ a2s[a][1] = Head(a2s[a])
  BY <1>1, TailPlaces
<1> QED BY <1>2, <1>3, <1>4

LEMMA LineInit == Init => LineInv
<1> SUFFICES ASSUME Init, NEW a \in Arbiters PROVE LineAt(a)
  BY DEF LineInv
<1>1. a2s[a] = << >> /\ arbQueue[a] = << >> /\ opqueue = << >> /\ step = "READY"
  BY DEF Init, NetInit, ArbiterInit, ServerInit
<1>2. NoOf(opqueue, a) = 0 /\ NoIn(a2s, a, Request) = 0 /\ Len(arbQueue[a]) = 0
  BY <1>1, CountPlaces, SeqTypes DEF NoIn
<1>3. ~Served(a)
  BY <1>1 DEF Served, Returned, Has
<1> QED BY <1>2, <1>3 DEF LineAt

(* The requests an arbiter has sent and the server has not read, when the  *)
(* server reads and when the arbiter sends.                                *)
LEMMA RequestRead ==
  ASSUME a2s \in [Arbiters -> Seq(Message)], NEW a \in Arbiters, a2s[a] # << >>, a2s' = Consume(a2s, a),
         NEW b \in Arbiters
  PROVE  /\ NoIn(a2s', b, Request) \in Nat
         /\ b = a /\ Head(a2s[a]) = Request => NoIn(a2s, b, Request) = NoIn(a2s', b, Request) + 1
         /\ b # a \/ Head(a2s[a]) # Request => NoIn(a2s', b, Request) = NoIn(a2s, b, Request)
<1>1. NoIn(Consume(a2s, a), b, Request) \in Nat
  BY CountConsume
<1>2. Head(a2s[a]) = Request => NoIn(a2s, a, Request) = NoIn(Consume(a2s, a), a, Request) + 1
  BY CountConsume
<1>3. b # a \/ Head(a2s[a]) # Request => NoIn(Consume(a2s, a), b, Request) = NoIn(a2s, b, Request)
  BY CountConsume
<1> QED BY <1>1, <1>2, <1>3

LEMMA RequestSent ==
  ASSUME a2s \in [Arbiters -> Seq(Message)], NEW S, NEW x \in Message, a2s' = SendAll(a2s, S, x),
         NEW b \in Arbiters
  PROVE  /\ b \in S /\ x = Request => NoIn(a2s', b, Request) = NoIn(a2s, b, Request) + 1
         /\ b \notin S \/ x # Request => NoIn(a2s', b, Request) = NoIn(a2s, b, Request)
<1>1. b \in S /\ x = Request => NoIn(SendAll(a2s, S, x), b, Request) = NoIn(a2s, b, Request) + 1
  BY CountSend
<1>2. b \notin S \/ x # Request => NoIn(SendAll(a2s, S, x), b, Request) = NoIn(a2s, b, Request)
  BY CountSend
<1> QED BY <1>1, <1>2

(* What reads and what sends another message leaves the requests alone.    *)
LEMMA LineReads ==
  ASSUME a2s \in [Arbiters -> Seq(Message)], NEW a \in Arbiters, a2s[a] # << >>, a2s' = Consume(a2s, a),
         Head(a2s[a]).type \notin {"SYNC_REQ", "SYNC_INFO"}, NEW b \in Arbiters
  PROVE  NoIn(a2s', b, Request) = NoIn(a2s, b, Request) /\ (Returned(b)' <=> Returned(b))
<1>1. Head(a2s[a]) # Request
  BY RequestIs
<1>4. NoIn(a2s', b, Request) = NoIn(a2s, b, Request)
  BY <1>1, RequestRead
<1>5. Returned(b)' <=> Returned(b)
  BY ConsumeSame DEF Same, Returned
<1> QED BY <1>4, <1>5

LEMMA LineSends ==
  ASSUME a2s \in [Arbiters -> Seq(Message)], NEW S, NEW x \in Message, a2s' = SendAll(a2s, S, x),
         x.type \notin {"SYNC_REQ", "SYNC_INFO"}, NEW b \in Arbiters
  PROVE  NoIn(a2s', b, Request) = NoIn(a2s, b, Request) /\ (Returned(b)' <=> Returned(b))
<1>1. x # Request
  BY RequestIs
<1>4. NoIn(a2s', b, Request) = NoIn(a2s, b, Request)
  BY <1>1, RequestSent
<1>5. Returned(b)' <=> Returned(b)
  BY SendSame DEF Same, Returned
<1> QED BY <1>4, <1>5

(* Two of the server's steps are counted, and what completes a write.      *)
Quietly(a) ==
  /\ UNCHANGED opqueue /\ (step' = "WAITING_SYNC_ACK" <=> step = "WAITING_SYNC_ACK")
  /\ \/ UNCHANGED a2s
     \/ /\ a2s[a] # << >> /\ a2s' = Consume(a2s, a)
        /\ Head(a2s[a]).type \notin {"SYNC_REQ", "SYNC_INFO"}
Completes(a, t) ==
  /\ a2s[a] # << >> /\ a2s' = Consume(a2s, a) /\ Head(a2s[a]).type = t
  /\ opqueue # << >> /\ opqueue' = Tail(opqueue)
  /\ step' = StepAfter(Tail(opqueue))
  /\ \/ Tail(opqueue) = << >>
     \/ Tail(opqueue) # << >> /\ s2a' = Send(s2a, Head(Tail(opqueue)), Simple("WRITE_OKAY"))

LEMMA LineKinds ==
  ASSUME TypeOK, StepMatchesQueue, GrantInv, StopInv, StartInv, LineInv, NEW a \in Arbiters, ServerStep(a)
  PROVE  \/ Quietly(a)
         \/ /\ SrvSyncRequest(a) /\ started /\ a2s[a] # << >> /\ Head(a2s[a]) = Request
            /\ a2s' = Consume(a2s, a) /\ opqueue' = Append(opqueue, a)
            /\ \/ opqueue = << >> /\ step = "READY" /\ step' = "WAITING_STOP_ACK"
               \/ opqueue # << >> /\ UNCHANGED step
         \/ /\ SrvSyncInfo(a) /\ started /\ OnTurn(a)
            /\ a2s[a] # << >> /\ a2s' = Consume(a2s, a) /\ Head(a2s[a]).type = "SYNC_INFO"
            /\ step' = "WAITING_SYNC_ACK" /\ UNCHANGED opqueue
         \/ SrvSyncInfo(a) /\ OnTurn(a) /\ Completes(a, "SYNC_INFO") /\ started
         \/ SrvSyncDone(a) /\ step = "WAITING_SYNC_ACK" /\ Completes(a, "SYNC_DONE") /\ started
<1>0. /\ a2s \in [Arbiters -> Seq(Message)] /\ nproc_synced \in Nat
      /\ (opqueue = << >>) <=> (step = "READY")
      /\ step # "READY" => started
  BY DEF TypeOK, NetTypeOK, ServerTypeOK, StepMatchesQueue, StopInv
<1>1. CASE SrvAccept(a)
  BY <1>1 DEF SrvAccept, Quietly, writeVars
<1>2. CASE SrvAddProc(a)
  BY <1>2 DEF SrvAddProc, SrvReceive, Waiting, Quietly, SrvPanic, writeVars
<1>3. CASE SrvWaitBarr(a)
  BY <1>3 DEF SrvWaitBarr, SrvReceive, Waiting, Quietly, SrvPanic, writeVars
<1>4. CASE SrvPrgmDone(a)
  BY <1>4 DEF SrvPrgmDone, SrvReceive, Waiting, Quietly, SrvPanic, writeVars
<1>5. CASE SrvStopDone(a)
  <2>1. a2s[a] # << >> /\ a2s' = Consume(a2s, a) /\ Head(a2s[a]).type = "STOP_DONE"
    BY <1>5 DEF SrvStopDone, SrvReceive, Waiting
  <2>2. UNCHANGED opqueue /\ (step' = step \/ (step = "WAITING_STOP_ACK" /\ step' = "WAITING_SYNC_INFO"))
    BY <1>5 DEF SrvStopDone, SrvPanic, writeVars
  <2> QED BY <2>1, <2>2 DEF Quietly
<1>6. CASE SrvSyncRequest(a)
  <2>1. a2s[a] # << >> /\ a2s' = Consume(a2s, a) /\ Head(a2s[a]).type = "SYNC_REQ"
    BY <1>6 DEF SrvSyncRequest, SrvReceive, Waiting
  <2>2. Head(a2s[a]) = Request
    <3>1. a2s[a] \in Seq(Message)
      BY <1>0
    <3>2. Head(a2s[a]) \in Message
      BY <2>1, <3>1, SeqTypes
    <3> QED BY <2>1, <3>2, RequestIs
  <2>3. started
    <3> SUFFICES ASSUME ~started PROVE FALSE
      OBVIOUS
    <3>1. step = "READY" /\ opqueue = << >> /\ arbQueue[a] = << >>
      BY <1>0 DEF StartInv
    <3>2. ~Served(a)
      BY <3>1 DEF Served, GrantInv, InOrder, OnTurn
    <3>3. NoOf(opqueue, a) = 0 /\ NoIn(a2s, a, Request) \in Nat /\ NoIn(a2s, a, Request) > 0 /\ Len(arbQueue[a]) = 0
      BY <2>1, <2>2, <3>1, LineTypes
    <3>4. NoOf(opqueue, a) + NoIn(a2s, a, Request) = Len(arbQueue[a])
      BY <3>2, <3>3 DEF LineInv, LineAt
    <3> QED BY <3>3, <3>4
  <2>4. /\ opqueue' = Append(opqueue, a)
        /\ \/ opqueue = << >> /\ step = "READY" /\ step' = "WAITING_STOP_ACK"
           \/ opqueue # << >> /\ UNCHANGED step
    BY <1>0, <1>6, <2>3 DEF SrvSyncRequest
  <2> QED BY <1>6, <2>1, <2>2, <2>3, <2>4
<1>7. CASE SrvSyncInfo(a)
  <2>1. a2s[a] # << >> /\ a2s' = Consume(a2s, a) /\ Head(a2s[a]).type = "SYNC_INFO"
    BY <1>7 DEF SrvSyncInfo, SrvReceive, Waiting
  <2>2. OnTurn(a)
    BY <1>0, <2>1, ConsumeHas DEF GrantInv, InOrder, Returned
  <2>3. started /\ IsWriter(a) /\ step = "WAITING_SYNC_INFO"
    BY <1>0, <2>2 DEF OnTurn, IsWriter
  <2>4. CASE Cardinality(conns) = 1
    <3>1. Synced(NProc)
      BY <1>7, <2>3, <2>4 DEF SrvSyncInfo
    <3>2. AllSynced(NProc)
      BY <1>0, NProcType DEF AllSynced
    <3> QED BY <1>7, <2>1, <2>2, <2>3, <3>1, <3>2 DEF Synced, Completes, OnTurn
  <2>5. CASE Cardinality(conns) # 1
    BY <1>7, <2>1, <2>2, <2>3, <2>5 DEF SrvSyncInfo
  <2> QED BY <2>4, <2>5
<1>8. CASE SrvSyncDone(a)
  <2>1. a2s[a] # << >> /\ a2s' = Consume(a2s, a) /\ Head(a2s[a]).type = "SYNC_DONE"
    BY <1>8 DEF SrvSyncDone, SrvReceive, Waiting
  <2>2. CASE SrvPanic
    BY <2>1, <2>2 DEF SrvPanic, Quietly, writeVars
  <2>3. CASE started /\ step = "WAITING_SYNC_ACK" /\ Synced(Head(a2s[a]).nproc)
    <3>1. CASE AllSynced(Head(a2s[a]).nproc)
      <4>1. opqueue # << >>
        BY <1>0, <2>3
      <4> QED BY <1>8, <2>1, <2>3, <3>1, <4>1 DEF Synced, Completes
    <3>2. CASE ~AllSynced(Head(a2s[a]).nproc)
      BY <2>1, <2>3, <3>2 DEF Synced, Quietly
    <3> QED BY <3>1, <3>2
  <2> QED BY <1>8, <2>2, <2>3 DEF SrvSyncDone
<1> QED BY <1>1, <1>2, <1>3, <1>4, <1>5, <1>6, <1>7, <1>8 DEF ServerStep

LEMMA LineServer ==
  ASSUME TypeOK, StepMatchesQueue, GrantInv, StopInv, StartInv, LineInv, NEW a \in Arbiters, ServerStep(a),
         UNCHANGED <<arbVars, procVars, p2a, a2p, signals, mem>>
  PROVE  LineInv'
<1> SUFFICES ASSUME NEW b \in Arbiters PROVE LineAt(b)'
  BY DEF LineInv
<1>0. /\ a2s \in [Arbiters -> Seq(Message)] /\ opqueue \in Seq(Arbiters) /\ LineAt(b)
      /\ arbQueue' = arbQueue
      /\ NoOf(opqueue, b) \in Nat /\ NoIn(a2s, b, Request) \in Nat /\ Len(arbQueue[b]) \in Nat
  BY LineTypes DEF TypeOK, NetTypeOK, ServerTypeOK, LineInv, arbVars
<1>1. CASE Quietly(a)
  <2>1. NoIn(a2s', b, Request) = NoIn(a2s, b, Request) /\ (Returned(b)' <=> Returned(b))
    BY <1>0, <1>1, LineReads DEF Quietly, Returned, Has, NoIn
  <2>2. Served(b)' <=> Served(b)
    BY <1>1, <2>1 DEF Quietly, Served
  <2> QED BY <1>0, <1>1, <2>1, <2>2 DEF Quietly, LineAt
<1>2. CASE /\ SrvSyncRequest(a) /\ started /\ a2s[a] # << >> /\ Head(a2s[a]) = Request
           /\ a2s' = Consume(a2s, a) /\ opqueue' = Append(opqueue, a)
           /\ \/ opqueue = << >> /\ step = "READY" /\ step' = "WAITING_STOP_ACK"
              \/ opqueue # << >> /\ UNCHANGED step
  <2>1. /\ NoIn(a2s', b, Request) \in Nat
        /\ b = a => NoIn(a2s, b, Request) = NoIn(a2s', b, Request) + 1
        /\ b # a => NoIn(a2s, b, Request) = NoIn(a2s', b, Request)
    BY <1>0, <1>2, RequestRead
  <2>2. NoOf(opqueue', b) = NoOf(opqueue, b) + (IF a = b THEN 1 ELSE 0)
    BY <1>0, <1>2, CountAppend
  <2>3. Returned(b)' <=> Returned(b)
    BY <1>0, <1>2, RequestIs, ConsumeSame DEF Same, Returned
  <2>4. Served(b)' <=> Served(b)
    <3>1. opqueue # << >> => Head(opqueue') = Head(opqueue)
      BY <1>0, <1>2, AppendPlaces
    <3> QED BY <1>2, <2>3, <3>1 DEF Served
  <2>5. NoOf(opqueue', b) + NoIn(a2s', b, Request) = NoOf(opqueue, b) + NoIn(a2s, b, Request)
    BY <1>0, <2>1, <2>2
  <2> QED BY <1>0, <2>4, <2>5 DEF LineAt
<1>3. CASE /\ SrvSyncInfo(a) /\ started /\ OnTurn(a)
           /\ a2s[a] # << >> /\ a2s' = Consume(a2s, a) /\ Head(a2s[a]).type = "SYNC_INFO"
           /\ step' = "WAITING_SYNC_ACK" /\ UNCHANGED opqueue
  <2>1. NoIn(a2s', b, Request) = NoIn(a2s, b, Request)
    <3>1. Head(a2s[a]) # Request
      BY <1>3, RequestIs
    <3> QED BY <1>0, <1>3, <3>1, RequestRead
  <2>2. Returned(a) /\ (Returned(b) => b = a) /\ (Returned(b)' => Returned(b)) /\ ~Returned(a)'
    BY <1>0, <1>3, ConsumeHas DEF Returned, GrantInv, InOrder, AtMostOnce, OnTurn
  <2>3. Served(b)' <=> Served(b)
    BY <1>3, <2>2 DEF Served, OnTurn
  <2> QED BY <1>0, <1>3, <2>1, <2>3 DEF LineAt
<1>4. ASSUME NEW t, Completes(a, t),
             (t = "SYNC_INFO" /\ OnTurn(a)) \/ (t = "SYNC_DONE" /\ step = "WAITING_SYNC_ACK")
      PROVE  LineAt(b)'
  <2>0. /\ a2s[a] # << >> /\ a2s' = Consume(a2s, a) /\ Head(a2s[a]).type = t
        /\ opqueue # << >> /\ opqueue' = Tail(opqueue) /\ step' # "WAITING_SYNC_ACK"
    BY <1>4 DEF Completes, StepAfter
  <2>1. NoIn(a2s', b, Request) = NoIn(a2s, b, Request)
    <3>1. Head(a2s[a]) # Request
      BY <1>4, <2>0, RequestIs
    <3> QED BY <1>0, <2>0, <3>1, RequestRead
  <2>2. NoOf(opqueue, b) = NoOf(opqueue', b) + (IF Head(opqueue) = b THEN 1 ELSE 0)
    BY <1>0, <2>0, CountTail
  <2>3. opqueue' \in Seq(Arbiters)
    BY <1>0, <2>0, SeqTypes
  <2>4. NoOf(opqueue', b) \in Nat
    BY <2>3, CountPlaces
  <2>5. Returned(b) => OnTurn(b)
    BY DEF GrantInv, InOrder
  <2>6. Served(b) <=> Head(opqueue) = b
    <3>1. t = "SYNC_INFO" => Returned(a)
      BY <1>0, <2>0, ConsumeHas DEF Returned
    <3> QED BY <1>4, <2>5, <3>1 DEF Served, OnTurn
  <2>7. ~Returned(b)'
    <3>1. Returned(b)' => Returned(b)
      BY <1>0, <2>0, ConsumeHas DEF Returned
    <3>2. t = "SYNC_INFO" => ~Returned(a)'
      BY <1>0, <2>0, ConsumeHas DEF Returned, GrantInv, AtMostOnce
    <3> QED BY <1>4, <2>5, <3>1, <3>2 DEF OnTurn
  <2>8. ~Served(b)'
    BY <2>0, <2>7 DEF Served
  <2>9. NoOf(opqueue', b) + NoIn(a2s', b, Request) = Len(arbQueue[b])
    <3>1. CASE Head(opqueue) = b
      <4>1. NoOf(opqueue, b) = NoOf(opqueue', b) + 1
        BY <2>2, <3>1
      <4>2. NoOf(opqueue, b) + NoIn(a2s, b, Request) = Len(arbQueue[b]) + 1
        BY <1>0, <2>6, <3>1 DEF LineAt
      <4>3. NoOf(opqueue', b) \in Nat /\ NoIn(a2s, b, Request) \in Nat /\ Len(arbQueue[b]) \in Nat
        BY <1>0, <2>4
      <4> QED BY <2>1, <4>1, <4>2, <4>3
    <3>2. CASE Head(opqueue) # b
      <4>1. NoOf(opqueue, b) = NoOf(opqueue', b)
        BY <2>2, <2>4, <3>2
      <4>2. NoOf(opqueue, b) + NoIn(a2s, b, Request) = Len(arbQueue[b])
        BY <1>0, <2>6, <3>2 DEF LineAt
      <4> QED BY <2>1, <4>1, <4>2
    <3> QED BY <3>1, <3>2
  <2> QED BY <1>0, <2>8, <2>9 DEF LineAt
<1>5. CASE OnTurn(a) /\ Completes(a, "SYNC_INFO")
  BY <1>4, <1>5
<1>6. CASE step = "WAITING_SYNC_ACK" /\ Completes(a, "SYNC_DONE")
  BY <1>4, <1>6
<1>7. \/ Quietly(a)
      \/ /\ SrvSyncRequest(a) /\ started /\ a2s[a] # << >> /\ Head(a2s[a]) = Request
         /\ a2s' = Consume(a2s, a) /\ opqueue' = Append(opqueue, a)
         /\ \/ opqueue = << >> /\ step = "READY" /\ step' = "WAITING_STOP_ACK"
            \/ opqueue # << >> /\ UNCHANGED step
      \/ /\ SrvSyncInfo(a) /\ started /\ OnTurn(a)
         /\ a2s[a] # << >> /\ a2s' = Consume(a2s, a) /\ Head(a2s[a]).type = "SYNC_INFO"
         /\ step' = "WAITING_SYNC_ACK" /\ UNCHANGED opqueue
      \/ OnTurn(a) /\ Completes(a, "SYNC_INFO")
      \/ step = "WAITING_SYNC_ACK" /\ Completes(a, "SYNC_DONE")
  BY LineKinds
<1> QED BY <1>1, <1>2, <1>3, <1>5, <1>6, <1>7

LEMMA ArbiterSend ==
  ASSUME a2s \in [Arbiters -> Seq(Message)], NEW a \in Arbiters, NEW m
  PROVE  Send(a2s, a, m) = SendAll(a2s, {a}, m) /\ a2s = SendAll(a2s, {}, m)
BY DEF Send, SendAll

(* What an arbiter says when it neither asks nor returns the data.         *)
LEMMA ArbiterTalks ==
  ASSUME TypeOK, PlaceInv, NEW a \in Arbiters, ArbiterStep(a),
         ~\E p \in Procs : ArbSyncRequest(a, p) \/ ArbForwardSync(a, p)
  PROVE  \E S : \E x \in Message : a2s' = SendAll(a2s, S, x) /\ x.type \notin {"SYNC_REQ", "SYNC_INFO"}
<1>0. /\ a2s \in [Arbiters -> Seq(Message)] /\ p2a \in [Procs -> Seq(Message)]
      /\ fds \in [Arbiters -> Seq(Procs)]
  BY DEF TypeOK, NetTypeOK, ArbiterTypeOK
<1>1. /\ Simple("PRGM_DONE") \in Message /\ Simple("PRGM_DONE").type = "PRGM_DONE"
      /\ Done("STOP_DONE", NLocal(a)) \in Message /\ Done("STOP_DONE", NLocal(a)).type = "STOP_DONE"
      /\ Done("SYNC_DONE", NLocal(a)) \in Message /\ Done("SYNC_DONE", NLocal(a)).type = "SYNC_DONE"
  <2>1. NLocal(a) \in Nat
    BY <1>0 DEF NLocal
  <2> QED BY <2>1, MessageTypes DEF Simple, Done, SimpleTypes
<1>2. UNCHANGED a2s => \E S : \E x \in Message : a2s' = SendAll(a2s, S, x) /\ x.type \notin {"SYNC_REQ", "SYNC_INFO"}
  <2>1. a2s = SendAll(a2s, {}, Simple("PRGM_DONE"))
    BY <1>0, ArbiterSend
  <2> QED BY <1>1, <2>1
<1>3. ASSUME NEW x \in Message, a2s' = Send(a2s, a, x), x.type \notin {"SYNC_REQ", "SYNC_INFO"}
      PROVE  \E S : \E y \in Message : a2s' = SendAll(a2s, S, y) /\ y.type \notin {"SYNC_REQ", "SYNC_INFO"}
  <2>1. Send(a2s, a, x) = SendAll(a2s, {a}, x)
    BY <1>0, ArbiterSend
  <2> QED BY <1>3, <2>1
<1>4. ASSUME NEW p \in Procs, ArbAddProc(a, p) \/ ArbWaitBarr(a, p)
      PROVE  \/ UNCHANGED a2s
             \/ /\ a2s' = Send(a2s, a, Head(p2a[p])) /\ Head(p2a[p]) \in Message
                /\ Head(p2a[p]).type \in {"ADD_PROC", "WAIT_BARR"}
  <2>1. p2a[p] # << >> /\ Head(p2a[p]).type \in {"ADD_PROC", "WAIT_BARR"}
    BY <1>4 DEF ArbAddProc, ArbWaitBarr, FromProcess, Waiting
  <2>2. Head(p2a[p]) \in Message
    BY <1>0, <2>1, SeqTypes
  <2> QED BY <1>4, <2>1, <2>2 DEF ArbAddProc, ArbWaitBarr, ArbPanic
<1>5. CASE \E p \in Procs : ArbAccept(a, p) \/ ArbPrgmDone(a, p)
  BY <1>2, <1>5 DEF ArbAccept, ArbPrgmDone, channels
<1>6. CASE \E p \in Procs : ArbAddProc(a, p) \/ ArbWaitBarr(a, p)
  BY <1>2, <1>3, <1>4, <1>6
<1>7. CASE (\E f \in BOOLEAN : ArbPoll(a, f)) \/ ArbSetGid(a) \/ ArbContAll(a) \/ ArbWaitDone(a) \/ ArbWriteOkay(a)
  BY <1>2, <1>7 DEF ArbPoll, ArbSetGid, ArbContAll, ArbWaitDone, ArbWriteOkay, channels, ArbPanic
<1>8. CASE ArbStopAll(a)
  BY <1>1, <1>2, <1>3, <1>8 DEF ArbStopAll, ArbPanic
<1>9. CASE ArbApplySync(a)
  BY <1>1, <1>3, <1>9 DEF ArbApplySync
<1>10. CASE ArbExit(a)
  BY <1>1, <1>3, <1>10 DEF ArbExit
<1> QED BY <1>5, <1>6, <1>7, <1>8, <1>9, <1>10 DEF ArbiterStep, FromProcessStep, FromServerStep

LEMMA LineArbiter ==
  ASSUME TypeOK, PlaceInv, GrantInv, LineInv, NEW a \in Arbiters, ArbiterStep(a),
         UNCHANGED <<serverVars, procVars>>
  PROVE  LineInv'
<1> SUFFICES ASSUME NEW b \in Arbiters PROVE LineAt(b)'
  BY DEF LineInv
<1>0. /\ a2s \in [Arbiters -> Seq(Message)] /\ arbQueue \in [Arbiters -> Seq(Procs)] /\ LineAt(b)
      /\ UNCHANGED <<step, opqueue>>
      /\ NoOf(opqueue, b) \in Nat /\ NoIn(a2s, b, Request) \in Nat /\ Len(arbQueue[b]) \in Nat
  BY LineTypes DEF TypeOK, NetTypeOK, ArbiterTypeOK, LineInv, serverVars, writeVars
<1>1. CASE b # a
  <2>1. arbQueue'[b] = arbQueue[b] /\ a2s'[b] = a2s[b]
    BY <1>1, ArbiterIsLocal DEF SameMachine
  <2> QED BY <1>0, <2>1 DEF LineAt, Served, Returned, Has, NoIn
<1>2. ASSUME NEW S, NEW x \in Message, a2s' = SendAll(a2s, S, x), x.type \notin {"SYNC_REQ", "SYNC_INFO"},
             UNCHANGED arbQueue
      PROVE  LineAt(b)'
  <2>1. NoIn(a2s', b, Request) = NoIn(a2s, b, Request) /\ (Returned(b)' <=> Returned(b))
    BY <1>0, <1>2, LineSends
  <2> QED BY <1>0, <1>2, <2>1 DEF LineAt, Served
<1>3. ASSUME NEW p \in Procs, ArbSyncRequest(a, p), b = a PROVE LineAt(b)'
  <2>1. a2s' = SendAll(a2s, {a}, Request) /\ arbQueue'[a] = Append(arbQueue[a], p)
    <3>1. Send(a2s, a, Request) = SendAll(a2s, {a}, Request)
      BY <1>0, ArbiterSend
    <3> QED BY <1>0, <1>3, <3>1 DEF ArbSyncRequest, Request, Enqueued
  <2>2. NoIn(a2s', b, Request) = NoIn(a2s, b, Request) + 1
    BY <1>0, <1>3, <2>1, RequestIs, RequestSent
  <2>3. Returned(b)' <=> Returned(b)
    BY <1>0, <2>1, RequestIs, SendSame DEF Same, Returned
  <2>4. Len(arbQueue'[b]) = Len(arbQueue[b]) + 1
    BY <1>0, <1>3, <2>1
  <2> QED BY <1>0, <2>2, <2>3, <2>4 DEF LineAt, Served
<1>4. ASSUME NEW p \in Procs, ArbForwardSync(a, p), b = a PROVE LineAt(b)'
  <2>1. /\ p \in pass[a] /\ p2a[p] # << >> /\ Head(p2a[p]).type = "SYNC_INFO"
        /\ p2a \in [Procs -> Seq(Message)]
    BY <1>4 DEF ArbForwardSync, FromProcess, Waiting, TypeOK, NetTypeOK
  <2>2. Home[p] = a /\ Returning(p) /\ Head(p2a[p]) \in Message
    BY <2>1, ReaderIsLocal, ConsumeHas, ChannelTypes DEF Returning
  <2>3. ~Returned(a) /\ OnTurn(a) /\ AtHead(p)
    BY <2>2 DEF GrantInv, Apart, InOrder, Holds
  <2>4. a2s' = SendAll(a2s, {a}, Head(p2a[p])) /\ arbQueue[a] # << >> /\ arbQueue'[a] = Tail(arbQueue[a])
    <3>1. Send(a2s, a, Head(p2a[p])) = SendAll(a2s, {a}, Head(p2a[p]))
      BY <1>0, ArbiterSend
    <3> QED BY <1>0, <1>4, <2>2, <2>3, <3>1 DEF ArbForwardSync, AtHead
  <2>5. NoIn(a2s', b, Request) = NoIn(a2s, b, Request)
    <3>1. Head(p2a[p]) # Request
      BY <2>1, RequestIs
    <3> QED BY <1>0, <2>2, <2>4, <3>1, RequestSent
  <2>6. Returned(a)'
    BY <1>0, <2>1, <2>2, <2>4, SendAllHas DEF Returned
  <2>7. ~Served(b) /\ Served(b)'
    BY <1>4, <2>3, <2>6 DEF Served, OnTurn
  <2>8. Len(arbQueue'[b]) = Len(arbQueue[b]) - 1
    BY <1>0, <1>4, <2>4
  <2> QED BY <1>0, <2>5, <2>7, <2>8 DEF LineAt
<1>5. CASE b = a /\ ~\E p \in Procs : ArbSyncRequest(a, p) \/ ArbForwardSync(a, p)
  <2>1. UNCHANGED arbQueue
    BY <1>5 DEF ArbiterStep, FromProcessStep, FromServerStep, ArbAccept, ArbAddProc, ArbWaitBarr, ArbPrgmDone,
                ArbSetGid, ArbStopAll, ArbContAll, ArbWaitDone, ArbWriteOkay, ArbApplySync, ArbPoll, ArbExit, ArbPanic
  <2>2. \E S : \E x \in Message : a2s' = SendAll(a2s, S, x) /\ x.type \notin {"SYNC_REQ", "SYNC_INFO"}
    BY <1>5, ArbiterTalks
  <2> QED BY <1>2, <2>1, <2>2
<1> QED BY <1>1, <1>3, <1>4, <1>5

LEMMA LineStep ==
  ASSUME TypeInv, PlaceInv, StepMatchesQueue, GrantInv, StopInv, StartInv, LineInv, [Next]_vars
  PROVE  LineInv'
<1>0. TypeOK
  BY DEF TypeInv
<1>1. ASSUME UNCHANGED <<a2s, arbQueue, step, opqueue>> PROVE LineInv'
  BY <1>1 DEF LineInv, LineAt, Served, Returned, Has, NoIn
<1>2. ASSUME NEW p \in Procs, ProcessStep(p) \/ ProcKilled(p), UNCHANGED <<serverVars, arbVars, a2s, s2a>>
      PROVE  LineInv'
  BY <1>1, <1>2 DEF serverVars, writeVars, arbVars
<1>3. ASSUME NEW p \in Procs, ProcessLosesArbiter(p) PROVE LineInv'
  BY <1>1, <1>3 DEF ProcessLosesArbiter, serverVars, writeVars, arbVars, netVars, channels
<1>4. CASE Breaks
  BY <1>1, <1>4 DEF Breaks, writeVars, netVars, channels
<1> QED BY <1>0, <1>2, <1>3, <1>4, LineServer, LineArbiter, StepKinds

-----------------------------------------------------------------------------
(* p's number (MSG_SET_GID) is in the channel.                             *)
HasName(ch, k, p)  == \E i \in DOMAIN ch[k] : ch[k][i].type = "SET_GID" /\ ch[k][i].pid = p
OnceName(ch, k, p) ==
  \A i, j \in DOMAIN ch[k] :
    (ch[k][i].type = "SET_GID" /\ ch[k][i].pid = p /\ ch[k][j].type = "SET_GID" /\ ch[k][j].pid = p) => i = j

LEMMA SendName ==
  ASSUME NEW K, NEW ch \in [K -> Seq(Message)], NEW S, NEW x \in Message, NEW j \in K, NEW p
  PROVE  /\ HasName(SendAll(ch, S, x), j, p) <=>
              HasName(ch, j, p) \/ (j \in S /\ x.type = "SET_GID" /\ x.pid = p)
         /\ OnceName(ch, j, p) /\ ~(j \in S /\ x.type = "SET_GID" /\ x.pid = p /\ HasName(ch, j, p))
              => OnceName(SendAll(ch, S, x), j, p)
<1>1. ch[j] \in Seq(Message) /\ DOMAIN ch = K
  OBVIOUS
<1>2. CASE j \notin S
  <2>1. SendAll(ch, S, x)[j] = ch[j]
    BY <1>1, <1>2 DEF SendAll
  <2> QED BY <1>2, <2>1 DEF HasName, OnceName
<1>3. CASE j \in S
  <2>1. SendAll(ch, S, x)[j] = Append(ch[j], x)
    BY <1>1, <1>3 DEF SendAll
  <2>2. /\ DOMAIN Append(ch[j], x) = 1 .. Len(ch[j]) + 1 /\ DOMAIN ch[j] = 1 .. Len(ch[j])
        /\ Len(ch[j]) \in Nat
        /\ \A i \in DOMAIN ch[j] : Append(ch[j], x)[i] = ch[j][i]
        /\ Append(ch[j], x)[Len(ch[j]) + 1] = x
    BY <1>1, AppendPlaces
  <2>3. \A i \in DOMAIN Append(ch[j], x) : i \in DOMAIN ch[j] \/ i = Len(ch[j]) + 1
    BY <2>2
  <2>4. \A i \in DOMAIN ch[j] : i \in DOMAIN Append(ch[j], x)
    BY <2>2
  <2>5. Len(ch[j]) + 1 \in DOMAIN Append(ch[j], x)
    BY <2>2
  <2>6. HasName(SendAll(ch, S, x), j, p) => HasName(ch, j, p) \/ (x.type = "SET_GID" /\ x.pid = p)
    BY <2>1, <2>2, <2>3 DEF HasName
  <2>7. HasName(ch, j, p) => HasName(SendAll(ch, S, x), j, p)
    BY <2>1, <2>2, <2>4 DEF HasName
  <2>8. x.type = "SET_GID" /\ x.pid = p => HasName(SendAll(ch, S, x), j, p)
    BY <2>1, <2>2, <2>5 DEF HasName
  <2>9. ASSUME OnceName(ch, j, p), ~(x.type = "SET_GID" /\ x.pid = p /\ HasName(ch, j, p))
        PROVE  OnceName(SendAll(ch, S, x), j, p)
    <3> DEFINE s == Append(ch[j], x)
               Is(e) == e.type = "SET_GID" /\ e.pid = p
    <3>1. ASSUME NEW i \in DOMAIN s, NEW l \in DOMAIN s, Is(s[i]), Is(s[l]) PROVE i = l
      <4>1. CASE i \in DOMAIN ch[j] /\ l \in DOMAIN ch[j]
        BY <2>2, <2>9, <3>1, <4>1 DEF OnceName
      <4>2. CASE i \notin DOMAIN ch[j] /\ l \notin DOMAIN ch[j]
        BY <2>3, <3>1, <4>2
      <4>3. i \in DOMAIN ch[j] => HasName(ch, j, p)
        BY <2>2, <3>1 DEF HasName
      <4>4. l \in DOMAIN ch[j] => HasName(ch, j, p)
        BY <2>2, <3>1 DEF HasName
      <4>5. i = Len(ch[j]) + 1 \/ l = Len(ch[j]) + 1 => Is(x)
        BY <2>2, <3>1
      <4> QED BY <2>3, <2>9, <3>1, <4>1, <4>2, <4>3, <4>4, <4>5
    <3>2. SendAll(ch, S, x)[j] = s
      BY <2>1
    <3> HIDE DEF s
    <3>3. \A i, l \in DOMAIN s : Is(s[i]) /\ Is(s[l]) => i = l
      BY <3>1
    <3> QED BY <3>2, <3>3 DEF OnceName
  <2> QED BY <1>3, <2>6, <2>7, <2>8, <2>9
<1> QED BY <1>2, <1>3

LEMMA ConsumeName ==
  ASSUME NEW K, NEW ch \in [K -> Seq(Message)], NEW k \in K, ch[k] # << >>, NEW j \in K, NEW p
  PROVE  /\ HasName(Consume(ch, k), j, p) => HasName(ch, j, p)
         /\ HasName(ch, j, p) => \/ HasName(Consume(ch, k), j, p)
                                 \/ j = k /\ Head(ch[k]).type = "SET_GID" /\ Head(ch[k]).pid = p
         /\ OnceName(ch, j, p) => OnceName(Consume(ch, k), j, p)
         /\ Head(ch[k]).type = "SET_GID" /\ Head(ch[k]).pid = p =>
              HasName(ch, k, p) /\ (OnceName(ch, k, p) => ~HasName(Consume(ch, k), k, p))
<1>1. ch[k] \in Seq(Message) /\ DOMAIN ch = K
  OBVIOUS
<1>2. /\ DOMAIN ch[k] = 1 .. Len(ch[k]) /\ Len(ch[k]) \in Nat \ {0}
      /\ DOMAIN Tail(ch[k]) = 1 .. Len(ch[k]) - 1
      /\ \A i \in DOMAIN Tail(ch[k]) : i + 1 \in DOMAIN ch[k] /\ Tail(ch[k])[i] = ch[k][i + 1]
      /\ Head(ch[k]) = ch[k][1]
  BY <1>1, TailPlaces
<1>3. /\ 1 \in DOMAIN ch[k]
      /\ \A i \in DOMAIN ch[k] : i = 1 \/ (i - 1 \in DOMAIN Tail(ch[k]) /\ (i - 1) + 1 = i)
      /\ \A i, l \in DOMAIN Tail(ch[k]) : i + 1 # 1 /\ (i + 1 = l + 1 => i = l)
  BY <1>2
<1>4. Consume(ch, k)[j] = IF j = k THEN Tail(ch[k]) ELSE ch[j]
  BY <1>1 DEF Consume
<1>5. Consume(ch, k)[k] = Tail(ch[k])
  BY <1>1 DEF Consume
<1>6. CASE j # k
  <2>1. Consume(ch, k)[j] = ch[j]
    BY <1>4, <1>6
  <2>2. Head(ch[k]).type = "SET_GID" /\ Head(ch[k]).pid = p => HasName(ch, k, p)
    BY <1>2, <1>3 DEF HasName
  <2>3. Head(ch[k]).type = "SET_GID" /\ Head(ch[k]).pid = p /\ OnceName(ch, k, p) => ~HasName(Consume(ch, k), k, p)
    BY <1>2, <1>3, <1>5 DEF HasName, OnceName
  <2> QED BY <1>6, <2>1, <2>2, <2>3 DEF HasName, OnceName
<1>7. CASE j = k
  <2>1. HasName(Consume(ch, k), k, p) => HasName(ch, k, p)
    BY <1>2, <1>5 DEF HasName
  <2>2. HasName(ch, k, p) => HasName(Consume(ch, k), k, p) \/ (Head(ch[k]).type = "SET_GID" /\ Head(ch[k]).pid = p)
    BY <1>2, <1>3, <1>5 DEF HasName
  <2>3. OnceName(ch, k, p) => OnceName(Consume(ch, k), k, p)
    BY <1>2, <1>3, <1>5 DEF OnceName
  <2>4. Head(ch[k]).type = "SET_GID" /\ Head(ch[k]).pid = p => HasName(ch, k, p)
    BY <1>2, <1>3 DEF HasName
  <2>5. Head(ch[k]).type = "SET_GID" /\ Head(ch[k]).pid = p /\ OnceName(ch, k, p) => ~HasName(Consume(ch, k), k, p)
    BY <1>2, <1>3, <1>5 DEF HasName, OnceName
  <2> QED BY <1>7, <2>1, <2>2, <2>3, <2>4, <2>5
<1> QED BY <1>6, <1>7

LEMMA NameIs ==
  ASSUME NEW K, NEW ch \in [K -> Seq(Message)], NEW k \in K
  PROVE  Has(ch, k, "SET_GID") <=> \E p \in Procs : HasName(ch, k, p)
<1>1. \A i \in DOMAIN ch[k] : ch[k][i] \in Message
  OBVIOUS
<1> QED BY <1>1, PayloadTypes DEF Has, HasName

(***************************************************************************)
(* A process that waits for its number is known by the one place where its *)
(* number is: its own request (MSG_ADD_PROC) is under way, or the server's *)
(* answer, to its arbiter or to itself.  The numbers come before the start *)
(* of the session (MSG_WAIT_DONE) on each channel.                         *)
(***************************************************************************)
Joining(p) == In(p2a, p, AddProc(p)) \/ In(a2s, Home[p], AddProc(p))
Naming(p)  == HasName(s2a, Home[p], p)
Named(p)   == Has(a2p, p, "SET_GID")
NameTo(a) ==
  /\ \A p \in Procs : HasName(s2a, a, p) => Home[p] = a /\ ptab[p].used /\ ~arbStarted[a]
  /\ \A p \in Procs : OnceName(s2a, a, p)
  /\ NoneBehind(s2a[a], "WAIT_DONE", "SET_GID")
Answers == {"SET_GID", "WAIT_DONE", "WRITE_OKAY"}
AnswersTo(p) ==
  /\ Once(a2p, p, "SET_GID") /\ Once(a2p, p, "WAIT_DONE")
  /\ \A q \in Procs : HasName(a2p, p, q) => q = p
  /\ \A t : Has(a2p, p, t) => t \in Answers
  /\ NoneBehind(a2p[p], "WAIT_DONE", "SET_GID")
NameOf(p) ==
  /\ Naming(p) \/ Named(p) => ~Joining(p)
  /\ ~(Naming(p) /\ Named(p))
  /\ AnswersTo(p)
  /\ loc[p] \notin {"recv_gid"} \cup Dead => ~Joining(p) /\ ~Naming(p) /\ ~Named(p)
  /\ loc[p] = "recv_gid" => Joining(p) \/ Naming(p) \/ Named(p)
  /\ Has(a2p, p, "WAIT_DONE") => loc[p] \in {"recv_gid", "recv_waitDone"} \cup Dead
NameInv == /\ started => \A p \in Procs : ~Joining(p)
           /\ \A a \in Arbiters : NameTo(a)
           /\ \A p \in Procs : NameOf(p)

LEMMA NameInit == Init => NameInv
<1> SUFFICES ASSUME Init PROVE NameInv
  OBVIOUS
<1>1. /\ ~started
      /\ \A a \in Arbiters : s2a[a] = << >> /\ a2s[a] = << >>
      /\ \A p \in Procs : p2a[p] = << >> /\ a2p[p] = << >> /\ loc[p] = "connect" /\ Home[p] \in Arbiters
  BY HomeAssumption DEF Init, ServerInit, NetInit, ProcessInit
<1>2. \A a \in Arbiters : NameTo(a)
  BY <1>1 DEF NameTo, HasName, OnceName, NoneBehind
<1>3. \A p \in Procs : AnswersTo(p) /\ ~Has(a2p, p, "WAIT_DONE") /\ ~Named(p)
  BY <1>1 DEF AnswersTo, Named, Has, HasName, Once, NoneBehind
<1>4. \A p \in Procs : ~Joining(p) /\ ~Naming(p)
  BY <1>1 DEF Joining, Naming, In, HasName
<1> QED BY <1>1, <1>2, <1>3, <1>4 DEF NameInv, NameOf

(* The first message of its kind has none of the other kind behind it.     *)
LEMMA FirstHasNone ==
  ASSUME NEW s \in Seq(Message), s # << >>, NEW u, NoneBehind(s, Head(s).type, u)
  PROVE  \A j \in DOMAIN s : s[j].type # u
<1>1. DOMAIN s = 1 .. Len(s) /\ Len(s) \in Nat \ {0} /\ Head(s) = s[1]
  BY TailPlaces
<1>2. 1 \in DOMAIN s /\ \A j \in DOMAIN s : ~(j < 1)
  BY <1>1
<1> QED BY <1>1, <1>2 DEF NoneBehind

(* Where a process's request to join is, is where its messages are.        *)
LEMMA JoiningSame ==
  ASSUME NEW q \in Procs, Same(p2a, p2a', Procs, "ADD_PROC"), Same(a2s, a2s', Arbiters, "ADD_PROC")
  PROVE  Joining(q)' <=> Joining(q)
<1>1. AddProc(q).type = "ADD_PROC" /\ Home[q] \in Arbiters
  BY AddProcIs, HomeAssumption
<1>2. In(p2a', q, AddProc(q)) <=> In(p2a, q, AddProc(q))
  BY <1>1 DEF Same
<1>3. In(a2s', Home[q], AddProc(q)) <=> In(a2s, Home[q], AddProc(q))
  BY <1>1 DEF Same
<1>4. Joining(q)' <=> In(p2a', q, AddProc(q)) \/ In(a2s', Home[q], AddProc(q))
  BY DEF Joining, In
<1> QED BY <1>2, <1>3, <1>4 DEF Joining

LEMMA NameSame ==
  ASSUME NameInv, UNCHANGED <<started, arbStarted, loc, s2a, a2p>>,
         \A q \in Procs : ptab'[q].used = ptab[q].used,
         \A q \in Procs : Joining(q)' <=> Joining(q)
  PROVE  NameInv'
<1>1. \A a \in Arbiters : NameTo(a)'
  BY DEF NameInv, NameTo, HasName, OnceName
<1>2. ASSUME NEW q \in Procs PROVE NameOf(q)'
  <2>1. /\ Naming(q)' <=> Naming(q)
        /\ Named(q)' <=> Named(q)
        /\ AnswersTo(q) => AnswersTo(q)'
        /\ Has(a2p, q, "WAIT_DONE")' <=> Has(a2p, q, "WAIT_DONE")
    BY DEF Naming, Named, HasName, Has, AnswersTo, Once
  <2> QED BY <2>1 DEF NameInv, NameOf
<1> QED BY <1>1, <1>2 DEF NameInv

(* What the server reads and sends while it registers nobody.              *)
LEMMA ReadsAddProc ==
  ASSUME TypeOK, NEW a \in Arbiters, ServerStep(a), ~Registers(a)
  PROVE  \/ UNCHANGED a2s
         \/ /\ a2s[a] # << >> /\ a2s' = Consume(a2s, a)
            /\ Head(a2s[a]).type = "ADD_PROC" => started
BY DEF ServerStep, Registers, SrvAccept, SrvReceive, SrvAddProc, SrvSyncRequest, SrvStopDone, SrvSyncInfo,
       SrvSyncDone, SrvWaitBarr, SrvPrgmDone, Waiting

LEMMA NameServerKept ==
  ASSUME TypeOK, JoinInv, NameInv, NEW a \in Arbiters, ServerStep(a), ~Registers(a),
         UNCHANGED <<arbVars, procVars, p2a, a2p, signals, mem>>
  PROVE  NameInv'
<1>0. /\ a2s \in [Arbiters -> Seq(Message)] /\ s2a \in [Arbiters -> Seq(Message)]
      /\ UNCHANGED <<started, arbStarted, ptab, loc, p2a, a2p>>
  BY ServerEffect DEF TypeOK, NetTypeOK, arbVars, procVars
<1>9. \E S : \E x \in Message : s2a' = SendAll(s2a, S, x) /\ x.type # "SET_GID"
  BY ServerEffect
<1>1. PICK S : \E x \in Message : s2a' = SendAll(s2a, S, x) /\ x.type # "SET_GID"
  BY <1>9
<1>10. PICK x \in Message : s2a' = SendAll(s2a, S, x) /\ x.type # "SET_GID"
  BY <1>1
<1>2. Same(a2s, a2s', Arbiters, "ADD_PROC")
  <2>1. CASE UNCHANGED a2s
    BY <2>1, SameChannel
  <2>2. CASE /\ a2s[a] # << >> /\ a2s' = Consume(a2s, a)
             /\ Head(a2s[a]).type = "ADD_PROC" => started
    <3>1. Head(a2s[a]).type # "ADD_PROC"
      <4> SUFFICES ASSUME Head(a2s[a]).type = "ADD_PROC" PROVE FALSE
        OBVIOUS
      <4>1. Head(a2s[a]) \in Message /\ In(a2s, a, Head(a2s[a]))
        BY <1>0, <2>2, ChannelTypes, HasIn
      <4>2. Head(a2s[a]).pid \in Procs /\ Head(a2s[a]) = AddProc(Head(a2s[a]).pid)
        BY <4>1 DEF Message, SimpleTypes, AddProc
      <4>3. Home[Head(a2s[a]).pid] = a
        BY <4>1, <4>2 DEF JoinInv
      <4> QED BY <2>2, <4>1, <4>2, <4>3 DEF NameInv, Joining
    <3> QED BY <1>0, <2>2, <3>1, ConsumeSame
  <2> QED BY <2>1, <2>2, ReadsAddProc
<1>3. Same(p2a, p2a', Procs, "ADD_PROC")
  BY <1>0, SameChannel
<1>4. \A q \in Procs : Joining(q)' <=> Joining(q)
  BY <1>2, <1>3, JoiningSame
<1>5. \A b \in Arbiters : \A q \in Procs :
        /\ HasName(s2a', b, q) <=> HasName(s2a, b, q)
        /\ OnceName(s2a, b, q) => OnceName(s2a', b, q)
  BY <1>0, <1>10, SendName
<1>6. \A b \in Arbiters : NoneBehind(s2a[b], "WAIT_DONE", "SET_GID") => NoneBehind(s2a'[b], "WAIT_DONE", "SET_GID")
  <2> TAKE b \in Arbiters
  <2>1. s2a[b] \in Seq(Message) /\ s2a'[b] = IF b \in S THEN Append(s2a[b], x) ELSE s2a[b]
    BY <1>0, <1>10 DEF SendAll
  <2> QED BY <1>10, <2>1, OrderAppend
<1>7. \A b \in Arbiters : NameTo(b)'
  <2> SUFFICES ASSUME NEW b \in Arbiters PROVE NameTo(b)'
    OBVIOUS
  <2>1. \A q \in Procs : HasName(s2a', b, q) => Home[q] = b /\ ptab'[q].used /\ ~arbStarted'[b]
    BY <1>0, <1>5 DEF NameInv, NameTo
  <2>2. \A q \in Procs : OnceName(s2a', b, q)
    BY <1>5 DEF NameInv, NameTo
  <2>3. NoneBehind(s2a'[b], "WAIT_DONE", "SET_GID")
    BY <1>6 DEF NameInv, NameTo
  <2> QED BY <2>1, <2>2, <2>3 DEF NameTo, HasName, OnceName
<1>8. ASSUME NEW q \in Procs PROVE NameOf(q)'
  <2>1. Naming(q)' <=> Naming(q)
    BY <1>5, HomeAssumption DEF Naming, HasName
  <2>2. /\ Named(q)' <=> Named(q)
        /\ AnswersTo(q) => AnswersTo(q)'
        /\ Has(a2p, q, "WAIT_DONE")' <=> Has(a2p, q, "WAIT_DONE")
    BY <1>0 DEF Named, HasName, Has, AnswersTo, Once
  <2> QED BY <1>0, <1>4, <2>1, <2>2 DEF NameInv, NameOf
<1> QED BY <1>0, <1>4, <1>7, <1>8 DEF NameInv

(* Two who have not registered yet: one more does not start the session.   *)
LEMMA TwoMissing ==
  ASSUME TypeOK, JoinInv, CountInv, ~started, NEW p \in Procs, NEW q \in Procs, p # q,
         Joining(p), Joining(q)
  PROVE  ~AllRegistered
<1>1. ASSUME NEW r \in Procs, Joining(r) PROVE ~Reg(r)
  BY <1>1 DEF Joining, JoinInv, Reg
<1>2. IsFiniteSet(Procs) /\ NProc = Cardinality(Procs) /\ NProc \in Nat
  BY ProcsAssumption, NProcType DEF NProc
<1>3. IsFiniteSet(Procs \ {p}) /\ Cardinality(Procs \ {p}) = NProc - 1
  BY <1>2, FS_RemoveElement
<1>4. IsFiniteSet((Procs \ {p}) \ {q}) /\ Cardinality((Procs \ {p}) \ {q}) = NProc - 2
  <2>1. q \in Procs \ {p}
    OBVIOUS
  <2>2. Cardinality((Procs \ {p}) \ {q}) = Cardinality(Procs \ {p}) - 1 /\ IsFiniteSet((Procs \ {p}) \ {q})
    BY <1>3, <2>1, FS_RemoveElement
  <2> QED BY <1>2, <1>3, <2>2
<1>5. Registered \subseteq (Procs \ {p}) \ {q}
  BY <1>1 DEF Registered
<1>6. Cardinality(Registered) <= NProc - 2 /\ Cardinality(Registered) \in Nat
  BY <1>4, <1>5, FS_Subset, FS_CardinalityType
<1>7. nproc_waiting \in Nat /\ gid = nproc_waiting /\ gid <= Cardinality(Registered)
  BY DEF CountInv, TypeOK, ServerTypeOK
<1> QED BY <1>2, <1>6, <1>7 DEF AllRegistered

LEMMA NameRegisters ==
  ASSUME TypeOK, ChainInv, JoinInv, CountInv, StartInv, NameInv, NEW a \in Arbiters, Registers(a),
         UNCHANGED <<arbVars, procVars, p2a, a2p, signals, mem>>
  PROVE  NameInv'
<1> DEFINE m == Head(a2s[a])
           p == m.pid
           s == SendAll(s2a, {a}, SetGid(p, gid))
<1>0. /\ a2s \in [Arbiters -> Seq(Message)] /\ s2a \in [Arbiters -> Seq(Message)] /\ gid \in Nat
      /\ UNCHANGED <<arbStarted, ptab, loc, p2a, a2p>> /\ ~started
  BY DEF TypeOK, NetTypeOK, ServerTypeOK, arbVars, procVars, Registers
<1>1. /\ a2s[a] # << >> /\ a2s' = Consume(a2s, a) /\ m.type = "ADD_PROC"
      /\ s2a' = IF AllRegistered THEN SendAll(s, conns, Simple("WAIT_DONE")) ELSE s
      /\ started' = AllRegistered
  <2>1. Send(s2a, a, SetGid(p, gid)) = s
    BY <1>0 DEF Send, SendAll
  <2> QED BY <1>0, <2>1 DEF Registers, SrvAddProc, SrvReceive, Waiting, SrvPanic
<1>2. p \in Procs /\ m = AddProc(p) /\ In(a2s, a, m)
  <2>1. m \in Message /\ In(a2s, a, m)
    BY <1>0, <1>1, ChannelTypes, HasIn
  <2> QED BY <1>1, <2>1 DEF Message, SimpleTypes, AddProc
<1> HIDE DEF m, p
<1>3. /\ Home[p] = a /\ ptab[p].used /\ OnceOf(a2s, a, AddProc(p)) /\ Joining(p)
      /\ ~In(p2a, p, AddProc(p))
  BY <1>0, <1>2 DEF JoinInv, Joining
<1>4. /\ ~Naming(p) /\ ~Named(p) /\ loc[p] \in {"recv_gid"} \cup Dead
      /\ \A b \in Arbiters : ~arbStarted[b] /\ ~Has(s2a, b, "WAIT_DONE")
  <2>1. /\ ~Naming(p) /\ ~Named(p) /\ loc[p] \in {"recv_gid"} \cup Dead
    BY <1>2, <1>3 DEF NameInv, NameOf
  <2> QED BY <1>0, <2>1 DEF StartInv, ChainInv
<1>5. ASSUME NEW q \in Procs PROVE Joining(q)' <=> Joining(q) /\ q # p
  <2>1. Joining(q)' <=> In(p2a, q, AddProc(q)) \/ In(a2s', Home[q], AddProc(q))
    BY <1>0 DEF Joining, In
  <2>2. /\ In(a2s', Home[q], AddProc(q)) => In(a2s, Home[q], AddProc(q))
        /\ In(a2s, Home[q], AddProc(q)) => In(a2s', Home[q], AddProc(q)) \/ AddProc(q) = m
    BY <1>0, <1>1, HomeAssumption, ConsumeIn DEF m
  <2>3. AddProc(q) = m <=> q = p
    BY <1>2, AddProcIs
  <2>4. q = p => ~In(a2s', Home[q], AddProc(q))
    <3>1. OnceOf(a2s, a, m) => ~In(Consume(a2s, a), a, m)
      BY <1>0, <1>1, ConsumeIn DEF m
    <3> QED BY <1>1, <1>2, <1>3, <3>1
  <2> QED BY <1>3, <2>1, <2>2, <2>3, <2>4 DEF Joining
<1>6. started' => \A q \in Procs : ~Joining(q)'
  BY <1>0, <1>1, <1>2, <1>3, <1>5, TwoMissing
<1>7. /\ SetGid(p, gid) \in Message /\ SetGid(p, gid).type = "SET_GID" /\ SetGid(p, gid).pid = p
      /\ Simple("WAIT_DONE") \in Message /\ Simple("WAIT_DONE").type = "WAIT_DONE"
  BY <1>0, <1>2, MessageTypes DEF SetGid, Simple, SimpleTypes
<1>8. ASSUME NEW b \in Arbiters, NEW q \in Procs
      PROVE  /\ HasName(s, b, q) <=> HasName(s2a, b, q) \/ (b = a /\ q = p)
             /\ OnceName(s2a, b, q) => OnceName(s, b, q)
             /\ s \in [Arbiters -> Seq(Message)]
  <2>1. /\ HasName(s, b, q) <=> HasName(s2a, b, q) \/ (b \in {a} /\ SetGid(p, gid).type = "SET_GID" /\ SetGid(p, gid).pid = q)
        /\ OnceName(s2a, b, q) /\ ~(b \in {a} /\ SetGid(p, gid).type = "SET_GID" /\ SetGid(p, gid).pid = q /\ HasName(s2a, b, q))
              => OnceName(s, b, q)
    BY <1>0, <1>7, SendName
  <2>2. ~HasName(s2a, a, p)
    BY <1>3, <1>4 DEF Naming
  <2>3. s \in [Arbiters -> Seq(Message)]
    BY <1>0, <1>7, ChannelTypes
  <2> QED BY <1>7, <2>1, <2>2, <2>3
<1>9. ASSUME NEW b \in Arbiters PROVE NoneBehind(s[b], "WAIT_DONE", "SET_GID")
  <2>1. s2a[b] \in Seq(Message) /\ s[b] = IF b = a THEN Append(s2a[b], SetGid(p, gid)) ELSE s2a[b]
    BY <1>0 DEF SendAll
  <2>2. NoneBehind(s2a[b], "WAIT_DONE", "SET_GID")
    BY DEF NameInv, NameTo
  <2>3. \A i \in DOMAIN s2a[b] : s2a[b][i].type # "WAIT_DONE"
    BY <1>4 DEF Has
  <2>4. NoneBehind(Append(s2a[b], SetGid(p, gid)), "WAIT_DONE", "SET_GID")
    BY <1>7, <2>1, <2>2, <2>3, OrderAppend
  <2> QED BY <2>1, <2>2, <2>4
<1>10. \A b \in Arbiters : \A q \in Procs :
         /\ HasName(s2a', b, q) <=> HasName(s2a, b, q) \/ (b = a /\ q = p)
         /\ OnceName(s2a, b, q) => OnceName(s2a', b, q)
  <2> SUFFICES ASSUME NEW b \in Arbiters, NEW q \in Procs
               PROVE  /\ HasName(s2a', b, q) <=> HasName(s2a, b, q) \/ (b = a /\ q = p)
                      /\ OnceName(s2a, b, q) => OnceName(s2a', b, q)
    OBVIOUS
  <2> HIDE DEF s
  <2>1. s \in [Arbiters -> Seq(Message)]
    BY <1>8
  <2>2. /\ HasName(SendAll(s, conns, Simple("WAIT_DONE")), b, q) <=> HasName(s, b, q)
        /\ OnceName(s, b, q) => OnceName(SendAll(s, conns, Simple("WAIT_DONE")), b, q)
    BY <1>7, <2>1, SendName
  <2> QED BY <1>1, <1>8, <2>2
<1>11. \A b \in Arbiters : NoneBehind(s2a'[b], "WAIT_DONE", "SET_GID")
  <2> SUFFICES ASSUME NEW b \in Arbiters PROVE NoneBehind(s2a'[b], "WAIT_DONE", "SET_GID")
    OBVIOUS
  <2> HIDE DEF s
  <2>1. s \in [Arbiters -> Seq(Message)] /\ NoneBehind(s[b], "WAIT_DONE", "SET_GID")
    BY <1>8, <1>9, <1>2
  <2>2. NoneBehind(Append(s[b], Simple("WAIT_DONE")), "WAIT_DONE", "SET_GID")
    BY <1>7, <2>1, OrderAppend
  <2>3. SendAll(s, conns, Simple("WAIT_DONE"))[b] = IF b \in conns THEN Append(s[b], Simple("WAIT_DONE")) ELSE s[b]
    BY <2>1 DEF SendAll
  <2> QED BY <1>1, <2>1, <2>2, <2>3
<1>12. \A b \in Arbiters : NameTo(b)'
  <2> SUFFICES ASSUME NEW b \in Arbiters PROVE NameTo(b)'
    OBVIOUS
  <2>1. \A q \in Procs : HasName(s2a', b, q) => Home[q] = b /\ ptab'[q].used /\ ~arbStarted'[b]
    BY <1>0, <1>3, <1>4, <1>10 DEF NameInv, NameTo
  <2>2. \A q \in Procs : OnceName(s2a', b, q)
    BY <1>10 DEF NameInv, NameTo
  <2>3. NoneBehind(s2a'[b], "WAIT_DONE", "SET_GID")
    BY <1>11
  <2> QED BY <2>1, <2>2, <2>3 DEF NameTo, HasName, OnceName
<1>13. ASSUME NEW q \in Procs PROVE NameOf(q)'
  <2>1. Naming(q)' <=> Naming(q) \/ q = p
    BY <1>3, <1>10, HomeAssumption DEF Naming, HasName
  <2>2. /\ Named(q)' <=> Named(q)
        /\ AnswersTo(q) => AnswersTo(q)'
        /\ Has(a2p, q, "WAIT_DONE")' <=> Has(a2p, q, "WAIT_DONE")
    BY <1>0 DEF Named, HasName, Has, AnswersTo, Once
  <2>3. Joining(q)' <=> Joining(q) /\ q # p
    BY <1>5
  <2>4. NameOf(q)
    BY DEF NameInv
  <2> QED BY <1>0, <1>3, <1>4, <2>1, <2>2, <2>3, <2>4 DEF NameOf
<1> QED BY <1>6, <1>12, <1>13 DEF NameInv

-----------------------------------------------------------------------------
(* Once its arbiter has started the session nobody joins it any more.      *)
LEMMA NobodyJoins ==
  ASSUME TypeOK, StartInv, JoinInv, NameInv, NEW a \in Arbiters, NEW p \in Procs, Home[p] = a,
         p2a[p] # << >>, Head(p2a[p]).type = "ADD_PROC"
  PROVE  /\ Head(p2a[p]) = AddProc(p) /\ In(p2a, p, AddProc(p)) /\ Joining(p)
         /\ ~ptab[p].used /\ ~arbStarted[a]
<1>1. p2a \in [Procs -> Seq(Message)]
  BY DEF TypeOK, NetTypeOK
<1>2. In(p2a, p, Head(p2a[p]))
  BY <1>1, HasIn
<1>3. Head(p2a[p]) = AddProc(p) /\ ~ptab[p].used
  BY <1>2 DEF JoinInv
<1>4. Joining(p)
  BY <1>2, <1>3 DEF Joining
<1> QED BY <1>2, <1>3, <1>4 DEF NameInv, StartInv

LEMMA NameRead ==
  ASSUME TypeOK, PlaceInv, ChainInv, JoinInv, StartInv, NameInv, NEW a \in Arbiters, NEW p \in Procs,
         FromProcessStep(a, p), Home[p] = a, UNCHANGED <<serverVars, procVars>>
  PROVE  NameInv'
<1> DEFINE m == Head(p2a[p])
<1>0. /\ a2s \in [Arbiters -> Seq(Message)] /\ p2a \in [Procs -> Seq(Message)]
      /\ UNCHANGED <<started, arbStarted, loc, s2a, a2p>>
      /\ p2a[p] # << >> /\ p2a' = Consume(p2a, p)
  <2>1. UNCHANGED arbStarted
    BY TableRead
  <2>2. p2a[p] # << >> /\ p2a' = Consume(p2a, p) /\ UNCHANGED <<s2a, a2p>>
    BY ReadEffect
  <2> QED BY <2>1, <2>2 DEF TypeOK, NetTypeOK, serverVars, procVars
<1>1. m \in Message /\ In(p2a, p, m) /\ Has(p2a, p, m.type)
  BY <1>0, HasIn
<1>2. ASSUME NEW q \in Procs, Naming(q) PROVE ptab'[q].used
  <2>1. ptab[q].used
    BY <1>2, HomeAssumption DEF Naming, NameInv, NameTo
  <2>2. q # p => ptab'[q].used = ptab[q].used
    BY ReadEffect
  <2>3. q = p => m.type # "PRGM_DONE"
    <3>1. loc[q] \notin Left
      BY <1>2 DEF NameInv, NameOf, Left, Dead
    <3> QED BY <1>1, <3>1 DEF ChainInv
  <2>4. m.type # "PRGM_DONE" => ptab'[p].used = ptab[p].used \/ ptab'[p].used
    BY ReadEffect
  <2> QED BY <2>1, <2>2, <2>3, <2>4
<1>3. \A b \in Arbiters : NameTo(b)'
  <2> SUFFICES ASSUME NEW b \in Arbiters PROVE NameTo(b)'
    OBVIOUS
  <2>1. NameTo(b)
    BY DEF NameInv
  <2>2. ASSUME NEW q \in Procs, HasName(s2a, b, q) PROVE Home[q] = b /\ ptab'[q].used /\ ~arbStarted[b]
    BY <1>2, <2>1, <2>2 DEF NameTo, Naming
  <2> QED BY <1>0, <2>1, <2>2 DEF NameTo, HasName, OnceName
<1>4. \A q \in Procs : Joining(q)' <=> Joining(q)
  <2>1. CASE m.type = "ADD_PROC"
    <3>1. m = AddProc(p) /\ Joining(p) /\ ~ptab[p].used /\ ~arbStarted[a]
      BY <1>0, <2>1, NobodyJoins
    <3>2. ArbAddProc(a, p)
      BY <2>1 DEF FromProcessStep, ArbSyncRequest, ArbForwardSync, ArbWaitBarr, ArbPrgmDone, FromProcess, Waiting
    <3>3. a2s' = SendAll(a2s, {a}, m)
      <4>1. a2s' = Send(a2s, a, m)
        BY <3>1, <3>2 DEF ArbAddProc
      <4> QED BY <1>0, <4>1, ArbiterSend
    <3> SUFFICES ASSUME NEW q \in Procs PROVE Joining(q)' <=> Joining(q)
      OBVIOUS
    <3>4. In(a2s', Home[q], AddProc(q)) <=> In(a2s, Home[q], AddProc(q)) \/ (Home[q] \in {a} /\ AddProc(q) = m)
      <4>1. Home[q] \in Arbiters
        BY HomeAssumption
      <4>2. In(SendAll(a2s, {a}, m), Home[q], AddProc(q)) <=> In(a2s, Home[q], AddProc(q)) \/ (Home[q] \in {a} /\ AddProc(q) = m)
        BY <1>0, <1>1, <4>1, SendAllIn
      <4> QED BY <3>3, <4>2
    <3>5. /\ In(p2a', q, AddProc(q)) => In(p2a, q, AddProc(q))
          /\ In(p2a, q, AddProc(q)) => In(p2a', q, AddProc(q)) \/ (q = p /\ AddProc(q) = m)
      BY <1>0, ConsumeIn
    <3>6. Joining(q)' <=> In(p2a', q, AddProc(q)) \/ In(a2s', Home[q], AddProc(q))
      BY <1>0 DEF Joining, In
    <3>7. AddProc(q) = m <=> q = p
      BY <3>1, AddProcIs
    <3> QED BY <3>1, <3>4, <3>5, <3>6, <3>7 DEF Joining
  <2>2. CASE m.type # "ADD_PROC"
    <3>1. Same(p2a, p2a', Procs, "ADD_PROC")
      BY <1>0, <2>2, ConsumeSame
    <3>2. \E S : \E x \in Message : x.type # "ADD_PROC" /\ a2s' = SendAll(a2s, S, x)
      BY <2>2, ReadEffect
    <3>3. PICK S : \E x \in Message : x.type # "ADD_PROC" /\ a2s' = SendAll(a2s, S, x)
      BY <3>2
    <3>4. PICK x \in Message : x.type # "ADD_PROC" /\ a2s' = SendAll(a2s, S, x)
      BY <3>3
    <3>5. Same(a2s, SendAll(a2s, S, x), Arbiters, "ADD_PROC")
      BY <1>0, <3>4, SendSame
    <3>6. Same(a2s, a2s', Arbiters, "ADD_PROC")
      BY <3>4, <3>5
    <3> QED BY <3>1, <3>6, JoiningSame
  <2> QED BY <2>1, <2>2
<1>5. ASSUME NEW q \in Procs PROVE NameOf(q)'
  <2>1. /\ Naming(q)' <=> Naming(q)
        /\ Named(q)' <=> Named(q)
        /\ AnswersTo(q) => AnswersTo(q)'
        /\ Has(a2p, q, "WAIT_DONE")' <=> Has(a2p, q, "WAIT_DONE")
    BY <1>0 DEF Naming, Named, HasName, Has, AnswersTo, Once
  <2> QED BY <1>0, <1>4, <2>1 DEF NameInv, NameOf
<1> QED BY <1>0, <1>3, <1>4, <1>5 DEF NameInv

(* One more answer to a process.                                           *)
LEMMA AnswerSent ==
  ASSUME a2p \in [Procs -> Seq(Message)], NEW S, NEW x \in Message, a2p' = SendAll(a2p, S, x),
         x.type \in Answers, NEW q \in Procs, AnswersTo(q),
         q \in S /\ x.type = "SET_GID" => x.pid = q /\ ~Named(q) /\ ~Has(a2p, q, "WAIT_DONE"),
         q \in S /\ x.type = "WAIT_DONE" => ~Has(a2p, q, "WAIT_DONE")
  PROVE  /\ AnswersTo(q)'
         /\ Named(q)' <=> Named(q) \/ (q \in S /\ x.type = "SET_GID")
         /\ Has(a2p', q, "WAIT_DONE") <=> Has(a2p, q, "WAIT_DONE") \/ (q \in S /\ x.type = "WAIT_DONE")
<1>1. \A t : Has(a2p', q, t) <=> Has(a2p, q, t) \/ (q \in S /\ x.type = t)
  BY SendAllHas
<1>2. Once(a2p', q, "SET_GID") /\ Once(a2p', q, "WAIT_DONE")
  <2>1. Once(a2p, q, "SET_GID") /\ ~(q \in S /\ x.type = "SET_GID" /\ Has(a2p, q, "SET_GID")) => Once(a2p', q, "SET_GID")
    BY SendAllHas
  <2>2. Once(a2p, q, "WAIT_DONE") /\ ~(q \in S /\ x.type = "WAIT_DONE" /\ Has(a2p, q, "WAIT_DONE")) => Once(a2p', q, "WAIT_DONE")
    BY SendAllHas
  <2> QED BY <2>1, <2>2 DEF AnswersTo, Named
<1>3. \A r \in Procs : HasName(a2p', q, r) => r = q
  <2> TAKE r \in Procs
  <2>1. HasName(a2p', q, r) <=> HasName(a2p, q, r) \/ (q \in S /\ x.type = "SET_GID" /\ x.pid = r)
    BY SendName
  <2> QED BY <2>1 DEF AnswersTo
<1>4. NoneBehind(a2p'[q], "WAIT_DONE", "SET_GID")
  <2>1. a2p[q] \in Seq(Message) /\ a2p'[q] = IF q \in S THEN Append(a2p[q], x) ELSE a2p[q]
    BY DEF SendAll
  <2>2. NoneBehind(a2p[q], "WAIT_DONE", "SET_GID")
    BY DEF AnswersTo
  <2>3. q \in S /\ x.type = "SET_GID" => \A i \in DOMAIN a2p[q] : a2p[q][i].type # "WAIT_DONE"
    BY DEF Has
  <2>4. CASE q \in S
    <3>1. NoneBehind(Append(a2p[q], x), "WAIT_DONE", "SET_GID")
      BY <2>1, <2>2, <2>3, <2>4, OrderAppend
    <3> QED BY <2>1, <2>4, <3>1
  <2> QED BY <2>1, <2>2, <2>4
<1>5. \A t : Has(a2p', q, t) => t \in Answers
  BY <1>1 DEF AnswersTo
<1>6. AnswersTo(q)'
  BY <1>2, <1>3, <1>4, <1>5 DEF AnswersTo, Once, HasName, Has
<1>7. Named(q)' <=> Has(a2p', q, "SET_GID")
  BY DEF Named, Has
<1> QED BY <1>1, <1>6, <1>7 DEF Named

LEMMA NameServed ==
  ASSUME TypeOK, PlaceInv, ChainInv, JoinInv, CountInv, StartInv, EnrolInv, NameInv, NEW a \in Arbiters,
         FromServerStep(a), UNCHANGED <<serverVars, procVars>>
  PROVE  NameInv'
<1> DEFINE m == Head(s2a[a])
<1>0. /\ s2a \in [Arbiters -> Seq(Message)] /\ a2s \in [Arbiters -> Seq(Message)]
      /\ a2p \in [Procs -> Seq(Message)]
      /\ UNCHANGED <<started, loc, p2a>> /\ s2a[a] # << >> /\ s2a' = Consume(s2a, a)
      /\ \A q \in Procs : ptab'[q].used = ptab[q].used
  <2>1. UNCHANGED p2a /\ s2a[a] # << >> /\ s2a' = Consume(s2a, a)
    BY TableServed
  <2>2. \A q \in Procs : ptab'[q].used = ptab[q].used
    BY ServedEffect
  <2> QED BY <2>1, <2>2 DEF TypeOK, NetTypeOK, serverVars, procVars
<1>1. m \in Message /\ Has(s2a, a, m.type)
  BY <1>0, ChannelTypes, ConsumeLess
<1>2. \A q \in Procs : Joining(q)' <=> Joining(q)
  <2>1. Same(p2a, p2a', Procs, "ADD_PROC")
    BY <1>0, SameChannel
  <2>2. \E S : \E x \in Message : x.type # "ADD_PROC" /\ a2s' = SendAll(a2s, S, x)
    BY ServedEffect
  <2>3. PICK S : \E x \in Message : x.type # "ADD_PROC" /\ a2s' = SendAll(a2s, S, x)
    BY <2>2
  <2>4. PICK x \in Message : x.type # "ADD_PROC" /\ a2s' = SendAll(a2s, S, x)
    BY <2>3
  <2>5. Same(a2s, SendAll(a2s, S, x), Arbiters, "ADD_PROC")
    BY <1>0, <2>4, SendSame
  <2>6. Same(a2s, a2s', Arbiters, "ADD_PROC")
    BY <2>4, <2>5
  <2> QED BY <2>1, <2>6, JoiningSame
<1>3. \A b \in Arbiters : \A q \in Procs :
        /\ HasName(s2a', b, q) => HasName(s2a, b, q)
        /\ HasName(s2a, b, q) => HasName(s2a', b, q) \/ (b = a /\ m.type = "SET_GID" /\ m.pid = q)
        /\ OnceName(s2a, b, q) => OnceName(s2a', b, q)
  BY <1>0, ConsumeName
<1>4. \A b \in Arbiters : NoneBehind(s2a'[b], "WAIT_DONE", "SET_GID")
  <2> SUFFICES ASSUME NEW b \in Arbiters PROVE NoneBehind(s2a'[b], "WAIT_DONE", "SET_GID")
    OBVIOUS
  <2>1. s2a[b] \in Seq(Message) /\ s2a'[b] = IF b = a THEN Tail(s2a[b]) ELSE s2a[b]
    BY <1>0 DEF Consume
  <2>2. NoneBehind(s2a[b], "WAIT_DONE", "SET_GID")
    BY DEF NameInv, NameTo
  <2>3. b = a => NoneBehind(Tail(s2a[b]), "WAIT_DONE", "SET_GID")
    BY <1>0, <2>1, <2>2, OrderTail
  <2> QED BY <2>1, <2>2, <2>3
<1>5. ASSUME \A b \in Arbiters : arbStarted'[b] => arbStarted[b] \/ (b = a /\ m.type = "WAIT_DONE")
      PROVE  \A b \in Arbiters : NameTo(b)'
  <2> SUFFICES ASSUME NEW b \in Arbiters PROVE NameTo(b)'
    OBVIOUS
  <2>1. NameTo(b)
    BY DEF NameInv
  <2>2. b = a /\ m.type = "WAIT_DONE" => \A q \in Procs : ~HasName(s2a, b, q)
    <3>1. NoneBehind(s2a[a], "WAIT_DONE", "SET_GID") /\ s2a[a] \in Seq(Message)
      BY <1>0 DEF NameInv, NameTo
    <3>2. m.type = "WAIT_DONE" => \A j \in DOMAIN s2a[a] : s2a[a][j].type # "SET_GID"
      BY <1>0, <3>1, FirstHasNone
    <3> QED BY <3>2 DEF HasName
  <2>3. \A q \in Procs : HasName(s2a', b, q) => Home[q] = b /\ ptab'[q].used /\ ~arbStarted'[b]
    BY <1>0, <1>3, <1>5, <2>1, <2>2 DEF NameTo
  <2>4. \A q \in Procs : OnceName(s2a', b, q)
    BY <1>3, <2>1 DEF NameTo
  <2>5. NoneBehind(s2a'[b], "WAIT_DONE", "SET_GID")
    BY <1>4
  <2> QED BY <2>3, <2>4, <2>5 DEF NameTo, HasName, OnceName
<1>6. \A q \in Procs : Naming(q)' <=> HasName(s2a', Home[q], q)
  BY DEF Naming, HasName
<1>7. m.type # "SET_GID" => \A q \in Procs : Naming(q)' <=> Naming(q)
  BY <1>3, <1>6, HomeAssumption DEF Naming
<1>8. ASSUME UNCHANGED a2p, UNCHANGED arbStarted, m.type # "SET_GID"
      PROVE  NameInv'
  <2>1. ASSUME NEW q \in Procs PROVE NameOf(q)'
    <3>1. /\ Named(q)' <=> Named(q)
          /\ AnswersTo(q) => AnswersTo(q)'
          /\ Has(a2p, q, "WAIT_DONE")' <=> Has(a2p, q, "WAIT_DONE")
      BY <1>8 DEF Named, HasName, Has, AnswersTo, Once
    <3> QED BY <1>0, <1>2, <1>7, <1>8, <3>1 DEF NameInv, NameOf
  <2> QED BY <1>0, <1>2, <1>5, <1>8, <2>1 DEF NameInv
<1>9. CASE ArbSetGid(a)
  <2>1. m.type = "SET_GID"
    BY <1>9 DEF ArbSetGid, FromServer, Waiting
  <2>2. m.pid \in Procs
    BY <1>1, <2>1, PayloadTypes
  <2>3. HasName(s2a, a, m.pid) /\ ~HasName(s2a', a, m.pid)
    <3> HIDE DEF m
    <3>1. \A q : m.type = "SET_GID" /\ m.pid = q =>
            HasName(s2a, a, q) /\ (OnceName(s2a, a, q) => ~HasName(Consume(s2a, a), a, q))
      BY <1>0, ConsumeName DEF m
    <3>2. HasName(s2a, a, m.pid) /\ (OnceName(s2a, a, m.pid) => ~HasName(Consume(s2a, a), a, m.pid))
      BY <2>1, <3>1
    <3>3. s2a' = Consume(s2a, a)
      BY <1>0
    <3> QED BY <2>2, <3>2, <3>3 DEF NameInv, NameTo
  <2>4. Home[m.pid] = a /\ ptab[m.pid].used /\ ~arbStarted[a] /\ Naming(m.pid)
    BY <2>2, <2>3 DEF NameInv, NameTo, Naming
  <2>5. a2p' = SendAll(a2p, {m.pid}, m) /\ UNCHANGED arbStarted
    <3>1. m.pid \in Table(a)
      BY <2>2, <2>4 DEF Table, Local
    <3>2. Send(a2p, m.pid, m) = SendAll(a2p, {m.pid}, m)
      BY <1>0, <2>2 DEF Send, SendAll
    <3> QED BY <1>9, <2>4, <3>1, <3>2 DEF ArbSetGid
  <2>6. Starting(m.pid) /\ ~Has(a2p, m.pid, "WAIT_DONE") /\ ~Named(m.pid) /\ ~Joining(m.pid)
    <3>1. Starting(m.pid)
      BY <2>2, <2>4 DEF StartInv
    <3> QED BY <2>2, <2>4, <3>1 DEF Starting, NameInv, NameOf
  <2>7. ASSUME NEW q \in Procs PROVE NameOf(q)'
    <3>1. NameOf(q) /\ AnswersTo(q)
      BY DEF NameInv, NameOf
    <3>2. /\ AnswersTo(q)'
          /\ Named(q)' <=> Named(q) \/ q = m.pid
          /\ Has(a2p', q, "WAIT_DONE") <=> Has(a2p, q, "WAIT_DONE")
      <4>1. /\ q \in {m.pid} /\ m.type = "SET_GID" => m.pid = q /\ ~Named(q) /\ ~Has(a2p, q, "WAIT_DONE")
            /\ ~(q \in {m.pid} /\ m.type = "WAIT_DONE") /\ m.type \in Answers
        BY <2>1, <2>6 DEF Answers
      <4> HIDE DEF m
      <4>2. a2p \in [Procs -> Seq(Message)] /\ m \in Message /\ a2p' = SendAll(a2p, {m.pid}, m)
        BY <1>0, <1>1, <2>5 DEF m
      <4>3. /\ AnswersTo(q)'
            /\ Named(q)' <=> Named(q) \/ (q \in {m.pid} /\ m.type = "SET_GID")
            /\ Has(a2p', q, "WAIT_DONE") <=> Has(a2p, q, "WAIT_DONE") \/ (q \in {m.pid} /\ m.type = "WAIT_DONE")
        BY <3>1, <4>1, <4>2, AnswerSent
      <4> QED BY <2>1, <4>3 DEF m
    <3>3. Naming(q)' <=> Naming(q) /\ q # m.pid
      BY <1>3, <1>6, <2>3, <2>4, HomeAssumption DEF Naming
    <3>4. Has(a2p, q, "WAIT_DONE")' <=> Has(a2p', q, "WAIT_DONE")
      BY DEF Has
    <3>5. Naming(m.pid)
      BY <2>4
    <3> QED BY <1>0, <1>2, <2>6, <3>1, <3>2, <3>3, <3>4, <3>5 DEF NameOf
  <2> QED BY <1>0, <1>2, <1>5, <2>5, <2>7 DEF NameInv
<1>10. CASE ArbWaitDone(a)
  <2>1. m.type = "WAIT_DONE"
    BY <1>10 DEF ArbWaitDone, FromServer, Waiting
  <2>2. CASE UNCHANGED a2p /\ \A b \in Arbiters : arbStarted'[b] => arbStarted[b] \/ b = a
    <3>1. ASSUME NEW q \in Procs PROVE NameOf(q)'
      <4>1. /\ Named(q)' <=> Named(q)
            /\ AnswersTo(q) => AnswersTo(q)'
            /\ Has(a2p, q, "WAIT_DONE")' <=> Has(a2p, q, "WAIT_DONE")
        BY <2>2 DEF Named, HasName, Has, AnswersTo, Once
      <4> QED BY <1>0, <1>2, <1>7, <2>1, <4>1 DEF NameInv, NameOf
    <3> QED BY <1>0, <1>2, <1>5, <2>1, <2>2, <3>1 DEF NameInv
  <2>3. CASE /\ ~arbStarted[a] /\ a2p' = SendAll(a2p, Accepted(a), Simple("WAIT_DONE"))
             /\ \A b \in Arbiters : arbStarted'[b] => arbStarted[b] \/ b = a
    <3>1. started
      BY <1>1, <2>1 DEF ChainInv
    <3>2. Simple("WAIT_DONE") \in Message /\ Simple("WAIT_DONE").type = "WAIT_DONE"
      BY MessageTypes DEF Simple, SimpleTypes
    <3>3. ASSUME NEW q \in Accepted(a), q \in Procs
          PROVE  ~Has(a2p, q, "WAIT_DONE") /\ loc[q] \in {"recv_gid", "recv_waitDone"} \cup Dead
      <4>1. q \in Local(a)
        <5>1. fds[a] \in Seq(Local(a))
          BY DEF PlaceInv
        <5> QED BY <3>3, <5>1 DEF Accepted
      <4>2. Home[q] = a
        BY <4>1 DEF Local
      <4>3. Starting(q)
        BY <2>3, <3>3, <4>2 DEF StartInv
      <4>4. ptab[q].used
        BY <3>1, <3>3, <4>2 DEF EnrolInv
      <4>5. loc[q] # "connect"
        BY <3>3, <4>4 DEF JoinInv
      <4> QED BY <4>3, <4>5 DEF Starting, Dead
    <3>4. ASSUME NEW q \in Procs PROVE NameOf(q)'
      <4>1. NameOf(q) /\ AnswersTo(q)
        BY DEF NameInv, NameOf
      <4>2. /\ AnswersTo(q)'
            /\ Named(q)' <=> Named(q)
            /\ Has(a2p', q, "WAIT_DONE") <=> Has(a2p, q, "WAIT_DONE") \/ q \in Accepted(a)
        BY <1>0, <2>3, <3>2, <3>3, <4>1, AnswerSent DEF Answers
      <4>3. Has(a2p, q, "WAIT_DONE")' <=> Has(a2p', q, "WAIT_DONE")
        BY DEF Has
      <4> QED BY <1>0, <1>2, <1>7, <2>1, <3>3, <4>1, <4>2, <4>3 DEF NameOf
    <3> QED BY <1>0, <1>2, <1>5, <2>1, <2>3, <3>4 DEF NameInv
  <2>4. \A b \in Arbiters : arbStarted'[b] => arbStarted[b] \/ b = a
    BY <1>10 DEF ArbWaitDone, ArbPanic, TypeOK, ArbiterTypeOK
  <2> QED BY <1>10, <2>2, <2>3, <2>4 DEF ArbWaitDone, ArbPanic
<1>11. CASE ArbWriteOkay(a)
  <2>1. m.type = "WRITE_OKAY" /\ UNCHANGED arbStarted
    BY <1>11 DEF ArbWriteOkay, FromServer, Waiting, ArbPanic
  <2>2. CASE UNCHANGED a2p
    BY <1>8, <2>1, <2>2
  <2>3. CASE a2p' = SendAll(a2p, Grantee(a), m)
    <3>1. ASSUME NEW q \in Procs PROVE NameOf(q)'
      <4>1. NameOf(q) /\ AnswersTo(q)
        BY DEF NameInv, NameOf
      <4>2. /\ AnswersTo(q)'
            /\ Named(q)' <=> Named(q)
            /\ Has(a2p', q, "WAIT_DONE") <=> Has(a2p, q, "WAIT_DONE")
        BY <1>0, <1>1, <2>1, <2>3, <4>1, AnswerSent DEF Answers
      <4>3. Has(a2p, q, "WAIT_DONE")' <=> Has(a2p', q, "WAIT_DONE")
        BY DEF Has
      <4> QED BY <1>0, <1>2, <1>7, <2>1, <4>1, <4>2, <4>3 DEF NameOf
    <3> QED BY <1>0, <1>2, <1>5, <2>1, <3>1 DEF NameInv
  <2> QED BY <1>11, <2>2, <2>3 DEF ArbWriteOkay, ArbPanic
<1>12. CASE ArbStopAll(a) \/ ArbContAll(a) \/ ArbApplySync(a)
  <2>1. m.type # "SET_GID"
    BY <1>12 DEF ArbStopAll, ArbContAll, ArbApplySync, FromServer, Waiting
  <2>2. UNCHANGED <<a2p, arbStarted>>
    BY <1>12 DEF ArbStopAll, ArbContAll, ArbApplySync, ArbPanic
  <2> QED BY <1>8, <2>1, <2>2
<1> QED BY <1>9, <1>10, <1>11, <1>12 DEF FromServerStep

-----------------------------------------------------------------------------
(* What a process has still to read.                                       *)
LEMMA AnswerRead ==
  ASSUME a2p \in [Procs -> Seq(Message)], NEW p \in Procs, a2p[p] # << >>, a2p' = Consume(a2p, p), AnswersTo(p)
  PROVE  /\ AnswersTo(p)'
         /\ \A t : Has(a2p', p, t) => Has(a2p, p, t)
         /\ Head(a2p[p]).type = "SET_GID" => ~Has(a2p', p, "SET_GID")
         /\ Head(a2p[p]).type # "SET_GID" => (Has(a2p', p, "SET_GID") <=> Has(a2p, p, "SET_GID"))
         /\ Head(a2p[p]).type = "WAIT_DONE" => ~Has(a2p', p, "WAIT_DONE")
<1>1. \A t : /\ Has(a2p', p, t) => Has(a2p, p, t)
             /\ Once(a2p, p, t) => Once(a2p', p, t)
             /\ Head(a2p[p]).type = t /\ Once(a2p, p, t) => ~Has(a2p', p, t)
  BY ConsumeHas
<1>2. \A q \in Procs : HasName(a2p', p, q) => HasName(a2p, p, q)
  BY ConsumeName
<1>3. NoneBehind(a2p'[p], "WAIT_DONE", "SET_GID")
  <2>1. a2p[p] \in Seq(Message) /\ a2p'[p] = Tail(a2p[p])
    BY DEF Consume
  <2> QED BY <2>1, OrderTail DEF AnswersTo
<1>4. AnswersTo(p)'
  <2>1. Once(a2p', p, "SET_GID") /\ Once(a2p', p, "WAIT_DONE")
    BY <1>1 DEF AnswersTo
  <2>2. \A q \in Procs : HasName(a2p', p, q) => q = p
    BY <1>2 DEF AnswersTo
  <2>3. \A t : Has(a2p', p, t) => t \in Answers
    BY <1>1 DEF AnswersTo
  <2> QED BY <1>3, <2>1, <2>2, <2>3 DEF AnswersTo, Once, HasName, Has
<1>5. Head(a2p[p]).type # "SET_GID" => (Has(a2p', p, "SET_GID") <=> Has(a2p, p, "SET_GID"))
  BY ConsumeSame DEF Same
<1>6. Once(a2p, p, "SET_GID") /\ Once(a2p, p, "WAIT_DONE")
  BY DEF AnswersTo
<1> QED BY <1>1, <1>4, <1>5, <1>6

LEMMA NameProcess ==
  ASSUME TypeInv, JoinInv, CountInv, NameInv, NEW p \in Procs, ProcessStep(p) \/ ProcKilled(p),
         UNCHANGED <<serverVars, arbVars, a2s, s2a>>
  PROVE  NameInv'
<1>0. /\ TypeOK /\ p2a \in [Procs -> Seq(Message)] /\ a2p \in [Procs -> Seq(Message)]
      /\ loc \in [Procs -> Locations]
      /\ UNCHANGED <<started, arbStarted, ptab, a2s, s2a>>
  BY DEF TypeInv, TypeOK, NetTypeOK, ProcessTypeOK, serverVars, arbVars
<1>1. /\ \A q \in Procs : q # p => loc'[q] = loc[q] /\ SameProcess(q)
      /\ Says(p) \/ Hears(p) \/ Shifts(p) \/ Halts(p) \/ Delivers(p)
  BY <1>0, ProcessMoves
<1>2. \A b \in Arbiters : NameTo(b)'
  BY <1>0 DEF NameInv, NameTo, HasName, OnceName
<1>3. \A q \in Procs : Naming(q)' <=> Naming(q)
  BY <1>0 DEF Naming, HasName
<1>4. ASSUME NEW q \in Procs, q # p PROVE NameOf(q)' /\ (Joining(q)' <=> Joining(q))
  <2>1. p2a'[q] = p2a[q] /\ a2p'[q] = a2p[q] /\ loc'[q] = loc[q]
    BY <1>1, <1>4 DEF SameProcess
  <2>2. Joining(q)' <=> Joining(q)
    BY <1>0, <2>1 DEF Joining, In
  <2>3. /\ Named(q)' <=> Named(q)
        /\ AnswersTo(q) => AnswersTo(q)'
        /\ Has(a2p, q, "WAIT_DONE")' <=> Has(a2p, q, "WAIT_DONE")
    BY <2>1 DEF Named, HasName, Has, AnswersTo, Once
  <2> QED BY <1>3, <2>1, <2>2, <2>3 DEF NameInv, NameOf
<1>5. NameOf(p) /\ AnswersTo(p)
  BY DEF NameInv, NameOf
<1>6. UNCHANGED a2p => /\ Named(p)' <=> Named(p)
                       /\ AnswersTo(p)'
                       /\ Has(a2p, p, "WAIT_DONE")' <=> Has(a2p, p, "WAIT_DONE")
  BY <1>5 DEF Named, HasName, Has, AnswersTo, Once
<1>7. Same(p2a, p2a', Procs, "ADD_PROC") => (Joining(p)' <=> Joining(p))
  <2>1. Same(a2s, a2s', Arbiters, "ADD_PROC")
    BY <1>0, SameChannel
  <2> QED BY <2>1, JoiningSame
<1>8. UNCHANGED p2a => (Joining(p)' <=> Joining(p))
  BY <1>7, SameChannel
<1>9. CASE ProcConnect(p)
  <2>1. loc[p] = "connect" /\ loc'[p] = "recv_gid" /\ UNCHANGED a2p /\ p2a' = Send(p2a, p, AddProc(p))
    BY <1>0, <1>9 DEF ProcConnect, Goto, SendToArbiter
  <2>2. In(p2a', p, AddProc(p))
    <3>1. AddProc(p) \in Message
      BY MessageTypes
    <3>2. p2a' = SendAll(p2a, {p}, AddProc(p))
      BY <1>0, <2>1 DEF Send, SendAll
    <3> QED BY <1>0, <3>1, <3>2, SendAllIn
  <2>3. Joining(p)'
    BY <2>2 DEF Joining, In
  <2>4. ~Naming(p) /\ ~Named(p) /\ ~Has(a2p, p, "WAIT_DONE")
    BY <1>5, <2>1 DEF NameOf, Dead
  <2>5. ~started
    BY <2>1 DEF CountInv, JoinInv, Left
  <2>6. NameOf(p)'
    BY <1>3, <1>6, <2>1, <2>3, <2>4 DEF NameOf
  <2> QED BY <1>0, <1>2, <1>4, <2>5, <2>6 DEF NameInv
<1>10. ASSUME NameOf(p)', Joining(p)' => Joining(p) PROVE NameInv'
  <2>1. \A q \in Procs : Joining(q)' => Joining(q)
    BY <1>4, <1>10
  <2>2. \A q \in Procs : NameOf(q)'
    BY <1>4, <1>10
  <2> QED BY <1>0, <1>2, <2>1, <2>2 DEF NameInv
<1>11. CASE ProcRecvGid(p)
  <2>1. a2p[p] # << >> /\ a2p' = Consume(a2p, p) /\ UNCHANGED p2a /\ loc[p] = "recv_gid"
    BY <1>11 DEF ProcRecvGid, Receive
  <2>2. loc'[p] \in Dead \/ (loc'[p] = "recv_waitDone" /\ Head(a2p[p]).type = "SET_GID")
    BY <1>0, <1>11 DEF ProcRecvGid, Goto, Dead
  <2>3. /\ AnswersTo(p)'
        /\ Has(a2p', p, "SET_GID") => Has(a2p, p, "SET_GID")
        /\ Head(a2p[p]).type = "SET_GID" => ~Has(a2p', p, "SET_GID") /\ Has(a2p, p, "SET_GID")
    <3>1. Head(a2p[p]).type = "SET_GID" => Has(a2p, p, "SET_GID")
      BY <1>0, <2>1, ConsumeHas
    <3> QED BY <1>0, <1>5, <2>1, <3>1, AnswerRead
  <2>4. Named(p)' <=> Has(a2p', p, "SET_GID")
    BY DEF Named, Has
  <2>5. NameOf(p)'
    BY <1>3, <1>5, <1>8, <2>1, <2>2, <2>3, <2>4 DEF NameOf, Named, Dead
  <2> QED BY <1>8, <1>10, <2>1, <2>5
<1>12. CASE ProcRecvWaitDone(p) \/ ProcGranted(p)
  <2>1. /\ a2p[p] # << >> /\ a2p' = Consume(a2p, p) /\ UNCHANGED p2a
        /\ loc[p] \in {"recv_waitDone", "takeAccess"}
    BY <1>12 DEF ProcRecvWaitDone, ProcGranted, Receive
  <2>2. loc'[p] \in Dead \/ (loc'[p] = "user" /\ Head(a2p[p]).type = "WAIT_DONE") \/ (loc'[p] = "store" /\ loc[p] = "takeAccess")
    BY <1>0, <1>12, <2>1 DEF ProcRecvWaitDone, ProcGranted, Receive, Goto, Dead
  <2>3. /\ AnswersTo(p)'
        /\ Has(a2p', p, "SET_GID") => Has(a2p, p, "SET_GID")
        /\ Has(a2p', p, "WAIT_DONE") => Has(a2p, p, "WAIT_DONE")
        /\ Head(a2p[p]).type = "WAIT_DONE" => ~Has(a2p', p, "WAIT_DONE")
    BY <1>0, <1>5, <2>1, AnswerRead
  <2>4. /\ Named(p)' <=> Has(a2p', p, "SET_GID")
        /\ Has(a2p, p, "WAIT_DONE")' <=> Has(a2p', p, "WAIT_DONE")
    BY DEF Named, Has
  <2>5. NameOf(p)'
    BY <1>3, <1>5, <1>8, <2>1, <2>2, <2>3, <2>4 DEF NameOf, Named, Dead
  <2> QED BY <1>8, <1>10, <2>1, <2>5
<1>13. CASE ~ProcConnect(p) /\ ~ProcRecvGid(p) /\ ~ProcRecvWaitDone(p) /\ ~ProcGranted(p)
  <2>1. UNCHANGED a2p
    BY <1>13 DEF ProcessStep, ProcRequest, ProcStore, ProcSigill, ProcBarrier, ProcSelfStop, ProcExit, ProcReap,
                 DeliverTstp, ProcKilled
  <2>2. Same(p2a, p2a', Procs, "ADD_PROC")
    <3>1. \E S : \E x \in Message : p2a' = SendAll(p2a, S, x) /\
            (x.type = "ADD_PROC" => loc[p] = "connect" /\ loc'[p] # "connect")
      BY ProcEffect
    <3>2. loc[p] = "connect" => loc'[p] = "connect"
      BY <1>13 DEF ProcessStep, ProcRequest, ProcStore, ProcSigill, ProcBarrier, ProcSelfStop, ProcExit, ProcReap,
                   DeliverTstp, ProcKilled, Calls, procVars
    <3>3. PICK S : \E x \in Message : p2a' = SendAll(p2a, S, x) /\
            (x.type = "ADD_PROC" => loc[p] = "connect" /\ loc'[p] # "connect")
      BY <3>1
    <3>4. PICK x \in Message : p2a' = SendAll(p2a, S, x) /\
            (x.type = "ADD_PROC" => loc[p] = "connect" /\ loc'[p] # "connect")
      BY <3>3
    <3>5. x.type # "ADD_PROC"
      BY <3>2, <3>4
    <3>6. Same(p2a, SendAll(p2a, S, x), Procs, "ADD_PROC")
      BY <1>0, <3>5, SendSame
    <3> QED BY <3>4, <3>6
  <2>3. Joining(p)' <=> Joining(p)
    BY <1>7, <2>2
  <2>4. /\ loc'[p] = "recv_gid" => loc[p] = "recv_gid"
        /\ loc[p] \in {"recv_gid"} \cup Dead => loc'[p] \in {"recv_gid"} \cup Dead
        /\ loc[p] \in {"recv_gid", "recv_waitDone"} \cup Dead => loc'[p] \in {"recv_gid", "recv_waitDone"} \cup Dead
    BY <1>0, <1>13 DEF ProcessStep, ProcRequest, ProcStore, ProcSigill, ProcBarrier, ProcSelfStop, ProcExit, ProcReap,
                 DeliverTstp, ProcKilled, Calls, procVars, Goto, Dead
  <2>5. NameOf(p)'
    BY <1>3, <1>5, <1>6, <2>1, <2>3, <2>4 DEF NameOf
  <2> QED BY <1>10, <2>3, <2>5
<1> QED BY <1>9, <1>11, <1>12, <1>13

LEMMA NameStep ==
  ASSUME TypeInv, PlaceInv, ChainInv, JoinInv, CountInv, StartInv, EnrolInv, NameInv, [Next]_vars
  PROVE  NameInv'
<1>0. TypeOK /\ a2s \in [Arbiters -> Seq(Message)]
  BY DEF TypeInv, TypeOK, NetTypeOK
<1>1. ASSUME NEW a \in Arbiters, ServerStep(a), UNCHANGED <<arbVars, procVars, p2a, a2p, signals, mem>>
      PROVE  NameInv'
  BY <1>0, <1>1, NameServerKept, NameRegisters
<1>2. ASSUME NEW a \in Arbiters, ArbiterStep(a), UNCHANGED <<serverVars, procVars>> PROVE NameInv'
  <2>1. ASSUME NEW p \in Procs, FromProcessStep(a, p) PROVE NameInv'
    <3>1. Home[p] = a
      BY <1>0, <2>1, TableRead
    <3> QED BY <1>0, <1>2, <2>1, <3>1, NameRead
  <2>2. CASE FromServerStep(a)
    BY <1>0, <1>2, <2>2, NameServed
  <2>3. CASE ~FromServerStep(a) /\ ~\E p \in Procs : FromProcessStep(a, p)
    <3>1. /\ UNCHANGED <<p2a, s2a, ptab, arbStarted, a2p, started, loc>>
          /\ UNCHANGED a2s \/ a2s' = Send(a2s, a, Simple("PRGM_DONE"))
      <4>1. UNCHANGED a2p
        BY <1>2, <2>3 DEF ArbiterStep, ArbAccept, ArbPoll, ArbExit, channels
      <4> QED BY <1>0, <1>2, <2>3, <4>1, TableRest DEF serverVars, procVars
    <3>2. Same(a2s, a2s', Arbiters, "ADD_PROC")
      <4>1. Simple("PRGM_DONE") \in Message /\ Simple("PRGM_DONE").type # "ADD_PROC"
        BY MessageTypes DEF Simple, SimpleTypes
      <4>2. Send(a2s, a, Simple("PRGM_DONE")) = SendAll(a2s, {a}, Simple("PRGM_DONE"))
        BY <1>0, <1>2, ArbiterSend
      <4>3. Same(a2s, SendAll(a2s, {a}, Simple("PRGM_DONE")), Arbiters, "ADD_PROC")
        BY <1>0, <4>1, SendSame
      <4>4. Same(a2s, a2s, Arbiters, "ADD_PROC")
        BY SameChannel
      <4> QED BY <3>1, <4>2, <4>3, <4>4
    <3>3. Same(p2a, p2a', Procs, "ADD_PROC")
      BY <3>1, SameChannel
    <3> QED BY <3>1, <3>2, <3>3, JoiningSame, NameSame
  <2> QED BY <2>1, <2>2, <2>3
<1>3. ASSUME NEW p \in Procs, ProcessStep(p) \/ ProcKilled(p), UNCHANGED <<serverVars, arbVars, a2s, s2a>>
      PROVE  NameInv'
  BY <1>3, NameProcess
<1>4. ASSUME NEW p \in Procs, ProcessLosesArbiter(p) PROVE NameInv'
  <2>1. /\ UNCHANGED <<p2a, a2p, a2s, s2a, ptab, arbStarted, started>>
        /\ loc' = [loc EXCEPT ![p] = "panic"] /\ loc \in [Procs -> Locations]
    BY <1>0, <1>4 DEF ProcessLosesArbiter, Goto, netVars, channels, serverVars, arbVars, TypeOK, ProcessTypeOK
  <2>2. \A b \in Arbiters : NameTo(b)'
    BY <2>1 DEF NameInv, NameTo, HasName, OnceName
  <2>3. ASSUME NEW q \in Procs PROVE NameOf(q)' /\ (Joining(q)' <=> Joining(q))
    <3>1. /\ Naming(q)' <=> Naming(q)
          /\ Named(q)' <=> Named(q)
          /\ Joining(q)' <=> Joining(q)
          /\ AnswersTo(q) => AnswersTo(q)'
          /\ Has(a2p, q, "WAIT_DONE")' <=> Has(a2p, q, "WAIT_DONE")
      BY <2>1 DEF Naming, Named, Joining, In, HasName, Has, AnswersTo, Once
    <3>2. loc'[q] = loc[q] \/ loc'[q] \in Dead
      BY <2>1 DEF Dead
    <3> QED BY <3>1, <3>2 DEF NameInv, NameOf, Dead
  <2> QED BY <2>1, <2>2, <2>3 DEF NameInv
<1>5. CASE Breaks
  <2>1. UNCHANGED <<started, arbStarted, loc, s2a, a2p, ptab, p2a, a2s>>
    BY <1>5 DEF Breaks, netVars, channels, procVars
  <2>2. \A q \in Procs : Joining(q)' <=> Joining(q)
    BY <2>1, SameChannel, JoiningSame
  <2> QED BY <2>1, <2>2, NameSame
<1> QED BY <1>0, <1>1, <1>2, <1>3, <1>4, <1>5, StepKinds

-----------------------------------------------------------------------------
(***************************************************************************)
(* How programs end: a process that was killed has no pid any more, an     *)
(* arbiter closes when it has no process left, and the server is the last. *)
(***************************************************************************)
EndInv ==
  /\ \A p \in Procs : loc[p] = "killed" => p \in gone
  /\ \A a \in Arbiters : arbState[a] \in {"closing", "exited"} => fds[a] = << >> /\ arbStarted[a]
  /\ srvState = "exited" => \A a \in Arbiters : arbState[a] = "exited"

LEMMA EndInit == Init => EndInv
BY DEF Init, ServerInit, ArbiterInit, ProcessInit, EndInv

LEMMA EndSame ==
  ASSUME EndInv, UNCHANGED srvState, \A a \in Arbiters : arbState[a] = "exited" => arbState'[a] = "exited",
         \A a \in Arbiters : arbState'[a] \in {"closing", "exited"} => fds'[a] = << >> /\ arbStarted'[a],
         \A p \in Procs : loc'[p] = "killed" => p \in gone'
  PROVE  EndInv'
BY DEF EndInv

LEMMA EndServer ==
  ASSUME TypeOK, CountInv, LinkInv, EndInv, NEW a \in Arbiters, ServerStep(a),
         UNCHANGED <<arbVars, procVars, p2a, a2p, signals, mem>>
  PROVE  EndInv'
<1>0. /\ UNCHANGED <<arbState, arbStarted, fds, loc, gone>>
      /\ a2s \in [Arbiters -> Seq(Message)]
  BY DEF arbVars, procVars, signals, TypeOK, NetTypeOK
<1>1. CASE srvState' # "exited"
  BY <1>0, <1>1 DEF EndInv
<1>2. CASE srvState' = "exited"
  <2>1. SrvPrgmDone(a) /\ started /\ conns = {a}
    BY <1>2 DEF ServerStep, SrvAccept, SrvReceive, SrvAddProc, SrvSyncRequest, SrvStopDone, SrvSyncInfo,
                SrvSyncDone, SrvWaitBarr, SrvPrgmDone, SrvPanic
  <2>2. Has(a2s, a, "PRGM_DONE")
    <3>1. a2s[a] # << >> /\ Head(a2s[a]).type = "PRGM_DONE"
      BY <2>1 DEF SrvPrgmDone, SrvReceive, Waiting
    <3> QED BY <1>0, <3>1, ConsumeHas
  <2>3. \A b \in Arbiters : arbState[b] = "exited"
    BY <2>1, <2>2 DEF CountInv, LinkInv, Live
  <2> QED BY <1>0, <2>3 DEF EndInv
<1> QED BY <1>1, <1>2

(* The list of descriptors is empty once the last process was removed.     *)
LEMMA LastRemoved ==
  ASSUME NEW S, NEW s \in Seq(S), Len(s) = 1, NEW k
  PROVE  ShuffledDown(s, k) = << >>
<1>1. ShuffledDown(s, k) \in Seq(S)
  BY ShuffledTypes
<1>2. DOMAIN ShuffledDown(s, k) = 1 .. 0
  BY DEF ShuffledDown
<1> QED BY <1>1, <1>2

LEMMA EndArbiter ==
  ASSUME TypeOK, PlaceInv, ChainInv, StartInv, EndInv, NEW a \in Arbiters, ArbiterStep(a),
         UNCHANGED <<serverVars, procVars>>
  PROVE  EndInv'
<1>0. /\ UNCHANGED <<srvState, loc>> /\ arbState \in [Arbiters -> {"up", "closing", "exited", "panic"}]
      /\ p2a \in [Procs -> Seq(Message)] /\ fds \in [Arbiters -> Seq(Procs)]
      /\ arbStarted \in [Arbiters -> BOOLEAN]
  BY DEF serverVars, procVars, TypeOK, ArbiterTypeOK, NetTypeOK
<1>1. UNCHANGED gone
  BY DEF ArbiterStep, FromProcessStep, FromServerStep, ArbAccept, ArbPoll, ArbExit, ArbAddProc, ArbSyncRequest,
         ArbForwardSync, ArbWaitBarr, ArbPrgmDone, ArbSetGid, ArbStopAll, ArbContAll, ArbWaitDone, ArbWriteOkay,
         ArbApplySync, signals, KillTstp, KillCont
<1>2. \A b \in Arbiters : b # a => arbState'[b] = arbState[b] /\ fds'[b] = fds[b] /\ arbStarted'[b] = arbStarted[b]
  BY ArbiterIsLocal DEF SameMachine
<1>3. CASE \E p \in Procs : ArbPrgmDone(a, p)
  <2>1. PICK p \in Procs : ArbPrgmDone(a, p)
    BY <1>3
  <2>2. /\ arbState[a] = "up" /\ p2a[p] # << >> /\ Head(p2a[p]).type = "PRGM_DONE" /\ UNCHANGED arbStarted
        /\ fds'[a] = ShuffledDown(fds[a], Slot(a, p))
        /\ arbState'[a] = IF Len(fds[a]) = 1 THEN "closing" ELSE "up"
    BY <1>0, <2>1 DEF ArbPrgmDone, FromProcess, Waiting
  <2>3. Len(fds[a]) = 1 => fds'[a] = << >>
    <3>1. fds[a] \in Seq(Procs)
      BY <1>0
    <3>2. Len(fds[a]) = 1 => ShuffledDown(fds[a], Slot(a, p)) = << >>
      BY <3>1, LastRemoved
    <3> QED BY <2>2, <3>2
  <2>4. arbStarted[a]
    <3>1. Home[p] = a
      BY <2>1, TableRead DEF FromProcessStep
    <3>2. Has(p2a, p, "PRGM_DONE")
      BY <1>0, <2>2, ConsumeHas
    <3>3. loc[p] \in Left
      BY <3>2 DEF ChainInv
    <3> QED BY <3>1, <3>3 DEF StartInv, Starting, Left
  <2> QED BY <1>0, <1>1, <1>2, <2>2, <2>3, <2>4, EndSame DEF EndInv
<1>4. CASE ArbExit(a)
  <2>1. arbState[a] = "closing" /\ arbState'[a] = "exited" /\ UNCHANGED <<fds, arbStarted>>
    BY <1>0, <1>4 DEF ArbExit
  <2> QED BY <1>0, <1>1, <1>2, <2>1, EndSame DEF EndInv
<1>5. CASE ~ArbExit(a) /\ ~\E p \in Procs : ArbPrgmDone(a, p)
  <2>1. arbState[a] = "up" /\ arbState'[a] \in {"up", "panic"}
    BY <1>0, <1>5 DEF ArbiterStep, FromProcessStep, FromServerStep, ArbAccept, ArbPoll, ArbAddProc, ArbSyncRequest,
         ArbForwardSync, ArbWaitBarr, ArbSetGid, ArbStopAll, ArbContAll, ArbWaitDone, ArbWriteOkay,
         ArbApplySync, FromProcess, FromServer, ArbPanic
  <2> QED BY <1>0, <1>1, <1>2, <2>1, EndSame DEF EndInv
<1> QED BY <1>3, <1>4, <1>5

LEMMA EndStep ==
  ASSUME TypeInv, PlaceInv, ChainInv, CountInv, LinkInv, StartInv, EndInv, [Next]_vars
  PROVE  EndInv'
<1>0. TypeOK /\ loc \in [Procs -> Locations]
  BY DEF TypeInv, TypeOK, ProcessTypeOK
<1>1. ASSUME NEW p \in Procs, ProcessStep(p) \/ ProcKilled(p), UNCHANGED <<serverVars, arbVars, a2s, s2a>>
      PROVE  EndInv'
  <2>1. gone \subseteq gone' /\ \A q \in Procs : loc'[q] = "killed" => loc[q] = "killed" \/ q \in gone'
    BY <1>0, <1>1 DEF ProcessStep, ProcConnect, ProcRecvGid, ProcRecvWaitDone, ProcRequest, ProcGranted, ProcStore,
       ProcSigill, ProcBarrier, ProcSelfStop, ProcExit, ProcReap, DeliverTstp, ProcKilled, Goto, signals, procVars
  <2>2. UNCHANGED <<srvState, arbState, fds, arbStarted>>
    BY <1>1 DEF serverVars, arbVars
  <2> QED BY <2>1, <2>2 DEF EndInv
<1>2. ASSUME NEW p \in Procs, ProcessLosesArbiter(p) PROVE EndInv'
  <2>1. /\ UNCHANGED <<srvState, arbState, fds, arbStarted, gone>>
        /\ \A q \in Procs : loc'[q] = "killed" => loc[q] = "killed"
    BY <1>0, <1>2 DEF ProcessLosesArbiter, Goto, serverVars, arbVars, netVars, signals
  <2> QED BY <2>1 DEF EndInv
<1>3. CASE Breaks
  <2>1. srvState' = "exited" => srvState = "exited"
    BY <1>3 DEF Breaks
  <2>2. UNCHANGED <<fds, arbStarted, loc, gone>>
    BY <1>3 DEF Breaks, netVars, signals, procVars
  <2>3. \A b \in Arbiters : arbState'[b] = arbState[b] \/ (arbState[b] = "up" /\ arbState'[b] = "panic")
    BY <1>3 DEF Breaks
  <2> QED BY <2>1, <2>2, <2>3 DEF EndInv
<1> QED BY <1>0, <1>1, <1>2, <1>3, EndServer, EndArbiter, StepKinds

(* No message of a session makes a sanity check of the server fail.        *)
LEMMA ServerNeverPanics ==
  ASSUME TypeOK, StepMatchesQueue, JoinInv, LinkInv, GrantInv, StartInv, StopInv, RoundInv, LineInv, NameInv, EndInv,
         NEW a \in Arbiters, ServerStep(a)
  PROVE  srvState' # "panic"
<1> SUFFICES ASSUME srvState' = "panic" PROVE FALSE
  OBVIOUS
<1> DEFINE m == Head(a2s[a])
<1>0. /\ a2s \in [Arbiters -> Seq(Message)] /\ opqueue \in Seq(Arbiters)
      /\ srvState = "up" /\ a2s[a] # << >> /\ a2s' = Consume(a2s, a)
  BY DEF TypeOK, NetTypeOK, ServerTypeOK, ServerStep, SrvAccept, SrvReceive, SrvAddProc, SrvSyncRequest, SrvStopDone,
         SrvSyncInfo, SrvSyncDone, SrvWaitBarr, SrvPrgmDone, Waiting
<1>1. m \in Message /\ In(a2s, a, m) /\ Has(a2s, a, m.type)
  BY <1>0, ConsumeLess, ChannelTypes
<1>2. (step = "READY" <=> opqueue = << >>) /\ (step # "READY" => started)
  BY DEF StepMatchesQueue, StopInv
<1>3. CASE SrvAccept(a)
  BY <1>0, <1>3 DEF SrvAccept
<1>4. CASE SrvAddProc(a)
  <2>1. m.type = "ADD_PROC" /\ started
    BY <1>0, <1>4 DEF SrvAddProc, SrvReceive, Waiting
  <2>2. m.pid \in Procs /\ m = AddProc(m.pid)
    BY <1>1, <2>1 DEF Message, SimpleTypes, AddProc
  <2>3. Home[m.pid] = a
    BY <1>1, <2>2 DEF JoinInv
  <2> QED BY <1>1, <2>1, <2>2, <2>3 DEF NameInv, Joining
<1>5. CASE SrvSyncRequest(a)
  <2>1. m.type = "SYNC_REQ"
    BY <1>5 DEF SrvSyncRequest, SrvReceive, Waiting
  <2>2. m = Request
    BY <1>1, <2>1, RequestIs
  <2>3. started
    <3> SUFFICES ASSUME ~started PROVE FALSE
      OBVIOUS
    <3>1. step = "READY" /\ opqueue = << >> /\ arbQueue[a] = << >>
      BY <1>2 DEF StartInv
    <3>2. ~Served(a)
      BY <3>1 DEF Served, GrantInv, InOrder, OnTurn
    <3>5. NoOf(opqueue, a) = 0 /\ NoIn(a2s, a, Request) \in Nat /\ Len(arbQueue[a]) = 0
      BY <3>1, LineTypes
    <3>6. a2s[a] # << >> /\ Head(a2s[a]) = Request
      BY <1>0, <2>2
    <3>7. NoIn(a2s, a, Request) > 0
      BY <3>6, LineTypes
    <3>3. NoOf(opqueue, a) = 0 /\ NoIn(a2s, a, Request) \in Nat /\ NoIn(a2s, a, Request) > 0 /\ Len(arbQueue[a]) = 0
      BY <3>5, <3>7
    <3>4. NoOf(opqueue, a) + NoIn(a2s, a, Request) = Len(arbQueue[a])
      BY <3>2, <3>3 DEF LineInv, LineAt
    <3> QED BY <3>3, <3>4
  <2> QED BY <1>0, <1>2, <1>5, <2>3 DEF SrvSyncRequest
<1>6. CASE SrvStopDone(a)
  <2>1. m.type = "STOP_DONE"
    BY <1>6 DEF SrvStopDone, SrvReceive, Waiting
  <2>2. step = "WAITING_STOP_ACK"
    BY <1>1, <2>1 DEF StopInv, StopLink, StopAck
  <2> QED BY <1>0, <1>2, <1>6, <2>2 DEF SrvStopDone
<1>7. CASE SrvSyncInfo(a)
  <2>1. m.type = "SYNC_INFO"
    BY <1>7 DEF SrvSyncInfo, SrvReceive, Waiting
  <2>2. OnTurn(a)
    BY <1>1, <2>1 DEF GrantInv, InOrder, Returned
  <2> QED BY <1>0, <1>2, <1>7, <2>2 DEF SrvSyncInfo, OnTurn, IsWriter
<1>8. CASE SrvSyncDone(a)
  <2>1. m.type = "SYNC_DONE"
    BY <1>8 DEF SrvSyncDone, SrvReceive, Waiting
  <2>2. step = "WAITING_SYNC_ACK"
    BY <1>1, <2>1 DEF RoundInv, Acking
  <2> QED BY <1>0, <1>2, <1>8, <2>2 DEF SrvSyncDone
<1>9. CASE SrvWaitBarr(a)
  <2>1. m.type = "WAIT_BARR"
    BY <1>9 DEF SrvWaitBarr, SrvReceive, Waiting
  <2>2. started
    BY <1>1, <2>1 DEF StartInv
  <2> QED BY <1>0, <1>9, <2>2 DEF SrvWaitBarr
<1>10. CASE SrvPrgmDone(a)
  <2>1. m.type = "PRGM_DONE"
    BY <1>10 DEF SrvPrgmDone, SrvReceive, Waiting
  <2>2. arbState[a] = "exited"
    BY <1>1, <2>1 DEF LinkInv, Live
  <2>3. started
    BY <2>2 DEF EndInv, StartInv
  <2> QED BY <1>10, <2>3 DEF SrvPrgmDone
<1> QED BY <1>3, <1>4, <1>5, <1>6, <1>7, <1>8, <1>9, <1>10 DEF ServerStep

(* Nor one of an arbiter, unless the arbiter signals a dead process.       *)
LEMMA ArbiterNeverPanics ==
  ASSUME TypeOK, PlaceInv, JoinInv, GrantInv, StartInv, LineInv, NameInv, gone = {},
         NEW a \in Arbiters, ArbiterStep(a)
  PROVE  arbState'[a] # "panic"
<1> SUFFICES ASSUME arbState'[a] = "panic" PROVE FALSE
  OBVIOUS
<1>0. /\ arbState \in [Arbiters -> {"up", "closing", "exited", "panic"}]
      /\ p2a \in [Procs -> Seq(Message)] /\ s2a \in [Arbiters -> Seq(Message)] /\ opqueue \in Seq(Arbiters)
      /\ arbQueue \in [Arbiters -> Seq(Procs)]
  BY DEF TypeOK, NetTypeOK, ServerTypeOK, ArbiterTypeOK
<1>1. arbState[a] \in {"up", "closing"}
  BY <1>0 DEF ArbiterStep, FromProcessStep, FromServerStep, ArbAccept, ArbPoll, ArbAddProc, ArbSyncRequest, ArbExit,
         ArbForwardSync, ArbWaitBarr, ArbSetGid, ArbStopAll, ArbContAll, ArbWaitDone, ArbWriteOkay, ArbPrgmDone,
         ArbApplySync, FromProcess, FromServer
<1>2. ASSUME NEW p \in Procs, FromProcessStep(a, p) PROVE FALSE
  <2>1. Home[p] = a /\ p2a[p] # << >> /\ arbState[a] = "up"
    BY <1>2, TableRead
  <2>2. Head(p2a[p]) \in Message /\ Has(p2a, p, Head(p2a[p]).type)
    BY <1>0, <2>1, ChannelTypes, ConsumeLess
  <2>3. CASE ArbAddProc(a, p)
    <3>1. Head(p2a[p]).type = "ADD_PROC"
      BY <2>3 DEF ArbAddProc, FromProcess, Waiting
    <3>2. ~ptab[p].used /\ ~arbStarted[a]
      BY <2>1, <3>1, NobodyJoins
    <3> QED BY <2>1, <2>3, <3>2 DEF ArbAddProc
  <2>4. CASE ArbForwardSync(a, p)
    <3>1. Head(p2a[p]).type = "SYNC_INFO"
      BY <2>4 DEF ArbForwardSync, FromProcess, Waiting
    <3>2. AtHead(p)
      BY <2>2, <3>1 DEF GrantInv, InOrder, Holds, Returning
    <3>3. arbQueue[a] # << >>
      BY <2>1, <3>2 DEF AtHead
    <3> QED BY <2>1, <2>4, <3>3 DEF ArbForwardSync
  <2>5. CASE ArbSyncRequest(a, p) \/ ArbWaitBarr(a, p)
    BY <2>1, <2>5 DEF ArbSyncRequest, ArbWaitBarr
  <2>6. CASE ArbPrgmDone(a, p)
    BY <1>0, <2>1, <2>6 DEF ArbPrgmDone
  <2> QED BY <1>2, <2>3, <2>4, <2>5, <2>6 DEF FromProcessStep
<1>3. ASSUME FromServerStep(a) PROVE FALSE
  <2> DEFINE m == Head(s2a[a])
  <2>1. s2a[a] # << >> /\ arbState[a] = "up"
    BY <1>3, TableServed
  <2>2. m \in Message /\ Has(s2a, a, m.type)
    BY <1>0, <2>1, ChannelTypes, ConsumeLess
  <2>3. \A S : ~SignalFails(S)
    BY DEF SignalFails
  <2>4. CASE ArbSetGid(a)
    <3>1. m.type = "SET_GID"
      BY <2>4 DEF ArbSetGid, FromServer, Waiting
    <3>2. m.pid \in Procs
      BY <2>2, <3>1, PayloadTypes
    <3> HIDE DEF m
    <3>3. \A q : m.type = "SET_GID" /\ m.pid = q => HasName(s2a, a, q)
      BY <1>0, <2>1, ConsumeName DEF m
    <3>4. HasName(s2a, a, m.pid)
      BY <3>1, <3>3
    <3>5. m.pid \in Table(a) /\ ~arbStarted[a]
      BY <3>2, <3>4 DEF NameInv, NameTo, Table, Local
    <3> QED BY <2>1, <2>4, <3>5 DEF ArbSetGid, m
  <2>5. CASE ArbStopAll(a)
    BY <2>1, <2>3, <2>5 DEF ArbStopAll
  <2>6. CASE ArbContAll(a)
    BY <2>1, <2>3, <2>6 DEF ArbContAll
  <2>7. CASE ArbWaitDone(a)
    BY <2>1, <2>3, <2>7 DEF ArbWaitDone
  <2>8. CASE ArbWriteOkay(a)
    <3>1. m.type = "WRITE_OKAY"
      BY <2>8 DEF ArbWriteOkay, FromServer, Waiting
    <3>2. Sent(a) /\ ~Returned(a) /\ OnTurn(a)
      BY <2>2, <3>1 DEF GrantInv, InOrder, Apart, Sent
    <3>3. ~Served(a)
      BY <3>2 DEF Served, OnTurn
    <3>4. NoOf(opqueue, a) # 0 /\ NoOf(opqueue, a) \in Nat
      <4>1. 1 \in DOMAIN opqueue /\ opqueue[1] = a
        BY <1>0, <3>2, TailPlaces DEF OnTurn
      <4> QED BY <1>0, <4>1, CountPlaces
    <3>5. NoOf(opqueue, a) + NoIn(a2s, a, Request) = Len(arbQueue[a]) /\ NoIn(a2s, a, Request) \in Nat
      BY <3>3, LineTypes DEF LineInv, LineAt
    <3>6. Len(arbQueue[a]) # 0
      BY <3>4, <3>5
    <3>7. arbQueue[a] # << >>
      BY <3>6
    <3> QED BY <2>1, <2>8, <3>7 DEF ArbWriteOkay
  <2>9. CASE ArbApplySync(a)
    BY <2>1, <2>9 DEF ArbApplySync
  <2> QED BY <1>3, <2>4, <2>5, <2>6, <2>7, <2>8, <2>9 DEF FromServerStep
<1>4. CASE ~FromServerStep(a) /\ ~\E p \in Procs : FromProcessStep(a, p)
  BY <1>0, <1>1, <1>4 DEF ArbiterStep, ArbAccept, ArbPoll, ArbExit
<1> QED BY <1>2, <1>3, <1>4

(* A process gets the answer it waits for.                                 *)
LEMMA ProcessNeverPanics ==
  ASSUME TypeInv, ChainInv, GrantInv, StartInv, AskInv, NameInv,
         NEW p \in Procs, ProcessStep(p) \/ ProcKilled(p), loc[p] # "panic"
  PROVE  loc'[p] # "panic"
<1> SUFFICES ASSUME loc'[p] = "panic" PROVE FALSE
  OBVIOUS
<1> DEFINE m == Head(a2p[p])
<1>0. TypeOK /\ loc \in [Procs -> Locations] /\ a2p \in [Procs -> Seq(Message)]
  BY DEF TypeInv, TypeOK, ProcessTypeOK, NetTypeOK
<1>1. ProcRecvGid(p) \/ ProcRecvWaitDone(p) \/ ProcGranted(p)
  BY <1>0 DEF ProcessStep, ProcConnect, ProcRequest, ProcStore, ProcSigill, ProcBarrier, ProcSelfStop,
       ProcExit, ProcReap, DeliverTstp, ProcKilled, Goto, procVars
<1>2. a2p[p] # << >> /\ loc[p] \in {"recv_gid", "recv_waitDone", "takeAccess"}
  BY <1>1 DEF ProcRecvGid, ProcRecvWaitDone, ProcGranted, Receive
<1>3. m \in Message /\ Has(a2p, p, m.type) /\ a2p[p] \in Seq(Message)
  BY <1>0, <1>2, ChannelTypes, ConsumeLess
<1>4. NameOf(p) /\ AnswersTo(p) /\ m.type \in Answers
  BY <1>3 DEF NameInv, NameOf, AnswersTo
<1>5. m.type = "WRITE_OKAY" => loc[p] = "takeAccess"
  <2> SUFFICES ASSUME m.type = "WRITE_OKAY" PROVE loc[p] = "takeAccess"
    OBVIOUS
  <2>1. Passed(p) /\ AtHead(p) /\ ~Returning(p)
    BY <1>3 DEF Passed, GrantInv, InOrder, Apart, Holds
  <2>2. Lined(p) > 0 /\ Lined(p) \in Nat
    BY <1>0, <2>1, AskTypes
  <2> QED BY <1>2, <2>1, <2>2 DEF AskInv, AskAt, Wanting, Dead
<1>6. m.type = "SET_GID" => loc[p] = "recv_gid" /\ m.pid = p
  <2> SUFFICES ASSUME m.type = "SET_GID" PROVE loc[p] = "recv_gid" /\ m.pid = p
    OBVIOUS
  <2>1. loc[p] = "recv_gid"
    BY <1>2, <1>3, <1>4 DEF NameOf, Named, Dead
  <2>2. m.pid \in Procs
    BY <1>3, PayloadTypes
  <2> HIDE DEF m
  <2>3. \A q : m.type = "SET_GID" /\ m.pid = q => HasName(a2p, p, q)
    BY <1>0, <1>2, ConsumeName DEF m
  <2> QED BY <1>4, <2>1, <2>2, <2>3 DEF AnswersTo
<1>7. m.type = "WAIT_DONE" => loc[p] = "recv_waitDone"
  <2> SUFFICES ASSUME m.type = "WAIT_DONE", loc[p] # "recv_waitDone" PROVE FALSE
    OBVIOUS
  <2>1. loc[p] = "recv_gid" /\ started /\ Has(a2p, p, "WAIT_DONE")
    BY <1>2, <1>3, <1>4 DEF NameOf, Dead, ChainInv
  <2>2. arbStarted[Home[p]]
    BY <2>1 DEF StartInv, Starting
  <2>3. ~Joining(p) /\ ~Naming(p)
    BY <2>1, <2>2, HomeAssumption DEF NameInv, NameTo, Naming
  <2>4. ~Named(p)
    <3>1. NoneBehind(a2p[p], "WAIT_DONE", "SET_GID")
      BY <1>4 DEF AnswersTo
    <3>2. \A j \in DOMAIN a2p[p] : a2p[p][j].type # "SET_GID"
      BY <1>2, <1>3, <3>1, FirstHasNone
    <3> QED BY <3>2 DEF Named, Has
  <2> QED BY <1>4, <2>1, <2>3, <2>4 DEF NameOf
<1>8. /\ loc[p] = "recv_gid" => m.type = "SET_GID" /\ m.pid = p
      /\ loc[p] = "recv_waitDone" => m.type = "WAIT_DONE"
      /\ loc[p] = "takeAccess" => m.type = "WRITE_OKAY"
  BY <1>2, <1>4, <1>5, <1>6, <1>7 DEF Answers
<1>9. CASE ProcRecvGid(p)
  BY <1>0, <1>8, <1>9 DEF ProcRecvGid, Receive, Goto
<1>10. CASE ProcRecvWaitDone(p)
  BY <1>0, <1>8, <1>10 DEF ProcRecvWaitDone, Receive, Goto
<1>11. CASE ProcGranted(p)
  BY <1>0, <1>8, <1>11 DEF ProcGranted, Receive, Goto
<1> QED BY <1>1, <1>9, <1>10, <1>11

LEMMA PanicStep ==
  ASSUME TypeInv, PlaceInv, StepMatchesQueue, ChainInv, JoinInv, CountInv, LinkInv, GrantInv, StartInv, EnrolInv,
         StopInv, RoundInv, AskInv, LineInv, NameInv, EndInv, NoProtocolPanic, [Next]_vars
  PROVE  NoProtocolPanic'
<1> SUFFICES ASSUME gone' = {}
             PROVE  /\ srvState' # "panic"
                    /\ \A a \in Arbiters : arbState'[a] # "panic"
                    /\ \A p \in Procs : loc'[p] # "panic"
  BY DEF NoProtocolPanic
<1>0. TypeOK /\ loc \in [Procs -> Locations] /\ arbState \in [Arbiters -> {"up", "closing", "exited", "panic"}]
      /\ srvState \in {"up", "exited", "panic"}
  BY DEF TypeInv, TypeOK, ProcessTypeOK, ArbiterTypeOK, ServerTypeOK
<1>1. ASSUME gone = {}
      PROVE  /\ srvState # "panic"
             /\ \A a \in Arbiters : arbState[a] # "panic"
             /\ \A p \in Procs : loc[p] # "panic"
  BY <1>1 DEF NoProtocolPanic
<1>2. ASSUME NEW a \in Arbiters, ServerActs(a)
      PROVE  gone = {} /\ srvState' # "panic" /\ UNCHANGED <<arbState, loc>>
  <2>1. gone = {} /\ UNCHANGED <<arbState, loc>>
    BY <1>2 DEF ServerActs, ServerLosesArbiter, arbVars, procVars, netVars, signals
  <2>2. ServerStep(a)
    BY <1>1, <1>2, <2>1 DEF ServerActs, ServerLosesArbiter
  <2> QED BY <1>0, <2>1, <2>2, ServerNeverPanics
<1>3. ASSUME NEW a \in Arbiters, ArbiterActs(a)
      PROVE  gone = {} /\ UNCHANGED <<srvState, loc>> /\ \A b \in Arbiters : arbState'[b] # "panic"
  <2>1. UNCHANGED <<srvState, loc>>
    BY <1>3 DEF ArbiterActs, ArbiterLosesServer, ArbiterLosesProcess, serverVars, procVars
  <2>2. gone = {}
    <3>1. ArbiterStep(a) => UNCHANGED gone
      BY DEF ArbiterStep, FromProcessStep, FromServerStep, ArbAccept, ArbPoll, ArbExit, ArbAddProc, ArbSyncRequest,
         ArbForwardSync, ArbWaitBarr, ArbPrgmDone, ArbSetGid, ArbStopAll, ArbContAll, ArbWaitDone, ArbWriteOkay,
         ArbApplySync, signals, KillTstp, KillCont
    <3> QED BY <1>3, <3>1 DEF ArbiterActs, ArbiterLosesServer, ArbiterLosesProcess, netVars, signals
  <2>3. ~ArbiterLosesServer(a)
    BY <1>0, <1>1, <2>2 DEF ArbiterLosesServer, EndInv
  <2>4. ~\E p \in Procs : ArbiterLosesProcess(a, p)
    BY <1>1, <2>2 DEF ArbiterLosesProcess, EndInv
  <2>5. ArbiterStep(a)
    BY <1>3, <2>3, <2>4 DEF ArbiterActs
  <2>6. arbState'[a] # "panic"
    BY <1>0, <2>2, <2>5, ArbiterNeverPanics
  <2>7. \A b \in Arbiters : b # a => arbState'[b] = arbState[b]
    BY <1>0, <2>5, ArbiterIsLocal DEF SameMachine
  <2> QED BY <1>1, <2>1, <2>2, <2>6, <2>7
<1>4. ASSUME NEW p \in Procs, ProcessActs(p) \/ Kill(p)
      PROVE  gone = {} /\ UNCHANGED <<srvState, arbState>> /\ \A q \in Procs : loc'[q] # "panic"
  <2>1. UNCHANGED <<srvState, arbState>>
    BY <1>4 DEF ProcessActs, Kill, ProcessLosesArbiter, serverVars, arbVars
  <2>2. gone = {}
    BY <1>4 DEF ProcessActs, Kill, ProcessLosesArbiter, netVars, signals, ProcessStep, ProcConnect, ProcRecvGid,
       ProcRecvWaitDone, ProcRequest, ProcGranted, ProcStore, ProcSigill, ProcBarrier, ProcSelfStop, ProcExit,
       ProcReap, DeliverTstp, ProcKilled
  <2>3. CASE ProcessLosesArbiter(p)
    <3>1. loc[p] \in {"recv_gid", "recv_waitDone", "takeAccess"} /\ arbState[Home[p]] = "exited" /\ Home[p] \in Arbiters
      BY <1>1, <2>2, <2>3, HomeAssumption DEF ProcessLosesArbiter
    <3>2. fds[Home[p]] = << >> /\ arbStarted[Home[p]]
      BY <3>1 DEF EndInv
    <3>3. started /\ p \notin Accepted(Home[p])
      BY <3>1, <3>2 DEF StartInv, Accepted
    <3>4. ~ptab[p].used
      BY <3>3 DEF EnrolInv
    <3> QED BY <3>1, <3>3, <3>4 DEF CountInv, Left
  <2>4. CASE ProcessStep(p) \/ ProcKilled(p)
    <3>1. loc'[p] # "panic"
      BY <1>1, <2>2, <2>4, ProcessNeverPanics
    <3>2. \A q \in Procs : q # p => loc'[q] = loc[q]
      BY <2>4, ProcEffect
    <3> QED BY <1>1, <2>1, <2>2, <3>1, <3>2
  <2> QED BY <1>4, <2>3, <2>4 DEF ProcessActs, Kill
<1>5. CASE UNCHANGED vars
  BY <1>1, <1>5 DEF vars, serverVars, arbVars, procVars, netVars, signals
<1> QED BY <1>1, <1>2, <1>3, <1>4, <1>5, KillableAssumption DEF Next

-----------------------------------------------------------------------------
(***************************************************************************)
(* The invariant of the whole protocol: who writes, whose page is current, *)
(* who waits in which line, who has which number and who may have ended.   *)
(***************************************************************************)
ProtocolInv == /\ WriterInv /\ RoundInv /\ (Offsets = {0} => DataInv)
               /\ AskInv /\ LineInv /\ NameInv /\ EndInv /\ NoProtocolPanic

(* Everything that the sessions' proofs rest on holds in every state that  *)
(* a session reaches, whatever the sizes.                                  *)
THEOREM ProtocolInvariant == Spec => []ProtocolInv
<1>1. Init => ProtocolInv
  <2> SUFFICES ASSUME Init PROVE ProtocolInv
    OBVIOUS
  <2>1. TypeInv /\ PlaceInv /\ GrantInv /\ RegistrationInv /\ ListInv /\ LinkInv /\ StartInv /\ EnrolInv /\ StopInv
    BY TypeInit, PlaceInit, GrantInit, RegistrationInit, ListInit, LinkInit, StartInit, EnrolInit, StopInit
  <2>2. StepMatchesQueue /\ SettledInv
    BY NProcType DEF Init, ServerInit, StepMatchesQueue, SettledInv
  <2>3. RoundInv /\ DataInv /\ AskInv /\ LineInv /\ NameInv /\ EndInv
    BY RoundInit, AskInit, LineInit, NameInit, EndInit
  <2>4. NoProtocolPanic
    BY DEF Init, ServerInit, ArbiterInit, ProcessInit, NoProtocolPanic
  <2> QED BY <2>1, <2>2, <2>3, <2>4 DEF ProtocolInv, WriterInv
<1>2. ProtocolInv /\ [Next]_vars => ProtocolInv'
  <2> SUFFICES ASSUME ProtocolInv, [Next]_vars PROVE ProtocolInv'
    OBVIOUS
  <2>0. /\ TypeInv /\ PlaceInv /\ StepMatchesQueue /\ RegistrationInv /\ GrantInv
        /\ ListInv /\ LinkInv /\ StartInv /\ EnrolInv /\ StopInv /\ SettledInv
        /\ RoundInv /\ (Offsets = {0} => DataInv) /\ AskInv /\ LineInv /\ NameInv /\ EndInv /\ NoProtocolPanic
    BY DEF ProtocolInv, WriterInv
  <2>1. ChainInv /\ JoinInv /\ CountInv
    BY <2>0 DEF RegistrationInv
  <2>2. TypeInv' /\ PlaceInv' /\ StepMatchesQueue' /\ RegistrationInv' /\ GrantInv'
    BY <2>0, TypeStep, PlaceStep, MatchesStep, RegistrationStep, GrantStep
  <2>3. CountInv' /\ TypeOK'
    BY <2>2 DEF RegistrationInv, TypeInv
  <2>4. ListInv' /\ LinkInv'
    BY <2>0, ListStep, LinkStep
  <2>5. StartInv' /\ EnrolInv'
    BY <2>0, <2>1, <2>3, StartStep, EnrolStep
  <2>6. StopInv' /\ SettledInv'
    BY <2>0, <2>1, FreezeStep, SettledStep
  <2>7. RoundInv' /\ (Offsets = {0} => DataInv')
    BY <2>0, <2>1, <2>2, <2>3, RoundStep
  <2>8. AskInv' /\ LineInv'
    BY <2>0, <2>1, AskStep, LineStep
  <2>9. NameInv' /\ EndInv'
    BY <2>0, <2>1, NameStep, EndStep
  <2>10. NoProtocolPanic'
    BY <2>0, <2>1, PanicStep
  <2>11. WriterInv'
    BY <2>2, <2>4, <2>5, <2>6 DEF WriterInv
  <2> QED BY <2>7, <2>8, <2>9, <2>10, <2>11 DEF ProtocolInv
<1> QED BY <1>1, <1>2, PTL DEF Spec

(* Until a process has died or left, no sanity check of a handler fails in *)
(* the server, in an arbiter or in a process: the messages that the        *)
(* programs send each other never reach one in a state that does not       *)
(* expect them, in whatever order the poll loops serve the sockets.        *)
THEOREM NobodyPanics == Spec => []NoProtocolPanic
<1>1. ProtocolInv => NoProtocolPanic
  BY DEF ProtocolInv
<1> QED BY <1>1, ProtocolInvariant, PTL

-----------------------------------------------------------------------------
(***************************************************************************)
(* The machine whose write is being spread still has the process that      *)
(* wrote: it is stopping itself, stopped, or dead.  So the machine whose   *)
(* page is the current one has not left, and there is a current page.      *)
(***************************************************************************)
ParkInv == \A a \in Arbiters : Served(a) => \E p \in Procs : Home[p] = a /\ Parked(p, "dropAccess")

(* The server adds no machine to those whose write is being spread.        *)
LEMMA ServedServer ==
  ASSUME TypeOK, StepMatchesQueue, GrantInv, StopInv, StartInv, LineInv, NEW a \in Arbiters, ServerStep(a),
         UNCHANGED <<arbVars, procVars, p2a, a2p, signals, mem>>
  PROVE  \A b \in Arbiters : Served(b)' => Served(b)
<1>0. a2s \in [Arbiters -> Seq(Message)] /\ opqueue \in Seq(Arbiters)
  BY DEF TypeOK, NetTypeOK, ServerTypeOK
<1> SUFFICES ASSUME NEW b \in Arbiters, Served(b)' PROVE Served(b)
  OBVIOUS
<1>1. UNCHANGED a2s \/ (a2s[a] # << >> /\ a2s' = Consume(a2s, a)) => (Returned(b)' => Returned(b))
  <2>1. UNCHANGED a2s => (Returned(b)' => Returned(b))
    BY DEF Returned, Has
  <2>2. a2s[a] # << >> /\ a2s' = Consume(a2s, a) => (Returned(b)' => Returned(b))
    BY <1>0, ConsumeHas DEF Returned
  <2> QED BY <2>1, <2>2
<1>2. CASE Quietly(a)
  BY <1>1, <1>2 DEF Quietly, Served
<1>3. CASE /\ SrvSyncRequest(a) /\ started /\ a2s[a] # << >> /\ Head(a2s[a]) = Request
           /\ a2s' = Consume(a2s, a) /\ opqueue' = Append(opqueue, a)
           /\ \/ opqueue = << >> /\ step = "READY" /\ step' = "WAITING_STOP_ACK"
              \/ opqueue # << >> /\ UNCHANGED step
  <2>1. opqueue # << >> => Head(opqueue') = Head(opqueue)
    BY <1>0, <1>3, AppendPlaces
  <2> QED BY <1>1, <1>3, <2>1 DEF Served
<1>4. CASE /\ SrvSyncInfo(a) /\ started /\ OnTurn(a)
           /\ a2s[a] # << >> /\ a2s' = Consume(a2s, a) /\ Head(a2s[a]).type = "SYNC_INFO"
           /\ step' = "WAITING_SYNC_ACK" /\ UNCHANGED opqueue
  <2>1. Returned(a)
    BY <1>0, <1>4, ConsumeHas DEF Returned
  <2> QED BY <1>1, <1>4, <2>1 DEF Served, OnTurn
<1>5. ASSUME NEW t, Completes(a, t) PROVE Served(b)
  BY <1>1, <1>5 DEF Completes, Served, StepAfter
<1> QED BY <1>2, <1>3, <1>4, <1>5, LineKinds

LEMMA ParkServer ==
  ASSUME TypeOK, StepMatchesQueue, GrantInv, StopInv, StartInv, LineInv, ParkInv,
         NEW a \in Arbiters, ServerStep(a),
         UNCHANGED <<arbVars, procVars, p2a, a2p, signals, mem>>
  PROVE  ParkInv'
<1>1. \A p \in Procs : Parked(p, "dropAccess") => Parked(p, "dropAccess")'
  BY DEF procVars, signals, Parked
<1> QED BY <1>1, ServedServer DEF ParkInv

(* An arbiter adds its machine when it forwards the data of a process,     *)
(* which is then on its way to stop itself.                                *)
LEMMA ForwardParks ==
  ASSUME TypeOK, PlaceInv, AskInv, NEW a \in Arbiters, NEW p \in Procs, ArbForwardSync(a, p), UNCHANGED procVars
  PROVE  Parked(p, "dropAccess")' /\ Home[p] = a
<1>0. p2a \in [Procs -> Seq(Message)] /\ UNCHANGED loc
  BY DEF TypeOK, NetTypeOK, procVars
<1>1. p \in pass[a] /\ p2a[p] # << >> /\ Head(p2a[p]).type = "SYNC_INFO"
  BY DEF ArbForwardSync, FromProcess, Waiting
<1>2. Returning(p) /\ Home[p] = a
  BY <1>0, <1>1, ConsumeHas, ReaderIsLocal DEF Returning
<1>3. UNCHANGED susp
  BY DEF ArbForwardSync, signals
<1> QED BY <1>0, <1>2, <1>3 DEF AskInv, AskAt, Parked

LEMMA ServedArbiter ==
  ASSUME TypeOK, PlaceInv, NEW a \in Arbiters, ArbiterStep(a), UNCHANGED serverVars, NEW b \in Arbiters, Served(b)'
  PROVE  Served(b) \/ (b = a /\ \E p \in Procs : ArbForwardSync(a, p))
<1>0. a2s \in [Arbiters -> Seq(Message)] /\ UNCHANGED <<step, opqueue>>
  BY DEF TypeOK, NetTypeOK, serverVars, writeVars
<1>1. CASE b # a
  <2>1. a2s'[b] = a2s[b]
    BY <1>1, ArbiterIsLocal DEF SameMachine
  <2> QED BY <1>0, <2>1 DEF Served, Returned, Has
<1>2. CASE ~\E p \in Procs : ArbSyncRequest(a, p) \/ ArbForwardSync(a, p)
  <2>1. PICK S : \E x \in Message : a2s' = SendAll(a2s, S, x) /\ x.type \notin {"SYNC_REQ", "SYNC_INFO"}
    BY <1>2, ArbiterTalks
  <2>2. PICK x \in Message : a2s' = SendAll(a2s, S, x) /\ x.type \notin {"SYNC_REQ", "SYNC_INFO"}
    BY <2>1
  <2>3. Returned(b)' <=> Returned(b)
    BY <1>0, <2>2, LineSends
  <2> QED BY <1>0, <2>3 DEF Served
<1>3. ASSUME NEW p \in Procs, ArbSyncRequest(a, p) PROVE Served(b)
  <2>1. a2s' = SendAll(a2s, {a}, Request)
    BY <1>0, <1>3, ArbiterSend DEF ArbSyncRequest, Request
  <2>2. Returned(b)' => Returned(b)
    BY <1>0, <2>1, RequestIs, SendSame DEF Same, Returned
  <2> QED BY <1>0, <2>2 DEF Served
<1> QED BY <1>1, <1>2, <1>3

LEMMA ParkedKept ==
  ASSUME TypeOK, PlaceInv, GrantInv, StopInv, SettledInv, NEW a \in Arbiters, ArbiterStep(a),
         UNCHANGED <<serverVars, procVars>>,
         NEW p \in Procs, Home[p] \in Arbiters, Served(Home[p]), Parked(p, "dropAccess")
  PROVE  Parked(p, "dropAccess")'
<1>0. UNCHANGED <<step, opqueue, loc>>
  BY DEF serverVars, writeVars, procVars
<1>1. step \in FrozenSteps
  BY DEF Served, GrantInv, InOrder, OnTurn, FrozenSteps
<1>2. susp'[p] = susp[p]
  <2>1. CASE Home[p] # a
    BY <2>1, ArbiterIsLocal DEF SameProcess
  <2>2. CASE Home[p] = a /\ FromServerStep(a)
    <3>1. /\ ~Resuming(a) /\ ~Stopping(a) /\ started
      BY <1>1 DEF StopInv, StopLink, FrozenSteps
    <3>2. Settled
      BY <1>1, <3>1 DEF SettledInv, Whole, FrozenSteps
    <3>3. ptab[p].used => ptab[p].is_stopped
      BY <1>1, <2>2, <3>1, <3>2 DEF Settled, HoldInv, Halted, FrozenSteps
    <3>4. p \notin ToRelease(a)
      BY <3>3 DEF ToRelease, Table
    <3>5. Head(s2a[a]).type = "CONT_ALL" /\ s2a[a] # << >> => Resuming(a)
      BY ConsumeHas DEF TypeOK, NetTypeOK, Resuming
    <3>6. /\ s2a[a] # << >>
          /\ \/ UNCHANGED susp
             \/ Head(s2a[a]).type = "CONT_ALL"
             \/ \A q \in Procs : q \notin ToRelease(a) => susp'[q] = susp[q] /\ tstp'[q] = tstp[q]
      <4>1. FromServerStep(a)
        BY <2>2
      <4> QED BY <4>1, TableServed
    <3> QED BY <3>1, <3>4, <3>5, <3>6
  <2>3. CASE \E q \in Procs : FromProcessStep(a, q)
    BY <2>3, TableRead
  <2>4. CASE ~FromServerStep(a) /\ ~\E q \in Procs : FromProcessStep(a, q)
    BY <2>4, TableRest
  <2> QED BY <2>1, <2>2, <2>3, <2>4
<1> QED BY <1>0, <1>2 DEF Parked

LEMMA ParkArbiter ==
  ASSUME TypeOK, PlaceInv, GrantInv, StopInv, SettledInv, AskInv, ParkInv,
         NEW a \in Arbiters, ArbiterStep(a), UNCHANGED <<serverVars, procVars>>
  PROVE  ParkInv'
<1> SUFFICES ASSUME NEW b \in Arbiters, Served(b)'
             PROVE  \E p \in Procs : Home[p] = b /\ Parked(p, "dropAccess")'
  BY DEF ParkInv
<1>1. CASE Served(b)
  <2>1. PICK p \in Procs : Home[p] = b /\ Parked(p, "dropAccess")
    BY <1>1 DEF ParkInv
  <2> QED BY <1>1, <2>1, ParkedKept
<1>2. ASSUME b = a, NEW p \in Procs, ArbForwardSync(a, p)
      PROVE  \E q \in Procs : Home[q] = b /\ Parked(q, "dropAccess")'
  BY <1>2, ForwardParks
<1> QED BY <1>1, <1>2, ServedArbiter

(* A process on its way to stop itself says nothing.                       *)
LEMMA ParkedMoves ==
  ASSUME TypeInv, NEW p \in Procs, ProcessStep(p) \/ ProcKilled(p), UNCHANGED <<serverVars, arbVars, a2s, s2a>>,
         NEW q \in Procs, Parked(q, "dropAccess")
  PROVE  Parked(q, "dropAccess")' /\ p2a'[q] = p2a[q]
<1>1. UNCHANGED ptab
  BY DEF arbVars
<1>2. /\ \A r \in Procs : r # p => loc'[r] = loc[r] /\ SameProcess(r)
      /\ Says(p) \/ Hears(p) \/ Shifts(p) \/ Halts(p) \/ Delivers(p)
  BY <1>1, ProcessMoves
<1>3. CASE q # p
  BY <1>2, <1>3 DEF SameProcess, Parked
<1>4. CASE q = p
  <2>1. /\ ~Says(p) /\ ~Hears(p)
    BY <1>4 DEF Parked, Says, Hears, Talks, Running
  <2> QED BY <1>2, <1>4, <2>1 DEF Parked, Shifts, Halts, Delivers
<1> QED BY <1>3, <1>4

LEMMA ParkProcess ==
  ASSUME TypeInv, ParkInv, NEW p \in Procs, ProcessStep(p) \/ ProcKilled(p),
         UNCHANGED <<serverVars, arbVars, a2s, s2a>>
  PROVE  ParkInv'
<1>1. UNCHANGED <<step, opqueue, a2s>>
  BY DEF serverVars, writeVars
<1>2. \A b \in Arbiters : Served(b)' <=> Served(b)
  BY <1>1 DEF Served, Returned, Has
<1> QED BY <1>2, ParkedMoves DEF ParkInv

LEMMA ParkStep ==
  ASSUME ProtocolInv, ParkInv, [Next]_vars
  PROVE  ParkInv'
<1>0. /\ TypeInv /\ TypeOK /\ PlaceInv /\ StepMatchesQueue /\ GrantInv /\ StartInv /\ StopInv /\ SettledInv
      /\ AskInv /\ LineInv
  BY DEF ProtocolInv, WriterInv, TypeInv
<1>1. ASSUME NEW a \in Arbiters, ServerStep(a),
             UNCHANGED <<arbVars, procVars, p2a, a2p, signals, mem>>
      PROVE  ParkInv'
  BY <1>0, <1>1, ParkServer
<1>2. ASSUME NEW a \in Arbiters, ArbiterStep(a), UNCHANGED <<serverVars, procVars>>
      PROVE  ParkInv'
  BY <1>0, <1>2, ParkArbiter
<1>3. ASSUME NEW p \in Procs, ProcessStep(p) \/ ProcKilled(p), UNCHANGED <<serverVars, arbVars, a2s, s2a>>
      PROVE  ParkInv'
  BY <1>0, <1>3, ParkProcess
<1>4. ASSUME NEW p \in Procs, ProcessLosesArbiter(p) PROVE ParkInv'
  <2>1. /\ UNCHANGED <<step, opqueue, a2s, susp>> /\ \A q \in Procs : q # p => loc'[q] = loc[q]
        /\ ~Parked(p, "dropAccess")
    BY <1>0, <1>4 DEF ProcessLosesArbiter, Goto, Parked, serverVars, writeVars, netVars, channels, signals,
                      TypeOK, ProcessTypeOK
  <2>2. \A b \in Arbiters : Served(b)' <=> Served(b)
    BY <2>1 DEF Served, Returned, Has
  <2>3. \A q \in Procs : Parked(q, "dropAccess") => Parked(q, "dropAccess")'
    BY <2>1 DEF Parked
  <2> QED BY <2>2, <2>3 DEF ParkInv
<1>5. CASE Breaks
  <2>1. UNCHANGED <<step, opqueue, a2s, susp, loc>>
    BY <1>5 DEF Breaks, writeVars, procVars, netVars, channels, signals
  <2>2. \A b \in Arbiters : Served(b)' <=> Served(b)
    BY <2>1 DEF Served, Returned, Has
  <2>3. \A q \in Procs : Parked(q, "dropAccess") => Parked(q, "dropAccess")'
    BY <2>1 DEF Parked
  <2> QED BY <2>2, <2>3 DEF ParkInv
<1> QED BY <1>0, <1>1, <1>2, <1>3, <1>4, <1>5, StepKinds

LEMMA ParkInit == Init => ParkInv
BY DEF Init, NetInit, ServerInit, ParkInv, Served, Returned, Has

-----------------------------------------------------------------------------
LEMMA PageEqual ==
  ASSUME Offsets = {0}, NEW f \in [Offsets -> Values], NEW g \in [Offsets -> Values], f[0] = g[0]
  PROVE  f = g
OBVIOUS

LEMMA HeadCounts ==
  ASSUME NEW S, NEW s \in Seq(S), s # << >>
  PROVE  NoOf(s, Head(s)) \in Nat /\ NoOf(s, Head(s)) > 0
<1>1. 1 \in DOMAIN s /\ s[1] = Head(s)
  BY TailPlaces
<1> QED BY <1>1, CountPlaces

(* A machine stays as long as one of its processes has not left.           *)
LEMMA StaysLive ==
  ASSUME TypeOK, CountInv, EnrolInv, EndInv, started, NEW p \in Procs, loc[p] \notin Left
  PROVE  Live(Home[p])
<1>1. Home[p] \in Arbiters
  BY HomeAssumption
<1>2. p \in Accepted(Home[p])
  BY DEF CountInv, EnrolInv
<1>3. fds[Home[p]] # << >>
  BY <1>2 DEF Accepted
<1> QED BY <1>1, <1>3 DEF EndInv, Live

(* So does one with a process in its queue, the head of which is entitled. *)
LEMMA QueuedLive ==
  ASSUME TypeOK, PlaceInv, AskInv, CountInv, EnrolInv, EndInv, started,
         NEW a \in Arbiters, arbQueue[a] # << >>
  PROVE  /\ Live(a)
         /\ Head(arbQueue[a]) \in Procs /\ Home[Head(arbQueue[a])] = a
         /\ Lined(Head(arbQueue[a])) > 0
<1> DEFINE p == Head(arbQueue[a])
<1>1. p \in Procs /\ Home[p] = a
  <2>1. arbQueue[a] \in Seq(Local(a))
    BY DEF PlaceInv
  <2>2. p \in Local(a)
    BY <2>1, SeqTypes
  <2> QED BY <2>2 DEF Local
<1>2. Lined(p) > 0
  <2>1. AtHead(p)
    BY <1>1 DEF AtHead
  <2> QED BY <1>1, <2>1, AskTypes
<1>3. Lined(p) \in Nat
  BY <1>1, AskTypes
<1> HIDE DEF p
<1>4. AskAt(p)
  BY <1>1 DEF AskInv
<1>5. loc[p] \notin Left
  BY <1>2, <1>3, <1>4 DEF AskAt, Left, Wanting, Dead
<1>6. Live(a)
  BY <1>1, <1>5, StaysLive
<1> QED BY <1>1, <1>2, <1>6 DEF p

(***************************************************************************)
(* What a state says of the abstract page: the machine whose page is the   *)
(* current one is there; all pages are equal when a writer is let in; and  *)
(* the writer is the head of its machine's queue, and is asking.           *)
(***************************************************************************)
CurrentInv ==
  /\ opqueue # << >> => Head(opqueue) \in Arbiters /\ Live(Head(opqueue))
  /\ Calm => \A a, b \in Arbiters : Live(a) /\ Live(b) => mem[a] = mem[b]
  /\ \A a \in Arbiters : OnTurn(a) /\ ~Returned(a) =>
       /\ arbQueue[a] # << >>
       /\ Head(arbQueue[a]) \in Procs /\ Home[Head(arbQueue[a])] = a
       /\ Sent(a) => Head(arbQueue[a]) \in Asking

LEMMA CurrentFollows ==
  ASSUME Offsets = {0}, ProtocolInv, ParkInv
  PROVE  CurrentInv
<1>0. /\ TypeOK /\ PlaceInv /\ StepMatchesQueue /\ GrantInv /\ StopInv /\ CountInv /\ EnrolInv /\ EndInv
      /\ AskInv /\ LineInv /\ DataInv
  BY DEF ProtocolInv, WriterInv, TypeInv, RegistrationInv
<1>1. opqueue # << >> => started /\ Head(opqueue) \in Arbiters
  BY <1>0, SeqTypes DEF StepMatchesQueue, StopInv, TypeOK, ServerTypeOK
<1>2. ASSUME opqueue # << >>, ~Served(Head(opqueue)) PROVE arbQueue[Head(opqueue)] # << >>
  <2> DEFINE a == Head(opqueue)
  <2>1. a \in Arbiters
    BY <1>1, <1>2
  <2>2. NoOf(opqueue, a) > 0 /\ NoOf(opqueue, a) \in Nat /\ NoIn(a2s, a, Request) \in Nat
        /\ Len(arbQueue[a]) \in Nat /\ (arbQueue[a] = << >> => Len(arbQueue[a]) = 0)
    BY <1>0, <1>2, <2>1, LineTypes
  <2> HIDE DEF a
  <2>3. ~Served(a)
    BY <1>2 DEF a
  <2>4. NoOf(opqueue, a) + NoIn(a2s, a, Request) = Len(arbQueue[a])
    BY <1>0, <2>1, <2>3 DEF LineInv, LineAt
  <2> QED BY <2>2, <2>4 DEF a
<1>3. ASSUME opqueue # << >> PROVE Live(Head(opqueue))
  <2>1. CASE Served(Head(opqueue))
    <3>1. PICK p \in Procs : Home[p] = Head(opqueue) /\ Parked(p, "dropAccess")
      BY <1>1, <1>3, <2>1 DEF ParkInv
    <3>2. loc[p] \notin Left
      BY <3>1 DEF Parked, Left
    <3> QED BY <1>0, <1>1, <1>3, <3>1, <3>2, StaysLive
  <2>2. CASE ~Served(Head(opqueue))
    BY <1>0, <1>1, <1>2, <1>3, <2>2, QueuedLive
  <2> QED BY <2>1, <2>2
<1>4. ASSUME Calm, NEW a \in Arbiters, NEW b \in Arbiters, Live(a), Live(b) PROVE mem[a] = mem[b]
  <2>1. mem[a] \in [Offsets -> Values] /\ mem[b] \in [Offsets -> Values]
    BY <1>0 DEF TypeOK, NetTypeOK
  <2>2. mem[a][0] = mem[b][0]
    BY <1>0, <1>4 DEF DataInv, Value
  <2> QED BY <2>1, <2>2, PageEqual
<1>5. ASSUME NEW a \in Arbiters, OnTurn(a), ~Returned(a)
      PROVE  /\ arbQueue[a] # << >>
             /\ Head(arbQueue[a]) \in Procs /\ Home[Head(arbQueue[a])] = a
             /\ Sent(a) => Head(arbQueue[a]) \in Asking
  <2>1. opqueue # << >> /\ Head(opqueue) = a /\ ~Served(a)
    BY <1>5 DEF OnTurn, Served
  <2>2. arbQueue[a] # << >>
    BY <1>2, <2>1
  <2> DEFINE p == Head(arbQueue[a])
  <2>3. p \in Procs /\ Home[p] = a /\ Lined(p) > 0
    BY <1>0, <1>1, <2>1, <2>2, QueuedLive
  <2> HIDE DEF p
  <2>4. ASSUME Sent(a) PROVE p \in Asking
    <3>1. ~Holds(p)
      BY <1>0, <2>3, <2>4 DEF GrantInv, Apart
    <3>2. AskAt(p) /\ Lined(p) \in Nat
      BY <1>0, <2>3, AskTypes DEF AskInv
    <3>3. loc[p] = "takeAccess" \/ loc[p] \in Dead
      BY <2>3, <3>1, <3>2 DEF AskAt, Holds, Writable, Wanting
    <3>4. \E i \in DOMAIN arbQueue[Home[p]] : arbQueue[Home[p]][i] = p
      BY <1>0, <2>3, AskTypes
    <3>5. ~\E i \in DOMAIN p2a[p] : p2a[p][i].type = "SYNC_INFO"
      BY <3>1 DEF Holds, Returning, Has
    <3> QED BY <2>3, <3>3, <3>4, <3>5 DEF Asking, Dead
  <2> QED BY <2>2, <2>3, <2>4 DEF p
<1> QED BY <1>1, <1>3, <1>4, <1>5 DEF CurrentInv

CoherentInv == ProtocolInv /\ ParkInv /\ CurrentInv

(* What a step of the server makes of the queue, the grant and the data.   *)
LEMMA TurnKinds ==
  ASSUME TypeOK, StepMatchesQueue, GrantInv, StopInv, StartInv, LineInv, NEW a \in Arbiters, ServerStep(a)
  PROVE  \/ /\ UNCHANGED opqueue /\ (step' = "WAITING_SYNC_INFO" <=> step = "WAITING_SYNC_INFO")
            /\ \A b \in Arbiters : Returned(b)' <=> Returned(b)
         \/ /\ opqueue # << >> /\ opqueue' = Append(opqueue, a) /\ UNCHANGED step
            /\ \A b \in Arbiters : Returned(b)' <=> Returned(b)
         \/ opqueue = << >> /\ opqueue' = Append(opqueue, a) /\ step = "READY" /\ step' = "WAITING_STOP_ACK"
         \/ OnTurn(a) /\ Returned(a) /\ UNCHANGED opqueue /\ step' = "WAITING_SYNC_ACK"
         \/ /\ step = "WAITING_STOP_ACK" /\ step' = "WAITING_SYNC_INFO"
            /\ UNCHANGED opqueue /\ opqueue # << >> /\ Sent(Head(opqueue))'
         \/ /\ opqueue # << >> /\ Served(Head(opqueue)) /\ step # "READY"
            /\ opqueue' = Tail(opqueue)
            /\ \/ opqueue' = << >> /\ step' = "READY"
               \/ opqueue' # << >> /\ step' = "WAITING_SYNC_INFO" /\ Sent(Head(opqueue))'
<1>0. /\ a2s \in [Arbiters -> Seq(Message)] /\ s2a \in [Arbiters -> Seq(Message)] /\ opqueue \in Seq(Arbiters)
      /\ Simple("WRITE_OKAY") \in Message /\ Simple("WRITE_OKAY").type = "WRITE_OKAY"
  BY MessageTypes DEF TypeOK, NetTypeOK, ServerTypeOK, Simple, SimpleTypes
<1>1. ASSUME NEW b \in Arbiters, s2a' = Send(s2a, b, Simple("WRITE_OKAY")) PROVE Has(s2a', b, "WRITE_OKAY")
  BY <1>0, <1>1, SendHas
<1>2. CASE Quietly(a)
  <2>1. ~SrvSyncInfo(a)
    <3> SUFFICES ASSUME SrvSyncInfo(a) PROVE FALSE
      OBVIOUS
    <3>1. a2s[a] # << >> /\ a2s' = Consume(a2s, a) /\ Head(a2s[a]).type = "SYNC_INFO"
      BY DEF SrvSyncInfo, SrvReceive, Waiting
    <3>2. Once(a2s, a, "SYNC_INFO")
      BY DEF GrantInv, AtMostOnce
    <3>3. Has(a2s, a, "SYNC_INFO") /\ ~Has(Consume(a2s, a), a, "SYNC_INFO")
      BY <1>0, <3>1, <3>2, ConsumeHas
    <3> QED BY <1>2, <3>1, <3>3 DEF Quietly
  <2>2. \A b \in Arbiters : Returned(b)' <=> Returned(b)
    <3>1. CASE UNCHANGED a2s
      BY <3>1 DEF Returned, Has
    <3>2. CASE /\ a2s[a] # << >> /\ a2s' = Consume(a2s, a)
               /\ Head(a2s[a]).type \notin {"SYNC_REQ", "SYNC_INFO"}
      BY <1>0, <3>2, LineReads
    <3> QED BY <1>2, <3>1, <3>2 DEF Quietly
  <2>3. CASE SrvSyncDone(a)
    <3>1. step' = "WAITING_SYNC_INFO" <=> step = "WAITING_SYNC_INFO"
      <4>1. SrvPanic => step' = step
        BY DEF SrvPanic, writeVars
      <4>2. SrvPanic \/ step = "WAITING_SYNC_ACK"
        BY <2>3 DEF SrvSyncDone
      <4> QED BY <1>2, <4>1, <4>2 DEF Quietly
    <3> QED BY <1>2, <2>2, <3>1 DEF Quietly
  <2>4. CASE ~SrvSyncDone(a)
    <3>1. \/ UNCHANGED step
          \/ step' # "WAITING_SYNC_INFO" /\ step = "READY"
          \/ step = "WAITING_STOP_ACK" /\ step' = "WAITING_SYNC_INFO"
      <4>1. \/ UNCHANGED step
            \/ step = "READY" /\ step' = "WAITING_STOP_ACK" /\ started'
            \/ step = "WAITING_STOP_ACK" /\ step' = "WAITING_SYNC_INFO"
        BY <2>1, <2>4, ServerOrdinary
      <4> QED BY <4>1
    <3>2. CASE step = "WAITING_STOP_ACK" /\ step' = "WAITING_SYNC_INFO"
      <4>1. opqueue # << >> /\ s2a' = Send(s2a, Head(opqueue), Simple("WRITE_OKAY"))
        BY <2>1, <2>4, <3>2 DEF ServerStep, SrvAccept, SrvAddProc, SrvPanic, SrvSyncRequest, SrvStopDone,
                                SrvWaitBarr, SrvPrgmDone, writeVars, counters
      <4>2. Head(opqueue) \in Arbiters
        BY <1>0, <4>1, SeqTypes
      <4>3. Has(s2a', Head(opqueue), "WRITE_OKAY")
        BY <1>1, <4>1, <4>2
      <4>4. UNCHANGED opqueue
        BY <1>2 DEF Quietly
      <4>5. Sent(Head(opqueue))'
        BY <4>3, <4>4 DEF Sent
      <4> QED BY <3>2, <4>1, <4>4, <4>5
    <3>3. CASE UNCHANGED step \/ (step' # "WAITING_SYNC_INFO" /\ step = "READY")
      BY <1>2, <2>2, <3>3 DEF Quietly
    <3> QED BY <3>1, <3>2, <3>3
  <2> QED BY <2>3, <2>4
<1>3. CASE /\ SrvSyncRequest(a) /\ started /\ a2s[a] # << >> /\ Head(a2s[a]) = Request
           /\ a2s' = Consume(a2s, a) /\ opqueue' = Append(opqueue, a)
           /\ \/ opqueue = << >> /\ step = "READY" /\ step' = "WAITING_STOP_ACK"
              \/ opqueue # << >> /\ UNCHANGED step
  <2>1. \A b \in Arbiters : Returned(b)' <=> Returned(b)
    BY <1>0, <1>3, RequestIs, ConsumeSame DEF Same, Returned
  <2> QED BY <1>3, <2>1
<1>4. CASE /\ SrvSyncInfo(a) /\ started /\ OnTurn(a)
           /\ a2s[a] # << >> /\ a2s' = Consume(a2s, a) /\ Head(a2s[a]).type = "SYNC_INFO"
           /\ step' = "WAITING_SYNC_ACK" /\ UNCHANGED opqueue
  <2>1. Returned(a)
    BY <1>0, <1>4, ConsumeHas DEF Returned
  <2> QED BY <1>4, <2>1
<1>5. ASSUME NEW t, Completes(a, t), opqueue # << >>, Served(Head(opqueue)), step # "READY"
      PROVE  /\ opqueue' = Tail(opqueue)
             /\ \/ opqueue' = << >> /\ step' = "READY"
                \/ opqueue' # << >> /\ step' = "WAITING_SYNC_INFO" /\ Sent(Head(opqueue))'
  <2>1. CASE Tail(opqueue) = << >>
    BY <1>5, <2>1 DEF Completes, StepAfter
  <2>2. CASE Tail(opqueue) # << >>
    <3>1. Head(Tail(opqueue)) \in Arbiters
      BY <1>0, <1>5, <2>2, SeqTypes
    <3>2. /\ opqueue' = Tail(opqueue) /\ step' = "WAITING_SYNC_INFO"
          /\ s2a' = Send(s2a, Head(Tail(opqueue)), Simple("WRITE_OKAY"))
      BY <1>5, <2>2 DEF Completes, StepAfter
    <3>3. Has(s2a', Head(Tail(opqueue)), "WRITE_OKAY")
      BY <1>1, <3>1, <3>2
    <3>4. Sent(Head(opqueue))'
      BY <3>2, <3>3 DEF Sent
    <3> QED BY <2>2, <3>2, <3>4
  <2> QED BY <2>1, <2>2
<1>6. CASE SrvSyncInfo(a) /\ OnTurn(a) /\ Completes(a, "SYNC_INFO") /\ started
  <2>1. Returned(a)
    BY <1>0, <1>6, ConsumeHas DEF Returned, Completes
  <2> QED BY <1>5, <1>6, <2>1 DEF OnTurn, Served
<1>7. CASE SrvSyncDone(a) /\ step = "WAITING_SYNC_ACK" /\ Completes(a, "SYNC_DONE") /\ started
  <2>1. opqueue # << >>
    BY <1>7 DEF Completes
  <2>2. Served(Head(opqueue)) /\ step # "READY"
    BY <1>7 DEF Served
  <2> QED BY <1>5, <1>7, <2>1, <2>2
<1> QED BY <1>2, <1>3, <1>4, <1>6, <1>7, LineKinds

LEMMA Chosen ==
  ASSUME NEW S, S \subseteq Arbiters, S # {}
  PROVE  (CHOOSE a \in Arbiters : S = {} \/ a \in S) \in S
OBVIOUS

(* Where nothing is left of a write, any machine that is left will do.     *)
LEMMA SourceIsPresent ==
  ASSUME CurrentInv, Present # {} \/ opqueue # << >>
  PROVE  Source \in Present
<1>1. CASE opqueue # << >>
  BY <1>1 DEF CurrentInv, Source, Present, Live
<1>2. CASE opqueue = << >>
  <2>1. Present \subseteq Arbiters
    BY DEF Present
  <2>2. (CHOOSE a \in Arbiters : Present = {} \/ a \in Present) \in Present
    BY <1>2, <2>1, Chosen
  <2> QED BY <1>2, <2>2 DEF Source
<1> QED BY <1>1, <1>2

(* What the abstract writer is read from.                                  *)
LEMMA WriterKept ==
  ASSUME UNCHANGED <<opqueue, arbQueue>>, step' = "WAITING_SYNC_INFO" <=> step = "WAITING_SYNC_INFO",
         step = "WAITING_SYNC_INFO" => (Returned(Head(opqueue))' <=> Returned(Head(opqueue)))
  PROVE  Writer' = Writer
BY DEF Writer, Returned, Has

(* A step of the server chooses the next writer, or changes nothing.       *)
LEMMA ServerCoherent ==
  ASSUME Offsets = {0}, CoherentInv, CoherentInv', NEW a \in Arbiters, ServerStep(a),
         UNCHANGED <<arbVars, procVars, p2a, a2p, signals, mem>>
  PROVE  (\E p \in Procs : Coherent!Grant(p)) \/ UNCHANGED Coherent!pageVars
<1>0. /\ TypeOK /\ StepMatchesQueue /\ GrantInv /\ StopInv /\ StartInv /\ LineInv /\ CurrentInv /\ StepMatchesQueue'
      /\ CurrentInv' /\ GrantInv' /\ opqueue \in Seq(Arbiters)
  BY DEF CoherentInv, ProtocolInv, WriterInv, TypeInv, TypeOK, ServerTypeOK
<1>1. Asking' = Asking /\ Present' = Present /\ UNCHANGED <<mem, arbQueue, arbState>>
  BY DEF Asking, Present, arbVars, procVars
<1>h. opqueue # << >> => Head(opqueue) \in Arbiters /\ Head(opqueue) \in Present
  BY <1>0 DEF CurrentInv, Present, Live
<1>h1. opqueue' # << >> => Head(opqueue') \in Arbiters /\ Head(opqueue') \in Present
  BY <1>0, <1>1 DEF CurrentInv, Present, Live
<1>2. ASSUME opqueue # << >>, opqueue' # << >>, Head(opqueue') = Head(opqueue), Writer' = Writer
      PROVE  UNCHANGED Coherent!pageVars
  BY <1>1, <1>2 DEF Source, Coherent!pageVars
<1>3. CASE /\ UNCHANGED opqueue /\ (step' = "WAITING_SYNC_INFO" <=> step = "WAITING_SYNC_INFO")
           /\ \A b \in Arbiters : Returned(b)' <=> Returned(b)
  <2>1. step = "WAITING_SYNC_INFO" => (Returned(Head(opqueue))' <=> Returned(Head(opqueue)))
    <3> SUFFICES ASSUME step = "WAITING_SYNC_INFO" PROVE Returned(Head(opqueue))' <=> Returned(Head(opqueue))
      OBVIOUS
    <3>1. Head(opqueue) \in Arbiters
      BY <1>0, <1>h DEF StepMatchesQueue
    <3> QED BY <1>3, <3>1 DEF Returned
  <2>2. Writer' = Writer
    BY <1>1, <1>3, <2>1, WriterKept
  <2>3. Source' = Source
    BY <1>1, <1>3 DEF Source
  <2> QED BY <1>1, <2>2, <2>3 DEF Coherent!pageVars
<1>4. CASE /\ opqueue # << >> /\ opqueue' = Append(opqueue, a) /\ UNCHANGED step
           /\ \A b \in Arbiters : Returned(b)' <=> Returned(b)
  <2>1. opqueue' # << >> /\ Head(opqueue') = Head(opqueue)
    BY <1>0, <1>4, AppendPlaces, SeqTypes
  <2>2. Returned(Head(opqueue))' <=> Returned(Head(opqueue))
    BY <1>4, <1>h, <2>1 DEF Returned
  <2>3. Writer' = Writer
    BY <1>1, <1>4, <2>1, <2>2 DEF Writer, Returned, Has
  <2> QED BY <1>2, <1>4, <2>1, <2>3
<1>5. ASSUME Writer = Server, Writer' = Server, Calm', Present # {} => Source \in Present /\ Source' \in Present,
             Source \in Present \/ Source' = Source
      PROVE  UNCHANGED Coherent!pageVars
  <2>1. CASE Source' = Source
    BY <1>1, <1>5, <2>1 DEF Coherent!pageVars
  <2>2. CASE Source \in Present
    <3>1. mem'[Source'] = mem'[Source]
      BY <1>0, <1>1, <1>5, <2>2 DEF CurrentInv, Present, Live
    <3> QED BY <1>1, <1>5, <3>1 DEF Coherent!pageVars
  <2> QED BY <1>5, <2>1, <2>2
<1>6. CASE opqueue = << >> /\ opqueue' = Append(opqueue, a) /\ step = "READY" /\ step' = "WAITING_STOP_ACK"
  <2>1. opqueue' # << >> /\ Source' \in Present
    BY <1>0, <1>6, <1>h1, SeqTypes DEF Source
  <2>2. Source \in Present
    BY <1>0, <2>1, SourceIsPresent
  <2>3. Writer = Server /\ Writer' = Server /\ Calm'
    BY <1>6 DEF Writer, Calm
  <2> QED BY <1>5, <2>1, <2>2, <2>3
<1>7. CASE OnTurn(a) /\ Returned(a) /\ UNCHANGED opqueue /\ step' = "WAITING_SYNC_ACK"
  <2>1. Writer = Server /\ Writer' = Server
    BY <1>7 DEF Writer, OnTurn, Returned, Has
  <2>2. opqueue # << >> /\ opqueue' # << >> /\ Head(opqueue') = Head(opqueue)
    BY <1>7 DEF OnTurn
  <2> QED BY <1>2, <2>1, <2>2
<1>8. ASSUME opqueue # << >>, opqueue' # << >>, Writer = Server, step' = "WAITING_SYNC_INFO", Sent(Head(opqueue))'
      PROVE  \E p \in Procs : Coherent!Grant(p)
  <2>0. PICK h \in Arbiters : h = Head(opqueue')
    BY <1>8, <1>h1
  <2> DEFINE p == Head(arbQueue[h])
  <2>1. h \in Arbiters /\ Head(opqueue) \in Present /\ h \in Present
    BY <1>8, <1>h, <1>h1, <2>0
  <2>2. OnTurn(h)'
    BY <1>8, <2>0 DEF OnTurn
  <2>3. Sent(h)'
    BY <1>8, <2>0 DEF Sent
  <2>4. ~Returned(h)'
    BY <1>0, <2>1, <2>3 DEF GrantInv, Apart
  <2>5. p \in Procs /\ p \in Asking
    <3>1. Head(arbQueue'[h]) \in Procs /\ (Sent(h)' => Head(arbQueue'[h]) \in Asking')
      BY <1>0, <2>1, <2>2, <2>4 DEF CurrentInv
    <3> QED BY <1>1, <2>3, <3>1
  <2>6. Writer' = p
    BY <1>1, <1>8, <2>0, <2>4 DEF Writer, Returned, Has
  <2>7. Calm'
    BY <2>1, <2>3 DEF Calm, Fresh
  <2>8. \A b \in Present : mem[b] = mem[Head(opqueue)]
    BY <1>0, <1>1, <2>1, <2>7 DEF CurrentInv, Present, Live
  <2>9. Source = Head(opqueue) /\ Source' = h
    BY <1>8, <2>0 DEF Source
  <2>10. mem'[Source'] = mem[Source]
    BY <1>1, <2>1, <2>8, <2>9
  <2> HIDE DEF p
  <2>11. Coherent!Grant(p)
    BY <1>1, <1>8, <2>5, <2>6, <2>8, <2>9, <2>10 DEF Coherent!Grant
  <2> QED BY <2>5, <2>11
<1>9. CASE /\ step = "WAITING_STOP_ACK" /\ step' = "WAITING_SYNC_INFO"
           /\ UNCHANGED opqueue /\ opqueue # << >> /\ Sent(Head(opqueue))'
  <2>1. Writer = Server
    BY <1>9 DEF Writer
  <2> QED BY <1>8, <1>9, <2>1
<1>10. CASE /\ opqueue # << >> /\ Served(Head(opqueue)) /\ step # "READY"
            /\ opqueue' = Tail(opqueue)
            /\ \/ opqueue' = << >> /\ step' = "READY"
               \/ opqueue' # << >> /\ step' = "WAITING_SYNC_INFO" /\ Sent(Head(opqueue))'
  <2>1. Writer = Server
    BY <1>10 DEF Writer, Served, Returned, Has
  <2>2. CASE opqueue' = << >> /\ step' = "READY"
    <3>1. Writer' = Server /\ Calm'
      BY <2>2 DEF Writer, Calm
    <3>2. Source \in Present
      BY <1>0, <1>10, SourceIsPresent
    <3>3. Source' \in Present
      <4>1. (CHOOSE b \in Arbiters : Present = {} \/ b \in Present) \in Present
        <5>1. Present \subseteq Arbiters /\ Present # {}
          BY <3>2 DEF Present
        <5> QED BY <5>1, Chosen
      <4> QED BY <1>1, <2>2, <4>1 DEF Source
    <3> QED BY <1>5, <2>1, <3>1, <3>2, <3>3
  <2>3. CASE opqueue' # << >> /\ step' = "WAITING_SYNC_INFO" /\ Sent(Head(opqueue))'
    BY <1>8, <1>10, <2>1, <2>3
  <2> QED BY <1>10, <2>2, <2>3
<1> QED
  <2>1. \/ /\ UNCHANGED opqueue /\ (step' = "WAITING_SYNC_INFO" <=> step = "WAITING_SYNC_INFO")
            /\ \A b \in Arbiters : Returned(b)' <=> Returned(b)
        \/ /\ opqueue # << >> /\ opqueue' = Append(opqueue, a) /\ UNCHANGED step
           /\ \A b \in Arbiters : Returned(b)' <=> Returned(b)
        \/ opqueue = << >> /\ opqueue' = Append(opqueue, a) /\ step = "READY" /\ step' = "WAITING_STOP_ACK"
        \/ OnTurn(a) /\ Returned(a) /\ UNCHANGED opqueue /\ step' = "WAITING_SYNC_ACK"
        \/ /\ step = "WAITING_STOP_ACK" /\ step' = "WAITING_SYNC_INFO"
           /\ UNCHANGED opqueue /\ opqueue # << >> /\ Sent(Head(opqueue))'
        \/ /\ opqueue # << >> /\ Served(Head(opqueue)) /\ step # "READY"
           /\ opqueue' = Tail(opqueue)
           /\ \/ opqueue' = << >> /\ step' = "READY"
              \/ opqueue' # << >> /\ step' = "WAITING_SYNC_INFO" /\ Sent(Head(opqueue))'
    BY <1>0, TurnKinds
  <2> QED BY <2>1, <1>3, <1>4, <1>6, <1>7, <1>9, <1>10

-----------------------------------------------------------------------------
InLine(q) == \E i \in DOMAIN arbQueue[Home[q]] : arbQueue[Home[q]][i] = q

LEMMA AskingIs ==
  /\ Asking = {q \in Procs : \/ loc[q] \in {"takeAccess", "store"}
                             \/ loc[q] \in Dead /\ InLine(q) /\ ~Returning(q)}
  /\ Asking' = {q \in Procs : \/ loc'[q] \in {"takeAccess", "store"}
                              \/ loc'[q] \in Dead /\ InLine(q)' /\ ~Returning(q)'}
BY DEF Asking, InLine, Returning, Has, Dead

(* The steps of an arbiter that the abstract page does not see.            *)
LEMMA OtherArbiter ==
  ASSUME TypeOK, PlaceInv, NEW a \in Arbiters, ArbiterStep(a), ~ArbApplySync(a), ~ArbExit(a),
         ~\E p \in Procs : ArbSyncRequest(a, p) \/ ArbForwardSync(a, p)
  PROVE  /\ UNCHANGED <<mem, arbQueue>>
         /\ \A b \in Arbiters : Live(b)' <=> Live(b)
         /\ \A q \in Procs : Returning(q)' <=> Returning(q)
         /\ \A b \in Arbiters : Returned(b)' <=> Returned(b)
<1>0. /\ p2a \in [Procs -> Seq(Message)] /\ a2s \in [Arbiters -> Seq(Message)]
      /\ arbState \in [Arbiters -> {"up", "closing", "exited", "panic"}]
  BY DEF TypeOK, NetTypeOK, ArbiterTypeOK
<1>1. \/ \E p \in Procs : ArbAccept(a, p) \/ ArbAddProc(a, p) \/ ArbWaitBarr(a, p) \/ ArbPrgmDone(a, p)
      \/ \E f \in BOOLEAN : ArbPoll(a, f)
      \/ ArbSetGid(a) \/ ArbStopAll(a) \/ ArbContAll(a) \/ ArbWaitDone(a) \/ ArbWriteOkay(a)
  BY DEF ArbiterStep, FromProcessStep, FromServerStep
<1>2. UNCHANGED <<mem, arbQueue>>
  BY <1>1 DEF ArbAccept, ArbAddProc, ArbWaitBarr, ArbPrgmDone, ArbPoll, ArbSetGid, ArbStopAll, ArbContAll,
              ArbWaitDone, ArbWriteOkay, ArbPanic
<1>3. \/ UNCHANGED arbState
      \/ \E t \in {"panic", "closing"} : arbState[a] = "up" /\ arbState' = [arbState EXCEPT ![a] = t]
  BY <1>0, <1>1 DEF ArbAccept, ArbAddProc, ArbWaitBarr, ArbPrgmDone, ArbPoll, ArbSetGid, ArbStopAll, ArbContAll,
              ArbWaitDone, ArbWriteOkay, ArbPanic, FromServer, FromProcess
<1>4. \A b \in Arbiters : Live(b)' <=> Live(b)
  BY <1>0, <1>3 DEF Live
<1>5. \/ UNCHANGED p2a
      \/ \E p \in Procs : p2a[p] # << >> /\ Head(p2a[p]).type # "SYNC_INFO" /\ p2a' = Consume(p2a, p)
  BY <1>1 DEF ArbAccept, ArbAddProc, ArbWaitBarr, ArbPrgmDone, ArbPoll, ArbSetGid, ArbStopAll, ArbContAll,
              ArbWaitDone, ArbWriteOkay, FromProcess, Waiting, channels
<1>6. \A q \in Procs : Returning(q)' <=> Returning(q)
  <2>1. CASE UNCHANGED p2a
    BY <2>1 DEF Returning, Has
  <2>2. ASSUME NEW p \in Procs, p2a[p] # << >>, Head(p2a[p]).type # "SYNC_INFO", p2a' = Consume(p2a, p)
        PROVE  \A q \in Procs : Returning(q)' <=> Returning(q)
    BY <1>0, <2>2, ConsumeSame DEF Same, Returning
  <2> QED BY <1>5, <2>1, <2>2
<1>7. \A b \in Arbiters : Returned(b)' <=> Returned(b)
  <2>1. PICK S : \E x \in Message : a2s' = SendAll(a2s, S, x) /\ x.type \notin {"SYNC_REQ", "SYNC_INFO"}
    BY ArbiterTalks
  <2>2. PICK x \in Message : a2s' = SendAll(a2s, S, x) /\ x.type \notin {"SYNC_REQ", "SYNC_INFO"}
    BY <2>1
  <2> QED BY <1>0, <2>2, LineSends
<1> QED BY <1>2, <1>4, <1>6, <1>7

(* What leaves the writer and the current page as they are.                *)
LEMMA PageKept ==
  ASSUME CurrentInv, StepMatchesQueue, UNCHANGED <<step, opqueue, mem>>,
         \A b \in Arbiters : Live(b)' <=> Live(b),
         \A b \in Arbiters : Returned(b)' <=> Returned(b),
         \A b \in Arbiters : OnTurn(b) /\ ~Returned(b) => Head(arbQueue'[b]) = Head(arbQueue[b])
  PROVE  Writer' = Writer /\ Present' = Present /\ mem'[Source'] = mem[Source]
<1>1. Present' = Present
  BY DEF Present, Live
<1>2. Source' = Source
  BY <1>1 DEF Source
<1>3. CASE step = "WAITING_SYNC_INFO"
  <2>1. PICK h \in Arbiters : h = Head(opqueue) /\ opqueue # << >>
    BY <1>3 DEF StepMatchesQueue, CurrentInv
  <2>2. OnTurn(h)
    BY <1>3, <2>1 DEF OnTurn
  <2>3. Writer = IF ~Returned(h) THEN Head(arbQueue[h]) ELSE Server
    BY <1>3, <2>1 DEF Writer, Returned, Has
  <2>4. Writer' = IF ~Returned(h)' THEN Head(arbQueue'[h]) ELSE Server
    BY <1>3, <2>1 DEF Writer, Returned, Has
  <2>5. Returned(h)' <=> Returned(h)
    OBVIOUS
  <2>6. ~Returned(h) => Head(arbQueue'[h]) = Head(arbQueue[h])
    BY <2>2
  <2>7. Writer' = Writer
    <3> HIDE DEF Returned
    <3>1. CASE Returned(h)
      BY <2>3, <2>4, <2>5, <3>1
    <3>2. CASE ~Returned(h)
      BY <2>3, <2>4, <2>5, <2>6, <3>2
    <3> QED BY <3>1, <3>2
  <2> QED BY <1>1, <1>2, <2>7
<1>4. CASE step # "WAITING_SYNC_INFO"
  BY <1>1, <1>2, <1>4 DEF Writer
<1> QED BY <1>3, <1>4

(* A request that its arbiter queues.                                      *)
LEMMA AskCoherent ==
  ASSUME CoherentInv, NEW a \in Arbiters, NEW p \in Procs, ArbSyncRequest(a, p),
         UNCHANGED <<serverVars, procVars>>
  PROVE  Coherent!Ask(p) \/ UNCHANGED Coherent!pageVars
<1>0. /\ TypeOK /\ PlaceInv /\ StepMatchesQueue /\ CurrentInv /\ AskInv
      /\ p2a \in [Procs -> Seq(Message)] /\ a2s \in [Arbiters -> Seq(Message)]
      /\ arbQueue \in [Arbiters -> Seq(Procs)]
      /\ UNCHANGED <<step, opqueue, loc, mem, arbState>>
  BY DEF CoherentInv, ProtocolInv, WriterInv, TypeInv, TypeOK, NetTypeOK, ArbiterTypeOK, ArbSyncRequest,
         serverVars, writeVars, procVars
<1>1. /\ p \in pass[a] /\ p2a[p] # << >> /\ Head(p2a[p]).type = "SYNC_REQ" /\ p2a' = Consume(p2a, p)
      /\ arbQueue' = [arbQueue EXCEPT ![a] = Append(@, p)]
      /\ a2s' = Send(a2s, a, Request)
  BY DEF ArbSyncRequest, FromProcess, Waiting, Enqueued, Request
<1>2. Home[p] = a
  BY <1>0, <1>1, ReaderIsLocal
<1>3. \A q \in Procs : Returning(q)' <=> Returning(q)
  BY <1>0, <1>1, ConsumeSame DEF Same, Returning
<1>4. \A b \in Arbiters : Returned(b)' <=> Returned(b)
  <2>1. a2s' = SendAll(a2s, {a}, Request)
    BY <1>0, <1>1, ArbiterSend
  <2> QED BY <1>0, <2>1, RequestIs, SendSame DEF Same, Returned
<1>5. \A q \in Procs : Home[q] \in Arbiters
  BY HomeAssumption
<1>6. \A b \in Arbiters : arbQueue[b] # << >> => Head(arbQueue'[b]) = Head(arbQueue[b])
  BY <1>0, <1>1, AppendPlaces
<1>7. Writer' = Writer /\ Present' = Present /\ mem'[Source'] = mem[Source]
  <2>1. \A b \in Arbiters : OnTurn(b) /\ ~Returned(b) => Head(arbQueue'[b]) = Head(arbQueue[b])
    BY <1>0, <1>6 DEF CurrentInv
  <2>2. \A b \in Arbiters : Live(b)' <=> Live(b)
    BY <1>0 DEF Live
  <2> QED BY <1>0, <1>4, <2>1, <2>2, PageKept
<1>8. ASSUME NEW q \in Procs, q # p PROVE InLine(q)' <=> InLine(q)
  <2>1. CASE Home[q] # a
    BY <1>0, <1>1, <1>5, <2>1 DEF InLine
  <2>2. CASE Home[q] = a
    <3>1. arbQueue'[a] = Append(arbQueue[a], p) /\ arbQueue[a] \in Seq(Procs)
      BY <1>0, <1>1
    <3>2. (\E i \in DOMAIN Append(arbQueue[a], p) : Append(arbQueue[a], p)[i] = q)
            <=> (\E i \in DOMAIN arbQueue[a] : arbQueue[a][i] = q)
      <4>1. /\ DOMAIN Append(arbQueue[a], p) = 1 .. Len(arbQueue[a]) + 1
            /\ \A i \in DOMAIN arbQueue[a] : i \in 1 .. Len(arbQueue[a]) /\ Append(arbQueue[a], p)[i] = arbQueue[a][i]
            /\ Append(arbQueue[a], p)[Len(arbQueue[a]) + 1] = p
            /\ Len(arbQueue[a]) \in Nat /\ DOMAIN arbQueue[a] = 1 .. Len(arbQueue[a])
        BY <3>1, AppendPlaces
      <4> QED BY <1>8, <4>1
    <3> QED BY <2>2, <3>1, <3>2 DEF InLine
  <2> QED BY <2>1, <2>2
<1>9. Asking' \ {p} = Asking \ {p}
  <2>1. ASSUME NEW q \in Procs, q # p PROVE q \in Asking' <=> q \in Asking
    BY <1>0, <1>3, <1>8, <2>1, AskingIs
  <2> QED BY <2>1 DEF Asking
<1>10. p \in Asking => p \in Asking'
  <2>1. arbQueue'[a] = Append(arbQueue[a], p) /\ arbQueue[a] \in Seq(Procs)
    BY <1>0, <1>1
  <2>2. \E i \in DOMAIN Append(arbQueue[a], p) : Append(arbQueue[a], p)[i] = p
    BY <2>1, AppendPlaces
  <2>3. InLine(p)'
    BY <1>2, <2>1, <2>2 DEF InLine
  <2> QED BY <1>0, <1>3, <2>3, AskingIs
<1>11. CASE p \in Asking' /\ p \notin Asking
  <2>1. Asking' = Asking \cup {p}
    BY <1>9, <1>11
  <2> QED BY <1>0, <1>7, <1>11, <2>1 DEF Coherent!Ask
<1>12. CASE p \in Asking' <=> p \in Asking
  <2>1. Asking' = Asking
    BY <1>9, <1>12
  <2> QED BY <1>0, <1>7, <2>1 DEF Coherent!pageVars
<1> QED BY <1>10, <1>11, <1>12

(* The write is done when the data has passed the writer's arbiter.        *)
LEMMA FinishCoherent ==
  ASSUME CoherentInv, NEW a \in Arbiters, NEW p \in Procs, ArbForwardSync(a, p),
         UNCHANGED <<serverVars, procVars>>
  PROVE  Coherent!Finish(p)
<1>0. /\ TypeOK /\ PlaceInv /\ GrantInv /\ CurrentInv /\ AskInv
      /\ p2a \in [Procs -> Seq(Message)] /\ a2s \in [Arbiters -> Seq(Message)]
      /\ arbQueue \in [Arbiters -> Seq(Procs)]
      /\ UNCHANGED <<step, opqueue, loc, mem>>
  BY DEF CoherentInv, ProtocolInv, WriterInv, TypeInv, TypeOK, NetTypeOK, ArbiterTypeOK, ArbForwardSync,
         serverVars, writeVars, procVars
<1>1. /\ p \in pass[a] /\ p2a[p] # << >> /\ Head(p2a[p]).type = "SYNC_INFO" /\ p2a' = Consume(p2a, p)
      /\ a2s' = Send(a2s, a, Head(p2a[p])) /\ arbState[a] = "up"
  BY DEF ArbForwardSync, FromProcess, Waiting
<1>2. Home[p] = a /\ Returning(p)
  BY <1>0, <1>1, ReaderIsLocal, ConsumeHas DEF Returning
<1>3. Holds(p) /\ OnTurn(a) /\ AtHead(p) /\ ~Returned(a)
  BY <1>2 DEF CoherentInv, ProtocolInv, WriterInv, GrantInv, InOrder, Apart, Holds
<1>4. arbQueue[a] # << >> /\ Head(arbQueue[a]) = p
  BY <1>2, <1>3 DEF AtHead
<1>5. arbQueue' = [arbQueue EXCEPT ![a] = Tail(@)] /\ UNCHANGED arbState
  BY <1>4 DEF ArbForwardSync
<1>6. Writer = p
  <2>1. step = "WAITING_SYNC_INFO" /\ Head(opqueue) = a
    BY <1>3 DEF OnTurn
  <2> QED BY <1>3, <1>4, <2>1 DEF Writer, Returned, Has
<1>7. Writer' = Server
  <2>1. Head(p2a[p]) \in Message
    BY <1>0, <1>1, ChannelTypes
  <2>2. Has(a2s', a, "SYNC_INFO")
    BY <1>0, <1>1, <2>1, SendHas
  <2>3. Head(opqueue') = a
    BY <1>0, <1>3 DEF OnTurn
  <2> QED BY <2>2, <2>3 DEF Writer, Has
<1>8. \A q \in Procs : q # p => (Returning(q)' <=> Returning(q))
  BY <1>0, <1>1 DEF Returning, Has, Consume
<1>9. ASSUME NEW q \in Procs, q # p PROVE InLine(q)' <=> InLine(q)
  <2>1. CASE Home[q] # a
    BY <1>0, <1>5, <2>1, HomeAssumption DEF InLine
  <2>2. CASE Home[q] = a
    <3>1. arbQueue'[a] = Tail(arbQueue[a]) /\ arbQueue[a] \in Seq(Procs)
      BY <1>0, <1>5
    <3>2. (\E i \in DOMAIN Tail(arbQueue[a]) : Tail(arbQueue[a])[i] = q)
            <=> (\E i \in DOMAIN arbQueue[a] : arbQueue[a][i] = q)
      <4>1. /\ DOMAIN arbQueue[a] = 1 .. Len(arbQueue[a]) /\ Len(arbQueue[a]) \in Nat \ {0}
            /\ DOMAIN Tail(arbQueue[a]) = 1 .. Len(arbQueue[a]) - 1
            /\ \A i \in DOMAIN Tail(arbQueue[a]) : /\ i + 1 \in DOMAIN arbQueue[a]
                                                   /\ Tail(arbQueue[a])[i] = arbQueue[a][i + 1]
            /\ arbQueue[a][1] = p
        BY <1>4, <3>1, TailPlaces
      <4>2. ASSUME NEW i \in DOMAIN arbQueue[a], arbQueue[a][i] = q
            PROVE  i - 1 \in DOMAIN Tail(arbQueue[a]) /\ Tail(arbQueue[a])[i - 1] = q
        <5>1. i # 1 /\ i \in 1 .. Len(arbQueue[a])
          BY <1>9, <4>1, <4>2
        <5>2. i - 1 \in DOMAIN Tail(arbQueue[a]) /\ (i - 1) + 1 = i
          BY <4>1, <5>1
        <5> QED BY <4>1, <4>2, <5>2
      <4> QED BY <4>1, <4>2
    <3> QED BY <2>2, <3>1, <3>2 DEF InLine
  <2> QED BY <2>1, <2>2
<1>10. p \notin Asking /\ p \notin Asking'
  <2>1. loc[p] \notin {"takeAccess", "store"}
    BY <1>0, <1>2 DEF AskInv, AskAt
  <2>2. p \notin Asking
    BY <1>2, <2>1, AskingIs
  <2>3. ~InLine(p)'
    <3>1. arbQueue'[a] = Tail(arbQueue[a]) /\ arbQueue[a] \in Seq(Procs)
      BY <1>0, <1>5
    <3>2. NoOf(arbQueue[a], p) = NoOf(Tail(arbQueue[a]), p) + 1
      BY <1>4, <3>1, CountTail
    <3>3. Asked(p) \in Nat /\ Lined(p) \in Nat /\ Asked(p) + Lined(p) <= 1
      BY <1>0, AskTypes DEF AskInv, AskAt
    <3>4. NoOf(Tail(arbQueue[a]), p) \in Nat /\ Tail(arbQueue[a]) \in Seq(Procs)
      BY <1>4, <3>1, CountPlaces, SeqTypes
    <3>5. NoOf(Tail(arbQueue[a]), p) = 0
      BY <1>2, <3>2, <3>3, <3>4 DEF Lined
    <3>6. \A i \in DOMAIN Tail(arbQueue[a]) : Tail(arbQueue[a])[i] # p
      BY <3>4, <3>5, CountPlaces
    <3> QED BY <1>2, <3>1, <3>6 DEF InLine
  <2> QED BY <1>0, <2>1, <2>2, <2>3, AskingIs
<1>11. Asking' = Asking
  <2>1. ASSUME NEW q \in Procs, q # p PROVE q \in Asking' <=> q \in Asking
    BY <1>0, <1>8, <1>9, <2>1, AskingIs
  <2> QED BY <1>10, <2>1, AskingIs
<1>12. Present' = Present /\ mem'[Source'] = mem[Source]
  <2>1. Present' = Present
    BY <1>5 DEF Present
  <2> QED BY <1>0, <2>1 DEF Source
<1> QED BY <1>0, <1>6, <1>7, <1>10, <1>11, <1>12 DEF Coherent!Finish

(* Another machine's copy becomes the current page.                        *)
LEMMA UpdateCoherent ==
  ASSUME Offsets = {0}, CoherentInv, NEW a \in Arbiters, ArbApplySync(a),
         UNCHANGED <<serverVars, procVars>>
  PROVE  Coherent!Update(a)
<1>0. /\ TypeOK /\ StepMatchesQueue /\ CurrentInv /\ RoundInv /\ DataInv
      /\ s2a \in [Arbiters -> Seq(Message)] /\ mem \in [Arbiters -> [Offsets -> Values]]
      /\ UNCHANGED <<step, opqueue, loc, arbState, arbQueue, p2a>>
  BY DEF CoherentInv, ProtocolInv, WriterInv, TypeInv, TypeOK, NetTypeOK, ArbApplySync,
         serverVars, writeVars, procVars
<1>1. /\ s2a[a] # << >> /\ Head(s2a[a]).type = "SYNC_INFO"
      /\ mem' = [mem EXCEPT ![a][0] = Head(s2a[a]).buf]
  BY DEF ArbApplySync, FromServer, Waiting
<1> DEFINE m == Head(s2a[a])
           h == Head(opqueue)
<1>2. m \in Message /\ In(s2a, a, m) /\ Updating(a)
  BY <1>0, <1>1, ChannelTypes, ConsumeLess DEF Updating
<1>3. step = "WAITING_SYNC_ACK" /\ opqueue # << >> /\ h \in Arbiters
  BY <1>0, <1>2 DEF RoundInv, StepMatchesQueue, CurrentInv
<1>4. m.buf = mem[h][0] /\ m.buf \in Values
  BY <1>0, <1>1, <1>2, <1>3, PayloadTypes DEF DataInv, Value
<1>5. Source = h /\ Source' = h
  BY <1>0, <1>3 DEF Source
<1> HIDE DEF m, h
<1>6. mem' = [mem EXCEPT ![a] = mem[h]]
  <2>1. [mem[a] EXCEPT ![0] = m.buf] = mem[h]
    <3>1. mem[a] \in [Offsets -> Values] /\ mem[h] \in [Offsets -> Values] /\ 0 \in Offsets
      BY <1>0, <1>3
    <3>2. [mem[a] EXCEPT ![0] = m.buf] \in [Offsets -> Values] /\ [mem[a] EXCEPT ![0] = m.buf][0] = mem[h][0]
      BY <1>4, <3>1
    <3> QED BY <3>1, <3>2, PageEqual
  <2>2. mem' = [mem EXCEPT ![a] = [mem[a] EXCEPT ![0] = m.buf]]
    BY <1>0, <1>1 DEF m
  <2> QED BY <2>1, <2>2
<1>7. mem'[h] = mem[h]
  BY <1>0, <1>3, <1>6
<1>8. Writer = Server /\ Writer' = Server
  BY <1>0, <1>3 DEF Writer
<1>9. Asking' = Asking /\ Present' = Present
  BY <1>0 DEF Asking, Present
<1> QED BY <1>0, <1>5, <1>6, <1>7, <1>8, <1>9 DEF Coherent!Update

(* A machine leaves when its last process has.                             *)
LEMMA LeaveCoherent ==
  ASSUME CoherentInv, NEW a \in Arbiters, ArbExit(a), UNCHANGED <<serverVars, procVars>>
  PROVE  Coherent!Leave(a)
<1>0. /\ TypeOK /\ StepMatchesQueue /\ CurrentInv
      /\ a2s \in [Arbiters -> Seq(Message)]
      /\ arbState \in [Arbiters -> {"up", "closing", "exited", "panic"}]
      /\ UNCHANGED <<step, opqueue, loc, mem, arbQueue, p2a>>
  BY DEF CoherentInv, ProtocolInv, WriterInv, TypeInv, TypeOK, NetTypeOK, ArbiterTypeOK, ArbExit,
         serverVars, writeVars, procVars
<1>1. /\ arbState[a] = "closing" /\ arbState' = [arbState EXCEPT ![a] = "exited"]
      /\ a2s' = Send(a2s, a, Simple("PRGM_DONE"))
  BY DEF ArbExit
<1>2. a \in Present /\ Present' = Present \ {a}
  BY <1>0, <1>1 DEF Present
<1>3. \A b \in Arbiters : Returned(b)' <=> Returned(b)
  <2>1. Simple("PRGM_DONE") \in Message /\ Simple("PRGM_DONE").type # "SYNC_INFO"
    BY MessageTypes DEF Simple, SimpleTypes
  <2>2. a2s' = SendAll(a2s, {a}, Simple("PRGM_DONE"))
    BY <1>0, <1>1, ArbiterSend
  <2> QED BY <1>0, <2>1, <2>2, SendSame DEF Same, Returned
<1>4. Writer' = Writer
  <2>1. step = "WAITING_SYNC_INFO" => (Returned(Head(opqueue))' <=> Returned(Head(opqueue)))
    <3> SUFFICES ASSUME step = "WAITING_SYNC_INFO" PROVE Returned(Head(opqueue))' <=> Returned(Head(opqueue))
      OBVIOUS
    <3>1. Head(opqueue) \in Arbiters
      BY <1>0 DEF StepMatchesQueue, CurrentInv
    <3> QED BY <1>0, <1>3, <3>1 DEF Returned
  <2> QED BY <1>0, <2>1, WriterKept
<1>5. Asking' = Asking
  BY <1>0 DEF Asking
<1>6. mem'[Source'] = mem[Source] \/ Present' = {}
  <2>1. CASE opqueue # << >>
    BY <1>0, <2>1 DEF Source
  <2>2. CASE opqueue = << >> /\ Present' # {}
    <3>1. Source \in Present
      BY <1>0, <1>2, SourceIsPresent
    <3>2. Source' \in Present'
      <4>1. Present' \subseteq Arbiters
        BY DEF Present
      <4>2. (CHOOSE b \in Arbiters : Present' = {} \/ b \in Present') \in Present'
        BY <2>2, <4>1, Chosen
      <4> QED BY <1>0, <2>2, <4>2 DEF Source
    <3>3. Calm
      BY <1>0, <2>2 DEF Calm, StepMatchesQueue
    <3>4. mem[Source'] = mem[Source]
      BY <1>0, <1>2, <3>1, <3>2, <3>3 DEF CurrentInv, Present, Live
    <3> QED BY <1>0, <3>4
  <2> QED BY <2>1, <2>2
<1> QED BY <1>0, <1>2, <1>4, <1>5, <1>6 DEF Coherent!Leave

(* A step of an arbiter.                                                   *)
LEMMA ArbiterCoherent ==
  ASSUME Offsets = {0}, CoherentInv, NEW a \in Arbiters, ArbiterStep(a), UNCHANGED <<serverVars, procVars>>
  PROVE  Coherent!PageNext \/ UNCHANGED Coherent!pageVars
<1>1. ASSUME NEW p \in Procs, ArbSyncRequest(a, p) PROVE Coherent!PageNext \/ UNCHANGED Coherent!pageVars
  BY <1>1, AskCoherent DEF Coherent!PageNext
<1>2. ASSUME NEW p \in Procs, ArbForwardSync(a, p) PROVE Coherent!PageNext
  BY <1>2, FinishCoherent DEF Coherent!PageNext
<1>3. CASE ArbApplySync(a)
  BY <1>3, UpdateCoherent DEF Coherent!PageNext
<1>4. CASE ArbExit(a)
  BY <1>4, LeaveCoherent DEF Coherent!PageNext
<1>5. CASE /\ ~ArbApplySync(a) /\ ~ArbExit(a)
           /\ ~\E p \in Procs : ArbSyncRequest(a, p) \/ ArbForwardSync(a, p)
  <2>0. /\ TypeOK /\ PlaceInv /\ StepMatchesQueue /\ CurrentInv /\ UNCHANGED <<step, opqueue, loc>>
    BY DEF CoherentInv, ProtocolInv, WriterInv, TypeInv, serverVars, writeVars, procVars
  <2>1. /\ UNCHANGED <<mem, arbQueue>>
        /\ \A b \in Arbiters : Live(b)' <=> Live(b)
        /\ \A q \in Procs : Returning(q)' <=> Returning(q)
        /\ \A b \in Arbiters : Returned(b)' <=> Returned(b)
    BY <1>5, <2>0, OtherArbiter
  <2>2. Writer' = Writer /\ Present' = Present /\ mem'[Source'] = mem[Source]
    BY <2>0, <2>1, PageKept
  <2>3. Asking' = Asking
    <3>1. \A q \in Procs : InLine(q)' <=> InLine(q)
      BY <2>1 DEF InLine
    <3> QED BY <2>0, <2>1, <3>1, AskingIs
  <2> QED BY <2>1, <2>2, <2>3 DEF Coherent!pageVars
<1> QED BY <1>1, <1>2, <1>3, <1>4, <1>5

-----------------------------------------------------------------------------
(* A process that does not store asks, gives up, or does neither.          *)
LEMMA OthersAsk ==
  ASSUME CoherentInv, NEW p \in Procs, UNCHANGED <<serverVars, arbVars, a2s, mem>>,
         \A q \in Procs : q # p => loc'[q] = loc[q] /\ p2a'[q] = p2a[q]
  PROVE  Coherent!PageNext \/ UNCHANGED Coherent!pageVars
<1>0. /\ StepMatchesQueue /\ CurrentInv /\ UNCHANGED <<step, opqueue, arbQueue, arbState>>
  BY DEF CoherentInv, ProtocolInv, WriterInv, serverVars, writeVars, arbVars
<1>1. Writer' = Writer /\ Present' = Present /\ mem'[Source'] = mem[Source]
  <2>1. \A b \in Arbiters : (Live(b)' <=> Live(b)) /\ (Returned(b)' <=> Returned(b))
    BY <1>0 DEF Live, Returned, Has
  <2> QED BY <1>0, <2>1, PageKept
<1>2. ASSUME NEW q \in Procs, q # p PROVE q \in Asking' <=> q \in Asking
  <2>1. (InLine(q)' <=> InLine(q)) /\ (Returning(q)' <=> Returning(q)) /\ loc'[q] = loc[q]
    BY <1>0, <1>2 DEF InLine, Returning, Has
  <2> QED BY <2>1, AskingIs
<1>3. Asking \subseteq Procs /\ Asking' \subseteq Procs
  BY DEF Asking
<1>4. CASE p \in Asking' /\ p \notin Asking
  <2>1. Asking' = Asking \cup {p}
    BY <1>2, <1>3, <1>4
  <2>2. Coherent!Ask(p)
    BY <1>1, <1>4, <2>1 DEF Coherent!Ask
  <2> QED BY <2>2 DEF Coherent!PageNext
<1>5. CASE p \notin Asking' /\ p \in Asking
  <2>1. Asking' = Asking \ {p}
    BY <1>2, <1>3, <1>5
  <2>2. Coherent!Abandon(p)
    BY <1>1, <1>5, <2>1 DEF Coherent!Abandon
  <2> QED BY <2>2 DEF Coherent!PageNext
<1>6. CASE p \in Asking' <=> p \in Asking
  <2>1. Asking' = Asking
    BY <1>2, <1>3, <1>6
  <2> QED BY <1>1, <2>1 DEF Coherent!pageVars
<1> QED BY <1>4, <1>5, <1>6

(* A store is the writer's, to the copy that is the current page.          *)
LEMMA StoreCoherent ==
  ASSUME CoherentInv, TypeOK', NEW p \in Procs, ProcStore(p), UNCHANGED <<serverVars, arbVars, a2s, s2a>>
  PROVE  Coherent!Store(p)
<1>0. /\ TypeOK /\ GrantInv /\ UNCHANGED <<step, opqueue, arbQueue, arbState, p2a, a2s>>
      /\ loc \in [Procs -> Locations] /\ mem \in [Arbiters -> [Offsets -> Values]]
      /\ mem' \in [Arbiters -> [Offsets -> Values]]
      /\ Home[p] \in Arbiters
  BY HomeAssumption DEF CoherentInv, ProtocolInv, WriterInv, TypeInv, TypeOK, NetTypeOK, ProcessTypeOK, ProcStore,
         serverVars, writeVars, arbVars
<1>1. loc[p] = "store" /\ loc' = [loc EXCEPT ![p] = "sigill"]
  BY DEF ProcStore, Goto
<1>2. OnTurn(Home[p]) /\ AtHead(p) /\ ~Returned(Home[p])
  BY <1>0, <1>1 DEF GrantInv, InOrder, Apart, Holds, Writable
<1>3. opqueue # << >> /\ Head(opqueue) = Home[p] /\ step = "WAITING_SYNC_INFO"
  BY <1>2 DEF OnTurn
<1>4. Writer = p /\ Writer' = p
  <2>1. Head(arbQueue[Home[p]]) = p
    BY <1>2 DEF AtHead
  <2> QED BY <1>0, <1>2, <1>3, <2>1 DEF Writer, Returned, Has
<1>5. p \in Asking /\ Asking' = Asking \ {p}
  <2>1. p \in Asking /\ p \notin Asking'
    BY <1>0, <1>1, AskingIs DEF Dead
  <2>2. ASSUME NEW q \in Procs, q # p PROVE q \in Asking' <=> q \in Asking
    <3>1. (InLine(q)' <=> InLine(q)) /\ (Returning(q)' <=> Returning(q)) /\ loc'[q] = loc[q]
      BY <1>0, <1>1, <2>2 DEF InLine, Returning, Has
    <3> QED BY <3>1, AskingIs
  <2>3. Asking \subseteq Procs /\ Asking' \subseteq Procs
    BY DEF Asking
  <2> QED BY <2>1, <2>2, <2>3
<1>6. Source' = Home[p]
  BY <1>0, <1>3 DEF Source
<1>7. mem' = [mem EXCEPT ![Home[p]] = mem'[Home[p]]]
  BY <1>0 DEF ProcStore
<1>8. Present' = Present
  BY <1>0 DEF Present
<1>9. mem'[Source'] \in [Offsets -> Values] /\ mem' = [mem EXCEPT ![Home[p]] = mem'[Source']]
  BY <1>0, <1>6, <1>7
<1> QED BY <1>4, <1>5, <1>8, <1>9 DEF Coherent!Store

LEMMA CoherentInit == ASSUME Init PROVE Coherent!PageInit
<1>1. /\ Present = Arbiters /\ Asking = {} /\ Writer = Server
  <2>1. \A p \in Procs : loc[p] = "connect"
    BY DEF Init, ProcessInit
  <2> QED BY <2>1 DEF Init, ServerInit, ArbiterInit, Present, Asking, Writer
<1>2. Source \in Arbiters
  <2>1. Present # {}
    <3>1. PICK p : p \in Procs
      BY NProcType, FS_EmptySet, ProcsAssumption
    <3> QED BY <1>1, <3>1, HomeAssumption
  <2>2. (CHOOSE b \in Arbiters : Present = {} \/ b \in Present) \in Present
    BY <1>1, <2>1, Chosen
  <2> QED BY <1>1, <2>2 DEF Source, Init, ServerInit
<1>3. mem = [a \in Arbiters |-> [o \in Offsets |-> Zero]]
  BY DEF Init, NetInit
<1> QED BY <1>1, <1>2, <1>3 DEF Coherent!PageInit

LEMMA CoherentStep ==
  ASSUME Offsets = {0}, CoherentInv, CoherentInv', [Next]_vars
  PROVE  [Coherent!PageNext]_(Coherent!pageVars)
<1>0. TypeInv /\ TypeOK /\ TypeOK' /\ StepMatchesQueue /\ CurrentInv
  BY DEF CoherentInv, ProtocolInv, WriterInv, TypeInv
<1>1. ASSUME NEW a \in Arbiters, ServerStep(a),
             UNCHANGED <<arbVars, procVars, p2a, a2p, signals, mem>>
      PROVE  Coherent!PageNext \/ UNCHANGED Coherent!pageVars
  BY <1>1, ServerCoherent DEF Coherent!PageNext
<1>2. ASSUME NEW a \in Arbiters, ArbiterStep(a), UNCHANGED <<serverVars, procVars>>
      PROVE  Coherent!PageNext \/ UNCHANGED Coherent!pageVars
  BY <1>2, ArbiterCoherent
<1>3. ASSUME NEW p \in Procs, ProcessStep(p) \/ ProcKilled(p), UNCHANGED <<serverVars, arbVars, a2s, s2a>>
      PROVE  Coherent!PageNext \/ UNCHANGED Coherent!pageVars
  <2>1. CASE ProcStore(p)
    BY <1>0, <1>3, <2>1, StoreCoherent DEF Coherent!PageNext
  <2>2. CASE ~ProcStore(p)
    <3>1. UNCHANGED ptab
      BY <1>3 DEF arbVars
    <3>2. UNCHANGED mem
      BY <1>0, <1>3, <2>2, ProcWrites
    <3>3. \A q \in Procs : q # p => loc'[q] = loc[q] /\ p2a'[q] = p2a[q]
      BY <1>0, <1>3, <3>1, ProcessMoves DEF SameProcess
    <3> QED BY <1>3, <3>2, <3>3, OthersAsk
  <2> QED BY <2>1, <2>2
<1>4. ASSUME NEW p \in Procs, ProcessLosesArbiter(p)
      PROVE  Coherent!PageNext \/ UNCHANGED Coherent!pageVars
  <2>1. UNCHANGED <<serverVars, arbVars, a2s, mem, p2a>>
    BY <1>4 DEF ProcessLosesArbiter, netVars, channels
  <2>2. \A q \in Procs : q # p => loc'[q] = loc[q]
    BY <1>0, <1>4 DEF ProcessLosesArbiter, Goto, TypeOK, ProcessTypeOK
  <2> QED BY <2>1, <2>2, OthersAsk
<1>5. CASE Breaks
  <2>1. /\ UNCHANGED <<step, opqueue, arbQueue, loc, a2s, p2a, mem>>
        /\ \A b \in Arbiters : Live(b)' <=> Live(b)
    BY <1>5 DEF Breaks, writeVars, procVars, netVars, channels, Live
  <2>2. Writer' = Writer /\ Present' = Present /\ mem'[Source'] = mem[Source]
    <3>1. \A b \in Arbiters : Returned(b)' <=> Returned(b)
      BY <2>1 DEF Returned, Has
    <3> QED BY <1>0, <2>1, <3>1, PageKept
  <2>3. Asking' = Asking
    BY <2>1 DEF Asking
  <2> QED BY <2>1, <2>2, <2>3 DEF Coherent!pageVars
<1>6. Coherent!PageNext \/ UNCHANGED Coherent!pageVars
  BY <1>0, <1>1, <1>2, <1>3, <1>4, <1>5, StepKinds
<1> QED BY <1>6

(* The session implements the one page of CoherentPage, as long as only    *)
(* the start of the page is written, where the arbiters put the data.      *)
THEOREM SessionIsCoherent == Offsets = {0} => (Spec => CoherentSpec)
<1> SUFFICES ASSUME Offsets = {0} PROVE Spec => CoherentSpec
  OBVIOUS
<1>1. Init => ParkInv
  BY ParkInit
<1>2. ProtocolInv /\ ParkInv /\ [Next]_vars => ParkInv'
  BY ParkStep
<1>3. Spec => []ParkInv
  BY <1>1, <1>2, ProtocolInvariant, PTL DEF Spec
<1>4. ProtocolInv /\ ParkInv => CoherentInv
  BY CurrentFollows DEF CoherentInv
<1>5. Init => Coherent!PageInit
  BY CoherentInit
<1>6. CoherentInv /\ CoherentInv' /\ [Next]_vars => [Coherent!PageNext]_(Coherent!pageVars)
  BY CoherentStep
<1> QED BY <1>3, <1>4, <1>5, <1>6, ProtocolInvariant, PTL DEF Spec, CoherentSpec, Coherent!PageSpec
=============================================================================
