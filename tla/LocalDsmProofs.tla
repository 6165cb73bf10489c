---------------------------- MODULE LocalDsmProofs ----------------------------
(***************************************************************************)
(* The local DSM, with any number of processes and of stores: who takes    *)
(* the lock has it alone, who joins the group finds it, the shared objects *)
(* outlive their users, no signal comes to a process that waits for the    *)
(* lock, and a write leaves nobody stopped.                                *)
(*                                                                         *)
(* The invariant follows dsm_init.  The file's name makes the arbiter the  *)
(* only one, and its page the only protected one; nobody is past the       *)
(* barrier before the arbiter has raised it; the lock is first opened when *)
(* the arbiter leads its group; so its writes, which come later, reach with*)
(* killpg all those who have joined by then.                               *)
(***************************************************************************)
EXTENDS LocalDsm, FiniteSetTheorems, TLAPS

(* The types, before it is known how far the semaphores go.                *)
TypeInv ==
  /\ loc \in [Procs -> Locations]
  /\ arbiter \in [Procs -> BOOLEAN]
  /\ size \in [Procs -> {0, 2}] /\ fileSize \in {0, 2}
  /\ todo \in [Procs -> 0 .. Stores]
  /\ names \subseteq Names
  /\ sem_barrier \in Nat /\ sem_tally \in Nat /\ sem_lock \in Nat
  /\ pgid \in Procs \cup {Nobody}
  /\ group \in [Procs -> Procs \cup {Nobody}]
  /\ handler \in [Procs -> [Signals -> {"default", "installed"}]]
  /\ stopped \in [Procs -> BOOLEAN]
  /\ pending \in [Procs -> SUBSET Signals]
  /\ protected \in [Procs -> BOOLEAN]
  /\ \A p \in Procs : loc[p] \in {"seize", "freeze", "store"} => todo[p] > 0

(* Where a process is: on its way in, done, or bound to the group.         *)
Opening == {"getSems", "getSharedFile", "setSize"}
Setup   == Opening \cup {"map", "initTable", "raise", "barrier"}
Ended   == {"panic", "reaped"}
Joined  == {"handlers", "user", "seize", "unfreeze"} \cup Writing

(* Who goes which way: only the arbiter's page is protected, so only it    *)
(* takes the way of a store that faults.                                   *)
RoleInv ==
  /\ \A p \in Procs : loc[p] \in {"initTable", "raise", "lead"} => arbiter[p]
  /\ \A p \in Procs : loc[p] \in {"getSems", "getSharedFile", "barrier", "lock", "unlock", "join"}
                        => ~arbiter[p]
  /\ \A p \in Procs : protected[p] \/ loc[p] \in {"seize", "unfreeze"} \cup Writing => arbiter[p]
  /\ \A p \in Procs : loc[p] \in Opening => size[p] = 0
  /\ \A p \in Procs : loc[p] \notin Opening \cup Ended \cup {"map"} => size[p] = 2
  /\ \A p \in Procs : arbiter[p] /\ loc[p] # "setSize" => size[p] = 2

(* Behind the barrier (a process that mapped nothing is not), and counted. *)
Past(p)    == loc[p] \notin Setup /\ size[p] = 2
Tallied    == {p \in Procs : Past(p) /\ loc[p] # "tally"}
TallyInv   == sem_tally = Cardinality(Tallied)

(* The names are there until the last process has counted itself.          *)
NamesInv ==
  /\ \A p \in Procs : arbiter[p] => "dsm_object" \in names \/ Tallied = Procs
  /\ \A p, q \in Procs : arbiter[p] /\ arbiter[q] => p = q
  /\ \A p \in Procs : loc[p] # "getSems" => "dsm_barrier" \in names \/ Tallied = Procs

(* Nobody gets past the barrier before the arbiter raises it.              *)
Raised == \E p \in Procs : arbiter[p] /\ Past(p)
RaiseInv ==
  /\ \A p \in Procs : Past(p) => Raised
  /\ sem_barrier > 0 => Raised
  /\ sem_barrier <= nproc

(* Once the lock has been open, the arbiter leads its group.               *)
AfterLock == {"unlock", "join"} \cup Joined
Led == \E p \in Procs : arbiter[p] /\ Past(p) /\ group[p] = p
LockInv ==
  /\ sem_lock \in {0, 1}
  /\ \A p, q \in LockHolders : p = q
  /\ sem_lock = 1 => LockHolders = {}
  /\ sem_lock = 1 => Led
  /\ \A p \in Procs : loc[p] \in AfterLock => Led

(* The table names that group, and its members are those bound to it.      *)
GroupInv ==
  /\ \A p \in Procs : arbiter[p] /\ loc[p] \notin {"setSize", "map", "initTable"} => pgid = p
  /\ \A p \in Procs : loc[p] \in Joined => group[p] = pgid
  /\ \A p \in Procs : group[p] # Nobody =>
       loc[p] \in Joined \/ (loc[p] \in {"exited", "reaped"} /\ group[p] = p)

(* A signal is sent to members only, and stops only one that is still      *)
(* without its handlers.                                                   *)
StopInv ==
  /\ \A p \in Procs : stopped[p] => loc[p] = "handlers"
  /\ \A p \in Procs : pending[p] # {} => loc[p] \in {"handlers", "user"} /\ ~arbiter[p]
  /\ \A p \in Procs : loc[p] = "user" /\ ~arbiter[p] => handler[p]["TSTP"] = "installed"
  /\ NobodyLeftStopped

-----------------------------------------------------------------------------
(* Somebody takes part.                                                    *)
LEMMA NprocFacts == nproc \in Nat \ {0}
BY LocalAssumption, FS_CardinalityType, FS_EmptySet DEF nproc

-----------------------------------------------------------------------------
(* Types: a store is made only by a process that has one left.             *)
LEMMA TypeInit == Init => TypeInv
BY LocalAssumption DEF Init, TypeInv, Locations, Signals, Names

LEMMA TypeStep == TypeInv /\ [Next]_vars => TypeInv'
<1> SUFFICES ASSUME TypeInv, [Next]_vars
             PROVE  TypeInv'
  OBVIOUS
<1> USE DEF Locations, Writing
<1>1. ASSUME NEW p \in Procs, Step(p)
      PROVE  TypeInv'
  <2>1. CASE GetSems(p)
    BY <2>1 DEF GetSems, Move, files, sems, kernel, Names, TypeInv
  <2>2. CASE GetSharedFile(p)
    BY <2>2 DEF GetSharedFile, Move, files, sems, kernel, Names, TypeInv
  <2>3. CASE SetSize(p)
    BY <2>3 DEF SetSize, Move, files, sems, kernel, TypeInv
  <2>4. CASE Map(p)
    BY <2>4 DEF Map, Move, files, sems, kernel, TypeInv
  <2>5. CASE InitTable(p)
    BY <2>5 DEF InitTable, Move, files, sems, kernel, FirstLock, TypeInv
  <2>6. CASE RaiseBarrier(p)
    BY <2>6, NprocFacts DEF RaiseBarrier, Move, files, sems, kernel, Released, TypeInv
  <2>7. CASE WaitBarrier(p)
    BY <2>7 DEF WaitBarrier, Move, files, sems, kernel, TypeInv
  <2>8. CASE Tally(p)
    BY <2>8 DEF Tally, Move, files, sems, kernel, TypeInv
  <2>9. CASE Check(p)
    BY <2>9 DEF Check, Move, files, sems, kernel, LastIn, Names, TypeInv
  <2>10. CASE Lead(p)
    BY <2>10 DEF Lead, Move, files, sems, kernel, TypeInv
  <2>11. CASE LockTable(p)
    BY <2>11 DEF LockTable, Move, files, sems, kernel, TypeInv
  <2>12. CASE UnlockTable(p)
    BY <2>12 DEF UnlockTable, Move, files, sems, kernel, TypeInv
  <2>13. CASE Join(p)
    BY <2>13 DEF Join, Move, files, sems, kernel, GroupExists, TypeInv
  <2>14. CASE InstallHandlers(p)
    BY <2>14 DEF InstallHandlers, Move, files, sems, kernel, Signals, TypeInv
  <2>15. CASE Fault(p)
    BY <2>15 DEF Fault, Move, files, sems, kernel, TypeInv
  <2>16. CASE Seize(p)
    BY <2>16 DEF Seize, Move, files, sems, kernel, TypeInv
  <2>17. CASE Freeze(p)
    BY <2>17 DEF Freeze, Move, files, sems, kernel, SetBack, Others, Signals, TypeInv
  <2>18. CASE Store(p)
    BY <2>18, LocalAssumption DEF Store, Move, files, sems, kernel, TypeInv
  <2>19. CASE Sigill(p)
    BY <2>19 DEF Sigill, Move, files, sems, kernel, TypeInv
  <2>20. CASE Release(p)
    BY <2>20 DEF Release, Move, files, sems, kernel, TypeInv
  <2>21. CASE Unfreeze(p)
    BY <2>21
    DEF Unfreeze, Move, files, sems, kernel, SetBack, Continued, Others, Signals, TypeInv
  <2>22. CASE Exit(p)
    BY <2>22 DEF Exit, Move, files, sems, kernel, Signals, TypeInv
  <2>23. CASE Reap(p)
    BY <2>23 DEF Reap, Move, files, sems, kernel, TypeInv
  <2>24. ASSUME NEW s \in Signals, Deliver(p, s) PROVE TypeInv'
    BY <2>24 DEF Deliver, sems, files, TypeInv
  <2>25. CASE PlainStore(p)
    BY <2>25, LocalAssumption DEF PlainStore, files, sems, kernel, TypeInv
  <2> QED
    BY <1>1, <2>1, <2>2, <2>3, <2>4, <2>5, <2>6, <2>7, <2>8, <2>9, <2>10, <2>11, <2>12,
       <2>13, <2>14, <2>15, <2>16, <2>17, <2>18, <2>19, <2>20, <2>21, <2>22, <2>23, <2>24,
       <2>25
    DEF Step
<1>2. CASE UNCHANGED vars
  BY <1>2 DEF vars, TypeInv
<1> QED
  BY <1>1, <1>2 DEF Next

-----------------------------------------------------------------------------
(* Roles: only the arbiter takes the arbiter's way, and nobody is past mmap*)
(* with a file of no size.                                                 *)
LEMMA RoleInit == Init => RoleInv
BY DEF Init, RoleInv, Opening, Ended, Writing

LEMMA RoleStep == TypeInv /\ RoleInv /\ [Next]_vars => RoleInv'
<1> SUFFICES ASSUME TypeInv, RoleInv, [Next]_vars
             PROVE  RoleInv'
  OBVIOUS
<1> USE DEF Opening, Ended, Writing
<1>1. ASSUME NEW p \in Procs, Step(p)
      PROVE  RoleInv'
  <2>1. CASE GetSems(p)
    BY <2>1 DEF GetSems, Move, files, sems, kernel, TypeInv, RoleInv
  <2>2. CASE GetSharedFile(p)
    BY <2>2 DEF GetSharedFile, Move, files, sems, kernel, TypeInv, RoleInv
  <2>3. CASE SetSize(p)
    BY <2>3 DEF SetSize, Move, files, sems, kernel, TypeInv, RoleInv
  <2>4. CASE Map(p)
    BY <2>4 DEF Map, Move, files, sems, kernel, TypeInv, RoleInv
  <2>5. CASE InitTable(p)
    BY <2>5 DEF InitTable, Move, files, sems, kernel, TypeInv, RoleInv
  <2>6. CASE RaiseBarrier(p)
    BY <2>6 DEF RaiseBarrier, Move, files, sems, kernel, TypeInv, RoleInv
  <2>7. CASE WaitBarrier(p)
    BY <2>7 DEF WaitBarrier, Move, files, sems, kernel, TypeInv, RoleInv
  <2>8. CASE Tally(p)
    BY <2>8 DEF Tally, Move, files, sems, kernel, TypeInv, RoleInv
  <2>9. CASE Check(p)
    BY <2>9 DEF Check, Move, files, sems, kernel, TypeInv, RoleInv
  <2>10. CASE Lead(p)
    BY <2>10 DEF Lead, Move, files, sems, kernel, TypeInv, RoleInv
  <2>11. CASE LockTable(p)
    BY <2>11 DEF LockTable, Move, files, sems, kernel, TypeInv, RoleInv
  <2>12. CASE UnlockTable(p)
    BY <2>12 DEF UnlockTable, Move, files, sems, kernel, TypeInv, RoleInv
  <2>13. CASE Join(p)
    BY <2>13 DEF Join, Move, files, sems, kernel, TypeInv, RoleInv
  <2>14. CASE InstallHandlers(p)
    BY <2>14 DEF InstallHandlers, Move, files, sems, kernel, TypeInv, RoleInv
  <2>15. CASE Fault(p)
    BY <2>15 DEF Fault, Move, files, sems, kernel, TypeInv, RoleInv
  <2>16. CASE Seize(p)
    BY <2>16 DEF Seize, Move, files, sems, kernel, TypeInv, RoleInv
  <2>17. CASE Freeze(p)
    BY <2>17 DEF Freeze, Move, files, sems, kernel, TypeInv, RoleInv
  <2>18. CASE Store(p)
    BY <2>18 DEF Store, Move, files, sems, kernel, TypeInv, RoleInv
  <2>19. CASE Sigill(p)
    BY <2>19 DEF Sigill, Move, files, sems, kernel, TypeInv, RoleInv
  <2>20. CASE Release(p)
    BY <2>20 DEF Release, Move, files, sems, kernel, TypeInv, RoleInv
  <2>21. CASE Unfreeze(p)
    BY <2>21 DEF Unfreeze, Move, files, sems, kernel, TypeInv, RoleInv
  <2>22. CASE Exit(p)
    BY <2>22 DEF Exit, Move, files, sems, kernel, TypeInv, RoleInv
  <2>23. CASE Reap(p)
    BY <2>23 DEF Reap, Move, files, sems, kernel, TypeInv, RoleInv
  <2>24. ASSUME NEW s \in Signals, Deliver(p, s) PROVE RoleInv'
    BY <2>24 DEF Deliver, sems, files, TypeInv, RoleInv
  <2>25. CASE PlainStore(p)
    BY <2>25 DEF PlainStore, files, sems, kernel, TypeInv, RoleInv
  <2> QED
    BY <1>1, <2>1, <2>2, <2>3, <2>4, <2>5, <2>6, <2>7, <2>8, <2>9, <2>10, <2>11, <2>12,
       <2>13, <2>14, <2>15, <2>16, <2>17, <2>18, <2>19, <2>20, <2>21, <2>22, <2>23, <2>24,
       <2>25
    DEF Step
<1>2. CASE UNCHANGED vars
  BY <1>2 DEF vars, TypeInv, RoleInv
<1> QED
  BY <1>1, <1>2 DEF Next

-----------------------------------------------------------------------------
(* The tally semaphore counts the processes that have raised it; none of   *)
(* them is ever counted twice or forgotten.                                *)
LEMMA TalliedStep ==
  ASSUME TypeInv, RoleInv, [Next]_vars
  PROVE  \/ Tallied' = Tallied /\ sem_tally' = sem_tally
         \/ \E p \in Procs \ Tallied : Tallied' = Tallied \cup {p} /\ sem_tally' = sem_tally + 1
<1> DEFINE Kept == Tallied' = Tallied /\ sem_tally' = sem_tally
           Counted == \E p \in Procs \ Tallied :
                        Tallied' = Tallied \cup {p} /\ sem_tally' = sem_tally + 1
<1> USE DEF Setup, Opening, Ended, Writing
<1>1. ASSUME NEW p \in Procs, Step(p)
      PROVE  Kept \/ Counted
  <2>1. CASE GetSems(p)
    BY <2>1 DEF GetSems, Move, files, sems, kernel, TypeInv, RoleInv, Tallied, Past
  <2>2. CASE GetSharedFile(p)
    BY <2>2 DEF GetSharedFile, Move, files, sems, kernel, TypeInv, RoleInv, Tallied, Past
  <2>3. CASE SetSize(p)
    BY <2>3 DEF SetSize, Move, files, sems, kernel, TypeInv, RoleInv, Tallied, Past
  <2>4. CASE Map(p)
    BY <2>4 DEF Map, Move, files, sems, kernel, TypeInv, RoleInv, Tallied, Past
  <2>5. CASE InitTable(p)
    BY <2>5 DEF InitTable, Move, files, sems, kernel, TypeInv, RoleInv, Tallied, Past
  <2>6. CASE RaiseBarrier(p)
    BY <2>6 DEF RaiseBarrier, Move, files, sems, kernel, TypeInv, RoleInv, Tallied, Past
  <2>7. CASE WaitBarrier(p)
    BY <2>7 DEF WaitBarrier, Move, files, sems, kernel, TypeInv, RoleInv, Tallied, Past
  <2>8. CASE Tally(p)
    BY <2>8 DEF Tally, Move, files, sems, kernel, TypeInv, RoleInv, Tallied, Past
  <2>9. CASE Check(p)
    BY <2>9 DEF Check, Move, files, sems, kernel, TypeInv, RoleInv, Tallied, Past
  <2>10. CASE Lead(p)
    BY <2>10 DEF Lead, Move, files, sems, kernel, TypeInv, RoleInv, Tallied, Past
  <2>11. CASE LockTable(p)
    BY <2>11 DEF LockTable, Move, files, sems, kernel, TypeInv, RoleInv, Tallied, Past
  <2>12. CASE UnlockTable(p)
    BY <2>12 DEF UnlockTable, Move, files, sems, kernel, TypeInv, RoleInv, Tallied, Past
  <2>13. CASE Join(p)
    BY <2>13 DEF Join, Move, files, sems, kernel, TypeInv, RoleInv, Tallied, Past
  <2>14. CASE InstallHandlers(p)
    BY <2>14 DEF InstallHandlers, Move, files, sems, kernel, TypeInv, RoleInv, Tallied, Past
  <2>15. CASE Fault(p)
    BY <2>15 DEF Fault, Move, files, sems, kernel, TypeInv, RoleInv, Tallied, Past
  <2>16. CASE Seize(p)
    BY <2>16 DEF Seize, Move, files, sems, kernel, TypeInv, RoleInv, Tallied, Past
  <2>17. CASE Freeze(p)
    BY <2>17 DEF Freeze, Move, files, sems, kernel, TypeInv, RoleInv, Tallied, Past
  <2>18. CASE Store(p)
    BY <2>18 DEF Store, Move, files, sems, kernel, TypeInv, RoleInv, Tallied, Past
  <2>19. CASE Sigill(p)
    BY <2>19 DEF Sigill, Move, files, sems, kernel, TypeInv, RoleInv, Tallied, Past
  <2>20. CASE Release(p)
    BY <2>20 DEF Release, Move, files, sems, kernel, TypeInv, RoleInv, Tallied, Past
  <2>21. CASE Unfreeze(p)
    BY <2>21 DEF Unfreeze, Move, files, sems, kernel, TypeInv, RoleInv, Tallied, Past
  <2>22. CASE Exit(p)
    BY <2>22 DEF Exit, Move, files, sems, kernel, TypeInv, RoleInv, Tallied, Past
  <2>23. CASE Reap(p)
    BY <2>23 DEF Reap, Move, files, sems, kernel, TypeInv, RoleInv, Tallied, Past
  <2>24. ASSUME NEW s \in Signals, Deliver(p, s) PROVE Kept \/ Counted
    BY <2>24 DEF Deliver, sems, files, TypeInv, RoleInv, Tallied, Past
  <2>25. CASE PlainStore(p)
    BY <2>25 DEF PlainStore, files, sems, kernel, TypeInv, RoleInv, Tallied, Past
  <2> QED
    BY <1>1, <2>1, <2>2, <2>3, <2>4, <2>5, <2>6, <2>7, <2>8, <2>9, <2>10, <2>11, <2>12,
       <2>13, <2>14, <2>15, <2>16, <2>17, <2>18, <2>19, <2>20, <2>21, <2>22, <2>23, <2>24,
       <2>25
    DEF Step
<1>2. CASE UNCHANGED vars
  BY <1>2 DEF vars, TypeInv, RoleInv, Tallied, Past
<1> QED
  BY <1>1, <1>2 DEF Next


LEMMA TallyInit == Init => TallyInv
<1> SUFFICES ASSUME Init PROVE TallyInv
  OBVIOUS
<1>1. Tallied = {}
  BY DEF Init, Tallied, Past, Setup, Opening
<1> QED
  BY <1>1, FS_EmptySet DEF Init, TallyInv

LEMMA TallyStep == TypeInv /\ RoleInv /\ TallyInv /\ [Next]_vars => TallyInv'
<1> SUFFICES ASSUME TypeInv, RoleInv, TallyInv, [Next]_vars
             PROVE  TallyInv'
  OBVIOUS
<1>1. IsFiniteSet(Tallied)
  BY LocalAssumption, FS_Subset DEF Tallied
<1>2. CASE Tallied' = Tallied /\ sem_tally' = sem_tally
  BY <1>2 DEF TallyInv
<1>3. ASSUME NEW p \in Procs \ Tallied, Tallied' = Tallied \cup {p}, sem_tally' = sem_tally + 1
      PROVE  TallyInv'
  BY <1>1, <1>3, FS_AddElement DEF TallyInv
<1> QED
  BY <1>2, <1>3, TalliedStep

(* Who finds nproc on it knows that everyone has counted himself.          *)
LEMMA TallyFacts ==
  ASSUME TypeInv, TallyInv
  PROVE  /\ Tallied \subseteq Procs /\ sem_tally <= nproc
         /\ sem_tally >= nproc => Tallied = Procs
         /\ Tallied = Procs => sem_tally = nproc
<1>1. Tallied \subseteq Procs /\ IsFiniteSet(Procs)
  BY LocalAssumption DEF Tallied
<1>2. /\ Cardinality(Tallied) <= Cardinality(Procs)
      /\ Cardinality(Tallied) = Cardinality(Procs) => Tallied = Procs
      /\ IsFiniteSet(Tallied)
  BY <1>1, FS_Subset
<1>3. Cardinality(Tallied) \in Nat /\ Cardinality(Procs) \in Nat
  BY <1>1, <1>2, FS_CardinalityType
<1> QED
  BY <1>1, <1>2, <1>3 DEF TallyInv, nproc

-----------------------------------------------------------------------------
(* The names: so the file cannot be created a second time, which would make*)
(* a second arbiter.                                                       *)
LEMMA NamesInit == Init => NamesInv
BY DEF Init, NamesInv

LEMMA NamesStep == TypeInv /\ RoleInv /\ TallyInv /\ NamesInv /\ [Next]_vars => NamesInv'
<1> SUFFICES ASSUME TypeInv, RoleInv, TallyInv, NamesInv, [Next]_vars
             PROVE  NamesInv'
  OBVIOUS
<1>t. /\ Tallied = Procs => Tallied' = Procs
      /\ LastIn => Tallied = Procs
  <2>1. Tallied \subseteq Procs /\ (LastIn => Tallied = Procs)
    BY TallyFacts DEF LastIn
  <2> QED
    BY <2>1, TalliedStep
<1>u. \A p \in Procs : loc[p] \in {"getSems", "getSharedFile"} => Tallied # Procs
  BY DEF Tallied, Past, Setup, Opening
<1>1. ASSUME NEW p \in Procs, Step(p)
      PROVE  NamesInv'
  <2>1. CASE GetSems(p)
    BY <2>1, <1>t, <1>u DEF GetSems, Move, files, sems, kernel, TypeInv, RoleInv, NamesInv
  <2>2. CASE GetSharedFile(p)
    BY <2>2, <1>t, <1>u DEF GetSharedFile, Move, files, sems, kernel, TypeInv, RoleInv, NamesInv
  <2>3. CASE SetSize(p)
    BY <2>3, <1>t, <1>u DEF SetSize, Move, files, sems, kernel, TypeInv, RoleInv, NamesInv
  <2>4. CASE Map(p)
    BY <2>4, <1>t, <1>u DEF Map, Move, files, sems, kernel, TypeInv, RoleInv, NamesInv
  <2>5. CASE InitTable(p)
    BY <2>5, <1>t, <1>u DEF InitTable, Move, files, sems, kernel, TypeInv, RoleInv, NamesInv
  <2>6. CASE RaiseBarrier(p)
    BY <2>6, <1>t, <1>u DEF RaiseBarrier, Move, files, sems, kernel, TypeInv, RoleInv, NamesInv
  <2>7. CASE WaitBarrier(p)
    BY <2>7, <1>t, <1>u DEF WaitBarrier, Move, files, sems, kernel, TypeInv, RoleInv, NamesInv
  <2>8. CASE Tally(p)
    BY <2>8, <1>t, <1>u DEF Tally, Move, files, sems, kernel, TypeInv, RoleInv, NamesInv
  <2>9. CASE Check(p)
    BY <2>9, <1>t, <1>u DEF Check, Move, files, sems, kernel, TypeInv, RoleInv, NamesInv
  <2>10. CASE Lead(p)
    BY <2>10, <1>t, <1>u DEF Lead, Move, files, sems, kernel, TypeInv, RoleInv, NamesInv
  <2>11. CASE LockTable(p)
    BY <2>11, <1>t, <1>u DEF LockTable, Move, files, sems, kernel, TypeInv, RoleInv, NamesInv
  <2>12. CASE UnlockTable(p)
    BY <2>12, <1>t, <1>u DEF UnlockTable, Move, files, sems, kernel, TypeInv, RoleInv, NamesInv
  <2>13. CASE Join(p)
    BY <2>13, <1>t, <1>u DEF Join, Move, files, sems, kernel, TypeInv, RoleInv, NamesInv
  <2>14. CASE InstallHandlers(p)
    BY <2>14, <1>t, <1>u
    DEF InstallHandlers, Move, files, sems, kernel, TypeInv, RoleInv, NamesInv
  <2>15. CASE Fault(p)
    BY <2>15, <1>t, <1>u DEF Fault, Move, files, sems, kernel, TypeInv, RoleInv, NamesInv
  <2>16. CASE Seize(p)
    BY <2>16, <1>t, <1>u DEF Seize, Move, files, sems, kernel, TypeInv, RoleInv, NamesInv
  <2>17. CASE Freeze(p)
    BY <2>17, <1>t, <1>u DEF Freeze, Move, files, sems, kernel, TypeInv, RoleInv, NamesInv
  <2>18. CASE Store(p)
    BY <2>18, <1>t, <1>u DEF Store, Move, files, sems, kernel, TypeInv, RoleInv, NamesInv
  <2>19. CASE Sigill(p)
    BY <2>19, <1>t, <1>u DEF Sigill, Move, files, sems, kernel, TypeInv, RoleInv, NamesInv
  <2>20. CASE Release(p)
    BY <2>20, <1>t, <1>u DEF Release, Move, files, sems, kernel, TypeInv, RoleInv, NamesInv
  <2>21. CASE Unfreeze(p)
    BY <2>21, <1>t, <1>u DEF Unfreeze, Move, files, sems, kernel, TypeInv, RoleInv, NamesInv
  <2>22. CASE Exit(p)
    BY <2>22, <1>t, <1>u DEF Exit, Move, files, sems, kernel, TypeInv, RoleInv, NamesInv
  <2>23. CASE Reap(p)
    BY <2>23, <1>t, <1>u DEF Reap, Move, files, sems, kernel, TypeInv, RoleInv, NamesInv
  <2>24. ASSUME NEW s \in Signals, Deliver(p, s) PROVE NamesInv'
    BY <2>24, <1>t, <1>u DEF Deliver, sems, files, TypeInv, RoleInv, NamesInv
  <2>25. CASE PlainStore(p)
    BY <2>25, <1>t, <1>u DEF PlainStore, files, sems, kernel, TypeInv, RoleInv, NamesInv
  <2> QED
    BY <1>1, <2>1, <2>2, <2>3, <2>4, <2>5, <2>6, <2>7, <2>8, <2>9, <2>10, <2>11, <2>12,
       <2>13, <2>14, <2>15, <2>16, <2>17, <2>18, <2>19, <2>20, <2>21, <2>22, <2>23, <2>24,
       <2>25
    DEF Step
<1>2. CASE UNCHANGED vars
  BY <1>2, <1>t, <1>u DEF vars, TypeInv, RoleInv, NamesInv
<1> QED
  BY <1>1, <1>2 DEF Next

-----------------------------------------------------------------------------
(* The barrier.  What has been raised stays so.                            *)
LEMMA RaisedStep ==
  ASSUME TypeInv, RoleInv, [Next]_vars
  PROVE  /\ \A q \in Procs : Past(q) => Past(q)'
         /\ \A q \in Procs : arbiter[q] /\ loc[q] # "getSharedFile" => arbiter'[q]
         /\ Raised => Raised'
<1> DEFINE Stays(q) == (Past(q) => Past(q)') /\ (arbiter[q] => arbiter'[q])
<1> SUFFICES \A q \in Procs : Stays(q)
  BY DEF Raised
<1> SUFFICES ASSUME NEW q \in Procs PROVE Stays(q)
  OBVIOUS
<1> USE DEF Setup, Opening, Ended, Writing
<1>1. ASSUME NEW p \in Procs, Step(p)
      PROVE  Stays(q)
  <2>1. CASE GetSems(p)
    BY <2>1 DEF GetSems, Move, files, sems, kernel, TypeInv, RoleInv, Past
  <2>2. CASE GetSharedFile(p)
    BY <2>2 DEF GetSharedFile, Move, files, sems, kernel, TypeInv, RoleInv, Past
  <2>3. CASE SetSize(p)
    BY <2>3 DEF SetSize, Move, files, sems, kernel, TypeInv, RoleInv, Past
  <2>4. CASE Map(p)
    BY <2>4 DEF Map, Move, files, sems, kernel, TypeInv, RoleInv, Past
  <2>5. CASE InitTable(p)
    BY <2>5 DEF InitTable, Move, files, sems, kernel, TypeInv, RoleInv, Past
  <2>6. CASE RaiseBarrier(p)
    BY <2>6 DEF RaiseBarrier, Move, files, sems, kernel, TypeInv, RoleInv, Past
  <2>7. CASE WaitBarrier(p)
    BY <2>7 DEF WaitBarrier, Move, files, sems, kernel, TypeInv, RoleInv, Past
  <2>8. CASE Tally(p)
    BY <2>8 DEF Tally, Move, files, sems, kernel, TypeInv, RoleInv, Past
  <2>9. CASE Check(p)
    BY <2>9 DEF Check, Move, files, sems, kernel, TypeInv, RoleInv, Past
  <2>10. CASE Lead(p)
    BY <2>10 DEF Lead, Move, files, sems, kernel, TypeInv, RoleInv, Past
  <2>11. CASE LockTable(p)
    BY <2>11 DEF LockTable, Move, files, sems, kernel, TypeInv, RoleInv, Past
  <2>12. CASE UnlockTable(p)
    BY <2>12 DEF UnlockTable, Move, files, sems, kernel, TypeInv, RoleInv, Past
  <2>13. CASE Join(p)
    BY <2>13 DEF Join, Move, files, sems, kernel, TypeInv, RoleInv, Past
  <2>14. CASE InstallHandlers(p)
    BY <2>14 DEF InstallHandlers, Move, files, sems, kernel, TypeInv, RoleInv, Past
  <2>15. CASE Fault(p)
    BY <2>15 DEF Fault, Move, files, sems, kernel, TypeInv, RoleInv, Past
  <2>16. CASE Seize(p)
    BY <2>16 DEF Seize, Move, files, sems, kernel, TypeInv, RoleInv, Past
  <2>17. CASE Freeze(p)
    BY <2>17 DEF Freeze, Move, files, sems, kernel, TypeInv, RoleInv, Past
  <2>18. CASE Store(p)
    BY <2>18 DEF Store, Move, files, sems, kernel, TypeInv, RoleInv, Past
  <2>19. CASE Sigill(p)
    BY <2>19 DEF Sigill, Move, files, sems, kernel, TypeInv, RoleInv, Past
  <2>20. CASE Release(p)
    BY <2>20 DEF Release, Move, files, sems, kernel, TypeInv, RoleInv, Past
  <2>21. CASE Unfreeze(p)
    BY <2>21 DEF Unfreeze, Move, files, sems, kernel, TypeInv, RoleInv, Past
  <2>22. CASE Exit(p)
    BY <2>22 DEF Exit, Move, files, sems, kernel, TypeInv, RoleInv, Past
  <2>23. CASE Reap(p)
    BY <2>23 DEF Reap, Move, files, sems, kernel, TypeInv, RoleInv, Past
  <2>24. ASSUME NEW s \in Signals, Deliver(p, s) PROVE Stays(q)
    BY <2>24 DEF Deliver, sems, files, TypeInv, RoleInv, Past
  <2>25. CASE PlainStore(p)
    BY <2>25 DEF PlainStore, files, sems, kernel, TypeInv, RoleInv, Past
  <2> QED
    BY <1>1, <2>1, <2>2, <2>3, <2>4, <2>5, <2>6, <2>7, <2>8, <2>9, <2>10, <2>11, <2>12,
       <2>13, <2>14, <2>15, <2>16, <2>17, <2>18, <2>19, <2>20, <2>21, <2>22, <2>23, <2>24,
       <2>25
    DEF Step
<1>2. CASE UNCHANGED vars
  BY <1>2 DEF vars, TypeInv, RoleInv, Past
<1> QED
  BY <1>1, <1>2 DEF Next

LEMMA RaiseInit == Init => RaiseInv
BY NprocFacts DEF Init, RaiseInv, Past, Setup, Opening

LEMMA RaiseStep == TypeInv /\ RoleInv /\ NamesInv /\ RaiseInv /\ [Next]_vars => RaiseInv'
<1> SUFFICES ASSUME TypeInv, RoleInv, NamesInv, RaiseInv, [Next]_vars
             PROVE  RaiseInv'
  OBVIOUS
<1>r. Raised => Raised'
  BY RaisedStep
<1>n. nproc \in Nat \ {0}
  BY NprocFacts
<1> USE DEF Setup, Opening, Ended, Writing
<1>1. ASSUME NEW p \in Procs, Step(p)
      PROVE  RaiseInv'
  <2>1. CASE GetSems(p)
    BY <2>1, <1>r, <1>n DEF GetSems, Move, files, sems, kernel, TypeInv, RoleInv, RaiseInv, Past
  <2>2. CASE GetSharedFile(p)
    BY <2>2, <1>r, <1>n
    DEF GetSharedFile, Move, files, sems, kernel, TypeInv, RoleInv, RaiseInv, Past
  <2>3. CASE SetSize(p)
    BY <2>3, <1>r, <1>n DEF SetSize, Move, files, sems, kernel, TypeInv, RoleInv, RaiseInv, Past
  <2>4. CASE Map(p)
    BY <2>4, <1>r, <1>n DEF Map, Move, files, sems, kernel, TypeInv, RoleInv, RaiseInv, Past
  <2>5. CASE InitTable(p)
    BY <2>5, <1>r, <1>n
    DEF InitTable, Move, files, sems, kernel, TypeInv, RoleInv, RaiseInv, Past
  <2>6. CASE RaiseBarrier(p)
    <3>1. arbiter[p] /\ ~Past(p) /\ ~Raised
      BY <2>6 DEF RaiseBarrier, Move, RoleInv, NamesInv, Raised, Past
    <3>2. sem_barrier = 0 /\ sem_barrier' = nproc - 1
      BY <2>6, <1>n, <3>1 DEF RaiseBarrier, Released, RaiseInv, TypeInv
    <3>3. Raised'
      BY <2>6, <3>1 DEF RaiseBarrier, Move, RoleInv, TypeInv, Raised, Past
    <3> QED
      BY <3>2, <3>3, <1>n DEF RaiseInv
  <2>7. CASE WaitBarrier(p)
    BY <2>7, <1>r, <1>n
    DEF WaitBarrier, Move, files, sems, kernel, TypeInv, RoleInv, RaiseInv, Past
  <2>8. CASE Tally(p)
    BY <2>8, <1>r, <1>n DEF Tally, Move, files, sems, kernel, TypeInv, RoleInv, RaiseInv, Past
  <2>9. CASE Check(p)
    BY <2>9, <1>r, <1>n DEF Check, Move, files, sems, kernel, TypeInv, RoleInv, RaiseInv, Past
  <2>10. CASE Lead(p)
    BY <2>10, <1>r, <1>n DEF Lead, Move, files, sems, kernel, TypeInv, RoleInv, RaiseInv, Past
  <2>11. CASE LockTable(p)
    BY <2>11, <1>r, <1>n
    DEF LockTable, Move, files, sems, kernel, TypeInv, RoleInv, RaiseInv, Past
  <2>12. CASE UnlockTable(p)
    BY <2>12, <1>r, <1>n
    DEF UnlockTable, Move, files, sems, kernel, TypeInv, RoleInv, RaiseInv, Past
  <2>13. CASE Join(p)
    BY <2>13, <1>r, <1>n DEF Join, Move, files, sems, kernel, TypeInv, RoleInv, RaiseInv, Past
  <2>14. CASE InstallHandlers(p)
    BY <2>14, <1>r, <1>n
    DEF InstallHandlers, Move, files, sems, kernel, TypeInv, RoleInv, RaiseInv, Past
  <2>15. CASE Fault(p)
    BY <2>15, <1>r, <1>n DEF Fault, Move, files, sems, kernel, TypeInv, RoleInv, RaiseInv, Past
  <2>16. CASE Seize(p)
    BY <2>16, <1>r, <1>n DEF Seize, Move, files, sems, kernel, TypeInv, RoleInv, RaiseInv, Past
  <2>17. CASE Freeze(p)
    BY <2>17, <1>r, <1>n DEF Freeze, Move, files, sems, kernel, TypeInv, RoleInv, RaiseInv, Past
  <2>18. CASE Store(p)
    BY <2>18, <1>r, <1>n DEF Store, Move, files, sems, kernel, TypeInv, RoleInv, RaiseInv, Past
  <2>19. CASE Sigill(p)
    BY <2>19, <1>r, <1>n DEF Sigill, Move, files, sems, kernel, TypeInv, RoleInv, RaiseInv, Past
  <2>20. CASE Release(p)
    BY <2>20, <1>r, <1>n
    DEF Release, Move, files, sems, kernel, TypeInv, RoleInv, RaiseInv, Past
  <2>21. CASE Unfreeze(p)
    BY <2>21, <1>r, <1>n
    DEF Unfreeze, Move, files, sems, kernel, TypeInv, RoleInv, RaiseInv, Past
  <2>22. CASE Exit(p)
    BY <2>22, <1>r, <1>n DEF Exit, Move, files, sems, kernel, TypeInv, RoleInv, RaiseInv, Past
  <2>23. CASE Reap(p)
    BY <2>23, <1>r, <1>n DEF Reap, Move, files, sems, kernel, TypeInv, RoleInv, RaiseInv, Past
  <2>24. ASSUME NEW s \in Signals, Deliver(p, s) PROVE RaiseInv'
    BY <2>24, <1>r, <1>n DEF Deliver, sems, files, TypeInv, RoleInv, RaiseInv, Past
  <2>25. CASE PlainStore(p)
    BY <2>25, <1>r, <1>n DEF PlainStore, files, sems, kernel, TypeInv, RoleInv, RaiseInv, Past
  <2> QED
    BY <1>1, <2>1, <2>2, <2>3, <2>4, <2>5, <2>6, <2>7, <2>8, <2>9, <2>10, <2>11, <2>12,
       <2>13, <2>14, <2>15, <2>16, <2>17, <2>18, <2>19, <2>20, <2>21, <2>22, <2>23, <2>24,
       <2>25
    DEF Step
<1>2. CASE UNCHANGED vars
  BY <1>2, <1>r, <1>n DEF vars, TypeInv, RoleInv, RaiseInv, Past
<1> QED
  BY <1>1, <1>2 DEF Next


-----------------------------------------------------------------------------
(* The lock.  It is open only when the arbiter leads its group.            *)
LEMMA LedStep ==
  ASSUME TypeInv, RoleInv, [Next]_vars
  PROVE  Led => Led'
<1> DEFINE Stays(q) == arbiter[q] /\ Past(q) /\ group[q] = q
                         => arbiter'[q] /\ Past(q)' /\ group'[q] = q
<1> SUFFICES \A q \in Procs : Stays(q)
  BY DEF Led
<1> SUFFICES ASSUME NEW q \in Procs PROVE Stays(q)
  OBVIOUS
<1> USE DEF Setup, Opening, Ended, Writing
<1>1. ASSUME NEW p \in Procs, Step(p)
      PROVE  Stays(q)
  <2>1. CASE GetSems(p)
    BY <2>1 DEF GetSems, Move, files, sems, kernel, TypeInv, RoleInv, Past
  <2>2. CASE GetSharedFile(p)
    BY <2>2 DEF GetSharedFile, Move, files, sems, kernel, TypeInv, RoleInv, Past
  <2>3. CASE SetSize(p)
    BY <2>3 DEF SetSize, Move, files, sems, kernel, TypeInv, RoleInv, Past
  <2>4. CASE Map(p)
    BY <2>4 DEF Map, Move, files, sems, kernel, TypeInv, RoleInv, Past
  <2>5. CASE InitTable(p)
    BY <2>5 DEF InitTable, Move, files, sems, kernel, TypeInv, RoleInv, Past
  <2>6. CASE RaiseBarrier(p)
    BY <2>6 DEF RaiseBarrier, Move, files, sems, kernel, TypeInv, RoleInv, Past
  <2>7. CASE WaitBarrier(p)
    BY <2>7 DEF WaitBarrier, Move, files, sems, kernel, TypeInv, RoleInv, Past
  <2>8. CASE Tally(p)
    BY <2>8 DEF Tally, Move, files, sems, kernel, TypeInv, RoleInv, Past
  <2>9. CASE Check(p)
    BY <2>9 DEF Check, Move, files, sems, kernel, TypeInv, RoleInv, Past
  <2>10. CASE Lead(p)
    BY <2>10 DEF Lead, Move, files, sems, kernel, TypeInv, RoleInv, Past
  <2>11. CASE LockTable(p)
    BY <2>11 DEF LockTable, Move, files, sems, kernel, TypeInv, RoleInv, Past
  <2>12. CASE UnlockTable(p)
    BY <2>12 DEF UnlockTable, Move, files, sems, kernel, TypeInv, RoleInv, Past
  <2>13. CASE Join(p)
    BY <2>13 DEF Join, Move, files, sems, kernel, TypeInv, RoleInv, Past
  <2>14. CASE InstallHandlers(p)
    BY <2>14 DEF InstallHandlers, Move, files, sems, kernel, TypeInv, RoleInv, Past
  <2>15. CASE Fault(p)
    BY <2>15 DEF Fault, Move, files, sems, kernel, TypeInv, RoleInv, Past
  <2>16. CASE Seize(p)
    BY <2>16 DEF Seize, Move, files, sems, kernel, TypeInv, RoleInv, Past
  <2>17. CASE Freeze(p)
    BY <2>17 DEF Freeze, Move, files, sems, kernel, TypeInv, RoleInv, Past
  <2>18. CASE Store(p)
    BY <2>18 DEF Store, Move, files, sems, kernel, TypeInv, RoleInv, Past
  <2>19. CASE Sigill(p)
    BY <2>19 DEF Sigill, Move, files, sems, kernel, TypeInv, RoleInv, Past
  <2>20. CASE Release(p)
    BY <2>20 DEF Release, Move, files, sems, kernel, TypeInv, RoleInv, Past
  <2>21. CASE Unfreeze(p)
    BY <2>21 DEF Unfreeze, Move, files, sems, kernel, TypeInv, RoleInv, Past
  <2>22. CASE Exit(p)
    BY <2>22 DEF Exit, Move, files, sems, kernel, TypeInv, RoleInv, Past
  <2>23. CASE Reap(p)
    BY <2>23 DEF Reap, Move, files, sems, kernel, TypeInv, RoleInv, Past
  <2>24. ASSUME NEW s \in Signals, Deliver(p, s) PROVE Stays(q)
    BY <2>24 DEF Deliver, sems, files, TypeInv, RoleInv, Past
  <2>25. CASE PlainStore(p)
    BY <2>25 DEF PlainStore, files, sems, kernel, TypeInv, RoleInv, Past
  <2> QED
    BY <1>1, <2>1, <2>2, <2>3, <2>4, <2>5, <2>6, <2>7, <2>8, <2>9, <2>10, <2>11, <2>12,
       <2>13, <2>14, <2>15, <2>16, <2>17, <2>18, <2>19, <2>20, <2>21, <2>22, <2>23, <2>24,
       <2>25
    DEF Step
<1>2. CASE UNCHANGED vars
  BY <1>2 DEF vars, TypeInv, RoleInv, Past
<1> QED
  BY <1>1, <1>2 DEF Next

(* Before that, nobody holds it or has held it.                            *)
LEMMA NotLed ==
  ASSUME NamesInv, RaiseInv, LockInv, NEW p \in Procs, arbiter[p], ~Past(p)
  PROVE  /\ ~Raised /\ ~Led
         /\ \A q \in Procs : loc[q] \notin AfterLock
<1>1. ~Raised
  BY DEF NamesInv, Raised
<1>2. ~Led
  BY <1>1 DEF Led, Raised
<1> QED
  BY <1>1, <1>2 DEF LockInv

LEMMA LockInit == Init => LockInv
BY DEF Init, LockInv, LockHolders, AfterLock, Joined, Writing

LEMMA LockStep ==
  TypeInv /\ RoleInv /\ NamesInv /\ RaiseInv /\ LockInv /\ [Next]_vars => LockInv'
<1> SUFFICES ASSUME TypeInv, RoleInv, NamesInv, RaiseInv, LockInv, [Next]_vars
             PROVE  LockInv'
  OBVIOUS
<1>l. Led => Led'
  BY LedStep
<1> USE DEF AfterLock, Joined, Writing, LockHolders
<1>1. ASSUME NEW p \in Procs, Step(p)
      PROVE  LockInv'
  <2>1. CASE GetSems(p)
    BY <2>1, <1>l DEF GetSems, Move, files, sems, kernel, TypeInv, RoleInv, NamesInv, LockInv
  <2>2. CASE GetSharedFile(p)
    BY <2>2, <1>l
    DEF GetSharedFile, Move, files, sems, kernel, TypeInv, RoleInv, NamesInv, LockInv
  <2>3. CASE SetSize(p)
    BY <2>3, <1>l DEF SetSize, Move, files, sems, kernel, TypeInv, RoleInv, NamesInv, LockInv
  <2>4. CASE Map(p)
    BY <2>4, <1>l DEF Map, Move, files, sems, kernel, TypeInv, RoleInv, NamesInv, LockInv
  <2>5. CASE InitTable(p)
    <3>1. arbiter[p] /\ ~Past(p)
      BY <2>5 DEF InitTable, Move, RoleInv, Past, Setup
    <3>2. ~Led /\ \A q \in Procs : loc[q] \notin AfterLock
      BY <3>1, NotLed
    <3>3. \A q \in Procs : q # p => ~arbiter[q]
      BY <3>1 DEF NamesInv
    <3>4. LockHolders' = {p}
      BY <2>5, <3>1, <3>2, <3>3 DEF InitTable, Move, TypeInv, RoleInv, files, sems, kernel
    <3>5. sem_lock' = 0
      BY <2>5 DEF InitTable, FirstLock
    <3>6. \A q \in Procs : loc'[q] \notin AfterLock
      BY <2>5, <3>2 DEF InitTable, Move, TypeInv
    <3> QED
      BY <3>4, <3>5, <3>6 DEF LockInv
  <2>6. CASE RaiseBarrier(p)
    BY <2>6, <1>l
    DEF RaiseBarrier, Move, files, sems, kernel, TypeInv, RoleInv, NamesInv, LockInv
  <2>7. CASE WaitBarrier(p)
    BY <2>7, <1>l
    DEF WaitBarrier, Move, files, sems, kernel, TypeInv, RoleInv, NamesInv, LockInv
  <2>8. CASE Tally(p)
    BY <2>8, <1>l DEF Tally, Move, files, sems, kernel, TypeInv, RoleInv, NamesInv, LockInv
  <2>9. CASE Check(p)
    BY <2>9, <1>l DEF Check, Move, files, sems, kernel, TypeInv, RoleInv, NamesInv, LockInv
  <2>10. CASE Lead(p)
    <3>1. arbiter[p] /\ size[p] = 2 /\ p \in LockHolders
      BY <2>10 DEF Lead, Move, RoleInv, Opening, Ended
    <3>2. sem_lock = 0 /\ sem_lock' = 1
      BY <2>10, <3>1 DEF Lead, LockInv
    <3>3. /\ loc' = [loc EXCEPT ![p] = "handlers"] /\ arbiter' = arbiter /\ size' = size
          /\ group' = [group EXCEPT ![p] = p]
      BY <2>10 DEF Lead, Move
    <3>4. LockHolders' = {}
      BY <3>1, <3>3 DEF LockInv, TypeInv
    <3>5. Led'
      BY <3>1, <3>3 DEF TypeInv, Led, Past, Setup, Opening
    <3> QED
      BY <3>2, <3>4, <3>5 DEF LockInv
  <2>11. CASE LockTable(p)
    BY <2>11, <1>l DEF LockTable, Move, files, sems, kernel, TypeInv, RoleInv, NamesInv, LockInv
  <2>12. CASE UnlockTable(p)
    BY <2>12, <1>l
    DEF UnlockTable, Move, files, sems, kernel, TypeInv, RoleInv, NamesInv, LockInv
  <2>13. CASE Join(p)
    BY <2>13, <1>l DEF Join, Move, files, sems, kernel, TypeInv, RoleInv, NamesInv, LockInv
  <2>14. CASE InstallHandlers(p)
    BY <2>14, <1>l
    DEF InstallHandlers, Move, files, sems, kernel, TypeInv, RoleInv, NamesInv, LockInv
  <2>15. CASE Fault(p)
    BY <2>15, <1>l DEF Fault, Move, files, sems, kernel, TypeInv, RoleInv, NamesInv, LockInv
  <2>16. CASE Seize(p)
    BY <2>16, <1>l DEF Seize, Move, files, sems, kernel, TypeInv, RoleInv, NamesInv, LockInv
  <2>17. CASE Freeze(p)
    BY <2>17, <1>l DEF Freeze, Move, files, sems, kernel, TypeInv, RoleInv, NamesInv, LockInv
  <2>18. CASE Store(p)
    BY <2>18, <1>l DEF Store, Move, files, sems, kernel, TypeInv, RoleInv, NamesInv, LockInv
  <2>19. CASE Sigill(p)
    BY <2>19, <1>l DEF Sigill, Move, files, sems, kernel, TypeInv, RoleInv, NamesInv, LockInv
  <2>20. CASE Release(p)
    BY <2>20, <1>l DEF Release, Move, files, sems, kernel, TypeInv, RoleInv, NamesInv, LockInv
  <2>21. CASE Unfreeze(p)
    BY <2>21, <1>l DEF Unfreeze, Move, files, sems, kernel, TypeInv, RoleInv, NamesInv, LockInv
  <2>22. CASE Exit(p)
    BY <2>22, <1>l DEF Exit, Move, files, sems, kernel, TypeInv, RoleInv, NamesInv, LockInv
  <2>23. CASE Reap(p)
    BY <2>23, <1>l DEF Reap, Move, files, sems, kernel, TypeInv, RoleInv, NamesInv, LockInv
  <2>24. ASSUME NEW s \in Signals, Deliver(p, s) PROVE LockInv'
    BY <2>24, <1>l DEF Deliver, sems, files, TypeInv, RoleInv, NamesInv, LockInv
  <2>25. CASE PlainStore(p)
    BY <2>25, <1>l DEF PlainStore, files, sems, kernel, TypeInv, RoleInv, NamesInv, LockInv
  <2> QED
    BY <1>1, <2>1, <2>2, <2>3, <2>4, <2>5, <2>6, <2>7, <2>8, <2>9, <2>10, <2>11, <2>12,
       <2>13, <2>14, <2>15, <2>16, <2>17, <2>18, <2>19, <2>20, <2>21, <2>22, <2>23, <2>24,
       <2>25
    DEF Step
<1>2. CASE UNCHANGED vars
  BY <1>2, <1>l DEF vars, TypeInv, RoleInv, NamesInv, LockInv
<1> QED
  BY <1>1, <1>2 DEF Next

-----------------------------------------------------------------------------
(* The group: all who use the DSM are in the one whose number is in the    *)
(* table.                                                                  *)
LEMMA GroupInit == Init => GroupInv
BY DEF Init, GroupInv, Joined, Writing

LEMMA GroupStep ==
  TypeInv /\ RoleInv /\ NamesInv /\ RaiseInv /\ LockInv /\ GroupInv /\ [Next]_vars => GroupInv'
<1> SUFFICES ASSUME TypeInv, RoleInv, NamesInv, RaiseInv, LockInv, GroupInv, [Next]_vars
             PROVE  GroupInv'
  OBVIOUS
<1> USE DEF Joined, Writing, Ended
<1>1. ASSUME NEW p \in Procs, Step(p)
      PROVE  GroupInv'
  <2>1. CASE GetSems(p)
    BY <2>1 DEF GetSems, Move, files, sems, kernel, TypeInv, RoleInv, NamesInv, GroupInv
  <2>2. CASE GetSharedFile(p)
    BY <2>2 DEF GetSharedFile, Move, files, sems, kernel, TypeInv, RoleInv, NamesInv, GroupInv
  <2>3. CASE SetSize(p)
    BY <2>3 DEF SetSize, Move, files, sems, kernel, TypeInv, RoleInv, NamesInv, GroupInv
  <2>4. CASE Map(p)
    BY <2>4 DEF Map, Move, files, sems, kernel, TypeInv, RoleInv, NamesInv, GroupInv
  <2>5. CASE InitTable(p)
    <3>1. arbiter[p] /\ ~Past(p)
      BY <2>5 DEF InitTable, Move, RoleInv, Past, Setup
    <3>2. \A q \in Procs : loc[q] \notin Joined
      BY <3>1, NotLed DEF AfterLock
    <3>3. \A q \in Procs : q # p => ~arbiter[q]
      BY <3>1 DEF NamesInv
    <3> QED
      BY <2>5, <3>2, <3>3 DEF InitTable, Move, kernel, TypeInv, GroupInv
  <2>6. CASE RaiseBarrier(p)
    BY <2>6 DEF RaiseBarrier, Move, files, sems, kernel, TypeInv, RoleInv, NamesInv, GroupInv
  <2>7. CASE WaitBarrier(p)
    BY <2>7 DEF WaitBarrier, Move, files, sems, kernel, TypeInv, RoleInv, NamesInv, GroupInv
  <2>8. CASE Tally(p)
    BY <2>8 DEF Tally, Move, files, sems, kernel, TypeInv, RoleInv, NamesInv, GroupInv
  <2>9. CASE Check(p)
    BY <2>9 DEF Check, Move, files, sems, kernel, TypeInv, RoleInv, NamesInv, GroupInv
  <2>10. CASE Lead(p)
    BY <2>10 DEF Lead, Move, files, sems, kernel, TypeInv, RoleInv, NamesInv, GroupInv
  <2>11. CASE LockTable(p)
    BY <2>11 DEF LockTable, Move, files, sems, kernel, TypeInv, RoleInv, NamesInv, GroupInv
  <2>12. CASE UnlockTable(p)
    BY <2>12 DEF UnlockTable, Move, files, sems, kernel, TypeInv, RoleInv, NamesInv, GroupInv
  <2>13. CASE Join(p)
    BY <2>13 DEF Join, Move, files, sems, kernel, TypeInv, RoleInv, NamesInv, GroupInv
  <2>14. CASE InstallHandlers(p)
    BY <2>14
    DEF InstallHandlers, Move, files, sems, kernel, TypeInv, RoleInv, NamesInv, GroupInv
  <2>15. CASE Fault(p)
    BY <2>15 DEF Fault, Move, files, sems, kernel, TypeInv, RoleInv, NamesInv, GroupInv
  <2>16. CASE Seize(p)
    BY <2>16 DEF Seize, Move, files, sems, kernel, TypeInv, RoleInv, NamesInv, GroupInv
  <2>17. CASE Freeze(p)
    BY <2>17 DEF Freeze, Move, files, sems, kernel, TypeInv, RoleInv, NamesInv, GroupInv
  <2>18. CASE Store(p)
    BY <2>18 DEF Store, Move, files, sems, kernel, TypeInv, RoleInv, NamesInv, GroupInv
  <2>19. CASE Sigill(p)
    BY <2>19 DEF Sigill, Move, files, sems, kernel, TypeInv, RoleInv, NamesInv, GroupInv
  <2>20. CASE Release(p)
    BY <2>20 DEF Release, Move, files, sems, kernel, TypeInv, RoleInv, NamesInv, GroupInv
  <2>21. CASE Unfreeze(p)
    BY <2>21 DEF Unfreeze, Move, files, sems, kernel, TypeInv, RoleInv, NamesInv, GroupInv
  <2>22. CASE Exit(p)
    BY <2>22 DEF Exit, Move, files, sems, kernel, TypeInv, RoleInv, NamesInv, GroupInv
  <2>23. CASE Reap(p)
    BY <2>23 DEF Reap, Move, files, sems, kernel, TypeInv, RoleInv, NamesInv, GroupInv
  <2>24. ASSUME NEW s \in Signals, Deliver(p, s) PROVE GroupInv'
    BY <2>24 DEF Deliver, GroupInv
  <2>25. CASE PlainStore(p)
    BY <2>25 DEF PlainStore, files, sems, kernel, TypeInv, RoleInv, NamesInv, GroupInv
  <2> QED
    BY <1>1, <2>1, <2>2, <2>3, <2>4, <2>5, <2>6, <2>7, <2>8, <2>9, <2>10, <2>11, <2>12,
       <2>13, <2>14, <2>15, <2>16, <2>17, <2>18, <2>19, <2>20, <2>21, <2>22, <2>23, <2>24,
       <2>25
    DEF Step
<1>2. CASE UNCHANGED vars
  BY <1>2 DEF vars, TypeInv, RoleInv, NamesInv, GroupInv
<1> QED
  BY <1>1, <1>2 DEF Next

-----------------------------------------------------------------------------
(* Signals.  killpg by the arbiter reaches all others who use the DSM, and *)
(* nobody else.                                                            *)
LEMMA JoinedFacts ==
  ASSUME TypeInv, RoleInv, NamesInv, LockInv, GroupInv,
         NEW p \in Procs, arbiter[p], loc[p] \in Joined
  PROVE  /\ \A q \in Procs \ {p} : loc[q] \in Joined => q \in Others(p)
         /\ \A q \in Others(p) : loc[q] \in {"handlers", "user"} /\ ~arbiter[q]
<1>1. pgid = p /\ group[p] = p
  BY DEF GroupInv, Joined, Writing
<1>2. \A q \in Procs : q # p => ~arbiter[q]
  BY DEF NamesInv
<1>3. \A q \in Procs \ {p} : loc[q] \in Joined => q \in Others(p)
  BY <1>1 DEF GroupInv, Others, Joined, Writing
<1>4. \A q \in Others(p) : q \in Procs /\ q # p /\ loc[q] \in Joined
  BY <1>1, LocalAssumption DEF GroupInv, Others
<1>5. \A q \in Procs : q # p => loc[q] \notin {"seize", "unfreeze"} \cup Writing
  BY <1>2 DEF RoleInv
<1>6. \A q \in Others(p) : loc[q] \in {"handlers", "user"} /\ ~arbiter[q]
  BY <1>2, <1>4, <1>5 DEF Joined
<1> QED
  BY <1>3, <1>6

LEMMA StopInit == Init => StopInv
BY DEF Init, StopInv, NobodyLeftStopped

LEMMA StopStep ==
  TypeInv /\ RoleInv /\ NamesInv /\ LockInv /\ GroupInv /\ StopInv /\ [Next]_vars => StopInv'
<1> SUFFICES ASSUME TypeInv, RoleInv, NamesInv, LockInv, GroupInv, StopInv, [Next]_vars
             PROVE  StopInv'
  OBVIOUS
<1> USE DEF NobodyLeftStopped, WriteUnderWay, Writing
<1>1. ASSUME NEW p \in Procs, Step(p)
      PROVE  StopInv'
  <2>1. CASE GetSems(p)
    BY <2>1 DEF GetSems, Move, files, sems, kernel, Names, TypeInv, RoleInv, StopInv
  <2>2. CASE GetSharedFile(p)
    BY <2>2 DEF GetSharedFile, Move, files, sems, kernel, Names, TypeInv, RoleInv, StopInv
  <2>3. CASE SetSize(p)
    BY <2>3 DEF SetSize, Move, files, sems, kernel, TypeInv, RoleInv, StopInv
  <2>4. CASE Map(p)
    BY <2>4 DEF Map, Move, files, sems, kernel, TypeInv, RoleInv, StopInv
  <2>5. CASE InitTable(p)
    BY <2>5 DEF InitTable, Move, files, sems, kernel, TypeInv, RoleInv, StopInv
  <2>6. CASE RaiseBarrier(p)
    BY <2>6 DEF RaiseBarrier, Move, files, sems, kernel, TypeInv, RoleInv, StopInv
  <2>7. CASE WaitBarrier(p)
    BY <2>7 DEF WaitBarrier, Move, files, sems, kernel, TypeInv, RoleInv, StopInv
  <2>8. CASE Tally(p)
    BY <2>8 DEF Tally, Move, files, sems, kernel, TypeInv, RoleInv, StopInv
  <2>9. CASE Check(p)
    <3>1. /\ UNCHANGED <<arbiter, kernel>>
          /\ loc[p] = "check" /\ \E l \in {"panic", "lead", "lock"} : loc' = [loc EXCEPT ![p] = l]
      BY <2>9 DEF Check, Move
    <3> QED BY <3>1 DEF kernel, TypeInv, StopInv
  <2>10. CASE Lead(p)
    BY <2>10 DEF Lead, Move, files, sems, kernel, TypeInv, RoleInv, StopInv
  <2>11. CASE LockTable(p)
    BY <2>11 DEF LockTable, Move, files, sems, kernel, TypeInv, RoleInv, StopInv
  <2>12. CASE UnlockTable(p)
    BY <2>12 DEF UnlockTable, Move, files, sems, kernel, TypeInv, RoleInv, StopInv
  <2>13. CASE Join(p)
    BY <2>13 DEF Join, Move, files, sems, kernel, TypeInv, RoleInv, StopInv
  <2>14. CASE InstallHandlers(p)
    BY <2>14 DEF InstallHandlers, Move, files, sems, kernel, Signals, TypeInv, RoleInv, StopInv
  <2>15. CASE Fault(p)
    BY <2>15 DEF Fault, Move, files, sems, kernel, TypeInv, RoleInv, StopInv
  <2>16. CASE Seize(p)
    BY <2>16 DEF Seize, Move, files, sems, kernel, TypeInv, RoleInv, StopInv
  <2>17. CASE Freeze(p)
    <3>1. \A q \in Others(p) : loc[q] \in {"handlers", "user"} /\ ~arbiter[q]
      BY <2>17, JoinedFacts DEF Freeze, Move, RoleInv, Joined
    <3>2. /\ loc' = [loc EXCEPT ![p] = "store"] /\ stopped' = stopped /\ arbiter' = arbiter
          /\ arbiter[p] /\ loc[p] = "freeze"
          /\ \A q \in Procs : q # p => handler'[q] = handler[q]
      BY <2>17 DEF Freeze, Move, SetBack, TypeInv, RoleInv
    <3>3. \A q \in Procs : pending'[q] # {} => q # p /\ (q \in Others(p) \/ pending[q] # {})
      BY <2>17 DEF Freeze, Others
    <3>4. WriteUnderWay' /\ p \notin Others(p)
      BY <3>2 DEF TypeInv, Others
    <3> QED
      BY <3>1, <3>2, <3>3, <3>4 DEF StopInv, TypeInv
  <2>18. CASE Store(p)
    BY <2>18 DEF Store, Move, files, sems, kernel, TypeInv, RoleInv, StopInv
  <2>19. CASE Sigill(p)
    BY <2>19 DEF Sigill, Move, files, sems, kernel, TypeInv, RoleInv, StopInv
  <2>20. CASE Release(p)
    BY <2>20 DEF Release, Move, files, sems, kernel, TypeInv, RoleInv, StopInv
  <2>21. CASE Unfreeze(p)
    <3>1. /\ \A q \in Procs \ {p} : loc[q] \in Joined => q \in Others(p)
          /\ \A q \in Others(p) : loc[q] \in {"handlers", "user"} /\ ~arbiter[q]
      BY <2>21, JoinedFacts DEF Unfreeze, Move, RoleInv, Joined
    <3>2. /\ loc' = [loc EXCEPT ![p] = "user"] /\ arbiter' = arbiter
          /\ arbiter[p] /\ loc[p] = "unfreeze" /\ ~stopped[p]
          /\ \A q \in Procs : q # p => handler'[q] = handler[q]
      BY <2>21 DEF Unfreeze, Move, SetBack, TypeInv, RoleInv
    <3>3. \A q \in Procs : pending'[q] # {} => q # p /\ (q \in Others(p) \/ pending[q] # {})
      BY <2>21 DEF Unfreeze, Continued, Others
    <3>4. \A q \in Procs : ~stopped'[q]
      BY <2>21, <3>1, <3>2 DEF Unfreeze, Continued, StopInv, Joined
    <3>5. \A q \in Procs : "TSTP" \notin pending'[q]
      BY <2>21, <3>1, <3>2 DEF Unfreeze, Continued, StopInv, Joined
    <3>6. p \notin Others(p)
      BY DEF Others
    <3> QED
      BY <3>1, <3>2, <3>3, <3>4, <3>5, <3>6 DEF StopInv, TypeInv
  <2>22. CASE Exit(p)
    BY <2>22 DEF Exit, Move, files, sems, kernel, Signals, TypeInv, RoleInv, StopInv
  <2>23. CASE Reap(p)
    BY <2>23 DEF Reap, Move, files, sems, kernel, TypeInv, RoleInv, StopInv
  <2>24. ASSUME NEW s \in Signals, Deliver(p, s) PROVE StopInv'
    <3>1. /\ UNCHANGED <<loc, arbiter, handler>>
          /\ \A q \in Procs : q # p => pending'[q] = pending[q] /\ stopped'[q] = stopped[q]
      BY <2>24 DEF Deliver, TypeInv
    <3>2. /\ s \in pending[p] /\ pending'[p] \subseteq pending[p]
          /\ stopped'[p] => s = "TSTP" /\ handler[p]["TSTP"] = "default"
      BY <2>24 DEF Deliver, TypeInv
    <3>3. stopped'[p] => loc[p] = "handlers" /\ WriteUnderWay
      BY <3>2 DEF StopInv
    <3> QED
      BY <3>1, <3>2, <3>3 DEF StopInv
  <2>25. CASE PlainStore(p)
    BY <2>25 DEF PlainStore, files, sems, kernel, TypeInv, RoleInv, StopInv
  <2> QED
    BY <1>1, <2>1, <2>2, <2>3, <2>4, <2>5, <2>6, <2>7, <2>8, <2>9, <2>10, <2>11, <2>12,
       <2>13, <2>14, <2>15, <2>16, <2>17, <2>18, <2>19, <2>20, <2>21, <2>22, <2>23, <2>24,
       <2>25
    DEF Step
<1>2. CASE UNCHANGED vars
  BY <1>2 DEF vars, TypeInv, StopInv
<1> QED
  BY <1>1, <1>2 DEF Next

-----------------------------------------------------------------------------
(* All of it together.                                                     *)
LocalInv == TypeInv /\ RoleInv /\ TallyInv /\ NamesInv /\ RaiseInv /\ LockInv /\ GroupInv /\ StopInv

(* The inductive invariant of the local DSM, of any number of processes    *)
(* that make any number of stores.                                         *)
THEOREM LocalInvariant == Spec => []LocalInv
<1>1. Init => LocalInv
  BY TypeInit, RoleInit, TallyInit, NamesInit, RaiseInit, LockInit, GroupInit, StopInit DEF LocalInv
<1>2. LocalInv /\ [Next]_vars => LocalInv'
  BY TypeStep, RoleStep, TallyStep, NamesStep, RaiseStep, LockStep, GroupStep, StopStep DEF LocalInv
<1> QED
  BY <1>1, <1>2, PTL DEF Spec

(* Every variable has its type; in particular no semaphore is raised beyond*)
(* the number of processes, the lock never beyond one.                     *)
THEOREM LocalTypes == Spec => []TypeOK
<1>1. LocalInv => TypeOK
  <2> SUFFICES ASSUME LocalInv PROVE TypeOK
    OBVIOUS
  <2>1. TypeInv /\ sem_barrier <= nproc /\ sem_tally <= nproc /\ sem_lock \in {0, 1}
    BY TallyFacts DEF LocalInv, RaiseInv, LockInv
  <2>2. sem_barrier \in 0 .. nproc /\ sem_tally \in 0 .. nproc
    BY <2>1, NprocFacts DEF TypeInv
  <2> QED
    BY <2>1, <2>2 DEF TypeInv, TypeOK
<1> QED
  BY <1>1, LocalInvariant, PTL

(* Mutual exclusion: one holder of the lock at most, and none while it is  *)
(* open, whichever of the three modules took it: a joiner reads the table  *)
(* neither before it is ready nor while the arbiter writes.                *)
THEOREM LockExcludes == Spec => []LockIsExclusive
<1>1. LocalInv => LockIsExclusive
  <2> SUFFICES ASSUME LockInv PROVE LockIsExclusive
    BY DEF LocalInv
  <2>1. CASE LockHolders = {}
    BY <2>1, FS_EmptySet DEF LockInv, LockIsExclusive
  <2>2. CASE LockHolders # {}
    <3>1. PICK p : LockHolders = {p}
      BY <2>2 DEF LockInv
    <3>2. Cardinality(LockHolders) = 1
      BY <3>1, FS_Singleton
    <3>3. sem_lock = 0
      BY <2>2 DEF LockInv
    <3> QED
      BY <3>2, <3>3 DEF LockIsExclusive
  <2> QED
    BY <2>1, <2>2
<1> QED
  BY <1>1, LocalInvariant, PTL

(* Who joins the arbiter's group finds the arbiter leading it.             *)
THEOREM GroupIsReady == Spec => []GroupReady
<1>1. LocalInv => GroupReady
  BY DEF LocalInv, GroupReady, LockInv, AfterLock, Led, NamesInv
<1> QED
  BY <1>1, LocalInvariant, PTL

(* The shared objects go when everyone has opened them.                    *)
THEOREM LastOneDestroys == Spec => []DestroyedByTheLast
<1>1. LocalInv => DestroyedByTheLast
  BY TallyFacts DEF LocalInv, DestroyedByTheLast, NamesInv
<1> QED
  BY <1>1, LocalInvariant, PTL

(* dsm_down never returns for a signal: none comes to a process that waits.*)
THEOREM NobodyIsInterrupted == Spec => []NobodyInterrupted
<1>1. LocalInv => NobodyInterrupted
  BY DEF LocalInv, StopInv, NobodyInterrupted
<1> QED
  BY <1>1, LocalInvariant, PTL

(* After a write nobody is stopped by it or about to be, a joiner included *)
(* that it met before its handlers were installed.                         *)
THEOREM EveryoneUnfrozen == Spec => []NobodyLeftStopped
<1>1. LocalInv => NobodyLeftStopped
  BY DEF LocalInv, StopInv
<1> QED
  BY <1>1, LocalInvariant, PTL
=============================================================================
