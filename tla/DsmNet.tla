------------------------------- MODULE DsmNet -------------------------------
(***************************************************************************)
(* What the three kinds of program of a networked session share: the       *)
(* messages of dsm_msg.h, the stream sockets that carry them, the job      *)
(* control signals an arbiter freezes its processes with, and the shared   *)
(* page of each machine.                                                   *)
(*                                                                         *)
(* A session has one server, one arbiter per machine, and the application  *)
(* processes of each machine.  Processes talk to the arbiter of their      *)
(* machine only, arbiters to the server only.                              *)
(***************************************************************************)
EXTENDS Integers, Sequences, FiniteSets

CONSTANTS Arbiters,     \* The machines; one arbiter runs on each.
          Procs,        \* The application processes of the session.
          Home,         \* The machine (arbiter) of each process.
          Server,       \* An arbiter's socket to the session server.
          Offsets,      \* The places of the shared page that are written.
          Zero,         \* What a page holds before the first write.
          Workloads     \* The programs the processes may be running.

(***************************************************************************)
(* A program is the sequence of the calls it makes into the DSM: a store   *)
(* to the shared page, dsm_barrier() or dsm_exit().                        *)
(***************************************************************************)
Op == [op : {"write"}, off : Offsets] \cup [op : {"barrier", "exit"}]

ASSUME ProcsAssumption == IsFiniteSet(Procs) /\ Cardinality(Procs) >= 2
ASSUME HomeAssumption  == /\ Home \in [Procs -> Arbiters]
                          /\ \A a \in Arbiters : \E p \in Procs : Home[p] = a
ASSUME ServerAssumption == Server \notin Procs
ASSUME OffsetAssumption == 0 \in Offsets /\ Offsets \subseteq Nat
ASSUME ZeroAssumption   == Zero \notin Procs \X Nat
ASSUME WorkloadsAssumption ==
          \A w \in Workloads : w \in [Procs -> Seq(Op)]

NProc    == Cardinality(Procs)                 \* The server's -nproc.
Local(a) == {p \in Procs : Home[p] = a}        \* The processes on machine a.

(* What a store writes: who wrote it, and how much of its program was left. *)
Values == (Procs \X Nat) \cup {Zero}

-----------------------------------------------------------------------------
(***************************************************************************)
(* Messages (dsm_msg.h:17-92).                                             *)
(***************************************************************************)
SimpleTypes == {"STOP_ALL", "CONT_ALL", "WAIT_DONE", "WRITE_OKAY",
                "SYNC_REQ", "WAIT_BARR", "PRGM_DONE"}

Message == [type : SimpleTypes]
           \cup [type : {"ADD_PROC"}, pid : Procs]
           \cup [type : {"SET_GID"}, pid : Procs, gid : Nat]
           \cup [type : {"SYNC_INFO"}, off : Offsets, buf : Values]
           \cup [type : {"STOP_DONE", "SYNC_DONE"}, nproc : Nat]

Simple(t)       == [type |-> t]
AddProc(p)      == [type |-> "ADD_PROC", pid |-> p]
SetGid(p, g)    == [type |-> "SET_GID", pid |-> p, gid |-> g]
SyncInfo(o, v)  == [type |-> "SYNC_INFO", off |-> o, buf |-> v]
Done(t, n)      == [type |-> t, nproc |-> n]

-----------------------------------------------------------------------------
(***************************************************************************)
(* Sockets are reliable FIFO streams: dsm_sendall and dsm_recvall move     *)
(* whole messages.  What is sent to a peer that has gone is never read.    *)
(***************************************************************************)
VARIABLES p2a, a2p,     \* Between each process and its arbiter (loopback).
          a2s, s2a      \* Between each arbiter and the server (network).

channels == <<p2a, a2p, a2s, s2a>>

Send(ch, k, m)    == [ch EXCEPT ![k] = Append(@, m)]
SendAll(ch, S, m) == [k \in DOMAIN ch |->
                        IF k \in S THEN Append(ch[k], m) ELSE ch[k]]
Waiting(ch, k, t) == ch[k] # << >> /\ Head(ch[k]).type = t
Consume(ch, k)    == [ch EXCEPT ![k] = Tail(@)]

-----------------------------------------------------------------------------
(***************************************************************************)
(* Job control.  A SIGTSTP sent by another process is pending until its    *)
(* target next leaves the kernel; SIGCONT wakes a stopped process at once  *)
(* and discards a pending SIGTSTP.  A stopped process ignores SIGTSTP.     *)
(***************************************************************************)
VARIABLES susp,         \* susp[p]: p is stopped.
          tstp,         \* tstp[p]: a SIGTSTP is pending for p.
          gone          \* The processes whose pid no longer exists.

signals == <<susp, tstp, gone>>

KillTstp(S) == /\ tstp' = [p \in Procs |-> tstp[p] \/ (p \in S /\ ~susp[p])]
               /\ UNCHANGED <<susp, gone>>
KillCont(S) == /\ susp' = [p \in Procs |-> susp[p] /\ p \notin S]
               /\ tstp' = [p \in Procs |-> tstp[p] /\ p \notin S]
               /\ UNCHANGED gone

-----------------------------------------------------------------------------
(* The shared page of each machine, mapped by its arbiter and processes.   *)
VARIABLE mem

netVars == <<channels, signals, mem>>

NetTypeOK ==
  /\ p2a  \in [Procs -> Seq(Message)]
  /\ a2p  \in [Procs -> Seq(Message)]
  /\ a2s  \in [Arbiters -> Seq(Message)]
  /\ s2a  \in [Arbiters -> Seq(Message)]
  /\ susp \in [Procs -> BOOLEAN]
  /\ tstp \in [Procs -> BOOLEAN]
  /\ gone \subseteq Procs
  /\ mem  \in [Arbiters -> [Offsets -> Values]]

NetInit ==
  /\ p2a  = [p \in Procs |-> << >>]
  /\ a2p  = [p \in Procs |-> << >>]
  /\ a2s  = [a \in Arbiters |-> << >>]
  /\ s2a  = [a \in Arbiters |-> << >>]
  /\ susp = [p \in Procs |-> FALSE]
  /\ tstp = [p \in Procs |-> FALSE]
  /\ gone = {}
  /\ mem  = [a \in Arbiters |-> [o \in Offsets |-> Zero]]
=============================================================================
