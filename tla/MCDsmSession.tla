---------------------------- MODULE MCDsmSession ----------------------------
(***************************************************************************)
(* Instances of DsmSession for TLC: two to four processes on one or two    *)
(* machines, each running a short program.                                 *)
(***************************************************************************)
EXTENDS DsmSession, TLC

CONSTANTS a1, a2, p1, p2, p3, p4

(* The operations.                                                         *)
W  == [op |-> "write", off |-> 0]
B  == [op |-> "barrier"]
X  == [op |-> "exit"]

(* Who runs where.                                                         *)
TwoAndOne == (p1 :> a1) @@ (p2 :> a1) @@ (p3 :> a2)
OneEach   == (p1 :> a1) @@ (p2 :> a2)
Together  == (p1 :> a1) @@ (p2 :> a1) @@ (p3 :> a1)
AllFour   == (p1 :> a1) @@ (p2 :> a1) @@ (p3 :> a1) @@ (p4 :> a1)
Pair      == (p1 :> a1) @@ (p2 :> a1)

Three(x, y, z) == (p1 :> x) @@ (p2 :> y) @@ (p3 :> z)
Two(x, y)      == (p1 :> x) @@ (p2 :> y)

(* All three write at once, on both machines; writes on both sides of a    *)
(* barrier; a write while the other machine is at the barrier, or leaves.  *)
(* p1 and p2 may be exchanged everywhere.                                  *)
TwoMachineWorkloads ==
  UNION {{Three(<<W>>, <<W>>, <<W>>)},
         {Three(<<B, W>>, <<B>>, <<B, W>>), Three(<<B>>, <<B, W>>, <<B, W>>)},
         {Three(<<B>>, << >>, <<W>>), Three(<< >>, <<B>>, <<W>>)},
         {Three(<<W>>, << >>, <<X>>), Three(<< >>, <<W>>, <<X>>)}}
SameHome == Permutations({p1, p2})

(* Writes and a barrier in every order, and programs that end in dsm_exit. *)
OneMachineWorkloads ==
  {Three(<<W, B>>, <<B, W>>, <<W, B, B>>), Three(<<W, X>>, <<X>>, <<W, X>>)}
LiveWorkloads  == {Two(<<W, B>>, <<W, B>>)}

BarrierOnly    == {Two(<<B>>, <<B>>)}
OneWriteEach   == {Two(<<W>>, <<W>>)}

(* Two leave while one is at the barrier and one writes.                   *)
TwoLeave == {(p1 :> <<X>>) @@ (p2 :> <<X>>) @@ (p3 :> <<B>>) @@ (p4 :> <<W>>)}
=============================================================================
