-------------------------- MODULE SessionDirectory --------------------------
(***************************************************************************)
(* What the daemon promises of each session name: it is unknown, or        *)
(* announced with arbiters waiting for its port, or open at a port that    *)
(* does not change and with nobody waiting.  Only an unknown name gets a   *)
(* server, and one step concerns one name.                                 *)
(***************************************************************************)
EXTENDS Naturals

CONSTANTS Sids, Ports, NoPort

VARIABLES dir,          \* dir[s]: the entry of s, or Unknown.
          forked        \* forked[s]: how many servers were forked for s.

dirVars == <<dir, forked>>

Unknown == [port |-> NoPort, waiting |-> 0]

DirInit == dir = [s \in Sids |-> Unknown] /\ forked = [s \in Sids |-> 0]

Create(s) ==
  /\ dir[s] = Unknown
  /\ dir' = [dir EXCEPT ![s].waiting = 1]
  /\ forked' = [forked EXCEPT ![s] = @ + 1]

Wait(s) ==
  /\ dir[s] # Unknown /\ dir[s].port = NoPort
  /\ dir' = [dir EXCEPT ![s].waiting = @ + 1]
  /\ UNCHANGED forked

Open(s) ==
  /\ dir[s] # Unknown
  /\ \E p \in Ports :
       /\ dir[s].port \in {NoPort, p}
       /\ dir' = [dir EXCEPT ![s] = [port |-> p, waiting |-> 0]]
  /\ UNCHANGED forked

(* A name is only removed while it is open: nobody is waiting.             *)
Remove(s) ==
  /\ dir[s].port # NoPort
  /\ dir' = [dir EXCEPT ![s] = Unknown]
  /\ UNCHANGED forked

DirNext == \E s \in Sids : Create(s) \/ Wait(s) \/ Open(s) \/ Remove(s)

DirSpec == DirInit /\ [][DirNext]_dirVars
=============================================================================
