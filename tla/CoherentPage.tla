----------------------------- MODULE CoherentPage -----------------------------
(***************************************************************************)
(* What a session promises its processes: the machines' copies of the page *)
(* behave like one page that one process at a time may change.  A writer   *)
(* is only chosen when every copy is current, changes the page once, on    *)
(* its own machine, and everyone else's copy changes to the current page   *)
(* or not at all.                                                          *)
(***************************************************************************)
CONSTANTS Procs, Machines, Home, Pages, FirstPage, Nobody

VARIABLES asking,       \* The processes that want to store.
          writer,       \* The one that may, or Nobody.
          page,         \* The page as it should be everywhere.
          members,      \* The machines that are part of the session.
          copies        \* copies[a]: the page as machine a has it.

pageVars == <<asking, writer, page, members, copies>>

PageInit == /\ asking = {} /\ writer = Nobody
            /\ members = Machines
            /\ page = FirstPage /\ copies = [a \in Machines |-> FirstPage]

Ask(p) == /\ p \notin asking
          /\ asking' = asking \cup {p}
          /\ UNCHANGED <<writer, page, members, copies>>

Grant(p) == /\ writer = Nobody /\ p \in asking
            /\ \A a \in members : copies[a] = page
            /\ writer' = p
            /\ UNCHANGED <<asking, page, members, copies>>

Store(p) == /\ writer = p /\ p \in asking
            /\ asking' = asking \ {p}
            /\ page' \in Pages
            /\ copies' = [copies EXCEPT ![Home[p]] = page']
            /\ UNCHANGED <<writer, members>>

Finish(p) == /\ writer = p /\ p \notin asking
             /\ writer' = Nobody
             /\ UNCHANGED <<asking, page, members, copies>>

(* A process whose arbiter is gone gives up.                               *)
Abandon(p) == /\ p \in asking
              /\ asking' = asking \ {p}
              /\ UNCHANGED <<writer, page, members, copies>>

Update(a) == /\ writer = Nobody
             /\ copies' = [copies EXCEPT ![a] = page]
             /\ UNCHANGED <<asking, writer, page, members>>

(* A machine leaves; the page means nothing any more after the last one.   *)
Leave(a) == /\ a \in members
            /\ members' = members \ {a}
            /\ page' = page \/ members' = {}
            /\ UNCHANGED <<asking, writer, copies>>

PageNext == \/ \E p \in Procs : Ask(p) \/ Grant(p) \/ Store(p) \/ Finish(p) \/ Abandon(p)
            \/ \E a \in Machines : Update(a) \/ Leave(a)

PageSpec == PageInit /\ [][PageNext]_pageVars
=============================================================================
