------------------------------ MODULE DsmDaemon ------------------------------
(***************************************************************************)
(* The session daemon (dsm_daemon.c) with its hash table (dsm_htab.c) and  *)
(* its poll set (dsm_poll.c), the clients that look up a session, and the  *)
(* two messages a session server sends it.  A client whose session is not  *)
(* open yet is left waiting: its descriptor is kept in the entry of the    *)
(* session, and so is its connection.                                      *)
(***************************************************************************)
EXTENDS SequencesExt, Integers

CONSTANTS Clients,      \* Each looks up a session.
          Sids, Wants,  \* Which session each client may ask for first.
          Buckets, Hash,\* Hash[s]: the bucket of s.
          NServers,     \* Servers are numbered as they are forked.
          MaxQueue,     \* DSM_MAX_SESSION_QUEUE
          Interactive,  \* The clients a user steers: slow, free to leave, and
                        \* free to send more than one message (dsm_client.c).
          MaxAgain,     \* Bound: the messages clients send after their first.
          Mortal,       \* The servers that may die.
          NoPeer, NoSid, NoMsg

ASSUME DaemonAssumption ==
  /\ IsFiniteSet(Clients) /\ Interactive \subseteq Clients
  /\ Wants \subseteq [Clients -> Sids] /\ \A s \in Sids : Hash[s] \in Buckets
  /\ NServers \in Nat /\ MaxAgain \in Nat
  /\ NServers >= Cardinality(Clients) + MaxAgain
  /\ MaxQueue \in Nat \ {0}
  /\ NoSid \notin Sids

Servers  == 1 .. NServers
NoPort   == 0                           \* -1 in the code; server n has port n.
Peers    == Clients \cup (Servers \X {"SET", "DEL"})

ASSUME PeerAssumption ==
  /\ NoPeer \notin Peers /\ Clients \cap (Servers \X {"SET", "DEL"}) = {}
  /\ Mortal \subseteq Servers

Listener == 0
Fds      == 1 .. Cardinality(Peers)

VARIABLES daemon,       \* "up"; "panic"; "limit": a queue was full.
          table,        \* table[b]: the entries of bucket b, newest first.
          pollset,      \* pollableSet->fds: descriptors and their POLLIN.
          at,           \* The index of the loop over pollset; 0 in poll().
          owner,        \* owner[fd]: the peer connected through fd.
          backlog,      \* Connections not accepted yet.
          last,         \* What the memory of processMessage's msg holds, if
                        \* it is a message the daemon has an action for.
          stage,        \* stage[p]: how far peer p has come.
          unread,       \* The peers whose first message has not been read.
          again,        \* The further messages of clients, as they were sent:
                        \* a lookup of sid, or NoSid for one of another type.
          seen,        \* Those of them, by their index, that have been read.
          sid,          \* sid[n]: the session server n was forked for.
          dead,         \* The servers that have died.
          want,         \* want[c]: the session identifier c asks for first.
          got           \* got[c]: the port client c was told.

loopVars == <<pollset, at, owner>>
peerVars == <<stage, unread, again, seen, sid, dead, want, got>>
vars == <<daemon, table, loopVars, backlog, last, peerVars>>

Entry   == [sid : Sids, port : Servers \cup {NoPort}, queue : Seq(Fds)]
Message == [type : {"GET_SESSION", "SET_SESSION", "DEL_SESSION"}, sid : Sids,
            bucket : Buckets, port : Servers \cup {NoPort}]

TypeOK ==
  /\ daemon \in {"up", "panic", "limit"}
  /\ table \in [Buckets -> Seq(Entry)]
  /\ \A b \in Buckets : \A i \in DOMAIN table[b] : Len(table[b][i].queue) <= MaxQueue
  /\ pollset \in Seq([fd : Fds \cup {Listener}, ready : BOOLEAN])
  /\ at \in 0 .. Len(pollset)
  /\ owner \in [Fds -> Peers \cup {NoPeer}]
  /\ backlog \in Seq(Peers)
  /\ last \in Message \cup {NoMsg}
  /\ stage \in [Peers -> {"idle", "connected", "sent", "left"}]
  /\ unread \subseteq Peers
  /\ again \in Seq([client : Interactive, sid : Sids \cup {NoSid}])
  /\ Len(again) <= MaxAgain /\ seen \subseteq DOMAIN again
  /\ sid \in [Servers -> Sids \cup {NoSid}]
  /\ dead \subseteq Servers
  /\ want \in Wants
  /\ got \in [Clients -> Servers \cup {NoPort}]

Init ==
  /\ daemon = "up" /\ table = [b \in Buckets |-> << >>]
  /\ pollset = <<[fd |-> Listener, ready |-> FALSE]>> /\ at = 0
  /\ owner = [fd \in Fds |-> NoPeer] /\ backlog = << >> /\ last = NoMsg
  /\ stage = [p \in Peers |-> "idle"] /\ unread = {}
  /\ again = << >> /\ seen = {}
  /\ sid = [n \in Servers |-> NoSid] /\ dead = {}
  /\ want \in Wants /\ got = [c \in Clients |-> NoPort]

-----------------------------------------------------------------------------
(***************************************************************************)
(* The hash table.  An identifier is hashed over its full size and         *)
(* compared up to its terminating zero: every sender clears the message    *)
(* first, so the same identifier always has the same bucket.               *)
(***************************************************************************)
FaultyPosition(m) == IF table[m.bucket] = << >> THEN 0 ELSE 1  \* No strcmp.
Position(m) == SelectInSeq(table[m.bucket], LAMBDA e : e.sid = m.sid)

Lookup(m) == table[m.bucket][Position(m)]

FaultyKnown(m) == Position(m) # 0 /\ Lookup(m).port # NoPort  \* Only if open.
Known(m) == Position(m) # 0

FaultyPrepended(m, e) == [table EXCEPT ![m.bucket] = <<e>>]    \* next = NULL.
Prepended(m, e) == [table EXCEPT ![m.bucket] = Cons(e, @)]

Updated(m, e) == [table EXCEPT ![m.bucket] = ReplaceAt(@, Position(m), e)]

FaultyRemoved(m) ==                     \* Frees the rest of the chain too.
  [table EXCEPT ![m.bucket] = SubSeq(@, 1, Position(m) - 1)]
Removed(m) ==
  [table EXCEPT ![m.bucket] = RemoveFirstMatch(@, LAMBDA e : e.sid = m.sid)]

FaultyIsFull(q) == Len(q) > MaxQueue
IsFull(q) == Len(q) >= MaxQueue

(***************************************************************************)
(* The poll set.  A new element has no events yet; the loop goes on to the *)
(* next element with POLLIN, and back to poll() after the last.            *)
(***************************************************************************)
FaultyInstalled(fd) == [fd |-> fd, ready |-> TRUE]   \* Keeps old revents.
Installed(fd) == [fd |-> fd, ready |-> FALSE]

SetPollable(fd) ==
  IF \E i \in DOMAIN pollset : pollset[i].fd = fd
  THEN pollset ELSE Append(pollset, Installed(fd))

(* Those that stay close up: the j-th is the one with j - 1 before it.     *)
RemovePollable(fds) ==
  LET kept == {i \in DOMAIN pollset : pollset[i].fd \notin fds}
      before(i) == Cardinality({k \in kept : k < i})
  IN  [j \in 1 .. Cardinality(kept) |-> pollset[CHOOSE i \in kept : before(i) = j - 1]]

FaultyFrom(set, i) == {j \in i .. Len(set) - 1 : set[j].ready}
From(set, i) == {j \in i .. Len(set) : set[j].ready}
NextReady(set, i) == IF From(set, i) = {} THEN 0 ELSE Min(From(set, i))

-----------------------------------------------------------------------------
(***************************************************************************)
(* The handlers.  shut is empty, or {fd} if processMessage has closed the  *)
(* descriptor before it calls the handler.                                 *)
(***************************************************************************)
Close(fds) ==
  /\ owner' = [fd \in Fds |-> IF fd \in fds THEN NoPeer ELSE owner[fd]]
  /\ pollset' = RemovePollable(fds)
  /\ at' = NextReady(pollset', at + 1)

Closed(fd, shut) == fd \in shut \/ owner[fd] = NoPeer

Panic(how) ==
  /\ daemon' = how
  /\ UNCHANGED <<table, loopVars, sid>>

(* Who reads a reply on one of fds: it may have been left by its client.   *)
Told(fds, port) ==
  got' = [c \in Clients |->
            IF stage[c] # "left" /\ \E fd \in fds : owner[fd] = c THEN port ELSE got[c]]

Fork(s) == sid' = [sid EXCEPT ![Cardinality({n \in Servers : sid[n] # NoSid}) + 1] = s]

MsgGetSession(fd, m, shut) ==
  \/ /\ ~Known(m)
     /\ table' = Prepended(m, [sid |-> m.sid, port |-> NoPort, queue |-> <<fd>>])
     /\ Fork(m.sid)
     /\ Close(shut)
     /\ UNCHANGED <<daemon, got>>
  \/ /\ Known(m) /\ Lookup(m).port = NoPort
     /\ IF IsFull(Lookup(m).queue)
        THEN Panic("limit")
        ELSE /\ table' = Updated(m, [Lookup(m) EXCEPT !.queue = Append(@, fd)])
             /\ Close(shut)
             /\ UNCHANGED <<daemon, sid>>
     /\ UNCHANGED got
  \/ /\ Known(m) /\ Lookup(m).port # NoPort
     /\ IF Closed(fd, shut)
        THEN Panic("panic")
        ELSE Close({fd}) /\ UNCHANGED <<daemon, table, sid>>
     /\ Told({fd} \ shut, Lookup(m).port)

(* Those waiting are dequeued from the end and answered, up to one whose   *)
(* descriptor is closed by then: dsm_sendall panics.                       *)
Unanswerable(q, shut) ==
  {i \in DOMAIN q : Closed(q[i], shut) \/ \E j \in DOMAIN q : j > i /\ q[j] = q[i]}

MsgSetSession(fd, m, shut) ==
  \/ ~Known(m) /\ Panic("panic") /\ UNCHANGED got
  \/ /\ Known(m)
     /\ LET q == Lookup(m).queue
            bad == Unanswerable(q, shut)
            answered == {q[i] : i \in {j \in DOMAIN q : \A k \in bad : j > k}}
        IN  /\ Told(answered, m.port)
            /\ IF bad # {}
               THEN Panic("panic")
               ELSE /\ table' = Updated(m, [Lookup(m) EXCEPT !.port = m.port, !.queue = << >>])
                    /\ Close(answered \cup {fd})
                    /\ UNCHANGED <<daemon, sid>>

MsgDelSession(fd, m, shut) ==
  \/ ~Known(m) /\ Panic("panic") /\ UNCHANGED got
  \/ /\ Known(m)
     /\ table' = Removed(m)
     /\ Close({fd} \cup ToSet(Lookup(m).queue))
     /\ UNCHANGED <<daemon, sid, got>>

Dispatch(fd, m, shut) ==
  \/ m.type = "GET_SESSION" /\ MsgGetSession(fd, m, shut)
  \/ m.type = "SET_SESSION" /\ MsgSetSession(fd, m, shut)
  \/ m.type = "DEL_SESSION" /\ MsgDelSession(fd, m, shut)

-----------------------------------------------------------------------------
(* What each peer sends: a client's request, send_setSession and           *)
(* send_delSession of a server.                                            *)
Request(s) == [type |-> "GET_SESSION", sid |-> s, bucket |-> Hash[s], port |-> NoPort]

MessageOf(p) ==
  IF p \in Clients THEN Request(want[p])
  ELSE LET s == sid[p[1]]
       IN  IF p[2] = "SET"
           THEN [type |-> "SET_SESSION", sid |-> s, bucket |-> Hash[s], port |-> p[1]]
           ELSE [type |-> "DEL_SESSION", sid |-> s, bucket |-> Hash[s], port |-> NoPort]

(* What else c has sent on its connection and the daemon has not read.     *)
Further(c) == {i \in DOMAIN again \ seen : again[i].client = c}

ReadMessage(fd) ==
  /\ owner[fd] \in unread
  /\ Dispatch(fd, MessageOf(owner[fd]), {}) /\ last' = MessageOf(owner[fd])
  /\ unread' = unread \ {owner[fd]} /\ UNCHANGED seen

(* One message is read at a time, in the order they were sent.  A message  *)
(* without an action makes the daemon close the connection.                *)
ReadFurther(fd) ==
  /\ owner[fd] \notin unread /\ Further(owner[fd]) # {}
  /\ LET i == Min(Further(owner[fd]))
     IN  /\ seen' = seen \cup {i}
         /\ \/ /\ again[i].sid # NoSid
               /\ Dispatch(fd, Request(again[i].sid), {})
               /\ last' = Request(again[i].sid)
            \/ /\ again[i].sid = NoSid
               /\ Close({fd}) /\ last' = NoMsg
               /\ UNCHANGED <<daemon, table, sid, got>>
  /\ UNCHANGED unread

(***************************************************************************)
(* processMessage does not return when recv() finds the connection closed: *)
(* it closes fd and goes on with a msg nothing was read into.  That is     *)
(* either no message or what an earlier call has left there.               *)
(***************************************************************************)
ReadNothing(fd) ==
  /\ owner[fd] \notin unread /\ Further(owner[fd]) = {}
  /\ \/ Close({fd}) /\ UNCHANGED <<daemon, table, sid, got>>
     \/ last # NoMsg /\ Dispatch(fd, last, {fd})
  /\ UNCHANGED <<last, unread, seen>>

ProcessMessage ==
  /\ at # 0 /\ pollset[at].fd # Listener
  /\ LET fd == pollset[at].fd
     IN  ReadMessage(fd) \/ ReadFurther(fd) \/ ReadNothing(fd)
  /\ UNCHANGED <<backlog, stage, again, dead, want>>

(* accept() returns the lowest descriptor that is free.                    *)
ProcessConnection ==
  /\ at # 0 /\ pollset[at].fd = Listener
  /\ LET fd == Min({f \in Fds : owner[f] = NoPeer})
     IN  /\ owner' = [owner EXCEPT ![fd] = Head(backlog)]
         /\ pollset' = SetPollable(fd)
  /\ at' = NextReady(pollset', at + 1)
  /\ backlog' = Tail(backlog)
  /\ UNCHANGED <<daemon, table, last, peerVars>>

Readable(fd) == IF fd = Listener THEN backlog # << >>
                ELSE \/ owner[fd] \in unread \/ Further(owner[fd]) # {}
                     \/ stage[owner[fd]] = "left"

Poll ==
  /\ at = 0
  /\ \E i \in DOMAIN pollset : Readable(pollset[i].fd)
  /\ pollset' = [i \in DOMAIN pollset |->
                   [pollset[i] EXCEPT !.ready = Readable(pollset[i].fd)]]
  /\ at' = NextReady(pollset', 1)
  /\ UNCHANGED <<daemon, table, owner, backlog, last, peerVars>>

DaemonStep == daemon = "up" /\ (Poll \/ ProcessConnection \/ ProcessMessage)

-----------------------------------------------------------------------------
(***************************************************************************)
(* The peers.  A server checks in when it listens, and reports the end of  *)
(* its session, which only those can join whom the daemon has told where.  *)
(***************************************************************************)
MayConnect(p) ==
  \/ p \in Clients
  \/ /\ p \notin Clients /\ sid[p[1]] # NoSid /\ p[1] \notin dead
     /\ p[2] = "DEL" => \E c \in Clients : got[c] = p[1]

Connect(p) ==
  /\ daemon = "up" /\ stage[p] = "idle" /\ MayConnect(p)
  /\ backlog' = Append(backlog, p)
  /\ IF p \in Interactive
     THEN stage' = [stage EXCEPT ![p] = "connected"] /\ UNCHANGED unread
     ELSE stage' = [stage EXCEPT ![p] = "sent"] /\ unread' = unread \cup {p}
  /\ UNCHANGED <<daemon, table, loopVars, last, again, seen, sid, dead, want, got>>

SendMessage(p) ==
  /\ stage[p] = "connected"
  /\ stage' = [stage EXCEPT ![p] = "sent"]
  /\ unread' = unread \cup {p}
  /\ UNCHANGED <<daemon, table, loopVars, backlog, last, again, seen, sid, dead, want, got>>

(* A user's client may send another message, of any type, before or after  *)
(* the first is read.  What it sends when it has been told a port is lost: *)
(* the daemon has closed the connection.                                   *)
SendFurther(c, s) ==
  /\ stage[c] = "sent" /\ got[c] = NoPort /\ Len(again) < MaxAgain
  /\ again' = Append(again, [client |-> c, sid |-> s])
  /\ UNCHANGED <<daemon, table, loopVars, backlog, last, stage, unread, seen>>
  /\ UNCHANGED <<sid, dead, want, got>>

Leave(c) ==
  /\ stage[c] \in {"connected", "sent"} /\ got[c] = NoPort
  /\ stage' = [stage EXCEPT ![c] = "left"]
  /\ UNCHANGED <<daemon, table, loopVars, backlog, last, unread, again, seen>>
  /\ UNCHANGED <<sid, dead, want, got>>

Die(n) ==
  /\ sid[n] # NoSid /\ n \notin dead /\ stage[<<n, "DEL">>] # "sent"
  /\ dead' = dead \cup {n}
  /\ UNCHANGED <<daemon, table, loopVars, backlog, last, stage, unread, again, seen>>
  /\ UNCHANGED <<sid, want, got>>

Next == \/ DaemonStep
        \/ (\E p \in Peers : Connect(p))
        \/ \E c \in Interactive :
             SendMessage(c) \/ Leave(c) \/ \E s \in Sids \cup {NoSid} : SendFurther(c, s)
        \/ \E n \in Mortal : Die(n)

Spec == Init /\ [][Next]_vars

(* A session may last for ever, and a user need not send more than once;   *)
(* everything else is running programs.  Each peer connects and sends its  *)
(* first message once, so fairness to all is fairness to each.             *)
PeerStep == \/ \E c \in Interactive : SendMessage(c)
            \/ \E p \in Clients \cup (Servers \X {"SET"}) : Connect(p)
FairSpec == Spec /\ WF_vars(DaemonStep) /\ WF_vars(PeerStep)

-----------------------------------------------------------------------------
Left == {p \in Peers : stage[p] = "left"}

(* What the daemon relies on of its clients: nobody has hung up, and it    *)
(* has read no second message of anybody who waits to be told a port.      *)
Patient == Left = {} /\ seen = {}

(* As long as nobody hangs up on the daemon or has it read another message *)
(* while waiting, it does not panic: an entry exists whenever a server     *)
(* reports, and everyone who waits is still there, once, to be answered    *)
(* ("Bad table entry", "No session to delete!").                           *)
NoPanic == Patient => daemon # "panic"

(* A patient client is only told the port of a server of the session it    *)
(* asked for, one that has checked in, although replies are addressed by   *)
(* descriptors kept from an earlier pass.                                  *)
AnswerIsRight ==
  Patient => \A c \in Clients : got[c] # NoPort =>
               /\ sid[got[c]] = want[c]
               /\ stage[<<got[c], "SET">>] = "sent"

(* A session never has two servers: everyone who asks for it joins the     *)
(* same one, until that one has reported its end.                          *)
OneServer ==
  \A m, n \in {k \in Servers \ dead : sid[k] # NoSid /\ stage[<<k, "DEL">>] # "sent"} :
    sid[m] = sid[n] => m = n

(* The daemon reads or accepts only where something has come: its one      *)
(* thread never blocks on one peer, though it adds and removes elements of *)
(* the array it walks over.                                                *)
ReadyMeansReadable ==
  daemon = "up" /\ at # 0 =>
    \A i \in at .. Len(pollset) : pollset[i].ready => Readable(pollset[i].fd)

(* The table is the directory of sessions it stands for.                   *)
Listed(s) == LET m == [sid |-> s, bucket |-> Hash[s]]
             IN  IF Position(m) = 0 THEN [port |-> NoPort, waiting |-> 0]
                 ELSE [port |-> Lookup(m).port, waiting |-> Len(Lookup(m).queue)]
Directory == INSTANCE SessionDirectory WITH
  Ports <- Servers,
  dir <- [s \in Sids |-> Listed(s)],
  forked <- [s \in Sids |-> Cardinality({n \in Servers : sid[n] = s})]
DirectorySpec == Directory!DirSpec

(* In the end nobody waits: everyone who asks is told a port, unless the   *)
(* server of that session has died, the daemon itself has ended, a client  *)
(* has hung up, whose descriptor may belong to another peer by then, or    *)
(* one has sent more than one message, of which only one is answered.      *)
Unanswered(c) == /\ stage[c] = "sent" /\ got[c] = NoPort
                 /\ \A n \in dead : sid[n] # want[c]
EveryoneAnswered == <>[](daemon = "up" /\ Patient => \A c \in Clients : ~Unanswered(c))

(* "Alien party closed connection: Closing socket!" (dsm_daemon.c:269): a  *)
(* peer that closes its connection costs the daemon a socket, no more.     *)
DaemonSurvives == daemon # "panic"

(* "Notify and close queued file-descriptors." (dsm_daemon.c:162): at the  *)
(* check-in of its server, everyone queued for a session who has not hung  *)
(* up is told the port.                                                    *)
QueuedAreNotified == Left = {} => daemon # "panic"

(* "Queue of waiting file-descriptors." (dsm_htab.h:26): those told a port *)
(* at the check-in of its server are those who wait for that session, so   *)
(* who is told one has asked for a session this server was forked for.     *)
PortIsOfSession ==
  Left = {} => \A c \in Clients : got[c] # NoPort =>
    \/ sid[got[c]] = want[c]
    \/ \E i \in DOMAIN again : again[i].client = c /\ again[i].sid = sid[got[c]]
=============================================================================
