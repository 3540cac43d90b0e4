---------------------------- MODULE WorldSessions -----------------------------
(***************************************************************************)
(* The sessions of one account: WorldSocket on the network threads,        *)
(* WorldSession and World::UpdateSessions on the world thread, and the     *)
(* log-in of a character through an asynchronous query holder.  Accounts   *)
(* meet only in the queue for a full server, which is not in this module.  *)
(*                                                                         *)
(* A socket points to its session (ptr, the raw pointer m_session) and a   *)
(* session to its socket (a shared pointer).  The world thread handles in  *)
(* every tick the sessions to add, the messages, the packets and the state *)
(* of the session, the answers of the database and the console.  The       *)
(* network threads authenticate sockets, queue packets and see sockets     *)
(* close between any two of these steps.                                   *)
(*                                                                         *)
(* Of the log-out timer only what the code asks is kept: not running,      *)
(* running, over 20 seconds ("due") or over 60 seconds old ("gone").       *)
(***************************************************************************)
EXTENDS Naturals, Sequences, FiniteSets

CONSTANTS
    Socket,         \* the connections that clients of the account make
    Char,           \* the characters of the account
    MaxSessions,    \* bound: WorldSession objects created
    MaxInbox,       \* bound: packets waiting in a session
    MaxLogins,      \* bound: CMSG_PLAYER_LOGIN packets received
    MaxKicks        \* bound: kicks

\* nullptr, and "no session" in the map of sessions.
None == 0

ASSUME SessionAssumption ==
    /\ None \notin Socket
    /\ MaxSessions \in Nat /\ MaxInbox \in Nat /\ MaxLogins \in Nat
    /\ MaxKicks \in Nat

VARIABLES
    link,       \* of every socket: before HandleAuthSession, in it, open, closed
    ptr,        \* WorldSocket::m_session
    sess,       \* the WorldSession objects created so far
    dead,       \* those that are deleted
    addQueue,   \* World::m_sessionAddQueue
    adding,     \* sessionQueueCopy of UpdateSessions
    listed,     \* World::m_sessions: the session of the account
    at,         \* what the world thread does next
    packets,    \* recvQueueCopy of WorldSession::Update
    pending,    \* characters whose LoginQueryHolder is in flight
    objects,    \* the Player objects created so far
    inWorld,    \* those that are in the world
    lost,       \* those removed from the world without a save
    broken,     \* those whose loading failed
    saved,      \* those saved by LogoutPlayer
    adrift,     \* history: those that LoginCallback left without a session to
                \* log them out: loaded into one in which a player had just
                \* logged out, or replaced there by a second log-in
    kicks,      \* history: the session and player of every KickPlayer
    asked,      \* history: number of CMSG_PLAYER_LOGIN received
    stopping    \* World::IsStopped

vars == <<link, ptr, sess, dead, addQueue, adding, listed, at, packets,
          pending, objects, inWorld, lost, broken, saved, adrift, kicks, asked,
          stopping>>
playerVars == <<objects, inWorld, lost, broken, saved, adrift>>
worldVars == <<dead, adding, listed, at, packets, pending, playerVars, kicks,
               stopping>>

Sid == 1..MaxSessions
Pid == 1..MaxLogins
States == {"created", "charSelection", "ready", "offline"}
Timers == {"none", "wait", "due", "gone"}
\* CMSG_PLAYER_LOGIN, CMSG_LOGOUT_REQUEST, CMSG_LOGOUT_CANCEL, and another
\* packet of the character selection ("authed").
Packets == [op : {"login"}, char : Char] \cup [op : {"logout", "cancel", "authed"}]
Sessions ==
    [sock : Socket \cup {None},     \* m_socket
     req : Socket \cup {None},      \* m_requestSocket
     state : States,                \* m_sessionState
     player : Pid \cup {None},      \* _player
     logout : Timers,               \* _logoutTime
     save : BOOLEAN,                \* m_playerSave
     kick : BOOLEAN,                \* m_kickSession
     recent : BOOLEAN,              \* m_playerRecentlyLogout
     inbox : Seq(Packets),          \* m_recvQueue
     mail : Seq(Socket)]            \* m_messages: sockets that ask to attach

TypeOK ==
    /\ link \in [Socket -> {"new", "auth", "open", "closed"}]
    /\ ptr \in [Socket -> Sid \cup {None}]
    /\ sess \in Seq(Sessions) /\ Len(sess) <= MaxSessions
    /\ dead \subseteq Sid
    /\ addQueue \in Seq(Sid)
    /\ adding \in Seq(Sid)
    /\ listed \in Sid \cup {None}
    /\ at \in {"add", "adding", "messages", "packets", "state", "results",
               "console", "stopped"}
    /\ packets \in Seq(Packets)
    /\ pending \in Seq(Char)
    /\ objects \in Seq(Char) /\ Len(objects) <= MaxLogins
    /\ inWorld \subseteq Pid
    /\ lost \subseteq Pid
    /\ broken \subseteq Pid
    /\ saved \subseteq Pid
    /\ adrift \subseteq Pid
    /\ kicks \in Seq([session : Sid, player : Pid \cup {None}])
    /\ asked \in 0..MaxLogins
    /\ stopping \in BOOLEAN

Init ==
    /\ link = [k \in Socket |-> "new"]
    /\ ptr = [k \in Socket |-> None]
    /\ sess = <<>> /\ dead = {}
    /\ addQueue = <<>> /\ adding = <<>>
    /\ listed = None
    /\ at = "add"
    /\ packets = <<>> /\ pending = <<>>
    /\ objects = <<>> /\ inWorld = {} /\ lost = {} /\ broken = {} /\ saved = {}
    /\ adrift = {}
    /\ kicks = <<>> /\ asked = 0
    /\ stopping = FALSE

-----------------------------------------------------------------------------
(* Network threads.  A definition whose name ends in a remark after "__" is *)
(* a defect the properties are tried against; no action uses it.           *)

\* The constructor.
NewSession(k) ==
    [sock |-> k, req |-> None, state |-> "created", player |-> None,
     logout |-> "none", save |-> TRUE, kick |-> FALSE, recent |-> FALSE,
     inbox |-> <<>>, mail |-> <<>>]

\* HandleAuthSession of a valid client: m_session = sWorld.FindSession(id).
FindSession(k) ==
    /\ link[k] = "new"
    /\ link' = [link EXCEPT ![k] = "auth"]
    /\ ptr' = [ptr EXCEPT ![k] = listed]
    /\ UNCHANGED <<sess, addQueue, worldVars, asked>>

\* The rest of HandleAuthSession: the session found gets a message, or a new
\* one is created and given to World::AddSession.  The pointer may be stale by
\* then: what a socket writes to a deleted session is lost.
Authenticated(k) ==
    /\ link[k] = "auth"
    /\ link' = [link EXCEPT ![k] = "open"]
    /\ \/ /\ ptr[k] = None
          /\ Len(sess) < MaxSessions
          /\ sess' = Append(sess, NewSession(k))
          /\ ptr' = [ptr EXCEPT ![k] = Len(sess) + 1]
          /\ addQueue' = Append(addQueue, Len(sess) + 1)
       \/ /\ ptr[k] # None
          /\ sess' = [sess EXCEPT ![ptr[k]].mail = Append(@, k)]
          /\ UNCHANGED <<ptr, addQueue>>
    /\ UNCHANGED <<worldVars, asked>>

\* A socket whose client is gone, or that sends without a session.
Disconnect(k) ==
    /\ link[k] = "open"
    /\ link' = [link EXCEPT ![k] = "closed"]
    /\ UNCHANGED <<ptr, sess, addQueue, worldVars, asked>>

\* ProcessIncomingData passes a packet to QueuePacket of the session.
Receive(k, p) ==
    /\ link[k] = "open"
    /\ ptr[k] # None
    /\ p.op = "login" => asked < MaxLogins
    /\ asked' = IF p.op = "login" THEN asked + 1 ELSE asked
    /\ Len(sess[ptr[k]].inbox) < MaxInbox
    /\ sess' = [sess EXCEPT ![ptr[k]].inbox = Append(@, p)]
    /\ UNCHANGED <<link, ptr, addQueue, worldVars>>

NetworkStep(k) ==
    \/ FindSession(k) \/ Authenticated(k) \/ Disconnect(k)
    \/ \E p \in Packets : Receive(k, p)

-----------------------------------------------------------------------------
(* What the methods of WorldSession do to a session record r.  A method    *)
(* that closes the socket names it in Closes.                              *)

Closed == {k \in Socket : link[k] = "closed"}
Gone(k) == k \in Closed \cup {None}
ShouldLogOut(r) == r.logout \in {"due", "gone"}
ShouldDisconnect(r) == r.logout = "gone"

LogoutRequest(r, time, save, kick) ==
    [r EXCEPT !.logout = time, !.save = save, !.kick = kick]

\* m_socket after SetOffline is nullptr.
SetOffline__NoTimer(r) == [r EXCEPT !.sock = None, !.state = "offline"]
SetOffline(r) ==
    LET q == IF r.player = None THEN r ELSE LogoutRequest(r, "wait", TRUE, FALSE)
    IN  [q EXCEPT !.sock = None, !.state = "offline"]

SetOnline(r) ==
    IF r.player # None /\ ~Gone(r.sock) THEN [r EXCEPT !.state = "ready"] ELSE r

\* LogoutPlayer returns at once when a player has just logged out.
LogoutPlayer(r) ==
    IF r.recent THEN r
    ELSE [r EXCEPT !.player = None, !.recent = TRUE, !.state = "charSelection",
                   !.logout = "none", !.kick = FALSE,
                   !.sock = IF r.kick THEN None ELSE @]

\* The player that LogoutPlayer removes from the world.
Leaving__Null(r) == IF r.recent THEN {} ELSE {r.player}
Leaving(r) == IF r.recent \/ r.player = None THEN {} ELSE {r.player}

\* Part of every step that logs r out, once or not at all.
Removed__Unsaved(r) ==
    /\ inWorld' = inWorld \ Leaving(r)
    /\ lost' = lost \cup (Leaving(r) \cap inWorld)
    /\ saved' = saved
    /\ UNCHANGED <<objects, broken, adrift>>
Removed(r) ==
    /\ inWorld' = inWorld \ Leaving(r)
    /\ lost' = IF r.save THEN lost ELSE lost \cup (Leaving(r) \cap inWorld)
    /\ saved' = IF r.save THEN saved \cup Leaving(r) ELSE saved
    /\ UNCHANGED <<objects, broken, adrift>>

\* The sockets in K are closed; those in F forget their session.
Close(K, F) ==
    /\ link' = [k \in Socket |-> IF k \in K THEN "closed" ELSE link[k]]
    /\ ptr' = [k \in Socket |-> IF k \in F THEN None ELSE ptr[k]]

Kicked(r) == IF r.kick /\ ~r.recent THEN {r.sock} \ {None} ELSE {}

-----------------------------------------------------------------------------
(* World::UpdateSessions.                                                  *)

TakeNewSessions ==
    /\ at = "add"
    /\ adding' = addQueue
    /\ addQueue' = <<>>
    /\ at' = "adding"
    /\ UNCHANGED <<link, ptr, sess, dead, listed, packets, pending, playerVars,
                   kicks, asked, stopping>>

\* AddSession_: a second session of the account is left aside.
Listed__Replace(s) == s
Listed(s) == IF listed = None THEN s ELSE listed

AddSession_ ==
    /\ at = "adding"
    /\ adding # <<>>
    /\ listed' = Listed(Head(adding))
    /\ adding' = Tail(adding)
    /\ UNCHANGED <<link, ptr, sess, dead, addQueue, at, packets, pending,
                   playerVars, kicks, asked, stopping>>

AddingDone ==
    /\ at = "adding"
    /\ adding = <<>>
    /\ at' = CASE listed # None -> "messages"
              [] listed = None /\ stopping -> "stopped"
              [] OTHER -> "results"
    /\ UNCHANGED <<link, ptr, sess, dead, addQueue, adding, listed, packets,
                   pending, playerVars, kicks, asked, stopping>>

\* RequestNewSocket, for the messages of several sockets: the first is taken.
Attach(r, mail) ==
    IF mail = <<>> \/ r.req # None THEN r
    ELSE [r EXCEPT !.req = Head(mail), !.state = "created"]

\* Update: the messages, and the packets received so far.
RunMessages ==
    LET r == sess[listed] IN
    /\ at = "messages"
    /\ sess' = [sess EXCEPT ![listed] =
                    [Attach(r, r.mail) EXCEPT !.mail = <<>>, !.inbox = <<>>]]
    /\ packets' = r.inbox
    /\ at' = "packets"
    /\ UNCHANGED <<link, ptr, dead, addQueue, adding, listed, pending,
                   playerVars, kicks, asked, stopping>>

\* CMSG_PLAYER_LOGIN clears m_playerRecentlyLogout; with a player still in the
\* session it is a reconnect, or refused.
HolderNeeded(r) == r.player = None

Welcomed(r) == [r EXCEPT !.recent = FALSE]

LoginPacket(r, c) ==
    LET q == Welcomed(r)
        found == \E p \in inWorld : objects[p] = c
    IN  /\ sess' = [sess EXCEPT ![listed] =
                       IF ~HolderNeeded(r) /\ found /\ r.logout # "none"
                       THEN SetOnline(LogoutRequest(q, "none", TRUE, FALSE))
                       ELSE q]
        /\ pending' = IF HolderNeeded(r) THEN Append(pending, c) ELSE pending
        /\ UNCHANGED <<link, ptr, playerVars>>

\* CMSG_LOGOUT_REQUEST of a player in the world: in combat the timer stops, a
\* resting player leaves at once, for the others the timer starts.
LogoutPacket(r) ==
    /\ \/ /\ \E time \in {"none", "wait"} :
               sess' = [sess EXCEPT ![listed] = LogoutRequest(r, time, TRUE, FALSE)]
          /\ UNCHANGED <<link, ptr, playerVars>>
       \/ /\ sess' = [sess EXCEPT ![listed] = LogoutPlayer(r)]
          /\ Removed(r)
          /\ Close(Kicked(r), {})
    /\ UNCHANGED pending

CancelPacket(r) ==
    /\ sess' = [sess EXCEPT ![listed] = LogoutRequest(r, "none", TRUE, FALSE)]
    /\ UNCHANGED <<link, ptr, playerVars, pending>>

RunPacket ==
    LET r == sess[listed]
        p == Head(packets)
    IN  /\ at = "packets"
        /\ packets # <<>>
        /\ ~Gone(r.sock)
        /\ packets' = Tail(packets)
        /\ \/ p.op = "login" /\ LoginPacket(r, p.char)
           \/ p.op = "logout" /\ r.player \in inWorld /\ LogoutPacket(r)
           \/ p.op = "cancel" /\ r.player \in inWorld /\ CancelPacket(r)
           \/ /\ p.op = "authed"
              /\ sess' = [sess EXCEPT ![listed] = Welcomed(r)]
              /\ UNCHANGED <<link, ptr, playerVars, pending>>
           \/ /\ p.op \in {"logout", "cancel"} /\ r.player \notin inWorld
              /\ UNCHANGED <<link, ptr, sess, playerVars, pending>>
        /\ UNCHANGED <<dead, addQueue, adding, listed, at, kicks, asked,
                       stopping>>

\* What is left of the copy is dropped when the socket is closed.
PacketsDone ==
    /\ at = "packets"
    /\ packets = <<>> \/ Gone(sess[listed].sock)
    /\ packets' = <<>>
    /\ at' = "state"
    /\ UNCHANGED <<link, ptr, sess, dead, addQueue, adding, listed, pending,
                   playerVars, kicks, asked, stopping>>

-----------------------------------------------------------------------------
(* The switch over m_sessionState at the end of WorldSession::Update.      *)

\* Update returns true.
Keep(r) ==
    /\ sess' = [sess EXCEPT ![listed] = r]
    /\ UNCHANGED <<dead, listed>>

\* Update returns false: the session is erased and deleted, and the destructor
\* logs a player out that is still there.
Destroyed(r) == IF r.player = None THEN r ELSE LogoutPlayer(r)
End(r) ==
    /\ sess' = [sess EXCEPT ![listed] = Destroyed(r)]
    /\ dead' = dead \cup {listed}
    /\ listed' = None

stateUnchanged == <<addQueue, adding, packets, pending, kicks, asked, stopping>>

StateStep(state) ==
    /\ at = "state"
    /\ sess[listed].state = state
    /\ at' = IF stopping THEN "stopped" ELSE "results"
    /\ UNCHANGED stateUnchanged

\* The requested socket replaces the old one, which SetOffline finalizes.
StateCreated ==
    LET r == sess[listed]
        q == IF r.req = None THEN r
             ELSE [SetOffline(r) EXCEPT !.sock = r.req, !.req = None]
        old == IF r.req = None THEN {} ELSE {r.sock} \ {None}
    IN  /\ StateStep("created")
        /\ Keep([q EXCEPT !.state = "charSelection"])
        /\ Close(old, old)
        /\ UNCHANGED playerVars

\* In the character selection without a connection: the end of the session.
SelectionClosed ==
    LET r == sess[listed] IN
    /\ StateStep("charSelection")
    /\ Gone(r.sock)
    /\ End(r)
    /\ Removed(r)
    /\ Close({}, {Destroyed(r).sock} \ {None})

\* With a connection, when the log-out timer is over.
SelectionLogout ==
    LET r == sess[listed] IN
    /\ StateStep("charSelection")
    /\ ~Gone(r.sock)
    /\ ShouldLogOut(r)
    /\ Keep(LogoutPlayer(r))
    /\ Removed(r)
    /\ Close(Kicked(r), {})

SelectionWaits ==
    /\ StateStep("charSelection")
    /\ ~Gone(sess[listed].sock)
    /\ ~ShouldLogOut(sess[listed])
    /\ Keep(sess[listed])
    /\ UNCHANGED <<link, ptr, playerVars>>

\* m_kickTime, 15 minutes after the session entered the character selection:
\* KickPlayer(true, true).  LogoutPlayer sets it anew.
SelectionTimeout ==
    LET r == [sess[listed] EXCEPT !.save = TRUE, !.kick = TRUE]
        q == LogoutPlayer(r)
    IN  /\ StateStep("charSelection")
        /\ ~Gone(r.sock)
        /\ ShouldLogOut(r) => r.recent
        /\ End(q)
        /\ Removed(r)
        /\ Close({r.sock}, {q.sock} \ {None})

ReadyClosed ==
    LET r == sess[listed] IN
    /\ StateStep("ready")
    /\ r.sock \in Closed
    /\ IF r.player = None THEN End(r) ELSE Keep(SetOffline(r))
    /\ Close({}, {r.sock})
    /\ UNCHANGED playerVars

\* The log-out timer is over, or the player was away for 15 minutes.
ReadyLogout ==
    LET r == sess[listed] IN
    /\ StateStep("ready")
    /\ r.sock \notin Closed
    /\ ShouldLogOut(r) \/ r.player # None
    /\ Keep(LogoutPlayer(r))
    /\ Removed(r)
    /\ Close(Kicked(r), {})

ReadyWaits ==
    LET r == sess[listed] IN
    /\ StateStep("ready")
    /\ r.sock \notin Closed
    /\ ~ShouldLogOut(r)
    /\ Keep(r)
    /\ UNCHANGED <<link, ptr, playerVars>>

OfflineOver ==
    LET r == sess[listed]
        q == LogoutPlayer(r)
        over == q.req = None /\ Gone(q.sock)
    IN  /\ StateStep("offline")
        /\ ShouldDisconnect(r)
        /\ IF over THEN End(q) ELSE Keep(q)
        /\ Removed(r)
        /\ Close(Kicked(r), IF over THEN {q.sock} \ {None} ELSE {})

OfflineWaits ==
    /\ StateStep("offline")
    /\ ~ShouldDisconnect(sess[listed])
    /\ Keep(sess[listed])
    /\ UNCHANGED <<link, ptr, playerVars>>

UpdateState ==
    \/ StateCreated \/ SelectionClosed \/ SelectionLogout \/ SelectionWaits
    \/ SelectionTimeout \/ ReadyClosed \/ ReadyLogout \/ ReadyWaits
    \/ OfflineOver \/ OfflineWaits

-----------------------------------------------------------------------------
(* The rest of the tick of the world thread, shutdown and time.            *)

\* HandlePlayerLoginCallback, for the oldest holder the database has filled.
\* FindSession may find no session, or another one than asked for the log-in.
\* HandlePlayerLogin makes a Player, brings the session online and loads it;
\* when that fails the session is kicked and keeps the Player.
Answered ==
    /\ at = "results"
    /\ pending # <<>>
    /\ pending' = Tail(pending)
    /\ UNCHANGED <<link, ptr, dead, addQueue, adding, listed, at, packets, lost,
                   saved, asked, stopping>>

Loading(p) ==
    /\ listed # None
    /\ p = Len(objects) + 1
    /\ objects' = Append(objects, Head(pending))
    /\ adrift' = adrift \cup ({sess[listed].player} \ {None})
                        \cup (IF sess[listed].recent THEN {p} ELSE {})

LoginCallback ==
    \/ /\ Answered
       /\ listed = None
       /\ UNCHANGED <<sess, objects, inWorld, broken, adrift, kicks>>
    \/ \E p \in Pid :
          /\ Answered
          /\ Loading(p)
          /\ sess' = [sess EXCEPT ![listed] = SetOnline([@ EXCEPT !.player = p])]
          /\ inWorld' = inWorld \cup {p}
          /\ UNCHANGED <<broken, kicks>>
    \/ \E p \in Pid :
          /\ Answered
          /\ Loading(p)
          /\ sess' = [sess EXCEPT ![listed] =
                         LogoutRequest(SetOnline([@ EXCEPT !.player = p]),
                                       "due", FALSE, TRUE)]
          /\ broken' = broken \cup {p}
          /\ kicks' = Append(kicks, [session |-> listed, player |-> p])
          /\ UNCHANGED inWorld

ResultsDone ==
    /\ at = "results"
    /\ at' = "console"
    /\ UNCHANGED <<link, ptr, sess, dead, addQueue, adding, listed, packets,
                   pending, playerVars, kicks, asked, stopping>>

\* KickPlayer(), as KickAllLess, BanAccount and the .kick command call it, and
\* handlers of packets that the server refuses: not saved.
KickPlayer ==
    /\ listed # None
    /\ \/ at = "console"
       \/ at = "packets" /\ ~Gone(sess[listed].sock)
    /\ Len(kicks) < MaxKicks + Cardinality(broken)
    /\ sess' = [sess EXCEPT ![listed] = LogoutRequest(@, "due", FALSE, TRUE)]
    /\ kicks' = Append(kicks, [session |-> listed, player |-> sess[listed].player])
    /\ UNCHANGED <<link, ptr, dead, addQueue, adding, listed, at, packets,
                   pending, playerVars, asked, stopping>>

NextTick ==
    /\ at = "console"
    /\ at' = "add"
    /\ UNCHANGED <<link, ptr, sess, dead, addQueue, adding, listed, packets,
                   pending, playerVars, kicks, asked, stopping>>

\* KickAll of CleanupsBeforeStop: KickPlayer(true, true) of every session.
KickAll__Later(r) == LogoutRequest(r, "due", TRUE, TRUE)
KickAll(r) == LogoutPlayer([r EXCEPT !.save = TRUE, !.kick = TRUE])

\* The last tick is over: KickAll, and then one more UpdateSessions.
CleanupsBeforeStop ==
    /\ at = "console"
    /\ ~stopping
    /\ stopping' = TRUE
    /\ at' = "add"
    /\ IF listed = None
       THEN UNCHANGED <<link, ptr, sess, playerVars>>
       ELSE LET r == [sess[listed] EXCEPT !.save = TRUE, !.kick = TRUE]
                q == KickAll(sess[listed])
            IN  /\ sess' = [sess EXCEPT ![listed] = q]
                /\ IF q.player = r.player THEN UNCHANGED playerVars ELSE Removed(r)
                /\ Close({r.sock} \ {q.sock, None}, {})
    /\ UNCHANGED <<dead, addQueue, adding, listed, packets, pending, kicks,
                   asked>>

\* Time runs for the log-out timer.
TimePasses ==
    /\ listed # None
    /\ sess[listed].logout \in {"wait", "due"}
    /\ sess' = [sess EXCEPT ![listed].logout = IF @ = "wait" THEN "due" ELSE "gone"]
    /\ UNCHANGED <<link, ptr, addQueue, worldVars, asked>>

\* What the world thread does without being asked.
WorldStep ==
    \/ TakeNewSessions \/ AddSession_ \/ AddingDone
    \/ RunMessages \/ RunPacket \/ PacketsDone
    \/ UpdateState
    \/ ResultsDone \/ NextTick

Stopped == at = "stopped" /\ UNCHANGED vars

Next ==
    \/ \E k \in Socket : NetworkStep(k)
    \/ WorldStep
    \/ LoginCallback
    \/ KickPlayer
    \/ CleanupsBeforeStop
    \/ TimePasses
    \/ Stopped

Spec == Init /\ [][Next]_vars

\* The world thread ticks, the database answers, time passes, and the 15
\* minutes of the character selection end at last.
Fairness ==
    /\ WF_vars(WorldStep)
    /\ SF_vars(LoginCallback)
    /\ WF_vars(TimePasses)
    /\ SF_vars(SelectionTimeout)

FairSpec == Spec /\ Fairness

-----------------------------------------------------------------------------
(* Properties.                                                             *)

\* A character in the world is that of the listed session, which will log it
\* out: none is left behind when sessions time out, end, or change their
\* sockets, whatever clients and the console do and wherever their log-ins are,
\* but for those LoginCallback itself gave to no one.
PlayerOwned ==
    \A p \in inWorld \ adrift : listed # None /\ sess[listed].player = p

\* The same of every character: the destructor is there to "unload player if
\* not unloaded" (WorldSession.cpp:120).  The code does not keep it.
NoneLeftBehind ==
    \A p \in inWorld : listed # None /\ sess[listed].player = p

\* A character leaves the world without a save only when it, or the session
\* before it had one, or one that the account played before it, was kicked.
UnsavedOnlyAfterKick ==
    \A p \in lost : \E i \in 1..Len(kicks) : kicks[i].player <= p

\* After CleanupsBeforeStop and the last update no other character is in the world,
\* although log-ins were still in flight.
StoppedEmpty == at = "stopped" => inWorld \subseteq adrift

\* When every client is gone the session ends and its character leaves.
AllClosed == \A k \in Socket : link[k] = "closed"
ClosedSessionEnds ==
    AllClosed ~> \/ at = "stopped"
                 \/ /\ listed = None /\ inWorld \subseteq adrift
                    /\ addQueue = <<>> /\ adding = <<>>

\* m_playerSave says whether "to save the player after logout request": only a
\* player whose log-out was requested without a save, by a kick, goes unsaved.
OnlyKickedUnsaved == \A p \in lost : \E i \in 1..Len(kicks) : kicks[i].player = p

\* A character whose loading failed is not saved.
BrokenNotSaved == broken \cap saved = {}

=============================================================================
