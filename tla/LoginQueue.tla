------------------------------ MODULE LoginQueue ------------------------------
(***************************************************************************)
(* The queue for a full server: World::AddSession_, RemoveQueuedSession,   *)
(* UpdateSessions and SetPlayerLimit over the sessions of many accounts.   *)
(*                                                                         *)
(* A session is known by its account: m_sessions holds at most one of an   *)
(* account.  WorldSessions has the life of one session in every detail;    *)
(* here it is what the queue depends on: where the session is in its life, *)
(* whether its connection is up, and what the client was told.             *)
(*                                                                         *)
(* The world thread adds the new sessions, then updates each of the listed *)
(* ones, in any order, then runs callbacks and the commands of the         *)
(* console.  Network threads add sessions, ask for reconnections and see   *)
(* connections close between any two of these steps.  A log-in is asked    *)
(* for in an update and finished by a callback of a later tick, in the     *)
(* session that the account has by then.                                   *)
(***************************************************************************)
EXTENDS Integers, Sequences, FiniteSets, SequencesExt

CONSTANTS
    Account,
    Level,          \* AccountTypes of every account: 0 is SEC_PLAYER, 3 SEC_ADMINISTRATOR
    FirstLimit,     \* PlayerLimit of the configuration
    Limits,         \* the limits that the console sets
    MaxConnects,    \* bound: connections authenticated
    MaxCommands,    \* bound: commands that change the limit or kick
    MaxLoading      \* bound: log-ins in flight of an account when another is asked for

ASSUME QueueAssumption ==
    /\ IsFiniteSet(Account)
    /\ Level \in [Account -> 0..3]
    /\ FirstLimit \in Int /\ Limits \subseteq Int
    /\ MaxConnects \in Nat /\ MaxCommands \in Nat /\ MaxLoading \in Nat

VARIABLES
    limit,      \* m_playerLimit: of players, none (0), or the negated level that is let in
    incoming,   \* m_sessionAddQueue
    adding,     \* sessionQueueCopy of UpdateSessions
    sessions,   \* the accounts of m_sessions
    queue,      \* m_QueuedSessions
    info,       \* of every account: its session
    loading,    \* of every account: its LoginQueryHolders in flight, those that
                \* its session has asked for and those of former sessions
    todo,       \* the sessions that UpdateSessions has not updated yet
    at,         \* what the world thread does
    stopping,   \* CleanupsBeforeStop
    did,        \* history: how many connections and commands there were
    raised      \* history: the limit was raised or lifted while somebody waited who
                \* still does, or others after him

vars == <<limit, incoming, adding, sessions, queue, info, loading, todo, at,
          stopping, did, raised>>

SEC_ADMINISTRATOR == 3

\* SetPlayerLimit, for the configuration and for the console.
Clamped(v) == IF v < -SEC_ADMINISTRATOR THEN -SEC_ADMINISTRATOR ELSE v

\* "created", the character selection ("selecting"), and with a character
\* ("online": ready or offline).
States == {"created", "selecting", "online"}

\* Who asked for a character: the session itself, or an earlier one of the account.
Askers == {"own", "former"}

Sessions ==
    [state : States,            \* m_sessionState
     player : Askers \cup {"none"},     \* _player; history: who asked for it
     recent : BOOLEAN,          \* m_playerRecentlyLogout
     up : BOOLEAN,              \* m_socket is open
     asks : BOOLEAN,            \* a new socket waits in the messages of the session
     kick : BOOLEAN,            \* KickPlayer: m_kickSession, and the time to log out
     inQueue : BOOLEAN,         \* m_inQueue
     told : 0..Cardinality(Account)]    \* the position sent last; 0: no waiting

TypeOK ==
    /\ limit \in Int /\ limit >= -SEC_ADMINISTRATOR
    /\ incoming \in Seq(Account) /\ adding \in Seq(Account)
    /\ sessions \subseteq Account
    /\ queue \in Seq(Account)
    /\ info \in [Account -> Sessions]
    /\ loading \in [Account -> [Askers -> Nat]]
    /\ todo \subseteq sessions
    /\ at \in {"between", "adding", "updating", "stopped"}
    /\ stopping \in BOOLEAN
    /\ did \in [connects : 0..MaxConnects, commands : 0..MaxCommands]
    /\ raised \in BOOLEAN

NewSession == [state |-> "created", player |-> "none", recent |-> FALSE,
               up |-> TRUE, asks |-> FALSE, kick |-> FALSE,
               inQueue |-> FALSE, told |-> 0]

Init ==
    /\ limit = Clamped(FirstLimit)
    /\ incoming = <<>> /\ adding = <<>>
    /\ sessions = {} /\ queue = <<>>
    /\ info = [a \in Account |-> NewSession]
    /\ loading = [a \in Account |-> [w \in Askers |-> 0]]
    /\ todo = {}
    /\ at = "between"
    /\ stopping = FALSE
    /\ did = [connects |-> 0, commands |-> 0]
    /\ raised = FALSE

GetPlayerAmountLimit == IF limit >= 0 THEN limit ELSE 0
GetPlayerSecurityLimit == IF limit <= 0 THEN -limit ELSE 0

Queued == ToSet(queue)
Active == sessions \ Queued
GetActiveSessionCount == Cardinality(sessions) - Len(queue)
GetQueuedSessionPos(q, a) ==
    IF \E i \in 1..Len(q) : q[i] = a THEN CHOOSE i \in 1..Len(q) : q[i] = a ELSE 0

-----------------------------------------------------------------------------
(* Network threads.  A definition whose name ends in a remark after "__" is *)
(* a defect the properties are tried against; no action uses it.           *)

\* HandleAuthSession: the level of the account is enough, and either its session
\* is found and gets a new socket, or a new one is given to AddSession.
Authenticate(a) ==
    /\ at # "stopped"
    /\ did.connects < MaxConnects
    /\ did' = [did EXCEPT !.connects = @ + 1]
    /\ Level[a] >= GetPlayerSecurityLimit
    /\ IF a \in sessions
       THEN info' = [info EXCEPT ![a].asks = TRUE] /\ UNCHANGED incoming
       ELSE incoming' = Append(incoming, a) /\ UNCHANGED info
    /\ UNCHANGED <<limit, adding, sessions, queue, loading, todo, at, stopping, raised>>

Disconnect(a) ==
    /\ a \in sessions
    /\ info[a].up
    /\ info' = [info EXCEPT ![a].up = FALSE]
    /\ UNCHANGED <<limit, incoming, adding, sessions, queue, loading, todo, at, stopping,
                   did, raised>>

-----------------------------------------------------------------------------
(* The world thread: UpdateSessions.                                       *)

BeginUpdate ==
    /\ at = "between"
    /\ adding' = incoming /\ incoming' = <<>>
    /\ at' = "adding"
    /\ UNCHANGED <<limit, sessions, queue, info, loading, todo, stopping, did, raised>>

\* AddSession_: the session itself does not count, those that wait do.
MustWait__OneMore(a) == limit > 0 /\ Level[a] = 0 /\ Cardinality(sessions) > limit
MustWait(a) == limit > 0 /\ Level[a] = 0 /\ Cardinality(sessions) >= limit

\* AddQueuedSession sends the position with the first answer.
AddSession ==
    LET a == Head(adding)
        waits == MustWait(a)
    IN  /\ at = "adding"
        /\ adding # <<>>
        /\ adding' = Tail(adding)
        /\ IF a \in sessions THEN UNCHANGED <<sessions, queue, info>>
           ELSE /\ sessions' = sessions \cup {a}
                /\ queue' = IF waits THEN Append(queue, a) ELSE queue
                /\ info' = [info EXCEPT ![a] = [NewSession EXCEPT
                                !.inQueue = waits,
                                !.told = IF waits THEN Len(queue) + 1 ELSE 0]]
        /\ UNCHANGED <<limit, incoming, loading, todo, at, stopping, did, raised>>

AddsDone ==
    /\ at = "adding"
    /\ adding = <<>>
    /\ todo' = sessions
    /\ at' = "updating"
    /\ UNCHANGED <<limit, incoming, adding, sessions, queue, info, loading, stopping,
                   did, raised>>

\* RemoveQueuedSession, for the queue without the session that leaves: the first
\* may enter when there is room.  The session that leaves is still in m_sessions.
HasRoom__Early(found) == limit = 0 \/ GetActiveSessionCount < limit
HasRoom(found) ==
    limit = 0 \/ (IF found THEN GetActiveSessionCount ELSE GetActiveSessionCount - 1) < limit

\* Where the code's iterator stands: from there on the positions are sent anew.
FirstTold__Only(pop, found, pos, q) == IF pop THEN 1 ELSE Len(q) + 1
FirstTold(pop, found, pos, q) ==
    IF pop THEN 1 ELSE IF found THEN pos ELSE Len(q) + 1

\* UpdateSessions for a session whose Update returned false.  Its holders in
\* flight are for whatever session the account has when they are answered.
Leave(a) ==
    LET pos == GetQueuedSessionPos(queue, a)
        found == pos # 0
        rest == IF found THEN RemoveAt(queue, pos) ELSE queue
        pop == HasRoom(found) /\ rest # <<>>
        left == IF pop THEN Tail(rest) ELSE rest
        first == FirstTold(pop, found, pos, left)
        Sent(b) == {i \in first..Len(left) : left[i] = b}
    IN  /\ sessions' = sessions \ {a}
        /\ loading' = [loading EXCEPT ![a] =
                           [w \in Askers |-> IF w = "own" THEN 0
                                             ELSE @["own"] + @["former"]]]
        /\ queue' = left
        /\ info' = [b \in Account |->
                       IF b = a THEN NewSession
                       ELSE IF pop /\ b = Head(rest)
                            THEN [info[b] EXCEPT !.inQueue = FALSE, !.told = 0]
                            ELSE IF Sent(b) # {}
                                 THEN [info[b] EXCEPT !.told = CHOOSE i \in Sent(b) : TRUE]
                                 ELSE info[b]]

\* Update returned true.
Stay(a, r) ==
    /\ info' = [info EXCEPT ![a] = r]
    /\ UNCHANGED <<sessions, queue, loading>>

\* LogoutPlayer: nothing in a session that logged out before, else to the
\* selection; a session that is to be kicked closes its socket.
LogoutPlayer(r) ==
    IF r.recent THEN r
    ELSE [r EXCEPT !.state = "selecting", !.player = "none", !.recent = TRUE,
                   !.up = @ /\ ~r.kick, !.kick = FALSE]

\* SetOffline starts the time to log out anew, unless the session was offline.
AfterSetOffline(r) == {r} \cup (IF r.player = "none" THEN {} ELSE {[r EXCEPT !.kick = FALSE]})

\* SendAuthQueued or SendAuthOk.
Told(a, r) == [r EXCEPT !.told = IF r.inQueue THEN GetQueuedSessionPos(queue, a) ELSE 0]

\* In WORLD_SESSION_STATE_CREATED, at first or for a new socket, that was asked
\* for before the messages of the session were executed.
UpdateCreated(a) == \E r \in IF info[a].asks THEN AfterSetOffline(info[a]) ELSE {info[a]} :
    /\ r.asks \/ r.state = "created"
    /\ Stay(a, Told(a, [r EXCEPT !.state = "selecting", !.up = r.asks \/ @, !.asks = FALSE]))

\* In WORLD_SESSION_STATE_CHAR_SELECTION, whether in the queue or not: the
\* connection is gone, the session was kicked, or m_kickTime is over.
UpdateSelecting(a, r) ==
    /\ r.state = "selecting"
    /\ \/ ~r.up /\ Leave(a)
       \/ r.up /\ (r.kick \/ r.player # "none") /\ Stay(a, LogoutPlayer(r))
       \/ r.up /\ ~r.kick /\ Stay(a, r)
       \/ r.up /\ (r.kick => r.recent) /\ Leave(a)

\* With a character: it logs out, or loses its connection and is given some time.
UpdateOnline(a, r) ==
    /\ r.state = "online"
    /\ \/ r.up /\ ~r.kick /\ Stay(a, r)
       \/ (r.up \/ r.asks) /\ Stay(a, LogoutPlayer(r))
       \/ ~r.up /\ \E q \in AfterSetOffline(r) : Stay(a, q)
       \/ ~r.up /\ Leave(a)

UpdateSession(a) ==
    /\ at = "updating"
    /\ a \in todo
    /\ \/ UpdateCreated(a)
       \/ UpdateSelecting(a, info[a])
       \/ UpdateOnline(a, info[a])
    /\ todo' = todo \ {a}
    /\ raised' = (raised /\ queue' # <<>>)
    /\ UNCHANGED <<limit, incoming, adding, at, stopping, did>>

UpdatesDone ==
    /\ at = "updating"
    /\ todo = {}
    /\ at' = IF stopping THEN "stopped" ELSE "between"
    /\ UNCHANGED <<limit, incoming, adding, sessions, queue, info, loading, todo,
                   stopping, did, raised>>

-----------------------------------------------------------------------------
(* The world thread: packets, callbacks and commands.                      *)

\* A packet of the character selection is not refused with "the player not pass
\* queue yet".
MayPlay__Anyone(r) == TRUE
MayPlay(r) == ~r.inQueue

\* In Update, before its state is looked at: such a packet of a session clears
\* m_playerRecentlyLogout.
AuthedPacket(a) ==
    /\ at = "updating"
    /\ a \in todo
    /\ info[a].up
    /\ MayPlay(info[a])
    /\ UNCHANGED <<limit, incoming, adding, sessions, queue, todo, at, stopping, did,
                   raised>>

\* CMSG_PLAYER_LOGIN of a session without a player: DelayQueryHolder.
RequestLogin(a) ==
    /\ AuthedPacket(a)
    /\ info[a].player = "none"
    /\ \A b \in Account, w \in Askers : loading[b][w] < MaxLoading
    /\ loading' = [loading EXCEPT ![a]["own"] = @ + 1]
    /\ info' = [info EXCEPT ![a].recent = FALSE]

\* CMSG_PLAYER_LOGIN of a session with a player: HandlePlayerReconnect.
Reconnect(a) ==
    /\ AuthedPacket(a)
    /\ info[a].player # "none"
    /\ info' = [info EXCEPT ![a].recent = FALSE, ![a].kick = FALSE, ![a].state = "online"]
    /\ UNCHANGED loading

\* Another packet, or one that HandlePlayerLoginOpcode refuses.
OtherPacket(a) ==
    /\ AuthedPacket(a)
    /\ info' = [info EXCEPT ![a].recent = FALSE]
    /\ UNCHANGED loading

\* HandlePlayerLoginCallback: the holder is for the session that the account has
\* now, if it has one, be it in the queue or not.  SetOnline needs an open socket.
LoginCallback(a) ==
    LET w == IF loading[a]["former"] > 0 THEN "former" ELSE "own"
    IN  /\ at = "between"
        /\ loading[a][w] > 0
        /\ loading' = [loading EXCEPT ![a][w] = @ - 1]
        /\ IF a \notin sessions THEN UNCHANGED info
           ELSE \E failed \in BOOLEAN :
                   info' = [info EXCEPT ![a].player = w,
                                        ![a].state = IF info[a].up THEN "online" ELSE @,
                                        ![a].kick = @ \/ failed]
        /\ UNCHANGED <<limit, incoming, adding, sessions, queue, todo, at, stopping,
                       did, raised>>

Command ==
    /\ at = "between"
    /\ did.commands < MaxCommands
    /\ did' = [did EXCEPT !.commands = @ + 1]

\* BanAccount, and other commands that kick a session.
Kick(a) ==
    /\ Command
    /\ a \in sessions
    /\ info' = [info EXCEPT ![a].kick = TRUE]
    /\ UNCHANGED <<limit, incoming, adding, sessions, queue, loading, todo, at, stopping,
                   raised>>

\* HandleServerPLimitCommand: SetPlayerLimit, and KickAllLess.
KicksAllLess == GetPlayerAmountLimit > 0

SetPlayerLimit(v) ==
    /\ Command
    /\ limit' = Clamped(v)
    /\ info' = [a \in Account |->
                   IF KicksAllLess' /\ a \in sessions /\ Level[a] < GetPlayerSecurityLimit'
                   THEN [info[a] EXCEPT !.kick = TRUE] ELSE info[a]]
    /\ raised' = (raised \/ (queue # <<>> /\ (limit' <= 0 \/ limit' > limit)))
    /\ UNCHANGED <<incoming, adding, sessions, queue, loading, todo, at, stopping>>

\* CleanupsBeforeStop: KickAll in place, and a last UpdateSessions.
Stop ==
    /\ at = "between"
    /\ ~stopping
    /\ stopping' = TRUE
    /\ queue' = <<>>
    /\ info' = [a \in Account |->
                   IF a \in sessions THEN LogoutPlayer([info[a] EXCEPT !.kick = TRUE])
                   ELSE info[a]]
    /\ adding' = incoming /\ incoming' = <<>>
    /\ at' = "adding"
    /\ raised' = FALSE
    /\ UNCHANGED <<limit, sessions, loading, todo, did>>

\* ~World has deleted the sessions that are left.
Stopped == at = "stopped" /\ UNCHANGED vars

Next ==
    \/ \E a \in Account : Authenticate(a) \/ Disconnect(a)
    \/ BeginUpdate \/ AddSession \/ AddsDone \/ UpdatesDone
    \/ \E a \in Account : UpdateSession(a) \/ Kick(a)
    \/ \E a \in Account : RequestLogin(a) \/ Reconnect(a) \/ OtherPacket(a)
    \/ \E a \in Account : LoginCallback(a)
    \/ \E v \in Limits : SetPlayerLimit(v)
    \/ Stop \/ Stopped

Spec == Init /\ [][Next]_vars

-----------------------------------------------------------------------------
(* Properties.                                                              *)

\* The list of waiting sessions and the flag in each of them agree, each waits
\* once, and no session that waits has a character that it asked for itself, or
\* such a request in flight (AddQueuedSession, RemoveQueuedSession and the check of
\* m_inQueue in WorldSession::Update; KickAll empties the list at the end only);
\* without a character none is online; and the state is of the right type.
QueueSound ==
    /\ TypeOK
    /\ Queued \subseteq sessions
    /\ IsInjective(queue)
    /\ \A a \in sessions :
          /\ info[a].inQueue => info[a].player # "own"
          /\ info[a].state = "online" => info[a].player # "none"
          /\ ~stopping => (info[a].inQueue <=> a \in Queued)
          /\ a \in Queued => info[a].inQueue
    /\ \A a \in Account :
          loading[a]["own"] = 0 \/ (a \in sessions /\ ~info[a].inQueue)

\* Unless the limit was raised, nobody waits while there is room: each departure,
\* of a player or of somebody who waits, leaves the server full or the queue empty.
WaitOnlyWhenFull ==
    queue # <<>> => raised \/ (limit > 0 /\ GetActiveSessionCount >= limit)

\* Each client that waits was told its place last, whoever left before, after
\* or out of the middle of the queue, and whether it reconnected.
PositionTold ==
    \A i \in 1..Len(queue) :
        info[queue[i]].asks \/ info[queue[i]].told = i

\* Who enters the game in this step: out of the queue, or past it.
Enters(a) == a \in sessions' /\ a \notin Queued' /\ (a \notin sessions \/ a \in Queued)

\* A player enters only when that keeps the number of sessions within the limit,
\* two players never enter at once, and the one who enters waited the longest;
\* past a queue enter only those whom the limit is not about.
AdmitsInTurn ==
    [][\A a \in Account : ~stopping' /\ limit > 0 /\ Level[a] = 0 /\ Enters(a) =>
          /\ Cardinality(sessions') - Len(queue') <= limit
          /\ a \in Queued \/ raised \/ queue = <<>>
          /\ a \in Queued => a = queue[1] \/ queue[1] \notin sessions']_vars

\* "prevent cheating with skip queue wait" (WorldSession.cpp:478): who waits is not
\* in the game.
WaitingNeverPlays ==
    \A a \in sessions : info[a].inQueue => info[a].state # "online"

\* mangosd.conf.dist.in:119, "Maximum number of players in the world. Excluding
\* Mods, GM's and Admins": nobody waits while fewer players than that are there.
ModsExcluded ==
    queue # <<>> => Cardinality({a \in Active : Level[a] = 0}) >= limit

\* mangosd.conf.dist.in:121, "0 (for infinite players)": a whole update of the
\* sessions at that limit leaves nobody waiting.
InfiniteNeverWaits ==
    [][at = "updating" /\ at' = "between" /\ limit = 0 => queue' = <<>>]_vars

\* Level3.cpp:6437, "kick all low security level players": a command that lets in
\* only higher levels kicks everybody below.
LowLevelsKicked ==
    [][limit' < 0 /\ limit' # limit =>
          \A a \in sessions : Level[a] < -limit' => info'[a].kick]_vars

==============================================================================
