--------------------------- MODULE BattleGroundQueue ---------------------------
(***************************************************************************)
(* The battleground queue: BattleGroundQueue on its own thread, and on the *)
(* side of the world the players, the BattleGround objects and their maps. *)
(* Each side keeps its own idea of who waits, who is invited and how full  *)
(* a battleground is, and tells the other through a Messager: a vector of  *)
(* closures that the receiver swaps out and runs in order.  A batch may be *)
(* cut between any two messages, so a sequence read one at a time has the  *)
(* same steps.                                                             *)
(*                                                                         *)
(* One type of battleground in one bracket, no arena, and the default      *)
(* Battleground.InvitationType 0.  What a player does while teleporting    *)
(* home is left out, and timers fire at any time: only their order with    *)
(* the messages matters.                                                   *)
(***************************************************************************)
EXTENDS Integers, Sequences, FiniteSets, SequencesExt

CONSTANTS
    Alliance, Horde,    \* the players of the two teams
    Party,              \* who joins together: sets of players of one team
    MinPerTeam,         \* GetMinPlayersPerTeam of the template
    MaxPerTeam,         \* GetMaxPlayersPerTeam
    MaxJoins,           \* bound: requests to join
    MaxOthers           \* bound: of these, requests for an instance of choice, and
                        \* whatever else the players do, or fail to do in time

Player == Alliance \cup Horde

ASSUME QueueAssumption ==
    /\ IsFiniteSet(Alliance) /\ IsFiniteSet(Horde) /\ Alliance \cap Horde = {}
    /\ Party \subseteq SUBSET Player
    /\ \A S \in Party : S # {} /\ (S \subseteq Alliance \/ S \subseteq Horde)
    /\ MinPerTeam \in Nat \ {0} /\ MaxPerTeam \in Nat /\ MinPerTeam <= MaxPerTeam
    /\ \A S \in Party : Cardinality(S) <= MaxPerTeam
    /\ {MaxJoins, MaxOthers} \subseteq Nat

VARIABLES
    queue,      \* the state of the queue thread
    toQueue,    \* the Messager of BattleGroundQueue
    world,      \* players and battlegrounds, on the threads of the world
    toWorld,    \* the Messager of World
    timers,     \* the BgQueueRemoveEvents of the players
    did         \* history: how many of the bounded requests were made, whether
                \* somebody was away, and whether somebody left a battleground

vars == <<queue, toQueue, world, toWorld, timers, did>>

Team == {"alliance", "horde"}
TeamOf(p) == IF p \in Alliance THEN "alliance" ELSE "horde"
Kind == {"premade", "normal"}
Status == {"none", "waitQueue", "waitJoin", "inProgress", "waitLeave"}
\* status > STATUS_WAIT_QUEUE and < STATUS_WAIT_LEAVE
Open == {"waitJoin", "inProgress"}

Gid == Nat \ {0}                    \* groups, numbered as they join
Inst == Nat \ {0}                   \* instances, numbered as they are created
Invited == [Team -> Int]            \* uint32, below 0 means wrapped

Groups == [players : SUBSET Player, team : Team, invited : Inst \cup {0},
           desired : Nat]
NoGroup == [players |-> {}, team |-> "alliance", invited |-> 0, desired |-> 0]
Slots == [inst : Inst, status : Status, inside : Nat, invited : Invited]
Battlegrounds ==
    [status : Status,
     players : SUBSET Player,       \* m_players
     offline : Seq(Player),         \* m_offlineQueue
     invited : Invited,             \* m_invitedAlliance, m_invitedHorde
     listed : BOOLEAN,              \* m_hasBgFreeSlotQueue
     closed : BOOLEAN]              \* BattleGroundMap::m_scheduledForDeletion
Players ==
    [online : BOOLEAN,
     queued : BOOLEAN,              \* holds the id of the queue
     invite : Inst \cup {0},        \* invitedToInstance of that id
     bgId : Inst \cup {0},          \* m_bgData.bgInstanceID
     map : Inst \cup {0},           \* the battleground map it is in, 0 for none
     moving : BOOLEAN]              \* a far teleport is under way, to bgId or another map

QueueMessages ==
    [op : {"join"}, members : Party, desired : Nat, premade : BOOLEAN]
    \cup [op : {"port"}, who : Player, enter : BOOLEAN]
    \cup [op : {"remove"}, who : Player]
    \cup [op : {"expire"}, who : Player, inst : Inst, stamp : Gid, again : BOOLEAN]
    \cup [op : {"status"}, inst : Inst, status : Status]
    \cup [op : {"add"}, slot : Slots]
    \cup [op : {"lower"}, inst : Inst, team : Team]
    \cup [op : {"drop"}, inst : Inst]
    \cup [op : {"schedule"}]
WorldMessages ==
    [op : {"joined"}, members : Party]
    \cup [op : {"invite", "expired"}, who : Player, inst : Inst, stamp : Gid]
    \cup [op : {"count"}, inst : Inst, team : Team, n : Int]
    \cup [op : {"create"}, inst : Inst, invited : Invited]
    \cup [op : {"enter"}, who : Player, inst : Inst]
    \cup [op : {"unqueue"}, who : Player]
    \cup [op : {"full"}, inst : Inst]

TypeOK ==
    /\ queue \in [groups : Seq(Groups),
                  list : [Team -> [Kind -> Seq(Gid)]],
                  of : [Player -> Gid \cup {0}],
                  slots : Seq(Slots),
                  scheduled : BOOLEAN,
                  ids : Seq(Nat),
                  sent : {<<>>}]
    /\ toQueue \in Seq(QueueMessages)
    /\ world \in [player : [Player -> Players], bg : Seq(Battlegrounds), sent : {<<>>}]
    /\ toWorld \in Seq(WorldMessages)
    /\ timers \subseteq [who : Player, inst : Inst, stamp : Gid]
    /\ did \in [joins : 0..MaxJoins, others : 0..MaxOthers, lost : BOOLEAN,
                left : BOOLEAN]

Away == [online |-> TRUE, queued |-> FALSE, invite |-> 0, bgId |-> 0, map |-> 0,
         moving |-> FALSE]

Init ==
    /\ queue = [groups |-> <<>>,
                list |-> [t \in Team |-> [k \in Kind |-> <<>>]],
                of |-> [p \in Player |-> 0],
                slots |-> <<>>,
                scheduled |-> FALSE,
                ids |-> <<>>,
                sent |-> <<>>]
    /\ toQueue = <<>>
    /\ world = [player |-> [p \in Player |-> Away], bg |-> <<>>, sent |-> <<>>]
    /\ toWorld = <<>>
    /\ timers = {}
    /\ did = [joins |-> 0, others |-> 0, lost |-> FALSE, left |-> FALSE]

-----------------------------------------------------------------------------
(* The queue thread.  The methods take the state q of the queue and return *)
(* it changed; q.sent collects the messages to the world.  A definition    *)
(* whose name ends in a remark after "__" is a defect the properties are   *)
(* tried against; no action uses it.                                       *)

Tell(s, m) == [s EXCEPT !.sent = Append(@, m)]

\* GetFreeSlotInstance: the place of the first entry of an instance, 0 if none.
SlotAt(q, i) == SelectInSeq(q.slots, LAMBDA e : e.inst = i)

\* IncreaseInvitedCount and DecreaseInvitedCount: the world gets the new count.
ChangeInvited(q, k, team, d) ==
    LET n == q.slots[k].invited[team] + d IN
    Tell([q EXCEPT !.slots[k].invited[team] = n],
         [op |-> "count", inst |-> q.slots[k].inst, team |-> team, n |-> n])

\* AddGroup: also for a player who is in the queue already.
AddGroup(q, m) ==
    LET g == Len(q.groups) + 1
        team == TeamOf(CHOOSE p \in m.members : TRUE)
        kind == IF m.premade THEN "premade" ELSE "normal"
    IN  [q EXCEPT !.groups = Append(@, [players |-> m.members, team |-> team,
                                        invited |-> 0, desired |-> m.desired]),
                  !.of = [p \in Player |-> IF p \in m.members THEN g ELSE @[p]],
                  !.list[team][kind] = Append(@, g)]

\* RemovePlayer of a player who is not in the queue does nothing.  A group
\* without players is taken off its list and deleted.
RemovePlayer(q, p, lower) ==
    LET g == q.of[p]
        group == q.groups[g]
        rest == group.players \ {p}
        k == SlotAt(q, group.invited)
        counted == IF lower /\ group.invited # 0 /\ k # 0
                   THEN ChangeInvited(q, k, group.team, -1) ELSE q
    IN  IF g = 0 THEN q
        ELSE IF rest # {}
             THEN [counted EXCEPT !.of[p] = 0, !.groups[g].players = rest]
             ELSE [counted EXCEPT !.of[p] = 0,
                                  !.groups[g] = [NoGroup EXCEPT !.team = group.team],
                                  !.list[group.team] =
                                      [kind \in Kind |-> RemoveFirst(@[kind], g)]]

\* IsPlayerInvited: removeInviteTime is the stamp, one per invited group.
IsPlayerInvited(q, p, i, stamp) ==
    q.of[p] = stamp /\ q.groups[stamp].invited = i

\* CreateClientVisibleInstanceId: the loop never advances its iterator, so it
\* compares the lowest id with 1 and then with 2.  No id is ever given back:
\* only the destructor of a battleground does, and it does not run before the
\* map is unloaded, for which the map waits for the destructor.
ClientId(q) ==
    IF q.ids = <<>> THEN 1 ELSE IF 1 \in ToSet(q.ids) THEN 3 ELSE 2

\* Who enters gives his place back.
Port__PlaceFreed(q, p, enter) ==
    LET i == q.groups[q.of[p]].invited IN
    IF q.of[p] = 0 \/ (enter /\ i = 0) THEN q
    ELSE Tell([RemovePlayer(q, p, TRUE) EXCEPT !.scheduled = @ \/ ~enter],
              IF enter THEN [op |-> "enter", who |-> p, inst |-> i]
              ELSE [op |-> "unqueue", who |-> p])

\* The message of HandleBattlefieldPortOpcode: enter, or leave the queue.
Port(q, p, enter) ==
    LET i == q.groups[q.of[p]].invited IN
    IF q.of[p] = 0 \/ (enter /\ i = 0) THEN q
    ELSE IF enter
         THEN Tell(RemovePlayer(q, p, FALSE), [op |-> "enter", who |-> p, inst |-> i])
         ELSE Tell([RemovePlayer(q, p, TRUE) EXCEPT !.scheduled = TRUE],
                   [op |-> "unqueue", who |-> p])

\* The place of who did not answer is not given back.
Expire__PlaceKept(q, m) ==
    IF ~IsPlayerInvited(q, m.who, m.inst, m.stamp) THEN q
    ELSE Tell([RemovePlayer(q, m.who, FALSE) EXCEPT !.scheduled = @ \/ m.again],
              [op |-> "unqueue", who |-> m.who])

\* The message of BgQueueRemoveEvent.
Expire(q, m) ==
    IF ~IsPlayerInvited(q, m.who, m.inst, m.stamp) THEN q
    ELSE Tell([RemovePlayer(q, m.who, TRUE) EXCEPT !.scheduled = @ \/ m.again],
              [op |-> "unqueue", who |-> m.who])

\* SetStatus, AddBgToFreeSlots, DecreaseInvitedCount, RemoveBgFromFreeSlots.
ChangeSlot(q, m) ==
    LET k == IF m.op = "add" THEN 0 ELSE SlotAt(q, m.inst) IN
    CASE m.op = "add" -> [q EXCEPT !.slots = <<m.slot>> \o @]
      [] m.op = "status" /\ k # 0 -> [q EXCEPT !.slots[k].status = m.status]
      [] m.op = "lower" /\ k # 0 -> ChangeInvited(q, k, m.team, -1)
      [] m.op = "drop" /\ k # 0 -> [q EXCEPT !.slots = RemoveAt(@, k)]
      [] OTHER -> q

Handled(q, m) ==
    CASE m.op = "join" -> Tell([AddGroup(q, m) EXCEPT !.scheduled = TRUE],
                               [op |-> "joined", members |-> m.members])
      [] m.op = "port" -> Port(q, m.who, m.enter)
      [] m.op = "remove" -> RemovePlayer(q, m.who, TRUE)
      [] m.op = "expire" -> Expire(q, m)
      [] m.op = "schedule" -> [q EXCEPT !.scheduled = TRUE]
      [] OTHER -> ChangeSlot(q, m)

QueueBecomes(q) ==
    /\ queue' = [q EXCEPT !.sent = <<>>]
    /\ toWorld' = toWorld \o q.sent

RunQueueMessage ==
    /\ toQueue # <<>>
    /\ QueueBecomes(Handled(queue, Head(toQueue)))
    /\ toQueue' = Tail(toQueue)
    /\ UNCHANGED <<world, timers, did>>

-----------------------------------------------------------------------------
(* BattleGroundQueueItem::Update.                                          *)

\* SelectionPool::AddGroup for the groups of a list in turn, added to pool,
\* until there are enough players in it.
Select(q, pool, list, limit, enough, id) ==
    LET Add(s, g) ==
            LET group == q.groups[g]
                n == s.n + Cardinality(group.players)
            IN  IF /\ s.n < enough
                   /\ group.invited = 0
                   /\ group.desired \in {0, id}
                   /\ n <= limit
                THEN [sel |-> Append(s.sel, g), n |-> n] ELSE s
    IN  FoldLeft(Add, pool, list)
NoPool == [sel |-> <<>>, n |-> 0]

\* InviteGroupToBg: for the battleground of the k-th entry.
InviteGroupToBg(q, g, k) ==
    LET i == q.slots[k].inst
        Invite(s, p) ==
            ChangeInvited(Tell(s, [op |-> "invite", who |-> p, inst |-> i, stamp |-> g]),
                          k, q.groups[g].team, 1)
    IN  FoldLeft(Invite, [q EXCEPT !.groups[g].invited = i],
                 SetToSeq(q.groups[g].players))
InviteAll(q, pools, k) ==
    FoldLeft(LAMBDA s, g : InviteGroupToBg(s, g, k), q,
             pools["alliance"].sel \o pools["horde"].sel)

\* GetFreeSlotsForTeam of an entry.
FreeSlots(e, t) ==
    IF e.status \in Open /\ e.invited[t] \in 0..MaxPerTeam
    THEN MaxPerTeam - e.invited[t] ELSE 0

\* Places are free when neither team has all its invitations out.
HasFreeSlots__Invited(e) == \A t \in Team : FreeSlots(e, t) > 0

HasFreeSlots(e) == e.inside < 2 * MaxPerTeam

\* The entries that stay: an open battleground without free slots is taken off.
Kept(slots) ==
    LET Keep(kept, e) ==
            IF e.status \in Open /\ ~HasFreeSlots(e) THEN kept ELSE Append(kept, e)
    IN  FoldLeft(Keep, <<>>, slots)

\* FillPlayersToBg of every open battleground.
Fill(q) ==
    LET FillOne(s, k) ==
            LET e == s.slots[k]
                pools == [t \in Team |->
                    Select(s, NoPool, s.list[t]["normal"], FreeSlots(e, t),
                           FreeSlots(e, t), s.ids[e.inst])]
                invited == InviteAll(s, pools, k)
            IN  IF e.status \notin Open THEN s
                ELSE IF HasFreeSlots(e) THEN invited
                     ELSE Tell(invited, [op |-> "full", inst |-> e.inst])
        filled == FoldLeft(FillOne, q, [k \in 1..Len(q.slots) |-> k])
    IN  [filled EXCEPT !.slots = Kept(@)]

\* The instance gets its number before it is counted.
CreateBattleGround__Id(q, pools) ==
    LET i == Len(q.ids) IN
    [q EXCEPT !.ids = Append(@, ClientId(q)),
              !.slots = <<[inst |-> i, status |-> "none", inside |-> 0,
                           invited |-> [t \in Team |-> 0]]>> \o @]

\* A new battleground, with the counters of the template, and the groups of
\* the pools invited to it.
CreateBattleGround(q, pools) ==
    LET i == Len(q.ids) + 1
        added == [q EXCEPT !.ids = Append(@, ClientId(q)),
                           !.slots = <<[inst |-> i, status |-> "none", inside |-> 0,
                                        invited |-> [t \in Team |-> 0]]>> \o @]
        invited == InviteAll(added, pools, 1)
    IN  Tell(invited, [op |-> "create", inst |-> i,
                       invited |-> invited.slots[1].invited])

\* CheckPremadeMatch: the first groups of both teams that are not invited, and
\* groups from the normal lists up to the size of the bigger pool.
FirstPremade(q, t) ==
    SelectInSeq(q.list[t]["premade"], LAMBDA g : q.groups[g].invited = 0)
PremadePools(q) ==
    LET first == [t \in Team |->
            Select(q, NoPool, <<q.list[t]["premade"][FirstPremade(q, t)]>>,
                   MaxPerTeam, MaxPerTeam, 0)]
        size == Max({first[t].n : t \in Team})
    IN  [t \in Team |-> Select(q, first[t], q.list[t]["normal"], size, size, 0)]

\* Without such a match the first premade group of a team moves to the normal
\* list when it waited too long or became too small.
MovePremade(q, late) ==
    LET list(t) == q.list[t]["premade"]
        moves(t) ==
            /\ list(t) # <<>>
            /\ LET group == q.groups[Head(list(t))] IN
               /\ group.invited = 0
               /\ late \/ Cardinality(group.players) < MinPerTeam
    IN  [q EXCEPT !.list = [t \in Team |->
            IF moves(t) THEN [premade |-> Tail(list(t)),
                              normal |-> <<Head(list(t))>> \o @[t]["normal"]]
            ELSE @[t]]]

\* CheckNormalMatch: the first groups of each team that make MinPerTeam.
NormalPools(q) ==
    [t \in Team |-> Select(q, NoPool, q.list[t]["normal"], MaxPerTeam, MinPerTeam, 0)]

Updated(q, late) ==
    LET filled == Fill(q)
        premade == IF \A t \in Team : FirstPremade(filled, t) # 0
                   THEN CreateBattleGround(filled, PremadePools(filled))
                   ELSE MovePremade(filled, late)
        pools == NormalPools(premade)
    IN  IF \A t \in Team, k \in Kind : q.list[t][k] = <<>> THEN q
        ELSE IF \A t \in Team : pools[t].n >= MinPerTeam
             THEN CreateBattleGround(premade, pools)
             ELSE premade

\* A scheduled update, at the end of a batch of messages.
UpdateQueue ==
    /\ queue.scheduled
    /\ \E late \in BOOLEAN :
           QueueBecomes([Updated(queue, late) EXCEPT !.scheduled = FALSE])
    /\ UNCHANGED <<toQueue, world, timers, did>>

QueueThread == RunQueueMessage \/ UpdateQueue

-----------------------------------------------------------------------------
(* The threads of the world.  The methods take the state w of the world;   *)
(* w.sent collects the messages to the queue.                              *)

\* sObjectMgr.GetPlayer finds no player who is teleporting to another map.
InWorld(w, p) == w.player[p].online /\ ~w.player[p].moving

\* AddToBgFreeSlotQueue, or DecreaseInvitedCount of the entry there is.
Listed(w, i, team) ==
    LET b == w.bg[i] IN
    IF b.listed THEN Tell(w, [op |-> "lower", inst |-> i, team |-> team])
    ELSE Tell([w EXCEPT !.bg[i].listed = TRUE],
              [op |-> "add",
               slot |-> [inst |-> i, status |-> b.status,
                         inside |-> Cardinality(b.players), invited |-> b.invited]])

\* RemovedFromBgFreeSlotQueue(true)
Unlisted(w, i) ==
    IF w.bg[i].listed
    THEN Tell([w EXCEPT !.bg[i].listed = FALSE], [op |-> "drop", inst |-> i])
    ELSE w

SetStatus(w, i, status) ==
    Tell([w EXCEPT !.bg[i].status = status],
         [op |-> "status", inst |-> i, status |-> status])

\* RemoveBattleGroundQueueId is left out.
RemovePlayerAtLeave__Queued(w, i, p) ==
    IF p \in w.bg[i].players /\ InWorld(w, p)
    THEN [w EXCEPT !.bg[i].players = @ \ {p}, !.bg[i].invited[TeamOf(p)] = @ - 1,
                   !.player[p].bgId = 0, !.player[p].map = 0]
    ELSE w

\* p is no longer one of the players, and his place is free.
Erased(b, p) ==
    [b EXCEPT !.players = @ \ {p}, !.invited[TeamOf(p)] = @ - 1]

\* RemovePlayerAtLeave: p may be offline, or in the map without taking part.
RemovePlayerAtLeave(w, i, p) ==
    LET team == TeamOf(p)
        took == p \in w.bg[i].players
        gone == IF took THEN [w EXCEPT !.bg[i] = Erased(w.bg[i], p)] ELSE w
        told == IF took /\ w.bg[i].status # "waitLeave"
                THEN Tell(Listed(gone, i, team), [op |-> "schedule"]) ELSE gone
    IN  IF ~InWorld(w, p) THEN told
        ELSE [told EXCEPT !.player[p] =
                 IF took THEN [@ EXCEPT !.queued = FALSE, !.invite = 0,
                                        !.bgId = 0, !.map = 0]
                 ELSE [@ EXCEPT !.bgId = 0, !.map = 0]]

\* Player::GetBattleGround: that of the map the player is in, 0 for none.
GetBattleGround(w, p) == IF w.player[p].bgId = 0 THEN 0 ELSE w.player[p].map

\* HandleMoveWorldportAckOpcode: only who is invited takes part.
Arrived(w, p) ==
    LET r == w.player[p]
        there == [w EXCEPT !.player[p] = [r EXCEPT !.moving = FALSE, !.map = r.bgId]]
    IN  IF ~r.moving THEN w
        ELSE IF r.bgId # 0 /\ r.invite = r.bgId
             THEN [there EXCEPT !.bg[r.bgId].players = @ \cup {p}] ELSE there

\* The message of HandleBattlefieldPortOpcode: SendToBattleGround.
Entered(w, p, i) ==
    LET at == GetBattleGround(w, p)
        left == IF at = 0 THEN w ELSE RemovePlayerAtLeave(w, at, p)
    IN  [left EXCEPT !.player[p] = [@ EXCEPT !.bgId = i, !.map = 0, !.moving = TRUE]]

\* CreateNewBattleGround: Reset and SetStatus, then the invited counts.
Created(w, m) ==
    LET new == [w EXCEPT !.bg = Append(@, [status |-> "none", players |-> {},
                    offline |-> <<>>, invited |-> m.invited, listed |-> FALSE,
                    closed |-> FALSE])]
    IN  SetStatus(SetStatus(new, m.inst, "waitQueue"), m.inst, "waitJoin")

\* The event of a battleground that is over is dropped.
Expired__NotOver(w, m) ==
    IF ~w.player[m.who].queued \/ w.bg[m.inst].status = "waitLeave" THEN w
    ELSE Tell(w, [op |-> "expire", who |-> m.who, inst |-> m.inst, stamp |-> m.stamp,
                  again |-> TRUE])

\* A BgQueueRemoveEvent of a player who is still in the queue, or in the
\* battleground, is passed on to the queue.
Expired(w, m) ==
    IF ~w.player[m.who].queued THEN w
    ELSE Tell(w, [op |-> "expire", who |-> m.who, inst |-> m.inst, stamp |-> m.stamp,
                  again |-> m.inst <= Len(w.bg) /\ w.bg[m.inst].status # "waitLeave"])

\* What a message to a player does, if he is found.
Told(w, m) ==
    CASE m.op = "invite" ->
            IF w.player[m.who].queued THEN [w EXCEPT !.player[m.who].invite = m.inst]
            ELSE w
      [] m.op = "enter" -> Entered(w, m.who, m.inst)
      [] m.op = "unqueue" ->
            [w EXCEPT !.player[m.who] = [@ EXCEPT !.queued = FALSE, !.invite = 0]]
      [] m.op = "expired" -> Expired(w, m)

\* What a message of the queue does to the world.
Done(w, m) ==
    CASE m.op = "joined" ->
            [w EXCEPT !.player = [p \in Player |->
                IF p \in m.members /\ InWorld(w, p)
                THEN [@[p] EXCEPT !.queued = TRUE, !.invite = 0] ELSE @[p]]]
      [] m.op = "count" ->
            IF m.inst <= Len(w.bg) THEN [w EXCEPT !.bg[m.inst].invited[m.team] = m.n]
            ELSE w
      [] m.op = "create" -> Created(w, m)
      [] m.op = "full" -> [w EXCEPT !.bg[m.inst].listed = FALSE]
      [] OTHER -> IF InWorld(w, m.who) THEN Told(w, m) ELSE w

WorldBecomes(w) ==
    /\ world' = [w EXCEPT !.sent = <<>>]
    /\ toQueue' = toQueue \o w.sent

\* With an invitation the player gets a BgQueueRemoveEvent.
RunWorldMessage ==
    LET m == Head(toWorld) IN
    /\ toWorld # <<>>
    /\ WorldBecomes(Done(world, m))
    /\ toWorld' = Tail(toWorld)
    /\ timers' = IF m.op = "invite" /\ InWorld(world, m.who)
                 THEN timers \cup {[who |-> m.who, inst |-> m.inst, stamp |-> m.stamp]}
                 ELSE timers
    /\ UNCHANGED <<queue, did>>

Count(request) ==
    LET join == request \in {"join", "choose"}
        other == request \in {"choose", "port", "trip", "logout", "timeout"}
    IN  /\ join => did.joins < MaxJoins
        /\ other => did.others < MaxOthers
        /\ did' = [joins  |-> IF join THEN did.joins + 1 ELSE did.joins,
                   others |-> IF other THEN did.others + 1 ELSE did.others,
                   lost   |-> did.lost \/ request \in {"trip", "logout"},
                   left   |-> did.left \/ request \in {"leave", "logout"}]

\* BgQueueRemoveEvent::Execute, INVITE_ACCEPT_WAIT_TIME after the invitation.
FireTimer(t) ==
    /\ t \in timers
    /\ InWorld(world, t.who)
    /\ Count("timeout")
    /\ timers' = timers \ {t}
    /\ toWorld' = Append(toWorld, [op |-> "expired", who |-> t.who, inst |-> t.inst,
                                   stamp |-> t.stamp])
    /\ UNCHANGED <<queue, toQueue, world>>

-----------------------------------------------------------------------------
(* Requests of the clients, and the battleground maps.                     *)

\* HandleBattlemasterJoinOpcode, alone or as the leader of a party; a party of
\* MinPerTeam is a premade group.  The client may ask for one of the instances
\* it was shown.
Join(S, d) ==
    /\ \A p \in S : world.player[p].online /\ ~world.player[p].queued
    /\ \E leader \in S : InWorld(world, leader) /\ world.player[leader].bgId = 0
    /\ Count(IF d = 0 THEN "join" ELSE "choose")
    /\ toQueue' = Append(toQueue,
           [op |-> "join", members |-> S, desired |-> d,
            premade |-> Cardinality(S) > 1 /\ Cardinality(S) >= MinPerTeam])
    /\ UNCHANGED <<queue, world, toWorld, timers>>

\* HandleBattlefieldPortOpcode, from a client that has heard of an invitation
\* when it asks to enter.
AskPort(p, enter) ==
    /\ InWorld(world, p)
    /\ world.player[p].queued
    /\ enter => world.player[p].invite # 0
    /\ Count("port")
    /\ toQueue' = Append(toQueue, [op |-> "port", who |-> p, enter |-> enter])
    /\ UNCHANGED <<queue, world, toWorld, timers>>

\* HandleLeaveBattlefieldOpcode
AskLeave(p) ==
    /\ InWorld(world, p)
    /\ GetBattleGround(world, p) # 0
    /\ Count("leave")
    /\ WorldBecomes(RemovePlayerAtLeave(world, GetBattleGround(world, p), p))
    /\ UNCHANGED <<queue, toWorld, timers>>

\* A teleport to another map, outside of battlegrounds.
Travel(p) ==
    /\ InWorld(world, p)
    /\ world.player[p].bgId = 0
    /\ Count("trip")
    /\ WorldBecomes([world EXCEPT !.player[p].moving = TRUE])
    /\ UNCHANGED <<queue, toWorld, timers>>

Arrive(p) ==
    /\ world.player[p].moving
    /\ WorldBecomes(Arrived(world, p))
    /\ UNCHANGED <<queue, toWorld, timers, did>>

\* LogoutPlayer finishes a teleport first.  In a battleground the player stays
\* one of its players; a place in the queue is given up.
LoggedOut(w, p) ==
    LET here == Arrived(w, p)
        i == GetBattleGround(here, p)
        left == IF i = 0 THEN here
                ELSE [here EXCEPT !.bg[i].players = @ \cup {p},
                                  !.bg[i].offline = Append(@, p)]
        out == [left EXCEPT !.player[p] = [@ EXCEPT !.online = FALSE, !.queued = FALSE,
                                                    !.invite = 0, !.map = 0]]
    IN  IF w.player[p].queued THEN Tell(out, [op |-> "remove", who |-> p]) ELSE out

Logout(p) ==
    /\ world.player[p].online
    /\ Count("logout")
    /\ WorldBecomes(LoggedOut(world, p))
    /\ timers' = {t \in timers : t.who # p}
    /\ UNCHANGED <<queue, toWorld>>

\* Player::LoadFromDB: back in the battleground, unless it ended meanwhile.
LoggedIn(w, p) ==
    LET i == w.player[p].bgId
        back == i # 0 /\ p \in w.bg[i].players
    IN  IF back /\ w.bg[i].status # "waitLeave"
        THEN [w EXCEPT !.player[p] = [@ EXCEPT !.online = TRUE, !.queued = TRUE,
                                               !.invite = i, !.map = i],
                       !.bg[i].offline = RemoveFirst(@, p)]
        ELSE [(IF back THEN RemovePlayerAtLeave(w, i, p) ELSE w)
                EXCEPT !.player[p] = Away]

Login(p) ==
    /\ ~world.player[p].online
    /\ WorldBecomes(LoggedIn(world, p))
    /\ UNCHANGED <<queue, toWorld, timers, did>>

\* The entry is dropped after the queue heard of the end.

\* EndBattleGround, and EndNow.
Ended(w, i) == SetStatus(Unlisted(w, i), i, "waitLeave")

MapStep(w) ==
    /\ WorldBecomes(w)
    /\ UNCHANGED <<queue, toWorld, timers, did>>

\* BattleGroundMap::Update of a map without players, when nobody is invited.
CloseMap(i) ==
    /\ ~world.bg[i].closed
    /\ world.bg[i].players = {}
    /\ \A t \in Team : world.bg[i].invited[t] = 0
    /\ MapStep(Ended([world EXCEPT !.bg[i].closed = TRUE], i))

\* BattleGround::Update: the gates open, the battle is decided, the players
\* leave two minutes later, who is offline for five minutes is removed.
Updates(i) == ~world.bg[i].closed /\ world.bg[i].players # {}
OpenGates(i) ==
    /\ Updates(i)
    /\ world.bg[i].status = "waitJoin"
    /\ MapStep(SetStatus(world, i, "inProgress"))
EndBattle(i) ==
    /\ Updates(i)
    /\ world.bg[i].status = "inProgress"
    /\ MapStep(Ended(world, i))
AllLeft(w, i) ==
    LET Leave(x, p) == RemovePlayerAtLeave(x, i, p)
    IN  FoldLeft(Leave, w, SetToSeq(w.bg[i].players))
RemoveAll(i) ==
    /\ Updates(i)
    /\ world.bg[i].status = "waitLeave"
    /\ MapStep(AllLeft(world, i))
RemoveOffline(i) ==
    LET b == world.bg[i] IN
    /\ Updates(i)
    /\ b.offline # <<>>
    /\ Head(b.offline) \in b.players
    /\ MapStep([RemovePlayerAtLeave(world, i, Head(b.offline))
                    EXCEPT !.bg[i].offline = Tail(@)])

UpdateMap(i) ==
    CloseMap(i) \/ OpenGates(i) \/ EndBattle(i) \/ RemoveAll(i) \/ RemoveOffline(i)

Client(p) ==
    \/ \E enter \in BOOLEAN : AskPort(p, enter)
    \/ AskLeave(p) \/ Travel(p) \/ Logout(p) \/ Login(p)

Next ==
    \/ QueueThread
    \/ RunWorldMessage
    \/ \E t \in timers : FireTimer(t)
    \/ \E S \in Party, d \in {0} \cup ToSet(queue.ids) : Join(S, d)
    \/ \E p \in Player : Client(p) \/ Arrive(p)
    \/ \E i \in 1..Len(world.bg) : UpdateMap(i)

Spec == Init /\ [][Next]_vars

-----------------------------------------------------------------------------
(* Properties.                                                             *)

\* The groups that wait for their players to answer an invitation to i.
Asked(i) == {g \in 1..Len(queue.groups) : queue.groups[g].invited = i}
InFlight(messages, op) == {m \in ToSet(messages) : m.op = op}

\* Who takes part in i, is on the way to it, or may still accept.
Inside(i) == IF i <= Len(world.bg) THEN world.bg[i].players ELSE {}
OnTheWay(i) ==
    {p \in Player : world.player[p].moving /\ world.player[p].bgId = i}
    \cup {m.who : m \in {e \in InFlight(toWorld, "enter") : e.inst = i}}
MayAccept(i) == UNION {queue.groups[g].players : g \in Asked(i)}
Claims(i, t) ==
    {p \in Inside(i) \cup OnTheWay(i) \cup MayAccept(i) : TeamOf(p) = t}

Quiet == toQueue = <<>> /\ toWorld = <<>>
\* No message to a player was lost because he could not be found.
NobodyLost == ~did.lost
NobodyLeft == ~did.left

\* A battleground to which a group is invited still has its entry among those
\* with free slots: what MANGOS_ASSERT(bgInQueue) relies on when one of the
\* group accepts.
InvitedHasSlot ==
    \A g \in 1..Len(queue.groups) :
        queue.groups[g].invited # 0 => SlotAt(queue, queue.groups[g].invited) # 0

\* No place of i was announced as free again, and it is not over.
Untouched(i) ==
    i <= Len(world.bg) => ~world.bg[i].listed /\ world.bg[i].status # "waitLeave"

\* Until somebody leaves, those in a battleground, on the way to it and invited
\* to it are never more than a team may have, whatever messages are under way;
\* and for one without places announced it holds whoever left another.
NoOverInvite ==
    \A i \in 1..Len(queue.ids), t \in Team :
        NobodyLeft \/ Untouched(i) => Cardinality(Claims(i, t)) <= MaxPerTeam

\* No request to join was sent again before the answer to the first.
InOneGroup ==
    \A g \in 1..Len(queue.groups) : \A p \in queue.groups[g].players : queue.of[p] = g

\* With no message under way both sides count, for a battleground that is not
\* over, as many invited players as are inside, on the way or invited.
CountsAgree ==
    Quiet /\ NobodyLeft /\ NobodyLost /\ InOneGroup =>
        \A i \in 1..Len(world.bg), t \in Team :
            LET n == Cardinality(Claims(i, t)) IN
            world.bg[i].status # "waitLeave" =>
            /\ world.bg[i].invited[t] = n
            /\ queue.slots[SlotAt(queue, i)].invited[t] = n

\* With no message under way a player holds the id of the queue if and only if
\* he is in the queue or takes part in a battleground.
QueuedAgree ==
    Quiet /\ NobodyLost /\ InOneGroup =>
        \A p \in Player : ~world.player[p].moving =>
            (world.player[p].queued <=>
                \/ queue.of[p] # 0
                \/ \E i \in 1..Len(world.bg) : p \in Inside(i))

\* An invited player is never left without what ends the invitation: the event
\* of 80 seconds, or a message that sets it, carries it or acts on it.
InvitationEnds ==
    \A p \in Player :
        LET g == queue.of[p]
            of(m) == m.who = p /\ m.stamp = g
        IN  g # 0 /\ queue.groups[g].invited # 0 =>
                \/ \E m \in timers : of(m)
                \/ \E m \in InFlight(toWorld, "invite")
                       \cup InFlight(toWorld, "expired")
                       \cup InFlight(toQueue, "expire") : of(m)
                \/ \E m \in InFlight(toQueue, "remove") : m.who = p

\* The same while no player travels or logs out: a player who is away when the
\* world runs the invitation does not get the event.
InvitationWatched == NobodyLost => InvitationEnds
================================================================================
