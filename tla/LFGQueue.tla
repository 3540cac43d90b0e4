------------------------------- MODULE LFGQueue -------------------------------
(***************************************************************************)
(* The dungeon finder: LFGQueue on a thread of its own, LFGMgr and the     *)
(* packet handlers of the players in the world, and the messages between.  *)
(*                                                                         *)
(* A party joins with a role check: its players choose their roles within  *)
(* 45 seconds.  A party of five that passed it is proposed a dungeon (there *)
(* is no matching of parties), the players answer within another 45, and   *)
(* when all agree the world makes a new group of those it finds online.    *)
(* A single player is queued at once and stays so.                         *)
(*                                                                         *)
(* Neither side sees the state of the other: players log out, change their *)
(* party, leave the queue and join it again while messages are under way   *)
(* and proposals out.  The raid browser, which shares the messages for     *)
(* joining and leaving, is not in the module; nor are dungeons, levels and *)
(* locks, by which a join may be refused.                                  *)
(***************************************************************************)
EXTENDS Naturals, Sequences, FiniteSets, SequencesExt

CONSTANTS
    Player,
    Group,          \* the guids of groups, of which those without members are unused
    FirstMembers,   \* the members of every group at first
    MaxGroupSize,   \* 5 in the code
    None,
    MaxProposals,   \* bound: proposals
    MaxRequests,    \* bound: what the players do, except for answers and entering a group
    MaxWaiting      \* bound: messages to the queue that wait

Owner == Player \cup Group

ASSUME LFGAssumption ==
    /\ IsFiniteSet(Player) /\ IsFiniteSet(Group)
    /\ Player \cap Group = {} /\ None \notin Owner
    /\ FirstMembers \in [Group -> SUBSET Player]
    /\ \A g, h \in Group : g # h => FirstMembers[g] \cap FirstMembers[h] = {}
    /\ MaxGroupSize \in Nat
    /\ {MaxProposals, MaxRequests, MaxWaiting} \subseteq Nat

VARIABLES
    data,       \* m_queueData: the entry of every owner, None without one
    proposals,  \* m_proposals, None for the numbers that are not used
    step,       \* where the queue thread is in LFGQueue::Update
    todo,       \* the proposals that this Update has not looked at yet
    toQueue,    \* the messages of the world and the map threads to the queue
    toWorld,    \* of the messages to the world, those that make a group
    world,      \* members of the groups, who is online, and who thinks he is queued
    crashed,    \* an assertion of the world failed
    did         \* history: bounded requests, guids of groups, answers to every proposal

vars == <<data, proposals, step, todo, toQueue, toWorld, world, crashed, did>>
queueVars == <<data, proposals, step, todo>>

Id == 1..MaxProposals
States == {"rolecheck", "queued", "proposal", "failed"}    \* m_state; other values are as the first
Checks == {"initial", "other"}      \* m_roleCheckState: LFG_ROLECHECK_INITIALITING or not

\* LFGQueueData.  None is the owner and leader of an entry that operator[] made.
Entries ==
    [owner : Owner \cup {None}, leader : Player \cup {None},
     players : SUBSET Player,   \* m_playerInfoPerGuid
     ready : SUBSET Player,     \* of these, who has chosen a role
     state : States, check : Checks,
     late : BOOLEAN]            \* m_cancelTime is over

Answered == UNION {[S -> {"pending", "agree", "deny"}] : S \in SUBSET Player}

NoAnswers == [p \in {} |-> "pending"]

\* LfgProposal: of one queue entry, for the players it had.
Proposals == [owner : Owner, answers : Answered, late : BOOLEAN]

ASSUME NoneIsNoRecord == None \notin Entries \cup Proposals

GroupsOf(p) == {g \in Group : p \in world.members[g]}

Messages ==
    [op : {"add"}, entry : Entries] \cup [op : {"remove"}, owner : Owner]
    \cup [op : {"roles"}, owner : Group, who : Player, some : BOOLEAN]
    \cup [op : {"answer"}, who : Player, id : Id, agree : BOOLEAN]
    \cup [op : {"logout"}, owner : Owner, who : Player]

TypeOK ==
    /\ data \in [Owner -> Entries \cup {None}]
    /\ \A o \in Owner : data[o] # None =>
          data[o].owner \in {o, None} /\ data[o].ready \subseteq data[o].players
    /\ proposals \in [Id -> Proposals \cup {None}]
    /\ step \in {"messages", "settle", "sweep"}
    /\ todo \subseteq Id
    /\ toQueue \in Seq(Messages)
    /\ toWorld \in Seq([id : Id, players : SUBSET Player])
    /\ world \in [members : [Group -> SUBSET Player], online : SUBSET Player,
                  queued : SUBSET Player]
    /\ \A g, h \in Group : g # h => world.members[g] \cap world.members[h] = {}
    /\ crashed \in BOOLEAN
    /\ did \in [requests : 0..MaxRequests,
                count : 0..MaxProposals, groups : SUBSET Group, said : [Id -> Answered]]

\* LFGData of a player has no initial state: it may read as LFG_STATE_QUEUED.
Init ==
    /\ data = [o \in Owner |-> None]
    /\ proposals = [i \in Id |-> None]
    /\ step = "messages" /\ todo = {}
    /\ toQueue = <<>> /\ toWorld = <<>>
    /\ \E q \in SUBSET Player :
          world = [members |-> FirstMembers, online |-> Player, queued |-> q]
    /\ crashed = FALSE
    /\ did = [requests |-> 0, count |-> 0,
             groups |-> {g \in Group : FirstMembers[g] # {}}, said |-> [i \in Id |-> NoAnswers]]

-----------------------------------------------------------------------------
(* The queue thread: messages.  A definition whose name ends in a remark   *)
(* after "__" is a defect the properties are tried against; no action uses *)
(* it.                                                                      *)

\* What operator[] of m_queueData makes of a missing entry: LFGQueueData() leaves
\* m_state and m_roleCheckState uninitialized.
Fresh == {[owner |-> None, leader |-> None, players |-> {}, ready |-> {},
           state |-> s, check |-> c, late |-> TRUE] : s \in States, c \in Checks}

\* m_queueData[owner].
Found(o) == IF data[o] = None THEN Fresh ELSE {data[o]}

\* UpdateRoleCheck without abort, for a player and whether he has a role: the
\* entries it may leave, since the roles of all together may be wrong.
UpdateRoleCheck(e, who, some) ==
    LET players == e.players \cup {who}
        ready == e.ready \cup {who}
        Checked(state) ==
            [e EXCEPT !.players = players, !.ready = ready, !.state = state,
                      !.check = "other"]
    IN  IF ~some \/ e.players = {} THEN {[e EXCEPT !.state = "failed", !.check = "other"]}
        ELSE IF ready = players THEN {Checked("queued"), Checked("failed")}
        ELSE IF e.check = "initial"
             THEN {[e EXCEPT !.players = players, !.ready = ready]}
             ELSE {[e EXCEPT !.players = players, !.ready = ready, !.state = "failed"]}

\* AddToQueue: emplace keeps an entry that is there.  The leader of the entry
\* has his role; the one made by operator[] has no leader, and no player with a role.
AddToQueue(new) ==
    LET o == new.owner
        e == IF data[o] = None THEN new ELSE data[o]
    IN  IF new.check # "initial" THEN data' = [data EXCEPT ![o] = e]
        ELSE \E r \in UpdateRoleCheck(e, e.leader, e.leader \in e.ready) :
                data' = [data EXCEPT ![o] = r]

RemoveFromQueue(o) == data' = [data EXCEPT ![o] = None]

SetPlayerRoles(m) ==
    IF data[m.owner] = None THEN UNCHANGED data
    ELSE \E r \in UpdateRoleCheck(data[m.owner], m.who, m.some) :
            data' = [data EXCEPT ![m.owner] = IF r.state = "failed" THEN None ELSE r]

\* UpdateProposal, which looks the queue entry up to tell its players.
UpdateProposal(m) ==
    IF proposals[m.id] = None THEN UNCHANGED <<data, proposals>>
    ELSE LET o == proposals[m.id].owner IN
         /\ proposals' = [proposals EXCEPT ![m.id].answers[m.who] =
                             IF m.agree THEN "agree" ELSE "deny"]
         /\ \E e \in Found(o) : data' = [data EXCEPT ![o] = e]

\* OnPlayerLogout: whatever the state of the entry, it goes.
OnPlayerLogout(m) == RemoveFromQueue(m.owner)

RunMessage ==
    LET m == Head(toQueue) IN
    /\ step = "messages"
    /\ toQueue # <<>>
    /\ toQueue' = Tail(toQueue)
    /\ IF m.op = "answer" THEN UpdateProposal(m)
       ELSE /\ CASE m.op = "add" -> AddToQueue(m.entry)
                 [] m.op = "remove" -> RemoveFromQueue(m.owner)
                 [] m.op = "roles" -> SetPlayerRoles(m)
                 [] m.op = "logout" -> OnPlayerLogout(m)
            /\ UNCHANGED proposals
    /\ UNCHANGED <<step, todo, toWorld, world, crashed, did>>

-----------------------------------------------------------------------------
(* The queue thread: the rest of LFGQueue::Update.                         *)

Overdue(e) == e.check = "initial" /\ e.late

CanPop(e) == e # None /\ e.state = "queued" /\ Cardinality(e.players) = MaxGroupSize

NewProposal(o) ==
    [owner |-> o, answers |-> [p \in data[o].players |-> "pending"], late |-> FALSE]

\* All messages that are there are run first; those that come meanwhile may as well
\* come later.  Role checks that are overdue end with their entries.  Then every
\* full party that is queued gets a proposal: PopQueue, in any order.
Popped(e) == [e EXCEPT !.state = "proposal"]

BeginUpdate ==
    LET kept == {o \in Owner : data[o] # None /\ ~Overdue(data[o])}
        pops == {o \in kept : CanPop(data[o])}
    IN  /\ step = "messages" /\ toQueue = <<>>
        /\ did.count + Cardinality(pops) <= MaxProposals
        /\ data' = [o \in Owner |->
                       IF o \notin kept THEN None
                       ELSE IF o \in pops THEN Popped(data[o]) ELSE data[o]]
        /\ \E s \in SetToSeqs(pops) :
              LET New(i) == i - did.count \in 1..Len(s)
                  Made(i) == NewProposal(s[i - did.count])
              IN  /\ proposals' = [i \in Id |-> IF New(i) THEN Made(i) ELSE proposals[i]]
                  /\ did' = [did EXCEPT !.count = @ + Len(s),
                                        !.said = [i \in Id |-> IF New(i) THEN Made(i).answers
                                                               ELSE @[i]]]
        /\ step' = "settle"
        /\ todo' = {i \in Id : proposals'[i] # None}
        /\ UNCHANGED <<toQueue, toWorld, world, crashed>>

Answers(i, a) == {p \in DOMAIN proposals[i].answers : proposals[i].answers[p] = a}

\* FailProposal: somebody refused or did not answer, so his party is removed; an
\* entry that is not of this party is not.
FailProposal__Forgets(i) ==
    LET o == proposals[i].owner IN
    /\ \E e \in Found(o) :
          data' = [data EXCEPT ![o] = IF e.owner = o THEN e ELSE [e EXCEPT !.state = "queued"]]
    /\ UNCHANGED toWorld

FailProposal(i) ==
    LET o == proposals[i].owner IN
    /\ \E e \in Found(o) :
          data' = [data EXCEPT ![o] =
                      [e EXCEPT !.state = IF e.owner = o THEN "failed" ELSE "queued"]]
    /\ UNCHANGED toWorld

\* AcceptProposal.
AcceptProposal(i) ==
    /\ RemoveFromQueue(proposals[i].owner)
    /\ toWorld' = Append(toWorld, [id |-> i, players |-> DOMAIN proposals[i].answers])

\* LfgProposal::UpdateProposal: answers count when all are there.
Outcome__Majority(i) ==
    IF Cardinality(Answers(i, "agree")) > Cardinality(Answers(i, "deny")) THEN "accept"
    ELSE IF Answers(i, "pending") = {} \/ proposals[i].late THEN "fail" ELSE "open"

Outcome__NoDeadline(i) ==
    IF Answers(i, "pending") # {} THEN "open"
    ELSE IF Answers(i, "deny") # {} THEN "fail" ELSE "accept"

Outcome(i) ==
    IF Answers(i, "pending") # {} THEN IF proposals[i].late THEN "fail" ELSE "open"
    ELSE IF Answers(i, "deny") # {} THEN "fail" ELSE "accept"

Settle == \E i \in todo :
    /\ step = "settle"
    /\ \A j \in todo : i <= j
    /\ todo' = todo \ {i}
    /\ CASE Outcome(i) = "accept" -> AcceptProposal(i)
         [] Outcome(i) = "fail" -> FailProposal(i)
         [] Outcome(i) = "open" -> UNCHANGED <<data, toWorld>>
    /\ proposals' = [proposals EXCEPT ![i] = IF Outcome(i) = "open" THEN @ ELSE None]
    /\ UNCHANGED <<step, toQueue, world, crashed, did>>

EndUpdate ==
    /\ step = "settle"
    /\ todo = {}
    /\ data' = [o \in Owner |-> IF data[o] = None \/ data[o].state = "failed"
                                THEN None ELSE data[o]]
    /\ step' = "messages"
    /\ UNCHANGED <<proposals, todo, toQueue, toWorld, world, crashed, did>>

\* 45 seconds are over.
CheckLate(o) ==
    /\ data[o] # None
    /\ data[o].check = "initial" /\ ~data[o].late
    /\ data' = [data EXCEPT ![o].late = TRUE]
    /\ UNCHANGED <<proposals, step, todo, toQueue, toWorld, world, crashed, did>>

ProposalLate(i) ==
    /\ proposals[i] # None
    /\ ~proposals[i].late
    /\ proposals' = [proposals EXCEPT ![i].late = TRUE]
    /\ UNCHANGED <<data, step, todo, toQueue, toWorld, world, crashed, did>>

-----------------------------------------------------------------------------
(* The world and the map threads: requests of the players.                 *)

\* The guid a request is about: of the group, or of a player without one.
OwnerOf(p) == IF GroupsOf(p) = {} THEN p
              ELSE CHOOSE g \in GroupsOf(p) : TRUE

\* Group::RemoveMember of the players S, one after the other: a group that would be
\* left with fewer than two members is disbanded.
RemoveMember__Stays(members, S) == members
RemoveMember(members, S) ==
    [g \in Group |-> IF S \cap members[g] # {} /\ Cardinality(members[g] \ S) < 2 THEN {}
                     ELSE members[g] \ S]

AddMessage(m) == toQueue' = Append(toQueue, m)

AddJoin(remove, entry) ==
    toQueue' = toQueue \o remove \o <<[op |-> "add", entry |-> entry]>>

CanAsk(p) == ~crashed /\ Len(toQueue) < MaxWaiting /\ p \in world.online
Counted == did.requests < MaxRequests /\ did' = [did EXCEPT !.requests = @ + 1]

\* JoinLfg of a party, all of whose members must be online.  The state of the group's
\* LFGData is never assigned, nor initialized: when it reads LFG_STATE_QUEUED, a removal
\* goes before the entry, which is LeaveLfg and then this action.
JoinLfgParty(p) ==
    LET g == OwnerOf(p)
        all == world.members[g]
    IN  /\ CanAsk(p) /\ g \in Group
        /\ all \subseteq world.online /\ Cardinality(all) <= MaxGroupSize
        /\ Counted
        /\ AddJoin(<<>>, [owner |-> g, leader |-> p, players |-> all, ready |-> {p},
                          state |-> "rolecheck", check |-> "initial", late |-> FALSE])
        /\ world' = [world EXCEPT !.queued = @ \cup all]
        /\ UNCHANGED <<queueVars, toWorld, crashed>>

\* JoinLfg of a single player: m_roleCheckState is not initialized, m_cancelTime 0.
JoinLfgAlone(p) ==
    /\ CanAsk(p) /\ OwnerOf(p) = p
    /\ Counted
    /\ \E c \in Checks :
          AddJoin(IF p \in world.queued THEN <<[op |-> "remove", owner |-> p]>> ELSE <<>>,
                  [owner |-> p, leader |-> None, players |-> {p}, ready |-> {p},
                   state |-> "queued", check |-> c, late |-> TRUE])
    /\ world' = [world EXCEPT !.queued = @ \cup {p}]
    /\ UNCHANGED <<queueVars, toWorld, crashed>>

\* JoinLfg of a single player that is refused: he has been removed by then, and
\* still thinks that he is queued.
JoinLfgRefused(p) ==
    /\ CanAsk(p) /\ OwnerOf(p) = p /\ p \in world.queued
    /\ Counted
    /\ AddMessage([op |-> "remove", owner |-> p])
    /\ UNCHANGED <<queueVars, toWorld, world, crashed>>

\* In a group the members go on thinking that they are queued.
LeaveLfg(p) ==
    /\ CanAsk(p)
    /\ Counted
    /\ AddMessage([op |-> "remove", owner |-> OwnerOf(p)])
    /\ world' = [world EXCEPT !.queued = @ \ {OwnerOf(p)}]
    /\ UNCHANGED <<queueVars, toWorld, crashed>>

HandleLfgSetRoles(p) ==
    /\ CanAsk(p) /\ OwnerOf(p) \in Group
    /\ Counted
    /\ \E some \in BOOLEAN :
          AddMessage([op |-> "roles", owner |-> OwnerOf(p), who |-> p, some |-> some])
    /\ UNCHANGED <<queueVars, toWorld, world, crashed>>

\* A client answers once, if it was asked, and maybe too late.  The code does not look
\* who answers, or how often: what else could be sent is left out.
HandleLfgProposalResult(p) == \E i \in 1..did.count, agree \in BOOLEAN :
    /\ CanAsk(p)
    /\ p \in DOMAIN did.said[i] /\ did.said[i][p] = "pending"
    /\ did' = [did EXCEPT !.said[i][p] = IF agree THEN "agree" ELSE "deny"]
    /\ AddMessage([op |-> "answer", who |-> p, id |-> i, agree |-> agree])
    /\ UNCHANGED <<queueVars, toWorld, world, crashed>>

\* LogoutPlayer: only with the connection up does he leave his group.
LogoutPlayer(p) == \E connected \in BOOLEAN :
    /\ CanAsk(p)
    /\ Counted
    /\ IF p \in world.queued
       THEN AddMessage([op |-> "logout", owner |-> OwnerOf(p), who |-> p])
       ELSE UNCHANGED toQueue
    /\ world' = [world EXCEPT !.online = @ \ {p}, !.queued = @ \ {p},
                              !.members = IF connected THEN RemoveMember(@, {p}) ELSE @]
    /\ UNCHANGED <<queueVars, toWorld, crashed>>

\* The new Player has an LFGData whose state is not initialized.
HandlePlayerLogin(p) ==
    /\ ~crashed /\ p \notin world.online
    /\ Counted
    /\ \E q \in {{}, {p}} :
          world' = [world EXCEPT !.online = @ \cup {p}, !.queued = @ \cup q]
    /\ UNCHANGED <<queueVars, toQueue, toWorld, crashed>>

\* Leaving a group, or accepting an invitation to one: the dungeon finder is not told.
LeaveGroup(p) ==
    /\ CanAsk(p) /\ OwnerOf(p) \in Group
    /\ Counted
    /\ world' = [world EXCEPT !.members = RemoveMember(@, {p})]
    /\ UNCHANGED <<queueVars, toQueue, toWorld, crashed>>

AcceptInvitation(p) == \E g \in Group :
    /\ CanAsk(p) /\ OwnerOf(p) = p
    /\ world.members[g] # {} /\ Cardinality(world.members[g]) < MaxGroupSize
    /\ world' = [world EXCEPT !.members[g] = @ \cup {p}]
    /\ UNCHANGED <<queueVars, toQueue, toWorld, crashed, did>>

-----------------------------------------------------------------------------
(* The world thread: the message of AcceptProposal.                        *)

\* Those who are online leave their groups and make a new one.  With nobody online
\* there is no group, which is asserted.
RunWorldMessage ==
    LET there == Head(toWorld).players \cap world.online
    IN  /\ ~crashed /\ toWorld # <<>>
        /\ toWorld' = Tail(toWorld)
        /\ IF there = {} THEN crashed' = TRUE /\ UNCHANGED <<world, did>>
           ELSE \E g \in Group \ did.groups :
                   /\ world' = [world EXCEPT !.members = [RemoveMember(@, there) EXCEPT ![g] = there]]
                   /\ did' = [did EXCEPT !.groups = @ \cup {g}]
                   /\ UNCHANGED crashed
        /\ UNCHANGED <<queueVars, toQueue>>

Asks(p) ==
    \/ JoinLfgParty(p) \/ JoinLfgAlone(p) \/ JoinLfgRefused(p) \/ LeaveLfg(p)
    \/ HandleLfgSetRoles(p) \/ HandleLfgProposalResult(p)
    \/ LogoutPlayer(p) \/ HandlePlayerLogin(p) \/ LeaveGroup(p) \/ AcceptInvitation(p)

QueueThread == RunMessage \/ BeginUpdate \/ Settle \/ EndUpdate

TimePasses == (\E o \in Owner : CheckLate(o)) \/ (\E i \in Id : ProposalLate(i))

Next ==
    \/ QueueThread
    \/ TimePasses
    \/ \E p \in Player : Asks(p)
    \/ RunWorldMessage

Spec == Init /\ [][Next]_vars

\* LFGQueue::Update is a loop on its own thread, and time passes.
SpecLive ==
    /\ Spec
    /\ WF_vars(QueueThread)
    /\ WF_vars(TimePasses)

-----------------------------------------------------------------------------
(* Properties.                                                             *)

\* Nobody goes to a dungeon unasked: every player whom the world is told to put into
\* the new group has agreed to that very proposal, however parties, answers and
\* deadlines were interleaved.
Consent == \A k \in 1..Len(toWorld) : \A p \in toWorld[k].players :
              did.said[toWorld[k].id][p] = "agree"

\* Nobody waits for a proposal that is over: the entry of a party that is in
\* LFG_STATE_PROPOSAL has one that is open, since nothing else gets it out of that
\* state; also when the party joined again, or failed one of two proposals.
ProposalBacked == \A o \in Owner :
    data[o] # None /\ data[o].owner = o /\ data[o].state = "proposal"
        => \E i \in Id : proposals[i] # None /\ proposals[i].owner = o

\* A role check and a proposal come to an end, also when players fall silent,
\* leave, log out or lose their entry meanwhile (the deadlines of
\* LFGQueue::Update and LfgProposal::UpdateProposal).
DeadlinesEndIt ==
    /\ \A g \in Group : (data[g] # None /\ data[g].check = "initial")
                          ~> (data[g] = None \/ data[g].check # "initial")
    /\ \A i \in Id : (proposals[i] # None) ~> (proposals[i] = None)

\* "MANGOS_ASSERT(grp)" (LFGQueue.cpp:559): the message that makes the group of an
\* accepted proposal finds somebody online.
GroupMade == ~crashed

\* "rolecheck makes sure integrity of correct group is held" (LFGQueue.cpp:142): a
\* queued party that is about to get a proposal has the members it has in the world.
GroupIntegrity == \A g \in Group :
    step = "messages" /\ toQueue = <<>> /\ CanPop(data[g])
        => data[g].players = world.members[g]

\* "continue being queued - did nothing wrong" (LFGQueue.cpp:394): what goes on being
\* queued after a failed proposal has been queued before, and belongs to somebody.
QueuedForSomebody == [][\A o \in Owner :
    step = "settle" /\ data'[o] # None /\ data'[o].state = "queued"
        => data'[o].owner = o]_vars
=============================================================================
