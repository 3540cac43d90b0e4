---------------------------- MODULE LFGQueue_proofs ----------------------------
(***************************************************************************)
(* Proofs about LFGQueue, for any players, groups, sizes and bounds.       *)
(***************************************************************************)
EXTENDS LFGQueue, FiniteSetTheorems, SequenceTheorems, TLAPS

\* What the messages to the queue say: a party that joins has no proposal, and an
\* answer is the one that its player gave.
Letter(m) ==
    /\ m.op = "add" => /\ m.entry.owner \in Owner
                       /\ m.entry.ready \subseteq m.entry.players
                       /\ m.entry.state \in {"rolecheck", "queued"}
    /\ m.op = "answer" => /\ m.id <= did.count
                          /\ m.who \in DOMAIN did.said[m.id]
                          /\ did.said[m.id][m.who] = IF m.agree THEN "agree" ELSE "deny"
Letters == \A k \in 1..Len(toQueue) : Letter(toQueue[k])

\* A proposal knows of every one of its players what he said, or does not know yet.
Recorded == \A i \in Id : proposals[i] # None =>
    /\ i <= did.count
    /\ DOMAIN did.said[i] = DOMAIN proposals[i].answers
    /\ \A p \in DOMAIN did.said[i] : proposals[i].answers[p] \in {"pending", did.said[i][p]}

Willing(m) ==
    /\ m.id <= did.count
    /\ \A p \in m.players : p \in DOMAIN did.said[m.id] /\ did.said[m.id][p] = "agree"
Agreed == \A k \in 1..Len(toWorld) : Willing(toWorld[k])

Looking == \A i \in todo : proposals[i] # None

Inductive ==
    /\ TypeOK
    /\ Letters
    /\ Recorded
    /\ Agreed
    /\ Looking
    /\ ProposalBacked

-----------------------------------------------------------------------------
(* Entries of the queue.                                                   *)

\* e may be the entry of o.
EntryOf(o, e) == e \in Entries /\ e.owner \in {o, None} /\ e.ready \subseteq e.players

\* A role check keeps the owner of an entry, and puts none into a proposal.
LEMMA Checked ==
    ASSUME NEW o \in Owner, NEW e, EntryOf(o, e), NEW who, NEW some \in BOOLEAN,
           some => who \in Player, NEW r \in UpdateRoleCheck(e, who, some)
    PROVE  /\ EntryOf(o, r)
           /\ r.owner = e.owner
           /\ r.state = "proposal" => e.state = "proposal"
<1> DEFINE players == e.players \cup {who}
           ready == e.ready \cup {who}
<1>1. e \in Entries /\ e.ready \subseteq e.players /\ e.owner \in {o, None}
  BY DEF EntryOf
<1>2. CASE r = [e EXCEPT !.state = "failed", !.check = "other"]
  BY <1>1, <1>2 DEF EntryOf, Entries, States, Checks
<1>3. ASSUME NEW state \in {"queued", "failed"}, some,
             r = [e EXCEPT !.players = players, !.ready = ready, !.state = state,
                           !.check = "other"]
      PROVE  EntryOf(o, r) /\ r.owner = e.owner /\ r.state # "proposal"
  BY <1>1, <1>3 DEF EntryOf, Entries, States, Checks
<1>4. CASE some /\ r = [e EXCEPT !.players = players, !.ready = ready]
  BY <1>1, <1>4 DEF EntryOf, Entries, States, Checks
<1>5. CASE some /\ r = [e EXCEPT !.players = players, !.ready = ready, !.state = "failed"]
  BY <1>1, <1>5 DEF EntryOf, Entries, States, Checks
<1> QED
  BY <1>2, <1>3, <1>4, <1>5 DEF UpdateRoleCheck

\* What operator[] finds or makes.
LEMMA FoundEntry ==
    ASSUME TypeOK, NEW o \in Owner, NEW e \in Found(o)
    PROVE  /\ EntryOf(o, e)
           /\ data[o] # None => e = data[o]
           /\ data[o] = None => e.owner = None
<1>1. CASE data[o] = None
  <2>1. PICK s \in States, c \in Checks :
          e = [owner |-> None, leader |-> None, players |-> {}, ready |-> {},
               state |-> s, check |-> c, late |-> TRUE]
    BY <1>1 DEF Found, Fresh
  <2> QED
    BY <1>1, <2>1 DEF EntryOf, Entries
<1>2. CASE data[o] # None
  BY <1>2 DEF Found, TypeOK, EntryOf
<1> QED
  BY <1>1, <1>2

-----------------------------------------------------------------------------
(* Messages to the queue.                                                  *)

\* e may become the entry of o, and puts nobody into a proposal.
Safe(o, e) ==
    \/ e = None
    \/ /\ EntryOf(o, e)
       /\ e.owner = o /\ e.state = "proposal"
             => data[o] # None /\ data[o].owner = o /\ data[o].state = "proposal"

LEMMA OldEntry ==
    ASSUME TypeOK, NEW o \in Owner
    PROVE  Safe(o, data[o])
BY DEF TypeOK, Safe, EntryOf

LEMMA Posted ==
    ASSUME TypeOK, toQueue # <<>>
    PROVE  /\ Head(toQueue) \in Messages /\ Tail(toQueue) \in Seq(Messages)
           /\ Letters => Letter(Head(toQueue))
           /\ Len(Tail(toQueue)) = Len(toQueue) - 1 /\ Len(toQueue) \in Nat
           /\ \A k \in 1..Len(toQueue) - 1 : Tail(toQueue)[k] = toQueue[k + 1]
<1>1. toQueue \in Seq(Messages) /\ Len(toQueue) \in Nat /\ Len(toQueue) > 0
  BY DEF TypeOK
<1>2. Head(toQueue) = toQueue[1] /\ 1 \in 1..Len(toQueue)
  BY <1>1
<1> QED
  BY <1>1, <1>2 DEF Letters

LEMMA MessageData ==
    ASSUME TypeOK, Letters, RunMessage
    PROVE  \E o \in Owner, e \in {None} \cup Entries :
              data' = [data EXCEPT ![o] = e] /\ Safe(o, e)
<1> DEFINE m == Head(toQueue)
<1>1. m \in Messages /\ Letter(m)
  BY Posted DEF RunMessage
<1>2. \A o \in Owner : data[o] \in {None} \cup Entries /\ data = [data EXCEPT ![o] = data[o]]
  BY DEF TypeOK
<1>3. CASE m.op = "add"
  <2> DEFINE new == m.entry
             o == new.owner
             old == IF data[o] = None THEN new ELSE data[o]
  <2>1. /\ new \in Entries /\ o \in Owner /\ new.ready \subseteq new.players
        /\ new.state # "proposal"
    BY <1>1, <1>3 DEF Letter, Messages
  <2>2. EntryOf(o, old) /\ Safe(o, old)
    <3>1. CASE data[o] = None
      BY <2>1, <3>1 DEF EntryOf, Safe
    <3>2. CASE data[o] # None
      BY <2>1, <3>2, OldEntry DEF TypeOK, EntryOf
    <3> QED
      BY <3>1, <3>2
  <2>3. CASE data' = [data EXCEPT ![o] = old]
    BY <2>1, <2>2, <2>3 DEF EntryOf
  <2>4. ASSUME NEW some \in BOOLEAN, some => old.leader \in Player,
               NEW r \in UpdateRoleCheck(old, old.leader, some)
        PROVE  Safe(o, r) /\ r \in Entries
    <3>1. old.state # "proposal" \/ (old = data[o] /\ data[o] # None)
      BY <2>1
    <3> HIDE DEF old, o, new
    <3>2. /\ EntryOf(o, r) /\ r.owner = old.owner
          /\ r.state = "proposal" => old.state = "proposal"
      BY <2>1, <2>2, <2>4, Checked
    <3> QED
      BY <3>1, <3>2 DEF Safe, EntryOf
  <2>5. old.leader \in old.ready => old.leader \in Player
    BY <2>2 DEF EntryOf, Entries
  <2>6. CASE new.check # "initial"
    BY <1>3, <2>3, <2>6 DEF RunMessage, AddToQueue
  <2>7. ASSUME new.check = "initial"
        PROVE  \E r : Safe(o, r) /\ r \in Entries /\ data' = [data EXCEPT ![o] = r]
    <3>1. AddToQueue(new)
      BY <1>3 DEF RunMessage
    <3>2. CASE old.leader \in old.ready
      <4>1. PICK r \in UpdateRoleCheck(old, old.leader, TRUE) : data' = [data EXCEPT ![o] = r]
        BY <2>7, <3>1, <3>2 DEF AddToQueue, UpdateRoleCheck
      <4> QED
        BY <2>4, <2>5, <3>2, <4>1
    <3>3. CASE old.leader \notin old.ready
      <4>1. PICK r \in UpdateRoleCheck(old, old.leader, FALSE) : data' = [data EXCEPT ![o] = r]
        BY <2>7, <3>1, <3>3 DEF AddToQueue, UpdateRoleCheck
      <4> QED
        BY <2>4, <4>1
    <3> QED
      BY <3>2, <3>3
  <2> QED
    BY <2>1, <2>6, <2>7
<1>4. CASE m.op = "remove" \/ m.op = "logout"
  <2>1. m.owner \in Owner /\ data' = [data EXCEPT ![m.owner] = None]
    BY <1>1, <1>4 DEF RunMessage, Messages, RemoveFromQueue, OnPlayerLogout
  <2> QED
    BY <2>1 DEF Safe
<1>5. CASE m.op = "roles"
  <2> DEFINE o == m.owner
  <2>1. o \in Owner /\ m.who \in Player /\ m.some \in BOOLEAN /\ SetPlayerRoles(m)
    BY <1>1, <1>5 DEF RunMessage, Messages, Owner
  <2>2. CASE data[o] = None
    BY <1>2, <2>1, <2>2, OldEntry DEF SetPlayerRoles
  <2>3. ASSUME data[o] # None, NEW r \in UpdateRoleCheck(data[o], m.who, m.some),
               data' = [data EXCEPT ![o] = IF r.state = "failed" THEN None ELSE r]
        PROVE  Safe(o, r) /\ r \in Entries
    <3>1. EntryOf(o, data[o])
      BY <2>1, <2>3 DEF TypeOK, EntryOf
    <3>2. /\ EntryOf(o, r) /\ r.owner = data[o].owner
          /\ r.state = "proposal" => data[o].state = "proposal"
      BY <2>1, <2>3, <3>1, Checked
    <3> QED
      BY <2>3, <3>2 DEF Safe, EntryOf
  <2>4. Safe(o, None)
    BY DEF Safe
  <2> QED
    BY <2>1, <2>2, <2>3, <2>4 DEF SetPlayerRoles
<1>6. CASE m.op = "answer"
  <2>1. m.id \in Id /\ m.who \in Owner /\ UpdateProposal(m)
    BY <1>1, <1>6 DEF RunMessage, Messages, Owner
  <2>2. CASE proposals[m.id] = None
    BY <1>2, <2>1, <2>2, OldEntry DEF UpdateProposal
  <2>3. ASSUME proposals[m.id] # None, NEW e \in Found(proposals[m.id].owner),
               data' = [data EXCEPT ![proposals[m.id].owner] = e]
        PROVE  Safe(proposals[m.id].owner, e) /\ e \in Entries
    <3>1. proposals[m.id].owner \in Owner
      BY <2>1, <2>3 DEF TypeOK, Proposals
    <3>2. /\ EntryOf(proposals[m.id].owner, e)
          /\ data[proposals[m.id].owner] = None => e.owner = None
          /\ data[proposals[m.id].owner] # None => e = data[proposals[m.id].owner]
      BY <2>3, <3>1, FoundEntry
    <3>3. None \notin Owner
      BY LFGAssumption DEF Owner
    <3> QED
      BY <3>1, <3>2, <3>3 DEF Safe, EntryOf
  <2>4. proposals[m.id] # None => proposals[m.id].owner \in Owner
    BY <2>1 DEF TypeOK, Proposals
  <2> QED
    BY <2>1, <2>2, <2>3, <2>4 DEF UpdateProposal
<1> QED
  BY <1>1, <1>3, <1>4, <1>5, <1>6 DEF Messages

-----------------------------------------------------------------------------
(* The queue thread keeps the types.                                       *)

LEMMA Put ==
    ASSUME TypeOK, NEW o \in Owner, NEW e \in {None} \cup Entries, Safe(o, e),
           data' = [data EXCEPT ![o] = e]
    PROVE  /\ data' \in [Owner -> Entries \cup {None}]
           /\ \A u \in Owner : data'[u] # None =>
                 data'[u].owner \in {u, None} /\ data'[u].ready \subseteq data'[u].players
<1>1. ASSUME NEW u \in Owner, data'[u] # None
      PROVE  data'[u].owner \in {u, None} /\ data'[u].ready \subseteq data'[u].players
  <2>1. CASE u = o
    BY <1>1, <2>1 DEF Safe, EntryOf, TypeOK
  <2>2. CASE u # o
    BY <1>1, <2>2 DEF TypeOK
  <2> QED
    BY <2>1, <2>2
<1> QED
  BY <1>1 DEF TypeOK

LEMMA RunMessageType ==
    ASSUME TypeOK, Letters, RunMessage
    PROVE  TypeOK'
<1> DEFINE m == Head(toQueue)
<1>1. PICK o \in Owner, e \in {None} \cup Entries : data' = [data EXCEPT ![o] = e] /\ Safe(o, e)
  BY MessageData
<1>2. m \in Messages /\ toQueue' \in Seq(Messages)
  BY Posted DEF RunMessage
<1>3. proposals' \in [Id -> Proposals \cup {None}]
  <2>1. CASE UNCHANGED proposals
    BY <2>1 DEF TypeOK
  <2>2. ASSUME m.op = "answer", proposals[m.id] # None,
               proposals' = [proposals EXCEPT ![m.id].answers[m.who] =
                                IF m.agree THEN "agree" ELSE "deny"]
        PROVE  proposals' \in [Id -> Proposals \cup {None}]
    <3>1. m.id \in Id /\ proposals[m.id] \in Proposals
      BY <1>2, <2>2 DEF Messages, TypeOK
    <3>2. PICK S \in SUBSET Player :
             proposals[m.id].answers \in [S -> {"pending", "agree", "deny"}]
      BY <3>1 DEF Proposals, Answered
    <3> DEFINE new == [proposals[m.id].answers EXCEPT ![m.who] =
                          IF m.agree THEN "agree" ELSE "deny"]
    <3>3. new \in Answered
      BY <3>2 DEF Answered
    <3>4. [proposals[m.id] EXCEPT !.answers = new] \in Proposals
      BY <3>1, <3>3 DEF Proposals
    <3> QED
      BY <2>2, <3>1, <3>4 DEF TypeOK
  <2> QED
    BY <2>1, <2>2 DEF RunMessage, UpdateProposal
<1> QED
  BY <1>1, <1>2, <1>3, Put DEF RunMessage, TypeOK

LEMMA SettleType ==
    ASSUME TypeOK, Looking, Settle
    PROVE  TypeOK'
<1>1. PICK i \in todo :
         /\ todo' = todo \ {i}
         /\ CASE Outcome(i) = "accept" -> AcceptProposal(i)
              [] Outcome(i) = "fail" -> FailProposal(i)
              [] Outcome(i) = "open" -> UNCHANGED <<data, toWorld>>
         /\ proposals' = [proposals EXCEPT ![i] = IF Outcome(i) = "open" THEN @ ELSE None]
  BY DEF Settle
<1>2. i \in Id /\ proposals[i] \in Proposals /\ proposals[i].owner \in Owner
  BY <1>1 DEF TypeOK, Looking, Proposals
<1>3. proposals' \in [Id -> Proposals \cup {None}]
  BY <1>1, <1>2 DEF TypeOK
<1>4. Outcome(i) \in {"accept", "fail", "open"}
  BY DEF Outcome
<1>5. CASE Outcome(i) = "accept"
  <2>1. Safe(proposals[i].owner, None)
    BY DEF Safe
  <2>2. data' = [data EXCEPT ![proposals[i].owner] = None]
    BY <1>1, <1>5 DEF AcceptProposal, RemoveFromQueue
  <2>3. [id |-> i, players |-> DOMAIN proposals[i].answers] \in [id : Id, players : SUBSET Player]
    BY <1>2 DEF Proposals, Answered
  <2>4. toWorld' \in Seq([id : Id, players : SUBSET Player])
    <3>1. toWorld' = Append(toWorld, [id |-> i, players |-> DOMAIN proposals[i].answers])
      BY <1>1, <1>5 DEF AcceptProposal
    <3>2. toWorld \in Seq([id : Id, players : SUBSET Player])
      BY DEF TypeOK
    <3> QED
      BY <2>3, <3>1, <3>2
  <2> QED
    BY <1>1, <1>2, <1>3, <2>1, <2>2, <2>4, Put DEF Settle, TypeOK
<1>6. CASE Outcome(i) = "fail"
  <2> DEFINE o == proposals[i].owner
             Failed(e) == [e EXCEPT !.state = IF e.owner = o THEN "failed" ELSE "queued"]
  <2>1. PICK e \in Found(o) : data' = [data EXCEPT ![o] = Failed(e)] /\ UNCHANGED toWorld
    BY <1>1, <1>6 DEF FailProposal
  <2>2. EntryOf(o, e)
    BY <1>2, <2>1, FoundEntry
  <2>3. EntryOf(o, Failed(e)) /\ Failed(e).state # "proposal"
    BY <2>2 DEF EntryOf, Entries, States
  <2>4. Safe(o, Failed(e)) /\ Failed(e) \in Entries
    BY <2>3 DEF Safe, EntryOf
  <2> HIDE DEF Failed, o
  <2> QED
    BY <1>1, <1>2, <1>3, <2>1, <2>4, Put DEF Settle, TypeOK, o
<1>7. CASE Outcome(i) = "open"
  <2>1. UNCHANGED <<data, toWorld>>
    BY <1>1, <1>7
  <2> QED
    BY <1>1, <1>3, <2>1 DEF Settle, TypeOK
<1> QED
  BY <1>4, <1>5, <1>6, <1>7

LEMMA BoundsNat ==
    /\ MaxProposals \in Nat /\ MaxRequests \in Nat
    /\ Id = 1..MaxProposals
    /\ IsFiniteSet(Owner)
<1>1. IsFiniteSet(Owner)
  BY LFGAssumption, FS_Union DEF Owner
<1> QED
  BY <1>1, LFGAssumption DEF Id

\* The parties that get a proposal, and the order in which they get it.
Pops == {o \in Owner : data[o] # None /\ ~Overdue(data[o]) /\ CanPop(data[o])}

LEMMA BeginUpdateParts ==
    ASSUME TypeOK, BeginUpdate
    PROVE  \E s \in [1..Cardinality(Pops) -> Pops] :
             /\ \A j, k \in 1..Cardinality(Pops) : j # k => s[j] # s[k]
             /\ Len(s) = Cardinality(Pops) /\ Len(s) \in Nat
             /\ did.count \in Nat /\ did.count + Len(s) <= MaxProposals
             /\ did'.count = did.count + Len(s) /\ did'.requests = did.requests
             /\ did'.groups = did.groups
             /\ did'.said \in [Id -> Answered] /\ proposals' \in [Id -> Proposals \cup {None}]
             /\ \A i \in Id :
                   \/ /\ i - did.count \in 1..Len(s)
                      /\ proposals'[i] = NewProposal(s[i - did.count])
                      /\ did'.said[i] = NewProposal(s[i - did.count]).answers
                   \/ /\ i - did.count \notin 1..Len(s)
                      /\ proposals'[i] = proposals[i]
                      /\ did'.said[i] = did.said[i]
<1> DEFINE kept == {o \in Owner : data[o] # None /\ ~Overdue(data[o])}
           pops == {o \in kept : CanPop(data[o])}
<1>1. Pops = pops
  BY DEF Pops
<1>2. IsFiniteSet(Pops) /\ Cardinality(Pops) \in Nat
  <2>1. Pops \subseteq Owner
    BY DEF Pops
  <2> QED
    BY <2>1, BoundsNat, FS_Subset, FS_CardinalityType
<1>3. did.count \in Nat /\ did.count + Cardinality(Pops) <= MaxProposals
  BY <1>1, BoundsNat DEF BeginUpdate, TypeOK
<1>4. PICK s \in SetToSeqs(Pops) :
         LET New(i) == i - did.count \in 1..Len(s)
             Made(i) == NewProposal(s[i - did.count])
         IN  /\ proposals' = [i \in Id |-> IF New(i) THEN Made(i) ELSE proposals[i]]
             /\ did' = [did EXCEPT !.count = @ + Len(s),
                                   !.said = [i \in Id |-> IF New(i) THEN Made(i).answers
                                                          ELSE @[i]]]
  BY <1>1 DEF BeginUpdate
<1>5. /\ s \in [1..Cardinality(Pops) -> Pops]
      /\ \A j, k \in 1..Cardinality(Pops) : j # k => s[j] # s[k]
  BY <1>4 DEF SetToSeqs
<1>6. s \in Seq(Pops) /\ Len(s) = Cardinality(Pops)
  BY <1>2, <1>5
<1>7. \A o \in Pops : NewProposal(o) \in Proposals
  <2>1. ASSUME NEW o \in Pops
        PROVE  NewProposal(o) \in Proposals
    <3>1. o \in Owner /\ data[o] \in Entries
      BY DEF Pops, TypeOK
    <3>2. data[o].players \in SUBSET Player
      BY <3>1 DEF Entries
    <3>3. [p \in data[o].players |-> "pending"] \in Answered
      BY <3>2 DEF Answered
    <3> QED
      BY <3>1, <3>3 DEF NewProposal, Proposals
  <2> QED
    BY <2>1
<1>8. did \in [requests : 0..MaxRequests, count : 0..MaxProposals, groups : SUBSET Group,
               said : [Id -> Answered]]
  BY DEF TypeOK
<1> DEFINE New(i) == i - did.count \in 1..Len(s)
           Made(i) == NewProposal(s[i - did.count])
<1>9. \A i \in Id : New(i) => Made(i) \in Proposals /\ Made(i).answers \in Answered
  <2>1. ASSUME NEW i \in Id, New(i)
        PROVE  s[i - did.count] \in Pops
    BY <1>3, <1>5, <1>6, <2>1, BoundsNat
  <2>2. \A x \in Proposals : x.answers \in Answered
    BY DEF Proposals
  <2> QED
    BY <1>7, <2>1, <2>2
<1>10. /\ did'.count = did.count + Len(s) /\ did'.requests = did.requests
       /\ did'.groups = did.groups
       /\ did'.said = [i \in Id |-> IF New(i) THEN Made(i).answers ELSE did.said[i]]
  BY <1>4, <1>8
<1>11. proposals' = [i \in Id |-> IF New(i) THEN Made(i) ELSE proposals[i]]
  BY <1>4
<1>12. did'.said \in [Id -> Answered]
  <2> HIDE DEF New, Made
  <2> QED
    BY <1>8, <1>9, <1>10
<1>13. proposals' \in [Id -> Proposals \cup {None}]
  <2>1. proposals \in [Id -> Proposals \cup {None}]
    BY DEF TypeOK
  <2> HIDE DEF New, Made
  <2> QED
    BY <1>9, <1>11, <2>1
<1>14. \A i \in Id :
          \/ New(i) /\ proposals'[i] = Made(i) /\ did'.said[i] = Made(i).answers
          \/ ~New(i) /\ proposals'[i] = proposals[i] /\ did'.said[i] = did.said[i]
  <2> HIDE DEF New, Made
  <2> QED
    BY <1>10, <1>11
<1>15. Len(s) \in Nat /\ did.count + Len(s) <= MaxProposals
  BY <1>2, <1>3, <1>6
<1> QED
  BY <1>3, <1>5, <1>6, <1>10, <1>12, <1>13, <1>14, <1>15

LEMMA BeginUpdateType ==
    ASSUME TypeOK, BeginUpdate
    PROVE  /\ TypeOK'
           /\ \A o \in Owner :
                 data'[o] = IF data[o] = None \/ Overdue(data[o]) THEN None
                            ELSE IF o \in Pops THEN Popped(data[o]) ELSE data[o]
<1>1. data' = [o \in Owner |-> IF data[o] = None \/ Overdue(data[o]) THEN None
                               ELSE IF o \in Pops THEN Popped(data[o]) ELSE data[o]]
  BY DEF BeginUpdate, Pops
<1>2. ASSUME NEW o \in Owner
      PROVE  /\ data'[o] \in Entries \cup {None}
             /\ data'[o] # None => /\ data'[o].owner \in {o, None}
                                   /\ data'[o].ready \subseteq data'[o].players
  <2>1. CASE data'[o] \in {None, data[o]}
    BY <2>1 DEF TypeOK
  <2>2. CASE o \in Pops /\ data'[o] = Popped(data[o])
    <3>1. EntryOf(o, data[o])
      BY <2>2 DEF Pops, TypeOK, EntryOf
    <3>2. EntryOf(o, Popped(data[o]))
      BY <3>1 DEF EntryOf, Popped, Entries, States
    <3> QED
      BY <2>2, <3>2 DEF EntryOf
  <2> QED
    BY <1>1, <2>1, <2>2
<1>3. data' \in [Owner -> Entries \cup {None}]
  <2>1. DOMAIN data' = Owner /\ data' = [o \in Owner |-> data'[o]]
    BY <1>1
  <2> QED
    BY <1>2, <2>1
<1>4. did' \in [requests : 0..MaxRequests, count : 0..MaxProposals, groups : SUBSET Group,
                said : [Id -> Answered]]
  <2>1. PICK s : /\ did.count \in Nat /\ Len(s) \in Nat /\ did.count + Len(s) <= MaxProposals
                 /\ did'.count = did.count + Len(s) /\ did'.requests = did.requests
                 /\ did'.groups = did.groups
                 /\ did'.said \in [Id -> Answered]
    BY BeginUpdateParts
  <2>2. /\ did \in [requests : 0..MaxRequests, count : 0..MaxProposals, groups : SUBSET Group,
                    said : [Id -> Answered]]
        /\ \E c, x : did' = [did EXCEPT !.count = c, !.said = x]
    BY DEF TypeOK, BeginUpdate
  <2>3. did'.count \in 0..MaxProposals
    BY <2>1, BoundsNat
  <2> QED
    BY <2>1, <2>2, <2>3
<1>5. proposals' \in [Id -> Proposals \cup {None}]
  BY BeginUpdateParts
<1>6. step' = "settle" /\ todo' \subseteq Id /\ UNCHANGED <<toQueue, toWorld, world, crashed>>
  BY DEF BeginUpdate
<1> QED
  BY <1>1, <1>2, <1>3, <1>4, <1>5, <1>6 DEF TypeOK

LEMMA QueueThreadType ==
    ASSUME TypeOK, Letters, Looking, QueueThread
    PROVE  TypeOK'
<1>1. CASE EndUpdate
  <2>1. data' = [o \in Owner |-> IF data[o] = None \/ data[o].state = "failed" THEN None
                                 ELSE data[o]]
    BY <1>1 DEF EndUpdate
  <2>2. /\ data' \in [Owner -> Entries \cup {None}]
        /\ \A o \in Owner : data'[o] \in {None, data[o]}
    BY <2>1 DEF TypeOK
  <2>3. \A o \in Owner : data'[o] # None =>
           data'[o].owner \in {o, None} /\ data'[o].ready \subseteq data'[o].players
    BY <2>2 DEF TypeOK
  <2> QED
    BY <1>1, <2>2, <2>3 DEF EndUpdate, TypeOK
<1> QED
  BY <1>1, RunMessageType, BeginUpdateType, SettleType DEF QueueThread

LEMMA TimeType ==
    ASSUME TypeOK, TimePasses
    PROVE  TypeOK'
<1>1. ASSUME NEW o \in Owner, CheckLate(o)
      PROVE  TypeOK'
  <2> DEFINE e == [data[o] EXCEPT !.late = TRUE]
  <2>1. data[o] # None /\ data' = [data EXCEPT ![o] = e]
    BY <1>1 DEF CheckLate, TypeOK
  <2>2. Safe(o, e) /\ e \in Entries
    <3>1. EntryOf(o, data[o])
      BY <2>1 DEF TypeOK, EntryOf
    <3>2. EntryOf(o, e) /\ e.owner = data[o].owner /\ e.state = data[o].state
      BY <3>1 DEF EntryOf, Entries
    <3> QED
      BY <2>1, <3>2 DEF Safe, EntryOf
  <2> HIDE DEF e
  <2> QED
    BY <1>1, <2>1, <2>2, Put DEF CheckLate, TypeOK
<1>2. ASSUME NEW i \in Id, ProposalLate(i)
      PROVE  TypeOK'
  <2>1. proposals[i] \in Proposals /\ proposals' = [proposals EXCEPT ![i].late = TRUE]
    BY <1>2 DEF ProposalLate, TypeOK
  <2>2. [proposals[i] EXCEPT !.late = TRUE] \in Proposals
    BY <2>1 DEF Proposals
  <2>3. proposals' \in [Id -> Proposals \cup {None}]
    BY <2>1, <2>2 DEF TypeOK
  <2> QED
    BY <1>2, <2>3 DEF ProposalLate, TypeOK
<1> QED
  BY <1>1, <1>2 DEF TimePasses

-----------------------------------------------------------------------------
(* What has been said stays said.                                          *)

Grows ==
    /\ did.count <= did'.count
    /\ \A i \in Id : i <= did.count =>
          /\ DOMAIN did'.said[i] = DOMAIN did.said[i]
          /\ \A p \in DOMAIN did.said[i] :
                did.said[i][p] # "pending" => did'.said[i][p] = did.said[i][p]

DidType == [requests : 0..MaxRequests, count : 0..MaxProposals, groups : SUBSET Group,
            said : [Id -> Answered]]

LEMMA LetterStays ==
    ASSUME TypeOK, Grows, did'.count \in Nat, NEW m \in Messages, Letter(m)
    PROVE  Letter(m)'
<1>1. CASE m.op = "answer"
  <2>1. m.id \in Id /\ did.count \in Nat
    BY <1>1, BoundsNat DEF Messages, TypeOK
  <2>2. /\ m.id <= did.count
        /\ m.who \in DOMAIN did.said[m.id]
        /\ did.said[m.id][m.who] = IF m.agree THEN "agree" ELSE "deny"
    BY <1>1 DEF Letter
  <2>3. /\ m.id <= did'.count
        /\ m.who \in DOMAIN did'.said[m.id]
        /\ did'.said[m.id][m.who] = IF m.agree THEN "agree" ELSE "deny"
    BY <2>1, <2>2, BoundsNat DEF Grows
  <2> QED
    BY <1>1, <2>3 DEF Letter
<1>2. CASE m.op # "answer"
  BY <1>2 DEF Letter
<1> QED
  BY <1>1, <1>2

LEMMA LettersKept ==
    ASSUME TypeOK, Letters, Grows, did'.count \in Nat, UNCHANGED toQueue
    PROVE  Letters'
<1>1. ASSUME NEW k \in 1..Len(toQueue)
      PROVE  Letter(toQueue[k])'
  <2>1. toQueue[k] \in Messages /\ Letter(toQueue[k])
    BY DEF TypeOK, Letters
  <2>2. \A m \in Messages : Letter(m) => Letter(m)'
    BY LetterStays
  <2> QED
    BY <2>1, <2>2 DEF Letter
<1> QED
  BY <1>1 DEF Letters

LEMMA Sending ==
    ASSUME TypeOK, Letters, Grows, did'.count \in Nat,
           NEW m \in Messages, Letter(m)', toQueue' = Append(toQueue, m)
    PROVE  toQueue' \in Seq(Messages) /\ Letters'
<1>1. /\ toQueue \in Seq(Messages) /\ Len(toQueue) \in Nat
      /\ Len(toQueue') = Len(toQueue) + 1
      /\ \A k \in 1..Len(toQueue) : toQueue'[k] = toQueue[k]
      /\ toQueue'[Len(toQueue) + 1] = m
  BY DEF TypeOK
<1>2. ASSUME NEW k \in 1..Len(toQueue')
      PROVE  Letter(toQueue[k])'
  <2>1. CASE k \in 1..Len(toQueue)
    <3>1. toQueue[k] \in Messages /\ Letter(toQueue[k]) /\ toQueue'[k] = toQueue[k]
      BY <1>1, <2>1 DEF TypeOK, Letters
    <3>2. \A n \in Messages : Letter(n) => Letter(n)'
      BY LetterStays
    <3> QED
      BY <3>1, <3>2 DEF Letter
  <2>2. CASE k = Len(toQueue) + 1
    BY <1>1, <2>2 DEF Letter
  <2> QED
    BY <1>1, <1>2, <2>1, <2>2
<1> QED
  BY <1>1, <1>2 DEF Letters

LEMMA CountedGrows ==
    ASSUME TypeOK, Counted \/ UNCHANGED did
    PROVE  did' \in DidType /\ Grows /\ did'.count \in Nat /\ did'.said = did.said
<1>1. did \in DidType /\ did.requests \in Nat /\ did.count \in Nat
  BY BoundsNat DEF TypeOK, DidType
<1>2. CASE UNCHANGED did
  BY <1>1, <1>2 DEF Grows
<1>3. CASE Counted
  <2>1. did.requests + 1 \in 0..MaxRequests
    BY <1>1, <1>3, BoundsNat DEF Counted
  <2>2. did' = [did EXCEPT !.requests = did.requests + 1]
    BY <1>3 DEF Counted
  <2>3. did'.count = did.count /\ did'.said = did.said /\ did' \in DidType
    BY <1>1, <2>1, <2>2 DEF DidType
  <2> QED
    BY <1>1, <2>3 DEF Grows
<1> QED
  BY <1>2, <1>3

-----------------------------------------------------------------------------
(* The groups.                                                             *)

LEMMA Removing ==
    ASSUME NEW members \in [Group -> SUBSET Player], NEW S,
           \A g, h \in Group : g # h => members[g] \cap members[h] = {}
    PROVE  LET left == RemoveMember(members, S) IN
           /\ left \in [Group -> SUBSET Player]
           /\ \A g, h \in Group : g # h => left[g] \cap left[h] = {}
           /\ \A g \in Group : left[g] \cap S = {}
<1> DEFINE left == RemoveMember(members, S)
<1>1. \A g \in Group : left[g] \in {{}, members[g] \ S}
  BY DEF RemoveMember
<1>2. left \in [Group -> SUBSET Player]
  BY DEF RemoveMember
<1> HIDE DEF left
<1> QED
  BY <1>1, <1>2 DEF left

LEMMA OwnerFacts ==
    ASSUME TypeOK, NEW p \in Player
    PROVE  /\ OwnerOf(p) \in Owner
           /\ OwnerOf(p) = p => \A g \in Group : p \notin world.members[g]
           /\ OwnerOf(p) \in Group => p \in world.members[OwnerOf(p)]
<1>1. CASE GroupsOf(p) = {}
  BY <1>1, LFGAssumption DEF OwnerOf, GroupsOf, Owner
<1>2. CASE GroupsOf(p) # {}
  <2>1. OwnerOf(p) \in GroupsOf(p)
    BY <1>2 DEF OwnerOf
  <2> QED
    BY <2>1, LFGAssumption DEF GroupsOf, Owner
<1> QED
  BY <1>1, <1>2

WorldType(w) ==
    /\ w \in [members : [Group -> SUBSET Player], online : SUBSET Player, queued : SUBSET Player]
    /\ \A g, h \in Group : g # h => w.members[g] \cap w.members[h] = {}

\* A request that changes no group.
LEMMA SameGroups ==
    ASSUME TypeOK, NEW online \in SUBSET Player, NEW queued \in SUBSET Player
    PROVE  WorldType([world EXCEPT !.online = online, !.queued = queued])
BY DEF TypeOK, WorldType

LEMMA FewerMembers ==
    ASSUME TypeOK, NEW S, NEW online \in SUBSET Player, NEW queued \in SUBSET Player
    PROVE  WorldType([world EXCEPT !.online = online, !.queued = queued,
                                   !.members = RemoveMember(@, S)])
<1>1. /\ world.members \in [Group -> SUBSET Player]
      /\ \A g, h \in Group : g # h => world.members[g] \cap world.members[h] = {}
  BY DEF TypeOK
<1> DEFINE left == RemoveMember(world.members, S)
<1>2. /\ left \in [Group -> SUBSET Player]
      /\ \A g, h \in Group : g # h => left[g] \cap left[h] = {}
  BY <1>1, Removing
<1> HIDE DEF left
<1>3. WorldType([world EXCEPT !.online = online, !.queued = queued, !.members = left])
  BY <1>2 DEF TypeOK, WorldType
<1> QED
  BY <1>3 DEF left

-----------------------------------------------------------------------------
(* Requests of the players keep the types, and send what they may send.    *)

\* What is left to show of a request.
LEMMA Requested ==
    ASSUME TypeOK, did' \in DidType, WorldType(world'), toQueue' \in Seq(Messages),
           UNCHANGED <<queueVars, toWorld, crashed>>
    PROVE  TypeOK'
BY DEF TypeOK, DidType, WorldType, queueVars

LEMMA WorldNow ==
    ASSUME TypeOK
    PROVE  /\ WorldType(world)
           /\ world = [members |-> world.members, online |-> world.online,
                       queued |-> world.queued]
           /\ world.online \in SUBSET Player /\ world.queued \in SUBSET Player
           /\ world.members \in [Group -> SUBSET Player]
BY DEF TypeOK, WorldType

LEMMA SendingOne ==
    ASSUME NEW S, NEW q \in Seq(S), NEW x \in S
    PROVE  q \o <<>> \o <<x>> = Append(q, x)
OBVIOUS

LEMMA SendingTwo ==
    ASSUME NEW S, NEW q \in Seq(S), NEW x \in S, NEW y \in S
    PROVE  q \o <<x>> \o <<y>> = Append(Append(q, x), y)
OBVIOUS

\* A queue that grows by two messages that may be sent.
LEMMA SendingBoth ==
    ASSUME TypeOK, Letters, Grows, did'.count \in Nat,
           NEW m \in Messages, Letter(m)', NEW n \in Messages, Letter(n)',
           toQueue' = Append(Append(toQueue, m), n)
    PROVE  toQueue' \in Seq(Messages) /\ Letters'
<1>1. /\ toQueue \in Seq(Messages) /\ Len(toQueue) \in Nat
      /\ toQueue' \in Seq(Messages)
      /\ Len(toQueue') = Len(toQueue) + 2
      /\ \A k \in 1..Len(toQueue) : toQueue'[k] = toQueue[k]
      /\ toQueue'[Len(toQueue) + 1] = m
      /\ toQueue'[Len(toQueue) + 2] = n
  BY DEF TypeOK
<1>2. ASSUME NEW k \in 1..Len(toQueue')
      PROVE  Letter(toQueue[k])'
  <2>1. CASE k \in 1..Len(toQueue)
    <3>1. toQueue[k] \in Messages /\ Letter(toQueue[k]) /\ toQueue'[k] = toQueue[k]
      BY <1>1, <2>1 DEF TypeOK, Letters
    <3>2. \A l \in Messages : Letter(l) => Letter(l)'
      BY LetterStays
    <3> QED
      BY <3>1, <3>2 DEF Letter
  <2>2. CASE k = Len(toQueue) + 1
    BY <1>1, <2>2 DEF Letter
  <2>3. CASE k = Len(toQueue) + 2
    BY <1>1, <2>3 DEF Letter
  <2> QED
    BY <1>1, <1>2, <2>1, <2>2, <2>3
<1> QED
  BY <1>1, <1>2 DEF Letters

LEMMA JoinType ==
    ASSUME TypeOK, Letters, NEW p \in Player,
           JoinLfgParty(p) \/ JoinLfgAlone(p) \/ JoinLfgRefused(p)
    PROVE  TypeOK' /\ Letters'
<1>1. did' \in DidType /\ Grows /\ did'.count \in Nat
  BY CountedGrows DEF JoinLfgParty, JoinLfgAlone, JoinLfgRefused
<1>2. \A o \in Owner : LET m == [op |-> "remove", owner |-> o] IN m \in Messages /\ Letter(m)'
  BY DEF Messages, Letter
<1>3. \A e \in Entries : e.owner \in Owner /\ e.ready \subseteq e.players
                         /\ e.state \in {"rolecheck", "queued"}
         => LET m == [op |-> "add", entry |-> e] IN m \in Messages /\ Letter(m)'
  BY DEF Messages, Letter
<1>4. p \in Owner /\ p # None
  BY LFGAssumption DEF Owner
<1>5. CASE JoinLfgParty(p)
  <2> DEFINE g == OwnerOf(p)
             all == world.members[g]
  <2>1. g \in Group /\ g \in Owner /\ p \in all /\ all \subseteq Player
    BY <1>5, OwnerFacts DEF JoinLfgParty, TypeOK
  <2>2. PICK e : e = [owner |-> g, leader |-> p, players |-> all, ready |-> {p},
                      state |-> "rolecheck", check |-> "initial", late |-> FALSE]
    OBVIOUS
  <2> DEFINE m == [op |-> "add", entry |-> e]
  <2>3. /\ e \in Entries /\ e.owner \in Owner /\ e.ready \subseteq e.players
        /\ e.state \in {"rolecheck", "queued"}
    BY <2>1, <2>2 DEF Entries, States, Checks
  <2>4. m \in Messages /\ Letter(m)'
    BY <1>3, <2>3
  <2>5. toQueue' = Append(toQueue, m)
    <3>1. toQueue' = toQueue \o <<>> \o <<m>>
      BY <1>5, <2>2 DEF JoinLfgParty, AddJoin
    <3>2. toQueue \in Seq(Messages)
      BY DEF TypeOK
    <3> QED
      BY <2>4, <3>1, <3>2, SendingOne
  <2>6. toQueue' \in Seq(Messages) /\ Letters'
    BY <1>1, <2>4, <2>5, Sending
  <2>7. WorldType(world')
    <3>1. world' = [world EXCEPT !.queued = world.queued \cup all]
      BY <1>5 DEF JoinLfgParty
    <3>2. world' = [world EXCEPT !.online = world.online, !.queued = world.queued \cup all]
      BY <3>1, WorldNow DEF TypeOK
    <3>3. world.queued \cup all \in SUBSET Player
      BY <2>1, WorldNow
    <3> QED
      BY <3>2, <3>3, SameGroups, WorldNow
  <2> QED
    BY <1>1, <1>5, <2>6, <2>7, Requested DEF JoinLfgParty
<1>6. CASE JoinLfgAlone(p)
  <2>1. PICK c \in Checks :
          AddJoin(IF p \in world.queued THEN <<[op |-> "remove", owner |-> p]>> ELSE <<>>,
                  [owner |-> p, leader |-> None, players |-> {p}, ready |-> {p},
                   state |-> "queued", check |-> c, late |-> TRUE])
    BY <1>6 DEF JoinLfgAlone
  <2>2. PICK e : e = [owner |-> p, leader |-> None, players |-> {p}, ready |-> {p},
                      state |-> "queued", check |-> c, late |-> TRUE]
    OBVIOUS
  <2> DEFINE m == [op |-> "add", entry |-> e]
             r == [op |-> "remove", owner |-> p]
  <2>3. /\ e \in Entries /\ e.owner \in Owner /\ e.ready \subseteq e.players
        /\ e.state \in {"rolecheck", "queued"}
    BY <1>4, <2>2 DEF Entries, States
  <2>4. m \in Messages /\ Letter(m)'
    BY <1>3, <2>3
  <2>5. r \in Messages /\ Letter(r)'
    BY <1>2, <1>4
  <2>6. toQueue \in Seq(Messages)
    BY DEF TypeOK
  <2>7. toQueue' \in {toQueue \o <<>> \o <<m>>, toQueue \o <<r>> \o <<m>>}
    BY <2>1, <2>2 DEF AddJoin
  <2>8. toQueue' \in {Append(toQueue, m), Append(Append(toQueue, r), m)}
    BY <2>4, <2>5, <2>6, <2>7, SendingOne, SendingTwo
  <2>9. toQueue' \in Seq(Messages) /\ Letters'
    BY <1>1, <2>4, <2>5, <2>8, Sending, SendingBoth
  <2>10. WorldType(world')
    <3>1. world' = [world EXCEPT !.queued = world.queued \cup {p}]
      BY <1>6 DEF JoinLfgAlone
    <3>2. world' = [world EXCEPT !.online = world.online, !.queued = world.queued \cup {p}]
      BY <3>1, WorldNow DEF TypeOK
    <3>3. world.queued \cup {p} \in SUBSET Player
      BY WorldNow
    <3> QED
      BY <3>2, <3>3, SameGroups, WorldNow
  <2> QED
    BY <1>1, <1>6, <2>9, <2>10, Requested DEF JoinLfgAlone
<1>7. CASE JoinLfgRefused(p)
  <2> DEFINE m == [op |-> "remove", owner |-> p]
  <2>1. m \in Messages /\ Letter(m)' /\ toQueue' = Append(toQueue, m)
    BY <1>2, <1>4, <1>7 DEF JoinLfgRefused, AddMessage
  <2>2. toQueue' \in Seq(Messages) /\ Letters'
    BY <1>1, <2>1, Sending
  <2> QED
    BY <1>1, <1>7, <2>2, Requested, WorldNow DEF JoinLfgRefused, WorldType
<1> QED
  BY <1>5, <1>6, <1>7

\* An answer is noted, for somebody who had not given one.
LEMMA AnswerNoted ==
    ASSUME TypeOK, Recorded, NEW p \in Player, NEW i \in 1..did.count, NEW agree \in BOOLEAN,
           p \in DOMAIN did.said[i], did.said[i][p] = "pending",
           did' = [did EXCEPT !.said[i][p] = IF agree THEN "agree" ELSE "deny"]
    PROVE  /\ did' \in DidType /\ Grows /\ did'.count \in Nat /\ i \in Id
           /\ did'.said[i][p] = IF agree THEN "agree" ELSE "deny"
           /\ \A j \in Id, q \in Player : ~(j = i /\ q = p) /\ q \in DOMAIN did.said[j] =>
                 did'.said[j][q] = did.said[j][q]
           /\ \A j \in Id : DOMAIN did'.said[j] = DOMAIN did.said[j]
<1>1. /\ did \in DidType /\ did.count \in 0..MaxProposals /\ did.count \in Nat /\ i \in Id
      /\ did.said \in [Id -> Answered]
  BY BoundsNat DEF TypeOK, DidType
<1>2. PICK S \in SUBSET Player : did.said[i] \in [S -> {"pending", "agree", "deny"}]
  <2>1. did.said[i] \in Answered
    BY <1>1
  <2> QED
    BY <2>1 DEF Answered
<1> DEFINE new == [did.said[i] EXCEPT ![p] = IF agree THEN "agree" ELSE "deny"]
<1>3. /\ new \in Answered /\ DOMAIN new = DOMAIN did.said[i]
      /\ new[p] = IF agree THEN "agree" ELSE "deny"
      /\ \A q \in DOMAIN did.said[i] : q # p => new[q] = did.said[i][q]
  BY <1>2 DEF Answered
<1>4. did' = [did EXCEPT !.said = [did.said EXCEPT ![i] = new]]
  BY <1>1
<1> HIDE DEF new
<1>5. /\ did'.said = [did.said EXCEPT ![i] = new] /\ did'.count = did.count
      /\ did' \in DidType
  BY <1>1, <1>3, <1>4 DEF DidType
<1>6. did'.said[i] = new /\ \A j \in Id : j # i => did'.said[j] = did.said[j]
  BY <1>1, <1>5
<1>7. \A j \in Id : DOMAIN did'.said[j] = DOMAIN did.said[j]
  BY <1>3, <1>6
<1>8. \A j \in Id, q \in Player : ~(j = i /\ q = p) /\ q \in DOMAIN did.said[j] =>
         did'.said[j][q] = did.said[j][q]
  BY <1>3, <1>6
<1>9. Grows
  <2>1. ASSUME NEW j \in Id, NEW q \in DOMAIN did.said[j], did.said[j][q] # "pending"
        PROVE  did'.said[j][q] = did.said[j][q]
    BY <1>3, <1>6, <2>1
  <2> QED
    BY <1>1, <1>5, <1>7, <2>1 DEF Grows
<1> QED
  BY <1>1, <1>3, <1>5, <1>6, <1>7, <1>8, <1>9

LEMMA AskType ==
    ASSUME TypeOK, Letters, Recorded, NEW p \in Player, Asks(p)
    PROVE  TypeOK' /\ Letters'
<1>1. p \in Owner /\ OwnerOf(p) \in Owner
  BY OwnerFacts DEF Owner
<1>2. WorldType(world)
  BY WorldNow
<1>3. \A o \in Owner : /\ [op |-> "remove", owner |-> o] \in Messages
                       /\ Letter([op |-> "remove", owner |-> o])'
  BY DEF Messages, Letter
<1>4. CASE LeaveLfg(p)
  <2>1. PICK o \in Owner : o = OwnerOf(p)
    BY <1>1
  <2>2. did' \in DidType /\ Grows /\ did'.count \in Nat
    BY <1>4, CountedGrows DEF LeaveLfg
  <2>3. toQueue' = Append(toQueue, [op |-> "remove", owner |-> o])
    BY <1>4, <2>1 DEF LeaveLfg, AddMessage
  <2>4. toQueue' \in Seq(Messages) /\ Letters'
    BY <1>3, <2>2, <2>3, Sending
  <2>5. WorldType(world')
    <3>1. world' = [world EXCEPT !.online = world.online, !.queued = world.queued \ {o}]
      BY <1>4, <2>1, WorldNow DEF LeaveLfg
    <3> QED
      BY <3>1, SameGroups, WorldNow
  <2> QED
    BY <1>4, <2>2, <2>4, <2>5, Requested DEF LeaveLfg
<1>5. CASE HandleLfgSetRoles(p)
  <2>1. PICK o \in Group, some \in BOOLEAN : o = OwnerOf(p) /\ AddMessage(
          [op |-> "roles", owner |-> o, who |-> p, some |-> some])
    BY <1>5 DEF HandleLfgSetRoles
  <2> DEFINE m == [op |-> "roles", owner |-> o, who |-> p, some |-> some]
  <2>2. m \in Messages /\ Letter(m)'
    BY DEF Messages, Letter
  <2>3. did' \in DidType /\ Grows /\ did'.count \in Nat
    BY <1>5, CountedGrows DEF HandleLfgSetRoles
  <2>4. toQueue' \in Seq(Messages) /\ Letters'
    BY <2>1, <2>2, <2>3, Sending DEF AddMessage
  <2> QED
    BY <1>2, <1>5, <2>3, <2>4, Requested DEF HandleLfgSetRoles, WorldType
<1>6. CASE HandleLfgProposalResult(p)
  <2>1. PICK i \in 1..did.count, agree \in BOOLEAN :
          /\ p \in DOMAIN did.said[i] /\ did.said[i][p] = "pending"
          /\ did' = [did EXCEPT !.said[i][p] = IF agree THEN "agree" ELSE "deny"]
          /\ AddMessage([op |-> "answer", who |-> p, id |-> i, agree |-> agree])
          /\ UNCHANGED <<queueVars, toWorld, world, crashed>>
    BY <1>6 DEF HandleLfgProposalResult
  <2>2. /\ did' \in DidType /\ Grows /\ did'.count \in Nat /\ i \in Id
        /\ did'.said[i][p] = IF agree THEN "agree" ELSE "deny"
        /\ DOMAIN did'.said[i] = DOMAIN did.said[i]
    BY <2>1, AnswerNoted
  <2> DEFINE m == [op |-> "answer", who |-> p, id |-> i, agree |-> agree]
  <2>3. m \in Messages
    BY <2>2 DEF Messages
  <2>4. i <= did'.count
    BY <2>2, BoundsNat DEF Grows, TypeOK
  <2>5. Letter(m)'
    BY <2>1, <2>2, <2>4 DEF Letter
  <2>6. toQueue' \in Seq(Messages) /\ Letters'
    BY <2>1, <2>2, <2>3, <2>5, Sending DEF AddMessage
  <2> QED
    BY <1>2, <2>1, <2>2, <2>6, Requested DEF WorldType
<1>7. CASE LogoutPlayer(p)
  <2>1. PICK connected \in BOOLEAN :
          /\ Counted
          /\ IF p \in world.queued
             THEN AddMessage([op |-> "logout", owner |-> OwnerOf(p), who |-> p])
             ELSE UNCHANGED toQueue
          /\ world' = [world EXCEPT !.online = @ \ {p}, !.queued = @ \ {p},
                              !.members = IF connected THEN RemoveMember(@, {p}) ELSE @]
          /\ UNCHANGED <<queueVars, toWorld, crashed>>
    BY <1>7 DEF LogoutPlayer
  <2>2. did' \in DidType /\ Grows /\ did'.count \in Nat
    BY <2>1, CountedGrows
  <2>3. PICK o \in Owner : o = OwnerOf(p)
    BY <1>1
  <2> DEFINE m == [op |-> "logout", owner |-> o, who |-> p]
  <2>4. m \in Messages /\ Letter(m)'
    BY DEF Messages, Letter
  <2>5. toQueue' \in Seq(Messages) /\ Letters'
    <3>1. CASE toQueue' = Append(toQueue, m)
      BY <2>2, <2>4, <3>1, Sending
    <3>2. CASE UNCHANGED toQueue
      BY <2>2, <3>2, LettersKept DEF TypeOK
    <3> QED
      BY <2>1, <2>3, <3>1, <3>2 DEF AddMessage
  <2>6. WorldType(world')
    <3>1. CASE connected
      BY <2>1, <3>1, FewerMembers, WorldNow
    <3>2. CASE ~connected
      <4>1. world' = [world EXCEPT !.online = world.online \ {p}, !.queued = world.queued \ {p}]
        BY <2>1, <3>2, WorldNow
      <4> QED
        BY <4>1, SameGroups, WorldNow
    <3> QED
      BY <3>1, <3>2
  <2> QED
    BY <2>1, <2>2, <2>5, <2>6, Requested
<1>8. CASE HandlePlayerLogin(p)
  <2>1. did' \in DidType /\ Grows /\ did'.count \in Nat /\ UNCHANGED toQueue
    BY <1>8, CountedGrows DEF HandlePlayerLogin
  <2>2. WorldType(world')
    <3>1. PICK q \in {{}, {p}} :
            world' = [world EXCEPT !.online = @ \cup {p}, !.queued = @ \cup q]
      BY <1>8 DEF HandlePlayerLogin
    <3>2. /\ world' = [world EXCEPT !.online = world.online \cup {p},
                                    !.queued = world.queued \cup q]
          /\ world.online \cup {p} \in SUBSET Player /\ world.queued \cup q \in SUBSET Player
      BY <3>1, WorldNow
    <3> QED
      BY <3>2, SameGroups
  <2>3. toQueue' \in Seq(Messages) /\ Letters'
    BY <2>1, LettersKept DEF TypeOK
  <2> QED
    BY <1>8, <2>1, <2>2, <2>3, Requested DEF HandlePlayerLogin
<1>9. CASE LeaveGroup(p)
  <2>1. did' \in DidType /\ Grows /\ did'.count \in Nat /\ UNCHANGED toQueue
    BY <1>9, CountedGrows DEF LeaveGroup
  <2>2. WorldType(world')
    <3>1. world' = [world EXCEPT !.online = world.online, !.queued = world.queued,
                                 !.members = RemoveMember(@, {p})]
      BY <1>9, WorldNow DEF LeaveGroup
    <3> QED
      BY <3>1, FewerMembers, WorldNow
  <2>3. toQueue' \in Seq(Messages) /\ Letters'
    BY <2>1, LettersKept DEF TypeOK
  <2> QED
    BY <1>9, <2>1, <2>2, <2>3, Requested DEF LeaveGroup
<1>10. CASE AcceptInvitation(p)
  <2>1. PICK g \in Group :
          /\ OwnerOf(p) = p
          /\ world' = [world EXCEPT !.members[g] = @ \cup {p}]
          /\ UNCHANGED <<queueVars, toQueue, toWorld, crashed, did>>
    BY <1>10 DEF AcceptInvitation
  <2>2. \A h \in Group : p \notin world.members[h]
    BY <2>1, OwnerFacts
  <2>3. did' \in DidType /\ Grows /\ did'.count \in Nat
    BY <2>1, CountedGrows
  <2>4. WorldType(world')
    BY <1>2, <2>1, <2>2 DEF WorldType
  <2>5. toQueue' \in Seq(Messages) /\ Letters'
    BY <2>1, <2>3, LettersKept DEF TypeOK
  <2> QED
    BY <2>1, <2>3, <2>4, <2>5, Requested
<1> QED
  BY <1>4, <1>5, <1>6, <1>7, <1>8, <1>9, <1>10, JoinType DEF Asks

LEMMA WorldMessageType ==
    ASSUME TypeOK, RunWorldMessage
    PROVE  /\ TypeOK'
           /\ did' \in DidType /\ Grows /\ did'.count \in Nat /\ did'.said = did.said
           /\ toWorld' = Tail(toWorld) /\ toWorld # <<>>
<1> DEFINE there == Head(toWorld).players \cap world.online
<1>1. did \in DidType /\ did.count \in Nat
  BY BoundsNat DEF TypeOK, DidType
<1>2. toWorld' \in Seq([id : Id, players : SUBSET Player])
  BY DEF TypeOK, RunWorldMessage
<1>3. UNCHANGED <<queueVars, toQueue>> /\ toWorld' = Tail(toWorld) /\ toWorld # <<>>
  BY DEF RunWorldMessage
<1>4. CASE there = {}
  <2>1. crashed' = TRUE /\ UNCHANGED <<world, did>>
    BY <1>4 DEF RunWorldMessage
  <2>2. Grows
    BY <1>1, <2>1 DEF Grows
  <2> QED
    BY <1>1, <1>2, <1>3, <2>1, <2>2 DEF TypeOK, DidType, queueVars
<1>5. CASE there # {}
  <2>1. PICK g \in Group :
          /\ world' = [world EXCEPT !.members = [RemoveMember(@, there) EXCEPT ![g] = there]]
          /\ did' = [did EXCEPT !.groups = @ \cup {g}]
          /\ UNCHANGED crashed
    BY <1>5 DEF RunWorldMessage
  <2>2. PICK left : left = RemoveMember(world.members, there)
    OBVIOUS
  <2>3. /\ left \in [Group -> SUBSET Player]
        /\ \A h, u \in Group : h # u => left[h] \cap left[u] = {}
        /\ \A h \in Group : left[h] \cap there = {}
    <3>1. /\ world.members \in [Group -> SUBSET Player]
          /\ \A h, u \in Group : h # u => world.members[h] \cap world.members[u] = {}
      BY DEF TypeOK
    <3> HIDE DEF there
    <3> QED
      BY <2>2, <3>1, Removing
  <2>4. there \subseteq Player
    BY DEF TypeOK
  <2> HIDE DEF there
  <2>5. world' = [world EXCEPT !.members = [left EXCEPT ![g] = there]]
    BY <2>1, <2>2
  <2>6. WorldType(world')
    <3>1. [left EXCEPT ![g] = there] \in [Group -> SUBSET Player]
      BY <2>3, <2>4
    <3>2. \A h, u \in Group : h # u =>
             [left EXCEPT ![g] = there][h] \cap [left EXCEPT ![g] = there][u] = {}
      BY <2>3
    <3>3. PICK new : new = [left EXCEPT ![g] = there]
      OBVIOUS
    <3>4. world'.members = new /\ world' = [world EXCEPT !.members = new]
      BY <2>5, <3>3, WorldNow
    <3> QED
      BY <3>1, <3>2, <3>3, <3>4 DEF WorldType, TypeOK
  <2>7. did' \in DidType /\ did'.count = did.count /\ did'.said = did.said
    BY <1>1, <2>1 DEF DidType
  <2>8. Grows
    BY <1>1, <2>7 DEF Grows
  <2> QED
    BY <1>1, <1>2, <1>3, <2>1, <2>6, <2>7, <2>8 DEF TypeOK, WorldType, DidType, queueVars
<1> QED
  BY <1>4, <1>5

LEMMA BeginGrows ==
    ASSUME TypeOK, BeginUpdate
    PROVE  Grows /\ did'.count \in Nat
<1>1. PICK s : /\ Len(s) \in Nat /\ did.count \in Nat /\ did'.count = did.count + Len(s)
               /\ \A i \in Id :
                     \/ i - did.count \in 1..Len(s)
                     \/ did'.said[i] = did.said[i]
  BY BeginUpdateParts
<1>2. \A i \in Id : i <= did.count => did'.said[i] = did.said[i]
  BY <1>1, BoundsNat
<1> QED
  BY <1>1, <1>2 DEF Grows

LEMMA TypeInit == Init => TypeOK
<1> SUFFICES ASSUME Init
             PROVE  TypeOK
  OBVIOUS
<1>1. NoAnswers \in Answered
  BY DEF NoAnswers, Answered
<1>2. did \in DidType
  BY <1>1, BoundsNat DEF Init, DidType
<1>3. WorldType(world)
  BY LFGAssumption DEF Init, WorldType
<1>4. toQueue \in Seq(Messages) /\ toWorld \in Seq([id : Id, players : SUBSET Player])
  BY EmptySeq DEF Init
<1> QED
  BY <1>2, <1>3, <1>4 DEF Init, TypeOK, DidType, WorldType

LEMMA TypeStep ==
    ASSUME TypeOK, Letters, Recorded, Looking, [Next]_vars
    PROVE  TypeOK'
<1>1. CASE UNCHANGED vars
  BY <1>1 DEF TypeOK, vars
<1> QED
  BY <1>1, QueueThreadType, TimeType, AskType, WorldMessageType DEF Next

-----------------------------------------------------------------------------
(* Every step keeps what the messages say, and what proposals know.        *)

\* Of steps of the queue thread and of time only two change what was said or sent.
LEMMA SaidUnchanged ==
    ASSUME RunMessage \/ Settle \/ EndUpdate \/ TimePasses
    PROVE  UNCHANGED did
BY DEF RunMessage, Settle, EndUpdate, TimePasses, CheckLate, ProposalLate

LEMMA GrowsStep ==
    ASSUME TypeOK, Letters, Recorded, [Next]_vars
    PROVE  Grows /\ did'.count \in Nat
<1>1. CASE UNCHANGED did
  BY <1>1, CountedGrows
<1>2. ASSUME NEW p \in Player, Asks(p)
      PROVE  Grows /\ did'.count \in Nat
  <2>1. CASE HandleLfgProposalResult(p)
    BY <2>1, AnswerNoted DEF HandleLfgProposalResult
  <2>2. CASE ~HandleLfgProposalResult(p)
    <3>1. Counted \/ UNCHANGED did
      BY <1>2, <2>2 DEF Asks, JoinLfgParty, JoinLfgAlone, JoinLfgRefused, LeaveLfg,
        HandleLfgSetRoles, LogoutPlayer, HandlePlayerLogin, LeaveGroup, AcceptInvitation
    <3> QED
      BY <3>1, CountedGrows
  <2> QED
    BY <2>1, <2>2
<1> QED
  BY <1>1, <1>2, BeginGrows, WorldMessageType, SaidUnchanged DEF Next, QueueThread, vars

LEMMA LettersStep ==
    ASSUME TypeOK, Letters, Recorded, [Next]_vars
    PROVE  Letters'
<1>1. Grows /\ did'.count \in Nat
  BY GrowsStep
<1>2. CASE UNCHANGED toQueue
  BY <1>1, <1>2, LettersKept
<1>3. CASE RunMessage
  <2>1. /\ toQueue # <<>> /\ toQueue' = Tail(toQueue) /\ UNCHANGED did
        /\ Len(toQueue') = Len(toQueue) - 1 /\ Len(toQueue) \in Nat
        /\ \A k \in 1..Len(toQueue) - 1 : toQueue'[k] = toQueue[k + 1]
    BY <1>3, Posted DEF RunMessage
  <2>2. ASSUME NEW k \in 1..Len(toQueue')
        PROVE  Letter(toQueue[k])'
    <3>1. k + 1 \in 1..Len(toQueue) /\ toQueue'[k] = toQueue[k + 1]
      BY <2>1, <2>2
    <3>2. Letter(toQueue[k + 1])
      BY <3>1 DEF Letters
    <3> QED
      BY <2>1, <3>1, <3>2 DEF Letter
  <2> QED
    BY <2>2 DEF Letters
<1>4. ASSUME NEW p \in Player, Asks(p)
      PROVE  Letters'
  BY <1>4, AskType
<1>5. BeginUpdate \/ Settle \/ EndUpdate \/ TimePasses \/ RunWorldMessage \/ UNCHANGED vars
        => UNCHANGED toQueue
  BY DEF BeginUpdate, Settle, EndUpdate, TimePasses, CheckLate, ProposalLate, RunWorldMessage, vars
<1> QED
  BY <1>2, <1>3, <1>4, <1>5 DEF Next, QueueThread

\* A step that neither changes a proposal nor what its players have said, except that
\* one who had not answered may have.
LEMMA RecordKept ==
    ASSUME TypeOK, Recorded, Grows, did'.count \in Nat, NEW i \in Id,
           proposals'[i] # None => /\ proposals[i] # None
                                   /\ proposals'[i].answers = proposals[i].answers
    PROVE  proposals'[i] # None =>
              /\ i <= did'.count
              /\ DOMAIN did'.said[i] = DOMAIN proposals'[i].answers
              /\ \A p \in DOMAIN did'.said[i] :
                    proposals'[i].answers[p] \in {"pending", did'.said[i][p]}
<1> SUFFICES ASSUME proposals'[i] # None
             PROVE  /\ i <= did'.count
                    /\ DOMAIN did'.said[i] = DOMAIN proposals'[i].answers
                    /\ \A p \in DOMAIN did'.said[i] :
                          proposals'[i].answers[p] \in {"pending", did'.said[i][p]}
  OBVIOUS
<1>1. /\ i <= did.count
      /\ DOMAIN did.said[i] = DOMAIN proposals[i].answers
      /\ \A p \in DOMAIN did.said[i] : proposals[i].answers[p] \in {"pending", did.said[i][p]}
  BY DEF Recorded
<1>2. /\ did.count <= did'.count /\ did.count \in Nat
      /\ DOMAIN did'.said[i] = DOMAIN did.said[i]
      /\ \A p \in DOMAIN did.said[i] :
            did.said[i][p] # "pending" => did'.said[i][p] = did.said[i][p]
  BY <1>1, BoundsNat DEF Grows, TypeOK
<1>3. i <= did'.count
  BY <1>1, <1>2, BoundsNat
<1>4. ASSUME NEW p \in DOMAIN did'.said[i]
      PROVE  proposals'[i].answers[p] \in {"pending", did'.said[i][p]}
  BY <1>1, <1>2
<1> QED
  BY <1>1, <1>2, <1>3, <1>4

LEMMA RecordedStep ==
    ASSUME TypeOK, Letters, Recorded, Looking, [Next]_vars
    PROVE  Recorded'
<1>1. Grows /\ did'.count \in Nat
  BY GrowsStep
<1>2. ASSUME \A i \in Id : proposals'[i] # None =>
                 proposals[i] # None /\ proposals'[i].answers = proposals[i].answers
      PROVE  Recorded'
  BY <1>1, <1>2, RecordKept DEF Recorded
<1>3. CASE UNCHANGED proposals
  BY <1>2, <1>3
<1>4. CASE RunMessage
  <2> DEFINE m == Head(toQueue)
  <2>1. CASE UNCHANGED proposals
    BY <1>3, <2>1
  <2>2. CASE proposals' # proposals
    <3>1. /\ m.op = "answer" /\ proposals[m.id] # None
          /\ proposals' = [proposals EXCEPT ![m.id].answers[m.who] =
                              IF m.agree THEN "agree" ELSE "deny"]
          /\ UNCHANGED did
      BY <1>4, <2>2 DEF RunMessage, UpdateProposal
    <3>2. m \in Messages /\ Letter(m)
      BY <1>4, Posted DEF RunMessage
    <3>3. /\ m.id \in Id /\ m.who \in DOMAIN did.said[m.id]
          /\ did.said[m.id][m.who] = IF m.agree THEN "agree" ELSE "deny"
      BY <3>1, <3>2 DEF Messages, Letter
    <3>4. proposals[m.id] \in Proposals
      BY <3>1, <3>3 DEF TypeOK
    <3>5. PICK S \in SUBSET Player :
            proposals[m.id].answers \in [S -> {"pending", "agree", "deny"}]
      BY <3>4 DEF Proposals, Answered
    <3> DEFINE new == [proposals[m.id].answers EXCEPT ![m.who] =
                          IF m.agree THEN "agree" ELSE "deny"]
    <3>6. /\ proposals'[m.id].answers = new
          /\ \A i \in Id : i # m.id => proposals'[i] = proposals[i]
      BY <3>1, <3>3, <3>4 DEF TypeOK, Proposals
    <3>7. /\ m.id <= did.count
          /\ DOMAIN did.said[m.id] = DOMAIN proposals[m.id].answers
          /\ \A p \in DOMAIN did.said[m.id] :
                proposals[m.id].answers[p] \in {"pending", did.said[m.id][p]}
      BY <3>1, <3>3 DEF Recorded
    <3>8. DOMAIN new = DOMAIN did.said[m.id]
      BY <3>5, <3>7
    <3>9. \A p \in DOMAIN did.said[m.id] : new[p] \in {"pending", did.said[m.id][p]}
      BY <3>3, <3>5, <3>7
    <3> HIDE DEF m, new
    <3> QED
      BY <3>1, <3>6, <3>7, <3>8, <3>9 DEF Recorded
  <2> QED
    BY <2>1, <2>2
<1>5. CASE BeginUpdate
  <2>1. PICK s :
          /\ Len(s) \in Nat /\ did.count \in Nat /\ did'.count = did.count + Len(s)
          /\ \A i \in Id :
                \/ /\ i - did.count \in 1..Len(s)
                   /\ proposals'[i] = NewProposal(s[i - did.count])
                   /\ did'.said[i] = NewProposal(s[i - did.count]).answers
                \/ proposals'[i] = proposals[i]
    BY <1>5, BeginUpdateParts
  <2>2. ASSUME NEW i \in Id, proposals'[i] # None
        PROVE  /\ i <= did'.count
               /\ DOMAIN did'.said[i] = DOMAIN proposals'[i].answers
               /\ \A p \in DOMAIN did'.said[i] :
                     proposals'[i].answers[p] \in {"pending", did'.said[i][p]}
    <3>1. CASE proposals'[i] = proposals[i]
      BY <1>1, <2>2, <3>1, RecordKept
    <3>2. ASSUME i - did.count \in 1..Len(s),
                 proposals'[i] = NewProposal(s[i - did.count]),
                 did'.said[i] = NewProposal(s[i - did.count]).answers
          PROVE  i <= did'.count /\ proposals'[i].answers = did'.said[i]
                 /\ \A p \in DOMAIN did'.said[i] : did'.said[i][p] = "pending"
      <4>1. i <= did'.count
        BY <2>1, <3>2, BoundsNat
      <4> QED
        BY <3>2, <4>1 DEF NewProposal
    <3> QED
      BY <2>1, <3>1, <3>2
  <2> QED
    BY <2>2 DEF Recorded
<1>6. CASE Settle
  <2>1. PICK i \in todo : proposals' = [proposals EXCEPT ![i] = IF Outcome(i) = "open" THEN @ ELSE None]
    BY <1>6 DEF Settle
  <2>2. \A j \in Id : proposals'[j] \in {None, proposals[j]}
    BY <2>1 DEF TypeOK
  <2> QED
    BY <1>2, <2>2
<1>7. ASSUME NEW i \in Id, ProposalLate(i)
      PROVE  Recorded'
  <2>1. \A j \in Id : proposals'[j] \in {proposals[j], [proposals[j] EXCEPT !.late = TRUE]}
    BY <1>7 DEF ProposalLate, TypeOK
  <2>2. \A j \in Id : proposals'[j] # None =>
           proposals[j] # None /\ proposals'[j].answers = proposals[j].answers
    <3>1. ASSUME NEW j \in Id, j # i
          PROVE  proposals'[j] = proposals[j]
      BY <1>7, <3>1 DEF ProposalLate, TypeOK
    <3>2. proposals[i] \in Proposals /\ proposals'[i] = [proposals[i] EXCEPT !.late = TRUE]
          /\ proposals[i] # None
      BY <1>7 DEF ProposalLate, TypeOK
    <3>3. proposals'[i].answers = proposals[i].answers
      BY <3>2 DEF Proposals
    <3> QED
      BY <3>1, <3>2, <3>3
  <2> QED
    BY <1>2, <2>2
<1>8. ASSUME NEW p \in Player, Asks(p)
      PROVE  UNCHANGED proposals
  BY <1>8 DEF Asks, JoinLfgParty, JoinLfgAlone, JoinLfgRefused, LeaveLfg, HandleLfgSetRoles,
    HandleLfgProposalResult, LogoutPlayer, HandlePlayerLogin, LeaveGroup, AcceptInvitation,
    queueVars
<1>9. (\E o \in Owner : CheckLate(o)) \/ RunWorldMessage \/ EndUpdate \/ UNCHANGED vars
        => UNCHANGED proposals
  BY DEF CheckLate, RunWorldMessage, EndUpdate, vars, queueVars
<1> QED
  BY <1>3, <1>4, <1>5, <1>6, <1>7, <1>8, <1>9 DEF Next, QueueThread, TimePasses

LEMMA LookingStep ==
    ASSUME TypeOK, Looking, [Next]_vars
    PROVE  Looking'
<1>1. CASE RunMessage
  <2>1. UNCHANGED todo /\ \A i \in Id : proposals[i] # None => proposals'[i] # None
    <3>1. CASE UNCHANGED proposals
      BY <1>1, <3>1 DEF RunMessage
    <3>2. CASE proposals' # proposals
      <4> DEFINE m == Head(toQueue)
      <4>1. /\ m.op = "answer"
            /\ proposals' = [proposals EXCEPT ![m.id].answers[m.who] =
                                IF m.agree THEN "agree" ELSE "deny"]
            /\ proposals[m.id] # None
        BY <1>1, <3>2 DEF RunMessage, UpdateProposal
      <4>2. m.id \in Id
        BY <1>1, <4>1, Posted DEF RunMessage, Messages
      <4>3. proposals[m.id] \in Proposals
        BY <4>1, <4>2 DEF TypeOK
      <4>4. PICK S \in SUBSET Player :
              proposals[m.id].answers \in [S -> {"pending", "agree", "deny"}]
        BY <4>3 DEF Proposals, Answered
      <4>5. [proposals[m.id].answers EXCEPT ![m.who] = IF m.agree THEN "agree" ELSE "deny"]
               \in Answered
        BY <4>4 DEF Answered
      <4>6. proposals'[m.id] \in Proposals
        BY <4>1, <4>2, <4>3, <4>5 DEF TypeOK, Proposals
      <4> HIDE DEF m
      <4> QED
        BY <1>1, <4>1, <4>2, <4>6, NoneIsNoRecord DEF RunMessage, TypeOK
    <3> QED
      BY <3>1, <3>2
  <2> QED
    BY <2>1 DEF Looking, TypeOK
<1>2. CASE BeginUpdate
  BY <1>2 DEF BeginUpdate, Looking
<1>3. CASE Settle
  BY <1>3 DEF Settle, Looking, TypeOK
<1>4. CASE EndUpdate
  BY <1>4 DEF EndUpdate, Looking
<1>5. ASSUME NEW i \in Id, ProposalLate(i)
      PROVE  Looking'
  <2>1. proposals[i] \in Proposals /\ proposals' = [proposals EXCEPT ![i].late = TRUE]
        /\ UNCHANGED todo
    BY <1>5 DEF ProposalLate, TypeOK
  <2>2. proposals'[i] \in Proposals
    BY <2>1 DEF Proposals, TypeOK
  <2> QED
    BY <2>1, <2>2, NoneIsNoRecord DEF Looking, TypeOK
<1>6. ASSUME NEW p \in Player, Asks(p)
      PROVE  UNCHANGED <<proposals, todo>>
  BY <1>6 DEF Asks, JoinLfgParty, JoinLfgAlone, JoinLfgRefused, LeaveLfg, HandleLfgSetRoles,
    HandleLfgProposalResult, LogoutPlayer, HandlePlayerLogin, LeaveGroup, AcceptInvitation,
    queueVars
<1>7. (\E o \in Owner : CheckLate(o)) \/ RunWorldMessage \/ UNCHANGED vars
        => UNCHANGED <<proposals, todo>>
  BY DEF CheckLate, RunWorldMessage, vars, queueVars
<1> QED
  BY <1>1, <1>2, <1>3, <1>4, <1>5, <1>6, <1>7 DEF Next, QueueThread, TimePasses, Looking

-----------------------------------------------------------------------------
(* Consent.                                                                *)

WorldMessages == [id : Id, players : SUBSET Player]

LEMMA WillingStays ==
    ASSUME TypeOK, Grows, did'.count \in Nat, NEW m \in WorldMessages, Willing(m)
    PROVE  Willing(m)'
<1>1. m.id \in Id /\ did.count \in Nat /\ m.id <= did.count
  BY BoundsNat DEF WorldMessages, TypeOK, Willing
<1>2. m.id <= did'.count
  BY <1>1, BoundsNat DEF Grows
<1>3. ASSUME NEW p \in m.players
      PROVE  p \in DOMAIN did'.said[m.id] /\ did'.said[m.id][p] = "agree"
  BY <1>1 DEF Willing, Grows
<1> QED
  BY <1>2, <1>3 DEF Willing

\* A proposal is accepted when all its players are recorded to agree.
LEMMA AcceptedByAll ==
    ASSUME TypeOK, Recorded, NEW i \in Id, proposals[i] # None, Outcome(i) = "accept"
    PROVE  Willing([id |-> i, players |-> DOMAIN proposals[i].answers])
<1>1. /\ i <= did.count
      /\ DOMAIN did.said[i] = DOMAIN proposals[i].answers
      /\ \A p \in DOMAIN did.said[i] : proposals[i].answers[p] \in {"pending", did.said[i][p]}
  BY DEF Recorded
<1>2. proposals[i].answers \in Answered
  BY DEF TypeOK, Proposals
<1>3. \A p \in DOMAIN proposals[i].answers :
         proposals[i].answers[p] \in {"pending", "agree", "deny"}
  BY <1>2 DEF Answered
<1>4. Answers(i, "pending") = {} /\ Answers(i, "deny") = {}
  BY DEF Outcome
<1>5. \A p \in DOMAIN proposals[i].answers : proposals[i].answers[p] = "agree"
  BY <1>3, <1>4 DEF Answers
<1>6. \A p \in DOMAIN did.said[i] : did.said[i][p] = "agree"
  BY <1>1, <1>5
<1> QED
  BY <1>1, <1>6 DEF Willing

LEMMA AgreedStep ==
    ASSUME TypeOK, Letters, Recorded, Looking, Agreed, [Next]_vars
    PROVE  Agreed'
<1>1. Grows /\ did'.count \in Nat
  BY GrowsStep
<1>2. toWorld \in Seq(WorldMessages) /\ Len(toWorld) \in Nat
  BY DEF TypeOK, WorldMessages
<1>3. \A k \in 1..Len(toWorld) : Willing(toWorld[k]) /\ toWorld[k] \in WorldMessages
  BY <1>2 DEF Agreed
<1>4. \A m \in WorldMessages : Willing(m) => Willing(m)'
  BY <1>1, WillingStays
<1>5. CASE UNCHANGED toWorld
  BY <1>3, <1>4, <1>5 DEF Agreed, Willing
<1>6. CASE toWorld' = Tail(toWorld) /\ toWorld # <<>>
  <2>1. Len(toWorld') = Len(toWorld) - 1 /\ \A k \in 1..Len(toWorld) - 1 : toWorld'[k] = toWorld[k + 1]
    BY <1>2, <1>6
  <2>2. ASSUME NEW k \in 1..Len(toWorld')
        PROVE  Willing(toWorld[k])'
    <3>1. k + 1 \in 1..Len(toWorld) /\ toWorld'[k] = toWorld[k + 1]
      BY <1>2, <2>1, <2>2
    <3> QED
      BY <1>3, <1>4, <3>1 DEF Willing
  <2> QED
    BY <2>2 DEF Agreed
<1>7. ASSUME Settle, NEW i \in todo, Outcome(i) = "accept", AcceptProposal(i)
      PROVE  Agreed'
  <2>1. i \in Id /\ proposals[i] # None /\ proposals[i] \in Proposals
    BY <1>7 DEF Looking, TypeOK
  <2>2. PICK m : m = [id |-> i, players |-> DOMAIN proposals[i].answers]
    OBVIOUS
  <2>3. m \in WorldMessages
    BY <2>1, <2>2 DEF WorldMessages, Proposals, Answered
  <2>4. Willing(m)
    BY <1>7, <2>1, <2>2, AcceptedByAll
  <2>5. toWorld' = Append(toWorld, m)
    BY <1>7, <2>2 DEF AcceptProposal
  <2>6. /\ Len(toWorld') = Len(toWorld) + 1 /\ toWorld'[Len(toWorld) + 1] = m
        /\ \A k \in 1..Len(toWorld) : toWorld'[k] = toWorld[k]
    BY <1>2, <2>3, <2>5
  <2>7. ASSUME NEW k \in 1..Len(toWorld')
        PROVE  Willing(toWorld[k])'
    <3>1. CASE k \in 1..Len(toWorld)
      BY <1>3, <1>4, <2>6, <3>1 DEF Willing
    <3>2. CASE k = Len(toWorld) + 1
      BY <1>4, <2>3, <2>4, <2>6, <3>2 DEF Willing
    <3> QED
      BY <1>2, <2>6, <2>7, <3>1, <3>2
  <2> QED
    BY <2>7 DEF Agreed
<1>8. CASE Settle
  <2>1. PICK i \in todo :
         CASE Outcome(i) = "accept" -> AcceptProposal(i)
           [] Outcome(i) = "fail" -> FailProposal(i)
           [] Outcome(i) = "open" -> UNCHANGED <<data, toWorld>>
    BY <1>8 DEF Settle
  <2>2. CASE Outcome(i) = "accept"
    BY <1>7, <1>8, <2>1, <2>2
  <2>3. CASE Outcome(i) # "accept"
    <3>1. UNCHANGED toWorld
      BY <2>1, <2>3 DEF Outcome, FailProposal
    <3> QED
      BY <1>5, <3>1
  <2> QED
    BY <2>2, <2>3
<1>9. ASSUME NEW p \in Player, Asks(p)
      PROVE  UNCHANGED toWorld
  BY <1>9 DEF Asks, JoinLfgParty, JoinLfgAlone, JoinLfgRefused, LeaveLfg, HandleLfgSetRoles,
    HandleLfgProposalResult, LogoutPlayer, HandlePlayerLogin, LeaveGroup, AcceptInvitation
<1>10. RunMessage \/ BeginUpdate \/ EndUpdate \/ TimePasses \/ UNCHANGED vars => UNCHANGED toWorld
  BY DEF RunMessage, BeginUpdate, EndUpdate, TimePasses, CheckLate, ProposalLate, vars
<1> QED
  BY <1>5, <1>6, <1>8, <1>9, <1>10, WorldMessageType DEF Next, QueueThread

-----------------------------------------------------------------------------
(* Nobody waits for a proposal that is over.                               *)

\* A list of n members of a set of n, each once, lists them all.
LEMMA ListsAll ==
    ASSUME NEW S, IsFiniteSet(S), NEW s \in [1..Cardinality(S) -> S],
           \A j, k \in 1..Cardinality(S) : j # k => s[j] # s[k], NEW x \in S
    PROVE  \E j \in 1..Cardinality(S) : s[j] = x
<1> DEFINE n == Cardinality(S)
           T == S \ {x}
<1>1. n \in Nat /\ IsFiniteSet(T) /\ Cardinality(T) = n - 1 /\ n > 0
  BY FS_CardinalityType, FS_RemoveElement, FS_EmptySet
<1>2. IsFiniteSet(1..n) /\ Cardinality(1..n) = n
  BY <1>1, FS_Interval
<1>3. SUFFICES ASSUME \A j \in 1..n : s[j] # x
               PROVE  FALSE
  OBVIOUS
<1>4. s \in [1..n -> T]
  BY <1>3
<1>5. Cardinality(T) < Cardinality(1..n)
  BY <1>1, <1>2
<1>6. \E j, k \in 1..n : j # k /\ s[j] = s[k]
  <2> HIDE DEF n, T
  <2> QED
    BY <1>1, <1>2, <1>4, <1>5, FS_PigeonHole
<1> QED
  BY <1>6

Proposed(o) == data[o] # None /\ data[o].owner = o /\ data[o].state = "proposal"

LEMMA BackedKept ==
    ASSUME ProposalBacked,
           \A o \in Owner : Proposed(o)' => Proposed(o),
           \A i \in Id : proposals[i] # None => proposals'[i] # None
                                                /\ proposals'[i].owner = proposals[i].owner
    PROVE  ProposalBacked'
BY DEF ProposalBacked, Proposed

LEMMA PutProposed ==
    ASSUME TypeOK, NEW o \in Owner, NEW e \in {None} \cup Entries, Safe(o, e),
           data' = [data EXCEPT ![o] = e]
    PROVE  \A u \in Owner : Proposed(u)' => Proposed(u)
<1>1. ASSUME NEW u \in Owner, Proposed(u)'
      PROVE  Proposed(u)
  <2>1. CASE u = o
    BY <1>1, <2>1 DEF Safe, Proposed, TypeOK
  <2>2. CASE u # o
    BY <1>1, <2>2 DEF Proposed, TypeOK
  <2> QED
    BY <2>1, <2>2
<1> QED
  BY <1>1

LEMMA BackedMessage ==
    ASSUME TypeOK, Letters, ProposalBacked, RunMessage
    PROVE  ProposalBacked'
<1>1. \A u \in Owner : Proposed(u)' => Proposed(u)
  BY MessageData, PutProposed
<1>2. CASE UNCHANGED proposals
  BY <1>1, <1>2, BackedKept
<1>3. CASE proposals' # proposals
  <2> DEFINE m == Head(toQueue)
  <2>1. /\ m.op = "answer" /\ proposals[m.id] # None
        /\ proposals' = [proposals EXCEPT ![m.id].answers[m.who] =
                            IF m.agree THEN "agree" ELSE "deny"]
    BY <1>3 DEF RunMessage, UpdateProposal
  <2>2. m.id \in Id
    BY <2>1, Posted DEF RunMessage, Messages
  <2>3. proposals[m.id] \in Proposals
    BY <2>1, <2>2 DEF TypeOK
  <2>4. PICK S \in SUBSET Player :
          proposals[m.id].answers \in [S -> {"pending", "agree", "deny"}]
    BY <2>3 DEF Proposals, Answered
  <2>5. [proposals[m.id].answers EXCEPT ![m.who] = IF m.agree THEN "agree" ELSE "deny"]
           \in Answered
    BY <2>4 DEF Answered
  <2>6. proposals'[m.id] \in Proposals /\ proposals'[m.id].owner = proposals[m.id].owner
    BY <2>1, <2>2, <2>3, <2>5 DEF TypeOK, Proposals
  <2> HIDE DEF m
  <2>7. \A i \in Id : proposals[i] # None => proposals'[i] # None
                                             /\ proposals'[i].owner = proposals[i].owner
    BY <2>1, <2>2, <2>6, NoneIsNoRecord DEF TypeOK
  <2> QED
    BY <1>1, <2>7, BackedKept
<1> QED
  BY <1>2, <1>3

LEMMA BackedBegin ==
    ASSUME TypeOK, Recorded, ProposalBacked, BeginUpdate
    PROVE  ProposalBacked'
<1>1. PICK s \in [1..Cardinality(Pops) -> Pops] :
        /\ \A j, k \in 1..Cardinality(Pops) : j # k => s[j] # s[k]
        /\ Len(s) = Cardinality(Pops) /\ Len(s) \in Nat
        /\ did.count \in Nat /\ did.count + Len(s) <= MaxProposals
        /\ \A i \in Id :
              \/ /\ i - did.count \in 1..Len(s)
                 /\ proposals'[i] = NewProposal(s[i - did.count])
              \/ /\ i - did.count \notin 1..Len(s)
                 /\ proposals'[i] = proposals[i]
  BY BeginUpdateParts
<1>2. \A i \in Id : proposals[i] # None => proposals'[i] = proposals[i]
  <2>1. ASSUME NEW i \in Id, proposals[i] # None
        PROVE  i - did.count \notin 1..Len(s)
    BY <1>1, <2>1, BoundsNat DEF Recorded
  <2> QED
    BY <1>1, <2>1
<1>3. ASSUME NEW o \in Owner, Proposed(o)'
      PROVE  \E i \in Id : proposals'[i] # None /\ proposals'[i].owner = o
  <2>1. CASE o \in Pops
    <3>1. IsFiniteSet(Pops)
      BY BoundsNat, FS_Subset DEF Pops
    <3>2. PICK j \in 1..Cardinality(Pops) : s[j] = o
      BY <1>1, <2>1, <3>1, ListsAll
    <3> DEFINE i == did.count + j
    <3>3. i \in Id /\ i - did.count = j /\ j \in 1..Len(s)
      BY <1>1, <3>2, BoundsNat
    <3>4. proposals'[i] = NewProposal(o)
      BY <1>1, <3>2, <3>3
    <3>5. NewProposal(o) \in Proposals
      <4>1. data[o] \in Entries
        BY <2>1 DEF Pops, TypeOK
      <4>2. [p \in data[o].players |-> "pending"] \in Answered
        BY <4>1 DEF Answered, Entries
      <4> QED
        BY <4>2 DEF NewProposal, Proposals
    <3> QED
      BY <3>3, <3>4, <3>5, NoneIsNoRecord DEF NewProposal
  <2>2. CASE o \notin Pops
    <3>1. data'[o] \in {None, data[o]}
      BY <2>2, BeginUpdateType
    <3>2. Proposed(o)
      BY <1>3, <3>1 DEF Proposed
    <3> QED
      BY <1>2, <3>2 DEF ProposalBacked, Proposed
  <2> QED
    BY <2>1, <2>2
<1> QED
  BY <1>3 DEF ProposalBacked, Proposed

LEMMA BackedSettle ==
    ASSUME TypeOK, Looking, ProposalBacked, Settle
    PROVE  ProposalBacked'
<1>1. PICK i \in todo :
         /\ CASE Outcome(i) = "accept" -> AcceptProposal(i)
              [] Outcome(i) = "fail" -> FailProposal(i)
              [] Outcome(i) = "open" -> UNCHANGED <<data, toWorld>>
         /\ proposals' = [proposals EXCEPT ![i] = IF Outcome(i) = "open" THEN @ ELSE None]
  BY DEF Settle
<1> DEFINE o == proposals[i].owner
<1>2. i \in Id /\ proposals[i] \in Proposals /\ o \in Owner
  BY <1>1 DEF TypeOK, Looking, Proposals
<1>3. \A j \in Id : j # i => proposals'[j] = proposals[j]
  BY <1>1, <1>2 DEF TypeOK
<1>4. ASSUME \A u \in Owner : Proposed(u)' => Proposed(u) /\ u # o
      PROVE  ProposalBacked'
  <2>1. ASSUME NEW u \in Owner, Proposed(u)'
        PROVE  \E j \in Id : proposals'[j] # None /\ proposals'[j].owner = u
    <3>1. PICK j \in Id : proposals[j] # None /\ proposals[j].owner = u
      BY <1>4, <2>1 DEF ProposalBacked, Proposed
    <3>2. j # i
      BY <1>4, <2>1, <3>1
    <3> QED
      BY <1>3, <3>1, <3>2
  <2> QED
    BY <2>1 DEF ProposalBacked, Proposed
<1>5. CASE Outcome(i) = "accept"
  <2>1. data' = [data EXCEPT ![o] = None]
    BY <1>1, <1>5 DEF AcceptProposal, RemoveFromQueue
  <2> QED
    BY <1>2, <1>4, <2>1 DEF Proposed, TypeOK
<1>6. CASE Outcome(i) = "fail"
  <2> DEFINE Failed(e) == [e EXCEPT !.state = IF e.owner = o THEN "failed" ELSE "queued"]
  <2>1. PICK e \in Found(o) : data' = [data EXCEPT ![o] = Failed(e)]
    BY <1>1, <1>6 DEF FailProposal
  <2>2. e \in Entries
    BY <1>2, <2>1, FoundEntry DEF EntryOf
  <2>3. Failed(e).state # "proposal"
    BY <2>2 DEF Entries
  <2> HIDE DEF Failed
  <2> QED
    BY <1>2, <1>4, <2>1, <2>3 DEF Proposed, TypeOK
<1>7. CASE Outcome(i) = "open"
  <2>1. UNCHANGED data /\ UNCHANGED proposals
    BY <1>1, <1>2, <1>7 DEF TypeOK
  <2> QED
    BY <2>1 DEF ProposalBacked
<1> QED
  BY <1>5, <1>6, <1>7 DEF Outcome

LEMMA BackedStep ==
    ASSUME TypeOK, Letters, Recorded, Looking, ProposalBacked, [Next]_vars
    PROVE  ProposalBacked'
<1>1. CASE EndUpdate
  <2>1. \A o \in Owner : data'[o] \in {None, data[o]}
    BY <1>1 DEF EndUpdate
  <2>2. \A o \in Owner : Proposed(o)' => Proposed(o)
    BY <2>1 DEF Proposed
  <2> QED
    BY <1>1, <2>2, BackedKept DEF EndUpdate
<1>2. ASSUME NEW o \in Owner, CheckLate(o)
      PROVE  ProposalBacked'
  <2> DEFINE e == [data[o] EXCEPT !.late = TRUE]
  <2>1. data[o] \in Entries /\ data[o] # None /\ data' = [data EXCEPT ![o] = e]
    BY <1>2 DEF CheckLate, TypeOK
  <2>2. e.owner = data[o].owner /\ e.state = data[o].state
    BY <2>1 DEF Entries
  <2> HIDE DEF e
  <2>3. \A u \in Owner : Proposed(u)' => Proposed(u)
    BY <2>1, <2>2 DEF Proposed, TypeOK
  <2> QED
    BY <1>2, <2>3, BackedKept DEF CheckLate
<1>3. ASSUME NEW i \in Id, ProposalLate(i)
      PROVE  ProposalBacked'
  <2>1. proposals[i] \in Proposals /\ proposals' = [proposals EXCEPT ![i].late = TRUE]
        /\ UNCHANGED data
    BY <1>3 DEF ProposalLate, TypeOK
  <2>2. proposals'[i] \in Proposals /\ proposals'[i].owner = proposals[i].owner
    BY <2>1 DEF Proposals, TypeOK
  <2>3. \A j \in Id : proposals[j] # None => proposals'[j] # None
                                             /\ proposals'[j].owner = proposals[j].owner
    BY <2>1, <2>2, NoneIsNoRecord DEF TypeOK
  <2>4. \A u \in Owner : Proposed(u)' => Proposed(u)
    BY <2>1 DEF Proposed
  <2> QED
    BY <2>3, <2>4, BackedKept
<1>4. ASSUME NEW p \in Player, Asks(p)
      PROVE  UNCHANGED <<data, proposals>>
  BY <1>4 DEF Asks, JoinLfgParty, JoinLfgAlone, JoinLfgRefused, LeaveLfg, HandleLfgSetRoles,
    HandleLfgProposalResult, LogoutPlayer, HandlePlayerLogin, LeaveGroup, AcceptInvitation,
    queueVars
<1>5. RunWorldMessage \/ UNCHANGED vars => UNCHANGED <<data, proposals>>
  BY DEF RunWorldMessage, vars, queueVars
<1>6. UNCHANGED <<data, proposals>> => ProposalBacked'
  BY DEF ProposalBacked
<1> QED
  BY <1>1, <1>2, <1>3, <1>4, <1>5, <1>6, BackedMessage, BackedBegin, BackedSettle
  DEF Next, QueueThread, TimePasses

-----------------------------------------------------------------------------
(* The theorems.                                                           *)

LEMMA InductiveInit == Init => Inductive
<1> SUFFICES ASSUME Init
             PROVE  Inductive
  OBVIOUS
<1>1. Len(toQueue) = 0 /\ Len(toWorld) = 0 /\ todo = {}
  BY EmptySeq DEF Init
<1>2. Letters /\ Agreed /\ Looking
  BY <1>1 DEF Letters, Agreed, Looking
<1>3. Recorded /\ ProposalBacked
  BY DEF Init, Recorded, ProposalBacked
<1> QED
  BY <1>2, <1>3, TypeInit DEF Inductive

\* The types, what messages and proposals know of the answers, and that parties in a
\* proposal have one are kept together by every step.
THEOREM InductiveInvariant == Spec => []Inductive
<1>1. Inductive /\ [Next]_vars => Inductive'
  BY TypeStep, LettersStep, RecordedStep, LookingStep, AgreedStep, BackedStep DEF Inductive
<1> QED
  BY <1>1, InductiveInit, PTL DEF Spec

\* Every variable keeps its type (TypeOK): entries belong to their owners, only
\* players of an entry have roles, and nobody is in two groups.
THEOREM TypeCorrect == Spec => []TypeOK
<1>1. Inductive => TypeOK
  BY DEF Inductive
<1> QED
  BY <1>1, InductiveInvariant, PTL

\* Nobody goes to a dungeon who has not agreed to that proposal (Consent).
THEOREM NobodyGoesUnasked == Spec => []Consent
<1>1. Inductive => Consent
  BY DEF Inductive, Agreed, Willing, Consent
<1> QED
  BY <1>1, InductiveInvariant, PTL

\* A party in LFG_STATE_PROPOSAL has a proposal that is open (ProposalBacked).
THEOREM ProposalsAreBacked == Spec => []ProposalBacked
<1>1. Inductive => ProposalBacked
  BY DEF Inductive
<1> QED
  BY <1>1, InductiveInvariant, PTL

================================================================================
