------------------------- MODULE WorldSessions_proofs -------------------------
(***************************************************************************)
(* Proofs about WorldSessions, for any sockets, characters and bounds.     *)
(***************************************************************************)
EXTENDS WorldSessions, FiniteSetTheorems, SequenceTheorems, TLAPS

Live == 1..Len(sess)

\* Whatever names a session names one that was created.
Named ==
    /\ \A k \in Socket : ptr[k] \in Live \cup {None}
    /\ \A i \in 1..Len(addQueue) : addQueue[i] \in Live
    /\ \A i \in 1..Len(adding) : adding[i] \in Live
    /\ listed \in Live \cup {None}
    /\ at \in {"messages", "packets", "state"} => listed # None

\* The characters of the world that LoginCallback did not set adrift are that of the
\* listed session, whose next LogoutPlayer will act.
Homes ==
    \A p \in inWorld \ adrift :
        listed # None /\ sess[listed].player = p /\ ~sess[listed].recent

Stopping ==
    /\ stopping => inWorld \subseteq adrift
    /\ at \in {"results", "console"} => ~stopping
    /\ at = "stopped" => stopping

\* A session that does not save its player had this one or an earlier one kicked.
Last(s) == IF sess[s].player = None THEN Len(objects) ELSE sess[s].player

Marked ==
    \A s \in Live :
        /\ sess[s].player <= Len(objects)
        /\ ~sess[s].save => \E i \in 1..Len(kicks) : kicks[i].player <= Last(s)

Owned == Homes /\ Stopping

-----------------------------------------------------------------------------
(* What the methods do to a session record.                                *)

LEMMA Requested ==
    ASSUME NEW r \in Sessions, NEW time \in Timers, NEW save \in BOOLEAN, NEW kick \in BOOLEAN
    PROVE  LET q == LogoutRequest(r, time, save, kick) IN
           /\ q \in Sessions
           /\ q.player = r.player /\ q.recent = r.recent /\ q.inbox = r.inbox
           /\ q.logout = time /\ q.save = save
           /\ q.sock = r.sock /\ q.req = r.req /\ q.mail = r.mail
BY DEF LogoutRequest, Sessions

LEMMA WentOffline ==
    ASSUME NEW r \in Sessions
    PROVE  LET q == SetOffline(r) IN
           /\ q \in Sessions
           /\ q.player = r.player /\ q.recent = r.recent /\ q.inbox = r.inbox
           /\ q.logout = r.logout \/ r.player # None
           /\ q.save \in {r.save, TRUE}
<1>1. CASE r.player = None
  BY <1>1 DEF SetOffline, Sessions, States
<1>2. CASE r.player # None
  <2> DEFINE q == LogoutRequest(r, "wait", TRUE, FALSE)
  <2>1. /\ q \in Sessions /\ q.player = r.player /\ q.recent = r.recent /\ q.inbox = r.inbox
        /\ q.save = TRUE
    BY Requested DEF Timers
  <2>2. SetOffline(r) = [q EXCEPT !.sock = None, !.state = "offline"]
    BY <1>2 DEF SetOffline
  <2> HIDE DEF q
  <2> QED
    BY <1>2, <2>1, <2>2 DEF Sessions, States
<1> QED
  BY <1>1, <1>2

LEMMA WentOnline ==
    ASSUME NEW r \in Sessions
    PROVE  LET q == SetOnline(r) IN
           /\ q \in Sessions
           /\ q.player = r.player /\ q.recent = r.recent /\ q.inbox = r.inbox
           /\ q.logout = r.logout /\ q.save = r.save
BY DEF SetOnline, Sessions, States

LEMMA LoggedOut ==
    ASSUME NEW r \in Sessions
    PROVE  LET q == LogoutPlayer(r) IN
           /\ q \in Sessions
           /\ q.inbox = r.inbox /\ q.save = r.save
           /\ r.recent => q = r
           /\ ~r.recent => q.player = None /\ q.recent /\ q.logout = "none"
BY DEF LogoutPlayer, Sessions, States, Timers

LEMMA Attached ==
    ASSUME NEW r \in Sessions
    PROVE  LET q == [Attach(r, r.mail) EXCEPT !.mail = <<>>, !.inbox = <<>>] IN
           /\ q \in Sessions
           /\ q.player = r.player /\ q.recent = r.recent /\ q.inbox = <<>>
           /\ q.logout = r.logout /\ q.save = r.save
<1>1. r.mail # <<>> => Head(r.mail) \in Socket
  BY DEF Sessions
<1>2. /\ Attach(r, r.mail) \in Sessions
      /\ LET q == Attach(r, r.mail) IN
         q.player = r.player /\ q.recent = r.recent /\ q.logout = r.logout /\ q.save = r.save
  BY <1>1 DEF Attach, Sessions, States
<1>3. <<>> \in Seq(Socket) /\ <<>> \in Seq(Packets)
  BY EmptySeq
<1> QED
  BY <1>2, <1>3 DEF Sessions

LEMMA Welcome ==
    ASSUME NEW r \in Sessions
    PROVE  LET q == Welcomed(r) IN
           /\ q \in Sessions
           /\ q.player = r.player /\ ~q.recent /\ q.inbox = r.inbox
           /\ q.logout = r.logout /\ q.save = r.save
BY DEF Welcomed, Sessions

-----------------------------------------------------------------------------
(* Putting a record into the list of sessions.                             *)

LEMMA Put ==
    ASSUME NEW q \in Seq(Sessions), NEW s \in 1..Len(q), NEW r \in Sessions
    PROVE  LET new == [q EXCEPT ![s] = r] IN
           /\ new \in Seq(Sessions) /\ Len(new) = Len(q)
           /\ new[s] = r
           /\ \A t \in 1..Len(q) : t # s => new[t] = q[t]
OBVIOUS

LEMMA SessionFacts ==
    ASSUME TypeOK, NEW s \in Live
    PROVE  sess[s] \in Sessions
BY DEF TypeOK, Live

-----------------------------------------------------------------------------
(* The network threads.                                                    *)

\* The fields of a record that a network thread does not touch.
Alike(q, r) ==
    /\ q.player = r.player /\ q.logout = r.logout
    /\ q.recent = r.recent /\ q.save = r.save

\* A session that did not exist before.
Brand(r) == r.player = None /\ r.logout = "none" /\ ~r.recent /\ r.save /\ r.inbox = <<>>

LEMMA Letter ==
    ASSUME NEW r \in Sessions
    PROVE  /\ \A q \in Seq(Socket) : LET n == [r EXCEPT !.mail = q] IN
                 n \in Sessions /\ Alike(n, r) /\ n.inbox = r.inbox
           /\ \A q \in Seq(Packets) : LET n == [r EXCEPT !.inbox = q] IN
                 n \in Sessions /\ Alike(n, r) /\ n.inbox = q
BY DEF Sessions, Alike

LEMMA Connected ==
    ASSUME TypeOK, Named, NEW k \in Socket, Authenticated(k)
    PROVE  /\ TypeOK' /\ Named' /\ UNCHANGED worldVars
           /\ Len(sess') \in Nat /\ Len(sess) <= Len(sess')
           /\ \A s \in Live : /\ Alike(sess'[s], sess[s])
                              /\ sess'[s].inbox = sess[s].inbox
           /\ \A s \in Live' : s \notin Live => Brand(sess'[s])
           /\ \/ UNCHANGED addQueue
              \/ addQueue' = Append(addQueue, Len(sess) + 1) /\ Len(sess') = Len(sess) + 1
<1>0. /\ sess \in Seq(Sessions) /\ Len(sess) \in Nat /\ Len(sess) <= MaxSessions
      /\ ptr \in [Socket -> Sid \cup {None}] /\ MaxSessions \in Nat
  BY SessionAssumption DEF TypeOK
<1>1. ASSUME ptr[k] = None, Len(sess) < MaxSessions, sess' = Append(sess, NewSession(k)),
             ptr' = [ptr EXCEPT ![k] = Len(sess) + 1],
             addQueue' = Append(addQueue, Len(sess) + 1)
      PROVE  /\ sess' \in Seq(Sessions) /\ Len(sess') = Len(sess) + 1
             /\ \A s \in Live : sess'[s] = sess[s]
             /\ sess'[Len(sess) + 1] = NewSession(k) /\ Brand(NewSession(k))
             /\ ptr' \in [Socket -> Sid \cup {None}]
             /\ addQueue' \in Seq(Sid)
             /\ \A j \in Socket : ptr'[j] \in 1..Len(sess') \cup {None}
             /\ \A i \in 1..Len(addQueue') : addQueue'[i] \in 1..Len(sess')
  <2>1. NewSession(k) \in Sessions /\ Brand(NewSession(k))
    BY EmptySeq DEF NewSession, Sessions, States, Timers, Brand
  <2>2. Len(sess) + 1 \in Sid
    BY <1>0, <1>1 DEF Sid
  <2>3. /\ sess' \in Seq(Sessions) /\ Len(sess') = Len(sess) + 1
        /\ \A s \in Live : sess'[s] = sess[s]
        /\ sess'[Len(sess) + 1] = NewSession(k)
    BY <1>0, <1>1, <2>1 DEF Live
  <2>4. ptr' \in [Socket -> Sid \cup {None}]
    BY <1>0, <1>1, <2>2
  <2>5. \A j \in Socket : ptr'[j] \in 1..Len(sess') \cup {None}
    BY <1>0, <1>1, <2>3 DEF Named, Live
  <2>6. addQueue \in Seq(Sid) /\ Len(addQueue) \in Nat
    BY DEF TypeOK
  <2>7. /\ addQueue' \in Seq(Sid) /\ Len(addQueue') = Len(addQueue) + 1
        /\ \A i \in 1..Len(addQueue) : addQueue'[i] = addQueue[i]
        /\ addQueue'[Len(addQueue) + 1] = Len(sess) + 1
    BY <1>1, <2>2, <2>6
  <2>8. \A i \in 1..Len(addQueue') : addQueue'[i] \in 1..Len(sess')
    <3>1. ASSUME NEW i \in 1..Len(addQueue')
          PROVE  addQueue'[i] \in 1..Len(sess')
      <4>1. CASE i \in 1..Len(addQueue)
        BY <1>0, <2>3, <2>7, <4>1 DEF Named, Live
      <4>2. CASE i = Len(addQueue) + 1
        BY <1>0, <2>3, <2>7, <4>2
      <4> QED
        BY <2>6, <2>7, <3>1, <4>1, <4>2
    <3> QED
      BY <3>1
  <2> QED
    BY <2>1, <2>3, <2>4, <2>5, <2>7, <2>8
<1>2. ASSUME ptr[k] # None, sess' = [sess EXCEPT ![ptr[k]].mail = Append(@, k)],
             UNCHANGED <<ptr, addQueue>>
      PROVE  /\ sess' \in Seq(Sessions) /\ Len(sess') = Len(sess)
             /\ \A s \in Live : /\ Alike(sess'[s], sess[s])
                                /\ sess'[s].inbox = sess[s].inbox
  <2> DEFINE s == ptr[k]
             r == [sess[s] EXCEPT !.mail = Append(sess[s].mail, k)]
  <2>1. s \in 1..Len(sess) /\ sess[s] \in Sessions
    BY <1>2, SessionFacts DEF Named, Live
  <2>2. r \in Sessions /\ Alike(r, sess[s]) /\ r.inbox = sess[s].inbox
    <3>1. sess[s].mail \in Seq(Socket)
      BY <2>1 DEF Sessions
    <3>2. Append(sess[s].mail, k) \in Seq(Socket)
      BY <3>1
    <3> QED
      BY <2>1, <3>2, Letter
  <2>3. sess' = [sess EXCEPT ![s] = r]
    BY <1>0, <1>2, <2>1
  <2> HIDE DEF r, s
  <2> QED
    BY <1>0, <2>1, <2>2, <2>3, Put DEF Live, Alike
<1>3. link' \in [Socket -> {"new", "auth", "open", "closed"}]
      /\ UNCHANGED <<worldVars, asked>>
  BY DEF Authenticated, TypeOK
<1>4. CASE ptr[k] = None
  <2>1. /\ Len(sess) < MaxSessions /\ sess' = Append(sess, NewSession(k))
        /\ ptr' = [ptr EXCEPT ![k] = Len(sess) + 1]
        /\ addQueue' = Append(addQueue, Len(sess) + 1)
    BY <1>4 DEF Authenticated
  <2>2. /\ sess' \in Seq(Sessions) /\ Len(sess') = Len(sess) + 1
        /\ \A s \in Live : sess'[s] = sess[s]
        /\ sess'[Len(sess) + 1] = NewSession(k) /\ Brand(NewSession(k))
        /\ ptr' \in [Socket -> Sid \cup {None}]
        /\ addQueue' \in Seq(Sid)
        /\ \A j \in Socket : ptr'[j] \in 1..Len(sess') \cup {None}
        /\ \A i \in 1..Len(addQueue') : addQueue'[i] \in 1..Len(sess')
    BY <1>1, <1>4, <2>1
  <2>3. TypeOK'
    BY <1>0, <1>3, <2>1, <2>2 DEF TypeOK, worldVars, playerVars
  <2>4. Named'
    BY <1>0, <1>3, <2>2 DEF Named, Live, worldVars, playerVars
  <2>5. \A s \in Live' : s \notin Live => Brand(sess'[s])
    BY <1>0, <2>2 DEF Live
  <2>6. \A s \in Live : Alike(sess'[s], sess[s]) /\ sess'[s].inbox = sess[s].inbox
    BY <2>2 DEF Alike
  <2>7. Len(sess') \in Nat /\ Len(sess) <= Len(sess') /\ UNCHANGED worldVars
    BY <1>0, <1>3, <2>2
  <2> QED
    BY <2>1, <2>2, <2>3, <2>4, <2>5, <2>6, <2>7
<1>5. CASE ptr[k] # None
  <2>1. sess' = [sess EXCEPT ![ptr[k]].mail = Append(@, k)] /\ UNCHANGED <<ptr, addQueue>>
    BY <1>5 DEF Authenticated
  <2>2. /\ sess' \in Seq(Sessions) /\ Len(sess') = Len(sess)
        /\ \A s \in Live : /\ Alike(sess'[s], sess[s])
                           /\ sess'[s].inbox = sess[s].inbox
    BY <1>2, <1>5, <2>1
  <2>3. TypeOK'
    BY <1>0, <1>3, <2>1, <2>2 DEF TypeOK, worldVars, playerVars
  <2>4. Named'
    BY <1>3, <2>1, <2>2 DEF Named, Live, worldVars, playerVars
  <2>5. Live' = Live /\ UNCHANGED <<worldVars, addQueue>>
    BY <1>3, <2>1, <2>2 DEF Live
  <2>6. Len(sess') \in Nat /\ Len(sess) <= Len(sess')
    BY <1>0, <2>2
  <2> QED
    BY <2>2, <2>3, <2>4, <2>5, <2>6
<1> QED
  BY <1>4, <1>5

\* A packet arrives in one inbox.
LEMMA Received ==
    ASSUME TypeOK, Named, NEW k \in Socket, NEW p \in Packets, Receive(k, p)
    PROVE  /\ TypeOK' /\ Named' /\ UNCHANGED <<worldVars, addQueue>>
           /\ Len(sess') = Len(sess)
           /\ \E t \in Live :
                 /\ sess'[t].inbox = Append(sess[t].inbox, p) /\ sess[t].inbox \in Seq(Packets)
                 /\ Alike(sess'[t], sess[t])
                 /\ \A s \in Live : s # t => sess'[s] = sess[s]
<1> DEFINE t == ptr[k]
           r == [sess[t] EXCEPT !.inbox = Append(sess[t].inbox, p)]
<1>1. t \in Live /\ t \in 1..Len(sess) /\ sess[t] \in Sessions /\ sess \in Seq(Sessions)
  BY SessionFacts DEF Receive, Named, Live, TypeOK
<1>2. sess[t].inbox \in Seq(Packets)
  BY <1>1 DEF Sessions
<1>3. r \in Sessions /\ Alike(r, sess[t]) /\ r.inbox = Append(sess[t].inbox, p)
  <2>1. Append(sess[t].inbox, p) \in Seq(Packets)
    BY <1>2
  <2> QED
    BY <1>1, <2>1, Letter
<1>4. sess' = [sess EXCEPT ![t] = r]
  BY <1>1 DEF Receive
<1>5. asked' \in 0..MaxLogins
  <2>1. asked \in Nat /\ MaxLogins \in Nat /\ asked <= MaxLogins
    BY SessionAssumption DEF TypeOK
  <2> QED
    BY <2>1 DEF Receive
<1>6. UNCHANGED <<link, ptr, addQueue, worldVars>>
  BY DEF Receive
<1> HIDE DEF r, t
<1>8. /\ sess' \in Seq(Sessions) /\ Len(sess') = Len(sess)
      /\ sess'[t] = r /\ \A s \in Live : s # t => sess'[s] = sess[s]
  BY <1>1, <1>3, <1>4, Put DEF Live
<1>9. TypeOK'
  BY <1>5, <1>6, <1>8 DEF TypeOK, worldVars, playerVars
<1>10. Named'
  BY <1>6, <1>8 DEF Named, Live, worldVars, playerVars
<1> QED
  BY <1>1, <1>2, <1>3, <1>6, <1>8, <1>9, <1>10

-----------------------------------------------------------------------------
(* The world thread writes the record of the listed session.               *)

\* The session keeps its player.  The players of the world are as they were.
Stays(r, q) ==
    /\ q.player = r.player
    /\ q.recent => r.recent
    /\ q.logout # "none" => r.logout # "none" \/ r.player # None
    /\ inWorld' = inWorld /\ lost' = lost
    /\ listed' = None => r.player = None \/ r.recent

\* The session logs its player out.
Leaves(r, q) ==
    /\ ~r.recent
    /\ q.player = None /\ q.recent /\ q.logout = "none"
    /\ inWorld' = inWorld \ {r.player}
    /\ \/ lost' = lost
       \/ ~r.save /\ r.player # None /\ lost' \subseteq lost \cup {r.player}
    /\ listed' # None /\ ~stopping' => r.player # None \/ r.logout # "none"

\* What every step of the world thread but a log-in and a kick does to it.
Writes(q) ==
    /\ q \in Sessions
    /\ listed \in Live
    /\ sess' = [sess EXCEPT ![listed] = q]
    /\ listed' \in {listed, None}
    /\ q.save \in {sess[listed].save, TRUE}
    /\ UNCHANGED <<addQueue, adding, kicks, objects, broken, adrift, asked>>
    /\ Stays(sess[listed], q) \/ Leaves(sess[listed], q)

\* The sockets after the step, the players, and the rest of the types.
Wired ==
    /\ link' \in [Socket -> {"new", "auth", "open", "closed"}]
    /\ ptr' \in [Socket -> Sid \cup {None}]
    /\ \A k \in Socket : ptr'[k] \in Live \cup {None}

Peopled == inWorld' \subseteq Pid /\ lost' \subseteq Pid /\ saved' \subseteq Pid

Placed ==
    /\ at' \in {"add", "adding", "messages", "packets", "state", "results", "console",
                "stopped"}
    /\ at' \in {"messages", "packets", "state"} => listed' # None
    /\ stopping' \in BOOLEAN
    /\ packets' \in Seq(Packets) /\ pending' \in Seq(Char)
    /\ dead' \subseteq Sid

LEMMA Wiring ==
    ASSUME TypeOK, Named
    PROVE  /\ UNCHANGED <<link, ptr>> => Wired
           /\ \A K, F : Close(K, F) => Wired
<1>1. UNCHANGED <<link, ptr>> => Wired
  BY DEF TypeOK, Named, Wired
<1>2. ASSUME NEW K, NEW F, Close(K, F)
      PROVE  Wired
  BY <1>2 DEF Close, TypeOK, Named, Wired
<1> QED
  BY <1>1, <1>2

LEMMA Removal ==
    ASSUME TypeOK, NEW r \in Sessions, Removed(r)
    PROVE  /\ Peopled /\ UNCHANGED <<objects, broken, adrift>>
           /\ r.recent \/ r.player = None => inWorld' = inWorld /\ lost' = lost
           /\ ~r.recent => inWorld' = inWorld \ {r.player}
           /\ \/ lost' = lost
              \/ ~r.save /\ ~r.recent /\ r.player # None /\ lost' \subseteq lost \cup {r.player}
<1>1. r.player \in Pid \cup {None} /\ None \notin Pid /\ Leaving(r) \subseteq Pid
  BY DEF Sessions, Leaving, Pid, None
<1>2. inWorld \subseteq Pid /\ lost \subseteq Pid /\ saved \subseteq Pid
  BY DEF TypeOK
<1> QED
  BY <1>1, <1>2 DEF Removed, Leaving, Peopled

LEMMA Written ==
    ASSUME TypeOK, Named, NEW q, Writes(q)
    PROVE  /\ sess \in Seq(Sessions) /\ sess' \in Seq(Sessions) /\ Len(sess') = Len(sess)
           /\ Live' = Live /\ sess'[listed] = q
           /\ \A t \in Live : t # listed => sess'[t] = sess[t]
<1>1. sess \in Seq(Sessions) /\ q \in Sessions /\ listed \in 1..Len(sess)
      /\ sess' = [sess EXCEPT ![listed] = q]
  BY DEF TypeOK, Writes, Live
<1>2. /\ sess' \in Seq(Sessions) /\ Len(sess') = Len(sess)
      /\ sess'[listed] = q /\ \A t \in 1..Len(sess) : t # listed => sess'[t] = sess[t]
  BY <1>1, Put
<1> QED
  BY <1>1, <1>2 DEF Live

LEMMA Filed ==
    ASSUME TypeOK, Named, NEW q, Writes(q), Wired, Peopled, Placed
    PROVE  TypeOK' /\ Named'
<1>1. sess' \in Seq(Sessions) /\ Len(sess') = Len(sess) /\ Live' = Live
  BY Written
<1>2. UNCHANGED <<addQueue, adding, kicks, objects, broken, adrift, asked>>
      /\ listed' \in {listed, None} /\ listed \in Live
  BY DEF Writes
<1>3. TypeOK'
  BY <1>1, <1>2 DEF TypeOK, Wired, Peopled, Placed, Sid, Live
<1>4. Named'
  BY <1>1, <1>2 DEF Named, Wired, Placed
<1> QED
  BY <1>3, <1>4

-----------------------------------------------------------------------------
(* The switch over the state of the session.                               *)

\* A second LogoutPlayer, that of the destructor, does nothing.
LEMMA OnlyOnce ==
    ASSUME NEW r \in Sessions
    PROVE  Destroyed(LogoutPlayer(r)) = LogoutPlayer(r)
<1> DEFINE q == LogoutPlayer(r)
<1>1. q \in Sessions /\ q.recent
  BY LoggedOut
<1>2. LogoutPlayer(q) = q
  BY <1>1, LoggedOut
<1> QED
  BY <1>2 DEF Destroyed

\* r is the record of the session, or that record marked for a kick with a save.
LEMMA LogsOut ==
    ASSUME TypeOK, NEW r \in Sessions, NEW s \in Sessions, Removed(s),
           s.player = r.player, s.recent = r.recent, s.logout = r.logout,
           s.inbox = r.inbox, s.save \in {r.save, TRUE},
           listed' # None /\ ~stopping' => r.player # None \/ r.logout # "none"
    PROVE  LET q == LogoutPlayer(s) IN
           /\ q \in Sessions /\ q.inbox = r.inbox /\ q.save \in {r.save, TRUE}
           /\ Stays(r, q) \/ Leaves(r, q)
           /\ Peopled /\ UNCHANGED <<objects, broken, adrift>>
<1> DEFINE q == LogoutPlayer(s)
<1>1. /\ q \in Sessions /\ q.inbox = s.inbox /\ q.save = s.save
      /\ s.recent => q = s
      /\ ~s.recent => q.player = None /\ q.recent /\ q.logout = "none"
  BY LoggedOut
<1>2. /\ Peopled /\ UNCHANGED <<objects, broken, adrift>>
      /\ s.recent \/ s.player = None => inWorld' = inWorld /\ lost' = lost
      /\ ~s.recent => inWorld' = inWorld \ {s.player}
      /\ \/ lost' = lost
         \/ ~s.save /\ ~s.recent /\ s.player # None /\ lost' \subseteq lost \cup {s.player}
  BY Removal
<1>3. s.recent \in BOOLEAN /\ s.save \in BOOLEAN /\ r.save \in BOOLEAN
  BY DEF Sessions
<1> HIDE DEF q
<1>4. s.recent => Stays(r, q)
  BY <1>1, <1>2, <1>3 DEF Stays
<1>5. ~s.recent => Leaves(r, q)
  BY <1>1, <1>2, <1>3 DEF Leaves
<1> QED
  BY <1>1, <1>2, <1>3, <1>4, <1>5 DEF q

\* What a step of the switch comes to.
Outcome == \E q : Writes(q) /\ q.inbox = sess[listed].inbox /\ Wired /\ Peopled /\ Placed

LEMMA AtState ==
    ASSUME TypeOK, Named, NEW state, StateStep(state)
    PROVE  /\ listed \in Live /\ sess[listed] \in Sessions /\ sess[listed].save \in BOOLEAN
           /\ UNCHANGED <<addQueue, adding, kicks, asked>>
           /\ dead' \subseteq Sid => Placed
           /\ dead \subseteq Sid /\ dead \cup {listed} \subseteq Sid
<1>1. listed \in Live
  BY DEF Named, StateStep
<1>2. sess[listed] \in Sessions
  BY <1>1, SessionFacts
<1>3. dead \subseteq Sid /\ listed \in Sid
  <2>1. Len(sess) \in Nat /\ Len(sess) <= MaxSessions /\ MaxSessions \in Nat
    BY SessionAssumption DEF TypeOK
  <2> QED
    BY <1>1, <2>1 DEF TypeOK, Live, Sid
<1>4. UNCHANGED stateUnchanged /\ at' \in {"stopped", "results"}
  BY DEF StateStep
<1>5. dead' \subseteq Sid => Placed
  BY <1>4 DEF stateUnchanged, Placed, TypeOK
<1> QED
  BY <1>1, <1>2, <1>3, <1>4, <1>5 DEF stateUnchanged, Sessions

LEMMA Concludes ==
    ASSUME TypeOK, Named, NEW state, StateStep(state), Wired, Peopled,
           UNCHANGED <<objects, broken, adrift>>,
           NEW q \in Sessions, q.inbox = sess[listed].inbox,
           q.save \in {sess[listed].save, TRUE},
           Stays(sess[listed], q) \/ Leaves(sess[listed], q),
           Keep(q) \/ (End(q) /\ Destroyed(q) = q)
    PROVE  Outcome
<1>1. /\ listed \in Live /\ UNCHANGED <<addQueue, adding, kicks, asked>>
      /\ dead' \subseteq Sid => Placed
      /\ dead \subseteq Sid /\ dead \cup {listed} \subseteq Sid
  BY AtState
<1>2. /\ sess' = [sess EXCEPT ![listed] = q] /\ listed' \in {listed, None}
      /\ dead' \in {dead, dead \cup {listed}}
  <2>1. CASE Keep(q)
    BY <2>1 DEF Keep
  <2>2. CASE End(q) /\ Destroyed(q) = q
    BY <2>2 DEF End
  <2> QED
    BY <2>1, <2>2
<1>3. Writes(q)
  BY <1>1, <1>2 DEF Writes
<1>4. Placed
  BY <1>1, <1>2
<1> QED
  BY <1>3, <1>4 DEF Outcome

LEMMA SameAgain ==
    ASSUME TypeOK, Named, NEW r \in Sessions, UNCHANGED playerVars,
           listed' = None => r.player = None \/ r.recent
    PROVE  /\ Peopled /\ UNCHANGED <<objects, broken, adrift>>
           /\ \A q \in Sessions :
                 /\ q.player = r.player
                 /\ q.recent => r.recent
                 /\ q.logout # "none" => r.logout # "none" \/ r.player # None
                 => Stays(r, q)
BY DEF playerVars, Peopled, TypeOK, Stays

LEMMA Creating ==
    ASSUME TypeOK, Named, StateCreated
    PROVE  Outcome
<1> DEFINE r == sess[listed]
           q == IF r.req = None THEN r ELSE [SetOffline(r) EXCEPT !.sock = r.req, !.req = None]
           n == [q EXCEPT !.state = "charSelection"]
           old == IF r.req = None THEN {} ELSE {r.sock} \ {None}
<1>1. StateStep("created") /\ Keep(n) /\ Close(old, old) /\ UNCHANGED playerVars
  BY DEF StateCreated
<1>2. r \in Sessions /\ listed \in Live
  BY <1>1, AtState
<1>3. /\ q \in Sessions /\ q.player = r.player /\ q.recent = r.recent /\ q.inbox = r.inbox
      /\ q.logout = r.logout \/ r.player # None
      /\ q.save \in {r.save, TRUE}
  <2>1. CASE r.req = None
    BY <1>2, <2>1
  <2>2. CASE r.req # None
    <3> DEFINE o == SetOffline(r)
    <3>1. /\ o \in Sessions /\ o.player = r.player /\ o.recent = r.recent /\ o.inbox = r.inbox
          /\ o.logout = r.logout \/ r.player # None
          /\ o.save \in {r.save, TRUE}
      BY <1>2, WentOffline
    <3>2. r.req \in Socket
      BY <1>2, <2>2 DEF Sessions
    <3>3. q = [o EXCEPT !.sock = r.req, !.req = None]
      BY <2>2
    <3> HIDE DEF o, q
    <3> QED
      BY <3>1, <3>2, <3>3 DEF Sessions
  <2> QED
    BY <2>1, <2>2
<1> HIDE DEF q
<1>4. /\ n \in Sessions /\ n.player = r.player /\ n.recent = r.recent /\ n.inbox = r.inbox
      /\ n.logout = q.logout /\ n.save = q.save
  BY <1>3 DEF Sessions, States
<1>5. Wired
  BY <1>1, Wiring
<1>6. listed' # None
  BY <1>1, <1>2 DEF Keep, Live, None
<1>7. Peopled /\ UNCHANGED <<objects, broken, adrift>> /\ Stays(r, n)
  BY <1>1, <1>2, <1>3, <1>4, <1>6, SameAgain
<1> HIDE DEF n, r
<1> QED
  BY <1>1, <1>3, <1>4, <1>5, <1>7, Concludes DEF r

LEMMA SelectionCloses ==
    ASSUME TypeOK, Named, SelectionClosed
    PROVE  Outcome
<1> DEFINE r == sess[listed]
<1>1. /\ StateStep("charSelection") /\ End(r) /\ Removed(r)
      /\ Close({}, {Destroyed(r).sock} \ {None})
  BY DEF SelectionClosed
<1>2. r \in Sessions /\ Wired /\ listed' = None
  BY <1>1, AtState, Wiring DEF End
<1> HIDE DEF r
<1>3. CASE r.player = None
  <2>1. Peopled /\ UNCHANGED <<objects, broken, adrift>> /\ inWorld' = inWorld /\ lost' = lost
    BY <1>1, <1>2, <1>3, Removal
  <2>2. Stays(r, r)
    BY <1>2, <1>3, <2>1 DEF Stays
  <2>3. Destroyed(r) = r
    BY <1>3 DEF Destroyed
  <2> QED
    BY <1>1, <1>2, <2>1, <2>2, <2>3, Concludes DEF r
<1>4. CASE r.player # None
  <2> DEFINE q == LogoutPlayer(r)
  <2>1. /\ q \in Sessions /\ q.inbox = r.inbox /\ q.save \in {r.save, TRUE}
        /\ Stays(r, q) \/ Leaves(r, q)
        /\ Peopled /\ UNCHANGED <<objects, broken, adrift>>
    BY <1>1, <1>2, LogsOut
  <2>2. Destroyed(r) = q /\ Destroyed(q) = q
    BY <1>2, <1>4, OnlyOnce DEF Destroyed
  <2>3. End(q)
    BY <1>1, <2>2 DEF End
  <2> HIDE DEF q
  <2> QED
    BY <1>1, <1>2, <2>1, <2>2, <2>3, Concludes DEF r
<1> QED
  BY <1>3, <1>4

\* Keep(LogoutPlayer(r)) of the selection and of a session with a player.
LEMMA Parting ==
    ASSUME TypeOK, Named, SelectionLogout \/ ReadyLogout
    PROVE  Outcome
<1> DEFINE r == sess[listed]
           q == LogoutPlayer(r)
<1> PICK state \in {"charSelection", "ready"} :
        /\ StateStep(state) /\ Keep(q) /\ Removed(r) /\ Close(Kicked(r), {})
        /\ r.logout # "none" \/ r.player # None
  BY DEF SelectionLogout, ReadyLogout, ShouldLogOut
<1>1. r \in Sessions /\ Wired
  BY AtState, Wiring
<1>2. /\ q \in Sessions /\ q.inbox = r.inbox /\ q.save \in {r.save, TRUE}
      /\ Stays(r, q) \/ Leaves(r, q)
      /\ Peopled /\ UNCHANGED <<objects, broken, adrift>>
  BY <1>1, LogsOut
<1> HIDE DEF q
<1> QED
  BY <1>1, <1>2, Concludes

\* Nothing happens to the session.
LEMMA Waiting ==
    ASSUME TypeOK, Named, SelectionWaits \/ ReadyWaits \/ OfflineWaits
    PROVE  Outcome
<1> DEFINE r == sess[listed]
<1> PICK state \in States :
        StateStep(state) /\ Keep(r) /\ UNCHANGED <<link, ptr, playerVars>>
  BY DEF SelectionWaits, ReadyWaits, OfflineWaits, States
<1>1. r \in Sessions /\ Wired /\ listed \in Live /\ listed' # None
  BY AtState, Wiring DEF Keep, Live, None
<1>2. Peopled /\ UNCHANGED <<objects, broken, adrift>> /\ Stays(r, r)
  BY <1>1, SameAgain
<1> QED
  BY <1>1, <1>2, Concludes

LEMMA SelectionEnds ==
    ASSUME TypeOK, Named, SelectionTimeout
    PROVE  Outcome
<1> DEFINE r == sess[listed]
           s == [r EXCEPT !.save = TRUE, !.kick = TRUE]
           q == LogoutPlayer(s)
<1>1. /\ StateStep("charSelection") /\ End(q) /\ Removed(s)
      /\ Close({r.sock}, {q.sock} \ {None})
  BY DEF SelectionTimeout
<1>2. r \in Sessions /\ Wired /\ listed' = None
  BY <1>1, AtState, Wiring DEF End
<1>3. /\ s \in Sessions /\ s.player = r.player /\ s.recent = r.recent
      /\ s.logout = r.logout /\ s.inbox = r.inbox /\ s.save = TRUE
  BY <1>2 DEF Sessions
<1> HIDE DEF r, s
<1>4. /\ q \in Sessions /\ q.inbox = r.inbox /\ q.save \in {r.save, TRUE}
      /\ Stays(r, q) \/ Leaves(r, q)
      /\ Peopled /\ UNCHANGED <<objects, broken, adrift>>
  BY <1>1, <1>2, <1>3, LogsOut
<1>5. Destroyed(q) = q
  BY <1>3, OnlyOnce
<1> HIDE DEF q
<1> QED
  BY <1>1, <1>2, <1>4, <1>5, Concludes DEF r

LEMMA ReadyCloses ==
    ASSUME TypeOK, Named, ReadyClosed
    PROVE  Outcome
<1> DEFINE r == sess[listed]
           q == SetOffline(r)
<1>1. /\ StateStep("ready") /\ Close({}, {r.sock}) /\ UNCHANGED playerVars
      /\ IF r.player = None THEN End(r) ELSE Keep(q)
  BY DEF ReadyClosed
<1>2. r \in Sessions /\ Wired /\ listed \in Live
  BY <1>1, AtState, Wiring
<1>3. CASE r.player = None
  <2>1. Peopled /\ UNCHANGED <<objects, broken, adrift>> /\ Stays(r, r)
    BY <1>1, <1>2, <1>3, SameAgain
  <2>2. Destroyed(r) = r /\ End(r)
    BY <1>1, <1>3 DEF Destroyed
  <2> HIDE DEF r
  <2> QED
    BY <1>1, <1>2, <2>1, <2>2, Concludes DEF r
<1>4. CASE r.player # None
  <2>1. /\ q \in Sessions
        /\ q.player = r.player /\ q.recent = r.recent /\ q.inbox = r.inbox
        /\ q.save \in {r.save, TRUE}
    BY <1>2, WentOffline
  <2>2. Keep(q) /\ listed' # None
    BY <1>1, <1>2, <1>4 DEF Keep, Live, None
  <2> HIDE DEF q
  <2>3. Peopled /\ UNCHANGED <<objects, broken, adrift>> /\ Stays(r, q)
    BY <1>1, <1>2, <1>4, <2>1, <2>2, SameAgain
  <2> HIDE DEF r
  <2> QED
    BY <1>1, <1>2, <2>1, <2>2, <2>3, Concludes DEF r
<1> QED
  BY <1>3, <1>4

LEMMA OfflineEnds ==
    ASSUME TypeOK, Named, OfflineOver
    PROVE  Outcome
<1> DEFINE r == sess[listed]
           q == LogoutPlayer(r)
<1>1. /\ StateStep("offline") /\ Removed(r) /\ Wired
      /\ Keep(q) \/ End(q)
      /\ r.logout # "none"
  BY Wiring DEF OfflineOver, ShouldDisconnect
<1>2. r \in Sessions
  BY <1>1, AtState
<1>3. /\ q \in Sessions /\ q.inbox = r.inbox /\ q.save \in {r.save, TRUE}
      /\ Stays(r, q) \/ Leaves(r, q)
      /\ Peopled /\ UNCHANGED <<objects, broken, adrift>>
  BY <1>1, <1>2, LogsOut
<1>4. Destroyed(q) = q
  BY <1>2, OnlyOnce
<1> HIDE DEF q
<1> QED
  BY <1>1, <1>2, <1>3, <1>4, Concludes

\* The state of the session changes nothing but the record of the session.
LEMMA Switched ==
    ASSUME TypeOK, Named, UpdateState
    PROVE  /\ Outcome /\ UNCHANGED stateUnchanged
           /\ at' = IF stopping THEN "stopped" ELSE "results"
<1>1. Outcome
  BY Creating, SelectionCloses, Parting, Waiting, SelectionEnds, ReadyCloses, OfflineEnds
     DEF UpdateState
<1>2. \E state \in States : StateStep(state)
  BY DEF UpdateState, StateCreated, SelectionClosed, SelectionLogout, SelectionWaits,
         SelectionTimeout, ReadyClosed, ReadyLogout, ReadyWaits, OfflineOver, OfflineWaits,
         States
<1> QED
  BY <1>1, <1>2 DEF StateStep

-----------------------------------------------------------------------------
(* The messages and the packets of a session, its timer, and KickAll.      *)

LEMMA Elsewhere ==
    ASSUME TypeOK, Named, NEW r \in Sessions, UNCHANGED <<link, ptr, playerVars>>,
           listed' = listed, listed \in Live
    PROVE  /\ Wired /\ Peopled /\ UNCHANGED <<objects, broken, adrift>>
           /\ \A q \in Sessions :
                 /\ q.player = r.player
                 /\ q.recent => r.recent
                 /\ q.logout # "none" => r.logout # "none" \/ r.player # None
                 => Stays(r, q)
<1>1. listed' # None /\ UNCHANGED playerVars /\ UNCHANGED <<link, ptr>>
  BY DEF Live, None
<1> QED
  BY <1>1, Wiring, SameAgain

LEMMA Reading ==
    ASSUME TypeOK, Named, RunMessages
    PROVE  /\ \E q : Writes(q) /\ q.inbox = <<>>
           /\ Wired /\ Peopled /\ Placed
           /\ packets' = sess[listed].inbox
           /\ UNCHANGED <<listed, pending, stopping, inWorld, dead>>
           /\ at' = "packets"
<1> DEFINE r == sess[listed]
           q == [Attach(r, r.mail) EXCEPT !.mail = <<>>, !.inbox = <<>>]
<1>1. /\ at = "messages" /\ sess' = [sess EXCEPT ![listed] = q]
      /\ packets' = r.inbox /\ at' = "packets"
      /\ UNCHANGED <<link, ptr, playerVars>>
      /\ UNCHANGED <<dead, addQueue, adding, listed, pending, kicks, asked, stopping>>
  BY DEF RunMessages, playerVars
<1>2. listed \in Live /\ listed # None /\ r \in Sessions
  BY <1>1, SessionFacts DEF Named
<1>3. /\ q \in Sessions
      /\ q.player = r.player /\ q.recent = r.recent /\ q.inbox = <<>>
      /\ q.logout = r.logout /\ q.save = r.save
  BY <1>2, Attached
<1>4. r.inbox \in Seq(Packets)
  BY <1>2 DEF Sessions
<1> HIDE DEF q, r
<1>5. Wired /\ Peopled /\ UNCHANGED <<objects, broken, adrift>> /\ Stays(r, q)
  BY <1>1, <1>2, <1>3, Elsewhere
<1>6. Placed
  BY <1>1, <1>2, <1>4 DEF Placed, TypeOK
<1>7. Writes(q)
  BY <1>1, <1>2, <1>3, <1>5 DEF Writes, r
<1> QED
  BY <1>1, <1>3, <1>5, <1>6, <1>7 DEF r, playerVars

\* A packet leaves the queue; that of a log-in may start a query.
LEMMA Handling ==
    ASSUME TypeOK, Named, RunPacket
    PROVE  /\ \E q : /\ Writes(q) /\ q.inbox = sess[listed].inbox
                     /\ \/ pending' = pending
                        \/ /\ \E c \in Char : pending' = Append(pending, c)
                           /\ Head(packets).op = "login"
                           /\ q.player = None /\ ~q.recent
           /\ Wired /\ Peopled /\ Placed
           /\ packets # <<>> /\ packets \in Seq(Packets) /\ packets' = Tail(packets)
           /\ UNCHANGED <<listed, stopping, at, dead>> /\ at = "packets"
<1> DEFINE r == sess[listed]
           p == Head(packets)
<1>1. /\ at = "packets" /\ packets # <<>> /\ packets' = Tail(packets)
      /\ UNCHANGED <<dead, addQueue, adding, listed, at, kicks, asked, stopping>>
  BY DEF RunPacket
<1>2. listed \in Live /\ listed # None /\ r \in Sessions
  BY <1>1, SessionFacts DEF Named
<1>3. packets \in Seq(Packets) /\ packets' \in Seq(Packets) /\ p \in Packets
  BY <1>1 DEF TypeOK
<1>4. /\ dead' \subseteq Sid /\ stopping' \in BOOLEAN /\ pending \in Seq(Char)
      /\ inWorld \subseteq Pid /\ None \notin Pid
  BY <1>1 DEF TypeOK, Pid, None
<1>5. pending' \in Seq(Char) => Placed
  BY <1>1, <1>2, <1>3, <1>4 DEF Placed
<1> DEFINE Done(q) == /\ sess' = [sess EXCEPT ![listed] = q]
                      /\ q \in Sessions /\ q.inbox = r.inbox
                      /\ q.save \in {r.save, TRUE}
                      /\ Stays(r, q) \/ Leaves(r, q)
                      /\ Wired /\ Peopled /\ UNCHANGED <<objects, broken, adrift>>
<1>6. ASSUME NEW q, Done(q)
      PROVE  Writes(q)
  BY <1>1, <1>2, <1>6 DEF Writes
<1>7. ASSUME UNCHANGED <<link, ptr, playerVars>>, NEW q \in Sessions,
             sess' = [sess EXCEPT ![listed] = q],
             q.inbox = r.inbox, q.save \in {r.save, TRUE}, q.player = r.player,
             q.recent => r.recent, q.logout # "none" => r.logout # "none" \/ r.player # None
      PROVE  Done(q)
  <2>1. Wired /\ Peopled /\ UNCHANGED <<objects, broken, adrift>> /\ Stays(r, q)
    BY <1>1, <1>2, <1>7, Elsewhere
  <2> QED
    BY <1>7, <2>1
<1> DEFINE w == Welcomed(r)
<1>8. /\ w \in Sessions
      /\ w.player = r.player /\ ~w.recent /\ w.inbox = r.inbox
      /\ w.logout = r.logout /\ w.save = r.save
  BY <1>2, Welcome
<1>a. CASE p.op = "login" /\ LoginPacket(r, p.char)
  <2> DEFINE o == LogoutRequest(w, "none", TRUE, FALSE)
             q == SetOnline(o)
  <2>1. /\ o \in Sessions
        /\ o.player = r.player /\ ~o.recent /\ o.inbox = r.inbox
        /\ o.logout = "none" /\ o.save = TRUE
    BY <1>8, Requested DEF Timers
  <2> HIDE DEF w, o
  <2>2. /\ q \in Sessions
        /\ q.player = r.player /\ ~q.recent /\ q.inbox = r.inbox
        /\ q.logout = "none" /\ q.save = TRUE
    BY <2>1, WentOnline
  <2> HIDE DEF q
  <2>3. /\ \/ sess' = [sess EXCEPT ![listed] = q]
           \/ sess' = [sess EXCEPT ![listed] = w]
        /\ UNCHANGED <<link, ptr, playerVars>>
        /\ pending' = IF r.player = None THEN Append(pending, p.char) ELSE pending
    BY <1>a DEF LoginPacket, HolderNeeded, w, o, q
  <2> PICK n : (n = q \/ n = w) /\ sess' = [sess EXCEPT ![listed] = n]
    BY <2>3
  <2>4. /\ n \in Sessions /\ n.player = r.player /\ ~n.recent /\ n.inbox = r.inbox
        /\ n.logout \in {r.logout, "none"} /\ n.save \in {r.save, TRUE}
    BY <1>8, <2>2
  <2>5. Done(n)
    BY <1>7, <2>3, <2>4
  <2>6. p.char \in Char
    BY <1>3, <1>a DEF Packets
  <2>7. pending' = pending \/ (r.player = None /\ pending' = Append(pending, p.char))
    BY <2>3
  <2>8. pending' \in Seq(Char)
    BY <1>4, <2>6, <2>7
  <2> HIDE DEF p
  <2>9. /\ Writes(n) /\ n.inbox = r.inbox
        /\ \/ pending' = pending
           \/ /\ \E c \in Char : pending' = Append(pending, c)
              /\ p.op = "login"
              /\ n.player = None /\ ~n.recent
    <3>1. Writes(n)
      BY <1>6, <2>5
    <3> QED
      BY <1>a, <2>4, <2>6, <2>7, <3>1
  <2>10. Wired /\ Peopled /\ Placed
    BY <1>5, <2>5, <2>8
  <2> QED
    BY <1>1, <1>3, <2>9, <2>10 DEF p
<1>b. CASE \E q : Done(q) /\ pending' = pending
  <2> PICK q : Done(q) /\ pending' = pending
    BY <1>b
  <2>1. Writes(q) /\ Placed
    BY <1>4, <1>5, <1>6
  <2> QED
    BY <1>1, <1>3, <2>1
<1>c. ASSUME r.player \in inWorld, LogoutPacket(r)
      PROVE  \E q : Done(q) /\ pending' = pending
  <2>0. r.player # None
    BY <1>4, <1>c
  <2>1. CASE /\ \E time \in {"none", "wait"} :
                  sess' = [sess EXCEPT ![listed] = LogoutRequest(r, time, TRUE, FALSE)]
             /\ UNCHANGED <<link, ptr, playerVars>>
    <3> PICK time \in {"none", "wait"} :
               sess' = [sess EXCEPT ![listed] = LogoutRequest(r, time, TRUE, FALSE)]
      BY <2>1
    <3> DEFINE q == LogoutRequest(r, time, TRUE, FALSE)
    <3>0. time \in Timers
      BY DEF Timers
    <3>1. /\ q \in Sessions
          /\ q.player = r.player /\ q.recent = r.recent /\ q.inbox = r.inbox
          /\ q.logout = time /\ q.save = TRUE
      BY <1>2, <3>0, Requested
    <3> HIDE DEF q
    <3>2. Done(q)
      BY <1>7, <2>0, <2>1, <3>1 DEF q
    <3> QED
      BY <1>c, <3>2 DEF LogoutPacket
  <2>2. CASE /\ sess' = [sess EXCEPT ![listed] = LogoutPlayer(r)]
             /\ Removed(r)
             /\ Close(Kicked(r), {})
    <3> DEFINE q == LogoutPlayer(r)
    <3>1. /\ q \in Sessions /\ q.inbox = r.inbox /\ q.save \in {r.save, TRUE}
          /\ Stays(r, q) \/ Leaves(r, q)
          /\ Peopled /\ UNCHANGED <<objects, broken, adrift>>
      BY <1>2, <2>0, <2>2, LogsOut
    <3>2. Wired
      BY <2>2, Wiring
    <3>3. Done(q)
      BY <2>2, <3>1, <3>2
    <3> QED
      BY <1>c, <3>3 DEF LogoutPacket
  <2> QED
    BY <1>c, <2>1, <2>2 DEF LogoutPacket
<1>d. ASSUME r.player \in inWorld, CancelPacket(r)
      PROVE  \E q : Done(q) /\ pending' = pending
  <2> DEFINE q == LogoutRequest(r, "none", TRUE, FALSE)
  <2>1. /\ q \in Sessions
        /\ q.player = r.player /\ q.recent = r.recent /\ q.inbox = r.inbox
        /\ q.logout = "none" /\ q.save = TRUE
    BY <1>2, Requested DEF Timers
  <2>2. sess' = [sess EXCEPT ![listed] = q] /\ UNCHANGED <<link, ptr, playerVars, pending>>
    BY <1>d DEF CancelPacket
  <2> HIDE DEF q
  <2>3. Done(q)
    BY <1>7, <2>1, <2>2
  <2> QED
    BY <2>2, <2>3
<1>e. ASSUME sess' = [sess EXCEPT ![listed] = Welcomed(r)],
             UNCHANGED <<link, ptr, playerVars, pending>>
      PROVE  \E q : Done(q) /\ pending' = pending
  BY <1>7, <1>8, <1>e
<1>f. ASSUME UNCHANGED <<link, ptr, sess, playerVars, pending>>
      PROVE  \E q : Done(q) /\ pending' = pending
  <2>1. sess' = [sess EXCEPT ![listed] = r]
    <3>1. sess \in Seq(Sessions)
      BY DEF TypeOK
    <3> QED
      BY <1>2, <1>f, <3>1 DEF Live
  <2>2. r.save \in {r.save, TRUE} /\ r.inbox = r.inbox
    OBVIOUS
  <2>3. Done(r)
    BY <1>2, <1>7, <1>f, <2>1
  <2> QED
    BY <1>f, <2>3
<1> HIDE DEF Done, r
<1>9. \/ p.op = "login" /\ LoginPacket(r, p.char)
      \/ r.player \in inWorld /\ LogoutPacket(r)
      \/ r.player \in inWorld /\ CancelPacket(r)
      \/ /\ sess' = [sess EXCEPT ![listed] = Welcomed(r)]
         /\ UNCHANGED <<link, ptr, playerVars, pending>>
      \/ UNCHANGED <<link, ptr, sess, playerVars, pending>>
  BY DEF RunPacket, r
<1> QED
  BY <1>9, <1>a, <1>b, <1>c, <1>d, <1>e, <1>f

LEMMA Counting ==
    ASSUME TypeOK, Named, TimePasses
    PROVE  /\ \E q : Writes(q) /\ q.inbox = sess[listed].inbox
           /\ Wired /\ Peopled /\ Placed
           /\ UNCHANGED <<dead, listed, packets, pending, stopping, at, inWorld>>
<1> DEFINE r == sess[listed]
           time == IF r.logout = "wait" THEN "due" ELSE "gone"
           q == [r EXCEPT !.logout = time]
<1>1. /\ listed # None /\ r.logout \in {"wait", "due"}
      /\ sess' = [sess EXCEPT ![listed].logout = IF @ = "wait" THEN "due" ELSE "gone"]
      /\ UNCHANGED <<link, ptr, addQueue, asked>>
      /\ UNCHANGED worldVars
  BY DEF TimePasses
<1>2. listed \in Live /\ listed \in 1..Len(sess) /\ r \in Sessions /\ sess \in Seq(Sessions)
  BY <1>1, SessionFacts DEF Named, Live, TypeOK
<1>3. sess' = [sess EXCEPT ![listed] = q]
  BY <1>1, <1>2
<1>4. /\ q \in Sessions
      /\ q.player = r.player /\ q.recent = r.recent /\ q.inbox = r.inbox
      /\ q.save = r.save /\ r.logout # "none"
  BY <1>1, <1>2 DEF Sessions, Timers
<1> HIDE DEF q, r
<1>5. Wired /\ Peopled /\ UNCHANGED <<objects, broken, adrift>> /\ Stays(r, q)
  BY <1>1, <1>2, <1>4, Elsewhere DEF worldVars
<1>6. Placed
  BY <1>1, <1>2 DEF Placed, TypeOK, worldVars
<1>7. Writes(q)
  BY <1>1, <1>2, <1>3, <1>4, <1>5 DEF Writes, r, worldVars
<1> QED
  BY <1>1, <1>4, <1>5, <1>6, <1>7 DEF r, worldVars, playerVars

\* KickAll takes the player of the session out of the world.
LEMMA KicksAll ==
    ASSUME TypeOK, Named, CleanupsBeforeStop, listed # None
    PROVE  /\ \E q : Writes(q) /\ q.inbox = sess[listed].inbox
           /\ Wired /\ Peopled /\ Placed
           /\ \/ sess[listed].recent
              \/ inWorld' = inWorld \ {sess[listed].player}
<1> DEFINE r == sess[listed]
           s == [r EXCEPT !.save = TRUE, !.kick = TRUE]
           q == LogoutPlayer(s)
<1>1. /\ at' = "add" /\ stopping' = TRUE
      /\ UNCHANGED <<dead, addQueue, adding, listed, packets, pending, kicks, asked>>
  BY DEF CleanupsBeforeStop
<1>2. /\ sess' = [sess EXCEPT ![listed] = q]
      /\ IF q.player = s.player THEN UNCHANGED playerVars ELSE Removed(s)
      /\ Close({s.sock} \ {q.sock, None}, {})
  BY DEF CleanupsBeforeStop, KickAll
<1>3. listed \in Live /\ r \in Sessions
  BY SessionFacts DEF Named
<1>4. /\ s \in Sessions /\ s.player = r.player /\ s.recent = r.recent
      /\ s.logout = r.logout /\ s.inbox = r.inbox /\ s.save = TRUE
  BY <1>3 DEF Sessions
<1>5. Wired
  BY <1>2, Wiring
<1>6. Placed
  BY <1>1 DEF Placed, TypeOK
<1> HIDE DEF r, s
<1>7. /\ q \in Sessions /\ q.inbox = s.inbox /\ q.save = s.save
      /\ s.recent => q = s
      /\ ~s.recent => q.player = None /\ q.recent /\ q.logout = "none"
  BY <1>4, LoggedOut
<1> HIDE DEF q
<1>8. /\ Peopled /\ UNCHANGED <<objects, broken, adrift>>
      /\ Stays(r, q) \/ Leaves(r, q)
      /\ r.recent \/ inWorld' = inWorld \ {r.player}
  <2>1. CASE q.player = s.player
    <3>1. UNCHANGED playerVars
      BY <1>2, <2>1
    <3>2. Peopled /\ UNCHANGED <<objects, broken, adrift, inWorld, lost>>
      BY <3>1 DEF playerVars, Peopled, TypeOK
    <3>3. r.recent => Stays(r, q)
      BY <1>1, <1>4, <1>7, <3>2 DEF Stays
    <3>4. ~r.recent => r.player = None /\ inWorld' = inWorld \ {r.player}
      BY <1>4, <1>7, <2>1, <3>2 DEF TypeOK, Pid, None
    <3>5. ~r.recent => Leaves(r, q)
      BY <1>1, <1>4, <1>7, <3>2, <3>4 DEF Leaves
    <3> QED
      BY <3>2, <3>3, <3>4, <3>5
  <2>2. CASE q.player # s.player
    <3>1. Removed(s) /\ ~s.recent
      BY <1>2, <1>7, <2>2
    <3>2. /\ Peopled /\ UNCHANGED <<objects, broken, adrift>>
          /\ inWorld' = inWorld \ {s.player} /\ lost' = lost
      BY <1>4, <3>1, Removal
    <3>3. Leaves(r, q)
      BY <1>1, <1>4, <1>7, <3>1, <3>2 DEF Leaves
    <3> QED
      BY <1>4, <3>2, <3>3
  <2> QED
    BY <2>1, <2>2
<1>9. Writes(q)
  BY <1>1, <1>2, <1>3, <1>4, <1>7, <1>8 DEF Writes, r
<1> QED
  BY <1>4, <1>5, <1>6, <1>7, <1>8, <1>9 DEF r

-----------------------------------------------------------------------------
(* The kick of a session, and the answer to a log-in.                      *)

LEMMA Kicking ==
    ASSUME TypeOK, Named, KickPlayer
    PROVE  /\ TypeOK' /\ Named' /\ Live' = Live
           /\ listed \in Live
           /\ \E q \in Sessions :
                 /\ sess' = [sess EXCEPT ![listed] = q]
                 /\ q.inbox = sess[listed].inbox /\ q.player = sess[listed].player
                 /\ q.recent = sess[listed].recent
           /\ kicks' = Append(kicks, [session |-> listed, player |-> sess[listed].player])
           /\ UNCHANGED <<dead, addQueue, adding, listed, at, packets, pending, objects,
                          inWorld, lost, adrift, stopping>>
<1> DEFINE r == sess[listed]
           q == LogoutRequest(r, "due", FALSE, TRUE)
           n == [session |-> listed, player |-> r.player]
<1>1. /\ listed # None /\ kicks' = Append(kicks, n)
      /\ sess' = [sess EXCEPT ![listed] = LogoutRequest(@, "due", FALSE, TRUE)]
      /\ UNCHANGED <<link, ptr, dead, addQueue, adding, listed, at, packets,
                     pending, asked, stopping>>
      /\ UNCHANGED <<objects, inWorld, lost, broken, saved, adrift>>
  BY DEF KickPlayer, playerVars
<1>2. listed \in Live /\ listed \in 1..Len(sess) /\ r \in Sessions /\ sess \in Seq(Sessions)
  BY <1>1, SessionFacts DEF Named, Live, TypeOK
<1>3. sess' = [sess EXCEPT ![listed] = q]
  BY <1>1, <1>2
<1>4. q \in Sessions /\ q.inbox = r.inbox /\ q.player = r.player /\ q.recent = r.recent
  BY <1>2, Requested DEF Timers
<1> HIDE DEF q
<1>5. sess' \in Seq(Sessions) /\ Len(sess') = Len(sess)
  BY <1>2, <1>3, <1>4, Put
<1>6. listed \in Sid /\ r.player \in Pid \cup {None}
  <2>1. Len(sess) \in Nat /\ Len(sess) <= MaxSessions /\ MaxSessions \in Nat
    BY SessionAssumption DEF TypeOK
  <2> QED
    BY <1>2, <2>1 DEF Sid, Sessions
<1>7. kicks' \in Seq([session : Sid, player : Pid \cup {None}])
  <2>1. n \in [session : Sid, player : Pid \cup {None}]
    BY <1>6
  <2>2. kicks \in Seq([session : Sid, player : Pid \cup {None}])
    BY DEF TypeOK
  <2> HIDE DEF n
  <2> QED
    BY <1>1, <2>1, <2>2
<1>8. TypeOK'
  BY <1>1, <1>5, <1>7 DEF TypeOK
<1>9. Named' /\ Live' = Live
  BY <1>1, <1>5 DEF Named, Live
<1> QED
  BY <1>1, <1>2, <1>3, <1>4, <1>8, <1>9

\* The oldest answer is taken.  When there is a session a player is made for it,
\* in the world or kicked.
LEMMA Answering ==
    ASSUME TypeOK, Named, LoginCallback
    PROVE  /\ TypeOK' /\ Named' /\ Live' = Live
           /\ at = "results" /\ pending # <<>> /\ pending \in Seq(Char)
           /\ pending' = Tail(pending)
           /\ UNCHANGED <<dead, addQueue, adding, listed, at, packets, lost, stopping>>
           /\ \/ /\ listed = None
                 /\ UNCHANGED <<sess, objects, inWorld, adrift, kicks>>
              \/ /\ listed \in Live
                 /\ Len(objects') = Len(objects) + 1
                 /\ adrift \subseteq adrift'
                 /\ sess[listed].player # None => sess[listed].player \in adrift'
                 /\ sess[listed].recent => Len(objects) + 1 \in adrift'
                 /\ \E q \in Sessions :
                       /\ sess' = [sess EXCEPT ![listed] = q]
                       /\ q.inbox = sess[listed].inbox /\ q.player = Len(objects) + 1
                       /\ q.recent = sess[listed].recent
                       /\ \/ /\ q.save = sess[listed].save
                             /\ inWorld' = inWorld \cup {q.player} /\ kicks' = kicks
                          \/ /\ inWorld' = inWorld
                             /\ kicks' = Append(kicks, [session |-> listed,
                                                        player |-> q.player])
<1>1. /\ at = "results" /\ pending # <<>> /\ pending' = Tail(pending)
      /\ UNCHANGED <<link, ptr, dead, addQueue, adding, listed, at, packets, lost,
                     saved, asked, stopping>>
  BY DEF LoginCallback, Answered
<1>2. pending \in Seq(Char) /\ pending' \in Seq(Char) /\ Head(pending) \in Char
  BY <1>1 DEF TypeOK
<1>3. CASE listed = None /\ UNCHANGED <<sess, objects, inWorld, broken, adrift, kicks>>
  <2>1. TypeOK'
    BY <1>1, <1>2, <1>3 DEF TypeOK
  <2>2. Named' /\ Live' = Live
    BY <1>1, <1>3 DEF Named, Live
  <2> QED
    BY <1>1, <1>2, <1>3, <2>1, <2>2
<1>4. ASSUME NEW p \in Pid, Loading(p), NEW q \in Sessions,
             sess' = [sess EXCEPT ![listed] = q],
             q.inbox = sess[listed].inbox, q.player = p, q.recent = sess[listed].recent,
             \/ /\ q.save = sess[listed].save
                /\ inWorld' = inWorld \cup {p} /\ UNCHANGED <<broken, kicks>>
             \/ /\ broken' = broken \cup {p} /\ inWorld' = inWorld
                /\ kicks' = Append(kicks, [session |-> listed, player |-> p])
      PROVE  /\ TypeOK' /\ Named' /\ Live' = Live /\ listed \in Live
             /\ Len(objects') = Len(objects) + 1 /\ p = Len(objects) + 1
             /\ adrift \subseteq adrift'
             /\ sess[listed].player # None => sess[listed].player \in adrift'
             /\ sess[listed].recent => p \in adrift'
  <2>1. listed \in Live /\ sess \in Seq(Sessions) /\ listed \in 1..Len(sess)
    BY <1>4 DEF Loading, Named, Live, TypeOK
  <2>2. sess' \in Seq(Sessions) /\ Len(sess') = Len(sess)
    BY <1>4, <2>1, Put
  <2>3. /\ objects \in Seq(Char) /\ objects' = Append(objects, Head(pending))
        /\ p = Len(objects) + 1 /\ p \in Pid
    BY <1>4 DEF Loading, TypeOK
  <2>4. objects' \in Seq(Char) /\ Len(objects') = Len(objects) + 1
    BY <1>2, <2>3
  <2>5. Len(objects') <= MaxLogins
    BY <2>3, <2>4 DEF Pid
  <2>6. listed \in Sid
    <3>1. Len(sess) \in Nat /\ Len(sess) <= MaxSessions /\ MaxSessions \in Nat
      BY SessionAssumption DEF TypeOK
    <3> QED
      BY <2>1, <3>1 DEF Sid
  <2>7. kicks' \in Seq([session : Sid, player : Pid \cup {None}])
    <3> DEFINE n == [session |-> listed, player |-> p]
    <3>1. n \in [session : Sid, player : Pid \cup {None}]
      BY <1>4, <2>6
    <3>2. kicks \in Seq([session : Sid, player : Pid \cup {None}])
      BY DEF TypeOK
    <3>3. kicks' = kicks \/ kicks' = Append(kicks, n)
      BY <1>4
    <3> HIDE DEF n
    <3>4. Append(kicks, n) \in Seq([session : Sid, player : Pid \cup {None}])
      BY <3>1, <3>2
    <3> QED
      BY <3>2, <3>3, <3>4
  <2>8. inWorld' \subseteq Pid /\ broken' \subseteq Pid
    BY <1>4 DEF TypeOK
  <2>11. /\ adrift' = adrift \cup ({sess[listed].player} \ {None})
                            \cup (IF sess[listed].recent THEN {p} ELSE {})
         /\ adrift' \subseteq Pid
    <3>1. sess[listed].player \in Pid \cup {None}
      BY <2>1, SessionFacts DEF Sessions
    <3> QED
      BY <1>4, <3>1 DEF Loading, TypeOK
  <2>9. TypeOK'
    BY <1>1, <1>2, <2>2, <2>4, <2>5, <2>7, <2>8, <2>11 DEF TypeOK
  <2>10. Named' /\ Live' = Live
    BY <1>1, <2>2 DEF Named, Live
  <2> QED
    BY <2>1, <2>3, <2>4, <2>9, <2>10, <2>11
<1>5. ASSUME NEW p \in Pid, listed # None
      PROVE  LET m == [sess[listed] EXCEPT !.player = p]
                 o == SetOnline(m)
                 l == LogoutRequest(o, "due", FALSE, TRUE)
             IN  /\ o \in Sessions /\ o.inbox = sess[listed].inbox /\ o.player = p
                 /\ o.recent = sess[listed].recent /\ o.save = sess[listed].save
                 /\ l \in Sessions /\ l.inbox = sess[listed].inbox /\ l.player = p
                 /\ l.recent = sess[listed].recent
  <2> DEFINE m == [sess[listed] EXCEPT !.player = p]
             o == SetOnline(m)
             l == LogoutRequest(o, "due", FALSE, TRUE)
  <2>1. sess[listed] \in Sessions
    BY <1>5, SessionFacts DEF Named
  <2>2. /\ m \in Sessions /\ m.inbox = sess[listed].inbox /\ m.player = p
        /\ m.recent = sess[listed].recent /\ m.save = sess[listed].save
    BY <1>5, <2>1 DEF Sessions
  <2> HIDE DEF m
  <2>3. /\ o \in Sessions /\ o.inbox = m.inbox /\ o.player = m.player
        /\ o.recent = m.recent /\ o.save = m.save
    BY <2>2, WentOnline
  <2> HIDE DEF o
  <2>4. l \in Sessions /\ l.inbox = o.inbox /\ l.player = o.player /\ l.recent = o.recent
    BY <2>3, Requested DEF Timers
  <2> HIDE DEF l
  <2> QED
    BY <2>2, <2>3, <2>4 DEF l, o, m
<1>6. sess \in Seq(Sessions)
  BY DEF TypeOK
<1>7. CASE \E p \in Pid :
              /\ Loading(p)
              /\ sess' = [sess EXCEPT ![listed] = SetOnline([@ EXCEPT !.player = p])]
              /\ inWorld' = inWorld \cup {p}
              /\ UNCHANGED <<broken, kicks>>
  <2> PICK p \in Pid :
              /\ Loading(p)
              /\ sess' = [sess EXCEPT ![listed] = SetOnline([@ EXCEPT !.player = p])]
              /\ inWorld' = inWorld \cup {p}
              /\ UNCHANGED <<broken, kicks>>
    BY <1>7
  <2> DEFINE o == SetOnline([sess[listed] EXCEPT !.player = p])
  <2>1. listed # None /\ listed \in 1..Len(sess)
    BY DEF Loading, Named, Live
  <2>2. /\ o \in Sessions /\ o.inbox = sess[listed].inbox /\ o.player = p
        /\ o.recent = sess[listed].recent /\ o.save = sess[listed].save
    BY <1>5, <2>1
  <2>3. sess' = [sess EXCEPT ![listed] = o]
    BY <1>6, <2>1
  <2> HIDE DEF o
  <2>4. /\ TypeOK' /\ Named' /\ Live' = Live /\ listed \in Live
        /\ Len(objects') = Len(objects) + 1 /\ p = Len(objects) + 1
        /\ adrift \subseteq adrift'
        /\ sess[listed].player # None => sess[listed].player \in adrift'
        /\ sess[listed].recent => p \in adrift'
    BY <1>4, <2>2, <2>3
  <2> QED
    BY <1>1, <1>2, <2>2, <2>3, <2>4
<1>8. CASE \E p \in Pid :
              /\ Loading(p)
              /\ sess' = [sess EXCEPT ![listed] =
                             LogoutRequest(SetOnline([@ EXCEPT !.player = p]),
                                           "due", FALSE, TRUE)]
              /\ broken' = broken \cup {p}
              /\ kicks' = Append(kicks, [session |-> listed, player |-> p])
              /\ UNCHANGED inWorld
  <2> PICK p \in Pid :
              /\ Loading(p)
              /\ sess' = [sess EXCEPT ![listed] =
                             LogoutRequest(SetOnline([@ EXCEPT !.player = p]),
                                           "due", FALSE, TRUE)]
              /\ broken' = broken \cup {p}
              /\ kicks' = Append(kicks, [session |-> listed, player |-> p])
              /\ UNCHANGED inWorld
    BY <1>8
  <2> DEFINE l == LogoutRequest(SetOnline([sess[listed] EXCEPT !.player = p]),
                                "due", FALSE, TRUE)
  <2>1. listed # None /\ listed \in 1..Len(sess)
    BY DEF Loading, Named, Live
  <2>2. /\ l \in Sessions /\ l.inbox = sess[listed].inbox /\ l.player = p
        /\ l.recent = sess[listed].recent
    BY <1>5, <2>1
  <2>3. sess' = [sess EXCEPT ![listed] = l]
    BY <1>6, <2>1
  <2> HIDE DEF l
  <2>4. /\ TypeOK' /\ Named' /\ Live' = Live /\ listed \in Live
        /\ Len(objects') = Len(objects) + 1 /\ p = Len(objects) + 1
        /\ adrift \subseteq adrift'
        /\ sess[listed].player # None => sess[listed].player \in adrift'
        /\ sess[listed].recent => p \in adrift'
    BY <1>4, <2>2, <2>3
  <2> QED
    BY <1>1, <1>2, <2>2, <2>3, <2>4
<1> QED
  BY <1>3, <1>7, <1>8 DEF LoginCallback

-----------------------------------------------------------------------------
(* The steps that write no record.                                         *)

LEMMA Idle ==
    ASSUME TypeOK, Named,
           \/ TakeNewSessions \/ AddSession_ \/ AddingDone \/ PacketsDone \/ ResultsDone
           \/ NextTick \/ (CleanupsBeforeStop /\ listed = None)
    PROVE  /\ TypeOK' /\ Named'
           /\ UNCHANGED <<sess, objects, inWorld, lost, adrift, kicks, pending>>
           /\ packets' = packets \/ packets' = <<>>
           /\ at' \in {"results", "console"} => at = "results" \/ (listed = None /\ ~stopping)
           /\ at' = "stopped" => stopping
           /\ stopping' = stopping \/ listed = None
           /\ TakeNewSessions \/ AddSession_ \/ UNCHANGED <<addQueue, adding, listed>>
<1>0. /\ addQueue \in Seq(Sid) /\ adding \in Seq(Sid) /\ <<>> \in Seq(Sid)
      /\ <<>> \in Seq(Packets) /\ sess \in Seq(Sessions)
      /\ Len(addQueue) \in Nat /\ Len(adding) \in Nat
  BY EmptySeq DEF TypeOK
<1>1. CASE TakeNewSessions
  <2>1. TypeOK'
    BY <1>0, <1>1 DEF TakeNewSessions, TypeOK, playerVars
  <2>2. Named'
    BY <1>0, <1>1 DEF TakeNewSessions, Named, Live
  <2> QED
    BY <1>1, <2>1, <2>2 DEF TakeNewSessions, playerVars
<1>2. CASE AddSession_
  <2>1. adding # <<>> /\ adding' = Tail(adding) /\ listed' \in {listed, Head(adding)}
    BY <1>2 DEF AddSession_, Listed
  <2>2. /\ Head(adding) = adding[1] /\ 1 \in 1..Len(adding)
        /\ Tail(adding) \in Seq(Sid) /\ Len(Tail(adding)) = Len(adding) - 1
        /\ \A i \in 1..Len(Tail(adding)) : Tail(adding)[i] = adding[i + 1]
    BY <1>0, <2>1
  <2>3. Head(adding) \in Live /\ Head(adding) \in Sid
    BY <1>0, <2>2 DEF Named
  <2>4. TypeOK'
    BY <1>0, <1>2, <2>1, <2>2, <2>3 DEF AddSession_, TypeOK, playerVars
  <2>5. Live' = Live /\ UNCHANGED <<ptr, addQueue, at>> /\ at = "adding"
    BY <1>2 DEF AddSession_, Live
  <2>6. \A i \in 1..Len(adding') : adding'[i] \in Live
    <3>1. ASSUME NEW i \in 1..Len(adding')
          PROVE  adding'[i] \in Live
      <4>1. i + 1 \in 1..Len(adding) /\ adding'[i] = adding[i + 1]
        BY <1>0, <2>1, <2>2
      <4> QED
        BY <4>1 DEF Named
    <3> QED
      BY <3>1
  <2>7. Named'
    BY <2>1, <2>3, <2>5, <2>6 DEF Named
  <2> QED
    BY <1>2, <2>4, <2>7 DEF AddSession_, playerVars
<1>3. CASE AddingDone
  <2>1. at' \in {"messages", "stopped", "results"}
        /\ at' = "messages" => listed # None
    BY <1>3 DEF AddingDone
  <2>2. TypeOK'
    BY <1>3, <2>1 DEF AddingDone, TypeOK, playerVars
  <2>3. Named'
    BY <1>3, <2>1 DEF AddingDone, Named, Live
  <2>4. at' \in {"results", "stopped"} => listed = None
    BY <1>3 DEF AddingDone
  <2>5. (at' = "results" => ~stopping) /\ (at' = "stopped" => stopping)
    BY <1>3 DEF AddingDone
  <2> QED
    BY <1>3, <2>1, <2>2, <2>3, <2>4, <2>5 DEF AddingDone, playerVars
<1>4. CASE PacketsDone
  <2>1. TypeOK'
    BY <1>0, <1>4 DEF PacketsDone, TypeOK, playerVars
  <2>2. Named'
    BY <1>4 DEF PacketsDone, Named, Live
  <2> QED
    BY <1>4, <2>1, <2>2 DEF PacketsDone, playerVars
<1>5. CASE ResultsDone
  <2>1. TypeOK'
    BY <1>5 DEF ResultsDone, TypeOK, playerVars
  <2>2. Named'
    BY <1>5 DEF ResultsDone, Named, Live
  <2> QED
    BY <1>5, <2>1, <2>2 DEF ResultsDone, playerVars
<1>6. CASE NextTick
  <2>1. TypeOK'
    BY <1>6 DEF NextTick, TypeOK, playerVars
  <2>2. Named'
    BY <1>6 DEF NextTick, Named, Live
  <2> QED
    BY <1>6, <2>1, <2>2 DEF NextTick, playerVars
<1>7. CASE CleanupsBeforeStop /\ listed = None
  <2>1. TypeOK'
    BY <1>7 DEF CleanupsBeforeStop, TypeOK, playerVars
  <2>2. Named'
    BY <1>7 DEF CleanupsBeforeStop, Named, Live
  <2> QED
    BY <1>7, <2>1, <2>2 DEF CleanupsBeforeStop, playerVars
<1> QED
  BY <1>1, <1>2, <1>3, <1>4, <1>5, <1>6, <1>7

\* A socket looks for the session, or closes.
LEMMA Apart ==
    ASSUME TypeOK, Named, NEW k \in Socket, FindSession(k) \/ Disconnect(k)
    PROVE  /\ TypeOK' /\ Named'
           /\ UNCHANGED <<sess, addQueue, worldVars>>
<1>0. ptr \in [Socket -> Sid \cup {None}] /\ listed \in Sid \cup {None}
  BY DEF TypeOK
<1>1. link' \in [Socket -> {"new", "auth", "open", "closed"}]
  BY DEF FindSession, Disconnect, TypeOK
<1>2. ptr' \in [Socket -> Sid \cup {None}] /\ \A j \in Socket : ptr'[j] \in {ptr[j], listed}
  BY <1>0 DEF FindSession, Disconnect
<1>3. UNCHANGED <<sess, addQueue, asked>> /\ UNCHANGED worldVars
  BY DEF FindSession, Disconnect
<1>4. TypeOK'
  BY <1>1, <1>2, <1>3 DEF TypeOK, worldVars, playerVars
<1>5. Named'
  BY <1>2, <1>3 DEF Named, Live, worldVars, playerVars
<1> QED
  BY <1>3, <1>4, <1>5

-----------------------------------------------------------------------------
(* Types.                                                                  *)

LEMMA Beginning ==
    ASSUME Init
    PROVE  TypeOK /\ Named /\ Marked /\ UnsavedOnlyAfterKick /\ Owned
<1>1. TypeOK
  <2>1. /\ <<>> \in Seq(Sessions) /\ <<>> \in Seq(Sid) /\ <<>> \in Seq(Packets)
        /\ <<>> \in Seq(Char) /\ <<>> \in Seq([session : Sid, player : Pid \cup {None}])
    BY EmptySeq
  <2>2. Len(<<>>) = 0 /\ MaxSessions \in Nat /\ MaxLogins \in Nat
    BY SessionAssumption
  <2>3. /\ link = [k \in Socket |-> "new"] /\ ptr = [k \in Socket |-> None]
        /\ sess = <<>> /\ dead = {} /\ addQueue = <<>> /\ adding = <<>>
        /\ listed = None /\ at = "add" /\ packets = <<>> /\ pending = <<>>
        /\ objects = <<>> /\ inWorld = {} /\ lost = {} /\ broken = {} /\ saved = {}
        /\ adrift = {}
        /\ kicks = <<>> /\ asked = 0 /\ stopping = FALSE
    BY DEF Init
  <2>4. /\ link \in [Socket -> {"new", "auth", "open", "closed"}]
        /\ ptr \in [Socket -> Sid \cup {None}]
    BY <2>3
  <2>5. /\ sess \in Seq(Sessions) /\ addQueue \in Seq(Sid) /\ adding \in Seq(Sid)
        /\ packets \in Seq(Packets) /\ pending \in Seq(Char) /\ objects \in Seq(Char)
        /\ kicks \in Seq([session : Sid, player : Pid \cup {None}])
    BY <2>1, <2>3
  <2>6. Len(sess) <= MaxSessions /\ Len(objects) <= MaxLogins /\ asked \in 0..MaxLogins
    BY <2>2, <2>3
  <2> QED
    BY <2>3, <2>4, <2>5, <2>6 DEF TypeOK
<1>2. Named /\ Marked /\ UnsavedOnlyAfterKick
  BY DEF Init, Named, Marked, Live, UnsavedOnlyAfterKick
<1>3. Owned
  BY DEF Init, Owned, Homes, Stopping
<1> QED
  BY <1>1, <1>2, <1>3

LEMMA TypeStep ==
    ASSUME TypeOK, Named, [Next]_vars
    PROVE  TypeOK' /\ Named'
<1>1. CASE \E k \in Socket : NetworkStep(k)
  BY <1>1, Apart, Connected, Received DEF NetworkStep
<1>2. CASE \/ TakeNewSessions \/ AddSession_ \/ AddingDone \/ PacketsDone \/ ResultsDone
           \/ NextTick \/ (CleanupsBeforeStop /\ listed = None)
  BY <1>2, Idle
<1>3. CASE RunMessages
  BY <1>3, Reading, Filed
<1>4. CASE RunPacket
  BY <1>4, Handling, Filed
<1>5. CASE UpdateState
  BY <1>5, Switched, Filed DEF Outcome
<1>6. CASE LoginCallback
  BY <1>6, Answering
<1>7. CASE KickPlayer
  BY <1>7, Kicking
<1>8. CASE CleanupsBeforeStop /\ listed # None
  BY <1>8, KicksAll, Filed
<1>9. CASE TimePasses
  BY <1>9, Counting, Filed
<1>10. CASE UNCHANGED vars
  BY <1>10 DEF vars, playerVars, TypeOK, Named, Live
<1> QED
  BY <1>1, <1>2, <1>3, <1>4, <1>5, <1>6, <1>7, <1>8, <1>9, <1>10
     DEF Next, WorldStep, Stopped

\* Every variable has its type.
THEOREM TypeCorrect == Spec => []TypeOK
<1>1. Init => TypeOK /\ Named
  BY Beginning
<1>2. TypeOK /\ Named /\ [Next]_vars => (TypeOK /\ Named)'
  BY TypeStep
<1> QED
  BY <1>1, <1>2, PTL DEF Spec

-----------------------------------------------------------------------------
(* Who is not saved was kicked, or one before him.                         *)

\* History only grows, and a number of a player is at most their count.
LEMMA Histories ==
    ASSUME TypeOK
    PROVE  /\ Len(kicks) \in Nat /\ Len(objects) \in Nat
           /\ \A s \in Live : /\ sess[s] \in Sessions /\ sess[s].player \in Nat
                              /\ sess[s].save \in BOOLEAN /\ Last(s) \in Nat
           /\ \A i \in 1..Len(kicks) : kicks[i].player \in Nat
           /\ lost \subseteq Nat
<1>1. /\ Len(kicks) \in Nat /\ Len(objects) \in Nat /\ lost \subseteq Pid /\ Pid \subseteq Nat
      /\ None \in Nat
  BY DEF TypeOK, Pid, None
<1>2. \A s \in Live : sess[s] \in Sessions
  BY SessionFacts
<1>3. \A i \in 1..Len(kicks) : kicks[i] \in [session : Sid, player : Pid \cup {None}]
  <2>1. kicks \in Seq([session : Sid, player : Pid \cup {None}])
    BY DEF TypeOK
  <2> QED
    BY <2>1, ElementOfSeq
<1> QED
  BY <1>1, <1>2, <1>3 DEF Sessions, Last

LEMMA KickRecorded ==
    ASSUME TypeOK, NEW n, kicks' = Append(kicks, n)
    PROVE  /\ Len(kicks') = Len(kicks) + 1 /\ kicks'[Len(kicks) + 1] = n
           /\ \A i \in 1..Len(kicks) : kicks'[i] = kicks[i]
<1>1. kicks \in Seq([session : Sid, player : Pid \cup {None}])
  BY DEF TypeOK
<1> QED
  BY <1>1, AppendProperties

LEMMA MarkedWrite ==
    ASSUME TypeOK, Named, Marked, UnsavedOnlyAfterKick, NEW q, Writes(q)
    PROVE  Marked' /\ UnsavedOnlyAfterKick'
<1> DEFINE r == sess[listed]
<1>1. /\ Live' = Live /\ sess'[listed] = q /\ listed \in Live
      /\ \A t \in Live : t # listed => sess'[t] = sess[t]
  BY Written DEF Writes
<1>2. /\ kicks' = kicks /\ objects' = objects /\ q.save \in {r.save, TRUE}
      /\ \/ q.player = r.player /\ lost' = lost
         \/ /\ q.player = None
            /\ \/ lost' = lost
               \/ ~r.save /\ r.player # None /\ lost' \subseteq lost \cup {r.player}
  BY DEF Writes, Stays, Leaves
<1>3. /\ Len(objects) \in Nat /\ r.player \in Nat /\ r.player <= Len(objects)
      /\ r.save \in BOOLEAN
      /\ ~r.save => \E i \in 1..Len(kicks) : kicks[i].player <= Last(listed)
      /\ \A i \in 1..Len(kicks) : kicks[i].player \in Nat
  BY <1>1, Histories DEF Marked
<1>4. Marked'
  <2>1. ASSUME NEW s \in Live
        PROVE  /\ sess'[s].player <= Len(objects)
               /\ ~sess'[s].save =>
                      \E i \in 1..Len(kicks) :
                          kicks[i].player <= (IF sess'[s].player = None THEN Len(objects)
                                              ELSE sess'[s].player)
    <3>1. CASE s # listed
      BY <1>1, <2>1, <3>1 DEF Marked, Last
    <3>2. CASE s = listed
      <4>1. q.player <= Len(objects)
        BY <1>2, <1>3 DEF None
      <4>2. ASSUME ~q.save
            PROVE  \E i \in 1..Len(kicks) :
                          kicks[i].player <= (IF q.player = None THEN Len(objects)
                                              ELSE q.player)
        <5>1. ~r.save
          BY <1>2, <4>2
        <5>2. PICK i \in 1..Len(kicks) : kicks[i].player <= Last(listed)
          BY <1>3, <5>1
        <5>3. Last(listed) <= Len(objects) /\ Last(listed) \in Nat
          BY <1>1, <1>3, Histories DEF Last
        <5>4. CASE q.player = None
          <6>1. kicks[i].player \in Nat
            BY <1>3
          <6>2. kicks[i].player <= Len(objects)
            BY <1>3, <5>2, <5>3, <6>1
          <6> QED
            BY <5>4, <6>2
        <5>5. CASE q.player # None
          BY <1>2, <5>2, <5>5 DEF Last
        <5> QED
          BY <5>4, <5>5
      <4> QED
        BY <1>1, <3>2, <4>1, <4>2
    <3> QED
      BY <3>1, <3>2
  <2> QED
    BY <1>1, <1>2, <2>1 DEF Marked, Last
<1>5. UnsavedOnlyAfterKick'
  <2>1. ASSUME NEW p \in lost'
        PROVE  \E i \in 1..Len(kicks) : kicks[i].player <= p
    <3>1. CASE p \in lost
      BY <3>1 DEF UnsavedOnlyAfterKick
    <3>2. CASE p \notin lost
      <4>1. p = r.player /\ ~r.save /\ r.player # None
        BY <1>2, <2>1, <3>2
      <4> QED
        BY <1>3, <4>1 DEF Last
    <3> QED
      BY <3>1, <3>2
  <2> QED
    BY <1>2, <2>1 DEF UnsavedOnlyAfterKick
<1> QED
  BY <1>4, <1>5

LEMMA MarkedKick ==
    ASSUME TypeOK, Named, Marked, UnsavedOnlyAfterKick, KickPlayer
    PROVE  Marked' /\ UnsavedOnlyAfterKick'
<1> DEFINE r == sess[listed]
           n == [session |-> listed, player |-> r.player]
<1>1. /\ Live' = Live /\ listed \in Live /\ kicks' = Append(kicks, n)
      /\ UNCHANGED <<objects, lost>>
      /\ \E q \in Sessions : sess' = [sess EXCEPT ![listed] = q] /\ q.player = r.player
  BY Kicking
<1> PICK q \in Sessions : sess' = [sess EXCEPT ![listed] = q] /\ q.player = r.player
  BY <1>1
<1>2. /\ Len(kicks') = Len(kicks) + 1 /\ kicks'[Len(kicks) + 1] = n
      /\ \A i \in 1..Len(kicks) : kicks'[i] = kicks[i]
  BY <1>1, KickRecorded
<1>3. sess'[listed] = q /\ \A t \in Live : t # listed => sess'[t] = sess[t]
  <2>1. sess \in Seq(Sessions) /\ listed \in 1..Len(sess)
    BY <1>1 DEF TypeOK, Live
  <2> QED
    BY <2>1, Put DEF Live
<1>4. /\ Len(kicks) \in Nat /\ Len(objects) \in Nat /\ r.player \in Nat
      /\ r.player <= Len(objects)
  BY <1>1, Histories DEF Marked
<1>5. ASSUME NEW s \in Live
      PROVE  /\ sess'[s].player <= Len(objects)
             /\ ~sess'[s].save =>
                    \E i \in 1..Len(kicks') :
                        kicks'[i].player <= (IF sess'[s].player = None THEN Len(objects)
                                             ELSE sess'[s].player)
  <2>1. CASE s # listed
    BY <1>2, <1>3, <1>4, <1>5, <2>1 DEF Marked, Last
  <2>2. CASE s = listed
    <3>1. n.player <= (IF q.player = None THEN Len(objects) ELSE q.player)
      BY <1>4
    <3> QED
      BY <1>2, <1>3, <1>4, <2>2, <3>1
  <2> QED
    BY <2>1, <2>2
<1>6. Marked'
  BY <1>1, <1>5 DEF Marked, Last
<1>7. UnsavedOnlyAfterKick'
  BY <1>1, <1>2, <1>4 DEF UnsavedOnlyAfterKick
<1> QED
  BY <1>6, <1>7

LEMMA MarkedAnswer ==
    ASSUME TypeOK, Named, Marked, UnsavedOnlyAfterKick, LoginCallback
    PROVE  Marked' /\ UnsavedOnlyAfterKick'
<1> DEFINE r == sess[listed]
           n == [session |-> listed, player |-> Len(objects) + 1]
<1>1. Live' = Live /\ lost' = lost
  BY Answering
<1>2. CASE UNCHANGED <<sess, objects, inWorld, kicks>>
  BY <1>1, <1>2 DEF Marked, Last, UnsavedOnlyAfterKick
<1>3. CASE /\ listed \in Live
           /\ Len(objects') = Len(objects) + 1
           /\ \E q \in Sessions :
                 /\ sess' = [sess EXCEPT ![listed] = q]
                 /\ q.player = Len(objects) + 1
                 /\ \/ q.save = r.save /\ kicks' = kicks
                    \/ kicks' = Append(kicks, n)
  <2> PICK q \in Sessions :
                 /\ sess' = [sess EXCEPT ![listed] = q]
                 /\ q.player = Len(objects) + 1
                 /\ \/ q.save = r.save /\ kicks' = kicks
                    \/ kicks' = Append(kicks, n)
    BY <1>3
  <2>1. sess'[listed] = q /\ \A t \in Live : t # listed => sess'[t] = sess[t]
    <3>1. sess \in Seq(Sessions) /\ listed \in 1..Len(sess)
      BY <1>3 DEF TypeOK, Live
    <3> QED
      BY <3>1, Put DEF Live
  <2>2. /\ Len(kicks) \in Nat /\ Len(kicks') \in Nat /\ Len(kicks) <= Len(kicks')
        /\ \A i \in 1..Len(kicks) : kicks'[i] = kicks[i]
        /\ kicks' = Append(kicks, n) => kicks'[Len(kicks')] = n /\ Len(kicks') = Len(kicks) + 1
    <3>1. Len(kicks) \in Nat
      BY Histories
    <3>2. ASSUME kicks' = Append(kicks, n)
          PROVE  /\ Len(kicks') = Len(kicks) + 1 /\ kicks'[Len(kicks) + 1] = n
                 /\ \A i \in 1..Len(kicks) : kicks'[i] = kicks[i]
      BY <3>2, KickRecorded
    <3>3. kicks' = kicks => Len(kicks') = Len(kicks) /\ kicks' # Append(kicks, n)
      <4>1. Len(Append(kicks, n)) = Len(kicks) + 1
        BY AppendProperties DEF TypeOK
      <4> QED
        BY <3>1, <4>1
    <3> HIDE DEF n
    <3> QED
      BY <3>1, <3>2, <3>3
  <2>3. Len(objects) \in Nat
    BY Histories
  <2>4. \A i \in 1..Len(kicks) : i \in 1..Len(kicks')
    BY <2>2
  <2>5. ASSUME NEW s \in Live
        PROVE  /\ sess'[s].player <= Len(objects')
               /\ ~sess'[s].save =>
                      \E i \in 1..Len(kicks') :
                          kicks'[i].player <= (IF sess'[s].player = None THEN Len(objects')
                                               ELSE sess'[s].player)
    <3>0. /\ sess[s].player \in Nat /\ sess[s].player <= Len(objects)
          /\ ~sess[s].save => \E i \in 1..Len(kicks) : kicks[i].player <= Last(s)
          /\ \A i \in 1..Len(kicks) : kicks[i].player \in Nat
          /\ Last(s) \in Nat /\ Last(s) <= Len(objects)
      BY <2>3, Histories DEF Marked, Last
    <3>1. CASE s # listed
      <4>1. sess'[s] = sess[s] /\ sess[s].player <= Len(objects')
        BY <1>3, <2>1, <2>3, <3>0, <3>1
      <4>2. ASSUME ~sess[s].save
            PROVE  \E i \in 1..Len(kicks') :
                          kicks'[i].player <= (IF sess[s].player = None THEN Len(objects')
                                               ELSE sess[s].player)
        <5>1. PICK i \in 1..Len(kicks) : kicks[i].player <= Last(s)
          BY <3>0, <4>2
        <5>2. kicks'[i].player <= Last(s) /\ kicks'[i].player \in Nat /\ i \in 1..Len(kicks')
          BY <2>2, <2>4, <3>0, <5>1
        <5> QED
          BY <1>3, <2>3, <3>0, <5>2 DEF Last
      <4> QED
        BY <4>1, <4>2
    <3>2. CASE s = listed
      <4>1. q.player <= Len(objects') /\ q.player # None
        BY <1>3, <2>3 DEF None
      <4>2. ASSUME ~q.save
            PROVE  \E i \in 1..Len(kicks') : kicks'[i].player <= Len(objects) + 1
        <5>1. CASE q.save = r.save /\ kicks' = kicks
          <6>1. PICK i \in 1..Len(kicks) : kicks[i].player <= Last(s)
            BY <3>0, <3>2, <4>2, <5>1
          <6>2. kicks[i].player \in Nat /\ kicks[i].player <= Len(objects) + 1
            BY <2>3, <3>0, <6>1
          <6> QED
            BY <5>1, <6>2
        <5>2. CASE kicks' = Append(kicks, n)
          BY <2>2, <2>3, <5>2
        <5> QED
          BY <5>1, <5>2
      <4> QED
        BY <2>1, <3>2, <4>1, <4>2
    <3> QED
      BY <3>1, <3>2
  <2>6. Marked'
    BY <1>1, <2>5 DEF Marked, Last
  <2>7. UnsavedOnlyAfterKick'
    BY <1>1, <2>2, <2>4 DEF UnsavedOnlyAfterKick
  <2> QED
    BY <2>6, <2>7
<1> QED
  BY <1>2, <1>3, Answering

LEMMA MarkedConnect ==
    ASSUME TypeOK, Named, Marked, UnsavedOnlyAfterKick,
           Len(sess') \in Nat, UNCHANGED worldVars,
           \A s \in Live : Alike(sess'[s], sess[s]),
           \A s \in Live' : s \notin Live => Brand(sess'[s])
    PROVE  Marked' /\ UnsavedOnlyAfterKick'
<1>1. UNCHANGED <<kicks, objects, lost>>
  BY DEF worldVars, playerVars
<1>2. Len(objects) \in Nat
  BY Histories
<1>3. ASSUME NEW s \in Live'
      PROVE  /\ sess'[s].player <= Len(objects)
             /\ ~sess'[s].save =>
                    \E i \in 1..Len(kicks) :
                        kicks[i].player <= (IF sess'[s].player = None THEN Len(objects)
                                            ELSE sess'[s].player)
  <2>1. CASE s \in Live
    BY <2>1 DEF Alike, Marked, Last
  <2>2. CASE s \notin Live
    BY <1>2, <1>3, <2>2 DEF Brand, None
  <2> QED
    BY <2>1, <2>2
<1>4. Marked'
  BY <1>1, <1>3 DEF Marked, Last
<1>5. UnsavedOnlyAfterKick'
  BY <1>1 DEF UnsavedOnlyAfterKick
<1> QED
  BY <1>4, <1>5

LEMMA MarkedStep ==
    ASSUME TypeOK, Named, Marked, UnsavedOnlyAfterKick, [Next]_vars
    PROVE  Marked' /\ UnsavedOnlyAfterKick'
<1>0. ASSUME UNCHANGED <<sess, objects, kicks, lost>>
      PROVE  Marked' /\ UnsavedOnlyAfterKick'
  BY <1>0 DEF Marked, Live, Last, UnsavedOnlyAfterKick
<1>1. CASE \E k \in Socket : FindSession(k) \/ Disconnect(k)
  <2>1. UNCHANGED <<sess, objects, kicks, lost>>
    BY <1>1, Apart DEF worldVars, playerVars
  <2> QED
    BY <1>0, <2>1
<1>2. CASE \E k \in Socket : Authenticated(k)
  BY <1>2, Connected, MarkedConnect
<1>3. CASE \E k \in Socket, p \in Packets : Receive(k, p)
  <2> PICK k \in Socket, p \in Packets : Receive(k, p)
    BY <1>3
  <2>1. /\ Len(sess') = Len(sess) /\ UNCHANGED worldVars
        /\ \A s \in Live : Alike(sess'[s], sess[s])
    BY Received DEF Alike
  <2>2. Len(sess') \in Nat /\ Live' = Live
    BY <2>1 DEF TypeOK, Live
  <2> QED
    BY <2>1, <2>2, MarkedConnect
<1>4. CASE \/ TakeNewSessions \/ AddSession_ \/ AddingDone \/ PacketsDone \/ ResultsDone
           \/ NextTick \/ (CleanupsBeforeStop /\ listed = None)
  <2>1. UNCHANGED <<sess, objects, kicks, lost>>
    BY <1>4, Idle
  <2> QED
    BY <1>0, <2>1
<1>5. CASE RunMessages
  BY <1>5, Reading, MarkedWrite
<1>6. CASE RunPacket
  BY <1>6, Handling, MarkedWrite
<1>7. CASE UpdateState
  BY <1>7, Switched, MarkedWrite DEF Outcome
<1>8. CASE LoginCallback
  BY <1>8, MarkedAnswer
<1>9. CASE KickPlayer
  BY <1>9, MarkedKick
<1>10. CASE CleanupsBeforeStop /\ listed # None
  BY <1>10, KicksAll, MarkedWrite
<1>11. CASE TimePasses
  BY <1>11, Counting, MarkedWrite
<1>12. CASE UNCHANGED vars
  <2>1. UNCHANGED <<sess, objects, kicks, lost>>
    BY <1>12 DEF vars, playerVars
  <2> QED
    BY <1>0, <2>1
<1> QED
  BY <1>1, <1>2, <1>3, <1>4, <1>5, <1>6, <1>7, <1>8, <1>9, <1>10, <1>11, <1>12
     DEF Next, NetworkStep, WorldStep, Stopped

\* A character leaves the world without a save only when it, or the session before it had
\* one, or one that the account played before it, was kicked: whatever clients do.
THEOREM UnsavedWereKicked == Spec => []UnsavedOnlyAfterKick
<1> DEFINE Inv == TypeOK /\ Named /\ Marked /\ UnsavedOnlyAfterKick
<1>1. Init => Inv
  BY Beginning
<1>2. Inv /\ [Next]_vars => Inv'
  BY TypeStep, MarkedStep
<1>3. Inv => UnsavedOnlyAfterKick
  OBVIOUS
<1> HIDE DEF Inv
<1> QED
  BY <1>1, <1>2, <1>3, PTL DEF Spec

-----------------------------------------------------------------------------
(* The ownership of the characters.                                        *)

\* A step that leaves the sessions with their players.
LEMMA HomesQuiet ==
    ASSUME TypeOK, Named, Homes, UNCHANGED <<listed, inWorld, adrift>>,
           \A s \in Live : Alike(sess'[s], sess[s])
    PROVE  Homes'
<1>1. listed # None => Alike(sess'[listed], sess[listed])
  BY DEF Named
<1> QED
  BY <1>1 DEF Homes, Alike

\* The players of the world, whatever step of the world thread writes the record.
LEMMA HomesWrite ==
    ASSUME TypeOK, Named, Homes, NEW q, Writes(q)
    PROVE  Homes' /\ inWorld' \subseteq inWorld
<1> DEFINE r == sess[listed]
<1>1. /\ sess'[listed] = q /\ listed # None
      /\ listed' \in {listed, None} /\ adrift' = adrift
      /\ Stays(r, q) \/ Leaves(r, q)
  BY Written DEF Writes, Live, None
<1>2. \A p \in inWorld \ adrift : r.player = p /\ p # None /\ ~r.recent
  BY DEF Homes, TypeOK, Pid, None
<1> HIDE DEF r
<1>3. CASE Stays(r, q)
  BY <1>1, <1>2, <1>3 DEF Stays, Homes
<1>4. CASE Leaves(r, q)
  <2>1. inWorld' = inWorld \ {r.player}
    BY <1>4 DEF Leaves
  <2>2. inWorld' \subseteq adrift
    BY <1>2, <2>1
  <2> QED
    BY <1>1, <2>1, <2>2 DEF Homes
<1> QED
  BY <1>1, <1>3, <1>4

LEMMA StoppingKept ==
    ASSUME Stopping, stopping' = stopping, inWorld' \subseteq inWorld, adrift' = adrift,
           at' \in {"results", "console"} => at \in {"results", "console"} \/ ~stopping,
           at' = "stopped" => stopping
    PROVE  Stopping'
BY DEF Stopping

LEMMA OwnedNetwork ==
    ASSUME TypeOK, Named, Owned, NEW k \in Socket, NetworkStep(k)
    PROVE  Owned'
<1>1. UNCHANGED worldVars /\ \A s \in Live : Alike(sess'[s], sess[s])
  <2>1. CASE FindSession(k) \/ Disconnect(k)
    BY <2>1, Apart DEF Alike
  <2>2. CASE Authenticated(k)
    BY <2>2, Connected
  <2>3. CASE \E p \in Packets : Receive(k, p)
    BY <2>3, Received DEF Alike
  <2> QED
    BY <2>1, <2>2, <2>3 DEF NetworkStep
<1>2. UNCHANGED <<listed, inWorld, adrift, stopping, at>>
  BY <1>1 DEF worldVars, playerVars
<1> QED
  BY <1>1, <1>2, HomesQuiet DEF Owned, Stopping

LEMMA OwnedIdle ==
    ASSUME TypeOK, Named, Owned,
           \/ TakeNewSessions \/ AddSession_ \/ AddingDone \/ PacketsDone \/ ResultsDone
           \/ NextTick \/ (CleanupsBeforeStop /\ listed = None)
    PROVE  Owned'
<1>1. /\ UNCHANGED <<sess, inWorld, adrift>>
      /\ at' \in {"results", "console"} => at = "results" \/ (listed = None /\ ~stopping)
      /\ at' = "stopped" => stopping
      /\ stopping' = stopping \/ listed = None
  BY Idle
<1>2. listed' = listed \/ listed = None
  BY Idle DEF TakeNewSessions, AddSession_, Listed
<1>3. stopping' = stopping \/ (stopping' /\ at' = "add")
  BY DEF TakeNewSessions, AddSession_, AddingDone, PacketsDone, ResultsDone, NextTick,
         CleanupsBeforeStop
<1>4. listed = None => inWorld \subseteq adrift
  BY DEF Owned, Homes
<1> QED
  BY <1>1, <1>2, <1>3, <1>4 DEF Owned, Homes, Stopping

\* The messages, the packets and the state of the session, and its timer.
LEMMA OwnedSession ==
    ASSUME TypeOK, Named, Owned, RunMessages \/ RunPacket \/ UpdateState \/ TimePasses
    PROVE  Owned'
<1>1. \E q : Writes(q)
  BY Reading, Handling, Switched, Counting DEF Outcome
<1>2. Homes' /\ inWorld' \subseteq inWorld /\ adrift' = adrift
  BY <1>1, HomesWrite DEF Owned, Writes
<1>3. /\ stopping' = stopping
      /\ at' \in {"results", "console"} => at \in {"results", "console"} \/ ~stopping
      /\ at' = "stopped" => stopping \/ at = "stopped"
  <2>1. CASE RunMessages
    BY <2>1, Reading
  <2>2. CASE RunPacket
    BY <2>2, Handling
  <2>3. CASE UpdateState
    BY <2>3, Switched DEF stateUnchanged
  <2>4. CASE TimePasses
    BY <2>4, Counting
  <2> QED
    BY <2>1, <2>2, <2>3, <2>4
<1> QED
  BY <1>2, <1>3, StoppingKept DEF Owned, Stopping

\* KickAll takes the player of the session out of the world.
LEMMA OwnedStop ==
    ASSUME TypeOK, Named, Owned, CleanupsBeforeStop, listed # None
    PROVE  Owned'
<1>1. stopping' = TRUE /\ at' = "add"
  BY DEF CleanupsBeforeStop
<1>2. Homes' /\ inWorld' \subseteq inWorld /\ adrift' = adrift
  BY KicksAll, HomesWrite DEF Owned, Writes
<1>3. \A p \in inWorld \ adrift : sess[listed].player = p /\ ~sess[listed].recent
  BY DEF Owned, Homes
<1>4. inWorld' \subseteq adrift
  BY <1>2, <1>3, KicksAll
<1> QED
  BY <1>1, <1>2, <1>4 DEF Owned, Stopping

LEMMA OwnedKick ==
    ASSUME TypeOK, Named, Owned, KickPlayer
    PROVE  Owned'
<1>1. /\ listed \in Live /\ listed \in 1..Len(sess) /\ sess \in Seq(Sessions)
      /\ UNCHANGED <<listed, at, inWorld, adrift, stopping>>
  BY Kicking DEF Live, TypeOK
<1> PICK q \in Sessions : /\ sess' = [sess EXCEPT ![listed] = q]
                          /\ q.player = sess[listed].player
                          /\ q.recent = sess[listed].recent
  BY Kicking
<1>2. sess'[listed] = q
  BY <1>1, Put
<1> QED
  BY <1>1, <1>2 DEF Owned, Homes, Stopping

\* The player that is made is the session's, the one it had before is adrift, and
\* so is a player made for a session in which one has just logged out.
LEMMA OwnedAnswer ==
    ASSUME TypeOK, Named, Owned, LoginCallback
    PROVE  Owned'
<1>1. at = "results" /\ UNCHANGED <<listed, at, stopping>>
  BY Answering
<1>2. Stopping'
  BY <1>1 DEF Owned, Stopping
<1>3. CASE listed = None /\ UNCHANGED <<sess, inWorld, adrift>>
  BY <1>1, <1>2, <1>3 DEF Owned, Homes
<1>4. CASE /\ listed \in Live
           /\ adrift \subseteq adrift'
           /\ sess[listed].player # None => sess[listed].player \in adrift'
           /\ sess[listed].recent => Len(objects) + 1 \in adrift'
           /\ \E q \in Sessions :
                 /\ sess' = [sess EXCEPT ![listed] = q]
                 /\ q.player = Len(objects) + 1
                 /\ q.recent = sess[listed].recent
                 /\ inWorld' = inWorld \cup {q.player} \/ inWorld' = inWorld
  <2> PICK q \in Sessions :
                 /\ sess' = [sess EXCEPT ![listed] = q]
                 /\ q.player = Len(objects) + 1
                 /\ q.recent = sess[listed].recent
                 /\ inWorld' = inWorld \cup {q.player} \/ inWorld' = inWorld
    BY <1>4
  <2>1. sess'[listed] = q /\ listed # None
    <3>1. sess \in Seq(Sessions) /\ listed \in 1..Len(sess)
      BY <1>4 DEF TypeOK, Live
    <3> QED
      BY <3>1, Put DEF None
  <2>2. \A p \in inWorld : p \in adrift'
    BY <1>4 DEF Owned, Homes, TypeOK, Pid, None
  <2>3. Homes'
    BY <1>1, <1>4, <2>1, <2>2 DEF Homes
  <2> QED
    BY <1>2, <2>3 DEF Owned
<1> QED
  BY <1>3, <1>4, Answering

LEMMA OwnedStep ==
    ASSUME TypeOK, Named, Owned, [Next]_vars
    PROVE  Owned'
<1>1. CASE \E k \in Socket : NetworkStep(k)
  BY <1>1, OwnedNetwork
<1>2. CASE \/ TakeNewSessions \/ AddSession_ \/ AddingDone \/ PacketsDone \/ ResultsDone
           \/ NextTick \/ (CleanupsBeforeStop /\ listed = None)
  BY <1>2, OwnedIdle
<1>3. CASE RunMessages \/ RunPacket \/ UpdateState \/ TimePasses
  BY <1>3, OwnedSession
<1>4. CASE LoginCallback
  BY <1>4, OwnedAnswer
<1>5. CASE KickPlayer
  BY <1>5, OwnedKick
<1>6. CASE CleanupsBeforeStop /\ listed # None
  BY <1>6, OwnedStop
<1>7. CASE UNCHANGED vars
  BY <1>7 DEF vars, Owned, Homes, Stopping
<1> QED
  BY <1>1, <1>2, <1>3, <1>4, <1>5, <1>6, <1>7 DEF Next, WorldStep, Stopped

\* The inductive invariant.  That a session is not marked as one that has just logged a
\* player out is what makes its next LogoutPlayer, that of the destructor or of KickAll, act.
THEOREM OwnershipInvariant == Spec => [](TypeOK /\ Named /\ Owned)
<1>1. Init => TypeOK /\ Named /\ Owned
  BY Beginning
<1>2. TypeOK /\ Named /\ Owned /\ [Next]_vars => (TypeOK /\ Named /\ Owned)'
  BY TypeStep, OwnedStep
<1> QED
  BY <1>1, <1>2, PTL DEF Spec

\* A character in the world is that of the listed session, whatever clients, the console and
\* time do and however many log-ins are in flight, but for those that LoginCallback loaded
\* into a session that had just logged a player out or replaced by a second log-in.
THEOREM CharactersAreOwned == Spec => []PlayerOwned
<1>1. TypeOK /\ Named /\ Owned => PlayerOwned
  BY DEF Owned, Homes, PlayerOwned
<1> QED
  BY <1>1, OwnershipInvariant, PTL

\* And none but those is in the world when the server has stopped: KickAll and the last
\* update leave nobody, although log-ins were in flight.
THEOREM WorldIsEmptied == Spec => []StoppedEmpty
<1>1. TypeOK /\ Named /\ Owned => StoppedEmpty
  BY DEF Owned, Stopping, StoppedEmpty
<1> QED
  BY <1>1, OwnershipInvariant, PTL

===============================================================================
