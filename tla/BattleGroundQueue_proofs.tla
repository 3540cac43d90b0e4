----------------------- MODULE BattleGroundQueue_proofs -----------------------
(***************************************************************************)
(* Theorems about BattleGroundQueue, for any players, parties, sizes of    *)
(* teams and bounds.  Three layers of invariants are inductive, each with  *)
(* the ones before it: IInv says what is under way between the threads and *)
(* that the entries of battlegrounds count the places taken; Tracked that  *)
(* what is under way about a player is about the group he is in; Attended  *)
(* that something will end each invitation.                                *)
(*                                                                         *)
(* A step is shown to be of one of few kinds, and each layer for the kinds. *)
(***************************************************************************)
EXTENDS BattleGroundQueue, FiniteSetTheorems, WellFoundedInduction, SequenceTheorems, TLAPS

-----------------------------------------------------------------------------
(* Folds.  FoldLeft is a recursive function on the sets of positions of a  *)
(* sequence; it is reasoned about as a function on the lengths of the      *)
(* prefixes that have been folded.                                         *)

LEMMA Smallest ==
    ASSUME NEW S, IsFiniteSet(S), NEW T, T \subseteq SUBSET S, T # {}
    PROVE  \E x \in T : \A y \in T : y \subseteq x => y = x
<1>1. T \subseteq FiniteSubsetsOf(S) BY FS_Subset DEF FiniteSubsetsOf
<1>2. PICK x \in T : \A y \in T : <<y, x>> \notin StrictSubsetOrdering(S)
  BY <1>1, FS_StrictSubsetOrderingWellFounded, WFMin
<1>3. ASSUME NEW y \in T, y \subseteq x, y # x
      PROVE  FALSE
  BY <1>2, <1>3 DEF StrictSubsetOrdering
<1> QED BY <1>3

\* A finite set of numbers has a least one, and a greatest one.
LEMMA LeastOf ==
    ASSUME NEW S, IsFiniteSet(S), \A y \in S : y \in Int, S # {}
    PROVE  \E m \in S : \A y \in S : m <= y
<1> DEFINE Below(m) == {i \in S : i < m}
           T == {Below(m) : m \in S}
<1>1. T \subseteq SUBSET S /\ T # {} OBVIOUS
<1>2. \E x \in T : \A y \in T : y \subseteq x => y = x
  <2> HIDE DEF T
  <2> QED BY ONLY <1>1, IsFiniteSet(S), Smallest
<1>3. PICK m \in S : \A y \in S : Below(y) \subseteq Below(m) => Below(y) = Below(m)
  <2>1. \A y \in S : Below(y) \in T OBVIOUS
  <2>2. \A x \in T : \E m \in S : x = Below(m) OBVIOUS
  <2> HIDE DEF T, Below
  <2> QED BY <1>2, <2>1, <2>2
<1>4. ASSUME NEW y \in S, ~(m <= y)
      PROVE  FALSE
  BY <1>4, <1>3
<1> QED BY <1>4

LEMMA GreatestOf ==
    ASSUME NEW S, IsFiniteSet(S), \A y \in S : y \in Int, S # {}
    PROVE  \E m \in S : \A y \in S : m >= y
<1> DEFINE Above(m) == {i \in S : i > m}
           T == {Above(m) : m \in S}
<1>1. T \subseteq SUBSET S /\ T # {} OBVIOUS
<1>2. \E x \in T : \A y \in T : y \subseteq x => y = x
  <2> HIDE DEF T
  <2> QED BY ONLY <1>1, IsFiniteSet(S), Smallest
<1>3. PICK m \in S : \A y \in S : Above(y) \subseteq Above(m) => Above(y) = Above(m)
  <2>1. \A y \in S : Above(y) \in T OBVIOUS
  <2>2. \A x \in T : \E m \in S : x = Above(m) OBVIOUS
  <2> HIDE DEF T, Above
  <2> QED BY <1>2, <2>1, <2>2
<1>4. ASSUME NEW y \in S, ~(m >= y)
      PROVE  FALSE
  BY <1>4, <1>3
<1> QED BY <1>4

\* Induction on the numbers up to n, for a property that is given as a set.
LEMMA UpTo ==
    ASSUME NEW n \in Nat, NEW X, 0 \in X,
           \A k \in 0..n : k \in X /\ k < n => k + 1 \in X
    PROVE  0..n \subseteq X
<1> DEFINE T == {0..k : k \in {j \in 0..n : j \notin X}}
<1> SUFFICES ASSUME NEW m \in 0..n, m \notin X PROVE FALSE OBVIOUS
<1>1. T \subseteq SUBSET (0..n) /\ 0..m \in T OBVIOUS
<1>2. PICK S : S = 0..n OBVIOUS
<1> HIDE DEF T
<1>3. IsFiniteSet(S) BY <1>2, FS_Interval
<1>4. T \subseteq SUBSET S /\ T # {} BY <1>1, <1>2
<1>y. PICK x \in T : \A y \in T : y \subseteq x => y = x BY <1>3, <1>4, Smallest
<1>z. PICK k \in 0..n : k \notin X /\ x = 0..k BY <1>y DEF T
<1>5. k # 0 /\ k - 1 \in 0..n /\ k - 1 < n BY <1>z
<1>6. k - 1 \notin X BY <1>z, <1>5
<1>7. 0..(k - 1) \in T BY <1>5, <1>6 DEF T
<1>8. 0..(k - 1) \subseteq x /\ k \in x /\ k \notin 0..(k - 1) BY <1>z, <1>5
<1> QED BY <1>y, <1>7, <1>8

LEMMA Greatest ==
    ASSUME NEW n \in Nat, NEW S \in SUBSET (1..n), n \in S
    PROVE  Max(S) = n
<1>1. \A y \in S : n >= y OBVIOUS
<1>2. Max(S) \in S /\ \A y \in S : Max(S) >= y BY <1>1 DEF Max
<1>3. Max(S) \in 1..n /\ Max(S) >= n BY <1>2
<1> QED BY <1>3

LEMMA Between ==
    ASSUME NEW n \in Nat, NEW k
    PROVE  /\ k \in 1..n => k \in 0..n /\ k - 1 \in 0..n /\ k - 1 < n /\ (k - 1) + 1 = k
           /\ k \in 0..n /\ k < n => k + 1 \in 1..n /\ k + 1 \in 0..n /\ (k + 1) - 1 = k
           /\ 0 \in 0..n /\ n \in 0..n /\ 1..0 = {}
OBVIOUS

\* it folds step over the first n elements of s, seen as a function on sets of
\* positions.
FoldsSets(it, n, Q, step, b, s) ==
    /\ it \in [SUBSET (1..n) -> Q]
    /\ \A S \in SUBSET (1..n) :
           it[S] = IF S = {} THEN b ELSE step[it[S \ {Max(S)}], s[Max(S)]]

LEMMA FoldsNone ==
    ASSUME NEW Q, NEW step, NEW b \in Q, NEW s
    PROVE  \E it : FoldsSets(it, 0, Q, step, b, s)
<1> DEFINE it == [S \in SUBSET (1..0) |-> b]
<1>1. \A S \in SUBSET (1..0) : S = {} OBVIOUS
<1>2. it \in [SUBSET (1..0) -> Q] OBVIOUS
<1>3. \A S \in SUBSET (1..0) :
          it[S] = IF S = {} THEN b ELSE step[it[S \ {Max(S)}], s[Max(S)]]
  BY <1>1
<1> HIDE DEF it
<1> QED BY <1>2, <1>3 DEF FoldsSets

LEMMA FoldsMore ==
    ASSUME NEW Q, NEW E, NEW step \in [Q \X E -> Q], NEW b, NEW s,
           NEW n \in Nat, s[n + 1] \in E, NEW it, FoldsSets(it, n, Q, step, b, s)
    PROVE  \E more : FoldsSets(more, n + 1, Q, step, b, s)
<1> DEFINE more == [S \in SUBSET (1..(n + 1)) |->
                      IF n + 1 \in S THEN step[it[S \ {n + 1}], s[n + 1]] ELSE it[S]]
<1>3. ASSUME NEW S \in SUBSET (1..(n + 1))
      PROVE  S \ {n + 1} \in SUBSET (1..n) /\ (n + 1 \notin S => S \in SUBSET (1..n))
  OBVIOUS
<1>4. more \in [SUBSET (1..(n + 1)) -> Q] BY <1>3 DEF FoldsSets
<1>5. ASSUME NEW S \in SUBSET (1..(n + 1))
      PROVE  more[S] = IF S = {} THEN b ELSE step[more[S \ {Max(S)}], s[Max(S)]]
  <2>1. CASE n + 1 \in S
    <3>1. Max(S) = n + 1 BY <2>1, Greatest
    <3>2. more[S \ {n + 1}] = it[S \ {n + 1}] BY <1>3
    <3> QED BY <2>1, <3>1, <3>2
  <2>2. CASE n + 1 \notin S /\ S # {} BY <1>3, <2>2 DEF FoldsSets
  <2>3. CASE S = {} BY <2>3 DEF FoldsSets
  <2> QED BY <2>1, <2>2, <2>3
<1> HIDE DEF more
<1>6. FoldsSets(more, n + 1, Q, step, b, s) BY <1>4, <1>5 DEF FoldsSets
<1> QED BY <1>6

LEMMA FoldsAll ==
    ASSUME NEW Q, NEW E, NEW step \in [Q \X E -> Q], NEW b \in Q, NEW s \in Seq(E)
    PROVE  \E it : FoldsSets(it, Len(s), Q, step, b, s)
<1> DEFINE X == {n \in 0..Len(s) : \E it : FoldsSets(it, n, Q, step, b, s)}
<1>0. Len(s) \in Nat BY LenProperties
<1>1. 0 \in X BY <1>0, FoldsNone, Between
<1>2. ASSUME NEW n \in 0..Len(s), n \in X, n < Len(s)
      PROVE  n + 1 \in X
  <2>1. PICK it : FoldsSets(it, n, Q, step, b, s) BY <1>2
  <2>2. n \in Nat /\ n + 1 \in 1..Len(s) /\ n + 1 \in 0..Len(s) BY <1>0, <1>2, Between
  <2>3. s[n + 1] \in E BY <2>2, ElementOfSeq
  <2>4. \E more : FoldsSets(more, n + 1, Q, step, b, s) BY <2>1, <2>2, <2>3, FoldsMore
  <2> QED BY <2>2, <2>4
<1> HIDE DEF X
<1>3. Len(s) \in X BY <1>0, <1>1, <1>2, UpTo, Between
<1> QED BY <1>3 DEF X

\* The same on prefixes: h[k] is what has been folded after k elements.
FoldsTo(h, n, Q, step, b, s) ==
    /\ h \in [0..n -> Q]
    /\ h[0] = b
    /\ \A k \in 1..n : h[k] = step[h[k - 1], s[k]]

\* c folds step as long as it stays in Q.
Agrees(c, n, Q, step, b, s) ==
    /\ c[{}] = b
    /\ \A k \in 1..n : c[1..(k - 1)] \in Q => c[1..k] = step[c[1..(k - 1)], s[k]]

LEMMA AgreesPrefix ==
    ASSUME NEW n \in Nat, NEW c, NEW Q, NEW E, NEW step \in [Q \X E -> Q], NEW b \in Q,
           NEW s, \A k \in 1..n : s[k] \in E, Agrees(c, n, Q, step, b, s)
    PROVE  FoldsTo([k \in 0..n |-> c[1..k]], n, Q, step, b, s)
<1> DEFINE X == {k \in 0..n : c[1..k] \in Q}
           h == [k \in 0..n |-> c[1..k]]
<1>0. \A k \in 1..n : k \in 0..n /\ k - 1 \in 0..n BY Between
<1>1. 0 \in X BY Between DEF Agrees
<1>2. ASSUME NEW k \in 0..n, k \in X, k < n
      PROVE  k + 1 \in X
  BY <1>2, Between DEF Agrees
<1> HIDE DEF X
<1>3. 0..n \subseteq X BY <1>1, <1>2, UpTo
<1>4. \A k \in 0..n : c[1..k] \in Q BY <1>3 DEF X
<1>5. h \in [0..n -> Q] BY <1>4
<1>6. h[0] = b BY Between DEF Agrees
<1>7. ASSUME NEW k \in 1..n
      PROVE  h[k] = step[h[k - 1], s[k]]
  BY <1>0, <1>4 DEF Agrees
<1> HIDE DEF h
<1>8. FoldsTo(h, n, Q, step, b, s) BY <1>5, <1>6, <1>7 DEF FoldsTo
<1> QED BY <1>8 DEF h

\* The positions a fold visits.
LEMMA Position ==
    ASSUME NEW E, NEW s \in Seq(E), NEW S \in SUBSET (DOMAIN s), S # {}
    PROVE  Max(S) \in S /\ s[Max(S)] \in E /\ S \ {Max(S)} \in SUBSET (DOMAIN s)
<1>1. DOMAIN s = 1..Len(s) /\ Len(s) \in Nat BY LenProperties
<1>2. \E m \in S : \A y \in S : m >= y
  <2>1. PICK D : D = 1..Len(s) OBVIOUS
  <2>2. IsFiniteSet(D) /\ S \subseteq D BY <1>1, <2>1, FS_Interval
  <2>3. IsFiniteSet(S) BY <2>2, FS_Subset
  <2> QED BY <1>1, <2>3, GreatestOf
<1>3. Max(S) \in S BY <1>2 DEF Max
<1> QED BY <1>1, <1>3, ElementOfSeq

LEMMA PrefixPositions ==
    ASSUME NEW n \in Nat, NEW k \in 1..n
    PROVE  /\ 1..k \in SUBSET (1..n) /\ 1..k # {} /\ 1..(k - 1) \in SUBSET (1..n)
           /\ Max(1..k) = k /\ (1..k) \ {k} = 1..(k - 1)
BY Greatest

\* The function that a fold with a step in Q chooses: it exists, and whichever is
\* chosen folds the step.
OnSets(it, Q, E, step, b, s) ==
    /\ it = [S \in SUBSET DOMAIN s |-> it[S]]
    /\ it[{}] = b
    /\ \A S \in SUBSET DOMAIN s : S # {} =>
           /\ s[Max(S)] \in E /\ it[S \ {Max(S)}] \in Q
           /\ it[S] = step[it[S \ {Max(S)}], s[Max(S)]]
WhileIn(c, Q, E, step, b, s) ==
    /\ c[{}] = b
    /\ \A S \in SUBSET DOMAIN s :
           S # {} /\ c[S \ {Max(S)}] \in Q /\ s[Max(S)] \in E =>
               c[S] = step[c[S \ {Max(S)}], s[Max(S)]]
Runs(h, Q, E, step, b, s) ==
    /\ h \in [0..Len(s) -> Q] /\ h[0] = b /\ h[Len(s)] \in Q
    /\ \A n \in 1..Len(s) :
           h[n - 1] \in Q /\ s[n] \in E /\ h[n] = step[h[n - 1], s[n]]

RunsTo(r, Q, E, step, b, s) == \E h : Runs(h, Q, E, step, b, s) /\ h[Len(s)] = r

LEMMA FoldFound ==
    ASSUME NEW Q, NEW E, NEW step \in [Q \X E -> Q], NEW b \in Q, NEW s \in Seq(E)
    PROVE  \E it : OnSets(it, Q, E, step, b, s)
<1>1. DOMAIN s = 1..Len(s) BY LenProperties
<1>2. PICK it : FoldsSets(it, Len(s), Q, step, b, s) BY FoldsAll
<1>3. it = [S \in SUBSET DOMAIN s |-> it[S]] /\ it[{}] = b BY <1>1, <1>2 DEF FoldsSets
<1>4. ASSUME NEW S \in SUBSET DOMAIN s, S # {}
      PROVE  /\ s[Max(S)] \in E /\ it[S \ {Max(S)}] \in Q
             /\ it[S] = step[it[S \ {Max(S)}], s[Max(S)]]
  BY <1>4, Position, <1>1, <1>2 DEF FoldsSets
<1> QED BY <1>3, <1>4 DEF OnSets

LEMMA FoldChosen ==
    ASSUME NEW Q, NEW E, NEW step \in [Q \X E -> Q], NEW b \in Q, NEW s \in Seq(E),
           NEW c, WhileIn(c, Q, E, step, b, s)
    PROVE  RunsTo(c[DOMAIN s], Q, E, step, b, s)
<1>1. DOMAIN s = 1..Len(s) /\ Len(s) \in Nat /\ \A k \in 1..Len(s) : s[k] \in E
  BY LenProperties, ElementOfSeq
<1>2. Agrees(c, Len(s), Q, step, b, s) BY <1>1, PrefixPositions DEF WhileIn, Agrees
<1> DEFINE h == [k \in 0..Len(s) |-> c[1..k]]
<1>3. FoldsTo(h, Len(s), Q, step, b, s) BY <1>1, <1>2, AgreesPrefix
<1>4. h[Len(s)] = c[DOMAIN s] BY <1>1, Between
<1> HIDE DEF h
<1>5. \A n \in 1..Len(s) : h[n - 1] \in Q BY <1>1, <1>3, Between DEF FoldsTo
<1>6. h[Len(s)] \in Q BY <1>1, <1>3, Between DEF FoldsTo
<1> QED BY <1>1, <1>3, <1>4, <1>5, <1>6 DEF FoldsTo, Runs, RunsTo

-----------------------------------------------------------------------------
(* The folds of the model.                                                 *)

\* SelectionPool::AddGroup.
Added(q, limit, enough, id, s, g) ==
    LET group == q.groups[g]
        n == s.n + Cardinality(group.players)
    IN  IF /\ s.n < enough
           /\ group.invited = 0
           /\ group.desired \in {0, id}
           /\ n <= limit
        THEN [sel |-> Append(s.sel, g), n |-> n] ELSE s

\* Select goes through a list with AddGroup.
LEMMA SelectFold ==
    ASSUME NEW q, NEW limit, NEW enough, NEW id, NEW Q, NEW E, NEW pool \in Q,
           NEW list \in Seq(E),
           \A x \in Q, y \in E : Added(q, limit, enough, id, x, y) \in Q
    PROVE  Select(q, pool, list, limit, enough, id) \in Q
<1> DEFINE all == list
           step == [z \in Q \X E |-> Added(q, limit, enough, id, z[1], z[2])]
           Folds(f) == f = [S \in SUBSET DOMAIN all |-> IF S = {} THEN pool
                              ELSE Added(q, limit, enough, id, f[S \ {Max(S)}], all[Max(S)])]
<1>0. all \in Seq(E) OBVIOUS
<1>1. step \in [Q \X E -> Q] /\ \A x \in Q, y \in E : step[x, y] = Added(q, limit, enough, id, x, y)
  OBVIOUS
<1>2. PICK c : c = CHOOSE f : Folds(f) OBVIOUS
<1>3. Select(q, pool, list, limit, enough, id) = c[DOMAIN all]
  BY <1>2 DEF Select, FoldLeft, MapThenFoldSet, Added
<1> HIDE DEF step, all
<1>4. \E f : Folds(f)
  <2>1. PICK f : OnSets(f, Q, E, step, pool, all) BY <1>0, <1>1, FoldFound
  <2>2. \A S \in SUBSET DOMAIN all : f[S] = IF S = {} THEN pool
                              ELSE Added(q, limit, enough, id, f[S \ {Max(S)}], all[Max(S)])
    BY <1>1, <2>1 DEF OnSets
  <2>3. f = [S \in SUBSET DOMAIN all |-> f[S]] BY <2>1 DEF OnSets
  <2> QED BY <2>2, <2>3
<1>5. WhileIn(c, Q, E, step, pool, all) BY <1>2, <1>4, <1>1 DEF WhileIn
<1> HIDE DEF Folds
<1>6. RunsTo(c[DOMAIN all], Q, E, step, pool, all) BY <1>0, <1>1, <1>5, FoldChosen
<1>7. c[DOMAIN all] \in Q BY <1>6 DEF RunsTo, Runs
<1> QED BY <1>3, <1>7

\* InviteGroupToBg for one player of the group.
InvitedOne(q, g, k, s, p) ==
    ChangeInvited(Tell(s, [op |-> "invite", who |-> p, inst |-> q.slots[k].inst,
                           stamp |-> g]),
                  k, q.groups[g].team, 1)

GroupInvited(q, g, k) == [q EXCEPT !.groups[g].invited = q.slots[k].inst]

\* InviteGroupToBg goes through the players of the group.
LEMMA InviteGroupFold ==
    ASSUME NEW Q, NEW E, NEW q, NEW g, NEW k,
           GroupInvited(q, g, k) \in Q,
           SetToSeq(q.groups[g].players) \in Seq(E),
           \A x \in Q, y \in E : InvitedOne(q, g, k, x, y) \in Q
    PROVE  \E r, h :
               /\ r \in Q /\ InviteGroupToBg(q, g, k) = r
               /\ h \in [0..Len(SetToSeq(q.groups[g].players)) -> Q]
               /\ h[0] = GroupInvited(q, g, k) /\ h[Len(SetToSeq(q.groups[g].players))] = r
               /\ \A n \in 1..Len(SetToSeq(q.groups[g].players)) : h[n] = InvitedOne(q, g, k, h[n - 1], SetToSeq(q.groups[g].players)[n])
<1> DEFINE all == SetToSeq(q.groups[g].players)
           step == [z \in Q \X E |-> InvitedOne(q, g, k, z[1], z[2])]
           Folds(f) == f = [S \in SUBSET DOMAIN all |-> IF S = {} THEN GroupInvited(q, g, k)
                              ELSE InvitedOne(q, g, k, f[S \ {Max(S)}], all[Max(S)])]
<1>0. all \in Seq(E) OBVIOUS
<1>1. step \in [Q \X E -> Q] /\ \A x \in Q, y \in E : step[x, y] = InvitedOne(q, g, k, x, y)
  OBVIOUS
<1>2. PICK c : c = CHOOSE f : Folds(f) OBVIOUS
<1>3. InviteGroupToBg(q, g, k) = c[DOMAIN all]
  BY <1>2 DEF InviteGroupToBg, FoldLeft, MapThenFoldSet, InvitedOne, GroupInvited
<1> HIDE DEF step, all
<1>4. \E f : Folds(f)
  <2>1. PICK f : OnSets(f, Q, E, step, GroupInvited(q, g, k), all)
    BY <1>0, <1>1, FoldFound
  <2>2. \A S \in SUBSET DOMAIN all : f[S] = IF S = {} THEN GroupInvited(q, g, k)
                              ELSE InvitedOne(q, g, k, f[S \ {Max(S)}], all[Max(S)])
    BY <1>1, <2>1 DEF OnSets
  <2>3. f = [S \in SUBSET DOMAIN all |-> f[S]] BY <2>1 DEF OnSets
  <2> QED BY <2>2, <2>3
<1>5. WhileIn(c, Q, E, step, GroupInvited(q, g, k), all) BY <1>2, <1>4, <1>1 DEF WhileIn
<1> HIDE DEF Folds
<1>6. PICK h : Runs(h, Q, E, step, GroupInvited(q, g, k), all) /\ h[Len(all)] = c[DOMAIN all]
  <2>1. RunsTo(c[DOMAIN all], Q, E, step, GroupInvited(q, g, k), all)
    BY <1>0, <1>1, <1>5, FoldChosen
  <2> QED BY <2>1 DEF RunsTo
<1>7. /\ c[DOMAIN all] \in Q /\ h \in [0..Len(all) -> Q] /\ h[0] = GroupInvited(q, g, k)
      /\ \A n \in 1..Len(all) : h[n] = InvitedOne(q, g, k, h[n - 1], all[n])
  BY <1>1, <1>6 DEF Runs
<1> HIDE DEF Folds
<1> QED BY <1>3, <1>6, <1>7 DEF all

\* r is what comes of q after InviteGroupToBg for every group of all.
InvitesTo(r, Q, q, all, k) == \E h :
    /\ r \in Q /\ h \in [0..Len(all) -> Q] /\ h[0] = q /\ h[Len(all)] = r
    /\ \A n \in 1..Len(all) : h[n] = InviteGroupToBg(h[n - 1], all[n], k)

\* InviteAll goes through the groups of both pools.
LEMMA InviteAllFold ==
    ASSUME NEW Q, NEW E, NEW q \in Q, NEW pools, NEW k, NEW all, all \in Seq(E),
           all = pools["alliance"].sel \o pools["horde"].sel,
           \A x \in Q, y \in E : InviteGroupToBg(x, y, k) \in Q
    PROVE  InvitesTo(InviteAll(q, pools, k), Q, q, all, k)
<1> DEFINE step == [z \in Q \X E |-> InviteGroupToBg(z[1], z[2], k)]
           Folds(f) == f = [S \in SUBSET DOMAIN all |-> IF S = {} THEN q
                              ELSE InviteGroupToBg(f[S \ {Max(S)}], all[Max(S)], k)]
<1>0. all \in Seq(E) OBVIOUS
<1>1. step \in [Q \X E -> Q] /\ \A x \in Q, y \in E : step[x, y] = InviteGroupToBg(x, y, k)
  OBVIOUS
<1>2. PICK c : c = CHOOSE f : Folds(f) OBVIOUS
<1>3. InviteAll(q, pools, k) = c[DOMAIN all]
  BY <1>2 DEF InviteAll, FoldLeft, MapThenFoldSet
<1> HIDE DEF step
<1>4. \E f : Folds(f)
  <2>1. PICK f : OnSets(f, Q, E, step, q, all) BY <1>0, <1>1, FoldFound
  <2>2. \A S \in SUBSET DOMAIN all : f[S] = IF S = {} THEN q
                              ELSE InviteGroupToBg(f[S \ {Max(S)}], all[Max(S)], k)
    BY <1>1, <2>1 DEF OnSets
  <2>3. f = [S \in SUBSET DOMAIN all |-> f[S]] BY <2>1 DEF OnSets
  <2>4. [S \in SUBSET DOMAIN all |-> f[S]]
            = [S \in SUBSET DOMAIN all |-> IF S = {} THEN q
                              ELSE InviteGroupToBg(f[S \ {Max(S)}], all[Max(S)], k)]
    BY ONLY <2>2
  <2>5. Folds(f) BY ONLY <2>3, <2>4
  <2> QED BY ONLY <2>5
<1>5. WhileIn(c, Q, E, step, q, all) BY <1>2, <1>4, <1>1, Zenon DEF WhileIn
<1> HIDE DEF Folds
<1>6. PICK h : Runs(h, Q, E, step, q, all) /\ h[Len(all)] = c[DOMAIN all]
  <2>1. RunsTo(c[DOMAIN all], Q, E, step, q, all) BY <1>0, <1>1, <1>5, FoldChosen
  <2> QED BY <2>1 DEF RunsTo
<1>7. /\ c[DOMAIN all] \in Q /\ h \in [0..Len(all) -> Q] /\ h[0] = q
      /\ \A n \in 1..Len(all) : h[n] = InviteGroupToBg(h[n - 1], all[n], k)
  BY <1>1, <1>6 DEF Runs
<1> HIDE DEF Folds
<1>8. InvitesTo(c[DOMAIN all], Q, q, all, k) BY <1>6, <1>7 DEF InvitesTo
<1> QED BY <1>3, <1>8

\* FillPlayersToBg and the invitations for one entry.
FilledPools(s, k) ==
    LET e == s.slots[k] IN
    [t \in Team |-> Select(s, NoPool, s.list[t]["normal"], FreeSlots(e, t),
                           FreeSlots(e, t), s.ids[e.inst])]
FilledOne(s, k) ==
    LET e == s.slots[k]
        invited == InviteAll(s, FilledPools(s, k), k)
    IN  IF e.status \notin Open THEN s
        ELSE IF HasFreeSlots(e) THEN invited
             ELSE Tell(invited, [op |-> "full", inst |-> e.inst])
KeptOne(kept, e) ==
    IF e.status \in Open /\ ~HasFreeSlots(e) THEN kept ELSE Append(kept, e)

\* The order of the entries, and those that are kept of them.
Order(q) == [k \in 1..Len(q.slots) |-> k]
KeptOf(q) == [q EXCEPT !.slots = Kept(@)]

\* Fill goes through the entries.
LEMMA FillFold ==
    ASSUME NEW Q, NEW E, NEW q \in Q, Order(q) \in Seq(E),
           \A x \in Q, y \in E : FilledOne(x, y) \in Q
    PROVE  \E r \in Q : Fill(q) = KeptOf(r)
<1> DEFINE all == Order(q)
           step == [z \in Q \X E |-> FilledOne(z[1], z[2])]
           Folds(f) == f = [S \in SUBSET DOMAIN all |-> IF S = {} THEN q
                              ELSE FilledOne(f[S \ {Max(S)}], all[Max(S)])]
<1>0. all \in Seq(E) OBVIOUS
<1>1. step \in [Q \X E -> Q] /\ \A x \in Q, y \in E : step[x, y] = FilledOne(x, y)
  OBVIOUS
<1>2. PICK c : c = CHOOSE f : Folds(f) OBVIOUS
<1>3. Fill(q) = KeptOf(c[DOMAIN all])
  BY <1>2, Zenon DEF Fill, FoldLeft, MapThenFoldSet, FilledOne, FilledPools, Order, KeptOf
<1> HIDE DEF step, all
<1>4. \E f : Folds(f)
  <2>1. PICK f : OnSets(f, Q, E, step, q, all) BY <1>0, <1>1, FoldFound
  <2>2. \A S \in SUBSET DOMAIN all : f[S] = IF S = {} THEN q
                              ELSE FilledOne(f[S \ {Max(S)}], all[Max(S)])
    BY <1>1, <2>1 DEF OnSets
  <2>3. f = [S \in SUBSET DOMAIN all |-> f[S]] BY <2>1 DEF OnSets
  <2> QED BY <2>2, <2>3
<1>5. WhileIn(c, Q, E, step, q, all) BY <1>2, <1>4, <1>1 DEF WhileIn
<1> HIDE DEF Folds
<1>6. PICK h : Runs(h, Q, E, step, q, all) /\ h[Len(all)] = c[DOMAIN all]
  <2>1. RunsTo(c[DOMAIN all], Q, E, step, q, all) BY <1>0, <1>1, <1>5, FoldChosen
  <2> QED BY <2>1 DEF RunsTo
<1>7. /\ c[DOMAIN all] \in Q /\ h \in [0..Len(all) -> Q] /\ h[0] = q
      /\ \A n \in 1..Len(all) : h[n] = FilledOne(h[n - 1], all[n])
  BY <1>1, <1>6 DEF Runs
<1> HIDE DEF Folds
<1> QED BY <1>3, <1>7

\* Kept goes through them once more.
LEMMA KeptFold ==
    ASSUME NEW Q, NEW E, <<>> \in Q, NEW slots \in Seq(E),
           \A x \in Q, y \in E : KeptOne(x, y) \in Q
    PROVE  \E r, h :
               /\ r \in Q /\ Kept(slots) = r
               /\ h \in [0..Len(slots) -> Q]
               /\ h[0] = <<>> /\ h[Len(slots)] = r
               /\ \A n \in 1..Len(slots) : h[n] = KeptOne(h[n - 1], slots[n])
<1> DEFINE all == slots
           step == [z \in Q \X E |-> KeptOne(z[1], z[2])]
           Folds(f) == f = [S \in SUBSET DOMAIN all |-> IF S = {} THEN <<>>
                              ELSE KeptOne(f[S \ {Max(S)}], all[Max(S)])]
<1>0. all \in Seq(E) OBVIOUS
<1>1. step \in [Q \X E -> Q] /\ \A x \in Q, y \in E : step[x, y] = KeptOne(x, y) OBVIOUS
<1>2. PICK c : c = CHOOSE f : Folds(f) OBVIOUS
<1>3. Kept(slots) = c[DOMAIN all] BY <1>2 DEF Kept, FoldLeft, MapThenFoldSet, KeptOne
<1> HIDE DEF step, all
<1>4. \E f : Folds(f)
  <2>1. PICK f : OnSets(f, Q, E, step, <<>>, all) BY <1>0, <1>1, FoldFound
  <2>2. \A S \in SUBSET DOMAIN all : f[S] = IF S = {} THEN <<>>
                              ELSE KeptOne(f[S \ {Max(S)}], all[Max(S)])
    BY <1>1, <2>1 DEF OnSets
  <2>3. f = [S \in SUBSET DOMAIN all |-> f[S]] BY <2>1 DEF OnSets
  <2> QED BY <2>2, <2>3
<1>5. WhileIn(c, Q, E, step, <<>>, all) BY <1>2, <1>4, <1>1 DEF WhileIn
<1> HIDE DEF Folds
<1>6. PICK h : Runs(h, Q, E, step, <<>>, all) /\ h[Len(all)] = c[DOMAIN all]
  <2>1. RunsTo(c[DOMAIN all], Q, E, step, <<>>, all) BY <1>0, <1>1, <1>5, FoldChosen
  <2> QED BY <2>1 DEF RunsTo
<1>7. /\ c[DOMAIN all] \in Q /\ h \in [0..Len(all) -> Q] /\ h[0] = <<>>
      /\ \A n \in 1..Len(all) : h[n] = KeptOne(h[n - 1], all[n])
  BY <1>1, <1>6 DEF Runs
<1> HIDE DEF Folds
<1> QED BY <1>3, <1>6, <1>7 DEF all

\* The end of a battleground goes through its players.
LEMMA RemoveAllFold ==
    ASSUME NEW Q, NEW E, NEW w \in Q, NEW i, SetToSeq(w.bg[i].players) \in Seq(E),
           \A x \in Q, y \in E : RemovePlayerAtLeave(x, i, y) \in Q
    PROVE  AllLeft(w, i) \in Q
<1> DEFINE all == SetToSeq(w.bg[i].players)
           step == [z \in Q \X E |-> RemovePlayerAtLeave(z[1], i, z[2])]
           Folds(f) == f = [S \in SUBSET DOMAIN all |-> IF S = {} THEN w
                              ELSE RemovePlayerAtLeave(f[S \ {Max(S)}], i, all[Max(S)])]
<1>0. all \in Seq(E) OBVIOUS
<1>1. step \in [Q \X E -> Q] /\ \A x \in Q, y \in E : step[x, y] = RemovePlayerAtLeave(x, i, y)
  OBVIOUS
<1>2. PICK c : c = CHOOSE f : Folds(f) OBVIOUS
<1>3. AllLeft(w, i) = c[DOMAIN all] BY <1>2 DEF AllLeft, FoldLeft, MapThenFoldSet
<1> HIDE DEF step, all
<1>4. \E f : Folds(f)
  <2>1. PICK f : OnSets(f, Q, E, step, w, all) BY <1>0, <1>1, FoldFound
  <2>2. \A S \in SUBSET DOMAIN all : f[S] = IF S = {} THEN w
                              ELSE RemovePlayerAtLeave(f[S \ {Max(S)}], i, all[Max(S)])
    BY <1>1, <2>1 DEF OnSets
  <2>3. f = [S \in SUBSET DOMAIN all |-> f[S]] BY <2>1 DEF OnSets
  <2> QED BY <2>2, <2>3
<1>5. WhileIn(c, Q, E, step, w, all) BY <1>2, <1>4, <1>1 DEF WhileIn
<1> HIDE DEF Folds
<1>6. RunsTo(c[DOMAIN all], Q, E, step, w, all) BY <1>0, <1>1, <1>5, FoldChosen
<1>7. c[DOMAIN all] \in Q BY <1>6 DEF RunsTo, Runs
<1> QED BY <1>3, <1>7
-----------------------------------------------------------------------------
(* What is invariant.                                                      *)

QueueStates ==
    [groups : Seq(Groups), list : [Team -> [Kind -> Seq(Gid)]],
     of : [Player -> Gid \cup {0}], slots : Seq(Slots), scheduled : BOOLEAN,
     ids : Seq(Nat), sent : Seq(WorldMessages)]
WorldStates ==
    [player : [Player -> Players], bg : Seq(Battlegrounds), sent : Seq(QueueMessages)]

\* A player is in the group the queue has for him, and a group in the lists of its
\* team; whoever is invited somewhere is invited to an instance that was created,
\* and the entries are of such instances.
Grouped(q) == \A p \in Player : q.of[p] # 0 =>
    q.of[p] \in 1..Len(q.groups) /\ p \in q.groups[q.of[p]].players
Queued(q) == \A t \in Team, kind \in Kind : \A n \in 1..Len(q.list[t][kind]) :
    /\ q.list[t][kind][n] \in 1..Len(q.groups)
    /\ q.groups[q.list[t][kind][n]].team = t
OneTeam(q) == \A g \in 1..Len(q.groups) :
    /\ q.groups[g].invited <= Len(q.ids)
    /\ \A p \in q.groups[g].players : TeamOf(p) = q.groups[g].team
Numbered(q) == \A k \in 1..Len(q.slots) :
    q.slots[k].inst <= Len(q.ids) /\ q.slots[k].inside < 2 * MaxPerTeam
SoundQueue(q) ==
    q \in QueueStates /\ Grouped(q) /\ Queued(q) /\ OneTeam(q) /\ Numbered(q)

\* Who has a place in instance i: the players of the groups invited to it, and
\* those H has there.
Places(q, H, i, t) ==
    {x \in (1..Len(q.groups)) \X Player :
        /\ q.groups[x[1]].invited = i /\ q.groups[x[1]].team = t
        /\ x[2] \in q.groups[x[1]].players}
    \cup {x \in {0} \X Player : <<i, x[2]>> \in H /\ TeamOf(x[2]) = t}

\* Every entry of an instance in F counts them, and has no more than a team.
Covered(q, F, H) == \A k \in 1..Len(q.slots), t \in Team :
    q.slots[k].inst \in F =>
        Cardinality(Places(q, H, q.slots[k].inst, t)) <= q.slots[k].invited[t]
Bounded(q, F) == \A k \in 1..Len(q.slots), t \in Team :
    q.slots[k].inst \in F => q.slots[k].invited[t] <= MaxPerTeam
Single(q, i) == \E k \in 1..Len(q.slots) :
    q.slots[k].inst = i /\ \A l \in 1..Len(q.slots) : q.slots[l].inst = i => l = k
Double(q, i) == \E k, l \in 1..Len(q.slots) :
    /\ k # l /\ q.slots[k].inst = i /\ q.slots[l].inst = i
    /\ \A n \in 1..Len(q.slots) : q.slots[n].inst = i => n \in {k, l}
\* An instance in F has one entry.
Singles(q, F) == \A i \in F : i \in 1..Len(q.ids) => Single(q, i)
Balanced(q, F, H) ==
    SoundQueue(q) /\ Singles(q, F) /\ Covered(q, F, H) /\ Bounded(q, F)

-----------------------------------------------------------------------------
(* Messages and states.                                                    *)

LEMMA PlayersFinite == IsFiniteSet(Player)
BY QueueAssumption, FS_Union DEF Player

LEMMA Teams ==
    /\ \A p \in Player : TeamOf(p) \in Team
    /\ \A S \in Party : S \in SUBSET Player /\ S # {}
    /\ \A S \in Party : \A p, r \in S : TeamOf(p) = TeamOf(r)
BY QueueAssumption DEF TeamOf, Team, Player

LEMMA WorldSays ==
    ASSUME NEW m \in WorldMessages
    PROVE  /\ m.op \in {"joined", "invite", "expired", "count", "create", "enter",
                        "unqueue", "full"}
           /\ m.op = "joined" => m.members \in Party
           /\ m.op \in {"invite", "expired"} =>
                  m.who \in Player /\ m.inst \in Inst /\ m.stamp \in Gid
           /\ m.op = "count" => m.inst \in Inst /\ m.team \in Team /\ m.n \in Int
           /\ m.op = "create" => m.inst \in Inst /\ m.invited \in Invited
           /\ m.op = "enter" => m.who \in Player /\ m.inst \in Inst
           /\ m.op = "unqueue" => m.who \in Player
           /\ m.op = "full" => m.inst \in Inst
BY DEF WorldMessages

LEMMA QueueSays ==
    ASSUME NEW m \in QueueMessages
    PROVE  /\ m.op \in {"join", "port", "remove", "expire", "status", "add", "lower",
                        "drop", "schedule"}
           /\ m.op = "join" => m.members \in Party /\ m.desired \in Nat /\ m.premade \in BOOLEAN
           /\ m.op = "port" => m.who \in Player /\ m.enter \in BOOLEAN
           /\ m.op = "remove" => m.who \in Player
           /\ m.op = "expire" => /\ m.who \in Player /\ m.inst \in Inst /\ m.stamp \in Gid
                                 /\ m.again \in BOOLEAN
           /\ m.op = "status" => m.inst \in Inst /\ m.status \in Status
           /\ m.op = "add" => m.slot \in Slots
           /\ m.op = "lower" => m.inst \in Inst /\ m.team \in Team
           /\ m.op = "drop" => m.inst \in Inst
BY DEF QueueMessages

\* What a sequence is after an element was added at its end, or taken from its head.
LEMMA Appended ==
    ASSUME NEW S, NEW s \in Seq(S), NEW x \in S
    PROVE  /\ Append(s, x) \in Seq(S) /\ Len(Append(s, x)) = Len(s) + 1 /\ Len(s) \in Nat
           /\ \A n \in 1..Len(s) : Append(s, x)[n] = s[n] /\ s[n] \in S
           /\ Append(s, x)[Len(s) + 1] = x
OBVIOUS

LEMMA Taken ==
    ASSUME NEW S, NEW s \in Seq(S), s # <<>>
    PROVE  /\ Head(s) \in S /\ Tail(s) \in Seq(S) /\ Len(Tail(s)) = Len(s) - 1
           /\ Len(s) \in Nat /\ Len(s) >= 1 /\ Head(s) = s[1]
           /\ \A n \in 1..Len(Tail(s)) : Tail(s)[n] = s[n + 1] /\ n + 1 \in 1..Len(s)
OBVIOUS

\* The place of an element in front of which, or at which, another stands.
LEMMA Inserted ==
    ASSUME NEW S, NEW s \in Seq(S), NEW x \in S
    PROVE  /\ <<x>> \o s \in Seq(S) /\ Len(<<x>> \o s) = Len(s) + 1 /\ Len(s) \in Nat
           /\ (<<x>> \o s)[1] = x
           /\ \A n \in 1..Len(s) : (<<x>> \o s)[n + 1] = s[n]
           /\ \A n \in 1..(Len(s) + 1) : n = 1 \/ (n - 1 \in 1..Len(s) /\ (<<x>> \o s)[n] = s[n - 1])
OBVIOUS

LEMMA Removed ==
    ASSUME NEW S, NEW s \in Seq(S), NEW k \in 1..Len(s)
    PROVE  /\ RemoveAt(s, k) \in Seq(S) /\ Len(RemoveAt(s, k)) = Len(s) - 1
           /\ Len(s) \in Nat
           /\ \A n \in 1..(Len(s) - 1) :
                  RemoveAt(s, k)[n] = IF n < k THEN s[n] ELSE s[n + 1]
<1> DEFINE a == SubSeq(s, 1, k - 1)
           b == SubSeq(s, k + 1, Len(s))
<1>1. k \in Int /\ Len(s) \in Nat /\ 1 <= k /\ k <= Len(s) OBVIOUS
<1>2. a \in Seq(S) /\ Len(a) = k - 1 /\ \A n \in 1..(k - 1) : a[n] = s[n] BY <1>1
<1>3. b \in Seq(S) /\ Len(b) = Len(s) - k /\ \A n \in 1..(Len(s) - k) : b[n] = s[k + n]
  BY <1>1
<1> HIDE DEF a, b
<1>4. a \o b \in Seq(S) /\ Len(a \o b) = Len(s) - 1
  <2>1. a \o b \in Seq(S) /\ Len(a \o b) = Len(a) + Len(b)
    BY <1>2, <1>3, ConcatProperties
  <2> QED BY <1>1, <1>2, <1>3, <2>1
<1>5. ASSUME NEW n \in 1..(Len(s) - 1)
      PROVE  (a \o b)[n] = IF n < k THEN s[n] ELSE s[n + 1]
  <2>1. CASE n < k BY <1>1, <1>2, <1>3, <2>1
  <2>2. CASE ~(n < k)
    <3>1. n - (k - 1) \in 1..(Len(s) - k) /\ k + (n - (k - 1)) = n + 1 BY <1>1, <2>2
    <3>2. (a \o b)[n] = b[n - (k - 1)] BY <1>1, <1>2, <1>3, <2>2
    <3> QED BY <1>3, <2>2, <3>1, <3>2
  <2> QED BY <2>1, <2>2
<1> QED BY <1>1, <1>4, <1>5 DEF RemoveAt, a, b

\* The first place in a sequence at which something holds.
LEMMA LeastAt ==
    ASSUME NEW n \in Nat, NEW S \in SUBSET (1..n), S # {}
    PROVE  Min(S) \in S
<1>1. PICK D : D = 1..n OBVIOUS
<1>2. IsFiniteSet(D) /\ S \subseteq D BY <1>1, FS_Interval
<1>3. IsFiniteSet(S) BY <1>2, FS_Subset
<1>4. \A y \in S : y \in Int OBVIOUS
<1>5. \E m \in S : \A y \in S : m <= y BY <1>3, <1>4, LeastOf
<1> QED BY <1>5 DEF Min

LEMMA SlotFound ==
    ASSUME NEW q \in QueueStates, NEW i
    PROVE  \/ SlotAt(q, i) = 0 /\ \A k \in 1..Len(q.slots) : q.slots[k].inst # i
           \/ SlotAt(q, i) \in 1..Len(q.slots) /\ q.slots[SlotAt(q, i)].inst = i
<1> DEFINE S == {k \in 1..Len(q.slots) : q.slots[k].inst = i}
<1>1. Len(q.slots) \in Nat BY DEF QueueStates
<1>2. SlotAt(q, i) = IF S # {} THEN Min(S) ELSE 0 BY DEF SlotAt, SelectInSeq
<1>3. S # {} => Min(S) \in S BY <1>1, LeastAt
<1> QED BY <1>2, <1>3

LEMMA FirstFound ==
    ASSUME NEW S, NEW s \in Seq(S), NEW x
    PROVE  RemoveFirst(s, x) = s \/ \E k \in 1..Len(s) : RemoveFirst(s, x) = RemoveAt(s, k)
<1> DEFINE I == {k \in 1..Len(s) : s[k] = x}
<1>1. Len(s) \in Nat OBVIOUS
<1>2. RemoveFirst(s, x) = IF I # {} THEN RemoveAt(s, Min(I)) ELSE s
  BY DEF RemoveFirst, SelectInSeq
<1>3. I # {} => Min(I) \in I BY <1>1, LeastAt
<1> QED BY <1>2, <1>3

LEMMA PremadeFound ==
    ASSUME NEW q, NEW t, Len(q.list[t]["premade"]) \in Nat
    PROVE  \/ FirstPremade(q, t) = 0
           \/ /\ FirstPremade(q, t) \in 1..Len(q.list[t]["premade"])
              /\ q.groups[q.list[t]["premade"][FirstPremade(q, t)]].invited = 0
BY LeastAt, Zenon DEF FirstPremade, SelectInSeq

-----------------------------------------------------------------------------
(* Places and counts.                                                      *)

LEMMA QueueFields ==
    ASSUME NEW q \in QueueStates
    PROVE  /\ q.groups \in Seq(Groups) /\ q.list \in [Team -> [Kind -> Seq(Gid)]]
           /\ q.of \in [Player -> Gid \cup {0}] /\ q.slots \in Seq(Slots)
           /\ q.scheduled \in BOOLEAN /\ q.ids \in Seq(Nat) /\ q.sent \in Seq(WorldMessages)
           /\ Len(q.groups) \in Nat /\ Len(q.slots) \in Nat /\ Len(q.ids) \in Nat
           /\ \A g \in 1..Len(q.groups) :
                  /\ q.groups[g] \in Groups /\ q.groups[g].players \in SUBSET Player
                  /\ q.groups[g].team \in Team /\ q.groups[g].invited \in Nat
                  /\ q.groups[g].desired \in Nat
           /\ \A k \in 1..Len(q.slots) :
                  /\ q.slots[k] \in Slots /\ q.slots[k].inst \in Inst
                  /\ q.slots[k].status \in Status /\ q.slots[k].inside \in Nat
                  /\ q.slots[k].invited \in Invited
                  /\ \A t \in Team : q.slots[k].invited[t] \in Int
<1>1. /\ q.groups \in Seq(Groups) /\ q.list \in [Team -> [Kind -> Seq(Gid)]]
      /\ q.of \in [Player -> Gid \cup {0}] /\ q.slots \in Seq(Slots)
      /\ q.scheduled \in BOOLEAN /\ q.ids \in Seq(Nat) /\ q.sent \in Seq(WorldMessages)
  BY DEF QueueStates
<1>2. /\ \A g \in 1..Len(q.groups) : q.groups[g] \in Groups
      /\ \A k \in 1..Len(q.slots) : q.slots[k] \in Slots
  BY <1>1, ElementOfSeq
<1>3. \A e \in Groups : /\ e.players \in SUBSET Player /\ e.team \in Team
                        /\ e.invited \in Nat /\ e.desired \in Nat
  BY DEF Groups, Inst
<1>4. \A e \in Slots : /\ e.inst \in Inst /\ e.status \in Status /\ e.inside \in Nat
                       /\ e.invited \in Invited /\ \A t \in Team : e.invited[t] \in Int
  BY DEF Slots, Invited
<1> QED BY <1>1, <1>2, <1>3, <1>4, LenProperties

LEMMA PlacesFinite ==
    ASSUME NEW q, Len(q.groups) \in Nat, NEW H, NEW i, NEW t
    PROVE  /\ IsFiniteSet(Places(q, H, i, t))
           /\ Cardinality(Places(q, H, i, t)) \in Nat
<1>1. Places(q, H, i, t) \subseteq (0..Len(q.groups)) \X Player BY DEF Places
<1>2. IsFiniteSet(0..Len(q.groups)) BY FS_Interval
<1>3. IsFiniteSet((0..Len(q.groups)) \X Player) BY <1>2, PlayersFinite, FS_Product
<1>4. IsFiniteSet(Places(q, H, i, t)) BY <1>1, <1>3, FS_Subset
<1> QED BY <1>4, FS_CardinalityType

LEMMA Fewer ==
    ASSUME NEW S, IsFiniteSet(S), NEW T, T \subseteq S
    PROVE  IsFiniteSet(T) /\ Cardinality(T) \in Nat /\ Cardinality(T) <= Cardinality(S)
BY FS_Subset, FS_CardinalityType

LEMMA OneFewer ==
    ASSUME NEW S, IsFiniteSet(S), NEW x \in S, NEW T, T \subseteq S \ {x}
    PROVE  Cardinality(T) <= Cardinality(S) - 1
<1>1. IsFiniteSet(S \ {x}) /\ Cardinality(S \ {x}) = Cardinality(S) - 1
  BY FS_RemoveElement
<1> QED BY <1>1, Fewer

LEMMA OneForAnother ==
    ASSUME NEW S, IsFiniteSet(S), NEW x \in S, NEW y, NEW T, T \subseteq (S \ {x}) \cup {y}
    PROVE  Cardinality(T) <= Cardinality(S)
<1>1. IsFiniteSet(S \ {x}) /\ Cardinality(S \ {x}) = Cardinality(S) - 1
  BY FS_RemoveElement
<1>2. /\ IsFiniteSet((S \ {x}) \cup {y})
      /\ Cardinality((S \ {x}) \cup {y}) <= Cardinality(S \ {x}) + 1
  BY <1>1, FS_AddElement, FS_CardinalityType
<1>3. Cardinality(T) <= Cardinality((S \ {x}) \cup {y}) BY <1>2, Fewer
<1> QED BY <1>1, <1>2, <1>3, FS_CardinalityType, Fewer

LEMMA Together ==
    ASSUME NEW S, IsFiniteSet(S), NEW R, IsFiniteSet(R), NEW T, T \subseteq S \cup R
    PROVE  Cardinality(T) <= Cardinality(S) + Cardinality(R)
<1>1. /\ IsFiniteSet(S \cup R)
      /\ Cardinality(S \cup R) = Cardinality(S) + Cardinality(R) - Cardinality(S \cap R)
  BY FS_Union
<1>2. Cardinality(S \cap R) \in Nat /\ Cardinality(S) \in Nat /\ Cardinality(R) \in Nat
  BY Fewer, FS_CardinalityType
<1>3. Cardinality(T) <= Cardinality(S \cup R) /\ Cardinality(T) \in Nat BY <1>1, Fewer
<1> QED BY <1>1, <1>2, <1>3

\* What only looks at groups, lists, entries and numbers.
LEMMA SameBalanced ==
    ASSUME NEW q, NEW F, NEW H, NEW r \in QueueStates,
           r.groups = q.groups, r.list = q.list, r.of = q.of, r.slots = q.slots,
           r.ids = q.ids
    PROVE  /\ SoundQueue(q) => SoundQueue(r)
           /\ Balanced(q, F, H) => Balanced(r, F, H)
<1>1. \A i, t : Places(r, H, i, t) = Places(q, H, i, t) BY DEF Places
<1>2. SoundQueue(q) => SoundQueue(r)
  BY DEF SoundQueue, Grouped, Queued, OneTeam, Numbered
<1>3. \A i : Single(q, i) => Single(r, i) BY DEF Single
<1> QED BY <1>1, <1>2, <1>3 DEF Balanced, Singles, Covered, Bounded

LEMMA Telling ==
    ASSUME NEW q \in QueueStates, NEW m \in WorldMessages
    PROVE  LET r == Tell(q, m) IN
           /\ r \in QueueStates /\ r.groups = q.groups /\ r.list = q.list /\ r.of = q.of
           /\ r.slots = q.slots /\ r.ids = q.ids /\ r.scheduled = q.scheduled
           /\ r.sent = Append(q.sent, m)
BY AppendProperties DEF QueueStates, Tell

\* The entries of r are those of q, with d more players of team t at the k-th.
More(r, q, k, t, d) ==
    /\ Len(r.slots) = Len(q.slots)
    /\ \A l \in 1..Len(q.slots) :
           /\ r.slots[l].inst = q.slots[l].inst /\ r.slots[l].status = q.slots[l].status
           /\ r.slots[l].inside = q.slots[l].inside
           /\ \A u \in Team : r.slots[l].invited[u] =
                  IF l = k /\ u = t THEN q.slots[l].invited[u] + d
                  ELSE q.slots[l].invited[u]

\* A change of a counter, and nothing else but a message.
LEMMA Changing ==
    ASSUME NEW q \in QueueStates, NEW k \in 1..Len(q.slots), NEW t \in Team, NEW d \in Int
    PROVE  LET r == ChangeInvited(q, k, t, d) IN
           /\ r \in QueueStates /\ r.groups = q.groups /\ r.list = q.list /\ r.of = q.of
           /\ r.ids = q.ids /\ r.scheduled = q.scheduled
           /\ r.sent = Append(q.sent, [op |-> "count", inst |-> q.slots[k].inst, team |-> t,
                                       n |-> q.slots[k].invited[t] + d])
           /\ [op |-> "count", inst |-> q.slots[k].inst, team |-> t,
               n |-> q.slots[k].invited[t] + d] \in WorldMessages
           /\ More(r, q, k, t, d)
<1> DEFINE n == q.slots[k].invited[t] + d
           e == [q.slots[k] EXCEPT !.invited = [@ EXCEPT ![t] = n]]
           m == [op |-> "count", inst |-> q.slots[k].inst, team |-> t, n |-> n]
           c == [q EXCEPT !.slots = [@ EXCEPT ![k] = e]]
<1>1. n \in Int /\ m \in WorldMessages BY QueueFields DEF WorldMessages
<1>2. e \in Slots BY <1>1, QueueFields DEF Slots, Invited
<1>3. [q.slots EXCEPT ![k] = e] \in Seq(Slots) BY <1>2, QueueFields, ExceptSeq
<1>4. c \in QueueStates BY <1>3 DEF QueueStates
<1>5. ChangeInvited(q, k, t, d) = Tell(c, m) BY DEF ChangeInvited
<1>6. /\ c.groups = q.groups /\ c.list = q.list /\ c.of = q.of /\ c.ids = q.ids
      /\ c.scheduled = q.scheduled /\ c.sent = q.sent
      /\ c.slots = [q.slots EXCEPT ![k] = e]
  BY DEF QueueStates
<1> HIDE DEF c, m
<1>7. /\ Tell(c, m) \in QueueStates /\ Tell(c, m).groups = c.groups
      /\ Tell(c, m).list = c.list /\ Tell(c, m).of = c.of /\ Tell(c, m).ids = c.ids
      /\ Tell(c, m).scheduled = c.scheduled /\ Tell(c, m).slots = c.slots
      /\ Tell(c, m).sent = Append(c.sent, m)
  BY <1>1, <1>4, Telling
<1>8. More(c, q, k, t, d)
  <2>1. c.slots \in Seq(Slots) /\ Len(c.slots) = Len(q.slots)
    BY <1>3, <1>6, QueueFields, ExceptSeq
  <2>2. ASSUME NEW l \in 1..Len(q.slots)
        PROVE  /\ c.slots[l].inst = q.slots[l].inst
               /\ c.slots[l].status = q.slots[l].status
               /\ c.slots[l].inside = q.slots[l].inside
               /\ \A u \in Team : c.slots[l].invited[u] =
                      IF l = k /\ u = t THEN q.slots[l].invited[u] + d
                      ELSE q.slots[l].invited[u]
    <3>1. c.slots[l] = IF l = k THEN e ELSE q.slots[l] BY <1>6, QueueFields
    <3>2. CASE l = k BY <3>1, <3>2, QueueFields DEF Slots, Invited
    <3>3. CASE l # k BY QueueFields, <3>1, <3>3
    <3> QED BY <3>2, <3>3
  <2> QED BY <2>1, <2>2 DEF More
<1> HIDE DEF e
<1>9. More(Tell(c, m), q, k, t, d) BY <1>7, <1>8 DEF More
<1>10. /\ Tell(c, m).groups = q.groups /\ Tell(c, m).list = q.list
       /\ Tell(c, m).of = q.of /\ Tell(c, m).ids = q.ids
       /\ Tell(c, m).scheduled = q.scheduled /\ Tell(c, m).sent = Append(q.sent, m)
  BY <1>6, <1>7
<1> QED BY <1>1, <1>5, <1>7, <1>9, <1>10, Zenon DEF m

-----------------------------------------------------------------------------
(* RemovePlayer.                                                           *)

\* r is q without player p, who is in group g.
Without(r, q, p, g) ==
    /\ r \in QueueStates /\ r.of = [q.of EXCEPT ![p] = 0] /\ r.ids = q.ids
    /\ Len(r.groups) = Len(q.groups)
    /\ \A h \in 1..Len(q.groups) : h # g => r.groups[h] = q.groups[h]
    /\ r.groups[g].team = q.groups[g].team
    /\ r.groups[g].players = q.groups[g].players \ {p}
    /\ \/ r.groups[g].invited = q.groups[g].invited
       \/ r.groups[g].invited = 0 /\ r.groups[g].players = {}
    /\ \A t \in Team, kind \in Kind : \A n \in 1..Len(r.list[t][kind]) :
           \E m \in 1..Len(q.list[t][kind]) : r.list[t][kind][n] = q.list[t][kind][m]

\* The counter of the entry of the group's battleground is lowered, or no counter is.
Lowered(r, q, p, lower) ==
    LET group == q.groups[q.of[p]]
        k == SlotAt(q, group.invited)
    IN  IF lower /\ group.invited # 0 /\ k # 0
        THEN /\ More(r, q, k, group.team, -1)
             /\ \E m \in WorldMessages : m.op = "count" /\ r.sent = Append(q.sent, m)
        ELSE r.slots = q.slots /\ r.sent = q.sent

\* What RemovePlayer does to the groups and lists.
TakenOut(c, p, g, team, rest) ==
    IF rest # {}
    THEN [c EXCEPT !.of[p] = 0, !.groups[g].players = rest]
    ELSE [c EXCEPT !.of[p] = 0, !.groups[g] = [NoGroup EXCEPT !.team = team],
                   !.list[team] = [kind \in Kind |-> RemoveFirst(@[kind], g)]]

LEMMA TakingOut ==
    ASSUME NEW q \in QueueStates, NEW p \in Player, NEW g \in 1..Len(q.groups),
           NEW rest \in SUBSET Player, rest = q.groups[g].players \ {p},
           NEW counted \in QueueStates, counted.groups = q.groups, counted.list = q.list,
           counted.of = q.of, counted.ids = q.ids, counted.scheduled = q.scheduled
    PROVE  LET r == TakenOut(counted, p, g, q.groups[g].team, rest) IN
           Without(r, q, p, g) /\ r.slots = counted.slots /\ r.sent = counted.sent
<1> DEFINE team == q.groups[g].team
           of == [q.of EXCEPT ![p] = 0]
           stay == [q.groups EXCEPT ![g] = [@ EXCEPT !.players = rest]]
           gone == [q.groups EXCEPT ![g] = [NoGroup EXCEPT !.team = team]]
           list == [q.list EXCEPT ![team] = [kind \in Kind |-> RemoveFirst(@[kind], g)]]
<1>1. /\ of \in [Player -> Gid \cup {0}] /\ team \in Team /\ q.groups \in Seq(Groups)
      /\ q.groups[g] \in Groups /\ q.list \in [Team -> [Kind -> Seq(Gid)]]
  BY QueueFields
<1>2. /\ stay \in Seq(Groups) /\ Len(stay) = Len(q.groups)
      /\ \A h \in 1..Len(q.groups) : h # g => stay[h] = q.groups[h]
      /\ stay[g] = [q.groups[g] EXCEPT !.players = rest]
      /\ stay[g].team = team /\ stay[g].players = rest
      /\ stay[g].invited = q.groups[g].invited
  <2>1. [q.groups[g] EXCEPT !.players = rest] \in Groups BY <1>1 DEF Groups
  <2>2. stay = [q.groups EXCEPT ![g] = [q.groups[g] EXCEPT !.players = rest]] OBVIOUS
  <2>3. stay \in Seq(Groups) /\ Len(stay) = Len(q.groups) BY <1>1, <2>1, <2>2, ExceptSeq
  <2>4. stay[g] = [q.groups[g] EXCEPT !.players = rest] BY <1>1
  <2> QED BY <1>1, <2>1, <2>2, <2>3, <2>4 DEF Groups
<1>3. /\ gone \in Seq(Groups) /\ Len(gone) = Len(q.groups)
      /\ \A h \in 1..Len(q.groups) : h # g => gone[h] = q.groups[h]
      /\ gone[g].team = team /\ gone[g].players = {} /\ gone[g].invited = 0
  BY <1>1, ExceptSeq DEF Groups, NoGroup
<1>4. /\ list \in [Team -> [Kind -> Seq(Gid)]]
      /\ \A t \in Team, kind \in Kind : \A n \in 1..Len(list[t][kind]) :
             \E m \in 1..Len(q.list[t][kind]) : list[t][kind][n] = q.list[t][kind][m]
  <2>1. \A t \in Team, kind \in Kind : list[t][kind] =
            IF t = team THEN RemoveFirst(q.list[t][kind], g) ELSE q.list[t][kind]
    BY <1>1
  <2>2. ASSUME NEW t \in Team, NEW kind \in Kind
        PROVE  /\ RemoveFirst(q.list[t][kind], g) \in Seq(Gid)
               /\ \A n \in 1..Len(RemoveFirst(q.list[t][kind], g)) :
                      \E m \in 1..Len(q.list[t][kind]) :
                          RemoveFirst(q.list[t][kind], g)[n] = q.list[t][kind][m]
    <3> DEFINE s == q.list[t][kind]
    <3>1. s \in Seq(Gid) BY <1>1
    <3> HIDE DEF s
    <3>2. ASSUME RemoveFirst(s, g) = s
          PROVE  /\ RemoveFirst(s, g) \in Seq(Gid)
                 /\ \A n \in 1..Len(RemoveFirst(s, g)) :
                        \E m \in 1..Len(s) : RemoveFirst(s, g)[n] = s[m]
      BY <3>1, <3>2
    <3>3. ASSUME NEW k \in 1..Len(s), RemoveFirst(s, g) = RemoveAt(s, k)
          PROVE  /\ RemoveFirst(s, g) \in Seq(Gid)
                 /\ \A n \in 1..Len(RemoveFirst(s, g)) :
                        \E m \in 1..Len(s) : RemoveFirst(s, g)[n] = s[m]
      <4>1. /\ RemoveAt(s, k) \in Seq(Gid) /\ Len(RemoveAt(s, k)) = Len(s) - 1
            /\ Len(s) \in Nat
            /\ \A n \in 1..(Len(s) - 1) :
                   RemoveAt(s, k)[n] = IF n < k THEN s[n] ELSE s[n + 1]
        BY <3>1, Removed
      <4>2. \A n \in 1..(Len(s) - 1) : n \in 1..Len(s) /\ n + 1 \in 1..Len(s) BY <4>1
      <4> QED BY <3>3, <4>1, <4>2
    <3>4. /\ RemoveFirst(s, g) \in Seq(Gid)
          /\ \A n \in 1..Len(RemoveFirst(s, g)) :
                 \E m \in 1..Len(s) : RemoveFirst(s, g)[n] = s[m]
      BY <3>1, <3>2, <3>3, FirstFound
    <3> QED BY <3>4 DEF s
  <2>3. list \in [Team -> [Kind -> Seq(Gid)]] BY <1>1, <2>2
  <2>4. ASSUME NEW t \in Team, NEW kind \in Kind, NEW n \in 1..Len(list[t][kind])
        PROVE  \E m \in 1..Len(q.list[t][kind]) : list[t][kind][n] = q.list[t][kind][m]
    <3> HIDE DEF list
    <3>1. CASE t = team
      <4>1. PICK s : s = RemoveFirst(q.list[t][kind], g) OBVIOUS
      <4>2. list[t][kind] = s BY <2>1, <3>1, <4>1
      <4>3. \A x \in 1..Len(s) : \E m \in 1..Len(q.list[t][kind]) : s[x] = q.list[t][kind][m]
        BY <2>2, <4>1
      <4> QED BY <4>2, <4>3
    <3>2. CASE t # team BY <2>1, <3>2
    <3> QED BY <3>1, <3>2
  <2> QED BY <2>3, <2>4
<1> HIDE DEF of, stay, gone, list
<1>5. CASE rest # {} BY <1>1, <1>2, <1>5 DEF QueueStates, of, stay, TakenOut, Without
<1>6. CASE rest = {}
  <2> DEFINE r == [counted EXCEPT !.of = of, !.groups = gone, !.list = list]
  <2>1. /\ r \in QueueStates /\ r.of = of /\ r.groups = gone /\ r.list = list
        /\ r.ids = q.ids /\ r.scheduled = q.scheduled
        /\ r.slots = counted.slots /\ r.sent = counted.sent
    BY <1>1, <1>3, <1>4 DEF QueueStates
  <2>2. r = TakenOut(counted, p, g, team, rest) BY <1>6 DEF of, gone, list, TakenOut
  <2> HIDE DEF r
  <2>3. Without(r, q, p, g) BY <1>1, <1>3, <1>4, <1>6, <2>1 DEF Without, of
  <2> QED BY <1>6, <2>1, <2>2, <2>3
<1> QED BY <1>5, <1>6

LEMMA Removing ==
    ASSUME NEW q, SoundQueue(q), NEW p \in Player, NEW lower \in BOOLEAN, q.of[p] # 0
    PROVE  /\ Without(RemovePlayer(q, p, lower), q, p, q.of[p])
           /\ Lowered(RemovePlayer(q, p, lower), q, p, lower)
<1> DEFINE g == q.of[p]
           team == q.groups[g].team
           rest == q.groups[g].players \ {p}
           k == SlotAt(q, q.groups[g].invited)
           counted == IF lower /\ q.groups[g].invited # 0 /\ k # 0
                      THEN ChangeInvited(q, k, team, -1) ELSE q
           r == TakenOut(counted, p, g, team, rest)
<1>1. q \in QueueStates /\ g \in 1..Len(q.groups) BY DEF SoundQueue, Grouped
<1>2. rest \in SUBSET Player /\ team \in Team BY <1>1, QueueFields
<1>3. RemovePlayer(q, p, lower) = r BY DEF RemovePlayer, TakenOut
<1>4. k = 0 \/ k \in 1..Len(q.slots) BY <1>1, SlotFound
<1> HIDE DEF k, g, team, rest
<1>c. ASSUME k \in 1..Len(q.slots)
      PROVE  LET c == ChangeInvited(q, k, team, -1) IN
             /\ c \in QueueStates /\ c.groups = q.groups /\ c.list = q.list /\ c.of = q.of
             /\ c.ids = q.ids /\ c.scheduled = q.scheduled /\ More(c, q, k, team, -1)
             /\ \E m \in WorldMessages : m.op = "count" /\ c.sent = Append(q.sent, m)
  <2>1. PICK c : c = ChangeInvited(q, k, team, -1) OBVIOUS
  <2>2. -1 \in Int OBVIOUS
  <2>3. /\ c \in QueueStates /\ c.groups = q.groups /\ c.list = q.list /\ c.of = q.of
        /\ c.ids = q.ids /\ c.scheduled = q.scheduled /\ More(c, q, k, team, -1)
        /\ \E m \in WorldMessages : m.op = "count" /\ c.sent = Append(q.sent, m)
    BY <1>1, <1>2, <1>c, <2>1, <2>2, Changing
  <2> QED BY <2>1, <2>3
<1>5. /\ counted \in QueueStates /\ counted.groups = q.groups /\ counted.list = q.list
      /\ counted.of = q.of /\ counted.ids = q.ids /\ counted.scheduled = q.scheduled
  BY <1>1, <1>2, <1>4, <1>c
<1>6. IF lower /\ q.groups[g].invited # 0 /\ k # 0
      THEN /\ More(counted, q, k, team, -1)
           /\ \E m \in WorldMessages : m.op = "count" /\ counted.sent = Append(q.sent, m)
      ELSE counted.slots = q.slots /\ counted.sent = q.sent
  BY <1>1, <1>2, <1>4, <1>c
<1> HIDE DEF counted
<1>7. Without(r, q, p, g) /\ r.slots = counted.slots /\ r.sent = counted.sent
  BY <1>1, <1>2, <1>5, TakingOut DEF rest, team
<1> HIDE DEF r
<1>8. Lowered(r, q, p, lower) BY <1>6, <1>7 DEF Lowered, More, g, k, team
<1> QED BY <1>3, <1>7, <1>8 DEF g

\* The entries of r are of the same battlegrounds as those of q.
SameEntries(r, q) ==
    /\ Len(r.slots) = Len(q.slots)
    /\ \A l \in 1..Len(q.slots) :
           r.slots[l].inst = q.slots[l].inst /\ r.slots[l].inside = q.slots[l].inside

LEMMA SameSingles ==
    ASSUME NEW q, NEW r, SameEntries(r, q), NEW F, r.ids = q.ids
    PROVE  /\ Singles(q, F) => Singles(r, F)
           /\ Numbered(q) => Numbered(r)
           /\ \A i : Single(q, i) <=> Single(r, i)
           /\ \A i : Double(q, i) <=> Double(r, i)
<1>0. 1..Len(r.slots) = 1..Len(q.slots) BY DEF SameEntries
<1>1. ASSUME NEW i
      PROVE  (Single(q, i) <=> Single(r, i)) /\ (Double(q, i) <=> Double(r, i))
  <2>1. \A k \in 1..Len(q.slots) : r.slots[k].inst = i <=> q.slots[k].inst = i
    BY DEF SameEntries
  <2>2. Single(q, i) => Single(r, i) BY <1>0, <2>1 DEF Single
  <2>3. Single(r, i) => Single(q, i) BY <1>0, <2>1 DEF Single
  <2>4. Double(q, i) => Double(r, i) BY <1>0, <2>1 DEF Double
  <2>5. Double(r, i) => Double(q, i) BY <1>0, <2>1 DEF Double
  <2> QED BY <2>2, <2>3, <2>4, <2>5
<1>2. Singles(q, F) => Singles(r, F) BY <1>1 DEF Singles
<1>3. Numbered(q) => Numbered(r) BY DEF Numbered, SameEntries
<1> QED BY <1>1, <1>2, <1>3

LEMMA WithoutSound ==
    ASSUME NEW q, SoundQueue(q), NEW p \in Player, NEW g \in 1..Len(q.groups), g = q.of[p],
           NEW r, Without(r, q, p, g), SameEntries(r, q)
    PROVE  SoundQueue(r)
<1>1. q \in QueueStates /\ r \in QueueStates /\ Len(r.groups) = Len(q.groups)
  BY DEF SoundQueue, Without
<1>2. \A h \in 1..Len(q.groups) : r.groups[h].team = q.groups[h].team BY DEF Without
<1>3. Grouped(r)
  <2>1. ASSUME NEW x \in Player, r.of[x] # 0
        PROVE  r.of[x] \in 1..Len(r.groups) /\ x \in r.groups[r.of[x]].players
    <3>1. x # p /\ r.of[x] = q.of[x] BY <1>1, <2>1, QueueFields DEF Without
    <3>2. q.of[x] \in 1..Len(q.groups) /\ x \in q.groups[q.of[x]].players
      BY <2>1, <3>1 DEF SoundQueue, Grouped
    <3>3. x \in r.groups[q.of[x]].players BY <3>1, <3>2 DEF Without
    <3> QED BY <1>1, <3>1, <3>2, <3>3
  <2> QED BY <2>1 DEF Grouped
<1>4. Queued(r)
  <2>1. ASSUME NEW t \in Team, NEW kind \in Kind, NEW n \in 1..Len(r.list[t][kind])
        PROVE  /\ r.list[t][kind][n] \in 1..Len(r.groups)
               /\ r.groups[r.list[t][kind][n]].team = t
    <3>1. PICK m \in 1..Len(q.list[t][kind]) : r.list[t][kind][n] = q.list[t][kind][m]
      BY DEF Without
    <3>2. /\ q.list[t][kind][m] \in 1..Len(q.groups)
          /\ q.groups[q.list[t][kind][m]].team = t
      BY DEF SoundQueue, Queued
    <3> QED BY <1>1, <1>2, <3>1, <3>2
  <2> QED BY <2>1 DEF Queued
<1>5. OneTeam(r)
  <2>1. ASSUME NEW h \in 1..Len(r.groups)
        PROVE  /\ r.groups[h].invited <= Len(r.ids)
               /\ \A x \in r.groups[h].players : TeamOf(x) = r.groups[h].team
    <3>1. /\ r.groups[h].players \subseteq q.groups[h].players
          /\ r.groups[h].invited = q.groups[h].invited \/ r.groups[h].invited = 0
          /\ r.ids = q.ids
      BY <1>1 DEF Without
    <3>2. /\ q.groups[h].invited <= Len(q.ids)
          /\ \A x \in q.groups[h].players : TeamOf(x) = q.groups[h].team
      BY <1>1 DEF SoundQueue, OneTeam
    <3>3. Len(q.ids) \in Nat BY <1>1, QueueFields
    <3> QED BY <1>1, <1>2, <3>1, <3>2, <3>3
  <2> QED BY <2>1 DEF OneTeam
<1>6. Numbered(r) BY SameSingles DEF SoundQueue, Without
<1> QED BY <1>1, <1>3, <1>4, <1>5, <1>6 DEF SoundQueue

LEMMA LoweredEntries ==
    ASSUME NEW q, NEW r, NEW p, NEW lower, Lowered(r, q, p, lower)
    PROVE  SameEntries(r, q)
BY DEF Lowered, SameEntries, More

\* Nobody gained a place of t in i, and x is no longer one.
Loses(r, q, H, i, t, x) == Places(r, H, i, t) \subseteq Places(q, H, i, t) \ {x}

LEMMA FewerPlaces ==
    ASSUME NEW q, SoundQueue(q), NEW p \in Player, NEW g \in 1..Len(q.groups), g = q.of[p],
           NEW r, Without(r, q, p, g), NEW H, NEW i \in Inst, NEW t \in Team
    PROVE  /\ Loses(r, q, H, i, t, <<g, p>>)
           /\ i = q.groups[g].invited /\ t = q.groups[g].team =>
                  <<g, p>> \in Places(q, H, i, t)
<1>1. Len(r.groups) = Len(q.groups) /\ q \in QueueStates /\ Len(q.groups) \in Nat
  BY QueueFields DEF SoundQueue, Without
<1>2. ASSUME NEW x \in Places(r, H, i, t)
      PROVE  x \in Places(q, H, i, t) /\ x # <<g, p>>
  <2>1. CASE x \in (1..Len(r.groups)) \X Player
    <3>1. PICK h \in 1..Len(q.groups), z \in Player : x = <<h, z>> BY <1>1, <2>1
    <3>2. r.groups[h].invited = i /\ r.groups[h].team = t /\ z \in r.groups[h].players
      BY <1>1, <3>1 DEF Places
    <3>3. q.groups[h].invited = i /\ q.groups[h].team = t /\ z \in q.groups[h].players
      BY <3>2 DEF Without, Inst
    <3>4. ~(h = g /\ z = p) BY <3>2 DEF Without
    <3> QED BY <3>1, <3>3, <3>4 DEF Places
  <2>2. CASE x \in {0} \X Player BY <1>1, <2>2 DEF Places
  <2> QED BY <2>1, <2>2 DEF Places
<1>3. p \in q.groups[g].players BY DEF SoundQueue, Grouped
<1> QED BY <1>2, <1>3 DEF Places, Loses

\* What is left of the balance when a player is taken out, with his place or without.
LEMMA RemovalBalanced ==
    ASSUME NEW q, NEW F \in SUBSET Inst, NEW H, Balanced(q, F, H),
           NEW p \in Player, NEW lower \in BOOLEAN, q.of[p] # 0
    PROVE  LET r == RemovePlayer(q, p, lower)
               i == q.groups[q.of[p]].invited
           IN  /\ Without(r, q, p, q.of[p]) /\ Lowered(r, q, p, lower) /\ SameEntries(r, q)
               /\ lower \/ i = 0 => Balanced(r, F, H)
               /\ ~lower /\ i # 0 => Balanced(r, F, H \cup {<<i, p>>})
<1> DEFINE r == RemovePlayer(q, p, lower)
           g == q.of[p]
           i == q.groups[g].invited
           team == q.groups[g].team
           k == SlotAt(q, i)
<1>1. SoundQueue(q) /\ q \in QueueStates /\ g \in 1..Len(q.groups)
  BY DEF Balanced, SoundQueue, Grouped
<1>2. Without(r, q, p, g) /\ Lowered(r, q, p, lower) BY <1>1, Removing
<1>3. SameEntries(r, q) /\ r.ids = q.ids /\ Len(r.groups) = Len(q.groups)
  BY <1>2, LoweredEntries DEF Without
<1>4. SoundQueue(r) /\ Singles(r, F)
  BY <1>1, <1>2, <1>3, WithoutSound, SameSingles DEF Balanced
<1>5. /\ Len(q.groups) \in Nat /\ team \in Team /\ i \in Nat /\ TeamOf(p) = team
      /\ \A l \in 1..Len(q.slots), u \in Team : q.slots[l].invited[u] \in Int
      /\ \A l \in 1..Len(q.slots) : q.slots[l].inst \in Inst
  BY <1>1, QueueFields DEF Balanced, SoundQueue, Grouped, OneTeam
<1>6. k = 0 \/ (k \in 1..Len(q.slots) /\ q.slots[k].inst = i) BY <1>1, SlotFound
<1>7. ASSUME NEW l \in 1..Len(q.slots), NEW u \in Team
      PROVE  r.slots[l].invited[u] =
                 IF lower /\ i # 0 /\ k # 0 /\ l = k /\ u = team
                 THEN q.slots[l].invited[u] - 1 ELSE q.slots[l].invited[u]
  BY <1>2, <1>5 DEF Lowered, More
<1> HIDE DEF r, k
<1>8. Bounded(r, F)
  <2>1. ASSUME NEW l \in 1..Len(r.slots), NEW u \in Team, r.slots[l].inst \in F
        PROVE  r.slots[l].invited[u] <= MaxPerTeam
    <3>1. l \in 1..Len(q.slots) /\ q.slots[l].inst \in F BY <1>3, <2>1 DEF SameEntries
    <3>2. q.slots[l].invited[u] <= MaxPerTeam /\ q.slots[l].invited[u] \in Int
      BY <1>5, <3>1 DEF Balanced, Bounded
    <3>3. \/ r.slots[l].invited[u] = q.slots[l].invited[u]
          \/ r.slots[l].invited[u] = q.slots[l].invited[u] - 1
      BY <1>7, <3>1
    <3>4. MaxPerTeam \in Nat BY QueueAssumption
    <3> QED BY ONLY <3>2, <3>3, <3>4
  <2> QED BY <2>1 DEF Bounded
<1>9. ASSUME NEW l \in 1..Len(r.slots), NEW u \in Team, NEW j \in F, r.slots[l].inst = j
      PROVE  /\ lower \/ i = 0 =>
                    Cardinality(Places(r, H, j, u)) <= r.slots[l].invited[u]
             /\ ~lower /\ i # 0 => Cardinality(Places(r, H \cup {<<i, p>>}, j, u))
                             <= r.slots[l].invited[u]
  <2> DEFINE S == Places(q, H, j, u)
             T == Places(r, H, j, u)
             more == Places(r, H \cup {<<i, p>>}, j, u)
             n == q.slots[l].invited[u]
  <2>1. l \in 1..Len(q.slots) /\ q.slots[l].inst = j /\ j \in Inst /\ n \in Int
    BY <1>3, <1>5, <1>9 DEF SameEntries
  <2>2. Cardinality(S) <= n BY <1>9, <2>1 DEF Balanced, Covered
  <2>3. T \subseteq S \ {<<g, p>>}
    <3>1. Loses(r, q, H, j, u, <<g, p>>) BY <1>1, <1>2, <2>1, FewerPlaces
    <3> QED BY <3>1 DEF Loses
  <2>4. IsFiniteSet(S) /\ Cardinality(S) \in Nat BY <1>5, PlacesFinite
  <2>5. Cardinality(T) <= Cardinality(S) /\ Cardinality(T) \in Nat BY <2>3, <2>4, Fewer
  <2>6. IsFiniteSet(more) /\ Cardinality(more) \in Nat BY <1>3, <1>5, PlacesFinite
  <2>7. more \subseteq T \cup {<<0, p>>} BY DEF Places
  <2>8. j # i \/ u # team => more = T BY <1>5 DEF Places
  <2>9. CASE j = i /\ u = team
    <3>1. i \in Inst /\ i # 0 BY <2>1, <2>9 DEF Inst
    <3>2. <<g, p>> \in S BY <1>1, <1>2, <2>1, <2>9, FewerPlaces
    <3>3. Cardinality(T) <= Cardinality(S) - 1 BY <2>3, <2>4, <3>2, OneFewer
    <3>4. Cardinality(more) <= Cardinality(S) BY <2>3, <2>7, <2>4, <3>2, OneForAnother
    <3>5. j \in 1..Len(q.ids) BY <1>1, <2>1, <3>1 DEF SoundQueue, Numbered, Inst
    <3>6. Single(q, j) BY <1>9, <3>5 DEF Balanced, Singles
    <3>7. k # 0 /\ k = l
      <4>1. k # 0 BY <1>1, <2>1, <2>9, SlotFound DEF k
      <4>2. k \in 1..Len(q.slots) /\ q.slots[k].inst = j BY <1>6, <2>9, <4>1
      <4> QED BY <2>1, <3>6, <4>1, <4>2 DEF Single
    <3>8. r.slots[l].invited[u] = IF lower THEN n - 1 ELSE n
      BY <1>7, <2>1, <2>9, <3>1, <3>7
    <3> QED BY <2>1, <2>2, <2>4, <2>5, <3>3, <3>8, <3>1, <2>6, <3>4 DEF T, more
  <2>10. CASE ~(j = i /\ u = team)
    <3>1. r.slots[l].invited[u] = n BY <1>6, <2>1, <2>10, <1>7
    <3> QED BY <2>1, <2>2, <2>4, <2>5, <2>8, <2>10, <3>1
  <2> QED BY <2>9, <2>10
<1>10. /\ lower \/ i = 0 => Covered(r, F, H)
       /\ ~lower /\ i # 0 => Covered(r, F, H \cup {<<i, p>>})
  BY <1>9 DEF Covered
<1> QED BY <1>2, <1>3, <1>4, <1>8, <1>10 DEF Balanced, r

-----------------------------------------------------------------------------
(* AddGroup, and the messages about entries.                               *)

\* r is q with a group of the players S, who are of team t.
Grown(r, q, S, t) ==
    /\ r \in QueueStates /\ Len(r.groups) = Len(q.groups) + 1 /\ r.slots = q.slots
    /\ r.ids = q.ids
    /\ \A h \in 1..Len(q.groups) : r.groups[h] = q.groups[h]
    /\ r.groups[Len(q.groups) + 1].players = S
    /\ r.groups[Len(q.groups) + 1].team = t
    /\ r.groups[Len(q.groups) + 1].invited = 0
    /\ r.of = [p \in Player |-> IF p \in S THEN Len(q.groups) + 1 ELSE q.of[p]]
    /\ \A u \in Team, kind \in Kind : \A n \in 1..Len(r.list[u][kind]) :
           \/ \E m \in 1..Len(q.list[u][kind]) : r.list[u][kind][n] = q.list[u][kind][m]
           \/ u = t /\ r.list[u][kind][n] = Len(q.groups) + 1

LEMMA Adding ==
    ASSUME NEW q \in QueueStates, NEW m \in QueueMessages, m.op = "join"
    PROVE  /\ AddGroup(q, m).sent = q.sent
           /\ \E t \in Team : /\ Grown(AddGroup(q, m), q, m.members, t)
                              /\ \A p \in m.members : TeamOf(p) = t
<1> DEFINE g == Len(q.groups) + 1
           team == TeamOf(CHOOSE p \in m.members : TRUE)
           kind == IF m.premade THEN "premade" ELSE "normal"
           new == [players |-> m.members, team |-> team, invited |-> 0, desired |-> m.desired]
           groups == Append(q.groups, new)
           of == [p \in Player |-> IF p \in m.members THEN g ELSE q.of[p]]
           list == [q.list EXCEPT ![team] = [q.list[team] EXCEPT ![kind] =
                                                 Append(q.list[team][kind], g)]]
           r == [q EXCEPT !.groups = groups, !.of = of, !.list = list]
<1>1. /\ m.members \in Party /\ m.desired \in Nat /\ m.members \in SUBSET Player
      /\ m.members # {}
  BY QueueSays, Teams
<1>2. team \in Team /\ \A p \in m.members : TeamOf(p) = team BY <1>1, Teams
<1>3. kind \in Kind /\ g \in Gid /\ Len(q.groups) \in Nat BY QueueFields DEF Kind, Gid
<1>4. AddGroup(q, m) = r BY DEF AddGroup
<1> HIDE DEF team, kind
<1>5. new \in Groups /\ new.players = m.members /\ new.team = team /\ new.invited = 0
  BY <1>1, <1>2 DEF Groups
<1>6. /\ groups \in Seq(Groups) /\ Len(groups) = g /\ groups[g] = new
      /\ \A h \in 1..Len(q.groups) : groups[h] = q.groups[h]
  BY <1>5, QueueFields, Appended
<1>7. of \in [Player -> Gid \cup {0}] BY <1>3, QueueFields
<1>8. /\ list \in [Team -> [Kind -> Seq(Gid)]]
      /\ \A u \in Team, l \in Kind : \A n \in 1..Len(list[u][l]) :
             \/ \E x \in 1..Len(q.list[u][l]) : list[u][l][n] = q.list[u][l][x]
             \/ u = team /\ list[u][l][n] = g
  <2>1. q.list \in [Team -> [Kind -> Seq(Gid)]] BY QueueFields
  <2>2. PICK s : s = q.list[team][kind] OBVIOUS
  <2>3. s \in Seq(Gid) /\ Len(s) \in Nat BY <1>2, <1>3, <2>1, <2>2
  <2>4. PICK a : a = Append(s, g) OBVIOUS
  <2>5. /\ a \in Seq(Gid) /\ Len(a) = Len(s) + 1 /\ a[Len(s) + 1] = g
        /\ \A n \in 1..Len(s) : a[n] = s[n]
    BY <1>3, <2>3, <2>4, Appended
  <2>6. list = [q.list EXCEPT ![team] = [q.list[team] EXCEPT ![kind] = a]] BY <2>2, <2>4
  <2> HIDE DEF list, g
  <2>7. list \in [Team -> [Kind -> Seq(Gid)]] BY <1>2, <1>3, <2>1, <2>5, <2>6
  <2>8. \A u \in Team, l \in Kind :
            list[u][l] = IF u = team /\ l = kind THEN a ELSE q.list[u][l]
    BY <1>2, <1>3, <2>1, <2>6
  <2>9. ASSUME NEW u \in Team, NEW l \in Kind, NEW n \in 1..Len(list[u][l])
        PROVE  \/ \E x \in 1..Len(q.list[u][l]) : list[u][l][n] = q.list[u][l][x]
               \/ u = team /\ list[u][l][n] = g
    <3>1. CASE u = team /\ l = kind
      <4>1. n \in 1..(Len(s) + 1) /\ list[u][l][n] = a[n] BY <2>5, <2>8, <3>1
      <4>2. CASE n = Len(s) + 1 BY <2>5, <3>1, <4>1, <4>2
      <4>3. CASE n \in 1..Len(s) BY <2>2, <2>5, <3>1, <4>1, <4>3
      <4> QED BY <2>3, <4>1, <4>2, <4>3
    <3>2. CASE ~(u = team /\ l = kind) BY <2>8, <3>2
    <3> QED BY <3>1, <3>2
  <2> QED BY <2>7, <2>9
<1> HIDE DEF list, of, groups
<1>9. /\ r \in QueueStates /\ r.groups = groups /\ r.of = of /\ r.list = list
      /\ r.slots = q.slots /\ r.ids = q.ids /\ r.sent = q.sent
  BY <1>6, <1>7, <1>8 DEF QueueStates
<1> HIDE DEF r
<1>10. Grown(r, q, m.members, team) BY <1>9, <1>5, <1>6, <1>8 DEF of, Grown
<1> QED BY <1>2, <1>4, <1>9, <1>10

LEMMA GrownBalanced ==
    ASSUME NEW q, NEW F \in SUBSET Inst, NEW H, Balanced(q, F, H), NEW S \in SUBSET Player,
           NEW t \in Team, \A p \in S : TeamOf(p) = t, NEW r, Grown(r, q, S, t)
    PROVE  Balanced(r, F, H) /\ SameEntries(r, q)
<1> DEFINE g == Len(q.groups) + 1
<1>1. /\ SoundQueue(q) /\ q \in QueueStates /\ Len(q.groups) \in Nat /\ Len(q.ids) \in Nat
      /\ r \in QueueStates /\ r.slots = q.slots /\ r.ids = q.ids
  BY QueueFields DEF Balanced, SoundQueue, Grown
<1>2. 1..Len(r.groups) = 1..Len(q.groups) \cup {g} BY <1>1 DEF Grown
<1>3. /\ \A h \in 1..Len(q.groups) : r.groups[h] = q.groups[h] /\ h # g
      /\ r.groups[g].players = S /\ r.groups[g].team = t /\ r.groups[g].invited = 0
  BY <1>1 DEF Grown
<1>4. Grouped(r) BY <1>2, <1>3, <1>1 DEF Grown, SoundQueue, Grouped
<1>5. Queued(r)
  <2>1. ASSUME NEW u \in Team, NEW kind \in Kind, NEW n \in 1..Len(r.list[u][kind])
        PROVE  /\ r.list[u][kind][n] \in 1..Len(r.groups)
               /\ r.groups[r.list[u][kind][n]].team = u
    <3>1. CASE u = t /\ r.list[u][kind][n] = g BY <1>2, <1>3, <3>1
    <3>2. ASSUME NEW m \in 1..Len(q.list[u][kind]),
                 r.list[u][kind][n] = q.list[u][kind][m]
          PROVE  /\ r.list[u][kind][n] \in 1..Len(r.groups)
                 /\ r.groups[r.list[u][kind][n]].team = u
      <4>1. /\ q.list[u][kind][m] \in 1..Len(q.groups)
            /\ q.groups[q.list[u][kind][m]].team = u
        BY <1>1 DEF SoundQueue, Queued
      <4> QED BY <1>2, <1>3, <3>2, <4>1
    <3> QED BY <3>1, <3>2 DEF Grown
  <2> QED BY <2>1 DEF Queued
<1>6. OneTeam(r)
  <2>1. ASSUME NEW h \in 1..Len(r.groups)
        PROVE  /\ r.groups[h].invited <= Len(r.ids)
               /\ \A x \in r.groups[h].players : TeamOf(x) = r.groups[h].team
    <3>1. CASE h = g BY <1>1, <1>3, <3>1
    <3>2. CASE h \in 1..Len(q.groups) BY <1>1, <1>3, <3>2 DEF SoundQueue, OneTeam
    <3> QED BY <1>2, <3>1, <3>2
  <2> QED BY <2>1 DEF OneTeam
<1>7. SameEntries(r, q) BY <1>1 DEF SameEntries
<1>8. Numbered(r) /\ Singles(r, F) BY <1>1, <1>7, SameSingles DEF Balanced, SoundQueue
<1>9. ASSUME NEW i \in F, NEW u \in Team
      PROVE  Places(r, H, i, u) = Places(q, H, i, u)
  <2>1. i # 0 BY DEF Inst
  <2> DEFINE P(s) == {x \in (1..Len(s.groups)) \X Player :
        /\ s.groups[x[1]].invited = i /\ s.groups[x[1]].team = u
        /\ x[2] \in s.groups[x[1]].players}
  <2>2. P(r) = P(q) BY <1>2, <1>3, <2>1
  <2> QED BY <2>2 DEF Places
<1>10. Covered(r, F, H) /\ Bounded(r, F) BY <1>1, <1>9 DEF Balanced, Covered, Bounded
<1> QED BY <1>1, <1>4, <1>5, <1>6, <1>7, <1>8, <1>10 DEF Balanced, SoundQueue

\* r has entry e in front of those of q.
Fronted(r, q, e) ==
    /\ Len(r.slots) = Len(q.slots) + 1 /\ r.slots[1] = e /\ 1 \in 1..Len(r.slots)
    /\ \A n \in 1..Len(q.slots) : n + 1 \in 1..Len(r.slots) /\ r.slots[n + 1] = q.slots[n]
    /\ \A n \in 1..Len(r.slots) :
           n = 1 \/ (n - 1 \in 1..Len(q.slots) /\ r.slots[n] = q.slots[n - 1])
    /\ 1..Len(q.slots) \subseteq Nat

LEMMA Fronting ==
    ASSUME NEW q \in QueueStates, NEW e \in Slots, NEW r, r.slots = <<e>> \o q.slots
    PROVE  r.slots \in Seq(Slots) /\ Fronted(r, q, e)
BY QueueFields, Inserted DEF Fronted

LEMMA FrontedEntries ==
    ASSUME NEW q, NEW e, NEW r, Fronted(r, q, e), NEW i
    PROVE  /\ i # e.inst /\ Single(q, i) => Single(r, i)
           /\ i # e.inst /\ Double(q, i) => Double(r, i)
           /\ i = e.inst /\ Single(q, i) => Double(r, i)
           /\ i = e.inst /\ (\A k \in 1..Len(q.slots) : q.slots[k].inst # i) => Single(r, i)
<1>1. ASSUME i # e.inst, Single(q, i)
      PROVE  Single(r, i)
  <2>1. PICK k \in 1..Len(q.slots) :
            q.slots[k].inst = i /\ \A l \in 1..Len(q.slots) : q.slots[l].inst = i => l = k
    BY <1>1 DEF Single
  <2>2. k + 1 \in 1..Len(r.slots) /\ r.slots[k + 1].inst = i BY <2>1 DEF Fronted
  <2>3. ASSUME NEW n \in 1..Len(r.slots), r.slots[n].inst = i
        PROVE  n = k + 1
    <3>1. n - 1 \in 1..Len(q.slots) /\ r.slots[n] = q.slots[n - 1]
      BY <1>1, <2>3 DEF Fronted
    <3>2. n - 1 = k /\ n \in Int /\ k \in Int BY <2>1, <2>3, <3>1
    <3> QED BY <3>2
  <2> QED BY <2>2, <2>3 DEF Single
<1>2. ASSUME i # e.inst, Double(q, i)
      PROVE  Double(r, i)
  <2>1. PICK k \in 1..Len(q.slots), l \in 1..Len(q.slots) :
            /\ k # l /\ q.slots[k].inst = i /\ q.slots[l].inst = i
            /\ \A n \in 1..Len(q.slots) : q.slots[n].inst = i => n \in {k, l}
    BY <1>2 DEF Double
  <2>2. /\ k + 1 \in 1..Len(r.slots) /\ r.slots[k + 1].inst = i
        /\ l + 1 \in 1..Len(r.slots) /\ r.slots[l + 1].inst = i
        /\ k \in Int /\ l \in Int
    BY <2>1 DEF Fronted
  <2>3. ASSUME NEW n \in 1..Len(r.slots), r.slots[n].inst = i
        PROVE  n \in {k + 1, l + 1}
    <3>1. n - 1 \in 1..Len(q.slots) /\ r.slots[n] = q.slots[n - 1]
      BY <1>2, <2>3 DEF Fronted
    <3>2. n - 1 \in {k, l} /\ n \in Int BY <2>1, <2>3, <3>1
    <3> QED BY <2>2, <3>2
  <2>4. k + 1 # l + 1 BY <2>1, <2>2
  <2> QED BY <2>2, <2>3, <2>4 DEF Double
<1>3. ASSUME i = e.inst, Single(q, i)
      PROVE  Double(r, i)
  <2>1. PICK k \in 1..Len(q.slots) :
            q.slots[k].inst = i /\ \A l \in 1..Len(q.slots) : q.slots[l].inst = i => l = k
    BY <1>3 DEF Single
  <2>2. /\ k + 1 \in 1..Len(r.slots) /\ r.slots[k + 1].inst = i /\ k \in Nat
        /\ 1 \in 1..Len(r.slots) /\ r.slots[1].inst = i
    BY <1>3, <2>1 DEF Fronted
  <2>3. ASSUME NEW n \in 1..Len(r.slots), r.slots[n].inst = i
        PROVE  n \in {1, k + 1}
    <3>1. n = 1 \/ (n - 1 \in 1..Len(q.slots) /\ r.slots[n] = q.slots[n - 1])
      BY DEF Fronted
    <3>2. n = 1 \/ (n - 1 = k /\ n \in Int) BY <2>1, <2>3, <3>1
    <3> QED BY <2>2, <3>2
  <2>4. 1 # k + 1 BY <2>2
  <2> QED BY <2>2, <2>3, <2>4 DEF Double
<1>4. ASSUME i = e.inst, \A k \in 1..Len(q.slots) : q.slots[k].inst # i
      PROVE  Single(r, i)
  <2>1. 1 \in 1..Len(r.slots) /\ r.slots[1].inst = i BY <1>4 DEF Fronted
  <2>2. ASSUME NEW n \in 1..Len(r.slots), r.slots[n].inst = i
        PROVE  n = 1
    <3>1. n = 1 \/ (n - 1 \in 1..Len(q.slots) /\ r.slots[n] = q.slots[n - 1])
      BY DEF Fronted
    <3> QED BY <1>4, <2>2, <3>1
  <2> QED BY <2>1, <2>2 DEF Single
<1> QED BY <1>1, <1>2, <1>3, <1>4

\* r has not the k-th entry of q, and otherwise its entries.
Shortened(r, q, k) ==
    /\ Len(r.slots) = Len(q.slots) - 1 /\ Len(q.slots) \in Nat /\ k \in 1..Len(q.slots)
    /\ \A n \in 1..(Len(q.slots) - 1) :
           r.slots[n] = IF n < k THEN q.slots[n] ELSE q.slots[n + 1]

\* Where an entry of q is in r, and one of r was in q.
LEMMA Moved ==
    ASSUME NEW q, NEW r, NEW k, Shortened(r, q, k)
    PROVE  /\ \A l \in 1..Len(q.slots) : l # k =>
                  \E n \in 1..Len(r.slots) : r.slots[n] = q.slots[l]
                                             /\ n = IF l < k THEN l ELSE l - 1
           /\ \A n \in 1..Len(r.slots) :
                  \E l \in 1..Len(q.slots) : l # k /\ r.slots[n] = q.slots[l]
                                             /\ n = IF l < k THEN l ELSE l - 1
<1>0. Len(q.slots) \in Nat /\ k \in Int /\ Len(r.slots) = Len(q.slots) - 1
  BY DEF Shortened
<1>1. ASSUME NEW l \in 1..Len(q.slots), l # k
      PROVE  \E n \in 1..Len(r.slots) : r.slots[n] = q.slots[l]
                                        /\ n = IF l < k THEN l ELSE l - 1
  BY <1>0, <1>1 DEF Shortened
<1>2. ASSUME NEW n \in 1..Len(r.slots)
      PROVE  \E l \in 1..Len(q.slots) : l # k /\ r.slots[n] = q.slots[l]
                                        /\ n = IF l < k THEN l ELSE l - 1
  <2>1. CASE n < k
    <3>1. n \in 1..Len(q.slots) /\ r.slots[n] = q.slots[n] /\ n # k
      BY <1>0, <2>1 DEF Shortened
    <3> QED BY <2>1, <3>1
  <2>2. CASE ~(n < k) BY <1>0, <2>2 DEF Shortened
  <2> QED BY <2>1, <2>2
<1> QED BY <1>1, <1>2

LEMMA ShortenedEntries ==
    ASSUME NEW q, NEW r, NEW k, Shortened(r, q, k), NEW i
    PROVE  /\ i # q.slots[k].inst /\ Single(q, i) => Single(r, i)
           /\ i # q.slots[k].inst /\ Double(q, i) => Double(r, i)
           /\ i = q.slots[k].inst /\ Double(q, i) => Single(r, i)
<1> DEFINE At(l) == IF l < k THEN l ELSE l - 1
<1>0. /\ \A l \in 1..Len(q.slots) : l # k =>
             At(l) \in 1..Len(r.slots) /\ r.slots[At(l)] = q.slots[l]
      /\ \A n \in 1..Len(r.slots) :
             \E l \in 1..Len(q.slots) : l # k /\ r.slots[n] = q.slots[l] /\ n = At(l)
      /\ \A l, m \in 1..Len(q.slots) : l # k /\ m # k /\ l # m => At(l) # At(m)
  <2>1. /\ \A l \in 1..Len(q.slots) : l # k =>
             At(l) \in 1..Len(r.slots) /\ r.slots[At(l)] = q.slots[l]
        /\ \A n \in 1..Len(r.slots) :
             \E l \in 1..Len(q.slots) : l # k /\ r.slots[n] = q.slots[l] /\ n = At(l)
    <3>1. ASSUME NEW l \in 1..Len(q.slots), l # k
          PROVE  At(l) \in 1..Len(r.slots) /\ r.slots[At(l)] = q.slots[l]
      <4>1. PICK n \in 1..Len(r.slots) : r.slots[n] = q.slots[l] /\ n = At(l)
        BY <3>1, Moved
      <4> QED BY <4>1
    <3>2. ASSUME NEW n \in 1..Len(r.slots)
          PROVE  \E l \in 1..Len(q.slots) : l # k /\ r.slots[n] = q.slots[l] /\ n = At(l)
      BY Moved
    <3> QED BY <3>1, <3>2
  <2>2. \A l, m \in 1..Len(q.slots) : l # k /\ m # k /\ l # m => At(l) # At(m)
    BY DEF Shortened
  <2> QED BY <2>1, <2>2
<1> HIDE DEF At
<1>1. ASSUME i # q.slots[k].inst, Single(q, i)
      PROVE  Single(r, i)
  <2>1. PICK l \in 1..Len(q.slots) :
            q.slots[l].inst = i /\ \A m \in 1..Len(q.slots) : q.slots[m].inst = i => m = l
    BY <1>1 DEF Single
  <2>2. At(l) \in 1..Len(r.slots) /\ r.slots[At(l)].inst = i BY <1>0, <1>1, <2>1
  <2>3. \A n \in 1..Len(r.slots) : r.slots[n].inst = i => n = At(l) BY <1>0, <2>1
  <2> QED BY <2>2, <2>3 DEF Single
<1>2. ASSUME NEW l \in 1..Len(q.slots), NEW m \in 1..Len(q.slots), l # m,
             q.slots[l].inst = i, q.slots[m].inst = i,
             \A n \in 1..Len(q.slots) : q.slots[n].inst = i => n \in {l, m}
      PROVE  /\ l = k => Single(r, i)
             /\ l # k /\ m # k => Double(r, i)
  <2>1. ASSUME l = k
        PROVE  Single(r, i)
    <3>1. At(m) \in 1..Len(r.slots) /\ r.slots[At(m)].inst = i BY <1>0, <1>2, <2>1
    <3>2. ASSUME NEW n \in 1..Len(r.slots), r.slots[n].inst = i
          PROVE  n = At(m)
      <4>1. PICK x \in 1..Len(q.slots) : x # k /\ r.slots[n] = q.slots[x] /\ n = At(x)
        BY <1>0
      <4>2. x = m BY <1>2, <2>1, <3>2, <4>1
      <4> QED BY <4>1, <4>2
    <3> QED BY <3>1, <3>2 DEF Single
  <2>2. ASSUME l # k, m # k
        PROVE  Double(r, i)
    <3>1. /\ At(m) \in 1..Len(r.slots) /\ r.slots[At(m)].inst = i
          /\ At(l) \in 1..Len(r.slots) /\ r.slots[At(l)].inst = i /\ At(l) # At(m)
      BY <1>0, <1>2, <2>2
    <3>2. \A n \in 1..Len(r.slots) : r.slots[n].inst = i => n \in {At(l), At(m)}
      BY <1>0, <1>2
    <3> QED BY <3>1, <3>2 DEF Double
  <2> QED BY <2>1, <2>2
<1>3. ASSUME Double(q, i)
      PROVE  IF i = q.slots[k].inst THEN Single(r, i) ELSE Double(r, i)
  BY <1>3, <1>2 DEF Double, Shortened
<1> QED BY <1>1, <1>3

-----------------------------------------------------------------------------
(* What the queue does with a message.                                     *)

\* Nothing is different but the messages sent and whether an update is scheduled.
Alike(r, q) ==
    /\ r \in QueueStates /\ r.groups = q.groups /\ r.list = q.list /\ r.of = q.of
    /\ r.slots = q.slots /\ r.ids = q.ids

LEMMA AlikeParts ==
    ASSUME NEW q, NEW r, NEW x, Alike(x, r)
    PROVE  /\ \A p, g : Without(r, q, p, g) => Without(x, q, p, g)
           /\ \A S, t : Grown(r, q, S, t) => Grown(x, q, S, t)
           /\ \A F, H : Balanced(r, F, H) => Balanced(x, F, H)
           /\ SoundQueue(r) => SoundQueue(x)
           /\ SameEntries(r, q) => SameEntries(x, q)
BY SameBalanced DEF Alike, Without, Grown, SameEntries

LEMMA TellingAlike ==
    ASSUME NEW q \in QueueStates, NEW m \in WorldMessages, NEW b \in BOOLEAN
    PROVE  /\ Alike(Tell(q, m), q) /\ Tell(q, m).sent = Append(q.sent, m)
           /\ Alike([q EXCEPT !.scheduled = b], q)
           /\ [q EXCEPT !.scheduled = b].sent = q.sent
           /\ Alike([q EXCEPT !.sent = <<>>], q)
<1>1. Alike(Tell(q, m), q) /\ Tell(q, m).sent = Append(q.sent, m) BY Telling DEF Alike
<1>2. <<>> \in Seq(WorldMessages) OBVIOUS
<1>3. Alike([q EXCEPT !.scheduled = b], q) /\ [q EXCEPT !.scheduled = b].sent = q.sent
  BY DEF Alike, QueueStates
<1>4. Alike([q EXCEPT !.sent = <<>>], q) BY <1>2 DEF Alike, QueueStates
<1> QED BY <1>1, <1>3, <1>4

LEMMA AlikeChain ==
    ASSUME NEW q, NEW r, NEW x, Alike(x, r), Alike(r, q)
    PROVE  Alike(x, q)
BY DEF Alike

\* Messages about counts.
Counts == {m \in WorldMessages : m.op = "count"}

\* Player p leaves the queue, or enters instance i.
Leaves(r, q, p) == q.of[p] # 0 /\ Alike(r, RemovePlayer(q, p, TRUE))
Enters(r, q, p, i) ==
    /\ q.of[p] # 0 /\ i # 0 /\ i = q.groups[q.of[p]].invited
    /\ Alike(r, RemovePlayer(q, p, FALSE))

\* The entries change as message m has it.
Entries(r, q, m) ==
    /\ r \in QueueStates /\ r.groups = q.groups /\ r.list = q.list /\ r.of = q.of
    /\ r.ids = q.ids
    /\ \/ m.op = "add" /\ Fronted(r, q, m.slot)
       \/ /\ m.op \in {"status", "lower"} /\ SameEntries(r, q)
          /\ \A l \in 1..Len(q.slots) : m.op = "status" \/ q.slots[l].inst # m.inst =>
                 \A t \in Team : r.slots[l].invited[t] = q.slots[l].invited[t]
       \/ m.op = "drop" /\ \E k \in 1..Len(q.slots) :
              q.slots[k].inst = m.inst /\ Shortened(r, q, k)

LEMMA CountsSaid ==
    ASSUME NEW m \in WorldMessages, m.op = "count"
    PROVE  <<>> \in Seq(Counts) /\ <<m>> \in Seq(Counts) /\ Append(<<>>, m) = <<m>>
BY DEF Counts

LEMMA LeavesSays ==
    ASSUME NEW q, SoundQueue(q), q.sent = <<>>, NEW p \in Player, NEW lower \in BOOLEAN,
           q.of[p] # 0
    PROVE  LET r == RemovePlayer(q, p, lower) IN
           /\ r \in QueueStates /\ Without(r, q, p, q.of[p])
           /\ r.sent \in Seq(Counts) /\ (~lower => r.sent = <<>> /\ r.slots = q.slots)
<1> DEFINE r == RemovePlayer(q, p, lower)
<1>1. Without(r, q, p, q.of[p]) /\ Lowered(r, q, p, lower) BY Removing
<1>2. r.sent = <<>> \/ \E m \in WorldMessages : m.op = "count" /\ r.sent = Append(<<>>, m)
  BY <1>1 DEF Lowered
<1>3. r.sent \in Seq(Counts)
  <2>1. CASE r.sent = <<>> BY <2>1
  <2>2. ASSUME NEW m \in WorldMessages, m.op = "count", r.sent = Append(<<>>, m)
        PROVE  r.sent \in Seq(Counts)
    BY <2>2, CountsSaid
  <2> HIDE DEF r
  <2> QED BY <1>2, <2>1, <2>2
<1> QED BY <1>1, <1>3 DEF Without, Lowered

LEMMA ChangingSlot ==
    ASSUME NEW q \in QueueStates, q.sent = <<>>, NEW m \in QueueMessages,
           m.op \in {"add", "status", "lower", "drop"}
    PROVE  LET r == ChangeSlot(q, m) IN
           /\ r.sent \in Seq(Counts)
           /\ \/ Entries(r, q, m)
              \/ /\ r = q /\ m.op # "add"
                 /\ \A l \in 1..Len(q.slots) : q.slots[l].inst # m.inst
<1> DEFINE r == ChangeSlot(q, m)
           k == SlotAt(q, m.inst)
<1>0. /\ q.slots \in Seq(Slots) /\ <<>> \in Seq(Counts)
      /\ \/ k = 0 /\ \A l \in 1..Len(q.slots) : q.slots[l].inst # m.inst
         \/ k \in 1..Len(q.slots) /\ q.slots[k].inst = m.inst
  BY QueueFields, SlotFound
<1>1. CASE m.op = "add"
  BY <1>1, QueueSays, Fronting, <1>0 DEF ChangeSlot, QueueStates, Entries, r
<1>2. CASE m.op # "add" /\ k = 0
  <2>1. r = q BY <1>2 DEF ChangeSlot
  <2> HIDE DEF r, k
  <2>2. \A l \in 1..Len(q.slots) : q.slots[l].inst # m.inst BY <1>0, <1>2
  <2> QED BY <1>0, <1>2, <2>1, <2>2 DEF r
<1>3. CASE m.op = "status" /\ k # 0
  <2> DEFINE e == [q.slots[k] EXCEPT !.status = m.status]
             slots == [q.slots EXCEPT ![k] = e]
  <2>1. r = [q EXCEPT !.slots = slots] BY <1>3 DEF ChangeSlot
  <2>2. /\ e \in Slots /\ e.inst = q.slots[k].inst /\ e.inside = q.slots[k].inside
        /\ e.invited = q.slots[k].invited
    <3>1. q.slots[k] \in Slots /\ m.status \in Status
      BY <1>0, <1>3, QueueFields, QueueSays
    <3> QED BY <3>1 DEF Slots
  <2> HIDE DEF e
  <2>3. slots \in Seq(Slots) /\ Len(slots) = Len(q.slots) BY <1>0, <1>3, <2>2, ExceptSeq
  <2>4. \A l \in 1..Len(q.slots) : slots[l] = IF l = k THEN e ELSE q.slots[l] BY <1>0
  <2> HIDE DEF slots, k
  <2>5. /\ r \in QueueStates /\ r.slots = slots /\ r.groups = q.groups /\ r.list = q.list
        /\ r.of = q.of /\ r.ids = q.ids /\ r.sent = <<>>
    BY <2>1, <2>3 DEF QueueStates
  <2> HIDE DEF r
  <2>6. \A l \in 1..Len(q.slots) :
            /\ r.slots[l].inst = q.slots[l].inst /\ r.slots[l].inside = q.slots[l].inside
            /\ r.slots[l].invited = q.slots[l].invited
    BY <1>3, <2>2, <2>4, <2>5
  <2>7. SameEntries(r, q) BY <2>3, <2>5, <2>6 DEF SameEntries
  <2> QED BY <1>0, <1>3, <2>5, <2>6, <2>7 DEF Entries, r
<1>4. CASE m.op = "lower" /\ k # 0
  <2>1. r = ChangeInvited(q, k, m.team, -1) BY <1>4 DEF ChangeSlot
  <2>2. m.team \in Team /\ -1 \in Int BY <1>4, QueueSays
  <2> HIDE DEF r
  <2>3. /\ r \in QueueStates /\ r.groups = q.groups /\ r.list = q.list /\ r.of = q.of
        /\ r.ids = q.ids /\ More(r, q, k, m.team, -1)
        /\ \E x \in WorldMessages : x.op = "count" /\ r.sent = Append(q.sent, x)
    BY <1>0, <1>4, <2>1, <2>2, Changing
  <2>4. r.sent \in Seq(Counts) BY <2>3, CountsSaid
  <2>5. SameEntries(r, q) BY <2>3 DEF More, SameEntries
  <2>6. \A l \in 1..Len(q.slots) : q.slots[l].inst # m.inst =>
            \A t \in Team : r.slots[l].invited[t] = q.slots[l].invited[t]
    BY <1>0, <1>4, <2>3 DEF More
  <2> QED BY <1>4, <2>3, <2>4, <2>5, <2>6 DEF Entries, r
<1>5. CASE m.op = "drop" /\ k # 0
  <2> DEFINE slots == RemoveAt(q.slots, k)
  <2>1. r = [q EXCEPT !.slots = slots] BY <1>5 DEF ChangeSlot
  <2>2. /\ slots \in Seq(Slots) /\ Len(slots) = Len(q.slots) - 1 /\ Len(q.slots) \in Nat
        /\ \A n \in 1..(Len(q.slots) - 1) :
               slots[n] = IF n < k THEN q.slots[n] ELSE q.slots[n + 1]
    BY <1>0, <1>5, Removed
  <2> HIDE DEF slots, k
  <2>3. /\ r \in QueueStates /\ r.slots = slots /\ r.groups = q.groups /\ r.list = q.list
        /\ r.of = q.of /\ r.ids = q.ids /\ r.sent = <<>>
    BY <2>1, <2>2 DEF QueueStates
  <2> HIDE DEF r
  <2>4. Shortened(r, q, k) BY <1>0, <1>5, <2>2, <2>3 DEF Shortened
  <2> QED BY <1>0, <1>5, <2>3, <2>4 DEF Entries, r
<1> QED BY <1>1, <1>2, <1>3, <1>4, <1>5

\* What comes of message m.
Outcome(r, q, m) ==
    \/ /\ Alike(r, q) /\ r.sent = <<>> /\ m.op \notin {"join", "add"}
       /\ m.op = "drop" => \A l \in 1..Len(q.slots) : q.slots[l].inst # m.inst
    \/ /\ m.op = "join" /\ r.sent = <<[op |-> "joined", members |-> m.members]>>
       /\ \E t \in Team : Grown(r, q, m.members, t) /\ \A p \in m.members : TeamOf(p) = t
    \/ m.op = "remove" /\ Leaves(r, q, m.who) /\ r.sent \in Seq(Counts)
    \/ /\ m.op \in {"port", "expire"} /\ Leaves(r, q, m.who)
       /\ m.op = "expire" => q.of[m.who] = m.stamp
       /\ \E s \in Seq(Counts) : r.sent = Append(s, [op |-> "unqueue", who |-> m.who])
    \/ m.op = "port" /\ \E i \in Inst :
           /\ Enters(r, q, m.who, i)
           /\ r.sent = <<[op |-> "enter", who |-> m.who, inst |-> i]>>
    \/ Entries(r, q, m) /\ r.sent \in Seq(Counts)

LEMMA LeavesOutcome ==
    ASSUME NEW q, SoundQueue(q), q.sent = <<>>, NEW p \in Player, NEW b \in BOOLEAN,
           q.of[p] # 0
    PROVE  LET r == Tell([RemovePlayer(q, p, TRUE) EXCEPT !.scheduled = @ \/ b],
                         [op |-> "unqueue", who |-> p])
           IN  /\ Leaves(r, q, p)
               /\ \E s \in Seq(Counts) : r.sent = Append(s, [op |-> "unqueue", who |-> p])
<1> DEFINE c == RemovePlayer(q, p, TRUE)
           u == [op |-> "unqueue", who |-> p]
           d == [c EXCEPT !.scheduled = @ \/ b]
           r == Tell(d, u)
<1>1. c \in QueueStates /\ c.sent \in Seq(Counts) BY LeavesSays
<1>2. u \in WorldMessages BY DEF WorldMessages
<1>3. PICK e \in BOOLEAN : d = [c EXCEPT !.scheduled = e] OBVIOUS
<1> HIDE DEF c, u, d
<1>4. Alike(d, c) /\ d.sent = c.sent BY <1>1, <1>2, <1>3, TellingAlike
<1>5. d \in QueueStates BY <1>4 DEF Alike
<1>6. Alike(r, d) /\ r.sent = Append(d.sent, u) BY <1>2, <1>5, TellingAlike
<1>7. Alike(r, c) BY <1>4, <1>6, AlikeChain
<1> QED BY <1>1, <1>4, <1>6, <1>7 DEF Leaves, c, u, d

LEMMA Handling ==
    ASSUME NEW q, SoundQueue(q), q.sent = <<>>, NEW m \in QueueMessages
    PROVE  Outcome(Handled(q, m), q, m)
<1> DEFINE r == Handled(q, m)
<1>1. q \in QueueStates BY DEF SoundQueue
<1>2. CASE m.op = "join"
  <2> DEFINE a == AddGroup(q, m)
             b == [a EXCEPT !.scheduled = TRUE]
             w == [op |-> "joined", members |-> m.members]
  <2>1. r = Tell(b, w) BY <1>2 DEF Handled
  <2>2. w \in WorldMessages BY <1>2, QueueSays DEF WorldMessages
  <2>3. PICK t \in Team : Grown(a, q, m.members, t) /\ \A p \in m.members : TeamOf(p) = t
    BY <1>1, <1>2, Adding
  <2>4. a \in QueueStates /\ a.sent = <<>> BY <1>1, <1>2, <2>3, Adding DEF Grown
  <2> HIDE DEF a, w
  <2>5. Alike(b, a) /\ b.sent = <<>> /\ b \in QueueStates BY <2>4 DEF Alike, QueueStates
  <2> HIDE DEF b
  <2>6. Alike(Tell(b, w), b) /\ Tell(b, w).sent = Append(<<>>, w)
    BY <2>2, <2>5, TellingAlike
  <2>7. Grown(Tell(b, w), q, m.members, t) BY <2>5, <2>6, AlikeChain, <2>3, AlikeParts
  <2>8. Append(<<>>, w) = <<w>> OBVIOUS
  <2> QED BY <1>2, <2>1, <2>3, <2>6, <2>7, <2>8 DEF Outcome, w
<1>3. CASE m.op = "port"
  <2> DEFINE p == m.who
             i == q.groups[q.of[p]].invited
  <2>1. r = Port(q, p, m.enter) /\ p \in Player /\ m.enter \in BOOLEAN
    BY <1>3, QueueSays DEF Handled
  <2>2. CASE q.of[p] = 0 \/ (m.enter /\ i = 0)
    BY <2>1, <2>2, <1>1, <1>3, Zenon DEF Port, Outcome, Alike
  <2>3. CASE q.of[p] # 0 /\ m.enter /\ i # 0
    <3> DEFINE c == RemovePlayer(q, p, FALSE)
               e == [op |-> "enter", who |-> p, inst |-> i]
    <3>1. r = Tell(c, e) BY <2>1, <2>3 DEF Port
    <3>2. i \in Inst BY <2>1, <2>3, <1>1, QueueFields DEF SoundQueue, Grouped, Inst
    <3>3. e \in WorldMessages BY <2>1, <3>2 DEF WorldMessages
    <3>4. c \in QueueStates /\ c.sent = <<>> BY <2>1, <2>3, LeavesSays
    <3> HIDE DEF c, e
    <3>5. Alike(r, c) /\ r.sent = Append(<<>>, e) BY <3>1, <3>3, <3>4, TellingAlike
    <3>6. Append(<<>>, e) = <<e>> OBVIOUS
    <3>7. Enters(r, q, p, i) BY <2>3, <3>5 DEF Enters, c
    <3> QED BY <1>3, <3>2, <3>5, <3>6, <3>7 DEF Outcome, e
  <2>4. CASE q.of[p] # 0 /\ ~m.enter
    <3> DEFINE c == RemovePlayer(q, p, TRUE)
               x == Tell([c EXCEPT !.scheduled = @ \/ TRUE], [op |-> "unqueue", who |-> p])
    <3>1. r = Tell([c EXCEPT !.scheduled = TRUE], [op |-> "unqueue", who |-> p])
      BY <2>1, <2>4 DEF Port
    <3>2. r = x BY <3>1
    <3>3. /\ Leaves(x, q, p)
          /\ \E s \in Seq(Counts) : x.sent = Append(s, [op |-> "unqueue", who |-> p])
      BY <2>1, <2>4, LeavesOutcome
    <3> QED BY <1>3, <3>2, <3>3 DEF Outcome
  <2> QED BY <2>1, <2>2, <2>3, <2>4
<1>4. CASE m.op = "remove"
  <2>1. r = RemovePlayer(q, m.who, TRUE) /\ m.who \in Player
    BY <1>4, QueueSays DEF Handled
  <2>2. CASE q.of[m.who] = 0 BY <2>1, <2>2, <1>1, <1>4 DEF RemovePlayer, Outcome, Alike
  <2>3. CASE q.of[m.who] # 0 BY <2>1, <2>3, LeavesSays, <1>4 DEF Outcome, Leaves, Alike
  <2> QED BY <2>2, <2>3
<1>5. CASE m.op = "expire"
  <2> DEFINE p == m.who
  <2>1. /\ r = Expire(q, m) /\ p \in Player /\ m.again \in BOOLEAN /\ m.stamp \in Gid
    BY <1>5, QueueSays DEF Handled
  <2>2. CASE ~IsPlayerInvited(q, p, m.inst, m.stamp)
    BY <2>1, <2>2, <1>1, <1>5 DEF Expire, Outcome, Alike
  <2>3. CASE IsPlayerInvited(q, p, m.inst, m.stamp)
    <3> DEFINE x == Tell([RemovePlayer(q, p, TRUE) EXCEPT !.scheduled = @ \/ m.again],
                         [op |-> "unqueue", who |-> p])
    <3>1. r = x BY <2>1, <2>3 DEF Expire
    <3>2. q.of[p] = m.stamp /\ q.of[p] # 0 BY <2>1, <2>3 DEF IsPlayerInvited, Gid
    <3>3. /\ Leaves(x, q, p)
          /\ \E s \in Seq(Counts) : x.sent = Append(s, [op |-> "unqueue", who |-> p])
      BY <2>1, <3>2, LeavesOutcome
    <3> QED BY <1>5, <3>1, <3>2, <3>3 DEF Outcome
  <2> QED BY <2>2, <2>3
<1>6. CASE m.op = "schedule" BY <1>6, <1>1 DEF Handled, Alike, QueueStates, Outcome
<1>7. CASE m.op \in {"add", "status", "lower", "drop"}
  BY <1>7, <1>1, ChangingSlot DEF Handled, Outcome, Alike
<1> QED BY <1>2, <1>3, <1>4, <1>5, <1>6, <1>7, QueueSays

-----------------------------------------------------------------------------
(* The messages to the world.                                              *)

Plain == {m \in WorldMessages : m.op \notin {"create", "enter", "full"}}

\* The world has bgs battlegrounds of the ids that were numbered, and hears of
\* the others in turn; who enters one enters one that is created before.  None
\* is ever full.
Foretold(bgs, ids, M) ==
    /\ \A n \in 1..Len(M) : M[n].op = "create" => M[n].inst \in (bgs + 1)..ids
    /\ \A i \in (bgs + 1)..ids : \E n \in 1..Len(M) : M[n].op = "create" /\ M[n].inst = i
InTurn(M) == \A m, n \in 1..Len(M) :
    m < n /\ M[m].op = "create" /\ M[n].op = "create" => M[m].inst < M[n].inst
Known(bgs, M) == \A n \in 1..Len(M) : M[n].op = "enter" =>
    \/ M[n].inst <= bgs
    \/ \E m \in 1..Len(M) : m < n /\ M[m].op = "create" /\ M[m].inst = M[n].inst
NoneFull(M) == \A n \in 1..Len(M) : M[n].op # "full"
Announced(bgs, ids, M) ==
    /\ M \in Seq(WorldMessages) /\ bgs \in Nat /\ ids \in Nat /\ bgs <= ids
    /\ Foretold(bgs, ids, M) /\ InTurn(M) /\ Known(bgs, M) /\ NoneFull(M)

\* Who is in a battleground, or has its number, or whose message to enter it is in M.
Enter(m, i, p) == m.op = "enter" /\ m.inst = i /\ m.who = p
Present(w, M) == {x \in Inst \X Player :
    \/ x[1] <= Len(w.bg) /\ x[2] \in w.bg[x[1]].players
    \/ w.player[x[2]].bgId = x[1]
    \/ \E n \in 1..Len(M) : Enter(M[n], x[1], x[2])}

LEMMA Concatenated ==
    ASSUME NEW S, NEW R, NEW M \in Seq(S), NEW s \in Seq(R)
    PROVE  /\ Len(M \o s) = Len(M) + Len(s) /\ Len(M) \in Nat /\ Len(s) \in Nat
           /\ \A n \in 1..Len(M) : n \in 1..Len(M \o s) /\ (M \o s)[n] = M[n]
           /\ \A n \in 1..Len(s) : Len(M) + n \in 1..Len(M \o s) /\ (M \o s)[Len(M) + n] = s[n]
           /\ \A n \in 1..Len(M \o s) :
                  \/ n \in 1..Len(M) /\ (M \o s)[n] = M[n] /\ M[n] \in S
                  \/ /\ n - Len(M) \in 1..Len(s) /\ (M \o s)[n] = s[n - Len(M)] /\ Len(M) < n
                     /\ s[n - Len(M)] \in R
           /\ R \subseteq S => M \o s \in Seq(S)
OBVIOUS

LEMMA AnnouncedPlain ==
    ASSUME NEW bgs, NEW ids, NEW M, Announced(bgs, ids, M), NEW s \in Seq(Plain)
    PROVE  Announced(bgs, ids, M \o s)
<1> DEFINE L == M \o s
<1>1. M \in Seq(WorldMessages) /\ bgs \in Nat /\ ids \in Nat /\ bgs <= ids
  BY DEF Announced
<1>2. Plain \subseteq WorldMessages BY DEF Plain
<1>3. /\ L \in Seq(WorldMessages)
      /\ \A n \in 1..Len(M) : n \in 1..Len(L) /\ L[n] = M[n]
      /\ \A n \in 1..Len(L) : n \in 1..Len(M) \/ L[n] \in Plain
  BY <1>1, <1>2, Concatenated
<1> HIDE DEF L
<1>4. \A n \in 1..Len(L) : L[n].op \in {"create", "enter", "full"} =>
          n \in 1..Len(M) /\ L[n] = M[n]
  BY <1>3 DEF Plain
<1>5. Foretold(bgs, ids, L) BY <1>3, <1>4 DEF Announced, Foretold
<1>6. InTurn(L) /\ NoneFull(L) BY <1>4 DEF Announced, InTurn, NoneFull
<1>7. Known(bgs, L) BY <1>3, <1>4 DEF Announced, Known
<1> QED BY <1>1, <1>3, <1>5, <1>6, <1>7 DEF Announced, L

LEMMA AnnouncedEnter ==
    ASSUME NEW bgs, NEW ids, NEW M, Announced(bgs, ids, M), NEW m \in WorldMessages,
           m.op = "enter", m.inst <= ids
    PROVE  Announced(bgs, ids, Append(M, m))
<1> DEFINE L == Append(M, m)
<1>1. M \in Seq(WorldMessages) /\ bgs \in Nat /\ ids \in Nat /\ bgs <= ids /\ m.inst \in Inst
  BY WorldSays DEF Announced
<1>2. /\ L \in Seq(WorldMessages) /\ Len(L) = Len(M) + 1 /\ Len(M) \in Nat
      /\ \A n \in 1..Len(M) : L[n] = M[n]
      /\ L[Len(M) + 1] = m
  BY <1>1, Appended
<1> HIDE DEF L
<1>3. /\ \A n \in 1..Len(M) : n \in 1..Len(L) /\ L[n] = M[n] /\ n < Len(M) + 1
      /\ \A n \in 1..Len(L) : n \in 1..Len(M) \/ (n = Len(M) + 1 /\ L[n] = m)
  BY <1>2
<1>5. Foretold(bgs, ids, L) BY <1>3 DEF Announced, Foretold
<1>6. InTurn(L) /\ NoneFull(L) BY <1>3 DEF Announced, InTurn, NoneFull
<1>7. Known(bgs, L)
  <2>1. ASSUME NEW n \in 1..Len(L), L[n].op = "enter"
        PROVE  \/ L[n].inst <= bgs
               \/ \E k \in 1..Len(L) : k < n /\ L[k].op = "create" /\ L[k].inst = L[n].inst
    <3>1. CASE n \in 1..Len(M) BY <1>3, <2>1, <3>1 DEF Announced, Known
    <3>2. CASE n = Len(M) + 1 /\ L[n] = m
      <4>1. m.inst <= bgs \/ m.inst \in (bgs + 1)..ids BY <1>1 DEF Inst
      <4>2. ASSUME m.inst \in (bgs + 1)..ids
            PROVE  \E k \in 1..Len(L) :
                       k < n /\ L[k].op = "create" /\ L[k].inst = L[n].inst
        <5>1. PICK k \in 1..Len(M) : M[k].op = "create" /\ M[k].inst = m.inst
          BY <4>2 DEF Announced, Foretold
        <5> QED BY <1>3, <3>2, <5>1
      <4> QED BY <3>2, <4>1, <4>2
    <3> QED BY <1>3, <3>1, <3>2
  <2> QED BY <2>1 DEF Known
<1> QED BY <1>1, <1>2, <1>5, <1>6, <1>7 DEF Announced, L

LEMMA AnnouncedCreate ==
    ASSUME NEW bgs, NEW ids, NEW M, Announced(bgs, ids, M), NEW m \in WorldMessages,
           m.op = "create", m.inst = ids + 1
    PROVE  Announced(bgs, ids + 1, Append(M, m))
<1> DEFINE L == Append(M, m)
<1>1. M \in Seq(WorldMessages) /\ bgs \in Nat /\ ids \in Nat /\ bgs <= ids /\ m.inst \in Inst
  BY WorldSays DEF Announced
<1>2. /\ L \in Seq(WorldMessages) /\ Len(L) = Len(M) + 1 /\ Len(M) \in Nat
      /\ \A n \in 1..Len(M) : L[n] = M[n]
      /\ L[Len(M) + 1] = m
  BY <1>1, Appended
<1> HIDE DEF L
<1>3. /\ \A n \in 1..Len(M) : n \in 1..Len(L) /\ L[n] = M[n] /\ n < Len(M) + 1
      /\ \A n \in 1..Len(L) : n \in 1..Len(M) \/ (n = Len(M) + 1 /\ L[n] = m)
      /\ Len(M) + 1 \in 1..Len(L)
  BY <1>2
<1>4. \A n \in 1..Len(M) : M[n].op = "create" =>
          M[n].inst \in (bgs + 1)..ids /\ M[n].inst \in (bgs + 1)..(ids + 1) /\ M[n].inst < ids + 1
  BY <1>1 DEF Announced, Foretold
<1>5. Foretold(bgs, ids + 1, L)
  <2>1. \A i \in (bgs + 1)..(ids + 1) : i = ids + 1 \/ i \in (bgs + 1)..ids BY <1>1
  <2>2. ids + 1 \in (bgs + 1)..(ids + 1) BY <1>1
  <2>3. ASSUME NEW i \in (bgs + 1)..(ids + 1)
        PROVE  \E n \in 1..Len(L) : L[n].op = "create" /\ L[n].inst = i
    BY <1>2, <1>3, <2>1 DEF Announced, Foretold
  <2>4. ASSUME NEW n \in 1..Len(L), L[n].op = "create"
        PROVE  L[n].inst \in (bgs + 1)..(ids + 1)
    BY <1>3, <1>4, <2>2, <2>4
  <2> QED BY <2>3, <2>4 DEF Foretold
<1>6. InTurn(L)
  <2>1. ASSUME NEW k \in 1..Len(L), NEW n \in 1..Len(L), k < n, L[k].op = "create",
               L[n].op = "create"
        PROVE  L[k].inst < L[n].inst
    <3>1. k \in 1..Len(M) BY <1>2, <2>1
    <3>2. CASE n \in 1..Len(M) BY <1>3, <2>1, <3>1, <3>2 DEF Announced, InTurn
    <3>3. CASE n = Len(M) + 1 /\ L[n] = m BY <1>3, <1>4, <2>1, <3>1, <3>3
    <3> QED BY <1>3, <3>2, <3>3
  <2> QED BY <2>1 DEF InTurn
<1>7. Known(bgs, L) /\ NoneFull(L) BY <1>3 DEF Announced, Known, NoneFull
<1> QED BY <1>1, <1>2, <1>5, <1>6, <1>7 DEF Announced, L

\* The world takes the first message.
LEMMA AnnouncedTail ==
    ASSUME NEW bgs, NEW ids, NEW M, Announced(bgs, ids, M), M # <<>>
    PROVE  /\ Head(M) \in WorldMessages /\ Head(M).op # "full"
           /\ Head(M).op = "enter" => Head(M).inst \in 1..bgs
           /\ Head(M).op # "create" => Announced(bgs, ids, Tail(M))
           /\ Head(M).op = "create" => /\ Head(M).inst = bgs + 1
                                       /\ Announced(bgs + 1, ids, Tail(M))
<1> DEFINE L == Tail(M)
           m == Head(M)
<1>1. M \in Seq(WorldMessages) /\ bgs \in Nat /\ ids \in Nat /\ bgs <= ids
  BY DEF Announced
<1>2. /\ m \in WorldMessages /\ L \in Seq(WorldMessages) /\ Len(L) = Len(M) - 1
      /\ Len(M) \in Nat /\ Len(M) >= 1 /\ m = M[1]
      /\ \A n \in 1..Len(L) : L[n] = M[n + 1] /\ n + 1 \in 1..Len(M)
  BY <1>1, Taken
<1> HIDE DEF L, m
<1>3. /\ 1 \in 1..Len(M) /\ M[1] = m
      /\ \A n \in 1..Len(M) : n = 1 \/ (1 < n /\ n - 1 \in 1..Len(L) /\ L[n - 1] = M[n])
      /\ \A k, n \in 1..Len(M) : k < n => k = 1 \/ k - 1 < n - 1
      /\ \A k, n \in 1..Len(L) : k < n => k + 1 < n + 1
      /\ \A k \in 1..Len(M) : ~(k < 1)
  BY <1>2
<1>4. \A n \in 1..Len(M) : M[n].op \in {"create", "enter"} => M[n].inst \in Inst
  BY <1>1, WorldSays, ElementOfSeq
<1>5. m.op # "full" /\ NoneFull(L) BY <1>2, <1>3 DEF Announced, NoneFull
<1>6. InTurn(L)
  <2>1. ASSUME NEW k \in 1..Len(L), NEW n \in 1..Len(L), k < n, L[k].op = "create",
               L[n].op = "create"
        PROVE  L[k].inst < L[n].inst
    <3>1. L[k] = M[k + 1] /\ L[n] = M[n + 1] BY <1>2
    <3>2. k + 1 \in 1..Len(M) /\ n + 1 \in 1..Len(M) /\ k + 1 < n + 1 BY <1>2, <1>3, <2>1
    <3>3. InTurn(M) BY DEF Announced
    <3> QED BY <2>1, <3>1, <3>2, <3>3 DEF InTurn
  <2> QED BY <2>1 DEF InTurn
<1>7. m.op = "enter" => m.inst \in 1..bgs BY <1>3, <1>4, <1>1 DEF Announced, Known, Inst
<1>8. ASSUME m.op # "create"
      PROVE  Announced(bgs, ids, L)
  <2>1. Foretold(bgs, ids, L)
    <3>1. ASSUME NEW n \in 1..Len(L), L[n].op = "create"
          PROVE  L[n].inst \in (bgs + 1)..ids
      <4>1. L[n] = M[n + 1] /\ n + 1 \in 1..Len(M) BY <1>2, Zenon
      <4>2. Foretold(bgs, ids, M) BY Zenon DEF Announced
      <4> QED BY ONLY <3>1, <4>1, <4>2, Zenon DEF Foretold
    <3>2. ASSUME NEW i \in (bgs + 1)..ids
          PROVE  \E n \in 1..Len(L) : L[n].op = "create" /\ L[n].inst = i
      BY <1>3, <1>8 DEF Announced, Foretold
    <3> QED BY <3>1, <3>2 DEF Foretold
  <2>2. Known(bgs, L)
    <3>1. ASSUME NEW n \in 1..Len(L), L[n].op = "enter"
          PROVE  \/ L[n].inst <= bgs
                 \/ \E k \in 1..Len(L) : k < n /\ L[k].op = "create" /\ L[k].inst = L[n].inst
      <4>1. /\ M[n + 1] = L[n] /\ n + 1 \in 1..Len(M) /\ n \in Int BY <1>2
      <4>2. CASE L[n].inst <= bgs BY <4>2
      <4>3. ASSUME NEW k \in 1..Len(M), k < n + 1, M[k].op = "create", M[k].inst = L[n].inst
            PROVE  \E j \in 1..Len(L) : j < n /\ L[j].op = "create" /\ L[j].inst = L[n].inst
        <5>1. k # 1 /\ k \in Int BY <1>3, <1>8, <4>3
        <5>2. k - 1 \in 1..Len(L) /\ L[k - 1] = M[k] /\ k - 1 < n
          BY <1>3, <4>1, <4>3, <5>1
        <5> QED BY <4>3, <5>2
      <4> QED BY <3>1, <4>1, <4>2, <4>3 DEF Announced, Known
    <3> QED BY <3>1 DEF Known
  <2> QED BY <1>1, <1>2, <1>5, <1>6, <2>1, <2>2 DEF Announced
<1>9. ASSUME m.op = "create"
      PROVE  m.inst = bgs + 1 /\ Announced(bgs + 1, ids, L)
  <2>1. m.inst \in (bgs + 1)..ids BY <1>3, <1>9 DEF Announced, Foretold
  <2>2. \A n \in 1..Len(L) : L[n].op = "create" => m.inst < L[n].inst
    BY <1>2, <1>3, <1>9 DEF Announced, InTurn
  <2>3. m.inst = bgs + 1
    <3>1. bgs + 1 \in (bgs + 1)..ids /\ m.inst \in Int BY <1>1, <2>1
    <3>2. PICK n \in 1..Len(M) : M[n].op = "create" /\ M[n].inst = bgs + 1
      BY <3>1 DEF Announced, Foretold
    <3>3. ASSUME n # 1
          PROVE  m.inst < bgs + 1
      <4>1. PICK k \in 1..Len(L) : L[k] = M[n] BY <1>3, <3>3
      <4> QED BY <2>2, <3>2, <4>1
    <3> QED BY <1>1, <1>3, <2>1, <3>1, <3>2, <3>3
  <2>4. Foretold(bgs + 1, ids, L)
    <3>1. ASSUME NEW n \in 1..Len(L), L[n].op = "create"
          PROVE  L[n].inst \in (bgs + 1 + 1)..ids
      <4>1. L[n] = M[n + 1] /\ n + 1 \in 1..Len(M) BY <1>2, Zenon
      <4>2. Foretold(bgs, ids, M) BY Zenon DEF Announced
      <4>3. L[n].inst \in (bgs + 1)..ids BY ONLY <3>1, <4>1, <4>2, Zenon DEF Foretold
      <4>4. m.inst < L[n].inst BY <2>2, <3>1, Zenon
      <4> QED BY <1>1, <2>3, <4>3, <4>4
    <3>2. ASSUME NEW i \in (bgs + 1 + 1)..ids
          PROVE  \E n \in 1..Len(L) : L[n].op = "create" /\ L[n].inst = i
      <4>1. i \in (bgs + 1)..ids /\ i # bgs + 1 BY <1>1
      <4>2. PICK n \in 1..Len(M) : M[n].op = "create" /\ M[n].inst = i
        BY <4>1 DEF Announced, Foretold
      <4> QED BY <1>3, <2>3, <4>1, <4>2
    <3> QED BY <3>1, <3>2 DEF Foretold
  <2>5. Known(bgs + 1, L)
    <3>1. ASSUME NEW n \in 1..Len(L), L[n].op = "enter"
          PROVE  \/ L[n].inst <= bgs + 1
                 \/ \E k \in 1..Len(L) : k < n /\ L[k].op = "create" /\ L[k].inst = L[n].inst
      <4>1. /\ M[n + 1] = L[n] /\ n + 1 \in 1..Len(M) /\ n \in Int /\ L[n].inst \in Int
        BY <1>2, <1>4, <3>1 DEF Inst
      <4>2. CASE L[n].inst <= bgs BY <1>1, <4>1, <4>2
      <4>3. ASSUME NEW k \in 1..Len(M), k < n + 1, M[k].op = "create", M[k].inst = L[n].inst
            PROVE  \/ L[n].inst <= bgs + 1
                   \/ \E j \in 1..Len(L) : j < n /\ L[j].op = "create" /\ L[j].inst = L[n].inst
        <5>1. CASE k = 1 BY <1>1, <1>3, <2>3, <4>3, <5>1
        <5>2. CASE k # 1
          <6>1. k \in Int OBVIOUS
          <6>2. k - 1 \in 1..Len(L) /\ L[k - 1] = M[k] /\ k - 1 < n
            BY <1>3, <4>1, <4>3, <5>2, <6>1
          <6> QED BY <4>3, <6>2
        <5> QED BY <5>1, <5>2
      <4> QED BY <3>1, <4>1, <4>2, <4>3 DEF Announced, Known
    <3> QED BY <3>1 DEF Known
  <2>6. bgs + 1 <= ids /\ bgs + 1 \in Nat BY <1>1, <2>1
  <2> QED BY <1>1, <1>2, <1>5, <1>6, <2>3, <2>4, <2>5, <2>6 DEF Announced
<1> QED BY <1>2, <1>5, <1>7, <1>8, <1>9 DEF L, m

-----------------------------------------------------------------------------
(* The messages to the queue, and the entries it has.                      *)

Lists(w, i) == i <= Len(w.bg) /\ w.bg[i].listed
Over(w, i) == i <= Len(w.bg) /\ w.bg[i].status = "waitLeave"
\* Not listed so far, and not over.
FreshOnes(w) == {i \in Inst : ~Lists(w, i) /\ ~Over(w, i)}

IsAdd(m, i) == m.op = "add" /\ m.slot.inst = i
IsDrop(m, i) == m.op = "drop" /\ m.inst = i
NoAdd(N, i) == \A n \in 1..Len(N) : ~IsAdd(N[n], i)
NoDrop(N, i) == \A n \in 1..Len(N) : ~IsDrop(N[n], i)
OneAdd(N, i) == \E n \in 1..Len(N) :
    IsAdd(N[n], i) /\ \A k \in 1..Len(N) : IsAdd(N[k], i) => k = n
LastDrop(N, i) == \E n \in 1..Len(N) :
    /\ IsDrop(N[n], i)
    /\ \A k \in 1..Len(N) : (IsDrop(N[k], i) => k = n) /\ (IsAdd(N[k], i) => k < n)

\* An instance has one entry until the world lists it, then two, of which one may
\* be on its way; and one again when it is over, which may be on its way as well.
Leaving(w, N, i) ==
    \/ Lists(w, i) /\ NoDrop(N, i)
    \/ ~Lists(w, i) /\ Over(w, i) /\ LastDrop(N, i)
Phase(q, w, N, i) ==
    \/ Single(q, i) /\ NoAdd(N, i) /\ NoDrop(N, i) /\ ~Lists(w, i)
    \/ Single(q, i) /\ OneAdd(N, i) /\ Leaving(w, N, i)
    \/ Double(q, i) /\ NoAdd(N, i) /\ Leaving(w, N, i)

\* What is on its way to the queue is about battlegrounds that exist; the entry of
\* one that is still fresh is not lowered from there.
QueueNews(w, N) == \A n \in 1..Len(N) :
    /\ N[n].op = "add" => N[n].slot.inst <= Len(w.bg) /\ N[n].slot.inside < 2 * MaxPerTeam
    /\ N[n].op = "drop" => N[n].inst <= Len(w.bg)
    /\ N[n].op = "lower" => N[n].inst <= Len(w.bg) /\ N[n].inst \notin FreshOnes(w)

LEMMA Passing ==
    ASSUME NEW N \in Seq(QueueMessages), N # <<>>, NEW i
    PROVE  LET m == Head(N)
               L == Tail(N)
           IN  /\ NoAdd(N, i) => NoAdd(L, i) /\ ~IsAdd(m, i)
               /\ NoDrop(N, i) => NoDrop(L, i) /\ ~IsDrop(m, i)
               /\ OneAdd(N, i) => IF IsAdd(m, i) THEN NoAdd(L, i) ELSE OneAdd(L, i)
               /\ LastDrop(N, i) => IF IsDrop(m, i) THEN NoDrop(L, i) /\ NoAdd(N, i)
                                    ELSE LastDrop(L, i)
<1> DEFINE m == Head(N)
           L == Tail(N)
<1>1. /\ m \in QueueMessages /\ L \in Seq(QueueMessages) /\ Len(L) = Len(N) - 1
      /\ Len(N) \in Nat /\ Len(N) >= 1 /\ m = N[1]
      /\ \A n \in 1..Len(L) : L[n] = N[n + 1] /\ n + 1 \in 1..Len(N)
  BY Taken
<1> HIDE DEF L, m
<1>2. /\ 1 \in 1..Len(N) /\ N[1] = m
      /\ \A n \in 1..Len(N) : n = 1 \/ (n - 1 \in 1..Len(L) /\ L[n - 1] = N[n])
      /\ \A n \in 1..Len(L) : n + 1 # 1 /\ (n + 1) - 1 = n /\ n \in Int
      /\ \A n, k \in 1..Len(N) : k < n => k - 1 < n - 1
      /\ \A n \in 1..Len(N) : ~(n < 1) /\ n \in Int
  BY <1>1
<1>3. NoAdd(N, i) => NoAdd(L, i) /\ ~IsAdd(m, i) BY <1>1, <1>2 DEF NoAdd
<1>4. NoDrop(N, i) => NoDrop(L, i) /\ ~IsDrop(m, i) BY <1>1, <1>2 DEF NoDrop
<1>5. ASSUME NEW n \in 1..Len(N), IsAdd(N[n], i),
             \A k \in 1..Len(N) : IsAdd(N[k], i) => k = n
      PROVE  IF IsAdd(m, i) THEN NoAdd(L, i) ELSE OneAdd(L, i)
  <2>1. CASE IsAdd(m, i) BY <1>2, <1>5, <2>1, <1>1 DEF NoAdd
  <2>2. CASE ~IsAdd(m, i)
    <3>1. n # 1 BY <1>2, <1>5, <2>2
    <3>2. n - 1 \in 1..Len(L) /\ L[n - 1] = N[n] BY <1>2, <3>1
    <3>3. \A k \in 1..Len(L) : IsAdd(L[k], i) => k = n - 1 BY <1>1, <1>2, <1>5
    <3>4. OneAdd(L, i) BY <1>5, <3>2, <3>3 DEF OneAdd
    <3> QED BY <2>2, <3>4
  <2> QED BY <2>1, <2>2
<1>6. ASSUME NEW n \in 1..Len(N), IsDrop(N[n], i),
             \A k \in 1..Len(N) : (IsDrop(N[k], i) => k = n) /\ (IsAdd(N[k], i) => k < n)
      PROVE  IF IsDrop(m, i) THEN NoDrop(L, i) /\ NoAdd(N, i) ELSE LastDrop(L, i)
  <2>1. CASE IsDrop(m, i) BY <1>2, <1>6, <2>1, <1>1 DEF NoDrop, NoAdd
  <2>2. CASE ~IsDrop(m, i)
    <3>1. n # 1 BY <1>2, <1>6, <2>2
    <3>2. n - 1 \in 1..Len(L) /\ L[n - 1] = N[n] BY <1>2, <3>1
    <3>3. \A k \in 1..Len(L) : (IsDrop(L[k], i) => k = n - 1) /\ (IsAdd(L[k], i) => k < n - 1)
      BY <1>1, <1>2, <1>6
    <3>4. LastDrop(L, i) BY <1>6, <3>2, <3>3 DEF LastDrop
    <3> QED BY <2>2, <3>4
  <2> QED BY <2>1, <2>2
<1>7. OneAdd(N, i) => IF IsAdd(m, i) THEN NoAdd(L, i) ELSE OneAdd(L, i)
  BY <1>5 DEF OneAdd
<1>8. LastDrop(N, i) => IF IsDrop(m, i) THEN NoDrop(L, i) /\ NoAdd(N, i) ELSE LastDrop(L, i)
  BY <1>6 DEF LastDrop
<1> QED BY <1>3, <1>4, <1>7, <1>8 DEF L, m

LEMMA Adjoined ==
    ASSUME NEW N \in Seq(QueueMessages), NEW m \in QueueMessages, NEW i
    PROVE  LET L == Append(N, m) IN
           /\ ~IsAdd(m, i) => /\ NoAdd(N, i) => NoAdd(L, i)
                              /\ OneAdd(N, i) => OneAdd(L, i)
           /\ ~IsDrop(m, i) /\ NoDrop(N, i) => NoDrop(L, i)
           /\ ~IsAdd(m, i) /\ ~IsDrop(m, i) /\ LastDrop(N, i) => LastDrop(L, i)
           /\ IsAdd(m, i) /\ NoAdd(N, i) => OneAdd(L, i)
           /\ IsDrop(m, i) /\ NoDrop(N, i) => LastDrop(L, i)
BY Appended DEF NoAdd, OneAdd, NoDrop, LastDrop, IsAdd, IsDrop

\* How message m changes the entries.
LEMMA OutcomeEntries ==
    ASSUME NEW q, SoundQueue(q), NEW m \in QueueMessages, NEW r, Outcome(r, q, m)
    PROVE  /\ r \in QueueStates /\ r.ids = q.ids
           /\ \/ m.op = "add" /\ Fronted(r, q, m.slot)
              \/ m.op = "drop" /\ \E k \in 1..Len(q.slots) :
                     q.slots[k].inst = m.inst /\ Shortened(r, q, k)
              \/ /\ SameEntries(r, q) /\ m.op # "add"
                 /\ m.op = "drop" => \A l \in 1..Len(q.slots) : q.slots[l].inst # m.inst
<1>1. ASSUME Alike(r, q)
      PROVE  r \in QueueStates /\ r.ids = q.ids /\ SameEntries(r, q)
  BY <1>1 DEF Alike, SameEntries
<1>2. ASSUME NEW p \in Player, NEW lower \in BOOLEAN, q.of[p] # 0,
             Alike(r, RemovePlayer(q, p, lower))
      PROVE  r \in QueueStates /\ r.ids = q.ids /\ SameEntries(r, q)
  <2>1. PICK c : c = RemovePlayer(q, p, lower) OBVIOUS
  <2>2. Without(c, q, p, q.of[p]) /\ Lowered(c, q, p, lower) BY <1>2, <2>1, Removing
  <2>3. SameEntries(c, q) /\ c.ids = q.ids BY <2>2, LoweredEntries DEF Without
  <2> QED BY <1>2, <2>1, <2>3, AlikeParts DEF Alike
<1>3. ASSUME NEW t, Grown(r, q, m.members, t)
      PROVE  r \in QueueStates /\ r.ids = q.ids /\ SameEntries(r, q)
  BY <1>3 DEF Grown, SameEntries
<1>4. ASSUME Entries(r, q, m)
      PROVE  /\ r \in QueueStates /\ r.ids = q.ids
             /\ \/ m.op = "add" /\ Fronted(r, q, m.slot)
                \/ m.op = "drop" /\ \E k \in 1..Len(q.slots) :
                       q.slots[k].inst = m.inst /\ Shortened(r, q, k)
                \/ m.op \in {"status", "lower"} /\ SameEntries(r, q)
  BY <1>4 DEF Entries
<1>5. m.op \in {"port", "expire", "remove"} => m.who \in Player BY QueueSays
<1> QED BY <1>1, <1>2, <1>3, <1>4, <1>5 DEF Outcome, Leaves, Enters

LEMMA PhaseTaken ==
    ASSUME NEW q, SoundQueue(q), NEW w, NEW N \in Seq(QueueMessages), N # <<>>, NEW r,
           Outcome(r, q, Head(N)), NEW i, Phase(q, w, N, i)
    PROVE  Phase(r, w, Tail(N), i)
<1> DEFINE m == Head(N)
           L == Tail(N)
<1>0. m \in QueueMessages BY Taken
<1>1. /\ NoAdd(N, i) => NoAdd(L, i) /\ ~IsAdd(m, i)
      /\ NoDrop(N, i) => NoDrop(L, i) /\ ~IsDrop(m, i)
      /\ OneAdd(N, i) => IF IsAdd(m, i) THEN NoAdd(L, i) ELSE OneAdd(L, i)
      /\ LastDrop(N, i) => IF IsDrop(m, i) THEN NoDrop(L, i) /\ NoAdd(N, i)
                           ELSE LastDrop(L, i)
  BY Passing
<1>m. Outcome(r, q, m) OBVIOUS
<1>o. ~(OneAdd(N, i) /\ NoAdd(N, i)) BY DEF OneAdd, NoAdd
<1> HIDE DEF m, L
<1>2. /\ \/ m.op = "add" /\ Fronted(r, q, m.slot)
         \/ m.op = "drop" /\ \E k \in 1..Len(q.slots) :
                q.slots[k].inst = m.inst /\ Shortened(r, q, k)
         \/ /\ SameEntries(r, q) /\ m.op # "add"
            /\ m.op = "drop" => \A l \in 1..Len(q.slots) : q.slots[l].inst # m.inst
      /\ r.ids = q.ids
  BY <1>0, <1>m, OutcomeEntries
<1>3. /\ IsAdd(m, i) /\ Single(q, i) => Double(r, i)
      /\ IsDrop(m, i) /\ Double(q, i) => Single(r, i)
      /\ ~(IsAdd(m, i) \/ IsDrop(m, i)) =>
             /\ Single(q, i) => Single(r, i)
             /\ Double(q, i) => Double(r, i)
  <2>1. CASE m.op = "add" /\ Fronted(r, q, m.slot)
    BY <2>1, FrontedEntries DEF IsAdd, IsDrop
  <2>2. ASSUME m.op = "drop", NEW k \in 1..Len(q.slots), q.slots[k].inst = m.inst,
               Shortened(r, q, k)
        PROVE  /\ IsAdd(m, i) /\ Single(q, i) => Double(r, i)
               /\ IsDrop(m, i) /\ Double(q, i) => Single(r, i)
               /\ ~(IsAdd(m, i) \/ IsDrop(m, i)) =>
                      /\ Single(q, i) => Single(r, i)
                      /\ Double(q, i) => Double(r, i)
    BY <2>2, ShortenedEntries DEF IsAdd, IsDrop
  <2>3. CASE /\ SameEntries(r, q) /\ m.op # "add"
             /\ m.op = "drop" => \A l \in 1..Len(q.slots) : q.slots[l].inst # m.inst
    <3>1. (Single(q, i) <=> Single(r, i)) /\ (Double(q, i) <=> Double(r, i))
      BY <1>2, <2>3, SameSingles
    <3>2. ~IsAdd(m, i) BY <2>3 DEF IsAdd
    <3>3. IsDrop(m, i) => ~Double(q, i) BY <2>3 DEF IsDrop, Double
    <3> QED BY <3>1, <3>2, <3>3
  <2> QED BY <1>2, <2>1, <2>2, <2>3
<1>4. ~(IsAdd(m, i) /\ IsDrop(m, i)) BY DEF IsAdd, IsDrop
<1>5. Phase(r, w, L, i) BY <1>1, <1>3, <1>4, <1>o DEF Phase, Leaving
<1> QED BY <1>5 DEF L

-----------------------------------------------------------------------------
(* The queue takes a message.                                              *)

\* Players are in battlegrounds that exist, and in the map of no other.
WorldSound(w) ==
    /\ w \in WorldStates
    /\ \A p \in Player :
           w.player[p].bgId <= Len(w.bg) /\ w.player[p].map \in {0, w.player[p].bgId}

\* What holds of queue q and world w with messages M to the world, N to the queue.
Agreed(q, w, M, N) ==
    /\ Balanced(q, FreshOnes(w), Present(w, M)) /\ WorldSound(w)
    /\ Announced(Len(w.bg), Len(q.ids), M)
    /\ N \in Seq(QueueMessages) /\ QueueNews(w, N)
    /\ \A i \in 1..Len(q.ids) : Phase(q, w, N, i)

LEMMA LessBalanced ==
    ASSUME NEW q, NEW F, NEW H, Balanced(q, F, H), NEW E \in SUBSET F, NEW G \in SUBSET H
    PROVE  Balanced(q, E, G)
<1>1. Len(q.groups) \in Nat /\ q \in QueueStates BY QueueFields DEF Balanced, SoundQueue
<1>2. Singles(q, E) /\ Bounded(q, E) BY DEF Balanced, Singles, Bounded
<1>3. ASSUME NEW k \in 1..Len(q.slots), NEW t \in Team, q.slots[k].inst \in E
      PROVE  Cardinality(Places(q, G, q.slots[k].inst, t)) <= q.slots[k].invited[t]
  <2> DEFINE i == q.slots[k].inst
             S == Places(q, H, i, t)
             T == Places(q, G, i, t)
             n == q.slots[k].invited[t]
  <2>1. T \subseteq S BY DEF Places
  <2>2. IsFiniteSet(S) /\ Cardinality(S) \in Nat BY <1>1, PlacesFinite
  <2>3. Cardinality(T) \in Nat /\ Cardinality(T) <= Cardinality(S) BY <2>1, <2>2, Fewer
  <2>4. Cardinality(S) <= n /\ n \in Int
    BY <1>1, <1>3, QueueFields DEF Balanced, Covered
  <2> HIDE DEF i, S, T, n
  <2>5. Cardinality(T) <= n BY <2>2, <2>3, <2>4
  <2> QED BY <2>5 DEF T, n, i
<1> QED BY <1>2, <1>3 DEF Balanced, Covered

LEMMA PresentPlain ==
    ASSUME NEW w, NEW M \in Seq(WorldMessages), NEW s \in Seq(Plain)
    PROVE  Present(w, M \o s) \subseteq Present(w, M)
<1> DEFINE L == M \o s
<1>1. \A n \in 1..Len(L) : (n \in 1..Len(M) /\ L[n] = M[n]) \/ L[n] \in Plain
  BY Concatenated
<1> HIDE DEF L
<1>2. \A n \in 1..Len(L) : \A i, p : Enter(L[n], i, p) => n \in 1..Len(M) /\ L[n] = M[n]
  BY <1>1 DEF Plain, Enter
<1>3. Present(w, L) \subseteq Present(w, M) BY <1>2 DEF Present
<1> QED BY <1>3 DEF L

LEMMA PresentEnter ==
    ASSUME NEW w, NEW M \in Seq(WorldMessages), NEW m \in WorldMessages
    PROVE  Present(w, Append(M, m)) \subseteq Present(w, M) \cup {<<m.inst, m.who>>}
BY Appended DEF Present, Enter

LEMMA EntriesBalanced ==
    ASSUME NEW q, NEW F \in SUBSET Inst, NEW H, Balanced(q, F, H), NEW m \in QueueMessages,
           NEW r, Entries(r, q, m),
           m.op = "add" => /\ m.slot.inst \notin F /\ m.slot.inst <= Len(q.ids)
                           /\ m.slot.inside < 2 * MaxPerTeam,
           m.op \in {"lower", "drop"} => m.inst \notin F
    PROVE  Balanced(r, F, H)
<1>1. /\ q \in QueueStates /\ r \in QueueStates /\ r.groups = q.groups /\ r.list = q.list
      /\ r.of = q.of /\ r.ids = q.ids
  BY DEF Balanced, SoundQueue, Entries
<1>2. \A i, t : Places(r, H, i, t) = Places(q, H, i, t) BY <1>1 DEF Places
<1>3. Grouped(r) /\ Queued(r) /\ OneTeam(r)
  BY <1>1 DEF Balanced, SoundQueue, Grouped, Queued, OneTeam
<1>4. SUFFICES /\ Numbered(r) /\ Singles(r, F)
               /\ \A k \in 1..Len(r.slots) : r.slots[k].inst \in F =>
                      \E l \in 1..Len(q.slots) :
                          /\ r.slots[k].inst = q.slots[l].inst
                          /\ \A t \in Team : r.slots[k].invited[t] = q.slots[l].invited[t]
  <2>1. ASSUME NEW k \in 1..Len(r.slots), NEW t \in Team, r.slots[k].inst \in F,
               NEW l \in 1..Len(q.slots), r.slots[k].inst = q.slots[l].inst,
               \A u \in Team : r.slots[k].invited[u] = q.slots[l].invited[u]
        PROVE  /\ Cardinality(Places(r, H, r.slots[k].inst, t)) <= r.slots[k].invited[t]
               /\ r.slots[k].invited[t] <= MaxPerTeam
    BY <2>1, <1>2 DEF Balanced, Covered, Bounded
  <2> QED BY <1>1, <1>3, <2>1 DEF Balanced, SoundQueue, Covered, Bounded
<1>5. CASE m.op = "add" /\ Fronted(r, q, m.slot)
  <2>1. \A n \in 1..Len(r.slots) :
            \/ r.slots[n] = m.slot
            \/ \E l \in 1..Len(q.slots) : r.slots[n] = q.slots[l]
    BY <1>5 DEF Fronted
  <2>2. Numbered(r) BY <1>1, <1>5, <2>1 DEF Balanced, SoundQueue, Numbered
  <2>3. Singles(r, F) BY <1>1, <1>5, FrontedEntries DEF Balanced, Singles
  <2> QED BY <1>5, <2>1, <2>2, <2>3
<1>6. CASE /\ m.op \in {"status", "lower"} /\ SameEntries(r, q)
           /\ \A l \in 1..Len(q.slots) : m.op = "status" \/ q.slots[l].inst # m.inst =>
                 \A t \in Team : r.slots[l].invited[t] = q.slots[l].invited[t]
  <2>1. Numbered(r) /\ Singles(r, F) BY <1>1, <1>6, SameSingles DEF Balanced, SoundQueue
  <2>2. ASSUME NEW k \in 1..Len(r.slots), r.slots[k].inst \in F
        PROVE  /\ k \in 1..Len(q.slots) /\ r.slots[k].inst = q.slots[k].inst
               /\ \A t \in Team : r.slots[k].invited[t] = q.slots[k].invited[t]
    BY <1>6, <2>2 DEF SameEntries
  <2> QED BY <2>1, <2>2
<1>7. ASSUME m.op = "drop", NEW k \in 1..Len(q.slots), q.slots[k].inst = m.inst,
             Shortened(r, q, k)
      PROVE  /\ Numbered(r) /\ Singles(r, F)
             /\ \A n \in 1..Len(r.slots) : r.slots[n].inst \in F =>
                    \E l \in 1..Len(q.slots) :
                        /\ r.slots[n].inst = q.slots[l].inst
                        /\ \A t \in Team : r.slots[n].invited[t] = q.slots[l].invited[t]
  <2>1. \A n \in 1..Len(r.slots) : \E l \in 1..Len(q.slots) : r.slots[n] = q.slots[l]
    BY <1>7, Moved
  <2>2. Numbered(r) BY <1>1, <2>1 DEF Balanced, SoundQueue, Numbered
  <2>3. Singles(r, F) BY <1>1, <1>7, ShortenedEntries DEF Balanced, Singles
  <2> QED BY <2>1, <2>2, <2>3
<1> QED BY <1>5, <1>6, <1>7 DEF Entries

\* What is listed, or on its way to be, is not fresh.
LEMMA NotFresh ==
    ASSUME NEW q, NEW w, NEW N \in Seq(QueueMessages), N # <<>>, NEW i, Phase(q, w, N, i),
           IsAdd(Head(N), i) \/ IsDrop(Head(N), i)
    PROVE  i \notin FreshOnes(w)
BY Passing DEF Phase, Leaving, FreshOnes

LEMMA QueueTakes ==
    ASSUME NEW q, NEW w, NEW M, NEW N, Agreed(q, w, M, N), N # <<>>, q.sent = <<>>
    PROVE  LET r == Handled(q, Head(N)) IN
           Agreed(r, w, M \o r.sent, Tail(N)) /\ r.sent \in Seq(WorldMessages)
<1> DEFINE r == Handled(q, Head(N))
           m == Head(N)
           F == FreshOnes(w)
           H == Present(w, M)
           L == Tail(N)
<1>1. /\ N \in Seq(QueueMessages) /\ m \in QueueMessages /\ L \in Seq(QueueMessages)
      /\ Balanced(q, F, H) /\ SoundQueue(q) /\ q \in QueueStates /\ WorldSound(w)
      /\ QueueNews(w, N)
      /\ Announced(Len(w.bg), Len(q.ids), M) /\ M \in Seq(WorldMessages)
  BY Taken DEF Agreed, Balanced, SoundQueue, Announced
<1>2. F \in SUBSET Inst BY DEF FreshOnes
<1>3. Outcome(r, q, m) BY <1>1, Handling
<1>q. \A i \in 1..Len(q.ids) : Phase(q, w, N, i) BY DEF Agreed
<1>4. \A i \in 1..Len(q.ids) : Phase(r, w, L, i) BY <1>1, <1>3, <1>q, PhaseTaken
<1>5. r \in QueueStates /\ r.ids = q.ids /\ r.sent \in Seq(WorldMessages)
  BY <1>1, <1>3, OutcomeEntries, QueueFields
<1>6. QueueNews(w, L)
  <2>1. \A n \in 1..Len(L) : L[n] = N[n + 1] /\ n + 1 \in 1..Len(N) BY <1>1, Taken
  <2> HIDE DEF L
  <2> QED BY <1>1, <2>1 DEF QueueNews
<1>7. /\ m.op = "add" => /\ m.slot.inst \notin F /\ m.slot.inst <= Len(q.ids)
                         /\ m.slot.inside < 2 * MaxPerTeam
      /\ m.op \in {"lower", "drop"} => m.inst \notin F
  <2>1. m = N[1] /\ 1 \in 1..Len(N) BY <1>1, Taken
  <2>2. /\ m.op = "add" => m.slot.inst <= Len(w.bg) /\ m.slot.inside < 2 * MaxPerTeam
        /\ m.op = "drop" => m.inst <= Len(w.bg)
        /\ m.op = "lower" => m.inst \notin F
    BY <1>1, <2>1 DEF QueueNews
  <2>3. Len(w.bg) \in Nat /\ Len(q.ids) \in Nat /\ Len(w.bg) <= Len(q.ids)
    BY <1>1 DEF Announced
  <2>4. /\ m.op = "add" => m.slot.inst \in Inst
        /\ m.op = "drop" => m.inst \in Inst
    BY <1>1, QueueSays DEF Slots
  <2>5. /\ m.op = "add" => m.slot.inst \in 1..Len(q.ids)
        /\ m.op = "drop" => m.inst \in 1..Len(q.ids)
    BY <2>2, <2>3, <2>4 DEF Inst
  <2>6. ASSUME m.op = "add"
        PROVE  m.slot.inst \notin F
    BY <1>q, <2>5, <2>6, <1>1, NotFresh DEF IsAdd
  <2>7. ASSUME m.op = "drop"
        PROVE  m.inst \notin F
    BY <1>q, <2>5, <2>7, <1>1, NotFresh DEF IsDrop
  <2> QED BY <2>2, <2>3, <2>5, <2>6, <2>7
<1> HIDE DEF r, m, F, H, L
<1>8. ASSUME r.sent \in Seq(Plain), Balanced(r, F, H)
      PROVE  /\ Announced(Len(w.bg), Len(r.ids), M \o r.sent)
             /\ Balanced(r, F, Present(w, M \o r.sent))
  BY <1>1, <1>5, <1>8, AnnouncedPlain, PresentPlain, LessBalanced DEF H
<1>c. /\ \A s \in Seq(Counts) : s \in Seq(Plain)
      /\ \A s \in Seq(Counts), x \in Plain : Append(s, x) \in Seq(Plain)
      /\ <<>> \in Seq(Plain) /\ \A x \in Plain : <<x>> \in Seq(Plain)
  BY DEF Counts, Plain
<1>9. CASE Alike(r, q) /\ r.sent = <<>>
  BY <1>1, <1>9, AlikeParts, <1>8, <1>c, <1>4, <1>5, <1>6 DEF Agreed, r, m, F, L
<1>10. CASE /\ m.op = "join" /\ r.sent = <<[op |-> "joined", members |-> m.members]>>
            /\ \E t \in Team : Grown(r, q, m.members, t) /\ \A p \in m.members : TeamOf(p) = t
  <2>1. m.members \in Party /\ m.members \in SUBSET Player
    BY <1>1, <1>10, QueueSays, Teams
  <2>2. Balanced(r, F, H) BY <1>1, <1>2, <1>10, <2>1, GrownBalanced
  <2>3. [op |-> "joined", members |-> m.members] \in Plain
    BY <2>1 DEF Plain, WorldMessages
  <2> QED
    BY <1>8, <1>10, <1>c, <2>2, <2>3, <1>1, <1>4, <1>5, <1>6 DEF Agreed, r, m, F, L
<1>11. ASSUME m.who \in Player, Leaves(r, q, m.who)
       PROVE  Balanced(r, F, H)
  <2>1. PICK c : c = RemovePlayer(q, m.who, TRUE) OBVIOUS
  <2>2. Balanced(c, F, H) BY <1>1, <1>2, <1>11, <2>1, RemovalBalanced DEF Leaves
  <2> QED BY <1>11, <2>1, <2>2, AlikeParts DEF Leaves
<1>12. CASE m.op = "remove" /\ Leaves(r, q, m.who) /\ r.sent \in Seq(Counts)
  BY <1>1, <1>12, QueueSays, <1>8, <1>11, <1>c, <1>4, <1>5, <1>6 DEF Agreed, r, m, F, L
<1>13. ASSUME m.op \in {"port", "expire"}, Leaves(r, q, m.who), NEW s \in Seq(Counts),
              r.sent = Append(s, [op |-> "unqueue", who |-> m.who])
       PROVE  Agreed(r, w, M \o r.sent, L)
  <2>1. m.who \in Player BY <1>1, <1>13, QueueSays
  <2>2. [op |-> "unqueue", who |-> m.who] \in Plain BY <2>1 DEF Plain, WorldMessages
  <2>3. r.sent \in Seq(Plain) BY <1>13, <1>c, <2>2
  <2> QED
    BY <1>8, <1>11, <1>13, <2>1, <2>3, <1>1, <1>4, <1>5, <1>6 DEF Agreed, r, m, F, L
<1>14. ASSUME m.op = "port", NEW i \in Inst, Enters(r, q, m.who, i),
              r.sent = <<[op |-> "enter", who |-> m.who, inst |-> i]>>
       PROVE  Agreed(r, w, M \o r.sent, L)
  <2> DEFINE e == [op |-> "enter", who |-> m.who, inst |-> i]
  <2>1. m.who \in Player BY <1>1, <1>14, QueueSays
  <2>2. e \in WorldMessages /\ e.op = "enter" /\ e.inst = i /\ e.who = m.who
    BY <2>1 DEF WorldMessages
  <2> HIDE DEF e
  <2>3. M \o r.sent = Append(M, e) BY <1>1, <1>14 DEF e
  <2>4. i <= Len(q.ids) BY <1>1, <1>14, <2>1 DEF Enters, SoundQueue, Grouped, OneTeam
  <2>5. Announced(Len(w.bg), Len(r.ids), M \o r.sent)
    BY <1>1, <1>5, <2>2, <2>3, <2>4, AnnouncedEnter
  <2>6. Balanced(r, F, H \cup {<<i, m.who>>})
    <3>1. PICK c : c = RemovePlayer(q, m.who, FALSE) OBVIOUS
    <3>2. Balanced(c, F, H \cup {<<i, m.who>>})
      BY <1>1, <1>2, <1>14, <2>1, <3>1, RemovalBalanced DEF Enters
    <3> QED BY <1>14, <3>1, <3>2, AlikeParts DEF Enters
  <2>7. Present(w, M \o r.sent) \in SUBSET (H \cup {<<i, m.who>>})
    BY <1>1, <2>2, <2>3, PresentEnter DEF H
  <2>8. Balanced(r, F, Present(w, M \o r.sent)) BY <2>6, <2>7, LessBalanced
  <2> QED BY <2>5, <2>8, <1>1, <1>4, <1>5, <1>6 DEF Agreed, F
<1>15. CASE Entries(r, q, m) /\ r.sent \in Seq(Counts)
  <2>1. Balanced(r, F, H) BY <1>1, <1>2, <1>7, <1>15, EntriesBalanced
  <2> QED BY <1>8, <1>15, <1>c, <2>1, <1>1, <1>4, <1>5, <1>6 DEF Agreed, r, m, F, L
<1>16. Agreed(r, w, M \o r.sent, L)
  BY <1>3, <1>9, <1>10, <1>12, <1>13, <1>14, <1>15 DEF Outcome, r, L, m
<1> QED BY <1>5, <1>16 DEF r, L

-----------------------------------------------------------------------------
(* InviteGroupToBg.                                                        *)

\* A set in some order: no longer than it is large, and complete.
LEMMA InOrder ==
    ASSUME NEW S, IsFiniteSet(S)
    PROVE  /\ SetToSeq(S) \in Seq(S) /\ Len(SetToSeq(S)) = Cardinality(S)
           /\ Cardinality(S) \in Nat
           /\ \A x \in S : \E n \in 1..Cardinality(S) : SetToSeq(S)[n] = x
<1> DEFINE k == Cardinality(S)
           f == SetToSeq(S)
           R == {f[n] : n \in 1..k}
<1>1. k \in Nat /\ \E b : b \in Bijection(1..k, S)
  BY FS_CardinalityType DEF ExistsBijection
<1>2. \E b \in [1..k -> S] : IsInjective(b) BY <1>1 DEF Bijection, Injection
<1>3. f \in [1..k -> S] /\ IsInjective(f) BY <1>2 DEF SetToSeq
<1> HIDE DEF k, f
<1>4. f \in Seq(S) /\ Len(f) = k BY <1>1, <1>3
<1>5. R = S
  <2>1. R \subseteq S BY <1>3
  <2>2. f \in Bijection(1..k, R) BY <1>3 DEF Bijection, Injection, Surjection
  <2>3. Cardinality(R) = k BY <1>1, <2>2, FS_CountingElements DEF ExistsBijection
  <2> HIDE DEF R
  <2> QED BY <2>1, <2>3, FS_Subset DEF k
<1> QED BY <1>1, <1>4, <1>5 DEF k, f

LEMMA MoreYet ==
    ASSUME NEW q \in QueueStates, NEW k, NEW t, NEW d \in Nat, NEW r, More(r, q, k, t, d),
           NEW x, More(x, r, k, t, 1)
    PROVE  More(x, q, k, t, d + 1)
<1>1. \A l \in 1..Len(q.slots), u \in Team : q.slots[l].invited[u] \in Int
  BY QueueFields
<1>2. ASSUME NEW l \in 1..Len(q.slots), NEW u \in Team
      PROVE  x.slots[l].invited[u] = IF l = k /\ u = t THEN q.slots[l].invited[u] + (d + 1)
                                     ELSE q.slots[l].invited[u]
  <2>1. CASE l = k /\ u = t
    <3>1. /\ r.slots[l].invited[u] = q.slots[l].invited[u] + d
          /\ x.slots[l].invited[u] = r.slots[l].invited[u] + 1
      BY <2>1 DEF More
    <3> QED BY <1>1, <2>1, <3>1
  <2>2. CASE ~(l = k /\ u = t) BY <2>2 DEF More
  <2> QED BY <2>1, <2>2
<1> QED BY <1>2 DEF More

\* Who hears in s that group g is invited to i: all of S, and nobody else.
Calls(s, S, i, g) ==
    /\ \A n \in 1..Len(s) : s[n].op \in {"count", "invite"}
    /\ \A n \in 1..Len(s) : s[n].op = "invite" =>
           s[n].who \in S /\ s[n].inst = i /\ s[n].stamp = g
    /\ \A p \in S : \E n \in 1..Len(s) : s[n].op = "invite" /\ s[n].who = p

LEMMA CallsMore ==
    ASSUME NEW s \in Seq(Plain), NEW S, NEW i, NEW g, Calls(s, S, i, g), NEW p,
           NEW m \in Plain, m.op = "invite", m.who = p, m.inst = i, m.stamp = g,
           NEW c \in Plain, c.op = "count"
    PROVE  /\ Append(Append(s, m), c) \in Seq(Plain)
           /\ Calls(Append(Append(s, m), c), S \cup {p}, i, g)
BY Appended DEF Calls

\* x is a, and then s.
Follows(x, a, s) == x = a \o s

LEMMA FollowsNone ==
    ASSUME NEW S, NEW a \in Seq(S), NEW R
    PROVE  Follows(a, a, <<>>) /\ <<>> \in Seq(R)
BY DEF Follows

LEMMA FollowsMore ==
    ASSUME NEW S, NEW a \in Seq(S), NEW s \in Seq(S), NEW x, Follows(x, a, s), NEW m \in S
    PROVE  Follows(Append(x, m), a, Append(s, m)) /\ Append(s, m) \in Seq(S) /\ x \in Seq(S)
<1>1. Append(a \o s, m) = a \o Append(s, m) OBVIOUS
<1>2. x = a \o s BY DEF Follows
<1> QED BY <1>1, <1>2 DEF Follows

\* r is q with group g invited to the battleground of the k-th entry, and d of its
\* players, those in S, told and counted.
Inviting(r, q, g, k, S, d) ==
    /\ r \in QueueStates /\ r.list = q.list /\ r.of = q.of /\ r.ids = q.ids
    /\ r.scheduled = q.scheduled
    /\ r.groups = [q.groups EXCEPT ![g] = [@ EXCEPT !.invited = q.slots[k].inst]]
    /\ More(r, q, k, q.groups[g].team, d)
    /\ \E s \in Seq(Plain) : Follows(r.sent, q.sent, s) /\ Calls(s, S, q.slots[k].inst, g)

LEMMA InvitingFirst ==
    ASSUME NEW q \in QueueStates, NEW g \in 1..Len(q.groups), NEW k \in 1..Len(q.slots)
    PROVE  Inviting(GroupInvited(q, g, k), q, g, k, {}, 0)
<1> DEFINE e == [q.groups[g] EXCEPT !.invited = q.slots[k].inst]
           groups == [q.groups EXCEPT ![g] = e]
           r == [q EXCEPT !.groups = groups]
<1>0. r = GroupInvited(q, g, k) BY DEF GroupInvited
<1>1. /\ q.groups \in Seq(Groups) /\ q.groups[g] \in Groups /\ q.slots[k].inst \in Inst
      /\ \A l \in 1..Len(q.slots), u \in Team : q.slots[l].invited[u] \in Int
  BY QueueFields
<1>2. e \in Groups BY <1>1 DEF Groups
<1> HIDE DEF e
<1>3. groups \in Seq(Groups) BY <1>1, <1>2, ExceptSeq
<1>g. groups = [q.groups EXCEPT ![g] = [@ EXCEPT !.invited = q.slots[k].inst]] BY DEF e
<1> HIDE DEF groups
<1>4. /\ r \in QueueStates /\ r.list = q.list /\ r.of = q.of /\ r.ids = q.ids
      /\ r.scheduled = q.scheduled /\ r.groups = groups /\ r.slots = q.slots
      /\ r.sent = q.sent
  BY <1>3 DEF QueueStates
<1> HIDE DEF r
<1>5. More(r, q, k, q.groups[g].team, 0) BY <1>1, <1>4 DEF More
<1>6. \E s \in Seq(Plain) : Follows(r.sent, q.sent, s) /\ Calls(s, {}, q.slots[k].inst, g)
  <2>0. q.sent \in Seq(WorldMessages) BY QueueFields
  <2>1. Follows(q.sent, q.sent, <<>>) /\ <<>> \in Seq(Plain) BY <2>0, FollowsNone
  <2>2. Calls(<<>>, {}, q.slots[k].inst, g) BY DEF Calls
  <2> QED BY <1>4, <2>1, <2>2
<1>7. Inviting(r, q, g, k, {}, 0) BY <1>g, <1>4, <1>5, <1>6 DEF Inviting
<1> QED BY <1>0, <1>7

LEMMA InvitingNext ==
    ASSUME NEW q \in QueueStates, NEW g \in 1..Len(q.groups), NEW k \in 1..Len(q.slots),
           NEW S \in SUBSET Player, NEW d \in Nat, NEW r, Inviting(r, q, g, k, S, d),
           NEW p \in Player
    PROVE  Inviting(InvitedOne(q, g, k, r, p), q, g, k, S \cup {p}, d + 1)
<1> DEFINE i == q.slots[k].inst
           t == q.groups[g].team
           m == [op |-> "invite", who |-> p, inst |-> i, stamp |-> g]
           a == Tell(r, m)
           x == ChangeInvited(a, k, t, 1)
<1>1. /\ i \in Inst /\ t \in Team /\ g \in Gid /\ r \in QueueStates
  BY QueueFields DEF Inviting, Gid
<1>2. m \in WorldMessages /\ m \in Plain /\ m.op = "invite" /\ m.who = p /\ m.inst = i
      /\ m.stamp = g
  BY <1>1 DEF WorldMessages, Plain
<1> HIDE DEF m
<1>3. /\ a \in QueueStates /\ a.groups = r.groups /\ a.list = r.list /\ a.of = r.of
      /\ a.slots = r.slots /\ a.ids = r.ids /\ a.scheduled = r.scheduled
      /\ a.sent = Append(r.sent, m)
  BY <1>1, <1>2, Telling
<1>4. k \in 1..Len(a.slots) BY <1>3 DEF Inviting, More
<1> HIDE DEF a
<1>5. /\ x \in QueueStates /\ x.groups = a.groups /\ x.list = a.list /\ x.of = a.of
      /\ x.ids = a.ids /\ x.scheduled = a.scheduled
      /\ \E c \in Plain : c.op = "count" /\ x.sent = Append(a.sent, c)
      /\ More(x, a, k, t, 1)
  <2> DEFINE c == [op |-> "count", inst |-> a.slots[k].inst, team |-> t,
                   n |-> a.slots[k].invited[t] + 1]
  <2>0. 1 \in Int OBVIOUS
  <2>y. PICK y : y = ChangeInvited(a, k, t, 1) OBVIOUS
  <2>1. /\ y \in QueueStates /\ y.groups = a.groups /\ y.list = a.list /\ y.of = a.of
        /\ y.ids = a.ids /\ y.scheduled = a.scheduled /\ y.sent = Append(a.sent, c)
        /\ c \in WorldMessages /\ More(y, a, k, t, 1)
    BY <1>1, <1>3, <1>4, <2>0, <2>y, Changing
  <2>2. c \in Plain /\ c.op = "count" BY <2>1 DEF Plain
  <2> HIDE DEF c
  <2> QED BY <2>y, <2>1, <2>2
<1>6. x = InvitedOne(q, g, k, r, p) BY DEF InvitedOne, m, a
<1> HIDE DEF x
<1>7. More(x, q, k, t, d + 1)
  <2>1. More(x, r, k, t, 1) BY <1>3, <1>5 DEF More
  <2> QED BY <2>1, MoreYet DEF Inviting
<1>8. \E s \in Seq(Plain) : Follows(x.sent, q.sent, s) /\ Calls(s, S \cup {p}, i, g)
  <2>1. PICK c \in Plain : c.op = "count" /\ x.sent = Append(a.sent, c) BY <1>5
  <2>2. PICK s \in Seq(Plain) : Follows(r.sent, q.sent, s) /\ Calls(s, S, i, g)
    BY DEF Inviting
  <2>3. PICK b : b = Append(Append(s, m), c) OBVIOUS
  <2>4. b \in Seq(Plain) /\ Calls(b, S \cup {p}, i, g)
    BY <1>2, <2>1, <2>2, <2>3, CallsMore
  <2>5. Follows(x.sent, q.sent, b)
    <3>1. q.sent \in Seq(WorldMessages) /\ m \in WorldMessages BY <1>2, QueueFields
    <3>2. c \in WorldMessages /\ s \in Seq(WorldMessages) BY DEF Plain
    <3>3. /\ Follows(Append(r.sent, m), q.sent, Append(s, m))
          /\ Append(s, m) \in Seq(WorldMessages)
      BY <2>2, <3>1, <3>2, FollowsMore
    <3>4. Follows(Append(Append(r.sent, m), c), q.sent, Append(Append(s, m), c))
      <4>1. PICK y, z : y = Append(r.sent, m) /\ z = Append(s, m) OBVIOUS
      <4>2. Follows(y, q.sent, z) /\ z \in Seq(WorldMessages) BY <3>3, <4>1
      <4>3. Follows(Append(y, c), q.sent, Append(z, c))
        BY ONLY <3>1, <3>2, <4>2, FollowsMore
      <4> QED BY <4>1, <4>3, Zenon
    <3> QED BY <1>3, <2>1, <2>3, <3>4
  <2> QED BY <2>4, <2>5
<1> QED BY <1>3, <1>5, <1>6, <1>7, <1>8 DEF Inviting

\* The whole group.
LEMMA InvitingGroup ==
    ASSUME NEW q \in QueueStates, NEW g \in 1..Len(q.groups), NEW k \in 1..Len(q.slots)
    PROVE  /\ Inviting(InviteGroupToBg(q, g, k), q, g, k, q.groups[g].players,
                       Cardinality(q.groups[g].players))
           /\ Cardinality(q.groups[g].players) \in Nat
<1> DEFINE S == q.groups[g].players
           s == SetToSeq(S)
           Q == {x \in QueueStates : Len(x.slots) = Len(q.slots)}
           base == GroupInvited(q, g, k)
<1>1. S \in SUBSET Player /\ IsFiniteSet(S) BY QueueFields, PlayersFinite, FS_Subset
<1>2. /\ s \in Seq(S) /\ s \in Seq(Player) /\ Len(s) = Cardinality(S) /\ Len(s) \in Nat
      /\ \A x \in S : \E n \in 1..Len(s) : s[n] = x
  BY <1>1, InOrder
<1>3. Inviting(base, q, g, k, {}, 0) BY InvitingFirst
<1>4. base \in Q BY <1>3 DEF Inviting, More
<1>5. \A x \in Q, y \in Player : InvitedOne(q, g, k, x, y) \in Q
  <2>1. ASSUME NEW x \in Q, NEW y \in Player
        PROVE  InvitedOne(q, g, k, x, y) \in Q
    <3> DEFINE t == q.groups[g].team
               m == [op |-> "invite", who |-> y, inst |-> q.slots[k].inst, stamp |-> g]
               a == Tell(x, m)
    <3>g. q.slots[k].inst \in Inst /\ t \in Team /\ g \in Gid /\ 1 \in Int
      <4>1. q.groups[g] \in Groups /\ q.slots[k] \in Slots BY QueueFields
      <4>2. t \in Team BY <4>1 DEF Groups
      <4>3. q.slots[k].inst \in Inst BY <4>1 DEF Slots
      <4>4. g \in Gid BY DEF Gid
      <4> QED BY <4>2, <4>3, <4>4
    <3>1. m \in WorldMessages /\ t \in Team BY <3>g DEF WorldMessages
    <3> HIDE DEF m
    <3>2. a \in QueueStates /\ a.slots = x.slots BY <3>1, Telling
    <3> HIDE DEF a
    <3>3. k \in 1..Len(a.slots) BY <3>2
    <3>4. /\ ChangeInvited(a, k, t, 1) \in QueueStates
          /\ More(ChangeInvited(a, k, t, 1), a, k, t, 1)
      BY <3>1, <3>2, <3>3, <3>g, Changing
    <3>5. InvitedOne(q, g, k, x, y) = ChangeInvited(a, k, t, 1) BY DEF InvitedOne, a, m
    <3> QED BY <3>2, <3>4, <3>5 DEF More
  <2> QED BY <2>1
<1> HIDE DEF Q, base
<1>6. PICK r, h :
          /\ InviteGroupToBg(q, g, k) = r
          /\ h \in [0..Len(s) -> Q]
          /\ h[0] = base /\ h[Len(s)] = r
          /\ \A n \in 1..Len(s) : h[n] = InvitedOne(q, g, k, h[n - 1], s[n])
  <2>1. /\ GroupInvited(q, g, k) \in Q
        /\ SetToSeq(q.groups[g].players) \in Seq(Player)
        /\ \A x \in Q, y \in Player : InvitedOne(q, g, k, x, y) \in Q
    BY <1>2, <1>4, <1>5 DEF base
  <2>2. \E r, h :
           /\ r \in Q /\ InviteGroupToBg(q, g, k) = r
           /\ h \in [0..Len(SetToSeq(q.groups[g].players)) -> Q]
           /\ h[0] = GroupInvited(q, g, k)
           /\ h[Len(SetToSeq(q.groups[g].players))] = r
           /\ \A n \in 1..Len(SetToSeq(q.groups[g].players)) :
                  h[n] = InvitedOne(q, g, k, h[n - 1], SetToSeq(q.groups[g].players)[n])
    BY ONLY <2>1, InviteGroupFold
  <2> QED BY <2>2 DEF base
<1> HIDE DEF s
<1> DEFINE Upto(n) == {s[j] : j \in 1..n}
           X == {n \in 0..Len(s) : Inviting(h[n], q, g, k, Upto(n), n)}
<1>7. 0 \in X
  <2>1. Upto(0) = {} /\ 0 \in 0..Len(s) BY <1>2
  <2> HIDE DEF Upto
  <2> QED BY <1>3, <1>6, <2>1
<1>8. ASSUME NEW n \in 0..Len(s), n \in X, n < Len(s)
      PROVE  n + 1 \in X
  <2>1. n + 1 \in 1..Len(s) /\ n + 1 \in 0..Len(s) /\ (n + 1) - 1 = n /\ n \in Nat
    BY <1>2, <1>8
  <2>2. h[n + 1] = InvitedOne(q, g, k, h[n], s[n + 1]) BY <1>6, <2>1
  <2>3. s[n + 1] \in Player /\ \A j \in 1..n : s[j] \in Player BY <1>2, <2>1
  <2>4. Upto(n + 1) = Upto(n) \cup {s[n + 1]} BY <2>1
  <2>5. Upto(n) \in SUBSET Player BY <2>3
  <2> HIDE DEF Upto
  <2>6. Inviting(h[n + 1], q, g, k, Upto(n + 1), n + 1)
    BY <1>8, <2>1, <2>2, <2>3, <2>4, <2>5, InvitingNext
  <2> QED BY <2>1, <2>6
<1> HIDE DEF X
<1>9. Len(s) \in X
  <2>1. 0..Len(s) \subseteq X BY <1>2, <1>7, <1>8, UpTo
  <2> QED BY <1>2, <2>1
<1>10. Upto(Len(s)) = S BY <1>1, <1>2
<1>11. Inviting(r, q, g, k, S, Cardinality(S)) BY <1>2, <1>6, <1>9, <1>10 DEF X
<1> QED BY <1>2, <1>6, <1>11

-----------------------------------------------------------------------------
(* Invitations and counts.                                                 *)

\* Group g is invited to i, and otherwise nothing is different about groups.
Asks(r, q, g, i) ==
    /\ r \in QueueStates /\ Len(r.groups) = Len(q.groups)
    /\ \A h \in 1..Len(q.groups) :
           /\ r.groups[h].players = q.groups[h].players /\ r.groups[h].team = q.groups[h].team
           /\ r.groups[h].desired = q.groups[h].desired
           /\ r.groups[h].invited = IF h = g THEN i ELSE q.groups[h].invited

LEMMA InvitingAsks ==
    ASSUME NEW q \in QueueStates, NEW g \in 1..Len(q.groups), NEW k \in 1..Len(q.slots),
           NEW S, NEW d, NEW r, Inviting(r, q, g, k, S, d)
    PROVE  Asks(r, q, g, q.slots[k].inst) /\ SameEntries(r, q)
<1>1. /\ r \in QueueStates /\ q.groups \in Seq(Groups)
      /\ r.groups = [q.groups EXCEPT ![g] = [@ EXCEPT !.invited = q.slots[k].inst]]
  BY QueueFields DEF Inviting
<1>2. SameEntries(r, q) BY DEF Inviting, More, SameEntries
<1>3. Len(r.groups) = Len(q.groups) BY <1>1
<1>4. ASSUME NEW h \in 1..Len(q.groups)
      PROVE  /\ r.groups[h].players = q.groups[h].players /\ r.groups[h].team = q.groups[h].team
             /\ r.groups[h].desired = q.groups[h].desired
             /\ r.groups[h].invited = IF h = g THEN q.slots[k].inst ELSE q.groups[h].invited
  <2>1. q.groups[h] \in Groups BY QueueFields
  <2>2. r.groups[h] = IF h = g THEN [q.groups[h] EXCEPT !.invited = q.slots[k].inst]
                      ELSE q.groups[h]
    BY <1>1
  <2> QED BY <2>1, <2>2 DEF Groups
<1> QED BY <1>1, <1>2, <1>3, <1>4 DEF Asks

LEMMA AsksPlaces ==
    ASSUME NEW q \in QueueStates, NEW g \in 1..Len(q.groups), NEW i \in Inst, NEW r,
           Asks(r, q, g, i), q.groups[g].invited \in {0, i}, NEW H, NEW t \in Team, NEW j \in Inst
    PROVE  /\ Places(r, H, j, t) \subseteq
                  Places(q, H, j, t) \cup ({g} \X q.groups[g].players)
           /\ j # i \/ t # q.groups[g].team => Places(r, H, j, t) \subseteq Places(q, H, j, t)
BY DEF Places, Asks

LEMMA PairsWith ==
    ASSUME NEW S \in SUBSET Player, NEW g
    PROVE  /\ IsFiniteSet({g} \X S) /\ Cardinality({g} \X S) = Cardinality(S)
           /\ Cardinality(S) \in Nat /\ IsFiniteSet(S)
<1>1. IsFiniteSet(S) /\ Cardinality(S) \in Nat
  BY PlayersFinite, FS_Subset, FS_CardinalityType
<1>2. IsFiniteSet({g}) /\ Cardinality({g}) = 1 BY FS_Singleton
<1>3. /\ IsFiniteSet({g} \X S)
      /\ Cardinality({g} \X S) = Cardinality({g}) * Cardinality(S)
  BY <1>1, <1>2, FS_Product
<1> QED BY <1>1, <1>2, <1>3

\* As long as the counter has room for the group.
LEMMA InvitingBalanced ==
    ASSUME NEW q, NEW F \in SUBSET Inst, NEW H, Balanced(q, F, H),
           NEW g \in 1..Len(q.groups), NEW k \in 1..Len(q.slots),
           q.groups[g].invited \in {0, q.slots[k].inst}, NEW r,
           Inviting(r, q, g, k, q.groups[g].players, Cardinality(q.groups[g].players)),
           q.slots[k].inst \in F =>
               q.slots[k].invited[q.groups[g].team] + Cardinality(q.groups[g].players)
                   <= MaxPerTeam
    PROVE  Balanced(r, F, H)
<1> DEFINE i == q.slots[k].inst
           T == q.groups[g].team
           S == q.groups[g].players
           d == Cardinality(S)
<1>1. q \in QueueStates /\ SoundQueue(q) /\ Singles(q, F) /\ Covered(q, F, H) /\ Bounded(q, F)
  BY DEF Balanced, SoundQueue
<1>2. i \in Inst /\ T \in Team /\ S \in SUBSET Player /\ d \in Nat
  BY <1>1, QueueFields, PairsWith
<1>3. Asks(r, q, g, i) /\ SameEntries(r, q) /\ More(r, q, k, T, d)
  BY <1>1, InvitingAsks DEF Inviting
<1>4. r \in QueueStates /\ r.list = q.list /\ r.of = q.of /\ r.ids = q.ids
  BY DEF Inviting
<1>c. i \in F => q.slots[k].invited[T] + d <= MaxPerTeam OBVIOUS
<1>i. q.groups[g].invited \in {0, i} OBVIOUS
<1>5. SoundQueue(r)
  <2>1. Numbered(r) BY <1>1, <1>3, <1>4, SameSingles DEF SoundQueue
  <2>2. OneTeam(r) BY <1>1, <1>3, <1>4 DEF SoundQueue, Numbered, OneTeam, Asks
  <2>3. Grouped(r) BY <1>1, <1>3, <1>4 DEF SoundQueue, Grouped, Asks
  <2>4. Queued(r)
    <3>1. ASSUME NEW t \in Team, NEW kind \in Kind, NEW n \in 1..Len(q.list[t][kind])
          PROVE  /\ q.list[t][kind][n] \in 1..Len(r.groups)
                 /\ r.groups[q.list[t][kind][n]].team = t
      BY <1>1, <1>3 DEF SoundQueue, Queued, Asks
    <3> QED BY <1>4, <3>1 DEF Queued
  <2> QED BY <1>4, <2>1, <2>2, <2>3, <2>4 DEF SoundQueue
<1>6. Singles(r, F) BY <1>1, <1>3, <1>4, SameSingles
<1> HIDE DEF i, T, S, d
<1>7. ASSUME NEW l \in 1..Len(q.slots), q.slots[l].inst \in F, q.slots[l].inst = i
      PROVE  l = k
  BY <1>1, <1>2, <1>7 DEF SoundQueue, Numbered, Inst, i, Singles, Single
<1>8. ASSUME NEW l \in 1..Len(q.slots), NEW u \in Team, q.slots[l].inst \in F
      PROVE  /\ r.slots[l].inst = q.slots[l].inst
             /\ Cardinality(Places(r, H, q.slots[l].inst, u)) <= r.slots[l].invited[u]
             /\ r.slots[l].invited[u] <= MaxPerTeam
  <2> DEFINE j == q.slots[l].inst
             A == Places(q, H, j, u)
             B == Places(r, H, j, u)
             n == q.slots[l].invited[u]
  <2>1. /\ r.slots[l].inst = j
        /\ r.slots[l].invited[u] = IF l = k /\ u = T THEN n + d ELSE n
    BY <1>3 DEF More
  <2>2. j \in Inst /\ n \in Int /\ Cardinality(A) <= n /\ n <= MaxPerTeam
    BY <1>1, <1>8, QueueFields DEF Covered, Bounded
  <2>3. /\ IsFiniteSet(A) /\ Cardinality(A) \in Nat BY <1>1, PlacesFinite, QueueFields
  <2>4. /\ B \subseteq A \cup ({g} \X S)
        /\ j # i \/ u # T => B \subseteq A
    BY <1>1, <1>2, <1>3, <1>i, <2>2, AsksPlaces DEF T, S
  <2>5. IsFiniteSet({g} \X S) /\ Cardinality({g} \X S) = d BY <1>2, PairsWith DEF d
  <2>j. l = k => j = i BY DEF i
  <2>k. j = i => l = k BY <1>7, <1>8
  <2> HIDE DEF A, B, n, j
  <2>6. CASE l = k /\ u = T
    <3>1. Cardinality(B) <= Cardinality(A) + d BY <2>3, <2>4, <2>5, Together
    <3>2. n + d <= MaxPerTeam BY <1>c, <1>8, <2>6 DEF i, n, j
    <3>3. Cardinality(B) \in Nat BY <1>4, PlacesFinite, QueueFields DEF B
    <3> QED BY <1>2, <2>1, <2>2, <2>3, <2>6, <3>1, <3>2, <3>3 DEF B, j
  <2>7. CASE ~(l = k /\ u = T) BY <2>4, <2>7, <2>k, <2>3, Fewer, <2>1, <2>2 DEF B, j
  <2> QED BY <2>6, <2>7
<1>9. Len(r.slots) = Len(q.slots) BY <1>3 DEF SameEntries
<1>10. ASSUME NEW l \in 1..Len(r.slots), NEW u \in Team, r.slots[l].inst \in F
       PROVE  /\ Cardinality(Places(r, H, r.slots[l].inst, u)) <= r.slots[l].invited[u]
              /\ r.slots[l].invited[u] <= MaxPerTeam
  BY <1>3, <1>9, <1>10, <1>8 DEF SameEntries
<1>11. Covered(r, F, H) /\ Bounded(r, F) BY <1>10 DEF Covered, Bounded
<1> QED BY <1>5, <1>6, <1>11 DEF Balanced

-----------------------------------------------------------------------------
(* SelectionPool.                                                          *)

\* The groups of team t that are not invited, which a pool may have.
Able(q, t) == {g \in 1..Len(q.groups) : q.groups[g].team = t /\ q.groups[g].invited = 0}

\* f counts the players of the groups of s, one group after the other.
Sums(f, s, q, L) ==
    /\ f \in [0..Len(s) -> 0..L] /\ f[0] = 0
    /\ \A m \in 1..Len(s) : f[m] = f[m - 1] + Cardinality(q.groups[s[m]].players)
Counted(s, q, L, n) == \E f : Sums(f, s, q, L) /\ f[Len(s)] = n

\* s is a pool of such groups, with no more than L players.
Pool(s, q, t, L) ==
    /\ s.sel \in Seq(Able(q, t)) /\ s.n \in 0..L
    /\ Counted(s.sel, q, L, s.n)
Pools(q, t, L) == {s \in [sel : Seq(Able(q, t)), n : 0..L] : Pool(s, q, t, L)}

LEMMA Longer ==
    ASSUME NEW S, NEW s \in Seq(S), NEW g \in S, NEW q, NEW L \in Nat, NEW n, Counted(s, q, L, n),
           NEW d \in Nat, d = Cardinality(q.groups[g].players), n + d <= L,
           NEW a, a = Append(s, g)
    PROVE  Counted(a, q, L, n + d)
<1>0. PICK f : Sums(f, s, q, L) /\ f[Len(s)] = n BY DEF Counted
<1>2. /\ Len(a) = Len(s) + 1 /\ Len(s) \in Nat /\ a[Len(s) + 1] = g
      /\ \A m \in 1..Len(s) : a[m] = s[m]
  BY Appended
<1>3. PICK l \in Nat : l = Len(s) BY <1>2
<1>4. f \in [0..l -> 0..L] /\ f[0] = 0 /\ f[l] + d <= L BY <1>0, <1>3 DEF Sums
<1> DEFINE e == [m \in 0..(l + 1) |-> IF m = l + 1 THEN f[l] + d ELSE f[m]]
<1>5. e \in [0..(l + 1) -> 0..L] BY <1>4
<1>6. e[0] = 0 /\ e[l + 1] = f[l] + d /\ \A m \in 0..l : e[m] = f[m] BY <1>4
<1> HIDE DEF e
<1>7. ASSUME NEW m \in 1..(l + 1)
      PROVE  e[m] = e[m - 1] + Cardinality(q.groups[a[m]].players)
  <2>1. CASE m = l + 1 BY <1>2, <1>3, <2>1, <1>6
  <2>2. CASE m # l + 1 BY <2>2, <1>0, <1>2, <1>3, <1>6 DEF Sums
  <2> QED BY <2>1, <2>2
<1>8. Sums(e, a, q, L) /\ e[Len(a)] = n + d
  BY <1>0, <1>2, <1>3, <1>5, <1>6, <1>7 DEF Sums
<1> QED BY <1>8 DEF Counted

LEMMA PoolMore ==
    ASSUME NEW q \in QueueStates, NEW t \in Team, NEW L \in Nat, NEW limit \in 0..L,
           NEW enough, NEW id, NEW s \in Pools(q, t, L),
           NEW g \in {h \in 1..Len(q.groups) : q.groups[h].team = t}
    PROVE  Added(q, limit, enough, id, s, g) \in Pools(q, t, L)
<1> DEFINE d == Cardinality(q.groups[g].players)
           n == s.n + d
           x == [sel |-> Append(s.sel, g), n |-> n]
<1>1. q.groups[g].players \in SUBSET Player /\ d \in Nat BY QueueFields, PairsWith
<1>2. s.sel \in Seq(Able(q, t)) /\ s.n \in 0..L /\ Pool(s, q, t, L) BY DEF Pools
<1>3. ASSUME q.groups[g].invited = 0, n <= limit
      PROVE  x \in Pools(q, t, L)
  <2>1. g \in Able(q, t) BY <1>3 DEF Able
  <2>2. n \in 0..L BY <1>1, <1>2, <1>3
  <2>3. PICK c : c = d OBVIOUS
  <2> HIDE DEF d
  <2>4. \A a : a = Append(s.sel, g) => Counted(a, q, L, s.n + c)
    <3>1. /\ c \in Nat /\ s.n + c <= L /\ c = Cardinality(q.groups[g].players)
          /\ Counted(s.sel, q, L, s.n)
      BY <1>1, <1>2, <2>2, <2>3 DEF d, Pool
    <3> QED BY <1>2, <2>1, <3>1, Longer
  <2>5. Append(s.sel, g) \in Seq(Able(q, t)) BY <1>2, <2>1, AppendProperties
  <2>6. x.sel = Append(s.sel, g) /\ x.n = n /\ x \in [sel : Seq(Able(q, t)), n : 0..L]
    BY <2>2, <2>5
  <2> HIDE DEF x
  <2>7. Pool(x, q, t, L) BY <2>2, <2>3, <2>4, <2>5, <2>6 DEF Pool, Able
  <2> QED BY <2>6, <2>7 DEF Pools
<1>4. \/ Added(q, limit, enough, id, s, g) = s
      \/ /\ q.groups[g].invited = 0 /\ n <= limit
         /\ Added(q, limit, enough, id, s, g) = x
  BY DEF Added
<1> QED BY <1>3, <1>4

LEMMA Selecting ==
    ASSUME NEW q \in QueueStates, NEW t \in Team, NEW L \in Nat, NEW limit \in 0..L,
           NEW enough, NEW id, NEW pool, pool \in Pools(q, t, L),
           NEW list, list \in Seq({h \in 1..Len(q.groups) : q.groups[h].team = t})
    PROVE  Select(q, pool, list, limit, enough, id) \in Pools(q, t, L)
BY PoolMore, SelectFold

LEMMA NoneSelected ==
    ASSUME NEW q, NEW t, NEW L \in Nat
    PROVE  NoPool \in Pools(q, t, L)
<1>1. PICK f : f = [m \in 0..0 |-> 0] OBVIOUS
<1>2. f \in [0..0 -> 0..L] /\ f[0] = 0 BY <1>1
<1>3. Len(<<>>) = 0 /\ 1..0 = {} /\ <<>> \in Seq(Able(q, t)) OBVIOUS
<1>4. Counted(<<>>, q, L, 0) BY <1>2, <1>3 DEF Sums, Counted
<1>5. NoPool.sel = <<>> /\ NoPool.n = 0 /\ NoPool \in [sel : Seq(Able(q, t)), n : 0..L]
  BY <1>3 DEF NoPool
<1> HIDE DEF NoPool
<1>6. Pool(NoPool, q, t, L) BY <1>3, <1>4, <1>5 DEF Pool
<1> QED BY <1>5, <1>6 DEF Pools

\* The groups of a list of the queue, which are of its team.
LEMMA ListOf ==
    ASSUME NEW q, SoundQueue(q), NEW t \in Team, NEW kind \in Kind
    PROVE  q.list[t][kind] \in Seq({h \in 1..Len(q.groups) : q.groups[h].team = t})
<1>1. q.list[t][kind] \in Seq(Gid) BY QueueFields DEF SoundQueue
<1>2. \A n \in 1..Len(q.list[t][kind]) :
          q.list[t][kind][n] \in {h \in 1..Len(q.groups) : q.groups[h].team = t}
  BY DEF SoundQueue, Queued
<1> QED BY <1>1, <1>2

-----------------------------------------------------------------------------
(* Both pools.                                                             *)

Uninvited(q) == {g \in 1..Len(q.groups) : q.groups[g].invited = 0}

\* f counts the players of the alliance, e those of the horde, in the groups of s
\* one group after the other.
Split(f, e, s, q, L) ==
    /\ f \in [0..Len(s) -> 0..L["alliance"]] /\ f[0] = 0
    /\ e \in [0..Len(s) -> 0..L["horde"]] /\ e[0] = 0
    /\ \A m \in 1..Len(s) :
           LET d == Cardinality(q.groups[s[m]].players) IN
           \/ /\ q.groups[s[m]].team = "alliance" /\ f[m] = f[m - 1] + d /\ e[m] = e[m - 1]
           \/ /\ q.groups[s[m]].team = "horde" /\ f[m] = f[m - 1] /\ e[m] = e[m - 1] + d

LEMMA BothSplit ==
    ASSUME NEW q \in QueueStates, NEW L \in [Team -> Nat],
           NEW a \in Seq(Able(q, "alliance")), NEW b \in Seq(Able(q, "horde")),
           NEW x, Counted(a, q, L["alliance"], x), NEW y, Counted(b, q, L["horde"], y),
           NEW s, s = a \o b
    PROVE  s \in Seq(Uninvited(q)) /\ \E f, e : Split(f, e, s, q, L)
<1>1. PICK u : Sums(u, a, q, L["alliance"]) BY DEF Counted
<1>2. PICK v : Sums(v, b, q, L["horde"]) BY DEF Counted
<1>3. PICK j \in Nat, k \in Nat : j = Len(a) /\ k = Len(b) OBVIOUS
<1>4. PICK A \in Nat, H \in Nat : A = L["alliance"] /\ H = L["horde"] BY DEF Team
<1>5. /\ Len(s) = j + k
      /\ \A m \in 1..(j + k) : \/ m \in 1..j /\ s[m] = a[m] /\ s[m] \in Able(q, "alliance")
                               \/ /\ m - j \in 1..k /\ s[m] = b[m - j]
                                  /\ s[m] \in Able(q, "horde")
  BY <1>3
<1>6. /\ Able(q, "alliance") \subseteq Uninvited(q) /\ Able(q, "horde") \subseteq Uninvited(q)
      /\ \A g \in Able(q, "alliance") : q.groups[g].team = "alliance"
      /\ \A g \in Able(q, "horde") : q.groups[g].team = "horde"
  BY DEF Able, Uninvited
<1>7. s \in Seq(Uninvited(q)) BY <1>6
<1> DEFINE f == [m \in 0..(j + k) |-> IF m <= j THEN u[m] ELSE u[j]]
           e == [m \in 0..(j + k) |-> IF m <= j THEN 0 ELSE v[m - j]]
<1>8. /\ u \in [0..j -> 0..A] /\ u[0] = 0 /\ v \in [0..k -> 0..H] /\ v[0] = 0
      /\ \A m \in 1..j : u[m] = u[m - 1] + Cardinality(q.groups[a[m]].players)
      /\ \A m \in 1..k : v[m] = v[m - 1] + Cardinality(q.groups[b[m]].players)
  BY <1>1, <1>2, <1>3, <1>4 DEF Sums
<1>9. f \in [0..(j + k) -> 0..A] /\ e \in [0..(j + k) -> 0..H] BY <1>8
<1>10. /\ \A m \in 0..j : f[m] = u[m] /\ e[m] = 0
       /\ \A m \in 0..k : f[j + m] = u[j] /\ e[j + m] = v[m]
  <2>1. \A m \in 0..j : m \in 0..(j + k) /\ m <= j OBVIOUS
  <2>2. \A m \in 0..k : j + m \in 0..(j + k) /\ (j + m <= j => m = 0) /\ (j + m) - j = m
                        /\ j + 0 = j
    OBVIOUS
  <2> QED BY <1>8, <2>1, <2>2
<1> HIDE DEF f, e
<1>11. f[0] = 0 /\ e[0] = 0
  <2>1. 0 \in 0..j OBVIOUS
  <2>2. f[0] = u[0] /\ e[0] = 0 BY <1>10, <2>1, Zenon
  <2> QED BY <1>8, <2>2, Zenon
<1>12. ASSUME NEW m \in 1..(j + k)
       PROVE  LET d == Cardinality(q.groups[s[m]].players) IN
              \/ /\ q.groups[s[m]].team = "alliance" /\ f[m] = f[m - 1] + d /\ e[m] = e[m - 1]
              \/ /\ q.groups[s[m]].team = "horde" /\ f[m] = f[m - 1] /\ e[m] = e[m - 1] + d
  <2> DEFINE d == Cardinality(q.groups[s[m]].players)
  <2>1. CASE m \in 1..j /\ s[m] = a[m] /\ s[m] \in Able(q, "alliance")
    <3>1. m \in 0..j /\ m - 1 \in 0..j BY <2>1
    <3>2. q.groups[s[m]].team = "alliance" /\ u[m] = u[m - 1] + d BY <1>6, <1>8, <2>1
    <3> HIDE DEF d
    <3>3. f[m] = u[m] /\ f[m - 1] = u[m - 1] /\ e[m] = 0 /\ e[m - 1] = 0 BY <1>10, <3>1
    <3> QED BY <3>2, <3>3 DEF d
  <2>2. CASE m - j \in 1..k /\ s[m] = b[m - j] /\ s[m] \in Able(q, "horde")
    <3>1. PICK n \in 1..k : n = m - j BY <2>2
    <3>2. /\ n \in 0..k /\ n - 1 \in 0..k /\ j + n = m /\ j + (n - 1) = m - 1 BY <3>1
    <3>3. q.groups[s[m]].team = "horde" /\ v[n] = v[n - 1] + d BY <1>6, <1>8, <2>2, <3>1
    <3> HIDE DEF d
    <3>4. f[m] = u[j] /\ f[m - 1] = u[j] /\ e[m] = v[n] /\ e[m - 1] = v[n - 1]
      BY <1>10, <3>2
    <3> QED BY <3>3, <3>4 DEF d
  <2> QED BY <1>5, <2>1, <2>2
<1>13. Split(f, e, s, q, L) BY <1>4, <1>5, <1>9, <1>11, <1>12 DEF Split
<1> QED BY <1>7, <1>13

-----------------------------------------------------------------------------
(* On the way through an update.                                           *)

\* Who is called to group g in s; what a message of an update of q says, which has
\* come to x; how far x is.
Called(s, p, g) == \E n \in 1..Len(s) : s[n].op = "invite" /\ s[n].who = p /\ s[n].stamp = g
Calling(m, x, q) ==
    /\ m.op \in {"count", "invite", "create"}
    /\ m.op = "invite" =>
           /\ m.stamp \in 1..Len(q.groups) /\ q.groups[m.stamp].invited = 0
           /\ x.groups[m.stamp].invited = m.inst /\ m.who \in q.groups[m.stamp].players
Progress(x, q) ==
    /\ x \in QueueStates /\ x.of = q.of /\ Len(x.groups) = Len(q.groups)
    /\ Len(q.groups) \in Nat
    /\ \A g \in 1..Len(q.groups) :
           /\ x.groups[g].players = q.groups[g].players /\ x.groups[g].team = q.groups[g].team
           /\ \/ x.groups[g].invited = q.groups[g].invited
              \/ /\ q.groups[g].invited = 0
                 /\ \A p \in q.groups[g].players : Called(x.sent, p, g)
    /\ \A n \in 1..Len(x.sent) : Calling(x.sent[n], x, q)

\* Where the messages of a and s are in x.
Composed(x, a, s) ==
    /\ \A n \in 1..Len(a) : n \in 1..Len(x) /\ x[n] = a[n]
    /\ \A n \in 1..Len(s) : \E m \in 1..Len(x) : m = Len(a) + n /\ x[m] = s[n]
    /\ \A n \in 1..Len(x) : \/ n \in 1..Len(a) /\ x[n] = a[n]
                            \/ \E m \in 1..Len(s) : n = Len(a) + m /\ x[n] = s[m]

LEMMA FollowsAt ==
    ASSUME NEW S, NEW a, a \in Seq(S), NEW s, s \in Seq(S), NEW x, Follows(x, a, s)
    PROVE  x \in Seq(S) /\ Composed(x, a, s)
<1>1. PICK b \in Seq(S) : b = a OBVIOUS
<1>2. PICK c \in Seq(S) : c = s OBVIOUS
<1>3. PICK y : y = b \o c OBVIOUS
<1>4. /\ Len(b) \in Nat /\ Len(c) \in Nat /\ y \in Seq(S)
      /\ \A n \in 1..Len(b) : n \in 1..Len(y) /\ y[n] = b[n]
      /\ \A n \in 1..Len(c) : Len(b) + n \in 1..Len(y) /\ y[Len(b) + n] = c[n]
      /\ \A n \in 1..Len(y) : \/ n \in 1..Len(b) /\ y[n] = b[n]
                              \/ n - Len(b) \in 1..Len(c) /\ y[n] = c[n - Len(b)]
  BY <1>3, Concatenated
<1>5. \A n \in 1..Len(y) : \/ n \in 1..Len(b) /\ y[n] = b[n]
                           \/ \E m \in 1..Len(c) : n = Len(b) + m /\ y[n] = c[m]
  BY <1>4
<1>6. x = y BY <1>1, <1>2, <1>3, Zenon DEF Follows
<1>7. Composed(y, b, c) BY <1>4, <1>5 DEF Composed
<1> QED BY <1>1, <1>2, <1>4, <1>6, <1>7, Zenon

LEMMA ProgressInvited ==
    ASSUME NEW q, NEW x, Progress(x, q), NEW g \in 1..Len(q.groups), NEW i \in Inst,
           q.groups[g].invited = 0, x.groups[g].invited \in {0, i}, NEW y, Asks(y, x, g, i),
           y.of = x.of, NEW s, s \in Seq(Plain), Follows(y.sent, x.sent, s),
           Calls(s, q.groups[g].players, i, g)
    PROVE  Progress(y, q)
<1>1. y \in QueueStates /\ y.of = q.of /\ Len(y.groups) = Len(q.groups) /\ Len(q.groups) \in Nat
  BY DEF Asks, Progress
<1>2. Composed(y.sent, x.sent, s)
  <2>1. s \in Seq(WorldMessages) BY DEF Plain
  <2>2. x.sent \in Seq(WorldMessages) BY QueueFields DEF Progress
  <2> QED BY <2>1, <2>2, FollowsAt
<1>3. \A p : \A h : Called(x.sent, p, h) => Called(y.sent, p, h)
  BY <1>2 DEF Called, Composed
<1>4. \A p \in q.groups[g].players : Called(y.sent, p, g)
  <2>1. ASSUME NEW p \in q.groups[g].players
        PROVE  Called(y.sent, p, g)
    <3>1. PICK n \in 1..Len(s) : s[n].op = "invite" /\ s[n].who = p BY DEF Calls
    <3>2. s[n].stamp = g BY <3>1 DEF Calls
    <3>3. PICK e : e = s[n] OBVIOUS
    <3>4. PICK m \in 1..Len(y.sent) : y.sent[m] = e BY <1>2, <3>3 DEF Composed
    <3>5. e.op = "invite" /\ e.who = p /\ e.stamp = g BY <3>1, <3>2, <3>3
    <3> QED BY <3>4, <3>5 DEF Called
  <2> QED BY <2>1
<1>5. ASSUME NEW h \in 1..Len(q.groups)
      PROVE  /\ y.groups[h].players = q.groups[h].players /\ y.groups[h].team = q.groups[h].team
             /\ \/ y.groups[h].invited = q.groups[h].invited
                \/ /\ q.groups[h].invited = 0
                   /\ \A p \in q.groups[h].players : Called(y.sent, p, h)
  BY <1>3, <1>4 DEF Asks, Progress
<1>6. ASSUME NEW n \in 1..Len(y.sent)
      PROVE  Calling(y.sent[n], y, q)
  <2>1. CASE n \in 1..Len(x.sent) /\ y.sent[n] = x.sent[n]
    <3>1. PICK m : m = x.sent[n] OBVIOUS
    <3>2. Calling(m, x, q) BY <2>1, <3>1 DEF Progress
    <3>3. m.op = "invite" => y.groups[m.stamp].invited = m.inst
      <4>1. ASSUME m.op = "invite", m.stamp = g
            PROVE  m.inst = i
        BY <3>2, <4>1, QueueFields, <2>1, <3>1, WorldSays DEF Calling, Progress, Inst
      <4>2. m.op = "invite" => m.stamp \in 1..Len(x.groups)
        BY <3>2 DEF Calling, Progress
      <4> QED BY <3>2, <4>1, <4>2 DEF Calling, Asks
    <3> QED BY <2>1, <3>1, <3>2, <3>3 DEF Calling
  <2>2. ASSUME NEW m \in 1..Len(s), y.sent[n] = s[m]
        PROVE  Calling(y.sent[n], y, q)
    <3>1. PICK e : e = s[m] OBVIOUS
    <3>2. /\ e.op \in {"count", "invite"}
          /\ e.op = "invite" => e.who \in q.groups[g].players /\ e.inst = i /\ e.stamp = g
      BY <3>1 DEF Calls
    <3>3. y.groups[g].invited = i BY DEF Asks, Progress
    <3> QED BY <2>2, <3>1, <3>2, <3>3 DEF Calling
  <2> QED BY <1>2, <2>1, <2>2 DEF Composed
<1> QED BY <1>1, <1>5, <1>6 DEF Progress

\* The messages of the world so far, those of the update, and one of them more.
LEMMA SaidPlain ==
    ASSUME NEW bgs, NEW ids, NEW M, M \in Seq(WorldMessages), NEW a, a \in Seq(WorldMessages),
           Announced(bgs, ids, M \o a),
           NEW s, s \in Seq(Plain), NEW y, Follows(y, a, s)
    PROVE  Announced(bgs, ids, M \o y)
<1>1. PICK K \in Seq(WorldMessages), b \in Seq(WorldMessages), c \in Seq(Plain) :
          K = M /\ b = a /\ c = s
  OBVIOUS
<1>2. c \in Seq(WorldMessages) BY DEF Plain
<1>3. PICK d \in Seq(WorldMessages) : d = c BY <1>2
<1>4. (K \o b) \o d = K \o (b \o d) OBVIOUS
<1>5. Announced(bgs, ids, K \o b) BY <1>1, Zenon
<1>6. Announced(bgs, ids, (K \o b) \o c) BY <1>5, AnnouncedPlain, Zenon
<1>7. y = b \o c BY <1>1, Zenon DEF Follows
<1> QED BY <1>1, <1>3, <1>4, <1>6, <1>7, Zenon

LEMMA PhaseSame ==
    ASSUME NEW q, NEW r, SameEntries(r, q), r.ids = q.ids, NEW w, NEW N, NEW i,
           Phase(q, w, N, i)
    PROVE  Phase(r, w, N, i)
BY SameSingles DEF Phase

\* What holds between the steps of an update of q, of which the world hears as soon as
\* ids battlegrounds are numbered.
Midway(x, q, w, M, N, ids) ==
    /\ M \in Seq(WorldMessages) /\ Balanced(x, FreshOnes(w), Present(w, M))
    /\ Announced(Len(w.bg), ids, M \o x.sent)
    /\ \A i \in 1..Len(x.ids) : Phase(x, w, N, i)
    /\ Progress(x, q)

LEMMA MidwayInvited ==
    ASSUME NEW q, NEW x, NEW w, NEW M, NEW N, NEW ids, Midway(x, q, w, M, N, ids),
           NEW g \in 1..Len(x.groups), NEW k \in 1..Len(x.slots),
           q.groups[g].invited = 0, x.groups[g].invited \in {0, x.slots[k].inst},
           NEW y, y = InviteGroupToBg(x, g, k),
           x.slots[k].inst \in FreshOnes(w) =>
               x.slots[k].invited[x.groups[g].team] + Cardinality(x.groups[g].players)
                   <= MaxPerTeam
    PROVE  /\ Midway(y, q, w, M, N, ids) /\ Asks(y, x, g, x.slots[k].inst)
           /\ SameEntries(y, x) /\ y.ids = x.ids
           /\ More(y, x, k, x.groups[g].team, Cardinality(x.groups[g].players))
<1> DEFINE i == x.slots[k].inst
           S == x.groups[g].players
           F == FreshOnes(w)
<1>1. x \in QueueStates /\ i \in Inst /\ g \in 1..Len(q.groups) /\ S = q.groups[g].players
  BY QueueFields DEF Midway, Progress
<1>2. Inviting(y, x, g, k, S, Cardinality(S)) BY <1>1, InvitingGroup
<1>3. Asks(y, x, g, i) /\ SameEntries(y, x) /\ y.ids = x.ids /\ y.of = x.of
  BY <1>1, <1>2, InvitingAsks DEF Inviting
<1>4. Balanced(y, F, Present(w, M)) BY <1>2, InvitingBalanced DEF FreshOnes, Midway, F
<1>5. PICK s \in Seq(Plain) : Follows(y.sent, x.sent, s) /\ Calls(s, S, i, g)
  BY <1>2 DEF Inviting
<1>6. Announced(Len(w.bg), ids, M \o y.sent)
  BY <1>1, QueueFields, <1>5, SaidPlain DEF Midway
<1>7. \A j \in 1..Len(y.ids) : Phase(y, w, N, j) BY <1>3, PhaseSame DEF Midway
<1> HIDE DEF i, S, F
<1>8. Progress(y, q) BY <1>1, <1>5, <1>3, ProgressInvited DEF Midway, i
<1>9. More(y, x, k, x.groups[g].team, Cardinality(S)) BY <1>2 DEF Inviting
<1> QED BY <1>3, <1>4, <1>6, <1>7, <1>8, <1>9 DEF Midway, i, S, F

-----------------------------------------------------------------------------
(* InviteAll.                                                              *)

\* y is x with groups that were not invited asked to the battleground of the k-th
\* entry, a of the alliance and b of the horde counted.
Stage(y, x, k, a, b) ==
    /\ y \in QueueStates /\ SameEntries(y, x) /\ y.ids = x.ids /\ Len(y.groups) = Len(x.groups)
    /\ \A g \in 1..Len(x.groups) :
           /\ y.groups[g].players = x.groups[g].players /\ y.groups[g].team = x.groups[g].team
           /\ x.groups[g].invited = 0 => y.groups[g].invited \in {0, x.slots[k].inst}
    /\ y.slots[k].invited["alliance"] = x.slots[k].invited["alliance"] + a
    /\ y.slots[k].invited["horde"] = x.slots[k].invited["horde"] + b

LEMMA StageNext ==
    ASSUME NEW x, x \in QueueStates, NEW k \in 1..Len(x.slots), NEW a \in Nat, NEW b \in Nat,
           NEW y, Stage(y, x, k, a, b), NEW g \in 1..Len(x.groups),
           NEW z, Asks(z, y, g, y.slots[k].inst), SameEntries(z, y), z.ids = y.ids,
           NEW d \in Nat, More(z, y, k, y.groups[g].team, d)
    PROVE  /\ y.groups[g].team = "alliance" => Stage(z, x, k, a + d, b)
           /\ y.groups[g].team = "horde" => Stage(z, x, k, a, b + d)
<1>1. /\ z \in QueueStates /\ z.ids = x.ids /\ Len(z.groups) = Len(x.groups)
      /\ y.slots[k].inst = x.slots[k].inst
      /\ Len(y.slots) = Len(x.slots) /\ Len(z.slots) = Len(y.slots)
  BY DEF Asks, Stage, SameEntries
<1>2. SameEntries(z, x) BY DEF Stage, SameEntries
<1>3. \A h \in 1..Len(x.groups) :
          /\ z.groups[h].players = x.groups[h].players /\ z.groups[h].team = x.groups[h].team
          /\ x.groups[h].invited = 0 => z.groups[h].invited \in {0, x.slots[k].inst}
  BY <1>1 DEF Asks, Stage
<1>4. /\ "alliance" \in Team /\ "horde" \in Team
      /\ \A t \in Team : x.slots[k].invited[t] \in Int
  BY QueueFields DEF Team
<1>5. \A t \in Team : z.slots[k].invited[t] =
          IF t = y.groups[g].team THEN y.slots[k].invited[t] + d ELSE y.slots[k].invited[t]
  BY <1>1 DEF More
<1>6. /\ y.slots[k].invited["alliance"] = x.slots[k].invited["alliance"] + a
      /\ y.slots[k].invited["horde"] = x.slots[k].invited["horde"] + b
  BY DEF Stage
<1>t. /\ z.slots[k].invited["alliance"] =
             IF "alliance" = y.groups[g].team THEN y.slots[k].invited["alliance"] + d
             ELSE y.slots[k].invited["alliance"]
      /\ z.slots[k].invited["horde"] =
             IF "horde" = y.groups[g].team THEN y.slots[k].invited["horde"] + d
             ELSE y.slots[k].invited["horde"]
      /\ x.slots[k].invited["alliance"] \in Int /\ x.slots[k].invited["horde"] \in Int
  BY <1>4, <1>5
<1>7. ASSUME y.groups[g].team = "alliance"
      PROVE  /\ z.slots[k].invited["alliance"] = x.slots[k].invited["alliance"] + (a + d)
             /\ z.slots[k].invited["horde"] = x.slots[k].invited["horde"] + b
  BY <1>6, <1>7, <1>t
<1>8. ASSUME y.groups[g].team = "horde"
      PROVE  /\ z.slots[k].invited["alliance"] = x.slots[k].invited["alliance"] + a
             /\ z.slots[k].invited["horde"] = x.slots[k].invited["horde"] + (b + d)
  BY <1>6, <1>8, <1>t
<1> QED BY <1>1, <1>2, <1>3, <1>7, <1>8 DEF Stage

\* Both pools of x, with no more players than the entry has room for.
Roomy(pools, x, w, k) ==
    \E L \in [Team -> Nat] :
        /\ Pool(pools["alliance"], x, "alliance", L["alliance"])
        /\ Pool(pools["horde"], x, "horde", L["horde"])
        /\ \A t \in Team : x.slots[k].inst \in FreshOnes(w) =>
               x.slots[k].invited[t] + L[t] <= MaxPerTeam

LEMMA Room ==
    ASSUME NEW x \in Int, NEW f \in Nat, NEW e \in Nat, NEW d \in Nat, NEW n \in Nat,
           NEW m \in Nat, e <= n, x + n <= m, e = f + d, NEW y, y = x + f
    PROVE  y + d <= m
OBVIOUS

LEMMA InvitingAll ==
    ASSUME NEW q, NEW x, NEW w, NEW M, NEW N, NEW ids, Midway(x, q, w, M, N, ids),
           NEW k \in 1..Len(x.slots), NEW pools, Roomy(pools, x, w, k)
    PROVE  LET y == InviteAll(x, pools, k) IN
           Midway(y, q, w, M, N, ids) /\ SameEntries(y, x) /\ y.ids = x.ids
<1>1. x \in QueueStates /\ Len(x.groups) \in Nat BY QueueFields DEF Midway, Progress
<1>2. PICK L \in [Team -> Nat] :
          /\ Pool(pools["alliance"], x, "alliance", L["alliance"])
          /\ Pool(pools["horde"], x, "horde", L["horde"])
          /\ \A t \in Team : x.slots[k].inst \in FreshOnes(w) =>
                 x.slots[k].invited[t] + L[t] <= MaxPerTeam
  BY DEF Roomy
<1>3. PICK A, B : A = pools["alliance"].sel /\ B = pools["horde"].sel OBVIOUS
<1>4. PICK s : s = pools["alliance"].sel \o pools["horde"].sel OBVIOUS
<1>5. s \in Seq(Uninvited(x)) /\ \E f, e : Split(f, e, s, x, L)
  BY <1>2, <1>3, <1>4, <1>1, BothSplit DEF Pool
<1>6. PICK f, e : Split(f, e, s, x, L) BY <1>5
<1>7. PICK n \in Nat : n = Len(s) BY <1>5
<1>8. /\ f \in [0..n -> 0..L["alliance"]] /\ f[0] = 0
      /\ e \in [0..n -> 0..L["horde"]] /\ e[0] = 0
  BY <1>6, <1>7 DEF Split
<1>9. \A m \in 1..n : s[m] \in 1..Len(x.groups) /\ x.groups[s[m]].invited = 0
  BY <1>5, <1>7 DEF Uninvited
<1> DEFINE Q == {y \in QueueStates : Len(y.groups) = Len(x.groups)
                                     /\ Len(y.slots) = Len(x.slots)}
           E == 1..Len(x.groups)
<1>10. x \in Q /\ s \in Seq(E) BY <1>1, <1>5 DEF Uninvited
<1>11. \A y \in Q, g \in E : InviteGroupToBg(y, g, k) \in Q
  BY InvitingGroup, InvitingAsks DEF Asks, SameEntries
<1> HIDE DEF Q, E
<1>12. PICK r, h :
           /\ InviteAll(x, pools, k) = r
           /\ h \in [0..Len(s) -> Q]
           /\ h[0] = x /\ h[Len(s)] = r
           /\ \A m \in 1..Len(s) : h[m] = InviteGroupToBg(h[m - 1], s[m], k)
  <2>1. s \in Seq(E) /\ s = pools["alliance"].sel \o pools["horde"].sel /\ x \in Q
    BY <1>4, <1>10
  <2>2. InvitesTo(InviteAll(x, pools, k), Q, x, s, k) BY <1>11, <2>1, InviteAllFold
  <2> QED BY <2>2 DEF InvitesTo
<1> DEFINE X == {m \in 0..n : /\ Midway(h[m], q, w, M, N, ids)
                              /\ Stage(h[m], x, k, f[m], e[m])}
<1>13. 0 \in X
  <2>1. Stage(x, x, k, 0, 0) BY <1>1, QueueFields DEF Team, Stage, SameEntries
  <2> QED BY <1>8, <1>12, <2>1
<1>14. ASSUME NEW m \in 0..n, m \in X, m < n
       PROVE  m + 1 \in X
  <2>1. m + 1 \in 1..n /\ m + 1 \in 0..n /\ (m + 1) - 1 = m BY <1>14
  <2>2. PICK y, z, g : y = h[m] /\ z = h[m + 1] /\ g = s[m + 1] OBVIOUS
  <2>3. z = InviteGroupToBg(y, g, k) BY <1>7, <1>12, <2>1, <2>2
  <2>4. Midway(y, q, w, M, N, ids) /\ Stage(y, x, k, f[m], e[m]) BY <1>14, <2>2
  <2>5. g \in 1..Len(x.groups) /\ x.groups[g].invited = 0 BY <1>9, <2>1, <2>2
  <2> DEFINE i == x.slots[k].inst
             d == Cardinality(x.groups[g].players)
  <2>6. d \in Nat /\ x.groups[g].team \in Team /\ i \in Inst
    BY <1>1, <2>5, QueueFields, PairsWith
  <2>7. /\ g \in 1..Len(y.groups) /\ k \in 1..Len(y.slots) /\ y.slots[k].inst = i
        /\ y.groups[g].players = x.groups[g].players /\ y.groups[g].team = x.groups[g].team
        /\ y.groups[g].invited \in {0, i}
    BY <2>4, <2>5 DEF Stage, SameEntries
  <2>8. q.groups[g].invited = 0 BY <2>5 DEF Midway, Progress
  <2>9. \/ /\ x.groups[g].team = "alliance" /\ f[m + 1] = f[m] + d /\ e[m + 1] = e[m]
        \/ /\ x.groups[g].team = "horde" /\ f[m + 1] = f[m] /\ e[m + 1] = e[m] + d
    BY <1>6, <1>7, <2>1, <2>2 DEF Split
  <2>10. /\ f[m] \in Nat /\ e[m] \in Nat /\ f[m + 1] \in Nat /\ e[m + 1] \in Nat
         /\ f[m + 1] <= L["alliance"] /\ e[m + 1] <= L["horde"]
         /\ L["alliance"] \in Nat /\ L["horde"] \in Nat
    BY <1>8, <2>1 DEF Team
  <2>11. ASSUME i \in FreshOnes(w)
         PROVE  y.slots[k].invited[y.groups[g].team] + Cardinality(y.groups[g].players)
                    <= MaxPerTeam
    <3>1. /\ y.slots[k].invited["alliance"] = x.slots[k].invited["alliance"] + f[m]
          /\ y.slots[k].invited["horde"] = x.slots[k].invited["horde"] + e[m]
      BY <2>4 DEF Stage
    <3>2. /\ x.slots[k].invited["alliance"] + L["alliance"] <= MaxPerTeam
          /\ x.slots[k].invited["horde"] + L["horde"] <= MaxPerTeam
      BY <1>2, <2>11 DEF Team
    <3>3. /\ x.slots[k].invited["alliance"] \in Int /\ x.slots[k].invited["horde"] \in Int
          /\ MaxPerTeam \in Nat
      BY <1>1, QueueFields, QueueAssumption DEF Team
    <3> HIDE DEF d
    <3>4. CASE x.groups[g].team = "alliance"
      <4>1. f[m + 1] = f[m] + d BY <2>9, <3>4
      <4>2. y.slots[k].invited["alliance"] + d <= MaxPerTeam
        BY <2>6, <2>10, <3>1, <3>2, <3>3, <4>1, Room
      <4> QED BY <2>7, <3>4, <4>2 DEF d
    <3>5. CASE x.groups[g].team = "horde"
      <4>1. e[m + 1] = e[m] + d BY <2>9, <3>5
      <4>2. y.slots[k].invited["horde"] + d <= MaxPerTeam
        BY <2>6, <2>10, <3>1, <3>2, <3>3, <4>1, Room
      <4> QED BY <2>7, <3>5, <4>2 DEF d
    <3> QED BY <2>9, <3>4, <3>5
  <2> HIDE DEF i, d, X
  <2>12. /\ Midway(z, q, w, M, N, ids) /\ Asks(z, y, g, y.slots[k].inst)
         /\ SameEntries(z, y) /\ z.ids = y.ids
         /\ More(z, y, k, y.groups[g].team, Cardinality(y.groups[g].players))
    BY <2>3, <2>4, <2>7, <2>8, <2>11, MidwayInvited
  <2>13. Cardinality(y.groups[g].players) = d BY <2>7 DEF d
  <2>14. /\ x.groups[g].team = "alliance" => Stage(z, x, k, f[m] + d, e[m])
         /\ x.groups[g].team = "horde" => Stage(z, x, k, f[m], e[m] + d)
    BY <1>1, <2>4, <2>5, <2>6, <2>7, <2>10, <2>12, <2>13, StageNext
  <2>15. Stage(z, x, k, f[m + 1], e[m + 1]) BY <2>9, <2>14
  <2> QED BY <2>1, <2>2, <2>12, <2>15 DEF X
<1> HIDE DEF X
<1>15. n \in X
  <2>1. 0..n \subseteq X BY <1>13, <1>14, UpTo
  <2> QED BY <2>1
<1>16. Midway(r, q, w, M, N, ids) /\ SameEntries(r, x) /\ r.ids = x.ids
  BY <1>7, <1>12, <1>15 DEF X, Stage
<1> QED BY <1>12, <1>16

-----------------------------------------------------------------------------
(* Fill.                                                                   *)

LEMMA FreeOf ==
    ASSUME NEW q \in QueueStates, NEW k \in 1..Len(q.slots), NEW t \in Team
    PROVE  /\ FreeSlots(q.slots[k], t) \in Nat /\ FreeSlots(q.slots[k], t) <= MaxPerTeam
           /\ q.slots[k].invited[t] <= MaxPerTeam =>
                  q.slots[k].invited[t] + FreeSlots(q.slots[k], t) <= MaxPerTeam
<1>1. q.slots[k].invited[t] \in Int /\ MaxPerTeam \in Nat
  BY QueueFields, QueueAssumption
<1>2. PICK n \in Int : n = q.slots[k].invited[t] BY <1>1
<1>3. \/ n \in 0..MaxPerTeam /\ FreeSlots(q.slots[k], t) = MaxPerTeam - n
      \/ FreeSlots(q.slots[k], t) = 0
  BY <1>2 DEF FreeSlots
<1> QED BY <1>1, <1>2, <1>3

LEMMA FilledRoomy ==
    ASSUME NEW q, NEW x, NEW w, NEW M, NEW N, NEW ids, Midway(x, q, w, M, N, ids),
           NEW k \in 1..Len(x.slots)
    PROVE  Roomy(FilledPools(x, k), x, w, k)
<1> DEFINE e == x.slots[k]
           L == [t \in Team |-> FreeSlots(e, t)]
           P == FilledPools(x, k)
<1>1. x \in QueueStates /\ SoundQueue(x) /\ Bounded(x, FreshOnes(w))
  BY DEF Midway, Balanced, SoundQueue
<1>2. L \in [Team -> Nat] /\ \A t \in Team : L[t] = FreeSlots(e, t) BY <1>1, FreeOf
<1> HIDE DEF L
<1>3. ASSUME NEW t \in Team
      PROVE  Pool(P[t], x, t, L[t])
  <2> DEFINE id == x.ids[e.inst]
             list == x.list[t]["normal"]
  <2>1. P[t] = Select(x, NoPool, list, L[t], L[t], id) BY <1>2 DEF FilledPools
  <2>2. list \in Seq({h \in 1..Len(x.groups) : x.groups[h].team = t})
    BY <1>1, ListOf DEF Kind
  <2>3. L[t] \in Nat /\ L[t] \in 0..L[t] BY <1>2
  <2>4. NoPool \in Pools(x, t, L[t]) BY <2>3, NoneSelected
  <2> HIDE DEF id, list, P
  <2>5. P[t] \in Pools(x, t, L[t]) BY <1>1, <2>1, <2>2, <2>3, <2>4, Selecting
  <2> QED BY <2>5 DEF Pools
<1>4. ASSUME NEW t \in Team, x.slots[k].inst \in FreshOnes(w)
      PROVE  x.slots[k].invited[t] + L[t] <= MaxPerTeam
  BY <1>1, <1>4, <1>2, FreeOf DEF Bounded
<1>5. "alliance" \in Team /\ "horde" \in Team BY DEF Team
<1> QED BY <1>2, <1>3, <1>4, <1>5 DEF Roomy

LEMMA FilledMidway ==
    ASSUME NEW q, NEW x, NEW w, NEW M, NEW N, NEW ids, Midway(x, q, w, M, N, ids),
           NEW k \in 1..Len(x.slots)
    PROVE  /\ Midway(FilledOne(x, k), q, w, M, N, ids)
           /\ SameEntries(FilledOne(x, k), x) /\ FilledOne(x, k).ids = x.ids
<1>1. HasFreeSlots(x.slots[k])
  BY DEF HasFreeSlots, Midway, Balanced, SoundQueue, Numbered
<1>2. FilledOne(x, k) = x \/ FilledOne(x, k) = InviteAll(x, FilledPools(x, k), k)
  BY <1>1 DEF FilledOne
<1>3. SameEntries(x, x) BY DEF SameEntries
<1>4. PICK y : y = InviteAll(x, FilledPools(x, k), k) OBVIOUS
<1>5. Midway(y, q, w, M, N, ids) /\ SameEntries(y, x) /\ y.ids = x.ids
  BY <1>4, FilledRoomy, InvitingAll
<1> QED BY <1>2, <1>3, <1>4, <1>5

\* No entry goes that has free slots.
LEMMA KeptAll ==
    ASSUME NEW q, SoundQueue(q)
    PROVE  Kept(q.slots) = q.slots
<1> DEFINE s == q.slots
           E == {s[k] : k \in 1..Len(s)}
           Q == Seq(E)
<1>1. s \in Seq(Slots) /\ Len(s) \in Nat BY QueueFields DEF SoundQueue
<1>2. s \in Seq(E) /\ <<>> \in Q BY <1>1
<1>3. \A x, y : y \in E => KeptOne(x, y) = Append(x, y)
  BY DEF HasFreeSlots, SoundQueue, Numbered, KeptOne
<1> HIDE DEF E, s
<1>4. \A x \in Q, y \in E : KeptOne(x, y) \in Q BY <1>3
<1> HIDE DEF Q
<1>5. PICK r, h : /\ r \in Q /\ Kept(s) = r
                  /\ h \in [0..Len(s) -> Q]
                  /\ h[0] = <<>> /\ h[Len(s)] = r
                  /\ \A n \in 1..Len(s) : h[n] = KeptOne(h[n - 1], s[n])
  BY <1>2, <1>4, KeptFold
<1>6. PICK l \in Nat : l = Len(s) BY <1>1
<1> DEFINE X == {n \in 0..l : Len(h[n]) = n /\ \A m \in 1..n : h[n][m] = s[m]}
<1>7. 0 \in X BY <1>5
<1>8. ASSUME NEW n \in 0..l, n \in X, n < l
      PROVE  n + 1 \in X
  <2>1. n + 1 \in 1..l /\ n + 1 \in 0..l /\ (n + 1) - 1 = n BY <1>8
  <2>2. s[n + 1] \in E /\ h[n] \in Seq(E) BY <1>2, <1>5, <1>6, <2>1 DEF Q
  <2>3. h[n + 1] = Append(h[n], s[n + 1]) BY <1>3, <1>5, <1>6, <2>1, <2>2
  <2>4. PICK a, b, c : a = h[n] /\ c = s[n + 1] /\ b = Append(a, c) OBVIOUS
  <2>5. /\ Len(b) = Len(a) + 1 /\ b[Len(a) + 1] = c
        /\ \A m \in 1..Len(a) : b[m] = a[m]
    BY <2>2, <2>4, Appended
  <2>6. h[n + 1] = b /\ Len(a) = n /\ \A m \in 1..n : a[m] = s[m] BY <1>8, <2>3, <2>4
  <2>7. \A m \in 1..(n + 1) : b[m] = s[m] BY <2>4, <2>5, <2>6
  <2> QED BY <2>1, <2>5, <2>6, <2>7
<1> HIDE DEF X
<1>9. l \in X BY <1>7, <1>8, UpTo
<1>10. r \in Seq(E) /\ Len(r) = Len(s) /\ \A m \in 1..Len(s) : r[m] = s[m]
  BY <1>5, <1>6, <1>9 DEF X, Q
<1>11. r = s BY <1>2, <1>10
<1> QED BY <1>5, <1>11 DEF s

LEMMA FillMidway ==
    ASSUME NEW q, NEW x, NEW w, NEW M, NEW N, NEW ids, Midway(x, q, w, M, N, ids)
    PROVE  Midway(Fill(x), q, w, M, N, ids) /\ Fill(x).ids = x.ids
<1> DEFINE Q == {y \in QueueStates : /\ Midway(y, q, w, M, N, ids)
                                     /\ Len(y.slots) = Len(x.slots) /\ y.ids = x.ids}
           E == 1..Len(x.slots)
<1>1. x \in Q BY DEF Midway, Progress
<1>2. \A y \in Q, k \in E : FilledOne(y, k) \in Q
  <2>1. ASSUME NEW y \in Q, NEW k \in E
        PROVE  FilledOne(y, k) \in Q
    <3>1. k \in 1..Len(y.slots) /\ Midway(y, q, w, M, N, ids) OBVIOUS
    <3>2. PICK z : z = FilledOne(y, k) OBVIOUS
    <3>3. Midway(z, q, w, M, N, ids) /\ SameEntries(z, y) /\ z.ids = y.ids
      BY <3>1, <3>2, FilledMidway
    <3>4. z \in QueueStates /\ Len(z.slots) = Len(y.slots)
      BY <3>3 DEF Midway, Progress, SameEntries
    <3> QED BY <3>2, <3>3, <3>4
  <2> QED BY <2>1
<1>3. Order(x) \in Seq(E) BY QueueFields DEF Midway, Progress, Order
<1> HIDE DEF Q, E
<1>4. PICK r \in Q : Fill(x) = KeptOf(r) BY <1>1, <1>2, <1>3, FillFold
<1>5. r \in QueueStates /\ Midway(r, q, w, M, N, ids) /\ r.ids = x.ids BY <1>4 DEF Q
<1>6. Kept(r.slots) = r.slots BY <1>5, KeptAll DEF Midway, Balanced
<1>7. KeptOf(r) = r BY <1>5, <1>6 DEF KeptOf, QueueStates
<1> QED BY <1>4, <1>5, <1>7

-----------------------------------------------------------------------------
(* The pools of a new battleground, and MovePremade.                       *)

LEMMA TwoTeams ==
    /\ Team = {"alliance", "horde"} /\ "alliance" \in Team /\ "horde" \in Team
    /\ Kind = {"premade", "normal"} /\ "premade" \in Kind /\ "normal" \in Kind
    /\ MinPerTeam \in Nat /\ MaxPerTeam \in Nat /\ 1 <= MinPerTeam /\ 1 <= MaxPerTeam
    /\ MinPerTeam <= MaxPerTeam
BY QueueAssumption DEF Team, Kind

\* Pools that are for no more than one team each.
Ready(pools, x) == \A t \in Team : pools[t] \in Pools(x, t, MaxPerTeam)

LEMMA NormalReady ==
    ASSUME NEW x, SoundQueue(x)
    PROVE  Ready(NormalPools(x), x)
<1> DEFINE P == NormalPools(x)
<1>1. ASSUME NEW t \in Team
      PROVE  P[t] \in Pools(x, t, MaxPerTeam)
  <2>1. P[t] = Select(x, NoPool, x.list[t]["normal"], MaxPerTeam, MinPerTeam, 0)
    BY DEF NormalPools
  <2>2. x.list[t]["normal"] \in Seq({h \in 1..Len(x.groups) : x.groups[h].team = t})
    BY TwoTeams, ListOf
  <2>3. x \in QueueStates /\ MaxPerTeam \in Nat /\ MaxPerTeam \in 0..MaxPerTeam
    BY TwoTeams DEF SoundQueue
  <2>4. NoPool \in Pools(x, t, MaxPerTeam) BY <2>3, NoneSelected
  <2> HIDE DEF P
  <2> QED BY <2>1, <2>2, <2>3, <2>4, Selecting
<1> QED BY <1>1 DEF Ready

LEMMA PremadeReady ==
    ASSUME NEW x, SoundQueue(x), \A t \in Team : FirstPremade(x, t) # 0
    PROVE  Ready(PremadePools(x), x)
<1> DEFINE first == [t \in Team |->
               Select(x, NoPool, <<x.list[t]["premade"][FirstPremade(x, t)]>>,
                      MaxPerTeam, MaxPerTeam, 0)]
           size == Max({first[t].n : t \in Team})
           P == PremadePools(x)
<1>1. x \in QueueStates /\ MaxPerTeam \in Nat /\ MaxPerTeam \in 0..MaxPerTeam
  BY TwoTeams DEF SoundQueue
<1>2. ASSUME NEW t \in Team
      PROVE  first[t] \in Pools(x, t, MaxPerTeam)
  <2> DEFINE G == {h \in 1..Len(x.groups) : x.groups[h].team = t}
  <2>1. x.list[t]["premade"] \in Seq(G) BY TwoTeams, ListOf
  <2>2. FirstPremade(x, t) \in 1..Len(x.list[t]["premade"]) BY <2>1, PremadeFound
  <2>3. PICK g : g = x.list[t]["premade"][FirstPremade(x, t)] OBVIOUS
  <2>4. g \in G BY <2>1, <2>2, <2>3
  <2>5. <<g>> \in Seq(G) BY <2>4
  <2>6. NoPool \in Pools(x, t, MaxPerTeam) BY <1>1, NoneSelected
  <2>7. first[t] = Select(x, NoPool, <<g>>, MaxPerTeam, MaxPerTeam, 0) BY <2>3
  <2> HIDE DEF first
  <2> QED BY <1>1, <2>5, <2>6, <2>7, Selecting
<1> HIDE DEF first
<1>3. size \in 0..MaxPerTeam
  <2>1. \A t \in Team : first[t].n \in 0..MaxPerTeam BY <1>2 DEF Pools
  <2>2. PICK a, b : a = first["alliance"].n /\ b = first["horde"].n OBVIOUS
  <2>3. a \in 0..MaxPerTeam /\ b \in 0..MaxPerTeam BY <2>1, <2>2, TwoTeams
  <2>4. {first[t].n : t \in Team} = {a, b} BY <2>2, TwoTeams
  <2>5. Max({a, b}) \in {a, b} BY <1>1, <2>3 DEF Max
  <2> QED BY <2>3, <2>4, <2>5
<1> HIDE DEF size
<1>4. ASSUME NEW t \in Team
      PROVE  P[t] \in Pools(x, t, MaxPerTeam)
  BY TwoTeams, ListOf, <1>2, <1>1, <1>3, Selecting DEF PremadePools, size, first
<1> QED BY <1>4 DEF Ready

LEMMA ReadyRoomy ==
    ASSUME NEW x, NEW pools, Ready(pools, x), NEW w, NEW k,
           \A t \in Team : x.slots[k].invited[t] = 0
    PROVE  Roomy(pools, x, w, k)
<1>1. PICK L : L = [t \in Team |-> MaxPerTeam] OBVIOUS
<1>2. L \in [Team -> Nat] /\ \A t \in Team : L[t] = MaxPerTeam BY <1>1, TwoTeams
<1>3. \A t \in Team : Pool(pools[t], x, t, L[t]) BY <1>2 DEF Ready, Pools
<1>4. \A t \in Team : x.slots[k].invited[t] + L[t] <= MaxPerTeam BY <1>2, TwoTeams
<1> QED BY <1>2, <1>3, <1>4, TwoTeams DEF Roomy

\* Other lists, of the same groups.
LEMMA ListsMidway ==
    ASSUME NEW q, NEW x, NEW w, NEW M, NEW N, NEW ids, Midway(x, q, w, M, N, ids),
           NEW list \in [Team -> [Kind -> Seq(Gid)]],
           \A t \in Team, kind \in Kind : \A n \in 1..Len(list[t][kind]) :
               list[t][kind][n] \in {h \in 1..Len(x.groups) : x.groups[h].team = t}
    PROVE  Midway([x EXCEPT !.list = list], q, w, M, N, ids)
<1> DEFINE y == [x EXCEPT !.list = list]
<1>1. /\ x \in QueueStates /\ Balanced(x, FreshOnes(w), Present(w, M)) /\ Progress(x, q)
  BY DEF Midway, Progress
<1>2. /\ y \in QueueStates /\ y.list = list /\ y.groups = x.groups /\ y.of = x.of
      /\ y.slots = x.slots /\ y.ids = x.ids /\ y.sent = x.sent
  BY <1>1 DEF QueueStates
<1> HIDE DEF y
<1>3. SoundQueue(y)
  BY <1>1, <1>2 DEF Balanced, SoundQueue, Grouped, Queued, OneTeam, Numbered
<1>4. \A i, t : Places(y, Present(w, M), i, t) = Places(x, Present(w, M), i, t)
  BY <1>2 DEF Places
<1>5. \A i : Single(x, i) => Single(y, i) BY <1>2 DEF Single
<1>6. Balanced(y, FreshOnes(w), Present(w, M))
  BY <1>1, <1>2, <1>5, <1>4, <1>3 DEF Balanced, Singles, Covered, Bounded
<1>7. Progress(y, q) BY <1>2, <1>1 DEF Calling, Progress
<1>8. SameEntries(y, x) BY <1>2 DEF SameEntries
<1>9. \A i \in 1..Len(y.ids) : Phase(y, w, N, i) BY <1>2, <1>8, PhaseSame DEF Midway
<1>10. Midway(y, q, w, M, N, ids) BY <1>2, <1>6, <1>7, <1>9 DEF Midway
<1> QED BY <1>10 DEF y

LEMMA MoveMidway ==
    ASSUME NEW q, NEW x, NEW w, NEW M, NEW N, NEW ids, Midway(x, q, w, M, N, ids), NEW late
    PROVE  Midway(MovePremade(x, late), q, w, M, N, ids) /\ MovePremade(x, late).ids = x.ids
<1> DEFINE from(t) == x.list[t]["premade"]
           moves(t) ==
               /\ from(t) # <<>>
               /\ LET group == x.groups[Head(from(t))] IN
                  group.invited = 0 /\ (late \/ Cardinality(group.players) < MinPerTeam)
           moved(t) == [premade |-> Tail(from(t)), normal |-> <<Head(from(t))>> \o x.list[t]["normal"]]
           list == [t \in Team |-> IF moves(t) THEN moved(t) ELSE x.list[t]]
<1>1. MovePremade(x, late) = [x EXCEPT !.list = list] BY DEF MovePremade
<1>2. x \in QueueStates /\ SoundQueue(x) /\ x.list \in [Team -> [Kind -> Seq(Gid)]]
  BY QueueFields DEF Midway, Balanced, SoundQueue
<1>3. ASSUME NEW t \in Team
      PROVE  /\ list[t] \in [Kind -> Seq(Gid)]
             /\ \A kind \in Kind : list[t][kind] \in Seq({h \in 1..Len(x.groups) : x.groups[h].team = t})
  <2> DEFINE G == {h \in 1..Len(x.groups) : x.groups[h].team = t}
  <2>1. \A kind \in Kind : x.list[t][kind] \in Seq(G) BY <1>2, ListOf
  <2>2. Len(x.groups) \in Nat BY <1>2, QueueFields
  <2>g. G \subseteq Gid BY <2>2 DEF Gid
  <2> HIDE DEF G
  <2>3. CASE moves(t)
    <3>1. PICK a, b : a = x.list[t]["premade"] /\ b = x.list[t]["normal"] OBVIOUS
    <3>2. a \in Seq(G) /\ b \in Seq(G) /\ a # <<>> BY <2>1, <2>3, <3>1, TwoTeams
    <3>3. Tail(a) \in Seq(G) /\ Head(a) \in G BY <3>2
    <3>4. PICK g : g = Head(a) OBVIOUS
    <3>5. <<g>> \o b \in Seq(G) BY <3>3, <3>4, <3>2
    <3>6. PICK u, v : u = Tail(a) /\ v = <<g>> \o b OBVIOUS
    <3>7. list[t] = [premade |-> u, normal |-> v] BY <2>3, <3>1, <3>4, <3>6
    <3>8. u \in Seq(G) /\ v \in Seq(G) /\ u \in Seq(Gid) /\ v \in Seq(Gid)
      BY <2>g, <3>3, <3>5, <3>6
    <3> HIDE DEF list
    <3> QED BY <3>7, <3>8 DEF Kind, G
  <2>4. CASE ~moves(t) BY <2>4, <1>2, <2>1, Zenon DEF G
  <2> QED BY <2>3, <2>4, Zenon
<1>4. list \in [Team -> [Kind -> Seq(Gid)]] BY <1>3
<1> HIDE DEF list
<1>5. \A t \in Team, kind \in Kind : \A n \in 1..Len(list[t][kind]) :
          list[t][kind][n] \in {h \in 1..Len(x.groups) : x.groups[h].team = t}
  <2>1. ASSUME NEW t \in Team, NEW kind \in Kind
        PROVE  \A n \in 1..Len(list[t][kind]) :
                   list[t][kind][n] \in {h \in 1..Len(x.groups) : x.groups[h].team = t}
    <3>1. PICK G : G = {h \in 1..Len(x.groups) : x.groups[h].team = t} OBVIOUS
    <3>2. PICK a \in Seq(G) : a = list[t][kind] BY <1>3, <3>1
    <3>3. \A n \in 1..Len(a) : a[n] \in G OBVIOUS
    <3> QED BY <3>1, <3>2, <3>3
  <2> QED BY <2>1
<1>6. [x EXCEPT !.list = list].ids = x.ids BY <1>2 DEF QueueStates
<1> QED BY <1>1, <1>4, <1>5, <1>6, ListsMidway

-----------------------------------------------------------------------------
(* CreateBattleGround.                                                     *)

\* q with the number of a new battleground, and its entry.
Opened(q) ==
    [q EXCEPT !.ids = Append(@, ClientId(q)),
              !.slots = <<[inst |-> Len(q.ids) + 1, status |-> "none", inside |-> 0,
                           invited |-> [t \in Team |-> 0]]>> \o @]

\* No player is in an instance of which the world has not heard.
LEMMA NobodyThere ==
    ASSUME NEW w, WorldSound(w), NEW M, NEW a, a \in Seq(WorldMessages), NEW ids,
           M \in Seq(WorldMessages),
           Announced(Len(w.bg), ids, M \o a), NEW i \in Inst, i > ids, NEW p
    PROVE  <<i, p>> \notin Present(w, M)
<1>1. /\ Len(w.bg) \in Nat /\ ids \in Nat /\ Len(w.bg) <= ids /\ i \in Nat
      /\ Foretold(Len(w.bg), ids, M \o a) /\ Known(Len(w.bg), M \o a)
  BY DEF Announced, Inst
<1>2. PICK K \in Seq(WorldMessages), b \in Seq(WorldMessages) : K = M /\ b = a OBVIOUS
<1>3. PICK L : L = K \o b OBVIOUS
<1>4. \A n \in 1..Len(K) : n \in 1..Len(L) /\ L[n] = K[n] BY <1>3, Concatenated
<1>5. Foretold(Len(w.bg), ids, L) /\ Known(Len(w.bg), L) BY <1>1, <1>2, <1>3, Zenon
<1>6. ASSUME NEW n \in 1..Len(M), Enter(M[n], i, p)
      PROVE  FALSE
  <2>1. n \in 1..Len(L) /\ L[n].op = "enter" /\ L[n].inst = i
    BY <1>2, <1>4, <1>6 DEF Enter
  <2>2. i <= Len(w.bg) \/ \E m \in 1..Len(L) : L[m].op = "create" /\ L[m].inst = i
    BY <1>5, <2>1 DEF Known
  <2>3. i <= Len(w.bg) \/ i \in (Len(w.bg) + 1)..ids BY <1>5, <2>2 DEF Foretold
  <2> QED BY <1>1, <2>3
<1>7. p \in Player => w.player[p].bgId # i BY <1>1 DEF WorldSound
<1>8. ~(i <= Len(w.bg)) BY <1>1
<1> QED BY <1>6, <1>7, <1>8 DEF Present

LEMMA NewEntry ==
    ASSUME NEW q \in QueueStates
    PROVE  LET r == Opened(q)
               e == [inst |-> Len(q.ids) + 1, status |-> "none", inside |-> 0,
                     invited |-> [t \in Team |-> 0]]
           IN  /\ r \in QueueStates /\ r.groups = q.groups /\ r.list = q.list /\ r.of = q.of
               /\ r.sent = q.sent /\ Len(r.ids) = Len(q.ids) + 1 /\ e \in Slots
               /\ e.inst = Len(q.ids) + 1 /\ e.inside = 0 /\ \A t \in Team : e.invited[t] = 0
               /\ Fronted(r, q, e)
<1> DEFINE e == [inst |-> Len(q.ids) + 1, status |-> "none", inside |-> 0,
                 invited |-> [t \in Team |-> 0]]
           ids == Append(q.ids, ClientId(q))
           slots == <<e>> \o q.slots
           r == [q EXCEPT !.ids = ids, !.slots = slots]
<1>1. r = Opened(q) BY DEF Opened
<1>2. q.ids \in Seq(Nat) /\ Len(q.ids) \in Nat /\ q.slots \in Seq(Slots) BY QueueFields
<1>3. /\ e \in Slots
      /\ e.inst = Len(q.ids) + 1 /\ e.inside = 0 /\ \A t \in Team : e.invited[t] = 0
  BY <1>2 DEF Inst, Invited, Status, Slots
<1>4. ids \in Seq(Nat) /\ Len(ids) = Len(q.ids) + 1 BY <1>2, Appended DEF ClientId
<1> HIDE DEF e, ids
<1>5. slots \in Seq(Slots) BY <1>2, <1>3, Inserted
<1> HIDE DEF slots
<1>6. /\ r \in QueueStates /\ r.groups = q.groups /\ r.list = q.list /\ r.of = q.of
      /\ r.sent = q.sent /\ r.ids = ids /\ r.slots = slots
  BY <1>4, <1>5 DEF QueueStates
<1> HIDE DEF r
<1>7. Fronted(r, q, e) BY <1>6, <1>3, Fronting DEF slots
<1> QED BY <1>1, <1>3, <1>4, <1>6, <1>7 DEF e

LEMMA OpenedBalanced ==
    ASSUME NEW q, NEW F \in SUBSET Inst, NEW H, Balanced(q, F, H), NEW r, r = Opened(q),
           \A p : <<Len(q.ids) + 1, p>> \notin H
    PROVE  Balanced(r, F, H)
<1>1. /\ q \in QueueStates /\ SoundQueue(q) /\ Singles(q, F) /\ Covered(q, F, H)
      /\ Bounded(q, F) /\ Len(q.ids) \in Nat
  BY QueueFields DEF Balanced, SoundQueue
<1>2. PICK i \in Nat : i = Len(q.ids) + 1 BY <1>1
<1>3. PICK e \in Slots :
          /\ r \in QueueStates /\ r.groups = q.groups /\ r.list = q.list /\ r.of = q.of
          /\ Len(r.ids) = Len(q.ids) + 1
          /\ e.inst = i /\ e.inside = 0 /\ \A t \in Team : e.invited[t] = 0
          /\ Fronted(r, q, e)
  BY <1>1, <1>2, NewEntry
<1>4. \A n \in 1..Len(r.slots) : \/ n = 1 /\ r.slots[n] = e
                                 \/ n - 1 \in 1..Len(q.slots) /\ r.slots[n] = q.slots[n - 1]
  BY <1>3 DEF Fronted
<1>5. SoundQueue(r)
  <2>1. Numbered(r)
    <3>1. 0 < 2 * MaxPerTeam BY TwoTeams
    <3>2. \A k \in 1..Len(q.slots) :
              q.slots[k].inst <= Len(r.ids) /\ q.slots[k].inside < 2 * MaxPerTeam
      BY <1>1, <1>3, QueueFields DEF SoundQueue, Numbered, Inst
    <3>3. e.inst <= Len(r.ids) /\ e.inside < 2 * MaxPerTeam BY <1>2, <1>3, <3>1
    <3> QED BY <1>4, <3>2, <3>3 DEF Numbered
  <2>2. OneTeam(r) BY <1>1, QueueFields, <1>3 DEF SoundQueue, OneTeam
  <2>3. Grouped(r) /\ Queued(r) BY <1>1, <1>3 DEF SoundQueue, Grouped, Queued
  <2> QED BY <1>3, <2>1, <2>2, <2>3 DEF SoundQueue
<1>6. Singles(r, F)
  <2>1. \A k \in 1..Len(q.slots) : q.slots[k].inst # i
    BY <1>1, <1>2, QueueFields DEF SoundQueue, Numbered, Inst
  <2>2. Single(r, i) BY <1>3, <2>1, FrontedEntries
  <2>3. ASSUME NEW j \in F, j \in 1..Len(r.ids), j # i
        PROVE  Single(r, j)
    BY <1>1, <1>2, <1>3, <2>3, FrontedEntries DEF Singles
  <2> QED BY <2>2, <2>3 DEF Singles
<1>7. \A j, t : Places(r, H, j, t) = Places(q, H, j, t) BY <1>3 DEF Places
<1>8. \A t \in Team : Places(r, H, i, t) = {}
  <2>1. ASSUME NEW t \in Team, NEW x \in Places(q, H, i, t)
        PROVE  FALSE
    BY <1>1, <1>2, <2>1 DEF SoundQueue, OneTeam, Places
  <2> QED BY <1>7, <2>1
<1>9. ASSUME NEW n \in 1..Len(r.slots), NEW t \in Team, r.slots[n].inst \in F
      PROVE  /\ Cardinality(Places(r, H, r.slots[n].inst, t)) <= r.slots[n].invited[t]
             /\ r.slots[n].invited[t] <= MaxPerTeam
  <2>1. CASE n = 1 /\ r.slots[n] = e
    <3>1. Places(r, H, r.slots[n].inst, t) = {} /\ r.slots[n].invited[t] = 0
      BY <1>3, <1>8, <2>1
    <3>2. Cardinality({}) = 0 BY FS_EmptySet
    <3> QED BY <3>1, <3>2, TwoTeams
  <2>2. CASE n - 1 \in 1..Len(q.slots) /\ r.slots[n] = q.slots[n - 1]
    BY <2>2, <1>1, <1>7, <1>9 DEF Covered, Bounded
  <2> QED BY <1>4, <2>1, <2>2
<1>10. Covered(r, F, H) /\ Bounded(r, F) BY <1>9 DEF Covered, Bounded
<1> QED BY <1>5, <1>6, <1>10 DEF Balanced

\* The battleground numbered last has its entry in front, and no invitations.
Begun(r, x) ==
    /\ Len(r.ids) = Len(x.ids) + 1
    /\ 1 \in 1..Len(r.slots) /\ r.slots[1].inst = Len(r.ids)
    /\ \A t \in Team : r.slots[1].invited[t] = 0

LEMMA OpenedMidway ==
    ASSUME NEW q, NEW x, NEW w, NEW M, NEW N, Midway(x, q, w, M, N, Len(x.ids)),
           WorldSound(w), QueueNews(w, N), NEW r, r = Opened(x)
    PROVE  Midway(r, q, w, M, N, Len(x.ids)) /\ Begun(r, x)
<1>1. /\ x \in QueueStates /\ Len(x.ids) \in Nat /\ Progress(x, q) /\ SoundQueue(x)
      /\ Balanced(x, FreshOnes(w), Present(w, M)) /\ M \in Seq(WorldMessages)
      /\ Announced(Len(w.bg), Len(x.ids), M \o x.sent)
      /\ \A i \in 1..Len(x.ids) : Phase(x, w, N, i)
  BY QueueFields DEF Midway, Progress, Balanced
<1>2. PICK i \in Inst : i = Len(x.ids) + 1 BY <1>1 DEF Inst
<1>3. PICK e \in Slots :
          /\ r \in QueueStates /\ r.groups = x.groups /\ r.list = x.list /\ r.of = x.of
          /\ r.sent = x.sent /\ Len(r.ids) = Len(x.ids) + 1
          /\ e.inst = i /\ \A t \in Team : e.invited[t] = 0
          /\ Fronted(r, x, e)
  BY <1>1, <1>2, NewEntry
<1>4. Balanced(r, FreshOnes(w), Present(w, M))
  <2>1. i > Len(x.ids) /\ x.sent \in Seq(WorldMessages) BY <1>1, <1>2, QueueFields
  <2>2. \A p : <<Len(x.ids) + 1, p>> \notin Present(w, M)
    BY <1>1, <1>2, <2>1, NobodyThere
  <2>3. FreshOnes(w) \in SUBSET Inst BY DEF FreshOnes
  <2> QED BY <1>1, <2>2, <2>3, OpenedBalanced
<1>5. ASSUME NEW j \in 1..Len(r.ids)
      PROVE  Phase(r, w, N, j)
  <2>1. CASE j = i
    <3>1. \A k \in 1..Len(x.slots) : x.slots[k].inst # i
      BY <1>1, <1>2 DEF SoundQueue, Numbered
    <3>2. Single(r, i) BY <1>3, <3>1, FrontedEntries
    <3>3. Len(w.bg) \in Nat /\ ~(i <= Len(w.bg)) BY <1>1, <1>2 DEF Announced
    <3>4. NoAdd(N, i) /\ NoDrop(N, i) /\ ~Lists(w, i)
      BY <3>3 DEF NoAdd, NoDrop, IsAdd, IsDrop, QueueNews, Lists
    <3> QED BY <2>1, <3>2, <3>4 DEF Phase
  <2>2. CASE j # i BY <1>1, <1>2, <1>3, <2>2, FrontedEntries DEF Phase
  <2> QED BY <2>1, <2>2
<1>6. Progress(r, q)
  <2>1. \A m : Calling(m, x, q) => Calling(m, r, q) BY <1>3 DEF Calling
  <2> QED BY <1>1, <1>3, <2>1 DEF Progress
<1>7. Midway(r, q, w, M, N, Len(x.ids)) BY <1>1, <1>3, <1>4, <1>5, <1>6 DEF Midway
<1> QED BY <1>2, <1>3, <1>7 DEF Fronted, Begun

\* The world hears of the next battleground.
LEMMA SaidCreate ==
    ASSUME NEW bgs, NEW ids, NEW M, M \in Seq(WorldMessages), NEW a, a \in Seq(WorldMessages),
           Announced(bgs, ids, M \o a), NEW m \in WorldMessages, m.op = "create",
           m.inst = ids + 1
    PROVE  Announced(bgs, ids + 1, M \o Append(a, m))
<1>1. PICK K \in Seq(WorldMessages), b \in Seq(WorldMessages) : K = M /\ b = a OBVIOUS
<1>2. PICK y : y = K \o b OBVIOUS
<1>3. Follows(Append(y, m), K, Append(b, m))
  <2>1. Follows(y, K, b) BY <1>2 DEF Follows
  <2> QED BY <2>1, FollowsMore
<1>4. Announced(bgs, ids, y) BY <1>1, <1>2, Zenon
<1>5. Announced(bgs, ids + 1, Append(y, m)) BY <1>4, AnnouncedCreate
<1> QED BY <1>1, <1>3, <1>5, Zenon DEF Follows

LEMMA CreateSaid ==
    ASSUME NEW q, NEW x, NEW w, NEW M, NEW N, NEW ids, Midway(x, q, w, M, N, ids),
           NEW m \in WorldMessages, m.op = "create", m.inst = ids + 1
    PROVE  Midway(Tell(x, m), q, w, M, N, ids + 1) /\ Tell(x, m).ids = x.ids
<1> DEFINE r == Tell(x, m)
<1>1. x \in QueueStates /\ x.sent \in Seq(WorldMessages)
  BY QueueFields DEF Midway, Progress
<1>2. /\ r \in QueueStates /\ r.groups = x.groups /\ r.list = x.list /\ r.of = x.of
      /\ r.slots = x.slots /\ r.ids = x.ids /\ r.sent = Append(x.sent, m)
  BY <1>1, Telling
<1> HIDE DEF r
<1>3. Balanced(r, FreshOnes(w), Present(w, M)) BY <1>1, <1>2, SameBalanced DEF Midway
<1>4. Announced(Len(w.bg), ids + 1, M \o r.sent) BY <1>1, <1>2, SaidCreate DEF Midway
<1>5. SameEntries(r, x) BY <1>2 DEF SameEntries
<1>6. \A i \in 1..Len(r.ids) : Phase(r, w, N, i) BY <1>2, <1>5, PhaseSame DEF Midway
<1>7. Progress(r, q)
  <2>1. PICK s : s = Append(x.sent, m) OBVIOUS
  <2>2. /\ Len(s) = Len(x.sent) + 1 /\ Len(x.sent) \in Nat /\ s[Len(x.sent) + 1] = m
        /\ \A n \in 1..Len(x.sent) : s[n] = x.sent[n]
    BY <1>1, <2>1, Appended
  <2>3. /\ \A n \in 1..Len(x.sent) : n \in 1..Len(s) /\ s[n] = x.sent[n]
        /\ \A n \in 1..Len(s) : (n \in 1..Len(x.sent) /\ s[n] = x.sent[n]) \/ s[n] = m
    BY <2>2
  <2>4. \A p, g : Called(x.sent, p, g) => Called(s, p, g) BY <2>3 DEF Called
  <2>5. \A n \in 1..Len(s) : Calling(s[n], r, q)
    BY <1>2, <2>3 DEF Midway, Progress, Calling
  <2>6. Progress(x, q) BY DEF Midway
  <2>7. r.sent = s BY <1>2, <2>1
  <2>8. /\ r.of = q.of /\ Len(r.groups) = Len(q.groups) /\ Len(q.groups) \in Nat
    BY <1>2, <2>6 DEF Progress
  <2>9. \A g \in 1..Len(q.groups) :
           /\ r.groups[g].players = q.groups[g].players /\ r.groups[g].team = q.groups[g].team
           /\ \/ r.groups[g].invited = q.groups[g].invited
              \/ /\ q.groups[g].invited = 0
                 /\ \A p \in q.groups[g].players : Called(s, p, g)
    BY <1>2, <2>4, <2>6 DEF Progress
  <2> QED BY <1>2, <2>5, <2>7, <2>8, <2>9 DEF Progress
<1>8. M \in Seq(WorldMessages) BY DEF Midway
<1> QED BY <1>2, <1>3, <1>4, <1>6, <1>7, <1>8 DEF Midway, r

LEMMA CreateMidway ==
    ASSUME NEW q, NEW x, NEW w, NEW M, NEW N, Midway(x, q, w, M, N, Len(x.ids)),
           WorldSound(w), QueueNews(w, N), NEW pools, Ready(pools, x)
    PROVE  LET r == CreateBattleGround(x, pools) IN Midway(r, q, w, M, N, Len(r.ids))
<1>0. Midway(x, q, w, M, N, Len(x.ids)) /\ WorldSound(w) /\ QueueNews(w, N) OBVIOUS
<1>1. PICK a : a = Opened(x) OBVIOUS
<1>b. Midway(a, q, w, M, N, Len(x.ids)) /\ Begun(a, x) BY ONLY <1>0, <1>1, OpenedMidway
<1>2. /\ Midway(a, q, w, M, N, Len(x.ids)) /\ Len(a.ids) = Len(x.ids) + 1
      /\ 1 \in 1..Len(a.slots) /\ a.slots[1].inst = Len(a.ids)
      /\ \A t \in Team : a.slots[1].invited[t] = 0
  BY <1>b DEF Begun
<1>3. Ready(pools, a)
  <2>1. a.groups = x.groups BY <1>1, NewEntry DEF Midway, Progress
  <2>2. \A t : Able(a, t) = Able(x, t) BY <2>1 DEF Able
  <2>3. \A f, s, L : Sums(f, s, x, L) <=> Sums(f, s, a, L) BY <2>1 DEF Sums
  <2>4. \A s, L, n : Counted(s, x, L, n) <=> Counted(s, a, L, n) BY <2>3 DEF Counted
  <2>5. \A t, L : Pools(x, t, L) = Pools(a, t, L) BY <2>2, <2>4 DEF Pools, Pool
  <2> QED BY <2>5 DEF Ready
<1>4. PICK b : b = InviteAll(a, pools, 1) OBVIOUS
<1>5. Midway(b, q, w, M, N, Len(x.ids)) /\ SameEntries(b, a) /\ b.ids = a.ids
  BY <1>2, <1>3, <1>4, ReadyRoomy, InvitingAll
<1> DEFINE m == [op |-> "create", inst |-> Len(x.ids) + 1, invited |-> b.slots[1].invited]
<1>6. m \in WorldMessages /\ m.op = "create" /\ m.inst = Len(x.ids) + 1
  BY <1>2, <1>5, QueueFields DEF Midway, Progress, SameEntries, Inst, WorldMessages
<1>7. CreateBattleGround(x, pools) = Tell(b, m)
  BY <1>1, <1>4 DEF CreateBattleGround, Opened
<1> HIDE DEF m
<1>8. Midway(Tell(b, m), q, w, M, N, Len(x.ids) + 1) /\ Tell(b, m).ids = b.ids
  BY <1>5, <1>6, CreateSaid
<1> QED BY <1>2, <1>5, <1>7, <1>8

-----------------------------------------------------------------------------
(* An update.                                                              *)

LEMMA UpdateMidway ==
    ASSUME NEW q, NEW w, NEW M, NEW N, Midway(q, q, w, M, N, Len(q.ids)),
           WorldSound(w), QueueNews(w, N), NEW late
    PROVE  LET r == Updated(q, late) IN Midway(r, q, w, M, N, Len(r.ids))
<1>1. PICK f : f = Fill(q) OBVIOUS
<1>2. Midway(f, q, w, M, N, Len(f.ids)) BY <1>1, FillMidway
<1>3. PICK p : p = IF \A t \in Team : FirstPremade(f, t) # 0
                   THEN CreateBattleGround(f, PremadePools(f)) ELSE MovePremade(f, late)
  OBVIOUS
<1>4. Midway(p, q, w, M, N, Len(p.ids))
  BY <1>2, PremadeReady, <1>3, CreateMidway, MoveMidway DEF Midway, Balanced
<1>5. PICK c : c = CreateBattleGround(p, NormalPools(p)) OBVIOUS
<1>6. Midway(c, q, w, M, N, Len(c.ids))
  BY <1>4, NormalReady, <1>5, CreateMidway DEF Midway, Balanced
<1>7. Updated(q, late) \in {q, p, c} BY <1>1, <1>3, <1>5 DEF Updated
<1> QED BY <1>4, <1>6, <1>7

\* An update keeps what holds, and calls who is invited.
LEMMA QueueUpdates ==
    ASSUME NEW q, NEW w, NEW M, NEW N, Agreed(q, w, M, N), q.sent = <<>>, NEW late
    PROVE  LET r == [Updated(q, late) EXCEPT !.scheduled = FALSE] IN
           Agreed(r, w, M \o r.sent, N) /\ r.sent \in Seq(WorldMessages) /\ Progress(r, q)
<1>1. /\ q \in QueueStates /\ Balanced(q, FreshOnes(w), Present(w, M)) /\ WorldSound(w)
      /\ Announced(Len(w.bg), Len(q.ids), M) /\ M \in Seq(WorldMessages)
      /\ N \in Seq(QueueMessages) /\ QueueNews(w, N)
      /\ \A i \in 1..Len(q.ids) : Phase(q, w, N, i)
  BY DEF Agreed, Balanced, SoundQueue, Announced
<1>2. Progress(q, q) BY <1>1, QueueFields DEF Progress
<1>3. M \o q.sent = M BY <1>1
<1>4. Midway(q, q, w, M, N, Len(q.ids)) BY <1>1, <1>2, <1>3 DEF Midway
<1>5. PICK u : u = Updated(q, late) OBVIOUS
<1>6. Midway(u, q, w, M, N, Len(u.ids)) BY <1>1, <1>4, <1>5, UpdateMidway
<1>7. u \in QueueStates /\ Progress(u, q) BY <1>6 DEF Midway, Progress
<1>8. PICK r : r = [u EXCEPT !.scheduled = FALSE] OBVIOUS
<1>9. Alike(r, u) /\ r.sent = u.sent BY <1>7, <1>8 DEF QueueStates, Alike
<1>10. Progress(r, q) BY <1>9, <1>7 DEF Calling, Alike, Progress
<1>11. r.sent \in Seq(WorldMessages) BY <1>9, QueueFields DEF Alike
<1>12. Balanced(r, FreshOnes(w), Present(w, M)) BY <1>6, <1>9, AlikeParts DEF Midway
<1>13. Present(w, M \o r.sent) \subseteq Present(w, M)
  <2>1. PICK K \in Seq(WorldMessages), s \in Seq(WorldMessages) : K = M /\ s = r.sent
    BY <1>1, <1>11
  <2>2. PICK L : L = K \o s OBVIOUS
  <2>3. \A n \in 1..Len(L) : \/ n \in 1..Len(K) /\ L[n] = K[n]
                             \/ n - Len(K) \in 1..Len(s) /\ L[n] = s[n - Len(K)]
    BY <2>2, Concatenated
  <2>4. \A n \in 1..Len(s) : s[n].op # "enter" BY <1>10, <2>1 DEF Progress, Calling
  <2>5. \A n \in 1..Len(L) : \A i, p : Enter(L[n], i, p) => \E m \in 1..Len(K) : Enter(K[m], i, p)
    BY <2>3, <2>4 DEF Enter
  <2>6. Present(w, L) \subseteq Present(w, K) BY <2>5 DEF Present
  <2> QED BY <2>1, <2>2, <2>6, Zenon
<1>14. Balanced(r, FreshOnes(w), Present(w, M \o r.sent)) BY <1>12, <1>13, LessBalanced
<1>15. Announced(Len(w.bg), Len(r.ids), M \o r.sent) BY <1>6, <1>9 DEF Midway, Alike
<1>16. \A i \in 1..Len(r.ids) : Phase(r, w, N, i)
  BY <1>9, <1>6, PhaseSame DEF SameEntries, Alike, Midway
<1>17. Agreed(r, w, M \o r.sent, N) BY <1>1, <1>14, <1>15, <1>16 DEF Agreed
<1> QED BY <1>5, <1>8, <1>10, <1>11, <1>17

-----------------------------------------------------------------------------
(* The state of the world.                                                 *)

LEMMA WorldFields ==
    ASSUME NEW w \in WorldStates
    PROVE  /\ w.player \in [Player -> Players] /\ w.bg \in Seq(Battlegrounds)
           /\ w.sent \in Seq(QueueMessages) /\ Len(w.bg) \in Nat
           /\ \A p \in Player :
                  /\ w.player[p] \in Players
                  /\ w.player[p].online \in BOOLEAN /\ w.player[p].queued \in BOOLEAN
                  /\ w.player[p].invite \in Nat /\ w.player[p].bgId \in Nat
                  /\ w.player[p].map \in Nat /\ w.player[p].moving \in BOOLEAN
           /\ \A i \in 1..Len(w.bg) :
                  /\ w.bg[i] \in Battlegrounds /\ w.bg[i].status \in Status
                  /\ w.bg[i].players \in SUBSET Player /\ w.bg[i].offline \in Seq(Player)
                  /\ w.bg[i].invited \in Invited /\ w.bg[i].listed \in BOOLEAN
                  /\ w.bg[i].closed \in BOOLEAN
<1>1. /\ w.player \in [Player -> Players] /\ w.bg \in Seq(Battlegrounds)
      /\ w.sent \in Seq(QueueMessages)
  BY DEF WorldStates
<1>2. /\ \A p \in Player : w.player[p] \in Players
      /\ \A i \in 1..Len(w.bg) : w.bg[i] \in Battlegrounds
  BY <1>1, ElementOfSeq
<1>3. \A r \in Players :
          /\ r.online \in BOOLEAN /\ r.queued \in BOOLEAN /\ r.invite \in Nat
          /\ r.bgId \in Nat /\ r.map \in Nat /\ r.moving \in BOOLEAN
  BY DEF Players, Inst
<1>4. \A b \in Battlegrounds :
          /\ b.status \in Status /\ b.players \in SUBSET Player
          /\ b.offline \in Seq(Player) /\ b.invited \in Invited
          /\ b.listed \in BOOLEAN /\ b.closed \in BOOLEAN
  BY DEF Battlegrounds
<1> QED BY <1>1, <1>2, <1>3, <1>4, LenProperties

\* v is w but for player p, or but for battleground i.
PlayerSet(v, w, p, r) ==
    /\ v \in WorldStates /\ v.bg = w.bg /\ v.sent = w.sent /\ v.player[p] = r
    /\ \A u \in Player : u # p => v.player[u] = w.player[u]
GroundSet(v, w, i, b) ==
    /\ v \in WorldStates /\ v.player = w.player /\ v.sent = w.sent
    /\ Len(v.bg) = Len(w.bg) /\ v.bg[i] = b
    /\ \A j \in 1..Len(w.bg) : j # i => v.bg[j] = w.bg[j]

LEMMA SettingPlayer ==
    ASSUME NEW w \in WorldStates, NEW p \in Player, NEW r \in Players
    PROVE  PlayerSet([w EXCEPT !.player[p] = r], w, p, r)
BY WorldFields DEF WorldStates, PlayerSet

LEMMA SettingGround ==
    ASSUME NEW w \in WorldStates, NEW i \in 1..Len(w.bg), NEW b \in Battlegrounds
    PROVE  GroundSet([w EXCEPT !.bg[i] = b], w, i, b)
<1>1. w.bg \in Seq(Battlegrounds) BY WorldFields
<1>2. PICK f : f = [w.bg EXCEPT ![i] = b] OBVIOUS
<1>3. /\ f \in Seq(Battlegrounds) /\ Len(f) = Len(w.bg) /\ f[i] = b
      /\ \A j \in 1..Len(w.bg) : j # i => f[j] = w.bg[j]
  BY <1>1, <1>2, ExceptSeq
<1>4. PICK v : v = [w EXCEPT !.bg = f] OBVIOUS
<1>5. v \in WorldStates /\ v.player = w.player /\ v.sent = w.sent /\ v.bg = f
  BY <1>3, <1>4 DEF WorldStates
<1>6. v = [w EXCEPT !.bg[i] = b] BY <1>2, <1>4
<1>7. GroundSet(v, w, i, b) BY <1>3, <1>5 DEF GroundSet
<1> QED BY <1>6, <1>7

\* w with message m to the queue.
Says(v, w, m) ==
    /\ v \in WorldStates /\ v.player = w.player /\ v.bg = w.bg
    /\ m \in QueueMessages /\ v.sent = Append(w.sent, m)

LEMMA Saying ==
    ASSUME NEW w \in WorldStates, NEW m \in QueueMessages
    PROVE  Says(Tell(w, m), w, m)
BY WorldFields, Appended DEF WorldStates, Tell, Says

-----------------------------------------------------------------------------
(* Changes of the world, and messages to the queue.                        *)

\* What the queue was told of the battlegrounds of w is as true of those of v.
Quietly(v, w) ==
    /\ WorldSound(v) /\ Len(w.bg) <= Len(v.bg)
    /\ \A i \in Inst : (Lists(v, i) <=> Lists(w, i)) /\ (Over(v, i) <=> Over(w, i))
\* The same of all but i.
Besides(v, w, i) ==
    /\ WorldSound(v) /\ Len(w.bg) = Len(v.bg)
    /\ \A j \in Inst : j # i => (Lists(v, j) <=> Lists(w, j)) /\ (Over(v, j) <=> Over(w, j))

LEMMA QuietAgreed ==
    ASSUME NEW q, NEW w, NEW M, NEW N, Agreed(q, w, M, N), NEW v, Quietly(v, w), NEW L,
           Announced(Len(v.bg), Len(q.ids), L), Present(v, L) \subseteq Present(w, M)
    PROVE  Agreed(q, v, L, N)
<1>1. /\ Balanced(q, FreshOnes(w), Present(w, M)) /\ WorldSound(w) /\ WorldSound(v)
      /\ N \in Seq(QueueMessages) /\ QueueNews(w, N)
      /\ \A i \in 1..Len(q.ids) : Phase(q, w, N, i)
      /\ Len(w.bg) \in Nat /\ Len(v.bg) \in Nat /\ Len(w.bg) <= Len(v.bg)
  BY DEF Agreed, Quietly, Announced
<1>2. FreshOnes(v) = FreshOnes(w) BY DEF Quietly, FreshOnes
<1>3. Balanced(q, FreshOnes(v), Present(v, L)) BY <1>1, <1>2, LessBalanced
<1>4. QueueNews(v, N) BY <1>1, QueueSays, <1>2 DEF Slots, Inst, QueueNews
<1>5. \A i \in 1..Len(q.ids) : Phase(q, v, N, i)
  BY <1>1 DEF Inst, Quietly, Phase, Leaving
<1> QED BY <1>1, <1>3, <1>4, <1>5 DEF Agreed

\* What a new message does to what holds of the news, and of the entry of i.
LEMMA PlainAgreed ==
    ASSUME NEW q, NEW w, NEW M, NEW N, Agreed(q, w, M, N), NEW m \in QueueMessages,
           m.op \notin {"add", "drop"}, m.op = "lower" => Lists(w, m.inst)
    PROVE  Agreed(q, w, M, Append(N, m))
BY Appended, Adjoined DEF Agreed, Lists, FreshOnes, QueueNews, IsAdd, IsDrop, Phase,
   Leaving

\* The queue is told about i, listed in v or no longer.
LEMMA NewsAgreed ==
    ASSUME NEW q, NEW w, NEW M, NEW N, Agreed(q, w, M, N), NEW v, NEW i \in 1..Len(w.bg),
           Besides(v, w, i), Present(v, M) \subseteq Present(w, M), i \notin FreshOnes(v),
           NEW m \in QueueMessages,
           \/ /\ m.op = "add" /\ m.slot.inst = i /\ m.slot.inside < 2 * MaxPerTeam
              /\ ~Lists(w, i) /\ ~Over(w, i) /\ Lists(v, i)
           \/ /\ m.op = "drop" /\ m.inst = i
              /\ Lists(w, i) /\ ~Lists(v, i) /\ Over(v, i)
    PROVE  Agreed(q, v, M, Append(N, m))
<1> DEFINE L == Append(N, m)
<1>1. /\ N \in Seq(QueueMessages) /\ QueueNews(w, N)
      /\ \A j \in 1..Len(q.ids) : Phase(q, w, N, j)
      /\ Balanced(q, FreshOnes(w), Present(w, M))
      /\ Announced(Len(v.bg), Len(q.ids), M) /\ Len(w.bg) = Len(v.bg)
      /\ WorldSound(v)
  BY DEF Agreed, Besides
<1>2. /\ L \in Seq(QueueMessages)
      /\ \A n \in 1..Len(L) : (n \in 1..Len(N) /\ L[n] = N[n]) \/ L[n] = m
  BY <1>1, Appended
<1>3. FreshOnes(v) \subseteq FreshOnes(w) BY DEF Besides, FreshOnes
<1>4. Balanced(q, FreshOnes(v), Present(v, M)) BY <1>1, <1>3, LessBalanced
<1>5. QueueNews(v, L) BY <1>1, <1>2, <1>3 DEF QueueNews
<1>6. ASSUME NEW j \in 1..Len(q.ids)
      PROVE  Phase(q, v, L, j)
  BY <1>1, Adjoined DEF IsAdd, IsDrop, Inst, Besides, Phase, Leaving
<1> QED BY <1>1, <1>2, <1>4, <1>5, <1>6 DEF Agreed

\* A battleground that is not listed is over.
LEMMA OverAgreed ==
    ASSUME NEW q, NEW w, NEW M, NEW N, Agreed(q, w, M, N), NEW v, NEW i \in 1..Len(w.bg),
           Besides(v, w, i), Present(v, M) \subseteq Present(w, M),
           ~Lists(w, i), ~Lists(v, i), Over(v, i)
    PROVE  Agreed(q, v, M, N)
BY LessBalanced DEF Agreed, Besides, FreshOnes, QueueNews, Inst, Phase, Leaving

-----------------------------------------------------------------------------
(* The world within a step: what it has said so far follows N.             *)

Abroad(q, w, M, N) == Agreed(q, w, M, N \o w.sent) /\ N \in Seq(QueueMessages)

LEMMA AbroadFollows ==
    ASSUME NEW q, NEW w, NEW M, NEW N, Abroad(q, w, M, N)
    PROVE  \E X \in Seq(QueueMessages) : /\ Follows(X, N, w.sent) /\ Agreed(q, w, M, X)
                                         /\ w.sent \in Seq(QueueMessages)
BY WorldFields DEF Abroad, Agreed, WorldSound, Follows

LEMMA FollowsAbroad ==
    ASSUME NEW q, NEW v, NEW M, NEW N, N \in Seq(QueueMessages), NEW X,
           Follows(X, N, v.sent), Agreed(q, v, M, X)
    PROVE  Abroad(q, v, M, N)
BY DEF Follows, Abroad

LEMMA QuietAbroad ==
    ASSUME NEW q, NEW w, NEW M, NEW N, Abroad(q, w, M, N), NEW v, Quietly(v, w),
           v.sent = w.sent, NEW L,
           Announced(Len(v.bg), Len(q.ids), L), Present(v, L) \subseteq Present(w, M)
    PROVE  Abroad(q, v, L, N)
BY AbroadFollows, QuietAgreed, FollowsAbroad DEF Abroad

LEMMA PlainAbroad ==
    ASSUME NEW q, NEW w, NEW M, NEW N, Abroad(q, w, M, N), NEW m \in QueueMessages,
           m.op \notin {"add", "drop"}, m.op = "lower" => Lists(w, m.inst),
           NEW v, Says(v, w, m)
    PROVE  Abroad(q, v, M, N)
<1>1. PICK X \in Seq(QueueMessages) : /\ Follows(X, N, w.sent) /\ Agreed(q, w, M, X)
                                      /\ w.sent \in Seq(QueueMessages)
  BY AbroadFollows
<1>2. Agreed(q, w, M, Append(X, m)) BY <1>1, PlainAgreed
<1>3. N \in Seq(QueueMessages) BY DEF Abroad
<1>4. Follows(Append(X, m), N, v.sent) BY <1>1, <1>3, FollowsMore DEF Says
<1>5. /\ Quietly(v, w) /\ Len(v.bg) = Len(w.bg) /\ Present(v, M) = Present(w, M)
  BY <1>1 DEF Says, Quietly, WorldSound, Agreed, Announced, Lists, Over, Present
<1>6. Agreed(q, v, M, Append(X, m)) BY <1>2, <1>5, QuietAgreed DEF Agreed
<1> QED BY <1>3, <1>4, <1>6, FollowsAbroad

LEMMA NewsAbroad ==
    ASSUME NEW q, NEW w, NEW M, NEW N, Abroad(q, w, M, N), NEW v, NEW i \in 1..Len(w.bg),
           Besides(v, w, i), Present(v, M) \subseteq Present(w, M), i \notin FreshOnes(v),
           NEW m \in QueueMessages, v.sent = Append(w.sent, m),
           \/ /\ m.op = "add" /\ m.slot.inst = i /\ m.slot.inside < 2 * MaxPerTeam
              /\ ~Lists(w, i) /\ ~Over(w, i) /\ Lists(v, i)
           \/ /\ m.op = "drop" /\ m.inst = i
              /\ Lists(w, i) /\ ~Lists(v, i) /\ Over(v, i)
    PROVE  Abroad(q, v, M, N)
<1>1. PICK X \in Seq(QueueMessages) : /\ Follows(X, N, w.sent) /\ Agreed(q, w, M, X)
                                      /\ w.sent \in Seq(QueueMessages)
  BY AbroadFollows
<1>2. Agreed(q, v, M, Append(X, m)) BY <1>1, NewsAgreed
<1>3. N \in Seq(QueueMessages) BY DEF Abroad
<1>4. Follows(Append(X, m), N, v.sent) BY <1>1, <1>3, FollowsMore
<1> QED BY <1>2, <1>3, <1>4, FollowsAbroad

LEMMA OverAbroad ==
    ASSUME NEW q, NEW w, NEW M, NEW N, Abroad(q, w, M, N), NEW v, NEW i \in 1..Len(w.bg),
           Besides(v, w, i), Present(v, M) \subseteq Present(w, M), v.sent = w.sent,
           ~Lists(w, i), ~Lists(v, i), Over(v, i)
    PROVE  Abroad(q, v, M, N)
BY AbroadFollows, OverAgreed, FollowsAbroad DEF Abroad

-----------------------------------------------------------------------------
(* A player leaves a battleground.                                         *)

\* What the world has said is about battlegrounds.
Bulletin == {"add", "lower", "drop", "status", "schedule"}
Report(w) == \A n \in 1..Len(w.sent) : w.sent[n].op \in Bulletin

LEMMA SayingReport ==
    ASSUME NEW w \in WorldStates, NEW m \in QueueMessages, NEW v, v.sent = Append(w.sent, m),
           m.op \in Bulletin, Report(w)
    PROVE  Report(v)
BY WorldFields, Appended DEF Report

\* A battleground that has not been listed and is not over has no more players than
\* the teams may have.
LEMMA InsideFew ==
    ASSUME NEW q, NEW w, NEW M, NEW N, Agreed(q, w, M, N), NEW i \in 1..Len(w.bg),
           ~Lists(w, i), ~Over(w, i)
    PROVE  Cardinality(w.bg[i].players) <= 2 * MaxPerTeam
<1> DEFINE T(t) == {u \in w.bg[i].players : TeamOf(u) = t}
           H == Present(w, M)
<1>1. /\ w \in WorldStates /\ q \in QueueStates /\ Balanced(q, FreshOnes(w), H)
      /\ Announced(Len(w.bg), Len(q.ids), M)
  BY DEF Agreed, WorldSound, Balanced, SoundQueue
<1>2. w.bg[i].players \in SUBSET Player /\ i \in Inst /\ i <= Len(w.bg)
  BY <1>1, WorldFields DEF Inst
<1>3. i \in FreshOnes(w) /\ i \in 1..Len(q.ids) BY <1>1, <1>2 DEF FreshOnes, Announced
<1>4. PICK k \in 1..Len(q.slots) : q.slots[k].inst = i
  BY <1>1, <1>3 DEF Balanced, Singles, Single
<1>5. ASSUME NEW t \in Team
      PROVE  IsFiniteSet(T(t)) /\ Cardinality(T(t)) \in Nat /\ Cardinality(T(t)) <= MaxPerTeam
  <2>1. T(t) \in SUBSET Player BY <1>2
  <2>2. \A u \in T(t) : <<i, u>> \in H /\ u \in Player /\ TeamOf(u) = t
    BY <1>2 DEF Present
  <2> HIDE DEF T
  <2>3. /\ IsFiniteSet({0} \X T(t)) /\ Cardinality({0} \X T(t)) = Cardinality(T(t))
        /\ Cardinality(T(t)) \in Nat /\ IsFiniteSet(T(t))
    BY <2>1, PairsWith
  <2>4. {0} \X T(t) \subseteq Places(q, H, i, t) BY <2>2 DEF Places
  <2>5. /\ IsFiniteSet(Places(q, H, i, t)) /\ Cardinality(Places(q, H, i, t)) \in Nat
    BY <1>1, QueueFields, PlacesFinite
  <2>6. Cardinality({0} \X T(t)) <= Cardinality(Places(q, H, i, t)) BY <2>4, <2>5, Fewer
  <2>7. /\ Cardinality(Places(q, H, i, t)) <= q.slots[k].invited[t]
        /\ q.slots[k].invited[t] <= MaxPerTeam /\ q.slots[k].invited[t] \in Int
    BY <1>1, <1>3, <1>4, QueueFields DEF Balanced, Covered, Bounded
  <2> QED BY <2>3, <2>5, <2>6, <2>7, QueueAssumption
<1>6. w.bg[i].players \subseteq T("alliance") \cup T("horde") BY <1>2, Teams DEF Team
<1>7. "alliance" \in Team /\ "horde" \in Team BY DEF Team
<1> HIDE DEF T
<1>8. Cardinality(w.bg[i].players) <= Cardinality(T("alliance")) + Cardinality(T("horde"))
  BY <1>5, <1>6, <1>7, Together
<1>9. Cardinality(w.bg[i].players) \in Nat BY <1>2, PairsWith
<1> QED BY <1>5, <1>7, <1>8, <1>9, QueueAssumption

\* A battleground that may be listed has a place free.
Few(w, i) == ~Over(w, i) /\ ~Lists(w, i) => Cardinality(w.bg[i].players) < 2 * MaxPerTeam

\* v is w with a report that i has a free place.
Reported(v, w, i) ==
    /\ v \in WorldStates /\ v.player = w.player /\ Len(v.bg) = Len(w.bg)
    /\ \A j \in 1..Len(w.bg) :
           /\ v.bg[j].players = w.bg[j].players /\ v.bg[j].offline = w.bg[j].offline
           /\ v.bg[j].status = w.bg[j].status
    /\ Report(w) => Report(v)

LEMMA ListedAbroad ==
    ASSUME NEW q, NEW w, NEW M, NEW N, Abroad(q, w, M, N), NEW i \in 1..Len(w.bg),
           NEW t \in Team, ~Over(w, i), Few(w, i), NEW v, v = Listed(w, i, t)
    PROVE  Abroad(q, v, M, N) /\ Reported(v, w, i)
<1>1. w \in WorldStates /\ WorldSound(w) BY DEF Abroad, Agreed, WorldSound
<1>2. i \in Inst /\ i <= Len(w.bg) BY <1>1, WorldFields DEF Inst
<1>3. CASE w.bg[i].listed
  <2>1. PICK m : m = [op |-> "lower", inst |-> i, team |-> t] OBVIOUS
  <2>2. m \in QueueMessages /\ m.op = "lower" /\ m.inst = i
    BY <1>2, <2>1 DEF QueueMessages
  <2>3. v = Tell(w, m) BY <1>3, <2>1 DEF Listed
  <2>4. Says(v, w, m) BY <1>1, <2>2, <2>3, Saying
  <2>5. Lists(w, m.inst) BY <1>2, <1>3, <2>2 DEF Lists
  <2>6. Abroad(q, v, M, N) BY <2>2, <2>4, <2>5, PlainAbroad
  <2>7. Report(w) => Report(v) BY <1>1, <2>2, <2>4, SayingReport DEF Says, Bulletin
  <2> QED BY <2>4, <2>6, <2>7 DEF Says, Reported
<1>4. CASE ~w.bg[i].listed
  <2>1. PICK b : b = [w.bg[i] EXCEPT !.listed = TRUE] OBVIOUS
  <2>2. /\ b \in Battlegrounds /\ b.listed = TRUE /\ b.players = w.bg[i].players
        /\ b.offline = w.bg[i].offline /\ b.status = w.bg[i].status
    BY <1>1, WorldFields, <2>1 DEF Battlegrounds
  <2>3. PICK x : x = [w EXCEPT !.bg[i] = b] OBVIOUS
  <2>4. GroundSet(x, w, i, b) BY <1>1, <2>2, <2>3, SettingGround
  <2>5. PICK m : m = [op |-> "add",
               slot |-> [inst |-> i, status |-> w.bg[i].status,
                         inside |-> Cardinality(w.bg[i].players),
                         invited |-> w.bg[i].invited]]
    OBVIOUS
  <2>6. /\ m \in QueueMessages /\ m.op = "add" /\ m.slot.inst = i
        /\ m.slot.inside < 2 * MaxPerTeam
    BY <1>1, WorldFields, PairsWith, <1>2, <2>5, <1>4 DEF Slots, QueueMessages, Lists, Few
  <2>7. v = Tell(x, m) BY <1>4, <2>1, <2>3, <2>5 DEF Listed
  <2>8. x \in WorldStates BY <2>4 DEF GroundSet
  <2>9. Says(v, x, m) BY <2>6, <2>7, <2>8, Saying
  <2>10. /\ v \in WorldStates /\ v.player = w.player /\ Len(v.bg) = Len(w.bg)
         /\ v.bg[i] = b /\ v.sent = Append(w.sent, m)
         /\ \A j \in 1..Len(w.bg) : j # i => v.bg[j] = w.bg[j]
    BY <2>4, <2>9 DEF GroundSet, Says
  <2>11. WorldSound(v) /\ Present(v, M) = Present(w, M)
    BY <1>1, WorldFields, <2>2, <2>10 DEF Inst, WorldSound, Present
  <2>12. Besides(v, w, i)
    BY <1>1, WorldFields, <2>10, <2>11 DEF Inst, Besides, Lists, Over
  <2>13. Lists(v, i) /\ ~Lists(w, i) BY <1>2, <1>4, <2>2, <2>10 DEF Lists
  <2>14. i \notin FreshOnes(v) BY <2>13 DEF FreshOnes
  <2>15. Abroad(q, v, M, N) BY <2>6, <2>10, <2>11, <2>12, <2>13, <2>14, NewsAbroad
  <2>16. Report(w) => Report(v) BY <1>1, <2>6, <2>10, SayingReport DEF Bulletin
  <2> QED BY <2>2, <2>10, <2>15, <2>16 DEF Reported
<1> QED BY <1>3, <1>4

\* v is w without p among the players of i.
Gone(v, w, i, p) ==
    /\ v \in WorldStates /\ v.player = w.player /\ Len(v.bg) = Len(w.bg)
    /\ \A j \in 1..Len(w.bg) :
           /\ v.bg[j].players = IF j = i THEN w.bg[j].players \ {p} ELSE w.bg[j].players
           /\ v.bg[j].offline = w.bg[j].offline /\ v.bg[j].status = w.bg[j].status
    /\ Report(w) => Report(v)

\* The first two steps of RemovePlayerAtLeave.
TakenAway(w, i, p) ==
    IF p \in w.bg[i].players
    THEN [w EXCEPT !.bg[i] = Erased(w.bg[i], p)] ELSE w
ToldOf(w, i, p) ==
    IF p \in w.bg[i].players /\ w.bg[i].status # "waitLeave"
    THEN Tell(Listed(TakenAway(w, i, p), i, TeamOf(p)), [op |-> "schedule"])
    ELSE TakenAway(w, i, p)

LEMMA GoneAbroad ==
    ASSUME NEW q, NEW w, NEW M, NEW N, Abroad(q, w, M, N), NEW i \in 1..Len(w.bg), NEW p,
           p \in w.bg[i].players, NEW v, v = TakenAway(w, i, p)
    PROVE  Abroad(q, v, M, N) /\ Gone(v, w, i, p) /\ Few(v, i)
<1>1. w \in WorldStates /\ WorldSound(w) /\ i \in Inst /\ i <= Len(w.bg) /\ Len(w.bg) \in Nat
  BY WorldFields DEF Abroad, Agreed, WorldSound, Inst
<1>2. w.bg[i] \in Battlegrounds /\ p \in Player /\ TeamOf(p) \in Team
  BY <1>1, WorldFields, Teams
<1>7. PICK b : b = Erased(w.bg[i], p) OBVIOUS
<1>8. /\ b \in Battlegrounds /\ b.listed = w.bg[i].listed
      /\ b.players = w.bg[i].players \ {p}
      /\ b.offline = w.bg[i].offline /\ b.status = w.bg[i].status
  <2>1. w.bg[i].invited \in [Team -> Int] /\ w.bg[i].players \in SUBSET Player
    BY <1>2 DEF Battlegrounds, Invited
  <2>2. [w.bg[i].invited EXCEPT ![TeamOf(p)] = @ - 1] \in Invited
    BY <1>2, <2>1 DEF Invited
  <2> QED BY <1>2, <1>7, <2>1, <2>2 DEF Battlegrounds, Erased
<1>9. GroundSet(v, w, i, b) BY <1>7, <1>1, <1>8, SettingGround DEF TakenAway
<1>10. /\ v \in WorldStates /\ v.player = w.player /\ v.sent = w.sent
       /\ Len(v.bg) = Len(w.bg) /\ v.bg[i] = b
       /\ \A j \in 1..Len(w.bg) : j # i => v.bg[j] = w.bg[j]
  BY <1>9 DEF GroundSet
<1>11. \A j \in Inst : j <= Len(w.bg) =>
           /\ v.bg[j].players \subseteq w.bg[j].players
           /\ v.bg[j].status = w.bg[j].status /\ v.bg[j].listed = w.bg[j].listed
  BY <1>1, <1>10, <1>8 DEF Inst
<1>12. Quietly(v, w) /\ Present(v, M) \subseteq Present(w, M)
  <2>1. Quietly(v, w) BY <1>1, <1>10, <1>11 DEF Quietly, WorldSound, Lists, Over
  <2>2. ASSUME NEW x \in Present(v, M)
        PROVE  x \in Present(w, M)
    <3>1. x[1] \in Inst BY DEF Present
    <3> QED BY <1>10, <1>11, <3>1 DEF Present
  <2> QED BY <2>1, <2>2
<1>13. Announced(Len(v.bg), Len(q.ids), M) BY <1>10 DEF Abroad, Agreed
<1>14. Abroad(q, v, M, N) BY <1>10, <1>12, <1>13, QuietAbroad
<1>15. Gone(v, w, i, p) BY <1>10, <1>8 DEF Report, Gone
<1>16. ASSUME ~Over(w, i), ~Lists(w, i)
       PROVE  Cardinality(v.bg[i].players) < 2 * MaxPerTeam
  <2>1. PICK X : Agreed(q, w, M, X) BY DEF Abroad
  <2>2. Cardinality(w.bg[i].players) <= 2 * MaxPerTeam BY <1>16, <2>1, InsideFew
  <2>3. IsFiniteSet(w.bg[i].players) /\ Cardinality(w.bg[i].players) \in Nat
    BY <1>2, PairsWith DEF Battlegrounds
  <2>4. Cardinality(v.bg[i].players) <= Cardinality(w.bg[i].players) - 1
    BY <1>8, <1>10, <2>3, OneFewer
  <2>5. Cardinality(v.bg[i].players) \in Nat BY <1>8, <1>10, PairsWith DEF Battlegrounds
  <2> QED BY <2>2, <2>3, <2>4, <2>5, QueueAssumption
<1>17. (Over(v, i) <=> Over(w, i)) /\ (Lists(v, i) <=> Lists(w, i))
  BY <1>1, <1>12 DEF Quietly
<1> QED BY <1>14, <1>15, <1>16, <1>17 DEF Few

\* The player who leaves, having taken part or not.
Departed(r, took) ==
    IF took THEN [r EXCEPT !.queued = FALSE, !.invite = 0, !.bgId = 0, !.map = 0]
    ELSE [r EXCEPT !.bgId = 0, !.map = 0]

\* What becomes of p, and of what the others are told.
Left(v, w, i, p) ==
    /\ v \in WorldStates /\ Len(v.bg) = Len(w.bg)
    /\ \A j \in 1..Len(w.bg) :
           /\ v.bg[j].players = IF j = i THEN w.bg[j].players \ {p} ELSE w.bg[j].players
           /\ v.bg[j].offline = w.bg[j].offline /\ v.bg[j].status = w.bg[j].status
    /\ \A u \in Player : u # p => v.player[u] = w.player[u]
    /\ v.player[p] = IF ~InWorld(w, p) THEN w.player[p]
                     ELSE Departed(w.player[p], p \in w.bg[i].players)
    /\ Report(w) => Report(v)

LEMMA LeavingGround ==
    ASSUME NEW q, NEW w, NEW M, NEW N, Abroad(q, w, M, N), NEW i \in 1..Len(w.bg),
           NEW p \in Player, NEW told, told = ToldOf(w, i, p)
    PROVE  Abroad(q, told, M, N) /\ Gone(told, w, i, p)
<1>1. w \in WorldStates /\ WorldSound(w) /\ TeamOf(p) \in Team
  BY Teams DEF Abroad, Agreed, WorldSound
<1>2. CASE p \notin w.bg[i].players BY <1>2, <1>1 DEF ToldOf, TakenAway, Gone
<1>3. CASE p \in w.bg[i].players
  <2>1. PICK gone : gone = TakenAway(w, i, p) OBVIOUS
  <2>2. Abroad(q, gone, M, N) /\ Gone(gone, w, i, p) /\ Few(gone, i)
    BY <1>3, <2>1, GoneAbroad
  <2>3. CASE w.bg[i].status = "waitLeave" BY <2>1, <2>2, <2>3 DEF ToldOf
  <2>4. CASE w.bg[i].status # "waitLeave"
    <3>1. PICK x : x = Listed(gone, i, TeamOf(p)) OBVIOUS
    <3>2. i \in 1..Len(gone.bg) BY <2>2 DEF Gone
    <3>3. ~Over(gone, i) BY <2>2, <2>4 DEF Over, Gone
    <3>4. Abroad(q, x, M, N) /\ Reported(x, gone, i)
      BY <1>1, <2>2, <3>1, <3>2, <3>3, ListedAbroad
    <3>5. PICK m : m = [op |-> "schedule"] OBVIOUS
    <3>6. m \in QueueMessages /\ m.op = "schedule" BY <3>5 DEF QueueMessages
    <3>7. x \in WorldStates BY <3>4 DEF Reported
    <3>8. told = Tell(x, m) BY <1>3, <2>1, <2>4, <3>1, <3>5 DEF ToldOf
    <3>9. Says(told, x, m) BY <3>6, <3>7, <3>8, Saying
    <3>10. Abroad(q, told, M, N) BY <3>4, <3>6, <3>9, PlainAbroad
    <3>11. Report(w) => Report(told)
      BY <2>2, <3>4, <3>9, <3>6, <3>7, SayingReport DEF Gone, Reported, Says, Bulletin
    <3>12. Gone(told, w, i, p) BY <2>2, <3>4, <3>9, <3>11 DEF Gone, Reported, Says
    <3> QED BY <3>10, <3>12
  <2> QED BY <2>3, <2>4
<1> QED BY <1>2, <1>3

\* A player may always be set to be elsewhere, or nowhere.
Elsewhere(r, old) == r.bgId \in {0, old.bgId} /\ r.map \in {0, r.bgId}

LEMMA PlayerAbroad ==
    ASSUME NEW q, NEW w, NEW M, NEW N, Abroad(q, w, M, N), NEW p \in Player, NEW r \in Players,
           Elsewhere(r, w.player[p]), NEW v, PlayerSet(v, w, p, r)
    PROVE  Abroad(q, v, M, N)
<1>1. w \in WorldStates /\ WorldSound(w) BY DEF Abroad, Agreed, WorldSound
<1>2. \A u \in Player : /\ v.player[u].bgId \in {0, w.player[u].bgId}
                        /\ v.player[u].map \in {0, v.player[u].bgId}
  BY <1>1 DEF PlayerSet, Elsewhere, WorldSound
<1>3. v \in WorldStates /\ v.bg = w.bg /\ v.sent = w.sent /\ Len(w.bg) \in Nat
  BY <1>1, WorldFields DEF PlayerSet
<1>4. WorldSound(v) BY <1>1, <1>2, <1>3 DEF WorldSound
<1>5. Quietly(v, w) BY <1>3, <1>4 DEF Quietly, Lists, Over
<1>6. Present(v, M) \subseteq Present(w, M) BY <1>2, <1>3 DEF Inst, Present
<1>7. Announced(Len(v.bg), Len(q.ids), M) BY <1>3 DEF Abroad, Agreed
<1> QED BY <1>3, <1>5, <1>6, <1>7, QuietAbroad

LEMMA LeavingAbroad ==
    ASSUME NEW q, NEW w, NEW M, NEW N, Abroad(q, w, M, N), NEW i \in 1..Len(w.bg),
           NEW p \in Player, NEW v, v = RemovePlayerAtLeave(w, i, p)
    PROVE  Abroad(q, v, M, N) /\ Left(v, w, i, p)
<1>1. PICK told : told = ToldOf(w, i, p) OBVIOUS
<1>3. Abroad(q, told, M, N) /\ Gone(told, w, i, p) BY <1>1, LeavingGround
<1>4. CASE ~InWorld(w, p)
  <2>1. v = told BY <1>1, <1>4 DEF RemovePlayerAtLeave, ToldOf, TakenAway
  <2> QED BY <1>3, <1>4, <2>1 DEF Gone, Left
<1>5. CASE InWorld(w, p)
  <2>2. PICK r : r = Departed(w.player[p], p \in w.bg[i].players) OBVIOUS
  <2>3. w.player[p] \in Players /\ told.player = w.player /\ told \in WorldStates
    BY <1>3, WorldFields DEF Gone, Abroad, Agreed, WorldSound
  <2>4. r \in Players /\ r.bgId = 0 /\ r.map = 0 BY <2>2, <2>3 DEF Players, Departed
  <2>5. v = [told EXCEPT !.player[p] = r]
    BY <1>1, <1>5, <2>2, <2>3 DEF RemovePlayerAtLeave, ToldOf, TakenAway, Departed
  <2>6. PlayerSet(v, told, p, r) BY <2>3, <2>4, <2>5, SettingPlayer
  <2>7. Abroad(q, v, M, N) BY <1>3, <2>4, <2>6, PlayerAbroad DEF Elsewhere
  <2>8. v.player[p] = Departed(w.player[p], p \in w.bg[i].players)
    BY <2>2, <2>6 DEF PlayerSet
  <2>9. /\ v \in WorldStates /\ v.bg = told.bg /\ v.sent = told.sent
        /\ \A u \in Player : u # p => v.player[u] = w.player[u]
    BY <2>3, <2>6 DEF PlayerSet
  <2>10. Report(w) => Report(v) BY <1>3, <2>9 DEF Gone, Report
  <2>11. Left(v, w, i, p) BY <1>3, <1>5, <2>8, <2>9, <2>10 DEF Gone, Left
  <2> QED BY <2>7, <2>11
<1> QED BY <1>4, <1>5

-----------------------------------------------------------------------------
(* Changes of a battleground.                                              *)

\* b is listed and over if c is.
SameStanding(b, c) ==
    b.listed = c.listed /\ (b.status = "waitLeave" <=> c.status = "waitLeave")

LEMMA GroundAbroad ==
    ASSUME NEW q, NEW w, NEW M, NEW N, Abroad(q, w, M, N), NEW i \in 1..Len(w.bg), NEW b,
           SameStanding(b, w.bg[i]),
           \A p \in b.players : p \in w.bg[i].players \/ w.player[p].bgId = i,
           NEW v, GroundSet(v, w, i, b)
    PROVE  Abroad(q, v, M, N)
<1>1. w \in WorldStates /\ WorldSound(w) /\ i \in Inst /\ i <= Len(w.bg) /\ Len(w.bg) \in Nat
  BY WorldFields DEF Abroad, Agreed, WorldSound, Inst
<1>2. /\ v \in WorldStates /\ v.player = w.player /\ v.sent = w.sent
      /\ Len(v.bg) = Len(w.bg) /\ v.bg[i] = b
      /\ \A j \in 1..Len(w.bg) : j # i => v.bg[j] = w.bg[j]
  BY DEF GroundSet
<1>3. \A j \in Inst : j <= Len(w.bg) =>
          /\ SameStanding(v.bg[j], w.bg[j])
          /\ \A p \in v.bg[j].players : p \in w.bg[j].players \/ w.player[p].bgId = j
  BY <1>1, <1>2 DEF Inst, SameStanding
<1>4. Quietly(v, w)
  BY <1>1, <1>2, <1>3 DEF Quietly, WorldSound, Lists, Over, SameStanding
<1>5. Present(v, M) \subseteq Present(w, M) BY <1>2, <1>3 DEF Present
<1>6. Announced(Len(v.bg), Len(q.ids), M) BY <1>2 DEF Abroad, Agreed
<1> QED BY <1>2, <1>4, <1>5, <1>6, QuietAbroad

\* x is w with status for i, as b says, and v with message m about that.
SetTo(v, w, i, status, b, x, m) ==
    /\ GroundSet(x, w, i, b) /\ b = [w.bg[i] EXCEPT !.status = status]
    /\ b.listed = w.bg[i].listed /\ b.status = status
    /\ b.players = w.bg[i].players /\ b.offline = w.bg[i].offline
    /\ m.op = "status" /\ Says(v, x, m)

LEMMA StatusSet ==
    ASSUME NEW w \in WorldStates, NEW i \in 1..Len(w.bg), NEW status \in Status, NEW v,
           v = SetStatus(w, i, status)
    PROVE  \E b \in Battlegrounds, x \in WorldStates, m \in QueueMessages :
               SetTo(v, w, i, status, b, x, m)
<1>1. w.bg[i] \in Battlegrounds /\ i \in Inst BY WorldFields DEF Inst
<1>2. PICK b : b = [w.bg[i] EXCEPT !.status = status] OBVIOUS
<1>3. /\ b \in Battlegrounds /\ b.listed = w.bg[i].listed /\ b.status = status
      /\ b.players = w.bg[i].players /\ b.offline = w.bg[i].offline
  BY <1>1, <1>2 DEF Battlegrounds
<1>4. PICK x : x = [w EXCEPT !.bg[i] = b] OBVIOUS
<1>5. GroundSet(x, w, i, b) BY <1>3, <1>4, SettingGround
<1>6. PICK m : m = [op |-> "status", inst |-> i, status |-> status] OBVIOUS
<1>7. m \in QueueMessages /\ m.op = "status" BY <1>1, <1>6 DEF QueueMessages
<1>8. x = [w EXCEPT !.bg[i].status = status] BY <1>2, <1>4
<1>9. v = Tell(x, m) BY <1>6, <1>8 DEF SetStatus
<1>10. Says(v, x, m) BY <1>5, <1>7, <1>9, Saying DEF GroundSet
<1>11. SetTo(v, w, i, status, b, x, m) /\ x \in WorldStates
  BY <1>2, <1>3, <1>5, <1>7, <1>10 DEF SetTo, GroundSet
<1> QED BY <1>3, <1>7, <1>11

\* A battleground goes on: it is not over before or after.
LEMMA StatusAbroad ==
    ASSUME NEW q, NEW w, NEW M, NEW N, Abroad(q, w, M, N), NEW i \in 1..Len(w.bg),
           NEW status \in Status, status # "waitLeave", ~Over(w, i), NEW v,
           v = SetStatus(w, i, status)
    PROVE  Abroad(q, v, M, N) /\ Len(v.bg) = Len(w.bg) /\ ~Over(v, i)
<1>1. w \in WorldStates /\ Len(w.bg) \in Nat
  BY WorldFields DEF Abroad, Agreed, WorldSound
<1>0. PICK b \in Battlegrounds, x \in WorldStates, m \in QueueMessages :
          SetTo(v, w, i, status, b, x, m)
  BY <1>1, StatusSet
<1>2. /\ GroundSet(x, w, i, b) /\ b.listed = w.bg[i].listed /\ b.status = status
      /\ b.players = w.bg[i].players /\ m.op = "status" /\ Says(v, x, m)
  BY <1>0 DEF SetTo
<1>3. SameStanding(b, w.bg[i]) BY <1>1, <1>2 DEF SameStanding, Over
<1>4. \A p \in b.players : p \in w.bg[i].players \/ w.player[p].bgId = i BY <1>2
<1>5. Abroad(q, x, M, N) BY <1>2, <1>3, <1>4, GroundAbroad
<1>6. Abroad(q, v, M, N) BY <1>2, <1>5, PlainAbroad
<1> QED BY <1>2, <1>6 DEF GroundSet, Says, Over

LEMMA EndedAbroad ==
    ASSUME NEW q, NEW w, NEW M, NEW N, Abroad(q, w, M, N), NEW i \in 1..Len(w.bg), NEW v,
           v = Ended(w, i)
    PROVE  Abroad(q, v, M, N) /\ Len(v.bg) = Len(w.bg)
<1>1. w \in WorldStates /\ WorldSound(w) /\ i \in Inst /\ i <= Len(w.bg) /\ Len(w.bg) \in Nat
  BY WorldFields DEF Abroad, Agreed, WorldSound, Inst
<1>2. PICK u : u = Unlisted(w, i) OBVIOUS
<1>3. PICK e : e = IF w.bg[i].listed THEN [w.bg[i] EXCEPT !.listed = FALSE] ELSE w.bg[i]
  OBVIOUS
<1>4. /\ e \in Battlegrounds /\ e.listed = FALSE /\ e.players = w.bg[i].players
  BY <1>1, WorldFields, <1>3 DEF Battlegrounds
<1>5. PICK d : d = [op |-> "drop", inst |-> i] OBVIOUS
<1>6. d \in QueueMessages /\ d.op = "drop" /\ d.inst = i BY <1>1, <1>5 DEF QueueMessages
<1>7. /\ u \in WorldStates /\ u.player = w.player /\ Len(u.bg) = Len(w.bg) /\ u.bg[i] = e
      /\ \A j \in 1..Len(w.bg) : j # i => u.bg[j] = w.bg[j]
      /\ w.bg[i].listed => u.sent = Append(w.sent, d)
      /\ ~w.bg[i].listed => u.sent = w.sent
  <2>1. CASE w.bg[i].listed
    <3>1. PICK x : x = [w EXCEPT !.bg[i] = e] OBVIOUS
    <3>2. GroundSet(x, w, i, e) BY <1>1, <1>4, <3>1, SettingGround
    <3>3. x = [w EXCEPT !.bg[i].listed = FALSE] BY <1>3, <2>1, <3>1
    <3>4. u = Tell(x, d) BY <1>2, <1>5, <2>1, <3>3 DEF Unlisted
    <3>5. Says(u, x, d) BY <1>6, <3>2, <3>4, Saying DEF GroundSet
    <3> QED BY <2>1, <3>2, <3>5 DEF GroundSet, Says
  <2>2. CASE ~w.bg[i].listed BY <1>2, <2>2, <1>1, <1>3 DEF Unlisted
  <2> QED BY <2>1, <2>2
<1>8. v = SetStatus(u, i, "waitLeave") BY <1>2 DEF Ended
<1>9. "waitLeave" \in Status /\ i \in 1..Len(u.bg) BY <1>7 DEF Status
<1>s. PICK b \in Battlegrounds, x \in WorldStates, m \in QueueMessages :
          SetTo(v, u, i, "waitLeave", b, x, m)
  BY <1>7, <1>8, <1>9, StatusSet
<1>10. /\ GroundSet(x, u, i, b) /\ b.listed = u.bg[i].listed /\ b.status = "waitLeave"
       /\ b.players = u.bg[i].players /\ m.op = "status" /\ Says(v, x, m)
  BY <1>s DEF SetTo
<1>11. /\ x \in WorldStates /\ x.player = w.player /\ Len(x.bg) = Len(w.bg)
       /\ x.bg[i].listed = FALSE /\ x.bg[i].status = "waitLeave"
       /\ x.bg[i].players = w.bg[i].players
       /\ \A j \in 1..Len(w.bg) : j # i => x.bg[j] = w.bg[j]
       /\ x.sent = u.sent
  BY <1>4, <1>7, <1>10 DEF GroundSet
<1>12. \A j \in Inst : j <= Len(w.bg) =>
           /\ x.bg[j].players = w.bg[j].players
           /\ j # i => x.bg[j] = w.bg[j]
  BY <1>1, <1>11 DEF Inst
<1>13. Besides(x, w, i) /\ Present(x, M) \subseteq Present(w, M)
  BY <1>1, <1>11, <1>12 DEF Besides, WorldSound, Lists, Over, Present
<1>14. ~Lists(x, i) /\ Over(x, i) /\ i \notin FreshOnes(x)
  BY <1>1, <1>11 DEF Lists, Over, FreshOnes
<1>15. Abroad(q, x, M, N)
  <2>1. CASE w.bg[i].listed
    BY <1>1, <2>1, <1>7, <1>11, <1>6, <1>13, <1>14, NewsAbroad DEF Lists
  <2>2. CASE ~w.bg[i].listed BY <2>2, <1>7, <1>11, <1>13, <1>14, OverAbroad DEF Lists
  <2> QED BY <2>1, <2>2
<1>16. Abroad(q, v, M, N) BY <1>10, <1>15, PlainAbroad
<1> QED BY <1>10, <1>11, <1>16 DEF Says

-----------------------------------------------------------------------------
(* What players do.                                                        *)

LEMMA AbroadFields ==
    ASSUME NEW q, NEW w, NEW M, NEW N, Abroad(q, w, M, N)
    PROVE  /\ w \in WorldStates /\ WorldSound(w) /\ Len(w.bg) \in Nat
           /\ M \in Seq(WorldMessages) /\ Announced(Len(w.bg), Len(q.ids), M)
           /\ \A p \in Player : /\ w.player[p].bgId \in 0..Len(w.bg)
                                /\ w.player[p].map \in {0, w.player[p].bgId}
           /\ \A i \in 1..Len(w.bg) : i \in Inst
BY WorldFields DEF Abroad, Agreed, WorldSound, Announced, Inst

LEMMA ArrivedAbroad ==
    ASSUME NEW q, NEW w, NEW M, NEW N, Abroad(q, w, M, N), NEW p \in Player, NEW v,
           v = Arrived(w, p)
    PROVE  Abroad(q, v, M, N)
<1>1. /\ w \in WorldStates /\ w.player[p] \in Players /\ Len(w.bg) \in Nat
      /\ w.player[p].bgId \in 0..Len(w.bg) /\ w.player[p].bgId \in Inst \cup {0}
  BY AbroadFields, WorldFields DEF Players
<1>2. CASE ~w.player[p].moving BY <1>2 DEF Arrived
<1>3. CASE w.player[p].moving
  <2>1. PICK r : r = [w.player[p] EXCEPT !.moving = FALSE, !.map = w.player[p].bgId]
    OBVIOUS
  <2>2. /\ r \in Players /\ Elsewhere(r, w.player[p]) /\ r.bgId = w.player[p].bgId
    BY <1>1, <2>1 DEF Players, Elsewhere
  <2>3. PICK x : x = [w EXCEPT !.player[p] = r] OBVIOUS
  <2>4. PlayerSet(x, w, p, r) BY <1>1, <2>2, <2>3, SettingPlayer
  <2>5. Abroad(q, x, M, N) BY <2>2, <2>4, PlayerAbroad
  <2>6. CASE ~(w.player[p].bgId # 0 /\ w.player[p].invite = w.player[p].bgId)
    BY <1>3, <2>1, <2>3, <2>6, <2>5 DEF Arrived
  <2>7. CASE w.player[p].bgId # 0 /\ w.player[p].invite = w.player[p].bgId
    <3>1. PICK i \in 1..Len(w.bg) : i = w.player[p].bgId BY <1>1, <2>7
    <3>2. x \in WorldStates /\ x.bg = w.bg /\ x.player[p].bgId = i
      BY <2>2, <2>4, <3>1 DEF PlayerSet
    <3>3. PICK b : b = [x.bg[i] EXCEPT !.players = @ \cup {p}] OBVIOUS
    <3>4. x.bg[i] \in Battlegrounds /\ i \in 1..Len(x.bg) BY <3>1, <3>2, WorldFields
    <3>5. /\ b \in Battlegrounds /\ SameStanding(b, x.bg[i])
          /\ b.players = x.bg[i].players \cup {p}
      BY <3>3, <3>4 DEF Battlegrounds, SameStanding
    <3>6. v = [x EXCEPT !.bg[i] = b] BY <1>3, <2>1, <2>3, <2>7, <3>1, <3>3 DEF Arrived
    <3>7. GroundSet(v, x, i, b) BY <3>2, <3>4, <3>5, <3>6, SettingGround
    <3>8. \A u \in b.players : u \in x.bg[i].players \/ x.player[u].bgId = i
      BY <3>2, <3>5
    <3> QED BY <2>5, <3>4, <3>5, <3>7, <3>8, GroundAbroad
  <2> QED BY <2>6, <2>7
<1> QED BY <1>2, <1>3

LEMMA LoggedOutAbroad ==
    ASSUME NEW q, NEW w, NEW M, NEW N, Abroad(q, w, M, N), NEW p \in Player, NEW v,
           v = LoggedOut(w, p)
    PROVE  Abroad(q, v, M, N)
<1>1. PICK here : here = Arrived(w, p) OBVIOUS
<1>2. Abroad(q, here, M, N) BY <1>1, ArrivedAbroad
<1>3. PICK i : i = GetBattleGround(here, p) OBVIOUS
<1>4. /\ here \in WorldStates /\ i \in 0..Len(here.bg)
      /\ i # 0 => here.player[p].bgId = i
  BY <1>2, <1>3, AbroadFields DEF GetBattleGround
<1>5. PICK left : left = IF i = 0 THEN here
                ELSE [here EXCEPT !.bg[i].players = @ \cup {p},
                                  !.bg[i].offline = Append(@, p)]
  OBVIOUS
<1>6. Abroad(q, left, M, N)
  <2>1. CASE i = 0 BY <1>2, <1>5, <2>1
  <2>2. CASE i # 0
    <3>1. i \in 1..Len(here.bg) /\ here.bg[i] \in Battlegrounds
      BY <1>4, <2>2, WorldFields
    <3>2. PICK b : b = [here.bg[i] EXCEPT !.players = @ \cup {p}, !.offline = Append(@, p)]
      OBVIOUS
    <3>3. /\ b \in Battlegrounds /\ SameStanding(b, here.bg[i])
          /\ b.players = here.bg[i].players \cup {p}
      BY <3>1, Appended, <3>2 DEF Battlegrounds, SameStanding
    <3>4. left = [here EXCEPT !.bg[i] = b] BY <1>5, <2>2, <3>2
    <3>5. GroundSet(left, here, i, b) BY <1>4, <3>1, <3>3, <3>4, SettingGround
    <3>6. \A u \in b.players : u \in here.bg[i].players \/ here.player[u].bgId = i
      BY <1>4, <2>2, <3>3
    <3> QED BY <1>2, <3>1, <3>3, <3>5, <3>6, GroundAbroad
  <2> QED BY <2>1, <2>2
<1>7. PICK r : r = [left.player[p] EXCEPT !.online = FALSE, !.queued = FALSE,
                                          !.invite = 0, !.map = 0]
  OBVIOUS
<1>8. PICK out : out = [left EXCEPT !.player[p] = r] OBVIOUS
<1>9. Abroad(q, out, M, N) /\ out \in WorldStates
  <2>1. left \in WorldStates /\ left.player[p] \in Players
    BY <1>6, AbroadFields, WorldFields
  <2>2. r \in Players /\ Elsewhere(r, left.player[p])
    BY <1>7, <2>1 DEF Players, Elsewhere
  <2>3. PlayerSet(out, left, p, r) BY <1>8, <2>1, <2>2, SettingPlayer
  <2> QED BY <1>6, <2>2, <2>3, PlayerAbroad DEF PlayerSet
<1>10. PICK m : m = [op |-> "remove", who |-> p] OBVIOUS
<1>11. m \in QueueMessages /\ m.op = "remove" BY <1>10 DEF QueueMessages
<1>12. v = IF w.player[p].queued THEN Tell(out, m) ELSE out
  BY <1>7, <1>8, <1>1, <1>3, <1>5, <1>10 DEF LoggedOut
<1>13. Says(Tell(out, m), out, m) BY <1>9, <1>11, Saying
<1>14. Abroad(q, Tell(out, m), M, N) BY <1>9, <1>11, <1>13, PlainAbroad
<1> QED BY <1>9, <1>12, <1>14

LEMMA LoggedInAbroad ==
    ASSUME NEW q, NEW w, NEW M, NEW N, Abroad(q, w, M, N), NEW p \in Player, NEW v,
           v = LoggedIn(w, p)
    PROVE  Abroad(q, v, M, N)
<1>1. PICK i : i = w.player[p].bgId OBVIOUS
<1>2. PICK back \in BOOLEAN : back <=> (i # 0 /\ p \in w.bg[i].players) OBVIOUS
<1>3. w \in WorldStates /\ i \in 0..Len(w.bg) /\ w.player[p] \in Players
  BY <1>1, AbroadFields, WorldFields
<1>4. Away \in Players /\ \A old : Elsewhere(Away, old) BY DEF Away, Players, Elsewhere
<1>5. CASE back /\ w.bg[i].status # "waitLeave"
  <2>1. i \in 1..Len(w.bg) /\ w.bg[i] \in Battlegrounds /\ i \in Inst
    BY <1>2, <1>3, <1>5, WorldFields DEF Inst
  <2>2. PICK r : r = [w.player[p] EXCEPT !.online = TRUE, !.queued = TRUE, !.invite = i,
                                         !.map = i]
    OBVIOUS
  <2>3. r \in Players /\ r.bgId = i /\ r.map = i BY <1>1, <1>3, <2>1, <2>2 DEF Players
  <2>4. PICK x : x = [w EXCEPT !.player[p] = r] OBVIOUS
  <2>5. PlayerSet(x, w, p, r) BY <1>3, <2>3, <2>4, SettingPlayer
  <2>6. Abroad(q, x, M, N) BY <1>1, <2>3, <2>5, PlayerAbroad DEF Elsewhere
  <2>7. x \in WorldStates /\ x.bg = w.bg BY <2>5 DEF PlayerSet
  <2>8. PICK s : s = RemoveFirst(w.bg[i].offline, p) OBVIOUS
  <2>9. s \in Seq(Player) BY <2>1, <2>8, FirstFound, Removed DEF Battlegrounds
  <2>10. PICK b : b = [w.bg[i] EXCEPT !.offline = s] OBVIOUS
  <2>11. /\ b \in Battlegrounds /\ SameStanding(b, w.bg[i]) /\ b.players = w.bg[i].players
    BY <2>1, <2>9, <2>10 DEF Battlegrounds, SameStanding
  <2>12. v = [x EXCEPT !.bg[i] = b]
    BY <1>1, <1>2, <1>5, <2>2, <2>4, <2>7, <2>8, <2>10, Zenon DEF LoggedIn
  <2>13. GroundSet(v, x, i, b) BY <2>1, <2>7, <2>11, <2>12, SettingGround
  <2> QED BY <2>1, <2>6, <2>7, <2>11, <2>13, GroundAbroad
<1>6. CASE ~(back /\ w.bg[i].status # "waitLeave")
  <2>1. PICK x : x = IF back THEN RemovePlayerAtLeave(w, i, p) ELSE w OBVIOUS
  <2>2. Abroad(q, x, M, N) BY <1>2, <1>3, LeavingAbroad, <2>1
  <2>3. x \in WorldStates BY <2>2, AbroadFields
  <2>4. v = [x EXCEPT !.player[p] = Away] BY <1>1, <1>2, <1>6, <2>1, Zenon DEF LoggedIn
  <2>5. PlayerSet(v, x, p, Away) BY <1>4, <2>3, <2>4, SettingPlayer
  <2> QED BY <1>4, <2>2, <2>5, PlayerAbroad
<1> QED BY <1>5, <1>6

\* Every player leaves a battleground, or the first of those who are offline does.
LEMMA AllLeftAbroad ==
    ASSUME NEW q, NEW w, NEW M, NEW N, Abroad(q, w, M, N), NEW i \in 1..Len(w.bg)
    PROVE  Abroad(q, AllLeft(w, i), M, N)
<1> DEFINE Q == {x \in WorldStates : Abroad(q, x, M, N) /\ Len(x.bg) = Len(w.bg)}
<1>1. w \in Q BY AbroadFields
<1>2. SetToSeq(w.bg[i].players) \in Seq(Player)
  <2>1. w.bg[i].players \in SUBSET Player BY AbroadFields, WorldFields
  <2>2. IsFiniteSet(w.bg[i].players) BY <2>1, PairsWith
  <2>3. SetToSeq(w.bg[i].players) \in Seq(w.bg[i].players) BY <2>2, InOrder
  <2> QED BY <2>1, <2>3
<1>3. ASSUME NEW x \in Q, NEW p \in Player
      PROVE  RemovePlayerAtLeave(x, i, p) \in Q
  BY <1>3, LeavingAbroad DEF Left
<1> HIDE DEF Q
<1>4. AllLeft(w, i) \in Q BY <1>1, <1>2, <1>3, RemoveAllFold
<1> QED BY <1>4 DEF Q

LEMMA OfflineAbroad ==
    ASSUME NEW q, NEW w, NEW M, NEW N, Abroad(q, w, M, N), NEW i \in 1..Len(w.bg),
           w.bg[i].offline # <<>>, NEW v,
           v = [RemovePlayerAtLeave(w, i, Head(w.bg[i].offline))
                    EXCEPT !.bg[i].offline = Tail(@)]
    PROVE  Abroad(q, v, M, N)
<1>1. w \in WorldStates /\ w.bg[i].offline \in Seq(Player) BY AbroadFields, WorldFields
<1>2. PICK p \in Player : p = Head(w.bg[i].offline) BY <1>1, Taken
<1>3. PICK x : x = RemovePlayerAtLeave(w, i, p) OBVIOUS
<1>4. Abroad(q, x, M, N) /\ Left(x, w, i, p) BY <1>3, LeavingAbroad
<1>5. /\ x \in WorldStates /\ i \in 1..Len(x.bg) /\ x.bg[i].offline = w.bg[i].offline
  BY <1>4 DEF Left
<1>6. PICK b : b = [x.bg[i] EXCEPT !.offline = Tail(w.bg[i].offline)] OBVIOUS
<1>7. b \in Battlegrounds /\ SameStanding(b, x.bg[i]) /\ b.players = x.bg[i].players
  <2>1. x.bg[i] \in Battlegrounds BY <1>5, WorldFields
  <2>2. PICK s : s = Tail(w.bg[i].offline) OBVIOUS
  <2>3. s \in Seq(Player) BY <1>1, <2>2, Taken
  <2> QED BY <1>6, <2>1, <2>2, <2>3 DEF Battlegrounds, SameStanding
<1>8. v = [x EXCEPT !.bg[i] = b] BY <1>2, <1>3, <1>5, <1>6, Zenon
<1>9. GroundSet(v, x, i, b)
  <2>1. GroundSet([x EXCEPT !.bg[i] = b], x, i, b) BY <1>5, <1>7, SettingGround
  <2> QED BY <1>8, <2>1, Zenon
<1> QED BY <1>4, <1>5, <1>7, <1>9, GroundAbroad, Zenon

-----------------------------------------------------------------------------
(* The world takes a message.                                              *)

LEMMA TailPresent ==
    ASSUME NEW M \in Seq(WorldMessages), M # <<>>, NEW w
    PROVE  Present(w, Tail(M)) \subseteq Present(w, M)
BY Taken DEF Present

LEMMA TakingAbroad ==
    ASSUME NEW q, NEW w, NEW M, NEW N, Abroad(q, w, M, N), M # <<>>, Head(M).op # "create"
    PROVE  Abroad(q, w, Tail(M), N)
<1>1. /\ w \in WorldStates /\ WorldSound(w) /\ Len(w.bg) \in Nat
      /\ M \in Seq(WorldMessages) /\ Announced(Len(w.bg), Len(q.ids), M)
  BY AbroadFields
<1>2. PICK L : L = Tail(M) OBVIOUS
<1>3. Announced(Len(w.bg), Len(q.ids), L) BY <1>1, <1>2, AnnouncedTail
<1>4. Present(w, L) \subseteq Present(w, M) BY <1>1, <1>2, TailPresent
<1>5. Quietly(w, w) BY <1>1 DEF Quietly
<1>6. Abroad(q, w, L, N) BY <1>3, <1>4, <1>5, QuietAbroad
<1> QED BY <1>2, <1>6

LEMMA EnteredAbroad ==
    ASSUME NEW q, NEW w, NEW M, NEW N, Abroad(q, w, M, N), M # <<>>, Head(M).op = "enter",
           NEW p, p = Head(M).who, NEW i, i = Head(M).inst, NEW v, v = Entered(w, p, i)
    PROVE  Abroad(q, v, Tail(M), N)
<1>1. /\ w \in WorldStates /\ M \in Seq(WorldMessages) /\ Announced(Len(w.bg), Len(q.ids), M)
  BY AbroadFields
<1>2. i \in 1..Len(w.bg) /\ p \in Player /\ i \in Inst /\ Len(w.bg) \in Nat
  BY <1>1, Taken, AnnouncedTail, WorldSays, WorldFields DEF Inst
<1>3. PICK at : at = GetBattleGround(w, p) OBVIOUS
<1>4. PICK left : left = IF at = 0 THEN w ELSE RemovePlayerAtLeave(w, at, p) OBVIOUS
<1>5. Abroad(q, left, M, N) /\ Len(left.bg) = Len(w.bg)
  <2>1. CASE at = 0 BY <1>4, <2>1
  <2>2. CASE at # 0
    <3>1. at \in 1..Len(w.bg) BY <1>2, AbroadFields, <1>3, <2>2 DEF GetBattleGround
    <3>2. left = RemovePlayerAtLeave(w, at, p) BY <1>4, <2>2
    <3> QED BY <1>2, <3>1, <3>2, LeavingAbroad DEF Left
  <2> QED BY <2>1, <2>2
<1>6. left \in WorldStates /\ WorldSound(left) /\ left.player[p] \in Players
  BY <1>2, <1>5, AbroadFields, WorldFields
<1>7. PICK r : r = [left.player[p] EXCEPT !.bgId = i, !.map = 0, !.moving = TRUE]
  OBVIOUS
<1>8. r \in Players /\ r.bgId = i /\ r.map = 0 BY <1>2, <1>6, <1>7 DEF Players
<1>9. v = [left EXCEPT !.player[p] = r] BY <1>3, <1>4, <1>7 DEF Entered
<1>10. PlayerSet(v, left, p, r) BY <1>2, <1>6, <1>8, <1>9, SettingPlayer
<1>11. /\ v \in WorldStates /\ v.bg = left.bg /\ v.sent = left.sent /\ v.player[p] = r
       /\ \A u \in Player : u # p => v.player[u] = left.player[u]
  BY <1>10 DEF PlayerSet
<1>12. Quietly(v, left)
  BY <1>2, <1>5, <1>6, <1>8, <1>11 DEF Quietly, WorldSound, Lists, Over
<1>13. PICK L : L = Tail(M) OBVIOUS
<1>14. Announced(Len(v.bg), Len(q.ids), L) BY <1>1, <1>5, <1>11, <1>13, AnnouncedTail
<1>15. Present(v, L) \subseteq Present(left, M)
  <2>1. Present(left, L) \subseteq Present(left, M) BY <1>1, <1>13, TailPresent
  <2>2. 1 \in 1..Len(M) /\ Enter(M[1], i, p) BY <1>1, Taken DEF Enter
  <2>3. ASSUME NEW x \in Present(v, L), x # <<i, p>>
        PROVE  x \in Present(left, L)
    BY <2>3, <1>8, <1>11 DEF Present
  <2>4. <<i, p>> \in Present(left, M) BY <1>2, <2>2 DEF Present
  <2> QED BY <2>1, <2>3, <2>4
<1>16. Abroad(q, v, L, N) BY <1>5, <1>11, <1>12, <1>14, <1>15, QuietAbroad
<1> QED BY <1>13, <1>16

\* A battleground before anybody hears of it.
Blank(f) == [status |-> "none", players |-> {}, offline |-> <<>>, invited |-> f,
             listed |-> FALSE, closed |-> FALSE]

LEMMA CreatedAbroad ==
    ASSUME NEW q, NEW w, NEW M, NEW N, Abroad(q, w, M, N), M # <<>>, Head(M).op = "create",
           NEW m, m = Head(M), NEW v, v = Created(w, m)
    PROVE  Abroad(q, v, Tail(M), N)
<1>1. /\ w \in WorldStates /\ WorldSound(w) /\ M \in Seq(WorldMessages)
      /\ Announced(Len(w.bg), Len(q.ids), M) /\ Len(w.bg) \in Nat
      /\ w.bg \in Seq(Battlegrounds)
  BY AbroadFields, WorldFields
<1>2. m \in WorldMessages /\ m.invited \in Invited BY <1>1, Taken, WorldSays
<1>3. PICK L : L = Tail(M) OBVIOUS
<1>4. m.inst = Len(w.bg) + 1 /\ Announced(Len(w.bg) + 1, Len(q.ids), L)
  BY <1>1, <1>3, AnnouncedTail
<1>5. PICK b : b = Blank(m.invited) OBVIOUS
<1>6. /\ b \in Battlegrounds /\ b.players = {} /\ b.listed = FALSE /\ b.status = "none"
  BY <1>2, <1>5 DEF Status, Battlegrounds, Blank
<1>7. PICK f : f = Append(w.bg, b) OBVIOUS
<1>8. /\ f \in Seq(Battlegrounds) /\ Len(f) = Len(w.bg) + 1 /\ f[Len(w.bg) + 1] = b
      /\ \A j \in 1..Len(w.bg) : f[j] = w.bg[j]
  BY <1>1, <1>6, <1>7, Appended
<1>9. PICK x : x = [w EXCEPT !.bg = f] OBVIOUS
<1>10. x \in WorldStates /\ x.bg = f /\ x.player = w.player /\ x.sent = w.sent
  BY <1>1, <1>8, <1>9 DEF WorldStates
<1>11. \A j \in Inst : j <= Len(x.bg) =>
           \/ j <= Len(w.bg) /\ x.bg[j] = w.bg[j]
           \/ ~(j <= Len(w.bg)) /\ x.bg[j] = b
  BY <1>1, <1>8, <1>10 DEF Inst
<1>12. Len(x.bg) = Len(w.bg) + 1 /\ \A j \in Nat : j <= Len(w.bg) => j <= Len(x.bg)
  BY <1>1, <1>8, <1>10
<1>13. Quietly(x, w)
  <2>1. WorldSound(x) BY <1>1, WorldFields, <1>10, <1>12 DEF WorldSound
  <2>2. \A j \in Inst : (Lists(x, j) <=> Lists(w, j)) /\ (Over(x, j) <=> Over(w, j))
    BY <1>6, <1>11, <1>12 DEF Lists, Over, Inst
  <2> QED BY <1>1, <1>12, <2>1, <2>2 DEF Quietly
<1>14. Present(x, L) \subseteq Present(w, M)
  BY <1>1, <1>3, TailPresent, <1>6, <1>10, <1>11 DEF Present
<1>15. Abroad(q, x, L, N) BY <1>4, <1>10, <1>12, <1>13, <1>14, QuietAbroad
<1>16. PICK i \in 1..Len(x.bg) : i = m.inst BY <1>1, <1>4, <1>12
<1>17. ~Over(x, i) BY <1>4, <1>6, <1>8, <1>10, <1>16 DEF Over
<1>18. PICK y : y = SetStatus(x, i, "waitQueue") OBVIOUS
<1>19. {"waitQueue", "waitJoin"} \subseteq Status BY DEF Status
<1>20. Abroad(q, y, L, N) /\ Len(y.bg) = Len(x.bg) /\ ~Over(y, i)
  BY <1>15, <1>17, <1>18, <1>19, StatusAbroad
<1>21. PICK z : z = SetStatus(y, i, "waitJoin") OBVIOUS
<1>22. Abroad(q, z, L, N) BY <1>19, <1>20, <1>21, StatusAbroad
<1>23. v = z BY <1>5, <1>7, <1>9, <1>16, <1>18, <1>21 DEF Created, Blank
<1> QED BY <1>3, <1>22, <1>23

LEMMA ToldAbroad ==
    ASSUME NEW q, NEW w, NEW M, NEW N, Abroad(q, w, M, N), M # <<>>,
           NEW m, m = Head(M), m.op \in {"invite", "enter", "unqueue", "expired"},
           NEW v, v = Told(w, m)
    PROVE  Abroad(q, v, Tail(M), N)
<1>1. /\ w \in WorldStates /\ WorldSound(w) /\ M \in Seq(WorldMessages) BY AbroadFields
<1>2. m \in WorldMessages BY <1>1, Taken
<1>3. Abroad(q, w, Tail(M), N) BY TakingAbroad
<1>4. CASE m.op = "invite"
  <2>1. m.who \in Player /\ m.inst \in Inst /\ w.player[m.who] \in Players
    BY <1>1, <1>2, <1>4, WorldSays, WorldFields
  <2>2. CASE ~w.player[m.who].queued BY <1>3, <1>4, <2>2 DEF Told
  <2>3. CASE w.player[m.who].queued
    BY <2>1, <1>4, <2>3, <1>1, SettingPlayer, <1>3, PlayerAbroad DEF Players, Told,
       Elsewhere, WorldSound
  <2> QED BY <2>2, <2>3
<1>5. CASE m.op = "enter" BY <1>5, EnteredAbroad DEF Told
<1>6. CASE m.op = "unqueue"
  <2>1. m.who \in Player /\ w.player[m.who] \in Players
    BY <1>1, <1>2, <1>6, WorldSays, WorldFields
  <2>2. PICK r : r = [w.player[m.who] EXCEPT !.queued = FALSE, !.invite = 0] OBVIOUS
  <2>3. r \in Players /\ r.bgId = w.player[m.who].bgId /\ r.map = w.player[m.who].map
    BY <2>1, <2>2 DEF Players
  <2>4. v = [w EXCEPT !.player[m.who] = r] BY <1>6, <2>2 DEF Told
  <2>5. PlayerSet(v, w, m.who, r) BY <1>1, <2>1, <2>3, <2>4, SettingPlayer
  <2>6. Elsewhere(r, w.player[m.who]) BY <1>1, <2>1, <2>3 DEF Elsewhere, WorldSound
  <2> QED BY <1>3, <2>1, <2>3, <2>5, <2>6, PlayerAbroad
<1>7. CASE m.op = "expired"
  BY <1>2, <1>7, WorldSays, <1>3, <1>1, Saying, PlainAbroad DEF Told, Expired,
     QueueMessages
<1> QED BY <1>4, <1>5, <1>6, <1>7

LEMMA WorldTakes ==
    ASSUME NEW q, NEW w, NEW M, NEW N, Abroad(q, w, M, N), M # <<>>,
           NEW v, v = Done(w, Head(M))
    PROVE  Abroad(q, v, Tail(M), N)
<1>1. /\ w \in WorldStates /\ WorldSound(w) /\ M \in Seq(WorldMessages) /\ Len(w.bg) \in Nat
      /\ Announced(Len(w.bg), Len(q.ids), M)
  BY AbroadFields
<1>2. PICK m : m = Head(M) OBVIOUS
<1>3. m \in WorldMessages /\ m.op # "full" BY <1>1, <1>2, Taken, AnnouncedTail
<1>4. CASE m.op = "create" BY <1>2, <1>4, CreatedAbroad DEF Done
<1>5. ASSUME m.op # "create"
      PROVE  Abroad(q, w, Tail(M), N)
  BY <1>2, <1>5, TakingAbroad
<1>6. CASE m.op = "joined"
  <2>1. PICK f : f = [p \in Player |->
                IF p \in m.members /\ InWorld(w, p)
                THEN [w.player[p] EXCEPT !.queued = TRUE, !.invite = 0] ELSE w.player[p]]
    OBVIOUS
  <2>2. \A p \in Player : f[p] \in Players /\ f[p].bgId = w.player[p].bgId
                          /\ f[p].map = w.player[p].map
    <3>1. ASSUME NEW p \in Player
          PROVE  /\ f[p] \in Players /\ f[p].bgId = w.player[p].bgId
                 /\ f[p].map = w.player[p].map
      <4>1. w.player[p] \in Players BY <1>1, WorldFields
      <4>2. f[p] \in {w.player[p], [w.player[p] EXCEPT !.queued = TRUE, !.invite = 0]}
        BY <2>1
      <4>3. PICK r : r = [w.player[p] EXCEPT !.queued = TRUE, !.invite = 0] OBVIOUS
      <4>4. r \in Players /\ r.bgId = w.player[p].bgId /\ r.map = w.player[p].map
        BY <4>1, <4>3 DEF Players
      <4>5. f[p] = w.player[p] \/ f[p] = r BY <4>2, <4>3
      <4> QED BY <4>1, <4>4, <4>5
    <3> QED BY <3>1
  <2>3. f \in [Player -> Players] BY <2>1, <2>2
  <2>4. PICK x : x = [w EXCEPT !.player = f] OBVIOUS
  <2>5. v = x BY <1>2, <1>6, <2>1, <2>4, Zenon DEF Done
  <2>6. x \in WorldStates /\ x.bg = w.bg /\ x.sent = w.sent /\ x.player = f
    BY <1>1, <2>3, <2>4 DEF WorldStates
  <2>7. /\ Quietly(x, w) /\ Present(x, Tail(M)) \subseteq Present(w, Tail(M))
        /\ Len(x.bg) = Len(w.bg)
    BY <1>1, <2>2, <2>6 DEF Quietly, WorldSound, Lists, Over, Present
  <2>8. Abroad(q, w, Tail(M), N) /\ Announced(Len(x.bg), Len(q.ids), Tail(M))
    BY <1>5, <1>6, <2>7, AbroadFields
  <2> QED BY <2>5, <2>6, <2>7, <2>8, QuietAbroad
<1>7. CASE m.op = "count"
  <2>1. m.inst \in Inst /\ m.team \in Team /\ m.n \in Int BY <1>3, <1>7, WorldSays
  <2>2. CASE ~(m.inst <= Len(w.bg)) BY <1>2, <1>7, <2>2, <1>5 DEF Done
  <2>3. CASE m.inst <= Len(w.bg)
    <3>1. PICK i \in 1..Len(w.bg) : i = m.inst BY <1>1, <2>1, <2>3 DEF Inst
    <3>2. w.bg[i] \in Battlegrounds BY <1>1, WorldFields
    <3>3. PICK f : f = [w.bg[i].invited EXCEPT ![m.team] = m.n] OBVIOUS
    <3>4. f \in Invited BY <2>1, <3>2, <3>3 DEF Battlegrounds, Invited
    <3>5. PICK b : b = [w.bg[i] EXCEPT !.invited = f] OBVIOUS
    <3>6. /\ b \in Battlegrounds /\ SameStanding(b, w.bg[i])
          /\ b.players = w.bg[i].players
      BY <3>2, <3>4, <3>5 DEF Battlegrounds, SameStanding
    <3>7. v = [w EXCEPT !.bg[i] = b] BY <1>2, <1>7, <2>3, <3>1, <3>3, <3>5 DEF Done
    <3>8. GroundSet(v, w, i, b) BY <1>1, <3>6, <3>7, SettingGround
    <3> QED BY <1>5, <1>7, <3>6, <3>8, GroundAbroad
  <2> QED BY <2>2, <2>3
<1>8. CASE m.op \in {"invite", "enter", "unqueue", "expired"}
  BY <1>2, <1>8, ToldAbroad, <1>5, Zenon DEF Done
<1> QED BY <1>3, <1>4, <1>6, <1>7, <1>8, WorldSays

-----------------------------------------------------------------------------
(* A step of the system.                                                   *)

Timers == [who : Player, inst : Inst, stamp : Gid]
DidStates == [joins : 0..MaxJoins, others : 0..MaxOthers, lost : BOOLEAN, left : BOOLEAN]
Settled == queue.sent = <<>> /\ world.sent = <<>> /\ timers \in SUBSET Timers /\ did \in DidStates

\* The inductive invariant.
IInv == Agreed(queue, world, toWorld, toQueue) /\ Settled

LEMMA Emptied ==
    ASSUME NEW q, NEW w, NEW M, NEW N, Agreed(q, w, M, N), NEW r,
           r = [q EXCEPT !.sent = <<>>]
    PROVE  Agreed(r, w, M, N) /\ r.sent = <<>>
<1>1. /\ Balanced(q, FreshOnes(w), Present(w, M)) /\ WorldSound(w)
      /\ Announced(Len(w.bg), Len(q.ids), M)
      /\ N \in Seq(QueueMessages) /\ QueueNews(w, N)
      /\ \A i \in 1..Len(q.ids) : Phase(q, w, N, i)
  BY DEF Agreed
<1>2. q \in QueueStates BY <1>1 DEF Balanced, SoundQueue
<1>3. /\ r \in QueueStates /\ r.groups = q.groups /\ r.list = q.list /\ r.of = q.of
      /\ r.slots = q.slots /\ r.ids = q.ids /\ r.sent = <<>>
  <2>1. PICK e \in Seq(WorldMessages) : e = <<>>
    <3>1. <<>> \in Seq(WorldMessages) OBVIOUS
    <3> QED BY <3>1, Zenon
  <2>2. r = [q EXCEPT !.sent = e] BY <2>1
  <2>3. /\ r \in QueueStates /\ r.groups = q.groups /\ r.list = q.list /\ r.of = q.of
        /\ r.slots = q.slots /\ r.ids = q.ids /\ r.sent = e
    BY ONLY <1>2, <2>2, e \in Seq(WorldMessages) DEF QueueStates
  <2> QED BY <2>1, <2>3
<1>4. Alike(r, q) BY <1>3 DEF Alike
<1>5. Balanced(r, FreshOnes(w), Present(w, M)) BY <1>1, <1>4, AlikeParts
<1>6. \A i : Phase(q, w, N, i) => Phase(r, w, N, i) BY <1>3 DEF Phase, Single, Double
<1> QED BY <1>1, <1>3, <1>5, <1>6 DEF Agreed

LEMMA SentHome ==
    ASSUME NEW q, NEW w, NEW M, NEW N, Abroad(q, w, M, N), NEW v,
           v = [w EXCEPT !.sent = <<>>], NEW L, L = N \o w.sent
    PROVE  Agreed(q, v, M, L) /\ v.sent = <<>>
<1>1. /\ Balanced(q, FreshOnes(w), Present(w, M)) /\ WorldSound(w)
      /\ Announced(Len(w.bg), Len(q.ids), M)
      /\ L \in Seq(QueueMessages) /\ QueueNews(w, L)
      /\ \A i \in 1..Len(q.ids) : Phase(q, w, L, i)
  BY DEF Abroad, Agreed
<1>2. v \in WorldStates /\ v.player = w.player /\ v.bg = w.bg /\ v.sent = <<>>
  <2>1. PICK e \in Seq(QueueMessages) : e = <<>>
    <3>1. <<>> \in Seq(QueueMessages) OBVIOUS
    <3> QED BY <3>1, Zenon
  <2>2. v = [w EXCEPT !.sent = e] /\ w \in WorldStates BY <1>1, <2>1 DEF WorldSound
  <2>3. v \in WorldStates /\ v.player = w.player /\ v.bg = w.bg /\ v.sent = e
    BY ONLY <2>2, e \in Seq(QueueMessages) DEF WorldStates
  <2> QED BY <2>1, <2>3
<1>3. WorldSound(v) BY <1>1, <1>2 DEF WorldSound
<1>4. \A i : (Lists(v, i) <=> Lists(w, i)) /\ (Over(v, i) <=> Over(w, i))
  BY <1>2 DEF Lists, Over
<1>5. FreshOnes(v) = FreshOnes(w) BY <1>4 DEF FreshOnes
<1>6. Present(v, M) = Present(w, M) BY <1>2 DEF Present
<1>7. QueueNews(v, L) BY <1>1, <1>2, <1>5 DEF QueueNews
<1>8. \A i : Phase(q, w, L, i) => Phase(q, v, L, i) BY <1>4 DEF Phase, Leaving
<1> QED BY <1>1, <1>2, <1>3, <1>5, <1>6, <1>7, <1>8 DEF Agreed

\* From the state of IInv, and back to it.
LEMMA GoingAbroad ==
    ASSUME IInv
    PROVE  Abroad(queue, world, toWorld, toQueue)
BY DEF IInv, Settled, Agreed, Abroad

LEMMA ComingHome ==
    ASSUME NEW w, NEW M, Abroad(queue, w, M, toQueue), WorldBecomes(w), queue' = queue,
           toWorld' = M
    PROVE  Agreed(queue, world, toWorld, toQueue)' /\ (world.sent = <<>>)'
BY SentHome DEF WorldBecomes

LEMMA Beginning ==
    ASSUME Init
    PROVE  IInv
<1>1. /\ queue.groups = <<>> /\ queue.slots = <<>> /\ queue.ids = <<>> /\ queue.sent = <<>>
      /\ \A t \in Team, kind \in Kind : queue.list[t][kind] = <<>>
      /\ \A p \in Player : queue.of[p] = 0
  BY DEF Init
<1>2. queue \in QueueStates BY DEF Init, QueueStates
<1>3. SoundQueue(queue) BY <1>1, <1>2 DEF Grouped, Queued, OneTeam, Numbered, SoundQueue
<1>4. Balanced(queue, FreshOnes(world), Present(world, toWorld))
  BY <1>1, <1>3 DEF Singles, Covered, Bounded, Balanced
<1>5. world.bg = <<>> /\ world.sent = <<>> /\ world.player = [p \in Player |-> Away]
      /\ toWorld = <<>> /\ toQueue = <<>>
  BY DEF Init
<1>6. WorldSound(world) BY <1>5 DEF Away, Players, Init, WorldStates, WorldSound
<1>7. Announced(Len(world.bg), Len(queue.ids), toWorld)
  BY <1>1, <1>5 DEF Announced, Foretold, InTurn, Known, NoneFull
<1>8. toQueue \in Seq(QueueMessages) /\ QueueNews(world, toQueue) BY <1>5 DEF QueueNews
<1>9. \A i \in 1..Len(queue.ids) : Phase(queue, world, toQueue, i) BY <1>1
<1>10. Settled BY QueueAssumption, <1>1, <1>5 DEF Init, DidStates, Settled
<1> QED BY <1>4, <1>6, <1>7, <1>8, <1>9, <1>10 DEF IInv, Agreed

\* The bounds of the requests.
LEMMA Counting ==
    ASSUME did \in DidStates, NEW request, Count(request)
    PROVE  did' \in DidStates
BY QueueAssumption DEF DidStates, Count

\* Steps of the queue.
LEMMA QueueStep ==
    ASSUME IInv, QueueThread
    PROVE  IInv'
<1>1. Agreed(queue, world, toWorld, toQueue) /\ queue.sent = <<>> /\ Settled
  BY DEF IInv, Settled
<1>2. ASSUME NEW r, NEW N, Agreed(r, world, toWorld \o r.sent, N), QueueBecomes(r), toQueue' = N,
             UNCHANGED <<world, timers, did>>
      PROVE  IInv'
  BY <1>2, Emptied, <1>1 DEF QueueBecomes, IInv, Settled
<1>3. CASE RunQueueMessage BY <1>1, <1>3, QueueTakes, <1>2 DEF RunQueueMessage
<1>4. CASE UpdateQueue BY <1>4, <1>1, QueueUpdates, <1>2 DEF UpdateQueue
<1> QED BY <1>3, <1>4 DEF QueueThread

\* A step of the world that sends its messages and keeps the others.
LEMMA WorldStep ==
    ASSUME IInv, NEW w, Abroad(queue, w, toWorld, toQueue), WorldBecomes(w),
           UNCHANGED <<queue, toWorld>>, timers' \in SUBSET Timers, did' \in DidStates
    PROVE  IInv'
BY ComingHome DEF IInv, Settled

LEMMA MessageStep ==
    ASSUME IInv, RunWorldMessage
    PROVE  IInv'
<1>1. Abroad(queue, world, toWorld, toQueue) BY GoingAbroad
<1>2. /\ toWorld # <<>> /\ WorldBecomes(Done(world, Head(toWorld)))
      /\ toWorld' = Tail(toWorld) /\ queue' = queue /\ did' = did
  BY DEF RunWorldMessage
<1>3. PICK v : v = Done(world, Head(toWorld)) OBVIOUS
<1>4. Abroad(queue, v, Tail(toWorld), toQueue) BY <1>1, <1>2, <1>3, WorldTakes
<1>5. WorldBecomes(v) BY <1>2, <1>3
<1>6. Agreed(queue, world, toWorld, toQueue)' /\ (world.sent = <<>>)'
  BY <1>2, <1>4, <1>5, ComingHome
<1>7. timers' \in SUBSET Timers
  BY <1>1, AbroadFields, <1>2 DEF WorldMessages, Timers, IInv, Settled, RunWorldMessage
<1> QED BY <1>2, <1>6, <1>7 DEF IInv, Settled

LEMMA TimerStep ==
    ASSUME IInv, NEW x \in timers, FireTimer(x)
    PROVE  IInv'
<1>1. /\ Agreed(queue, world, toWorld, toQueue) /\ queue.sent = <<>> /\ world.sent = <<>>
      /\ timers \in SUBSET Timers /\ did \in DidStates
  BY DEF IInv, Settled
<1>2. PICK m : m = [op |-> "expired", who |-> x.who, inst |-> x.inst, stamp |-> x.stamp]
  OBVIOUS
<1>3. m \in Plain BY <1>1, <1>2 DEF Plain, WorldMessages, Timers
<1>4. toWorld \in Seq(WorldMessages) BY <1>1 DEF Agreed, Announced
<1>5. PICK M : M = Append(toWorld, m) OBVIOUS
<1>6. M = toWorld \o <<m>> /\ <<m>> \in Seq(Plain) BY <1>3, <1>4, <1>5 DEF Plain
<1>7. /\ Balanced(queue, FreshOnes(world), Present(world, toWorld)) /\ WorldSound(world)
      /\ Announced(Len(world.bg), Len(queue.ids), toWorld)
      /\ toQueue \in Seq(QueueMessages) /\ QueueNews(world, toQueue)
      /\ \A i \in 1..Len(queue.ids) : Phase(queue, world, toQueue, i)
  BY <1>1 DEF Agreed
<1>8. Announced(Len(world.bg), Len(queue.ids), M) BY <1>6, <1>7, AnnouncedPlain
<1>9. Present(world, M) \in SUBSET Present(world, toWorld) BY <1>4, <1>6, PresentPlain
<1>10. Balanced(queue, FreshOnes(world), Present(world, M)) BY <1>7, <1>9, LessBalanced
<1>11. Agreed(queue, world, M, toQueue) BY <1>7, <1>8, <1>10 DEF Agreed
<1>12. /\ toWorld' = M /\ timers' = timers \ {x} /\ Count("timeout")
       /\ queue' = queue /\ toQueue' = toQueue /\ world' = world
  BY <1>2, <1>5 DEF FireTimer
<1>13. did' \in DidStates BY <1>1, <1>12, Counting
<1> QED BY <1>1, <1>11, <1>12, <1>13 DEF IInv, Settled

\* A request puts a message for the queue.
LEMMA RequestStep ==
    ASSUME IInv, NEW m \in QueueMessages, m.op \notin {"add", "drop", "lower"},
           toQueue' = Append(toQueue, m), UNCHANGED <<queue, world, toWorld, timers>>,
           did' \in DidStates
    PROVE  IInv'
BY PlainAgreed DEF IInv, Settled

LEMMA JoinStep ==
    ASSUME IInv, NEW S \in Party, NEW d \in {0} \cup ToSet(queue.ids), Join(S, d)
    PROVE  IInv'
<1>1. did \in DidStates /\ queue.ids \in Seq(Nat)
  BY QueueFields DEF IInv, Settled, Agreed, Balanced, SoundQueue
<1>2. d \in Nat BY <1>1 DEF ToSet
<1>3. PICK request : Count(request) BY DEF Join
<1>4. did' \in DidStates BY <1>1, <1>3, Counting
<1>5. PICK b \in BOOLEAN : b = (Cardinality(S) > 1 /\ Cardinality(S) >= MinPerTeam)
  OBVIOUS
<1>6. PICK m : m = [op |-> "join", members |-> S, desired |-> d, premade |-> b] OBVIOUS
<1>7. m \in QueueMessages /\ m.op = "join" BY <1>2, <1>6 DEF QueueMessages
<1>8. toQueue' = Append(toQueue, m) /\ UNCHANGED <<queue, world, toWorld, timers>>
  BY <1>5, <1>6 DEF Join
<1> QED BY <1>4, <1>7, <1>8, RequestStep

LEMMA ClientStep ==
    ASSUME IInv, NEW p \in Player, Client(p)
    PROVE  IInv'
<1>1. Abroad(queue, world, toWorld, toQueue) /\ did \in DidStates /\ timers \in SUBSET Timers
  BY GoingAbroad DEF IInv, Settled
<1>2. /\ world \in WorldStates /\ world.player[p] \in Players
      /\ world.player[p].bgId \in 0..Len(world.bg)
      /\ world.player[p].map \in {0, world.player[p].bgId}
      /\ Len(world.bg) \in Nat
  BY <1>1, AbroadFields, WorldFields
<1>3. ASSUME NEW enter \in BOOLEAN, AskPort(p, enter)
      PROVE  IInv'
  BY <1>1, <1>3, Counting, RequestStep DEF QueueMessages, AskPort
<1>4. CASE AskLeave(p)
  BY <1>2, <1>4, <1>1, LeavingAbroad, Counting, WorldStep DEF AskLeave, GetBattleGround
<1>5. CASE Travel(p)
  <2>1. PICK r : r = [world.player[p] EXCEPT !.moving = TRUE] OBVIOUS
  <2>2. r \in Players /\ Elsewhere(r, world.player[p])
    BY <1>2, <2>1 DEF Players, Elsewhere
  <2>3. PICK v : v = [world EXCEPT !.player[p] = r] OBVIOUS
  <2>4. PlayerSet(v, world, p, r) BY <1>2, <2>2, <2>3, SettingPlayer
  <2>5. Abroad(queue, v, toWorld, toQueue) BY <1>1, <2>2, <2>4, PlayerAbroad
  <2>6. did' \in DidStates BY <1>1, <1>5, Counting DEF Travel
  <2>7. v = [world EXCEPT !.player[p].moving = TRUE] BY <2>1, <2>3
  <2>8. WorldBecomes(v) /\ UNCHANGED <<queue, toWorld, timers>> BY <1>5, <2>7 DEF Travel
  <2> QED BY <1>1, <2>5, <2>6, <2>8, WorldStep
<1>6. CASE Logout(p) BY <1>1, LoggedOutAbroad, <1>6, Counting, WorldStep DEF Logout
<1>7. CASE Login(p) BY <1>1, LoggedInAbroad, <1>7, WorldStep DEF Login
<1> QED BY <1>3, <1>4, <1>5, <1>6, <1>7 DEF Client

LEMMA ArriveStep ==
    ASSUME IInv, NEW p \in Player, Arrive(p)
    PROVE  IInv'
BY GoingAbroad, ArrivedAbroad, WorldStep DEF IInv, Settled, Arrive

LEMMA MapsStep ==
    ASSUME IInv, NEW i \in 1..Len(world.bg), UpdateMap(i)
    PROVE  IInv'
<1>1. Abroad(queue, world, toWorld, toQueue) /\ did \in DidStates /\ timers \in SUBSET Timers
  BY GoingAbroad DEF IInv, Settled
<1>2. world \in WorldStates /\ world.bg[i] \in Battlegrounds
  BY <1>1, AbroadFields, WorldFields
<1>3. ASSUME NEW v, Abroad(queue, v, toWorld, toQueue), MapStep(v)
      PROVE  IInv'
  BY <1>3, <1>1, WorldStep DEF MapStep
<1>4. CASE CloseMap(i)
  <2>1. PICK b : b = [world.bg[i] EXCEPT !.closed = TRUE] OBVIOUS
  <2>2. b \in Battlegrounds /\ SameStanding(b, world.bg[i]) /\ b.players = world.bg[i].players
    BY <1>2, <2>1 DEF Battlegrounds, SameStanding
  <2>3. PICK x : x = [world EXCEPT !.bg[i] = b] OBVIOUS
  <2>4. GroundSet(x, world, i, b) BY <1>2, <2>2, <2>3, SettingGround
  <2>5. Abroad(queue, x, toWorld, toQueue) BY <1>1, <2>2, <2>4, GroundAbroad
  <2>6. i \in 1..Len(x.bg) BY <2>4 DEF GroundSet
  <2>7. PICK v : v = Ended(x, i) OBVIOUS
  <2>8. Abroad(queue, v, toWorld, toQueue) BY <2>5, <2>6, <2>7, EndedAbroad
  <2>9. x = [world EXCEPT !.bg[i].closed = TRUE] BY <2>1, <2>3
  <2>10. MapStep(v) BY <1>4, <2>7, <2>9 DEF CloseMap
  <2> QED BY <1>3, <2>8, <2>10
<1>5. CASE OpenGates(i) BY <1>5, <1>1, StatusAbroad, <1>3 DEF OpenGates, Over, Status
<1>6. CASE EndBattle(i) BY <1>1, EndedAbroad, <1>6, <1>3 DEF EndBattle
<1>7. CASE RemoveAll(i) BY <1>1, AllLeftAbroad, <1>7, <1>3 DEF RemoveAll
<1>8. CASE RemoveOffline(i) BY <1>1, <1>8, OfflineAbroad, <1>3, Zenon DEF RemoveOffline
<1> QED BY <1>4, <1>5, <1>6, <1>7, <1>8 DEF UpdateMap

LEMMA NextStep ==
    ASSUME IInv, [Next]_vars
    PROVE  IInv'
BY QueueStep, MessageStep, TimerStep, JoinStep, ClientStep, ArriveStep, MapsStep DEF vars,
   IInv, Settled, Next

LEMMA Invariance == Spec => []IInv
<1>1. Init => IInv BY Beginning
<1>2. IInv /\ [Next]_vars => IInv' BY NextStep
<1> QED BY <1>1, <1>2, PTL DEF Spec

-----------------------------------------------------------------------------
(* What the inductive invariant says of the properties.                    *)

LEMMA TypesHold ==
    ASSUME IInv
    PROVE  TypeOK
BY DEF IInv, Settled, Agreed, Balanced, SoundQueue, WorldSound, Announced, QueueStates,
   WorldStates, TypeOK, Timers, DidStates

LEMMA SlotsHold ==
    ASSUME IInv
    PROVE  InvitedHasSlot
<1>1. /\ SoundQueue(queue) /\ queue \in QueueStates
      /\ \A i \in 1..Len(queue.ids) : Phase(queue, world, toQueue, i)
  BY DEF IInv, Agreed, Balanced, SoundQueue
<1>2. ASSUME NEW g \in 1..Len(queue.groups), queue.groups[g].invited # 0
      PROVE  SlotAt(queue, queue.groups[g].invited) # 0
  <2> DEFINE i == queue.groups[g].invited
  <2>1. i \in Nat /\ i <= Len(queue.ids) /\ Len(queue.ids) \in Nat
    BY <1>1, QueueFields DEF SoundQueue, OneTeam
  <2>2. Phase(queue, world, toQueue, i) BY <1>1, <1>2, <2>1
  <2> HIDE DEF i
  <2>3. \E k \in 1..Len(queue.slots) : queue.slots[k].inst = i
    BY <2>2 DEF Phase, Single, Double
  <2>4. Len(queue.slots) \in Nat BY <1>1, QueueFields
  <2>5. SlotAt(queue, i) # 0 BY <1>1, <2>3, <2>4, SlotFound
  <2> QED BY <2>5 DEF i
<1> QED BY <1>2 DEF InvitedHasSlot

\* Whoever has a claim has a place.
LEMMA ClaimsPlaced ==
    ASSUME IInv, NEW i \in Inst, NEW t \in Team
    PROVE  LET S == Places(queue, Present(world, toWorld), i, t) IN
           Cardinality(Claims(i, t)) <= Cardinality(S)
           /\ Cardinality(Claims(i, t)) \in Nat /\ Cardinality(S) \in Nat
<1> DEFINE S == Places(queue, Present(world, toWorld), i, t)
           T == {x[2] : x \in S}
           C == Claims(i, t)
<1>1. /\ SoundQueue(queue) /\ queue \in QueueStates /\ Len(queue.groups) \in Nat
      /\ world \in WorldStates /\ toWorld \in Seq(WorldMessages)
  BY QueueFields DEF IInv, Agreed, Balanced, SoundQueue, WorldSound, Announced
<1>2. IsFiniteSet(S) /\ Cardinality(S) \in Nat BY <1>1, PlacesFinite
<1>3. IsFiniteSet(T) /\ Cardinality(T) <= Cardinality(S)
  <2> HIDE DEF S
  <2>1. PICK f : f = [x \in S |-> x[2]] OBVIOUS
  <2>2. f \in Surjection(S, T) BY <2>1 DEF Surjection
  <2> HIDE DEF T
  <2> QED BY <1>2, <2>2, FS_Surjection
<1>4. ASSUME NEW p \in C
      PROVE  p \in T
  <2>1. p \in Inside(i) \cup OnTheWay(i) \cup MayAccept(i) /\ TeamOf(p) = t
    BY DEF Claims
  <2>2. ASSUME p \in Player, <<i, p>> \in Present(world, toWorld)
        PROVE  p \in T
    <3>1. PICK x \in {0} \X Player : x = <<0, p>> BY <2>2
    <3>2. x \in S /\ x[2] = p BY <2>1, <2>2, <3>1 DEF Places
    <3> HIDE DEF S
    <3> QED BY <3>2
  <2>3. CASE p \in Inside(i)
    <3>1. i \in 1..Len(world.bg) /\ p \in world.bg[i].players
      BY <2>3, <1>1, WorldFields DEF Inside, Inst
    <3>2. p \in Player BY <1>1, <3>1, WorldFields
    <3> HIDE DEF T
    <3>3. <<i, p>> \in Present(world, toWorld) BY <3>1, <3>2 DEF Present
    <3> QED BY <2>2, <3>2, <3>3
  <2>4. CASE p \in {u \in Player : world.player[u].moving /\ world.player[u].bgId = i}
    BY <2>4, <2>2 DEF Present
  <2>5. CASE p \in {m.who : m \in {e \in InFlight(toWorld, "enter") : e.inst = i}}
    <3>1. PICK m \in ToSet(toWorld) : m.op = "enter" /\ m.inst = i /\ m.who = p
      BY <2>5 DEF InFlight
    <3>2. PICK n \in 1..Len(toWorld) : toWorld[n] = m BY <1>1, <3>1 DEF ToSet
    <3>3. p \in Player BY <1>1, <3>1, <3>2 DEF WorldMessages
    <3> HIDE DEF T
    <3>4. <<i, p>> \in Present(world, toWorld) BY <3>1, <3>2, <3>3 DEF Present, Enter
    <3> QED BY <2>2, <3>3, <3>4
  <2>6. CASE p \in MayAccept(i)
    <3>1. PICK g \in 1..Len(queue.groups) : queue.groups[g].invited = i /\ p \in queue.groups[g].players
      BY <2>6 DEF MayAccept, Asked
    <3>2. queue.groups[g].team = t /\ p \in Player
      BY <1>1, <2>1, <3>1, QueueFields DEF SoundQueue, OneTeam
    <3>3. PICK x \in (1..Len(queue.groups)) \X Player : x = <<g, p>> BY <3>1, <3>2
    <3>4. x \in S /\ x[2] = p BY <3>1, <3>2, <3>3 DEF Places
    <3> HIDE DEF S
    <3> QED BY <3>4
  <2> QED BY <2>1, <2>3, <2>4, <2>5, <2>6 DEF OnTheWay
<1>5. C \subseteq T BY <1>4
<1> HIDE DEF C, S, T
<1>6. Cardinality(C) \in Nat /\ Cardinality(C) <= Cardinality(T) /\ Cardinality(T) \in Nat
  BY <1>3, <1>5, Fewer, FS_CardinalityType
<1>7. Cardinality(C) <= Cardinality(S) BY <1>2, <1>3, <1>6
<1> QED BY <1>2, <1>6, <1>7 DEF C, S

\* An instance that is fresh has no more claims than a team has players.
LEMMA FreshBounded ==
    ASSUME IInv, NEW i \in 1..Len(queue.ids), NEW t \in Team, i \in FreshOnes(world)
    PROVE  Cardinality(Claims(i, t)) <= MaxPerTeam
<1> DEFINE S == Places(queue, Present(world, toWorld), i, t)
<1>1. /\ Balanced(queue, FreshOnes(world), Present(world, toWorld)) /\ queue \in QueueStates
      /\ i \in Inst
  BY DEF IInv, Agreed, Balanced, SoundQueue, Inst
<1>2. PICK k \in 1..Len(queue.slots) : queue.slots[k].inst = i
  BY <1>1 DEF Balanced, Singles, Single
<1>3. /\ Cardinality(S) <= queue.slots[k].invited[t] /\ queue.slots[k].invited[t] <= MaxPerTeam
      /\ queue.slots[k].invited[t] \in Int
  BY <1>1, <1>2, QueueFields DEF Balanced, Covered, Bounded
<1>4. Cardinality(Claims(i, t)) <= Cardinality(S) /\ Cardinality(S) \in Nat
      /\ Cardinality(Claims(i, t)) \in Nat
  BY <1>1, ClaimsPlaced
<1>5. MaxPerTeam \in Nat BY QueueAssumption
<1> HIDE DEF S
<1> QED BY <1>3, <1>4, <1>5

-----------------------------------------------------------------------------
(* What is under way about a player, as long as nobody logs out.           *)

IsJoin(m, p) == m.op = "join" /\ p \in m.members
IsAct(m, p) == m.op \in {"port", "expire"} /\ m.who = p
IsJoined(m, p) == m.op = "joined" /\ p \in m.members
IsReply(m, p) == m.op \in {"unqueue", "enter"} /\ m.who = p

\* The group of the player is of, and r is his record; M and N are on their way to
\* the world and the queue.  What his n-th message in N asks for is void: he is
\* not in the queue when it is read.
NoJoin(N, p) == \A k \in 1..Len(N) : ~IsJoin(N[k], p)
Void(of, N, p, n) == of = 0 /\ \A k \in 1..Len(N) : k < n => ~IsJoin(N[k], p)
Out(of, r, N, p) == r.queued /\ of = 0 /\ NoJoin(N, p)
\* Whoever joins anew has left the queue before, and so has who lost its id.
Ordered(of, N, p) == \A n, j \in 1..Len(N) :
    n < j /\ IsAct(N[n], p) /\ IsJoin(N[j], p) => Void(of, N, p, n)
Vain(of, r, N, p) == ~r.queued =>
    \A n \in 1..Len(N) : IsAct(N[n], p) => Void(of, N, p, n)
\* A reply is the last of what the queue tells him.
LastReply(M, p, u) == \A k \in 1..Len(M) :
    (IsReply(M[k], p) => k = u) /\ (IsJoined(M[k], p) => k < u)
Answered(of, r, M, N, p) == \A u \in 1..Len(M) :
    IsReply(M[u], p) => Out(of, r, N, p) /\ LastReply(M, p, u)
\* Who is bound for a battleground, or in it, hears nothing more.
Silent(M, p) == \A k \in 1..Len(M) : ~IsReply(M[k], p) /\ ~IsJoined(M[k], p)
Bound(of, r, M, N, p) == r.bgId # 0 => Out(of, r, N, p) /\ Silent(M, p)
Channel(of, r, M, N, p) ==
    /\ Ordered(of, N, p) /\ Vain(of, r, N, p)
    /\ Answered(of, r, M, N, p) /\ Bound(of, r, M, N, p)

\* The queue takes the first message.
LEMMA TailChannel ==
    ASSUME NEW of, NEW r, NEW M, NEW N \in Seq(QueueMessages), NEW p, N # <<>>,
           ~IsJoin(Head(N), p), Channel(of, r, M, N, p)
    PROVE  Channel(of, r, M, Tail(N), p) /\ (NoJoin(N, p) => NoJoin(Tail(N), p))
BY Taken DEF NoJoin, Void, Channel, Ordered, Vain, Answered, Bound, Out

\* Messages that are not about him are put behind.
Beside(s, p) == \A n \in 1..Len(s) : ~IsJoin(s[n], p) /\ ~IsAct(s[n], p)
LEMMA BesideChannel ==
    ASSUME NEW of, NEW r, NEW M, NEW N \in Seq(QueueMessages), NEW s \in Seq(QueueMessages),
           NEW p, Beside(s, p), Channel(of, r, M, N, p), NEW L, Follows(L, N, s)
    PROVE  Channel(of, r, M, L, p)
<1>0. L = N \o s BY DEF Follows
<1>1. /\ \A n \in 1..Len(L) : (n \in 1..Len(N) /\ L[n] = N[n]) \/ ~(IsJoin(L[n], p) \/ IsAct(L[n], p))
      /\ \A n \in 1..Len(N) : n \in 1..Len(L) /\ L[n] = N[n]
  BY <1>0, Concatenated DEF Beside
<1>2. NoJoin(N, p) => NoJoin(L, p) BY <1>1 DEF NoJoin
<1>3. \A n \in 1..Len(N) : Void(of, N, p, n) => Void(of, L, p, n) BY <1>1 DEF Void
<1>4. Ordered(of, L, p) BY <1>1, <1>3 DEF Channel, Ordered
<1>5. Vain(of, r, L, p) BY <1>1, <1>3 DEF Channel, Vain
<1>6. Answered(of, r, M, L, p) /\ Bound(of, r, M, L, p)
  BY <1>2 DEF Channel, Answered, Bound, Out
<1> QED BY <1>4, <1>5, <1>6 DEF Channel

\* He joins, and does not hold the id of the queue.
LEMMA JoinChannel ==
    ASSUME NEW of, NEW r, NEW M, NEW N \in Seq(QueueMessages), NEW m \in QueueMessages,
           NEW p, Channel(of, r, M, N, p), ~r.queued, m.op = "join"
    PROVE  Channel(of, r, M, Append(N, m), p)
BY DEF Void, IsAct, Channel, Ordered, Vain, Answered, Bound, Out

\* He asks for something, or his time is over, while he holds the id.
LEMMA ActChannel ==
    ASSUME NEW of, NEW r, NEW M, NEW N \in Seq(QueueMessages), NEW m \in QueueMessages,
           NEW p, Channel(of, r, M, N, p), r.queued, m.op \in {"port", "expire"}
    PROVE  Channel(of, r, M, Append(N, m), p)
BY DEF Void, IsJoin, Channel, Ordered, NoJoin, Vain, Answered, Bound, Out

\* The queue answers a request to join, whatever the group is.
LEMMA JoinedChannel ==
    ASSUME NEW of, NEW r, NEW M \in Seq(WorldMessages), NEW N \in Seq(QueueMessages),
           NEW p, N # <<>>, IsJoin(Head(N), p), Channel(of, r, M, N, p), NEW g,
           NEW m \in WorldMessages
    PROVE  Channel(g, r, Append(M, m), Tail(N), p) \/ IsReply(m, p)
BY Taken, Appended DEF NoJoin, Out, Void, Channel, Ordered, Vain, Answered, Bound

\* The queue does what he asked for, and says so.
LEMMA ReplyChannel ==
    ASSUME NEW of, NEW r, NEW M \in Seq(WorldMessages), NEW N \in Seq(QueueMessages),
           NEW p, N # <<>>, IsAct(Head(N), p), Channel(of, r, M, N, p), of # 0,
           NEW s \in Seq(Counts), NEW m \in WorldMessages, IsReply(m, p)
    PROVE  Channel(0, r, M \o Append(s, m), Tail(N), p)
<1> DEFINE L == Tail(N)
           a == Append(s, m)
           K == M \o a
<1>1. /\ \A n \in 1..Len(L) : L[n] = N[n + 1] /\ n + 1 \in 1..Len(N)
      /\ 1 \in 1..Len(N) /\ N[1] = Head(N) /\ Len(L) \in Nat
  BY Taken
<1>2. /\ a \in Seq(WorldMessages) /\ Len(a) = Len(s) + 1 /\ Len(s) \in Nat
      /\ \A n \in 1..Len(a) : (n = Len(a) /\ a[n] = m) \/ a[n] \in Counts
  BY DEF Counts
<1> HIDE DEF a
<1>3. /\ Len(K) = Len(M) + Len(a) /\ Len(M) \in Nat
      /\ \A n \in 1..Len(K) :
             \/ n \in 1..Len(M) /\ K[n] = M[n]
             \/ n - Len(M) \in 1..Len(a) /\ K[n] = a[n - Len(M)] /\ Len(M) < n
  <2>1. PICK b \in Seq(WorldMessages) : b = a BY <1>2, Zenon
  <2>2. PICK X : X = M \o b OBVIOUS
  <2>3. /\ Len(X) = Len(M) + Len(b) /\ Len(M) \in Nat
        /\ \A n \in 1..Len(X) :
               \/ n \in 1..Len(M) /\ X[n] = M[n]
               \/ n - Len(M) \in 1..Len(b) /\ X[n] = b[n - Len(M)] /\ Len(M) < n
    BY <2>2, Concatenated
  <2>4. X = K BY <2>1, <2>2
  <2> QED BY <2>1, <2>3, <2>4, Zenon
<1> HIDE DEF L, K
<1>4. \A n \in 1..Len(K) :
          \/ n \in 1..Len(M) /\ K[n] = M[n] /\ n < Len(K)
          \/ n = Len(K) /\ K[n] = m
          \/ K[n] \in Counts
  BY <1>2, <1>3
<1>5. \A n : ~Void(of, N, p, n) /\ ~Out(of, r, N, p) BY DEF Void, Out
<1>6. r.queued /\ r.bgId = 0 /\ \A u \in 1..Len(M) : ~IsReply(M[u], p)
  BY <1>1, <1>5 DEF Channel, Vain, Bound, Answered
<1>7. NoJoin(L, p) BY <1>1, <1>5 DEF Channel, Ordered, NoJoin
<1>8. Out(0, r, L, p) BY <1>6, <1>7 DEF Out
<1>9. Ordered(0, L, p) /\ Vain(0, r, L, p) BY <1>6, <1>7 DEF Ordered, Vain, NoJoin
<1>10. \A x \in Counts : ~IsReply(x, p) /\ ~IsJoined(x, p)
  BY DEF Counts, IsReply, IsJoined
<1>11. ~IsJoined(m, p) BY DEF IsReply, IsJoined
<1>12. ASSUME NEW u \in 1..Len(K), IsReply(K[u], p)
       PROVE  LastReply(K, p, u)
  BY <1>4, <1>6, <1>10, <1>12, <1>11 DEF LastReply
<1>13. Answered(0, r, K, L, p) /\ Bound(0, r, K, L, p)
  BY <1>6, <1>8, <1>12 DEF Answered, Bound
<1> QED BY <1>9, <1>13 DEF Channel, L, K, a

\* The world is told something that is not about him.
Apart(s, p) == \A n \in 1..Len(s) : ~IsJoined(s[n], p) /\ ~IsReply(s[n], p)
LEMMA ApartChannel ==
    ASSUME NEW of, NEW r, NEW M \in Seq(WorldMessages), NEW s \in Seq(WorldMessages), NEW N,
           NEW p, Apart(s, p), Channel(of, r, M, N, p), NEW K, Follows(K, M, s)
    PROVE  Channel(of, r, K, N, p)
<1>1. /\ \A n \in 1..Len(K) : (n \in 1..Len(M) /\ K[n] = M[n])
                              \/ ~(IsJoined(K[n], p) \/ IsReply(K[n], p))
      /\ \A n \in 1..Len(M) : n \in 1..Len(K) /\ K[n] = M[n]
  BY Concatenated DEF Follows, Apart
<1>2. \A u \in 1..Len(M) : LastReply(M, p, u) => LastReply(K, p, u)
  BY <1>1 DEF LastReply
<1>3. Answered(of, r, K, N, p) BY <1>1, <1>2 DEF Channel, Answered
<1>4. Bound(of, r, K, N, p) BY <1>1 DEF Channel, Bound, Silent
<1> QED BY <1>3, <1>4 DEF Channel

\* The world takes the first message.
LEMMA HeardChannel ==
    ASSUME NEW of, NEW r, NEW M \in Seq(WorldMessages), M # <<>>, NEW N, NEW p,
           Channel(of, r, M, N, p)
    PROVE  Channel(of, r, Tail(M), N, p)
BY Taken DEF Channel, Answered, LastReply, Bound, Silent

\* He keeps the id, or gets it, and does not enter a battleground.
LEMMA KeptChannel ==
    ASSUME NEW of, NEW r, NEW M, NEW N, NEW p, Channel(of, r, M, N, p), NEW x,
           r.queued => x.queued, x.bgId \in {0, r.bgId}
    PROVE  Channel(of, x, M, N, p)
BY DEF Out, Channel, Vain, Answered, Bound

\* He leaves a battleground.
LEMMA LeftChannel ==
    ASSUME NEW of, NEW r, NEW M, NEW N, NEW p, Channel(of, r, M, N, p), NEW x,
           r.bgId # 0, x.bgId = 0
    PROVE  Channel(of, x, M, N, p)
BY DEF Channel, Bound, Out, NoJoin, Void, Answered, Silent, Vain

\* He hears a reply, after which there is nothing more to hear.
LEMMA RepliedChannel ==
    ASSUME NEW of, NEW r, NEW M \in Seq(WorldMessages), M # <<>>, NEW N, NEW p,
           Channel(of, r, M, N, p), IsReply(Head(M), p), NEW x,
           x.bgId # 0 => x.queued
    PROVE  Channel(of, x, Tail(M), N, p)
BY Taken DEF Channel, Answered, Silent, LastReply, Out, NoJoin, Void, Bound, Vain

LEMMA Replied ==
    ASSUME NEW of, NEW r, NEW M \in Seq(WorldMessages), M # <<>>, NEW N, NEW p,
           Channel(of, r, M, N, p), NEW m, m = Head(M), IsReply(m, p)
    PROVE  r.bgId = 0 /\ of = 0 /\ r.queued
BY Taken DEF Channel, Answered, Silent, Bound, Out

-----------------------------------------------------------------------------
(* What the steps of the world change.                                     *)

\* Nobody moves: battlegrounds are created, counted, opened and ended.
SameScene(v, w, i) ==
    \/ /\ i \in 1..Len(w.bg) /\ v.bg[i].players = w.bg[i].players
       /\ v.bg[i].offline = w.bg[i].offline /\ (v.bg[i].listed => w.bg[i].listed)
    \/ /\ i \notin 1..Len(w.bg) /\ v.bg[i].players = {}
       /\ v.bg[i].offline = <<>> /\ ~v.bg[i].listed
Ends(w, m) ==
    m.op = "status" \/ (m.op = "drop" /\ \E i \in 1..Len(w.bg) : w.bg[i].listed)
Scenery(v, w) ==
    /\ v \in WorldStates /\ v.player = w.player /\ Len(w.bg) <= Len(v.bg)
    /\ \A i \in 1..Len(v.bg) : SameScene(v, w, i)
    /\ \A n \in 1..Len(v.sent) : Ends(w, v.sent[n])

LEMMA SceneryStill ==
    ASSUME NEW w \in WorldStates, w.sent = <<>>
    PROVE  Scenery(w, w)
BY WorldFields DEF Scenery, SameScene

LEMMA SceneryGround ==
    ASSUME NEW w \in WorldStates, NEW x, Scenery(x, w), NEW i \in 1..Len(x.bg), NEW b, NEW y,
           GroundSet(y, x, i, b), b.players = x.bg[i].players, b.offline = x.bg[i].offline,
           b.listed => x.bg[i].listed
    PROVE  Scenery(y, w)
<1>1. \A j \in 1..Len(y.bg) : SameScene(y, w, j) BY DEF GroundSet, Scenery, SameScene
<1> QED BY <1>1 DEF Scenery, GroundSet

LEMMA ScenerySays ==
    ASSUME NEW w \in WorldStates, NEW x, Scenery(x, w), NEW m, Ends(w, m), NEW y, Says(y, x, m)
    PROVE  Scenery(y, w)
<1>1. x.sent \in Seq(QueueMessages) /\ m \in QueueMessages
  BY WorldFields DEF Scenery, Says
<1>2. PICK a : a = Append(x.sent, m) OBVIOUS
<1>3. \A n \in 1..Len(a) : (n \in 1..Len(x.sent) /\ a[n] = x.sent[n]) \/ a[n] = m
  BY <1>1, <1>2
<1>4. y.sent = a BY <1>2 DEF Says
<1>5. \A n \in 1..Len(y.sent) : Ends(w, y.sent[n]) BY <1>3, <1>4 DEF Scenery
<1>6. \A i \in 1..Len(y.bg) : SameScene(y, w, i) BY DEF Says, Scenery, SameScene
<1> QED BY <1>5, <1>6 DEF Scenery, Says

LEMMA SceneryStatus ==
    ASSUME NEW w \in WorldStates, NEW x, Scenery(x, w), NEW i \in 1..Len(x.bg),
           NEW status \in Status, NEW y, y = SetStatus(x, i, status)
    PROVE  Scenery(y, w) /\ Len(y.bg) = Len(x.bg)
<1>1. x \in WorldStates BY DEF Scenery
<1>2. PICK b \in Battlegrounds, z \in WorldStates, m \in QueueMessages :
          SetTo(y, x, i, status, b, z, m)
  BY <1>1, StatusSet
<1>3. /\ GroundSet(z, x, i, b) /\ b.listed = x.bg[i].listed
      /\ b.players = x.bg[i].players /\ b.offline = x.bg[i].offline
      /\ m.op = "status" /\ Says(y, z, m)
  BY <1>2 DEF SetTo
<1>4. Scenery(z, w) BY <1>3, SceneryGround
<1>5. Ends(w, m) BY <1>3 DEF Ends
<1>6. Scenery(y, w) BY <1>3, <1>4, <1>5, ScenerySays
<1> QED BY <1>3, <1>6 DEF GroundSet, Says

LEMMA EndedScenery ==
    ASSUME NEW w \in WorldStates, NEW x, Scenery(x, w), x.sent = <<>>, Len(x.bg) = Len(w.bg),
           NEW i \in 1..Len(x.bg), NEW y, y = Ended(x, i)
    PROVE  Scenery(y, w)
<1>1. x \in WorldStates /\ x.bg[i] \in Battlegrounds /\ i \in Inst /\ SameScene(x, w, i)
      /\ i \in 1..Len(w.bg)
  BY WorldFields DEF Scenery, Inst
<1>2. PICK u : u = Unlisted(x, i) OBVIOUS
<1>3. Scenery(u, w) /\ Len(u.bg) = Len(x.bg)
  <2>1. CASE x.bg[i].listed
    <3>1. PICK b : b = [x.bg[i] EXCEPT !.listed = FALSE] OBVIOUS
    <3>2. b \in Battlegrounds /\ b.players = x.bg[i].players /\ b.offline = x.bg[i].offline
          /\ b.listed = FALSE
      BY <1>1, <3>1 DEF Battlegrounds
    <3>3. PICK z : z = [x EXCEPT !.bg[i] = b] OBVIOUS
    <3>4. GroundSet(z, x, i, b) BY <1>1, <3>2, <3>3, SettingGround
    <3>5. Scenery(z, w) BY <3>2, <3>4, SceneryGround
    <3>6. PICK d : d = [op |-> "drop", inst |-> i] OBVIOUS
    <3>7. d \in QueueMessages /\ d.op = "drop" BY <1>1, <3>6 DEF QueueMessages
    <3>8. z = [x EXCEPT !.bg[i].listed = FALSE] BY <3>1, <3>3
    <3>9. u = Tell(z, d) BY <1>2, <2>1, <3>6, <3>8 DEF Unlisted
    <3>10. Says(u, z, d) BY <3>4, <3>7, <3>9, Saying DEF GroundSet
    <3>11. Ends(w, d) BY <1>1, <2>1, <3>7 DEF Ends, SameScene
    <3>12. Scenery(u, w) BY <3>5, <3>10, <3>11, ScenerySays
    <3> QED BY <3>4, <3>10, <3>12 DEF GroundSet, Says
  <2>2. CASE ~x.bg[i].listed BY <1>2, <2>2 DEF Unlisted
  <2> QED BY <2>1, <2>2
<1>4. y = SetStatus(u, i, "waitLeave") /\ i \in 1..Len(u.bg) /\ "waitLeave" \in Status
  BY <1>2, <1>3 DEF Ended, Status
<1> QED BY <1>3, <1>4, SceneryStatus

LEMMA CreatedScenery ==
    ASSUME NEW w \in WorldStates, w.sent = <<>>, NEW m \in WorldMessages, m.op = "create",
           m.inst = Len(w.bg) + 1, NEW v, v = Created(w, m)
    PROVE  Scenery(v, w)
<1>1. w.bg \in Seq(Battlegrounds) /\ Len(w.bg) \in Nat /\ m.invited \in Invited
  BY WorldFields, WorldSays
<1>2. PICK b : b = Blank(m.invited) OBVIOUS
<1>3. b \in Battlegrounds /\ b.players = {} /\ b.listed = FALSE /\ b.offline = <<>>
  BY <1>1, <1>2 DEF Status, Battlegrounds, Blank
<1>4. PICK f : f = Append(w.bg, b) OBVIOUS
<1>5. /\ f \in Seq(Battlegrounds) /\ Len(f) = Len(w.bg) + 1 /\ f[Len(w.bg) + 1] = b
      /\ \A j \in 1..Len(w.bg) : f[j] = w.bg[j]
  BY <1>1, <1>3, <1>4, Appended
<1>6. PICK x : x = [w EXCEPT !.bg = f] OBVIOUS
<1>7. x \in WorldStates /\ x.bg = f /\ x.player = w.player /\ x.sent = w.sent
  BY <1>5, <1>6 DEF WorldStates
<1>8. \A j \in 1..Len(x.bg) : SameScene(x, w, j) BY <1>1, <1>5, <1>7, <1>3 DEF SameScene
<1>9. Scenery(x, w) BY <1>1, <1>5, <1>7, <1>8 DEF Scenery
<1>10. m.inst \in 1..Len(x.bg) BY <1>1, <1>5, <1>7
<1>11. PICK y : y = SetStatus(x, m.inst, "waitQueue") OBVIOUS
<1>12. Scenery(y, w) /\ Len(y.bg) = Len(x.bg)
  BY <1>9, <1>10, <1>11, SceneryStatus DEF Status
<1>13. PICK z : z = SetStatus(y, m.inst, "waitJoin") OBVIOUS
<1>14. Scenery(z, w) BY <1>10, <1>12, <1>13, SceneryStatus DEF Status
<1>15. v = z BY <1>2, <1>4, <1>6, <1>11, <1>13 DEF Created, Blank
<1> QED BY <1>14, <1>15

\* What a message does: the record of a player becomes another one.
Asking(x, r) == x = [r EXCEPT !.queued = TRUE, !.invite = 0]
Hears(x, r, i) == x = [r EXCEPT !.invite = i]
Bids(x, r, i) == x = [r EXCEPT !.bgId = i, !.map = 0, !.moving = TRUE]
Frees(x, r) == x = [r EXCEPT !.queued = FALSE, !.invite = 0]
LEMMA RecordsChanged ==
    ASSUME NEW r \in Players, NEW x, NEW i \in Inst
    PROVE  /\ Asking(x, r) => /\ x \in Players /\ x.queued /\ x.invite = 0 /\ x.bgId = r.bgId
                              /\ x.map = r.map /\ x.moving = r.moving /\ x.online = r.online
           /\ Hears(x, r, i) => /\ x \in Players /\ x.queued = r.queued /\ x.invite = i
                                /\ x.bgId = r.bgId /\ x.map = r.map
                                /\ x.moving = r.moving /\ x.online = r.online
           /\ Bids(x, r, i) => /\ x \in Players /\ x.queued = r.queued /\ x.invite = r.invite
                               /\ x.bgId = i /\ x.map = 0 /\ x.moving /\ x.online = r.online
           /\ Frees(x, r) => /\ x \in Players /\ ~x.queued /\ x.invite = 0
                             /\ x.bgId = r.bgId /\ x.map = r.map
                             /\ x.moving = r.moving /\ x.online = r.online
BY DEF Players, Asking, Hears, Bids, Frees

AllAsked(v, w, S) ==
    /\ v \in WorldStates /\ v.bg = w.bg /\ v.sent = w.sent
    /\ \A p \in Player : IF p \in S /\ InWorld(w, p) THEN Asking(v.player[p], w.player[p])
                         ELSE v.player[p] = w.player[p]
Forwards(x, m) == x.op = "expire" /\ x.who = m.who /\ x.inst = m.inst /\ x.stamp = m.stamp

\* m is done in w; who enters is in no battleground.
Effect(v, w, m) ==
    \/ m.op \in {"count", "create"} /\ Scenery(v, w)
    \/ m.op = "joined" /\ AllAsked(v, w, m.members)
    \/ m.op \in {"invite", "enter", "unqueue", "expired"} /\ ~InWorld(w, m.who) /\ v = w
    \/ m.op \in {"invite", "expired"} /\ ~w.player[m.who].queued /\ v = w
    \/ /\ m.op = "invite" /\ w.player[m.who].queued
       /\ \E x : PlayerSet(v, w, m.who, x) /\ Hears(x, w.player[m.who], m.inst)
    \/ /\ m.op = "enter"
       /\ \E x : PlayerSet(v, w, m.who, x) /\ Bids(x, w.player[m.who], m.inst)
    \/ /\ m.op = "unqueue"
       /\ \E x : PlayerSet(v, w, m.who, x) /\ Frees(x, w.player[m.who])
    \/ /\ m.op = "expired" /\ w.player[m.who].queued
       /\ \E x \in QueueMessages : Says(v, w, x) /\ Forwards(x, m)

LEMMA Doing ==
    ASSUME NEW w \in WorldStates, w.sent = <<>>, NEW m \in WorldMessages, m.op # "full",
           m.op = "create" => m.inst = Len(w.bg) + 1,
           m.op = "enter" => w.player[m.who].bgId = 0,
           NEW v, v = Done(w, m)
    PROVE  Effect(v, w, m)
<1>1. CASE m.op = "create" BY <1>1, CreatedScenery DEF Done, Effect
<1>2. CASE m.op = "count"
  <2>1. m.inst \in Inst /\ m.team \in Team /\ m.n \in Int /\ Len(w.bg) \in Nat
    BY <1>2, WorldSays, WorldFields
  <2>2. CASE ~(m.inst <= Len(w.bg)) BY <1>2, <2>2, SceneryStill DEF Done, Effect
  <2>3. CASE m.inst <= Len(w.bg)
    <3>1. PICK i \in 1..Len(w.bg) : i = m.inst BY <2>1, <2>3 DEF Inst
    <3>2. w.bg[i] \in Battlegrounds BY WorldFields
    <3>3. PICK f : f = [w.bg[i].invited EXCEPT ![m.team] = m.n] OBVIOUS
    <3>4. f \in Invited BY <2>1, <3>2, <3>3 DEF Battlegrounds, Invited
    <3>5. PICK b : b = [w.bg[i] EXCEPT !.invited = f] OBVIOUS
    <3>6. /\ b \in Battlegrounds /\ b.players = w.bg[i].players
          /\ b.offline = w.bg[i].offline /\ b.listed = w.bg[i].listed
      BY <3>2, <3>4, <3>5 DEF Battlegrounds
    <3>7. v = [w EXCEPT !.bg[i] = b] BY <1>2, <2>3, <3>1, <3>3, <3>5 DEF Done
    <3>8. GroundSet(v, w, i, b) BY <3>6, <3>7, SettingGround
    <3>9. Scenery(v, w) BY <3>6, <3>8, SceneryStill, SceneryGround
    <3> QED BY <1>2, <3>9 DEF Effect
  <2> QED BY <2>2, <2>3
<1>3. CASE m.op = "joined"
  <2>1. PICK f : f = [p \in Player |->
                IF p \in m.members /\ InWorld(w, p)
                THEN [w.player[p] EXCEPT !.queued = TRUE, !.invite = 0] ELSE w.player[p]]
    OBVIOUS
  <2>2. \A p \in Player :
            /\ IF p \in m.members /\ InWorld(w, p) THEN Asking(f[p], w.player[p])
               ELSE f[p] = w.player[p]
            /\ f[p] \in Players
    <3>1. ASSUME NEW p \in Player
          PROVE  /\ IF p \in m.members /\ InWorld(w, p) THEN Asking(f[p], w.player[p])
                    ELSE f[p] = w.player[p]
                 /\ f[p] \in Players
      <4>1. IF p \in m.members /\ InWorld(w, p) THEN Asking(f[p], w.player[p])
            ELSE f[p] = w.player[p]
        BY <2>1 DEF Asking
      <4>2. w.player[p] \in Players BY WorldFields
      <4>3. 1 \in Inst BY DEF Inst
      <4> QED BY <4>1, <4>2, <4>3, RecordsChanged
    <3> QED BY <3>1
  <2>3. f \in [Player -> Players] BY <2>1, <2>2
  <2>4. PICK x : x = [w EXCEPT !.player = f] OBVIOUS
  <2>5. v = x BY <1>3, <2>1, <2>4 DEF Done
  <2>6. x \in WorldStates /\ x.bg = w.bg /\ x.sent = w.sent /\ x.player = f
    BY <2>3, <2>4 DEF WorldStates
  <2>7. AllAsked(v, w, m.members) BY <2>2, <2>5, <2>6 DEF AllAsked
  <2> QED BY <1>3, <2>7 DEF Effect
<1>4. CASE m.op \in {"invite", "enter", "unqueue", "expired"}
  <2> DEFINE p == m.who
  <2>1. v = IF InWorld(w, p) THEN Told(w, m) ELSE w BY <1>4 DEF Done
  <2>2. p \in Player /\ w.player[p] \in Players BY <1>4, WorldSays, WorldFields
  <2>3. ASSUME NEW x \in Players, v = [w EXCEPT !.player[p] = x]
        PROVE  PlayerSet(v, w, p, x)
    BY <2>2, <2>3, SettingPlayer
  <2> HIDE DEF p
  <2>4. CASE ~InWorld(w, p) BY <1>4, <2>1, <2>4 DEF Effect, p
  <2>5. CASE InWorld(w, p) /\ m.op = "invite"
    BY <2>5, WorldSays, <2>1, <2>2, RecordsChanged, <2>3 DEF Told, p, Effect, Hears
  <2>6. CASE InWorld(w, p) /\ m.op = "enter"
    BY <2>6, WorldSays, <2>2, RecordsChanged, <2>1, <2>3, Zenon DEF Bids, GetBattleGround, p,
       Told, Entered, Effect
  <2>7. CASE InWorld(w, p) /\ m.op = "unqueue"
    <3>1. PICK x : x = [w.player[p] EXCEPT !.queued = FALSE, !.invite = 0] OBVIOUS
    <3>2. Frees(x, w.player[p]) BY <3>1 DEF Frees
    <3>3. x \in Players BY <2>2, <3>2, RecordsChanged DEF Players, Frees
    <3>4. v = [w EXCEPT !.player[p] = x] BY <2>1, <2>7, <3>1 DEF Told, p
    <3>5. PlayerSet(v, w, p, x) BY <2>3, <3>3, <3>4
    <3> QED BY <2>7, <3>2, <3>5 DEF Effect, p
  <2>8. CASE InWorld(w, p) /\ m.op = "expired"
    <3>1. m.inst \in Inst /\ m.stamp \in Gid BY <2>8, WorldSays
    <3>2. CASE ~w.player[p].queued BY <2>1, <2>8, <3>2 DEF Told, Expired, p, Effect
    <3>3. CASE w.player[p].queued
      <4>1. PICK b \in BOOLEAN :
                b <=> (m.inst <= Len(w.bg) /\ w.bg[m.inst].status # "waitLeave")
        OBVIOUS
      <4>2. PICK x : x = [op |-> "expire", who |-> p, inst |-> m.inst, stamp |-> m.stamp,
                          again |-> b]
        OBVIOUS
      <4>3. x \in QueueMessages /\ Forwards(x, m)
        BY <2>2, <3>1, <4>2 DEF QueueMessages, Forwards, p
      <4>4. v = Tell(w, x) BY <2>1, <2>8, <3>3, <4>1, <4>2 DEF Told, Expired, p
      <4>5. Says(v, w, x) BY <4>3, <4>4, Saying
      <4> QED BY <2>8, <3>3, <4>3, <4>5 DEF Effect, p
    <3> QED BY <3>2, <3>3
  <2> QED BY <1>4, <2>4, <2>5, <2>6, <2>7, <2>8
<1> QED BY <1>1, <1>2, <1>3, <1>4, WorldSays

-----------------------------------------------------------------------------
(* Nobody logs out.                                                        *)

\* Who takes part in a battleground is in its map.
Placed(w, p) ==
    /\ w.player[p].online
    /\ \A i \in 1..Len(w.bg) : p \in w.bg[i].players =>
           w.player[p].bgId = i /\ w.player[p].map = i /\ ~w.player[p].moving
NoneOffline(w) == \A i \in 1..Len(w.bg) : w.bg[i].offline = <<>>
NoRemoval(N) == \A n \in 1..Len(N) : N[n].op # "remove"
Protocol(q, w, M, N) ==
    /\ NoRemoval(N) /\ NoneOffline(w)
    /\ \A p \in Player : Channel(q.of[p], w.player[p], M, N, p) /\ Placed(w, p)

LEMMA QueueKnows ==
    ASSUME NEW q, NEW w, NEW M, NEW N, Agreed(q, w, M, N)
    PROVE  /\ SoundQueue(q) /\ q \in QueueStates /\ M \in Seq(WorldMessages)
           /\ N \in Seq(QueueMessages) /\ w \in WorldStates /\ WorldSound(w)
BY DEF Agreed, Balanced, SoundQueue, Announced, WorldSound

\* Who is in which group, after a message.
Freed(r, q, p) == r.of = [q.of EXCEPT ![p] = 0] /\ q.of[p] # 0
LEMMA Freeing ==
    ASSUME NEW q, SoundQueue(q), NEW p \in Player, NEW r,
           Leaves(r, q, p) \/ \E i : Enters(r, q, p, i)
    PROVE  Freed(r, q, p) /\ Without(r, q, p, q.of[p])
<1>1. PICK b \in BOOLEAN : q.of[p] # 0 /\ Alike(r, RemovePlayer(q, p, b))
  BY DEF Leaves, Enters
<1>2. Without(RemovePlayer(q, p, b), q, p, q.of[p]) BY <1>1, Removing
<1>3. Without(r, q, p, q.of[p]) BY <1>1, <1>2, AlikeParts
<1> QED BY <1>1, <1>3 DEF Freed, Without

LEMMA TakesProtocol ==
    ASSUME NEW q, NEW w, NEW M, NEW N, Agreed(q, w, M, N), N # <<>>, q.sent = <<>>,
           Protocol(q, w, M, N), NEW r, r = Handled(q, Head(N))
    PROVE  Protocol(r, w, M \o r.sent, Tail(N))
<1> DEFINE m == Head(N)
           L == Tail(N)
<1>1. /\ SoundQueue(q) /\ q \in QueueStates /\ M \in Seq(WorldMessages)
      /\ N \in Seq(QueueMessages) /\ m \in QueueMessages /\ m = N[1] /\ 1 \in 1..Len(N)
      /\ \A n \in 1..Len(L) : L[n] = N[n + 1] /\ n + 1 \in 1..Len(N)
  BY QueueKnows, Taken
<1>2. Outcome(r, q, m) BY <1>1, Handling
<1>3. r.sent \in Seq(WorldMessages) /\ q.of \in [Player -> Gid \cup {0}]
  BY <1>1, <1>2, OutcomeEntries, QueueFields
<1>4. m.op # "remove" /\ NoRemoval(L) /\ NoneOffline(w) BY <1>1 DEF Protocol, NoRemoval
<1> HIDE DEF m, L
<1>5. ASSUME NEW p \in Player, ~IsJoin(m, p), r.of[p] = q.of[p], Apart(r.sent, p)
      PROVE  Channel(r.of[p], w.player[p], M \o r.sent, L, p)
  <2>1. Channel(q.of[p], w.player[p], M, L, p)
    BY <1>1, <1>5, TailChannel DEF Protocol, m, L
  <2>2. PICK K : K = M \o r.sent OBVIOUS
  <2>3. Follows(K, M, r.sent) BY <2>2 DEF Follows
  <2>4. Channel(q.of[p], w.player[p], K, L, p)
    BY <1>1, <1>3, <1>5, <2>1, <2>3, ApartChannel
  <2> QED BY <1>5, <2>2, <2>4
<1>6. ASSUME NEW s \in Seq(Counts), NEW p
      PROVE  Apart(s, p)
  BY DEF Apart, Counts, IsJoined, IsReply
<1>7. ASSUME NEW p \in Player
      PROVE  Channel(r.of[p], w.player[p], M \o r.sent, L, p)
  <2>0. Channel(q.of[p], w.player[p], M, N, p) BY DEF Protocol
  <2>1. CASE Alike(r, q) /\ r.sent = <<>> /\ m.op \notin {"join", "add"}
    BY <1>5, <2>1 DEF Alike, IsJoin, Apart
  <2>2. CASE Entries(r, q, m) /\ r.sent \in Seq(Counts)
    BY <2>2, <1>5, <1>6 DEF Entries, IsJoin
  <2>3. CASE m.op = "join" /\ r.sent = <<[op |-> "joined", members |-> m.members]>>
             /\ \E t \in Team : Grown(r, q, m.members, t)
    <3>1. PICK x : x = [op |-> "joined", members |-> m.members] OBVIOUS
    <3>2. x \in WorldMessages /\ x.op = "joined" /\ x.members = m.members
      BY <1>1, <2>3, <3>1, QueueSays DEF WorldMessages
    <3>3. r.of[p] = IF p \in m.members THEN Len(q.groups) + 1 ELSE q.of[p]
      BY <2>3 DEF Grown
    <3>4. CASE p \in m.members
      <4>1. IsJoin(m, p) /\ ~IsReply(x, p) BY <2>3, <3>2, <3>4 DEF IsJoin, IsReply
      <4>2. Channel(r.of[p], w.player[p], Append(M, x), L, p)
        BY <1>1, <2>0, <3>2, <4>1, JoinedChannel DEF m, L
      <4>3. Append(M, x) = M \o r.sent
        <5>1. Append(M, x) = M \o <<x>> BY <1>1, <3>2
        <5>2. r.sent = <<x>> BY <2>3, <3>1
        <5> QED BY <5>1, <5>2, Zenon
      <4> QED BY <4>2, <4>3
    <3>5. CASE p \notin m.members
      BY <2>3, <3>1, <3>2, <3>5, <1>5, <3>3 DEF Apart, IsJoined, IsReply, IsJoin
    <3> QED BY <3>4, <3>5
  <2>4. ASSUME m.op \in {"port", "expire"}, Freed(r, q, m.who), NEW s \in Seq(Counts),
               NEW x \in WorldMessages, IsReply(x, m.who), r.sent = Append(s, x)
        PROVE  Channel(r.of[p], w.player[p], M \o r.sent, L, p)
    <3>1. r.of[p] = IF p = m.who THEN 0 ELSE q.of[p] BY <1>3, <2>4 DEF Freed
    <3>2. CASE p = m.who
      <4>1. IsAct(m, p) /\ q.of[p] # 0 BY <2>4, <3>2 DEF IsAct, Freed
      <4>2. Channel(0, w.player[p], M \o Append(s, x), L, p)
        BY <1>1, <2>0, <2>4, <3>2, <4>1, ReplyChannel DEF m, L
      <4> QED BY <2>4, <3>1, <3>2, <4>2
    <3>3. CASE p # m.who
      <4>1. \A n \in 1..Len(r.sent) : r.sent[n] = x \/ (n \in 1..Len(s) /\ r.sent[n] = s[n])
        BY <2>4
      <4>2. ~IsJoined(x, p) /\ ~IsReply(x, p) BY <2>4, <3>3 DEF IsJoined, IsReply
      <4>3. Apart(r.sent, p) BY <1>6, <4>1, <4>2 DEF Apart
      <4> QED BY <1>5, <2>4, <3>1, <3>3, <4>3 DEF IsJoin
    <3> QED BY <3>2, <3>3
  <2>5. CASE /\ m.op \in {"port", "expire"} /\ Leaves(r, q, m.who)
             /\ \E s \in Seq(Counts) : r.sent = Append(s, [op |-> "unqueue", who |-> m.who])
    BY <1>1, <2>5, QueueSays, Freeing, <2>4 DEF WorldMessages, IsReply
  <2>6. CASE m.op = "port" /\ \E i \in Inst :
                 /\ Enters(r, q, m.who, i)
                 /\ r.sent = <<[op |-> "enter", who |-> m.who, inst |-> i]>>
    <3>1. m.who \in Player BY <1>1, <2>6, QueueSays
    <3>2. PICK i \in Inst : /\ Enters(r, q, m.who, i)
                            /\ r.sent = <<[op |-> "enter", who |-> m.who, inst |-> i]>>
      BY <2>6
    <3>3. PICK x : x = [op |-> "enter", who |-> m.who, inst |-> i] OBVIOUS
    <3>4. x \in WorldMessages /\ IsReply(x, m.who)
      BY <3>1, <3>3 DEF WorldMessages, IsReply
    <3>5. Freed(r, q, m.who) BY <1>1, <3>1, <3>2, Freeing
    <3>6. PICK s \in Seq(Counts) : s = <<>>
      <4>1. <<>> \in Seq(Counts) OBVIOUS
      <4> QED BY <4>1, Zenon
    <3>7. r.sent = Append(s, x) BY <3>2, <3>3, <3>6
    <3> QED BY <2>4, <2>6, <3>4, <3>5, <3>7
  <2> QED BY <1>2, <1>4, <2>1, <2>2, <2>3, <2>5, <2>6 DEF Outcome
<1> QED BY <1>4, <1>7 DEF Protocol, L

LEMMA UpdatesProtocol ==
    ASSUME NEW q, NEW w, NEW M, NEW N, M \in Seq(WorldMessages), Protocol(q, w, M, N), NEW r,
           Progress(r, q), r.sent \in Seq(WorldMessages)
    PROVE  Protocol(r, w, M \o r.sent, N)
BY ApartChannel DEF Apart, Progress, Calling, IsJoined, IsReply, Follows, Protocol

LEMMA ProtocolHeard ==
    ASSUME NEW q, NEW w, NEW M \in Seq(WorldMessages), M # <<>>, NEW N, Protocol(q, w, M, N)
    PROVE  Protocol(q, w, Tail(M), N)
BY HeardChannel DEF Protocol

LEMMA ProtocolPlayer ==
    ASSUME NEW q, NEW w, NEW M, NEW N, Protocol(q, w, M, N), NEW p \in Player, NEW x,
           Channel(q.of[p], x, M, N, p), NEW v, PlayerSet(v, w, p, x), x.online,
           \A i \in 1..Len(w.bg) : p \in w.bg[i].players =>
               x.bgId = i /\ x.map = i /\ ~x.moving
    PROVE  Protocol(q, v, M, N)
BY DEF Placed, PlayerSet, Protocol, NoneOffline

LEMMA ProtocolScenery ==
    ASSUME NEW q, NEW w \in WorldStates, NEW M, NEW N, Protocol(q, w, M, N), NEW v,
           Scenery(v, w)
    PROVE  Protocol(q, v, M, N)
BY DEF Scenery, SameScene, NoneOffline, Protocol, Placed

\* The world says nothing about players.
Chatter(s) == \A n \in 1..Len(s) : s[n].op \in Bulletin
LEMMA ProtocolSays ==
    ASSUME NEW q, NEW w, NEW M, NEW N \in Seq(QueueMessages), Protocol(q, w, M, N),
           NEW s \in Seq(QueueMessages), Chatter(s), NEW L, Follows(L, N, s)
    PROVE  Protocol(q, w, M, L)
<1>1. \A p : Beside(s, p) BY DEF Chatter, Bulletin, Beside, IsJoin, IsAct
<1>2. NoRemoval(L)
  <2>1. PICK X : X = N \o s OBVIOUS
  <2>2. \A n \in 1..Len(X) : \/ n \in 1..Len(N) /\ X[n] = N[n]
                             \/ \E k \in 1..Len(s) : X[n] = s[k]
    BY <2>1, Concatenated
  <2>3. L = X BY <2>1 DEF Follows
  <2> QED BY <2>2, <2>3 DEF NoRemoval, Protocol, Chatter, Bulletin
<1> QED BY <1>1, <1>2, BesideChannel DEF Protocol

\* A player in the queue asks for something, or his time is over.
LEMMA ProtocolAct ==
    ASSUME NEW q, NEW w, NEW M, NEW N \in Seq(QueueMessages), Protocol(q, w, M, N),
           NEW m \in QueueMessages, m.op \in {"port", "expire"}, m.who \in Player,
           w.player[m.who].queued
    PROVE  Protocol(q, w, M, Append(N, m))
<1> DEFINE L == Append(N, m)
<1>1. ASSUME NEW p \in Player
      PROVE  Channel(q.of[p], w.player[p], M, L, p)
  <2>0. Channel(q.of[p], w.player[p], M, N, p) BY DEF Protocol
  <2>1. CASE p = m.who BY <2>0, <2>1, ActChannel
  <2>2. CASE p # m.who
    <3>1. PICK s \in Seq(QueueMessages) : s = <<m>>
      <4>1. <<m>> \in Seq(QueueMessages) OBVIOUS
      <4> QED BY <4>1, Zenon
    <3>2. Beside(s, p) BY <2>2, <3>1 DEF Beside, IsJoin, IsAct
    <3>3. L = N \o s BY <3>1
    <3> HIDE DEF L
    <3>4. Follows(L, N, s) BY <3>3 DEF Follows
    <3> QED BY <2>0, <3>2, <3>4, BesideChannel
  <2> QED BY <2>1, <2>2
<1>2. NoRemoval(L) BY Appended DEF NoRemoval, Protocol
<1> QED BY <1>1, <1>2 DEF Protocol

LEMMA EffectProtocol ==
    ASSUME NEW q, NEW w, NEW M \in Seq(WorldMessages), M # <<>>, NEW N \in Seq(QueueMessages),
           Protocol(q, w, M, N), w \in WorldStates, w.sent = <<>>, NEW m, m = Head(M),
           NEW v, Effect(v, w, m), v.sent \in Seq(QueueMessages)
    PROVE  Protocol(q, v, Tail(M), N \o v.sent)
<1>1. m \in WorldMessages /\ 1 \in Inst BY Taken DEF Inst
<1>2. PICK L : L = Tail(M) OBVIOUS
<1>3. Protocol(q, w, L, N) BY <1>2, ProtocolHeard
<1>4. ASSUME v.sent = w.sent, Protocol(q, v, L, N)
      PROVE  Protocol(q, v, L, N \o v.sent)
  BY <1>4
<1>5. CASE m.op \in {"count", "create"} /\ Scenery(v, w)
  BY <1>3, <1>5, ProtocolScenery, <1>2, ProtocolSays DEF Scenery, Ends, Chatter, Bulletin,
     Follows
<1>6. CASE m.op = "joined" /\ AllAsked(v, w, m.members)
  <2>1. ASSUME NEW p \in Player
        PROVE  Channel(q.of[p], v.player[p], L, N, p) /\ Placed(v, p)
    <3>1. /\ w.player[p].queued => v.player[p].queued
          /\ v.player[p].bgId = w.player[p].bgId /\ v.player[p].map = w.player[p].map
          /\ v.player[p].moving = w.player[p].moving /\ v.player[p].online = w.player[p].online
      BY <1>6, WorldFields, <1>1, RecordsChanged DEF AllAsked
    <3>2. Channel(q.of[p], v.player[p], L, N, p) BY <1>3, <3>1, KeptChannel DEF Protocol
    <3>3. v.bg = w.bg BY <1>6 DEF AllAsked
    <3>4. Placed(v, p) BY <1>3, <3>1, <3>3 DEF Placed, Protocol
    <3> QED BY <3>2, <3>4
  <2>2. Protocol(q, v, L, N) BY <1>3, <1>6, <2>1 DEF Protocol, AllAsked, NoneOffline
  <2> QED BY <1>2, <1>4, <1>6, <2>2 DEF AllAsked
<1>7. CASE v = w BY <1>2, <1>3, <1>4, <1>7
<1>8. ASSUME m.who \in Player, NEW x, PlayerSet(v, w, m.who, x), x.online = w.player[m.who].online,
             Channel(q.of[m.who], x, L, N, m.who),
             w.player[m.who].bgId # 0 => /\ x.bgId = w.player[m.who].bgId
                                         /\ x.map = w.player[m.who].map
                                         /\ x.moving = w.player[m.who].moving
      PROVE  Protocol(q, v, L, N \o v.sent)
  <2>1. Placed(w, m.who) BY <1>3, <1>8 DEF Protocol
  <2>2. x.online /\ \A i \in 1..Len(w.bg) : m.who \in w.bg[i].players =>
            x.bgId = i /\ x.map = i /\ ~x.moving
    BY <1>8, <2>1 DEF Placed
  <2>3. Protocol(q, v, L, N) BY <1>3, <1>8, <2>2, ProtocolPlayer
  <2> QED BY <1>4, <1>8, <2>3 DEF PlayerSet
<1>9. CASE /\ m.op = "invite" /\ w.player[m.who].queued
           /\ \E x : PlayerSet(v, w, m.who, x) /\ Hears(x, w.player[m.who], m.inst)
  <2>1. m.who \in Player /\ m.inst \in Inst /\ w.player[m.who] \in Players
    BY <1>1, <1>9, WorldSays, WorldFields
  <2>2. PICK x : PlayerSet(v, w, m.who, x) /\ Hears(x, w.player[m.who], m.inst) BY <1>9
  <2>3. /\ x.queued = w.player[m.who].queued /\ x.bgId = w.player[m.who].bgId
        /\ x.map = w.player[m.who].map /\ x.moving = w.player[m.who].moving
        /\ x.online = w.player[m.who].online
    BY <2>1, <2>2, RecordsChanged
  <2>4. Channel(q.of[m.who], x, L, N, m.who)
    BY <1>3, <2>1, <2>3, KeptChannel DEF Protocol
  <2> QED BY <1>2, <1>8, <2>1, <2>2, <2>3, <2>4
<1>10. CASE m.op = "enter" /\ \E x : PlayerSet(v, w, m.who, x)
                                     /\ Bids(x, w.player[m.who], m.inst)
  <2>1. m.who \in Player /\ m.inst \in Inst /\ w.player[m.who] \in Players
    BY <1>1, <1>10, WorldSays, WorldFields
  <2>2. PICK x : PlayerSet(v, w, m.who, x) /\ Bids(x, w.player[m.who], m.inst) BY <1>10
  <2>3. x.queued = w.player[m.who].queued /\ x.online = w.player[m.who].online
    BY <2>1, <2>2, RecordsChanged
  <2>4. /\ IsReply(m, m.who) /\ Channel(q.of[m.who], w.player[m.who], M, N, m.who)
    BY <1>10, <2>1 DEF IsReply, Protocol
  <2>5. w.player[m.who].queued /\ w.player[m.who].bgId = 0 BY <2>4, Replied
  <2>6. Channel(q.of[m.who], x, L, N, m.who) BY <1>2, <2>3, <2>4, <2>5, RepliedChannel
  <2> QED BY <1>2, <1>8, <2>1, <2>2, <2>3, <2>5, <2>6
<1>11. CASE m.op = "unqueue" /\ \E x : PlayerSet(v, w, m.who, x)
                                       /\ Frees(x, w.player[m.who])
  <2>1. m.who \in Player /\ w.player[m.who] \in Players
    BY <1>1, <1>11, WorldSays, WorldFields
  <2>2. PICK x : PlayerSet(v, w, m.who, x) /\ Frees(x, w.player[m.who]) BY <1>11
  <2>3. x.bgId = w.player[m.who].bgId /\ x.online = w.player[m.who].online
    BY <1>1, <2>1, <2>2, RecordsChanged
  <2>4. /\ IsReply(m, m.who) /\ Channel(q.of[m.who], w.player[m.who], M, N, m.who)
    BY <1>11, <2>1 DEF IsReply, Protocol
  <2>5. w.player[m.who].bgId = 0 BY <2>4, Replied
  <2>6. Channel(q.of[m.who], x, L, N, m.who) BY <1>2, <2>3, <2>4, <2>5, RepliedChannel
  <2> QED BY <1>2, <1>8, <2>1, <2>2, <2>3, <2>5, <2>6
<1>12. CASE /\ m.op = "expired" /\ w.player[m.who].queued
            /\ \E x \in QueueMessages : Says(v, w, x) /\ Forwards(x, m)
  <2>1. m.who \in Player BY <1>1, <1>12, WorldSays
  <2>2. PICK x \in QueueMessages : Says(v, w, x) /\ Forwards(x, m) BY <1>12
  <2>3. x.op = "expire" /\ x.who = m.who /\ v.player = w.player /\ v.bg = w.bg
    BY <2>2 DEF Says, Forwards
  <2>4. Protocol(q, w, L, Append(N, x)) BY <1>3, <1>12, <2>1, <2>3, ProtocolAct
  <2>5. Append(N, x) = N \o v.sent BY <2>2 DEF Says
  <2>6. Protocol(q, v, L, Append(N, x)) BY <2>3, <2>4 DEF Protocol, NoneOffline, Placed
  <2> QED BY <1>2, <2>5, <2>6
<1> QED BY <1>5, <1>6, <1>7, <1>9, <1>10, <1>11, <1>12 DEF Effect

\* A player leaves the battleground he takes part in, if any.
LEMMA LeftProtocol ==
    ASSUME NEW q, NEW w, NEW M, NEW N, Protocol(q, w, M, N), w \in WorldStates,
           NEW i \in 1..Len(w.bg), NEW p \in Player,
           \A j \in 1..Len(w.bg) : p \in w.bg[j].players => j = i,
           NEW v, Left(v, w, i, p)
    PROVE  Protocol(q, v, M, N)
<1>1. /\ Len(v.bg) = Len(w.bg) /\ i # 0
      /\ \A j \in 1..Len(w.bg) :
             /\ v.bg[j].players = IF j = i THEN w.bg[j].players \ {p} ELSE w.bg[j].players
             /\ v.bg[j].offline = w.bg[j].offline
      /\ \A u \in Player : u # p => v.player[u] = w.player[u]
  <2>1. i # 0 OBVIOUS
  <2> QED BY <2>1, Zenon DEF Left
<1>2. NoneOffline(v) BY <1>1 DEF NoneOffline, Protocol
<1>3. ASSUME NEW u \in Player, u # p
      PROVE  Channel(q.of[u], v.player[u], M, N, u) /\ Placed(v, u)
  <2>1. Channel(q.of[u], w.player[u], M, N, u) /\ Placed(w, u) /\ v.player[u] = w.player[u]
    BY <1>1, <1>3 DEF Protocol
  <2>2. \A j \in 1..Len(w.bg) : u \in v.bg[j].players => u \in w.bg[j].players BY <1>1
  <2> QED BY <1>1, <2>1, <2>2 DEF Placed
<1> DEFINE r == w.player[p]
           x == v.player[p]
<1>4. Channel(q.of[p], r, M, N, p) /\ Placed(w, p) /\ r \in Players
  BY WorldFields DEF Protocol
<1>5. /\ x.online = r.online /\ x.bgId \in {0, r.bgId}
      /\ (r.queued => x.queued) \/ (r.bgId # 0 /\ x.bgId = 0)
  <2>1. x = IF ~InWorld(w, p) THEN r ELSE Departed(r, p \in w.bg[i].players) BY DEF Left
  <2>2. p \in w.bg[i].players => r.bgId # 0 BY <1>1, <1>4 DEF Placed
  <2>3. ASSUME NEW took \in BOOLEAN
        PROVE  /\ Departed(r, took).online = r.online /\ Departed(r, took).bgId = 0
               /\ ~took => Departed(r, took).queued = r.queued
    BY <1>4 DEF Players, Departed
  <2> HIDE DEF r, x
  <2>4. PICK took \in BOOLEAN : took <=> p \in w.bg[i].players OBVIOUS
  <2>5. x = IF ~InWorld(w, p) THEN r ELSE Departed(r, took) BY <2>1, <2>4
  <2> QED BY <2>2, <2>3, <2>4, <2>5
<1> HIDE DEF r, x
<1>6. Channel(q.of[p], x, M, N, p) BY <1>4, <1>5, KeptChannel, LeftChannel
<1>7. Placed(v, p) BY <1>1, <1>4, <1>5 DEF Placed, r, x
<1>8. \A u \in Player : Channel(q.of[u], v.player[u], M, N, u) /\ Placed(v, u)
  BY <1>3, <1>6, <1>7 DEF x
<1> QED BY <1>2, <1>8 DEF Protocol

\* Whoever takes part in i takes part in no other.
LEMMA OnlyThere ==
    ASSUME NEW q, NEW w, NEW M, NEW N, Protocol(q, w, M, N), NEW p \in Player,
           NEW i \in 1..Len(w.bg), p \in w.bg[i].players \/ w.player[p].bgId = i
    PROVE  \A j \in 1..Len(w.bg) : p \in w.bg[j].players => j = i
BY DEF Protocol, Placed

\* A player arrives in a battleground, or elsewhere.
LEMMA ArrivedProtocol ==
    ASSUME NEW q, NEW w, NEW M, NEW N, Protocol(q, w, M, N), w \in WorldStates,
           \A p \in Player : w.player[p].bgId \in 0..Len(w.bg), NEW p \in Player,
           NEW v, v = Arrived(w, p)
    PROVE  /\ Protocol(q, v, M, N) /\ v \in WorldStates /\ v.sent = w.sent
           /\ Len(v.bg) = Len(w.bg)
           /\ \A u \in Player : v.player[u].bgId = w.player[u].bgId
           /\ \A u \in Player : v.player[u].queued = w.player[u].queued
           /\ \A u \in Player : v.player[u].moving => w.player[u].moving
           /\ \A j \in 1..Len(w.bg) : v.bg[j].listed = w.bg[j].listed
                  /\ \A u \in v.bg[j].players : u \in w.bg[j].players \/ w.player[u].bgId = j
<1>1. w.player[p] \in Players /\ w.player[p].bgId \in 0..Len(w.bg) /\ Len(w.bg) \in Nat
  BY WorldFields
<1>2. CASE ~w.player[p].moving BY <1>2 DEF Arrived
<1>3. CASE w.player[p].moving
  <2>1. PICK r : r = [w.player[p] EXCEPT !.moving = FALSE, !.map = w.player[p].bgId]
    OBVIOUS
  <2>2. /\ r \in Players /\ r.bgId = w.player[p].bgId /\ r.queued = w.player[p].queued
        /\ r.online = w.player[p].online /\ ~r.moving /\ r.map = r.bgId
    BY <1>1, <2>1 DEF Players
  <2>3. PICK x : x = [w EXCEPT !.player[p] = r] OBVIOUS
  <2>4. PlayerSet(x, w, p, r) BY <1>1, <2>2, <2>3, SettingPlayer
  <2>5. Channel(q.of[p], r, M, N, p) /\ Placed(w, p) BY <2>2, KeptChannel DEF Protocol
  <2>6. Protocol(q, x, M, N) BY <1>3, <2>2, <2>4, <2>5, ProtocolPlayer DEF Placed
  <2>7. /\ x \in WorldStates /\ x.bg = w.bg /\ x.sent = w.sent /\ x.player[p] = r
        /\ \A u \in Player : u # p => x.player[u] = w.player[u]
    BY <2>4 DEF PlayerSet
  <2>8. /\ \A u \in Player : x.player[u].bgId = w.player[u].bgId
        /\ \A u \in Player : x.player[u].queued = w.player[u].queued
        /\ \A u \in Player : x.player[u].moving => w.player[u].moving
    BY <2>2, <2>7
  <2>9. CASE ~(w.player[p].bgId # 0 /\ w.player[p].invite = w.player[p].bgId)
    <3>1. v = x BY <1>3, <2>1, <2>3, <2>9 DEF Arrived
    <3> QED BY <2>6, <2>7, <2>8, <3>1
  <2>10. CASE w.player[p].bgId # 0 /\ w.player[p].invite = w.player[p].bgId
    <3>1. PICK i \in 1..Len(w.bg) : i = w.player[p].bgId BY <1>1, <2>10
    <3>2. i \in 1..Len(x.bg) /\ x.bg[i] \in Battlegrounds BY <2>7, <3>1, WorldFields
    <3>3. PICK b : b = [x.bg[i] EXCEPT !.players = @ \cup {p}] OBVIOUS
    <3>4. /\ b \in Battlegrounds /\ b.listed = x.bg[i].listed /\ b.offline = x.bg[i].offline
          /\ b.players = x.bg[i].players \cup {p}
      BY <3>2, <3>3 DEF Battlegrounds
    <3>5. v = [x EXCEPT !.bg[i] = b]
      BY <1>3, <2>1, <2>3, <2>10, <3>1, <3>2, <3>3 DEF Arrived
    <3>6. GroundSet(v, x, i, b) BY <2>7, <3>2, <3>4, <3>5, SettingGround
    <3>7. /\ v \in WorldStates /\ v.player = x.player /\ v.sent = x.sent
          /\ Len(v.bg) = Len(x.bg) /\ v.bg[i] = b
          /\ \A j \in 1..Len(x.bg) : j # i => v.bg[j] = x.bg[j]
      BY <3>6 DEF GroundSet
    <3>8. NoneOffline(v) BY <2>6, <3>4, <3>7 DEF NoneOffline, Protocol
    <3>9. ASSUME NEW u \in Player
          PROVE  Placed(v, u)
      <4>1. Placed(x, u) BY <2>6 DEF Protocol
      <4>2. u \in b.players => u \in x.bg[i].players \/ u = p BY <3>4
      <4>3. u = p => x.player[u] = r /\ r.bgId = i BY <2>2, <2>7, <3>1
      <4> QED BY <2>2, <3>7, <4>1, <4>2, <4>3 DEF Placed
    <3>10. Protocol(q, v, M, N) BY <2>6, <3>7, <3>8, <3>9 DEF Protocol
    <3>11. ASSUME NEW j \in 1..Len(w.bg)
           PROVE  /\ v.bg[j].listed = w.bg[j].listed
                  /\ \A u \in v.bg[j].players : u \in w.bg[j].players \/ w.player[u].bgId = j
      BY <2>7, <3>1, <3>4, <3>7
    <3> QED BY <2>7, <2>8, <3>7, <3>10, <3>11
  <2> QED BY <2>9, <2>10
<1> QED BY <1>2, <1>3

\* What leaving a battleground that is over does not change: nothing is said.
Rests(x, r) ==
    /\ x.moving = r.moving /\ (x.queued = r.queued \/ r.bgId # 0)
    /\ x.bgId = r.bgId \/ (x.bgId = 0 /\ ~r.moving)
Parted(v, w) ==
    /\ v.sent = w.sent /\ Len(v.bg) = Len(w.bg)
    /\ \A j \in 1..Len(w.bg) :
           /\ v.bg[j].status = w.bg[j].status /\ v.bg[j].listed = w.bg[j].listed
           /\ v.bg[j].players \subseteq w.bg[j].players
    /\ \A u \in Player : Rests(v.player[u], w.player[u])

\* A player who leaves rests, and so do the others.
LEMMA LeftRests ==
    ASSUME NEW q, NEW w, NEW M, NEW N, Protocol(q, w, M, N), w \in WorldStates,
           NEW i \in 1..Len(w.bg), NEW p \in Player, NEW v, Left(v, w, i, p), NEW u \in Player
    PROVE  Rests(v.player[u], w.player[u])
<1>1. CASE u # p BY <1>1 DEF Left, Rests
<1>2. CASE u = p
  <2> DEFINE r == w.player[p]
  <2>1. v.player[p] = IF ~InWorld(w, p) THEN r ELSE Departed(r, p \in w.bg[i].players)
    BY DEF Left
  <2>2. p \in w.bg[i].players => r.bgId # 0 BY DEF Protocol, Placed
  <2>3. r \in Players /\ (InWorld(w, p) => ~r.moving) BY WorldFields DEF InWorld
  <2>4. ASSUME NEW took \in BOOLEAN
        PROVE  /\ Departed(r, took).moving = r.moving /\ Departed(r, took).bgId = 0
               /\ ~took => Departed(r, took).queued = r.queued
    BY <2>3 DEF Players, Departed
  <2>5. PICK took \in BOOLEAN : took <=> p \in w.bg[i].players OBVIOUS
  <2>6. v.player[p] = IF ~InWorld(w, p) THEN r ELSE Departed(r, took) BY <2>1, <2>5
  <2> HIDE DEF r
  <2>7. Rests(v.player[p], r) BY <2>2, <2>3, <2>4, <2>5, <2>6 DEF Rests
  <2> QED BY <1>2, <2>7 DEF r
<1> QED BY <1>1, <1>2

LEMMA Parting ==
    ASSUME NEW w \in WorldStates, NEW i \in 1..Len(w.bg), w.bg[i].status = "waitLeave",
           NEW p \in Player, NEW v, v = RemovePlayerAtLeave(w, i, p)
    PROVE  v.sent = w.sent /\ \A j \in 1..Len(w.bg) : v.bg[j].listed = w.bg[j].listed
BY WorldFields DEF Erased, Battlegrounds, WorldStates, RemovePlayerAtLeave

LEMMA RestsMore ==
    ASSUME NEW x, NEW y, NEW r, Rests(y, x), Rests(x, r)
    PROVE  Rests(y, r)
BY DEF Rests

\* All the players of a battleground that is over leave it.
LEMMA AllParted ==
    ASSUME NEW q, NEW w, NEW M, NEW N, Abroad(q, w, M, N), Protocol(q, w, M, N),
           NEW i \in 1..Len(w.bg), w.bg[i].status = "waitLeave",
           NEW v, v = AllLeft(w, i)
    PROVE  Protocol(q, v, M, N) /\ Parted(v, w)
<1> DEFINE Q == {x \in WorldStates : Abroad(q, x, M, N) /\ Protocol(q, x, M, N) /\ Parted(x, w)}
           S == w.bg[i].players
<1>0. w \in WorldStates BY AbroadFields
<1>1. w \in Q BY <1>0 DEF Parted, Rests
<1>2. SetToSeq(S) \in Seq(S) /\ S \in SUBSET Player
  BY <1>0, WorldFields, PairsWith, InOrder
<1>3. ASSUME NEW x \in Q, NEW p \in S
      PROVE  RemovePlayerAtLeave(x, i, p) \in Q
  <2>1. PICK y : y = RemovePlayerAtLeave(x, i, p) OBVIOUS
  <2>2. /\ Abroad(q, x, M, N) /\ Protocol(q, x, M, N) /\ Parted(x, w) /\ x \in WorldStates
        /\ p \in Player
    BY <1>2, <1>3
  <2>3. i \in 1..Len(x.bg) /\ Len(x.bg) = Len(w.bg) /\ x.bg[i].status = "waitLeave"
    BY <2>2 DEF Parted
  <2>4. Abroad(q, y, M, N) /\ Left(y, x, i, p) BY <2>1, <2>2, <2>3, LeavingAbroad
  <2>5. y.sent = x.sent /\ \A j \in 1..Len(x.bg) : y.bg[j].listed = x.bg[j].listed
    BY <2>1, <2>2, <2>3, Parting
  <2>6. \A j \in 1..Len(x.bg) : p \in x.bg[j].players => j = i
    BY <1>2, OnlyThere, <2>2, <2>3 DEF Parted
  <2>7. Protocol(q, y, M, N) BY <2>2, <2>3, <2>4, <2>6, LeftProtocol
  <2>8. \A u \in Player : Rests(y.player[u], x.player[u]) BY <2>2, <2>3, <2>4, LeftRests
  <2>9. ASSUME NEW u \in Player
        PROVE  Rests(y.player[u], w.player[u])
    BY <2>2, <2>8, RestsMore DEF Parted
  <2>10. ASSUME NEW j \in 1..Len(w.bg)
         PROVE  /\ y.bg[j].status = w.bg[j].status /\ y.bg[j].listed = w.bg[j].listed
                /\ y.bg[j].players \subseteq w.bg[j].players
    BY <2>3, <2>4, <2>2, <2>5 DEF Left, Parted
  <2>11. Parted(y, w) /\ y \in WorldStates
    BY <2>2, <2>3, <2>4, <2>5, <2>9, <2>10 DEF Parted, Left
  <2> QED BY <2>1, <2>4, <2>7, <2>11
<1> HIDE DEF Q
<1>4. AllLeft(w, i) \in Q BY <1>1, <1>2, <1>3, RemoveAllFold
<1> QED BY <1>4 DEF Q

-----------------------------------------------------------------------------
(* Nobody leaves a battleground.                                           *)

NoneListed(w) == \A i \in 1..Len(w.bg) : ~w.bg[i].listed
Mute(N) == \A n \in 1..Len(N) : N[n].op \notin {"add", "lower", "drop"}
\* From w to v, which say s, nobody is present anew and no battleground is listed.
Onward(v, w, M, K, s) ==
    /\ Present(v, K) \subseteq Present(w, M)
    /\ NoneListed(w) => NoneListed(v) /\ Mute(s)

LEMMA SceneryOnward ==
    ASSUME NEW w \in WorldStates, NEW v, Scenery(v, w), NEW M
    PROVE  Onward(v, w, M, M, v.sent)
<1>1. /\ v.player = w.player /\ \A i \in 1..Len(v.bg) : SameScene(v, w, i)
      /\ \A n \in 1..Len(v.sent) : Ends(w, v.sent[n])
      /\ v \in WorldStates /\ Len(w.bg) \in Nat /\ Len(v.bg) \in Nat
  BY WorldFields DEF Scenery
<1>2. ASSUME NEW i \in Inst, i <= Len(v.bg), NEW p \in v.bg[i].players
      PROVE  i <= Len(w.bg) /\ p \in w.bg[i].players
  BY <1>1, <1>2 DEF Inst, SameScene
<1>3. Present(v, M) \subseteq Present(w, M) BY <1>1, <1>2 DEF Present
<1>4. ASSUME NoneListed(w)
      PROVE  NoneListed(v) /\ Mute(v.sent)
  BY <1>1, <1>4 DEF NoneListed, SameScene, Mute, Ends
<1> QED BY <1>3, <1>4 DEF Onward

\* Nobody changes battlegrounds.
LEMMA PlayerOnward ==
    ASSUME NEW w \in WorldStates, NEW v, NEW M, Len(v.bg) = Len(w.bg),
           \A u \in Player : v.player[u].bgId \in {0, w.player[u].bgId},
           \A j \in 1..Len(w.bg) : /\ v.bg[j].listed = w.bg[j].listed
               /\ \A u \in v.bg[j].players : u \in w.bg[j].players \/ w.player[u].bgId = j,
           v.sent = <<>>
    PROVE  Onward(v, w, M, M, v.sent)
BY WorldFields DEF Inst, Present, NoneListed, Mute, Onward

LEMMA EffectOnward ==
    ASSUME NEW w \in WorldStates, w.sent = <<>>, NEW M \in Seq(WorldMessages), M # <<>>,
           NEW m, m = Head(M), NEW v, Effect(v, w, m)
    PROVE  Onward(v, w, M, Tail(M), v.sent)
<1>1. m \in WorldMessages /\ 1 \in Inst BY Taken DEF Inst
<1>2. ASSUME Onward(v, w, M, M, v.sent)
      PROVE  Onward(v, w, M, Tail(M), v.sent)
  BY <1>2, TailPresent DEF Onward
<1>3. ASSUME NEW x, NEW p \in Player, PlayerSet(v, w, p, x), x.bgId = w.player[p].bgId
      PROVE  Onward(v, w, M, M, v.sent)
  BY <1>3, PlayerOnward DEF PlayerSet
<1>4. CASE m.op \in {"count", "create"} /\ Scenery(v, w) BY <1>2, <1>4, SceneryOnward
<1>5. CASE m.op = "joined" /\ AllAsked(v, w, m.members)
  <2>1. ASSUME NEW u \in Player
        PROVE  v.player[u].bgId = w.player[u].bgId
    BY <1>5, WorldFields, <1>1, RecordsChanged DEF AllAsked
  <2> QED BY <1>2, <1>5, <2>1, PlayerOnward DEF AllAsked
<1>6. CASE v = w BY <1>2, <1>6, PlayerOnward
<1>7. CASE /\ m.op = "invite" /\ w.player[m.who].queued
           /\ \E x : PlayerSet(v, w, m.who, x) /\ Hears(x, w.player[m.who], m.inst)
  BY <1>1, <1>7, WorldSays, WorldFields, <1>2, <1>3, RecordsChanged
<1>8. CASE m.op = "enter" /\ \E x : PlayerSet(v, w, m.who, x)
                                    /\ Bids(x, w.player[m.who], m.inst)
  <2>1. m.who \in Player /\ m.inst \in Inst /\ w.player[m.who] \in Players
    BY <1>1, <1>8, WorldSays, WorldFields
  <2>2. PICK x : PlayerSet(v, w, m.who, x) /\ Bids(x, w.player[m.who], m.inst) BY <1>8
  <2>3. x.bgId = m.inst BY <2>1, <2>2, RecordsChanged
  <2>4. PICK L : L = Tail(M) OBVIOUS
  <2>5. Present(w, L) \subseteq Present(w, M) BY <2>4, TailPresent
  <2>6. 1 \in 1..Len(M) /\ M[1] = m BY Taken
  <2>7. <<m.inst, m.who>> \in Present(w, M) BY <1>8, <2>1, <2>6 DEF Present, Enter
  <2>8. ASSUME NEW y \in Present(v, L)
        PROVE  y \in Present(w, M)
    <3>1. y \in Inst \X Player BY DEF Present
    <3>2. CASE y[2] = m.who /\ y[1] = m.inst BY <3>1, <3>2, <2>7
    <3>3. CASE ~(y[2] = m.who /\ y[1] = m.inst)
      BY <2>2, <2>3, <3>1, <3>3, <2>5 DEF PlayerSet, Present
    <3> QED BY <3>2, <3>3
  <2>9. v.bg = w.bg /\ v.sent = <<>> BY <2>2 DEF PlayerSet
  <2>10. NoneListed(w) => NoneListed(v) BY <2>9 DEF NoneListed
  <2>11. Mute(v.sent) BY <2>9 DEF Mute
  <2> QED BY <2>4, <2>8, <2>10, <2>11 DEF Onward
<1>9. CASE m.op = "unqueue" /\ \E x : PlayerSet(v, w, m.who, x)
                                      /\ Frees(x, w.player[m.who])
  BY <1>1, <1>9, WorldSays, WorldFields, <1>2, <1>3, RecordsChanged
<1>10. CASE /\ m.op = "expired" /\ w.player[m.who].queued
            /\ \E x \in QueueMessages : Says(v, w, x) /\ Forwards(x, m)
  BY <1>10, <1>2 DEF Says, Forwards, Present, NoneListed, Mute, Onward
<1> QED BY <1>4, <1>5, <1>6, <1>7, <1>8, <1>9, <1>10 DEF Effect

\* The world if no battleground were over.
LastingGround(b) == [b EXCEPT !.status = "inProgress"]
Lasting(w) == [w EXCEPT !.bg = [i \in 1..Len(w.bg) |-> LastingGround(w.bg[i])]]
Lasts(v, w) ==
    /\ v \in WorldStates /\ v.player = w.player /\ v.sent = w.sent /\ Len(v.bg) = Len(w.bg)
    /\ \A i \in 1..Len(w.bg) :
           /\ v.bg[i].players = w.bg[i].players /\ v.bg[i].listed = w.bg[i].listed
           /\ v.bg[i].status = "inProgress"

LEMMA LastingOnes ==
    ASSUME NEW w \in WorldStates
    PROVE  Lasts(Lasting(w), w)
<1>1. \A b \in Battlegrounds : /\ LastingGround(b) \in Battlegrounds
                               /\ LastingGround(b).players = b.players
                               /\ LastingGround(b).listed = b.listed
                               /\ LastingGround(b).status = "inProgress"
  BY DEF Status, Battlegrounds, LastingGround
<1>2. /\ Len(w.bg) \in Nat /\ \A i \in 1..Len(w.bg) : w.bg[i] \in Battlegrounds
  BY WorldFields
<1>3. PICK f : f = [i \in 1..Len(w.bg) |-> LastingGround(w.bg[i])] OBVIOUS
<1>4. f \in Seq(Battlegrounds) /\ Len(f) = Len(w.bg)
  BY <1>1, <1>2, <1>3, LenProperties, SeqDef
<1>5. \A i \in 1..Len(w.bg) : f[i] = LastingGround(w.bg[i]) BY <1>3
<1>6. PICK v : v = [w EXCEPT !.bg = f] OBVIOUS
<1>7. v \in WorldStates /\ v.player = w.player /\ v.sent = w.sent /\ v.bg = f
  BY <1>4, <1>6 DEF WorldStates
<1>8. v = Lasting(w) BY <1>3, <1>6 DEF Lasting
<1> QED BY <1>1, <1>2, <1>4, <1>5, <1>7, <1>8 DEF Lasts

LEMMA LastingFresh ==
    ASSUME NEW w \in WorldStates, NoneListed(w), NEW v, Lasts(v, w), NEW M
    PROVE  /\ FreshOnes(v) = Inst /\ \A i \in Inst : ~Lists(v, i) /\ ~Over(v, i)
           /\ Present(v, M) = Present(w, M) /\ (WorldSound(w) => WorldSound(v))
<1>1. Len(w.bg) \in Nat BY WorldFields
<1>2. \A i \in Inst : i <= Len(w.bg) => i \in 1..Len(w.bg) BY <1>1 DEF Inst
<1>3. \A i \in Inst : ~Lists(v, i) /\ ~Over(v, i)
  BY <1>2 DEF Lists, Over, Lasts, NoneListed
<1>4. Present(v, M) = Present(w, M) BY <1>2 DEF Present, Lasts
<1>5. WorldSound(w) => WorldSound(v) BY DEF WorldSound, Lasts
<1> QED BY <1>3, <1>4, <1>5 DEF FreshOnes

\* The counts are right for every instance, as if none were over.
Steady(q, w, M, N) == Agreed(q, Lasting(w), M, N) /\ NoneListed(w) /\ Mute(N)

LEMMA SteadyStep ==
    ASSUME NEW q, NEW w \in WorldStates, NEW M, NEW N, Steady(q, w, M, N), NEW v, NEW K, NEW L,
           NEW s \in Seq(QueueMessages),
           Agreed(q, v, K, L), Onward(v, w, M, K, s), Follows(L, N, s)
    PROVE  Steady(q, v, K, L)
<1>1. PICK x : x = Lasting(w) OBVIOUS
<1>2. PICK y : y = Lasting(v) OBVIOUS
<1>3. Agreed(q, x, M, N) /\ NoneListed(w) /\ Mute(N) BY <1>1 DEF Steady
<1>4. /\ v \in WorldStates /\ WorldSound(v) /\ Announced(Len(v.bg), Len(q.ids), K)
      /\ L \in Seq(QueueMessages)
  BY DEF Agreed, WorldSound
<1>5. Present(v, K) \subseteq Present(w, M) /\ NoneListed(v) /\ Mute(s)
  BY <1>3 DEF Onward
<1>6. Lasts(x, w) /\ Lasts(y, v) BY <1>1, <1>2, <1>4, LastingOnes
<1>7. /\ FreshOnes(x) = Inst /\ Present(x, M) = Present(w, M)
      /\ \A i \in Inst : ~Lists(x, i) /\ ~Over(x, i)
  BY <1>3, <1>6, LastingFresh
<1>8. /\ FreshOnes(y) = Inst /\ Present(y, K) = Present(v, K) /\ WorldSound(y)
      /\ \A i \in Inst : ~Lists(y, i) /\ ~Over(y, i)
  BY <1>4, <1>5, <1>6, LastingFresh
<1>9. Balanced(q, FreshOnes(y), Present(y, K))
  BY <1>3, <1>5, <1>7, <1>8, LessBalanced DEF Agreed
<1>10. Announced(Len(y.bg), Len(q.ids), K) BY <1>4, <1>6 DEF Lasts
<1>11. Mute(L) BY <1>3, Concatenated, <1>5 DEF Agreed, Follows, Mute
<1>12. QueueNews(y, L) BY <1>11 DEF Mute, QueueNews
<1>13. ASSUME NEW i \in 1..Len(q.ids)
       PROVE  Phase(q, y, L, i)
  BY <1>3, <1>7, <1>11, <1>8 DEF Agreed, Inst, Phase, Leaving, NoAdd, NoDrop, IsAdd,
     IsDrop, Mute
<1>14. Agreed(q, y, K, L) BY <1>4, <1>8, <1>9, <1>10, <1>12, <1>13 DEF Agreed
<1> QED BY <1>2, <1>5, <1>11, <1>14 DEF Steady

\* The queue takes a message, or updates.
LEMMA TakesSteady ==
    ASSUME NEW q, NEW w \in WorldStates, NEW M, NEW N, Steady(q, w, M, N), N # <<>>,
           q.sent = <<>>, NEW r, r = Handled(q, Head(N))
    PROVE  Steady(r, w, M \o r.sent, Tail(N))
<1>1. PICK x : x = Lasting(w) OBVIOUS
<1>2. Agreed(q, x, M, N) /\ NoneListed(w) /\ Mute(N) BY <1>1 DEF Steady
<1>3. Agreed(r, x, M \o r.sent, Tail(N)) BY <1>2, QueueTakes
<1>4. PICK L : L = Tail(N) OBVIOUS
<1>5. \A n \in 1..Len(L) : L[n] = N[n + 1] /\ n + 1 \in 1..Len(N)
  BY <1>2, <1>4, Taken DEF Agreed
<1>6. Mute(L) BY <1>2, <1>5 DEF Mute
<1> QED BY <1>1, <1>2, <1>3, <1>4, <1>6 DEF Steady

LEMMA UpdatesSteady ==
    ASSUME NEW q, NEW w \in WorldStates, NEW M, NEW N, Steady(q, w, M, N), q.sent = <<>>,
           NEW late, NEW r, r = [Updated(q, late) EXCEPT !.scheduled = FALSE]
    PROVE  Steady(r, w, M \o r.sent, N)
BY QueueUpdates DEF Steady

-----------------------------------------------------------------------------
(* What else is invariant.                                                 *)

NobodyOut == ~did.lost \/ ~did.left
PInv == NobodyOut => Protocol(queue, world, toWorld, toQueue)
SInv == ~did.left => Steady(queue, world, toWorld, toQueue)
Tracked == IInv /\ PInv /\ SInv

LEMMA Remembering ==
    ASSUME did \in DidStates, NEW request, Count(request)
    PROVE  /\ did.lost => did'.lost
           /\ did.left => did'.left
           /\ request \in {"trip", "logout"} => did'.lost
           /\ request \in {"leave", "logout"} => did'.left
           /\ NobodyOut' => NobodyOut
BY DEF Count, NobodyOut

\* A step of the world is a step of Protocol and of Steady.
LEMMA HomeProtocol ==
    ASSUME NEW v \in WorldStates, WorldBecomes(v), queue' = queue, NEW M, toWorld' = M,
           Protocol(queue, v, M, toQueue \o v.sent)
    PROVE  Protocol(queue, world, toWorld, toQueue)'
BY DEF WorldBecomes, WorldStates, Protocol, NoneOffline, Placed

LEMMA HomeSteady ==
    ASSUME IInv, IInv', Steady(queue, world, toWorld, toQueue), NEW v \in WorldStates,
           WorldBecomes(v), queue' = queue,
           Onward(v, world, toWorld, toWorld', v.sent)
    PROVE  Steady(queue, world, toWorld, toQueue)'
<1>1. /\ world'.player = v.player /\ world'.bg = v.bg /\ v.sent \in Seq(QueueMessages)
      /\ world' = [v EXCEPT !.sent = <<>>] /\ toQueue' = toQueue \o v.sent
  BY WorldFields DEF WorldBecomes, WorldStates
<1>2. PICK x : x = world' OBVIOUS
<1>3. PICK K : K = toWorld' OBVIOUS
<1>4. PICK L : L = toQueue' OBVIOUS
<1>5. Onward(x, world, toWorld, K, v.sent)
  BY <1>1, <1>2, <1>3 DEF Onward, Present, NoneListed
<1>6. Follows(L, toQueue, v.sent) BY <1>1, <1>4 DEF Follows
<1>7. Agreed(queue, x, K, L) /\ world \in WorldStates
  BY <1>2, <1>3, <1>4 DEF IInv, Agreed, WorldSound
<1>8. Steady(queue, x, K, L) BY <1>1, <1>5, <1>6, <1>7, SteadyStep
<1> QED BY <1>2, <1>3, <1>4, <1>8

LEMMA ComesHome ==
    ASSUME Tracked, IInv', NEW v \in WorldStates, WorldBecomes(v), queue' = queue,
           NobodyOut' => /\ NobodyOut
                         /\ Protocol(queue, v, toWorld', toQueue \o v.sent),
           ~did'.left => ~did.left /\ Onward(v, world, toWorld, toWorld', v.sent)
    PROVE  PInv' /\ SInv'
BY HomeProtocol, HomeSteady DEF PInv, Tracked, SInv

LEMMA QueueTracked ==
    ASSUME Tracked, QueueThread
    PROVE  PInv' /\ SInv'
<1>1. /\ Agreed(queue, world, toWorld, toQueue) /\ queue.sent = <<>> /\ world \in WorldStates
      /\ toWorld \in Seq(WorldMessages)
  BY DEF Tracked, IInv, Settled, Agreed, WorldSound, Announced
<1>2. ASSUME NEW r, NEW N, NobodyOut => Protocol(r, world, toWorld \o r.sent, N),
             ~did.left => Steady(r, world, toWorld \o r.sent, N),
             r \in QueueStates, QueueBecomes(r), toQueue' = N,
             UNCHANGED <<world, timers, did>>
      PROVE  PInv' /\ SInv'
  BY <1>2, Emptied DEF QueueBecomes, QueueStates, Protocol, Steady, PInv, SInv, NobodyOut
<1>3. CASE RunQueueMessage
  BY <1>1, <1>3, TakesProtocol, TakesSteady, QueueTakes, <1>2 DEF RunQueueMessage, Tracked,
     PInv, SInv, Agreed, Balanced, SoundQueue
<1>4. CASE UpdateQueue
  BY <1>4, <1>1, QueueUpdates, UpdatesProtocol, UpdatesSteady, <1>2 DEF UpdateQueue,
     Tracked, PInv, SInv, Agreed, Balanced, SoundQueue
<1> QED BY <1>3, <1>4 DEF QueueThread

\* The effect of the message the world takes.
LEMMA TakesEffect ==
    ASSUME Tracked, NobodyOut, RunWorldMessage, NEW m, m = Head(toWorld),
           NEW v, v = Done(world, m)
    PROVE  /\ Effect(v, world, m) /\ v \in WorldStates /\ v.sent \in Seq(QueueMessages)
           /\ m \in WorldMessages /\ Onward(v, world, toWorld, Tail(toWorld), v.sent)
           /\ Protocol(queue, v, Tail(toWorld), toQueue \o v.sent)
<1>1. /\ Abroad(queue, world, toWorld, toQueue) /\ toWorld # <<>> /\ world.sent = <<>>
      /\ Protocol(queue, world, toWorld, toQueue)
  BY GoingAbroad DEF Tracked, IInv, Settled, PInv, RunWorldMessage
<1>2. /\ world \in WorldStates /\ toWorld \in Seq(WorldMessages)
      /\ Announced(Len(world.bg), Len(queue.ids), toWorld) /\ toQueue \in Seq(QueueMessages)
  BY <1>1, AbroadFields DEF Abroad
<1>3. /\ m \in WorldMessages /\ m.op # "full"
      /\ m.op = "create" => m.inst = Len(world.bg) + 1
  BY <1>1, <1>2, AnnouncedTail
<1>4. ASSUME m.op = "enter"
      PROVE  world.player[m.who].bgId = 0
  <2>1. m.who \in Player /\ IsReply(m, m.who) BY <1>3, <1>4, WorldSays DEF IsReply
  <2>2. Channel(queue.of[m.who], world.player[m.who], toWorld, toQueue, m.who)
    BY <1>1, <2>1 DEF Protocol
  <2> QED BY <1>1, <1>2, <2>1, <2>2, Replied
<1>5. Effect(v, world, m) BY <1>1, <1>2, <1>3, <1>4, Doing
<1>6. Abroad(queue, v, Tail(toWorld), toQueue) BY <1>1, WorldTakes
<1>7. v \in WorldStates /\ v.sent \in Seq(QueueMessages)
  BY <1>6, AbroadFields, WorldFields
<1>8. Onward(v, world, toWorld, Tail(toWorld), v.sent) BY <1>1, <1>2, <1>5, EffectOnward
<1>9. Protocol(queue, v, Tail(toWorld), toQueue \o v.sent)
  BY <1>1, <1>2, <1>5, <1>7, EffectProtocol
<1> QED BY <1>3, <1>5, <1>7, <1>8, <1>9

LEMMA MessageTracked ==
    ASSUME Tracked, IInv', RunWorldMessage
    PROVE  PInv' /\ SInv'
BY TakesEffect, ComesHome DEF RunWorldMessage, PInv, SInv, NobodyOut

LEMMA TimerTracked ==
    ASSUME Tracked, IInv', NEW x \in timers, FireTimer(x)
    PROVE  PInv' /\ SInv'
<1>1. /\ Agreed(queue, world, toWorld, toQueue) /\ queue.sent = <<>> /\ world.sent = <<>>
      /\ timers \in SUBSET Timers /\ did \in DidStates /\ world \in WorldStates
      /\ toWorld \in Seq(WorldMessages) /\ toQueue \in Seq(QueueMessages)
  BY DEF Tracked, IInv, Settled, Agreed, Announced, WorldSound
<1>2. PICK m : m = [op |-> "expired", who |-> x.who, inst |-> x.inst, stamp |-> x.stamp]
  OBVIOUS
<1>3. m \in Plain /\ m \in WorldMessages /\ m.op = "expired"
  BY <1>1, <1>2 DEF Plain, WorldMessages, Timers
<1>4. PICK s \in Seq(WorldMessages) : s = <<m>> /\ s \in Seq(Plain)
  <2>1. <<m>> \in Seq(Plain) /\ <<m>> \in Seq(WorldMessages) BY <1>3
  <2> QED BY <2>1, Zenon
<1>5. PICK K : K = toWorld \o s OBVIOUS
<1>6. toWorld' = K /\ queue' = queue /\ toQueue' = toQueue /\ world' = world
      /\ Count("timeout")
  BY <1>1, <1>3, <1>2, <1>4, <1>5 DEF FireTimer
<1>7. Present(world, K) \subseteq Present(world, toWorld)
  BY <1>1, <1>4, <1>5, PresentPlain
<1>8. WorldBecomes(world) BY <1>1, <1>6 DEF WorldBecomes, WorldStates
<1>9. Onward(world, world, toWorld, K, world.sent) BY <1>1, <1>7 DEF Onward, Mute
<1>10. \A p : Apart(s, p) BY <1>3, <1>4 DEF Apart, IsJoined, IsReply
<1>11. Follows(K, toWorld, s) BY <1>5 DEF Follows
<1>12. NobodyOut => Protocol(queue, world, K, toQueue)
  BY <1>1, <1>10, <1>11, ApartChannel DEF Tracked, PInv, Protocol
<1>13. NobodyOut => Protocol(queue, world, toWorld', toQueue \o world.sent)
  BY <1>1, <1>6, <1>12
<1>14. (NobodyOut' => NobodyOut) /\ (did.left => did'.left) BY <1>1, <1>6, Remembering
<1>15. Onward(world, world, toWorld, toWorld', world.sent) BY <1>6, <1>9
<1> QED BY <1>1, <1>6, <1>8, <1>13, <1>14, <1>15, ComesHome

\* A request puts a message for the queue, which is not about battlegrounds.
LEMMA RequestTracked ==
    ASSUME Tracked, IInv', NEW m \in QueueMessages, m.op \notin {"add", "drop", "lower"},
           toQueue' = Append(toQueue, m), UNCHANGED <<queue, world, toWorld>>,
           NEW request, Count(request),
           NobodyOut => Protocol(queue, world, toWorld, Append(toQueue, m))
    PROVE  PInv' /\ SInv'
<1>1. did \in DidStates /\ world \in WorldStates
  BY DEF Tracked, IInv, Settled, Agreed, WorldSound
<1>2. (NobodyOut' => NobodyOut) /\ (did.left => did'.left) BY <1>1, Remembering
<1>3. PInv' BY <1>2 DEF PInv
<1>4. ASSUME ~did'.left
      PROVE  Steady(queue, world, toWorld, toQueue)'
  <2>1. Steady(queue, world, toWorld, toQueue) BY <1>2, <1>4 DEF Tracked, SInv
  <2>2. PICK L : L = toQueue' OBVIOUS
  <2>3. Agreed(queue, world, toWorld, L) BY <2>2 DEF IInv
  <2>4. PICK s \in Seq(QueueMessages) : s = <<m>>
    <3>1. <<m>> \in Seq(QueueMessages) OBVIOUS
    <3> QED BY <3>1, Zenon
  <2>5. toQueue \in Seq(QueueMessages) BY DEF Tracked, IInv, Agreed
  <2>6. Follows(L, toQueue, s) BY <2>5, <2>2, <2>4 DEF Follows
  <2>7. Mute(s) BY <2>4 DEF Mute
  <2>8. Onward(world, world, toWorld, toWorld, s) BY <2>7 DEF Onward
  <2>9. Steady(queue, world, toWorld, L) BY <1>1, <2>1, <2>3, <2>6, <2>8, SteadyStep
  <2> QED BY <2>2, <2>9
<1> QED BY <1>3, <1>4 DEF SInv

LEMMA JoinTracked ==
    ASSUME Tracked, IInv', NEW S \in Party, NEW d \in {0} \cup ToSet(queue.ids), Join(S, d)
    PROVE  PInv' /\ SInv'
<1>1. /\ queue.ids \in Seq(Nat) /\ world \in WorldStates /\ toQueue \in Seq(QueueMessages)
  BY QueueFields DEF Tracked, IInv, Settled, Agreed, Balanced, SoundQueue, WorldSound
<1>2. d \in Nat BY <1>1 DEF ToSet
<1>3. PICK request : Count(request) BY DEF Join
<1>4. PICK b \in BOOLEAN : b = (Cardinality(S) > 1 /\ Cardinality(S) >= MinPerTeam)
  OBVIOUS
<1>5. PICK m : m = [op |-> "join", members |-> S, desired |-> d, premade |-> b] OBVIOUS
<1>6. m \in QueueMessages /\ m.op = "join" /\ m.members = S
  BY <1>2, <1>5 DEF QueueMessages
<1>7. toQueue' = Append(toQueue, m) /\ UNCHANGED <<queue, world, toWorld>>
  BY <1>4, <1>5 DEF Join
<1>8. ASSUME NobodyOut
      PROVE  Protocol(queue, world, toWorld, Append(toQueue, m))
  <2> DEFINE L == Append(toQueue, m)
  <2>1. Protocol(queue, world, toWorld, toQueue) BY <1>8 DEF Tracked, PInv
  <2>2. ASSUME NEW p \in Player
        PROVE  Channel(queue.of[p], world.player[p], toWorld, L, p)
    <3>1. Channel(queue.of[p], world.player[p], toWorld, toQueue, p)
      BY <2>1 DEF Protocol
    <3>2. CASE p \in S BY <3>2, <1>1, <1>6, <3>1, JoinChannel DEF Join
    <3>3. CASE p \notin S
      <4>1. PICK s \in Seq(QueueMessages) : s = <<m>>
        <5>1. <<m>> \in Seq(QueueMessages) BY <1>6
        <5> QED BY <5>1, Zenon
      <4>2. Beside(s, p) BY <1>6, <3>3, <4>1 DEF Beside, IsJoin, IsAct
      <4>3. Follows(L, toQueue, s) BY <1>1, <1>6, <4>1 DEF Follows
      <4> HIDE DEF L
      <4> QED BY <1>1, <3>1, <4>2, <4>3, BesideChannel
    <3> QED BY <3>2, <3>3
  <2>3. NoRemoval(L) BY <1>1, <1>6, Appended, <2>1 DEF NoRemoval, Protocol
  <2> QED BY <2>1, <2>2, <2>3 DEF Protocol
<1> QED BY <1>3, <1>6, <1>7, <1>8, RequestTracked

LEMMA ClientTracked ==
    ASSUME Tracked, IInv', NEW p \in Player, Client(p)
    PROVE  PInv' /\ SInv'
<1>1. /\ Abroad(queue, world, toWorld, toQueue) /\ did \in DidStates /\ world.sent = <<>>
      /\ toQueue \in Seq(QueueMessages)
  BY GoingAbroad DEF Tracked, IInv, Settled, Abroad
<1>2. /\ world \in WorldStates /\ world.player[p] \in Players
      /\ world.player[p].bgId \in 0..Len(world.bg)
      /\ world.player[p].map \in {0, world.player[p].bgId}
      /\ Len(world.bg) \in Nat
  BY <1>1, AbroadFields, WorldFields
<1>3. NobodyOut => Protocol(queue, world, toWorld, toQueue) BY DEF Tracked, PInv
<1>4. ASSUME NEW enter \in BOOLEAN, AskPort(p, enter)
      PROVE  PInv' /\ SInv'
  BY <1>4, <1>1, <1>3, ProtocolAct, RequestTracked DEF QueueMessages, AskPort
<1>5. CASE AskLeave(p)
  <2>1. PICK i : i = GetBattleGround(world, p) OBVIOUS
  <2>2. i \in 1..Len(world.bg) /\ world.player[p].bgId = i
    BY <1>2, <1>5, <2>1 DEF AskLeave, GetBattleGround
  <2>3. PICK v : v = RemovePlayerAtLeave(world, i, p) OBVIOUS
  <2>4. Abroad(queue, v, toWorld, toQueue) /\ Left(v, world, i, p)
    BY <1>1, <2>2, <2>3, LeavingAbroad
  <2>5. WorldBecomes(v) /\ Count("leave") /\ UNCHANGED <<queue, toWorld>>
    BY <1>5, <2>1, <2>3 DEF AskLeave
  <2>6. v \in WorldStates /\ v.sent \in Seq(QueueMessages)
    BY <2>4, AbroadFields, WorldFields
  <2>7. did'.left /\ (NobodyOut' => NobodyOut) BY <1>1, <2>5, Remembering
  <2>8. Chatter(v.sent) BY <1>1, <2>4 DEF Report, Left, Chatter
  <2>9. ASSUME NobodyOut
        PROVE  Protocol(queue, v, toWorld, toQueue \o v.sent)
    <3>1. Protocol(queue, world, toWorld, toQueue) BY <1>3, <2>9
    <3>2. \A j \in 1..Len(world.bg) : p \in world.bg[j].players => j = i
      BY <2>2, <3>1, OnlyThere
    <3>3. Protocol(queue, v, toWorld, toQueue)
      BY <1>2, <2>2, <2>4, <3>1, <3>2, LeftProtocol
    <3>4. PICK L : L = toQueue \o v.sent OBVIOUS
    <3>5. Follows(L, toQueue, v.sent) BY <3>4 DEF Follows
    <3> QED BY <1>1, <2>6, <2>8, <3>3, <3>4, <3>5, ProtocolSays
  <2>10. NobodyOut' => NobodyOut /\ Protocol(queue, v, toWorld', toQueue \o v.sent)
    BY <2>5, <2>7, <2>9
  <2> QED BY <2>5, <2>6, <2>7, <2>10, ComesHome
<1>6. CASE Travel(p)
  <2>1. PICK r : r = [world.player[p] EXCEPT !.moving = TRUE] OBVIOUS
  <2>2. /\ r \in Players /\ r.bgId = 0 /\ r.queued = world.player[p].queued
        /\ r.online = world.player[p].online /\ world.player[p].bgId = 0
    BY <1>2, <1>6, <2>1 DEF Players, Travel
  <2>3. PICK v : v = [world EXCEPT !.player[p] = r] OBVIOUS
  <2>4. PlayerSet(v, world, p, r) BY <1>2, <2>2, <2>3, SettingPlayer
  <2>5. v = [world EXCEPT !.player[p].moving = TRUE] BY <2>1, <2>3
  <2>6. WorldBecomes(v) /\ Count("trip") /\ UNCHANGED <<queue, toWorld>>
    BY <1>6, <2>5 DEF Travel
  <2>7. /\ v \in WorldStates /\ v.sent = <<>> /\ v.bg = world.bg
        /\ \A u \in Player : v.player[u].bgId = world.player[u].bgId
    BY <1>1, <2>2, <2>4 DEF PlayerSet
  <2>8. (NobodyOut' => NobodyOut) /\ (did.left => did'.left) BY <1>1, <2>6, Remembering
  <2>9. ASSUME NobodyOut
        PROVE  Protocol(queue, v, toWorld, toQueue \o v.sent)
    <3>1. Protocol(queue, world, toWorld, toQueue) BY <1>3, <2>9
    <3>2. Channel(queue.of[p], r, toWorld, toQueue, p)
      BY <2>2, <3>1, KeptChannel DEF Protocol
    <3>3. Placed(world, p) BY <3>1 DEF Protocol
    <3>4. r.online /\ \A i \in 1..Len(world.bg) : p \in world.bg[i].players =>
              r.bgId = i /\ r.map = i /\ ~r.moving
      BY <2>2, <3>3 DEF Placed
    <3>5. Protocol(queue, v, toWorld, toQueue) BY <2>4, <3>1, <3>2, <3>4, ProtocolPlayer
    <3> QED BY <1>1, <2>7, <3>5
  <2>10. Onward(v, world, toWorld, toWorld, v.sent) BY <1>2, <2>7, PlayerOnward
  <2>11. NobodyOut' => NobodyOut /\ Protocol(queue, v, toWorld', toQueue \o v.sent)
    BY <2>6, <2>8, <2>9
  <2>12. Onward(v, world, toWorld, toWorld', v.sent) BY <2>6, <2>10
  <2> QED BY <2>6, <2>7, <2>8, <2>11, <2>12, ComesHome
<1>7. CASE Logout(p) BY <1>1, <1>7, Remembering DEF Logout, PInv, SInv, NobodyOut
<1>8. CASE Login(p) BY <1>3, <1>8 DEF Login, Protocol, Placed, PInv, SInv, NobodyOut
<1> QED BY <1>4, <1>5, <1>6, <1>7, <1>8 DEF Client

LEMMA ArriveTracked ==
    ASSUME Tracked, IInv', NEW p \in Player, Arrive(p)
    PROVE  PInv' /\ SInv'
<1>1. /\ Abroad(queue, world, toWorld, toQueue) /\ did \in DidStates /\ world.sent = <<>>
      /\ toQueue \in Seq(QueueMessages)
  BY GoingAbroad DEF Tracked, IInv, Settled, Abroad
<1>2. /\ world \in WorldStates
      /\ \A u \in Player : world.player[u].bgId \in 0..Len(world.bg)
  BY <1>1, AbroadFields
<1>3. PICK v : v = Arrived(world, p) OBVIOUS
<1>4. WorldBecomes(v) /\ UNCHANGED <<queue, toWorld, did>> BY <1>3 DEF Arrive
<1>5. CASE ~NobodyOut BY <1>4, <1>5 DEF PInv, SInv, NobodyOut
<1>6. CASE NobodyOut
  <2>1. Protocol(queue, world, toWorld, toQueue) BY <1>6 DEF Tracked, PInv
  <2>2. /\ Protocol(queue, v, toWorld, toQueue) /\ v \in WorldStates /\ v.sent = world.sent
        /\ Len(v.bg) = Len(world.bg)
        /\ \A u \in Player : v.player[u].bgId = world.player[u].bgId
        /\ \A j \in 1..Len(world.bg) : v.bg[j].listed = world.bg[j].listed
                  /\ \A u \in v.bg[j].players : u \in world.bg[j].players \/ world.player[u].bgId = j
    BY <1>2, <1>3, <2>1, ArrivedProtocol
  <2>3. Onward(v, world, toWorld, toWorld, v.sent) BY <1>1, <1>2, <2>2, PlayerOnward
  <2>4. Protocol(queue, v, toWorld', toQueue \o v.sent) BY <1>1, <1>4, <2>2
  <2>5. Onward(v, world, toWorld, toWorld', v.sent) BY <1>4, <2>3
  <2>6. (NobodyOut' => NobodyOut) /\ (did.left => did'.left) BY <1>4, <1>6
  <2> QED BY <1>4, <2>2, <2>4, <2>5, <2>6, ComesHome
<1> QED BY <1>5, <1>6

LEMMA MapsTracked ==
    ASSUME Tracked, IInv', NEW i \in 1..Len(world.bg), UpdateMap(i)
    PROVE  PInv' /\ SInv'
<1>1. /\ Abroad(queue, world, toWorld, toQueue) /\ did \in DidStates /\ world.sent = <<>>
      /\ toQueue \in Seq(QueueMessages)
  BY GoingAbroad DEF Tracked, IInv, Settled, Abroad
<1>2. world \in WorldStates /\ world.bg[i] \in Battlegrounds
  BY <1>1, AbroadFields, WorldFields
<1>3. UNCHANGED <<queue, toWorld, did>>
  BY Zenon DEF UpdateMap, CloseMap, OpenGates, EndBattle, RemoveAll, RemoveOffline, MapStep
<1>4. CASE ~NobodyOut BY <1>3, <1>4 DEF PInv, SInv, NobodyOut
<1>5. CASE NobodyOut
  <2>1. Protocol(queue, world, toWorld, toQueue) BY <1>5 DEF Tracked, PInv
  <2>2. ASSUME NEW v \in WorldStates, MapStep(v), v.sent \in Seq(QueueMessages),
               Protocol(queue, v, toWorld, toQueue \o v.sent),
               Onward(v, world, toWorld, toWorld, v.sent)
        PROVE  PInv' /\ SInv'
    BY <2>2, <1>3, <1>5, ComesHome DEF MapStep
  <2>3. ASSUME NEW v, MapStep(v), Scenery(v, world)
        PROVE  PInv' /\ SInv'
    BY <2>3, WorldFields, <1>2, SceneryOnward, <2>1, ProtocolScenery, <1>1, ProtocolSays,
       <2>2 DEF Scenery, Ends, Chatter, Bulletin, Follows
  <2>4. Scenery(world, world) BY <1>1, <1>2, SceneryStill
  <2>5. CASE CloseMap(i)
    <3>1. PICK b : b = [world.bg[i] EXCEPT !.closed = TRUE] OBVIOUS
    <3>2. b \in Battlegrounds /\ b.players = world.bg[i].players
          /\ b.offline = world.bg[i].offline /\ b.listed = world.bg[i].listed
      BY <1>2, <3>1 DEF Battlegrounds
    <3>3. PICK x : x = [world EXCEPT !.bg[i] = b] OBVIOUS
    <3>4. GroundSet(x, world, i, b) BY <1>2, <3>2, <3>3, SettingGround
    <3>5. Scenery(x, world) BY <1>2, <2>4, <3>2, <3>4, SceneryGround
    <3>6. i \in 1..Len(x.bg) /\ x.sent = <<>> /\ Len(x.bg) = Len(world.bg)
      BY <1>1, <3>4 DEF GroundSet
    <3>7. PICK v : v = Ended(x, i) OBVIOUS
    <3>8. Scenery(v, world) BY <1>2, <3>5, <3>6, <3>7, EndedScenery
    <3>9. x = [world EXCEPT !.bg[i].closed = TRUE] BY <3>1, <3>3
    <3>10. MapStep(v) BY <2>5, <3>7, <3>9 DEF CloseMap
    <3> QED BY <2>3, <3>8, <3>10
  <2>6. CASE OpenGates(i) BY <1>2, <2>4, SceneryStatus, <2>6, <2>3 DEF Status, OpenGates
  <2>7. CASE EndBattle(i) BY <1>1, <1>2, <2>4, EndedScenery, <2>7, <2>3 DEF EndBattle
  <2>8. CASE RemoveAll(i)
    <3>1. PICK v : v = AllLeft(world, i) OBVIOUS
    <3>2. MapStep(v) /\ world.bg[i].status = "waitLeave" BY <2>8, <3>1 DEF RemoveAll
    <3>3. Protocol(queue, v, toWorld, toQueue) /\ Parted(v, world)
      BY <1>1, <2>1, <3>1, <3>2, AllParted
    <3>4. Abroad(queue, v, toWorld, toQueue) BY <1>1, <3>1, AllLeftAbroad
    <3>5. v \in WorldStates /\ v.sent = <<>>
      BY <1>1, <3>3, <3>4, AbroadFields DEF Parted
    <3>6. \A u \in Player : v.player[u].bgId \in {0, world.player[u].bgId}
      BY <3>3 DEF Parted, Rests
    <3>7. Onward(v, world, toWorld, toWorld, v.sent)
      BY <1>2, <3>3, <3>5, <3>6, PlayerOnward DEF Parted
    <3>8. Protocol(queue, v, toWorld, toQueue \o v.sent) BY <1>1, <3>3, <3>5
    <3>9. v.sent \in Seq(QueueMessages) BY <3>5, WorldFields
    <3> QED BY <2>2, <3>2, <3>5, <3>7, <3>8, <3>9
  <2>9. CASE RemoveOffline(i) BY <2>1, <2>9, Zenon DEF RemoveOffline, Protocol, NoneOffline
  <2> QED BY <2>5, <2>6, <2>7, <2>8, <2>9 DEF UpdateMap
<1> QED BY <1>4, <1>5

LEMMA TrackedStep ==
    ASSUME Tracked, [Next]_vars
    PROVE  Tracked'
<1>1. IInv' BY NextStep DEF Tracked
<1>2. CASE UNCHANGED vars
  BY <1>2 DEF vars, Tracked, IInv, Settled, PInv, SInv, NobodyOut
<1>3. CASE QueueThread BY <1>1, <1>3, QueueTracked DEF Tracked
<1>4. CASE RunWorldMessage BY <1>1, <1>4, MessageTracked DEF Tracked
<1>5. CASE \E x \in timers : FireTimer(x) BY <1>1, <1>5, TimerTracked DEF Tracked
<1>6. CASE \E S \in Party, d \in {0} \cup ToSet(queue.ids) : Join(S, d)
  BY <1>1, <1>6, JoinTracked DEF Tracked
<1>7. CASE \E p \in Player : Client(p) \/ Arrive(p)
  BY <1>1, <1>7, ClientTracked, ArriveTracked DEF Tracked
<1>8. CASE \E i \in 1..Len(world.bg) : UpdateMap(i)
  BY <1>1, <1>8, MapsTracked DEF Tracked
<1> QED BY <1>2, <1>3, <1>4, <1>5, <1>6, <1>7, <1>8 DEF Next

LEMMA TrackedBeginning ==
    ASSUME Init
    PROVE  Tracked
<1>1. IInv BY Beginning
<1>2. /\ world.bg = <<>> /\ toQueue = <<>> /\ toWorld = <<>> /\ Len(world.bg) = 0
      /\ world = [player |-> [p \in Player |-> Away], bg |-> <<>>, sent |-> <<>>]
  BY DEF Init
<1>3. PInv
  BY <1>2 DEF Away, Ordered, Vain, Answered, Bound, Placed, Channel, NoRemoval,
     NoneOffline, PInv, Protocol
<1>4. SInv
  <2>1. Agreed(queue, world, toWorld, toQueue) /\ world \in WorldStates
    BY <1>1 DEF IInv, Agreed, WorldSound
  <2>2. Lasting(world) = world
    BY <1>2, <2>1, LastingOnes, WorldFields, EmptySeq DEF Lasts, Lasting, WorldStates
  <2>3. NoneListed(world) /\ Mute(toQueue) BY <1>2 DEF NoneListed, Mute
  <2> QED BY <2>1, <2>2, <2>3 DEF SInv, Steady
<1> QED BY <1>1, <1>3, <1>4 DEF Tracked

LEMMA Tracking == Spec => []Tracked
<1>1. Init => Tracked BY TrackedBeginning
<1>2. Tracked /\ [Next]_vars => Tracked' BY TrackedStep
<1> QED BY <1>1, <1>2, PTL DEF Spec

-----------------------------------------------------------------------------
(* Who may be invited to an instance that nobody has left.                 *)

\* Until somebody leaves, what FreshBounded says is so of every instance.
LEMMA SteadyBounded ==
    ASSUME Tracked, ~did.left, NEW i \in 1..Len(queue.ids), NEW t \in Team
    PROVE  Cardinality(Claims(i, t)) <= MaxPerTeam
<1> DEFINE S == Places(queue, Present(world, toWorld), i, t)
<1>1. IInv /\ Steady(queue, world, toWorld, toQueue) /\ i \in Inst /\ world \in WorldStates
  BY DEF Tracked, SInv, IInv, Agreed, WorldSound, Inst
<1>2. PICK x : x = Lasting(world) OBVIOUS
<1>3. Agreed(queue, x, toWorld, toQueue) /\ NoneListed(world) BY <1>1, <1>2 DEF Steady
<1>4. Lasts(x, world) BY <1>1, <1>2, LastingOnes
<1>5. FreshOnes(x) = Inst /\ Present(x, toWorld) = Present(world, toWorld)
  BY <1>1, <1>3, <1>4, LastingFresh
<1>6. Balanced(queue, Inst, Present(world, toWorld)) /\ queue \in QueueStates
  BY <1>3, <1>5 DEF Agreed, Balanced, SoundQueue
<1>7. PICK k \in 1..Len(queue.slots) : queue.slots[k].inst = i
  BY <1>1, <1>6 DEF Balanced, Singles, Single
<1>8. /\ Cardinality(S) <= queue.slots[k].invited[t] /\ queue.slots[k].invited[t] <= MaxPerTeam
      /\ queue.slots[k].invited[t] \in Int
  BY <1>1, <1>6, <1>7, QueueFields DEF Balanced, Covered, Bounded
<1>9. Cardinality(Claims(i, t)) <= Cardinality(S) /\ Cardinality(S) \in Nat
      /\ Cardinality(Claims(i, t)) \in Nat
  BY <1>1, ClaimsPlaced
<1>10. MaxPerTeam \in Nat BY QueueAssumption
<1> HIDE DEF S
<1> QED BY <1>8, <1>9, <1>10

LEMMA NoneOver ==
    ASSUME Tracked
    PROVE  NoOverInvite
BY WorldFields, FreshBounded, SteadyBounded DEF Tracked, IInv, Agreed, WorldSound, Inst,
   FreshOnes, Untouched, Lists, Over, NoOverInvite, NobodyLeft

-----------------------------------------------------------------------------
(* What becomes of an invitation.                                          *)

\* A message, or a timer, that goes with the invitation of player p to group g.
Dated(m) == m.op \in {"invite", "expired", "expire"}
About(m, p, g) == m.who = p /\ m.stamp = g
Marked(M, p, g) == \E n \in 1..Len(M) : Dated(M[n]) /\ About(M[n], p, g)
Timed(T, p, g) == \E x \in T : About(x, p, g)

\* Each carries the instance its group is invited to, if the player still is in it.
Ticket(q, m) ==
    /\ m.who \in Player /\ m.stamp \in 1..Len(q.groups) /\ m.inst # 0
    /\ q.of[m.who] = m.stamp => q.groups[m.stamp].invited = m.inst
Tickets(q, M) == \A n \in 1..Len(M) : Dated(M[n]) => Ticket(q, M[n])
Ticketed(q, M, N, T) ==
    Tickets(q, M) /\ Tickets(q, N) /\ \A x \in T : Ticket(q, x)

\* Something ends the invitation of group g to player p.
Watch(M, N, T, p, g) == Timed(T, p, g) \/ Marked(M, p, g) \/ Marked(N, p, g)
\* A player in the queue holds its id, or is about to get it first of all.
Hears1st(M, T, p, g) ==
    /\ ~Timed(T, p, g)
    /\ \E k \in 1..Len(M) : IsJoined(M[k], p) /\
           \A n \in 1..Len(M) : Dated(M[n]) /\ About(M[n], p, g) => k < n
Watched(q, w, M, N, T) ==
    /\ Ticketed(q, M, N, T)
    /\ \A p \in Player :
           /\ q.of[p] # 0 =>
                  /\ q.groups[q.of[p]].invited # 0 => Watch(M, N, T, p, q.of[p])
                  /\ w.player[p].queued \/ Hears1st(M, T, p, q.of[p])
           /\ w.player[p].moving => w.player[p].bgId # 0

\* L is N and messages that go with no invitation.
Grows(L, N) ==
    /\ \A n \in 1..Len(N) : n \in 1..Len(L) /\ L[n] = N[n]
    /\ \A n \in 1..Len(L) : (n \in 1..Len(N) /\ L[n] = N[n]) \/ ~Dated(L[n])

\* The players stay in the queue, or lose nothing by it.
Stays(q, v, w) == \A p \in Player :
    /\ q.of[p] # 0 /\ w.player[p].queued => v.player[p].queued
    /\ v.player[p].moving => v.player[p].bgId # 0

LEMMA StayWatched ==
    ASSUME NEW q, NEW w, NEW M, NEW N, NEW T, Watched(q, w, M, N, T), NEW v, Stays(q, v, w),
           NEW L, Grows(L, N)
    PROVE  Watched(q, v, M, L, T)
BY DEF Watched, Ticketed, Tickets, Grows, Marked, Watch, Stays

\* The queue goes on: who stays in a group stays invited there, and is invited
\* only with an invitation; who gets into one hears so first.
Enlists(r, q, s, u) ==
    /\ r.of[u] = Len(q.groups) + 1 /\ r.groups[r.of[u]].invited = 0
    /\ \E k \in 1..Len(s) : IsJoined(s[k], u)
    /\ \A k \in 1..Len(s) : ~Dated(s[k])
Persists(r, q, s, u) ==
    /\ r.of[u] = q.of[u]
    /\ \/ r.groups[r.of[u]].invited = q.groups[q.of[u]].invited
       \/ q.groups[q.of[u]].invited = 0 /\ Called(s, u, q.of[u])
GoesOn(r, q, s) ==
    /\ Len(q.groups) \in Nat /\ Len(r.groups) \in Nat /\ Len(q.groups) <= Len(r.groups)
    /\ \A u \in Player : r.of[u] = 0 \/ Enlists(r, q, s, u) \/ Persists(r, q, s, u)
    /\ Tickets(r, s)
\* The queue has taken what is not in L, and has answered it.
Answering(r, q, L, N) ==
    /\ \A n \in 1..Len(L) : \E k \in 1..Len(N) : L[n] = N[k]
    /\ \A p \in Player : r.of[p] # 0 /\ r.of[p] = q.of[p] /\ Marked(N, p, r.of[p])
                         => Marked(L, p, r.of[p])

LEMMA GoesOnWatched ==
    ASSUME NEW q, NEW w, NEW M \in Seq(WorldMessages), NEW N, NEW T, Watched(q, w, M, N, T),
           NEW r, NEW s \in Seq(WorldMessages), GoesOn(r, q, s), NEW L, Answering(r, q, L, N),
           NEW K, Follows(K, M, s)
    PROVE  Watched(r, w, K, L, T)
<1>1. /\ \A n \in 1..Len(M) : n \in 1..Len(K) /\ K[n] = M[n]
      /\ \A n \in 1..Len(s) : \E k \in 1..Len(K) : k = Len(M) + n /\ K[k] = s[n]
      /\ \A n \in 1..Len(K) : \/ n \in 1..Len(M) /\ K[n] = M[n]
                              \/ \E k \in 1..Len(s) : n = Len(M) + k /\ K[n] = s[k]
      /\ Len(M) \in Nat
  <2>1. Composed(K, M, s) BY FollowsAt
  <2>2. Len(M) \in Nat OBVIOUS
  <2> QED BY <2>1, <2>2, Zenon DEF Composed
<1>2. ASSUME NEW m, Ticket(q, m)
      PROVE  Ticket(r, m)
  <2>1. m.who \in Player /\ m.stamp \in 1..Len(q.groups) /\ m.inst # 0
    BY <1>2 DEF Ticket
  <2>2. m.stamp \in 1..Len(r.groups) /\ m.stamp # 0 /\ m.stamp # Len(q.groups) + 1
    BY <2>1 DEF GoesOn
  <2>3. ASSUME r.of[m.who] = m.stamp
        PROVE  r.groups[m.stamp].invited = m.inst
    BY <2>1, <2>2, <2>3, <1>2 DEF GoesOn, Enlists, Persists, Ticket
  <2> QED BY <2>1, <2>2, <2>3 DEF Ticket
<1>3. Ticketed(r, K, L, T)
  BY <1>1, <1>2 DEF Tickets, Watched, Ticketed, GoesOn, Answering
<1>4. ASSUME NEW p \in Player, r.of[p] # 0
      PROVE  /\ r.groups[r.of[p]].invited # 0 => Watch(K, L, T, p, r.of[p])
             /\ w.player[p].queued \/ Hears1st(K, T, p, r.of[p])
  <2>1. CASE Enlists(r, q, s, p)
    <3>1. r.groups[r.of[p]].invited = 0 BY <2>1 DEF Enlists
    <3>2. r.of[p] = Len(q.groups) + 1 /\ r.of[p] \notin 1..Len(q.groups)
      BY <2>1 DEF Enlists, GoesOn
    <3>3. ~Timed(T, p, r.of[p]) /\ ~Marked(M, p, r.of[p])
      BY <3>2 DEF Timed, Marked, About, Watched, Ticketed, Tickets, Ticket
    <3>4. ~Marked(K, p, r.of[p]) BY <1>1, <2>1, <3>3 DEF Marked, Enlists
    <3>5. \E k \in 1..Len(K) : IsJoined(K[k], p) BY <1>1, <2>1 DEF Enlists
    <3> QED BY <3>1, <3>3, <3>4, <3>5 DEF Hears1st, Marked
  <2>2. CASE Persists(r, q, s, p)
    <3>1. r.of[p] = q.of[p] BY <2>2 DEF Persists
    <3>2. ASSUME r.groups[r.of[p]].invited # 0
          PROVE  Watch(K, L, T, p, r.of[p])
      <4>1. CASE q.groups[q.of[p]].invited # 0
        BY <1>4, <3>1, <4>1, <1>1 DEF Watched, Marked, Answering, Watch
      <4>2. CASE q.groups[q.of[p]].invited = 0
        <5>1. Called(s, p, r.of[p]) BY <2>2, <3>1, <3>2, <4>2 DEF Persists
        <5>2. Marked(K, p, r.of[p]) BY <1>1, <5>1 DEF Marked, Called, Dated, About
        <5> QED BY <5>2 DEF Watch
      <4> QED BY <4>1, <4>2
    <3>3. ASSUME ~w.player[p].queued
          PROVE  Hears1st(K, T, p, r.of[p])
      <4>1. Hears1st(M, T, p, r.of[p]) BY <1>4, <3>1, <3>3 DEF Watched
      <4>2. PICK k \in 1..Len(M) : IsJoined(M[k], p) /\
              \A n \in 1..Len(M) : Dated(M[n]) /\ About(M[n], p, r.of[p]) => k < n
        BY <4>1 DEF Hears1st
      <4>3. k \in 1..Len(K) /\ IsJoined(K[k], p) BY <1>1, <4>2
      <4>4. ASSUME NEW n \in 1..Len(K), Dated(K[n]) /\ About(K[n], p, r.of[p])
            PROVE  k < n
        BY <1>1, <4>2, <4>4
      <4> QED BY <4>1, <4>3, <4>4 DEF Hears1st
    <3> QED BY <3>2, <3>3
  <2> QED BY <1>4, <2>1, <2>2 DEF GoesOn
<1> QED BY <1>3, <1>4 DEF Watched

\* The event of an invitation that stands is not in vain.
LEMMA ExpireLeaves ==
    ASSUME NEW q, SoundQueue(q), q.sent = <<>>, NEW m \in QueueMessages, m.op = "expire",
           q.of[m.who] = m.stamp, q.groups[m.stamp].invited = m.inst
    PROVE  Leaves(Handled(q, m), q, m.who)
BY QueueSays, LeavesOutcome DEF Handled, Expire, IsPlayerInvited, Gid

LEMMA TakesWatched ==
    ASSUME NEW q, NEW w, NEW M, NEW N, Agreed(q, w, M, N), N # <<>>, q.sent = <<>>, NEW T,
           Watched(q, w, M, N, T), NEW r, r = Handled(q, Head(N))
    PROVE  Watched(r, w, M \o r.sent, Tail(N), T)
<1> DEFINE m == Head(N)
           L == Tail(N)
<1>1. /\ SoundQueue(q) /\ q \in QueueStates /\ M \in Seq(WorldMessages)
      /\ N \in Seq(QueueMessages) /\ m \in QueueMessages /\ m = N[1] /\ 1 \in 1..Len(N)
      /\ \A n \in 1..Len(L) : L[n] = N[n + 1] /\ n + 1 \in 1..Len(N)
      /\ \A n \in 1..Len(N) : n = 1 \/ n - 1 \in 1..Len(L)
  BY QueueKnows, Taken
<1>2. Outcome(r, q, m) BY <1>1, Handling
<1>3. /\ r.sent \in Seq(WorldMessages) /\ q.of \in [Player -> Gid \cup {0}]
      /\ Len(q.groups) \in Nat
  BY <1>1, <1>2, OutcomeEntries, QueueFields
<1>4. SoundQueue(r) /\ r \in QueueStates /\ Len(r.groups) \in Nat
  BY QueueTakes, QueueKnows, QueueFields
<1>5. ASSUME NEW p \in Player, Marked(N, p, q.of[p]), r.of[p] = q.of[p], q.of[p] # 0
      PROVE  Marked(L, p, q.of[p])
  <2>1. PICK n \in 1..Len(N) : Dated(N[n]) /\ About(N[n], p, q.of[p]) BY <1>5 DEF Marked
  <2>2. CASE n = 1
    <3>1. m.op = "expire" /\ m.who = p /\ m.stamp = q.of[p]
      BY <1>1, <2>1, <2>2, QueueSays DEF Dated, About
    <3>2. Ticket(q, m) BY <1>1, <2>1, <2>2 DEF Watched, Ticketed, Tickets
    <3>3. Leaves(r, q, p) BY <1>1, <3>1, <3>2, ExpireLeaves DEF Ticket
    <3>4. Freed(r, q, p) BY <1>1, <3>3, Freeing
    <3> QED BY <1>3, <1>5, <3>4 DEF Freed
  <2>3. CASE n # 1
    <3>1. n - 1 \in 1..Len(L) /\ L[n - 1] = N[n] BY <1>1, <2>3
    <3> QED BY <2>1, <3>1 DEF Marked
  <2> QED BY <2>2, <2>3
<1> HIDE DEF m, L
<1>6. Answering(r, q, L, N) BY <1>1, <1>5 DEF Answering
<1>7. ASSUME NEW s \in Seq(Counts)
      PROVE  \A n \in 1..Len(s) : ~Dated(s[n])
  BY DEF Counts, Dated
<1>8. ASSUME r.groups = q.groups, r.of = q.of, \A n \in 1..Len(r.sent) : ~Dated(r.sent[n])
      PROVE  GoesOn(r, q, r.sent)
  BY <1>3, <1>8 DEF GoesOn, Persists, Tickets
<1>9. ASSUME NEW p \in Player, Leaves(r, q, p) \/ \E i : Enters(r, q, p, i),
             \A n \in 1..Len(r.sent) : ~Dated(r.sent[n])
      PROVE  GoesOn(r, q, r.sent)
  <2>1. Freed(r, q, p) /\ Without(r, q, p, q.of[p]) BY <1>1, <1>9, Freeing
  <2>2. Len(r.groups) = Len(q.groups) BY <2>1 DEF Without
  <2>3. ASSUME NEW u \in Player, r.of[u] # 0
        PROVE  Persists(r, q, r.sent, u)
    <3>1. r.of[u] = q.of[u] /\ q.of[u] # 0 /\ q.of[u] \in 1..Len(q.groups)
      BY <1>1, <1>3, <2>1, <2>3 DEF Freed, SoundQueue, Grouped
    <3>2. u \in r.groups[r.of[u]].players BY <1>4, <2>3 DEF SoundQueue, Grouped
    <3>3. r.groups[r.of[u]].invited = q.groups[q.of[u]].invited
      BY <2>1, <3>1, <3>2 DEF Without
    <3> QED BY <3>1, <3>3 DEF Persists
  <2> QED BY <1>3, <1>9, <2>2, <2>3 DEF GoesOn, Tickets
<1>10. GoesOn(r, q, r.sent)
  <2>1. CASE Alike(r, q) /\ r.sent = <<>> BY <1>8, <2>1 DEF Alike
  <2>2. CASE Entries(r, q, m) /\ r.sent \in Seq(Counts) BY <1>7, <1>8, <2>2 DEF Entries
  <2>3. CASE m.op = "join" /\ r.sent = <<[op |-> "joined", members |-> m.members]>>
             /\ \E t \in Team : Grown(r, q, m.members, t)
    <3>1. PICK x : x = [op |-> "joined", members |-> m.members] OBVIOUS
    <3>2. /\ r.sent = <<x>> /\ x.op = "joined" /\ x.members = m.members
          /\ 1 \in 1..Len(r.sent) /\ r.sent[1] = x
      BY <2>3, <3>1
    <3>3. /\ Len(r.groups) = Len(q.groups) + 1 /\ r.groups[Len(q.groups) + 1].invited = 0
          /\ \A h \in 1..Len(q.groups) : r.groups[h] = q.groups[h]
          /\ r.of = [p \in Player |-> IF p \in m.members THEN Len(q.groups) + 1 ELSE q.of[p]]
      BY <2>3 DEF Grown
    <3>4. \A n \in 1..Len(r.sent) : ~Dated(r.sent[n]) BY <3>2 DEF Dated
    <3>5. ASSUME NEW u \in Player, r.of[u] # 0
          PROVE  Enlists(r, q, r.sent, u) \/ Persists(r, q, r.sent, u)
      <4>1. CASE u \in m.members BY <3>2, <4>1, <3>3, <3>4 DEF IsJoined, Enlists
      <4>2. CASE u \notin m.members
        BY <3>3, <4>2, <1>1, <3>5 DEF SoundQueue, Grouped, Persists
      <4> QED BY <4>1, <4>2
    <3> QED BY <1>3, <1>4, <3>3, <3>4, <3>5 DEF GoesOn, Tickets
  <2>4. CASE m.op = "remove" /\ Leaves(r, q, m.who) /\ r.sent \in Seq(Counts)
    BY <1>1, <2>4, QueueSays, <1>7, <1>9
  <2>5. CASE /\ m.op \in {"port", "expire"} /\ Leaves(r, q, m.who)
             /\ \E s \in Seq(Counts) : r.sent = Append(s, [op |-> "unqueue", who |-> m.who])
    <3>1. m.who \in Player BY <1>1, <2>5, QueueSays
    <3>2. PICK x : x = [op |-> "unqueue", who |-> m.who] OBVIOUS
    <3>3. PICK s \in Seq(Counts) : r.sent = Append(s, x) BY <2>5, <3>2
    <3>4. \A n \in 1..Len(r.sent) : r.sent[n] = x \/ (n \in 1..Len(s) /\ r.sent[n] = s[n])
      BY <3>3
    <3>5. ~Dated(x) BY <3>2 DEF Dated
    <3>6. \A n \in 1..Len(r.sent) : ~Dated(r.sent[n]) BY <1>7, <3>4, <3>5
    <3> QED BY <1>9, <2>5, <3>1, <3>6
  <2>6. CASE m.op = "port" /\ \E i \in Inst :
                 /\ Enters(r, q, m.who, i)
                 /\ r.sent = <<[op |-> "enter", who |-> m.who, inst |-> i]>>
    <3>1. m.who \in Player BY <1>1, <2>6, QueueSays
    <3>2. PICK i \in Inst : /\ Enters(r, q, m.who, i)
                            /\ r.sent = <<[op |-> "enter", who |-> m.who, inst |-> i]>>
      BY <2>6
    <3>3. \A n \in 1..Len(r.sent) : ~Dated(r.sent[n]) BY <3>2 DEF Dated
    <3> QED BY <1>9, <3>1, <3>2, <3>3
  <2> QED BY <1>2, <2>1, <2>2, <2>3, <2>4, <2>5, <2>6 DEF Outcome
<1>11. PICK K : K = M \o r.sent OBVIOUS
<1>12. Follows(K, M, r.sent) BY <1>11 DEF Follows
<1>13. Watched(r, w, K, L, T) BY <1>1, <1>3, <1>6, <1>10, <1>12, GoesOnWatched
<1> QED BY <1>11, <1>13 DEF L

LEMMA UpdatesWatched ==
    ASSUME NEW q, NEW w, NEW M \in Seq(WorldMessages), NEW N, SoundQueue(q), NEW T,
           Watched(q, w, M, N, T), NEW r, Progress(r, q), r.sent \in Seq(WorldMessages)
    PROVE  Watched(r, w, M \o r.sent, N, T)
<1>1. /\ r.of = q.of /\ Len(r.groups) = Len(q.groups) /\ Len(q.groups) \in Nat
      /\ q \in QueueStates
  BY DEF Progress, SoundQueue
<1>2. ASSUME NEW u \in Player, r.of[u] # 0
      PROVE  Persists(r, q, r.sent, u)
  BY <1>1, <1>2 DEF SoundQueue, Grouped, Persists, Progress
<1>3. Tickets(r, r.sent)
  BY WorldSays, <1>1 DEF Progress, Calling, Dated, Inst, Ticket, Tickets
<1>4. GoesOn(r, q, r.sent) BY <1>1, <1>2, <1>3 DEF GoesOn
<1>5. Answering(r, q, N, N) BY <1>1 DEF Answering
<1>6. PICK K : K = M \o r.sent OBVIOUS
<1>7. Follows(K, M, r.sent) BY <1>6 DEF Follows
<1>8. Watched(r, w, K, N, T) BY <1>4, <1>5, <1>7, GoesOnWatched
<1> QED BY <1>6, <1>8

\* Who holds the id, and who moves, after a message.
LEMMA EffectPlayers ==
    ASSUME NEW w \in WorldStates, NEW m \in WorldMessages, NEW v, Effect(v, w, m),
           NEW p \in Player
    PROVE  /\ v.player[p].moving => (w.player[p].moving /\ v.player[p].bgId = w.player[p].bgId)
                                    \/ v.player[p].bgId # 0
           /\ w.player[p].queued => v.player[p].queued \/ IsReply(m, p)
           /\ IsJoined(m, p) /\ InWorld(w, p) => v.player[p].queued
<1>1. w.player[p] \in Players /\ 1 \in Inst BY WorldFields DEF Inst
<1>2. CASE v.player[p] = w.player[p]
  BY <1>1, RecordsChanged, <1>2 DEF AllAsked, IsJoined, Effect
<1>3. CASE m.op \in {"count", "create"} /\ Scenery(v, w) BY <1>2, <1>3 DEF Scenery
<1>4. CASE m.op = "joined" /\ AllAsked(v, w, m.members)
  <2>1. CASE Asking(v.player[p], w.player[p])
    <3>1. /\ v.player[p].queued /\ v.player[p].bgId = w.player[p].bgId
          /\ v.player[p].moving = w.player[p].moving
      BY <1>1, <2>1, RecordsChanged
    <3> QED BY <3>1
  <2> QED BY <1>2, <1>4, <2>1 DEF AllAsked
<1>5. CASE v = w BY <1>2, <1>5
<1>6. ASSUME NEW x, PlayerSet(v, w, m.who, x), m.op # "joined",
             w.player[m.who] \in Players =>
                 /\ x.moving => (w.player[m.who].moving /\ x.bgId = w.player[m.who].bgId)
                                \/ x.bgId # 0
                 /\ w.player[m.who].queued => x.queued \/ IsReply(m, m.who)
      PROVE  /\ v.player[p].moving => (w.player[p].moving /\ v.player[p].bgId = w.player[p].bgId)
                                      \/ v.player[p].bgId # 0
             /\ w.player[p].queued => v.player[p].queued \/ IsReply(m, p)
             /\ IsJoined(m, p) /\ InWorld(w, p) => v.player[p].queued
  BY <1>6, <1>1, <1>2 DEF PlayerSet, IsJoined
<1>7. CASE m.op = "invite" /\ \E x : PlayerSet(v, w, m.who, x) /\ Hears(x, w.player[m.who], m.inst)
  BY <1>7, WorldSays, RecordsChanged, <1>6
<1>8. CASE m.op = "enter" /\ \E x : PlayerSet(v, w, m.who, x) /\ Bids(x, w.player[m.who], m.inst)
  BY <1>8, WorldSays, RecordsChanged, <1>6 DEF Inst
<1>9. CASE m.op = "unqueue" /\ \E x : PlayerSet(v, w, m.who, x) /\ Frees(x, w.player[m.who])
  BY <1>9, <1>1, RecordsChanged, <1>6 DEF IsReply
<1>10. CASE m.op = "expired" /\ \E x \in QueueMessages : Says(v, w, x) /\ Forwards(x, m)
  BY <1>2, <1>10 DEF Says
<1> QED BY <1>3, <1>4, <1>5, <1>7, <1>8, <1>9, <1>10 DEF Effect

\* Who is in the queue can be found, as long as nobody travels or logs out.
LEMMA Findable ==
    ASSUME NEW q, NEW w, NEW M, NEW N, NEW T, Watched(q, w, M, N, T), Protocol(q, w, M, N),
           NEW p \in Player, q.of[p] # 0
    PROVE  InWorld(w, p)
BY DEF Protocol, Placed, Channel, Bound, Out, Watched, InWorld

\* The world takes a message; with an invitation a player who is found gets a timer.
LEMMA HeardWatched ==
    ASSUME NEW q, NEW w, NEW M \in Seq(WorldMessages), M # <<>>, NEW N \in Seq(QueueMessages),
           NEW T, Watched(q, w, M, N, T), Protocol(q, w, M, N), w \in WorldStates,
           w.sent = <<>>, NEW m, m = Head(M), NEW v, Effect(v, w, m),
           v.sent \in Seq(QueueMessages), NEW S, T \subseteq S,
           m.op = "invite" /\ InWorld(w, m.who) =>
               \E x \in S : x.who = m.who /\ x.inst = m.inst /\ x.stamp = m.stamp,
           \A x \in S : \/ x \in T
                        \/ /\ m.op = "invite" /\ x.who = m.who /\ x.inst = m.inst
                           /\ x.stamp = m.stamp
    PROVE  Watched(q, v, Tail(M), N \o v.sent, S)
<1> DEFINE L == Tail(M)
           K == N \o v.sent
<1>1. /\ Len(L) \in Nat /\ \A n \in 1..Len(L) : L[n] = M[n + 1] /\ n + 1 \in 1..Len(M)
      /\ \A n \in 1..Len(M) : n = 1 \/ n - 1 \in 1..Len(L)
      /\ 1 \in 1..Len(M) /\ M[1] = m /\ m \in WorldMessages
  BY Taken
<1>2. /\ \A n \in 1..Len(N) : n \in 1..Len(K) /\ K[n] = N[n]
      /\ \A n \in 1..Len(v.sent) : \E k \in 1..Len(K) : k = Len(N) + n /\ K[k] = v.sent[n]
      /\ \A n \in 1..Len(K) : \/ n \in 1..Len(N) /\ K[n] = N[n]
                              \/ \E k \in 1..Len(v.sent) : n = Len(N) + k /\ K[n] = v.sent[k]
  <2>1. Follows(K, N, v.sent) BY DEF Follows
  <2> HIDE DEF K
  <2>2. Composed(K, N, v.sent) BY <2>1, FollowsAt
  <2> QED BY <2>2 DEF Composed
<1> HIDE DEF L, K
<1>3. ASSUME NEW n \in 1..Len(v.sent), Dated(v.sent[n])
      PROVE  Forwards(v.sent[n], m) /\ m.op = "expired"
  <2>1. CASE v.sent = <<>> BY <1>3, <2>1
  <2>2. CASE m.op \in {"count", "create"} /\ Scenery(v, w)
    BY <1>3, <2>2 DEF Scenery, Ends, Dated
  <2>3. CASE m.op = "expired" /\ \E x \in QueueMessages : Says(v, w, x) /\ Forwards(x, m)
    BY <2>3, <1>3 DEF Says
  <2> QED BY <2>1, <2>2, <2>3 DEF Effect, AllAsked, PlayerSet
<1>4. Tickets(q, M) /\ Tickets(q, N) /\ \A x \in T : Ticket(q, x)
  BY DEF Watched, Ticketed
<1>5. Ticketed(q, L, K, S)
  <2>1. Dated(m) => Ticket(q, m) BY <1>1, <1>4 DEF Tickets
  <2>2. Tickets(q, L) BY <1>1, <1>4 DEF Tickets
  <2>3. ASSUME NEW n \in 1..Len(v.sent), Dated(v.sent[n])
        PROVE  Ticket(q, v.sent[n])
    BY <1>3, <2>3, <2>1 DEF Dated, Forwards, Ticket
  <2>4. Tickets(q, K) BY <1>2, <1>4, <2>3 DEF Tickets
  <2>5. ASSUME NEW x \in S
        PROVE  Ticket(q, x)
    BY <1>4, <2>1, <2>5 DEF Ticket, Dated
  <2> QED BY <2>2, <2>4, <2>5 DEF Ticketed
<1>6. ASSUME NEW p \in Player, q.of[p] # 0
      PROVE  /\ q.groups[q.of[p]].invited # 0 => Watch(L, K, S, p, q.of[p])
             /\ v.player[p].queued \/ Hears1st(L, S, p, q.of[p])
  <2>1. InWorld(w, p) BY <1>6, Findable
  <2>2. ~IsReply(m, p) BY <1>6, Replied DEF Protocol
  <2>3. /\ w.player[p].queued => v.player[p].queued
        /\ IsJoined(m, p) => v.player[p].queued
    BY <1>1, <2>1, <2>2, EffectPlayers
  <2>4. ASSUME Dated(m), About(m, p, q.of[p])
        PROVE  w.player[p].queued
    <3>1. ~Hears1st(M, T, p, q.of[p]) BY <1>1, <2>4 DEF Hears1st
    <3> QED BY <1>6, <3>1 DEF Watched
  <2>5. ASSUME Dated(m), About(m, p, q.of[p])
        PROVE  Watch(L, K, S, p, q.of[p])
    <3>1. m.op \in {"invite", "expired"} /\ m.who = p /\ m.stamp = q.of[p]
      BY <1>1, <2>5, WorldSays DEF Dated, About
    <3>2. CASE m.op = "invite" BY <2>1, <3>1, <3>2 DEF Watch, Timed, About
    <3>3. CASE m.op = "expired"
      <4>1. \E x \in QueueMessages : Says(v, w, x) /\ Forwards(x, m)
        BY <2>1, <2>4, <2>5, <3>1, <3>3 DEF Effect
      <4>2. PICK x \in QueueMessages : Says(v, w, x) /\ Forwards(x, m) BY <4>1
      <4>3. 1 \in 1..Len(v.sent) /\ v.sent[1] = x BY <4>2 DEF Says
      <4>4. Dated(x) /\ About(x, p, q.of[p]) BY <3>1, <4>2 DEF Forwards, Dated, About
      <4>5. Marked(K, p, q.of[p]) BY <1>2, <4>3, <4>4 DEF Marked
      <4> QED BY <4>5 DEF Watch
    <3> QED BY <3>1, <3>2, <3>3
  <2>6. ASSUME Watch(M, N, T, p, q.of[p])
        PROVE  Watch(L, K, S, p, q.of[p])
    <3>1. CASE Timed(T, p, q.of[p]) BY <3>1 DEF Watch, Timed
    <3>2. CASE Marked(N, p, q.of[p]) BY <1>2, <3>2 DEF Marked, Watch
    <3>3. CASE Marked(M, p, q.of[p])
      <4>1. PICK n \in 1..Len(M) : Dated(M[n]) /\ About(M[n], p, q.of[p])
        BY <3>3 DEF Marked
      <4>2. CASE n = 1 BY <1>1, <2>5, <4>1, <4>2
      <4>3. CASE n # 1
        <5>1. n - 1 \in 1..Len(L) /\ L[n - 1] = M[n] BY <1>1, <4>3
        <5>2. Marked(L, p, q.of[p]) BY <4>1, <5>1 DEF Marked
        <5> QED BY <5>2 DEF Watch
      <4> QED BY <4>2, <4>3
    <3> QED BY <2>6, <3>1, <3>2, <3>3 DEF Watch
  <2>7. ASSUME Hears1st(M, T, p, q.of[p])
        PROVE  v.player[p].queued \/ Hears1st(L, S, p, q.of[p])
    <3>1. PICK k \in 1..Len(M) : IsJoined(M[k], p) /\
              \A n \in 1..Len(M) : Dated(M[n]) /\ About(M[n], p, q.of[p]) => k < n
      BY <2>7 DEF Hears1st
    <3>2. CASE k = 1 BY <1>1, <2>3, <3>1, <3>2
    <3>3. CASE k # 1
      <4>1. k - 1 \in 1..Len(L) /\ L[k - 1] = M[k] BY <1>1, <3>3
      <4>2. ASSUME NEW n \in 1..Len(L), Dated(L[n]) /\ About(L[n], p, q.of[p])
            PROVE  k - 1 < n
        BY <1>1, <3>1, <4>2
      <4>3. ~(Dated(m) /\ About(m, p, q.of[p])) BY <1>1, <3>1
      <4>4. ~Timed(S, p, q.of[p]) BY <2>7, <4>3 DEF Timed, About, Hears1st, Dated
      <4> QED BY <3>1, <4>1, <4>2, <4>4 DEF Hears1st
    <3> QED BY <3>2, <3>3
  <2> QED BY <1>6, <2>3, <2>6, <2>7 DEF Watched
<1>7. ASSUME NEW p \in Player, v.player[p].moving
      PROVE  v.player[p].bgId # 0
  BY <1>1, <1>7, EffectPlayers DEF Watched
<1> QED BY <1>5, <1>6, <1>7 DEF Watched, L, K

LEMMA FireWatched ==
    ASSUME NEW q, NEW w, NEW M \in Seq(WorldMessages), NEW N, NEW T, Watched(q, w, M, N, T),
           NEW x \in T, NEW m \in WorldMessages, m.op = "expired", m.who = x.who,
           m.inst = x.inst, m.stamp = x.stamp
    PROVE  Watched(q, w, Append(M, m), N, T \ {x})
<1> DEFINE K == Append(M, m)
           S == T \ {x}
<1>1. /\ \A n \in 1..Len(M) : n \in 1..Len(K) /\ K[n] = M[n]
      /\ \A n \in 1..Len(K) : (n \in 1..Len(M) /\ K[n] = M[n]) \/ K[n] = m
      /\ \E n \in 1..Len(K) : K[n] = m
  BY Appended
<1> HIDE DEF K, S
<1>2. Ticket(q, m) /\ Ticketed(q, K, N, S)
  <2>1. Ticket(q, m) BY DEF Watched, Ticketed, Ticket
  <2>2. Tickets(q, K) BY <1>1, <2>1 DEF Watched, Ticketed, Tickets
  <2> QED BY <2>1, <2>2 DEF Watched, Ticketed, S
<1>3. ASSUME NEW p, NEW g, Watch(M, N, T, p, g)
      PROVE  Watch(K, N, S, p, g)
  BY <1>1, <1>3 DEF Timed, Dated, About, Watch, Marked, S
<1>4. ASSUME NEW p, NEW g, Hears1st(M, T, p, g)
      PROVE  Hears1st(K, S, p, g)
  BY <1>4, <1>1 DEF Hears1st, Timed, About, S
<1> QED BY <1>2, <1>3, <1>4 DEF Watched, K, S

\* What the world says about battlegrounds, or a player asks for.
LEMMA GrowsMore ==
    ASSUME NEW N \in Seq(QueueMessages), NEW s \in Seq(QueueMessages),
           \A n \in 1..Len(s) : ~Dated(s[n]), NEW L, Follows(L, N, s)
    PROVE  Grows(L, N)
<1>1. Composed(L, N, s) BY FollowsAt
<1> QED BY <1>1 DEF Composed, Grows

LEMMA ChatterGrows ==
    ASSUME NEW N \in Seq(QueueMessages), NEW s \in Seq(QueueMessages), Chatter(s)
    PROVE  Grows(N \o s, N)
BY GrowsMore DEF Chatter, Bulletin, Dated, Follows

LEMMA AppendGrows ==
    ASSUME NEW N \in Seq(QueueMessages), NEW m \in QueueMessages, ~Dated(m)
    PROVE  Grows(Append(N, m), N)
BY Appended DEF Grows

\* Who rests stays in the queue.
LEMMA RestsStays ==
    ASSUME NEW q, NEW w, NEW M, NEW N, NEW T, Watched(q, w, M, N, T), Protocol(q, w, M, N),
           NEW v, \A u \in Player : Rests(v.player[u], w.player[u])
    PROVE  Stays(q, v, w)
BY DEF Protocol, Channel, Bound, Out, Watched, Rests, Stays

-----------------------------------------------------------------------------
(* Every invitation is watched while no player travels or logs out.        *)

WInv == ~did.lost => Watched(queue, world, toWorld, toQueue, timers)
Attended == Tracked /\ WInv

\* A step of the world is a step of Watched.
LEMMA HomeWatched ==
    ASSUME NEW v \in WorldStates, WorldBecomes(v), queue' = queue, NEW M, toWorld' = M,
           NEW T, timers' = T, Watched(queue, v, M, toQueue \o v.sent, T)
    PROVE  Watched(queue, world, toWorld, toQueue, timers)'
BY DEF WorldBecomes, WorldStates, Watched

LEMMA AttendedFacts ==
    ASSUME Attended, ~did.lost
    PROVE  /\ Agreed(queue, world, toWorld, toQueue) /\ SoundQueue(queue)
           /\ queue \in QueueStates /\ world \in WorldStates
           /\ toWorld \in Seq(WorldMessages) /\ toQueue \in Seq(QueueMessages)
           /\ queue.sent = <<>> /\ world.sent = <<>> /\ timers \in SUBSET Timers
           /\ Protocol(queue, world, toWorld, toQueue)
           /\ Watched(queue, world, toWorld, toQueue, timers) /\ NobodyOut
BY DEF Attended, Tracked, IInv, PInv, WInv, NobodyOut, Settled, Agreed, Balanced, SoundQueue,
       WorldSound, Announced

LEMMA QueueAttended ==
    ASSUME Attended, QueueThread
    PROVE  WInv'
<1> SUFFICES ASSUME ~did'.lost
             PROVE  Watched(queue, world, toWorld, toQueue, timers)'
  BY DEF WInv
<1>1. UNCHANGED <<world, timers, did>> BY DEF QueueThread, RunQueueMessage, UpdateQueue
<1>2. /\ Agreed(queue, world, toWorld, toQueue) /\ SoundQueue(queue)
      /\ toWorld \in Seq(WorldMessages) /\ queue.sent = <<>>
      /\ Watched(queue, world, toWorld, toQueue, timers)
  BY <1>1, AttendedFacts
<1>3. ASSUME NEW r, NEW N, Watched(r, world, toWorld \o r.sent, N, timers),
             r \in QueueStates, QueueBecomes(r), toQueue' = N
      PROVE  Watched(queue, world, toWorld, toQueue, timers)'
  BY <1>3, <1>1 DEF QueueBecomes, QueueStates, Watched, Ticketed, Tickets, Ticket
<1>4. CASE RunQueueMessage
  BY <1>4, <1>2, TakesWatched, QueueTakes, QueueKnows, <1>3 DEF RunQueueMessage
<1>5. CASE UpdateQueue
  BY <1>5, <1>2, QueueUpdates, UpdatesWatched, QueueKnows, <1>3 DEF UpdateQueue
<1> QED BY <1>4, <1>5 DEF QueueThread

LEMMA MessageAttended ==
    ASSUME Attended, RunWorldMessage
    PROVE  WInv'
<1> SUFFICES ASSUME ~did'.lost
             PROVE  Watched(queue, world, toWorld, toQueue, timers)'
  BY DEF WInv
<1>1. PICK m : m = Head(toWorld) OBVIOUS
<1>2. PICK v : v = Done(world, m) OBVIOUS
<1>3. PICK x : x = [who |-> m.who, inst |-> m.inst, stamp |-> m.stamp] OBVIOUS
<1>4. /\ toWorld # <<>> /\ WorldBecomes(v) /\ toWorld' = Tail(toWorld)
      /\ timers' = IF m.op = "invite" /\ InWorld(world, m.who) THEN timers \cup {x} ELSE timers
      /\ queue' = queue /\ did' = did
  BY <1>1, <1>2, <1>3 DEF RunWorldMessage
<1>5. /\ toWorld \in Seq(WorldMessages) /\ toQueue \in Seq(QueueMessages)
      /\ world \in WorldStates /\ world.sent = <<>> /\ Tracked /\ NobodyOut
      /\ Protocol(queue, world, toWorld, toQueue)
      /\ Watched(queue, world, toWorld, toQueue, timers)
  BY <1>4, AttendedFacts DEF Attended
<1>6. Effect(v, world, m) /\ v \in WorldStates /\ v.sent \in Seq(QueueMessages)
  BY <1>1, <1>2, <1>5, TakesEffect
<1>7. PICK S : S = timers' OBVIOUS
<1>8. x.who = m.who /\ x.inst = m.inst /\ x.stamp = m.stamp BY <1>3
<1>9. /\ timers \subseteq S
      /\ m.op = "invite" /\ InWorld(world, m.who) =>
             \E y \in S : y.who = m.who /\ y.inst = m.inst /\ y.stamp = m.stamp
      /\ \A y \in S : \/ y \in timers
                      \/ /\ m.op = "invite" /\ y.who = m.who /\ y.inst = m.inst
                         /\ y.stamp = m.stamp
  BY <1>4, <1>7, <1>8
<1>10. Watched(queue, v, Tail(toWorld), toQueue \o v.sent, S)
  BY <1>1, <1>4, <1>5, <1>6, <1>9, HeardWatched
<1> QED BY <1>4, <1>6, <1>7, <1>10, HomeWatched

LEMMA TimerAttended ==
    ASSUME Attended, NEW x \in timers, FireTimer(x)
    PROVE  WInv'
BY Remembering, AttendedFacts, FireWatched DEF FireTimer, Attended, Tracked, IInv, Settled,
   WorldMessages, Timers, WInv

LEMMA RequestAttended ==
    ASSUME Attended, NEW m \in QueueMessages, ~Dated(m), toQueue' = Append(toQueue, m),
           UNCHANGED <<queue, world, toWorld, timers>>, NEW request, Count(request)
    PROVE  WInv'
<1>1. did \in DidStates BY DEF Attended, Tracked, IInv, Settled
<1>2. did.lost => did'.lost BY <1>1, Remembering
<1>3. ASSUME ~did.lost
      PROVE  Watched(queue, world, toWorld, toQueue, timers)'
  <2>1. /\ toQueue \in Seq(QueueMessages)
        /\ Watched(queue, world, toWorld, toQueue, timers)
    BY <1>3, AttendedFacts
  <2>2. PICK L : L = Append(toQueue, m) OBVIOUS
  <2>3. Grows(L, toQueue) BY <2>1, <2>2, AppendGrows
  <2>4. Stays(queue, world, world) BY <2>1 DEF Stays, Watched
  <2>5. Watched(queue, world, toWorld, L, timers) BY <2>1, <2>3, <2>4, StayWatched
  <2> QED BY <2>2, <2>5
<1> QED BY <1>2, <1>3 DEF WInv

\* A step of the world that sends no event of an invitation.
LEMMA HomeAttended ==
    ASSUME Attended, ~did.lost, NEW v \in WorldStates, WorldBecomes(v), Stays(queue, v, world),
           UNCHANGED <<queue, toWorld, timers>>, v.sent \in Seq(QueueMessages), Chatter(v.sent)
    PROVE  WInv'
BY AttendedFacts, ChatterGrows, StayWatched, HomeWatched DEF WInv

LEMMA JoinAttended ==
    ASSUME Attended, NEW S \in Party, NEW d \in {0} \cup ToSet(queue.ids), Join(S, d)
    PROVE  WInv'
<1>1. queue.ids \in Seq(Nat)
  BY QueueFields DEF Attended, Tracked, IInv, Agreed, Balanced, SoundQueue
<1>2. d \in Nat BY <1>1 DEF ToSet
<1>3. PICK request : Count(request) BY DEF Join
<1>4. PICK b \in BOOLEAN : b = (Cardinality(S) > 1 /\ Cardinality(S) >= MinPerTeam)
  OBVIOUS
<1>5. PICK m : m = [op |-> "join", members |-> S, desired |-> d, premade |-> b] OBVIOUS
<1>6. m \in QueueMessages /\ ~Dated(m) BY <1>2, <1>5 DEF QueueMessages, Dated
<1>7. toQueue' = Append(toQueue, m) /\ UNCHANGED <<queue, world, toWorld, timers>>
  BY <1>4, <1>5 DEF Join
<1> QED BY <1>3, <1>6, <1>7, RequestAttended

LEMMA ClientAttended ==
    ASSUME Attended, NEW p \in Player, Client(p)
    PROVE  WInv'
<1>1. did \in DidStates BY DEF Attended, Tracked, IInv, Settled
<1>2. ASSUME NEW enter \in BOOLEAN, AskPort(p, enter)
      PROVE  WInv'
  BY <1>2, RequestAttended DEF QueueMessages, Dated, AskPort
<1>3. CASE AskLeave(p)
  <2>1. PICK i : i = GetBattleGround(world, p) OBVIOUS
  <2>2. PICK v : v = RemovePlayerAtLeave(world, i, p) OBVIOUS
  <2>3. /\ WorldBecomes(v) /\ Count("leave") /\ UNCHANGED <<queue, toWorld, timers>>
        /\ i # 0
    BY <1>3, <2>1, <2>2 DEF AskLeave
  <2>4. did.lost => did'.lost BY <1>1, <2>3, Remembering
  <2>5. ASSUME ~did.lost
        PROVE  WInv'
    <3>1. /\ Agreed(queue, world, toWorld, toQueue) /\ world.sent = <<>>
          /\ world \in WorldStates /\ toQueue \in Seq(QueueMessages)
          /\ Protocol(queue, world, toWorld, toQueue)
          /\ Watched(queue, world, toWorld, toQueue, timers)
      BY <2>5, AttendedFacts
    <3>2. Abroad(queue, world, toWorld, toQueue) BY GoingAbroad DEF Attended, Tracked
    <3>3. i \in 1..Len(world.bg)
      BY <3>1, <3>2, AbroadFields, WorldFields, <2>1, <2>3 DEF GetBattleGround
    <3>4. Abroad(queue, v, toWorld, toQueue) /\ Left(v, world, i, p)
      BY <2>2, <3>2, <3>3, LeavingAbroad
    <3>5. v \in WorldStates /\ v.sent \in Seq(QueueMessages)
      BY <3>4, AbroadFields, WorldFields
    <3>6. Chatter(v.sent) BY <3>1, <3>4 DEF Report, Left, Chatter
    <3>7. \A u \in Player : Rests(v.player[u], world.player[u])
      BY <3>1, <3>3, <3>4, LeftRests
    <3>8. Stays(queue, v, world) BY <3>1, <3>7, RestsStays
    <3> QED BY <2>3, <2>5, <3>5, <3>6, <3>8, HomeAttended
  <2> QED BY <2>4, <2>5 DEF WInv
<1>4. CASE Travel(p) \/ Logout(p) BY <1>4, <1>1, Remembering DEF Travel, Logout, WInv
<1>5. CASE Login(p) BY AttendedFacts, <1>5 DEF Protocol, Login, Placed, WInv
<1> QED BY <1>2, <1>3, <1>4, <1>5 DEF Client

LEMMA ArriveAttended ==
    ASSUME Attended, NEW p \in Player, Arrive(p)
    PROVE  WInv'
<1>1. PICK v : v = Arrived(world, p) OBVIOUS
<1>2. WorldBecomes(v) /\ UNCHANGED <<queue, toWorld, timers, did>> BY <1>1 DEF Arrive
<1>3. ASSUME ~did.lost
      PROVE  WInv'
  <2>1. /\ Agreed(queue, world, toWorld, toQueue) /\ world.sent = <<>>
        /\ world \in WorldStates /\ Protocol(queue, world, toWorld, toQueue)
        /\ Watched(queue, world, toWorld, toQueue, timers)
    BY <1>3, AttendedFacts
  <2>2. Abroad(queue, world, toWorld, toQueue) BY GoingAbroad DEF Attended, Tracked
  <2>3. \A u \in Player : world.player[u].bgId \in 0..Len(world.bg)
    BY <2>2, AbroadFields
  <2>4. /\ v \in WorldStates /\ v.sent = world.sent
        /\ \A u \in Player : v.player[u].bgId = world.player[u].bgId
        /\ \A u \in Player : v.player[u].queued = world.player[u].queued
        /\ \A u \in Player : v.player[u].moving => world.player[u].moving
    BY <1>1, <2>1, <2>3, ArrivedProtocol
  <2>5. Stays(queue, v, world) BY <2>1, <2>4 DEF Stays, Watched
  <2>6. v.sent \in Seq(QueueMessages) /\ Chatter(v.sent)
    BY <2>1, <2>4, WorldFields DEF Chatter
  <2> QED BY <1>2, <1>3, <2>4, <2>5, <2>6, HomeAttended
<1> QED BY <1>2, <1>3 DEF WInv

LEMMA MapsAttended ==
    ASSUME Attended, NEW i \in 1..Len(world.bg), UpdateMap(i)
    PROVE  WInv'
<1>1. UNCHANGED <<queue, toWorld, timers, did>>
  BY DEF UpdateMap, CloseMap, OpenGates, EndBattle, RemoveAll, RemoveOffline, MapStep
<1>2. CASE did.lost BY <1>1, <1>2 DEF WInv
<1>3. CASE ~did.lost
  <2>1. /\ Agreed(queue, world, toWorld, toQueue) /\ world.sent = <<>>
        /\ world \in WorldStates /\ Protocol(queue, world, toWorld, toQueue)
        /\ Watched(queue, world, toWorld, toQueue, timers)
    BY <1>3, AttendedFacts
  <2>2. Abroad(queue, world, toWorld, toQueue) /\ world.bg[i] \in Battlegrounds
    BY <2>1, GoingAbroad, WorldFields DEF Attended, Tracked
  <2>3. ASSUME NEW v, MapStep(v), Scenery(v, world)
        PROVE  WInv'
    BY <2>3, WorldFields, <2>1, <1>1, <1>3, HomeAttended DEF Scenery, Stays, Watched, Ends,
       Chatter, Bulletin, MapStep
  <2>4. Scenery(world, world) BY <2>1, SceneryStill
  <2>5. CASE CloseMap(i)
    <3>1. PICK b : b = [world.bg[i] EXCEPT !.closed = TRUE] OBVIOUS
    <3>2. b \in Battlegrounds /\ b.players = world.bg[i].players
          /\ b.offline = world.bg[i].offline /\ b.listed = world.bg[i].listed
      BY <2>2, <3>1 DEF Battlegrounds
    <3>3. PICK x : x = [world EXCEPT !.bg[i] = b] OBVIOUS
    <3>4. GroundSet(x, world, i, b) BY <2>1, <3>2, <3>3, SettingGround
    <3>5. Scenery(x, world) BY <2>1, <2>4, <3>2, <3>4, SceneryGround
    <3>6. i \in 1..Len(x.bg) /\ x.sent = <<>> /\ Len(x.bg) = Len(world.bg)
      BY <2>1, <3>4 DEF GroundSet
    <3>7. PICK v : v = Ended(x, i) OBVIOUS
    <3>8. Scenery(v, world) BY <2>1, <3>5, <3>6, <3>7, EndedScenery
    <3>9. x = [world EXCEPT !.bg[i].closed = TRUE] BY <3>1, <3>3
    <3>10. MapStep(v) BY <2>5, <3>7, <3>9 DEF CloseMap
    <3> QED BY <2>3, <3>8, <3>10
  <2>6. CASE OpenGates(i) BY <2>1, <2>4, SceneryStatus, <2>6, <2>3 DEF Status, OpenGates
  <2>7. CASE EndBattle(i) BY <2>1, <2>4, EndedScenery, <2>7, <2>3 DEF EndBattle
  <2>8. CASE RemoveAll(i)
    <3>1. PICK v : v = AllLeft(world, i) OBVIOUS
    <3>2. MapStep(v) /\ world.bg[i].status = "waitLeave" BY <2>8, <3>1 DEF RemoveAll
    <3>3. Parted(v, world) BY <2>1, <2>2, <3>1, <3>2, AllParted
    <3>4. Abroad(queue, v, toWorld, toQueue) BY <2>2, <3>1, AllLeftAbroad
    <3>5. v \in WorldStates /\ v.sent = <<>> /\ WorldBecomes(v)
      BY <2>1, <3>2, <3>3, <3>4, AbroadFields DEF Parted, MapStep
    <3>6. Stays(queue, v, world) BY <2>1, <3>3, RestsStays DEF Parted
    <3>7. v.sent \in Seq(QueueMessages) /\ Chatter(v.sent)
      BY <3>5, WorldFields DEF Chatter
    <3> QED BY <1>1, <1>3, <3>5, <3>6, <3>7, HomeAttended
  <2>9. CASE RemoveOffline(i) BY <2>1, <2>9 DEF RemoveOffline, Protocol, NoneOffline
  <2> QED BY <2>5, <2>6, <2>7, <2>8, <2>9 DEF UpdateMap
<1> QED BY <1>2, <1>3

LEMMA AttendedStep ==
    ASSUME Attended, [Next]_vars
    PROVE  Attended'
BY TrackedStep, QueueAttended, MessageAttended, TimerAttended, JoinAttended,
   ClientAttended, ArriveAttended, MapsAttended DEF Attended, vars, WInv, Next

LEMMA AttendedBeginning ==
    ASSUME Init
    PROVE  Attended
BY TrackedBeginning DEF Init, Ticketed, Tickets, Away, Watched, Attended, WInv

LEMMA Attending == Spec => []Attended
<1>1. Init => Attended BY AttendedBeginning
<1>2. Attended /\ [Next]_vars => Attended' BY AttendedStep
<1> QED BY <1>1, <1>2, PTL DEF Spec

LEMMA WatchesAll ==
    ASSUME Attended
    PROVE  InvitationWatched
<1> SUFFICES ASSUME ~did.lost, NEW p \in Player, NEW g, g = queue.of[p], g # 0,
                    queue.groups[g].invited # 0
             PROVE  \/ \E m \in timers : m.who = p /\ m.stamp = g
                    \/ \E m \in InFlight(toWorld, "invite")
                           \cup InFlight(toWorld, "expired")
                           \cup InFlight(toQueue, "expire") : m.who = p /\ m.stamp = g
  BY DEF InvitationWatched, InvitationEnds, NobodyLost
<1>1. /\ toWorld \in Seq(WorldMessages) /\ toQueue \in Seq(QueueMessages)
      /\ Watched(queue, world, toWorld, toQueue, timers)
  BY AttendedFacts
<1>2. Watch(toWorld, toQueue, timers, p, g) BY <1>1 DEF Watched
<1>3. CASE Timed(timers, p, g) BY <1>3 DEF Timed, About
<1>4. CASE Marked(toWorld, p, g)
  BY <1>4, <1>1, WorldSays DEF Marked, ToSet, Dated, InFlight, About
<1>5. CASE Marked(toQueue, p, g)
  BY <1>5, <1>1, QueueSays DEF Marked, ToSet, Dated, InFlight, About
<1> QED BY <1>2, <1>3, <1>4, <1>5 DEF Watch

-----------------------------------------------------------------------------
(* The theorems.                                                           *)

\* Every variable keeps its type: what the queue thread has in its groups, lists
\* and entries, what the world has of players and battlegrounds, and what either
\* tells the other.
THEOREM TypesAlwaysOK == Spec => []TypeOK
BY Invariance, TypesHold, PTL

\* The group of a player that is invited finds the entry of its battleground, so
\* that the assertion of HandleBattlefieldPortOpcode holds: an instance gets
\* a second entry before one of its entries is ever dropped.
THEOREM InvitedHaveSlots == Spec => []InvitedHasSlot
BY Invariance, SlotsHold, PTL

\* A team is never invited beyond its size: m_invitedAlliance and m_invitedHorde
\* of an entry count everybody who has a place or is on his way to one, whatever
\* departures, ends and answers cross on their way between the threads.
THEOREM NeverOverInvited == Spec => []NoOverInvite
BY Tracking, NoneOver, PTL

\* As long as nobody travels or logs out no invitation is forgotten: a timer for
\* it runs, or a message that starts the timer or ends the invitation is under
\* way.
THEOREM InvitationsWatched == Spec => []InvitationWatched
BY Attending, WatchesAll, PTL

=============================================================================
