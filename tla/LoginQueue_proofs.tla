--------------------------- MODULE LoginQueue_proofs --------------------------
(***************************************************************************)
(* Proofs about LoginQueue, for any number of accounts, any levels and     *)
(* any limits.                                                             *)
(***************************************************************************)
EXTENDS LoginQueue, FiniteSetTheorems, SequenceTheorems, TLAPS

-----------------------------------------------------------------------------
(* Queues in which nobody waits twice.                                     *)

LEMMA CountedOnce ==
    ASSUME NEW S, IsFiniteSet(S), NEW q \in Seq(S), IsInjective(q)
    PROVE  /\ ToSet(q) \subseteq S
           /\ IsFiniteSet(ToSet(q)) /\ Cardinality(ToSet(q)) = Len(q)
           /\ Len(q) \in Nat /\ Len(q) <= Cardinality(S)
           /\ Len(q) = 0 <=> q = <<>>
<1>1. Len(q) \in Nat /\ DOMAIN q = 1..Len(q) /\ \A i \in 1..Len(q) : q[i] \in S
  OBVIOUS
<1>2. ToSet(q) \subseteq S
  BY <1>1 DEF ToSet
<1>3. IsFiniteSet(ToSet(q)) /\ Cardinality(ToSet(q)) <= Cardinality(S)
  BY <1>2, FS_Subset
<1>4. q \in [1..Len(q) -> ToSet(q)]
  BY <1>1 DEF ToSet
<1>5. q \in Bijection(1..Len(q), ToSet(q))
  BY <1>1, <1>4 DEF Bijection, Injection, Surjection, IsInjective, ToSet
<1>6. IsFiniteSet(1..Len(q)) /\ Cardinality(1..Len(q)) = Len(q)
  <2>1. \A n \in Nat : IsFiniteSet(1..n) /\ Cardinality(1..n) = IF 1 > n THEN 0 ELSE n - 1 + 1
    BY FS_Interval
  <2> QED
    BY <1>1, <2>1
<1>7. Cardinality(ToSet(q)) = Len(q)
  BY <1>5, <1>6, FS_Bijection DEF ExistsBijection
<1> QED
  BY <1>1, <1>2, <1>3, <1>7

LEMMA Appended ==
    ASSUME NEW S, NEW q \in Seq(S), NEW a \in S
    PROVE  /\ Append(q, a) \in Seq(S) /\ Len(Append(q, a)) = Len(q) + 1
           /\ \A i \in 1..Len(q) : Append(q, a)[i] = q[i]
           /\ Append(q, a)[Len(q) + 1] = a
           /\ ToSet(Append(q, a)) = ToSet(q) \cup {a}
           /\ IsInjective(q) /\ a \notin ToSet(q) => IsInjective(Append(q, a))
<1>1. /\ Len(q) \in Nat /\ DOMAIN q = 1..Len(q)
      /\ Append(q, a) \in Seq(S)
      /\ DOMAIN Append(q, a) = 1..Len(q) + 1 /\ Len(Append(q, a)) = Len(q) + 1
      /\ \A i \in 1..Len(q) : Append(q, a)[i] = q[i]
      /\ Append(q, a)[Len(q) + 1] = a
  OBVIOUS
<1>2. ToSet(Append(q, a)) = ToSet(q) \cup {a}
  BY <1>1 DEF ToSet
<1>3. ASSUME IsInjective(q), a \notin ToSet(q),
             NEW i \in 1..Len(q) + 1, NEW j \in 1..Len(q) + 1,
             Append(q, a)[i] = Append(q, a)[j]
      PROVE  i = j
  <2>1. \A k \in 1..Len(q) : q[k] # a
    BY <1>1, <1>3 DEF ToSet
  <2>2. CASE i \in 1..Len(q) /\ j \in 1..Len(q)
    BY <1>1, <1>3, <2>2 DEF IsInjective
  <2>3. CASE i = Len(q) + 1 \/ j = Len(q) + 1
    BY <1>1, <1>3, <2>1, <2>3
  <2> QED
    BY <1>1, <2>2, <2>3
<1> QED
  BY <1>1, <1>2, <1>3 DEF IsInjective

LEMMA Entered ==
    ASSUME NEW S, NEW q \in Seq(S), q # <<>>
    PROVE  /\ Head(q) = q[1] /\ Head(q) \in ToSet(q) /\ Head(q) \in S
           /\ Tail(q) \in Seq(S) /\ Len(Tail(q)) = Len(q) - 1
           /\ \A i \in 1..Len(q) - 1 : Tail(q)[i] = q[i + 1]
           /\ ToSet(q) = ToSet(Tail(q)) \cup {Head(q)}
           /\ IsInjective(q) => IsInjective(Tail(q)) /\ Head(q) \notin ToSet(Tail(q))
<1>1. /\ Len(q) \in Nat /\ Len(q) > 0 /\ DOMAIN q = 1..Len(q)
      /\ Head(q) = q[1] /\ Head(q) \in S
      /\ Tail(q) \in Seq(S) /\ Len(Tail(q)) = Len(q) - 1
      /\ DOMAIN Tail(q) = 1..Len(q) - 1
      /\ \A i \in 1..Len(q) - 1 : Tail(q)[i] = q[i + 1]
  OBVIOUS
<1>2. Head(q) \in ToSet(q)
  BY <1>1 DEF ToSet
<1>3. ToSet(q) = ToSet(Tail(q)) \cup {Head(q)}
  <2>1. \A i \in 1..Len(q) : i = 1 \/ (i - 1 \in 1..Len(q) - 1 /\ q[i] = Tail(q)[i - 1])
    BY <1>1
  <2>2. ASSUME NEW i \in 1..Len(q)
        PROVE  q[i] \in ToSet(Tail(q)) \cup {Head(q)}
    <3>1. CASE i = 1
      BY <1>1, <3>1
    <3>2. CASE i # 1
      BY <1>1, <2>1, <3>2 DEF ToSet
    <3> QED
      BY <3>1, <3>2
  <2>3. ToSet(q) \subseteq ToSet(Tail(q)) \cup {Head(q)}
    BY <1>1, <2>2 DEF ToSet
  <2>4. ToSet(Tail(q)) \subseteq ToSet(q)
    BY <1>1 DEF ToSet
  <2> QED
    BY <1>2, <2>3, <2>4
<1>4. ASSUME IsInjective(q)
      PROVE  IsInjective(Tail(q)) /\ Head(q) \notin ToSet(Tail(q))
  <2>1. \A i, j \in 1..Len(q) : q[i] = q[j] => i = j
    BY <1>1, <1>4 DEF IsInjective
  <2>2. \A i, j \in 1..Len(q) - 1 : Tail(q)[i] = Tail(q)[j] => i + 1 = j + 1
    BY <1>1, <2>1
  <2>3. IsInjective(Tail(q))
    BY <1>1, <2>2 DEF IsInjective
  <2>4. \A i \in 1..Len(q) - 1 : Tail(q)[i] # Head(q)
    BY <1>1, <2>1
  <2> QED
    BY <1>1, <2>3, <2>4 DEF ToSet
<1> QED
  BY <1>1, <1>2, <1>3, <1>4

LEMMA Removed ==
    ASSUME NEW S, NEW q \in Seq(S), NEW k \in 1..Len(q), IsInjective(q)
    PROVE  /\ RemoveAt(q, k) \in Seq(S) /\ Len(RemoveAt(q, k)) = Len(q) - 1
           /\ \A i \in 1..Len(q) - 1 :
                 RemoveAt(q, k)[i] = IF i < k THEN q[i] ELSE q[i + 1]
           /\ ToSet(RemoveAt(q, k)) = ToSet(q) \ {q[k]}
           /\ IsInjective(RemoveAt(q, k))
<1> DEFINE r == RemoveAt(q, k)
<1>1. Len(q) \in Nat /\ DOMAIN q = 1..Len(q) /\ k \in Nat
      /\ \A i, j \in 1..Len(q) : q[i] = q[j] => i = j
  BY DEF IsInjective
<1> DEFINE s == SubSeq(q, 1, k - 1)
           t == SubSeq(q, k + 1, Len(q))
<1>2. s \in Seq(S) /\ Len(s) = k - 1 /\ \A i \in 1..k - 1 : s[i] = q[i]
  OBVIOUS
<1>3. t \in Seq(S) /\ Len(t) = Len(q) - k /\ \A i \in 1..Len(q) - k : t[i] = q[k + i]
  OBVIOUS
<1>4. r = s \o t
  BY DEF RemoveAt
<1> HIDE DEF s, t, r
<1>5. /\ r \in Seq(S) /\ Len(r) = Len(q) - 1 /\ DOMAIN r = 1..Len(q) - 1
      /\ \A i \in 1..Len(q) - 1 : r[i] = IF i < k THEN q[i] ELSE q[i + 1]
  <2>1. r \in Seq(S) /\ Len(r) = Len(s) + Len(t)
    BY <1>2, <1>3, <1>4, ConcatProperties
  <2>2. \A i \in 1..Len(s) + Len(t) : r[i] = IF i <= Len(s) THEN s[i] ELSE t[i - Len(s)]
    BY <1>2, <1>3, <1>4, ConcatProperties
  <2>3. Len(r) = Len(q) - 1 /\ DOMAIN r = 1..Len(r)
    BY <1>1, <1>2, <1>3, <2>1
  <2>4. ASSUME NEW i \in 1..Len(q) - 1
        PROVE  r[i] = IF i < k THEN q[i] ELSE q[i + 1]
    <3>1. CASE i < k
      <4>1. i \in 1..Len(s) + Len(t) /\ i <= Len(s) /\ i \in 1..k - 1
        BY <1>1, <1>2, <1>3, <3>1
      <4>2. r[i] = s[i] /\ s[i] = q[i]
        BY <1>2, <2>2, <4>1
      <4> QED
        BY <3>1, <4>2
    <3>2. CASE ~(i < k)
      <4>1. r[i] = t[i - (k - 1)] /\ i - (k - 1) \in 1..Len(q) - k
        BY <1>1, <1>2, <1>3, <2>2, <3>2
      <4>2. k + (i - (k - 1)) = i + 1
        BY <1>1
      <4> QED
        BY <1>3, <3>2, <4>1, <4>2
    <3> QED
      BY <3>1, <3>2
  <2> QED
    BY <2>1, <2>3, <2>4
<1>6. ToSet(r) = ToSet(q) \ {q[k]}
  <2>1. ASSUME NEW i \in 1..Len(q) - 1
        PROVE  r[i] \in ToSet(q) \ {q[k]}
    <3>1. PICK j \in 1..Len(q) : j # k /\ r[i] = q[j]
      <4>1. CASE i < k
        BY <1>1, <1>5, <4>1
      <4>2. CASE ~(i < k)
        <5>1. i + 1 \in 1..Len(q) /\ i + 1 # k /\ r[i] = q[i + 1]
          BY <1>1, <1>5, <4>2
        <5> QED
          BY <5>1
      <4> QED
        BY <4>1, <4>2
    <3>2. q[j] # q[k]
      BY <1>1, <3>1 DEF IsInjective
    <3>3. q[j] \in ToSet(q)
      BY <1>1 DEF ToSet
    <3> QED
      BY <3>1, <3>2, <3>3
  <2>2. ASSUME NEW j \in 1..Len(q), j # k
        PROVE  \E i \in 1..Len(q) - 1 : r[i] = q[j]
    <3>1. CASE j < k
      BY <1>1, <1>5, <3>1
    <3>2. CASE j > k
      <4>1. j - 1 \in 1..Len(q) - 1 /\ r[j - 1] = q[j]
        BY <1>1, <1>5, <3>2
      <4> QED
        BY <4>1
    <3> QED
      BY <1>1, <2>2, <3>1, <3>2
  <2>3. ToSet(r) \subseteq ToSet(q) \ {q[k]}
    BY <1>5, <2>1 DEF ToSet
  <2>4. ToSet(q) \ {q[k]} \subseteq ToSet(r)
    <3>1. ASSUME NEW x \in ToSet(q) \ {q[k]}
          PROVE  x \in ToSet(r)
      <4>1. PICK j \in 1..Len(q) : x = q[j]
        BY <1>1 DEF ToSet
      <4>2. PICK i \in 1..Len(q) - 1 : r[i] = x
        BY <2>2, <4>1
      <4> QED
        BY <1>5, <4>2 DEF ToSet
    <3> QED
      BY <3>1
  <2> QED
    BY <2>3, <2>4
<1>7. IsInjective(r)
  BY <1>1, <1>5 DEF IsInjective
<1> QED
  BY <1>5, <1>6, <1>7 DEF r

-----------------------------------------------------------------------------
(* What QueueSound says of the counts, and of who leaves.                   *)

LEMMA Counts ==
    ASSUME QueueSound
    PROVE  /\ IsFiniteSet(Account) /\ Cardinality(Account) \in Nat
           /\ IsFiniteSet(sessions) /\ Cardinality(sessions) \in Nat
           /\ Len(queue) \in Nat /\ Len(queue) <= Cardinality(sessions)
           /\ Cardinality(sessions) <= Cardinality(Account)
           /\ Len(queue) = 0 <=> queue = <<>>
           /\ \A i \in 1..Len(queue) : queue[i] \in Queued /\ queue[i] \in sessions
           /\ \A b \in Queued : \E i \in 1..Len(queue) : queue[i] = b
<1>1. queue \in Seq(Account) /\ IsInjective(queue) /\ sessions \subseteq Account
      /\ Queued \subseteq sessions
  BY DEF QueueSound, TypeOK
<1>2. IsFiniteSet(Account) /\ Cardinality(Account) \in Nat
  BY QueueAssumption, FS_CardinalityType
<1>3. IsFiniteSet(sessions) /\ Cardinality(sessions) \in Nat
      /\ Cardinality(sessions) <= Cardinality(Account)
  BY <1>1, <1>2, FS_Subset, FS_CardinalityType
<1>4. /\ Len(queue) = Cardinality(Queued) /\ Len(queue) \in Nat
      /\ Len(queue) = 0 <=> queue = <<>>
  BY <1>1, <1>2, CountedOnce DEF Queued
<1>5. Cardinality(Queued) <= Cardinality(sessions)
  BY <1>1, <1>3, FS_Subset
<1>6. DOMAIN queue = 1..Len(queue)
  BY <1>1
<1>7. \A i \in 1..Len(queue) : queue[i] \in Queued /\ queue[i] \in sessions
  BY <1>1, <1>6 DEF Queued, ToSet
<1>8. \A b \in Queued : \E i \in 1..Len(queue) : queue[i] = b
  BY <1>6 DEF Queued, ToSet
<1> QED
  BY <1>2, <1>3, <1>4, <1>5, <1>7, <1>8

LEMMA Position ==
    ASSUME QueueSound, NEW a
    PROVE  LET pos == GetQueuedSessionPos(queue, a)
           IN  IF a \in Queued THEN pos \in 1..Len(queue) /\ queue[pos] = a ELSE pos = 0
<1>1. a \in Queued <=> \E i \in 1..Len(queue) : queue[i] = a
  BY Counts
<1> QED
  BY <1>1 DEF GetQueuedSessionPos

\* What is left of a session when its place in the queue is not looked at.
Life(r) == <<r.state, r.player, r.recent, r.up, r.asks, r.kick>>

\* Session a leaves, and those of e enter, out of the queue.
Parts(a, e) ==
    /\ sessions' = sessions \ {a}
    /\ queue' \in Seq(Account) /\ IsInjective(queue')
    /\ Queued' = Queued \ ({a} \cup e)
    /\ Len(queue') = Len(queue) - (IF a \in Queued THEN 1 ELSE 0) - (IF e = {} THEN 0 ELSE 1)
    /\ info' \in [Account -> Sessions]
    /\ \A b \in sessions \ {a} :
          Life(info'[b]) = Life(info[b]) /\ (info'[b].inQueue <=> info[b].inQueue /\ b \notin e)
    /\ loading' \in [Account -> [Askers -> Nat]] /\ loading'[a]["own"] = 0
    /\ \A b \in Account \ {a} : loading'[b] = loading[b]
    /\ PositionTold => PositionTold'

\* With room the first of the others enters, and without nobody does.
LEMMA LeaveParts ==
    ASSUME QueueSound, NEW a \in sessions, Leave(a)
    PROVE  \/ /\ Parts(a, {})
              /\ ~HasRoom(a \in Queued) \/ queue' = <<>>
           \/ \E f \in Queued \ {a} :
                 /\ Parts(a, {f})
                 /\ HasRoom(a \in Queued)
                 /\ f = queue[1] \/ queue[1] = a
<1> DEFINE pos == GetQueuedSessionPos(queue, a)
           found == pos # 0
           rest == IF found THEN RemoveAt(queue, pos) ELSE queue
           pop == HasRoom(found) /\ rest # <<>>
           left == IF pop THEN Tail(rest) ELSE rest
           first == FirstTold(pop, found, pos, left)
           Sent(b) == {i \in first..Len(left) : left[i] = b}
<1>1. /\ sessions' = sessions \ {a}
      /\ queue' = left
      /\ info' = [b \in Account |->
                     IF b = a THEN NewSession
                     ELSE IF pop /\ b = Head(rest)
                          THEN [info[b] EXCEPT !.inQueue = FALSE, !.told = 0]
                          ELSE IF Sent(b) # {}
                               THEN [info[b] EXCEPT !.told = CHOOSE i \in Sent(b) : TRUE]
                               ELSE info[b]]
  BY DEF Leave
<1>2. /\ queue \in Seq(Account) /\ IsInjective(queue) /\ Queued = ToSet(queue)
      /\ sessions \subseteq Account /\ Queued \subseteq sessions
      /\ info \in [Account -> Sessions]
  BY DEF QueueSound, TypeOK, Queued
<1>3. /\ found <=> a \in Queued
      /\ found => pos \in 1..Len(queue) /\ queue[pos] = a
  BY Position
<1>4. /\ rest \in Seq(Account) /\ IsInjective(rest)
      /\ ToSet(rest) = Queued \ {a}
      /\ Len(rest) = Len(queue) - (IF a \in Queued THEN 1 ELSE 0)
      /\ \A i \in 1..Len(rest) :
            rest[i] = IF found /\ i >= pos THEN queue[i + 1] ELSE queue[i]
  <2>1. CASE found
    <3>1. /\ RemoveAt(queue, pos) \in Seq(Account)
          /\ Len(RemoveAt(queue, pos)) = Len(queue) - 1
          /\ \A i \in 1..Len(queue) - 1 :
                RemoveAt(queue, pos)[i] = IF i < pos THEN queue[i] ELSE queue[i + 1]
          /\ ToSet(RemoveAt(queue, pos)) = ToSet(queue) \ {queue[pos]}
          /\ IsInjective(RemoveAt(queue, pos))
      BY <1>2, <1>3, <2>1, Removed
    <3>2. rest = RemoveAt(queue, pos)
      BY <2>1
    <3> HIDE DEF rest, pos
    <3>3. \A i \in 1..Len(rest) : i >= pos <=> ~(i < pos)
      BY <1>3, <2>1, <3>1, <3>2
    <3> QED
      BY <1>2, <1>3, <2>1, <3>1, <3>2, <3>3
  <2>2. CASE ~found
    BY <1>2, <1>3, <2>2
  <2> QED
    BY <2>1, <2>2
<1>. pop <=> HasRoom(a \in Queued) /\ rest # <<>>
  BY <1>3
<1> HIDE DEF pos, rest, pop, first, Sent
<1>5. /\ left \in Seq(Account) /\ IsInjective(left)
      /\ Len(left) \in Nat /\ Len(left) <= Cardinality(Account)
      /\ DOMAIN left = 1..Len(left)
      /\ ToSet(left) = IF pop THEN ToSet(rest) \ {Head(rest)} ELSE ToSet(rest)
      /\ Len(left) = Len(rest) - (IF pop THEN 1 ELSE 0)
      /\ pop => Head(rest) = rest[1] /\ Head(rest) \in ToSet(rest)
      /\ ~pop => left = rest
  <2>1. CASE pop
    <3>1. rest # <<>> /\ left = Tail(rest)
      BY <2>1 DEF pop
    <3>2. left \in Seq(Account) /\ IsInjective(left)
      BY <1>4, <3>1, Entered
    <3> QED
      BY <1>4, <2>1, <3>1, <3>2, Entered, Counts, CountedOnce
  <2>2. CASE ~pop
    <3>1. left = rest
      BY <2>2
    <3> QED
      BY <1>4, <2>2, <3>1, Counts, CountedOnce
  <2> QED
    BY <2>1, <2>2
<1> HIDE DEF left
<1>6. first \in Nat /\ first >= 1
  BY <1>3, <1>5, Counts DEF FirstTold, first
<1>7. info' \in [Account -> Sessions]
  <2>1. NewSession \in Sessions
    BY Counts DEF NewSession, Sessions, States
  <2>2. ASSUME NEW b \in Account, Sent(b) # {}
        PROVE  (CHOOSE i \in Sent(b) : TRUE) \in 0..Cardinality(Account)
    <3>1. PICK k \in first..Len(left) : left[k] = b
      BY <2>2 DEF Sent
    <3>2. \A i \in Sent(b) : i \in 0..Cardinality(Account)
      BY <1>5, <1>6, Counts DEF Sent
    <3> QED
      BY <2>2, <3>2
  <2>3. \A r \in Sessions : \A t \in 0..Cardinality(Account) : \A q \in BOOLEAN :
           /\ [r EXCEPT !.told = t] \in Sessions
           /\ [r EXCEPT !.inQueue = q, !.told = t] \in Sessions
    BY DEF Sessions
  <2>4. 0 \in 0..Cardinality(Account)
    BY Counts
  <2> QED
    BY <1>1, <1>2, <2>1, <2>2, <2>3, <2>4
<1>8. ASSUME NEW b \in sessions \ {a}
      PROVE  /\ Life(info'[b]) = Life(info[b])
             /\ info'[b].inQueue <=> info[b].inQueue /\ ~(pop /\ b = Head(rest))
  <2>1. info[b] \in Sessions
    BY <1>2
  <2> QED
    BY <1>1, <1>2, <2>1 DEF Sessions, Life
<1>9. ASSUME PositionTold, NEW j \in 1..Len(left)
      PROVE  info'[left[j]].asks \/ info'[left[j]].told = j
  <2>1. left[j] \in Account /\ left[j] \in ToSet(left) /\ left[j] \in Queued \ {a}
    <3>1. left[j] \in ToSet(left)
      BY <1>5 DEF ToSet
    <3> QED
      <4>1. left[j] \in Account
        BY <1>5
      <4>2. ToSet(left) \subseteq ToSet(rest)
        BY <1>5
      <4> QED
        BY <1>4, <3>1, <4>1, <4>2
  <2>2. \A i \in 1..Len(left) : left[i] = left[j] => i = j
    BY <1>5 DEF IsInjective
  <2>3. ~(pop /\ left[j] = Head(rest))
    BY <1>5, <2>1
  <2>4. info[left[j]] \in Sessions
    BY <1>2, <2>1
  <2>5. CASE j >= first
    <3>1. Sent(left[j]) = {j}
      BY <1>5, <1>6, <2>2, <2>5 DEF Sent
    <3>2. (CHOOSE i \in Sent(left[j]) : TRUE) = j
      BY <3>1
    <3>3. info'[left[j]] = [info[left[j]] EXCEPT !.told = j]
      BY <1>1, <1>2, <2>1, <2>3, <3>1, <3>2
    <3> QED
      BY <2>4, <3>3 DEF Sessions
  <2>6. CASE j < first
    <3>1. Sent(left[j]) = {}
      BY <1>5, <1>6, <2>2, <2>6 DEF Sent
    <3>2. ~pop
      BY <1>6, <2>6 DEF FirstTold, first
    <3>3. left[j] = queue[j] /\ j \in 1..Len(queue)
      <4>1. left = rest /\ j \in 1..Len(rest) /\ j \in Nat
        BY <1>5, <3>2
      <4>2. found => j < pos
        BY <2>6, <3>2 DEF FirstTold, first
      <4>3. found => ~(j >= pos)
        BY <1>3, <4>1, <4>2, Counts
      <4> QED
        BY <1>4, <4>1, <4>3, Counts
    <3>4. info'[left[j]] = info[left[j]]
      BY <1>1, <2>1, <2>3, <3>1
    <3> QED
      BY <1>9, <3>3, <3>4 DEF PositionTold
  <2> QED
    BY <1>6, <2>5, <2>6
<1>10. PositionTold => PositionTold'
  BY <1>1, <1>9 DEF PositionTold
<1>11. Queued' = ToSet(left)
  BY <1>1 DEF Queued
<1>14. /\ loading' \in [Account -> [Askers -> Nat]] /\ loading'[a]["own"] = 0
       /\ \A b \in Account \ {a} : loading'[b] = loading[b]
  <2> DEFINE h == [w \in Askers |-> IF w = "own" THEN 0
                                    ELSE loading[a]["own"] + loading[a]["former"]]
  <2>1. a \in Account /\ loading \in [Account -> [Askers -> Nat]]
    BY DEF QueueSound, TypeOK
  <2>2. h \in [Askers -> Nat] /\ h["own"] = 0
    BY <2>1 DEF Askers
  <2>3. loading' = [loading EXCEPT ![a] = h]
    BY <2>1 DEF Leave
  <2> HIDE DEF h
  <2> QED
    BY <2>1, <2>2, <2>3
<1>12. CASE ~pop
  <2>1. Parts(a, {})
    <3>1. Queued' = Queued \ ({a} \cup {})
      BY <1>4, <1>5, <1>11, <1>12
    <3>2. Len(queue') = Len(queue) - (IF a \in Queued THEN 1 ELSE 0) - 0
      BY <1>1, <1>4, <1>5, <1>12, Counts
    <3>3. \A b \in sessions \ {a} :
             Life(info'[b]) = Life(info[b]) /\ (info'[b].inQueue <=> info[b].inQueue /\ b \notin {})
      BY <1>8, <1>12
    <3> QED
      BY <1>1, <1>5, <1>7, <1>10, <1>14, <3>1, <3>2, <3>3 DEF Parts
  <2>2. ~HasRoom(a \in Queued) \/ queue' = <<>>
    BY <1>1, <1>3, <1>5, <1>12
  <2> QED
    BY <2>1, <2>2
<1>13. CASE pop
  <2>1. Head(rest) \in Queued \ {a} /\ rest # <<>>
    BY <1>4, <1>5, <1>13
  <2>2. Parts(a, {Head(rest)})
    <3>1. Queued' = Queued \ ({a} \cup {Head(rest)})
      BY <1>4, <1>5, <1>11, <1>13
    <3>2. Len(queue') = Len(queue) - (IF a \in Queued THEN 1 ELSE 0) - 1
      BY <1>1, <1>4, <1>5, <1>13, Counts
    <3>3. \A b \in sessions \ {a} :
             /\ Life(info'[b]) = Life(info[b])
             /\ info'[b].inQueue <=> info[b].inQueue /\ b \notin {Head(rest)}
      BY <1>8, <1>13
    <3> QED
      BY <1>1, <1>5, <1>7, <1>10, <1>14, <3>1, <3>2, <3>3 DEF Parts
  <2>3. Len(rest) >= 1 /\ Len(queue) >= 1
    BY <1>4, <2>1, Counts
  <2>4. Head(rest) = queue[1] \/ queue[1] = a
    BY <1>3, <1>4, <1>5, <1>13, <2>3
  <2> QED
    BY <1>3, <1>13, <2>1, <2>2, <2>4
<1> QED
  BY <1>12, <1>13

-----------------------------------------------------------------------------
(* What an update makes of a session that stays.                           *)

LEMMA LogoutParts ==
    ASSUME NEW r \in Sessions
    PROVE  /\ LogoutPlayer(r) \in Sessions
           /\ LogoutPlayer(r).inQueue = r.inQueue
           /\ \/ LogoutPlayer(r).state = r.state /\ LogoutPlayer(r).player = r.player
              \/ LogoutPlayer(r).state = "selecting" /\ LogoutPlayer(r).player = "none"
           /\ LogoutPlayer(r).asks = r.asks /\ LogoutPlayer(r).told = r.told
BY DEF LogoutPlayer, Sessions, States

LEMMA OfflineParts ==
    ASSUME NEW r \in Sessions, NEW q \in AfterSetOffline(r)
    PROVE  /\ q \in Sessions /\ q.inQueue = r.inQueue
           /\ q.state = r.state /\ q.player = r.player
           /\ q.asks = r.asks /\ q.told = r.told
BY DEF AfterSetOffline, Sessions

\* It keeps its flag, gets no character, is online only with one, and knows its
\* place as before or is told it now.
Stays(a, r) ==
    /\ Stay(a, r) /\ r \in Sessions
    /\ r.inQueue = info[a].inQueue
    /\ r.player \in {info[a].player, "none"}
    /\ r.state = "online" => r.player # "none"
    /\ \/ r.asks = info[a].asks /\ r.told = info[a].told
       \/ r.inQueue => r.told = GetQueuedSessionPos(queue, a)

LEMMA UpdateParts ==
    ASSUME QueueSound, NEW a \in Account, UpdateSession(a)
    PROVE  a \in sessions /\ (Leave(a) \/ \E r \in Sessions : Stays(a, r))
<1> DEFINE r == info[a]
<1>1. a \in sessions /\ r \in Sessions
  BY DEF UpdateSession, QueueSound, TypeOK
<1>2. r.state = "online" => r.player # "none"
  BY <1>1 DEF QueueSound
<1>3. CASE UpdateCreated(a)
  <2>1. PICK q \in {r} \cup AfterSetOffline(r) :
           Stay(a, Told(a, [q EXCEPT !.state = "selecting", !.up = q.asks \/ @, !.asks = FALSE]))
    BY <1>3 DEF UpdateCreated
  <2>2. q \in Sessions /\ q.inQueue = r.inQueue /\ q.player = r.player
    BY <1>1, <2>1, OfflineParts
  <2> DEFINE s == [q EXCEPT !.state = "selecting", !.up = q.asks \/ @, !.asks = FALSE]
  <2>3. /\ s \in Sessions /\ s.inQueue = r.inQueue /\ s.state = "selecting"
        /\ s.player = r.player
    BY <2>2 DEF Sessions, States
  <2>4. GetQueuedSessionPos(queue, a) \in 0..Cardinality(Account) /\ 0 \in 0..Cardinality(Account)
    BY Position, Counts
  <2>5. Stay(a, Told(a, s))
    BY <2>1
  <2> HIDE DEF s
  <2>6. /\ Told(a, s) \in Sessions /\ Told(a, s).inQueue = r.inQueue
        /\ Told(a, s).state = s.state /\ Told(a, s).player = r.player
        /\ Told(a, s).inQueue => Told(a, s).told = GetQueuedSessionPos(queue, a)
    BY <2>3, <2>4 DEF Told, Sessions
  <2>7. Stays(a, Told(a, s))
    BY <2>3, <2>5, <2>6 DEF Stays
  <2> QED
    BY <1>1, <2>6, <2>7
<1>4. CASE UpdateSelecting(a, r) \/ UpdateOnline(a, r)
  <2>1. Leave(a) \/ Stay(a, r) \/ Stay(a, LogoutPlayer(r)) \/ \E q \in AfterSetOffline(r) : Stay(a, q)
    BY <1>4 DEF UpdateSelecting, UpdateOnline
  <2>2. Stay(a, r) => Stays(a, r)
    BY <1>1, <1>2 DEF Stays
  <2>3. Stay(a, LogoutPlayer(r)) => Stays(a, LogoutPlayer(r))
    BY <1>1, <1>2, LogoutParts DEF Stays
  <2>4. \A q \in AfterSetOffline(r) : Stay(a, q) => Stays(a, q)
    BY <1>1, <1>2, OfflineParts DEF Stays
  <2> QED
    BY <1>1, <2>1, <2>2, <2>3, <2>4 DEF Stays
<1> QED
  BY <1>3, <1>4 DEF UpdateSession

-----------------------------------------------------------------------------
(* The list of those who wait and their flags.                             *)

\* QueueSound without the types of the variables that have nothing to do with it.
Listed ==
    /\ sessions \subseteq Account
    /\ queue \in Seq(Account) /\ IsInjective(queue) /\ Queued \subseteq sessions
    /\ info \in [Account -> Sessions]

Flags ==
    \A b \in sessions :
        /\ info[b].inQueue => info[b].player # "own"
        /\ info[b].state = "online" => info[b].player # "none"
        /\ ~stopping => (info[b].inQueue <=> b \in Queued)
        /\ b \in Queued => info[b].inQueue

Requests ==
    /\ loading \in [Account -> [Askers -> Nat]]
    /\ \A b \in Account :
          loading[b]["own"] = 0 \/ (b \in sessions /\ ~info[b].inQueue)

Others ==
    /\ limit \in Int /\ limit >= -SEC_ADMINISTRATOR
    /\ incoming \in Seq(Account) /\ adding \in Seq(Account)
    /\ todo \subseteq sessions
    /\ at \in {"between", "adding", "updating", "stopped"}
    /\ stopping \in BOOLEAN
    /\ did \in [connects : 0..MaxConnects, commands : 0..MaxCommands]
    /\ raised \in BOOLEAN

LEMMA SoundParts == QueueSound <=> Listed /\ Flags /\ Requests /\ Others
BY DEF QueueSound, TypeOK, Listed, Flags, Requests, Others

LEMMA SoundPartsNext == QueueSound' <=> Listed' /\ Flags' /\ Requests' /\ Others'
BY DEF QueueSound, TypeOK, Listed, Flags, Requests, Others

LEMMA ClampedType == \A v \in Int : Clamped(v) \in Int /\ Clamped(v) >= -SEC_ADMINISTRATOR
BY DEF Clamped, SEC_ADMINISTRATOR

LEMMA NewSessionType == QueueSound => NewSession \in Sessions
BY Counts DEF NewSession, Sessions, States

\* A change of a session that the queue and the log-ins are not about.
Kept(r, s) ==
    /\ s \in Sessions
    /\ s.inQueue = r.inQueue /\ s.player = r.player /\ s.state = r.state
    /\ s.told = r.told

LEMMA KeptParts ==
    ASSUME NEW r \in Sessions
    PROVE  /\ Kept(r, [r EXCEPT !.asks = TRUE])
           /\ Kept(r, [r EXCEPT !.up = FALSE]) /\ [r EXCEPT !.up = FALSE].asks = r.asks
           /\ Kept(r, [r EXCEPT !.kick = TRUE]) /\ [r EXCEPT !.kick = TRUE].asks = r.asks
           /\ Kept(r, [r EXCEPT !.recent = FALSE]) /\ [r EXCEPT !.recent = FALSE].asks = r.asks
<1>1. Kept(r, [r EXCEPT !.asks = TRUE])
  BY DEF Kept, Sessions
<1>2. Kept(r, [r EXCEPT !.up = FALSE]) /\ [r EXCEPT !.up = FALSE].asks = r.asks
  BY DEF Kept, Sessions
<1>3. Kept(r, [r EXCEPT !.kick = TRUE]) /\ [r EXCEPT !.kick = TRUE].asks = r.asks
  BY DEF Kept, Sessions
<1>4. Kept(r, [r EXCEPT !.recent = FALSE]) /\ [r EXCEPT !.recent = FALSE].asks = r.asks
  BY DEF Kept, Sessions
<1> QED
  BY <1>1, <1>2, <1>3, <1>4

LEMMA KeptStep ==
    ASSUME Listed, Flags, Requests, NEW a \in Account, NEW s, Kept(info[a], s),
           info' = [info EXCEPT ![a] = s],
           UNCHANGED <<sessions, queue, loading, stopping>>
    PROVE  Listed' /\ Flags' /\ Requests'
<1>1. s \in Sessions /\ info' \in [Account -> Sessions]
  BY DEF Kept, Listed
<1>2. \A b \in Account : /\ info'[b].inQueue = info[b].inQueue
                         /\ info'[b].player = info[b].player /\ info'[b].state = info[b].state
  BY DEF Kept, Listed
<1>3. Listed'
  BY <1>1 DEF Listed, Queued
<1>4. Flags'
  BY <1>2 DEF Listed, Flags, Queued
<1>5. Requests'
  BY <1>2 DEF Requests
<1> QED
  BY <1>3, <1>4, <1>5

LEMMA SoundInit == Init => QueueSound
<1> SUFFICES ASSUME Init PROVE QueueSound
  OBVIOUS
<1>1. IsFiniteSet(Account) /\ Cardinality(Account) \in Nat
  BY QueueAssumption, FS_CardinalityType
<1>2. NewSession \in Sessions
  BY <1>1 DEF NewSession, Sessions, States
<1>3. Listed
  BY <1>2 DEF Init, Listed, Queued, ToSet, IsInjective
<1>4. Flags
  BY DEF Init, Flags
<1>5. Others
  <2>1. limit \in Int /\ limit >= -SEC_ADMINISTRATOR
    BY QueueAssumption, ClampedType DEF Init
  <2>2. did \in [connects : 0..MaxConnects, commands : 0..MaxCommands]
    BY QueueAssumption DEF Init
  <2> QED
    BY <2>1, <2>2, EmptySeq DEF Init, Others
<1>6. Requests
  BY DEF Init, Requests, Askers
<1> QED
  BY <1>3, <1>4, <1>5, <1>6, SoundParts

LEMMA SoundStep == QueueSound /\ [Next]_vars => QueueSound'
<1> SUFFICES ASSUME QueueSound, [Next]_vars
             PROVE  QueueSound'
  OBVIOUS
<1>1. Listed /\ Flags /\ Requests /\ Others
  BY SoundParts
<1>2. ASSUME NEW a \in Account, Authenticate(a)
      PROVE  QueueSound'
  <2>1. Others'
    <3>1. did' \in [connects : 0..MaxConnects, commands : 0..MaxCommands]
      BY <1>1, <1>2, QueueAssumption DEF Authenticate, Others
    <3>2. incoming' \in Seq(Account)
      BY <1>1, <1>2 DEF Authenticate, Others
    <3> QED
      BY <1>1, <1>2, <3>1, <3>2 DEF Authenticate, Others
  <2>2. Listed' /\ Flags' /\ Requests'
    <3>1. CASE info' = info
      BY <1>1, <1>2, <3>1 DEF Authenticate, Listed, Flags, Requests, Queued
    <3>2. CASE info' = [info EXCEPT ![a].asks = TRUE]
      <4>1. info' = [info EXCEPT ![a] = [info[a] EXCEPT !.asks = TRUE]] /\ info[a] \in Sessions
        BY <1>1, <3>2 DEF Listed
      <4>2. UNCHANGED <<sessions, queue, loading, stopping>>
        BY <1>2 DEF Authenticate
      <4> QED
        BY <1>1, <4>1, <4>2, KeptParts, KeptStep
    <3> QED
      BY <1>2, <3>1, <3>2 DEF Authenticate
  <2> QED
    BY <2>1, <2>2, SoundPartsNext
<1>3. ASSUME NEW a \in Account, Disconnect(a)
      PROVE  QueueSound'
  <2>1. Others'
    BY <1>1, <1>3 DEF Disconnect, Others
  <2>2. info' = [info EXCEPT ![a] = [info[a] EXCEPT !.up = FALSE]] /\ info[a] \in Sessions
    BY <1>1, <1>3 DEF Disconnect, Listed
  <2>3. UNCHANGED <<sessions, queue, loading, stopping>>
    BY <1>3 DEF Disconnect
  <2>4. Listed' /\ Flags' /\ Requests'
    BY <1>1, <2>2, <2>3, KeptParts, KeptStep
  <2> QED
    BY <2>1, <2>4, SoundPartsNext
<1>4. CASE BeginUpdate
  BY <1>1, <1>4, SoundPartsNext DEF BeginUpdate, Others, Listed, Flags, Requests, Queued
<1>5. CASE AddSession
  <2> DEFINE a == Head(adding)
             waits == MustWait(a)
  <2>1. a \in Account /\ Tail(adding) \in Seq(Account)
    BY <1>1, <1>5 DEF AddSession, Others
  <2>2. Others'
    BY <1>1, <1>5, <2>1 DEF AddSession, Others
  <2>3. CASE a \in sessions
    BY <1>1, <1>5, <2>2, <2>3, SoundPartsNext DEF AddSession, Listed, Flags, Requests, Queued
  <2>4. CASE a \notin sessions
    <3> DEFINE r == [NewSession EXCEPT !.inQueue = waits, !.told = IF waits THEN Len(queue) + 1 ELSE 0]
    <3>1. /\ sessions' = sessions \cup {a}
          /\ queue' = IF waits THEN Append(queue, a) ELSE queue
          /\ info' = [info EXCEPT ![a] = r]
          /\ UNCHANGED stopping
      BY <1>5, <2>4 DEF AddSession
    <3>2. a \notin Queued
      BY <1>1, <2>4 DEF Listed
    <3>3. Len(queue) + 1 \in 0..Cardinality(Account)
      <4>1. /\ Append(queue, a) \in Seq(Account) /\ IsInjective(Append(queue, a))
            /\ Len(Append(queue, a)) = Len(queue) + 1
        BY <1>1, <2>1, <3>2, Appended DEF Listed, Queued
      <4>2. Len(queue) + 1 <= Cardinality(Account)
        <5>1. Len(Append(queue, a)) <= Cardinality(Account)
          BY <4>1, Counts, CountedOnce
        <5> QED
          BY <4>1, <5>1
      <4> QED
        BY <4>2, Counts
    <3>4. waits \in BOOLEAN
      BY DEF MustWait
    <3> HIDE DEF waits
    <3>5. /\ r \in Sessions /\ r.inQueue = waits /\ r.state = "created"
          /\ r.player = "none"
      BY <3>3, <3>4, NewSessionType, Counts DEF NewSession, Sessions
    <3> HIDE DEF r, a
    <3>6. /\ queue' \in Seq(Account) /\ IsInjective(queue')
          /\ Queued' = IF waits THEN Queued \cup {a} ELSE Queued
      <4>1. queue \in Seq(Account) /\ IsInjective(queue) /\ a \notin ToSet(queue)
        BY <1>1, <3>2 DEF Listed, Queued
      <4>2. /\ Append(queue, a) \in Seq(Account) /\ IsInjective(Append(queue, a))
            /\ ToSet(Append(queue, a)) = Queued \cup {a}
        BY <2>1, <4>1, Appended DEF Queued
      <4> QED
        BY <3>1, <4>1, <4>2 DEF Queued
    <3>7. Listed'
      BY <1>1, <2>1, <3>1, <3>5, <3>6 DEF Listed
    <3>8. ASSUME NEW b \in sessions'
          PROVE  /\ info'[b].inQueue => info'[b].player # "own"
                 /\ info'[b].state = "online" => info'[b].player # "none"
                 /\ ~stopping' => (info'[b].inQueue <=> b \in Queued')
                 /\ b \in Queued' => info'[b].inQueue
      <4>1. CASE b = a
        BY <1>1, <2>1, <3>1, <3>2, <3>5, <3>6, <4>1 DEF Listed
      <4>2. CASE b # a
        BY <1>1, <2>1, <3>1, <3>6, <3>8, <4>2 DEF Listed, Flags, Requests
      <4> QED
        BY <4>1, <4>2
    <3>9. Requests'
      <4>1. loading' = loading /\ loading[a]["own"] = 0
        BY <1>1, <1>5, <2>1, <2>4 DEF AddSession, Requests
      <4> QED
        BY <1>1, <2>1, <3>1, <4>1 DEF Requests, Listed
    <3> QED
      BY <2>2, <3>7, <3>8, <3>9, SoundPartsNext DEF Flags
  <2> QED
    BY <2>3, <2>4
<1>6. CASE AddsDone
  BY <1>1, <1>6, SoundPartsNext DEF AddsDone, Others, Listed, Flags, Requests, Queued
<1>7. CASE UpdatesDone
  BY <1>1, <1>7, SoundPartsNext DEF UpdatesDone, Others, Listed, Flags, Requests, Queued
<1>8. ASSUME NEW a \in Account, UpdateSession(a)
      PROVE  QueueSound'
  <2>1. /\ todo' = todo \ {a} /\ raised' \in BOOLEAN
        /\ UNCHANGED <<limit, incoming, adding, at, stopping, did>>
    BY <1>1, <1>8 DEF UpdateSession, Others
  <2>2. a \in sessions
    BY <1>8, UpdateParts
  <2>3. ASSUME NEW e, Parts(a, e)
        PROVE  QueueSound'
    <3>1. Others'
      BY <1>1, <2>1, <2>3 DEF Others, Parts
    <3>2. Listed'
      BY <1>1, <2>3 DEF Listed, Parts
    <3>3. ASSUME NEW b \in sessions'
          PROVE  /\ info'[b].inQueue => info'[b].player # "own"
                 /\ info'[b].state = "online" => info'[b].player # "none"
                 /\ ~stopping' => (info'[b].inQueue <=> b \in Queued')
                 /\ b \in Queued' => info'[b].inQueue
      BY <1>1, <2>1, <2>3, <3>3 DEF Flags, Parts, Life
    <3>4. Requests'
      BY <1>1, <2>3 DEF Requests, Parts
    <3> QED
      BY <3>1, <3>2, <3>3, <3>4, SoundPartsNext DEF Flags
  <2>4. ASSUME NEW r \in Sessions, Stays(a, r)
        PROVE  QueueSound'
    <3>1. Stay(a, r) /\ r.inQueue = info[a].inQueue
      BY <2>4 DEF Stays
    <3>2. Others' /\ Listed'
      BY <1>1, <2>1, <2>2, <3>1 DEF Others, Listed, Stay, Queued
    <3>3. Flags'
      BY <1>1, <2>1, <2>2, <2>4, <3>1 DEF Flags, Listed, Stays, Stay, Queued
    <3>4. Requests'
      BY <1>1, <2>1, <2>2, <3>1 DEF Requests, Listed, Stay
    <3> QED
      BY <3>2, <3>3, <3>4, SoundPartsNext
  <2> QED
    BY <1>8, <2>2, <2>3, <2>4, UpdateParts, LeaveParts
<1>9. ASSUME NEW a \in Account, RequestLogin(a) \/ Reconnect(a) \/ OtherPacket(a)
      PROVE  QueueSound'
  <2>1. /\ UNCHANGED <<limit, incoming, adding, sessions, queue, todo, at, stopping, did, raised>>
        /\ a \in sessions /\ ~info[a].inQueue
    BY <1>1, <1>9 DEF RequestLogin, Reconnect, OtherPacket, AuthedPacket, MayPlay, Others
  <2>2. Others'
    BY <1>1, <2>1 DEF Others
  <2>3. PICK r \in Sessions :
           /\ info' = [info EXCEPT ![a] = r] /\ r.inQueue = info[a].inQueue
           /\ r.player = info[a].player
           /\ r.state = info[a].state \/ r.player # "none"
    <3>1. CASE RequestLogin(a) \/ OtherPacket(a)
      <4>1. info' = [info EXCEPT ![a] = [info[a] EXCEPT !.recent = FALSE]]
        BY <1>1, <3>1 DEF RequestLogin, OtherPacket, Listed
      <4>2. info[a] \in Sessions
        BY <1>1 DEF Listed
      <4> QED
        BY <4>1, <4>2, KeptParts DEF Kept
    <3>2. CASE Reconnect(a)
      <4>1. info' = [info EXCEPT ![a] = [info[a] EXCEPT !.recent = FALSE, !.kick = FALSE,
                                                        !.state = "online"]]
        BY <1>1, <3>2 DEF Reconnect, Listed
      <4> DEFINE q == [info[a] EXCEPT !.recent = FALSE, !.kick = FALSE, !.state = "online"]
      <4>2. q \in Sessions /\ q.inQueue = info[a].inQueue /\ q.player = info[a].player
        BY <1>1 DEF Listed, Sessions, States
      <4>3. info[a].player # "none" /\ info' = [info EXCEPT ![a] = q]
        BY <3>2, <4>1 DEF Reconnect
      <4> HIDE DEF q
      <4> QED
        BY <4>2, <4>3
    <3> QED
      BY <1>9, <3>1, <3>2
  <2>4. Listed' /\ Flags'
    BY <1>1, <2>1, <2>3 DEF Listed, Flags, Queued
  <2>5. Requests'
    <3>1. CASE loading' = loading
      BY <1>1, <2>1, <2>3, <3>1 DEF Requests, Listed
    <3>2. CASE loading' = [loading EXCEPT ![a]["own"] = @ + 1]
      <4>1. /\ loading' \in [Account -> [Askers -> Nat]]
            /\ \A b \in Account \ {a} : loading'[b] = loading[b]
        BY <1>1, <3>2 DEF Requests, Askers
      <4> QED
        BY <1>1, <2>1, <2>3, <4>1 DEF Requests, Listed
    <3> QED
      BY <1>9, <3>1, <3>2 DEF RequestLogin, Reconnect, OtherPacket
  <2> QED
    BY <2>2, <2>4, <2>5, SoundPartsNext
<1>14. ASSUME NEW a \in Account, LoginCallback(a)
       PROVE  QueueSound'
  <2> DEFINE w == IF loading[a]["former"] > 0 THEN "former" ELSE "own"
  <2>1. /\ UNCHANGED <<limit, incoming, adding, sessions, queue, todo, at, stopping, did, raised>>
        /\ w \in Askers /\ loading[a][w] > 0
        /\ loading' = [loading EXCEPT ![a][w] = @ - 1]
    BY <1>14 DEF LoginCallback, Askers
  <2>2. Others'
    BY <1>1, <2>1 DEF Others
  <2>3. info' = info \/ \E r \in Sessions :
           /\ info' = [info EXCEPT ![a] = r] /\ r.inQueue = info[a].inQueue
           /\ r.player = w
    <3>1. CASE a \notin sessions
      BY <1>14, <3>1 DEF LoginCallback
    <3>2. CASE a \in sessions
      <4>1. PICK failed \in BOOLEAN :
               info' = [info EXCEPT ![a].player = w,
                                    ![a].state = IF info[a].up THEN "online" ELSE @,
                                    ![a].kick = @ \/ failed]
        BY <1>14, <3>2 DEF LoginCallback
      <4> DEFINE r == [info[a] EXCEPT !.player = w,
                                      !.state = IF info[a].up THEN "online" ELSE @,
                                      !.kick = @ \/ failed]
      <4>2. info' = [info EXCEPT ![a] = r]
        BY <1>1, <4>1 DEF Listed
      <4>3. r \in Sessions /\ r.inQueue = info[a].inQueue /\ r.player = w
        BY <1>1, <2>1 DEF Listed, Sessions, States
      <4> HIDE DEF r
      <4> QED
        BY <4>2, <4>3
    <3> QED
      BY <3>1, <3>2
  <2>4. info[a].inQueue => w # "own"
    BY <1>1, <2>1 DEF Requests, Askers
  <2>5. w # "none"
    OBVIOUS
  <2>6. /\ loading' \in [Account -> [Askers -> Nat]]
        /\ \A b \in Account : loading[b]["own"] = 0 => loading'[b]["own"] = 0
    BY <1>1, <2>1 DEF Requests, Askers
  <2> HIDE DEF w
  <2>7. Listed' /\ Flags'
    BY <1>1, <2>1, <2>3, <2>4, <2>5 DEF Listed, Flags, Queued
  <2>8. \A b \in Account : info'[b].inQueue = info[b].inQueue
    BY <1>1, <2>3 DEF Listed
  <2>9. Requests'
    BY <1>1, <2>1, <2>6, <2>8 DEF Requests
  <2> QED
    BY <2>2, <2>7, <2>9, SoundPartsNext
<1>10. ASSUME NEW a \in Account, Kick(a)
       PROVE  QueueSound'
  <2>1. Others'
    BY <1>1, <1>10, QueueAssumption DEF Kick, Command, Others
  <2>2. Listed' /\ Flags' /\ Requests'
    <3>1. info' = [info EXCEPT ![a] = [info[a] EXCEPT !.kick = TRUE]] /\ info[a] \in Sessions
      BY <1>1, <1>10 DEF Kick, Listed
    <3>2. UNCHANGED <<sessions, queue, loading, stopping>>
      BY <1>10 DEF Kick, Command
    <3> QED
      BY <1>1, <3>1, <3>2, KeptParts, KeptStep
  <2> QED
    BY <2>1, <2>2, SoundPartsNext
<1>11. ASSUME NEW v \in Limits, SetPlayerLimit(v)
       PROVE  QueueSound'
  <2>1. Others'
    <3>1. limit' \in Int /\ limit' >= -SEC_ADMINISTRATOR
      BY <1>11, QueueAssumption, ClampedType DEF SetPlayerLimit
    <3>2. did' \in [connects : 0..MaxConnects, commands : 0..MaxCommands]
      <4>1. did.commands < MaxCommands /\ did' = [did EXCEPT !.commands = @ + 1]
        BY <1>11 DEF SetPlayerLimit, Command
      <4> QED
        BY <1>1, <4>1, QueueAssumption DEF Others
    <3>3. raised' \in BOOLEAN
      BY <1>1, <1>11 DEF SetPlayerLimit, Others
    <3> QED
      BY <1>1, <1>11, <3>1, <3>2, <3>3 DEF SetPlayerLimit, Others
  <2>2. \A a \in Account : info'[a] \in {info[a], [info[a] EXCEPT !.kick = TRUE]}
    BY <1>11 DEF SetPlayerLimit
  <2>3. \A a \in Account : /\ info'[a] \in Sessions
                            /\ info'[a].inQueue = info[a].inQueue
                            /\ info'[a].state = info[a].state
                            /\ info'[a].player = info[a].player
    BY <1>1, <2>2 DEF Listed, Sessions
  <2>4. /\ info' = [a \in Account |-> info'[a]]
        /\ UNCHANGED <<sessions, queue, loading, stopping>>
    BY <1>11 DEF SetPlayerLimit
  <2>5. info' \in [Account -> Sessions]
    BY <2>3, <2>4
  <2>6. Listed' /\ Flags' /\ Requests'
    BY <1>1, <2>3, <2>4, <2>5 DEF Listed, Flags, Requests, Queued
  <2> QED
    BY <2>1, <2>6, SoundPartsNext
<1>12. CASE Stop
  <2>1. \A a \in Account : info'[a] = IF a \in sessions THEN LogoutPlayer([info[a] EXCEPT !.kick = TRUE])
                                      ELSE info[a]
    BY <1>12 DEF Stop
  <2>2. ASSUME NEW a \in Account
        PROVE  /\ info'[a] \in Sessions /\ info'[a].inQueue = info[a].inQueue
               /\ \/ info'[a].state = info[a].state /\ info'[a].player = info[a].player
                  \/ info'[a].state = "selecting" /\ info'[a].player = "none"
    <3> DEFINE k == [info[a] EXCEPT !.kick = TRUE]
    <3>1. /\ k \in Sessions /\ k.inQueue = info[a].inQueue
          /\ k.state = info[a].state /\ k.player = info[a].player
      BY <1>1 DEF Listed, Sessions
    <3> HIDE DEF k
    <3>2. info'[a] = IF a \in sessions THEN LogoutPlayer(k) ELSE info[a]
      BY <2>1 DEF k
    <3> QED
      BY <1>1, <3>1, <3>2, LogoutParts DEF Listed
  <2>3. /\ info' = [a \in Account |-> info'[a]]
        /\ queue' = <<>> /\ stopping' = TRUE /\ UNCHANGED <<sessions, loading>>
    BY <1>12 DEF Stop
  <2>4. Queued' = {} /\ queue' \in Seq(Account) /\ IsInjective(queue')
    BY <2>3 DEF Queued, ToSet, IsInjective
  <2>5. info' \in [Account -> Sessions]
    BY <2>2, <2>3
  <2>6. Listed'
    BY <1>1, <2>3, <2>4, <2>5 DEF Listed
  <2>7. Flags'
    BY <1>1, <2>2, <2>3, <2>4 DEF Flags, Listed
  <2>8. Others'
    BY <1>1, <1>12, EmptySeq DEF Stop, Others
  <2>9. Requests'
    BY <1>1, <2>2, <2>3 DEF Requests
  <2> QED
    BY <2>6, <2>7, <2>8, <2>9, SoundPartsNext
<1>13. CASE UNCHANGED vars
  BY <1>1, <1>13, SoundPartsNext DEF vars, Others, Listed, Flags, Requests, Queued
<1> QED
  BY <1>2, <1>3, <1>4, <1>5, <1>6, <1>7, <1>8, <1>9, <1>10, <1>11, <1>12, <1>13, <1>14
  DEF Next, Stopped

\* The list of those who wait and the flags of the sessions agree at all times
\* (QueueSound).
THEOREM QueueIsSound == Spec => []QueueSound
<1> QED
  BY SoundInit, SoundStep, PTL DEF Spec

-----------------------------------------------------------------------------
(* Nobody waits while there is room.                                       *)

\* How many sessions there are when one is added, or when one leaves and those of
\* e enter.
LEMMA CountAdded ==
    ASSUME QueueSound, NEW a, a \notin sessions, sessions' = sessions \cup {a}
    PROVE  Cardinality(sessions') = Cardinality(sessions) + 1
BY Counts, FS_AddElement

LEMMA CountLeft ==
    ASSUME QueueSound, NEW a \in sessions, NEW e, Parts(a, e)
    PROVE  /\ Cardinality(sessions') = Cardinality(sessions) - 1
           /\ GetActiveSessionCount' = GetActiveSessionCount
                - (IF a \in Queued THEN 0 ELSE 1) + (IF e = {} THEN 0 ELSE 1)
<1>1. Cardinality(sessions') = Cardinality(sessions) - 1
  BY Counts, FS_RemoveElement DEF Parts
<1>2. Len(queue') = Len(queue) - (IF a \in Queued THEN 1 ELSE 0) - (IF e = {} THEN 0 ELSE 1)
  BY DEF Parts
<1>3. /\ Cardinality(sessions) \in Int /\ Len(queue) \in Int
      /\ GetActiveSessionCount = Cardinality(sessions) - Len(queue)
      /\ GetActiveSessionCount' = Cardinality(sessions') - Len(queue')
  BY Counts DEF GetActiveSessionCount
<1>4. CASE a \in Queued
  BY <1>1, <1>2, <1>3, <1>4
<1>5. CASE a \notin Queued
  BY <1>1, <1>2, <1>3, <1>5
<1> QED
  BY <1>4, <1>5

LEMMA FullInit == Init => WaitOnlyWhenFull
BY DEF Init, WaitOnlyWhenFull

LEMMA FullStep == QueueSound /\ WaitOnlyWhenFull /\ [Next]_vars => WaitOnlyWhenFull'
<1> SUFFICES ASSUME QueueSound, WaitOnlyWhenFull, [Next]_vars, queue' # <<>>, ~raised'
             PROVE  limit' > 0 /\ GetActiveSessionCount' >= limit'
  BY DEF WaitOnlyWhenFull
<1> USE DEF GetActiveSessionCount
<1>1. /\ limit \in Int /\ queue \in Seq(Account)
      /\ queue # <<>> /\ ~raised => limit > 0 /\ GetActiveSessionCount >= limit
  BY DEF QueueSound, TypeOK, WaitOnlyWhenFull
<1>2. CASE AddSession
  <2> DEFINE a == Head(adding)
  <2>1. UNCHANGED <<limit, raised>>
    BY <1>2 DEF AddSession
  <2>2. CASE a \in sessions
    BY <1>1, <1>2, <2>1, <2>2 DEF AddSession
  <2>3. CASE a \notin sessions
    <3>1. /\ sessions' = sessions \cup {a}
          /\ queue' = IF MustWait(a) THEN Append(queue, a) ELSE queue
      BY <1>2, <2>3 DEF AddSession
    <3>2. Cardinality(sessions') = Cardinality(sessions) + 1
      BY <2>3, <3>1, CountAdded
    <3> HIDE DEF a
    <3>3. CASE MustWait(a)
      <4>1. Len(queue') = Len(queue) + 1
        BY <1>1, <3>1, <3>3
      <4>2. limit > 0 /\ Cardinality(sessions) >= limit
        BY <3>3 DEF MustWait
      <4>3. CASE queue = <<>>
        BY <1>1, <2>1, <3>2, <4>1, <4>2, <4>3, Counts
      <4>4. CASE queue # <<>>
        BY <1>1, <2>1, <3>2, <4>1, <4>4, Counts
      <4> QED
        BY <4>3, <4>4
    <3>4. CASE ~MustWait(a)
      BY <1>1, <2>1, <3>1, <3>2, <3>4, Counts
    <3> QED
      BY <3>3, <3>4
  <2> QED
    BY <2>2, <2>3
<1>3. ASSUME NEW a \in Account, UpdateSession(a)
      PROVE  limit' > 0 /\ GetActiveSessionCount' >= limit'
  <2>1. UNCHANGED limit /\ raised' = (raised /\ queue' # <<>>)
    BY <1>3 DEF UpdateSession
  <2>2. ~raised
    BY <2>1
  <2>3. a \in sessions
    BY <1>3, UpdateParts
  <2>4. ASSUME Parts(a, {}), ~HasRoom(a \in Queued) \/ queue' = <<>>
        PROVE  limit' > 0 /\ GetActiveSessionCount' >= limit'
    <3>1. limit # 0 /\ (IF a \in Queued THEN GetActiveSessionCount
                        ELSE GetActiveSessionCount - 1) >= limit
      BY <1>1, <2>4, Counts DEF HasRoom
    <3>2. queue # <<>>
      BY <2>4, Counts DEF Parts
    <3> QED
      BY <1>1, <2>1, <2>2, <2>3, <2>4, <3>1, <3>2, CountLeft, Counts
  <2>5. ASSUME NEW f \in Queued \ {a}, Parts(a, {f}), HasRoom(a \in Queued)
        PROVE  limit' > 0 /\ GetActiveSessionCount' >= limit'
    <3>1. queue # <<>>
      BY <2>5, Counts
    <3>2. limit > 0 /\ GetActiveSessionCount >= limit
      BY <1>1, <2>2, <3>1
    <3>3. GetActiveSessionCount' = GetActiveSessionCount - (IF a \in Queued THEN 0 ELSE 1) + 1
      BY <2>3, <2>5, CountLeft
    <3>4. GetActiveSessionCount \in Int
      BY Counts
    <3> QED
      BY <1>1, <2>1, <2>5, <3>2, <3>3, <3>4 DEF HasRoom
  <2>6. ASSUME NEW r \in Sessions, Stays(a, r)
        PROVE  limit' > 0 /\ GetActiveSessionCount' >= limit'
    BY <1>1, <2>1, <2>2, <2>6 DEF Stays, Stay
  <2> QED
    BY <1>3, <2>3, <2>4, <2>5, <2>6, UpdateParts, LeaveParts
<1>4. ASSUME NEW v \in Limits, SetPlayerLimit(v)
      PROVE  limit' > 0 /\ GetActiveSessionCount' >= limit'
  <2>1. /\ raised' = (raised \/ (queue # <<>> /\ (limit' <= 0 \/ limit' > limit)))
        /\ UNCHANGED <<queue, sessions>>
    BY <1>4 DEF SetPlayerLimit
  <2>2. limit' \in Int
    BY <1>4, QueueAssumption, ClampedType DEF SetPlayerLimit
  <2>3. ~raised /\ queue # <<>> /\ ~(limit' <= 0 \/ limit' > limit)
    BY <2>1
  <2>4. limit > 0 /\ GetActiveSessionCount >= limit
    BY <1>1, <2>3
  <2> QED
    BY <1>1, <2>1, <2>2, <2>3, <2>4, Counts
<1>5. CASE Stop
  BY <1>5 DEF Stop
<1>6. CASE UNCHANGED <<limit, sessions, queue, raised>>
  BY <1>1, <1>6
<1> QED
  BY <1>2, <1>3, <1>4, <1>5, <1>6
  DEF Next, vars, Authenticate, Disconnect, BeginUpdate, AddsDone, UpdatesDone, RequestLogin,
      Reconnect, OtherPacket, AuthedPacket, LoginCallback, Kick, Stopped

\* Unless the limit was raised or lifted, somebody waits only while the limit is
\* reached (WaitOnlyWhenFull).
THEOREM WaitsOnlyWhenFull == Spec => []WaitOnlyWhenFull
<1> QED
  BY FullInit, FullStep, QueueIsSound, PTL DEF Spec

-----------------------------------------------------------------------------
(* Every client knows its place.                                           *)

LEMMA ToldInit == Init => PositionTold
BY DEF Init, PositionTold

LEMMA ToldStep == QueueSound /\ PositionTold /\ [Next]_vars => PositionTold'
<1> SUFFICES ASSUME QueueSound, PositionTold, [Next]_vars
             PROVE  PositionTold'
  OBVIOUS
<1>1. /\ queue \in Seq(Account) /\ IsInjective(queue) /\ Queued \subseteq sessions
      /\ info \in [Account -> Sessions] /\ sessions \subseteq Account
      /\ \A i \in 1..Len(queue) : queue[i] \in Account
  BY DEF QueueSound, TypeOK
<1>2. ASSUME NEW a \in Account, NEW r \in Sessions,
             info' = [info EXCEPT ![a] = r], queue' = queue,
             \/ r.asks
             \/ r.asks = info[a].asks /\ r.told = info[a].told
             \/ a \in Queued => r.told = GetQueuedSessionPos(queue, a)
      PROVE  PositionTold'
  <2>1. ASSUME NEW i \in 1..Len(queue)
        PROVE  info'[queue[i]].asks \/ info'[queue[i]].told = i
    <3>1. CASE queue[i] # a
      BY <1>1, <1>2, <2>1, <3>1 DEF PositionTold
    <3>2. CASE queue[i] = a
      <4>1. info'[queue[i]] = r /\ a \in Queued
        BY <1>1, <1>2, <3>2, Counts
      <4>2. GetQueuedSessionPos(queue, a) = i
        BY <1>1, <3>2, <4>1, Position DEF IsInjective
      <4> QED
        BY <1>2, <2>1, <3>2, <4>1, <4>2 DEF PositionTold
    <3> QED
      BY <3>1, <3>2
  <2> QED
    BY <1>2, <2>1 DEF PositionTold
<1>3. ASSUME UNCHANGED queue,
             \A a \in Account : info'[a].asks = info[a].asks /\ info'[a].told = info[a].told
      PROVE  PositionTold'
  BY <1>1, <1>3 DEF PositionTold
<1>4. ASSUME NEW a \in Account, Authenticate(a)
      PROVE  PositionTold'
  <2>1. CASE info' = info
    BY <1>3, <1>4, <2>1 DEF Authenticate
  <2>2. CASE info' = [info EXCEPT ![a].asks = TRUE]
    <3>1. [info[a] EXCEPT !.asks = TRUE] \in Sessions /\ [info[a] EXCEPT !.asks = TRUE].asks
      BY <1>1 DEF Sessions
    <3>2. info' = [info EXCEPT ![a] = [info[a] EXCEPT !.asks = TRUE]] /\ queue' = queue
      BY <1>1, <1>4, <2>2 DEF Authenticate
    <3> QED
      BY <1>2, <3>1, <3>2
  <2> QED
    BY <1>4, <2>1, <2>2 DEF Authenticate
<1>5. CASE AddSession
  <2> DEFINE a == Head(adding)
  <2>1. a \in Account
    BY <1>5 DEF AddSession, QueueSound, TypeOK
  <2>2. CASE a \in sessions
    BY <1>3, <1>5, <2>2 DEF AddSession
  <2>3. CASE a \notin sessions
    <3>1. /\ queue' = IF MustWait(a) THEN Append(queue, a) ELSE queue
          /\ info' = [info EXCEPT ![a] = [NewSession EXCEPT
                         !.inQueue = MustWait(a),
                         !.told = IF MustWait(a) THEN Len(queue) + 1 ELSE 0]]
      BY <1>5, <2>3 DEF AddSession
    <3> HIDE DEF a
    <3>2. MustWait(a) => info'[a].told = Len(queue) + 1
      BY <1>1, <2>1, <3>1 DEF NewSession
    <3>3. \A i \in 1..Len(queue) : queue[i] # a /\ info'[queue[i]] = info[queue[i]]
      BY <1>1, <2>3, <3>1, Counts
    <3>4. CASE MustWait(a)
      <4>1. /\ queue' = Append(queue, a) /\ Len(queue') = Len(queue) + 1
            /\ \A i \in 1..Len(queue) : queue'[i] = queue[i]
            /\ queue'[Len(queue) + 1] = a
        BY <1>1, <2>1, <3>1, <3>4, Appended
      <4>2. \A i \in 1..Len(queue') : i \in 1..Len(queue) \/ i = Len(queue) + 1
        BY <4>1, Counts
      <4> QED
        BY <3>2, <3>3, <3>4, <4>1, <4>2 DEF PositionTold
    <3>5. CASE ~MustWait(a)
      BY <3>1, <3>3, <3>5 DEF PositionTold
    <3> QED
      BY <3>4, <3>5
  <2> QED
    BY <2>2, <2>3
<1>6. ASSUME NEW a \in Account, UpdateSession(a)
      PROVE  PositionTold'
  <2>1. a \in sessions
    BY <1>6, UpdateParts
  <2>2. ASSUME NEW e, Parts(a, e)
        PROVE  PositionTold'
    BY <2>2 DEF Parts
  <2>3. ASSUME NEW r \in Sessions, Stays(a, r)
        PROVE  PositionTold'
    <3>1. a \in Queued => r.inQueue
      BY <2>1, <2>3 DEF Stays, QueueSound
    <3> QED
      BY <1>2, <2>3, <3>1 DEF Stays, Stay
  <2> QED
    BY <1>6, <2>1, <2>2, <2>3, UpdateParts, LeaveParts
<1>7. ASSUME NEW a \in Account,
             \/ Disconnect(a) \/ Kick(a)
             \/ RequestLogin(a) \/ Reconnect(a) \/ OtherPacket(a) \/ LoginCallback(a)
      PROVE  PositionTold'
  <2>1. UNCHANGED queue
    BY <1>7 DEF Disconnect, Kick, RequestLogin, Reconnect, OtherPacket, AuthedPacket, LoginCallback
  <2>2. CASE Disconnect(a) \/ Kick(a) \/ RequestLogin(a) \/ OtherPacket(a)
    <3>1. \E s \in {[info[a] EXCEPT !.up = FALSE], [info[a] EXCEPT !.kick = TRUE],
                    [info[a] EXCEPT !.recent = FALSE]} : info' = [info EXCEPT ![a] = s]
      BY <1>1, <2>2 DEF Disconnect, Kick, RequestLogin, OtherPacket
    <3>2. \A b \in Account : info'[b].asks = info[b].asks /\ info'[b].told = info[b].told
      <4>1. PICK s : /\ info' = [info EXCEPT ![a] = s]
                     /\ s.asks = info[a].asks /\ s.told = info[a].told
        <5>1. info[a] \in Sessions
          BY <1>1
        <5> DEFINE u == [info[a] EXCEPT !.up = FALSE]
                   k == [info[a] EXCEPT !.kick = TRUE]
                   c == [info[a] EXCEPT !.recent = FALSE]
        <5>2. /\ u.asks = info[a].asks /\ u.told = info[a].told
              /\ k.asks = info[a].asks /\ k.told = info[a].told
              /\ c.asks = info[a].asks /\ c.told = info[a].told
          BY <5>1, KeptParts DEF Kept
        <5>3. \E s \in {u, k, c} : info' = [info EXCEPT ![a] = s]
          BY <3>1
        <5> HIDE DEF u, k, c
        <5> QED
          BY <5>2, <5>3
      <4> QED
        BY <1>1, <4>1
    <3> QED
      BY <1>3, <2>1, <3>2
  <2>3. CASE Reconnect(a)
    <3> DEFINE q == [info[a] EXCEPT !.recent = FALSE, !.kick = FALSE, !.state = "online"]
    <3>1. info' = [info EXCEPT ![a] = q]
      BY <1>1, <2>3 DEF Reconnect
    <3>3. q.asks = info[a].asks /\ q.told = info[a].told
      BY <1>1 DEF Sessions
    <3> HIDE DEF q
    <3>2. \A b \in Account : info'[b].asks = info[b].asks /\ info'[b].told = info[b].told
      BY <1>1, <3>1, <3>3
    <3> QED
      BY <1>3, <2>1, <3>2
  <2>4. CASE LoginCallback(a)
    <3> DEFINE w == IF loading[a]["former"] > 0 THEN "former" ELSE "own"
               q(failed) == [info[a] EXCEPT !.player = w,
                                            !.state = IF info[a].up THEN "online" ELSE @,
                                            !.kick = @ \/ failed]
    <3>1. info' = info \/ \E failed \in BOOLEAN : info' = [info EXCEPT ![a] = q(failed)]
      BY <1>1, <2>4 DEF LoginCallback
    <3>3. \A failed \in BOOLEAN : q(failed).asks = info[a].asks /\ q(failed).told = info[a].told
      BY <1>1 DEF Sessions
    <3> HIDE DEF q
    <3>2. \A b \in Account : info'[b].asks = info[b].asks /\ info'[b].told = info[b].told
      BY <1>1, <3>1, <3>3
    <3> QED
      BY <1>3, <2>1, <3>2
  <2> QED
    BY <1>7, <2>2, <2>3, <2>4
<1>8. ASSUME NEW v \in Limits, SetPlayerLimit(v)
      PROVE  PositionTold'
  <2>1. \A a \in Account : info'[a] \in {info[a], [info[a] EXCEPT !.kick = TRUE]}
    BY <1>8 DEF SetPlayerLimit
  <2>2. \A a \in Account : info'[a].asks = info[a].asks /\ info'[a].told = info[a].told
    BY <1>1, <2>1 DEF Sessions
  <2> QED
    BY <1>3, <1>8, <2>2 DEF SetPlayerLimit
<1>9. CASE Stop
  BY <1>9 DEF Stop, PositionTold
<1>10. CASE UNCHANGED <<queue, info>>
  BY <1>3, <1>10
<1> QED
  BY <1>4, <1>5, <1>6, <1>7, <1>8, <1>9, <1>10
  DEF Next, vars, BeginUpdate, AddsDone, UpdatesDone, Stopped

\* Every client that waits was told its place last, unless it is just coming back
\* on another connection (PositionTold).
THEOREM PositionIsTold == Spec => []PositionTold
<1> QED
  BY ToldInit, ToldStep, QueueIsSound, PTL DEF Spec

-----------------------------------------------------------------------------
(* Who enters, and when.                                                   *)

InTurn(a) ==
    /\ Cardinality(sessions') - Len(queue') <= limit
    /\ a \in Queued \/ raised \/ queue = <<>>
    /\ a \in Queued => a = queue[1] \/ queue[1] \notin sessions'

LEMMA TurnStep ==
    ASSUME QueueSound, QueueSound', WaitOnlyWhenFull, [Next]_vars,
           NEW a \in Account, ~stopping', limit > 0, Level[a] = 0, Enters(a)
    PROVE  InTurn(a)
<1>1. /\ limit \in Int
      /\ a \in sessions' /\ a \notin Queued' /\ (a \notin sessions \/ a \in Queued)
      /\ Queued \subseteq sessions
  BY DEF QueueSound, TypeOK, Enters
<1>2. CASE AddSession
  <2>1. a = Head(adding) /\ a \notin sessions
    BY <1>1, <1>2 DEF AddSession, Queued, ToSet
  <2>2. /\ sessions' = sessions \cup {a}
        /\ queue' = IF MustWait(a) THEN Append(queue, a) ELSE queue
    BY <1>2, <2>1 DEF AddSession
  <2>3. ~MustWait(a)
    <3>1. SUFFICES ASSUME MustWait(a) PROVE a \in Queued'
      BY <1>1
    <3>2. queue \in Seq(Account) /\ queue' = Append(queue, a)
      BY <2>2, <3>1 DEF QueueSound, TypeOK
    <3> QED
      BY <3>2, Appended DEF Queued
  <2>4. Cardinality(sessions) < limit /\ queue' = queue
    BY <1>1, <2>2, <2>3, Counts DEF MustWait
  <2>5. Cardinality(sessions') = Cardinality(sessions) + 1
    BY <2>1, <2>2, CountAdded
  <2>6. raised \/ queue = <<>>
    BY <1>1, <2>4, Counts DEF WaitOnlyWhenFull, GetActiveSessionCount
  <2> QED
    BY <1>1, <2>1, <2>4, <2>5, <2>6, Counts DEF InTurn
<1>3. ASSUME NEW b \in Account, UpdateSession(b)
      PROVE  InTurn(a)
  <2>1. b \in sessions
    BY <1>3, UpdateParts
  <2>2. ASSUME NEW e, Parts(b, e)
        PROVE  a \in e /\ a \in Queued /\ a # b /\ b \notin sessions'
    BY <1>1, <2>2 DEF Parts
  <2>3. ASSUME NEW f \in Queued \ {b}, Parts(b, {f}), HasRoom(b \in Queued),
               f = queue[1] \/ queue[1] = b
        PROVE  InTurn(a)
    <3>1. a = f /\ a \in Queued /\ b \notin sessions'
      BY <2>2, <2>3
    <3>2. GetActiveSessionCount' = GetActiveSessionCount - (IF b \in Queued THEN 0 ELSE 1) + 1
      BY <2>1, <2>3, CountLeft
    <3>3. GetActiveSessionCount \in Int /\ GetActiveSessionCount' = Cardinality(sessions') - Len(queue')
      BY Counts DEF GetActiveSessionCount
    <3>4. Cardinality(sessions') - Len(queue') <= limit
      BY <1>1, <2>3, <3>2, <3>3 DEF HasRoom
    <3> QED
      BY <2>3, <3>1, <3>4 DEF InTurn
  <2>4. ASSUME NEW r \in Sessions, Stays(b, r)
        PROVE  FALSE
    BY <1>1, <2>4 DEF Stays, Stay, Queued
  <2>5. ASSUME Parts(b, {})
        PROVE  FALSE
    BY <2>2, <2>5
  <2> QED
    BY <1>3, <2>1, <2>3, <2>4, <2>5, UpdateParts, LeaveParts
<1>4. CASE Stop
  BY <1>4 DEF Stop
<1>5. CASE UNCHANGED <<sessions, queue>>
  BY <1>1, <1>5 DEF Queued
<1> QED
  BY <1>2, <1>3, <1>4, <1>5
  DEF Next, vars, Authenticate, Disconnect, BeginUpdate, AddsDone, UpdatesDone, RequestLogin,
      Reconnect, OtherPacket, AuthedPacket, LoginCallback, Kick, SetPlayerLimit, Stopped

\* A player enters only within the limit, who waited the longest first, and past
\* the queue only when the limit was raised (AdmitsInTurn).
THEOREM AdmittedInTurn == Spec => AdmitsInTurn
<1>1. QueueSound /\ QueueSound' /\ WaitOnlyWhenFull /\ [Next]_vars
        => [\A a \in Account : ~stopping' /\ limit > 0 /\ Level[a] = 0 /\ Enters(a) =>
              /\ Cardinality(sessions') - Len(queue') <= limit
              /\ a \in Queued \/ raised \/ queue = <<>>
              /\ a \in Queued => a = queue[1] \/ queue[1] \notin sessions']_vars
  BY TurnStep DEF InTurn
<1> QED
  BY <1>1, QueueIsSound, WaitsOnlyWhenFull, PTL DEF Spec, AdmitsInTurn
==============================================================================
