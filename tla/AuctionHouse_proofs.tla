------------------------- MODULE AuctionHouse_proofs --------------------------
(***************************************************************************)
(* Proofs about AuctionHouse and the mail beneath it, for any players,     *)
(* items, prices and bounds.                                               *)
(***************************************************************************)
EXTENDS AuctionHouse, FiniteSetTheorems, SequenceTheorems, WellFoundedInduction, TLAPS

-----------------------------------------------------------------------------
(* Sums.  An element of every family of finite sets has no smaller one in  *)
(* it, which is all the induction that sums need.                          *)

LEMMA Smallest ==
    ASSUME NEW S, IsFiniteSet(S), NEW T, T \subseteq SUBSET S, T # {}
    PROVE  \E x \in T : \A y \in T : y \subseteq x => y = x
<1>1. T \subseteq FiniteSubsetsOf(S)
  BY FS_Subset DEF FiniteSubsetsOf
<1>2. PICK x \in T : \A y \in T : <<y, x>> \notin StrictSubsetOrdering(S)
  BY <1>1, FS_StrictSubsetOrderingWellFounded, WFMin
<1>3. ASSUME NEW y \in T, y \subseteq x, y # x
      PROVE  FALSE
  BY <1>2, <1>3 DEF StrictSubsetOrdering
<1> QED
  BY <1>3

\* The recursive function of MapThenFoldSet.
Some(s) == CHOOSE x \in s : TRUE
Adds(f, S, total) ==
    total = [s \in SUBSET S |-> IF s = {} THEN 0 ELSE f[Some(s)] + total[s \ {Some(s)}]]

LEMMA SumUnfold ==
    ASSUME NEW f, NEW S
    PROVE  SumFunctionOnSet(f, S) = (CHOOSE total : Adds(f, S, total))[S]
BY DEF SumFunctionOnSet, FoldFunctionOnSet, MapThenFoldSet, Adds, Some

LEMMA AddsOnce ==
    ASSUME NEW f, NEW S, IsFiniteSet(S), NEW g, Adds(f, S, g),
           NEW U \in SUBSET S, NEW h, Adds(f, U, h)
    PROVE  \A s \in SUBSET U : g[s] = h[s]
<1> DEFINE T == {s \in SUBSET U : g[s] # h[s]}
<1> SUFFICES ASSUME T # {} PROVE FALSE
  OBVIOUS
<1>1. IsFiniteSet(U) /\ T \subseteq SUBSET U
  BY FS_Subset
<1> HIDE DEF T
<1>2. PICK x \in T : \A y \in T : y \subseteq x => y = x
  BY <1>1, Smallest
<1>3. x \in SUBSET U /\ x \in SUBSET S /\ g[x] # h[x]
  BY DEF T
<1>4. /\ g[x] = IF x = {} THEN 0 ELSE f[Some(x)] + g[x \ {Some(x)}]
      /\ h[x] = IF x = {} THEN 0 ELSE f[Some(x)] + h[x \ {Some(x)}]
  BY <1>3 DEF Adds
<1>5. x # {} /\ Some(x) \in x
  BY <1>3, <1>4 DEF Some
<1>6. x \ {Some(x)} \in SUBSET U /\ x \ {Some(x)} \subseteq x /\ x \ {Some(x)} # x
  BY <1>3, <1>5
<1>7. g[x \ {Some(x)}] = h[x \ {Some(x)}]
  BY <1>2, <1>6 DEF T
<1> QED
  BY <1>3, <1>4, <1>5, <1>7

LEMMA AddsExists ==
    ASSUME NEW f, NEW S, IsFiniteSet(S)
    PROVE  \E total : Adds(f, S, total)
<1> DEFINE T == {s \in SUBSET S : ~\E total : Adds(f, s, total)}
<1> SUFFICES ASSUME T # {} PROVE FALSE
  OBVIOUS
<1>1. T \subseteq SUBSET S
  OBVIOUS
<1> HIDE DEF T
<1>2. PICK x \in T : \A y \in T : y \subseteq x => y = x
  BY <1>1, Smallest
<1>3. x \in SUBSET S /\ ~\E total : Adds(f, x, total)
  BY DEF T
<1> DEFINE Total(s) == (CHOOSE total : Adds(f, s, total))[s]
           total0 == [s \in SUBSET x |-> IF s = {} THEN 0
                                         ELSE f[Some(s)] + Total(s \ {Some(s)})]
<1>4. ASSUME NEW s \in SUBSET x, s # {}
      PROVE  /\ Some(s) \in s
             /\ s \ {Some(s)} \in SUBSET x /\ s \ {Some(s)} # x
  BY <1>4 DEF Some
<1>5. ASSUME NEW s \in SUBSET x, s # x
      PROVE  Adds(f, s, CHOOSE total : Adds(f, s, total))
  <2>1. s \notin T
    BY <1>2, <1>5
  <2> QED
    BY <1>3, <2>1 DEF T
<1>6. ASSUME NEW u \in SUBSET x, u # x
      PROVE  total0[u] = Total(u)
  <2>1. PICK g : g = CHOOSE total : Adds(f, u, total)
    OBVIOUS
  <2>2. Adds(f, u, g)
    BY <1>5, <1>6, <2>1
  <2>3. CASE u = {}
    BY <2>1, <2>2, <2>3 DEF Adds
  <2>4. CASE u # {}
    <3>1. PICK v : v = u \ {Some(u)}
      OBVIOUS
    <3>2. v \in SUBSET u /\ v \in SUBSET x /\ v # x
      BY <1>4, <2>4, <3>1
    <3>3. PICK h : h = CHOOSE total : Adds(f, v, total)
      OBVIOUS
    <3>4. Adds(f, v, h)
      BY <1>5, <3>2, <3>3
    <3>5. IsFiniteSet(u)
      BY <1>3, FS_Subset
    <3>6. g[v] = h[v]
      BY <2>2, <3>2, <3>4, <3>5, AddsOnce
    <3>7. g[u] = f[Some(u)] + g[v]
      BY <2>2, <2>4, <3>1 DEF Adds
    <3>8. total0[u] = f[Some(u)] + h[v]
      BY <2>4, <3>1, <3>3
    <3> QED
      BY <2>1, <3>6, <3>7, <3>8
  <2> QED
    BY <2>3, <2>4
<1>7. ASSUME NEW s \in SUBSET x
      PROVE  total0[s] = IF s = {} THEN 0 ELSE f[Some(s)] + total0[s \ {Some(s)}]
  <2>1. CASE s = {}
    BY <2>1
  <2>2. CASE s # {}
    <3>1. total0[s \ {Some(s)}] = Total(s \ {Some(s)})
      BY <1>4, <1>6, <2>2
    <3>2. total0[s] = f[Some(s)] + Total(s \ {Some(s)})
      BY <2>2
    <3> QED
      BY <2>2, <3>1, <3>2
  <2> QED
    BY <2>1, <2>2
<1>8. total0 = [s \in SUBSET x |-> total0[s]]
  OBVIOUS
<1> HIDE DEF total0
<1>9. Adds(f, x, total0)
  BY <1>7, <1>8 DEF Adds
<1> QED
  BY <1>3, <1>9

LEMMA SumSteps ==
    ASSUME NEW f, NEW S, IsFiniteSet(S)
    PROVE  /\ S = {} => SumFunctionOnSet(f, S) = 0
           /\ S # {} => /\ Some(S) \in S
                        /\ SumFunctionOnSet(f, S)
                             = f[Some(S)] + SumFunctionOnSet(f, S \ {Some(S)})
<1>1. PICK g : g = CHOOSE total : Adds(f, S, total)
  OBVIOUS
<1>2. Adds(f, S, g) /\ SumFunctionOnSet(f, S) = g[S]
  BY <1>1, AddsExists, SumUnfold
<1>3. g[S] = IF S = {} THEN 0 ELSE f[Some(S)] + g[S \ {Some(S)}]
  BY <1>2 DEF Adds
<1>4. ASSUME S # {}
      PROVE  /\ Some(S) \in S
             /\ SumFunctionOnSet(f, S) = f[Some(S)] + SumFunctionOnSet(f, S \ {Some(S)})
  <2>1. Some(S) \in S
    BY <1>4 DEF Some
  <2>2. PICK U : U = S \ {Some(S)}
    OBVIOUS
  <2>3. U \in SUBSET S /\ IsFiniteSet(U)
    BY <2>2, FS_Subset
  <2>4. PICK h : h = CHOOSE total : Adds(f, U, total)
    OBVIOUS
  <2>5. Adds(f, U, h) /\ SumFunctionOnSet(f, U) = h[U]
    BY <2>3, <2>4, AddsExists, SumUnfold
  <2>6. g[U] = h[U]
    BY <1>2, <2>3, <2>5, AddsOnce
  <2> QED
    BY <1>2, <1>3, <1>4, <2>1, <2>2, <2>5, <2>6
<1> QED
  BY <1>2, <1>3, <1>4

LEMMA SumType ==
    ASSUME NEW f, NEW S, IsFiniteSet(S), \A x \in S : f[x] \in Nat
    PROVE  SumFunctionOnSet(f, S) \in Nat
<1> DEFINE T == {s \in SUBSET S : SumFunctionOnSet(f, s) \notin Nat}
<1>1. T \subseteq SUBSET S
  OBVIOUS
<1>2. ASSUME T # {} PROVE FALSE
  <2> HIDE DEF T
  <2>1. PICK x \in T : \A y \in T : y \subseteq x => y = x
    BY <1>1, <1>2, Smallest
  <2>2. x \in SUBSET S /\ SumFunctionOnSet(f, x) \notin Nat /\ IsFiniteSet(x)
    BY <2>1, FS_Subset DEF T
  <2>3. x # {} /\ Some(x) \in x
        /\ SumFunctionOnSet(f, x) = f[Some(x)] + SumFunctionOnSet(f, x \ {Some(x)})
    BY <2>2, SumSteps
  <2>4. x \ {Some(x)} \in SUBSET S /\ x \ {Some(x)} \notin T
    BY <2>1, <2>2, <2>3
  <2>5. SumFunctionOnSet(f, x \ {Some(x)}) \in Nat /\ f[Some(x)] \in Nat
    BY <2>2, <2>3, <2>4 DEF T
  <2> QED
    BY <2>2, <2>3, <2>5
<1>3. S \in SUBSET S
  OBVIOUS
<1> QED
  BY <1>2, <1>3

LEMMA SumSame ==
    ASSUME NEW f, NEW g, NEW S, IsFiniteSet(S), \A x \in S : f[x] = g[x]
    PROVE  SumFunctionOnSet(f, S) = SumFunctionOnSet(g, S)
<1> DEFINE T == {s \in SUBSET S : SumFunctionOnSet(f, s) # SumFunctionOnSet(g, s)}
<1>1. T \subseteq SUBSET S
  OBVIOUS
<1>2. ASSUME T # {} PROVE FALSE
  <2> HIDE DEF T
  <2>1. PICK x \in T : \A y \in T : y \subseteq x => y = x
    BY <1>1, <1>2, Smallest
  <2>2. x \in SUBSET S /\ SumFunctionOnSet(f, x) # SumFunctionOnSet(g, x) /\ IsFiniteSet(x)
    BY <2>1, FS_Subset DEF T
  <2>3. x # {} /\ Some(x) \in x
        /\ SumFunctionOnSet(f, x) = f[Some(x)] + SumFunctionOnSet(f, x \ {Some(x)})
        /\ SumFunctionOnSet(g, x) = g[Some(x)] + SumFunctionOnSet(g, x \ {Some(x)})
    BY <2>2, SumSteps
  <2>4. x \ {Some(x)} \in SUBSET S /\ x \ {Some(x)} \notin T
    BY <2>1, <2>2, <2>3
  <2>5. SumFunctionOnSet(f, x \ {Some(x)}) = SumFunctionOnSet(g, x \ {Some(x)})
    BY <2>4 DEF T
  <2> QED
    BY <2>2, <2>3, <2>5
<1>3. S \in SUBSET S
  OBVIOUS
<1> QED
  BY <1>2, <1>3

\* The order does not matter: any element may be taken out first.
LEMMA SumWithout ==
    ASSUME NEW f, NEW S, IsFiniteSet(S), \A x \in S : f[x] \in Nat, NEW e \in S
    PROVE  SumFunctionOnSet(f, S) = f[e] + SumFunctionOnSet(f, S \ {e})
<1> DEFINE T == {s \in SUBSET S : \E d \in s :
                    SumFunctionOnSet(f, s) # f[d] + SumFunctionOnSet(f, s \ {d})}
<1>1. T \subseteq SUBSET S
  OBVIOUS
<1>2. ASSUME T # {} PROVE FALSE
  <2> HIDE DEF T
  <2>1. PICK x \in T : \A y \in T : y \subseteq x => y = x
    BY <1>1, <1>2, Smallest
  <2>2. x \in SUBSET S /\ IsFiniteSet(x)
    BY <2>1, FS_Subset DEF T
  <2>3. PICK d \in x : SumFunctionOnSet(f, x) # f[d] + SumFunctionOnSet(f, x \ {d})
    BY <2>1 DEF T
  <2>4. PICK c : c = Some(x)
    OBVIOUS
  <2>5. c \in x /\ SumFunctionOnSet(f, x) = f[c] + SumFunctionOnSet(f, x \ {c})
    BY <2>2, <2>3, <2>4, SumSteps
  <2>6. c # d
    BY <2>3, <2>5
  <2>7. PICK y, z, w : y = x \ {c} /\ z = x \ {d} /\ w = x \ {c, d}
    OBVIOUS
  <2>8. /\ y \in SUBSET S /\ y \notin T /\ d \in y /\ y \ {d} = w
        /\ z \in SUBSET S /\ z \notin T /\ c \in z /\ z \ {c} = w
    BY <2>1, <2>2, <2>3, <2>5, <2>6, <2>7
  <2>9. /\ SumFunctionOnSet(f, y) = f[d] + SumFunctionOnSet(f, w)
        /\ SumFunctionOnSet(f, z) = f[c] + SumFunctionOnSet(f, w)
    BY <2>8 DEF T
  <2>10. w \in SUBSET S /\ IsFiniteSet(w)
    BY <2>2, <2>7, FS_Subset
  <2>11. SumFunctionOnSet(f, w) \in Nat
    BY <2>10, SumType
  <2>12. f[c] \in Nat /\ f[d] \in Nat
    BY <2>2, <2>3, <2>5
  <2> QED
    BY <2>3, <2>5, <2>7, <2>9, <2>11, <2>12
<1>3. S \in SUBSET S
  OBVIOUS
<1> QED
  BY <1>2, <1>3

LEMMA SumSplit ==
    ASSUME NEW f, NEW S, IsFiniteSet(S), \A x \in S : f[x] \in Nat, NEW U \in SUBSET S
    PROVE  SumFunctionOnSet(f, S) = SumFunctionOnSet(f, U) + SumFunctionOnSet(f, S \ U)
<1> DEFINE T == {s \in SUBSET U :
                    SumFunctionOnSet(f, s \cup (S \ U))
                        # SumFunctionOnSet(f, s) + SumFunctionOnSet(f, S \ U)}
<1>0. IsFiniteSet(U) /\ T \subseteq SUBSET U
  BY FS_Subset
<1>2. ASSUME T # {} PROVE FALSE
  <2> HIDE DEF T
  <2>1. PICK x \in T : \A y \in T : y \subseteq x => y = x
    BY <1>0, <1>2, Smallest
  <2>2. /\ x \in SUBSET U /\ IsFiniteSet(x)
        /\ SumFunctionOnSet(f, x \cup (S \ U))
             # SumFunctionOnSet(f, x) + SumFunctionOnSet(f, S \ U)
    BY <1>0, <2>1, FS_Subset DEF T
  <2>3. IsFiniteSet(S \ U) /\ IsFiniteSet(x \cup (S \ U))
    BY <2>2, FS_Subset
  <2>4. SumFunctionOnSet(f, S \ U) \in Nat
    BY <2>3, SumType
  <2>5. CASE x = {}
    <3>1. SumFunctionOnSet(f, x) = 0
      BY <2>2, <2>5, SumSteps
    <3>2. x \cup (S \ U) = S \ U
      BY <2>5
    <3>3. SumFunctionOnSet(f, x \cup (S \ U)) = SumFunctionOnSet(f, S \ U)
      BY <3>2
    <3> QED
      BY <2>2, <2>4, <3>1, <3>3
  <2>6. CASE x # {}
    <3>1. PICK d : d \in x
      BY <2>6
    <3>2. PICK y, v, w : y = x \ {d} /\ v = x \cup (S \ U) /\ w = y \cup (S \ U)
      OBVIOUS
    <3>3. y \in SUBSET U /\ y \notin T /\ v \ {d} = w /\ d \in v /\ v \subseteq S
      BY <2>1, <2>2, <3>1, <3>2
    <3>4. SumFunctionOnSet(f, w) = SumFunctionOnSet(f, y) + SumFunctionOnSet(f, S \ U)
      BY <3>2, <3>3 DEF T
    <3>5. SumFunctionOnSet(f, v) = f[d] + SumFunctionOnSet(f, w)
      BY <2>3, <3>2, <3>3, SumWithout
    <3>6. SumFunctionOnSet(f, x) = f[d] + SumFunctionOnSet(f, y)
      BY <2>2, <3>1, <3>2, SumWithout
    <3>7. IsFiniteSet(y)
      BY <2>2, <3>2, FS_Subset
    <3>8. SumFunctionOnSet(f, y) \in Nat /\ f[d] \in Nat
      BY <2>2, <3>1, <3>2, <3>7, SumType
    <3> QED
      BY <2>2, <2>4, <3>2, <3>4, <3>5, <3>6, <3>8
  <2> QED
    BY <2>5, <2>6
<1>3. SumFunctionOnSet(f, U \cup (S \ U)) = SumFunctionOnSet(f, U) + SumFunctionOnSet(f, S \ U)
  BY <1>2
<1>4. U \cup (S \ U) = S
  OBVIOUS
<1> QED
  BY <1>3, <1>4

-----------------------------------------------------------------------------
(* Money in purses, in mails and in auctions.                              *)

LEMMA Summed ==
    ASSUME NEW S, IsFiniteSet(S), NEW f, DOMAIN f = S
    PROVE  SumFunction(f) = SumFunctionOnSet(f, S)
BY DEF SumFunction

LEMMA MoneyMoves ==
    ASSUME NEW S \in SUBSET Mails, IsFiniteSet(S)
    PROVE  /\ Money(S) \in Nat
           /\ Money({}) = 0
           /\ \A m \in Mails \ S : Money(S \cup {m}) = Money(S) + m.money
           /\ \A U \in SUBSET S : Money(S) = Money(U) + Money(S \ U)
<1>1. ASSUME NEW T \in SUBSET Mails, IsFiniteSet(T), NEW U \in SUBSET T
      PROVE  Money(U) = SumFunctionOnSet([m \in T |-> m.money], U)
  <2>1. IsFiniteSet(U)
    BY <1>1, FS_Subset
  <2>2. Money(U) = SumFunctionOnSet([m \in U |-> m.money], U)
    BY <2>1, Summed DEF Money
  <2>3. \A m \in U : [x \in U |-> x.money][m] = [x \in T |-> x.money][m]
    BY <1>1
  <2> QED
    BY <2>1, <2>2, <2>3, SumSame
<1>2. \A m \in Mails : m.money \in Nat
  BY DEF Mails
<1>3. Money(S) \in Nat
  <2>1. \A m \in S : [x \in S |-> x.money][m] \in Nat
    BY <1>2
  <2> QED
    BY <1>1, <2>1, SumType
<1>4. Money({}) = 0
  <2>1. IsFiniteSet({}) /\ {} \in SUBSET Mails
    BY FS_EmptySet
  <2>2. SumFunctionOnSet([m \in {} |-> m.money], {}) = 0
    BY <2>1, SumSteps
  <2> QED
    BY <1>1, <2>1, <2>2
<1>5. ASSUME NEW m \in Mails \ S
      PROVE  Money(S \cup {m}) = Money(S) + m.money
  <2>1. PICK T : T = S \cup {m}
    OBVIOUS
  <2>2. T \in SUBSET Mails /\ IsFiniteSet(T) /\ m \in T /\ T \ {m} = S
    BY <1>5, <2>1, FS_AddElement
  <2>3. PICK f : f = [x \in T |-> x.money]
    OBVIOUS
  <2>4. \A x \in T : f[x] \in Nat
    BY <1>2, <2>2, <2>3
  <2>5. SumFunctionOnSet(f, T) = f[m] + SumFunctionOnSet(f, T \ {m})
    BY <2>2, <2>4, SumWithout
  <2>6. Money(T) = SumFunctionOnSet(f, T) /\ Money(S) = SumFunctionOnSet(f, S)
    <3>1. S \in SUBSET T /\ T \in SUBSET T
      BY <2>2
    <3> QED
      BY <1>1, <2>2, <2>3, <3>1
  <2>7. f[m] = m.money /\ m.money \in Nat
    BY <1>2, <2>2, <2>3
  <2>8. SumFunctionOnSet(f, T \ {m}) = SumFunctionOnSet(f, S)
    BY <2>2
  <2>9. Money(T) = Money(S) + m.money
    BY <1>3, <2>5, <2>6, <2>7, <2>8
  <2> QED
    BY <2>1, <2>9
<1>6. ASSUME NEW U \in SUBSET S
      PROVE  Money(S) = Money(U) + Money(S \ U)
  <2>1. PICK f : f = [x \in S |-> x.money]
    OBVIOUS
  <2>2. \A x \in S : f[x] \in Nat
    BY <1>2, <2>1
  <2>3. SumFunctionOnSet(f, S) = SumFunctionOnSet(f, U) + SumFunctionOnSet(f, S \ U)
    BY <2>2, SumSplit
  <2>4. S \in SUBSET S /\ S \ U \in SUBSET S
    OBVIOUS
  <2>5. /\ Money(S) = SumFunctionOnSet(f, S) /\ Money(U) = SumFunctionOnSet(f, U)
        /\ Money(S \ U) = SumFunctionOnSet(f, S \ U)
    BY <1>1, <2>1, <2>4
  <2> QED
    BY <2>3, <2>5
<1> QED
  BY <1>3, <1>4, <1>5, <1>6

LEMMA StakesMove ==
    ASSUME NEW S \in SUBSET Auctions, IsFiniteSet(S)
    PROVE  /\ Stakes(S) \in Nat
           /\ Stakes({}) = 0
           /\ \A a \in Auctions \ S : Stakes(S \cup {a}) = Stakes(S) + a.bid + Deposit
<1>1. ASSUME NEW T \in SUBSET Auctions, IsFiniteSet(T), NEW U \in SUBSET T
      PROVE  Stakes(U) = SumFunctionOnSet([a \in T |-> a.bid + Deposit], U)
  <2>1. IsFiniteSet(U)
    BY <1>1, FS_Subset
  <2>2. Stakes(U) = SumFunctionOnSet([a \in U |-> a.bid + Deposit], U)
    BY <2>1, Summed DEF Stakes
  <2>3. \A a \in U : [x \in U |-> x.bid + Deposit][a] = [x \in T |-> x.bid + Deposit][a]
    BY <1>1
  <2> QED
    BY <2>1, <2>2, <2>3, SumSame
<1>2. \A a \in Auctions : a.bid + Deposit \in Nat /\ a.bid \in Nat /\ Deposit \in Nat
  BY AuctionAssumption DEF Auctions
<1>3. Stakes(S) \in Nat
  <2>1. \A a \in S : [x \in S |-> x.bid + Deposit][a] \in Nat
    BY <1>2
  <2> QED
    BY <1>1, <2>1, SumType
<1>4. Stakes({}) = 0
  <2>1. IsFiniteSet({}) /\ {} \in SUBSET Auctions
    BY FS_EmptySet
  <2>2. SumFunctionOnSet([a \in {} |-> a.bid + Deposit], {}) = 0
    BY <2>1, SumSteps
  <2> QED
    BY <1>1, <2>1, <2>2
<1>5. ASSUME NEW a \in Auctions \ S
      PROVE  Stakes(S \cup {a}) = Stakes(S) + a.bid + Deposit
  <2>1. PICK T : T = S \cup {a}
    OBVIOUS
  <2>2. T \in SUBSET Auctions /\ IsFiniteSet(T) /\ a \in T /\ T \ {a} = S
    BY <1>5, <2>1, FS_AddElement
  <2>3. PICK f : f = [x \in T |-> x.bid + Deposit]
    OBVIOUS
  <2>4. \A x \in T : f[x] \in Nat
    BY <1>2, <2>2, <2>3
  <2>5. SumFunctionOnSet(f, T) = f[a] + SumFunctionOnSet(f, T \ {a})
    BY <2>2, <2>4, SumWithout
  <2>6. Stakes(T) = SumFunctionOnSet(f, T) /\ Stakes(S) = SumFunctionOnSet(f, S)
    <3>1. S \in SUBSET T /\ T \in SUBSET T
      BY <2>2
    <3> QED
      BY <1>1, <2>2, <2>3, <3>1
  <2>7. f[a] = a.bid + Deposit
    BY <2>2, <2>3
  <2>8. SumFunctionOnSet(f, T \ {a}) = SumFunctionOnSet(f, S)
    BY <2>2
  <2>9. Stakes(T) = Stakes(S) + a.bid + Deposit
    BY <1>2, <1>3, <2>5, <2>6, <2>7, <2>8
  <2> QED
    BY <2>1, <2>9
<1> QED
  BY <1>3, <1>4, <1>5

LEMMA GoldMoves ==
    ASSUME NEW g \in [Player -> 0..MaxGold]
    PROVE  /\ SumFunction(g) \in Nat
           /\ \A p \in Player, v \in 0..MaxGold :
                SumFunction([g EXCEPT ![p] = v]) = SumFunction(g) - g[p] + v
<1>1. IsFiniteSet(Player) /\ MaxGold \in Nat
  BY MailAssumption, GoodsAssumption
<1>2. ASSUME NEW h \in [Player -> 0..MaxGold]
      PROVE  /\ SumFunction(h) = SumFunctionOnSet(h, Player)
             /\ \A x \in Player : h[x] \in Nat
             /\ SumFunction(h) \in Nat
  <2>1. DOMAIN h = Player /\ \A x \in Player : h[x] \in Nat
    BY <1>1
  <2>2. SumFunction(h) = SumFunctionOnSet(h, Player)
    BY <1>1, <2>1, Summed
  <2> QED
    BY <1>1, <2>1, <2>2, SumType
<1>3. ASSUME NEW p \in Player, NEW v \in 0..MaxGold
      PROVE  SumFunction([g EXCEPT ![p] = v]) = SumFunction(g) - g[p] + v
  <2>1. PICK h : h = [g EXCEPT ![p] = v]
    OBVIOUS
  <2>2. h \in [Player -> 0..MaxGold] /\ h[p] = v /\ \A x \in Player \ {p} : h[x] = g[x]
    BY <2>1
  <2>3. IsFiniteSet(Player \ {p})
    BY <1>1, FS_RemoveElement
  <2>4. SumFunctionOnSet(h, Player \ {p}) = SumFunctionOnSet(g, Player \ {p})
    BY <2>2, <2>3, SumSame
  <2>5. /\ SumFunctionOnSet(h, Player) = h[p] + SumFunctionOnSet(h, Player \ {p})
        /\ SumFunctionOnSet(g, Player) = g[p] + SumFunctionOnSet(g, Player \ {p})
    BY <1>1, <1>2, <2>2, SumWithout
  <2>6. \A x \in Player \ {p} : g[x] \in Nat
    BY <1>2
  <2>7. SumFunctionOnSet(g, Player \ {p}) \in Nat
    BY <2>3, <2>6, SumType
  <2>8. g[p] \in Nat /\ v \in Nat
    BY <1>1, <1>2
  <2>9. /\ SumFunction(h) = SumFunctionOnSet(h, Player)
        /\ SumFunction(g) = SumFunctionOnSet(g, Player)
    BY <1>2, <2>2
  <2>10. SumFunction(h) = SumFunction(g) - g[p] + v
    BY <2>2, <2>4, <2>5, <2>7, <2>8, <2>9
  <2> QED
    BY <2>1, <2>10
<1> QED
  BY <1>2, <1>3

-----------------------------------------------------------------------------
(* What the operations on the tables do to them.                           *)

\* All but some columns are the same.
Others(d, e) == e.gone = d.gone /\ e.spent = d.spent /\ e.whole = d.whole

LEMMA LostFields ==
    ASSUME NEW d \in Tables, NEW I
    PROVE  LET e == Lost(d, I) IN
           /\ e \in Tables
           /\ e.row = [i \in Item |-> IF i \in I THEN Nobody ELSE d.row[i]]
           /\ e.gold = d.gold /\ e.mails = d.mails /\ e.auctions = d.auctions
           /\ Others(d, e)
BY DEF Lost, Tables, Others

LEMMA InsertedFields ==
    ASSUME NEW d \in Tables, NEW m \in Mails
    PROVE  LET e == Inserted(d, m) IN
           /\ e \in Tables
           /\ e.mails = d.mails \cup {m}
           /\ e.gold = d.gold /\ e.row = d.row /\ e.auctions = d.auctions
           /\ Others(d, e)
BY DEF Inserted, Tables, Others

LEMMA SpentFields ==
    ASSUME NEW d \in Tables, NEW n \in Nat
    PROVE  LET e == Spent(d, n) IN
           /\ e \in Tables
           /\ e.spent = d.spent + n
           /\ e.gold = d.gold /\ e.row = d.row /\ e.mails = d.mails
           /\ e.auctions = d.auctions /\ e.gone = d.gone /\ e.whole = d.whole
BY DEF Spent, Tables

LEMMA SavedFields ==
    ASSUME NEW d \in Tables, NEW p \in Player, NEW g \in Holdings
    PROVE  LET e == Saved(d, p, g) IN
           /\ e \in Tables
           /\ e.gold = [d.gold EXCEPT ![p] = g.gold[p]]
           /\ e.row = [i \in Item |-> IF i \in g.bag[p] THEN p ELSE d.row[i]]
           /\ e.mails = d.mails /\ e.auctions = d.auctions
           /\ Others(d, e)
BY DEF Saved, Tables, Holdings, Others

LEMMA PaidFields ==
    ASSUME NEW d \in Tables, NEW p \in Player, NEW v \in 0..MaxGold
    PROVE  LET e == [d EXCEPT !.gold[p] = v] IN
           /\ e \in Tables
           /\ e.gold = [d.gold EXCEPT ![p] = v]
           /\ e.row = d.row /\ e.mails = d.mails /\ e.auctions = d.auctions
           /\ Others(d, e)
BY DEF Tables, Others

LEMMA UpdatedFields ==
    ASSUME NEW d \in Tables, NEW m \in Mails, NEW I
    PROVE  LET e == Updated(d, m, I)
               bare(x) == [x EXCEPT !.items = @ \ I]
               new(x) == [x EXCEPT !.items = @ \ I, !.money = m.money, !.cod = m.cod,
                                   !.mark = m.mark] IN
           /\ e \in Tables
           /\ e.mails = {IF x.id # m.id THEN bare(x) ELSE new(x) : x \in d.mails}
           /\ \A x \in Mails : bare(x) \in Mails /\ new(x) \in Mails
           /\ e.gold = d.gold /\ e.row = d.row /\ e.auctions = d.auctions
           /\ Others(d, e)
<1> DEFINE new(x) == [x EXCEPT !.items = @ \ I, !.money = m.money, !.cod = m.cod,
                               !.mark = m.mark]
           bare(x) == [x EXCEPT !.items = @ \ I]
           U == {IF x.id # m.id THEN bare(x) ELSE new(x) : x \in d.mails}
<1>1. \A x \in Mails : bare(x) \in Mails /\ new(x) \in Mails
  BY DEF Mails
<1>2. d.mails \subseteq Mails
  BY DEF Tables
<1>3. U \in SUBSET Mails
  <2> HIDE DEF new, bare
  <2> QED
    BY <1>1, <1>2
<1>4. Updated(d, m, I) = [d EXCEPT !.mails = U]
  BY DEF Updated
<1> HIDE DEF U, new, bare
<1>5. /\ [d EXCEPT !.mails = U] \in Tables
      /\ [d EXCEPT !.mails = U].mails = U
      /\ [d EXCEPT !.mails = U].gold = d.gold /\ [d EXCEPT !.mails = U].row = d.row
      /\ [d EXCEPT !.mails = U].auctions = d.auctions
      /\ Others(d, [d EXCEPT !.mails = U])
  BY <1>3 DEF Tables, Others
<1> QED
  BY <1>1, <1>4, <1>5 DEF U, new, bare

LEMMA ErasedFields ==
    ASSUME NEW d \in Tables, IsFiniteSet(d.mails), NEW M \in SUBSET Mails
    PROVE  LET e == Erased(d, M)
               out == {x \in d.mails : x.id \in Ids(M)} IN
           /\ e \in Tables
           /\ e.mails = d.mails \ out
           /\ e.gone = d.gone \cup UNION {m.items : m \in M}
           /\ e.spent = d.spent + Money(out) /\ Money(out) \in Nat
           /\ Money(d.mails) = Money(out) + Money(e.mails)
           /\ e.gold = d.gold /\ e.row = d.row /\ e.auctions = d.auctions
           /\ e.whole = d.whole
<1> DEFINE out == {x \in d.mails : x.id \in Ids(M)}
           left == {x \in d.mails : x.id \notin Ids(M)}
           used == UNION {m.items : m \in M}
<1>1. d.mails \in SUBSET Mails /\ out \in SUBSET d.mails /\ left = d.mails \ out
  BY DEF Tables
<1>2. IsFiniteSet(out)
  BY <1>1, FS_Subset
<1>3. Money(out) \in Nat /\ Money(d.mails) = Money(out) + Money(left)
  BY <1>1, <1>2, MoneyMoves
<1>4. used \in SUBSET Item
  BY DEF Mails
<1>5. Erased(d, M) = [d EXCEPT !.mails = left, !.gone = @ \cup used, !.spent = @ + Money(out)]
  BY DEF Erased
<1> HIDE DEF out, left, used
<1>6. PICK d1 : d1 = [d EXCEPT !.mails = left]
  OBVIOUS
<1>7. PICK d2 : d2 = [d1 EXCEPT !.gone = d.gone \cup used]
  OBVIOUS
<1>8. PICK n : n = d.spent + Money(out)
  OBVIOUS
<1>9. PICK e : e = [d2 EXCEPT !.spent = n]
  OBVIOUS
<1>10. e = Erased(d, M)
  BY <1>5, <1>6, <1>7, <1>8, <1>9, Zenon
<1>11. /\ d1 \in Tables /\ d1.mails = left /\ d1.gone = d.gone /\ d1.spent = d.spent
       /\ d1.gold = d.gold /\ d1.row = d.row /\ d1.auctions = d.auctions
       /\ d1.whole = d.whole
  BY <1>1, <1>6 DEF Tables
<1>12. /\ d2 \in Tables /\ d2.mails = left /\ d2.gone = d.gone \cup used /\ d2.spent = d.spent
       /\ d2.gold = d.gold /\ d2.row = d.row /\ d2.auctions = d.auctions
       /\ d2.whole = d.whole
  <2>1. d.gone \cup used \in SUBSET Item
    BY <1>4 DEF Tables
  <2> QED
    BY <1>7, <1>11, <2>1 DEF Tables
<1>13. /\ e \in Tables /\ e.mails = left /\ e.gone = d.gone \cup used /\ e.spent = n
       /\ e.gold = d.gold /\ e.row = d.row /\ e.auctions = d.auctions
       /\ e.whole = d.whole
  <2>1. n \in Nat
    BY <1>3, <1>8 DEF Tables
  <2> QED
    BY <1>9, <1>12, <2>1 DEF Tables
<1>14. e.mails = d.mails \ out /\ Money(d.mails) = Money(out) + Money(e.mails)
  <2>1. Money(e.mails) = Money(left)
    BY <1>13
  <2> QED
    BY <1>1, <1>3, <1>13, <2>1
<1> QED
  BY <1>3, <1>8, <1>10, <1>13, <1>14, Zenon DEF out, used

LEMMA DroppedFields ==
    ASSUME NEW d \in Tables, NEW n
    PROVE  LET e == [d EXCEPT !.mails = {x \in @ : x.id # n}] IN
           /\ e \in Tables
           /\ e.mails = {x \in d.mails : x.id # n}
           /\ e.gold = d.gold /\ e.row = d.row /\ e.auctions = d.auctions
           /\ Others(d, e)
BY DEF Tables, Others

LEMMA ReversedFields ==
    ASSUME NEW d \in Tables, NEW m \in Mails, m.from # House
    PROVE  LET e == Reversed(d, m)
               new(x) == [x EXCEPT !.from = m.to, !.to = m.from, !.cod = 0, !.mark = "returned"] IN
           /\ e \in Tables
           /\ e.mails = {IF x.id # m.id THEN x ELSE new(x) : x \in d.mails}
           /\ \A x \in Mails : new(x) \in Mails
           /\ e.gold = d.gold /\ e.row = d.row /\ e.auctions = d.auctions
           /\ Others(d, e)
<1> DEFINE new(x) == [x EXCEPT !.from = m.to, !.to = m.from, !.cod = 0, !.mark = "returned"]
           U == {IF x.id # m.id THEN x ELSE new(x) : x \in d.mails}
<1>1. \A x \in Mails : new(x) \in Mails
  BY DEF Mails
<1>2. d.mails \subseteq Mails
  BY DEF Tables
<1>3. U \in SUBSET Mails
  <2> HIDE DEF new
  <2> QED
    BY <1>1, <1>2
<1>4. Reversed(d, m) = [d EXCEPT !.mails = U]
  BY DEF Reversed
<1> HIDE DEF U, new
<1>5. /\ [d EXCEPT !.mails = U] \in Tables
      /\ [d EXCEPT !.mails = U].mails = U
      /\ [d EXCEPT !.mails = U].gold = d.gold /\ [d EXCEPT !.mails = U].row = d.row
      /\ [d EXCEPT !.mails = U].auctions = d.auctions
      /\ Others(d, [d EXCEPT !.mails = U])
  BY <1>3 DEF Tables, Others
<1> QED
  BY <1>1, <1>4, <1>5 DEF U, new

LEMMA AuctionFields ==
    ASSUME NEW d \in Tables, NEW a \in Auctions
    PROVE  /\ LET e == Put(d, a) IN
              /\ e \in Tables /\ e.auctions = d.auctions \cup {a}
              /\ e.gold = d.gold /\ e.row = d.row /\ e.mails = d.mails /\ Others(d, e)
           /\ LET e == Removed(d, a) IN
              /\ e \in Tables /\ e.auctions = {x \in d.auctions : x.id # a.id}
              /\ e.gold = d.gold /\ e.row = d.row /\ e.mails = d.mails /\ Others(d, e)
           /\ LET e == Changed(d, a) IN
              /\ e \in Tables /\ e.auctions = {x \in d.auctions : x.id # a.id} \cup {a}
              /\ e.gold = d.gold /\ e.row = d.row /\ e.mails = d.mails /\ Others(d, e)
<1>1. ASSUME NEW f \in Tables
      PROVE  LET e == Put(f, a) IN
              /\ e \in Tables /\ e.auctions = f.auctions \cup {a}
              /\ e.gold = f.gold /\ e.row = f.row /\ e.mails = f.mails /\ Others(f, e)
  BY DEF Put, Tables, Others
<1>2. LET e == Removed(d, a) IN
              /\ e \in Tables /\ e.auctions = {x \in d.auctions : x.id # a.id}
              /\ e.gold = d.gold /\ e.row = d.row /\ e.mails = d.mails /\ Others(d, e)
  BY DEF Removed, Tables, Others
<1> QED
  BY <1>1, <1>2 DEF Changed, Others

-----------------------------------------------------------------------------
(* Tables whose rows are what the world made: mails and auctions are       *)
(* finite in number and differ in their ids, and an auction is sold or has *)
(* its item.                                                               *)

Fair(a) ==
    /\ a.sold <=> a.item = NoItem
    /\ a.bid = 0 <=> a.bidder = Nobody
    /\ a.buyout # 0 => a.bid <= a.buyout

Sound(d, n, o) ==
    /\ d \in Tables
    /\ IsFiniteSet(d.mails) /\ IsFiniteSet(d.auctions)
    /\ \A x, y \in d.mails : x.id = y.id => x = y
    /\ \A x \in d.mails : x.id <= n
    /\ \A a, b \in d.auctions : a.id = b.id => a = b
    /\ \A a \in d.auctions : a.id <= o /\ Fair(a)

\* Tables with the same auctions, and mails of which as much is known.
LEMMA SoundMails ==
    ASSUME NEW d, NEW n, NEW o, Sound(d, n, o), NEW k,
           NEW e \in Tables, e.auctions = d.auctions,
           IsFiniteSet(e.mails),
           \A x, y \in e.mails : x.id = y.id => x = y,
           \A x \in e.mails : x.id <= k
    PROVE  Sound(e, k, o)
BY DEF Sound

LEMMA SoundSame ==
    ASSUME NEW d, NEW n, NEW o, Sound(d, n, o), NEW e \in Tables,
           e.auctions = d.auctions, e.mails = d.mails
    PROVE  Sound(e, n, o)
BY DEF Sound

LEMMA SoundLess ==
    ASSUME NEW d, NEW n, NEW o, Sound(d, n, o), NEW e \in Tables,
           e.auctions \subseteq d.auctions, e.mails \subseteq d.mails
    PROVE  Sound(e, n, o)
<1>1. IsFiniteSet(e.auctions) /\ IsFiniteSet(e.mails)
  BY FS_Subset DEF Sound
<1> QED
  BY <1>1 DEF Sound

LEMMA SoundLater ==
    ASSUME NEW d, NEW n \in Nat, NEW o \in Nat, Sound(d, n, o),
           NEW k \in Nat, NEW q \in Nat, n <= k, o <= q
    PROVE  Sound(d, k, q)
<1>1. \A x \in d.mails : x.id \in Nat
  BY MailAssumption DEF Sound, Tables, Mails
<1>2. \A a \in d.auctions : a.id \in Nat
  BY AuctionAssumption DEF Sound, Tables, Auctions
<1>3. (\A x \in d.mails : x.id <= k) /\ (\A a \in d.auctions : a.id <= q)
  BY <1>1, <1>2 DEF Sound
<1> QED
  BY <1>3 DEF Sound

LEMMA SoundInserted ==
    ASSUME NEW d, NEW n \in Nat, NEW o, Sound(d, n, o), NEW m \in Mails, NEW k \in Nat,
           n < m.id, m.id <= k
    PROVE  Sound(Inserted(d, m), k, o) /\ m \notin d.mails
<1>1. d \in Tables /\ \A x \in d.mails : x \in Mails
  BY DEF Sound, Tables
<1>2. PICK e : e = Inserted(d, m)
  OBVIOUS
<1>3. e \in Tables /\ e.auctions = d.auctions /\ e.mails = d.mails \cup {m}
  BY <1>1, <1>2, InsertedFields
<1>4. \A x \in Mails : x.id \in Nat
  BY MailAssumption DEF Mails
<1>5. \A x \in d.mails : x.id < m.id /\ x.id <= k
  BY <1>1, <1>4 DEF Sound
<1>6. IsFiniteSet(e.mails)
  BY <1>3, FS_AddElement DEF Sound
<1>7. (\A x, y \in e.mails : x.id = y.id => x = y) /\ \A x \in e.mails : x.id <= k
  <2>1. \A x, y \in d.mails : x.id = y.id => x = y
    BY DEF Sound
  <2>2. \A x \in d.mails : x.id # m.id
    BY <1>1, <1>4, <1>5
  <2> QED
    BY <1>3, <1>5, <2>1, <2>2
<1>8. m \notin d.mails
  BY <1>4, <1>5
<1> QED
  BY <1>2, <1>3, <1>6, <1>7, <1>8, SoundMails

LEMMA SoundSpent ==
    ASSUME NEW d, NEW n, NEW o, Sound(d, n, o), NEW c \in Nat
    PROVE  Sound(Spent(d, c), n, o)
<1>1. d \in Tables
  BY DEF Sound
<1>2. Spent(d, c) \in Tables /\ Spent(d, c).mails = d.mails /\ Spent(d, c).auctions = d.auctions
  BY <1>1, SpentFields
<1> QED
  BY <1>2, SoundSame

LEMMA SoundLost ==
    ASSUME NEW d, NEW n, NEW o, Sound(d, n, o), NEW I
    PROVE  Sound(Lost(d, I), n, o)
<1>1. d \in Tables
  BY DEF Sound
<1>2. Lost(d, I) \in Tables /\ Lost(d, I).mails = d.mails /\ Lost(d, I).auctions = d.auctions
  BY <1>1, LostFields
<1> QED
  BY <1>2, SoundSame

LEMMA SoundSaved ==
    ASSUME NEW d, NEW n, NEW o, Sound(d, n, o), NEW p \in Player, NEW g \in Holdings
    PROVE  Sound(Saved(d, p, g), n, o)
<1>1. d \in Tables
  BY DEF Sound
<1>2. /\ Saved(d, p, g) \in Tables
      /\ Saved(d, p, g).mails = d.mails /\ Saved(d, p, g).auctions = d.auctions
  BY <1>1, SavedFields
<1> QED
  BY <1>2, SoundSame

LEMMA SoundErased ==
    ASSUME NEW d, NEW n, NEW o, Sound(d, n, o), NEW M \in SUBSET Mails
    PROVE  Sound(Erased(d, M), n, o)
<1>1. d \in Tables /\ IsFiniteSet(d.mails)
  BY DEF Sound
<1>2. PICK e : e = Erased(d, M)
  OBVIOUS
<1>3. e \in Tables /\ e.mails \subseteq d.mails /\ e.auctions = d.auctions
  BY <1>1, <1>2, ErasedFields
<1> QED
  BY <1>2, <1>3, SoundLess

\* The rows of some mails are written, and keep their ids.
LEMMA SoundRewritten ==
    ASSUME NEW d, NEW n, NEW o, Sound(d, n, o), NEW e \in Tables,
           e.auctions = d.auctions, NEW h \in [d.mails -> Mails],
           \A x \in d.mails : h[x].id = x.id, e.mails = {h[x] : x \in d.mails}
    PROVE  Sound(e, n, o)
<1>1. h \in Surjection(d.mails, e.mails)
  BY DEF Surjection
<1>2. IsFiniteSet(e.mails)
  BY <1>1, FS_Surjection DEF Sound
<1>3. \A x, y \in e.mails : x.id = y.id => x = y
  BY DEF Sound
<1>4. \A x \in e.mails : x.id <= n
  BY DEF Sound
<1> QED
  BY <1>2, <1>3, <1>4, SoundMails

LEMMA SoundUpdated ==
    ASSUME NEW d, NEW n, NEW o, Sound(d, n, o), NEW m \in Mails, NEW I
    PROVE  Sound(Updated(d, m, I), n, o)
<1> DEFINE bare(x) == [x EXCEPT !.items = @ \ I]
           new(x) == [x EXCEPT !.items = @ \ I, !.money = m.money, !.cod = m.cod,
                               !.mark = m.mark]
<1>1. d \in Tables /\ d.mails \subseteq Mails
  BY DEF Sound, Tables
<1>2. PICK e : e = Updated(d, m, I)
  OBVIOUS
<1>3. /\ e \in Tables /\ e.auctions = d.auctions
      /\ e.mails = {IF x.id # m.id THEN bare(x) ELSE new(x) : x \in d.mails}
      /\ \A x \in Mails : bare(x) \in Mails /\ new(x) \in Mails
  BY <1>1, <1>2, UpdatedFields
<1>4. \A x \in Mails : bare(x).id = x.id /\ new(x).id = x.id
  BY DEF Mails
<1> HIDE DEF new, bare
<1>5. PICK h : h = [x \in d.mails |-> IF x.id # m.id THEN bare(x) ELSE new(x)]
  OBVIOUS
<1>6. h \in [d.mails -> Mails] /\ \A x \in d.mails : h[x].id = x.id
  BY <1>1, <1>3, <1>4, <1>5
<1>7. e.mails = {h[x] : x \in d.mails}
  BY <1>3, <1>5
<1> QED
  BY <1>2, <1>3, <1>6, <1>7, SoundRewritten

LEMMA SoundReversed ==
    ASSUME NEW d, NEW n, NEW o, Sound(d, n, o), NEW m \in Mails, m.from # House
    PROVE  Sound(Reversed(d, m), n, o)
<1> DEFINE new(x) == [x EXCEPT !.from = m.to, !.to = m.from, !.cod = 0, !.mark = "returned"]
<1>1. d \in Tables /\ d.mails \subseteq Mails
  BY DEF Sound, Tables
<1>2. PICK e : e = Reversed(d, m)
  OBVIOUS
<1>3. /\ e \in Tables /\ e.auctions = d.auctions
      /\ e.mails = {IF x.id # m.id THEN x ELSE new(x) : x \in d.mails}
      /\ \A x \in Mails : new(x) \in Mails
  BY <1>1, <1>2, ReversedFields
<1>4. \A x \in Mails : new(x).id = x.id
  BY DEF Mails
<1> HIDE DEF new
<1>5. PICK h : h = [x \in d.mails |-> IF x.id # m.id THEN x ELSE new(x)]
  OBVIOUS
<1>6. h \in [d.mails -> Mails] /\ \A x \in d.mails : h[x].id = x.id
  BY <1>1, <1>3, <1>4, <1>5
<1>7. e.mails = {h[x] : x \in d.mails}
  BY <1>3, <1>5
<1> QED
  BY <1>2, <1>3, <1>6, <1>7, SoundRewritten

LEMMA SoundAuctions ==
    ASSUME NEW d, NEW n, NEW o \in Nat, Sound(d, n, o), NEW a \in Auctions, Fair(a)
    PROVE  /\ a.id <= o => Sound(Changed(d, a), n, o)
           /\ a.id = o + 1 => Sound(Put(d, a), n, o + 1) /\ a \notin d.auctions
           /\ Sound(Removed(d, a), n, o)
<1>1. d \in Tables /\ d.auctions \subseteq Auctions
  BY DEF Sound, Tables
<1>2. \A x \in Auctions : x.id \in Nat
  BY AuctionAssumption DEF Auctions
<1>3. IsFiniteSet({x \in d.auctions : x.id # a.id})
  <2>1. {x \in d.auctions : x.id # a.id} \in SUBSET d.auctions
    OBVIOUS
  <2> QED
    BY <2>1, FS_Subset DEF Sound
<1>4. ASSUME a.id <= o PROVE Sound(Changed(d, a), n, o)
  <2>1. PICK e : e = Changed(d, a)
    OBVIOUS
  <2>2. /\ e \in Tables /\ e.mails = d.mails
        /\ e.auctions = {x \in d.auctions : x.id # a.id} \cup {a}
    BY <1>1, <2>1, AuctionFields
  <2>3. IsFiniteSet(e.auctions)
    <3>1. PICK W : W = {x \in d.auctions : x.id # a.id}
      OBVIOUS
    <3>2. IsFiniteSet(W \cup {a})
      BY <1>3, <3>1, FS_AddElement
    <3> QED
      BY <2>2, <3>1, <3>2
  <2>4. (\A x, y \in e.auctions : x.id = y.id => x = y)
        /\ \A x \in e.auctions : x.id <= o /\ Fair(x)
    <3>1. /\ \A x, y \in d.auctions : x.id = y.id => x = y
          /\ \A x \in d.auctions : x.id <= o /\ Fair(x)
      BY DEF Sound
    <3> QED
      BY <1>4, <2>2, <3>1
  <2> QED
    BY <2>1, <2>2, <2>3, <2>4 DEF Sound
<1>5. ASSUME a.id = o + 1 PROVE Sound(Put(d, a), n, o + 1) /\ a \notin d.auctions
  <2>1. PICK e : e = Put(d, a)
    OBVIOUS
  <2>2. /\ e \in Tables /\ e.mails = d.mails
        /\ e.auctions = d.auctions \cup {a}
    BY <1>1, <2>1, AuctionFields
  <2>3. IsFiniteSet(e.auctions)
    BY <2>2, FS_AddElement DEF Sound
  <2>4. \A x \in d.auctions : x.id # a.id /\ x.id <= o + 1
    BY <1>1, <1>2, <1>5 DEF Sound
  <2>5. (\A x, y \in e.auctions : x.id = y.id => x = y)
        /\ \A x \in e.auctions : x.id <= o + 1 /\ Fair(x)
    <3>1. /\ \A x, y \in d.auctions : x.id = y.id => x = y
          /\ \A x \in d.auctions : Fair(x)
      BY DEF Sound
    <3>2. a.id <= o + 1
      BY <1>2, <1>5
    <3> QED
      BY <2>2, <2>4, <3>1, <3>2
  <2>6. a \notin d.auctions
    BY <2>4
  <2> QED
    BY <2>1, <2>2, <2>3, <2>5, <2>6 DEF Sound
<1>6. Sound(Removed(d, a), n, o)
  <2>1. PICK e : e = Removed(d, a)
    OBVIOUS
  <2>2. e \in Tables /\ e.mails = d.mails /\ e.auctions \subseteq d.auctions
    BY <1>1, <2>1, AuctionFields
  <2> QED
    BY <2>1, <2>2, SoundLess
<1> QED
  BY <1>4, <1>5, <1>6

-----------------------------------------------------------------------------
(* The transactions that a handler hands over.                             *)

Rows(n, o) == {d \in Tables : Sound(d, n, o)}
Open(d) == [d EXCEPT !.whole = FALSE]
Closed(d) == [d EXCEPT !.whole = TRUE]

LEMMA ClosedFields ==
    ASSUME NEW d \in Tables
    PROVE  LET e == Closed(d) IN
           /\ e \in Tables /\ e.whole
           /\ e.row = d.row /\ e.gold = d.gold /\ e.mails = d.mails
           /\ e.auctions = d.auctions /\ e.gone = d.gone /\ e.spent = d.spent
BY DEF Closed, Tables

LEMMA OpenFields ==
    ASSUME NEW d \in Tables
    PROVE  LET e == Open(d) IN
           /\ e \in Tables /\ ~e.whole
           /\ e.mails = d.mails /\ e.auctions = d.auctions
BY DEF Open, Tables

LEMMA Ends ==
    ASSUME NEW S, NEW s \in Seq(S), NEW x \in S
    PROVE  /\ s \o <<x>> \in Seq(S) /\ s \o <<x>> # <<>>
           /\ Len(s \o <<x>>) = Len(s) + 1
           /\ (s \o <<x>>)[Len(s \o <<x>>)] = x
OBVIOUS

LEMMA Joined ==
    ASSUME NEW S, NEW s \in Seq(S), NEW t \in Seq(S), NEW u, u = s \o t
    PROVE  /\ u \in Seq(S) /\ Len(u) = Len(s) + Len(t)
           /\ \A k \in 1..Len(s) : u[k] = s[k]
           /\ \A k \in 1..Len(t) : u[Len(s) + k] = t[k]
OBVIOUS

LEMMA DiskFacts ==
    ASSUME TypeOK
    PROVE  /\ Len(disk) \in Nat /\ Len(disk) > 0
           /\ Stored = disk[Len(disk)] /\ Committed = disk[1]
           /\ \A k \in 1..Len(disk) : disk[k] \in Tables
           /\ Stored \in Tables /\ Committed \in Tables
<1>1. Len(disk) \in Nat /\ Len(disk) > 0 /\ disk \in Seq(Tables)
  BY MailAssumption DEF TypeOK, MailTypeOK
<1>2. \A k \in 1..Len(disk) : disk[k] \in Tables
  BY <1>1
<1>3. Stored = disk[Len(disk)] /\ Committed = disk[1]
  BY <1>1 DEF Stored, Committed, Last
<1> QED
  BY <1>1, <1>2, <1>3

LEMMA Executed ==
    ASSUME TypeOK, NEW n, NEW o, NEW steps \in Seq(Rows(n, o)), steps # <<>>, Execute(steps)
    PROVE  /\ disk' \in Seq(Tables) /\ Len(disk') \in 1..MaxQueue + 1
           /\ Stored' = Closed(steps[Len(steps)])
           /\ Committed' = Committed
           /\ \A k \in 1..Len(disk') :
                \/ k <= Len(disk) /\ disk'[k] = disk[k]
                \/ /\ disk'[k] \in Tables /\ Sound(disk'[k], n, o)
                   /\ disk'[k].whole => disk'[k] = Stored'
<1>1. /\ Len(disk) \in Nat /\ Len(disk) > 0 /\ Committed = disk[1] /\ disk \in Seq(Tables)
  BY DiskFacts DEF TypeOK
<1>2. /\ Len(steps) \in Nat /\ Len(steps) > 0
      /\ \A k \in 1..Len(steps) : steps[k] \in Tables /\ Sound(steps[k], n, o)
  BY DEF Rows
<1>3. PICK t : t = [k \in 1..Len(steps) |-> [steps[k] EXCEPT !.whole = k = Len(steps)]]
  OBVIOUS
<1>4. /\ \A k \in 1..Len(steps) : t[k] \in Tables /\ Sound(t[k], n, o)
      /\ \A k \in 1..Len(steps) : t[k].whole => k = Len(steps)
      /\ t[Len(steps)] = Closed(steps[Len(steps)])
  <2>1. ASSUME NEW k \in 1..Len(steps), k = Len(steps)
        PROVE  t[k] = Closed(steps[k])
    BY <1>3, <2>1 DEF Closed
  <2>2. ASSUME NEW k \in 1..Len(steps), k # Len(steps)
        PROVE  t[k] = Open(steps[k])
    BY <1>3, <2>2 DEF Open
  <2>3. ASSUME NEW k \in 1..Len(steps)
        PROVE  t[k] \in Tables /\ Sound(t[k], n, o) /\ (t[k].whole => k = Len(steps))
    <3>0. steps[k] \in Tables /\ Sound(steps[k], n, o)
      BY <1>2
    <3>1. CASE k = Len(steps)
      <4>1. PICK e : e = Closed(steps[k])
        OBVIOUS
      <4>2. e \in Tables /\ e.mails = steps[k].mails /\ e.auctions = steps[k].auctions
        BY <3>0, <4>1, ClosedFields
      <4>3. Sound(e, n, o)
        BY <3>0, <4>2, SoundSame
      <4> QED
        BY <2>1, <3>1, <4>1, <4>2, <4>3
    <3>2. CASE k # Len(steps)
      <4>1. PICK e : e = Open(steps[k])
        OBVIOUS
      <4>2. /\ e \in Tables /\ e.mails = steps[k].mails /\ e.auctions = steps[k].auctions
            /\ ~e.whole
        BY <3>0, <4>1, OpenFields
      <4>3. Sound(e, n, o)
        BY <3>0, <4>2, SoundSame
      <4> QED
        BY <2>2, <3>2, <4>1, <4>2, <4>3
    <3> QED
      BY <3>1, <3>2
  <2>4. Len(steps) \in 1..Len(steps)
    BY <1>2
  <2> QED
    BY <2>1, <2>3, <2>4
<1>5. t \in Seq(Tables) /\ Len(t) = Len(steps)
  <2>1. t \in [1..Len(steps) -> Tables]
    BY <1>3, <1>4
  <2> QED
    BY <1>2, <2>1
<1>6. disk' = disk \o t /\ Len(disk) + Len(steps) <= MaxQueue + 1
  BY <1>3, Zenon DEF Execute
<1>7. /\ disk' \in Seq(Tables) /\ Len(disk') = Len(disk) + Len(steps)
      /\ \A k \in 1..Len(disk) : disk'[k] = disk[k]
      /\ \A k \in 1..Len(steps) : disk'[Len(disk) + k] = t[k]
  <2>1. disk \in Seq(Tables)
    BY <1>1
  <2>2. /\ disk' \in Seq(Tables) /\ Len(disk') = Len(disk) + Len(t)
        /\ \A k \in 1..Len(disk) : disk'[k] = disk[k]
        /\ \A k \in 1..Len(t) : disk'[Len(disk) + k] = t[k]
    <3>1. t \in Seq(Tables) /\ disk' = disk \o t
      BY <1>5, <1>6
    <3> QED
      BY <2>1, <3>1, Joined, SMTT(60)
  <2> QED
    BY <1>5, <2>2
<1>8. Stored' = t[Len(steps)] /\ Committed' = Committed
  <2>1. Stored' = disk'[Len(disk')]
    BY DEF Stored, Last
  <2>2. Committed' = disk'[1]
    BY <1>1, <1>2, <1>7 DEF Committed
  <2> QED
    BY <1>1, <1>2, <1>7, <2>1, <2>2
<1>9. Stored' = Closed(steps[Len(steps)])
  BY <1>4, <1>8
<1>10. ASSUME NEW k \in 1..Len(disk'), ~(k <= Len(disk))
       PROVE  /\ disk'[k] \in Tables /\ Sound(disk'[k], n, o)
              /\ disk'[k].whole => disk'[k] = Stored'
  <2>1. k - Len(disk) \in 1..Len(steps)
    BY <1>1, <1>2, <1>7, <1>10
  <2>2. disk'[k] = t[k - Len(disk)]
    BY <1>1, <1>2, <1>7, <1>10, <2>1
  <2> QED
    BY <1>4, <1>8, <2>1, <2>2
<1>11. Len(disk') \in 1..MaxQueue + 1
  BY <1>1, <1>2, <1>6, <1>7, MailAssumption
<1> QED
  BY <1>1, <1>7, <1>8, <1>9, <1>10, <1>11

-----------------------------------------------------------------------------
(* The invariant.  Books holds whatever happens; Sure as long as no crash  *)
(* has cut a handler and no old mail was returned on the strength of rows  *)
(* that were out of date.                                                  *)

Books ==
    /\ TypeOK
    /\ \A k \in 1..Len(disk) : Sound(disk[k], posted, opened)
    /\ Stored.whole
    /\ house = Stored.auctions
    /\ \A p \in Player : /\ marked[p] \subseteq 1..posted
                         /\ phase[p] = "out" => marked[p] = {}

\* Where an item is.
WithNobody(d, i) == d.row[i] = Nobody
InNoMail(d, i) == \A m \in d.mails : i \notin m.items
InNoAuction(d, i) == \A a \in d.auctions : a.item # i
Nowhere(d, i) == WithNobody(d, i) /\ InNoMail(d, i) /\ InNoAuction(d, i)
InOnePlace(d, i) ==
    \/ d.row[i] \in Player /\ InNoMail(d, i) /\ InNoAuction(d, i)
    \/ /\ WithNobody(d, i) /\ InNoAuction(d, i)
       /\ \E m \in d.mails : i \in m.items /\ \A x \in d.mails : i \in x.items => x = m
    \/ /\ WithNobody(d, i) /\ InNoMail(d, i)
       /\ \E a \in d.auctions : a.item = i /\ \A x \in d.auctions : x.item = i => x = a
Accounted(d, i) == IF i \in d.gone THEN Nowhere(d, i) ELSE InOnePlace(d, i)
Placed(d) == \A i \in Item : Accounted(d, i)

\* Goods are sent cash on delivery by players, without money, and once.
OnDelivery(d) ==
    \A m \in d.mails : m.cod > 0 => m.mark = "sent" /\ m.from # House /\ m.money = 0

Complete(d) == Placed(d) /\ Wealth(d) = SumFunction(Gold0) /\ OnDelivery(d)

Completed == \A k \in 1..Len(disk) : disk[k].whole => Complete(disk[k])
Bins == \A p \in Player : phase[p] # "out" =>
            \A m \in box[p] : m.id \in marked[p] => m.cod = 0
Sure == Completed /\ MemoryStored /\ Bins

\* MemoryStored, of players in phase ph who hold g and have the boxes b.
Recalled(d, ph, g, b) ==
    \A p \in Player : ph[p] # "out" =>
        /\ g.bag[p] = Pack(d, p)
        /\ g.gold[p] = d.gold[p]
        /\ b[p] \subseteq {m \in d.mails : m.to = p}

\* Mails with goods on delivery, from tables d to tables e.
Honours(d, e) ==
    \A m \in d.mails : m.cod > 0 /\ m.items # {} =>
        \/ m \in e.mails
        \/ \E x \in e.mails : x.to = m.from /\ (x.items = m.items \/ x.money = m.cod)

LEMMA StoredFacts ==
    ASSUME Books
    PROVE  /\ Stored \in Tables /\ Sound(Stored, posted, opened)
           /\ posted \in Nat /\ opened \in Nat /\ posted <= MaxMails /\ opened <= MaxAuctions
           /\ Sure => Complete(Stored)
<1>1. /\ Len(disk) \in Nat /\ Len(disk) > 0 /\ Stored = disk[Len(disk)] /\ Stored \in Tables
  BY DiskFacts DEF Books
<1>2. Len(disk) \in 1..Len(disk)
  BY <1>1
<1>3. Sound(Stored, posted, opened)
  BY <1>1, <1>2 DEF Books
<1>4. Sure => Complete(Stored)
  BY <1>1, <1>2 DEF Sure, Completed, Books
<1>5. posted \in Nat /\ opened \in Nat /\ posted <= MaxMails /\ opened <= MaxAuctions
  BY MailAssumption, AuctionAssumption DEF Books, TypeOK, MailTypeOK
<1> QED
  BY <1>1, <1>3, <1>4, <1>5

\* The kind of what the memory holds.
LEMMA MemoryType ==
    ASSUME TypeOK
    PROVE  /\ goods \in Holdings
           /\ goods.bag \in [Player -> SUBSET Item] /\ goods.gold \in [Player -> 0..MaxGold]
           /\ box \in [Player -> SUBSET Mails]
           /\ marked \in [Player -> SUBSET (1..MaxMails)]
           /\ phase \in [Player -> {"out", "login", "in", "travel"}]
           /\ house \in SUBSET Auctions
           /\ MaxGold \in Nat /\ MaxMails \in Nat
           /\ Nobody \notin Player /\ House \notin Player
BY MailAssumption, GoodsAssumption DEF TypeOK, MailTypeOK, Holdings

\* A handler that hands over steps, of which e is the last.
LEMMA BooksKept ==
    ASSUME Books, NEW steps \in Seq(Rows(posted', opened')), steps # <<>>, Execute(steps),
           posted' \in posted..MaxMails, opened' \in opened..MaxAuctions,
           NEW e, e = steps[Len(steps)],
           phase' \in [Player -> {"out", "login", "in", "travel"}],
           goods' \in Holdings, box' \in [Player -> SUBSET Mails],
           behind' = behind, torn' = torn, spoilt' \in BOOLEAN, events' \in 0..MaxEvents,
           won' \in [1..MaxAuctions -> Player \cup {Nobody}],
           house' = e.auctions,
           marked' \in [Player -> SUBSET Nat],
           \A r \in Player : /\ marked'[r] \subseteq 1..posted'
                             /\ phase'[r] = "out" => marked'[r] = {}
    PROVE  /\ Books'
           /\ Stored'.row = e.row /\ Stored'.gold = e.gold /\ Stored'.mails = e.mails
           /\ Stored'.auctions = e.auctions /\ Stored'.gone = e.gone /\ Stored'.spent = e.spent
           /\ Sure /\ Complete(e) => Completed'
<1>1. /\ posted \in Nat /\ opened \in Nat /\ MaxMails \in Nat /\ MaxAuctions \in Nat
      /\ posted' \in Nat /\ opened' \in Nat /\ posted <= posted' /\ opened <= opened'
      /\ posted' \in 0..MaxMails /\ opened' \in 0..MaxAuctions
  BY StoredFacts, MailAssumption, AuctionAssumption
<1>2. /\ disk' \in Seq(Tables) /\ Len(disk') \in 1..MaxQueue + 1
      /\ Stored' = Closed(e)
      /\ \A k \in 1..Len(disk') :
           \/ k <= Len(disk) /\ disk'[k] = disk[k]
           \/ /\ disk'[k] \in Tables /\ Sound(disk'[k], posted', opened')
              /\ disk'[k].whole => disk'[k] = Stored'
  BY Executed DEF Books
<1>3. e \in Tables /\ Sound(e, posted', opened')
  <2>1. Len(steps) \in 1..Len(steps)
    BY Ends
  <2> QED
    BY <2>1 DEF Rows
<1>4. /\ Stored'.row = e.row /\ Stored'.gold = e.gold /\ Stored'.mails = e.mails
      /\ Stored'.auctions = e.auctions /\ Stored'.gone = e.gone /\ Stored'.spent = e.spent
      /\ Stored'.whole
  BY <1>2, <1>3, ClosedFields
<1>5. Len(disk) \in Nat
  BY DiskFacts DEF Books
<1>6. ASSUME NEW k \in 1..Len(disk')
      PROVE  Sound(disk'[k], posted', opened')
  <2>1. CASE k <= Len(disk) /\ disk'[k] = disk[k]
    <3>1. k \in 1..Len(disk)
      BY <1>5, <2>1
    <3>2. Sound(disk[k], posted, opened)
      BY <3>1 DEF Books
    <3> QED
      BY <1>1, <2>1, <3>2, SoundLater
  <2> QED
    BY <1>2, <2>1
<1>7. TypeOK'
  <2>1. house' \in SUBSET Auctions
    BY <1>3 DEF Tables
  <2>2. marked' \in [Player -> SUBSET (1..MaxMails)]
    BY <1>1
  <2>3. behind' \in [Player -> 0..MaxQueue] /\ torn' \in BOOLEAN
    BY DEF Books, TypeOK, MailTypeOK
  <2> QED
    BY <1>1, <1>2, <2>1, <2>2, <2>3 DEF TypeOK, MailTypeOK
<1>8. Books'
  BY <1>4, <1>6, <1>7 DEF Books
<1>9. ASSUME Sure, Complete(e)
      PROVE  Completed'
  <2>1. Complete(Stored')
    BY <1>4, <1>9 DEF Complete, Placed, Accounted, Nowhere, InOnePlace, WithNobody, InNoMail, InNoAuction,
                      Wealth, OnDelivery
  <2>2. ASSUME NEW k \in 1..Len(disk'), disk'[k].whole
        PROVE  Complete(disk'[k])
    <3>1. CASE k <= Len(disk) /\ disk'[k] = disk[k]
      <4>1. k \in 1..Len(disk)
        BY <1>5, <3>1
      <4> QED
        BY <1>9, <2>2, <3>1, <4>1 DEF Sure, Completed
    <3> QED
      BY <1>2, <2>1, <2>2, <3>1
  <2> QED
    BY <2>2 DEF Completed
<1> QED
  BY <1>4, <1>8, <1>9

-----------------------------------------------------------------------------
(* What the operations on the tables do to the wealth in them.             *)

LEMMA WealthParts ==
    ASSUME NEW d, NEW n, NEW o, Sound(d, n, o)
    PROVE  /\ Wealth(d) = SumFunction(d.gold) + Money(d.mails) + Stakes(d.auctions) + d.spent
           /\ SumFunction(d.gold) \in Nat /\ Money(d.mails) \in Nat
           /\ Stakes(d.auctions) \in Nat /\ d.spent \in Nat /\ Wealth(d) \in Nat
           /\ d \in Tables /\ d.gold \in [Player -> 0..MaxGold]
           /\ d.mails \in SUBSET Mails /\ IsFiniteSet(d.mails)
           /\ d.auctions \in SUBSET Auctions /\ IsFiniteSet(d.auctions)
<1>1. /\ d \in Tables /\ d.gold \in [Player -> 0..MaxGold] /\ d.spent \in Nat
      /\ d.mails \in SUBSET Mails /\ IsFiniteSet(d.mails)
      /\ d.auctions \in SUBSET Auctions /\ IsFiniteSet(d.auctions)
  BY DEF Sound, Tables
<1>2. SumFunction(d.gold) \in Nat
  BY <1>1, GoldMoves
<1>3. Money(d.mails) \in Nat
  BY <1>1, MoneyMoves
<1>4. Stakes(d.auctions) \in Nat
  BY <1>1, StakesMove
<1> QED
  BY <1>1, <1>2, <1>3, <1>4 DEF Wealth

LEMMA WealthOfMail ==
    ASSUME NEW d, NEW n, NEW o, Sound(d, n, o)
    PROVE  /\ \A m \in Mails \ d.mails : Wealth(Inserted(d, m)) = Wealth(d) + m.money
           /\ \A I : Wealth(Lost(d, I)) = Wealth(d)
           /\ \A c \in Nat : Wealth(Spent(d, c)) = Wealth(d) + c
           /\ \A M \in SUBSET Mails : Wealth(Erased(d, M)) = Wealth(d)
<1>1. /\ Wealth(d) = SumFunction(d.gold) + Money(d.mails) + Stakes(d.auctions) + d.spent
      /\ SumFunction(d.gold) \in Nat /\ Money(d.mails) \in Nat
      /\ Stakes(d.auctions) \in Nat /\ d.spent \in Nat
      /\ d \in Tables /\ d.mails \in SUBSET Mails /\ IsFiniteSet(d.mails)
  BY WealthParts
<1>2. ASSUME NEW m \in Mails \ d.mails
      PROVE  Wealth(Inserted(d, m)) = Wealth(d) + m.money
  <2>1. PICK e : e = Inserted(d, m)
    OBVIOUS
  <2>2. /\ e.mails = d.mails \cup {m} /\ e.gold = d.gold
        /\ e.auctions = d.auctions /\ e.spent = d.spent
    BY <1>1, <2>1, InsertedFields DEF Others
  <2>3. Money(d.mails \cup {m}) = Money(d.mails) + m.money
    BY <1>1, MoneyMoves
  <2>4. m.money \in Nat
    BY DEF Mails
  <2> QED
    BY <1>1, <2>1, <2>2, <2>3, <2>4 DEF Wealth
<1>3. ASSUME NEW I
      PROVE  Wealth(Lost(d, I)) = Wealth(d)
  BY <1>1, LostFields DEF Wealth, Others
<1>4. ASSUME NEW c \in Nat
      PROVE  Wealth(Spent(d, c)) = Wealth(d) + c
  <2>1. PICK e : e = Spent(d, c)
    OBVIOUS
  <2>2. /\ e.mails = d.mails /\ e.gold = d.gold
        /\ e.auctions = d.auctions /\ e.spent = d.spent + c
    BY <1>1, <2>1, SpentFields
  <2> QED
    BY <1>1, <2>1, <2>2 DEF Wealth
<1>5. ASSUME NEW M \in SUBSET Mails
      PROVE  Wealth(Erased(d, M)) = Wealth(d)
  <2>1. PICK e : e = Erased(d, M)
    OBVIOUS
  <2>2. PICK out : out = {x \in d.mails : x.id \in Ids(M)}
    OBVIOUS
  <2>3. /\ e.mails = d.mails \ out /\ e.gold = d.gold
        /\ e.auctions = d.auctions /\ e.spent = d.spent + Money(out)
        /\ Money(d.mails) = Money(out) + Money(e.mails) /\ Money(out) \in Nat
    BY <1>1, <2>1, <2>2, ErasedFields
  <2>4. Money(e.mails) \in Nat
    <3>1. e.mails \in SUBSET Mails /\ IsFiniteSet(e.mails)
      BY <1>1, <2>3, FS_Subset
    <3> QED
      BY <3>1, MoneyMoves
  <2> QED
    BY <1>1, <2>1, <2>3, <2>4 DEF Wealth
<1> QED
  BY <1>2, <1>3, <1>4, <1>5

LEMMA WealthOfPurse ==
    ASSUME NEW d, NEW n, NEW o, Sound(d, n, o), NEW p \in Player
    PROVE  /\ \A g \in Holdings : Wealth(Saved(d, p, g)) = Wealth(d) - d.gold[p] + g.gold[p]
           /\ \A v \in 0..MaxGold :
                Wealth([d EXCEPT !.gold[p] = v]) = Wealth(d) - d.gold[p] + v
           /\ d.gold[p] \in 0..MaxGold /\ d.gold[p] \in Nat
<1>1. /\ Wealth(d) = SumFunction(d.gold) + Money(d.mails) + Stakes(d.auctions) + d.spent
      /\ SumFunction(d.gold) \in Nat /\ Money(d.mails) \in Nat
      /\ Stakes(d.auctions) \in Nat /\ d.spent \in Nat
      /\ d \in Tables /\ d.gold \in [Player -> 0..MaxGold]
  BY WealthParts
<1>2. MaxGold \in Nat /\ d.gold[p] \in 0..MaxGold
  BY <1>1, GoodsAssumption
<1>3. ASSUME NEW e, NEW v \in 0..MaxGold, e.gold = [d.gold EXCEPT ![p] = v],
             e.mails = d.mails, e.auctions = d.auctions, e.spent = d.spent
      PROVE  Wealth(e) = Wealth(d) - d.gold[p] + v
  <2>1. SumFunction(e.gold) = SumFunction(d.gold) - d.gold[p] + v
    BY <1>1, <1>3, GoldMoves
  <2>2. Wealth(e) = SumFunction(e.gold) + Money(d.mails) + Stakes(d.auctions) + d.spent
    BY <1>3 DEF Wealth
  <2> QED
    BY <1>1, <1>2, <2>1, <2>2
<1>4. ASSUME NEW g \in Holdings
      PROVE  Wealth(Saved(d, p, g)) = Wealth(d) - d.gold[p] + g.gold[p]
  <2>1. PICK v \in 0..MaxGold : v = g.gold[p]
    BY DEF Holdings
  <2>2. PICK e : e = Saved(d, p, g)
    OBVIOUS
  <2>3. /\ e.gold = [d.gold EXCEPT ![p] = v]
        /\ e.mails = d.mails /\ e.auctions = d.auctions /\ e.spent = d.spent
    BY <1>1, <2>1, <2>2, SavedFields DEF Others
  <2>4. Wealth(e) = Wealth(d) - d.gold[p] + v
    BY <1>3, <2>3
  <2> QED
    BY <2>1, <2>2, <2>4
<1>5. ASSUME NEW v \in 0..MaxGold
      PROVE  Wealth([d EXCEPT !.gold[p] = v]) = Wealth(d) - d.gold[p] + v
  <2>1. PICK e : e = [d EXCEPT !.gold[p] = v]
    OBVIOUS
  <2>2. /\ e.gold = [d.gold EXCEPT ![p] = v]
        /\ e.mails = d.mails /\ e.auctions = d.auctions /\ e.spent = d.spent
    BY <1>1, <2>1, PaidFields DEF Others
  <2>3. Wealth(e) = Wealth(d) - d.gold[p] + v
    BY <1>3, <2>2
  <2> QED
    BY <2>1, <2>3
<1> QED
  BY <1>2, <1>4, <1>5

\* One mail of the table is replaced by another of the same id, or dropped.
LEMMA WealthOfRow ==
    ASSUME NEW d, NEW n, NEW o, Sound(d, n, o), NEW m \in d.mails, NEW e,
           e.gold = d.gold, e.auctions = d.auctions, e.spent = d.spent
    PROVE  /\ \A t \in Mails : t.id = m.id /\ e.mails = (d.mails \ {m}) \cup {t}
                => Wealth(e) = Wealth(d) - m.money + t.money
           /\ e.mails = d.mails \ {m} => Wealth(e) = Wealth(d) - m.money
           /\ m.money \in Nat
<1>1. /\ Wealth(d) = SumFunction(d.gold) + Money(d.mails) + Stakes(d.auctions) + d.spent
      /\ SumFunction(d.gold) \in Nat /\ Money(d.mails) \in Nat
      /\ Stakes(d.auctions) \in Nat /\ d.spent \in Nat
      /\ d.mails \in SUBSET Mails /\ IsFiniteSet(d.mails)
  BY WealthParts
<1>2. PICK S : S = d.mails \ {m}
  OBVIOUS
<1>3. S \in SUBSET Mails /\ IsFiniteSet(S) /\ m \in Mails /\ m \notin S /\ S \cup {m} = d.mails
  BY <1>1, <1>2, FS_Subset
<1>4. /\ Money(S) \in Nat /\ Money(d.mails) = Money(S) + m.money
      /\ \A t \in Mails \ S : Money(S \cup {t}) = Money(S) + t.money
  BY <1>3, MoneyMoves
<1>5. \A t \in Mails : t.money \in Nat
  BY DEF Mails
<1>6. ASSUME NEW t \in Mails, t.id = m.id, e.mails = S \cup {t}
      PROVE  Wealth(e) = Wealth(d) - m.money + t.money
  <2>1. t \notin S
    BY <1>2, <1>6 DEF Sound
  <2>2. Money(e.mails) = Money(S) + t.money
    BY <1>4, <1>6, <2>1
  <2>3. Wealth(e) = SumFunction(d.gold) + Money(e.mails) + Stakes(d.auctions) + d.spent
    BY DEF Wealth
  <2>4. m.money \in Nat /\ t.money \in Nat
    BY <1>3, <1>5
  <2> QED
    BY <1>1, <1>4, <2>2, <2>3, <2>4
<1>7. ASSUME e.mails = S
      PROVE  Wealth(e) = Wealth(d) - m.money
  <2>3. Wealth(e) = SumFunction(d.gold) + Money(S) + Stakes(d.auctions) + d.spent
    BY <1>7 DEF Wealth
  <2>4. m.money \in Nat
    BY <1>3, <1>5
  <2> QED
    BY <1>1, <1>4, <2>3, <2>4
<1> QED
  BY <1>2, <1>3, <1>5, <1>6, <1>7

LEMMA WealthOfAuction ==
    ASSUME NEW d, NEW n, NEW o, Sound(d, n, o), NEW a \in Auctions
    PROVE  /\ a \notin d.auctions => Wealth(Put(d, a)) = Wealth(d) + a.bid + Deposit
           /\ a \in d.auctions => Wealth(Removed(d, a)) = Wealth(d) - (a.bid + Deposit)
           /\ \A b \in d.auctions : b.id = a.id => Wealth(Changed(d, a)) = Wealth(d) - b.bid + a.bid
           /\ a.bid \in Nat /\ Deposit \in Nat
<1>1. /\ Wealth(d) = SumFunction(d.gold) + Money(d.mails) + Stakes(d.auctions) + d.spent
      /\ SumFunction(d.gold) \in Nat /\ Money(d.mails) \in Nat
      /\ Stakes(d.auctions) \in Nat /\ d.spent \in Nat
      /\ d \in Tables /\ d.auctions \in SUBSET Auctions /\ IsFiniteSet(d.auctions)
  BY WealthParts
<1>2. a.bid \in Nat /\ Deposit \in Nat /\ \A b \in Auctions : b.bid \in Nat
  BY AuctionAssumption DEF Auctions
<1>3. ASSUME a \notin d.auctions
      PROVE  Wealth(Put(d, a)) = Wealth(d) + a.bid + Deposit
  <2>1. PICK e : e = Put(d, a)
    OBVIOUS
  <2>2. /\ e.mails = d.mails /\ e.gold = d.gold
        /\ e.auctions = d.auctions \cup {a} /\ e.spent = d.spent
    BY <1>1, <2>1, AuctionFields DEF Others
  <2>3. Stakes(d.auctions \cup {a}) = Stakes(d.auctions) + a.bid + Deposit
    BY <1>1, <1>3, StakesMove
  <2> QED
    BY <1>1, <1>2, <2>1, <2>2, <2>3 DEF Wealth
<1>4. ASSUME NEW b \in d.auctions, b.id = a.id
      PROVE  /\ Wealth(Removed(d, a)) = Wealth(d) - (b.bid + Deposit)
             /\ Wealth(Changed(d, a)) = Wealth(d) - b.bid + a.bid
  <2>1. PICK S : S = {x \in d.auctions : x.id # a.id}
    OBVIOUS
  <2>2. S \in SUBSET Auctions /\ IsFiniteSet(S) /\ b \in Auctions \ S /\ a \notin S
    BY <1>1, <1>4, <2>1, FS_Subset
  <2>3. d.auctions = S \cup {b}
    BY <1>4, <2>1 DEF Sound
  <2>4. /\ Stakes(S) \in Nat /\ Stakes(d.auctions) = Stakes(S) + b.bid + Deposit
        /\ Stakes(S \cup {a}) = Stakes(S) + a.bid + Deposit
    BY <2>2, <2>3, StakesMove
  <2>5. PICK r : r = Removed(d, a)
    OBVIOUS
  <2>6. PICK e : e = Changed(d, a)
    OBVIOUS
  <2>7. r.mails = d.mails /\ r.gold = d.gold /\ r.auctions = S /\ r.spent = d.spent
    BY <1>1, <2>1, <2>5, AuctionFields DEF Others
  <2>8. e.mails = d.mails /\ e.gold = d.gold /\ e.auctions = S \cup {a} /\ e.spent = d.spent
    BY <1>1, <2>1, <2>6, AuctionFields DEF Others
  <2>9. /\ Wealth(r) = SumFunction(d.gold) + Money(d.mails) + Stakes(S) + d.spent
        /\ Wealth(e) = SumFunction(d.gold) + Money(d.mails) + Stakes(S \cup {a}) + d.spent
    BY <2>7, <2>8 DEF Wealth
  <2>10. b.bid \in Nat
    BY <1>2, <2>2
  <2>11. /\ Wealth(r) = Wealth(d) - (b.bid + Deposit)
         /\ Wealth(e) = Wealth(d) - b.bid + a.bid
    BY <1>1, <1>2, <2>4, <2>9, <2>10
  <2> QED
    BY <2>5, <2>6, <2>11
<1> QED
  BY <1>2, <1>3, <1>4

-----------------------------------------------------------------------------
(* What a handler must show: of its transactions, and of the last of them. *)

LEMMA StillAccounted ==
    ASSUME NEW d, NEW e, NEW i \in Item, Accounted(d, i),
           e.row[i] = d.row[i], i \in e.gone <=> i \in d.gone,
           \A m : m \in e.mails /\ i \in m.items <=> m \in d.mails /\ i \in m.items,
           \A a : a \in e.auctions /\ a.item = i <=> a \in d.auctions /\ a.item = i
    PROVE  Accounted(e, i)
BY Zenon DEF Accounted, Nowhere, InOnePlace, WithNobody, InNoMail, InNoAuction

\* From tables d and goods g to e and h, only what p has is changed.
OnlyOf(p, d, e, g, h) ==
    /\ \A i \in Item : e.row[i] = d.row[i]
                       \/ {e.row[i], d.row[i]} \cap (Player \ {p}) = {}
    /\ \A q \in Player \ {p} : /\ e.gold[q] = d.gold[q]
                               /\ h.bag[q] = g.bag[q] /\ h.gold[q] = g.gold[q]

LEMMA StillRecalled ==
    ASSUME NEW d, NEW e, NEW p \in Player, NEW ph, NEW g, NEW h, NEW b, NEW c,
           Recalled(d, ph, g, b), OnlyOf(p, d, e, g, h),
           \A q \in Player : ph[q] # "out" => c[q] \subseteq {m \in e.mails : m.to = q},
           ph[p] # "out" => h.bag[p] = Pack(e, p) /\ h.gold[p] = e.gold[p]
    PROVE  Recalled(e, ph, h, c)
<1>1. ASSUME NEW q \in Player \ {p}, ph[q] # "out"
      PROVE  h.bag[q] = Pack(e, q) /\ h.gold[q] = e.gold[q]
  <2>1. Pack(e, q) = Pack(d, q)
    BY DEF Pack, OnlyOf
  <2> QED
    BY <1>1, <2>1 DEF Recalled, OnlyOf
<1> QED
  BY <1>1 DEF Recalled

\* Marks go, or stay with the mails that they are of.
MarksStay(mk, ph, b) ==
    \A r \in Player :
        \/ mk[r] = {}
        \/ /\ mk[r] = marked[r] /\ ph[r] = phase[r]
           /\ \A x \in b[r] : x \in box[r] \/ x.id > posted

LEMMA HandlerKeeps ==
    ASSUME Books, Sure, NEW steps \in Seq(Rows(posted', opened')), steps # <<>>, Execute(steps),
           posted' \in posted..MaxMails, opened' \in opened..MaxAuctions,
           NEW e, e = steps[Len(steps)],
           phase' \in [Player -> {"out", "login", "in", "travel"}],
           goods' \in Holdings, box' \in [Player -> SUBSET Mails],
           behind' = behind, torn' = torn, spoilt' \in BOOLEAN, events' \in 0..MaxEvents,
           won' \in [1..MaxAuctions -> Player \cup {Nobody}],
           house' = e.auctions,
           marked' \in [Player -> SUBSET (1..MaxMails)], MarksStay(marked', phase', box'),
           Complete(e), Honours(Stored, e), Recalled(e, phase', goods', box')
    PROVE  Books' /\ Sure' /\ CodKept
<1>1. posted \in Nat /\ posted' \in Nat /\ posted <= posted'
  BY StoredFacts
<1>2. \A r \in Player : marked[r] \subseteq 1..posted /\ (phase[r] = "out" => marked[r] = {})
  BY DEF Books
<1>3. \A r \in Player : /\ marked'[r] \subseteq 1..posted'
                        /\ phase'[r] = "out" => marked'[r] = {}
  <2> SUFFICES ASSUME NEW r \in Player
               PROVE  marked'[r] \subseteq 1..posted' /\ (phase'[r] = "out" => marked'[r] = {})
    OBVIOUS
  <2>1. marked'[r] = {} \/ (marked'[r] = marked[r] /\ phase'[r] = phase[r])
    BY DEF MarksStay
  <2>2. 1..posted \subseteq 1..posted'
    BY <1>1
  <2> QED
    BY <1>2, <2>1, <2>2
<1>4. marked' \in [Player -> SUBSET Nat]
  OBVIOUS
<1>5. /\ Books'
      /\ Stored'.row = e.row /\ Stored'.gold = e.gold /\ Stored'.mails = e.mails
      /\ Stored'.auctions = e.auctions
      /\ Completed'
  BY <1>3, <1>4, BooksKept
<1>6. MemoryStored'
  <2>1. house' = Stored'.auctions
    BY <1>5
  <2>2. \A p \in Player : Pack(Stored', p) = Pack(e, p)
    BY <1>5 DEF Pack
  <2> QED
    BY <1>5, <2>1, <2>2 DEF MemoryStored, Recalled
<1>7. CodKept
  BY <1>5 DEF CodKept, Honours
<1>8. Bins'
  <2> SUFFICES ASSUME NEW r \in Player, phase'[r] # "out", NEW x \in box'[r], x.id \in marked'[r]
               PROVE  x.cod = 0
    BY DEF Bins
  <2>1. marked'[r] = marked[r] /\ phase'[r] = phase[r] /\ (x \in box[r] \/ x.id > posted)
    BY DEF MarksStay
  <2>2. ~(x.id > posted)
    BY <1>1, <1>2, <2>1
  <2> QED
    BY <2>1, <2>2 DEF Sure, Bins
<1> QED
  BY <1>5, <1>6, <1>7, <1>8 DEF Sure

-----------------------------------------------------------------------------
(* Mails that are sent.                                                    *)

LEMMA Natural ==
    ASSUME NEW a \in Nat, NEW b \in Nat
    PROVE  a * b \in Nat
OBVIOUS

LEMMA InOrder ==
    ASSUME NEW I \in SUBSET Item
    PROVE  Len(SetToSeq(I)) \in Nat /\ Cardinality(I) \in Nat
<1>1. IsFiniteSet(I)
  BY MailAssumption, FS_Subset
<1>2. Cardinality(I) \in Nat /\ ExistsBijection(1..Cardinality(I), I)
  BY <1>1, FS_CardinalityType
<1>3. PICK f \in Bijection(1..Cardinality(I), I) : TRUE
  BY <1>2 DEF ExistsBijection
<1>4. f \in [1..Cardinality(I) -> I] /\ IsInjective(f)
  BY <1>3 DEF Bijection, Injection, IsInjective
<1>5. SetToSeq(I) \in [1..Cardinality(I) -> I]
  BY <1>4 DEF SetToSeq
<1> QED
  BY <1>2, <1>5

LEMMA Posted ==
    ASSUME posted \in Nat
    PROVE  /\ Post({}) => posted' = posted
           /\ \A m : Post({m}) => posted' = posted + 1 /\ posted + 1 <= MaxMails
           /\ \A m, x : m # x /\ Post({m, x}) => posted' = posted + 2 /\ posted + 2 <= MaxMails
<1>1. Cardinality({}) = 0
  BY FS_EmptySet
<1>2. ASSUME NEW m
      PROVE  Cardinality({m}) = 1 /\ IsFiniteSet({m})
  BY FS_Singleton
<1>3. ASSUME NEW m, NEW x, m # x
      PROVE  Cardinality({m, x}) = 2
  <2>1. {m, x} = {m} \cup {x} /\ x \notin {m}
    BY <1>3
  <2>2. Cardinality({m} \cup {x}) = Cardinality({m}) + 1
    BY <1>2, <2>1, FS_AddElement
  <2>3. Cardinality({m, x}) = Cardinality({m}) + 1
    BY <2>1, <2>2
  <2> QED
    BY <1>2, <2>3
<1>4. Post({}) => posted' = posted
  BY <1>1 DEF Post
<1>5. \A m : Post({m}) => posted' = posted + 1 /\ posted + 1 <= MaxMails
  BY <1>2 DEF Post
<1>6. \A m, x : m # x /\ Post({m, x}) => posted' = posted + 2 /\ posted + 2 <= MaxMails
  BY <1>3 DEF Post
<1> QED
  BY <1>4, <1>5, <1>6

LEMMA Written ==
    ASSUME NEW n \in {1, 2}, posted \in Nat, posted + n <= MaxMails,
           NEW from \in Player \cup {House}, NEW to \in Player,
           NEW items \in SUBSET Item, NEW money \in Nat
    PROVE  LET m == Letter(n, from, to, items, money) IN
           /\ m \in Mails
           /\ m.id = posted + n /\ m.from = from /\ m.to = to /\ m.items = items
           /\ m.money = money /\ m.cod = 0 /\ m.mark = "sent"
BY MailAssumption DEF Letter, Mails

LEMMA InBoxes ==
    ASSUME NEW b \in [Player -> SUBSET Mails], NEW M \in SUBSET Mails
    PROVE  /\ Delivered(b, M) \in [Player -> SUBSET Mails]
           /\ \A q \in Player : Delivered(b, M)[q] \subseteq b[q] \cup {m \in M : m.to = q}
BY DEF Delivered

LEMMA EndsTwo ==
    ASSUME NEW S, NEW s \in Seq(S), NEW x \in S, NEW y \in S
    PROVE  /\ s \o <<x, y>> \in Seq(S) /\ s \o <<x, y>> # <<>>
           /\ y = (s \o <<x, y>>)[Len(s \o <<x, y>>)]
OBVIOUS

\* What a handler leaves alone.
LEMMA QuietFacts ==
    ASSUME Books, Quiet
    PROVE  /\ phase' = phase /\ behind' = behind /\ torn' = torn /\ spoilt' = spoilt
           /\ phase' \in [Player -> {"out", "login", "in", "travel"}]
           /\ spoilt' \in BOOLEAN /\ events' \in 0..MaxEvents
<1>1. TypeOK
  BY DEF Books
<1>2. MailTypeOK
  BY <1>1 DEF TypeOK
<1> QED
  BY <1>2 DEF MailTypeOK, Quiet, Steady

LEMMA RowsGrow ==
    ASSUME NEW n \in Nat, NEW k \in Nat, n <= k, NEW o \in Nat, NEW q \in Nat, o <= q,
           NEW d, Sound(d, n, o)
    PROVE  d \in Rows(k, q) /\ Sound(d, k, q)
<1>1. d \in Tables
  BY DEF Sound
<1> QED
  BY <1>1, SoundLater DEF Rows

\* What Sure says of the tables, and of a player in the world.
LEMMA SureFacts ==
    ASSUME Books, Sure
    PROVE  /\ Placed(Stored) /\ Wealth(Stored) = SumFunction(Gold0) /\ OnDelivery(Stored)
           /\ Recalled(Stored, phase, goods, box)
           /\ \A p \in Player : phase[p] # "out" =>
                /\ \A i \in Item : i \in goods.bag[p] <=> Stored.row[i] = p
                /\ goods.gold[p] = Stored.gold[p]
                /\ \A m \in box[p] : m \in Stored.mails /\ m.to = p
<1>1. Complete(Stored)
  BY StoredFacts
<1>2. MemoryStored
  BY DEF Sure
<1>3. Recalled(Stored, phase, goods, box)
  BY <1>2 DEF MemoryStored, Recalled
<1>4. ASSUME NEW p \in Player, phase[p] # "out"
      PROVE  /\ \A i \in Item : i \in goods.bag[p] <=> Stored.row[i] = p
             /\ goods.gold[p] = Stored.gold[p]
             /\ \A m \in box[p] : m \in Stored.mails /\ m.to = p
  BY <1>2, <1>4 DEF MemoryStored, Pack
<1> QED
  BY <1>1, <1>3, <1>4 DEF Complete

\* An item in an inventory is nowhere else.
LEMMA InInventory ==
    ASSUME NEW d, NEW p \in Player, NEW i \in Item, d.row[i] = p, Accounted(d, i)
    PROVE  InNoMail(d, i) /\ InNoAuction(d, i) /\ i \notin d.gone
BY MailAssumption DEF Accounted, InOnePlace, Nowhere, WithNobody

\* A handler after which nobody has come or gone and all marks are as before.
LEMMA QuietKeeps ==
    ASSUME Books, Sure, NEW steps \in Seq(Rows(posted', opened')), steps # <<>>, Execute(steps),
           posted' \in posted..MaxMails, opened' \in opened..MaxAuctions,
           NEW e, e = steps[Len(steps)],
           Quiet, marked' = marked,
           NEW g \in Holdings, goods' = g, NEW b \in [Player -> SUBSET Mails], box' = b,
           won' \in [1..MaxAuctions -> Player \cup {Nobody}],
           house' = e.auctions,
           \A r \in Player : \A x \in b[r] : x \in box[r] \/ x.id > posted,
           Complete(e), Honours(Stored, e), Recalled(e, phase, g, b)
    PROVE  Books' /\ Sure' /\ CodKept
<1>1. /\ phase' = phase /\ spoilt' \in BOOLEAN /\ events' \in 0..MaxEvents
      /\ behind' = behind /\ torn' = torn
      /\ phase' \in [Player -> {"out", "login", "in", "travel"}]
  BY QuietFacts
<1>2. Recalled(e, phase', goods', box')
  BY <1>1, Zenon
<1>3. MarksStay(marked', phase', box')
  BY <1>1 DEF MarksStay
<1>4. marked' \in [Player -> SUBSET (1..MaxMails)]
  BY MemoryType DEF Books
<1> QED
  BY <1>1, <1>2, <1>3, <1>4, HandlerKeeps

-----------------------------------------------------------------------------
(* The handlers of mail.                                                   *)

LEMMA Narrow ==
    ASSUME NEW n \in Nat
    PROVE  /\ n < Word => n % Word = n
           /\ 2 * n < Word => Int32(n) = n
BY MailAssumption DEF Int32

\* A step after which something can still be said.
LEMMA Unspoilt ==
    ASSUME Books, ~spoilt, ~spoilt', spoilt' \in BOOLEAN, Steady
    PROVE  Quiet
<1>1. spoilt \in BOOLEAN
  BY DEF Books, TypeOK, MailTypeOK
<1> QED
  BY <1>1 DEF Quiet

LEMMA SendMailKeeps ==
    ASSUME Books, Sure, NEW p \in Player, NEW q \in Player, NEW I \in SUBSET Item,
           NEW money \in Sum, NEW cod \in Sum, SendMail(p, q, I, money, cod),
           UNCHANGED <<house, opened, won>>, ~spoilt'
    PROVE  Books' /\ Sure' /\ CodKept
<1>1. PICK d : d = Stored
  OBVIOUS
<1>2. PICK cost : cost = Postage * (IF I = {} THEN 1 ELSE Cardinality(I))
  OBVIOUS
<1>3. PICK m : m = [Letter(1, p, q, I, money) EXCEPT !.cod = cod]
  OBVIOUS
<1>4. PICK g : g = [goods EXCEPT !.bag[p] = @ \ I, !.gold[p] = @ - (cost + money)]
  OBVIOUS
<1>5. PICK packed : packed = [k \in 1..Len(SetToSeq(I)) |->
                                Lost(d, {SetToSeq(I)[n] : n \in 1..k})]
  OBVIOUS
<1>6. PICK s0 : s0 = Lost(d, I)
  OBVIOUS
<1>7. PICK s1 : s1 = Inserted(s0, m)
  OBVIOUS
<1>8. PICK s2 : s2 = Saved(s1, p, g)
  OBVIOUS
<1>9. PICK e : e = Spent(s2, cost)
  OBVIOUS
<1>10. /\ InWorld(p) /\ p # q /\ I \subseteq goods.bag[p]
       /\ money = 0 \/ cod = 0
       /\ goods.gold[p] >= cost + money
       /\ Post({m}) /\ goods' = g /\ box' = Delivered(box, {m})
       /\ Execute(packed \o <<s1, e>>)
       /\ marked' = marked /\ Quiet
  <2>1. cost \in Nat /\ money \in Nat /\ Word \in Nat
    BY <1>2, InOrder, Natural, MailAssumption
  <2>2. spoilt' = (spoilt \/ cost + money >= Word) /\ Steady
    BY <1>2 DEF SendMail, Spoiling
  <2>7. ~spoilt /\ ~(cost + money >= Word) /\ spoilt' \in BOOLEAN
    BY <2>2
  <2>3. (cost + money) % Word = cost + money
    <3>1. cost + money \in Nat /\ cost + money < Word
      BY <2>1, <2>7
    <3> QED
      BY <3>1, Narrow
  <2>4. PICK r : r = (cost + money) % Word
    OBVIOUS
  <2>5. g = [goods EXCEPT !.bag[p] = @ \ I, !.gold[p] = @ - r] /\ r = cost + money
    BY <1>4, <2>3, <2>4
  <2>6. Quiet
    BY <2>2, <2>7, Unspoilt
  <2> QED
    BY <1>1, <1>2, <1>3, <1>5, <1>6, <1>7, <1>8, <1>9, <2>4, <2>5, <2>6 DEF SendMail
<1>11. /\ d \in Tables /\ Sound(d, posted, opened)
       /\ posted \in Nat /\ opened \in Nat /\ TypeOK
  BY <1>1, StoredFacts DEF Books
<1>12. /\ goods \in Holdings /\ goods.bag \in [Player -> SUBSET Item]
       /\ goods.gold \in [Player -> 0..MaxGold]
       /\ box \in [Player -> SUBSET Mails]
       /\ marked \in [Player -> SUBSET (1..MaxMails)]
       /\ MaxGold \in Nat /\ MaxMails \in Nat /\ Nobody \notin Player
  BY <1>11, MemoryType
<1>13. cost \in Nat /\ money \in Nat /\ cod \in Nat
  BY <1>2, InOrder, Natural, MailAssumption
<1>14. posted' = posted + 1 /\ posted + 1 <= MaxMails
  BY <1>10, <1>11, Posted
<1>15. /\ m \in Mails /\ m.id = posted + 1 /\ m.from = p /\ m.to = q /\ m.items = I
       /\ m.money = money /\ m.cod = cod /\ m.mark = "sent"
  <2>1. PICK l : l = Letter(1, p, q, I, money)
    OBVIOUS
  <2>2. /\ l \in Mails /\ l.id = posted + 1 /\ l.from = p /\ l.to = q /\ l.items = I
        /\ l.money = money /\ l.mark = "sent"
    BY <1>11, <1>13, <1>14, <2>1, Written
  <2> QED
    BY <1>3, <2>1, <2>2 DEF Mails
<1>16. /\ g \in Holdings /\ g.bag = [goods.bag EXCEPT ![p] = @ \ I]
       /\ g.gold = [goods.gold EXCEPT ![p] = @ - (cost + money)]
  <2>1. /\ g.bag = [goods.bag EXCEPT ![p] = @ \ I]
        /\ g.gold = [goods.gold EXCEPT ![p] = @ - (cost + money)]
        /\ g = [bag |-> g.bag, gold |-> g.gold]
    BY <1>4, <1>12 DEF Holdings
  <2>2. goods.gold[p] - (cost + money) \in 0..MaxGold
    BY <1>10, <1>12, <1>13
  <2> QED
    BY <1>12, <2>1, <2>2 DEF Holdings
<1>17. /\ Sound(s0, posted, opened) /\ Sound(s1, posted', opened')
       /\ Sound(s2, posted', opened') /\ Sound(e, posted', opened') /\ m \notin s0.mails
  <2>1. Sound(s0, posted, opened)
    BY <1>6, <1>11, SoundLost
  <2>2. Sound(s1, posted', opened') /\ m \notin s0.mails
    BY <1>7, <1>11, <1>14, <1>15, <2>1, SoundInserted
  <2>3. Sound(s2, posted', opened')
    BY <1>8, <1>16, <2>2, SoundSaved
  <2> QED
    BY <1>9, <1>13, <2>1, <2>2, <2>3, SoundSpent
<1>18. /\ packed \o <<s1, e>> \in Seq(Rows(posted', opened')) /\ packed \o <<s1, e>> # <<>>
       /\ e = (packed \o <<s1, e>>)[Len(packed \o <<s1, e>>)]
  <2>1. Len(SetToSeq(I)) \in Nat
    BY InOrder
  <2>2. ASSUME NEW J
        PROVE  Lost(d, J) \in Rows(posted', opened')
    <3>1. Sound(Lost(d, J), posted, opened)
      BY <1>11, SoundLost
    <3>2. /\ posted' \in Nat /\ posted <= posted' /\ opened' = opened
          /\ opened' \in Nat /\ opened <= opened'
      BY <1>11, <1>14
    <3> QED
      BY <1>11, <3>1, <3>2, RowsGrow
  <2>3. packed \in Seq(Rows(posted', opened'))
    BY <1>5, <2>1, <2>2
  <2>4. s1 \in Rows(posted', opened') /\ e \in Rows(posted', opened')
    BY <1>17 DEF Rows, Sound
  <2> QED
    BY <2>3, <2>4, EndsTwo
<1>19. /\ s0 \in Tables /\ s1 \in Tables /\ s2 \in Tables
       /\ s1.gold = d.gold
       /\ e.row = [i \in Item |-> IF i \in g.bag[p] THEN p
                                  ELSE IF i \in I THEN Nobody ELSE d.row[i]]
       /\ e.gold = [d.gold EXCEPT ![p] = g.gold[p]]
       /\ e.mails = d.mails \cup {m} /\ e.auctions = d.auctions /\ e.gone = d.gone
  <2>1. /\ s0 \in Tables /\ s0.row = [i \in Item |-> IF i \in I THEN Nobody ELSE d.row[i]]
        /\ s0.gold = d.gold /\ s0.mails = d.mails /\ s0.auctions = d.auctions
        /\ s0.gone = d.gone
    BY <1>6, <1>11, LostFields DEF Others
  <2>2. /\ s1 \in Tables /\ s1.row = s0.row
        /\ s1.gold = d.gold /\ s1.mails = d.mails \cup {m} /\ s1.auctions = d.auctions
        /\ s1.gone = d.gone
    BY <1>7, <1>15, <2>1, InsertedFields DEF Others
  <2>3. /\ s2 \in Tables
        /\ s2.row = [i \in Item |-> IF i \in g.bag[p] THEN p ELSE s1.row[i]]
        /\ s2.gold = [s1.gold EXCEPT ![p] = g.gold[p]] /\ s2.mails = s1.mails
        /\ s2.auctions = s1.auctions /\ s2.gone = s1.gone
    <3>1. s1 \in Tables /\ g \in Holdings
      BY <1>16, <2>2
    <3> QED
      BY <1>8, <3>1, SavedFields DEF Others
  <2>4. /\ e.row = s2.row /\ e.gold = s2.gold /\ e.mails = s2.mails
        /\ e.auctions = s2.auctions /\ e.gone = s2.gone
    BY <1>9, <1>13, <2>3, SpentFields
  <2> QED
    BY <2>1, <2>2, <2>3, <2>4
<1>20. box' \in [Player -> SUBSET Mails]
       /\ \A r \in Player : box'[r] \subseteq box[r] \cup {x \in {m} : x.to = r}
  BY <1>10, <1>12, <1>15, InBoxes
<1>21. Complete(e) /\ Honours(Stored, e) /\ Recalled(e, phase, g, box')
  <2>1. /\ Placed(d) /\ Wealth(d) = SumFunction(Gold0) /\ OnDelivery(d)
        /\ Recalled(d, phase, goods, box)
        /\ \A i \in Item : i \in goods.bag[p] <=> d.row[i] = p
        /\ goods.gold[p] = d.gold[p]
        /\ \A r \in Player : phase[r] # "out" => \A x \in box[r] : x \in d.mails /\ x.to = r
    BY <1>1, <1>10, SureFacts DEF InWorld
  <2>2. Wealth(e) = SumFunction(Gold0)
    <3>1. Wealth(s0) = Wealth(d)
      BY <1>6, <1>11, WealthOfMail
    <3>2. Wealth(s1) = Wealth(s0) + money
      BY <1>7, <1>15, <1>17, WealthOfMail
    <3>3. Wealth(s2) = Wealth(s1) - d.gold[p] + g.gold[p]
      <4>1. Wealth(Saved(s1, p, g)) = Wealth(s1) - s1.gold[p] + g.gold[p]
        <5>1. g \in Holdings
          BY <1>16
        <5> QED
          BY <1>17, <5>1, WealthOfPurse
      <4> QED
        BY <1>8, <1>19, <4>1
    <3>4. Wealth(e) = Wealth(s2) + cost
      BY <1>9, <1>13, <1>17, WealthOfMail
    <3>5. g.gold[p] = d.gold[p] - (cost + money) /\ d.gold[p] \in Nat
      BY <1>12, <1>16, <2>1
    <3>6. Wealth(d) \in Nat
      BY <1>11, WealthParts
    <3> QED
      BY <1>13, <2>1, <3>1, <3>2, <3>3, <3>4, <3>5, <3>6
  <2>3. \A i \in Item : i \in g.bag[p] <=> d.row[i] = p /\ i \notin I
    BY <1>12, <1>16, <2>1
  <2>4. \A i \in Item : e.row[i] = IF i \in I THEN Nobody ELSE d.row[i]
    BY <1>19, <2>3
  <2>5. Placed(e)
    <3> SUFFICES ASSUME NEW i \in Item PROVE Accounted(e, i)
      BY DEF Placed
    <3>1. Accounted(d, i)
      BY <2>1 DEF Placed
    <3>2. CASE i \in I
      <4>1. d.row[i] = p
        BY <1>10, <2>1, <3>2
      <4>2. InNoMail(d, i) /\ InNoAuction(d, i) /\ i \notin d.gone
        BY <3>1, <4>1, InInventory
      <4> QED
        BY <1>15, <1>19, <2>4, <3>2, <4>2
           DEF Accounted, InOnePlace, WithNobody, InNoMail, InNoAuction
    <3>3. CASE i \notin I
      <4>1. e.row[i] = d.row[i] /\ i \notin m.items
        BY <1>15, <2>4, <3>3
      <4>2. \A x : x \in e.mails /\ i \in x.items <=> x \in d.mails /\ i \in x.items
        BY <1>19, <4>1
      <4> QED
        BY <1>19, <3>1, <4>1, <4>2, StillAccounted
    <3> QED
      BY <3>2, <3>3
  <2>6. OnDelivery(e)
    <3>1. m.cod > 0 => m.mark = "sent" /\ m.from # House /\ m.money = 0
      BY <1>10, <1>13, <1>15, MailAssumption
    <3> QED
      BY <1>19, <2>1, <3>1 DEF OnDelivery
  <2>7. Honours(d, e)
    BY <1>19 DEF Honours
  <2>8. Recalled(e, phase, g, box')
    <3>1. \A i \in Item : e.row[i] = d.row[i] \/ {e.row[i], d.row[i]} \cap (Player \ {p}) = {}
      BY <1>10, <1>12, <2>1, <2>4
    <3>2. \A r \in Player \ {p} : /\ e.gold[r] = d.gold[r]
                                  /\ g.bag[r] = goods.bag[r] /\ g.gold[r] = goods.gold[r]
      BY <1>11, <1>12, <1>16, <1>19 DEF Tables
    <3>3. \A r \in Player : phase[r] # "out" => box'[r] \subseteq {x \in e.mails : x.to = r}
      BY <1>19, <1>20, <2>1
    <3>4. g.gold[p] = e.gold[p]
      BY <1>11, <1>19 DEF Tables
    <3>5. g.bag[p] = Pack(e, p)
      <4>1. g.bag[p] \subseteq Item
        BY <1>16 DEF Holdings
      <4> QED
        BY <1>12, <2>3, <2>4, <4>1 DEF Pack
    <3>6. OnlyOf(p, d, e, goods, g)
      BY <3>1, <3>2 DEF OnlyOf
    <3> QED
      BY <2>1, <3>3, <3>4, <3>5, <3>6, StillRecalled
  <2> QED
    BY <1>1, <2>2, <2>5, <2>6, <2>7, <2>8 DEF Complete
<1>22. \A r \in Player : \A x \in box'[r] : x \in box[r] \/ x.id > posted
  BY <1>11, <1>15, <1>20
<1>23. /\ won' \in [1..MaxAuctions -> Player \cup {Nobody}] /\ house' = e.auctions
       /\ opened' \in opened..MaxAuctions /\ posted' \in posted..MaxMails
  <2>1. house' = e.auctions
    BY <1>1, <1>19 DEF Books
  <2>2. won' \in [1..MaxAuctions -> Player \cup {Nobody}] /\ opened' \in opened..MaxAuctions
    BY <1>11, AuctionAssumption DEF TypeOK
  <2> QED
    BY <1>11, <1>12, <1>14, <2>1, <2>2
<1> QED
  BY <1>10, <1>16, <1>18, <1>20, <1>21, <1>22, <1>23, QuietKeeps

\* An item in a mail is nowhere else.
LEMMA InMail ==
    ASSUME NEW d, NEW m \in d.mails, NEW i \in m.items, Accounted(d, i)
    PROVE  /\ WithNobody(d, i) /\ InNoAuction(d, i) /\ i \notin d.gone
           /\ \A x \in d.mails : i \in x.items => x = m
<1>1. ~InNoMail(d, i)
  BY DEF InNoMail
<1>2. ~Nowhere(d, i) /\ i \notin d.gone /\ InOnePlace(d, i)
  BY <1>1 DEF Accounted, Nowhere
<1>3. /\ WithNobody(d, i) /\ InNoAuction(d, i)
      /\ \E y \in d.mails : i \in y.items /\ \A x \in d.mails : i \in x.items => x = y
  BY <1>1, <1>2 DEF InOnePlace
<1> QED
  BY <1>2, <1>3

\* Mails that their owner threw away are erased.
LEMMA ErasedComplete ==
    ASSUME NEW d, NEW n, NEW o, Sound(d, n, o), Placed(d), OnDelivery(d),
           NEW B \in SUBSET d.mails
    PROVE  LET e == Erased(d, B) IN
           /\ Placed(e) /\ OnDelivery(e) /\ Wealth(e) = Wealth(d) /\ Sound(e, n, o)
           /\ e.mails = d.mails \ B
           /\ e.row = d.row /\ e.gold = d.gold /\ e.auctions = d.auctions
<1>1. d \in Tables /\ IsFiniteSet(d.mails) /\ d.mails \in SUBSET Mails /\ B \in SUBSET Mails
  BY DEF Sound, Tables
<1>2. PICK e : e = Erased(d, B)
  OBVIOUS
<1>3. PICK used : used = UNION {m.items : m \in B}
  OBVIOUS
<1>4. {x \in d.mails : x.id \in Ids(B)} = B
  BY DEF Ids, Sound
<1>5. /\ e.mails = d.mails \ B /\ e.gone = d.gone \cup used
      /\ e.row = d.row /\ e.gold = d.gold /\ e.auctions = d.auctions
  BY <1>1, <1>2, <1>3, <1>4, ErasedFields
<1>6. Wealth(Erased(d, B)) = Wealth(d)
  BY <1>1, WealthOfMail
<1>7. Placed(e)
  <2> SUFFICES ASSUME NEW i \in Item PROVE Accounted(e, i)
    BY DEF Placed
  <2>1. Accounted(d, i)
    BY DEF Placed
  <2>2. CASE i \in used
    <3>1. PICK m \in B : i \in m.items
      BY <1>3, <2>2
    <3>2. /\ WithNobody(d, i) /\ InNoAuction(d, i)
          /\ \A x \in d.mails : i \in x.items => x = m
      BY <2>1, <3>1, InMail
    <3>3. i \in e.gone
      BY <1>5, <2>2
    <3>4. \A x \in e.mails : i \notin x.items
      BY <1>5, <3>1, <3>2
    <3> QED
      BY <1>5, <3>2, <3>3, <3>4 DEF Accounted, Nowhere, WithNobody, InNoMail, InNoAuction
  <2>3. CASE i \notin used
    <3>1. i \in e.gone <=> i \in d.gone
      BY <1>5, <2>3
    <3>2. \A x \in B : i \notin x.items
      BY <1>3, <2>3
    <3>3. \A x : x \in e.mails /\ i \in x.items <=> x \in d.mails /\ i \in x.items
      BY <1>5, <3>2
    <3> QED
      BY <1>5, <2>1, <3>1, <3>3, StillAccounted
  <2> QED
    BY <2>2, <2>3
<1>8. OnDelivery(e)
  BY <1>5 DEF OnDelivery
<1>9. Sound(Erased(d, B), n, o)
  BY <1>1, SoundErased
<1> QED
  BY <1>2, <1>5, <1>6, <1>7, <1>8, <1>9

\* The mails that a player in memory has thrown away.
LEMMA BinnedFacts ==
    ASSUME Books, Sure, NEW p \in Player, phase[p] # "out"
    PROVE  /\ Binned(p) \in SUBSET Stored.mails /\ Binned(p) \in SUBSET box[p]
           /\ \A x \in Binned(p) : x.cod = 0 /\ x.to = p /\ x.id \in marked[p]
<1>1. \A x \in box[p] : x \in Stored.mails /\ x.to = p
  BY SureFacts
<1>2. \A x \in box[p] : x.id \in marked[p] => x.cod = 0
  BY DEF Sure, Bins
<1> QED
  BY <1>1, <1>2 DEF Binned

\* The row of a mail from which some was taken.
LEMMA UpdatedRow ==
    ASSUME NEW d, NEW n, NEW o, Sound(d, n, o), NEW m \in d.mails, NEW I, NEW t \in Mails,
           t.id = m.id, t.from = m.from, t.to = m.to, t.items = m.items \ I,
           \A x \in d.mails : x # m => x.items \cap I = {}
    PROVE  LET e == Updated(d, t, I) IN
           /\ Sound(e, n, o) /\ e \in Tables
           /\ e.mails = (d.mails \ {m}) \cup {t}
           /\ e.gold = d.gold /\ e.row = d.row /\ e.auctions = d.auctions
           /\ e.gone = d.gone /\ e.spent = d.spent
<1> DEFINE bare(x) == [x EXCEPT !.items = @ \ I]
           new(x) == [x EXCEPT !.items = @ \ I, !.money = t.money, !.cod = t.cod,
                               !.mark = t.mark]
<1>1. d \in Tables /\ d.mails \in SUBSET Mails
  BY DEF Sound, Tables
<1>2. PICK e : e = Updated(d, t, I)
  OBVIOUS
<1>3. /\ e \in Tables
      /\ e.mails = {IF x.id # t.id THEN bare(x) ELSE new(x) : x \in d.mails}
      /\ e.gold = d.gold /\ e.row = d.row /\ e.auctions = d.auctions /\ Others(d, e)
  BY <1>1, <1>2, UpdatedFields
<1>4. new(m) = t
  <2>1. m \in Mails
    BY <1>1
  <2> QED
    BY <2>1 DEF Mails
<1>5. \A x \in d.mails : x.id = t.id <=> x = m
  BY DEF Sound
<1>8. ASSUME NEW x \in d.mails, x # m
      PROVE  bare(x) = x
  <2>1. x \in Mails /\ x.items \ I = x.items
    BY <1>1, <1>8
  <2> QED
    BY <2>1 DEF Mails
<1> HIDE DEF new, bare
<1>6. e.mails = (d.mails \ {m}) \cup {t}
  BY <1>3, <1>4, <1>5, <1>8
<1>7. Sound(e, n, o)
  BY <1>2, SoundUpdated
<1> QED
  BY <1>2, <1>3, <1>6, <1>7 DEF Others

LEMMA TakeItemKeeps ==
    ASSUME Books, Sure, NEW p \in Player, NEW m, NEW i \in Item, TakeItem(p, m, i),
           UNCHANGED <<house, opened, won>>, ~spoilt'
    PROVE  Books' /\ Sure' /\ CodKept
<1>1. PICK d : d = Stored
  OBVIOUS
<1>2. PICK B : B = Binned(p)
  OBVIOUS
<1>3. PICK taken : taken = [m EXCEPT !.items = @ \ {i}, !.cod = 0]
  OBVIOUS
<1>4. PICK pay : pay = [Letter(1, p, m.from, {}, m.cod) EXCEPT !.mark = "paid"]
  OBVIOUS
<1>5. PICK g : g = [goods EXCEPT !.bag[p] = @ \cup {i}, !.gold[p] = @ - m.cod]
  OBVIOUS
<1>6. PICK paid : paid = IF m.cod > 0 THEN Inserted(d, pay) ELSE d
  OBVIOUS
<1>7. PICK sv : sv = Saved(paid, p, g)
  OBVIOUS
<1>8. PICK u : u = Updated(sv, taken, {i})
  OBVIOUS
<1>9. PICK e : e = Erased(u, B)
  OBVIOUS
<1>10. PICK M : M = IF m.cod > 0 THEN {pay} ELSE {}
  OBVIOUS
<1>11. PICK steps : steps = IF m.cod > 0 THEN <<paid, e>> ELSE <<e>>
  OBVIOUS
<1>12. PICK b0 : b0 = [box EXCEPT ![p] = (@ \ (B \cup {m})) \cup {taken}]
  OBVIOUS
<1>13. /\ InWorld(p) /\ m \in box[p] /\ m.id \notin marked[p] /\ i \in m.items
       /\ goods.gold[p] >= m.cod
       /\ Post(M) /\ goods' = g /\ box' = Delivered(b0, M)
       /\ Execute(steps) /\ Emptied(p) /\ Quiet
  <2>3. spoilt' = (spoilt \/ i \notin m.items) /\ Steady
    BY DEF TakeItem, Spoiling
  <2>1. ~spoilt /\ i \in m.items /\ spoilt' \in BOOLEAN
    BY <2>3
  <2>2. Quiet
    BY <2>1, <2>3, Unspoilt
  <2> QED
    BY <1>1, <1>2, <1>3, <1>4, <1>5, <1>6, <1>7, <1>8, <1>9, <1>10, <1>11, <1>12, <2>1, <2>2
       DEF TakeItem, Mine
<1>14. /\ d \in Tables /\ Sound(d, posted, opened) /\ d.mails \in SUBSET Mails
       /\ posted \in Nat /\ opened \in Nat /\ posted <= MaxMails /\ TypeOK
  BY <1>1, StoredFacts DEF Books, Tables
<1>15. /\ goods \in Holdings /\ goods.bag \in [Player -> SUBSET Item]
       /\ goods.gold \in [Player -> 0..MaxGold]
       /\ box \in [Player -> SUBSET Mails]
       /\ marked \in [Player -> SUBSET (1..MaxMails)]
       /\ MaxGold \in Nat /\ MaxMails \in Nat /\ Nobody \notin Player /\ House \notin Player
  BY <1>14, MemoryType
<1>16. /\ Placed(d) /\ Wealth(d) = SumFunction(Gold0) /\ OnDelivery(d)
       /\ Recalled(d, phase, goods, box)
       /\ \A j \in Item : j \in goods.bag[p] <=> d.row[j] = p
       /\ goods.gold[p] = d.gold[p]
       /\ \A r \in Player : phase[r] # "out" => \A x \in box[r] : x \in d.mails /\ x.to = r
  BY <1>1, <1>13, SureFacts DEF InWorld
<1>17. /\ m \in d.mails /\ m \in Mails /\ m.to = p
       /\ m.cod \in Nat /\ m.items \in SUBSET Item /\ m.id \in Nat /\ m.id <= posted
       /\ m.cod > 0 => m.from \in Player
  <2>1. m \in d.mails /\ m \in Mails /\ m.to = p
    BY <1>13, <1>14, <1>16 DEF InWorld
  <2>2. m.cod \in Nat /\ m.items \in SUBSET Item /\ m.id \in Nat /\ m.from \in Player \cup {House}
    BY <2>1, MailAssumption DEF Mails
  <2>3. m.id <= posted
    BY <1>14, <2>1 DEF Sound
  <2> QED
    BY <1>16, <2>1, <2>2, <2>3 DEF OnDelivery
<1>18. /\ B \in SUBSET d.mails /\ B \in SUBSET box[p]
       /\ \A x \in B : x.cod = 0 /\ x.to = p /\ x.id \in marked[p]
  BY <1>1, <1>2, <1>13, BinnedFacts DEF InWorld
<1>19. /\ taken \in Mails /\ taken.id = m.id /\ taken.from = m.from /\ taken.to = p
       /\ taken.items = m.items \ {i} /\ taken.money = m.money /\ taken.cod = 0
  BY <1>3, <1>17 DEF Mails
<1>20. ASSUME m.cod > 0
       PROVE  /\ pay \in Mails /\ pay.id = posted + 1 /\ pay.to = m.from /\ pay.items = {}
              /\ pay.money = m.cod /\ pay.cod = 0
              /\ posted' = posted + 1 /\ posted + 1 <= MaxMails
  <2>1. posted' = posted + 1 /\ posted + 1 <= MaxMails
    BY <1>10, <1>13, <1>14, <1>20, Posted
  <2>2. PICK l : l = Letter(1, p, m.from, {}, m.cod)
    OBVIOUS
  <2>3. /\ l \in Mails /\ l.id = posted + 1 /\ l.to = m.from /\ l.items = {}
        /\ l.money = m.cod /\ l.cod = 0
    BY <1>14, <1>17, <1>20, <2>1, <2>2, Written
  <2> QED
    BY <1>4, <2>1, <2>2, <2>3 DEF Mails
<1>21. posted' \in posted..MaxMails /\ posted' \in Nat /\ posted <= posted'
  <2>1. CASE m.cod > 0
    BY <1>14, <1>15, <1>20, <2>1
  <2>2. CASE ~(m.cod > 0)
    BY <1>10, <1>13, <1>14, <1>15, <2>2, Posted
  <2> QED
    BY <2>1, <2>2
<1>22. /\ g \in Holdings /\ g.bag = [goods.bag EXCEPT ![p] = @ \cup {i}]
       /\ g.gold = [goods.gold EXCEPT ![p] = @ - m.cod]
       /\ g.gold[p] = goods.gold[p] - m.cod
  <2>1. /\ g.bag = [goods.bag EXCEPT ![p] = @ \cup {i}]
        /\ g.gold = [goods.gold EXCEPT ![p] = @ - m.cod]
        /\ g = [bag |-> g.bag, gold |-> g.gold]
    BY <1>5, <1>15 DEF Holdings
  <2>2. goods.gold[p] - m.cod \in 0..MaxGold
    BY <1>13, <1>15, <1>17
  <2> QED
    BY <1>15, <2>1, <2>2 DEF Holdings
<1>23. M \in SUBSET Mails /\ \A x \in M : x = pay /\ m.cod > 0 /\ x.id > posted /\ x \notin d.mails
  <2>1. m.cod > 0 => pay \in Mails /\ pay.id > posted
    BY <1>14, <1>20
  <2>2. m.cod > 0 => pay \notin d.mails
    <3>1. \A x \in d.mails : x.id <= posted
      BY <1>14 DEF Sound
    <3> QED
      BY <1>14, <1>20, <3>1
  <2> QED
    BY <1>10, <2>1, <2>2
<1>24. /\ paid \in Tables /\ Sound(paid, posted', opened) /\ Wealth(paid) = Wealth(d) + m.cod
       /\ paid.mails = d.mails \cup M /\ paid.gold = d.gold /\ paid.row = d.row
       /\ paid.auctions = d.auctions /\ paid.gone = d.gone
  <2>1. CASE m.cod > 0
    <3>1. /\ pay \in Mails /\ pay.id = posted + 1 /\ pay.money = m.cod /\ posted' = posted + 1
      BY <1>20, <2>1
    <3>2. Sound(Inserted(d, pay), posted', opened) /\ pay \notin d.mails
      BY <1>14, <3>1, SoundInserted
    <3>3. Wealth(Inserted(d, pay)) = Wealth(d) + m.cod
      BY <1>14, <3>1, <3>2, WealthOfMail
    <3>4. paid = Inserted(d, pay) /\ M = {pay}
      BY <1>6, <1>10, <2>1
    <3> QED
      BY <1>14, <3>1, <3>2, <3>3, <3>4, InsertedFields DEF Others
  <2>2. CASE ~(m.cod > 0)
    <3>1. paid = d /\ M = {} /\ m.cod = 0
      BY <1>6, <1>10, <1>17, <2>2
    <3>2. Sound(d, posted', opened)
      BY <1>14, <1>21, RowsGrow
    <3>3. Wealth(d) \in Nat
      BY <1>14, WealthParts
    <3> QED
      BY <1>14, <3>1, <3>2, <3>3
  <2> QED
    BY <2>1, <2>2
<1>25. /\ sv \in Tables /\ Sound(sv, posted', opened)
       /\ sv.row = [j \in Item |-> IF j \in g.bag[p] THEN p ELSE d.row[j]]
       /\ sv.gold = [d.gold EXCEPT ![p] = g.gold[p]] /\ sv.mails = d.mails \cup M
       /\ sv.auctions = d.auctions /\ sv.gone = d.gone
  <2>1. g \in Holdings
    BY <1>22
  <2>2. Sound(sv, posted', opened)
    BY <1>7, <1>24, <2>1, SoundSaved
  <2>3. /\ sv \in Tables
        /\ sv.row = [j \in Item |-> IF j \in g.bag[p] THEN p ELSE paid.row[j]]
        /\ sv.gold = [paid.gold EXCEPT ![p] = g.gold[p]] /\ sv.mails = paid.mails
        /\ sv.auctions = paid.auctions /\ sv.gone = paid.gone
    BY <1>7, <1>24, <2>1, SavedFields DEF Others
  <2> QED
    BY <1>24, <2>2, <2>3
<1>26. /\ Sound(u, posted', opened) /\ u \in Tables
       /\ u.mails = ((d.mails \cup M) \ {m}) \cup {taken}
       /\ u.gold = sv.gold /\ u.row = sv.row /\ u.auctions = d.auctions
       /\ u.gone = d.gone /\ u.spent = sv.spent
  <2>1. m \in sv.mails
    BY <1>17, <1>25
  <2>2. taken.to = m.to
    BY <1>17, <1>19
  <2>4. \A x \in sv.mails : x # m => x.items \cap {i} = {}
    <3>1. Accounted(d, i)
      BY <1>16 DEF Placed
    <3>2. \A x \in d.mails : i \in x.items => x = m
      BY <1>13, <1>17, <3>1, InMail
    <3> QED
      BY <1>20, <1>23, <1>25, <3>2
  <2>3. LET f == Updated(sv, taken, {i}) IN
        /\ Sound(f, posted', opened) /\ f \in Tables
        /\ f.mails = (sv.mails \ {m}) \cup {taken}
        /\ f.gold = sv.gold /\ f.row = sv.row /\ f.auctions = sv.auctions
        /\ f.gone = sv.gone /\ f.spent = sv.spent
    BY <1>19, <1>25, <2>1, <2>2, <2>4, UpdatedRow
  <2> QED
    BY <1>8, <1>25, <2>3
<1>27. \A j \in Item : u.row[j] = IF j = i THEN p ELSE d.row[j]
  BY <1>15, <1>16, <1>22, <1>25, <1>26
<1>28. Wealth(u) = SumFunction(Gold0)
  <2>1. Wealth(u) = Wealth(sv)
    <3>1. m \in sv.mails
      BY <1>17, <1>25
    <3>2. u.mails = (sv.mails \ {m}) \cup {taken} /\ u.auctions = sv.auctions
      BY <1>25, <1>26
    <3>3. Wealth(u) = Wealth(sv) - m.money + taken.money /\ m.money \in Nat
      BY <1>19, <1>25, <1>26, <3>1, <3>2, WealthOfRow
    <3>4. Wealth(sv) \in Nat
      BY <1>25, WealthParts
    <3> QED
      BY <1>19, <3>3, <3>4
  <2>2. Wealth(sv) = Wealth(paid) - d.gold[p] + g.gold[p]
    <3>1. g \in Holdings
      BY <1>22
    <3>2. Wealth(Saved(paid, p, g)) = Wealth(paid) - paid.gold[p] + g.gold[p]
      BY <1>24, <3>1, WealthOfPurse
    <3> QED
      BY <1>7, <1>24, <3>2
  <2>3. g.gold[p] = d.gold[p] - m.cod /\ d.gold[p] \in Nat
    BY <1>15, <1>16, <1>22
  <2>4. Wealth(d) \in Nat
    BY <1>14, WealthParts
  <2> QED
    BY <1>16, <1>17, <1>24, <2>1, <2>2, <2>3, <2>4
<1>29. Placed(u)
  <2> SUFFICES ASSUME NEW j \in Item PROVE Accounted(u, j)
    BY DEF Placed
  <2>1. Accounted(d, j)
    BY <1>16 DEF Placed
  <2>2. \A x \in M : x.items = {}
    BY <1>20, <1>23
  <2>3. CASE j \in m.items
    <3>1. /\ WithNobody(d, j) /\ InNoAuction(d, j) /\ j \notin d.gone
          /\ \A x \in d.mails : j \in x.items => x = m
      BY <1>17, <2>1, <2>3, InMail
    <3>2. \A x \in u.mails : j \in x.items => x = taken
      BY <1>26, <2>2, <3>1
    <3>3. CASE j = i
      <4>1. j \notin taken.items
        BY <1>19, <3>3
      <4> QED
        BY <1>26, <1>27, <3>1, <3>2, <3>3, <4>1
           DEF Accounted, InOnePlace, InNoMail, InNoAuction
    <3>4. CASE j # i
      <4>1. j \in taken.items /\ taken \in u.mails
        BY <1>19, <1>26, <2>3, <3>4
      <4> QED
        BY <1>26, <1>27, <3>1, <3>2, <3>4, <4>1
           DEF Accounted, InOnePlace, InNoAuction, WithNobody
    <3> QED
      BY <3>3, <3>4
  <2>4. CASE j \notin m.items
    <3>1. j # i /\ j \notin taken.items
      BY <1>13, <1>19, <2>4
    <3>2. \A x : x \in u.mails /\ j \in x.items <=> x \in d.mails /\ j \in x.items
      BY <1>26, <2>2, <2>4, <3>1
    <3> QED
      BY <1>26, <1>27, <2>1, <3>1, <3>2, StillAccounted
  <2> QED
    BY <2>3, <2>4
<1>30. OnDelivery(u)
  <2>1. \A x \in M : x.cod = 0
    BY <1>20, <1>23
  <2> QED
    BY <1>16, <1>19, <1>26, <2>1 DEF OnDelivery
<1>31. /\ Sound(e, posted', opened) /\ Complete(e) /\ e.mails = u.mails \ B
       /\ e.row = u.row /\ e.gold = u.gold /\ e.auctions = u.auctions
  <2>1. B \in SUBSET u.mails
    BY <1>13, <1>18, <1>26
  <2>2. LET f == Erased(u, B) IN
        /\ Placed(f) /\ OnDelivery(f) /\ Wealth(f) = Wealth(u) /\ Sound(f, posted', opened)
        /\ f.mails = u.mails \ B
        /\ f.row = u.row /\ f.gold = u.gold /\ f.auctions = u.auctions
    BY <1>26, <1>29, <1>30, <2>1, ErasedComplete
  <2> QED
    BY <1>9, <1>28, <2>2 DEF Complete
<1>32. taken \notin B /\ \A x \in M : x \notin B
  <2>1. \A x \in M : x \notin B
    BY <1>18, <1>23
  <2> QED
    BY <1>13, <1>18, <1>19, <2>1
<1>33. /\ steps \in Seq(Rows(posted', opened')) /\ steps # <<>> /\ e = steps[Len(steps)]
  <2>1. opened' = opened
    OBVIOUS
  <2>2. paid \in Rows(posted', opened') /\ e \in Rows(posted', opened')
    BY <1>24, <1>31, <2>1 DEF Rows, Sound
  <2> QED
    BY <1>11, <2>2
<1>34. Honours(d, e)
  <2> SUFFICES ASSUME NEW x \in d.mails, x.cod > 0, x.items # {}
               PROVE  \/ x \in e.mails
                      \/ \E y \in e.mails : y.to = x.from /\ (y.items = x.items \/ y.money = x.cod)
    BY DEF Honours
  <2>1. CASE x = m
    <3>1. pay \in M
      BY <1>10, <2>1
    <3>2. pay \in e.mails
      <4>1. pay # m
        BY <1>17, <1>23, <3>1
      <4> QED
        BY <1>26, <1>31, <1>32, <3>1, <4>1
    <3> QED
      BY <1>20, <2>1, <3>2
  <2>2. CASE x # m
    <3>1. x \notin B
      BY <1>18
    <3> QED
      BY <1>26, <1>31, <2>2, <3>1
  <2> QED
    BY <2>1, <2>2
<1>35. /\ b0 \in [Player -> SUBSET Mails]
       /\ b0[p] = (box[p] \ (B \cup {m})) \cup {taken}
       /\ \A r \in Player \ {p} : b0[r] = box[r]
  BY <1>12, <1>15, <1>19
<1>36. /\ box' \in [Player -> SUBSET Mails]
       /\ \A r \in Player : box'[r] \subseteq b0[r] \cup {x \in M : x.to = r}
  BY <1>13, <1>23, <1>35, InBoxes
<1>37. Recalled(e, phase, g, box')
  <2>1. \A j \in Item : e.row[j] = d.row[j] \/ {e.row[j], d.row[j]} \cap (Player \ {p}) = {}
    <3>1. d.row[i] = Nobody
      <4>1. Accounted(d, i)
        BY <1>16 DEF Placed
      <4> QED
        BY <1>13, <1>17, <4>1, InMail DEF WithNobody
    <3> QED
      BY <1>15, <1>27, <1>31, <3>1
  <2>2. \A r \in Player \ {p} : /\ e.gold[r] = d.gold[r]
                                /\ g.bag[r] = goods.bag[r] /\ g.gold[r] = goods.gold[r]
    BY <1>14, <1>15, <1>22, <1>25, <1>26, <1>31 DEF Tables
  <2>3. \A r \in Player : phase[r] # "out" => box'[r] \subseteq {x \in e.mails : x.to = r}
    <3> SUFFICES ASSUME NEW r \in Player, phase[r] # "out", NEW x \in box'[r]
                 PROVE  x \in e.mails /\ x.to = r
      OBVIOUS
    <3>1. x \in b0[r] \/ (x \in M /\ x.to = r)
      BY <1>36
    <3>2. CASE x \in M /\ x.to = r
      <4>1. x # m
        BY <1>17, <1>23, <3>2
      <4> QED
        BY <1>26, <1>31, <1>32, <3>2, <4>1
    <3>3. CASE x \in b0[r] /\ r = p
      <4>1. x = taken \/ (x \in box[p] /\ x \notin B /\ x # m)
        BY <1>35, <3>3
      <4>2. CASE x = taken
        BY <1>19, <1>26, <1>31, <1>32, <3>3, <4>2
      <4>3. CASE x \in box[p] /\ x \notin B /\ x # m
        <5>1. x \in d.mails /\ x.to = p
          BY <1>16, <3>3, <4>3
        <5> QED
          BY <1>26, <1>31, <3>3, <4>3, <5>1
      <4> QED
        BY <4>1, <4>2, <4>3
    <3>4. CASE x \in b0[r] /\ r # p
      <4>1. x \in d.mails /\ x.to = r
        BY <1>16, <1>35, <3>4
      <4>2. x # m /\ x \notin B
        BY <1>17, <1>18, <3>4, <4>1
      <4> QED
        BY <1>26, <1>31, <4>1, <4>2
    <3> QED
      BY <3>1, <3>2, <3>3, <3>4
  <2>4. g.gold[p] = e.gold[p]
    BY <1>14, <1>25, <1>26, <1>31 DEF Tables
  <2>5. g.bag[p] = Pack(e, p)
    <3>1. g.bag[p] \subseteq Item
      BY <1>22 DEF Holdings
    <3>2. \A j \in Item : j \in g.bag[p] <=> e.row[j] = p
      BY <1>15, <1>16, <1>22, <1>27, <1>31
    <3> QED
      BY <3>1, <3>2 DEF Pack
  <2>6. Recalled(d, phase, goods, box)
    BY <1>16
  <2>7. OnlyOf(p, d, e, goods, g)
    BY <2>1, <2>2 DEF OnlyOf
  <2> QED
    BY <2>3, <2>4, <2>5, <2>6, <2>7, StillRecalled
<1>38. /\ phase' = phase /\ spoilt' \in BOOLEAN /\ events' \in 0..MaxEvents
       /\ behind' = behind /\ torn' = torn
       /\ phase' \in [Player -> {"out", "login", "in", "travel"}]
  BY <1>13, QuietFacts
<1>39. marked' \in [Player -> SUBSET (1..MaxMails)] /\ MarksStay(marked', phase', box')
  <2>1. marked' = [marked EXCEPT ![p] = {}]
    BY <1>13 DEF Emptied
  <2>2. \A r \in Player \ {p} : \A x \in box'[r] : x \in box[r] \/ x.id > posted
    BY <1>23, <1>35, <1>36
  <2> QED
    BY <1>15, <1>38, <2>1, <2>2 DEF MarksStay
<1>40. /\ won' \in [1..MaxAuctions -> Player \cup {Nobody}] /\ house' = e.auctions
       /\ opened' \in opened..MaxAuctions
  <2>1. house' = e.auctions
    BY <1>1, <1>26, <1>31 DEF Books
  <2>2. won' \in [1..MaxAuctions -> Player \cup {Nobody}] /\ opened' \in opened..MaxAuctions
    BY <1>14, AuctionAssumption DEF TypeOK
  <2> QED
    BY <2>1, <2>2
<1>41. Recalled(e, phase', goods', box') /\ Honours(Stored, e) /\ Complete(e) /\ goods' \in Holdings
  <2>1. goods' = g /\ goods' \in Holdings
    BY <1>13, <1>22
  <2>2. Recalled(e, phase', goods', box')
    BY <1>37, <1>38, <2>1, Zenon
  <2> QED
    BY <1>1, <1>31, <1>34, <2>1, <2>2
<1> QED
  BY <1>13, <1>21, <1>33, <1>36, <1>38, <1>39, <1>40, <1>41, HandlerKeeps

LEMMA TakeMoneyKeeps ==
    ASSUME Books, Sure, NEW p \in Player, NEW m, TakeMoney(p, m),
           UNCHANGED <<house, opened, won>>, ~spoilt'
    PROVE  Books' /\ Sure' /\ CodKept
<1>1. PICK d : d = Stored
  OBVIOUS
<1>2. PICK B : B = Binned(p)
  OBVIOUS
<1>3. PICK taken : taken = [m EXCEPT !.money = 0]
  OBVIOUS
<1>4. PICK v : v = Purse(goods.gold[p] + m.money)
  OBVIOUS
<1>5. PICK g : g = [goods EXCEPT !.gold[p] = v]
  OBVIOUS
<1>6. PICK s : s = [d EXCEPT !.gold[p] = v]
  OBVIOUS
<1>7. PICK u : u = Updated(s, taken, {})
  OBVIOUS
<1>8. PICK f : f = Erased(u, B)
  OBVIOUS
<1>9. PICK excess : excess = goods.gold[p] + m.money - v
  OBVIOUS
<1>10. PICK e : e = Spent(f, excess)
  OBVIOUS
<1>11. PICK b : b = [box EXCEPT ![p] = (@ \ (B \cup {m})) \cup {taken}]
  OBVIOUS
<1>12. /\ d \in Tables /\ Sound(d, posted, opened) /\ d.mails \in SUBSET Mails
       /\ posted \in Nat /\ opened \in Nat /\ posted <= MaxMails /\ TypeOK
  BY <1>1, StoredFacts DEF Books, Tables
<1>13. /\ goods \in Holdings /\ goods.bag \in [Player -> SUBSET Item]
       /\ goods.gold \in [Player -> 0..MaxGold]
       /\ box \in [Player -> SUBSET Mails]
       /\ marked \in [Player -> SUBSET (1..MaxMails)]
       /\ MaxGold \in Nat /\ MaxMails \in Nat
  BY <1>12, MemoryType
<1>14. /\ InWorld(p) /\ m \in box[p] /\ m.id \notin marked[p]
       /\ goods' = g /\ box' = b
       /\ Execute(<<e>>) /\ Emptied(p) /\ Quiet /\ posted' = posted
  <2>6. spoilt' = (spoilt \/ 2 * m.money >= Word)
    BY DEF TakeMoney, Spoiling
  <2>1. /\ InWorld(p) /\ m \in box[p] /\ m.id \notin marked[p]
        /\ Emptied(p) /\ Quiet /\ posted' = posted
    <3>1. /\ InWorld(p) /\ m \in box[p] /\ m.id \notin marked[p]
          /\ Emptied(p) /\ Steady /\ posted' = posted
      BY DEF TakeMoney, Mine
    <3>2. ~spoilt /\ spoilt' \in BOOLEAN
      BY <2>6
    <3> QED
      BY <3>1, <3>2, Unspoilt
  <2>5. Int32(m.money) = m.money
    <3>1. ~(2 * m.money >= Word)
      BY <2>6
    <3>2. m.money \in Nat
      BY <1>13, <2>1 DEF Mails
    <3> QED
      BY <3>1, <3>2, Narrow, MailAssumption
  <2>2. g.gold[p] = v
    BY <1>5, <1>13 DEF Holdings
  <2>3. LET h == [goods EXCEPT !.gold[p] = Purse(@ + m.money)] IN
        /\ goods' = h
        /\ Execute(<<Spent(Erased(Updated([Stored EXCEPT !.gold[p] = h.gold[p]], taken, {}), B),
                           goods.gold[p] + m.money - h.gold[p])>>)
        /\ box' = b
    BY <1>2, <1>3, <1>11, <2>5 DEF TakeMoney
  <2>4. g = [goods EXCEPT !.gold[p] = Purse(@ + m.money)]
    BY <1>4, <1>5
  <2> QED
    BY <1>1, <1>6, <1>7, <1>8, <1>9, <1>10, <2>1, <2>2, <2>3, <2>4
<1>16. /\ Placed(d) /\ Wealth(d) = SumFunction(Gold0) /\ OnDelivery(d)
       /\ Recalled(d, phase, goods, box)
       /\ \A j \in Item : j \in goods.bag[p] <=> d.row[j] = p
       /\ goods.gold[p] = d.gold[p]
       /\ \A r \in Player : phase[r] # "out" => \A x \in box[r] : x \in d.mails /\ x.to = r
  BY <1>1, <1>14, SureFacts DEF InWorld
<1>17. /\ m \in d.mails /\ m \in Mails /\ m.to = p /\ m.money \in Nat
  <2>1. m \in d.mails /\ m \in Mails /\ m.to = p
    BY <1>12, <1>14, <1>16 DEF InWorld
  <2> QED
    BY <2>1 DEF Mails
<1>18. /\ B \in SUBSET d.mails /\ B \in SUBSET box[p]
       /\ \A x \in B : x.cod = 0 /\ x.to = p /\ x.id \in marked[p]
  BY <1>1, <1>2, <1>14, BinnedFacts DEF InWorld
<1>19. /\ taken \in Mails /\ taken.id = m.id /\ taken.from = m.from /\ taken.to = m.to
       /\ taken.items = m.items /\ taken.money = 0 /\ taken.cod = m.cod /\ taken.mark = m.mark
  BY <1>3, <1>17 DEF Mails
<1>20. v \in 0..MaxGold /\ excess \in Nat /\ v + excess = goods.gold[p] + m.money
  <2>1. goods.gold[p] \in Nat
    BY <1>13
  <2> QED
    BY <1>4, <1>9, <1>13, <1>17, <2>1 DEF Purse
<1>22. /\ g \in Holdings /\ g.bag = goods.bag /\ g.gold = [goods.gold EXCEPT ![p] = v]
  <2>1. g.bag = goods.bag /\ g.gold = [goods.gold EXCEPT ![p] = v] /\ g = [bag |-> g.bag, gold |-> g.gold]
    BY <1>5, <1>13 DEF Holdings
  <2> QED
    BY <1>13, <1>20, <2>1 DEF Holdings
<1>25. /\ s \in Tables /\ Sound(s, posted, opened)
       /\ s.row = d.row /\ s.gold = [d.gold EXCEPT ![p] = v] /\ s.mails = d.mails
       /\ s.auctions = d.auctions /\ s.gone = d.gone
       /\ Wealth(s) = Wealth(d) - d.gold[p] + v
  <2>1. /\ s \in Tables
        /\ s.row = d.row /\ s.gold = [d.gold EXCEPT ![p] = v] /\ s.mails = d.mails
        /\ s.auctions = d.auctions /\ s.gone = d.gone
    BY <1>6, <1>12, <1>20, PaidFields DEF Others
  <2>2. Sound(s, posted, opened)
    BY <1>12, <2>1, SoundSame
  <2>3. Wealth([d EXCEPT !.gold[p] = v]) = Wealth(d) - d.gold[p] + v
    BY <1>12, <1>20, WealthOfPurse
  <2> QED
    BY <1>6, <2>1, <2>2, <2>3
<1>26. /\ Sound(u, posted, opened) /\ u \in Tables
       /\ u.mails = (d.mails \ {m}) \cup {taken}
       /\ u.gold = s.gold /\ u.row = d.row /\ u.auctions = d.auctions
       /\ u.gone = d.gone /\ u.spent = s.spent
  <2>1. m \in s.mails /\ taken.items = m.items \ {}
    BY <1>17, <1>19, <1>25
  <2>2. LET w == Updated(s, taken, {}) IN
        /\ Sound(w, posted, opened) /\ w \in Tables
        /\ w.mails = (s.mails \ {m}) \cup {taken}
        /\ w.gold = s.gold /\ w.row = s.row /\ w.auctions = s.auctions
        /\ w.gone = s.gone /\ w.spent = s.spent
    BY <1>19, <1>25, <2>1, UpdatedRow
  <2> QED
    BY <1>7, <1>25, <2>2
<1>28. Wealth(u) = Wealth(s) - m.money /\ Wealth(s) \in Nat
  <2>1. m \in s.mails
    BY <1>17, <1>25
  <2>2. u.mails = (s.mails \ {m}) \cup {taken} /\ u.auctions = s.auctions
    BY <1>25, <1>26
  <2>3. Wealth(u) = Wealth(s) - m.money + taken.money
    BY <1>19, <1>25, <1>26, <2>1, <2>2, WealthOfRow
  <2>4. Wealth(s) \in Nat
    BY <1>25, WealthParts
  <2> QED
    BY <1>17, <1>19, <2>3, <2>4
<1>29. Placed(u)
  <2> SUFFICES ASSUME NEW j \in Item PROVE Accounted(u, j)
    BY DEF Placed
  <2>1. Accounted(d, j)
    BY <1>16 DEF Placed
  <2>2. CASE j \in m.items
    <3>1. /\ WithNobody(d, j) /\ InNoAuction(d, j) /\ j \notin d.gone
          /\ \A x \in d.mails : j \in x.items => x = m
      BY <1>17, <2>1, <2>2, InMail
    <3>2. j \in taken.items /\ taken \in u.mails /\ \A x \in u.mails : j \in x.items => x = taken
      BY <1>19, <1>26, <2>2, <3>1
    <3> QED
      BY <1>26, <3>1, <3>2 DEF Accounted, InOnePlace, InNoAuction, WithNobody
  <2>3. CASE j \notin m.items
    <3>1. \A x : x \in u.mails /\ j \in x.items <=> x \in d.mails /\ j \in x.items
      BY <1>19, <1>26, <2>3
    <3> QED
      BY <1>26, <2>1, <3>1, StillAccounted
  <2> QED
    BY <2>2, <2>3
<1>30. OnDelivery(u)
  BY <1>16, <1>17, <1>19, <1>26 DEF OnDelivery
<1>31. /\ Placed(f) /\ OnDelivery(f) /\ Wealth(f) = Wealth(u) /\ Sound(f, posted, opened)
       /\ f.mails = u.mails \ B
       /\ f.row = d.row /\ f.gold = s.gold /\ f.auctions = d.auctions
  <2>1. B \in SUBSET u.mails
    BY <1>14, <1>18, <1>26
  <2>2. LET w == Erased(u, B) IN
        /\ Placed(w) /\ OnDelivery(w) /\ Wealth(w) = Wealth(u) /\ Sound(w, posted, opened)
        /\ w.mails = u.mails \ B
        /\ w.row = u.row /\ w.gold = u.gold /\ w.auctions = u.auctions
    BY <1>26, <1>29, <1>30, <2>1, ErasedComplete
  <2> QED
    BY <1>8, <1>26, <2>2
<1>32. /\ Sound(e, posted, opened) /\ e.mails = f.mails /\ e.row = d.row /\ e.gold = s.gold
       /\ e.auctions = d.auctions /\ Wealth(e) = Wealth(f) + excess
       /\ Placed(e) /\ OnDelivery(e)
  <2>1. f \in Tables
    BY <1>31 DEF Sound
  <2>2. /\ e.mails = f.mails /\ e.row = f.row /\ e.gold = f.gold
        /\ e.auctions = f.auctions /\ e.gone = f.gone
    BY <1>10, <1>20, <2>1, SpentFields
  <2>3. Sound(e, posted, opened) /\ Wealth(e) = Wealth(f) + excess
    BY <1>10, <1>20, <1>31, SoundSpent, WealthOfMail
  <2>4. Placed(e)
    BY <1>31, <2>2 DEF Placed, Accounted, Nowhere, InOnePlace, WithNobody, InNoMail, InNoAuction
  <2>5. OnDelivery(e)
    BY <1>31, <2>2 DEF OnDelivery
  <2> QED
    BY <1>31, <2>2, <2>3, <2>4, <2>5
<1>33. Complete(e)
  <2>1. d.gold[p] \in Nat /\ Wealth(d) \in Nat
    BY <1>12, WealthParts, WealthOfPurse
  <2>2. Wealth(e) = Wealth(d)
    BY <1>16, <1>17, <1>20, <1>25, <1>28, <1>31, <1>32, <2>1
  <2> QED
    BY <1>16, <1>32, <2>2 DEF Complete
<1>34. <<e>> \in Seq(Rows(posted', opened')) /\ <<e>> # <<>> /\ e = <<e>>[Len(<<e>>)]
  <2>1. e \in Rows(posted', opened')
    BY <1>14, <1>32 DEF Rows, Sound
  <2> QED
    BY <2>1
<1>35. taken \notin B
  BY <1>14, <1>18, <1>19
<1>36. Honours(d, e)
  <2> SUFFICES ASSUME NEW x \in d.mails, x.cod > 0, x.items # {}
               PROVE  \/ x \in e.mails
                      \/ \E y \in e.mails : y.to = x.from /\ (y.items = x.items \/ y.money = x.cod)
    BY DEF Honours
  <2>1. x \notin B
    BY <1>18
  <2>2. CASE x # m
    BY <1>26, <1>31, <1>32, <2>1, <2>2
  <2>3. CASE x = m
    <3>1. m.money = 0
      BY <1>16, <2>3 DEF OnDelivery
    <3>2. taken = m
      BY <1>3, <1>17, <3>1 DEF Mails
    <3> QED
      BY <1>26, <1>31, <1>32, <1>35, <2>3, <3>2
  <2> QED
    BY <2>2, <2>3
<1>37. /\ b \in [Player -> SUBSET Mails]
       /\ b[p] = (box[p] \ (B \cup {m})) \cup {taken}
       /\ \A r \in Player \ {p} : b[r] = box[r]
  BY <1>11, <1>13, <1>19
<1>38. Recalled(e, phase, g, b)
  <2>1. \A j \in Item : e.row[j] = d.row[j]
    BY <1>32
  <2>2. \A r \in Player \ {p} : /\ e.gold[r] = d.gold[r]
                                /\ g.bag[r] = goods.bag[r] /\ g.gold[r] = goods.gold[r]
    BY <1>12, <1>13, <1>22, <1>25, <1>32 DEF Tables
  <2>3. \A r \in Player : phase[r] # "out" => b[r] \subseteq {x \in e.mails : x.to = r}
    <3> SUFFICES ASSUME NEW r \in Player, phase[r] # "out", NEW x \in b[r]
                 PROVE  x \in e.mails /\ x.to = r
      OBVIOUS
    <3>1. CASE r = p
      <4>1. x = taken \/ (x \in box[p] /\ x \notin B /\ x # m)
        BY <1>37, <3>1
      <4>2. CASE x = taken
        BY <1>17, <1>19, <1>26, <1>31, <1>32, <1>35, <3>1, <4>2
      <4>3. CASE x \in box[p] /\ x \notin B /\ x # m
        <5>1. x \in d.mails /\ x.to = p
          BY <1>16, <3>1, <4>3
        <5> QED
          BY <1>26, <1>31, <1>32, <3>1, <4>3, <5>1
      <4> QED
        BY <4>1, <4>2, <4>3
    <3>2. CASE r # p
      <4>1. x \in d.mails /\ x.to = r
        BY <1>16, <1>37, <3>2
      <4>2. x # m /\ x \notin B
        BY <1>17, <1>18, <3>2, <4>1
      <4> QED
        BY <1>26, <1>31, <1>32, <4>1, <4>2
    <3> QED
      BY <3>1, <3>2
  <2>4. g.gold[p] = e.gold[p]
    BY <1>12, <1>13, <1>22, <1>25, <1>32 DEF Tables
  <2>5. g.bag[p] = Pack(e, p)
    <3>1. g.bag[p] \subseteq Item
      BY <1>22 DEF Holdings
    <3> QED
      BY <1>16, <1>22, <1>32, <3>1 DEF Pack
  <2>6. Recalled(d, phase, goods, box)
    BY <1>16
  <2>7. OnlyOf(p, d, e, goods, g)
    BY <2>1, <2>2 DEF OnlyOf
  <2> QED
    BY <2>3, <2>4, <2>5, <2>6, <2>7, StillRecalled
<1>39. /\ phase' = phase /\ spoilt' \in BOOLEAN /\ events' \in 0..MaxEvents
       /\ behind' = behind /\ torn' = torn
       /\ phase' \in [Player -> {"out", "login", "in", "travel"}]
  BY <1>14, QuietFacts
<1>40. marked' \in [Player -> SUBSET (1..MaxMails)] /\ MarksStay(marked', phase', box')
  <2>1. marked' = [marked EXCEPT ![p] = {}]
    BY <1>14 DEF Emptied
  <2>2. \A r \in Player \ {p} : \A x \in box'[r] : x \in box[r]
    BY <1>14, <1>37
  <2> QED
    BY <1>13, <1>39, <2>1, <2>2 DEF MarksStay
<1>41. /\ won' \in [1..MaxAuctions -> Player \cup {Nobody}] /\ house' = e.auctions
       /\ opened' \in opened..MaxAuctions /\ posted' \in posted..MaxMails
  <2>1. house' = e.auctions
    BY <1>1, <1>32 DEF Books
  <2>2. won' \in [1..MaxAuctions -> Player \cup {Nobody}] /\ opened' \in opened..MaxAuctions
    BY <1>12, AuctionAssumption DEF TypeOK
  <2> QED
    BY <1>12, <1>13, <1>14, <2>1, <2>2
<1>42. Recalled(e, phase', goods', box') /\ Honours(Stored, e)
  <2>1. Recalled(e, phase', goods', box')
    BY <1>14, <1>38, <1>39, Zenon
  <2> QED
    BY <1>1, <1>36, <2>1
<1>43. goods' \in Holdings /\ box' \in [Player -> SUBSET Mails]
  BY <1>14, <1>22, <1>37
<1> QED
  BY <1>14, <1>33, <1>34, <1>39, <1>40, <1>41, <1>42, <1>43, HandlerKeeps

\* A handler that hands over nothing.
LEMMA TablesStay ==
    ASSUME Books, Sure, UNCHANGED <<disk, house, opened, won, posted, torn, spoilt>>,
           phase' \in [Player -> {"out", "login", "in", "travel"}],
           goods' \in Holdings, box' \in [Player -> SUBSET Mails],
           marked' \in [Player -> SUBSET (1..MaxMails)],
           behind' \in [Player -> 0..MaxQueue], events' \in 0..MaxEvents,
           \A r \in Player : /\ marked'[r] \subseteq 1..posted
                             /\ phase'[r] = "out" => marked'[r] = {},
           Recalled(Stored, phase', goods', box'), Bins'
    PROVE  Books' /\ Sure' /\ CodKept
<1>1. Stored' = Stored /\ Committed' = Committed
  BY DEF Stored, Committed
<1>2. TypeOK'
  <2>1. MailTypeOK'
    BY DEF Books, TypeOK, MailTypeOK
  <2> QED
    BY <2>1 DEF Books, TypeOK
<1>3. Books'
  BY <1>1, <1>2 DEF Books
<1>4. Completed'
  BY DEF Sure, Completed
<1>5. MemoryStored'
  <2>1. \A r \in Player : Pack(Stored', r) = Pack(Stored, r)
    BY <1>1
  <2> QED
    BY <1>1, <1>3, <2>1 DEF MemoryStored, Recalled, Books
<1>6. CodKept
  BY <1>1 DEF CodKept
<1> QED
  BY <1>3, <1>4, <1>5, <1>6 DEF Sure

LEMMA DeleteMailKeeps ==
    ASSUME Books, Sure, NEW p \in Player, NEW m, DeleteMail(p, m),
           UNCHANGED <<house, opened, won>>
    PROVE  Books' /\ Sure' /\ CodKept
<1>1. /\ InWorld(p) /\ m \in box[p] /\ m.cod = 0
      /\ marked' = [marked EXCEPT ![p] = @ \cup {m.id}]
      /\ goods' = goods /\ box' = box /\ disk' = disk /\ posted' = posted /\ Quiet
  BY DEF DeleteMail
<1>2. /\ phase' = phase /\ spoilt' = spoilt /\ events' \in 0..MaxEvents
      /\ behind' = behind /\ torn' = torn
  BY <1>1, QuietFacts
<1>3. TypeOK /\ MailTypeOK
  BY DEF Books, TypeOK
<1>4. /\ goods \in Holdings /\ box \in [Player -> SUBSET Mails]
      /\ marked \in [Player -> SUBSET (1..MaxMails)]
      /\ phase \in [Player -> {"out", "login", "in", "travel"}]
      /\ behind \in [Player -> 0..MaxQueue]
  BY <1>3 DEF MailTypeOK
<1>5. /\ Sound(Stored, posted, opened) /\ Recalled(Stored, phase, goods, box)
      /\ \A x \in box[p] : x \in Stored.mails
  BY <1>1, StoredFacts, SureFacts DEF InWorld
<1>6. m.id \in 1..posted /\ m.id \in 1..MaxMails
  <2>1. m \in Mails /\ m.id <= posted /\ posted \in Nat
    BY <1>1, <1>4, <1>5, StoredFacts DEF Sound
  <2> QED
    BY <2>1 DEF Mails
<1>7. \A r \in Player : /\ marked'[r] \subseteq 1..posted
                        /\ phase'[r] = "out" => marked'[r] = {}
  BY <1>1, <1>2, <1>4, <1>6 DEF Books, InWorld
<1>8. marked' \in [Player -> SUBSET (1..MaxMails)]
  BY <1>1, <1>4, <1>6
<1>9. Bins'
  <2> SUFFICES ASSUME NEW r \in Player, phase[r] # "out", NEW x \in box[r], x.id \in marked'[r]
               PROVE  x.cod = 0
    BY <1>1, <1>2 DEF Bins
  <2>1. CASE x.id \in marked[r]
    BY <2>1 DEF Sure, Bins
  <2>2. CASE x.id \notin marked[r]
    <3>1. r = p /\ x.id = m.id
      BY <1>1, <1>4, <2>2
    <3>2. x = m
      BY <1>1, <1>5, <3>1 DEF Sound
    <3> QED
      BY <1>1, <3>2
  <2> QED
    BY <2>1, <2>2
<1>10. Recalled(Stored, phase', goods', box')
  BY <1>1, <1>2, <1>5, Zenon
<1>11. /\ phase' \in [Player -> {"out", "login", "in", "travel"}]
       /\ goods' \in Holdings /\ box' \in [Player -> SUBSET Mails]
       /\ behind' \in [Player -> 0..MaxQueue]
  BY <1>1, <1>2, <1>4
<1> QED
  BY <1>1, <1>2, <1>7, <1>8, <1>9, <1>10, <1>11, TablesStay

LEMMA ReturnMailKeeps ==
    ASSUME Books, Sure, NEW p \in Player, NEW m, ReturnMail(p, m),
           UNCHANGED <<house, opened, won>>
    PROVE  Books' /\ Sure' /\ CodKept
<1>1. PICK d : d = Stored
  OBVIOUS
<1>2. PICK back : back = [Letter(1, p, m.from, m.items, m.money) EXCEPT !.mark = "returned"]
  OBVIOUS
<1>3. PICK M : M = IF m.from = House THEN {} ELSE {back}
  OBVIOUS
<1>4. PICK removed : removed = [d EXCEPT !.mails = {x \in @ : x.id # m.id}]
  OBVIOUS
<1>5. PICK e : e = IF m.from = House THEN Erased(d, {m}) ELSE Inserted(removed, back)
  OBVIOUS
<1>6. PICK steps : steps = IF m.from = House THEN <<e>> ELSE <<removed, e>>
  OBVIOUS
<1>7. PICK b0 : b0 = [box EXCEPT ![p] = @ \ {m}]
  OBVIOUS
<1>8. /\ InWorld(p) /\ m \in box[p] /\ m.id \notin marked[p]
      /\ Post(M) /\ box' = Delivered(b0, M) /\ Execute(steps)
      /\ Quiet /\ goods' = goods /\ marked' = marked
  BY <1>1, <1>2, <1>3, <1>4, <1>5, <1>6, <1>7 DEF ReturnMail, Mine
<1>9. /\ d \in Tables /\ Sound(d, posted, opened) /\ d.mails \in SUBSET Mails
      /\ posted \in Nat /\ opened \in Nat /\ posted <= MaxMails /\ TypeOK
  BY <1>1, StoredFacts DEF Books, Tables
<1>10. /\ goods \in Holdings /\ box \in [Player -> SUBSET Mails]
       /\ MaxMails \in Nat /\ House \notin Player
  BY <1>9, MemoryType
<1>11. /\ Placed(d) /\ Wealth(d) = SumFunction(Gold0) /\ OnDelivery(d)
       /\ Recalled(d, phase, goods, box)
       /\ \A r \in Player : phase[r] # "out" => \A x \in box[r] : x \in d.mails /\ x.to = r
  BY <1>1, SureFacts
<1>12. /\ m \in d.mails /\ m \in Mails /\ m.to = p /\ m.money \in Nat /\ m.items \in SUBSET Item
       /\ m.from \in Player \cup {House} /\ m.id \in Nat /\ m.id <= posted
  <2>1. m \in d.mails /\ m \in Mails /\ m.to = p
    BY <1>8, <1>9, <1>11 DEF InWorld
  <2>2. m.id <= posted
    BY <1>9, <2>1 DEF Sound
  <2> QED
    BY <2>1, <2>2 DEF Mails
<1>13. \A x \in d.mails : x.id = m.id <=> x = m
  BY <1>9, <1>12 DEF Sound
<1>14. ASSUME m.from # House
       PROVE  /\ back \in Mails /\ back.id = posted + 1 /\ back.to = m.from
              /\ back.items = m.items /\ back.money = m.money /\ back.cod = 0
              /\ posted' = posted + 1 /\ posted + 1 <= MaxMails
              /\ M = {back} /\ back \notin d.mails
  <2>1. M = {back}
    BY <1>3, <1>14
  <2>2. posted' = posted + 1 /\ posted + 1 <= MaxMails
    BY <1>8, <1>9, <2>1, Posted
  <2>3. PICK l : l = Letter(1, p, m.from, m.items, m.money)
    OBVIOUS
  <2>4. m.from \in Player
    BY <1>12, <1>14
  <2>5. /\ l \in Mails /\ l.id = posted + 1 /\ l.to = m.from /\ l.items = m.items
        /\ l.money = m.money /\ l.cod = 0
    BY <1>9, <1>12, <2>2, <2>3, <2>4, Written
  <2>6. /\ back \in Mails /\ back.id = posted + 1 /\ back.to = m.from
        /\ back.items = m.items /\ back.money = m.money /\ back.cod = 0
    BY <1>2, <2>3, <2>5 DEF Mails
  <2>7. \A x \in d.mails : x.id <= posted
    BY <1>9 DEF Sound
  <2>8. back \notin d.mails
    BY <1>9, <2>6, <2>7
  <2> QED
    BY <2>1, <2>2, <2>6, <2>8
<1>15. posted' \in posted..MaxMails /\ posted' \in Nat /\ posted <= posted'
  <2>1. CASE m.from # House
    BY <1>9, <1>10, <1>14, <2>1
  <2>2. CASE m.from = House
    BY <1>3, <1>8, <1>9, <1>10, <2>2, Posted
  <2> QED
    BY <2>1, <2>2
<1>16. M \in SUBSET Mails /\ \A x \in M : x.id > posted
  BY <1>3, <1>9, <1>14
<1>17. /\ steps \in Seq(Rows(posted', opened')) /\ steps # <<>> /\ e = steps[Len(steps)]
       /\ Complete(e) /\ Honours(d, e)
       /\ e.mails = (d.mails \ {m}) \cup M
       /\ e.row = d.row /\ e.gold = d.gold /\ e.auctions = d.auctions
  <2>1. CASE m.from = House
    <3>1. M = {} /\ e = Erased(d, {m}) /\ steps = <<e>>
      BY <1>3, <1>5, <1>6, <2>1
    <3>2. m.cod = 0
      <4>1. m.cod \in Nat
        BY <1>12, MailAssumption DEF Mails
      <4> QED
        BY <1>11, <1>12, <2>1, <4>1 DEF OnDelivery
    <3>3. {m} \in SUBSET d.mails
      BY <1>12
    <3>4. LET f == Erased(d, {m}) IN
          /\ Placed(f) /\ OnDelivery(f) /\ Wealth(f) = Wealth(d) /\ Sound(f, posted, opened)
          /\ f.mails = d.mails \ {m}
          /\ f.row = d.row /\ f.gold = d.gold /\ f.auctions = d.auctions
      BY <1>9, <1>11, <3>3, ErasedComplete
    <3>5. e \in Rows(posted', opened')
      <4>1. Sound(e, posted, opened)
        BY <3>1, <3>4
      <4> QED
        BY <1>9, <1>15, <4>1, RowsGrow
    <3>6. Honours(d, e)
      BY <3>1, <3>2, <3>4 DEF Honours
    <3>7. Complete(e)
      BY <1>11, <3>1, <3>4 DEF Complete
    <3> QED
      BY <3>1, <3>4, <3>5, <3>6, <3>7
  <2>2. CASE m.from # House
    <3>1. e = Inserted(removed, back) /\ steps = <<removed, e>> /\ M = {back}
      BY <1>5, <1>6, <1>14, <2>2
    <3>2. /\ removed \in Tables /\ removed.mails = d.mails \ {m}
          /\ removed.row = d.row /\ removed.gold = d.gold /\ removed.auctions = d.auctions
          /\ removed.gone = d.gone /\ removed.spent = d.spent
      <4>1. LET f == [d EXCEPT !.mails = {x \in @ : x.id # m.id}] IN
            /\ f \in Tables
            /\ f.mails = {x \in d.mails : x.id # m.id}
            /\ f.gold = d.gold /\ f.row = d.row /\ f.auctions = d.auctions
            /\ Others(d, f)
        BY <1>9, DroppedFields
      <4>2. {x \in d.mails : x.id # m.id} = d.mails \ {m}
        BY <1>13
      <4> QED
        BY <1>4, <4>1, <4>2 DEF Others
    <3>3. Sound(removed, posted, opened)
      BY <1>9, <3>2, SoundLess
    <3>4. Sound(e, posted', opened) /\ back \notin removed.mails
      <4>1. /\ back \in Mails /\ posted < back.id /\ back.id <= posted' /\ posted' \in Nat
        BY <1>9, <1>14, <2>2
      <4> QED
        BY <1>9, <3>1, <3>3, <4>1, SoundInserted
    <3>5. /\ e.mails = (d.mails \ {m}) \cup {back}
          /\ e.row = d.row /\ e.gold = d.gold /\ e.auctions = d.auctions /\ e.gone = d.gone
      BY <1>14, <2>2, <3>1, <3>2, InsertedFields DEF Others
    <3>6. Wealth(e) = Wealth(d)
      <4>1. Wealth(removed) = Wealth(d) - m.money
        BY <1>9, <1>12, <3>2, WealthOfRow
      <4>2. Wealth(e) = Wealth(removed) + back.money
        BY <1>14, <2>2, <3>1, <3>3, <3>4, WealthOfMail
      <4>3. Wealth(d) \in Nat
        BY <1>9, WealthParts
      <4> QED
        BY <1>12, <1>14, <2>2, <4>1, <4>2, <4>3
    <3>7. Placed(e)
      <4> SUFFICES ASSUME NEW j \in Item PROVE Accounted(e, j)
        BY DEF Placed
      <4>1. Accounted(d, j)
        BY <1>11 DEF Placed
      <4>2. back.items = m.items
        BY <1>14, <2>2
      <4>3. CASE j \in m.items
        <5>1. /\ WithNobody(d, j) /\ InNoAuction(d, j) /\ j \notin d.gone
              /\ \A x \in d.mails : j \in x.items => x = m
          BY <1>12, <4>1, <4>3, InMail
        <5>2. back \in e.mails /\ \A x \in e.mails : j \in x.items => x = back
          BY <3>5, <5>1
        <5> QED
          BY <3>5, <4>2, <4>3, <5>1, <5>2 DEF Accounted, InOnePlace, InNoAuction, WithNobody
      <4>4. CASE j \notin m.items
        <5>1. \A x : x \in e.mails /\ j \in x.items <=> x \in d.mails /\ j \in x.items
          BY <3>5, <4>2, <4>4
        <5> QED
          BY <3>5, <4>1, <5>1, StillAccounted
      <4> QED
        BY <4>3, <4>4
    <3>8. OnDelivery(e)
      <4>1. back.cod = 0
        BY <1>14, <2>2
      <4> QED
        BY <1>11, <3>5, <4>1 DEF OnDelivery
    <3>9. Honours(d, e)
      <4>1. back.to = m.from /\ back.items = m.items
        BY <1>14, <2>2
      <4> QED
        BY <3>5, <4>1 DEF Honours
    <3>10. removed \in Rows(posted', opened') /\ e \in Rows(posted', opened')
      <4>1. removed \in Rows(posted', opened')
        BY <1>9, <1>15, <3>3, RowsGrow
      <4>2. e \in Rows(posted', opened')
        BY <3>4 DEF Rows, Sound
      <4> QED
        BY <4>1, <4>2
    <3>11. Complete(e)
      BY <1>11, <3>6, <3>7, <3>8 DEF Complete
    <3> QED
      BY <3>1, <3>5, <3>9, <3>10, <3>11
  <2> QED
    BY <2>1, <2>2
<1>18. b0 \in [Player -> SUBSET Mails] /\ \A r \in Player : b0[r] = box[r] \ (IF r = p THEN {m} ELSE {})
  BY <1>7, <1>10
<1>19. /\ box' \in [Player -> SUBSET Mails]
       /\ \A r \in Player : box'[r] \subseteq b0[r] \cup {x \in M : x.to = r}
  BY <1>8, <1>16, <1>18, InBoxes
<1>20. Recalled(e, phase, goods, box')
  <2> SUFFICES ASSUME NEW r \in Player, phase[r] # "out"
               PROVE  /\ goods.bag[r] = Pack(e, r) /\ goods.gold[r] = e.gold[r]
                      /\ box'[r] \subseteq {x \in e.mails : x.to = r}
    BY DEF Recalled
  <2>1. Pack(e, r) = Pack(d, r)
    BY <1>17 DEF Pack
  <2>2. \A x \in b0[r] : x \in d.mails /\ x.to = r /\ x # m
    BY <1>11, <1>12, <1>18
  <2>3. box'[r] \subseteq {x \in e.mails : x.to = r}
    BY <1>17, <1>19, <2>2
  <2> QED
    BY <1>11, <1>17, <2>1, <2>3 DEF Recalled
<1>21. \A r \in Player : \A x \in box'[r] : x \in box[r] \/ x.id > posted
  BY <1>16, <1>18, <1>19
<1>22. /\ won' \in [1..MaxAuctions -> Player \cup {Nobody}] /\ house' = e.auctions
       /\ opened' \in opened..MaxAuctions
  <2>1. house' = e.auctions
    BY <1>1, <1>17 DEF Books
  <2>2. won' \in [1..MaxAuctions -> Player \cup {Nobody}] /\ opened' \in opened..MaxAuctions
    BY <1>9, AuctionAssumption DEF TypeOK
  <2> QED
    BY <2>1, <2>2
<1>23. Honours(Stored, e)
  BY <1>1, <1>17
<1> QED
  BY <1>8, <1>10, <1>15, <1>17, <1>19, <1>20, <1>21, <1>22, <1>23, QuietKeeps

-----------------------------------------------------------------------------
(* Players who come and go.                                                *)

LEMMA SavedPlayerFacts ==
    ASSUME Books, Sure, NEW p \in Player, phase[p] # "out"
    PROVE  LET e == SavedPlayer(p) IN
           /\ Sound(e, posted, opened) /\ Complete(e)
           /\ e.mails = Stored.mails \ Binned(p)
           /\ e.row = Stored.row /\ e.gold = Stored.gold /\ e.auctions = Stored.auctions
           /\ Honours(Stored, e)
<1>1. PICK d : d = Stored
  OBVIOUS
<1>2. PICK B : B = Binned(p)
  OBVIOUS
<1>3. PICK s : s = Saved(d, p, goods)
  OBVIOUS
<1>4. PICK e : e = Erased(s, B)
  OBVIOUS
<1>5. d \in Tables /\ Sound(d, posted, opened) /\ TypeOK
  BY <1>1, StoredFacts DEF Books
<1>6. goods \in Holdings
  BY <1>5, MemoryType
<1>7. /\ Placed(d) /\ Wealth(d) = SumFunction(Gold0) /\ OnDelivery(d)
      /\ \A j \in Item : j \in goods.bag[p] <=> d.row[j] = p
      /\ goods.gold[p] = d.gold[p]
  BY <1>1, SureFacts
<1>8. /\ B \in SUBSET d.mails /\ \A x \in B : x.cod = 0
  BY <1>1, <1>2, BinnedFacts
<1>9. /\ s.row = d.row /\ s.gold = d.gold /\ s.mails = d.mails
      /\ s.auctions = d.auctions /\ s.gone = d.gone
  <2>1. /\ s.gold = [d.gold EXCEPT ![p] = goods.gold[p]]
        /\ s.row = [i \in Item |-> IF i \in goods.bag[p] THEN p ELSE d.row[i]]
        /\ s.mails = d.mails /\ s.auctions = d.auctions /\ s.gone = d.gone
    BY <1>3, <1>5, <1>6, SavedFields DEF Others
  <2>2. d.gold \in [Player -> 0..MaxGold] /\ d.row \in [Item -> Player \cup {Nobody}]
    BY <1>5 DEF Tables
  <2>3. s.gold = d.gold
    BY <1>7, <2>1, <2>2
  <2>4. s.row = d.row
    BY <1>7, <2>1, <2>2
  <2> QED
    BY <2>1, <2>3, <2>4
<1>10. Sound(s, posted, opened)
  BY <1>3, <1>5, <1>6, SoundSaved
<1>11. Wealth(s) = Wealth(d)
  <2>1. Wealth(Saved(d, p, goods)) = Wealth(d) - d.gold[p] + goods.gold[p] /\ d.gold[p] \in Nat
    BY <1>5, <1>6, WealthOfPurse
  <2>2. Wealth(d) \in Nat
    BY <1>5, WealthParts
  <2> QED
    BY <1>3, <1>7, <2>1, <2>2
<1>12. Placed(s) /\ OnDelivery(s)
  BY <1>7, <1>9 DEF Placed, Accounted, Nowhere, InOnePlace, WithNobody, InNoMail, InNoAuction,
                    OnDelivery
<1>13. /\ Placed(e) /\ OnDelivery(e) /\ Wealth(e) = Wealth(s) /\ Sound(e, posted, opened)
       /\ e.mails = d.mails \ B
       /\ e.row = d.row /\ e.gold = d.gold /\ e.auctions = d.auctions
  <2>1. B \in SUBSET s.mails
    BY <1>8, <1>9
  <2>2. LET f == Erased(s, B) IN
        /\ Placed(f) /\ OnDelivery(f) /\ Wealth(f) = Wealth(s) /\ Sound(f, posted, opened)
        /\ f.mails = s.mails \ B
        /\ f.row = s.row /\ f.gold = s.gold /\ f.auctions = s.auctions
    BY <1>10, <1>12, <2>1, ErasedComplete
  <2> QED
    BY <1>4, <1>9, <2>2
<1>14. Honours(d, e)
  BY <1>8, <1>13 DEF Honours
<1>15. e = SavedPlayer(p)
  BY <1>1, <1>2, <1>3, <1>4 DEF SavedPlayer
<1>16. Complete(e)
  BY <1>7, <1>11, <1>13 DEF Complete
<1> QED
  BY <1>1, <1>2, <1>13, <1>14, <1>15, <1>16

\* A handler that saves a player.
LEMMA SavingKeeps ==
    ASSUME Books, Sure, NEW p \in Player, phase[p] # "out",
           Execute(<<SavedPlayer(p)>>), Emptied(p), Event,
           UNCHANGED <<behind, posted, torn, spoilt, house, opened, won>>,
           phase' \in [Player -> {"out", "login", "in", "travel"}],
           goods' \in Holdings, box' \in [Player -> SUBSET Mails],
           \A r \in Player \ {p} : phase'[r] = phase[r],
           \A r \in Player : phase'[r] # "out" =>
                /\ phase[r] # "out" /\ box'[r] \subseteq box[r] \ Binned(p)
                /\ goods'.bag[r] = goods.bag[r] /\ goods'.gold[r] = goods.gold[r]
    PROVE  Books' /\ Sure' /\ CodKept
<1>1. PICK e : e = SavedPlayer(p)
  OBVIOUS
<1>2. /\ Sound(e, posted, opened) /\ Complete(e)
      /\ e.mails = Stored.mails \ Binned(p)
      /\ e.row = Stored.row /\ e.gold = Stored.gold /\ e.auctions = Stored.auctions
      /\ Honours(Stored, e)
  BY <1>1, SavedPlayerFacts
<1>3. TypeOK /\ MailTypeOK
  BY DEF Books, TypeOK
<1>4. /\ marked \in [Player -> SUBSET (1..MaxMails)] /\ marked' = [marked EXCEPT ![p] = {}]
      /\ events \in 0..MaxEvents /\ events' = events + 1 /\ events < MaxEvents
      /\ spoilt' \in BOOLEAN /\ MaxEvents \in Nat
  BY <1>3, MailAssumption DEF MailTypeOK, Event, Emptied
<1>5. MarksStay(marked', phase', box')
  <2> SUFFICES ASSUME NEW r \in Player
               PROVE  \/ marked'[r] = {}
                      \/ /\ marked'[r] = marked[r] /\ phase'[r] = phase[r]
                         /\ \A x \in box'[r] : x \in box[r] \/ x.id > posted
    BY DEF MarksStay
  <2>1. CASE r = p
    BY <1>4, <2>1
  <2>2. CASE r # p
    <3>1. marked'[r] = marked[r] /\ phase'[r] = phase[r]
      BY <1>4, <2>2
    <3>2. phase[r] = "out" => marked[r] = {}
      BY DEF Books
    <3> QED
      BY <3>1, <3>2
  <2> QED
    BY <2>1, <2>2
<1>6. Recalled(e, phase', goods', box')
  <2> SUFFICES ASSUME NEW r \in Player, phase'[r] # "out"
               PROVE  /\ goods'.bag[r] = Pack(e, r) /\ goods'.gold[r] = e.gold[r]
                      /\ box'[r] \subseteq {x \in e.mails : x.to = r}
    BY DEF Recalled
  <2>1. /\ phase[r] # "out" /\ goods'.bag[r] = goods.bag[r] /\ goods'.gold[r] = goods.gold[r]
        /\ box'[r] \subseteq box[r] \ Binned(p)
    OBVIOUS
  <2>2. Pack(e, r) = Pack(Stored, r)
    BY <1>2 DEF Pack
  <2>3. /\ goods.bag[r] = Pack(Stored, r) /\ goods.gold[r] = Stored.gold[r]
        /\ box[r] \subseteq {x \in Stored.mails : x.to = r}
    BY <2>1, SureFacts DEF Recalled
  <2> QED
    BY <1>2, <2>1, <2>2, <2>3
<1>7. <<e>> \in Seq(Rows(posted', opened')) /\ <<e>> # <<>> /\ e = <<e>>[Len(<<e>>)]
  <2>1. e \in Rows(posted', opened')
    BY <1>2 DEF Rows, Sound
  <2> QED
    BY <2>1
<1>8. /\ won' \in [1..MaxAuctions -> Player \cup {Nobody}] /\ house' = e.auctions
      /\ opened' \in opened..MaxAuctions /\ posted' \in posted..MaxMails
  <2>1. house' = e.auctions
    BY <1>2 DEF Books
  <2>2. won' \in [1..MaxAuctions -> Player \cup {Nobody}] /\ opened' \in opened..MaxAuctions
    BY <1>3, AuctionAssumption DEF TypeOK
  <2>3. posted' \in posted..MaxMails
    BY StoredFacts, MailAssumption
  <2> QED
    BY <2>1, <2>2, <2>3
<1>9. Execute(<<e>>) /\ marked' \in [Player -> SUBSET (1..MaxMails)] /\ events' \in 0..MaxEvents
  BY <1>1, <1>4
<1>10. behind' = behind /\ torn' = torn
  OBVIOUS
<1> QED
  BY <1>2, <1>4, <1>5, <1>6, <1>7, <1>8, <1>9, <1>10, HandlerKeeps

LEMMA SavePlayerKeeps ==
    ASSUME Books, Sure, NEW p \in Player, SavePlayer(p),
           UNCHANGED <<house, opened, won>>
    PROVE  Books' /\ Sure' /\ CodKept
<1>1. /\ phase[p] # "out" /\ Event /\ Execute(<<SavedPlayer(p)>>) /\ Emptied(p)
      /\ box' = [box EXCEPT ![p] = @ \ Binned(p)]
      /\ UNCHANGED <<phase, goods, behind, posted, torn, spoilt>>
  BY DEF SavePlayer, InWorld
<1>2. /\ goods \in Holdings /\ box \in [Player -> SUBSET Mails]
      /\ phase \in [Player -> {"out", "login", "in", "travel"}]
  BY MemoryType DEF Books
<1>3. \A x \in Binned(p) : x.to = p
  BY <1>1, BinnedFacts
<1>4. ASSUME NEW r \in Player, phase[r] # "out"
      PROVE  box'[r] \subseteq box[r] \ Binned(p)
  <2>1. CASE r = p
    BY <1>1, <1>2, <2>1
  <2>2. CASE r # p
    <3>1. \A x \in box[r] : x.to = r
      BY <1>4, SureFacts
    <3> QED
      BY <1>1, <1>2, <1>3, <2>2, <3>1
  <2> QED
    BY <2>1, <2>2
<1> QED
  BY <1>1, <1>2, <1>4, SavingKeeps

LEMMA LogoutKeeps ==
    ASSUME Books, Sure, NEW p \in Player, Logout(p),
           UNCHANGED <<house, opened, won>>
    PROVE  Books' /\ Sure' /\ CodKept
<1>1. /\ phase[p] # "out" /\ Event /\ Execute(<<SavedPlayer(p)>>) /\ Emptied(p)
      /\ phase' = [phase EXCEPT ![p] = "out"]
      /\ goods' = [goods EXCEPT !.bag[p] = {}, !.gold[p] = 0]
      /\ box' = [box EXCEPT ![p] = {}]
      /\ UNCHANGED <<behind, posted, torn, spoilt>>
  BY DEF Logout, InWorld
<1>2. /\ goods \in Holdings /\ goods.bag \in [Player -> SUBSET Item]
      /\ goods.gold \in [Player -> 0..MaxGold] /\ MaxGold \in Nat
      /\ box \in [Player -> SUBSET Mails]
      /\ phase \in [Player -> {"out", "login", "in", "travel"}]
  BY MemoryType DEF Books
<1>3. \A x \in Binned(p) : x.to = p
  BY <1>1, BinnedFacts
<1>4. /\ goods' \in Holdings /\ goods'.bag = [goods.bag EXCEPT ![p] = {}]
      /\ goods'.gold = [goods.gold EXCEPT ![p] = 0]
  <2>1. PICK h : h = [goods EXCEPT !.bag[p] = {}, !.gold[p] = 0]
    OBVIOUS
  <2>2. h.bag = [goods.bag EXCEPT ![p] = {}] /\ h.gold = [goods.gold EXCEPT ![p] = 0]
        /\ h = [bag |-> h.bag, gold |-> h.gold]
    BY <1>2, <2>1 DEF Holdings
  <2>3. h \in Holdings
    BY <1>2, <2>2 DEF Holdings
  <2> QED
    BY <1>1, <2>1, <2>2, <2>3
<1>5. /\ phase' \in [Player -> {"out", "login", "in", "travel"}]
      /\ box' \in [Player -> SUBSET Mails]
      /\ \A r \in Player \ {p} : phase'[r] = phase[r]
  BY <1>1, <1>2
<1>6. ASSUME NEW r \in Player, phase'[r] # "out"
      PROVE  /\ phase[r] # "out" /\ box'[r] \subseteq box[r] \ Binned(p)
             /\ goods'.bag[r] = goods.bag[r] /\ goods'.gold[r] = goods.gold[r]
  <2>1. r # p /\ phase[r] # "out" /\ box'[r] = box[r]
    BY <1>1, <1>2, <1>6
  <2>2. \A x \in box[r] : x.to = r
    BY <2>1, SureFacts
  <2> QED
    BY <1>2, <1>3, <1>4, <2>1, <2>2
<1> QED
  BY <1>1, <1>4, <1>5, <1>6, SavingKeeps

LEMMA RequestLoginKeeps ==
    ASSUME Books, Sure, NEW p \in Player, RequestLogin(p),
           UNCHANGED <<house, opened, won>>
    PROVE  Books' /\ Sure' /\ CodKept
<1>1. PICK d : d = Stored
  OBVIOUS
<1>2. /\ phase[p] = "out" /\ phase' = [phase EXCEPT ![p] = "login"]
      /\ goods' = [goods EXCEPT !.bag[p] = Pack(d, p), !.gold[p] = d.gold[p]]
      /\ box' = [box EXCEPT ![p] = {m \in d.mails : m.to = p}]
      /\ behind' = [behind EXCEPT ![p] = Len(disk) - 1]
      /\ UNCHANGED <<marked, disk, posted, torn, spoilt, events>>
  BY <1>1 DEF RequestLogin
<1>3. TypeOK /\ MailTypeOK
  BY DEF Books, TypeOK
<1>4. /\ goods \in Holdings /\ goods.bag \in [Player -> SUBSET Item]
      /\ goods.gold \in [Player -> 0..MaxGold]
      /\ box \in [Player -> SUBSET Mails]
      /\ marked \in [Player -> SUBSET (1..MaxMails)]
      /\ phase \in [Player -> {"out", "login", "in", "travel"}]
      /\ behind \in [Player -> 0..MaxQueue] /\ events \in 0..MaxEvents
      /\ Len(disk) \in 1..MaxQueue + 1
  BY <1>3, MemoryType DEF MailTypeOK
<1>5. /\ d \in Tables /\ d.mails \in SUBSET Mails /\ d.gold \in [Player -> 0..MaxGold]
  BY <1>1, StoredFacts DEF Tables
<1>6. /\ goods' \in Holdings /\ goods'.bag = [goods.bag EXCEPT ![p] = Pack(d, p)]
      /\ goods'.gold = [goods.gold EXCEPT ![p] = d.gold[p]]
  <2>1. PICK h : h = [goods EXCEPT !.bag[p] = Pack(d, p), !.gold[p] = d.gold[p]]
    OBVIOUS
  <2>2. /\ h.bag = [goods.bag EXCEPT ![p] = Pack(d, p)]
        /\ h.gold = [goods.gold EXCEPT ![p] = d.gold[p]]
        /\ h = [bag |-> h.bag, gold |-> h.gold]
    BY <1>4, <2>1 DEF Holdings
  <2>3. Pack(d, p) \in SUBSET Item
    BY DEF Pack
  <2>4. h \in Holdings
    BY <1>4, <1>5, <2>2, <2>3 DEF Holdings
  <2> QED
    BY <1>2, <2>1, <2>2, <2>4
<1>7. /\ phase' \in [Player -> {"out", "login", "in", "travel"}]
      /\ box' \in [Player -> SUBSET Mails]
      /\ behind' \in [Player -> 0..MaxQueue]
  <2>1. Len(disk) - 1 \in 0..MaxQueue
    BY <1>4, MailAssumption
  <2> QED
    BY <1>2, <1>4, <1>5, <2>1
<1>8. \A r \in Player : /\ marked'[r] \subseteq 1..posted
                        /\ phase'[r] = "out" => marked'[r] = {}
  BY <1>2, <1>4 DEF Books
<1>9. Recalled(d, phase', goods', box')
  <2> SUFFICES ASSUME NEW r \in Player, phase'[r] # "out"
               PROVE  /\ goods'.bag[r] = Pack(d, r) /\ goods'.gold[r] = d.gold[r]
                      /\ box'[r] \subseteq {m \in d.mails : m.to = r}
    BY DEF Recalled
  <2>1. CASE r = p
    BY <1>2, <1>4, <1>6, <2>1
  <2>2. CASE r # p
    <3>1. /\ phase[r] # "out" /\ goods'.bag[r] = goods.bag[r]
          /\ goods'.gold[r] = goods.gold[r] /\ box'[r] = box[r]
      BY <1>2, <1>4, <1>6, <2>2
    <3>2. Recalled(d, phase, goods, box)
      BY <1>1, SureFacts
    <3> QED
      BY <3>1, <3>2 DEF Recalled
  <2> QED
    BY <2>1, <2>2
<1>10. Bins'
  <2> SUFFICES ASSUME NEW r \in Player, phase'[r] # "out", NEW x \in box'[r], x.id \in marked[r]
               PROVE  x.cod = 0
    BY <1>2 DEF Bins
  <2>1. r # p
    BY <1>2 DEF Books
  <2>2. phase[r] # "out" /\ x \in box[r]
    BY <1>2, <1>4, <2>1
  <2> QED
    BY <2>2 DEF Sure, Bins
<1>11. /\ Recalled(Stored, phase', goods', box') /\ marked' \in [Player -> SUBSET (1..MaxMails)]
       /\ events' \in 0..MaxEvents
  BY <1>1, <1>2, <1>4, <1>9
<1> QED
  BY <1>2, <1>6, <1>7, <1>8, <1>10, <1>11, TablesStay

\* Login, Depart and Arrive: a player in memory changes phase.
LEMMA PhaseKeeps ==
    ASSUME Books, Sure, NEW p \in Player, phase[p] # "out", NEW v \in {"in", "travel"},
           phase' = [phase EXCEPT ![p] = v], events' \in 0..MaxEvents,
           UNCHANGED <<goods, box, marked, behind, disk, posted, torn, spoilt>>,
           UNCHANGED <<house, opened, won>>
    PROVE  Books' /\ Sure' /\ CodKept
<1>1. TypeOK /\ MailTypeOK
  BY DEF Books, TypeOK
<1>2. /\ goods \in Holdings /\ box \in [Player -> SUBSET Mails]
      /\ marked \in [Player -> SUBSET (1..MaxMails)]
      /\ phase \in [Player -> {"out", "login", "in", "travel"}]
      /\ behind \in [Player -> 0..MaxQueue]
  BY <1>1 DEF MailTypeOK
<1>3. \A r \in Player : phase'[r] # "out" <=> phase[r] # "out"
  BY <1>2
<1>4. Recalled(Stored, phase', goods', box')
  <2>1. Recalled(Stored, phase, goods, box)
    BY SureFacts
  <2>2. Recalled(Stored, phase', goods, box)
    BY <1>3, <2>1 DEF Recalled
  <2>3. goods' = goods /\ box' = box
    OBVIOUS
  <2> QED
    BY <2>2, <2>3, Zenon
<1>5. Bins'
  <2>1. Bins
    BY DEF Sure
  <2>2. box' = box /\ marked' = marked
    OBVIOUS
  <2> QED
    BY <1>3, <2>1, <2>2 DEF Bins
<1>6. \A r \in Player : /\ marked'[r] \subseteq 1..posted
                        /\ phase'[r] = "out" => marked'[r] = {}
  BY <1>3 DEF Books
<1>7. /\ phase' \in [Player -> {"out", "login", "in", "travel"}]
      /\ goods' \in Holdings /\ box' \in [Player -> SUBSET Mails]
      /\ marked' \in [Player -> SUBSET (1..MaxMails)] /\ behind' \in [Player -> 0..MaxQueue]
  BY <1>2
<1> QED
  BY <1>4, <1>5, <1>6, <1>7, TablesStay

LEMMA OldMailKeeps ==
    ASSUME Books, Sure, NEW m, ReturnOrDeleteOldMail(m), ~spoilt',
           UNCHANGED <<house, opened, won>>
    PROVE  Books' /\ Sure' /\ CodKept
<1>1. PICK d : d = Stored
  OBVIOUS
<1>2. PICK back \in BOOLEAN : back = (m.items # {} /\ m.from # House /\ m.mark = "sent")
  OBVIOUS
<1>3. PICK e : e = IF back THEN Reversed(d, m) ELSE Erased(d, {m})
  OBVIOUS
<1>4. /\ Event /\ Execute(<<e>>) /\ m \in d.mails /\ m.id \notin Ids(box[m.to])
      /\ phase' = phase /\ goods' = goods /\ box' = box /\ marked' = marked
      /\ behind' = behind /\ posted' = posted /\ torn' = torn
  BY <1>1, <1>2, <1>3 DEF ReturnOrDeleteOldMail, Spoiling, memory
<1>5. TypeOK /\ MailTypeOK
  BY DEF Books, TypeOK
<1>6. /\ goods \in Holdings /\ box \in [Player -> SUBSET Mails]
      /\ marked \in [Player -> SUBSET (1..MaxMails)]
      /\ phase \in [Player -> {"out", "login", "in", "travel"}]
      /\ events' \in 0..MaxEvents /\ spoilt' \in BOOLEAN
  <2>1. events \in 0..MaxEvents /\ MaxEvents \in Nat
    BY <1>5, MailAssumption DEF MailTypeOK
  <2>2. spoilt' \in BOOLEAN
    <3>1. spoilt' = (spoilt \/ m \notin Stored.mails \/ m.id \in Ids(box[m.to]))
      BY DEF ReturnOrDeleteOldMail, Spoiling
    <3> QED
      BY <3>1
  <2>3. events' \in 0..MaxEvents
    BY <1>4, <2>1 DEF Event
  <2> QED
    BY <1>5, <2>2, <2>3 DEF MailTypeOK
<1>7. /\ d \in Tables /\ Sound(d, posted, opened) /\ d.mails \in SUBSET Mails
      /\ posted \in Nat /\ opened \in Nat /\ posted <= MaxMails
  BY <1>1, StoredFacts DEF Tables
<1>8. /\ Placed(d) /\ Wealth(d) = SumFunction(Gold0) /\ OnDelivery(d)
      /\ Recalled(d, phase, goods, box)
      /\ \A r \in Player : phase[r] # "out" => \A x \in box[r] : x \in d.mails /\ x.to = r
  BY <1>1, SureFacts
<1>9. /\ m \in Mails /\ m.money \in Nat /\ m.cod \in Nat /\ m.from \in Player \cup {House}
  <2>1. m \in Mails
    BY <1>4, <1>7
  <2> QED
    BY <2>1, MailAssumption DEF Mails
<1>10. \A x \in d.mails : x.id = m.id <=> x = m
  BY <1>4, <1>7 DEF Sound
<1>11. PICK t : t = [m EXCEPT !.from = m.to, !.to = m.from, !.cod = 0, !.mark = "returned"]
  OBVIOUS
<1>12. ASSUME back
       PROVE  /\ Sound(e, posted, opened) /\ Complete(e) /\ Honours(d, e)
              /\ e.mails = (d.mails \ {m}) \cup {t}
              /\ e.row = d.row /\ e.gold = d.gold /\ e.auctions = d.auctions
  <2>1. m.from # House /\ m.from \in Player /\ e = Reversed(d, m)
    BY <1>2, <1>3, <1>9, <1>12
  <2>2. /\ t \in Mails /\ t.id = m.id /\ t.to = m.from /\ t.items = m.items
        /\ t.money = m.money /\ t.cod = 0
    BY <1>9, <1>11, <2>1 DEF Mails
  <2>3. /\ e.mails = (d.mails \ {m}) \cup {t} /\ e.row = d.row /\ e.gold = d.gold
        /\ e.auctions = d.auctions /\ e.gone = d.gone /\ e.spent = d.spent
    <3> DEFINE new(x) == [x EXCEPT !.from = m.to, !.to = m.from, !.cod = 0, !.mark = "returned"]
    <3>1. /\ e.mails = {IF x.id # m.id THEN x ELSE new(x) : x \in d.mails}
          /\ e.gold = d.gold /\ e.row = d.row /\ e.auctions = d.auctions
          /\ Others(d, e)
      BY <1>7, <1>9, <2>1, ReversedFields
    <3>2. new(m) = t
      BY <1>11
    <3> HIDE DEF new
    <3>3. e.mails = (d.mails \ {m}) \cup {t}
      BY <1>4, <1>10, <3>1, <3>2
    <3> QED
      BY <3>1, <3>3 DEF Others
  <2>4. Sound(e, posted, opened)
    BY <1>7, <1>9, <2>1, SoundReversed
  <2>5. Wealth(e) = Wealth(d)
    <3>1. Wealth(e) = Wealth(d) - m.money + t.money
      BY <1>4, <1>7, <2>2, <2>3, WealthOfRow
    <3>2. Wealth(d) \in Nat
      BY <1>7, WealthParts
    <3> QED
      BY <1>9, <2>2, <3>1, <3>2
  <2>6. Placed(e)
    <3> SUFFICES ASSUME NEW j \in Item PROVE Accounted(e, j)
      BY DEF Placed
    <3>1. Accounted(d, j)
      BY <1>8 DEF Placed
    <3>2. CASE j \in m.items
      <4>1. /\ WithNobody(d, j) /\ InNoAuction(d, j) /\ j \notin d.gone
            /\ \A x \in d.mails : j \in x.items => x = m
        BY <1>4, <3>1, <3>2, InMail
      <4>2. j \in t.items /\ t \in e.mails /\ \A x \in e.mails : j \in x.items => x = t
        BY <2>2, <2>3, <3>2, <4>1
      <4> QED
        BY <2>3, <4>1, <4>2 DEF Accounted, InOnePlace, InNoAuction, WithNobody
    <3>3. CASE j \notin m.items
      <4>1. \A x : x \in e.mails /\ j \in x.items <=> x \in d.mails /\ j \in x.items
        BY <2>2, <2>3, <3>3
      <4> QED
        BY <2>3, <3>1, <4>1, StillAccounted
    <3> QED
      BY <3>2, <3>3
  <2>7. OnDelivery(e)
    BY <1>8, <2>2, <2>3 DEF OnDelivery
  <2>8. Honours(d, e)
    BY <2>2, <2>3 DEF Honours
  <2> QED
    BY <1>8, <2>3, <2>4, <2>5, <2>6, <2>7, <2>8 DEF Complete
<1>13. ASSUME ~back
       PROVE  /\ Sound(e, posted, opened) /\ Complete(e) /\ Honours(d, e)
              /\ e.mails = d.mails \ {m}
              /\ e.row = d.row /\ e.gold = d.gold /\ e.auctions = d.auctions
  <2>1. e = Erased(d, {m}) /\ {m} \in SUBSET d.mails
    BY <1>3, <1>4, <1>13
  <2>2. LET f == Erased(d, {m}) IN
        /\ Placed(f) /\ OnDelivery(f) /\ Wealth(f) = Wealth(d) /\ Sound(f, posted, opened)
        /\ f.mails = d.mails \ {m}
        /\ f.row = d.row /\ f.gold = d.gold /\ f.auctions = d.auctions
    BY <1>7, <1>8, <2>1, ErasedComplete
  <2>3. Honours(d, e)
    <3>1. ~(m.cod > 0 /\ m.items # {})
      BY <1>2, <1>4, <1>8, <1>13 DEF OnDelivery
    <3> QED
      BY <2>1, <2>2, <3>1 DEF Honours
  <2> QED
    BY <1>8, <2>1, <2>2, <2>3 DEF Complete
<1>14. /\ Sound(e, posted, opened) /\ Complete(e) /\ Honours(d, e)
       /\ d.mails \ {m} \subseteq e.mails
       /\ e.row = d.row /\ e.gold = d.gold /\ e.auctions = d.auctions
  BY <1>12, <1>13
<1>15. Recalled(e, phase, goods, box)
  <2> SUFFICES ASSUME NEW r \in Player, phase[r] # "out"
               PROVE  /\ goods.bag[r] = Pack(e, r) /\ goods.gold[r] = e.gold[r]
                      /\ box[r] \subseteq {x \in e.mails : x.to = r}
    BY DEF Recalled
  <2>1. Pack(e, r) = Pack(d, r)
    BY <1>14 DEF Pack
  <2>2. \A x \in box[r] : x \in d.mails /\ x.to = r
    BY <1>8
  <2>3. \A x \in box[r] : x # m
    BY <1>4, <2>2 DEF Ids
  <2> QED
    BY <1>8, <1>14, <2>1, <2>2, <2>3 DEF Recalled
<1>16. Recalled(e, phase', goods', box') /\ Honours(Stored, e)
  <2>1. Recalled(e, phase', goods', box')
    BY <1>4, <1>15, Zenon
  <2> QED
    BY <1>1, <1>14, <2>1
<1>17. MarksStay(marked', phase', box')
  BY <1>4 DEF MarksStay
<1>18. <<e>> \in Seq(Rows(posted', opened')) /\ <<e>> # <<>> /\ e = <<e>>[Len(<<e>>)]
  <2>1. e \in Rows(posted', opened')
    BY <1>4, <1>14 DEF Rows, Sound
  <2> QED
    BY <2>1
<1>19. /\ won' \in [1..MaxAuctions -> Player \cup {Nobody}] /\ house' = e.auctions
       /\ opened' \in opened..MaxAuctions /\ posted' \in posted..MaxMails
  <2>1. house' = e.auctions
    BY <1>1, <1>14 DEF Books
  <2>2. won' \in [1..MaxAuctions -> Player \cup {Nobody}] /\ opened' \in opened..MaxAuctions
    BY <1>5, AuctionAssumption DEF TypeOK
  <2>3. posted' \in posted..MaxMails
    BY <1>4, <1>7, MailAssumption
  <2> QED
    BY <2>1, <2>2, <2>3
<1>20. /\ phase' \in [Player -> {"out", "login", "in", "travel"}]
       /\ goods' \in Holdings /\ box' \in [Player -> SUBSET Mails]
       /\ marked' \in [Player -> SUBSET (1..MaxMails)]
  BY <1>4, <1>6
<1> QED
  BY <1>4, <1>6, <1>14, <1>16, <1>17, <1>18, <1>19, <1>20, HandlerKeeps

LEMMA CommitKeeps ==
    ASSUME Books, Sure, Commit, UNCHANGED <<house, opened, won>>
    PROVE  Books' /\ Sure' /\ CodKept
<1>1. /\ Len(disk) > 1 /\ disk' = Tail(disk)
      /\ behind' = [p \in Player |-> IF behind[p] = 0 THEN 0 ELSE behind[p] - 1]
      /\ UNCHANGED <<phase, goods, box, marked, posted, torn, spoilt, events>>
  BY DEF Commit
<1>2. TypeOK /\ MailTypeOK /\ disk \in Seq(Tables) /\ Len(disk) \in 1..MaxQueue + 1
  BY DEF Books, TypeOK, MailTypeOK
<1>3. MaxQueue \in Nat
  BY MailAssumption
<1>4. /\ disk' \in Seq(Tables) /\ Len(disk') = Len(disk) - 1 /\ Len(disk') \in 1..MaxQueue + 1
      /\ \A k \in 1..Len(disk') : k + 1 \in 1..Len(disk) /\ disk'[k] = disk[k + 1]
  BY <1>1, <1>2, <1>3
<1>5. Stored' = Stored
  <2>1. Stored' = disk'[Len(disk')] /\ Stored = disk[Len(disk)]
    BY DEF Stored, Last
  <2> QED
    BY <1>2, <1>4, <2>1
<1>6. TypeOK'
  <2>1. behind' \in [Player -> 0..MaxQueue]
    BY <1>1, <1>2, <1>3 DEF MailTypeOK
  <2> QED
    BY <1>1, <1>2, <1>4, <2>1 DEF TypeOK, MailTypeOK
<1>7. Books'
  BY <1>1, <1>4, <1>5, <1>6 DEF Books
<1>8. Completed'
  BY <1>4 DEF Sure, Completed
<1>9. MemoryStored'
  <2>1. \A r \in Player : Pack(Stored', r) = Pack(Stored, r)
    BY <1>5
  <2> QED
    BY <1>1, <1>5, <2>1 DEF MemoryStored, Sure
<1>10. Bins' /\ CodKept
  BY <1>1, <1>5 DEF Bins, Sure, CodKept
<1> QED
  BY <1>7, <1>8, <1>9, <1>10 DEF Sure

-----------------------------------------------------------------------------
(* The handlers of the auction house.                                      *)

LEMMA InAuction ==
    ASSUME NEW d, NEW a \in d.auctions, Accounted(d, a.item)
    PROVE  /\ WithNobody(d, a.item) /\ InNoMail(d, a.item) /\ a.item \notin d.gone
           /\ \A x \in d.auctions : x.item = a.item => x = a
<1>1. ~InNoAuction(d, a.item)
  BY DEF InNoAuction
<1>2. ~Nowhere(d, a.item) /\ a.item \notin d.gone /\ InOnePlace(d, a.item)
  BY <1>1 DEF Accounted, Nowhere
<1>3. /\ WithNobody(d, a.item) /\ InNoMail(d, a.item)
      /\ \E y \in d.auctions : y.item = a.item /\ \A x \in d.auctions : x.item = a.item => x = y
  BY <1>1, <1>2 DEF InOnePlace
<1> QED
  BY <1>2, <1>3

LEMMA HouseFacts ==
    ASSUME Books, NEW a \in house
    PROVE  /\ a \in Stored.auctions /\ a \in Auctions /\ Fair(a) /\ a.id <= opened
           /\ \A x \in Stored.auctions : x.id = a.id <=> x = a
           /\ a.bid \in Nat /\ a.buyout \in Nat /\ a.owner \in Player /\ a.id \in Nat
           /\ a.item \in Item \cup {NoItem} /\ a.bidder \in Player \cup {Nobody}
           /\ a.sold \in BOOLEAN
<1>1. a \in Stored.auctions
  BY DEF Books
<1>2. Sound(Stored, posted, opened) /\ Stored \in Tables
  BY StoredFacts
<1>3. a \in Auctions
  BY <1>1, <1>2 DEF Tables
<1>4. Fair(a) /\ a.id <= opened /\ \A x \in Stored.auctions : x.id = a.id <=> x = a
  BY <1>1, <1>2 DEF Sound
<1>5. /\ a.bid \in Nat /\ a.buyout \in Nat /\ a.owner \in Player /\ a.id \in Nat
      /\ a.item \in Item \cup {NoItem} /\ a.bidder \in Player \cup {Nobody}
      /\ a.sold \in BOOLEAN
  <2>1. /\ a.bid \in Nat /\ a.buyout \in Buyouts /\ a.owner \in Player /\ a.id \in 1..MaxAuctions
        /\ a.item \in Item \cup {NoItem} /\ a.bidder \in Player \cup {Nobody}
        /\ a.sold \in BOOLEAN
    BY <1>3 DEF Auctions
  <2>2. a.buyout \in Nat
    BY <2>1, AuctionAssumption
  <2>3. a.id \in Nat
    BY <2>1
  <2> QED
    BY <2>1, <2>2, <2>3
<1> QED
  BY <1>1, <1>3, <1>4, <1>5

LEMMA CutFacts ==
    ASSUME NEW a, a.bid \in Nat
    PROVE  Cut(a) \in Nat /\ (CutPercent <= 100 => Cut(a) <= a.bid)
<1>1. PICK c \in Nat, b \in Nat : c = CutPercent /\ b = a.bid
  BY AuctionAssumption
<1>2. PICK n : n = c * b
  OBVIOUS
<1>3. n \in Nat
  BY <1>2, Natural
<1>4. Cut(a) = n \div 100
  BY <1>1, <1>2 DEF Cut
<1>5. Cut(a) \in Nat
  BY <1>3, <1>4
<1>6. ASSUME c <= 100
      PROVE  n \div 100 <= b
  <2>1. PICK k : k = (100 - c) * b
    OBVIOUS
  <2>2. k \in Nat
    <3>1. 100 - c \in Nat
      BY <1>6
    <3> QED
      BY <2>1, <3>1, Natural
  <2>3. n + k = 100 * b
    <3>1. (100 - c) * b = 100 * b - c * b
      OBVIOUS
    <3> QED
      BY <1>2, <1>3, <2>1, <3>1
  <2>4. n <= 100 * b
    BY <1>3, <2>2, <2>3
  <2> QED
    BY <1>3, <2>4
<1> QED
  BY <1>1, <1>4, <1>5, <1>6

LEMMA HouseKeeps ==
    ASSUME Books, Sure, NEW steps \in Seq(Rows(posted', opened')), steps # <<>>,
           NEW e, e = steps[Len(steps)],
           NEW N \in SUBSET Mails, \A x \in N : x.id > posted /\ x.cod = 0,
           MailAndSave(N, steps),
           posted' \in posted..MaxMails, opened' \in opened..MaxAuctions,
           won' \in [1..MaxAuctions -> Player \cup {Nobody}],
           NEW p \in Player, NEW g \in Holdings, goods' = g,
           e.mails = Stored.mails \cup N, house' = e.auctions,
           Placed(e), Wealth(e) = Wealth(Stored), OnlyOf(p, Stored, e, goods, g),
           phase[p] # "out" => g.bag[p] = Pack(e, p) /\ g.gold[p] = e.gold[p]
    PROVE  Books' /\ Sure' /\ CodKept
<1>1. box' = Delivered(box, N) /\ Execute(steps) /\ Quiet /\ marked' = marked
  BY DEF MailAndSave
<1>2. box \in [Player -> SUBSET Mails] /\ posted \in Nat
  BY MemoryType, StoredFacts DEF Books
<1>3. /\ box' \in [Player -> SUBSET Mails]
      /\ \A r \in Player : box'[r] \subseteq box[r] \cup {x \in N : x.to = r}
  BY <1>1, <1>2, InBoxes
<1>4. /\ OnDelivery(Stored) /\ Wealth(Stored) = SumFunction(Gold0)
      /\ Recalled(Stored, phase, goods, box)
      /\ \A r \in Player : phase[r] # "out" => \A x \in box[r] : x \in Stored.mails /\ x.to = r
  BY SureFacts
<1>5. OnDelivery(e)
  BY <1>4 DEF OnDelivery
<1>6. Complete(e)
  BY <1>4, <1>5 DEF Complete
<1>7. Honours(Stored, e)
  BY DEF Honours
<1>8. Recalled(e, phase, g, box')
  <2>1. \A r \in Player : phase[r] # "out" => box'[r] \subseteq {x \in e.mails : x.to = r}
    BY <1>3, <1>4
  <2>2. Recalled(Stored, phase, goods, box)
    BY <1>4
  <2> QED
    BY <2>1, <2>2, StillRecalled
<1>9. \A r \in Player : \A x \in box'[r] : x \in box[r] \/ x.id > posted
  BY <1>3
<1> QED
  BY <1>1, <1>3, <1>6, <1>7, <1>8, <1>9, QuietKeeps

LEMMA SellItemKeeps ==
    ASSUME Books, Sure, NEW p \in Player, NEW i \in Item, NEW start \in StartBids,
           NEW buyout \in Buyouts, SellItem(p, i, start, buyout)
    PROVE  Books' /\ Sure' /\ CodKept
<1>1. PICK d : d = Stored
  OBVIOUS
<1>2. PICK a : a = [id |-> opened + 1, owner |-> p, item |-> i, start |-> start,
                    buyout |-> buyout, bid |-> 0, bidder |-> Nobody, sold |-> FALSE]
  OBVIOUS
<1>3. PICK g : g = [goods EXCEPT !.bag[p] = @ \ {i}, !.gold[p] = @ - Deposit]
  OBVIOUS
<1>4. PICK s : s = Lost(d, {i})
  OBVIOUS
<1>5. PICK u : u = Put(s, a)
  OBVIOUS
<1>6. PICK e : e = Saved(u, p, g)
  OBVIOUS
<1>7. /\ InWorld(p) /\ i \in goods.bag[p] /\ goods.gold[p] >= Deposit
      /\ opened < MaxAuctions /\ opened' = opened + 1 /\ goods' = g
      /\ house' = house \cup {a} /\ MailAndSave({}, <<e>>) /\ won' = won
  <2>1. a.id = opened + 1
    BY <1>2
  <2> QED
    BY <1>1, <1>2, <1>3, <1>4, <1>5, <1>6, <2>1 DEF SellItem
<1>8. /\ d \in Tables /\ Sound(d, posted, opened) /\ TypeOK
      /\ posted \in Nat /\ opened \in Nat /\ opened' \in Nat /\ posted <= MaxMails
  BY <1>1, <1>7, StoredFacts DEF Books
<1>9. /\ goods \in Holdings /\ goods.bag \in [Player -> SUBSET Item]
      /\ goods.gold \in [Player -> 0..MaxGold]
      /\ MaxGold \in Nat /\ MaxMails \in Nat /\ Nobody \notin Player
      /\ Deposit \in Nat /\ MaxAuctions \in Nat /\ NoItem \notin Item
      /\ start \in Nat /\ buyout \in Nat
  BY <1>8, MemoryType, AuctionAssumption
<1>10. a \in Auctions /\ Fair(a) /\ a.id = opened + 1 /\ a.bid = 0 /\ a.item = i
  <2>1. opened + 1 \in 1..MaxAuctions
    BY <1>7, <1>8, <1>9
  <2>2. a \in Auctions
    BY <1>2, <2>1 DEF Auctions
  <2>3. Fair(a)
    BY <1>2, <1>9 DEF Fair
  <2> QED
    BY <1>2, <2>2, <2>3
<1>11. /\ g \in Holdings /\ g.bag = [goods.bag EXCEPT ![p] = @ \ {i}]
       /\ g.gold = [goods.gold EXCEPT ![p] = @ - Deposit]
  <2>1. /\ g.bag = [goods.bag EXCEPT ![p] = @ \ {i}]
        /\ g.gold = [goods.gold EXCEPT ![p] = @ - Deposit]
        /\ g = [bag |-> g.bag, gold |-> g.gold]
    BY <1>3, <1>9 DEF Holdings
  <2>2. goods.gold[p] - Deposit \in 0..MaxGold
    BY <1>7, <1>9
  <2> QED
    BY <1>9, <2>1, <2>2 DEF Holdings
<1>12. /\ Sound(s, posted, opened) /\ Sound(u, posted, opened') /\ Sound(e, posted, opened')
       /\ a \notin s.auctions
  <2>1. Sound(s, posted, opened)
    BY <1>4, <1>8, SoundLost
  <2>2. Sound(Put(s, a), posted, opened + 1) /\ a \notin s.auctions
    BY <1>8, <1>10, <2>1, SoundAuctions
  <2>3. g \in Holdings /\ Sound(u, posted, opened')
    BY <1>5, <1>7, <1>11, <2>2
  <2> QED
    BY <1>6, <2>1, <2>2, <2>3, SoundSaved
<1>13. /\ s \in Tables /\ u \in Tables /\ u.gold = d.gold
       /\ e.row = [j \in Item |-> IF j \in g.bag[p] THEN p
                                  ELSE IF j = i THEN Nobody ELSE d.row[j]]
       /\ e.gold = [d.gold EXCEPT ![p] = g.gold[p]]
       /\ e.mails = d.mails /\ e.auctions = d.auctions \cup {a} /\ e.gone = d.gone
  <2>1. /\ s \in Tables /\ s.row = [j \in Item |-> IF j \in {i} THEN Nobody ELSE d.row[j]]
        /\ s.gold = d.gold /\ s.mails = d.mails /\ s.auctions = d.auctions
        /\ s.gone = d.gone
    BY <1>4, <1>8, LostFields DEF Others
  <2>2. /\ u \in Tables /\ u.row = s.row
        /\ u.gold = d.gold /\ u.mails = d.mails /\ u.auctions = d.auctions \cup {a}
        /\ u.gone = d.gone
    <3>1. LET f == Put(s, a) IN
          /\ f \in Tables /\ f.auctions = s.auctions \cup {a}
          /\ f.gold = s.gold /\ f.row = s.row /\ f.mails = s.mails /\ Others(s, f)
      BY <1>10, <2>1, AuctionFields
    <3> QED
      BY <1>5, <2>1, <3>1 DEF Others
  <2>3. /\ e.row = [j \in Item |-> IF j \in g.bag[p] THEN p ELSE u.row[j]]
        /\ e.gold = [u.gold EXCEPT ![p] = g.gold[p]] /\ e.mails = u.mails
        /\ e.auctions = u.auctions /\ e.gone = u.gone
    <3>1. g \in Holdings
      BY <1>11
    <3> QED
      BY <1>6, <2>2, <3>1, SavedFields DEF Others
  <2> QED
    BY <2>1, <2>2, <2>3
<1>14. /\ Placed(d) /\ \A j \in Item : j \in goods.bag[p] <=> d.row[j] = p
       /\ goods.gold[p] = d.gold[p]
  BY <1>1, <1>7, SureFacts DEF InWorld
<1>15. Wealth(e) = Wealth(d)
  <2>1. Wealth(s) = Wealth(d)
    BY <1>4, <1>8, WealthOfMail
  <2>2. Wealth(u) = Wealth(s) + Deposit
    <3>1. Wealth(u) = Wealth(s) + a.bid + Deposit
      BY <1>5, <1>10, <1>12, WealthOfAuction
    <3>2. Wealth(s) \in Nat
      BY <1>12, WealthParts
    <3> QED
      BY <1>9, <1>10, <3>1, <3>2
  <2>3. Wealth(e) = Wealth(u) - d.gold[p] + g.gold[p]
    <3>1. g \in Holdings
      BY <1>11
    <3>2. Wealth(Saved(u, p, g)) = Wealth(u) - u.gold[p] + g.gold[p]
      BY <1>12, <3>1, WealthOfPurse
    <3> QED
      BY <1>6, <1>13, <3>2
  <2>4. g.gold[p] = d.gold[p] - Deposit /\ d.gold[p] \in Nat
    BY <1>9, <1>11, <1>14
  <2>5. Wealth(d) \in Nat
    BY <1>8, WealthParts
  <2> QED
    BY <1>9, <2>1, <2>2, <2>3, <2>4, <2>5
<1>16. \A j \in Item : /\ j \in g.bag[p] <=> d.row[j] = p /\ j # i
                       /\ e.row[j] = IF j = i THEN Nobody ELSE d.row[j]
  <2>1. \A j \in Item : j \in g.bag[p] <=> d.row[j] = p /\ j # i
    BY <1>9, <1>11, <1>14
  <2> QED
    BY <1>13, <2>1
<1>17. Placed(e)
  <2> SUFFICES ASSUME NEW j \in Item PROVE Accounted(e, j)
    BY DEF Placed
  <2>1. Accounted(d, j)
    BY <1>14 DEF Placed
  <2>2. CASE j = i
    <3>1. d.row[j] = p
      BY <1>7, <1>14, <2>2
    <3>2. InNoMail(d, j) /\ InNoAuction(d, j) /\ j \notin d.gone
      BY <2>1, <3>1, InInventory
    <3>3. a \in e.auctions /\ a.item = j /\ \A x \in e.auctions : x.item = j => x = a
      BY <1>10, <1>13, <2>2, <3>2 DEF InNoAuction
    <3> QED
      BY <1>13, <1>16, <2>2, <3>2, <3>3
         DEF Accounted, InOnePlace, WithNobody, InNoMail
  <2>3. CASE j # i
    <3>1. e.row[j] = d.row[j]
      BY <1>16, <2>3
    <3>2. \A x : x \in e.auctions /\ x.item = j <=> x \in d.auctions /\ x.item = j
      BY <1>10, <1>13, <2>3
    <3> QED
      BY <1>13, <2>1, <3>1, <3>2, StillAccounted
  <2> QED
    BY <2>2, <2>3
<1>18. \A j \in Item : e.row[j] = d.row[j] \/ {e.row[j], d.row[j]} \cap (Player \ {p}) = {}
  BY <1>7, <1>9, <1>14, <1>16
<1>19. \A r \in Player \ {p} : /\ e.gold[r] = d.gold[r]
                               /\ g.bag[r] = goods.bag[r] /\ g.gold[r] = goods.gold[r]
  BY <1>8, <1>9, <1>11, <1>13 DEF Tables
<1>20. g.bag[p] = Pack(e, p) /\ g.gold[p] = e.gold[p]
  <2>1. g.bag[p] \subseteq Item
    BY <1>11 DEF Holdings
  <2>2. g.bag[p] = Pack(e, p)
    BY <1>9, <1>16, <2>1 DEF Pack
  <2>3. g.gold[p] = e.gold[p]
    BY <1>8, <1>13 DEF Tables
  <2> QED
    BY <2>2, <2>3
<1>21. posted' = posted
  BY <1>7, <1>8, Posted DEF MailAndSave
<1>22. <<e>> \in Seq(Rows(posted', opened')) /\ <<e>> # <<>> /\ e = <<e>>[Len(<<e>>)]
  <2>1. e \in Rows(posted', opened')
    BY <1>12, <1>21 DEF Rows, Sound
  <2> QED
    BY <2>1
<1>23. /\ posted' \in posted..MaxMails /\ opened' \in opened..MaxAuctions
       /\ won' \in [1..MaxAuctions -> Player \cup {Nobody}] /\ house' = e.auctions
  <2>1. house' = e.auctions
    BY <1>1, <1>7, <1>13 DEF Books
  <2>2. won' \in [1..MaxAuctions -> Player \cup {Nobody}]
    BY <1>7, <1>8 DEF TypeOK
  <2> QED
    BY <1>7, <1>8, <1>9, <1>21, <2>1, <2>2
<1>24. /\ {} \in SUBSET Mails /\ \A x \in {} : x.id > posted /\ x.cod = 0
       /\ e.mails = Stored.mails \cup {} /\ Wealth(e) = Wealth(Stored)
       /\ MailAndSave({}, <<e>>)
       /\ g \in Holdings /\ goods' = g
  BY <1>1, <1>7, <1>11, <1>13, <1>15
<1>25. OnlyOf(p, Stored, e, goods, g)
  BY <1>1, <1>18, <1>19 DEF OnlyOf
<1> QED
  BY <1>17, <1>20, <1>22, <1>23, <1>24, <1>25, HouseKeeps

\* The item of an auction goes into a mail, or it had none.
LEMMA ItemMailed ==
    ASSUME NEW d, NEW e, Placed(d), NEW a \in d.auctions, a.item \in Item \cup {NoItem},
           NEW m \in e.mails, m.items = IF a.item = NoItem THEN {} ELSE {a.item},
           e.gone = d.gone, e.row = d.row, d.mails \subseteq e.mails,
           \A x \in e.mails : x \in d.mails \/ x = m \/ x.items = {},
           \A x : x.item \in Item => (x \in e.auctions <=> x \in d.auctions /\ x # a)
    PROVE  Placed(e)
<1>1. NoItem \notin Item
  BY AuctionAssumption
<1> SUFFICES ASSUME NEW j \in Item PROVE Accounted(e, j)
  BY DEF Placed
<1>2. Accounted(d, j)
  BY DEF Placed
<1>3. CASE j = a.item
  <2>1. /\ WithNobody(d, j) /\ InNoMail(d, j) /\ j \notin d.gone
        /\ \A x \in d.auctions : x.item = j => x = a
    BY <1>2, <1>3, InAuction
  <2>2. m.items = {j}
    BY <1>1, <1>3
  <2>3. j \in m.items /\ \A x \in e.mails : j \in x.items => x = m
    BY <2>1, <2>2 DEF InNoMail
  <2>4. InNoAuction(e, j)
    BY <2>1 DEF InNoAuction
  <2> QED
    BY <2>1, <2>3, <2>4 DEF Accounted, InOnePlace, WithNobody
<1>4. CASE j # a.item
  <2>1. j \notin m.items
    BY <1>4
  <2>2. \A x : x \in e.mails /\ j \in x.items <=> x \in d.mails /\ j \in x.items
    BY <2>1
  <2>3. \A x : x \in e.auctions /\ x.item = j <=> x \in d.auctions /\ x.item = j
    BY <1>4
  <2> QED
    BY <1>2, <2>2, <2>3, StillAccounted
<1> QED
  BY <1>3, <1>4

\* An auction ends, and its item or its money goes to somebody.
LEMMA EndAuctionKeeps ==
    ASSUME Books, Sure, NEW a \in house, NEW to \in Player, NEW items \in SUBSET Item,
           NEW money \in Nat, NEW lost \in Nat, money + lost = a.bid + Deposit,
           items = IF a.item = NoItem THEN {} ELSE {a.item},
           EndAuction(a, HouseMail(1, to, items, money), lost)
    PROVE  Books' /\ Sure' /\ CodKept
<1>1. PICK d : d = Stored
  OBVIOUS
<1>2. PICK m : m = Letter(1, House, to, items, money)
  OBVIOUS
<1>3. PICK s : s = Inserted(d, m)
  OBVIOUS
<1>4. PICK u : u = Removed(s, a)
  OBVIOUS
<1>5. PICK e : e = Spent(u, lost)
  OBVIOUS
<1>6. /\ house' = house \ {a} /\ MailAndSave({m}, <<s, e>>)
      /\ goods' = goods /\ opened' = opened /\ won' = won
  BY <1>1, <1>2, <1>3, <1>4, <1>5 DEF EndAuction, HouseMail
<1>7. /\ d \in Tables /\ Sound(d, posted, opened) /\ TypeOK
      /\ posted \in Nat /\ opened \in Nat
  BY <1>1, StoredFacts DEF Books
<1>8. /\ goods \in Holdings /\ MaxMails \in Nat /\ MaxAuctions \in Nat
      /\ Deposit \in Nat /\ House \notin Player
  BY <1>7, MemoryType, AuctionAssumption
<1>9. /\ a \in d.auctions /\ a \in Auctions /\ Fair(a)
      /\ \A x \in d.auctions : x.id = a.id <=> x = a
      /\ a.bid \in Nat /\ a.item \in Item \cup {NoItem}
  BY <1>1, HouseFacts
<1>10. posted' = posted + 1 /\ posted + 1 <= MaxMails
  BY <1>6, <1>7, Posted DEF MailAndSave
<1>11. /\ m \in Mails /\ m.id = posted + 1 /\ m.items = items /\ m.money = money /\ m.cod = 0
  BY <1>2, <1>7, <1>10, Written
<1>12. /\ s \in Tables /\ s.mails = d.mails \cup {m} /\ s.gold = d.gold /\ s.row = d.row
       /\ s.auctions = d.auctions /\ s.gone = d.gone
  BY <1>3, <1>7, <1>11, InsertedFields DEF Others
<1>13. Sound(s, posted', opened) /\ m \notin d.mails
  BY <1>3, <1>7, <1>10, <1>11, SoundInserted
<1>14. /\ u \in Tables /\ u.auctions = d.auctions \ {a}
       /\ u.gold = d.gold /\ u.row = d.row /\ u.mails = s.mails /\ u.gone = d.gone
  <2>1. LET f == Removed(s, a) IN
        /\ f \in Tables /\ f.auctions = {x \in s.auctions : x.id # a.id}
        /\ f.gold = s.gold /\ f.row = s.row /\ f.mails = s.mails /\ Others(s, f)
    BY <1>9, <1>12, AuctionFields
  <2>2. {x \in d.auctions : x.id # a.id} = d.auctions \ {a}
    BY <1>9
  <2> QED
    BY <1>4, <1>12, <2>1, <2>2 DEF Others
<1>15. Sound(u, posted', opened)
  BY <1>4, <1>7, <1>9, <1>13, SoundAuctions
<1>16. /\ e.auctions = d.auctions \ {a} /\ e.gold = d.gold /\ e.row = d.row
       /\ e.mails = d.mails \cup {m} /\ e.gone = d.gone
       /\ Sound(e, posted', opened)
  BY <1>5, <1>12, <1>14, <1>15, SpentFields, SoundSpent
<1>17. Wealth(e) = Wealth(d)
  <2>1. Wealth(s) = Wealth(d) + money
    BY <1>3, <1>7, <1>11, <1>13, WealthOfMail
  <2>2. Wealth(u) = Wealth(s) - (a.bid + Deposit)
    BY <1>4, <1>9, <1>12, <1>13, WealthOfAuction
  <2>3. Wealth(e) = Wealth(u) + lost
    BY <1>5, <1>15, WealthOfMail
  <2>4. Wealth(d) \in Nat
    BY <1>7, WealthParts
  <2> QED
    BY <1>8, <1>9, <2>1, <2>2, <2>3, <2>4
<1>18. Placed(e)
  <2>1. Placed(d)
    BY <1>1, SureFacts
  <2>2. m \in e.mails /\ m.items = IF a.item = NoItem THEN {} ELSE {a.item}
    BY <1>11, <1>16
  <2>3. d.mails \subseteq e.mails /\ \A x \in e.mails : x \in d.mails \/ x = m \/ x.items = {}
    BY <1>16
  <2>4. \A x : x.item \in Item => (x \in e.auctions <=> x \in d.auctions /\ x # a)
    BY <1>16
  <2> QED
    BY <1>9, <1>16, <2>1, <2>2, <2>3, <2>4, ItemMailed
<1>19. /\ <<s, e>> \in Seq(Rows(posted', opened')) /\ <<s, e>> # <<>>
       /\ e = <<s, e>>[Len(<<s, e>>)]
  <2>1. s \in Rows(posted', opened') /\ e \in Rows(posted', opened')
    BY <1>6, <1>13, <1>16 DEF Rows, Sound
  <2> QED
    BY <2>1
<1>20. /\ posted' \in posted..MaxMails /\ opened' \in opened..MaxAuctions
       /\ won' \in [1..MaxAuctions -> Player \cup {Nobody}] /\ house' = e.auctions
  <2>1. house' = e.auctions
    BY <1>1, <1>6, <1>16 DEF Books
  <2>2. won' \in [1..MaxAuctions -> Player \cup {Nobody}] /\ opened' \in opened..MaxAuctions
    BY <1>6, <1>7, <1>8 DEF TypeOK
  <2> QED
    BY <1>7, <1>8, <1>10, <2>1, <2>2
<1>21. OnlyOf(to, Stored, e, goods, goods)
  BY <1>1, <1>16 DEF OnlyOf
<1>22. phase[to] # "out" => goods.bag[to] = Pack(e, to) /\ goods.gold[to] = e.gold[to]
  <2>1. Pack(e, to) = Pack(d, to)
    BY <1>16 DEF Pack
  <2>2. Recalled(d, phase, goods, box)
    BY <1>1, SureFacts
  <2> QED
    BY <1>16, <2>1, <2>2 DEF Recalled
<1>23. /\ {m} \in SUBSET Mails /\ \A x \in {m} : x.id > posted /\ x.cod = 0
       /\ e.mails = Stored.mails \cup {m} /\ Wealth(e) = Wealth(Stored)
  BY <1>1, <1>7, <1>11, <1>16, <1>17
<1> QED
  BY <1>6, <1>8, <1>18, <1>19, <1>20, <1>21, <1>22, <1>23, HouseKeeps

LEMMA PaySellerKeeps ==
    ASSUME CutPercent <= 100, Books, Sure, NEW a \in house, PaySeller(a)
    PROVE  Books' /\ Sure' /\ CodKept
<1>1. /\ Fair(a) /\ a.bid \in Nat /\ a.owner \in Player
  BY HouseFacts
<1>2. Cut(a) \in Nat /\ Cut(a) <= a.bid /\ Deposit \in Nat
  BY <1>1, CutFacts, AuctionAssumption
<1>3. PICK money : money = a.bid + Deposit - Cut(a)
  OBVIOUS
<1>4. money \in Nat /\ money + Cut(a) = a.bid + Deposit
  BY <1>1, <1>2, <1>3
<1>5. {} = IF a.item = NoItem THEN {} ELSE {a.item}
  BY <1>1 DEF PaySeller, Fair
<1>6. {} \in SUBSET Item /\ EndAuction(a, HouseMail(1, a.owner, {}, money), Cut(a))
  BY <1>3 DEF PaySeller
<1> QED
  BY <1>1, <1>2, <1>4, <1>5, <1>6, EndAuctionKeeps

LEMMA ReturnUnsoldKeeps ==
    ASSUME Books, Sure, NEW a \in house, ReturnUnsold(a)
    PROVE  Books' /\ Sure' /\ CodKept
<1>1. /\ Fair(a) /\ a.owner \in Player /\ a.item \in Item \cup {NoItem}
  BY HouseFacts
<1>2. Deposit \in Nat /\ ~a.sold /\ a.bid = 0 /\ NoItem \notin Item
  BY AuctionAssumption DEF ReturnUnsold
<1>3. a.item # NoItem /\ {a.item} \in SUBSET Item
  BY <1>1, <1>2 DEF Fair
<1>4. 0 \in Nat /\ 0 + Deposit = a.bid + Deposit
  BY <1>2
<1>5. {a.item} = IF a.item = NoItem THEN {} ELSE {a.item}
  BY <1>3
<1>6. EndAuction(a, HouseMail(1, a.owner, {a.item}, 0), Deposit)
  BY DEF ReturnUnsold
<1> QED
  BY <1>1, <1>2, <1>3, <1>4, <1>5, <1>6, EndAuctionKeeps

LEMMA RefundMail ==
    ASSUME Books, NEW a \in house, a.bidder \in Player, posted + 1 <= MaxMails
    PROVE  LET m == Refund(1, a) IN
           /\ m \in Mails /\ m.id = posted + 1 /\ m.items = {} /\ m.money = a.bid /\ m.cod = 0
<1>1. posted \in Nat
  BY StoredFacts
<1>2. PICK to \in Player, v \in Nat, I \in SUBSET Item : to = a.bidder /\ v = a.bid /\ I = {}
  BY HouseFacts
<1>3. PICK m : m = Letter(1, House, to, I, v)
  OBVIOUS
<1>4. m \in Mails /\ m.id = posted + 1 /\ m.items = I /\ m.money = v /\ m.cod = 0
  BY <1>1, <1>3, Written
<1>5. Refund(1, a) = m
  BY <1>2, <1>3 DEF Refund, HouseMail
<1> QED
  BY <1>2, <1>4, <1>5

\* The bid before is sent back to the bidder with k mails, one or none: those
\* mails, the tables with them, and the transactions.
Refunds(k, a) == IF k = 0 THEN {} ELSE {Refund(1, a)}
Refunded(k, a) == IF k = 0 THEN Stored ELSE Inserted(Stored, Refund(1, a))
Refunding(k, a) == IF k = 0 THEN <<>> ELSE <<Refunded(k, a)>>

LEMMA RefundFacts ==
    ASSUME Books, NEW a \in house, NEW k \in 0..1, k = 0 \/ a.bidder \in Player,
           posted + k <= MaxMails,
           NEW M, M = Refunds(k, a), NEW r, r = Refunded(k, a),
           NEW before, before = Refunding(k, a)
    PROVE  /\ M \in SUBSET Mails
           /\ \A x \in M : x.id = posted + 1 /\ x.items = {} /\ x.cod = 0
           /\ r \in Tables /\ Sound(r, posted + k, opened)
           /\ r.mails = Stored.mails \cup M /\ r.gold = Stored.gold /\ r.row = Stored.row
           /\ r.auctions = Stored.auctions /\ r.gone = Stored.gone
           /\ before \in Seq(Rows(posted + k, opened))
           /\ Wealth(r) = Wealth(Stored) + IF k = 0 THEN 0 ELSE a.bid
<1>1. PICK d : d = Stored
  OBVIOUS
<1>2. d \in Tables /\ Sound(d, posted, opened) /\ posted \in Nat /\ opened \in Nat
  BY <1>1, StoredFacts
<1>3. CASE k = 0
  <2>1. M = {} /\ r = d /\ before = <<>> /\ posted + k = posted
    BY <1>1, <1>2, <1>3 DEF Refunds, Refunded, Refunding
  <2>2. Wealth(d) + 0 = Wealth(d)
    <3>1. Wealth(d) \in Nat
      BY <1>2, WealthParts
    <3> QED
      BY <3>1
  <2>3. before \in Seq(Rows(posted + k, opened))
    <3>1. \A S : <<>> \in Seq(S)
      OBVIOUS
    <3> QED
      BY <2>1, <3>1, Zenon
  <2>4. Sound(r, posted + k, opened)
    BY <1>2, <2>1
  <2> QED
    BY <1>1, <1>2, <1>3, <2>1, <2>2, <2>3, <2>4
<1>4. CASE k = 1
  <2>1. PICK m : m = Refund(1, a)
    OBVIOUS
  <2>2. M = {m} /\ r = Inserted(d, m) /\ before = <<r>> /\ k = 1 /\ a.bidder \in Player
    BY <1>1, <1>4, <2>1 DEF Refunds, Refunded, Refunding
  <2>5. m \in Mails /\ m.id = posted + 1 /\ m.items = {} /\ m.money = a.bid /\ m.cod = 0
    <3>1. posted + 1 <= MaxMails
      BY <2>2
    <3> QED
      BY <2>1, <2>2, <3>1, RefundMail
  <2>6. /\ r \in Tables /\ r.mails = d.mails \cup {m} /\ r.gold = d.gold /\ r.row = d.row
        /\ r.auctions = d.auctions /\ r.gone = d.gone
    BY <1>2, <2>2, <2>5, InsertedFields DEF Others
  <2>7. Sound(r, posted + 1, opened) /\ m \notin d.mails
    BY <1>2, <2>2, <2>5, SoundInserted
  <2>8. Wealth(r) = Wealth(d) + a.bid
    BY <1>2, <2>2, <2>5, <2>7, WealthOfMail
  <2>9. before \in Seq(Rows(posted + k, opened))
    <3>1. r \in Rows(posted + k, opened)
      BY <2>2, <2>6, <2>7 DEF Rows
    <3>2. \A S : r \in S => <<r>> \in Seq(S)
      OBVIOUS
    <3> QED
      BY <2>2, <3>1, <3>2, Zenon
  <2>10. Sound(r, posted + k, opened)
    BY <2>2, <2>7
  <2> QED
    BY <1>1, <1>4, <2>2, <2>5, <2>6, <2>8, <2>9, <2>10
<1> QED
  BY <1>3, <1>4

\* One more mail than those of M, of which there may be one.
LEMMA PostedMore ==
    ASSUME posted \in Nat, NEW k \in 0..1, NEW x, NEW M, M = IF k = 0 THEN {} ELSE {x},
           NEW m, m \notin M
    PROVE  /\ Cardinality(M) = k
           /\ Post(M) => posted' = posted + k /\ posted + k <= MaxMails
           /\ Post(M \cup {m}) => posted' = posted + k + 1 /\ posted + k + 1 <= MaxMails
<1>1. CASE k = 0
  <2>1. M = {} /\ M \cup {m} = {m}
    BY <1>1
  <2>2. Cardinality(M) = 0
    BY <2>1, FS_EmptySet
  <2>3. Post({m}) => posted' = posted + 1 /\ posted + 1 <= MaxMails
    BY Posted
  <2>4. Post(M) => posted' = posted /\ posted <= MaxMails
    BY <2>2 DEF Post
  <2> QED
    BY <1>1, <2>1, <2>2, <2>3, <2>4
<1>2. CASE k = 1
  <2>1. M = {x} /\ M \cup {m} = {x, m} /\ x # m
    BY <1>2
  <2>2. Cardinality(M) = 1
    BY <2>1, FS_Singleton
  <2>3. Post({x, m}) => posted' = posted + 2 /\ posted + 2 <= MaxMails
    BY <2>1, Posted
  <2>4. Post({x}) => posted' = posted + 1 /\ posted + 1 <= MaxMails
    BY Posted
  <2> QED
    BY <1>2, <2>1, <2>2, <2>3, <2>4
<1> QED
  BY <1>1, <1>2

\* The mail with the item, after k others.
LEMMA ItemMail ==
    ASSUME posted \in Nat, NEW k \in 0..1, posted + k + 1 <= MaxMails,
           NEW to \in Player, NEW i \in Item
    PROVE  LET m == Letter(k + 1, House, to, {i}, 0) IN
           /\ m \in Mails
           /\ m.id = posted + k + 1 /\ m.items = {i} /\ m.money = 0 /\ m.cod = 0
<1>1. k + 1 \in {1, 2}
  OBVIOUS
<1>2. PICK n \in {1, 2}, I \in SUBSET Item : n = k + 1 /\ I = {i}
  BY <1>1
<1>3. PICK m : m = Letter(n, House, to, I, 0)
  OBVIOUS
<1>4. posted + n <= MaxMails /\ House \in Player \cup {House} /\ 0 \in Nat
  BY <1>2
<1>5. m \in Mails /\ m.id = posted + n /\ m.items = I /\ m.money = 0 /\ m.cod = 0
  BY <1>3, <1>4, Written
<1>6. posted + n = posted + k + 1
  BY <1>2
<1> QED
  BY <1>2, <1>3, <1>5, <1>6

LEMMA RemoveAuctionKeeps ==
    ASSUME Books, Sure, NEW p \in Player, NEW a \in house, RemoveAuction(p, a)
    PROVE  Books' /\ Sure' /\ CodKept
<1>1. PICK d : d = Stored
  OBVIOUS
<1>3. PICK k \in 0..1 : k = IF a.bidder = Nobody THEN 0 ELSE 1
  OBVIOUS
<1>4. PICK M : M = Refunds(k, a)
  OBVIOUS
<1>5. PICK r : r = Refunded(k, a)
  OBVIOUS
<1>6. PICK before : before = Refunding(k, a)
  OBVIOUS
<1>7. PICK fee : fee = Cut(a)
  OBVIOUS
<1>8. PICK g : g = [goods EXCEPT !.gold[p] = @ - fee]
  OBVIOUS
<1>9. PICK m : m = Letter(Cardinality(M) + 1, House, p, {a.item}, 0)
  OBVIOUS
<1>10. PICK s : s = Inserted(r, m)
  OBVIOUS
<1>11. PICK u : u = Removed(s, a)
  OBVIOUS
<1>12. PICK w : w = Saved(u, p, g)
  OBVIOUS
<1>13. PICK e : e = Spent(w, fee + Deposit)
  OBVIOUS
<1>14. /\ InWorld(p) /\ a.item # NoItem /\ goods.gold[p] >= fee /\ goods' = g
       /\ house' = house \ {a} /\ opened' = opened /\ won' = won
       /\ MailAndSave(M \cup {m}, before \o <<s, e>>)
  <2>1. M = IF a.bidder = Nobody THEN {} ELSE {Refund(1, a)}
    BY <1>3, <1>4 DEF Refunds
  <2>2. /\ r = IF M = {} THEN Stored ELSE Inserted(Stored, Refund(1, a))
        /\ before = IF M = {} THEN <<>> ELSE <<r>>
    BY <1>4, <1>5, <1>6 DEF Refunds, Refunded, Refunding
  <2> QED
    BY <2>2, <1>7, <1>8, <1>9, <1>10, <1>11, <1>12, <1>13, <2>1, Zenon
       DEF RemoveAuction, HouseMail
<1>15. /\ d \in Tables /\ Sound(d, posted, opened) /\ TypeOK
       /\ posted \in Nat /\ opened \in Nat /\ posted <= MaxMails /\ opened <= MaxAuctions
  BY <1>1, StoredFacts DEF Books
<1>16. /\ goods \in Holdings /\ goods.bag \in [Player -> SUBSET Item]
       /\ goods.gold \in [Player -> 0..MaxGold] /\ MaxGold \in Nat
       /\ MaxMails \in Nat /\ MaxAuctions \in Nat
       /\ Deposit \in Nat /\ House \notin Player /\ Nobody \notin Player
  BY <1>15, MemoryType, AuctionAssumption
<1>17. /\ a \in d.auctions /\ a \in Auctions /\ Fair(a)
       /\ \A x \in d.auctions : x.id = a.id <=> x = a
       /\ a.bid \in Nat /\ a.item \in Item /\ a.bidder \in Player \cup {Nobody}
  BY <1>1, <1>14, HouseFacts
<1>18. fee \in Nat
  BY <1>7, <1>17, CutFacts
<1>19. /\ k \in Nat /\ Cardinality(M) = k
       /\ posted' = posted + k + 1 /\ posted + k + 1 <= MaxMails
  <2>1. PICK x : x = Refund(1, a)
    OBVIOUS
  <2>2. M = IF k = 0 THEN {} ELSE {x}
    BY <1>4, <2>1 DEF Refunds
  <2>3. x.id = posted + 1
    BY <2>1 DEF Refund, HouseMail, Letter
  <2>4. Cardinality(M) = k
    <3>1. CASE k = 0
      BY <2>2, <3>1, FS_EmptySet
    <3>2. CASE k = 1
      <4>1. M = {x}
        BY <2>2, <3>2
      <4> QED
        BY <3>2, <4>1, FS_Singleton, Zenon
    <3> QED
      BY <3>1, <3>2
  <2>5. m.id = posted + (k + 1)
    BY <1>9, <2>4 DEF Letter
  <2>6. m \notin M
    BY <1>15, <2>2, <2>3, <2>5
  <2>7. Post(M \cup {m})
    BY <1>14 DEF MailAndSave
  <2>8. posted \in Nat
    BY <1>15
  <2>9. posted' = posted + k + 1 /\ posted + k + 1 <= MaxMails
    BY <2>2, <2>6, <2>7, <2>8, PostedMore, Zenon
  <2> QED
    BY <2>4, <2>9
<1>20. posted + k <= MaxMails /\ (k = 0 \/ a.bidder \in Player)
  BY <1>3, <1>15, <1>16, <1>17, <1>19
<1>21. /\ M \in SUBSET Mails
       /\ \A x \in M : x.id = posted + 1 /\ x.items = {} /\ x.cod = 0
       /\ r \in Tables /\ Sound(r, posted + k, opened)
       /\ r.mails = d.mails \cup M /\ r.gold = d.gold /\ r.row = d.row
       /\ r.auctions = d.auctions /\ r.gone = d.gone
       /\ before \in Seq(Rows(posted + k, opened))
       /\ Wealth(r) = Wealth(d) + IF k = 0 THEN 0 ELSE a.bid
  <2>2. /\ M \in SUBSET Mails
        /\ \A x \in M : x.id = posted + 1 /\ x.items = {} /\ x.cod = 0
        /\ r \in Tables /\ Sound(r, posted + k, opened)
        /\ r.mails = Stored.mails \cup M /\ r.gold = Stored.gold /\ r.row = Stored.row
        /\ r.auctions = Stored.auctions /\ r.gone = Stored.gone
        /\ before \in Seq(Rows(posted + k, opened))
        /\ Wealth(r) = Wealth(Stored) + IF k = 0 THEN 0 ELSE a.bid
    BY <1>4, <1>5, <1>6, <1>20, RefundFacts
  <2> QED
    BY <1>1, <2>2, Zenon
<1>22. /\ m \in Mails /\ m.id = posted + k + 1 /\ m.items = {a.item} /\ m.money = 0 /\ m.cod = 0
  <2>1. PICK i \in Item : i = a.item
    BY <1>17
  <2>2. m = Letter(k + 1, House, p, {i}, 0)
    BY <1>9, <1>19, <2>1
  <2>3. posted \in Nat /\ posted + k + 1 <= MaxMails
    BY <1>15, <1>19
  <2>4. /\ m \in Mails /\ m.id = posted + k + 1 /\ m.items = {i}
        /\ m.money = 0 /\ m.cod = 0
    BY <2>2, <2>3, ItemMail
  <2> QED
    BY <2>1, <2>4
<1>23. /\ s \in Tables /\ s.mails = r.mails \cup {m} /\ s.gold = d.gold /\ s.row = d.row
       /\ s.auctions = d.auctions /\ s.gone = d.gone
  BY <1>10, <1>21, <1>22, InsertedFields DEF Others
<1>24. Sound(s, posted', opened) /\ m \notin r.mails
  <2>1. posted + k \in Nat /\ posted' \in Nat /\ posted + k < m.id /\ m.id <= posted'
    BY <1>15, <1>19, <1>22
  <2> QED
    BY <1>10, <1>21, <1>22, <2>1, SoundInserted
<1>25. /\ u \in Tables /\ u.auctions = d.auctions \ {a}
       /\ u.gold = d.gold /\ u.row = d.row /\ u.mails = s.mails /\ u.gone = d.gone
  <2>1. LET f == Removed(s, a) IN
        /\ f \in Tables /\ f.auctions = {x \in s.auctions : x.id # a.id}
        /\ f.gold = s.gold /\ f.row = s.row /\ f.mails = s.mails /\ Others(s, f)
    BY <1>17, <1>23, AuctionFields
  <2>2. {x \in d.auctions : x.id # a.id} = d.auctions \ {a}
    BY <1>17
  <2> QED
    BY <1>11, <1>23, <2>1, <2>2 DEF Others
<1>26. Sound(u, posted', opened)
  BY <1>11, <1>15, <1>17, <1>24, SoundAuctions
<1>27. g \in Holdings /\ g.bag = goods.bag /\ g.gold = [goods.gold EXCEPT ![p] = @ - fee]
  <2>1. /\ g.bag = goods.bag /\ g.gold = [goods.gold EXCEPT ![p] = @ - fee]
        /\ g = [bag |-> g.bag, gold |-> g.gold]
    BY <1>8, <1>16 DEF Holdings
  <2>2. goods.gold[p] - fee \in 0..MaxGold
    BY <1>14, <1>16, <1>18
  <2> QED
    BY <1>16, <2>1, <2>2 DEF Holdings
<1>28. /\ Placed(d) /\ \A j \in Item : j \in goods.bag[p] <=> d.row[j] = p
       /\ goods.gold[p] = d.gold[p]
  BY <1>1, <1>14, SureFacts DEF InWorld
<1>29. /\ w \in Tables /\ w.row = d.row /\ w.gold = [d.gold EXCEPT ![p] = g.gold[p]]
       /\ w.mails = s.mails /\ w.auctions = d.auctions \ {a} /\ w.gone = d.gone
       /\ Sound(w, posted', opened)
  <2>1. g \in Holdings
    BY <1>27
  <2>2. /\ w \in Tables /\ w.row = [i \in Item |-> IF i \in g.bag[p] THEN p ELSE u.row[i]]
        /\ w.gold = [u.gold EXCEPT ![p] = g.gold[p]]
        /\ w.mails = u.mails /\ w.auctions = u.auctions /\ w.gone = u.gone
    BY <1>12, <1>25, <2>1, SavedFields DEF Others
  <2>3. w.row = d.row
    <3>1. \A i \in Item : w.row[i] = d.row[i]
      BY <1>25, <1>27, <1>28, <2>2
    <3>2. w.row \in [Item -> Player \cup {Nobody}] /\ d.row \in [Item -> Player \cup {Nobody}]
      BY <1>15, <2>2 DEF Tables
    <3> QED
      BY <3>1, <3>2
  <2>4. Sound(w, posted', opened)
    BY <1>12, <1>26, <2>1, SoundSaved
  <2> QED
    BY <1>25, <2>2, <2>3, <2>4
<1>30. /\ e.auctions = d.auctions \ {a} /\ e.gold = [d.gold EXCEPT ![p] = g.gold[p]]
       /\ e.row = d.row /\ e.mails = d.mails \cup (M \cup {m}) /\ e.gone = d.gone
       /\ Sound(e, posted', opened)
  <2>1. fee + Deposit \in Nat
    BY <1>16, <1>18
  <2>2. /\ e.auctions = w.auctions /\ e.gold = w.gold /\ e.row = w.row /\ e.mails = w.mails
        /\ e.gone = w.gone
    BY <1>13, <1>29, <2>1, SpentFields DEF Others
  <2>3. Sound(e, posted', opened)
    BY <1>13, <1>29, <2>1, SoundSpent
  <2>4. e.mails = d.mails \cup (M \cup {m})
    BY <1>21, <1>23, <1>29, <2>2
  <2> QED
    BY <1>29, <2>2, <2>3, <2>4
<1>31. Wealth(e) = Wealth(d)
  <2>1. Wealth(s) = Wealth(r) + 0
    BY <1>10, <1>21, <1>22, <1>24, WealthOfMail
  <2>2. Wealth(u) = Wealth(s) - (a.bid + Deposit)
    BY <1>11, <1>17, <1>23, <1>24, WealthOfAuction
  <2>3. Wealth(w) = Wealth(u) - d.gold[p] + g.gold[p]
    <3>1. g \in Holdings
      BY <1>27
    <3>2. Wealth(Saved(u, p, g)) = Wealth(u) - u.gold[p] + g.gold[p]
      BY <1>26, <3>1, WealthOfPurse
    <3> QED
      BY <1>12, <1>25, <3>2
  <2>4. Wealth(e) = Wealth(w) + (fee + Deposit)
    <3>1. fee + Deposit \in Nat
      BY <1>16, <1>18
    <3> QED
      BY <1>13, <1>29, <3>1, WealthOfMail
  <2>5. g.gold[p] = d.gold[p] - fee /\ d.gold[p] \in Nat
    BY <1>16, <1>27, <1>28
  <2>6. Wealth(d) \in Nat
    BY <1>15, WealthParts
  <2>7. Wealth(r) = Wealth(d) + a.bid
    BY <1>3, <1>17, <1>21 DEF Fair
  <2> QED
    BY <1>16, <1>17, <1>18, <2>1, <2>2, <2>3, <2>4, <2>5, <2>6, <2>7
<1>32. Placed(e)
  <2>1. m \in e.mails /\ m.items = IF a.item = NoItem THEN {} ELSE {a.item}
    BY <1>14, <1>22, <1>30
  <2>2. d.mails \subseteq e.mails /\ \A x \in e.mails : x \in d.mails \/ x = m \/ x.items = {}
    BY <1>21, <1>30
  <2>3. \A x : x.item \in Item => (x \in e.auctions <=> x \in d.auctions /\ x # a)
    BY <1>30
  <2>4. a.item \in Item \cup {NoItem} /\ Placed(d) /\ a \in d.auctions
    BY <1>17, <1>28
  <2>5. e.gone = d.gone /\ e.row = d.row
    BY <1>30
  <2> QED
    BY <2>1, <2>2, <2>3, <2>4, <2>5, ItemMailed
<1>33. PICK steps : steps = before \o <<s, e>>
  OBVIOUS
<1>34. steps \in Seq(Rows(posted', opened')) /\ steps # <<>> /\ e = steps[Len(steps)]
  <2>1. PICK S : S = Rows(posted', opened')
    OBVIOUS
  <2>2. s \in S /\ e \in S
    BY <1>14, <1>24, <1>30, <2>1 DEF Rows, Sound
  <2>3. before \in Seq(S)
    <3>1. CASE k = 0
      BY <1>6, <3>1 DEF Refunding
    <3>2. CASE k # 0
      <4>1. posted + k \in Nat /\ posted' \in Nat /\ posted + k <= posted'
        BY <1>15, <1>19
      <4>2. r \in S
        BY <1>14, <1>15, <1>21, <2>1, <4>1, RowsGrow
      <4> QED
        BY <1>5, <1>6, <3>2, <4>2 DEF Refunding
    <3> QED
      BY <3>1, <3>2
  <2> QED
    BY <1>33, <2>1, <2>2, <2>3, EndsTwo
<1>35. /\ posted' \in posted..MaxMails /\ opened' \in opened..MaxAuctions
       /\ won' \in [1..MaxAuctions -> Player \cup {Nobody}] /\ house' = e.auctions
  <2>1. house' = e.auctions
    BY <1>1, <1>14, <1>30 DEF Books
  <2>2. won' \in [1..MaxAuctions -> Player \cup {Nobody}] /\ opened' \in opened..MaxAuctions
    BY <1>14, <1>15, <1>16 DEF TypeOK
  <2>3. posted' \in posted..MaxMails
    BY <1>15, <1>16, <1>19
  <2> QED
    BY <2>1, <2>2, <2>3
<1>36. OnlyOf(p, Stored, e, goods, g)
  <2>1. \A q \in Player \ {p} : /\ e.gold[q] = d.gold[q]
                                /\ g.bag[q] = goods.bag[q] /\ g.gold[q] = goods.gold[q]
    BY <1>15, <1>16, <1>27, <1>30 DEF Tables
  <2> QED
    BY <1>1, <1>30, <2>1 DEF OnlyOf
<1>37. g.bag[p] = Pack(e, p) /\ g.gold[p] = e.gold[p]
  <2>1. goods.bag[p] \subseteq Item
    BY <1>16
  <2>2. g.bag[p] = Pack(e, p)
    BY <1>27, <1>28, <1>30, <2>1 DEF Pack
  <2>3. g.gold[p] = e.gold[p]
    BY <1>15, <1>30 DEF Tables
  <2> QED
    BY <2>2, <2>3
<1>38. PICK N \in SUBSET Mails : N = M \cup {m}
  BY <1>21, <1>22
<1>39. /\ \A x \in N : x.id > posted /\ x.cod = 0
       /\ e.mails = Stored.mails \cup N /\ Wealth(e) = Wealth(Stored)
       /\ MailAndSave(N, steps) /\ g \in Holdings /\ goods' = g
  <2>1. posted + 1 > posted /\ posted + k + 1 > posted
    BY <1>15, <1>19
  <2>2. \A x \in N : x.id > posted /\ x.cod = 0
    BY <1>21, <1>22, <1>38, <2>1
  <2> QED
    BY <1>1, <1>14, <1>27, <1>30, <1>31, <1>33, <1>38, <2>2
<1> QED
  BY <1>32, <1>34, <1>35, <1>36, <1>37, <1>39, HouseKeeps

\* The auction old is won: it has become a, and d is what the tables are then.
LEMMA BidWinningKeeps ==
    ASSUME Books, Sure, NEW old \in house, NEW k \in 0..1, k = 0 \/ old.bidder \in Player,
           NEW M, M = Refunds(k, old), NEW before, before = Refunding(k, old),
           NEW a \in Auctions, a.id = old.id, a.item = old.item,
           a.bidder \in Player, a.bid # 0, a.buyout # 0 => a.bid <= a.buyout,
           NEW p \in Player, NEW g \in Holdings, goods' = g, opened' = opened,
           NEW d, Sound(d, posted + k, opened), d.mails = Stored.mails \cup M,
           d.row = Stored.row, d.auctions = Stored.auctions, d.gone = Stored.gone,
           Wealth(d) + a.bid = Wealth(Stored) + old.bid,
           OnlyOf(p, Stored, d, goods, g),
           phase[p] # "out" => g.bag[p] = Pack(d, p) /\ g.gold[p] = d.gold[p],
           BidWinning(old, a, d, M, before)
    PROVE  Books' /\ Sure' /\ CodKept
<1>1. PICK sold : sold = [a EXCEPT !.sold = TRUE, !.item = NoItem]
  OBVIOUS
<1>2. PICK prize : prize = Letter(Cardinality(M) + 1, House, a.bidder, {a.item}, 0)
  OBVIOUS
<1>3. PICK row : row = Changed(d, sold)
  OBVIOUS
<1>4. PICK e : e = Inserted(row, prize)
  OBVIOUS
<1>5. /\ house' = (house \ {old}) \cup {sold}
      /\ \/ a.item = NoItem /\ MailAndSave(M, before \o <<row>>) /\ won' = won
         \/ /\ a.item # NoItem /\ MailAndSave(M \cup {prize}, before \o <<row, e>>)
            /\ won' = [won EXCEPT ![a.id] = a.bidder]
  BY <1>1, <1>2, <1>3, <1>4, Zenon DEF BidWinning, Replaced, HouseMail
<1>6. /\ Stored \in Tables /\ TypeOK /\ d \in Tables
      /\ posted \in Nat /\ opened \in Nat /\ posted <= MaxMails /\ opened <= MaxAuctions
  BY StoredFacts DEF Books, Sound
<1>7. /\ MaxMails \in Nat /\ MaxAuctions \in Nat /\ NoItem \notin Item
      /\ House \notin Player /\ Nobody \notin Player
  BY <1>6, MemoryType, AuctionAssumption
<1>8. /\ old \in Stored.auctions /\ old.id <= opened
      /\ \A x \in Stored.auctions : x.id = old.id <=> x = old
      /\ old.bid \in Nat /\ old.item \in Item \cup {NoItem}
  BY HouseFacts
<1>9. /\ sold \in Auctions /\ sold.id = old.id /\ sold.item = NoItem /\ sold.bid = a.bid
      /\ Fair(sold) /\ a.bid \in Nat
  <2>1. /\ sold \in Auctions /\ sold.id = old.id /\ sold.item = NoItem /\ sold.bid = a.bid
        /\ sold.bidder = a.bidder /\ sold.buyout = a.buyout /\ sold.sold = TRUE
        /\ a.bid \in Nat
    BY <1>1 DEF Auctions
  <2>2. Fair(sold)
    BY <1>7, <2>1 DEF Fair
  <2> QED
    BY <2>1, <2>2
<1>10. /\ row \in Tables /\ row.auctions = (Stored.auctions \ {old}) \cup {sold}
       /\ row.gold = d.gold /\ row.row = d.row /\ row.mails = d.mails /\ row.gone = d.gone
  <2>1. LET f == Changed(d, sold) IN
        /\ f \in Tables /\ f.auctions = {x \in d.auctions : x.id # sold.id} \cup {sold}
        /\ f.gold = d.gold /\ f.row = d.row /\ f.mails = d.mails /\ Others(d, f)
    BY <1>6, <1>9, AuctionFields
  <2>2. {x \in d.auctions : x.id # sold.id} = Stored.auctions \ {old}
    BY <1>8, <1>9
  <2> QED
    BY <1>3, <2>1, <2>2 DEF Others
<1>11. Sound(row, posted + k, opened)
  BY <1>3, <1>6, <1>8, <1>9, SoundAuctions
<1>12. Wealth(row) = Wealth(Stored)
  <2>1. old \in d.auctions /\ old.id = sold.id
    BY <1>8, <1>9
  <2>2. Wealth(row) = Wealth(d) - old.bid + sold.bid
    BY <1>3, <1>9, <2>1, WealthOfAuction
  <2>3. Wealth(d) \in Nat /\ Wealth(Stored) \in Nat
    BY StoredFacts, WealthParts
  <2> QED
    BY <1>8, <1>9, <2>2, <2>3
<1>13. /\ k \in Nat /\ Cardinality(M) = k
       /\ Post(M) => posted' = posted + k /\ posted + k <= MaxMails
       /\ Post(M \cup {prize}) => posted' = posted + k + 1 /\ posted + k + 1 <= MaxMails
  <2>1. PICK x : x = Refund(1, old)
    OBVIOUS
  <2>2. M = IF k = 0 THEN {} ELSE {x}
    BY <2>1 DEF Refunds
  <2>3. x.id = posted + 1
    BY <2>1 DEF Refund, HouseMail, Letter
  <2>4. Cardinality(M) = k
    <3>1. CASE k = 0
      BY <2>2, <3>1, FS_EmptySet
    <3>2. CASE k = 1
      <4>1. M = {x}
        BY <2>2, <3>2
      <4> QED
        BY <3>2, <4>1, FS_Singleton, Zenon
    <3> QED
      BY <3>1, <3>2
  <2>5. prize.id = posted + (k + 1)
    BY <1>2, <2>4 DEF Letter
  <2>6. prize \notin M
    BY <1>6, <2>2, <2>3, <2>5
  <2>7. posted \in Nat
    BY <1>6
  <2>8. /\ Post(M) => posted' = posted + k /\ posted + k <= MaxMails
        /\ Post(M \cup {prize}) => posted' = posted + k + 1 /\ posted + k + 1 <= MaxMails
    BY <2>2, <2>6, <2>7, PostedMore, Zenon
  <2> QED
    BY <2>4, <2>8
<1>14. posted' \in Nat /\ posted + k \in Nat /\ posted + k <= posted' /\ posted' \in posted..MaxMails
  <2>1. (Post(M) \/ Post(M \cup {prize}))
    BY <1>5 DEF MailAndSave
  <2> QED
    BY <1>6, <1>7, <1>13, <2>1
<1>15. posted + k <= MaxMails
  BY <1>6, <1>7, <1>14
<1>16. /\ M \in SUBSET Mails
       /\ \A x \in M : x.id = posted + 1 /\ x.items = {} /\ x.cod = 0
       /\ before \in Seq(Rows(posted + k, opened))
  BY <1>15, RefundFacts
<1>17. PICK S : S = Rows(posted', opened')
  OBVIOUS
<1>18. before \in Seq(S)
  <2>1. CASE k = 0
    BY <2>1 DEF Refunding
  <2>2. CASE k # 0
    <3>1. Sound(Refunded(k, old), posted + k, opened)
      BY <1>15, RefundFacts
    <3>2. Refunded(k, old) \in S
      BY <1>6, <1>14, <1>17, <3>1, RowsGrow
    <3> QED
      BY <2>2, <3>2 DEF Refunding
  <2> QED
    BY <2>1, <2>2
<1>19. row \in S /\ Sound(row, posted', opened)
  BY <1>6, <1>11, <1>14, <1>17, RowsGrow
<1>20. Placed(Stored) /\ opened' \in opened..MaxAuctions
  BY <1>6, <1>7, SureFacts
<1>21. house' = row.auctions
  BY <1>5, <1>10 DEF Books
<1>22. ASSUME NEW f, f.gold = d.gold, f.row = d.row
       PROVE  /\ OnlyOf(p, Stored, f, goods, g)
              /\ phase[p] # "out" => g.bag[p] = Pack(f, p) /\ g.gold[p] = f.gold[p]
  BY <1>22 DEF OnlyOf, Pack
<1>23. CASE a.item = NoItem
  <2>1. MailAndSave(M, before \o <<row>>) /\ won' = won
    BY <1>5, <1>23
  <2>2. PICK steps : steps = before \o <<row>>
    OBVIOUS
  <2>3. steps \in Seq(S) /\ steps # <<>> /\ row = steps[Len(steps)]
    BY <1>18, <1>19, <2>2, Ends
  <2>4. Placed(row)
    <3> SUFFICES ASSUME NEW j \in Item PROVE Accounted(row, j)
      BY DEF Placed
    <3>1. Accounted(Stored, j)
      BY <1>20 DEF Placed
    <3>2. \A x : x \in row.mails /\ j \in x.items <=> x \in Stored.mails /\ j \in x.items
      BY <1>10, <1>16
    <3>3. \A x : x \in row.auctions /\ x.item = j <=> x \in Stored.auctions /\ x.item = j
      BY <1>7, <1>9, <1>10, <1>23
    <3>4. row.row[j] = Stored.row[j] /\ (j \in row.gone <=> j \in Stored.gone)
      BY <1>10
    <3> QED
      BY <3>1, <3>2, <3>3, <3>4, StillAccounted
  <2>5. row.mails = Stored.mails \cup M
    BY <1>10
  <2>6. \A x \in M : x.id > posted /\ x.cod = 0
    BY <1>6, <1>16
  <2>7. won' \in [1..MaxAuctions -> Player \cup {Nobody}]
    BY <1>6, <2>1 DEF TypeOK
  <2>8. /\ OnlyOf(p, Stored, row, goods, g)
        /\ phase[p] # "out" => g.bag[p] = Pack(row, p) /\ g.gold[p] = row.gold[p]
    BY <1>10, <1>22
  <2> QED
    BY <1>12, <1>14, <1>16, <1>17, <1>20, <1>21, <2>1, <2>2, <2>3, <2>4, <2>5, <2>6, <2>7,
       <2>8, HouseKeeps
<1>24. CASE a.item # NoItem
  <2>1. /\ MailAndSave(M \cup {prize}, before \o <<row, e>>)
        /\ won' = [won EXCEPT ![a.id] = a.bidder]
    BY <1>5, <1>24
  <2>2. posted' = posted + k + 1 /\ posted + k + 1 <= MaxMails /\ a.item \in Item
    BY <1>8, <1>13, <1>24, <2>1 DEF MailAndSave
  <2>3. /\ prize \in Mails /\ prize.id = posted + k + 1 /\ prize.items = {a.item}
        /\ prize.money = 0 /\ prize.cod = 0
    <3>1. PICK to \in Player, i \in Item : to = a.bidder /\ i = a.item
      BY <2>2
    <3>2. prize = Letter(k + 1, House, to, {i}, 0)
      BY <1>2, <1>13, <3>1
    <3>3. posted \in Nat /\ posted + k + 1 <= MaxMails
      BY <1>6, <2>2
    <3>4. /\ prize \in Mails /\ prize.id = posted + k + 1 /\ prize.items = {i}
          /\ prize.money = 0 /\ prize.cod = 0
      BY <3>2, <3>3, ItemMail
    <3> QED
      BY <3>1, <3>4
  <2>4. /\ e \in Tables /\ e.mails = row.mails \cup {prize} /\ e.gold = row.gold
        /\ e.row = row.row /\ e.auctions = row.auctions /\ e.gone = row.gone
    BY <1>4, <1>10, <2>3, InsertedFields DEF Others
  <2>5. Sound(e, posted', opened) /\ prize \notin row.mails
    <3>1. posted + k < prize.id /\ prize.id <= posted'
      BY <1>14, <2>2, <2>3
    <3> QED
      BY <1>4, <1>11, <1>14, <2>3, <3>1, SoundInserted
  <2>6. Wealth(e) = Wealth(Stored)
    <3>1. Wealth(e) = Wealth(row) + 0
      BY <1>4, <1>11, <2>3, <2>5, WealthOfMail
    <3>2. Wealth(row) \in Nat
      BY <1>11, WealthParts
    <3> QED
      BY <1>12, <3>1, <3>2
  <2>7. PICK steps : steps = before \o <<row, e>>
    OBVIOUS
  <2>8. steps \in Seq(S) /\ steps # <<>> /\ e = steps[Len(steps)]
    <3>1. e \in S
      BY <1>17, <2>4, <2>5 DEF Rows
    <3> QED
      BY <1>18, <1>19, <2>7, <3>1, EndsTwo
  <2>9. Placed(e)
    <3>1. prize \in e.mails /\ prize.items = IF old.item = NoItem THEN {} ELSE {old.item}
      BY <1>24, <2>3, <2>4
    <3>2. Stored.mails \subseteq e.mails
          /\ \A x \in e.mails : x \in Stored.mails \/ x = prize \/ x.items = {}
      BY <1>10, <1>16, <2>4
    <3>3. \A x : x.item \in Item => (x \in e.auctions <=> x \in Stored.auctions /\ x # old)
      BY <1>7, <1>9, <1>10, <2>4
    <3>4. e.gone = Stored.gone /\ e.row = Stored.row
      BY <1>10, <2>4
    <3> QED
      BY <1>8, <1>20, <3>1, <3>2, <3>3, <3>4, ItemMailed
  <2>10. PICK N \in SUBSET Mails : N = M \cup {prize}
    BY <1>16, <2>3
  <2>11. e.mails = Stored.mails \cup N
    BY <1>10, <2>4, <2>10
  <2>12. \A x \in N : x.id > posted /\ x.cod = 0
    <3>1. posted + 1 > posted /\ posted + k + 1 > posted
      BY <1>6, <1>13
    <3> QED
      BY <1>16, <2>3, <2>10, <3>1
  <2>13. won' \in [1..MaxAuctions -> Player \cup {Nobody}] /\ house' = e.auctions
    <3>1. won \in [1..MaxAuctions -> Player \cup {Nobody}]
      BY <1>6 DEF TypeOK
    <3> QED
      BY <1>21, <2>1, <2>4, <3>1
  <2>14. /\ OnlyOf(p, Stored, e, goods, g)
         /\ phase[p] # "out" => g.bag[p] = Pack(e, p) /\ g.gold[p] = e.gold[p]
    <3>1. e.gold = d.gold /\ e.row = d.row
      BY <1>10, <2>4
    <3> QED
      BY <1>22, <3>1
  <2>15. MailAndSave(N, steps)
    BY <2>1, <2>7, <2>10
  <2> QED
    BY <1>14, <1>17, <1>20, <2>6, <2>8, <2>9, <2>11, <2>12, <2>13, <2>14, <2>15, HouseKeeps
<1> QED
  BY <1>23, <1>24

\* However many mails follow them, there was room for the refunds.
LEMMA RefundsPosted ==
    ASSUME posted \in Nat, NEW k \in 0..1, NEW a, NEW M, M = Refunds(k, a)
    PROVE  /\ Post(M) => posted' = posted + k /\ posted + k <= MaxMails
           /\ \A y : Post(M \cup {y}) => posted + k <= MaxMails
<1>1. IsFiniteSet(M) /\ Cardinality(M) = k
  <2>1. PICK x : x = Refund(1, a)
    OBVIOUS
  <2>2. CASE k = 0
    <3>1. M = {}
      BY <2>2 DEF Refunds
    <3> QED
      BY <2>2, <3>1, FS_EmptySet
  <2>3. CASE k = 1
    <3>1. M = {x}
      BY <2>1, <2>3 DEF Refunds
    <3> QED
      BY <2>3, <3>1, FS_Singleton, Zenon
  <2> QED
    BY <2>2, <2>3
<1>2. ASSUME NEW y, Post(M \cup {y})
      PROVE  posted + k <= MaxMails
  <2>1. IsFiniteSet(M \cup {y})
    BY <1>1, FS_AddElement
  <2>2. PICK n : n = Cardinality(M \cup {y})
    OBVIOUS
  <2>3. n \in Nat /\ k <= n
    BY <1>1, <2>1, <2>2, FS_Subset, FS_CardinalityType
  <2>4. posted + n <= MaxMails
    BY <1>2, <2>2 DEF Post
  <2> QED
    BY <2>3, <2>4, MailAssumption
<1> QED
  BY <1>1, <1>2 DEF Post

LEMMA GiveToBidderKeeps ==
    ASSUME Books, Sure, NEW a \in house, GiveToBidder(a)
    PROVE  Books' /\ Sure' /\ CodKept
<1>1. /\ BidWinning(a, a, Stored, {}, <<>>) /\ goods' = goods /\ opened' = opened /\ a.bid # 0
  BY DEF GiveToBidder
<1>2. /\ a \in Auctions /\ Fair(a) /\ a.bid \in Nat /\ a.bidder \in Player \cup {Nobody}
  BY HouseFacts
<1>3. a.bidder \in Player /\ (a.buyout # 0 => a.bid <= a.buyout)
  BY <1>1, <1>2 DEF Fair
<1>4. {} = Refunds(0, a) /\ <<>> = Refunding(0, a)
  BY DEF Refunds, Refunding
<1>5. posted \in Nat /\ Sound(Stored, posted, opened) /\ TypeOK
  BY StoredFacts DEF Books
<1>6. PICK k \in 0..1 : k = 0 /\ posted + k = posted
  BY <1>5
<1>7. Sound(Stored, posted + k, opened) /\ Stored.mails = Stored.mails \cup {}
  BY <1>5, <1>6
<1>8. OnlyOf(a.bidder, Stored, Stored, goods, goods)
  BY DEF OnlyOf
<1>9. PICK p \in Player : p = a.bidder
  BY <1>3
<1>10. phase[p] # "out" => goods.bag[p] = Pack(Stored, p) /\ goods.gold[p] = Stored.gold[p]
  BY SureFacts DEF Recalled
<1>11. goods \in Holdings
  BY <1>5, MemoryType
<1>12. {} = Refunds(k, a) /\ <<>> = Refunding(k, a) /\ (k = 0 \/ a.bidder \in Player)
       /\ OnlyOf(p, Stored, Stored, goods, goods)
  BY <1>4, <1>6, <1>8, <1>9
<1> QED
  BY <1>1, <1>2, <1>3, <1>7, <1>9, <1>10, <1>11, <1>12, BidWinningKeeps

LEMMA PlaceBidKeeps ==
    ASSUME Books, Sure, NEW p \in Player, NEW a \in house, NEW price \in 1..MaxGold,
           PlaceBid(p, a, price)
    PROVE  Books' /\ Sure' /\ CodKept
<1>1. PICK bid : bid = IF a.buyout # 0 /\ price > a.buyout THEN a.buyout ELSE price
  OBVIOUS
<1>2. PICK cost : cost = IF a.bidder = p THEN bid - a.bid ELSE bid
  OBVIOUS
<1>3. PICK k \in 0..1 : k = IF a.bidder \in {p, Nobody} THEN 0 ELSE 1
  OBVIOUS
<1>4. PICK M : M = Refunds(k, a)
  OBVIOUS
<1>5. PICK r : r = Refunded(k, a)
  OBVIOUS
<1>6. PICK before : before = Refunding(k, a)
  OBVIOUS
<1>7. PICK b : b = [a EXCEPT !.bid = bid, !.bidder = p]
  OBVIOUS
<1>8. PICK g : g = [goods EXCEPT !.gold[p] = @ - cost]
  OBVIOUS
<1>9. PICK c : c = Changed(r, b)
  OBVIOUS
<1>10. PICK e : e = Saved(c, p, g)
  OBVIOUS
<1>11. PICK w : w = Saved(r, p, g)
  OBVIOUS
<1>12. /\ Acceptable(p, a, price) /\ goods' = g /\ opened' = opened
       /\ \/ /\ house' = (house \ {a}) \cup {b} /\ MailAndSave(M, before \o <<e>>)
             /\ won' = won
          \/ ~(bid < a.buyout \/ a.buyout = 0) /\ BidWinning(a, b, w, M, before)
  <2>1. M = IF a.bidder \in {p, Nobody} THEN {} ELSE {Refund(1, a)}
    BY <1>3, <1>4 DEF Refunds
  <2>2. /\ r = IF M = {} THEN Stored ELSE Inserted(Stored, Refund(1, a))
        /\ before = IF M = {} THEN <<>> ELSE <<r>>
    BY <1>4, <1>5, <1>6 DEF Refunds, Refunded, Refunding
  <2> QED
    BY <1>1, <1>2, <1>7, <1>8, <1>9, <1>10, <1>11, <2>1, <2>2, Zenon DEF PlaceBid, Replaced
<1>13. PICK d : d = Stored
  OBVIOUS
<1>14. /\ d \in Tables /\ Sound(d, posted, opened) /\ TypeOK
       /\ posted \in Nat /\ opened \in Nat /\ posted <= MaxMails /\ opened <= MaxAuctions
  BY <1>13, StoredFacts DEF Books
<1>15. /\ goods \in Holdings /\ goods.bag \in [Player -> SUBSET Item]
       /\ goods.gold \in [Player -> 0..MaxGold] /\ MaxGold \in Nat
       /\ MaxMails \in Nat /\ MaxAuctions \in Nat /\ NoItem \notin Item /\ Nobody \notin Player
  BY <1>14, MemoryType, AuctionAssumption
<1>16. /\ a \in d.auctions /\ a \in Auctions /\ Fair(a) /\ a.id <= opened
       /\ \A x \in d.auctions : x.id = a.id <=> x = a
       /\ a.bid \in Nat /\ a.buyout \in Nat /\ a.bidder \in Player \cup {Nobody}
       /\ a.item \in Item \cup {NoItem}
  BY <1>13, HouseFacts
<1>17. /\ bid \in Nat /\ bid # 0 /\ bid >= a.bid /\ bid <= goods.gold[p]
       /\ a.buyout # 0 => bid <= a.buyout
  <2>1. price \in Nat /\ price # 0 /\ price > a.bid /\ price <= goods.gold[p]
    BY <1>12, <1>15 DEF Acceptable
  <2>2. a.buyout # 0 => a.bid <= a.buyout
    BY <1>16 DEF Fair
  <2>3. goods.gold[p] \in Nat
    BY <1>15
  <2> QED
    BY <1>1, <1>16, <2>1, <2>2, <2>3
<1>18. cost \in Nat /\ cost <= goods.gold[p]
  <2>1. goods.gold[p] \in Nat
    BY <1>15
  <2> QED
    BY <1>2, <1>16, <1>17, <2>1
<1>19. g \in Holdings /\ g.bag = goods.bag /\ g.gold = [goods.gold EXCEPT ![p] = @ - cost]
  <2>1. /\ g.bag = goods.bag /\ g.gold = [goods.gold EXCEPT ![p] = @ - cost]
        /\ g = [bag |-> g.bag, gold |-> g.gold]
    BY <1>8, <1>15 DEF Holdings
  <2>2. goods.gold[p] - cost \in 0..MaxGold
    BY <1>15, <1>18
  <2> QED
    BY <1>15, <2>1, <2>2 DEF Holdings
<1>20. InWorld(p) /\ phase[p] # "out"
  BY <1>12 DEF Acceptable, InWorld
<1>21. /\ Placed(d) /\ \A j \in Item : j \in goods.bag[p] <=> d.row[j] = p
       /\ goods.gold[p] = d.gold[p]
  BY <1>13, <1>20, SureFacts
<1>22. k \in Nat /\ (k = 0 \/ a.bidder \in Player)
  BY <1>3, <1>16
<1>23. posted + k <= MaxMails /\ (Post(M) => posted' = posted + k)
  <2>1. Post(M) \/ \E y : Post(M \cup {y})
    BY <1>12, Zenon DEF BidWinning, MailAndSave
  <2> QED
    BY <1>4, <1>14, <2>1, RefundsPosted
<1>24. /\ M \in SUBSET Mails
       /\ \A x \in M : x.id = posted + 1 /\ x.items = {} /\ x.cod = 0
       /\ r \in Tables /\ Sound(r, posted + k, opened)
       /\ r.mails = d.mails \cup M /\ r.gold = d.gold /\ r.row = d.row
       /\ r.auctions = d.auctions /\ r.gone = d.gone
       /\ before \in Seq(Rows(posted + k, opened))
       /\ Wealth(r) = Wealth(d) + IF k = 0 THEN 0 ELSE a.bid
  <2>1. /\ M \in SUBSET Mails
        /\ \A x \in M : x.id = posted + 1 /\ x.items = {} /\ x.cod = 0
        /\ r \in Tables /\ Sound(r, posted + k, opened)
        /\ r.mails = Stored.mails \cup M /\ r.gold = Stored.gold /\ r.row = Stored.row
        /\ r.auctions = Stored.auctions /\ r.gone = Stored.gone
        /\ before \in Seq(Rows(posted + k, opened))
        /\ Wealth(r) = Wealth(Stored) + IF k = 0 THEN 0 ELSE a.bid
    BY <1>4, <1>5, <1>6, <1>22, <1>23, RefundFacts
  <2> QED
    BY <1>13, <2>1, Zenon
<1>25. /\ b \in Auctions /\ b.id = a.id /\ b.item = a.item /\ b.bid = bid /\ b.bidder = p
       /\ b.buyout = a.buyout /\ b.sold = a.sold /\ Fair(b)
  <2>1. /\ b \in Auctions /\ b.id = a.id /\ b.item = a.item /\ b.bid = bid /\ b.bidder = p
        /\ b.buyout = a.buyout /\ b.sold = a.sold
    BY <1>7, <1>16, <1>17 DEF Auctions
  <2>2. Fair(b)
    BY <1>15, <1>16, <1>17, <2>1 DEF Fair
  <2> QED
    BY <2>1, <2>2
\* What has been saved of p in f, with the rows of d.
<1>26. ASSUME NEW f, Sound(f, posted + k, opened), f.row = d.row, f.gold = d.gold,
              NEW h, h = Saved(f, p, g)
       PROVE  /\ h \in Tables /\ Sound(h, posted + k, opened)
              /\ h.row = d.row /\ h.gold = [d.gold EXCEPT ![p] = g.gold[p]]
              /\ h.mails = f.mails /\ h.auctions = f.auctions /\ h.gone = f.gone
              /\ Wealth(h) = Wealth(f) - cost
              /\ OnlyOf(p, Stored, h, goods, g)
              /\ g.bag[p] = Pack(h, p) /\ g.gold[p] = h.gold[p]
  <2>1. g \in Holdings /\ f \in Tables
    BY <1>19, <1>26 DEF Sound
  <2>2. /\ h \in Tables /\ h.row = [i \in Item |-> IF i \in g.bag[p] THEN p ELSE f.row[i]]
        /\ h.gold = [d.gold EXCEPT ![p] = g.gold[p]]
        /\ h.mails = f.mails /\ h.auctions = f.auctions /\ h.gone = f.gone
    BY <1>26, <2>1, SavedFields DEF Others
  <2>3. Sound(h, posted + k, opened)
    BY <1>26, <2>1, SoundSaved
  <2>4. h.row = d.row
    <3>1. \A i \in Item : h.row[i] = d.row[i]
      BY <1>19, <1>21, <1>26, <2>2
    <3>2. h.row \in [Item -> Player \cup {Nobody}] /\ d.row \in [Item -> Player \cup {Nobody}]
      BY <1>14, <2>2 DEF Tables
    <3> QED
      BY <3>1, <3>2
  <2>5. Wealth(h) = Wealth(f) - cost
    <3>1. Wealth(h) = Wealth(f) - d.gold[p] + g.gold[p]
      BY <1>26, <2>1, WealthOfPurse
    <3>2. g.gold[p] = d.gold[p] - cost /\ d.gold[p] \in Nat
      BY <1>15, <1>19, <1>21
    <3>3. Wealth(f) \in Nat
      BY <1>26, WealthParts
    <3> QED
      BY <1>18, <3>1, <3>2, <3>3
  <2>6. OnlyOf(p, Stored, h, goods, g)
    <3>1. \A q \in Player \ {p} : /\ h.gold[q] = d.gold[q]
                                  /\ g.bag[q] = goods.bag[q] /\ g.gold[q] = goods.gold[q]
      BY <1>14, <1>15, <1>19, <2>2 DEF Tables
    <3> QED
      BY <1>13, <2>4, <3>1 DEF OnlyOf
  <2>7. g.bag[p] = Pack(h, p)
    <3>1. goods.bag[p] \subseteq Item
      BY <1>15
    <3> QED
      BY <1>19, <1>21, <2>4, <3>1 DEF Pack
  <2>8. g.gold[p] = h.gold[p]
    BY <1>14, <2>2 DEF Tables
  <2> QED
    BY <2>2, <2>3, <2>4, <2>5, <2>6, <2>7, <2>8
<1>27. Wealth(d) \in Nat /\ Wealth(r) + bid = Wealth(d) + a.bid + cost
  <2>1. Wealth(d) \in Nat
    BY <1>14, WealthParts
  <2>2. a.bidder = Nobody => a.bid = 0
    BY <1>16 DEF Fair
  <2> QED
    BY <1>2, <1>3, <1>15, <1>16, <1>17, <1>24, <2>1, <2>2
<1>28. CASE BidWinning(a, b, w, M, before)
  <2>1. /\ Sound(w, posted + k, opened) /\ w.row = Stored.row
        /\ w.mails = Stored.mails \cup M /\ w.auctions = Stored.auctions
        /\ w.gone = Stored.gone /\ Wealth(w) = Wealth(r) - cost
        /\ OnlyOf(p, Stored, w, goods, g)
        /\ g.bag[p] = Pack(w, p) /\ g.gold[p] = w.gold[p]
    <3>1. /\ w \in Tables /\ Sound(w, posted + k, opened)
          /\ w.row = d.row
          /\ w.mails = r.mails /\ w.auctions = r.auctions /\ w.gone = r.gone
          /\ Wealth(w) = Wealth(r) - cost
          /\ OnlyOf(p, Stored, w, goods, g)
          /\ g.bag[p] = Pack(w, p) /\ g.gold[p] = w.gold[p]
      BY <1>11, <1>24, <1>26
    <3> QED
      BY <1>13, <1>24, <3>1
  <2>2. Wealth(w) + b.bid = Wealth(Stored) + a.bid
    <3>1. Wealth(r) \in Nat
      BY <1>24, WealthParts
    <3>2. Wealth(w) + bid = Wealth(d) + a.bid
      BY <1>16, <1>17, <1>18, <1>27, <2>1, <3>1
    <3> QED
      BY <1>13, <1>25, <3>2
  <2>3. b.bidder \in Player /\ b.bid # 0 /\ (b.buyout # 0 => b.bid <= b.buyout)
    BY <1>17, <1>25
  <2>4. goods' = g /\ opened' = opened /\ g \in Holdings
    BY <1>12, <1>19
  <2>5. k = 0 \/ a.bidder \in Player
    BY <1>22
  <2>6. b \in Auctions /\ b.id = a.id /\ b.item = a.item
    BY <1>25
  <2> QED
    BY <1>4, <1>6, <1>28, <2>1, <2>2, <2>3, <2>4, <2>5, <2>6, BidWinningKeeps
<1>29. CASE /\ house' = (house \ {a}) \cup {b} /\ MailAndSave(M, before \o <<e>>)
            /\ won' = won
  <2>1. /\ c \in Tables /\ c.auctions = (d.auctions \ {a}) \cup {b}
        /\ c.gold = r.gold /\ c.row = r.row /\ c.mails = r.mails /\ c.gone = r.gone
    <3>1. LET f == Changed(r, b) IN
          /\ f \in Tables /\ f.auctions = {x \in r.auctions : x.id # b.id} \cup {b}
          /\ f.gold = r.gold /\ f.row = r.row /\ f.mails = r.mails /\ Others(r, f)
      BY <1>24, <1>25, AuctionFields
    <3>2. {x \in r.auctions : x.id # b.id} = d.auctions \ {a}
      BY <1>16, <1>24, <1>25
    <3> QED
      BY <1>9, <3>1, <3>2 DEF Others
  <2>2. Sound(c, posted + k, opened)
    <3>1. b.id <= opened
      BY <1>16, <1>25
    <3> QED
      BY <1>9, <1>14, <1>24, <1>25, <3>1, SoundAuctions
  <2>3. Wealth(c) = Wealth(r) - a.bid + bid
    <3>1. a \in r.auctions /\ a.id = b.id
      BY <1>16, <1>24, <1>25
    <3> QED
      BY <1>9, <1>24, <1>25, <3>1, WealthOfAuction
  <2>4. /\ e \in Tables /\ Sound(e, posted + k, opened)
        /\ e.row = d.row
        /\ e.mails = d.mails \cup M /\ e.auctions = (d.auctions \ {a}) \cup {b}
        /\ e.gone = d.gone
        /\ Wealth(e) = Wealth(c) - cost
        /\ OnlyOf(p, Stored, e, goods, g)
        /\ g.bag[p] = Pack(e, p) /\ g.gold[p] = e.gold[p]
    <3>1. c.row = d.row /\ c.gold = d.gold
      BY <1>24, <2>1
    <3>2. /\ e \in Tables /\ Sound(e, posted + k, opened)
          /\ e.row = d.row
          /\ e.mails = c.mails /\ e.auctions = c.auctions /\ e.gone = c.gone
          /\ Wealth(e) = Wealth(c) - cost
          /\ OnlyOf(p, Stored, e, goods, g)
          /\ g.bag[p] = Pack(e, p) /\ g.gold[p] = e.gold[p]
      BY <1>10, <1>26, <2>2, <3>1
    <3> QED
      BY <1>24, <2>1, <3>2
  <2>5. Wealth(e) = Wealth(Stored)
    <3>1. Wealth(r) \in Nat
      BY <1>24, WealthParts
    <3> QED
      BY <1>13, <1>16, <1>17, <1>18, <1>27, <2>3, <2>4, <3>1
  <2>6. Placed(e)
    <3> SUFFICES ASSUME NEW j \in Item PROVE Accounted(e, j)
      BY DEF Placed
    <3>1. Accounted(d, j)
      BY <1>21 DEF Placed
    <3>2. \A x : x \in e.mails /\ j \in x.items <=> x \in d.mails /\ j \in x.items
      BY <1>24, <2>4
    <3>3. e.row[j] = d.row[j] /\ (j \in e.gone <=> j \in d.gone)
      BY <2>4
    <3>4. CASE j = a.item
      <4>1. /\ WithNobody(d, j) /\ InNoMail(d, j) /\ j \notin d.gone
            /\ \A x \in d.auctions : x.item = j => x = a
        BY <1>16, <3>1, <3>4, InAuction
      <4>2. b \in e.auctions /\ b.item = j /\ \A x \in e.auctions : x.item = j => x = b
        BY <1>25, <2>4, <3>4, <4>1
      <4>3. WithNobody(e, j) /\ InNoMail(e, j) /\ j \notin e.gone
        BY <3>2, <3>3, <4>1 DEF WithNobody, InNoMail
      <4> QED
        BY <4>2, <4>3 DEF Accounted, InOnePlace
    <3>5. CASE j # a.item
      <4>1. \A x : x \in e.auctions /\ x.item = j <=> x \in d.auctions /\ x.item = j
        BY <1>25, <2>4, <3>5
      <4> QED
        BY <3>1, <3>2, <3>3, <4>1, StillAccounted
    <3> QED
      BY <3>4, <3>5
  <2>7. PICK steps : steps = before \o <<e>>
    OBVIOUS
  <2>8. posted' = posted + k /\ posted' \in posted..MaxMails
    BY <1>14, <1>15, <1>22, <1>23, <1>29 DEF MailAndSave
  <2>9. steps \in Seq(Rows(posted', opened')) /\ steps # <<>> /\ e = steps[Len(steps)]
    <3>1. PICK S : S = Rows(posted', opened')
      OBVIOUS
    <3>2. before \in Seq(S) /\ e \in S
      BY <1>12, <1>24, <2>4, <2>8, <3>1 DEF Rows
    <3> QED
      BY <2>7, <3>1, <3>2, Ends
  <2>10. /\ opened' \in opened..MaxAuctions /\ house' = e.auctions
         /\ won' \in [1..MaxAuctions -> Player \cup {Nobody}]
    <3>1. opened' \in opened..MaxAuctions
      BY <1>12, <1>14, <1>15
    <3>2. won' \in [1..MaxAuctions -> Player \cup {Nobody}]
      BY <1>14, <1>29 DEF TypeOK
    <3>3. house' = e.auctions
      BY <1>13, <1>29, <2>4 DEF Books
    <3> QED
      BY <3>1, <3>2, <3>3
  <2>11. \A x \in M : x.id > posted /\ x.cod = 0
    BY <1>14, <1>24
  <2>12. e.mails = Stored.mails \cup M /\ goods' = g /\ g \in Holdings /\ M \in SUBSET Mails
    BY <1>12, <1>13, <1>19, <1>24, <2>4
  <2>13. MailAndSave(M, steps)
    BY <1>29, <2>7
  <2> QED
    BY <2>4, <2>5, <2>6, <2>8, <2>9, <2>10, <2>11, <2>12, <2>13, HouseKeeps
<1> QED
  BY <1>12, <1>28, <1>29

\* A crash that cuts no handler leaves what some handler left.
LEMMA CrashKeeps ==
    ASSUME Books, Sure, Crash, ~torn'
    PROVE  Books' /\ Sure' /\ CodKept
<1>1. PICK d : d = Committed
  OBVIOUS
<1>2. PICK kept : kept = {a \in d.auctions : a.sold \/ a.item \notin d.gone}
  OBVIOUS
<1>3. PICK e : e = [d EXCEPT !.auctions = kept]
  OBVIOUS
<1>4. /\ Restart(e) /\ house' = kept /\ opened' = opened /\ won' = won
  BY <1>1, <1>2, <1>3 DEF Crash
<1>5. /\ TypeOK /\ Len(disk) \in Nat /\ Len(disk) > 0 /\ d = disk[1] /\ d \in Tables
  BY <1>1, DiskFacts DEF Books
<1>6. Sound(d, posted, opened)
  BY <1>5 DEF Books
<1>7. d.whole
  <2>1. d.whole \in BOOLEAN
    BY <1>5 DEF Tables
  <2> QED
    BY <1>1, <1>4, <2>1 DEF Restart
<1>8. Complete(d)
  BY <1>5, <1>7 DEF Sure, Completed
<1>9. kept = d.auctions
  <2> SUFFICES ASSUME NEW a \in d.auctions, a.item \in d.gone PROVE FALSE
    BY <1>2
  <2>1. a.item \in Item
    BY <1>5 DEF Tables
  <2>2. Accounted(d, a.item)
    BY <1>8, <2>1 DEF Complete, Placed
  <2> QED
    BY <2>2, InAuction
<1>10. e = d /\ disk' = <<d>>
  <2>1. e = d
    BY <1>3, <1>5, <1>9 DEF Tables
  <2>2. [d EXCEPT !.whole = TRUE] = d
    <3>1. d.whole = TRUE
      <4>1. d.whole \in BOOLEAN
        BY <1>5 DEF Tables
      <4> QED
        BY <1>7, <4>1
    <3> QED
      BY <1>5, <3>1 DEF Tables
  <2>3. disk' = <<[e EXCEPT !.whole = TRUE]>>
    BY <1>4 DEF Restart
  <2> QED
    BY <2>1, <2>2, <2>3
<1>11. /\ phase' = [p \in Player |-> "out"] /\ goods' = NoGoods
       /\ box' = NoCopies /\ marked' = NoCopies /\ behind' = [p \in Player |-> 0]
       /\ posted' = posted /\ spoilt' = spoilt /\ torn' \in BOOLEAN
       /\ events < MaxEvents /\ events' = events + 1
  <2>1. torn' = (torn \/ ~Committed.whole)
    BY <1>4 DEF Restart
  <2> QED
    BY <1>4, <2>1 DEF Restart, Event
<1>12. Stored' = d /\ Len(disk') = 1 /\ \A k \in 1..Len(disk') : disk'[k] = d
  BY <1>10 DEF Stored, Last
<1>13. house' = d.auctions
  BY <1>4, <1>9
<1>14. TypeOK'
  <2>1. goods' \in Holdings
    <3>1. 0 \in 0..MaxGold
      BY GoodsAssumption
    <3> QED
      BY <1>11, <3>1 DEF NoGoods, NoCopies, Holdings
  <2>2. MailTypeOK'
    <3>1. /\ 0 \in 0..MaxQueue /\ 1 \in 1..MaxQueue + 1
      BY MailAssumption
    <3>2. events' \in 0..MaxEvents /\ posted' \in 0..MaxMails /\ spoilt' \in BOOLEAN
      BY <1>5, <1>11, MailAssumption DEF TypeOK, MailTypeOK
    <3>3. phase' \in [Player -> {"out", "login", "in", "travel"}]
      BY <1>11
    <3>4. behind' \in [Player -> 0..MaxQueue]
      BY <1>11, <3>1
    <3>5. box' \in [Player -> SUBSET Mails] /\ marked' \in [Player -> SUBSET (1..MaxMails)]
      BY <1>11 DEF NoCopies
    <3> QED
      BY <1>11, <1>12, <2>1, <3>1, <3>2, <3>3, <3>4, <3>5 DEF MailTypeOK
  <2>3. disk' \in Seq(Tables)
    BY <1>5, <1>10
  <2>4. house' \subseteq Auctions
    BY <1>5, <1>13 DEF Tables
  <2>5. opened' \in 0..MaxAuctions /\ won' \in [1..MaxAuctions -> Player \cup {Nobody}]
    BY <1>4, <1>5 DEF TypeOK
  <2> QED
    BY <2>2, <2>3, <2>4, <2>5 DEF TypeOK
<1>15. Books'
  <2>1. \A k \in 1..Len(disk') : Sound(disk'[k], posted', opened')
    BY <1>4, <1>6, <1>11, <1>12
  <2>2. \A p \in Player : marked'[p] = {}
    BY <1>11 DEF NoCopies
  <2> QED
    BY <1>7, <1>12, <1>13, <1>14, <2>1, <2>2 DEF Books
<1>16. Sure'
  <2>1. \A p \in Player : phase'[p] = "out"
    BY <1>11
  <2>2. MemoryStored'
    BY <1>12, <1>13, <2>1 DEF MemoryStored
  <2>3. Bins'
    BY <2>1 DEF Bins
  <2>4. Completed'
    BY <1>8, <1>12 DEF Completed
  <2> QED
    BY <2>2, <2>3, <2>4 DEF Sure
<1>17. CodKept
  BY <1>1, <1>12 DEF CodKept
<1> QED
  BY <1>15, <1>16, <1>17

-----------------------------------------------------------------------------
(* At first, and after every step.                                         *)

LEMMA InitKeeps ==
    ASSUME Init
    PROVE  Books /\ Sure
<1>1. PICK d : d = MailTables
  OBVIOUS
<1>2. /\ d.gold = Gold0 /\ d.mails = {} /\ d.gone = {} /\ d.spent = 0 /\ d.whole = TRUE
      /\ d.auctions = {} /\ d.row = [i \in Item |-> CHOOSE p \in Player : i \in Bag0[p]]
      /\ d = [row |-> d.row, gold |-> d.gold, mails |-> d.mails, gone |-> d.gone,
              spent |-> d.spent, whole |-> d.whole, auctions |-> d.auctions]
  BY <1>1 DEF MailTables
<1>3. /\ Bag0 \in [Player -> SUBSET Item] /\ Gold0 \in [Player -> 0..MaxGold]
      /\ \A p, q \in Player : p # q => Bag0[p] \cap Bag0[q] = {}
      /\ \A i \in Item : \E p \in Player : i \in Bag0[p]
      /\ Present \subseteq Player /\ MaxQueue \in Nat /\ MaxMails \in Nat /\ MaxEvents \in Nat
      /\ MaxGold \in Nat
  BY MailAssumption, GoodsAssumption DEF Holdings, OneOwner
<1>4. \A i \in Item : d.row[i] \in Player /\ i \in Bag0[d.row[i]]
  <2> SUFFICES ASSUME NEW i \in Item PROVE d.row[i] \in Player /\ i \in Bag0[d.row[i]]
    OBVIOUS
  <2>1. d.row[i] = CHOOSE p \in Player : i \in Bag0[p]
    BY <1>2
  <2>2. \E p \in Player : i \in Bag0[p]
    BY <1>3
  <2> QED
    BY <2>1, <2>2
<1>5. d \in Tables
  <2>1. d.row \in [Item -> Player \cup {Nobody}]
    BY <1>2, <1>4
  <2>2. /\ d.gold \in [Player -> 0..MaxGold] /\ d.mails \in SUBSET Mails
        /\ d.gone \in SUBSET Item /\ d.spent \in Nat /\ d.whole \in BOOLEAN
        /\ d.auctions \in SUBSET Auctions
    <3>1. /\ d.gold = Gold0 /\ d.mails = {} /\ d.gone = {} /\ d.spent = 0 /\ d.whole = TRUE
          /\ d.auctions = {}
      BY <1>2
    <3>2. Gold0 \in [Player -> 0..MaxGold]
      BY <1>3
    <3>3. d.gold \in [Player -> 0..MaxGold] /\ d.spent \in Nat
      BY <3>1, <3>2
    <3>4. d.mails \in SUBSET Mails /\ d.gone \in SUBSET Item /\ d.auctions \in SUBSET Auctions
      BY <3>1
    <3>5. d.whole \in BOOLEAN
      BY <3>1, Zenon
    <3> QED
      BY <3>3, <3>4, <3>5
  <2>3. d = [row |-> d.row, gold |-> d.gold, mails |-> d.mails, gone |-> d.gone,
             spent |-> d.spent, whole |-> d.whole, auctions |-> d.auctions]
    BY <1>2
  <2> QED
    BY <2>1, <2>2, <2>3 DEF Tables
<1>6. /\ MailInit /\ disk = <<d>> /\ house = {} /\ opened = 0
      /\ won = [n \in 1..MaxAuctions |-> Nobody]
  BY <1>1 DEF Init
<1>7. /\ Len(disk) = 1 /\ disk \in Seq(Tables) /\ Stored = d
      /\ \A k \in 1..Len(disk) : disk[k] = d
  BY <1>5, <1>6 DEF Stored, Last
<1>8. Sound(d, posted, opened)
  BY <1>2, <1>5, FS_EmptySet DEF Sound
<1>9. Complete(d)
  <2>1. Placed(d)
    BY <1>2, <1>4 DEF Placed, Accounted, InOnePlace, InNoMail, InNoAuction
  <2>2. Wealth(d) = SumFunction(Gold0)
    <3>1. Money({}) = 0 /\ Stakes({}) = 0
      BY MoneyMoves, StakesMove, FS_EmptySet
    <3>2. Wealth(d) = SumFunction(Gold0) + Money({}) + Stakes({}) + 0
      BY <1>2 DEF Wealth
    <3>3. SumFunction(Gold0) \in Nat
      BY <1>3, GoldMoves
    <3> QED
      BY <3>1, <3>2, <3>3
  <2>3. OnDelivery(d)
    BY <1>2 DEF OnDelivery
  <2> QED
    BY <2>1, <2>2, <2>3 DEF Complete
<1>10. /\ phase = [p \in Player |-> IF p \in Present THEN "in" ELSE "out"]
       /\ goods = [bag  |-> [p \in Player |-> IF p \in Present THEN Bag0[p] ELSE {}],
                   gold |-> [p \in Player |-> IF p \in Present THEN Gold0[p] ELSE 0]]
       /\ box = NoCopies /\ marked = NoCopies /\ behind = [p \in Player |-> 0]
       /\ posted = 0 /\ torn = FALSE /\ spoilt = FALSE /\ events = 0
  BY <1>6 DEF MailInit
<1>11. TypeOK
  <2>1. goods \in Holdings
    <3>1. \A p \in Player : /\ (IF p \in Present THEN Bag0[p] ELSE {}) \in SUBSET Item
                            /\ (IF p \in Present THEN Gold0[p] ELSE 0) \in 0..MaxGold
      <4>1. 0 \in 0..MaxGold /\ {} \in SUBSET Item
        BY <1>3
      <4> QED
        BY <1>3, <4>1
    <3> QED
      BY <1>10, <3>1 DEF Holdings
  <2>2. phase \in [Player -> {"out", "login", "in", "travel"}]
    BY <1>10
  <2>3. /\ box \in [Player -> SUBSET Mails] /\ marked \in [Player -> SUBSET (1..MaxMails)]
        /\ behind \in [Player -> 0..MaxQueue]
    BY <1>3, <1>10 DEF NoCopies
  <2>4. MailTypeOK
    <3>1. Len(disk) \in 1..MaxQueue + 1 /\ posted \in 0..MaxMails /\ events \in 0..MaxEvents
      BY <1>3, <1>7, <1>10
    <3>2. {torn, spoilt} \subseteq BOOLEAN
      BY <1>10
    <3> QED
      BY <2>1, <2>2, <2>3, <3>1, <3>2 DEF MailTypeOK
  <2>5. 0 \in 0..MaxAuctions
    BY AuctionAssumption
  <2> QED
    BY <1>6, <1>7, <2>4, <2>5 DEF TypeOK
<1>12. Books
  <2>1. \A p \in Player : marked[p] = {}
    BY <1>10 DEF NoCopies
  <2> QED
    BY <1>2, <1>6, <1>7, <1>8, <1>11, <2>1 DEF Books
<1>13. MemoryStored
  <2> SUFFICES ASSUME NEW p \in Player, phase[p] # "out"
               PROVE  /\ goods.bag[p] = Pack(d, p) /\ goods.gold[p] = d.gold[p]
                      /\ box[p] \subseteq {m \in d.mails : m.to = p}
    BY <1>2, <1>6, <1>7 DEF MemoryStored
  <2>1. p \in Present
    BY <1>10
  <2>2. goods.bag[p] = Bag0[p] /\ goods.gold[p] = Gold0[p] /\ box[p] = {}
    BY <1>10, <2>1 DEF NoCopies
  <2>3. Pack(d, p) = Bag0[p]
    <3>1. Bag0[p] \subseteq Item
      BY <1>3
    <3>2. \A i \in Item : d.row[i] = p <=> i \in Bag0[p]
      BY <1>3, <1>4
    <3> QED
      BY <3>1, <3>2 DEF Pack
  <2> QED
    BY <1>2, <2>2, <2>3
<1>14. Bins
  BY <1>10 DEF Bins, NoCopies
<1>15. Completed
  BY <1>7, <1>9 DEF Completed
<1> QED
  BY <1>12, <1>13, <1>14, <1>15 DEF Sure

\* As long as no crash has cut a handler, no old mail was returned on the
\* strength of rows that were out of date, no item was taken under the id of
\* another mail and no money has left its width.
IInv == ~torn /\ ~spoilt => Books /\ Sure

LEMMA MailStepKeeps ==
    ASSUME Books, Sure, MailStep, UNCHANGED <<house, opened, won>>, ~torn', ~spoilt'
    PROVE  Books' /\ Sure' /\ CodKept
<1>1. ASSUME NEW p \in Player, NEW q \in Player, NEW I \in SUBSET Item,
             NEW money \in Sum, NEW cod \in Sum, SendMail(p, q, I, money, cod)
      PROVE  Books' /\ Sure' /\ CodKept
  BY <1>1, SendMailKeeps
<1>2. ASSUME NEW p \in Player, NEW m \in UNION {box[q] : q \in Player},
             \/ \E i \in Item : TakeItem(p, m, i)
             \/ TakeMoney(p, m)
             \/ DeleteMail(p, m)
             \/ ReturnMail(p, m)
      PROVE  Books' /\ Sure' /\ CodKept
  <2>1. ASSUME NEW i \in Item, TakeItem(p, m, i)
        PROVE  Books' /\ Sure' /\ CodKept
    BY <2>1, TakeItemKeeps
  <2>2. CASE TakeMoney(p, m)
    BY <2>2, TakeMoneyKeeps
  <2>3. CASE DeleteMail(p, m)
    BY <2>3, DeleteMailKeeps
  <2>4. CASE ReturnMail(p, m)
    BY <2>4, ReturnMailKeeps
  <2> QED
    BY <1>2, <2>1, <2>2, <2>3, <2>4
<1>3. ASSUME NEW p \in Player,
             SavePlayer(p) \/ Logout(p) \/ RequestLogin(p) \/ Login(p) \/ Depart(p) \/ Arrive(p)
      PROVE  Books' /\ Sure' /\ CodKept
  <2>1. CASE SavePlayer(p)
    BY <2>1, SavePlayerKeeps
  <2>2. CASE Logout(p)
    BY <2>2, LogoutKeeps
  <2>3. CASE RequestLogin(p)
    BY <2>3, RequestLoginKeeps
  <2>4. events \in 0..MaxEvents /\ MaxEvents \in Nat
    BY MailAssumption DEF Books, TypeOK, MailTypeOK
  <2>5. CASE Login(p)
    <3>1. /\ phase[p] # "out" /\ "in" \in {"in", "travel"} /\ events' \in 0..MaxEvents
          /\ phase' = [phase EXCEPT ![p] = "in"]
          /\ UNCHANGED <<goods, box, marked, behind, disk, posted, torn, spoilt>>
      BY <2>4, <2>5 DEF Login
    <3> QED
      BY <3>1, PhaseKeeps
  <2>6. CASE Depart(p)
    <3>1. /\ phase[p] # "out" /\ "travel" \in {"in", "travel"} /\ events' \in 0..MaxEvents
          /\ phase' = [phase EXCEPT ![p] = "travel"]
          /\ UNCHANGED <<goods, box, marked, behind, disk, posted, torn, spoilt>>
      BY <2>4, <2>6 DEF Depart, Event, InWorld
    <3> QED
      BY <3>1, PhaseKeeps
  <2>7. CASE Arrive(p)
    <3>1. /\ phase[p] # "out" /\ "in" \in {"in", "travel"} /\ events' \in 0..MaxEvents
          /\ phase' = [phase EXCEPT ![p] = "in"]
          /\ UNCHANGED <<goods, box, marked, behind, disk, posted, torn, spoilt>>
      BY <2>4, <2>7 DEF Arrive
    <3> QED
      BY <3>1, PhaseKeeps
  <2> QED
    BY <1>3, <2>1, <2>2, <2>3, <2>5, <2>6, <2>7
<1>4. ASSUME NEW m \in Committed.mails, ReturnOrDeleteOldMail(m)
      PROVE  Books' /\ Sure' /\ CodKept
  BY <1>4, OldMailKeeps
<1>5. CASE Commit
  BY <1>5, CommitKeeps
<1> QED
  BY <1>1, <1>2, <1>3, <1>4, <1>5 DEF MailStep

LEMMA AuctionStepKeeps ==
    ASSUME CutPercent <= 100, Books, Sure, AuctionStep, ~torn'
    PROVE  Books' /\ Sure' /\ CodKept
<1>1. ASSUME NEW p \in Player, NEW i \in Item, NEW start \in StartBids,
             NEW buyout \in Buyouts, SellItem(p, i, start, buyout)
      PROVE  Books' /\ Sure' /\ CodKept
  BY <1>1, SellItemKeeps
<1>2. ASSUME NEW p \in Player, NEW a \in house, NEW price \in 1..MaxGold, PlaceBid(p, a, price)
      PROVE  Books' /\ Sure' /\ CodKept
  BY <1>2, PlaceBidKeeps
<1>3. ASSUME NEW p \in Player, NEW a \in house, RemoveAuction(p, a)
      PROVE  Books' /\ Sure' /\ CodKept
  BY <1>3, RemoveAuctionKeeps
<1>4. ASSUME NEW a \in house, PaySeller(a) \/ ReturnUnsold(a) \/ GiveToBidder(a)
      PROVE  Books' /\ Sure' /\ CodKept
  BY <1>4, PaySellerKeeps, ReturnUnsoldKeeps, GiveToBidderKeeps
<1>5. CASE Crash
  BY <1>5, CrashKeeps
<1> QED
  BY <1>1, <1>2, <1>3, <1>4, <1>5 DEF AuctionStep

\* What has been torn or spoilt stays so.
LEMMA HistoryStays ==
    ASSUME [Next]_vars
    PROVE  (~torn' => ~torn) /\ (~spoilt' => ~spoilt)
<1>1. CASE UNCHANGED vars
  BY <1>1 DEF vars, mailVars
<1>2. CASE MailStep
  <2>1. ASSUME Quiet
        PROVE  torn' = torn /\ spoilt' = spoilt
    BY <2>1 DEF Quiet, Steady
  <2>11. ASSUME NEW odd, Steady, Spoiling(odd)
         PROVE  torn' = torn /\ (~spoilt' => ~spoilt)
    BY <2>11 DEF Steady, Spoiling
  <2>2. ASSUME NEW p \in Player, NEW q \in Player, NEW I \in SUBSET Item,
               NEW money \in Sum, NEW cod \in Sum, SendMail(p, q, I, money, cod)
        PROVE  torn' = torn /\ (~spoilt' => ~spoilt)
    BY <2>2, <2>11, Zenon DEF SendMail
  <2>3. ASSUME NEW p, NEW m, \/ \E i \in Item : TakeItem(p, m, i)
                             \/ TakeMoney(p, m) \/ DeleteMail(p, m) \/ ReturnMail(p, m)
        PROVE  torn' = torn /\ (~spoilt' => ~spoilt)
    <3>1. CASE DeleteMail(p, m) \/ ReturnMail(p, m)
      <4>1. Quiet
        BY <3>1, Zenon DEF DeleteMail, ReturnMail
      <4> QED
        BY <2>1, <4>1
    <3>2. CASE (\E i \in Item : TakeItem(p, m, i)) \/ TakeMoney(p, m)
      BY <2>11, <3>2, Zenon DEF TakeItem, TakeMoney
    <3> QED
      BY <2>3, <3>1, <3>2
  <2>4. ASSUME NEW p, \/ SavePlayer(p) \/ Logout(p) \/ RequestLogin(p)
                      \/ Login(p) \/ Depart(p) \/ Arrive(p)
        PROVE  torn' = torn /\ spoilt' = spoilt
    BY <2>4 DEF SavePlayer, Logout, RequestLogin, Login, Depart, Arrive
  <2>5. ASSUME NEW m, ReturnOrDeleteOldMail(m)
        PROVE  torn' = torn /\ (~spoilt' => ~spoilt)
    BY <2>5 DEF ReturnOrDeleteOldMail, Spoiling
  <2>6. CASE Commit
    BY <2>6 DEF Commit
  <2>7. CASE \E p, q \in Player, I \in SUBSET Item, money, cod \in Sum :
               (I = {} => money > 0 /\ cod = 0) /\ SendMail(p, q, I, money, cod)
    BY <2>1, <2>2, <2>7
  <2>8. CASE \E p \in Player, m \in UNION {box[q] : q \in Player} :
               \/ \E i \in Item : TakeItem(p, m, i)
               \/ TakeMoney(p, m)
               \/ DeleteMail(p, m)
               \/ ReturnMail(p, m)
    BY <2>1, <2>3, <2>8
  <2>9. CASE \E p \in Player : \/ SavePlayer(p) \/ Logout(p) \/ RequestLogin(p)
                              \/ Login(p) \/ Depart(p) \/ Arrive(p)
    BY <2>4, <2>9
  <2>10. CASE \E m \in Committed.mails : ReturnOrDeleteOldMail(m)
    BY <2>5, <2>10
  <2> QED
    BY <1>2, <2>6, <2>7, <2>8, <2>9, <2>10 DEF MailStep
<1>3. CASE AuctionStep
  <2>1. ASSUME NEW M, NEW steps, MailAndSave(M, steps)
        PROVE  torn' = torn /\ spoilt' = spoilt
    BY <2>1 DEF MailAndSave, Quiet, Steady
  <2>2. ASSUME NEW p, NEW i, NEW start, NEW buyout, SellItem(p, i, start, buyout)
        PROVE  torn' = torn /\ spoilt' = spoilt
    BY <2>1, <2>2, Zenon DEF SellItem
  <2>3. ASSUME NEW old, NEW a, NEW d, NEW M, NEW before, BidWinning(old, a, d, M, before)
        PROVE  torn' = torn /\ spoilt' = spoilt
    BY <2>1, <2>3, Zenon DEF BidWinning
  <2>4. ASSUME NEW p, NEW a, NEW price, PlaceBid(p, a, price)
        PROVE  torn' = torn /\ spoilt' = spoilt
    BY <2>1, <2>3, <2>4, Zenon DEF PlaceBid
  <2>5. ASSUME NEW p, NEW a, RemoveAuction(p, a)
        PROVE  torn' = torn /\ spoilt' = spoilt
    BY <2>1, <2>5, Zenon DEF RemoveAuction
  <2>6. ASSUME NEW a, PaySeller(a) \/ ReturnUnsold(a) \/ GiveToBidder(a)
        PROVE  torn' = torn /\ spoilt' = spoilt
    BY <2>1, <2>3, <2>6, Zenon DEF PaySeller, ReturnUnsold, GiveToBidder, EndAuction
  <2>7. CASE Crash
    BY <2>7, Zenon DEF Crash, Restart
  <2> QED
    BY <1>3, <2>2, <2>4, <2>5, <2>6, <2>7 DEF AuctionStep
<1> QED
  BY <1>1, <1>2, <1>3 DEF Next

LEMMA StepKeeps ==
    ASSUME CutPercent <= 100, IInv, [Next]_vars, ~torn', ~spoilt'
    PROVE  Books' /\ Sure' /\ CodKept
<1>1. Books /\ Sure
  BY HistoryStays DEF IInv
<1>2. CASE UNCHANGED vars
  <2>1. /\ phase' = phase /\ goods' = goods /\ box' = box /\ marked' = marked
        /\ behind' = behind /\ disk' = disk /\ posted' = posted /\ torn' = torn
        /\ spoilt' = spoilt /\ events' = events
        /\ house' = house /\ opened' = opened /\ won' = won
    BY <1>2 DEF vars, mailVars, memory
  <2>2. Stored' = Stored
    BY <2>1 DEF Stored
  <2>3. Books'
    BY <1>1, <2>1, <2>2 DEF Books, TypeOK, MailTypeOK
  <2>4. Sure'
    BY <1>1, <2>1, <2>2 DEF Sure, Completed, MemoryStored, Bins
  <2>5. CodKept
    BY <2>2 DEF CodKept
  <2> QED
    BY <2>3, <2>4, <2>5
<1>3. CASE MailStep /\ UNCHANGED <<house, opened, won>>
  BY <1>1, <1>3, MailStepKeeps
<1>4. CASE AuctionStep
  BY <1>1, <1>4, AuctionStepKeeps
<1> QED
  BY <1>2, <1>3, <1>4 DEF Next

LEMMA Counted ==
    ASSUME NEW d, NEW n, NEW o, Sound(d, n, o), NEW i \in Item, Accounted(d, i)
    PROVE  Places(d, i) = IF i \in d.gone THEN 0 ELSE 1
<1>1. PICK P : P = {p \in Player : d.row[i] = p}
  OBVIOUS
<1>2. PICK M : M = {m \in d.mails : i \in m.items}
  OBVIOUS
<1>3. PICK A : A = {a \in d.auctions : a.item = i}
  OBVIOUS
<1>4. Places(d, i) = Cardinality(P) + Cardinality(M) + Cardinality(A)
  BY <1>1, <1>2, <1>3 DEF Places
<1>5. Cardinality({}) = 0 /\ \A x : Cardinality({x}) = 1
  BY FS_EmptySet, FS_Singleton
<1>6. WithNobody(d, i) => P = {}
  BY <1>1, MailAssumption DEF WithNobody
<1>7. (InNoMail(d, i) => M = {}) /\ (InNoAuction(d, i) => A = {})
  BY <1>2, <1>3 DEF InNoMail, InNoAuction
<1>8. CASE i \in d.gone
  BY <1>4, <1>5, <1>6, <1>7, <1>8 DEF Accounted, Nowhere
<1>9. CASE i \notin d.gone
  <2>1. CASE d.row[i] \in Player /\ InNoMail(d, i) /\ InNoAuction(d, i)
    <3>1. P = {d.row[i]}
      BY <1>1, <2>1
    <3>2. Cardinality(P) = 1 /\ Cardinality(M) = 0 /\ Cardinality(A) = 0
      BY <1>5, <1>7, <2>1, <3>1, Zenon
    <3> QED
      BY <1>4, <1>9, <3>2
  <2>2. CASE /\ WithNobody(d, i) /\ InNoAuction(d, i)
             /\ \E m \in d.mails : i \in m.items /\ \A x \in d.mails : i \in x.items => x = m
    <3>1. PICK m \in d.mails : i \in m.items /\ \A x \in d.mails : i \in x.items => x = m
      BY <2>2
    <3>2. M = {m}
      BY <1>2, <3>1
    <3>3. Cardinality(P) = 0 /\ Cardinality(M) = 1 /\ Cardinality(A) = 0
      BY <1>5, <1>6, <1>7, <2>2, <3>2, Zenon
    <3> QED
      BY <1>4, <1>9, <3>3
  <2>3. CASE /\ WithNobody(d, i) /\ InNoMail(d, i)
             /\ \E a \in d.auctions : a.item = i /\ \A x \in d.auctions : x.item = i => x = a
    <3>1. PICK a \in d.auctions : a.item = i /\ \A x \in d.auctions : x.item = i => x = a
      BY <2>3
    <3>2. A = {a}
      BY <1>3, <3>1
    <3>3. Cardinality(P) = 0 /\ Cardinality(M) = 0 /\ Cardinality(A) = 1
      BY <1>5, <1>6, <1>7, <2>3, <3>2, Zenon
    <3> QED
      BY <1>4, <1>9, <3>3
  <2> QED
    BY <1>9, <2>1, <2>2, <2>3 DEF Accounted, InOnePlace
<1> QED
  BY <1>8, <1>9

LEMMA IInvHolds ==
    ASSUME CutPercent <= 100
    PROVE  Spec => []IInv
<1>1. Init => IInv
  BY InitKeeps DEF IInv
<1>2. IInv /\ [Next]_vars => IInv'
  <2> SUFFICES ASSUME IInv, [Next]_vars, ~torn', ~spoilt' PROVE Books' /\ Sure'
    BY DEF IInv
  <2> QED
    BY StepKeeps
<1> QED
  BY <1>1, <1>2, PTL DEF Spec

-----------------------------------------------------------------------------
(* Types.  What is asked of the tables here holds whatever a crash or a    *)
(* stale row has done to them: the ids of the mails of the auction house,  *)
(* which have nothing on delivery, are in hs, and no mail has an id that   *)
(* was not given out.  Without it a price could be sent to nobody.         *)

Marked(n, hs) == {m \in Mails : /\ m.id <= n
                                /\ m.from = House <=> m.id \in hs
                                /\ m.from = House => m.cod = 0}
Offers == {a \in Auctions : Fair(a)}
Ledgers(n, hs) == {d \in Tables : /\ IsFiniteSet(d.mails) /\ d.mails \subseteq Marked(n, hs)
                                  /\ d.auctions \subseteq Offers}
Boxes(n, hs) == {S \in SUBSET Marked(n, hs) : IsFiniteSet(S)}
Kinds(hs) ==
    /\ TypeOK
    /\ hs \in SUBSET (1..posted)
    /\ disk \in Seq(Ledgers(posted, hs))
    /\ box \in [Player -> Boxes(posted, hs)]
    /\ house \in SUBSET Offers

LEMMA MarkedLater ==
    ASSUME NEW n \in Nat, NEW hs \in SUBSET (1..n), NEW k \in Nat, n <= k,
           NEW gs, hs \subseteq gs, gs \subseteq hs \cup (n + 1 .. k)
    PROVE  /\ Marked(n, hs) \subseteq Marked(k, gs)
           /\ Ledgers(n, hs) \subseteq Ledgers(k, gs)
           /\ Boxes(n, hs) \subseteq Boxes(k, gs)
<1>1. ASSUME NEW m \in Marked(n, hs)
      PROVE  m \in Marked(k, gs)
  <2>1. m \in Mails /\ m.id \in Nat /\ m.id <= n
    BY MailAssumption DEF Marked, Mails
  <2>2. m.id \in hs <=> m.id \in gs
    BY <2>1
  <2> QED
    BY <2>1, <2>2 DEF Marked
<1>2. Marked(n, hs) \subseteq Marked(k, gs)
  BY <1>1
<1>3. Ledgers(n, hs) \subseteq Ledgers(k, gs)
  BY <1>2 DEF Ledgers
<1>4. Boxes(n, hs) \subseteq Boxes(k, gs)
  BY <1>2 DEF Boxes
<1> QED
  BY <1>2, <1>3, <1>4

LEMMA LedgerSame ==
    ASSUME NEW n, NEW hs, NEW d \in Ledgers(n, hs), NEW e \in Tables,
           e.mails \subseteq d.mails, e.auctions \subseteq Offers
    PROVE  e \in Ledgers(n, hs)
<1>1. IsFiniteSet(e.mails)
  BY FS_Subset DEF Ledgers
<1> QED
  BY <1>1 DEF Ledgers

\* What the operations on tables keep.
LEMMA LedgerOfRows ==
    ASSUME NEW n, NEW hs, NEW d \in Ledgers(n, hs)
    PROVE  /\ \A I : Lost(d, I) \in Ledgers(n, hs)
           /\ \A c \in Nat : Spent(d, c) \in Ledgers(n, hs)
           /\ \A p \in Player, g \in Holdings : Saved(d, p, g) \in Ledgers(n, hs)
           /\ \A p \in Player, v \in 0..MaxGold : [d EXCEPT !.gold[p] = v] \in Ledgers(n, hs)
           /\ \A b \in BOOLEAN : [d EXCEPT !.whole = b] \in Ledgers(n, hs)
<1>1. d \in Tables /\ d.auctions \subseteq Offers
  BY DEF Ledgers
<1>2. ASSUME NEW I
      PROVE  Lost(d, I) \in Ledgers(n, hs)
  <2>1. PICK e : e = Lost(d, I)
    OBVIOUS
  <2>2. e \in Tables /\ e.mails = d.mails /\ e.auctions = d.auctions
    BY <1>1, <2>1, LostFields
  <2> QED
    BY <1>1, <2>1, <2>2, LedgerSame
<1>3. ASSUME NEW c \in Nat
      PROVE  Spent(d, c) \in Ledgers(n, hs)
  <2>1. PICK e : e = Spent(d, c)
    OBVIOUS
  <2>2. e \in Tables /\ e.mails = d.mails /\ e.auctions = d.auctions
    BY <1>1, <2>1, SpentFields
  <2> QED
    BY <1>1, <2>1, <2>2, LedgerSame
<1>4. ASSUME NEW p \in Player, NEW g \in Holdings
      PROVE  Saved(d, p, g) \in Ledgers(n, hs)
  <2>1. PICK e : e = Saved(d, p, g)
    OBVIOUS
  <2>2. e \in Tables /\ e.mails = d.mails /\ e.auctions = d.auctions
    BY <1>1, <2>1, SavedFields
  <2> QED
    BY <1>1, <2>1, <2>2, LedgerSame
<1>5. ASSUME NEW p \in Player, NEW v \in 0..MaxGold
      PROVE  [d EXCEPT !.gold[p] = v] \in Ledgers(n, hs)
  <2>1. PICK e : e = [d EXCEPT !.gold[p] = v]
    OBVIOUS
  <2>2. e \in Tables /\ e.mails = d.mails /\ e.auctions = d.auctions
    BY <1>1, <2>1, PaidFields
  <2> QED
    BY <1>1, <2>1, <2>2, LedgerSame
<1>6. ASSUME NEW b \in BOOLEAN
      PROVE  [d EXCEPT !.whole = b] \in Ledgers(n, hs)
  <2>1. PICK e : e = [d EXCEPT !.whole = b]
    OBVIOUS
  <2>2. e \in Tables /\ e.mails = d.mails /\ e.auctions = d.auctions
    BY <1>1, <2>1 DEF Tables
  <2> QED
    BY <1>1, <2>1, <2>2, LedgerSame
<1> QED
  BY <1>2, <1>3, <1>4, <1>5, <1>6

LEMMA LedgerOfMails ==
    ASSUME NEW n, NEW hs, NEW d \in Ledgers(n, hs)
    PROVE  /\ \A m \in Marked(n, hs) : Inserted(d, m) \in Ledgers(n, hs)
           /\ \A M \in SUBSET Mails : Erased(d, M) \in Ledgers(n, hs)
           /\ \A k : [d EXCEPT !.mails = {x \in @ : x.id # k}] \in Ledgers(n, hs)
<1>1. d \in Tables /\ d.auctions \subseteq Offers /\ IsFiniteSet(d.mails) /\ d.mails \subseteq Marked(n, hs)
  BY DEF Ledgers
<1>2. ASSUME NEW m \in Marked(n, hs)
      PROVE  Inserted(d, m) \in Ledgers(n, hs)
  <2>1. PICK e : e = Inserted(d, m)
    OBVIOUS
  <2>2. m \in Mails
    BY DEF Marked
  <2>3. e \in Tables /\ e.mails = d.mails \cup {m} /\ e.auctions = d.auctions
    BY <1>1, <2>1, <2>2, InsertedFields
  <2>4. IsFiniteSet(e.mails)
    BY <1>1, <2>3, FS_AddElement
  <2> QED
    BY <1>1, <2>1, <2>3, <2>4 DEF Ledgers
<1>3. ASSUME NEW M \in SUBSET Mails
      PROVE  Erased(d, M) \in Ledgers(n, hs)
  <2>1. PICK e : e = Erased(d, M)
    OBVIOUS
  <2>2. e \in Tables /\ e.mails \subseteq d.mails /\ e.auctions = d.auctions
    BY <1>1, <2>1, ErasedFields
  <2> QED
    BY <1>1, <2>1, <2>2, LedgerSame
<1>4. ASSUME NEW k
      PROVE  [d EXCEPT !.mails = {x \in @ : x.id # k}] \in Ledgers(n, hs)
  <2>1. PICK e : e = [d EXCEPT !.mails = {x \in @ : x.id # k}]
    OBVIOUS
  <2>2. e \in Tables /\ e.mails \subseteq d.mails /\ e.auctions = d.auctions
    BY <1>1, <2>1, DroppedFields
  <2> QED
    BY <1>1, <2>1, <2>2, LedgerSame
<1> QED
  BY <1>2, <1>3, <1>4

\* Some mails are written anew and keep their ids.
LEMMA LedgerRewritten ==
    ASSUME NEW n, NEW hs, NEW d \in Ledgers(n, hs), NEW e \in Tables,
           e.auctions = d.auctions, NEW h \in [d.mails -> Marked(n, hs)],
           e.mails = {h[x] : x \in d.mails}
    PROVE  e \in Ledgers(n, hs)
<1>1. h \in Surjection(d.mails, e.mails)
  BY DEF Surjection
<1>2. IsFiniteSet(e.mails)
  BY <1>1, FS_Surjection DEF Ledgers
<1> QED
  BY <1>2 DEF Ledgers

LEMMA LedgerUpdated ==
    ASSUME NEW n, NEW hs, NEW d \in Ledgers(n, hs), NEW m \in Marked(n, hs), NEW I
    PROVE  Updated(d, m, I) \in Ledgers(n, hs)
<1> DEFINE bare(x) == [x EXCEPT !.items = @ \ I]
           new(x) == [x EXCEPT !.items = @ \ I, !.money = m.money, !.cod = m.cod,
                               !.mark = m.mark]
<1>1. d \in Tables /\ d.mails \subseteq Marked(n, hs) /\ m \in Mails
  BY DEF Ledgers, Marked
<1>2. PICK e : e = Updated(d, m, I)
  OBVIOUS
<1>3. /\ e \in Tables /\ e.auctions = d.auctions
      /\ e.mails = {IF x.id # m.id THEN bare(x) ELSE new(x) : x \in d.mails}
      /\ \A x \in Mails : bare(x) \in Mails /\ new(x) \in Mails
  BY <1>1, <1>2, UpdatedFields
<1>4. \A x \in Mails :
        /\ new(x).id = x.id /\ new(x).from = x.from /\ new(x).cod = m.cod
        /\ bare(x).id = x.id /\ bare(x).from = x.from /\ bare(x).cod = x.cod
  BY DEF Mails
<1> HIDE DEF new, bare
<1>5. ASSUME NEW x \in Marked(n, hs), x.id = m.id
      PROVE  new(x) \in Marked(n, hs)
  BY <1>3, <1>4, <1>5 DEF Marked
<1>9. ASSUME NEW x \in Marked(n, hs)
      PROVE  bare(x) \in Marked(n, hs)
  BY <1>3, <1>4, <1>9 DEF Marked
<1>6. PICK h : h = [x \in d.mails |-> IF x.id # m.id THEN bare(x) ELSE new(x)]
  OBVIOUS
<1>7. h \in [d.mails -> Marked(n, hs)]
  BY <1>1, <1>5, <1>6, <1>9
<1>8. e.mails = {h[x] : x \in d.mails}
  BY <1>3, <1>6
<1> QED
  BY <1>2, <1>3, <1>7, <1>8, LedgerRewritten

LEMMA LedgerReversed ==
    ASSUME NEW n, NEW hs, NEW d \in Ledgers(n, hs), NEW m \in Marked(n, hs), m.from # House
    PROVE  Reversed(d, m) \in Ledgers(n, hs)
<1> DEFINE new(x) == [x EXCEPT !.from = m.to, !.to = m.from, !.cod = 0, !.mark = "returned"]
<1>1. d \in Tables /\ d.mails \subseteq Marked(n, hs) /\ m \in Mails
  BY DEF Ledgers, Marked
<1>2. PICK e : e = Reversed(d, m)
  OBVIOUS
<1>3. /\ e \in Tables /\ e.auctions = d.auctions
      /\ e.mails = {IF x.id # m.id THEN x ELSE new(x) : x \in d.mails}
      /\ \A x \in Mails : new(x) \in Mails
  BY <1>1, <1>2, ReversedFields
<1>4. \A x \in Mails : new(x).id = x.id /\ new(x).from = m.to /\ new(x).cod = 0
  BY DEF Mails
<1>5. m.to # House
  BY <1>1, MailAssumption DEF Mails
<1> HIDE DEF new
<1>6. ASSUME NEW x \in Marked(n, hs), x.id = m.id
      PROVE  new(x) \in Marked(n, hs)
  BY <1>3, <1>4, <1>5, <1>6 DEF Marked
<1>7. PICK h : h = [x \in d.mails |-> IF x.id # m.id THEN x ELSE new(x)]
  OBVIOUS
<1>8. h \in [d.mails -> Marked(n, hs)]
  BY <1>1, <1>6, <1>7
<1>9. e.mails = {h[x] : x \in d.mails}
  BY <1>3, <1>7
<1> QED
  BY <1>2, <1>3, <1>8, <1>9, LedgerRewritten

LEMMA LedgerOfAuctions ==
    ASSUME NEW n, NEW hs, NEW d \in Ledgers(n, hs), NEW a \in Offers
    PROVE  /\ Put(d, a) \in Ledgers(n, hs)
           /\ Removed(d, a) \in Ledgers(n, hs)
           /\ Changed(d, a) \in Ledgers(n, hs)
<1>1. d \in Tables /\ d.auctions \subseteq Offers /\ a \in Auctions
  BY DEF Ledgers, Offers
<1>2. PICK e : e = Put(d, a)
  OBVIOUS
<1>3. PICK f : f = Removed(d, a)
  OBVIOUS
<1>4. PICK g : g = Changed(d, a)
  OBVIOUS
<1>5. /\ e \in Tables /\ e.auctions = d.auctions \cup {a} /\ e.mails = d.mails
      /\ f \in Tables /\ f.auctions = {x \in d.auctions : x.id # a.id} /\ f.mails = d.mails
      /\ g \in Tables /\ g.auctions = {x \in d.auctions : x.id # a.id} \cup {a}
      /\ g.mails = d.mails
  BY <1>1, <1>2, <1>3, <1>4, AuctionFields
<1>6. e \in Ledgers(n, hs)
  BY <1>1, <1>5, LedgerSame
<1>7. f \in Ledgers(n, hs)
  BY <1>1, <1>5, LedgerSame
<1>8. g \in Ledgers(n, hs)
  BY <1>1, <1>5, LedgerSame
<1> QED
  BY <1>2, <1>3, <1>4, <1>6, <1>7, <1>8

LEMMA KindsFacts ==
    ASSUME NEW hs, Kinds(hs)
    PROVE  /\ Stored \in Ledgers(posted, hs) /\ Committed \in Ledgers(posted, hs)
           /\ Stored \in Tables /\ Committed \in Tables
           /\ Stored.mails \in SUBSET Marked(posted, hs)
           /\ Committed.mails \in SUBSET Marked(posted, hs)
           /\ posted \in Nat /\ posted <= MaxMails /\ opened \in Nat /\ opened <= MaxAuctions
           /\ hs \in SUBSET (1..posted)
           /\ goods \in Holdings
           /\ goods.bag \in [Player -> SUBSET Item] /\ goods.gold \in [Player -> 0..MaxGold]
           /\ box \in [Player -> Boxes(posted, hs)]
           /\ marked \in [Player -> SUBSET (1..MaxMails)]
           /\ phase \in [Player -> {"out", "login", "in", "travel"}]
           /\ house \in SUBSET Offers
           /\ MaxGold \in Nat /\ MaxMails \in Nat /\ Nobody \notin Player /\ House \notin Player
<1>1. /\ TypeOK /\ disk \in Seq(Ledgers(posted, hs)) /\ box \in [Player -> Boxes(posted, hs)]
      /\ house \in SUBSET Offers /\ hs \in SUBSET (1..posted)
  BY DEF Kinds
<1>2. Len(disk) \in Nat /\ Len(disk) > 0 /\ Stored = disk[Len(disk)] /\ Committed = disk[1]
  BY <1>1, DiskFacts
<1>3. Stored \in Ledgers(posted, hs) /\ Committed \in Ledgers(posted, hs)
  BY <1>1, <1>2
<1>4. posted \in Nat /\ posted <= MaxMails /\ opened \in Nat /\ opened <= MaxAuctions
  BY <1>1, MailAssumption, AuctionAssumption DEF TypeOK, MailTypeOK
<1> QED
  BY <1>1, <1>3, <1>4, MemoryType DEF Ledgers

\* What is in a box.
LEMMA InBox ==
    ASSUME NEW hs, Kinds(hs), NEW p \in Player, NEW m \in box[p]
    PROVE  /\ m \in Marked(posted, hs) /\ m \in Mails /\ m.id \in 1..posted /\ m.id \in 1..MaxMails
           /\ m.to \in Player /\ m.from \in Player \cup {House} /\ m.items \in SUBSET Item
           /\ m.money \in Nat /\ m.cod \in Nat
           /\ m.cod > 0 => m.from \in Player
<1>1. m \in Marked(posted, hs)
  BY KindsFacts DEF Boxes
<1>2. m \in Mails /\ m.id <= posted /\ (m.from = House => m.cod = 0)
  BY <1>1 DEF Marked
<1>3. /\ m.id \in 1..MaxMails /\ m.to \in Player /\ m.from \in Player \cup {House}
      /\ m.items \in SUBSET Item /\ m.money \in Nat /\ m.cod \in Nat
  BY <1>2, MailAssumption DEF Mails
<1>4. posted \in Nat
  BY KindsFacts
<1> QED
  BY <1>1, <1>2, <1>3, <1>4

\* A handler that hands over steps.
LEMMA KindsKept ==
    ASSUME NEW hs, Kinds(hs), posted' \in posted..MaxMails, opened' \in opened..MaxAuctions,
           NEW gs, hs \subseteq gs, gs \subseteq hs \cup (posted + 1 .. posted'),
           NEW steps \in Seq(Ledgers(posted', gs)), Execute(steps),
           phase' \in [Player -> {"out", "login", "in", "travel"}],
           goods' \in Holdings, box' \in [Player -> Boxes(posted', gs)],
           behind' = behind, torn' = torn, spoilt' \in BOOLEAN, events' \in 0..MaxEvents,
           won' \in [1..MaxAuctions -> Player \cup {Nobody}],
           house' \in SUBSET Offers,
           marked' \in [Player -> SUBSET (1..MaxMails)]
    PROVE  Kinds(gs)'
<1>1. /\ posted \in Nat /\ MaxMails \in Nat /\ posted' \in Nat /\ posted <= posted'
      /\ opened \in Nat /\ MaxAuctions \in Nat /\ hs \in SUBSET (1..posted)
  BY KindsFacts, AuctionAssumption
<1>2. /\ disk \in Seq(Ledgers(posted, hs)) /\ TypeOK
      /\ Len(disk) \in Nat /\ Len(disk) > 0
  BY DiskFacts DEF Kinds
<1>3. Ledgers(posted, hs) \subseteq Ledgers(posted', gs)
  BY <1>1, MarkedLater
<1>4. disk \in Seq(Ledgers(posted', gs))
  BY <1>2, <1>3
<1>5. PICK t : t = [k \in 1..Len(steps) |-> [steps[k] EXCEPT !.whole = k = Len(steps)]]
  OBVIOUS
<1>6. Len(steps) \in Nat
  OBVIOUS
<1>7. t \in Seq(Ledgers(posted', gs)) /\ Len(t) = Len(steps)
  <2>1. ASSUME NEW k \in 1..Len(steps)
        PROVE  t[k] \in Ledgers(posted', gs)
    <3>1. PICK b : b = (k = Len(steps))
      OBVIOUS
    <3>2. t[k] = [steps[k] EXCEPT !.whole = b] /\ b \in BOOLEAN
      BY <1>5, <3>1
    <3> QED
      BY <3>2, LedgerOfRows
  <2>2. t \in [1..Len(steps) -> Ledgers(posted', gs)]
    BY <1>5, <2>1
  <2> QED
    BY <1>6, <2>2
<1>8. disk' = disk \o t /\ Len(disk) + Len(steps) <= MaxQueue + 1
  BY <1>5, Zenon DEF Execute
<1>9. disk' \in Seq(Ledgers(posted', gs)) /\ Len(disk') = Len(disk) + Len(steps)
  <2>1. PICK S : S = Ledgers(posted', gs)
    OBVIOUS
  <2>2. disk \in Seq(S) /\ t \in Seq(S) /\ disk' = disk \o t
    BY <1>4, <1>7, <1>8, <2>1
  <2>3. disk' \in Seq(S) /\ Len(disk') = Len(disk) + Len(t)
    BY <2>2, Joined, SMTT(60)
  <2> QED
    BY <1>7, <2>1, <2>3
<1>10. Len(disk') \in 1..MaxQueue + 1
  BY <1>2, <1>6, <1>8, <1>9, MailAssumption
<1>11. disk' \in Seq(Tables)
  BY <1>9 DEF Ledgers
<1>12. box' \in [Player -> SUBSET Mails]
  BY DEF Boxes, Marked
<1>13. house' \in SUBSET Auctions
  BY DEF Offers
<1>14. behind' \in [Player -> 0..MaxQueue] /\ torn' \in BOOLEAN
  BY DEF Kinds, TypeOK, MailTypeOK
<1>15. posted' \in 0..MaxMails /\ opened' \in 0..MaxAuctions
  BY <1>1
<1>16. TypeOK'
  BY <1>10, <1>11, <1>12, <1>13, <1>14, <1>15 DEF TypeOK, MailTypeOK
<1>17. gs \in SUBSET (1..posted')
  BY <1>1
<1> QED
  BY <1>9, <1>16, <1>17 DEF Kinds

LEMMA QuietTypes ==
    ASSUME NEW hs, Kinds(hs), Quiet
    PROVE  /\ phase' \in [Player -> {"out", "login", "in", "travel"}] /\ phase' = phase
           /\ behind' = behind /\ torn' = torn /\ spoilt' = spoilt
           /\ spoilt' \in BOOLEAN /\ events' \in 0..MaxEvents
BY DEF Kinds, TypeOK, MailTypeOK, Quiet, Steady

LEMMA SteadyTypes ==
    ASSUME NEW hs, Kinds(hs), Quiet \/ (Steady /\ spoilt' \in BOOLEAN)
    PROVE  /\ phase' \in [Player -> {"out", "login", "in", "travel"}]
           /\ behind' = behind /\ torn' = torn
           /\ spoilt' \in BOOLEAN /\ events' \in 0..MaxEvents
BY DEF Kinds, TypeOK, MailTypeOK, Quiet, Steady

LEMMA AsWon ==
    ASSUME NEW hs, Kinds(hs), UNCHANGED <<house, opened, won>>
    PROVE  /\ won' \in [1..MaxAuctions -> Player \cup {Nobody}]
           /\ house' \in SUBSET Offers
           /\ opened' \in opened..MaxAuctions
<1>1. opened \in 0..MaxAuctions /\ won \in [1..MaxAuctions -> Player \cup {Nobody}]
  BY DEF Kinds, TypeOK
<1> QED
  BY <1>1, AuctionAssumption DEF Kinds

\* Boxes into which mails are put.
LEMMA BoxesFilled ==
    ASSUME NEW n, NEW hs, NEW b \in [Player -> Boxes(n, hs)], NEW M \in Boxes(n, hs)
    PROVE  Delivered(b, M) \in [Player -> Boxes(n, hs)]
<1>1. ASSUME NEW q \in Player
      PROVE  Delivered(b, M)[q] \in Boxes(n, hs)
  <2>1. PICK N : N = {m \in M : m.to = q /\ InWorld(q)}
    OBVIOUS
  <2>2. N \subseteq M /\ IsFiniteSet(M) /\ M \subseteq Marked(n, hs)
    BY <2>1 DEF Boxes
  <2>3. IsFiniteSet(N)
    BY <2>2, FS_Subset
  <2>4. b[q] \subseteq Marked(n, hs) /\ IsFiniteSet(b[q])
    BY DEF Boxes
  <2>5. IsFiniteSet(b[q] \cup N)
    BY <2>3, <2>4, FS_Union
  <2>6. Delivered(b, M)[q] = b[q] \cup N
    BY <2>1 DEF Delivered
  <2> QED
    BY <2>2, <2>4, <2>5, <2>6 DEF Boxes
<1>2. DOMAIN Delivered(b, M) = Player /\ Delivered(b, M) = [q \in Player |-> Delivered(b, M)[q]]
  BY DEF Delivered
<1> QED
  BY <1>1, <1>2

\* Sets of mails, made of others.
LEMMA SomeMails ==
    ASSUME NEW n, NEW hs
    PROVE  /\ {} \in Boxes(n, hs)
           /\ \A x \in Marked(n, hs) : {x} \in Boxes(n, hs)
           /\ \A S \in Boxes(n, hs) : \A U \in SUBSET S : U \in Boxes(n, hs)
           /\ \A S \in Boxes(n, hs), x \in Marked(n, hs) : S \cup {x} \in Boxes(n, hs)
<1>1. {} \in Boxes(n, hs) /\ \A x \in Marked(n, hs) : {x} \in Boxes(n, hs)
  BY FS_EmptySet, FS_Singleton DEF Boxes
<1>2. ASSUME NEW S \in Boxes(n, hs), NEW U \in SUBSET S
      PROVE  U \in Boxes(n, hs)
  BY FS_Subset DEF Boxes
<1>3. ASSUME NEW S \in Boxes(n, hs), NEW x \in Marked(n, hs)
      PROVE  S \cup {x} \in Boxes(n, hs)
  BY FS_AddElement DEF Boxes
<1> QED
  BY <1>1, <1>2, <1>3

-----------------------------------------------------------------------------
(* Types: the handlers of mail.                                            *)

LEMMA FromPlayer ==
    ASSUME NEW hs, Kinds(hs), NEW m \in Mails, m.id = posted + 1, m.from \in Player
    PROVE  m \in Marked(posted + 1, hs)
<1>1. posted \in Nat /\ hs \in SUBSET (1..posted) /\ m.from # House
  BY KindsFacts
<1>2. m.id \notin hs /\ m.id <= posted + 1
  BY <1>1
<1> QED
  BY <1>1, <1>2 DEF Marked

\* Mails given out later leave what is there of its kind.
LEMMA KindsGrow ==
    ASSUME NEW hs, Kinds(hs), NEW k \in Nat, posted <= k,
           NEW gs, hs \subseteq gs, gs \subseteq hs \cup (posted + 1 .. k)
    PROVE  /\ Marked(posted, hs) \subseteq Marked(k, gs)
           /\ Boxes(posted, hs) \subseteq Boxes(k, gs)
           /\ Stored \in Ledgers(k, gs)
           /\ box \in [Player -> Boxes(k, gs)]
<1>1. posted \in Nat /\ hs \in SUBSET (1..posted) /\ Stored \in Ledgers(posted, hs)
      /\ box \in [Player -> Boxes(posted, hs)]
  BY KindsFacts
<1>2. /\ Marked(posted, hs) \subseteq Marked(k, gs)
      /\ Ledgers(posted, hs) \subseteq Ledgers(k, gs)
      /\ Boxes(posted, hs) \subseteq Boxes(k, gs)
  BY <1>1, MarkedLater
<1> QED
  BY <1>1, <1>2

\* A handler that leaves the auctions and who is there.
LEMMA KindsOfMail ==
    ASSUME NEW hs, Kinds(hs), UNCHANGED <<house, opened, won>>,
           Quiet \/ (Steady /\ spoilt' \in BOOLEAN),
           posted' \in posted..MaxMails,
           NEW steps \in Seq(Ledgers(posted', hs)), Execute(steps),
           goods' \in Holdings, box' \in [Player -> Boxes(posted', hs)],
           marked' \in [Player -> SUBSET (1..MaxMails)]
    PROVE  Kinds(hs)'
<1>1. /\ phase' \in [Player -> {"out", "login", "in", "travel"}]
      /\ behind' = behind /\ torn' = torn
      /\ spoilt' \in BOOLEAN /\ events' \in 0..MaxEvents
  BY SteadyTypes
<1>2. /\ won' \in [1..MaxAuctions -> Player \cup {Nobody}]
      /\ house' \in SUBSET Offers
      /\ opened' \in opened..MaxAuctions
  BY AsWon
<1>3. PICK gs : gs = hs
  OBVIOUS
<1>4. hs \subseteq gs /\ gs \subseteq hs \cup (posted + 1 .. posted')
  BY <1>3
<1>5. steps \in Seq(Ledgers(posted', gs)) /\ box' \in [Player -> Boxes(posted', gs)]
  BY <1>3
<1>6. Kinds(gs)'
  BY <1>1, <1>2, <1>4, <1>5, KindsKept
<1> QED
  BY <1>3, <1>6

LEMMA SendMailTypes ==
    ASSUME NEW hs, Kinds(hs), NEW p \in Player, NEW q \in Player, NEW I \in SUBSET Item,
           NEW money \in Sum, NEW cod \in Sum, SendMail(p, q, I, money, cod),
           UNCHANGED <<house, opened, won>>
    PROVE  Kinds(hs)'
<1>1. PICK d : d = Stored
  OBVIOUS
<1>2. PICK cost : cost = Postage * (IF I = {} THEN 1 ELSE Cardinality(I))
  OBVIOUS
<1>3. PICK m : m = [Letter(1, p, q, I, money) EXCEPT !.cod = cod]
  OBVIOUS
<1>4. PICK g, r : /\ r = (cost + money) % Word
                  /\ g = [goods EXCEPT !.bag[p] = @ \ I, !.gold[p] = @ - r]
  OBVIOUS
<1>5. PICK packed : packed = [k \in 1..Len(SetToSeq(I)) |->
                                Lost(d, {SetToSeq(I)[n] : n \in 1..k})]
  OBVIOUS
<1>6. PICK s1 : s1 = Inserted(Lost(d, I), m)
  OBVIOUS
<1>7. PICK e : e = Spent(Saved(s1, p, g), cost)
  OBVIOUS
<1>8. /\ goods.gold[p] >= r
      /\ Post({m}) /\ goods' = g /\ box' = Delivered(box, {m})
      /\ Execute(packed \o <<s1, e>>)
      /\ marked' = marked /\ Steady
      /\ spoilt' = (spoilt \/ cost + money >= Word)
  BY <1>1, <1>2, <1>3, <1>4, <1>5, <1>6, <1>7 DEF SendMail, Spoiling
<1>9. /\ d \in Ledgers(posted, hs) /\ posted \in Nat
      /\ goods \in Holdings /\ goods.bag \in [Player -> SUBSET Item]
      /\ goods.gold \in [Player -> 0..MaxGold] /\ MaxGold \in Nat /\ MaxMails \in Nat
      /\ marked \in [Player -> SUBSET (1..MaxMails)]
  BY <1>1, KindsFacts
<1>10. cost \in Nat /\ money \in Nat /\ cod \in Nat /\ r \in Nat
  <2>1. cost \in Nat /\ money \in Nat /\ cod \in Nat
    BY <1>2, InOrder, Natural, MailAssumption
  <2> QED
    BY <1>4, <2>1, MailAssumption
<1>11. posted' = posted + 1 /\ posted + 1 <= MaxMails
  BY <1>8, <1>9, Posted
<1>12. m \in Mails /\ m.id = posted + 1 /\ m.from = p
  <2>1. PICK l : l = Letter(1, p, q, I, money)
    OBVIOUS
  <2>2. l \in Mails /\ l.id = posted + 1 /\ l.from = p
    BY <1>9, <1>10, <1>11, <2>1, Written
  <2> QED
    BY <1>3, <2>1, <2>2 DEF Mails
<1>13. g \in Holdings
  <2>1. /\ g.bag = [goods.bag EXCEPT ![p] = @ \ I]
        /\ g.gold = [goods.gold EXCEPT ![p] = @ - r]
        /\ g = [bag |-> g.bag, gold |-> g.gold]
    BY <1>4, <1>9 DEF Holdings
  <2>2. goods.gold[p] - r \in 0..MaxGold
    BY <1>8, <1>9, <1>10
  <2> QED
    BY <1>9, <2>1, <2>2 DEF Holdings
<1>14. m \in Marked(posted', hs)
  BY <1>11, <1>12, FromPlayer
<1>15. posted' \in Nat /\ posted <= posted' /\ posted' \in posted..MaxMails
  BY <1>9, <1>11
<1>16. d \in Ledgers(posted', hs) /\ box \in [Player -> Boxes(posted', hs)]
  BY <1>1, <1>15, KindsGrow
<1>17. box' \in [Player -> Boxes(posted', hs)]
  BY <1>8, <1>14, <1>16, SomeMails, BoxesFilled
<1>18. \A J : Lost(d, J) \in Ledgers(posted', hs)
  BY <1>16, LedgerOfRows
<1>19. s1 \in Ledgers(posted', hs)
  BY <1>6, <1>14, <1>18, LedgerOfMails
<1>20. e \in Ledgers(posted', hs)
  BY <1>7, <1>10, <1>13, <1>19, LedgerOfRows
<1>21. packed \o <<s1, e>> \in Seq(Ledgers(posted', hs))
  <2>1. packed \in Seq(Ledgers(posted', hs))
    BY <1>5, <1>18, InOrder
  <2> QED
    BY <1>19, <1>20, <2>1, EndsTwo
<1>22. spoilt' \in BOOLEAN
  BY <1>8
<1> QED
  BY <1>8, <1>9, <1>13, <1>15, <1>17, <1>21, <1>22, KindsOfMail

\* A box after a mail in it has become t, those thrown away are gone, and the
\* mails M have come.
LEMMA BoxOfTaken ==
    ASSUME NEW n, NEW hs, NEW b \in [Player -> Boxes(n, hs)], NEW M \in Boxes(n, hs),
           NEW p \in Player, NEW out, NEW t \in Marked(n, hs)
    PROVE  Delivered([b EXCEPT ![p] = (@ \ out) \cup {t}], M) \in [Player -> Boxes(n, hs)]
<1>1. PICK c : c = [b EXCEPT ![p] = (@ \ out) \cup {t}]
  OBVIOUS
<1>2. PICK S : S = b[p] \ out
  OBVIOUS
<1>3. S \in Boxes(n, hs)
  BY <1>2, SomeMails
<1>4. S \cup {t} \in Boxes(n, hs)
  BY <1>3, SomeMails
<1>5. c \in [Player -> Boxes(n, hs)]
  BY <1>1, <1>2, <1>4
<1> QED
  BY <1>1, <1>5, BoxesFilled

LEMMA BinnedTypes ==
    ASSUME NEW hs, Kinds(hs), NEW p \in Player
    PROVE  Binned(p) \in SUBSET Mails /\ Binned(p) \subseteq box[p]
BY KindsFacts DEF Binned, Boxes, Marked

\* No marks are left on the mails of a box.
LEMMA EmptiedTypes ==
    ASSUME NEW hs, Kinds(hs), NEW p \in Player, Emptied(p)
    PROVE  marked' \in [Player -> SUBSET (1..MaxMails)]
BY KindsFacts DEF Emptied

LEMMA TakeItemTypes ==
    ASSUME NEW hs, Kinds(hs), NEW p \in Player, NEW m, NEW i \in Item, TakeItem(p, m, i),
           UNCHANGED <<house, opened, won>>
    PROVE  Kinds(hs)'
<1>1. PICK taken : taken = [m EXCEPT !.items = @ \ {i}, !.cod = 0]
  OBVIOUS
<1>2. PICK pay : pay = [Letter(1, p, m.from, {}, m.cod) EXCEPT !.mark = "paid"]
  OBVIOUS
<1>3. PICK M : M = IF m.cod > 0 THEN {pay} ELSE {}
  OBVIOUS
<1>4. PICK g : g = [goods EXCEPT !.bag[p] = @ \cup {i}, !.gold[p] = @ - m.cod]
  OBVIOUS
<1>5. PICK paid : paid = IF m.cod > 0 THEN Inserted(Stored, pay) ELSE Stored
  OBVIOUS
<1>6. PICK saved : saved = Erased(Updated(Saved(paid, p, g), taken, {i}), Binned(p))
  OBVIOUS
<1>7. PICK out : out = Binned(p) \cup {m}
  OBVIOUS
<1>8. PICK steps : steps = IF m.cod > 0 THEN <<paid, saved>> ELSE <<saved>>
  OBVIOUS
<1>9. /\ m \in box[p] /\ goods.gold[p] >= m.cod /\ Post(M) /\ goods' = g
      /\ box' = Delivered([box EXCEPT ![p] = (@ \ out) \cup {taken}], M)
      /\ Execute(steps) /\ Emptied(p) /\ Steady
      /\ spoilt' = (spoilt \/ i \notin m.items)
  BY <1>1, <1>2, <1>3, <1>4, <1>5, <1>6, <1>7, <1>8 DEF TakeItem, Mine, Spoiling
<1>10. /\ m \in Marked(posted, hs) /\ m \in Mails /\ m.cod \in Nat
       /\ m.cod > 0 => m.from \in Player
  BY <1>9, InBox
<1>11. /\ posted \in Nat /\ posted <= MaxMails /\ MaxMails \in Nat
       /\ goods \in Holdings /\ goods.bag \in [Player -> SUBSET Item]
       /\ goods.gold \in [Player -> 0..MaxGold] /\ MaxGold \in Nat
  BY KindsFacts
<1>12. posted' \in posted..MaxMails /\ posted' \in Nat /\ posted <= posted'
       /\ (m.cod > 0 => posted' = posted + 1)
  <2>1. CASE m.cod > 0
    <3>1. Post({pay})
      BY <1>3, <1>9, <2>1
    <3>2. posted' = posted + 1 /\ posted + 1 <= MaxMails
      BY <1>11, <3>1, Posted
    <3> QED
      BY <1>11, <3>2
  <2>2. CASE ~(m.cod > 0)
    BY <1>3, <1>9, <1>11, <2>2, Posted
  <2> QED
    BY <2>1, <2>2
<1>13. /\ Marked(posted, hs) \subseteq Marked(posted', hs)
       /\ Stored \in Ledgers(posted', hs) /\ box \in [Player -> Boxes(posted', hs)]
  BY <1>12, KindsGrow
<1>14. taken \in Marked(posted', hs)
  <2>1. m \in Marked(posted', hs)
    BY <1>10, <1>13
  <2>2. taken \in Mails /\ taken.id = m.id /\ taken.from = m.from /\ taken.cod = 0
    BY <1>1, <1>10 DEF Mails
  <2> QED
    BY <2>1, <2>2 DEF Marked
<1>15. ASSUME m.cod > 0
       PROVE  pay \in Marked(posted', hs)
  <2>1. PICK l : l = Letter(1, p, m.from, {}, m.cod)
    OBVIOUS
  <2>2. l \in Mails /\ l.id = posted + 1 /\ l.from = p
    <3>1. PICK I \in SUBSET Item, v \in Nat, to \in Player : I = {} /\ v = m.cod /\ to = m.from
      BY <1>10, <1>15
    <3>2. posted + 1 <= MaxMails
      BY <1>12, <1>15, <1>11
    <3> QED
      BY <1>11, <2>1, <3>1, <3>2, Written
  <2>3. pay \in Mails /\ pay.id = posted + 1 /\ pay.from = p
    BY <1>2, <2>1, <2>2 DEF Mails
  <2> QED
    BY <1>12, <1>15, <2>3, FromPlayer
<1>16. M \in Boxes(posted', hs)
  BY <1>3, <1>15, SomeMails
<1>17. box' \in [Player -> Boxes(posted', hs)]
  BY <1>9, <1>13, <1>14, <1>16, BoxOfTaken
<1>18. g \in Holdings
  <2>1. /\ g.bag = [goods.bag EXCEPT ![p] = @ \cup {i}]
        /\ g.gold = [goods.gold EXCEPT ![p] = @ - m.cod]
        /\ g = [bag |-> g.bag, gold |-> g.gold]
    BY <1>4, <1>11 DEF Holdings
  <2>2. goods.gold[p] - m.cod \in 0..MaxGold
    BY <1>9, <1>10, <1>11
  <2> QED
    BY <1>11, <2>1, <2>2 DEF Holdings
<1>19. paid \in Ledgers(posted', hs)
  BY <1>5, <1>13, <1>15, LedgerOfMails
<1>20. saved \in Ledgers(posted', hs)
  <2>1. Saved(paid, p, g) \in Ledgers(posted', hs)
    BY <1>18, <1>19, LedgerOfRows
  <2>2. Updated(Saved(paid, p, g), taken, {i}) \in Ledgers(posted', hs)
    BY <1>14, <2>1, LedgerUpdated
  <2> QED
    BY <1>6, <2>2, BinnedTypes, LedgerOfMails
<1>21. steps \in Seq(Ledgers(posted', hs))
  BY <1>8, <1>19, <1>20
<1>22. marked' \in [Player -> SUBSET (1..MaxMails)]
  BY <1>9, EmptiedTypes
<1>23. spoilt' \in BOOLEAN
  BY <1>9
<1> QED
  BY <1>9, <1>12, <1>17, <1>18, <1>21, <1>22, <1>23, KindsOfMail

LEMMA PurseType ==
    ASSUME NEW n \in Int
    PROVE  Purse(n) \in 0..MaxGold /\ (0 <= n => Purse(n) <= n) /\ (n < 0 => Purse(n) = 0)
BY GoodsAssumption DEF Purse

LEMMA Int32Type ==
    ASSUME NEW n \in Nat
    PROVE  Int32(n) \in Int /\ Int32(n) <= n
BY MailAssumption DEF Int32

LEMMA TakeMoneyTypes ==
    ASSUME NEW hs, Kinds(hs), NEW p \in Player, NEW m, TakeMoney(p, m),
           UNCHANGED <<house, opened, won>>
    PROVE  Kinds(hs)'
<1>1. PICK taken : taken = [m EXCEPT !.money = 0]
  OBVIOUS
<1>2. PICK g : g = [goods EXCEPT !.gold[p] = Purse(@ + Int32(m.money))]
  OBVIOUS
<1>3. PICK excess : excess = goods.gold[p] + m.money - g.gold[p]
  OBVIOUS
<1>4. PICK saved : saved = Erased(Updated([Stored EXCEPT !.gold[p] = g.gold[p]], taken, {}),
                                  Binned(p))
  OBVIOUS
<1>5. PICK out : out = Binned(p) \cup {m}
  OBVIOUS
<1>6. PICK e : e = Spent(saved, excess)
  OBVIOUS
<1>7. /\ m \in box[p] /\ goods' = g
      /\ box' = [box EXCEPT ![p] = (@ \ out) \cup {taken}]
      /\ Execute(<<e>>) /\ Emptied(p) /\ posted' = posted
      /\ Steady /\ spoilt' = (spoilt \/ 2 * m.money >= Word)
  BY <1>1, <1>2, <1>3, <1>4, <1>5, <1>6 DEF TakeMoney, Mine, Spoiling
<1>8. m \in Marked(posted, hs) /\ m \in Mails /\ m.money \in Nat
  BY <1>7, InBox
<1>9. /\ posted \in Nat /\ posted <= MaxMails /\ MaxMails \in Nat
      /\ goods \in Holdings /\ goods.bag \in [Player -> SUBSET Item]
      /\ goods.gold \in [Player -> 0..MaxGold] /\ MaxGold \in Nat
      /\ Stored \in Ledgers(posted, hs) /\ box \in [Player -> Boxes(posted, hs)]
  BY KindsFacts
<1>10. PICK v : v = Purse(goods.gold[p] + Int32(m.money))
  OBVIOUS
<1>11. v \in 0..MaxGold /\ v <= goods.gold[p] + m.money
  <2>1. PICK n : n = goods.gold[p] + Int32(m.money)
    OBVIOUS
  <2>2. n \in Int /\ n <= goods.gold[p] + m.money /\ goods.gold[p] + m.money \in Nat
    BY <1>8, <1>9, <2>1, Int32Type
  <2>3. v \in 0..MaxGold /\ (0 <= n => v <= n) /\ (n < 0 => v = 0)
    BY <1>10, <2>1, <2>2, PurseType
  <2> QED
    BY <1>9, <2>2, <2>3
<1>12. g \in Holdings /\ g.gold[p] = v
  <2>1. /\ g.bag = goods.bag /\ g.gold = [goods.gold EXCEPT ![p] = v]
        /\ g = [bag |-> g.bag, gold |-> g.gold]
    BY <1>2, <1>9, <1>10 DEF Holdings
  <2> QED
    BY <1>9, <1>11, <2>1 DEF Holdings
<1>13. excess \in Nat
  BY <1>3, <1>8, <1>9, <1>11, <1>12
<1>14. taken \in Marked(posted, hs)
  <2>1. taken \in Mails /\ taken.id = m.id /\ taken.from = m.from /\ taken.cod = m.cod
    BY <1>1, <1>8 DEF Mails
  <2> QED
    BY <1>8, <2>1 DEF Marked
<1>15. e \in Ledgers(posted, hs)
  <2>1. [Stored EXCEPT !.gold[p] = g.gold[p]] \in Ledgers(posted, hs)
    BY <1>9, <1>11, <1>12, LedgerOfRows
  <2>2. Updated([Stored EXCEPT !.gold[p] = g.gold[p]], taken, {}) \in Ledgers(posted, hs)
    BY <1>14, <2>1, LedgerUpdated
  <2>3. saved \in Ledgers(posted, hs)
    BY <1>4, <2>2, BinnedTypes, LedgerOfMails
  <2> QED
    BY <1>6, <1>13, <2>3, LedgerOfRows
<1>16. box' \in [Player -> Boxes(posted, hs)]
  <2>1. PICK S : S = box[p] \ out
    OBVIOUS
  <2>2. S \in Boxes(posted, hs)
    BY <1>9, <2>1, SomeMails
  <2>3. S \cup {taken} \in Boxes(posted, hs)
    BY <1>14, <2>2, SomeMails
  <2> QED
    BY <1>7, <1>9, <2>1, <2>3
<1>17. <<e>> \in Seq(Ledgers(posted', hs)) /\ box' \in [Player -> Boxes(posted', hs)]
       /\ posted' \in posted..MaxMails
  BY <1>7, <1>9, <1>15, <1>16
<1>18. marked' \in [Player -> SUBSET (1..MaxMails)]
  BY <1>7, EmptiedTypes
<1>19. spoilt' \in BOOLEAN
  BY <1>7
<1> QED
  BY <1>7, <1>12, <1>17, <1>18, <1>19, KindsOfMail

\* A step that leaves the tables and the mails given out.
LEMMA KindsOfMemory ==
    ASSUME NEW hs, Kinds(hs), UNCHANGED <<house, opened, won>>,
           posted' = posted, torn' = torn, spoilt' = spoilt, disk' = disk,
           phase' \in [Player -> {"out", "login", "in", "travel"}],
           goods' \in Holdings, box' \in [Player -> Boxes(posted, hs)],
           marked' \in [Player -> SUBSET (1..MaxMails)],
           behind' \in [Player -> 0..MaxQueue], events' \in 0..MaxEvents
    PROVE  Kinds(hs)'
<1>1. box' \in [Player -> SUBSET Mails]
  BY DEF Boxes, Marked
<1>2. TypeOK'
  BY <1>1 DEF Kinds, TypeOK, MailTypeOK
<1> QED
  BY <1>2 DEF Kinds

LEMMA DeleteMailTypes ==
    ASSUME NEW hs, Kinds(hs), NEW p \in Player, NEW m, DeleteMail(p, m),
           UNCHANGED <<house, opened, won>>
    PROVE  Kinds(hs)'
<1>1. /\ m \in box[p] /\ marked' = [marked EXCEPT ![p] = @ \cup {m.id}]
      /\ Quiet /\ UNCHANGED <<goods, box, disk, posted>>
  BY DEF DeleteMail
<1>2. m.id \in 1..MaxMails
  BY <1>1, InBox
<1>3. /\ marked \in [Player -> SUBSET (1..MaxMails)] /\ goods \in Holdings
      /\ box \in [Player -> Boxes(posted, hs)]
  BY KindsFacts
<1>4. marked' \in [Player -> SUBSET (1..MaxMails)]
  BY <1>1, <1>2, <1>3
<1>5. /\ phase' \in [Player -> {"out", "login", "in", "travel"}]
      /\ behind' = behind /\ torn' = torn /\ spoilt' = spoilt
      /\ events' \in 0..MaxEvents
  BY <1>1, QuietTypes
<1>6. behind' \in [Player -> 0..MaxQueue]
  BY <1>5 DEF Kinds, TypeOK, MailTypeOK
<1> QED
  BY <1>1, <1>3, <1>4, <1>5, <1>6, KindsOfMemory

LEMMA ReturnMailTypes ==
    ASSUME NEW hs, Kinds(hs), NEW p \in Player, NEW m, ReturnMail(p, m),
           UNCHANGED <<house, opened, won>>
    PROVE  Kinds(hs)'
<1>1. PICK back : back = [Letter(1, p, m.from, m.items, m.money) EXCEPT !.mark = "returned"]
  OBVIOUS
<1>2. PICK M : M = IF m.from = House THEN {} ELSE {back}
  OBVIOUS
<1>3. PICK removed : removed = [Stored EXCEPT !.mails = {x \in @ : x.id # m.id}]
  OBVIOUS
<1>4. PICK steps : steps = IF m.from = House THEN <<Erased(Stored, {m})>>
                           ELSE <<removed, Inserted(removed, back)>>
  OBVIOUS
<1>5. /\ m \in box[p] /\ Post(M) /\ Quiet /\ Execute(steps)
      /\ box' = Delivered([box EXCEPT ![p] = @ \ {m}], M)
      /\ goods' = goods /\ marked' = marked
  BY <1>1, <1>2, <1>3, <1>4 DEF ReturnMail, Mine
<1>6. /\ m \in Mails /\ m.from \in Player \cup {House} /\ m.items \in SUBSET Item
      /\ m.money \in Nat
  BY <1>5, InBox
<1>7. /\ posted \in Nat /\ posted <= MaxMails /\ MaxMails \in Nat /\ goods \in Holdings
      /\ marked \in [Player -> SUBSET (1..MaxMails)]
  BY KindsFacts
<1>8. CASE m.from = House
  <2>1. M = {} /\ steps = <<Erased(Stored, {m})>>
    BY <1>2, <1>4, <1>8
  <2>2. posted' = posted /\ posted' \in posted..MaxMails
    BY <1>5, <1>7, <2>1, Posted
  <2>3. Stored \in Ledgers(posted', hs) /\ box \in [Player -> Boxes(posted', hs)]
    BY <2>2, KindsFacts
  <2>4. Erased(Stored, {m}) \in Ledgers(posted', hs)
    BY <1>6, <2>3, LedgerOfMails
  <2>5. steps \in Seq(Ledgers(posted', hs))
    BY <2>1, <2>4
  <2>6. box' \in [Player -> Boxes(posted', hs)]
    <3>1. [box EXCEPT ![p] = @ \ {m}] \in [Player -> Boxes(posted', hs)]
      BY <2>3, SomeMails
    <3> QED
      BY <1>5, <2>1, <3>1, SomeMails, BoxesFilled
  <2> QED
    BY <1>5, <1>7, <2>2, <2>5, <2>6, KindsOfMail
<1>9. CASE m.from # House
  <2>1. M = {back} /\ steps = <<removed, Inserted(removed, back)>> /\ m.from \in Player
    BY <1>2, <1>4, <1>6, <1>9
  <2>2. posted' = posted + 1 /\ posted + 1 <= MaxMails
    BY <1>5, <1>7, <2>1, Posted
  <2>3. posted' \in posted..MaxMails /\ posted' \in Nat /\ posted <= posted'
    BY <1>7, <2>2
  <2>4. Stored \in Ledgers(posted', hs) /\ box \in [Player -> Boxes(posted', hs)]
    BY <2>3, KindsGrow
  <2>5. back \in Marked(posted', hs)
    <3>1. PICK l : l = Letter(1, p, m.from, m.items, m.money)
      OBVIOUS
    <3>2. l \in Mails /\ l.id = posted + 1 /\ l.from = p
      BY <1>6, <1>7, <2>1, <2>2, <3>1, Written
    <3>3. back \in Mails /\ back.id = posted + 1 /\ back.from = p
      BY <1>1, <3>1, <3>2 DEF Mails
    <3> QED
      BY <2>2, <3>3, FromPlayer
  <2>6. removed \in Ledgers(posted', hs)
    BY <1>3, <2>4, LedgerOfMails
  <2>7. Inserted(removed, back) \in Ledgers(posted', hs)
    BY <2>5, <2>6, LedgerOfMails
  <2>8. steps \in Seq(Ledgers(posted', hs))
    BY <2>1, <2>6, <2>7
  <2>9. box' \in [Player -> Boxes(posted', hs)]
    <3>1. [box EXCEPT ![p] = @ \ {m}] \in [Player -> Boxes(posted', hs)]
      BY <2>4, SomeMails
    <3> QED
      BY <1>5, <2>1, <2>5, <3>1, SomeMails, BoxesFilled
  <2> QED
    BY <1>5, <1>7, <2>3, <2>8, <2>9, KindsOfMail
<1> QED
  BY <1>8, <1>9

LEMMA SavedPlayerTypes ==
    ASSUME NEW hs, Kinds(hs), NEW p \in Player
    PROVE  <<SavedPlayer(p)>> \in Seq(Ledgers(posted, hs))
<1>1. Stored \in Ledgers(posted, hs) /\ goods \in Holdings
  BY KindsFacts
<1>2. Saved(Stored, p, goods) \in Ledgers(posted, hs)
  BY <1>1, LedgerOfRows
<1>3. SavedPlayer(p) \in Ledgers(posted, hs)
  BY <1>2, BinnedTypes, LedgerOfMails DEF SavedPlayer
<1> QED
  BY <1>3

LEMMA EventTypes ==
    ASSUME NEW hs, Kinds(hs)
    PROVE  /\ events \in 0..MaxEvents /\ MaxEvents \in Nat
           /\ Event => events' \in 0..MaxEvents
           /\ torn \in BOOLEAN /\ spoilt \in BOOLEAN
           /\ behind \in [Player -> 0..MaxQueue] /\ MaxQueue \in Nat
           /\ Len(disk) \in 1..MaxQueue + 1
BY MailAssumption DEF Kinds, TypeOK, MailTypeOK, Event

\* A step that hands over the transactions steps and gives out no mail.
LEMMA KindsOfSaving ==
    ASSUME NEW hs, Kinds(hs), UNCHANGED <<house, opened, won>>,
           posted' = posted, torn' = torn, behind' = behind,
           NEW steps \in Seq(Ledgers(posted, hs)), Execute(steps),
           phase' \in [Player -> {"out", "login", "in", "travel"}],
           goods' \in Holdings, box' \in [Player -> Boxes(posted, hs)],
           marked' \in [Player -> SUBSET (1..MaxMails)],
           spoilt' \in BOOLEAN, events' \in 0..MaxEvents
    PROVE  Kinds(hs)'
<1>1. /\ won' \in [1..MaxAuctions -> Player \cup {Nobody}]
      /\ house' \in SUBSET Offers
      /\ opened' \in opened..MaxAuctions
  BY AsWon
<1>2. posted' \in posted..MaxMails
  BY KindsFacts
<1>3. PICK gs : gs = hs
  OBVIOUS
<1>4. /\ hs \subseteq gs /\ gs \subseteq hs \cup (posted + 1 .. posted')
      /\ steps \in Seq(Ledgers(posted', gs)) /\ box' \in [Player -> Boxes(posted', gs)]
  BY <1>3
<1>5. Kinds(gs)'
  BY <1>1, <1>2, <1>4, KindsKept
<1> QED
  BY <1>3, <1>5

LEMMA SavePlayerTypes ==
    ASSUME NEW hs, Kinds(hs), NEW p \in Player, SavePlayer(p), UNCHANGED <<house, opened, won>>
    PROVE  Kinds(hs)'
<1>1. /\ Event /\ Execute(<<SavedPlayer(p)>>) /\ Emptied(p)
      /\ box' = [box EXCEPT ![p] = @ \ Binned(p)]
      /\ UNCHANGED <<phase, goods, behind, posted, torn, spoilt>>
  BY DEF SavePlayer
<1>2. /\ box \in [Player -> Boxes(posted, hs)] /\ goods \in Holdings
      /\ phase \in [Player -> {"out", "login", "in", "travel"}]
  BY KindsFacts
<1>3. box' \in [Player -> Boxes(posted, hs)]
  BY <1>1, <1>2, SomeMails
<1>4. spoilt' \in BOOLEAN /\ events' \in 0..MaxEvents
  BY <1>1, EventTypes
<1>5. marked' \in [Player -> SUBSET (1..MaxMails)]
  BY <1>1, EmptiedTypes
<1> QED
  BY <1>1, <1>2, <1>3, <1>4, <1>5, SavedPlayerTypes, KindsOfSaving

LEMMA LogoutTypes ==
    ASSUME NEW hs, Kinds(hs), NEW p \in Player, Logout(p), UNCHANGED <<house, opened, won>>
    PROVE  Kinds(hs)'
<1>1. /\ Event /\ Execute(<<SavedPlayer(p)>>) /\ Emptied(p)
      /\ phase' = [phase EXCEPT ![p] = "out"]
      /\ goods' = [goods EXCEPT !.bag[p] = {}, !.gold[p] = 0]
      /\ box' = [box EXCEPT ![p] = {}]
      /\ UNCHANGED <<behind, posted, torn, spoilt>>
  BY DEF Logout
<1>2. /\ box \in [Player -> Boxes(posted, hs)] /\ goods \in Holdings
      /\ phase \in [Player -> {"out", "login", "in", "travel"}] /\ MaxGold \in Nat
  BY KindsFacts
<1>3. box' \in [Player -> Boxes(posted, hs)]
  BY <1>1, <1>2, SomeMails
<1>4. spoilt' \in BOOLEAN /\ events' \in 0..MaxEvents
  BY <1>1, EventTypes
<1>5. marked' \in [Player -> SUBSET (1..MaxMails)]
  BY <1>1, EmptiedTypes
<1>6. goods' \in Holdings
  <2>1. /\ goods'.bag = [goods.bag EXCEPT ![p] = {}]
        /\ goods'.gold = [goods.gold EXCEPT ![p] = 0]
        /\ goods' = [bag |-> goods'.bag, gold |-> goods'.gold]
    BY <1>1, <1>2 DEF Holdings
  <2> QED
    BY <1>2, <2>1 DEF Holdings
<1>7. phase' \in [Player -> {"out", "login", "in", "travel"}]
  BY <1>1, <1>2
<1> QED
  BY <1>1, <1>3, <1>4, <1>5, <1>6, <1>7, SavedPlayerTypes, KindsOfSaving

LEMMA RequestLoginTypes ==
    ASSUME NEW hs, Kinds(hs), NEW p \in Player, RequestLogin(p), UNCHANGED <<house, opened, won>>
    PROVE  Kinds(hs)'
<1>1. PICK S : S = {m \in Stored.mails : m.to = p}
  OBVIOUS
<1>2. /\ phase' = [phase EXCEPT ![p] = "login"]
      /\ goods' = [goods EXCEPT !.bag[p] = Pack(Stored, p), !.gold[p] = Stored.gold[p]]
      /\ box' = [box EXCEPT ![p] = S]
      /\ behind' = [behind EXCEPT ![p] = Len(disk) - 1]
      /\ UNCHANGED <<marked, disk, posted, torn, spoilt, events>>
  BY <1>1 DEF RequestLogin
<1>3. /\ box \in [Player -> Boxes(posted, hs)] /\ goods \in Holdings
      /\ phase \in [Player -> {"out", "login", "in", "travel"}]
      /\ marked \in [Player -> SUBSET (1..MaxMails)]
      /\ Stored \in Ledgers(posted, hs) /\ Stored \in Tables
  BY KindsFacts
<1>4. S \in Boxes(posted, hs)
  BY <1>1, <1>3, FS_Subset DEF Ledgers, Boxes
<1>5. box' \in [Player -> Boxes(posted, hs)]
  BY <1>2, <1>3, <1>4
<1>6. goods' \in Holdings
  <2>1. Pack(Stored, p) \in SUBSET Item /\ Stored.gold[p] \in 0..MaxGold
    BY <1>3 DEF Pack, Tables
  <2> QED
    BY <1>2, <1>3, <2>1 DEF Holdings
<1>7. behind' \in [Player -> 0..MaxQueue] /\ events' \in 0..MaxEvents
  BY <1>2, EventTypes
<1>8. phase' \in [Player -> {"out", "login", "in", "travel"}]
  BY <1>2, <1>3
<1> QED
  BY <1>2, <1>3, <1>5, <1>6, <1>7, <1>8, KindsOfMemory

LEMMA PhaseTypes ==
    ASSUME NEW hs, Kinds(hs), NEW p \in Player, Login(p) \/ Depart(p) \/ Arrive(p),
           UNCHANGED <<house, opened, won>>
    PROVE  Kinds(hs)'
<1>1. /\ box \in [Player -> Boxes(posted, hs)] /\ goods \in Holdings
      /\ phase \in [Player -> {"out", "login", "in", "travel"}]
      /\ marked \in [Player -> SUBSET (1..MaxMails)]
  BY KindsFacts
<1>2. /\ phase' \in [Player -> {"out", "login", "in", "travel"}]
      /\ UNCHANGED <<goods, box, marked, behind, disk, posted, torn, spoilt>>
  BY <1>1 DEF Login, Depart, Arrive
<1>3. events' \in 0..MaxEvents
  BY EventTypes DEF Login, Depart, Arrive
<1>4. behind' \in [Player -> 0..MaxQueue]
  BY <1>2, EventTypes
<1> QED
  BY <1>1, <1>2, <1>3, <1>4, KindsOfMemory

LEMMA OldMailTypes ==
    ASSUME NEW hs, Kinds(hs), NEW m \in Committed.mails, ReturnOrDeleteOldMail(m),
           UNCHANGED <<house, opened, won>>
    PROVE  Kinds(hs)'
<1>1. PICK back : back = (m.items # {} /\ m.from # House /\ m.mark = "sent")
  OBVIOUS
<1>2. PICK e : e = IF back THEN Reversed(Stored, m) ELSE Erased(Stored, {m})
  OBVIOUS
<1>3. /\ Event /\ Execute(<<e>>)
      /\ spoilt' = (spoilt \/ m \notin Stored.mails \/ m.id \in Ids(box[m.to]))
      /\ UNCHANGED <<memory, posted, torn>>
  BY <1>1, <1>2 DEF ReturnOrDeleteOldMail, Spoiling
<1>4. /\ box \in [Player -> Boxes(posted, hs)] /\ goods \in Holdings
      /\ phase \in [Player -> {"out", "login", "in", "travel"}]
      /\ marked \in [Player -> SUBSET (1..MaxMails)]
      /\ Stored \in Ledgers(posted, hs) /\ m \in Marked(posted, hs)
  BY KindsFacts
<1>5. m \in Mails
  BY <1>4 DEF Marked
<1>6. e \in Ledgers(posted, hs)
  <2>1. CASE back
    BY <1>1, <1>2, <1>4, <2>1, LedgerReversed
  <2>2. CASE ~back
    BY <1>2, <1>4, <1>5, <2>2, LedgerOfMails
  <2> QED
    BY <2>1, <2>2
<1>7. spoilt' \in BOOLEAN /\ events' \in 0..MaxEvents
  BY <1>3, EventTypes
<1>8. <<e>> \in Seq(Ledgers(posted, hs))
  BY <1>6
<1> QED
  BY <1>3, <1>4, <1>7, <1>8, KindsOfSaving DEF memory

LEMMA CommitTypes ==
    ASSUME NEW hs, Kinds(hs), Commit, UNCHANGED <<house, opened, won>>
    PROVE  Kinds(hs)'
<1>1. /\ Len(disk) > 1 /\ disk' = Tail(disk)
      /\ behind' = [p \in Player |-> IF behind[p] = 0 THEN 0 ELSE behind[p] - 1]
      /\ UNCHANGED <<phase, goods, box, marked, posted, torn, spoilt, events>>
  BY DEF Commit
<1>2. /\ disk \in Seq(Ledgers(posted, hs)) /\ disk \in Seq(Tables)
      /\ Len(disk) \in 1..MaxQueue + 1 /\ MaxQueue \in Nat
      /\ behind \in [Player -> 0..MaxQueue]
  BY EventTypes DEF Kinds, TypeOK
<1>3. PICK S : S = Ledgers(posted, hs)
  OBVIOUS
<1>4. disk' \in Seq(S) /\ disk' \in Seq(Tables) /\ Len(disk') \in 1..MaxQueue + 1
  BY <1>1, <1>2, <1>3
<1>5. behind' \in [Player -> 0..MaxQueue]
  BY <1>1, <1>2
<1>6. TypeOK'
  BY <1>1, <1>4, <1>5 DEF Kinds, TypeOK, MailTypeOK
<1> QED
  BY <1>1, <1>3, <1>4, <1>6 DEF Kinds

-----------------------------------------------------------------------------
(* Types: the handlers of the auction house, whose mails are marked.       *)

LEMMA OfferFacts ==
    ASSUME NEW hs, Kinds(hs), NEW a \in house
    PROVE  /\ a \in Offers /\ a \in Auctions /\ Fair(a)
           /\ a.bid \in Nat /\ a.buyout \in Nat /\ a.owner \in Player /\ a.id \in 1..MaxAuctions
           /\ a.item \in Item \cup {NoItem} /\ a.bidder \in Player \cup {Nobody}
           /\ a.sold \in BOOLEAN
<1>1. a \in Offers /\ a \in Auctions /\ Fair(a)
  BY KindsFacts DEF Offers
<1>2. /\ a.bid \in Nat /\ a.buyout \in Buyouts /\ a.owner \in Player /\ a.id \in 1..MaxAuctions
      /\ a.item \in Item \cup {NoItem} /\ a.bidder \in Player \cup {Nobody}
      /\ a.sold \in BOOLEAN
  BY <1>1 DEF Auctions
<1>3. a.buyout \in Nat
  BY <1>2, AuctionAssumption
<1> QED
  BY <1>1, <1>2, <1>3

LEMMA HouseLetter ==
    ASSUME NEW hs, Kinds(hs), NEW n \in {1, 2}, NEW t \in Nat, posted + n <= t, t <= MaxMails,
           NEW gs, gs = hs \cup (posted + 1 .. t),
           NEW to \in Player, NEW items \in SUBSET Item, NEW money \in Nat
    PROVE  Letter(n, House, to, items, money) \in Marked(t, gs)
<1>1. PICK m : m = Letter(n, House, to, items, money)
  OBVIOUS
<1>2. posted \in Nat /\ MaxMails \in Nat /\ House \in Player \cup {House}
  BY KindsFacts
<1>3. posted + n <= MaxMails
  BY <1>2
<1>4. m \in Mails /\ m.id = posted + n /\ m.from = House /\ m.cod = 0
  BY <1>1, <1>2, <1>3, Written
<1>5. m.id \in gs /\ m.id <= t
  BY <1>2, <1>4
<1> QED
  BY <1>1, <1>4, <1>5 DEF Marked

LEMMA KindsOfHouse ==
    ASSUME NEW hs, Kinds(hs), posted' \in posted..MaxMails, opened' \in opened..MaxAuctions,
           NEW gs, gs = hs \cup (posted + 1 .. posted'),
           NEW steps \in Seq(Ledgers(posted', gs)), NEW M \in Boxes(posted', gs),
           MailAndSave(M, steps), goods' \in Holdings,
           won' \in [1..MaxAuctions -> Player \cup {Nobody}],
           house' \in SUBSET Offers
    PROVE  Kinds(gs)'
<1>1. box' = Delivered(box, M) /\ Execute(steps) /\ Quiet /\ marked' = marked
  BY DEF MailAndSave
<1>2. /\ phase' \in [Player -> {"out", "login", "in", "travel"}]
      /\ behind' = behind /\ torn' = torn
      /\ spoilt' \in BOOLEAN /\ events' \in 0..MaxEvents
  BY <1>1, QuietTypes
<1>3. marked' \in [Player -> SUBSET (1..MaxMails)]
  BY <1>1, KindsFacts
<1>4. box' \in [Player -> Boxes(posted', gs)]
  <2>1. posted \in Nat /\ MaxMails \in Nat
    BY KindsFacts
  <2>2. posted' \in Nat /\ posted <= posted'
    BY <2>1
  <2>3. box \in [Player -> Boxes(posted', gs)]
    BY <2>2, KindsGrow
  <2> QED
    BY <1>1, <2>3, BoxesFilled
<1>5. hs \subseteq gs /\ gs \subseteq hs \cup (posted + 1 .. posted')
  OBVIOUS
<1> QED
  BY <1>1, <1>2, <1>3, <1>4, <1>5, KindsKept

LEMMA RefundTypes ==
    ASSUME NEW hs, Kinds(hs), NEW k \in 0..1, NEW a \in house, k = 0 \/ a.bidder \in Player,
           NEW t \in Nat, posted + k <= t, t <= MaxMails,
           NEW gs, gs = hs \cup (posted + 1 .. t)
    PROVE  /\ Refunds(k, a) \in Boxes(t, gs)
           /\ Refunded(k, a) \in Ledgers(t, gs)
           /\ Refunding(k, a) \in Seq(Ledgers(t, gs))
<1>1. posted \in Nat
  BY KindsFacts
<1>2. Stored \in Ledgers(t, gs)
  BY <1>1, KindsGrow
<1>3. CASE k = 0
  BY <1>2, <1>3, SomeMails DEF Refunds, Refunded, Refunding
<1>4. CASE k = 1
  <2>1. PICK m : m = Refund(1, a)
    OBVIOUS
  <2>2. PICK I \in SUBSET Item, v \in Nat, to \in Player : I = {} /\ v = a.bid /\ to = a.bidder
    <3>1. a.bidder \in Player
      BY <1>4
    <3>2. a.bid \in Nat
      BY OfferFacts
    <3> QED
      BY <3>1, <3>2
  <2>3. 1 \in {1, 2} /\ posted + 1 <= t
    BY <1>4
  <2>4. Letter(1, House, to, I, v) \in Marked(t, gs)
    BY <2>3, HouseLetter
  <2>5. m \in Marked(t, gs)
    BY <2>1, <2>2, <2>4 DEF Refund, HouseMail
  <2>6. /\ Refunds(k, a) = {m} /\ Refunded(k, a) = Inserted(Stored, m)
        /\ Refunding(k, a) = <<Inserted(Stored, m)>>
    BY <1>4, <2>1 DEF Refunds, Refunded, Refunding
  <2>7. Inserted(Stored, m) \in Ledgers(t, gs)
    BY <1>2, <2>5, LedgerOfMails
  <2>8. {m} \in Boxes(t, gs)
    BY <2>5, SomeMails
  <2> QED
    BY <2>6, <2>7, <2>8
<1> QED
  BY <1>3, <1>4

LEMMA RefundsAndOne ==
    ASSUME posted \in Nat, NEW k \in 0..1, NEW a, NEW M, M = Refunds(k, a),
           NEW to, NEW items, NEW money,
           NEW y, y = Letter(Cardinality(M) + 1, House, to, items, money)
    PROVE  /\ Cardinality(M) = k
           /\ Post(M \cup {y}) => posted' = posted + k + 1 /\ posted + k + 1 <= MaxMails
<1>1. PICK x : x = Refund(1, a)
  OBVIOUS
<1>2. M = IF k = 0 THEN {} ELSE {x}
  BY <1>1 DEF Refunds
<1>3. x.id = posted + 1
  BY <1>1 DEF Refund, HouseMail, Letter
<1>4. Cardinality(M) = k
  <2>1. CASE k = 0
    BY <1>2, <2>1, FS_EmptySet
  <2>2. CASE k = 1
    <3>1. M = {x}
      BY <1>2, <2>2
    <3> QED
      BY <2>2, <3>1, FS_Singleton, Zenon
  <2> QED
    BY <2>1, <2>2
<1>5. y.id = posted + (k + 1)
  BY <1>4 DEF Letter
<1>6. y \notin M
  BY <1>2, <1>3, <1>5
<1> QED
  BY <1>2, <1>4, <1>6, PostedMore, Zenon

LEMMA SellItemTypes ==
    ASSUME NEW hs, Kinds(hs), NEW p \in Player, NEW i \in Item, NEW start \in StartBids,
           NEW buyout \in Buyouts, SellItem(p, i, start, buyout)
    PROVE  \E gs : Kinds(gs)'
<1>1. PICK a : a = [id |-> opened + 1, owner |-> p, item |-> i, start |-> start,
                    buyout |-> buyout, bid |-> 0, bidder |-> Nobody, sold |-> FALSE]
  OBVIOUS
<1>2. PICK g : g = [goods EXCEPT !.bag[p] = @ \ {i}, !.gold[p] = @ - Deposit]
  OBVIOUS
<1>3. PICK e : e = Saved(Put(Lost(Stored, {i}), a), p, g)
  OBVIOUS
<1>4. /\ goods.gold[p] >= Deposit
      /\ opened < MaxAuctions /\ opened' = opened + 1 /\ goods' = g
      /\ house' = house \cup {a} /\ MailAndSave({}, <<e>>) /\ won' = won
  <2>1. a.id = opened + 1
    BY <1>1
  <2> QED
    BY <1>1, <1>2, <1>3, <2>1 DEF SellItem
<1>5. /\ posted \in Nat /\ opened \in Nat /\ posted <= MaxMails
      /\ goods \in Holdings /\ goods.bag \in [Player -> SUBSET Item]
      /\ goods.gold \in [Player -> 0..MaxGold]
      /\ MaxGold \in Nat /\ MaxMails \in Nat
      /\ Deposit \in Nat /\ MaxAuctions \in Nat /\ NoItem \notin Item
      /\ start \in Nat /\ buyout \in Nat /\ house \in SUBSET Offers
  BY KindsFacts, AuctionAssumption
<1>6. a \in Offers
  <2>1. opened + 1 \in 1..MaxAuctions
    BY <1>4, <1>5
  <2>2. a \in Auctions
    BY <1>1, <2>1 DEF Auctions
  <2>3. Fair(a)
    BY <1>1, <1>5 DEF Fair
  <2> QED
    BY <2>2, <2>3 DEF Offers
<1>7. g \in Holdings
  <2>1. /\ g.bag = [goods.bag EXCEPT ![p] = @ \ {i}]
        /\ g.gold = [goods.gold EXCEPT ![p] = @ - Deposit]
        /\ g = [bag |-> g.bag, gold |-> g.gold]
    BY <1>2, <1>5 DEF Holdings
  <2>2. goods.gold[p] - Deposit \in 0..MaxGold
    BY <1>4, <1>5
  <2> QED
    BY <1>5, <2>1, <2>2 DEF Holdings
<1>8. posted' = posted /\ posted' \in posted..MaxMails /\ opened' \in opened..MaxAuctions
  BY <1>4, <1>5, Posted DEF MailAndSave
<1>9. PICK gs : gs = hs \cup (posted + 1 .. posted')
  OBVIOUS
<1>10. Stored \in Ledgers(posted', gs)
  BY <1>5, <1>8, <1>9, KindsGrow
<1>11. e \in Ledgers(posted', gs)
  <2>1. Lost(Stored, {i}) \in Ledgers(posted', gs)
    BY <1>10, LedgerOfRows
  <2>2. Put(Lost(Stored, {i}), a) \in Ledgers(posted', gs)
    BY <1>6, <2>1, LedgerOfAuctions
  <2> QED
    BY <1>3, <1>7, <2>2, LedgerOfRows
<1>12. <<e>> \in Seq(Ledgers(posted', gs)) /\ {} \in Boxes(posted', gs)
  BY <1>11, SomeMails
<1>13. won' \in [1..MaxAuctions -> Player \cup {Nobody}]
  BY <1>4 DEF Kinds, TypeOK
<1>14. house' \in SUBSET Offers
  BY <1>4, <1>5, <1>6
<1>15. Kinds(gs)'
  BY <1>4, <1>7, <1>8, <1>9, <1>12, <1>13, <1>14, KindsOfHouse
<1> QED
  BY <1>15

LEMMA EndAuctionTypes ==
    ASSUME NEW hs, Kinds(hs), NEW a \in house, NEW to \in Player, NEW items \in SUBSET Item,
           NEW money \in Nat, NEW lost \in Nat,
           EndAuction(a, HouseMail(1, to, items, money), lost)
    PROVE  \E gs : Kinds(gs)'
<1>1. PICK m : m = Letter(1, House, to, items, money)
  OBVIOUS
<1>2. PICK s : s = Inserted(Stored, m)
  OBVIOUS
<1>3. PICK e : e = Spent(Removed(s, a), lost)
  OBVIOUS
<1>4. /\ house' = house \ {a} /\ MailAndSave({m}, <<s, e>>)
      /\ goods' = goods /\ opened' = opened /\ won' = won
  BY <1>1, <1>2, <1>3 DEF EndAuction, HouseMail
<1>5. /\ posted \in Nat /\ MaxMails \in Nat /\ goods \in Holdings /\ house \in SUBSET Offers
  BY KindsFacts
<1>6. /\ won' \in [1..MaxAuctions -> Player \cup {Nobody}] /\ opened' \in opened..MaxAuctions
  BY <1>4, AuctionAssumption DEF Kinds, TypeOK
<1>7. posted' = posted + 1 /\ posted + 1 <= MaxMails
  BY <1>4, <1>5, Posted DEF MailAndSave
<1>8. PICK gs : gs = hs \cup (posted + 1 .. posted')
  OBVIOUS
<1>9. posted' \in Nat /\ posted <= posted' /\ posted' \in posted..MaxMails /\ 1 \in {1, 2}
  BY <1>5, <1>7
<1>10. Stored \in Ledgers(posted', gs)
  BY <1>8, <1>9, KindsGrow
<1>11. m \in Marked(posted', gs)
  BY <1>1, <1>7, <1>8, <1>9, HouseLetter
<1>12. s \in Ledgers(posted', gs)
  BY <1>2, <1>10, <1>11, LedgerOfMails
<1>13. e \in Ledgers(posted', gs)
  <2>1. Removed(s, a) \in Ledgers(posted', gs)
    BY <1>12, OfferFacts, LedgerOfAuctions
  <2> QED
    BY <1>3, <2>1, LedgerOfRows
<1>14. <<s, e>> \in Seq(Ledgers(posted', gs)) /\ {m} \in Boxes(posted', gs)
  BY <1>11, <1>12, <1>13, SomeMails
<1>15. house' \in SUBSET Offers /\ goods' \in Holdings
  BY <1>4, <1>5
<1>16. Kinds(gs)'
  BY <1>4, <1>6, <1>8, <1>9, <1>14, <1>15, KindsOfHouse
<1> QED
  BY <1>16

LEMMA PaySellerTypes ==
    ASSUME CutPercent <= 100, NEW hs, Kinds(hs), NEW a \in house, PaySeller(a)
    PROVE  \E gs : Kinds(gs)'
<1>1. a.bid \in Nat /\ a.owner \in Player
  BY OfferFacts
<1>2. Cut(a) \in Nat /\ Cut(a) <= a.bid /\ Deposit \in Nat
  BY <1>1, CutFacts, AuctionAssumption
<1>3. PICK money : money = a.bid + Deposit - Cut(a)
  OBVIOUS
<1>4. money \in Nat
  BY <1>1, <1>2, <1>3
<1>5. {} \in SUBSET Item /\ EndAuction(a, HouseMail(1, a.owner, {}, money), Cut(a))
  BY <1>3 DEF PaySeller
<1> QED
  BY <1>1, <1>2, <1>4, <1>5, EndAuctionTypes

LEMMA ReturnUnsoldTypes ==
    ASSUME NEW hs, Kinds(hs), NEW a \in house, ReturnUnsold(a)
    PROVE  \E gs : Kinds(gs)'
<1>1. Fair(a) /\ a.owner \in Player /\ a.item \in Item \cup {NoItem}
  BY OfferFacts
<1>2. Deposit \in Nat /\ 0 \in Nat /\ ~a.sold
  BY AuctionAssumption DEF ReturnUnsold
<1>3. {a.item} \in SUBSET Item
  BY <1>1, <1>2 DEF Fair
<1>4. EndAuction(a, HouseMail(1, a.owner, {a.item}, 0), Deposit)
  BY DEF ReturnUnsold
<1> QED
  BY <1>1, <1>2, <1>3, <1>4, EndAuctionTypes

\* What the bidder has is saved in d, which is the tables with the refund but
\* for that.
LEMMA BidWinningTypes ==
    ASSUME NEW hs, Kinds(hs), NEW old \in house, NEW k \in 0..1, k = 0 \/ old.bidder \in Player,
           NEW M, M = Refunds(k, old), NEW before, before = Refunding(k, old),
           NEW a \in Auctions, a.bidder \in Player, a.bid # 0, a.buyout # 0 => a.bid <= a.buyout,
           goods' \in Holdings, opened' = opened,
           NEW d, \A t, gs : Refunded(k, old) \in Ledgers(t, gs) => d \in Ledgers(t, gs),
           BidWinning(old, a, d, M, before)
    PROVE  \E gs : Kinds(gs)'
<1>1. PICK sold : sold = [a EXCEPT !.sold = TRUE, !.item = NoItem]
  OBVIOUS
<1>2. PICK prize : prize = Letter(Cardinality(M) + 1, House, a.bidder, {a.item}, 0)
  OBVIOUS
<1>3. PICK row : row = Changed(d, sold)
  OBVIOUS
<1>4. PICK e : e = Inserted(row, prize)
  OBVIOUS
<1>5. /\ house' = (house \ {old}) \cup {sold}
      /\ \/ a.item = NoItem /\ MailAndSave(M, before \o <<row>>) /\ won' = won
         \/ /\ a.item # NoItem /\ MailAndSave(M \cup {prize}, before \o <<row, e>>)
            /\ won' = [won EXCEPT ![a.id] = a.bidder]
  BY <1>1, <1>2, <1>3, <1>4, Zenon DEF BidWinning, Replaced, HouseMail
<1>6. /\ posted \in Nat /\ MaxMails \in Nat /\ posted <= MaxMails /\ house \in SUBSET Offers
      /\ opened \in 0..MaxAuctions /\ MaxAuctions \in Nat
      /\ won \in [1..MaxAuctions -> Player \cup {Nobody}] /\ k \in Nat
  <2>1. posted \in Nat /\ MaxMails \in Nat /\ posted <= MaxMails /\ house \in SUBSET Offers
    BY KindsFacts
  <2>2. opened \in 0..MaxAuctions /\ won \in [1..MaxAuctions -> Player \cup {Nobody}]
    BY DEF Kinds, TypeOK
  <2> QED
    BY <2>1, <2>2, AuctionAssumption
<1>7. sold \in Offers
  <2>1. /\ sold \in Auctions /\ sold.item = NoItem /\ sold.bid = a.bid
        /\ sold.bidder = a.bidder /\ sold.buyout = a.buyout /\ sold.sold = TRUE
    BY <1>1 DEF Auctions
  <2>2. Nobody \notin Player
    BY KindsFacts
  <2>3. Fair(sold)
    BY <2>1, <2>2 DEF Fair
  <2> QED
    BY <2>1, <2>3 DEF Offers
<1>8. house' \in SUBSET Offers /\ opened' \in opened..MaxAuctions
  BY <1>5, <1>6, <1>7
<1>9. a.id \in 1..MaxAuctions /\ a.item \in Item \cup {NoItem}
  BY DEF Auctions
<1>10. won' \in [1..MaxAuctions -> Player \cup {Nobody}]
  BY <1>5, <1>6, <1>9
<1>11. Cardinality(M) = k /\ (Post(M \cup {prize}) => posted' = posted + k + 1 /\ posted + k + 1 <= MaxMails)
  BY <1>2, <1>6, RefundsAndOne
<1>12. Post(M) => posted' = posted + k /\ posted + k <= MaxMails
  BY <1>6, RefundsPosted
<1>13. PICK gs : gs = hs \cup (posted + 1 .. posted')
  OBVIOUS
\* What both cases begin with.
<1>14. ASSUME posted' \in Nat, posted + k <= posted', posted' <= MaxMails
       PROVE  /\ M \in Boxes(posted', gs) /\ before \in Seq(Ledgers(posted', gs))
              /\ row \in Ledgers(posted', gs) /\ posted' \in posted..MaxMails
  <2>1. /\ Refunds(k, old) \in Boxes(posted', gs) /\ Refunded(k, old) \in Ledgers(posted', gs)
        /\ Refunding(k, old) \in Seq(Ledgers(posted', gs))
    BY <1>13, <1>14, RefundTypes
  <2>2. d \in Ledgers(posted', gs)
    BY <2>1
  <2>3. row \in Ledgers(posted', gs)
    BY <1>3, <1>7, <2>2, LedgerOfAuctions
  <2>4. posted' \in posted..MaxMails
    BY <1>6, <1>14
  <2> QED
    BY <2>1, <2>3, <2>4
<1>15. CASE a.item = NoItem /\ MailAndSave(M, before \o <<row>>)
  <2>1. posted' = posted + k /\ posted + k <= MaxMails
    BY <1>12, <1>15 DEF MailAndSave
  <2>2. posted' \in Nat /\ posted + k <= posted' /\ posted' <= MaxMails
    BY <1>6, <2>1
  <2>3. /\ M \in Boxes(posted', gs) /\ before \in Seq(Ledgers(posted', gs))
        /\ row \in Ledgers(posted', gs) /\ posted' \in posted..MaxMails
    BY <1>14, <2>2
  <2>4. before \o <<row>> \in Seq(Ledgers(posted', gs))
    BY <2>3, Ends
  <2>5. Kinds(gs)'
    BY <1>8, <1>10, <1>13, <1>15, <2>3, <2>4, KindsOfHouse
  <2> QED
    BY <2>5
<1>16. CASE a.item # NoItem /\ MailAndSave(M \cup {prize}, before \o <<row, e>>)
  <2>1. posted' = posted + k + 1 /\ posted + k + 1 <= MaxMails
    BY <1>11, <1>16 DEF MailAndSave
  <2>2. posted' \in Nat /\ posted + k <= posted' /\ posted' <= MaxMails
    BY <1>6, <2>1
  <2>3. /\ M \in Boxes(posted', gs) /\ before \in Seq(Ledgers(posted', gs))
        /\ row \in Ledgers(posted', gs) /\ posted' \in posted..MaxMails
    BY <1>14, <2>2
  <2>4. prize \in Marked(posted', gs)
    <3>1. PICK n \in {1, 2} : n = k + 1
      OBVIOUS
    <3>2. posted + n <= posted' /\ prize = Letter(n, House, a.bidder, {a.item}, 0)
      BY <1>2, <1>6, <1>11, <2>1, <3>1
    <3>3. {a.item} \in SUBSET Item /\ 0 \in Nat
      BY <1>9, <1>16
    <3> QED
      BY <1>13, <2>2, <3>2, <3>3, HouseLetter
  <2>5. e \in Ledgers(posted', gs)
    BY <1>4, <2>3, <2>4, LedgerOfMails
  <2>6. before \o <<row, e>> \in Seq(Ledgers(posted', gs))
    BY <2>3, <2>5, EndsTwo
  <2>7. M \cup {prize} \in Boxes(posted', gs)
    BY <2>3, <2>4, SomeMails
  <2>8. Kinds(gs)'
    BY <1>8, <1>10, <1>13, <1>16, <2>3, <2>6, <2>7, KindsOfHouse
  <2> QED
    BY <2>8
<1> QED
  BY <1>5, <1>15, <1>16

LEMMA GiveToBidderTypes ==
    ASSUME NEW hs, Kinds(hs), NEW a \in house, GiveToBidder(a)
    PROVE  \E gs : Kinds(gs)'
<1>1. BidWinning(a, a, Stored, {}, <<>>) /\ goods' = goods /\ opened' = opened /\ a.bid # 0
  BY DEF GiveToBidder
<1>2. /\ a \in Auctions /\ Fair(a) /\ a.bidder \in Player \cup {Nobody}
  BY OfferFacts
<1>3. a.bidder \in Player /\ (a.buyout # 0 => a.bid <= a.buyout)
  BY <1>1, <1>2 DEF Fair
<1>4. PICK k \in 0..1 : k = 0
  OBVIOUS
<1>5. {} = Refunds(k, a) /\ <<>> = Refunding(k, a) /\ Stored = Refunded(k, a)
  BY <1>4 DEF Refunds, Refunding, Refunded
<1>6. \A t, gs : Refunded(k, a) \in Ledgers(t, gs) => Stored \in Ledgers(t, gs)
  BY <1>5
<1>7. goods' \in Holdings
  BY <1>1, KindsFacts
<1> QED
  BY <1>1, <1>2, <1>3, <1>4, <1>5, <1>6, <1>7, BidWinningTypes

LEMMA PlaceBidTypes ==
    ASSUME NEW hs, Kinds(hs), NEW p \in Player, NEW a \in house, NEW price \in 1..MaxGold,
           PlaceBid(p, a, price)
    PROVE  \E gs : Kinds(gs)'
<1>1. PICK bid : bid = IF a.buyout # 0 /\ price > a.buyout THEN a.buyout ELSE price
  OBVIOUS
<1>2. PICK cost : cost = IF a.bidder = p THEN bid - a.bid ELSE bid
  OBVIOUS
<1>3. PICK k \in 0..1 : k = IF a.bidder \in {p, Nobody} THEN 0 ELSE 1
  OBVIOUS
<1>4. PICK M : M = Refunds(k, a)
  OBVIOUS
<1>5. PICK r : r = Refunded(k, a)
  OBVIOUS
<1>6. PICK before : before = Refunding(k, a)
  OBVIOUS
<1>7. PICK b : b = [a EXCEPT !.bid = bid, !.bidder = p]
  OBVIOUS
<1>8. PICK g : g = [goods EXCEPT !.gold[p] = @ - cost]
  OBVIOUS
<1>9. PICK e : e = Saved(Changed(r, b), p, g)
  OBVIOUS
<1>10. PICK w : w = Saved(r, p, g)
  OBVIOUS
<1>11. /\ Acceptable(p, a, price) /\ goods' = g /\ opened' = opened
       /\ \/ /\ house' = (house \ {a}) \cup {b} /\ MailAndSave(M, before \o <<e>>)
             /\ won' = won
          \/ BidWinning(a, b, w, M, before)
  <2>1. M = IF a.bidder \in {p, Nobody} THEN {} ELSE {Refund(1, a)}
    BY <1>3, <1>4 DEF Refunds
  <2>2. /\ r = IF M = {} THEN Stored ELSE Inserted(Stored, Refund(1, a))
        /\ before = IF M = {} THEN <<>> ELSE <<r>>
    BY <1>4, <1>5, <1>6 DEF Refunds, Refunded, Refunding
  <2> QED
    BY <1>1, <1>2, <1>7, <1>8, <1>9, <1>10, <2>1, <2>2, Zenon DEF PlaceBid, Replaced
<1>12. /\ posted \in Nat /\ posted <= MaxMails /\ MaxMails \in Nat
       /\ goods \in Holdings /\ goods.bag \in [Player -> SUBSET Item]
       /\ goods.gold \in [Player -> 0..MaxGold] /\ MaxGold \in Nat
       /\ house \in SUBSET Offers /\ Nobody \notin Player
  BY KindsFacts
<1>13. /\ a \in Auctions /\ Fair(a) /\ a.bid \in Nat /\ a.buyout \in Nat
       /\ a.bidder \in Player \cup {Nobody}
  BY OfferFacts
<1>14. /\ bid \in Nat /\ bid # 0 /\ bid >= a.bid /\ bid <= goods.gold[p]
       /\ a.buyout # 0 => bid <= a.buyout
  <2>1. price \in Nat /\ price # 0 /\ price > a.bid /\ price <= goods.gold[p]
    BY <1>11, <1>12 DEF Acceptable
  <2>2. a.buyout # 0 => a.bid <= a.buyout
    BY <1>13 DEF Fair
  <2>3. goods.gold[p] \in Nat
    BY <1>12
  <2> QED
    BY <1>1, <1>13, <2>1, <2>2, <2>3
<1>15. cost \in Nat /\ cost <= goods.gold[p]
  <2>1. goods.gold[p] \in Nat
    BY <1>12
  <2> QED
    BY <1>2, <1>13, <1>14, <2>1
<1>16. g \in Holdings
  <2>1. /\ g.bag = goods.bag /\ g.gold = [goods.gold EXCEPT ![p] = @ - cost]
        /\ g = [bag |-> g.bag, gold |-> g.gold]
    BY <1>8, <1>12 DEF Holdings
  <2>2. goods.gold[p] - cost \in 0..MaxGold
    BY <1>12, <1>15
  <2> QED
    BY <1>12, <2>1, <2>2 DEF Holdings
<1>17. /\ b \in Auctions /\ b.bid = bid /\ b.bidder = p /\ b.buyout = a.buyout /\ b \in Offers
  <2>1. /\ b \in Auctions /\ b.item = a.item /\ b.bid = bid /\ b.bidder = p
        /\ b.buyout = a.buyout /\ b.sold = a.sold
    BY <1>7, <1>13, <1>14 DEF Auctions
  <2>2. Fair(b)
    BY <1>12, <1>13, <1>14, <2>1 DEF Fair
  <2> QED
    BY <2>1, <2>2 DEF Offers
<1>18. k \in Nat /\ (k = 0 \/ a.bidder \in Player)
  BY <1>3, <1>13
<1>19. CASE BidWinning(a, b, w, M, before)
  <2>1. \A t, gs : Refunded(k, a) \in Ledgers(t, gs) => w \in Ledgers(t, gs)
    BY <1>5, <1>10, <1>16, LedgerOfRows
  <2>2. b.bidder \in Player /\ b.bid # 0 /\ (b.buyout # 0 => b.bid <= b.buyout)
    BY <1>14, <1>17
  <2>3. goods' \in Holdings /\ opened' = opened
    BY <1>11, <1>16
  <2> QED
    BY <1>4, <1>6, <1>17, <1>18, <1>19, <2>1, <2>2, <2>3, BidWinningTypes
<1>20. CASE /\ house' = (house \ {a}) \cup {b} /\ MailAndSave(M, before \o <<e>>)
            /\ won' = won
  <2>1. posted' = posted + k /\ posted + k <= MaxMails
    BY <1>4, <1>12, <1>20, RefundsPosted DEF MailAndSave
  <2>2. /\ posted' \in Nat /\ posted + k <= posted' /\ posted' <= MaxMails
        /\ posted' \in posted..MaxMails
    BY <1>12, <1>18, <2>1
  <2>3. PICK gs : gs = hs \cup (posted + 1 .. posted')
    OBVIOUS
  <2>4. /\ M \in Boxes(posted', gs) /\ r \in Ledgers(posted', gs)
        /\ before \in Seq(Ledgers(posted', gs))
    BY <1>4, <1>5, <1>6, <1>18, <2>2, <2>3, RefundTypes
  <2>5. e \in Ledgers(posted', gs)
    <3>1. Changed(r, b) \in Ledgers(posted', gs)
      BY <1>17, <2>4, LedgerOfAuctions
    <3> QED
      BY <1>9, <1>16, <3>1, LedgerOfRows
  <2>6. before \o <<e>> \in Seq(Ledgers(posted', gs))
    BY <2>4, <2>5, Ends
  <2>7. /\ won' \in [1..MaxAuctions -> Player \cup {Nobody}] /\ opened' \in opened..MaxAuctions
    BY <1>11, <1>20, AuctionAssumption DEF Kinds, TypeOK
  <2>8. house' \in SUBSET Offers /\ goods' \in Holdings
    BY <1>11, <1>12, <1>16, <1>17, <1>20
  <2>9. Kinds(gs)'
    BY <1>20, <2>2, <2>3, <2>4, <2>6, <2>7, <2>8, KindsOfHouse
  <2> QED
    BY <2>9
<1> QED
  BY <1>11, <1>19, <1>20

LEMMA RemoveAuctionTypes ==
    ASSUME NEW hs, Kinds(hs), NEW p \in Player, NEW a \in house, RemoveAuction(p, a)
    PROVE  \E gs : Kinds(gs)'
<1>1. PICK fee : fee = Cut(a)
  OBVIOUS
<1>2. PICK k \in 0..1 : k = IF a.bidder = Nobody THEN 0 ELSE 1
  OBVIOUS
<1>3. PICK M : M = Refunds(k, a)
  OBVIOUS
<1>4. PICK r : r = Refunded(k, a)
  OBVIOUS
<1>5. PICK before : before = Refunding(k, a)
  OBVIOUS
<1>6. PICK item : item = Letter(Cardinality(M) + 1, House, p, {a.item}, 0)
  OBVIOUS
<1>7. PICK g : g = [goods EXCEPT !.gold[p] = @ - fee]
  OBVIOUS
<1>8. PICK s : s = Inserted(r, item)
  OBVIOUS
<1>9. PICK e : e = Spent(Saved(Removed(s, a), p, g), fee + Deposit)
  OBVIOUS
<1>10. /\ a.item # NoItem /\ goods.gold[p] >= fee /\ goods' = g
       /\ house' = house \ {a} /\ MailAndSave(M \cup {item}, before \o <<s, e>>)
       /\ opened' = opened /\ won' = won
  <2>1. M = IF a.bidder = Nobody THEN {} ELSE {Refund(1, a)}
    BY <1>2, <1>3 DEF Refunds
  <2>2. /\ r = IF M = {} THEN Stored ELSE Inserted(Stored, Refund(1, a))
        /\ before = IF M = {} THEN <<>> ELSE <<r>>
    BY <1>3, <1>4, <1>5 DEF Refunds, Refunded, Refunding
  <2> QED
    BY <1>1, <1>6, <1>7, <1>8, <1>9, <2>1, <2>2, Zenon DEF RemoveAuction, HouseMail
<1>11. /\ posted \in Nat /\ posted <= MaxMails /\ MaxMails \in Nat
       /\ goods \in Holdings /\ goods.bag \in [Player -> SUBSET Item]
       /\ goods.gold \in [Player -> 0..MaxGold] /\ MaxGold \in Nat
       /\ house \in SUBSET Offers /\ Deposit \in Nat
  BY KindsFacts, AuctionAssumption
<1>12. /\ a \in Offers /\ a.bid \in Nat /\ a.bidder \in Player \cup {Nobody}
       /\ a.item \in Item
  BY <1>10, OfferFacts
<1>13. fee \in Nat
  BY <1>1, <1>12, CutFacts
<1>14. g \in Holdings
  <2>1. /\ g.bag = goods.bag /\ g.gold = [goods.gold EXCEPT ![p] = @ - fee]
        /\ g = [bag |-> g.bag, gold |-> g.gold]
    BY <1>7, <1>11 DEF Holdings
  <2>2. goods.gold[p] - fee \in 0..MaxGold
    BY <1>10, <1>11, <1>13
  <2> QED
    BY <1>11, <2>1, <2>2 DEF Holdings
<1>15. k \in Nat /\ (k = 0 \/ a.bidder \in Player)
  BY <1>2, <1>12
<1>16. Cardinality(M) = k /\ posted' = posted + k + 1 /\ posted + k + 1 <= MaxMails
  BY <1>3, <1>6, <1>10, <1>11, RefundsAndOne DEF MailAndSave
<1>17. /\ posted' \in Nat /\ posted + k <= posted' /\ posted' <= MaxMails
       /\ posted' \in posted..MaxMails
  BY <1>11, <1>15, <1>16
<1>18. PICK gs : gs = hs \cup (posted + 1 .. posted')
  OBVIOUS
<1>19. /\ M \in Boxes(posted', gs) /\ r \in Ledgers(posted', gs)
       /\ before \in Seq(Ledgers(posted', gs))
  BY <1>3, <1>4, <1>5, <1>15, <1>17, <1>18, RefundTypes
<1>20. item \in Marked(posted', gs)
  <2>1. PICK n \in {1, 2} : n = k + 1
    OBVIOUS
  <2>2. posted + n <= posted' /\ item = Letter(n, House, p, {a.item}, 0)
    BY <1>6, <1>11, <1>15, <1>16, <2>1
  <2>3. {a.item} \in SUBSET Item /\ 0 \in Nat
    BY <1>12
  <2> QED
    BY <1>17, <1>18, <2>2, <2>3, HouseLetter
<1>21. s \in Ledgers(posted', gs)
  BY <1>8, <1>19, <1>20, LedgerOfMails
<1>22. e \in Ledgers(posted', gs)
  <2>1. Removed(s, a) \in Ledgers(posted', gs)
    BY <1>12, <1>21, LedgerOfAuctions
  <2>2. Saved(Removed(s, a), p, g) \in Ledgers(posted', gs)
    BY <1>14, <2>1, LedgerOfRows
  <2>3. fee + Deposit \in Nat
    BY <1>11, <1>13
  <2> QED
    BY <1>9, <2>2, <2>3, LedgerOfRows
<1>23. before \o <<s, e>> \in Seq(Ledgers(posted', gs))
  BY <1>19, <1>21, <1>22, EndsTwo
<1>24. M \cup {item} \in Boxes(posted', gs)
  BY <1>19, <1>20, SomeMails
<1>25. /\ won' \in [1..MaxAuctions -> Player \cup {Nobody}] /\ opened' \in opened..MaxAuctions
  BY <1>10, AuctionAssumption DEF Kinds, TypeOK
<1>26. house' \in SUBSET Offers /\ goods' \in Holdings
  BY <1>10, <1>11, <1>14
<1>27. Kinds(gs)'
  BY <1>10, <1>17, <1>18, <1>23, <1>24, <1>25, <1>26, KindsOfHouse
<1> QED
  BY <1>27

LEMMA CrashTypes ==
    ASSUME NEW hs, Kinds(hs), Crash
    PROVE  Kinds(hs)'
<1>1. PICK d : d = Committed
  OBVIOUS
<1>2. PICK kept : kept = {a \in d.auctions : a.sold \/ a.item \notin d.gone}
  OBVIOUS
<1>3. PICK e : e = [[d EXCEPT !.auctions = kept] EXCEPT !.whole = TRUE]
  OBVIOUS
<1>4. /\ disk' = <<e>> /\ house' = kept /\ Event
      /\ torn' = (torn \/ ~d.whole)
      /\ phase' = [p \in Player |-> "out"]
      /\ goods' = NoGoods /\ box' = NoCopies /\ marked' = NoCopies
      /\ behind' = [p \in Player |-> 0]
      /\ UNCHANGED <<posted, spoilt, opened, won>>
  BY <1>1, <1>2, <1>3 DEF Crash, Restart
<1>5. /\ d \in Ledgers(posted, hs) /\ d \in Tables /\ hs \in SUBSET (1..posted)
      /\ posted \in Nat /\ posted <= MaxMails
  BY <1>1, KindsFacts
<1>6. kept \subseteq d.auctions /\ d.auctions \subseteq Offers /\ d.auctions \subseteq Auctions
  BY <1>2, <1>5 DEF Ledgers, Tables
<1>7. e \in Tables /\ e.mails = d.mails /\ e.auctions = kept
  BY <1>3, <1>5, <1>6 DEF Tables
<1>8. e \in Ledgers(posted, hs)
  BY <1>5, <1>6, <1>7, LedgerSame
<1>9. /\ disk' \in Seq(Ledgers(posted, hs)) /\ disk' \in Seq(Tables) /\ Len(disk') = 1
  BY <1>4, <1>7, <1>8
<1>10. box' \in [Player -> Boxes(posted, hs)] /\ box' \in [Player -> SUBSET Mails]
  BY <1>4, SomeMails DEF NoCopies
<1>11. goods' \in Holdings
  BY <1>4, GoodsAssumption DEF NoGoods, NoCopies, Holdings
<1>12. /\ Len(disk') \in 1..MaxQueue + 1 /\ behind' \in [Player -> 0..MaxQueue]
       /\ events' \in 0..MaxEvents /\ torn' \in BOOLEAN /\ spoilt' \in BOOLEAN
  <2>1. MaxQueue \in Nat /\ events' \in 0..MaxEvents /\ spoilt \in BOOLEAN
    BY <1>4, EventTypes
  <2>2. torn' \in BOOLEAN
    BY <1>4
  <2> QED
    BY <1>4, <1>9, <2>1, <2>2
<1>13. /\ marked' \in [Player -> SUBSET (1..MaxMails)]
       /\ phase' \in [Player -> {"out", "login", "in", "travel"}]
  BY <1>4 DEF NoCopies
<1>14. TypeOK'
  <2>1. /\ posted' \in 0..MaxMails /\ opened' \in 0..MaxAuctions
        /\ won' \in [1..MaxAuctions -> Player \cup {Nobody}]
    BY <1>4 DEF Kinds, TypeOK, MailTypeOK
  <2>2. house' \subseteq Auctions
    BY <1>4, <1>6
  <2> QED
    BY <1>9, <1>10, <1>11, <1>12, <1>13, <2>1, <2>2 DEF TypeOK, MailTypeOK
<1> QED
  BY <1>4, <1>5, <1>6, <1>9, <1>10, <1>14 DEF Kinds

LEMMA InitTypes ==
    ASSUME Init
    PROVE  Kinds({})
<1>1. /\ Books /\ Sure
  BY InitKeeps
<1>2. TypeOK
  BY <1>1 DEF Books
<1>3. /\ disk = <<MailTables>> /\ house = {} /\ box = NoCopies /\ posted = 0
  BY DEF Init, MailInit
<1>4. MailTables \in Tables /\ MailTables.mails = {} /\ MailTables.auctions = {}
  <2>1. disk[1] \in Tables
    BY <1>2, DiskFacts
  <2> QED
    BY <1>3, <2>1 DEF MailTables
<1>5. MailTables \in Ledgers(posted, {})
  <2>1. IsFiniteSet({})
    BY FS_EmptySet
  <2> QED
    BY <1>4, <2>1 DEF Ledgers
<1>6. box \in [Player -> Boxes(posted, {})]
  BY <1>3, SomeMails DEF NoCopies
<1> QED
  BY <1>2, <1>3, <1>5, <1>6 DEF Kinds

LEMMA TypesOfMailStep ==
    ASSUME NEW hs, Kinds(hs), MailStep, UNCHANGED <<house, opened, won>>
    PROVE  Kinds(hs)'
<1>1. ASSUME NEW p \in Player, NEW q \in Player, NEW I \in SUBSET Item,
             NEW money \in Sum, NEW cod \in Sum, SendMail(p, q, I, money, cod)
      PROVE  Kinds(hs)'
  BY <1>1, SendMailTypes
<1>2. ASSUME NEW p \in Player, NEW m \in UNION {box[q] : q \in Player},
             \/ \E i \in Item : TakeItem(p, m, i)
             \/ TakeMoney(p, m)
             \/ DeleteMail(p, m)
             \/ ReturnMail(p, m)
      PROVE  Kinds(hs)'
  BY <1>2, TakeItemTypes, TakeMoneyTypes, DeleteMailTypes, ReturnMailTypes
<1>3. ASSUME NEW p \in Player,
             SavePlayer(p) \/ Logout(p) \/ RequestLogin(p) \/ Login(p) \/ Depart(p) \/ Arrive(p)
      PROVE  Kinds(hs)'
  BY <1>3, SavePlayerTypes, LogoutTypes, RequestLoginTypes, PhaseTypes
<1>4. ASSUME NEW m \in Committed.mails, ReturnOrDeleteOldMail(m)
      PROVE  Kinds(hs)'
  BY <1>4, OldMailTypes
<1>5. CASE Commit
  BY <1>5, CommitTypes
<1> QED
  BY <1>1, <1>2, <1>3, <1>4, <1>5 DEF MailStep

\* Some mails are those of the auction house.
Typed == \E hs : Kinds(hs)

LEMMA TypesOfStep ==
    ASSUME CutPercent <= 100, Typed, [Next]_vars
    PROVE  Typed'
<1>1. PICK hs : Kinds(hs)
  BY DEF Typed
<1> SUFFICES \E gs : Kinds(gs)'
  BY DEF Typed
<1>2. CASE UNCHANGED vars
  <2>1. Kinds(hs)'
    BY <1>1, <1>2 DEF Kinds, TypeOK, MailTypeOK, vars, mailVars, memory
  <2> QED
    BY <2>1
<1>3. CASE MailStep /\ UNCHANGED <<house, opened, won>>
  <2>1. Kinds(hs)'
    BY <1>1, <1>3, TypesOfMailStep
  <2> QED
    BY <2>1
<1>4. CASE AuctionStep
  <2>1. ASSUME NEW p \in Player, NEW i \in Item, NEW start \in StartBids,
               NEW buyout \in Buyouts, SellItem(p, i, start, buyout)
        PROVE  \E gs : Kinds(gs)'
    BY <1>1, <2>1, SellItemTypes
  <2>2. ASSUME NEW p \in Player, NEW a \in house, NEW price \in 1..MaxGold,
               PlaceBid(p, a, price)
        PROVE  \E gs : Kinds(gs)'
    BY <1>1, <2>2, PlaceBidTypes
  <2>3. ASSUME NEW p \in Player, NEW a \in house, RemoveAuction(p, a)
        PROVE  \E gs : Kinds(gs)'
    BY <1>1, <2>3, RemoveAuctionTypes
  <2>4. ASSUME NEW a \in house, PaySeller(a) \/ ReturnUnsold(a) \/ GiveToBidder(a)
        PROVE  \E gs : Kinds(gs)'
    BY <1>1, <2>4, PaySellerTypes, ReturnUnsoldTypes, GiveToBidderTypes
  <2>5. CASE Crash
    BY <1>1, <2>5, CrashTypes
  <2> QED
    BY <1>4, <2>1, <2>2, <2>3, <2>4, <2>5 DEF AuctionStep
<1> QED
  BY <1>2, <1>3, <1>4 DEF Next

-----------------------------------------------------------------------------
(* The theorems.                                                           *)

\* Tables, boxes, purses and auctions are of their kinds, whatever a crash has
\* cut and whatever a stale row has led to: no purse runs below zero or above
\* the cap, no price is mailed to the auction house, and the mail that pays a
\* seller holds a sum that is not negative.
THEOREM TypeCorrect ==
    ASSUME CutPercent <= 100
    PROVE  Spec => []TypeOK
<1>1. Init => Typed
  BY InitTypes DEF Typed
<1>2. Typed /\ [Next]_vars => Typed'
  BY TypesOfStep
<1>3. Typed => TypeOK
  BY DEF Typed, Kinds
<1> QED
  BY <1>1, <1>2, <1>3, PTL DEF Spec

\* What a handler changes in memory it saves: whoever is in memory, the database
\* will hold all that they hold, see and bid on, whatever the handlers of mail
\* and auctions do, in whatever order, and wherever the process is restarted
\* between two of them.  Until a client takes an item under the id of another
\* mail or makes a sum leave its width, or an old mail is returned wrongly.
THEOREM MemoryIsStored ==
    ASSUME CutPercent <= 100
    PROVE  Spec => []Durable
<1>1. IInv => Durable
  BY DEF IInv, Sure, Durable
<1> QED
  BY <1>1, IInvHolds, PTL

\* Every item is in one place only, and no money is made or lost but for fees,
\* as far as MemoryIsStored goes and until a crash cuts a handler.
THEOREM GoodsConserved ==
    ASSUME CutPercent <= 100
    PROVE  Spec => []Conserved
<1>1. IInv => Conserved
  <2> SUFFICES ASSUME Books, Sure PROVE Balanced
    BY DEF IInv, Conserved
  <2>1. /\ Placed(Stored) /\ Wealth(Stored) = SumFunction(Gold0)
        /\ Sound(Stored, posted, opened)
    BY SureFacts, StoredFacts
  <2>2. \A i \in Item : Places(Stored, i) = IF i \in Stored.gone THEN 0 ELSE 1
    BY <2>1, Counted DEF Placed
  <2> QED
    BY <2>1, <2>2 DEF Balanced
<1> QED
  BY <1>1, IInvHolds, PTL

\* No step makes goods sent cash on delivery vanish without the price or the
\* goods being mailed to their sender, as far as GoodsConserved goes: the
\* handlers see to it for clients that name the mail an item is in.
THEOREM DeliveryIsHonoured ==
    ASSUME CutPercent <= 100
    PROVE  Spec => CodHonoured
<1>1. IInv /\ [Next]_vars => (~torn' /\ ~spoilt' => CodKept)
  BY StepKeeps
<1>2. IInv /\ [Next]_vars =>
        [~torn' /\ ~spoilt' => CodKept]_vars
  BY <1>1
<1> QED
  BY <1>2, IInvHolds, PTL DEF Spec, CodHonoured

===============================================================================
