---------------------------- MODULE Frontier_proofs ----------------------------
(***************************************************************************)
(* Proofs about the work list of SymbolicExecutor: what it covers, that its *)
(* parts do not overlap, the order in which it is worked off, and that a    *)
(* round stays inside the subtree the user clicked.  The properties speak   *)
(* of the paths of the tree, a recursive function; its equation and what    *)
(* follows from it are proved by descent to a least counterexample.         *)
(***************************************************************************)
EXTENDS SymbolicExecutor_proofs, WellFoundedInduction, FiniteSetTheorems

LEMMA Least ==
  ASSUME NEW T, T \subseteq Nat, T # {}
  PROVE  \E x \in T : \A y \in T : x <= y
<1>1. PICK m \in T : \A k \in T : <<k, m>> \notin OpToRel(<, Nat)
  BY WFMin, NatLessThanWellFounded, Zenon
<1>2. \A k \in T : ~(k < m)
  BY <1>1, Zenon DEF OpToRel
<1>3. \A k \in T : m <= k
  BY <1>2
<1> QED BY <1>3

-----------------------------------------------------------------------------
(* Paths.                                                                  *)

\* A function that maps each number to the set of its ancestors.
UpTo(f, k, p) ==
  f = [n \in 0..(k-1) |-> {n} \cup IF p[n] = NoNode THEN {} ELSE f[p[n]]]

LEMMA UpExists ==
  ASSUME NEW N \in Nat, NEW p, \A n \in 0..(N-1) : p[n] = NoNode \/ p[n] \in 0..(n-1)
  PROVE  \E f : UpTo(f, N, p)
<1> DEFINE T == {k \in 0..N : ~ \E f : UpTo(f, k, p)}
<1>1. CASE T = {}
  <2>1. N \in 0..N
    OBVIOUS
  <2> QED BY <1>1, <2>1
<1>2. CASE T # {}
  <2>1. T \subseteq Nat
    OBVIOUS
  <2>2. PICK k \in T : \A y \in T : k <= y
    BY <1>2, <2>1, Least
  <2>3. k # 0
    <3>1. UpTo([n \in {} |-> {}], 0, p)
      BY DEF UpTo
    <3> QED BY <3>1
  <2>4. k \in 0..N /\ k - 1 \in 0..N /\ ~(k <= k - 1)
    BY <2>3
  <2>5. PICK f : UpTo(f, k - 1, p)
    BY <2>2, <2>4
  <2> DEFINE g == [n \in 0..(k-1) |->
                     IF n = k - 1 THEN {n} \cup IF p[n] = NoNode THEN {} ELSE f[p[n]]
                     ELSE f[n]]
  <2>6. ASSUME NEW n \in 0..(k-1)
        PROVE  g[n] = {n} \cup IF p[n] = NoNode THEN {} ELSE g[p[n]]
    <3>1. p[n] = NoNode \/ p[n] \in 0..(n-1)
      BY <2>4
    <3>2. \A m \in 0..(n-1) : g[m] = f[m]
      BY <2>4
    <3>3. g[n] = {n} \cup IF p[n] = NoNode THEN {} ELSE f[p[n]]
      <4>1. CASE n = k - 1
        BY <4>1
      <4>2. CASE n # k - 1
        <5>1. n \in 0..(k-1-1)
          BY <2>4, <4>2
        <5> QED BY <2>5, <5>1, <4>2 DEF UpTo
      <4> QED BY <4>1, <4>2
    <3> HIDE DEF g
    <3> QED BY <3>1, <3>2, <3>3
  <2>7. UpTo(g, k, p)
    <3>1. g = [n \in 0..(k-1) |-> g[n]]
      OBVIOUS
    <3> HIDE DEF g
    <3> QED BY <2>6, <3>1 DEF UpTo
  <2> QED BY <2>2, <2>7
<1> QED BY <1>1, <1>2

LEMMA PathDef ==
  ASSUME TypeOK, TreeInv
  PROVE  /\ Path[0] = {0}
         /\ \A n \in Ids \ {0} : /\ tree[n].prevId \in Ids /\ tree[n].prevId \in 0..(n-1)
                                 /\ Path[n] = {n} \cup Path[tree[n].prevId]
<1> DEFINE p == [n \in Ids |-> tree[n].prevId]
<1>1. /\ numNodes \in Nat \ {0} /\ Ids = 0..(numNodes-1) /\ 0 \in Ids
      /\ p[0] = NoNode
      /\ \A n \in Ids \ {0} : p[n] \in 0..(n-1) /\ p[n] \in Ids /\ p[n] # NoNode
  BY DEF TypeOK, TreeInv, Ids, NoNode
<1>2. \E f : UpTo(f, numNodes, p)
  BY <1>1, UpExists
<1>3. Path = CHOOSE f : f = [n \in Ids |-> {n} \cup IF tree[n].prevId = NoNode THEN {}
                                                   ELSE f[tree[n].prevId]]
  BY DEF Path
<1>4. \E f : f = [n \in Ids |-> {n} \cup IF tree[n].prevId = NoNode THEN {}
                                                   ELSE f[tree[n].prevId]]
  <2>1. PICK f : UpTo(f, numNodes, p)
    BY <1>2
  <2>2. f = [n \in Ids |-> {n} \cup IF p[n] = NoNode THEN {} ELSE f[p[n]]]
    BY <1>1, <2>1 DEF UpTo
  <2> QED BY <2>2
<1>5. Path = [n \in Ids |-> {n} \cup IF tree[n].prevId = NoNode THEN {}
                                                   ELSE Path[tree[n].prevId]]
  BY <1>3, <1>4
<1> QED BY <1>1, <1>5

LEMMA PathBasic ==
  ASSUME TypeOK, TreeInv, NEW n \in Ids
  PROVE  /\ n \in Path[n] /\ 0 \in Path[n]
         /\ Path[n] \subseteq 0..n /\ Path[n] \subseteq Ids
         /\ IsFiniteSet(Path[n])
<1>0. numNodes \in Nat /\ Ids = 0..(numNodes-1)
  BY DEF TypeOK, Ids
<1> DEFINE Good(m) == m \in Path[m] /\ 0 \in Path[m] /\ Path[m] \subseteq 0..m
           T == {m \in Ids : ~Good(m)}
<1>1. T = {}
  <2> SUFFICES ASSUME T # {} PROVE FALSE
    OBVIOUS
  <2>1. PICK m \in T : \A y \in T : m <= y
    <3>1. T \subseteq Nat
      BY <1>0
    <3> QED BY <3>1, Least
  <2>2. m # 0
    BY PathDef
  <2>3. /\ tree[m].prevId \in Ids /\ tree[m].prevId \in 0..(m-1)
        /\ Path[m] = {m} \cup Path[tree[m].prevId]
    BY <2>2, PathDef
  <2>4. Good(tree[m].prevId)
    <3>1. ~(m <= tree[m].prevId)
      BY <2>3, <1>0
    <3> QED BY <2>1, <2>3, <3>1
  <2> QED BY <2>3, <2>4, <1>0
<1>2. Good(n)
  BY <1>1
<1>3. IsFiniteSet(0..n)
  BY <1>0, FS_Interval
<1> QED BY <1>0, <1>2, <1>3, FS_Subset

\* The path of a node on a path is a part of it.
LEMMA PathDown ==
  ASSUME TypeOK, TreeInv, NEW n \in Ids, NEW m \in Path[n]
  PROVE  m \in Ids /\ Path[m] \subseteq Path[n]
<1>0. numNodes \in Nat /\ Ids = 0..(numNodes-1)
  BY DEF TypeOK, Ids
<1> DEFINE T == {k \in Ids : m \in Path[k] /\ ~(Path[m] \subseteq Path[k])}
<1>1. T = {}
  <2> SUFFICES ASSUME T # {} PROVE FALSE
    OBVIOUS
  <2>1. PICK k \in T : \A y \in T : k <= y
    <3>1. T \subseteq Nat
      BY <1>0
    <3> QED BY <3>1, Least
  <2>2. k # 0
    BY <2>1, PathDef
  <2>3. /\ tree[k].prevId \in Ids /\ tree[k].prevId \in 0..(k-1)
        /\ Path[k] = {k} \cup Path[tree[k].prevId]
    BY <2>2, PathDef
  <2>4. m # k /\ m \in Path[tree[k].prevId]
    BY <2>1, <2>3
  <2>5. ~(k <= tree[k].prevId)
    BY <2>3, <1>0
  <2> QED BY <2>1, <2>3, <2>4, <2>5
<1> QED BY <1>1, PathBasic

\* Below a node of the path that is not its end there is a child of that node.
LEMMA PathLink ==
  ASSUME TypeOK, TreeInv, NEW n \in Ids, NEW m \in Path[n] \ {n}
  PROVE  \E c \in Path[n] \ {0} : c \in Ids /\ tree[c].prevId = m
<1>0. numNodes \in Nat /\ Ids = 0..(numNodes-1)
  BY DEF TypeOK, Ids
<1> DEFINE T == {k \in Ids : m \in Path[k] \ {k}
                             /\ ~ \E c \in Path[k] \ {0} : c \in Ids /\ tree[c].prevId = m}
<1>1. T = {}
  <2> SUFFICES ASSUME T # {} PROVE FALSE
    OBVIOUS
  <2>1. PICK k \in T : \A y \in T : k <= y
    <3>1. T \subseteq Nat
      BY <1>0
    <3> QED BY <3>1, Least
  <2>2. k # 0
    BY <2>1, PathDef
  <2>3. /\ tree[k].prevId \in Ids /\ tree[k].prevId \in 0..(k-1)
        /\ Path[k] = {k} \cup Path[tree[k].prevId]
    BY <2>2, PathDef
  <2>4. m # tree[k].prevId
    BY <2>1, <2>2, <2>3
  <2>5. m \in Path[tree[k].prevId]
    BY <2>1, <2>3
  <2>6. ~(k <= tree[k].prevId)
    BY <2>3, <1>0
  <2> QED BY <2>1, <2>3, <2>4, <2>5, <2>6
<1> QED BY <1>1

\* The nodes above a node have been executed.
LEMMA PathExecuted ==
  ASSUME TypeOK, TreeInv, NEW n \in Ids, NEW m \in Path[n] \ {n}
  PROVE  m \in Ids /\ tree[m].isExecuted
<1>1. PICK c \in Path[n] \ {0} : c \in Ids /\ tree[c].prevId = m
  BY PathLink
<1> QED BY <1>1, PathDown DEF TreeInv

PathEquation ==
  /\ Path[0] = {0}
  /\ \A n \in Ids \ {0} : Path[n] = {n} \cup Path[tree[n].prevId]

LEMMA PathEquationNow == TypeOK /\ TreeInv => PathEquation
BY PathDef DEF PathEquation

LEMMA PathEquationNext == TypeOK' /\ TreeInv' => PathEquation'
BY PathEquationNow, PTL

\* The tree only grows at its leaves: no path changes.
LEMMA PathKept ==
  ASSUME IInv, [Next]_vars, NEW n \in Ids
  PROVE  n \in Ids' /\ Path'[n] = Path[n]
<1>0. /\ numNodes \in Nat /\ Ids = 0..(numNodes-1)
      /\ TypeOK /\ TreeInv /\ TypeOK' /\ TreeInv'
  BY Inductive DEF IInv, TypeOK, Ids
<1>1. Ids \subseteq Ids' /\ \A m \in Ids : tree'[m].prevId = tree[m].prevId
  <2>1. CASE ExecuteNode
    BY <2>1, ExecuteStep
  <2>2. CASE ~ExecuteNode
    BY <2>2, TreeStep
  <2> QED BY <2>1, <2>2
<1>2. /\ Path'[0] = {0}
      /\ \A m \in Ids' \ {0} : Path'[m] = {m} \cup Path'[tree'[m].prevId]
  BY <1>0, PathEquationNext DEF PathEquation
<1> DEFINE T == {m \in Ids : Path'[m] # Path[m]}
<1>3. T = {}
  <2> SUFFICES ASSUME T # {} PROVE FALSE
    OBVIOUS
  <2>1. PICK k \in T : \A y \in T : k <= y
    <3>1. T \subseteq Nat
      BY <1>0
    <3> QED BY <3>1, Least
  <2>2. k # 0
    BY <1>0, <1>2, <2>1, PathDef
  <2>3. /\ tree[k].prevId \in Ids /\ tree[k].prevId \in 0..(k-1)
        /\ Path[k] = {k} \cup Path[tree[k].prevId]
    BY <1>0, <2>2, PathDef
  <2>4. Path'[k] = {k} \cup Path'[tree[k].prevId]
    BY <1>1, <1>2, <2>1, <2>2
  <2>5. ~(k <= tree[k].prevId)
    BY <2>3, <1>0
  <2> QED BY <2>1, <2>3, <2>4, <2>5
<1> QED BY <1>1, <1>3

-----------------------------------------------------------------------------
(* Sequences: their elements, and pairs of elements one before the other.  *)

Sorted(s, R) == \A j, k \in 1..Len(s) : j < k => <<s[j], s[k]>> \in R

LEMMA InSet ==
  ASSUME NEW S, NEW s \in Seq(S)
  PROVE  /\ \A x : x \in ToSet(s) <=> \E j \in 1..Len(s) : s[j] = x
         /\ \A j \in 1..Len(s) : s[j] \in ToSet(s) /\ s[j] \in S
         /\ ToSet(s) \subseteq S
<1>1. DOMAIN s = 1..Len(s) /\ \A j \in 1..Len(s) : s[j] \in S
  OBVIOUS
<1> QED BY <1>1 DEF ToSet

LEMMA ReverseFacts ==
  ASSUME NEW S, NEW s \in Seq(S)
  PROVE  /\ Reverse(s) \in Seq(S)
         /\ ToSet(Reverse(s)) = ToSet(s)
         /\ IsInjective(s) => IsInjective(Reverse(s))
<1> DEFINE r == Reverse(s)
<1>1. /\ Len(s) \in Nat /\ r \in Seq(S) /\ Len(r) = Len(s)
      /\ DOMAIN r = 1..Len(s) /\ DOMAIN s = 1..Len(s)
      /\ \A j \in 1..Len(s) : r[j] = s[Len(s) - j + 1]
  BY ReverseType DEF Reverse
<1>2. \A j \in 1..Len(s) : Len(s) - j + 1 \in 1..Len(s) /\ Len(s) - (Len(s) - j + 1) + 1 = j
  BY <1>1
<1> HIDE DEF r
<1>3. ToSet(r) = ToSet(s)
  <2>1. \A x : x \in ToSet(r) <=> \E j \in 1..Len(s) : r[j] = x
    BY <1>1, InSet
  <2>2. \A x : x \in ToSet(s) <=> \E j \in 1..Len(s) : s[j] = x
    BY InSet
  <2>3. \A j \in 1..Len(s) : s[j] = r[Len(s) - j + 1]
    BY <1>1, <1>2
  <2> QED BY <1>1, <1>2, <2>1, <2>2, <2>3
<1>4. ASSUME IsInjective(s) PROVE IsInjective(r)
  <2> SUFFICES ASSUME NEW j \in 1..Len(s), NEW k \in 1..Len(s), r[j] = r[k] PROVE j = k
    BY <1>1 DEF IsInjective
  <2>1. s[Len(s) - j + 1] = s[Len(s) - k + 1]
    BY <1>1
  <2>2. Len(s) - j + 1 = Len(s) - k + 1
    BY <1>1, <1>2, <1>4, <2>1 DEF IsInjective
  <2> QED BY <1>1, <2>2
<1> QED BY <1>1, <1>3, <1>4 DEF r

LEMMA ConcatFacts ==
  ASSUME NEW S, NEW s \in Seq(S), NEW t \in Seq(S)
  PROVE  /\ s \o t \in Seq(S)
         /\ ToSet(s \o t) = ToSet(s) \cup ToSet(t)
         /\ IsInjective(s) /\ IsInjective(t) /\ ToSet(s) \cap ToSet(t) = {}
              => IsInjective(s \o t)
<1> DEFINE u == s \o t
<1>1. /\ Len(s) \in Nat /\ Len(t) \in Nat /\ u \in Seq(S) /\ Len(u) = Len(s) + Len(t)
      /\ DOMAIN u = 1..Len(u) /\ DOMAIN s = 1..Len(s) /\ DOMAIN t = 1..Len(t)
  OBVIOUS
<1>2. \A j \in 1..Len(u) : \/ j \in 1..Len(s) /\ u[j] = s[j]
                           \/ j - Len(s) \in 1..Len(t) /\ u[j] = t[j - Len(s)]
  OBVIOUS
<1>3. /\ \A j \in 1..Len(s) : j \in 1..Len(u) /\ u[j] = s[j]
      /\ \A j \in 1..Len(t) : j + Len(s) \in 1..Len(u) /\ u[j + Len(s)] = t[j]
  OBVIOUS
<1> HIDE DEF u
<1>4. ToSet(u) = ToSet(s) \cup ToSet(t)
  <2>1. \A x : x \in ToSet(u) <=> \E j \in 1..Len(u) : u[j] = x
    BY <1>1, InSet
  <2>2. \A x : x \in ToSet(s) <=> \E j \in 1..Len(s) : s[j] = x
    BY InSet
  <2>3. \A x : x \in ToSet(t) <=> \E j \in 1..Len(t) : t[j] = x
    BY InSet
  <2> QED BY <1>2, <1>3, <2>1, <2>2, <2>3, ZenonT(40)
<1>5. ASSUME IsInjective(s), IsInjective(t), ToSet(s) \cap ToSet(t) = {} PROVE IsInjective(u)
  <2> SUFFICES ASSUME NEW j \in 1..Len(u), NEW k \in 1..Len(u), u[j] = u[k] PROVE j = k
    BY <1>1 DEF IsInjective
  <2>1. \A a \in 1..Len(s), b \in 1..Len(t) : s[a] # t[b]
    <3>1. \A a \in 1..Len(s) : s[a] \in ToSet(s)
      BY InSet
    <3>2. \A b \in 1..Len(t) : t[b] \in ToSet(t)
      BY InSet
    <3> QED BY <1>5, <3>1, <3>2
  <2>2. CASE j \in 1..Len(s) /\ k \in 1..Len(s)
    BY <1>1, <1>3, <1>5, <2>2 DEF IsInjective
  <2>3. CASE j - Len(s) \in 1..Len(t) /\ k - Len(s) \in 1..Len(t)
    <3>1. ~(j \in 1..Len(s)) /\ ~(k \in 1..Len(s))
      BY <1>1, <2>3
    <3>2. t[j - Len(s)] = t[k - Len(s)]
      BY <1>2, <3>1
    <3>3. j - Len(s) = k - Len(s)
      BY <1>1, <1>5, <2>3, <3>2 DEF IsInjective
    <3> QED BY <1>1, <3>3
  <2> QED BY <1>2, <2>1, <2>2, <2>3
<1> QED BY <1>1, <1>4, <1>5 DEF u

LEMMA SortedConcat ==
  ASSUME NEW S, NEW s \in Seq(S), NEW t \in Seq(S), NEW R, Sorted(s, R), Sorted(t, R),
         \A x \in ToSet(s), y \in ToSet(t) : <<x, y>> \in R
  PROVE  Sorted(s \o t, R)
<1> DEFINE u == s \o t
<1>1. Len(s) \in Nat /\ Len(t) \in Nat /\ Len(u) = Len(s) + Len(t)
  OBVIOUS
<1>2. \A j \in 1..Len(u) : \/ j \in 1..Len(s) /\ u[j] = s[j]
                           \/ j - Len(s) \in 1..Len(t) /\ u[j] = t[j - Len(s)]
  OBVIOUS
<1> HIDE DEF u
<1>3. SUFFICES ASSUME NEW j \in 1..Len(u), NEW k \in 1..Len(u), j < k
               PROVE  <<u[j], u[k]>> \in R
  BY DEF Sorted, u
<1>4. /\ \A a \in 1..Len(s) : s[a] \in ToSet(s)
      /\ \A b \in 1..Len(t) : t[b] \in ToSet(t)
  <2>1. \A a \in 1..Len(s) : s[a] \in ToSet(s)
    BY InSet
  <2>2. \A b \in 1..Len(t) : t[b] \in ToSet(t)
    BY InSet
  <2> QED BY <2>1, <2>2
<1>5. CASE j \in 1..Len(s) /\ u[j] = s[j] /\ k \in 1..Len(s) /\ u[k] = s[k]
  BY <1>3, <1>5 DEF Sorted
<1>6. CASE /\ j - Len(s) \in 1..Len(t) /\ u[j] = t[j - Len(s)]
           /\ k - Len(s) \in 1..Len(t) /\ u[k] = t[k - Len(s)]
  <2>1. j - Len(s) < k - Len(s)
    BY <1>1, <1>3
  <2> QED BY <1>6, <2>1 DEF Sorted
<1>7. CASE /\ j \in 1..Len(s) /\ u[j] = s[j]
           /\ k - Len(s) \in 1..Len(t) /\ u[k] = t[k - Len(s)]
  BY <1>4, <1>7
<1>8. ~(j - Len(s) \in 1..Len(t) /\ k \in 1..Len(s))
  BY <1>1, <1>3
<1> QED BY <1>2, <1>5, <1>6, <1>7, <1>8

LEMMA SortedAll ==
  ASSUME NEW S, NEW s \in Seq(S), NEW R, \A x, y \in ToSet(s) : <<x, y>> \in R
  PROVE  Sorted(s, R)
BY InSet DEF Sorted

LEMMA TailFacts ==
  ASSUME NEW S, NEW s \in Seq(S), s # <<>>
  PROVE  /\ Head(s) \in S /\ Tail(s) \in Seq(S)
         /\ ToSet(s) = {Head(s)} \cup ToSet(Tail(s))
         /\ IsInjective(s) => IsInjective(Tail(s)) /\ Head(s) \notin ToSet(Tail(s))
         /\ \A R : Sorted(s, R) => /\ Sorted(Tail(s), R)
                                   /\ \A x \in ToSet(Tail(s)) : <<Head(s), x>> \in R
<1> DEFINE t == Tail(s)
<1>1. /\ Len(s) \in Nat \ {0} /\ t \in Seq(S) /\ Len(t) = Len(s) - 1
      /\ DOMAIN s = 1..Len(s) /\ DOMAIN t = 1..Len(t)
      /\ Head(s) = s[1] /\ Head(s) \in S
  OBVIOUS
<1>2. \A j \in 1..Len(t) : j + 1 \in 1..Len(s) /\ t[j] = s[j + 1]
  OBVIOUS
<1>3. \A j \in 1..Len(s) : j = 1 \/ (j - 1 \in 1..Len(t) /\ s[j] = t[j - 1])
  BY <1>1, <1>2
<1> HIDE DEF t
<1>4. /\ \A x : x \in ToSet(s) <=> \E j \in 1..Len(s) : s[j] = x
      /\ \A x : x \in ToSet(t) <=> \E j \in 1..Len(t) : t[j] = x
  <2>1. \A x : x \in ToSet(s) <=> \E j \in 1..Len(s) : s[j] = x
    BY InSet
  <2>2. \A x : x \in ToSet(t) <=> \E j \in 1..Len(t) : t[j] = x
    <3>1. t \in Seq(S)
      BY <1>1
    <3> QED BY <3>1, InSet, ZenonT(40)
  <2> QED BY <2>1, <2>2
<1>5. ToSet(s) = {Head(s)} \cup ToSet(t)
  <2>1. 1 \in 1..Len(s)
    BY <1>1
  <2> QED BY <1>1, <1>2, <1>3, <1>4, <2>1
<1>6. ASSUME IsInjective(s) PROVE IsInjective(t) /\ Head(s) \notin ToSet(t)
  <2>1. \A j, k \in 1..Len(s) : s[j] = s[k] => j = k
    BY <1>1, <1>6 DEF IsInjective
  <2>2. ASSUME NEW j \in 1..Len(t), NEW k \in 1..Len(t), t[j] = t[k] PROVE j = k
    <3>1. j + 1 = k + 1
      BY <1>2, <2>1, <2>2
    <3> QED BY <3>1
  <2>3. \A j \in 1..Len(t) : t[j] # s[1]
    <3>1. 1 \in 1..Len(s) /\ \A j \in 1..Len(t) : j + 1 # 1
      BY <1>1
    <3> QED BY <1>2, <2>1, <3>1
  <2> QED BY <1>1, <1>4, <2>2, <2>3 DEF IsInjective
<1>7. ASSUME NEW R, Sorted(s, R)
      PROVE  Sorted(t, R) /\ \A x \in ToSet(t) : <<Head(s), x>> \in R
  <2>1. \A j, k \in 1..Len(t) : j < k => <<t[j], t[k]>> \in R
    BY <1>2, <1>7 DEF Sorted
  <2>2. \A j \in 1..Len(t) : <<s[1], t[j]>> \in R
    <3>1. 1 \in 1..Len(s) /\ \A j \in 1..Len(t) : 1 < j + 1
      BY <1>1
    <3> QED BY <1>2, <1>7, <3>1 DEF Sorted
  <2> QED BY <1>1, <1>4, <2>1, <2>2 DEF Sorted
<1> QED BY <1>1, <1>5, <1>6, <1>7 DEF t

-----------------------------------------------------------------------------
(* The children of a node.                                                 *)

\* What the pointers of a node refer to hangs below it, and is not the same.
ChildrenOf(n) ==
  /\ tree[n].left # NoNode => tree[n].left \in Ids \ {0} /\ tree[tree[n].left].prevId = n
  /\ tree[n].right # NoNode => tree[n].right \in Ids \ {0} /\ tree[tree[n].right].prevId = n
  /\ tree[n].left = tree[n].right => tree[n].left = NoNode

LinkInv == \A n \in Ids : ChildrenOf(n)

LEMMA LinkOwn ==
  ASSUME TypeOK, NEW self \in Node, NEW kids \in Seq(Node),
         self.left = NoNode, self.right = NoNode
  PROVE  LET x == Link(self, kids)
         IN  /\ x.left # NoNode => x.left \in numNodes..(numNodes + Len(kids) - 1)
             /\ x.right # NoNode => x.right \in numNodes..(numNodes + Len(kids) - 1)
             /\ x.left = x.right => x.left = NoNode
<1> DEFINE ids == KidIds(kids)
           last == IF cmd.dir = 1 THEN 2 ELSE Len(kids)
           l == IF Len(kids) >= 1 THEN ids[1] ELSE self.left
           r == IF Len(kids) >= 2 THEN ids[last] ELSE self.right
<1>1. /\ Link(self, kids) = [self EXCEPT !.isExecuted = TRUE, !.left = l, !.right = r]
      /\ numNodes \in Nat \ {0} /\ Len(kids) \in Nat
  BY DEF Link, TypeOK
<1>2. \A k \in 1..Len(kids) : ids[k] = numNodes + k - 1
  BY DEF KidIds
<1>3. l # NoNode => l \in numNodes..(numNodes + Len(kids) - 1)
  BY <1>1, <1>2
<1>4. Len(kids) >= 2 => last \in 2..Len(kids) /\ last \in 1..Len(kids)
  BY <1>1
<1> HIDE DEF ids, last
<1>5. r # NoNode => r \in numNodes..(numNodes + Len(kids) - 1)
  BY <1>1, <1>2, <1>4
<1>6. l = r => l = NoNode
  <2>1. CASE Len(kids) >= 2
    <3>1. l = numNodes + 1 - 1 /\ r = numNodes + last - 1
      BY <1>1, <1>2, <1>4, <2>1
    <3> QED BY <1>1, <1>4, <2>1, <3>1
  <2>2. CASE ~(Len(kids) >= 2)
    <3>1. r = NoNode
      BY <2>2
    <3> QED BY <3>1
  <2> QED BY <2>1, <2>2
<1> HIDE DEF l, r
<1> QED BY <1>1, <1>3, <1>5, <1>6 DEF Node

LEMMA LinkStep == ASSUME IInv, LinkInv, [Next]_vars PROVE LinkInv'
<1>1. CASE ~ExecuteNode
  <2>1. /\ Ids' = Ids
        /\ \A n \in Ids : /\ tree'[n].prevId = tree[n].prevId
                          /\ tree'[n].left = tree[n].left /\ tree'[n].right = tree[n].right
    BY <1>1, TreeStep
  <2>2. \A n \in Ids : ChildrenOf(n)
    BY DEF LinkInv
  <2> QED BY <2>1, <2>2 DEF LinkInv, ChildrenOf
<1>2. CASE ExecuteNode
  <2>1. PICK n \in Ids : n = Head(deque)
    BY <1>2, ExecuteStep
  <2>2. /\ ~tree[n].isExecuted /\ TypeOK /\ TreeInv
        /\ Ids \subseteq Ids' /\ tree'[n].prevId = tree[n].prevId
        /\ \A m \in Ids \ {n} : tree'[m] = tree[m]
    BY <1>2, <2>1, ExecuteStep DEF IInv
  <2>3. PICK self, kids :
          /\ GoodOutcome(n, Outcome(self, kids))
          /\ tree' = Grow(n, Link(self, kids), kids)
          /\ numNodes' = numNodes + Len(kids)
    <3>1. PICK o \in IF tree[n].isSatisfiable THEN executeBasicBlock(n)
                                              ELSE {Outcome(tree[n], <<>>)} :
            /\ tree' = Grow(n, Link(o.self, o.kids), o.kids)
            /\ numNodes' = numNodes + Len(o.kids)
      BY <1>2, <2>1 DEF ExecuteNode
    <3>2. GoodOutcome(n, o)
      BY <2>2, <3>1, ExecutionOutcome, NoKid, SameNode
    <3>3. GoodOutcome(n, Outcome(o.self, o.kids))
      BY <3>2 DEF GoodOutcome
    <3> QED BY <3>1, <3>3
  <2>4. /\ self \in Node /\ kids \in Seq(Node) /\ Len(kids) \in Nat
        /\ self.left = NoNode /\ self.right = NoNode
    BY <2>2, <2>3 DEF GoodOutcome, Outcome, Same, TreeInv
  <2>5. /\ tree'[n] = Link(self, kids)
        /\ \A m \in Ids' \ Ids : Kid(n, tree'[m])
    BY <2>2, <2>3, Growth
  <2>6. /\ tree'[n].left # NoNode => tree'[n].left \in numNodes..(numNodes + Len(kids) - 1)
        /\ tree'[n].right # NoNode => tree'[n].right \in numNodes..(numNodes + Len(kids) - 1)
        /\ tree'[n].left = tree'[n].right => tree'[n].left = NoNode
    BY <2>2, <2>4, <2>5, LinkOwn
  <2>7. \A k \in numNodes..(numNodes + Len(kids) - 1) :
          k \in Ids' \ Ids /\ k # 0 /\ tree'[k].prevId = n
    <3>1. \A k \in numNodes..(numNodes + Len(kids) - 1) : k \in Ids' \ Ids /\ k # 0
      BY <2>2, <2>3, <2>4 DEF Ids, TypeOK
    <3> QED BY <2>5, <3>1 DEF Kid
  <2>8. ASSUME NEW m \in Ids' PROVE ChildrenOf(m)'
    <3>1. CASE m = n
      BY <2>6, <2>7, <3>1 DEF ChildrenOf
    <3>2. CASE m \in Ids \ {n}
      <4>1. ChildrenOf(m) /\ tree'[m] = tree[m]
        BY <2>2, <3>2 DEF LinkInv
      <4>2. \A k \in Ids : tree'[k].prevId = tree[k].prevId
        BY <2>2
      <4> QED BY <2>2, <4>1, <4>2 DEF ChildrenOf
    <3>3. CASE m \notin Ids
      BY <2>5, <3>3 DEF Kid, ChildrenOf
    <3> QED BY <3>1, <3>2, <3>3
  <2> QED BY <2>8 DEF LinkInv
<1> QED BY <1>1, <1>2

LEMMA LinkInit == Init => LinkInv
BY DEF Init, LinkInv, ChildrenOf, Ids, SymbolicTreeNode

\* children(n) lists the children of n that its pointers refer to, each once.
LEMMA ChildrenFacts ==
  ASSUME TypeOK, TreeInv, LinkInv, NEW n \in Ids
  PROVE  /\ children(n) \in Seq(Ids)
         /\ IsInjective(children(n))
         /\ \A c \in ToSet(children(n)) : c \in Ids \ {0} /\ tree[c].prevId = n
         /\ \A c \in Ids \ {0} : tree[c].prevId = n /\ Linked(c) => c \in ToSet(children(n))
<1>1. ChildrenOf(n) /\ NoNode \notin Ids
  BY DEF LinkInv, NoNode, Ids
<1> DEFINE l == tree[n].left
           r == tree[n].right
<1>2. \A x : /\ ToSet(child(x)) = {x} \ {NoNode}
             /\ IsInjective(child(x))
  <2>1. ToSet(<<>>) = {} /\ IsInjective(<<>>)
    BY DEF ToSet, IsInjective
  <2>2. \A x : ToSet(<<x>>) = {x} /\ IsInjective(<<x>>)
    BY DEF ToSet, IsInjective
  <2> QED BY <2>1, <2>2, ZenonT(40) DEF child
<1>3. child(l) \in Seq(Ids) /\ child(r) \in Seq(Ids)
  BY <1>1 DEF child, ChildrenOf
<1>4. /\ children(n) \in Seq(Ids)
      /\ ToSet(children(n)) = ({l} \cup {r}) \ {NoNode}
      /\ IsInjective(children(n))
  <2>1. ToSet(child(l)) \cap ToSet(child(r)) = {}
    BY <1>1, <1>2 DEF ChildrenOf
  <2>2. children(n) = child(l) \o child(r)
    BY DEF children
  <2>3. /\ child(l) \o child(r) \in Seq(Ids)
        /\ ToSet(child(l) \o child(r)) = ToSet(child(l)) \cup ToSet(child(r))
        /\ IsInjective(child(l) \o child(r))
    BY <1>2, <1>3, <2>1, ConcatFacts
  <2> QED BY <1>2, <2>2, <2>3
<1>5. \A c \in Ids \ {0} : tree[c].prevId = n /\ Linked(c) => c \in {l} \cup {r}
  BY DEF Linked
<1> QED BY <1>1, <1>4, <1>5 DEF ChildrenOf

-----------------------------------------------------------------------------
(* The work list of a round.                                               *)

\* A node of the work list hangs below the clicked node, on a path without
\* excluded blocks.
Reachable(d) ==
  /\ InFocus(d)
  /\ \A m \in BelowFocus(d) \ {d} : tree[m].block \notin excludedNodes

\* In breadth-first order the levels of the list are at most one apart.
Level == {z \in Ids \X Ids : Depth(z[1]) <= Depth(z[2])}
Return == {z \in Ids \X Ids : tree[z[2]].prevId \in Path[z[1]] \cup {NoNode}}

OrderInv ==
  IF cmd.isBFS = 1
    THEN Sorted(deque, Level) /\ \A x, y \in ToSet(deque) : Depth(y) <= Depth(x) + 1
    ELSE Sorted(deque, Return)

WorkInv ==
  /\ pc \notin {"step", "getModel"} => deque = <<>>
  /\ FrontierDisjoint
  /\ \A d \in ToSet(deque) : Reachable(d)
  /\ OrderInv

\* The depth of a child, and what does not change in a step.
LEMMA DepthFacts ==
  ASSUME TypeOK, TreeInv
  PROVE  /\ \A n \in Ids : Depth(n) \in Nat
         /\ \A n \in Ids \ {0} : Depth(n) = Depth(tree[n].prevId) + 1
<1>1. \A n \in Ids : Depth(n) \in Nat
  BY PathBasic, FS_CardinalityType DEF Depth
<1>2. ASSUME NEW n \in Ids \ {0} PROVE Depth(n) = Depth(tree[n].prevId) + 1
  <2>1. /\ tree[n].prevId \in Ids /\ tree[n].prevId \in 0..(n-1)
        /\ Path[n] = {n} \cup Path[tree[n].prevId]
    BY PathDef
  <2>2. /\ IsFiniteSet(Path[tree[n].prevId])
        /\ Path[tree[n].prevId] \subseteq 0..tree[n].prevId
    BY <2>1, PathBasic
  <2>3. n \notin Path[tree[n].prevId]
    <3>1. n \in Nat /\ ~(n \in 0..tree[n].prevId)
      BY <2>1 DEF Ids
    <3> QED BY <2>2, <3>1
  <2>4. Path[n] = Path[tree[n].prevId] \cup {n}
    BY <2>1
  <2> QED BY <2>2, <2>3, <2>4, FS_AddElement DEF Depth
<1> QED BY <1>1, <1>2

DepthEquation ==
  /\ \A n \in Ids : Depth(n) \in Nat
  /\ \A n \in Ids \ {0} : Depth(n) = Depth(tree[n].prevId) + 1

LEMMA DepthEquationNow == TypeOK /\ TreeInv => DepthEquation
BY DepthFacts DEF DepthEquation

LEMMA DepthEquationNext == TypeOK' /\ TreeInv' => DepthEquation'
BY DepthEquationNow, PTL

PathBounds == \A n \in Ids : n \in Path[n] /\ Path[n] \subseteq Ids

LEMMA PathBasicNow == TypeOK /\ TreeInv => PathBounds
BY PathBasic DEF PathBounds

LEMMA PathBasicNext == TypeOK' /\ TreeInv' => PathBounds'
BY PathBasicNow, PTL

LEMMA Kept ==
  ASSUME IInv, [Next]_vars, NEW n \in Ids
  PROVE  /\ n \in Ids' /\ Path'[n] = Path[n] /\ Depth(n)' = Depth(n)
         /\ tree'[n].prevId = tree[n].prevId /\ tree'[n].block = tree[n].block
<1>1. n \in Ids' /\ Path'[n] = Path[n]
  BY PathKept
<1>2. CASE ExecuteNode
  <2>1. n # Head(deque) => tree'[n] = tree[n]
    BY <1>2, ExecuteStep
  <2>2. n = Head(deque) => tree'[n].prevId = tree[n].prevId /\ tree'[n].block = tree[n].block
    BY <1>2, ExecuteStep, Branching
  <2> QED BY <1>1, <2>1, <2>2 DEF Depth
<1>3. CASE ~ExecuteNode
  BY <1>1, <1>3, TreeStep DEF Depth
<1> QED BY <1>2, <1>3

\* The head of the list makes room for nodes that hang directly below it.
Expansion(S) ==
  /\ deque # <<>>
  /\ S \in Seq(Ids') /\ IsInjective(S)
  /\ \A k \in ToSet(S) : k \in Ids' \ {0} /\ tree'[k].prevId = Head(deque)
  /\ S # <<>> => tree[Head(deque)].block \notin excludedNodes
  /\ deque' = IF cmd.isBFS = 1 THEN Tail(deque) \o S ELSE S \o Tail(deque)
  /\ UNCHANGED <<excludedNodes, cmd>>

LEMMA ExpandFacts ==
  ASSUME IInv, WorkInv, [Next]_vars, NEW S, Expansion(S)
  PROVE  /\ Head(deque) \in Ids /\ Tail(deque) \in Seq(Ids) /\ Tail(deque) \in Seq(Ids')
         /\ Head(deque) \in ToSet(deque) /\ ToSet(Tail(deque)) \subseteq ToSet(deque)
         /\ IsInjective(Tail(deque)) /\ Head(deque) \notin ToSet(Tail(deque))
         /\ ToSet(deque) \subseteq Ids
         /\ ToSet(deque') = ToSet(Tail(deque)) \cup ToSet(S)
         /\ \A k \in ToSet(S) : /\ k \in Ids' /\ k \notin Path[Head(deque)]
                                /\ tree'[k].prevId = Head(deque)
                                /\ Path'[k] = {k} \cup Path[Head(deque)]
                                /\ Depth(k)' = Depth(Head(deque)) + 1
<1>0. TypeOK /\ TreeInv /\ TypeOK' /\ TreeInv' /\ deque \in Seq(Ids) /\ deque # <<>>
      /\ FrontierDisjoint
  BY Inductive DEF IInv, TypeOK, WorkInv, Expansion
<1>1. /\ Head(deque) \in Ids /\ Tail(deque) \in Seq(Ids)
      /\ ToSet(deque) = {Head(deque)} \cup ToSet(Tail(deque))
      /\ IsInjective(Tail(deque)) /\ Head(deque) \notin ToSet(Tail(deque))
  BY <1>0, TailFacts DEF FrontierDisjoint
<1>2. Ids \subseteq Ids'
  BY Kept
<1>3. Tail(deque) \in Seq(Ids')
  BY <1>1, <1>2, SeqMonotone
<1>4. ToSet(deque') = ToSet(Tail(deque)) \cup ToSet(S)
  <2>1. S \in Seq(Ids')
    BY DEF Expansion
  <2>2. ToSet(Tail(deque) \o S) = ToSet(Tail(deque)) \cup ToSet(S)
    BY <1>3, <2>1, ConcatFacts, ZenonT(40)
  <2>3. ToSet(S \o Tail(deque)) = ToSet(S) \cup ToSet(Tail(deque))
    BY <1>3, <2>1, ConcatFacts, ZenonT(40)
  <2> QED BY <2>2, <2>3 DEF Expansion
<1>5. ASSUME NEW k \in ToSet(S)
      PROVE  /\ k \in Ids' /\ k \notin Path[Head(deque)]
             /\ tree'[k].prevId = Head(deque)
             /\ Path'[k] = {k} \cup Path[Head(deque)]
             /\ Depth(k)' = Depth(Head(deque)) + 1
  <2>1. PICK d \in Ids : d = Head(deque)
    BY <1>1
  <2>2. k \in Ids' \ {0} /\ tree'[k].prevId = d
    BY <1>5, <2>1 DEF Expansion
  <2>3. /\ Path'[k] = {k} \cup Path'[d]
        /\ Depth(k)' = Cardinality(Path'[d]) + 1
    <3>1. PathEquation' /\ DepthEquation'
      BY <1>0, PathEquationNext, DepthEquationNext
    <3> QED BY <2>2, <3>1 DEF PathEquation, DepthEquation, Depth
  <2>4. Path'[d] = Path[d] /\ Cardinality(Path[d]) = Depth(d)
    BY Kept DEF Depth
  <2>5. k \notin Path[d]
    <3>1. numNodes' \in Nat
      BY <1>0 DEF TypeOK
    <3>2. d \in 0..(k-1)
      BY <1>0, <2>2 DEF TreeInv
    <3>3. d \in Nat /\ k \in Nat
      BY <2>2, <3>1 DEF Ids
    <3>4. Path[d] \subseteq 0..d
      BY <1>0, PathBasic
    <3> QED BY <3>2, <3>3, <3>4
  <2> QED BY <2>1, <2>2, <2>3, <2>4, <2>5
<1>6. ToSet(deque) \subseteq Ids
  BY <1>0, InSet
<1> QED BY <1>1, <1>3, <1>4, <1>5, <1>6

LEMMA ExpandDisjoint ==
  ASSUME IInv, WorkInv, [Next]_vars, NEW S, Expansion(S)
  PROVE  FrontierDisjoint'
<1> DEFINE d == Head(deque)
           t == Tail(deque)
<1>0. /\ d \in Ids /\ t \in Seq(Ids')
      /\ d \in ToSet(deque) /\ ToSet(t) \subseteq ToSet(deque)
      /\ IsInjective(t) /\ d \notin ToSet(t) /\ ToSet(deque) \subseteq Ids
      /\ ToSet(deque') = ToSet(t) \cup ToSet(S)
      /\ \A k \in ToSet(S) : /\ k \in Ids' /\ k \notin Path[d]
                             /\ tree'[k].prevId = d /\ Path'[k] = {k} \cup Path[d]
      /\ TypeOK /\ TreeInv
  BY ExpandFacts DEF IInv
<1>1. \A e \in ToSet(t) : Path'[e] = Path[e] /\ d \notin Path[e] /\ e \notin Path[d]
  BY <1>0, Kept DEF WorkInv, FrontierDisjoint
<1>2. \A e \in ToSet(t), k \in ToSet(S) : k \notin Path[e] /\ k # e
  <2> SUFFICES ASSUME NEW e \in ToSet(t), NEW k \in ToSet(S), k \in Path[e] PROVE FALSE
    <3>1. \A e \in ToSet(t) : e \in Path[e]
      BY <1>0, PathBasic
    <3> QED BY <3>1
  <2>1. e \in Ids /\ k \in Ids /\ Path[k] \subseteq Path[e]
    BY <1>0, PathDown
  <2>2. Path[k] = {k} \cup Path[d]
    BY <1>0, <2>1, Kept
  <2>3. d \in Path[d]
    BY <1>0, PathBasic
  <2> QED BY <1>1, <2>1, <2>2, <2>3
<1>3. \A x, y \in ToSet(deque') : x \in Path'[y] => x = y
  <2> SUFFICES ASSUME NEW x \in ToSet(deque'), NEW y \in ToSet(deque'), x \in Path'[y]
               PROVE  x = y
    OBVIOUS
  <2>1. CASE x \in ToSet(t) /\ y \in ToSet(t)
    BY <1>0, <1>1, <2>1 DEF WorkInv, FrontierDisjoint
  <2>2. CASE x \in ToSet(S) /\ y \in ToSet(S)
    BY <1>0, <2>2
  <2>3. CASE x \in ToSet(S) /\ y \in ToSet(t)
    BY <1>1, <1>2, <2>3
  <2>4. CASE x \in ToSet(t) /\ y \in ToSet(S)
    BY <1>0, <1>1, <1>2, <2>4
  <2> QED BY <1>0, <2>1, <2>2, <2>3, <2>4
<1>4. IsInjective(deque')
  <2>1. ToSet(t) \cap ToSet(S) = {}
    BY <1>2
  <2>2. S \in Seq(Ids') /\ IsInjective(S)
    BY DEF Expansion
  <2>3. IsInjective(t \o S) /\ IsInjective(S \o t)
    BY <1>0, <2>1, <2>2, ConcatFacts
  <2> QED BY <2>3 DEF Expansion
<1> QED BY <1>3, <1>4 DEF FrontierDisjoint

LEMMA ExpandReachable ==
  ASSUME IInv, WorkInv, [Next]_vars, NEW S, Expansion(S)
  PROVE  \A x \in ToSet(deque') : Reachable(x)'
<1> DEFINE d == Head(deque)
           f == cmd.prevId
<1>0. /\ d \in Ids /\ d \in ToSet(deque) /\ ToSet(Tail(deque)) \subseteq ToSet(deque)
      /\ ToSet(deque') = ToSet(Tail(deque)) \cup ToSet(S) /\ ToSet(deque) \subseteq Ids
      /\ \A k \in ToSet(S) : /\ k \in Ids' /\ k \notin Path[d]
                             /\ Path'[k] = {k} \cup Path[d]
      /\ UNCHANGED <<excludedNodes, cmd>>
      /\ TypeOK /\ TreeInv /\ f \in Ids \cup {-1}
  BY ExpandFacts DEF IInv, Expansion
<1>1. f # -1 => Path'[f] = Path[f]
  BY <1>0, Kept
<1>2. \A m \in Ids : tree'[m].block = tree[m].block /\ Path'[m] = Path[m]
  BY Kept
<1>3. \A y \in Ids : Path[y] \subseteq Ids
  BY <1>0, PathBasic
<1>4. ASSUME NEW x \in ToSet(Tail(deque)) PROVE Reachable(x)'
  <2>1. Reachable(x) /\ x \in Ids
    BY <1>0 DEF WorkInv
  <2>2. InFocus(x)' = InFocus(x) /\ BelowFocus(x)' = BelowFocus(x)
    BY <1>0, <1>1, <1>2, <2>1 DEF InFocus, BelowFocus
  <2>3. BelowFocus(x) \subseteq Ids
    BY <1>3, <2>1 DEF BelowFocus
  <2> QED BY <1>0, <1>2, <2>1, <2>2, <2>3 DEF Reachable
<1>5. ASSUME NEW k \in ToSet(S) PROVE Reachable(k)'
  <2>1. Reachable(d) /\ Path'[k] = {k} \cup Path[d] /\ k \notin Path[d]
    BY <1>0 DEF WorkInv
  <2>2. InFocus(k)'
    <3>1. f = -1 \/ f \in Path[d]
      BY <2>1 DEF Reachable, InFocus
    <3> QED BY <1>0, <2>1, <3>1 DEF InFocus
  <2>3. BelowFocus(k)' \ {k} \subseteq BelowFocus(d)
    BY <1>0, <1>1, <2>1 DEF BelowFocus
  <2>4. S # <<>>
    BY DEF ToSet
  <2>5. \A m \in BelowFocus(d) : m \in Ids /\ tree[m].block \notin excludedNodes
    <3>1. BelowFocus(d) \subseteq Ids
      BY <1>0, <1>3 DEF BelowFocus
    <3>2. tree[d].block \notin excludedNodes
      BY <2>4 DEF Expansion
    <3> QED BY <2>1, <3>1, <3>2 DEF Reachable
  <2> QED BY <1>0, <1>2, <2>2, <2>3, <2>5 DEF Reachable
<1> QED BY <1>0, <1>4, <1>5

LEMMA ExpandOrder ==
  ASSUME IInv, WorkInv, [Next]_vars, NEW S, Expansion(S)
  PROVE  OrderInv'
<1> DEFINE d == Head(deque)
           t == Tail(deque)
<1>0. /\ d \in Ids /\ t \in Seq(Ids') /\ t \in Seq(Ids) /\ S \in Seq(Ids')
      /\ d \in ToSet(deque) /\ ToSet(t) \subseteq ToSet(deque) /\ ToSet(deque) \subseteq Ids
      /\ ToSet(deque') = ToSet(t) \cup ToSet(S)
      /\ \A k \in ToSet(S) : /\ k \in Ids' /\ tree'[k].prevId = d
                             /\ Path'[k] = {k} \cup Path[d]
                             /\ Depth(k)' = Depth(d) + 1
      /\ TypeOK /\ TreeInv /\ deque \in Seq(Ids) /\ deque # <<>> /\ cmd' = cmd
      /\ OrderInv /\ Ids \subseteq Ids'
  <2>1. Ids \subseteq Ids'
    BY Kept
  <2> QED BY <2>1, ExpandFacts DEF IInv, TypeOK, Expansion, WorkInv
<1>1. \A m \in Ids : /\ Path'[m] = Path[m] /\ Depth(m)' = Depth(m) /\ Depth(m) \in Nat
                     /\ tree'[m].prevId = tree[m].prevId
  BY <1>0, Kept, DepthFacts
<1>2. CASE cmd.isBFS = 1
  <2>1. Sorted(deque, Level) /\ \A x, y \in ToSet(deque) : Depth(y) <= Depth(x) + 1
    BY <1>0, <1>2 DEF OrderInv
  <2>2. Sorted(t, Level) /\ \A x \in ToSet(t) : <<d, x>> \in Level
    BY <1>0, <2>1, TailFacts
  <2>3. Sorted(t, Level')
    <3>1. Level \subseteq Level'
      BY <1>0, <1>1 DEF Level
    <3> QED BY <2>2, <3>1 DEF Sorted
  <2>4. \A x \in ToSet(t) : x \in Ids /\ Depth(d) <= Depth(x) /\ Depth(x) <= Depth(d) + 1
    BY <1>0, <2>1, <2>2 DEF Level
  <2>5. \A x \in ToSet(deque') : /\ x \in Ids' /\ Depth(x)' \in Nat
                                 /\ Depth(d) <= Depth(x)' /\ Depth(x)' <= Depth(d) + 1
    BY <1>0, <1>1, <2>4
  <2>6. Sorted(S, Level')
    <3>1. \A x, y \in ToSet(S) : <<x, y>> \in Level'
      BY <1>0, <1>1 DEF Level
    <3> QED BY <1>0, <3>1, SortedAll
  <2>7. \A x \in ToSet(t), y \in ToSet(S) : <<x, y>> \in Level'
    BY <1>0, <1>1, <2>4, <2>5 DEF Level
  <2>8. Sorted(t \o S, Level')
    BY <1>0, <2>3, <2>6, <2>7, SortedConcat
  <2>9. Sorted(deque', Level')
    BY <1>2, <2>8 DEF Expansion
  <2>10. \A x, y \in ToSet(deque') : Depth(y)' <= Depth(x)' + 1
    BY <1>0, <1>1, <2>5
  <2> QED BY <1>0, <1>2, <2>9, <2>10 DEF OrderInv, Sorted
<1>3. CASE cmd.isBFS # 1
  <2>1. Sorted(deque, Return)
    BY <1>0, <1>3 DEF OrderInv
  <2>2. Sorted(t, Return) /\ \A x \in ToSet(t) : <<d, x>> \in Return
    BY <1>0, <2>1, TailFacts
  <2>3. Sorted(t, Return')
    <3>1. Return \subseteq Return'
      BY <1>0, <1>1 DEF Return
    <3> QED BY <2>2, <3>1 DEF Sorted
  <2>4. Sorted(S, Return')
    <3>1. d \in Path[d]
      BY <1>0, PathBasic
    <3>2. \A x, y \in ToSet(S) : <<x, y>> \in Return'
      BY <1>0, <3>1 DEF Return
    <3> QED BY <1>0, <3>2, SortedAll
  <2>5. \A x \in ToSet(S), y \in ToSet(t) : <<x, y>> \in Return'
    <3> SUFFICES ASSUME NEW x \in ToSet(S), NEW y \in ToSet(t) PROVE <<x, y>> \in Return'
      OBVIOUS
    <3>1. y \in Ids /\ tree[y].prevId \in Path[d] \cup {NoNode}
      BY <1>0, <2>2 DEF Return
    <3>2. tree'[y].prevId \in Path'[x] \cup {NoNode}
      BY <1>0, <1>1, <3>1
    <3> QED BY <1>0, <3>1, <3>2 DEF Return
  <2>6. Sorted(S \o t, Return')
    BY <1>0, <2>3, <2>4, <2>5, SortedConcat
  <2>7. Sorted(deque', Return')
    BY <1>3, <2>6 DEF Expansion
  <2> QED BY <1>0, <1>3, <2>7 DEF OrderInv, Sorted
<1> QED BY <1>2, <1>3

LEMMA Expand ==
  ASSUME IInv, WorkInv, [Next]_vars, pc' \in {"step", "getModel"}, NEW S, Expansion(S)
  PROVE  WorkInv'
BY ExpandDisjoint, ExpandReachable, ExpandOrder DEF WorkInv

\* A list that is empty, and one that stays.
LEMMA NoWork == deque' = <<>> => WorkInv'
<1> SUFFICES ASSUME deque' = <<>> PROVE WorkInv'
  OBVIOUS
<1>1. ToSet(deque') = {} /\ IsInjective(deque') /\ \A R : Sorted(deque', R)
  BY DEF ToSet, IsInjective, Sorted
<1> QED BY <1>1 DEF WorkInv, FrontierDisjoint, OrderInv

LEMMA SameWork ==
  ASSUME IInv, WorkInv, [Next]_vars, UNCHANGED <<deque, excludedNodes>>,
         cmd'.isBFS = cmd.isBFS, cmd'.prevId = cmd.prevId,
         pc' \in {"step", "getModel"}
  PROVE  WorkInv'
<1>0. TypeOK /\ TreeInv /\ ToSet(deque) \subseteq Ids /\ cmd.prevId \in Ids \cup {-1}
  BY InSet DEF IInv, TypeOK
<1>1. Ids \subseteq Ids'
  BY Kept
<1>2. \A n \in Ids : /\ Path'[n] = Path[n] /\ Depth(n)' = Depth(n)
                     /\ tree'[n].prevId = tree[n].prevId /\ tree'[n].block = tree[n].block
  BY Kept
<1>3. FrontierDisjoint'
  BY <1>0, <1>2 DEF WorkInv, FrontierDisjoint
<1>4. ASSUME NEW d \in ToSet(deque) PROVE Reachable(d)'
  <2>1. Reachable(d) /\ d \in Ids /\ Path[d] \subseteq Ids
    BY <1>0, PathBasic DEF WorkInv
  <2>2. InFocus(d)' = InFocus(d) /\ BelowFocus(d)' = BelowFocus(d)
    BY <1>0, <1>2, <2>1 DEF InFocus, BelowFocus
  <2>3. BelowFocus(d) \subseteq Ids
    BY <2>1 DEF BelowFocus
  <2> QED BY <1>2, <2>1, <2>2, <2>3 DEF Reachable
<1>5. OrderInv'
  <2>1. Level \subseteq Level' /\ Return \subseteq Return'
    BY <1>1, <1>2 DEF Level, Return
  <2> QED BY <1>0, <1>2, <2>1 DEF WorkInv, OrderInv, Sorted
<1> QED BY <1>3, <1>4, <1>5 DEF WorkInv

LEMMA PushFacts ==
  ASSUME NEW S, NEW ids \in Seq(S), NEW dq \in Seq(S), IsInjective(ids)
  PROVE  \E T \in Seq(S) :
           /\ IsInjective(T) /\ ToSet(T) = ToSet(ids)
           /\ Push(ids, dq) = IF cmd.isBFS = 1 THEN dq \o T ELSE T \o dq
<1>1. Ordered(ids) \in Seq(S) /\ IsInjective(Ordered(ids)) /\ ToSet(Ordered(ids)) = ToSet(ids)
  BY ReverseFacts DEF Ordered
<1>2. /\ Reverse(Ordered(ids)) \in Seq(S) /\ IsInjective(Reverse(Ordered(ids)))
      /\ ToSet(Reverse(Ordered(ids))) = ToSet(ids)
  BY <1>1, ReverseFacts
<1>3. CASE cmd.isBFS = 1
  BY <1>1, <1>3 DEF Push
<1>4. CASE cmd.isBFS # 1
  BY <1>2, <1>4 DEF Push
<1> QED BY <1>3, <1>4

LEMMA PushSet ==
  ASSUME NEW S, NEW ids \in Seq(S), NEW dq \in Seq(S), IsInjective(ids)
  PROVE  ToSet(Push(ids, dq)) = ToSet(ids) \cup ToSet(dq)
<1>1. PICK T \in Seq(S) : /\ ToSet(T) = ToSet(ids)
                          /\ Push(ids, dq) = IF cmd.isBFS = 1 THEN dq \o T ELSE T \o dq
  BY PushFacts
<1>2. ToSet(dq \o T) = ToSet(dq) \cup ToSet(T)
  BY ConcatFacts
<1>3. ToSet(T \o dq) = ToSet(T) \cup ToSet(dq)
  BY ConcatFacts
<1> QED BY <1>1, <1>2, <1>3

LEMMA EmptyFacts ==
  ASSUME NEW S
  PROVE  /\ <<>> \in Seq(S) /\ IsInjective(<<>>) /\ ToSet(<<>>) = {}
         /\ \A s \in Seq(S) : s \o <<>> = s /\ <<>> \o s = s /\ (ToSet(s) = {} => s = <<>>)
<1>1. IsInjective(<<>>) /\ ToSet(<<>>) = {}
  BY DEF IsInjective, ToSet
<1>2. ASSUME NEW s \in Seq(S)
      PROVE  s \o <<>> = s /\ <<>> \o s = s /\ (ToSet(s) = {} => s = <<>>)
  <2>1. s \o <<>> = s /\ <<>> \o s = s
    OBVIOUS
  <2>2. ASSUME ToSet(s) = {}, s # <<>> PROVE FALSE
    <3>1. 1 \in 1..Len(s)
      BY <2>2
    <3> QED BY <2>2, <3>1, InSet
  <2> QED BY <2>1, <2>2
<1>3. <<>> \in Seq(S)
  OBVIOUS
<1> QED BY <1>1, <1>2, <1>3, ZenonT(40)

\* One step of a round takes the head from the list and puts its children there.
LEMMA DequeType ==
  ASSUME IInv, deque # <<>>
  PROVE  Head(deque) \in Ids /\ Tail(deque) \in Seq(Ids)
BY DEF IInv, TypeOK

LEMMA DropHead ==
  ASSUME IInv, deque # <<>>, deque' = Tail(deque), UNCHANGED <<excludedNodes, cmd>>
  PROVE  Expansion(<<>>)
<1>1. Tail(deque) \o <<>> = Tail(deque) /\ <<>> \o Tail(deque) = Tail(deque)
  BY DequeType, EmptyFacts
<1>2. <<>> \in Seq(Ids') /\ IsInjective(<<>>) /\ ToSet(<<>>) = {}
  BY DEF IsInjective, ToSet
<1>3. PICK T : T = <<>>
  OBVIOUS
<1>4. Expansion(T)
  BY <1>1, <1>2, <1>3 DEF Expansion
<1> QED BY <1>3, <1>4

LEMMA SkipWork == ASSUME IInv, WorkInv, [Next]_vars, SkipExcluded PROVE WorkInv'
<1>1. deque # <<>> /\ deque' = Tail(deque) /\ pc' = "step" /\ UNCHANGED <<excludedNodes, cmd>>
  BY DEF SkipExcluded, MoreSteps
<1>2. Expansion(<<>>)
  BY <1>1, DropHead
<1> QED BY <1>1, <1>2, Expand

LEMMA RevisitWork == ASSUME IInv, WorkInv, LinkInv, [Next]_vars, Revisit PROVE WorkInv'
<1> DEFINE n == Head(deque)
<1>1. /\ deque # <<>> /\ pc' = "step" /\ UNCHANGED <<tree, numNodes, excludedNodes, cmd>>
      /\ tree[n].block \notin excludedNodes
      /\ deque' = IF tree[n].isSatisfiable THEN Push(children(n), Tail(deque))
                                           ELSE Tail(deque)
  BY DEF Revisit, MoreSteps, isExcluded
<1>2. n \in Ids /\ Tail(deque) \in Seq(Ids) /\ TypeOK /\ TreeInv /\ Ids' = Ids
  BY <1>1, DequeType DEF IInv, Ids
<1>3. CASE ~tree[n].isSatisfiable
  <2>1. Expansion(<<>>)
    BY <1>1, <1>3, DropHead
  <2> QED BY <1>1, <2>1, Expand
<1>4. CASE tree[n].isSatisfiable
  <2>1. /\ children(n) \in Seq(Ids) /\ IsInjective(children(n))
        /\ \A c \in ToSet(children(n)) : c \in Ids \ {0} /\ tree[c].prevId = n
    BY <1>2, ChildrenFacts
  <2>2. PICK T \in Seq(Ids) :
          /\ IsInjective(T) /\ ToSet(T) = ToSet(children(n))
          /\ deque' = IF cmd.isBFS = 1 THEN Tail(deque) \o T ELSE T \o Tail(deque)
    BY <1>1, <1>2, <1>4, <2>1, PushFacts, ZenonT(40)
  <2>3. Expansion(T)
    BY <1>1, <1>2, <2>1, <2>2 DEF Expansion
  <2> QED BY <1>1, <2>3, Expand
<1> QED BY <1>3, <1>4

LEMMA KidIdsFacts ==
  ASSUME numNodes \in Nat \ {0}, NEW kids, Len(kids) \in Nat
  PROVE  /\ IsInjective(KidIds(kids))
         /\ ToSet(KidIds(kids)) = numNodes..(numNodes + Len(kids) - 1)
<1>1. /\ DOMAIN KidIds(kids) = 1..Len(kids)
      /\ \A k \in 1..Len(kids) : KidIds(kids)[k] = numNodes + k - 1
  BY DEF KidIds
<1>2. IsInjective(KidIds(kids))
  BY <1>1 DEF IsInjective
<1>3. ASSUME NEW m \in numNodes..(numNodes + Len(kids) - 1)
      PROVE  \E k \in 1..Len(kids) : KidIds(kids)[k] = m
  <2>1. m - numNodes + 1 \in 1..Len(kids) /\ numNodes + (m - numNodes + 1) - 1 = m
    OBVIOUS
  <2> QED BY <1>1, <2>1
<1>4. \A k \in 1..Len(kids) : KidIds(kids)[k] \in numNodes..(numNodes + Len(kids) - 1)
  BY <1>1
<1>5. ToSet(KidIds(kids)) = {KidIds(kids)[k] : k \in 1..Len(kids)}
  BY <1>1 DEF ToSet
<1>6. ToSet(KidIds(kids)) = numNodes..(numNodes + Len(kids) - 1)
  <2> HIDE DEF KidIds
  <2> QED BY <1>3, <1>4, <1>5
<1> QED BY <1>2, <1>6

LEMMA ExecuteWork == ASSUME IInv, WorkInv, [Next]_vars, ExecuteNode PROVE WorkInv'
<1>1. /\ Head(deque) \in Ids /\ Tail(deque) \in Seq(Ids) /\ deque # <<>>
      /\ Ids \subseteq Ids' /\ TypeOK /\ TreeInv /\ pc' \in {"step", "getModel"}
      /\ UNCHANGED <<excludedNodes, cmd>>
      /\ tree[Head(deque)].block \notin excludedNodes
  <2>1. Ids \subseteq Ids'
    BY ExecuteStep
  <2>2. /\ pc' \in {"step", "getModel"} /\ UNCHANGED <<excludedNodes, cmd>> /\ deque # <<>>
        /\ tree[Head(deque)].block \notin excludedNodes
    BY DEF ExecuteNode, isExcluded, MoreSteps
  <2> QED BY <2>1, <2>2, DequeType DEF IInv
<1>2. PICK n \in Ids : n = Head(deque)
  BY <1>1
<1>3. PICK o \in IF tree[n].isSatisfiable THEN executeBasicBlock(n)
                                          ELSE {Outcome(tree[n], <<>>)} :
        /\ tree' = Grow(n, Link(o.self, o.kids), o.kids)
        /\ numNodes' = numNodes + Len(o.kids)
        /\ deque' = Push(KidIds(o.kids), Tail(deque))
  BY <1>2 DEF ExecuteNode
<1>4. GoodOutcome(n, Outcome(o.self, o.kids))
  <2>1. GoodOutcome(n, o)
    BY <1>1, <1>2, <1>3, ExecutionOutcome, NoKid, SameNode
  <2> QED BY <2>1 DEF GoodOutcome
<1>5. PICK kids : kids = o.kids
  OBVIOUS
<1>6. kids \in Seq(Node) /\ Len(kids) \in Nat /\ numNodes \in Nat \ {0}
  BY <1>1, <1>4, <1>5 DEF GoodOutcome, Outcome, TypeOK
<1>7. /\ KidIds(kids) \in Seq(Ids')
      /\ \A m \in Ids' \ Ids : Kid(n, tree'[m])
  BY <1>1, <1>3, <1>4, <1>5, Growth
<1>8. IsInjective(KidIds(kids)) /\ ToSet(KidIds(kids)) = numNodes..(numNodes + Len(kids) - 1)
  BY <1>6, KidIdsFacts
<1>9. \A k \in ToSet(KidIds(kids)) : k \in Ids' \ {0} /\ tree'[k].prevId = n
  <2>1. \A k \in ToSet(KidIds(kids)) : k \in Ids' \ Ids /\ k # 0
    BY <1>3, <1>5, <1>6, <1>8 DEF Ids
  <2> QED BY <1>7, <2>1 DEF Kid
<1>10. PICK T \in Seq(Ids') :
         /\ IsInjective(T) /\ ToSet(T) = ToSet(KidIds(kids))
         /\ deque' = IF cmd.isBFS = 1 THEN Tail(deque) \o T ELSE T \o Tail(deque)
  <2>1. Tail(deque) \in Seq(Ids')
    BY <1>1, SeqMonotone
  <2> QED BY <1>3, <1>5, <1>7, <1>8, <2>1, PushFacts
<1>11. Expansion(T)
  BY <1>1, <1>2, <1>9, <1>10 DEF Expansion
<1> QED BY <1>1, <1>11, Expand

LEMMA RootWork ==
  ASSUME IInv, StartRound, cmd.prevId = -1, deque' = << 0 >>
  PROVE  WorkInv'
<1>1. /\ UNCHANGED <<tree, numNodes, excludedNodes, cmd>> /\ pc' = "step"
      /\ TypeOK' /\ TreeInv' /\ TypeOK /\ TreeInv
  BY StartRoundStep DEF StartRound, IInv
<1>2. PICK s : s = deque'
  OBVIOUS
<1>3. ToSet(s) = {0} /\ IsInjective(s) /\ Len(s) = 1 /\ \A R : Sorted(s, R)
  BY <1>2 DEF ToSet, IsInjective, Sorted
<1>4. FrontierDisjoint'
  BY <1>2, <1>3 DEF FrontierDisjoint
<1>5. PathEquation'
  BY <1>1, PathEquationNext
<1>6. Reachable(0)'
  BY <1>1, <1>5 DEF Reachable, InFocus, BelowFocus, PathEquation
<1>7. DepthEquation' /\ 0 \in Ids'
  BY <1>1, DepthEquationNext DEF Ids, TypeOK
<1>8. Depth(0)' \in Nat
  BY <1>7 DEF DepthEquation
<1>9. OrderInv'
  BY <1>2, <1>3, <1>8 DEF OrderInv
<1> QED BY <1>1, <1>2, <1>3, <1>4, <1>6, <1>9 DEF WorkInv

\* A round that starts with the children of the clicked node.
LEMMA ClickedWork ==
  ASSUME IInv, LinkInv, StartRound, cmd.prevId # -1, tree[cmd.prevId].isExecuted,
         deque' = IF cmd.dir = 1 THEN children(cmd.prevId) ELSE Reverse(children(cmd.prevId))
  PROVE  WorkInv'
<1>1. /\ UNCHANGED <<tree, numNodes, excludedNodes, cmd>> /\ pc' = "step"
      /\ TypeOK' /\ TreeInv' /\ TypeOK /\ TreeInv /\ Ids' = Ids
  BY StartRoundStep DEF StartRound, IInv, Ids
<1>2. PICK f \in Ids : f = cmd.prevId
  BY DEF IInv
<1>3. /\ children(f) \in Seq(Ids) /\ IsInjective(children(f))
      /\ \A c \in ToSet(children(f)) : c \in Ids \ {0} /\ tree[c].prevId = f
  BY <1>1, ChildrenFacts
<1>4. PICK s \in Seq(Ids) : s = deque' /\ IsInjective(s) /\ ToSet(s) = ToSet(children(f))
  BY <1>2, <1>3, ReverseFacts
<1>5. /\ PathEquation' /\ DepthEquation'
      /\ f \in Path'[f] /\ Path'[f] \subseteq 0..f
  <2>1. Path = Path' /\ PathEquation' /\ DepthEquation'
    BY <1>1, PathEquationNext, DepthEquationNext DEF Path, Ids
  <2> QED BY <1>1, <1>2, <2>1, PathBasic
<1>6. ASSUME NEW c \in ToSet(s)
      PROVE  /\ c \in Ids /\ tree'[c].prevId = f /\ Path'[c] = {c} \cup Path'[f]
             /\ c \notin Path'[f] /\ Depth(c)' = Cardinality(Path'[f]) + 1 /\ Depth(c)' \in Nat
  <2>1. c \in Ids \ {0} /\ tree'[c].prevId = f /\ tree[c].prevId = f
    BY <1>1, <1>3, <1>4
  <2>2. f \in 0..(c-1) /\ c \in Nat /\ f \in Nat
    <3>1. numNodes \in Nat /\ f \in 0..(c-1)
      BY <1>1, <2>1 DEF TypeOK, TreeInv
    <3> QED BY <2>1, <3>1 DEF Ids
  <2>3. ~(c \in 0..f)
    BY <2>2
  <2> QED BY <1>1, <1>5, <2>1, <2>3 DEF PathEquation, DepthEquation, Depth
<1>7. FrontierDisjoint'
  <2>1. \A c, d \in ToSet(s) : c \in Path'[d] => c = d
    BY <1>6
  <2> QED BY <1>4, <2>1 DEF FrontierDisjoint
<1>8. \A c \in ToSet(s) : Reachable(c)'
  <2> SUFFICES ASSUME NEW c \in ToSet(s) PROVE Reachable(c)'
    OBVIOUS
  <2>1. InFocus(c)'
    BY <1>1, <1>2, <1>5, <1>6 DEF InFocus
  <2>2. BelowFocus(c)' \ {c} = {}
    BY <1>1, <1>2, <1>6 DEF BelowFocus
  <2> QED BY <2>1, <2>2 DEF Reachable
<1>9. OrderInv'
  <2>1. \A x, y \in ToSet(s) : <<x, y>> \in Level' /\ <<x, y>> \in Return'
    BY <1>1, <1>5, <1>6 DEF Level, Return
  <2>2. Sorted(s, Level') /\ Sorted(s, Return')
    BY <2>1, SortedAll
  <2>3. \A x, y \in ToSet(s) : Depth(y)' <= Depth(x)' + 1
    BY <1>6
  <2> QED BY <1>4, <2>2, <2>3 DEF OrderInv, Sorted
<1> QED BY <1>1, <1>4, <1>7, <1>8, <1>9 DEF WorkInv

LEMMA WorkInit == Init => WorkInv
<1> SUFFICES ASSUME Init PROVE WorkInv
  OBVIOUS
<1>1. deque = <<>>
  BY DEF Init
<1>2. ToSet(deque) = {} /\ IsInjective(deque) /\ \A R : Sorted(deque, R)
  BY <1>1 DEF ToSet, IsInjective, Sorted
<1> QED BY <1>1, <1>2 DEF WorkInv, FrontierDisjoint, OrderInv

LEMMA WorkStep == ASSUME IInv, WorkInv, LinkInv, [Next]_vars PROVE WorkInv'
<1>1. CASE StartRound
  <2>1. \/ cmd.prevId = -1 /\ deque' = <<0>>
        \/ /\ cmd.prevId # -1 /\ tree[cmd.prevId].isExecuted
           /\ deque' = IF cmd.dir = 1 THEN children(cmd.prevId)
                                      ELSE Reverse(children(cmd.prevId))
        \/ deque' = <<>>
    BY <1>1 DEF StartRound
  <2> QED BY <1>1, <2>1, RootWork, ClickedWork, NoWork
<1>2. CASE SkipExcluded
  BY <1>2, SkipWork
<1>3. CASE Revisit
  BY <1>3, RevisitWork
<1>4. CASE ExecuteNode
  BY <1>4, ExecuteWork
<1>5. CASE EndRound
  <2>1. deque' = <<>>
    BY <1>5 DEF EndRound
  <2> QED BY <2>1, NoWork
<1>6. CASE ModelAnswer
  <2>1. PICK p \in 0..MaxPairs : cmd' = [cmd EXCEPT !.steps = IF @ = -1 THEN -1 ELSE @ + p]
    BY <1>6 DEF ModelAnswer
  <2>2. cmd'.isBFS = cmd.isBFS /\ cmd'.prevId = cmd.prevId
    BY <2>1 DEF IInv, TypeOK
  <2>3. UNCHANGED <<deque, excludedNodes>> /\ pc' = "step"
    BY <1>6 DEF ModelAnswer
  <2> QED BY <2>2, <2>3, SameWork
<1>7. CASE FirstProceed \/ FirstExclude \/ WakeProceed \/ ExcludeLine \/ ExcludeNode
  <2>1. pc \in {"names", "asleep"} /\ deque' = deque
    BY <1>7 DEF FirstProceed, FirstExclude, WakeProceed, ExcludeLine, ExcludeNode, WakeExclude
  <2>2. deque' = <<>>
    BY <2>1 DEF WorkInv
  <2> QED BY <2>2, NoWork
<1>8. CASE UNCHANGED vars
  <2>1. CASE pc \in {"step", "getModel"}
    BY <1>8, <2>1, SameWork DEF vars
  <2>2. CASE pc \notin {"step", "getModel"}
    <3>1. deque' = <<>>
      BY <1>8, <2>2 DEF vars, WorkInv
    <3> QED BY <3>1, NoWork
  <2> QED BY <2>1, <2>2
<1> QED BY <1>1, <1>2, <1>3, <1>4, <1>5, <1>6, <1>7, <1>8 DEF Next, Engine, User

LEMMA WorkInvariance == Spec => [](IInv /\ LinkInv /\ WorkInv)
<1>1. IInv /\ LinkInv /\ WorkInv /\ [Next]_vars => IInv' /\ LinkInv' /\ WorkInv'
  BY Inductive, LinkStep, WorkStep
<1>2. Init => IInv /\ LinkInv /\ WorkInv
  BY InitInv, LinkInit, WorkInit
<1> QED BY <1>1, <1>2, PTL DEF Spec

\* The parts of the tree still to visit never overlap: no node is in the work
\* list twice or together with one of its ancestors.
THEOREM PartsDisjoint == Spec => []FrontierDisjoint
<1>1. WorkInv => FrontierDisjoint
  BY DEF WorkInv
<1> QED BY <1>1, WorkInvariance, PTL

\* Breadth first goes level by level, depth first finishes a subtree before it
\* returns to a sibling of an ancestor, in rounds of any length and overlap.
THEOREM VisitsInOrder == Spec => []SearchOrder
<1>1. ASSUME IInv, WorkInv PROVE SearchOrder
  <2> SUFFICES ASSUME NEW j \in 1..Len(deque), NEW k \in 1..Len(deque), j < k
               PROVE  IF cmd.isBFS = 1
                        THEN Depth(deque[j]) <= Depth(deque[k])
                        ELSE tree[deque[k]].prevId \in Path[deque[j]] \cup {NoNode}
    BY DEF SearchOrder
  <2>1. CASE cmd.isBFS = 1
    <3>1. <<deque[j], deque[k]>> \in Level
      BY <1>1, <2>1 DEF WorkInv, OrderInv, Sorted
    <3> QED BY <2>1, <3>1 DEF Level
  <2>2. CASE cmd.isBFS # 1
    <3>1. <<deque[j], deque[k]>> \in Return
      BY <1>1, <2>2 DEF WorkInv, OrderInv, Sorted
    <3> QED BY <2>2, <3>1 DEF Return
  <2> QED BY <2>1, <2>2
<1> QED BY <1>1, WorkInvariance, PTL

LEMMA InsideStep ==
  ASSUME IInv, WorkInv, [Next]_vars, NEW n \in Ids, Executes(n)
  PROVE  InFocus(n) /\ \A m \in BelowFocus(n) : tree[m].block \notin excludedNodes
<1>1. ExecuteNode
  BY TreeStep DEF Executes
<1>2. n = Head(deque)
  BY <1>1, ExecuteStep DEF Executes
<1>3. deque # <<>> /\ tree[n].block \notin excludedNodes
  BY <1>1, <1>2 DEF ExecuteNode, MoreSteps, isExcluded
<1>4. n \in ToSet(deque)
  BY <1>2, <1>3, TailFacts DEF IInv, TypeOK
<1> QED BY <1>3, <1>4 DEF WorkInv, Reachable

\* Whatever the user excludes and clicks, a round executes only nodes below the
\* clicked one, and none that lies in or, on that path, behind an excluded block.
THEOREM RoundInside == Spec => RoundStaysInside
<1>1. IInv /\ WorkInv /\ [Next]_vars =>
        [\A n \in Ids : Executes(n) =>
           /\ InFocus(n)
           /\ \A m \in BelowFocus(n) : tree[m].block \notin excludedNodes]_vars
  BY InsideStep
<1> QED BY <1>1, WorkInvariance, PTL DEF Spec, RoundStaysInside

-----------------------------------------------------------------------------
(* What the work list covers.                                              *)

\* The node n still has to be explored in this round.
Pending(n) ==
  /\ ~tree[n].isExecuted
  /\ InFocus(n)
  /\ \A m \in BelowFocus(n) :
       /\ tree[m].block \notin excludedNodes
       /\ Linked(m)
       /\ m # n => tree[m].isExecuted /\ tree[m].isSatisfiable

Covered(n) == \E d \in ToSet(deque) : d \in Path[n]

\* Nodes of the list, and the nodes under them, are below the clicked node.
LEMMA Below ==
  ASSUME TypeOK, TreeInv, cmd.prevId \in Ids \cup {-1}, NEW d \in Ids, InFocus(d),
         NEW n \in Ids, d \in Path[n]
  PROVE  /\ d \in BelowFocus(n)
         /\ \A c \in Path[n] : d \in Path[c] => c \in BelowFocus(n)
<1> DEFINE f == cmd.prevId
<1>1. CASE f = -1
  BY <1>1 DEF BelowFocus
<1>2. CASE f # -1
  <2>1. f \in Path[d] \ {d} /\ f \in Ids
    BY <1>2 DEF InFocus
  <2>2. d \notin Path[f]
    <3>1. f \in 0..d /\ f # d /\ Path[f] \subseteq 0..f
      BY <2>1, PathBasic
    <3>2. f \in Nat /\ d \in Nat
      BY <2>1 DEF Ids
    <3>3. ~(d \in 0..f)
      BY <3>1, <3>2
    <3> QED BY <3>1, <3>3
  <2>3. ASSUME NEW c \in Path[n], d \in Path[c], c \in Path[f] PROVE FALSE
    <3>1. c \in Ids /\ Path[c] \subseteq Path[f]
      BY <2>1, <2>3, PathDown
    <3> QED BY <2>2, <2>3, <3>1
  <2> QED BY <1>2, <2>2, <2>3 DEF BelowFocus
<1> QED BY <1>1, <1>2

\* A pending node below an executed node hangs below one of its children.
LEMMA PendingChild ==
  ASSUME TypeOK, TreeInv, LinkInv, cmd.prevId \in Ids \cup {-1},
         NEW n \in Ids, Pending(n), NEW d \in Path[n] \ {n}, d \in Ids,
         d = cmd.prevId \/ InFocus(d)
  PROVE  \E c \in ToSet(children(d)) : c \in Path[n]
<1>1. PICK c \in Path[n] \ {0} : c \in Ids /\ tree[c].prevId = d
  BY PathLink
<1>2. d \in Path[d] /\ Path[c] = {c} \cup Path[d] /\ d \in 0..(c-1)
  BY <1>1, PathDef, PathBasic
<1>3. c \in BelowFocus(n)
  <2>1. CASE d = cmd.prevId
    <3>1. c \in Nat /\ d \in Nat
      BY <1>1 DEF Ids
    <3>2. ~(c \in 0..d) /\ Path[d] \subseteq 0..d /\ d # -1
      BY <1>2, <3>1, PathBasic
    <3> QED BY <1>1, <2>1, <3>2 DEF BelowFocus
  <2>2. CASE InFocus(d)
    BY <1>1, <1>2, <2>2, Below
  <2> QED BY <2>1, <2>2
<1>4. Linked(c)
  BY <1>3 DEF Pending
<1> QED BY <1>1, <1>4, ChildrenFacts

\* A node that was pending before the step is covered after it when the node of
\* the list above it stays or makes room for its children.
LEMMA CoverQuiet ==
  ASSUME IInv, LinkInv, WorkInv, [Next]_vars, NEW n \in Ids, Pending(n), Covered(n),
         UNCHANGED <<tree, numNodes>>, SkipExcluded \/ Revisit
  PROVE  Covered(n)'
<1>0. /\ TypeOK /\ TreeInv /\ cmd.prevId \in Ids \cup {-1} /\ Ids' = Ids
      /\ deque # <<>> /\ deque \in Seq(Ids)
  BY DEF IInv, TypeOK, SkipExcluded, Revisit, MoreSteps, Ids
<1>1. PICK d \in ToSet(deque) : d \in Path[n]
  BY DEF Covered
<1>2. d \in Ids /\ Reachable(d) /\ Path' = Path
  BY <1>0, InSet DEF WorkInv, Path
<1>3. d \in BelowFocus(n)
  BY <1>0, <1>1, <1>2, Below DEF Reachable
<1>4. ToSet(deque) = {Head(deque)} \cup ToSet(Tail(deque))
  BY <1>0, TailFacts
<1>5. CASE SkipExcluded
  <2>1. deque' = Tail(deque) /\ tree[Head(deque)].block \in excludedNodes
    BY <1>5 DEF SkipExcluded, isExcluded
  <2>2. d # Head(deque)
    BY <1>3, <2>1 DEF Pending
  <2>3. d \in ToSet(deque')
    BY <1>1, <1>4, <2>1, <2>2
  <2> QED BY <1>1, <1>2, <2>3 DEF Covered
<1>6. CASE Revisit
  <2>1. /\ tree[Head(deque)].isExecuted
        /\ deque' = IF tree[Head(deque)].isSatisfiable
                      THEN Push(children(Head(deque)), Tail(deque)) ELSE Tail(deque)
    BY <1>6 DEF Revisit, isFresh
  <2>2. Head(deque) \in Ids /\ Tail(deque) \in Seq(Ids)
    BY <1>0, DequeType
  <2>3. /\ children(Head(deque)) \in Seq(Ids) /\ IsInjective(children(Head(deque)))
    BY <1>0, <2>2, ChildrenFacts
  <2>4. ToSet(Push(children(Head(deque)), Tail(deque))) =
          ToSet(children(Head(deque))) \cup ToSet(Tail(deque))
    BY <2>2, <2>3, PushSet, ZenonT(40)
  <2>5. CASE d # Head(deque)
    <3>1. d \in ToSet(Tail(deque))
      BY <1>1, <1>4, <2>5
    <3>2. d \in ToSet(deque')
      BY <2>1, <2>3, <2>4, <3>1
    <3> QED BY <1>1, <1>2, <3>2 DEF Covered
  <2>6. CASE d = Head(deque)
    <3>1. d # n
      BY <2>1, <2>6 DEF Pending
    <3>2. tree[d].isSatisfiable
      BY <1>3, <3>1 DEF Pending
    <3>3. PICK c \in ToSet(children(d)) : c \in Path[n]
      BY <1>0, <1>1, <1>2, <3>1, PendingChild DEF Reachable
    <3>4. c \in ToSet(deque')
      BY <2>1, <2>3, <2>4, <2>6, <3>2, <3>3
    <3> QED BY <1>2, <3>3, <3>4 DEF Covered
  <2> QED BY <2>5, <2>6
<1> QED BY <1>5, <1>6

\* What executing the head does to the tree and the list.
LEMMA ExecuteGrowth ==
  ASSUME IInv, ExecuteNode
  PROVE  /\ ToSet(Tail(deque)) \cup (Ids' \ Ids) \subseteq ToSet(deque')
         /\ UNCHANGED <<excludedNodes, cmd>>
<1>1. /\ Head(deque) \in Ids /\ Tail(deque) \in Seq(Ids) /\ Ids \subseteq Ids'
      /\ TypeOK /\ TreeInv /\ UNCHANGED <<excludedNodes, cmd>>
  <2>1. deque # <<>> /\ UNCHANGED <<excludedNodes, cmd>>
    BY DEF ExecuteNode, MoreSteps
  <2> QED BY <2>1, ExecuteStep, DequeType DEF IInv
<1>2. PICK n \in Ids : n = Head(deque)
  BY <1>1
<1>3. PICK o \in IF tree[n].isSatisfiable THEN executeBasicBlock(n)
                                          ELSE {Outcome(tree[n], <<>>)} :
        /\ tree' = Grow(n, Link(o.self, o.kids), o.kids)
        /\ numNodes' = numNodes + Len(o.kids)
        /\ deque' = Push(KidIds(o.kids), Tail(deque))
  BY <1>2 DEF ExecuteNode
<1>4. GoodOutcome(n, Outcome(o.self, o.kids))
  <2>1. GoodOutcome(n, o)
    BY <1>1, <1>2, <1>3, ExecutionOutcome, NoKid, SameNode
  <2> QED BY <2>1 DEF GoodOutcome
<1>5. PICK kids : kids = o.kids
  OBVIOUS
<1>6. kids \in Seq(Node) /\ Len(kids) \in Nat /\ numNodes \in Nat \ {0}
  BY <1>1, <1>4, <1>5 DEF GoodOutcome, Outcome, TypeOK
<1>7. KidIds(kids) \in Seq(Ids')
  BY <1>1, <1>3, <1>4, <1>5, Growth
<1>8. IsInjective(KidIds(kids)) /\ ToSet(KidIds(kids)) = numNodes..(numNodes + Len(kids) - 1)
  BY <1>6, KidIdsFacts
<1>9. Ids' \ Ids = numNodes..(numNodes + Len(kids) - 1)
  BY <1>3, <1>5, <1>6 DEF Ids
<1>10. Tail(deque) \in Seq(Ids')
  BY <1>1, SeqMonotone
<1>11. ToSet(deque') = ToSet(KidIds(kids)) \cup ToSet(Tail(deque))
  <2>1. deque' = Push(KidIds(kids), Tail(deque))
    BY <1>3, <1>5
  <2>2. /\ KidIds(kids) \in Seq(Ids') /\ Tail(deque) \in Seq(Ids')
        /\ IsInjective(KidIds(kids))
    BY <1>7, <1>8, <1>10
  <2>3. ToSet(Push(KidIds(kids), Tail(deque))) = ToSet(KidIds(kids)) \cup ToSet(Tail(deque))
    BY <2>2, PushSet, ZenonT(40)
  <2> QED BY <2>1, <2>3
<1> QED BY <1>1, <1>8, <1>9, <1>11

LEMMA CoverExecute ==
  ASSUME IInv, LinkInv, WorkInv, [Next]_vars, ExecuteNode, NEW n \in Ids', Pending(n)',
         n \in Ids /\ Pending(n) => Covered(n)
  PROVE  Covered(n)'
<1>0. /\ TypeOK /\ TreeInv /\ TypeOK' /\ TreeInv' /\ cmd.prevId \in Ids \cup {-1}
      /\ Ids \subseteq Ids' /\ deque # <<>> /\ deque \in Seq(Ids)
      /\ \A m \in Ids : Path'[m] = Path[m] /\ tree'[m].prevId = tree[m].prevId
                        /\ tree'[m].block = tree[m].block
      /\ Path'[n] \subseteq Ids' /\ n \in Path'[n]
      /\ UNCHANGED <<excludedNodes, cmd>>
      /\ ToSet(Tail(deque)) \cup (Ids' \ Ids) \subseteq ToSet(deque')
  <2>1. TypeOK' /\ TreeInv' /\ Ids \subseteq Ids'
    BY ExecuteStep DEF IInv
  <2>2. deque # <<>>
    BY DEF ExecuteNode, MoreSteps
  <2>3. \A m \in Ids : Path'[m] = Path[m] /\ tree'[m].prevId = tree[m].prevId
                       /\ tree'[m].block = tree[m].block
    BY Kept
  <2>4. Path'[n] \subseteq Ids' /\ n \in Path'[n]
    BY <2>1, PathBasicNext DEF PathBounds
  <2> QED BY <2>1, <2>2, <2>3, <2>4, ExecuteGrowth DEF IInv, TypeOK
<1>1. CASE n \notin Ids
  <2>1. n \in ToSet(deque')
    BY <1>0, <1>1
  <2> QED BY <1>0, <2>1 DEF Covered
<1>2. CASE n \in Ids
  <2>1. PICK d \in Ids : d = Head(deque)
    BY <1>0, DequeType
  <2>2. ~tree[d].isExecuted /\ tree'[d].isExecuted /\ \A m \in Ids \ {d} : tree'[m] = tree[m]
    BY <2>1, ExecuteStep
  <2>3. n # d /\ ~tree[n].isExecuted
    BY <1>2, <2>2 DEF Pending
  <2>4. \A m \in Path[n] : m \in Ids /\ m # d
    BY <1>0, <1>2, <2>2, <2>3, PathExecuted, PathBasic
  <2>5. \A m \in Path[n] : tree'[m] = tree[m] /\ (Linked(m)' => Linked(m))
    <3> SUFFICES ASSUME NEW m \in Path[n] PROVE tree'[m] = tree[m] /\ (Linked(m)' => Linked(m))
      OBVIOUS
    <3>1. tree'[m] = tree[m] /\ m \in Ids
      BY <2>2, <2>4
    <3>2. CASE m # 0
      <4>1. tree[m].prevId \in Ids /\ tree[tree[m].prevId].isExecuted
        BY <3>1, <3>2, ParentNode
      <4>2. tree'[tree[m].prevId] = tree[tree[m].prevId]
        BY <2>2, <4>1
      <4> QED BY <3>1, <3>2, <4>2 DEF Linked
    <3> QED BY <3>1, <3>2 DEF Linked
  <2>6. InFocus(n)' = InFocus(n) /\ BelowFocus(n)' = BelowFocus(n)
    BY <1>0, <1>2 DEF InFocus, BelowFocus
  <2>7. BelowFocus(n) \subseteq Path[n]
    BY DEF BelowFocus
  <2>8. Pending(n)
    <3>1. InFocus(n)
      BY <2>6 DEF Pending
    <3>2. ASSUME NEW m \in BelowFocus(n)
          PROVE  /\ tree[m].block \notin excludedNodes /\ Linked(m)
                 /\ m # n => tree[m].isExecuted /\ tree[m].isSatisfiable
      <4>1. m \in Path[n] /\ m \in BelowFocus(n)'
        BY <2>6, <2>7
      <4>2. /\ tree'[m].block \notin excludedNodes /\ Linked(m)'
            /\ m # n => tree'[m].isExecuted /\ tree'[m].isSatisfiable
        BY <1>0, <4>1 DEF Pending
      <4> QED BY <2>5, <4>1, <4>2
    <3> QED BY <2>3, <3>1, <3>2 DEF Pending
  <2>9. PICK e \in ToSet(deque) : e \in Path[n]
    BY <1>2, <2>8 DEF Covered
  <2>10. e \in ToSet(Tail(deque))
    <3>1. ToSet(deque) = {Head(deque)} \cup ToSet(Tail(deque))
      BY <1>0, TailFacts
    <3> QED BY <2>1, <2>4, <2>9, <3>1
  <2> QED BY <1>0, <1>2, <2>9, <2>10 DEF Covered
<1> QED BY <1>1, <1>2

\* The first nodes of a round cover everything below the clicked node.
LEMMA CoverStart ==
  ASSUME IInv, LinkInv, StartRound, pc' = "step", NEW n \in Ids, Pending(n)'
  PROVE  Covered(n)'
<1>0. /\ TypeOK /\ TreeInv /\ cmd.prevId \in Ids \cup {-1}
      /\ Path' = Path /\ UNCHANGED <<tree, excludedNodes, cmd>> /\ Ids' = Ids
  BY DEF IInv, StartRound, Path, Ids
<1>1. Pending(n)
  BY <1>0 DEF Pending, InFocus, BelowFocus, Linked
<1>2. CASE cmd.prevId = -1
  <2>1. deque' = <<0>>
    BY <1>2 DEF StartRound
  <2>2. 0 \in ToSet(deque')
    BY <2>1 DEF ToSet
  <2>3. 0 \in Path'[n]
    BY <1>0, PathBasic
  <2> QED BY <2>2, <2>3 DEF Covered
<1>3. CASE cmd.prevId # -1
  <2>1. PICK f \in Ids : f = cmd.prevId
    BY <1>0, <1>3
  <2>2. deque' = IF cmd.dir = 1 THEN children(f) ELSE Reverse(children(f))
    BY <1>3, <2>1 DEF StartRound
  <2>3. f \in Path[n] \ {n}
    BY <1>1, <1>3, <2>1 DEF Pending, InFocus
  <2>4. PICK c \in ToSet(children(f)) : c \in Path[n]
    BY <1>0, <1>1, <2>1, <2>3, PendingChild
  <2>5. ToSet(deque') = ToSet(children(f))
    <3>1. children(f) \in Seq(Ids)
      BY <1>0, ChildrenFacts
    <3> QED BY <2>2, <3>1, ReverseFacts
  <2> QED BY <1>0, <2>4, <2>5 DEF Covered
<1> QED BY <1>2, <1>3

LEMMA CoverStep ==
  ASSUME IInv, LinkInv, WorkInv, FrontierCovered, [Next]_vars
  PROVE  FrontierCovered'
<1>1. pc \in {"step", "getModel"} => \A n \in Ids : Pending(n) => Covered(n)
  BY DEF FrontierCovered, Pending, Covered
<1>2. SUFFICES ASSUME pc' \in {"step", "getModel"}, NEW n \in Ids', Pending(n)'
               PROVE  Covered(n)'
  BY DEF FrontierCovered, Pending, Covered
<1>3. CASE StartRound
  <2>1. Ids' = Ids /\ pc' = "step"
    BY <1>2, <1>3 DEF StartRound, Ids
  <2> QED BY <1>2, <1>3, <2>1, CoverStart
<1>4. CASE SkipExcluded \/ Revisit
  <2>1. UNCHANGED <<tree, numNodes, excludedNodes, cmd>> /\ pc = "step"
    BY <1>4 DEF SkipExcluded, Revisit
  <2>2. n \in Ids /\ Pending(n)
    BY <1>2, <2>1 DEF Pending, InFocus, BelowFocus, Linked, Path, Ids
  <2> QED BY <1>1, <1>4, <2>1, <2>2, CoverQuiet
<1>5. CASE ExecuteNode
  <2>1. pc = "step"
    BY <1>5 DEF ExecuteNode
  <2> QED BY <1>1, <1>2, <1>5, <2>1, CoverExecute
<1>6. CASE ModelAnswer \/ UNCHANGED vars
  <2>1. ~ExecuteNode \/ UNCHANGED vars
    BY <1>6 DEF ModelAnswer, ExecuteNode
  <2>2. /\ pc \in {"step", "getModel"} /\ UNCHANGED <<deque, excludedNodes>>
        /\ cmd'.prevId = cmd.prevId
    <3>1. CASE ModelAnswer
      <4>1. PICK p \in 0..MaxPairs : cmd' = [cmd EXCEPT !.steps = IF @ = -1 THEN -1 ELSE @ + p]
        BY <3>1 DEF ModelAnswer
      <4>2. cmd'.prevId = cmd.prevId
        BY <4>1 DEF IInv, TypeOK
      <4> QED BY <3>1, <4>2 DEF ModelAnswer
    <3>2. CASE UNCHANGED vars
      BY <1>2, <3>2 DEF vars
    <3> QED BY <1>6, <3>1, <3>2
  <2>3. /\ Ids' = Ids
        /\ \A m \in Ids :
             /\ tree'[m].prevId = tree[m].prevId /\ tree'[m].block = tree[m].block
             /\ tree'[m].left = tree[m].left /\ tree'[m].right = tree[m].right
             /\ tree'[m].isSatisfiable = tree[m].isSatisfiable
             /\ tree'[m].isExecuted = tree[m].isExecuted
    <3>1. CASE ModelAnswer
      <4>1. ~ExecuteNode
        BY <3>1 DEF ModelAnswer, ExecuteNode
      <4> QED BY <4>1, TreeStep
    <3>2. CASE UNCHANGED vars
      BY <3>2 DEF vars, Ids
    <3> QED BY <1>6, <3>1, <3>2
  <2>4. /\ TypeOK /\ TreeInv /\ Path'[n] = Path[n] /\ Path[n] \subseteq Ids
        /\ cmd.prevId # -1 => Path'[cmd.prevId] = Path[cmd.prevId]
    <3>1. TypeOK /\ TreeInv /\ cmd.prevId \in Ids \cup {-1}
      BY DEF IInv
    <3> QED BY <2>3, <3>1, PathKept, PathBasic
  <2>5. InFocus(n)' = InFocus(n) /\ BelowFocus(n)' = BelowFocus(n)
    BY <2>2, <2>4 DEF InFocus, BelowFocus
  <2>6. \A m \in Ids : Linked(m)' => Linked(m)
    <3> SUFFICES ASSUME NEW m \in Ids \ {0}, Linked(m)' PROVE Linked(m)
      BY DEF Linked
    <3>1. tree[m].prevId \in Ids
      BY ParentNode
    <3> QED BY <2>3, <3>1 DEF Linked
  <2>7. BelowFocus(n) \subseteq Ids
    BY <2>4 DEF BelowFocus
  <2>8. Pending(n)
    BY <1>2, <2>2, <2>3, <2>5, <2>6, <2>7 DEF Pending
  <2>9. Covered(n)
    BY <1>1, <2>2, <2>3, <2>8
  <2> QED BY <2>2, <2>4, <2>9 DEF Covered
<1>7. CASE EndRound \/ FirstProceed \/ FirstExclude \/ WakeProceed \/ ExcludeLine \/ ExcludeNode
  BY <1>2, <1>7 DEF EndRound, FirstProceed, FirstExclude, WakeProceed, Proceed, ExcludeLine,
                    ExcludeNode, WakeExclude
<1> QED BY <1>3, <1>4, <1>5, <1>6, <1>7 DEF Next, Engine, User

\* The work list covers what the round still has to explore: a round whose list
\* runs empty has explored all it may below the clicked node.
THEOREM NothingMissed == Spec => []FrontierCovered
<1>1. Init => FrontierCovered
  BY DEF Init, FrontierCovered
<1>2. IInv /\ LinkInv /\ WorkInv /\ FrontierCovered /\ [Next]_vars => FrontierCovered'
  BY CoverStep
<1> QED BY <1>1, <1>2, WorkInvariance, PTL DEF Spec
=============================================================================
