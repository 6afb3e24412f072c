------------------------- MODULE Interpreter_proofs -------------------------
(***************************************************************************)
(* Proofs about Interpreter, for any width, any instructions and models:   *)
(* what trees mean, how models are read, and that the trees and the        *)
(* constraints of a path are kept.                                         *)
(***************************************************************************)
EXTENDS Interpreter, FiniteSetTheorems, WellFoundedInduction, TLAPS

LEMMA LeastOf ==
  ASSUME NEW T, T \subseteq Nat, T # {}
  PROVE  \E x \in T : \A y \in T : x <= y
<1>1. PICK m \in T : \A k \in T : <<k, m>> \notin OpToRel(<, Nat)
  BY WFMin, NatLessThanWellFounded, Zenon
<1>2. \A k \in T : ~(k < m)
  BY <1>1, Zenon DEF OpToRel
<1>3. \A k \in T : m <= k
  BY <1>2
<1> QED BY <1>3

-----------------------------------------------------------------------------
(* Sequences.                                                              *)

LEMMA TailFacts ==
  ASSUME NEW S, NEW q \in Seq(S), q # <<>>
  PROVE  /\ Tail(q) \in Seq(S) /\ Head(q) \in S /\ Head(q) = q[1]
         /\ Len(q) \in Nat \ {0} /\ Len(Tail(q)) = Len(q) - 1
         /\ \A k \in 1..(Len(q) - 1) : Tail(q)[k] = q[k + 1]
OBVIOUS

LEMMA ConcatFacts ==
  ASSUME NEW S, NEW s \in Seq(S), NEW t \in Seq(S)
  PROVE  /\ s \o t \in Seq(S)
         /\ Len(s) \in Nat /\ Len(t) \in Nat /\ Len(s \o t) = Len(s) + Len(t)
         /\ \A k \in 1..Len(s) : (s \o t)[k] = s[k]
         /\ \A k \in 1..Len(t) : (s \o t)[Len(s) + k] = t[k]
OBVIOUS

LEMMA OneFacts ==
  ASSUME NEW S, NEW x \in S, NEW s \in Seq(S)
  PROVE  /\ <<x>> \in Seq(S) /\ <<x>> \o s \in Seq(S) /\ <<x>> \o s # <<>>
         /\ Head(<<x>> \o s) = x /\ (<<x>> \o s)[1] = x /\ Tail(<<x>> \o s) = s
         /\ <<x>> \o <<>> = <<x>> /\ Tail(<<x>>) = <<>> /\ Head(<<x>>) = x
OBVIOUS

LEMMA ConcatAssociative ==
  ASSUME NEW S, NEW s \in Seq(S), NEW t \in Seq(S), NEW u \in Seq(S)
  PROVE  (s \o t) \o u = s \o (t \o u)
OBVIOUS

LEMMA EmptyConcat ==
  ASSUME NEW S, NEW s \in Seq(S)
  PROVE  /\ s \o <<>> = s /\ <<>> \in Seq(S) /\ Len(<<>>) = 0
         /\ Len(s) \in Nat /\ (s # <<>> => Len(s) > 0)
OBVIOUS

-----------------------------------------------------------------------------
(* The values of a sequence of nodes: the recursion is well-founded.       *)

Texts == Seq(Tokens)
Below(n) == {s \in Texts : Len(s) < n}

ValuesOn(f, S, env, by) ==
  f = [s \in S |-> IF s = <<>> THEN <<>> ELSE Push(Head(s), f[Tail(s)], env, by)]

LEMMA BelowFacts ==
  ASSUME NEW n \in Nat
  PROVE  /\ Below(0) = {}
         /\ \A s \in Below(n + 1) : s # <<>> => Tail(s) \in Below(n) /\ Tail(s) \in Below(n + 1)
         /\ \A s \in Texts : s \in Below(Len(s) + 1)
<1>1. \A s \in Texts : Len(s) \in Nat
  BY DEF Texts
<1>2. \A s \in Texts : s # <<>> => Tail(s) \in Texts /\ Len(Tail(s)) = Len(s) - 1
  BY TailFacts DEF Texts
<1> QED BY <1>1, <1>2 DEF Below

LEMMA ValuesUnique ==
  ASSUME NEW env, NEW by, NEW m \in Nat, NEW n \in Nat, NEW f, NEW g,
         ValuesOn(f, Below(m), env, by), ValuesOn(g, Below(n), env, by)
  PROVE  \A s \in Below(m) \cap Below(n) : f[s] = g[s]
<1> DEFINE Bad == {s \in Below(m) \cap Below(n) : f[s] # g[s]}
           T == {Len(s) : s \in Bad}
<1>1. SUFFICES ASSUME Bad # {} PROVE FALSE
  OBVIOUS
<1>2. \A s \in Bad : s \in Texts /\ Len(s) \in Nat /\ Len(s) < m /\ Len(s) < n
  BY DEF Below, Texts
<1>3. T \subseteq Nat /\ T # {}
  BY <1>1, <1>2
<1>4. PICK k \in T : \A j \in T : k <= j
  BY <1>3, LeastOf
<1>5. PICK s \in Bad : Len(s) = k
  BY <1>4
<1>6. CASE s = <<>>
  <2>1. f[s] = <<>> /\ g[s] = <<>>
    BY <1>5, <1>6 DEF ValuesOn
  <2> QED BY <2>1, <1>5
<1>7. CASE s # <<>>
  <2>1. Tail(s) \in Texts /\ Len(Tail(s)) = Len(s) - 1
    BY <1>2, <1>5, <1>7, TailFacts DEF Texts
  <2>2. Tail(s) \in Below(m) \cap Below(n)
    BY <2>1, <1>2, <1>5 DEF Below
  <2>3. Tail(s) \notin Bad
    <3>1. ~(k <= Len(Tail(s)))
      BY <2>1, <1>2, <1>5
    <3> QED BY <3>1, <1>4
  <2>4. f[Tail(s)] = g[Tail(s)]
    BY <2>2, <2>3
  <2>5. f[s] = Push(Head(s), f[Tail(s)], env, by) /\ g[s] = Push(Head(s), g[Tail(s)], env, by)
    BY <1>5, <1>7 DEF ValuesOn
  <2> QED BY <2>4, <2>5, <1>5
<1> QED BY <1>6, <1>7

LEMMA ValuesBelow ==
  ASSUME NEW env, NEW by, NEW n \in Nat
  PROVE  \E f : ValuesOn(f, Below(n), env, by)
<1> DEFINE T == {k \in Nat : ~ \E f : ValuesOn(f, Below(k), env, by)}
<1>1. SUFFICES ASSUME T # {} PROVE FALSE
  OBVIOUS
<1>2. PICK k \in T : \A j \in T : k <= j
  BY <1>1, LeastOf
<1>3. k # 0
  <2>1. ValuesOn([s \in {} |-> <<>>], Below(0), env, by)
    BY BelowFacts DEF ValuesOn
  <2> QED BY <2>1
<1>4. k - 1 \in Nat /\ k = (k - 1) + 1 /\ ~(k <= k - 1)
  BY <1>3
<1>5. PICK f : ValuesOn(f, Below(k - 1), env, by)
  BY <1>2, <1>4
<1> DEFINE g == [s \in Below(k) |-> IF s = <<>> THEN <<>> ELSE Push(Head(s), f[Tail(s)], env, by)]
<1>6. ASSUME NEW s \in Below(k), s # <<>> PROVE g[Tail(s)] = f[Tail(s)]
  <2>1. Tail(s) \in Below(k - 1) /\ Tail(s) \in Below(k)
    BY <1>4, <1>6, BelowFacts
  <2>2. CASE Tail(s) = <<>>
    BY <2>1, <2>2, <1>5 DEF ValuesOn
  <2>3. CASE Tail(s) # <<>>
    <3>1. f[Tail(s)] = Push(Head(Tail(s)), f[Tail(Tail(s))], env, by)
      BY <2>1, <2>3, <1>5 DEF ValuesOn
    <3> QED BY <2>1, <2>3, <3>1
  <2> QED BY <2>2, <2>3
<1>7. ValuesOn(g, Below(k), env, by)
  BY <1>6 DEF ValuesOn
<1> QED BY <1>2, <1>7

\* The equation that defines Values has a solution.
LEMMA ValuesDef ==
  ASSUME NEW env, NEW by
  PROVE  ValuesOn(Values(env, by), Texts, env, by)
<1>1. \A s \in Texts : Len(s) + 1 \in Nat /\ s \in Below(Len(s) + 1)
  BY BelowFacts DEF Texts
<1>2. PICK h : \A s \in Texts : ValuesOn(h[s], Below(Len(s) + 1), env, by)
  <2> DEFINE h == [s \in Texts |-> CHOOSE f : ValuesOn(f, Below(Len(s) + 1), env, by)]
  <2>1. \A s \in Texts : ValuesOn(h[s], Below(Len(s) + 1), env, by)
    BY <1>1, ValuesBelow
  <2> QED BY <2>1
<1> DEFINE g == [s \in Texts |-> h[s][s]]
<1>3. ASSUME NEW s \in Texts
      PROVE  g[s] = IF s = <<>> THEN <<>> ELSE Push(Head(s), g[Tail(s)], env, by)
  <2>1. CASE s = <<>>
    BY <1>1, <1>2, <2>1 DEF ValuesOn
  <2>2. CASE s # <<>>
    <3>1. Tail(s) \in Texts /\ Len(Tail(s)) = Len(s) - 1 /\ Len(s) \in Nat
      BY <2>2, TailFacts DEF Texts
    <3>2. Tail(s) \in Below(Len(s) + 1) \cap Below(Len(Tail(s)) + 1)
      BY <3>1, <1>1 DEF Below
    <3>3. h[s][Tail(s)] = h[Tail(s)][Tail(s)]
      <4> DEFINE f1 == h[s]
                 f2 == h[Tail(s)]
                 n1 == Len(s) + 1
                 n2 == Len(Tail(s)) + 1
      <4>1. /\ ValuesOn(f1, Below(n1), env, by) /\ ValuesOn(f2, Below(n2), env, by)
            /\ n1 \in Nat /\ n2 \in Nat /\ Tail(s) \in Below(n1) \cap Below(n2)
        BY <1>1, <1>2, <3>1, <3>2
      <4> HIDE DEF f1, f2, n1, n2
      <4>2. f1[Tail(s)] = f2[Tail(s)]
        BY <4>1, ValuesUnique
      <4> QED BY <4>2 DEF f1, f2
    <3>4. h[s][s] = Push(Head(s), h[s][Tail(s)], env, by)
      BY <1>1, <1>2, <2>2 DEF ValuesOn
    <3> QED BY <2>2, <3>1, <3>3, <3>4
  <2> QED BY <2>1, <2>2
<1>4. ValuesOn(g, Texts, env, by)
  BY <1>3 DEF ValuesOn
<1>5. Values(env, by) = CHOOSE f : ValuesOn(f, Texts, env, by)
  BY DEF Values, ValuesOn, Texts
<1> QED BY <1>4, <1>5

-----------------------------------------------------------------------------
(* Trees. A sequence fits if what follows it keeps its values.             *)

IsStack(v) == \E S : v \in Seq(S)

LEMMA StackFacts ==
  ASSUME NEW v, IsStack(v), NEW x
  PROVE  /\ IsStack(<<x>> \o v) /\ (<<x>> \o v)[1] = x /\ Tail(<<x>> \o v) = v
         /\ IsStack(<<x>>) /\ <<x>>[1] = x
<1>1. PICK S : v \in Seq(S)
  BY DEF IsStack
<1> DEFINE T == S \cup {x}
<1>2. x \in T /\ v \in Seq(T)
  BY <1>1
<1>3. /\ <<x>> \o v \in Seq(T) /\ (<<x>> \o v)[1] = x /\ Tail(<<x>> \o v) = v
      /\ <<x>> \in Seq(T) /\ <<x>>[1] = x
  BY <1>2, OneFacts
<1> QED BY <1>3 DEF IsStack

TwoOn(w, x, y, v) == w = <<x>> \o (<<y>> \o v)

LEMMA SecondOf ==
  ASSUME NEW v, IsStack(v), NEW x, NEW y, NEW w, TwoOn(w, x, y, v)
  PROVE  w[1] = x /\ w[2] = y /\ Tail(Tail(w)) = v /\ Len(w) > 1
<1>1. PICK S : v \in Seq(S)
  BY DEF IsStack
<1> DEFINE T == S \cup {x, y}
<1>2. x \in T /\ y \in T /\ v \in Seq(T)
  BY <1>1
<1>3. <<y>> \o v \in Seq(T) /\ (<<y>> \o v)[1] = y /\ Tail(<<y>> \o v) = v
  BY <1>2, OneFacts
<1>4. Len(<<y>> \o v) \in Nat \ {0}
  BY <1>3, <1>2
<1> DEFINE u == <<y>> \o v
<1>5. u \in Seq(T) /\ u[1] = y /\ Tail(u) = v /\ Len(u) \in Nat \ {0}
  BY <1>3, <1>4
<1> HIDE DEF u, T
<1>6. /\ (<<x>> \o u)[1] = x /\ (<<x>> \o u)[2] = u[1] /\ Tail(<<x>> \o u) = u
      /\ Len(<<x>> \o u) > 1
  BY <1>2, <1>5
<1> QED BY <1>5, <1>6 DEF u, TwoOn

Adds(t, s, f, y) == f[t \o s] = <<y>> \o f[s]

Fits(t) ==
  \A env, by : \A s \in Texts :
    IsStack(Values(env, by)[s]) => Adds(t, s, Values(env, by), Values(env, by)[t][1])

LEMMA ValuesStep ==
  ASSUME NEW env, NEW by, NEW x \in Tokens, NEW s \in Texts
  PROVE  /\ Values(env, by)[<<x>> \o s] = Push(x, Values(env, by)[s], env, by)
         /\ Values(env, by)[<<>>] = <<>> /\ IsStack(<<>>) /\ <<>> \in Texts
<1>1. <<x>> \o s \in Texts /\ <<x>> \o s # <<>> /\ Head(<<x>> \o s) = x /\ Tail(<<x>> \o s) = s
  BY OneFacts DEF Texts
<1>2. <<>> \in Texts
  BY DEF Texts
<1>3. IsStack(<<>>)
  <2>1. <<>> \in Seq(Nat)
    OBVIOUS
  <2> QED BY <2>1 DEF IsStack
<1> DEFINE f == Values(env, by)
<1>4. f = [u \in Texts |-> IF u = <<>> THEN <<>> ELSE Push(Head(u), f[Tail(u)], env, by)]
  BY ValuesDef DEF ValuesOn
<1> HIDE DEF f
<1>5. f[<<x>> \o s] = Push(Head(<<x>> \o s), f[Tail(<<x>> \o s)], env, by)
  BY <1>1, <1>4
<1>6. f[<<>>] = <<>>
  BY <1>2, <1>4
<1> QED BY <1>1, <1>2, <1>3, <1>5, <1>6 DEF f

LeafValue(x, env) == IF x[1] = "sym" THEN env[x[2]] ELSE IF x[1] = "const" THEN x[2] ELSE 0

\* A leaf fits and means its value.
LEMMA LeafFits ==
  ASSUME NEW x \in Tokens, x[1] # "op"
  PROVE  /\ << x >> \in Texts /\ Fits(<<x>>)
         /\ \A env, by : Values(env, by)[<<x>>][1] = LeafValue(x, env)
<1>1. << x >> \in Texts
  BY OneFacts DEF Texts
<1>2. \A v, env, by : Push(x, v, env, by) = <<LeafValue(x, env)>> \o v
  BY DEF Push, LeafValue
<1>3. ASSUME NEW env, NEW by
      PROVE  Values(env, by)[<<x>>][1] = LeafValue(x, env)
  <2>1. <<x>> \o <<>> = << x >>
    BY OneFacts
  <2>2. <<>> \in Texts
    BY DEF Texts
  <2>5. Values(env, by)[<<x>> \o <<>>] = Push(x, Values(env, by)[<<>>], env, by)
    BY <2>2, ValuesStep
  <2>6. Values(env, by)[<<>>] = <<>>
    BY <2>2, ValuesStep
  <2>3. Values(env, by)[<<x>>] = <<LeafValue(x, env)>> \o <<>>
    BY <2>1, <2>5, <2>6, <1>2, Zenon
  <2>4. IsStack(<<>>)
    BY <2>2, ValuesStep
  <2> QED BY <2>3, <2>4, StackFacts
<1>4. Fits(<<x>>)
  BY <1>2, <1>3, ValuesStep DEF Fits, Adds
<1> QED BY <1>1, <1>3, <1>4

\* A node of trees that fit fits and means what its operator makes of theirs.
LEMMA NodeFits ==
  ASSUME NEW op \in OperatorNames, NEW l \in Texts, NEW r \in Texts, Fits(l), Fits(r)
  PROVE  /\ Node(op, l, r) \in Texts /\ Fits(Node(op, l, r))
         /\ \A env, by : Values(env, by)[Node(op, l, r)][1]
                           = Apply(by, op, Values(env, by)[l][1], Values(env, by)[r][1])
<1> DEFINE x == <<"op", op>>
<1>1. x \in Tokens
  BY DEF Tokens
<1>2. l \o r \in Texts /\ <<x>> \o (l \o r) \in Texts
  BY <1>1, ConcatFacts, OneFacts DEF Texts
<1>3. Node(op, l, r) = <<x>> \o (l \o r)
  <2>1. << x >> \in Seq(Tokens)
    BY <1>1, OneFacts, EmptyConcat
  <2> QED BY <2>1, ConcatAssociative DEF Node, Texts
<1>4. ASSUME NEW env, NEW by, NEW s \in Texts, IsStack(Values(env, by)[s])
      PROVE  Adds(Node(op, l, r), s, Values(env, by),
                  Apply(by, op, Values(env, by)[l][1], Values(env, by)[r][1]))
  <2>1. Node(op, l, r) \o s = <<x>> \o (l \o (r \o s)) /\ r \o s \in Texts /\ l \o (r \o s) \in Texts
    <3>1. << x >> \in Seq(Tokens)
      BY <1>1, OneFacts, EmptyConcat
    <3>2. (<<x>> \o (l \o r)) \o s = <<x>> \o ((l \o r) \o s)
      BY <3>1, <1>2, ConcatAssociative DEF Texts
    <3>3. (l \o r) \o s = l \o (r \o s)
      BY ConcatAssociative DEF Texts
    <3> QED BY <3>2, <3>3, <1>3, ConcatFacts DEF Texts
  <2>2. Values(env, by)[r \o s] = <<Values(env, by)[r][1]>> \o Values(env, by)[s]
    BY <1>4 DEF Fits, Adds
  <2>3. IsStack(Values(env, by)[r \o s])
    BY <2>2, <1>4, StackFacts
  <2>4. Values(env, by)[l \o (r \o s)] = <<Values(env, by)[l][1]>> \o Values(env, by)[r \o s]
    BY <2>1, <2>3 DEF Fits, Adds
  <2>5. Values(env, by)[Node(op, l, r) \o s] = Push(x, Values(env, by)[l \o (r \o s)], env, by)
    BY <1>1, <2>1, ValuesStep
  <2> DEFINE w == Values(env, by)[l \o (r \o s)]
  <2>6. /\ w[1] = Values(env, by)[l][1] /\ w[2] = Values(env, by)[r][1]
        /\ Tail(Tail(w)) = Values(env, by)[s] /\ Len(w) > 1
    <3> DEFINE a == Values(env, by)[l][1]
               b == Values(env, by)[r][1]
               v == Values(env, by)[s]
    <3>1. IsStack(v)
      BY <1>4
    <3>2. TwoOn(w, a, b, v)
      BY <2>2, <2>4 DEF TwoOn
    <3> HIDE DEF a, b, v, w
    <3>3. w[1] = a /\ w[2] = b /\ Tail(Tail(w)) = v /\ Len(w) > 1
      BY <3>1, <3>2, SecondOf
    <3> QED BY <3>3 DEF a, b, v
  <2>7. Push(x, w, env, by) = <<Apply(by, op, w[1], w[2])>> \o Tail(Tail(w))
    BY <2>6 DEF Push
  <2> QED BY <2>5, <2>6, <2>7 DEF Adds
<1>5. ASSUME NEW env, NEW by
      PROVE  Values(env, by)[Node(op, l, r)][1]
               = Apply(by, op, Values(env, by)[l][1], Values(env, by)[r][1])
  <2>1. Node(op, l, r) \o <<>> = Node(op, l, r) /\ <<>> \in Texts
    BY <1>2, <1>3, EmptyConcat DEF Texts
  <2>2. Values(env, by)[<<>>] = <<>> /\ IsStack(<<>>)
    BY <2>1, <1>1, ValuesStep
  <2>3. Values(env, by)[Node(op, l, r)]
          = <<Apply(by, op, Values(env, by)[l][1], Values(env, by)[r][1])>> \o <<>>
    <3>1. IsStack(Values(env, by)[<<>>])
      BY <2>2
    <3>2. Adds(Node(op, l, r), <<>>, Values(env, by),
               Apply(by, op, Values(env, by)[l][1], Values(env, by)[r][1]))
      BY <3>1, <2>1, <1>4
    <3> QED BY <3>2, <2>1, <2>2 DEF Adds
  <2> QED BY <2>2, <2>3, StackFacts
<1>6. Fits(Node(op, l, r))
  BY <1>4, <1>5 DEF Fits
<1> QED BY <1>2, <1>3, <1>5, <1>6

-----------------------------------------------------------------------------
(* Reading a model: the recursion is well-founded, too.                    *)

ReadStep(s, f, variables) ==
  IF s = <<>> THEN Dies
  ELSE IF s[1][1] = "const" THEN [tree |-> <<s[1]>>, rest |-> Tail(s)]
  ELSE IF s[1][1] = "sym" THEN ReadVariable(s[1][2], Tail(s), variables)
  ELSE IF s[1] \in {"op"} \X ReadOperators
    THEN ReadNode(s[1][2], f[Tail(s)], f[f[Tail(s)].rest])
  ELSE Dies

ReadOn(f, S, variables) == f = [s \in S |-> ReadStep(s, f, variables)]

\* What is left is no longer than what was there, and shorter if a tree was read.
Shortens(s, reading) == reading.rest \in Texts /\ Len(reading.rest) <= Len(s)

LEMMA StepShortens ==
  ASSUME NEW s \in Texts, NEW f, NEW variables,
         s # <<>> => Shortens(Tail(s), f[Tail(s)])
                     /\ Shortens(f[Tail(s)].rest, f[f[Tail(s)].rest])
  PROVE  /\ Shortens(s, ReadStep(s, f, variables))
         /\ s # <<>> => Len(ReadStep(s, f, variables).rest) < Len(s)
<1>1. <<>> \in Texts /\ Len(<<>>) = 0 /\ Len(s) \in Nat /\ (s # <<>> => Len(s) > 0)
  BY EmptyConcat DEF Texts
<1>2. Shortens(s, Dies) /\ Len(Dies.rest) = 0
  BY <1>1 DEF Shortens, Dies
<1>3. CASE s = <<>>
  BY <1>2, <1>3 DEF ReadStep
<1>4. CASE s # <<>>
  <2>1. Tail(s) \in Texts /\ Len(Tail(s)) = Len(s) - 1
    BY <1>4, TailFacts DEF Texts
  <2> DEFINE left == f[Tail(s)]
             right == f[left.rest]
             Good(reading) == Shortens(s, reading) /\ Len(reading.rest) < Len(s)
  <2>2. Good(Dies)
    BY <1>1, <1>2, <1>4
  <2>3. \A t : Good([tree |-> t, rest |-> Tail(s)])
    BY <2>1, <1>1 DEF Shortens
  <2>4. Good(ReadVariable(s[1][2], Tail(s), variables))
    BY <2>2, <2>3 DEF ReadVariable
  <2>5. Good(ReadNode(s[1][2], left, right))
    <3>1. /\ left.rest \in Texts /\ Len(left.rest) \in Nat /\ Len(left.rest) <= Len(s) - 1
          /\ right.rest \in Texts /\ Len(right.rest) \in Nat /\ Len(right.rest) <= Len(left.rest)
      BY <1>4, <2>1 DEF Shortens, Texts
    <3>2. \A t : Good([tree |-> t, rest |-> right.rest])
      BY <3>1, <1>1 DEF Shortens
    <3> QED BY <3>2, <2>2 DEF ReadNode
  <2> HIDE DEF Good
  <2>6. Good(ReadStep(s, f, variables))
    BY <1>4, <2>2, <2>3, <2>4, <2>5 DEF ReadStep
  <2> QED BY <2>6 DEF Good
<1> QED BY <1>3, <1>4

Closed(S) ==
  /\ S \subseteq Texts
  /\ \A s \in S, u \in Texts : Len(u) < Len(s) => u \in S

LEMMA ClosedFacts ==
  Closed(Texts) /\ \A n \in Nat : Closed(Below(n))
<1>1. \A s \in Texts : Len(s) \in Nat
  BY DEF Texts
<1> QED BY <1>1 DEF Closed, Below

LEMMA ReadShortens ==
  ASSUME NEW S, Closed(S), NEW f, NEW variables, ReadOn(f, S, variables)
  PROVE  \A s \in S : Shortens(s, f[s]) /\ (s # <<>> => Len(f[s].rest) < Len(s))
<1> DEFINE Good(s) == Shortens(s, f[s]) /\ (s # <<>> => Len(f[s].rest) < Len(s))
           Bad == {s \in S : ~Good(s)}
           T == {Len(s) : s \in Bad}
<1>1. SUFFICES ASSUME Bad # {} PROVE FALSE
  OBVIOUS
<1>2. \A s \in S : s \in Texts /\ Len(s) \in Nat
  BY DEF Closed, Texts
<1>3. T \subseteq Nat /\ T # {}
  BY <1>1, <1>2
<1>4. PICK k \in T : \A j \in T : k <= j
  BY <1>3, LeastOf
<1>5. PICK s \in Bad : Len(s) = k
  BY <1>4
<1>6. \A u \in Texts : Len(u) < Len(s) => Good(u)
  <2>1. \A u \in Texts : Len(u) \in Nat
    BY DEF Texts
  <2>2. \A u \in Texts : Len(u) < Len(s) => u \in S
    BY <1>5 DEF Closed
  <2>3. \A u \in Bad : ~(Len(u) < Len(s))
    BY <1>2, <1>4, <1>5
  <2> QED BY <2>2, <2>3
<1>7. ASSUME s # <<>>
      PROVE  Shortens(Tail(s), f[Tail(s)]) /\ Shortens(f[Tail(s)].rest, f[f[Tail(s)].rest])
  <2>1. Tail(s) \in Texts /\ Len(Tail(s)) = Len(s) - 1 /\ Len(s) \in Nat
    BY <1>2, <1>5, <1>7, TailFacts DEF Texts
  <2>2. Shortens(Tail(s), f[Tail(s)])
    <3> HIDE DEF Good, Bad, T
    <3>1. Len(Tail(s)) < Len(s)
      BY <2>1
    <3>2. Good(Tail(s))
      BY <3>1, <2>1, <1>6
    <3> QED BY <3>2 DEF Good
  <2> DEFINE u == f[Tail(s)].rest
  <2>3. u \in Texts /\ Len(u) < Len(s)
    <3>1. u \in Texts /\ Len(u) \in Nat /\ Len(u) <= Len(Tail(s))
      BY <2>2 DEF Shortens, Texts
    <3> HIDE DEF u
    <3> QED BY <3>1, <2>1
  <2>4. Shortens(u, f[u])
    <3> HIDE DEF Good, u
    <3>1. Good(u)
      BY <2>3, <1>6
    <3> QED BY <3>1 DEF Good
  <2> QED BY <2>2, <2>4
<1>8. f[s] = ReadStep(s, f, variables)
  BY <1>5 DEF ReadOn
<1>9. Good(s)
  BY <1>2, <1>5, <1>7, <1>8, StepShortens
<1> QED BY <1>5, <1>9

LEMMA ReadUnique ==
  ASSUME NEW variables, NEW m \in Nat, NEW n \in Nat, NEW f, NEW g,
         ReadOn(f, Below(m), variables), ReadOn(g, Below(n), variables)
  PROVE  \A s \in Below(m) \cap Below(n) : f[s] = g[s]
<1> DEFINE Bad == {s \in Below(m) \cap Below(n) : f[s] # g[s]}
           T == {Len(s) : s \in Bad}
<1>1. SUFFICES ASSUME Bad # {} PROVE FALSE
  OBVIOUS
<1>2. \A s \in Bad : s \in Texts /\ Len(s) \in Nat /\ Len(s) < m /\ Len(s) < n
  BY DEF Below, Texts
<1>3. T \subseteq Nat /\ T # {}
  BY <1>1, <1>2
<1>4. PICK k \in T : \A j \in T : k <= j
  BY <1>3, LeastOf
<1>5. PICK s \in Bad : Len(s) = k
  BY <1>4
<1>6. \A u \in Texts : Len(u) < Len(s) => u \in Below(m) \cap Below(n) /\ f[u] = g[u]
  <2>1. \A u \in Texts : Len(u) \in Nat
    BY DEF Texts
  <2>2. \A u \in Texts : Len(u) < Len(s) => u \in Below(m) \cap Below(n)
    BY <1>2, <1>5, <2>1 DEF Below
  <2>3. \A u \in Bad : ~(Len(u) < Len(s))
    BY <1>2, <1>4, <1>5
  <2> QED BY <2>2, <2>3
<1>7. f[s] = ReadStep(s, f, variables) /\ g[s] = ReadStep(s, g, variables)
  BY <1>5 DEF ReadOn
<1>8. CASE s = <<>>
  BY <1>5, <1>7, <1>8 DEF ReadStep
<1>9. CASE s # <<>>
  <2>1. Tail(s) \in Texts /\ Len(Tail(s)) < Len(s) /\ Len(Tail(s)) \in Nat /\ Len(s) \in Nat
    BY <1>2, <1>5, <1>9, TailFacts DEF Texts
  <2>2. f[Tail(s)] = g[Tail(s)] /\ Tail(s) \in Below(m)
    BY <2>1, <1>6
  <2>3. f[Tail(s)].rest \in Texts /\ Len(f[Tail(s)].rest) < Len(s)
    <3>1. Shortens(Tail(s), f[Tail(s)])
      BY <2>2, ReadShortens, ClosedFacts
    <3>2. f[Tail(s)].rest \in Texts /\ Len(f[Tail(s)].rest) \in Nat
      BY <3>1 DEF Shortens, Texts
    <3> QED BY <3>1, <3>2, <2>1 DEF Shortens
  <2>4. f[f[Tail(s)].rest] = g[f[Tail(s)].rest]
    BY <2>3, <1>6
  <2>5. ReadStep(s, f, variables) = ReadStep(s, g, variables)
    BY <2>2, <2>4 DEF ReadStep
  <2> QED BY <2>5, <1>5, <1>7
<1> QED BY <1>8, <1>9

LEMMA ReadBelow ==
  ASSUME NEW variables, NEW n \in Nat
  PROVE  \E f : ReadOn(f, Below(n), variables)
<1> DEFINE T == {k \in Nat : ~ \E f : ReadOn(f, Below(k), variables)}
<1>1. SUFFICES ASSUME T # {} PROVE FALSE
  OBVIOUS
<1>2. PICK k \in T : \A j \in T : k <= j
  BY <1>1, LeastOf
<1>3. k # 0
  <2>1. ReadOn([s \in {} |-> <<>>], Below(0), variables)
    BY BelowFacts DEF ReadOn
  <2> QED BY <2>1
<1>4. k - 1 \in Nat /\ k = (k - 1) + 1 /\ ~(k <= k - 1)
  BY <1>3
<1>5. PICK f : ReadOn(f, Below(k - 1), variables)
  BY <1>2, <1>4
<1> DEFINE g == [s \in Below(k) |-> ReadStep(s, f, variables)]
<1>6. \A u \in Below(k - 1) : g[u] = f[u]
  <2>1. \A u \in Below(k - 1) : u \in Below(k)
    BY <1>4 DEF Below, Texts
  <2> QED BY <2>1, <1>5 DEF ReadOn
<1>7. ASSUME NEW s \in Below(k) PROVE ReadStep(s, f, variables) = ReadStep(s, g, variables)
  <2>1. CASE s = <<>>
    BY <2>1 DEF ReadStep
  <2>2. CASE s # <<>>
    <3>1. Tail(s) \in Below(k - 1)
      BY <1>4, <2>2, BelowFacts
    <3> DEFINE u == f[Tail(s)].rest
    <3>2. u \in Below(k - 1)
      <4>1. Shortens(Tail(s), f[Tail(s)])
        BY <3>1, <1>4, <1>5, ReadShortens, ClosedFacts
      <4>2. u \in Texts /\ Len(u) \in Nat /\ Len(u) <= Len(Tail(s))
        BY <4>1 DEF Shortens, Texts
      <4>3. Len(Tail(s)) \in Nat /\ Len(Tail(s)) < k - 1
        BY <3>1 DEF Below, Texts
      <4> HIDE DEF u
      <4> QED BY <4>2, <4>3, <1>4 DEF Below
    <3>3. g[Tail(s)] = f[Tail(s)] /\ g[u] = f[u]
      BY <3>1, <3>2, <1>6
    <3> HIDE DEF g
    <3> QED BY <3>3 DEF ReadStep
  <2> QED BY <2>1, <2>2
<1>8. ReadOn(g, Below(k), variables)
  BY <1>7 DEF ReadOn
<1> QED BY <1>2, <1>8

\* The equation that defines constructTree has a solution.
LEMMA ReadDef ==
  ASSUME NEW variables
  PROVE  /\ ReadOn(constructTree(variables), Texts, variables)
         /\ \A s \in Texts : Shortens(s, constructTree(variables)[s])
                             /\ (s # <<>> => Len(constructTree(variables)[s].rest) < Len(s))
<1>1. \A s \in Texts : Len(s) + 1 \in Nat /\ s \in Below(Len(s) + 1)
  BY BelowFacts DEF Texts
<1>2. PICK h : \A s \in Texts : ReadOn(h[s], Below(Len(s) + 1), variables)
  <2> DEFINE h == [s \in Texts |-> CHOOSE f : ReadOn(f, Below(Len(s) + 1), variables)]
  <2>1. \A s \in Texts : ReadOn(h[s], Below(Len(s) + 1), variables)
    BY <1>1, ReadBelow
  <2> QED BY <2>1
<1> DEFINE g == [s \in Texts |-> h[s][s]]
<1>3. ASSUME NEW s \in Texts, NEW u \in Texts, Len(u) < Len(s)
      PROVE  h[s][u] = g[u]
  <2> DEFINE f1 == h[s]
             f2 == h[u]
             n1 == Len(s) + 1
             n2 == Len(u) + 1
  <2>1. /\ ReadOn(f1, Below(n1), variables) /\ ReadOn(f2, Below(n2), variables)
        /\ n1 \in Nat /\ n2 \in Nat /\ u \in Below(n1) \cap Below(n2)
    <3>1. Len(s) \in Nat /\ Len(u) \in Nat
      BY DEF Texts
    <3>2. u \in Below(n1) /\ u \in Below(n2)
      BY <1>3, <3>1 DEF Below
    <3> QED BY <1>1, <1>2, <3>2
  <2> HIDE DEF f1, f2, n1, n2
  <2>2. f1[u] = f2[u]
    BY <2>1, ReadUnique
  <2> QED BY <2>2 DEF f1, f2
<1>4. ASSUME NEW s \in Texts
      PROVE  Shortens(s, g[s]) /\ (s # <<>> => Len(g[s].rest) < Len(s))
  <2> DEFINE f1 == h[s]
             n1 == Len(s) + 1
  <2>1. ReadOn(f1, Below(n1), variables) /\ n1 \in Nat /\ s \in Below(n1)
    BY <1>1, <1>2
  <2> HIDE DEF f1, n1
  <2>2. Shortens(s, f1[s]) /\ (s # <<>> => Len(f1[s].rest) < Len(s))
    BY <2>1, ReadShortens, ClosedFacts
  <2> QED BY <2>2 DEF f1
<1>5. ASSUME NEW s \in Texts PROVE g[s] = ReadStep(s, g, variables)
  <2>1. g[s] = ReadStep(s, h[s], variables)
    BY <1>1, <1>2 DEF ReadOn
  <2>2. CASE s = <<>>
    BY <2>1, <2>2 DEF ReadStep
  <2>3. CASE s # <<>>
    <3>1. Tail(s) \in Texts /\ Len(Tail(s)) < Len(s) /\ Len(Tail(s)) \in Nat /\ Len(s) \in Nat
      BY <2>3, TailFacts DEF Texts
    <3>2. h[s][Tail(s)] = g[Tail(s)]
      BY <3>1, <1>3
    <3> DEFINE u == g[Tail(s)].rest
    <3>3. u \in Texts /\ Len(u) < Len(s)
      <4>1. Shortens(Tail(s), g[Tail(s)])
        BY <3>1, <1>4
      <4>2. u \in Texts /\ Len(u) \in Nat /\ Len(u) <= Len(Tail(s))
        BY <4>1 DEF Shortens, Texts
      <4> HIDE DEF u
      <4> QED BY <4>2, <3>1
    <3>4. h[s][u] = g[u]
      <4> HIDE DEF u
      <4> QED BY <3>3, <1>3
    <3> HIDE DEF g
    <3>5. ReadStep(s, h[s], variables) = ReadStep(s, g, variables)
      BY <3>2, <3>4 DEF ReadStep
    <3> QED BY <2>1, <3>5
  <2> QED BY <2>2, <2>3
<1>6. ReadOn(g, Texts, variables)
  BY <1>5 DEF ReadOn
<1>7. constructTree(variables) = CHOOSE f : ReadOn(f, Texts, variables)
  BY DEF constructTree, ReadOn, ReadStep, Texts
<1>8. ReadOn(constructTree(variables), Texts, variables)
  BY <1>6, <1>7
<1> QED BY <1>8, ReadShortens, ClosedFacts

-----------------------------------------------------------------------------
(* Integers of the machine.                                                *)

LEMMA PowerFacts == \A n \in Nat : 2^n \in Nat \ {0}
<1>1. ASSUME NEW n \in Nat PROVE 2^n \in Nat \ {0}
  <2> DEFINE S == 1..n
  <2>1. IsFiniteSet(S) /\ Cardinality(S) = n
    <3>1. IsFiniteSet(1..n) /\ Cardinality(1..n) = IF 1 > n THEN 0 ELSE n - 1 + 1
      BY FS_Interval
    <3> QED BY <3>1
  <2> HIDE DEF S
  <2>2. IsFiniteSet(SUBSET S) /\ Cardinality(SUBSET S) = 2^n
    BY <2>1, FS_SUBSET
  <2>3. {} \in SUBSET S
    OBVIOUS
  <2>4. Cardinality(SUBSET S) \in Nat /\ Cardinality(SUBSET S) # 0
    BY <2>2, <2>3, FS_CardinalityType, FS_EmptySet
  <2> QED BY <2>2, <2>4
<1> QED BY <1>1

LEMMA WrapFacts ==
  /\ Half \in Nat \ {0}
  /\ \A n \in Int : Wrap(n) \in Inputs
  /\ \A n \in Inputs : Wrap(n) = n
  /\ Inputs \subseteq Int
<1> DEFINE h == Half
<1>1. h \in Nat \ {0}
  <2>1. Width - 1 \in Nat
    BY WidthAssumption
  <2> QED BY <2>1, PowerFacts DEF Half
<1> HIDE DEF h
<1>2. \A n \in Int : ((n + h) % (2 * h)) - h \in (-h)..(h - 1)
  BY <1>1
<1>3. \A n \in (-h)..(h - 1) : ((n + h) % (2 * h)) - h = n
  BY <1>1
<1> QED BY <1>1, <1>2, <1>3 DEF h, Wrap, Inputs

\* A defined result of the machine is a machine integer.
LEMMA MachineFacts ==
  ASSUME NEW l \in Int, NEW r \in Int, NEW op \in BinaryOperators \cup Predicates,
         ~Undefined(op, l, r)
  PROVE  Machine(op, l, r) \in Inputs
<1>1. Truncated(l, r) \in Int \/ r = 0
  BY DEF Truncated, Abs, Sign
<1>2. \A b : Truth(b) \in Int
  BY DEF Truth
<1>3. Unbounded(op, l, r) \in Int
  <2>1. CASE op = "/"
    BY <1>1, <2>1 DEF Undefined, Unbounded
  <2>2. CASE op = "%"
    <3>1. Truncated(l, r) \in Int
      BY <1>1, <2>2 DEF Undefined
    <3>2. Unbounded(op, l, r) = l - (r * Truncated(l, r))
      BY <2>2 DEF Unbounded
    <3> QED BY <3>1, <3>2
  <2>3. CASE op = "<<"
    <3>1. 2^r \in Int
      BY <2>3 DEF Undefined
    <3>2. Unbounded(op, l, r) = l * 2^r
      BY <2>3 DEF Unbounded
    <3> QED BY <3>1, <3>2
  <2>4. CASE op = ">>"
    <3>1. 2^r \in Nat \ {0}
      BY <2>4, PowerFacts, WidthAssumption DEF Undefined
    <3>2. Unbounded(op, l, r) = l \div 2^r
      BY <2>4 DEF Unbounded
    <3> DEFINE p == 2^r
    <3> HIDE DEF p
    <3>3. p \in Nat \ {0} /\ Unbounded(op, l, r) = l \div p
      BY <3>1, <3>2 DEF p
    <3> QED BY <3>3
  <2>5. CASE op \in {"+", "-", "*"}
    BY <2>5 DEF Unbounded
  <2>6. CASE op \in Predicates
    BY <2>6, <1>2, InterpreterAssumption DEF Unbounded
  <2> QED BY <2>1, <2>2, <2>3, <2>4, <2>5, <2>6, InterpreterAssumption
<1> QED BY <1>3, WrapFacts DEF Machine

-----------------------------------------------------------------------------
(* Trees, as they are while nothing is lost.                               *)

Clean(t) == \A k \in 1..Len(t) : t[k][1] \notin {"lost", "none"}

IsTree(t) ==
  /\ t \in Texts /\ t # <<>>
  /\ Fits(t) /\ Clean(t)
  /\ IsLeaf(t) => t[1][1] # "op"

LEMMA TreeFacts ==
  ASSUME NEW t, IsTree(t)
  PROVE  t # NULL /\ t # Lost /\ ~HasLost(t) /\ t \in Texts
<1>1. t \in Seq(Tokens) /\ Len(t) \in Nat \ {0} /\ DOMAIN t = 1..Len(t)
  BY DEF IsTree, Texts
<1>2. t[1][1] \notin {"lost", "none"}
  BY <1>1 DEF IsTree, Clean
<1>3. t # NULL /\ t # Lost
  <2>1. NULL[1][1] = "none" /\ Lost[1][1] = "lost"
    BY DEF NULL, Lost
  <2> QED BY <2>1, <1>2
<1> QED BY <1>1, <1>3 DEF HasLost, IsTree, Clean

LEMMA LeafTree ==
  ASSUME NEW x \in Tokens, x[1] \in {"sym", "const"}
  PROVE  /\ IsTree(<<x>>) /\ IsLeaf(<<x>>)
         /\ \A env, by : Values(env, by)[<<x>>][1] = LeafValue(x, env)
<1>1. /\ << x >> \in Texts /\ Fits(<<x>>)
      /\ \A env, by : Values(env, by)[<<x>>][1] = LeafValue(x, env)
  BY LeafFits
<1>2. Len(<<x>>) = 1 /\ <<x>>[1] = x /\ << x >> # <<>>
  OBVIOUS
<1>3. Clean(<<x>>)
  BY <1>2 DEF Clean
<1> QED BY <1>1, <1>2, <1>3 DEF IsTree, IsLeaf

LEMMA NodeTree ==
  ASSUME NEW op \in OperatorNames, NEW l, NEW r, IsTree(l), IsTree(r)
  PROVE  /\ IsTree(Node(op, l, r)) /\ ~IsLeaf(Node(op, l, r))
         /\ \A env, by : Values(env, by)[Node(op, l, r)][1]
                           = Apply(by, op, Values(env, by)[l][1], Values(env, by)[r][1])
<1> DEFINE x == <<"op", op>>
           n == Node(op, l, r)
<1>1. l \in Texts /\ r \in Texts /\ l # <<>> /\ r # <<>> /\ Fits(l) /\ Fits(r) /\ Clean(l) /\ Clean(r)
  BY DEF IsTree
<1>2. /\ n \in Texts /\ Fits(n)
      /\ \A env, by : Values(env, by)[n][1]
                        = Apply(by, op, Values(env, by)[l][1], Values(env, by)[r][1])
  BY <1>1, NodeFits
<1>3. x \in Tokens /\ << x >> \in Seq(Tokens)
  <2>1. x \in Tokens
    BY DEF Tokens
  <2> QED BY <2>1
<1> DEFINE h == <<x>> \o l
<1>4. /\ h \in Seq(Tokens) /\ Len(h) = 1 + Len(l) /\ Len(l) \in Nat \ {0}
      /\ \A k \in 1..Len(h) : h[k] = IF k = 1 THEN x ELSE l[k - 1]
  BY <1>1, <1>3 DEF Texts
<1>5. Clean(h)
  BY <1>1, <1>4 DEF Clean
<1> HIDE DEF h, x
<1>6. n = h \o r
  BY DEF Node, h, x
<1> HIDE DEF n
<1>7. /\ Len(n) = Len(h) + Len(r) /\ Len(r) \in Nat \ {0}
      /\ \A k \in 1..Len(n) : n[k] = IF k <= Len(h) THEN h[k] ELSE r[k - Len(h)]
  <2>1. h \in Seq(Tokens) /\ r \in Seq(Tokens) /\ Len(h) \in Nat
    BY <1>1, <1>4 DEF Texts
  <2>2. Len(r) \in Nat \ {0}
    BY <1>1, <2>1
  <2>3. /\ Len(h \o r) = Len(h) + Len(r)
        /\ \A k \in 1..(Len(h) + Len(r)) :
             (h \o r)[k] = IF k <= Len(h) THEN h[k] ELSE r[k - Len(h)]
    BY <2>1
  <2> QED BY <1>6, <2>2, <2>3
<1>8. Clean(n)
  BY <1>1, <1>4, <1>5, <1>7 DEF Clean
<1>9. n # <<>> /\ ~IsLeaf(n)
  BY <1>2, <1>4, <1>7 DEF IsLeaf, Texts
<1> QED BY <1>2, <1>8, <1>9 DEF IsTree, n

LEMMA ConstTree ==
  ASSUME NEW n \in Int
  PROVE  /\ IsTree(Const(n)) /\ isConstant(Const(n))
         /\ \A env, by : Values(env, by)[Const(n)][1] = n
<1> DEFINE x == <<"const", n>>
<1>1. x \in Tokens /\ x[1] = "const" /\ x[2] = n
  BY DEF Tokens
<1>2. \A env : LeafValue(x, env) = n
  BY <1>1 DEF LeafValue
<1>3. <<x>>[1] = x
  OBVIOUS
<1> HIDE DEF x
<1>4. /\ IsTree(<<x>>) /\ IsLeaf(<<x>>)
      /\ \A env, by : Values(env, by)[<<x>>][1] = LeafValue(x, env)
  BY <1>1, LeafTree
<1>5. isConstant(<<x>>)
  BY <1>1, <1>3, <1>4 DEF isConstant
<1>6. Const(n) = << x >>
  BY DEF Const, x
<1> QED BY <1>2, <1>4, <1>5, <1>6

LEMMA ConstantTree ==
  ASSUME NEW t, IsTree(t), isConstant(t)
  PROVE  t[1][2] \in Int /\ \A env, by : Values(env, by)[t][1] = t[1][2]
<1>1. t \in Seq(Tokens) /\ Len(t) = 1 /\ t[1][1] = "const"
  BY DEF IsTree, Texts, isConstant, IsLeaf
<1>2. t[1] \in Tokens
  BY <1>1
<1>3. t[1][2] \in Int /\ t[1] = <<"const", t[1][2]>>
  <2>1. t[1] \in {"const"} \X Int
    BY <1>1, <1>2 DEF Tokens
  <2> QED BY <2>1
<1>4. t = <<t[1]>>
  BY <1>1
<1>5. t = Const(t[1][2])
  BY <1>3, <1>4, Zenon DEF Const
<1> QED BY <1>3, <1>5, ConstTree

\* What the constructor makes of two trees if it forgets none of them.
LEMMA ConstructCases ==
  ASSUME NEW op, NEW l, NEW r, IsTree(l), IsTree(r), ~Forgets(op, l, r)
  PROVE  \/ /\ op \in {"+", "-"} /\ isConstant(l) /\ isConstant(r)
            /\ Construct(op, l, r) = evaluate(l, r, op)
         \/ op \in {"+", "-"} /\ IsConst(r, 0) /\ ~isConstant(l) /\ Construct(op, l, r) = l
         \/ op = "+" /\ IsConst(l, 0) /\ ~isConstant(r) /\ Construct(op, l, r) = r
         \/ Construct(op, l, r) = Node(op, l, r)
<1>1. l # Lost /\ r # Lost
  BY TreeFacts
<1>2. Construct(op, l, r) # Lost
  BY <1>1 DEF Forgets
<1>3. CASE op \in {"+", "-"} /\ isConstant(l) /\ isConstant(r)
  BY <1>3 DEF Construct
<1>4. CASE op \in {"+", "-"} /\ IsConst(r, 0) /\ ~isConstant(l)
  <2>1. Construct(op, l, r) = Value(l)
    BY <1>4 DEF Construct
  <2> QED BY <2>1, <1>2, <1>4 DEF Value
<1>5. CASE op = "+" /\ IsConst(l, 0) /\ ~isConstant(r)
  <2>1. Construct(op, l, r) = Value(r)
    BY <1>5 DEF Construct, IsConst
  <2> QED BY <2>1, <1>2, <1>5 DEF Value
<1>6. CASE /\ ~(op \in {"+", "-"} /\ isConstant(l) /\ isConstant(r))
           /\ ~(op \in {"+", "-"} /\ IsConst(r, 0) /\ ~isConstant(l))
           /\ ~(op = "+" /\ IsConst(l, 0) /\ ~isConstant(r))
  BY <1>6 DEF Construct, IsConst
<1> QED BY <1>3, <1>4, <1>5, <1>6

LEMMA EvaluateTree ==
  ASSUME NEW op, op \in {"+", "-"}, NEW l, NEW r, IsTree(l), IsTree(r), isConstant(l), isConstant(r)
  PROVE  /\ IsTree(evaluate(l, r, op))
         /\ \A env, by : Values(env, by)[evaluate(l, r, op)][1]
                           = Machine(op, Values(env, by)[l][1], Values(env, by)[r][1])
<1>1. /\ l[1][2] \in Int /\ \A env, by : Values(env, by)[l][1] = l[1][2]
      /\ r[1][2] \in Int /\ \A env, by : Values(env, by)[r][1] = r[1][2]
  BY ConstantTree
<1> DEFINE a == l[1][2]
           b == r[1][2]
<1>2. Machine(op, a, b) \in Int /\ evaluate(l, r, op) = Const(Machine(op, a, b))
  <2>1. Unbounded(op, a, b) = (IF op = "+" THEN a + b ELSE a - b)
    BY DEF Unbounded
  <2>2. Unbounded(op, a, b) \in Int
    BY <1>1, <2>1
  <2> QED BY <2>1, <2>2, WrapFacts DEF Machine, evaluate
<1>3. /\ IsTree(Const(Machine(op, a, b)))
      /\ \A env, by : Values(env, by)[Const(Machine(op, a, b))][1] = Machine(op, a, b)
  BY <1>2, ConstTree
<1> QED BY <1>1, <1>2, <1>3

LEMMA ConstructTree ==
  ASSUME NEW op \in OperatorNames, NEW l, NEW r, IsTree(l), IsTree(r), ~Forgets(op, l, r)
  PROVE  IsTree(Construct(op, l, r))
BY ConstructCases, EvaluateTree, NodeTree

LEMMA OperatorsFacts ==
  BinaryOperators \cup Predicates \subseteq OperatorNames
BY InterpreterAssumption DEF OperatorNames

Ranged(t, n) == isConstant(t) \/ n \in Inputs

LEMMA ConstructMeans ==
  ASSUME NEW op \in BinaryOperators \cup Predicates, NEW l, NEW r, IsTree(l), IsTree(r),
         ~Forgets(op, l, r),
         NEW env, NEW left \in Int, NEW right \in Int, ~Undefined(op, left, right),
         Meaning(l, env) = left, Ranged(l, left), Meaning(r, env) = right, Ranged(r, right)
  PROVE  /\ Meaning(Construct(op, l, r), env) = Machine(op, left, right)
         /\ /\ Z3Meaning(l, env) = left /\ Z3Meaning(r, env) = right
            /\ Z3Result(op, left, right) = Machine(op, left, right)
            => Z3Meaning(Construct(op, l, r), env) = Machine(op, left, right)
<1>1. op \in OperatorNames
  BY OperatorsFacts
<1>2. CASE /\ op \in {"+", "-"} /\ isConstant(l) /\ isConstant(r)
           /\ Construct(op, l, r) = evaluate(l, r, op)
  <2>1. \A by : Values(env, by)[evaluate(l, r, op)][1]
                  = Machine(op, Values(env, by)[l][1], Values(env, by)[r][1])
    BY <1>2, EvaluateTree
  <2> QED BY <2>1, <1>2 DEF Meaning, Z3Meaning
<1>3. CASE op \in {"+", "-"} /\ IsConst(r, 0) /\ ~isConstant(l) /\ Construct(op, l, r) = l
  <2>1. right = 0
    BY <1>3, ConstantTree DEF IsConst, Meaning
  <2>2. left \in Inputs
    BY <1>3 DEF Ranged
  <2>3. Machine(op, left, right) = left
    <3>1. Unbounded(op, left, right) = left
      BY <1>3, <2>1 DEF Unbounded
    <3> QED BY <3>1, <2>2, WrapFacts DEF Machine
  <2> QED BY <2>3, <1>3
<1>4. CASE op = "+" /\ IsConst(l, 0) /\ ~isConstant(r) /\ Construct(op, l, r) = r
  <2>1. left = 0
    BY <1>4, ConstantTree DEF IsConst, Meaning
  <2>2. right \in Inputs
    BY <1>4 DEF Ranged
  <2>3. Machine(op, left, right) = right
    <3>1. Unbounded(op, left, right) = right
      BY <1>4, <2>1 DEF Unbounded
    <3> QED BY <3>1, <2>2, WrapFacts DEF Machine
  <2> QED BY <2>3, <1>4
<1>5. CASE Construct(op, l, r) = Node(op, l, r)
  <2>1. \A e, by : Values(e, by)[Node(op, l, r)][1]
                     = Apply(by, op, Values(e, by)[l][1], Values(e, by)[r][1])
    BY <1>1, NodeTree
  <2>2. /\ Meaning(Node(op, l, r), env) = Machine(op, left, right)
        /\ Z3Meaning(Node(op, l, r), env) = Z3Result(op, Z3Meaning(l, env), Z3Meaning(r, env))
    BY <2>1 DEF Meaning, Z3Meaning, Apply
  <2> QED BY <2>2, <1>5
<1> QED BY <1>2, <1>3, <1>4, <1>5, ConstructCases

Progressive(Good) ==
  \A s \in Texts : (\A u \in Texts : Len(u) < Len(s) => u \in Good) => s \in Good

LEMMA ShorterFirst ==
  ASSUME NEW Good, Progressive(Good)
  PROVE  Texts \subseteq Good
<1> DEFINE Bad == {s \in Texts : s \notin Good}
           T == {Len(s) : s \in Bad}
<1>1. SUFFICES ASSUME Bad # {} PROVE FALSE
  OBVIOUS
<1>2. \A s \in Bad : s \in Texts /\ Len(s) \in Nat
  BY DEF Texts
<1>3. T \subseteq Nat /\ T # {}
  BY <1>1, <1>2
<1>4. PICK k \in T : \A j \in T : k <= j
  BY <1>3, LeastOf
<1>5. PICK s \in Bad : Len(s) = k
  BY <1>4
<1>6. \A u \in Texts : Len(u) < Len(s) => u \in Good
  <2>1. \A u \in Bad : ~(Len(u) < Len(s))
    BY <1>2, <1>4, <1>5
  <2> QED BY <2>1
<1> QED BY <1>5, <1>6 DEF Progressive

\* The values of any sequence of nodes are a stack.
LEMMA ValuesStack ==
  ASSUME NEW env, NEW by
  PROVE  \A s \in Texts : IsStack(Values(env, by)[s])
<1> DEFINE f == Values(env, by)
           Good == {s \in Texts : IsStack(f[s])}
<1>1. ASSUME NEW s \in Texts, \A u \in Texts : Len(u) < Len(s) => u \in Good
      PROVE  s \in Good
  <2>1. CASE s = <<>>
    <3>1. f[<<>>] = <<>> /\ IsStack(<<>>)
      <4>1. IsTree(Const(0))
        BY ConstTree
      <4>2. Const(0)[1] \in Tokens /\ <<>> \in Texts
        BY <4>1 DEF IsTree, Texts
      <4> QED BY <4>2, ValuesStep
    <3> QED BY <2>1, <3>1
  <2>2. CASE s # <<>>
    <3>1. /\ Tail(s) \in Texts /\ Head(s) \in Tokens /\ Len(s) \in Nat
          /\ Len(Tail(s)) = Len(s) - 1
      BY <2>2, TailFacts DEF Texts
    <3>2. Len(Tail(s)) < Len(s)
      BY <3>1
    <3>3. IsStack(f[Tail(s)])
      BY <1>1, <3>1, <3>2
    <3> DEFINE v == f[Tail(s)]
    <3>4. f[s] = Push(Head(s), v, env, by) /\ IsStack(v)
      BY <2>2, <3>3, ValuesDef DEF ValuesOn
    <3> HIDE DEF f, v
    <3>5. PICK S : v \in Seq(S)
      BY <3>4 DEF IsStack
    <3>6. Len(v) > 1 => IsStack(Tail(Tail(v)))
      <4>1. ASSUME Len(v) > 1 PROVE Tail(Tail(v)) \in Seq(S)
        <5>1. v # <<>>
          BY <4>1
        <5>2. Tail(v) \in Seq(S) /\ Len(Tail(v)) = Len(v) - 1 /\ Len(v) \in Nat
          BY <5>1, <3>5, TailFacts
        <5>3. Tail(v) # <<>>
          <6>1. Len(Tail(v)) # 0 /\ Len(<<>>) = 0
            BY <5>2, <4>1
          <6> QED BY <6>1
        <5> QED BY <5>2, <5>3, TailFacts
      <4> QED BY <4>1 DEF IsStack
    <3>7. \A x : IsStack(<<x>> \o v)
      BY <3>4, StackFacts
    <3>8. \A x : Len(v) > 1 => IsStack(<<x>> \o Tail(Tail(v)))
      BY <3>6, StackFacts
    <3>9. IsStack(Push(Head(s), v, env, by))
      BY <3>7, <3>8 DEF Push
    <3> QED BY <3>4, <3>9
  <2> QED BY <2>1, <2>2
<1>2. Texts \subseteq Good
  <2> HIDE DEF Good
  <2> QED BY <1>1, ShorterFirst DEF Progressive
<1> QED BY <1>2

-----------------------------------------------------------------------------
(* What a model means is what its tree means.                              *)

\* env2 gives the user variables the values of their trees.
Agrees(env, env2, by, variables) ==
  \A v \in DOMAIN variables : env2[v] = Values(env, by)[variables[v]][1]

Reads(s, y, rest, f) == f[s] = <<y>> \o f[rest]

Faithful(s, reading, variables) ==
  reading.tree # NULL =>
    /\ IsTree(reading.tree)
    /\ \A env, env2, by : Agrees(env, env2, by, variables) =>
         Reads(s, Values(env, by)[reading.tree][1], reading.rest, Values(env2, by))

LEMMA ReadsPush ==
  ASSUME NEW s \in Texts, s # <<>>, NEW env, NEW by, NEW y, s[1][1] # "op",
         LeafValue(s[1], env) = y
  PROVE  Reads(s, y, Tail(s), Values(env, by))
<1>1. Values(env, by)[s] = Push(Head(s), Values(env, by)[Tail(s)], env, by)
  BY ValuesDef DEF ValuesOn
<1>2. Head(s) = s[1]
  BY TailFacts DEF Texts
<1> QED BY <1>1, <1>2 DEF Reads, Push, LeafValue

LEMMA ReadsNode ==
  ASSUME NEW s \in Texts, s # <<>>, s[1][1] = "op", NEW env, NEW by, NEW a, NEW b,
         NEW u \in Texts, NEW w \in Texts,
         Reads(Tail(s), a, u, Values(env, by)), Reads(u, b, w, Values(env, by))
  PROVE  Reads(s, Apply(by, s[1][2], a, b), w, Values(env, by))
<1> DEFINE f == Values(env, by)
           v == f[Tail(s)]
<1>1. f[s] = Push(Head(s), v, env, by)
  BY ValuesDef DEF ValuesOn
<1>2. Head(s) = s[1]
  BY TailFacts DEF Texts
<1>3. IsStack(f[w])
  BY ValuesStack
<1>4. TwoOn(v, a, b, f[w])
  BY DEF TwoOn, Reads
<1> HIDE DEF f, v
<1>5. v[1] = a /\ v[2] = b /\ Tail(Tail(v)) = f[w] /\ Len(v) > 1
  BY <1>3, <1>4, SecondOf
<1>6. f[s] = <<Apply(by, s[1][2], a, b)>> \o f[w]
  BY <1>1, <1>2, <1>5 DEF Push
<1> QED BY <1>6 DEF Reads, f

LEMMA ReadFaithful ==
  ASSUME NEW variables, \A v \in DOMAIN variables : IsTree(variables[v])
  PROVE  \A s \in Texts : Faithful(s, constructTree(variables)[s], variables)
<1> DEFINE f == constructTree(variables)
           Good == {s \in Texts : Faithful(s, f[s], variables)}
<1>1. ASSUME NEW s \in Texts, \A u \in Texts : Len(u) < Len(s) => u \in Good
      PROVE  s \in Good
  <2>1. f[s] = ReadStep(s, f, variables)
    BY ReadDef DEF ReadOn
  <2>2. /\ \A u \in Texts : Shortens(u, f[u])
        /\ \A u \in Texts : Len(u) \in Nat
    BY ReadDef DEF Texts
  <2> HIDE DEF f
  <2>3. CASE f[s] = Dies
    BY <2>3 DEF Faithful, Dies
  <2>4. CASE s # <<>> /\ s[1][1] = "const"
    <3>1. s[1] \in Tokens
      BY <2>4, TailFacts DEF Texts
    <3>2. f[s].tree = << s[1] >> /\ f[s].rest = Tail(s)
      BY <2>1, <2>4 DEF ReadStep
    <3> DEFINE x == s[1]
    <3>3. x \in Tokens /\ x[1] \in {"sym", "const"}
      BY <3>1, <2>4
    <3> HIDE DEF x
    <3>4. IsTree(<<x>>) /\ \A env, by : Values(env, by)[<<x>>][1] = LeafValue(x, env)
      BY <3>3, LeafTree
    <3>5. \A env, env2 : LeafValue(x, env) = LeafValue(x, env2)
      BY <2>4 DEF LeafValue, x
    <3>6. \A env, env2, by : Reads(s, LeafValue(x, env), Tail(s), Values(env2, by))
      BY <2>4, <3>5, ReadsPush DEF x
    <3> QED BY <3>2, <3>4, <3>6 DEF Faithful, x
  <2>5. CASE s # <<>> /\ s[1][1] = "sym" /\ s[1][2] \in DOMAIN variables
    <3>1. f[s].tree = variables[s[1][2]] /\ f[s].rest = Tail(s)
      BY <2>1, <2>5 DEF ReadStep, ReadVariable
    <3>2. ASSUME NEW env, NEW env2, NEW by, Agrees(env, env2, by, variables)
          PROVE  Reads(s, Values(env, by)[variables[s[1][2]]][1], Tail(s), Values(env2, by))
      <4>1. LeafValue(s[1], env2) = Values(env, by)[variables[s[1][2]]][1]
        BY <2>5, <3>2 DEF LeafValue, Agrees
      <4> QED BY <4>1, <2>5, ReadsPush
    <3> QED BY <2>5, <3>1, <3>2 DEF Faithful
  <2>6. CASE s # <<>> /\ s[1] \in {"op"} \X ReadOperators
    <3> DEFINE left == f[Tail(s)]
               right == f[left.rest]
               op == s[1][2]
    <3>1. Tail(s) \in Texts /\ Len(Tail(s)) = Len(s) - 1 /\ Len(s) \in Nat /\ s[1][1] = "op"
      BY <2>6, TailFacts DEF Texts
    <3>2. left.rest \in Texts /\ Len(left.rest) < Len(s)
      <4>1. left.rest \in Texts /\ Len(left.rest) <= Len(Tail(s))
        BY <2>2, <3>1 DEF Shortens
      <4> QED BY <4>1, <3>1, <2>2
    <3>3. right.rest \in Texts
      BY <3>2, <2>2 DEF Shortens
    <3>4. Faithful(Tail(s), left, variables) /\ Faithful(left.rest, right, variables)
      <4>1. Len(Tail(s)) < Len(s)
        BY <3>1
      <4> QED BY <4>1, <3>1, <3>2, <1>1
    <3>5. f[s] = ReadNode(op, left, right)
      BY <2>1, <2>6, <3>1 DEF ReadStep
    <3>6. op \in OperatorNames
      BY <2>6 DEF ReadOperators, OperatorNames
    <3> HIDE DEF left, right, op
    <3>7. CASE NULL \in {left.tree, right.tree}
      BY <3>5, <3>7, <2>3 DEF ReadNode
    <3>8. CASE NULL \notin {left.tree, right.tree}
      <4>1. f[s].tree = Node(op, left.tree, right.tree) /\ f[s].rest = right.rest
        BY <3>5, <3>8 DEF ReadNode
      <4> DEFINE l == left.tree
                 r == right.tree
      <4>2. IsTree(l) /\ IsTree(r)
        BY <3>4, <3>8 DEF Faithful
      <4>3. /\ IsTree(Node(op, l, r))
            /\ \A env, by : Values(env, by)[Node(op, l, r)][1]
                              = Apply(by, op, Values(env, by)[l][1], Values(env, by)[r][1])
        <5> HIDE DEF l, r
        <5> QED BY <3>6, <4>2, NodeTree
      <4>4. ASSUME NEW env, NEW env2, NEW by, Agrees(env, env2, by, variables)
            PROVE  Reads(s, Values(env, by)[Node(op, l, r)][1], right.rest, Values(env2, by))
        <5>1. Reads(Tail(s), Values(env, by)[l][1], left.rest, Values(env2, by))
          BY <3>4, <3>8, <4>4 DEF Faithful
        <5>2. Reads(left.rest, Values(env, by)[r][1], right.rest, Values(env2, by))
          BY <3>4, <3>8, <4>4 DEF Faithful
        <5>3. Reads(s, Apply(by, op, Values(env, by)[l][1], Values(env, by)[r][1]), right.rest,
                    Values(env2, by))
          BY <5>1, <5>2, <2>6, <3>1, <3>2, <3>3, ReadsNode DEF op
        <5> QED BY <4>3, <5>3
      <4> QED BY <4>1, <4>3, <4>4 DEF Faithful
    <3> QED BY <3>7, <3>8
  <2>7. \/ f[s] = Dies
        \/ s # <<>> /\ s[1][1] = "const"
        \/ s # <<>> /\ s[1][1] = "sym" /\ s[1][2] \in DOMAIN variables
        \/ s # <<>> /\ s[1] \in {"op"} \X ReadOperators
    BY <2>1 DEF ReadStep, ReadVariable
  <2> QED BY <2>3, <2>4, <2>5, <2>6, <2>7
<1>2. Texts \subseteq Good
  <2> HIDE DEF Good
  <2> QED BY <1>1, ShorterFirst DEF Progressive
<1> QED BY <1>2

-----------------------------------------------------------------------------
(* Types.                                                                  *)

LEMMA NodeType ==
  ASSUME NEW op \in OperatorNames, NEW l \in Texts, NEW r \in Texts
  PROVE  Node(op, l, r) \in Texts
<1> DEFINE x == <<"op", op>>
<1>1. x \in Tokens
  BY DEF Tokens
<1> HIDE DEF x
<1>2. << x >> \in Texts
  BY <1>1 DEF Texts
<1>3. <<x>> \o l \in Texts
  BY <1>2, ConcatFacts DEF Texts
<1>4. (<<x>> \o l) \o r \in Texts
  BY <1>3, ConcatFacts DEF Texts
<1> QED BY <1>4 DEF Node, x

LEMMA LeafTypes ==
  /\ NULL \in Texts /\ Lost \in Texts
  /\ \A n \in Int : Const(n) \in Texts
  /\ \A v \in Names : Sym(v) \in Texts
<1> DEFINE none == <<"none", "">>
           gone == <<"lost", "">>
<1>1. none \in Tokens /\ gone \in Tokens
  BY DEF Tokens
<1>2. \A v \in Names : <<"sym", v>> \in Tokens
  BY DEF Tokens
<1>3. \A x \in Tokens : << x >> \in Texts
  BY DEF Texts
<1>4. \A n \in Int : Const(n) \in Texts
  BY ConstTree DEF IsTree
<1>5. \A v \in Names : Sym(v) \in Texts
  BY <1>2, <1>3 DEF Sym
<1> HIDE DEF none, gone
<1>6. << none >> \in Texts /\ << gone >> \in Texts
  BY <1>1, <1>3
<1> QED BY <1>4, <1>5, <1>6 DEF NULL, Lost, none, gone

LEMMA ConstructType ==
  ASSUME NEW op \in OperatorNames, NEW l \in Texts, NEW r \in Texts
  PROVE  Construct(op, l, r) \in Texts
<1>1. Node(op, l, r) \in Texts
  BY NodeType
<1>2. Value(l) \in Texts /\ Value(r) \in Texts
  BY LeafTypes DEF Value
<1>3. \A t \in Texts : isConstant(t) => t[1][2] \in Int
  <2>1. ASSUME NEW t \in Texts, isConstant(t) PROVE t[1][2] \in Int
    <3>1. t[1] \in Tokens /\ t[1][1] = "const"
      <4>1. t \in Seq(Tokens) /\ Len(t) = 1 /\ t[1][1] = "const"
        BY <2>1 DEF isConstant, IsLeaf, Texts
      <4>2. \A k \in 1..Len(t) : t[k] \in Tokens
        BY <4>1
      <4> QED BY <4>1, <4>2
    <3>2. t[1] \in {"const"} \X Int
      BY <3>1 DEF Tokens
    <3> QED BY <3>2
  <2> QED BY <2>1
<1>4. isConstant(l) /\ isConstant(r) => evaluate(l, r, op) \in Texts
  <2>1. SUFFICES ASSUME isConstant(l), isConstant(r) PROVE evaluate(l, r, op) \in Texts
    OBVIOUS
  <2> DEFINE n == IF op = "+" THEN l[1][2] + r[1][2] ELSE l[1][2] - r[1][2]
  <2>2. n \in Int
    BY <2>1, <1>3
  <2> HIDE DEF n
  <2>3. Wrap(n) \in Int
    BY <2>2, WrapFacts
  <2>4. Const(Wrap(n)) \in Texts
    BY <2>3, LeafTypes
  <2> QED BY <2>4 DEF evaluate, n
<1> QED BY <1>1, <1>2, <1>4 DEF Construct

LEMMA ReadType ==
  ASSUME NEW variables, \A v \in DOMAIN variables : variables[v] \in Texts
  PROVE  \A s \in Texts : constructTree(variables)[s].tree \in Texts
<1> DEFINE f == constructTree(variables)
           Good == {s \in Texts : f[s].tree \in Texts}
<1>1. ASSUME NEW s \in Texts, \A u \in Texts : Len(u) < Len(s) => u \in Good
      PROVE  s \in Good
  <2>1. f[s] = ReadStep(s, f, variables)
    BY ReadDef DEF ReadOn
  <2>2. /\ \A u \in Texts : Shortens(u, f[u])
        /\ \A u \in Texts : Len(u) \in Nat
    BY ReadDef DEF Texts
  <2> HIDE DEF f
  <2>3. Dies.tree \in Texts
    BY LeafTypes DEF Dies
  <2>4. CASE s # <<>> /\ s[1] \in {"op"} \X ReadOperators
    <3> DEFINE left == f[Tail(s)]
               right == f[left.rest]
               op == s[1][2]
    <3>1. Tail(s) \in Texts /\ Len(Tail(s)) = Len(s) - 1 /\ Len(s) \in Nat /\ s[1][1] = "op"
      BY <2>4, TailFacts DEF Texts
    <3>2. left.rest \in Texts /\ Len(left.rest) < Len(s)
      <4>1. left.rest \in Texts /\ Len(left.rest) <= Len(Tail(s))
        BY <2>2, <3>1 DEF Shortens
      <4> QED BY <4>1, <3>1, <2>2
    <3>3. left.tree \in Texts /\ right.tree \in Texts
      <4>1. Len(Tail(s)) < Len(s)
        BY <3>1
      <4> QED BY <4>1, <3>1, <3>2, <1>1
    <3>4. f[s] = ReadNode(op, left, right)
      BY <2>1, <2>4, <3>1 DEF ReadStep
    <3>5. op \in OperatorNames
      BY <2>4 DEF ReadOperators, OperatorNames
    <3> HIDE DEF left, right, op
    <3>6. Node(op, left.tree, right.tree) \in Texts
      BY <3>3, <3>5, NodeType
    <3> QED BY <3>4, <3>6, <2>3 DEF ReadNode
  <2>5. CASE s # <<>> /\ s[1][1] = "const"
    <3>1. s[1] \in Tokens
      BY <2>5, TailFacts DEF Texts
    <3>2. << s[1] >> \in Texts
      BY <3>1 DEF Texts
    <3> QED BY <2>1, <2>5, <3>2 DEF ReadStep
  <2>6. CASE s # <<>> /\ s[1][1] = "sym" /\ s[1][2] \in DOMAIN variables
    BY <2>1, <2>6 DEF ReadStep, ReadVariable
  <2>7. \/ f[s] = Dies
        \/ s # <<>> /\ s[1][1] = "const"
        \/ s # <<>> /\ s[1][1] = "sym" /\ s[1][2] \in DOMAIN variables
        \/ s # <<>> /\ s[1] \in {"op"} \X ReadOperators
    BY <2>1 DEF ReadStep, ReadVariable
  <2> QED BY <2>3, <2>4, <2>5, <2>6, <2>7
<1>2. Texts \subseteq Good
  <2> HIDE DEF Good
  <2> QED BY <1>1, ShorterFirst DEF Progressive
<1> QED BY <1>2

-----------------------------------------------------------------------------
(* Sequences of frames: how they change.                                   *)

\* t is made of items of s and, as its last item, of g.
Replaces(t, s, g) ==
  /\ t # <<>> /\ t[Len(t)] = g
  /\ \A k \in 1..Len(t) : t[k] = g \/ \E m \in 1..Len(s) : t[k] = s[m]

LEMMA Replacing ==
  ASSUME NEW S, NEW s \in Seq(S), s # <<>>, NEW g \in S
  PROVE  /\ [s EXCEPT ![Len(s)] = g] \in Seq(S)
         /\ Replaces([s EXCEPT ![Len(s)] = g], s, g)
<1> DEFINE t == [s EXCEPT ![Len(s)] = g]
<1>1. Len(s) \in Nat \ {0}
  OBVIOUS
<1>2. t \in Seq(S) /\ Len(t) = Len(s)
  BY <1>1
<1>3. t # <<>>
  BY <1>1, <1>2
<1>4. t[Len(t)] = g /\ \A k \in 1..Len(t) : t[k] = g \/ t[k] = s[k]
  BY <1>1, <1>2
<1> QED BY <1>2, <1>3, <1>4 DEF Replaces

LEMMA Appending ==
  ASSUME NEW S, NEW s \in Seq(S), NEW g \in S
  PROVE  Append(s, g) \in Seq(S) /\ Replaces(Append(s, g), s, g)
<1> DEFINE t == Append(s, g)
<1>1. t \in Seq(S) /\ Len(t) = Len(s) + 1 /\ Len(s) \in Nat
  OBVIOUS
<1>2. t # <<>>
  BY <1>1
<1>3. t[Len(t)] = g /\ \A k \in 1..Len(t) : t[k] = g \/ (k \in 1..Len(s) /\ t[k] = s[k])
  BY <1>1
<1> QED BY <1>1, <1>2, <1>3 DEF Replaces

LEMMA Leaving ==
  ASSUME NEW S, NEW s \in Seq(S), Len(s) > 1, NEW g \in S
  PROVE  /\ Append(SubSeq(s, 1, Len(s) - 2), g) \in Seq(S)
         /\ Replaces(Append(SubSeq(s, 1, Len(s) - 2), g), s, g)
<1> DEFINE n == Len(s) - 2
           u == SubSeq(s, 1, n)
<1>1. Len(s) \in Nat /\ n \in Nat /\ n <= Len(s)
  OBVIOUS
<1> HIDE DEF n
<1>2. u \in Seq(S) /\ Len(u) = n /\ \A k \in 1..n : u[k] = s[k]
  BY <1>1
<1> HIDE DEF u
<1>3. Append(u, g) \in Seq(S) /\ Replaces(Append(u, g), u, g)
  BY <1>2, Appending
<1>4. Replaces(Append(u, g), s, g)
  BY <1>1, <1>2, <1>3 DEF Replaces
<1> QED BY <1>3, <1>4 DEF u, n

-----------------------------------------------------------------------------
(* The inductive invariant.                                                *)

Frame ==
  [map : UNION {[D -> Seq(Tokens)] : D \in SUBSET Locals},
   z3Constraints : Seq(Seq(Tokens) \X BOOLEAN),
   conc : UNION {[D -> [Inputs -> Int]] : D \in SUBSET Locals}]

Typed ==
  /\ frames \in Seq(Frame) \ {<<>>}
  /\ alive \subseteq Inputs /\ exact \subseteq Inputs
  /\ crashed \in BOOLEAN /\ lost \subseteq Reasons
  /\ {executed, computed, compared} \subseteq Nat

FrameOK(f) == DOMAIN f.map = DOMAIN f.conc /\ "x" \in DOMAIN f.conc

\* For the inputs al that take the path, t means value, also to Z3 for those in ex.
Keeps(t, value, al, ex) ==
  /\ IsTree(t)
  /\ \A i \in al : /\ Meaning(t, Symbols(i)) = value[i] /\ Ranged(t, value[i])
                   /\ i \in ex => Z3Meaning(t, Symbols(i)) = value[i]

Satisfies(c, i) == Z3Meaning(c[1], Symbols(i)) = Truth(c[2])

AllSatisfied(constraints, I) == \A j \in 1..Len(constraints) : \A i \in I : Satisfies(constraints[j], i)

Violated(constraints, i) == \E j \in 1..Len(constraints) : ~Satisfies(constraints[j], i)

FrameKept(f, al, ex) ==
  /\ \A v \in DOMAIN f.map : Keeps(f.map[v], f.conc[v], al, ex)
  /\ AllSatisfied(f.z3Constraints, al \cap ex)

\* While nothing is lost, the executor is up, every frame is kept, and an input that
\* has left the path is excluded by the constraints of the innermost frame.
Kept ==
  /\ ~crashed
  /\ \A k \in 1..Len(frames) : FrameKept(frames[k], alive, exact)
  /\ \A i \in exact \ alive : Violated(top.z3Constraints, i)

IndInv ==
  /\ Typed
  /\ \A k \in 1..Len(frames) : FrameOK(frames[k])
  /\ lost = {} => Kept

LEMMA KeepsFewer ==
  ASSUME NEW t, NEW value, NEW al, NEW ex, NEW al2, NEW ex2, al2 \subseteq al, ex2 \subseteq ex,
         Keeps(t, value, al, ex)
  PROVE  Keeps(t, value, al2, ex2)
BY DEF Keeps

LEMMA FewerKept ==
  ASSUME NEW f, NEW al, NEW ex, NEW al2, NEW ex2, al2 \subseteq al, ex2 \subseteq ex,
         FrameKept(f, al, ex)
  PROVE  FrameKept(f, al2, ex2)
<1>1. \A v \in DOMAIN f.map : Keeps(f.map[v], f.conc[v], al2, ex2)
  BY KeepsFewer DEF FrameKept
<1>2. AllSatisfied(f.z3Constraints, al2 \cap ex2)
  BY DEF FrameKept, AllSatisfied
<1> QED BY <1>1, <1>2 DEF FrameKept

LEMMA KeptTrees ==
  ASSUME NEW f, NEW al, NEW ex, FrameKept(f, al, ex)
  PROVE  ~CopyDies(f.map) /\ ~ReportDies(f.map)
<1>1. \A v \in DOMAIN f.map : f.map[v] # NULL /\ ~HasLost(f.map[v])
  BY TreeFacts DEF FrameKept, Keeps
<1> QED BY <1>1 DEF CopyDies, ReportDies, Range, get

Maps(S) == UNION {[D -> S] : D \in SUBSET Locals}
Constraints == Seq(Texts \X BOOLEAN)

LEMMA FrameType ==
  Frame = [map : Maps(Texts), z3Constraints : Constraints, conc : Maps([Inputs -> Int])]
BY DEF Frame, Maps, Constraints, Texts

LEMMA MapFacts ==
  ASSUME NEW S, NEW m \in Maps(S)
  PROVE  DOMAIN m \subseteq Locals /\ \A v \in DOMAIN m : m[v] \in S
BY DEF Maps

LEMMA AddFacts ==
  ASSUME NEW S, NEW m \in Maps(S), NEW v \in Locals, NEW y \in S
  PROVE  /\ add(m, v, y) \in Maps(S)
         /\ DOMAIN add(m, v, y) = DOMAIN m \cup {v}
         /\ add(m, v, y)[v] = y
         /\ \A w \in DOMAIN m : w # v => add(m, v, y)[w] = m[w]
<1>1. PICK D \in SUBSET Locals : m \in [D -> S]
  BY DEF Maps
<1>2. add(m, v, y) \in [(D \cup {v}) -> S]
  BY <1>1 DEF add
<1>3. D \cup {v} \in SUBSET Locals
  OBVIOUS
<1> QED BY <1>1, <1>2, <1>3 DEF add, Maps

LEMMA MapSet ==
  ASSUME NEW f \in Frame, NEW m
  PROVE  LET e == [f EXCEPT !.map = m]
         IN  /\ e = [map |-> m, z3Constraints |-> f.z3Constraints, conc |-> f.conc]
             /\ \E C, N : e \in [map : {m}, z3Constraints : C, conc : N]
<1>1. PICK M, C, N : f \in [map : M, z3Constraints : C, conc : N]
  BY DEF Frame
<1> DEFINE e == [f EXCEPT !.map = m]
<1>2. e = [map |-> m, z3Constraints |-> f.z3Constraints, conc |-> f.conc]
  BY <1>1
<1>3. e \in [map : {m}, z3Constraints : C, conc : N]
  BY <1>1, <1>2
<1> QED BY <1>2, <1>3

LEMMA MapAndConcSet ==
  ASSUME NEW f \in Frame, NEW m, NEW n
  PROVE  [[f EXCEPT !.map = m] EXCEPT !.conc = n]
           = [map |-> m, z3Constraints |-> f.z3Constraints, conc |-> n]
<1> DEFINE e == [f EXCEPT !.map = m]
<1>1. /\ e.map = m /\ e.z3Constraints = f.z3Constraints
      /\ \E C, N : e \in [map : {m}, z3Constraints : C, conc : N]
  BY MapSet
<1> HIDE DEF e
<1>2. [e EXCEPT !.conc = n] = [map |-> e.map, z3Constraints |-> e.z3Constraints, conc |-> n]
  BY <1>1
<1> QED BY <1>1, <1>2 DEF e

LEMMA AllSet ==
  ASSUME NEW f \in Frame, NEW m, NEW c, NEW n
  PROVE  [[[f EXCEPT !.map = m] EXCEPT !.z3Constraints = c] EXCEPT !.conc = n]
           = [map |-> m, z3Constraints |-> c, conc |-> n]
<1> DEFINE e == [f EXCEPT !.map = m]
           d == [e EXCEPT !.z3Constraints = c]
<1>1. PICK C, N : e.map = m /\ e \in [map : {m}, z3Constraints : C, conc : N]
  BY MapSet
<1> HIDE DEF e
<1>2. d = [map |-> e.map, z3Constraints |-> c, conc |-> e.conc]
  BY <1>1
<1>3. d \in [map : {m}, z3Constraints : {c}, conc : N] /\ d.map = m /\ d.z3Constraints = c
  BY <1>1, <1>2
<1> HIDE DEF d
<1>4. [d EXCEPT !.conc = n] = [map |-> d.map, z3Constraints |-> d.z3Constraints, conc |-> n]
  BY <1>3
<1> QED BY <1>3, <1>4 DEF d, e

LEMMA ConstraintsSet ==
  ASSUME NEW f \in Frame, NEW c
  PROVE  [f EXCEPT !.z3Constraints = c] = [map |-> f.map, z3Constraints |-> c, conc |-> f.conc]
BY DEF Frame

\* A frame in which v has got a tree and a value, and more constraints have been added.
Changed(f, v, tree, value, more) ==
  [map |-> add(f.map, v, tree), z3Constraints |-> f.z3Constraints \o more,
   conc |-> add(f.conc, v, value)]

LEMMA SatisfiedConcat ==
  ASSUME NEW c \in Constraints, NEW d \in Constraints
  PROVE  /\ c \o d \in Constraints
         /\ \A I : AllSatisfied(c, I) /\ AllSatisfied(d, I) => AllSatisfied(c \o d, I)
         /\ \A i : Violated(c, i) \/ Violated(d, i) => Violated(c \o d, i)
<1> DEFINE e == c \o d
<1>1. /\ e \in Constraints /\ Len(c) \in Nat /\ Len(d) \in Nat /\ Len(e) = Len(c) + Len(d)
      /\ \A k \in 1..Len(c) : e[k] = c[k]
      /\ \A k \in 1..Len(d) : e[Len(c) + k] = d[k]
  BY ConcatFacts DEF Constraints
<1> HIDE DEF e
<1>2. \A j \in 1..Len(e) : j \in 1..Len(c) \/ (j - Len(c) \in 1..Len(d) /\ j = Len(c) + (j - Len(c)))
  BY <1>1
<1>3. \A j \in 1..Len(e) : (\E k \in 1..Len(c) : e[j] = c[k]) \/ (\E k \in 1..Len(d) : e[j] = d[k])
  BY <1>1, <1>2
<1>4. ASSUME NEW I, AllSatisfied(c, I), AllSatisfied(d, I) PROVE AllSatisfied(e, I)
  BY <1>3, <1>4 DEF AllSatisfied
<1>5. ASSUME NEW i, Violated(c, i) PROVE Violated(e, i)
  <2>1. PICK k \in 1..Len(c) : ~Satisfies(c[k], i)
    BY <1>5 DEF Violated
  <2>2. k \in 1..Len(e) /\ e[k] = c[k]
    BY <1>1
  <2> QED BY <2>1, <2>2 DEF Violated
<1>6. ASSUME NEW i, Violated(d, i) PROVE Violated(e, i)
  <2>1. PICK k \in 1..Len(d) : ~Satisfies(d[k], i)
    BY <1>6 DEF Violated
  <2>2. Len(c) + k \in 1..Len(e) /\ e[Len(c) + k] = d[k]
    BY <1>1
  <2> QED BY <2>1, <2>2 DEF Violated
<1> QED BY <1>1, <1>4, <1>5, <1>6 DEF e

LEMMA ChangedFrame ==
  ASSUME NEW f \in Frame, FrameOK(f), NEW v \in Locals, NEW tree \in Texts,
         NEW value \in [Inputs -> Int], NEW more \in Constraints
  PROVE  /\ Changed(f, v, tree, value, more) \in Frame
         /\ FrameOK(Changed(f, v, tree, value, more))
         /\ \A al, ex : FrameKept(f, al, ex) /\ Keeps(tree, value, al, ex)
                          /\ AllSatisfied(more, al \cap ex)
                          => FrameKept(Changed(f, v, tree, value, more), al, ex)
         /\ \A i : Violated(f.z3Constraints, i) \/ Violated(more, i)
                     => Violated(Changed(f, v, tree, value, more).z3Constraints, i)
<1> DEFINE m == add(f.map, v, tree)
           n == add(f.conc, v, value)
           c == f.z3Constraints \o more
           g == Changed(f, v, tree, value, more)
<1>1. f.map \in Maps(Texts) /\ f.z3Constraints \in Constraints /\ f.conc \in Maps([Inputs -> Int])
  BY FrameType
<1>2. /\ m \in Maps(Texts) /\ DOMAIN m = DOMAIN f.map \cup {v} /\ m[v] = tree
      /\ \A w \in DOMAIN f.map : w # v => m[w] = f.map[w]
  <2> DEFINE q == f.map
  <2>1. q \in Maps(Texts)
    BY <1>1
  <2> HIDE DEF q
  <2>2. /\ add(q, v, tree) \in Maps(Texts)
        /\ DOMAIN add(q, v, tree) = DOMAIN q \cup {v}
        /\ add(q, v, tree)[v] = tree
        /\ \A w \in DOMAIN q : w # v => add(q, v, tree)[w] = q[w]
    BY <2>1, AddFacts
  <2> QED BY <2>2 DEF q
<1>3. /\ n \in Maps([Inputs -> Int]) /\ DOMAIN n = DOMAIN f.conc \cup {v} /\ n[v] = value
      /\ \A w \in DOMAIN f.conc : w # v => n[w] = f.conc[w]
  <2> DEFINE q == f.conc
             S == [Inputs -> Int]
  <2>1. q \in Maps(S) /\ value \in S
    BY <1>1
  <2> HIDE DEF q, S
  <2>2. /\ add(q, v, value) \in Maps(S)
        /\ DOMAIN add(q, v, value) = DOMAIN q \cup {v}
        /\ add(q, v, value)[v] = value
        /\ \A w \in DOMAIN q : w # v => add(q, v, value)[w] = q[w]
    BY <2>1, AddFacts
  <2> QED BY <2>2 DEF q, S
<1>4. /\ c \in Constraints
      /\ \A I : AllSatisfied(f.z3Constraints, I) /\ AllSatisfied(more, I) => AllSatisfied(c, I)
      /\ \A i : Violated(f.z3Constraints, i) \/ Violated(more, i) => Violated(c, i)
  BY <1>1, SatisfiedConcat
<1> HIDE DEF m, n, c
<1>5. g = [map |-> m, z3Constraints |-> c, conc |-> n]
  BY DEF Changed, m, n, c
<1> HIDE DEF g
<1>6. g.map = m /\ g.z3Constraints = c /\ g.conc = n
  BY <1>5
<1>7. g \in Frame
  BY <1>2, <1>3, <1>4, <1>5, FrameType
<1>8. FrameOK(g)
  BY <1>2, <1>3, <1>6 DEF FrameOK
<1>9. ASSUME NEW al, NEW ex, FrameKept(f, al, ex), Keeps(tree, value, al, ex),
             AllSatisfied(more, al \cap ex)
      PROVE  FrameKept(g, al, ex)
  <2>1. AllSatisfied(c, al \cap ex)
    BY <1>4, <1>9 DEF FrameKept
  <2>2. ASSUME NEW w \in DOMAIN m PROVE Keeps(m[w], n[w], al, ex)
    <3>1. CASE w = v
      BY <3>1, <1>2, <1>3, <1>9
    <3>2. CASE w # v
      <4>1. w \in DOMAIN f.map /\ m[w] = f.map[w] /\ n[w] = f.conc[w]
        BY <3>2, <1>2, <1>3 DEF FrameOK
      <4> QED BY <4>1, <1>9 DEF FrameKept
    <3> QED BY <3>1, <3>2
  <2> QED BY <2>1, <2>2, <1>6 DEF FrameKept
<1> QED BY <1>4, <1>6, <1>7, <1>8, <1>9 DEF g

\* A step that replaces frames by g, where no input comes back, keeps the invariant.
LEMMA StepKeeps ==
  ASSUME IndInv, NEW g \in Frame, frames' \in Seq(Frame), Replaces(frames', frames, g), FrameOK(g),
         alive' \subseteq alive, exact' \subseteq exact,
         crashed' \in BOOLEAN, lost \subseteq lost', lost' \subseteq Reasons,
         {executed', computed', compared'} \subseteq Nat,
         lost' = {} /\ Kept => /\ ~crashed' /\ FrameKept(g, alive', exact')
                               /\ \A i \in exact' \ alive' : Violated(g.z3Constraints, i)
  PROVE  IndInv'
<1>1. frames' # <<>> /\ frames'[Len(frames')] = g
  BY DEF Replaces
<1>2. Typed'
  BY <1>1 DEF IndInv, Typed
<1>3. \A k \in 1..Len(frames') : FrameOK(frames'[k])
  BY DEF Replaces, IndInv
<1>4. top' = g
  BY <1>1 DEF top, Last
<1>5. ASSUME lost' = {} PROVE Kept'
  <2>1. lost = {} /\ Kept
    BY <1>5 DEF IndInv
  <2>2. \A m \in 1..Len(frames) : FrameKept(frames[m], alive', exact')
    BY <2>1, FewerKept DEF Kept
  <2>3. FrameKept(g, alive', exact')
    BY <2>1, <1>5
  <2>4. \A k \in 1..Len(frames') : FrameKept(frames'[k], alive', exact')
    BY <2>2, <2>3 DEF Replaces
  <2>5. ~crashed' /\ \A i \in exact' \ alive' : Violated(g.z3Constraints, i)
    BY <2>1, <1>5
  <2> QED BY <2>4, <2>5, <1>4 DEF Kept
<1> QED BY <1>2, <1>3, <1>5 DEF IndInv

-----------------------------------------------------------------------------
(* Steps that give a value to a register or to the variable.               *)

LEMMA TopFacts ==
  ASSUME IndInv
  PROVE  /\ frames \in Seq(Frame) /\ frames # <<>> /\ Len(frames) \in Nat \ {0}
         /\ top = frames[Len(frames)] /\ top \in Frame /\ FrameOK(top)
         /\ Kept => FrameKept(top, alive, exact)
         /\ map \in Maps(Texts) /\ conc \in Maps([Inputs -> Int])
         /\ top.z3Constraints \in Constraints
         /\ DOMAIN map = DOMAIN conc /\ DOMAIN conc \subseteq Locals /\ "x" \in DOMAIN conc
         /\ \A v \in DOMAIN conc : map[v] \in Texts /\ conc[v] \in [Inputs -> Int]
<1>1. frames \in Seq(Frame) /\ frames # <<>>
  BY DEF IndInv, Typed
<1>2. Len(frames) \in Nat \ {0}
  BY <1>1
<1>3. top = frames[Len(frames)] /\ top \in Frame
  BY <1>1, <1>2 DEF top, Last
<1>4. FrameOK(top) /\ (Kept => FrameKept(top, alive, exact))
  BY <1>2, <1>3 DEF IndInv, Kept
<1>5. /\ map \in Maps(Texts) /\ conc \in Maps([Inputs -> Int])
      /\ top.z3Constraints \in Constraints
  BY <1>3, FrameType DEF map, conc
<1>6. DOMAIN map = DOMAIN conc /\ "x" \in DOMAIN conc
  BY <1>4 DEF FrameOK, map, conc
<1>7. DOMAIN map \subseteq Locals /\ \A v \in DOMAIN map : map[v] \in Texts
  BY <1>5, MapFacts
<1>8. \A v \in DOMAIN conc : conc[v] \in [Inputs -> Int]
  <2> DEFINE S == [Inputs -> Int]
  <2>1. conc \in Maps(S)
    BY <1>5
  <2> HIDE DEF S
  <2>2. \A v \in DOMAIN conc : conc[v] \in S
    BY <2>1, MapFacts
  <2> QED BY <2>2 DEF S
<1> QED BY <1>1, <1>2, <1>3, <1>4, <1>5, <1>6, <1>7, <1>8

Operand(o) == (\E n \in Constants : o = <<"const", n>>) \/ (\E v \in DOMAIN conc : o = <<"val", v>>)

LEMMA OperandFacts ==
  ASSUME IndInv, NEW o, Operand(o)
  PROVE  /\ getExpressionTree(o) \in Texts /\ Passed(o) \in Texts
         /\ Computed(o) \in [Inputs -> Int]
         /\ Kept => Keeps(getExpressionTree(o), Computed(o), alive, exact)
         /\ Kept /\ LostPassing(o) = {} => Keeps(Passed(o), Computed(o), alive, exact)
         /\ lost \subseteq LostPassing(o) /\ LostPassing(o) \subseteq Reasons
<1>1. lost \subseteq Reasons /\ alive \subseteq Inputs
  BY DEF IndInv, Typed
<1>2. lost \subseteq LostPassing(o) /\ LostPassing(o) \subseteq Reasons
  BY <1>1 DEF LostPassing, Reasons
<1>3. ASSUME NEW n \in Constants, o = <<"const", n>>
      PROVE  /\ getExpressionTree(o) \in Texts /\ Passed(o) \in Texts
             /\ Computed(o) \in [Inputs -> Int]
             /\ Keeps(getExpressionTree(o), Computed(o), alive, exact)
             /\ LostPassing(o) # {}
  <2>1. n \in Int
    BY InterpreterAssumption
  <2>2. getExpressionTree(o) = Const(n) /\ Passed(o) = NULL /\ Computed(o) = [i \in Inputs |-> n]
    BY <1>3 DEF getExpressionTree, Passed, Computed
  <2>3. /\ IsTree(Const(n)) /\ isConstant(Const(n))
        /\ \A env, by : Values(env, by)[Const(n)][1] = n
    BY <2>1, ConstTree
  <2>4. Keeps(Const(n), [i \in Inputs |-> n], alive, exact)
    BY <2>3, <1>1 DEF Keeps, Meaning, Z3Meaning, Ranged
  <2>5. LostPassing(o) # {}
    BY <1>3 DEF LostPassing
  <2> QED BY <2>1, <2>2, <2>4, <2>5, LeafTypes
<1>4. ASSUME NEW v \in DOMAIN conc, o = <<"val", v>>
      PROVE  /\ getExpressionTree(o) \in Texts /\ Passed(o) \in Texts
             /\ Computed(o) \in [Inputs -> Int]
             /\ Kept => /\ Keeps(getExpressionTree(o), Computed(o), alive, exact)
                        /\ Keeps(Passed(o), Computed(o), alive, exact)
  <2>1. v \in DOMAIN map /\ v \in Locals /\ map[v] \in Texts /\ conc[v] \in [Inputs -> Int]
    BY TopFacts
  <2>2. Passed(o) = map[v] /\ Computed(o) = conc[v]
    BY <1>4, <2>1 DEF Passed, Computed, get
  <2>3. getExpressionTree(o) = IF map[v] = NULL THEN Sym(v) ELSE map[v]
    BY <1>4, <2>1 DEF getExpressionTree, get
  <2>4. v \in Names
    BY <2>1, InterpreterAssumption DEF Locals
  <2>5. getExpressionTree(o) \in Texts
    BY <2>1, <2>3, <2>4, LeafTypes
  <2>6. ASSUME Kept PROVE Keeps(map[v], conc[v], alive, exact) /\ map[v] # NULL
    <3>1. Keeps(map[v], conc[v], alive, exact)
      BY <2>1, <2>6, TopFacts DEF FrameKept, map, conc
    <3> QED BY <3>1, TreeFacts DEF Keeps
  <2> QED BY <2>1, <2>2, <2>3, <2>5, <2>6
<1> QED BY <1>2, <1>3, <1>4 DEF Operand

LEMMA OperandsAre ==
  /\ \A o \in Operands : Operand(o)
  /\ \A v \in DOMAIN conc : Operand(<<"val", v>>)
BY DEF Operands, Operand

LEMMA Assigning ==
  ASSUME IndInv, NEW v \in Locals, NEW tree \in Texts, NEW value \in [Inputs -> Int],
         Assign(v, tree, value),
         alive' = alive, exact' \subseteq exact, crashed' = crashed,
         lost \subseteq lost', lost' \subseteq Reasons,
         {executed', computed', compared'} \subseteq Nat,
         lost' = {} /\ Kept => Keeps(tree, value, alive, exact')
  PROVE  IndInv'
<1> DEFINE g == Changed(top, v, tree, value, <<>>)
<1>1. /\ frames \in Seq(Frame) /\ frames # <<>> /\ Len(frames) \in Nat \ {0}
      /\ top = frames[Len(frames)] /\ top \in Frame /\ FrameOK(top)
      /\ top.z3Constraints \in Constraints
  BY TopFacts
<1>2. <<>> \in Constraints /\ \A I : AllSatisfied(<<>>, I)
  <2>1. Len(<<>>) = 0
    OBVIOUS
  <2> QED BY <2>1 DEF Constraints, AllSatisfied
<1>3. /\ g \in Frame /\ FrameOK(g)
      /\ \A al, ex : FrameKept(top, al, ex) /\ Keeps(tree, value, al, ex)
                       /\ AllSatisfied(<<>>, al \cap ex) => FrameKept(g, al, ex)
      /\ \A i : Violated(top.z3Constraints, i) \/ Violated(<<>>, i) => Violated(g.z3Constraints, i)
  BY <1>1, <1>2, ChangedFrame
<1>4. frames' = [frames EXCEPT ![Len(frames)] = g]
  <2>1. top.z3Constraints \o <<>> = top.z3Constraints
    BY <1>1 DEF Constraints
  <2>2. g = [map |-> add(top.map, v, tree), z3Constraints |-> top.z3Constraints,
             conc |-> add(top.conc, v, value)]
    BY <2>1 DEF Changed
  <2>4. frames' = [frames EXCEPT ![Len(frames)].map = add(@, v, tree),
                                 ![Len(frames)].conc = add(@, v, value)]
    BY DEF Assign
  <2>5. g = [[top EXCEPT !.map = add(top.map, v, tree)] EXCEPT !.conc = add(top.conc, v, value)]
    <3>1. [[top EXCEPT !.map = add(top.map, v, tree)] EXCEPT !.conc = add(top.conc, v, value)]
            = [map |-> add(top.map, v, tree), z3Constraints |-> top.z3Constraints,
               conc |-> add(top.conc, v, value)]
      <4> DEFINE f == top
                 m == add(top.map, v, tree)
                 n == add(top.conc, v, value)
      <4>1. f \in Frame
        BY <1>1
      <4> HIDE DEF f, m, n
      <4>2. [[f EXCEPT !.map = m] EXCEPT !.conc = n]
              = [map |-> m, z3Constraints |-> f.z3Constraints, conc |-> n]
        BY <4>1, MapAndConcSet
      <4> QED BY <4>2 DEF f, m, n
    <3> QED BY <3>1, <2>2
  <2> HIDE DEF g
  <2> QED BY <1>1, <2>4, <2>5
<1> HIDE DEF g
<1>5. frames' \in Seq(Frame) /\ Replaces(frames', frames, g)
  BY <1>1, <1>3, <1>4, Replacing
<1>6. ASSUME lost' = {}, Kept
      PROVE  ~crashed' /\ FrameKept(g, alive', exact')
             /\ \A i \in exact' \ alive' : Violated(g.z3Constraints, i)
  <2>1. FrameKept(top, alive, exact')
    BY <1>6, TopFacts, FewerKept
  <2>2. Keeps(tree, value, alive, exact')
    BY <1>6
  <2>3. FrameKept(g, alive, exact')
    BY <2>1, <2>2, <1>2, <1>3
  <2>4. ~crashed /\ \A i \in exact \ alive : Violated(top.z3Constraints, i)
    BY <1>6 DEF Kept
  <2> QED BY <2>3, <2>4, <1>3
<1>7. crashed' \in BOOLEAN
  BY DEF IndInv, Typed
<1> QED BY <1>3, <1>5, <1>6, <1>7, StepKeeps

LEMMA Computing ==
  ASSUME IndInv, NEW v \in Locals, NEW op \in BinaryOperators \cup Predicates, NEW data \in OperatorNames,
         NEW l, NEW r, Operand(l), Operand(r), Compute(v, op, data, l, r),
         alive' = alive, crashed' = crashed, {executed', computed', compared'} \subseteq Nat
  PROVE  IndInv'
<1> DEFINE left == Computed(l)
           right == Computed(r)
           a == getExpressionTree(l)
           b == getExpressionTree(r)
           tree == Construct(data, a, b)
           value == [i \in Inputs |-> IF i \in alive THEN Machine(op, left[i], right[i]) ELSE 0]
<1>1. /\ a \in Texts /\ left \in [Inputs -> Int] /\ (Kept => Keeps(a, left, alive, exact))
      /\ b \in Texts /\ right \in [Inputs -> Int] /\ (Kept => Keeps(b, right, alive, exact))
  BY OperandFacts
<1>2. alive \subseteq Inputs /\ lost \subseteq Reasons
  BY DEF IndInv, Typed
<1>3. /\ \A i \in alive : ~Undefined(op, left[i], right[i])
      /\ Assign(v, tree, value)
      /\ exact' = {i \in exact : i \in alive => Z3Result(op, left[i], right[i]) = Machine(op, left[i], right[i])}
      /\ lost' = lost \cup (IF Forgets(data, a, b) THEN {"fold"} ELSE {})
                      \cup (IF data # op THEN {"operator"} ELSE {})
  BY DEF Compute
<1>4. lost \subseteq lost' /\ lost' \subseteq Reasons /\ exact' \subseteq exact
  BY <1>2, <1>3 DEF Reasons
<1>5. tree \in Texts
  BY <1>1, ConstructType
<1>6. \A i \in alive : left[i] \in Int /\ right[i] \in Int /\ Machine(op, left[i], right[i]) \in Inputs
  <2>1. \A i \in alive : left[i] \in Int /\ right[i] \in Int
    BY <1>1, <1>2
  <2> HIDE DEF left, right
  <2> QED BY <2>1, <1>3, MachineFacts
<1>7. value \in [Inputs -> Int]
  <2>1. \A i \in alive : Machine(op, left[i], right[i]) \in Int
    BY <1>6, WrapFacts
  <2> HIDE DEF left, right
  <2> QED BY <2>1
<1>8. ASSUME lost' = {}, Kept PROVE Keeps(tree, value, alive, exact')
  <2>1. data = op /\ ~Forgets(data, a, b)
    BY <1>8, <1>3
  <2>2. Keeps(a, left, alive, exact) /\ Keeps(b, right, alive, exact)
    BY <1>1, <1>8
  <2> HIDE DEF left, right, a, b
  <2>3. IsTree(a) /\ IsTree(b)
    BY <2>2 DEF Keeps
  <2>4. IsTree(tree)
    BY <2>1, <2>3, ConstructTree
  <2>5. ASSUME NEW i \in alive
        PROVE  /\ Meaning(tree, Symbols(i)) = value[i] /\ Ranged(tree, value[i])
               /\ i \in exact' => Z3Meaning(tree, Symbols(i)) = value[i]
    <3> DEFINE m == left[i]
               n == right[i]
               env == Symbols(i)
    <3>1. value[i] = Machine(op, m, n)
      BY <1>2
    <3>2. m \in Int /\ n \in Int /\ Machine(op, m, n) \in Inputs /\ ~Undefined(op, m, n)
      BY <1>3, <1>6
    <3>3. /\ Meaning(a, env) = m /\ Ranged(a, m) /\ (i \in exact => Z3Meaning(a, env) = m)
          /\ Meaning(b, env) = n /\ Ranged(b, n) /\ (i \in exact => Z3Meaning(b, env) = n)
      BY <2>2 DEF Keeps
    <3>4. i \in exact' => i \in exact /\ Z3Result(op, m, n) = Machine(op, m, n)
      BY <1>3
    <3> HIDE DEF m, n, env
    <3>5. /\ Meaning(Construct(op, a, b), env) = Machine(op, m, n)
          /\ /\ Z3Meaning(a, env) = m /\ Z3Meaning(b, env) = n
             /\ Z3Result(op, m, n) = Machine(op, m, n)
             => Z3Meaning(Construct(op, a, b), env) = Machine(op, m, n)
      BY <2>1, <2>3, <3>2, <3>3, ConstructMeans
    <3>6. tree = Construct(op, a, b)
      BY <2>1
    <3> HIDE DEF tree, value
    <3> QED BY <3>1, <3>2, <3>3, <3>4, <3>5, <3>6 DEF Ranged, env
  <2> QED BY <2>4, <2>5 DEF Keeps
<1> HIDE DEF tree, value
<1> QED BY <1>3, <1>4, <1>5, <1>7, <1>8, Assigning

-----------------------------------------------------------------------------
(* Steps that change the path or the frames.                               *)

LEMMA Branching ==
  ASSUME IndInv, NEW side \in BOOLEAN, "c" \in DOMAIN conc, TakeSide(map["c"], side), executed' \in Nat
  PROVE  IndInv'
<1> DEFINE condition == map["c"]
           c == Append(top.z3Constraints, <<condition, side>>)
           g == [top EXCEPT !.z3Constraints = c]
<1>1. /\ frames \in Seq(Frame) /\ frames # <<>> /\ Len(frames) \in Nat \ {0}
      /\ top = frames[Len(frames)] /\ top \in Frame /\ FrameOK(top)
      /\ top.z3Constraints \in Constraints /\ condition \in Texts /\ "c" \in DOMAIN map
  BY TopFacts
<1>2. /\ alive' = {i \in alive : conc["c"][i] = Truth(side)}
      /\ crashed' = (\/ CopyDies(map) \/ ReportDies(map)
                     \/ ~(Operators(condition) \subseteq Translated) \/ HasLost(condition))
      /\ frames' = [frames EXCEPT ![Len(frames)].z3Constraints = Append(@, <<condition, side>>)]
      /\ lost' = (IF Operators(condition) \subseteq Translated THEN lost ELSE lost \cup {"operator"})
      /\ UNCHANGED <<exact, computed, compared>>
  BY DEF TakeSide
<1>3. g = [map |-> top.map, z3Constraints |-> c, conc |-> top.conc]
  BY <1>1, ConstraintsSet
<1>4. /\ c \in Constraints /\ Len(c) = Len(top.z3Constraints) + 1 /\ Len(top.z3Constraints) \in Nat
      /\ c[Len(c)] = <<condition, side>>
      /\ \A j \in 1..Len(top.z3Constraints) : c[j] = top.z3Constraints[j]
  <2> DEFINE d == top.z3Constraints
             x == <<condition, side>>
             S == Texts \X BOOLEAN
  <2>1. d \in Seq(S) /\ x \in S
    BY <1>1 DEF Constraints
  <2> HIDE DEF d, x, S
  <2>2. /\ Append(d, x) \in Seq(S) /\ Len(Append(d, x)) = Len(d) + 1 /\ Len(d) \in Nat
        /\ Append(d, x)[Len(Append(d, x))] = x
        /\ \A j \in 1..Len(d) : Append(d, x)[j] = d[j]
    BY <2>1
  <2> QED BY <2>2 DEF d, x, S, Constraints
<1>5. g \in Frame /\ FrameOK(g)
  <2>1. g \in Frame
    BY <1>1, <1>3, <1>4, FrameType
  <2> QED BY <2>1, <1>1, <1>3 DEF FrameOK
<1>6. frames' = [frames EXCEPT ![Len(frames)] = g]
  BY <1>1, <1>2
<1> HIDE DEF g, c
<1>7. frames' \in Seq(Frame) /\ Replaces(frames', frames, g)
  BY <1>1, <1>5, <1>6, Replacing
<1>8. ASSUME lost' = {}, Kept
      PROVE  ~crashed' /\ FrameKept(g, alive', exact')
             /\ \A i \in exact' \ alive' : Violated(g.z3Constraints, i)
  <2>1. FrameKept(top, alive, exact)
    BY <1>8, TopFacts
  <2>2. Keeps(condition, conc["c"], alive, exact)
    BY <2>1, <1>1 DEF FrameKept, map, conc
  <2>3. ~crashed'
    <3>1. ~CopyDies(map) /\ ~ReportDies(map)
      BY <2>1, KeptTrees DEF map
    <3>2. ~HasLost(condition)
      BY <2>2, TreeFacts DEF Keeps
    <3>3. Operators(condition) \subseteq Translated
      BY <1>2, <1>8
    <3> QED BY <3>1, <3>2, <3>3, <1>2
  <2>4. g.map = top.map /\ g.conc = top.conc /\ g.z3Constraints = c
    BY <1>3
  <2>5. FrameKept(g, alive', exact')
    <3>1. FrameKept(top, alive', exact')
      <4>1. alive' \subseteq alive /\ exact' \subseteq exact
        BY <1>2
      <4> QED BY <4>1, <2>1, FewerKept
    <3>2. ASSUME NEW j \in 1..Len(c), NEW i \in alive' \cap exact' PROVE Satisfies(c[j], i)
      <4>1. CASE j \in 1..Len(top.z3Constraints)
        BY <4>1, <3>1, <1>4 DEF FrameKept, AllSatisfied
      <4>2. CASE j = Len(c)
        <5>1. Z3Meaning(condition, Symbols(i)) = conc["c"][i] /\ conc["c"][i] = Truth(side)
          BY <1>2, <2>2 DEF Keeps
        <5>2. c[j][1] = condition /\ c[j][2] = side
          BY <4>2, <1>4
        <5> QED BY <5>1, <5>2 DEF Satisfies
      <4> QED BY <4>1, <4>2, <1>4
    <3>3. AllSatisfied(c, alive' \cap exact')
      BY <3>2 DEF AllSatisfied
    <3> QED BY <3>1, <3>3, <2>4 DEF FrameKept
  <2>6. ASSUME NEW i \in exact' \ alive' PROVE Violated(c, i)
    <3>1. CASE i \notin alive
      <4>1. Violated(top.z3Constraints, i)
        BY <3>1, <1>2, <1>8 DEF Kept
      <4>2. PICK j \in 1..Len(top.z3Constraints) : ~Satisfies(top.z3Constraints[j], i)
        BY <4>1 DEF Violated
      <4>3. j \in 1..Len(c) /\ c[j] = top.z3Constraints[j]
        BY <1>4
      <4> QED BY <4>2, <4>3 DEF Violated
    <3>2. CASE i \in alive
      <4>1. conc["c"][i] # Truth(side)
        BY <3>2, <1>2
      <4>2. Z3Meaning(condition, Symbols(i)) = conc["c"][i]
        BY <3>2, <1>2, <2>2 DEF Keeps
      <4>3. c[Len(c)][1] = condition /\ c[Len(c)][2] = side /\ Len(c) \in 1..Len(c)
        BY <1>4
      <4>4. ~Satisfies(c[Len(c)], i)
        BY <4>1, <4>2, <4>3 DEF Satisfies
      <4> QED BY <4>3, <4>4 DEF Violated
    <3> QED BY <3>1, <3>2
  <2> QED BY <2>3, <2>4, <2>5, <2>6
<1>9. /\ alive' \subseteq alive /\ exact' \subseteq exact /\ crashed' \in BOOLEAN
      /\ lost \subseteq lost' /\ lost' \subseteq Reasons
      /\ {executed', computed', compared'} \subseteq Nat
  BY <1>2 DEF IndInv, Typed, Reasons
<1> QED BY <1>5, <1>7, <1>8, <1>9, StepKeeps

LEMMA Entering ==
  ASSUME IndInv, NEW o, Operand(o), Enter(o), executed' \in Nat
  PROVE  IndInv'
<1> DEFINE m == [v \in {"x"} |-> Passed(o)]
           n == [v \in {"x"} |-> Computed(o)]
           g == [map |-> m, z3Constraints |-> top.z3Constraints, conc |-> n]
<1>1. /\ frames \in Seq(Frame) /\ top.z3Constraints \in Constraints
      /\ Passed(o) \in Texts /\ Computed(o) \in [Inputs -> Int]
  BY TopFacts, OperandFacts
<1>2. m \in Maps(Texts) /\ n \in Maps([Inputs -> Int])
  <2>1. {"x"} \in SUBSET Locals
    BY DEF Locals
  <2> DEFINE S == [Inputs -> Int]
  <2>2. n \in [{"x"} -> S] /\ m \in [{"x"} -> Texts]
    BY <1>1
  <2> HIDE DEF S, m, n
  <2>3. n \in Maps(S) /\ m \in Maps(Texts)
    BY <2>1, <2>2 DEF Maps
  <2> QED BY <2>3 DEF S
<1>3. DOMAIN m = {"x"} /\ DOMAIN n = {"x"} /\ m["x"] = Passed(o) /\ n["x"] = Computed(o)
  OBVIOUS
<1> HIDE DEF m, n
<1>4. g \in Frame /\ FrameOK(g)
  BY <1>1, <1>2, <1>3, FrameType DEF FrameOK
<1>5. frames' = Append(frames, g)
  BY DEF Enter, m, n
<1>6. g.map = m /\ g.z3Constraints = top.z3Constraints /\ g.conc = n
  OBVIOUS
<1> HIDE DEF g
<1>7. frames' \in Seq(Frame) /\ Replaces(frames', frames, g)
  BY <1>1, <1>4, <1>5, Appending
<1>8. crashed' = ReportDies(map) /\ lost' = LostPassing(o) /\ UNCHANGED <<alive, exact, computed, compared>>
  BY DEF Enter
<1>9. ASSUME lost' = {}, Kept
      PROVE  ~crashed' /\ FrameKept(g, alive', exact')
             /\ \A i \in exact' \ alive' : Violated(g.z3Constraints, i)
  <2>1. FrameKept(top, alive, exact)
    BY <1>9, TopFacts
  <2>2. Keeps(Passed(o), Computed(o), alive, exact)
    BY <1>8, <1>9, OperandFacts
  <2>3. ~crashed'
    BY <2>1, <1>8, KeptTrees DEF map
  <2>4. FrameKept(g, alive, exact)
    BY <2>1, <2>2, <1>3, <1>6 DEF FrameKept
  <2>5. \A i \in exact \ alive : Violated(g.z3Constraints, i)
    BY <1>6, <1>9 DEF Kept
  <2> QED BY <2>3, <2>4, <2>5, <1>8
<1>10. /\ alive' \subseteq alive /\ exact' \subseteq exact /\ crashed' \in BOOLEAN
       /\ lost \subseteq lost' /\ lost' \subseteq Reasons
       /\ {executed', computed', compared'} \subseteq Nat
  BY <1>8, OperandFacts DEF IndInv, Typed, ReportDies
<1> QED BY <1>4, <1>7, <1>9, <1>10, StepKeeps

\* What getReturnState makes of a frame.
LEMMA Returned ==
  ASSUME NEW f \in Frame, NEW c, NEW tree, NEW value
  PROVE  getReturnState(f, c, tree, value) = Changed(f, "k", tree, value, c)
<1> DEFINE m == add(f.map, "k", tree)
           d == f.z3Constraints \o c
           n == add(f.conc, "k", value)
           e1 == [f EXCEPT !.map = m]
           e2 == [e1 EXCEPT !.z3Constraints = d]
<1>1. [[[f EXCEPT !.map = m] EXCEPT !.z3Constraints = d] EXCEPT !.conc = n]
        = [map |-> m, z3Constraints |-> d, conc |-> n]
  <2> HIDE DEF m, d, n
  <2> QED BY AllSet
<1>2. /\ e1.z3Constraints = f.z3Constraints /\ e1.conc = f.conc
      /\ \E C, N : e1 \in [map : {m}, z3Constraints : C, conc : N]
  <2> HIDE DEF m
  <2> QED BY MapSet
<1>3. e2.conc = f.conc
  <2> HIDE DEF e1, d
  <2>1. e2.conc = e1.conc
    BY <1>2
  <2> QED BY <2>1, <1>2
<1>4. getReturnState(f, c, tree, value) = [[[f EXCEPT !.map = m] EXCEPT !.z3Constraints = d] EXCEPT !.conc = n]
  BY <1>2, <1>3 DEF getReturnState
<1> QED BY <1>1, <1>4 DEF Changed

LEMMA KIsLocal == "k" \in Locals
BY DEF Locals

LEMMA Returning ==
  ASSUME IndInv, NEW o, Operand(o), Len(frames) > 1, Leave(frames[Len(frames) - 1], o),
         executed' \in Nat
  PROVE  IndInv'
<1> DEFINE caller == frames[Len(frames) - 1]
           tree == Passed(o)
           value == Computed(o)
           more == top.z3Constraints
           g == Changed(caller, "k", tree, value, more)
<1>1. /\ frames \in Seq(Frame) /\ Len(frames) \in Nat \ {0} /\ more \in Constraints
      /\ tree \in Texts /\ value \in [Inputs -> Int]
  BY TopFacts, OperandFacts
<1>2. caller \in Frame /\ FrameOK(caller) /\ (Kept => FrameKept(caller, alive, exact))
  <2>1. Len(frames) - 1 \in 1..Len(frames)
    BY <1>1
  <2> QED BY <2>1, <1>1 DEF IndInv, Kept
<1>3. /\ frames' = Append(SubSeq(frames, 1, Len(frames) - 2), getReturnState(caller, more, tree, value))
      /\ crashed' = (CopyDies(caller.map) \/ ReportDies(map))
      /\ lost' = LostPassing(o)
      /\ UNCHANGED <<alive, exact, computed, compared>>
  BY DEF Leave
<1> HIDE DEF caller, tree, value, more
<1>4. /\ g \in Frame /\ FrameOK(g)
      /\ \A al, ex : FrameKept(caller, al, ex) /\ Keeps(tree, value, al, ex)
                       /\ AllSatisfied(more, al \cap ex) => FrameKept(g, al, ex)
      /\ \A i : Violated(caller.z3Constraints, i) \/ Violated(more, i) => Violated(g.z3Constraints, i)
  BY <1>1, <1>2, KIsLocal, ChangedFrame
<1>5. frames' = Append(SubSeq(frames, 1, Len(frames) - 2), g)
  BY <1>2, <1>3, Returned
<1> HIDE DEF g
<1>6. frames' \in Seq(Frame) /\ Replaces(frames', frames, g)
  BY <1>1, <1>4, <1>5, Leaving
<1>7. ASSUME lost' = {}, Kept
      PROVE  ~crashed' /\ FrameKept(g, alive', exact')
             /\ \A i \in exact' \ alive' : Violated(g.z3Constraints, i)
  <2>1. FrameKept(top, alive, exact) /\ FrameKept(caller, alive, exact)
    BY <1>2, <1>7, TopFacts
  <2>2. Keeps(tree, value, alive, exact)
    BY <1>3, <1>7, OperandFacts DEF tree, value
  <2>3. ~crashed'
    BY <2>1, <1>3, KeptTrees DEF map
  <2>4. AllSatisfied(more, alive \cap exact)
    BY <2>1 DEF FrameKept, more
  <2>5. FrameKept(g, alive, exact)
    BY <2>1, <2>2, <2>4, <1>4
  <2>6. \A i \in exact \ alive : Violated(more, i)
    BY <1>7 DEF Kept, more
  <2> QED BY <2>3, <2>5, <2>6, <1>3, <1>4
<1>8. /\ alive' \subseteq alive /\ exact' \subseteq exact /\ crashed' \in BOOLEAN
      /\ lost \subseteq lost' /\ lost' \subseteq Reasons
      /\ {executed', computed', compared'} \subseteq Nat
  BY <1>3, OperandFacts DEF IndInv, Typed, ReportDies, CopyDies
<1> QED BY <1>4, <1>6, <1>7, <1>8, StepKeeps

\* What the external function returns, if it does what a model says.
Told(tokens) ==
  LET tree == constructTree(UserVariables)[tokens].tree
  IN  [i \in Inputs |-> IF i \in alive /\ tree # NULL
                          THEN Meaning(tokens, [v \in {"a"} |-> conc["a"][i]]) ELSE 0]

LEMMA ToldMeans ==
  ASSUME IndInv, Kept, "a" \in DOMAIN conc, NEW tokens \in Texts,
         constructTree(UserVariables)[tokens].tree # NULL
  PROVE  /\ IsTree(constructTree(UserVariables)[tokens].tree)
         /\ \A i \in alive : Meaning(constructTree(UserVariables)[tokens].tree, Symbols(i))
                               = Told(tokens)[i]
<1> DEFINE variables == UserVariables
           reading == constructTree(variables)[tokens]
<1>1. "a" \in DOMAIN map /\ Keeps(map["a"], conc["a"], alive, exact)
  BY TopFacts DEF FrameKept, map, conc
<1>2. DOMAIN variables = {"a"} /\ variables["a"] = map["a"]
  BY DEF UserVariables
<1>3. \A v \in DOMAIN variables : IsTree(variables[v])
  BY <1>1, <1>2 DEF Keeps
<1>4. Faithful(tokens, reading, variables)
  <2> HIDE DEF variables
  <2> QED BY <1>3, ReadFaithful
<1>5. reading.rest \in Texts
  BY ReadDef DEF Shortens
<1>6. IsTree(reading.tree)
  BY <1>4 DEF Faithful
<1>7. ASSUME NEW i \in alive
      PROVE  Meaning(reading.tree, Symbols(i)) = Told(tokens)[i]
  <2> DEFINE env == Symbols(i)
             env2 == [v \in {"a"} |-> conc["a"][i]]
             f == Values(env2, "machine")
  <2>1. i \in Inputs
    BY DEF IndInv, Typed
  <2>2. Told(tokens)[i] = Meaning(tokens, env2)
    BY <2>1 DEF Told
  <2>3. Agrees(env, env2, "machine", variables)
    BY <1>1, <1>2 DEF Agrees, Keeps, Meaning
  <2>4. IsStack(f[reading.rest])
    BY <1>5, ValuesStack
  <2> HIDE DEF env, env2, variables, reading
  <2>5. Reads(tokens, Values(env, "machine")[reading.tree][1], reading.rest, f)
    BY <1>4, <2>3 DEF Faithful, reading, variables
  <2>6. f[tokens][1] = Values(env, "machine")[reading.tree][1]
    <3> DEFINE y == Values(env, "machine")[reading.tree][1]
               v == f[reading.rest]
    <3>1. f[tokens] = <<y>> \o v
      BY <2>5 DEF Reads
    <3>2. IsStack(v)
      BY <2>4
    <3> HIDE DEF y, v, f
    <3> QED BY <3>1, <3>2, StackFacts DEF y
  <2> QED BY <2>2, <2>6 DEF Meaning, env
<1> QED BY <1>6, <1>7

LEMMA Modelling ==
  ASSUME IndInv, "a" \in DOMAIN conc, NEW tokens \in Models, Told(tokens) \in [Inputs -> Inputs],
         Model(constructTree(UserVariables)[tokens].tree, Told(tokens)), executed' \in Nat
  PROVE  IndInv'
<1> DEFINE tree == constructTree(UserVariables)[tokens].tree
           value == Told(tokens)
           more == top.z3Constraints
           g == Changed(top, "k", tree, value, more)
<1>1. /\ frames \in Seq(Frame) /\ frames # <<>> /\ Len(frames) \in Nat \ {0}
      /\ top = frames[Len(frames)] /\ top \in Frame /\ FrameOK(top) /\ more \in Constraints
      /\ "a" \in DOMAIN map /\ map["a"] \in Texts
  BY TopFacts
<1>2. tokens \in Texts
  BY InterpreterAssumption DEF Texts
<1>3. tree \in Texts
  <2> DEFINE variables == UserVariables
  <2>1. \A v \in DOMAIN variables : variables[v] \in Texts
    BY <1>1 DEF UserVariables
  <2> HIDE DEF variables
  <2>2. constructTree(variables)[tokens].tree \in Texts
    BY <2>1, <1>2, ReadType
  <2> QED BY <2>2 DEF variables
<1>4. value \in [Inputs -> Int]
  BY WrapFacts
<1>5. /\ lost' = (IF tree = NULL THEN lost \cup {"model"} ELSE lost)
      /\ crashed' = (tree = NULL \/ CopyDies(map) \/ ReportDies(map))
      /\ frames' = [frames EXCEPT ![Len(frames)] = getReturnState(top, more, tree, value)]
      /\ exact' = {i \in exact : i \in alive /\ tree # NULL => Z3Meaning(tree, Symbols(i)) = value[i]}
      /\ UNCHANGED <<alive, computed, compared>>
  BY DEF Model
<1>6. Kept /\ tree # NULL => IsTree(tree) /\ \A i \in alive : Meaning(tree, Symbols(i)) = value[i]
  BY <1>2, ToldMeans
<1>7. value \in [Inputs -> Inputs]
  OBVIOUS
<1> HIDE DEF tree, value, more
<1>8. /\ g \in Frame /\ FrameOK(g)
      /\ \A al, ex : FrameKept(top, al, ex) /\ Keeps(tree, value, al, ex)
                       /\ AllSatisfied(more, al \cap ex) => FrameKept(g, al, ex)
      /\ \A i : Violated(top.z3Constraints, i) \/ Violated(more, i) => Violated(g.z3Constraints, i)
  BY <1>1, <1>3, <1>4, KIsLocal, ChangedFrame
<1>9. frames' = [frames EXCEPT ![Len(frames)] = g]
  BY <1>1, <1>5, Returned
<1> HIDE DEF g
<1>10. frames' \in Seq(Frame) /\ Replaces(frames', frames, g)
  BY <1>1, <1>8, <1>9, Replacing
<1>11. ASSUME lost' = {}, Kept
       PROVE  ~crashed' /\ FrameKept(g, alive', exact')
              /\ \A i \in exact' \ alive' : Violated(g.z3Constraints, i)
  <2>1. tree # NULL
    BY <1>5, <1>11
  <2>2. FrameKept(top, alive, exact')
    <3>1. exact' \subseteq exact
      BY <1>5
    <3> QED BY <3>1, <1>11, TopFacts, FewerKept
  <2>3. ~crashed'
    BY <2>1, <2>2, <1>5, KeptTrees DEF map
  <2>4. Keeps(tree, value, alive, exact')
    <3>1. \A i \in alive : value[i] \in Inputs
      BY <1>7 DEF IndInv, Typed
    <3>2. \A i \in alive : i \in exact' => Z3Meaning(tree, Symbols(i)) = value[i]
      BY <2>1, <1>5
    <3> QED BY <3>1, <3>2, <2>1, <1>6, <1>11 DEF Keeps, Ranged
  <2>5. AllSatisfied(more, alive \cap exact')
    BY <2>2 DEF FrameKept, more
  <2>6. FrameKept(g, alive, exact')
    BY <2>2, <2>4, <2>5, <1>8
  <2>7. \A i \in exact' \ alive : Violated(more, i)
    BY <1>5, <1>11 DEF Kept, more
  <2> QED BY <2>3, <2>6, <2>7, <1>5, <1>8
<1>12. /\ alive' \subseteq alive /\ exact' \subseteq exact /\ crashed' \in BOOLEAN
       /\ lost \subseteq lost' /\ lost' \subseteq Reasons
       /\ {executed', computed', compared'} \subseteq Nat
  BY <1>5 DEF IndInv, Typed, Reasons, ReportDies, CopyDies
<1> QED BY <1>8, <1>10, <1>11, <1>12, StepKeeps

-----------------------------------------------------------------------------
(* The specification.                                                      *)

LEMMA InitKept == Init => IndInv
<1> SUFFICES ASSUME Init PROVE IndInv
  OBVIOUS
<1> DEFINE x == <<"sym", "x">>
           m == [v \in {"x"} |-> Sym("x")]
           n == [v \in {"x"} |-> [i \in Inputs |-> i]]
           g == [map |-> m, z3Constraints |-> <<>>, conc |-> n]
<1>1. /\ frames = << g >> /\ alive = Inputs /\ exact = Inputs /\ crashed = FALSE /\ lost = {}
      /\ executed = 0 /\ computed = 0 /\ compared = 0
  BY DEF Init
<1>2. x \in Tokens /\ x[1] = "sym" /\ x[2] = "x"
  BY InterpreterAssumption DEF Tokens
<1>3. \A i : LeafValue(x, Symbols(i)) = i
  BY <1>2 DEF LeafValue, Symbols
<1> HIDE DEF x
<1>4. /\ IsTree(<<x>>) /\ << x >> \in Texts
      /\ \A env, by : Values(env, by)[<<x>>][1] = LeafValue(x, env)
  BY <1>2, LeafTree DEF IsTree
<1>5. Sym("x") = << x >>
  BY DEF Sym, x
<1>6. Keeps(Sym("x"), [i \in Inputs |-> i], alive, exact)
  BY <1>1, <1>3, <1>4, <1>5 DEF Keeps, Meaning, Z3Meaning, Ranged
<1>7. m \in Maps(Texts) /\ n \in Maps([Inputs -> Int])
  <2>1. {"x"} \in SUBSET Locals
    BY DEF Locals
  <2> DEFINE S == [Inputs -> Int]
  <2>2. m \in [{"x"} -> Texts]
    BY <1>4, <1>5
  <2>3. n \in [{"x"} -> S]
    BY WrapFacts
  <2> HIDE DEF S, m, n
  <2>4. n \in Maps(S) /\ m \in Maps(Texts)
    BY <2>1, <2>2, <2>3 DEF Maps
  <2> QED BY <2>4 DEF S
<1>8. <<>> \in Constraints /\ Len(<<>>) = 0
  BY DEF Constraints
<1>9. DOMAIN m = {"x"} /\ DOMAIN n = {"x"} /\ m["x"] = Sym("x") /\ n["x"] = [i \in Inputs |-> i]
  OBVIOUS
<1> HIDE DEF m, n
<1>10. g \in Frame /\ FrameOK(g)
  BY <1>7, <1>8, <1>9, FrameType DEF FrameOK
<1>11. FrameKept(g, alive, exact)
  BY <1>6, <1>8, <1>9 DEF FrameKept, AllSatisfied
<1> HIDE DEF g
<1>12. frames \in Seq(Frame) /\ frames # <<>> /\ Len(frames) = 1 /\ frames[1] = g
  BY <1>1, <1>10
<1>13. Typed
  <2>1. alive \subseteq Inputs /\ exact \subseteq Inputs /\ crashed \in BOOLEAN /\ lost \subseteq Reasons
    BY <1>1
  <2>2. {executed, computed, compared} \subseteq Nat
    BY <1>1
  <2> QED BY <2>1, <2>2, <1>12 DEF Typed
<1>14. Kept
  BY <1>1, <1>11, <1>12 DEF Kept
<1> QED BY <1>10, <1>12, <1>13, <1>14 DEF IndInv

LEMMA Putting ==
  ASSUME IndInv, NEW o, Operand(o), Put(o), executed' \in Nat
  PROVE  IndInv'
<1> DEFINE tree == getExpressionTree(o)
           value == Computed(o)
<1>1. /\ tree \in Texts /\ value \in [Inputs -> Int]
      /\ Kept => Keeps(tree, value, alive, exact)
  BY OperandFacts
<1>2. Assign("a", tree, value) /\ UNCHANGED <<alive, exact, crashed, lost, computed, compared>>
  BY DEF Put
<1>3. "a" \in Locals /\ lost \subseteq Reasons /\ {executed', computed', compared'} \subseteq Nat
  BY <1>2 DEF Locals, IndInv, Typed
<1> HIDE DEF tree, value
<1> QED BY <1>1, <1>2, <1>3, Assigning

LEMMA SignedType == \A p \in Predicates : signed(p) \in OperatorNames
BY InterpreterAssumption DEF signed, OperatorNames

LEMMA NextKept == IndInv /\ [Next]_vars => IndInv'
<1> SUFFICES ASSUME IndInv, [Next]_vars PROVE IndInv'
  OBVIOUS
<1>1. executed \in Nat /\ computed \in Nat /\ compared \in Nat
  BY DEF IndInv, Typed
<1>2. Execute => executed' \in Nat /\ "a" \in DOMAIN conc
  BY <1>1 DEF Execute
<1>3. CASE Prologue
  <2>1. Put(<<"val", "x">>) /\ executed' = executed
    BY <1>3 DEF Prologue
  <2>2. Operand(<<"val", "x">>)
    BY OperandsAre, TopFacts
  <2> QED BY <1>1, <2>1, <2>2, Putting
<1>4. CASE BinaryOperator
  <2>1. /\ Execute /\ computed' = computed + 1
        /\ UNCHANGED <<alive, crashed, compared>>
    BY <1>4 DEF BinaryOperator
  <2>2. PICK op \in BinaryOperators, l \in Operands, r \in Operands : Compute("t", op, op, l, r)
    BY <1>4 DEF BinaryOperator
  <2>3. "t" \in Locals /\ op \in OperatorNames /\ Operand(l) /\ Operand(r)
    BY OperandsAre, OperatorsFacts DEF Locals
  <2>4. {executed', computed', compared'} \subseteq Nat
    BY <1>1, <1>2, <2>1
  <2> QED BY <2>1, <2>2, <2>3, <2>4, Computing
<1>5. CASE ICmp
  <2>1. /\ Execute /\ compared' = compared + 1
        /\ UNCHANGED <<alive, crashed, computed>>
    BY <1>5 DEF ICmp
  <2>2. PICK op \in Predicates, l \in Operands, r \in Operands : Compute("c", op, signed(op), l, r)
    BY <1>5 DEF ICmp
  <2>3. "c" \in Locals /\ signed(op) \in OperatorNames /\ Operand(l) /\ Operand(r)
    BY OperandsAre, SignedType DEF Locals
  <2>4. {executed', computed', compared'} \subseteq Nat
    BY <1>1, <1>2, <2>1
  <2> QED BY <2>1, <2>2, <2>3, <2>4, Computing
<1>6. CASE Store
  <2>1. PICK o \in Operands : Execute /\ Put(o)
    BY <1>6 DEF Store
  <2> QED BY <1>2, <2>1, OperandsAre, Putting
<1>7. CASE Load
  <2> DEFINE o == <<"val", "a">>
             tree == getExpressionTree(o)
             value == conc["a"]
  <2>1. /\ "a" \in DOMAIN conc /\ Assign("t", tree, value)
        /\ UNCHANGED <<alive, exact, crashed, lost, executed, computed, compared>>
    BY <1>7 DEF Load
  <2>2. Operand(o) /\ Computed(o) = value
    BY <2>1, OperandsAre DEF Computed
  <2>3. /\ tree \in Texts /\ value \in [Inputs -> Int]
        /\ Kept => Keeps(tree, value, alive, exact)
    BY <2>2, OperandFacts
  <2>4. "t" \in Locals /\ lost \subseteq Reasons /\ {executed', computed', compared'} \subseteq Nat
    BY <1>1, <2>1 DEF Locals, IndInv, Typed
  <2> HIDE DEF tree, value
  <2> QED BY <2>1, <2>3, <2>4, Assigning
<1>8. CASE Branch
  <2>1. PICK side \in BOOLEAN : Execute /\ "c" \in DOMAIN conc /\ TakeSide(map["c"], side)
    BY <1>8 DEF Branch
  <2> QED BY <1>2, <2>1, Branching
<1>9. CASE Call
  <2>1. PICK o \in Operands : Execute /\ Enter(o)
    BY <1>9 DEF Call
  <2> QED BY <1>2, <2>1, OperandsAre, Entering
<1>10. CASE Return
  <2>1. PICK o \in Operands : Execute /\ Len(frames) > 1 /\ Leave(frames[Len(frames) - 1], o)
    BY <1>10 DEF Return
  <2> QED BY <1>2, <2>1, OperandsAre, Returning
<1>11. CASE ExternalCall
  <2>1. PICK tokens \in Models :
          /\ Execute /\ Told(tokens) \in [Inputs -> Inputs]
          /\ Model(constructTree(UserVariables)[tokens].tree, Told(tokens))
    BY <1>11 DEF ExternalCall, Told
  <2> QED BY <1>2, <2>1, Modelling
<1>12. CASE UNCHANGED vars
  BY <1>12 DEF vars, IndInv, Typed, FrameOK, Kept, top
<1> QED BY <1>3, <1>4, <1>5, <1>6, <1>7, <1>8, <1>9, <1>10, <1>11, <1>12 DEF Next

LEMMA Invariance == Spec => []IndInv
<1>1. Init => IndInv
  BY InitKept
<1>2. IndInv /\ [Next]_vars => IndInv'
  BY NextKept
<1> QED BY <1>1, <1>2, PTL DEF Spec

\* A frame is made of trees, values of the machine and constraints, whatever is lost.
THEOREM TypeCorrect == Spec => []TypeOK
<1>1. ASSUME NEW f \in Frame, FrameOK(f) PROVE IsFrame(f)
  <2>1. /\ f.map \in Maps(Texts) /\ f.z3Constraints \in Constraints
        /\ f.conc \in Maps([Inputs -> Int])
    BY FrameType
  <2> DEFINE D == DOMAIN f.conc
  <2>2. D \in SUBSET Locals /\ f.map \in [D -> Texts]
    BY <2>1, <1>1 DEF Maps, FrameOK
  <2>3. f.conc \in [D -> [Inputs -> Int]]
    BY <2>1 DEF Maps
  <2>4. f = [map |-> f.map, z3Constraints |-> f.z3Constraints, conc |-> f.conc]
    BY DEF Frame
  <2> HIDE DEF D
  <2>5. f \in [map : [D -> Texts], z3Constraints : Constraints, conc : [D -> [Inputs -> Int]]]
    BY <2>1, <2>2, <2>3, <2>4
  <2> QED BY <2>2, <2>5 DEF IsFrame, Texts, Constraints
<1>2. ASSUME IndInv PROVE TypeOK
  <2>1. \A k \in 1..Len(frames) : frames[k] \in Frame /\ FrameOK(frames[k])
    BY <1>2 DEF IndInv, Typed
  <2> QED BY <2>1, <1>1, <1>2 DEF IndInv, Typed, TypeOK
<1> QED BY <1>2, Invariance, PTL

\* While nothing is lost the executor does not die, and in every frame the tree of a
\* value means what the machine has computed: through folded sums, memory, calls and models.
THEOREM ValuesKept == Spec => []ValueKept
<1>1. ASSUME IndInv PROVE ValueKept
  <2>1. ASSUME lost = {} PROVE ~crashed /\ TreesKept
    <3>1. Kept
      BY <1>1, <2>1 DEF IndInv
    <3>2. ASSUME NEW f \in 1..Len(frames)
          PROVE  /\ DOMAIN frames[f].map = DOMAIN frames[f].conc
                 /\ \A v \in DOMAIN frames[f].map : ~HasLost(frames[f].map[v]) /\ \A i \in alive :
                      Meaning(frames[f].map[v], Symbols(i)) = frames[f].conc[v][i]
      <4>1. FrameOK(frames[f]) /\ FrameKept(frames[f], alive, exact)
        BY <1>1, <3>1 DEF IndInv, Kept
      <4> QED BY <4>1, TreeFacts DEF FrameOK, FrameKept, Keeps
    <3> QED BY <3>1, <3>2 DEF Kept, TreesKept
  <2> QED BY <2>1 DEF ValueKept
<1> QED BY <1>1, Invariance, PTL

\* While nothing is lost, an input for which Z3 computes like the machine takes the path
\* if and only if it satisfies every constraint of the innermost frame.
THEOREM PathsKept == Spec => []PathKept
<1>1. ASSUME IndInv PROVE PathKept
  <2>1. ASSUME lost = {}, NEW i \in exact
        PROVE  i \in alive <=> \A j \in 1..Len(top.z3Constraints) : Satisfies(top.z3Constraints[j], i)
    <3>1. Kept
      BY <1>1, <2>1 DEF IndInv
    <3>2. FrameKept(top, alive, exact)
      BY <1>1, <3>1, TopFacts
    <3>3. CASE i \in alive
      BY <2>1, <3>2, <3>3 DEF FrameKept, AllSatisfied
    <3>4. CASE i \notin alive
      BY <2>1, <3>1, <3>4 DEF Kept, Violated
    <3> QED BY <3>3, <3>4
  <2> QED BY <2>1 DEF PathKept, Satisfies
<1> QED BY <1>1, Invariance, PTL
=============================================================================
