---------------------------- MODULE ConfTreeProofs -----------------------------
(* Theorems about ConfTree, for every tree, path, request and board.        *)
(*                                                                          *)
(* Paths and requests are walked by recursive functions.  What they compute *)
(* is proved by induction along the walk, in the form of lemma AllReached;  *)
(* that the functions exist at all is the first use of it.                  *)
EXTENDS ConfTree, FiniteSetTheorems, FunctionTheorems, TLAPS

(* A set of naturals that is not empty has a least element.                *)
LEMMA LeastOf ==
    ASSUME NEW T, T \subseteq Nat, T # {}
    PROVE  Min(T) \in T /\ \A y \in T : Min(T) <= y
<1> DEFINE R == {r \in Nat \X Nat : r[1] < r[2]}
<1>1. IsWellFoundedOn(R, Nat)
    BY NatLessThanWellFounded DEF OpToRel
<1>2. \A x, y \in Nat : <<y, x>> \notin R => x <= y
    OBVIOUS
<1> HIDE DEF R
<1>3. \E x \in T : \A y \in T : <<y, x>> \notin R
    BY <1>1, WFMin, Zenon
<1>4. \E x \in T : \A y \in T : x <= y
    BY <1>2, <1>3
<1> QED
    BY <1>4 DEF Min

(* There is only one.                                                      *)
LEMMA LeastIs ==
    ASSUME NEW T, T \subseteq Nat, NEW m \in T, \A y \in T : m <= y
    PROVE  Min(T) = m
<1>1. Min(T) \in T /\ \A y \in T : Min(T) <= y
    BY LeastOf
<1>2. \A x \in T : (\A y \in T : x <= y) => x = m
    OBVIOUS
<1> QED
    BY <1>1, <1>2, Zenon

(* Induction along 0..n.                                                   *)
LEMMA AllReached ==
    ASSUME NEW n \in Nat, NEW S, 0 \in S,
           \A i \in 1..n : i - 1 \in S => i \in S
    PROVE  \A i \in 0..n : i \in S
<1> DEFINE T == {i \in 0..n : i \notin S}
<1> SUFFICES ASSUME T # {} PROVE FALSE
    OBVIOUS
<1>1. T \subseteq Nat
    OBVIOUS
<1>2. PICK m \in T : \A y \in T : m <= y
    BY <1>1, LeastOf
<1>3. m \in 1..n
    BY <1>2
<1>4. m - 1 \in 0..n /\ m - 1 \notin T
    BY <1>2, <1>3
<1> QED
    BY <1>2, <1>3, <1>4

-------------------------------------------------------------------------------
(* Nodes.                                                                  *)

(* The nodes a path can lead to: they have children, not a text.           *)
Inner(t) == {n \in 1..Len(t) : t[n].kind \in {"ROOT", "ELEMENT"}}

(* u has the nodes of t, with their names and places, and perhaps more.    *)
Extends(t, u) ==
    /\ Len(t) <= Len(u)
    /\ \A i \in 1..Len(t) :
         /\ u[i].parent = t[i].parent /\ u[i].kind = t[i].kind
         /\ u[i].name = t[i].name

LEMMA TreeTypes ==
    ASSUME NEW t, IsTree(t)
    PROVE  /\ Len(t) \in Nat /\ Len(t) >= 1 /\ DOMAIN t = 1..Len(t)
           /\ t \in Seq(Nodes) /\ 1 \in Inner(t)
           /\ \A i \in 1..Len(t) : t[i] \in Nodes
           /\ \A i \in 1..Len(t) : t[i].parent \in 0..(i - 1)
  BY DEF IsTree, Inner

(* A child comes after its parent, which is a root or an element.          *)
LEMMA KidsAfter ==
    ASSUME NEW t, IsTree(t), NEW n, n # 0
    PROVE  /\ Kids(t, n) \subseteq 2..Len(t) /\ Kids(t, n) \subseteq Nat
           /\ \A i \in Kids(t, n) : n \in 1..(i - 1) /\ n \in Inner(t)
  BY TreeTypes DEF IsTree, Kids, Inner

LEMMA ExtendsRefl ==
    ASSUME NEW t, IsTree(t)
    PROVE  Extends(t, t)
  BY TreeTypes DEF Extends

LEMMA ExtendsTrans ==
    ASSUME NEW t, NEW u, NEW v, IsTree(t), IsTree(u), IsTree(v),
           Extends(t, u), Extends(u, v)
    PROVE  Extends(t, v)
  BY TreeTypes DEF Extends

LEMMA InnerKept ==
    ASSUME NEW t, NEW u, IsTree(t), IsTree(u), Extends(t, u)
    PROVE  Inner(t) \subseteq Inner(u) /\ 1..Len(t) \subseteq 1..Len(u)
  BY TreeTypes DEF Extends, Inner

(* A new node at the end.                                                  *)
LEMMA AppendTree ==
    ASSUME NEW t, IsTree(t), NEW n \in Inner(t), NEW x \in Nodes,
           x.parent = n, x.kind # "ROOT", x.text = Nil <=> x.kind = "ELEMENT"
    PROVE  /\ IsTree(Append(t, x)) /\ Extends(t, Append(t, x))
           /\ Len(Append(t, x)) = Len(t) + 1
           /\ Append(t, x)[Len(t) + 1] = x
           /\ \A i \in 1..Len(t) : Append(t, x)[i] = t[i]
<1> DEFINE u == Append(t, x)
<1>1. t \in Seq(Nodes) /\ Len(t) \in Nat /\ Len(t) >= 1
    BY TreeTypes
<1>2. /\ u \in Seq(Nodes) /\ Len(u) = Len(t) + 1 /\ u[Len(t) + 1] = x
      /\ \A i \in 1..Len(t) : u[i] = t[i]
    BY <1>1
<1> HIDE DEF u
<1>3. Extends(t, u)
    BY <1>1, <1>2 DEF Extends
<1>4. ASSUME NEW i \in 2..Len(u)
      PROVE  /\ u[i].parent \in 1..(i - 1)
             /\ u[u[i].parent].kind \in {"ROOT", "ELEMENT"}
             /\ u[i].kind # "ROOT"
             /\ u[i].text = Nil <=> u[i].kind = "ELEMENT"
  <2>1. CASE i = Len(t) + 1
    <3>1. n \in 1..Len(t) /\ t[n].kind \in {"ROOT", "ELEMENT"}
      BY DEF Inner
    <3>2. u[i] = x /\ u[n] = t[n] /\ n \in 1..(i - 1)
      BY <1>1, <1>2, <2>1, <3>1
    <3> QED
      BY <3>1, <3>2
  <2>2. CASE i \in 2..Len(t)
    <3>1. t[i].parent \in 1..Len(t) /\ u[i] = t[i]
      BY <1>1, <1>2, <2>2 DEF IsTree
    <3> QED
      BY <1>2, <2>2, <3>1 DEF IsTree
  <2> QED
    BY <1>1, <1>2, <2>1, <2>2
<1>5. IsTree(u)
    BY <1>1, <1>2, <1>4 DEF IsTree
<1> QED
    BY <1>2, <1>3, <1>5 DEF u

(* A node whose text or attributes change.                                 *)
LEMMA ReplaceTree ==
    ASSUME NEW t, IsTree(t), NEW c \in 1..Len(t), NEW x \in Nodes,
           x.parent = t[c].parent, x.kind = t[c].kind, x.name = t[c].name,
           x.text = Nil <=> t[c].text = Nil
    PROVE  /\ IsTree([t EXCEPT ![c] = x]) /\ Extends(t, [t EXCEPT ![c] = x])
           /\ Len([t EXCEPT ![c] = x]) = Len(t)
           /\ [t EXCEPT ![c] = x][c] = x
           /\ \A i \in 1..Len(t) : i # c => [t EXCEPT ![c] = x][i] = t[i]
<1> DEFINE u == [t EXCEPT ![c] = x]
<1>1. t \in Seq(Nodes) /\ Len(t) \in Nat /\ Len(t) >= 1
    BY TreeTypes
<1>2. /\ u \in Seq(Nodes) /\ Len(u) = Len(t) /\ u[c] = x
      /\ \A i \in 1..Len(t) : i # c => u[i] = t[i]
    BY <1>1
<1> HIDE DEF u
<1>3. \A i \in 1..Len(t) : /\ u[i].parent = t[i].parent /\ u[i].kind = t[i].kind
                           /\ u[i].name = t[i].name
                           /\ u[i].text = Nil <=> t[i].text = Nil
    BY <1>2
<1>4. Extends(t, u)
    BY <1>1, <1>2, <1>3 DEF Extends
<1>5. IsTree(u)
    BY <1>1, <1>2, <1>3 DEF IsTree
<1> QED
    BY <1>2, <1>4, <1>5 DEF u

-------------------------------------------------------------------------------
(* getNode.                                                                *)

(* The children that one part of a path fits.                              *)
Hits(t, n, part) ==
    {i \in Named(t, n, part.name) :
       /\ part.name \in Word
       /\ \/ part.id = 0
          \/ Cardinality({j \in Named(t, n, part.name) : j <= i}) = part.id}

LEMMA NamedTypes ==
    ASSUME NEW t, IsTree(t), NEW n, n # 0, NEW name
    PROVE  /\ Named(t, n, name) \subseteq Kids(t, n)
           /\ Named(t, n, name) \subseteq 2..Len(t)
           /\ Named(t, n, name) \subseteq Nat
           /\ Named(t, n, name) \subseteq Inner(t)
           /\ IsFiniteSet(Named(t, n, name))
<1>1. Kids(t, n) \subseteq 2..Len(t) /\ Len(t) \in Nat
    BY KidsAfter, TreeTypes
<1>2. /\ Named(t, n, name) \subseteq Kids(t, n)
      /\ \A i \in Named(t, n, name) : t[i].kind = "ELEMENT"
    BY DEF Named
<1>3. Named(t, n, name) \subseteq 2..Len(t)
    BY <1>1, <1>2
<1>4. IsFiniteSet(2..Len(t))
    BY <1>1, FS_Interval
<1>5. IsFiniteSet(Named(t, n, name))
    BY <1>3, <1>4, FS_Subset
<1>6. Named(t, n, name) \subseteq Inner(t)
    BY <1>1, <1>2, <1>3 DEF Inner
<1> QED
    BY <1>1, <1>2, <1>3, <1>5, <1>6

LEMMA ChildFound ==
    ASSUME NEW t, IsTree(t), NEW n, NEW part
    PROVE  /\ GetChild(t, n, part) # 0 =>
                /\ n # 0 /\ GetChild(t, n, part) \in Hits(t, n, part)
                /\ \A y \in Hits(t, n, part) : GetChild(t, n, part) <= y
           /\ GetChild(t, n, part) = 0 => n = 0 \/ Hits(t, n, part) = {}
           /\ GetChild(t, n, part) \in Inner(t) \cup {0}
<1>1. GetChild(t, n, part) = IF n = 0 \/ Hits(t, n, part) = {} THEN 0
                             ELSE Min(Hits(t, n, part))
    BY DEF GetChild, Hits
<1>2. CASE n = 0 \/ Hits(t, n, part) = {}
    BY <1>1, <1>2
<1>3. CASE ~(n = 0 \/ Hits(t, n, part) = {})
  <2>1. /\ Hits(t, n, part) \subseteq Nat \ {0}
        /\ Hits(t, n, part) \subseteq Inner(t)
    <3>1. /\ Named(t, n, part.name) \subseteq 2..Len(t)
          /\ Named(t, n, part.name) \subseteq Inner(t)
      BY <1>3, NamedTypes
    <3>2. Hits(t, n, part) \subseteq Named(t, n, part.name)
      BY DEF Hits
    <3> QED
      BY <3>1, <3>2
  <2>2. /\ Min(Hits(t, n, part)) \in Hits(t, n, part)
        /\ \A y \in Hits(t, n, part) : Min(Hits(t, n, part)) <= y
    BY <1>3, <2>1, LeastOf
  <2> QED
    BY <1>1, <1>3, <2>1, <2>2
<1> QED
    BY <1>2, <1>3

(* A word without index fits every child of that name.                     *)
LEMMA PlainHits ==
    ASSUME NEW t, NEW n, NEW part, part.id = 0, part.name \in Word
    PROVE  Hits(t, n, part) = Named(t, n, part.name)
  BY DEF Hits

LEMMA HitsKept ==
    ASSUME NEW t, NEW u, IsTree(t), IsTree(u), Extends(t, u),
           NEW n \in 1..Len(t), NEW part
    PROVE  Hits(t, n, part) = Hits(u, n, part) \cap 1..Len(t)
<1> DEFINE N(x) == Named(x, n, part.name)
<1>1. N(t) = N(u) \cap 1..Len(t)
    BY TreeTypes DEF Named, Kids, Extends
<1>2. N(t) \subseteq Nat /\ N(u) \subseteq 2..Len(u) /\ Len(t) \in Nat
  <2>1. n # 0
    OBVIOUS
  <2>2. N(t) \subseteq Nat
    BY <2>1, NamedTypes
  <2>3. N(u) \subseteq 2..Len(u)
    BY <2>1, NamedTypes
  <2> QED
    BY <2>2, <2>3, TreeTypes
<1> HIDE DEF N
<1>3. ASSUME NEW i \in 1..Len(t)
      PROVE  {j \in N(t) : j <= i} = {j \in N(u) : j <= i}
  <2>1. \A j \in N(u) : j <= i => j \in N(t)
    BY <1>1, <1>2
  <2> QED
    BY <1>1, <2>1
<1>4. ASSUME NEW i \in 1..Len(t)
      PROVE  i \in Hits(t, n, part) <=> i \in Hits(u, n, part)
    BY <1>1, <1>3 DEF Hits, N
<1>5. Hits(t, n, part) \subseteq 1..Len(t)
    BY <1>1 DEF Hits, N
<1> QED
    BY <1>4, <1>5

(* A child that was found is found again after the tree has grown ...      *)
LEMMA ChildKept ==
    ASSUME NEW t, NEW u, IsTree(t), IsTree(u), Extends(t, u),
           NEW n \in 1..Len(t), NEW part, GetChild(t, n, part) # 0
    PROVE  GetChild(u, n, part) = GetChild(t, n, part)
<1> DEFINE c == GetChild(t, n, part)
           d == GetChild(u, n, part)
<1>1. /\ c \in Hits(t, n, part) /\ \A y \in Hits(t, n, part) : c <= y
      /\ c \in 1..Len(t) /\ Len(t) \in Nat
    BY ChildFound, TreeTypes DEF Inner
<1>2. Hits(t, n, part) = Hits(u, n, part) \cap 1..Len(t)
    BY HitsKept
<1>3. d # 0
    BY <1>1, <1>2, ChildFound
<1>4. d \in Hits(u, n, part) /\ d <= c /\ d \in Nat /\ d >= 1
    BY <1>1, <1>2, <1>3, ChildFound, TreeTypes DEF Inner
<1> HIDE DEF c, d
<1>5. d \in Hits(t, n, part)
    BY <1>1, <1>2, <1>4
<1>6. c <= d
    BY <1>1, <1>5
<1> QED
    BY <1>1, <1>4, <1>6 DEF c, d

(* ... and one that is found in the larger tree and was there already was  *)
(* found before.                                                           *)
LEMMA ChildBack ==
    ASSUME NEW t, NEW u, IsTree(t), IsTree(u), Extends(t, u),
           NEW n \in 1..Len(t), NEW part, GetChild(u, n, part) \in 1..Len(t)
    PROVE  GetChild(t, n, part) = GetChild(u, n, part)
<1>1. GetChild(u, n, part) # 0
    BY TreeTypes
<1>2. GetChild(u, n, part) \in Hits(t, n, part)
    BY <1>1, ChildFound, HitsKept
<1>3. GetChild(t, n, part) # 0
    BY <1>1, <1>2, ChildFound, TreeTypes
<1> QED
    BY <1>3, ChildKept

(* The nodes that getNode passes on its way.                               *)
IsWalk(w, t, path) ==
    /\ w[0] = 1
    /\ \A i \in 1..Len(path) : w[i] = GetChild(t, w[i - 1], path[i])

LEMMA WalkOf ==
    ASSUME NEW t, NEW path, Len(path) \in Nat
    PROVE  \E w : IsWalk(w, t, path) /\ getNode(t, path) = w[Len(path)]
<1> DEFINE P(m, w) == w = [i \in 0..m |->
                             IF i = 0 THEN 1
                             ELSE GetChild(t, w[i - 1], path[i])]
           S == {m \in 0..Len(path) : \E w : P(m, w)}
<1>1. 0 \in S
  <2>1. P(0, [i \in 0..0 |-> 1])
    OBVIOUS
  <2> HIDE DEF P
  <2>2. \E w : P(0, w)
    BY <2>1, Zenon
  <2> QED
    BY <2>2
<1>2. ASSUME NEW m \in 1..Len(path), m - 1 \in S
      PROVE  m \in S
  <2>1. PICK w : P(m - 1, w)
    BY <1>2
  <2> DEFINE v == [i \in 0..m |-> IF i = m THEN GetChild(t, w[m - 1], path[m])
                                  ELSE w[i]]
  <2>2. \A i \in 0..(m - 1) :
          w[i] = IF i = 0 THEN 1 ELSE GetChild(t, w[i - 1], path[i])
    BY <2>1
  <2>3. \A i \in 0..m :
          v[i] = IF i = 0 THEN 1 ELSE GetChild(t, v[i - 1], path[i])
    BY <2>2
  <2>4. P(m, v)
    BY <2>3
  <2> HIDE DEF P, v
  <2>5. \E x : P(m, x)
    BY <2>4, Zenon
  <2> QED
    BY <2>5
<1> HIDE DEF S
<1>3. \A m \in 0..Len(path) : m \in S
    BY <1>1, <1>2, AllReached
<1>4. Len(path) \in S
    BY <1>3
<1>5. \E w : P(Len(path), w)
  <2> HIDE DEF P
  <2> QED
    BY <1>4 DEF S
<1> DEFINE w == CHOOSE x : P(Len(path), x)
<1>6. P(Len(path), w)
    BY <1>5, Zenon
<1>7. getNode(t, path) = w[Len(path)]
    BY Zenon DEF getNode
<1> HIDE DEF w
<1>8. IsWalk(w, t, path)
    BY <1>6 DEF IsWalk
<1> QED
    BY <1>7, <1>8

(* There is one walk, so that a walk tells what getNode returns.           *)
LEMMA WalkUnique ==
    ASSUME NEW t, NEW path, Len(path) \in Nat, NEW w, IsWalk(w, t, path)
    PROVE  getNode(t, path) = w[Len(path)]
<1>1. PICK v : IsWalk(v, t, path) /\ getNode(t, path) = v[Len(path)]
    BY WalkOf
<1> DEFINE S == {i \in 0..Len(path) : v[i] = w[i]}
<1>2. 0 \in S
    BY <1>1 DEF IsWalk
<1>3. \A i \in 1..Len(path) : i - 1 \in S => i \in S
    BY <1>1 DEF IsWalk
<1> HIDE DEF S
<1>4. \A i \in 0..Len(path) : i \in S
    BY <1>2, <1>3, AllReached
<1> QED
    BY <1>1, <1>4 DEF S

LEMMA WalkTypes ==
    ASSUME NEW t, IsTree(t), NEW path, Len(path) \in Nat,
           NEW w, IsWalk(w, t, path)
    PROVE  \A i \in 0..Len(path) : w[i] \in Inner(t) \cup {0}
<1>1. w[0] \in Inner(t)
    BY TreeTypes DEF IsWalk
<1>2. \A i \in 1..Len(path) : w[i] \in Inner(t) \cup {0}
    BY ChildFound DEF IsWalk
<1> QED
    BY <1>1, <1>2

(* Once there is no child, there is none below.                            *)
LEMMA WalkNonzero ==
    ASSUME NEW t, IsTree(t), NEW path, Len(path) \in Nat,
           NEW w, IsWalk(w, t, path), w[Len(path)] # 0
    PROVE  \A i \in 0..Len(path) : w[i] # 0
<1> DEFINE n == Len(path)
           S == {k \in 0..n : w[n - k] # 0}
<1>1. 0 \in S
    OBVIOUS
<1>2. ASSUME NEW k \in 1..n, k - 1 \in S PROVE k \in S
  <2>1. n - k + 1 \in 1..n /\ (n - k + 1) - 1 = n - k /\ n - (k - 1) = n - k + 1
    OBVIOUS
  <2>2. w[n - k + 1] = GetChild(t, w[n - k], path[n - k + 1])
    BY <2>1 DEF IsWalk
  <2>3. w[n - k + 1] # 0
    BY <1>2, <2>1
  <2>4. w[n - k] # 0
    BY <2>2, <2>3, ChildFound
  <2> QED
    BY <2>4
<1> HIDE DEF S
<1>3. \A k \in 0..n : k \in S
    BY <1>1, <1>2, AllReached
<1> QED
    BY <1>3 DEF S

LEMMA GetNodeTypes ==
    ASSUME NEW t, IsTree(t), NEW path, Len(path) \in Nat
    PROVE  getNode(t, path) \in Inner(t) \cup {0}
<1>1. PICK w : IsWalk(w, t, path) /\ getNode(t, path) = w[Len(path)]
    BY WalkOf
<1> QED
    BY <1>1, WalkTypes

(* A path that led to a node leads there when the tree has grown.          *)
LEMMA GetNodeKept ==
    ASSUME NEW t, NEW u, IsTree(t), IsTree(u), Extends(t, u),
           NEW path, Len(path) \in Nat, getNode(t, path) # 0
    PROVE  getNode(u, path) = getNode(t, path)
<1> DEFINE n == Len(path)
<1>1. PICK w : IsWalk(w, t, path) /\ getNode(t, path) = w[n]
    BY WalkOf
<1>2. \A i \in 0..n : w[i] \in 1..Len(t) /\ w[i] # 0
    BY <1>1, WalkTypes, WalkNonzero DEF Inner
<1>3. ASSUME NEW i \in 1..n PROVE w[i] = GetChild(u, w[i - 1], path[i])
  <2>1. w[i] = GetChild(t, w[i - 1], path[i]) /\ w[i] # 0
          /\ w[i - 1] \in 1..Len(t)
    BY <1>1, <1>2 DEF IsWalk
  <2> QED
    BY <2>1, ChildKept
<1>4. IsWalk(w, u, path)
    BY <1>1, <1>3 DEF IsWalk
<1> QED
    BY <1>1, <1>4, WalkUnique

-------------------------------------------------------------------------------
(* Values.                                                                 *)

LEMMA ValueTypes ==
    ASSUME NEW t, IsTree(t), NEW n \in 1..Len(t)
    PROVE  /\ ValueChild(t, n) # 0 =>
                /\ ValueChild(t, n) \in Kids(t, n)
                /\ ValueChild(t, n) \in 2..Len(t)
                /\ t[ValueChild(t, n)].kind # "ELEMENT"
           /\ value(t, n) = Nil <=> ValueChild(t, n) = 0
           /\ value(t, n) \in Text \cup {Nil}
<1>1. n # 0
    OBVIOUS
<1>2. Kids(t, n) \subseteq 2..Len(t) /\ Kids(t, n) \subseteq Nat
    BY <1>1, KidsAfter
<1>3. CASE ValueChild(t, n) = 0
    BY <1>3 DEF value
<1>4. CASE ValueChild(t, n) # 0
  <2> DEFINE c == Min(Kids(t, n))
  <2>1. ValueChild(t, n) = c /\ t[c].kind # "ELEMENT" /\ Kids(t, n) # {}
    BY <1>4 DEF ValueChild
  <2>2. c \in Kids(t, n)
    BY <1>2, <2>1, LeastOf
  <2>3. c \in 2..Len(t) /\ t[c].text # Nil /\ t[c] \in Nodes
    BY <1>2, <2>1, <2>2, TreeTypes DEF IsTree
  <2>4. value(t, n) = t[c].text
    BY <1>4, <2>1 DEF value
  <2> QED
    BY <1>4, <2>1, <2>2, <2>3, <2>4 DEF Nodes
<1> QED
    BY <1>3, <1>4

(* A node keeps its value when the tree grows, unless its own text changes *)
(* or it gets a first child that has one.                                  *)
LEMMA ValueKept ==
    ASSUME NEW t, NEW u, IsTree(t), IsTree(u), Extends(t, u),
           NEW n \in 1..Len(t),
           \A i \in Kids(t, n) : u[i].text = t[i].text,
           Kids(t, n) # {} \/ \A i \in Kids(u, n) : u[i].kind = "ELEMENT"
    PROVE  value(u, n) = value(t, n) /\ ValueChild(u, n) = ValueChild(t, n)
<1>1. n # 0 /\ n \in 1..Len(u) /\ Len(t) \in Nat
    BY TreeTypes, InnerKept
<1>2. /\ Kids(t, n) \subseteq 2..Len(t) /\ Kids(t, n) \subseteq Nat
      /\ Kids(u, n) \subseteq 2..Len(u) /\ Kids(u, n) \subseteq Nat
    BY <1>1, KidsAfter
<1>3. Kids(t, n) = Kids(u, n) \cap 1..Len(t)
    BY TreeTypes DEF Kids, Extends
<1>4. CASE Kids(t, n) = {}
  <2>1. ValueChild(t, n) = 0
    BY <1>4 DEF ValueChild
  <2>2. ValueChild(u, n) = 0
    BY <1>1, <1>4, ValueTypes
  <2> QED
    BY <2>1, <2>2 DEF value
<1>5. CASE Kids(t, n) # {}
  <2> DEFINE c == Min(Kids(t, n))
  <2>1. c \in Kids(t, n) /\ \A y \in Kids(t, n) : c <= y
    BY <1>2, <1>5, LeastOf
  <2> HIDE DEF c
  <2>2. \A y \in Kids(u, n) : c <= y
    BY <1>1, <1>2, <1>3, <2>1
  <2>3. Min(Kids(u, n)) = c /\ Kids(u, n) # {}
    BY <1>2, <1>3, <2>1, <2>2, LeastIs
  <2>4. u[c].kind = t[c].kind /\ u[c].text = t[c].text
    BY <1>3, <2>1 DEF Extends
  <2>5. ValueChild(u, n) = ValueChild(t, n)
    BY <1>5, <2>3, <2>4 DEF ValueChild, c
  <2>6. ValueChild(t, n) = 0 \/ ValueChild(t, n) = c
    BY DEF ValueChild, c
  <2> QED
    BY <2>4, <2>5, <2>6 DEF value
<1> QED
    BY <1>4, <1>5

(* The nodes of t have the same values in u.                               *)
SameValues(t, u) ==
    \A m \in 1..Len(t) : value(u, m) = value(t, m)
                          /\ ValueChild(u, m) = ValueChild(t, m)

LEMMA SameValuesTrans ==
    ASSUME NEW t, NEW u, NEW v, IsTree(t), IsTree(u), Extends(t, u),
           SameValues(t, u), SameValues(u, v)
    PROVE  SameValues(t, v)
  BY InnerKept DEF SameValues

(* attachNode: no value changes.                                           *)
LEMMA AttachTree ==
    ASSUME NEW t, IsTree(t), NEW n \in Inner(t), NEW name \in Name
    PROVE  LET u == attachNode(t, n, name) IN
           /\ IsTree(u) /\ Extends(t, u) /\ Len(u) = Len(t) + 1
           /\ Len(t) + 1 \in Inner(u)
           /\ u[Len(t) + 1].parent = n /\ u[Len(t) + 1].name = name
           /\ u[Len(t) + 1].kind = "ELEMENT"
           /\ SameValues(t, u)
<1> DEFINE x == Node(n, "ELEMENT", name, Nil, NoAttr)
           u == Append(t, x)
<1>1. Len(t) \in Nat /\ n \in 1..Len(t) /\ NoAttr \in Attrs
    BY TreeTypes DEF Inner, NoAttr, Attrs
<1>2. x \in Nodes /\ x.parent = n /\ x.kind = "ELEMENT" /\ x.text = Nil
        /\ x.name = name
    BY <1>1 DEF Node, Nodes
<1> HIDE DEF x
<1>3. /\ IsTree(u) /\ Extends(t, u) /\ Len(u) = Len(t) + 1
      /\ u[Len(t) + 1] = x /\ \A i \in 1..Len(t) : u[i] = t[i]
    BY <1>2, AppendTree
<1> HIDE DEF u
<1>4. ASSUME NEW m \in 1..Len(t)
      PROVE  value(u, m) = value(t, m) /\ ValueChild(u, m) = ValueChild(t, m)
  <2>1. \A i \in Kids(t, m) : u[i].text = t[i].text
    BY <1>3, TreeTypes DEF Kids
  <2>2. Kids(u, m) \subseteq Kids(t, m) \cup {Len(t) + 1}
    <3>1. DOMAIN u = 1..(Len(t) + 1) /\ DOMAIN t = 1..Len(t)
      BY <1>3, TreeTypes
    <3> QED
      BY <1>1, <1>3, <3>1 DEF Kids
  <2>3. Kids(t, m) # {} \/ \A i \in Kids(u, m) : u[i].kind = "ELEMENT"
    BY <1>2, <1>3, <2>2
  <2> QED
    BY <1>3, <2>1, <2>3, ValueKept
<1>5. Len(t) + 1 \in Inner(u)
    BY <1>1, <1>2, <1>3 DEF Inner
<1>6. attachNode(t, n, name) = u
    BY DEF attachNode, u, x
<1> QED
    BY <1>2, <1>3, <1>4, <1>5, <1>6 DEF SameValues

(* setValue: the value of the node becomes v, unless its first child is an *)
(* element; no other value changes.                                        *)
LEMMA SetValueTree ==
    ASSUME NEW t, IsTree(t), NEW n \in Inner(t), NEW v \in Text
    PROVE  LET u == setValue(t, n, v) IN
           /\ IsTree(u) /\ Extends(t, u)
           /\ \A m \in 1..Len(t) : m # n => value(u, m) = value(t, m)
           /\ \A m \in 1..Len(t) :
                ValueChild(t, m) # 0 => ValueChild(u, m) # 0
           /\ value(u, n) = IF ValueChild(t, n) # 0 \/ Kids(t, n) = {}
                            THEN v ELSE Nil
<1> DEFINE c == ValueChild(t, n)
<1>0. Len(t) \in Nat /\ n \in 1..Len(t) /\ n # 0 /\ Nil \notin Text
    BY TreeTypes, TreeAssumption DEF Inner
<1>1. CASE c # 0
  <2> DEFINE x == [t[c] EXCEPT !.text = v]
             u == [t EXCEPT ![c] = x]
  <2>1. /\ c \in 1..Len(t) /\ c \in Kids(t, n) /\ t[c].text # Nil
        /\ c \in 2..Len(t)
    BY <1>0, <1>1, ValueTypes DEF IsTree
  <2>2. t[c] \in Nodes /\ t[c].parent = n
    BY <2>1, TreeTypes DEF Kids
  <2>3. /\ x \in Nodes /\ x.parent = t[c].parent /\ x.kind = t[c].kind
        /\ x.name = t[c].name /\ x.text = v
    BY <2>2 DEF Nodes
  <2>4. x.text = Nil <=> t[c].text = Nil
    BY <1>0, <2>1, <2>3
  <2> HIDE DEF x
  <2>5. /\ IsTree(u) /\ Extends(t, u) /\ Len(u) = Len(t) /\ u[c] = x
        /\ \A i \in 1..Len(t) : i # c => u[i] = t[i]
    BY <2>1, <2>3, <2>4, ReplaceTree
  <2>6. setValue(t, n, v) = u
    BY <1>1 DEF setValue, x
  <2> HIDE DEF u, c
  <2>7. \A m \in 1..Len(t) : Kids(u, m) = Kids(t, m)
    BY <2>1, <2>3, <2>5, TreeTypes DEF Kids
  <2>8. ASSUME NEW m \in 1..Len(t), m # n
        PROVE  value(u, m) = value(t, m) /\ ValueChild(u, m) = ValueChild(t, m)
    <3>1. c \notin Kids(t, m)
      BY <2>2, <2>8 DEF Kids
    <3>2. \A i \in Kids(t, m) : u[i].text = t[i].text
      BY <2>5, <3>1, TreeTypes DEF Kids
    <3>3. Kids(t, m) # {} \/ \A i \in Kids(u, m) : u[i].kind = "ELEMENT"
      BY <2>7
    <3> QED
      BY <2>5, <3>2, <3>3, ValueKept
  <2>9. ValueChild(u, n) = c
    <3>1. c = Min(Kids(t, n)) /\ t[c].kind # "ELEMENT" /\ Kids(t, n) # {}
      BY <1>1 DEF ValueChild, c
    <3>2. u[c].kind # "ELEMENT"
      BY <2>3, <2>5, <3>1
    <3> QED
      BY <1>0, <2>7, <3>1, <3>2 DEF ValueChild
  <2>10. value(u, n) = v
    BY <1>1, <2>3, <2>5, <2>9 DEF value
  <2> QED
    BY <1>1, <2>5, <2>6, <2>8, <2>9, <2>10 DEF c
<1>2. CASE c = 0
  <2> DEFINE x == Node(n, "TEXT", Nil, v, Nil)
             u == Append(t, x)
  <2>1. x \in Nodes /\ x.parent = n /\ x.kind = "TEXT" /\ x.text = v
    BY <1>0 DEF Node, Nodes
  <2>2. x.text = Nil <=> x.kind = "ELEMENT"
    BY <1>0, <2>1
  <2> HIDE DEF x
  <2>3. /\ IsTree(u) /\ Extends(t, u) /\ Len(u) = Len(t) + 1
        /\ u[Len(t) + 1] = x /\ \A i \in 1..Len(t) : u[i] = t[i]
    BY <2>1, <2>2, AppendTree
  <2>4. setValue(t, n, v) = u
    BY <1>2 DEF setValue, x
  <2> HIDE DEF u, c
  <2>5. DOMAIN u = 1..(Len(t) + 1) /\ DOMAIN t = 1..Len(t)
    BY <2>3, TreeTypes
  <2>6. /\ \A m \in 1..Len(t) : m # n => Kids(u, m) = Kids(t, m)
        /\ Kids(u, n) = Kids(t, n) \cup {Len(t) + 1}
    BY <1>0, <2>1, <2>3, <2>5 DEF Kids
  <2>7. \A m \in 1..Len(t) : \A i \in Kids(t, m) : u[i].text = t[i].text
    BY <2>3, <2>5 DEF Kids
  <2>8. ASSUME NEW m \in 1..Len(t), m # n
        PROVE  value(u, m) = value(t, m) /\ ValueChild(u, m) = ValueChild(t, m)
    <3>1. Kids(t, m) # {} \/ \A i \in Kids(u, m) : u[i].kind = "ELEMENT"
      BY <2>6, <2>8
    <3> QED
      BY <2>3, <2>7, <3>1, ValueKept
  <2>9. CASE Kids(t, n) = {}
    <3>1. Kids(u, n) = {Len(t) + 1}
      BY <2>6, <2>9
    <3>2. Min(Kids(u, n)) = Len(t) + 1
      BY <1>0, <3>1, LeastIs
    <3>3. ValueChild(u, n) = Len(t) + 1
      BY <2>1, <2>3, <3>1, <3>2 DEF ValueChild
    <3>4. value(u, n) = v
      BY <1>0, <2>1, <2>3, <3>3 DEF value
    <3> QED
      BY <1>2, <2>3, <2>4, <2>8, <2>9, <3>4 DEF c
  <2>10. CASE Kids(t, n) # {}
    <3>1. value(u, n) = value(t, n) /\ ValueChild(u, n) = ValueChild(t, n)
      BY <1>0, <2>3, <2>7, <2>10, ValueKept
    <3>2. value(t, n) = Nil
      BY <1>2 DEF value, c
    <3> QED
      BY <1>2, <2>3, <2>4, <2>8, <2>10, <3>1, <3>2 DEF c
  <2> QED
    BY <2>9, <2>10
<1> QED
    BY <1>1, <1>2

(* setAttr: no value changes.                                              *)
LEMMA SetAttrTree ==
    ASSUME NEW t, IsTree(t), NEW n \in 1..Len(t), NEW a \in AttrName,
           NEW v \in Text
    PROVE  LET u == setAttr(t, n, a, v) IN
           /\ IsTree(u) /\ Extends(t, u) /\ Len(u) = Len(t)
           /\ SameValues(t, u)
<1>1. CASE t[n].attr = Nil
    BY <1>1, ExtendsRefl DEF setAttr, SameValues
<1>2. CASE t[n].attr # Nil
  <2> DEFINE x == [t[n] EXCEPT !.attr[a] = v]
             u == [t EXCEPT ![n] = x]
  <2>1. t[n] \in Nodes /\ t[n].attr \in Attrs
    BY <1>2, TreeTypes DEF Nodes
  <2>2. /\ x \in Nodes /\ x.parent = t[n].parent /\ x.kind = t[n].kind
        /\ x.name = t[n].name /\ x.text = t[n].text
    <3>1. [t[n].attr EXCEPT ![a] = v] \in Attrs
      BY <2>1 DEF Attrs
    <3> QED
      BY <2>1, <3>1 DEF Nodes
  <2> HIDE DEF x
  <2>3. /\ IsTree(u) /\ Extends(t, u) /\ Len(u) = Len(t) /\ u[n] = x
        /\ \A i \in 1..Len(t) : i # n => u[i] = t[i]
    BY <2>2, ReplaceTree
  <2>4. setAttr(t, n, a, v) = u
    BY <1>2 DEF setAttr, x
  <2> HIDE DEF u
  <2>5. ASSUME NEW m \in 1..Len(t)
        PROVE  value(u, m) = value(t, m) /\ ValueChild(u, m) = ValueChild(t, m)
    <3>1. \A i \in Kids(t, m) : u[i].text = t[i].text
      BY <2>2, <2>3, TreeTypes DEF Kids
    <3>2. Kids(u, m) = Kids(t, m)
      BY <2>2, <2>3, TreeTypes DEF Kids
    <3>3. Kids(t, m) # {} \/ \A i \in Kids(u, m) : u[i].kind = "ELEMENT"
      BY <3>2
    <3> QED
      BY <2>3, <3>1, <3>3, ValueKept
  <2> QED
    BY <2>3, <2>4, <2>5 DEF SameValues
<1> QED
    BY <1>1, <1>2

-------------------------------------------------------------------------------
(* getOrCreateNode.                                                        *)

(* A path that leads to an old node of the grown tree led there before.    *)
LEMMA GetNodeBack ==
    ASSUME NEW t, NEW u, IsTree(t), IsTree(u), Extends(t, u),
           NEW path, Len(path) \in Nat, getNode(u, path) \in 1..Len(t)
    PROVE  getNode(t, path) = getNode(u, path)
<1> DEFINE n == Len(path)
<1>1. PICK w : IsWalk(w, u, path) /\ getNode(u, path) = w[n]
    BY WalkOf
<1>2. w[n] # 0 /\ w[n] \in 1..Len(t) /\ Len(t) \in Nat
    BY <1>1, TreeTypes
<1>3. \A i \in 0..n : w[i] \in Nat \ {0}
  <2>1. \A i \in 0..n : w[i] \in Inner(u) \cup {0}
    BY <1>1, WalkTypes
  <2>2. \A i \in 0..n : w[i] # 0
    BY <1>1, <1>2, WalkNonzero
  <2> QED
    BY <2>1, <2>2, TreeTypes DEF Inner
<1>4. ASSUME NEW i \in 1..n PROVE w[i - 1] < w[i]
  <2>1. w[i] = GetChild(u, w[i - 1], path[i]) /\ w[i] # 0
    BY <1>1, <1>3 DEF IsWalk
  <2>2. w[i - 1] # 0 /\ w[i] \in Hits(u, w[i - 1], path[i])
    BY <2>1, ChildFound
  <2>3. w[i] \in Kids(u, w[i - 1])
    BY <2>2 DEF Hits, Named
  <2>4. w[i - 1] \in 1..(w[i] - 1)
    BY <2>2, <2>3, KidsAfter
  <2> QED
    BY <1>3, <2>4
<1> DEFINE S == {k \in 0..n : w[n - k] \in 1..Len(t)}
<1>5. 0 \in S
    BY <1>2
<1>6. ASSUME NEW k \in 1..n, k - 1 \in S PROVE k \in S
  <2>1. n - k + 1 \in 1..n /\ (n - k + 1) - 1 = n - k /\ n - (k - 1) = n - k + 1
          /\ n - k \in 0..n
    OBVIOUS
  <2>2. w[n - k] < w[n - k + 1] /\ w[n - k + 1] \in 1..Len(t)
          /\ w[n - k] \in Nat \ {0}
    BY <1>3, <1>4, <1>6, <2>1
  <2> QED
    BY <1>2, <2>2
<1> HIDE DEF S
<1>7. \A k \in 0..n : k \in S
    BY <1>5, <1>6, AllReached
<1>8. \A i \in 0..n : w[i] \in 1..Len(t)
  <2> TAKE i \in 0..n
  <2>1. n - i \in S /\ n - (n - i) = i
    BY <1>7
  <2> QED
    BY <2>1 DEF S
<1>9. ASSUME NEW i \in 1..n PROVE w[i] = GetChild(t, w[i - 1], path[i])
  <2>1. w[i] = GetChild(u, w[i - 1], path[i]) /\ w[i - 1] \in 1..Len(t)
          /\ w[i] \in 1..Len(t)
    BY <1>1, <1>8 DEF IsWalk
  <2> QED
    BY <2>1, ChildBack
<1>10. IsWalk(w, t, path)
    BY <1>1, <1>9 DEF IsWalk
<1> QED
    BY <1>1, <1>10, WalkUnique

(* What one turn of the loop of getOrCreateNode does: it creates a node,   *)
(* or stays in the tree it has; no value changes.                          *)
LEMMA CreateStep ==
    ASSUME NEW t, IsTree(t), NEW n \in Inner(t), NEW part \in Parts
    PROVE  LET r == GetOrCreateChild([tree |-> t, node |-> n], part) IN
           /\ r = [tree |-> r.tree, node |-> r.node]
           /\ IsTree(r.tree) /\ Extends(t, r.tree) /\ r.node \in Inner(r.tree)
           /\ SameValues(t, r.tree)
           /\ part.id = 0 /\ part.name \in Word =>
                GetChild(r.tree, n, part) = r.node
<1> DEFINE named == Named(t, n, part.name)
           matched == IF part.id = 0 THEN Min({1, Cardinality(named)})
                      ELSE Cardinality(named)
           s == [tree |-> t, node |-> n]
           r == GetOrCreateChild(s, part)
<1>1. /\ n \in 1..Len(t) /\ n # 0 /\ part.name \in Name /\ part.id \in Nat
      /\ Len(t) \in Nat
    BY TreeTypes DEF Inner, Parts
<1>2. /\ named \subseteq 2..Len(t) /\ named \subseteq Nat
      /\ named \subseteq Inner(t) /\ IsFiniteSet(named)
    BY <1>1, NamedTypes
<1>3. Cardinality(named) \in Nat /\ (Cardinality(named) = 0 <=> named = {})
    BY <1>2, FS_CardinalityType, FS_EmptySet
<1>4. r = IF matched = 0 \/ matched < part.id
          THEN [tree |-> attachNode(t, n, part.name), node |-> Len(t) + 1]
          ELSE [tree |-> t, node |-> IF part.id = 0 THEN Min(named) ELSE n]
    BY DEF GetOrCreateChild
<1> HIDE DEF named, r, s
<1>5. part.id = 0 =>
        (matched = 0 <=> named = {}) /\ ~(matched < part.id)
  <2> SUFFICES ASSUME part.id = 0
               PROVE  (matched = 0 <=> named = {}) /\ ~(matched < 0)
    OBVIOUS
  <2> DEFINE k == Cardinality(named)
             T == {1, k}
  <2>1. k \in Nat /\ T \subseteq Nat /\ T # {}
    BY <1>3
  <2>2. matched \in T /\ \A y \in T : matched <= y
    BY <2>1, LeastOf
  <2> QED
    BY <1>3, <2>1, <2>2
<1> HIDE DEF matched
<1>6. CASE matched = 0 \/ matched < part.id
  <2> DEFINE u == attachNode(t, n, part.name)
  <2>1. /\ IsTree(u) /\ Extends(t, u) /\ Len(u) = Len(t) + 1
        /\ Len(t) + 1 \in Inner(u) /\ u[Len(t) + 1].parent = n
        /\ u[Len(t) + 1].name = part.name /\ u[Len(t) + 1].kind = "ELEMENT"
        /\ SameValues(t, u)
    BY <1>1, AttachTree
  <2>2. r = [tree |-> u, node |-> Len(t) + 1]
    BY <1>4, <1>6
  <2> HIDE DEF u
  <2>3. ASSUME part.id = 0, part.name \in Word
        PROVE  GetChild(u, n, part) = Len(t) + 1
    <3>1. named = {}
      BY <1>5, <1>6, <2>3
    <3>2. Hits(u, n, part) = Named(u, n, part.name)
      BY <2>3, PlainHits
    <3>3. DOMAIN u = 1..(Len(t) + 1) /\ DOMAIN t = 1..Len(t)
      BY <2>1, TreeTypes
    <3>4. Len(t) + 1 \in Hits(u, n, part)
      BY <1>1, <2>1, <3>2, <3>3 DEF Named, Kids
    <3>5. Hits(t, n, part) = {}
      BY <2>3, <3>1, PlainHits DEF named
    <3>6. Hits(t, n, part) = Hits(u, n, part) \cap 1..Len(t)
      BY <1>1, <2>1, HitsKept
    <3>7. GetChild(u, n, part) # 0
      BY <1>1, <2>1, <3>4, ChildFound
    <3>8. GetChild(u, n, part) \in Hits(u, n, part)
            /\ GetChild(u, n, part) \in 1..Len(u)
      BY <2>1, <3>7, ChildFound DEF Inner
    <3> QED
      BY <1>1, <2>1, <3>5, <3>6, <3>8
  <2> QED
    BY <2>1, <2>2, <2>3 DEF r, s
<1>7. CASE ~(matched = 0 \/ matched < part.id)
  <2>1. CASE part.id = 0
    <3>1. named # {} /\ r = [tree |-> t, node |-> Min(named)]
      BY <1>4, <1>5, <1>7, <2>1
    <3>2. Min(named) \in named
      BY <1>2, <3>1, LeastOf
    <3>3. part.name \in Word => Hits(t, n, part) = named
      BY <2>1, PlainHits DEF named
    <3>4. part.name \in Word => GetChild(t, n, part) = Min(named)
      BY <1>1, <3>1, <3>3 DEF GetChild, Hits, named
    <3> QED
      BY <1>2, <3>1, <3>2, <3>4, ExtendsRefl DEF r, s, SameValues
  <2>2. CASE part.id # 0
    <3>1. r = [tree |-> t, node |-> n]
      BY <1>4, <1>7, <2>2
    <3> QED
      BY <2>2, <3>1, ExtendsRefl DEF r, s, SameValues
  <2> QED
    BY <2>1, <2>2
<1> QED
    BY <1>6, <1>7

(* The trees and nodes of the loop of getOrCreateNode.                     *)
IsCreation(w, t, path) ==
    /\ w[0] = [tree |-> t, node |-> 1]
    /\ \A i \in 1..Len(path) : w[i] = GetOrCreateChild(w[i - 1], path[i])

LEMMA CreationOf ==
    ASSUME NEW t, NEW path, Len(path) \in Nat
    PROVE  \E w : /\ IsCreation(w, t, path)
                  /\ getOrCreateNode(t, path) =
                       IF getNode(t, path) # 0
                       THEN [tree |-> t, node |-> getNode(t, path)]
                       ELSE w[Len(path)]
<1> DEFINE P(m, w) == w = [i \in 0..m |->
                             IF i = 0 THEN [tree |-> t, node |-> 1]
                             ELSE GetOrCreateChild(w[i - 1], path[i])]
           S == {m \in 0..Len(path) : \E w : P(m, w)}
<1>1. 0 \in S
  <2>1. P(0, [i \in 0..0 |-> [tree |-> t, node |-> 1]])
    OBVIOUS
  <2> HIDE DEF P
  <2>2. \E w : P(0, w)
    BY <2>1, Zenon
  <2> QED
    BY <2>2
<1>2. ASSUME NEW m \in 1..Len(path), m - 1 \in S
      PROVE  m \in S
  <2>1. PICK w : P(m - 1, w)
    BY <1>2
  <2> DEFINE v == [i \in 0..m |->
                     IF i = m THEN GetOrCreateChild(w[m - 1], path[m])
                     ELSE w[i]]
  <2>2. \A i \in 0..(m - 1) :
          w[i] = IF i = 0 THEN [tree |-> t, node |-> 1]
                 ELSE GetOrCreateChild(w[i - 1], path[i])
    BY <2>1
  <2>3. \A i \in 0..m :
          v[i] = IF i = 0 THEN [tree |-> t, node |-> 1]
                 ELSE GetOrCreateChild(v[i - 1], path[i])
    BY <2>2
  <2>4. P(m, v)
    BY <2>3
  <2> HIDE DEF P, v
  <2>5. \E x : P(m, x)
    BY <2>4, Zenon
  <2> QED
    BY <2>5
<1> HIDE DEF S
<1>3. \A m \in 0..Len(path) : m \in S
    BY <1>1, <1>2, AllReached
<1>4. Len(path) \in S
    BY <1>3
<1>5. \E w : P(Len(path), w)
  <2> HIDE DEF P
  <2> QED
    BY <1>4 DEF S
<1> DEFINE w == CHOOSE x : P(Len(path), x)
<1>6. P(Len(path), w)
    BY <1>5, Zenon
<1>7. getOrCreateNode(t, path) =
        IF getNode(t, path) # 0 THEN [tree |-> t, node |-> getNode(t, path)]
        ELSE w[Len(path)]
    BY Zenon DEF getOrCreateNode
<1> HIDE DEF w
<1>8. IsCreation(w, t, path)
    BY <1>6 DEF IsCreation
<1> QED
    BY <1>7, <1>8

(* The tree grows along the loop, and no value changes.                    *)
LEMMA CreationTypes ==
    ASSUME NEW t, IsTree(t), NEW path \in Seq(Parts),
           NEW w, IsCreation(w, t, path)
    PROVE  \A i \in 0..Len(path) :
             /\ w[i] = [tree |-> w[i].tree, node |-> w[i].node]
             /\ IsTree(w[i].tree) /\ Extends(t, w[i].tree)
             /\ w[i].node \in Inner(w[i].tree)
             /\ SameValues(t, w[i].tree)
<1> DEFINE Q(s) == /\ s = [tree |-> s.tree, node |-> s.node]
                   /\ IsTree(s.tree) /\ Extends(t, s.tree)
                   /\ s.node \in Inner(s.tree)
                   /\ SameValues(t, s.tree)
           S == {i \in 0..Len(path) : Q(w[i])}
<1>0. Len(path) \in Nat /\ \A i \in 1..Len(path) : path[i] \in Parts
    OBVIOUS
<1>1. Q(w[0])
    BY TreeTypes, ExtendsRefl DEF IsCreation, SameValues
<1>2. ASSUME NEW i \in 1..Len(path), Q(w[i - 1]) PROVE Q(w[i])
  <2> DEFINE a == w[i - 1].tree
             r == GetOrCreateChild([tree |-> a, node |-> w[i - 1].node],
                                   path[i])
  <2>1. w[i] = r
    BY <1>2 DEF IsCreation
  <2>2. /\ r = [tree |-> r.tree, node |-> r.node]
        /\ IsTree(r.tree) /\ Extends(a, r.tree) /\ r.node \in Inner(r.tree)
        /\ SameValues(a, r.tree)
    BY <1>0, <1>2, CreateStep
  <2> HIDE DEF a, r
  <2>3. Extends(t, r.tree)
    BY <1>2, <2>2, ExtendsTrans DEF a
  <2>4. SameValues(t, r.tree)
    BY <1>2, <2>2, SameValuesTrans DEF a
  <2> QED
    BY <1>2, <2>1, <2>2, <2>3, <2>4 DEF a
<1> HIDE DEF Q
<1>3. 0 \in S /\ \A i \in 1..Len(path) : i - 1 \in S => i \in S
    BY <1>0, <1>1, <1>2
<1> HIDE DEF S
<1>4. \A i \in 0..Len(path) : i \in S
    BY <1>0, <1>3, AllReached
<1> QED
    BY <1>4 DEF S, Q

PlainPath(path) ==
    \A j \in DOMAIN path : path[j].id = 0 /\ path[j].name \in Word

(* Without indexes the loop ends where getNode then ends.                  *)
LEMMA CreationFound ==
    ASSUME NEW t, IsTree(t), NEW path \in Seq(Parts), PlainPath(path),
           NEW w, IsCreation(w, t, path)
    PROVE  getNode(w[Len(path)].tree, path) = w[Len(path)].node
<1> DEFINE n == Len(path)
           S == {i \in 0..n :
                   /\ \A k \in 0..i : w[k].node \in 1..Len(w[i].tree)
                   /\ \A k \in 1..i : GetChild(w[i].tree, w[k - 1].node, path[k])
                                        = w[k].node}
<1>0. /\ n \in Nat
      /\ \A i \in 1..n : /\ path[i] \in Parts /\ path[i].id = 0
                         /\ path[i].name \in Word
    BY DEF PlainPath
<1>1. \A i \in 0..n : /\ w[i] = [tree |-> w[i].tree, node |-> w[i].node]
                      /\ IsTree(w[i].tree) /\ w[i].node \in Inner(w[i].tree)
    BY CreationTypes
<1>2. 0 \in S
  <2>1. w[0].node \in 1..Len(w[0].tree)
    <3>1. 0 \in 0..n
      BY <1>0
    <3>2. w[0].node \in Inner(w[0].tree)
      BY <1>1, <3>1
    <3> QED
      BY <3>2 DEF Inner
  <2>2. 0 \in 0..n /\ 0..0 = {0} /\ 1..0 = {}
    BY <1>0
  <2> QED
    BY <2>1, <2>2
<1>3. ASSUME NEW i \in 1..n, i - 1 \in S PROVE i \in S
  <2> DEFINE a == w[i - 1].tree
             b == w[i].tree
  <2>0. i - 1 \in 0..n /\ i \in 0..n
    BY <1>0
  <2>1. /\ i - 1 \in 0..n /\ i \in 0..n
        /\ w[i] = GetOrCreateChild(w[i - 1], path[i])
        /\ w[i - 1] = [tree |-> a, node |-> w[i - 1].node]
        /\ IsTree(a) /\ IsTree(b) /\ w[i - 1].node \in Inner(a)
        /\ w[i].node \in Inner(b)
    <3>1. w[i] = GetOrCreateChild(w[i - 1], path[i])
      BY DEF IsCreation
    <3> QED
      BY <1>1, <2>0, <3>1
  <2> HIDE DEF a, b
  <2>2. Extends(a, b) /\ GetChild(b, w[i - 1].node, path[i]) = w[i].node
    <3>1. path[i] \in Parts /\ path[i].id = 0 /\ path[i].name \in Word
      BY <1>0
    <3> DEFINE m == w[i - 1].node
               r == GetOrCreateChild([tree |-> a, node |-> m], path[i])
    <3>2. Extends(a, r.tree) /\ GetChild(r.tree, m, path[i]) = r.node
      BY <2>1, <3>1, CreateStep
    <3>3. w[i] = r
      BY <2>1
    <3> QED
      BY <3>2, <3>3 DEF b
  <2>3. 1..Len(a) \subseteq 1..Len(b)
    BY <2>1, <2>2, InnerKept
  <2>4. /\ \A k \in 0..(i - 1) : w[k].node \in 1..Len(a)
        /\ \A k \in 1..(i - 1) : GetChild(a, w[k - 1].node, path[k]) = w[k].node
    BY <1>3 DEF a
  <2>5. \A k \in 0..i : w[k].node \in 1..Len(b)
    BY <2>1, <2>3, <2>4 DEF Inner
  <2>6. ASSUME NEW k \in 1..(i - 1)
        PROVE  GetChild(b, w[k - 1].node, path[k]) = w[k].node
    <3>1. /\ w[k - 1].node \in 1..Len(a) /\ w[k].node # 0
          /\ GetChild(a, w[k - 1].node, path[k]) = w[k].node
      BY <2>4
    <3> QED
      BY <2>1, <2>2, <3>1, ChildKept
  <2>7. \A k \in 1..i : GetChild(b, w[k - 1].node, path[k]) = w[k].node
    BY <2>2, <2>6
  <2> QED
    BY <2>1, <2>5, <2>7 DEF b
<1> HIDE DEF S
<1>4. \A i \in 0..n : i \in S
    BY <1>0, <1>2, <1>3, AllReached
<1> DEFINE v == [i \in 0..n |-> w[i].node]
<1>5. \A k \in 1..n : GetChild(w[n].tree, w[k - 1].node, path[k]) = w[k].node
  <2>1. n \in S
    BY <1>0, <1>4
  <2> QED
    BY <2>1 DEF S
<1>6. v[0] = 1 /\ \A i \in 1..n : v[i] = w[i].node /\ v[i - 1] = w[i - 1].node
    BY <1>0 DEF IsCreation
<1>7. IsWalk(v, w[n].tree, path)
    BY <1>5, <1>6 DEF IsWalk
<1>8. v[n] = w[n].node
    BY <1>0
<1> HIDE DEF v
<1> QED
    BY <1>0, <1>7, <1>8, WalkUnique

(* getOrCreateNode: it returns a node of a tree that has grown and kept    *)
(* its values.  Without indexes it is the node the path leads to, and the  *)
(* node is new if the path led nowhere.                                    *)
LEMMA GetOrCreateTree ==
    ASSUME NEW t, IsTree(t), NEW path \in Seq(Parts)
    PROVE  LET r == getOrCreateNode(t, path) IN
           /\ IsTree(r.tree) /\ Extends(t, r.tree) /\ r.node \in Inner(r.tree)
           /\ SameValues(t, r.tree)
           /\ getNode(t, path) # 0 => r.tree = t /\ r.node = getNode(t, path)
           /\ PlainPath(path) =>
                /\ getNode(r.tree, path) = r.node
                /\ getNode(t, path) = 0 => r.node \notin 1..Len(t)
<1> DEFINE r == getOrCreateNode(t, path)
           n == Len(path)
           g == getNode(t, path)
<1>0. n \in Nat
    OBVIOUS
<1>1. PICK w : /\ IsCreation(w, t, path)
               /\ r = IF g # 0 THEN [tree |-> t, node |-> g] ELSE w[n]
    BY <1>0, CreationOf
<1> HIDE DEF r
<1>2. CASE g # 0
  <2>1. r.tree = t /\ r.node = g
    BY <1>1, <1>2
  <2>2. g \in Inner(t)
    BY <1>0, <1>2, GetNodeTypes
  <2> QED
    BY <1>2, <2>1, <2>2, ExtendsRefl DEF r, SameValues
<1>3. CASE g = 0
  <2>1. r = w[n] /\ n \in 0..n
    BY <1>0, <1>1, <1>3
  <2>2. /\ IsTree(r.tree) /\ Extends(t, r.tree) /\ r.node \in Inner(r.tree)
        /\ SameValues(t, r.tree)
    <3>1. \A i \in 0..n :
            /\ IsTree(w[i].tree) /\ Extends(t, w[i].tree)
            /\ w[i].node \in Inner(w[i].tree)
            /\ SameValues(t, w[i].tree)
      BY <1>1, CreationTypes
    <3> QED
      BY <2>1, <3>1
  <2>3. ASSUME PlainPath(path)
        PROVE  getNode(r.tree, path) = r.node /\ r.node \notin 1..Len(t)
    <3>1. getNode(r.tree, path) = r.node
      BY <1>1, <2>1, <2>3, CreationFound
    <3>2. ASSUME r.node \in 1..Len(t) PROVE FALSE
      <4>1. getNode(t, path) = r.node
        BY <1>0, <2>2, <3>1, <3>2, GetNodeBack
      <4> QED
        BY <1>3, <3>2, <4>1
    <3> QED
      BY <3>1, <3>2
  <2> QED
    BY <1>3, <2>2, <2>3 DEF r
<1> QED
    BY <1>2, <1>3

-------------------------------------------------------------------------------
(* setmany.                                                                *)

(* One key: the tree grows, a node that has a value keeps having one.      *)
LEMMA KeyTree ==
    ASSUME NEW s, IsTree(s.tree), NEW key \in Keys
    PROVE  LET d == DoKey(s, key) IN
           /\ IsTree(d.tree) /\ Extends(s.tree, d.tree)
           /\ \A m \in 1..Len(s.tree) :
                ValueChild(s.tree, m) # 0 => ValueChild(d.tree, m) # 0
           /\ ~s.ok => d = s
<1> DEFINE t == s.tree
           r == getOrCreateNode(t, key.path)
           u == IF key.op = "sm" THEN setValue(r.tree, r.node, key.value)
                ELSE setAttr(r.tree, r.node, key.attr, key.value)
           d == DoKey(s, key)
<1>1. key.path \in Seq(Parts) /\ key.value \in Text /\ key.attr \in AttrName
    BY DEF Keys
<1>2. /\ IsTree(r.tree) /\ Extends(t, r.tree) /\ r.node \in Inner(r.tree)
      /\ SameValues(t, r.tree)
    BY <1>1, GetOrCreateTree
<1>3. d.tree = IF ~s.ok THEN t ELSE u
    BY DEF DoKey
<1>4. ~s.ok => d = s
    BY DEF DoKey
<1> HIDE DEF t, r, d
<1>5. /\ IsTree(u) /\ Extends(r.tree, u)
      /\ \A m \in 1..Len(r.tree) :
           ValueChild(r.tree, m) # 0 => ValueChild(u, m) # 0
  <2>1. CASE key.op = "sm"
    BY <1>1, <1>2, <2>1, SetValueTree
  <2>2. CASE key.op # "sm"
    <3>1. r.node \in 1..Len(r.tree)
      BY <1>2 DEF Inner
    <3> QED
      BY <1>1, <1>2, <2>2, <3>1, SetAttrTree DEF SameValues
  <2> QED
    BY <2>1, <2>2
<1> HIDE DEF u
<1>6. IsTree(t)
    BY DEF t
<1>7. Extends(t, u)
    BY <1>2, <1>5, <1>6, ExtendsTrans
<1>8. \A m \in 1..Len(t) : ValueChild(t, m) # 0 => ValueChild(u, m) # 0
    BY <1>2, <1>5, <1>6, InnerKept DEF SameValues
<1>9. CASE s.ok
  <2>1. d.tree = u
    BY <1>3, <1>9
  <2> QED
    BY <1>4, <1>5, <1>7, <1>8, <2>1 DEF d, t
<1>10. CASE ~s.ok
  <2>1. d.tree = t
    BY <1>3, <1>10
  <2> QED
    BY <1>4, <1>6, <2>1, ExtendsRefl DEF d, t
<1> QED
    BY <1>9, <1>10

(* One key without index: only the value it names changes, and it is there *)
(* if there was no error.                                                  *)
LEMMA KeyValues ==
    ASSUME NEW s, IsTree(s.tree), NEW key \in Keys, PlainPath(key.path)
    PROVE  LET d == DoKey(s, key) IN
           /\ \A m \in 1..Len(s.tree) :
                value(d.tree, m) # value(s.tree, m) =>
                  key.op = "sm" /\ getNode(s.tree, key.path) = m
           /\ s.ok /\ d.ok /\ key.op = "sm" =>
                /\ getNode(d.tree, key.path) # 0
                /\ value(d.tree, getNode(d.tree, key.path)) = key.value
<1> DEFINE t == s.tree
           r == getOrCreateNode(t, key.path)
           u == IF key.op = "sm" THEN setValue(r.tree, r.node, key.value)
                ELSE setAttr(r.tree, r.node, key.attr, key.value)
           d == DoKey(s, key)
<1>1. /\ key.path \in Seq(Parts) /\ key.value \in Text
      /\ Len(key.path) \in Nat /\ key.attr \in AttrName
    BY DEF Keys
<1>2. /\ IsTree(r.tree) /\ Extends(t, r.tree) /\ r.node \in Inner(r.tree)
      /\ SameValues(t, r.tree)
      /\ getNode(t, key.path) # 0 => r.node = getNode(t, key.path)
      /\ getNode(r.tree, key.path) = r.node
      /\ getNode(t, key.path) = 0 => r.node \notin 1..Len(t)
    BY <1>1, GetOrCreateTree
<1>3. d.tree = IF ~s.ok THEN t ELSE u
    BY DEF DoKey
<1>4. s.ok /\ key.op = "sm" => (d.ok <=> value(u, r.node) # Nil)
    BY DEF DoKey
<1> HIDE DEF t, r, d
<1>5. IsTree(t) /\ 1..Len(t) \subseteq 1..Len(r.tree) /\ r.node # 0
    BY <1>2, InnerKept DEF t, Inner
<1>6. CASE ~s.ok
    BY <1>3, <1>6 DEF t, d
<1>7. CASE s.ok /\ key.op = "sm"
  <2>1. u = setValue(r.tree, r.node, key.value)
    BY <1>7
  <2> HIDE DEF u
  <2>2. /\ IsTree(u) /\ Extends(r.tree, u)
        /\ \A m \in 1..Len(r.tree) :
             m # r.node => value(u, m) = value(r.tree, m)
        /\ value(u, r.node) \in {key.value, Nil}
    BY <1>1, <1>2, <2>1, SetValueTree
  <2>3. ASSUME NEW m \in 1..Len(t), value(u, m) # value(t, m)
        PROVE  getNode(t, key.path) = m
    <3>1. m = r.node
      BY <1>2, <1>5, <2>2, <2>3 DEF SameValues
    <3> QED
      BY <1>2, <3>1
  <2>4. getNode(u, key.path) = r.node
    BY <1>1, <1>2, <1>5, <2>2, GetNodeKept
  <2>5. d.ok => value(u, r.node) = key.value
    BY <1>4, <1>7, <2>2
  <2>6. d.tree = u
    BY <1>3, <1>7
  <2> QED
    BY <1>5, <1>7, <2>3, <2>4, <2>5, <2>6 DEF d, t
<1>8. CASE s.ok /\ key.op # "sm"
  <2>1. /\ u = setAttr(r.tree, r.node, key.attr, key.value)
        /\ r.node \in 1..Len(r.tree)
    BY <1>2, <1>8 DEF Inner
  <2> HIDE DEF u
  <2>2. SameValues(r.tree, u)
    BY <1>1, <1>2, <2>1, SetAttrTree
  <2>3. SameValues(t, u)
    BY <1>2, <1>5, <2>2, SameValuesTrans
  <2>4. d.tree = u
    BY <1>3, <1>8
  <2> QED
    BY <1>8, <2>3, <2>4 DEF d, t, SameValues
<1> QED
    BY <1>6, <1>7, <1>8

(* The trees between the keys of a request.                                *)
IsRequest(w, t, req) ==
    /\ w[0] = [tree |-> t, ok |-> TRUE]
    /\ \A i \in 1..Len(req) : w[i] = DoKey(w[i - 1], req[i])

LEMMA RequestOf ==
    ASSUME NEW t, NEW req, Len(req) \in Nat
    PROVE  \E w : IsRequest(w, t, req) /\ setmany(t, req) = w[Len(req)]
<1> DEFINE z == [tree |-> t, ok |-> TRUE]
           P(m, w) == w = [i \in 0..m |->
                             IF i = 0 THEN z
                             ELSE DoKey(w[i - 1], req[i])]
           S == {m \in 0..Len(req) : \E w : P(m, w)}
<1> HIDE DEF z
<1>1. 0 \in S
  <2>1. P(0, [i \in 0..0 |-> z])
    OBVIOUS
  <2> HIDE DEF P
  <2>2. \E w : P(0, w)
    BY <2>1, Zenon
  <2> QED
    BY <2>2
<1>2. ASSUME NEW m \in 1..Len(req), m - 1 \in S
      PROVE  m \in S
  <2>1. PICK w : P(m - 1, w)
    BY <1>2
  <2> DEFINE v == [i \in 0..m |-> IF i = m THEN DoKey(w[m - 1], req[m])
                                  ELSE w[i]]
  <2>2. \A i \in 0..(m - 1) :
          w[i] = IF i = 0 THEN z
                 ELSE DoKey(w[i - 1], req[i])
    BY <2>1
  <2>3. \A i \in 0..m :
          v[i] = IF i = 0 THEN z
                 ELSE DoKey(v[i - 1], req[i])
    BY <2>2
  <2>4. P(m, v)
    BY <2>3
  <2> HIDE DEF P, v
  <2>5. \E x : P(m, x)
    BY <2>4, Zenon
  <2> QED
    BY <2>5
<1> HIDE DEF S
<1>3. \A m \in 0..Len(req) : m \in S
    BY <1>1, <1>2, AllReached
<1>4. Len(req) \in S
    BY <1>3
<1>5. \E w : P(Len(req), w)
  <2> HIDE DEF P
  <2> QED
    BY <1>4 DEF S
<1> DEFINE w == CHOOSE x : P(Len(req), x)
<1>6. P(Len(req), w)
    BY <1>5, Zenon
<1>7. setmany(t, req) = w[Len(req)]
    BY Zenon DEF setmany, z
<1> HIDE DEF w
<1>8. IsRequest(w, t, req)
  <2>1. w[0] = z /\ \A i \in 1..Len(req) : w[i] = DoKey(w[i - 1], req[i])
    BY <1>6
  <2> QED
    BY <2>1, Zenon DEF IsRequest, z
<1> QED
    BY <1>7, <1>8

(* Nodes that have a value in t have one in u.                             *)
StillValued(t, u) ==
    \A m \in 1..Len(t) : ValueChild(t, m) # 0 => ValueChild(u, m) # 0

LEMMA RequestTypes ==
    ASSUME NEW t, IsTree(t), NEW req \in Seq(Keys), NEW w, IsRequest(w, t, req)
    PROVE  \A i \in 0..Len(req) :
             /\ IsTree(w[i].tree) /\ Extends(t, w[i].tree)
             /\ StillValued(t, w[i].tree)
<1> DEFINE Q(u) == IsTree(u) /\ Extends(t, u) /\ StillValued(t, u)
           S == {i \in 0..Len(req) : Q(w[i].tree)}
<1>0. Len(req) \in Nat /\ \A i \in 1..Len(req) : req[i] \in Keys
    OBVIOUS
<1>1. Q(w[0].tree)
    BY ExtendsRefl DEF IsRequest, StillValued
<1>2. ASSUME NEW i \in 1..Len(req), Q(w[i - 1].tree) PROVE Q(w[i].tree)
  <2> DEFINE a == w[i - 1].tree
             d == DoKey(w[i - 1], req[i])
  <2>1. w[i] = d
    BY DEF IsRequest
  <2>2. /\ IsTree(d.tree) /\ Extends(a, d.tree)
        /\ \A m \in 1..Len(a) :
             ValueChild(a, m) # 0 => ValueChild(d.tree, m) # 0
    BY <1>0, <1>2, KeyTree
  <2> HIDE DEF a, d
  <2>3. IsTree(a) /\ Extends(t, a) /\ StillValued(t, a)
    BY <1>2 DEF a
  <2>4. Extends(t, d.tree)
    BY <2>2, <2>3, ExtendsTrans
  <2>5. StillValued(t, d.tree)
    BY <2>2, <2>3, InnerKept DEF StillValued
  <2> QED
    BY <2>1, <2>2, <2>4, <2>5
<1> HIDE DEF Q
<1>3. 0 \in S /\ \A i \in 1..Len(req) : i - 1 \in S => i \in S
    BY <1>0, <1>1, <1>2
<1> HIDE DEF S
<1>4. \A i \in 0..Len(req) : i \in S
    BY <1>0, <1>3, AllReached
<1> QED
    BY <1>4 DEF S, Q

(* A request keeps the tree one, and what has a value.                     *)
LEMMA SetmanyTree ==
    ASSUME NEW t, IsTree(t), NEW req \in Seq(Keys)
    PROVE  /\ IsTree(setmany(t, req).tree) /\ Extends(t, setmany(t, req).tree)
           /\ StillValued(t, setmany(t, req).tree)
<1>0. Len(req) \in Nat /\ Len(req) \in 0..Len(req)
    OBVIOUS
<1>1. PICK w : IsRequest(w, t, req) /\ setmany(t, req) = w[Len(req)]
    BY <1>0, RequestOf
<1>2. \A i \in 0..Len(req) :
        /\ IsTree(w[i].tree) /\ Extends(t, w[i].tree)
        /\ StillValued(t, w[i].tree)
    BY <1>1, RequestTypes
<1> QED
    BY <1>0, <1>1, <1>2

(* A step of a walk that ends at a node goes to a child of the right name.  *)
LEMMA WalkStep ==
    ASSUME NEW t, IsTree(t), NEW path, Len(path) \in Nat,
           NEW x, IsWalk(x, t, path), x[Len(path)] # 0
    PROVE  \A i \in 1..Len(path) :
             /\ t[x[i]].parent = x[i - 1] /\ t[x[i]].name = path[i].name
             /\ x[i - 1] # 0
<1> TAKE i \in 1..Len(path)
<1>1. \A k \in 0..Len(path) : x[k] # 0
    BY WalkNonzero
<1>2. x[i] = GetChild(t, x[i - 1], path[i]) /\ x[i] # 0 /\ x[i - 1] # 0
    BY <1>1 DEF IsWalk
<1>3. x[i] \in Hits(t, x[i - 1], path[i])
    BY <1>2, ChildFound
<1> QED
    BY <1>2, <1>3 DEF Hits, Named, Kids

(* Two parts with the same name and index are one part.                    *)
LEMMA PartsEqual ==
    ASSUME NEW a \in Parts, NEW b \in Parts, a.name = b.name, a.id = b.id
    PROVE  a = b
BY DEF Parts

(* Paths without index that lead to one node are the same path.            *)
LEMMA PathOfNode ==
    ASSUME NEW t, IsTree(t), NEW p \in Seq(Parts), NEW q \in Seq(Parts),
           PlainPath(p), PlainPath(q), Len(p) <= Len(q),
           getNode(t, p) = getNode(t, q), getNode(t, p) # 0
    PROVE  p = q
<1> DEFINE n == Len(p)
           e == Len(q) - Len(p)
<1>0. n \in Nat /\ e \in Nat /\ Len(q) = n + e /\ Len(q) \in Nat
    OBVIOUS
<1>1. PICK v : IsWalk(v, t, p) /\ getNode(t, p) = v[n]
    BY <1>0, WalkOf
<1>2. PICK w : IsWalk(w, t, q) /\ getNode(t, q) = w[n + e]
    BY <1>0, WalkOf
<1>3. \A i \in 1..n : t[v[i]].parent = v[i - 1] /\ t[v[i]].name = p[i].name
    BY <1>0, <1>1, WalkStep
<1>3a. \A i \in 1..(n + e) :
         /\ t[w[i]].parent = w[i - 1] /\ t[w[i]].name = q[i].name
         /\ w[i - 1] # 0
  <2>1. w[Len(q)] # 0
    BY <1>0, <1>2
  <2>2. \A i \in 1..Len(q) :
          /\ t[w[i]].parent = w[i - 1] /\ t[w[i]].name = q[i].name
          /\ w[i - 1] # 0
    BY <1>0, <1>2, <2>1, WalkStep
  <2> QED
    BY <1>0, <2>2
<1> HIDE DEF e
<1> DEFINE S == {k \in 0..n : v[n - k] = w[(n - k) + e]}
<1>4. 0 \in S
  <2>1. v[n] = w[n + e]
    BY <1>1, <1>2, Zenon
  <2>2. n - 0 = n /\ 0 \in 0..n
    BY <1>0
  <2> HIDE DEF n
  <2> QED
    BY <2>1, <2>2
<1>5. ASSUME NEW k \in 1..n, k - 1 \in S PROVE k \in S
  <2> DEFINE a == n - k
  <2>1. a + 1 \in 1..n /\ n - (k - 1) = a + 1 /\ (a + 1) - 1 = a
          /\ (a + 1) + e \in 1..(n + e) /\ ((a + 1) + e) - 1 = a + e
    BY <1>0
  <2>2. v[a + 1] = w[(a + 1) + e]
    BY <1>5, <2>1
  <2> HIDE DEF a
  <2>3. t[v[a + 1]].parent = v[a]
    BY <1>3, <2>1
  <2>4. t[w[(a + 1) + e]].parent = w[a + e]
    BY <1>3a, <2>1
  <2>5. v[a] = w[a + e]
    BY <2>2, <2>3, <2>4
  <2> QED
    BY <2>5 DEF a
<1> HIDE DEF S
<1>6. \A k \in 0..n : k \in S
    BY <1>0, <1>4, <1>5, AllReached
<1>7. \A i \in 0..n : v[i] = w[i + e]
  <2> TAKE i \in 0..n
  <2>1. n - i \in 0..n /\ n - (n - i) = i
    BY <1>0
  <2> QED
    BY <1>6, <2>1 DEF S
<1>8. e = 0
  <2> SUFFICES ASSUME e # 0 PROVE FALSE
    OBVIOUS
  <2>1. w[e] = 1 /\ e \in 1..(n + e) /\ 0 \in 0..n /\ 0 + e = e
    BY <1>0, <1>1, <1>7 DEF IsWalk
  <2>2. t[w[e]].parent # 0
    BY <1>3a, <2>1
  <2> QED
    BY <2>1, <2>2 DEF IsTree
<1>9. ASSUME NEW i \in 1..n PROVE p[i] = q[i]
  <2>1. v[i] = w[i] /\ i \in 1..Len(q)
    BY <1>0, <1>7, <1>8
  <2>2. t[v[i]].name = p[i].name /\ t[w[i]].name = q[i].name
    BY <1>0, <1>3, <1>3a, <1>8, <2>1
  <2>3. p[i] \in Parts /\ q[i] \in Parts /\ p[i].id = 0 /\ q[i].id = 0
    BY <2>1 DEF PlainPath
  <2>4. p[i].name = q[i].name /\ p[i].id = q[i].id
    BY <2>1, <2>2, <2>3
  <2> QED
    BY <2>3, <2>4, PartsEqual
<1> QED
    BY <1>0, <1>8, <1>9

(* Every path that led to a node leads there after a request.              *)
LEMMA RequestKeepsPaths ==
    ASSUME IsTree(tree)
    PROVE  PathsStable
<1> SUFFICES ASSUME NEW req \in Requests, NEW path \in Paths,
                    getNode(tree, path) # 0
             PROVE  getNode(setmany(tree, req).tree, path) = getNode(tree, path)
    BY DEF PathsStable
<1>1. req \in Seq(Keys) /\ Len(path) \in Nat
    BY TreeAssumption
<1>2. IsTree(setmany(tree, req).tree) /\ Extends(tree, setmany(tree, req).tree)
    BY <1>1, SetmanyTree
<1> QED
    BY <1>1, <1>2, GetNodeKept

(* A value that no key of a request names stays as it is.                  *)
LEMMA RequestLeavesOthers ==
    ASSUME NEW t, IsTree(t), NEW req \in Seq(Keys),
           \A i \in 1..Len(req) : PlainPath(req[i].path),
           NEW n \in 1..Len(t), \A i \in 1..Len(req) : getNode(t, req[i].path) # n
    PROVE  value(setmany(t, req).tree, n) = value(t, n)
<1>0. /\ Len(req) \in Nat
      /\ \A i \in 1..Len(req) : req[i] \in Keys /\ Len(req[i].path) \in Nat
  <2>1. Len(req) \in Nat /\ \A i \in 1..Len(req) : req[i] \in Keys
    OBVIOUS
  <2>2. \A key \in Keys : Len(key.path) \in Nat
    BY DEF Keys
  <2> QED
    BY <2>1, <2>2
<1>1. PICK w : IsRequest(w, t, req) /\ setmany(t, req) = w[Len(req)]
    BY <1>0, RequestOf
<1>2. \A i \in 0..Len(req) : IsTree(w[i].tree) /\ Extends(t, w[i].tree)
    BY <1>1, RequestTypes
<1> DEFINE S == {i \in 0..Len(req) : value(w[i].tree, n) = value(t, n)}
<1>3. 0 \in S
  <2>1. w[0] = [tree |-> t, ok |-> TRUE]
    BY <1>1, Zenon DEF IsRequest
  <2>2. w[0].tree = t
    BY ONLY <2>1
  <2>3. 0 \in 0..Len(req)
    BY <1>0
  <2> QED
    BY <2>2, <2>3
<1>4. ASSUME NEW i \in 1..Len(req), i - 1 \in S PROVE i \in S
  <2> DEFINE a == w[i - 1].tree
             d == DoKey(w[i - 1], req[i])
  <2>1. w[i] = d
    BY <1>1, Zenon DEF IsRequest
  <2>2. IsTree(a) /\ Extends(t, a) /\ i - 1 \in 0..Len(req) /\ i \in 0..Len(req)
    BY <1>0, <1>2
  <2>3. n \in 1..Len(a)
    BY <2>2, InnerKept
  <2>4. value(d.tree, n) # value(a, n) => getNode(a, req[i].path) = n
    BY <1>0, <2>2, <2>3, KeyValues
  <2>5. value(a, n) = value(t, n)
    BY <1>4
  <2> HIDE DEF a, d
  <2>6. getNode(a, req[i].path) = n => getNode(t, req[i].path) = n
    BY <1>0, <2>2, GetNodeBack
  <2>7. value(d.tree, n) = value(t, n)
    BY <2>4, <2>5, <2>6
  <2> QED
    BY <2>1, <2>2, <2>7
<1> HIDE DEF S
<1>5. \A i \in 0..Len(req) : i \in S
    BY <1>0, <1>3, <1>4, AllReached
<1>6. Len(req) \in S
    BY <1>0, <1>5
<1> QED
    BY <1>1, <1>6 DEF S

LEMMA OthersKept ==
    ASSUME IsTree(tree)
    PROVE  OthersUntouched
<1> SUFFICES ASSUME NEW req \in PlainRequests, NEW n \in DOMAIN tree,
                    \A i \in DOMAIN req : getNode(tree, req[i].path) # n
             PROVE  value(setmany(tree, req).tree, n) = value(tree, n)
    BY DEF OthersUntouched
<1>1. req \in Seq(Keys) /\ DOMAIN req = 1..Len(req) /\ n \in 1..Len(tree)
    BY TreeAssumption, TreeTypes DEF PlainRequests
<1>2. \A i \in 1..Len(req) : PlainPath(req[i].path)
    BY <1>1 DEF PlainRequests, PlainPath
<1> QED
    BY <1>1, <1>2, RequestLeavesOthers

(* The node of key has the value of key.                                   *)
Readable(s, key) ==
    key.op = "sm" =>
      /\ getNode(s.tree, key.path) # 0
      /\ value(s.tree, getNode(s.tree, key.path)) = key.value

(* A later key leaves it there.                                            *)
LEMMA KeyReads ==
    ASSUME NEW s, IsTree(s.tree), s.ok, NEW key \in Keys, PlainPath(key.path),
           DoKey(s, key).ok, NEW old \in Keys, PlainPath(old.path),
           key.op = "sm" /\ old.op = "sm" /\ key.path = old.path =>
             key.value = old.value,
           Readable(s, old)
    PROVE  Readable(DoKey(s, key), old)
<1> DEFINE d == DoKey(s, key)
           m == getNode(s.tree, old.path)
<1> SUFFICES ASSUME old.op = "sm"
             PROVE  /\ getNode(d.tree, old.path) # 0
                    /\ value(d.tree, getNode(d.tree, old.path)) = old.value
    BY DEF Readable
<1>0. old.path \in Seq(Parts) /\ Len(old.path) \in Nat
        /\ key.path \in Seq(Parts) /\ Len(key.path) \in Nat
    BY DEF Keys
<1>1. m # 0 /\ value(s.tree, m) = old.value
    BY DEF Readable
<1>2. m \in 1..Len(s.tree)
    BY <1>0, <1>1, GetNodeTypes DEF Inner
<1>3. IsTree(d.tree) /\ Extends(s.tree, d.tree)
    BY KeyTree
<1>4. /\ value(d.tree, m) # value(s.tree, m) =>
           key.op = "sm" /\ getNode(s.tree, key.path) = m
      /\ key.op = "sm" => value(d.tree, getNode(d.tree, key.path)) = key.value
    BY <1>2, KeyValues
<1> HIDE DEF d
<1>5. getNode(d.tree, old.path) = m
    BY <1>0, <1>1, <1>3, GetNodeKept
<1>6. CASE value(d.tree, m) = value(s.tree, m)
    BY <1>1, <1>5, <1>6
<1>7. CASE value(d.tree, m) # value(s.tree, m)
  <2>1. key.op = "sm" /\ getNode(s.tree, key.path) = m
    BY <1>4, <1>7
  <2>2. key.path = old.path
    <3>1. CASE Len(key.path) <= Len(old.path)
      BY <1>0, <1>1, <2>1, <3>1, PathOfNode
    <3>2. CASE Len(old.path) <= Len(key.path)
      BY <1>0, <1>1, <2>1, <3>2, PathOfNode
    <3> QED
      BY <1>0, <3>1, <3>2
  <2>3. key.value = old.value
    BY <2>1, <2>2
  <2> QED
    BY <1>1, <1>4, <1>5, <2>1, <2>2, <2>3
<1> QED
    BY <1>6, <1>7

(* After a request that ended without an error every value is there.       *)
LEMMA RequestReads ==
    ASSUME NEW t, IsTree(t), NEW req \in Seq(Keys),
           \A i \in 1..Len(req) : PlainPath(req[i].path),
           \A i, j \in 1..Len(req) :
             req[i].op = "sm" /\ req[j].op = "sm" /\ req[i].path = req[j].path =>
               req[i].value = req[j].value,
           setmany(t, req).ok
    PROVE  \A i \in 1..Len(req) : Readable(setmany(t, req), req[i])
<1>0. Len(req) \in Nat /\ \A i \in 1..Len(req) : req[i] \in Keys
    OBVIOUS
<1>1. PICK w : IsRequest(w, t, req) /\ setmany(t, req) = w[Len(req)]
    BY <1>0, RequestOf
<1>2. \A i \in 0..Len(req) : IsTree(w[i].tree)
    BY <1>1, RequestTypes
<1> DEFINE S == {i \in 0..Len(req) :
                   w[i].ok => \A j \in 1..i : Readable(w[i], req[j])}
<1>3. 0 \in S
    BY <1>0
<1>4. ASSUME NEW i \in 1..Len(req), i - 1 \in S PROVE i \in S
  <2> DEFINE a == w[i - 1]
             d == DoKey(a, req[i])
  <2>0. i - 1 \in 0..Len(req) /\ i \in 0..Len(req)
    BY <1>0
  <2>1. w[i] = d
    BY <1>1, Zenon DEF IsRequest
  <2>2. IsTree(a.tree) /\ req[i] \in Keys /\ PlainPath(req[i].path)
    BY <1>0, <1>2, <2>0
  <2>3. a.ok => \A j \in 1..(i - 1) : Readable(a, req[j])
    BY <1>4
  <2> SUFFICES ASSUME d.ok PROVE \A j \in 1..i : Readable(d, req[j])
    BY <2>0, <2>1
  <2>4. a.ok
    BY <2>2, KeyTree
  <2>5. \A j \in 1..(i - 1) : Readable(d, req[j])
    <3> TAKE j \in 1..(i - 1)
    <3>1. j \in 1..Len(req)
      BY <1>0
    <3>2. Readable(a, req[j]) /\ req[j] \in Keys /\ PlainPath(req[j].path)
      BY <1>0, <2>3, <2>4, <3>1
    <3>3. req[i].op = "sm" /\ req[j].op = "sm" /\ req[i].path = req[j].path =>
            req[i].value = req[j].value
      BY <3>1
    <3> QED
      BY <2>2, <2>4, <3>2, <3>3, KeyReads
  <2>6. Readable(d, req[i])
    BY <2>2, <2>4, KeyValues DEF Readable
  <2> HIDE DEF d
  <2> QED
    BY <1>0, <2>5, <2>6
<1> HIDE DEF S
<1>5. \A i \in 0..Len(req) : i \in S
    BY <1>0, <1>3, <1>4, AllReached
<1>6. Len(req) \in S
    BY <1>0, <1>5
<1> QED
    BY <1>1, <1>6 DEF S

LEMMA ValuesRead ==
    ASSUME IsTree(tree), OneValuePerPath
    PROVE  ReadBack
<1> SUFFICES ASSUME NEW req \in PlainRequests, setmany(tree, req).ok,
                    NEW i \in DOMAIN req, req[i].op = "sm"
             PROVE  value(setmany(tree, req).tree,
                          getNode(setmany(tree, req).tree, req[i].path))
                      = req[i].value
    BY DEF ReadBack
<1>1. req \in Seq(Keys) /\ DOMAIN req = 1..Len(req)
    BY TreeAssumption DEF PlainRequests
<1>2. \A j \in 1..Len(req) : PlainPath(req[j].path)
    BY <1>1 DEF PlainRequests, PlainPath
<1>3. \A j, k \in 1..Len(req) :
        req[j].op = "sm" /\ req[k].op = "sm" /\ req[j].path = req[k].path =>
          req[j].value = req[k].value
    BY <1>1 DEF OneValuePerPath
<1>4. Readable(setmany(tree, req), req[i])
    BY <1>1, <1>2, <1>3, RequestReads
<1> QED
    BY <1>4 DEF Readable

-------------------------------------------------------------------------------
(* Numbers of what is left.                                                *)

Below(S, i) == {j \in S : j <= i}

LEMMA BelowFinite ==
    ASSUME NEW S, S \subseteq Nat, IsFiniteSet(S)
    PROVE  /\ Cardinality(S) \in Nat
           /\ \A i : /\ IsFiniteSet(Below(S, i))
                     /\ Cardinality(Below(S, i)) \in 0..Cardinality(S)
                     /\ Renumbered(S, i) = Cardinality(Below(S, i))
<1>1. Cardinality(S) \in Nat
    BY FS_CardinalityType
<1>2. ASSUME NEW i
      PROVE  /\ IsFiniteSet(Below(S, i))
             /\ Cardinality(Below(S, i)) \in 0..Cardinality(S)
             /\ Renumbered(S, i) = Cardinality(Below(S, i))
  <2>1. Below(S, i) \in SUBSET S /\ Renumbered(S, i) = Cardinality(Below(S, i))
    BY DEF Below, Renumbered
  <2>2. IsFiniteSet(Below(S, i)) /\ Cardinality(Below(S, i)) <= Cardinality(S)
    BY <2>1, FS_Subset
  <2>3. Cardinality(Below(S, i)) \in Nat
    BY <2>2, FS_CardinalityType
  <2> QED
    BY <1>1, <2>1, <2>2, <2>3
<1> QED
    BY <1>1, <1>2

(* The numbering keeps the order, strictly where something is left.        *)
LEMMA RenumberOrder ==
    ASSUME NEW S, S \subseteq Nat, IsFiniteSet(S),
           NEW i \in Nat, NEW k \in Nat, i <= k
    PROVE  /\ Renumbered(S, i) <= Renumbered(S, k)
           /\ k \in S /\ i # k => Renumbered(S, i) < Renumbered(S, k)
<1> DEFINE A == Below(S, i)
           B == Below(S, k)
<1>1. /\ IsFiniteSet(A) /\ IsFiniteSet(B) /\ Cardinality(A) \in Nat
      /\ Cardinality(B) \in Nat
      /\ Renumbered(S, i) = Cardinality(A) /\ Renumbered(S, k) = Cardinality(B)
  <2>1. \A c \in Nat : IsFiniteSet(Below(S, c)) /\ Cardinality(Below(S, c)) \in Nat
                       /\ Renumbered(S, c) = Cardinality(Below(S, c))
    <3> TAKE c \in Nat
    <3>1. /\ Cardinality(S) \in Nat /\ IsFiniteSet(Below(S, c))
          /\ Cardinality(Below(S, c)) \in 0..Cardinality(S)
          /\ Renumbered(S, c) = Cardinality(Below(S, c))
      BY BelowFinite
    <3> QED
      BY <3>1
  <2> QED
    BY <2>1
<1>2. A \in SUBSET B
  <2>1. \A j \in S : j <= i => j <= k
    OBVIOUS
  <2> QED
    BY <2>1, Zenon DEF Below
<1>3. k \in S /\ i # k => k \in B /\ k \notin A
    BY DEF Below
<1> HIDE DEF A, B
<1>4. Cardinality(A) <= Cardinality(B) /\ (Cardinality(B) = Cardinality(A) => B = A)
    BY <1>1, <1>2, FS_Subset
<1>5. k \in S /\ i # k => Cardinality(B) # Cardinality(A)
    BY <1>3, <1>4
<1> QED
    BY <1>1, <1>4, <1>5

(* One step on.                                                            *)
LEMMA RenumberNext ==
    ASSUME NEW S, S \subseteq Nat, IsFiniteSet(S), NEW i \in Nat, i > 0
    PROVE  Renumbered(S, i) = IF i \in S THEN Renumbered(S, i - 1) + 1
                              ELSE Renumbered(S, i - 1)
<1> DEFINE A == Below(S, i - 1)
           B == Below(S, i)
<1>1. /\ IsFiniteSet(A)
      /\ Renumbered(S, i - 1) = Cardinality(A) /\ Renumbered(S, i) = Cardinality(B)
    BY BelowFinite
<1>2. B = IF i \in S THEN A \cup {i} ELSE A
  <2>1. \A j \in S : j <= i <=> j <= i - 1 \/ j = i
    OBVIOUS
  <2>2. \A j : j \in B <=> j \in S /\ (j <= i - 1 \/ j = i)
    BY <2>1, Zenon DEF Below
  <2>3. \A j : j \in A <=> j \in S /\ j <= i - 1
    BY Zenon DEF Below
  <2> HIDE DEF A, B
  <2> QED
    BY <2>2, <2>3
<1>3. i \notin A
    BY DEF Below
<1> HIDE DEF A, B
<1>4. Cardinality(A \cup {i}) = Cardinality(A) + 1
    BY <1>1, <1>3, FS_AddElement
<1> QED
    BY <1>1, <1>2, <1>4

(* What is left is numbered 1, 2 and so on to its number.                  *)
LEMMA RenumberOnto ==
    ASSUME NEW n \in Nat, NEW S, S \subseteq 1..n
    PROVE  /\ IsFiniteSet(S) /\ S \subseteq Nat /\ Cardinality(S) \in Nat
           /\ Renumbered(S, 0) = 0
           /\ \A i \in S : Renumbered(S, i) \in 1..Cardinality(S)
           /\ \A i, k \in S : i < k <=> Renumbered(S, i) < Renumbered(S, k)
           /\ \A i \in S : Original(S, Renumbered(S, i)) = i
           /\ \A k \in 1..Cardinality(S) :
                Original(S, k) \in S /\ Renumbered(S, Original(S, k)) = k
<1> DEFINE R(i) == Renumbered(S, i)
<1>1. IsFiniteSet(S) /\ S \subseteq Nat
  <2>1. IsFiniteSet(1..n) /\ S \in SUBSET (1..n)
    BY FS_Interval
  <2>2. IsFiniteSet(S)
    BY <2>1, FS_Subset, Zenon
  <2> QED
    BY <2>2
<1>2. Cardinality(S) \in Nat /\ \A i : R(i) \in 0..Cardinality(S)
    BY <1>1, BelowFinite
<1>3. R(0) = 0
  <2>1. Below(S, 0) = {}
    <3>1. \A j \in S : ~(j <= 0)
      OBVIOUS
    <3> QED
      BY <3>1, Zenon DEF Below
  <2> QED
    BY <1>1, <2>1, BelowFinite, FS_EmptySet
<1>4. R(n) = Cardinality(S)
  <2>1. Below(S, n) = S
    <3>1. \A j \in S : j <= n
      OBVIOUS
    <3> QED
      BY <3>1, Zenon DEF Below
  <2> QED
    BY <1>1, <2>1, BelowFinite
<1>5. \A i, k \in Nat : i < k /\ k \in S => R(i) < R(k)
  <2> TAKE i, k \in Nat
  <2>1. i < k => i <= k /\ i # k
    OBVIOUS
  <2> QED
    BY <1>1, <2>1, RenumberOrder, Zenon
<1>6. \A i \in 1..n : R(i) = IF i \in S THEN R(i - 1) + 1 ELSE R(i - 1)
  <2> TAKE i \in 1..n
  <2>1. i \in Nat /\ i > 0
    OBVIOUS
  <2> QED
    BY <1>1, <2>1, RenumberNext, Zenon
<1> HIDE DEF R
<1>7. \A i \in S : R(i) \in 1..Cardinality(S)
    BY <1>1, <1>2, <1>3, <1>5
<1>8. \A i, k \in S : i < k <=> R(i) < R(k)
    BY <1>1, <1>2, <1>5
<1>9. \A k \in 1..Cardinality(S) : \E i \in S : R(i) = k
  <2> DEFINE Q(i) == \A k \in 1..R(i) : \E j \in S : R(j) = k
             T == {i \in 0..n : Q(i)}
  <2>1. 0 \in T
    BY <1>3
  <2>2. ASSUME NEW i \in 1..n, i - 1 \in T PROVE i \in T
    <3>1. \A k \in 1..R(i - 1) : \E j \in S : R(j) = k
      BY <2>2
    <3>2. R(i - 1) \in Nat
      BY <1>2
    <3>3. CASE i \in S
      BY <1>6, <3>1, <3>2, <3>3
    <3>4. CASE i \notin S
      BY <1>6, <3>1, <3>4
    <3> QED
      BY <3>3, <3>4
  <2> HIDE DEF T
  <2>3. \A i \in 0..n : i \in T
    BY <2>1, <2>2, AllReached
  <2>4. n \in T
    BY <2>3
  <2> QED
    BY <1>4, <2>4 DEF T
<1>10. \A k \in 1..Cardinality(S) : Original(S, k) \in S /\ R(Original(S, k)) = k
    BY <1>9 DEF Original, R
<1>11. \A i \in S : Original(S, R(i)) = i
  <2> TAKE i \in S
  <2> DEFINE o == Original(S, R(i))
  <2>1. o \in S /\ R(o) = R(i)
    BY <1>7, <1>10
  <2> HIDE DEF o
  <2>2. o \in Nat /\ i \in Nat /\ R(i) \in Nat
    BY <1>1, <1>2, <2>1
  <2>3. ~(o < i) /\ ~(i < o)
    BY <1>8, <2>1, <2>2
  <2> QED
    BY <2>2, <2>3 DEF o
<1> QED
    BY <1>1, <1>2, <1>3, <1>7, <1>8, <1>10, <1>11 DEF R

-------------------------------------------------------------------------------
(* The tree that is read again.                                            *)

LEMMA RunTypes ==
    ASSUME NEW t, IsTree(t), NEW i \in 1..Len(t), IsText(t, i)
    PROVE  /\ i \in Run(t, i) /\ Run(t, i) \subseteq Kids(t, t[i].parent)
           /\ Run(t, i) \subseteq 1..Len(t) /\ Run(t, i) \subseteq Nat
           /\ \A j \in Run(t, i) : IsText(t, j) /\ t[j].text \in Text
<1>0. Len(t) \in Nat /\ DOMAIN t = 1..Len(t)
    BY TreeTypes
<1>1. Run(t, i) \subseteq Kids(t, t[i].parent)
    BY DEF Run
<1>2. Kids(t, t[i].parent) \subseteq 1..Len(t) /\ i \in Kids(t, t[i].parent)
    BY <1>0 DEF Kids
<1>3. \A j \in 1..Len(t) : IsText(t, j) => t[j].text \in Text
  <2> TAKE j \in 1..Len(t)
  <2> HAVE IsText(t, j)
  <2>1. t[j] \in Nodes
    BY TreeTypes
  <2>2. j # 1 /\ j \in 2..Len(t)
    BY <1>0 DEF IsTree, IsText
  <2>3. t[j].text # Nil
    BY <2>2 DEF IsTree, IsText
  <2> QED
    BY <2>1, <2>3 DEF Nodes
<1>4. \A j \in Run(t, i) : IsText(t, j)
  <2> TAKE j \in Run(t, i)
  <2>1. j \in Kids(t, t[i].parent) /\ j \in Nat /\ i \in Nat
    BY <1>0, <1>1, <1>2
  <2>2. (i <= j /\ j <= j) \/ (j <= j /\ j <= i)
    BY <2>1
  <2> QED
    BY <2>1, <2>2, Zenon DEF Run
<1>5. i \in Run(t, i)
  <2>1. \A k \in Kids(t, t[i].parent) : (i <= k /\ k <= i) => k = i
    BY <1>0, <1>2
  <2> QED
    BY <1>2, <2>1, Zenon DEF Run
<1> QED
    BY <1>0, <1>1, <1>2, <1>3, <1>4, <1>5

LEMMA KeptTypes ==
    ASSUME NEW t, IsTree(t)
    PROVE  /\ KeptNodes(t) \subseteq 1..Len(t) /\ KeptNodes(t) \subseteq Nat
           /\ IsFiniteSet(KeptNodes(t)) /\ Cardinality(KeptNodes(t)) \in Nat
           /\ Inner(t) \subseteq KeptNodes(t) /\ 1 \in KeptNodes(t)
           /\ Renumbered(KeptNodes(t), 0) = 0 /\ Renumbered(KeptNodes(t), 1) = 1
<1> DEFINE kept == KeptNodes(t)
<1>0. Len(t) \in Nat /\ DOMAIN t = 1..Len(t) /\ 1 \in Inner(t)
    BY TreeTypes
<1>1. kept \subseteq 1..Len(t)
    BY <1>0 DEF KeptNodes
<1>2. Inner(t) \subseteq kept
    BY <1>0 DEF KeptNodes, Kept, IsText, Inner
<1>3. 1 \in kept
    BY <1>0, <1>2
<1> HIDE DEF kept
<1>4. IsFiniteSet(kept) /\ kept \subseteq Nat /\ Cardinality(kept) \in Nat
        /\ Renumbered(kept, 0) = 0
    BY <1>0, <1>1, RenumberOnto
<1>5. Renumbered(kept, 1) = Renumbered(kept, 1 - 1) + 1
  <2>1. 1 \in Nat /\ 1 > 0
    OBVIOUS
  <2> QED
    BY <1>3, <1>4, <2>1, RenumberNext, Zenon
<1>6. Renumbered(kept, 1) = 1
    BY <1>4, <1>5
<1> QED
    BY <1>1, <1>2, <1>3, <1>4, <1>6 DEF kept

(* Texts and comments have a text.                                         *)
LEMMA TextTypes ==
    ASSUME NEW t, IsTree(t), NEW i \in 1..Len(t),
           t[i].kind \in {"TEXT", "COMMENT"}
    PROVE  i \in 2..Len(t) /\ t[i].text \in Text /\ t[i].text # Nil
<1>1. t[i] \in Nodes /\ Len(t) \in Nat /\ i # 1
    BY TreeTypes DEF IsTree
<1>2. i \in 2..Len(t)
    BY <1>1
<1>3. t[i].text # Nil
    BY <1>2 DEF IsTree
<1> QED
    BY <1>1, <1>2, <1>3 DEF Nodes

LEMMA ReadTypes ==
    ASSUME NEW kind \in {"TEXT", "COMMENT", "ATTR"}, NEW x \in Text
    PROVE  Read[kind][x] \in Text /\ Read[kind][x] # Nil
<1>1. Read[kind] \in [Text -> Text] /\ Nil \notin Text
    BY TreeAssumption
<1> QED
    BY <1>1

(* The text a node comes back with is one exactly when it was one, and its *)
(* name and attributes are of their types.                                 *)
LEMMA LoadedTypes ==
    ASSUME NEW t, IsTree(t), NEW i \in KeptNodes(t)
    PROVE  /\ LoadedText(t, i) \in Text \cup {Nil}
           /\ LoadedText(t, i) = Nil <=> t[i].text = Nil
           /\ LoadedName(t, i) \in Name \cup {Nil}
           /\ LoadedAttr(t, i) \in Attrs \cup {Nil}
<1>0. i \in 1..Len(t) /\ t[i] \in Nodes
    BY KeptTypes, TreeTypes
<1>1. Joined \in Text /\ Joined # Nil
    BY TreeAssumption
<1>2. t[i].text \in Text \cup {Nil}
    BY <1>0 DEF Nodes
<1>3. LoadedName(t, i) \in Name \cup {Nil}
  <2>1. t[i].name \in Name \cup {Nil} /\ ReadName \in [Name -> Name \cup {Nil}]
    BY <1>0, TreeAssumption DEF Nodes
  <2> QED
    BY <2>1 DEF LoadedName
<1>4. LoadedAttr(t, i) \in Attrs \cup {Nil}
  <2>1. CASE t[i].attr \in {Nil, NoAttr}
    BY <2>1 DEF LoadedAttr
  <2>2. CASE t[i].attr \notin {Nil, NoAttr}
    <3>1. t[i].attr \in Attrs
      BY <1>0, <2>2 DEF Nodes
    <3>2. ASSUME NEW a \in AttrName
          PROVE  (IF t[i].attr[a] = Nil THEN Nil ELSE Read["ATTR"][t[i].attr[a]])
                    \in Text \cup {Nil}
      <4>1. t[i].attr[a] \in Text \cup {Nil}
        BY <3>1 DEF Attrs
      <4> QED
        BY <4>1, ReadTypes
    <3> QED
      BY <2>2, <3>2 DEF LoadedAttr, Attrs
  <2> QED
    BY <2>1, <2>2
<1>5. CASE t[i].kind = "COMMENT"
  <2>1. LoadedText(t, i) = Read["COMMENT"][t[i].text]
    BY <1>5 DEF LoadedText
  <2>2. t[i].text \in Text /\ t[i].text # Nil
    BY <1>0, <1>5, TextTypes
  <2>3. Read["COMMENT"][t[i].text] \in Text /\ Read["COMMENT"][t[i].text] # Nil
    BY <2>2, ReadTypes
  <2> QED
    BY <1>3, <1>4, <2>1, <2>2, <2>3
<1>6. CASE t[i].kind # "COMMENT" /\ ~IsText(t, i)
    BY <1>2, <1>3, <1>4, <1>6 DEF LoadedText
<1>7. CASE IsText(t, i)
  <2> DEFINE full == {j \in Run(t, i) : ~Blank(t[j].text)}
  <2>1. t[i].text # Nil /\ \A j \in Run(t, i) : t[j].text \in Text
    BY <1>0, <1>7, RunTypes, TextTypes DEF IsText
  <2>2. full \subseteq Nat /\ full # {}
    BY <1>0, <1>7, RunTypes DEF KeptNodes, Kept
  <2>3. Min(full) \in full
    BY <2>2, LeastOf
  <2>4. t[Min(full)].text \in Text
    BY <2>1, <2>3
  <2>5. LoadedText(t, i) \in {Read["TEXT"][t[Min(full)].text], Joined}
    BY <1>7 DEF LoadedText, IsText
  <2> HIDE DEF full
  <2>6. Read["TEXT"][t[Min(full)].text] \in Text
          /\ Read["TEXT"][t[Min(full)].text] # Nil
    BY <2>4, ReadTypes
  <2> QED
    BY <1>1, <1>3, <1>4, <2>1, <2>5, <2>6
<1> QED
    BY <1>5, <1>6, <1>7

(* What becomes of a node, under the number it gets.                       *)
LEMMA NodeReloaded ==
    ASSUME NEW t, IsTree(t), NEW i \in KeptNodes(t)
    PROVE  LET kept == KeptNodes(t)
               k == Renumbered(kept, i)
           IN  /\ k \in 1..Cardinality(kept) /\ Original(kept, k) = i
               /\ Reloaded(t)[k] =
                    Node(Renumbered(kept, t[i].parent), t[i].kind,
                         LoadedName(t, i), LoadedText(t, i), LoadedAttr(t, i))
<1> DEFINE kept == KeptNodes(t)
           k == Renumbered(kept, i)
<1>0. Len(t) \in Nat /\ kept \subseteq 1..Len(t)
    BY KeptTypes, TreeTypes
<1>1. k \in 1..Cardinality(kept) /\ Original(kept, k) = i
  <2> HIDE DEF kept
  <2>1. i \in kept
    BY DEF kept
  <2> QED
    BY <1>0, <2>1, RenumberOnto
<1> QED
    BY <1>1, Zenon DEF Reloaded

(* The parent of a node that is left is left, before it.                   *)
LEMMA ParentKept ==
    ASSUME NEW t, IsTree(t), NEW i \in KeptNodes(t), i # 1
    PROVE  LET kept == KeptNodes(t) IN
           /\ i \in 2..Len(t) /\ t[i].parent \in Inner(t)
           /\ t[i].parent \in kept
           /\ Renumbered(kept, i) \in 2..Cardinality(kept)
           /\ Renumbered(kept, t[i].parent) \in 1..(Renumbered(kept, i) - 1)
<1> DEFINE kept == KeptNodes(t)
           q == t[i].parent
<1>0. Len(t) \in Nat /\ kept \subseteq 1..Len(t) /\ Inner(t) \subseteq kept
        /\ Cardinality(kept) \in Nat
    BY KeptTypes, TreeTypes
<1>1. i \in 2..Len(t)
    BY <1>0
<1>2. q \in 1..(i - 1) /\ t[q].kind \in {"ROOT", "ELEMENT"}
    BY <1>1 DEF IsTree
<1> HIDE DEF q
<1>3. q \in Inner(t) /\ q \in kept /\ q < i
    BY <1>0, <1>1, <1>2 DEF Inner
<1>4. i \in kept
    OBVIOUS
<1> HIDE DEF kept
<1>5. /\ Renumbered(kept, q) \in 1..Cardinality(kept)
      /\ Renumbered(kept, i) \in 1..Cardinality(kept)
      /\ Renumbered(kept, q) < Renumbered(kept, i)
    BY <1>0, <1>3, <1>4, RenumberOnto
<1>6. /\ Renumbered(kept, i) \in 2..Cardinality(kept)
      /\ Renumbered(kept, q) \in 1..(Renumbered(kept, i) - 1)
    BY <1>0, <1>5
<1> QED
    BY <1>1, <1>3, <1>6 DEF q, kept

(* The tree that is read again is one.                                     *)
LEMMA ReloadTree ==
    ASSUME NEW t, IsTree(t)
    PROVE  IsTree(Reloaded(t)) /\ Len(Reloaded(t)) = Cardinality(KeptNodes(t))
<1> DEFINE kept == KeptNodes(t)
           r == Reloaded(t)
           c == Cardinality(kept)
           R(i) == Renumbered(kept, i)
<1>0. /\ Len(t) \in Nat /\ kept \subseteq 1..Len(t) /\ 1 \in kept /\ c \in Nat
      /\ R(0) = 0 /\ R(1) = 1 /\ \A i \in 1..Len(t) : t[i] \in Nodes
    BY KeptTypes, TreeTypes
<1>1. \A k \in 1..c : \E i \in kept : R(i) = k
  <2> HIDE DEF kept
  <2>1. \A k \in 1..Cardinality(kept) :
          Original(kept, k) \in kept /\ Renumbered(kept, Original(kept, k)) = k
    BY <1>0, RenumberOnto
  <2> QED
    BY <2>1
<1>2. ASSUME NEW i \in kept
      PROVE  /\ r[R(i)] \in Nodes /\ r[R(i)].parent = R(t[i].parent)
             /\ r[R(i)].kind = t[i].kind
             /\ r[R(i)].text = Nil <=> t[i].text = Nil
             /\ R(i) \in 1..c
  <2>0. t[i] \in Nodes
    BY <1>0, <1>2
  <2>1. /\ R(i) \in 1..c
        /\ r[R(i)] = Node(R(t[i].parent), t[i].kind, LoadedName(t, i),
                          LoadedText(t, i), LoadedAttr(t, i))
    BY <1>2, NodeReloaded, Zenon
  <2>2. /\ LoadedText(t, i) \in Text \cup {Nil}
        /\ LoadedText(t, i) = Nil <=> t[i].text = Nil
        /\ LoadedName(t, i) \in Name \cup {Nil}
        /\ LoadedAttr(t, i) \in Attrs \cup {Nil}
    BY <1>2, LoadedTypes
  <2>3. R(t[i].parent) \in Nat
    <3> HIDE DEF kept
    <3>1. IsFiniteSet(kept) /\ kept \subseteq Nat /\ Cardinality(kept) \in Nat
      BY KeptTypes DEF kept
    <3>2. /\ Cardinality(Below(kept, t[i].parent)) \in 0..Cardinality(kept)
          /\ Renumbered(kept, t[i].parent) = Cardinality(Below(kept, t[i].parent))
      BY <3>1, BelowFinite
    <3> QED
      BY <3>1, <3>2
  <2> HIDE DEF R, r
  <2> QED
    BY <2>0, <2>1, <2>2, <2>3 DEF Node, Nodes
<1>3. r \in [1..c -> Nodes]
  <2>1. r = [k \in 1..c |-> r[k]]
    BY DEF Reloaded
  <2> HIDE DEF r, R, c, kept
  <2>2. \A k \in 1..c : r[k] \in Nodes
    BY <1>1, <1>2
  <2> QED
    BY <2>1, <2>2
<1> HIDE DEF r, c
<1>4. r \in Seq(Nodes) /\ Len(r) = c
    BY <1>0, <1>3
<1>5. r[1].kind = "ROOT" /\ r[1].parent = 0 /\ Len(r) > 0
  <2>1. r[R(1)].parent = R(t[1].parent) /\ r[R(1)].kind = t[1].kind /\ R(1) \in 1..c
    BY <1>0, <1>2
  <2>2. t[1].kind = "ROOT" /\ t[1].parent = 0
    BY DEF IsTree
  <2> QED
    BY <1>0, <1>4, <2>1, <2>2
<1>6. ASSUME NEW k \in 2..c
      PROVE  /\ r[k].parent \in 1..(k - 1)
             /\ r[r[k].parent].kind \in {"ROOT", "ELEMENT"}
             /\ r[k].kind # "ROOT"
             /\ r[k].text = Nil <=> r[k].kind = "ELEMENT"
  <2>1. PICK i \in kept : R(i) = k
    BY <1>0, <1>1
  <2>2. i # 1
    BY <1>0, <2>1
  <2>3. i \in 2..Len(t) /\ t[i].parent \in Inner(t) /\ t[i].parent \in kept
          /\ R(t[i].parent) \in 1..(k - 1)
    BY <2>1, <2>2, ParentKept
  <2>4. t[i].kind # "ROOT" /\ (t[i].text = Nil <=> t[i].kind = "ELEMENT")
    BY <2>3 DEF IsTree
  <2>5. /\ r[k].parent = R(t[i].parent) /\ r[k].kind = t[i].kind
        /\ r[k].text = Nil <=> t[i].text = Nil
    BY <1>2, <2>1
  <2>6. r[R(t[i].parent)].kind = t[t[i].parent].kind
    BY <1>2, <2>3
  <2>7. t[t[i].parent].kind \in {"ROOT", "ELEMENT"}
    BY <2>3 DEF Inner
  <2> HIDE DEF R
  <2> QED
    BY <2>3, <2>4, <2>5, <2>6, <2>7
<1> QED
    BY <1>4, <1>5, <1>6 DEF IsTree, r, c

(* The start writes the board's information into a tree.                   *)
LEMMA UpdatedTree ==
    ASSUME NEW t, IsTree(t), NEW info \in BoardInfo
    PROVE  IsTree(Updated(t, info))
<1> DEFINE r == getOrCreateNode(t, InfoPath)
           s == IF info = Nil THEN r.tree ELSE setValue(r.tree, r.node, info)
<1>0. InfoPath \in Seq(Parts) /\ NoData \in Text /\ (info # Nil => info \in Text)
    BY TreeAssumption
<1>1. IsTree(r.tree) /\ r.node \in Inner(r.tree)
    BY <1>0, GetOrCreateTree
<1>2. Updated(t, info) = IF value(s, r.node) = Nil
                         THEN setValue(s, r.node, NoData) ELSE s
    BY Zenon DEF Updated
<1> HIDE DEF r
<1>3. IsTree(s) /\ r.node \in Inner(s)
    BY <1>0, <1>1, SetValueTree, InnerKept
<1> HIDE DEF s
<1>4. IsTree(setValue(s, r.node, NoData))
    BY <1>0, <1>3, SetValueTree
<1> QED
    BY <1>2, <1>3, <1>4

LEMMA StartTree ==
    ASSUME NEW t, IsTree(t), NEW info \in BoardInfo, Start(t, info)
    PROVE  TypeOK'
<1>1. IsTree(Updated(Reloaded(t), info))
    BY ReloadTree, UpdatedTree
<1>2. tree' \in {Updated(Reloaded(t), info), t}
    BY DEF Start
<1>3. up' \in BOOLEAN
    BY DEF Start
<1>4. IsTree(tree')
    BY <1>1, <1>2
<1> QED
    BY <1>3, <1>4 DEF TypeOK

(* Init, requests, starts and restores make trees, of any default          *)
(* configuration and any requests.                                         *)
THEOREM TreeTypeCorrect == Spec => []TypeOK
<1>1. Init => TypeOK
  <2> SUFFICES ASSUME Init PROVE TypeOK
    OBVIOUS
  <2>1. PICK info \in BoardInfo : tree = Updated(Default, info)
    BY DEF Init
  <2>2. IsTree(tree)
    BY <2>1, TreeAssumption, UpdatedTree
  <2> QED
    BY <2>2 DEF Init, TypeOK
<1>2. TypeOK /\ [Next]_vars => TypeOK'
  <2> SUFFICES ASSUME TypeOK, [Next]_vars PROVE TypeOK'
    OBVIOUS
  <2>0. IsTree(tree) /\ up \in BOOLEAN
    BY DEF TypeOK
  <2>1. ASSUME NEW req \in Requests, SetMany(req) PROVE TypeOK'
    <3>1. req \in Seq(Keys)
      BY TreeAssumption
    <3>2. IsTree(setmany(tree, req).tree)
      BY <2>0, <3>1, SetmanyTree
    <3>3. IsTree(tree')
      BY <2>1, <3>2 DEF SetMany
    <3> QED
      BY <2>0, <2>1, <3>3 DEF SetMany, TypeOK
  <2>2. ASSUME NEW req \in Requests, Len(req) = 1, Set(req[1]) PROVE TypeOK'
    <3> DEFINE n == getNode(tree, req[1].path)
    <3>1. req[1] \in Keys
      <4>1. req \in Seq(Keys) /\ 1 \in 1..Len(req)
        BY <2>2, TreeAssumption
      <4> QED
        BY <4>1
    <3>2. req[1].value \in Text /\ Len(req[1].path) \in Nat
      BY <3>1 DEF Keys
    <3>3. n \in Inner(tree)
      <4>1. n \in Inner(tree) \cup {0}
        BY <2>0, <3>2, GetNodeTypes
      <4>2. n # 0
        BY <2>2 DEF Set
      <4> QED
        BY <4>1, <4>2
    <3>4. IsTree(setValue(tree, n, req[1].value))
      BY <2>0, <3>2, <3>3, SetValueTree
    <3>5. IsTree(tree')
      BY <2>2, <3>4 DEF Set
    <3> QED
      BY <2>0, <2>2, <3>5 DEF Set, TypeOK
  <2>3. ASSUME NEW info \in BoardInfo, SaveAndRestart(info) PROVE TypeOK'
    BY <2>0, <2>3, StartTree DEF SaveAndRestart
  <2>4. ASSUME NEW info \in BoardInfo, Restore(info) PROVE TypeOK'
    <3>1. IsTree(Updated(Default, info))
      BY TreeAssumption, UpdatedTree
    <3> QED
      BY <2>4, <3>1 DEF Restore, TypeOK
  <2>5. CASE UNCHANGED vars
    BY <2>5 DEF TypeOK, vars
  <2> QED
    BY <2>1, <2>2, <2>3, <2>4, <2>5, Zenon DEF Next
<1> QED
    BY <1>1, <1>2, PTL DEF Spec

(* In every state, whatever a request creates, every path that led to a    *)
(* node leads to the same node afterwards (conf.lua:102).                  *)
THEOREM PathsAreStable == Spec => []PathsStable
<1>1. TypeOK => PathsStable
    BY RequestKeepsPaths DEF TypeOK
<1> QED
    BY <1>1, TreeTypeCorrect, PTL

(* In every state a request without indexes, also one that ends with an    *)
(* error, changes no value but those it names (cmd.xml:56, node.lua:41).   *)
THEOREM OthersAreUntouched == Spec => []OthersUntouched
<1>1. TypeOK => OthersUntouched
    BY OthersKept DEF TypeOK
<1> QED
    BY <1>1, TreeTypeCorrect, PTL

(* In every state, after a request without indexes that ended without an   *)
(* error, each value is found where it was set, in whatever order the keys *)
(* came and however their paths overlap (cmd.xml:30, 56): as long as no    *)
(* path is given two values.                                               *)
THEOREM RequestsReadBack ==
    ASSUME OneValuePerPath
    PROVE  Spec => []ReadBack
<1>1. TypeOK => ReadBack
    BY ValuesRead DEF TypeOK
<1> QED
    BY <1>1, TreeTypeCorrect, PTL

-------------------------------------------------------------------------------
(* What saving and reading keeps.                                          *)

(* The number under which node i comes back.                               *)
Num(t, i) == Renumbered(KeptNodes(t), i)

LEMMA NumFacts ==
    ASSUME NEW t, IsTree(t)
    PROVE  /\ Num(t, 0) = 0 /\ Num(t, 1) = 1
           /\ \A i \in KeptNodes(t) : Num(t, i) \in 1..Len(Reloaded(t))
           /\ \A i, k \in KeptNodes(t) : i < k <=> Num(t, i) < Num(t, k)
           /\ \A i, k \in KeptNodes(t) : Num(t, i) = Num(t, k) => i = k
           /\ \A k \in 1..Len(Reloaded(t)) : \E i \in KeptNodes(t) : Num(t, i) = k
<1> DEFINE kept == KeptNodes(t)
<1>1. Len(t) \in Nat /\ kept \subseteq 1..Len(t)
        /\ Num(t, 0) = 0 /\ Num(t, 1) = 1
        /\ Len(Reloaded(t)) = Cardinality(kept)
    BY KeptTypes, TreeTypes, ReloadTree DEF Num
<1> HIDE DEF kept
<1>2. /\ kept \subseteq Nat /\ Cardinality(kept) \in Nat
      /\ \A i \in kept : Renumbered(kept, i) \in 1..Cardinality(kept)
      /\ \A i, k \in kept : i < k <=> Renumbered(kept, i) < Renumbered(kept, k)
      /\ \A k \in 1..Cardinality(kept) :
           Original(kept, k) \in kept /\ Renumbered(kept, Original(kept, k)) = k
    BY <1>1, RenumberOnto
<1>3. \A i, k \in kept : Renumbered(kept, i) = Renumbered(kept, k) => i = k
  <2> TAKE i, k \in kept
  <2> HAVE Renumbered(kept, i) = Renumbered(kept, k)
  <2>1. ~(i < k) /\ ~(k < i) /\ i \in Nat /\ k \in Nat
    BY <1>2
  <2> QED
    BY <2>1
<1>4. \A k \in 1..Cardinality(kept) : \E i \in kept : Renumbered(kept, i) = k
    BY <1>2
<1> QED
    BY <1>1, <1>2, <1>3, <1>4 DEF Num, kept

LEMMA NumNode ==
    ASSUME NEW t, IsTree(t), NEW i \in KeptNodes(t)
    PROVE  /\ Reloaded(t)[Num(t, i)].parent = Num(t, t[i].parent)
           /\ Reloaded(t)[Num(t, i)].kind = t[i].kind
           /\ Reloaded(t)[Num(t, i)].name = LoadedName(t, i)
           /\ Reloaded(t)[Num(t, i)].text = LoadedText(t, i)
           /\ Reloaded(t)[Num(t, i)].attr = LoadedAttr(t, i)
           /\ t[i].parent \in KeptNodes(t) \/ t[i].parent = 0
<1>1. Reloaded(t)[Num(t, i)] =
        Node(Num(t, t[i].parent), t[i].kind, LoadedName(t, i),
             LoadedText(t, i), LoadedAttr(t, i))
    BY NodeReloaded, Zenon DEF Num
<1>2. t[i].parent \in KeptNodes(t) \/ t[i].parent = 0
  <2>1. CASE i = 1
    BY <2>1 DEF IsTree
  <2>2. CASE i # 1
    BY <2>2, ParentKept
  <2> QED
    BY <2>1, <2>2
<1> HIDE DEF Num
<1> QED
    BY <1>1, <1>2 DEF Node

LEMMA KidsReloaded ==
    ASSUME NEW t, IsTree(t), NEW n \in Inner(t)
    PROVE  LET r == Reloaded(t) IN
           /\ \A i \in KeptNodes(t) :
                i \in Kids(t, n) <=> Num(t, i) \in Kids(r, Num(t, n))
           /\ \A k \in Kids(r, Num(t, n)) :
                \E i \in KeptNodes(t) : i \in Kids(t, n) /\ k = Num(t, i)
<1> DEFINE r == Reloaded(t)
           kept == KeptNodes(t)
<1>0. /\ DOMAIN t = 1..Len(t) /\ DOMAIN r = 1..Len(r) /\ kept \subseteq 1..Len(t)
      /\ n \in kept /\ n # 0
  <2>1. n \in 1..Len(t) /\ Len(t) \in Nat /\ DOMAIN t = 1..Len(t)
    BY TreeTypes DEF Inner
  <2>2. kept \subseteq 1..Len(t) /\ n \in kept
    BY KeptTypes
  <2>3. DOMAIN r = 1..Len(r)
    BY ReloadTree, TreeTypes
  <2> QED
    BY <2>1, <2>2, <2>3
<1>1. /\ \A i \in kept : Num(t, i) \in 1..Len(r)
      /\ \A i, k \in kept : Num(t, i) = Num(t, k) => i = k
      /\ \A k \in 1..Len(r) : \E i \in kept : Num(t, i) = k
      /\ Num(t, n) # 0 /\ Num(t, 0) = 0
    BY <1>0, NumFacts
<1>2. \A i \in kept : /\ r[Num(t, i)].parent = Num(t, t[i].parent)
                      /\ t[i].parent \in kept \/ t[i].parent = 0
    BY NumNode
<1> HIDE DEF r, kept
<1>3. \A i \in kept : t[i].parent = n <=> r[Num(t, i)].parent = Num(t, n)
    BY <1>0, <1>1, <1>2
<1>4. \A i \in kept : i \in Kids(t, n) <=> Num(t, i) \in Kids(r, Num(t, n))
    BY <1>0, <1>1, <1>3 DEF Kids
<1>5. \A k \in Kids(r, Num(t, n)) :
        \E i \in kept : i \in Kids(t, n) /\ k = Num(t, i)
  <2> TAKE k \in Kids(r, Num(t, n))
  <2>1. k \in 1..Len(r)
    BY <1>0 DEF Kids
  <2>2. PICK i \in kept : Num(t, i) = k
    BY <1>1, <2>1
  <2> QED
    BY <1>4, <2>2
<1> QED
    BY <1>4, <1>5 DEF r, kept

LEMMA NamedReloaded ==
    ASSUME NEW t, IsTree(t), WellNamed(t), NEW n \in Inner(t), NEW name
    PROVE  LET r == Reloaded(t) IN
           /\ Named(t, n, name) \subseteq KeptNodes(t)
           /\ \A i \in Named(t, n, name) : Num(t, i) \in Named(r, Num(t, n), name)
           /\ \A k \in Named(r, Num(t, n), name) :
                \E i \in Named(t, n, name) : k = Num(t, i)
<1> DEFINE r == Reloaded(t)
           kept == KeptNodes(t)
<1>0. n # 0 /\ Inner(t) \subseteq kept /\ Named(t, n, name) \subseteq Inner(t)
  <2>1. n # 0
    BY TreeTypes DEF Inner
  <2> QED
    BY <2>1, KeptTypes, NamedTypes
<1>1. /\ \A i \in kept : i \in Kids(t, n) <=> Num(t, i) \in Kids(r, Num(t, n))
      /\ \A k \in Kids(r, Num(t, n)) :
           \E i \in kept : i \in Kids(t, n) /\ k = Num(t, i)
    BY KidsReloaded
<1>2. \A i \in kept :
        /\ r[Num(t, i)].kind = t[i].kind
        /\ t[i].kind = "ELEMENT" => r[Num(t, i)].name = t[i].name
  <2>1. kept \subseteq DOMAIN t
    BY KeptTypes, TreeTypes
  <2> QED
    BY <2>1, NumNode DEF WellNamed
<1> HIDE DEF r, kept
<1> QED
    BY <1>0, <1>1, <1>2 DEF Named, r, kept

(* Sets with a one to one correspondence have the same size.               *)
LEMMA SameSize ==
    ASSUME NEW S, IsFiniteSet(S), NEW T, NEW f, f \in [S -> T],
           \A a, b \in S : f[a] = f[b] => a = b,
           \A y \in T : \E a \in S : f[a] = y
    PROVE  Cardinality(T) = Cardinality(S)
<1>1. f \in Bijection(S, T)
    BY Fun_IsBij, Zenon
<1>2. ExistsBijection(S, T)
    BY <1>1 DEF ExistsBijection
<1> QED
    BY <1>2, FS_Bijection, Zenon

(* A node has the same index among those of its name.                      *)
LEMMA IndexReloaded ==
    ASSUME NEW t, IsTree(t), WellNamed(t), NEW n \in Inner(t), NEW name,
           NEW i \in Named(t, n, name)
    PROVE  Cardinality({k \in Named(Reloaded(t), Num(t, n), name) : k <= Num(t, i)})
             = Cardinality({j \in Named(t, n, name) : j <= i})
<1> DEFINE A == Named(t, n, name)
           B == Named(Reloaded(t), Num(t, n), name)
           S == {j \in A : j <= i}
           T == {k \in B : k <= Num(t, i)}
           f == [j \in S |-> Num(t, j)]
<1>0. n # 0 /\ Len(t) \in Nat
    BY TreeTypes DEF Inner
<1>1. A \subseteq KeptNodes(t) /\ A \subseteq Nat /\ IsFiniteSet(A) /\ i \in A
    BY <1>0, NamedReloaded, NamedTypes
<1>2. /\ \A j \in A : Num(t, j) \in B
      /\ \A k \in B : \E j \in A : k = Num(t, j)
    BY NamedReloaded
<1>3. Len(Reloaded(t)) \in Nat
    BY ReloadTree, TreeTypes
<1>4. \A j \in A : Num(t, j) \in Nat
    BY <1>1, <1>3, NumFacts
<1>5. \A j, k \in A : j < k <=> Num(t, j) < Num(t, k)
    BY <1>1, NumFacts
<1> HIDE DEF A, B
<1>6. \A j \in A : j <= i <=> Num(t, j) <= Num(t, i)
  <2> TAKE j \in A
  <2>1. i < j <=> Num(t, i) < Num(t, j)
    BY <1>1, <1>5
  <2>2. i \in Nat /\ j \in Nat /\ Num(t, i) \in Nat /\ Num(t, j) \in Nat
    BY <1>1, <1>4
  <2> QED
    BY <2>1, <2>2
<1>7. f \in [S -> T]
  <2>1. \A j \in S : Num(t, j) \in T
    BY <1>2, <1>6
  <2> QED
    BY <2>1
<1>8. \A a, b \in S : f[a] = f[b] => a = b
  <2> TAKE a, b \in S
  <2>1. a \in KeptNodes(t) /\ b \in KeptNodes(t)
    BY <1>1
  <2>2. Num(t, a) = Num(t, b) => a = b
    BY <2>1, NumFacts
  <2> QED
    BY <2>2
<1>9. \A y \in T : \E a \in S : f[a] = y
  <2> TAKE y \in T
  <2>1. PICK j \in A : y = Num(t, j)
    BY <1>2
  <2>2. j \in S
    BY <1>6, <2>1
  <2> QED
    BY <2>1, <2>2
<1>10. IsFiniteSet(S)
    BY <1>1, FS_Subset
<1> HIDE DEF S, T, f
<1>11. Cardinality(T) = Cardinality(S)
    BY <1>7, <1>8, <1>9, <1>10, SameSize
<1> QED
    BY <1>11 DEF S, T, A, B

LEMMA HitsReloaded ==
    ASSUME NEW t, IsTree(t), WellNamed(t), NEW n \in Inner(t), NEW part
    PROVE  LET r == Reloaded(t) IN
           /\ Hits(t, n, part) \subseteq KeptNodes(t)
           /\ \A i \in Hits(t, n, part) : Num(t, i) \in Hits(r, Num(t, n), part)
           /\ \A k \in Hits(r, Num(t, n), part) :
                \E i \in Hits(t, n, part) : k = Num(t, i)
<1> DEFINE A == Named(t, n, part.name)
           B == Named(Reloaded(t), Num(t, n), part.name)
           C(i) == Cardinality({j \in A : j <= i})
           D(k) == Cardinality({j \in B : j <= k})
<1>1. /\ A \subseteq KeptNodes(t) /\ \A i \in A : Num(t, i) \in B
      /\ \A k \in B : \E i \in A : k = Num(t, i)
    BY NamedReloaded
<1>2. \A i \in A : D(Num(t, i)) = C(i)
    BY IndexReloaded
<1>3. /\ Hits(t, n, part) =
           {i \in A : part.name \in Word /\ (part.id = 0 \/ C(i) = part.id)}
      /\ Hits(Reloaded(t), Num(t, n), part) =
           {k \in B : part.name \in Word /\ (part.id = 0 \/ D(k) = part.id)}
    BY Zenon DEF Hits
<1> HIDE DEF A, B, C, D
<1> QED
    BY <1>1, <1>2, <1>3

(* One part of a path leads to what was there.                             *)
LEMMA ChildReloaded ==
    ASSUME NEW t, IsTree(t), WellNamed(t), NEW n \in Inner(t) \cup {0}, NEW part
    PROVE  GetChild(Reloaded(t), Num(t, n), part) = Num(t, GetChild(t, n, part))
<1> DEFINE r == Reloaded(t)
           c == GetChild(t, n, part)
           d == GetChild(r, Num(t, n), part)
<1>0. IsTree(r) /\ Num(t, 0) = 0 /\ Len(r) \in Nat
    BY ReloadTree, NumFacts, TreeTypes
<1>1. CASE n = 0
  <2>1. c = 0 /\ d = 0
    BY <1>0, <1>1 DEF GetChild
  <2> QED
    BY <1>0, <2>1
<1>2. CASE n # 0
  <2>0. n \in Inner(t)
    BY <1>2
  <2>1. /\ Hits(t, n, part) \subseteq KeptNodes(t)
        /\ \A i \in Hits(t, n, part) : Num(t, i) \in Hits(r, Num(t, n), part)
        /\ \A k \in Hits(r, Num(t, n), part) :
             \E i \in Hits(t, n, part) : k = Num(t, i)
    BY <2>0, HitsReloaded
  <2>2. /\ c # 0 => /\ c \in Hits(t, n, part)
                    /\ \A y \in Hits(t, n, part) : c <= y
        /\ c = 0 => Hits(t, n, part) = {}
    BY <1>2, ChildFound
  <2>3. n \in KeptNodes(t)
    BY <2>0, KeptTypes
  <2>4. Num(t, n) \in 1..Len(r)
    BY <2>3, NumFacts
  <2>5. /\ d # 0 => /\ d \in Hits(r, Num(t, n), part)
                    /\ \A y \in Hits(r, Num(t, n), part) : d <= y
        /\ d = 0 => Hits(r, Num(t, n), part) = {}
    BY <1>0, <2>4, ChildFound
  <2> HIDE DEF c, d, r
  <2>6. CASE c = 0
    <3>1. d = 0
      BY <2>1, <2>2, <2>5, <2>6
    <3> QED
      BY <1>0, <2>6, <3>1 DEF c, d, r
  <2>7. CASE c # 0
    <3>1. d # 0
      BY <2>1, <2>2, <2>5, <2>7
    <3>2. PICK i \in Hits(t, n, part) : d = Num(t, i)
      BY <2>1, <2>5, <3>1
    <3>3. c \in KeptNodes(t) /\ i \in KeptNodes(t) /\ c <= i
      BY <2>1, <2>2, <2>7, <3>2
    <3>4. Num(t, i) <= Num(t, c)
      BY <2>1, <2>2, <2>5, <2>7, <3>1, <3>2
    <3>5. /\ c < i => Num(t, c) < Num(t, i)
          /\ Num(t, c) \in Nat /\ Num(t, i) \in Nat
      BY <3>3, <1>0, NumFacts DEF r
    <3>6. c \in Nat /\ i \in Nat
      BY <3>3, KeptTypes
    <3>7. c = i
      BY <3>3, <3>4, <3>5, <3>6
    <3> QED
      BY <3>2, <3>7 DEF c, d, r
  <2> QED
    BY <2>6, <2>7
<1> QED
    BY <1>1, <1>2

(* Every path leads to what is left of the node it led to, as long as the  *)
(* names are read as they are.                                             *)
LEMMA PathReloaded ==
    ASSUME NEW t, IsTree(t), WellNamed(t), NEW path, Len(path) \in Nat
    PROVE  getNode(Reloaded(t), path) = Num(t, getNode(t, path))
<1> DEFINE n == Len(path)
           r == Reloaded(t)
<1>1. PICK w : IsWalk(w, t, path) /\ getNode(t, path) = w[n]
    BY WalkOf
<1>2. \A i \in 0..n : w[i] \in Inner(t) \cup {0}
    BY <1>1, WalkTypes
<1> DEFINE v == [i \in 0..n |-> Num(t, w[i])]
<1>3. IsWalk(v, r, path)
  <2>1. v[0] = 1
    BY <1>1, NumFacts DEF IsWalk
  <2>2. ASSUME NEW i \in 1..n PROVE v[i] = GetChild(r, v[i - 1], path[i])
    <3>1. i \in 0..n /\ i - 1 \in 0..n
      OBVIOUS
    <3>2. w[i] = GetChild(t, w[i - 1], path[i])
      BY <1>1 DEF IsWalk
    <3>3. w[i - 1] \in Inner(t) \cup {0}
      BY <1>2, <3>1
    <3>4. GetChild(r, Num(t, w[i - 1]), path[i]) = Num(t, w[i])
      BY <3>2, <3>3, ChildReloaded
    <3>5. v[i] = Num(t, w[i]) /\ v[i - 1] = Num(t, w[i - 1])
      BY <3>1
    <3> QED
      BY <3>4, <3>5
  <2> QED
    BY <2>1, <2>2 DEF IsWalk
<1>4. n \in 0..n
    OBVIOUS
<1>5. v[n] = Num(t, w[n])
    BY <1>4
<1> HIDE DEF v
<1>6. getNode(r, path) = v[n]
    BY <1>3, WalkUnique
<1> QED
    BY <1>1, <1>5, <1>6

(* A first child that is left is the first again.                          *)
LEMMA FirstReloaded ==
    ASSUME NEW t, IsTree(t), NEW n \in Inner(t), NEW c \in Kids(t, n),
           \A i \in Kids(t, n) : c <= i, c \in KeptNodes(t)
    PROVE  /\ Kids(Reloaded(t), Num(t, n)) # {}
           /\ Min(Kids(Reloaded(t), Num(t, n))) = Num(t, c)
<1> DEFINE T == Kids(Reloaded(t), Num(t, n))
<1>0. Num(t, n) # 0 /\ IsTree(Reloaded(t)) /\ Len(Reloaded(t)) \in Nat
  <2>1. n \in KeptNodes(t)
    BY KeptTypes
  <2>2. IsTree(Reloaded(t))
    BY ReloadTree
  <2> QED
    BY <2>1, <2>2, NumFacts, TreeTypes
<1>1. T \subseteq Nat
    BY <1>0, KidsAfter
<1>2. /\ Num(t, c) \in T
      /\ \A k \in T : \E i \in KeptNodes(t) : i \in Kids(t, n) /\ k = Num(t, i)
    BY KidsReloaded
<1> HIDE DEF T
<1>3. \A k \in T : Num(t, c) <= k
  <2> TAKE k \in T
  <2>1. PICK i \in KeptNodes(t) : i \in Kids(t, n) /\ k = Num(t, i)
    BY <1>2
  <2>2. c <= i /\ i \in Nat /\ c \in Nat
    BY <2>1, KeptTypes
  <2>3. /\ Num(t, c) \in 1..Len(Reloaded(t)) /\ Num(t, i) \in 1..Len(Reloaded(t))
        /\ c < i => Num(t, c) < Num(t, i)
    BY <2>1, NumFacts
  <2>4. c = i => Num(t, c) = Num(t, i)
    OBVIOUS
  <2> QED
    BY <1>0, <2>1, <2>2, <2>3, <2>4
<1>4. Min(T) = Num(t, c)
    BY <1>1, <1>2, <1>3, LeastIs
<1> QED
    BY <1>2, <1>4 DEF T

(* A first child is left unless it is a blank text.                        *)
LEMMA FirstKept ==
    ASSUME NEW t, IsTree(t), NEW n \in Inner(t), NEW c \in Kids(t, n),
           \A i \in Kids(t, n) : c <= i, IsText(t, c) => ~Blank(t[c].text)
    PROVE  c \in KeptNodes(t)
<1>0. n # 0 /\ DOMAIN t = 1..Len(t) /\ Len(t) \in Nat
    BY TreeTypes DEF Inner
<1>1. c \in 1..Len(t) /\ t[c].parent = n
    BY <1>0 DEF Kids
<1>2. CASE ~IsText(t, c)
    BY <1>0, <1>1, <1>2 DEF KeptNodes, Kept
<1>3. CASE IsText(t, c)
  <2>1. c \in Run(t, c) /\ Run(t, c) \subseteq Kids(t, n) /\ Run(t, c) \subseteq Nat
    BY <1>1, <1>3, RunTypes
  <2>2. \A j \in Run(t, c) : c <= j
    BY <2>1
  <2>3. Min(Run(t, c)) = c
    BY <2>1, <2>2, LeastIs
  <2> QED
    BY <1>0, <1>1, <1>3, <2>1, <2>3 DEF KeptNodes, Kept
<1> QED
    BY <1>2, <1>3

(* It comes back with its own text, and no other joined to it.             *)
LEMMA FirstText ==
    ASSUME NEW t, IsTree(t), Separated(t), NEW n \in Inner(t),
           NEW c \in Kids(t, n), \A i \in Kids(t, n) : c <= i,
           t[c].kind \in {"TEXT", "COMMENT"},
           IsText(t, c) => ~Blank(t[c].text)
    PROVE  LoadedText(t, c) = Read[t[c].kind][t[c].text]
<1>0. n # 0 /\ DOMAIN t = 1..Len(t) /\ Len(t) \in Nat
    BY TreeTypes DEF Inner
<1>1. c \in 1..Len(t) /\ t[c].parent = n /\ Kids(t, n) \subseteq Nat
    BY <1>0, KidsAfter DEF Kids
<1>2. CASE ~IsText(t, c)
    BY <1>2 DEF LoadedText, IsText
<1>3. CASE IsText(t, c)
  <2>1. /\ c \in Run(t, c) /\ Run(t, c) \subseteq Kids(t, n)
        /\ \A j \in Run(t, c) : IsText(t, j)
    BY <1>1, <1>3, RunTypes
  <2>2. \A j \in Run(t, c) : j = c
    <3> SUFFICES ASSUME NEW j \in Run(t, c), j # c PROVE FALSE
      OBVIOUS
    <3>1. j \in Kids(t, n) /\ IsText(t, j) /\ j \in DOMAIN t /\ t[j].parent = n
      BY <2>1 DEF Kids
    <3>2. j # Min(Kids(t, n))
      BY <1>1, LeastIs
    <3>3. PICK k \in Kids(t, n) : k < j /\ ~IsText(t, k)
      BY <3>1, <3>2 DEF Separated
    <3>4. c <= k /\ k <= j
      BY <1>1, <3>1, <3>3
    <3> QED
      BY <1>1, <3>3, <3>4 DEF Run
  <2> DEFINE full == {j \in Run(t, c) : ~Blank(t[j].text)}
  <2>3. full = {c}
    BY <1>3, <2>1, <2>2
  <2>4. Cardinality(full) = 1
    BY <2>3, FS_Singleton
  <2>5. Min(full) = c
    BY <1>1, <2>3, LeastIs
  <2> HIDE DEF full
  <2>6. LoadedText(t, c) = IF Cardinality(full) = 1
                           THEN Read["TEXT"][t[Min(full)].text] ELSE Joined
    BY <1>3 DEF LoadedText, full, IsText
  <2> QED
    BY <1>3, <2>4, <2>5, <2>6 DEF IsText
<1> QED
    BY <1>2, <1>3

(* Where nothing was, nothing is.                                          *)
LEMMA NoKidsReloaded ==
    ASSUME NEW t, IsTree(t), NEW n \in Inner(t), Kids(t, n) = {}
    PROVE  Kids(Reloaded(t), Num(t, n)) = {}
  BY KidsReloaded

LEMMA ValueChildReloaded ==
    ASSUME NEW t, IsTree(t), NEW n \in Inner(t), Kids(t, n) # {},
           IsText(t, Min(Kids(t, n))) => ~Blank(t[Min(Kids(t, n))].text)
    PROVE  LET c == Min(Kids(t, n)) IN
           /\ c \in Kids(t, n) /\ c \in KeptNodes(t)
           /\ \A i \in Kids(t, n) : c <= i
           /\ ValueChild(Reloaded(t), Num(t, n)) =
                IF t[c].kind # "ELEMENT" THEN Num(t, c) ELSE 0
<1> DEFINE c == Min(Kids(t, n))
           r == Reloaded(t)
           m == Num(t, n)
<1>1. c \in Kids(t, n) /\ \A i \in Kids(t, n) : c <= i
  <2>1. Kids(t, n) \subseteq Nat
    BY KidsAfter, TreeTypes DEF Inner
  <2> QED
    BY <2>1, LeastOf
<1>2. IsText(t, c) => ~Blank(t[c].text)
    OBVIOUS
<1> HIDE DEF c
<1>3. c \in KeptNodes(t)
    BY <1>1, <1>2, FirstKept
<1>4. Kids(r, m) # {} /\ Min(Kids(r, m)) = Num(t, c)
    BY <1>1, <1>3, FirstReloaded
<1>5. r[Num(t, c)].kind = t[c].kind
    BY <1>3, NumNode
<1> HIDE DEF r, m
<1>6. ValueChild(r, m) = IF t[c].kind # "ELEMENT" THEN Num(t, c) ELSE 0
    BY <1>4, <1>5 DEF ValueChild
<1> QED
    BY <1>1, <1>3, <1>6 DEF c, r, m

LEMMA ValueReloaded ==
    ASSUME NEW t, IsTree(t), Separated(t), NEW n \in Inner(t),
           value(t, n) \in Stable \cup {Nil}
    PROVE  value(Reloaded(t), Num(t, n)) = value(t, n)
<1> DEFINE c == Min(Kids(t, n))
           r == Reloaded(t)
           m == Num(t, n)
<1>1. CASE Kids(t, n) = {}
  <2>1. Kids(r, m) = {}
    BY <1>1, NoKidsReloaded
  <2>2. value(r, m) = Nil /\ value(t, n) = Nil
    BY <1>1, <2>1 DEF value, ValueChild
  <2> QED
    BY <2>2
<1>2. CASE Kids(t, n) # {}
  <2>0. c \in Kids(t, n) /\ c # 0
    <3>1. Kids(t, n) \subseteq 2..Len(t) /\ Kids(t, n) \subseteq Nat /\ Len(t) \in Nat
      BY KidsAfter, TreeTypes DEF Inner
    <3>2. c \in Kids(t, n)
      BY <1>2, <3>1, LeastOf
    <3> QED
      BY <3>1, <3>2
  <2>1. value(t, n) = IF t[c].kind # "ELEMENT" THEN t[c].text ELSE Nil
    BY <1>2, <2>0 DEF value, ValueChild
  <2>2. t[c].kind # "ELEMENT" =>
          /\ t[c].kind \in {"TEXT", "COMMENT"} /\ t[c].text \in Stable
          /\ Read[t[c].kind][t[c].text] = t[c].text
          /\ ~Blank(t[c].text)
    <3> SUFFICES ASSUME t[c].kind # "ELEMENT"
                 PROVE  /\ t[c].kind \in {"TEXT", "COMMENT"}
                        /\ t[c].text \in Stable
                        /\ Read[t[c].kind][t[c].text] = t[c].text
                        /\ ~Blank(t[c].text)
      OBVIOUS
    <3>1. c \in 2..Len(t)
      BY <2>0, KidsAfter, TreeTypes DEF Inner
    <3>2. t[c].kind \in {"TEXT", "COMMENT"}
      <4>1. t[c] \in Nodes /\ t[c].kind # "ROOT"
        BY <3>1, TreeTypes DEF IsTree
      <4> QED
        BY <4>1 DEF Nodes
    <3>3. t[c].text # Nil
      BY <3>1, <3>2 DEF IsTree
    <3>4. t[c].text \in Stable
      BY <2>1, <3>3
    <3>5. DOMAIN Read = {"TEXT", "COMMENT", "ATTR"}
      BY TreeAssumption
    <3> QED
      BY <3>2, <3>4, <3>5 DEF Stable, Blank
  <2>2a. IsText(t, c) => ~Blank(t[c].text)
    BY <2>2 DEF IsText
  <2>3. /\ c \in KeptNodes(t) /\ \A i \in Kids(t, n) : c <= i
        /\ ValueChild(r, m) = IF t[c].kind # "ELEMENT" THEN Num(t, c) ELSE 0
    BY <1>2, <2>2a, ValueChildReloaded
  <2>4. t[c].kind # "ELEMENT" => LoadedText(t, c) = t[c].text
    BY <2>0, <2>2, <2>2a, <2>3, FirstText
  <2>5. r[Num(t, c)].text = LoadedText(t, c)
    BY <2>3, NumNode
  <2>6. Num(t, c) # 0
    <3>1. Num(t, c) \in 1..Len(Reloaded(t)) /\ Len(Reloaded(t)) \in Nat
      BY <2>3, NumFacts, ReloadTree, TreeTypes
    <3> QED
      BY <3>1
  <2> HIDE DEF c, r, m
  <2>7. value(r, m) = IF t[c].kind # "ELEMENT" THEN t[c].text ELSE Nil
    BY <2>3, <2>4, <2>5, <2>6 DEF value
  <2> QED
    BY <2>1, <2>7 DEF r, m
<1> QED
    BY <1>1, <1>2

(* An attribute that is read as it is comes back.                          *)
LEMMA AttrReloaded ==
    ASSUME NEW t, IsTree(t), NEW n \in Inner(t), t[n].attr # Nil,
           NEW a \in AttrName, t[n].attr[a] \in Stable
    PROVE  LET attr == Reloaded(t)[Num(t, n)].attr IN
           attr # Nil /\ attr[a] = t[n].attr[a]
<1>0. n \in KeptNodes(t) /\ Nil \notin Text /\ Nil \notin Attrs
    BY KeptTypes, TreeAssumption
<1>1. Reloaded(t)[Num(t, n)].attr = LoadedAttr(t, n)
    BY <1>0, NumNode
<1>2. /\ t[n].attr[a] \in Text /\ t[n].attr[a] # Nil
      /\ Read["ATTR"][t[n].attr[a]] = t[n].attr[a]
  <2>1. "ATTR" \in DOMAIN Read
    BY TreeAssumption
  <2> QED
    BY <1>0, <2>1 DEF Stable
<1>3. t[n].attr # NoAttr
    BY <1>2 DEF NoAttr
<1>4. LoadedAttr(t, n) =
        [b \in AttrName |->
           IF t[n].attr[b] = Nil THEN Nil ELSE Read["ATTR"][t[n].attr[b]]]
    BY <1>3 DEF LoadedAttr
<1>5. LoadedAttr(t, n)[a] = t[n].attr[a]
    BY <1>2, <1>4
<1>6. LoadedAttr(t, n) # Nil
  <2>1. LoadedAttr(t, n) \in [AttrName -> Text \cup {Nil}]
    <3>1. \A b \in AttrName : t[n].attr[b] \in Text \cup {Nil}
      <4>1. t[n] \in Nodes
        BY TreeTypes DEF Inner
      <4>2. t[n].attr \in Attrs
        BY <4>1 DEF Nodes
      <4> QED
        BY <4>2 DEF Attrs
    <3>2. \A b \in AttrName :
            (IF t[n].attr[b] = Nil THEN Nil ELSE Read["ATTR"][t[n].attr[b]])
              \in Text \cup {Nil}
      BY <3>1, ReadTypes
    <3> QED
      BY <1>4, <3>2
  <2> QED
    BY <1>0, <2>1 DEF Attrs
<1> QED
    BY <1>1, <1>5, <1>6

LEMMA RestartKept ==
    ASSUME IsTree(tree), Separated(tree)
    PROVE  RestartKeeps
<1> DEFINE r == Reloaded(tree)
<1> SUFFICES ASSUME WellNamed(tree), NEW path \in Paths
             PROVE  LET n == getNode(tree, path)
                        m == getNode(r, path)
                    IN  /\ n = 0 <=> m = 0
                        /\ n # 0 /\ value(tree, n) \in Stable \cup {Nil} =>
                             value(r, m) = value(tree, n)
                        /\ n # 0 /\ tree[n].attr # Nil =>
                             \A a \in AttrName :
                               tree[n].attr[a] \in Stable =>
                                 /\ r[m].attr # Nil
                                 /\ r[m].attr[a] = tree[n].attr[a]
    BY DEF RestartKeeps
<1> DEFINE n == getNode(tree, path)
           m == getNode(r, path)
<1>1. Len(path) \in Nat
    BY TreeAssumption
<1>2. m = Num(tree, n) /\ n \in Inner(tree) \cup {0}
    BY <1>1, PathReloaded, GetNodeTypes
<1> HIDE DEF n, m
<1>3. CASE n = 0
  <2>1. m = 0
    BY <1>2, <1>3, NumFacts
  <2> QED
    BY <1>3, <2>1 DEF n, m
<1>4. CASE n # 0
  <2>1. n \in Inner(tree) /\ n \in KeptNodes(tree)
    BY <1>2, <1>4, KeptTypes
  <2>2. m \in 1..Len(r) /\ Len(r) \in Nat
    BY <1>2, <2>1, NumFacts, ReloadTree, TreeTypes
  <2>3. value(tree, n) \in Stable \cup {Nil} => value(r, m) = value(tree, n)
    BY <1>2, <2>1, ValueReloaded
  <2>4. ASSUME tree[n].attr # Nil, NEW a \in AttrName, tree[n].attr[a] \in Stable
        PROVE  r[m].attr # Nil /\ r[m].attr[a] = tree[n].attr[a]
    BY <1>2, <2>1, <2>4, AttrReloaded
  <2> HIDE DEF r
  <2> QED
    BY <1>4, <2>2, <2>3, <2>4 DEF n, m
<1> QED
    BY <1>3, <1>4

-------------------------------------------------------------------------------
(* Texts stay apart.                                                       *)

(* A tree that grows by one node at most, with a text only where there is  *)
(* nothing yet or something else in front.                                 *)
LEMMA SeparatedGrows ==
    ASSUME NEW t, NEW u, IsTree(t), IsTree(u), Extends(t, u), Separated(t),
           Len(u) <= Len(t) + 1,
           Len(u) = Len(t) + 1 /\ IsText(u, Len(u)) =>
             LET kids == Kids(t, u[Len(u)].parent) IN
             kids = {} \/ \E k \in kids : ~IsText(t, k)
    PROVE  Separated(u)
<1>0. Len(t) \in Nat /\ Len(u) \in Nat
    BY TreeTypes
<1>0a. PICK a \in Nat : a = Len(t)
    BY <1>0
<1>0b. PICK b \in Nat : b = Len(u)
    BY <1>0
<1>0c. /\ a <= b /\ b <= a + 1 /\ DOMAIN t = 1..a /\ DOMAIN u = 1..b
       /\ \A k \in 1..a : u[k].parent = t[k].parent /\ u[k].kind = t[k].kind
       /\ b = a + 1 /\ IsText(u, b) =>
            LET kids == Kids(t, u[b].parent) IN
            kids = {} \/ \E k \in kids : ~IsText(t, k)
    BY <1>0a, <1>0b, TreeTypes DEF Extends
<1>1. \A k \in 1..a : /\ k \in 1..b /\ u[k].parent = t[k].parent
                           /\ u[k].kind = t[k].kind
    BY <1>0c
<1> SUFFICES ASSUME NEW i \in 1..b, IsText(u, i)
             PROVE  \/ i = Min(Kids(u, u[i].parent))
                    \/ \E k \in Kids(u, u[i].parent) : k < i /\ ~IsText(u, k)
    BY <1>0c DEF Separated
<1> DEFINE q == u[i].parent
           A == Kids(t, q)
           B == Kids(u, q)
<1>2. A \subseteq B /\ A \subseteq 1..a
    BY <1>0c, <1>1 DEF Kids
<1>3. B \subseteq Nat /\ i \in B /\ \A k \in B : k \in A \/ k = a + 1
    BY <1>0c, <1>1 DEF Kids
<1>4. \A k \in A : ~IsText(t, k) => ~IsText(u, k)
    BY <1>1, <1>2 DEF IsText
<1> HIDE DEF A, B
<1>5. CASE i \in 1..a
  <2>1. t[i].parent = q /\ IsText(t, i)
    BY <1>1, <1>5 DEF IsText
  <2>2. i = Min(A) \/ \E k \in A : k < i /\ ~IsText(t, k)
    BY <1>0c, <1>5, <2>1 DEF Separated, A
  <2>3. CASE i = Min(A)
    <3>1. i \in A
      BY <1>0c, <1>5, <2>1 DEF Kids, A
    <3>2. \A k \in A : i <= k
      BY <1>2, <1>3, <2>3, <3>1, LeastOf
    <3>3. \A k \in B : i <= k
      BY <1>0c, <1>3, <1>5, <3>2
    <3>4. Min(B) = i
      BY <1>3, <3>3, LeastIs
    <3> QED
      BY <3>4 DEF B
  <2>4. CASE \E k \in A : k < i /\ ~IsText(t, k)
    <3>1. \E k \in B : k < i /\ ~IsText(u, k)
      BY <1>2, <1>4, <2>4
    <3> QED
      BY <3>1 DEF B
  <2> QED
    BY <2>2, <2>3, <2>4
<1>6. CASE i \notin 1..a
  <2>1. i = b /\ b = a + 1
    BY <1>0c, <1>6
  <2>2. A = {} \/ \E k \in A : ~IsText(t, k)
    BY <1>0c, <2>1 DEF A
  <2>3. CASE A = {}
    <3>1. \A k \in B : i <= k
      BY <1>0c, <1>3, <2>1, <2>3
    <3>2. Min(B) = i
      BY <1>3, <3>1, LeastIs
    <3> QED
      BY <3>2 DEF B
  <2>4. CASE \E k \in A : ~IsText(t, k)
    <3>1. \E k \in B : k < i /\ ~IsText(u, k)
      BY <1>0c, <1>2, <1>4, <2>1, <2>4
    <3> QED
      BY <3>1 DEF B
  <2> QED
    BY <2>2, <2>3, <2>4
<1> QED
    BY <1>5, <1>6

LEMMA AttachSeparated ==
    ASSUME NEW t, IsTree(t), Separated(t), NEW n \in Inner(t), NEW name \in Name
    PROVE  Separated(attachNode(t, n, name))
<1> DEFINE u == attachNode(t, n, name)
<1>1. /\ IsTree(u) /\ Extends(t, u) /\ Len(u) = Len(t) + 1
      /\ u[Len(t) + 1].kind = "ELEMENT" /\ Len(t) \in Nat
    BY AttachTree, TreeTypes
<1> HIDE DEF u
<1>2. Len(u) <= Len(t) + 1 /\ ~IsText(u, Len(u))
    BY <1>1 DEF IsText
<1>3. Separated(u)
    BY <1>1, <1>2, SeparatedGrows
<1> QED
    BY <1>3 DEF u

(* A value is a new text only for a node without children, or whose first  *)
(* child is an element.                                                    *)
LEMMA ValueSeparated ==
    ASSUME NEW t, IsTree(t), Separated(t), NEW n \in Inner(t), NEW v \in Text
    PROVE  Separated(setValue(t, n, v))
<1> DEFINE u == setValue(t, n, v)
           c == ValueChild(t, n)
           x == Node(n, "TEXT", Nil, v, Nil)
<1>1. IsTree(u) /\ Extends(t, u)
    BY SetValueTree
<1>2. Len(t) \in Nat /\ DOMAIN t = 1..Len(t) /\ Len(u) \in Nat /\ DOMAIN u = 1..Len(u)
    BY <1>1, TreeTypes
<1>3. CASE c # 0
  <2>1. DOMAIN u = DOMAIN t
    BY <1>3 DEF setValue
  <2> HIDE DEF u, c
  <2>2. Len(u) <= Len(t) + 1 /\ ~(Len(u) = Len(t) + 1)
    <3>1. PICK a \in Nat : a = Len(t)
      BY <1>2
    <3>2. PICK b \in Nat : b = Len(u)
      BY <1>2
    <3>3. 1..b = 1..a
      BY <1>2, <2>1, <3>1, <3>2
    <3>4. a = b
      BY <3>3
    <3> QED
      BY <3>1, <3>2, <3>4
  <2>3. Separated(u)
    BY <1>1, <2>2, SeparatedGrows
  <2> QED
    BY <2>3 DEF u
<1>4. CASE c = 0
  <2>1. u = Append(t, x) /\ t \in Seq(Nodes)
    BY <1>4, TreeTypes DEF setValue
  <2>2. x.parent = n
    BY DEF Node
  <2> HIDE DEF x
  <2>3. Len(u) = Len(t) + 1 /\ u[Len(t) + 1] = x
    BY <2>1
  <2>4. Kids(t, n) = {} \/ \E k \in Kids(t, n) : ~IsText(t, k)
    <3> SUFFICES ASSUME Kids(t, n) # {} PROVE \E k \in Kids(t, n) : ~IsText(t, k)
      OBVIOUS
    <3>1. Kids(t, n) \subseteq Nat /\ 0 \notin Kids(t, n)
      BY KidsAfter, TreeTypes DEF Inner
    <3>2. Min(Kids(t, n)) \in Kids(t, n)
      BY <3>1, LeastOf
    <3>3. t[Min(Kids(t, n))].kind = "ELEMENT"
      BY <1>4, <3>1, <3>2 DEF ValueChild
    <3> QED
      BY <3>2, <3>3 DEF IsText
  <2> HIDE DEF u
  <2>5. u[Len(u)].parent = n /\ Len(u) <= Len(t) + 1
    BY <1>2, <2>2, <2>3
  <2>6. Separated(u)
    BY <1>1, <2>4, <2>5, SeparatedGrows
  <2> QED
    BY <2>6 DEF u
<1> QED
    BY <1>3, <1>4

LEMMA AttrSeparated ==
    ASSUME NEW t, IsTree(t), Separated(t), NEW n \in 1..Len(t),
           NEW a \in AttrName, NEW v \in Text
    PROVE  Separated(setAttr(t, n, a, v))
<1> DEFINE u == setAttr(t, n, a, v)
<1>1. IsTree(u) /\ Extends(t, u) /\ Len(u) = Len(t) /\ Len(t) \in Nat
    BY SetAttrTree, TreeTypes
<1> HIDE DEF u
<1>2. Separated(u)
    BY <1>1, SeparatedGrows
<1> QED
    BY <1>2 DEF u

LEMMA GetOrCreateSeparated ==
    ASSUME NEW t, IsTree(t), Separated(t), NEW path \in Seq(Parts)
    PROVE  Separated(getOrCreateNode(t, path).tree)
<1> DEFINE n == Len(path)
<1>0. n \in Nat /\ \A i \in 1..n : path[i] \in Parts
    OBVIOUS
<1>1. PICK w : /\ IsCreation(w, t, path)
               /\ getOrCreateNode(t, path) =
                    IF getNode(t, path) # 0
                    THEN [tree |-> t, node |-> getNode(t, path)]
                    ELSE w[Len(path)]
    BY <1>0, CreationOf
<1>2. \A i \in 0..n : IsTree(w[i].tree) /\ w[i].node \in Inner(w[i].tree)
    BY <1>1, CreationTypes
<1> DEFINE S == {i \in 0..n : Separated(w[i].tree)}
<1>3. 0 \in S
  <2>1. w[0].tree = t
    BY <1>1 DEF IsCreation
  <2> QED
    BY <1>0, <2>1
<1>4. ASSUME NEW i \in 1..n, i - 1 \in S PROVE i \in S
  <2> DEFINE s == w[i - 1]
  <2>1. w[i] = GetOrCreateChild(s, path[i]) /\ i - 1 \in 0..n /\ i \in 0..n
    BY <1>0, <1>1 DEF IsCreation
  <2>2. IsTree(s.tree) /\ s.node \in Inner(s.tree) /\ Separated(s.tree)
    BY <1>2, <1>4, <2>1
  <2>3. path[i].name \in Name
    BY <1>0 DEF Parts
  <2> HIDE DEF s
  <2>4. w[i].tree \in {s.tree, attachNode(s.tree, s.node, path[i].name)}
    BY <2>1 DEF GetOrCreateChild
  <2>5. Separated(w[i].tree)
    BY <2>2, <2>3, <2>4, AttachSeparated
  <2> QED
    BY <2>1, <2>5
<1> HIDE DEF S
<1>5. \A i \in 0..n : i \in S
    BY <1>0, <1>3, <1>4, AllReached
<1>6. Separated(w[n].tree)
    BY <1>0, <1>5 DEF S
<1> QED
    BY <1>1, <1>6

LEMMA KeySeparated ==
    ASSUME NEW s, IsTree(s.tree), Separated(s.tree), NEW key \in Keys
    PROVE  Separated(DoKey(s, key).tree)
<1> DEFINE r == getOrCreateNode(s.tree, key.path)
<1>0. key.path \in Seq(Parts) /\ key.value \in Text /\ key.attr \in AttrName
    BY DEF Keys
<1>1. IsTree(r.tree) /\ r.node \in Inner(r.tree) /\ Separated(r.tree)
    BY <1>0, GetOrCreateTree, GetOrCreateSeparated
<1>2. DoKey(s, key).tree \in {s.tree, setValue(r.tree, r.node, key.value),
                              setAttr(r.tree, r.node, key.attr, key.value)}
    BY DEF DoKey
<1> HIDE DEF r
<1>3. r.node \in 1..Len(r.tree)
    BY <1>1 DEF Inner
<1>4. Separated(setValue(r.tree, r.node, key.value))
    BY <1>0, <1>1, ValueSeparated
<1>5. Separated(setAttr(r.tree, r.node, key.attr, key.value))
    BY <1>0, <1>1, <1>3, AttrSeparated
<1> QED
    BY <1>2, <1>4, <1>5

LEMMA RequestSeparated ==
    ASSUME NEW t, IsTree(t), Separated(t), NEW req \in Seq(Keys)
    PROVE  Separated(setmany(t, req).tree)
<1>0. Len(req) \in Nat /\ \A i \in 1..Len(req) : req[i] \in Keys
    OBVIOUS
<1>1. PICK w : IsRequest(w, t, req) /\ setmany(t, req) = w[Len(req)]
    BY <1>0, RequestOf
<1>2. \A i \in 0..Len(req) : IsTree(w[i].tree)
    BY <1>1, RequestTypes
<1> DEFINE S == {i \in 0..Len(req) : Separated(w[i].tree)}
<1>3. 0 \in S
  <2>1. w[0] = [tree |-> t, ok |-> TRUE]
    BY <1>1, Zenon DEF IsRequest
  <2>2. w[0].tree = t
    BY ONLY <2>1
  <2>3. 0 \in 0..Len(req)
    BY <1>0
  <2> QED
    BY <2>2, <2>3
<1>4. ASSUME NEW i \in 1..Len(req), i - 1 \in S PROVE i \in S
  <2>1. w[i] = DoKey(w[i - 1], req[i])
    BY <1>1, Zenon DEF IsRequest
  <2>2. i - 1 \in 0..Len(req) /\ i \in 0..Len(req)
    BY <1>0
  <2>3. Separated(DoKey(w[i - 1], req[i]).tree)
    BY <1>0, <1>2, <1>4, <2>2, KeySeparated
  <2> QED
    BY <2>1, <2>2, <2>3
<1> HIDE DEF S
<1>5. \A i \in 0..Len(req) : i \in S
    BY <1>0, <1>3, <1>4, AllReached
<1>6. Len(req) \in S
    BY <1>0, <1>5
<1> QED
    BY <1>1, <1>6 DEF S

LEMMA UpdatedSeparated ==
    ASSUME NEW t, IsTree(t), Separated(t), NEW info \in BoardInfo
    PROVE  Separated(Updated(t, info))
<1> DEFINE r == getOrCreateNode(t, InfoPath)
           s == IF info = Nil THEN r.tree ELSE setValue(r.tree, r.node, info)
<1>0. InfoPath \in Seq(Parts) /\ NoData \in Text /\ (info # Nil => info \in Text)
    BY TreeAssumption
<1>1. IsTree(r.tree) /\ r.node \in Inner(r.tree) /\ Separated(r.tree)
    BY <1>0, GetOrCreateTree, GetOrCreateSeparated
<1>2. Updated(t, info) = IF value(s, r.node) = Nil
                         THEN setValue(s, r.node, NoData) ELSE s
    BY Zenon DEF Updated
<1> HIDE DEF r
<1>3. IsTree(s) /\ r.node \in Inner(s)
    BY <1>0, <1>1, SetValueTree, InnerKept
<1>4. Separated(s)
    BY <1>0, <1>1, ValueSeparated
<1> HIDE DEF s
<1>5. Separated(setValue(s, r.node, NoData))
    BY <1>0, <1>3, <1>4, ValueSeparated
<1> QED
    BY <1>2, <1>4, <1>5

LEMMA ReloadSeparated ==
    ASSUME NEW t, IsTree(t), Separated(t)
    PROVE  Separated(Reloaded(t))
<1> DEFINE r == Reloaded(t)
<1>0. /\ IsTree(r) /\ Len(r) \in Nat /\ DOMAIN r = 1..Len(r)
      /\ DOMAIN t = 1..Len(t) /\ KeptNodes(t) \subseteq 1..Len(t)
    BY ReloadTree, TreeTypes, KeptTypes
<1> SUFFICES ASSUME NEW k \in 1..Len(r), IsText(r, k)
             PROVE  \/ k = Min(Kids(r, r[k].parent))
                    \/ \E j \in Kids(r, r[k].parent) : j < k /\ ~IsText(r, j)
    BY <1>0 DEF Separated
<1>1. PICK i \in KeptNodes(t) : Num(t, i) = k
    BY NumFacts
<1> DEFINE q == t[i].parent
<1>2. r[k].parent = Num(t, q) /\ r[k].kind = t[i].kind
    BY <1>1, NumNode
<1>3. IsText(t, i) /\ i # 1
    BY <1>2 DEF IsText, IsTree
<1>4. q \in Inner(t) /\ i \in 1..Len(t)
    BY <1>0, <1>3, ParentKept
<1>5. i \in Kids(t, q)
    BY <1>0, <1>4 DEF Kids
<1>6. Kids(t, q) \subseteq Nat
    BY <1>4, KidsAfter, TreeTypes DEF Inner
<1>7. i = Min(Kids(t, q)) \/ \E j \in Kids(t, q) : j < i /\ ~IsText(t, j)
    BY <1>0, <1>3, <1>4 DEF Separated
<1> HIDE DEF q, r
<1>8. CASE i = Min(Kids(t, q))
  <2>1. \A j \in Kids(t, q) : i <= j
    BY <1>5, <1>6, <1>8, LeastOf
  <2>2. Min(Kids(r, Num(t, q))) = Num(t, i)
    BY <1>4, <1>5, <2>1, FirstReloaded DEF r
  <2> QED
    BY <1>1, <1>2, <2>2
<1>9. CASE \E j \in Kids(t, q) : j < i /\ ~IsText(t, j)
  <2>1. PICK j \in Kids(t, q) : j < i /\ ~IsText(t, j)
    BY <1>9
  <2>2. j \in KeptNodes(t)
    BY <2>1 DEF Kids, KeptNodes, Kept
  <2>3. Num(t, j) \in Kids(r, Num(t, q))
    BY <1>4, <2>1, <2>2, KidsReloaded DEF r
  <2>4. Num(t, j) < Num(t, i)
    BY <2>1, <2>2, NumFacts
  <2>5. ~IsText(r, Num(t, j))
    BY <2>1, <2>2, NumNode DEF IsText, r
  <2> QED
    BY <1>1, <1>2, <2>3, <2>4, <2>5
<1> QED
    BY <1>7, <1>8, <1>9

-------------------------------------------------------------------------------
(* The board's information.                                                *)

LEMMA LastHasNoKids ==
    ASSUME NEW t, IsTree(t)
    PROVE  Kids(t, Len(t)) = {}
<1>1. Len(t) \in Nat /\ Len(t) # 0
    BY TreeTypes
<1>2. PICK n \in Nat : n = Len(t)
    BY <1>1
<1>3. \A i \in Kids(t, n) : i \in 2..n /\ n \in 1..(i - 1)
    BY <1>1, <1>2, KidsAfter
<1> QED
    BY <1>2, <1>3

(* A node that getOrCreateNode has made is empty.                          *)
LEMMA CreatedEmpty ==
    ASSUME NEW t, IsTree(t), NEW path \in Seq(Parts), PlainPath(path),
           getNode(t, path) = 0
    PROVE  LET r == getOrCreateNode(t, path) IN Kids(r.tree, r.node) = {}
<1> DEFINE n == Len(path)
           r == getOrCreateNode(t, path)
<1>0. /\ n \in Nat
      /\ \A i \in 1..n : /\ path[i] \in Parts /\ path[i].id = 0
                         /\ path[i].name \in Word
    BY DEF PlainPath
<1>1. PICK w : IsCreation(w, t, path) /\ r = w[n]
    BY <1>0, CreationOf
<1>2. \A i \in 0..n : /\ w[i] = [tree |-> w[i].tree, node |-> w[i].node]
                      /\ IsTree(w[i].tree) /\ w[i].node \in Inner(w[i].tree)
    BY <1>1, CreationTypes
<1> DEFINE Q(s) == s.tree = t \/ s.node = Len(s.tree)
           S == {i \in 0..n : Q(w[i])}
<1>3. 0 \in S
  <2>1. w[0].tree = t
    BY <1>1 DEF IsCreation
  <2> QED
    BY <1>0, <2>1
<1>4. ASSUME NEW i \in 1..n, i - 1 \in S PROVE i \in S
  <2> DEFINE s == w[i - 1]
             u == w[i]
             part == path[i]
  <2>0. i - 1 \in 0..n /\ i \in 0..n
    BY <1>0
  <2>1. /\ u = GetOrCreateChild(s, part) /\ s = [tree |-> s.tree, node |-> s.node]
        /\ IsTree(s.tree) /\ s.node \in Inner(s.tree) /\ Q(s)
        /\ part \in Parts /\ part.id = 0 /\ part.name \in Word
    BY <1>0, <1>1, <1>2, <1>4, <2>0 DEF IsCreation
  <2> HIDE DEF s, u, part, Q
  <2>2. /\ GetChild(u.tree, s.node, part) = u.node
        /\ u.node \in Inner(u.tree)
    BY <2>1, CreateStep
  <2>3. \/ u.tree = s.tree
        \/ /\ u.tree = attachNode(s.tree, s.node, part.name)
           /\ u.node = Len(s.tree) + 1
    BY <2>1 DEF GetOrCreateChild
  <2>4. CASE u.tree = s.tree /\ s.tree = t
    BY <2>0, <2>4 DEF Q, u
  <2>5. CASE u.tree = s.tree /\ s.tree # t
    <3>1. Kids(s.tree, s.node) = {}
      BY <2>1, <2>5, LastHasNoKids DEF Q
    <3>2. u.node # 0
      BY <2>1, <2>2, <2>5, TreeTypes DEF Inner
    <3>3. u.node \in Hits(s.tree, s.node, part)
      BY <2>1, <2>2, <2>5, <3>2, ChildFound
    <3> QED
      BY <3>1, <3>3 DEF Hits, Named
  <2>6. CASE /\ u.tree = attachNode(s.tree, s.node, part.name)
             /\ u.node = Len(s.tree) + 1
    <3>1. part.name \in Name
      BY <2>1 DEF Parts
    <3>2. Len(u.tree) = Len(s.tree) + 1
      BY <2>1, <2>6, <3>1, AttachTree
    <3> QED
      BY <2>0, <2>6, <3>2 DEF Q, u
  <2> QED
    BY <2>3, <2>4, <2>5, <2>6
<1> HIDE DEF S
<1>5. \A i \in 0..n : i \in S
    BY <1>0, <1>3, <1>4, AllReached
<1>6. Q(r)
    BY <1>0, <1>1, <1>5 DEF S
<1>7. r.node \notin 1..Len(t) /\ r.node \in Inner(r.tree) /\ IsTree(r.tree)
    BY GetOrCreateTree
<1> HIDE DEF r
<1>8. r.node = Len(r.tree)
    BY <1>6, <1>7 DEF Inner
<1>9. Kids(r.tree, r.node) = {}
    BY <1>7, <1>8, LastHasNoKids
<1> QED
    BY <1>9 DEF r

(* update_board_info leaves a value where there was one, or room for one.  *)
LEMMA UpdatedInfo ==
    ASSUME NEW t, IsTree(t), NEW info \in BoardInfo
    PROVE  /\ getNode(Updated(t, info), InfoPath) \in Inner(Updated(t, info))
           /\ HasInfo(t) \/ HasRoom(t) => HasInfo(Updated(t, info))
<1> DEFINE r == getOrCreateNode(t, InfoPath)
           n == r.node
           s == IF info = Nil THEN r.tree ELSE setValue(r.tree, n, info)
           u == IF value(s, n) = Nil THEN setValue(s, n, NoData) ELSE s
<1>0. /\ InfoPath \in Seq(Parts) /\ Len(InfoPath) \in Nat /\ PlainPath(InfoPath)
      /\ NoData \in Text /\ Nil \notin Text /\ (info # Nil => info \in Text)
    BY TreeAssumption, DefaultAssumption DEF PlainPath
<1>1. /\ IsTree(r.tree) /\ n \in Inner(r.tree) /\ getNode(r.tree, InfoPath) = n
      /\ getNode(t, InfoPath) # 0 => r.tree = t /\ n = getNode(t, InfoPath)
    BY <1>0, GetOrCreateTree
<1>2. Updated(t, info) = u
    BY Zenon DEF Updated
<1>3. getNode(t, InfoPath) = 0 => Kids(r.tree, n) = {}
    BY <1>0, CreatedEmpty
<1> HIDE DEF r
<1>4. HasInfo(t) \/ HasRoom(t) => ValueChild(r.tree, n) # 0 \/ Kids(r.tree, n) = {}
    BY <1>1, <1>3 DEF HasInfo, HasRoom
<1> HIDE DEF n
<1>5. IsTree(s) /\ Extends(r.tree, s) /\ n \in Inner(s)
    BY <1>0, <1>1, SetValueTree, InnerKept, ExtendsRefl
<1>6. HasInfo(t) \/ HasRoom(t) => value(s, n) # Nil \/ Kids(s, n) = {}
  <2>1. CASE info = Nil
    <3>1. n \in 1..Len(r.tree)
      BY <1>1 DEF Inner
    <3>2. value(r.tree, n) = Nil <=> ValueChild(r.tree, n) = 0
      BY <1>1, <3>1, ValueTypes
    <3> QED
      BY <1>4, <2>1, <3>2
  <2>2. CASE info # Nil
    <3>1. value(s, n) = IF ValueChild(r.tree, n) # 0 \/ Kids(r.tree, n) = {}
                        THEN info ELSE Nil
      BY <1>0, <1>1, <2>2, SetValueTree
    <3> QED
      BY <1>4, <2>2, <3>1
  <2> QED
    BY <2>1, <2>2
<1> HIDE DEF s
<1>7. IsTree(u) /\ Extends(s, u) /\ n \in Inner(u)
    BY <1>0, <1>5, SetValueTree, InnerKept, ExtendsRefl
<1>8. HasInfo(t) \/ HasRoom(t) => value(u, n) # Nil
  <2>1. value(setValue(s, n, NoData), n) =
          IF ValueChild(s, n) # 0 \/ Kids(s, n) = {} THEN NoData ELSE Nil
    BY <1>0, <1>5, SetValueTree
  <2> QED
    BY <1>0, <1>6, <2>1
<1> HIDE DEF u
<1>9. getNode(u, InfoPath) = n
  <2>1. n # 0 /\ n \in 1..Len(u)
    BY <1>7, TreeTypes DEF Inner
  <2>2. getNode(s, InfoPath) = n
    BY <1>0, <1>1, <1>5, <2>1, GetNodeKept
  <2> QED
    BY <1>0, <1>5, <1>7, <2>1, <2>2, GetNodeKept
<1>10. n # 0 /\ (value(u, n) = Nil <=> ValueChild(u, n) = 0)
  <2>1. n # 0 /\ n \in 1..Len(u)
    BY <1>7, TreeTypes DEF Inner
  <2> QED
    BY <1>7, <2>1, ValueTypes
<1> QED
    BY <1>2, <1>7, <1>8, <1>9, <1>10 DEF HasInfo

(* Without blank texts the value, or the room for it, is still there.      *)
LEMMA ReloadInfo ==
    ASSUME NEW t, IsTree(t), WellNamed(t), HasInfo(t) \/ HasRoom(t),
           \A i \in DOMAIN t : IsText(t, i) => ~Blank(t[i].text)
    PROVE  HasInfo(Reloaded(t)) \/ HasRoom(Reloaded(t))
<1> DEFINE r == Reloaded(t)
           n == getNode(t, InfoPath)
           m == getNode(r, InfoPath)
<1>0. Len(InfoPath) \in Nat
    BY TreeAssumption
<1>1. m = Num(t, n) /\ n \in Inner(t) \cup {0}
    BY <1>0, PathReloaded, GetNodeTypes
<1>2. CASE n = 0
    BY <1>1, <1>2, NumFacts DEF HasRoom
<1>3. CASE n # 0 /\ Kids(t, n) = {}
    BY <1>1, <1>3, NoKidsReloaded DEF HasRoom
<1>4. CASE n # 0 /\ Kids(t, n) # {}
  <2> DEFINE c == Min(Kids(t, n))
  <2>1. n \in Inner(t) /\ ValueChild(t, n) # 0
    BY <1>1, <1>4 DEF HasInfo, HasRoom
  <2>2. c \in Kids(t, n) /\ t[c].kind # "ELEMENT"
    <3>1. Kids(t, n) \subseteq Nat
      BY <1>4, KidsAfter
    <3>2. c \in Kids(t, n)
      BY <1>4, <3>1, LeastOf
    <3> QED
      BY <2>1, <3>2 DEF ValueChild
  <2>3. c \in DOMAIN t
    BY <2>2 DEF Kids
  <2>4. c \in KeptNodes(t) /\ ValueChild(r, m) = Num(t, c)
    BY <1>1, <1>4, <2>1, <2>2, <2>3, ValueChildReloaded
  <2>5. n \in KeptNodes(t) /\ Len(r) \in Nat
    BY <2>1, KeptTypes, ReloadTree, TreeTypes
  <2>6. Num(t, c) \in 1..Len(r) /\ Num(t, n) \in 1..Len(r)
    BY <2>4, <2>5, NumFacts
  <2>7. m # 0 /\ ValueChild(r, m) # 0
    BY <1>1, <2>4, <2>5, <2>6
  <2> QED
    BY <2>7 DEF HasInfo
<1> QED
    BY <1>2, <1>3, <1>4

-------------------------------------------------------------------------------
(* The invariant.                                                          *)

(* A start, with any tree in config.xml that can be there.                 *)
LEMMA StartInv ==
    ASSUME NEW t, IsTree(t), Separated(t), HasInfo(t) \/ HasRoom(t),
           NEW info \in BoardInfo, Start(t, info)
    PROVE  TreeInv'
<1> DEFINE r == Reloaded(t)
           s == Updated(r, info)
           n == getNode(s, InfoPath)
           ok == Parsable(t) /\ value(s, n) # Nil
           odd == \E i \in DOMAIN t : Odd(t, i)
<1>0. TypeOK'
    BY StartTree
<1>1. IsTree(r) /\ Separated(r)
    BY ReloadTree, ReloadSeparated
<1>2. IsTree(s) /\ Separated(s) /\ n \in Inner(s)
    BY <1>1, UpdatedTree, UpdatedSeparated, UpdatedInfo
<1>3. n # 0 /\ (value(s, n) = Nil <=> ValueChild(s, n) = 0)
  <2>1. n # 0 /\ n \in 1..Len(s)
    BY <1>2, TreeTypes DEF Inner
  <2> QED
    BY <1>2, <2>1, ValueTypes
<1>4. ~odd => Parsable(t) /\ HasInfo(s)
  <2> SUFFICES ASSUME ~odd PROVE Parsable(t) /\ HasInfo(s)
    OBVIOUS
  <2>1. \A i \in DOMAIN t : ~Odd(t, i)
    OBVIOUS
  <2>1a. \A i \in DOMAIN t :
           t[i].kind = "ELEMENT" => LoadedName(t, i) = t[i].name /\ t[i].name # Nil
    <3> SUFFICES ASSUME NEW i \in DOMAIN t, t[i].kind = "ELEMENT"
                 PROVE  LoadedName(t, i) = t[i].name /\ t[i].name # Nil
      OBVIOUS
    <3>1. t[i].name \in Word
      BY <2>1 DEF Odd
    <3>2. t[i].name # Nil /\ ReadName[t[i].name] = t[i].name
      BY <3>1, TreeAssumption
    <3> QED
      BY <3>2 DEF LoadedName
  <2>1b. Parsable(t)
    BY <2>1, <2>1a DEF Parsable, Odd, BadName, BadEnd
  <2>1c. \A i \in DOMAIN t : IsText(t, i) => ~Blank(t[i].text)
    BY <2>1 DEF Odd
  <2>2. HasInfo(r) \/ HasRoom(r)
    BY <2>1a, <2>1c, ReloadInfo DEF WellNamed
  <2>3. HasInfo(s)
    BY <1>1, <2>2, UpdatedInfo
  <2> QED
    BY <2>1b, <2>3
<1>5. ok => HasInfo(s)
    BY <1>3 DEF HasInfo
<1>6. ~ok => odd
    BY <1>3, <1>4 DEF HasInfo
<1>7. up' = ok /\ tree' = IF ok THEN s ELSE t
    BY Zenon DEF Start
<1> HIDE DEF ok, s, r, n
<1>8. CASE ok
  <2>1. up' /\ tree' = s
    BY <1>7, <1>8
  <2>2. Separated(tree') /\ HasInfo(tree')
    BY <1>2, <1>5, <1>8, <2>1
  <2> QED
    BY <1>0, <2>1, <2>2 DEF TreeInv, StartsUnlessOddText
<1>9. CASE ~ok
  <2>1. ~up' /\ tree' = t
    BY <1>7, <1>9
  <2>2. (\E i \in DOMAIN tree : Odd(tree, i))'
    BY <1>6, <1>9, <2>1 DEF Odd, BadText, BadAttr, IsText
  <2>3. Separated(tree')
    BY <2>1
  <2> QED
    BY <1>0, <2>1, <2>2, <2>3 DEF TreeInv, StartsUnlessOddText
<1> QED
    BY <1>8, <1>9

(* What a request leaves where the board's information is.                 *)
LEMMA InfoKept ==
    ASSUME NEW t, NEW u, IsTree(t), IsTree(u), Extends(t, u), StillValued(t, u),
           HasInfo(t)
    PROVE  HasInfo(u)
<1> DEFINE n == getNode(t, InfoPath)
<1>0. Len(InfoPath) \in Nat
    BY TreeAssumption
<1>1. n # 0 /\ ValueChild(t, n) # 0
    BY DEF HasInfo
<1>2. n \in 1..Len(t)
    BY <1>0, <1>1, GetNodeTypes DEF Inner
<1>3. getNode(u, InfoPath) = n
    BY <1>0, <1>1, GetNodeKept
<1> HIDE DEF n
<1>4. ValueChild(u, n) # 0
    BY <1>1, <1>2 DEF StillValued
<1> QED
    BY <1>1, <1>3, <1>4 DEF HasInfo

(* In every reachable state the tree is one, no two of its texts could be  *)
(* joined by saving, a running httpd has the board's information, and one  *)
(* that failed to start has something odd in config.xml: a blank text, a   *)
(* tag in a text or a comment, ">" in an attribute, a text outside of all  *)
(* elements, or a name that is not a word.                                 *)
THEOREM TreeInvariance == Spec => []TreeInv
<1>1. Init => TreeInv
  <2> SUFFICES ASSUME Init PROVE TreeInv
    OBVIOUS
  <2>1. PICK info \in BoardInfo : tree = Updated(Default, info)
    BY DEF Init
  <2>2. IsTree(Default) /\ Separated(Default) /\ (HasInfo(Default) \/ HasRoom(Default))
    BY TreeAssumption, DefaultAssumption
  <2>3. IsTree(tree) /\ Separated(tree) /\ HasInfo(tree)
    BY <2>1, <2>2, UpdatedTree, UpdatedSeparated, UpdatedInfo
  <2> QED
    BY <2>3 DEF Init, TypeOK, TreeInv, StartsUnlessOddText
<1>2. TreeInv /\ [Next]_vars => TreeInv'
  <2> SUFFICES ASSUME TreeInv, [Next]_vars PROVE TreeInv'
    OBVIOUS
  <2>0. IsTree(tree) /\ Separated(tree) /\ (up => HasInfo(tree))
    BY DEF TreeInv, TypeOK
  <2>1. ASSUME NEW req \in Requests, SetMany(req) PROVE TreeInv'
    <3> DEFINE u == setmany(tree, req).tree
    <3>1. req \in Seq(Keys) /\ HasInfo(tree)
      BY <2>0, <2>1, TreeAssumption DEF SetMany
    <3>2. IsTree(u) /\ Extends(tree, u) /\ StillValued(tree, u) /\ Separated(u)
      BY <2>0, <3>1, SetmanyTree, RequestSeparated
    <3>3. HasInfo(u)
      BY <2>0, <3>1, <3>2, InfoKept
    <3>4. tree' = u /\ up' = TRUE
      BY <2>1 DEF SetMany, TreeInv, TypeOK
    <3> HIDE DEF u
    <3> QED
      BY <3>2, <3>3, <3>4 DEF TreeInv, TypeOK, StartsUnlessOddText
  <2>2. ASSUME NEW req \in Requests, Len(req) = 1, Set(req[1]) PROVE TreeInv'
    <3> DEFINE n == getNode(tree, req[1].path)
               u == setValue(tree, n, req[1].value)
    <3>1. req[1] \in Keys
      <4>1. req \in Seq(Keys) /\ 1 \in 1..Len(req)
        BY <2>2, TreeAssumption
      <4> QED
        BY <4>1
    <3>2. req[1].value \in Text /\ Len(req[1].path) \in Nat
      BY <3>1 DEF Keys
    <3>3. n \in Inner(tree)
      <4>1. n \in Inner(tree) \cup {0}
        BY <2>0, <3>2, GetNodeTypes
      <4>2. n # 0
        BY <2>2 DEF Set
      <4> QED
        BY <4>1, <4>2
    <3>4. IsTree(u) /\ Extends(tree, u) /\ StillValued(tree, u)
      BY <2>0, <3>2, <3>3, SetValueTree DEF StillValued
    <3>5. Separated(u)
      BY <2>0, <3>2, <3>3, ValueSeparated
    <3>6. HasInfo(u)
      BY <2>0, <2>2, <3>4, InfoKept DEF Set
    <3>7. tree' = u /\ up' = TRUE
      BY <2>2 DEF Set, TreeInv, TypeOK
    <3> HIDE DEF u
    <3> QED
      BY <3>4, <3>5, <3>6, <3>7 DEF TreeInv, TypeOK, StartsUnlessOddText
  <2>3. ASSUME NEW info \in BoardInfo, SaveAndRestart(info) PROVE TreeInv'
    BY <2>0, <2>3, StartInv DEF SaveAndRestart
  <2>4. ASSUME NEW info \in BoardInfo, Restore(info) PROVE TreeInv'
    <3> DEFINE u == Updated(Default, info)
    <3>1. /\ IsTree(Default) /\ Separated(Default)
          /\ HasInfo(Default) \/ HasRoom(Default)
      BY TreeAssumption, DefaultAssumption
    <3>2. IsTree(u) /\ Separated(u) /\ HasInfo(u)
      BY <3>1, UpdatedTree, UpdatedSeparated, UpdatedInfo
    <3>3. tree' = u /\ up' = TRUE
      BY <2>4 DEF Restore
    <3> HIDE DEF u
    <3> QED
      BY <3>2, <3>3 DEF TreeInv, TypeOK, StartsUnlessOddText
  <2>5. CASE UNCHANGED vars
    BY <2>5 DEF TreeInv, TypeOK, StartsUnlessOddText, vars
  <2> QED
    BY <2>1, <2>2, <2>3, <2>4, <2>5, Zenon DEF Next
<1> QED
    BY <1>1, <1>2, PTL DEF Spec

(* In every state whose names are read as they are, saving the             *)
(* configuration and reading it again keeps every path, with or without    *)
(* indexes, and every value and attribute that the parser does not change: *)
(* one without white space around it, entities or quotes (utils.lua:29,    *)
(* 124, xml.lua:203).                                                      *)
THEOREM RestartKeepsAll == Spec => []RestartKeeps
<1>1. TreeInv => RestartKeeps
    BY RestartKept DEF TreeInv, TypeOK
<1> QED
    BY <1>1, TreeInvariance, PTL

(* httpd fails to start only with a blank text, a tag in a text or a       *)
(* comment, ">" in an attribute, a text outside of all elements or a name  *)
(* that is not a word in config.xml (httpd.lua:1018, 1190).                *)
THEOREM StartFailsOnlyOnOddText == Spec => []StartsUnlessOddText
<1>1. TreeInv => StartsUnlessOddText
    BY DEF TreeInv
<1> QED
    BY <1>1, TreeInvariance, PTL

===============================================================================
