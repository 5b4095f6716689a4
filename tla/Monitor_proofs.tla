--------------------------- MODULE Monitor_proofs ---------------------------
(***************************************************************************)
(* Proofs about MonitorService: its types; that subscriptions balance;     *)
(* that the tree is the replay of what was read, however the reads are     *)
(* cut; that exactly its leaves are polled on; and that outcomes are       *)
(* Impala's and are kept.  For any number of shells, lines, queries,       *)
(* screens and faults.                                                     *)
(*                                                                         *)
(* The tree is a fold over the lines of the file.  The first part says     *)
(* what that fold computes, by induction over the number of lines (a least *)
(* counterexample, from the theorem that < is well-founded on Nat).  The   *)
(* second says what the operators of the tree do to it.  The third finds   *)
(* five ways a step may move the tree and its pollers, and shows of each   *)
(* that it keeps the invariant.                                            *)
(***************************************************************************)
EXTENDS MonitorService, SequenceTheorems, FiniteSetTheorems, WellFoundedInduction, TLAPS

----------------------------------------------------------------------------
(* Induction and folds *)

\* A set of numbers has a least one.
LEMMA Least ==
    ASSUME NEW T, T \subseteq Nat, T # {}
    PROVE \E x \in T : \A y \in T : x <= y
<1> DEFINE R == OpToRel(<, Nat)
<1>1. IsWellFoundedOn(R, Nat)
  BY NatLessThanWellFounded
<1>2. \A y, x \in Nat : <<y, x>> \in R <=> y < x
  BY DEF OpToRel
<1> HIDE DEF R
<1>3. PICK x \in T : \A y \in T : ~(<<y, x>> \in R)
  BY <1>1, WFMin
<1>4. \A y \in T : ~ (y < x)
  BY <1>2, <1>3
<1>5. \A y \in T : x <= y
  BY <1>4
<1> QED
  BY <1>5

\* What holds of 0, and of n + 1 when it holds of n, holds of every number.
LEMMA Induction ==
    ASSUME NEW T, 0 \in T, \A n \in Nat : n \in T => n + 1 \in T
    PROVE Nat \subseteq T
<1> SUFFICES ASSUME Nat \ T # {} PROVE FALSE
  OBVIOUS
<1>1. PICK x \in Nat \ T : \A y \in Nat \ T : x <= y
  BY Least
<1>2. x # 0 /\ x - 1 \in Nat
  BY <1>1
<1>3. x - 1 \in T
  BY <1>1, <1>2
<1> QED
  BY <1>1, <1>2, <1>3

Feeds(t, s) == FoldLeft(Fed, t, s)
IsFold(t, s, it, D) ==
    it = [S \in SUBSET D |-> IF S = {} THEN t ELSE Fed(it[S \ {Max(S)}], s[Max(S)])]

\* The fold of the library, over a sequence, is a function that is chosen.
LEMMA FoldIsChosen ==
    ASSUME NEW t, NEW s
    PROVE Feeds(t, s) = (CHOOSE it : IsFold(t, s, it, DOMAIN s))[DOMAIN s]
BY DEF Feeds, FoldLeft, MapThenFoldSet, IsFold

\* The last position is the one the fold takes off.
LEMMA MaxOfRange ==
    ASSUME NEW n \in Nat, NEW S \in SUBSET (1 .. n + 1), n + 1 \in S
    PROVE Max(S) = n + 1
<1>1. \A y \in S : n + 1 >= y
  OBVIOUS
<1>2. \A x \in S : (\A y \in S : x >= y) => x = n + 1
  OBVIOUS
<1> QED
  BY <1>1, <1>2 DEF Max

\* There is such a function, for a sequence of any length.
LEMMA FoldExists ==
    ASSUME NEW t, NEW s, NEW n \in Nat
    PROVE \E it : IsFold(t, s, it, 1 .. n)
<1> DEFINE T == {k \in Nat : \E it : IsFold(t, s, it, 1 .. k)}
<1>1. 0 \in T
  <2> DEFINE it == [S \in SUBSET (1 .. 0) |-> t]
  <2>1. SUBSET (1 .. 0) = {{}}
    OBVIOUS
  <2>2. IsFold(t, s, it, 1 .. 0)
    BY <2>1 DEF IsFold
  <2> QED
    BY <2>2
<1>2. ASSUME NEW k \in Nat, k \in T
      PROVE k + 1 \in T
  <2>1. PICK it : IsFold(t, s, it, 1 .. k)
    BY <1>2
  <2> DEFINE F(S) == IF k + 1 \in S THEN Fed(it[S \ {k + 1}], s[k + 1]) ELSE it[S]
             jt == [S \in SUBSET (1 .. k + 1) |-> F(S)]
             H(S) == IF S = {} THEN t ELSE Fed(jt[S \ {Max(S)}], s[Max(S)])
  <2>2. ASSUME NEW S \in SUBSET (1 .. k + 1), k + 1 \in S
        PROVE F(S) = H(S)
    <3>1. Max(S) = k + 1
      BY <2>2, MaxOfRange
    <3>2. S \ {k + 1} \in SUBSET (1 .. k + 1) /\ k + 1 \notin S \ {k + 1}
      OBVIOUS
    <3>3. jt[S \ {k + 1}] = it[S \ {k + 1}]
      BY <3>2
    <3> QED
      BY <2>2, <3>1, <3>3
  <2>3. ASSUME NEW S \in SUBSET (1 .. k + 1), k + 1 \notin S
        PROVE F(S) = H(S)
    <3>1. S \in SUBSET (1 .. k)
      BY <2>3
    <3>2. it[S] = IF S = {} THEN t ELSE Fed(it[S \ {Max(S)}], s[Max(S)])
      BY <2>1, <3>1 DEF IsFold
    <3>3. S \ {Max(S)} \in SUBSET (1 .. k + 1) /\ k + 1 \notin S \ {Max(S)}
      BY <2>3
    <3>4. jt[S \ {Max(S)}] = it[S \ {Max(S)}]
      BY <3>3
    <3> QED
      BY <2>3, <3>2, <3>4
  <2>4. jt = [S \in SUBSET (1 .. k + 1) |-> H(S)]
    BY <2>2, <2>3
  <2>5. IsFold(t, s, jt, 1 .. k + 1)
    BY <2>4 DEF IsFold
  <2> QED
    BY <2>5
<1> HIDE DEF T
<1>3. Nat \subseteq T
  BY <1>1, <1>2, Induction
<1> QED
  BY <1>3 DEF T

(* A run over a sequence, one line at a time *)
IsRun(t, s, g) ==
    /\ g[0] = t
    /\ \A k \in 1 .. Len(s) : g[k] = Fed(g[k - 1], s[k])

\* So feeding lines is what one would think: one after the other.
LEMMA FeedsRun ==
    ASSUME NEW S, NEW s \in Seq(S), NEW t
    PROVE \E g : IsRun(t, s, g) /\ Feeds(t, s) = g[Len(s)]
<1>1. DOMAIN s = 1 .. Len(s) /\ Len(s) \in Nat
  OBVIOUS
<1> DEFINE it == CHOOSE it : IsFold(t, s, it, 1 .. Len(s))
           g == [k \in 0 .. Len(s) |-> it[1 .. k]]
<1>2. IsFold(t, s, it, 1 .. Len(s))
  BY <1>1, FoldExists
<1>3. Feeds(t, s) = it[1 .. Len(s)]
  BY <1>1, FoldIsChosen
<1> HIDE DEF it
<1>4. Feeds(t, s) = g[Len(s)]
  BY <1>1, <1>3
<1>5. g[0] = t
  <2>1. 1 .. 0 = {}
    OBVIOUS
  <2>2. it[{}] = t
    BY <1>2 DEF IsFold
  <2> QED
    BY <1>1, <2>1, <2>2
<1>6. ASSUME NEW k \in 1 .. Len(s)
      PROVE g[k] = Fed(g[k - 1], s[k])
  <2>1. k - 1 \in Nat /\ k \in 0 .. Len(s) /\ k - 1 \in 0 .. Len(s)
    BY <1>1
  <2>2. 1 .. k \in SUBSET (1 .. Len(s)) /\ 1 .. k # {}
    BY SMTT(30), <1>1
  <2>3. Max(1 .. k) = k
    <3>1. (k - 1) + 1 = k
      BY <2>1
    <3>2. \A n \in Nat : n + 1 \in 1 .. n + 1
      OBVIOUS
    <3> QED
      BY <2>1, <3>1, <3>2, MaxOfRange
  <2>4. (1 .. k) \ {k} = 1 .. (k - 1)
    BY <2>1
  <2>5. it[1 .. k] = Fed(it[(1 .. k) \ {Max(1 .. k)}], s[Max(1 .. k)])
    BY <1>2, <2>2 DEF IsFold
  <2> QED
    BY <2>1, <2>3, <2>4, <2>5
<1> QED
  BY <1>4, <1>5, <1>6 DEF IsRun

(* The hierarchy, typed *)

Chains == Seq(Seq(Node) \ {<<>>})
ShellNode == [shell : Nat \ {0}, call : 1 .. CallCount, chains : Chains]
Trees == Seq(ShellNode)

(* There is a node at place <<i, c, n>>. *)
Is(t, i, c, n) == /\ i \in 1 .. Len(t)
                  /\ c \in 1 .. Len(t[i].chains)
                  /\ n \in 1 .. Len(t[i].chains[c])

\* The types of what a tree is made of.
LEMMA TreeParts ==
    ASSUME NEW t \in Trees, NEW i \in 1 .. Len(t)
    PROVE  /\ t[i] \in ShellNode
           /\ t[i].shell \in Nat \ {0} /\ t[i].call \in 1 .. CallCount
           /\ t[i].chains \in Chains /\ Len(t[i].chains) \in Nat
           /\ \A c \in 1 .. Len(t[i].chains) :
                /\ t[i].chains[c] \in Seq(Node) /\ t[i].chains[c] # <<>>
                /\ Len(t[i].chains[c]) \in Nat \ {0}
                /\ \A n \in 1 .. Len(t[i].chains[c]) : t[i].chains[c][n] \in Node
<1>1. t[i] \in ShellNode
  BY DEF Trees
<1>2. t[i].chains \in Chains /\ t[i].shell \in Nat \ {0} /\ t[i].call \in 1 .. CallCount
  BY <1>1 DEF ShellNode
<1>3. ASSUME NEW c \in 1 .. Len(t[i].chains)
      PROVE /\ t[i].chains[c] \in Seq(Node) /\ t[i].chains[c] # <<>>
            /\ Len(t[i].chains[c]) \in Nat \ {0}
            /\ \A n \in 1 .. Len(t[i].chains[c]) : t[i].chains[c][n] \in Node
  <2>1. t[i].chains[c] \in Seq(Node) \ {<<>>}
    BY <1>2 DEF Chains
  <2> QED
    BY <2>1, EmptySeq, ElementOfSeq
<1> QED
  BY <1>1, <1>2, <1>3 DEF Chains

\* A place is a shell of the tree, a chain of the shell, a node of the chain.
LEMMA PlaceFacts ==
    ASSUME NEW t \in Trees
    PROVE  /\ \A i, c, n : <<i, c, n>> \in Places(t) <=> Is(t, i, c, n)
           /\ \A s \in Places(t) : s = <<s[1], s[2], s[3]>> /\ Is(t, s[1], s[2], s[3])
BY DEF Places, Is

\* The nodes are what is at the places.
LEMMA NodeFacts ==
    ASSUME NEW t \in Trees
    PROVE  /\ \A n \in Nodes(t) : n \in Node
           /\ \A n : n \in Nodes(t) <=> \E i, c, k : Is(t, i, c, k) /\ n = t[i].chains[c][k]
           /\ \A i, c, k : Is(t, i, c, k) => t[i].chains[c][k] \in Nodes(t)
<1>1. \A n : n \in Nodes(t) <=> \E i, c, k : Is(t, i, c, k) /\ n = t[i].chains[c][k]
  <2>1. ASSUME NEW n \in Nodes(t)
        PROVE \E i, c, k : Is(t, i, c, k) /\ n = t[i].chains[c][k]
    <3>1. PICK s \in Places(t) : n = t[s[1]].chains[s[2]][s[3]]
      BY <2>1 DEF Nodes, NodeAt
    <3>2. Is(t, s[1], s[2], s[3])
      BY <3>1, PlaceFacts
    <3> QED
      BY <3>1, <3>2
  <2>2. ASSUME NEW i, NEW c, NEW k, Is(t, i, c, k)
        PROVE t[i].chains[c][k] \in Nodes(t)
    <3> DEFINE s == <<i, c, k>>
    <3>1. s \in Places(t)
      BY <2>2, PlaceFacts
    <3>2. NodeAt(t, s) = t[i].chains[c][k]
      BY DEF NodeAt
    <3> QED
      BY <3>1, <3>2 DEF Nodes
  <2> QED
    BY <2>1, <2>2
<1>2. \A i, c, k : Is(t, i, c, k) => t[i].chains[c][k] \in Node
  BY TreeParts DEF Is
<1> QED
  BY <1>1, <1>2

\* A leaf ends a chain, ...
LEMMA LeafIsSomewhere ==
    ASSUME NEW t \in Trees, NEW n \in Leaves(t)
    PROVE  \E i \in 1 .. Len(t) : \E c \in 1 .. Len(t[i].chains) :
             n = t[i].chains[c][Len(t[i].chains[c])]
<1>1. PICK s \in LeafPlaces(t) : n = NodeAt(t, s)
  BY DEF Leaves
<1>2. Is(t, s[1], s[2], s[3]) /\ s[3] = Len(t[s[1]].chains[s[2]])
  BY <1>1, PlaceFacts DEF LeafPlaces
<1> QED
  BY <1>1, <1>2 DEF NodeAt, Is

\* ... and the end of a chain is a leaf.
LEMMA LeafFacts ==
    ASSUME NEW t \in Trees
    PROVE  /\ \A i \in 1 .. Len(t) : \A c \in 1 .. Len(t[i].chains) :
                t[i].chains[c][Len(t[i].chains[c])] \in Leaves(t)
           /\ Leaves(t) \subseteq Nodes(t)
<1>1. ASSUME NEW i \in 1 .. Len(t), NEW c \in 1 .. Len(t[i].chains)
      PROVE t[i].chains[c][Len(t[i].chains[c])] \in Leaves(t)
  <2>1. Len(t[i].chains[c]) \in Nat \ {0}
    BY TreeParts
  <2>2. Is(t, i, c, Len(t[i].chains[c]))
    BY <2>1 DEF Is
  <2> DEFINE s == <<i, c, Len(t[i].chains[c])>>
  <2>3. s \in LeafPlaces(t) /\ NodeAt(t, s) = t[i].chains[c][Len(t[i].chains[c])]
    BY <2>2, PlaceFacts DEF LeafPlaces, NodeAt
  <2> QED
    BY <2>3 DEF Leaves
<1>2. Leaves(t) \subseteq Nodes(t)
  BY DEF Leaves, Nodes, LeafPlaces
<1> QED
  BY <1>1, <1>2

(* A tree in which one shell got other chains *)
Replaced(t, i, x) == [t EXCEPT ![i] = [t[i] EXCEPT !.chains = x]]

DiffersAt(u, t, i, x) ==
    /\ u \in Trees /\ Len(u) = Len(t)
    /\ u[i].chains = x /\ u[i].shell = t[i].shell /\ u[i].call = t[i].call
    /\ \A j \in 1 .. Len(t) : j # i => u[j] = t[j]

\* Nothing else of the tree changes with the chains of a shell.
LEMMA OtherChains ==
    ASSUME NEW t \in Trees, NEW i \in 1 .. Len(t), NEW x \in Chains,
           NEW u, u = Replaced(t, i, x)
    PROVE  DiffersAt(u, t, i, x)
<1> DEFINE e == [t[i] EXCEPT !.chains = x]
<1>1. e \in ShellNode /\ e.chains = x /\ e.shell = t[i].shell /\ e.call = t[i].call
  BY TreeParts DEF ShellNode
<1>2. u = [t EXCEPT ![i] = e]
  BY DEF Replaced
<1> HIDE DEF e
<1>3. t \in Seq(ShellNode)
  BY DEF Trees
<1>4. /\ u \in Seq(ShellNode) /\ Len(u) = Len(t)
      /\ \A j \in 1 .. Len(t) : u[j] = IF j = i THEN e ELSE t[j]
  BY <1>1, <1>2, <1>3, ExceptSeq
<1> QED
  BY <1>1, <1>4 DEF Trees, DiffersAt

\* A node as it is made, without an observation.
LEMMA ObservedIsNode ==
    ASSUME NEW q \in QueryIds, NEW from \in {"log", "operator"}
    PROVE  Observed(q, from) \in Node /\ Observed(q, from).obs = "none"
           /\ Observed(q, from).q = q /\ Observed(q, from).from = from
BY DEF Observed, Node

\* A query opens a chain of its shell.
LEMMA WithQueryFacts ==
    ASSUME NEW t \in Trees, NEW i \in 1 .. Len(t), NEW q \in QueryIds,
           NEW from \in {"log", "operator"}, NEW u, u = WithQuery(t, i, q, from)
    PROVE  DiffersAt(u, t, i, Append(t[i].chains, <<Observed(q, from)>>))
<1> DEFINE x == Append(t[i].chains, <<Observed(q, from)>>)
<1>1. <<Observed(q, from)>> \in Seq(Node) \ {<<>>}
  BY ObservedIsNode
<1>2. x \in Chains
  BY <1>1, TreeParts, AppendProperties DEF Chains
<1>3. u = Replaced(t, i, x)
  BY DEF WithQuery, Replaced
<1> HIDE DEF x
<1>4. DiffersAt(u, t, i, x)
  BY <1>2, <1>3, OtherChains
<1> QED
  BY <1>4 DEF x

Longer(x, k, e) == [x EXCEPT ![k] = Append(x[k], e)]

\* A retry goes to the end of the last chain of its shell.
LEMMA WithRetryFacts ==
    ASSUME NEW t \in Trees, NEW i \in 1 .. Len(t), NEW q \in QueryIds, t[i].chains # <<>>,
           NEW u, u = WithRetry(t, i, q), NEW k, k = Len(t[i].chains)
    PROVE  /\ k \in 1 .. Len(t[i].chains)
           /\ DiffersAt(u, t, i, Longer(t[i].chains, k, Observed(q, "log")))
<1> DEFINE e == Append(t[i].chains[k], Observed(q, "log"))
           x == [t[i].chains EXCEPT ![k] = e]
<1>1. k \in 1 .. Len(t[i].chains)
  BY TreeParts, EmptySeq DEF Chains
<1>2. e \in Seq(Node) \ {<<>>}
  <2>1. Observed(q, "log") \in Node
    BY ObservedIsNode
  <2>2. t[i].chains[k] \in Seq(Node)
    BY <1>1, TreeParts
  <2> QED
    BY <2>1, <2>2, AppendProperties
<1>3. x \in Chains
  BY <1>1, <1>2, TreeParts, ExceptSeq DEF Chains
<1>4. u = Replaced(t, i, x)
  BY DEF WithRetry, Replaced
<1> HIDE DEF x, e
<1>5. DiffersAt(u, t, i, x)
  BY <1>3, <1>4, OtherChains
<1>6. x = Longer(t[i].chains, k, Observed(q, "log"))
  BY DEF x, e, Longer
<1> QED
  BY <1>1, <1>5, <1>6

\* One node more.
LEMMA NodesOfWithQuery ==
    ASSUME NEW t \in Trees, NEW i \in 1 .. Len(t), NEW q \in QueryIds,
           NEW from \in {"log", "operator"}, NEW u, u = WithQuery(t, i, q, from),
           NEW n \in Nodes(u)
    PROVE  n \in Nodes(t) \/ n = Observed(q, from)
<1> DEFINE x == Append(t[i].chains, <<Observed(q, from)>>)
<1>9. DiffersAt(u, t, i, x)
  BY WithQueryFacts
<1> HIDE DEF x
<1>1. /\ u \in Trees /\ Len(u) = Len(t) /\ u[i].chains = x
      /\ \A j \in 1 .. Len(t) : j # i => u[j] = t[j]
  BY <1>9 DEF DiffersAt
<1>2. PICK j, c, k : Is(u, j, c, k) /\ n = u[j].chains[c][k]
  BY <1>1, NodeFacts
<1>3. CASE j # i
  <2>1. Is(t, j, c, k) /\ n = t[j].chains[c][k]
    BY <1>1, <1>2, <1>3 DEF Is
  <2> QED
    BY <2>1, NodeFacts
<1>4. CASE j = i
  <2>1. t[i].chains \in Seq(Seq(Node) \ {<<>>}) /\ <<Observed(q, from)>> \in Seq(Node) \ {<<>>}
    BY TreeParts, ObservedIsNode DEF Chains
  <2>2. /\ Len(u[i].chains) = Len(t[i].chains) + 1 /\ Len(t[i].chains) \in Nat
        /\ \A d \in 1 .. Len(t[i].chains) : u[i].chains[d] = t[i].chains[d]
        /\ u[i].chains[Len(t[i].chains) + 1] = <<Observed(q, from)>>
    BY <1>1, <2>1, AppendProperties DEF x
  <2>3. CASE c \in 1 .. Len(t[i].chains)
    <3>1. Is(t, i, c, k) /\ n = t[i].chains[c][k]
      BY <1>2, <1>4, <2>2, <2>3 DEF Is
    <3> QED
      BY <3>1, NodeFacts
  <2>4. CASE c = Len(t[i].chains) + 1
    <3>1. k \in 1 .. Len(<<Observed(q, from)>>) /\ n = <<Observed(q, from)>>[k]
      BY <1>2, <1>4, <2>2, <2>4 DEF Is
    <3> QED
      BY <3>1
  <2>5. c \in 1 .. Len(t[i].chains) + 1
    BY <1>2, <1>4, <2>2 DEF Is
  <2> QED
    BY <2>2, <2>3, <2>4, <2>5
<1> QED
  BY <1>3, <1>4

\* One node more.
LEMMA NodesOfWithRetry ==
    ASSUME NEW t \in Trees, NEW i \in 1 .. Len(t), NEW q \in QueryIds, t[i].chains # <<>>,
           NEW u, u = WithRetry(t, i, q), NEW n \in Nodes(u)
    PROVE  n \in Nodes(t) \/ n = Observed(q, "log")
<1>0. PICK k : k = Len(t[i].chains)
  OBVIOUS
<1> DEFINE e == Append(t[i].chains[k], Observed(q, "log"))
           x == Longer(t[i].chains, k, Observed(q, "log"))
<1>9. k \in 1 .. Len(t[i].chains) /\ DiffersAt(u, t, i, x)
  BY <1>0, WithRetryFacts
<1>1. /\ u \in Trees /\ Len(u) = Len(t) /\ k \in 1 .. Len(t[i].chains)
      /\ u[i].chains = x
      /\ \A j \in 1 .. Len(t) : j # i => u[j] = t[j]
  BY <1>9 DEF DiffersAt
<1>2. PICK j, c, m : Is(u, j, c, m) /\ n = u[j].chains[c][m]
  BY <1>1, NodeFacts
<1>3. CASE j # i
  <2>1. Is(t, j, c, m) /\ n = t[j].chains[c][m]
    BY <1>1, <1>2, <1>3 DEF Is
  <2> QED
    BY <2>1, NodeFacts
<1>4. CASE j = i
  <2>1. Observed(q, "log") \in Node /\ t[i].chains[k] \in Seq(Node)
    BY <1>1, TreeParts, ObservedIsNode
  <2>2. /\ e \in Seq(Node) \ {<<>>} /\ Len(e) = Len(t[i].chains[k]) + 1
        /\ \A d \in 1 .. Len(t[i].chains[k]) : e[d] = t[i].chains[k][d]
        /\ e[Len(t[i].chains[k]) + 1] = Observed(q, "log")
    BY <2>1, AppendProperties
  <2>3. u[i].chains = [t[i].chains EXCEPT ![k] = e]
    BY <1>1 DEF Longer
  <2> HIDE DEF e
  <2>4. t[i].chains \in Seq(Seq(Node) \ {<<>>})
    BY TreeParts DEF Chains
  <2>5. /\ Len(u[i].chains) = Len(t[i].chains)
        /\ \A d \in 1 .. Len(t[i].chains) : u[i].chains[d] = IF d = k THEN e ELSE t[i].chains[d]
    <3>1. PICK y : y = t[i].chains
      OBVIOUS
    <3>2. y \in Seq(Seq(Node) \ {<<>>}) /\ k \in 1 .. Len(y) /\ u[i].chains = [y EXCEPT ![k] = e]
      BY <1>1, <2>3, <2>4, <3>1
    <3>3. /\ Len([y EXCEPT ![k] = e]) = Len(y)
          /\ \A d \in 1 .. Len(y) : [y EXCEPT ![k] = e][d] = IF d = k THEN e ELSE y[d]
      BY SMTT(30), <2>2, <3>2, ExceptSeq
    <3> QED
      BY <3>1, <3>2, <3>3
  <2>6. c \in 1 .. Len(t[i].chains) /\ m \in 1 .. Len(u[i].chains[c]) /\ n = u[i].chains[c][m]
    BY <1>2, <1>4, <2>5 DEF Is
  <2>7. CASE c # k \/ m # Len(t[i].chains[k]) + 1
    <3>1. Is(t, i, c, m) /\ n = t[i].chains[c][m]
      <4>1. CASE c # k
        BY <2>5, <2>6, <4>1 DEF Is
      <4>2. CASE c = k
        <5>1. Len(t[i].chains[k]) \in Nat /\ m \in 1 .. Len(t[i].chains[k]) + 1 /\ n = e[m]
          BY SMTT(30), <2>1, <2>2, <2>5, <2>6, <4>2
        <5>2. m \in 1 .. Len(t[i].chains[k])
          BY <2>7, <4>2, <5>1
        <5> QED
          BY <2>2, <2>6, <4>2, <5>1, <5>2 DEF Is
      <4> QED
        BY <4>1, <4>2
    <3> QED
      BY <3>1, NodeFacts
  <2>8. CASE c = k /\ m = Len(t[i].chains[k]) + 1
    BY <2>2, <2>5, <2>6, <2>8
  <2> QED
    BY <2>7, <2>8
<1> QED
  BY <1>3, <1>4

(* One line fed to a tree *)

Naming == {"query_discovered", "query_retried"}
Lines(k) == {e \in Event : e.type \in Naming => e.query \in 1 .. k}

At(t, line) == CHOOSE i \in ShellIndex(t, line.shell) : TRUE
NewShell(line) == [shell |-> line.shell, call |-> line.call, chains |-> <<>>]

\* What feed_line makes of a line: a shell, a query, a retry, or nothing.
LEMMA FedCases ==
    ASSUME NEW t, NEW line
    PROVE  \/ /\ line.type = "shell_started" /\ ShellIndex(t, line.shell) = {}
              /\ Fed(t, line) = Append(t, NewShell(line))
           \/ /\ line.type = "query_discovered" /\ ShellIndex(t, line.shell) # {}
              /\ At(t, line) \in ShellIndex(t, line.shell)
              /\ Fed(t, line) = WithQuery(t, At(t, line), line.query, "log")
           \/ /\ line.type = "query_retried" /\ ShellIndex(t, line.shell) # {}
              /\ At(t, line) \in ShellIndex(t, line.shell) /\ t[At(t, line)].chains # <<>>
              /\ Fed(t, line) = WithRetry(t, At(t, line), line.query)
           \/ /\ Fed(t, line) = t
              /\ \/ line.type # "shell_started" /\ ShellIndex(t, line.shell) = {}
                 \/ ShellIndex(t, line.shell) # {} /\ line.type \notin Naming
                 \/ /\ ShellIndex(t, line.shell) # {} /\ line.type = "query_retried"
                    /\ At(t, line) \in ShellIndex(t, line.shell) /\ t[At(t, line)].chains = <<>>
<1>1. ShellIndex(t, line.shell) # {} => At(t, line) \in ShellIndex(t, line.shell)
  BY DEF At
<1>2. CASE ShellIndex(t, line.shell) = {}
  BY <1>2 DEF Fed, NewShell
<1>3. CASE ShellIndex(t, line.shell) # {}
  <2>1. Fed(t, line) = CASE line.type = "query_discovered" -> WithQuery(t, At(t, line), line.query, "log")
                         [] line.type = "query_retried" /\ t[At(t, line)].chains # <<>> ->
                                WithRetry(t, At(t, line), line.query)
                         [] OTHER -> t
    BY <1>3 DEF Fed, At
  <2> HIDE DEF At
  <2> QED
    BY <1>1, <1>3, <2>1 DEF Naming
<1> QED
  BY <1>2, <1>3

\* A line adds at most a node without an observation.
LEMMA FedFacts ==
    ASSUME NEW k \in Nat, k <= MaxQueries, NEW t \in Trees, NEW line \in Lines(k),
           NEW u, u = Fed(t, line)
    PROVE  /\ u \in Trees
           /\ \A n \in Nodes(u) : n \in Nodes(t) \/ (n.obs = "none" /\ n.q <= k)
<1>1. line.type \in Naming => line.query \in 1 .. k /\ line.query \in QueryIds
  BY EventFileAssumption DEF Lines, QueryIds
<1>2. ASSUME NEW i, i \in ShellIndex(t, line.shell)
      PROVE i \in 1 .. Len(t)
  BY <1>2 DEF ShellIndex
<1>3. CASE u = Append(t, NewShell(line)) /\ line.type = "shell_started"
  <2>1. NewShell(line) \in ShellNode
    <3>1. line.shell \in Nat \ {0} /\ line.call \in 1 .. CallCount
      BY DEF Lines, Event
    <3>2. <<>> \in Chains
      BY DEF Chains
    <3> QED
      BY <3>1, <3>2 DEF NewShell, ShellNode
  <2>2. /\ u \in Trees /\ Len(u) = Len(t) + 1 /\ Len(t) \in Nat
        /\ \A i \in 1 .. Len(t) : u[i] = t[i]
        /\ u[Len(t) + 1] = NewShell(line)
    BY <1>3, <2>1, AppendProperties DEF Trees
  <2>3. ASSUME NEW n \in Nodes(u) PROVE n \in Nodes(t)
    <3>1. PICK i, c, m : Is(u, i, c, m) /\ n = u[i].chains[c][m]
      BY <2>2, NodeFacts
    <3>2. i # Len(t) + 1
      BY <2>2, <3>1 DEF Is, NewShell
    <3>3. i \in 1 .. Len(t)
      BY <2>2, <3>1, <3>2 DEF Is
    <3>4. Is(t, i, c, m) /\ n = t[i].chains[c][m]
      BY <2>2, <3>1, <3>3 DEF Is
    <3> QED
      BY <3>4, NodeFacts
  <2> QED
    BY <2>2, <2>3
<1>4. ASSUME NEW i \in 1 .. Len(t), u = WithQuery(t, i, line.query, "log"), line.type \in Naming
      PROVE /\ u \in Trees
            /\ \A n \in Nodes(u) : n \in Nodes(t) \/ (n.obs = "none" /\ n.q <= k)
  <2>1. line.query \in QueryIds /\ line.query <= k
    BY <1>1, <1>4
  <2>2. u \in Trees
    BY <1>4, <2>1, WithQueryFacts DEF DiffersAt
  <2>3. ASSUME NEW n \in Nodes(u) PROVE n \in Nodes(t) \/ n = Observed(line.query, "log")
    BY <1>4, <2>1, NodesOfWithQuery
  <2> QED
    BY <2>1, <2>2, <2>3, ObservedIsNode
<1>5. ASSUME NEW i \in 1 .. Len(t), t[i].chains # <<>>, u = WithRetry(t, i, line.query),
             line.type \in Naming
      PROVE /\ u \in Trees
            /\ \A n \in Nodes(u) : n \in Nodes(t) \/ (n.obs = "none" /\ n.q <= k)
  <2>1. line.query \in QueryIds /\ line.query <= k
    BY <1>1, <1>5
  <2>2. PICK m : m = Len(t[i].chains)
    OBVIOUS
  <2> DEFINE x == Longer(t[i].chains, m, Observed(line.query, "log"))
  <2>5. DiffersAt(u, t, i, x)
    BY <1>5, <2>1, <2>2, WithRetryFacts
  <2> HIDE DEF x
  <2>3. u \in Trees
    BY <2>5 DEF DiffersAt
  <2>4. ASSUME NEW n \in Nodes(u) PROVE n \in Nodes(t) \/ n = Observed(line.query, "log")
    BY <1>5, <2>1, NodesOfWithRetry
  <2> QED
    BY <2>1, <2>3, <2>4, ObservedIsNode
<1> QED
  BY <1>2, <1>3, <1>4, <1>5, FedCases DEF Naming

(* Many lines fed to a tree *)

\* No line changes nothing, ...
LEMMA FeedsEmpty ==
    ASSUME NEW t
    PROVE  Feeds(t, <<>>) = t
<1>1. <<>> \in Seq({}) /\ Len(<<>>) = 0
  BY EmptySeq
<1>2. PICK g : IsRun(t, <<>>, g) /\ Feeds(t, <<>>) = g[Len(<<>>)]
  BY <1>1, FeedsRun
<1> QED
  BY <1>1, <1>2 DEF IsRun

\* ... the last line is fed last, ...
LEMMA FeedsAppend ==
    ASSUME NEW S, NEW s \in Seq(S), NEW e \in S, NEW t
    PROVE  Feeds(t, Append(s, e)) = Fed(Feeds(t, s), e)
<1> DEFINE r == Append(s, e)
<1>1. /\ r \in Seq(S) /\ Len(r) = Len(s) + 1 /\ Len(s) \in Nat
      /\ \A i \in 1 .. Len(s) : r[i] = s[i]
      /\ r[Len(s) + 1] = e
  BY AppendProperties
<1> HIDE DEF r
<1>2. PICK g : IsRun(t, r, g) /\ Feeds(t, r) = g[Len(r)]
  BY <1>1, FeedsRun
<1>3. PICK h : IsRun(t, s, h) /\ Feeds(t, s) = h[Len(s)]
  BY FeedsRun
<1> DEFINE T == {k \in Nat : k <= Len(s) => g[k] = h[k]}
<1>4. 0 \in T
  BY <1>2, <1>3 DEF IsRun
<1>5. ASSUME NEW k \in Nat, k \in T PROVE k + 1 \in T
  <2>1. SUFFICES ASSUME k + 1 <= Len(s) PROVE g[k + 1] = h[k + 1]
    BY <1>5
  <2>2. k + 1 \in 1 .. Len(s) /\ k + 1 \in 1 .. Len(r) /\ (k + 1) - 1 = k
    BY <1>1, <2>1
  <2>3. g[k + 1] = Fed(g[(k + 1) - 1], r[k + 1])
    BY <1>2, <2>2 DEF IsRun
  <2>4. h[k + 1] = Fed(h[(k + 1) - 1], s[k + 1])
    BY <1>3, <2>2 DEF IsRun
  <2>5. g[k] = h[k]
    BY <1>1, <1>5, <2>1
  <2> QED
    BY <1>1, <2>2, <2>3, <2>4, <2>5
<1> HIDE DEF T
<1>6. Len(s) \in T
  BY <1>1, <1>4, <1>5, Induction
<1>7. g[Len(s)] = h[Len(s)]
  BY <1>1, <1>6 DEF T
<1>8. g[Len(s) + 1] = Fed(g[(Len(s) + 1) - 1], r[Len(s) + 1])
  <2>1. Len(s) + 1 \in 1 .. Len(r)
    BY <1>1
  <2> QED
    BY <1>2, <2>1 DEF IsRun
<1>9. (Len(s) + 1) - 1 = Len(s)
  BY <1>1
<1> QED
  BY <1>1, <1>2, <1>3, <1>7, <1>8, <1>9 DEF r

\* ... and lines may be fed in two parts: what makes a read of new lines enough.
LEMMA FeedsConcat ==
    ASSUME NEW S, NEW s \in Seq(S), NEW t
    PROVE  \A r \in Seq(S) : Feeds(t, s \o r) = Feeds(Feeds(t, s), r)
<1> DEFINE T == {m \in Nat : \A r \in Seq(S) : Len(r) = m => Feeds(t, s \o r) = Feeds(Feeds(t, s), r)}
<1>1. 0 \in T
  <2>1. ASSUME NEW r \in Seq(S), Len(r) = 0 PROVE Feeds(t, s \o r) = Feeds(Feeds(t, s), r)
    <3>1. r = <<>>
      BY <2>1, EmptySeq
    <3>2. s \o <<>> = s
      BY ConcatEmptySeq
    <3> QED
      BY <3>1, <3>2, FeedsEmpty
  <2> QED
    BY <2>1
<1>2. ASSUME NEW m \in Nat, m \in T PROVE m + 1 \in T
  <2>1. ASSUME NEW r \in Seq(S), Len(r) = m + 1 PROVE Feeds(t, s \o r) = Feeds(Feeds(t, s), r)
    <3>1. r # <<>>
      BY <2>1, EmptySeq
    <3>2. PICK p \in Seq(S), e \in S : r = Append(p, e)
      BY <3>1, SequenceEmptyOrAppend
    <3>3. Len(p) = m /\ Len(p) \in Nat
      BY <2>1, <3>2, AppendProperties
    <3>4. s \o p \in Seq(S)
      BY ConcatProperties
    <3>5. <<e>> \in Seq(S)
      OBVIOUS
    <3>6. s \o r = Append(s \o p, e)
      <4>1. r = p \o <<e>> /\ Append(s \o p, e) = (s \o p) \o <<e>>
        BY <3>2, <3>4, AppendIsConcat
      <4> QED
        BY <3>5, <4>1, ConcatAssociative
    <3>7. Feeds(t, s \o r) = Fed(Feeds(t, s \o p), e)
      BY <3>4, <3>6, FeedsAppend
    <3>8. Feeds(t, s \o p) = Feeds(Feeds(t, s), p)
      BY <1>2, <3>3
    <3>9. Feeds(Feeds(t, s), r) = Fed(Feeds(Feeds(t, s), p), e)
      BY <3>2, FeedsAppend
    <3> QED
      BY <3>7, <3>8, <3>9
  <2> QED
    BY <2>1
<1> HIDE DEF T
<1>3. Nat \subseteq T
  BY <1>1, <1>2, Induction
<1>4. \A r \in Seq(S) : Len(r) \in Nat
  BY LenProperties
<1> QED
  BY <1>3, <1>4 DEF T

\* Lines add nodes without an observation only.
LEMMA FeedsFacts ==
    ASSUME NEW k \in Nat, k <= MaxQueries, NEW t \in Trees
    PROVE  \A s \in Seq(Lines(k)) :
             /\ Feeds(t, s) \in Trees
             /\ \A n \in Nodes(Feeds(t, s)) : n \in Nodes(t) \/ (n.obs = "none" /\ n.q <= k)
<1> DEFINE P(s) == /\ Feeds(t, s) \in Trees
                   /\ \A n \in Nodes(Feeds(t, s)) : n \in Nodes(t) \/ (n.obs = "none" /\ n.q <= k)
           T == {m \in Nat : \A s \in Seq(Lines(k)) : Len(s) = m => P(s)}
<1>1. 0 \in T
  <2>1. ASSUME NEW s \in Seq(Lines(k)), Len(s) = 0 PROVE P(s)
    <3>1. s = <<>>
      BY <2>1, EmptySeq
    <3> QED
      BY <3>1, FeedsEmpty
  <2> QED
    BY <2>1
<1>2. ASSUME NEW m \in Nat, m \in T PROVE m + 1 \in T
  <2>1. ASSUME NEW s \in Seq(Lines(k)), Len(s) = m + 1 PROVE P(s)
    <3>1. s # <<>>
      BY <2>1, EmptySeq
    <3>2. PICK p \in Seq(Lines(k)), e \in Lines(k) : s = Append(p, e)
      BY <3>1, SequenceEmptyOrAppend
    <3>3. Len(p) = m /\ Len(p) \in Nat
      BY <2>1, <3>2, AppendProperties
    <3>4. P(p)
      BY <1>2, <3>3
    <3>5. Feeds(t, s) = Fed(Feeds(t, p), e)
      BY <3>2, FeedsAppend
    <3>6. /\ Feeds(t, s) \in Trees
          /\ \A n \in Nodes(Feeds(t, s)) : n \in Nodes(Feeds(t, p)) \/ (n.obs = "none" /\ n.q <= k)
      BY <3>4, <3>5, FedFacts
    <3> QED
      BY <3>4, <3>6
  <2> QED
    BY <2>1
<1> HIDE DEF T
<1>3. Nat \subseteq T
  BY <1>1, <1>2, Induction
<1>4. \A s \in Seq(Lines(k)) : Len(s) \in Nat
  BY LenProperties
<1> QED
  BY <1>3, <1>4 DEF T

(* Two trees of the same queries, where the operator touched nothing in the first *)

AllLog(x) == \A c \in 1 .. Len(x) : \A n \in 1 .. Len(x[c]) : x[c][n].from = "log"

SameQueries(x, y) ==
    /\ Len(x) = Len(y)
    /\ \A c \in 1 .. Len(x) : /\ Len(x[c]) = Len(y[c])
                              /\ \A n \in 1 .. Len(x[c]) : x[c][n].q = y[c][n].q

Mirrors(t, w) ==
    /\ Len(t) = Len(w)
    /\ \A i \in 1 .. Len(t) : /\ t[i].shell = w[i].shell
                              /\ AllLog(t[i].chains) => SameQueries(t[i].chains, w[i].chains)

\* The types of what the chains of a shell are made of.
LEMMA ChainParts ==
    ASSUME NEW x \in Chains
    PROVE  /\ Len(x) \in Nat /\ x \in Seq(Seq(Node) \ {<<>>})
           /\ \A c \in 1 .. Len(x) : /\ x[c] \in Seq(Node) /\ x[c] # <<>>
                                     /\ Len(x[c]) \in Nat \ {0}
<1>1. Len(x) \in Nat /\ x \in Seq(Seq(Node) \ {<<>>})
  BY LenProperties DEF Chains
<1>2. ASSUME NEW c \in 1 .. Len(x)
      PROVE x[c] \in Seq(Node) /\ x[c] # <<>> /\ Len(x[c]) \in Nat \ {0}
  <2>1. x[c] \in Seq(Node) \ {<<>>}
    BY <1>1
  <2> QED
    BY <2>1, EmptySeq
<1> QED
  BY <1>1, <1>2

\* A chain more on both sides.
LEMMA NewChain ==
    ASSUME NEW x \in Chains, NEW e \in Seq(Node) \ {<<>>}, NEW u, u = Append(x, e)
    PROVE  /\ AllLog(u) => AllLog(x)
           /\ \A y \in Chains : SameQueries(x, y) => SameQueries(u, Append(y, e))
<1>1. /\ Len(u) = Len(x) + 1 /\ Len(x) \in Nat
      /\ \A c \in 1 .. Len(x) : u[c] = x[c]
      /\ u[Len(x) + 1] = e
  BY ChainParts, AppendProperties
<1>2. AllLog(u) => AllLog(x)
  BY <1>1 DEF AllLog
<1>3. ASSUME NEW y \in Chains, SameQueries(x, y) PROVE SameQueries(u, Append(y, e))
  <2>1. PICK v : v = Append(y, e)
    OBVIOUS
  <2>2. /\ Len(v) = Len(y) + 1 /\ Len(y) \in Nat
        /\ \A c \in 1 .. Len(y) : v[c] = y[c]
        /\ v[Len(y) + 1] = e
    BY <2>1, ChainParts, AppendProperties
  <2>3. Len(x) = Len(y) /\ Len(u) = Len(v)
    BY <1>1, <1>3, <2>2 DEF SameQueries
  <2>4. ASSUME NEW c \in 1 .. Len(u)
        PROVE Len(u[c]) = Len(v[c]) /\ \A n \in 1 .. Len(u[c]) : u[c][n].q = v[c][n].q
    <3>1. CASE c = Len(x) + 1
      BY <1>1, <2>2, <2>3, <3>1
    <3>2. CASE c # Len(x) + 1
      <4>1. c \in 1 .. Len(x)
        BY <1>1, <2>4, <3>2
      <4> QED
        BY <1>1, <1>3, <2>2, <2>3, <4>1 DEF SameQueries
    <3> QED
      BY <3>1, <3>2
  <2> QED
    BY <2>1, <2>3, <2>4 DEF SameQueries
<1> QED
  BY <1>2, <1>3

\* What a longer chain is made of.
LEMMA LongerParts ==
    ASSUME NEW x \in Chains, NEW k \in 1 .. Len(x), NEW e \in Node, NEW u, u = Longer(x, k, e)
    PROVE  /\ Len(u) = Len(x)
           /\ \A c \in 1 .. Len(x) : c # k => u[c] = x[c]
           /\ Len(u[k]) = Len(x[k]) + 1 /\ Len(x[k]) \in Nat
           /\ \A n \in 1 .. Len(x[k]) : u[k][n] = x[k][n]
           /\ u[k][Len(x[k]) + 1] = e
<1> DEFINE z == Append(x[k], e)
<1>1. /\ z \in Seq(Node) \ {<<>>} /\ Len(z) = Len(x[k]) + 1 /\ Len(x[k]) \in Nat
      /\ \A n \in 1 .. Len(x[k]) : z[n] = x[k][n]
      /\ z[Len(x[k]) + 1] = e
  <2>1. x[k] \in Seq(Node)
    BY ChainParts
  <2> QED
    BY <2>1, AppendProperties
<1>2. u = [x EXCEPT ![k] = z]
  BY DEF Longer
<1> HIDE DEF z
<1>3. Len(u) = Len(x) /\ \A c \in 1 .. Len(x) : u[c] = IF c = k THEN z ELSE x[c]
  BY <1>1, <1>2, ChainParts, ExceptSeq
<1> QED
  BY <1>1, <1>3

\* A node more at the end of the same chain on both sides.
LEMMA LongerChain ==
    ASSUME NEW x \in Chains, NEW k \in 1 .. Len(x), NEW e \in Node, NEW u, u = Longer(x, k, e)
    PROVE  /\ AllLog(u) => AllLog(x)
           /\ \A y \in Chains : SameQueries(x, y) => SameQueries(u, Longer(y, k, e))
<1>1. /\ Len(u) = Len(x)
      /\ \A c \in 1 .. Len(x) : c # k => u[c] = x[c]
      /\ Len(u[k]) = Len(x[k]) + 1 /\ Len(x[k]) \in Nat
      /\ \A n \in 1 .. Len(x[k]) : u[k][n] = x[k][n]
      /\ u[k][Len(x[k]) + 1] = e
  BY LongerParts
<1>2. ASSUME AllLog(u), NEW c \in 1 .. Len(x), NEW n \in 1 .. Len(x[c])
      PROVE x[c][n].from = "log"
  <2>1. CASE c # k
    BY <1>1, <1>2, <2>1 DEF AllLog
  <2>2. CASE c = k
    <3>1. n \in 1 .. Len(u[k]) /\ u[k][n] = x[k][n]
      BY <1>1, <1>2, <2>2
    <3> QED
      BY <1>1, <1>2, <2>2, <3>1 DEF AllLog
  <2> QED
    BY <2>1, <2>2
<1>3. ASSUME NEW y \in Chains, SameQueries(x, y) PROVE SameQueries(u, Longer(y, k, e))
  <2>1. PICK v : v = Longer(y, k, e)
    OBVIOUS
  <2>2. k \in 1 .. Len(y) /\ Len(x) = Len(y) /\ Len(x[k]) = Len(y[k])
    BY <1>3 DEF SameQueries
  <2>3. /\ Len(v) = Len(y)
        /\ \A c \in 1 .. Len(y) : c # k => v[c] = y[c]
        /\ Len(v[k]) = Len(y[k]) + 1 /\ Len(y[k]) \in Nat
        /\ \A n \in 1 .. Len(y[k]) : v[k][n] = y[k][n]
        /\ v[k][Len(y[k]) + 1] = e
    BY SMTT(30), <2>1, <2>2, LongerParts
  <2>4. ASSUME NEW c \in 1 .. Len(u)
        PROVE Len(u[c]) = Len(v[c]) /\ \A n \in 1 .. Len(u[c]) : u[c][n].q = v[c][n].q
    <3>1. CASE c # k
      <4>1. c \in 1 .. Len(x) /\ c \in 1 .. Len(y)
        BY <1>1, <2>2, <2>4
      <4>2. u[c] = x[c] /\ v[c] = y[c]
        BY <1>1, <2>3, <3>1, <4>1
      <4> QED
        BY <1>3, <4>1, <4>2 DEF SameQueries
    <3>2. CASE c = k
      <4>1. Len(u[c]) = Len(v[c])
        BY <1>1, <2>2, <2>3, <3>2
      <4>2. ASSUME NEW n \in 1 .. Len(u[c]) PROVE u[c][n].q = v[c][n].q
        <5>1. CASE n = Len(x[k]) + 1
          BY <1>1, <2>2, <2>3, <3>2, <5>1
        <5>2. CASE n # Len(x[k]) + 1
          <6>1. n \in 1 .. Len(x[k])
            BY <1>1, <3>2, <4>2, <5>2
          <6>2. u[k][n] = x[k][n] /\ v[k][n] = y[k][n]
            BY <1>1, <2>2, <2>3, <6>1
          <6>3. x[k][n].q = y[k][n].q
            BY <1>3, <6>1 DEF SameQueries
          <6> QED
            BY <3>2, <6>2, <6>3
        <5> QED
          BY <5>1, <5>2
      <4> QED
        BY <4>1, <4>2
    <3> QED
      BY <3>1, <3>2
  <2> QED
    BY <1>1, <2>1, <2>2, <2>3, <2>4 DEF SameQueries
<1> QED
  BY <1>2, <1>3 DEF AllLog

\* A line has the same effect on both trees.
LEMMA FedMirrors ==
    ASSUME NEW k \in Nat, k <= MaxQueries, NEW t \in Trees, NEW w \in Trees, Mirrors(t, w),
           NEW line \in Lines(k)
    PROVE  Mirrors(Fed(t, line), Fed(w, line))
<1>1. line.type \in Naming => line.query \in QueryIds
  BY EventFileAssumption DEF Lines, QueryIds
<1>2. Len(t) = Len(w) /\ Len(t) \in Nat /\ \A i \in 1 .. Len(t) : t[i].shell = w[i].shell
  BY LenProperties DEF Mirrors, Trees
<1>3. ShellIndex(t, line.shell) = ShellIndex(w, line.shell) /\ At(t, line) = At(w, line)
  BY <1>2 DEF ShellIndex, At
<1>4. \A i \in ShellIndex(t, line.shell) : i \in 1 .. Len(t)
  BY DEF ShellIndex
<1>5. CASE ShellIndex(t, line.shell) = {}
  <2>1. CASE line.type = "shell_started"
    <3>1. PICK e : e = NewShell(line)
      OBVIOUS
    <3>2. e \in ShellNode /\ e.chains = <<>>
      <4>1. line.shell \in Nat \ {0} /\ line.call \in 1 .. CallCount
        BY DEF Lines, Event
      <4>2. <<>> \in Chains
        BY DEF Chains
      <4> QED
        BY <3>1, <4>1, <4>2 DEF NewShell, ShellNode
    <3>3. PICK u, v : u = Append(t, e) /\ v = Append(w, e)
      OBVIOUS
    <3>4. Fed(t, line) = u /\ Fed(w, line) = v
      BY <1>3, <1>5, <2>1, <3>1, <3>3, FedCases
    <3>5. /\ Len(u) = Len(t) + 1 /\ Len(v) = Len(w) + 1
          /\ \A i \in 1 .. Len(t) : u[i] = t[i] /\ v[i] = w[i]
          /\ u[Len(t) + 1] = e /\ v[Len(w) + 1] = e
      BY <1>2, <3>2, <3>3, AppendProperties DEF Trees
    <3>6. SameQueries(e.chains, e.chains)
      BY <3>2 DEF SameQueries
    <3>7. ASSUME NEW i \in 1 .. Len(u)
          PROVE /\ u[i].shell = v[i].shell
                /\ AllLog(u[i].chains) => SameQueries(u[i].chains, v[i].chains)
      <4>1. CASE i = Len(t) + 1
        BY <1>2, <3>5, <3>6, <4>1
      <4>2. CASE i # Len(t) + 1
        <5>1. i \in 1 .. Len(t)
          BY <1>2, <3>5, <3>7, <4>2
        <5> QED
          BY <3>5, <5>1 DEF Mirrors
      <4> QED
        BY <4>1, <4>2
    <3> QED
      BY <1>2, <3>4, <3>5, <3>7 DEF Mirrors
  <2>2. CASE line.type # "shell_started"
    BY <1>3, <1>5, <2>2, FedCases
  <2> QED
    BY <2>1, <2>2
<1>6. CASE ShellIndex(t, line.shell) # {}
  <2>1. PICK i \in 1 .. Len(t) : i = At(t, line)
    BY <1>4, <1>6 DEF At
  <2>8. At(w, line) = i /\ ShellIndex(w, line.shell) # {}
    BY <1>3, <1>6, <2>1
  <2>2. /\ t[i].chains \in Chains /\ w[i].chains \in Chains
        /\ AllLog(t[i].chains) => SameQueries(t[i].chains, w[i].chains)
    BY <1>2, TreeParts DEF Mirrors
  (* What is left to show when only shell i changed on both sides *)
  <2>3. ASSUME NEW u, NEW v, NEW x, NEW y, DiffersAt(u, t, i, x), DiffersAt(v, w, i, y),
               AllLog(x) => SameQueries(x, y)
        PROVE  Mirrors(u, v)
    <3>1. /\ Len(u) = Len(t) /\ Len(v) = Len(w)
          /\ u[i].shell = t[i].shell /\ v[i].shell = w[i].shell
          /\ u[i].chains = x /\ v[i].chains = y
          /\ \A j \in 1 .. Len(t) : j # i => u[j] = t[j] /\ v[j] = w[j]
      BY <1>2, <2>3 DEF DiffersAt
    <3> QED
      BY <1>2, <2>3, <3>1 DEF Mirrors
  <2>4. /\ DiffersAt(t, t, i, t[i].chains) /\ DiffersAt(w, w, i, w[i].chains)
    BY <1>2 DEF DiffersAt
  <2>5. CASE line.type = "query_discovered"
    <3> DEFINE q == line.query
               e == <<Observed(q, "log")>>
               x == Append(t[i].chains, e)
               y == Append(w[i].chains, e)
    <3>1. q \in QueryIds
      BY <1>1, <2>5 DEF Naming
    <3>2. Fed(t, line) = WithQuery(t, i, q, "log") /\ Fed(w, line) = WithQuery(w, i, q, "log")
      <4>1. Fed(t, line) = WithQuery(t, i, q, "log")
        BY <1>6, <2>1, <2>5, FedCases DEF Naming
      <4>2. ShellIndex(w, line.shell) # {} /\ At(w, line) = i
        BY <1>3, <1>6, <2>1
      <4>3. Fed(w, line) = WithQuery(w, i, q, "log")
        BY <2>5, <4>2, FedCases DEF Naming
      <4> QED
        BY <4>1, <4>3
    <3>3. DiffersAt(Fed(t, line), t, i, x)
      BY <3>1, <3>2, WithQueryFacts
    <3>4. DiffersAt(Fed(w, line), w, i, y)
      BY <1>2, <3>1, <3>2, WithQueryFacts
    <3>5. e \in Seq(Node) \ {<<>>}
      BY <3>1, ObservedIsNode
    <3> HIDE DEF e
    <3>6. AllLog(x) => SameQueries(x, y)
      BY <2>2, <3>5, NewChain
    <3> QED
      BY <2>3, <3>3, <3>4, <3>6
  <2>6. CASE line.type = "query_retried"
    <3> DEFINE q == line.query
               e == Observed(q, "log")
               k1 == Len(t[i].chains)
               k2 == Len(w[i].chains)
               x == Longer(t[i].chains, k1, e)
               y == Longer(w[i].chains, k2, e)
    <3>1. q \in QueryIds /\ e \in Node
      BY <1>1, <2>6, ObservedIsNode DEF Naming
    <3>2. CASE t[i].chains = <<>>
      <4>1. AllLog(t[i].chains)
        BY <3>2 DEF AllLog
      <4>2. w[i].chains = <<>>
        <5>1. Len(w[i].chains) = 0
          BY <2>2, <3>2, <4>1 DEF SameQueries
        <5> QED
          BY <2>2, <5>1, EmptySeq DEF Chains
      <4>3. Fed(t, line) = t /\ Fed(w, line) = w
        BY <1>3, <1>6, <2>1, <2>6, <3>2, <4>2, FedCases DEF Naming
      <4> QED
        BY <4>3
    <3>3. CASE t[i].chains # <<>>
      <4>1. Fed(t, line) = WithRetry(t, i, q)
        BY <1>3, <1>6, <2>1, <2>6, <3>3, FedCases DEF Naming
      <4>2. k1 \in 1 .. Len(t[i].chains) /\ DiffersAt(Fed(t, line), t, i, x)
        BY <3>1, <3>3, <4>1, WithRetryFacts
      <4>3. /\ AllLog(x) => AllLog(t[i].chains)
            /\ \A z \in Chains : SameQueries(t[i].chains, z) => SameQueries(x, Longer(z, k1, e))
        BY <2>2, <3>1, <4>2, LongerChain
      <4>4. CASE w[i].chains = <<>>
        <5>1. ~SameQueries(t[i].chains, w[i].chains)
          BY <2>2, <3>3, <4>4, EmptySeq DEF SameQueries, Chains
        <5>2. Fed(w, line) = w
          BY <1>3, <1>6, <2>1, <2>6, <4>4, FedCases DEF Naming
        <5> QED
          BY <2>2, <2>3, <2>4, <4>2, <4>3, <5>1, <5>2
      <4>5. CASE w[i].chains # <<>>
        <5>1. Fed(w, line) = WithRetry(w, i, q)
          <6>1. w[At(w, line)].chains # <<>>
            BY <2>8, <4>5
          <6>2. Fed(w, line) = WithRetry(w, At(w, line), q)
            BY <2>6, <2>8, <6>1, FedCases DEF Naming
          <6> QED
            BY <2>8, <6>2
        <5>2. DiffersAt(Fed(w, line), w, i, y)
          BY <1>2, <3>1, <4>5, <5>1, WithRetryFacts
        <5>3. SameQueries(t[i].chains, w[i].chains) => k1 = k2
          BY DEF SameQueries
        <5>4. AllLog(x) => SameQueries(x, y)
          BY <2>2, <4>3, <5>3
        <5> QED
          BY <2>3, <4>2, <5>2, <5>4
      <4> QED
        BY <4>4, <4>5
    <3> QED
      BY <3>2, <3>3
  <2>7. CASE line.type \notin Naming
    BY <1>3, <1>6, <2>7, FedCases DEF Naming
  <2> QED
    BY <2>5, <2>6, <2>7 DEF Naming
<1> QED
  BY <1>5, <1>6

\* So have many.
LEMMA FeedsMirrors ==
    ASSUME NEW k \in Nat, k <= MaxQueries, NEW t \in Trees, NEW w \in Trees, Mirrors(t, w)
    PROVE  \A s \in Seq(Lines(k)) : Mirrors(Feeds(t, s), Feeds(w, s))
<1> DEFINE P(s) == Mirrors(Feeds(t, s), Feeds(w, s))
           T == {m \in Nat : \A s \in Seq(Lines(k)) : Len(s) = m => P(s)}
<1>1. 0 \in T
  <2>1. ASSUME NEW s \in Seq(Lines(k)), Len(s) = 0 PROVE P(s)
    <3>1. s = <<>>
      BY <2>1, EmptySeq
    <3> QED
      BY <3>1, FeedsEmpty
  <2> QED
    BY <2>1
<1>2. ASSUME NEW m \in Nat, m \in T PROVE m + 1 \in T
  <2>1. ASSUME NEW s \in Seq(Lines(k)), Len(s) = m + 1 PROVE P(s)
    <3>1. s # <<>>
      BY <2>1, EmptySeq
    <3>2. PICK p \in Seq(Lines(k)), e \in Lines(k) : s = Append(p, e)
      BY <3>1, SequenceEmptyOrAppend
    <3>3. Len(p) = m /\ Len(p) \in Nat
      BY <2>1, <3>2, AppendProperties
    <3>4. P(p)
      BY <1>2, <3>3
    <3>5. Feeds(t, s) = Fed(Feeds(t, p), e) /\ Feeds(w, s) = Fed(Feeds(w, p), e)
      BY <3>2, FeedsAppend
    <3>6. Feeds(t, p) \in Trees /\ Feeds(w, p) \in Trees
      BY FeedsFacts
    <3> QED
      BY <3>4, <3>5, <3>6, FedMirrors
  <2> QED
    BY <2>1
<1> HIDE DEF T
<1>3. Nat \subseteq T
  BY <1>1, <1>2, Induction
<1>4. \A s \in Seq(Lines(k)) : Len(s) \in Nat
  BY LenProperties
<1> QED
  BY <1>3, <1>4 DEF T

(* The order of the nodes *)

\* A bounded set of numbers has a greatest one.
LEMMA Greatest ==
    ASSUME NEW T, T \subseteq Nat, T # {}, NEW m \in Nat, \A x \in T : x <= m
    PROVE  \E x \in T : \A y \in T : y <= x
<1> DEFINE U == {m - x : x \in T}
<1>0. ASSUME NEW x \in T PROVE m - x \in Nat
  <2>1. x \in Nat /\ x <= m
    OBVIOUS
  <2> QED
    BY <2>1
<1>1. U \subseteq Nat /\ U # {}
  BY <1>0
<1>2. PICK z \in U : \A y \in U : z <= y
  BY <1>1, Least
<1>3. PICK x \in T : z = m - x
  BY <1>2
<1>4. ASSUME NEW y \in T PROVE y <= x
  <2>1. m - y \in U /\ m - x <= m - y
    BY <1>2, <1>3
  <2>2. x \in Nat /\ y \in Nat
    BY <1>3
  <2> QED
    BY <2>1, <2>2
<1> QED
  BY <1>4

\* Places are made of numbers.
LEMMA PlaceTypes ==
    ASSUME NEW t \in Trees, NEW s \in Places(t)
    PROVE  /\ s[1] \in 1 .. Len(t) /\ Len(t) \in Nat
           /\ s[2] \in 1 .. Len(t[s[1]].chains) /\ Len(t[s[1]].chains) \in Nat
           /\ s[3] \in 1 .. Len(t[s[1]].chains[s[2]]) /\ Len(t[s[1]].chains[s[2]]) \in Nat
           /\ s[1] \in Nat /\ s[2] \in Nat /\ s[3] \in Nat
<1>1. Is(t, s[1], s[2], s[3])
  BY PlaceFacts
<1>2. /\ s[1] \in 1 .. Len(t) /\ s[2] \in 1 .. Len(t[s[1]].chains)
      /\ s[3] \in 1 .. Len(t[s[1]].chains[s[2]])
  BY <1>1 DEF Is
<1>3. Len(t) \in Nat
  BY LenProperties DEF Trees
<1>4. Len(t[s[1]].chains) \in Nat /\ Len(t[s[1]].chains[s[2]]) \in Nat
  BY <1>2, TreeParts
<1> QED
  BY <1>2, <1>3, <1>4

\* Of some places one comes first, ...
LEMMA FirstPlace ==
    ASSUME NEW t \in Trees, NEW K, K \subseteq Places(t), K # {}
    PROVE  \E s \in K : \A o \in K : InOrder(s, o)
<1> DEFINE A == {s[1] : s \in K}
<1>1. \A s \in K : s[1] \in Nat /\ s[2] \in Nat /\ s[3] \in Nat
  BY PlaceTypes
<1>2. PICK i \in A : \A y \in A : i <= y
  BY <1>1, Least
<1> DEFINE B == {s[2] : s \in {s \in K : s[1] = i}}
<1>3. PICK c \in B : \A y \in B : c <= y
  <2>1. B # {} /\ B \subseteq Nat
    BY <1>1, <1>2
  <2> HIDE DEF B
  <2> QED
    BY <2>1, Least
<1> DEFINE C == {s[3] : s \in {s \in K : s[1] = i /\ s[2] = c}}
<1>4. PICK n \in C : \A y \in C : n <= y
  <2>1. C # {} /\ C \subseteq Nat
    BY <1>1, <1>3
  <2> HIDE DEF C
  <2> QED
    BY <2>1, Least
<1>5. PICK s \in K : s[1] = i /\ s[2] = c /\ s[3] = n
  BY <1>4
<1>6. ASSUME NEW o \in K PROVE InOrder(s, o)
  <2>1. i <= o[1]
    BY <1>2
  <2>2. o[1] = i => c <= o[2]
    BY <1>3
  <2>3. o[1] = i /\ o[2] = c => n <= o[3]
    BY <1>4
  <2>4. {i, c, n, o[1], o[2], o[3]} \subseteq Nat
    BY <1>1, <1>5
  <2> QED
    BY <1>5, <2>1, <2>2, <2>3, <2>4 DEF InOrder
<1> QED
  BY <1>6

\* ... and one comes last.
LEMMA LastPlace ==
    ASSUME NEW t \in Trees, NEW K, K \subseteq Places(t), K # {}
    PROVE  \E s \in K : \A o \in K : InOrder(o, s)
<1> DEFINE A == {s[1] : s \in K}
<1>1. \A s \in K : s[1] \in Nat /\ s[2] \in Nat /\ s[3] \in Nat
  BY PlaceTypes
<1>2. PICK i \in A : \A y \in A : y <= i
  <2>1. \A x \in A : x <= Len(t)
    BY PlaceTypes
  <2>2. Len(t) \in Nat
    BY LenProperties DEF Trees
  <2>3. A # {} /\ A \subseteq Nat
    BY <1>1
  <2> HIDE DEF A
  <2> QED
    BY <2>1, <2>2, <2>3, Greatest
<1> DEFINE B == {s[2] : s \in {s \in K : s[1] = i}}
<1>3. PICK c \in B : \A y \in B : y <= c
  <2>1. \A x \in B : x <= Len(t[i].chains) /\ Len(t[i].chains) \in Nat
    BY PlaceTypes
  <2>2. B # {} /\ B \subseteq Nat
    BY <1>1, <1>2
  <2> HIDE DEF B
  <2> QED
    BY <2>1, <2>2, Greatest
<1> DEFINE C == {s[3] : s \in {s \in K : s[1] = i /\ s[2] = c}}
<1>4. PICK n \in C : \A y \in C : y <= n
  <2>1. \A x \in C : x <= Len(t[i].chains[c]) /\ Len(t[i].chains[c]) \in Nat
    BY SMTT(30), PlaceTypes
  <2>2. C # {} /\ C \subseteq Nat
    BY <1>1, <1>3
  <2> HIDE DEF C
  <2> QED
    BY <2>1, <2>2, Greatest
<1>5. PICK s \in K : s[1] = i /\ s[2] = c /\ s[3] = n
  BY <1>4
<1>6. ASSUME NEW o \in K PROVE InOrder(o, s)
  <2>1. o[1] <= i
    BY <1>2
  <2>2. o[1] = i => o[2] <= c
    BY <1>3
  <2>3. o[1] = i /\ o[2] = c => o[3] <= n
    BY <1>4
  <2>4. {i, c, n, o[1], o[2], o[3]} \subseteq Nat
    BY <1>1, <1>5
  <2> QED
    BY <1>5, <2>1, <2>2, <2>3, <2>4 DEF InOrder
<1> QED
  BY <1>6

\* What was observed before of a query is held by a node of that query.
LEMMA PreviousFacts ==
    ASSUME NEW t \in Trees, NEW q
    PROVE  /\ Previous(t, q) \in Phases \cup {"none"}
           /\ Previous(t, q) # "none" => \E n \in Nodes(t) : n.q = q /\ n.obs = Previous(t, q)
<1> DEFINE known == {s \in Places(t) : NodeAt(t, s).q = q /\ NodeAt(t, s).obs # "none"}
           s == CHOOSE s \in known : \A o \in known : InOrder(o, s)
<1>1. CASE known = {}
  BY <1>1 DEF Previous
<1>2. CASE known # {}
  <2>1. s \in known
    BY <1>2, LastPlace
  <2>2. Previous(t, q) = NodeAt(t, s).obs
    BY <1>2 DEF Previous
  <2> HIDE DEF s
  <2>3. NodeAt(t, s) \in Nodes(t) /\ NodeAt(t, s).q = q
    BY <2>1 DEF Nodes
  <2>4. NodeAt(t, s) \in Node
    BY <2>3, NodeFacts
  <2>5. NodeAt(t, s).obs \in Phases \cup {"none"}
    BY <2>4 DEF Node
  <2> QED
    BY <2>2, <2>3, <2>5
<1> QED
  BY <1>1, <1>2

(* Trees that differ in their observations only *)

SameShape(u, t) ==
    /\ Len(u) = Len(t)
    /\ \A i \in 1 .. Len(t) :
         /\ u[i].shell = t[i].shell /\ u[i].call = t[i].call
         /\ Len(u[i].chains) = Len(t[i].chains)
         /\ \A c \in 1 .. Len(t[i].chains) :
              /\ Len(u[i].chains[c]) = Len(t[i].chains[c])
              /\ \A n \in 1 .. Len(t[i].chains[c]) :
                   /\ u[i].chains[c][n].q = t[i].chains[c][n].q
                   /\ u[i].chains[c][n].from = t[i].chains[c][n].from

\* Observations do not matter to the replay, ...
LEMMA ShapeKeepsMirror ==
    ASSUME NEW t, NEW u, NEW w, SameShape(u, t), Mirrors(t, w)
    PROVE  Mirrors(u, w)
<1>1. Len(u) = Len(w)
  BY DEF SameShape, Mirrors
<1>2. ASSUME NEW i \in 1 .. Len(u)
      PROVE /\ u[i].shell = w[i].shell
            /\ AllLog(u[i].chains) => SameQueries(u[i].chains, w[i].chains)
  <2>1. i \in 1 .. Len(t)
    BY DEF SameShape
  <2>2. u[i].shell = w[i].shell
    BY <2>1 DEF SameShape, Mirrors
  <2>3. ASSUME AllLog(u[i].chains)
        PROVE SameQueries(u[i].chains, w[i].chains)
    <3>0. /\ Len(u[i].chains) = Len(t[i].chains)
          /\ \A c \in 1 .. Len(t[i].chains) :
               /\ Len(u[i].chains[c]) = Len(t[i].chains[c])
               /\ \A n \in 1 .. Len(t[i].chains[c]) :
                    u[i].chains[c][n].from = t[i].chains[c][n].from
      BY <2>1 DEF SameShape
    <3>1. AllLog(t[i].chains)
      <4>1. PICK x, y : x = u[i].chains /\ y = t[i].chains
        OBVIOUS
      <4>2. /\ Len(x) = Len(y) /\ AllLog(x)
            /\ \A c \in 1 .. Len(y) :
                 /\ Len(x[c]) = Len(y[c])
                 /\ \A n \in 1 .. Len(y[c]) : x[c][n].from = y[c][n].from
        BY <2>3, <3>0, <4>1
      <4>3. AllLog(y)
        BY ONLY <4>2 DEF AllLog
      <4> QED
        BY <4>1, <4>3
    <3>2. SameQueries(t[i].chains, w[i].chains)
      BY <2>1, <3>1 DEF Mirrors
    <3>3. /\ Len(u[i].chains) = Len(t[i].chains)
          /\ \A c \in 1 .. Len(t[i].chains) :
               /\ Len(u[i].chains[c]) = Len(t[i].chains[c])
               /\ \A n \in 1 .. Len(t[i].chains[c]) : u[i].chains[c][n].q = t[i].chains[c][n].q
      BY <2>1 DEF SameShape
    <3> QED
      BY SMTT(30), <3>2, <3>3 DEF SameQueries
  <2> QED
    BY <2>2, <2>3
<1> QED
  BY <1>1, <1>2 DEF Mirrors

\* ... nor to which queries are leaves.
LEMMA ShapeKeepsLeaves ==
    ASSUME NEW t \in Trees, NEW u \in Trees, SameShape(u, t)
    PROVE  QueriesOf(Leaves(u)) = QueriesOf(Leaves(t))
<1>1. ASSUME NEW i \in 1 .. Len(t), NEW c \in 1 .. Len(t[i].chains)
      PROVE /\ i \in 1 .. Len(u) /\ c \in 1 .. Len(u[i].chains)
            /\ u[i].chains[c][Len(u[i].chains[c])].q = t[i].chains[c][Len(t[i].chains[c])].q
  <2>1. Len(t[i].chains[c]) \in Nat \ {0}
    BY TreeParts
  <2>2. Len(t[i].chains[c]) \in 1 .. Len(t[i].chains[c])
    BY <2>1
  <2> QED
    BY <2>2 DEF SameShape
<1>2. ASSUME NEW i \in 1 .. Len(u), NEW c \in 1 .. Len(u[i].chains)
      PROVE i \in 1 .. Len(t) /\ c \in 1 .. Len(t[i].chains)
  <2>1. i \in 1 .. Len(t)
    BY DEF SameShape
  <2> QED
    BY <2>1 DEF SameShape
<1>3. ASSUME NEW q \in QueriesOf(Leaves(t)) PROVE q \in QueriesOf(Leaves(u))
  <2>1. PICK n \in Leaves(t) : q = n.q
    BY <1>3 DEF QueriesOf
  <2>6. PICK i \in 1 .. Len(t) : \E c \in 1 .. Len(t[i].chains) : n = t[i].chains[c][Len(t[i].chains[c])]
    BY <2>1, LeafIsSomewhere
  <2>2. PICK c \in 1 .. Len(t[i].chains) : n = t[i].chains[c][Len(t[i].chains[c])]
    BY <2>6
  <2>3. PICK m : m = u[i].chains[c][Len(u[i].chains[c])]
    OBVIOUS
  <2>4. m \in Leaves(u) /\ m.q = q
    BY <1>1, <2>1, <2>2, <2>3, LeafFacts
  <2> QED
    BY <2>4 DEF QueriesOf
<1>4. ASSUME NEW q \in QueriesOf(Leaves(u)) PROVE q \in QueriesOf(Leaves(t))
  <2>1. PICK n \in Leaves(u) : q = n.q
    BY <1>4 DEF QueriesOf
  <2>6. PICK i \in 1 .. Len(u) : \E c \in 1 .. Len(u[i].chains) : n = u[i].chains[c][Len(u[i].chains[c])]
    BY <2>1, LeafIsSomewhere
  <2>2. PICK c \in 1 .. Len(u[i].chains) : n = u[i].chains[c][Len(u[i].chains[c])]
    BY <2>6
  <2>3. PICK m : m = t[i].chains[c][Len(t[i].chains[c])]
    OBVIOUS
  <2>5. i \in 1 .. Len(t) /\ c \in 1 .. Len(t[i].chains)
    BY <1>2, <2>2
  <2>4. m \in Leaves(t) /\ m.q = q
    BY <1>1, <2>1, <2>2, <2>3, <2>5, LeafFacts
  <2> QED
    BY <2>4 DEF QueriesOf
<1> QED
  BY <1>3, <1>4

\* A function on 1 .. n is a sequence.
LEMMA FcnIsSeq ==
    ASSUME NEW S, NEW n \in Nat, NEW f \in [1 .. n -> S]
    PROVE  f \in Seq(S) /\ Len(f) = n
<1>1. f \in Seq(S)
  BY SeqDef
<1> QED
  BY <1>1

(* What becomes of a node m when observations are given back from the tree `old` *)
Renews(old, m, z) ==
    /\ z \in Node /\ z.q = m.q /\ z.from = m.from
    /\ \/ z.obs = Previous(old, m.q) /\ z.obs # "none"
       \/ z.obs = poller[m.q].last
       \/ z.obs = m.obs

\* Giving observations back changes nothing but observations.
LEMMA ReattachedFacts ==
    ASSUME NEW old \in Trees, NEW new \in Trees, NEW r, r = Reattached(old, new),
           \A q \in QueryIds : poller[q].last \in Phases \cup {"none"}
    PROVE  /\ r \in Trees /\ SameShape(r, new)
           /\ \A i, c, n : Is(new, i, c, n) => Renews(old, new[i].chains[c][n], r[i].chains[c][n])
<1> DEFINE held == [q \in QueryIds |-> Previous(old, q)]
           leaves == Leaves(new)
           Op(n) == [n EXCEPT !.obs = IF held[n.q] # "none" THEN held[n.q]
                                      ELSE IF n.obs = "none" /\ n \in leaves THEN poller[n.q].last
                                      ELSE n.obs]
           Y(i, c) == [n \in 1 .. Len(new[i].chains[c]) |-> Op(new[i].chains[c][n])]
           X(i) == [c \in 1 .. Len(new[i].chains) |-> Y(i, c)]
<1>1. ASSUME NEW m \in Node PROVE Renews(old, m, Op(m))
  <2>1. m.q \in QueryIds /\ m.obs \in Phases \cup {"none"} /\ m.from \in {"log", "operator"}
    BY DEF Node
  <2>2. held[m.q] = Previous(old, m.q) /\ Previous(old, m.q) \in Phases \cup {"none"}
    BY <2>1, PreviousFacts
  <2> DEFINE v == IF held[m.q] # "none" THEN held[m.q]
                  ELSE IF m.obs = "none" /\ m \in leaves THEN poller[m.q].last
                  ELSE m.obs
  <2>3. /\ v \in Phases \cup {"none"}
        /\ (v = Previous(old, m.q) /\ v # "none") \/ v = poller[m.q].last \/ v = m.obs
    BY <2>1, <2>2
  <2>4. Op(m) = [m EXCEPT !.obs = v]
    OBVIOUS
  <2> HIDE DEF v, Op
  <2>5. /\ Op(m) \in Node /\ Op(m).q = m.q /\ Op(m).from = m.from /\ Op(m).obs = v
    BY <2>1, <2>3, <2>4 DEF Node
  <2> QED
    BY <2>3, <2>5 DEF Renews
<1>2. r = [i \in 1 .. Len(new) |-> [new[i] EXCEPT !.chains = X(i)]]
  BY DEF Reattached
<1> HIDE DEF Op
<1>3. ASSUME NEW i \in 1 .. Len(new), NEW c \in 1 .. Len(new[i].chains)
      PROVE /\ Y(i, c) \in Seq(Node) \ {<<>>} /\ Len(Y(i, c)) = Len(new[i].chains[c])
            /\ \A n \in 1 .. Len(new[i].chains[c]) :
                 Renews(old, new[i].chains[c][n], Y(i, c)[n])
  <2>1. /\ Len(new[i].chains[c]) \in Nat \ {0}
        /\ \A n \in 1 .. Len(new[i].chains[c]) : new[i].chains[c][n] \in Node
    BY TreeParts
  <2>2. \A n \in 1 .. Len(new[i].chains[c]) : Renews(old, new[i].chains[c][n], Op(new[i].chains[c][n]))
    BY <1>1, <2>1
  <2>3. \A n \in 1 .. Len(new[i].chains[c]) : Op(new[i].chains[c][n]) \in Node
    BY <2>2 DEF Renews
  <2>4. Y(i, c) \in [1 .. Len(new[i].chains[c]) -> Node]
    BY <2>3
  <2>5. \A n \in 1 .. Len(new[i].chains[c]) : Y(i, c)[n] = Op(new[i].chains[c][n])
    OBVIOUS
  <2> HIDE DEF Y
  <2>6. Y(i, c) \in Seq(Node) /\ Len(Y(i, c)) = Len(new[i].chains[c])
    BY <2>1, <2>4, FcnIsSeq
  <2> QED
    BY <2>1, <2>2, <2>5, <2>6, EmptySeq
<1> HIDE DEF Y
<1>4. ASSUME NEW i \in 1 .. Len(new)
      PROVE /\ X(i) \in Chains /\ Len(X(i)) = Len(new[i].chains)
            /\ \A c \in 1 .. Len(new[i].chains) : X(i)[c] = Y(i, c)
  <2>1. Len(new[i].chains) \in Nat
    BY TreeParts
  <2>2. X(i) \in [1 .. Len(new[i].chains) -> Seq(Node) \ {<<>>}]
    BY <1>3
  <2>3. \A c \in 1 .. Len(new[i].chains) : X(i)[c] = Y(i, c)
    OBVIOUS
  <2> HIDE DEF X
  <2> QED
    BY <2>1, <2>2, <2>3, FcnIsSeq DEF Chains
<1> HIDE DEF X
<1>5. ASSUME NEW i \in 1 .. Len(new)
      PROVE /\ r[i] \in ShellNode /\ r[i].chains = X(i)
            /\ r[i].shell = new[i].shell /\ r[i].call = new[i].call
  <2>1. r[i] = [new[i] EXCEPT !.chains = X(i)]
    BY <1>2
  <2>2. new[i] \in ShellNode
    BY TreeParts
  <2> QED
    BY <1>4, <2>1, <2>2 DEF ShellNode
<1>6. r \in Trees /\ Len(r) = Len(new)
  <2>1. Len(new) \in Nat
    BY LenProperties DEF Trees
  <2>2. r \in [1 .. Len(new) -> ShellNode]
    BY <1>2, <1>5
  <2> QED
    BY <2>1, <2>2, FcnIsSeq DEF Trees
<1>7. ASSUME NEW i, NEW c, NEW n, Is(new, i, c, n)
      PROVE Renews(old, new[i].chains[c][n], r[i].chains[c][n])
  <2>1. i \in 1 .. Len(new) /\ c \in 1 .. Len(new[i].chains) /\ n \in 1 .. Len(new[i].chains[c])
    BY <1>7 DEF Is
  <2>2. r[i].chains[c] = Y(i, c)
    BY <1>4, <1>5, <2>1
  <2> QED
    BY <1>3, <2>1, <2>2
<1>8. SameShape(r, new)
  <2>1. ASSUME NEW i \in 1 .. Len(new), NEW c \in 1 .. Len(new[i].chains)
        PROVE /\ Len(r[i].chains[c]) = Len(new[i].chains[c])
              /\ \A n \in 1 .. Len(new[i].chains[c]) :
                   /\ r[i].chains[c][n].q = new[i].chains[c][n].q
                   /\ r[i].chains[c][n].from = new[i].chains[c][n].from
    <3>1. r[i].chains[c] = Y(i, c)
      BY <1>4, <1>5
    <3>2. \A n \in 1 .. Len(new[i].chains[c]) : Is(new, i, c, n)
      BY DEF Is
    <3> QED
      BY SMTT(30), <1>3, <1>7, <3>1, <3>2 DEF Renews
  <2> QED
    BY <1>4, <1>5, <1>6, <2>1 DEF SameShape
<1> QED
  BY <1>6, <1>7, <1>8

(* An observation is attached to at most one node, of the query it is of. *)
LEMMA AttachedFacts ==
    ASSUME NEW t \in Trees, NEW q, NEW obs \in Phases \cup {"none"}, NEW u, u = Attached(t, q, obs)
    PROVE  /\ u \in Trees /\ SameShape(u, t)
           /\ \A i, c, n : Is(t, i, c, n) =>
                \/ u[i].chains[c][n] = t[i].chains[c][n]
                \/ t[i].chains[c][n].q = q /\ u[i].chains[c][n].obs = obs
<1> DEFINE spots == {s \in Places(t) : NodeAt(t, s).q = q}
           s == CHOOSE s \in spots : \A o \in spots : InOrder(s, o)
<1>1. CASE spots = {}
  <2>1. u = t
    BY <1>1 DEF Attached
  <2> QED
    BY <2>1 DEF SameShape
<1>2. CASE spots # {}
  <2>1. s \in spots
    BY <1>2, FirstPlace
  <2>2. u = [t EXCEPT ![s[1]].chains[s[2]][s[3]].obs = obs]
    BY <1>2 DEF Attached
  <2> HIDE DEF s
  <2>3. PICK i, c, n : i = s[1] /\ c = s[2] /\ n = s[3]
    OBVIOUS
  <2>4. Is(t, i, c, n) /\ t[i].chains[c][n].q = q
    BY <2>1, <2>3, PlaceFacts DEF NodeAt
  <2> DEFINE e == [t[i].chains[c][n] EXCEPT !.obs = obs]
             y == [t[i].chains[c] EXCEPT ![n] = e]
             x == [t[i].chains EXCEPT ![c] = y]
  <2>5. u = Replaced(t, i, x)
    BY <2>2, <2>3 DEF Replaced
  <2>6. /\ i \in 1 .. Len(t) /\ c \in 1 .. Len(t[i].chains) /\ n \in 1 .. Len(t[i].chains[c])
        /\ t[i].chains \in Chains /\ t[i].chains[c] \in Seq(Node) /\ t[i].chains[c] # <<>>
        /\ t[i].chains[c][n] \in Node
    BY <2>4, TreeParts DEF Is
  <2>7. /\ e \in Node /\ e.q = t[i].chains[c][n].q /\ e.from = t[i].chains[c][n].from
        /\ e.obs = obs
    BY <2>6 DEF Node
  <2> HIDE DEF e
  <2>8. /\ y \in Seq(Node) /\ Len(y) = Len(t[i].chains[c])
        /\ \A m \in 1 .. Len(t[i].chains[c]) : y[m] = IF m = n THEN e ELSE t[i].chains[c][m]
    BY <2>6, <2>7, ExceptSeq
  <2>9. y # <<>>
    BY <2>6, <2>8, EmptySeq
  <2> HIDE DEF y
  <2>10. /\ x \in Chains /\ Len(x) = Len(t[i].chains)
         /\ \A d \in 1 .. Len(t[i].chains) : x[d] = IF d = c THEN y ELSE t[i].chains[d]
    <3>1. y \in Seq(Node) \ {<<>>} /\ t[i].chains \in Seq(Seq(Node) \ {<<>>})
      BY <2>6, <2>8, <2>9 DEF Chains
    <3> QED
      BY <2>6, <3>1, ExceptSeq DEF Chains
  <2> HIDE DEF x
  <2>11. DiffersAt(u, t, i, x)
    BY <2>5, <2>6, <2>10, OtherChains
  <2>12. /\ u \in Trees /\ Len(u) = Len(t)
         /\ u[i].chains = x /\ u[i].shell = t[i].shell /\ u[i].call = t[i].call
         /\ \A j \in 1 .. Len(t) : j # i => u[j] = t[j]
    BY <2>11 DEF DiffersAt
  <2>13. ASSUME NEW j, NEW d, NEW m, Is(t, j, d, m)
         PROVE  /\ \/ u[j].chains[d][m] = t[j].chains[d][m]
                   \/ t[j].chains[d][m].q = q /\ u[j].chains[d][m].obs = obs
                /\ u[j].chains[d][m].q = t[j].chains[d][m].q
                /\ u[j].chains[d][m].from = t[j].chains[d][m].from
    <3>1. j \in 1 .. Len(t) /\ d \in 1 .. Len(t[j].chains) /\ m \in 1 .. Len(t[j].chains[d])
      BY <2>13 DEF Is
    <3>2. CASE j # i
      BY <2>12, <3>1, <3>2
    <3>3. CASE j = i /\ d # c
      BY <2>10, <2>12, <3>1, <3>3
    <3>4. CASE j = i /\ d = c
      BY SMTT(30), <2>4, <2>7, <2>8, <2>10, <2>12, <3>1, <3>4
    <3> QED
      BY <3>2, <3>3, <3>4
  <2>14. ASSUME NEW j \in 1 .. Len(t)
         PROVE  /\ u[j].shell = t[j].shell /\ u[j].call = t[j].call
                /\ Len(u[j].chains) = Len(t[j].chains)
                /\ \A d \in 1 .. Len(t[j].chains) : Len(u[j].chains[d]) = Len(t[j].chains[d])
    <3>1. CASE j # i
      BY <2>12, <3>1
    <3>2. CASE j = i
      BY <2>8, <2>10, <2>12, <3>2
    <3> QED
      BY <3>1, <3>2
  <2>15. SameShape(u, t)
    <3>1. ASSUME NEW j \in 1 .. Len(t), NEW d \in 1 .. Len(t[j].chains),
                 NEW m \in 1 .. Len(t[j].chains[d])
          PROVE  /\ u[j].chains[d][m].q = t[j].chains[d][m].q
                 /\ u[j].chains[d][m].from = t[j].chains[d][m].from
      <4>1. Is(t, j, d, m)
        BY DEF Is
      <4> QED
        BY <2>13, <4>1
    <3>2. u \in Trees /\ Len(u) = Len(t)
      BY <2>12
    <3> HIDE <2>12, <2>13
    <3> QED
      BY <2>14, <3>1, <3>2 DEF SameShape
  <2> QED
    BY <2>12, <2>13, <2>15
<1> QED
  BY <1>1, <1>2

----------------------------------------------------------------------------
(* Pollers after a change of the tree *)

Pollers == [QueryIds -> [phase : {"absent", "live", "extra", "final", "stopped"},
                         last : Phases \cup {"none"}]]

\* What _sync_pollers_locked does to each poller: none forgets what it saw, and the
\* ones left to poll on are those of the leaves.
LEMMA SyncedFacts ==
    ASSUME NEW p \in Pollers, NEW t \in Trees, NEW r, r = Synced(p, t)
    PROVE  /\ r \in Pollers
           /\ \A q \in QueryIds :
                /\ q \in QueriesOf(Leaves(t)) => r[q].phase # "absent"
                /\ r[q].phase \in {"live", "extra"} => q \in QueriesOf(Leaves(t))
                /\ p[q].phase # "absent" => r[q].phase # "absent" /\ r[q].last = p[q].last
                /\ p[q].phase = "absent" =>
                     \/ r[q] = p[q]
                     \/ \E n \in Leaves(t) : n.q = q /\ r[q].last = n.obs /\ r[q].phase = "live"
<1> DEFINE leaf(q) == CHOOSE n \in Leaves(t) : n.q = q
           now(q) == IF q \in QueriesOf(Leaves(t))
                     THEN IF p[q].phase = "absent" THEN [phase |-> "live", last |-> leaf(q).obs]
                          ELSE p[q]
                     ELSE IF p[q].phase \in {"live", "extra"}
                          THEN [p[q] EXCEPT !.phase = "final"]
                          ELSE p[q]
<1>1. r = [q \in QueryIds |-> now(q)]
  BY DEF Synced
<1>2. ASSUME NEW q \in QueryIds, q \in QueriesOf(Leaves(t))
      PROVE  leaf(q) \in Leaves(t) /\ leaf(q).q = q /\ leaf(q).obs \in Phases \cup {"none"}
  <2>1. \E n \in Leaves(t) : n.q = q
    BY <1>2 DEF QueriesOf
  <2>2. leaf(q) \in Leaves(t) /\ leaf(q).q = q
    BY <2>1
  <2>3. leaf(q) \in Node
    BY <2>2, LeafFacts, NodeFacts
  <2> QED
    BY <2>2, <2>3 DEF Node
<1> HIDE DEF leaf
<1>3. ASSUME NEW q \in QueryIds
      PROVE  /\ now(q) \in [phase : {"absent", "live", "extra", "final", "stopped"},
                            last : Phases \cup {"none"}]
             /\ q \in QueriesOf(Leaves(t)) => now(q).phase # "absent"
             /\ now(q).phase \in {"live", "extra"} => q \in QueriesOf(Leaves(t))
             /\ p[q].phase # "absent" => now(q).phase # "absent" /\ now(q).last = p[q].last
             /\ p[q].phase = "absent" =>
                  \/ now(q) = p[q]
                  \/ \E n \in Leaves(t) : n.q = q /\ now(q).last = n.obs /\ now(q).phase = "live"
  <2>1. p[q] \in [phase : {"absent", "live", "extra", "final", "stopped"},
                  last : Phases \cup {"none"}]
    BY DEF Pollers
  <2>2. CASE q \in QueriesOf(Leaves(t))
    BY <1>2, <2>1, <2>2
  <2>3. CASE q \notin QueriesOf(Leaves(t))
    BY <2>1, <2>3
  <2> QED
    BY <2>2, <2>3
<1> HIDE DEF now
<1> QED
  BY <1>1, <1>3 DEF Pollers

----------------------------------------------------------------------------
(* What a step does to the Job, the subscriptions and the screens *)

JobRecords == [tracked : {"yes", "no"}, registered : {"yes", "no"}, subs : Nat,
               available : {"yes", "no"}]
VisitRecords == [open : 0 .. MaxVisits, last : 0 .. MaxVisits,
                 sub : [Visits -> {"none", "asked", "granted", "held", "skipped", "returned"}]]

\* A refresh keeps the count and the Job, ...
LEMMA RefreshedJob ==
    ASSUME NEW j \in JobRecords, Refreshes(j)
    PROVE  job' \in JobRecords /\ job'.subs = j.subs /\ job'.tracked = j.tracked
BY DEF Refreshes, JobRecords

\* ... and a Job is only dropped when the count is zero.
LEMMA PrunedJob ==
    ASSUME NEW j \in JobRecords, Prunes(j)
    PROVE  /\ job' \in JobRecords /\ job'.subs = j.subs
           /\ job'.tracked = j.tracked \/ j.subs = 0
BY DEF Prunes, Fresh, JobRecords

Holders(sub) == {v \in Visits : sub[v] \in {"granted", "held"}}

\* SubscriptionsBalance, about the variables themselves
Balanced(j, v) ==
    /\ j \in JobRecords /\ v \in VisitRecords
    /\ j.subs = Cardinality(Holders(v.sub))
    /\ j.subs > 0 => j.tracked = "yes"
    /\ \A w \in Visits : v.sub[w] = "held" => v.open = w

\* Screens that hold a subscription are no more than screens.
LEMMA FewHolders ==
    ASSUME NEW sub
    PROVE  /\ IsFiniteSet(Holders(sub)) /\ Cardinality(Holders(sub)) \in Nat
           /\ Cardinality(Holders(sub)) <= MaxVisits
<1>1. MaxVisits \in Nat
  BY MonitorAssumption
<1>2. IsFiniteSet(Visits) /\ Cardinality(Visits) = MaxVisits
  BY <1>1, FS_Interval DEF Visits
<1>3. Holders(sub) \subseteq Visits
  BY DEF Holders
<1> QED
  BY <1>2, <1>3, FS_Subset, FS_CardinalityType

\* One screen more, or one less
LEMMA HolderJoins ==
    ASSUME NEW sub, NEW new, NEW v \in Visits, sub[v] \notin {"granted", "held"},
           new[v] \in {"granted", "held"}, \A w \in Visits : w # v => new[w] = sub[w]
    PROVE  Cardinality(Holders(new)) = Cardinality(Holders(sub)) + 1
<1>1. Holders(new) = Holders(sub) \cup {v} /\ v \notin Holders(sub)
  BY DEF Holders
<1> QED
  BY <1>1, FewHolders, FS_AddElement

\* One less, and there was one.
LEMMA HolderLeaves ==
    ASSUME NEW sub, NEW new, NEW v \in Visits, sub[v] \in {"granted", "held"},
           new[v] \notin {"granted", "held"}, \A w \in Visits : w # v => new[w] = sub[w]
    PROVE  /\ Cardinality(Holders(new)) = Cardinality(Holders(sub)) - 1
           /\ Cardinality(Holders(sub)) > 0
<1>1. Holders(new) = Holders(sub) \ {v} /\ v \in Holders(sub)
  BY DEF Holders
<1>2. Cardinality(Holders(new)) = Cardinality(Holders(sub)) - 1
  <2>1. PICK H : H = Holders(sub)
    OBVIOUS
  <2>2. IsFiniteSet(H) /\ v \in H
    BY <1>1, <2>1, FewHolders
  <2>3. Cardinality(H \ {v}) = Cardinality(H) - 1
    BY <2>2, FS_RemoveElement
  <2> QED
    BY <1>1, <2>1, <2>3
<1> QED
  BY <1>2, FewHolders

\* A screen that gives its subscription back is one that was counted.
LEMMA UnsubscribeBalance ==
    ASSUME Balanced(job, visit), NEW v \in Visits, visit.sub[v] \in {"granted", "held"},
           visit' \in VisitRecords, visit'.sub[v] = "returned",
           \A w \in Visits : w # v => visit'.sub[w] = visit.sub[w],
           \A w \in Visits : visit'.sub[w] = "held" => visit'.open = w,
           Unsubscribes
    PROVE  Balanced(job', visit')
<1>1. /\ job \in JobRecords /\ visit \in VisitRecords
      /\ job.subs = Cardinality(Holders(visit.sub))
      /\ job.subs > 0 => job.tracked = "yes"
  BY DEF Balanced
<1> DEFINE old == visit.sub
           new == visit'.sub
<1>2. Cardinality(Holders(new)) = Cardinality(Holders(old)) - 1 /\ Cardinality(Holders(old)) > 0
  <2>1. /\ old[v] \in {"granted", "held"} /\ new[v] = "returned"
        /\ \A w \in Visits : w # v => new[w] = old[w]
    OBVIOUS
  <2> HIDE DEF old, new
  <2>2. PICK a, b : a = old /\ b = new
    OBVIOUS
  <2> QED
    BY <2>1, <2>2, HolderLeaves
<1>3. PICK j : j = [job EXCEPT !.subs = @ - 1]
  OBVIOUS
<1>4. job.subs \in Nat /\ job.subs > 0
  BY <1>1, <1>2 DEF JobRecords
<1>5. j \in JobRecords /\ j.subs = job.subs - 1 /\ j.tracked = "yes"
  BY <1>1, <1>3, <1>4 DEF JobRecords
<1>6. Prunes(j)
  BY <1>1, <1>3, <1>4 DEF Unsubscribes
<1>7. /\ job' \in JobRecords /\ job'.subs = j.subs
      /\ job'.tracked = j.tracked \/ j.subs = 0
  BY <1>5, <1>6, PrunedJob
<1> QED
  BY <1>1, <1>2, <1>4, <1>5, <1>7 DEF Balanced

\* The Job that a caller asks for, found or made
LEMMA KnownJob ==
    ASSUME Balanced(job, visit)
    PROVE  Known \in JobRecords /\ Known.subs = job.subs /\ Known.tracked = "yes"
<1>1. Fresh \in JobRecords /\ Fresh.subs = 0 /\ Fresh.tracked = "yes"
  BY DEF Fresh, JobRecords
<1>2. job \in JobRecords /\ job.subs \in Nat /\ job.tracked \in {"yes", "no"}
  BY DEF Balanced, JobRecords
<1> QED
  BY <1>1, <1>2 DEF Known, Balanced

\* Screens and their workers: what each leaves as it is
LEMMA DetailBalance ==
    ASSUME Balanced(job, visit), NEW v \in Visits, Detail(v)
    PROVE  Balanced(job', visit')
<1>0. /\ MaxVisits \in Nat /\ job \in JobRecords /\ visit \in VisitRecords
      /\ job.subs = Cardinality(Holders(visit.sub)) /\ job.subs \in Nat
      /\ job.subs > 0 => job.tracked = "yes"
      /\ \A w \in Visits : visit.sub[w] = "held" => visit.open = w
  BY MonitorAssumption DEF Balanced, JobRecords
<1>1. CASE WorkerStarts(v)
  <2>1. /\ job' = job /\ visit' \in VisitRecords /\ visit'.open = visit.open
        /\ visit.sub[v] = "none" /\ visit'.sub[v] \in {"asked", "skipped"}
        /\ \A w \in Visits : w # v => visit'.sub[w] = visit.sub[w]
    BY <1>0, <1>1 DEF WorkerStarts, VisitRecords
  <2>2. Holders(visit'.sub) = Holders(visit.sub)
    BY <2>1 DEF Holders
  <2> QED
    BY <1>0, <2>1, <2>2 DEF Balanced
<1>2. CASE ThreadSubscribes(v)
  <2>1. /\ visit' \in VisitRecords /\ visit'.open = visit.open
        /\ visit.sub[v] = "asked" /\ visit'.sub[v] = "granted"
        /\ \A w \in Visits : w # v => visit'.sub[w] = visit.sub[w]
    BY <1>0, <1>2 DEF ThreadSubscribes, VisitRecords
  <2>2. PICK j : j = [Known EXCEPT !.subs = @ + 1]
    OBVIOUS
  <2>3. j \in JobRecords /\ j.subs = job.subs + 1 /\ j.tracked = "yes"
    BY <2>2, <1>0, KnownJob DEF JobRecords
  <2>4. Refreshes(j)
    BY <1>2, <2>2 DEF ThreadSubscribes, Subscribes
  <2>5. job' \in JobRecords /\ job'.subs = job.subs + 1 /\ job'.tracked = "yes"
    BY <2>3, <2>4, RefreshedJob
  <2>6. Cardinality(Holders(visit'.sub)) = Cardinality(Holders(visit.sub)) + 1
    <3>1. PICK a, b : a = visit.sub /\ b = visit'.sub
      OBVIOUS
    <3> QED
      BY <2>1, <3>1, HolderJoins
  <2> QED
    BY <1>0, <2>1, <2>5, <2>6 DEF Balanced
<1>3. CASE WorkerHolds(v)
  <2>1. /\ job' = job /\ visit' \in VisitRecords /\ visit'.open = visit.open /\ visit.open = v
        /\ visit.sub[v] = "granted" /\ visit'.sub[v] = "held"
        /\ \A w \in Visits : w # v => visit'.sub[w] = visit.sub[w]
    BY <1>0, <1>3 DEF WorkerHolds, VisitRecords
  <2>2. Holders(visit'.sub) = Holders(visit.sub)
    BY <2>1 DEF Holders
  <2> QED
    BY <1>0, <2>1, <2>2 DEF Balanced
<1>4. CASE WorkerGivesBack(v)
  <2>1. /\ visit' \in VisitRecords /\ visit'.open = visit.open
        /\ visit.sub[v] = "granted" /\ visit'.sub[v] = "returned"
        /\ \A w \in Visits : w # v => visit'.sub[w] = visit.sub[w]
    BY <1>0, <1>4 DEF WorkerGivesBack, VisitRecords
  <2>2. Unsubscribes
    BY <1>4 DEF WorkerGivesBack
  <2> QED
    BY <1>0, <2>1, <2>2, UnsubscribeBalance
<1> QED
  BY <1>1, <1>2, <1>3, <1>4 DEF Detail

\* Closing a screen that holds one gives it back.
LEMMA ClosesBalance ==
    ASSUME Balanced(job, visit), Closes
    PROVE  Balanced(job', visit')
<1>0. /\ MaxVisits \in Nat /\ job \in JobRecords /\ visit \in VisitRecords
      /\ job.subs = Cardinality(Holders(visit.sub))
      /\ job.subs > 0 => job.tracked = "yes"
      /\ \A w \in Visits : visit.sub[w] = "held" => visit.open = w
  BY MonitorAssumption DEF Balanced, JobRecords
<1>1. PICK v : v = visit.open
  OBVIOUS
<1>2. v \in Visits /\ visit.open \in Nat
  BY <1>0, <1>1 DEF Closes, VisitRecords, Visits
<1>3. CASE visit.sub[v] = "held"
  <2>1. /\ visit' \in VisitRecords /\ visit'.open = 0 /\ visit'.sub[v] = "returned"
        /\ \A w \in Visits : w # v => visit'.sub[w] = visit.sub[w]
    <3>1. PICK g : g = [visit EXCEPT !.open = 0]
      OBVIOUS
    <3>2. /\ g \in VisitRecords /\ g.open = 0 /\ g.sub = visit.sub
      BY <1>0, <3>1 DEF VisitRecords
    <3>3. visit' = [g EXCEPT !.sub[v] = "returned"]
      BY <1>1, <1>3, <3>1 DEF Closes
    <3> QED
      BY <1>2, <3>2, <3>3 DEF VisitRecords
  <2>2. Unsubscribes
    BY <1>1, <1>3 DEF Closes
  <2>3. \A w \in Visits : visit'.sub[w] = "held" => visit'.open = w
    BY <1>0, <1>1, <2>1
  <2> QED
    BY <1>2, <1>3, <2>1, <2>2, <2>3, UnsubscribeBalance
<1>4. CASE visit.sub[v] # "held"
  <2>1. job' = job /\ visit' \in VisitRecords /\ visit'.sub = visit.sub
    BY <1>0, <1>1, <1>4 DEF Closes, VisitRecords
  <2>2. \A w \in Visits : visit.sub[w] # "held"
    BY <1>0, <1>1, <1>4
  <2> QED
    BY <1>0, <2>1, <2>2 DEF Balanced
<1> QED
  BY <1>3, <1>4

\* Every step keeps the balance.
LEMMA BalanceStep ==
    ASSUME Balanced(job, visit), [MonNext]_vars
    PROVE  Balanced(job', visit')
<1>0. /\ MaxVisits \in Nat /\ job \in JobRecords /\ visit \in VisitRecords
      /\ job.subs = Cardinality(Holders(visit.sub))
      /\ job.subs > 0 => job.tracked = "yes"
      /\ \A w \in Visits : visit.sub[w] = "held" => visit.open = w
  BY MonitorAssumption DEF Balanced, JobRecords
<1>1. ASSUME visit' = visit, job' \in JobRecords, job'.subs = job.subs,
             job'.tracked = job.tracked \/ job'.tracked = "yes" \/ job'.subs = 0
      PROVE  Balanced(job', visit')
  BY <1>0, <1>1 DEF Balanced, JobRecords
<1>2. CASE UNCHANGED <<job, visit>>
  BY <1>2
<1>3. CASE TickStarts
  BY <1>0, <1>1, <1>3, RefreshedJob DEF TickStarts
<1>4. CASE Observes
  BY <1>2, <1>4 DEF Observes
<1>5. CASE Attaches
  BY <1>0, <1>1, <1>5 DEF Attaches, JobRecords
<1>6. CASE TickEnds
  BY <1>0, <1>1, <1>6, PrunedJob DEF TickEnds
<1>7. CASE Opens
  <2>1. /\ visit.open = 0 /\ job' = job /\ visit' \in VisitRecords /\ visit'.sub = visit.sub
    <3>1. PICK k : k = visit.last + 1
      OBVIOUS
    <3>2. visit.last \in 0 .. MaxVisits /\ visit.last < MaxVisits
      BY <1>0, <1>7 DEF Opens, VisitRecords
    <3>3. k \in 0 .. MaxVisits
      BY <1>0, <3>1, <3>2
    <3>4. /\ visit.open = 0 /\ job' = job
          /\ visit' = [visit EXCEPT !.open = k, !.last = k]
      BY <1>7, <3>1 DEF Opens
    <3> QED
      BY <1>0, <3>3, <3>4 DEF VisitRecords
  <2>2. \A w \in Visits : visit.sub[w] # "held"
    BY <1>0, <2>1 DEF Visits
  <2> QED
    BY <1>0, <2>1, <2>2 DEF Balanced
<1>8. CASE Closes
  BY <1>8, ClosesBalance
<1>9. CASE \E v \in Visits : Detail(v)
  BY <1>9, DetailBalance
<1>10. CASE DashReads
  BY <1>2, <1>10 DEF DashReads
<1>11. CASE DashSyncs
  <2>1. CASE dash = "active"
    <3>1. PICK j : j = [Known EXCEPT !.registered = "yes"]
      OBVIOUS
    <3>2. j \in JobRecords /\ j.subs = job.subs /\ j.tracked = "yes"
      BY <3>1, KnownJob DEF JobRecords
    <3>3. Refreshes(j) /\ visit' = visit
      BY <1>11, <2>1, <3>1 DEF DashSyncs
    <3> QED
      BY <1>1, <3>2, <3>3, RefreshedJob
  <2>2. CASE dash # "active"
    <3>1. PICK j : j = [job EXCEPT !.registered = "no"]
      OBVIOUS
    <3>2. j \in JobRecords /\ j.subs = job.subs /\ j.tracked = job.tracked
      BY <1>0, <3>1 DEF JobRecords
    <3>3. Prunes(j) /\ visit' = visit
      BY <1>11, <2>2, <3>1 DEF DashSyncs
    <3> QED
      BY <1>1, <3>2, <3>3, PrunedJob
  <2> QED
    BY <2>1, <2>2
<1>12. CASE RecoveryStarts
  BY <1>2, <1>12 DEF RecoveryStarts
<1>13. CASE RecoveryDiscovers
  BY <1>2, <1>13 DEF RecoveryDiscovers
<1>14. CASE RecoveryAttaches
  BY <1>0, <1>1, <1>14 DEF RecoveryAttaches, JobRecords
<1>15. CASE \E q \in 1 .. Len(query) : Evicts(q)
  BY <1>2, <1>15 DEF Evicts
<1>16. CASE UNCHANGED monVars
  BY <1>2, <1>16 DEF monVars
<1>17. CASE UNCHANGED vars
  BY <1>16, <1>17 DEF vars
<1> QED
  BY <1>3, <1>4, <1>5, <1>6, <1>7, <1>8, <1>9, <1>10, <1>11, <1>12, <1>13, <1>14, <1>15,
     <1>16, <1>17 DEF MonNext, Service, Tick, Dashboard, Recovery

----------------------------------------------------------------------------
(* What a step does to the file *)

\* The lines that name queries, as a set and one by one.
LEMMA NamedLines ==
    ASSUME NEW l \in Seq(Event), NEW k \in Nat
    PROVE  l \in Seq(Lines(k)) <=>
             \A i \in 1 .. Len(l) : l[i].type \in {"query_discovered", "query_retried"} =>
                                        l[i].query \in 1 .. k
<1>1. Len(l) \in Nat /\ \A i \in 1 .. Len(l) : l[i] \in Event
  OBVIOUS
<1>2. ASSUME l \in Seq(Lines(k)), NEW i \in 1 .. Len(l)
      PROVE  l[i] \in Lines(k)
  BY <1>2
<1>3. ASSUME \A i \in 1 .. Len(l) : l[i] \in Lines(k)
      PROVE  l \in Seq(Lines(k))
  <2>1. /\ l \in [1 .. Len(l) -> Event]
    OBVIOUS
  <2>2. l \in [1 .. Len(l) -> Lines(k)]
    BY <1>3, <2>1
  <2> QED
    BY <1>1, <2>2, FcnIsSeq
<1> QED
  BY <1>1, <1>2, <1>3 DEF Lines, Naming

\* The ended queries stay ended the same way, and no identity is forgotten.
QueriesGrow ==
    /\ query' \in Seq(QueryRecord) /\ Len(query') <= MaxQueries /\ Len(query) <= Len(query')
    /\ \A q \in 1 .. Len(query) :
         query[q].state \in {"finished", "exception"} => query'[q].state = query[q].state

\* Submitting, also by a retry, touches no query that ended; ...
LEMMA SubmitsGrow ==
    ASSUME FileTypeOK, NEW c \in 1 .. CallCount, NEW s \in Nat \ {0}, Submits(c, s)
    PROVE  QueriesGrow
<1>1. MaxQueries \in Nat /\ query \in Seq(QueryRecord) /\ Len(query) \in Nat
  BY EventFileAssumption DEF FileTypeOK
<1>2. Len(query) < MaxQueries
  BY DEF Submits
<1>3. ASSUME NEW others \in Seq(QueryRecord), Len(others) = Len(query),
             NEW how \in {"query_discovered", "query_retried"}, Submit(c, s, how, others),
             \A q \in 1 .. Len(query) : query[q].state \in {"finished", "exception"} =>
                 others[q].state = query[q].state
      PROVE  QueriesGrow
  <2>1. PICK e : e = [call |-> c, shell |-> s, how |-> how, state |-> "running"]
    OBVIOUS
  <2>2. e \in QueryRecord
    BY <1>3, <2>1 DEF QueryRecord
  <2>3. query' = Append(others, e)
    BY <1>3, <2>1 DEF Submit
  <2>4. /\ query' \in Seq(QueryRecord) /\ Len(query') = Len(query) + 1
        /\ \A q \in 1 .. Len(query) : query'[q] = others[q]
    BY <1>3, <2>2, <2>3
  <2> QED
    BY <1>1, <1>2, <1>3, <2>4 DEF QueriesGrow
<1>4. CASE Submit(c, s, "query_discovered", query)
  BY <1>1, <1>3, <1>4
<1>5. ASSUME NEW q \in 1 .. Len(query), query[q].state = "running",
             Submit(c, s, "query_retried", [query EXCEPT ![q].state = "retried"])
      PROVE  QueriesGrow
  <2>1. PICK e : e = [query[q] EXCEPT !.state = "retried"]
    OBVIOUS
  <2>2. e \in QueryRecord
    <3>1. query[q] \in QueryRecord
      BY <1>1
    <3> QED
      BY <2>1, <3>1 DEF QueryRecord
  <2>3. PICK o : o = [query EXCEPT ![q] = e]
    OBVIOUS
  <2>4. /\ o \in Seq(QueryRecord) /\ Len(o) = Len(query)
        /\ \A i \in 1 .. Len(query) : o[i] = IF i = q THEN e ELSE query[i]
    BY <1>1, <2>2, <2>3, ExceptSeq
  <2>5. Submit(c, s, "query_retried", o)
    BY <1>5, <2>1, <2>3
  <2> QED
    BY <1>3, <1>5, <2>4, <2>5
<1> QED
  BY <1>4, <1>5 DEF Submits, OwnQueries

\* ... nor does the end of another one.
LEMMA EndsGrow ==
    ASSUME FileTypeOK, NEW q \in 1 .. Len(query), NEW st \in {"finished", "exception"},
           QueryEnds(q, st)
    PROVE  QueriesGrow
<1>1. MaxQueries \in Nat /\ query \in Seq(QueryRecord) /\ Len(query) <= MaxQueries
  BY EventFileAssumption DEF FileTypeOK
<1>2. PICK e : e = [query[q] EXCEPT !.state = st]
  OBVIOUS
<1>3. e \in QueryRecord
  <2>1. query[q] \in QueryRecord
    BY <1>1
  <2> QED
    BY <1>2, <2>1 DEF QueryRecord
<1>4. query' = [query EXCEPT ![q] = e]
  BY <1>2 DEF QueryEnds
<1>5. /\ query' \in Seq(QueryRecord) /\ Len(query') = Len(query)
      /\ \A i \in 1 .. Len(query) : query'[i] = IF i = q THEN e ELSE query[i]
  BY <1>1, <1>3, <1>4, ExceptSeq
<1> QED
  BY <1>1, <1>5 DEF QueriesGrow, QueryEnds

\* A shell names its own queries.
LEMMA WritesLine ==
    ASSUME FileTypeOK, NEW c \in 1 .. CallCount, NEW s \in Nat \ {0}, Writes(c, s)
    PROVE  \E e \in Lines(Len(query)) : log' = Append(log, e)
<1>1. MaxQueries \in Nat /\ query \in Seq(QueryRecord) /\ Len(query) \in Nat
  BY EventFileAssumption DEF FileTypeOK
<1>2. PICK type \in EventTypes, q \in 0 .. MaxQueries :
        /\ Follows(Line(type, c, s, q), c, s)
        /\ log' = Appended(Line(type, c, s, q))
  BY DEF Writes
<1>3. PICK l : l = Line(type, c, s, q)
  OBVIOUS
<1>4. /\ l \in Event /\ l.type = type /\ l.query = q
  BY <1>3 DEF Line, Event, EventTypes
<1>5. type \in Naming => q \in 1 .. Len(query)
  <2>1. ASSUME NEW o \in OwnQueries(s), Line(type, c, s, q) = Line(query[o].how, c, s, o)
        PROVE  q \in 1 .. Len(query)
    <3>1. q = o
      BY <2>1 DEF Line
    <3> QED
      BY <3>1 DEF OwnQueries
  <2>2. ASSUME NEW ty, Line(type, c, s, q) = Line(ty, c, s, 0)
        PROVE  type = ty
    BY <2>2 DEF Line
  <2> QED
    BY <1>2, <2>1, <2>2 DEF Follows, Naming
<1>6. PICK g : g = [l EXCEPT !.type = "garbage", !.query = 0]
  OBVIOUS
<1>7. /\ g \in Event /\ g.type = "garbage"
  <2>1. 0 \in 0 .. MaxQueries
    BY <1>1
  <2>2. l \in [type : EventTypes \cup {"garbage"}, call : 1 .. CallCount,
               shell : Nat \ {0}, query : 0 .. MaxQueries]
    BY <1>4 DEF Event
  <2>3. g \in [type : EventTypes \cup {"garbage"}, call : 1 .. CallCount,
               shell : Nat \ {0}, query : 0 .. MaxQueries]
    BY <1>6, <2>1, <2>2
  <2> QED
    BY <1>6, <2>2, <2>3 DEF Event
<1>8. l \in Lines(Len(query)) /\ g \in Lines(Len(query))
  BY <1>4, <1>5, <1>7 DEF Lines, Naming
<1> QED
  BY <1>2, <1>3, <1>6, <1>8 DEF Appended

\* The file as a reader sees it: typed, and naming queries of Impala's
FileOK == FileTypeOK /\ log \in Seq(Lines(Len(query)))

\* Shells are numbered.
LEMMA IdsAreNumbers ==
    ASSUME FileTypeOK
    PROVE  LastShell \in Nat /\ \A s \in Ids : s \in Nat
<1>1. log \in Seq(Event) /\ query \in Seq(QueryRecord)
  BY DEF FileTypeOK
<1>2. Newest(log) \in Nat
  <2>1. CASE log = <<>>
    BY <2>1 DEF Newest
  <2>2. CASE log # <<>>
    <3>1. Len(log) \in 1 .. Len(log)
      BY <1>1, <2>2, EmptySeq
    <3>2. log[Len(log)] \in Event
      BY <1>1, <3>1
    <3> QED
      BY <2>2, <3>2 DEF Newest, Event
  <2> QED
    BY <2>1, <2>2
<1>3. Newest(query) \in Nat
  <2>1. CASE query = <<>>
    BY <2>1 DEF Newest
  <2>2. CASE query # <<>>
    <3>1. Len(query) \in 1 .. Len(query)
      BY <1>1, <2>2, EmptySeq
    <3>2. query[Len(query)] \in QueryRecord
      BY <1>1, <3>1
    <3> QED
      BY <2>2, <3>2 DEF Newest, QueryRecord
  <2> QED
    BY <2>1, <2>2
<1>4. LastShell \in Nat
  BY <1>2, <1>3 DEF LastShell
<1> QED
  BY <1>4 DEF Ids

\* What the reader relies on: lines and queries are only added.
LEMMA FileStep ==
    ASSUME FileOK, FileNext \/ UNCHANGED fileVars
    PROVE  /\ FileOK' /\ QueriesGrow /\ FileSize <= FileSize'
           /\ log' = log \/ \E e \in Lines(Len(query)) : log' = Append(log, e)
<1>1. /\ MaxQueries \in Nat /\ MaxLines \in Nat \ {0} /\ log \in Seq(Event) /\ Len(log) \in Nat
      /\ Len(log) <= MaxLines /\ tail \in {"clean", "torn"} /\ life \in {"on", "over"}
      /\ query \in Seq(QueryRecord) /\ Len(query) \in Nat /\ Len(query) <= MaxQueries
      /\ log \in Seq(Lines(Len(query))) /\ FileTypeOK
  BY EventFileAssumption DEF FileOK, FileTypeOK
<1>2. ASSUME QueriesGrow, log' = log
      PROVE  log' \in Seq(Lines(Len(query')))
  <2>1. Len(query') \in Nat /\ Len(query) <= Len(query')
    BY <1>2 DEF QueriesGrow
  <2>2. \A i \in 1 .. Len(log) : log[i].type \in {"query_discovered", "query_retried"} =>
                                    log[i].query \in 1 .. Len(query)
    BY <1>1, NamedLines
  <2>3. PICK k : k = Len(query')
    OBVIOUS
  <2>4. \A i \in 1 .. Len(log) : log[i].type \in {"query_discovered", "query_retried"} =>
                                    log[i].query \in 1 .. k
    BY <1>1, <2>1, <2>2, <2>3
  <2>5. log \in Seq(Lines(k))
    BY <1>1, <2>1, <2>3, <2>4, NamedLines
  <2> QED
    BY <1>2, <2>3, <2>5
<1>3. ASSUME QueriesGrow, log' = log, tail' \in {tail, "torn"}, life' \in {"on", "over"}
      PROVE  /\ FileOK' /\ FileSize <= FileSize'
  <2>1. /\ query' \in Seq(QueryRecord) /\ Len(query') <= MaxQueries
    BY <1>3 DEF QueriesGrow
  <2> QED
    BY <1>1, <1>2, <1>3, <2>1 DEF FileOK, FileTypeOK, FileSize
<1>4. ASSUME query' = query
      PROVE  QueriesGrow
  BY <1>1, <1>4 DEF QueriesGrow
<1>5. ASSUME NEW c \in 1 .. CallCount, NEW s \in Ids \ {0}, Writes(c, s)
      PROVE  /\ FileOK' /\ QueriesGrow /\ FileSize <= FileSize'
             /\ \E e \in Lines(Len(query)) : log' = Append(log, e)
  <2>1. s \in Nat \ {0}
    BY <1>1, IdsAreNumbers
  <2>2. PICK e \in Lines(Len(query)) : log' = Append(log, e)
    BY <1>1, <1>5, <2>1, WritesLine
  <2>3. /\ query' = query /\ life' = life /\ tail' = "clean" /\ Len(log) < MaxLines
    BY <1>5 DEF Writes
  <2>4. /\ log' \in Seq(Lines(Len(query))) /\ Len(log') = Len(log) + 1 /\ e \in Event
    BY <1>1, <2>2 DEF Lines
  <2>5. log' \in Seq(Event)
    BY <1>1, <2>2, <2>4
  <2>6. FileOK'
    BY <1>1, <2>3, <2>4, <2>5 DEF FileOK, FileTypeOK
  <2>7. FileSize <= FileSize'
    BY <1>1, <2>3, <2>4 DEF FileSize
  <2> QED
    BY <1>4, <2>2, <2>3, <2>6, <2>7
<1>6. ASSUME NEW c \in 1 .. CallCount, NEW s \in Ids \ {0}, Submits(c, s)
      PROVE  /\ FileOK' /\ QueriesGrow /\ FileSize <= FileSize' /\ log' = log
  <2>1. s \in Nat \ {0}
    BY <1>1, IdsAreNumbers
  <2>2. /\ log' = log /\ tail' = tail /\ life' = life
    BY <1>6 DEF Submits
  <2> QED
    BY <1>1, <1>3, <1>6, <2>1, <2>2, SubmitsGrow
<1>7. CASE Tears
  BY <1>1, <1>3, <1>4, <1>7 DEF Tears
<1>8. CASE Ends
  BY <1>1, <1>3, <1>4, <1>8 DEF Ends
<1>9. CASE Impala
  <2>1. PICK q \in 1 .. Len(query), st \in {"finished", "exception"} : QueryEnds(q, st)
    BY <1>9 DEF Impala
  <2>2. /\ log' = log /\ tail' = tail /\ life' = life
    BY <2>1 DEF QueryEnds
  <2> QED
    BY <1>1, <1>3, <2>1, <2>2, EndsGrow
<1>10. CASE UNCHANGED fileVars
  BY <1>1, <1>3, <1>4, <1>10 DEF fileVars
<1> QED
  BY <1>5, <1>6, <1>7, <1>8, <1>9, <1>10 DEF FileNext

----------------------------------------------------------------------------
(* The tree and its pollers: what holds between critical sections *)

Whole == Replay(<<>>, 0, Readable(seen))

TreeInv ==
    /\ tree \in Trees /\ seen \in Nat /\ poller \in Pollers
    /\ seen <= FileSize
    /\ job.tracked = "no" => tree = <<>> /\ seen = 0
    /\ \A n \in Nodes(tree) : n.q <= Len(query)
    /\ \A q \in QueryIds : poller[q].phase # "absent" => q <= Len(query)
    /\ \A q \in QueryIds : poller[q].phase = "absent" => poller[q].last = "none"
    /\ \A n \in Nodes(tree) : n.obs \in Terminal => poller[n.q].last = n.obs
    /\ \A q \in QueryIds : poller[q].last \in Terminal => Truth(q, poller[q].last)
    /\ LeavesArePolled
    /\ Mirrors(tree, Whole)

\* The sizes at which a read stops
LEMMA ReadableFacts ==
    ASSUME FileOK, NEW a \in Nat, NEW b \in Nat, a <= b, b <= FileSize
    PROVE  /\ Readable(a) \in Nat /\ Readable(b) \in Nat
           /\ Readable(a) <= Readable(b) /\ Readable(b) <= Len(log)
<1>1. /\ MaxLines \in Nat \ {0} /\ Len(log) \in Nat /\ Len(log) <= MaxLines
      /\ tail \in {"clean", "torn"}
  BY EventFileAssumption DEF FileOK, FileTypeOK
<1>2. /\ a \div 2 \in Nat /\ b \div 2 \in Nat /\ a \div 2 <= b \div 2
      /\ b \div 2 <= Len(log)
  BY <1>1 DEF FileSize
<1> QED
  BY <1>1, <1>2 DEF Readable

\* Lines read together or one part after the other
LEMMA ReplayParts ==
    ASSUME FileOK, NEW a \in Nat, NEW b \in Nat, a <= b, b <= Len(log)
    PROVE  /\ SubSeq(log, a + 1, b) \in Seq(Lines(Len(query)))
           /\ Replay(<<>>, 0, b) = Feeds(Replay(<<>>, 0, a), SubSeq(log, a + 1, b))
           /\ \A t : Replay(t, a, b) = Feeds(t, SubSeq(log, a + 1, b))
<1>1. PICK S : S = Lines(Len(query))
  OBVIOUS
<1>2. log \in Seq(S) /\ Len(log) \in Nat
  BY <1>1 DEF FileOK
<1>3. /\ SubSeq(log, a + 1, b) \in Seq(S) /\ SubSeq(log, 1, a) \in Seq(S)
      /\ SubSeq(log, 1, b) = SubSeq(log, 1, a) \o SubSeq(log, a + 1, b)
  <2>1. SubSeq(log, a + 1, b) \in Seq(S)
    <3>1. CASE a < b
      BY <1>2, <3>1, SubSeqProperties
    <3>2. CASE a = b
      BY <1>2, <3>2, SubSeqProperties
    <3> QED
      BY <3>1, <3>2
  <2>2. SubSeq(log, 1, a) \in Seq(S)
    BY <1>2, SubSeqProperties
  <2>3. SubSeq(log, 1, b) = SubSeq(log, 1, a) \o SubSeq(log, a + 1, b)
    BY <1>2, ConcatAdjacentSubSeq
  <2> QED
    BY <2>1, <2>2, <2>3
<1>4. \A r \in Seq(S) : Feeds(<<>>, SubSeq(log, 1, a) \o r) = Feeds(Feeds(<<>>, SubSeq(log, 1, a)), r)
  <2>1. PICK s, t : s = SubSeq(log, 1, a) /\ t = <<>>
    OBVIOUS
  <2>2. s \in Seq(S)
    BY <1>3, <2>1
  <2>3. \A r \in Seq(S) : Feeds(t, s \o r) = Feeds(Feeds(t, s), r)
    BY ONLY <2>2, FeedsConcat
  <2> QED
    BY <2>1, <2>3
<1>5. /\ Replay(<<>>, 0, a) = Feeds(<<>>, SubSeq(log, 1, a))
      /\ Replay(<<>>, 0, b) = Feeds(<<>>, SubSeq(log, 1, b))
      /\ \A t : Replay(t, a, b) = Feeds(t, SubSeq(log, a + 1, b))
  BY DEF Replay, Feeds
<1> QED
  BY <1>1, <1>3, <1>4, <1>5

\* The tree before any line.
LEMMA NoTree ==
    /\ <<>> \in Trees /\ Nodes(<<>>) = {} /\ Leaves(<<>>) = {}
<1>1. <<>> \in Trees
  BY DEF Trees
<1>2. PICK t : t = <<>>
  OBVIOUS
<1>3. Places(t) = {}
  <2>1. \A i, c, n : ~Is(t, i, c, n)
    BY <1>2 DEF Is
  <2> QED
    BY <1>1, <1>2, <2>1, PlaceFacts
<1> QED
  BY <1>1, <1>2, <1>3 DEF Nodes, Leaves, LeafPlaces

\* The replay of what was read is a tree.
LEMMA WholeIsTree ==
    ASSUME FileOK, seen \in Nat, seen <= FileSize
    PROVE  Whole \in Trees
<1>1. Readable(seen) \in Nat /\ Readable(seen) <= Len(log)
  BY ReadableFacts
<1>2. PICK a, s, k, t : a = Readable(seen) /\ s = SubSeq(log, 0 + 1, a) /\ k = Len(query) /\ t = <<>>
  OBVIOUS
<1>3. s \in Seq(Lines(k)) /\ Whole = Feeds(t, s)
  BY <1>1, <1>2, ReplayParts DEF Whole
<1>4. k \in Nat /\ k <= MaxQueries
  BY <1>2 DEF FileOK, FileTypeOK
<1> QED
  BY <1>2, <1>3, <1>4, NoTree, FeedsFacts

\* The definition of TreeIsReplay, and the relation that steps keep
LEMMA MirrorIsReplay ==
    ASSUME tree \in Trees, Whole \in Trees
    PROVE  TreeIsReplay <=> Mirrors(tree, Whole)
<1> DEFINE Names(t, i) == [c \in 1 .. Len(t[i].chains) |->
                             [n \in 1 .. Len(t[i].chains[c]) |-> t[i].chains[c][n].q]]
<1>1. PICK w : w = Whole
  OBVIOUS
<1>2. TreeIsReplay <=>
        /\ Len(tree) = Len(w)
        /\ \A i \in 1 .. Len(tree) :
             /\ tree[i].shell = w[i].shell
             /\ (\A n \in Nodes(<<tree[i]>>) : n.from = "log") => Names(tree, i) = Names(w, i)
  BY <1>1 DEF TreeIsReplay, Whole
<1>3. ASSUME NEW i \in 1 .. Len(tree)
      PROVE  (\A n \in Nodes(<<tree[i]>>) : n.from = "log") <=> AllLog(tree[i].chains)
  <2>1. PICK x, t : x = tree[i] /\ t = <<tree[i]>>
    OBVIOUS
  <2>2. /\ t \in Trees /\ Len(t) = 1 /\ t[1] = x
    BY <2>1, TreeParts DEF Trees
  <2>3. \A n : n \in Nodes(t) <=> \E c, k : c \in 1 .. Len(x.chains) /\ k \in 1 .. Len(x.chains[c])
                                            /\ n = x.chains[c][k]
    BY <2>2, NodeFacts DEF Is
  <2> QED
    BY <2>1, <2>3 DEF AllLog
<1>4. ASSUME NEW i \in 1 .. Len(tree), Len(tree) = Len(w)
      PROVE  Names(tree, i) = Names(w, i) <=> SameQueries(tree[i].chains, w[i].chains)
  <2>1. PICK x, y : x = tree[i].chains /\ y = w[i].chains
    OBVIOUS
  <2>2. x \in Chains /\ y \in Chains
    BY <1>1, <1>4, <2>1, TreeParts
  <2>3. /\ Len(x) \in Nat /\ Len(y) \in Nat
        /\ \A c \in 1 .. Len(x) : Len(x[c]) \in Nat
        /\ \A c \in 1 .. Len(y) : Len(y[c]) \in Nat
    BY <2>2, ChainParts
  <2> DEFINE N(z) == [c \in 1 .. Len(z) |-> [n \in 1 .. Len(z[c]) |-> z[c][n].q]]
  <2>4. ASSUME SameQueries(x, y)
        PROVE  N(x) = N(y)
    <3>1. \A c \in 1 .. Len(x) : [n \in 1 .. Len(x[c]) |-> x[c][n].q]
                                   = [n \in 1 .. Len(y[c]) |-> y[c][n].q]
      BY <2>4 DEF SameQueries
    <3> QED
      BY <2>4, <3>1 DEF SameQueries
  <2>5. ASSUME N(x) = N(y)
        PROVE  SameQueries(x, y)
    <3>1. DOMAIN N(x) = 1 .. Len(x) /\ DOMAIN N(y) = 1 .. Len(y)
      OBVIOUS
    <3>2. Len(x) = Len(y)
      <4>1. 1 .. Len(x) = 1 .. Len(y)
        BY <2>5, <3>1
      <4> QED
        BY <2>3, <4>1
    <3>3. ASSUME NEW c \in 1 .. Len(x)
          PROVE  Len(x[c]) = Len(y[c]) /\ \A n \in 1 .. Len(x[c]) : x[c][n].q = y[c][n].q
      <4>1. N(x)[c] = [n \in 1 .. Len(x[c]) |-> x[c][n].q]
        OBVIOUS
      <4>2. N(y)[c] = [n \in 1 .. Len(y[c]) |-> y[c][n].q]
        BY <3>2
      <4>3. [n \in 1 .. Len(x[c]) |-> x[c][n].q] = [n \in 1 .. Len(y[c]) |-> y[c][n].q]
        BY <2>5, <4>1, <4>2
      <4>4. 1 .. Len(x[c]) = 1 .. Len(y[c])
        BY <4>3
      <4>5. Len(x[c]) = Len(y[c])
        BY <2>3, <3>2, <4>4
      <4> QED
        BY <4>3, <4>5
    <3> QED
      BY <3>2, <3>3 DEF SameQueries
  <2> QED
    BY <2>1, <2>4, <2>5
<1> HIDE DEF Names
<1> QED
  BY <1>1, <1>2, <1>3, <1>4 DEF Mirrors

----------------------------------------------------------------------------
(* How a step moves the tree and its pollers *)

Holds == tree' = tree /\ seen' = seen /\ poller' = poller

DropsTree == /\ tree' = <<>> /\ seen' = 0 /\ poller' = [q \in QueryIds |-> NoPoller]
         /\ job'.tracked = "no"

Reads ==
    /\ UNCHANGED fileVars /\ seen' = FileSize /\ job'.tracked = "yes"
    /\ tree' = Reattached(tree, Replay(tree, Readable(seen), Readable(FileSize)))
    /\ poller' = Synced(poller, tree')

Hears(q, phase, obs) ==
    /\ UNCHANGED <<fileVars, seen>> /\ job'.tracked = job.tracked
    /\ q \in QueryIds /\ poller[q].phase \notin {"absent", "stopped"}
    /\ phase \in {"live", "extra", "stopped"}
    /\ phase \in {"live", "extra"} => poller[q].phase \in {"live", "extra"}
    /\ obs \in Phases \cup {"none"}
    /\ poller[q].last \in Terminal => obs = poller[q].last
    /\ obs \in Terminal => Truth(q, obs)
    /\ poller' = [poller EXCEPT ![q] = [phase |-> phase, last |-> obs]]
    /\ tree' = Attached(tree, q, obs) /\ thread'.pc = "poll"

Recovers(i, q) ==
    /\ UNCHANGED <<fileVars, seen>> /\ job'.tracked = job.tracked
    /\ i \in 1 .. Len(tree) /\ tree[i].chains = <<>> /\ q \in 1 .. Len(query)
    /\ tree' = WithQuery(tree, i, q, "operator")
    /\ poller' = Synced(poller, tree')

Moves ==
    \/ Holds /\ (job'.tracked = "no" => job.tracked = "no")
    \/ DropsTree \/ Reads
    \/ \E q, phase, obs : Hears(q, phase, obs)
    \/ \E i, q : Recovers(i, q)

FileMoves ==
    /\ FileOK /\ FileOK' /\ QueriesGrow /\ FileSize <= FileSize'
    /\ log' = log \/ \E e \in Lines(Len(query)) : log' = Append(log, e)

\* The lines read so far stay what they are.
LEMMA WholeStays ==
    ASSUME FileMoves, seen \in Nat, seen <= FileSize, seen' = seen
    PROVE  Whole' = Whole
<1>1. PICK a, S : a = Readable(seen) /\ S = Lines(Len(query))
  OBVIOUS
<1>2. /\ a \in Nat /\ a <= Len(log) /\ log \in Seq(S) /\ Len(log) \in Nat
  BY <1>1, ReadableFacts DEF FileMoves, FileOK
<1>3. SubSeq(log', 1, a) = SubSeq(log, 1, a)
  <2>1. ASSUME NEW e \in S, NEW x, x = Append(log, e)
        PROVE  SubSeq(x, 1, a) = SubSeq(log, 1, a)
    <3>1. \A i \in 1 .. a : x[i] = log[i] /\ log[i] \in S
      BY <1>2, <2>1
    <3>2. PICK u, v : u = SubSeq(x, 1, a) /\ v = SubSeq(log, 1, a)
      OBVIOUS
    <3>3. /\ u \in Seq(S) /\ Len(u) = a /\ \A i \in 1 .. a : u[i] = x[i]
      <4>1. \A i \in 1 .. a : x[i] \in S
        BY <3>1
      <4>2. /\ u \in Seq(S) /\ Len(u) = (IF 1 <= a THEN a - 1 + 1 ELSE 0)
            /\ \A i \in 1 .. a - 1 + 1 : u[i] = x[1 + i - 1]
        BY <1>2, <3>2, <4>1, SubSeqProperties
      <4> QED
        BY <1>2, <4>2
    <3>4. /\ v \in Seq(S) /\ Len(v) = a /\ \A i \in 1 .. a : v[i] = log[i]
      <4>1. /\ v \in Seq(S) /\ Len(v) = (IF 1 <= a THEN a - 1 + 1 ELSE 0)
            /\ \A i \in 1 .. a - 1 + 1 : v[i] = log[1 + i - 1]
        BY <1>2, <3>1, <3>2, SubSeqProperties
      <4> QED
        BY <1>2, <4>1
    <3>5. u = v
      BY <3>1, <3>3, <3>4, SeqEqual
    <3> QED
      BY <3>2, <3>5
  <2> QED
    BY <1>1, <2>1 DEF FileMoves
<1>4. Whole = Feeds(<<>>, SubSeq(log, 1, a))
  BY <1>1 DEF Whole, Replay, Feeds
<1>5. Whole' = Feeds(<<>>, SubSeq(log', 1, a))
  BY <1>1 DEF Whole, Replay, Readable, Feeds
<1> QED
  BY <1>3, <1>4, <1>5

\* What was true of an outcome stays true.
LEMMA TruthStays ==
    ASSUME FileMoves, NEW q \in QueryIds, q <= Len(query), NEW obs, Truth(q, obs)
    PROVE  Truth(q, obs)'
<1>1. q \in 1 .. Len(query)
  BY DEF QueryIds, FileMoves, FileOK, FileTypeOK
<1> QED
  BY <1>1 DEF FileMoves, QueriesGrow, Truth

\* Nothing moves but the file or a flag of the Job.
LEMMA HoldsStep ==
    ASSUME FileMoves, TreeInv, Holds, job'.tracked = "no" => job.tracked = "no"
    PROVE  TreeInv'
<1>1. /\ FileSize \in Nat /\ (FileSize') \in Nat /\ seen \in Nat
      /\ FileSize <= FileSize' /\ seen <= FileSize
      /\ Len(query) \in Nat /\ Len(query') \in Nat /\ Len(query) <= Len(query')
  BY DEF FileMoves, FileOK, FileTypeOK, FileSize, TreeInv, QueriesGrow
<1>2. Whole' = Whole
  BY <1>1, WholeStays DEF Holds
<1>3. \A n \in Nodes(tree) : n.q \in QueryIds
  <2>1. ASSUME NEW n \in Nodes(tree)
        PROVE  n.q \in QueryIds
    <3>1. n \in Node
      BY NodeFacts DEF TreeInv
    <3> QED
      BY <3>1 DEF Node
  <2> QED
    BY <2>1
<1>4. /\ \A n \in Nodes(tree) : n.q <= Len(query')
      /\ \A q \in QueryIds : poller[q].phase # "absent" => q <= Len(query')
  BY <1>1, <1>3 DEF TreeInv, QueryIds
<1>5. ASSUME NEW q \in QueryIds, poller[q].last \in Terminal
      PROVE  /\ poller[q].last = "succeeded" => query'[q].state = "finished"
             /\ poller[q].last = "failed" => query'[q].state = "exception"
  <2>1. PICK obs : obs = poller[q].last
    OBVIOUS
  <2>2. poller[q].phase # "absent"
    BY <1>5 DEF TreeInv, Terminal
  <2>3. q <= Len(query) /\ Truth(q, obs)
    BY <1>5, <2>1, <2>2 DEF TreeInv
  <2>4. Truth(q, obs)'
    BY <2>3, TruthStays
  <2> QED
    BY <2>1, <2>4 DEF Truth
<1>6. LeavesArePolled'
  BY DEF LeavesArePolled, Holds, TreeInv
<1>7. seen' <= FileSize' /\ seen' = seen /\ tree' = tree /\ poller' = poller
  BY <1>1 DEF Holds
<1>8. \A q \in QueryIds : poller'[q].last \in Terminal =>
        /\ poller'[q].last = "succeeded" => query'[q].state = "finished"
        /\ poller'[q].last = "failed" => query'[q].state = "exception"
  BY <1>5, <1>7
<1>9. /\ tree \in Trees /\ poller \in Pollers /\ Mirrors(tree', Whole')
      /\ job'.tracked = "no" => tree = <<>> /\ seen = 0
      /\ \A q \in QueryIds : poller[q].phase = "absent" => poller[q].last = "none"
      /\ \A n \in Nodes(tree) : n.obs \in Terminal => poller[n.q].last = n.obs
  BY <1>2, <1>7 DEF TreeInv
<1> HIDE <1>2, <1>5
<1> QED
  BY <1>1, <1>4, <1>6, <1>7, <1>8, <1>9 DEF TreeInv, Truth

\* The Job is dropped: nothing is left to be wrong.
LEMMA DropsStep ==
    ASSUME FileMoves, DropsTree
    PROVE  TreeInv'
<1>1. /\ FileSize' \in Nat
  BY DEF FileMoves, FileOK, FileTypeOK, FileSize
<1>2. /\ tree' = <<>> /\ seen' = 0
      /\ \A q \in QueryIds : poller'[q] = [phase |-> "absent", last |-> "none"]
      /\ poller' \in Pollers
  BY DEF DropsTree, NoPoller, Pollers
<1>3. Whole' = <<>>
  <2>1. PICK t, s : t = <<>> /\ s = SubSeq(log', 1, Readable(0))
    OBVIOUS
  <2>2. Readable(0) = 0
    BY EventFileAssumption DEF Readable
  <2>3. s = <<>>
    BY <2>1, <2>2, SubSeqEmpty
  <2>4. Whole' = Feeds(t, s)
    BY <1>2, <2>1 DEF Whole, Replay, Readable, Feeds
  <2>5. Feeds(t, <<>>) = t
    BY FeedsEmpty
  <2> QED
    BY <2>1, <2>3, <2>4, <2>5
<1>4. Mirrors(<<>>, <<>>)
  BY DEF Mirrors
<1>5. LeavesArePolled'
  BY <1>2, NoTree DEF LeavesArePolled, QueriesOf
<1> QED
  BY <1>1, <1>2, <1>3, <1>4, <1>5, NoTree DEF TreeInv, Terminal

\* New pollers start with what the tree holds, which is never an outcome.
LEMMA SyncedTree ==
    ASSUME poller \in Pollers, NEW t \in Trees, NEW r, r = Synced(poller, t), NEW k \in Nat,
           \A q \in QueryIds : poller[q].phase = "absent" => poller[q].last = "none",
           \A q \in QueryIds : poller[q].phase # "absent" => q <= k,
           \A n \in Nodes(t) : n.q <= k,
           \A n \in Nodes(t) : n.obs \in Terminal => poller[n.q].last = n.obs
    PROVE  /\ r \in Pollers
           /\ \A q \in QueryIds : r[q].phase = "absent" => r[q].last = "none"
           /\ \A q \in QueryIds : r[q].phase # "absent" => q <= k
           /\ \A n \in Nodes(t) : n.obs \in Terminal => r[n.q].last = n.obs
           /\ \A q \in QueryIds : r[q].last \in Terminal <=> poller[q].last \in Terminal
           /\ \A q \in QueryIds : poller[q].last \in Terminal => r[q].last = poller[q].last
           /\ \A q \in QueryIds :
                /\ q \in QueriesOf(Leaves(t)) => r[q].phase # "absent"
                /\ r[q].phase \in {"live", "extra"} => q \in QueriesOf(Leaves(t))
<1>1. /\ r \in Pollers
      /\ \A q \in QueryIds :
                /\ q \in QueriesOf(Leaves(t)) => r[q].phase # "absent"
                /\ r[q].phase \in {"live", "extra"} => q \in QueriesOf(Leaves(t))
                /\ poller[q].phase # "absent" =>
                     r[q].phase # "absent" /\ r[q].last = poller[q].last
                /\ poller[q].phase = "absent" =>
                     \/ r[q] = poller[q]
                     \/ \E n \in Leaves(t) : n.q = q /\ r[q].last = n.obs /\ r[q].phase = "live"
  <2>1. PICK p : p = poller
    OBVIOUS
  <2>2. p \in Pollers /\ r = Synced(p, t)
    BY <2>1
  <2> QED
    BY <2>1, <2>2, SyncedFacts
<1>2. ASSUME NEW q \in QueryIds, poller[q].phase = "absent"
      PROVE  /\ poller[q].last = "none" /\ r[q].last \notin Terminal
             /\ r[q].phase = "absent" => r[q].last = "none"
             /\ r[q].phase # "absent" => q <= k
  <2>1. poller[q].last = "none"
    BY <1>2
  <2>2. CASE r[q] = poller[q]
    BY <1>2, <2>1, <2>2 DEF Terminal
  <2>3. ASSUME NEW n \in Leaves(t), n.q = q, r[q].last = n.obs, r[q].phase = "live"
        PROVE  r[q].last \notin Terminal /\ q <= k
    <3>1. n \in Nodes(t)
      BY LeafFacts
    <3>2. n.obs \notin Terminal
      BY <2>1, <2>3, <3>1 DEF Terminal
    <3> QED
      BY <2>3, <3>1, <3>2
  <2> QED
    BY <1>1, <1>2, <2>1, <2>2, <2>3
<1>3. \A n \in Nodes(t) : n.q \in QueryIds
  BY NodeFacts DEF Node
<1>4. ASSUME NEW q \in QueryIds, poller[q].phase # "absent"
      PROVE  r[q].phase # "absent" /\ r[q].last = poller[q].last /\ q <= k
  BY <1>1, <1>4
<1>5. ASSUME NEW n \in Nodes(t), n.obs \in Terminal
      PROVE  r[n.q].last = n.obs
  <2>1. n.q \in QueryIds /\ poller[n.q].last = n.obs
    BY <1>3, <1>5
  <2>2. poller[n.q].phase # "absent"
    BY <1>2, <1>5, <2>1 DEF Terminal
  <2> QED
    BY <1>4, <2>1, <2>2
<1>6. ASSUME NEW q \in QueryIds
      PROVE  /\ r[q].phase = "absent" => r[q].last = "none"
             /\ r[q].phase # "absent" => q <= k
             /\ r[q].last \in Terminal <=> poller[q].last \in Terminal
             /\ poller[q].last \in Terminal => r[q].last = poller[q].last
  <2>1. CASE poller[q].phase = "absent"
    BY <1>2, <2>1 DEF Terminal
  <2>2. CASE poller[q].phase # "absent"
    BY <1>4, <2>2
  <2> QED
    BY <2>1, <2>2
<1> QED
  BY <1>1, <1>5, <1>6

\* No outcome is won or lost.
SameOutcomes ==
    \A q \in QueryIds : poller[q].last \in Terminal \/ poller'[q].last \in Terminal =>
                            poller'[q].last = poller[q].last

\* TreeInv after a step that asks for the pollers of a new tree
LEMMA SyncStep ==
    ASSUME FileMoves, UNCHANGED fileVars, TreeInv,
           tree' \in Trees, poller' = Synced(poller, tree'),
           seen' \in Nat, seen' <= FileSize, job'.tracked = "yes", Mirrors(tree', Whole'),
           \A n \in Nodes(tree') : n.q <= Len(query),
           \A n \in Nodes(tree') : n.obs \in Terminal => poller[n.q].last = n.obs
    PROVE  /\ TreeInv'
           /\ SameOutcomes
<1>1. PICK t, r, k : t = tree' /\ r = poller' /\ k = Len(query)
  OBVIOUS
<1>2. /\ k \in Nat /\ t \in Trees /\ r = Synced(poller, t)
      /\ \A n \in Nodes(t) : n.q <= k
      /\ \A n \in Nodes(t) : n.obs \in Terminal => poller[n.q].last = n.obs
  BY <1>1 DEF FileMoves, FileOK, FileTypeOK
<1>3. /\ poller \in Pollers
      /\ \A q \in QueryIds : poller[q].phase = "absent" => poller[q].last = "none"
      /\ \A q \in QueryIds : poller[q].phase # "absent" => q <= k
      /\ \A q \in QueryIds : poller[q].last \in Terminal => Truth(q, poller[q].last)
  BY <1>1 DEF TreeInv
<1>4. /\ r \in Pollers
      /\ \A q \in QueryIds : r[q].phase = "absent" => r[q].last = "none"
      /\ \A q \in QueryIds : r[q].phase # "absent" => q <= k
      /\ \A n \in Nodes(t) : n.obs \in Terminal => r[n.q].last = n.obs
      /\ \A q \in QueryIds : r[q].last \in Terminal <=> poller[q].last \in Terminal
      /\ \A q \in QueryIds : poller[q].last \in Terminal => r[q].last = poller[q].last
      /\ \A q \in QueryIds :
           /\ q \in QueriesOf(Leaves(t)) => r[q].phase # "absent"
           /\ r[q].phase \in {"live", "extra"} => q \in QueriesOf(Leaves(t))
  BY <1>2, <1>3, SyncedTree
<1>5. ASSUME NEW q \in QueryIds, r[q].last \in Terminal
      PROVE  Truth(q, r[q].last)
  BY <1>3, <1>4, <1>5
<1>6. /\ query' = query /\ FileSize' = FileSize
  BY DEF fileVars, FileSize
<1>7. LeavesArePolled'
  BY <1>1, <1>4 DEF LeavesArePolled
<1>8. \A q \in QueryIds : poller'[q].last \in Terminal =>
        /\ poller'[q].last = "succeeded" => query'[q].state = "finished"
        /\ poller'[q].last = "failed" => query'[q].state = "exception"
  BY <1>1, <1>5, <1>6 DEF Truth
<1>9. /\ tree' \in Trees /\ poller' \in Pollers /\ seen' \in Nat /\ seen' <= FileSize'
      /\ job'.tracked # "no" /\ Mirrors(tree', Whole')
      /\ \A n \in Nodes(tree') : n.q <= Len(query')
      /\ \A q \in QueryIds : poller'[q].phase # "absent" => q <= Len(query')
      /\ \A q \in QueryIds : poller'[q].phase = "absent" => poller'[q].last = "none"
      /\ \A n \in Nodes(tree') : n.obs \in Terminal => poller'[n.q].last = n.obs
  BY <1>1, <1>2, <1>4, <1>6
<1>10. TreeInv'
  BY <1>7, <1>8, <1>9 DEF TreeInv, Truth
<1> QED
  BY <1>1, <1>4, <1>10 DEF SameOutcomes

\* New lines are read: the tree is their replay, and no outcome is touched.
LEMMA ReadsStep ==
    ASSUME FileMoves, TreeInv, Reads
    PROVE  /\ TreeInv'
           /\ SameOutcomes
<1>0. /\ FileOK /\ FileSize \in Nat /\ Len(query) \in Nat /\ Len(query) <= MaxQueries
      /\ seen \in Nat /\ seen <= FileSize /\ tree \in Trees /\ poller \in Pollers
      /\ UNCHANGED fileVars
  BY DEF FileMoves, FileOK, FileTypeOK, FileSize, TreeInv, Reads
<1>1. PICK a, b, k : a = Readable(seen) /\ b = Readable(FileSize) /\ k = Len(query)
  OBVIOUS
<1>2. /\ a \in Nat /\ b \in Nat /\ a <= b /\ b <= Len(log) /\ k \in Nat /\ k <= MaxQueries
  BY <1>0, <1>1, ReadableFacts
<1>3. PICK s, t, u, r, w : /\ s = SubSeq(log, a + 1, b) /\ t = tree /\ u = Feeds(t, s)
                           /\ r = tree' /\ w = Whole
  OBVIOUS
<1>4. /\ s \in Seq(Lines(k)) /\ Replay(t, a, b) = u
      /\ Replay(<<>>, 0, b) = Feeds(Replay(<<>>, 0, a), s)
  BY SMTT(30), <1>0, <1>1, <1>2, <1>3, ReplayParts
<1>5. /\ u \in Trees
      /\ \A n \in Nodes(u) : n \in Nodes(t) \/ (n.obs = "none" /\ n.q <= k)
  BY <1>0, <1>2, <1>3, <1>4, FeedsFacts
<1>6. r = Reattached(t, u)
  BY <1>1, <1>3, <1>4 DEF Reads
<1>7. \A q \in QueryIds : poller[q].last \in Phases \cup {"none"}
  BY <1>0 DEF Pollers
<1>8. /\ r \in Trees /\ SameShape(r, u)
      /\ \A i, c, n : Is(u, i, c, n) => Renews(t, u[i].chains[c][n], r[i].chains[c][n])
  BY <1>0, <1>3, <1>5, <1>6, <1>7, ReattachedFacts
<1>9. ASSUME NEW z \in Nodes(r)
      PROVE  z.q <= k /\ (z.obs \in Terminal => poller[z.q].last = z.obs)
  <2>1. PICK i, c, n : Is(r, i, c, n) /\ z = r[i].chains[c][n]
    BY <1>8, <1>9, NodeFacts
  <2>2. Is(u, i, c, n)
    BY <1>8, <2>1 DEF SameShape, Is
  <2>3. PICK m : m = u[i].chains[c][n]
    OBVIOUS
  <2>4. m \in Nodes(u) /\ Renews(t, m, z)
    BY <1>5, <1>8, <2>1, <2>2, <2>3, NodeFacts
  <2>5. m \in Nodes(t) \/ (m.obs = "none" /\ m.q <= k)
    BY <1>5, <2>4
  <2>6. \A o \in Nodes(t) : o.q <= k /\ (o.obs \in Terminal => poller[o.q].last = o.obs)
    BY <1>1, <1>3 DEF TreeInv
  <2>7. z.q = m.q
    BY <2>4 DEF Renews
  <2>8. CASE z.obs = Previous(t, m.q) /\ z.obs # "none"
    <3>1. \E o \in Nodes(t) : o.q = m.q /\ o.obs = z.obs
      BY <1>0, <1>3, <2>8, PreviousFacts
    <3> QED
      BY <2>5, <2>6, <2>7, <3>1
  <2>9. CASE z.obs = poller[m.q].last
    BY <2>5, <2>6, <2>7, <2>9
  <2>10. CASE z.obs = m.obs
    BY <2>5, <2>6, <2>7, <2>10 DEF Terminal
  <2> QED
    BY <2>4, <2>8, <2>9, <2>10 DEF Renews
<1>10. Mirrors(r, Feeds(w, s))
  <2>1. w \in Trees /\ Mirrors(t, w)
    BY <1>0, <1>3, WholeIsTree DEF TreeInv
  <2>2. Mirrors(u, Feeds(w, s))
    BY <1>0, <1>2, <1>3, <1>4, <2>1, FeedsMirrors
  <2>3. PICK x : x = Feeds(w, s)
    OBVIOUS
  <2> QED
    BY <1>8, <2>2, <2>3, ShapeKeepsMirror
<1>11. Whole' = Feeds(w, s)
  <2>1. Whole' = Feeds(<<>>, SubSeq(log, 1, b))
    BY <1>0, <1>1 DEF Whole, Replay, Readable, Feeds, Reads, fileVars, FileSize
  <2>2. Replay(<<>>, 0, b) = Feeds(<<>>, SubSeq(log, 1, b))
    BY DEF Replay, Feeds
  <2>3. w = Replay(<<>>, 0, a)
    BY <1>1, <1>3 DEF Whole
  <2> QED
    BY <1>4, <2>1, <2>2, <2>3
<1>12. /\ tree' \in Trees /\ poller' = Synced(poller, tree') /\ seen' \in Nat
       /\ seen' <= FileSize /\ job'.tracked = "yes" /\ Mirrors(tree', Whole')
       /\ \A n \in Nodes(tree') : n.q <= Len(query)
       /\ \A n \in Nodes(tree') : n.obs \in Terminal => poller[n.q].last = n.obs
  BY <1>0, <1>1, <1>3, <1>8, <1>9, <1>10, <1>11 DEF Reads
<1> HIDE <1>4, <1>5, <1>7, <1>8, <1>9
<1> QED
  BY <1>0, <1>12, SyncStep

\* An answer is attached: the shape stays, and an outcome is only repeated.
LEMMA HearsStep ==
    ASSUME FileMoves, TreeInv, NEW q, NEW phase, NEW obs, Hears(q, phase, obs)
    PROVE  /\ TreeInv'
           /\ \A o \in QueryIds : poller[o].last \in Terminal => poller'[o].last = poller[o].last
<1>0. /\ tree \in Trees /\ poller \in Pollers /\ seen \in Nat /\ q \in QueryIds
      /\ obs \in Phases \cup {"none"} /\ phase \in {"live", "extra", "stopped"}
      /\ UNCHANGED fileVars /\ seen' = seen /\ job'.tracked = job.tracked
      /\ seen <= FileSize
  BY DEF TreeInv, Hears
<1>1. /\ poller' \in Pollers
      /\ poller'[q].phase = phase /\ poller'[q].last = obs
      /\ \A o \in QueryIds : o # q => poller'[o] = poller[o]
  <2>1. PICK e : e = [phase |-> phase, last |-> obs]
    OBVIOUS
  <2>2. /\ e \in [phase : {"absent", "live", "extra", "final", "stopped"},
                  last : Phases \cup {"none"}]
        /\ e.phase = phase /\ e.last = obs
    BY <1>0, <2>1
  <2>3. poller' = [poller EXCEPT ![q] = e]
    BY <2>1 DEF Hears
  <2> QED
    BY <1>0, <2>2, <2>3 DEF Pollers
<1>2. PICK t, u, w, k : t = tree /\ u = tree' /\ w = Whole /\ k = Len(query)
  OBVIOUS
<1>3. /\ u \in Trees /\ SameShape(u, t)
      /\ \A i, c, n : Is(t, i, c, n) =>
           \/ u[i].chains[c][n] = t[i].chains[c][n]
           \/ t[i].chains[c][n].q = q /\ u[i].chains[c][n].obs = obs
  <2>1. u = Attached(t, q, obs)
    BY <1>2 DEF Hears
  <2> QED
    BY <1>0, <1>2, <2>1, AttachedFacts
<1>4. /\ poller[q].last \in Terminal => obs = poller[q].last
      /\ obs \in Terminal => Truth(q, obs)
      /\ poller[q].phase \notin {"absent", "stopped"}
      /\ phase \in {"live", "extra"} => poller[q].phase \in {"live", "extra"}
  BY DEF Hears
<1>5. ASSUME NEW z \in Nodes(u)
      PROVE  /\ \E m \in Nodes(t) : m.q = z.q /\ (z.obs = m.obs \/ (z.q = q /\ z.obs = obs))
             /\ z.q \in QueryIds
  <2>1. PICK i, c, n : Is(u, i, c, n) /\ z = u[i].chains[c][n]
    BY <1>3, <1>5, NodeFacts
  <2>2. Is(t, i, c, n)
    BY <1>3, <2>1 DEF SameShape, Is
  <2>3. /\ t[i].chains[c][n] \in Nodes(t) /\ t[i].chains[c][n].q = z.q
    <3>1. t[i].chains[c][n] \in Nodes(t)
      BY <1>0, <1>2, <2>2, NodeFacts
    <3>2. u[i].chains[c][n].q = t[i].chains[c][n].q
      BY <1>3, <2>2 DEF SameShape, Is
    <3> QED
      BY <2>1, <3>1, <3>2
  <2>4. z \in Node
    BY <1>3, NodeFacts
  <2>5. \/ u[i].chains[c][n] = t[i].chains[c][n]
        \/ t[i].chains[c][n].q = q /\ u[i].chains[c][n].obs = obs
    BY <1>3, <2>2
  <2>6. PICK m : m = t[i].chains[c][n]
    OBVIOUS
  <2>7. /\ m \in Nodes(t) /\ m.q = z.q
        /\ z = m \/ (m.q = q /\ z.obs = obs)
    BY <2>1, <2>3, <2>5, <2>6
  <2>8. z.q \in QueryIds
    BY <2>4 DEF Node
  <2> QED
    BY ONLY <2>7, <2>8
<1>6. /\ \A n \in Nodes(t) : n.q <= k
      /\ \A n \in Nodes(t) : n.obs \in Terminal => poller[n.q].last = n.obs
      /\ \A o \in QueryIds : poller[o].phase # "absent" => o <= k
      /\ \A o \in QueryIds : poller[o].phase = "absent" => poller[o].last = "none"
      /\ \A o \in QueryIds : poller[o].last \in Terminal => Truth(o, poller[o].last)
  BY <1>2 DEF TreeInv
<1>7. ASSUME NEW z \in Nodes(u)
      PROVE  z.q <= k /\ (z.obs \in Terminal => poller'[z.q].last = z.obs)
  <2>1. PICK m \in Nodes(t) : m.q = z.q /\ (z.obs = m.obs \/ (z.q = q /\ z.obs = obs))
    BY <1>5
  <2>2. z.q <= k /\ z.q \in QueryIds
    BY <1>5, <1>6, <2>1
  <2>3. CASE z.q = q
    <3>1. ASSUME z.obs \in Terminal, z.obs = m.obs
          PROVE  obs = z.obs
      BY <1>4, <1>6, <2>1, <2>3, <3>1
    <3> QED
      BY <1>1, <2>1, <2>2, <2>3, <3>1
  <2>4. CASE z.q # q
    BY <1>1, <1>6, <2>1, <2>2, <2>4
  <2> QED
    BY <2>2, <2>3, <2>4
<1>8. ASSUME NEW o \in QueryIds
      PROVE  /\ poller'[o].phase # "absent" => o <= k
             /\ poller'[o].phase = "absent" => poller'[o].last = "none"
             /\ poller'[o].last \in Terminal => Truth(o, poller'[o].last)
             /\ poller[o].last \in Terminal => poller'[o].last = poller[o].last
             /\ poller'[o].phase = "absent" <=> poller[o].phase = "absent"
             /\ poller'[o].phase \in {"live", "extra"} => poller[o].phase \in {"live", "extra"}
  <2>1. CASE o = q
    BY <1>0, <1>1, <1>4, <1>6, <2>1
  <2>2. CASE o # q
    BY <1>1, <1>6, <2>2
  <2> QED
    BY <2>1, <2>2
<1>9. Mirrors(u, w)
  BY <1>2, <1>3, ShapeKeepsMirror DEF TreeInv
<1>10. QueriesOf(Leaves(u)) = QueriesOf(Leaves(t))
  BY <1>0, <1>2, <1>3, ShapeKeepsLeaves
<1>11. LeavesArePolled'
  <2>1. \A o \in QueryIds :
          /\ o \in QueriesOf(Leaves(t)) => poller[o].phase # "absent"
          /\ poller[o].phase \in {"live", "extra"} => o \in QueriesOf(Leaves(t))
    BY <1>2 DEF TreeInv, LeavesArePolled
  <2>2. \A o \in QueryIds :
          /\ o \in QueriesOf(Leaves(u)) => poller'[o].phase # "absent"
          /\ poller'[o].phase \in {"live", "extra"} => o \in QueriesOf(Leaves(u))
    BY <1>8, <1>10, <2>1
  <2> QED
    BY <1>2, <2>2 DEF LeavesArePolled
<1>12. job.tracked = "no" => u = <<>> /\ seen = 0
  <2>1. ASSUME job.tracked = "no"
        PROVE  u = <<>> /\ seen = 0
    <3>1. t = <<>> /\ seen = 0
      BY <1>2, <2>1 DEF TreeInv
    <3>2. u \in Seq(ShellNode) /\ Len(u) = 0
      BY <1>3, <3>1 DEF SameShape, Trees
    <3> QED
      BY <3>1, <3>2, EmptySeq
  <2> QED
    BY <2>1
<1>13. Whole' = w
  BY <1>0, <1>2, WholeStays
<1>14. /\ query' = query /\ FileSize' = FileSize
  BY <1>0 DEF fileVars, FileSize
<1>15. \A o \in QueryIds : poller'[o].last \in Terminal =>
        /\ poller'[o].last = "succeeded" => query'[o].state = "finished"
        /\ poller'[o].last = "failed" => query'[o].state = "exception"
  BY <1>8, <1>14 DEF Truth
<1>16. TreeInv'
  <2>1. /\ tree' \in Trees /\ poller' \in Pollers /\ seen' \in Nat /\ seen' <= FileSize'
        /\ job'.tracked = "no" => tree' = <<>> /\ seen' = 0
        /\ Mirrors(tree', Whole')
        /\ \A n \in Nodes(tree') : n.q <= Len(query')
        /\ \A o \in QueryIds : poller'[o].phase # "absent" => o <= Len(query')
        /\ \A o \in QueryIds : poller'[o].phase = "absent" => poller'[o].last = "none"
        /\ \A n \in Nodes(tree') : n.obs \in Terminal => poller'[n.q].last = n.obs
    <3> HIDE <1>4, <1>5, <1>6
    <3> QED
      BY <1>0, <1>1, <1>2, <1>3, <1>7, <1>8, <1>9, <1>12, <1>13, <1>14
  <2> QED
    BY <1>11, <1>15, <2>1 DEF TreeInv, Truth
<1> QED
  BY <1>8, <1>16

\* A recovered query is attached: its shell is no replay any more.
LEMMA RecoversStep ==
    ASSUME FileMoves, TreeInv, job.tracked \in {"yes", "no"}, NEW i, NEW q, Recovers(i, q)
    PROVE  /\ TreeInv'
           /\ SameOutcomes
<1>0. /\ tree \in Trees /\ poller \in Pollers /\ seen \in Nat /\ seen <= FileSize
      /\ UNCHANGED fileVars /\ seen' = seen /\ i \in 1 .. Len(tree)
      /\ job'.tracked = job.tracked /\ q \in 1 .. Len(query) /\ q \in QueryIds
  <2>1. /\ tree \in Trees /\ poller \in Pollers /\ seen \in Nat /\ seen <= FileSize
    BY DEF TreeInv
  <2>2. /\ UNCHANGED fileVars /\ seen' = seen /\ i \in 1 .. Len(tree)
        /\ job'.tracked = job.tracked /\ q \in 1 .. Len(query)
    BY DEF Recovers
  <2>3. /\ Len(query) \in Nat /\ Len(query) <= MaxQueries /\ MaxQueries \in Nat
    BY EventFileAssumption DEF FileMoves, FileOK, FileTypeOK
  <2> QED
    BY <2>1, <2>2, <2>3 DEF QueryIds
<1>1. PICK t, u, w, k, e : /\ t = tree /\ u = tree' /\ w = Whole /\ k = Len(query)
                           /\ e = Observed(q, "operator")
  OBVIOUS
<1>2. /\ t \in Trees /\ i \in 1 .. Len(t) /\ u = WithQuery(t, i, q, "operator")
  BY <1>0, <1>1 DEF Recovers
<1>3. DiffersAt(u, t, i, Append(t[i].chains, <<e>>))
  BY <1>0, <1>1, <1>2, WithQueryFacts
<1>4. u \in Trees
  BY <1>3 DEF DiffersAt
<1>5. /\ e \in Node /\ e.obs = "none" /\ e.q = q /\ e.from = "operator"
  BY <1>0, <1>1, ObservedIsNode
<1>6. ASSUME NEW n \in Nodes(u)
      PROVE  n.q <= k /\ (n.obs \in Terminal => poller[n.q].last = n.obs)
  <2>1. n \in Nodes(t) \/ n = e
    BY <1>0, <1>1, <1>2, NodesOfWithQuery
  <2>2. CASE n \in Nodes(t)
    BY <1>1, <2>2 DEF TreeInv
  <2>3. CASE n = e
    BY <1>0, <1>1, <1>5, <2>3 DEF Terminal
  <2> QED
    BY <2>1, <2>2, <2>3
<1>7. Mirrors(u, w)
  <2>1. Mirrors(t, w)
    BY <1>1 DEF TreeInv
  <2>2. PICK x, y : x = t[i].chains /\ y = Append(x, <<e>>)
    OBVIOUS
  <2>3. /\ x \in Chains /\ Len(x) \in Nat
    BY <1>2, <2>2, TreeParts
  <2>4. /\ Len(y) = Len(x) + 1 /\ y[Len(x) + 1] = <<e>>
    BY <2>2, <2>3 DEF Chains
  <2>5. ~AllLog(y)
    <3>1. /\ Len(x) + 1 \in 1 .. Len(y) /\ 1 \in 1 .. Len(y[Len(x) + 1])
          /\ y[Len(x) + 1][1] = e
      BY <2>3, <2>4
    <3> QED
      BY <1>5, <3>1 DEF AllLog
  <2>6. /\ Len(u) = Len(t) /\ u[i].chains = y /\ u[i].shell = t[i].shell
        /\ \A j \in 1 .. Len(t) : j # i => u[j] = t[j]
    BY <1>3, <2>2 DEF DiffersAt
  <2> QED
    BY <2>1, <2>5, <2>6 DEF Mirrors
<1>8. Whole' = w
  BY <1>0, <1>1, WholeStays
<1>9. job'.tracked = "yes"
  <2>1. t # <<>>
    BY <1>2
  <2>2. job.tracked # "no"
    BY <1>1, <2>1 DEF TreeInv
  <2> QED
    BY <1>0, <2>2
<1>10. /\ tree' \in Trees /\ poller' = Synced(poller, tree') /\ seen' \in Nat
       /\ seen' <= FileSize /\ Mirrors(tree', Whole')
       /\ \A n \in Nodes(tree') : n.q <= Len(query)
       /\ \A n \in Nodes(tree') : n.obs \in Terminal => poller[n.q].last = n.obs
  BY <1>0, <1>1, <1>4, <1>6, <1>7, <1>8 DEF Recovers
<1> HIDE <1>5, <1>6
<1> QED
  BY <1>0, <1>9, <1>10, SyncStep

----------------------------------------------------------------------------
(* The actions of the service are these moves *)

\* _refresh_job_locked: reads, or leaves the tree as it is.
LEMMA RefreshMoves ==
    ASSUME NEW j \in JobRecords, Refreshes(j), j.tracked = "yes", UNCHANGED fileVars,
           job.tracked = "no" => tree = <<>> /\ seen = 0, job.tracked \in {"yes", "no"}
    PROVE  Moves
<1>1. KnownTree = tree /\ KnownSeen = seen
  BY DEF KnownTree, KnownSeen
<1>2. job'.tracked = "yes"
  BY RefreshedJob
<1>3. Holds \/ Reads
  BY <1>1, <1>2 DEF Refreshes, Holds, Reads
<1> QED
  BY <1>2, <1>3 DEF Moves

\* _prune_job_if_finished_locked: drops all, or nothing.
LEMMA PruneMoves ==
    ASSUME NEW j \in JobRecords, Prunes(j), j.tracked = job.tracked
    PROVE  Moves
BY DEF Prunes, Moves, Holds, DropsTree, Fresh

\* unsubscribe: at most a prune.
LEMMA UnsubscribeMoves ==
    ASSUME job \in JobRecords, Unsubscribes
    PROVE  Moves
<1>1. CASE job.tracked = "no" \/ job.subs = 0
  BY <1>1 DEF Unsubscribes, Moves, Holds
<1>2. CASE ~(job.tracked = "no" \/ job.subs = 0)
  <2>1. PICK j : j = [job EXCEPT !.subs = @ - 1]
    OBVIOUS
  <2>2. j \in JobRecords /\ j.tracked = job.tracked
    BY <1>2, <2>1 DEF JobRecords
  <2>3. Prunes(j)
    BY <1>2, <2>1 DEF Unsubscribes
  <2> QED
    BY <2>2, <2>3, PruneMoves
<1> QED
  BY <1>1, <1>2

----------------------------------------------------------------------------
(* The thread, the recovery, and the rest *)

ThreadInv ==
    /\ thread \in [pc : {"idle", "poll", "attach"}, due : SUBSET QueryIds,
                   at : 0 .. MaxQueries, answer : Phases \cup {"none", "unavailable"}]
    /\ thread.due \subseteq 1 .. Len(query)
    /\ thread.pc = "attach" =>
          /\ thread.at \in 1 .. Len(query)
          /\ thread.answer \in Terminal => Truth(thread.at, thread.answer)
          /\ poller[thread.at].last \in Terminal =>
                thread.answer \in {poller[thread.at].last, "unavailable"}

RecoveryInv ==
    /\ recovery \in [pc : {"idle", "criteria", "found"}, shell : Nat, q : 0 .. MaxQueries,
                     tries : Nat]
    /\ recovery.pc = "found" => recovery.q \in 1 .. Len(query)

RestInv == dash \in {"active", "inactive"} /\ evicted \subseteq QueryIds /\ faults \in Nat

MonInv == FileOK /\ Balanced(job, visit) /\ TreeInv /\ ThreadInv /\ RecoveryInv /\ RestInv

\* The second half of _poll_one.
LEMMA AttachesMoves ==
    ASSUME MonInv, Attaches, UNCHANGED fileVars
    PROVE  Moves
<1>1. PICK q : q = thread.at
  OBVIOUS
<1>2. /\ thread.pc = "attach" /\ thread'.pc = "poll" /\ seen' = seen
      /\ q \in 1 .. Len(query) /\ q \in QueryIds
      /\ thread.answer \in Phases \cup {"none", "unavailable"}
      /\ thread.answer \in Terminal => Truth(q, thread.answer)
      /\ poller[q].last \in Terminal => thread.answer \in {poller[q].last, "unavailable"}
  <2>1. /\ thread.pc = "attach" /\ seen' = seen
        /\ thread' = [thread EXCEPT !.pc = "poll", !.at = 0, !.answer = "none"]
    BY DEF Attaches
  <2>2. ThreadInv /\ Len(query) \in Nat /\ Len(query) <= MaxQueries /\ MaxQueries \in Nat
    BY EventFileAssumption DEF MonInv, FileOK, FileTypeOK
  <2>3. thread'.pc = "poll"
    BY <2>1, <2>2 DEF ThreadInv
  <2>4. /\ q \in 1 .. Len(query)
        /\ thread.answer \in Phases \cup {"none", "unavailable"}
        /\ thread.answer \in Terminal => Truth(q, thread.answer)
        /\ poller[q].last \in Terminal => thread.answer \in {poller[q].last, "unavailable"}
    BY <1>1, <2>1, <2>2 DEF ThreadInv
  <2> QED
    BY <2>1, <2>2, <2>3, <2>4 DEF QueryIds
<1>3. CASE ~Active(poller, q)
  BY <1>1, <1>3 DEF Attaches, Moves, Holds
<1>4. CASE Active(poller, q)
  <2>1. PICK obs : obs = IF thread.answer # "unavailable" THEN thread.answer
                         ELSE IF poller[q].last # "none" THEN poller[q].last ELSE "unknown"
    OBVIOUS
  <2>2. PICK phase : phase = IF poller[q].phase = "final" THEN "stopped"
                             ELSE IF obs \notin Terminal THEN poller[q].phase
                             ELSE IF poller[q].phase = "extra" THEN "stopped" ELSE "extra"
    OBVIOUS
  <2>3. /\ poller[q].phase \in {"live", "extra", "final"}
        /\ poller[q].last \in Phases \cup {"none"}
        /\ poller[q].last \in Terminal => Truth(q, poller[q].last)
    BY <1>2, <1>4 DEF MonInv, TreeInv, Pollers, Active
  <2>4. /\ phase \in {"live", "extra", "stopped"}
        /\ phase \in {"live", "extra"} => poller[q].phase \in {"live", "extra"}
    BY <2>2, <2>3
  <2>5. /\ obs \in Phases \cup {"none"}
        /\ poller[q].last \in Terminal => obs = poller[q].last
        /\ obs \in Terminal => Truth(q, obs)
    <3>1. CASE thread.answer # "unavailable"
      BY <1>2, <2>1, <3>1
    <3>2. CASE thread.answer = "unavailable"
      BY <2>1, <2>3, <3>2 DEF Terminal, Phases
    <3> QED
      BY <3>1, <3>2
  <2>6. /\ poller' = [poller EXCEPT ![q] = [phase |-> phase, last |-> obs]]
        /\ IF job.tracked = "yes"
           THEN /\ tree' = Attached(tree, q, obs)
                /\ job' = [job EXCEPT !.available = "yes"]
           ELSE UNCHANGED <<tree, job>>
    <3> HIDE <1>2
    <3> QED
      BY <1>1, <1>4, <2>1, <2>2 DEF Attaches
  <2>7. job \in JobRecords
    BY DEF MonInv, Balanced
  <2>8. tree' = Attached(tree, q, obs) /\ job'.tracked = job.tracked
    <3>1. CASE job.tracked = "yes"
      BY <2>6, <2>7, <3>1 DEF JobRecords
    <3>2. CASE job.tracked # "yes"
      <4>1. tree = <<>> /\ tree' = tree /\ job' = job
        BY <2>6, <2>7, <3>2 DEF JobRecords, MonInv, TreeInv
      <4>2. PICK t : t = tree
        OBVIOUS
      <4>3. Places(t) = {}
        <5>1. \A i, c, n : ~Is(t, i, c, n)
          BY <4>1, <4>2 DEF Is
        <5>2. t \in Trees
          BY <4>1, <4>2, NoTree
        <5> QED
          BY <5>1, <5>2, PlaceFacts
      <4>4. Attached(t, q, obs) = t
        BY <4>3 DEF Attached
      <4> QED
        BY <4>1, <4>2, <4>4
    <3> QED
      BY <3>1, <3>2
  <2>9. Hears(q, phase, obs)
    BY <1>2, <2>3, <2>4, <2>5, <2>6, <2>8 DEF Hears
  <2> QED
    BY <2>9 DEF Moves
<1> QED
  BY <1>3, <1>4

\* The second critical section of recover_identity.
LEMMA RecoveryMoves ==
    ASSUME MonInv, RecoveryAttaches, UNCHANGED fileVars
    PROVE  Moves
<1>1. PICK q, at : q = recovery.q /\ at = ShellIndex(tree, recovery.shell)
  OBVIOUS
<1>2. /\ q \in 1 .. Len(query) /\ seen' = seen /\ job \in JobRecords
  BY <1>1 DEF MonInv, RecoveryInv, RecoveryAttaches, Balanced
<1>3. \/ UNCHANGED <<tree, poller, job>>
      \/ /\ at # {} /\ at \subseteq Missing
         /\ tree' = WithQuery(tree, CHOOSE i \in at : TRUE, q, "operator")
         /\ poller' = Synced(poller, tree')
         /\ job' = [job EXCEPT !.available = "yes"]
  BY <1>1 DEF RecoveryAttaches
<1>4. CASE UNCHANGED <<tree, poller, job>>
  BY <1>2, <1>4 DEF Moves, Holds
<1>5. CASE /\ at # {} /\ at \subseteq Missing
           /\ tree' = WithQuery(tree, CHOOSE i \in at : TRUE, q, "operator")
           /\ poller' = Synced(poller, tree')
           /\ job' = [job EXCEPT !.available = "yes"]
  <2>1. PICK i : i = CHOOSE x \in at : TRUE
    OBVIOUS
  <2>2. i \in at
    BY <1>5, <2>1
  <2>3. i \in 1 .. Len(tree) /\ tree[i].chains = <<>>
    BY <1>5, <2>2 DEF Missing
  <2>4. job'.tracked = job.tracked
    BY <1>2, <1>5 DEF JobRecords
  <2>5. Recovers(i, q)
    BY <1>2, <1>5, <2>1, <2>3, <2>4 DEF Recovers
  <2> QED
    BY <2>5 DEF Moves
<1> QED
  BY <1>3, <1>4, <1>5

\* The worker of Job Detail.
LEMMA DetailMoves ==
    ASSUME MonInv, UNCHANGED fileVars, NEW v \in Visits, Detail(v)
    PROVE  Moves
<1>1. /\ job \in JobRecords /\ job.tracked \in {"yes", "no"}
      /\ job.tracked = "no" => tree = <<>> /\ seen = 0
  BY DEF MonInv, Balanced, JobRecords, TreeInv
<1>2. CASE WorkerStarts(v)
  BY <1>2 DEF WorkerStarts, Moves, Holds
<1>3. CASE ThreadSubscribes(v)
  <2>1. PICK j : j = [Known EXCEPT !.subs = @ + 1]
    OBVIOUS
  <2>2. j \in JobRecords /\ j.tracked = "yes"
    BY <2>1, KnownJob DEF JobRecords, MonInv, Balanced
  <2>3. Refreshes(j)
    BY <1>3, <2>1 DEF ThreadSubscribes, Subscribes
  <2> QED
    BY <1>1, <2>2, <2>3, RefreshMoves
<1>4. CASE WorkerHolds(v)
  BY <1>4 DEF WorkerHolds, Moves, Holds
<1>5. CASE WorkerGivesBack(v)
  BY <1>1, <1>5, UnsubscribeMoves DEF WorkerGivesBack
<1> QED
  BY <1>2, <1>3, <1>4, <1>5 DEF Detail

\* Every action of the service.
LEMMA ServiceMoves ==
    ASSUME MonInv, Service, UNCHANGED fileVars
    PROVE  Moves
<1>1. /\ job \in JobRecords /\ job.tracked \in {"yes", "no"}
      /\ job.tracked = "no" => tree = <<>> /\ seen = 0
  BY DEF MonInv, Balanced, JobRecords, TreeInv
<1>2. ASSUME UNCHANGED <<job, tree, seen, poller>>
      PROVE  Moves
  BY <1>2 DEF Moves, Holds
<1>3. CASE TickStarts
  BY <1>1, <1>3, RefreshMoves DEF TickStarts
<1>4. CASE Observes
  BY <1>2, <1>4 DEF Observes
<1>5. CASE Attaches
  BY <1>5, AttachesMoves
<1>6. CASE TickEnds
  BY <1>1, <1>6, PruneMoves DEF TickEnds
<1>7. CASE Opens
  BY <1>2, <1>7 DEF Opens
<1>8. CASE Closes
  BY <1>1, <1>2, <1>8, UnsubscribeMoves DEF Closes
<1>9. CASE \E v \in Visits : Detail(v)
  BY <1>9, DetailMoves
<1>10. CASE DashReads
  BY <1>2, <1>10 DEF DashReads
<1>11. CASE DashSyncs
  <2>1. CASE dash = "active"
    <3>1. PICK j : j = [Known EXCEPT !.registered = "yes"]
      OBVIOUS
    <3>2. j \in JobRecords /\ j.tracked = "yes"
      BY <3>1, KnownJob DEF JobRecords, MonInv
    <3>3. Refreshes(j)
      BY <1>11, <2>1, <3>1 DEF DashSyncs
    <3> QED
      BY <1>1, <3>2, <3>3, RefreshMoves
  <2>2. CASE dash # "active"
    <3>1. PICK j : j = [job EXCEPT !.registered = "no"]
      OBVIOUS
    <3>2. j \in JobRecords /\ j.tracked = job.tracked
      BY <1>1, <3>1 DEF JobRecords
    <3>3. Prunes(j)
      BY <1>11, <2>2, <3>1 DEF DashSyncs
    <3> QED
      BY <3>2, <3>3, PruneMoves
  <2> QED
    BY <2>1, <2>2
<1>12. CASE RecoveryStarts
  BY <1>2, <1>12 DEF RecoveryStarts
<1>13. CASE RecoveryDiscovers
  BY <1>2, <1>13 DEF RecoveryDiscovers
<1>14. CASE RecoveryAttaches
  BY <1>14, RecoveryMoves
<1>15. CASE \E q \in 1 .. Len(query) : Evicts(q)
  BY <1>2, <1>15 DEF Evicts
<1> QED
  BY <1>3, <1>4, <1>5, <1>6, <1>7, <1>8, <1>9, <1>10, <1>11, <1>12, <1>13, <1>14, <1>15
     DEF Service, Tick, Dashboard, Recovery

----------------------------------------------------------------------------
(* Every step *)

\* Moves, with what each does to outcomes
LEMMA TreeStep ==
    ASSUME MonInv, FileMoves, Moves
    PROVE  /\ TreeInv'
           /\ job'.tracked = "yes" =>
                \A q \in QueryIds : poller[q].last \in Terminal => poller'[q].last = poller[q].last
           /\ thread'.pc = "attach" =>
                \A q \in QueryIds : poller'[q].last \in Terminal => poller'[q].last = poller[q].last
<1>1. TreeInv /\ job.tracked \in {"yes", "no"}
  BY DEF MonInv, Balanced, JobRecords
<1>2. CASE Holds /\ (job'.tracked = "no" => job.tracked = "no")
  <2>1. TreeInv'
    BY <1>1, <1>2, HoldsStep
  <2> QED
    BY <1>2, <2>1 DEF Holds
<1>3. CASE DropsTree
  <2>1. TreeInv'
    BY <1>3, DropsStep
  <2>2. \A q \in QueryIds : poller'[q].last = "none"
    BY <1>3 DEF DropsTree, NoPoller
  <2> QED
    BY <1>3, <2>1, <2>2 DEF DropsTree, Terminal
<1>4. CASE Reads
  BY <1>1, <1>4, ReadsStep DEF SameOutcomes
<1>5. CASE \E q, phase, obs : Hears(q, phase, obs)
  <2>1. PICK q, phase, obs : Hears(q, phase, obs)
    BY <1>5
  <2>2. thread'.pc = "poll"
    BY <2>1 DEF Hears
  <2> QED
    BY <1>1, <2>1, <2>2, HearsStep
<1>6. CASE \E i, q : Recovers(i, q)
  BY <1>1, <1>6, RecoversStep DEF SameOutcomes
<1> QED
  BY <1>2, <1>3, <1>4, <1>5, <1>6 DEF Moves

\* What a poll hears of a query agrees with what was heard before.
LEMMA AnswerIsTrue ==
    ASSUME MonInv, NEW q \in 1 .. Len(query)
    PROVE  /\ Answer(q) \in Phases \cup {"none", "unavailable"}
           /\ Answer(q) \in Terminal => Truth(q, Answer(q))
           /\ poller[q].last \in Terminal => Answer(q) \in {poller[q].last, "unavailable"}
<1>1. /\ query \in Seq(QueryRecord) /\ q \in QueryIds
  BY EventFileAssumption DEF MonInv, FileOK, FileTypeOK, QueryIds
<1>2. query[q].state \in {"running", "finished", "exception", "retried"}
  <2>1. query[q] \in QueryRecord
    BY <1>1
  <2> QED
    BY <2>1 DEF QueryRecord
<1>3. poller[q].last \in Terminal => Truth(q, poller[q].last)
  BY <1>1 DEF MonInv, TreeInv
<1> QED
  BY <1>2, <1>3 DEF Answer, Phases, Terminal, Truth

\* An answer on its way stays true whatever others do meanwhile.
LEMMA ThreadStays ==
    ASSUME MonInv, FileMoves, thread' = thread,
           thread'.pc = "attach" =>
             \A q \in QueryIds : poller'[q].last \in Terminal => poller'[q].last = poller[q].last
    PROVE  ThreadInv'
<1>1. /\ Len(query) \in Nat /\ Len(query') \in Nat /\ Len(query) <= Len(query')
      /\ Len(query) <= MaxQueries /\ MaxQueries \in Nat
  BY EventFileAssumption DEF FileMoves, FileOK, FileTypeOK, QueriesGrow
<1>2. ThreadInv
  BY DEF MonInv
<1>3. ASSUME thread.pc = "attach"
      PROVE  /\ thread.at \in 1 .. Len(query')
             /\ thread.answer = "succeeded" => query'[thread.at].state = "finished"
             /\ thread.answer = "failed" => query'[thread.at].state = "exception"
             /\ poller'[thread.at].last \in Terminal =>
                  thread.answer \in {poller'[thread.at].last, "unavailable"}
  <2>1. PICK a, x : a = thread.at /\ x = thread.answer
    OBVIOUS
  <2>2. a \in 1 .. Len(query) /\ (x \in Terminal => Truth(a, x))
    BY <1>2, <1>3, <2>1 DEF ThreadInv
  <2>3. a \in QueryIds /\ a <= Len(query) /\ a \in 1 .. Len(query')
    BY <1>1, <2>2 DEF QueryIds
  <2>4. x \in Terminal => Truth(a, x)'
    <3>1. ASSUME x \in Terminal
          PROVE  Truth(a, x)'
      BY <2>2, <2>3, <3>1, TruthStays
    <3> QED
      BY <3>1
  <2>5. poller'[a].last \in Terminal => x \in {poller'[a].last, "unavailable"}
    BY <1>2, <1>3, <2>1, <2>3 DEF ThreadInv
  <2> QED
    BY <2>1, <2>3, <2>4, <2>5 DEF Truth, Terminal
<1>4. thread.due \subseteq 1 .. Len(query')
  BY <1>1, <1>2 DEF ThreadInv
<1> QED
  BY <1>2, <1>3, <1>4 DEF ThreadInv, Truth

\* The thread itself: what it asks for exists, and what it hears is true.
LEMMA TickStep ==
    ASSUME MonInv, TreeInv', UNCHANGED fileVars, Tick
    PROVE  ThreadInv'
<1>1. /\ Len(query) \in Nat /\ Len(query) <= MaxQueries /\ MaxQueries \in Nat
      /\ query' = query
  BY EventFileAssumption DEF MonInv, FileOK, FileTypeOK, fileVars
<1>2. /\ ThreadInv
      /\ thread \in [pc : {"idle", "poll", "attach"}, due : SUBSET QueryIds,
                     at : 0 .. MaxQueries, answer : Phases \cup {"none", "unavailable"}]
      /\ thread.due \subseteq 1 .. Len(query)
  BY DEF MonInv, ThreadInv
<1>3. CASE TickStarts
  <2>1. PICK d \in SUBSET QueryIds :
          /\ \A q \in d : Active(poller', q)
          /\ thread' = [thread EXCEPT !.pc = "poll", !.due = d]
    BY <1>3 DEF TickStarts
  <2>2. \A q \in d : q <= Len(query')
    BY <2>1 DEF Active, TreeInv
  <2>3. d \subseteq 1 .. Len(query')
    BY <1>1, <2>2 DEF QueryIds
  <2>4. thread'.pc = "poll" /\ thread'.due = d
    BY <1>2, <2>1
  <2>5. thread' \in [pc : {"idle", "poll", "attach"}, due : SUBSET QueryIds,
                     at : 0 .. MaxQueries, answer : Phases \cup {"none", "unavailable"}]
    BY <1>2, <2>1
  <2> QED
    BY <2>3, <2>4, <2>5 DEF ThreadInv
<1>4. CASE Observes
  <2>1. PICK q : q = CHOOSE x \in thread.due : \A o \in thread.due : x <= o
    OBVIOUS
  <2>2. q \in thread.due
    <3>1. PICK T : T = thread.due
      OBVIOUS
    <3>2. T \subseteq Nat /\ T # {}
      BY <1>1, <1>2, <1>4, <3>1 DEF Observes
    <3>3. \E x \in T : \A o \in T : x <= o
      BY <3>2, Least
    <3> QED
      BY <2>1, <3>1, <3>3
  <2>3. q \in 1 .. Len(query)
    BY <1>2, <2>2
  <2>4. PICK a : /\ a = Answer(q) \/ a = "unavailable"
                 /\ thread' = [thread EXCEPT !.pc = "attach", !.due = @ \ {q}, !.at = q, !.answer = a]
    BY <1>4, <2>1 DEF Observes
  <2>5. /\ a \in Phases \cup {"none", "unavailable"}
        /\ a \in Terminal => Truth(q, a)
        /\ poller[q].last \in Terminal => a \in {poller[q].last, "unavailable"}
    BY <2>3, <2>4, AnswerIsTrue DEF Terminal
  <2>6. q \in 0 .. MaxQueries
    BY <1>1, <2>3
  <2>7. /\ thread'.due \subseteq 1 .. Len(query) /\ thread'.at = q /\ thread'.answer = a
        /\ thread' \in [pc : {"idle", "poll", "attach"}, due : SUBSET QueryIds,
                        at : 0 .. MaxQueries, answer : Phases \cup {"none", "unavailable"}]
    BY <1>2, <2>4, <2>5, <2>6
  <2>8. poller' = poller
    BY <1>4 DEF Observes
  <2>9. /\ a = "succeeded" => query'[q].state = "finished"
        /\ a = "failed" => query'[q].state = "exception"
    BY <1>1, <2>5 DEF Truth, Terminal
  <2> QED
    BY <1>1, <2>3, <2>5, <2>7, <2>8, <2>9 DEF ThreadInv, Truth
<1>5. CASE Attaches
  <2>1. thread' = [thread EXCEPT !.pc = "poll", !.at = 0, !.answer = "none"]
    BY <1>5 DEF Attaches
  <2>2. /\ thread'.pc = "poll" /\ thread'.due = thread.due
        /\ thread' \in [pc : {"idle", "poll", "attach"}, due : SUBSET QueryIds,
                        at : 0 .. MaxQueries, answer : Phases \cup {"none", "unavailable"}]
    <3>1. 0 \in 0 .. MaxQueries
      BY <1>1
    <3> QED
      BY <1>2, <2>1, <3>1
  <2> QED
    BY <1>1, <1>2, <2>2 DEF ThreadInv
<1>6. CASE TickEnds
  <2>1. thread' = [thread EXCEPT !.pc = "idle"]
    BY <1>6 DEF TickEnds
  <2>2. /\ thread'.pc = "idle" /\ thread'.due = thread.due
        /\ thread' \in [pc : {"idle", "poll", "attach"}, due : SUBSET QueryIds,
                        at : 0 .. MaxQueries, answer : Phases \cup {"none", "unavailable"}]
    BY <1>2, <2>1
  <2> QED
    BY <1>1, <1>2, <2>2 DEF ThreadInv
<1> QED
  BY <1>3, <1>4, <1>5, <1>6 DEF Tick

\* The recovery only ever names queries that exist.
LEMMA RecoveryStep ==
    ASSUME MonInv, FileMoves, [MonNext]_vars
    PROVE  RecoveryInv'
<1>1. /\ Len(query) \in Nat /\ Len(query') \in Nat /\ Len(query) <= Len(query')
      /\ Len(query') <= MaxQueries /\ MaxQueries \in Nat
  BY EventFileAssumption DEF FileMoves, FileOK, FileTypeOK, QueriesGrow
<1> DEFINE Records == [pc : {"idle", "criteria", "found"}, shell : Nat, q : 0 .. MaxQueries,
                       tries : Nat]
<1>2. /\ recovery \in Records
      /\ recovery.pc = "found" => recovery.q \in 1 .. Len(query)
  BY DEF MonInv, RecoveryInv
<1>3. ASSUME recovery' = recovery
      PROVE  RecoveryInv'
  BY <1>1, <1>2, <1>3 DEF RecoveryInv
<1>4. ASSUME recovery' \in Records, recovery'.pc # "found"
      PROVE  RecoveryInv'
  BY <1>4 DEF RecoveryInv
<1>5. CASE RecoveryStarts
  <2>1. PICK i \in 1 .. Len(tree) :
          recovery' = [pc |-> "criteria", shell |-> tree[i].shell, q |-> 0,
                       tries |-> recovery.tries + 1]
    BY <1>5 DEF RecoveryStarts, Missing
  <2>2. tree[i].shell \in Nat
    BY <2>1, TreeParts DEF MonInv, TreeInv
  <2>3. recovery.tries + 1 \in Nat /\ 0 \in 0 .. MaxQueries
    BY <1>1, <1>2
  <2>4. recovery' \in Records /\ recovery'.pc = "criteria"
    BY <2>1, <2>2, <2>3
  <2> QED
    BY <1>4, <2>4
<1>6. CASE RecoveryDiscovers
  <2>1. CASE recovery' = [recovery EXCEPT !.pc = "idle", !.shell = 0]
    BY <1>2, <1>4, <2>1
  <2>2. ASSUME NEW q \in 1 .. Len(query), recovery' = [recovery EXCEPT !.pc = "found", !.q = q]
        PROVE  RecoveryInv'
    <3>1. q \in 0 .. MaxQueries /\ q \in 1 .. Len(query')
      BY <1>1
    <3>2. recovery' \in Records /\ recovery'.q = q
      BY <1>2, <2>2, <3>1
    <3> QED
      BY <3>1, <3>2 DEF RecoveryInv
  <2> QED
    BY <1>6, <2>1, <2>2 DEF RecoveryDiscovers
<1>7. CASE RecoveryAttaches
  <2>1. recovery' = [recovery EXCEPT !.pc = "idle", !.shell = 0, !.q = 0]
    BY <1>7 DEF RecoveryAttaches
  <2>2. 0 \in 0 .. MaxQueries
    BY <1>1
  <2>3. recovery' \in Records /\ recovery'.pc = "idle"
    BY <1>2, <2>1, <2>2
  <2> QED
    BY <1>4, <2>3
<1>8. CASE Tick
  BY <1>3, <1>8 DEF Tick, TickStarts, Observes, Attaches, TickEnds
<1>9. CASE Opens \/ Closes
  BY <1>3, <1>9 DEF Opens, Closes, Unsubscribes
<1>10. CASE \E v \in Visits : Detail(v)
  BY <1>3, <1>10 DEF Detail, WorkerStarts, ThreadSubscribes, Subscribes, WorkerHolds,
                     WorkerGivesBack, Unsubscribes
<1>11. CASE Dashboard
  BY <1>3, <1>11 DEF Dashboard, DashReads, DashSyncs
<1>12. CASE \E q \in 1 .. Len(query) : Evicts(q)
  BY <1>3, <1>12 DEF Evicts
<1>13. CASE UNCHANGED monVars
  BY <1>3, <1>13 DEF monVars
<1>14. CASE UNCHANGED vars
  BY <1>13, <1>14 DEF vars
<1> QED
  BY <1>5, <1>6, <1>7, <1>8, <1>9, <1>10, <1>11, <1>12, <1>13, <1>14
     DEF MonNext, Service, Recovery

\* The other variables keep their types.
LEMMA RestStep ==
    ASSUME MonInv, [MonNext]_vars
    PROVE  RestInv'
<1>1. RestInv /\ faults + 1 \in Nat
  BY DEF MonInv, RestInv
<1>2. ASSUME UNCHANGED <<dash, evicted>>, faults' \in {faults, faults + 1}
      PROVE  RestInv'
  BY <1>1, <1>2 DEF RestInv
<1>3. ASSUME NEW j, Refreshes(j)
      PROVE  faults' \in {faults, faults + 1}
  BY <1>3 DEF Refreshes
<1>4. CASE Tick
  BY <1>2, <1>3, <1>4 DEF Tick, TickStarts, Observes, Attaches, TickEnds
<1>5. CASE Opens \/ Closes
  BY <1>2, <1>5 DEF Opens, Closes, Unsubscribes
<1>6. CASE \E v \in Visits : Detail(v)
  <2>1. PICK v \in Visits : Detail(v)
    BY <1>6
  <2>2. CASE ThreadSubscribes(v)
    BY <1>2, <1>3, <2>2 DEF ThreadSubscribes, Subscribes
  <2>3. CASE WorkerStarts(v) \/ WorkerHolds(v) \/ WorkerGivesBack(v)
    BY <1>2, <2>3 DEF WorkerStarts, WorkerHolds, WorkerGivesBack, Unsubscribes
  <2> QED
    BY <2>1, <2>2, <2>3 DEF Detail
<1>7. CASE DashReads
  BY <1>1, <1>7 DEF DashReads, RestInv
<1>8. CASE DashSyncs
  <2>1. CASE dash = "active"
    <3>1. PICK j : Refreshes(j)
      BY <1>8, <2>1 DEF DashSyncs
    <3> QED
      BY <1>2, <1>3, <1>8, <3>1 DEF DashSyncs
  <2>2. CASE dash # "active"
    BY <1>2, <1>8, <2>2 DEF DashSyncs
  <2> QED
    BY <2>1, <2>2
<1>9. CASE Recovery
  BY <1>2, <1>9 DEF Recovery, RecoveryStarts, RecoveryDiscovers, RecoveryAttaches
<1>10. ASSUME NEW q \in 1 .. Len(query), Evicts(q)
       PROVE  RestInv'
  <2>1. q \in QueryIds
    BY EventFileAssumption DEF MonInv, FileOK, FileTypeOK, QueryIds
  <2> QED
    BY <1>1, <1>10, <2>1 DEF Evicts, RestInv
<1>11. CASE UNCHANGED monVars
  BY <1>2, <1>11 DEF monVars
<1>12. CASE UNCHANGED vars
  BY <1>11, <1>12 DEF vars
<1> QED
  BY <1>4, <1>5, <1>6, <1>7, <1>8, <1>9, <1>10, <1>11, <1>12
     DEF MonNext, Service, Dashboard

\* One step of the service, of the file, or of neither
LEMMA MonStep ==
    ASSUME MonInv, [MonNext]_vars
    PROVE  /\ MonInv'
           /\ job'.tracked = "yes" =>
                \A q \in QueryIds : poller[q].last \in Terminal => poller'[q].last = poller[q].last
<1>1. FileMoves
  <2>1. FileNext \/ UNCHANGED fileVars
    BY DEF MonNext, vars
  <2> QED
    BY <2>1, FileStep DEF MonInv, FileMoves
<1>2. Moves
  <2>1. CASE Service /\ UNCHANGED fileVars
    BY <2>1, ServiceMoves
  <2>2. CASE UNCHANGED monVars
    BY <2>2 DEF monVars, Moves, Holds
  <2> QED
    BY <2>1, <2>2 DEF MonNext, vars
<1>3. /\ TreeInv'
      /\ job'.tracked = "yes" =>
           \A q \in QueryIds : poller[q].last \in Terminal => poller'[q].last = poller[q].last
      /\ thread'.pc = "attach" =>
           \A q \in QueryIds : poller'[q].last \in Terminal => poller'[q].last = poller[q].last
  BY <1>1, <1>2, TreeStep
<1>4. ThreadInv'
  <2>1. CASE Tick /\ UNCHANGED fileVars
    BY <1>3, <2>1, TickStep
  <2>2. CASE thread' = thread
    BY <1>1, <1>3, <2>2, ThreadStays
  <2>3. (Tick /\ UNCHANGED fileVars) \/ thread' = thread
    BY DEF MonNext, Service, vars, monVars, Opens, Closes, Unsubscribes, Detail, WorkerStarts,
           ThreadSubscribes, Subscribes, WorkerHolds, WorkerGivesBack, Dashboard, DashReads,
           DashSyncs, Recovery, RecoveryStarts, RecoveryDiscovers, RecoveryAttaches, Evicts
  <2> QED
    BY <2>1, <2>2, <2>3
<1>5. FileOK' /\ RecoveryInv' /\ RestInv'
  BY <1>1, RecoveryStep, RestStep DEF FileMoves
<1>6. Balanced(job', visit')
  BY BalanceStep DEF MonInv
<1> QED
  BY <1>3, <1>4, <1>5, <1>6 DEF MonInv, Balanced, Holders

\* At the start nothing is tracked.
LEMMA MonStart ==
    ASSUME MonInit
    PROVE  MonInv
<1>1. /\ MaxQueries \in Nat /\ MaxLines \in Nat \ {0} /\ MaxVisits \in Nat
  BY EventFileAssumption, MonitorAssumption
<1>2. FileOK
  BY <1>1 DEF MonInit, FileInit, FileOK, FileTypeOK
<1>3. Balanced(job, visit)
  <2>1. /\ job \in JobRecords /\ job.subs = 0 /\ visit \in VisitRecords
        /\ \A v \in Visits : visit.sub[v] = "none"
    BY <1>1 DEF MonInit, Fresh, JobRecords, VisitRecords
  <2>2. Holders(visit.sub) = {}
    BY <2>1 DEF Holders
  <2>3. Cardinality(Holders(visit.sub)) = 0
    BY <2>2, FS_EmptySet
  <2> QED
    BY <2>1, <2>3 DEF Balanced
<1>4. TreeInv
  <2>1. /\ tree = <<>> /\ seen = 0 /\ FileSize = 0
        /\ \A q \in QueryIds : poller[q] = [phase |-> "absent", last |-> "none"]
        /\ poller \in Pollers
    BY DEF MonInit, FileInit, FileSize, NoPoller, Pollers
  <2>2. Whole = <<>>
    <3>1. PICK t, s : t = <<>> /\ s = SubSeq(log, 1, Readable(0))
      OBVIOUS
    <3>2. Readable(0) = 0
      BY <1>1 DEF Readable
    <3>3. s = <<>>
      BY <3>1, <3>2, SubSeqEmpty
    <3>4. Whole = Feeds(t, s)
      BY <2>1, <3>1 DEF Whole, Replay, Feeds
    <3>5. Feeds(t, <<>>) = t
      BY FeedsEmpty
    <3> QED
      BY <3>1, <3>3, <3>4, <3>5
  <2>3. Mirrors(<<>>, <<>>)
    BY DEF Mirrors
  <2>4. LeavesArePolled
    BY <2>1, NoTree DEF LeavesArePolled, QueriesOf
  <2> QED
    BY <2>1, <2>2, <2>3, <2>4, NoTree DEF TreeInv, Terminal
<1>5. ThreadInv
  BY <1>1 DEF MonInit, ThreadInv
<1>6. RecoveryInv /\ RestInv
  BY <1>1 DEF MonInit, RecoveryInv, RestInv
<1> QED
  BY <1>2, <1>3, <1>4, <1>5, <1>6 DEF MonInv

\* The bound on what goes wrong, which only the step that counts it keeps
OddInv == faults <= MaxOdd /\ recovery.tries <= MaxOdd

\* The bound on what goes wrong, as MonNext counts it.
LEMMA OddStep ==
    ASSUME MonInv, MonInv', OddInv, [MonNext]_vars
    PROVE  OddInv'
<1>1. /\ faults' \in Nat /\ recovery'.tries \in Nat /\ MaxOdd \in Nat
  BY MonitorAssumption DEF MonInv, RestInv, RecoveryInv
<1>2. Torn' \in Nat
  <2>1. PICK l, k : l = log' /\ k = Len(log')
    OBVIOUS
  <2>2. k \in Nat
    BY <2>1 DEF MonInv, FileOK, FileTypeOK
  <2>3. IsFiniteSet(1 .. k)
    BY <2>2, FS_Interval
  <2>4. PICK G : G = {i \in 1 .. k : l[i].type = "garbage"}
    OBVIOUS
  <2>5. IsFiniteSet(G)
    BY <2>3, <2>4, FS_Subset
  <2>6. Cardinality(G) \in Nat
    BY <2>5, FS_CardinalityType
  <2> QED
    BY <2>1, <2>4, <2>6 DEF Torn
<1>3. CASE MonNext
  BY <1>1, <1>2, <1>3 DEF MonNext, OddInv
<1>4. CASE UNCHANGED vars
  BY <1>4 DEF vars, monVars, OddInv
<1> QED
  BY <1>3, <1>4

----------------------------------------------------------------------------
(* Theorems *)

\* The invariant that the other theorems follow from: the types, the balance of the
\* subscriptions, the tree with its pollers, and what the thread and the recovery carry
\* from one critical section to the next.
THEOREM MonitorInvariant == MonSpec => []MonInv
<1>1. MonInit => MonInv
  BY MonStart
<1>2. MonInv /\ [MonNext]_vars => MonInv'
  BY MonStep
<1> QED
  BY <1>1, <1>2, PTL DEF MonSpec

\* The state of the service, its screens and its file keeps its types and bounds.
THEOREM MonTypeCorrect == MonSpec => []MonTypeOK
<1>1. MonInit => OddInv
  BY MonitorAssumption DEF MonInit, OddInv
<1>2. MonInv /\ MonInv' /\ OddInv /\ [MonNext]_vars => OddInv'
  BY OddStep
<1>3. MonInv /\ OddInv => MonTypeOK
  <2> SUFFICES ASSUME MonInv, OddInv PROVE MonTypeOK
    OBVIOUS
  <2>1. job.subs \in 0 .. MaxVisits
    <3>1. job.subs = Cardinality(Holders(visit.sub))
      BY DEF MonInv, Balanced
    <3> QED
      BY <3>1, FewHolders, MonitorAssumption
  <2>2. /\ job \in [tracked : {"yes", "no"}, registered : {"yes", "no"}, subs : 0 .. MaxVisits,
                    available : {"yes", "no"}]
        /\ visit \in VisitRecords
    BY <2>1 DEF MonInv, Balanced, JobRecords
  <2>3. /\ faults \in 0 .. MaxOdd /\ recovery.tries \in 0 .. MaxOdd
        /\ recovery \in [pc : {"idle", "criteria", "found"}, shell : Nat, q : 0 .. MaxQueries,
                         tries : Nat]
    BY MonitorAssumption DEF MonInv, RecoveryInv, RestInv, OddInv
  <2>4. recovery \in [pc : {"idle", "criteria", "found"}, shell : Nat, q : 0 .. MaxQueries,
                      tries : 0 .. MaxOdd]
    BY <2>3
  <2>5. FileTypeOK /\ tree \in Trees /\ seen \in Nat /\ poller \in Pollers
    BY DEF MonInv, FileOK, TreeInv
  <2>6. /\ thread \in [pc : {"idle", "poll", "attach"}, due : SUBSET QueryIds,
                       at : 0 .. MaxQueries, answer : Phases \cup {"none", "unavailable"}]
        /\ dash \in {"active", "inactive"} /\ evicted \subseteq QueryIds
    BY DEF MonInv, ThreadInv, RestInv
  <2> QED
    BY <2>2, <2>3, <2>4, <2>5, <2>6 DEF MonTypeOK, VisitRecords, Trees, ShellNode, Chains, Pollers
<1> QED
  BY <1>1, <1>2, <1>3, MonitorInvariant, PTL DEF MonSpec

\* The subscriptions that the service counts are those that screens hold or are about to
\* hold or to give back, however closing and subscribing interleave.
THEOREM SubscriptionsSafe == MonSpec => []SubscriptionsBalance
<1>1. MonInv => SubscriptionsBalance
  BY DEF MonInv, Balanced, Holders, SubscriptionsBalance
<1> QED
  BY <1>1, MonitorInvariant, PTL

\* Every leaf has a poller, and what is polled on is a leaf.
THEOREM LeavesSafe == MonSpec => []LeavesArePolled
<1>1. MonInv => LeavesArePolled
  BY DEF MonInv, TreeInv
<1> QED
  BY <1>1, MonitorInvariant, PTL

\* However the reads are cut, the tree is the replay of the lines read so far.
THEOREM ReplaySafe == MonSpec => []TreeIsReplay
<1>1. MonInv => TreeIsReplay
  BY WholeIsTree, MirrorIsReplay DEF MonInv, TreeInv
<1> QED
  BY <1>1, MonitorInvariant, PTL

\* No outcome is invented: neither by a poller nor in the tree.
THEOREM OutcomesSafe == MonSpec => []OutcomeIsImpalas
<1>1. MonInv => OutcomeIsImpalas
  <2> SUFFICES ASSUME MonInv PROVE OutcomeIsImpalas
    OBVIOUS
  <2>1. /\ \A q \in QueryIds : poller[q].last \in Terminal => Truth(q, poller[q].last)
        /\ \A n \in Nodes(tree) : n.obs \in Terminal => poller[n.q].last = n.obs
        /\ tree \in Trees
    BY DEF MonInv, TreeInv
  <2>2. ASSUME NEW n \in Nodes(tree), n.obs \in Terminal
        PROVE  Truth(n.q, n.obs)
    <3>1. n.q \in QueryIds
      BY <2>1, NodeFacts DEF Node
    <3> QED
      BY <2>1, <2>2, <3>1
  <2> QED
    BY <2>1, <2>2 DEF OutcomeIsImpalas
<1> QED
  BY <1>1, MonitorInvariant, PTL

\* An outcome that a poller has once seen stays in it as long as the Job is tracked,
\* whatever polls and reads come later.
THEOREM OutcomesStay == MonSpec => OutcomeIsKept
<1>1. MonInv /\ [MonNext]_vars =>
        [\A q \in QueryIds : poller[q].last \in Terminal /\ job'.tracked = "yes"
            => poller'[q].last = poller[q].last]_vars
  BY MonStep
<1> QED
  BY <1>1, MonitorInvariant, PTL DEF MonSpec, OutcomeIsKept
=============================================================================
