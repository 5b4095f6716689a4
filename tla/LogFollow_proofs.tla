-------------------------- MODULE LogFollow_proofs --------------------------
(***************************************************************************)
(* Proofs about LogFollow: what either reader of a run.log shows is the    *)
(* log up to where it has read, each line whole, in order and once, for    *)
(* any bytes, chunk, view, tail and number of truncations.  The invariant  *)
(* is LogInv.  What the folds compute of a log is shown a byte at a time.  *)
(***************************************************************************)
EXTENDS LogFollow, SequenceTheorems, WellFoundedInduction, TLAPS

(* Folds and runs *)

(* LogInduction: the library's theorems take an operator as a parameter, so this one is about *)
(* sets of numbers, which have a least member.                                             *)
LEMMA LogInduction ==
    ASSUME NEW T, 0 \in T, \A n \in Nat : n \in T => n + 1 \in T
    PROVE  Nat \subseteq T
<1> SUFFICES ASSUME Nat \ T # {} PROVE FALSE
  OBVIOUS
<1> DEFINE R == OpToRel(<, Nat)
<1>1. IsWellFoundedOn(R, Nat)
  BY NatLessThanWellFounded
<1>2. \A y, x \in Nat : <<y, x>> \in R <=> y < x
  BY DEF OpToRel
<1> HIDE DEF R
<1>3. PICK x \in Nat \ T : \A y \in Nat \ T : ~(<<y, x>> \in R)
  BY <1>1, WFMin
<1>4. \A y \in Nat \ T : ~(y < x)
  BY <1>2, <1>3
<1>5. x # 0 /\ x - 1 \in Nat
  BY <1>3
<1>6. x - 1 \in T
  BY <1>4, <1>5
<1> QED
  BY <1>3, <1>5, <1>6

(* Splitting is a fold; a run of it is what the fold has after each byte. *)
IsSplitFold(a, s, it, D) ==
    it = [S \in SUBSET D |-> IF S = {} THEN a ELSE Joined(it[S \ {Max(S)}], s[Max(S)])]

Begun(pending) == [lines |-> <<>>, rest |-> pending]

\* FoldLeft over a log is the function that the fold of the library chooses.
LEMMA SplitIsChosen ==
    ASSUME NEW p, NEW s
    PROVE  Split(p, s) = (CHOOSE it : IsSplitFold(Begun(p), s, it, DOMAIN s))[DOMAIN s]
BY DEF Split, FoldLeft, MapThenFoldSet, IsSplitFold, Begun

\* The largest of some places, when the last is among them.
LEMMA LastIsMax ==
    ASSUME NEW n \in Nat, NEW S \in SUBSET (1 .. n + 1), n + 1 \in S
    PROVE  Max(S) = n + 1
<1>1. \A y \in S : n + 1 >= y
  OBVIOUS
<1>2. \A x \in S : (\A y \in S : x >= y) => x = n + 1
  OBVIOUS
<1> QED
  BY <1>1, <1>2 DEF Max

\* Such a function exists for any number of steps.
LEMMA SplitFoldExists ==
    ASSUME NEW a, NEW s, NEW n \in Nat
    PROVE  \E it : IsSplitFold(a, s, it, 1 .. n)
<1> DEFINE T == {k \in Nat : \E it : IsSplitFold(a, s, it, 1 .. k)}
<1>1. 0 \in T
  <2> DEFINE it == [S \in SUBSET (1 .. 0) |-> a]
  <2>1. SUBSET (1 .. 0) = {{}}
    OBVIOUS
  <2>2. IsSplitFold(a, s, it, 1 .. 0)
    BY <2>1 DEF IsSplitFold
  <2> QED
    BY <2>2
<1>2. ASSUME NEW k \in Nat, k \in T
      PROVE k + 1 \in T
  <2>1. PICK it : IsSplitFold(a, s, it, 1 .. k)
    BY <1>2
  <2> DEFINE F(S) == IF k + 1 \in S THEN Joined(it[S \ {k + 1}], s[k + 1]) ELSE it[S]
             jt == [S \in SUBSET (1 .. k + 1) |-> F(S)]
             H(S) == IF S = {} THEN a ELSE Joined(jt[S \ {Max(S)}], s[Max(S)])
  <2>2. ASSUME NEW S \in SUBSET (1 .. k + 1), k + 1 \in S
        PROVE F(S) = H(S)
    <3>1. Max(S) = k + 1
      BY <2>2, LastIsMax
    <3>2. S \ {k + 1} \in SUBSET (1 .. k + 1) /\ k + 1 \notin S \ {k + 1}
      OBVIOUS
    <3>3. jt[S \ {k + 1}] = it[S \ {k + 1}]
      BY <3>2
    <3> QED
      BY <2>2, <3>1, <3>3
  <2>3. ASSUME NEW S \in SUBSET (1 .. k + 1), k + 1 \notin S
        PROVE F(S) = H(S)
    <3>1. S \in SUBSET (1 .. k)
      BY <2>3
    <3>2. it[S] = IF S = {} THEN a ELSE Joined(it[S \ {Max(S)}], s[Max(S)])
      BY <2>1, <3>1 DEF IsSplitFold
    <3>3. S \ {Max(S)} \in SUBSET (1 .. k + 1) /\ k + 1 \notin S \ {Max(S)}
      BY <2>3
    <3>4. jt[S \ {Max(S)}] = it[S \ {Max(S)}]
      BY <3>3
    <3> QED
      BY <2>3, <3>2, <3>4
  <2>4. jt = [S \in SUBSET (1 .. k + 1) |-> H(S)]
    BY <2>2, <2>3
  <2>5. IsSplitFold(a, s, jt, 1 .. k + 1)
    BY <2>4 DEF IsSplitFold
  <2> QED
    BY <2>5
<1> HIDE DEF T
<1>3. Nat \subseteq T
  BY <1>1, <1>2, LogInduction
<1> QED
  BY <1>3 DEF T

\* Split is what a run over the bytes has at the end.
LEMMA SplitRun ==
    ASSUME NEW S, NEW s \in Seq(S), NEW p
    PROVE  \E g : /\ g[0] = Begun(p)
                  /\ \A k \in 1 .. Len(s) : g[k] = Joined(g[k - 1], s[k])
                  /\ Split(p, s) = g[Len(s)]
<1>1. DOMAIN s = 1 .. Len(s) /\ Len(s) \in Nat
  OBVIOUS
<1> DEFINE it == CHOOSE it : IsSplitFold(Begun(p), s, it, 1 .. Len(s))
           g == [k \in 0 .. Len(s) |-> it[1 .. k]]
<1>2. IsSplitFold(Begun(p), s, it, 1 .. Len(s))
  BY <1>1, SplitFoldExists
<1>3. Split(p, s) = it[1 .. Len(s)]
  BY <1>1, SplitIsChosen
<1> HIDE DEF it
<1>4. Split(p, s) = g[Len(s)]
  BY <1>1, <1>3
<1>5. g[0] = Begun(p)
  <2>1. 1 .. 0 = {}
    OBVIOUS
  <2>2. it[{}] = Begun(p)
    BY <1>2 DEF IsSplitFold
  <2> QED
    BY <1>1, <2>1, <2>2
<1>6. ASSUME NEW k \in 1 .. Len(s)
      PROVE g[k] = Joined(g[k - 1], s[k])
  <2>1. k - 1 \in Nat /\ k \in 0 .. Len(s) /\ k - 1 \in 0 .. Len(s)
    BY <1>1
  <2>2. 1 .. k \in SUBSET (1 .. Len(s)) /\ 1 .. k # {}
    BY SMTT(30), <1>1
  <2>3. Max(1 .. k) = k
    <3>1. (k - 1) + 1 = k
      BY <2>1
    <3>2. \A n \in Nat : n + 1 \in 1 .. n + 1
      OBVIOUS
    <3> QED
      BY <2>1, <3>1, <3>2, LastIsMax
  <2>4. (1 .. k) \ {k} = 1 .. (k - 1)
    BY <2>1
  <2>5. it[1 .. k] = Joined(it[(1 .. k) \ {Max(1 .. k)}], s[Max(1 .. k)])
    BY <1>2, <2>2 DEF IsSplitFold
  <2> QED
    BY <2>1, <2>3, <2>4, <2>5
<1> QED
  BY <1>4, <1>5, <1>6

(* Splitting nothing leaves what was held back; one byte more is joined to the rest. *)
LEMMA SplitByByte ==
    ASSUME NEW S, NEW s \in Seq(S), NEW p
    PROVE  /\ Split(p, <<>>) = Begun(p)
           /\ \A e \in S : Split(p, Append(s, e)) = Joined(Split(p, s), e)
<1>1. Split(p, <<>>) = Begun(p)
  <2>1. PICK g : /\ g[0] = Begun(p)
                 /\ Split(p, <<>>) = g[Len(<<>>)]
    <3>1. <<>> \in Seq(S)
      OBVIOUS
    <3> QED
      BY <3>1, SplitRun
  <2> QED
    BY <2>1
<1>2. ASSUME NEW e \in S PROVE Split(p, Append(s, e)) = Joined(Split(p, s), e)
  <2>1. PICK x : x = Append(s, e)
    OBVIOUS
  <2>2. /\ x \in Seq(S) /\ Len(x) = Len(s) + 1 /\ x[Len(s) + 1] = e /\ Len(s) \in Nat
        /\ \A k \in 1 .. Len(s) : x[k] = s[k]
    BY <2>1, AppendProperties
  <2>3. PICK f : /\ f[0] = Begun(p)
                 /\ \A k \in 1 .. Len(s) : f[k] = Joined(f[k - 1], s[k])
                 /\ Split(p, s) = f[Len(s)]
    BY SplitRun
  <2>4. PICK g : /\ g[0] = Begun(p)
                 /\ \A k \in 1 .. Len(x) : g[k] = Joined(g[k - 1], x[k])
                 /\ Split(p, x) = g[Len(x)]
    BY <2>2, SplitRun
  <2> DEFINE T == {k \in Nat : k <= Len(s) => f[k] = g[k]}
  <2>5. 0 \in T
    BY <2>3, <2>4
  <2>6. ASSUME NEW k \in Nat, k \in T PROVE k + 1 \in T
    <3> SUFFICES ASSUME k + 1 <= Len(s) PROVE f[k + 1] = g[k + 1]
      OBVIOUS
    <3>1. k + 1 \in 1 .. Len(s) /\ k + 1 \in 1 .. Len(x) /\ (k + 1) - 1 = k /\ f[k] = g[k]
      BY <2>2, <2>6
    <3>2. f[k + 1] = Joined(f[k], s[k + 1]) /\ g[k + 1] = Joined(g[k], x[k + 1])
      BY <2>3, <2>4, <3>1
    <3> QED
      BY <2>2, <3>1, <3>2
  <2> HIDE DEF T
  <2>7. Nat \subseteq T
    BY <2>5, <2>6, LogInduction
  <2>8. f[Len(s)] = g[Len(s)]
    BY <2>2, <2>7 DEF T
  <2>9. Len(x) \in 1 .. Len(x) /\ Len(x) - 1 = Len(s)
    BY <2>2
  <2>10. Split(p, x) = Joined(g[Len(s)], e)
    BY <2>2, <2>4, <2>9
  <2> QED
    BY <2>1, <2>3, <2>8, <2>10
<1> QED
  BY <1>1, <1>2

(* The lines of a log are what a run over its bytes has at the end. *)
Lined(a, b, cut) ==
    LET line == IF b = "nl" THEN a.rest ELSE Append(a.rest, b)
    IN IF b = "nl" \/ cut THEN [lines |-> Append(a.lines, line), rest |-> <<>>]
       ELSE [lines |-> a.lines, rest |-> line]

IsUpTo(f, bytes, cuts, m) ==
    f = [n \in 0 .. m |-> IF n = 0 THEN Begun(<<>>) ELSE Lined(f[n - 1], bytes[n], n \in cuts)]

\* The recursive function of LinesOf exists for any number of bytes.
LEMMA UpToExists ==
    ASSUME NEW bytes, NEW cuts, NEW m \in Nat
    PROVE  \E f : IsUpTo(f, bytes, cuts, m)
<1> DEFINE T == {k \in Nat : \E f : IsUpTo(f, bytes, cuts, k)}
<1>1. 0 \in T
  <2> DEFINE f == [n \in 0 .. 0 |-> Begun(<<>>)]
  <2>1. IsUpTo(f, bytes, cuts, 0)
    BY DEF IsUpTo
  <2> QED
    BY <2>1
<1>2. ASSUME NEW k \in Nat, k \in T PROVE k + 1 \in T
  <2>1. PICK f : IsUpTo(f, bytes, cuts, k)
    BY <1>2
  <2> DEFINE F(n) == IF n = k + 1 THEN Lined(f[k], bytes[k + 1], k + 1 \in cuts) ELSE f[n]
             g == [n \in 0 .. k + 1 |-> F(n)]
             H(n) == IF n = 0 THEN Begun(<<>>) ELSE Lined(g[n - 1], bytes[n], n \in cuts)
  <2>2. ASSUME NEW n \in 0 .. k + 1 PROVE F(n) = H(n)
    <3>1. CASE n = k + 1
      <4>1. n # 0 /\ n - 1 = k /\ k \in 0 .. k + 1 /\ k # k + 1
        BY <3>1
      <4>2. g[n - 1] = f[k]
        BY <4>1
      <4> QED
        BY <3>1, <4>1, <4>2
    <3>2. CASE n # k + 1
      <4>1. n \in 0 .. k /\ F(n) = f[n]
        BY <3>2
      <4>2. f[n] = IF n = 0 THEN Begun(<<>>) ELSE Lined(f[n - 1], bytes[n], n \in cuts)
        BY <2>1, <4>1 DEF IsUpTo
      <4>3. n # 0 => n - 1 \in 0 .. k + 1 /\ n - 1 # k + 1
        BY <4>1
      <4>4. n # 0 => g[n - 1] = f[n - 1]
        BY <4>3
      <4> HIDE DEF F, g
      <4> QED
        BY <4>1, <4>2, <4>4
    <3> QED
      BY <3>1, <3>2
  <2>3. g = [n \in 0 .. k + 1 |-> H(n)]
    BY <2>2
  <2>4. IsUpTo(g, bytes, cuts, k + 1)
    BY <2>3 DEF IsUpTo
  <2> QED
    BY <2>4
<1> HIDE DEF T
<1>3. Nat \subseteq T
  BY <1>1, <1>2, LogInduction
<1> QED
  BY <1>3 DEF T

\* LinesOf takes the last value of that function.
LEMMA LinesIsChosen ==
    ASSUME NEW bytes, NEW cuts
    PROVE  LinesOf(bytes, cuts) = (CHOOSE f : IsUpTo(f, bytes, cuts, Len(bytes)))[Len(bytes)]
BY DEF LinesOf, IsUpTo, Lined, Begun

\* LinesOf is what a run over the bytes has at the end.
LEMMA LinesRun ==
    ASSUME NEW S, NEW bytes \in Seq(S), NEW cuts
    PROVE  \E f : /\ f[0] = Begun(<<>>)
                  /\ \A k \in 1 .. Len(bytes) : f[k] = Lined(f[k - 1], bytes[k], k \in cuts)
                  /\ LinesOf(bytes, cuts) = f[Len(bytes)]
<1> DEFINE f == CHOOSE f : IsUpTo(f, bytes, cuts, Len(bytes))
<1>1. Len(bytes) \in Nat
  OBVIOUS
<1>2. IsUpTo(f, bytes, cuts, Len(bytes))
  BY <1>1, UpToExists
<1>3. LinesOf(bytes, cuts) = f[Len(bytes)]
  BY LinesIsChosen
<1> HIDE DEF f
<1>4. 0 \in 0 .. Len(bytes) /\ \A k \in 1 .. Len(bytes) : k \in 0 .. Len(bytes) /\ k # 0
  BY <1>1
<1> QED
  BY <1>2, <1>3, <1>4 DEF IsUpTo

\* Two runs that start alike and go on alike end alike.
LEMMA RunsAgree ==
    ASSUME NEW n \in Nat, NEW f, NEW g, f[0] = g[0],
           \A k \in 1 .. n : f[k - 1] = g[k - 1] => f[k] = g[k]
    PROVE  f[n] = g[n]
<1> DEFINE T == {k \in Nat : k <= n => f[k] = g[k]}
<1>1. 0 \in T
  OBVIOUS
<1>2. ASSUME NEW k \in Nat, k \in T PROVE k + 1 \in T
  <2>1. CASE k + 1 <= n
    <3>1. k + 1 \in 1 .. n /\ (k + 1) - 1 = k /\ f[k] = g[k]
      BY <1>2, <2>1
    <3> QED
      BY <3>1
  <2> QED
    BY <2>1
<1> HIDE DEF T
<1>3. Nat \subseteq T
  BY <1>1, <1>2, LogInduction
<1> QED
  BY <1>3 DEF T

\* Cuts that agree within a log give it the same lines: a cut past its end changes none.
LEMMA LinesAgree ==
    ASSUME NEW S, NEW x \in Seq(S), NEW cuts, NEW else,
           \A k \in 1 .. Len(x) : k \in cuts <=> k \in else
    PROVE  LinesOf(x, cuts) = LinesOf(x, else)
<1>1. PICK f : /\ f[0] = Begun(<<>>)
               /\ \A k \in 1 .. Len(x) : f[k] = Lined(f[k - 1], x[k], k \in cuts)
               /\ LinesOf(x, cuts) = f[Len(x)]
  BY LinesRun
<1>2. PICK g : /\ g[0] = Begun(<<>>)
               /\ \A k \in 1 .. Len(x) : g[k] = Lined(g[k - 1], x[k], k \in else)
               /\ LinesOf(x, else) = g[Len(x)]
  BY LinesRun
<1>3. ASSUME NEW k \in 1 .. Len(x), f[k - 1] = g[k - 1] PROVE f[k] = g[k]
  <2>1. CASE k \in cuts
    BY <1>1, <1>2, <1>3, <2>1 DEF Lined
  <2>2. CASE k \notin cuts
    BY <1>1, <1>2, <1>3, <2>2 DEF Lined
  <2> QED
    BY <2>1, <2>2
<1>4. Len(x) \in Nat
  OBVIOUS
<1>5. f[Len(x)] = g[Len(x)]
  BY <1>1, <1>2, <1>3, <1>4, RunsAgree
<1> QED
  BY <1>1, <1>2, <1>5

(* One byte more. *)
LEMMA LinesByByte ==
    ASSUME NEW S, NEW s \in Seq(S), NEW cuts
    PROVE  /\ LinesOf(<<>>, cuts) = Begun(<<>>)
           /\ \A e \in S : LinesOf(Append(s, e), cuts)
                              = Lined(LinesOf(s, cuts), e, Len(s) + 1 \in cuts)
<1>1. LinesOf(<<>>, cuts) = Begun(<<>>)
  <2>1. <<>> \in Seq(S) /\ Len(<<>>) = 0
    OBVIOUS
  <2> QED
    BY <2>1, LinesRun
<1>2. ASSUME NEW e \in S
      PROVE  LinesOf(Append(s, e), cuts) = Lined(LinesOf(s, cuts), e, Len(s) + 1 \in cuts)
  <2>1. PICK x : x = Append(s, e)
    OBVIOUS
  <2>2. /\ x \in Seq(S) /\ Len(x) = Len(s) + 1 /\ x[Len(s) + 1] = e /\ Len(s) \in Nat
        /\ \A k \in 1 .. Len(s) : x[k] = s[k]
    BY <2>1, AppendProperties
  <2>3. PICK f : /\ f[0] = Begun(<<>>)
                 /\ \A k \in 1 .. Len(s) : f[k] = Lined(f[k - 1], s[k], k \in cuts)
                 /\ LinesOf(s, cuts) = f[Len(s)]
    BY LinesRun
  <2>4. PICK g : /\ g[0] = Begun(<<>>)
                 /\ \A k \in 1 .. Len(x) : g[k] = Lined(g[k - 1], x[k], k \in cuts)
                 /\ LinesOf(x, cuts) = g[Len(x)]
    BY <2>2, LinesRun
  <2>5. ASSUME NEW k \in 1 .. Len(s), f[k - 1] = g[k - 1] PROVE f[k] = g[k]
    <3>1. k \in 1 .. Len(x)
      BY <2>2
    <3> QED
      BY <2>2, <2>3, <2>4, <2>5, <3>1 DEF Lined
  <2>6. f[Len(s)] = g[Len(s)]
    BY <2>2, <2>3, <2>4, <2>5, RunsAgree
  <2>7. Len(x) \in 1 .. Len(x) /\ Len(x) - 1 = Len(s)
    BY <2>2
  <2>8. LinesOf(x, cuts) = Lined(g[Len(x) - 1], x[Len(x)], Len(x) \in cuts)
    BY <2>4, <2>7
  <2> QED
    BY <2>1, <2>2, <2>3, <2>6, <2>7, <2>8
<1> QED
  BY <1>1, <1>2

-------------------------------------------------------------------------------
(* How much a line takes of the log *)

\* What holds of the empty sequence and is kept by appending holds of every sequence.
LEMMA SeqInduction ==
    ASSUME NEW S, NEW T, <<>> \in T, \A s \in Seq(S), e \in S : s \in T => Append(s, e) \in T
    PROVE  Seq(S) \subseteq T
<1> DEFINE N == {n \in Nat : \A s \in Seq(S) : Len(s) = n => s \in T}
<1>1. 0 \in N
  BY EmptySeq
<1>2. ASSUME NEW n \in Nat, n \in N PROVE n + 1 \in N
  <2> SUFFICES ASSUME NEW s \in Seq(S), Len(s) = n + 1 PROVE s \in T
    OBVIOUS
  <2>1. PICK f : f = SubSeq(s, 1, n)
    OBVIOUS
  <2>2. f \in Seq(S) /\ Len(f) = n
    BY <2>1, SubSeqProperties
  <2>3. n + 1 \in 1 .. Len(s) /\ 1 \in 1 .. Len(s) /\ n + 1 \in 1 .. n + 1 /\ (n + 1) - 1 = n
    OBVIOUS
  <2>4. s[n + 1] \in S
    BY <2>3
  <2>5. s = f \o <<s[n + 1]>>
    <3>1. SubSeq(s, 1, n + 1) = s
      BY SubSeqFull
    <3>2. n + 1 \in 1 .. Len(s) /\ n + 1 \in 1 .. n + 1
      BY <2>3
    <3>3. SubSeq(s, 1, n + 1) = SubSeq(s, 1, (n + 1) - 1) \o <<s[n + 1]>>
      BY <2>3, <3>2, SubSeqRecursiveSecond
    <3> QED
      BY <2>1, <2>3, <3>1, <3>3
  <2>6. s = Append(f, s[n + 1])
    BY <2>2, <2>4, <2>5, AppendIsConcat
  <2>7. f \in T
    BY <1>2, <2>2
  <2> QED
    BY <2>2, <2>4, <2>6, <2>7
<1> HIDE DEF N
<1>3. Nat \subseteq N
  BY <1>1, <1>2, LogInduction
<1> QED
  BY <1>3 DEF N

Bytes == Chars \cup {"nl"}
Entry == [lines : Seq(Seq(Chars)), rest : Seq(Chars)]

(* Of n bytes: lines and the rest took one each at least, and none is longer. *)
Took(a, n) ==
    /\ a \in Entry /\ Len(a.lines) + Len(a.rest) <= n
    /\ \A i \in 1 .. Len(a.lines) : Len(a.lines[i]) <= n

\* The lines and the rest of an entry.
LEMMA EntryParts ==
    ASSUME NEW a \in Entry
    PROVE  /\ a.lines \in Seq(Seq(Chars)) /\ a.rest \in Seq(Chars)
           /\ Len(a.lines) \in Nat /\ Len(a.rest) \in Nat
           /\ \A i \in 1 .. Len(a.lines) : a.lines[i] \in Seq(Chars) /\ Len(a.lines[i]) \in Nat
<1>1. a.lines \in Seq(Seq(Chars)) /\ a.rest \in Seq(Chars)
  BY DEF Entry
<1>2. \A i \in 1 .. Len(a.lines) : a.lines[i] \in Seq(Chars)
  BY <1>1
<1> QED
  BY <1>1, <1>2

\* An entry with nothing but the bytes held back.
LEMMA BegunFacts ==
    ASSUME NEW p \in Seq(Chars)
    PROVE  Begun(p) \in Entry /\ Begun(p).lines = <<>> /\ Begun(p).rest = p
BY DEF Begun, Entry

(* The rest, and one more line. *)
Ended(a, line) == [lines |-> Append(a.lines, line), rest |-> <<>>]
Grown(a, b) == [lines |-> a.lines, rest |-> Append(a.rest, b)]

\* A byte ends the line of a split or goes on with it.
LEMMA JoinedCases ==
    ASSUME NEW a \in Entry, NEW b \in Bytes
    PROVE  /\ b = "nl" => Joined(a, b) = Ended(a, a.rest)
           /\ b # "nl" => b \in Chars /\ Joined(a, b) = Grown(a, b)
BY DEF Joined, Entry, Bytes, Ended, Grown

\* A byte of a log ends its line, at a cut with the byte in it, or goes on with it.
LEMMA LinedCases ==
    ASSUME NEW a, NEW b, NEW cut \in BOOLEAN
    PROVE  /\ b = "nl" => Lined(a, b, cut) = Ended(a, a.rest)
           /\ b # "nl" /\ cut => Lined(a, b, cut) = Ended(a, Append(a.rest, b))
           /\ b # "nl" /\ ~cut => Lined(a, b, cut) = Grown(a, b)
BY DEF Lined, Ended, Grown

\* What an entry is after a line of it ended.
LEMMA EndedTook ==
    ASSUME NEW a \in Entry, NEW line \in Seq(Chars), NEW e, e = Ended(a, line)
    PROVE  /\ e \in Entry /\ e.rest = <<>> /\ e.lines = Append(a.lines, line)
           /\ Len(e.lines) = Len(a.lines) + 1 /\ Len(e.rest) = 0
           /\ e.lines[Len(a.lines) + 1] = line
           /\ \A i \in 1 .. Len(a.lines) : e.lines[i] = a.lines[i]
<1>1. a.lines \in Seq(Seq(Chars))
  BY EntryParts
<1>2. e.lines = Append(a.lines, line) /\ e.rest = <<>>
  BY DEF Ended
<1>3. e.lines \in Seq(Seq(Chars)) /\ Len(e.lines) = Len(a.lines) + 1
      /\ e.lines[Len(a.lines) + 1] = line
      /\ \A i \in 1 .. Len(a.lines) : e.lines[i] = a.lines[i]
  BY <1>1, <1>2, AppendProperties
<1>4. e \in Entry
  BY <1>2, <1>3 DEF Ended, Entry
<1> QED
  BY <1>2, <1>3, <1>4

\* What an entry is after the line held back grew by a byte.
LEMMA GrownTook ==
    ASSUME NEW a \in Entry, NEW b \in Chars, NEW e, e = Grown(a, b)
    PROVE  /\ e \in Entry /\ e.lines = a.lines /\ e.rest = Append(a.rest, b)
           /\ e.rest \in Seq(Chars) /\ Len(e.rest) = Len(a.rest) + 1 /\ e.rest # <<>>
<1>1. a.lines \in Seq(Seq(Chars)) /\ a.rest \in Seq(Chars)
  BY EntryParts
<1>2. e.lines = a.lines /\ e.rest = Append(a.rest, b)
  BY DEF Grown
<1>3. e.rest \in Seq(Chars) /\ Len(e.rest) = Len(a.rest) + 1 /\ e.rest # <<>>
  <2>1. PICK r : r = a.rest
    OBVIOUS
  <2>2. r \in Seq(Chars) /\ e.rest = Append(r, b)
    BY <1>1, <1>2, <2>1
  <2>3. Append(r, b) \in Seq(Chars) /\ Len(Append(r, b)) = Len(r) + 1 /\ Append(r, b) # <<>>
    BY <2>2, AppendProperties
  <2> QED
    BY <2>1, <2>2, <2>3
<1>4. e \in Entry
  BY <1>1, <1>2, <1>3 DEF Grown, Entry
<1> QED
  BY <1>2, <1>3, <1>4

(* A byte more keeps count. *)
LEMMA ByteTook ==
    ASSUME NEW n \in Nat, NEW a, Took(a, n), NEW b \in Bytes, NEW cut \in BOOLEAN
    PROVE  Took(Joined(a, b), n + 1) /\ Took(Lined(a, b, cut), n + 1)
<1>1. PICK l, r : l = Len(a.lines) /\ r = Len(a.rest)
  OBVIOUS
<1>2. a \in Entry /\ l \in Nat /\ r \in Nat /\ l + r <= n /\ a.rest \in Seq(Chars)
  BY <1>1, EntryParts DEF Took
<1>3. \A i \in 1 .. l : Len(a.lines[i]) <= n /\ Len(a.lines[i]) \in Nat
  BY <1>1, EntryParts DEF Took
<1>4. l + 1 + 0 <= n + 1 /\ l + (r + 1) <= n + 1 /\ r + 1 <= n + 1 /\ r <= n + 1
      /\ \A m \in Nat : (m <= n => m <= n + 1) /\ (m <= r + 1 => m <= n + 1)
  BY <1>2
<1>5. ASSUME NEW line \in Seq(Chars), Len(line) <= r + 1
      PROVE  Took(Ended(a, line), n + 1)
  <2>1. PICK e : e = Ended(a, line)
    OBVIOUS
  <2>2. /\ e \in Entry /\ Len(e.lines) = l + 1 /\ Len(e.rest) = 0
        /\ e.lines[l + 1] = line
        /\ \A i \in 1 .. l : e.lines[i] = a.lines[i]
    BY <1>1, <1>2, <2>1, EndedTook
  <2>3. Len(e.lines) + Len(e.rest) <= n + 1
    BY <1>4, <2>2
  <2>4. ASSUME NEW i \in 1 .. l + 1 PROVE Len(e.lines[i]) <= n + 1
    <3>1. CASE i \in 1 .. l
      BY <1>3, <1>4, <2>2, <3>1
    <3>2. CASE i = l + 1
      <4>1. Len(line) \in Nat
        OBVIOUS
      <4>2. Len(line) <= n + 1
        BY <1>4, <1>5, <4>1
      <4>3. e.lines[i] = line
        BY <2>2, <3>2
      <4> QED
        BY <4>2, <4>3
    <3> QED
      BY <1>2, <3>1, <3>2
  <2> QED
    BY <2>1, <2>2, <2>3, <2>4 DEF Took
<1>6. Took(Ended(a, a.rest), n + 1)
  <2>1. Len(a.rest) <= r + 1
    BY <1>1, <1>2
  <2> QED
    BY <1>2, <1>5, <2>1
<1>7. CASE b = "nl"
  BY <1>2, <1>6, <1>7, JoinedCases, LinedCases
<1>8. CASE b # "nl"
  <2>0. b \in Chars
    BY <1>8 DEF Bytes
  <2>1. Took(Ended(a, Append(a.rest, b)), n + 1)
    <3>1. Append(a.rest, b) \in Seq(Chars) /\ Len(Append(a.rest, b)) = r + 1
      BY <1>1, <1>2, <2>0, AppendProperties
    <3>2. Len(Append(a.rest, b)) <= r + 1
      BY <1>2, <3>1
    <3> QED
      BY <1>5, <3>1, <3>2
  <2>2. Took(Grown(a, b), n + 1)
    <3>1. PICK e : e = Grown(a, b)
      OBVIOUS
    <3>2. e \in Entry /\ e.lines = a.lines /\ Len(e.lines) = l /\ Len(e.rest) = r + 1
      BY <1>1, <1>2, <2>0, <3>1, GrownTook
    <3>3. Len(e.lines) + Len(e.rest) <= n + 1
      BY <1>4, <3>2
    <3>4. \A i \in 1 .. Len(e.lines) : Len(e.lines[i]) <= n + 1
      BY <1>3, <1>4, <3>2
    <3> QED
      BY <3>1, <3>2, <3>3, <3>4 DEF Took
  <2> QED
    BY <1>2, <1>8, <2>1, <2>2, JoinedCases, LinedCases
<1> QED
  BY <1>7, <1>8

\* What was held back took its own bytes.
LEMMA BegunTook ==
    ASSUME NEW p \in Seq(Chars)
    PROVE  Took(Begun(p), Len(p))
<1>1. PICK b : b = Begun(p)
  OBVIOUS
<1>2. b \in Entry /\ b.lines = <<>> /\ b.rest = p
  BY <1>1, BegunFacts
<1>3. Len(b.lines) = 0 /\ Len(p) \in Nat
  BY <1>2
<1>4. Len(b.lines) + Len(b.rest) <= Len(p)
  BY <1>2, <1>3
<1>5. \A i \in 1 .. Len(b.lines) : Len(b.lines[i]) <= Len(p)
  BY <1>3
<1> QED
  BY <1>1, <1>2, <1>4, <1>5 DEF Took

\* A split takes as many bytes as were held back and read.
LEMMA SplitTook ==
    ASSUME NEW p \in Seq(Chars), NEW s \in Seq(Bytes)
    PROVE  Took(Split(p, s), Len(p) + Len(s))
<1> DEFINE T == {r \in Seq(Bytes) : Took(Split(p, r), Len(p) + Len(r))}
<1>1. <<>> \in T
  <2>1. Len(<<>>) = 0 /\ <<>> \in Seq(Bytes) /\ Len(p) \in Nat /\ Len(p) + 0 = Len(p)
    OBVIOUS
  <2>2. Split(p, <<>>) = Begun(p)
    BY <2>1, SplitByByte
  <2>3. Took(Begun(p), Len(p))
    BY <2>1, BegunTook
  <2> QED
    BY <2>1, <2>2, <2>3
<1>2. ASSUME NEW r \in Seq(Bytes), NEW e \in Bytes, r \in T PROVE Append(r, e) \in T
  <2>1. Append(r, e) \in Seq(Bytes) /\ Len(Append(r, e)) = Len(r) + 1
    BY AppendProperties
  <2>2. Len(p) + Len(r) \in Nat /\ Len(p) + (Len(r) + 1) = (Len(p) + Len(r)) + 1
    OBVIOUS
  <2>3. Took(Split(p, r), Len(p) + Len(r))
    BY <1>2
  <2>4. Took(Joined(Split(p, r), e), (Len(p) + Len(r)) + 1)
    BY <2>2, <2>3, ByteTook
  <2>5. Split(p, Append(r, e)) = Joined(Split(p, r), e)
    BY SplitByByte
  <2> QED
    BY <2>1, <2>2, <2>4, <2>5
<1> HIDE DEF T
<1>3. Seq(Bytes) \subseteq T
  BY <1>1, <1>2, SeqInduction
<1> QED
  BY <1>3 DEF T

\* The lines of a log take as many bytes as the log has.
LEMMA LinesTook ==
    ASSUME NEW s \in Seq(Bytes), NEW cuts
    PROVE  Took(LinesOf(s, cuts), Len(s))
<1> DEFINE T == {r \in Seq(Bytes) : Took(LinesOf(r, cuts), Len(r))}
<1>1. <<>> \in T
  <2>1. Len(<<>>) = 0 /\ <<>> \in Seq(Bytes) /\ <<>> \in Seq(Chars)
    OBVIOUS
  <2>2. LinesOf(<<>>, cuts) = Begun(<<>>)
    BY <2>1, LinesByByte
  <2>3. Took(Begun(<<>>), 0)
    BY <2>1, BegunTook
  <2> QED
    BY <2>1, <2>2, <2>3
<1>2. ASSUME NEW r \in Seq(Bytes), NEW e \in Bytes, r \in T PROVE Append(r, e) \in T
  <2>1. Append(r, e) \in Seq(Bytes) /\ Len(Append(r, e)) = Len(r) + 1 /\ Len(r) \in Nat
    BY AppendProperties
  <2>2. Took(LinesOf(r, cuts), Len(r))
    BY <1>2
  <2>3. Took(Lined(LinesOf(r, cuts), e, Len(r) + 1 \in cuts), Len(r) + 1)
    <3>1. (Len(r) + 1 \in cuts) \in BOOLEAN
      OBVIOUS
    <3> QED
      BY <2>1, <2>2, <3>1, ByteTook
  <2>4. LinesOf(Append(r, e), cuts) = Lined(LinesOf(r, cuts), e, Len(r) + 1 \in cuts)
    BY LinesByByte
  <2> QED
    BY <2>1, <2>3, <2>4
<1> HIDE DEF T
<1>3. Seq(Bytes) \subseteq T
  BY <1>1, <1>2, SeqInduction
<1> QED
  BY <1>3 DEF T

(* What is known of a log, and what was read after it *)
Glued(a, b) == [lines |-> a.lines \o b.lines, rest |-> b.rest]

\* Appending to the second of two lists of lines appends to both together.
LEMMA AppendToConcat ==
    ASSUME NEW S, NEW e \in S, NEW s \in Seq(S), NEW t \in Seq(S)
    PROVE  Append(s \o t, e) = s \o Append(t, e)
<1>1. <<e>> \in Seq(S) /\ s \o t \in Seq(S)
  OBVIOUS
<1>2. Append(s \o t, e) = (s \o t) \o <<e>> /\ Append(t, e) = t \o <<e>>
  BY <1>1, AppendIsConcat
<1>3. (s \o t) \o <<e>> = s \o (t \o <<e>>)
  BY <1>1, ConcatAssociative
<1> QED
  BY <1>2, <1>3

\* To end the line of a split that is glued on is to end the line of the whole.
LEMMA GluedEnded ==
    ASSUME NEW a \in Entry, NEW b \in Entry, NEW line \in Seq(Chars)
    PROVE  Ended(Glued(a, b), line) = Glued(a, Ended(b, line))
<1>1. Append(a.lines \o b.lines, line) = a.lines \o Append(b.lines, line)
  <2>1. PICK x, y, S : x = a.lines /\ y = b.lines /\ S = Seq(Chars)
    OBVIOUS
  <2>2. x \in Seq(S) /\ y \in Seq(S) /\ line \in S
    BY <2>1, EntryParts
  <2>3. Append(x \o y, line) = x \o Append(y, line)
    BY ONLY <2>2, AppendToConcat
  <2> QED
    BY <2>1, <2>3
<1> QED
  BY <1>1 DEF Glued, Ended

\* A byte more does to the whole what it does to the split that is glued on.
LEMMA GluedJoined ==
    ASSUME NEW a \in Entry, NEW b \in Entry, NEW e \in Bytes
    PROVE  Lined(Glued(a, b), e, FALSE) = Glued(a, Joined(b, e))
<1>1. CASE e = "nl"
  <2>1. Glued(a, b).rest = b.rest /\ b.rest \in Seq(Chars)
    BY EntryParts DEF Glued
  <2>2. Joined(b, e) = Ended(b, b.rest)
    BY <1>1, JoinedCases
  <2>3. Lined(Glued(a, b), e, FALSE) = Ended(Glued(a, b), b.rest)
    BY <1>1, <2>1, LinedCases
  <2> QED
    BY <2>1, <2>2, <2>3, GluedEnded
<1>2. CASE e # "nl"
  <2>1. Joined(b, e) = Grown(b, e) /\ Lined(Glued(a, b), e, FALSE) = Grown(Glued(a, b), e)
    BY <1>2, JoinedCases, LinedCases
  <2>2. Grown(Glued(a, b), e) = Glued(a, Grown(b, e))
    BY DEF Glued, Grown
  <2> QED
    BY <2>1, <2>2
<1> QED
  BY <1>1, <1>2

\* Without a cut, the lines of a longer log are those so far with the split of the rest
\* glued on.
LEMMA Continues ==
    ASSUME NEW s \in Seq(Bytes), NEW cuts \in SUBSET (0 .. Len(s)), NEW r \in Seq(Bytes)
    PROVE  LinesOf(s \o r, cuts) = Glued(LinesOf(s, cuts), Split(LinesOf(s, cuts).rest, r))
<1>1. PICK a : a = LinesOf(s, cuts)
  OBVIOUS
<1>2. a \in Entry /\ a.rest \in Seq(Chars) /\ a.lines \in Seq(Seq(Chars)) /\ Len(s) \in Nat
  <2>1. a \in Entry
    BY <1>1, LinesTook DEF Took
  <2> QED
    BY <2>1, EntryParts
<1> DEFINE T == {x \in Seq(Bytes) : LinesOf(s \o x, cuts) = Glued(a, Split(a.rest, x))}
<1>3. <<>> \in T
  <2>1. <<>> \in Seq(Bytes) /\ s \o <<>> = s /\ a.lines \o <<>> = a.lines
    BY <1>2, ConcatEmptySeq
  <2>2. Split(a.rest, <<>>) = Begun(a.rest)
    BY <2>1, SplitByByte
  <2>3. Glued(a, Begun(a.rest)) = [lines |-> a.lines, rest |-> a.rest]
    BY <2>1 DEF Glued, Begun
  <2>4. [lines |-> a.lines, rest |-> a.rest] = a
    BY <1>2 DEF Entry
  <2> QED
    BY <1>1, <2>1, <2>2, <2>3, <2>4
<1>4. ASSUME NEW x \in Seq(Bytes), NEW e \in Bytes, x \in T PROVE Append(x, e) \in T
  <2>1. /\ Append(x, e) \in Seq(Bytes) /\ s \o x \in Seq(Bytes)
        /\ Len(s \o x) = Len(s) + Len(x) /\ Len(x) \in Nat
    BY AppendProperties, ConcatProperties
  <2>2. Len(s \o x) + 1 \notin cuts
    BY <1>2, <2>1
  <2>3. s \o Append(x, e) = Append(s \o x, e)
    BY AppendToConcat
  <2>4. LinesOf(Append(s \o x, e), cuts) = Lined(LinesOf(s \o x, cuts), e, FALSE)
    <3>1. PICK y : y = s \o x
      OBVIOUS
    <3>2. LinesOf(Append(y, e), cuts) = Lined(LinesOf(y, cuts), e, Len(y) + 1 \in cuts)
      BY <2>1, <3>1, LinesByByte
    <3>3. (Len(y) + 1 \in cuts) = FALSE
      BY <2>2, <3>1
    <3> QED
      BY <3>1, <3>2, <3>3
  <2>5. Split(a.rest, x) \in Entry
    BY <1>2, SplitTook DEF Took
  <2>6. Lined(Glued(a, Split(a.rest, x)), e, FALSE) = Glued(a, Joined(Split(a.rest, x), e))
    BY <1>2, <2>5, GluedJoined
  <2>7. Split(a.rest, Append(x, e)) = Joined(Split(a.rest, x), e)
    BY SplitByByte
  <2> QED
    BY <1>4, <2>1, <2>3, <2>4, <2>6, <2>7
<1> HIDE DEF T
<1>5. Seq(Bytes) \subseteq T
  BY <1>3, <1>4, SeqInduction
<1> QED
  BY <1>1, <1>5 DEF T

(* A line that is cut where the log ends is the rest, given away. *)
LEMMA FlushedCases ==
    ASSUME NEW a \in Entry
    PROVE  /\ Flushed(a, FALSE) = a
           /\ a.rest = <<>> => Flushed(a, TRUE) = a
           /\ a.rest # <<>> => Flushed(a, TRUE) = Ended(a, a.rest)
BY DEF Flushed, Ended

\* A cut at the end of a log gives its unterminated line away, like a flush.
LEMMA CutAtEnd ==
    ASSUME NEW s \in Seq(Bytes), NEW cuts
    PROVE  LinesOf(s, cuts \cup {Len(s)}) = Flushed(LinesOf(s, cuts), TRUE)
<1>1. CASE s = <<>>
  <2>1. <<>> \in Seq(Bytes) /\ <<>> \in Seq(Chars)
    OBVIOUS
  <2>2. LinesOf(s, cuts) = Begun(<<>>) /\ LinesOf(s, cuts \cup {Len(s)}) = Begun(<<>>)
    BY <1>1, <2>1, LinesByByte
  <2>3. Flushed(Begun(<<>>), TRUE) = Begun(<<>>)
    BY <2>1, BegunFacts, FlushedCases
  <2> QED
    BY <2>2, <2>3
<1>2. CASE s # <<>>
  <2>1. PICK f \in Seq(Bytes), e \in Bytes : s = Append(f, e)
    <3>1. /\ Len(s) \in Nat \ {0} /\ Len(s) \in 1 .. Len(s) /\ 1 \in 1 .. Len(s)
          /\ s[Len(s)] \in Bytes
      BY <1>2, EmptySeq
    <3>2. SubSeq(s, 1, Len(s)) = SubSeq(s, 1, Len(s) - 1) \o <<s[Len(s)]>>
      BY <3>1, SubSeqRecursiveSecond
    <3>3. SubSeq(s, 1, Len(s)) = s
      BY SubSeqFull
    <3>4. SubSeq(s, 1, Len(s) - 1) \in Seq(Bytes)
      <4>1. \A i \in 1 .. Len(s) - 1 : s[i] \in Bytes
        BY <3>1
      <4> QED
        BY <3>1, <4>1, SubSeqProperties
    <3>5. s = Append(SubSeq(s, 1, Len(s) - 1), s[Len(s)])
      BY <3>1, <3>2, <3>3, <3>4, AppendIsConcat
    <3> QED
      BY <3>1, <3>4, <3>5
  <2>2. Len(f) \in Nat /\ Len(s) = Len(f) + 1
    BY <2>1, AppendProperties
  <2>3. PICK more : more = cuts \cup {Len(s)}
    OBVIOUS
  <2>4. PICK a : a = LinesOf(f, cuts)
    OBVIOUS
  <2>5. LinesOf(f, more) = a
    <3>1. \A k \in 1 .. Len(f) : k \in cuts <=> k \in more
      BY <2>2, <2>3
    <3> QED
      BY <2>4, <3>1, LinesAgree
  <2>6. LinesOf(s, more) = Lined(a, e, TRUE) /\ LinesOf(s, cuts) = Lined(a, e, Len(s) \in cuts)
    <3>1. LinesOf(s, more) = Lined(a, e, Len(f) + 1 \in more)
      BY <2>1, <2>5, LinesByByte
    <3>2. (Len(f) + 1 \in more) = TRUE
      BY <2>2, <2>3
    <3>3. LinesOf(s, cuts) = Lined(a, e, Len(f) + 1 \in cuts)
      BY <2>1, <2>4, LinesByByte
    <3> QED
      BY <2>2, <3>1, <3>2, <3>3
  <2>7. a \in Entry /\ a.rest \in Seq(Chars)
    BY <2>1, <2>4, LinesTook, EntryParts DEF Took
  <2>8. CASE e = "nl"
    <3>1. PICK x : x = Ended(a, a.rest)
      OBVIOUS
    <3>2. LinesOf(s, more) = x /\ LinesOf(s, cuts) = x
      BY <2>6, <2>8, <3>1 DEF Lined, Ended
    <3>3. x \in Entry /\ x.rest = <<>>
      BY <2>7, <3>1, EndedTook
    <3> QED
      BY <2>3, <3>2, <3>3, FlushedCases
  <2>9. CASE e # "nl"
    <3>0. e \in Chars
      BY <2>9 DEF Bytes
    <3>1. PICK x : x = Ended(a, Append(a.rest, e))
      OBVIOUS
    <3>2. LinesOf(s, more) = x
      BY <2>6, <2>9, <3>1, LinedCases
    <3>3. x \in Entry /\ x.rest = <<>>
      <4>1. PICK line : line = Append(a.rest, e)
        OBVIOUS
      <4>2. line \in Seq(Chars)
        BY <2>7, <3>0, <4>1, AppendProperties
      <4>3. x = Ended(a, line)
        BY <3>1, <4>1
      <4> QED
        BY <2>7, <4>2, <4>3, EndedTook
    <3>4. CASE Len(s) \in cuts
      <4>1. LinesOf(s, cuts) = x
        BY <2>6, <2>9, <3>1, <3>4, LinedCases
      <4> QED
        BY <2>3, <3>2, <3>3, <4>1, FlushedCases
    <3>5. CASE Len(s) \notin cuts
      <4>1. PICK y : y = Grown(a, e)
        OBVIOUS
      <4>2. LinesOf(s, cuts) = y
        BY <2>6, <2>9, <3>5, <4>1 DEF Lined, Grown
      <4>3. y \in Entry /\ y.rest # <<>> /\ y.lines = a.lines /\ y.rest = Append(a.rest, e)
        BY <2>7, <3>0, <4>1, GrownTook
      <4>4. Flushed(y, TRUE) = Ended(y, y.rest)
        BY <4>3, FlushedCases
      <4>5. Ended(y, y.rest) = x
        BY <3>1, <4>3 DEF Ended
      <4> QED
        BY <2>3, <3>2, <4>2, <4>4, <4>5
    <3> QED
      BY <3>4, <3>5
  <2> QED
    BY <2>8, <2>9
<1> QED
  BY <1>1, <1>2

\* A flush takes no byte.
LEMMA FlushedTook ==
    ASSUME NEW n \in Nat, NEW a, Took(a, n), NEW now \in BOOLEAN
    PROVE  Took(Flushed(a, now), n)
<1>1. a \in Entry
  BY DEF Took
<1>2. CASE Flushed(a, now) = a
  BY <1>2
<1>3. CASE now /\ a.rest # <<>> /\ Flushed(a, now) = Ended(a, a.rest)
  <2>1. PICK e, l, r : e = Ended(a, a.rest) /\ l = Len(a.lines) /\ r = Len(a.rest)
    OBVIOUS
  <2>2. /\ l \in Nat /\ r \in Nat /\ l + r <= n /\ a.rest \in Seq(Chars)
        /\ \A i \in 1 .. l : Len(a.lines[i]) <= n
    BY <1>1, <2>1, EntryParts DEF Took
  <2>3. r # 0
    BY <1>3, <2>1, <2>2, EmptySeq
  <2>4. /\ e \in Entry /\ Len(e.lines) = l + 1 /\ Len(e.rest) = 0 /\ e.lines[l + 1] = a.rest
        /\ \A i \in 1 .. l : e.lines[i] = a.lines[i]
    BY <1>1, <2>1, <2>2, EndedTook
  <2>5. (l + 1) + 0 <= n /\ r <= n
    BY <2>2, <2>3
  <2>6. ASSUME NEW i \in 1 .. Len(e.lines) PROVE Len(e.lines[i]) <= n
    <3>1. CASE i \in 1 .. l
      BY <2>2, <2>4, <3>1
    <3>2. CASE i = l + 1
      BY <2>1, <2>4, <2>5, <3>2
    <3> QED
      BY <2>2, <2>4, <2>6, <3>1, <3>2
  <2>7. Took(e, n)
    BY <2>4, <2>5, <2>6 DEF Took
  <2> QED
    BY <1>3, <2>1, <2>7
<1> QED
  BY <1>1, <1>2, <1>3, FlushedCases

\* To flush a split that is glued on is to flush the whole.
LEMMA GluedFlushed ==
    ASSUME NEW a \in Entry, NEW b \in Entry
    PROVE  Flushed(Glued(a, b), TRUE) = Glued(a, Flushed(b, TRUE))
<1>1. Glued(a, b).rest = b.rest /\ b.rest \in Seq(Chars)
  BY EntryParts DEF Glued
<1>2. CASE b.rest = <<>>
  BY <1>1, <1>2 DEF Flushed
<1>3. CASE b.rest # <<>>
  <2>1. Flushed(Glued(a, b), TRUE) = Ended(Glued(a, b), b.rest)
    BY <1>1, <1>3 DEF Flushed, Ended
  <2>2. Flushed(b, TRUE) = Ended(b, b.rest)
    BY <1>3, FlushedCases
  <2> QED
    BY <1>1, <2>1, <2>2, GluedEnded
<1> QED
  BY <1>2, <1>3

(* A reader that knows the lines of the log so far, reads on, and may cut the line. *)
CutsThen(cuts, now, n) == IF now THEN cuts \cup {n} ELSE cuts

\* To split the next chunk after what is held back and glue it to the lines so far is to
\* cut the longer log into lines.
LEMMA ReadsOn ==
    ASSUME NEW s \in Seq(Bytes), NEW cuts \in SUBSET (0 .. Len(s)), NEW r \in Seq(Bytes),
           NEW now \in BOOLEAN, NEW a, a = LinesOf(s, cuts)
    PROVE  LinesOf(s \o r, CutsThen(cuts, now, Len(s) + Len(r)))
             = Glued(a, Flushed(Split(a.rest, r), now))
<1>1. PICK b : b = Split(a.rest, r)
  OBVIOUS
<1>2. a \in Entry /\ a.rest \in Seq(Chars) /\ b \in Entry
  <2>1. a \in Entry
    BY LinesTook DEF Took
  <2>2. a.rest \in Seq(Chars)
    BY <2>1, EntryParts
  <2>3. b \in Entry
    BY <1>1, <2>2, SplitTook DEF Took
  <2> QED
    BY <2>1, <2>2, <2>3
<1>3. LinesOf(s \o r, cuts) = Glued(a, b)
  BY <1>1, Continues
<1>4. CASE now = TRUE
  <2>1. PICK x : x = s \o r
    OBVIOUS
  <2>2. x \in Seq(Bytes) /\ Len(x) = Len(s) + Len(r)
    BY <2>1, ConcatProperties
  <2>3. LinesOf(x, cuts \cup {Len(x)}) = Flushed(LinesOf(x, cuts), TRUE)
    BY <2>2, CutAtEnd
  <2>4. Flushed(LinesOf(x, cuts), TRUE) = Glued(a, Flushed(b, TRUE))
    BY <1>2, <1>3, <2>1, GluedFlushed
  <2> QED
    BY <1>1, <1>4, <2>1, <2>2, <2>3, <2>4 DEF CutsThen
<1>5. CASE now = FALSE
  BY <1>1, <1>2, <1>3, <1>5, FlushedCases DEF CutsThen
<1> QED
  BY <1>4, <1>5

(* What scrolls out of view is counted. *)
LEMMA LastOf ==
    ASSUME NEW S, NEW s \in Seq(S), NEW over \in Nat, over <= Len(s)
    PROVE  /\ SubSeq(s, over + 1, Len(s)) \in Seq(S)
           /\ Len(SubSeq(s, over + 1, Len(s))) = Len(s) - over
           /\ \A i \in 1 .. Len(s) - over : SubSeq(s, over + 1, Len(s))[i] = s[over + i]
<1>1. PICK n, m : n = Len(s) /\ m = over + 1
  OBVIOUS
<1>2. n \in Nat /\ m \in Nat /\ m \in Int /\ n \in Int
  BY <1>1
<1>3. \A i \in m .. n : s[i] \in S
  BY <1>1, <1>2
<1>4. /\ SubSeq(s, m, n) \in Seq(S) /\ Len(SubSeq(s, m, n)) = IF m <= n THEN n - m + 1 ELSE 0
      /\ \A i \in 1 .. n - m + 1 : SubSeq(s, m, n)[i] = s[m + i - 1]
  BY <1>2, <1>3, SubSeqProperties
<1>5. /\ n - m + 1 = n - over
      /\ \A i \in 1 .. n - over : m + i - 1 = over + i
      /\ ~(m <= n) => n - over = 0
  BY <1>1, <1>2
<1> QED
  BY <1>1, <1>4, <1>5

(* A sequence, continued, without its first entries *)
Scrolled(x, y, over, z) == z = SubSeq(x \o y, over + 1, Len(x \o y)) /\ over <= Len(x \o y)

\* What stays in view are the last of the old and the new lines.
LEMMA ScrolledParts ==
    ASSUME NEW S, NEW x \in Seq(S), NEW y \in Seq(S), NEW over \in Nat, NEW z,
           Scrolled(x, y, over, z)
    PROVE  /\ z \in Seq(S) /\ Len(z) = Len(x) + Len(y) - over
           /\ over <= Len(x) + Len(y)
           /\ \A i \in 1 .. Len(z) : z[i] = (x \o y)[over + i]
<1>1. PICK s : s = x \o y
  OBVIOUS
<1>2. s \in Seq(S) /\ Len(s) = Len(x) + Len(y)
  BY <1>1, ConcatProperties
<1>3. over <= Len(s) /\ z = SubSeq(s, over + 1, Len(s))
  BY <1>1 DEF Scrolled
<1> QED
  BY <1>1, <1>2, <1>3, LastOf

(* x is what is left of a sequence without its first h entries. *)
EndsWith(all, x, h) ==
    h + Len(x) = Len(all) /\ \A i \in 1 .. Len(x) : x[i] = all[h + i]

\* If the view was the end of the log's lines, it still is with what scrolled out counted.
LEMMA ScrolledShows ==
    ASSUME NEW S, NEW x \in Seq(S), NEW y \in Seq(S), NEW over \in Nat, NEW z,
           Scrolled(x, y, over, z), NEW h \in Nat, NEW all \in Seq(S), EndsWith(all, x, h)
    PROVE  EndsWith(all \o y, z, h + over)
<1>0. h + Len(x) = Len(all) /\ \A i \in 1 .. Len(x) : x[i] = all[h + i]
  BY DEF EndsWith
<1>1. PICK l, k, q, n : l = Len(x) /\ k = Len(y) /\ q = Len(all) /\ n = Len(z)
  OBVIOUS
<1>2. /\ l \in Nat /\ k \in Nat /\ q \in Nat /\ n \in Nat
      /\ n = l + k - over /\ over <= l + k /\ h + l = q
  BY <1>0, <1>1, ScrolledParts
<1>3. (h + over) + Len(z) = Len(all \o y)
  <2>1. Len(all \o y) = q + k
    BY <1>1, ConcatProperties
  <2>2. (h + over) + n = q + k
    BY <1>2
  <2> QED
    BY <1>1, <2>1, <2>2
<1>4. ASSUME NEW i \in 1 .. n PROVE z[i] = (all \o y)[(h + over) + i]
  <2>1. PICK j, p : j = over + i /\ p = (h + over) + i
    OBVIOUS
  <2>2. j \in 1 .. l + k
    BY <1>2, <2>1
  <2>3. p \in 1 .. q + k
    BY <1>2, <2>1
  <2>4. p = h + j /\ (p <= q <=> j <= l) /\ p - q = j - l
    BY <1>2, <2>1
  <2>5. z[i] = (x \o y)[j]
    <3>1. \A m \in 1 .. Len(z) : z[m] = (x \o y)[over + m]
      BY ScrolledParts
    <3> QED
      BY <1>1, <2>1, <3>1
  <2>6. (x \o y)[j] = IF j <= l THEN x[j] ELSE y[j - l]
    <3>1. \A m \in 1 .. Len(x) + Len(y) : (x \o y)[m] = IF m <= Len(x) THEN x[m] ELSE y[m - Len(x)]
      BY ConcatProperties
    <3> QED
      BY <1>1, <2>2, <3>1
  <2>7. (all \o y)[p] = IF p <= q THEN all[p] ELSE y[p - q]
    <3>1. \A m \in 1 .. Len(all) + Len(y) :
            (all \o y)[m] = IF m <= Len(all) THEN all[m] ELSE y[m - Len(all)]
      BY ConcatProperties
    <3> QED
      BY <1>1, <2>3, <3>1
  <2>8. j <= l => x[j] = all[p]
    <3>1. j <= l => j \in 1 .. Len(x)
      BY <1>1, <1>2, <2>2
    <3> QED
      BY <1>0, <2>4, <3>1
  <2> QED
    BY <2>1, <2>4, <2>5, <2>6, <2>7, <2>8
<1>5. \A i \in 1 .. Len(z) : z[i] = (all \o y)[(h + over) + i]
  BY <1>1, <1>4
<1> QED
  BY <1>3, <1>5 DEF EndsWith

-------------------------------------------------------------------------------
(* What a reader holds, and what it has to do with the log *)
Held(o, p, ls, h, cuts) ==
    /\ o \in 0 .. MaxBytes /\ p \in Seq(Chars) /\ ls \in Seq(Seq(Chars)) /\ h \in Nat
    /\ cuts \in SUBSET (0 .. MaxBytes)
    /\ \A i \in 1 .. Len(ls) : Len(ls[i]) <= MaxBytes
    /\ h + Len(ls) + Len(p) <= o

Views(s, p, ls, h, cuts) ==
    p = LinesOf(s, cuts).rest /\ EndsWith(LinesOf(s, cuts).lines, ls, h)

\* A chunk leaves the reader with what a reader may hold.
LEMMA ReadingHolds ==
    ASSUME NEW o, NEW p, NEW ls, NEW h, NEW cuts, Held(o, p, ls, h, cuts),
           NEW bytes \in Seq(Bytes), NEW now \in BOOLEAN, NEW end, end = o + Len(bytes),
           end <= MaxBytes, NEW sp, sp = Flushed(Split(p, bytes), now),
           NEW over \in Nat, NEW z, Scrolled(ls, sp.lines, over, z)
    PROVE  Held(end, sp.rest, z, h + over, CutsThen(cuts, now, end))
<1>1. PICK b, l, k, m : b = Len(bytes) /\ l = Len(ls) /\ k = Len(p) /\ m = k + b
  OBVIOUS
<1>2. /\ o \in Nat /\ h \in Nat /\ MaxBytes \in Nat /\ b \in Nat /\ l \in Nat /\ k \in Nat
      /\ m \in Nat /\ p \in Seq(Chars) /\ ls \in Seq(Seq(Chars))
      /\ cuts \in SUBSET (0 .. MaxBytes)
  <2>1. /\ o \in 0 .. MaxBytes /\ p \in Seq(Chars) /\ ls \in Seq(Seq(Chars)) /\ h \in Nat
        /\ cuts \in SUBSET (0 .. MaxBytes) /\ MaxBytes \in Nat
    BY LogBounds DEF Held
  <2>2. b \in Nat /\ l \in Nat /\ k \in Nat
    BY ONLY <1>1, <2>1, bytes \in Seq(Bytes)
  <2> QED
    BY <1>1, <2>1, <2>2
<1>3. end = o + b /\ end <= MaxBytes /\ h + l + k <= o
  BY <1>1 DEF Held
<1>4. end \in 0 .. MaxBytes /\ m <= MaxBytes /\ m = k + b
  BY <1>1, <1>2, <1>3
<1>5. Took(sp, m)
  <2>1. Took(Split(p, bytes), m)
    BY <1>1, <1>2, SplitTook
  <2> QED
    BY <1>2, <2>1, FlushedTook
<1>6. PICK y, r, t, S : y = sp.lines /\ r = Len(sp.rest) /\ t = Len(y) /\ S = Seq(Chars)
  OBVIOUS
<1>7. /\ y \in Seq(S) /\ sp.rest \in S /\ r \in Nat /\ t \in Nat
      /\ t + r <= m /\ \A i \in 1 .. t : Len(y[i]) <= m /\ Len(y[i]) \in Nat
  <2>1. sp \in Entry /\ t + r <= m /\ \A i \in 1 .. t : Len(y[i]) <= m
    BY <1>5, <1>6 DEF Took
  <2>2. /\ y \in Seq(S) /\ sp.rest \in S /\ r \in Nat /\ t \in Nat
        /\ \A i \in 1 .. t : Len(y[i]) \in Nat
    BY <1>6, <2>1, EntryParts
  <2> QED
    BY <2>1, <2>2
<1>8. PICK n : n = Len(z)
  OBVIOUS
<1>9. /\ z \in Seq(S) /\ n = l + t - over /\ over <= l + t /\ n \in Nat
      /\ \A i \in 1 .. n : z[i] = (ls \o y)[over + i]
  <2>1. ls \in Seq(S) /\ y \in Seq(S) /\ Scrolled(ls, y, over, z)
    BY <1>2, <1>6, <1>7
  <2>2. /\ z \in Seq(S) /\ Len(z) = Len(ls) + Len(y) - over /\ over <= Len(ls) + Len(y)
        /\ \A i \in 1 .. Len(z) : z[i] = (ls \o y)[over + i]
    BY ONLY <2>1, ScrolledParts, over \in Nat
  <2>3. Len(z) \in Nat
    BY <2>2
  <2> QED
    BY <1>1, <1>6, <1>8, <2>2, <2>3
<1>10. (h + over) + n + r <= end /\ h + over \in Nat
  BY <1>2, <1>3, <1>4, <1>7, <1>9
<1>11. ASSUME NEW i \in 1 .. n PROVE Len(z[i]) <= MaxBytes
  <2>1. PICK j : j = over + i
    OBVIOUS
  <2>2. j \in 1 .. l + t
    <3>1. l \in Nat /\ t \in Nat /\ over \in Nat /\ n = l + t - over /\ over <= l + t
      BY <1>2, <1>7, <1>9
    <3> QED
      BY <2>1, <3>1
  <2>3. z[i] = IF j <= l THEN ls[j] ELSE y[j - l]
    <3>1. (ls \o y)[j] = IF j <= l THEN ls[j] ELSE y[j - l]
      <4>1. ls \in Seq(S)
        BY <1>2, <1>6
      <4> QED
        BY <1>1, <1>6, <1>7, <2>2, <4>1, ConcatProperties
    <3> QED
      BY <1>9, <2>1, <3>1
  <2>4. CASE j <= l
    <3>1. j \in 1 .. Len(ls)
      BY <1>1, <1>2, <1>7, <2>2, <2>4
    <3>2. Len(ls[j]) <= MaxBytes
      BY <3>1 DEF Held
    <3> QED
      BY <2>3, <2>4, <3>2
  <2>5. CASE ~(j <= l)
    <3>1. j - l \in 1 .. t
      BY <1>2, <1>7, <2>2, <2>5
    <3>2. Len(y[j - l]) <= m /\ Len(y[j - l]) \in Nat
      BY <1>7, <3>1
    <3>3. Len(y[j - l]) <= MaxBytes
      BY <1>2, <1>4, <3>2
    <3> QED
      BY <2>3, <2>5, <3>3
  <2> QED
    BY <2>4, <2>5
<1>12. CutsThen(cuts, now, end) \in SUBSET (0 .. MaxBytes)
  BY <1>2, <1>4 DEF CutsThen
<1>13. \A i \in 1 .. Len(z) : Len(z[i]) <= MaxBytes
  BY <1>8, <1>11
<1>14. (h + over) + Len(z) + Len(sp.rest) <= end
  BY <1>6, <1>8, <1>10
<1>15. z \in Seq(Seq(Chars)) /\ sp.rest \in Seq(Chars)
  BY <1>6, <1>7, <1>9
<1> QED
  BY <1>4, <1>10, <1>12, <1>13, <1>14, <1>15 DEF Held

\* A chunk that follows on what was read leaves the reader true to the longer log.
LEMMA ReadingShows ==
    ASSUME NEW o, NEW p, NEW ls, NEW h, NEW cuts, Held(o, p, ls, h, cuts),
           NEW bytes \in Seq(Bytes), NEW now \in BOOLEAN, NEW end, end = o + Len(bytes),
           NEW sp, sp = Flushed(Split(p, bytes), now),
           NEW over \in Nat, NEW z, Scrolled(ls, sp.lines, over, z),
           NEW s \in Seq(Bytes), Len(s) = o, cuts \in SUBSET (0 .. o), Views(s, p, ls, h, cuts)
    PROVE  Views(s \o bytes, sp.rest, z, h + over, CutsThen(cuts, now, end))
<1>1. PICK a, y, S : a = LinesOf(s, cuts) /\ y = sp.lines /\ S = Seq(Chars)
  OBVIOUS
<1>2. a \in Entry /\ a.rest = p /\ p \in Seq(Chars)
  BY <1>1, LinesTook DEF Took, Views, Held
<1>3. LinesOf(s \o bytes, CutsThen(cuts, now, end)) = Glued(a, sp)
  <2>1. cuts \in SUBSET (0 .. Len(s))
    OBVIOUS
  <2>2. LinesOf(s \o bytes, CutsThen(cuts, now, Len(s) + Len(bytes)))
          = Glued(a, Flushed(Split(a.rest, bytes), now))
    BY ONLY <1>1, <2>1, ReadsOn, s \in Seq(Bytes), bytes \in Seq(Bytes), now \in BOOLEAN
  <2> QED
    BY <1>2, <2>2
<1>4. sp \in Entry
  <2>1. Took(Split(p, bytes), Len(p) + Len(bytes)) /\ Len(p) + Len(bytes) \in Nat
    BY <1>2, SplitTook
  <2> QED
    BY <2>1, FlushedTook DEF Took
<1>5. PICK all : all = a.lines
  OBVIOUS
<1>6. /\ y \in Seq(S) /\ all \in Seq(S) /\ ls \in Seq(S) /\ h \in Nat
      /\ Scrolled(ls, y, over, z)
  BY <1>1, <1>2, <1>4, <1>5, EntryParts DEF Held
<1>7. EndsWith(all, ls, h)
  BY <1>1, <1>5 DEF Views
<1>8. EndsWith(all \o y, z, h + over)
  BY <1>6, <1>7, ScrolledShows
<1>9. PICK g : g = Glued(a, sp)
  OBVIOUS
<1>10. g.rest = sp.rest /\ g.lines = all \o y
  BY <1>1, <1>5, <1>9 DEF Glued
<1>11. PICK x, c : x = s \o bytes /\ c = CutsThen(cuts, now, end)
  OBVIOUS
<1>12. LinesOf(x, c) = g
  BY <1>3, <1>9, <1>11
<1>13. Views(x, sp.rest, z, h + over, c)
  BY <1>8, <1>10, <1>12 DEF Views
<1> QED
  BY <1>11, <1>13

\* A bounded sequence is a sequence that is not longer.
LEMMA BoundedFacts ==
    ASSUME NEW S, NEW n \in Nat
    PROVE  \A s : s \in BoundedSeq(S, n) <=> s \in Seq(S) /\ Len(s) <= n
<1>1. ASSUME NEW s \in BoundedSeq(S, n) PROVE s \in Seq(S) /\ Len(s) <= n
  <2>1. PICK m \in 0 .. n : s \in [1 .. m -> S]
    BY DEF BoundedSeq, SeqOf
  <2>2. m \in Nat /\ m <= n
    BY <2>1
  <2> QED
    BY <2>1, <2>2
<1>2. ASSUME NEW s \in Seq(S), Len(s) <= n PROVE s \in BoundedSeq(S, n)
  <2>1. s \in [1 .. Len(s) -> S] /\ Len(s) \in 0 .. n
    BY <1>2
  <2> QED
    BY <2>1 DEF BoundedSeq, SeqOf
<1> QED
  BY <1>1, <1>2

\* Lines of bounded length.
LEMMA BoundedLines ==
    ASSUME NEW n \in Nat, NEW ls
    PROVE  ls \in Seq(BoundedSeq(Chars, n))
             <=> ls \in Seq(Seq(Chars)) /\ \A i \in 1 .. Len(ls) : Len(ls[i]) <= n
<1>1. PICK B, S : B = BoundedSeq(Chars, n) /\ S = Seq(Chars)
  OBVIOUS
<1>2. \A s : s \in B <=> s \in S /\ Len(s) <= n
  BY <1>1, BoundedFacts
<1>3. ASSUME ls \in Seq(B) PROVE ls \in Seq(S) /\ \A i \in 1 .. Len(ls) : Len(ls[i]) <= n
  <2>1. \A i \in 1 .. Len(ls) : ls[i] \in B
    BY <1>3
  <2>2. \A i \in 1 .. Len(ls) : ls[i] \in S
    BY <1>2, <2>1
  <2>3. ls = [i \in 1 .. Len(ls) |-> ls[i]] /\ Len(ls) \in Nat
    BY <1>3
  <2>4. ls \in Seq(S)
    BY <2>2, <2>3
  <2> QED
    BY <1>2, <2>1, <2>4
<1>4. ASSUME ls \in Seq(S), \A i \in 1 .. Len(ls) : Len(ls[i]) <= n PROVE ls \in Seq(B)
  <2>1. \A i \in 1 .. Len(ls) : ls[i] \in S
    BY <1>4
  <2>2. \A i \in 1 .. Len(ls) : ls[i] \in B
    BY <1>2, <1>4, <2>1
  <2>3. ls = [i \in 1 .. Len(ls) |-> ls[i]] /\ Len(ls) \in Nat
    BY <1>4
  <2> QED
    BY <2>2, <2>3
<1> QED
  BY <1>1, <1>3, <1>4

ReaderHolds == Held(reader.offset, reader.pending, reader.lines, reader.hidden, reader.cuts)
ReaderShows == Views(SubSeq(runLog, 1, reader.offset), reader.pending, reader.lines,
                     reader.hidden, reader.cuts)

\* The two ways to say that a reader shows the log.
LEMMA ShowsIsShown == ShowsTheLog <=> ReaderShows
BY DEF ShowsTheLog, ReaderShows, Views, EndsWith

\* What a reader may hold is of the types of its fields.
LEMMA HeldTyped ==
    ASSUME NEW o, NEW p, NEW ls, NEW h, NEW cuts, Held(o, p, ls, h, cuts)
    PROVE  /\ o \in 0 .. MaxBytes /\ p \in BoundedSeq(Chars, MaxBytes)
           /\ ls \in Seq(BoundedSeq(Chars, MaxBytes))
           /\ h \in 0 .. 2 * MaxBytes /\ cuts \in SUBSET (0 .. MaxBytes)
<1>1. PICK l, k : l = Len(ls) /\ k = Len(p)
  OBVIOUS
<1>2. /\ o \in 0 .. MaxBytes /\ p \in Seq(Chars) /\ ls \in Seq(Seq(Chars)) /\ h \in Nat
      /\ \A i \in 1 .. Len(ls) : Len(ls[i]) <= MaxBytes
      /\ h + l + k <= o /\ cuts \in SUBSET (0 .. MaxBytes) /\ MaxBytes \in Nat
  BY <1>1, LogBounds DEF Held
<1>3. l \in Nat /\ k \in Nat
  BY <1>1, <1>2
<1>4. k <= MaxBytes /\ h \in 0 .. 2 * MaxBytes
  <2>1. o \in Nat /\ o <= MaxBytes /\ MaxBytes \in Nat /\ h \in Nat /\ h + l + k <= o
    BY <1>2
  <2>2. k <= MaxBytes /\ h <= MaxBytes
    BY <1>3, <2>1
  <2> QED
    BY <2>1, <2>2
<1> QED
  BY <1>1, <1>2, <1>4, BoundedFacts, BoundedLines

(* What the invariant says, field by field. *)
LEMMA LogFacts ==
    ASSUME LogInv
    PROVE  /\ ReaderHolds /\ runLog \in Seq(Bytes) /\ Len(runLog) \in 0 .. MaxBytes
           /\ MaxBytes \in Nat /\ MaxRotations \in Nat
           /\ jobLife \in {"live", "dying", "over"}
           /\ sealed \in 0 .. MaxBytes /\ sealed <= Len(runLog)
           /\ epoch \in 0 .. MaxRotations /\ reader.epoch \in 0 .. MaxRotations
           /\ reader.epoch <= epoch /\ reader.size \in 0 .. MaxBytes /\ reader.saw \in BOOLEAN
           /\ reader.kind \in {"pane", "follow"}
<1>1. MaxBytes \in Nat /\ MaxRotations \in Nat
  BY LogBounds
<1>2. runLog \in Seq(Bytes) /\ Len(runLog) \in 0 .. MaxBytes
  <2>1. runLog \in BoundedSeq(Bytes, MaxBytes)
    BY DEF LogInv, LogTypeOK, Bytes
  <2>2. runLog \in Seq(Bytes) /\ Len(runLog) <= MaxBytes
    BY <1>1, <2>1, BoundedFacts
  <2> QED
    BY <1>1, <2>2
<1>3. ReaderHolds
  <2>1. /\ reader.offset \in 0 .. MaxBytes /\ reader.pending \in BoundedSeq(Chars, MaxBytes)
        /\ reader.lines \in Seq(BoundedSeq(Chars, MaxBytes)) /\ reader.hidden \in 0 .. 2 * MaxBytes
        /\ reader.cuts \in SUBSET (0 .. MaxBytes)
    BY DEF LogInv, LogTypeOK
  <2>2. /\ reader.pending \in Seq(Chars) /\ reader.lines \in Seq(Seq(Chars))
        /\ \A i \in 1 .. Len(reader.lines) : Len(reader.lines[i]) <= MaxBytes
    BY <1>1, <2>1, BoundedFacts, BoundedLines
  <2>3. reader.hidden + Len(reader.lines) + Len(reader.pending) <= reader.offset
    BY DEF LogInv, LinesTookBytes
  <2>4. reader.hidden \in Nat
    BY <1>1, <2>1
  <2> QED
    BY <2>1, <2>2, <2>3, <2>4 DEF ReaderHolds, Held
<1>4. /\ jobLife \in {"live", "dying", "over"}
      /\ sealed \in 0 .. MaxBytes /\ sealed <= Len(runLog)
      /\ epoch \in 0 .. MaxRotations /\ reader.epoch \in 0 .. MaxRotations
      /\ reader.epoch <= epoch /\ reader.size \in 0 .. MaxBytes /\ reader.saw \in BOOLEAN
      /\ reader.kind \in {"pane", "follow"}
  BY DEF LogInv, LogTypeOK
<1> QED
  BY <1>1, <1>2, <1>3, <1>4

(* The log up to a place is the log up to an earlier one and what is between. *)
LEMMA LogGoesOn ==
    ASSUME NEW s \in Seq(Bytes), NEW o \in Nat, NEW e \in Nat, o <= e, e <= Len(s)
    PROVE  /\ SubSeq(s, 1, o) \in Seq(Bytes) /\ Len(SubSeq(s, 1, o)) = o
           /\ SubSeq(s, o + 1, e) \in Seq(Bytes) /\ Len(SubSeq(s, o + 1, e)) = e - o
           /\ SubSeq(s, 1, o) \o SubSeq(s, o + 1, e) = SubSeq(s, 1, e)
<1>1. PICK n, m : n = Len(s) /\ m = o + 1
  OBVIOUS
<1>2. n \in Nat /\ m \in Int /\ o \in Int /\ e \in Int /\ 1 \in Int /\ o <= n /\ e <= n
  BY <1>1
<1>3. \A i \in 1 .. n : s[i] \in Bytes
  BY <1>1
<1>4. SubSeq(s, 1, o) \in Seq(Bytes) /\ Len(SubSeq(s, 1, o)) = o
  <2>1. \A i \in 1 .. o : s[i] \in Bytes
    BY <1>2, <1>3
  <2>2. /\ SubSeq(s, 1, o) \in Seq(Bytes)
        /\ Len(SubSeq(s, 1, o)) = IF 1 <= o THEN o - 1 + 1 ELSE 0
    BY <1>2, <2>1, SubSeqProperties
  <2> QED
    BY <2>2
<1>5. SubSeq(s, m, e) \in Seq(Bytes) /\ Len(SubSeq(s, m, e)) = e - o
  <2>1. \A i \in m .. e : s[i] \in Bytes
    BY <1>1, <1>2, <1>3
  <2>2. /\ SubSeq(s, m, e) \in Seq(Bytes)
        /\ Len(SubSeq(s, m, e)) = IF m <= e THEN e - m + 1 ELSE 0
    BY <1>2, <2>1, SubSeqProperties
  <2>3. (m <= e => e - m + 1 = e - o) /\ (~(m <= e) => 0 = e - o)
    BY <1>1, <1>2
  <2> QED
    BY <2>2, <2>3
<1>6. SubSeq(s, 1, o) \o SubSeq(s, o + 1, e) = SubSeq(s, 1, e)
  <2>1. 1 \in 1 .. Len(s) + 1 /\ o \in 1 - 1 .. Len(s) /\ e \in o .. Len(s)
    BY <1>1, <1>2
  <2> QED
    BY <2>1, ConcatAdjacentSubSeq
<1> QED
  BY <1>1, <1>4, <1>5, <1>6

-------------------------------------------------------------------------------
(* A reader, spelled out *)
ReaderOf(kind, pc, saw, size, o, p, ls, h, cuts, e) ==
    [kind |-> kind, pc |-> pc, saw |-> saw, size |-> size, offset |-> o, pending |-> p,
     lines |-> ls, hidden |-> h, cuts |-> cuts, epoch |-> e]

\* The reader is the record of its fields.
LEMMA ReaderSpelled ==
    ASSUME LogInv
    PROVE  reader = ReaderOf(reader.kind, reader.pc, reader.saw, reader.size, reader.offset,
                             reader.pending, reader.lines, reader.hidden, reader.cuts,
                             reader.epoch)
<1>1. PICK P, L, H, C : /\ P = BoundedSeq(Chars, MaxBytes) /\ L = Seq(P)
                        /\ H = 0 .. 2 * MaxBytes /\ C = SUBSET (0 .. MaxBytes)
  OBVIOUS
<1>2. reader \in [kind : {"pane", "follow"},
                   pc : {"start", "idle", "sizes", "reads", "returned"},
                   saw : BOOLEAN, size : 0 .. MaxBytes, offset : 0 .. MaxBytes,
                   pending : P, lines : L, hidden : H, cuts : C, epoch : 0 .. MaxRotations]
  BY <1>1 DEF LogInv, LogTypeOK
<1> QED
  BY ONLY <1>2 DEF ReaderOf

(* Nothing but the reader moves, to a place where what it holds is true to the log. *)
LEMMA ReaderMoves ==
    ASSUME LogInv, UNCHANGED <<runLog, jobLife, sealed, epoch>>,
           NEW pc \in {"start", "idle", "returned"}, NEW saw \in BOOLEAN,
           NEW size \in 0 .. MaxBytes, NEW o, NEW p, NEW ls, NEW h, NEW cuts, NEW e,
           Held(o, p, ls, h, cuts), e = reader.epoch \/ e = epoch,
           e = epoch => /\ o <= Len(runLog) /\ cuts \subseteq 0 .. o
                        /\ Views(SubSeq(runLog, 1, o), p, ls, h, cuts),
           saw => IsTerminal,
           pc = "start" => o = 0 /\ cuts = {},
           pc = "returned" => IsTerminal /\ (e = epoch => o >= sealed /\ p = <<>>),
           reader' = ReaderOf(reader.kind, pc, saw, size, o, p, ls, h, cuts, e)
    PROVE  LogInv'
<1>1. /\ reader'.kind = reader.kind /\ reader'.pc = pc /\ reader'.saw = saw
      /\ reader'.size = size /\ reader'.offset = o /\ reader'.pending = p
      /\ reader'.lines = ls /\ reader'.hidden = h /\ reader'.cuts = cuts /\ reader'.epoch = e
  BY DEF ReaderOf
<1>2. e \in 0 .. MaxRotations /\ e <= epoch /\ reader.kind \in {"pane", "follow"}
  BY LogFacts
<1>3. LogTypeOK'
  <2>1. PICK P, L, H, C : /\ P = BoundedSeq(Chars, MaxBytes) /\ L = Seq(P)
                          /\ H = 0 .. 2 * MaxBytes /\ C = SUBSET (0 .. MaxBytes)
    OBVIOUS
  <2>2. o \in 0 .. MaxBytes /\ p \in P /\ ls \in L /\ h \in H /\ cuts \in C
    BY <2>1, HeldTyped
  <2>3. reader' \in [kind : {"pane", "follow"},
                   pc : {"start", "idle", "sizes", "reads", "returned"},
                   saw : BOOLEAN, size : 0 .. MaxBytes, offset : 0 .. MaxBytes,
                   pending : P, lines : L, hidden : H, cuts : C, epoch : 0 .. MaxRotations]
    <3>1. pc \in {"start", "idle", "sizes", "reads", "returned"}
      OBVIOUS
    <3> QED
      BY <1>2, <2>2, <3>1 DEF ReaderOf
  <2> QED
    BY <2>1, <2>3 DEF LogInv, LogTypeOK
<1>4. LinesTookBytes'
  BY <1>1 DEF LinesTookBytes, Held
<1>5. TrueToTheLog'
  <2>1. ASSUME e = epoch
        PROVE  o <= Len(runLog) /\ cuts \subseteq 0 .. o /\ ShowsTheLog'
    BY <1>1, <2>1 DEF ShowsTheLog, Views, EndsWith
  <2>2. pc # "reads"
    OBVIOUS
  <2> QED
    BY <1>1, <2>1, <2>2 DEF TrueToTheLog
<1>6. (sealed <= Len(runLog) /\ reader.epoch <= epoch)'
  BY <1>1, <1>2 DEF LogInv
<1>7. (reader.saw \/ reader.pc = "returned" => IsTerminal)'
  BY <1>1 DEF IsTerminal
<1> QED
  BY <1>3, <1>4, <1>5, <1>6, <1>7 DEF LogInv

(* Of an empty log there is nothing to show. *)
LEMMA NothingShown ==
    /\ Views(<<>>, <<>>, <<>>, 0, {})
    /\ \A s : Views(SubSeq(s, 1, 0), <<>>, <<>>, 0, {})
<1>1. LinesOf(<<>>, {}) = Begun(<<>>)
  <2>1. <<>> \in Seq(Bytes)
    OBVIOUS
  <2> QED
    BY <2>1, LinesByByte
<1>2. Views(<<>>, <<>>, <<>>, 0, {})
  BY <1>1 DEF Views, EndsWith, Begun
<1>3. \A x : x = <<>> => Views(x, <<>>, <<>>, 0, {})
  BY <1>2
<1>4. \A s : SubSeq(s, 1, 0) = <<>>
  OBVIOUS
<1> QED
  BY <1>2, <1>3, <1>4

(* What is left of what was read when the log is opened for the next chunk *)
LEMMA ReopenedHolds ==
    ASSUME LogInv, reader.pc = "reads"
    PROVE  /\ Held(Reopened.offset, Reopened.pending, Reopened.lines, Reopened.hidden,
                   Reopened.cuts)
           /\ reader.epoch = epoch =>
                /\ Reopened.offset <= Len(runLog)
                /\ Reopened.cuts \subseteq 0 .. Reopened.offset
                /\ Views(SubSeq(runLog, 1, Reopened.offset), Reopened.pending,
                         Reopened.lines, Reopened.hidden, Reopened.cuts)
<1>1. CASE reader.size < reader.offset
  <2>1. Reopened = [reader EXCEPT !.offset = 0, !.pending = <<>>, !.lines = <<>>, !.hidden = 0,
                                  !.cuts = {}]
    BY <1>1 DEF Reopened
  <2>2. /\ Reopened.offset = 0 /\ Reopened.pending = <<>> /\ Reopened.lines = <<>>
        /\ Reopened.hidden = 0 /\ Reopened.cuts = {}
    BY <2>1, ReaderSpelled DEF ReaderOf
  <2>3. Held(0, <<>>, <<>>, 0, {})
    BY LogBounds DEF Held
  <2>4. 0 <= Len(runLog)
    BY LogFacts
  <2>7. Views(SubSeq(runLog, 1, 0), <<>>, <<>>, 0, {}) /\ 0 <= Len(runLog)
    BY <2>4, NothingShown
  <2> QED
    BY <2>2, <2>3, <2>7
<1>2. CASE ~(reader.size < reader.offset)
  <2>1. Reopened = reader
    BY <1>2 DEF Reopened
  <2>2. ReaderHolds
    BY LogFacts
  <2>3. reader.offset <= reader.size
    BY <1>2, LogFacts DEF ReaderHolds, Held
  <2>4. reader.epoch = epoch =>
          /\ reader.offset <= Len(runLog) /\ reader.cuts \subseteq 0 .. reader.offset
          /\ ShowsTheLog
    BY <2>3 DEF LogInv, TrueToTheLog
  <2> QED
    BY <2>1, <2>2, <2>4, ShowsIsShown DEF ReaderHolds, ReaderShows
<1> QED
  BY <1>1, <1>2

(* What a reader can take: nothing, or the bytes from where it stopped to some place *)
Taken(o, bytes) ==
    /\ bytes \in Seq(Bytes) /\ o + Len(bytes) <= MaxBytes
    /\ o <= Len(runLog) =>
          o + Len(bytes) <= Len(runLog) /\ bytes = SubSeq(runLog, o + 1, o + Len(bytes))

\* A round that reads nothing takes nothing.
LEMMA NothingTaken ==
    ASSUME LogInv, NEW o \in 0 .. MaxBytes
    PROVE  Taken(o, <<>>)
<1>1. o \in Nat /\ o <= MaxBytes /\ runLog \in Seq(Bytes) /\ <<>> \in Seq(Bytes)
  BY LogFacts
<1>2. ASSUME o <= Len(runLog) PROVE <<>> = SubSeq(runLog, o + 1, o)
  <2>1. PICK x : x = SubSeq(runLog, o + 1, o)
    OBVIOUS
  <2>2. x \in Seq(Bytes) /\ Len(x) = o - o
    BY <1>1, <1>2, <2>1, LogGoesOn
  <2>3. x = <<>>
    <3>1. Len(x) = 0
      BY <1>1, <2>2
    <3> QED
      BY <2>2, <3>1
  <2> QED
    BY <2>1, <2>3
<1>3. o + 0 = o /\ Len(<<>>) = 0
  BY <1>1
<1> QED
  BY <1>1, <1>2, <1>3 DEF Taken

\* ReadTo takes the bytes from the offset on, and all of them if it may.
LEMMA ReadToTakes ==
    ASSUME LogInv, NEW o \in 0 .. MaxBytes, o = Reopened.offset, NEW end \in Nat,
           o <= end \/ Len(runLog) <= end
    PROVE  /\ Taken(o, ReadTo(end))
           /\ o <= Len(runLog) /\ Len(runLog) <= end => o + Len(ReadTo(end)) = Len(runLog)
           /\ Len(runLog) <= end => o + Len(ReadTo(end)) >= Len(runLog)
<1>1. PICK n : n = Len(runLog)
  OBVIOUS
<1>2. /\ n \in Nat /\ n <= MaxBytes /\ runLog \in Seq(Bytes) /\ MaxBytes \in Nat
      /\ o \in Nat /\ o <= MaxBytes
  BY <1>1, LogFacts
<1>3. PICK e : e = IF end < n THEN end ELSE n
  OBVIOUS
<1>4. e \in Nat /\ e <= n /\ (o <= n => o <= e) /\ (n <= end => e = n)
  BY <1>1, <1>2, <1>3
<1>5. PICK x : x = SubSeq(runLog, o + 1, e)
  OBVIOUS
<1>6. ReadTo(end) = x
  BY <1>1, <1>3, <1>5 DEF ReadTo
<1>7. CASE o <= n
  <2>1. x \in Seq(Bytes) /\ Len(x) = e - o
    BY <1>1, <1>2, <1>4, <1>5, <1>7, LogGoesOn
  <2>2. o + Len(x) = e /\ e <= MaxBytes
    BY <1>2, <1>4, <1>7, <2>1
  <2>3. x = SubSeq(runLog, o + 1, o + Len(x))
    BY <1>5, <2>2
  <2> QED
    BY <1>1, <1>4, <1>6, <2>1, <2>2, <2>3 DEF Taken
<1>8. CASE ~(o <= n)
  <2>1. PICK m : m = o + 1
    OBVIOUS
  <2>2. m \in Int /\ e \in Int /\ ~(m <= e)
    BY <1>2, <1>4, <1>8, <2>1
  <2>3. x \in Seq(Bytes) /\ Len(x) = 0
    <3>1. \A i \in m .. e : runLog[i] \in Bytes
      BY <2>2
    <3>2. /\ SubSeq(runLog, m, e) \in Seq(Bytes)
          /\ Len(SubSeq(runLog, m, e)) = IF m <= e THEN e - m + 1 ELSE 0
      BY <2>2, <3>1, SubSeqProperties
    <3> QED
      BY <1>5, <2>1, <2>2, <3>2
  <2>4. o + Len(x) = o
    BY <1>2, <2>3
  <2> QED
    BY <1>1, <1>2, <1>6, <1>8, <2>3, <2>4 DEF Taken
<1> QED
  BY <1>2, <1>7, <1>8

\* A view drops no more lines than there are.
LEMMA KeepsLast ==
    ASSUME NEW S, NEW x \in Seq(S), NEW y \in Seq(S), NEW view \in Nat
    PROVE  LET over == IF Len(x \o y) > view THEN Len(x \o y) - view ELSE 0
           IN over \in Nat /\ Scrolled(x, y, over, SubSeq(x \o y, over + 1, Len(x \o y)))
<1>1. PICK n : n = Len(x \o y)
  OBVIOUS
<1>2. n \in Nat
  <2>1. x \o y \in Seq(S)
    BY ConcatProperties
  <2> QED
    BY <1>1, <2>1
<1>3. PICK over : over = IF n > view THEN n - view ELSE 0
  OBVIOUS
<1>4. over \in Nat /\ over <= n
  BY <1>2, <1>3
<1> QED
  BY <1>1, <1>3, <1>4 DEF Scrolled

(* One round of a reader, whatever it takes *)
LEMMA TakesKeeps ==
    ASSUME LogInv, reader.pc = "reads", UNCHANGED <<runLog, jobLife, sealed, epoch>>,
           NEW bytes, Taken(Reopened.offset, bytes), NEW flush \in BOOLEAN,
           NEW pc \in {"idle", "returned"}, NEW view \in Nat,
           pc = "returned" =>
               /\ flush /\ IsTerminal
               /\ reader.epoch = epoch => Reopened.offset + Len(bytes) >= sealed,
           Takes(bytes, flush, pc, view)
    PROVE  LogInv'
<1>1. PICK o, p, ls, h, cuts : /\ o = Reopened.offset /\ p = Reopened.pending
                               /\ ls = Reopened.lines /\ h = Reopened.hidden
                               /\ cuts = Reopened.cuts
  OBVIOUS
<1>2. Held(o, p, ls, h, cuts)
  BY <1>1, ReopenedHolds
<1>3. PICK end, sp : end = o + Len(bytes) /\ sp = Flushed(Split(p, bytes), flush)
  OBVIOUS
<1>4. /\ bytes \in Seq(Bytes) /\ end <= MaxBytes /\ end \in Nat /\ o \in Nat
      /\ p \in Seq(Chars) /\ ls \in Seq(Seq(Chars)) /\ MaxBytes \in Nat
  <2>1. o \in Nat /\ p \in Seq(Chars) /\ ls \in Seq(Seq(Chars)) /\ MaxBytes \in Nat
    BY <1>2, LogFacts DEF Held
  <2>2. bytes \in Seq(Bytes) /\ end <= MaxBytes
    BY <1>1, <1>3 DEF Taken
  <2> QED
    BY <1>3, <2>1, <2>2
<1>5. sp.lines \in Seq(Seq(Chars))
  <2>1. Took(Split(p, bytes), Len(p) + Len(bytes)) /\ Len(p) + Len(bytes) \in Nat
    BY <1>4, SplitTook
  <2>2. sp \in Entry
    BY <1>3, <2>1, FlushedTook DEF Took
  <2> QED
    BY <2>2, EntryParts
<1>6. PICK over, z : /\ over = IF Len(ls \o sp.lines) > view THEN Len(ls \o sp.lines) - view
                              ELSE 0
                     /\ z = SubSeq(ls \o sp.lines, over + 1, Len(ls \o sp.lines))
  OBVIOUS
<1>7. over \in Nat /\ Scrolled(ls, sp.lines, over, z)
  BY <1>4, <1>5, <1>6, KeepsLast
<1>8. PICK c : c = CutsThen(cuts, flush, end)
  OBVIOUS
<1>9. Held(end, sp.rest, z, h + over, c)
  <2>1. \A en, s1 : en = o + Len(bytes) /\ en <= MaxBytes /\ s1 = Flushed(Split(p, bytes), flush)
             /\ Scrolled(ls, s1.lines, over, z)
             => Held(en, s1.rest, z, h + over, CutsThen(cuts, flush, en))
    BY <1>2, <1>4, <1>7, ReadingHolds
  <2> QED
    BY <1>3, <1>4, <1>7, <1>8, <2>1
<1>10. ASSUME reader.epoch = epoch
       PROVE  end <= Len(runLog) /\ c \subseteq 0 .. end
              /\ Views(SubSeq(runLog, 1, end), sp.rest, z, h + over, c)
  <2>1. o <= Len(runLog) /\ cuts \subseteq 0 .. o /\ Views(SubSeq(runLog, 1, o), p, ls, h, cuts)
    BY <1>1, <1>10, ReopenedHolds
  <2>2. end <= Len(runLog) /\ bytes = SubSeq(runLog, o + 1, end)
    BY <1>1, <1>3, <2>1 DEF Taken
  <2>3. PICK s : s = SubSeq(runLog, 1, o)
    OBVIOUS
  <2>4. o <= end
    <3>1. Len(bytes) \in Nat
      BY <1>4
    <3> QED
      BY <1>3, <1>4, <3>1
  <2>5. s \in Seq(Bytes) /\ Len(s) = o /\ s \o bytes = SubSeq(runLog, 1, end)
    BY <1>4, <2>2, <2>3, <2>4, LogFacts, LogGoesOn
  <2>6. Views(s \o bytes, sp.rest, z, h + over, c)
    <3>1. \A en, s1 : en = o + Len(bytes) /\ s1 = Flushed(Split(p, bytes), flush)
             /\ Scrolled(ls, s1.lines, over, z)
             => Views(s \o bytes, s1.rest, z, h + over, CutsThen(cuts, flush, en))
      BY <1>2, <1>4, <1>7, <2>1, <2>3, <2>5, ReadingShows
    <3> QED
      BY <1>3, <1>7, <1>8, <3>1
  <2>7. c \subseteq 0 .. end
    BY <1>4, <1>8, <2>1, <2>4 DEF CutsThen
  <2> QED
    BY <2>2, <2>5, <2>6, <2>7
<1>11. flush => sp.rest = <<>>
  BY <1>3 DEF Flushed
<1>12. reader' = ReaderOf(reader.kind, pc, FALSE, 0, end, sp.rest, z, h + over, c, reader.epoch)
  <2>1. PICK rd : rd = ReaderOf(reader.kind, reader.pc, reader.saw, reader.size, o, p, ls, h,
                                cuts, reader.epoch)
    OBVIOUS
  <2>2. Reopened = rd
    <3>1. CASE reader.size < reader.offset
      <4>1. Reopened = [reader EXCEPT !.offset = 0, !.pending = <<>>, !.lines = <<>>,
                                      !.hidden = 0, !.cuts = {}]
        BY <3>1 DEF Reopened
      <4>2. Reopened = ReaderOf(reader.kind, reader.pc, reader.saw, reader.size, 0, <<>>, <<>>,
                                0, {}, reader.epoch)
        BY <4>1, ReaderSpelled DEF ReaderOf
      <4>3. o = 0 /\ p = <<>> /\ ls = <<>> /\ h = 0 /\ cuts = {}
        BY <1>1, <4>2 DEF ReaderOf
      <4> QED
        BY <2>1, <4>2, <4>3
    <3>2. CASE ~(reader.size < reader.offset)
      BY <1>1, <2>1, <3>2, ReaderSpelled DEF Reopened, ReaderOf
    <3> QED
      BY <3>1, <3>2
  <2>3. reader' = [rd EXCEPT
            !.pc = pc, !.saw = FALSE, !.size = 0, !.offset = end, !.pending = sp.rest,
            !.lines = z, !.hidden = h + over,
            !.cuts = IF flush THEN cuts \cup {end} ELSE cuts]
    <3>1. /\ rd.hidden = h /\ rd.cuts = cuts
      BY <2>1 DEF ReaderOf
    <3>2. reader' = [Reopened EXCEPT
            !.pc = pc, !.saw = FALSE, !.size = 0, !.offset = end, !.pending = sp.rest,
            !.lines = z, !.hidden = @ + over,
            !.cuts = IF flush THEN @ \cup {end} ELSE @]
      BY <1>1, <1>3, <1>6 DEF Takes
    <3> QED
      BY <2>2, <3>1, <3>2
  <2> QED
    BY <1>8, <2>1, <2>3 DEF ReaderOf, CutsThen
<1>13. pc = "returned" => IsTerminal /\ (reader.epoch = epoch => end >= sealed /\ sp.rest = <<>>)
  BY <1>1, <1>3, <1>11
<1>14. /\ 0 \in 0 .. MaxBytes /\ FALSE \in BOOLEAN
       /\ pc \in {"start", "idle", "returned"} /\ pc # "start"
  BY <1>4
<1> QED
  <2>1. PICK r, hh, ee : r = sp.rest /\ hh = h + over /\ ee = reader.epoch
    OBVIOUS
  <2>2. Held(end, r, z, hh, c)
    BY <1>9, <2>1
  <2>3. ee = epoch => /\ end <= Len(runLog) /\ c \subseteq 0 .. end
                      /\ Views(SubSeq(runLog, 1, end), r, z, hh, c)
    BY <1>10, <2>1
  <2>4. reader' = ReaderOf(reader.kind, pc, FALSE, 0, end, r, z, hh, c, ee)
    BY <1>12, <2>1
  <2>5. pc = "returned" => IsTerminal /\ (ee = epoch => end >= sealed /\ r = <<>>)
    BY <1>13, <2>1
  <2>6. ee = reader.epoch
    BY <2>1
  <2> QED
    BY <1>14, <2>2, <2>3, <2>4, <2>5, <2>6, ReaderMoves

-------------------------------------------------------------------------------
(* The steps *)

\* The pane reads a chunk, and gives the last line away if the Job was over and it is at the end.
LEMMA PaneReadsKeeps == LogInv /\ PaneReads => LogInv'
<1> SUFFICES ASSUME LogInv, PaneReads PROVE LogInv'
  OBVIOUS
<1>1. reader.pc = "reads" /\ UNCHANGED <<runLog, jobLife, sealed, epoch>>
  BY DEF PaneReads
<1>2. PICK o, more, bytes, flush :
        /\ o = Reopened.offset /\ more = (reader.size > o)
        /\ bytes = IF more THEN ReadTo(o + Chunk) ELSE <<>>
        /\ flush = (reader.saw /\ o + Len(bytes) = reader.size)
  OBVIOUS
<1>3. Takes(bytes, flush, "idle", ViewLines)
  BY <1>2 DEF PaneReads
<1>4. o \in 0 .. MaxBytes /\ Chunk \in Nat /\ ViewLines \in Nat
  BY <1>1, <1>2, ReopenedHolds, LogBounds DEF Held
<1>5. Taken(o, bytes)
  <2>1. Taken(o, <<>>)
    BY <1>4, NothingTaken
  <2>2. Taken(o, ReadTo(o + Chunk))
    <3>1. o + Chunk \in Nat /\ o <= o + Chunk
      BY <1>4
    <3> QED
      BY <1>2, <1>4, <3>1, ReadToTakes
  <2> QED
    BY <1>2, <2>1, <2>2
<1>6. flush \in BOOLEAN
  BY <1>2, LogFacts
<1>7. "idle" \in {"idle", "returned"} /\ "idle" # "returned"
  OBVIOUS
<1> QED
  BY <1>1, <1>2, <1>3, <1>4, <1>5, <1>6, <1>7, TakesKeeps

\* The CLI reads to the end; if it returns, it read what was written when the Job ended.
LEMMA FollowReadsKeeps == LogInv /\ FollowReads => LogInv'
<1> SUFFICES ASSUME LogInv, FollowReads PROVE LogInv'
  OBVIOUS
<1>1. reader.pc = "reads" /\ UNCHANGED <<runLog, jobLife, sealed, epoch>>
  BY DEF FollowReads
<1>2. PICK o, more, bytes, ends, pc :
        /\ o = Reopened.offset /\ more = (reader.size > o)
        /\ bytes = IF more THEN ReadTo(Len(runLog)) ELSE <<>>
        /\ ends = (reader.saw /\ (~more \/ Split(Reopened.pending, bytes).rest # <<>>))
        /\ pc = IF ends THEN "returned" ELSE "idle"
  OBVIOUS
<1>3. Takes(bytes, ends, pc, 2 * MaxBytes)
  BY <1>2 DEF FollowReads
<1>4. /\ o \in 0 .. MaxBytes /\ MaxBytes \in Nat /\ 2 * MaxBytes \in Nat
      /\ runLog \in Seq(Bytes) /\ Len(runLog) \in 0 .. MaxBytes
  BY <1>1, <1>2, ReopenedHolds, LogFacts DEF Held
<1>5. Taken(o, <<>>)
  BY <1>4, NothingTaken
<1>6. /\ Taken(o, ReadTo(Len(runLog)))
      /\ o <= Len(runLog) => o + Len(ReadTo(Len(runLog))) = Len(runLog)
  <2>1. Len(runLog) \in Nat /\ Len(runLog) <= Len(runLog)
    BY <1>4
  <2> QED
    BY <1>2, <1>4, <2>1, ReadToTakes
<1>7. Taken(o, bytes)
  BY <1>2, <1>5, <1>6
<1>8. ends \in BOOLEAN /\ pc \in {"idle", "returned"} /\ (pc = "returned" => ends)
  BY <1>2, LogFacts
<1>9. ASSUME ends, reader.epoch = epoch PROVE o + Len(bytes) >= sealed
  <2>1. /\ sealed <= reader.size /\ reader.size <= Len(runLog) /\ o <= Len(runLog)
        /\ sealed <= Len(runLog)
    BY <1>1, <1>2, <1>9, ReopenedHolds DEF LogInv, TrueToTheLog
  <2>2. sealed \in Nat /\ reader.size \in Nat
    BY LogFacts
  <2>3. CASE more
    BY <1>2, <1>4, <1>6, <2>1, <2>2, <2>3
  <2>4. CASE ~more
    <3>1. bytes = <<>> /\ ~(reader.size > o)
      BY <1>2, <2>4
    <3> QED
      BY <1>4, <2>1, <2>2, <3>1
  <2> QED
    BY <2>3, <2>4
<1>10. ends => IsTerminal
  BY <1>2 DEF LogInv
<1> QED
  BY <1>1, <1>2, <1>3, <1>4, <1>7, <1>8, <1>9, <1>10, TakesKeeps

\* The tail that the CLI prints first is the end of the log's lines.
LEMMA TailsKeeps == LogInv /\ Tails => LogInv'
<1> SUFFICES ASSUME LogInv, Tails PROVE LogInv'
  OBVIOUS
<1>1. reader.pc = "start" /\ UNCHANGED <<runLog, jobLife, sealed, epoch>>
  BY DEF Tails
<1>2. PICK sp, n : sp = Flushed(Split(<<>>, runLog), TRUE) /\ n = Len(runLog)
  OBVIOUS
<1>3. PICK all, over, z : /\ all = sp.lines
                          /\ over = IF Len(all) > TailLines THEN Len(all) - TailLines ELSE 0
                          /\ z = SubSeq(all, over + 1, Len(all))
  OBVIOUS
<1>4. reader.offset = 0 /\ reader.cuts = {} /\ ReaderHolds
  BY <1>1, LogFacts DEF LogInv, LinesTookBytes
<1>5. reader.pending = <<>> /\ reader.lines = <<>>
  <2>1. /\ reader.pending \in Seq(Chars) /\ reader.lines \in Seq(Seq(Chars))
        /\ reader.hidden \in Nat
        /\ reader.hidden + Len(reader.lines) + Len(reader.pending) <= 0
    BY <1>4 DEF ReaderHolds, Held
  <2>2. Len(reader.pending) = 0 /\ Len(reader.lines) = 0
    BY <2>1
  <2> QED
    BY <2>1, <2>2
<1>6. reader' = ReaderOf(reader.kind, "idle", reader.saw, reader.size, n, sp.rest, z, over,
                         {n}, epoch)
  <2>1. reader' = [reader EXCEPT
               !.pc = "idle", !.offset = n, !.lines = z, !.hidden = over, !.cuts = {n},
               !.epoch = epoch]
    BY <1>2, <1>3 DEF Tails
  <2>2. sp.rest = <<>>
    BY <1>2 DEF Flushed
  <2> QED
    BY <1>5, <2>1, <2>2, ReaderSpelled DEF ReaderOf
<1>7. /\ runLog \in Seq(Bytes) /\ n \in Nat /\ n \in 0 .. MaxBytes /\ MaxBytes \in Nat
      /\ TailLines \in Nat /\ <<>> \in Seq(Seq(Chars)) /\ <<>> \in Seq(Bytes) /\ <<>> \in Seq(Chars)
      /\ Len(<<>>) = 0
  BY <1>2, LogFacts, LogBounds
<1>8. all \in Seq(Seq(Chars))
  <2>1. Took(Split(<<>>, runLog), Len(<<>>) + Len(runLog))
    <3>1. \A p \in Seq(Chars) : Took(Split(p, runLog), Len(p) + Len(runLog))
      BY <1>7, SplitTook
    <3> QED
      BY ONLY <1>7, <3>1
  <2>3. Len(<<>>) + Len(runLog) \in Nat
    BY <1>2, <1>7
  <2>2. sp \in Entry
    BY <1>2, <2>1, <2>3, FlushedTook DEF Took
  <2> QED
    BY <1>3, <2>2, EntryParts
<1>9. over \in Nat /\ Scrolled(<<>>, all, over, z)
  <2>1. <<>> \o all = all
    BY <1>8
  <2>2. PICK x, S : x = <<>> /\ S = Seq(Chars) /\ x \in Seq(S) /\ all \in Seq(S)
    BY <1>7, <1>8
  <2>3. PICK ov : ov = IF Len(x \o all) > TailLines THEN Len(x \o all) - TailLines ELSE 0
    OBVIOUS
  <2>4. ov \in Nat /\ Scrolled(x, all, ov, SubSeq(x \o all, ov + 1, Len(x \o all)))
    <3>1. x \in Seq(S) /\ all \in Seq(S) /\ TailLines \in Nat
      BY <1>7, <2>2
    <3> QED
      BY ONLY <2>3, <3>1, KeepsLast
  <2>5. ov = over
    BY <1>3, <2>1, <2>2, <2>3
  <2> QED
    BY <1>3, <2>1, <2>2, <2>4, <2>5
<1>10. Held(0, <<>>, <<>>, 0, {})
  BY <1>7 DEF Held
<1>11. n = 0 + Len(runLog) /\ n <= MaxBytes /\ 0 + over = over /\ CutsThen({}, TRUE, n) = {n}
  BY <1>2, <1>7, <1>9 DEF CutsThen
<1>12. Held(n, sp.rest, z, over, {n})
  <2>1. \A en, s1, ov : en = 0 + Len(runLog) /\ en <= MaxBytes
             /\ s1 = Flushed(Split(<<>>, runLog), TRUE)
             /\ ov \in Nat /\ Scrolled(<<>>, s1.lines, ov, z)
             => Held(en, s1.rest, z, 0 + ov, CutsThen({}, TRUE, en))
    BY <1>7, <1>10, ReadingHolds
  <2> QED
    BY <1>2, <1>3, <1>9, <1>11, <2>1
<1>13. Views(SubSeq(runLog, 1, n), sp.rest, z, over, {n})
  <2>2. Views(<<>>, <<>>, <<>>, 0, {})
    BY NothingShown
  <2>3. \A en, s1, ov : en = 0 + Len(runLog)
             /\ s1 = Flushed(Split(<<>>, runLog), TRUE)
             /\ ov \in Nat /\ Scrolled(<<>>, s1.lines, ov, z)
             => Views(<<>> \o runLog, s1.rest, z, 0 + ov, CutsThen({}, TRUE, en))
    BY <1>7, <1>10, <2>2, ReadingShows
  <2>4. Views(<<>> \o runLog, sp.rest, z, over, {n})
    BY <1>2, <1>3, <1>9, <1>11, <2>3
  <2>5. <<>> \o runLog = SubSeq(runLog, 1, n)
    <3>1. SubSeq(runLog, 1, 0) \o SubSeq(runLog, 0 + 1, n) = SubSeq(runLog, 1, n)
          /\ SubSeq(runLog, 1, 0) \in Seq(Bytes) /\ Len(SubSeq(runLog, 1, 0)) = 0
      BY <1>2, <1>7, LogGoesOn
    <3>2. SubSeq(runLog, 1, n) = runLog
      BY <1>2, <1>7
    <3> QED
      BY <1>7, <3>2
  <2> QED
    BY <2>4, <2>5
<1>14. {n} \subseteq 0 .. n /\ n <= Len(runLog)
  BY <1>2, <1>7
<1>15. reader.saw \in BOOLEAN /\ reader.size \in 0 .. MaxBytes /\ (reader.saw => IsTerminal)
  BY LogFacts DEF LogInv
<1> QED
  <2>1. PICK r, c, sw, sz, e : /\ r = sp.rest /\ c = {n} /\ sw = reader.saw /\ sz = reader.size
                               /\ e = epoch
    OBVIOUS
  <2>2. Held(n, r, z, over, c) /\ Views(SubSeq(runLog, 1, n), r, z, over, c)
    BY <1>12, <1>13, <2>1
  <2>3. reader' = ReaderOf(reader.kind, "idle", sw, sz, n, r, z, over, c, e)
    BY <1>6, <2>1
  <2>4. sw \in BOOLEAN /\ sz \in 0 .. MaxBytes /\ (sw => IsTerminal) /\ c \subseteq 0 .. n
        /\ n <= Len(runLog) /\ e = epoch
    BY <1>14, <1>15, <2>1
  <2>5. "idle" \in {"start", "idle", "returned"} /\ "idle" # "start" /\ "idle" # "returned"
    OBVIOUS
  <2> QED
    BY <1>1, <2>2, <2>3, <2>4, <2>5, ReaderMoves

(* What the steps of the writers leave of the invariant *)
LEMMA LogTyped ==
    ASSUME reader' = reader,
           NEW s, s = runLog', NEW P, P = Seq(Bytes),
           LogTypeOK, s \in P, Len(s) <= MaxBytes,
           jobLife' \in {"live", "dying", "over"}, sealed' \in 0 .. MaxBytes,
           epoch' \in 0 .. MaxRotations
    PROVE  LogTypeOK'
<1>1. MaxBytes \in Nat
  BY LogBounds
<1>2. runLog' \in BoundedSeq(Chars \cup {"nl"}, MaxBytes)
  BY <1>1, BoundedFacts DEF Bytes
<1> QED
  BY <1>2 DEF LogTypeOK

\* A byte more leaves what was read of the log as it is.
LEMMA AppendsKeeps == ASSUME NEW b \in Bytes, LogInv, Appends(b) PROVE LogInv'
<1>1. runLog' = Append(runLog, b) /\ Len(runLog) < MaxBytes
      /\ UNCHANGED <<jobLife, sealed, epoch, reader>>
  BY DEF Appends
<1>2. PICK n : n = Len(runLog)
  OBVIOUS
<1>3. runLog \in Seq(Bytes) /\ n \in Nat /\ n < MaxBytes /\ MaxBytes \in Nat
  BY <1>1, <1>2, LogFacts
<1>4. runLog' \in Seq(Bytes) /\ Len(runLog') = n + 1
  BY <1>1, <1>2, <1>3
<1>5. n + 1 <= MaxBytes /\ n <= n + 1
  BY <1>3
<1>6. LogTypeOK'
  BY <1>1, <1>4, <1>5, LogTyped, LogFacts DEF LogInv
<1>7. LinesTookBytes'
  BY <1>1 DEF LogInv, LinesTookBytes
<1>8. ASSUME NEW o \in Nat, o <= n PROVE SubSeq(runLog', 1, o) = SubSeq(runLog, 1, o)
  <2>1. \A i \in 1 .. o : Append(runLog, b)[i] = runLog[i]
    BY <1>2, <1>3, <1>8
  <2>2. PICK x, y : x = SubSeq(runLog', 1, o) /\ y = SubSeq(runLog, 1, o)
    OBVIOUS
  <2>3. x \in Seq(Bytes) /\ Len(x) = o /\ y \in Seq(Bytes) /\ Len(y) = o
    <3>1. o <= o + 1 /\ o <= Len(runLog) /\ o <= Len(runLog')
      BY <1>2, <1>3, <1>4, <1>8
    <3> QED
      BY <1>3, <1>4, <2>2, <3>1, LogGoesOn
  <2>4. ASSUME NEW i \in 1 .. o PROVE x[i] = y[i]
    <3>1. x[i] = runLog'[i] /\ y[i] = runLog[i]
      BY <2>2
    <3> QED
      BY <1>1, <2>1, <3>1
  <2> QED
    BY <2>2, <2>3, <2>4
<1>9. TrueToTheLog'
  <2>1. SUFFICES ASSUME reader.epoch = epoch
                 PROVE  /\ reader.pc # "reads" \/ reader.offset <= reader.size =>
                            /\ reader.offset <= n + 1 /\ reader.cuts \subseteq 0 .. reader.offset
                            /\ ShowsTheLog'
                        /\ reader.pc = "reads" => reader.size <= n + 1
                        /\ reader.pc = "reads" /\ reader.saw => sealed <= reader.size
                        /\ reader.pc = "returned" => reader.offset >= sealed /\ reader.pending = <<>>
    BY <1>1, <1>4 DEF TrueToTheLog
  <2>2. reader.offset \in Nat /\ reader.size \in Nat
    BY LogFacts DEF ReaderHolds, Held
  <2>3. /\ reader.pc # "reads" \/ reader.offset <= reader.size =>
                            /\ reader.offset <= n /\ reader.cuts \subseteq 0 .. reader.offset
                            /\ ShowsTheLog
        /\ reader.pc = "reads" => reader.size <= n
        /\ reader.pc = "reads" /\ reader.saw => sealed <= reader.size
        /\ reader.pc = "returned" => reader.offset >= sealed /\ reader.pending = <<>>
    BY <1>2, <2>1 DEF LogInv, TrueToTheLog
  <2>4. reader.offset <= n /\ ShowsTheLog => ShowsTheLog'
    BY <1>1, <1>8, <2>2 DEF ShowsTheLog
  <2> QED
    BY <1>3, <2>2, <2>3, <2>4
<1>10. (sealed <= Len(runLog) /\ reader.epoch <= epoch)'
  <2>1. sealed \in Nat /\ sealed <= n /\ reader.epoch <= epoch
    BY <1>2, LogFacts
  <2> QED
    BY <1>1, <1>3, <1>4, <2>1
<1>11. (reader.saw \/ reader.pc = "returned" => IsTerminal)'
  BY <1>1 DEF LogInv, IsTerminal
<1> QED
  BY <1>6, <1>7, <1>9, <1>10, <1>11 DEF LogInv

\* When the Job becomes terminal, no reader has seen it yet.
LEMMA RunnerMovesKeeps == LogInv /\ RunnerMoves => LogInv'
<1> SUFFICES ASSUME LogInv, RunnerMoves PROVE LogInv'
  OBVIOUS
<1>1. /\ UNCHANGED <<runLog, epoch, reader>>
      /\ \/ jobLife = "live" /\ jobLife' \in {"dying", "over"} /\ sealed' = Len(runLog)
         \/ jobLife = "dying" /\ jobLife' = "over" /\ UNCHANGED sealed
  BY DEF RunnerMoves
<1>2. runLog \in Seq(Bytes) /\ Len(runLog) \in 0 .. MaxBytes
  BY LogFacts
<1>3. /\ jobLife' \in {"dying", "over"} /\ sealed' \in 0 .. MaxBytes /\ sealed' <= Len(runLog)
  BY <1>1, <1>2, LogFacts
<1>4. LogTypeOK'
  <2>1. runLog' = runLog /\ epoch' \in 0 .. MaxRotations /\ Len(runLog) <= MaxBytes
        /\ jobLife' \in {"live", "dying", "over"}
    BY <1>1, <1>3, LogFacts
  <2> QED
    BY <1>1, <1>2, <1>3, <2>1, LogTyped DEF LogInv
<1>5. LinesTookBytes' /\ (sealed <= Len(runLog) /\ reader.epoch <= epoch)'
  BY <1>1, <1>3 DEF LogInv, LinesTookBytes
<1>6. IsTerminal'
  BY <1>3 DEF IsTerminal
<1>7. TrueToTheLog'
  <2>1. CASE jobLife = "live"
    <3>1. ~reader.saw /\ reader.pc # "returned"
      BY <2>1 DEF LogInv, IsTerminal
    <3> QED
      BY <1>1, <3>1 DEF LogInv, TrueToTheLog, ShowsTheLog
  <2>2. CASE jobLife # "live"
    BY <1>1, <2>2 DEF LogInv, TrueToTheLog, ShowsTheLog
  <2> QED
    BY <2>1, <2>2
<1> QED
  BY <1>4, <1>5, <1>6, <1>7 DEF LogInv

\* After a truncation no reader counts as one of this log.
LEMMA RotatesKeeps == LogInv /\ Rotates => LogInv'
<1> SUFFICES ASSUME LogInv, Rotates PROVE LogInv'
  OBVIOUS
<1>1. /\ epoch < MaxRotations /\ runLog' = <<>> /\ sealed' = 0 /\ epoch' = epoch + 1
      /\ UNCHANGED <<jobLife, reader>>
  BY DEF Rotates
<1>2. /\ MaxBytes \in Nat /\ epoch' \in 0 .. MaxRotations /\ <<>> \in Seq(Bytes)
      /\ Len(<<>>) = 0 /\ reader.epoch < epoch' /\ 0 \in 0 .. MaxBytes
      /\ epoch' \in Nat /\ reader.epoch \in Nat
  BY <1>1, LogFacts
<1>3. LogTypeOK'
  <2>1. jobLife' \in {"live", "dying", "over"} /\ Len(<<>>) <= MaxBytes
    BY <1>1, <1>2, LogFacts
  <2> QED
    BY <1>1, <1>2, <2>1, LogTyped DEF LogInv
<1>4. LinesTookBytes' /\ (reader.saw \/ reader.pc = "returned" => IsTerminal)'
  BY <1>1 DEF LogInv, LinesTookBytes, IsTerminal
<1>5. reader'.epoch # epoch' /\ reader'.epoch <= epoch' /\ sealed' <= Len(runLog')
  BY <1>1, <1>2
<1> QED
  BY <1>3, <1>4, <1>5 DEF LogInv, TrueToTheLog

\* A look at the state of the Job moves nothing of the view.
LEMMA LooksKeeps == LogInv /\ Looks => LogInv'
<1> SUFFICES ASSUME LogInv, Looks PROVE LogInv'
  OBVIOUS
<1>1. PICK rd : rd = reader
  OBVIOUS
<1>2. /\ reader.pc = "idle" /\ UNCHANGED <<runLog, jobLife, sealed, epoch>>
      /\ reader' = [reader EXCEPT !.pc = "sizes", !.saw = IsTerminal]
  BY DEF Looks
<1>3. reader' = ReaderOf(reader.kind, "sizes", IsTerminal, reader.size, reader.offset,
                         reader.pending, reader.lines, reader.hidden, reader.cuts, reader.epoch)
  BY <1>2, ReaderSpelled DEF ReaderOf
<1>4. /\ reader'.pc = "sizes" /\ reader'.saw = IsTerminal /\ reader'.offset = reader.offset
      /\ reader'.pending = reader.pending /\ reader'.lines = reader.lines
      /\ reader'.hidden = reader.hidden /\ reader'.cuts = reader.cuts
      /\ reader'.epoch = reader.epoch
  BY <1>3 DEF ReaderOf
<1>5. LogTypeOK'
  BY <1>2 DEF LogInv, LogTypeOK, IsTerminal
<1>6. LinesTookBytes' /\ (sealed <= Len(runLog) /\ reader.epoch <= epoch)'
  BY <1>2, <1>4 DEF LogInv, LinesTookBytes
<1>7. (reader.saw \/ reader.pc = "returned" => IsTerminal)'
  BY <1>2, <1>4 DEF IsTerminal
<1>8. TrueToTheLog'
  BY <1>2, <1>4 DEF LogInv, TrueToTheLog, ShowsTheLog
<1> QED
  BY <1>5, <1>6, <1>7, <1>8 DEF LogInv

\* A size that covers the offset covers what was written before it was taken.
LEMMA SizesKeeps == LogInv /\ Sizes => LogInv'
<1> SUFFICES ASSUME LogInv, Sizes PROVE LogInv'
  OBVIOUS
<1>1. PICK n, e : n = Len(runLog) /\ e = IF n < reader.offset THEN epoch ELSE reader.epoch
  OBVIOUS
<1>2. /\ reader.pc = "sizes" /\ UNCHANGED <<runLog, jobLife, sealed, epoch>>
      /\ reader' = [reader EXCEPT !.pc = "reads", !.size = n, !.epoch = e]
  BY <1>1 DEF Sizes
<1>3. reader' = ReaderOf(reader.kind, "reads", reader.saw, n, reader.offset,
                         reader.pending, reader.lines, reader.hidden, reader.cuts, e)
  BY <1>2, ReaderSpelled DEF ReaderOf
<1>4. /\ reader'.pc = "reads" /\ reader'.saw = reader.saw /\ reader'.offset = reader.offset
      /\ reader'.size = n /\ reader'.pending = reader.pending /\ reader'.lines = reader.lines
      /\ reader'.hidden = reader.hidden /\ reader'.cuts = reader.cuts /\ reader'.epoch = e
  BY <1>3 DEF ReaderOf
<1>5. /\ n \in 0 .. MaxBytes /\ e \in 0 .. MaxRotations /\ e <= epoch /\ reader.offset \in Nat
      /\ sealed <= n /\ n \in Nat
  <2>1. reader.offset \in Nat
    BY LogFacts DEF ReaderHolds, Held
  <2> QED
    BY <1>1, <2>1, LogFacts
<1>6. LogTypeOK'
  BY <1>2, <1>5 DEF LogInv, LogTypeOK
<1>7. LinesTookBytes' /\ (sealed <= Len(runLog) /\ reader.epoch <= epoch)'
  BY <1>1, <1>2, <1>4, <1>5 DEF LogInv, LinesTookBytes
<1>8. (reader.saw \/ reader.pc = "returned" => IsTerminal)'
  BY <1>2, <1>4 DEF LogInv, IsTerminal
<1>9. TrueToTheLog'
  <2>1. CASE reader.offset <= n
    <3>1. e = reader.epoch
      BY <1>1, <1>5, <2>1
    <3> QED
      BY <1>1, <1>2, <1>4, <1>5, <2>1, <3>1 DEF LogInv, TrueToTheLog, ShowsTheLog
  <2>2. CASE ~(reader.offset <= n)
    <3>1. ~(reader'.pc # "reads" \/ reader'.offset <= reader'.size)
      BY <1>4, <2>2
    <3>2. reader'.pc # "returned" /\ reader'.size <= Len(runLog') /\ sealed' <= reader'.size
      BY <1>1, <1>2, <1>4, <1>5
    <3> QED
      BY <3>1, <3>2 DEF TrueToTheLog
  <2> QED
    BY <2>1, <2>2
<1> QED
  BY <1>6, <1>7, <1>8, <1>9 DEF LogInv

\* The pane opens on an empty view.
LEMMA PaneOpensKeeps == LogInv /\ PaneOpens => LogInv'
<1> SUFFICES ASSUME LogInv, PaneOpens PROVE LogInv'
  OBVIOUS
<1>1. /\ reader.pc = "start" /\ UNCHANGED <<runLog, jobLife, sealed, epoch>>
      /\ reader' = [reader EXCEPT !.pc = "idle", !.epoch = epoch]
  BY DEF PaneOpens
<1>2. reader.offset = 0 /\ reader.cuts = {} /\ ReaderHolds
  BY <1>1, LogFacts DEF LogInv, LinesTookBytes
<1>3. PICK p, ls, h : p = reader.pending /\ ls = reader.lines /\ h = reader.hidden
  OBVIOUS
<1>4. Held(0, p, ls, h, {})
  BY <1>2, <1>3 DEF ReaderHolds
<1>5. p = <<>> /\ ls = <<>> /\ h = 0
  <2>1. PICK l, k : l = Len(ls) /\ k = Len(p)
    OBVIOUS
  <2>2. p \in Seq(Chars) /\ ls \in Seq(Seq(Chars)) /\ h \in Nat /\ h + l + k <= 0
    BY <1>4, <2>1 DEF Held
  <2>3. l \in Nat /\ k \in Nat
    BY <2>1, <2>2
  <2>4. l = 0 /\ k = 0 /\ h = 0
    BY <2>2, <2>3
  <2>5. p = <<>>
    <3>1. p \in Seq(Chars) /\ Len(p) = 0
      BY <2>1, <2>2, <2>4
    <3> QED
      BY ONLY <3>1
  <2>6. ls = <<>>
    <3>1. ls \in Seq(Seq(Chars)) /\ Len(ls) = 0
      BY <2>1, <2>2, <2>4
    <3> QED
      BY ONLY <3>1
  <2> QED
    BY <2>4, <2>5, <2>6
<1>6. Views(SubSeq(runLog, 1, 0), p, ls, h, {})
  BY <1>5, NothingShown
<1>7. reader' = ReaderOf(reader.kind, "idle", reader.saw, reader.size, 0, p, ls, h, {}, epoch)
  BY <1>1, <1>2, <1>3, ReaderSpelled DEF ReaderOf
<1>8. reader.saw \in BOOLEAN /\ reader.size \in 0 .. MaxBytes /\ (reader.saw => IsTerminal)
      /\ 0 <= Len(runLog) /\ {} \subseteq 0 .. 0
  BY LogFacts DEF LogInv
<1>9. "idle" \in {"start", "idle", "returned"} /\ "idle" # "start" /\ "idle" # "returned"
  OBVIOUS
<1> QED
  BY <1>1, <1>4, <1>6, <1>7, <1>8, <1>9, ReaderMoves

\* At the start nothing is written and nothing is read.
LEMMA LogStarts == LogInit => LogInv
<1> SUFFICES ASSUME LogInit PROVE LogInv
  OBVIOUS
<1>1. runLog = <<>> /\ jobLife = "live" /\ sealed = 0 /\ epoch = 0
  BY DEF LogInit
<1>2. /\ reader.kind \in Readers /\ reader.pc = "start" /\ reader.saw = FALSE /\ reader.size = 0
      /\ reader.offset = 0 /\ reader.pending = <<>> /\ reader.lines = <<>> /\ reader.hidden = 0
      /\ reader.cuts = {} /\ reader.epoch = 0
      /\ reader = ReaderOf(reader.kind, "start", FALSE, 0, 0, <<>>, <<>>, 0, {}, 0)
  BY DEF LogInit, ReaderOf
<1>3. MaxBytes \in Nat /\ MaxRotations \in Nat /\ reader.kind \in {"pane", "follow"}
  BY <1>2, LogBounds
<1>4. LogTypeOK
  <2>1. PICK P, L, H, C : /\ P = BoundedSeq(Chars, MaxBytes) /\ L = Seq(P)
                          /\ H = 0 .. 2 * MaxBytes /\ C = SUBSET (0 .. MaxBytes)
    OBVIOUS
  <2>2. <<>> \in P /\ <<>> \in L /\ 0 \in H /\ {} \in C /\ 0 \in 0 .. MaxBytes
    <3>1. \A S : <<>> \in BoundedSeq(S, MaxBytes)
      <4>1. \A S, s : s \in BoundedSeq(S, MaxBytes) <=> s \in Seq(S) /\ Len(s) <= MaxBytes
        BY <1>3, BoundedFacts
      <4>2. \A S : <<>> \in Seq(S) /\ Len(<<>>) <= MaxBytes
        BY <1>3
      <4> QED
        BY <4>1, <4>2
    <3> QED
      BY <1>3, <2>1, <3>1
  <2>3. reader \in [kind : {"pane", "follow"},
                   pc : {"start", "idle", "sizes", "reads", "returned"},
                   saw : BOOLEAN, size : 0 .. MaxBytes, offset : 0 .. MaxBytes,
                   pending : P, lines : L, hidden : H, cuts : C, epoch : 0 .. MaxRotations]
    <3>1. PICK k : k = reader.kind
      OBVIOUS
    <3>2. /\ k \in {"pane", "follow"}
          /\ reader = ReaderOf(k, "start", FALSE, 0, 0, <<>>, <<>>, 0, {}, 0)
      BY <1>2, <1>3, <3>1
    <3>3. 0 \in 0 .. MaxRotations
      BY <1>3
    <3> QED
      BY ONLY <2>2, <3>2, <3>3 DEF ReaderOf
  <2>4. runLog \in BoundedSeq(Chars \cup {"nl"}, MaxBytes)
    <3>1. PICK S : S = Chars \cup {"nl"}
      OBVIOUS
    <3>2. <<>> \in Seq(S) /\ Len(<<>>) <= MaxBytes
      BY <1>3
    <3> QED
      BY <1>1, <1>3, <3>1, <3>2, BoundedFacts
  <2> QED
    BY <1>1, <1>3, <2>1, <2>3, <2>4 DEF LogTypeOK
<1>6. ShowsTheLog
  <2>1. ReaderShows
    BY <1>2, NothingShown DEF ReaderShows
  <2> QED
    BY <2>1, ShowsIsShown
<1> QED
  BY <1>1, <1>2, <1>3, <1>4, <1>6 DEF LogInv, LinesTookBytes, TrueToTheLog

\* Every step keeps the invariant.
LEMMA LogSteps == LogInv /\ [LogNext]_logVars => LogInv'
<1> SUFFICES ASSUME LogInv, [LogNext]_logVars PROVE LogInv'
  OBVIOUS
<1>1. CASE \E b \in Bytes : Appends(b)
  BY <1>1, AppendsKeeps
<1>2. CASE RunnerMoves
  BY <1>2, RunnerMovesKeeps
<1>3. CASE Rotates
  BY <1>3, RotatesKeeps
<1>4. CASE Looks
  BY <1>4, LooksKeeps
<1>5. CASE Sizes
  BY <1>5, SizesKeeps
<1>6. CASE PaneOpens
  BY <1>6, PaneOpensKeeps
<1>7. CASE PaneReads
  BY <1>7, PaneReadsKeeps
<1>8. CASE Tails
  BY <1>8, TailsKeeps
<1>9. CASE FollowReads
  BY <1>9, FollowReadsKeeps
<1>10. CASE UNCHANGED logVars
  BY <1>10 DEF logVars, LogInv, LogTypeOK, LinesTookBytes, TrueToTheLog, ShowsTheLog, IsTerminal
<1> QED
  BY <1>1, <1>2, <1>3, <1>4, <1>5, <1>6, <1>7, <1>8, <1>9, <1>10 DEF LogNext, Bytes

-------------------------------------------------------------------------------
(* The steps of the writers and of the readers keep LogInv. *)
THEOREM LogInvariant == LogSpec => []LogInv
<1>1. LogInit => LogInv
  BY LogStarts
<1>2. LogInv /\ [LogNext]_logVars => LogInv'
  BY LogSteps
<1> QED
  BY <1>1, <1>2, PTL DEF LogSpec

\* The fields of a reader keep their types; a line is never longer than the log can be.
THEOREM LogTypeCorrect == LogSpec => []LogTypeOK
<1>1. LogInv => LogTypeOK
  BY DEF LogInv
<1> QED
  BY <1>1, LogInvariant, PTL

\* LogIsWhole: what _refresh_detail_async and follow_logs show is the log, whole and in
\* order, each line once, whatever is appended or truncated between their looks; and a
\* follower that returned has all that was written when the Job became terminal.
THEOREM LogSafe == LogSpec => []LogIsWhole
<1>1. LogInv => LogIsWhole
  BY DEF LogInv, TrueToTheLog, LogIsWhole
<1> QED
  BY <1>1, LogInvariant, PTL
=============================================================================
