--------------------------- MODULE SequenceLemmas ---------------------------
(***************************************************************************)
(* Facts about numbers and sequences the proofs of this project share: the *)
(* least element of a set of numbers, induction over a set of them, and    *)
(* what FlattenSeq, a recursive function, is of a sequence with one more   *)
(* part or a longer last part.                                             *)
(***************************************************************************)
EXTENDS Integers, SequencesExt, FiniteSetTheorems, SequenceTheorems, TLAPS

(* A set of natural numbers has a least element: the initial intervals they*)
(* bound are finite sets, and strict inclusion of those is well-founded.   *)
LEMMA LeastElement ==
    ASSUME NEW T \in SUBSET Nat, T # {}
    PROVE  \E m \in T : \A k \in T : m <= k
<1> DEFINE U == {1..n : n \in T}
<1>1. ASSUME NEW n \in T PROVE 1..n \in FiniteSubsetsOf(Nat)
  BY FS_Interval DEF FiniteSubsetsOf
<1>2. U \subseteq FiniteSubsetsOf(Nat) /\ U # {} BY <1>1
<1>3. PICK u \in U : \A w \in U : ~(<<w, u>> \in StrictSubsetOrdering(Nat))
  <2> HIDE DEF U
  <2>1. QED BY <1>2, FS_StrictSubsetOrderingWellFounded, WFMin
<1>4. PICK m \in T : u = 1..m OBVIOUS
<1>5. ASSUME NEW k \in T, k < m PROVE FALSE
  <2>1. 1..k \in U /\ 1..k \subseteq 1..m /\ m \in 1..m /\ m \notin 1..k BY <1>5
  <2>2. <<1..k, 1..m>> \in StrictSubsetOrdering(Nat) BY <2>1 DEF StrictSubsetOrdering
  <2>3. QED BY <1>3, <1>4, <2>1, <2>2
<1>6. QED BY <1>5

(* Induction, for a set in place of a predicate.                           *)
LEMMA SetInduction ==
    ASSUME NEW T, 0 \in T, \A n \in Nat : n \in T => n + 1 \in T
    PROVE  Nat \subseteq T
<1> DEFINE C == Nat \ T
<1> SUFFICES ASSUME C # {} PROVE FALSE OBVIOUS
<1>1. PICK m \in C : \A k \in C : m <= k BY LeastElement
<1>2. m # 0 /\ m \in Nat OBVIOUS
<1>3. m - 1 \in Nat /\ m - 1 \notin C BY <1>1, <1>2
<1>4. QED BY <1>1, <1>3

-----------------------------------------------------------------------------
(* The function FlattenSeq is made of, for the first n parts of s: it      *)
(* exists, and its values depend on the parts before it alone.             *)
Join(s, t) == s \o t
Unfolds(s, n, f) == f = [i \in 1..n |-> IF i = 1 THEN s[i] ELSE Join(f[i - 1], s[i])]

LEMMA UnfoldingAt ==
    ASSUME NEW s, NEW n \in Nat, NEW f, Unfolds(s, n, f)
    PROVE  /\ 1 \in 1..n => f[1] = s[1]
           /\ \A k \in 1..n : k # 1 => f[k] = Join(f[k - 1], s[k])
BY DEF Unfolds

LEMMA UnfoldingExists ==
    ASSUME NEW s, NEW n \in Nat PROVE \E f : Unfolds(s, n, f)
<1> DEFINE T == {k \in Nat : \E f : Unfolds(s, k, f)}
<1>1. 0 \in T
  <2>1. Unfolds(s, 0, [i \in 1..0 |-> IF i = 1 THEN s[i] ELSE s[i]]) BY DEF Unfolds
  <2>2. QED BY <2>1
<1>2. ASSUME NEW k \in Nat, k \in T PROVE k + 1 \in T
  <2>1. PICK f : Unfolds(s, k, f) BY <1>2
  <2> DEFINE g == [i \in 1..k + 1 |-> IF i <= k THEN f[i] ELSE IF i = 1 THEN s[i] ELSE Join(f[k], s[i])]
  <2>2. \A i \in 1..k + 1 : i = 1 => g[i] = s[i]
    <3>1. k # 0 => f[1] = s[1] BY <2>1, UnfoldingAt
    <3>2. QED BY <3>1
  <2>3. ASSUME NEW i \in 1..k + 1, i # 1 PROVE g[i] = Join(g[i - 1], s[i])
    <3>1. g[i - 1] = f[i - 1] BY <2>3
    <3>2. CASE i <= k
      <4>1. f[i] = Join(f[i - 1], s[i]) BY <2>1, <2>3, <3>2, UnfoldingAt
      <4>2. g[i] = f[i] BY <3>2
      <4>3. QED BY <3>1, <4>1, <4>2
    <3>3. CASE i = k + 1
      <4>1. g[i] = Join(f[k], s[i]) BY <2>3, <3>3
      <4>2. i - 1 = k BY <3>3
      <4>3. QED BY <3>1, <4>1, <4>2
    <3>4. QED BY <3>2, <3>3
  <2>4. Unfolds(s, k + 1, g)
    <3>1. g = [i \in 1..k + 1 |-> g[i]] OBVIOUS
    <3> HIDE DEF g
    <3>2. \A i \in 1..k + 1 : g[i] = IF i = 1 THEN s[i] ELSE Join(g[i - 1], s[i]) BY <2>2, <2>3
    <3>3. QED BY <3>1, <3>2 DEF Unfolds
  <2>5. QED BY <2>4
<1>3. QED
  <2> HIDE DEF T
  <2>1. Nat \subseteq T BY <1>1, <1>2, SetInduction
  <2>2. QED BY <2>1 DEF T

LEMMA UnfoldingsAgree ==
    ASSUME NEW s, NEW t, NEW m \in Nat, NEW n \in Nat, NEW f, NEW g,
           Unfolds(s, m, f), Unfolds(t, n, g), \A i \in 1..m : i <= n => s[i] = t[i]
    PROVE  \A i \in 1..m : i <= n => f[i] = g[i]
<1> DEFINE T == {k \in Nat : k \in 1..m /\ k <= n => f[k] = g[k]}
<1>1. 0 \in T OBVIOUS
<1>2. ASSUME NEW k \in Nat, k \in T PROVE k + 1 \in T
  <2> SUFFICES ASSUME k + 1 \in 1..m, k + 1 <= n PROVE f[k + 1] = g[k + 1] OBVIOUS
  <2>1. k + 1 \in 1..n /\ s[k + 1] = t[k + 1] BY <1>2
  <2>2. CASE k = 0
    <3>1. f[1] = s[1] /\ g[1] = t[1] BY <2>1, <2>2, UnfoldingAt
    <3>2. QED BY <2>1, <2>2, <3>1
  <2>3. CASE k # 0
    <3>1. f[k + 1] = Join(f[(k + 1) - 1], s[k + 1]) /\ g[k + 1] = Join(g[(k + 1) - 1], t[k + 1])
      <4>1. k + 1 # 1 BY <2>3
      <4>2. QED BY <2>1, <4>1, UnfoldingAt
    <3>2. f[k] = g[k] /\ (k + 1) - 1 = k BY <1>2, <2>3
    <3>3. QED BY <2>1, <3>1, <3>2
  <2>4. QED BY <2>2, <2>3
<1>3. QED
  <2> HIDE DEF T
  <2>1. Nat \subseteq T BY <1>1, <1>2, SetInduction
  <2>2. QED BY <2>1 DEF T

LEMMA UnfoldingGrows ==
    ASSUME NEW s, NEW t, NEW n \in Nat, n # 0, NEW f, NEW g,
           Unfolds(s, n + 1, f), Unfolds(t, n, g), \A i \in 1..n : t[i] = s[i]
    PROVE  f[n + 1] = Join(g[n], s[n + 1])
<1>1. PICK m \in Nat : m = n + 1 OBVIOUS
<1>2. \A i \in 1..m : i <= n => s[i] = t[i] BY <1>1
<1>3. \A i \in 1..m : i <= n => f[i] = g[i] BY <1>1, <1>2, UnfoldingsAgree
<1>4. f[n] = g[n] BY <1>1, <1>3
<1>5. n + 1 \in 1..(n + 1) /\ n + 1 # 1 /\ (n + 1) - 1 = n OBVIOUS
<1>6. f[n + 1] = Join(f[(n + 1) - 1], s[n + 1]) BY <1>1, <1>5, UnfoldingAt
<1>7. QED BY <1>4, <1>5, <1>6

LEMMA FlattenIsLast ==
    ASSUME NEW n \in Nat \ {0}, NEW s, Len(s) = n
    PROVE  \E f : Unfolds(s, n, f) /\ FlattenSeq(s) = f[n]
<1> DEFINE F == CHOOSE f : f = [i \in 1..n |-> IF i = 1 THEN s[i] ELSE f[i - 1] \o s[i]]
<1>1. FlattenSeq(s) = F[n] BY DEF FlattenSeq, Join
<1>2. Unfolds(s, n, F) BY UnfoldingExists DEF Unfolds, Join
<1>3. QED BY <1>1, <1>2

LEMMA FlattenOne == ASSUME NEW s, Len(s) = 1 PROVE FlattenSeq(s) = s[1]
<1>1. PICK n \in Nat \ {0} : n = 1 OBVIOUS
<1>2. PICK f : Unfolds(s, n, f) /\ FlattenSeq(s) = f[n] BY <1>1, FlattenIsLast
<1>3. QED BY <1>1, <1>2, UnfoldingAt

LEMMA FlattenGrows ==
    ASSUME NEW s, NEW t, NEW n \in Nat, n # 0, Len(s) = n + 1, Len(t) = n,
           \A i \in 1..n : t[i] = s[i]
    PROVE  FlattenSeq(s) = Join(FlattenSeq(t), s[n + 1])
<1>1. PICK f : Unfolds(s, n + 1, f) /\ FlattenSeq(s) = f[n + 1] BY FlattenIsLast
<1>2. PICK g : Unfolds(t, n, g) /\ FlattenSeq(t) = g[n] BY FlattenIsLast
<1>3. f[n + 1] = Join(g[n], s[n + 1]) BY <1>1, <1>2, UnfoldingGrows
<1>4. QED BY <1>1, <1>2, <1>3

-----------------------------------------------------------------------------
(* FlattenSeq of no parts, of one part more, and of a longer last part.    *)
LEMMA FlattenNone == ASSUME NEW S, NEW s \in [1..0 -> S] PROVE FlattenSeq(s) = <<>>
BY DEF FlattenSeq

LEMMA FlattenOneMore ==
    ASSUME NEW S, NEW n \in Nat, NEW s \in [1..(n + 1) -> Seq(S)], NEW t \in [1..n -> Seq(S)],
           \A i \in 1..n : t[i] = s[i]
    PROVE  FlattenSeq(s) = FlattenSeq(t) \o s[n + 1]
<1>0. Len(s) = n + 1 /\ Len(t) = n OBVIOUS
<1>1. CASE n = 0
  <2>1. FlattenSeq(t) = <<>> BY <1>0, <1>1 DEF FlattenSeq
  <2>2. FlattenSeq(s) = s[1] BY <1>0, <1>1, FlattenOne
  <2>3. QED BY <1>1, <2>1, <2>2
<1>2. CASE n # 0
  <2>1. FlattenSeq(s) = Join(FlattenSeq(t), s[n + 1]) BY <1>0, <1>2, FlattenGrows
  <2>2. QED BY <2>1 DEF Join
<1>3. QED BY <1>1, <1>2

LEMMA FlattenType ==
    ASSUME NEW S, NEW n \in Nat, NEW s \in [1..n -> Seq(S)]
    PROVE  FlattenSeq(s) \in Seq(S)
<1> DEFINE T == {k \in Nat : \A t \in [1..k -> Seq(S)] : FlattenSeq(t) \in Seq(S)}
<1>1. 0 \in T BY DEF FlattenSeq
<1>2. ASSUME NEW k \in Nat, k \in T PROVE k + 1 \in T
  <2> SUFFICES ASSUME NEW t \in [1..(k + 1) -> Seq(S)] PROVE FlattenSeq(t) \in Seq(S) OBVIOUS
  <2>1. PICK u \in [1..k -> Seq(S)] : \A i \in 1..k : u[i] = t[i]
    <3>1. [i \in 1..k |-> t[i]] \in [1..k -> Seq(S)] OBVIOUS
    <3>2. QED BY <3>1
  <2>2. FlattenSeq(t) = FlattenSeq(u) \o t[k + 1] BY <2>1, FlattenOneMore
  <2>3. FlattenSeq(u) \in Seq(S) BY <1>2
  <2>4. t[k + 1] \in Seq(S) OBVIOUS
  <2>5. QED BY <2>2, <2>3, <2>4
<1>3. QED
  <2> HIDE DEF T
  <2>1. Nat \subseteq T BY <1>1, <1>2, SetInduction
  <2>2. QED BY <2>1 DEF T

LEMMA ConcatAppend ==
    ASSUME NEW S, NEW a \in Seq(S), NEW b \in Seq(S), NEW e \in S
    PROVE  a \o Append(b, e) = Append(a \o b, e)
OBVIOUS

(* Of n sequences over S, t has e after the last one of s and is s else.   *)
LongerLast(S, n, s, t, e) ==
    /\ n \in Nat \ {0} /\ e \in S
    /\ s \in [1..n -> Seq(S)] /\ t \in [1..n -> Seq(S)]
    /\ \A i \in 1..(n - 1) : t[i] = s[i]
    /\ t[n] = Append(s[n], e)

LEMMA FlattenLongerLast ==
    ASSUME NEW S, NEW n, NEW s, NEW t, NEW e, LongerLast(S, n, s, t, e)
    PROVE  FlattenSeq(t) = Append(FlattenSeq(s), e)
<1>n. /\ n \in Nat \ {0} /\ e \in S
      /\ s \in [1..n -> Seq(S)] /\ t \in [1..n -> Seq(S)]
      /\ \A i \in 1..(n - 1) : t[i] = s[i]
      /\ t[n] = Append(s[n], e)
  BY DEF LongerLast
<1>1. PICK m \in Nat : n = m + 1
  <2>1. n - 1 \in Nat /\ n = (n - 1) + 1 BY <1>n
  <2>2. QED BY <2>1
<1>2. PICK u \in [1..m -> Seq(S)] : \A i \in 1..m : u[i] = s[i]
  <2>1. [i \in 1..m |-> s[i]] \in [1..m -> Seq(S)] BY <1>n, <1>1
  <2>2. QED BY <2>1
<1>a. s \in [1..(m + 1) -> Seq(S)] /\ t \in [1..(m + 1) -> Seq(S)] BY <1>n, <1>1
<1>b. \A i \in 1..m : u[i] = t[i] BY <1>n, <1>1, <1>2
<1>3. FlattenSeq(s) = FlattenSeq(u) \o s[m + 1] BY <1>2, <1>a, FlattenOneMore
<1>4. FlattenSeq(t) = FlattenSeq(u) \o t[m + 1] BY <1>a, <1>b, FlattenOneMore
<1>5. FlattenSeq(u) \in Seq(S) /\ s[n] \in Seq(S) BY <1>n, <1>2, FlattenType
<1>6. s[m + 1] = s[n] /\ t[m + 1] = Append(s[n], e) BY <1>n, <1>1
<1>7. FlattenSeq(u) \o Append(s[n], e) = Append(FlattenSeq(u) \o s[n], e)
  BY <1>n, <1>5, ConcatAppend
<1>8. FlattenSeq(t) = FlattenSeq(u) \o Append(s[n], e) BY <1>4, <1>6
<1>9. FlattenSeq(s) = FlattenSeq(u) \o s[n] BY <1>3, <1>6
<1>10. QED BY <1>7, <1>8, <1>9

-----------------------------------------------------------------------------
(* A sequence with one element more: its last one, its elements, and when  *)
(* it has none twice.                                                      *)
LEMMA LastOfAppend ==
    ASSUME NEW S, NEW s \in Seq(S), NEW e \in S
    PROVE  Last(Append(s, e)) = e /\ Append(s, e) # <<>> /\ Len(Append(s, e)) = Len(s) + 1
BY DEF Last

LEMMA LastInSet ==
    ASSUME NEW S, NEW s \in Seq(S), s # <<>>
    PROVE  Last(s) \in S /\ Last(s) \in ToSet(s) /\ Last(s) = s[Len(s)] /\ Len(s) > 0
BY DEF Last, ToSet

LEMMA SetOfAppend ==
    ASSUME NEW S, NEW s \in Seq(S), NEW e \in S
    PROVE  ToSet(Append(s, e)) = ToSet(s) \cup {e}
<1>1. \A i \in DOMAIN s : i \in DOMAIN Append(s, e) /\ Append(s, e)[i] = s[i] OBVIOUS
<1>2. Len(s) + 1 \in DOMAIN Append(s, e) /\ Append(s, e)[Len(s) + 1] = e OBVIOUS
<1>3. \A i \in DOMAIN Append(s, e) : i = Len(s) + 1 \/ i \in DOMAIN s OBVIOUS
<1>4. QED BY <1>1, <1>2, <1>3 DEF ToSet

LEMMA InjectiveAppend ==
    ASSUME NEW S, NEW s \in Seq(S), NEW e \in S, IsInjective(s), e \notin ToSet(s)
    PROVE  IsInjective(Append(s, e))
<1>1. \A i \in DOMAIN s : Append(s, e)[i] = s[i] /\ s[i] # e BY DEF ToSet
<1>2. \A i \in DOMAIN Append(s, e) : i = Len(s) + 1 \/ i \in DOMAIN s OBVIOUS
<1>3. Append(s, e)[Len(s) + 1] = e OBVIOUS
<1>4. QED BY <1>1, <1>2, <1>3 DEF IsInjective

LEMMA SetOfPrefixed ==
    ASSUME NEW S, NEW s \in Seq(S), NEW e \in S
    PROVE  ToSet(<<e>> \o s) = {e} \cup ToSet(s)
<1>1. <<e>> \o s \in Seq(S) /\ Len(<<e>> \o s) = Len(s) + 1 /\ Len(s) \in Nat OBVIOUS
<1>2. (<<e>> \o s)[1] = e OBVIOUS
<1>3. \A i \in 1..Len(s) : (<<e>> \o s)[i + 1] = s[i] OBVIOUS
<1>4. \A i \in 1..(Len(s) + 1) : i = 1 \/ (i - 1 \in 1..Len(s) /\ i = (i - 1) + 1) BY <1>1
<1>5. DOMAIN (<<e>> \o s) = 1..(Len(s) + 1) /\ DOMAIN s = 1..Len(s) BY <1>1
<1>6. \A i \in DOMAIN (<<e>> \o s) : (<<e>> \o s)[i] \in {e} \cup {s[j] : j \in DOMAIN s}
  BY <1>2, <1>3, <1>4, <1>5
<1>7. \A i \in DOMAIN s : s[i] \in {(<<e>> \o s)[j] : j \in DOMAIN (<<e>> \o s)}
  <2> TAKE i \in DOMAIN s
  <2>1. PICK j : j = i + 1 OBVIOUS
  <2>2. j \in DOMAIN (<<e>> \o s) /\ (<<e>> \o s)[j] = s[i] BY <1>1, <1>3, <1>5, <2>1
  <2>3. QED BY <2>2
<1>8. e \in {(<<e>> \o s)[j] : j \in DOMAIN (<<e>> \o s)} BY <1>1, <1>2, <1>5
<1>9. QED BY <1>6, <1>7, <1>8 DEF ToSet

LEMMA AppendPrefixed ==
    ASSUME NEW S, NEW s \in Seq(S), NEW t \in Seq(S), NEW e \in S
    PROVE  t \o Append(s, e) = Append(t \o s, e)
OBVIOUS

LEMMA HeadMoves ==
    ASSUME NEW S, NEW s \in Seq(S), NEW t \in Seq(S), t # <<>>
    PROVE  Append(s, Head(t)) \o Tail(t) = s \o t
OBVIOUS
=============================================================================
