--------------------------- MODULE SignedFileProofs ---------------------------
(***************************************************************************)
(* What a signature promises, for every file of every format, every          *)
(* request and every sequence of commands and edits: a file that verifies    *)
(* has a content somebody signed, the status a reader is told is true, and   *)
(* no command changes the content.                                           *)
(***************************************************************************)
EXTENDS SignedFile, FiniteSetTheorems, SequenceTheorems, NaturalsInduction, TLAPS

-----------------------------------------------------------------------------
(* Numbers and sequences.  Induction is by the least number that would be a   *)
(* counterexample.                                                            *)

LEMMA LeastElement ==
    ASSUME NEW T, T \subseteq Nat, T # {}
    PROVE  \E x \in T : \A y \in T : x <= y
<1>1. PICK x \in T : \A y \in T : <<y, x>> \notin OpToRel(<, Nat)
  BY WFMin, NatLessThanWellFounded
<1>2. \A y \in T : ~(y < x)
  BY <1>1 DEF OpToRel
<1> QED
  BY <1>2

(* Induction up to n, for the numbers that a set holds.                       *)
LEMMA CountUp ==
    ASSUME NEW n \in Nat, NEW G, 0 \in G, \A k \in 1..n : k - 1 \in G => k \in G
    PROVE  \A k \in 0..n : k \in G
<1> DEFINE Bad == {k \in 0..n : k \notin G}
<1> SUFFICES ASSUME Bad # {} PROVE FALSE
  OBVIOUS
<1>1. PICK k \in Bad : \A j \in Bad : k <= j
  <2>1. Bad \subseteq Nat
    OBVIOUS
  <2> QED
    BY <2>1, LeastElement
<1>2. k \in 1..n /\ k - 1 \in 0..n
  BY <1>1
<1>3. k - 1 \in G
  <2>1. ~(k <= k - 1)
    BY <1>2
  <2>2. k - 1 \notin Bad
    <3> HIDE DEF Bad
    <3> QED
      BY <1>1, <2>1
  <2> QED
    BY <1>2, <2>2
<1> QED
  BY <1>1, <1>2, <1>3

(* A function defined by recursion over an interval is there.                 *)
LEMMA Recursion ==
    ASSUME NEW X, NEW base \in X, NEW n \in Nat, NEW g \in [1..n -> [X -> X]]
    PROVE  \E f \in [0..n -> X] : f[0] = base /\ \A i \in 1..n : f[i] = g[i][f[i - 1]]
<1> DEFINE Good(k, f) == f[0] = base /\ \A i \in 1..k : f[i] = g[i][f[i - 1]]
           G == {k \in 0..n : \E f \in [0..k -> X] : Good(k, f)}
<1>1. 0 \in G
  <2> DEFINE h == [i \in 0..0 |-> base]
  <2>1. h \in [0..0 -> X] /\ Good(0, h)
    OBVIOUS
  <2> HIDE DEF h, Good
  <2>2. 0 \in 0..n /\ \E f \in [0..0 -> X] : Good(0, f)
    BY <2>1
  <2> QED
    BY <2>2
<1>2. ASSUME NEW k \in 1..n, k - 1 \in G PROVE k \in G
  <2>1. PICK f \in [0..(k - 1) -> X] : Good(k - 1, f)
    BY <1>2
  <2> DEFINE h == [i \in 0..k |-> IF i = k THEN g[k][f[k - 1]] ELSE f[i]]
  <2>2. k - 1 \in 0..(k - 1) /\ \A i \in 0..k : i # k => i \in 0..(k - 1)
    OBVIOUS
  <2>3. g[k] \in [X -> X] /\ f[k - 1] \in X
    BY <2>2
  <2>4. h \in [0..k -> X]
    BY <2>2, <2>3
  <2>5. h[0] = base
    BY <2>1
  <2>6. ASSUME NEW i \in 1..k PROVE h[i] = g[i][h[i - 1]]
    <3>1. i - 1 \in 0..k /\ i - 1 # k /\ i \in 0..k
      OBVIOUS
    <3>2. h[i - 1] = f[i - 1]
      BY <3>1
    <3>3. CASE i = k
      BY <3>1, <3>2, <3>3
    <3>4. CASE i # k
      <4>1. i \in 1..(k - 1)
        BY <3>4
      <4>2. f[i] = g[i][f[i - 1]]
        BY <2>1, <4>1
      <4> QED
        BY <3>1, <3>2, <3>4, <4>2
    <3> QED
      BY <3>3, <3>4
  <2>7. Good(k, h)
    <3> HIDE DEF h
    <3> QED
      BY <2>5, <2>6
  <2> HIDE DEF h, Good
  <2>8. k \in 0..n /\ \E d \in [0..k -> X] : Good(k, d)
    BY <2>4, <2>7
  <2> QED
    BY <2>8
<1> HIDE DEF G
<1>3. n \in G
  <2>1. n \in 0..n
    OBVIOUS
  <2> QED
    BY <1>1, <1>2, <2>1, CountUp
<1> QED
  BY <1>3 DEF G

LEMMA SameRange ==
    ASSUME NEW a \in Nat, NEW b \in Nat, 1..a = 1..b
    PROVE  a = b
<1>1. ~(a < b)
  <2> SUFFICES ASSUME a < b PROVE FALSE
    OBVIOUS
  <2>1. b \in 1..b /\ b \notin 1..a
    OBVIOUS
  <2> QED
    BY <2>1
<1>2. ~(b < a)
  <2> SUFFICES ASSUME b < a PROVE FALSE
    OBVIOUS
  <2>1. a \in 1..a /\ a \notin 1..b
    OBVIOUS
  <2> QED
    BY <2>1
<1> QED
  BY <1>1, <1>2

(* Sequences, whatever they hold.                                             *)
LEMMA SeqOver ==
    ASSUME NEW S, NEW s \in Seq(S)
    PROVE  /\ IsSeq(s) /\ ToSet(s) \subseteq S /\ Len(s) \in Nat /\ DOMAIN s = 1..Len(s)
           /\ ToSet(s) = {s[i] : i \in 1..Len(s)}
<1>1. Len(s) \in Nat /\ DOMAIN s = 1..Len(s) /\ \A i \in 1..Len(s) : s[i] \in S
  OBVIOUS
<1>2. ToSet(s) = {s[i] : i \in 1..Len(s)} /\ ToSet(s) \subseteq S
  BY <1>1 DEF ToSet
<1>3. IsSeq(s)
  BY <1>1, <1>2 DEF IsSeq
<1> QED
  BY <1>1, <1>2, <1>3

LEMMA SeqFacts ==
    ASSUME NEW s, IsSeq(s)
    PROVE  /\ Len(s) \in Nat /\ DOMAIN s = 1..Len(s)
           /\ ToSet(s) = {s[i] : i \in 1..Len(s)}
           /\ \A i \in 1..Len(s) : s[i] \in ToSet(s)
           /\ \A S : ToSet(s) \subseteq S => s \in Seq(S)
           /\ s = <<>> <=> Len(s) = 0
<1> DEFINE S == ToSet(s)
<1>1. s \in Seq(S)
  BY DEF IsSeq
<1>2. Len(s) \in Nat /\ DOMAIN s = 1..Len(s) /\ (s = <<>> <=> Len(s) = 0)
  <2> HIDE DEF S
  <2> QED
    BY <1>1
<1>3. ToSet(s) = {s[i] : i \in 1..Len(s)} /\ \A i \in 1..Len(s) : s[i] \in ToSet(s)
  BY <1>2 DEF ToSet
<1>4. ASSUME NEW T, ToSet(s) \subseteq T PROVE s \in Seq(T)
  BY <1>1, <1>4, SeqMonotonic
<1> QED
  BY <1>2, <1>3, <1>4

LEMMA SameSeq ==
    ASSUME NEW s, NEW t, IsSeq(s), IsSeq(t), Len(s) = Len(t),
           \A i \in 1..Len(s) : s[i] = t[i]
    PROVE  s = t
<1> DEFINE S == ToSet(s) \cup ToSet(t)
<1>1. s \in Seq(S) /\ t \in Seq(S)
  BY SeqFacts
<1> HIDE DEF S
<1> QED
  BY <1>1, SeqEqual

LEMMA Empty == IsSeq(<<>>) /\ Len(<<>>) = 0 /\ ToSet(<<>>) = {}
<1> DEFINE s == <<>>
           S == {}
<1>1. s \in Seq(S) /\ Len(s) = 0
  OBVIOUS
<1> HIDE DEF s, S
<1>2. IsSeq(s) /\ ToSet(s) \subseteq S
  BY <1>1, SeqOver
<1> QED
  BY <1>1, <1>2 DEF s, S

LEMMA Single ==
    ASSUME NEW x
    PROVE  IsSeq(<<x>>) /\ Len(<<x>>) = 1 /\ <<x>>[1] = x /\ ToSet(<<x>>) = {x} /\ <<x>> # <<>>
<1> DEFINE s == <<x>>
<1>1. s \in Seq({x}) /\ Len(s) = 1 /\ s[1] = x
  OBVIOUS
<1> HIDE DEF s
<1>2. IsSeq(s) /\ ToSet(s) = {s[i] : i \in 1..Len(s)} /\ (s = <<>> <=> Len(s) = 0)
  BY <1>1, SeqOver, SeqFacts
<1>3. ToSet(s) = {x}
  <2>1. 1..Len(s) = {1}
    BY <1>1
  <2> QED
    BY <1>1, <1>2, <2>1
<1>4. IsSeq(s) /\ Len(s) = 1 /\ s[1] = x /\ ToSet(s) = {x} /\ s # <<>>
  BY <1>1, <1>2, <1>3
<1> QED
  BY <1>4 DEF s

(* The cells of one sequence behind those of another.                         *)
LEMMA Joined ==
    ASSUME NEW s, NEW t, IsSeq(s), IsSeq(t)
    PROVE  /\ IsSeq(s \o t) /\ Len(s \o t) = Len(s) + Len(t)
           /\ \A i \in 1..Len(s) : (s \o t)[i] = s[i]
           /\ \A i \in 1..Len(t) : (s \o t)[Len(s) + i] = t[i]
           /\ \A i \in (Len(s) + 1)..(Len(s) + Len(t)) : (s \o t)[i] = t[i - Len(s)]
           /\ ToSet(s \o t) = ToSet(s) \cup ToSet(t)
<1> DEFINE S == ToSet(s) \cup ToSet(t)
           u == s \o t
<1>1. s \in Seq(S) /\ t \in Seq(S) /\ Len(s) \in Nat /\ Len(t) \in Nat
  BY SeqFacts
<1>2. ToSet(s) = {s[i] : i \in 1..Len(s)} /\ ToSet(t) = {t[i] : i \in 1..Len(t)}
  BY SeqFacts
<1>3. /\ u \in Seq(S) /\ Len(u) = Len(s) + Len(t)
      /\ \A i \in 1..(Len(s) + Len(t)) : u[i] = IF i <= Len(s) THEN s[i] ELSE t[i - Len(s)]
  <2> HIDE DEF S
  <2> QED
    BY <1>1, ConcatProperties
<1> HIDE DEF u
<1>4. IsSeq(u) /\ ToSet(u) = {u[i] : i \in 1..Len(u)} /\ ToSet(u) \subseteq S
  BY <1>3, SeqOver
<1>5. /\ \A i \in 1..Len(s) : u[i] = s[i]
      /\ \A i \in 1..Len(t) : u[Len(s) + i] = t[i]
      /\ \A i \in (Len(s) + 1)..(Len(s) + Len(t)) : u[i] = t[i - Len(s)]
  <2>1. ASSUME NEW i \in 1..Len(t) PROVE u[Len(s) + i] = t[i]
    <3>1. Len(s) + i \in 1..(Len(s) + Len(t)) /\ ~(Len(s) + i <= Len(s)) /\ (Len(s) + i) - Len(s) = i
      BY <1>1
    <3> QED
      BY <1>3, <3>1
  <2> QED
    BY <1>1, <1>3, <2>1
<1>6. ToSet(s) \subseteq ToSet(u)
  <2>1. \A i \in 1..Len(s) : i \in 1..Len(u) /\ u[i] = s[i]
    BY <1>1, <1>3, <1>5
  <2> QED
    BY <1>2, <1>4, <2>1
<1>7. ToSet(t) \subseteq ToSet(u)
  <2>1. \A i \in 1..Len(t) : Len(s) + i \in 1..Len(u) /\ u[Len(s) + i] = t[i]
    BY <1>1, <1>3, <1>5
  <2> QED
    BY <1>2, <1>4, <2>1
<1> QED
  BY <1>3, <1>4, <1>5, <1>6, <1>7 DEF u

(* A part of a sequence.                                                      *)
LEMMA Cut ==
    ASSUME NEW s, IsSeq(s), NEW a \in 1..(Len(s) + 1), NEW b \in (a - 1)..Len(s)
    PROVE  /\ IsSeq(SubSeq(s, a, b)) /\ Len(SubSeq(s, a, b)) = b - a + 1
           /\ \A i \in 1..(b - a + 1) : SubSeq(s, a, b)[i] = s[a + i - 1]
           /\ \A i \in a..b : SubSeq(s, a, b)[i - a + 1] = s[i]
           /\ ToSet(SubSeq(s, a, b)) = {s[i] : i \in a..b}
           /\ ToSet(SubSeq(s, a, b)) \subseteq ToSet(s)
<1> DEFINE S == ToSet(s)
           u == SubSeq(s, a, b)
<1>1. Len(s) \in Nat /\ \A i \in 1..Len(s) : s[i] \in S
  BY SeqFacts
<1>2. a \in Int /\ b \in Int /\ \A i \in a..b : s[i] \in S
  BY <1>1
<1>3. /\ u \in Seq(S) /\ Len(u) = (IF a <= b THEN b - a + 1 ELSE 0)
      /\ \A i \in 1..(b - a + 1) : u[i] = s[a + i - 1]
  <2> HIDE DEF S
  <2> QED
    BY <1>2, SubSeqProperties
<1>4. Len(u) = b - a + 1
  BY <1>1, <1>3
<1> HIDE DEF u
<1>5. \A i \in a..b : u[i - a + 1] = s[i]
  <2>1. ASSUME NEW i \in a..b PROVE u[i - a + 1] = s[i]
    <3>1. i - a + 1 \in 1..(b - a + 1) /\ a + (i - a + 1) - 1 = i
      BY <1>2
    <3> QED
      BY <1>3, <3>1
  <2> QED
    BY <2>1
<1>6. IsSeq(u) /\ ToSet(u) = {u[i] : i \in 1..Len(u)} /\ ToSet(u) \subseteq S
  BY <1>3, SeqOver
<1>7. ToSet(u) \subseteq {s[i] : i \in a..b}
  <2>1. \A i \in 1..Len(u) : a + i - 1 \in a..b
    BY <1>2, <1>4
  <2> QED
    BY <1>3, <1>4, <1>6, <2>1
<1>8. {s[i] : i \in a..b} \subseteq ToSet(u)
  <2>1. \A i \in a..b : i - a + 1 \in 1..Len(u)
    BY <1>2, <1>4
  <2> QED
    BY <1>5, <1>6, <2>1
<1> QED
  BY <1>3, <1>4, <1>5, <1>6, <1>7, <1>8 DEF u

(* A cut of a sequence that two others make up.                               *)
LEMMA Halves ==
    ASSUME NEW s, IsSeq(s), NEW k \in 0..Len(s)
    PROVE  s = SubSeq(s, 1, k) \o SubSeq(s, k + 1, Len(s))
<1> DEFINE a == SubSeq(s, 1, k)
           b == SubSeq(s, k + 1, Len(s))
<1>0. Len(s) \in Nat
  BY SeqFacts
<1>1. /\ IsSeq(a) /\ Len(a) = k /\ \A i \in 1..k : a[i] = s[i]
  <2>1. 1 \in 1..(Len(s) + 1) /\ k \in (1 - 1)..Len(s)
    BY <1>0
  <2> QED
    BY <2>1, Cut
<1>2. /\ IsSeq(b) /\ Len(b) = Len(s) - k /\ \A i \in (k + 1)..Len(s) : b[i - k] = s[i]
  <2>1. k + 1 \in 1..(Len(s) + 1) /\ Len(s) \in ((k + 1) - 1)..Len(s)
    BY <1>0
  <2>2. /\ IsSeq(b) /\ Len(b) = Len(s) - (k + 1) + 1
        /\ \A i \in (k + 1)..Len(s) : b[i - (k + 1) + 1] = s[i]
    BY <2>1, Cut
  <2>3. ASSUME NEW i \in (k + 1)..Len(s) PROVE b[i - k] = s[i]
    <3>1. i - (k + 1) + 1 = i - k
      BY <1>0
    <3> QED
      BY <2>2, <3>1
  <2> QED
    BY <1>0, <2>2, <2>3
<1> HIDE DEF a, b
<1>3. /\ IsSeq(a \o b) /\ Len(a \o b) = Len(s)
      /\ \A i \in 1..k : (a \o b)[i] = s[i]
      /\ \A i \in (k + 1)..Len(s) : (a \o b)[i] = s[i]
  <2>1. k + (Len(s) - k) = Len(s)
    BY <1>0
  <2>2. /\ IsSeq(a \o b) /\ Len(a \o b) = Len(a) + Len(b)
        /\ \A i \in 1..Len(a) : (a \o b)[i] = a[i]
        /\ \A i \in (Len(a) + 1)..(Len(a) + Len(b)) : (a \o b)[i] = b[i - Len(a)]
    BY <1>1, <1>2, Joined
  <2> QED
    BY <1>1, <1>2, <2>1, <2>2
<1>4. \A i \in 1..Len(s) : i \in 1..k \/ i \in (k + 1)..Len(s)
  BY <1>0
<1>5. a \o b = s
  BY <1>3, <1>4, SameSeq
<1> QED
  BY <1>5 DEF a, b
-----------------------------------------------------------------------------
(* What Only takes of a sequence.                                             *)

(* One element after the other.                                               *)
LEMMA OnlySteps ==
    ASSUME NEW S, NEW s \in Seq(S), NEW T
    PROVE  \E left : /\ Only(s, T) = left[Len(s)]
                     /\ left[0] = <<>>
                     /\ \A i \in 1..Len(s) :
                           left[i] = IF s[i] \in T THEN Append(left[i - 1], s[i]) ELSE left[i - 1]
<1> DEFINE n == Len(s)
           X == Seq(S)
           Body(f) == [i \in 0..n |-> IF i = 0 THEN <<>>
                                      ELSE IF s[i] \in T THEN Append(f[i - 1], s[i]) ELSE f[i - 1]]
           g == [i \in 1..n |-> [x \in X |-> IF s[i] \in T THEN Append(x, s[i]) ELSE x]]
           chosen == CHOOSE f : f = Body(f)
<1>1. n \in Nat /\ \A i \in 1..n : s[i] \in S
  OBVIOUS
<1>2. <<>> \in X /\ g \in [1..n -> [X -> X]]
  BY <1>1
<1>3. PICK f \in [0..n -> X] : f[0] = <<>> /\ \A i \in 1..n : f[i] = g[i][f[i - 1]]
  <2> DEFINE empty == <<>>
  <2>1. n \in Nat /\ empty \in X /\ g \in [1..n -> [X -> X]]
    BY <1>1, <1>2
  <2> HIDE DEF X, g, n, empty, Body, chosen
  <2>2. \E f \in [0..n -> X] : f[0] = empty /\ \A i \in 1..n : f[i] = g[i][f[i - 1]]
    BY <2>1, Recursion, SMTT(60)
  <2> QED
    BY <2>2 DEF empty
<1>4. f = Body(f)
  <2>1. ASSUME NEW i \in 0..n
        PROVE  f[i] = IF i = 0 THEN <<>>
                      ELSE IF s[i] \in T THEN Append(f[i - 1], s[i]) ELSE f[i - 1]
    <3>1. CASE i = 0
      BY <1>3, <3>1
    <3>2. CASE i # 0
      <4>1. i \in 1..n /\ i - 1 \in 0..n
        BY <1>1, <3>2
      <4>2. f[i - 1] \in X
        BY <4>1
      <4> QED
        BY <1>3, <3>2, <4>1, <4>2
    <3> QED
      BY <3>1, <3>2
  <2> QED
    BY <2>1
<1>5. chosen = Body(chosen)
  <2> HIDE DEF Body
  <2> QED
    BY <1>4
<1>6. Only(s, T) = chosen[n]
  BY DEF Only
<1>7. \A i \in 0..n : chosen[i] = IF i = 0 THEN <<>>
                      ELSE IF s[i] \in T THEN Append(chosen[i - 1], s[i]) ELSE chosen[i - 1]
  <2>1. \A i \in 0..n : Body(chosen)[i] = IF i = 0 THEN <<>>
                      ELSE IF s[i] \in T THEN Append(chosen[i - 1], s[i]) ELSE chosen[i - 1]
    <3> HIDE DEF chosen
    <3> QED
      OBVIOUS
  <2> HIDE DEF Body, chosen
  <2> QED
    BY <1>5, <2>1
<1> HIDE DEF chosen
<1>8. /\ chosen[0] = <<>>
      /\ \A i \in 1..n : chosen[i] = IF s[i] \in T THEN Append(chosen[i - 1], s[i])
                                                  ELSE chosen[i - 1]
  BY <1>1, <1>7
<1> QED
  BY <1>6, <1>8

(* Of a sequence with one more element.                                       *)
LEMMA OnlyAppend ==
    ASSUME NEW s, NEW x, NEW T, IsSeq(s)
    PROVE  Only(s \o <<x>>, T) = Only(s, T) \o (IF x \in T THEN <<x>> ELSE <<>>)
           /\ IsSeq(Only(s, T))
           /\ ToSet(Only(s, T)) \subseteq ToSet(s) \cap T
<1> DEFINE S == ToSet(s) \cup {x}
           u == s \o <<x>>
           n == Len(s)
           U == ToSet(s) \cap T
<1>0. n \in Nat /\ \A i \in 1..n : s[i] \in ToSet(s)
  BY SeqFacts
<1>1. s \in Seq(S) /\ u \in Seq(S)
  <2>1. IsSeq(u) /\ ToSet(u) = S
    BY Joined, Single
  <2> QED
    BY <2>1, SeqFacts
<1>2. Len(u) = n + 1 /\ (\A i \in 1..n : u[i] = s[i]) /\ u[n + 1] = x
  <2>1. 1 \in 1..Len(<<x>>)
    BY Single
  <2> QED
    BY <2>1, Joined, Single
<1> HIDE DEF u, S
<1>3. PICK f : /\ Only(s, T) = f[n] /\ f[0] = <<>>
               /\ \A i \in 1..n : f[i] = IF s[i] \in T THEN Append(f[i - 1], s[i]) ELSE f[i - 1]
  BY <1>1, OnlySteps
<1>4. PICK g : /\ Only(u, T) = g[n + 1] /\ g[0] = <<>>
               /\ \A i \in 1..(n + 1) : g[i] = IF u[i] \in T THEN Append(g[i - 1], u[i]) ELSE g[i - 1]
  <2>1. \E g : /\ Only(u, T) = g[Len(u)] /\ g[0] = <<>>
               /\ \A i \in 1..Len(u) : g[i] = IF u[i] \in T THEN Append(g[i - 1], u[i]) ELSE g[i - 1]
    BY <1>1, OnlySteps
  <2> QED
    BY <1>2, <2>1
<1> HIDE DEF n
<1>5. \A k \in 0..n : k \in {i \in 0..n : f[i] = g[i] /\ f[i] \in Seq(U)}
  <2> DEFINE G == {i \in 0..n : f[i] = g[i] /\ f[i] \in Seq(U)}
  <2>1. 0 \in G
    <3>1. 0 \in 0..n /\ <<>> \in Seq(U)
      BY <1>0
    <3>2. f[0] = g[0] /\ f[0] \in Seq(U)
      BY <1>3, <1>4, <3>1
    <3> HIDE DEF U
    <3> QED
      BY <3>1, <3>2
  <2>2. ASSUME NEW k \in 1..n, k - 1 \in G PROVE k \in G
    <3>1. k \in 1..(n + 1) /\ k \in 0..n /\ u[k] = s[k] /\ s[k] \in ToSet(s)
      BY <1>0, <1>2
    <3>2. /\ f[k] = IF s[k] \in T THEN Append(f[k - 1], s[k]) ELSE f[k - 1]
          /\ g[k] = IF s[k] \in T THEN Append(g[k - 1], s[k]) ELSE g[k - 1]
      BY <1>3, <1>4, <3>1
    <3>3. f[k - 1] = g[k - 1] /\ f[k - 1] \in Seq(U)
      BY <2>2
    <3>4. f[k] \in Seq(U)
      BY <3>1, <3>2, <3>3
    <3> QED
      BY <3>1, <3>2, <3>3, <3>4
  <2> HIDE DEF G
  <2>3. \A k \in 0..n : k \in G
    BY <1>0, <2>1, <2>2, CountUp
  <2> QED
    BY <2>3 DEF G
<1>6. n \in 0..n /\ f[n] = g[n] /\ f[n] \in Seq(U)
  BY <1>0, <1>5
<1>7. Only(u, T) = IF x \in T THEN Append(f[n], x) ELSE f[n]
  <2>1. n + 1 \in 1..(n + 1) /\ (n + 1) - 1 = n
    BY <1>0
  <2> QED
    BY <1>2, <1>4, <1>6, <2>1
<1>8. Only(u, T) = Only(s, T) \o (IF x \in T THEN <<x>> ELSE <<>>)
  <2>1. f[n] \in Seq(U \cup {x}) /\ x \in U \cup {x}
    BY <1>6, SeqMonotonic
  <2> DEFINE V == U \cup {x}
  <2> HIDE DEF V
  <2>2. Append(f[n], x) = f[n] \o <<x>> /\ f[n] \o <<>> = f[n]
    <3>1. f[n] \in Seq(V) /\ x \in V
      BY <2>1 DEF V
    <3> QED
      BY <3>1, AppendIsConcat, ConcatEmptySeq
  <2> QED
    BY <1>3, <1>7, <2>2
<1> QED
  BY <1>3, <1>6, <1>8, SeqOver DEF u

(* A sequence as its prefixes make it.                                        *)
LEMMA PrefixFacts ==
    ASSUME NEW s, IsSeq(s)
    PROVE  /\ SubSeq(s, 1, 0) = <<>> /\ SubSeq(s, 1, Len(s)) = s
           /\ \A k \in 0..Len(s) : IsSeq(SubSeq(s, 1, k)) /\ ToSet(SubSeq(s, 1, k)) \subseteq ToSet(s)
           /\ \A k \in 1..Len(s) : SubSeq(s, 1, k) = SubSeq(s, 1, k - 1) \o <<s[k]>>
<1> DEFINE S == ToSet(s)
<1>0. s \in Seq(S) /\ Len(s) \in Nat
  BY SeqFacts
<1>1. ASSUME NEW k \in 0..Len(s)
      PROVE IsSeq(SubSeq(s, 1, k)) /\ ToSet(SubSeq(s, 1, k)) \subseteq ToSet(s)
  <2>1. 1 \in 1..(Len(s) + 1) /\ k \in (1 - 1)..Len(s)
    BY <1>0
  <2> QED
    BY <2>1, Cut
<1> HIDE DEF S
<1>2. SubSeq(s, 1, 0) = <<>> /\ SubSeq(s, 1, Len(s)) = s
  BY <1>0, SubSeqFull, SubSeqEmpty
<1>3. ASSUME NEW k \in 1..Len(s)
      PROVE SubSeq(s, 1, k) = SubSeq(s, 1, k - 1) \o <<s[k]>>
  <2>1. 1 \in 1..Len(s) /\ k \in 1..Len(s)
    BY <1>0
  <2> QED
    BY <1>0, <2>1, SubSeqRecursiveSecond
<1>4. \A k \in 0..Len(s) : IsSeq(SubSeq(s, 1, k)) /\ ToSet(SubSeq(s, 1, k)) \subseteq ToSet(s)
  BY <1>1
<1>5. \A k \in 1..Len(s) : SubSeq(s, 1, k) = SubSeq(s, 1, k - 1) \o <<s[k]>>
  BY <1>3
<1> QED
  BY <1>2, <1>4, <1>5, Zenon

LEMMA NothingAround ==
    ASSUME NEW s, IsSeq(s)
    PROVE  s \o <<>> = s /\ <<>> \o s = s
<1>1. s \in Seq(ToSet(s))
  BY DEF IsSeq
<1> QED
  BY <1>1, ConcatEmptySeq

LEMMA Associative ==
    ASSUME NEW s, NEW t, NEW u, IsSeq(s), IsSeq(t), IsSeq(u)
    PROVE  (s \o t) \o u = s \o (t \o u)
<1> DEFINE S == ToSet(s) \cup ToSet(t) \cup ToSet(u)
<1>1. s \in Seq(S) /\ t \in Seq(S) /\ u \in Seq(S)
  BY SeqFacts
<1> HIDE DEF S
<1> QED
  BY <1>1, ConcatAssociative

LEMMA OnlyOfEmpty ==
    ASSUME NEW s, NEW T, IsSeq(s)
    PROVE  Len(s) = 0 => Only(s, T) = <<>>
<1> DEFINE S == ToSet(s)
<1>1. s \in Seq(S)
  BY DEF IsSeq
<1> HIDE DEF S
<1>2. PICK left : /\ Only(s, T) = left[Len(s)] /\ left[0] = <<>>
                  /\ \A i \in 1..Len(s) :
                        left[i] = IF s[i] \in T THEN Append(left[i - 1], s[i]) ELSE left[i - 1]
  BY <1>1, OnlySteps
<1> QED
  BY <1>2

LEMMA OnlyOfNone == \A T : Only(<<>>, T) = <<>>
BY Empty, OnlyOfEmpty, Zenon

LEMMA OnlyOfOne ==
    ASSUME NEW x, NEW T
    PROVE  Only(<<x>>, T) = IF x \in T THEN <<x>> ELSE <<>>
<1> DEFINE e == <<>>
           one == <<x>>
           u == IF x \in T THEN one ELSE e
<1>1. IsSeq(e) /\ IsSeq(one) /\ IsSeq(u) /\ Only(e, T) = e
  BY Empty, Single, OnlyOfNone
<1>2. Only(e \o one, T) = Only(e, T) \o u
  <2>1. ASSUME NEW s, IsSeq(s)
        PROVE  Only(s \o <<x>>, T) = Only(s, T) \o (IF x \in T THEN <<x>> ELSE <<>>)
    BY <2>1, OnlyAppend
  <2> QED
    BY <1>1, <2>1, Zenon
<1> HIDE DEF one, u
<1>3. e \o one = one /\ e \o u = u
  BY <1>1, NothingAround
<1> HIDE DEF e
<1>4. Only(one, T) = u
  BY <1>1, <1>2, <1>3
<1> QED
  BY <1>4 DEF u, one, e

(* Only of a concatenation.                                                   *)
LEMMA OnlyMore ==
    ASSUME NEW s, NEW q, NEW x, NEW T, IsSeq(s), IsSeq(q),
           Only(s \o q, T) = Only(s, T) \o Only(q, T)
    PROVE  Only(s \o (q \o <<x>>), T) = Only(s, T) \o Only(q \o <<x>>, T)
<1> DEFINE one == <<x>>
           more == IF x \in T THEN <<x>> ELSE <<>>
           a == Only(s, T)
           b == Only(q, T)
           sq == s \o q
<1>1. IsSeq(one) /\ IsSeq(more) /\ IsSeq(a) /\ IsSeq(b) /\ IsSeq(sq)
  BY Single, Empty, OnlyAppend, Joined
<1>2. Only(q \o one, T) = b \o more
  BY OnlyAppend
<1>3. Only(sq \o one, T) = Only(sq, T) \o more
  <2> HIDE DEF sq
  <2> QED
    BY <1>1, OnlyAppend
<1>4. sq \o one = s \o (q \o one)
  <2> HIDE DEF one
  <2> QED
    BY <1>1, Associative, SMTT(60)
<1> HIDE DEF one, more
<1>5. (a \o b) \o more = a \o (b \o more)
  <2> HIDE DEF a, b, sq
  <2> QED
    BY <1>1, Associative, SMTT(60)
<1>6. Only(sq, T) = a \o b
  OBVIOUS
<1> HIDE DEF a, b, sq
<1>7. Only(s \o (q \o one), T) = a \o Only(q \o one, T)
  BY <1>2, <1>3, <1>4, <1>5, <1>6
<1> QED
  BY <1>7 DEF a, one

LEMMA OnlyJoined ==
    ASSUME NEW s, NEW t, NEW T, IsSeq(s), IsSeq(t)
    PROVE  Only(s \o t, T) = Only(s, T) \o Only(t, T)
<1> DEFINE p(k) == SubSeq(t, 1, k)
           G == {k \in 0..Len(t) : Only(s \o p(k), T) = Only(s, T) \o Only(p(k), T)}
<1>0. /\ Len(t) \in Nat /\ p(0) = <<>> /\ p(Len(t)) = t
      /\ \A k \in 0..Len(t) : IsSeq(p(k))
      /\ \A k \in 1..Len(t) : p(k) = p(k - 1) \o <<t[k]>>
  BY SeqFacts, PrefixFacts
<1> HIDE DEF p
<1>1. 0 \in G
  <2> DEFINE e == <<>>
             a == Only(s, T)
  <2>1. IsSeq(a)
    BY OnlyAppend
  <2> HIDE DEF a
  <2>2. s \o e = s /\ Only(e, T) = e /\ a \o e = a
    BY <2>1, NothingAround, OnlyOfNone
  <2>3. p(0) = e /\ 0 \in 0..Len(t)
    BY <1>0
  <2> HIDE DEF e
  <2>4. Only(s \o p(0), T) = a \o Only(p(0), T)
    BY <2>2, <2>3 DEF a
  <2> QED
    BY <2>3, <2>4 DEF a
<1>4. ASSUME NEW q, NEW x, IsSeq(q), Only(s \o q, T) = Only(s, T) \o Only(q, T)
      PROVE  Only(s \o (q \o <<x>>), T) = Only(s, T) \o Only(q \o <<x>>, T)
  BY <1>4, OnlyMore
<1>2. ASSUME NEW k \in 1..Len(t), k - 1 \in G PROVE k \in G
  <2>1. k - 1 \in 0..Len(t) /\ k \in 0..Len(t)
    BY <1>0
  <2>2. p(k) = p(k - 1) \o <<t[k]>> /\ IsSeq(p(k - 1))
    BY <1>0, <2>1
  <2>3. Only(s \o p(k - 1), T) = Only(s, T) \o Only(p(k - 1), T)
    BY <1>2
  <2>4. Only(s \o (p(k - 1) \o <<t[k]>>), T) = Only(s, T) \o Only(p(k - 1) \o <<t[k]>>, T)
    BY <2>2, <2>3, <1>4, Zenon
  <2> QED
    BY <2>1, <2>2, <2>4
<1>3. Len(t) \in G
  <2>1. Len(t) \in 0..Len(t)
    BY <1>0
  <2> HIDE DEF G
  <2> QED
    BY <1>0, <1>1, <1>2, <2>1, CountUp
<1> QED
  BY <1>0, <1>3

(* What it holds.                                                             *)
LEMMA OnlyFacts ==
    ASSUME NEW s, NEW T, IsSeq(s)
    PROVE  IsSeq(Only(s, T)) /\ ToSet(Only(s, T)) = ToSet(s) \cap T
<1>1. \A u : IsSeq(u) => IsSeq(Only(u, T)) /\ ToSet(Only(u, T)) \subseteq ToSet(u) \cap T
  BY OnlyAppend
<1>2. ASSUME NEW x \in ToSet(s) \cap T PROVE x \in ToSet(Only(s, T))
  <2>1. PICK k \in 1..Len(s) : s[k] = x
    BY SeqFacts
  <2> DEFINE a == SubSeq(s, 1, k - 1)
             b == SubSeq(s, k + 1, Len(s))
  <2>2. s = SubSeq(s, 1, k) \o b /\ IsSeq(b)
    <3>1. Len(s) \in Nat
      BY SeqFacts
    <3>2. k \in 0..Len(s) /\ k + 1 \in 1..(Len(s) + 1) /\ Len(s) \in ((k + 1) - 1)..Len(s)
      BY <3>1
    <3> QED
      BY <3>2, Halves, Cut
  <2>3. SubSeq(s, 1, k) = a \o <<x>> /\ IsSeq(a) /\ IsSeq(SubSeq(s, 1, k))
    <3>1. Len(s) \in Nat
      BY SeqFacts
    <3>2. k - 1 \in 0..Len(s) /\ k \in 0..Len(s)
      BY <3>1
    <3> QED
      BY <2>1, <3>2, PrefixFacts
  <2> DEFINE c == SubSeq(s, 1, k)
  <2> HIDE DEF a, b, c
  <2>4. Only(s, T) = Only(c, T) \o Only(b, T) /\ Only(c, T) = Only(a, T) \o <<x>>
    <3>1. Only(c \o b, T) = Only(c, T) \o Only(b, T)
      BY <2>2, <2>3, OnlyJoined DEF c
    <3>2. Only(a \o <<x>>, T) = Only(a, T) \o <<x>>
      <4>1. x \in T
        BY <1>2
      <4>2. Only(a \o <<x>>, T) = Only(a, T) \o (IF x \in T THEN <<x>> ELSE <<>>)
        BY <2>3, OnlyAppend
      <4> QED
        BY <4>1, <4>2
    <3>3. s = c \o b /\ c = a \o <<x>>
      BY <2>2, <2>3 DEF c
    <3> QED
      BY <3>1, <3>2, <3>3
  <2>5. x \in ToSet(Only(c, T))
    BY <1>1, <2>3, <2>4, Joined, Single
  <2>6. IsSeq(Only(c, T)) /\ IsSeq(Only(b, T))
    BY <1>1, <2>2, <2>3 DEF c
  <2>7. x \in ToSet(Only(c, T) \o Only(b, T))
    BY <2>5, <2>6, Joined
  <2> QED
    BY <2>4, <2>7
<1> QED
  BY <1>1, <1>2

LEMMA NoElement ==
    ASSUME NEW s, IsSeq(s), ToSet(s) = {}
    PROVE  s = <<>>
<1>1. \A i \in 1..Len(s) : s[i] \in ToSet(s)
  BY SeqFacts
<1>2. ~(1 \in 1..Len(s))
  BY <1>1
<1> QED
  BY <1>2, SeqFacts

LEMMA OnlyNone ==
    ASSUME NEW s, NEW T, IsSeq(s), ToSet(s) \cap T = {}
    PROVE  Only(s, T) = <<>>
BY OnlyFacts, NoElement

(* What it takes of the prefixes.                                             *)
LEMMA OnlyPrefix ==
    ASSUME NEW s, NEW T, IsSeq(s)
    PROVE  \E o : /\ o[0] = <<>> /\ o[Len(s)] = Only(s, T)
                  /\ \A k \in 0..Len(s) : IsSeq(o[k])
                  /\ \A k \in 1..Len(s) :
                        o[k] = IF s[k] \in T THEN o[k - 1] \o <<s[k]>> ELSE o[k - 1]
<1> DEFINE p(k) == SubSeq(s, 1, k)
           o == [k \in 0..Len(s) |-> Only(p(k), T)]
<1>0. /\ Len(s) \in Nat /\ p(0) = <<>> /\ p(Len(s)) = s
      /\ \A k \in 0..Len(s) : IsSeq(p(k))
      /\ \A k \in 1..Len(s) : p(k) = p(k - 1) \o <<s[k]>>
  BY SeqFacts, PrefixFacts
<1>1. ASSUME NEW q, NEW x, IsSeq(q)
      PROVE  /\ Only(q \o <<x>>, T) = IF x \in T THEN Only(q, T) \o <<x>> ELSE Only(q, T)
             /\ IsSeq(Only(q, T))
  <2>1. Only(q \o <<x>>, T) = Only(q, T) \o (IF x \in T THEN <<x>> ELSE <<>>) /\ IsSeq(Only(q, T))
    BY <1>1, OnlyAppend
  <2>2. Only(q, T) \o <<>> = Only(q, T)
    BY <2>1, NothingAround
  <2> QED
    BY <2>1, <2>2
<1> HIDE DEF p
<1>2. o[0] = <<>> /\ o[Len(s)] = Only(s, T)
  <2>1. 0 \in 0..Len(s) /\ Len(s) \in 0..Len(s)
    BY <1>0
  <2>2. Only(p(0), T) = <<>>
    BY <1>0, OnlyOfNone, Zenon
  <2> QED
    BY <1>0, <2>1, <2>2
<1>3. ASSUME NEW k \in 0..Len(s) PROVE IsSeq(o[k])
  <2>1. IsSeq(Only(p(k), T))
    BY <1>0, <1>1
  <2> QED
    BY <2>1
<1>4. ASSUME NEW k \in 1..Len(s)
      PROVE o[k] = IF s[k] \in T THEN o[k - 1] \o <<s[k]>> ELSE o[k - 1]
  <2>1. k - 1 \in 0..Len(s) /\ k \in 0..Len(s)
    BY <1>0
  <2>2. p(k) = p(k - 1) \o <<s[k]>> /\ IsSeq(p(k - 1))
    BY <1>0, <2>1
  <2>3. o[k] = Only(p(k), T) /\ o[k - 1] = Only(p(k - 1), T)
    BY <2>1
  <2> HIDE DEF o
  <2>4. Only(p(k), T) = IF s[k] \in T THEN Only(p(k - 1), T) \o <<s[k]>> ELSE Only(p(k - 1), T)
    BY <1>1, <2>2, Zenon
  <2> QED
    BY <2>3, <2>4
<1> HIDE DEF o
<1> QED
  BY <1>2, <1>3, <1>4

LEMMA OnlySame ==
    ASSUME NEW s, NEW T, NEW U, IsSeq(s), \A i \in 1..Len(s) : s[i] \in T <=> s[i] \in U
    PROVE  Only(s, T) = Only(s, U)
<1>1. PICK o : /\ o[0] = <<>> /\ o[Len(s)] = Only(s, T)
               /\ \A k \in 0..Len(s) : IsSeq(o[k])
               /\ \A k \in 1..Len(s) : o[k] = IF s[k] \in T THEN o[k - 1] \o <<s[k]>> ELSE o[k - 1]
  BY OnlyPrefix
<1>2. PICK q : /\ q[0] = <<>> /\ q[Len(s)] = Only(s, U)
               /\ \A k \in 0..Len(s) : IsSeq(q[k])
               /\ \A k \in 1..Len(s) : q[k] = IF s[k] \in U THEN q[k - 1] \o <<s[k]>> ELSE q[k - 1]
  BY OnlyPrefix
<1> DEFINE G == {k \in 0..Len(s) : o[k] = q[k]}
<1>0. Len(s) \in Nat /\ Len(s) \in 0..Len(s)
  BY SeqFacts
<1>3. 0 \in G
  BY <1>0, <1>1, <1>2
<1>4. ASSUME NEW k \in 1..Len(s), k - 1 \in G PROVE k \in G
  <2>1. k \in 0..Len(s) /\ o[k - 1] = q[k - 1]
    BY <1>0, <1>4
  <2>2. CASE s[k] \in T
    <3>1. o[k] = o[k - 1] \o <<s[k]>> /\ q[k] = q[k - 1] \o <<s[k]>>
      BY <1>1, <1>2, <2>2
    <3> QED
      BY <2>1, <3>1
  <2>3. CASE s[k] \notin T
    BY <1>1, <1>2, <2>1, <2>3
  <2> QED
    BY <2>2, <2>3
<1> HIDE DEF G
<1>5. Len(s) \in G
  BY <1>0, <1>3, <1>4, CountUp
<1> QED
  BY <1>1, <1>2, <1>5 DEF G

LEMMA OnlyAll ==
    ASSUME NEW s, NEW T, IsSeq(s), \A i \in 1..Len(s) : s[i] \in T
    PROVE  Only(s, T) = s
<1>1. PICK o : /\ o[0] = <<>> /\ o[Len(s)] = Only(s, T)
               /\ \A k \in 0..Len(s) : IsSeq(o[k])
               /\ \A k \in 1..Len(s) : o[k] = IF s[k] \in T THEN o[k - 1] \o <<s[k]>> ELSE o[k - 1]
  BY OnlyPrefix
<1>2. /\ Len(s) \in Nat /\ SubSeq(s, 1, 0) = <<>> /\ SubSeq(s, 1, Len(s)) = s
      /\ \A k \in 1..Len(s) : SubSeq(s, 1, k) = SubSeq(s, 1, k - 1) \o <<s[k]>>
  BY SeqFacts, PrefixFacts
<1> DEFINE p(k) == SubSeq(s, 1, k)
           G == {k \in 0..Len(s) : o[k] = p(k)}
<1>3. /\ p(0) = <<>> /\ p(Len(s)) = s
      /\ \A k \in 1..Len(s) : p(k) = p(k - 1) \o <<s[k]>>
  BY <1>2
<1> HIDE DEF p
<1>4. 0 \in G /\ Len(s) \in 0..Len(s)
  BY <1>1, <1>2, <1>3
<1>5. ASSUME NEW k \in 1..Len(s), k - 1 \in G PROVE k \in G
  <2>1. k \in 0..Len(s) /\ o[k - 1] = p(k - 1)
    BY <1>2, <1>5
  <2>2. o[k] = o[k - 1] \o <<s[k]>> /\ p(k) = p(k - 1) \o <<s[k]>>
    BY <1>1, <1>3
  <2> QED
    BY <2>1, <2>2
<1> HIDE DEF G
<1>6. Len(s) \in G
  BY <1>2, <1>4, <1>5, CountUp
<1> QED
  BY <1>1, <1>3, <1>6 DEF G

(* Only of what Only took.                                                    *)
LEMMA OnlyTwice ==
    ASSUME NEW s, NEW T, NEW U, IsSeq(s)
    PROVE  Only(Only(s, T), U) = Only(s, T \cap U)
<1>1. PICK o : /\ o[0] = <<>> /\ o[Len(s)] = Only(s, T)
               /\ \A k \in 0..Len(s) : IsSeq(o[k])
               /\ \A k \in 1..Len(s) : o[k] = IF s[k] \in T THEN o[k - 1] \o <<s[k]>> ELSE o[k - 1]
  BY OnlyPrefix
<1> DEFINE V == T \cap U
<1> HIDE DEF V
<1>2. PICK q : /\ q[0] = <<>> /\ q[Len(s)] = Only(s, V)
               /\ \A k \in 0..Len(s) : IsSeq(q[k])
               /\ \A k \in 1..Len(s) : q[k] = IF s[k] \in V THEN q[k - 1] \o <<s[k]>> ELSE q[k - 1]
  BY OnlyPrefix
<1>7. \A x : x \in V <=> x \in T /\ x \in U
  BY DEF V
<1> DEFINE G == {k \in 0..Len(s) : Only(o[k], U) = q[k]}
<1>0. Len(s) \in Nat /\ Len(s) \in 0..Len(s)
  BY SeqFacts
<1>3. 0 \in G
  <2>1. Only(o[0], U) = <<>>
    BY <1>1, OnlyOfNone
  <2> QED
    BY <1>0, <1>2, <2>1
<1>4. ASSUME NEW w, NEW x, IsSeq(w)
      PROVE  Only(w \o <<x>>, U) = IF x \in U THEN Only(w, U) \o <<x>> ELSE Only(w, U)
  <2>1. Only(w \o <<x>>, U) = Only(w, U) \o (IF x \in U THEN <<x>> ELSE <<>>) /\ IsSeq(Only(w, U))
    BY <1>4, OnlyAppend
  <2>2. Only(w, U) \o <<>> = Only(w, U)
    BY <2>1, NothingAround
  <2> QED
    BY <2>1, <2>2
<1>5. ASSUME NEW k \in 1..Len(s), k - 1 \in G PROVE k \in G
  <2>1. k - 1 \in 0..Len(s) /\ k \in 0..Len(s)
    BY <1>0
  <2>2. IsSeq(o[k - 1]) /\ Only(o[k - 1], U) = q[k - 1]
    BY <1>1, <1>5, <2>1
  <2>3. CASE s[k] \in T
    <3>1. o[k] = o[k - 1] \o <<s[k]>>
      BY <1>1, <2>3
    <3>2. Only(o[k], U) = IF s[k] \in U THEN Only(o[k - 1], U) \o <<s[k]>> ELSE Only(o[k - 1], U)
      BY <1>4, <2>2, <3>1
    <3> QED
      BY <1>2, <1>7, <2>1, <2>2, <2>3, <3>2
  <2>4. CASE s[k] \notin T
    BY <1>1, <1>2, <1>7, <2>1, <2>2, <2>4
  <2> QED
    BY <2>3, <2>4
<1> HIDE DEF G
<1>6. Len(s) \in G
  BY <1>0, <1>3, <1>5, CountUp
<1> QED
  BY <1>1, <1>2, <1>6 DEF G, V

(* The first element that is taken.                                           *)
LEMMA OnlyFirst ==
    ASSUME NEW s, NEW T, IsSeq(s), Only(s, T) # <<>>
    PROVE  \E i \in 1..Len(s) : /\ s[i] \in T /\ Only(s, T)[1] = s[i]
                                /\ \A j \in 1..(i - 1) : s[j] \notin T
<1>1. PICK o : /\ o[0] = <<>> /\ o[Len(s)] = Only(s, T)
               /\ \A k \in 0..Len(s) : IsSeq(o[k])
               /\ \A k \in 1..Len(s) : o[k] = IF s[k] \in T THEN o[k - 1] \o <<s[k]>> ELSE o[k - 1]
  BY OnlyPrefix
<1> DEFINE First(k) == \E i \in 1..k : /\ s[i] \in T /\ o[k][1] = s[i]
                                       /\ \A j \in 1..(i - 1) : s[j] \notin T
           G == {k \in 0..Len(s) : \/ o[k] = <<>> /\ \A j \in 1..k : s[j] \notin T
                                   \/ o[k] # <<>> /\ First(k)}
<1>0. Len(s) \in Nat /\ Len(s) \in 0..Len(s)
  BY SeqFacts
<1>2. 0 \in G
  BY <1>0, <1>1
<1>3. ASSUME NEW w, NEW x, IsSeq(w)
      PROVE  w \o <<x>> # <<>> /\ (w \o <<x>>)[1] = IF w = <<>> THEN x ELSE w[1]
  <2>1. /\ IsSeq(w \o <<x>>) /\ Len(w \o <<x>>) = Len(w) + 1 /\ Len(w) \in Nat
        /\ \A i \in 1..Len(w) : (w \o <<x>>)[i] = w[i]
        /\ (w \o <<x>>)[Len(w) + 1] = x
    <3>1. /\ IsSeq(<<x>>) /\ Len(<<x>>) = 1 /\ <<x>>[1] = x /\ 1 \in 1..Len(<<x>>) /\ Len(w) \in Nat
      BY <1>3, Single, SeqFacts
    <3> QED
      BY <1>3, <3>1, Joined
  <2>2. w = <<>> <=> Len(w) = 0
    BY <1>3, SeqFacts
  <2>3. w \o <<x>> = <<>> <=> Len(w \o <<x>>) = 0
    BY <2>1, SeqFacts
  <2> QED
    BY <2>1, <2>2, <2>3
<1>4. ASSUME NEW k \in 1..Len(s), k - 1 \in G PROVE k \in G
  <2>1. k - 1 \in 0..Len(s) /\ k \in 0..Len(s) /\ k \in 1..k
    BY <1>0
  <2>2. 1..k = 1..(k - 1) \cup {k} /\ 1..(k - 1) \subseteq 1..k
    BY <1>0
  <2>3. CASE s[k] \notin T
    <3>1. o[k] = o[k - 1]
      BY <1>1, <2>3
    <3>2. CASE o[k - 1] = <<>>
      BY <1>4, <2>1, <2>2, <2>3, <3>1, <3>2
    <3>3. CASE o[k - 1] # <<>>
      <4>1. First(k - 1)
        BY <1>4, <3>3
      <4>2. First(k)
        BY <2>2, <3>1, <4>1
      <4> QED
        BY <2>1, <3>1, <3>3, <4>2
    <3> QED
      BY <3>2, <3>3
  <2>4. CASE s[k] \in T
    <3>1. o[k] = o[k - 1] \o <<s[k]>>
      BY <1>1, <2>4
    <3>2. IsSeq(o[k - 1])
      BY <1>1, <2>1
    <3>3. o[k] # <<>> /\ o[k][1] = IF o[k - 1] = <<>> THEN s[k] ELSE o[k - 1][1]
      BY <1>3, <3>1, <3>2
    <3>4. CASE o[k - 1] = <<>>
      <4>1. \A j \in 1..(k - 1) : s[j] \notin T
        BY <1>4, <3>4
      <4>2. First(k)
        BY <2>1, <2>4, <3>3, <3>4, <4>1
      <4> QED
        BY <2>1, <3>3, <4>2
    <3>5. CASE o[k - 1] # <<>>
      <4>1. First(k - 1)
        BY <1>4, <3>5
      <4>2. First(k)
        BY <2>2, <3>3, <3>5, <4>1
      <4> QED
        BY <2>1, <3>3, <4>2
    <3> QED
      BY <3>4, <3>5
  <2> QED
    BY <2>3, <2>4
<1> HIDE DEF G
<1>5. Len(s) \in G
  BY <1>0, <1>2, <1>4, CountUp
<1> QED
  BY <1>1, <1>5 DEF G

(* The only element there is to take.                                         *)
LEMMA OnlyLone ==
    ASSUME NEW s, NEW T, IsSeq(s), NEW n \in 1..Len(s), s[n] \in T,
           \A i \in 1..Len(s) : i # n => s[i] \notin T
    PROVE  Only(s, T) = <<s[n]>>
<1> DEFINE a == SubSeq(s, 1, n - 1)
           c == SubSeq(s, 1, n)
           b == SubSeq(s, n + 1, Len(s))
           x == s[n]
           one == <<x>>
<1>0. Len(s) \in Nat
  BY SeqFacts
<1>1. c = a \o one /\ IsSeq(a) /\ IsSeq(c)
  <2>1. n - 1 \in 0..Len(s) /\ n \in 0..Len(s)
    BY <1>0
  <2> QED
    BY <2>1, PrefixFacts
<1>2. s = c \o b
  <2>1. n \in 0..Len(s)
    BY <1>0
  <2> QED
    BY <2>1, Halves
<1>3. IsSeq(b) /\ ToSet(b) = {s[i] : i \in (n + 1)..Len(s)}
  <2>1. n + 1 \in 1..(Len(s) + 1) /\ Len(s) \in ((n + 1) - 1)..Len(s)
    BY <1>0
  <2> QED
    BY <2>1, Cut
<1>4. ToSet(a) = {s[i] : i \in 1..(n - 1)}
  <2>1. 1 \in 1..(Len(s) + 1) /\ n - 1 \in (1 - 1)..Len(s)
    BY <1>0
  <2> QED
    BY <2>1, Cut
<1>5. ToSet(a) \cap T = {} /\ ToSet(b) \cap T = {}
  <2>1. \A i \in 1..(n - 1) : i \in 1..Len(s) /\ i # n
    BY <1>0
  <2>2. \A i \in (n + 1)..Len(s) : i \in 1..Len(s) /\ i # n
    BY <1>0
  <2> QED
    BY <1>3, <1>4, <2>1, <2>2
<1> HIDE DEF a, b, c
<1>6. Only(a, T) = <<>> /\ Only(b, T) = <<>>
  BY <1>1, <1>3, <1>5, OnlyNone
<1>7. Only(one, T) = one /\ IsSeq(one)
  BY OnlyOfOne, Single
<1> HIDE DEF one
<1>8. Only(c, T) = one
  <2>1. Only(c, T) = Only(a, T) \o Only(one, T)
    BY <1>1, <1>7, OnlyJoined
  <2>2. <<>> \o one = one
    BY <1>7, NothingAround
  <2> QED
    BY <1>6, <1>7, <2>1, <2>2
<1>9. Only(s, T) = one
  <2>1. Only(s, T) = Only(c, T) \o Only(b, T)
    BY <1>1, <1>2, <1>3, OnlyJoined
  <2>2. one \o <<>> = one
    BY <1>7, NothingAround
  <2> QED
    BY <1>6, <1>8, <2>1, <2>2
<1> QED
  BY <1>9 DEF one, x

(* The cells of a kind, and the parts of some names.                          *)
LEMMA OfKindFacts ==
    ASSUME NEW s, NEW kind, IsSeq(s)
    PROVE  /\ IsSeq(OfKind(s, kind))
           /\ ToSet(OfKind(s, kind)) = {c \in ToSet(s) : c[1] = kind}
           /\ OfKind(s, kind) = <<>> <=> \A i \in 1..Len(s) : s[i][1] # kind
<1> DEFINE T == {c \in ToSet(s) : c[1] = kind}
<1>1. IsSeq(Only(s, T)) /\ ToSet(Only(s, T)) = ToSet(s) \cap T
  BY OnlyFacts
<1>2. \A i \in 1..Len(s) : s[i] \in ToSet(s)
  BY SeqFacts
<1>3. Only(s, T) = <<>> <=> ToSet(Only(s, T)) = {}
  BY <1>1, NoElement, Empty
<1>4. ToSet(s) = {s[i] : i \in 1..Len(s)}
  BY SeqFacts
<1>6. OfKind(s, kind) = Only(s, T)
  BY DEF OfKind
<1> QED
  BY <1>1, <1>3, <1>4, <1>6

(* A larger set of cells to choose from takes the same ones.                  *)
LEMMA OfKindOver ==
    ASSUME NEW s, NEW kind, NEW S, NEW T, IsSeq(s), ToSet(s) \subseteq S,
           \A c : c \in T <=> c \in S /\ c[1] = kind
    PROVE  OfKind(s, kind) = Only(s, T)
<1> DEFINE U == {c \in ToSet(s) : c[1] = kind}
<1>1. \A i \in 1..Len(s) : s[i] \in U <=> s[i] \in T
  BY SeqFacts
<1>2. OfKind(s, kind) = Only(s, U)
  BY DEF OfKind
<1> HIDE DEF U
<1>3. Only(s, U) = Only(s, T)
  BY <1>1, OnlySame
<1> QED
  BY <1>2, <1>3

LEMMA OfKindJoined ==
    ASSUME NEW s, NEW t, NEW kind, IsSeq(s), IsSeq(t)
    PROVE  OfKind(s \o t, kind) = OfKind(s, kind) \o OfKind(t, kind)
<1> DEFINE u == s \o t
           S == ToSet(s) \cup ToSet(t)
           T == {c \in S : c[1] = kind}
<1>1. IsSeq(u) /\ ToSet(u) = S
  BY Joined
<1>2. ToSet(u) \subseteq S /\ ToSet(s) \subseteq S /\ ToSet(t) \subseteq S
  BY <1>1
<1>3. Only(u, T) = Only(s, T) \o Only(t, T)
  <2> HIDE DEF S, T
  <2> QED
    BY OnlyJoined
<1>4. \A c : c \in T <=> c \in S /\ c[1] = kind
  OBVIOUS
<1> HIDE DEF u, S, T
<1>5. OfKind(u, kind) = Only(u, T) /\ OfKind(s, kind) = Only(s, T) /\ OfKind(t, kind) = Only(t, T)
  BY <1>1, <1>2, <1>4, OfKindOver
<1> QED
  BY <1>3, <1>5 DEF u

LEMMA OfKindAll ==
    ASSUME NEW s, NEW kind, IsSeq(s), \A i \in 1..Len(s) : s[i][1] = kind
    PROVE  OfKind(s, kind) = s
<1> DEFINE T == {c \in ToSet(s) : c[1] = kind}
<1>1. \A i \in 1..Len(s) : s[i] \in T
  BY SeqFacts
<1> HIDE DEF T
<1>2. Only(s, T) = s
  BY <1>1, OnlyAll
<1> QED
  BY <1>2 DEF OfKind, T
-----------------------------------------------------------------------------
(* Signed documents.  A document is whole, and its RSA value is over          *)
(* attributes that name a digest of the content; a timestamp changes neither. *)
IsCms(c) ==
    /\ c = [content |-> c.content, alg |-> c.alg, sid |-> c.sid, certs |-> c.certs,
            attrs |-> c.attrs, sigval |-> c.sigval, tokens |-> c.tokens]
    /\ IsFiniteSet(DOMAIN c.tokens)

SignedOver(c, alg, content) ==
    /\ c.alg = alg /\ c.attrs.messageDigest = Hash(alg, content)
    /\ c.sigval[2] = Hash(alg, c.attrs)

SameDocument(t, c) ==
    /\ t.content = c.content /\ t.alg = c.alg /\ t.sid = c.sid /\ t.certs = c.certs
    /\ t.attrs = c.attrs /\ t.sigval = c.sigval

LEMMA CmsWidth ==
    ASSUME NEW c, IsCms(c)
    PROVE  Width(c) \in Nat \ {0}
<1>1. Cardinality(DOMAIN c.tokens) \in Nat
  BY FS_CardinalityType DEF IsCms
<1> QED
  BY <1>1 DEF Width

LEMMA Assembled ==
    \A content, attached, alg, signer, chain, attrs, sigval :
        \A c \in create_pkcs7_with_signature(content, attached, alg, signer, chain, attrs, sigval) :
            /\ IsCms(c) /\ c.content = IF attached THEN <<content>> ELSE <<>>
            /\ c.alg = alg /\ c.sid = signer /\ c.attrs = attrs /\ c.sigval = sigval
            /\ c.certs = ToSet(<<signer>> \o chain)
<1> SUFFICES ASSUME NEW content, NEW attached, NEW alg, NEW signer, NEW chain, NEW attrs, NEW sigval,
                    NEW c \in create_pkcs7_with_signature(content, attached, alg, signer, chain,
                                                          attrs, sigval)
             PROVE  /\ IsCms(c) /\ c.content = IF attached THEN <<content>> ELSE <<>>
                    /\ c.alg = alg /\ c.sid = signer /\ c.attrs = attrs /\ c.sigval = sigval
                    /\ c.certs = ToSet(<<signer>> \o chain)
  BY Zenon
<1> DEFINE certs == ToSet(<<signer>> \o chain)
           body == IF attached THEN <<content>> ELSE <<>>
<1>1. c = [content |-> body, alg |-> alg, sid |-> signer,
           certs |-> certs, attrs |-> attrs, sigval |-> sigval, tokens |-> <<>>]
  BY Zenon DEF create_pkcs7_with_signature
<1> HIDE DEF certs, body
<1>2. /\ c.content = body /\ c.alg = alg /\ c.sid = signer /\ c.attrs = attrs /\ c.sigval = sigval
      /\ c.certs = certs /\ c.tokens = <<>>
  BY <1>1
<1>3. IsFiniteSet(DOMAIN c.tokens)
  <2>1. DOMAIN c.tokens = {}
    BY <1>2
  <2> QED
    BY <2>1, FS_EmptySet
<1>4. IsCms(c)
  BY <1>1, <1>2, <1>3 DEF IsCms
<1> QED
  BY <1>2, <1>4 DEF certs, body

(* The document of a signing provider: its certificate is in it, and its key  *)
(* made the value.                                                            *)
MadeBy(c, m) ==
    /\ \E s \in load_signing_provider(m) : c.sid = s[1] /\ c.certs = ToSet(<<s[1]>> \o s[2])
    /\ c.sigval = RsaSign(m.key, Hash(c.alg, c.attrs))

LEMMA DocumentMade ==
    \A m, profile, attached, alg, content, now :
        \A c \in create_pkcs7(m, profile, attached, alg, content, now) :
            /\ IsCms(c) /\ SignedOver(c, alg, content) /\ MadeBy(c, m)
            /\ c.content = IF attached THEN <<content>> ELSE <<>>
<1> SUFFICES ASSUME NEW m, NEW profile, NEW attached, NEW alg, NEW content, NEW now,
                    NEW c \in create_pkcs7(m, profile, attached, alg, content, now)
             PROVE  /\ IsCms(c) /\ SignedOver(c, alg, content) /\ MadeBy(c, m)
                    /\ c.content = IF attached THEN <<content>> ELSE <<>>
  BY Zenon
<1> DEFINE attrs(s) == pkcs7_signed_attrs(profile, alg, content, s[1], now)
<1>1. PICK s \in load_signing_provider(m) :
          c \in create_pkcs7_with_signature(content, attached, alg, s[1], s[2], attrs(s),
                  ProviderSign(m, signed_attrs_digest(alg, attrs(s))))
  BY Zenon DEF create_pkcs7
<1>2. attrs(s).messageDigest = Hash(alg, content)
  BY DEF pkcs7_signed_attrs
<1>3. /\ IsCms(c) /\ c.content = (IF attached THEN <<content>> ELSE <<>>)
      /\ c.alg = alg /\ c.sid = s[1] /\ c.attrs = attrs(s)
      /\ c.sigval = ProviderSign(m, signed_attrs_digest(alg, attrs(s)))
      /\ c.certs = ToSet(<<s[1]>> \o s[2])
  <2> HIDE DEF attrs
  <2> QED
    BY <1>1, Assembled
<1>4. c.sigval = RsaSign(m.key, Hash(alg, attrs(s)))
  <2> HIDE DEF attrs
  <2> QED
    BY <1>3 DEF ProviderSign, signed_attrs_digest
<1>5. c.sigval[2] = Hash(alg, attrs(s))
  <2> HIDE DEF attrs
  <2> QED
    BY <1>4 DEF RsaSign, Hash
<1> HIDE DEF attrs
<1>6. SignedOver(c, alg, content)
  BY <1>2, <1>3, <1>5 DEF SignedOver
<1>7. MadeBy(c, m)
  <2>1. \E r \in load_signing_provider(m) : c.sid = r[1] /\ c.certs = ToSet(<<r[1]>> \o r[2])
    BY <1>3, Zenon
  <2> QED
    BY <2>1, <1>3, <1>4 DEF MadeBy
<1> QED
  BY <1>3, <1>6, <1>7

(* The Authenticode document of a digest.                                     *)
SpcContent(kind, alg, digest) == <<"spc", kind, alg, digest>>

LEMMA SpcMade ==
    \A m, kind, alg, digest : \A c \in create_authenticode_pkcs7(m, kind, alg, digest) :
        /\ IsCms(c) /\ SignedOver(c, alg, SpcContent(kind, alg, digest)) /\ MadeBy(c, m)
        /\ c.content = <<SpcContent(kind, alg, digest)>> /\ digest[1] = alg
        /\ IsIndirect(c) /\ IndirectDigest(c) = digest
<1> SUFFICES ASSUME NEW m, NEW kind, NEW alg, NEW digest,
                    NEW c \in create_authenticode_pkcs7(m, kind, alg, digest)
             PROVE  /\ IsCms(c) /\ SignedOver(c, alg, SpcContent(kind, alg, digest)) /\ MadeBy(c, m)
                    /\ c.content = <<SpcContent(kind, alg, digest)>> /\ digest[1] = alg
                    /\ IsIndirect(c) /\ IndirectDigest(c) = digest
  BY Zenon
<1> DEFINE x == SpcContent(kind, alg, digest)
           attached == TRUE
<1>1. digest[1] = alg /\ c \in create_pkcs7(m, "Authenticode", attached, alg, x, 0)
  BY Zenon DEF create_authenticode_pkcs7, spc_indirect_data, SpcContent
<1>2. IsCms(c) /\ SignedOver(c, alg, x) /\ MadeBy(c, m) /\ c.content = <<x>>
  <2> HIDE DEF x
  <2>1. attached
    OBVIOUS
  <2> HIDE DEF attached
  <2>2. /\ IsCms(c) /\ SignedOver(c, alg, x) /\ MadeBy(c, m)
        /\ c.content = IF attached THEN <<x>> ELSE <<>>
    BY <1>1, DocumentMade
  <2> QED
    BY <2>1, <2>2
<1>3. IsIndirect(c) /\ IndirectDigest(c) = digest
  BY <1>2 DEF IsIndirect, IndirectDigest, SpcContent
<1> QED
  BY <1>1, <1>2, <1>3

(* A timestamp token goes into the document and leaves the rest as it is.     *)
LEMMA TokenAdded ==
    ASSUME NEW c, IsCms(c), NEW oid, NEW x
    PROVE  LET t == add_timestamp_token(c, oid, x) IN IsCms(t) /\ SameDocument(t, c)
<1> DEFINE t == add_timestamp_token(c, oid, x)
           tokens == [o \in DOMAIN c.tokens \cup {oid} |-> IF o = oid THEN x ELSE c.tokens[o]]
           a == c.content
           b == c.alg
           d == c.sid
           e == c.certs
           f == c.attrs
           g == c.sigval
           h == c.tokens
<1>1. c = [content |-> a, alg |-> b, sid |-> d, certs |-> e, attrs |-> f, sigval |-> g, tokens |-> h]
  BY DEF IsCms
<1>2. t = [c EXCEPT !.tokens = tokens]
  BY DEF add_timestamp_token
<1>6. IsFiniteSet(DOMAIN tokens)
  <2>1. DOMAIN tokens = DOMAIN c.tokens \cup {oid}
    OBVIOUS
  <2> QED
    BY <2>1, FS_AddElement DEF IsCms
<1> HIDE DEF t, tokens, a, b, d, e, f, g, h
<1>3. t = [content |-> a, alg |-> b, sid |-> d, certs |-> e, attrs |-> f, sigval |-> g, tokens |-> tokens]
  BY <1>1, <1>2
<1>4. /\ t.content = a /\ t.alg = b /\ t.sid = d /\ t.certs = e /\ t.attrs = f /\ t.sigval = g
      /\ t.tokens = tokens
  BY <1>3
<1>5. IsCms(t)
  BY <1>3, <1>4, <1>6 DEF IsCms
<1> QED
  BY <1>4, <1>5 DEF SameDocument, t, a, b, d, e, f, g

LEMMA Stamped ==
    \A c, oid, answer, alg : IsCms(c) =>
        \A t \in timestamp_pkcs7(c, oid, answer, alg) : IsCms(t) /\ SameDocument(t, c)
<1> SUFFICES ASSUME NEW c, NEW oid, NEW answer, NEW alg, IsCms(c),
                    NEW t \in timestamp_pkcs7(c, oid, answer, alg)
             PROVE  IsCms(t) /\ SameDocument(t, c)
  BY Zenon
<1>1. PICK x : t = add_timestamp_token(c, oid, x)
  BY Zenon DEF timestamp_pkcs7
<1> QED
  BY <1>1, TokenAdded

LEMMA MaybeStamped ==
    \A c, answer : IsCms(c) =>
        \A t \in maybe_timestamp_pkcs7(c, answer) : IsCms(t) /\ SameDocument(t, c)
<1> SUFFICES ASSUME NEW c, NEW answer, IsCms(c), NEW t \in maybe_timestamp_pkcs7(c, answer)
             PROVE  IsCms(t) /\ SameDocument(t, c)
  BY Zenon
<1>1. CASE t = c
  BY <1>1 DEF SameDocument
<1>2. CASE t \in timestamp_pkcs7(c, "ms", answer, "sha256")
  BY <1>2, Stamped, Zenon
<1> QED
  BY <1>1, <1>2, Zenon DEF maybe_timestamp_pkcs7

(* What is said of a document holds of it with a timestamp.                   *)
LEMMA SameSaid ==
    ASSUME NEW t, NEW c, SameDocument(t, c)
    PROVE  /\ \A alg, content : SignedOver(c, alg, content) => SignedOver(t, alg, content)
           /\ \A m : MadeBy(c, m) => MadeBy(t, m)
           /\ IsIndirect(t) <=> IsIndirect(c)
           /\ IndirectDigest(t) = IndirectDigest(c)
           /\ signature_verifies(t) <=> signature_verifies(c)
           /\ \A d : verify_indirect(t, d) <=> verify_indirect(c, d)
           /\ \A x : verify_detached(t, x) <=> verify_detached(c, x)
<1>1. t.content = c.content /\ t.alg = c.alg /\ t.sid = c.sid /\ t.certs = c.certs
      /\ t.attrs = c.attrs /\ t.sigval = c.sigval
  BY DEF SameDocument
<1>2. \A alg, content : SignedOver(c, alg, content) => SignedOver(t, alg, content)
  BY <1>1 DEF SignedOver
<1>3. \A m : MadeBy(c, m) => MadeBy(t, m)
  BY <1>1 DEF MadeBy
<1>4. (IsIndirect(t) <=> IsIndirect(c)) /\ IndirectDigest(t) = IndirectDigest(c)
  BY <1>1 DEF IsIndirect, IndirectDigest
<1>5. signature_verifies(t) <=> signature_verifies(c)
  BY <1>1 DEF signature_verifies
<1>6. \A d : verify_indirect(t, d) <=> verify_indirect(c, d)
  BY <1>1, <1>4, <1>5 DEF verify_indirect, picky_verifies, rsa_sha256_verifies
<1>7. \A x : verify_detached(t, x) <=> verify_detached(c, x)
  BY <1>1, <1>5 DEF verify_detached, rsa_sha256_verifies
<1> QED
  BY <1>2, <1>3, <1>4, <1>5, <1>6, <1>7
-----------------------------------------------------------------------------
(* App Installer descriptors: the attributes under the RSA value name the     *)
(* descriptor that was signed.                                                *)
DataOfAttrs(d) == d[2].messageDigest[2][2]

AppFile(data, companion) == [fmt |-> "appinstaller", data |-> data, companion |-> companion]

AppInv(f, S) ==
    /\ f = AppFile(f.data, f.companion)
    /\ f.companion # <<>> => DataOfAttrs(f.companion[1].sigval[2]) \in S

LEMMA AppUpdate ==
    ASSUME NEW f, f = AppFile(f.data, f.companion), NEW x
    PROVE  /\ [f EXCEPT !.data = x] = AppFile(x, f.companion)
           /\ [f EXCEPT !.companion = x] = AppFile(f.data, x)
<1> DEFINE d == f.data
           c == f.companion
<1>1. f = AppFile(d, c)
  OBVIOUS
<1> HIDE DEF d, c
<1>2. [f EXCEPT !.data = x] = AppFile(x, c) /\ [f EXCEPT !.companion = x] = AppFile(d, x)
  BY <1>1 DEF AppFile
<1> QED
  BY <1>2 DEF d, c

LEMMA AppFields ==
    \A d, c : /\ AppFile(d, c).fmt = "appinstaller" /\ AppFile(d, c).data = d
              /\ AppFile(d, c).companion = c
BY DEF AppFile

(* A document over the descriptor's attributes names it.                      *)
LEMMA AttrsName ==
    ASSUME NEW c, NEW alg, NEW x, SignedOver(c, alg, <<"data", x>>)
    PROVE  DataOfAttrs(c.sigval[2]) = x
BY DEF SignedOver, Hash, DataOfAttrs

LEMMA AppWith ==
    ASSUME NEW f, NEW S, AppInv(f, S), NEW t, NEW T, DataOfAttrs(t.sigval[2]) \in T
    PROVE  AppInv([f EXCEPT !.companion = <<t>>], T)
<1>1. [f EXCEPT !.companion = <<t>>] = AppFile(f.data, <<t>>)
  BY AppUpdate DEF AppInv
<1>2. <<t>>[1] = t
  OBVIOUS
<1> QED
  BY <1>1, <1>2, AppFields DEF AppInv

LEMMA AppSigned ==
    ASSUME NEW f, NEW S, AppInv(f, S), NEW req, NEW g \in sign_appinstaller(f, req)
    PROVE  AppInv(g, S \cup {f.data}) /\ g.data = f.data
<1> DEFINE x == <<"data", f.data>>
           attached == FALSE
<1>1. PICK c \in create_pkcs7(req.material, "Basic", attached, req.alg, x, 0) :
          \E t \in maybe_timestamp_pkcs7(c, req.tsa) : g = [f EXCEPT !.companion = <<t>>]
  BY Zenon DEF sign_appinstaller
<1>2. PICK t \in maybe_timestamp_pkcs7(c, req.tsa) : g = [f EXCEPT !.companion = <<t>>]
  BY <1>1
<1>3. IsCms(c) /\ SignedOver(c, req.alg, x)
  <2> HIDE DEF x, attached
  <2> QED
    BY DocumentMade
<1>4. SameDocument(t, c)
  BY <1>3, MaybeStamped, Zenon
<1>5. DataOfAttrs(c.sigval[2]) = f.data
  BY <1>3, AttrsName
<1>6. DataOfAttrs(t.sigval[2]) \in S \cup {f.data}
  <2>1. t.sigval = c.sigval
    BY <1>4 DEF SameDocument
  <2> QED
    BY <1>5, <2>1
<1>7. g.data = f.data
  <2> DEFINE s == <<t>>
  <2>1. g = [f EXCEPT !.companion = s]
    BY <1>2
  <2> HIDE DEF s
  <2>2. g = AppFile(f.data, s)
    BY <2>1, AppUpdate DEF AppInv
  <2> QED
    BY <2>2, AppFields
<1> QED
  BY <1>2, <1>6, <1>7, AppWith

LEMMA AppVerified ==
    ASSUME NEW f, NEW S, AppInv(f, S), verify_appinstaller(f)
    PROVE  f.data \in S
<1> DEFINE c == f.companion[1]
<1>1. /\ f.companion # <<>> /\ c.attrs.messageDigest = Hash(c.alg, <<"data", f.data>>)
      /\ c.sigval = RsaSign(c.sid, Hash(c.alg, c.attrs))
  BY DEF verify_appinstaller, verify_detached, rsa_sha256_verifies, signature_verifies, signed_attrs_digest
<1>2. DataOfAttrs(c.sigval[2]) = f.data
  <2> HIDE DEF c
  <2> QED
    BY <1>1 DEF DataOfAttrs, RsaSign, Hash
<1> QED
  BY <1>1, <1>2 DEF AppInv
-----------------------------------------------------------------------------
(* Signed archives: the comment holds the digest of what was signed.          *)
ZipFile(data, comment) == [fmt |-> "zip", data |-> data, comment |-> comment]

ZipInv(f, S) ==
    /\ f = ZipFile(f.data, f.comment)
    /\ f.comment # <<>> => f.comment[1].digest[2] \in S

LEMMA ZipUpdate ==
    ASSUME NEW f, f = ZipFile(f.data, f.comment), NEW x
    PROVE  /\ [f EXCEPT !.data = x] = ZipFile(x, f.comment)
           /\ [f EXCEPT !.comment = x] = ZipFile(f.data, x)
<1> DEFINE d == f.data
           c == f.comment
<1>1. f = ZipFile(d, c)
  OBVIOUS
<1> HIDE DEF d, c
<1>2. [f EXCEPT !.data = x] = ZipFile(x, c) /\ [f EXCEPT !.comment = x] = ZipFile(d, x)
  BY <1>1 DEF ZipFile
<1> QED
  BY <1>2 DEF d, c

LEMMA ZipFields ==
    \A d, c : ZipFile(d, c).fmt = "zip" /\ ZipFile(d, c).data = d /\ ZipFile(d, c).comment = c
BY DEF ZipFile

LEMMA ZipSigned ==
    ASSUME NEW f, NEW S, ZipInv(f, S), NEW req, NEW g \in sign_zip(f, req)
    PROVE  ZipInv(g, S \cup {f.data}) /\ g.data = f.data
<1> DEFINE digest == zip_authenticode_digest(f)
<1>1. PICK t : g \in set_zip_comment(f, digest, t)
  BY DEF sign_zip
<1> DEFINE x == <<[digest |-> digest, cms |-> t]>>
<1>2. g = [f EXCEPT !.comment = x]
  BY <1>1 DEF set_zip_comment, When
<1>3. x[1].digest[2] = f.data
  BY DEF zip_authenticode_digest, Hash
<1> HIDE DEF x
<1>4. g = ZipFile(f.data, x)
  BY <1>2, ZipUpdate DEF ZipInv
<1> QED
  BY <1>3, <1>4, ZipFields DEF ZipInv

LEMMA ZipVerified ==
    ASSUME NEW f, NEW S, ZipInv(f, S), f.comment # <<>>,
           f.comment[1].digest = zip_authenticode_digest(f)
    PROVE  f.data \in S
BY DEF ZipInv, zip_authenticode_digest, Hash
-----------------------------------------------------------------------------
(* Sequences end to end.                                                     *)

(* The parts of a concatenation, when the length of the last is known.        *)
MadeOf(w, x, y) ==
    /\ Len(w) = Len(x) + Len(y)
    /\ \A i \in 1..Len(x) : w[i] = x[i]
    /\ \A i \in 1..Len(y) : w[Len(x) + i] = y[i]

LEMMA JoinedMadeOf == \A x, y : IsSeq(x) /\ IsSeq(y) => MadeOf(x \o y, x, y)
BY Joined DEF MadeOf

LEMMA SplitMadeOf ==
    ASSUME NEW u, NEW a, NEW b, NEW c, NEW d, IsSeq(a), IsSeq(b), IsSeq(c), IsSeq(d),
           Len(b) = Len(d), MadeOf(u, a, b), MadeOf(u, c, d)
    PROVE  a = c /\ b = d
<1>0. Len(a) \in Nat /\ Len(b) \in Nat /\ Len(c) \in Nat /\ Len(d) \in Nat
  BY SeqFacts
<1>1. Len(a) = Len(c)
  BY <1>0 DEF MadeOf
<1>2. a = c
  BY <1>1, SameSeq DEF MadeOf
<1>3. b = d
  BY <1>1, SameSeq DEF MadeOf
<1> QED
  BY <1>2, <1>3

(* FlattenSeq puts one sequence behind the other.                             *)
LEMMA FlattenSteps ==
    ASSUME NEW s, IsSeq(s), Len(s) > 0, \A i \in 1..Len(s) : IsSeq(s[i])
    PROVE  \E o : /\ FlattenSeq(s) = o[Len(s)] /\ o[0] = <<>>
                  /\ \A i \in 0..Len(s) : IsSeq(o[i])
                  /\ \A i \in 1..Len(s) : o[i] = o[i - 1] \o s[i]
<1> DEFINE n == Len(s)
           U == UNION {ToSet(s[i]) : i \in 1..n}
           X == Seq(U)
           Body(f) == [i \in 1..n |-> IF i = 1 THEN s[i] ELSE f[i - 1] \o s[i]]
           g == [i \in 1..n |-> [x \in X |-> x \o s[i]]]
           chosen == CHOOSE f : f = Body(f)
<1>1. n \in Nat /\ n > 0
  BY SeqFacts
<1>2. \A i \in 1..n : s[i] \in X
  <2>1. ASSUME NEW i \in 1..n PROVE s[i] \in X
    <3>1. IsSeq(s[i]) /\ ToSet(s[i]) \subseteq U
      OBVIOUS
    <3> HIDE DEF U
    <3> QED
      BY <3>1, SeqFacts
  <2> QED
    BY <2>1
<1> HIDE DEF U
<1>3. <<>> \in X /\ g \in [1..n -> [X -> X]]
  BY <1>2
<1>4. PICK f \in [0..n -> X] : f[0] = <<>> /\ \A i \in 1..n : f[i] = g[i][f[i - 1]]
  <2> DEFINE empty == <<>>
  <2>1. n \in Nat /\ empty \in X /\ g \in [1..n -> [X -> X]]
    BY <1>1, <1>3
  <2> HIDE DEF X, g, n, empty, Body, chosen
  <2>2. \E f \in [0..n -> X] : f[0] = empty /\ \A i \in 1..n : f[i] = g[i][f[i - 1]]
    BY ONLY <2>1, Recursion, SMTT(60)
  <2> QED
    BY <2>2 DEF empty
<1>5. \A i \in 1..n : f[i] = f[i - 1] \o s[i]
  <2>1. ASSUME NEW i \in 1..n PROVE f[i] = f[i - 1] \o s[i]
    <3>1. i - 1 \in 0..n
      BY <1>1
    <3>2. f[i - 1] \in X
      BY <3>1
    <3> HIDE DEF X
    <3>3. g[i][f[i - 1]] = f[i - 1] \o s[i]
      BY <3>2
    <3> QED
      BY <1>4, <3>3
  <2> QED
    BY <2>1
<1>6. \A i \in 0..n : IsSeq(f[i])
  <2>1. ASSUME NEW i \in 0..n PROVE IsSeq(f[i])
    <3>1. f[i] \in Seq(U)
      OBVIOUS
    <3> QED
      BY <3>1, SeqOver
  <2> QED
    BY <2>1
<1> HIDE DEF X, g
<1> DEFINE h == [i \in 1..n |-> f[i]]
<1>7. h = Body(h)
  <2>1. ASSUME NEW i \in 1..n
        PROVE  h[i] = IF i = 1 THEN s[i] ELSE h[i - 1] \o s[i]
    <3>1. CASE i = 1
      <4>1. f[i] = <<>> \o s[i]
        <5>1. i - 1 = 0 /\ f[0] = <<>>
          BY <1>4, <3>1
        <5>2. f[i] = f[i - 1] \o s[i]
          BY <1>5
        <5> QED
          BY <5>1, <5>2
      <4>2. <<>> \o s[i] = s[i]
        BY NothingAround
      <4> QED
        BY <3>1, <4>1, <4>2
    <3>2. CASE i # 1
      <4>1. i - 1 \in 1..n
        BY <1>1, <3>2
      <4> QED
        BY <1>5, <3>2, <4>1
    <3> QED
      BY <3>1, <3>2
  <2> QED
    BY <2>1
<1>8. chosen = Body(chosen)
  <2> HIDE DEF Body, h
  <2> QED
    BY <1>7
<1>9. FlattenSeq(s) = chosen[n]
  BY <1>1 DEF FlattenSeq
<1>10. \A i \in 1..n : chosen[i] = IF i = 1 THEN s[i] ELSE chosen[i - 1] \o s[i]
  <2>1. \A i \in 1..n : Body(chosen)[i] = IF i = 1 THEN s[i] ELSE chosen[i - 1] \o s[i]
    <3> HIDE DEF chosen
    <3> QED
      OBVIOUS
  <2> HIDE DEF Body, chosen
  <2> QED
    BY <1>8, <2>1
<1> HIDE DEF chosen, h, Body
<1> DEFINE G == {i \in 0..n : i = 0 \/ chosen[i] = f[i]}
<1>11. \A k \in 0..n : k \in G
  <2>1. 0 \in G
    BY <1>1
  <2>2. ASSUME NEW k \in 1..n, k - 1 \in G PROVE k \in G
    <3>1. k \in 0..n
      BY <1>1
    <3>2. CASE k = 1
      <4>1. f[1] = <<>> \o s[1]
        <5>1. k - 1 = 0 /\ f[0] = <<>>
          BY <1>4, <3>2
        <5>2. f[k] = f[k - 1] \o s[k]
          BY <1>5
        <5> QED
          BY <5>1, <5>2, <3>2
      <4>2. <<>> \o s[1] = s[1]
        BY <3>2, NothingAround
      <4> QED
        BY <1>10, <3>1, <3>2, <4>1, <4>2
    <3>3. CASE k # 1
      <4>1. chosen[k - 1] = f[k - 1]
        BY <2>2, <3>3
      <4> QED
        BY <1>5, <1>10, <3>1, <3>3, <4>1
    <3> QED
      BY <3>2, <3>3
  <2> HIDE DEF G
  <2> QED
    BY <1>1, <2>1, <2>2, CountUp
<1>12. chosen[n] = f[n]
  BY <1>1, <1>11
<1> QED
  BY <1>4, <1>5, <1>6, <1>9, <1>12

(* Sequences of the same lengths with the same cells end to end are the same. *)
LEMMA FlattenTells ==
    ASSUME NEW s, NEW t, IsSeq(s), IsSeq(t), Len(s) > 0, Len(s) = Len(t),
           \A i \in 1..Len(s) : IsSeq(s[i]) /\ IsSeq(t[i]) /\ Len(s[i]) = Len(t[i]),
           FlattenSeq(s) = FlattenSeq(t)
    PROVE  s = t
<1>1. PICK o : /\ FlattenSeq(s) = o[Len(s)] /\ o[0] = <<>>
               /\ \A i \in 0..Len(s) : IsSeq(o[i])
               /\ \A i \in 1..Len(s) : o[i] = o[i - 1] \o s[i]
  BY FlattenSteps
<1>2. PICK q : /\ FlattenSeq(t) = q[Len(t)] /\ q[0] = <<>>
               /\ \A i \in 0..Len(t) : IsSeq(q[i])
               /\ \A i \in 1..Len(t) : q[i] = q[i - 1] \o t[i]
  BY FlattenSteps
<1> DEFINE n == Len(s)
           G == {k \in 0..n : o[n - k] = q[n - k] /\ \A j \in (n - k + 1)..n : s[j] = t[j]}
<1>0. n \in Nat /\ n > 0
  BY SeqFacts
<1>3. 0 \in G
  <2>1. n - 0 = n /\ 0 \in 0..n /\ \A j \in (n - 0 + 1)..n : FALSE
    BY <1>0
  <2>2. o[n] = q[n]
    BY <1>1, <1>2
  <2> QED
    BY <2>1, <2>2
<1>4. ASSUME NEW k \in 1..n, k - 1 \in G PROVE k \in G
  <2> DEFINE i == n - k + 1
  <2>1. i \in 1..n /\ i \in 0..n /\ i - 1 \in 0..n /\ n - (k - 1) = i /\ n - k = i - 1 /\ k \in 0..n
    BY <1>0
  <2>2. o[i] = q[i] /\ \A j \in (i + 1)..n : s[j] = t[j]
    BY <1>4, <2>1
  <2>3. o[i] = o[i - 1] \o s[i] /\ q[i] = q[i - 1] \o t[i]
    BY <1>1, <1>2, <2>1
  <2>4. IsSeq(o[i - 1]) /\ IsSeq(q[i - 1]) /\ IsSeq(s[i]) /\ IsSeq(t[i]) /\ Len(s[i]) = Len(t[i])
    BY <1>1, <1>2, <2>1
  <2> HIDE DEF i
  <2>5. o[i - 1] = q[i - 1] /\ s[i] = t[i]
    <3> DEFINE a == o[i - 1]
               b == s[i]
               c == q[i - 1]
               d == t[i]
    <3>1. IsSeq(a) /\ IsSeq(b) /\ IsSeq(c) /\ IsSeq(d) /\ Len(b) = Len(d)
      BY <2>4
    <3>2. o[i] = q[i] /\ o[i] = a \o b /\ q[i] = c \o d
      BY <2>2, <2>3
    <3> HIDE DEF a, b, c, d
    <3>3. a = c /\ b = d
      <4>1. MadeOf(o[i], a, b) /\ MadeOf(q[i], c, d)
        BY <3>1, <3>2, JoinedMadeOf, Zenon
      <4> QED
        <5>1. o[i] = q[i]
          BY <2>2
        <5>2. MadeOf(o[i], a, b) /\ MadeOf(o[i], c, d)
          BY <4>1, <5>1, Zenon
        <5> QED
          BY <3>1, <5>2, SplitMadeOf
    <3> QED
      BY <3>3 DEF a, b, c, d
  <2>6. \A j \in i..n : s[j] = t[j]
    BY <2>1, <2>2, <2>5
  <2> QED
    BY <2>1, <2>5, <2>6 DEF i
<1> HIDE DEF G
<1>5. n \in G
  <2>1. n \in 0..n
    BY <1>0
  <2> HIDE DEF n
  <2> QED
    BY <1>0, <1>3, <1>4, <2>1, CountUp
<1>6. \A j \in 1..n : s[j] = t[j]
  BY <1>0, <1>5 DEF G
<1> QED
  BY <1>6, SameSeq
-----------------------------------------------------------------------------
(* Installer packages: the digest is of the lengths of the streams and of     *)
(* what they hold end to end, which together tell the streams.                *)
MsiFile(meta, streams, ex, sig) ==
    [fmt |-> "msi", meta |-> meta, streams |-> streams, ex |-> ex, sig |-> sig]

Lengths(streams) == [i \in DOMAIN streams |-> Len(streams[i])]

(* What an installer digest was taken of, when its metadata was in it.        *)
IsMsiDigest(d, content) ==
    /\ content = <<content[1], content[2]>>
    /\ Len(content[2]) > 0 /\ IsSeq(content[2]) /\ \A s \in ToSet(content[2]) : IsSeq(s)
    /\ d[2][1][1][2] = <<content[1], Lengths(content[2])>>
    /\ d[2][1] # <<>>
    /\ d[2][2] = FlattenSeq(content[2])

MsiInv(f, S) ==
    /\ f = MsiFile(f.meta, f.streams, f.ex, f.sig)
    /\ IsSeq(f.streams) /\ Len(f.streams) > 1 /\ \A s \in ToSet(f.streams) : IsSeq(s)
    /\ f.sig # <<>> => \E content \in S : IsMsiDigest(IndirectDigest(f.sig[1]), content)
LEMMA MsiUpdate ==
    ASSUME NEW f, f = MsiFile(f.meta, f.streams, f.ex, f.sig), NEW x
    PROVE  /\ [f EXCEPT !.streams = x] = MsiFile(f.meta, x, f.ex, f.sig)
           /\ [f EXCEPT !.ex = x] = MsiFile(f.meta, f.streams, x, f.sig)
           /\ [f EXCEPT !.sig = x] = MsiFile(f.meta, f.streams, f.ex, x)
<1> DEFINE a == f.meta
           b == f.streams
           c == f.ex
           d == f.sig
<1>1. f = MsiFile(a, b, c, d)
  OBVIOUS
<1> HIDE DEF a, b, c, d
<1>2. /\ [f EXCEPT !.streams = x] = MsiFile(a, x, c, d)
      /\ [f EXCEPT !.ex = x] = MsiFile(a, b, x, d)
      /\ [f EXCEPT !.sig = x] = MsiFile(a, b, c, x)
  BY <1>1 DEF MsiFile
<1> QED
  BY <1>2 DEF a, b, c, d

LEMMA MsiFields ==
    \A a, b, c, d : LET f == MsiFile(a, b, c, d)
                    IN f.fmt = "msi" /\ f.meta = a /\ f.streams = b /\ f.ex = c /\ f.sig = d
BY DEF MsiFile

LEMMA MsiPrepared ==
    ASSUME NEW f, NEW S, MsiInv(f, S), NEW alg
    PROVE  /\ prepare_msi(f, alg) = MsiFile(f.meta, f.streams, <<compute_prehash(f, alg)>>, f.sig)
           /\ IsMsiDigest(compute_msi_fingerprint(prepare_msi(f, alg), alg), <<f.meta, f.streams>>)
<1> DEFINE p == prepare_msi(f, alg)
           e == <<compute_prehash(f, alg)>>
           d == compute_msi_fingerprint(p, alg)
           content == <<f.meta, f.streams>>
<1>1. p = MsiFile(f.meta, f.streams, e, f.sig)
  BY MsiUpdate DEF MsiInv, prepare_msi
<1>2. e # <<>> /\ e[1] = compute_prehash(f, alg)
  OBVIOUS
<1> HIDE DEF e
<1>3. p.ex = e /\ p.meta = f.meta /\ p.streams = f.streams
  BY <1>1, MsiFields
<1> HIDE DEF p
<1>4. d = Hash(alg, <<<<compute_prehash(p, alg)>>, FlattenSeq(f.streams)>>)
  BY <1>2, <1>3 DEF compute_msi_fingerprint
<1>5. compute_prehash(p, alg) = Hash(alg, <<f.meta, Lengths(f.streams)>>)
  BY <1>3 DEF compute_prehash, Lengths
<1>6. /\ d[2][1] = <<compute_prehash(p, alg)>> /\ d[2][2] = FlattenSeq(f.streams)
  BY <1>4 DEF Hash
<1>7. d[2][1] # <<>> /\ d[2][1][1][2] = <<f.meta, Lengths(f.streams)>>
  BY <1>5, <1>6 DEF Hash
<1> HIDE DEF d
<1>8. IsMsiDigest(d, content)
  <2>1. content[1] = f.meta /\ content[2] = f.streams /\ content = <<content[1], content[2]>>
    OBVIOUS
  <2>2. Len(f.streams) > 0 /\ IsSeq(f.streams) /\ \A s \in ToSet(f.streams) : IsSeq(s)
    BY SeqFacts DEF MsiInv
  <2> HIDE DEF content
  <2> QED
    BY <1>6, <1>7, <2>1, <2>2 DEF IsMsiDigest
<1> QED
  BY <1>1, <1>8 DEF d, p, e

LEMMA MsiSigned ==
    ASSUME NEW f, NEW S, MsiInv(f, S), NEW req, NEW g \in sign_msi(f, req)
    PROVE  MsiInv(g, S \cup {<<f.meta, f.streams>>}) /\ MsiContent(g) = <<f.meta, f.streams>>
<1> DEFINE p == prepare_msi(f, req.alg)
           d == compute_msi_fingerprint(p, req.alg)
           T == S \cup {<<f.meta, f.streams>>}
<1>1. PICK c \in create_authenticode_pkcs7(req.material, "msi", req.alg, d) :
          \E t \in maybe_timestamp_pkcs7(c, req.tsa) : g = msi_embed(p, t)
  BY Zenon DEF sign_msi
<1>2. PICK t \in maybe_timestamp_pkcs7(c, req.tsa) : g = msi_embed(p, t)
  BY <1>1
<1>3. IsCms(c) /\ IndirectDigest(c) = d
  <2> HIDE DEF d
  <2> QED
    BY SpcMade
<1>4. IndirectDigest(t) = d
  BY <1>3, MaybeStamped, SameSaid, Zenon
<1>5. /\ p = MsiFile(f.meta, f.streams, <<compute_prehash(f, req.alg)>>, f.sig)
      /\ IsMsiDigest(d, <<f.meta, f.streams>>)
  BY MsiPrepared
<1> DEFINE e == <<compute_prehash(f, req.alg)>>
           s == <<t>>
<1> HIDE DEF p, d, e
<1>6. g = MsiFile(f.meta, f.streams, e, s)
  <2>1. p.meta = f.meta /\ p.streams = f.streams /\ p.ex = e /\ p.sig = f.sig
    BY <1>5, MsiFields DEF e
  <2>2. p = MsiFile(p.meta, p.streams, p.ex, p.sig)
    BY <1>5, <2>1 DEF e
  <2> QED
    BY <1>2, <2>1, <2>2, MsiUpdate DEF msi_embed
<1>7. s[1] = t
  OBVIOUS
<1> HIDE DEF s
<1>8. g.meta = f.meta /\ g.streams = f.streams /\ g.ex = e /\ g.sig = s
  BY <1>6, MsiFields
<1>9. \E content \in T : IsMsiDigest(IndirectDigest(g.sig[1]), content)
  BY <1>4, <1>5, <1>7, <1>8
<1>10. MsiContent(g) = <<f.meta, f.streams>>
  BY <1>8 DEF MsiContent
<1> HIDE DEF T
<1> QED
  BY <1>6, <1>8, <1>9, <1>10 DEF MsiInv, T

LEMMA MsiMatched ==
    ASSUME NEW f, NEW S, MsiInv(f, S), f.sig # <<>>, NEW alg,
           IndirectDigest(f.sig[1]) = compute_msi_fingerprint(f, alg)
    PROVE  MsiContent(f) \in S
<1> DEFINE d == compute_msi_fingerprint(f, alg)
<1>1. PICK content \in S : IsMsiDigest(d, content)
  BY DEF MsiInv
<1> DEFINE s == content[2]
           r == f.streams
<1>2. d[2][1] = (IF f.ex # <<>> THEN <<compute_prehash(f, alg)>> ELSE <<>>) /\ d[2][2] = FlattenSeq(r)
  BY DEF compute_msi_fingerprint, Hash
<1>3. /\ content = <<content[1], s>> /\ Len(s) > 0 /\ IsSeq(s) /\ \A x \in ToSet(s) : IsSeq(x)
      /\ d[2][1][1][2] = <<content[1], Lengths(s)>>
      /\ d[2][1] # <<>>
      /\ d[2][2] = FlattenSeq(s)
  BY <1>1 DEF IsMsiDigest
<1> HIDE DEF d, s
<1>4. d[2][1] = <<compute_prehash(f, alg)>>
  BY <1>2, <1>3
<1>5. <<f.meta, Lengths(r)>> = <<content[1], Lengths(s)>>
  <2>1. compute_prehash(f, alg)[2] = <<f.meta, Lengths(r)>>
    BY DEF compute_prehash, Lengths, Hash
  <2> QED
    BY <1>3, <1>4, <2>1
<1>6. f.meta = content[1] /\ Lengths(r) = Lengths(s)
  <2> DEFINE x == Lengths(r)
             y == Lengths(s)
  <2>1. <<f.meta, x>> = <<content[1], y>>
    BY <1>5
  <2> HIDE DEF x, y
  <2>2. f.meta = content[1] /\ x = y
    BY <2>1
  <2> QED
    BY <2>2 DEF x, y
<1>7. IsSeq(r) /\ \A x \in ToSet(r) : IsSeq(x)
  BY DEF MsiInv
<1> HIDE DEF r
<1>8. Len(r) = Len(s) /\ \A i \in 1..Len(s) : Len(r[i]) = Len(s[i])
  <2>1. /\ DOMAIN r = 1..Len(r) /\ DOMAIN s = 1..Len(s) /\ Len(r) \in Nat /\ Len(s) \in Nat
    BY <1>3, <1>7, SeqFacts
  <2>2. DOMAIN Lengths(r) = DOMAIN r /\ DOMAIN Lengths(s) = DOMAIN s
    BY DEF Lengths
  <2>3. 1..Len(r) = 1..Len(s)
    BY <1>6, <2>1, <2>2
  <2>4. Len(r) = Len(s)
    BY <2>1, <2>3, SameRange
  <2>5. \A i \in 1..Len(s) : Lengths(r)[i] = Len(r[i]) /\ Lengths(s)[i] = Len(s[i])
    BY <2>1, <2>3 DEF Lengths
  <2> QED
    BY <1>6, <2>4, <2>5
<1>9. \A i \in 1..Len(s) : IsSeq(r[i]) /\ IsSeq(s[i])
  BY <1>3, <1>7, <1>8, SeqFacts
<1>10. FlattenSeq(s) = FlattenSeq(r)
  BY <1>2, <1>3
<1>11. s = r
  BY <1>3, <1>7, <1>8, <1>9, <1>10, FlattenTells
<1> QED
  BY <1>3, <1>6, <1>11 DEF MsiContent, r

LEMMA ReplacedFacts ==
    ASSUME NEW s, IsSeq(s), NEW n \in 1..Len(s), NEW x
    PROVE  /\ IsSeq(Replaced(s, n, x)) /\ Len(Replaced(s, n, x)) = Len(s)
           /\ \A i \in 1..Len(s) : Replaced(s, n, x)[i] = IF i = n THEN x ELSE s[i]
           /\ ToSet(Replaced(s, n, x)) \subseteq ToSet(s) \cup {x}
<1> DEFINE S == ToSet(s) \cup {x}
           r == [s EXCEPT ![n] = x]
<1>1. s \in Seq(S) /\ x \in S /\ DOMAIN s = 1..Len(s) /\ Len(s) \in Nat
  BY SeqFacts
<1> HIDE DEF S
<1>2. r \in Seq(S) /\ Len(r) = Len(s) /\ \A i \in 1..Len(s) : r[i] = IF i = n THEN x ELSE s[i]
  BY <1>1
<1>3. IsSeq(r) /\ ToSet(r) \subseteq S
  BY <1>2, SeqOver
<1> QED
  BY <1>2, <1>3 DEF Replaced, S

LEMMA StreamsEdited ==
    ASSUME NEW r, IsSeq(r), Len(r) > 1, \A s \in ToSet(r) : IsSeq(s), NEW x \in EditedStreams(r)
    PROVE  IsSeq(x) /\ Len(x) = Len(r) /\ \A s \in ToSet(x) : IsSeq(s)
<1>1. /\ Len(r) \in Nat /\ DOMAIN r = 1..Len(r) /\ \A i \in 1..Len(r) : IsSeq(r[i])
  BY SeqFacts
<1>2. ASSUME NEW i \in DOMAIN r, NEW v, x = StreamsWith(r, i, v)
      PROVE  IsSeq(x) /\ Len(x) = Len(r) /\ \A s \in ToSet(x) : IsSeq(s)
  <2> DEFINE one == <<v>>
  <2>1. IsSeq(one)
    BY Single
  <2>2. x = Replaced(r, i, one) /\ i \in 1..Len(r)
    BY <1>1, <1>2 DEF StreamsWith
  <2> HIDE DEF one
  <2>3. IsSeq(x) /\ Len(x) = Len(r) /\ ToSet(x) \subseteq ToSet(r) \cup {one}
    BY <2>2, ReplacedFacts
  <2> QED
    BY <2>1, <2>3
<1>3. LET x2 == StreamsShifted(r) IN IsSeq(x2) /\ Len(x2) = Len(r) /\ \A s \in ToSet(x2) : IsSeq(s)
  <2> DEFINE y == r[1] \o r[2]
             a == <<y>>
             e == <<>>
             b == <<e>>
             c == SubSeq(r, 3, Len(r))
             ab == a \o b
  <2>1. IsSeq(y)
    BY <1>1, Joined
  <2> HIDE DEF y
  <2>2. IsSeq(a) /\ Len(a) = 1 /\ ToSet(a) = {y} /\ IsSeq(e) /\ IsSeq(b) /\ Len(b) = 1 /\ ToSet(b) = {e}
    BY Single, Empty
  <2>3. IsSeq(c) /\ Len(c) = Len(r) - 2 /\ ToSet(c) \subseteq ToSet(r)
    <3>1. 3 \in 1..(Len(r) + 1) /\ Len(r) \in (3 - 1)..Len(r)
      BY <1>1
    <3> QED
      BY <1>1, <3>1, Cut
  <2> HIDE DEF a, b, c, e
  <2>4. IsSeq(ab) /\ Len(ab) = 2 /\ ToSet(ab) = {y, e}
    <3>1. /\ IsSeq(a \o b) /\ Len(a \o b) = Len(a) + Len(b) /\ ToSet(a \o b) = ToSet(a) \cup ToSet(b)
      BY <2>2, Joined
    <3> QED
      BY <2>2, <3>1
  <2> HIDE DEF ab
  <2>5. IsSeq(ab \o c) /\ Len(ab \o c) = Len(ab) + Len(c) /\ ToSet(ab \o c) = ToSet(ab) \cup ToSet(c)
    BY <2>3, <2>4, Joined
  <2>6. StreamsShifted(r) = ab \o c
    BY DEF StreamsShifted, ab, a, b, c, e, y
  <2> DEFINE z == ab \o c
  <2>7. IsSeq(z) /\ Len(z) = Len(r) /\ \A s \in ToSet(z) : IsSeq(s)
    BY <1>1, <2>1, <2>2, <2>3, <2>4, <2>5
  <2> HIDE DEF z
  <2>8. StreamsShifted(r) = z
    BY <2>6 DEF z
  <2> QED
    BY <2>7, <2>8
<1>4. (\E i \in DOMAIN r, v \in Values : x = StreamsWith(r, i, v)) \/ x = StreamsShifted(r)
  BY DEF EditedStreams
<1> QED
  BY <1>2, <1>3, <1>4, Zenon

LEMMA MsiEdited ==
    ASSUME NEW f, NEW S, MsiInv(f, S), NEW x \in EditedStreams(f.streams)
    PROVE  MsiInv([f EXCEPT !.streams = x], S)
<1> DEFINE g == [f EXCEPT !.streams = x]
<1>1. g = MsiFile(f.meta, x, f.ex, f.sig)
  BY MsiUpdate DEF MsiInv
<1>2. g.meta = f.meta /\ g.streams = x /\ g.ex = f.ex /\ g.sig = f.sig
  BY <1>1, MsiFields
<1>3. IsSeq(x) /\ Len(x) > 1 /\ \A s \in ToSet(x) : IsSeq(s)
  BY StreamsEdited DEF MsiInv
<1> HIDE DEF g
<1>4. MsiInv(g, S)
  BY <1>1, <1>2, <1>3 DEF MsiInv
<1> QED
  BY <1>4 DEF g
-----------------------------------------------------------------------------
(* Cells.  What is signed of a manifest is what is left without its first     *)
(* Signature element.                                                         *)
Cells(s, kinds) == \A c \in ToSet(s) : c = Cell(c[1], c[2]) /\ c[1] \in kinds

LEMMA CellsJoined ==
    ASSUME NEW s, NEW t, NEW K, IsSeq(s), IsSeq(t)
    PROVE  Cells(s \o t, K) <=> Cells(s, K) /\ Cells(t, K)
<1>1. ToSet(s \o t) = ToSet(s) \cup ToSet(t)
  BY Joined
<1> QED
  BY <1>1 DEF Cells

LEMMA LeastIsThere ==
    ASSUME NEW T, T \subseteq Nat, T # {}
    PROVE  Min(T) \in T /\ \A x \in T : Min(T) <= x
<1>1. \E x \in T : \A y \in T : x <= y
  BY LeastElement
<1> QED
  BY <1>1 DEF Min

LEMMA GreatestIsThere ==
    ASSUME NEW n \in Nat, NEW T, T \subseteq 1..n, T # {}
    PROVE  Max(T) \in T /\ \A x \in T : Max(T) >= x
<1> DEFINE U == {n - x : x \in T}
<1>1. U \subseteq Nat /\ U # {}
  <2>1. \A x \in T : n - x \in Nat
    OBVIOUS
  <2> QED
    BY <2>1
<1> HIDE DEF U
<1>2. PICK m \in U : \A y \in U : m <= y
  BY <1>1, LeastElement
<1>3. PICK x \in T : m = n - x
  BY DEF U
<1>4. \A y \in T : n - y \in U
  BY DEF U
<1>5. \A y \in T : x >= y
  BY <1>2, <1>3, <1>4
<1> QED
  BY <1>5 DEF Max

(* A sequence without its k-th element, and with one more before it.          *)
Dropped(s, k) == SubSeq(s, 1, k - 1) \o SubSeq(s, k + 1, Len(s))
Inserted(s, k, x) == SubSeq(s, 1, k - 1) \o <<x>> \o SubSeq(s, k, Len(s))

LEMMA DroppedFacts ==
    ASSUME NEW s, IsSeq(s), NEW k \in 1..Len(s)
    PROVE  /\ IsSeq(Dropped(s, k)) /\ Len(Dropped(s, k)) = Len(s) - 1
           /\ \A i \in 1..(k - 1) : Dropped(s, k)[i] = s[i]
           /\ \A i \in k..(Len(s) - 1) : Dropped(s, k)[i] = s[i + 1]
           /\ ToSet(Dropped(s, k)) = {s[i] : i \in 1..Len(s) \ {k}}
<1> DEFINE a == SubSeq(s, 1, k - 1)
           b == SubSeq(s, k + 1, Len(s))
<1>0. Len(s) \in Nat
  BY SeqFacts
<1>1. /\ IsSeq(a) /\ Len(a) = k - 1 /\ (\A i \in 1..(k - 1) : a[i] = s[i])
      /\ ToSet(a) = {s[i] : i \in 1..(k - 1)}
  <2>1. 1 \in 1..(Len(s) + 1) /\ k - 1 \in (1 - 1)..Len(s)
    BY <1>0
  <2>2. /\ IsSeq(a) /\ Len(a) = (k - 1) - 1 + 1 /\ ToSet(a) = {s[i] : i \in 1..(k - 1)}
        /\ \A i \in 1..((k - 1) - 1 + 1) : a[i] = s[1 + i - 1]
    BY <2>1, Cut
  <2>3. (k - 1) - 1 + 1 = k - 1 /\ \A i \in 1..(k - 1) : 1 + i - 1 = i
    BY <1>0
  <2> QED
    BY <2>2, <2>3
<1>2. /\ IsSeq(b) /\ Len(b) = Len(s) - k /\ (\A i \in 1..(Len(s) - k) : b[i] = s[k + i])
      /\ ToSet(b) = {s[i] : i \in (k + 1)..Len(s)}
  <2>1. k + 1 \in 1..(Len(s) + 1) /\ Len(s) \in ((k + 1) - 1)..Len(s)
    BY <1>0
  <2>2. /\ IsSeq(b) /\ Len(b) = Len(s) - (k + 1) + 1
        /\ \A i \in 1..(Len(s) - (k + 1) + 1) : b[i] = s[(k + 1) + i - 1]
        /\ ToSet(b) = {s[i] : i \in (k + 1)..Len(s)}
    BY <2>1, Cut
  <2>3. Len(s) - (k + 1) + 1 = Len(s) - k /\ \A i \in 1..(Len(s) - k) : (k + 1) + i - 1 = k + i
    BY <1>0
  <2> QED
    BY <2>2, <2>3
<1>3. Dropped(s, k) = a \o b
  BY DEF Dropped
<1> HIDE DEF a, b
<1>4. /\ IsSeq(a \o b) /\ Len(a \o b) = Len(a) + Len(b) /\ ToSet(a \o b) = ToSet(a) \cup ToSet(b)
      /\ \A i \in 1..Len(a) : (a \o b)[i] = a[i]
      /\ \A i \in (Len(a) + 1)..(Len(a) + Len(b)) : (a \o b)[i] = b[i - Len(a)]
  <2>1. IsSeq(a) /\ IsSeq(b)
    BY <1>1, <1>2
  <2> QED
    BY <2>1, Joined
<1> DEFINE d == a \o b
<1> HIDE DEF d
<1>5. /\ IsSeq(d) /\ Len(d) = Len(s) - 1 /\ ToSet(d) = ToSet(a) \cup ToSet(b)
      /\ \A i \in 1..(k - 1) : d[i] = a[i]
      /\ \A i \in k..(Len(s) - 1) : d[i] = b[i - k + 1]
  <2>1. (k - 1) + 1 = k /\ (k - 1) + (Len(s) - k) = Len(s) - 1 /\ \A i \in k..(Len(s) - 1) : i - (k - 1) = i - k + 1
    BY <1>0
  <2>2. /\ IsSeq(d) /\ Len(d) = (k - 1) + (Len(s) - k) /\ ToSet(d) = ToSet(a) \cup ToSet(b)
        /\ \A i \in 1..(k - 1) : d[i] = a[i]
        /\ \A i \in ((k - 1) + 1)..((k - 1) + (Len(s) - k)) : d[i] = b[i - (k - 1)]
    BY <1>1, <1>2, <1>4 DEF d
  <2> QED
    BY <2>1, <2>2
<1>6. ASSUME NEW i \in k..(Len(s) - 1) PROVE d[i] = s[i + 1]
  <2>1. i - k + 1 \in 1..(Len(s) - k) /\ k + (i - k + 1) = i + 1
    BY <1>0
  <2> QED
    BY <1>2, <1>5, <2>1
<1>7. ToSet(d) = {s[i] : i \in 1..Len(s) \ {k}}
  <2>1. 1..Len(s) \ {k} = (1..(k - 1)) \cup ((k + 1)..Len(s))
    BY <1>0
  <2> QED
    BY <1>1, <1>2, <1>5, <2>1
<1>8. Dropped(s, k) = d
  BY <1>3 DEF d
<1> QED
  BY <1>1, <1>5, <1>6, <1>7, <1>8

LEMMA InsertedFacts ==
    ASSUME NEW s, IsSeq(s), NEW k \in 1..Len(s), NEW x
    PROVE  /\ IsSeq(Inserted(s, k, x)) /\ Len(Inserted(s, k, x)) = Len(s) + 1
           /\ \A i \in 1..(k - 1) : Inserted(s, k, x)[i] = s[i]
           /\ Inserted(s, k, x)[k] = x
           /\ \A i \in (k + 1)..(Len(s) + 1) : Inserted(s, k, x)[i] = s[i - 1]
           /\ ToSet(Inserted(s, k, x)) = ToSet(s) \cup {x}
<1> DEFINE a == SubSeq(s, 1, k - 1)
           one == <<x>>
           b == SubSeq(s, k, Len(s))
           ab == a \o one
<1>0. Len(s) \in Nat
  BY SeqFacts
<1>1. /\ IsSeq(a) /\ Len(a) = k - 1 /\ (\A i \in 1..(k - 1) : a[i] = s[i])
      /\ ToSet(a) = {s[i] : i \in 1..(k - 1)}
  <2>1. 1 \in 1..(Len(s) + 1) /\ k - 1 \in (1 - 1)..Len(s)
    BY <1>0
  <2>2. /\ IsSeq(a) /\ Len(a) = (k - 1) - 1 + 1 /\ ToSet(a) = {s[i] : i \in 1..(k - 1)}
        /\ \A i \in 1..((k - 1) - 1 + 1) : a[i] = s[1 + i - 1]
    BY <2>1, Cut
  <2>3. (k - 1) - 1 + 1 = k - 1 /\ \A i \in 1..(k - 1) : 1 + i - 1 = i
    BY <1>0
  <2> QED
    BY <2>2, <2>3
<1>2. /\ IsSeq(b) /\ Len(b) = Len(s) - k + 1 /\ (\A i \in 1..(Len(s) - k + 1) : b[i] = s[k + i - 1])
      /\ ToSet(b) = {s[i] : i \in k..Len(s)}
  <2>1. k \in 1..(Len(s) + 1) /\ Len(s) \in (k - 1)..Len(s)
    BY <1>0
  <2> QED
    BY <2>1, Cut
<1>3. IsSeq(one) /\ Len(one) = 1 /\ one[1] = x /\ ToSet(one) = {x}
  BY Single
<1>9. Inserted(s, k, x) = ab \o b
  BY DEF Inserted
<1> HIDE DEF a, b, one
<1>4. /\ IsSeq(ab) /\ Len(ab) = k /\ ToSet(ab) = ToSet(a) \cup {x}
      /\ \A i \in 1..(k - 1) : ab[i] = s[i]
      /\ ab[k] = x
  <2>1. /\ IsSeq(a \o one) /\ Len(a \o one) = Len(a) + Len(one) /\ ToSet(a \o one) = ToSet(a) \cup ToSet(one)
        /\ \A i \in 1..Len(a) : (a \o one)[i] = a[i]
        /\ \A i \in 1..Len(one) : (a \o one)[Len(a) + i] = one[i]
    <3>1. IsSeq(a) /\ IsSeq(one)
      BY <1>1, <1>3
    <3> QED
      BY <3>1, Joined
  <2>2. 1 \in 1..Len(one) /\ (k - 1) + 1 = k
    BY <1>0, <1>3
  <2> QED
    BY <1>1, <1>3, <2>1, <2>2
<1> HIDE DEF ab
<1>5. /\ IsSeq(ab \o b) /\ Len(ab \o b) = Len(ab) + Len(b) /\ ToSet(ab \o b) = ToSet(ab) \cup ToSet(b)
      /\ \A i \in 1..Len(ab) : (ab \o b)[i] = ab[i]
      /\ \A i \in (Len(ab) + 1)..(Len(ab) + Len(b)) : (ab \o b)[i] = b[i - Len(ab)]
  <2>1. IsSeq(ab) /\ IsSeq(b)
    BY <1>2, <1>4
  <2> QED
    BY <2>1, Joined
<1> DEFINE d == ab \o b
<1> HIDE DEF d
<1>6. /\ IsSeq(d) /\ Len(d) = Len(s) + 1 /\ ToSet(d) = ToSet(ab) \cup ToSet(b)
      /\ \A i \in 1..k : d[i] = ab[i]
      /\ \A i \in (k + 1)..(Len(s) + 1) : d[i] = b[i - k]
  <2>1. k + (Len(s) - k + 1) = Len(s) + 1
    BY <1>0
  <2>2. /\ IsSeq(d) /\ Len(d) = k + (Len(s) - k + 1) /\ ToSet(d) = ToSet(ab) \cup ToSet(b)
        /\ \A i \in 1..k : d[i] = ab[i]
        /\ \A i \in (k + 1)..(k + (Len(s) - k + 1)) : d[i] = b[i - k]
    BY <1>2, <1>4, <1>5 DEF d
  <2> QED
    BY <2>1, <2>2
<1>7. ASSUME NEW i \in (k + 1)..(Len(s) + 1) PROVE d[i] = s[i - 1]
  <2>1. i - k \in 1..(Len(s) - k + 1) /\ k + (i - k) - 1 = i - 1
    BY <1>0
  <2> QED
    BY <1>2, <1>6, <2>1
<1>8. ToSet(d) = ToSet(s) \cup {x}
  <2>1. 1..Len(s) = (1..(k - 1)) \cup (k..Len(s))
    BY <1>0
  <2>2. ToSet(s) = {s[i] : i \in 1..Len(s)}
    BY SeqFacts
  <2> QED
    BY <1>1, <1>2, <1>4, <1>6, <2>1, <2>2
<1>10. Inserted(s, k, x) = d
  BY <1>9 DEF d
<1>11. k \in 1..k /\ \A i \in 1..(k - 1) : i \in 1..k
  BY <1>0
<1> QED
  BY <1>4, <1>6, <1>7, <1>8, <1>10, <1>11

LEMMA DroppedAgain ==
    ASSUME NEW s, IsSeq(s), NEW k \in 1..Len(s), NEW x
    PROVE  Dropped(Inserted(s, k, x), k) = s
<1> DEFINE w == Inserted(s, k, x)
           d == Dropped(w, k)
<1>0. Len(s) \in Nat
  BY SeqFacts
<1>1. /\ IsSeq(w) /\ Len(w) = Len(s) + 1
      /\ \A i \in 1..(k - 1) : w[i] = s[i]
      /\ \A i \in (k + 1)..(Len(s) + 1) : w[i] = s[i - 1]
  BY InsertedFacts
<1> HIDE DEF w
<1>2. /\ IsSeq(d) /\ Len(d) = Len(w) - 1
      /\ \A i \in 1..(k - 1) : d[i] = w[i]
      /\ \A i \in k..(Len(w) - 1) : d[i] = w[i + 1]
  <2>1. k \in 1..Len(w)
    BY <1>0, <1>1
  <2> QED
    BY <1>1, <2>1, DroppedFacts
<1> HIDE DEF d
<1>3. Len(d) = Len(s)
  BY <1>0, <1>1, <1>2
<1>4. ASSUME NEW i \in 1..Len(s) PROVE d[i] = s[i]
  <2>1. CASE i < k
    <3>1. i \in 1..(k - 1)
      BY <1>0, <2>1
    <3> QED
      BY <1>1, <1>2, <3>1
  <2>2. CASE ~(i < k)
    <3>1. i \in k..(Len(w) - 1) /\ i + 1 \in (k + 1)..(Len(s) + 1) /\ (i + 1) - 1 = i
      BY <1>0, <1>1, <2>2
    <3> QED
      BY <1>1, <1>2, <3>1
  <2> QED
    BY <2>1, <2>2
<1>5. d = s
  BY <1>2, <1>3, <1>4, SameSeq
<1> QED
  BY <1>5 DEF d, w

LEMMA CellFields == \A kind, x : Cell(kind, x)[1] = kind /\ Cell(kind, x)[2] = x
BY DEF Cell

(* What an edit leaves as it was: all cells but content.                      *)
EditOf(x, s) ==
    /\ IsSeq(x) /\ Len(s) <= Len(x) /\ Len(x) <= Len(s) + 1
    /\ \A i \in 1..Len(s) : x[i] = s[i] \/ (x[i][1] = "code" /\ s[i][1] = "code")
    /\ \A i \in 1..Len(x) : i > Len(s) => x[i][1] = "code"
    /\ \A c \in ToSet(x) : c \in ToSet(s) \/ c = Cell("code", c[2])

LEMMA DataEdited ==
    ASSUME NEW s, IsSeq(s), NEW x \in EditedData(s)
    PROVE  EditOf(x, s)
<1>0. Len(s) \in Nat /\ DOMAIN s = 1..Len(s)
  BY SeqFacts
<1>1. ASSUME NEW n \in 1..Len(s), NEW v, s[n][1] = "code", x = DataWith(s, n, v)
      PROVE  EditOf(x, s)
  <2> DEFINE c == Cell("code", v)
  <2>1. c[1] = "code" /\ c = Cell("code", c[2])
    BY DEF Cell
  <2>2. x = Replaced(s, n, c)
    BY <1>1 DEF DataWith
  <2> HIDE DEF c
  <2>3. /\ IsSeq(x) /\ Len(x) = Len(s) /\ ToSet(x) \subseteq ToSet(s) \cup {c}
        /\ \A i \in 1..Len(s) : x[i] = IF i = n THEN c ELSE s[i]
    BY <2>2, ReplacedFacts
  <2> QED
    BY <1>0, <1>1, <2>1, <2>3 DEF EditOf
<1>2. ASSUME NEW v, x = DataMore(s, v)
      PROVE  EditOf(x, s)
  <2> DEFINE c == Cell("code", v)
             one == <<c>>
  <2>1. c[1] = "code" /\ c = Cell("code", c[2])
    BY DEF Cell
  <2>2. x = Append(s, c)
    BY <1>2 DEF DataMore
  <2> HIDE DEF c
  <2>3. x = s \o one
    <3>1. s \in Seq(ToSet(s) \cup {c}) /\ c \in ToSet(s) \cup {c}
      BY SeqFacts
    <3> QED
      BY <2>2, <3>1, AppendIsConcat
  <2>4. IsSeq(one) /\ Len(one) = 1 /\ one[1] = c /\ ToSet(one) = {c}
    BY Single
  <2> HIDE DEF one
  <2>5. /\ IsSeq(s \o one) /\ Len(s \o one) = Len(s) + Len(one)
        /\ ToSet(s \o one) = ToSet(s) \cup ToSet(one)
        /\ \A i \in 1..Len(s) : (s \o one)[i] = s[i]
        /\ \A i \in 1..Len(one) : (s \o one)[Len(s) + i] = one[i]
    <3>1. IsSeq(one)
      BY <2>4
    <3> QED
      BY <3>1, Joined
  <2> DEFINE z == s \o one
  <2>6. /\ IsSeq(z) /\ Len(z) = Len(s) + 1 /\ ToSet(z) = ToSet(s) \cup {c}
        /\ (\A i \in 1..Len(s) : z[i] = s[i]) /\ z[Len(s) + 1] = c
    BY <2>4, <2>5
  <2> HIDE DEF z
  <2>7. \A i \in 1..Len(z) : i > Len(s) => i = Len(s) + 1
    BY <1>0, <2>6
  <2>8. EditOf(z, s)
    BY <1>0, <2>1, <2>6, <2>7 DEF EditOf
  <2> QED
    BY <2>3, <2>8 DEF z
<1>3. (\E i \in {j \in DOMAIN s : s[j][1] = "code"}, v \in Values : x = DataWith(s, i, v))
      \/ (\E v \in Values : x = DataMore(s, v))
  BY DEF EditedData
<1> QED
  BY <1>0, <1>1, <1>2, <1>3
-----------------------------------------------------------------------------
(* ClickOnce manifests.                                                       *)
CoTold(d) == d[2][2][2]

CoFile(data) == [fmt |-> "clickonce", data |-> data]

CoInv(f, S) ==
    /\ f = CoFile(f.data) /\ IsSeq(f.data)
    /\ \A i, j \in 1..Len(f.data) : f.data[i][1] = "xml" /\ f.data[j][1] = "xml" => i = j
    /\ \A i \in 1..Len(f.data) : f.data[i][1] = "xml" => CoTold(f.data[i][2].value[2]) \in S

LEMMA CoFields == \A d : CoFile(d).fmt = "clickonce" /\ CoFile(d).data = d
BY DEF CoFile

LEMMA CoUpdate ==
    ASSUME NEW f, f = CoFile(f.data), NEW x
    PROVE  [f EXCEPT !.data = x] = CoFile(x)
<1> DEFINE d == f.data
<1>1. f = CoFile(d)
  OBVIOUS
<1> HIDE DEF d
<1> QED
  BY <1>1 DEF CoFile

(* The manifest without its signature.                                        *)
LEMMA CoUnsigned ==
    ASSUME NEW s, IsSeq(s), \A i, j \in 1..Len(s) : s[i][1] = "xml" /\ s[j][1] = "xml" => i = j
    PROVE  LET u == unsigned_clickonce_manifest(s)
           IN /\ IsSeq(u) /\ (\A i \in 1..Len(u) : u[i][1] # "xml")
              /\ \A k \in 1..Len(s) : s[k][1] = "xml" => u = Dropped(s, k)
              /\ (\A i \in 1..Len(s) : s[i][1] # "xml") => u = s
<1> DEFINE at == {i \in DOMAIN s : s[i][1] = "xml"}
           u == unsigned_clickonce_manifest(s)
<1>0. Len(s) \in Nat /\ DOMAIN s = 1..Len(s)
  BY SeqFacts
<1>1. CASE at = {}
  <2>1. u = s
    BY <1>1 DEF unsigned_clickonce_manifest
  <2> HIDE DEF u
  <2>2. \A i \in 1..Len(s) : s[i][1] # "xml"
    BY <1>0, <1>1
  <2> QED
    BY <2>1, <2>2 DEF u
<1>2. CASE at # {}
  <2>1. at \subseteq Nat
    BY <1>0
  <2>2. Min(at) \in at
    BY <1>2, <2>1, LeastIsThere
  <2>3. u = Dropped(s, Min(at))
    BY <1>2 DEF unsigned_clickonce_manifest, Dropped
  <2>4. Min(at) \in 1..Len(s) /\ s[Min(at)][1] = "xml"
    BY <1>0, <2>2
  <2> DEFINE k == Min(at)
  <2> HIDE DEF u, k, at
  <2>5. k \in 1..Len(s) /\ s[k][1] = "xml" /\ u = Dropped(s, k)
    BY <2>3, <2>4 DEF k
  <2>6. IsSeq(u) /\ ToSet(u) = {s[i] : i \in 1..Len(s) \ {k}}
    BY <2>5, DroppedFacts
  <2>7. \A i \in 1..Len(u) : u[i] \in ToSet(u)
    BY <2>6, SeqFacts
  <2>8. \A i \in 1..Len(s) \ {k} : s[i][1] # "xml"
    BY <2>5
  <2>9. \A i \in 1..Len(u) : u[i][1] # "xml"
    BY <2>6, <2>7, <2>8
  <2> QED
    BY <2>5, <2>6, <2>9 DEF u
<1> QED
  BY <1>1, <1>2

CoXml(info, value, cert) == [info |-> info, value |-> value, cert |-> cert]
HasXml(s, xml) == \E k \in 1..Len(s) : s[k] = Cell("xml", xml)

LEMMA CoWith ==
    ASSUME NEW f, NEW S, CoInv(f, S), NEW info, NEW value, NEW cert, NEW T, CoTold(value[2]) \in T,
           NEW g \in ClickOnceWith(f, info, value, cert)
    PROVE  /\ CoInv(g, T)
           /\ unsigned_clickonce_manifest(g.data) = unsigned_clickonce_manifest(f.data)
           /\ HasXml(g.data, CoXml(info, value, cert))
<1> DEFINE s == f.data
           u == unsigned_clickonce_manifest(s)
           xml == CoXml(info, value, cert)
           x == Cell("xml", xml)
           ends == {i \in DOMAIN u : u[i] = Close}
           n == Max(ends)
           w == Inserted(u, n, x)
<1>1. /\ f = CoFile(s) /\ IsSeq(s)
      /\ \A i, j \in 1..Len(s) : s[i][1] = "xml" /\ s[j][1] = "xml" => i = j
  BY DEF CoInv
<1>2. x[1] = "xml" /\ x[2] = xml /\ xml.value = value
  BY DEF Cell, CoXml
<1>3. PICK d \in insert_clickonce_signature(u, xml) : g = [f EXCEPT !.data = d]
  BY Zenon DEF ClickOnceWith, CoXml
<1>4. ends # {} /\ d = w
  BY <1>3 DEF insert_clickonce_signature, When, Inserted
<1> HIDE DEF s, u, x, xml, w
<1>5. /\ IsSeq(u) /\ \A i \in 1..Len(u) : u[i][1] # "xml"
  BY <1>1, CoUnsigned DEF u
<1>6. n \in 1..Len(u)
  <2>1. Len(u) \in Nat /\ DOMAIN u = 1..Len(u)
    BY <1>5, SeqFacts
  <2>2. ends \subseteq 1..Len(u)
    BY <2>1
  <2> HIDE DEF ends
  <2>3. n \in ends
    BY <1>4, <2>1, <2>2, GreatestIsThere
  <2> QED
    BY <2>2, <2>3
<1> HIDE DEF n, ends
<1>7. /\ IsSeq(w) /\ Len(w) = Len(u) + 1
      /\ \A i \in 1..(n - 1) : w[i] = u[i]
      /\ w[n] = x
      /\ \A i \in (n + 1)..(Len(u) + 1) : w[i] = u[i - 1]
  BY <1>5, <1>6, InsertedFacts DEF w
<1>8. \A i \in 1..Len(w) : w[i][1] = "xml" => i = n
  <2>0. Len(u) \in Nat
    BY <1>5, SeqFacts
  <2>1. ASSUME NEW i \in 1..Len(w), i # n PROVE w[i][1] # "xml"
    <3>1. CASE i < n
      <4>1. i \in 1..(n - 1) /\ i \in 1..Len(u)
        BY <1>6, <1>7, <2>0, <3>1
      <4> QED
        BY <1>5, <1>7, <4>1
    <3>2. CASE ~(i < n)
      <4>1. i \in (n + 1)..(Len(u) + 1) /\ i - 1 \in 1..Len(u)
        BY <1>6, <1>7, <2>0, <2>1, <3>2
      <4> QED
        BY <1>5, <1>7, <4>1
    <3> QED
      BY <3>1, <3>2
  <2> QED
    BY <2>1
<1>9. n \in 1..Len(w)
  <2>1. Len(u) \in Nat
    BY <1>5, SeqFacts
  <2> QED
    BY <1>6, <1>7, <2>1
<1>10. g = CoFile(w) /\ g.data = w
  <2>1. g = CoFile(w)
    BY <1>1, <1>3, <1>4, CoUpdate DEF s
  <2> QED
    BY <2>1, CoFields
<1>11. CoInv(g, T)
  <2>1. CoTold(w[n][2].value[2]) \in T
    BY <1>2, <1>7
  <2> QED
    BY <1>7, <1>8, <1>10, <2>1 DEF CoInv
<1>12. unsigned_clickonce_manifest(w) = u
  <2>1. w[n][1] = "xml"
    BY <1>2, <1>7
  <2>2. unsigned_clickonce_manifest(w) = Dropped(w, n)
    BY <1>7, <1>8, <1>9, <2>1, CoUnsigned
  <2> QED
    BY <1>5, <1>6, <2>2, DroppedAgain DEF w
<1>13. HasXml(w, xml)
  BY <1>7, <1>9 DEF HasXml, x
<1> QED
  BY <1>10, <1>11, <1>12, <1>13 DEF u, s, xml

LEMMA CoSigned ==
    ASSUME NEW f, NEW S, CoInv(f, S), NEW req, NEW g \in sign_clickonce_manifest(f, req)
    PROVE  /\ CoInv(g, S \cup {unsigned_clickonce_manifest(f.data)})
           /\ unsigned_clickonce_manifest(g.data) = unsigned_clickonce_manifest(f.data)
<1> DEFINE u == unsigned_clickonce_manifest(f.data)
           info == clickonce_signed_info(u, req.alg)
           value == sign_xml_signed_info(req.material, info)
           T == S \cup {u}
<1>1. PICK s \in load_signing_provider(req.material) : g \in ClickOnceWith(f, info, value, s[1])
  BY Zenon DEF sign_clickonce_manifest
<1>2. CoTold(value[2]) = u
  BY DEF clickonce_signed_info, sign_xml_signed_info, ProviderSign, RsaSign, Hash, CoTold
<1>3. CoTold(value[2]) \in T
  BY <1>2
<1> HIDE DEF u, info, value, T
<1>4. CoInv(g, T) /\ unsigned_clickonce_manifest(g.data) = unsigned_clickonce_manifest(f.data)
  <2>1. PICK cert : g \in ClickOnceWith(f, info, value, cert)
    BY <1>1
  <2> QED
    BY <1>3, <2>1, CoWith
<1> QED
  BY <1>4 DEF T, u

LEMMA CoVerified ==
    ASSUME NEW f, NEW S, CoInv(f, S), verify_clickonce(f)
    PROVE  unsigned_clickonce_manifest(f.data) \in S
<1> DEFINE u == unsigned_clickonce_manifest(f.data)
<1>1. PICK i \in DOMAIN f.data :
          /\ f.data[i][1] = "xml"
          /\ f.data[i][2].info = clickonce_signed_info(u, f.data[i][2].info[1])
          /\ f.data[i][2].value = RsaSign(f.data[i][2].cert, Hash(f.data[i][2].info[1], f.data[i][2].info))
  BY Zenon DEF verify_clickonce
<1> HIDE DEF u
<1>2. CoTold(f.data[i][2].value[2]) = u
  BY <1>1 DEF clickonce_signed_info, RsaSign, Hash, CoTold
<1>3. i \in 1..Len(f.data)
  BY SeqFacts DEF CoInv
<1> QED
  BY <1>1, <1>2, <1>3 DEF CoInv, u

LEMMA CoEdited ==
    ASSUME NEW f, NEW S, CoInv(f, S), NEW x \in EditedData(f.data)
    PROVE  CoInv([f EXCEPT !.data = x], S)
<1> DEFINE g == [f EXCEPT !.data = x]
<1>1. g = CoFile(x)
  BY CoUpdate DEF CoInv
<1>2. g.data = x
  BY <1>1, CoFields
<1>3. EditOf(x, f.data) /\ Len(f.data) \in Nat
  BY DataEdited, SeqFacts DEF CoInv
<1>4. \A i \in 1..Len(x) : x[i][1] = "xml" => i \in 1..Len(f.data) /\ x[i] = f.data[i]
  <2>1. Len(x) \in Nat
    BY <1>3, SeqFacts DEF EditOf
  <2> QED
    BY <1>3, <2>1 DEF EditOf
<1>5. IsSeq(x)
  BY <1>3 DEF EditOf
<1> HIDE DEF g
<1>6. CoInv(g, S)
  BY <1>1, <1>2, <1>4, <1>5 DEF CoInv
<1> QED
  BY <1>6 DEF g
-----------------------------------------------------------------------------
(* The cells of a signature, and the signatures of some cells.                *)
LEMMA BlankFacts ==
    ASSUME NEW n \in Nat, NEW kind
    PROVE  /\ IsSeq(Blank(n, kind)) /\ Len(Blank(n, kind)) = n
           /\ \A i \in 1..n : Blank(n, kind)[i] = Cell(kind, "")
<1> DEFINE c == Cell(kind, "")
           b == [i \in 1..n |-> c]
<1> HIDE DEF c
<1>1. b \in Seq({c}) /\ Len(b) = n /\ \A i \in 1..n : b[i] = c
  OBVIOUS
<1> HIDE DEF b
<1>2. IsSeq(b)
  BY <1>1, SeqOver
<1>3. Blank(n, kind) = b
  BY DEF Blank, b, c
<1> QED
  BY <1>1, <1>2, <1>3 DEF c

(* Cells of one signature: its document first, then what fills its width.     *)
OneSignature(s, cms) ==
    /\ IsSeq(s) /\ Len(s) > 0 /\ s[1] = Cell("cms", cms)
    /\ \A i \in 1..Len(s) : i # 1 => s[i] = Cell("fill", "")

LEMMA SignatureCellsFacts ==
    ASSUME NEW cms, IsCms(cms)
    PROVE  OneSignature(SignatureCells(cms), cms) /\ Len(SignatureCells(cms)) = Width(cms)
<1> DEFINE n == Width(cms)
           a == <<Cell("cms", cms)>>
           b == Blank(n - 1, "fill")
<1>1. n \in Nat \ {0}
  BY CmsWidth
<1> HIDE DEF n
<1>2. n - 1 \in Nat
  BY <1>1
<1>3. IsSeq(b) /\ Len(b) = n - 1 /\ \A i \in 1..(n - 1) : b[i] = Cell("fill", "")
  BY <1>2, BlankFacts
<1>4. IsSeq(a) /\ Len(a) = 1 /\ a[1] = Cell("cms", cms)
  BY Single
<1>5. SignatureCells(cms) = a \o b
  BY DEF SignatureCells, n
<1> HIDE DEF a, b
<1>6. /\ IsSeq(a \o b) /\ Len(a \o b) = Len(a) + Len(b)
      /\ \A i \in 1..Len(a) : (a \o b)[i] = a[i]
      /\ \A i \in (Len(a) + 1)..(Len(a) + Len(b)) : (a \o b)[i] = b[i - Len(a)]
  <2>1. IsSeq(a) /\ IsSeq(b)
    BY <1>3, <1>4
  <2> QED
    BY <2>1, Joined
<1> DEFINE s == a \o b
<1> HIDE DEF s
<1>7. /\ IsSeq(s) /\ Len(s) = n /\ s[1] = Cell("cms", cms)
      /\ \A i \in 2..n : s[i] = b[i - 1]
  <2>1. Len(a) = 1 /\ Len(b) = n - 1
    BY <1>3, <1>4
  <2>2. 1 \in 1..Len(a) /\ Len(a) + Len(b) = n /\ Len(a) + 1 = 2
    BY <1>1, <2>1
  <2>3. /\ IsSeq(s) /\ Len(s) = n /\ s[1] = a[1]
        /\ \A i \in 2..n : s[i] = b[i - 1]
    BY <1>6, <2>1, <2>2 DEF s
  <2> QED
    BY <1>4, <2>3
<1>8. ASSUME NEW i \in 1..n, i # 1 PROVE s[i] = Cell("fill", "")
  <2>1. i \in 2..n /\ i - 1 \in 1..(n - 1)
    BY <1>1, <1>8
  <2> QED
    BY <1>3, <1>7, <2>1
<1>9. OneSignature(s, cms)
  <2>1. IsSeq(s) /\ Len(s) > 0 /\ s[1] = Cell("cms", cms)
    BY <1>1, <1>7
  <2>2. \A i \in 1..Len(s) : i # 1 => s[i] = Cell("fill", "")
    BY <1>7, <1>8
  <2> QED
    BY <2>1, <2>2 DEF OneSignature
<1> QED
  BY <1>5, <1>7, <1>9 DEF s, n

LEMMA SignaturesFacts ==
    ASSUME NEW s, IsSeq(s)
    PROVE  /\ IsSeq(Signatures(s)) /\ Len(Signatures(s)) = Len(OfKind(s, "cms"))
           /\ \A i \in 1..Len(Signatures(s)) : Signatures(s)[i] = OfKind(s, "cms")[i][2]
           /\ \A x \in ToSet(Signatures(s)) : \E i \in 1..Len(s) : s[i][1] = "cms" /\ s[i][2] = x
<1> DEFINE o == OfKind(s, "cms")
           n == Len(o)
           g == [i \in 1..n |-> o[i][2]]
<1>1. IsSeq(o) /\ ToSet(o) = {c \in ToSet(s) : c[1] = "cms"}
  BY OfKindFacts
<1>2. Signatures(s) = g
  BY DEF Signatures
<1> HIDE DEF o
<1>3. n \in Nat /\ \A i \in 1..n : o[i] \in ToSet(o)
  BY <1>1, SeqFacts
<1>4. g \in Seq({o[i][2] : i \in 1..n}) /\ Len(g) = n /\ \A i \in 1..n : g[i] = o[i][2]
  BY <1>3
<1> HIDE DEF g, n
<1>5. IsSeq(g) /\ ToSet(g) = {g[i] : i \in 1..Len(g)}
  BY <1>4, SeqOver
<1>6. ASSUME NEW x \in ToSet(g) PROVE \E i \in 1..Len(s) : s[i][1] = "cms" /\ s[i][2] = x
  <2>1. PICK i \in 1..n : x = o[i][2]
    BY <1>4, <1>5
  <2>2. o[i] \in ToSet(s) /\ o[i][1] = "cms"
    BY <1>1, <1>3
  <2>3. \E j \in 1..Len(s) : s[j] = o[i]
    BY <2>2, SeqFacts
  <2> QED
    BY <2>1, <2>2, <2>3
<1> QED
  BY <1>2, <1>4, <1>5, <1>6 DEF n, o

(* No content among the cells of a signature.                                 *)
LEMMA NoCode ==
    ASSUME NEW s, NEW cms, OneSignature(s, cms)
    PROVE  OfKind(s, "code") = <<>> /\ Signatures(s) # <<>> /\ Signatures(s) = <<cms>>
<1> DEFINE c == Cell("cms", cms)
           d == Cell("fill", "")
<1>0. c[1] = "cms" /\ c[2] = cms /\ d[1] = "fill"
  BY CellFields
<1>1. s[1] = c /\ \A i \in 1..Len(s) : i # 1 => s[i] = d
  BY DEF OneSignature
<1> HIDE DEF c, d
<1>2. IsSeq(s) /\ Len(s) \in Nat /\ Len(s) > 0 /\ \A i \in 1..Len(s) : s[i] \in ToSet(s)
  BY SeqFacts DEF OneSignature
<1>3. \A i \in 1..Len(s) : s[i][1] # "code"
  BY <1>0, <1>1
<1>4. OfKind(s, "code") = <<>>
  BY <1>2, <1>3, OfKindFacts
<1> DEFINE T == {y \in ToSet(s) : y[1] = "cms"}
<1>5. \A i \in 1..Len(s) : s[i] \in T <=> s[i][1] = "cms"
  BY <1>2
<1>6. OfKind(s, "cms") = Only(s, T)
  BY DEF OfKind
<1>7. s[1][1] = "cms" /\ s[1][2] = cms
  BY <1>0, <1>1
<1>8. \A i \in 1..Len(s) : i # 1 => s[i][1] # "cms"
  BY <1>0, <1>1
<1> HIDE DEF T
<1>9. 1 \in 1..Len(s)
  BY <1>2
<1>10. Only(s, T) = <<s[1]>>
  BY <1>2, <1>5, <1>7, <1>8, <1>9, OnlyLone
<1> DEFINE x == s[1]
           o == <<x>>
           g == [i \in 1..1 |-> o[i][2]]
<1>11. Len(o) = 1 /\ o[1] = x
  OBVIOUS
<1>12. OfKind(s, "cms") = o
  BY <1>6, <1>10
<1>15. x[2] = cms
  BY <1>7
<1> HIDE DEF o, x
<1>13. Signatures(s) = g
  BY <1>11, <1>12 DEF Signatures
<1>14. g = <<cms>> /\ g # <<>>
  BY <1>11, <1>15
<1> HIDE DEF g
<1> QED
  BY <1>4, <1>13, <1>14
-----------------------------------------------------------------------------
(* Cabinets: the digest is of what is in front of the signature, which is all *)
(* the content there is when nothing follows the signature.                   *)
CabFile(hdr, cb, cf, cs, reserve, sigpos, siglen, data) ==
    [fmt |-> "cab", hdr |-> hdr, cb |-> cb, coffFiles |-> cf, coffCabStart |-> cs,
     reserve |-> reserve, sigpos |-> sigpos, siglen |-> siglen, data |-> data]

CabTold(d) == <<d[2][1], OfKind(d[2][5], "code")>>

CabShape(f) ==
    f = CabFile(f.hdr, f.cb, f.coffFiles, f.coffCabStart, f.reserve, f.sigpos, f.siglen, f.data)

(* The extent of the signature holds nothing else.                            *)
CabExtent(f) ==
    /\ f.sigpos \in Int /\ f.siglen \in Int /\ f.siglen > 0
    /\ f.sigpos >= 3 /\ f.sigpos - 3 + f.siglen <= Len(f.data)
    /\ \A i \in 1..Len(f.data) : i > f.sigpos - 3 /\ i <= f.sigpos - 3 + f.siglen
                                    => f.data[i][1] \in {"cms", "fill"}

CabInv(f, S) ==
    /\ CabShape(f) /\ IsSeq(f.data) /\ f.reserve \in BOOLEAN
    /\ f.coffFiles = CabHeaderEnd(f)
    /\ IF f.reserve THEN CabExtent(f) ELSE \A i \in 1..Len(f.data) : f.data[i][1] = "code"
    /\ \A i \in 1..Len(f.data) : f.data[i][1] = "cms" => CabTold(IndirectDigest(f.data[i][2])) \in S

LEMMA CabFields ==
    \A a, b, c, d, e, p, l, s :
        LET f == CabFile(a, b, c, d, e, p, l, s)
        IN /\ f.fmt = "cab" /\ f.hdr = a /\ f.cb = b /\ f.coffFiles = c /\ f.coffCabStart = d
           /\ f.reserve = e /\ f.sigpos = p /\ f.siglen = l /\ f.data = s
BY DEF CabFile

LEMMA CabUpdate ==
    ASSUME NEW f, CabShape(f), NEW x
    PROVE  [f EXCEPT !.data = x] =
               CabFile(f.hdr, f.cb, f.coffFiles, f.coffCabStart, f.reserve, f.sigpos, f.siglen, x)
<1> DEFINE a == f.hdr
           b == f.cb
           c == f.coffFiles
           d == f.coffCabStart
           e == f.reserve
           p == f.sigpos
           l == f.siglen
           s == f.data
<1>1. f = CabFile(a, b, c, d, e, p, l, s)
  BY DEF CabShape
<1> HIDE DEF a, b, c, d, e, p, l, s
<1>2. [f EXCEPT !.data = x] = CabFile(a, b, c, d, e, p, l, x)
  BY <1>1 DEF CabFile
<1> QED
  BY <1>2 DEF a, b, c, d, e, p, l, s

(* The cabinet with its reserve block.                                        *)
(* A cabinet with a signature as it was just put in.                          *)
CabSealed(hdr, cb, cs, sigpos, siglen, data) ==
    [fmt |-> "cab", hdr |-> hdr, cb |-> cb, coffFiles |-> 3, coffCabStart |-> cs,
     reserve |-> TRUE, sigpos |-> sigpos, siglen |-> siglen, data |-> data]

LEMMA CabSealedFields ==
    \A a, b, d, p, l, s :
        LET f == CabSealed(a, b, d, p, l, s)
        IN /\ f.fmt = "cab" /\ f.hdr = a /\ f.cb = b /\ f.coffFiles = 3 /\ f.coffCabStart = d
           /\ f.reserve /\ f.reserve \in BOOLEAN /\ f.sigpos = p /\ f.siglen = l /\ f.data = s
           /\ CabHeaderEnd(f) = 3
BY DEF CabSealed, CabHeaderEnd, CabHeader

LEMMA CabSealedShape ==
    \A a, b, d, p, l, s : CabShape(CabSealed(a, b, d, p, l, s))
<1> SUFFICES ASSUME NEW a, NEW b, NEW d, NEW p, NEW l, NEW s PROVE CabShape(CabSealed(a, b, d, p, l, s))
  OBVIOUS
<1> DEFINE f == CabSealed(a, b, d, p, l, s)
           yes == TRUE
<1>1. f = CabFile(a, b, 3, d, yes, p, l, s)
  BY DEF CabSealed, CabFile
<1> HIDE DEF f, yes
<1>2. /\ f.hdr = a /\ f.cb = b /\ f.coffFiles = 3 /\ f.coffCabStart = d
      /\ f.reserve = yes /\ f.sigpos = p /\ f.siglen = l /\ f.data = s
  BY <1>1, CabFields
<1>3. CabShape(f)
  BY <1>1, <1>2 DEF CabShape
<1> QED
  BY <1>3 DEF f

LEMMA CabSealedUpdate ==
    \A a, b, d, p, l, s, x : [CabSealed(a, b, d, p, l, s) EXCEPT !.data = x] = CabSealed(a, b, d, p, l, x)
<1> SUFFICES ASSUME NEW a, NEW b, NEW d, NEW p, NEW l, NEW s, NEW x
             PROVE  [CabSealed(a, b, d, p, l, s) EXCEPT !.data = x] = CabSealed(a, b, d, p, l, x)
  BY Zenon
<1> DEFINE yes == TRUE
<1>1. /\ CabSealed(a, b, d, p, l, s) = CabFile(a, b, 3, d, yes, p, l, s)
      /\ CabSealed(a, b, d, p, l, x) = CabFile(a, b, 3, d, yes, p, l, x)
  BY DEF CabSealed, CabFile
<1> HIDE DEF yes
<1>2. [CabFile(a, b, 3, d, yes, p, l, s) EXCEPT !.data = x] = CabFile(a, b, 3, d, yes, p, l, x)
  BY DEF CabFile
<1> QED
  BY <1>1, <1>2

LEMMA CabReserved ==
    ASSUME NEW f, NEW S, CabInv(f, S), NEW n, NEW p \in prepare_unsigned_cab(f, n)
    PROVE  /\ ~f.reserve /\ f.cb = Len(f.data) + 2
           /\ p = CabSealed(f.hdr, Len(f.data) + 3, f.coffCabStart + 1, Len(f.data) + 3, n, f.data)
<1> DEFINE a == f.hdr
           b == f.cb
           c == f.coffFiles
           d == f.coffCabStart
           e == f.reserve
           q == f.sigpos
           l == f.siglen
           s == f.data
<1>1. f = CabFile(a, b, c, d, e, q, l, s)
  BY DEF CabShape, CabInv
<1>2. ~e /\ b = CabLength(f)
  BY DEF prepare_unsigned_cab, When
<1>3. CabLength(f) = Len(s) + 2 /\ c = 2 /\ Len(s) \in Nat
  <2>1. c = 2
    BY <1>2 DEF CabInv, CabHeaderEnd, CabHeader
  <2>2. Len(s) \in Nat
    BY SeqFacts DEF CabInv
  <2> QED
    BY <1>2, <2>1, <2>2 DEF CabLength, CabHeaderEnd, CabHeader
<1>4. p = [f EXCEPT !.reserve = TRUE, !.sigpos = CabLength(f) + 1, !.siglen = n,
                    !.cb = CabLength(f) + 1, !.coffFiles = @ + 1, !.coffCabStart = @ + 1]
  BY DEF prepare_unsigned_cab, When
<1> DEFINE m == CabLength(f) + 1
<1> HIDE DEF a, b, c, d, e, q, l, s, m
<1>5. p = CabSealed(a, m, d + 1, m, n, s)
  <2>1. p = CabFile(a, m, c + 1, d + 1, TRUE, m, n, s)
    BY <1>1, <1>4 DEF CabFile, m
  <2>2. c + 1 = 3
    BY <1>3
  <2> QED
    BY <2>1, <2>2 DEF CabFile, CabSealed
<1>6. m = Len(s) + 3 /\ c + 1 = 3
  BY <1>3 DEF m
<1> QED
  BY <1>2, <1>3, <1>5, <1>6 DEF a, b, d, e, s

LEMMA CabAppended ==
    ASSUME NEW f, NEW S, CabInv(f, S), NEW t, IsCms(t), NEW T, S \subseteq T,
           CabTold(IndirectDigest(t)) \in T, NEW g \in cab_append(f, t)
    PROVE  /\ CabInv(g, T) /\ CabContent(g) = CabContent(f)
           /\ g = CabSealed(f.hdr, Len(f.data) + 3, f.coffCabStart + 1, Len(f.data) + 3,
                            Width(t), f.data \o SignatureCells(t))
<1> DEFINE s == f.data
           n == Width(t)
           x == SignatureCells(t)
           w == s \o x
<1>1. PICK p \in prepare_unsigned_cab(f, n) : g = [p EXCEPT !.data = @ \o SignatureCells(t)]
  BY Zenon DEF cab_append
<1>2. /\ ~f.reserve
      /\ p = CabSealed(f.hdr, Len(s) + 3, f.coffCabStart + 1, Len(s) + 3, n, s)
  BY CabReserved
<1>3. OneSignature(x, t) /\ Len(x) = n /\ n \in Nat \ {0}
  BY SignatureCellsFacts, CmsWidth
<1>4. IsSeq(s) /\ Len(s) \in Nat /\ \A i \in 1..Len(s) : s[i][1] = "code"
  BY <1>2, SeqFacts DEF CabInv
<1>5. IsSeq(x) /\ OfKind(x, "code") = <<>>
  BY <1>3, NoCode DEF OneSignature
<1> HIDE DEF s, n, x
<1>6. g = CabSealed(f.hdr, Len(s) + 3, f.coffCabStart + 1, Len(s) + 3, n, w)
  <2>1. p.data = s
    BY <1>2, CabSealedFields
  <2>2. g = [p EXCEPT !.data = w]
    BY <1>1, <2>1 DEF x
  <2> HIDE DEF w
  <2> QED
    BY <1>2, <2>2, CabSealedUpdate
<1>7. /\ IsSeq(w) /\ Len(w) = Len(s) + Len(x)
      /\ \A i \in 1..Len(s) : w[i] = s[i]
      /\ \A i \in (Len(s) + 1)..(Len(s) + Len(x)) : w[i] = x[i - Len(s)]
  BY <1>4, <1>5, Joined
<1>8. OfKind(w, "code") = OfKind(s, "code")
  <2>1. OfKind(w, "code") = OfKind(s, "code") \o OfKind(x, "code")
    BY <1>4, <1>5, OfKindJoined
  <2>2. IsSeq(OfKind(s, "code"))
    BY <1>4, OfKindFacts
  <2>3. OfKind(s, "code") \o <<>> = OfKind(s, "code")
    BY <2>2, NothingAround
  <2> QED
    BY <1>5, <2>1, <2>3
<1> HIDE DEF w
<1>9. /\ g.hdr = f.hdr /\ g.coffFiles = 3 /\ g.reserve /\ g.reserve \in BOOLEAN /\ g.sigpos = Len(s) + 3 /\ g.siglen = n
      /\ g.data = w /\ g.cb = Len(s) + 3 /\ g.coffCabStart = f.coffCabStart + 1
  BY <1>6, CabSealedFields
<1>10. CabContent(g) = CabContent(f)
  BY <1>8, <1>9 DEF CabContent, s
<1>11. ASSUME NEW i \in 1..Len(w), i > Len(s) PROVE w[i] = Cell("cms", t) \/ w[i] = Cell("fill", "")
  <2>1. i \in (Len(s) + 1)..(Len(s) + Len(x)) /\ i - Len(s) \in 1..Len(x)
    BY <1>3, <1>4, <1>7, <1>11
  <2>2. w[i] = x[i - Len(s)]
    BY <1>7, <2>1
  <2>3. x[i - Len(s)] = Cell("cms", t) \/ x[i - Len(s)] = Cell("fill", "")
    BY <1>3, <2>1 DEF OneSignature
  <2> QED
    BY <2>2, <2>3
<1> DEFINE a == Cell("cms", t)
           b == Cell("fill", "")
<1>12. a[1] = "cms" /\ a[2] = t /\ b[1] = "fill"
  BY CellFields
<1>13. \A i \in 1..Len(w) : i > Len(s) => w[i] = a \/ w[i] = b
  BY <1>11
<1> HIDE DEF a, b
<1>14. CabExtent(g)
  <2>1. Len(w) = Len(s) + n /\ g.sigpos - 3 = Len(s)
    BY <1>3, <1>4, <1>7, <1>9
  <2>2. \A i \in 1..Len(g.data) : i > g.sigpos - 3 => g.data[i][1] \in {"cms", "fill"}
    BY <1>9, <1>12, <1>13, <2>1
  <2> QED
    BY <1>3, <1>4, <1>9, <2>1, <2>2 DEF CabExtent
<1>15. \A i \in 1..Len(w) : w[i][1] = "cms" => CabTold(IndirectDigest(w[i][2])) \in T
  <2>1. ASSUME NEW i \in 1..Len(w), w[i][1] = "cms" PROVE CabTold(IndirectDigest(w[i][2])) \in T
    <3>1. CASE i > Len(s)
      <4>1. w[i][2] = t
        BY <1>12, <1>13, <2>1, <3>1
      <4> QED
        BY <4>1
    <3>2. CASE ~(i > Len(s))
      <4>1. i \in 1..Len(s)
        BY <1>4, <3>2, <1>3, <1>7
      <4>2. w[i][1] = "code"
        BY <1>4, <1>7, <4>1
      <4> QED
        BY <2>1, <4>2
    <3> QED
      BY <3>1, <3>2
  <2> QED
    BY <2>1
<1>16. CabShape(g) /\ g.coffFiles = CabHeaderEnd(g)
  BY <1>6, <1>9, CabSealedFields, CabSealedShape
<1>17. CabInv(g, T)
  BY <1>7, <1>9, <1>14, <1>15, <1>16 DEF CabInv
<1> QED
  BY <1>6, <1>10, <1>17 DEF s, n, x, w

LEMMA CabDigest ==
    ASSUME NEW f, NEW alg, NEW d \in compute_cab_digest(f, alg)
    PROVE  /\ d[1] = alg
           /\ CabTold(d) = <<f.hdr, OfKind(SubSeq(f.data, 1, f.sigpos - CabHeaderEnd(f)), "code")>>
<1> DEFINE s == SubSeq(f.data, 1, f.sigpos - CabHeaderEnd(f))
           x == <<f.hdr, f.cb, f.coffFiles, f.coffCabStart, s>>
<1>1. d = Hash(alg, x)
  BY DEF compute_cab_digest, When
<1> HIDE DEF s
<1>2. x[1] = f.hdr /\ x[5] = s
  OBVIOUS
<1> HIDE DEF x
<1>3. d[1] = alg /\ d[2] = x
  BY <1>1 DEF Hash
<1>4. CabTold(d) = <<f.hdr, OfKind(s, "code")>>
  BY <1>2, <1>3 DEF CabTold
<1> QED
  BY <1>3, <1>4 DEF s

LEMMA CabSigned ==
    ASSUME NEW f, NEW S, CabInv(f, S), NEW req, NEW g \in sign_cab(f, req)
    PROVE  CabInv(g, S \cup {CabContent(f)}) /\ CabContent(g) = CabContent(f)
<1> DEFINE T == S \cup {CabContent(f)}
<1>1. PICK p \in prepare_unsigned_cab(f, 0) :
          \E d \in compute_cab_digest(p, req.alg) :
          \E c \in create_authenticode_pkcs7(req.material, "cab", req.alg, d) :
          \E t \in maybe_timestamp_pkcs7(c, req.tsa) : g \in cab_append(f, t)
  BY DEF sign_cab
<1>9. PICK d \in compute_cab_digest(p, req.alg) :
          \E c \in create_authenticode_pkcs7(req.material, "cab", req.alg, d) :
          \E t \in maybe_timestamp_pkcs7(c, req.tsa) : g \in cab_append(f, t)
  BY <1>1
<1>10. PICK c \in create_authenticode_pkcs7(req.material, "cab", req.alg, d) :
          \E t \in maybe_timestamp_pkcs7(c, req.tsa) : g \in cab_append(f, t)
  BY <1>9
<1>11. PICK t \in maybe_timestamp_pkcs7(c, req.tsa) : g \in cab_append(f, t)
  BY <1>10
<1>2. p = CabSealed(f.hdr, Len(f.data) + 3, f.coffCabStart + 1, Len(f.data) + 3, 0, f.data)
  BY CabReserved
<1>3. IsSeq(f.data) /\ Len(f.data) \in Nat
  BY SeqFacts DEF CabInv
<1>4. p.hdr = f.hdr /\ SubSeq(p.data, 1, p.sigpos - CabHeaderEnd(p)) = f.data
  <2>1. p.hdr = f.hdr /\ p.data = f.data /\ p.sigpos = Len(f.data) + 3 /\ CabHeaderEnd(p) = 3
    BY <1>2, CabSealedFields
  <2>2. p.sigpos - CabHeaderEnd(p) = Len(f.data)
    BY <1>3, <2>1
  <2>3. SubSeq(f.data, 1, Len(f.data)) = f.data
    BY <1>3, PrefixFacts
  <2> QED
    BY <2>1, <2>2, <2>3
<1>5. CabTold(d) = CabContent(f)
  <2>1. CabTold(d) = <<p.hdr, OfKind(SubSeq(p.data, 1, p.sigpos - CabHeaderEnd(p)), "code")>>
    BY CabDigest
  <2> QED
    BY <1>4, <2>1 DEF CabContent
<1>6. IsCms(c) /\ IndirectDigest(c) = d
  BY SpcMade
<1>7. IsCms(t) /\ IndirectDigest(t) = d
  BY <1>6, MaybeStamped, SameSaid, Zenon
<1>8. CabTold(IndirectDigest(t)) \in T /\ S \subseteq T
  BY <1>5, <1>7
<1> HIDE DEF T
<1> QED
  BY <1>11, <1>7, <1>8, CabAppended DEF T

LEMMA CabMatched ==
    ASSUME NEW f, NEW S, CabInv(f, S), cab_signature_pkcs7(f) # <<>>, NEW alg,
           IndirectDigest(cab_signature_pkcs7(f)[1]) \in compute_cab_digest(f, alg)
    PROVE  CabContent(f) \in S
<1> DEFINE s == f.data
           k == f.sigpos - CabHeaderEnd(f)
           a == SubSeq(s, 1, k)
           b == SubSeq(s, k + 1, Len(s))
           sigs == cab_signature_pkcs7(f)
           d == IndirectDigest(sigs[1])
<1>1. f.reserve /\ parse_cab_context(f) /\ sigs = Signatures(b)
  BY Zenon DEF cab_signature_pkcs7
<1>2. IsSeq(s) /\ Len(s) \in Nat /\ CabExtent(f)
  BY <1>1, SeqFacts DEF CabInv
<1>3. /\ k = f.sigpos - 3 /\ k \in 0..Len(s) /\ f.sigpos \in Int
      /\ \A i \in 1..Len(s) : i > k => s[i][1] \in {"cms", "fill"}
  <2>1. CabHeaderEnd(f) = 3
    BY <1>1 DEF CabHeaderEnd, CabHeader
  <2>2. f.sigpos \in Int /\ f.siglen \in Int /\ f.sigpos >= 3 /\ f.siglen > 0 /\ f.sigpos - 3 + f.siglen <= Len(s)
    BY <1>2 DEF CabExtent
  <2>3. f.sigpos + f.siglen = 3 + Len(s)
    BY <1>1, <2>1 DEF parse_cab_context, CabLength
  <2>4. \A i \in 1..Len(s) : i > f.sigpos - 3 => s[i][1] \in {"cms", "fill"}
    BY <1>2, <2>2, <2>3 DEF CabExtent
  <2> QED
    BY <1>2, <2>1, <2>2, <2>4
<1> HIDE DEF k
<1>4. /\ s = a \o b /\ IsSeq(a) /\ IsSeq(b) /\ ToSet(b) \subseteq ToSet(s)
      /\ ToSet(b) = {s[i] : i \in (k + 1)..Len(s)}
  <2>1. s = a \o b
    BY <1>2, <1>3, Halves
  <2>2. k + 1 \in 1..(Len(s) + 1) /\ Len(s) \in ((k + 1) - 1)..Len(s) /\ 1 \in 1..(Len(s) + 1) /\ k \in (1 - 1)..Len(s)
    BY <1>2, <1>3
  <2>3. IsSeq(b) /\ ToSet(b) = {s[i] : i \in (k + 1)..Len(s)} /\ ToSet(b) \subseteq ToSet(s)
    BY <1>2, <2>2, Cut
  <2>4. IsSeq(a)
    BY <1>2, <2>2, Cut
  <2> QED
    BY <2>1, <2>3, <2>4
<1>9. d \in compute_cab_digest(f, alg) /\ sigs # <<>>
  OBVIOUS
<1>10. CabContent(f) = <<f.hdr, OfKind(s, "code")>>
  BY DEF CabContent
<1>11. \A i \in 1..Len(s) : s[i][1] = "cms" => CabTold(IndirectDigest(s[i][2])) \in S
  BY DEF CabInv
<1>12. CabTold(d) = <<f.hdr, OfKind(a, "code")>>
  BY CabDigest DEF k
<1> HIDE DEF s, a, b, sigs
<1>5. OfKind(b, "code") = <<>>
  <2>1. \A c \in ToSet(b) : c[1] # "code"
    <3>1. ASSUME NEW i \in (k + 1)..Len(s) PROVE s[i][1] # "code"
      <4>1. i \in 1..Len(s) /\ i > k
        BY <1>2, <1>3
      <4> QED
        BY <1>3, <4>1
    <3> QED
      BY <1>4, <3>1
  <2>2. \A i \in 1..Len(b) : b[i] \in ToSet(b)
    BY <1>4, SeqFacts
  <2>3. \A i \in 1..Len(b) : b[i][1] # "code"
    BY <2>1, <2>2
  <2> QED
    BY <1>4, <2>3, OfKindFacts
<1>6. OfKind(s, "code") = OfKind(a, "code")
  <2>1. OfKind(a \o b, "code") = OfKind(a, "code") \o OfKind(b, "code")
    <3>1. IsSeq(a) /\ IsSeq(b)
      BY <1>4
    <3> QED
      BY <3>1, OfKindJoined
  <2>2. IsSeq(OfKind(a, "code"))
    BY <1>4, OfKindFacts
  <2>3. OfKind(a, "code") \o <<>> = OfKind(a, "code")
    BY <2>2, NothingAround
  <2>4. s = a \o b
    BY <1>4
  <2> QED
    BY <1>5, <2>1, <2>3, <2>4
<1>8. CabTold(d) \in S
  <2>1. IsSeq(sigs) /\ \A x \in ToSet(sigs) : \E i \in 1..Len(b) : b[i][1] = "cms" /\ b[i][2] = x
    <3>1. IsSeq(b) /\ sigs = Signatures(b)
      BY <1>1, <1>4
    <3> QED
      BY <3>1, SignaturesFacts
  <2>2. sigs[1] \in ToSet(sigs)
    <3>1. Len(sigs) \in Nat /\ Len(sigs) # 0 /\ \A i \in 1..Len(sigs) : sigs[i] \in ToSet(sigs)
      BY <1>9, <2>1, SeqFacts
    <3>2. 1 \in 1..Len(sigs)
      BY <3>1
    <3> QED
      BY <3>1, <3>2
  <2>3. \E i \in 1..Len(b) : b[i][1] = "cms" /\ b[i][2] = sigs[1]
    BY <2>1, <2>2
  <2>4. \A i \in 1..Len(b) : b[i] \in ToSet(s)
    BY <1>4, SeqFacts
  <2>5. \E i \in 1..Len(s) : s[i][1] = "cms" /\ s[i][2] = sigs[1]
    <3>1. PICK i \in 1..Len(b) : b[i][1] = "cms" /\ b[i][2] = sigs[1]
      BY <2>3
    <3>2. b[i] \in ToSet(s)
      BY <2>4
    <3>4. ToSet(s) = {s[j] : j \in 1..Len(s)}
      BY <1>2, SeqFacts
    <3>3. PICK j \in 1..Len(s) : s[j] = b[i]
      BY <3>2, <3>4
    <3> QED
      BY <3>1, <3>3
  <2> QED
    BY <1>11, <2>5
<1> QED
  BY <1>6, <1>8, <1>10, <1>12

LEMMA CabEdited ==
    ASSUME NEW f, NEW S, CabInv(f, S), NEW x \in EditedData(f.data)
    PROVE  CabInv([f EXCEPT !.data = x], S)
<1> DEFINE g == [f EXCEPT !.data = x]
           s == f.data
<1>1. /\ g.hdr = f.hdr /\ g.coffFiles = f.coffFiles /\ g.reserve = f.reserve /\ g.sigpos = f.sigpos
      /\ g.siglen = f.siglen /\ g.data = x /\ CabShape(g)
  <2>1. g = CabFile(f.hdr, f.cb, f.coffFiles, f.coffCabStart, f.reserve, f.sigpos, f.siglen, x)
    BY CabUpdate DEF CabInv
  <2>2. /\ g.hdr = f.hdr /\ g.cb = f.cb /\ g.coffFiles = f.coffFiles /\ g.coffCabStart = f.coffCabStart
        /\ g.reserve = f.reserve /\ g.sigpos = f.sigpos /\ g.siglen = f.siglen /\ g.data = x
    BY <2>1, CabFields
  <2> HIDE DEF g
  <2> QED
    BY <2>1, <2>2 DEF CabShape
<1>2. EditOf(x, s) /\ Len(s) \in Nat
  BY DataEdited, SeqFacts DEF CabInv
<1>3. /\ IsSeq(x) /\ Len(x) \in Nat /\ Len(s) <= Len(x)
      /\ \A i \in 1..Len(s) : x[i] = s[i] \/ (x[i][1] = "code" /\ s[i][1] = "code")
      /\ \A i \in 1..Len(x) : i > Len(s) => x[i][1] = "code"
  BY <1>2, SeqFacts DEF EditOf
<1> HIDE DEF g
<1>4. \A i \in 1..Len(x) : x[i][1] = "cms" => i \in 1..Len(s) /\ x[i] = s[i]
  BY <1>2, <1>3
<1>5. ASSUME ~f.reserve PROVE \A i \in 1..Len(x) : x[i][1] = "code"
  <2>1. \A i \in 1..Len(s) : s[i][1] = "code"
    BY <1>5 DEF CabInv
  <2> QED
    BY <1>2, <1>3, <2>1
<1>6. ASSUME f.reserve PROVE CabExtent(g)
  <2>1. CabExtent(f)
    BY <1>6 DEF CabInv
  <2>2. /\ f.sigpos \in Int /\ f.siglen \in Int /\ f.siglen > 0
        /\ f.sigpos >= 3 /\ f.sigpos - 3 + f.siglen <= Len(s)
        /\ \A i \in 1..Len(s) : i > f.sigpos - 3 /\ i <= f.sigpos - 3 + f.siglen
                                        => s[i][1] \in {"cms", "fill"}
    BY <2>1 DEF CabExtent
  <2>3. ASSUME NEW i \in 1..Len(x), i > f.sigpos - 3, i <= f.sigpos - 3 + f.siglen
        PROVE  x[i][1] \in {"cms", "fill"}
    <3>1. i \in 1..Len(s)
      BY <1>2, <1>3, <2>2, <2>3
    <3>2. s[i][1] \in {"cms", "fill"}
      BY <2>2, <2>3, <3>1
    <3> QED
      BY <1>3, <3>1, <3>2
  <2> QED
    BY <1>1, <1>2, <1>3, <2>2, <2>3 DEF CabExtent
<1>7. CabHeaderEnd(g) = CabHeaderEnd(f)
  BY <1>1 DEF CabHeaderEnd
<1>8. CabInv(g, S)
  BY <1>1, <1>3, <1>4, <1>5, <1>6, <1>7 DEF CabInv
<1> QED
  BY <1>8 DEF g
-----------------------------------------------------------------------------
(* The parts of packages.                                                     *)
LEMMA NamedFacts ==
    ASSUME NEW s, IsSeq(s), NEW N
    PROVE  /\ IsSeq(Named(s, N)) /\ ToSet(Named(s, N)) = {p \in ToSet(s) : p.name \in N}
           /\ Named(s, N) = <<>> <=> \A p \in ToSet(s) : p.name \notin N
           /\ IsSeq(Without(s, N)) /\ ToSet(Without(s, N)) = {p \in ToSet(s) : p.name \notin N}
<1> DEFINE T == {p \in ToSet(s) : p.name \in N}
           U == {p \in ToSet(s) : p.name \notin N}
<1>1. /\ IsSeq(Only(s, T)) /\ ToSet(Only(s, T)) = ToSet(s) \cap T
      /\ IsSeq(Only(s, U)) /\ ToSet(Only(s, U)) = ToSet(s) \cap U
  <2> HIDE DEF T, U
  <2> QED
    BY OnlyFacts
<1>2. Named(s, N) = Only(s, T) /\ Without(s, N) = Only(s, U)
  BY DEF Named, Without
<1>3. Only(s, T) = <<>> <=> ToSet(Only(s, T)) = {}
  <2> HIDE DEF T, U
  <2> QED
    BY <1>1, NoElement, Empty
<1> QED
  BY <1>1, <1>2, <1>3

LEMMA HasFacts ==
    ASSUME NEW s, IsSeq(s), NEW n
    PROVE  /\ Has(s, n) <=> \E p \in ToSet(s) : p.name = n
           /\ Has(s, n) => \E p \in ToSet(s) : p.name = n /\ BodyOf(s, n) = p.body
<1> DEFINE t == Named(s, {n})
<1>1. /\ IsSeq(t) /\ ToSet(t) = {p \in ToSet(s) : p.name \in {n}}
      /\ t = <<>> <=> \A p \in ToSet(s) : p.name \notin {n}
  BY NamedFacts
<1>2. Has(s, n) <=> t # <<>>
  BY DEF Has
<1>3. BodyOf(s, n) = t[1].body
  BY DEF BodyOf
<1> HIDE DEF t
<1>4. t # <<>> => t[1] \in ToSet(t)
  <2>1. Len(t) \in Nat /\ (t = <<>> <=> Len(t) = 0) /\ \A i \in 1..Len(t) : t[i] \in ToSet(t)
    BY <1>1, SeqFacts
  <2>2. Len(t) \in Nat /\ Len(t) # 0 => 1 \in 1..Len(t)
    OBVIOUS
  <2> QED
    BY <2>1, <2>2
<1> QED
  BY <1>1, <1>2, <1>3, <1>4

(* A sequence made position by position out of another.                       *)
LEMMA MappedSeq ==
    ASSUME NEW s, IsSeq(s), NEW g, g = [i \in DOMAIN s |-> g[i]]
    PROVE  IsSeq(g) /\ Len(g) = Len(s) /\ ToSet(g) = {g[i] : i \in 1..Len(s)}
<1> DEFINE n == Len(s)
<1>1. n \in Nat /\ DOMAIN s = 1..n
  BY SeqFacts
<1> HIDE DEF n
<1>2. g = [i \in 1..n |-> g[i]]
  BY <1>1
<1> DEFINE S == {g[i] : i \in 1..n}
<1>3. \A i \in 1..n : g[i] \in S
  OBVIOUS
<1> HIDE DEF S
<1>4. g \in Seq(S) /\ Len(g) = n
  BY <1>1, <1>2, <1>3
<1>5. IsSeq(g) /\ ToSet(g) = {g[i] : i \in 1..Len(g)}
  BY <1>4, SeqOver
<1> QED
  BY <1>4, <1>5 DEF n

LEMMA PartFields == \A n, b : Part(n, b).name = n /\ Part(n, b).body = b
BY DEF Part

IsPart(p) == p = Part(p.name, p.body)

LEMMA PartIsPart == \A n, b : IsPart(Part(n, b))
BY PartFields DEF IsPart

Editable == {"payload", "added"}

(* What an edit leaves as it was: all parts but those of the owner's content. *)
PartEdit(x, s) ==
    /\ IsSeq(x)
    /\ \A p \in ToSet(x) : p \in ToSet(s) \/ (IsPart(p) /\ p.name \in Editable)
    /\ \A p \in ToSet(s) : p.name \notin Editable => p \in ToSet(x)

LEMMA BodySet ==
    ASSUME NEW p, IsPart(p), NEW v
    PROVE  IsPart([p EXCEPT !.body[2] = v]) /\ [p EXCEPT !.body[2] = v].name = p.name
<1> DEFINE n == p.name
           b == p.body
           c == [b EXCEPT ![2] = v]
<1>1. p = [name |-> n, body |-> b]
  BY DEF IsPart, Part
<1>2. [p EXCEPT !.body[2] = v] = [p EXCEPT !.body = c]
  OBVIOUS
<1> HIDE DEF n, b, c
<1>3. [p EXCEPT !.body = c] = [name |-> n, body |-> c]
  BY <1>1
<1>4. [p EXCEPT !.body[2] = v] = Part(n, c)
  BY <1>2, <1>3 DEF Part
<1> QED
  BY <1>4, PartIsPart, PartFields DEF n

LEMMA PartsEdited ==
    ASSUME NEW s, IsSeq(s), \A p \in ToSet(s) : IsPart(p), NEW x \in EditedParts(s)
    PROVE  PartEdit(x, s)
<1>0. Len(s) \in Nat /\ DOMAIN s = 1..Len(s) /\ ToSet(s) = {s[i] : i \in 1..Len(s)}
      /\ \A i \in 1..Len(s) : s[i] \in ToSet(s)
  BY SeqFacts
<1>1. ASSUME NEW n \in 1..Len(s), NEW v, s[n].name = "payload", x = PartsWith(s, n, v)
      PROVE  PartEdit(x, s)
  <2> DEFINE q == [s[n] EXCEPT !.body[2] = v]
  <2>1. IsPart(q) /\ q.name = "payload"
    <3> DEFINE p == s[n]
    <3>1. IsPart(p) /\ p.name = "payload"
      BY <1>0, <1>1
    <3>2. q = [p EXCEPT !.body[2] = v]
      OBVIOUS
    <3> HIDE DEF p, q
    <3> QED
      BY <3>1, <3>2, BodySet
  <2>2. x = Replaced(s, n, q)
    BY <1>1 DEF PartsWith
  <2> HIDE DEF q
  <2>3. /\ IsSeq(x) /\ Len(x) = Len(s) /\ ToSet(x) \subseteq ToSet(s) \cup {q}
        /\ \A i \in 1..Len(s) : x[i] = IF i = n THEN q ELSE s[i]
    BY <2>2, ReplacedFacts
  <2>4. ToSet(x) = {x[i] : i \in 1..Len(x)}
    BY <2>3, SeqFacts
  <2>5. ASSUME NEW p \in ToSet(s), p.name \notin Editable PROVE p \in ToSet(x)
    <3>1. PICK i \in 1..Len(s) : p = s[i]
      BY <1>0
    <3>2. i # n
      BY <1>1, <2>5, <3>1 DEF Editable
    <3>3. x[i] = p
      BY <2>3, <3>1, <3>2
    <3> QED
      BY <2>3, <2>4, <3>3
  <2> QED
    BY <2>1, <2>3, <2>5 DEF PartEdit, Editable
<1>2. ASSUME NEW v, x = PartsMore(s, v)
      PROVE  PartEdit(x, s)
  <2> DEFINE q == Part("added", <<"data", v, "raw">>)
             one == <<q>>
             w == Without(s, {"added"})
  <2>1. IsPart(q) /\ q.name = "added"
    <3> DEFINE b == <<"data", v, "raw">>
    <3> HIDE DEF b
    <3>1. IsPart(Part("added", b)) /\ Part("added", b).name = "added"
      BY PartFields, PartIsPart
    <3> QED
      BY <3>1 DEF b
  <2>2. x = one \o w
    BY <1>2 DEF PartsMore
  <2> HIDE DEF q
  <2>3. IsSeq(one) /\ ToSet(one) = {q}
    BY Single
  <2>4. IsSeq(w) /\ ToSet(w) = {p \in ToSet(s) : p.name \notin {"added"}}
    BY NamedFacts
  <2> HIDE DEF one, w
  <2>5. IsSeq(one \o w) /\ ToSet(one \o w) = ToSet(one) \cup ToSet(w)
    <3>1. IsSeq(one) /\ IsSeq(w)
      BY <2>3, <2>4
    <3> QED
      BY <3>1, Joined
  <2> DEFINE z == one \o w
  <2> HIDE DEF z
  <2>6. IsSeq(z) /\ ToSet(z) = {q} \cup {p \in ToSet(s) : p.name \notin {"added"}}
    BY <2>3, <2>4, <2>5 DEF z
  <2>7. PartEdit(z, s)
    BY <2>1, <2>6 DEF PartEdit, Editable
  <2> QED
    BY <2>2, <2>7 DEF z
<1>3. (\E i \in {j \in DOMAIN s : s[j].name = "payload"}, v \in Values : x = PartsWith(s, i, v))
      \/ (\E v \in Values : x = PartsMore(s, v))
  BY DEF EditedParts
<1> QED
  BY <1>0, <1>1, <1>2, <1>3

(* An edit of the types a package declares leaves the other parts.            *)
LEMMA TypesEdited ==
    ASSUME NEW s, IsSeq(s), \A p \in ToSet(s) : IsPart(p), NEW x \in EditedTypes(s)
    PROVE  /\ IsSeq(x) /\ Len(x) = Len(s)
           /\ \A i \in 1..Len(s) : x[i] = s[i] \/ (s[i].name = "types" /\ x[i].name = "types")
           /\ \A p \in ToSet(x) : p \in ToSet(s) \/ (IsPart(p) /\ p.name # "signature")
<1>0. DOMAIN s = 1..Len(s) /\ \A i \in 1..Len(s) : s[i] \in ToSet(s)
  BY SeqFacts
<1>1. PICK n \in {j \in DOMAIN s : s[j].name = "types"}, t \in {"blockMap", "signature"} :
          x = TypesWith(s, n, t)
  BY DEF EditedTypes
<1> DEFINE p == s[n]
           v == p.body[2] \ {t}
           q == [p EXCEPT !.body[2] = v]
<1>2. n \in 1..Len(s) /\ IsPart(p) /\ p.name = "types"
  BY <1>0, <1>1
<1>3. [p EXCEPT !.body[2] = @ \ {t}] = q
  BY <1>2 DEF IsPart, Part
<1> HIDE DEF v
<1>4. IsPart(q) /\ q.name = "types"
  BY <1>2, BodySet
<1>5. x = Replaced(s, n, q)
  BY <1>1, <1>3 DEF TypesWith
<1> HIDE DEF q
<1>6. /\ IsSeq(x) /\ Len(x) = Len(s) /\ ToSet(x) \subseteq ToSet(s) \cup {q}
      /\ \A i \in 1..Len(s) : x[i] = IF i = n THEN q ELSE s[i]
  BY <1>2, <1>5, ReplacedFacts
<1> QED
  BY <1>2, <1>4, <1>6

LEMMA Triple ==
    ASSUME NEW a, NEW b, NEW c
    PROVE  IsSeq(<<a, b, c>>) /\ ToSet(<<a, b, c>>) = {a, b, c}
<1> DEFINE s == <<a, b, c>>
           S == {a, b, c}
<1>1. s \in Seq(S) /\ Len(s) = 3 /\ s[1] = a /\ s[2] = b /\ s[3] = c
  OBVIOUS
<1> HIDE DEF s
<1>2. IsSeq(s) /\ ToSet(s) = {s[i] : i \in 1..Len(s)}
  <2> HIDE DEF S
  <2> QED
    BY <1>1, SeqOver
<1>3. 1..3 = {1, 2, 3}
  OBVIOUS
<1>4. ToSet(s) = S
  BY <1>1, <1>2, <1>3
<1> QED
  BY <1>2, <1>4 DEF s
-----------------------------------------------------------------------------
(* App packages: the digest of the local entries tells all of the content.    *)
MsixFile(ext, gap, parts) == [fmt |-> "msix", ext |-> ext, gap |-> gap, parts |-> parts]

(* The parts that signing makes anew or leaves out.                           *)
Owned(ext) ==
    Reserved \cup {"dir", "codeIntegrity"} \cup (IF ext = "msixbundle" THEN {"manifest"} ELSE {})

MsixTold(ext, d) == {p \in ToSet(d[2].AXPC[2]) : p.name \notin Owned(ext)}

MsixShape(f) ==
    /\ f = MsixFile(f.ext, f.gap, f.parts)
    /\ IsSeq(f.parts) /\ \A p \in ToSet(f.parts) : IsPart(p)

MsixInv(f, S) ==
    /\ MsixShape(f)
    /\ \A p \in ToSet(f.parts) : p.name = "signature" =>
          /\ p.body[2] # <<>>
          /\ MsixTold(f.ext, IndirectDigest(p.body[2][1])) \in S

LEMMA MsixFields ==
    \A a, b, c : LET f == MsixFile(a, b, c) IN f.fmt = "msix" /\ f.ext = a /\ f.gap = b /\ f.parts = c
BY DEF MsixFile

LEMMA MsixUpdate ==
    ASSUME NEW f, f = MsixFile(f.ext, f.gap, f.parts), NEW x, NEW y
    PROVE  /\ [f EXCEPT !.parts = x] = MsixFile(f.ext, f.gap, x)
           /\ [f EXCEPT !.gap = y, !.parts = x] = MsixFile(f.ext, y, x)
<1> DEFINE a == f.ext
           b == f.gap
           c == f.parts
<1>1. f = MsixFile(a, b, c)
  OBVIOUS
<1> HIDE DEF a, b, c
<1>2. [f EXCEPT !.parts = x] = MsixFile(a, b, x)
  BY <1>1 DEF MsixFile
<1>3. [f EXCEPT !.gap = y, !.parts = x] = [[f EXCEPT !.gap = y] EXCEPT !.parts = x]
  OBVIOUS
<1>4. [f EXCEPT !.gap = y] = MsixFile(a, y, c)
  BY <1>1 DEF MsixFile
<1>5. [MsixFile(a, y, c) EXCEPT !.parts = x] = MsixFile(a, y, x)
  BY DEF MsixFile
<1> QED
  BY <1>2, <1>3, <1>4, <1>5 DEF a, b, c

LEMMA MsixContentIs ==
    ASSUME NEW f, IsSeq(f.parts)
    PROVE  MsixContent(f) = {p \in ToSet(f.parts) : p.name \notin Owned(f.ext)}
<1> DEFINE N == Owned(f.ext)
<1>1. MsixContent(f) = ToSet(Without(f.parts, N))
  BY DEF MsixContent, Owned
<1> HIDE DEF N
<1>2. MsixContent(f) = {p \in ToSet(f.parts) : p.name \notin N}
  BY <1>1, NamedFacts
<1> QED
  BY <1>2 DEF N

LEMMA MsixPieces ==
    ASSUME NEW f, IsSeq(f.parts), NEW kind
    PROVE  MsixTold(f.ext, msix_pieces(f, kind)) = MsixContent(f)
<1> DEFINE w == Without(f.parts, {"signature"})
           d == msix_pieces(f, kind)
<1>1. d[2].AXPC[2] = w
  BY DEF msix_pieces, hash_zip_file_data, Hash
<1>2. ToSet(w) = {p \in ToSet(f.parts) : p.name \notin {"signature"}}
  BY NamedFacts
<1>3. "signature" \in Owned(f.ext)
  BY DEF Owned, Reserved
<1>4. MsixContent(f) = {p \in ToSet(f.parts) : p.name \notin Owned(f.ext)}
  BY MsixContentIs
<1> HIDE DEF w, d
<1>5. MsixTold(f.ext, d) = {p \in ToSet(w) : p.name \notin Owned(f.ext)}
  BY <1>1 DEF MsixTold
<1>6. MsixTold(f.ext, d) = MsixContent(f)
  BY <1>2, <1>3, <1>4, <1>5
<1> QED
  BY <1>6 DEF d

(* The staged package: the same content, and an empty signature.              *)
Staged(s, f) ==
    MsixShape(s) /\ s.ext = f.ext /\ MsixContent(s) = MsixContent(f)

(* The last three parts of a package that is staged.                          *)
MsixTail(map, types) == <<Part("blockMap", map), Part("types", types), Unsealed>>

LEMMA StagedWith ==
    ASSUME NEW f, MsixShape(f), NEW kept, IsSeq(kept), NEW map, NEW types,
           ToSet(kept) = {p \in ToSet(f.parts) : p.name \notin Owned(f.ext)}, NEW y
    PROVE  Staged([f EXCEPT !.gap = y, !.parts = kept \o MsixTail(map, types)], f)
<1> DEFINE tail == MsixTail(map, types)
           w == kept \o tail
           a == Part("blockMap", map)
           b == Part("types", types)
<1>1. IsSeq(tail) /\ ToSet(tail) = {a, b, Unsealed}
  <2> HIDE DEF a, b
  <2>1. tail = <<a, b, Unsealed>>
    BY DEF a, b, MsixTail
  <2> HIDE DEF tail
  <2> QED
    BY <2>1, Triple
<1>2. /\ a.name = "blockMap" /\ b.name = "types" /\ b.body = types /\ Unsealed.name = "signature"
      /\ IsPart(a) /\ IsPart(b) /\ IsPart(Unsealed)
  BY PartFields, PartIsPart DEF Unsealed
<1> HIDE DEF tail, a, b
<1>3. IsSeq(w) /\ ToSet(w) = ToSet(kept) \cup {a, b, Unsealed}
  BY <1>1, Joined
<1> DEFINE g == [f EXCEPT !.gap = y, !.parts = w]
<1> HIDE DEF w
<1>4. g = MsixFile(f.ext, y, w)
  BY MsixUpdate DEF MsixShape
<1>5. g.ext = f.ext /\ g.gap = y /\ g.parts = w
  BY <1>4, MsixFields
<1> HIDE DEF g
<1>6. MsixShape(g)
  BY <1>2, <1>3, <1>4, <1>5 DEF MsixShape
<1>7. {"blockMap", "types", "signature"} \subseteq Owned(f.ext)
  BY DEF Owned, Reserved
<1>8. MsixContent(g) = MsixContent(f)
  <2>1. MsixContent(f) = {p \in ToSet(f.parts) : p.name \notin Owned(f.ext)}
    BY MsixContentIs DEF MsixShape
  <2>2. MsixContent(g) = {p \in ToSet(w) : p.name \notin Owned(f.ext)}
    BY <1>3, <1>5, MsixContentIs
  <2> QED
    BY <1>2, <1>3, <1>7, <2>1, <2>2
<1>9. Staged(g, f)
  BY <1>5, <1>6, <1>8 DEF Staged
<1> QED
  BY <1>9 DEF g, w, tail

LEMMA MsixStaged ==
    ASSUME NEW f, MsixShape(f), NEW alg, NEW g \in stage_msix(f, alg)
    PROVE  Staged(g, f)
<1> DEFINE types(w) == appx_content_types_for_signing(f.parts, w)
<1>0. IsSeq(f.parts)
  BY DEF MsixShape
<1>2. CASE f.ext # "msixbundle"
  <2> DEFINE N == Reserved \cup {"dir", "codeIntegrity"}
             w == Without(f.parts, N)
             map == block_map(alg, alg, w)
             no == FALSE
  <2>1. g = [f EXCEPT !.gap = no, !.parts = w \o MsixTail(map, types(w))]
    BY <1>2 DEF stage_msix, stage_flat_msix_for_signature, When, MsixTail
  <2>2. Owned(f.ext) = N
    BY <1>2 DEF Owned
  <2> HIDE DEF map, N, types, no
  <2>3. IsSeq(w) /\ ToSet(w) = {p \in ToSet(f.parts) : p.name \notin Owned(f.ext)}
    BY <1>0, <2>2, NamedFacts
  <2> HIDE DEF w
  <2> QED
    BY <2>1, <2>3, StagedWith
<1>3. CASE f.ext = "msixbundle"
  <2> DEFINE N == Reserved \cup {"dir", "codeIntegrity", "manifest", "bundleManifest"}
             a == Without(f.parts, N)
             m == Named(f.parts, {"bundleManifest"})
             w == a \o m
             map == build_msix_bundle_block_map(m, alg)
             no == FALSE
  <2>1. g = [f EXCEPT !.gap = no, !.parts = w \o MsixTail(map, types(w))]
    BY <1>3 DEF stage_msix, stage_msix_bundle_for_signature, When, MsixTail
  <2>2. Owned(f.ext) = N \ {"bundleManifest"}
    BY <1>3 DEF Owned, Reserved
  <2>4. "bundleManifest" \in N
    OBVIOUS
  <2> HIDE DEF map, N, types, no
  <2>5. IsSeq(a) /\ ToSet(a) = {p \in ToSet(f.parts) : p.name \notin N}
    BY <1>0, NamedFacts
  <2>6. IsSeq(m) /\ ToSet(m) = {p \in ToSet(f.parts) : p.name \in {"bundleManifest"}}
    BY <1>0, NamedFacts
  <2> HIDE DEF a, m
  <2>7. IsSeq(w) /\ ToSet(w) = ToSet(a) \cup ToSet(m)
    <3>1. IsSeq(a) /\ IsSeq(m)
      BY <2>5, <2>6
    <3> QED
      BY <3>1, Joined
  <2> HIDE DEF w
  <2>3. IsSeq(w) /\ ToSet(w) = {p \in ToSet(f.parts) : p.name \notin Owned(f.ext)}
    BY <2>2, <2>4, <2>5, <2>6, <2>7
  <2> QED
    BY <2>1, <2>3, StagedWith
<1> QED
  BY <1>2, <1>3

(* The signature part of a package gets its document.                         *)
LEMMA MsixFilled ==
    ASSUME NEW s, MsixShape(s), NEW t, NEW S,
           MsixTold(s.ext, IndirectDigest(t)) \in S
    PROVE  LET g == replace_msix_signature_part(s, t)
           IN MsixInv(g, S) /\ MsixContent(g) = MsixContent(s)
<1> DEFINE r == s.parts
           q == Part("signature", <<"p7x", <<t>>>>)
           x == [i \in DOMAIN r |-> IF r[i].name = "signature" THEN q ELSE r[i]]
           g == replace_msix_signature_part(s, t)
<1>0. /\ IsSeq(r) /\ Len(r) \in Nat /\ DOMAIN r = 1..Len(r) /\ ToSet(r) = {r[i] : i \in 1..Len(r)}
      /\ \A p \in ToSet(r) : IsPart(p)
  BY SeqFacts DEF MsixShape
<1>1. q.name = "signature" /\ IsPart(q) /\ q.body[2] # <<>> /\ q.body[2][1] = t
  <2> DEFINE one == <<t>>
             b == <<"p7x", one>>
  <2>1. b[2] = one /\ one # <<>> /\ one[1] = t
    BY Single
  <2> HIDE DEF b
  <2>2. q = Part("signature", b)
    BY DEF b
  <2> HIDE DEF q, one
  <2>3. q.name = "signature" /\ q.body = b /\ IsPart(q)
    BY <2>2, PartFields, PartIsPart
  <2>4. q.body[2] # <<>> /\ q.body[2][1] = t
    BY <2>1, <2>3
  <2> QED
    BY <2>3, <2>4
<1>2. g = [s EXCEPT !.parts = x]
  BY DEF replace_msix_signature_part
<1> HIDE DEF q, g
<1>3. IsSeq(x) /\ Len(x) = Len(r) /\ ToSet(x) = {x[i] : i \in 1..Len(r)}
  <2>1. x = [i \in DOMAIN r |-> x[i]]
    OBVIOUS
  <2> HIDE DEF x, r
  <2> QED
    BY <1>0, <2>1, MappedSeq
<1>4. \A i \in 1..Len(r) : x[i] = IF r[i].name = "signature" THEN q ELSE r[i]
  BY <1>0
<1> HIDE DEF x
<1>5. g.ext = s.ext /\ g.parts = x /\ g = MsixFile(g.ext, g.gap, g.parts)
  <2>1. g = MsixFile(s.ext, s.gap, x)
    BY <1>2, MsixUpdate DEF MsixShape
  <2>2. g.ext = s.ext /\ g.gap = s.gap /\ g.parts = x
    BY <2>1, MsixFields
  <2> QED
    BY <2>1, <2>2
<1>6. \A p \in ToSet(x) : p = q \/ (p \in ToSet(r) /\ p.name # "signature")
  BY <1>0, <1>3, <1>4
<1>7. \A p \in ToSet(r) : p.name # "signature" => p \in ToSet(x)
  BY <1>0, <1>3, <1>4
<1>8. MsixShape(g)
  BY <1>0, <1>1, <1>3, <1>5, <1>6 DEF MsixShape
<1>10. MsixInv(g, S)
  BY <1>1, <1>5, <1>6, <1>8 DEF MsixInv
<1>11. "signature" \in Owned(s.ext)
  BY DEF Owned, Reserved
<1>12. MsixContent(s) = {p \in ToSet(r) : p.name \notin Owned(s.ext)}
  BY <1>0, MsixContentIs
<1>13. MsixContent(g) = {p \in ToSet(x) : p.name \notin Owned(s.ext)}
  BY <1>3, <1>5, MsixContentIs
<1>14. MsixContent(g) = MsixContent(s)
  BY <1>1, <1>6, <1>7, <1>11, <1>12, <1>13
<1> QED
  BY <1>10, <1>14 DEF g

LEMMA MsixMore ==
    ASSUME NEW f, NEW S, NEW T, S \subseteq T, MsixInv(f, S)
    PROVE  MsixInv(f, T)
BY DEF MsixInv

(* sign_msix: what is signed is told, and kept.                               *)
LEMMA MsixSigned ==
    ASSUME NEW f, NEW S, MsixInv(f, S), NEW req, NEW g \in sign_msix(f, req)
    PROVE  MsixInv(g, S \cup {MsixContent(f)}) /\ MsixContent(g) = MsixContent(f)
<1> DEFINE T == S \cup {MsixContent(f)}
<1>1. CASE g = f
  <2>1. S \subseteq T
    OBVIOUS
  <2> HIDE DEF T
  <2>2. MsixInv(f, T)
    BY <2>1, MsixMore
  <2> QED
    BY <1>1, <2>2 DEF T
<1>2. CASE g # f
  <2>1. PICK s \in stage_msix(f, req.alg) : g \in SignStagedMsix(s, req)
    BY <1>2, Zenon DEF sign_msix
  <2>2. PICK d \in msix_authenticode_digest_blob(s) :
            \E c \in create_authenticode_pkcs7(req.material, "msix", req.alg, d) :
            \E t \in maybe_timestamp_pkcs7(c, req.tsa) : g = replace_msix_signature_part(s, t)
    BY <2>1 DEF SignStagedMsix
  <2>3. PICK c \in create_authenticode_pkcs7(req.material, "msix", req.alg, d) :
            \E t \in maybe_timestamp_pkcs7(c, req.tsa) : g = replace_msix_signature_part(s, t)
    BY <2>2
  <2>4. PICK t \in maybe_timestamp_pkcs7(c, req.tsa) : g = replace_msix_signature_part(s, t)
    BY <2>3
  <2>5. Staged(s, f)
    BY <2>1, MsixStaged DEF MsixInv
  <2>6. IsCms(c) /\ IndirectDigest(c) = d
    BY SpcMade
  <2>7. SameDocument(t, c)
    BY <2>6, MaybeStamped, Zenon
  <2>8. IndirectDigest(t) = d
    BY <2>6, <2>7, SameSaid
  <2>9. PICK kind : d = msix_pieces(s, kind)
    BY <2>2 DEF msix_authenticode_digest_blob, flat_digest_blob
  <2>10. MsixTold(s.ext, d) = MsixContent(s)
    BY <2>5, <2>9, MsixPieces DEF Staged, MsixShape
  <2>11. MsixTold(s.ext, IndirectDigest(t)) \in T
    BY <2>5, <2>8, <2>10 DEF Staged
  <2> HIDE DEF T
  <2>12. MsixInv(g, T) /\ MsixContent(g) = MsixContent(s)
    BY <2>4, <2>5, <2>11, MsixFilled DEF Staged
  <2> QED
    BY <2>5, <2>12 DEF Staged, T
<1> QED
  BY <1>1, <1>2

LEMMA MsixMatched ==
    ASSUME NEW f, NEW S, MsixInv(f, S), MsixSignature(f) # <<>>, NEW kind,
           IndirectDigest(MsixSignature(f)[1]) = msix_pieces(f, kind)
    PROVE  MsixContent(f) \in S
<1>1. IsSeq(f.parts)
  BY DEF MsixInv, MsixShape
<1>2. Has(f.parts, "signature") /\ MsixSignature(f) = BodyOf(f.parts, "signature")[2]
  BY DEF MsixSignature
<1>3. PICK p \in ToSet(f.parts) : p.name = "signature" /\ BodyOf(f.parts, "signature") = p.body
  BY <1>1, <1>2, HasFacts
<1>4. MsixTold(f.ext, IndirectDigest(p.body[2][1])) \in S
  BY <1>3 DEF MsixInv
<1>5. IndirectDigest(p.body[2][1]) = msix_pieces(f, kind)
  BY <1>2, <1>3
<1>6. MsixTold(f.ext, msix_pieces(f, kind)) = MsixContent(f)
  BY <1>1, MsixPieces
<1> QED
  BY <1>4, <1>5, <1>6

LEMMA MsixEdited ==
    ASSUME NEW f, NEW S, MsixInv(f, S), NEW x \in EditedParts(f.parts) \cup EditedTypes(f.parts)
    PROVE  MsixInv([f EXCEPT !.parts = x], S)
<1> DEFINE g == [f EXCEPT !.parts = x]
<1>1. g.ext = f.ext /\ g.parts = x /\ g = MsixFile(g.ext, g.gap, g.parts)
  <2>1. g = MsixFile(f.ext, f.gap, x)
    BY MsixUpdate DEF MsixInv, MsixShape
  <2>2. g.ext = f.ext /\ g.gap = f.gap /\ g.parts = x
    BY <2>1, MsixFields
  <2> HIDE DEF g
  <2> QED
    BY <2>1, <2>2
<1>2. /\ IsSeq(x)
      /\ \A p \in ToSet(x) : p \in ToSet(f.parts) \/ (IsPart(p) /\ p.name # "signature")
  <2>1. IsSeq(f.parts) /\ \A p \in ToSet(f.parts) : IsPart(p)
    BY DEF MsixInv, MsixShape
  <2>2. CASE x \in EditedParts(f.parts)
    BY <2>1, <2>2, PartsEdited DEF PartEdit, Editable
  <2>3. CASE x \in EditedTypes(f.parts)
    BY <2>1, <2>3, TypesEdited
  <2> QED
    BY <2>2, <2>3
<1> HIDE DEF g
<1>3. MsixShape(g)
  BY <1>1, <1>2 DEF MsixShape, MsixInv
<1>5. ASSUME NEW p \in ToSet(x), p.name = "signature"
      PROVE  p \in ToSet(f.parts)
  BY <1>2, <1>5
<1>6. MsixInv(g, S)
  BY <1>1, <1>3, <1>5 DEF MsixInv
<1> QED
  BY <1>6 DEF g

(* set_msix_manifest_publisher leaves a package without a signature.          *)
LEMMA MsixPublished ==
    ASSUME NEW f, NEW S, MsixInv(f, S), NEW v, NEW g \in set_msix_manifest_publisher(f, v)
    PROVE  MsixInv(g, S)
<1> DEFINE r == f.parts
           N == {"manifest", "bundleManifest"}
           q(i) == Part(r[i].name, <<"data", v>>)
           x == [i \in DOMAIN r |-> IF r[i].name \in N THEN q(i) ELSE r[i]]
<1>0. /\ IsSeq(r) /\ Len(r) \in Nat /\ DOMAIN r = 1..Len(r) /\ ToSet(r) = {r[i] : i \in 1..Len(r)}
      /\ \A p \in ToSet(r) : IsPart(p)
  BY SeqFacts DEF MsixInv, MsixShape
<1>1. ~Has(r, "signature") /\ g = [f EXCEPT !.parts = x]
  BY DEF set_msix_manifest_publisher, When
<1>2. \A p \in ToSet(r) : p.name # "signature"
  BY <1>0, <1>1, HasFacts
<1>3. IsSeq(x) /\ ToSet(x) = {x[i] : i \in 1..Len(r)}
  <2>1. x = [i \in DOMAIN r |-> x[i]]
    OBVIOUS
  <2> HIDE DEF x, r
  <2> QED
    BY <1>0, <2>1, MappedSeq
<1>4. \A i \in 1..Len(r) : x[i] = IF r[i].name \in N THEN q(i) ELSE r[i]
  BY <1>0
<1>5. \A i \in 1..Len(r) : IsPart(q(i)) /\ q(i).name = r[i].name
  BY PartFields, PartIsPart
<1> HIDE DEF x, q
<1>6. \A p \in ToSet(x) : IsPart(p) /\ p.name # "signature"
  BY <1>0, <1>2, <1>3, <1>4, <1>5
<1>7. g.parts = x /\ g = MsixFile(g.ext, g.gap, g.parts)
  <2>1. g = MsixFile(f.ext, f.gap, x)
    BY <1>1, MsixUpdate DEF MsixInv, MsixShape
  <2>2. g.ext = f.ext /\ g.gap = f.gap /\ g.parts = x
    BY <2>1, MsixFields
  <2> QED
    BY <2>1, <2>2
<1> QED
  BY <1>3, <1>6, <1>7 DEF MsixInv, MsixShape

-----------------------------------------------------------------------------
(* NuGet packages: the attributes name the archive the signature is over, in  *)
(* the metadata every writer gives it.                                        *)
NuFile(parts) == [fmt |-> "nuget", parts |-> parts]
NuTold(d) == d[2].messageDigest[2][3][2]

Canonical(x) ==
    IsSeq(x) /\ \A i \in 1..Len(x) : x[i].name # "signature" /\ x[i] = nuget_zip_options(x[i])

NuDocument(c, S) ==
    c.attrs.messageDigest = Hash(c.alg, c.content[1]) /\ NuTold(c.sigval[2]) \in S

NuShape(f) == f = NuFile(f.parts) /\ IsSeq(f.parts) /\ \A p \in ToSet(f.parts) : IsPart(p)

NuInv(f, S) ==
    /\ NuShape(f) /\ \A x \in S : Canonical(x)
    /\ \A p \in ToSet(f.parts) : p.name = "signature" => NuDocument(p.body[2], S)

LEMMA NuFields == \A a : NuFile(a).fmt = "nuget" /\ NuFile(a).parts = a
BY DEF NuFile

LEMMA NuUpdate ==
    ASSUME NEW f, f = NuFile(f.parts), NEW x
    PROVE  [f EXCEPT !.parts = x] = NuFile(x)
<1> DEFINE a == f.parts
<1>1. f = NuFile(a)
  OBVIOUS
<1> HIDE DEF a
<1> QED
  BY <1>1 DEF NuFile

LEMMA OptionsAgain ==
    \A p : nuget_zip_options(p).name = p.name
           /\ nuget_zip_options(nuget_zip_options(p)) = nuget_zip_options(p)
           /\ IsPart(nuget_zip_options(p))
<1> SUFFICES ASSUME NEW p
             PROVE  /\ nuget_zip_options(p).name = p.name
                    /\ nuget_zip_options(nuget_zip_options(p)) = nuget_zip_options(p)
                    /\ IsPart(nuget_zip_options(p))
  OBVIOUS
<1> DEFINE n == p.name
           v == p.body[2]
           b == <<"data", v, "normal">>
           q == nuget_zip_options(p)
<1>1. b[2] = v
  OBVIOUS
<1>2. q = Part(n, b)
  BY DEF nuget_zip_options
<1> HIDE DEF b, q
<1>3. q.name = n /\ q.body = b /\ IsPart(q)
  BY <1>2, PartFields, PartIsPart
<1>4. nuget_zip_options(q) = Part(n, b)
  BY <1>1, <1>3 DEF nuget_zip_options, b
<1> QED
  BY <1>2, <1>3, <1>4 DEF q

(* The package without its signatures, in the metadata of the writers.        *)
LEMMA CanonicalPackage ==
    ASSUME NEW s, IsSeq(s)
    PROVE  LET x == canonical_unsigned_package(s)
               w == Without(s, {"signature"})
           IN /\ Canonical(x) /\ Len(x) = Len(w) /\ \A i \in 1..Len(w) : x[i] = nuget_zip_options(w[i])
              /\ \A p \in ToSet(x) : IsPart(p) /\ p.name # "signature"
<1> DEFINE w == Without(s, {"signature"})
           x == canonical_unsigned_package(s)
           q(i) == nuget_zip_options(w[i])
<1>1. IsSeq(w) /\ ToSet(w) = {p \in ToSet(s) : p.name \notin {"signature"}}
  BY NamedFacts
<1>2. Len(w) \in Nat /\ DOMAIN w = 1..Len(w) /\ ToSet(w) = {w[i] : i \in 1..Len(w)}
  BY <1>1, SeqFacts
<1>3. x = [i \in DOMAIN w |-> q(i)]
  BY DEF canonical_unsigned_package
<1>4. x = [i \in DOMAIN w |-> x[i]] /\ \A i \in 1..Len(w) : x[i] = q(i)
  BY <1>2, <1>3
<1> HIDE DEF x, w
<1>5. IsSeq(x) /\ Len(x) = Len(w) /\ ToSet(x) = {x[i] : i \in 1..Len(w)}
  BY <1>1, <1>4, MappedSeq
<1>6. \A i \in 1..Len(w) : w[i].name # "signature"
  BY <1>1, <1>2
<1>7. \A i \in 1..Len(w) : x[i].name # "signature" /\ x[i] = nuget_zip_options(x[i]) /\ IsPart(x[i])
  BY <1>4, <1>6, OptionsAgain
<1>8. Canonical(x)
  BY <1>5, <1>7 DEF Canonical
<1> QED
  BY <1>4, <1>5, <1>7, <1>8 DEF x, w

(* A package in those metadata is its own content, its signature aside.       *)
LEMMA CanonicalKept ==
    ASSUME NEW s, IsSeq(s), NEW x, Canonical(x), Without(s, {"signature"}) = x
    PROVE  canonical_unsigned_package(s) = x
<1>1. /\ IsSeq(canonical_unsigned_package(s)) /\ Len(canonical_unsigned_package(s)) = Len(x)
      /\ \A i \in 1..Len(x) : canonical_unsigned_package(s)[i] = nuget_zip_options(x[i])
  BY CanonicalPackage DEF Canonical
<1>2. \A i \in 1..Len(x) : canonical_unsigned_package(s)[i] = x[i]
  BY <1>1 DEF Canonical
<1> HIDE DEF canonical_unsigned_package
<1> QED
  BY <1>1, <1>2, SameSeq DEF Canonical

(* Without the last part of all, when that is the signature.                  *)
LEMMA SignatureLast ==
    ASSUME NEW x, IsSeq(x), NEW p, p.name = "signature"
    PROVE  /\ (\A i \in 1..Len(x) : x[i].name # "signature") => Without(x \o <<p>>, {"signature"}) = x
           /\ Once(x \o <<p>>, "signature") => \A i \in 1..Len(x) : x[i].name # "signature"
<1> DEFINE one == <<p>>
           s == x \o one
           T == {q \in ToSet(s) : q.name \in {"signature"}}
           U == {q \in ToSet(s) : q.name \notin {"signature"}}
<1>1. IsSeq(one) /\ ToSet(one) = {p}
  BY Single
<1> HIDE DEF one
<1>2. IsSeq(s) /\ ToSet(s) = ToSet(x) \cup ToSet(one)
  BY <1>1, Joined
<1>3. p \in T /\ p \notin U
  BY <1>1, <1>2
<1>4. ToSet(x) \subseteq ToSet(s) /\ \A i \in 1..Len(x) : x[i] \in ToSet(x)
  BY <1>2, SeqFacts
<1>5. Without(s, {"signature"}) = Only(s, U) /\ Named(s, {"signature"}) = Only(s, T)
  BY DEF Without, Named
<1>6. \A i \in 1..Len(x) : x[i].name # "signature" => x[i] \in U
  BY <1>4
<1> HIDE DEF T, U
<1>7. Only(s, T) = Only(x, T) \o Only(one, T) /\ Only(s, U) = Only(x, U) \o Only(one, U)
  BY <1>1, OnlyJoined
<1>8. Only(one, T) = one /\ Only(one, U) = <<>>
  BY <1>3, OnlyOfOne DEF one
<1> HIDE DEF s
<1>9. ASSUME \A i \in 1..Len(x) : x[i].name # "signature"
      PROVE  Without(s, {"signature"}) = x
  <2>1. Only(x, U) = x
    BY <1>6, <1>9, OnlyAll
  <2>2. x \o <<>> = x
    BY NothingAround
  <2> QED
    BY <1>5, <1>7, <1>8, <2>1, <2>2
<1>10. ASSUME Once(s, "signature"), NEW i \in 1..Len(x)
       PROVE  x[i].name # "signature"
  <2> DEFINE y == Only(x, T)
  <2>1. IsSeq(y) /\ ToSet(y) = ToSet(x) \cap T
    BY OnlyFacts
  <2>2. Only(s, T) = y \o one
    BY <1>7, <1>8
  <2> HIDE DEF y
  <2>3. Len(y \o one) = Len(y) + Len(one) /\ Len(one) = 1
    <3>1. Len(one) = 1
      BY Single DEF one
    <3> QED
      BY <1>1, <2>1, <3>1, Joined
  <2>4. Len(Only(s, T)) = 1
    BY <1>5, <1>10 DEF Once
  <2>5. Len(y) \in Nat /\ (y = <<>> <=> Len(y) = 0) /\ ToSet(y) = {y[j] : j \in 1..Len(y)}
    BY <2>1, SeqFacts
  <2>6. Len(y) = 0
    BY <2>2, <2>3, <2>4, <2>5
  <2>7. ToSet(x) \cap T = {}
    BY <2>1, <2>5, <2>6
  <2> QED
    BY <1>2, <1>4, <2>7 DEF T
<1> QED
  BY <1>9, <1>10 DEF s, one

LEMMA NuMore ==
    ASSUME NEW f, NEW S, NEW T, S \subseteq T, \A x \in T : Canonical(x), NuInv(f, S)
    PROVE  NuInv(f, T)
BY DEF NuInv, NuDocument

(* embed_signature: the package written anew, with a signature or without.    *)
LEMMA NuEmbedded ==
    ASSUME NEW f, NEW S, NuInv(f, S), NEW c, NEW T, \A x \in T : Canonical(x), NuDocument(c, T),
           NEW s, NEW o, IsSeq(s), Without(s, {"signature"}) = Without(f.parts, {"signature"})
                                   \/ s = canonical_unsigned_package(f.parts),
           NEW e \in nuget_embed(s, c, o)
    PROVE  /\ NuInv([f EXCEPT !.parts = e], T)
           /\ NuGetContent([f EXCEPT !.parts = e]) = NuGetContent(f)
<1> DEFINE x == canonical_unsigned_package(f.parts)
           p == Part("signature", <<"p7s", c>>)
           g == [f EXCEPT !.parts = e]
<1>0. IsSeq(f.parts)
  BY DEF NuInv, NuShape
<1>1. Canonical(x) /\ \A q \in ToSet(x) : IsPart(q) /\ q.name # "signature"
  BY <1>0, CanonicalPackage
<1>2. canonical_unsigned_package(s) = x
  <2>1. CASE Without(s, {"signature"}) = Without(f.parts, {"signature"})
    BY <2>1 DEF canonical_unsigned_package
  <2>2. CASE s = x
    <3> HIDE DEF x
    <3>0. IsSeq(x) /\ ToSet(x) = {x[i] : i \in 1..Len(x)}
      BY <1>1, SeqFacts DEF Canonical
    <3> DEFINE U == {q \in ToSet(x) : q.name \notin {"signature"}}
    <3>1. \A i \in 1..Len(x) : x[i] \in U
      BY <1>1, <3>0
    <3> HIDE DEF U
    <3>2. Only(x, U) = x
      BY <3>0, <3>1, OnlyAll
    <3>3. Without(x, {"signature"}) = x
      BY <3>2 DEF Without, U
    <3> QED
      BY <1>1, <2>2, <3>0, <3>3, CanonicalKept
  <2> QED
    BY <2>1, <2>2
<1>3. e = x \o <<p>>
  BY <1>2 DEF nuget_embed, When
<1>4. p.name = "signature" /\ p.body[2] = c /\ IsPart(p)
  <2> DEFINE b == <<"p7s", c>>
  <2>1. b[2] = c
    OBVIOUS
  <2> HIDE DEF b
  <2>2. Part("signature", b).name = "signature" /\ Part("signature", b).body = b /\ IsPart(Part("signature", b))
    BY PartFields, PartIsPart
  <2> QED
    BY <2>1, <2>2 DEF b
<1> HIDE DEF x, p
<1> DEFINE one == <<p>>
<1>5. IsSeq(one) /\ ToSet(one) = {p}
  BY Single
<1> HIDE DEF one
<1>6. IsSeq(x)
  BY <1>1 DEF Canonical
<1>7. e = x \o one
  BY <1>3 DEF one
<1>8. IsSeq(x \o one) /\ ToSet(x \o one) = ToSet(x) \cup ToSet(one)
  BY <1>5, <1>6, Joined
<1>9. IsSeq(e) /\ ToSet(e) = ToSet(x) \cup {p}
  BY <1>5, <1>7, <1>8
<1>10. Without(e, {"signature"}) = x
  BY <1>1, <1>3, <1>4, <1>6, SignatureLast DEF Canonical
<1>11. g.parts = e /\ g = NuFile(g.parts)
  BY NuUpdate, NuFields DEF NuInv, NuShape
<1> HIDE DEF g
<1>12. NuShape(g)
  BY <1>1, <1>4, <1>9, <1>11 DEF NuShape
<1>13. NuInv(g, T)
  BY <1>1, <1>4, <1>9, <1>11, <1>12 DEF NuInv
<1>14. NuGetContent(g) = x
  BY <1>1, <1>9, <1>10, <1>11, CanonicalKept DEF NuGetContent
<1>15. NuGetContent(f) = x
  BY DEF x, NuGetContent
<1> QED
  BY <1>13, <1>14, <1>15 DEF g

(* A document over the attributes of a package's content.                     *)
LEMMA NuMade ==
    ASSUME NEW c, NEW alg, NEW x, SignedOver(c, alg, signature_content(x, alg)),
           c.content = <<signature_content(x, alg)>>, NEW S, x \in S
    PROVE  NuDocument(c, S)
<1> DEFINE z == signature_content(x, alg)
<1>1. z[3][2] = x
  BY DEF signature_content, Hash
<1> HIDE DEF z
<1>2. c.alg = alg /\ c.attrs.messageDigest = Hash(alg, z) /\ c.sigval[2] = Hash(alg, c.attrs)
  BY DEF SignedOver, z
<1>3. c.content[1] = z
  BY DEF z
<1>4. NuTold(c.sigval[2]) = x
  BY <1>1, <1>2 DEF NuTold, Hash
<1> QED
  BY <1>2, <1>3, <1>4 DEF NuDocument

LEMMA NuStamped ==
    ASSUME NEW t, NEW c, NEW S, SameDocument(t, c), NuDocument(c, S)
    PROVE  NuDocument(t, S)
BY DEF SameDocument, NuDocument

LEMMA NuSigned ==
    ASSUME NEW f, NEW S, NuInv(f, S), NEW req, NEW now, NEW g \in sign_nuget(f, req, now)
    PROVE  NuInv(g, S \cup {NuGetContent(f)}) /\ NuGetContent(g) = NuGetContent(f)
<1> DEFINE x == canonical_unsigned_package(f.parts)
           T == S \cup {x}
           z == signature_content(x, req.alg)
           no == FALSE
           yes == TRUE
<1>0. Canonical(x)
  BY CanonicalPackage DEF NuInv, NuShape
<1>1. PICK c \in create_nuget_author_signature(req.material, req.alg, z, now) :
          \E t \in maybe_timestamp_pkcs7(c, req.tsa) :
          \E e \in nuget_embed(x, t, no) : g = [f EXCEPT !.parts = e]
  <2> DEFINE V(t) == {[f EXCEPT !.parts = e] : e \in nuget_embed(x, t, no)}
             U(c) == UNION {V(t) : t \in maybe_timestamp_pkcs7(c, req.tsa)}
  <2>1. sign_nuget(f, req, now) =
            UNION {U(c) : c \in create_nuget_author_signature(req.material, req.alg, z, now)}
    BY DEF sign_nuget
  <2> HIDE DEF V, x, z, no
  <2>2. PICK c \in create_nuget_author_signature(req.material, req.alg, z, now) : g \in U(c)
    BY <2>1
  <2>3. PICK t \in maybe_timestamp_pkcs7(c, req.tsa) : g \in V(t)
    BY <2>2
  <2>4. \E e \in nuget_embed(x, t, no) : g = [f EXCEPT !.parts = e]
    BY <2>3 DEF V
  <2> QED
    BY <2>3, <2>4
<1>2. PICK t \in maybe_timestamp_pkcs7(c, req.tsa) :
          \E e \in nuget_embed(x, t, no) : g = [f EXCEPT !.parts = e]
  BY <1>1
<1>3. PICK e \in nuget_embed(x, t, no) : g = [f EXCEPT !.parts = e]
  BY <1>2
<1>4. IsCms(c) /\ SignedOver(c, req.alg, z) /\ c.content = <<z>>
  <2>1. PICK profile : c \in create_pkcs7(req.material, profile, yes, req.alg, z, now)
    BY Zenon DEF create_nuget_author_signature
  <2>2. /\ IsCms(c) /\ SignedOver(c, req.alg, z)
        /\ c.content = IF yes THEN <<z>> ELSE <<>>
    <3> HIDE DEF yes, z
    <3> QED
      BY <2>1, DocumentMade
  <2> QED
    BY <2>2
<1>5. NuDocument(c, T)
  BY <1>4, NuMade
<1>6. SameDocument(t, c)
  BY <1>4, MaybeStamped
<1>7. NuDocument(t, T)
  BY <1>5, <1>6, NuStamped
<1>8. \A y \in T : Canonical(y)
  BY <1>0 DEF NuInv
<1>9. IsSeq(x) /\ x = canonical_unsigned_package(f.parts)
  BY <1>0 DEF Canonical
<1> HIDE DEF x, T, no
<1>10. NuInv([f EXCEPT !.parts = e], T) /\ NuGetContent([f EXCEPT !.parts = e]) = NuGetContent(f)
  BY <1>7, <1>8, <1>9, NuEmbedded
<1> QED
  BY <1>3, <1>10 DEF T, x, NuGetContent

LEMMA NuVerified ==
    ASSUME NEW f, NEW S, NuInv(f, S), verify_nuget(f)
    PROVE  NuGetContent(f) \in S
<1> DEFINE s == f.parts
           x == Front(s)
           c == BodyOf(s, "signature")[2]
<1>0. IsSeq(s) /\ Len(s) \in Nat /\ DOMAIN s = 1..Len(s) /\ \A i \in 1..Len(s) : s[i] \in ToSet(s)
  BY SeqFacts DEF NuInv, NuShape
<1>1. /\ Once(s, "signature") /\ Last(s).name = "signature"
      /\ verify_detached(c, signature_content(x, c.alg))
  BY DEF verify_nuget, signed_package_unsigned, When
<1>2. Named(s, {"signature"}) # <<>>
  <2> DEFINE w == Named(s, {"signature"})
  <2>1. IsSeq(w) /\ Len(w) = 1
    BY <1>0, <1>1, NamedFacts DEF Once
  <2> HIDE DEF w
  <2>2. w = <<>> <=> Len(w) = 0
    BY <2>1, SeqFacts
  <2> QED
    BY <2>1, <2>2 DEF w
<1>3. PICK p \in ToSet(s) : p.name = "signature" /\ BodyOf(s, "signature") = p.body
  BY <1>0, <1>2, HasFacts DEF Has
<1>4. NuTold(c.sigval[2]) \in S
  BY <1>3 DEF NuInv, NuDocument
<1> HIDE DEF c
<1>5. NuTold(c.sigval[2]) = x
  BY <1>1 DEF verify_detached, rsa_sha256_verifies, signature_verifies, signed_attrs_digest, RsaSign,
              Hash, NuTold, signature_content
<1>6. Len(s) # 0
  <2>1. ToSet(s) # {}
    BY <1>3
  <2> QED
    BY <2>1, <1>0, SeqFacts
<1>7. s = x \o <<s[Len(s)]>> /\ s[Len(s)].name = "signature" /\ IsSeq(x)
  <2>1. x = SubSeq(s, 1, Len(s) - 1)
    BY DEF Front
  <2>2. Len(s) \in 1..Len(s) /\ Len(s) - 1 \in 0..Len(s)
    BY <1>0, <1>6
  <2> DEFINE n == Len(s)
  <2>3. SubSeq(s, 1, n) = s /\ IsSeq(SubSeq(s, 1, n - 1)) /\ SubSeq(s, 1, n) = SubSeq(s, 1, n - 1) \o <<s[n]>>
    <3> HIDE DEF s
    <3>1. /\ SubSeq(s, 1, n) = s
          /\ \A k \in 0..n : IsSeq(SubSeq(s, 1, k))
          /\ \A k \in 1..n : SubSeq(s, 1, k) = SubSeq(s, 1, k - 1) \o <<s[k]>>
      BY <1>0, PrefixFacts
    <3> HIDE DEF n
    <3> QED
      BY <2>2, <3>1 DEF n
  <2>4. s[Len(s)].name = "signature"
    BY <1>1 DEF Last
  <2> QED
    BY <2>1, <2>3, <2>4
<1> HIDE DEF x
<1> DEFINE final == s[Len(s)]
<1>8. Without(s, {"signature"}) = x
  <2>1. s = x \o <<final>> /\ final.name = "signature"
    BY <1>7
  <2> HIDE DEF final
  <2>2. Once(x \o <<final>>, "signature")
    BY <1>1, <2>1
  <2>3. \A i \in 1..Len(x) : x[i].name # "signature"
    BY <1>7, <2>1, <2>2, SignatureLast
  <2>4. Without(x \o <<final>>, {"signature"}) = x
    BY <1>7, <2>1, <2>3, SignatureLast
  <2> QED
    BY <2>1, <2>4
<1>9. x \in S /\ Canonical(x)
  BY <1>4, <1>5 DEF NuInv
<1>10. canonical_unsigned_package(s) = x
  BY <1>0, <1>8, <1>9, CanonicalKept
<1> QED
  BY <1>9, <1>10 DEF NuGetContent

LEMMA NuEdited ==
    ASSUME NEW f, NEW S, NuInv(f, S), NEW x \in EditedParts(f.parts)
    PROVE  NuInv([f EXCEPT !.parts = x], S)
<1> DEFINE g == [f EXCEPT !.parts = x]
<1>1. g.parts = x /\ g = NuFile(g.parts)
  BY NuUpdate, NuFields DEF NuInv, NuShape
<1>2. PartEdit(x, f.parts)
  BY PartsEdited DEF NuInv, NuShape
<1> HIDE DEF g
<1>3. NuShape(g)
  BY <1>1, <1>2 DEF PartEdit, NuShape, NuInv
<1>4. ASSUME NEW p \in ToSet(x), p.name = "signature"
      PROVE  p \in ToSet(f.parts)
  BY <1>2, <1>4 DEF PartEdit, Editable
<1>5. NuInv(g, S)
  BY <1>1, <1>3, <1>4 DEF NuInv
<1> QED
  BY <1>5 DEF g

-----------------------------------------------------------------------------
(* VSIX packages: what a signature tells is a fact about the set of the       *)
(* parts, as one part at most declares types.                                 *)
VsFile(parts) == [fmt |-> "vsix", parts |-> parts]
Around == SignatureParts \cup {"types", "rels"}
OneTypes(P) == \A p, q \in P : p.name = "types" /\ q.name = "types" => p = q
TypesOf(P) == UNION {p.body[2] : p \in {q \in P : q.name = "types"}}
VsType(P, name) == {t[2] : t \in {u \in TypesOf(P) : u[1] = ExtensionOf(name)}}
Payload(P) == {p \in P : p.name \notin Around}
VsTells(P) == {<<p.name, VsType(P, p.name), p.body>> : p \in Payload(P)}

VsTold(d) ==
    {<<m[1], m[2], m[3][2]>> : m \in {n \in d[2][2][2][2] : n[1] \notin Around}}

VsShape(f) ==
    /\ f = VsFile(f.parts)
    /\ IsSeq(f.parts) /\ (\A p \in ToSet(f.parts) : IsPart(p)) /\ OneTypes(ToSet(f.parts))

VsInv(f, S) ==
    /\ VsShape(f)
    /\ \A p \in ToSet(f.parts) : p.name = "signature" => VsTold(p.body[2].value[2]) \in S
    /\ \A p \in ToSet(f.parts) : p.name = "origin" => \E q \in ToSet(f.parts) : q.name = "signature"

LEMMA VsFields == \A a : VsFile(a).fmt = "vsix" /\ VsFile(a).parts = a
BY DEF VsFile

LEMMA VsUpdate ==
    ASSUME NEW f, f = VsFile(f.parts), NEW x
    PROVE  [f EXCEPT !.parts = x] = VsFile(x)
<1> DEFINE a == f.parts
<1>1. f = VsFile(a)
  OBVIOUS
<1> HIDE DEF a
<1> QED
  BY <1>1 DEF VsFile

LEMMA VsMore ==
    ASSUME NEW f, NEW S, NEW T, S \subseteq T, VsInv(f, S)
    PROVE  VsInv(f, T)
BY DEF VsInv

LEMMA VsTypeOf ==
    ASSUME NEW s, IsSeq(s), OneTypes(ToSet(s))
    PROVE  /\ Has(s, "types") => \A name : TypeOf(s, name) = VsType(ToSet(s), name)
           /\ ~Has(s, "types") => \A name : VsType(ToSet(s), name) = {}
<1> DEFINE P == ToSet(s)
<1>1. ASSUME Has(s, "types")
      PROVE  \A name : TypeOf(s, name) = VsType(P, name)
  <2>1. PICK p \in P : p.name = "types" /\ BodyOf(s, "types") = p.body
    BY <1>1, HasFacts
  <2>2. {q \in P : q.name = "types"} = {p}
    BY <2>1 DEF OneTypes
  <2> HIDE DEF P
  <2>3. TypesOf(P) = BodyOf(s, "types")[2]
    BY <2>1, <2>2 DEF TypesOf
  <2> QED
    BY <2>3 DEF TypeOf, VsType
<1>2. ASSUME ~Has(s, "types")
      PROVE  \A name : VsType(P, name) = {}
  <2>1. {q \in P : q.name = "types"} = {}
    BY <1>2, HasFacts
  <2> HIDE DEF P
  <2>2. TypesOf(P) = {}
    BY <2>1 DEF TypesOf
  <2> QED
    BY <2>2 DEF VsType
<1> QED
  BY <1>1, <1>2

LEMMA VsContentIs ==
    ASSUME NEW f, VsShape(f)
    PROVE  VsixContent(f) = VsTells(ToSet(f.parts))
<1> DEFINE s == f.parts
           P == ToSet(s)
           a(p) == IF Has(s, "types") THEN TypeOf(s, p.name) ELSE {}
           b(p) == VsType(P, p.name)
           t(p) == <<p.name, a(p), p.body>>
           u(p) == <<p.name, b(p), p.body>>
<1>1. \A p : a(p) = b(p)
  BY VsTypeOf DEF VsShape
<1> HIDE DEF a, b
<1>2. \A p : t(p) = u(p)
  BY <1>1
<1>3. VsixContent(f) = {t(p) : p \in ToSet(Without(s, Around))}
  BY DEF VsixContent, Around, a
<1>4. ToSet(Without(s, Around)) = Payload(P)
  BY NamedFacts DEF VsShape, Payload
<1>5. VsTells(P) = {u(p) : p \in Payload(P)}
  BY DEF VsTells, b
<1> HIDE DEF t, u, P, s
<1>6. VsixContent(f) = VsTells(P)
  BY <1>2, <1>3, <1>4, <1>5
<1> QED
  BY <1>6 DEF P, s

LEMMA EnsuredTypes ==
    ASSUME NEW types
    PROVE  {u \in ensure_signature_content_types(types) : u[1] = "bin"} = {u \in types : u[1] = "bin"}
<1>1. \A x, ext, type : ext # "bin" =>
          {u \in EnsureType(x, ext, type) : u[1] = "bin"} = {u \in x : u[1] = "bin"}
  <2> SUFFICES ASSUME NEW x, NEW ext, NEW type, ext # "bin"
               PROVE  {u \in EnsureType(x, ext, type) : u[1] = "bin"} = {u \in x : u[1] = "bin"}
    OBVIOUS
  <2> DEFINE e == <<ext, type>>
  <2>1. e[1] # "bin"
    OBVIOUS
  <2>2. EnsureType(x, ext, type) = x \/ EnsureType(x, ext, type) = x \cup {e}
    BY DEF EnsureType
  <2> HIDE DEF e
  <2> QED
    BY <2>1, <2>2
<1>2. "psdsor" # "bin" /\ "psdsxs" # "bin" /\ "rels" # "bin"
  OBVIOUS
<1> DEFINE x == EnsureType(types, "psdsor", "origin")
           y == EnsureType(x, "psdsxs", "xml")
<1>3. {u \in x : u[1] = "bin"} = {u \in types : u[1] = "bin"}
  BY <1>1, <1>2
<1>4. {u \in y : u[1] = "bin"} = {u \in x : u[1] = "bin"}
  <2> HIDE DEF x
  <2> QED
    BY <1>1, <1>2
<1>5. {u \in EnsureType(y, "rels", "rels") : u[1] = "bin"} = {u \in y : u[1] = "bin"}
  <2> HIDE DEF y
  <2> QED
    BY <1>1, <1>2
<1> QED
  BY <1>3, <1>4, <1>5 DEF ensure_signature_content_types

LEMMA PutInPlace ==
    \A p : IsPart(p) =>
        /\ InPlace(p).name = p.name /\ IsPart(InPlace(p))
        /\ p.name = "types" => InPlace(p).body[2] = ensure_signature_content_types(p.body[2])
        /\ p.name \notin {"types", "rels"} => InPlace(p) = p
<1> SUFFICES ASSUME NEW p, IsPart(p)
             PROVE  /\ InPlace(p).name = p.name /\ IsPart(InPlace(p))
                    /\ p.name = "types" => InPlace(p).body[2] = ensure_signature_content_types(p.body[2])
                    /\ p.name \notin {"types", "rels"} => InPlace(p) = p
  OBVIOUS
<1> DEFINE x == ensure_signature_content_types(p.body[2])
           y == p.body[2] \cup {"origin"}
           b == <<"types", x>>
           c == <<"rels", y>>
<1>1. b[2] = x
  OBVIOUS
<1>2. CASE p.name = "types"
  <2>1. InPlace(p) = Part("types", b)
    BY <1>2 DEF InPlace
  <2> HIDE DEF b
  <2>2. InPlace(p).name = "types" /\ InPlace(p).body = b /\ IsPart(InPlace(p))
    BY <2>1, PartFields, PartIsPart
  <2> QED
    BY <1>1, <1>2, <2>2
<1>3. CASE p.name = "rels"
  <2>1. InPlace(p) = Part("rels", c)
    BY <1>3 DEF InPlace
  <2> HIDE DEF c
  <2>2. InPlace(p).name = "rels" /\ IsPart(InPlace(p))
    BY <2>1, PartFields, PartIsPart
  <2> QED
    BY <1>3, <2>2
<1>4. CASE p.name \notin {"types", "rels"}
  BY <1>4 DEF InPlace
<1> QED
  BY <1>2, <1>3, <1>4

NewTypes == InPlace(Part("types", <<"types", {}>>))
NewRels == InPlace(Part("rels", <<"rels", {}>>))
Origin == Part("origin", <<"empty">>)
OriginRels == Part("originRels", <<"rels", {"signature"}>>)

LEMMA NewParts ==
    /\ NewTypes.name = "types" /\ IsPart(NewTypes)
    /\ NewTypes.body[2] = ensure_signature_content_types({})
    /\ NewRels.name = "rels" /\ IsPart(NewRels)
    /\ Origin.name = "origin" /\ IsPart(Origin)
    /\ OriginRels.name = "originRels" /\ IsPart(OriginRels)
<1> DEFINE b == <<"types", {}>>
           c == <<"rels", {}>>
           p == Part("types", b)
           q == Part("rels", c)
<1>1. b[2] = {}
  OBVIOUS
<1> HIDE DEF b, c
<1>2. /\ p.name = "types" /\ p.body = b /\ IsPart(p) /\ q.name = "rels" /\ IsPart(q)
  BY PartFields, PartIsPart
<1>3. NewTypes = InPlace(p) /\ NewRels = InPlace(q)
  BY DEF NewTypes, NewRels, b, c
<1> HIDE DEF p, q
<1>4. NewTypes.name = "types" /\ IsPart(NewTypes) /\ NewRels.name = "rels" /\ IsPart(NewRels)
  BY <1>2, <1>3, PutInPlace
<1>5. NewTypes.body[2] = ensure_signature_content_types(p.body[2])
  BY <1>2, <1>3, PutInPlace
<1>6. Origin.name = "origin" /\ IsPart(Origin) /\ OriginRels.name = "originRels" /\ IsPart(OriginRels)
  BY PartFields, PartIsPart DEF Origin, OriginRels
<1> QED
  BY <1>1, <1>2, <1>4, <1>5, <1>6

(* The parts of a package that is written, as a set.                          *)
Written(s, g) ==
    LET K == {p \in ToSet(s) : p.name \notin SignatureParts}
    IN {InPlace(p) : p \in K}
       \cup (IF \E p \in K : p.name = "types" THEN {} ELSE {NewTypes})
       \cup (IF \E p \in K : p.name = "rels" THEN {} ELSE {NewRels})
       \cup {Origin, OriginRels} \cup ToSet(g)

LEMMA JoinedSets == \A x, y, X, Y : IsSeq(x) /\ ToSet(x) = X /\ IsSeq(y) /\ ToSet(y) = Y
                        => IsSeq(x \o y) /\ ToSet(x \o y) = X \cup Y
BY Joined

LEMMA Pair ==
    ASSUME NEW a, NEW b
    PROVE  IsSeq(<<a, b>>) /\ ToSet(<<a, b>>) = {a, b}
<1> DEFINE s == <<a, b>>
           S == {a, b}
<1>1. s \in Seq(S) /\ Len(s) = 2 /\ s[1] = a /\ s[2] = b
  OBVIOUS
<1> HIDE DEF s
<1>2. IsSeq(s) /\ ToSet(s) = {s[i] : i \in 1..Len(s)}
  <2> HIDE DEF S
  <2> QED
    BY <1>1, SeqOver
<1>3. 1..2 = {1, 2}
  OBVIOUS
<1>4. ToSet(s) = S
  BY <1>1, <1>2, <1>3
<1> QED
  BY <1>2, <1>4 DEF s

LEMMA WrittenSet ==
    ASSUME NEW s, IsSeq(s), NEW g, IsSeq(g), NEW o, NEW w \in write_signed_package(s, g, o)
    PROVE  IsSeq(w) /\ ToSet(w) = Written(s, g)
<1> DEFINE kept == Without(s, SignatureParts)
           K == {p \in ToSet(s) : p.name \notin SignatureParts}
           q(i) == InPlace(kept[i])
           a == [i \in DOMAIN kept |-> q(i)]
           t == IF Has(kept, "types") THEN <<>> ELSE <<NewTypes>>
           r == IF Has(kept, "rels") THEN <<>> ELSE <<NewRels>>
           two == <<Origin, OriginRels>>
           T == IF \E p \in K : p.name = "types" THEN {} ELSE {NewTypes}
           R == IF \E p \in K : p.name = "rels" THEN {} ELSE {NewRels}
           A == {InPlace(p) : p \in K}
           two2 == {Origin, OriginRels}
<1>1. IsSeq(kept) /\ ToSet(kept) = K
  BY NamedFacts
<1>2. w = a \o (t \o r) \o two \o g
  BY DEF write_signed_package, When, MissingParts, NewTypes, NewRels, Origin, OriginRels
<1>3. Written(s, g) = A \cup T \cup R \cup two2 \cup ToSet(g)
  BY DEF Written
<1>4. IsSeq(a) /\ ToSet(a) = A
  <2>0. Len(kept) \in Nat /\ DOMAIN kept = 1..Len(kept) /\ K = {kept[i] : i \in 1..Len(kept)}
    BY <1>1, SeqFacts
  <2>1. a = [i \in DOMAIN kept |-> a[i]] /\ \A i \in 1..Len(kept) : a[i] = InPlace(kept[i])
    BY <2>0
  <2> HIDE DEF a, kept, K
  <2>2. IsSeq(a) /\ ToSet(a) = {a[i] : i \in 1..Len(kept)}
    BY <1>1, <2>1, MappedSeq
  <2> QED
    BY <2>0, <2>1, <2>2
<1>5. IsSeq(t) /\ ToSet(t) = T
  <2>1. Has(kept, "types") <=> \E p \in K : p.name = "types"
    BY <1>1, HasFacts
  <2>2. IsSeq(<<>>) /\ ToSet(<<>>) = {} /\ IsSeq(<<NewTypes>>) /\ ToSet(<<NewTypes>>) = {NewTypes}
    BY Empty, Single
  <2> HIDE DEF kept, K
  <2>3. CASE Has(kept, "types")
    BY <2>1, <2>2, <2>3
  <2>4. CASE ~Has(kept, "types")
    BY <2>1, <2>2, <2>4
  <2> QED
    BY <2>3, <2>4
<1>6. IsSeq(r) /\ ToSet(r) = R
  <2>1. Has(kept, "rels") <=> \E p \in K : p.name = "rels"
    BY <1>1, HasFacts
  <2>2. IsSeq(<<>>) /\ ToSet(<<>>) = {} /\ IsSeq(<<NewRels>>) /\ ToSet(<<NewRels>>) = {NewRels}
    BY Empty, Single
  <2> HIDE DEF kept, K
  <2>3. CASE Has(kept, "rels")
    BY <2>1, <2>2, <2>3
  <2>4. CASE ~Has(kept, "rels")
    BY <2>1, <2>2, <2>4
  <2> QED
    BY <2>3, <2>4
<1>7. IsSeq(two) /\ ToSet(two) = two2
  <2> DEFINE x == Origin
             y == OriginRels
  <2>1. two = <<x, y>> /\ two2 = {x, y}
    OBVIOUS
  <2> HIDE DEF two, two2, x, y
  <2> QED
    BY <2>1, Pair
<1> HIDE DEF a, t, r, two, A, T, R, two2
<1>8. IsSeq(t \o r) /\ ToSet(t \o r) = T \cup R
  BY <1>5, <1>6, JoinedSets
<1> DEFINE m == t \o r
<1> HIDE DEF m
<1>9. IsSeq(m) /\ ToSet(m) = T \cup R
  BY <1>8 DEF m
<1>10. IsSeq(a \o m) /\ ToSet(a \o m) = A \cup (T \cup R)
  BY <1>4, <1>9, JoinedSets
<1> DEFINE n == a \o m
<1> HIDE DEF n
<1>11. IsSeq(n) /\ ToSet(n) = A \cup (T \cup R)
  BY <1>10 DEF n
<1>12. IsSeq(n \o two) /\ ToSet(n \o two) = A \cup (T \cup R) \cup two2
  BY <1>7, <1>11, JoinedSets
<1> DEFINE z == n \o two
<1> HIDE DEF z
<1>13. IsSeq(z) /\ ToSet(z) = A \cup (T \cup R) \cup two2
  BY <1>12 DEF z
<1>14. IsSeq(z \o g) /\ ToSet(z \o g) = A \cup (T \cup R) \cup two2 \cup ToSet(g)
  BY <1>13, JoinedSets
<1>15. w = z \o g
  BY <1>2 DEF z, n, m
<1> QED
  BY <1>3, <1>14, <1>15

(* What is written has the same content, and no other signature.              *)
LEMMA VsWritten ==
    ASSUME NEW s, IsSeq(s), \A p \in ToSet(s) : IsPart(p), OneTypes(ToSet(s)),
           NEW g, \A p \in ToSet(g) : IsPart(p) /\ p.name = "signature",
           NEW W, W = Written(s, g)
    PROVE  /\ (\A p \in W : IsPart(p)) /\ OneTypes(W) /\ (\E p \in W : p.name = "types")
           /\ VsTells(W) = VsTells(ToSet(s))
           /\ ToSet(g) \subseteq W /\ (\A p \in W : p.name = "signature" => p \in ToSet(g))
           /\ TypesOf(W) = ensure_signature_content_types(TypesOf(ToSet(s))) /\ Payload(W) = Payload(ToSet(s))
<1> DEFINE P == ToSet(s)
           K == {p \in P : p.name \notin SignatureParts}
           G == ToSet(g)
           T == IF \E p \in K : p.name = "types" THEN {} ELSE {NewTypes}
           R == IF \E p \in K : p.name = "rels" THEN {} ELSE {NewRels}
<1>1. W = {InPlace(p) : p \in K} \cup T \cup R \cup {Origin, OriginRels} \cup G
  BY DEF Written
<1>2. \A p \in K : InPlace(p).name = p.name /\ IsPart(InPlace(p))
                   /\ (p.name \notin {"types", "rels"} => InPlace(p) = p)
                   /\ (p.name = "types" => InPlace(p).body[2] = ensure_signature_content_types(p.body[2]))
  BY PutInPlace
<1>3. \A p \in K : p \in P /\ p.name # "origin" /\ p.name # "originRels" /\ p.name # "signature"
  BY DEF SignatureParts
<1>4. \A p \in P : p.name \notin {"origin", "originRels", "signature"} => p \in K
  BY DEF SignatureParts
<1>5. T \subseteq {NewTypes} /\ R \subseteq {NewRels}
  OBVIOUS
<1>6. \A p \in K : p.name = "types" => T = {}
  OBVIOUS
<1>7. (\A p \in K : p.name # "types") => T = {NewTypes}
  OBVIOUS
<1> HIDE DEF K, T, R, G, P
<1>8. \A p \in W : IsPart(p)
  BY <1>1, <1>2, <1>5, NewParts DEF G
<1>9. ASSUME NEW p \in W, p.name = "signature" PROVE p \in G
  BY <1>1, <1>2, <1>3, <1>5, <1>9, NewParts
<1>10. ASSUME NEW x \in K, x.name = "types"
       PROVE  /\ {p \in W : p.name = "types"} = {InPlace(x)}
              /\ {p \in P : p.name = "types"} = {x}
  <2>1. \A p \in P : p.name = "types" => p = x
    BY <1>3, <1>10 DEF OneTypes, P
  <2>2. \A p \in K : p.name = "types" => p = x
    BY <1>3, <2>1
  <2>3. \A p \in W : p.name = "types" => \E q \in K : p = InPlace(q)
    BY <1>1, <1>5, <1>6, <1>10, NewParts DEF G
  <2>4. \A p \in W : p.name = "types" => p = InPlace(x)
    BY <1>2, <2>2, <2>3
  <2>5. InPlace(x) \in W /\ InPlace(x).name = "types" /\ x \in P
    BY <1>1, <1>2, <1>3, <1>10
  <2> QED
    BY <1>10, <2>1, <2>4, <2>5
<1>11. ASSUME \A p \in K : p.name # "types"
       PROVE  /\ {p \in W : p.name = "types"} = {NewTypes}
              /\ {p \in P : p.name = "types"} = {}
  <2>1. \A p \in P : p.name # "types"
    BY <1>4, <1>11
  <2>2. NewTypes \in W /\ NewTypes.name = "types"
    BY <1>1, <1>7, <1>11, NewParts
  <2>3. \A p \in W : p.name = "types" => p = NewTypes
    BY <1>1, <1>2, <1>5, <1>11, NewParts DEF G
  <2> QED
    BY <2>1, <2>2, <2>3
<1>12. OneTypes(W) /\ (\E p \in W : p.name = "types")
  <2>1. \E y : {p \in W : p.name = "types"} = {y}
    BY <1>10, <1>11
  <2>2. PICK y : {p \in W : p.name = "types"} = {y}
    BY <2>1
  <2>3. \A p \in W : p.name = "types" => p = y
    BY <2>2
  <2>4. y \in W /\ y.name = "types"
    BY <2>2
  <2> QED
    BY <2>3, <2>4 DEF OneTypes
<1>13. TypesOf(W) = ensure_signature_content_types(TypesOf(P))
  <2>1. CASE \E x \in K : x.name = "types"
    <3>1. PICK x \in K : x.name = "types"
      BY <2>1
    <3>2. TypesOf(W) = InPlace(x).body[2] /\ TypesOf(P) = x.body[2]
      BY <1>10, <3>1 DEF TypesOf
    <3> QED
      BY <1>2, <3>1, <3>2
  <2>2. CASE \A x \in K : x.name # "types"
    <3>1. TypesOf(W) = NewTypes.body[2] /\ TypesOf(P) = {}
      BY <1>11, <2>2 DEF TypesOf
    <3> QED
      BY <3>1, NewParts
  <2> QED
    BY <2>1, <2>2
<1>14. Payload(W) = Payload(P)
  <2>1. \A p \in P : p.name \notin Around => p \in K
    BY <1>4 DEF Around, SignatureParts
  <2>2. \A p \in W : p.name \notin Around => p \in K
    <3> SUFFICES ASSUME NEW p \in W, p.name \notin Around PROVE p \in K
      OBVIOUS
    <3>1. p.name \notin {"types", "rels", "origin", "originRels", "signature"}
      BY DEF Around, SignatureParts
    <3>2. p \notin T /\ p \notin R /\ p # Origin /\ p # OriginRels /\ p \notin G
      BY <1>5, <3>1, NewParts DEF G
    <3>3. PICK q \in K : p = InPlace(q)
      BY <1>1, <3>2
    <3> QED
      BY <1>2, <3>1, <3>3
  <2>3. \A p \in K : p.name \notin Around => p \in W /\ p \in P
    <3>1. \A p : p.name \notin Around => p.name \notin {"types", "rels"}
      BY DEF Around
    <3> QED
      BY <1>1, <1>2, <1>3, <3>1
  <2> QED
    BY <2>1, <2>2, <2>3 DEF Payload
<1>15. ASSUME NEW p \in Payload(P) PROVE VsType(W, p.name) = VsType(P, p.name)
  <2>1. p.name \notin {"types", "rels", "origin", "originRels", "signature"}
    BY DEF Payload, Around, SignatureParts
  <2>2. ExtensionOf(p.name) = "bin"
    BY <2>1 DEF ExtensionOf
  <2>3. {u \in TypesOf(W) : u[1] = "bin"} = {u \in TypesOf(P) : u[1] = "bin"}
    BY <1>13, EnsuredTypes
  <2> QED
    BY <2>2, <2>3 DEF VsType
<1>16. VsTells(W) = VsTells(P)
  <2> DEFINE t(p) == <<p.name, VsType(W, p.name), p.body>>
             u(p) == <<p.name, VsType(P, p.name), p.body>>
  <2>1. \A p \in Payload(P) : t(p) = u(p)
    BY <1>15
  <2>2. VsTells(W) = {t(p) : p \in Payload(W)} /\ VsTells(P) = {u(p) : p \in Payload(P)}
    BY DEF VsTells
  <2> HIDE DEF t, u
  <2> QED
    BY <1>14, <2>1, <2>2
<1>17. G \subseteq W
  BY <1>1
<1> QED
  BY <1>8, <1>9, <1>12, <1>13, <1>14, <1>16, <1>17 DEF G, P

(* The references of a signature, as far as they are to the owner's parts.    *)
References(s, alg) == {<<p.name, TypeOf(s, p.name), Hash(alg, p.body)>> : p \in Covered(s)}
Referred(manifest) == {<<m[1], m[2], m[3][2]>> : m \in {n \in manifest : n[1] \notin Around}}

LEMMA ManifestTells ==
    ASSUME NEW s, IsSeq(s), OneTypes(ToSet(s)), Has(s, "types"), NEW alg
    PROVE  Referred(References(s, alg)) = VsTells(ToSet(s))
<1> DEFINE P == ToSet(s)
           C == Covered(s)
           v(p) == TypeOf(s, p.name)
           h(p) == Hash(alg, p.body)
           a(p) == <<p.name, v(p), h(p)>>
           b(m) == <<m[1], m[2], m[3][2]>>
           u(p) == <<p.name, v(p), p.body>>
           M == {a(p) : p \in C}
<1>1. C = {p \in P : p.name \notin {"types", "signature"}}
  BY NamedFacts DEF Covered
<1>2. \A p : a(p)[1] = p.name /\ b(a(p)) = u(p)
  <2>1. \A p : h(p)[2] = p.body
    BY DEF Hash
  <2> HIDE DEF h, v
  <2> QED
    BY <2>1
<1>3. VsTells(P) = {u(p) : p \in Payload(P)}
  <2>1. \A p : v(p) = VsType(P, p.name)
    BY VsTypeOf
  <2> DEFINE t(p) == <<p.name, VsType(P, p.name), p.body>>
  <2>2. \A p : t(p) = u(p)
    BY <2>1
  <2>3. VsTells(P) = {t(p) : p \in Payload(P)}
    BY DEF VsTells
  <2> HIDE DEF t, u
  <2> QED
    BY <2>2, <2>3
<1>4. Payload(P) = {p \in C : p.name \notin Around}
  BY <1>1 DEF Payload, Around, SignatureParts
<1>5. Referred(M) = {b(m) : m \in {n \in M : n[1] \notin Around}}
  BY DEF Referred
<1>6. References(s, alg) = M
  BY DEF References
<1> HIDE DEF a, b, u, C, P
<1>7. Referred(M) = {u(p) : p \in Payload(P)}
  <2>1. {n \in M : n[1] \notin Around} = {a(p) : p \in {q \in C : q.name \notin Around}}
    BY <1>2
  <2> HIDE DEF M
  <2> QED
    BY <1>2, <1>4, <1>5, <2>1
<1> QED
  BY <1>3, <1>6, <1>7 DEF P

LEMMA InfoTells ==
    ASSUME NEW t, NEW alg
    PROVE  VsTold(Hash(alg, signed_info(t))) = Referred(t.manifest)
<1> DEFINE z == <<t.time, t.manifest>>
           i == <<t.alg, <<t.alg, z>>>>
<1>1. z[2] = t.manifest
  OBVIOUS
<1> HIDE DEF z
<1>2. i[2][2] = z
  OBVIOUS
<1>3. signed_info(t) = i
  BY DEF signed_info, Hash, z
<1> HIDE DEF i
<1>4. Hash(alg, signed_info(t))[2] = i
  BY <1>3 DEF Hash
<1> QED
  BY <1>1, <1>2, <1>4 DEF VsTold, Referred

LEMMA TemplateTells ==
    ASSUME NEW f, VsShape(f), NEW alg, NEW time, NEW t \in signature_template(f.parts, alg, time), NEW a
    PROVE  t.alg = alg /\ VsTold(Hash(a, signed_info(t))) = VsixContent(f)
<1> DEFINE e == <<>>
           yes == TRUE
<1>1. PICK w \in write_signed_package(f.parts, e, yes) :
          t = [alg |-> alg, time |-> time, manifest |-> References(w, alg)]
  BY DEF signature_template, When, References
<1>2. IsSeq(e) /\ ToSet(e) = {}
  BY Empty
<1> HIDE DEF e, yes
<1>3. IsSeq(w) /\ ToSet(w) = Written(f.parts, e)
  BY <1>2, WrittenSet DEF VsShape
<1> DEFINE W == ToSet(w)
<1>4. \A p \in ToSet(e) : IsPart(p) /\ p.name = "signature"
  BY <1>2
<1> HIDE DEF W
<1>5. OneTypes(W) /\ (\E p \in W : p.name = "types") /\ VsTells(W) = VsTells(ToSet(f.parts))
  <2>1. W = Written(f.parts, e)
    BY <1>3 DEF W
  <2> QED
    BY <1>4, <2>1, VsWritten DEF VsShape
<1>6. Has(w, "types")
  BY <1>3, <1>5, HasFacts DEF W
<1>7. Referred(References(w, alg)) = VsTells(W)
  BY <1>3, <1>5, <1>6, ManifestTells DEF W
<1>8. t.alg = alg /\ t.manifest = References(w, alg)
  BY <1>1
<1>9. VsTold(Hash(a, signed_info(t))) = VsTells(W)
  BY <1>7, <1>8, InfoTells
<1>10. VsixContent(f) = VsTells(ToSet(f.parts))
  BY VsContentIs
<1> QED
  BY <1>5, <1>8, <1>9, <1>10

LEMMA VsEmbedded ==
    ASSUME NEW f, NEW S, VsInv(f, S), NEW xml, NEW T, VsTold(xml.value[2]) \in T, NEW o,
           NEW g \in vsix_embed(f, xml, o)
    PROVE  VsInv(g, T) /\ VsixContent(g) = VsixContent(f)
<1> DEFINE b == <<"xml", xml>>
           p == Part("signature", b)
           e == <<p>>
           s == f.parts
<1>1. b[2] = xml
  OBVIOUS
<1>2. PICK w \in write_signed_package(s, e, o) : g = [f EXCEPT !.parts = w]
  BY DEF vsix_embed
<1> HIDE DEF b
<1>3. p.name = "signature" /\ p.body[2] = xml /\ IsPart(p)
  BY <1>1, PartFields, PartIsPart
<1> HIDE DEF p
<1>4. IsSeq(e) /\ ToSet(e) = {p}
  BY Single
<1> HIDE DEF e
<1>5. IsSeq(w) /\ ToSet(w) = Written(s, e)
  BY <1>4, WrittenSet DEF VsInv, VsShape
<1> DEFINE W == ToSet(w)
<1>6. \A q \in ToSet(e) : IsPart(q) /\ q.name = "signature"
  BY <1>3, <1>4
<1>7. /\ (\A q \in W : IsPart(q)) /\ OneTypes(W) /\ VsTells(W) = VsTells(ToSet(s))
      /\ ToSet(e) \subseteq W /\ \A q \in W : q.name = "signature" => q \in ToSet(e)
  <2> HIDE DEF W
  <2>1. W = Written(s, e)
    BY <1>5 DEF W
  <2> QED
    BY <1>6, <2>1, VsWritten DEF VsInv, VsShape
<1>8. g.parts = w /\ g = VsFile(g.parts)
  BY <1>2, VsUpdate, VsFields DEF VsInv, VsShape
<1>9. VsShape(g)
  BY <1>5, <1>7, <1>8 DEF VsShape
<1>10. VsInv(g, T)
  BY <1>3, <1>4, <1>7, <1>8, <1>9 DEF VsInv
<1>11. VsixContent(g) = VsTells(W) /\ VsixContent(f) = VsTells(ToSet(s))
  BY <1>8, <1>9, VsContentIs DEF VsInv
<1> QED
  BY <1>7, <1>10, <1>11

(* The Signature document is whole, with a timestamp or without.              *)
VsXml(a, b, c, d, e) == [template |-> a, info |-> b, value |-> c, cert |-> d, stamp |-> e]

LEMMA XmlStamped ==
    ASSUME NEW t, NEW value, NEW cert, NEW answer,
           NEW x \in add_signature_timestamp(signature_xml(t, value, cert), answer)
    PROVE  x.value = value /\ x.cert = cert /\ x.template = t /\ x.info = signed_info(t)
<1> DEFINE i == signed_info(t)
           y == signature_xml(t, value, cert)
           e == <<>>
<1>1. y = VsXml(t, i, value, cert, e)
  BY DEF signature_xml, VsXml
<1>2. x = y \/ \E u : x = [y EXCEPT !.stamp = <<u>>]
  BY Zenon DEF add_signature_timestamp
<1> HIDE DEF i, y, e
<1>3. \A v : LET z == VsXml(t, i, value, cert, v)
             IN z.value = value /\ z.cert = cert /\ z.template = t /\ z.info = i
  BY DEF VsXml
<1>4. ASSUME NEW v PROVE [y EXCEPT !.stamp = v] = VsXml(t, i, value, cert, v)
  BY <1>1 DEF VsXml
<1>5. \E v : x = VsXml(t, i, value, cert, v)
  <2>1. CASE x = y
    BY <1>1, <2>1
  <2>2. CASE x # y
    <3>1. PICK u : x = [y EXCEPT !.stamp = <<u>>]
      BY <1>2, <2>2
    <3> DEFINE v == <<u>>
    <3>2. x = [y EXCEPT !.stamp = v]
      BY <3>1
    <3> HIDE DEF v
    <3> QED
      BY <1>4, <3>2
  <2> QED
    BY <2>1, <2>2
<1> QED
  BY <1>3, <1>5 DEF i

LEMMA VsSigned ==
    ASSUME NEW f, NEW S, VsInv(f, S), NEW req, NEW now, NEW g \in sign_vsix(f, req, now)
    PROVE  VsInv(g, S \cup {VsixContent(f)}) /\ VsixContent(g) = VsixContent(f)
<1> DEFINE T == S \cup {VsixContent(f)}
           no == FALSE
           value(t) == sign_xml_signed_info(req.material, signed_info(t))
           V(t, s) == UNION {vsix_embed(f, x, no) :
                         x \in add_signature_timestamp(signature_xml(t, value(t), s[1]), req.tsa)}
           U(t) == UNION {V(t, s) : s \in load_signing_provider(req.material)}
<1>1. sign_vsix(f, req, now) = UNION {U(t) : t \in signature_template(f.parts, req.alg, now)}
  BY DEF sign_vsix
<1> HIDE DEF U
<1>2. PICK t \in signature_template(f.parts, req.alg, now) : g \in U(t)
  BY <1>1
<1> HIDE DEF V
<1>3. PICK s \in load_signing_provider(req.material) : g \in V(t, s)
  BY <1>2 DEF U
<1> HIDE DEF no, value, T
<1>4. PICK x \in add_signature_timestamp(signature_xml(t, value(t), s[1]), req.tsa) : g \in vsix_embed(f, x, no)
  BY <1>3 DEF V
<1>5. x.value = value(t)
  <2> DEFINE v == value(t)
             cert == s[1]
  <2>1. x \in add_signature_timestamp(signature_xml(t, v, cert), req.tsa)
    BY <1>4
  <2> HIDE DEF v, cert
  <2>2. x.value = v
    BY <2>1, XmlStamped
  <2> QED
    BY <2>2 DEF v
<1>6. PICK a : value(t)[2] = Hash(a, signed_info(t))
  BY DEF value, sign_xml_signed_info, ProviderSign, RsaSign
<1>7. VsTold(x.value[2]) = VsixContent(f)
  <2>1. VsShape(f) /\ \A n : VsTold(Hash(n, signed_info(t))) = VsixContent(f)
    BY TemplateTells DEF VsInv
  <2> QED
    BY <1>5, <1>6, <2>1
<1>8. VsTold(x.value[2]) \in T
  BY <1>7 DEF T
<1>9. VsInv(g, T) /\ VsixContent(g) = VsixContent(f)
  BY <1>4, <1>8, VsEmbedded
<1> QED
  BY <1>9 DEF T

LEMMA VsVerified ==
    ASSUME NEW f, NEW S, VsInv(f, S), verify_vsix(f)
    PROVE  VsixContent(f) \in S
<1> DEFINE s == f.parts
           xml == BodyOf(s, "signature")[2]
           t == xml.template
           M == References(s, t.alg)
<1>0. IsSeq(s) /\ OneTypes(ToSet(s))
  BY DEF VsInv, VsShape
<1>1. Once(s, "signature") /\ Once(s, "types") /\ XmlVerifies(xml) /\ t.manifest = M
  BY DEF verify_vsix, References
<1>2. \A name : Once(s, name) => Has(s, name)
  <2> SUFFICES ASSUME NEW name, Once(s, name) PROVE Has(s, name)
    OBVIOUS
  <2> DEFINE w == Named(s, {name})
  <2>1. IsSeq(w) /\ Len(w) = 1
    BY <1>0, NamedFacts DEF Once
  <2> HIDE DEF w
  <2>2. w = <<>> <=> Len(w) = 0
    BY <2>1, SeqFacts
  <2> QED
    BY <2>1, <2>2 DEF w, Has
<1>3. Has(s, "signature") /\ Has(s, "types")
  BY <1>1, <1>2
<1>4. PICK p \in ToSet(s) : p.name = "signature" /\ BodyOf(s, "signature") = p.body
  BY <1>0, <1>3, HasFacts
<1>5. VsTold(xml.value[2]) \in S
  BY <1>4 DEF VsInv
<1> HIDE DEF xml
<1>6. \E a : xml.value[2] = Hash(a, signed_info(t))
  BY <1>1 DEF XmlVerifies, RsaSign
<1>7. VsTold(xml.value[2]) = Referred(t.manifest)
  BY <1>6, InfoTells
<1>8. Referred(M) = VsTells(ToSet(s))
  BY <1>0, <1>3, ManifestTells
<1>9. VsixContent(f) = VsTells(ToSet(s))
  BY VsContentIs DEF VsInv
<1> QED
  BY <1>1, <1>5, <1>7, <1>8, <1>9

LEMMA VsEdited ==
    ASSUME NEW f, NEW S, VsInv(f, S), NEW x \in EditedParts(f.parts)
    PROVE  VsInv([f EXCEPT !.parts = x], S)
<1> DEFINE g == [f EXCEPT !.parts = x]
<1>1. g.parts = x /\ g = VsFile(g.parts)
  BY VsUpdate, VsFields DEF VsInv, VsShape
<1>2. PartEdit(x, f.parts)
  BY PartsEdited DEF VsInv, VsShape
<1> HIDE DEF g
<1>3. \A p \in ToSet(x) : p.name \in {"types", "origin", "signature"} => p \in ToSet(f.parts)
  BY <1>2 DEF PartEdit, Editable
<1>4. \A p \in ToSet(f.parts) : p.name = "signature" => p \in ToSet(x)
  BY <1>2 DEF PartEdit, Editable
<1>5. VsShape(g)
  <2>1. OneTypes(ToSet(x))
    BY <1>3 DEF OneTypes, VsInv, VsShape
  <2> QED
    BY <1>1, <1>2, <2>1 DEF PartEdit, VsShape, VsInv
<1>6. VsInv(g, S)
  BY <1>1, <1>3, <1>4, <1>5 DEF VsInv
<1> QED
  BY <1>6 DEF g

-----------------------------------------------------------------------------
(* Scripts: the markers only ever stand in whole blocks.                      *)
LEMMA Kinds ==
    /\ Crlf[1] = "crlf" /\ Begin[1] = "begin" /\ End[1] = "end"
    /\ Crlf # Begin /\ Crlf # End /\ Begin # End
<1>1. Crlf[1] = "crlf" /\ Begin[1] = "begin" /\ End[1] = "end"
  BY CellFields DEF Crlf, Begin, End
<1> QED
  BY <1>1

LEMMA OccursOne ==
    ASSUME NEW s, IsSeq(s), NEW x
    PROVE  Occurrences(s, <<x>>) = {i \in 1..Len(s) : s[i] = x}
<1> DEFINE p == <<x>>
<1>0. Len(s) \in Nat
  BY SeqFacts
<1>1. IsSeq(p) /\ Len(p) = 1 /\ p[1] = x
  BY Single
<1> HIDE DEF p
<1>2. ASSUME NEW i \in 1..Len(s)
      PROVE  SubSeq(s, i, i) = p <=> s[i] = x
  <2> DEFINE t == SubSeq(s, i, i)
  <2>1. i \in 1..(Len(s) + 1) /\ i \in (i - 1)..Len(s) /\ i - i + 1 = 1 /\ i + 1 - 1 = i
    BY <1>0
  <2>2. IsSeq(t) /\ Len(t) = 1 /\ t[1] = s[i]
    <3>1. /\ IsSeq(t) /\ Len(t) = i - i + 1
          /\ \A j \in 1..(i - i + 1) : t[j] = s[i + j - 1]
      BY <2>1, Cut
    <3> QED
      BY <2>1, <3>1
  <2> HIDE DEF t
  <2>3. ASSUME s[i] = x PROVE t = p
    <3>1. \A j \in 1..Len(t) : t[j] = p[j]
      BY <1>1, <2>2, <2>3
    <3> QED
      BY <1>1, <2>2, <3>1, SameSeq
  <2> QED
    BY <1>1, <2>2, <2>3 DEF t
<1>3. \A i \in 1..Len(s) : i + Len(p) - 1 = i
  BY <1>0, <1>1
<1>4. Len(s) - Len(p) + 1 = Len(s)
  BY <1>0, <1>1
<1>5. Occurrences(s, p) = {i \in 1..Len(s) : SubSeq(s, i, i) = p}
  BY <1>3, <1>4 DEF Occurrences
<1> QED
  BY <1>2, <1>5 DEF p

LEMMA OccursTwo ==
    ASSUME NEW s, IsSeq(s), NEW x, NEW y
    PROVE  Occurrences(s, <<x, y>>) = {i \in 1..(Len(s) - 1) : s[i] = x /\ s[i + 1] = y}
<1> DEFINE p == <<x, y>>
<1>0. Len(s) \in Nat
  BY SeqFacts
<1>1. IsSeq(p) /\ Len(p) = 2 /\ p[1] = x /\ p[2] = y
  BY Pair
<1> HIDE DEF p
<1>2. ASSUME NEW i \in 1..(Len(s) - 1)
      PROVE  SubSeq(s, i, i + 1) = p <=> s[i] = x /\ s[i + 1] = y
  <2> DEFINE t == SubSeq(s, i, i + 1)
  <2>1. i \in 1..(Len(s) + 1) /\ i + 1 \in (i - 1)..Len(s) /\ i + 1 - i + 1 = 2
        /\ i + 1 - 1 = i /\ i + 2 - 1 = i + 1
    BY <1>0
  <2>2. IsSeq(t) /\ Len(t) = 2 /\ t[1] = s[i] /\ t[2] = s[i + 1]
    <3>1. /\ IsSeq(t) /\ Len(t) = i + 1 - i + 1
          /\ \A j \in 1..(i + 1 - i + 1) : t[j] = s[i + j - 1]
      BY <2>1, Cut
    <3> QED
      BY <2>1, <3>1
  <2> HIDE DEF t
  <2>3. ASSUME s[i] = x, s[i + 1] = y PROVE t = p
    <3>1. \A j \in 1..Len(t) : t[j] = p[j]
      BY <1>1, <2>2, <2>3
    <3> QED
      BY <1>1, <2>2, <3>1, SameSeq
  <2> QED
    BY <1>1, <2>2, <2>3 DEF t
<1>3. \A i \in 1..(Len(s) - 1) : i + Len(p) - 1 = i + 1
  BY <1>0, <1>1
<1>4. Len(s) - Len(p) + 1 = Len(s) - 1
  BY <1>0, <1>1
<1>5. Occurrences(s, p) = {i \in 1..(Len(s) - 1) : SubSeq(s, i, i + 1) = p}
  BY <1>3, <1>4 DEF Occurrences
<1> QED
  BY <1>2, <1>5 DEF p

LEMMA OccursThree ==
    ASSUME NEW s, IsSeq(s), NEW x, NEW y, NEW z
    PROVE  Occurrences(s, <<x, y, z>>) =
               {i \in 1..(Len(s) - 2) : s[i] = x /\ s[i + 1] = y /\ s[i + 2] = z}
<1> DEFINE p == <<x, y, z>>
<1>0. Len(s) \in Nat
  BY SeqFacts
<1>1. IsSeq(p) /\ Len(p) = 3 /\ p[1] = x /\ p[2] = y /\ p[3] = z
  BY Triple
<1> HIDE DEF p
<1>2. ASSUME NEW i \in 1..(Len(s) - 2)
      PROVE  SubSeq(s, i, i + 2) = p <=> s[i] = x /\ s[i + 1] = y /\ s[i + 2] = z
  <2> DEFINE t == SubSeq(s, i, i + 2)
  <2>1. i \in 1..(Len(s) + 1) /\ i + 2 \in (i - 1)..Len(s) /\ i + 2 - i + 1 = 3
        /\ i + 1 - 1 = i /\ i + 2 - 1 = i + 1 /\ i + 3 - 1 = i + 2
    BY <1>0
  <2>2. IsSeq(t) /\ Len(t) = 3 /\ t[1] = s[i] /\ t[2] = s[i + 1] /\ t[3] = s[i + 2]
    <3>1. /\ IsSeq(t) /\ Len(t) = i + 2 - i + 1
          /\ \A j \in 1..(i + 2 - i + 1) : t[j] = s[i + j - 1]
      BY <2>1, Cut
    <3> QED
      BY <2>1, <3>1
  <2> HIDE DEF t
  <2>3. ASSUME s[i] = x, s[i + 1] = y, s[i + 2] = z PROVE t = p
    <3>1. \A j \in 1..Len(t) : t[j] = p[j]
      BY <1>1, <2>2, <2>3
    <3> QED
      BY <1>1, <2>2, <3>1, SameSeq
  <2> QED
    BY <1>1, <2>2, <2>3 DEF t
<1>3. \A i \in 1..(Len(s) - 2) : i + Len(p) - 1 = i + 2
  BY <1>0, <1>1
<1>4. Len(s) - Len(p) + 1 = Len(s) - 2
  BY <1>0, <1>1
<1>5. Occurrences(s, p) = {i \in 1..(Len(s) - 2) : SubSeq(s, i, i + 2) = p}
  BY <1>3, <1>4 DEF Occurrences
<1> QED
  BY <1>2, <1>5 DEF p

(* The first occurrence of a pattern.                                         *)
LEMMA FindFacts ==
    ASSUME NEW s, NEW p, Occurrences(s, p) \subseteq Nat \ {0}
    PROVE  /\ Find(s, p) = 0 <=> Occurrences(s, p) = {}
           /\ Find(s, p) # 0 => /\ Find(s, p) \in Occurrences(s, p)
                                /\ \A i \in Occurrences(s, p) : Find(s, p) <= i
<1> DEFINE T == Occurrences(s, p)
<1>1. T # {} => Min(T) \in T /\ \A x \in T : Min(T) <= x
  BY LeastIsThere
<1> HIDE DEF T
<1>2. Find(s, p) = IF T = {} THEN 0 ELSE Min(T)
  BY DEF Find, T
<1>3. T \subseteq Nat \ {0}
  BY DEF T
<1> QED
  BY <1>1, <1>2, <1>3 DEF T

(* Taking cells out of the middle leaves the cells of another kind.           *)
LEMMA MiddleOut ==
    ASSUME NEW s, IsSeq(s), NEW a \in 1..Len(s), NEW c \in a..Len(s), NEW kind,
           \A k \in a..c : s[k][1] # kind
    PROVE  LET u == SubSeq(s, 1, a - 1) \o SubSeq(s, c + 1, Len(s))
           IN IsSeq(u) /\ OfKind(u, kind) = OfKind(s, kind)
<1> DEFINE n == Len(s)
           p == SubSeq(s, 1, c)
           q == SubSeq(s, c + 1, n)
           x == SubSeq(s, 1, a - 1)
           m == SubSeq(p, a, c)
           u == x \o q
<1>0. n \in Nat /\ a \in Nat /\ c \in Nat /\ 1 <= a /\ a <= c /\ c <= n
  BY SeqFacts
<1>1. s = p \o q
  <2>1. c \in 0..Len(s)
    BY <1>0
  <2> QED
    BY <2>1, Halves
<1>2. IsSeq(p) /\ Len(p) = c /\ \A i \in 1..c : p[i] = s[i]
  <2>1. 1 \in 1..(n + 1) /\ c \in (1 - 1)..n /\ c - 1 + 1 = c
    BY <1>0
  <2>2. /\ IsSeq(p) /\ Len(p) = c - 1 + 1
        /\ \A i \in 1..(c - 1 + 1) : p[i] = s[1 + i - 1]
    BY <2>1, Cut
  <2>3. \A i \in 1..c : 1 + i - 1 = i
    BY <1>0
  <2> QED
    BY <2>1, <2>2, <2>3
<1>3. IsSeq(q)
  <2>1. c + 1 \in 1..(n + 1) /\ n \in (c + 1 - 1)..n
    BY <1>0
  <2> QED
    BY <2>1, Cut
<1>4. IsSeq(x) /\ Len(x) = a - 1 /\ \A i \in 1..(a - 1) : x[i] = s[i]
  <2>1. 1 \in 1..(n + 1) /\ a - 1 \in (1 - 1)..n /\ a - 1 - 1 + 1 = a - 1
    BY <1>0
  <2>2. /\ IsSeq(x) /\ Len(x) = a - 1 - 1 + 1
        /\ \A i \in 1..(a - 1 - 1 + 1) : x[i] = s[1 + i - 1]
    BY <2>1, Cut
  <2>3. \A i \in 1..(a - 1) : 1 + i - 1 = i
    BY <1>0
  <2> QED
    BY <2>1, <2>2, <2>3
<1> HIDE DEF p, q, x
<1> DEFINE y == SubSeq(p, 1, a - 1)
<1>5. IsSeq(y) /\ Len(y) = a - 1 /\ \A i \in 1..(a - 1) : y[i] = p[i]
  <2>1. 1 \in 1..(Len(p) + 1) /\ a - 1 \in (1 - 1)..Len(p) /\ a - 1 - 1 + 1 = a - 1
    BY <1>0, <1>2
  <2>2. /\ IsSeq(y) /\ Len(y) = a - 1 - 1 + 1
        /\ \A i \in 1..(a - 1 - 1 + 1) : y[i] = p[1 + i - 1]
    BY <1>2, <2>1, Cut
  <2>3. \A i \in 1..(a - 1) : 1 + i - 1 = i
    BY <1>0
  <2> QED
    BY <2>1, <2>2, <2>3
<1>6. y = x
  <2> HIDE DEF y
  <2>1. \A i \in 1..Len(y) : y[i] = x[i]
    BY <1>0, <1>2, <1>4, <1>5
  <2> QED
    BY <1>4, <1>5, <2>1, SameSeq
<1>7. p = x \o m
  <2>1. a - 1 \in 0..Len(p) /\ a - 1 + 1 = a
    BY <1>0, <1>2
  <2>2. p = SubSeq(p, 1, a - 1) \o SubSeq(p, a - 1 + 1, Len(p))
    BY <1>2, <2>1, Halves
  <2> QED
    BY <1>2, <1>6, <2>1, <2>2
<1>8. IsSeq(m) /\ \A i \in 1..Len(m) : m[i][1] # kind
  <2>1. a \in 1..(Len(p) + 1) /\ c \in (a - 1)..Len(p)
    BY <1>0, <1>2
  <2>2. IsSeq(m) /\ ToSet(m) = {p[i] : i \in a..c}
    BY <1>2, <2>1, Cut
  <2>3. \A i \in 1..Len(m) : m[i] \in ToSet(m)
    BY <2>2, SeqFacts
  <2>4. \A i \in a..c : p[i][1] # kind
    BY <1>0, <1>2
  <2> QED
    BY <2>2, <2>3, <2>4
<1> HIDE DEF m
<1> DEFINE e == <<>>
           kx == OfKind(x, kind)
           km == OfKind(m, kind)
           kp == OfKind(p, kind)
           kq == OfKind(q, kind)
<1>9. km = e
  BY <1>8, OfKindFacts
<1>10. OfKind(x \o m, kind) = kx \o km
  BY <1>4, <1>8, OfKindJoined
<1>11. IsSeq(kx) /\ kx \o <<>> = kx
  BY <1>4, OfKindFacts, NothingAround
<1>12. kp = kx
  BY <1>7, <1>9, <1>10, <1>11
<1>13. OfKind(p \o q, kind) = kp \o kq
  BY <1>2, <1>3, OfKindJoined
<1>14. OfKind(x \o q, kind) = kx \o kq
  BY <1>3, <1>4, OfKindJoined
<1>15. IsSeq(x \o q)
  BY <1>3, <1>4, Joined
<1>16. OfKind(x \o q, kind) = OfKind(s, kind)
  <2> HIDE DEF kx, kp, kq, km, e
  <2>1. OfKind(s, kind) = OfKind(p \o q, kind)
    BY <1>1
  <2> QED
    BY <1>12, <1>13, <1>14, <2>1
<1> QED
  BY <1>15, <1>16 DEF x, q

BlockAt(s, i) ==
    /\ 2 <= i /\ i + 5 <= Len(s)
    /\ s[i - 1] = Crlf /\ s[i + 1] = Crlf /\ s[i + 2][1] = "cms" /\ s[i + 3] = Crlf
    /\ s[i + 4] = End /\ s[i + 5] = Crlf
    /\ i + 6 <= Len(s) => s[i + 6] # Begin

Blocks(s) == \A i \in 1..Len(s) : s[i] = Begin => BlockAt(s, i)

LEMMA FirstBegin ==
    ASSUME NEW s, IsSeq(s), Blocks(s)
    PROVE  /\ Find(s, <<Begin>>) \in Nat
           /\ Find(s, <<Begin>>) = 0 =>
                 Find(s, <<Crlf, Begin, Crlf>>) = 0 /\ \A i \in 1..Len(s) : s[i] # Begin
           /\ Find(s, <<Begin>>) # 0 =>
                 /\ Find(s, <<Begin>>) \in 1..Len(s) /\ s[Find(s, <<Begin>>)] = Begin
                 /\ Find(s, <<Crlf, Begin, Crlf>>) = Find(s, <<Begin>>) - 1
<1> DEFINE A == {i \in 1..Len(s) : s[i] = Begin}
           B == {i \in 1..(Len(s) - 2) : s[i] = Crlf /\ s[i + 1] = Begin /\ s[i + 2] = Crlf}
           a == Find(s, <<Begin>>)
           b == Find(s, <<Crlf, Begin, Crlf>>)
<1>0. Len(s) \in Nat
  BY SeqFacts
<1>1. Occurrences(s, <<Begin>>) = A /\ Occurrences(s, <<Crlf, Begin, Crlf>>) = B
  BY OccursOne, OccursThree
<1>2. A \subseteq Nat \ {0} /\ B \subseteq Nat \ {0}
  BY <1>0
<1>3. /\ a = 0 <=> A = {}
      /\ a # 0 => a \in A /\ \A i \in A : a <= i
  <2>1. Occurrences(s, <<Begin>>) \subseteq Nat \ {0}
    BY <1>1, <1>2
  <2> HIDE DEF A
  <2> QED
    BY <1>1, <2>1, FindFacts
<1>4. /\ b = 0 <=> B = {}
      /\ b # 0 => b \in B /\ \A i \in B : b <= i
  <2>1. Occurrences(s, <<Crlf, Begin, Crlf>>) \subseteq Nat \ {0}
    BY <1>1, <1>2
  <2> HIDE DEF B
  <2> QED
    BY <1>1, <2>1, FindFacts
<1>5. \A i \in B : i + 1 \in A
  BY <1>0
<1>6. \A i \in A : i - 1 \in B
  <2> SUFFICES ASSUME NEW i \in A PROVE i - 1 \in B
    OBVIOUS
  <2>1. BlockAt(s, i) /\ i - 1 + 1 = i /\ i - 1 + 2 = i + 1 /\ s[i] = Begin
    BY <1>0 DEF Blocks
  <2>3. i \in Nat /\ 2 <= i /\ i + 5 <= Len(s)
    BY <1>2, <2>1 DEF BlockAt
  <2>2. i - 1 \in 1..(Len(s) - 2)
    BY <1>0, <2>3
  <2> QED
    BY <2>1, <2>2 DEF BlockAt
<1>7. \A i \in A : i \in 1..Len(s) /\ s[i] = Begin
  OBVIOUS
<1>8. \A i \in 1..Len(s) : s[i] = Begin => i \in A
  OBVIOUS
<1> HIDE DEF A, B, a, b
<1>9. CASE a = 0
  <2>1. A = {} /\ B = {}
    BY <1>3, <1>5, <1>9
  <2> QED
    BY <1>4, <1>8, <1>9, <2>1 DEF a, b
<1>10. CASE a # 0
  <2>1. a \in A /\ a \in Nat
    BY <1>2, <1>3, <1>10
  <2>2. a - 1 \in B
    BY <1>6, <2>1
  <2>3. b # 0 /\ b \in B /\ b \in Nat /\ b <= a - 1
    BY <1>2, <1>4, <2>2
  <2>4. a <= b + 1
    BY <1>3, <1>5, <1>10, <2>3
  <2>5. b = a - 1
    BY <2>1, <2>3, <2>4
  <2> QED
    BY <1>7, <1>10, <2>1, <2>5 DEF a, b
<1> QED
  BY <1>9, <1>10

LEMMA EndOfBlock ==
    ASSUME NEW s, IsSeq(s), NEW i \in 1..Len(s), s[i] = Begin, BlockAt(s, i)
    PROVE  /\ Find(SubSeq(s, i - 1, Len(s)), <<End, Crlf>>) = 6
           /\ Find(SubSeq(s, i, Len(s)), <<End>>) = 5
<1> DEFINE n == Len(s)
           t == SubSeq(s, i - 1, n)
           u == SubSeq(s, i, n)
<1>0. n \in Nat /\ i \in Nat /\ 2 <= i /\ i + 5 <= n
  BY SeqFacts DEF BlockAt
<1>1. /\ s[i - 1] = Crlf /\ s[i] = Begin /\ s[i + 1] = Crlf /\ s[i + 2][1] = "cms" /\ s[i + 3] = Crlf
      /\ s[i + 4] = End /\ s[i + 5] = Crlf
  BY DEF BlockAt
<1>2. s[i - 1] # End /\ s[i] # End /\ s[i + 1] # End /\ s[i + 2] # End /\ s[i + 3] # End
  BY <1>1, Kinds
<1>3. IsSeq(t) /\ Len(t) = n - i + 2 /\ \A j \in 1..(n - i + 2) : t[j] = s[i - 2 + j]
  <2>1. i - 1 \in 1..(n + 1) /\ n \in (i - 1 - 1)..n /\ n - (i - 1) + 1 = n - i + 2
    BY <1>0
  <2>2. IsSeq(t) /\ Len(t) = n - (i - 1) + 1 /\ \A j \in 1..(n - (i - 1) + 1) : t[j] = s[i - 1 + j - 1]
    BY <2>1, Cut
  <2>3. \A j \in 1..(n - i + 2) : i - 1 + j - 1 = i - 2 + j
    BY <1>0
  <2> QED
    BY <2>1, <2>2, <2>3
<1>4. IsSeq(u) /\ Len(u) = n - i + 1 /\ \A j \in 1..(n - i + 1) : u[j] = s[i - 1 + j]
  <2>1. i \in 1..(n + 1) /\ n \in (i - 1)..n
    BY <1>0
  <2>2. IsSeq(u) /\ Len(u) = n - i + 1 /\ \A j \in 1..(n - i + 1) : u[j] = s[i + j - 1]
    BY <2>1, Cut
  <2>3. \A j \in 1..(n - i + 1) : i + j - 1 = i - 1 + j
    BY <1>0
  <2> QED
    BY <2>1, <2>2, <2>3
<1>5. /\ t[1] # End /\ t[2] # End /\ t[3] # End /\ t[4] # End /\ t[5] # End
      /\ t[6] = End /\ t[7] = Crlf
  <2>1. /\ i - 2 + 1 = i - 1 /\ i - 2 + 2 = i /\ i - 2 + 3 = i + 1 /\ i - 2 + 4 = i + 2 /\ i - 2 + 5 = i + 3
        /\ i - 2 + 6 = i + 4 /\ i - 2 + 7 = i + 5
    BY <1>0
  <2>2. \A j \in 1..7 : j \in 1..(n - i + 2)
    BY <1>0
  <2>3. /\ 1 \in 1..7 /\ 2 \in 1..7 /\ 3 \in 1..7 /\ 4 \in 1..7 /\ 5 \in 1..7 /\ 6 \in 1..7 /\ 7 \in 1..7
    OBVIOUS
  <2>4. t[1] = s[i - 1] /\ t[2] = s[i] /\ t[3] = s[i + 1] /\ t[4] = s[i + 2] /\ t[5] = s[i + 3]
        /\ t[6] = s[i + 4] /\ t[7] = s[i + 5]
    BY <1>3, <2>1, <2>2, <2>3
  <2> QED
    BY <1>1, <1>2, <2>4
<1>6. u[1] # End /\ u[2] # End /\ u[3] # End /\ u[4] # End /\ u[5] = End
  <2>1. /\ i - 1 + 1 = i /\ i - 1 + 2 = i + 1 /\ i - 1 + 3 = i + 2 /\ i - 1 + 4 = i + 3 /\ i - 1 + 5 = i + 4
    BY <1>0
  <2>2. \A j \in 1..5 : j \in 1..(n - i + 1)
    BY <1>0
  <2>3. 1 \in 1..5 /\ 2 \in 1..5 /\ 3 \in 1..5 /\ 4 \in 1..5 /\ 5 \in 1..5
    OBVIOUS
  <2>4. u[1] = s[i] /\ u[2] = s[i + 1] /\ u[3] = s[i + 2] /\ u[4] = s[i + 3] /\ u[5] = s[i + 4]
    BY <1>4, <2>1, <2>2, <2>3
  <2> QED
    BY <1>1, <1>2, <2>4
<1>7. 5 <= Len(u) /\ 7 <= Len(t) /\ Len(u) \in Nat /\ Len(t) \in Nat
  BY <1>0, <1>3, <1>4
<1> HIDE DEF t, u, n
<1>8. Find(t, <<End, Crlf>>) = 6
  <2> DEFINE T == {j \in 1..(Len(t) - 1) : t[j] = End /\ t[j + 1] = Crlf}
  <2>1. Occurrences(t, <<End, Crlf>>) = T
    <3>1. IsSeq(t)
      BY <1>3
    <3> DEFINE x == End
               y == Crlf
    <3>2. T = {j \in 1..(Len(t) - 1) : t[j] = x /\ t[j + 1] = y}
      OBVIOUS
    <3> HIDE DEF x, y, T
    <3>3. Occurrences(t, <<x, y>>) = {j \in 1..(Len(t) - 1) : t[j] = x /\ t[j + 1] = y}
      BY <3>1, OccursTwo
    <3> QED
      BY <3>2, <3>3 DEF x, y
  <2>2. 6 \in T
    BY <1>5, <1>7
  <2>3. \A j \in T : j \in Nat \ {0} /\ j >= 6
    <3> SUFFICES ASSUME NEW j \in T PROVE j \in Nat \ {0} /\ j >= 6
      OBVIOUS
    <3>1. j \in Nat \ {0} /\ t[j] = End
      BY <1>7
    <3>2. j # 1 /\ j # 2 /\ j # 3 /\ j # 4 /\ j # 5
      BY <1>5, <3>1
    <3> QED
      BY <3>1, <3>2
  <2> HIDE DEF T
  <2>4. T \subseteq Nat \ {0}
    BY <2>3
  <2> DEFINE p == <<End, Crlf>>
  <2> HIDE DEF p
  <2>5. Occurrences(t, p) = T
    BY <2>1 DEF p
  <2>6. /\ Find(t, p) = 0 <=> T = {}
        /\ Find(t, p) # 0 => Find(t, p) \in T /\ \A x \in T : Find(t, p) <= x
    BY <2>4, <2>5, FindFacts
  <2>7. Find(t, p) # 0
    BY <2>2, <2>6
  <2>8. Find(t, p) \in T /\ Find(t, p) <= 6
    BY <2>2, <2>6, <2>7
  <2>9. Find(t, p) = 6
    BY <2>3, <2>8
  <2> QED
    BY <2>9 DEF p
<1>9. Find(u, <<End>>) = 5
  <2> DEFINE T == {j \in 1..Len(u) : u[j] = End}
  <2>1. Occurrences(u, <<End>>) = T
    BY <1>4, OccursOne
  <2>2. 5 \in T
    BY <1>6, <1>7
  <2>3. \A j \in T : j \in Nat \ {0} /\ j >= 5
    <3> SUFFICES ASSUME NEW j \in T PROVE j \in Nat \ {0} /\ j >= 5
      OBVIOUS
    <3>1. j \in Nat \ {0} /\ u[j] = End
      BY <1>7
    <3>2. j # 1 /\ j # 2 /\ j # 3 /\ j # 4
      BY <1>6, <3>1
    <3> QED
      BY <3>1, <3>2
  <2> HIDE DEF T
  <2>4. T \subseteq Nat \ {0}
    BY <2>3
  <2> DEFINE p == <<End>>
  <2> HIDE DEF p
  <2>5. Occurrences(u, p) = T
    BY <2>1 DEF p
  <2>6. /\ Find(u, p) = 0 <=> T = {}
        /\ Find(u, p) # 0 => Find(u, p) \in T /\ \A x \in T : Find(u, p) <= x
    BY <2>4, <2>5, FindFacts
  <2>7. Find(u, p) # 0
    BY <2>2, <2>6
  <2>8. Find(u, p) \in T /\ Find(u, p) <= 5
    BY <2>2, <2>6, <2>7
  <2>9. Find(u, p) = 5
    BY <2>3, <2>8
  <2> QED
    BY <2>9 DEF p
<1> QED
  BY <1>8, <1>9 DEF t, u, n

(* A block and nothing else goes out of the units that are hashed.            *)
LEMMA BlockStripped ==
    ASSUME NEW s, IsSeq(s), Blocks(s)
    PROVE  LET i == Find(s, <<Begin>>)
           IN /\ i = 0 => strip_signature_region(s) = {}
              /\ i # 0 => strip_signature_region(s) = {SubSeq(s, 1, i - 2) \o SubSeq(s, i + 6, Len(s))}
<1> DEFINE i == Find(s, <<Begin>>)
           n == Len(s)
           p == <<Crlf, Begin, Crlf>>
           q == <<Begin>>
           b == FindFirstOf(s, p, q)
           t == SubSeq(s, b[1], n)
           v == <<End, Crlf>>
           w == <<End>>
           e == FindFirstOf(t, v, w)
<1>0. n \in Nat
  BY SeqFacts
<1>1. Len(p) = 3 /\ Len(v) = 2
  OBVIOUS
<1>2. strip_signature_region(s) =
          CASE b[1] = 0 -> {}
            [] b[1] # 0 /\ e[1] = 0 -> {}
            [] OTHER -> {SubSeq(s, 1, b[1] - 1) \o SubSeq(s, b[1] + e[1] + e[2] - 1, n)}
  BY DEF strip_signature_region
<1>3. /\ i \in Nat
      /\ i = 0 => Find(s, p) = 0
      /\ i # 0 => i \in 1..n /\ s[i] = Begin /\ Find(s, p) = i - 1
  BY FirstBegin
<1>4. Find(s, q) = i
  OBVIOUS
<1> HIDE DEF i, p, q, b, t, v, w, e
<1>5. CASE i = 0
  <2>1. b[1] = 0
    BY <1>3, <1>4, <1>5 DEF b, FindFirstOf
  <2> QED
    BY <1>2, <1>5, <2>1 DEF i
<1>6. CASE i # 0
  <2>1. i \in 1..n /\ BlockAt(s, i) /\ s[i] = Begin
    BY <1>3, <1>6 DEF Blocks
  <2>2. 2 <= i /\ i + 5 <= n
    BY <2>1 DEF BlockAt
  <2>3. i - 1 # 0 /\ i - 1 \in Nat
    BY <1>3, <2>2
  <2>4. b[1] = i - 1
    BY <1>1, <1>3, <1>6, <2>3 DEF b, FindFirstOf
  <2>5. Find(t, v) = 6
    BY <2>1, <2>4, EndOfBlock DEF t, v, n
  <2>6. e[1] = 6 /\ e[2] = 2
    BY <1>1, <2>5 DEF e, FindFirstOf
  <2>7. strip_signature_region(s) = {SubSeq(s, 1, b[1] - 1) \o SubSeq(s, b[1] + e[1] + e[2] - 1, n)}
    BY <1>2, <2>3, <2>4, <2>6
  <2>8. b[1] - 1 = i - 2 /\ b[1] + e[1] + e[2] - 1 = i + 6
    BY <1>3, <2>4, <2>6
  <2> QED
    BY <1>6, <2>7, <2>8 DEF i
<1> QED
  BY <1>5, <1>6

(* A block is no content.                                                     *)
LEMMA NothingInBlock ==
    ASSUME NEW s, NEW i \in Nat, s[i] = Begin, BlockAt(s, i)
    PROVE  \A k \in (i - 1)..(i + 5) : s[k][1] # "code"
<1> SUFFICES ASSUME NEW k \in (i - 1)..(i + 5) PROVE s[k][1] # "code"
  OBVIOUS
<1>1. /\ s[i - 1] = Crlf /\ s[i] = Begin /\ s[i + 1] = Crlf /\ s[i + 2][1] = "cms" /\ s[i + 3] = Crlf
      /\ s[i + 4] = End /\ s[i + 5] = Crlf
  BY DEF BlockAt
<1>2. \/ k = i - 1 \/ k = i \/ k = i + 1 \/ k = i + 2 \/ k = i + 3 \/ k = i + 4 \/ k = i + 5
  OBVIOUS
<1>3. s[k] = Crlf \/ s[k] = Begin \/ s[k][1] = "cms" \/ s[k] = End
  BY <1>1, <1>2
<1> QED
  BY <1>3, Kinds

LEMMA ContentStripped ==
    ASSUME NEW s, IsSeq(s), Blocks(s), NEW u \in strip_signature_region(s)
    PROVE  OfKind(u, "code") = OfKind(s, "code")
<1> DEFINE i == Find(s, <<Begin>>)
           n == Len(s)
<1>0. n \in Nat
  BY SeqFacts
<1>1. /\ i = 0 => strip_signature_region(s) = {}
      /\ i # 0 => strip_signature_region(s) = {SubSeq(s, 1, i - 2) \o SubSeq(s, i + 6, n)}
  BY BlockStripped
<1>2. i # 0 => i \in 1..n /\ s[i] = Begin
  BY FirstBegin
<1> HIDE DEF i, n
<1>3. i # 0 /\ u = SubSeq(s, 1, i - 2) \o SubSeq(s, i + 6, n)
  BY <1>1
<1>4. BlockAt(s, i) /\ s[i] = Begin /\ i \in Nat
  BY <1>0, <1>2, <1>3 DEF Blocks, n
<1>5. 2 <= i /\ i + 5 <= n
  BY <1>4 DEF BlockAt, n
<1>6. \A k \in (i - 1)..(i + 5) : s[k][1] # "code"
  BY <1>4, NothingInBlock
<1>7. i - 1 \in 1..n /\ i + 5 \in (i - 1)..n /\ i - 1 - 1 = i - 2 /\ i + 5 + 1 = i + 6
  BY <1>0, <1>4, <1>5
<1>8. OfKind(SubSeq(s, 1, i - 1 - 1) \o SubSeq(s, i + 5 + 1, n), "code") = OfKind(s, "code")
  BY <1>6, <1>7, MiddleOut DEF n
<1> QED
  BY <1>3, <1>7, <1>8

(* The reader of UTF-16LE puts a mark before the blocks.                      *)
LEMMA BlocksBehind ==
    ASSUME NEW s, IsSeq(s), Blocks(s), NEW c, c[1] \notin {"begin", "code"}
    PROVE  LET t == <<c>> \o s
           IN /\ IsSeq(t) /\ Blocks(t) /\ OfKind(t, "code") = OfKind(s, "code")
              /\ (\E i \in 1..Len(s) : s[i] = Begin) => \E i \in 1..Len(t) : t[i] = Begin
<1> DEFINE one == <<c>>
           t == one \o s
           n == Len(s)
<1>1. IsSeq(one) /\ Len(one) = 1 /\ one[1] = c
  BY Single
<1>2. OfKind(one, "code") = <<>>
  <2>1. \A i \in 1..Len(one) : one[i][1] # "code"
    BY <1>1
  <2> HIDE DEF one
  <2> QED
    BY <1>1, <2>1, OfKindFacts
<1> HIDE DEF one
<1>3. n \in Nat
  BY SeqFacts
<1>4. /\ IsSeq(t) /\ Len(t) = 1 + n
      /\ \A i \in 1..1 : t[i] = one[i]
      /\ \A i \in 2..(1 + n) : t[i] = s[i - 1]
  <2>1. /\ IsSeq(t) /\ Len(t) = Len(one) + Len(s)
        /\ \A i \in 1..Len(one) : t[i] = one[i]
        /\ \A i \in (Len(one) + 1)..(Len(one) + Len(s)) : t[i] = s[i - Len(one)]
    <3>1. IsSeq(one) /\ IsSeq(s)
      BY <1>1
    <3> QED
      BY <3>1, Joined
  <2> QED
    BY <1>1, <2>1
<1>5. OfKind(t, "code") = OfKind(s, "code")
  <2> DEFINE e == <<>>
             ko == OfKind(one, "code")
             ks == OfKind(s, "code")
  <2>1. OfKind(one \o s, "code") = ko \o ks
    BY <1>1, OfKindJoined
  <2>2. ko = e
    BY <1>2
  <2>3. IsSeq(ks) /\ <<>> \o ks = ks
    BY OfKindFacts, NothingAround
  <2> HIDE DEF ko, ks
  <2> QED
    BY <2>1, <2>2, <2>3 DEF ks
<1> HIDE DEF t
<1>6. t[1] # Begin
  BY <1>1, <1>4, Kinds
<1>7. ASSUME NEW i \in 1..Len(t), t[i] = Begin
      PROVE  BlockAt(t, i)
  <2>1. i \in 2..(1 + n)
    BY <1>3, <1>4, <1>6, <1>7
  <2>2. i - 1 \in 1..n /\ s[i - 1] = Begin /\ i \in Nat
    BY <1>3, <1>4, <1>7, <2>1
  <2>3. BlockAt(s, i - 1)
    BY <2>2 DEF Blocks, n
  <2>4. 2 <= i - 1 /\ i - 1 + 5 <= n
    BY <2>3 DEF BlockAt, n
  <2>5. 2 <= i /\ i + 5 <= Len(t)
    BY <1>3, <1>4, <2>2, <2>4
  <2>6. \A k \in (i - 1)..(i + 5) : t[k] = s[k - 1]
    BY <1>3, <1>4, <2>2, <2>4
  <2>7. /\ i - 1 - 1 = i - 2 /\ i - 1 + 1 = i /\ i - 1 + 2 = i + 1 /\ i - 1 + 3 = i + 2
        /\ i - 1 + 4 = i + 3 /\ i - 1 + 5 = i + 4 /\ i - 1 + 6 = i + 5
        /\ i + 1 - 1 = i /\ i + 2 - 1 = i + 1 /\ i + 3 - 1 = i + 2 /\ i + 4 - 1 = i + 3 /\ i + 5 - 1 = i + 4
    BY <2>2
  <2>8. /\ i - 1 \in (i - 1)..(i + 5) /\ i + 1 \in (i - 1)..(i + 5) /\ i + 2 \in (i - 1)..(i + 5)
        /\ i + 3 \in (i - 1)..(i + 5) /\ i + 4 \in (i - 1)..(i + 5) /\ i + 5 \in (i - 1)..(i + 5)
    BY <2>2
  <2>9. /\ t[i - 1] = s[i - 2] /\ t[i + 1] = s[i] /\ t[i + 2] = s[i + 1] /\ t[i + 3] = s[i + 2]
        /\ t[i + 4] = s[i + 3] /\ t[i + 5] = s[i + 4]
    <3>1. t[i - 1] = s[i - 2]
      <4>1. t[i - 1] = s[i - 1 - 1]
        BY <2>6, <2>8
      <4> QED
        BY <2>7, <4>1
    <3>2. t[i + 1] = s[i]
      <4>1. t[i + 1] = s[i + 1 - 1]
        BY <2>6, <2>8
      <4> QED
        BY <2>7, <4>1
    <3>3. t[i + 2] = s[i + 1]
      <4>1. t[i + 2] = s[i + 2 - 1]
        BY <2>6, <2>8
      <4> QED
        BY <2>7, <4>1
    <3>4. t[i + 3] = s[i + 2]
      <4>1. t[i + 3] = s[i + 3 - 1]
        BY <2>6, <2>8
      <4> QED
        BY <2>7, <4>1
    <3>5. t[i + 4] = s[i + 3]
      <4>1. t[i + 4] = s[i + 4 - 1]
        BY <2>6, <2>8
      <4> QED
        BY <2>7, <4>1
    <3>6. t[i + 5] = s[i + 4]
      <4>1. t[i + 5] = s[i + 5 - 1]
        BY <2>6, <2>8
      <4> QED
        BY <2>7, <4>1
    <3> QED
      BY <3>1, <3>2, <3>3, <3>4, <3>5, <3>6
  <2>10. i + 6 <= Len(t) => t[i + 6] # Begin
    <3> SUFFICES ASSUME i + 6 <= Len(t) PROVE t[i + 6] # Begin
      OBVIOUS
    <3>1. i + 6 \in 2..(1 + n) /\ i + 6 - 1 = i + 5 /\ i + 5 <= n
      BY <1>3, <1>4, <2>2
    <3>2. t[i + 6] = s[i + 5]
      BY <1>4, <3>1
    <3>3. s[i - 1 + 6] # Begin
      BY <2>3, <2>7, <3>1 DEF BlockAt, n
    <3> QED
      BY <2>7, <3>2, <3>3
  <2> QED
    BY <2>3, <2>5, <2>7, <2>9, <2>10 DEF BlockAt
<1>8. ASSUME NEW i \in 1..n, s[i] = Begin
      PROVE  \E j \in 1..Len(t) : t[j] = Begin
  <2>1. i + 1 \in 1..Len(t) /\ i + 1 \in 2..(1 + n) /\ i + 1 - 1 = i
    BY <1>3, <1>4
  <2>2. t[i + 1] = s[i + 1 - 1]
    BY <1>4, <2>1
  <2> QED
    BY <1>8, <2>1, <2>2
<1> QED
  BY <1>4, <1>5, <1>7, <1>8 DEF Blocks, t, one, n

(* A block behind a script.                                                   *)
LEMMA BlockCells ==
    ASSUME NEW cms
    PROVE  LET z == format_signature_block(cms)
           IN /\ IsSeq(z) /\ Len(z) = 7
              /\ z[1] = Crlf /\ z[2] = Begin /\ z[3] = Crlf /\ z[4] = Cell("cms", cms)
              /\ z[5] = Crlf /\ z[6] = End /\ z[7] = Crlf
              /\ OfKind(z, "code") = <<>> /\ \A i \in 1..7 : z[i] = Begin => i = 2
              /\ \A i \in 1..7 : z[i][1] = "cms" => z[i][2] = cms
<1> DEFINE c == Cell("cms", cms)
           x == Crlf
           b == Begin
           e == End
           z == <<x, b, x, c, x, e, x>>
           S == {x, b, c, e}
<1>1. c[1] = "cms" /\ c[2] = cms /\ x[1] = "crlf" /\ b[1] = "begin" /\ e[1] = "end"
  BY CellFields, Kinds
<1> HIDE DEF c, x, b, e
<1>2. /\ z \in Seq(S) /\ Len(z) = 7 /\ z[1] = x /\ z[2] = b /\ z[3] = x /\ z[4] = c
      /\ z[5] = x /\ z[6] = e /\ z[7] = x
  OBVIOUS
<1> HIDE DEF z
<1>3. IsSeq(z)
  <2> HIDE DEF S
  <2> QED
    BY <1>2, SeqOver
<1>4. \A i \in 1..7 : i = 1 \/ i = 2 \/ i = 3 \/ i = 4 \/ i = 5 \/ i = 6 \/ i = 7
  OBVIOUS
<1>5. \A i \in 1..7 : z[i][1] # "code" /\ (z[i] = b => i = 2) /\ (z[i][1] = "cms" => z[i][2] = cms)
  BY <1>1, <1>2, <1>4
<1>6. OfKind(z, "code") = <<>>
  BY <1>2, <1>3, <1>5, OfKindFacts
<1>7. z = format_signature_block(cms)
  BY DEF z, x, b, c, e, format_signature_block
<1> QED
  BY <1>2, <1>3, <1>5, <1>6, <1>7 DEF x, b, c, e

LEMMA BlockKept ==
    ASSUME NEW s, NEW u, IsSeq(s), IsSeq(u), NEW i \in 1..Len(s), BlockAt(s, i), Len(u) \in Nat,
           i + 5 <= Len(u), \A k \in (i - 1)..(i + 5) : u[k] = s[k] \/ (u[k][1] = "code" /\ s[k][1] = "code"),
           i + 6 <= Len(u) => u[i + 6] # Begin
    PROVE  BlockAt(u, i)
<1>0. Len(s) \in Nat /\ i \in Nat /\ 2 <= i
  BY SeqFacts DEF BlockAt
<1>1. /\ s[i - 1] = Crlf /\ s[i + 1] = Crlf /\ s[i + 2][1] = "cms" /\ s[i + 3] = Crlf
      /\ s[i + 4] = End /\ s[i + 5] = Crlf
  BY DEF BlockAt
<1>2. \A k \in (i - 1)..(i + 5) : s[k][1] # "code" => u[k] = s[k]
  OBVIOUS
<1>3. /\ i - 1 \in (i - 1)..(i + 5) /\ i + 1 \in (i - 1)..(i + 5) /\ i + 2 \in (i - 1)..(i + 5)
      /\ i + 3 \in (i - 1)..(i + 5) /\ i + 4 \in (i - 1)..(i + 5) /\ i + 5 \in (i - 1)..(i + 5)
  BY <1>0
<1>4. Crlf[1] # "code" /\ End[1] # "code"
  BY Kinds
<1>5. u[i - 1] = Crlf
  BY <1>1, <1>2, <1>3, <1>4
<1>6. u[i + 1] = Crlf
  BY <1>1, <1>2, <1>3, <1>4
<1>7. u[i + 2][1] = "cms"
  BY <1>1, <1>2, <1>3
<1>8. u[i + 3] = Crlf
  BY <1>1, <1>2, <1>3, <1>4
<1>9. u[i + 4] = End
  BY <1>1, <1>2, <1>3, <1>4
<1>10. u[i + 5] = Crlf
  BY <1>1, <1>2, <1>3, <1>4
<1> QED
  BY <1>0, <1>5, <1>6, <1>7, <1>8, <1>9, <1>10 DEF BlockAt

ScFile(enc, data) == [fmt |-> "script", enc |-> enc, data |-> data]
ScTold(d) == OfKind(d[2], "code")
ScCms(s, S) == \A i \in 1..Len(s) : s[i][1] = "cms" => ScTold(IndirectDigest(s[i][2])) \in S
ScShape(f) == f = ScFile(f.enc, f.data) /\ IsSeq(f.data) /\ Blocks(f.data)
ScInv(f, S) == ScShape(f) /\ ScCms(f.data, S)

LEMMA ScFields == \A a, b : ScFile(a, b).fmt = "script" /\ ScFile(a, b).enc = a /\ ScFile(a, b).data = b
BY DEF ScFile

LEMMA ScUpdate ==
    ASSUME NEW f, f = ScFile(f.enc, f.data), NEW x
    PROVE  LET g == [f EXCEPT !.data = x] IN g = ScFile(g.enc, g.data) /\ g.data = x /\ g.enc = f.enc
<1> DEFINE a == f.enc
           b == f.data
           g == [f EXCEPT !.data = x]
<1>1. f = ScFile(a, b)
  OBVIOUS
<1> HIDE DEF a, b
<1>2. g = ScFile(a, x)
  BY <1>1 DEF ScFile
<1> HIDE DEF g
<1> QED
  BY <1>2, ScFields DEF g, a

LEMMA ScMore ==
    ASSUME NEW f, NEW S, NEW T, S \subseteq T, ScInv(f, S)
    PROVE  ScInv(f, T)
BY DEF ScInv, ScCms

LEMMA ScAppended ==
    ASSUME NEW s, IsSeq(s), Blocks(s), NEW S, ScCms(s, S), NEW t, NEW T, S \subseteq T,
           ScTold(IndirectDigest(t)) \in T
    PROVE  LET u == s \o format_signature_block(t)
           IN IsSeq(u) /\ Blocks(u) /\ ScCms(u, T) /\ OfKind(u, "code") = OfKind(s, "code")
<1> DEFINE z == format_signature_block(t)
           u == s \o z
           n == Len(s)
<1>1. /\ IsSeq(z) /\ Len(z) = 7
      /\ z[1] = Crlf /\ z[2] = Begin /\ z[3] = Crlf /\ z[4] = Cell("cms", t)
      /\ z[5] = Crlf /\ z[6] = End /\ z[7] = Crlf
      /\ OfKind(z, "code") = <<>>
      /\ (\A i \in 1..7 : z[i] = Begin => i = 2) /\ (\A i \in 1..7 : z[i][1] = "cms" => z[i][2] = t)
  BY BlockCells
<1>2. Cell("cms", t)[1] = "cms"
  BY CellFields
<1>3. n \in Nat
  BY SeqFacts
<1> HIDE DEF z
<1>4. /\ IsSeq(u) /\ Len(u) = n + 7
      /\ (\A i \in 1..n : u[i] = s[i])
      /\ (\A i \in 1..7 : u[n + i] = z[i])
      /\ \A i \in (n + 1)..(n + 7) : u[i] = z[i - n]
  <2>1. IsSeq(s) /\ IsSeq(z) /\ Len(z) = 7
    BY <1>1
  <2>2. /\ IsSeq(u) /\ Len(u) = Len(s) + Len(z)
        /\ (\A i \in 1..Len(s) : u[i] = s[i])
        /\ (\A i \in 1..Len(z) : u[Len(s) + i] = z[i])
        /\ \A i \in (Len(s) + 1)..(Len(s) + Len(z)) : u[i] = z[i - Len(s)]
    <3>1. IsSeq(s) /\ IsSeq(z)
      BY <2>1
    <3> QED
      BY <3>1, Joined
  <2> QED
    BY <2>1, <2>2
<1>5. OfKind(u, "code") = OfKind(s, "code")
  <2> DEFINE e == <<>>
             kz == OfKind(z, "code")
             ks == OfKind(s, "code")
  <2>1. OfKind(s \o z, "code") = ks \o kz
    <3>1. IsSeq(s) /\ IsSeq(z)
      BY <1>1
    <3> QED
      BY <3>1, OfKindJoined
  <2>2. kz = e
    BY <1>1
  <2>3. IsSeq(ks) /\ ks \o <<>> = ks
    BY OfKindFacts, NothingAround
  <2> HIDE DEF kz, ks
  <2> QED
    BY <2>1, <2>2, <2>3 DEF ks
<1> HIDE DEF u
<1>6. u[n + 1] = Crlf /\ u[n + 2] = Begin /\ u[n + 3] = Crlf /\ u[n + 4] = Cell("cms", t)
      /\ u[n + 5] = Crlf /\ u[n + 6] = End /\ u[n + 7] = Crlf
  <2>1. 1 \in 1..7 /\ 2 \in 1..7 /\ 3 \in 1..7 /\ 4 \in 1..7 /\ 5 \in 1..7 /\ 6 \in 1..7 /\ 7 \in 1..7
    OBVIOUS
  <2> QED
    BY <1>1, <1>4, <2>1
<1>7. BlockAt(u, n + 2)
  <2>1. /\ n + 2 - 1 = n + 1 /\ n + 2 + 1 = n + 3 /\ n + 2 + 2 = n + 4 /\ n + 2 + 3 = n + 5
        /\ n + 2 + 4 = n + 6 /\ n + 2 + 5 = n + 7 /\ ~(n + 2 + 6 <= n + 7) /\ 2 <= n + 2
    BY <1>3
  <2> QED
    BY <1>2, <1>4, <1>6, <2>1 DEF BlockAt
<1>8. ASSUME NEW i \in 1..Len(u), u[i] = Begin
      PROVE  BlockAt(u, i)
  <2>1. CASE i \in 1..n
    <3>1. s[i] = Begin /\ BlockAt(s, i)
      BY <1>4, <1>8, <2>1 DEF Blocks
    <3>2. 2 <= i /\ i + 5 <= n /\ i \in Nat /\ (i + 6 <= n => s[i + 6] # Begin)
      BY <3>1, <2>1 DEF BlockAt
    <3>3. \A k \in (i - 1)..(i + 5) : u[k] = s[k]
      <4>1. \A k \in (i - 1)..(i + 5) : k \in 1..n
        BY <1>3, <3>2
      <4> HIDE DEF n
      <4> QED
        BY <1>4, <4>1
    <3>4. i + 6 <= Len(u) => u[i + 6] # Begin
      <4>1. CASE i + 6 <= n
        <5>1. i + 6 \in 1..n
          BY <1>3, <3>2, <4>1
        <5> QED
          BY <1>4, <3>2, <4>1, <5>1
      <4>2. CASE ~(i + 6 <= n)
        <5>1. i + 6 = n + 1
          BY <1>3, <3>2, <4>2
        <5> QED
          BY <1>6, <5>1, Kinds
      <4> QED
        BY <4>1, <4>2
    <3>5. Len(u) \in Nat /\ i + 5 <= Len(u)
      BY <1>3, <1>4, <3>2
    <3> QED
      BY <1>4, <2>1, <3>1, <3>3, <3>4, <3>5, BlockKept
  <2>2. CASE i \notin 1..n
    <3>1. i \in (n + 1)..(n + 7) /\ i - n \in 1..7 /\ i \in Nat
      BY <1>3, <1>4, <2>2
    <3>2. z[i - n] = Begin
      BY <1>4, <1>8, <3>1
    <3>3. i - n = 2
      BY <1>1, <3>1, <3>2
    <3>4. i = n + 2
      BY <1>3, <3>1, <3>3
    <3> QED
      BY <1>7, <3>4
  <2> QED
    BY <2>1, <2>2
<1>9. ASSUME NEW i \in 1..Len(u), u[i][1] = "cms"
      PROVE  ScTold(IndirectDigest(u[i][2])) \in T
  <2>1. CASE i \in 1..n
    BY <1>4, <1>9, <2>1 DEF ScCms
  <2>2. CASE i \notin 1..n
    <3>1. i \in (n + 1)..(n + 7) /\ i - n \in 1..7
      BY <1>3, <1>4, <2>2
    <3>2. u[i][2] = t
      BY <1>1, <1>4, <1>9, <3>1
    <3> QED
      BY <3>2
  <2> QED
    BY <2>1, <2>2
<1> QED
  BY <1>4, <1>5, <1>8, <1>9 DEF Blocks, ScCms, u, z

LEMMA ScSigned ==
    ASSUME NEW f, NEW S, ScInv(f, S), NEW req, NEW g \in sign_script(f, req)
    PROVE  ScInv(g, S \cup {ScriptContent(f)}) /\ ScriptContent(g) = ScriptContent(f)
<1> DEFINE d == script_digest(file_utf16_units(f), req.alg)
           T == S \cup {ScriptContent(f)}
           s == f.data
<1>1. PICK c \in create_authenticode_pkcs7(req.material, "script", req.alg, d) :
          \E t \in maybe_timestamp_pkcs7(c, req.tsa) : g = append_script_signature_block(f, t)
  BY Zenon DEF sign_script
<1>2. PICK t \in maybe_timestamp_pkcs7(c, req.tsa) : g = append_script_signature_block(f, t)
  BY <1>1
<1>3. ScTold(d) = OfKind(s, "code") /\ ScriptContent(f) = OfKind(s, "code")
  BY DEF ScTold, script_digest, file_utf16_units, Hash, ScriptContent
<1> HIDE DEF d, s
<1>4. IsCms(c) /\ IndirectDigest(c) = d
  BY SpcMade
<1>5. SameDocument(t, c)
  BY <1>4, MaybeStamped, Zenon
<1>6. IndirectDigest(t) = d
  BY <1>4, <1>5, SameSaid
<1>7. ScTold(IndirectDigest(t)) \in T /\ S \subseteq T
  BY <1>3, <1>6
<1> HIDE DEF T
<1> DEFINE u == s \o format_signature_block(t)
<1>8. IsSeq(u) /\ Blocks(u) /\ ScCms(u, T) /\ OfKind(u, "code") = OfKind(s, "code")
  BY <1>7, ScAppended DEF ScInv, ScShape, s
<1> HIDE DEF u
<1>9. g = [f EXCEPT !.data = u]
  BY <1>2 DEF append_script_signature_block, u, s
<1>10. g = ScFile(g.enc, g.data) /\ g.data = u
  BY <1>9, ScUpdate DEF ScInv, ScShape
<1>11. ScInv(g, T)
  BY <1>8, <1>10 DEF ScInv, ScShape
<1>12. ScriptContent(g) = OfKind(u, "code")
  BY <1>10 DEF ScriptContent
<1> QED
  BY <1>3, <1>8, <1>11, <1>12 DEF T

LEMMA ScEdited ==
    ASSUME NEW f, NEW S, ScInv(f, S), NEW x \in EditedData(f.data)
    PROVE  ScInv([f EXCEPT !.data = x], S)
<1> DEFINE g == [f EXCEPT !.data = x]
           s == f.data
<1>0. IsSeq(s) /\ Len(s) \in Nat
  BY SeqFacts DEF ScInv, ScShape
<1>1. EditOf(x, s)
  BY <1>0, DataEdited
<1>2. g = ScFile(g.enc, g.data) /\ g.data = x
  BY ScUpdate DEF ScInv, ScShape
<1> HIDE DEF g
<1>3. /\ IsSeq(x) /\ Len(x) \in Nat /\ Len(s) <= Len(x) /\ Len(x) <= Len(s) + 1
      /\ \A i \in 1..Len(s) : x[i] = s[i] \/ (x[i][1] = "code" /\ s[i][1] = "code")
      /\ \A i \in 1..Len(x) : i > Len(s) => x[i][1] = "code"
  BY <1>1, SeqFacts DEF EditOf
<1>4. Begin[1] # "code"
  BY Kinds
<1>5. \A i \in 1..Len(x) : x[i][1] # "code" => i \in 1..Len(s) /\ x[i] = s[i]
  BY <1>0, <1>3
<1>6. ASSUME NEW i \in 1..Len(x), x[i] = Begin
      PROVE  BlockAt(x, i)
  <2>1. i \in 1..Len(s) /\ s[i] = Begin
    BY <1>4, <1>5, <1>6
  <2>2. BlockAt(s, i)
    BY <2>1 DEF ScInv, ScShape, Blocks
  <2>3. 2 <= i /\ i + 5 <= Len(s) /\ i \in Nat /\ (i + 6 <= Len(s) => s[i + 6] # Begin)
    BY <1>0, <2>1, <2>2 DEF BlockAt
  <2>4. \A k \in (i - 1)..(i + 5) : x[k] = s[k] \/ (x[k][1] = "code" /\ s[k][1] = "code")
    BY <1>0, <1>3, <2>3
  <2>5. i + 6 <= Len(x) => x[i + 6] # Begin
    <3> SUFFICES ASSUME i + 6 <= Len(x), x[i + 6] = Begin PROVE FALSE
      OBVIOUS
    <3>1. i + 6 \in 1..Len(x)
      BY <1>3, <2>3
    <3>2. i + 6 \in 1..Len(s) /\ s[i + 6] = Begin
      BY <1>4, <1>5, <3>1
    <3>3. i + 6 <= Len(s)
      BY <1>0, <2>3, <3>2
    <3> QED
      BY <2>3, <3>2, <3>3
  <2>6. i + 5 <= Len(x)
    BY <1>0, <1>3, <2>3
  <2> QED
    BY <1>0, <1>3, <2>1, <2>2, <2>4, <2>5, <2>6, BlockKept
<1>7. ASSUME NEW i \in 1..Len(x), x[i][1] = "cms"
      PROVE  ScTold(IndirectDigest(x[i][2])) \in S
  <2>1. i \in 1..Len(s) /\ x[i] = s[i]
    BY <1>5, <1>7
  <2> QED
    BY <1>7, <2>1 DEF ScInv, ScCms
<1>8. ScInv(g, S)
  BY <1>2, <1>3, <1>6, <1>7 DEF ScInv, ScShape, Blocks, ScCms
<1> QED
  BY <1>8 DEF g

(* The signature a reader finds is in a cell of the script.                   *)
LEMMA ScFound ==
    ASSUME NEW s, IsSeq(s), Blocks(s), NEW f, f.data = s
    PROVE  /\ Find(s, <<Begin>>) = 0 => extract_pkcs7_from_script(f) = <<>>
           /\ Find(s, <<Begin>>) # 0 => extract_pkcs7_from_script(f) # <<>>
           /\ extract_pkcs7_from_script(f) # <<>> =>
                 \E k \in 1..Len(s) : s[k][1] = "cms" /\ s[k][2] = extract_pkcs7_from_script(f)[1]
<1> DEFINE b == Find(s, <<Begin>>)
           n == Len(s)
           t == SubSeq(s, b, n)
           e == IF b = 0 THEN 0 ELSE Find(t, <<End>>)
           x == SubSeq(s, b, b + e - 1)
           g == Signatures(x)
           none == <<>>
<1>0. n \in Nat
  BY SeqFacts
<1>1. extract_pkcs7_from_script(f) = IF e = 0 THEN none ELSE g
  BY DEF extract_pkcs7_from_script, file_utf16_units
<1>2. b # 0 => b \in 1..n /\ s[b] = Begin
  BY FirstBegin
<1>3. ASSUME b # 0
      PROVE  /\ e = 5 /\ b \in Nat /\ 2 <= b /\ b + 5 <= n /\ s[b + 2][1] = "cms"
  <2>1. BlockAt(s, b) /\ b \in 1..n /\ s[b] = Begin
    BY <1>2, <1>3 DEF Blocks, n
  <2>2. e = 5
    BY <1>3, <2>1, EndOfBlock
  <2> QED
    BY <1>0, <2>1, <2>2 DEF BlockAt, n
<1>4. b = 0 => e = 0
  OBVIOUS
<1> HIDE DEF b, t, e, n
<1>5. CASE b = 0
  BY <1>1, <1>4, <1>5 DEF b
<1>6. CASE b # 0
  <2>1. b \in 1..(n + 1) /\ b + 4 \in (b - 1)..n /\ b + e - 1 = b + 4 /\ b + 4 - b + 1 = 5 /\ e # 0
    BY <1>0, <1>3, <1>6
  <2>2. x = SubSeq(s, b, b + 4)
    BY <2>1
  <2> HIDE DEF x
  <2>3. /\ IsSeq(x) /\ Len(x) = 5 /\ (\A i \in 1..5 : x[i] = s[b + i - 1])
    BY <2>1, <2>2, Cut DEF n
  <2>4. x[3][1] = "cms"
    <3>1. 3 \in 1..5 /\ b + 3 - 1 = b + 2
      BY <1>3, <1>6
    <3> QED
      BY <1>3, <1>6, <2>3, <3>1
  <2>5. IsSeq(g) /\ Len(g) = Len(OfKind(x, "cms"))
        /\ \A y \in ToSet(g) : \E i \in 1..Len(x) : x[i][1] = "cms" /\ x[i][2] = y
    BY <2>3, SignaturesFacts
  <2>6. OfKind(x, "cms") # <<>> /\ IsSeq(OfKind(x, "cms"))
    <3>1. 3 \in 1..Len(x)
      BY <2>3
    <3> QED
      BY <2>3, <2>4, <3>1, OfKindFacts
  <2> DEFINE o == OfKind(x, "cms")
  <2> HIDE DEF o, g
  <2>7. Len(o) # 0
    <3>1. IsSeq(o) /\ o # <<>>
      BY <2>6 DEF o
    <3> QED
      BY <3>1, SeqFacts
  <2>8. /\ Len(g) \in Nat /\ (g = <<>> <=> Len(g) = 0) /\ (\A i \in 1..Len(g) : g[i] \in ToSet(g))
    BY <2>5, SeqFacts
  <2>9. g # <<>> /\ g[1] \in ToSet(g)
    BY <2>5, <2>7, <2>8 DEF o
  <2>10. PICK i \in 1..5 : x[i][1] = "cms" /\ x[i][2] = g[1]
    BY <2>3, <2>5, <2>9
  <2>11. b + i - 1 \in 1..n /\ s[b + i - 1] = x[i]
    BY <1>0, <1>3, <1>6, <2>3
  <2>12. \E k \in 1..n : s[k][1] = "cms" /\ s[k][2] = g[1]
    BY <2>10, <2>11
  <2> QED
    BY <1>1, <1>6, <2>1, <2>9, <2>12 DEF b, n
<1> QED
  BY <1>5, <1>6

LEMMA ScUnits ==
    ASSUME NEW f, NEW S, ScInv(f, S)
    PROVE  LET u == UnitsToVerify(f)
           IN /\ IsSeq(u) /\ Blocks(u) /\ OfKind(u, "code") = ScriptContent(f)
              /\ Find(f.data, <<Begin>>) # 0 => Find(u, <<Begin>>) # 0
<1> DEFINE s == f.data
           c == Cell("bom", "")
           u == UnitsToVerify(f)
           t == <<c>> \o s
<1>0. IsSeq(s) /\ Blocks(s)
  BY DEF ScInv, ScShape
<1>1. ScriptContent(f) = OfKind(s, "code")
  BY DEF ScriptContent
<1>2. \A v : IsSeq(v) /\ Blocks(v) => (Find(v, <<Begin>>) # 0 <=> \E i \in 1..Len(v) : v[i] = Begin)
  BY FirstBegin
<1>3. CASE f.enc = "utf16le"
  <2>1. u = t
    BY <1>3 DEF UnitsToVerify, file_utf16_units
  <2>2. c[1] \notin {"begin", "code"}
    <3>1. c[1] = "bom"
      BY CellFields
    <3> QED
      BY <3>1
  <2> HIDE DEF c
  <2>3. /\ IsSeq(t) /\ Blocks(t) /\ OfKind(t, "code") = OfKind(s, "code")
        /\ (\E i \in 1..Len(s) : s[i] = Begin) => \E i \in 1..Len(t) : t[i] = Begin
    BY <1>0, <2>2, BlocksBehind
  <2> HIDE DEF t, s, u
  <2>4. Find(s, <<Begin>>) # 0 => Find(t, <<Begin>>) # 0
    BY <1>0, <1>2, <2>3
  <2> QED
    BY <1>1, <2>1, <2>3, <2>4 DEF u, s
<1>4. CASE f.enc # "utf16le"
  <2>1. u = s
    <3>1. u = <<>> \o s
      BY <1>4 DEF UnitsToVerify, file_utf16_units
    <3>2. <<>> \o s = s
      BY <1>0, NothingAround
    <3> QED
      BY <3>1, <3>2
  <2> QED
    BY <1>0, <1>1, <2>1
<1> QED
  BY <1>3, <1>4

(* A script whose digest matches has a content that was told.                 *)
LEMMA ScMatched ==
    ASSUME NEW f, NEW S, ScInv(f, S), extract_pkcs7_from_script(f) # <<>>,
           NEW u \in strip_signature_region(UnitsToVerify(f)), NEW alg,
           IndirectDigest(extract_pkcs7_from_script(f)[1]) = script_digest(u, alg)
    PROVE  ScriptContent(f) \in S
<1> DEFINE s == f.data
           v == UnitsToVerify(f)
           c == extract_pkcs7_from_script(f)[1]
<1>1. IsSeq(v) /\ Blocks(v) /\ OfKind(v, "code") = ScriptContent(f)
  BY ScUnits
<1>2. OfKind(u, "code") = OfKind(v, "code")
  <2> HIDE DEF v
  <2> QED
    BY <1>1, ContentStripped DEF v
<1>3. PICK k \in 1..Len(s) : s[k][1] = "cms" /\ s[k][2] = c
  BY ScFound DEF ScInv, ScShape
<1>4. ScTold(IndirectDigest(c)) \in S
  BY <1>3 DEF ScInv, ScCms
<1>5. ScTold(IndirectDigest(c)) = OfKind(u, "code")
  BY DEF ScTold, script_digest, Hash
<1> QED
  BY <1>1, <1>2, <1>4, <1>5

LEMMA ScRemoved ==
    ASSUME NEW f, NEW S, ScInv(f, S), NEW g \in remove_script_signature_block(f)
    PROVE  ScInv(g, S) /\ ScriptContent(g) = ScriptContent(f)
<1> DEFINE s == f.data
           n == Len(s)
           A == {i \in 1..n : s[i] = Begin}
           b == IF Occurrences(s, <<Begin>>) = {} THEN 0 ELSE Max(Occurrences(s, <<Begin>>))
           e == IF b = 0 THEN 0 ELSE Find(SubSeq(s, b, n), <<End>>)
           fin == b + e - 1
           before == IF b > 1 /\ s[b - 1][1] \in LineEnds THEN b - 2 ELSE b - 1
           after == IF fin < n THEN fin + 2 ELSE fin + 1
           w == SubSeq(s, 1, before) \o SubSeq(s, after, n)
<1>0. IsSeq(s) /\ Blocks(s) /\ n \in Nat /\ ScriptContent(f) = OfKind(s, "code") /\ ScCms(s, S)
  BY SeqFacts DEF ScInv, ScShape, ScriptContent
<1>1. g = f \/ (e # 0 /\ g = [f EXCEPT !.data = w])
  BY DEF remove_script_signature_block
<1>2. Occurrences(s, <<Begin>>) = A
  BY <1>0, OccursOne
<1>3. b # 0 => /\ b \in 1..n /\ s[b] = Begin /\ b \in Nat
               /\ \A i \in 1..n : s[i] = Begin => b >= i
  <2>1. A \subseteq 1..n
    OBVIOUS
  <2> HIDE DEF A
  <2>2. A # {} => Max(A) \in A /\ \A i \in A : Max(A) >= i
    BY <1>0, <2>1, GreatestIsThere
  <2>3. A # {} => Max(A) \in 1..n /\ s[Max(A)] = Begin /\ Max(A) \in Nat
    <3>1. ASSUME A # {} PROVE Max(A) \in A
      BY <2>2, <3>1
    <3> QED
      BY <1>0, <3>1 DEF A
  <2>4. \A i \in 1..n : s[i] = Begin => i \in A
    BY DEF A
  <2>5. b = IF A = {} THEN 0 ELSE Max(A)
    BY <1>2
  <2> HIDE DEF b
  <2> QED
    BY <2>2, <2>3, <2>4, <2>5
<1>4. ASSUME b # 0 PROVE BlockAt(s, b) /\ e = 5
  <2>1. BlockAt(s, b) /\ b \in 1..n /\ s[b] = Begin
    BY <1>0, <1>3, <1>4 DEF Blocks
  <2> QED
    BY <1>0, <1>4, <2>1, EndOfBlock
<1>5. b = 0 => e = 0
  OBVIOUS
<1> HIDE DEF A, b, e
<1>6. CASE g = f
  BY <1>6
<1>7. CASE e # 0 /\ g = [f EXCEPT !.data = w]
  <2>1. /\ b # 0 /\ b \in 1..n /\ s[b] = Begin /\ b \in Nat /\ BlockAt(s, b) /\ e = 5
        /\ \A i \in 1..n : s[i] = Begin => b >= i
    BY <1>3, <1>4, <1>5, <1>7
  <2>2. 2 <= b /\ b + 5 <= n /\ s[b - 1] = Crlf
    BY <2>1 DEF BlockAt
  <2>3. before = b - 2
    <3>1. s[b - 1][1] \in LineEnds
      BY <2>2, Kinds DEF LineEnds
    <3>2. b > 1
      BY <2>1, <2>2
    <3> QED
      BY <3>1, <3>2
  <2>4. after = b + 6
    <3>1. fin = b + 4
      BY <2>1
    <3>2. fin < n
      BY <1>0, <2>1, <2>2, <3>1
    <3> QED
      BY <2>1, <3>1, <3>2
  <2> DEFINE x == SubSeq(s, 1, b - 2)
             y == SubSeq(s, b + 6, n)
  <2>5. w = x \o y
    BY <2>3, <2>4
  <2> HIDE DEF w
  <2>6. g = ScFile(g.enc, g.data) /\ g.data = w
    <3>1. f = ScFile(f.enc, f.data)
      BY DEF ScInv, ScShape
    <3>2. g = [f EXCEPT !.data = w]
      BY <1>7
    <3> QED
      BY <3>1, <3>2, ScUpdate
  <2>7. IsSeq(x \o y) /\ OfKind(x \o y, "code") = OfKind(s, "code")
    <3>1. \A k \in (b - 1)..(b + 5) : s[k][1] # "code"
      BY <2>1, NothingInBlock
    <3>2. b - 1 \in 1..n /\ b + 5 \in (b - 1)..n /\ b - 1 - 1 = b - 2 /\ b + 5 + 1 = b + 6
      BY <1>0, <2>1, <2>2
    <3>3. LET u == SubSeq(s, 1, b - 1 - 1) \o SubSeq(s, b + 5 + 1, Len(s))
          IN IsSeq(u) /\ OfKind(u, "code") = OfKind(s, "code")
      BY <1>0, <3>1, <3>2, MiddleOut
    <3> QED
      BY <3>2, <3>3
  <2>8. IsSeq(x) /\ Len(x) = b - 2 /\ \A i \in 1..(b - 2) : x[i] = s[i]
    <3>1. 1 \in 1..(n + 1) /\ b - 2 \in (1 - 1)..n /\ b - 2 - 1 + 1 = b - 2
      BY <1>0, <2>1, <2>2
    <3>2. IsSeq(x) /\ Len(x) = b - 2 - 1 + 1 /\ \A i \in 1..(b - 2 - 1 + 1) : x[i] = s[1 + i - 1]
      BY <1>0, <3>1, Cut
    <3>3. \A i \in 1..(b - 2) : 1 + i - 1 = i
      BY <2>1
    <3> QED
      BY <3>1, <3>2, <3>3
  <2>9. IsSeq(y) /\ Len(y) = n - b - 5 /\ \A i \in 1..(n - b - 5) : y[i] = s[b + 5 + i]
    <3>1. b + 6 \in 1..(n + 1) /\ n \in (b + 6 - 1)..n /\ n - (b + 6) + 1 = n - b - 5
      BY <1>0, <2>1, <2>2
    <3>2. IsSeq(y) /\ Len(y) = n - (b + 6) + 1 /\ \A i \in 1..(n - (b + 6) + 1) : y[i] = s[b + 6 + i - 1]
      BY <1>0, <3>1, Cut
    <3>3. \A i \in 1..(n - b - 5) : b + 6 + i - 1 = b + 5 + i
      BY <1>0, <2>1
    <3> QED
      BY <3>1, <3>2, <3>3
  <2> HIDE DEF x, y
  <2>10. /\ IsSeq(w) /\ Len(w) = n - 7 /\ OfKind(w, "code") = OfKind(s, "code")
         /\ (\A i \in 1..(b - 2) : w[i] = s[i])
         /\ \A i \in (b - 1)..(n - 7) : w[i] = s[i + 7]
    <3>1. /\ Len(x \o y) = Len(x) + Len(y)
          /\ (\A i \in 1..Len(x) : (x \o y)[i] = x[i])
          /\ \A i \in (Len(x) + 1)..(Len(x) + Len(y)) : (x \o y)[i] = y[i - Len(x)]
      <4>1. IsSeq(x) /\ IsSeq(y)
        BY <2>8, <2>9
      <4> QED
        BY <4>1, Joined
    <3>2. Len(x) + Len(y) = n - 7 /\ Len(x) + 1 = b - 1
      BY <1>0, <2>1, <2>8, <2>9
    <3>3. \A i \in (b - 1)..(n - 7) : i - Len(x) \in 1..(n - b - 5) /\ b + 5 + (i - Len(x)) = i + 7
      BY <1>0, <2>1, <2>2, <2>8
    <3>4. \A i \in (b - 1)..(n - 7) : y[i - Len(x)] = s[i + 7]
      BY <2>9, <3>3
    <3>5. \A i \in 1..(b - 2) : (x \o y)[i] = s[i]
      BY <2>8, <3>1
    <3>6. \A i \in (b - 1)..(n - 7) : (x \o y)[i] = s[i + 7]
      BY <3>1, <3>2, <3>4
    <3> QED
      BY <2>5, <2>7, <3>1, <3>2, <3>5, <3>6
  <2>11. \A i \in 1..(n - 7) : i \in 1..(b - 2) \/ i \in (b - 1)..(n - 7)
    BY <1>0, <2>1
  <2>12. \A i \in (b - 1)..(n - 7) : i + 7 \in 1..n /\ i + 7 > b
    BY <1>0, <2>1, <2>2
  <2>13. ASSUME NEW i \in 1..(n - 7), w[i] = Begin
         PROVE  BlockAt(w, i)
    <3>1. i \in 1..(b - 2)
      <4> SUFFICES ASSUME i \in (b - 1)..(n - 7) PROVE FALSE
        BY <2>11
      <4>1. s[i + 7] = Begin /\ i + 7 \in 1..n /\ i + 7 > b
        BY <2>10, <2>12, <2>13
      <4>2. b >= i + 7
        BY <2>1, <4>1
      <4> QED
        BY <2>1, <4>1, <4>2
    <3>2. i \in 1..n /\ s[i] = Begin /\ i \in Nat /\ i < b
      BY <1>0, <2>1, <2>10, <2>13, <3>1
    <3>3. BlockAt(s, i)
      BY <1>0, <3>2 DEF Blocks
    <3>4. /\ s[i + 1] = Crlf /\ s[i + 2][1] = "cms" /\ s[i + 3] = Crlf /\ s[i + 4] = End /\ s[i + 5] = Crlf
          /\ i + 6 <= n => s[i + 6] # Begin
      BY <3>3 DEF BlockAt
    <3>5. b # i + 1 /\ b # i + 2 /\ b # i + 3 /\ b # i + 4 /\ b # i + 5 /\ b # i + 6
      <4>1. Begin[1] # "cms" /\ Begin # Crlf /\ Begin # End
        BY Kinds
      <4>2. b # i + 1 /\ b # i + 3 /\ b # i + 4 /\ b # i + 5
        BY <2>1, <3>4, <4>1
      <4>3. b # i + 2
        BY <2>1, <3>4, <4>1
      <4>4. b # i + 6
        <5> SUFFICES ASSUME b = i + 6 PROVE FALSE
          OBVIOUS
        <5>1. i + 6 <= n
          BY <1>0, <2>1
        <5> QED
          BY <2>1, <3>4, <5>1
      <4> QED
        BY <4>2, <4>3, <4>4
    <3>6. i + 5 <= b - 2
      BY <2>1, <3>2, <3>5
    <3>7. 2 <= i
      BY <3>3 DEF BlockAt
    <3>8. \A k \in (i - 1)..(i + 5) : w[k] = s[k]
      <4>1. \A k \in (i - 1)..(i + 5) : k \in 1..(b - 2)
        BY <2>1, <3>2, <3>6, <3>7
      <4> QED
        BY <2>10, <4>1
    <3>9. i + 6 <= Len(w) => w[i + 6] # Begin
      <4> SUFFICES ASSUME i + 6 <= n - 7 PROVE w[i + 6] # Begin
        BY <2>10
      <4>1. CASE i + 6 <= b - 2
        <5>1. i + 6 \in 1..(b - 2) /\ i + 6 <= n
          BY <1>0, <2>1, <3>2, <4>1
        <5> QED
          BY <2>10, <3>4, <5>1
      <4>2. CASE ~(i + 6 <= b - 2)
        <5>1. i + 6 \in (b - 1)..(n - 7)
          BY <1>0, <2>1, <3>2, <3>6, <4>2
        <5>2. w[i + 6] = s[i + 6 + 7] /\ i + 6 + 7 \in 1..n /\ i + 6 + 7 > b
          BY <2>10, <2>12, <5>1
        <5>3. ~(b >= i + 6 + 7)
          BY <2>1, <3>2, <5>2
        <5> QED
          BY <2>1, <5>2, <5>3
      <4> QED
        BY <4>1, <4>2
    <3>10. Len(w) \in Nat /\ i + 5 <= Len(w)
      BY <1>0, <2>1, <2>2, <2>10, <3>2, <3>6
    <3> QED
      BY <1>0, <2>10, <3>2, <3>3, <3>8, <3>9, <3>10, BlockKept
  <2>14. ASSUME NEW i \in 1..(n - 7), w[i][1] = "cms"
         PROVE  ScTold(IndirectDigest(w[i][2])) \in S
    <3>1. PICK k \in 1..n : w[i] = s[k]
      <4>1. CASE i \in 1..(b - 2)
        <5>1. i \in 1..n
          BY <1>0, <2>1, <4>1
        <5> QED
          BY <2>10, <4>1, <5>1
      <4>2. CASE i \in (b - 1)..(n - 7)
        BY <2>10, <2>12, <4>2
      <4> QED
        BY <2>11, <4>1, <4>2
    <3> QED
      BY <1>0, <2>14, <3>1 DEF ScCms
  <2>15. Blocks(w) /\ ScCms(w, S)
    BY <2>10, <2>13, <2>14 DEF Blocks, ScCms
  <2>16. ScInv(g, S)
    BY <2>6, <2>10, <2>15 DEF ScInv, ScShape
  <2>17. ScriptContent(g) = OfKind(w, "code")
    BY <2>6 DEF ScriptContent
  <2> QED
    BY <1>0, <2>10, <2>16, <2>17
<1> QED
  BY <1>1, <1>6, <1>7

-----------------------------------------------------------------------------
(* Images.  The certificate table is a band of cells, in line and in the      *)
(* file, and every document in it tells of a content that was signed, unless  *)
(* its digest was taken of an image that had bytes behind its table.          *)
LEMMA Divided ==
    ASSUME NEW n \in Nat, Align \in Nat \ {0}
    PROVE  \E q \in Nat, r \in 0..(Align - 1) : n = q * Align + r
<1> DEFINE G == {k \in 0..n : \E q \in Nat, r \in 0..(Align - 1) : k = q * Align + r}
<1>1. 0 \in G
  <2>1. 0 \in Nat /\ 0 \in 0..(Align - 1) /\ 0 = 0 * Align + 0 /\ 0 \in 0..n
    OBVIOUS
  <2> QED
    BY <2>1
<1>2. ASSUME NEW k \in 1..n, k - 1 \in G PROVE k \in G
  <2>1. PICK q \in Nat, r \in 0..(Align - 1) : k - 1 = q * Align + r
    BY <1>2
  <2>2. CASE r + 1 \in 0..(Align - 1)
    <3>1. k = q * Align + (r + 1)
      BY <2>1
    <3> QED
      BY <2>2, <3>1
  <2>3. CASE r + 1 \notin 0..(Align - 1)
    <3>1. r + 1 = Align /\ (q + 1) * Align = q * Align + Align
      BY <2>3
    <3>2. k = (q + 1) * Align + 0 /\ q + 1 \in Nat /\ 0 \in 0..(Align - 1)
      BY <2>1, <3>1
    <3> QED
      BY <3>2
  <2> QED
    BY <2>2, <2>3
<1> HIDE DEF G
<1>3. n \in G
  BY <1>1, <1>2, CountUp
<1> QED
  BY <1>3 DEF G

LEMMA Remainder ==
    ASSUME Align \in Nat \ {0}, NEW q \in Nat, NEW r \in 0..(Align - 1)
    PROVE  (q * Align + r) % Align = r
OBVIOUS

LEMMA AlignedFacts ==
    ASSUME NEW n \in Nat
    PROVE  Aligned(n) <=> \E q \in Nat : n = q * Align
<1>0. Align \in Nat \ {0}
  BY FilesAssumption
<1>1. ASSUME NEW q \in Nat, n = q * Align PROVE n % Align = 0
  <2>1. 0 \in 0..(Align - 1) /\ n = q * Align + 0
    BY <1>0, <1>1
  <2> QED
    BY <1>0, <2>1, Remainder
<1>2. ASSUME n % Align = 0 PROVE \E q \in Nat : n = q * Align
  <2>1. PICK q \in Nat, r \in 0..(Align - 1) : n = q * Align + r
    BY <1>0, Divided
  <2>2. n % Align = r
    BY <1>0, <2>1, Remainder
  <2> QED
    BY <1>0, <1>2, <2>1, <2>2
<1> QED
  BY <1>1, <1>2 DEF Aligned

LEMMA AlignedSum ==
    ASSUME NEW a \in Nat, NEW b \in Nat, Aligned(a), Aligned(b)
    PROVE  Aligned(a + b)
<1>1. PICK p \in Nat : a = p * Align
  BY AlignedFacts
<1>2. PICK q \in Nat : b = q * Align
  BY AlignedFacts
<1>3. a + b = (p + q) * Align /\ p + q \in Nat /\ a + b \in Nat
  BY <1>1, <1>2, FilesAssumption
<1> QED
  BY <1>3, AlignedFacts

LEMMA PaddingFacts ==
    ASSUME NEW n \in Nat
    PROVE  Padding(n) \in Nat /\ Aligned(n + Padding(n))
<1>0. Align \in Nat \ {0}
  BY FilesAssumption
<1>1. PICK q \in Nat, r \in 0..(Align - 1) : n = q * Align + r
  BY <1>0, Divided
<1>2. n % Align = r
  BY <1>0, <1>1, Remainder
<1>3. CASE r = 0
  <2>1. 1 \in Nat /\ 0 \in 0..(Align - 1) /\ 1 * Align + 0 = Align
    BY <1>0
  <2>2. Align % Align = 0
    BY <1>0, <2>1, Remainder
  <2>3. Padding(n) = 0 /\ n + 0 = q * Align
    BY <1>0, <1>1, <1>2, <1>3, <2>2 DEF Padding
  <2> QED
    BY <1>1, <2>3, AlignedFacts
<1>4. CASE r # 0
  <2>1. 0 \in Nat /\ Align - r \in 0..(Align - 1) /\ 0 * Align + (Align - r) = Align - r
    BY <1>0, <1>4
  <2>2. (Align - r) % Align = Align - r
    BY <1>0, <2>1, Remainder
  <2>3. Padding(n) = Align - r
    BY <1>2, <2>2 DEF Padding
  <2>4. n + (Align - r) = (q + 1) * Align /\ q + 1 \in Nat /\ n + (Align - r) \in Nat
    BY <1>0, <1>1
  <2>5. Aligned(n + (Align - r))
    BY <2>4, AlignedFacts
  <2> QED
    BY <1>0, <2>3, <2>5
<1> QED
  BY <1>3, <1>4

LEMMA AlignItself == Aligned(Align) /\ Aligned(0)
<1>1. Align \in Nat \ {0} /\ Align = 1 * Align /\ 0 = 0 * Align
  BY FilesAssumption
<1> QED
  BY <1>1, AlignedFacts

Marks == {"cms", "fill"}
Plain(s) == IsSeq(s) /\ \A c \in ToSet(s) : c[1] \notin Marks
Band(r) ==
    /\ IsSeq(r) /\ Len(r) > 0 /\ r[1][1] = "cms" /\ Aligned(Len(r))
    /\ \A c \in ToSet(r) : c[1] \in Marks

PeFile(hdr, ptr, size, data) == [fmt |-> "pe", hdr |-> hdr, ptr |-> ptr, size |-> size, data |-> data]
PeTold(d) == <<d[2][1], OfKind(d[2][2], "code")>>

(* No document in the image a document tells of is of that very image.        *)
PeVouched(c, S) ==
    LET d == IndirectDigest(c)
    IN /\ IsCms(c)
       /\ \A x \in ToSet(d[2][2]) : x[1] = "cms" => IndirectDigest(x[2])[2] # d[2]
       /\ (\A x \in ToSet(d[2][2]) : x[1] # "cms") => PeTold(d) \in S
AllVouched(s, S) == \A c \in ToSet(s) : c[1] = "cms" => PeVouched(c[2], S)

InTable(f, k) == HasTable(f) /\ k > f.ptr - Align /\ k <= f.ptr - Align + f.size
PeShape(f) ==
    /\ f = PeFile(f.hdr, f.ptr, f.size, f.data) /\ IsSeq(f.data)
    /\ f.ptr \in Nat /\ f.size \in Nat /\ TableAligned(f)
    /\ HasTable(f) => f.ptr >= Align /\ TableInFile(f) /\ f.data[f.ptr - Align + 1][1] = "cms"
    /\ \A k \in 1..Len(f.data) : f.data[k][1] \in Marks <=> InTable(f, k)
PeInv(f, S) == PeShape(f) /\ AllVouched(f.data, S)

LEMMA PeFields ==
    \A a, b, c, d : LET f == PeFile(a, b, c, d)
                    IN f.fmt = "pe" /\ f.hdr = a /\ f.ptr = b /\ f.size = c /\ f.data = d
BY DEF PeFile

LEMMA PeUpdate ==
    ASSUME NEW f, f = PeFile(f.hdr, f.ptr, f.size, f.data), NEW x
    PROVE  /\ [f EXCEPT !.data = x] = PeFile(f.hdr, f.ptr, f.size, x)
           /\ \A p, n : Directory([f EXCEPT !.data = x], p, n) = PeFile(f.hdr, p, n, x)
<1> DEFINE a == f.hdr
           b == f.ptr
           c == f.size
           s == f.data
<1>1. f = PeFile(a, b, c, s)
  OBVIOUS
<1> HIDE DEF a, b, c, s
<1>2. [f EXCEPT !.data = x] = PeFile(a, b, c, x)
  BY <1>1 DEF PeFile
<1>3. ASSUME NEW p, NEW n PROVE Directory([f EXCEPT !.data = x], p, n) = PeFile(a, p, n, x)
  <2> DEFINE e == [f EXCEPT !.data = x]
             g == [e EXCEPT !.ptr = p]
  <2>2. Directory(e, p, n) = [g EXCEPT !.size = n]
    BY DEF Directory
  <2>1. e = PeFile(a, b, c, x)
    BY <1>2
  <2> HIDE DEF e
  <2>3. g = PeFile(a, p, c, x)
    BY <2>1 DEF PeFile
  <2> HIDE DEF g
  <2>4. [g EXCEPT !.size = n] = PeFile(a, p, n, x)
    BY <2>3 DEF PeFile
  <2> QED
    BY <2>2, <2>4 DEF e
<1> QED
  BY <1>2, <1>3 DEF a, b, c, s

LEMMA PeMore ==
    ASSUME NEW f, NEW S, NEW T, S \subseteq T
    PROVE  /\ PeInv(f, S) => PeInv(f, T)
           /\ \A c : PeVouched(c, S) => PeVouched(c, T)
BY DEF PeInv, AllVouched, PeVouched

LEMMA PlainFacts ==
    ASSUME NEW s, NEW t, IsSeq(s), IsSeq(t)
    PROVE  /\ Plain(s \o t) <=> Plain(s) /\ Plain(t)
           /\ \A S : AllVouched(s \o t, S) <=> AllVouched(s, S) /\ AllVouched(t, S)
<1>1. IsSeq(s \o t) /\ ToSet(s \o t) = ToSet(s) \cup ToSet(t)
  BY Joined
<1> DEFINE u == s \o t
<1> HIDE DEF u
<1>2. IsSeq(u) /\ ToSet(u) = ToSet(s) \cup ToSet(t)
  BY <1>1 DEF u
<1>3. /\ Plain(u) <=> Plain(s) /\ Plain(t)
      /\ \A S : AllVouched(u, S) <=> AllVouched(s, S) /\ AllVouched(t, S)
  BY <1>2 DEF Plain, AllVouched
<1> QED
  BY <1>3 DEF u

LEMMA BandFacts ==
    ASSUME NEW r, NEW t, Band(r), Band(t)
    PROVE  Band(r \o t) /\ OfKind(r, "code") = <<>>
<1>0. IsSeq(r) /\ IsSeq(t) /\ Len(r) \in Nat /\ Len(t) \in Nat /\ Len(r) > 0
  BY SeqFacts DEF Band
<1>1. /\ IsSeq(r \o t) /\ Len(r \o t) = Len(r) + Len(t) /\ ToSet(r \o t) = ToSet(r) \cup ToSet(t)
      /\ \A i \in 1..Len(r) : (r \o t)[i] = r[i]
  <2>1. IsSeq(r) /\ IsSeq(t)
    BY <1>0
  <2> QED
    BY <2>1, Joined
<1> DEFINE u == r \o t
<1> HIDE DEF u
<1>2. IsSeq(u) /\ Len(u) = Len(r) + Len(t) /\ ToSet(u) = ToSet(r) \cup ToSet(t) /\ u[1] = r[1]
  BY <1>0, <1>1 DEF u
<1>3. Aligned(Len(u))
  BY <1>0, <1>2, AlignedSum DEF Band
<1>4. Band(u)
  BY <1>0, <1>2, <1>3 DEF Band
<1>5. OfKind(r, "code") = <<>>
  <2>1. \A i \in 1..Len(r) : r[i][1] # "code"
    BY <1>0, SeqFacts DEF Band, Marks
  <2> QED
    BY <1>0, <2>1, OfKindFacts
<1> QED
  BY <1>4, <1>5 DEF u

(* A row of the table: a document in the cells of its width, and padding.     *)
LEMMA RowMade ==
    ASSUME NEW c, IsCms(c)
    PROVE  /\ Band(wrap_win_certificate(c))
           /\ \A S : PeVouched(c, S) => AllVouched(wrap_win_certificate(c), S)
<1> DEFINE a == SignatureCells(c)
           n == Width(c)
           b == Blank(Padding(n), "fill")
           u == a \o b
           one == Cell("cms", c)
           gap == Cell("fill", "")
<1>0. one[1] = "cms" /\ one[2] = c /\ gap[1] = "fill"
  BY CellFields
<1>1. n \in Nat \ {0} /\ OneSignature(a, c) /\ Len(a) = n
  BY CmsWidth, SignatureCellsFacts
<1>2. wrap_win_certificate(c) = u
  BY DEF wrap_win_certificate
<1> HIDE DEF a, n, one, gap
<1>3. Padding(n) \in Nat /\ Aligned(n + Padding(n))
  BY <1>1, PaddingFacts
<1> DEFINE q == Padding(n)
<1> HIDE DEF q
<1>4. IsSeq(b) /\ Len(b) = q /\ \A i \in 1..q : b[i] = gap
  BY <1>3, BlankFacts DEF q, gap
<1> HIDE DEF b
<1>5. IsSeq(a) /\ Len(a) > 0 /\ a[1] = one /\ \A i \in 1..Len(a) : i # 1 => a[i] = gap
  BY <1>1 DEF OneSignature, one, gap
<1>6. \A x \in ToSet(a) : x = one \/ x = gap
  BY <1>5, SeqFacts
<1>7. \A x \in ToSet(b) : x = gap
  BY <1>4, SeqFacts
<1>8. /\ IsSeq(u) /\ Len(u) = n + q /\ ToSet(u) = ToSet(a) \cup ToSet(b) /\ u[1] = a[1]
  <2>1. IsSeq(a) /\ IsSeq(b)
    BY <1>4, <1>5
  <2>2. /\ IsSeq(u) /\ Len(u) = Len(a) + Len(b) /\ ToSet(u) = ToSet(a) \cup ToSet(b)
        /\ \A i \in 1..Len(a) : u[i] = a[i]
    BY <2>1, Joined
  <2> HIDE DEF u
  <2>3. 1 \in 1..Len(a)
    BY <1>1
  <2> QED
    BY <1>1, <1>4, <2>2, <2>3
<1> HIDE DEF u
<1>9. \A x \in ToSet(u) : x = one \/ x = gap
  BY <1>6, <1>7, <1>8
<1>10. \A x \in ToSet(u) : (x[1] = "cms" /\ x[2] = c) \/ x[1] = "fill"
  BY <1>0, <1>9
<1>11. u[1][1] = "cms"
  BY <1>0, <1>5, <1>8
<1>12. Band(u)
  BY <1>1, <1>3, <1>8, <1>10, <1>11 DEF Band, Marks, q
<1>13. \A S : PeVouched(c, S) => AllVouched(u, S)
  BY <1>10 DEF AllVouched
<1> QED
  BY <1>2, <1>12, <1>13

LEMMA PePieces ==
    ASSUME NEW f, NEW S, PeInv(f, S), HasTable(f)
    PROVE  /\ Plain(BeforeTable(f)) /\ Len(BeforeTable(f)) = f.ptr - Align
           /\ Band(Table(f)) /\ Len(Table(f)) = f.size /\ AllVouched(Table(f), S)
           /\ Plain(AfterTable(f)) /\ Len(AfterTable(f)) = Len(f.data) - (f.ptr - Align + f.size)
           /\ f.data = (BeforeTable(f) \o Table(f)) \o AfterTable(f)
           /\ BeforeTable(f) \o Table(f) = SubSeq(f.data, 1, f.ptr - Align + f.size)
<1> DEFINE s == f.data
           n == Len(s)
           l == f.ptr - Align
           m == f.ptr - Align + f.size
           b == SubSeq(s, 1, l)
           r == SubSeq(s, l + 1, m)
           a == SubSeq(s, m + 1, n)
           c == SubSeq(s, 1, m)
<1>0. BeforeTable(f) = b /\ Table(f) = r /\ AfterTable(f) = a
  BY DEF BeforeTable, Table, AfterTable
<1>1. /\ IsSeq(s) /\ AllVouched(s, S) /\ s[l + 1][1] = "cms"
      /\ \A k \in 1..n : s[k][1] \in Marks <=> k > l /\ k <= m
  BY DEF PeInv, PeShape, InTable
<1>2. /\ n \in Nat /\ l \in Nat /\ m \in Nat /\ l < m /\ m <= n /\ f.size = m - l /\ Aligned(m - l)
  <2>1. n \in Nat /\ f.ptr \in Nat /\ f.size \in Nat /\ f.ptr >= Align /\ Align \in Nat
    BY <1>1, SeqFacts, FilesAssumption DEF PeInv, PeShape
  <2>2. f.ptr + f.size <= Align + n /\ f.size # 0 /\ Aligned(f.size)
    BY DEF PeInv, PeShape, TableInFile, PeLength, HasTable, TableAligned
  <2>3. f.size = m - l
    BY <2>1
  <2> DEFINE p == f.ptr
             z == f.size
  <2>4. /\ p \in Nat /\ z \in Nat /\ p >= Align /\ Align \in Nat /\ n \in Nat
        /\ p + z <= Align + n /\ z # 0 /\ l = p - Align /\ m = p - Align + z
    BY <2>1, <2>2
  <2>5. Aligned(z) /\ z = m - l
    BY <2>2, <2>3
  <2> HIDE DEF p, z, n, l, m
  <2>6. n \in Nat /\ l \in Nat /\ m \in Nat /\ l < m /\ m <= n
    BY <2>4
  <2> QED
    BY <2>5, <2>6 DEF z
<1>3. /\ \A k \in 1..n : s[k] \in ToSet(s)
  BY <1>1, SeqFacts
<1> HIDE DEF s, n, l, m
<1>4. IsSeq(b) /\ Len(b) = l /\ ToSet(b) = {s[i] : i \in 1..l}
  <2>1. 1 \in 1..(n + 1) /\ l \in (1 - 1)..n /\ l - 1 + 1 = l
    BY <1>2
  <2>2. IsSeq(b) /\ Len(b) = l - 1 + 1 /\ ToSet(b) = {s[i] : i \in 1..l}
    BY <1>1, <2>1, Cut DEF n
  <2> QED
    BY <2>1, <2>2
<1>5. /\ IsSeq(r) /\ Len(r) = m - l /\ ToSet(r) = {s[i] : i \in (l + 1)..m} /\ r[1] = s[l + 1]
  <2>1. l + 1 \in 1..(n + 1) /\ m \in ((l + 1) - 1)..n /\ m - (l + 1) + 1 = m - l
        /\ 1 \in 1..(m - (l + 1) + 1) /\ l + 1 + 1 - 1 = l + 1
    BY <1>2
  <2>2. IsSeq(r) /\ Len(r) = m - (l + 1) + 1 /\ ToSet(r) = {s[i] : i \in (l + 1)..m}
        /\ \A i \in 1..(m - (l + 1) + 1) : r[i] = s[l + 1 + i - 1]
    BY <1>1, <2>1, Cut DEF n
  <2> QED
    BY <2>1, <2>2
<1>6. /\ IsSeq(a) /\ Len(a) = n - m /\ ToSet(a) = {s[i] : i \in (m + 1)..n}
  <2>1. m + 1 \in 1..(n + 1) /\ n \in ((m + 1) - 1)..n /\ n - (m + 1) + 1 = n - m
    BY <1>2
  <2>2. IsSeq(a) /\ Len(a) = n - (m + 1) + 1 /\ ToSet(a) = {s[i] : i \in (m + 1)..n}
    BY <1>1, <2>1, Cut DEF n
  <2> QED
    BY <2>1, <2>2
<1>7. IsSeq(c) /\ Len(c) = m /\ \A i \in 1..m : c[i] = s[i]
  <2>1. 1 \in 1..(n + 1) /\ m \in (1 - 1)..n /\ m - 1 + 1 = m /\ \A i \in 1..m : 1 + i - 1 = i
    BY <1>2
  <2>2. IsSeq(c) /\ Len(c) = m - 1 + 1 /\ \A i \in 1..(m - 1 + 1) : c[i] = s[1 + i - 1]
    BY <1>1, <2>1, Cut DEF n
  <2> QED
    BY <2>1, <2>2
<1>8. c \o a = s
  <2>1. m \in 0..Len(s)
    BY <1>2 DEF n
  <2> QED
    BY <1>1, <2>1, Halves DEF n
<1> HIDE DEF c
<1>9. b \o r = c
  <2>1. l \in 0..Len(c)
    BY <1>2, <1>7
  <2>2. c = SubSeq(c, 1, l) \o SubSeq(c, l + 1, Len(c))
    BY <1>7, <2>1, Halves
  <2>3. SubSeq(c, 1, l) = b
    <3>1. 1 \in 1..(Len(c) + 1) /\ l \in (1 - 1)..Len(c) /\ l - 1 + 1 = l
      BY <1>2, <1>7
    <3>2. 1 \in 1..(n + 1) /\ l \in (1 - 1)..n
      BY <1>2
    <3> DEFINE x == SubSeq(c, 1, l)
    <3>3. IsSeq(x) /\ Len(x) = l /\ \A i \in 1..l : x[i] = c[1 + i - 1]
      BY <1>7, <3>1, Cut
    <3>4. IsSeq(b) /\ Len(b) = l /\ \A i \in 1..l : b[i] = s[1 + i - 1]
      BY <1>1, <3>1, <3>2, Cut DEF n
    <3> HIDE DEF x, b
    <3>5. \A i \in 1..l : 1 + i - 1 = i /\ c[i] = s[i]
      BY <1>2, <1>7
    <3>6. \A i \in 1..Len(x) : x[i] = b[i]
      BY <3>3, <3>4, <3>5
    <3>7. x = b
      BY <3>3, <3>4, <3>6, SameSeq
    <3> QED
      BY <3>7 DEF x
  <2>4. SubSeq(c, l + 1, m) = r
    <3>1. l + 1 \in 1..(Len(c) + 1) /\ m \in ((l + 1) - 1)..Len(c) /\ m - (l + 1) + 1 = m - l
      BY <1>2, <1>7
    <3>2. l + 1 \in 1..(n + 1) /\ m \in ((l + 1) - 1)..n
      BY <1>2
    <3> DEFINE x == SubSeq(c, l + 1, m)
    <3>3. IsSeq(x) /\ Len(x) = m - (l + 1) + 1 /\ \A i \in 1..(m - (l + 1) + 1) : x[i] = c[l + 1 + i - 1]
      BY <1>7, <3>1, Cut
    <3>4. IsSeq(r) /\ Len(r) = m - (l + 1) + 1 /\ \A i \in 1..(m - (l + 1) + 1) : r[i] = s[l + 1 + i - 1]
      BY <1>1, <3>2, Cut DEF n
    <3> HIDE DEF x, r
    <3>5. \A i \in 1..(m - (l + 1) + 1) : l + 1 + i - 1 \in 1..m
      BY <1>2
    <3>6. \A i \in 1..Len(x) : x[i] = r[i]
      BY <1>7, <3>3, <3>4, <3>5
    <3>7. x = r
      BY <3>3, <3>4, <3>6, SameSeq
    <3> QED
      BY <3>7 DEF x
  <2> QED
    BY <1>7, <2>2, <2>3, <2>4
<1> HIDE DEF a, b, c, r
<1>10. \A i \in 1..l : i \in 1..n /\ ~(i > l)
  BY <1>2
<1>11. \A i \in (l + 1)..m : i \in 1..n /\ i > l /\ i <= m
  BY <1>2
<1>12. \A i \in (m + 1)..n : i \in 1..n /\ ~(i <= m)
  BY <1>2
<1>13. Plain(b) /\ Plain(a)
  BY <1>1, <1>4, <1>6, <1>10, <1>12 DEF Plain
<1>14. Band(r)
  BY <1>1, <1>2, <1>5, <1>11 DEF Band
<1>15. AllVouched(r, S)
  BY <1>1, <1>3, <1>5, <1>11 DEF AllVouched
<1> QED
  BY <1>0, <1>2, <1>4, <1>5, <1>6, <1>8, <1>9, <1>13, <1>14, <1>15 DEF s, n, l, m, c

LEMMA PeBuilt ==
    ASSUME NEW hdr, NEW b, NEW r, NEW S, Plain(b), Band(r), Aligned(Len(b)), AllVouched(r, S)
    PROVE  LET f == PeFile(hdr, Align + Len(b), Len(r), b \o r)
           IN PeInv(f, S) /\ PeContent(f) = <<hdr, OfKind(b, "code")>>
<1> DEFINE l == Len(b)
           m == Len(r)
           s == b \o r
           p == Align + l
           f == PeFile(hdr, p, m, s)
<1>1. IsSeq(b) /\ IsSeq(r) /\ l \in Nat /\ m \in Nat /\ m > 0 /\ r[1][1] = "cms" /\ Aligned(m)
  BY SeqFacts DEF Plain, Band
<1>2. /\ IsSeq(s) /\ Len(s) = l + m /\ (\A i \in 1..l : s[i] = b[i])
      /\ (\A i \in (l + 1)..(l + m) : s[i] = r[i - l])
  BY <1>1, Joined
<1>3. OfKind(s, "code") = OfKind(b, "code")
  <2>1. OfKind(s, "code") = OfKind(b, "code") \o OfKind(r, "code")
    BY <1>1, OfKindJoined
  <2>2. OfKind(r, "code") = <<>>
    BY BandFacts
  <2>3. IsSeq(OfKind(b, "code"))
    BY <1>1, OfKindFacts
  <2> HIDE DEF s
  <2> DEFINE x == OfKind(b, "code")
  <2> HIDE DEF x
  <2>4. x \o <<>> = x
    BY <2>3, NothingAround DEF x
  <2> QED
    BY <2>1, <2>2, <2>4 DEF x
<1>4. AllVouched(s, S)
  <2>1. AllVouched(b, S)
    BY DEF Plain, AllVouched, Marks
  <2> QED
    BY <1>1, <2>1, PlainFacts
<1> HIDE DEF s
<1>5. Aligned(p) /\ p \in Nat /\ p # 0 /\ p - Align = l /\ p >= Align
  <2> HIDE DEF l
  <2>1. Align \in Nat \ {0} /\ Aligned(Align) /\ Aligned(l) /\ l \in Nat
    BY <1>1, FilesAssumption, AlignItself DEF l
  <2>2. Aligned(Align + l)
    BY <2>1, AlignedSum
  <2> QED
    BY <2>1, <2>2
<1>6. /\ f.fmt = "pe" /\ f.hdr = hdr /\ f.ptr = p /\ f.size = m /\ f.data = s
  <2> HIDE DEF l, m, p
  <2> QED
    BY PeFields
<1>7. \A i \in 1..l : b[i][1] \notin Marks
  BY <1>1, SeqFacts DEF Plain
<1>8. \A i \in 1..m : r[i][1] \in Marks
  BY <1>1, SeqFacts DEF Band
<1> HIDE DEF f, s, l, m, p
<1>9. \A k \in 1..Len(s) : s[k][1] \in Marks <=> k > l /\ k <= l + m
  <2>1. ASSUME NEW k \in 1..Len(s), k > l PROVE s[k][1] \in Marks /\ k <= l + m
    <3>1. k - l \in 1..m /\ k \in (l + 1)..(l + m)
      BY <1>1, <1>2, <2>1
    <3> QED
      BY <1>2, <1>8, <3>1
  <2>2. ASSUME NEW k \in 1..Len(s), ~(k > l) PROVE s[k][1] \notin Marks
    <3>1. k \in 1..l
      BY <1>1, <1>2, <2>2
    <3> QED
      BY <1>2, <1>7, <3>1
  <2> QED
    BY <2>1, <2>2
<1>10. s[l + 1][1] = "cms"
  <2>1. l + 1 \in (l + 1)..(l + m) /\ l + 1 - l = 1
    BY <1>1
  <2> QED
    BY <1>1, <1>2, <2>1
<1>11. HasTable(f)
  BY <1>1, <1>5, <1>6 DEF HasTable
<1>12. TableAligned(f) /\ TableInFile(f)
  <2>1. TableAligned(f)
    BY <1>1, <1>5, <1>6, <1>11 DEF TableAligned
  <2>2. p + m <= Align + Len(s)
    BY <1>1, <1>2, <1>5, FilesAssumption DEF p
  <2> QED
    BY <1>6, <2>1, <2>2 DEF TableInFile, PeLength
<1>13. PeShape(f)
  <2>1. f.data[f.ptr - Align + 1][1] = "cms"
    BY <1>5, <1>6, <1>10
  <2>2. \A k \in 1..Len(f.data) : f.data[k][1] \in Marks <=> InTable(f, k)
    BY <1>5, <1>6, <1>9, <1>11 DEF InTable
  <2>3. f = PeFile(f.hdr, f.ptr, f.size, f.data)
    BY <1>6 DEF f
  <2> QED
    BY <1>1, <1>2, <1>5, <1>6, <1>11, <1>12, <2>1, <2>2, <2>3 DEF PeShape
<1>14. PeContent(f) = <<hdr, OfKind(b, "code")>>
  BY <1>3, <1>6 DEF PeContent
<1> QED
  BY <1>4, <1>6, <1>13, <1>14 DEF PeInv, f, s, l, m, p

LEMMA PePlain ==
    ASSUME NEW hdr, NEW s, Plain(s)
    PROVE  LET f == PeFile(hdr, 0, 0, s)
           IN /\ \A S : PeInv(f, S)
              /\ PeContent(f) = <<hdr, OfKind(s, "code")>> /\ ~HasTable(f)
<1> DEFINE f == PeFile(hdr, 0, 0, s)
<1>1. /\ f.fmt = "pe" /\ f.hdr = hdr /\ f.ptr = 0 /\ f.size = 0 /\ f.data = s
  BY PeFields
<1>2. f = PeFile(f.hdr, f.ptr, f.size, f.data)
  BY <1>1
<1> HIDE DEF f
<1>3. ~HasTable(f) /\ TableAligned(f)
  BY <1>1 DEF HasTable, TableAligned
<1>4. IsSeq(s) /\ \A k \in 1..Len(s) : s[k][1] \notin Marks
  BY SeqFacts DEF Plain
<1>5. PeShape(f)
  BY <1>1, <1>2, <1>3, <1>4 DEF PeShape, InTable
<1>6. \A S : AllVouched(s, S)
  BY DEF Plain, AllVouched, Marks
<1> QED
  BY <1>1, <1>3, <1>5, <1>6 DEF PeInv, PeContent, f

LEMMA PeNoTable ==
    ASSUME NEW f, NEW S, PeInv(f, S), ~HasTable(f)
    PROVE  f.ptr = 0 /\ f.size = 0 /\ Plain(f.data) /\ f = PeFile(f.hdr, 0, 0, f.data)
<1>1. f.ptr = 0 /\ f.size = 0
  BY DEF PeInv, PeShape, TableAligned
<1>2. IsSeq(f.data) /\ \A k \in 1..Len(f.data) : f.data[k][1] \notin Marks
  BY DEF PeInv, PeShape, InTable
<1>3. Plain(f.data)
  BY <1>2, SeqFacts DEF Plain
<1> QED
  BY <1>1, <1>3 DEF PeInv, PeShape

LEMMA BandsJoined ==
    ASSUME NEW s, IsSeq(s), Len(s) > 0, NEW S,
           \A i \in 1..Len(s) : Band(s[i]) /\ AllVouched(s[i], S)
    PROVE  Band(FlattenSeq(s)) /\ AllVouched(FlattenSeq(s), S)
<1> DEFINE n == Len(s)
<1>0. n \in Nat /\ \A i \in 1..n : IsSeq(s[i])
  BY SeqFacts DEF Band
<1>1. PICK o : /\ FlattenSeq(s) = o[n] /\ o[0] = <<>>
               /\ (\A i \in 0..n : IsSeq(o[i]))
               /\ \A i \in 1..n : o[i] = o[i - 1] \o s[i]
  BY <1>0, FlattenSteps
<1> HIDE DEF n
<1> DEFINE Good(i) == Band(o[i]) /\ AllVouched(o[i], S)
           G == {k \in 0..n : k = 0 \/ Good(k)}
<1>2. 0 \in G
  BY <1>0
<1>3. ASSUME NEW k \in 1..n, k - 1 \in G PROVE k \in G
  <2>1. Band(s[k]) /\ AllVouched(s[k], S) /\ o[k] = o[k - 1] \o s[k] /\ IsSeq(s[k]) /\ k - 1 \in 0..n
    <3>1. k - 1 \in 0..n
      BY <1>0
    <3>2. k \in 1..Len(s)
      BY DEF n
    <3>3. Band(s[k]) /\ AllVouched(s[k], S)
      BY <3>2
    <3> QED
      BY <1>1, <3>1, <3>3 DEF Band
  <2>2. CASE k - 1 = 0
    <3>1. o[k] = <<>> \o s[k]
      BY <1>1, <2>1, <2>2
    <3> DEFINE t == s[k]
    <3> HIDE DEF t
    <3>2. <<>> \o t = t
      BY <2>1, NothingAround DEF t
    <3>3. o[k] = s[k]
      BY <3>1, <3>2 DEF t
    <3> QED
      BY <2>1, <3>3
  <2>3. CASE Good(k - 1)
    <3> DEFINE x == o[k - 1]
               t == s[k]
    <3>1. Band(x) /\ Band(t) /\ AllVouched(x, S) /\ AllVouched(t, S) /\ o[k] = x \o t
      BY <2>1, <2>3
    <3> HIDE DEF x, t
    <3>2. IsSeq(x) /\ IsSeq(t)
      BY <3>1 DEF Band
    <3>3. Band(x \o t)
      BY <3>1, BandFacts
    <3>4. AllVouched(x \o t, S)
      BY <3>1, <3>2, PlainFacts
    <3> DEFINE y == x \o t
    <3> HIDE DEF y
    <3>5. Band(y) /\ AllVouched(y, S) /\ o[k] = y
      BY <3>1, <3>3, <3>4 DEF y
    <3>6. Good(k)
      BY <3>5
    <3> QED
      BY <3>6
  <2> QED
    BY <1>3, <2>2, <2>3
<1> HIDE DEF G, Good
<1>4. n \in G
  <2>1. n \in 0..n
    BY <1>0
  <2>2. \A k \in 1..n : k - 1 \in G => k \in G
    BY <1>3
  <2>3. \A k \in 0..n : k \in G
    BY <1>0, <1>2, <2>2, CountUp
  <2> QED
    BY <2>1, <2>3
<1>5. n # 0
  BY DEF n
<1> QED
  BY <1>1, <1>4, <1>5 DEF G, Good, n

LEMMA PeContentIs ==
    ASSUME NEW f, NEW S, PeInv(f, S), HasTable(f)
    PROVE  /\ PeContent(f) = <<f.hdr, OfKind(BeforeTable(f), "code") \o OfKind(AfterTable(f), "code")>>
           /\ AfterTable(f) = <<>> => PeContent(f) = <<f.hdr, OfKind(BeforeTable(f), "code")>>
<1> DEFINE b == BeforeTable(f)
           r == Table(f)
           a == AfterTable(f)
           c == b \o r
<1>1. Plain(b) /\ Band(r) /\ Plain(a) /\ f.data = c \o a
  BY PePieces
<1> HIDE DEF b, r, a
<1>2. IsSeq(b) /\ IsSeq(r) /\ IsSeq(a)
  BY <1>1 DEF Plain, Band
<1>3. IsSeq(c) /\ OfKind(c, "code") = OfKind(b, "code") \o OfKind(r, "code")
  BY <1>2, Joined, OfKindJoined
<1>4. OfKind(r, "code") = <<>>
  BY <1>1, BandFacts
<1> HIDE DEF c
<1>5. OfKind(c \o a, "code") = OfKind(c, "code") \o OfKind(a, "code")
  BY <1>2, <1>3, OfKindJoined
<1> DEFINE x == OfKind(b, "code")
           y == OfKind(a, "code")
<1>6. IsSeq(x) /\ IsSeq(y)
  BY <1>2, OfKindFacts
<1> HIDE DEF x
<1>7. x \o <<>> = x
  BY <1>6, NothingAround
<1>8. OfKind(c, "code") = x
  BY <1>3, <1>4, <1>7 DEF x
<1>9. a = <<>> => y = <<>>
  BY <1>2, SeqFacts, OfKindFacts
<1> HIDE DEF y
<1>10. OfKind(f.data, "code") = x \o y
  BY <1>1, <1>5, <1>8 DEF y
<1> QED
  BY <1>7, <1>9, <1>10 DEF PeContent, x, y, a, b

LEMMA PeDirected ==
    ASSUME NEW f, PeShape(f), NEW x, NEW p, NEW n, NEW g, g = Directory([f EXCEPT !.data = x], p, n)
    PROVE  g = PeFile(f.hdr, p, n, x)
<1> DEFINE h == [f EXCEPT !.data = x]
<1>1. f = PeFile(f.hdr, f.ptr, f.size, f.data)
  BY DEF PeShape
<1>2. \A a, b : Directory([f EXCEPT !.data = x], a, b) = PeFile(f.hdr, a, b, x)
  BY <1>1, PeUpdate, Zenon
<1> QED
  BY <1>2, Zenon

LEMMA PeAppended ==
    ASSUME NEW f, NEW S, PeInv(f, S), NEW c, PeVouched(c, S), NEW g \in pe_append(f, c)
    PROVE  /\ PeInv(g, S)
           /\ (HasTable(f) => AfterTable(f) = <<>>) => PeContent(g) = PeContent(f)
<1> DEFINE row == wrap_win_certificate(c)
           hdr == f.hdr
<1>1. IsCms(c)
  BY DEF PeVouched
<1>2. Band(row) /\ AllVouched(row, S)
  BY <1>1, RowMade
<1>3. TableAligned(f)
  BY DEF PeInv, PeShape
<1> HIDE DEF row
<1>4. CASE ~HasTable(f)
  <2> DEFINE s == f.data
             n == Len(s)
  <2>1. Plain(s) /\ f = PeFile(hdr, 0, 0, s) /\ n \in Nat
    BY <1>4, PeNoTable, SeqFacts DEF Plain
  <2>2. Aligned(Align + n) /\ g = Directory([f EXCEPT !.data = f.data \o row], Align + n, Len(row))
    BY <1>3, <1>4 DEF pe_append, When, PeLength, row
  <2>3. g = PeFile(hdr, Align + n, Len(row), s \o row)
    <3> DEFINE x == f.data \o row
               z == Align + n
               k == Len(row)
    <3>1. PeShape(f) /\ g = Directory([f EXCEPT !.data = x], z, k)
      BY <2>2 DEF PeInv
    <3> HIDE DEF x, z, k
    <3>2. g = PeFile(f.hdr, z, k, x)
      BY <3>1, PeDirected, Zenon
    <3> QED
      BY <3>2 DEF x, z, k
  <2>4. Aligned(n)
    <3>1. PICK q \in Nat : Align + n = q * Align
      BY <2>1, <2>2, AlignedFacts, FilesAssumption
    <3>2. q # 0 /\ Align \in Nat \ {0}
      BY <2>1, <3>1, FilesAssumption
    <3>3. q - 1 \in Nat /\ n = (q - 1) * Align
      BY <2>1, <3>1, <3>2
    <3> QED
      BY <2>1, <3>3, AlignedFacts
  <2>5. PeContent(f) = <<hdr, OfKind(s, "code")>>
    BY DEF PeContent
  <2> HIDE DEF s, n, hdr
  <2> QED
    BY <1>2, <2>1, <2>3, <2>4, <2>5, PeBuilt DEF n
<1>5. CASE HasTable(f)
  <2> DEFINE b == BeforeTable(f)
             r == Table(f)
             t == r \o row
  <2>1. Plain(b) /\ Len(b) = f.ptr - Align /\ Band(r) /\ Len(r) = f.size /\ AllVouched(r, S)
    BY <1>5, PePieces
  <2>2. g = Directory([f EXCEPT !.data = (b \o r) \o row], f.ptr, f.size + Len(row))
    BY <1>3, <1>5 DEF pe_append, When, row
  <2>3. g = PeFile(hdr, f.ptr, f.size + Len(row), (b \o r) \o row)
    <3> DEFINE x == (b \o r) \o row
               z == f.ptr
               k == f.size + Len(row)
    <3>1. PeShape(f) /\ g = Directory([f EXCEPT !.data = x], z, k)
      BY <2>2 DEF PeInv
    <3> HIDE DEF x, z, k
    <3>2. g = PeFile(f.hdr, z, k, x)
      BY <3>1, PeDirected, Zenon
    <3> QED
      BY <3>2 DEF x, z, k
  <2>4. AfterTable(f) = <<>> => PeContent(f) = <<hdr, OfKind(b, "code")>>
    BY <1>5, PeContentIs
  <2>5. Aligned(f.ptr) /\ f.ptr \in Nat /\ f.ptr >= Align /\ Align \in Nat \ {0}
    BY <1>5, FilesAssumption DEF PeInv, PeShape, TableAligned
  <2> HIDE DEF b, r, hdr
  <2>6. IsSeq(b) /\ IsSeq(r) /\ IsSeq(row)
    BY <1>2, <2>1 DEF Plain, Band
  <2>7. (b \o r) \o row = b \o t
    <3>1. IsSeq(b) /\ IsSeq(r) /\ IsSeq(row)
      BY <2>6
    <3>2. (b \o r) \o row = b \o (r \o row)
      BY <3>1, Associative, SMTT(60)
    <3> QED
      BY <3>2
  <2>8. Band(t) /\ AllVouched(t, S) /\ Len(t) = f.size + Len(row)
    BY <1>2, <2>1, <2>6, BandFacts, PlainFacts, Joined
  <2> HIDE DEF t
  <2>9. Aligned(Len(b)) /\ Align + Len(b) = f.ptr
    <3>1. Len(b) \in Nat /\ Align + Len(b) = f.ptr
      BY <2>1, <2>5, <2>6, SeqFacts
    <3>2. PICK q \in Nat : f.ptr = q * Align
      BY <2>5, AlignedFacts
    <3>3. q # 0
      BY <2>5, <3>2
    <3>4. q - 1 \in Nat /\ Len(b) = (q - 1) * Align
      BY <2>5, <3>1, <3>2, <3>3
    <3> QED
      BY <3>1, <3>4, AlignedFacts
  <2>10. g = PeFile(hdr, Align + Len(b), Len(t), b \o t)
    BY <2>3, <2>7, <2>8, <2>9
  <2>11. PeInv(g, S) /\ PeContent(g) = <<hdr, OfKind(b, "code")>>
    BY <2>1, <2>8, <2>9, <2>10, PeBuilt
  <2> QED
    BY <1>5, <2>4, <2>11
<1> QED
  BY <1>4, <1>5

(* A row taken from the table is a document of it, and the table has no other. *)
LEMMA PeRows ==
    ASSUME NEW f, NEW S, PeInv(f, S), HasTable(f)
    PROVE  /\ IsSeq(Signatures(Table(f)))
           /\ \A i \in 1..Len(Signatures(Table(f))) : PeVouched(Signatures(Table(f))[i], S)
           /\ \A x \in ToSet(f.data) : x[1] = "cms" =>
                 \E i \in 1..Len(Signatures(Table(f))) : Signatures(Table(f))[i] = x[2]
<1> DEFINE r == Table(f)
           b == BeforeTable(f)
           a == AfterTable(f)
           rows == Signatures(r)
           o == OfKind(r, "cms")
           c == b \o r
<1>1. IsSeq(r) /\ AllVouched(r, S) /\ Plain(b) /\ Plain(a) /\ f.data = c \o a
  BY PePieces DEF Band
<1> HIDE DEF r, b, a
<1>2. /\ IsSeq(rows) /\ Len(rows) = Len(o) /\ (\A i \in 1..Len(rows) : rows[i] = o[i][2])
      /\ \A x \in ToSet(rows) : \E i \in 1..Len(r) : r[i][1] = "cms" /\ r[i][2] = x
  BY <1>1, SignaturesFacts
<1>3. IsSeq(o) /\ ToSet(o) = {x \in ToSet(r) : x[1] = "cms"}
  BY <1>1, OfKindFacts
<1> HIDE DEF rows, o
<1>4. ASSUME NEW i \in 1..Len(rows) PROVE PeVouched(rows[i], S)
  <2>1. rows[i] \in ToSet(rows)
    BY <1>2, SeqFacts
  <2>2. PICK j \in 1..Len(r) : r[j][1] = "cms" /\ r[j][2] = rows[i]
    BY <1>2, <2>1
  <2>3. r[j] \in ToSet(r)
    BY <1>1, SeqFacts
  <2> QED
    BY <1>1, <2>2, <2>3 DEF AllVouched
<1>5. ASSUME NEW x \in ToSet(f.data), x[1] = "cms" PROVE \E i \in 1..Len(rows) : rows[i] = x[2]
  <2>1. IsSeq(b) /\ IsSeq(r) /\ IsSeq(a)
    BY <1>1 DEF Plain
  <2>2. ToSet(f.data) = ToSet(c) \cup ToSet(a) /\ ToSet(c) = ToSet(b) \cup ToSet(r)
    <3>1. IsSeq(c) /\ ToSet(c) = ToSet(b) \cup ToSet(r)
      BY <2>1, Joined
    <3> HIDE DEF c
    <3>2. IsSeq(c) /\ IsSeq(a)
      BY <2>1, <3>1
    <3>3. ToSet(c \o a) = ToSet(c) \cup ToSet(a)
      BY <3>2, Joined
    <3> QED
      BY <1>1, <3>1, <3>3
  <2>3. x \in ToSet(r)
    BY <1>1, <1>5, <2>2 DEF Plain, Marks
  <2>4. x \in ToSet(o)
    BY <1>3, <1>5, <2>3
  <2>5. PICK i \in 1..Len(o) : o[i] = x
    BY <1>3, <2>4, SeqFacts
  <2> QED
    BY <1>2, <2>5
<1> QED
  BY <1>2, <1>4, <1>5 DEF rows, r

LEMMA PeReplaced ==
    ASSUME NEW f, NEW S, PeInv(f, S), NEW c, PeVouched(c, S), NEW index, NEW g \in pe_replace_at(f, index, c)
    PROVE  /\ PeInv(g, S)
           /\ (HasTable(f) => AfterTable(f) = <<>>) => PeContent(g) = PeContent(f)
<1> DEFINE r == Table(f)
           b == BeforeTable(f)
           rows == Signatures(r)
           Doc(i) == IF i = index THEN c ELSE rows[i]
           ss == [i \in 1..Len(rows) |-> wrap_win_certificate(Doc(i))]
           t == FlattenSeq(ss)
           hdr == f.hdr
<1>1. HasTable(f) /\ index \in DOMAIN rows /\ g = Directory([f EXCEPT !.data = b \o t], f.ptr, Len(t))
  BY DEF pe_replace_at
<1>2. Plain(b) /\ Len(b) = f.ptr - Align
  BY <1>1, PePieces
<1>3. AfterTable(f) = <<>> => PeContent(f) = <<hdr, OfKind(b, "code")>>
  BY <1>1, PeContentIs
<1>4. IsSeq(rows) /\ \A i \in 1..Len(rows) : PeVouched(rows[i], S)
  BY <1>1, PeRows
<1>5. g = PeFile(hdr, f.ptr, Len(t), b \o t)
  <2> DEFINE x == b \o t
             z == f.ptr
             k == Len(t)
  <2>1. PeShape(f) /\ g = Directory([f EXCEPT !.data = x], z, k)
    BY <1>1 DEF PeInv
  <2> HIDE DEF x, z, k
  <2>2. g = PeFile(f.hdr, z, k, x)
    BY <2>1, PeDirected, Zenon
  <2> QED
    BY <2>2 DEF x, z, k
<1>6. Aligned(f.ptr) /\ f.ptr \in Nat /\ f.ptr >= Align /\ Align \in Nat \ {0}
  BY <1>1, FilesAssumption DEF PeInv, PeShape, TableAligned
<1> HIDE DEF r, b, rows, hdr
<1>7. Len(rows) \in Nat /\ Len(rows) > 0
  BY <1>1, <1>4, SeqFacts
<1>8. \A i \in 1..Len(rows) : PeVouched(Doc(i), S)
  BY <1>4
<1> HIDE DEF Doc
<1>9. \A i \in 1..Len(rows) : Band(wrap_win_certificate(Doc(i))) /\ AllVouched(wrap_win_certificate(Doc(i)), S)
  BY <1>8, RowMade DEF PeVouched
<1>10. IsSeq(ss) /\ Len(ss) = Len(rows) /\ \A i \in 1..Len(rows) : ss[i] = wrap_win_certificate(Doc(i))
  <2> DEFINE n == Len(rows)
             W(i) == wrap_win_certificate(Doc(i))
  <2>1. n \in Nat
    BY <1>7
  <2> HIDE DEF n, W
  <2> DEFINE u == [i \in 1..n |-> W(i)]
  <2>2. u \in Seq({W(i) : i \in 1..n}) /\ Len(u) = n /\ \A i \in 1..n : u[i] = W(i)
    BY <2>1
  <2> HIDE DEF u
  <2>3. IsSeq(u)
    BY <2>2, SeqOver
  <2> QED
    BY <2>2, <2>3 DEF u, n, W
<1> HIDE DEF ss
<1>11. Band(t) /\ AllVouched(t, S)
  BY <1>7, <1>9, <1>10, BandsJoined
<1> HIDE DEF t
<1>12. Aligned(Len(b)) /\ Align + Len(b) = f.ptr
  <2>1. Len(b) \in Nat /\ Align + Len(b) = f.ptr
    BY <1>2, <1>6, SeqFacts DEF Plain
  <2>2. PICK q \in Nat : f.ptr = q * Align
    BY <1>6, AlignedFacts
  <2>3. q # 0
    BY <1>6, <2>2
  <2>4. q - 1 \in Nat /\ Len(b) = (q - 1) * Align
    BY <1>6, <2>1, <2>2, <2>3
  <2> QED
    BY <2>1, <2>4, AlignedFacts
<1>13. PeInv(g, S) /\ PeContent(g) = <<hdr, OfKind(b, "code")>>
  BY <1>2, <1>5, <1>11, <1>12, PeBuilt
<1> QED
  BY <1>1, <1>3, <1>13

LEMMA SameVouched ==
    ASSUME NEW c, NEW t, NEW S, PeVouched(c, S), IsCms(t), SameDocument(t, c)
    PROVE  PeVouched(t, S)
<1>1. IndirectDigest(t) = IndirectDigest(c)
  BY DEF SameDocument, IndirectDigest
<1> QED
  BY <1>1 DEF PeVouched

LEMMA PeStamped ==
    ASSUME NEW f, NEW S, PeInv(f, S), NEW index, NEW answer, NEW g \in timestamp_pe(f, index, answer)
    PROVE  /\ PeInv(g, S)
           /\ (HasTable(f) => AfterTable(f) = <<>>) => PeContent(g) = PeContent(f)
<1> DEFINE rows == pe_pkcs7(f)
           c == rows[index]
           U(x) == pe_replace_at(f, index, x)
           V == timestamp_pkcs7(c, "ms", answer, "sha256")
<1>1. index \in DOMAIN rows /\ g \in UNION {U(x) : x \in V}
  BY DEF timestamp_pe
<1>2. PICK x \in V : g \in U(x)
  BY <1>1
<1>3. rows = Signatures(Table(f)) /\ HasTable(f)
  BY <1>1 DEF pe_pkcs7
<1>4. PeVouched(c, S)
  <2>1. IsSeq(Signatures(Table(f))) /\ \A i \in 1..Len(Signatures(Table(f))) : PeVouched(Signatures(Table(f))[i], S)
    BY <1>3, PeRows
  <2> DEFINE s == Signatures(Table(f))
  <2> HIDE DEF s
  <2>2. index \in 1..Len(s)
    BY <1>1, <1>3, <2>1, SeqFacts DEF s
  <2> QED
    BY <1>3, <2>1, <2>2 DEF s
<1>5. IsCms(c)
  BY <1>4 DEF PeVouched
<1> HIDE DEF rows, c
<1>6. IsCms(x) /\ SameDocument(x, c)
  BY <1>5, Stamped
<1>7. PeVouched(x, S)
  BY <1>4, <1>6, SameVouched
<1> QED
  BY <1>2, <1>7, PeReplaced

LEMMA PeRemoved ==
    ASSUME NEW f, NEW S, PeInv(f, S), NEW g \in pe_remove(f)
    PROVE  /\ PeInv(g, S) /\ ~HasTable(g) /\ PeContent(g) = PeContent(f)
<1>1. CASE ~HasTable(f)
  BY <1>1 DEF pe_remove
<1>2. CASE HasTable(f)
  <2> DEFINE b == BeforeTable(f)
             a == AfterTable(f)
             s == b \o a
  <2>1. Plain(b) /\ Plain(a)
    BY <1>2, PePieces
  <2>2. g = Directory([f EXCEPT !.data = s], 0, 0)
    BY <1>2 DEF pe_remove, When
  <2>3. PeContent(f) = <<f.hdr, OfKind(b, "code") \o OfKind(a, "code")>>
    BY <1>2, PeContentIs
  <2> HIDE DEF a, b
  <2>4. Plain(s) /\ OfKind(s, "code") = OfKind(b, "code") \o OfKind(a, "code")
    BY <2>1, PlainFacts, OfKindJoined DEF Plain
  <2> HIDE DEF s
  <2>5. g = PeFile(f.hdr, 0, 0, s)
    BY <2>2, PeDirected DEF PeInv
  <2> QED
    BY <2>3, <2>4, <2>5, PePlain
<1> QED
  BY <1>1, <1>2

LEMMA PePrepared ==
    ASSUME NEW f, NEW S, PeInv(f, S), NEW g \in pe_prepare(f)
    PROVE  /\ PeInv(g, S) /\ PeContent(g) = PeContent(f)
           /\ HasTable(f) => g = f
           /\ ~HasTable(f) => ~HasTable(g)
<1>1. TableAligned(f)
  BY DEF PeInv, PeShape
<1>2. CASE f.ptr # 0
  <2>1. g = f
    BY <1>1, <1>2 DEF pe_prepare
  <2> QED
    BY <2>1
<1>3. CASE f.ptr = 0
  <2> DEFINE s == f.data
             pad == Blank(Padding(PeLength(f)), "pad")
             t == s \o pad
  <2>1. ~HasTable(f)
    BY <1>3 DEF HasTable
  <2>2. Plain(s) /\ f = PeFile(f.hdr, 0, 0, s)
    BY <2>1, PeNoTable
  <2>3. PeLength(f) \in Nat
    BY <2>2, SeqFacts, FilesAssumption DEF PeLength, Plain
  <2>4. g = [f EXCEPT !.data = t]
    BY <1>1, <1>3 DEF pe_prepare
  <2> DEFINE n == Padding(PeLength(f))
             c == Cell("pad", "")
  <2>5. n \in Nat /\ c[1] = "pad"
    BY <2>3, PaddingFacts, CellFields
  <2>6. IsSeq(pad) /\ Len(pad) = n /\ \A i \in 1..n : pad[i] = c
    <3> HIDE DEF n, c
    <3>1. IsSeq(Blank(n, "pad")) /\ Len(Blank(n, "pad")) = n /\ \A i \in 1..n : Blank(n, "pad")[i] = Cell("pad", "")
      BY <2>5, BlankFacts
    <3> QED
      BY <3>1 DEF n, c
  <2> HIDE DEF pad, c, n
  <2>7. \A i \in 1..Len(pad) : pad[i][1] = "pad"
    BY <2>5, <2>6
  <2>8. Plain(pad)
    BY <2>6, <2>7, SeqFacts DEF Plain, Marks
  <2>9. OfKind(pad, "code") = <<>>
    BY <2>6, <2>7, OfKindFacts
  <2>10. IsSeq(s) /\ IsSeq(pad)
    BY <2>2, <2>6 DEF Plain
  <2>11. Plain(t) /\ OfKind(t, "code") = OfKind(s, "code") \o OfKind(pad, "code")
    BY <2>2, <2>8, <2>10, PlainFacts, OfKindJoined
  <2> DEFINE x == OfKind(s, "code")
  <2>12. IsSeq(x)
    BY <2>10, OfKindFacts
  <2> HIDE DEF x
  <2>13. x \o <<>> = x
    BY <2>12, NothingAround
  <2>14. OfKind(t, "code") = x
    BY <2>9, <2>11, <2>13 DEF x
  <2> HIDE DEF t
  <2>15. g = PeFile(f.hdr, f.ptr, f.size, t)
    BY <2>4, PeUpdate, Zenon DEF PeInv, PeShape
  <2>16. f.ptr = 0 /\ f.size = 0
    BY <2>1, PeNoTable
  <2>17. g = PeFile(f.hdr, 0, 0, t)
    BY <2>15, <2>16
  <2>18. PeInv(g, S) /\ PeContent(g) = <<f.hdr, x>> /\ ~HasTable(g)
    BY <2>11, <2>14, <2>17, PePlain
  <2>19. PeContent(f) = <<f.hdr, x>>
    BY DEF PeContent, x
  <2> QED
    BY <2>1, <2>18, <2>19
<1> QED
  BY <1>2, <1>3

(* What the digest is taken of: all of the image when it has no table, and    *)
(* what is in front of the table when nothing is behind it; otherwise a       *)
(* document of the table is in it.                                            *)
LEMMA PeHashed ==
    ASSUME NEW f, NEW S, PeInv(f, S)
    PROVE  LET x == SubSeq(f.data, 1, Len(f.data) - f.size)
           IN /\ IsSeq(x) /\ ToSet(x) \subseteq ToSet(f.data)
              /\ (\A c \in ToSet(x) : c[1] # "cms") => PeContent(f) = <<f.hdr, OfKind(x, "code")>>
<1> DEFINE s == f.data
           n == Len(s)
           x == SubSeq(s, 1, n - f.size)
<1>1. IsSeq(s) /\ n \in Nat /\ f.size \in Nat
  BY SeqFacts DEF PeInv, PeShape
<1>2. CASE ~HasTable(f)
  <2>1. f.size = 0
    BY <1>2, PeNoTable
  <2>2. x = s
    <3>1. n - f.size = n
      BY <1>1, <2>1
    <3> QED
      BY <1>1, <3>1, PrefixFacts
  <2> HIDE DEF x
  <2> QED
    BY <1>1, <2>2 DEF PeContent, x
<1>3. CASE HasTable(f)
  <2> DEFINE l == f.ptr - Align
  <2>1. /\ f.ptr \in Nat /\ f.ptr >= Align /\ Align \in Nat \ {0} /\ f.size > 0
        /\ f.ptr + f.size <= Align + n /\ s[l + 1][1] = "cms"
    BY <1>1, <1>3, FilesAssumption DEF PeInv, PeShape, TableInFile, PeLength, HasTable
  <2>2. PeContent(f) = <<f.hdr, OfKind(BeforeTable(f), "code")>> \/ AfterTable(f) # <<>>
    BY <1>3, PeContentIs
  <2>3. IsSeq(AfterTable(f)) /\ Len(AfterTable(f)) = n - (l + f.size)
    BY <1>3, PePieces DEF Plain
  <2>4. BeforeTable(f) = SubSeq(s, 1, l)
    BY DEF BeforeTable
  <2> DEFINE k == n - f.size
  <2>5. k \in Nat /\ k <= n /\ l \in Nat /\ l <= k
    <3> DEFINE z == f.size
               p == f.ptr
    <3>1. z \in Nat /\ p \in Nat /\ n \in Nat /\ p >= Align /\ Align \in Nat /\ p + z <= Align + n
          /\ k = n - z /\ l = p - Align
      BY <1>1, <2>1
    <3> HIDE DEF k, l, n, z, p
    <3> QED
      BY <3>1
  <2>6. IsSeq(x) /\ ToSet(x) = {s[i] : i \in 1..k} /\ ToSet(x) \subseteq ToSet(s)
    <3>1. 1 \in 1..(n + 1) /\ k \in (1 - 1)..n
      BY <1>1, <2>5
    <3> QED
      BY <1>1, <3>1, Cut
  <2> HIDE DEF k, x
  <2>7. CASE l < k
    <3>1. l + 1 \in 1..k
      BY <2>5, <2>7
    <3>2. s[l + 1] \in ToSet(x)
      BY <2>6, <3>1
    <3> QED
      BY <2>1, <2>6, <3>2 DEF x
  <2>8. CASE l = k
    <3>1. Len(AfterTable(f)) = 0
      BY <1>1, <2>1, <2>3, <2>8 DEF k
    <3>2. AfterTable(f) = <<>>
      BY <2>3, <3>1, SeqFacts
    <3>3. x = BeforeTable(f)
      BY <2>4, <2>8 DEF x, k
    <3> QED
      BY <2>2, <2>6, <3>2, <3>3 DEF x
  <2> QED
    BY <2>5, <2>7, <2>8
<1> QED
  BY <1>2, <1>3

LEMMA PeNew ==
    ASSUME NEW f, NEW S, PeInv(f, S), NEW c, NEW alg, IsCms(c),
           IndirectDigest(c) = pe_authenticode_digest(f, alg), NEW T, S \subseteq T, PeContent(f) \in T
    PROVE  PeVouched(c, T)
<1> DEFINE x == SubSeq(f.data, 1, Len(f.data) - f.size)
           img == <<f.hdr, x>>
           d == IndirectDigest(c)
<1>0. img[1] = f.hdr /\ img[2] = x
  <2> HIDE DEF x
  <2> QED
    OBVIOUS
<1>1. d[2] = img /\ img[1] = f.hdr /\ img[2] = x
  <2>1. d = <<alg, img>>
    BY DEF pe_authenticode_digest, Hash
  <2> HIDE DEF img, d
  <2> QED
    BY <1>0, <2>1
<1>2. /\ IsSeq(x) /\ ToSet(x) \subseteq ToSet(f.data)
      /\ (\A y \in ToSet(x) : y[1] # "cms") => PeContent(f) = <<f.hdr, OfKind(x, "code")>>
  BY PeHashed
<1> HIDE DEF x, img, d
<1>3. ASSUME NEW y \in ToSet(x), y[1] = "cms" PROVE IndirectDigest(y[2])[2] # img
  <2>1. PeVouched(y[2], S)
    BY <1>2, <1>3 DEF PeInv, AllVouched
  <2> DEFINE e == IndirectDigest(y[2])
  <2>2. \A z \in ToSet(e[2][2]) : z[1] = "cms" => IndirectDigest(z[2])[2] # e[2]
    BY <2>1 DEF PeVouched
  <2>3. SUFFICES ASSUME e[2] = img PROVE FALSE
    OBVIOUS
  <2> HIDE DEF e
  <2>4. ToSet(e[2][2]) = ToSet(x)
    BY <1>1, <2>3
  <2>5. IndirectDigest(y[2])[2] # e[2]
    BY <1>3, <2>2, <2>4
  <2> QED
    BY <2>5 DEF e
<1>4. ASSUME \A y \in ToSet(x) : y[1] # "cms" PROVE PeTold(d) \in T
  <2>1. PeTold(d) = <<f.hdr, OfKind(x, "code")>>
    BY <1>1 DEF PeTold
  <2> QED
    BY <1>2, <1>4, <2>1
<1>5. ToSet(d[2][2]) = ToSet(x)
  BY <1>1
<1>6. \A y \in ToSet(d[2][2]) : y[1] = "cms" => IndirectDigest(y[2])[2] # d[2]
  BY <1>1, <1>3, <1>5
<1>7. (\A y \in ToSet(d[2][2]) : y[1] # "cms") => PeTold(d) \in T
  BY <1>4, <1>5
<1> QED
  BY <1>6, <1>7 DEF PeVouched, d

LEMMA PeMatched ==
    ASSUME NEW f, NEW S, PeInv(f, S), pe_digests_match(f), pe_pkcs7(f) # <<>>
    PROVE  PeContent(f) \in S
<1> DEFINE x == SubSeq(f.data, 1, Len(f.data) - f.size)
           img == <<f.hdr, x>>
           rows == Signatures(Table(f))
<1>1. HasTable(f) /\ pe_pkcs7(f) = rows
  BY DEF pe_pkcs7
<1>2. /\ IsSeq(rows) /\ (\A i \in 1..Len(rows) : PeVouched(rows[i], S))
      /\ \A y \in ToSet(f.data) : y[1] = "cms" => \E i \in 1..Len(rows) : rows[i] = y[2]
  BY <1>1, PeRows
<1>3. ASSUME NEW alg PROVE pe_authenticode_digest(f, alg)[2] = img
  <2>1. pe_authenticode_digest(f, alg) = <<alg, img>>
    BY DEF pe_authenticode_digest, Hash
  <2> HIDE DEF img
  <2> QED
    BY <2>1
<1>4. /\ IsSeq(x) /\ ToSet(x) \subseteq ToSet(f.data)
      /\ (\A y \in ToSet(x) : y[1] # "cms") => PeContent(f) = <<f.hdr, OfKind(x, "code")>>
  BY PeHashed
<1>5. img[1] = f.hdr /\ img[2] = x
  OBVIOUS
<1>6. \A i \in DOMAIN rows : IndirectDigest(rows[i]) = pe_authenticode_digest(f, IndirectDigest(rows[i])[1])
  BY <1>1 DEF pe_digests_match
<1>7. Len(rows) \in Nat /\ Len(rows) > 0 /\ DOMAIN rows = 1..Len(rows)
  BY <1>1, <1>2, SeqFacts
<1> HIDE DEF rows, x, img
<1>8. \A i \in 1..Len(rows) : IndirectDigest(rows[i])[2] = img
  BY <1>3, <1>6, <1>7
<1>9. ASSUME NEW y \in ToSet(x), y[1] = "cms" PROVE FALSE
  <2>1. PICK i \in 1..Len(rows) : rows[i] = y[2]
    BY <1>2, <1>4, <1>9
  <2> DEFINE e == IndirectDigest(y[2])
  <2>2. \A z \in ToSet(e[2][2]) : z[1] = "cms" => IndirectDigest(z[2])[2] # e[2]
    BY <1>2, <2>1 DEF PeVouched
  <2>3. e[2] = img
    BY <1>8, <2>1
  <2> HIDE DEF e
  <2>4. ToSet(e[2][2]) = ToSet(x)
    BY <1>5, <2>3
  <2>5. IndirectDigest(y[2])[2] # e[2]
    BY <1>9, <2>2, <2>4
  <2> QED
    BY <2>5 DEF e
<1>10. PeVouched(rows[1], S) /\ IndirectDigest(rows[1])[2] = img
  BY <1>2, <1>7, <1>8
<1> DEFINE d == IndirectDigest(rows[1])
<1>11. (\A y \in ToSet(d[2][2]) : y[1] # "cms") => PeTold(d) \in S
  BY <1>10 DEF PeVouched
<1> HIDE DEF d
<1>12. d[2] = img
  BY <1>10 DEF d
<1>13. PeTold(d) = <<f.hdr, OfKind(x, "code")>> /\ ToSet(d[2][2]) = ToSet(x)
  BY <1>5, <1>12 DEF PeTold
<1> QED
  BY <1>4, <1>9, <1>11, <1>13

LEMMA PeSigned ==
    ASSUME NEW f, NEW S, PeInv(f, S), NEW req, NEW g \in sign_pe(f, req)
    PROVE  /\ PeInv(g, S \cup {PeContent(f)})
           /\ (HasTable(f) => AfterTable(f) = <<>>) => PeContent(g) = PeContent(f)
<1> DEFINE T == S \cup {PeContent(f)}
           R == IF req.append THEN {f} ELSE pe_remove(f)
           U(r) == UNION {SignPreparedPe(p, req) : p \in pe_prepare(r)}
<1>1. g = f \/ g \in UNION {U(r) : r \in R}
  BY DEF sign_pe
<1>2. CASE g = f
  BY <1>2, PeMore
<1>3. CASE g \in UNION {U(r) : r \in R}
  <2>1. PICK r \in R : g \in U(r)
    BY <1>3
  <2>2. PICK p \in pe_prepare(r) : g \in SignPreparedPe(p, req)
    BY <2>1
  <2>3. /\ PeInv(r, S) /\ PeContent(r) = PeContent(f)
        /\ (HasTable(f) => AfterTable(f) = <<>>) => (HasTable(r) => AfterTable(r) = <<>>)
    <3>1. CASE req.append
      BY <3>1
    <3>2. CASE ~req.append
      BY <3>2, PeRemoved
    <3> QED
      BY <3>1, <3>2
  <2>4. /\ PeInv(p, S) /\ PeContent(p) = PeContent(f)
        /\ (HasTable(f) => AfterTable(f) = <<>>) => (HasTable(p) => AfterTable(p) = <<>>)
    BY <2>3, PePrepared
  <2> DEFINE D == pe_authenticode_digest(p, req.alg)
             V(c) == UNION {pe_append(p, t) : t \in maybe_timestamp_pkcs7(c, req.tsa)}
             W == create_authenticode_pkcs7(req.material, "pe", req.alg, D)
  <2>5. SignPreparedPe(p, req) = UNION {V(c) : c \in W}
    BY DEF SignPreparedPe
  <2> HIDE DEF R, U
  <2>6. PICK c \in W : g \in V(c)
    BY <2>2, <2>5
  <2>7. PICK t \in maybe_timestamp_pkcs7(c, req.tsa) : g \in pe_append(p, t)
    BY <2>6
  <2>8. IsCms(c) /\ IndirectDigest(c) = D
    BY SpcMade
  <2>9. PeVouched(c, T)
    <3>1. S \subseteq T /\ PeContent(p) \in T
      BY <2>4
    <3> HIDE DEF T
    <3> QED
      BY <2>4, <2>8, <3>1, PeNew
  <2>10. PeVouched(t, T)
    <3>1. IsCms(t) /\ SameDocument(t, c)
      BY <2>8, MaybeStamped
    <3> HIDE DEF T
    <3> QED
      BY <2>9, <3>1, SameVouched
  <2>11. PeInv(p, T)
    BY <2>4, PeMore
  <2> HIDE DEF T
  <2>12. PeInv(g, T) /\ ((HasTable(p) => AfterTable(p) = <<>>) => PeContent(g) = PeContent(p))
    BY <2>7, <2>10, <2>11, PeAppended
  <2> QED
    BY <2>4, <2>12 DEF T
<1> QED
  BY <1>1, <1>2, <1>3

LEMMA PeExtracted ==
    ASSUME NEW f, NEW S, PeInv(f, S), NEW index \in DOMAIN pe_pkcs7(f)
    PROVE  PeVouched(pe_pkcs7(f)[index], S)
<1> DEFINE s == Signatures(Table(f))
<1>1. pe_pkcs7(f) = s /\ HasTable(f)
  BY DEF pe_pkcs7
<1>2. IsSeq(s) /\ \A i \in 1..Len(s) : PeVouched(s[i], S)
  BY <1>1, PeRows
<1> HIDE DEF s
<1>3. index \in 1..Len(s)
  BY <1>1, <1>2, SeqFacts
<1> QED
  BY <1>1, <1>2, <1>3

LEMMA PeEdited ==
    ASSUME NEW f, NEW S, PeInv(f, S), NEW x, EditOf(x, f.data), NEW g, g = [f EXCEPT !.data = x]
    PROVE  PeInv(g, S)
<1> DEFINE s == f.data
           n == Len(s)
<1>1. /\ IsSeq(s) /\ f = PeFile(f.hdr, f.ptr, f.size, f.data)
      /\ \A k \in 1..n : s[k][1] \in Marks <=> InTable(f, k)
  BY DEF PeInv, PeShape
<1>2. /\ IsSeq(x) /\ n <= Len(x) /\ Len(x) <= n + 1
      /\ \A i \in 1..n : x[i] = s[i] \/ (x[i][1] = "code" /\ s[i][1] = "code")
      /\ \A i \in 1..Len(x) : i > n => x[i][1] = "code"
      /\ \A c \in ToSet(x) : c \in ToSet(s) \/ c = Cell("code", c[2])
  BY DEF EditOf
<1>3. g = PeFile(f.hdr, f.ptr, f.size, x)
  BY <1>1, PeUpdate, Zenon
<1>4. /\ g.hdr = f.hdr /\ g.ptr = f.ptr /\ g.size = f.size /\ g.data = x
  BY <1>3, PeFields
<1>5. n \in Nat /\ Len(x) \in Nat
  BY <1>1, <1>2, SeqFacts
<1>6. HasTable(g) <=> HasTable(f)
  BY <1>4 DEF HasTable
<1>7. /\ f.ptr \in Nat /\ f.size \in Nat /\ TableAligned(f)
      /\ HasTable(f) => /\ f.ptr >= Align /\ f.ptr + f.size <= Align + n
                        /\ s[f.ptr - Align + 1][1] = "cms" /\ f.size # 0
  BY DEF PeInv, PeShape, TableInFile, PeLength, HasTable
<1>8. TableAligned(g)
  BY <1>4, <1>6, <1>7 DEF TableAligned
<1> DEFINE p == f.ptr
           z == f.size
<1> HIDE DEF s, n, p, z
<1>9. HasTable(f) => /\ p \in Nat /\ z \in Nat /\ p >= Align /\ p + z <= Align + n /\ z # 0
                     /\ s[p - Align + 1][1] = "cms"
  BY <1>7 DEF p, z
<1>10. HasTable(f) => x[p - Align + 1][1] = "cms" /\ p + z <= Align + Len(x)
  <2>1. HasTable(f) => p - Align + 1 \in 1..n /\ p + z <= Align + Len(x)
    BY <1>2, <1>5, <1>9, FilesAssumption
  <2> QED
    BY <1>2, <1>9, <2>1
<1>11. \A k \in 1..Len(x) : k > n => ~InTable(f, k)
  <2>1. HasTable(f) => p - Align + z <= n
    BY <1>5, <1>9, FilesAssumption
  <2>2. ASSUME NEW k \in 1..Len(x), k > n PROVE ~(HasTable(f) /\ k <= p - Align + z)
    BY <1>5, <1>9, <2>1, <2>2, FilesAssumption
  <2> QED
    BY <2>2 DEF InTable, p, z
<1>12. \A k \in 1..Len(x) : x[k][1] \in Marks <=> InTable(f, k)
  <2>1. ASSUME NEW k \in 1..Len(x), k > n PROVE x[k][1] \in Marks <=> InTable(f, k)
    BY <1>2, <1>11, <2>1 DEF Marks
  <2>2. ASSUME NEW k \in 1..Len(x), ~(k > n) PROVE x[k][1] \in Marks <=> InTable(f, k)
    <3>1. k \in 1..n
      BY <1>5, <2>2
    <3>2. s[k][1] \in Marks <=> x[k][1] \in Marks
      BY <1>2, <3>1 DEF Marks
    <3> QED
      BY <1>1, <3>1, <3>2
  <2> QED
    BY <2>1, <2>2
<1>13. AllVouched(x, S)
  <2>1. ASSUME NEW c \in ToSet(x), c[1] = "cms" PROVE c \in ToSet(s)
    <3>1. c # Cell("code", c[2])
      BY <2>1, CellFields
    <3> QED
      BY <1>2, <3>1
  <2> QED
    BY <2>1 DEF PeInv, AllVouched, s
<1>14. g = PeFile(g.hdr, g.ptr, g.size, g.data)
  BY <1>3, <1>4
<1>15. \A k \in 1..Len(g.data) : g.data[k][1] \in Marks <=> InTable(g, k)
  BY <1>4, <1>6, <1>12 DEF InTable
<1>16. HasTable(g) => g.ptr >= Align /\ TableInFile(g) /\ g.data[g.ptr - Align + 1][1] = "cms"
  BY <1>4, <1>6, <1>9, <1>10 DEF TableInFile, PeLength, p, z
<1>17. PeShape(g)
  BY <1>2, <1>4, <1>7, <1>8, <1>14, <1>15, <1>16 DEF PeShape
<1> QED
  BY <1>4, <1>13, <1>17 DEF PeInv

-----------------------------------------------------------------------------
(* Files as their owner makes them.  Nothing in them is signed.               *)
LEMMA PeOwned ==
    ASSUME NEW f, OwnerFile(f), f.fmt = "pe" PROVE PeInv(f, {})
<1> DEFINE a == f.hdr
           s == f.data
<1>1. f = [fmt |-> "pe", hdr |-> a, ptr |-> 0, size |-> 0, data |-> s] /\ OfCells(f, {"code"})
  BY DEF OwnerFile
<1>2. Plain(s)
  BY <1>1 DEF OfCells, Plain, Marks
<1> HIDE DEF a, s
<1>3. f = PeFile(a, 0, 0, s)
  BY <1>1 DEF PeFile
<1> QED
  BY <1>2, <1>3, PePlain

LEMMA CabOwned ==
    ASSUME NEW f, OwnerFile(f), f.fmt = "cab" PROVE CabInv(f, {})
<1> DEFINE a == f.hdr
           b == f.cb
           c == f.coffCabStart
           s == f.data
           no == FALSE
<1>1. /\ f = [fmt |-> "cab", hdr |-> a, cb |-> b, coffFiles |-> CabHeader, coffCabStart |-> c,
              reserve |-> no, sigpos |-> 0, siglen |-> 0, data |-> s]
      /\ OfCells(f, {"code"})
  BY DEF OwnerFile
<1>2. IsSeq(s) /\ \A i \in 1..Len(s) : s[i][1] = "code"
  BY <1>1, SeqFacts DEF OfCells
<1> HIDE DEF a, b, c, s, no
<1>3. f = CabFile(a, b, CabHeader, c, no, 0, 0, s)
  BY <1>1 DEF CabFile
<1>4. /\ f.hdr = a /\ f.cb = b /\ f.coffFiles = CabHeader /\ f.coffCabStart = c
      /\ f.reserve = no /\ f.sigpos = 0 /\ f.siglen = 0 /\ f.data = s
  BY <1>3, CabFields
<1>5. CabShape(f)
  BY <1>3, <1>4 DEF CabShape
<1>6. ~f.reserve /\ f.reserve \in BOOLEAN
  BY <1>4 DEF no
<1>7. f.coffFiles = CabHeaderEnd(f)
  BY <1>4, <1>6 DEF CabHeaderEnd, CabHeader
<1> QED
  BY <1>2, <1>4, <1>5, <1>6, <1>7 DEF CabInv

LEMMA MsiOwned ==
    ASSUME NEW f, OwnerFile(f), f.fmt = "msi" PROVE MsiInv(f, {})
<1> DEFINE a == f.meta
           s == f.streams
<1>1. /\ f = [fmt |-> "msi", meta |-> a, streams |-> s, ex |-> <<>>, sig |-> <<>>]
      /\ IsSeq(s) /\ Len(s) > 1 /\ \A t \in ToSet(s) : IsSeq(t)
  BY DEF OwnerFile
<1> HIDE DEF a, s
<1>2. f = MsiFile(f.meta, f.streams, f.ex, f.sig) /\ f.streams = s /\ f.sig = <<>>
  BY <1>1 DEF MsiFile
<1> QED
  BY <1>1, <1>2 DEF MsiInv

LEMMA ScOwned ==
    ASSUME NEW f, OwnerFile(f), f.fmt = "script" PROVE ScInv(f, {})
<1> DEFINE a == f.enc
           s == f.data
<1>1. f = [fmt |-> "script", enc |-> a, data |-> s] /\ OfCells(f, {"code"} \cup LineEnds)
  BY DEF OwnerFile
<1>2. IsSeq(s) /\ \A i \in 1..Len(s) : s[i][1] \in {"code", "crlf", "lf"}
  BY <1>1, SeqFacts DEF OfCells, LineEnds
<1> HIDE DEF a, s
<1>3. f = ScFile(f.enc, f.data) /\ f.data = s
  BY <1>1 DEF ScFile
<1>4. Begin[1] = "begin"
  BY CellFields DEF Begin
<1>5. Blocks(s) /\ ScCms(s, {})
  BY <1>2, <1>4 DEF Blocks, ScCms
<1> QED
  BY <1>2, <1>3, <1>5 DEF ScInv, ScShape

LEMMA ZipOwned ==
    ASSUME NEW f, OwnerFile(f), f.fmt = "zip" PROVE ZipInv(f, {})
<1> DEFINE s == f.data
<1>1. f = [fmt |-> "zip", data |-> s, comment |-> <<>>]
  BY DEF OwnerFile
<1> HIDE DEF s
<1>2. f = ZipFile(f.data, f.comment) /\ f.comment = <<>>
  BY <1>1 DEF ZipFile
<1> QED
  BY <1>2 DEF ZipInv

LEMMA AppOwned ==
    ASSUME NEW f, OwnerFile(f),
           f.fmt \notin {"pe", "cab", "msi", "script", "zip", "msix", "nuget", "vsix", "clickonce"}
    PROVE  AppInv(f, {})
<1> DEFINE s == f.data
<1>1. f = [fmt |-> "appinstaller", data |-> s, companion |-> <<>>]
  BY DEF OwnerFile
<1> HIDE DEF s
<1>2. f = AppFile(f.data, f.companion) /\ f.companion = <<>>
  BY <1>1 DEF AppFile
<1> QED
  BY <1>2 DEF AppInv

LEMMA CoOwned ==
    ASSUME NEW f, OwnerFile(f), f.fmt = "clickonce" PROVE CoInv(f, {})
<1> DEFINE s == f.data
<1>1. f = [fmt |-> "clickonce", data |-> s] /\ OfCells(f, {"code", "close"})
  BY DEF OwnerFile
<1>2. IsSeq(s) /\ \A i \in 1..Len(s) : s[i][1] \in {"code", "close"}
  BY <1>1, SeqFacts DEF OfCells
<1> HIDE DEF s
<1>3. f = CoFile(f.data) /\ f.data = s
  BY <1>1 DEF CoFile
<1> QED
  BY <1>2, <1>3 DEF CoInv

LEMMA PartsOwned ==
    ASSUME NEW f, NEW names, OfParts(f, names)
    PROVE  /\ IsSeq(f.parts) /\ (\A p \in ToSet(f.parts) : IsPart(p) /\ p.name \notin names)
           /\ OneTypes(ToSet(f.parts))
<1> DEFINE s == f.parts
<1>1. /\ IsSeq(s) /\ (\A p \in ToSet(s) : p = Part(p.name, p.body) /\ p.name \notin names)
      /\ \A i, j \in DOMAIN s : i # j => s[i].name # s[j].name
  BY DEF OfParts
<1> HIDE DEF s
<1>2. ASSUME NEW p \in ToSet(s), NEW q \in ToSet(s), p.name = "types", q.name = "types" PROVE p = q
  <2>1. PICK i \in 1..Len(s) : s[i] = p
    BY <1>1, SeqFacts
  <2>2. PICK j \in 1..Len(s) : s[j] = q
    BY <1>1, SeqFacts
  <2> QED
    BY <1>1, <1>2, <2>1, <2>2, SeqFacts
<1>3. OneTypes(ToSet(s))
  BY <1>2 DEF OneTypes
<1> QED
  BY <1>1, <1>3 DEF s, IsPart

LEMMA MsixOwned ==
    ASSUME NEW f, OwnerFile(f), f.fmt = "msix" PROVE MsixInv(f, {})
<1> DEFINE a == f.ext
           b == f.gap
           s == f.parts
<1>1. f = [fmt |-> "msix", ext |-> a, gap |-> b, parts |-> s] /\ OfParts(f, {"signature"})
  BY DEF OwnerFile
<1>2. IsSeq(s) /\ \A p \in ToSet(s) : IsPart(p) /\ p.name # "signature"
  BY <1>1, PartsOwned
<1> HIDE DEF a, b, s
<1>3. f = MsixFile(f.ext, f.gap, f.parts) /\ f.parts = s
  BY <1>1, Zenon, MsixFields DEF MsixFile
<1> QED
  BY <1>2, <1>3 DEF MsixInv, MsixShape

LEMMA NuOwned ==
    ASSUME NEW f, OwnerFile(f), f.fmt = "nuget" PROVE NuInv(f, {})
<1> DEFINE s == f.parts
<1>1. f = [fmt |-> "nuget", parts |-> s] /\ OfParts(f, {"signature"})
  BY DEF OwnerFile
<1>2. IsSeq(s) /\ \A p \in ToSet(s) : IsPart(p) /\ p.name # "signature"
  BY <1>1, PartsOwned
<1> HIDE DEF s
<1>3. f = NuFile(f.parts) /\ f.parts = s
  BY <1>1 DEF NuFile
<1> QED
  BY <1>2, <1>3 DEF NuInv, NuShape

LEMMA VsOwned ==
    ASSUME NEW f, OwnerFile(f), f.fmt = "vsix" PROVE VsInv(f, {})
<1> DEFINE s == f.parts
<1>1. f = [fmt |-> "vsix", parts |-> s] /\ OfParts(f, SignatureParts)
  BY DEF OwnerFile
<1>2. /\ IsSeq(s) /\ (\A p \in ToSet(s) : IsPart(p) /\ p.name \notin SignatureParts)
      /\ OneTypes(ToSet(s))
  BY <1>1, PartsOwned
<1> HIDE DEF s
<1>3. f = VsFile(f.parts) /\ f.parts = s
  BY <1>1 DEF VsFile
<1> QED
  BY <1>2, <1>3 DEF VsInv, VsShape, SignatureParts

-----------------------------------------------------------------------------
(* What the formats have in common.                                           *)
LEMMA SimpleMore ==
    ASSUME NEW f, NEW S, NEW T, S \subseteq T
    PROVE  /\ AppInv(f, S) => AppInv(f, T)
           /\ ZipInv(f, S) => ZipInv(f, T)
           /\ MsiInv(f, S) => MsiInv(f, T)
           /\ CoInv(f, S) => CoInv(f, T)
           /\ CabInv(f, S) => CabInv(f, T)
<1>1. AppInv(f, S) => AppInv(f, T)
  BY DEF AppInv
<1>2. ZipInv(f, S) => ZipInv(f, T)
  BY DEF ZipInv
<1>3. MsiInv(f, S) => MsiInv(f, T)
  BY DEF MsiInv
<1>4. CoInv(f, S) => CoInv(f, T)
  BY DEF CoInv
<1>5. CabInv(f, S) => CabInv(f, T)
  BY DEF CabInv
<1> QED
  BY <1>1, <1>2, <1>3, <1>4, <1>5

LEMMA SimpleEdited ==
    ASSUME NEW f, NEW S, NEW x
    PROVE  /\ AppInv(f, S) => AppInv([f EXCEPT !.data = x], S)
           /\ ZipInv(f, S) => ZipInv([f EXCEPT !.data = x], S)
<1>1. ASSUME AppInv(f, S) PROVE AppInv([f EXCEPT !.data = x], S)
  <2> DEFINE g == [f EXCEPT !.data = x]
             c == f.companion
  <2>1. g = AppFile(x, c)
    BY <1>1, AppUpdate DEF AppInv
  <2> HIDE DEF g, c
  <2>2. g.data = x /\ g.companion = c
    BY <2>1, AppFields
  <2>3. AppInv(g, S)
    BY <1>1, <2>1, <2>2 DEF AppInv, c
  <2> QED
    BY <2>3 DEF g
<1>2. ASSUME ZipInv(f, S) PROVE ZipInv([f EXCEPT !.data = x], S)
  <2> DEFINE g == [f EXCEPT !.data = x]
             c == f.comment
  <2>1. g = ZipFile(x, c)
    BY <1>2, ZipUpdate DEF ZipInv
  <2> HIDE DEF g, c
  <2>2. g.data = x /\ g.comment = c
    BY <2>1, ZipFields
  <2>3. ZipInv(g, S)
    BY <1>2, <2>1, <2>2 DEF ZipInv, c
  <2> QED
    BY <2>3 DEF g
<1> QED
  BY <1>1, <1>2

(* The invariant of a file, with the contents that were signed in S.          *)
FileInv(f, S) ==
    CASE f.fmt = "pe" -> PeInv(f, S)
      [] f.fmt = "cab" -> CabInv(f, S)
      [] f.fmt = "msi" -> MsiInv(f, S)
      [] f.fmt = "script" -> ScInv(f, S)
      [] f.fmt = "zip" -> ZipInv(f, S)
      [] f.fmt = "msix" -> MsixInv(f, S)
      [] f.fmt = "nuget" -> NuInv(f, S)
      [] f.fmt = "vsix" -> VsInv(f, S)
      [] f.fmt = "clickonce" -> CoInv(f, S)
      [] OTHER -> AppInv(f, S)

(* The shape of a file is that of its format.                                 *)
LEMMA PeFormat == \A f, S : PeInv(f, S) => f.fmt = "pe"
<1> SUFFICES ASSUME NEW f, NEW S, PeInv(f, S) PROVE f.fmt = "pe"
  OBVIOUS
<1> DEFINE a == f.hdr
           b == f.ptr
           c == f.size
           d == f.data
<1>1. f = PeFile(a, b, c, d)
  BY DEF PeInv, PeShape
<1> HIDE DEF a, b, c, d
<1> QED
  BY <1>1, PeFields
LEMMA CabFormat == \A f, S : CabInv(f, S) => f.fmt = "cab"
<1> SUFFICES ASSUME NEW f, NEW S, CabInv(f, S) PROVE f.fmt = "cab"
  OBVIOUS
<1> DEFINE a == f.hdr
           b == f.cb
           c == f.coffFiles
           d == f.coffCabStart
           e == f.reserve
           h == f.sigpos
           p == f.siglen
           q == f.data
<1>1. f = CabFile(a, b, c, d, e, h, p, q)
  BY DEF CabInv, CabShape
<1> HIDE DEF a, b, c, d, e, h, p, q
<1> QED
  BY <1>1, CabFields
LEMMA MsiFormat == \A f, S : MsiInv(f, S) => f.fmt = "msi"
<1> SUFFICES ASSUME NEW f, NEW S, MsiInv(f, S) PROVE f.fmt = "msi"
  OBVIOUS
<1> DEFINE a == f.meta
           b == f.streams
           c == f.ex
           d == f.sig
<1>1. f = MsiFile(a, b, c, d)
  BY DEF MsiInv
<1> HIDE DEF a, b, c, d
<1> QED
  BY <1>1, MsiFields
LEMMA ScFormat == \A f, S : ScInv(f, S) => f.fmt = "script"
<1> SUFFICES ASSUME NEW f, NEW S, ScInv(f, S) PROVE f.fmt = "script"
  OBVIOUS
<1> DEFINE a == f.enc
           b == f.data
<1>1. f = ScFile(a, b)
  BY DEF ScInv, ScShape
<1> HIDE DEF a, b
<1> QED
  BY <1>1, ScFields
LEMMA ZipFormat == \A f, S : ZipInv(f, S) => f.fmt = "zip"
<1> SUFFICES ASSUME NEW f, NEW S, ZipInv(f, S) PROVE f.fmt = "zip"
  OBVIOUS
<1> DEFINE a == f.data
           b == f.comment
<1>1. f = ZipFile(a, b)
  BY DEF ZipInv
<1> HIDE DEF a, b
<1> QED
  BY <1>1, ZipFields
LEMMA MsixFormat == \A f, S : MsixInv(f, S) => f.fmt = "msix"
<1> SUFFICES ASSUME NEW f, NEW S, MsixInv(f, S) PROVE f.fmt = "msix"
  OBVIOUS
<1> DEFINE a == f.ext
           b == f.gap
           c == f.parts
<1>1. f = MsixFile(a, b, c)
  BY DEF MsixInv, MsixShape
<1> HIDE DEF a, b, c
<1> QED
  BY <1>1, MsixFields
LEMMA NuFormat == \A f, S : NuInv(f, S) => f.fmt = "nuget"
BY NuFields, Zenon DEF NuInv, NuShape
LEMMA VsFormat == \A f, S : VsInv(f, S) => f.fmt = "vsix"
BY VsFields, Zenon DEF VsInv, VsShape
LEMMA CoFormat == \A f, S : CoInv(f, S) => f.fmt = "clickonce"
BY CoFields, Zenon DEF CoInv
LEMMA AppFormat == \A f, S : AppInv(f, S) => f.fmt = "appinstaller"
<1> SUFFICES ASSUME NEW f, NEW S, AppInv(f, S) PROVE f.fmt = "appinstaller"
  OBVIOUS
<1> DEFINE a == f.data
           b == f.companion
<1>1. f = AppFile(a, b)
  BY DEF AppInv
<1> HIDE DEF a, b
<1> QED
  BY <1>1, AppFields

LEMMA FormatOf ==
    ASSUME NEW f, NEW S
    PROVE  /\ PeInv(f, S) => FileInv(f, S) /\ f.fmt = "pe"
           /\ CabInv(f, S) => FileInv(f, S) /\ f.fmt = "cab"
           /\ MsiInv(f, S) => FileInv(f, S) /\ f.fmt = "msi"
           /\ ScInv(f, S) => FileInv(f, S) /\ f.fmt = "script"
           /\ ZipInv(f, S) => FileInv(f, S) /\ f.fmt = "zip"
           /\ MsixInv(f, S) => FileInv(f, S) /\ f.fmt = "msix"
           /\ NuInv(f, S) => FileInv(f, S) /\ f.fmt = "nuget"
           /\ VsInv(f, S) => FileInv(f, S) /\ f.fmt = "vsix"
           /\ CoInv(f, S) => FileInv(f, S) /\ f.fmt = "clickonce"
           /\ AppInv(f, S) => FileInv(f, S) /\ f.fmt = "appinstaller"
BY PeFormat, CabFormat, MsiFormat, ScFormat, ZipFormat, MsixFormat, NuFormat, VsFormat, CoFormat,
   AppFormat DEF FileInv

Formats == {"pe", "cab", "msi", "script", "zip", "msix", "nuget", "vsix", "clickonce", "appinstaller"}

LEMMA FormatIs ==
    ASSUME NEW f, NEW S, FileInv(f, S)
    PROVE  f.fmt \in Formats
BY AppFormat DEF FileInv, Formats

LEMMA FileOwned ==
    ASSUME NEW f \in Files
    PROVE  FileInv(f, {})
<1>1. OwnerFile(f)
  BY FilesAssumption
<1> QED
  BY <1>1, PeOwned, CabOwned, MsiOwned, ScOwned, ZipOwned, MsixOwned, NuOwned, VsOwned, CoOwned,
     AppOwned DEF FileInv

LEMMA FileMore ==
    ASSUME NEW f, NEW S, NEW T, S \subseteq T, f.fmt = "nuget" => \A x \in T : Canonical(x),
           FileInv(f, S)
    PROVE  FileInv(f, T)
BY SimpleMore, PeMore, ScMore, MsixMore, NuMore, VsMore DEF FileInv

(* Signing: the file keeps the invariant with its content among those that    *)
(* were signed, its format, and its content.                                  *)
LEMMA FileSigned ==
    ASSUME NEW f, NEW S, FileInv(f, S), NEW req, NEW now, NEW g \in PortableSign(f, req, now)
    PROVE  /\ FileInv(g, S \cup {Content(f)}) /\ g.fmt = f.fmt
           /\ (f.fmt = "pe" /\ HasTable(f) => AfterTable(f) = <<>>) => Content(g) = Content(f)
<1> DEFINE T == S \cup {Content(f)}
<1> HIDE DEF T
<1>0. f.fmt \in Formats
  BY FormatIs
<1>1. CASE f.fmt = "pe"
  <2>1. PeInv(f, S) /\ g \in sign_pe(f, req) /\ PeContent(f) = Content(f)
    BY <1>1 DEF FileInv, PortableSign, Content
  <2>2. PeInv(g, T) /\ ((HasTable(f) => AfterTable(f) = <<>>) => PeContent(g) = PeContent(f))
    BY <2>1, PeSigned DEF T
  <2>3. FileInv(g, T) /\ g.fmt = "pe"
    BY <2>2, FormatOf
  <2> QED
    BY <1>1, <2>1, <2>2, <2>3 DEF T, Content
<1>2. CASE f.fmt = "cab"
  <2>1. CabInv(f, S) /\ g \in sign_cab(f, req) /\ CabContent(f) = Content(f)
    BY <1>2 DEF FileInv, PortableSign, Content
  <2>2. CabInv(g, T) /\ CabContent(g) = CabContent(f)
    BY <2>1, CabSigned DEF T
  <2>3. FileInv(g, T) /\ g.fmt = "cab"
    BY <2>2, FormatOf
  <2> QED
    BY <1>2, <2>1, <2>2, <2>3 DEF T, Content
<1>3. CASE f.fmt = "msi"
  <2>1. MsiInv(f, S) /\ g \in sign_msi(f, req) /\ MsiContent(f) = Content(f)
    BY <1>3 DEF FileInv, PortableSign, Content
  <2>2. MsiContent(f) = <<f.meta, f.streams>>
    BY DEF MsiContent
  <2>3. MsiInv(g, T) /\ MsiContent(g) = MsiContent(f)
    BY <2>1, <2>2, MsiSigned DEF T
  <2>4. FileInv(g, T) /\ g.fmt = "msi"
    BY <2>3, FormatOf
  <2> QED
    BY <1>3, <2>1, <2>3, <2>4 DEF T, Content
<1>4. CASE f.fmt = "script"
  <2>1. ScInv(f, S) /\ g \in sign_script(f, req) /\ ScriptContent(f) = Content(f)
    BY <1>4 DEF FileInv, PortableSign, Content
  <2>2. ScInv(g, T) /\ ScriptContent(g) = ScriptContent(f)
    BY <2>1, ScSigned DEF T
  <2>3. FileInv(g, T) /\ g.fmt = "script"
    BY <2>2, FormatOf
  <2> QED
    BY <1>4, <2>1, <2>2, <2>3 DEF T, Content
<1>5. CASE f.fmt = "zip"
  <2>1. ZipInv(f, S) /\ g \in sign_zip(f, req) /\ Content(f) = f.data /\ \A h : ZipContent(h) = h.data
    BY <1>5 DEF FileInv, PortableSign, Content, ZipContent
  <2>2. ZipInv(g, T) /\ g.data = f.data
    BY <2>1, ZipSigned DEF T
  <2>3. FileInv(g, T) /\ g.fmt = "zip"
    BY <2>2, FormatOf
  <2> QED
    BY <1>5, <2>1, <2>2, <2>3 DEF T, Content
<1>6. CASE f.fmt = "msix"
  <2>1. MsixInv(f, S) /\ g \in sign_msix(f, req) /\ MsixContent(f) = Content(f)
    BY <1>6 DEF FileInv, PortableSign, Content
  <2>2. MsixInv(g, T) /\ MsixContent(g) = MsixContent(f)
    BY <2>1, MsixSigned DEF T
  <2>3. FileInv(g, T) /\ g.fmt = "msix"
    BY <2>2, FormatOf
  <2> QED
    BY <1>6, <2>1, <2>2, <2>3 DEF T, Content
<1>7. CASE f.fmt = "nuget"
  <2>1. NuInv(f, S) /\ g \in sign_nuget(f, req, now) /\ NuGetContent(f) = Content(f)
    BY <1>7 DEF FileInv, PortableSign, Content
  <2>2. NuInv(g, T) /\ NuGetContent(g) = NuGetContent(f)
    BY <2>1, NuSigned DEF T
  <2>3. FileInv(g, T) /\ g.fmt = "nuget"
    BY <2>2, FormatOf
  <2> QED
    BY <1>7, <2>1, <2>2, <2>3 DEF T, Content
<1>8. CASE f.fmt = "vsix"
  <2>1. VsInv(f, S) /\ g \in sign_vsix(f, req, now) /\ VsixContent(f) = Content(f)
    BY <1>8 DEF FileInv, PortableSign, Content
  <2>2. VsInv(g, T) /\ VsixContent(g) = VsixContent(f)
    BY <2>1, VsSigned DEF T
  <2>3. FileInv(g, T) /\ g.fmt = "vsix"
    BY <2>2, FormatOf
  <2> QED
    BY <1>8, <2>1, <2>2, <2>3 DEF T, Content
<1>9. CASE f.fmt = "clickonce"
  <2>1. CoInv(f, S) /\ g \in sign_clickonce_manifest(f, req)
        /\ unsigned_clickonce_manifest(f.data) = Content(f)
    BY <1>9 DEF FileInv, PortableSign, Content
  <2>2. CoInv(g, T) /\ unsigned_clickonce_manifest(g.data) = unsigned_clickonce_manifest(f.data)
    BY <2>1, CoSigned DEF T
  <2>3. FileInv(g, T) /\ g.fmt = "clickonce"
    BY <2>2, FormatOf
  <2> QED
    BY <1>9, <2>1, <2>2, <2>3 DEF T, Content
<1>10. CASE f.fmt = "appinstaller"
  <2>1. AppInv(f, S) /\ g \in sign_appinstaller(f, req) /\ Content(f) = f.data
    BY <1>10 DEF FileInv, PortableSign, Content
  <2>2. AppInv(g, T) /\ g.data = f.data
    BY <2>1, AppSigned DEF T
  <2>3. FileInv(g, T) /\ g.fmt = "appinstaller"
    BY <2>2, FormatOf
  <2> QED
    BY <1>10, <2>1, <2>2, <2>3 DEF T, Content
<1> QED
  BY <1>0, <1>1, <1>2, <1>3, <1>4, <1>5, <1>6, <1>7, <1>8, <1>9, <1>10 DEF Formats

(* The owner's edits.                                                         *)
LEMMA FileEdited ==
    ASSUME NEW f, NEW S, FileInv(f, S), NEW g \in Edited(f)
    PROVE  FileInv(g, S) /\ g.fmt = f.fmt
<1>0. f.fmt \in Formats
  BY FormatIs
<1>1. CASE f.fmt = "msi"
  <2>1. MsiInv(f, S)
    BY <1>1 DEF FileInv
  <2>2. PICK x \in EditedStreams(f.streams) : g = [f EXCEPT !.streams = x]
    BY <1>1, Zenon DEF Edited
  <2>3. MsiInv(g, S)
    BY <2>1, <2>2, MsiEdited
  <2> QED
    BY <1>1, <2>3, FormatOf
<1>4. CASE f.fmt = "msix"
  <2>1. PICK x \in EditedParts(f.parts) \cup EditedTypes(f.parts) : g = [f EXCEPT !.parts = x]
    <3>1. Edited(f) = {[f EXCEPT !.parts = s] : s \in EditedParts(f.parts) \cup EditedTypes(f.parts)}
      BY <1>4 DEF Edited
    <3> QED
      BY <3>1, Zenon
  <2>2. MsixInv(f, S)
    BY <1>4 DEF FileInv
  <2> QED
    BY <1>4, <2>1, <2>2, MsixEdited, FormatOf
<1>2. CASE f.fmt \in {"nuget", "vsix"}
  <2>1. PICK x \in EditedParts(f.parts) : g = [f EXCEPT !.parts = x]
    <3>1. Edited(f) = {[f EXCEPT !.parts = s] : s \in EditedParts(f.parts)}
      BY <1>2 DEF Edited
    <3> QED
      BY <3>1, Zenon
  <2>3. CASE f.fmt = "nuget"
    <3>1. NuInv(f, S)
      BY <2>3 DEF FileInv
    <3> QED
      BY <2>1, <2>3, <3>1, NuEdited, FormatOf
  <2>4. CASE f.fmt = "vsix"
    <3>1. VsInv(f, S)
      BY <2>4 DEF FileInv
    <3> QED
      BY <2>1, <2>4, <3>1, VsEdited, FormatOf
  <2> QED
    BY <1>2, <2>3, <2>4
<1>3. CASE f.fmt \notin {"msi", "msix", "nuget", "vsix"}
  <2>1. PICK x \in EditedData(f.data) : g = [f EXCEPT !.data = x]
    <3>1. Edited(f) = {[f EXCEPT !.data = s] : s \in EditedData(f.data)}
      BY <1>3 DEF Edited
    <3> QED
      BY <3>1, Zenon
  <2>2. CASE f.fmt = "pe"
    <3>1. PeInv(f, S) /\ IsSeq(f.data)
      BY <2>2 DEF FileInv, PeInv, PeShape, Plain
    <3>2. EditOf(x, f.data)
      BY <2>1, <3>1, DataEdited
    <3> QED
      BY <2>1, <2>2, <3>1, <3>2, PeEdited, FormatOf
  <2>3. CASE f.fmt = "cab"
    <3>1. CabInv(f, S)
      BY <2>3 DEF FileInv
    <3> QED
      BY <2>1, <2>3, <3>1, CabEdited, FormatOf
  <2>4. CASE f.fmt = "script"
    <3>1. ScInv(f, S)
      BY <2>4 DEF FileInv
    <3> QED
      BY <2>1, <2>4, <3>1, ScEdited, FormatOf
  <2>5. CASE f.fmt = "zip"
    <3>1. ZipInv(f, S)
      BY <2>5 DEF FileInv
    <3> QED
      BY <2>1, <2>5, <3>1, SimpleEdited, FormatOf
  <2>6. CASE f.fmt = "clickonce"
    <3>1. CoInv(f, S)
      BY <2>6 DEF FileInv
    <3> QED
      BY <2>1, <2>6, <3>1, CoEdited, FormatOf
  <2>7. CASE f.fmt = "appinstaller"
    <3>1. AppInv(f, S)
      BY <2>7 DEF FileInv
    <3> QED
      BY <2>1, <2>7, <3>1, SimpleEdited, FormatOf
  <2> QED
    BY <1>0, <1>3, <2>2, <2>3, <2>4, <2>5, <2>6, <2>7 DEF Formats
<1> QED
  BY <1>0, <1>1, <1>2, <1>3, <1>4 DEF Formats

(* A file whose signature verifies has a content that was signed.             *)
LEMMA FileVerified ==
    ASSUME NEW f, NEW S, FileInv(f, S), Verify(f)
    PROVE  Content(f) \in S
<1>0. f.fmt \in Formats
  BY FormatIs
<1>1. CASE f.fmt = "pe"
  <2>1. PeInv(f, S) /\ pe_digests_match(f) /\ pe_pkcs7(f) # <<>> /\ PeContent(f) = Content(f)
    BY <1>1 DEF FileInv, Verify, Content, verify_pe
  <2> QED
    BY <2>1, PeMatched
<1>2. CASE f.fmt = "cab"
  <2> DEFINE t == cab_signature_pkcs7(f)
             d == IndirectDigest(t[1])
  <2>1. CabInv(f, S) /\ t # <<>> /\ CabContent(f) = Content(f)
        /\ \E e \in compute_cab_digest(f, d[1]) : verify_indirect(t[1], e)
    BY <1>2 DEF FileInv, Verify, Content, verify_cab
  <2>2. d \in compute_cab_digest(f, d[1])
    BY <2>1 DEF verify_indirect
  <2> QED
    BY <2>1, <2>2, CabMatched
<1>3. CASE f.fmt = "msi"
  <2> DEFINE d == IndirectDigest(f.sig[1])
  <2>1. MsiInv(f, S) /\ f.sig # <<>> /\ MsiContent(f) = Content(f)
        /\ verify_indirect(f.sig[1], compute_msi_fingerprint(f, d[1]))
    BY <1>3 DEF FileInv, Verify, Content, verify_msi
  <2>2. d = compute_msi_fingerprint(f, d[1])
    BY <2>1 DEF verify_indirect
  <2> QED
    BY <2>1, <2>2, MsiMatched
<1>4. CASE f.fmt = "script"
  <2> DEFINE t == extract_pkcs7_from_script(f)
             d == IndirectDigest(t[1])
  <2>1. ScInv(f, S) /\ t # <<>> /\ ScriptContent(f) = Content(f)
        /\ \E u \in strip_signature_region(UnitsToVerify(f)) : verify_indirect(t[1], script_digest(u, d[1]))
    BY <1>4 DEF FileInv, Verify, Content, verify_script
  <2>2. PICK u \in strip_signature_region(UnitsToVerify(f)) : d = script_digest(u, d[1])
    BY <2>1 DEF verify_indirect
  <2> QED
    BY <2>1, <2>2, ScMatched
<1>5. CASE f.fmt = "zip"
  <2>1. ZipInv(f, S) /\ f.comment # <<>> /\ f.comment[1].digest = zip_authenticode_digest(f)
        /\ Content(f) = f.data
    BY <1>5 DEF FileInv, Verify, Content, verify_zip, ZipContent
  <2> QED
    BY <2>1, ZipVerified
<1>6. CASE f.fmt = "msix"
  <2> DEFINE d == IndirectDigest(MsixSignature(f)[1])
  <2>1. MsixInv(f, S) /\ MsixSignature(f) # <<>> /\ MsixContent(f) = Content(f)
        /\ \E e \in msix_authenticode_digest_blob(f) : verify_indirect(MsixSignature(f)[1], e)
    BY <1>6 DEF FileInv, Verify, Content, verify_msix
  <2>2. d \in flat_digest_blob(f)
    BY <2>1 DEF verify_indirect, msix_authenticode_digest_blob
  <2>3. PICK kind : d = msix_pieces(f, kind)
    BY <2>2 DEF flat_digest_blob
  <2> QED
    BY <2>1, <2>3, MsixMatched
<1>7. CASE f.fmt = "nuget"
  <2>1. NuInv(f, S) /\ verify_nuget(f) /\ NuGetContent(f) = Content(f)
    BY <1>7 DEF FileInv, Verify, Content
  <2> QED
    BY <2>1, NuVerified
<1>8. CASE f.fmt = "vsix"
  <2>1. VsInv(f, S) /\ verify_vsix(f) /\ VsixContent(f) = Content(f)
    BY <1>8 DEF FileInv, Verify, Content
  <2> QED
    BY <2>1, VsVerified
<1>9. CASE f.fmt = "clickonce"
  <2>1. CoInv(f, S) /\ verify_clickonce(f) /\ unsigned_clickonce_manifest(f.data) = Content(f)
    BY <1>9 DEF FileInv, Verify, Content
  <2> QED
    BY <2>1, CoVerified
<1>10. CASE f.fmt = "appinstaller"
  <2>1. AppInv(f, S) /\ verify_appinstaller(f) /\ f.data = Content(f)
    BY <1>10 DEF FileInv, Verify, Content
  <2> QED
    BY <2>1, AppVerified
<1> QED
  BY <1>0, <1>1, <1>2, <1>3, <1>4, <1>5, <1>6, <1>7, <1>8, <1>9, <1>10 DEF Formats

-----------------------------------------------------------------------------
(* What the commands of a split signing left beside the file.  A value says   *)
(* of which content it is: the one the digest was taken of.                   *)
Told(fmt, d) ==
    CASE fmt = "nuget" -> NuTold(d)
      [] fmt = "vsix" -> VsTold(d)
      [] fmt = "clickonce" -> CoTold(d)
      [] OTHER -> DataOfAttrs(d)

HashedInv(fmt, s) ==
    \E x : /\ s.contents = {x} /\ Told(fmt, s.digest) = x
           /\ fmt = "nuget" => Canonical(x)

SignedInv(fmt, s, S) ==
    \E x \in S : s.contents = {x} /\ Told(fmt, s.value[2]) = x

DocumentInv(fmt, s, S) ==
    /\ fmt \in {"pe", "nuget", "vsix"}
    /\ fmt = "pe" => PeVouched(s.doc, S)
    /\ fmt = "nuget" => NuDocument(s.doc, S)
    /\ fmt = "vsix" => VsTold(s.doc.value[2]) \in S

SessionInv(fmt, s, S) ==
    /\ s.st \in {"none", "hashed", "signed", "document"}
    /\ s.st = "hashed" => fmt \in SplitFormats /\ HashedInv(fmt, s)
    /\ s.st = "signed" => fmt \in SplitFormats /\ SignedInv(fmt, s, S)
    /\ s.st = "document" => DocumentInv(fmt, s, S)

LEMMA SessionMore ==
    ASSUME NEW fmt, NEW s, NEW S, SessionInv(fmt, s, S), NEW T, S \subseteq T
    PROVE  SessionInv(fmt, s, T)
<1>1. fmt = "pe" /\ PeVouched(s.doc, S) => PeVouched(s.doc, T)
  BY DEF PeVouched
<1>2. NuDocument(s.doc, S) => NuDocument(s.doc, T)
  BY DEF NuDocument
<1> QED
  BY <1>1, <1>2 DEF SessionInv, SignedInv, DocumentInv

(* Prehash: the digest is of the content of the file.                         *)
LEMMA PrehashTells ==
    ASSUME NEW f, NEW S, FileInv(f, S), f.fmt \in SplitFormats, NEW alg, NEW signer, NEW now,
           NEW d \in SplitPrehash(f, alg, signer, now)
    PROVE  Told(f.fmt, d) = Content(f) /\ (f.fmt = "nuget" => Canonical(Content(f)))
<1>1. CASE f.fmt = "nuget"
  <2> DEFINE x == canonical_unsigned_package(f.parts)
             z == signature_content(x, alg)
             a == pkcs7_signed_attrs("NuGetAuthorWithoutSigningTime", alg, z, signer, now)
  <2>1. d = signed_attrs_digest(alg, a)
    BY <1>1 DEF SplitPrehash, SplitAttrs, SplitProfile, SplitContent
  <2>2. Canonical(x) /\ Content(f) = x
    BY <1>1, CanonicalPackage DEF FileInv, NuInv, NuShape, Content, NuGetContent
  <2>3. z[3][2] = x
    BY DEF signature_content, Hash
  <2> HIDE DEF x, z
  <2>4. a.messageDigest = Hash(alg, z)
    BY DEF pkcs7_signed_attrs
  <2> HIDE DEF a
  <2>5. d[2] = a
    BY <2>1 DEF signed_attrs_digest, Hash
  <2>6. NuTold(d) = x
    BY <2>3, <2>4, <2>5 DEF NuTold, Hash
  <2> QED
    BY <1>1, <2>2, <2>6 DEF Told
<1>2. CASE f.fmt = "vsix"
  <2>1. PICK t \in signature_template(f.parts, alg, package_signature_time_value) :
            d = Hash(alg, signed_info(t))
    BY <1>2 DEF SplitPrehash
  <2>2. VsShape(f) /\ Content(f) = VsixContent(f)
    BY <1>2 DEF FileInv, VsInv, Content
  <2>3. VsTold(d) = VsixContent(f)
    BY <2>1, <2>2, TemplateTells
  <2> QED
    BY <1>2, <2>2, <2>3 DEF Told
<1>3. CASE f.fmt = "clickonce"
  <2> DEFINE u == unsigned_clickonce_manifest(f.data)
  <2>1. d = Hash(alg, clickonce_signed_info(u, alg))
    BY <1>3 DEF SplitPrehash
  <2>2. Content(f) = u
    BY <1>3 DEF Content
  <2> HIDE DEF u
  <2>3. CoTold(d) = u
    BY <2>1 DEF CoTold, clickonce_signed_info, Hash
  <2> QED
    BY <1>3, <2>2, <2>3 DEF Told
<1>4. CASE f.fmt = "appinstaller"
  <2> DEFINE y == <<"data", f.data>>
             a == pkcs7_signed_attrs("Basic", alg, y, signer, now)
  <2>1. d = signed_attrs_digest(alg, a)
    BY <1>4 DEF SplitPrehash, SplitAttrs, SplitProfile, SplitContent
  <2>2. Content(f) = f.data
    BY <1>4 DEF Content
  <2>3. y[2] = f.data
    OBVIOUS
  <2> HIDE DEF y
  <2>4. a.messageDigest = Hash(alg, y)
    BY DEF pkcs7_signed_attrs
  <2> HIDE DEF a
  <2>5. d[2] = a
    BY <2>1 DEF signed_attrs_digest, Hash
  <2>6. DataOfAttrs(d) = f.data
    BY <2>3, <2>4, <2>5 DEF DataOfAttrs, Hash
  <2> QED
    BY <1>4, <2>2, <2>6 DEF Told
<1> QED
  BY <1>1, <1>2, <1>3, <1>4 DEF SplitFormats

LEMMA AroundValue ==
    ASSUME NEW x, NEW attached, NEW alg, NEW signer, NEW chain, NEW a, NEW value,
           NEW c \in create_pkcs7_with_signature(x, attached, alg, signer, chain, a, value)
    PROVE  /\ IsCms(c) /\ c.content = IF attached THEN <<x>> ELSE <<>>
           /\ c.alg = alg /\ c.attrs = a /\ c.sigval = value
<1>0. c \in create_pkcs7_with_signature(x, attached, alg, signer, chain, a, value)
  OBVIOUS
<1>1. /\ IsCms(c) /\ c.content = (IF attached THEN <<x>> ELSE <<>>)
      /\ c.alg = alg /\ c.sid = signer /\ c.attrs = a
      /\ c.sigval = value
      /\ c.certs = ToSet(<<signer>> \o chain)
  BY <1>0, Assembled
<1> QED
  BY <1>1

(* The document around a value holds that value, and a NuGet one names the    *)
(* content of the package it was put together of.                             *)
LEMMA DocumentTells ==
    ASSUME NEW f, NEW alg, NEW signer, NEW value, NEW answer, NEW now,
           NEW d \in SplitDocument(f, alg, signer, value, answer, now)
    PROVE  /\ f.fmt = "vsix" => d.value = value
           /\ f.fmt # "vsix" => d.sigval = value
           /\ f.fmt = "nuget" => \A S : NuTold(value[2]) \in S => NuDocument(d, S)
<1>1. CASE f.fmt = "vsix"
  <2>1. PICK t : d = signature_xml(t, value, signer)
    BY <1>1 DEF SplitDocument
  <2>2. d.value = value
    BY <2>1 DEF signature_xml
  <2> QED
    BY <1>1, <2>2
<1>2. CASE f.fmt # "vsix"
  <2> DEFINE x == SplitContent(f, alg)
             a == SplitAttrs(f, alg, signer, now)
             att == f.fmt = "nuget"
             oid == IF f.fmt = "nuget" THEN "cms" ELSE "ms"
             none == <<>>
             U(c) == IF answer = "none" THEN {c} ELSE timestamp_pkcs7(c, oid, answer, "sha256")
  <2>1. SplitDocument(f, alg, signer, value, answer, now) =
            UNION {U(c) : c \in create_pkcs7_with_signature(x, att, alg, signer, none, a, value)}
    BY <1>2 DEF SplitDocument
  <2>2. a.messageDigest = Hash(alg, x)
    <3> HIDE DEF x
    <3> QED
      BY DEF SplitAttrs, pkcs7_signed_attrs, x
  <2> HIDE DEF x, a, att, oid, none, U
  <2>3. PICK c \in create_pkcs7_with_signature(x, att, alg, signer, none, a, value) : d \in U(c)
    BY <2>1
  <2>4. /\ IsCms(c) /\ c.content = IF att THEN <<x>> ELSE <<>>
        /\ c.alg = alg /\ c.attrs = a /\ c.sigval = value
    BY <2>3, AroundValue
  <2>5. SameDocument(d, c)
    <3>1. CASE answer = "none"
      BY <2>3, <3>1 DEF U, SameDocument
    <3>2. CASE answer # "none"
      BY <2>3, <2>4, <3>2, Stamped DEF U
    <3> QED
      BY <3>1, <3>2
  <2>6. d.sigval = value
    BY <2>4, <2>5 DEF SameDocument
  <2>7. ASSUME f.fmt = "nuget", NEW S, NuTold(value[2]) \in S
        PROVE  NuDocument(d, S)
    <3>1. c.content = <<x>>
      BY <2>4, <2>7 DEF att
    <3>2. c.content[1] = x
      BY <3>1
    <3>3. NuDocument(c, S)
      BY <2>2, <2>4, <2>7, <3>2 DEF NuDocument
    <3> QED
      BY <2>5, <3>3, NuStamped
  <2> QED
    BY <1>2, <2>6, <2>7
<1> QED
  BY <1>1, <1>2

(* A document is put into a package.                                          *)
LEMMA FileEmbedded ==
    ASSUME NEW f, NEW S, FileInv(f, S), f.fmt \in {"nuget", "vsix"}, NEW c, NEW o,
           f.fmt = "nuget" => NuDocument(c, S), f.fmt = "vsix" => VsTold(c.value[2]) \in S,
           NEW g \in SplitEmbed(f, c, o)
    PROVE  FileInv(g, S) /\ g.fmt = f.fmt /\ Content(g) = Content(f)
<1>1. CASE f.fmt = "nuget"
  <2>1. PICK e \in nuget_embed(f.parts, c, o) : g = [f EXCEPT !.parts = e]
    <3>1. SplitEmbed(f, c, o) = {[f EXCEPT !.parts = e] : e \in nuget_embed(f.parts, c, o)}
      BY <1>1 DEF SplitEmbed
    <3> QED
      BY <3>1, Zenon
  <2>2. NuInv(f, S) /\ NuDocument(c, S)
    BY <1>1 DEF FileInv
  <2>3. IsSeq(f.parts) /\ \A x \in S : Canonical(x)
    BY <2>2 DEF NuInv, NuShape
  <2> DEFINE s == f.parts
  <2>4. IsSeq(s) /\ Without(s, {"signature"}) = Without(f.parts, {"signature"})
    BY <2>3
  <2>5. e \in nuget_embed(s, c, o)
    BY <2>1
  <2> HIDE DEF s
  <2>6. NuInv([f EXCEPT !.parts = e], S) /\ NuGetContent([f EXCEPT !.parts = e]) = NuGetContent(f)
    BY <2>2, <2>3, <2>4, <2>5, NuEmbedded
  <2>7. NuInv(g, S) /\ NuGetContent(g) = NuGetContent(f)
    BY <2>1, <2>6
  <2>8. FileInv(g, S) /\ g.fmt = "nuget"
    BY <2>7, FormatOf
  <2> QED
    BY <1>1, <2>7, <2>8 DEF Content
<1>2. CASE f.fmt = "vsix"
  <2>1. g \in vsix_embed(f, c, o)
    BY <1>2 DEF SplitEmbed
  <2>2. VsInv(f, S) /\ VsTold(c.value[2]) \in S
    BY <1>2 DEF FileInv
  <2>3. VsInv(g, S) /\ VsixContent(g) = VsixContent(f)
    BY <2>1, <2>2, VsEmbedded
  <2>4. FileInv(g, S) /\ g.fmt = "vsix"
    BY <2>3, FormatOf
  <2> QED
    BY <1>2, <2>3, <2>4 DEF Content
<1> QED
  BY <1>1, <1>2

-----------------------------------------------------------------------------
(* The inductive invariant: everything in the file and beside it that a       *)
(* verification could be satisfied with speaks of a content somebody signed.  *)
IInv ==
    /\ FileInv(file, sealed)
    /\ SessionInv(file.fmt, session, sealed)
    /\ file.fmt \in {f.fmt : f \in Files}
    /\ clock \in 1..MaxTime /\ ops \in 0..MaxOps

(* A step of ContentIsKept.                                                   *)
ContentStep ==
    last'.op \in {"sign", "stamp", "clear", "append", "embed"} /\ ops' # ops
    /\ (file.fmt = "pe" /\ HasTable(file) => AfterTable(file) = <<>>)
         => Content(file') = Content(file)

LEMMA InitHolds == Init => IInv
<1> SUFFICES ASSUME Init PROVE IInv
  OBVIOUS
<1>1. file \in Files /\ sealed = {} /\ session = NoSession /\ clock = 1 /\ ops = 0
  BY DEF Init
<1>2. FileInv(file, sealed)
  BY <1>1, FileOwned
<1>3. SessionInv(file.fmt, session, sealed)
  BY <1>1 DEF SessionInv, NoSession
<1> QED
  BY <1>1, <1>2, <1>3, BoundsAssumption DEF IInv

(* A command that leaves the session alone.                                   *)
LEMMA FileOnly ==
    ASSUME IInv, FileInv(file', sealed'), file'.fmt = file.fmt, sealed \subseteq sealed',
           session' = session, clock' = clock, ops < MaxOps, ops' = ops + 1
    PROVE  IInv'
<1>1. SessionInv(file.fmt, session, sealed')
  BY SessionMore DEF IInv
<1>2. ops' \in 0..MaxOps
  BY BoundsAssumption DEF IInv
<1> QED
  BY <1>1, <1>2 DEF IInv

LEMMA SignSafe ==
    ASSUME IInv, NEW req \in Requests, Sign(req)
    PROVE  IInv' /\ ContentStep
<1> DEFINE R == PortableSign(file, req, clock)
<1>1. /\ ops < MaxOps /\ ops' = ops + 1 /\ clock' = clock /\ session' = session
      /\ file' \in IF R = {} THEN {file} ELSE R
      /\ sealed' = IF R = {} THEN sealed ELSE sealed \cup {Content(file)}
  BY DEF Sign, Write
<1>2. FileInv(file, sealed)
  BY DEF IInv
<1>3. CASE R = {}
  <2>1. file' = file /\ sealed' = sealed
    BY <1>1, <1>3
  <2> QED
    BY <1>1, <1>2, <2>1, FileOnly DEF ContentStep
<1>4. CASE R # {}
  <2>1. file' \in PortableSign(file, req, clock) /\ sealed' = sealed \cup {Content(file)}
    BY <1>1, <1>4
  <2>2. /\ FileInv(file', sealed') /\ file'.fmt = file.fmt
        /\ (file.fmt = "pe" /\ HasTable(file) => AfterTable(file) = <<>>) => Content(file') = Content(file)
    BY <1>2, <2>1, FileSigned
  <2>3. sealed \subseteq sealed'
    BY <2>1
  <2> QED
    BY <1>1, <2>2, <2>3, FileOnly DEF ContentStep
<1> QED
  BY <1>3, <1>4

LEMMA TimestampSafe ==
    ASSUME IInv, NEW index, NEW answer, TimestampPe(index, answer)
    PROVE  IInv' /\ ContentStep
<1>1. /\ ops < MaxOps /\ ops' = ops + 1 /\ clock' = clock /\ session' = session /\ sealed' = sealed
      /\ file' = file \/ file' \in timestamp_pe(file, index, answer)
      /\ file.fmt = "pe" /\ PeInv(file, sealed)
  BY DEF TimestampPe, Write, IInv, FileInv
<1>2. CASE file' = file
  BY <1>1, <1>2, FileOnly DEF ContentStep, IInv
<1>3. CASE file' \in timestamp_pe(file, index, answer)
  <2>1. PeInv(file', sealed) /\ ((HasTable(file) => AfterTable(file) = <<>>) => PeContent(file') = PeContent(file))
    BY <1>1, <1>3, PeStamped
  <2>2. FileInv(file', sealed) /\ file'.fmt = "pe"
    BY <2>1, FormatOf
  <2> QED
    BY <1>1, <2>1, <2>2, FileOnly DEF ContentStep, Content
<1> QED
  BY <1>1, <1>2, <1>3

LEMMA ClearSafe ==
    ASSUME IInv, ClearSignature
    PROVE  IInv' /\ ContentStep
<1>1. /\ ops < MaxOps /\ ops' = ops + 1 /\ clock' = clock /\ session' = session /\ sealed' = sealed
      /\ file' = file \/ file' \in portable_clear_signature(file)
      /\ file.fmt \in {"pe", "script"} /\ FileInv(file, sealed)
  BY DEF ClearSignature, Write, IInv
<1>2. CASE file' = file
  BY <1>1, <1>2, FileOnly DEF ContentStep
<1>3. CASE file' \in portable_clear_signature(file) /\ file.fmt = "pe"
  <2>1. PeInv(file, sealed) /\ file' \in pe_remove(file)
    BY <1>1, <1>3 DEF portable_clear_signature, FileInv
  <2>2. PeInv(file', sealed) /\ PeContent(file') = PeContent(file)
    BY <2>1, PeRemoved
  <2>3. FileInv(file', sealed) /\ file'.fmt = "pe"
    BY <2>2, FormatOf
  <2> QED
    BY <1>1, <1>3, <2>2, <2>3, FileOnly DEF ContentStep, Content
<1>4. CASE file' \in portable_clear_signature(file) /\ file.fmt = "script"
  <2>1. ScInv(file, sealed) /\ file' \in remove_script_signature_block(file)
    BY <1>1, <1>4 DEF portable_clear_signature, FileInv
  <2>2. ScInv(file', sealed) /\ ScriptContent(file') = ScriptContent(file)
    BY <2>1, ScRemoved
  <2>3. FileInv(file', sealed) /\ file'.fmt = "script"
    BY <2>2, FormatOf
  <2> QED
    BY <1>1, <1>4, <2>2, <2>3, FileOnly DEF ContentStep, Content
<1> QED
  BY <1>1, <1>2, <1>3, <1>4

LEMMA AppendSafe ==
    ASSUME IInv, AppendPePkcs7
    PROVE  IInv' /\ ContentStep
<1>1. /\ ops < MaxOps /\ ops' = ops + 1 /\ clock' = clock /\ session' = session /\ sealed' = sealed
      /\ file' = file \/ file' \in pe_append(file, session.doc)
      /\ file.fmt = "pe" /\ PeInv(file, sealed) /\ session.st = "document"
  BY DEF AppendPePkcs7, Write, IInv, FileInv
<1>2. PeVouched(session.doc, sealed)
  BY <1>1 DEF IInv, SessionInv, DocumentInv
<1>3. CASE file' = file
  BY <1>1, <1>3, FileOnly DEF ContentStep, IInv
<1>4. CASE file' \in pe_append(file, session.doc)
  <2>1. PeInv(file', sealed) /\ ((HasTable(file) => AfterTable(file) = <<>>) => PeContent(file') = PeContent(file))
    BY <1>1, <1>2, <1>4, PeAppended
  <2>2. FileInv(file', sealed) /\ file'.fmt = "pe"
    BY <2>1, FormatOf
  <2> QED
    BY <1>1, <2>1, <2>2, FileOnly DEF ContentStep, Content
<1> QED
  BY <1>1, <1>3, <1>4

(* A command that leaves something beside the file.                           *)
LEMMA SessionOnly ==
    ASSUME IInv, NEW STATE s, Leave(s), sealed' = sealed, SessionInv(file.fmt, s, sealed)
    PROVE  IInv' /\ ContentStep
<1>1. /\ ops < MaxOps /\ ops' = ops + 1 /\ session' = s /\ file' = file /\ clock' = clock
      /\ last'.op = "none"
  BY DEF Leave, NoCommand
<1>2. ops' \in 0..MaxOps
  BY <1>1, BoundsAssumption DEF IInv
<1>3. SessionInv(file'.fmt, session', sealed')
  BY <1>1
<1> QED
  BY <1>1, <1>2, <1>3 DEF IInv, ContentStep

LEMMA ExtractSafe ==
    ASSUME IInv, NEW index, ExtractPePkcs7(index)
    PROVE  IInv' /\ ContentStep
<1> DEFINE c == pe_pkcs7(file)[index]
           s == [st |-> "document", doc |-> c]
<1>1. file.fmt = "pe" /\ index \in DOMAIN pe_pkcs7(file) /\ Leave(s) /\ sealed' = sealed
  BY DEF ExtractPePkcs7
<1>2. PeInv(file, sealed)
  BY <1>1 DEF IInv, FileInv
<1>3. PeVouched(c, sealed)
  BY <1>1, <1>2, PeExtracted
<1> HIDE DEF c
<1>4. s.st = "document" /\ s.doc = c
  OBVIOUS
<1>5. SessionInv(file.fmt, s, sealed)
  BY <1>1, <1>3, <1>4 DEF SessionInv, DocumentInv
<1> HIDE DEF s
<1> QED
  BY <1>1, <1>5, SessionOnly

LEMMA PrehashSafe ==
    ASSUME IInv, NEW alg, Prehash(alg)
    PROVE  IInv' /\ ContentStep
<1>1. PICK signer \in SplitSigner : \E d \in SplitPrehash(file, alg, signer, clock) :
          Leave([st |-> "hashed", alg |-> alg, signer |-> signer, digest |-> d,
                 contents |-> {Content(file)}])
  BY DEF Prehash
<1>2. PICK d \in SplitPrehash(file, alg, signer, clock) :
          Leave([st |-> "hashed", alg |-> alg, signer |-> signer, digest |-> d,
                 contents |-> {Content(file)}])
  BY <1>1
<1>3. file.fmt \in SplitFormats /\ sealed' = sealed /\ FileInv(file, sealed)
  BY DEF Prehash, IInv
<1>4. Told(file.fmt, d) = Content(file) /\ (file.fmt = "nuget" => Canonical(Content(file)))
  BY <1>2, <1>3, PrehashTells
<1> DEFINE x == Content(file)
           X == {x}
           s == [st |-> "hashed", alg |-> alg, signer |-> signer, digest |-> d, contents |-> X]
<1>5. Leave(s)
  BY <1>2
<1> HIDE DEF x, X
<1>6. s.st = "hashed" /\ s.digest = d /\ s.contents = X
  OBVIOUS
<1> HIDE DEF s
<1>7. HashedInv(file.fmt, s)
  BY <1>4, <1>6 DEF HashedInv, X, x
<1>8. SessionInv(file.fmt, s, sealed)
  BY <1>3, <1>6, <1>7 DEF SessionInv
<1> QED
  BY <1>3, <1>5, <1>8, SessionOnly

LEMMA RemoteSignSafe ==
    ASSUME IInv, RemoteSign
    PROVE  IInv' /\ ContentStep
<1>1. /\ session.st = "hashed" /\ file' = file /\ ops' = ops /\ clock' = clock
      /\ session'.st = "signed" /\ session'.value = ProviderSign(SplitMaterial, session.digest)
      /\ session'.contents = session.contents
      /\ sealed' = sealed \cup session.contents
  BY DEF RemoteSign
<1>2. file.fmt \in SplitFormats /\ HashedInv(file.fmt, session) /\ FileInv(file, sealed)
  BY <1>1 DEF IInv, SessionInv
<1>3. PICK x : /\ session.contents = {x} /\ Told(file.fmt, session.digest) = x
               /\ file.fmt = "nuget" => Canonical(x)
  BY <1>2 DEF HashedInv
<1>4. session'.value[2] = session.digest
  BY <1>1 DEF ProviderSign, RsaSign
<1>5. SignedInv(file.fmt, session', sealed')
  <2>1. x \in sealed'
    BY <1>1, <1>3
  <2>2. session'.contents = {x} /\ Told(file.fmt, session'.value[2]) = x
    BY <1>1, <1>3, <1>4
  <2> QED
    BY <2>1, <2>2 DEF SignedInv
<1>6. FileInv(file, sealed')
  <2>1. file.fmt = "nuget" => \A y \in sealed' : Canonical(y)
    BY <1>1, <1>2, <1>3 DEF FileInv, NuInv
  <2>2. sealed \subseteq sealed'
    BY <1>1
  <2> QED
    BY <1>2, <2>1, <2>2, FileMore
<1>7. SessionInv(file.fmt, session', sealed')
  BY <1>1, <1>2, <1>5 DEF SessionInv
<1> QED
  BY <1>1, <1>6, <1>7 DEF IInv, ContentStep

LEMMA FromSignatureSafe ==
    ASSUME IInv, NEW answer, FromSignature(answer)
    PROVE  IInv' /\ ContentStep
<1>1. /\ session.st = "signed" /\ file.fmt \in {"nuget", "vsix"} /\ sealed' = sealed
      /\ SignedInv(file.fmt, session, sealed)
  BY DEF FromSignature, IInv, SessionInv
<1>2. PICK d \in SplitDocument(file, session.alg, session.signer, session.value, answer, clock) :
          Leave([st |-> "document", doc |-> d, contents |-> session.contents \cup {Content(file)}])
  BY DEF FromSignature
<1>3. Told(file.fmt, session.value[2]) \in sealed
  BY <1>1 DEF SignedInv
<1>4. /\ file.fmt = "nuget" => NuDocument(d, sealed)
      /\ file.fmt = "vsix" => VsTold(d.value[2]) \in sealed
  <2> DEFINE a == session.alg
             g == session.signer
             v == session.value
  <2>1. d \in SplitDocument(file, a, g, v, answer, clock) /\ Told(file.fmt, v[2]) \in sealed
    BY <1>2, <1>3
  <2> HIDE DEF a, g, v
  <2>2. /\ file.fmt = "vsix" => d.value = v
        /\ file.fmt = "nuget" => \A S : NuTold(v[2]) \in S => NuDocument(d, S)
    BY <2>1, DocumentTells
  <2> QED
    BY <2>1, <2>2 DEF Told
<1> DEFINE X == session.contents \cup {Content(file)}
           s == [st |-> "document", doc |-> d, contents |-> X]
<1>5. Leave(s)
  BY <1>2
<1> HIDE DEF X
<1>6. s.st = "document" /\ s.doc = d
  OBVIOUS
<1> HIDE DEF s
<1>7. SessionInv(file.fmt, s, sealed)
  BY <1>1, <1>4, <1>6 DEF SessionInv, DocumentInv
<1> QED
  BY <1>1, <1>5, <1>7, SessionOnly

LEMMA EmbedSafe ==
    ASSUME IInv, NEW overwrite, Embed(overwrite)
    PROVE  IInv' /\ ContentStep
<1>1. /\ ops < MaxOps /\ ops' = ops + 1 /\ clock' = clock /\ session' = session /\ sealed' = sealed
      /\ file' = file \/ file' \in SplitEmbed(file, session.doc, overwrite)
      /\ file.fmt \in {"nuget", "vsix"} /\ session.st = "document" /\ FileInv(file, sealed)
  BY DEF Embed, Write, IInv
<1>2. DocumentInv(file.fmt, session, sealed)
  BY <1>1 DEF IInv, SessionInv
<1>3. CASE file' = file
  BY <1>1, <1>3, FileOnly DEF ContentStep
<1>4. CASE file' \in SplitEmbed(file, session.doc, overwrite)
  <2>1. FileInv(file', sealed) /\ file'.fmt = file.fmt /\ Content(file') = Content(file)
    BY <1>1, <1>2, <1>4, FileEmbedded DEF DocumentInv
  <2> QED
    BY <1>1, <2>1, FileOnly DEF ContentStep
<1> QED
  BY <1>1, <1>3, <1>4

LEMMA ClickOnceSafe ==
    ASSUME IInv, ClickOnceFromSignature
    PROVE  IInv' /\ ContentStep
<1> DEFINE info == clickonce_signed_info(unsigned_clickonce_manifest(file.data), session.alg)
           R == ClickOnceWith(file, info, session.value, session.signer)
<1>1. /\ ops < MaxOps /\ ops' = ops + 1 /\ clock' = clock /\ session' = session /\ sealed' = sealed
      /\ file' = file \/ file' \in R
      /\ file.fmt = "clickonce" /\ session.st = "signed" /\ FileInv(file, sealed)
  BY DEF ClickOnceFromSignature, Write, IInv
<1>2. CoInv(file, sealed) /\ CoTold(session.value[2]) \in sealed
  BY <1>1 DEF IInv, SessionInv, SignedInv, FileInv, Told
<1>3. CASE file' = file
  BY <1>1, <1>3, FileOnly DEF ContentStep
<1>4. CASE file' \in R
  <2> HIDE DEF info
  <2>1. CoInv(file', sealed)
        /\ unsigned_clickonce_manifest(file'.data) = unsigned_clickonce_manifest(file.data)
    <3> DEFINE v == session.value
               g == session.signer
    <3>1. file' \in ClickOnceWith(file, info, v, g) /\ CoTold(v[2]) \in sealed
      BY <1>2, <1>4
    <3> HIDE DEF v, g
    <3> QED
      BY <1>2, <3>1, CoWith
  <2>2. FileInv(file', sealed) /\ file'.fmt = "clickonce"
    BY <2>1, FormatOf
  <2> QED
    BY <1>1, <2>1, <2>2, FileOnly DEF ContentStep, Content
<1> QED
  BY <1>1, <1>3, <1>4

LEMMA AppInstallerSafe ==
    ASSUME IInv, NEW answer, AppInstallerFromSignature(answer)
    PROVE  IInv' /\ ContentStep
<1> DEFINE D == SplitDocument(file, session.alg, session.signer, session.value, answer, clock)
           R == {[file EXCEPT !.companion = <<d>>] : d \in D}
<1>1. /\ ops < MaxOps /\ ops' = ops + 1 /\ clock' = clock /\ session' = session /\ sealed' = sealed
      /\ file' = file \/ file' \in R
      /\ file.fmt = "appinstaller" /\ session.st = "signed" /\ FileInv(file, sealed)
  BY DEF AppInstallerFromSignature, Write, IInv
<1>2. AppInv(file, sealed) /\ DataOfAttrs(session.value[2]) \in sealed
  BY <1>1 DEF IInv, SessionInv, SignedInv, FileInv, Told
<1>3. CASE file' = file
  BY <1>1, <1>3, FileOnly DEF ContentStep
<1>4. CASE file' \in R
  <2> HIDE DEF D
  <2>1. PICK d \in D : file' = [file EXCEPT !.companion = <<d>>]
    BY <1>4
  <2>2. d.sigval = session.value
    <3> DEFINE a == session.alg
               g == session.signer
               v == session.value
    <3>1. d \in SplitDocument(file, a, g, v, answer, clock) /\ file.fmt # "vsix"
      BY <1>1, <2>1 DEF D
    <3> HIDE DEF a, g, v
    <3>2. d.sigval = v
      BY <3>1, DocumentTells
    <3> QED
      BY <3>2 DEF v
  <2>3. DataOfAttrs(d.sigval[2]) \in sealed
    BY <1>2, <2>2
  <2>4. AppInv(file', sealed)
    BY <1>2, <2>1, <2>3, AppWith
  <2>5. file'.data = file.data
    <3> DEFINE s == <<d>>
    <3>1. file' = [file EXCEPT !.companion = s]
      BY <2>1
    <3> HIDE DEF s
    <3>2. file' = AppFile(file.data, s)
      BY <1>2, <3>1, AppUpdate DEF AppInv
    <3> QED
      BY <3>2, AppFields
  <2>6. FileInv(file', sealed) /\ file'.fmt = "appinstaller"
    BY <2>4, FormatOf
  <2> QED
    BY <1>1, <2>5, <2>6, FileOnly DEF ContentStep, Content
<1> QED
  BY <1>1, <1>3, <1>4

LEMMA EditSafe ==
    ASSUME IInv, Edit
    PROVE  IInv' /\ ContentStep
<1>1. /\ ops < MaxOps /\ ops' = ops + 1 /\ clock' = clock /\ session' = session /\ sealed' = sealed
      /\ file' \in Edited(file) /\ last'.op = "none" /\ FileInv(file, sealed)
  BY DEF Edit, NoCommand, IInv
<1>2. FileInv(file', sealed) /\ file'.fmt = file.fmt
  BY <1>1, FileEdited
<1> QED
  BY <1>1, <1>2, FileOnly DEF ContentStep

LEMMA PublisherSafe ==
    ASSUME IInv, NEW publisher, SetPublisher(publisher)
    PROVE  IInv' /\ ContentStep
<1>1. /\ ops < MaxOps /\ ops' = ops + 1 /\ clock' = clock /\ session' = session /\ sealed' = sealed
      /\ file' = file \/ file' \in set_msix_manifest_publisher(file, publisher)
      /\ file.fmt = "msix" /\ last'.op = "publisher" /\ MsixInv(file, sealed)
  BY DEF SetPublisher, Write, IInv, FileInv
<1>2. FileInv(file', sealed) /\ file'.fmt = "msix"
  <2>1. MsixInv(file', sealed)
    BY <1>1, MsixPublished
  <2> QED
    BY <2>1, FormatOf
<1> QED
  BY <1>1, <1>2, FileOnly DEF ContentStep

LEMMA TickSafe ==
    ASSUME IInv, Tick
    PROVE  IInv' /\ ContentStep
<1>1. /\ clock < MaxTime /\ clock' = clock + 1 /\ file' = file /\ session' = session /\ ops' = ops
      /\ sealed' = sealed
  BY DEF Tick
<1>2. clock' \in 1..MaxTime
  BY <1>1, BoundsAssumption DEF IInv
<1> QED
  BY <1>1, <1>2 DEF IInv, ContentStep

LEMMA StutterSafe ==
    ASSUME IInv, UNCHANGED vars
    PROVE  IInv' /\ ContentStep
BY DEF vars, IInv, ContentStep

LEMMA NextSafe ==
    ASSUME IInv, [Next]_vars
    PROVE  IInv' /\ ContentStep
<1>1. ASSUME NEW req \in Requests, Sign(req) PROVE IInv' /\ ContentStep
  BY <1>1, SignSafe
<1>2. ASSUME NEW index \in 1..2, NEW answer \in {"granted", "refused"}, TimestampPe(index, answer)
      PROVE  IInv' /\ ContentStep
  BY <1>2, TimestampSafe
<1>3. CASE ClearSignature
  BY <1>3, ClearSafe
<1>4. ASSUME NEW index \in 1..2, ExtractPePkcs7(index) PROVE IInv' /\ ContentStep
  BY <1>4, ExtractSafe
<1>5. CASE AppendPePkcs7
  BY <1>5, AppendSafe
<1>6. ASSUME NEW alg \in {"sha256", "sha384"}, Prehash(alg) PROVE IInv' /\ ContentStep
  BY <1>6, PrehashSafe
<1>7. CASE RemoteSign
  BY <1>7, RemoteSignSafe
<1>8. ASSUME NEW answer \in {"none", "granted"}, FromSignature(answer) PROVE IInv' /\ ContentStep
  BY <1>8, FromSignatureSafe
<1>9. ASSUME NEW overwrite \in BOOLEAN, Embed(overwrite) PROVE IInv' /\ ContentStep
  BY <1>9, EmbedSafe
<1>10. CASE ClickOnceFromSignature
  BY <1>10, ClickOnceSafe
<1>11. ASSUME NEW answer \in {"none", "granted"}, AppInstallerFromSignature(answer)
       PROVE  IInv' /\ ContentStep
  BY <1>11, AppInstallerSafe
<1>12. CASE Edit
  BY <1>12, EditSafe
<1>13. ASSUME NEW publisher \in Values, SetPublisher(publisher) PROVE IInv' /\ ContentStep
  BY <1>13, PublisherSafe
<1>14. CASE Tick
  BY <1>14, TickSafe
<1>15. CASE UNCHANGED vars
  BY <1>15, StutterSafe
<1> QED
  BY <1>1, <1>2, <1>3, <1>4, <1>5, <1>6, <1>7, <1>8, <1>9, <1>10, <1>11, <1>12, <1>13, <1>14, <1>15
     DEF Next

(* The inductive invariant of the portable signing core.                      *)
THEOREM Sealed == Spec => []IInv
<1>1. Init => IInv
  BY InitHolds
<1>2. IInv /\ [Next]_vars => IInv'
  BY NextSafe
<1> QED
  BY <1>1, <1>2, PTL DEF Spec

(* Whatever is signed, split, stamped, taken out, put back, cleared and       *)
(* edited, a file keeps its format, and the certificate table of an image is  *)
(* in the file and in line (pe_append, pe_remove, timestamp_pe).              *)
THEOREM TypeCorrect == Spec => []TypeOK
<1>1. IInv => TypeOK
  <2> SUFFICES ASSUME IInv PROVE TypeOK
    OBVIOUS
  <2>1. file.fmt = "pe" => TableAligned(file) /\ (HasTable(file) => TableInFile(file))
    BY DEF IInv, FileInv, PeInv, PeShape
  <2> QED
    BY <2>1 DEF IInv, SessionInv, TypeOK
<1> QED
  BY <1>1, Sealed, PTL

(* No behaviour of the commands and of the owner gives a file that verifies   *)
(* with a content nobody signed, in any of the ten formats, for any files,    *)
(* any signing material and any number of commands (the verify_* functions).  *)
THEOREM TamperDetected == Spec => []TamperIsDetected
<1>1. IInv => TamperIsDetected
  BY FileVerified DEF IInv, TamperIsDetected
<1> QED
  BY <1>1, Sealed, PTL

(* And no command but the owner's edits changes the content.                  *)
THEOREM ContentKept == Spec => ContentIsKept
<1>1. IInv /\ [Next]_vars => [ContentStep]_vars
  BY NextSafe
<1> QED
  BY <1>1, Sealed, PTL DEF Spec, ContentIsKept, ContentStep

-----------------------------------------------------------------------------
(* What a reader is told, format by format.                                   *)
StatusFacts(f, S) ==
    /\ Verify(f) => inspect(f) = "Valid"
    /\ inspect(f) = "Valid" /\ f.fmt \notin PresenceOnly \cup {"nuget"} => Content(f) \in S
    /\ inspect(f) = "NotSigned" => ~Carries(f) \/ Undeclared(f)
    /\ ~Carries(f) /\ f.fmt \notin {"cab", "msi", "msix"} => inspect(f) = "NotSigned"
    /\ inspect(f) = "HashMismatch" => Carries(f)

LEMMA Mapped ==
    \A c : /\ map_digest_error(c) = "Valid" <=> c = "ok"
           /\ map_digest_error(c) = "NotSigned" <=> c = "unsigned"
           /\ map_digest_error(c) = "HashMismatch" <=> c = "mismatch"
BY DEF map_digest_error

LEMMA PeStatus ==
    ASSUME NEW f, NEW S, PeInv(f, S)
    PROVE  StatusFacts(f, S)
<1>1. f.fmt = "pe"
  BY FormatOf
<1>2. /\ Verify(f) <=> verify_pe(f)
      /\ inspect(f) = map_digest_error(check_pe(f))
      /\ Content(f) = PeContent(f) /\ (Carries(f) <=> HasTable(f))
  BY <1>1 DEF Verify, inspect, Content, Carries
<1>3. TableAligned(f)
  BY DEF PeInv, PeShape
<1>4. pe_pkcs7(f) # <<>> => HasTable(f)
  BY DEF pe_pkcs7
<1>5. verify_pe(f) => pe_pkcs7(f) # <<>> /\ pe_digests_match(f)
  BY DEF verify_pe
<1>6. /\ check_pe(f) = "ok" <=> HasTable(f) /\ pe_pkcs7(f) # <<>> /\ pe_digests_match(f)
      /\ check_pe(f) = "unsigned" <=> ~HasTable(f)
      /\ check_pe(f) = "mismatch" => HasTable(f)
  BY <1>3 DEF check_pe
<1>7. check_pe(f) = "ok" => PeContent(f) \in S
  BY <1>6, PeMatched
<1> QED
  BY <1>2, <1>4, <1>5, <1>6, <1>7, Mapped DEF StatusFacts

LEMMA CabStatus ==
    ASSUME NEW f, NEW S, CabInv(f, S)
    PROVE  StatusFacts(f, S)
<1>1. f.fmt = "cab"
  BY FormatOf
<1>2. /\ Verify(f) <=> verify_cab(f)
      /\ inspect(f) = map_digest_error(check_cab(f))
      /\ Content(f) = CabContent(f) /\ (Carries(f) <=> f.reserve)
  BY <1>1 DEF Verify, inspect, Content, Carries
<1> DEFINE t == cab_signature_pkcs7(f)
           d == IndirectDigest(t[1])
           D == compute_cab_digest(f, d[1])
<1>3. t # <<>> => f.reserve
  BY DEF cab_signature_pkcs7
<1>4. verify_cab(f) => t # <<>> /\ \E e \in D : verify_indirect(t[1], e)
  BY DEF verify_cab
<1>5. check_cab(f) = IF t = <<>> THEN "other" ELSE IF D = {} THEN "other"
                     ELSE IF d \in D THEN "ok" ELSE "mismatch"
  BY DEF check_cab
<1>6. t # <<>> /\ d \in D => CabContent(f) \in S
  BY CabMatched
<1> HIDE DEF t, D
<1>7. (\E e \in D : verify_indirect(t[1], e)) => d \in D
  BY DEF verify_indirect
<1> HIDE DEF d
<1>8. /\ check_cab(f) = "ok" <=> t # <<>> /\ d \in D
      /\ check_cab(f) # "unsigned" /\ (check_cab(f) = "mismatch" => t # <<>>)
  BY <1>5
<1> QED
  BY <1>1, <1>2, <1>3, <1>4, <1>6, <1>7, <1>8, Mapped DEF StatusFacts

LEMMA MsiStatus ==
    ASSUME NEW f, NEW S, MsiInv(f, S)
    PROVE  StatusFacts(f, S)
<1>1. f.fmt = "msi"
  BY FormatOf
<1>2. /\ Verify(f) <=> verify_msi(f)
      /\ inspect(f) = map_digest_error(check_msi(f))
      /\ Content(f) = MsiContent(f) /\ (Carries(f) <=> f.sig # <<>>)
  BY <1>1 DEF Verify, inspect, Content, Carries
<1> DEFINE alg == IndirectDigest(f.sig[1])[1]
           Same == IndirectDigest(f.sig[1]) = compute_msi_fingerprint(f, alg)
           Told1 == f.ex # <<>> => f.ex[1] = compute_prehash(f, alg)
<1>3. verify_msi(f) => f.sig # <<>> /\ Same /\ Told1
  BY DEF verify_msi, verify_indirect
<1>4. check_msi(f) = IF f.sig = <<>> THEN "other" ELSE IF ~Same THEN "mismatch"
                     ELSE IF ~Told1 THEN "mismatch" ELSE "ok"
  BY DEF check_msi
<1>5. f.sig # <<>> /\ Same => MsiContent(f) \in S
  BY MsiMatched
<1> HIDE DEF Same, Told1
<1>6. /\ check_msi(f) = "ok" <=> f.sig # <<>> /\ Same /\ Told1
      /\ check_msi(f) # "unsigned" /\ (check_msi(f) = "mismatch" => f.sig # <<>>)
  BY <1>4
<1> QED
  BY <1>1, <1>2, <1>3, <1>5, <1>6, Mapped DEF StatusFacts

(* A script has a block, as far as a reader can tell, exactly when its first  *)
(* marker is found, and then it has a signature and a content without it.     *)
LEMMA BlockFound ==
    ASSUME NEW f, NEW S, ScInv(f, S)
    PROVE  /\ HasBlock(f) <=> extract_pkcs7_from_script(f) # <<>>
           /\ HasBlock(f) => strip_signature_region(UnitsToVerify(f)) # {}
<1> DEFINE s == f.data
           u == UnitsToVerify(f)
<1>1. IsSeq(s) /\ Blocks(s) /\ f.data = s
  BY DEF ScInv, ScShape
<1>2. IsSeq(u) /\ Blocks(u) /\ (Find(s, <<Begin>>) # 0 => Find(u, <<Begin>>) # 0)
  BY ScUnits
<1>3. HasBlock(f) <=> Find(s, <<Begin>>) # 0
  <2>1. Occurrences(s, <<Begin>>) \subseteq Nat \ {0}
    BY <1>1, OccursOne, SeqFacts
  <2>2. Find(s, <<Begin>>) = 0 <=> Occurrences(s, <<Begin>>) = {}
    BY <2>1, FindFacts
  <2> QED
    BY <2>2 DEF HasBlock
<1>4. /\ Find(s, <<Begin>>) = 0 => extract_pkcs7_from_script(f) = <<>>
      /\ Find(s, <<Begin>>) # 0 => extract_pkcs7_from_script(f) # <<>>
  BY <1>1, ScFound
<1> HIDE DEF u
<1>5. Find(u, <<Begin>>) # 0 => strip_signature_region(u) # {}
  BY <1>2, BlockStripped
<1> QED
  BY <1>2, <1>3, <1>4, <1>5 DEF u

(* The digest check of a script: what verifies passes it.                     *)
LEMMA ScriptChecked ==
    ASSUME NEW f
    PROVE  LET t == extract_pkcs7_from_script(f)
           IN /\ verify_script(f) => check_script(f) = "ok" /\ t # <<>>
              /\ check_script(f) = "ok" => /\ t # <<>>
                                           /\ \E u \in strip_signature_region(UnitsToVerify(f)) :
                                                 IndirectDigest(t[1]) = script_digest(u, IndirectDigest(t[1])[1])
              /\ check_script(f) = "unsigned" =>
                    t = <<>> \/ strip_signature_region(UnitsToVerify(f)) = {}
              /\ t = <<>> => check_script(f) = "unsigned"
<1> DEFINE t == extract_pkcs7_from_script(f)
           R == strip_signature_region(UnitsToVerify(f))
           d == IndirectDigest(t[1])
           Same == \E u \in R : d = script_digest(u, d[1])
<1>1. check_script(f) = IF t = <<>> \/ R = {} THEN "unsigned" ELSE IF Same THEN "ok" ELSE "mismatch"
  <2> DEFINE D == {script_digest(u, d[1]) : u \in R}
  <2>1. check_script(f) = IF t = <<>> \/ R = {} THEN "unsigned" ELSE IF d \in D THEN "ok" ELSE "mismatch"
    BY DEF check_script
  <2>2. d \in D <=> Same
    <3> HIDE DEF R, d
    <3> QED
      OBVIOUS
  <2> HIDE DEF D, Same, R, t
  <2> QED
    BY <2>1, <2>2
<1>2. verify_script(f) => t # <<>> /\ Same
  <2>1. verify_script(f) => t # <<>> /\ \E u \in R : verify_indirect(t[1], script_digest(u, d[1]))
    BY DEF verify_script
  <2> QED
    BY <2>1 DEF verify_indirect
<1>3. Same => R # {}
  OBVIOUS
<1> HIDE DEF t, R, Same
<1>4. /\ verify_script(f) => check_script(f) = "ok" /\ t # <<>>
      /\ check_script(f) = "ok" => t # <<>> /\ Same
      /\ check_script(f) = "unsigned" => t = <<>> \/ R = {}
      /\ t = <<>> => check_script(f) = "unsigned"
  BY <1>1, <1>2, <1>3
<1> QED
  BY <1>4 DEF t, R, Same

LEMMA ScStatus ==
    ASSUME NEW f, NEW S, ScInv(f, S)
    PROVE  StatusFacts(f, S)
<1>1. f.fmt = "script"
  BY FormatOf
<1>2. /\ Verify(f) <=> verify_script(f)
      /\ inspect(f) = map_digest_error(check_script(f))
      /\ Content(f) = ScriptContent(f) /\ (Carries(f) <=> HasBlock(f))
  BY <1>1 DEF Verify, inspect, Content, Carries
<1> DEFINE t == extract_pkcs7_from_script(f)
           c == check_script(f)
<1>3. /\ verify_script(f) => c = "ok" /\ t # <<>>
      /\ c = "unsigned" => t = <<>> \/ strip_signature_region(UnitsToVerify(f)) = {}
      /\ t = <<>> => c = "unsigned"
  BY ScriptChecked
<1>4. c = "ok" => ScriptContent(f) \in S
  <2> SUFFICES ASSUME c = "ok" PROVE ScriptContent(f) \in S
    OBVIOUS
  <2>1. PICK u \in strip_signature_region(UnitsToVerify(f)) :
            t # <<>> /\ IndirectDigest(t[1]) = script_digest(u, IndirectDigest(t[1])[1])
    BY ScriptChecked
  <2> QED
    BY <2>1, ScMatched
<1>5. (HasBlock(f) <=> t # <<>>) /\ (HasBlock(f) => strip_signature_region(UnitsToVerify(f)) # {})
  BY BlockFound
<1> HIDE DEF t, c
<1>6. (c = "unsigned" <=> ~HasBlock(f)) /\ (c = "mismatch" => HasBlock(f))
  BY <1>3, <1>5
<1> QED
  BY <1>2, <1>3, <1>4, <1>6, Mapped DEF StatusFacts, c

(* The script a signed archive stands for has a signature block.              *)
LEMMA ZipScriptSigned ==
    ASSUME NEW digest, NEW cms
    PROVE  check_script([ZipScript(digest) EXCEPT !.data = @ \o format_signature_block(cms)]) # "unsigned"
<1> DEFINE cell == Cell("code", digest)
           s == <<cell>>
           z == format_signature_block(cms)
           u == s \o z
           enc == "utf8"
           h == ScFile(enc, u)
           g == [ZipScript(digest) EXCEPT !.data = @ \o z]
           told == ScTold(IndirectDigest(cms))
           T == {told}
<1>1. IsSeq(s) /\ Len(s) = 1 /\ s[1] = cell
  BY Single
<1>2. cell[1] = "code"
  BY CellFields
<1>3. g.enc = enc /\ g.data = u
  <2> HIDE DEF z
  <2> QED
    BY DEF ZipScript
<1>4. check_script(g) = check_script(h)
  <2> HIDE DEF u, enc, g
  <2>1. h.enc = enc /\ h.data = u
    BY ScFields
  <2> HIDE DEF h
  <2>2. UnitsToVerify(g) = UnitsToVerify(h) /\ extract_pkcs7_from_script(g) = extract_pkcs7_from_script(h)
    BY <1>3, <2>1 DEF UnitsToVerify, extract_pkcs7_from_script, file_utf16_units
  <2> QED
    BY <2>2 DEF check_script
<1> HIDE DEF s, cell, enc
<1>5. Blocks(s) /\ ScCms(s, T)
  <2>1. \A i \in 1..Len(s) : s[i] = cell
    BY <1>1
  <2> QED
    BY <1>2, <2>1, Kinds DEF Blocks, ScCms
<1>6. told \in T /\ T \subseteq T
  OBVIOUS
<1> HIDE DEF T
<1>7. IsSeq(u) /\ Blocks(u) /\ ScCms(u, T)
  BY <1>1, <1>5, <1>6, ScAppended
<1>8. h = ScFile(h.enc, h.data) /\ h.data = u
  <2> HIDE DEF u
  <2>1. h.enc = enc /\ h.data = u
    BY ScFields
  <2> QED
    BY <2>1
<1>9. u[3] = Begin /\ 3 \in 1..Len(u)
  <2>1. IsSeq(z) /\ Len(z) = 7 /\ z[2] = Begin
    BY BlockCells
  <2> HIDE DEF z
  <2>2. IsSeq(s) /\ IsSeq(z)
    BY <1>1, <2>1
  <2>3. Len(u) = Len(s) + Len(z) /\ \A i \in 1..Len(z) : u[Len(s) + i] = z[i]
    BY <2>2, Joined
  <2> HIDE DEF u
  <2>4. Len(s) + 2 = 3 /\ 2 \in 1..Len(z)
    BY <1>1, <2>1
  <2> QED
    BY <1>1, <2>1, <2>3, <2>4
<1> HIDE DEF u, h, z
<1>10. ScInv(h, T)
  BY <1>7, <1>8 DEF ScInv, ScShape
<1>11. HasBlock(h)
  <2>1. 3 \in Occurrences(u, <<Begin>>)
    BY <1>7, <1>9, OccursOne
  <2> QED
    BY <1>8, <2>1 DEF HasBlock
<1>12. check_script(h) # "unsigned"
  BY <1>10, <1>11, BlockFound, ScriptChecked
<1> QED
  BY <1>4, <1>12 DEF g, z, h, u

LEMMA ZipStatus ==
    ASSUME NEW f, NEW S, ZipInv(f, S)
    PROVE  StatusFacts(f, S)
<1>1. f.fmt = "zip"
  BY FormatOf
<1>2. /\ Verify(f) <=> verify_zip(f)
      /\ inspect(f) = map_digest_error(check_zip(f))
      /\ Content(f) = f.data /\ (Carries(f) <=> f.comment # <<>>)
  BY <1>1 DEF Verify, inspect, Content, Carries, ZipContent
<1> DEFINE g == [ZipScript(f.comment[1].digest) EXCEPT
                    !.data = @ \o format_signature_block(f.comment[1].cms)]
           c == check_script(g)
           Same == f.comment[1].digest = zip_authenticode_digest(f)
<1>3. c # "unsigned"
  BY ZipScriptSigned
<1>4. check_zip(f) = IF f.comment = <<>> THEN "unsigned" ELSE IF ~Same THEN "mismatch" ELSE c
  BY DEF check_zip
<1>5. verify_zip(f) => f.comment # <<>> /\ Same /\ verify_script(g)
  BY DEF verify_zip
<1>6. verify_script(g) => c = "ok"
  BY ScriptChecked
<1>7. f.comment # <<>> /\ Same => f.data \in S
  BY ZipVerified
<1> HIDE DEF c, g, Same
<1>8. /\ check_zip(f) = "ok" => f.comment # <<>> /\ Same
      /\ verify_zip(f) => check_zip(f) = "ok"
      /\ check_zip(f) = "unsigned" <=> f.comment = <<>>
      /\ check_zip(f) = "mismatch" => f.comment # <<>>
  BY <1>3, <1>4, <1>5, <1>6
<1> QED
  BY <1>2, <1>7, <1>8, Mapped DEF StatusFacts

LEMMA MsixStatus ==
    ASSUME NEW f, NEW S, MsixInv(f, S)
    PROVE  StatusFacts(f, S)
<1>1. f.fmt = "msix"
  BY FormatOf
<1>2. /\ Verify(f) <=> verify_msix(f)
      /\ inspect(f) = map_digest_error(check_msix(f))
      /\ Content(f) = MsixContent(f) /\ (Carries(f) <=> Has(f.parts, "signature"))
  BY <1>1 DEF Verify, inspect, Content, Carries
<1> DEFINE s == f.parts
           t == MsixSignature(f)
           kinds == parse_block_map_xml(BodyOf(s, "blockMap"))
           blob == IndirectDigest(t[1])
           kind == CHOOSE k \in kinds : TRUE
           declared == BodyOf(s, "types")[2]
           Gap == f.gap \/ ~Once(s, "types") \/ ~Once(s, "blockMap")
           Bad == ~validate_package_part_inventory(s, f.ext) \/ kinds = {}
           Types == validate_reserved_content_types(s, f.ext)
           Odd == "blockMap" \in declared /\ "signature" \notin declared
           Pieces == msix_pieces(f, kind)
           None == blob[2].AXCI = <<>>
           Integrity == Has(s, "codeIntegrity")
           Blobs == msix_authenticode_digest_blob(f)
<1>3. check_msix(f) = IF Gap THEN "other" ELSE IF t = <<>> THEN "unsigned" ELSE IF Bad THEN "other"
                      ELSE IF ~Types THEN IF Odd THEN "unsigned" ELSE "other"
                      ELSE IF blob[1] # kind \/ (None <=> Integrity) THEN "other"
                      ELSE IF blob # Pieces THEN "mismatch" ELSE IF Blobs = {} THEN "other" ELSE "ok"
  <2>1. None \in BOOLEAN /\ Integrity \in BOOLEAN
    BY DEF Has
  <2>2. (None = Integrity) <=> (None <=> Integrity)
    BY <2>1
  <2>3. check_msix(f) = IF Gap THEN "other" ELSE IF t = <<>> THEN "unsigned" ELSE IF Bad THEN "other"
                        ELSE IF ~Types THEN IF Odd THEN "unsigned" ELSE "other"
                        ELSE IF blob[1] # kind \/ (None = Integrity) THEN "other"
                        ELSE IF blob # Pieces THEN "mismatch" ELSE IF Blobs = {} THEN "other" ELSE "ok"
    BY Zenon DEF check_msix
  <2> HIDE DEF s, t, kinds, blob, kind, declared, Gap, Bad, Types, Odd, Pieces, None, Integrity, Blobs
  <2> QED
    BY <2>2, <2>3
<1>4. IsSeq(s)
  BY DEF MsixInv, MsixShape
<1>5. Has(s, "signature") => t # <<>>
  <2> SUFFICES ASSUME Has(s, "signature") PROVE t # <<>>
    OBVIOUS
  <2>1. PICK p \in ToSet(s) : p.name = "signature" /\ BodyOf(s, "signature") = p.body
    BY <1>4, HasFacts
  <2>2. t = p.body[2]
    BY <2>1 DEF MsixSignature
  <2> QED
    BY <2>1, <2>2 DEF MsixInv
<1>6. t # <<>> => Has(s, "signature")
  BY DEF MsixSignature
<1>7. ~Gap /\ Odd => Undeclared(f)
  <2> SUFFICES ASSUME ~Gap, Odd PROVE Undeclared(f)
    OBVIOUS
  <2>1. Has(s, "types")
    <3> DEFINE w == Named(s, {"types"})
    <3>1. IsSeq(w) /\ Len(w) = 1
      BY <1>4, NamedFacts DEF Once
    <3> HIDE DEF w
    <3>2. w # <<>>
      BY <3>1, SeqFacts
    <3> QED
      BY <3>2 DEF w, Has
  <2>2. PICK q \in ToSet(s) : q.name = "types" /\ BodyOf(s, "types") = q.body
    BY <1>4, <2>1, HasFacts
  <2> QED
    BY <1>1, <2>2 DEF Undeclared
<1>8. t # <<>> /\ blob = Pieces => MsixContent(f) \in S
  BY MsixMatched
<1>9. verify_msix(f) => check_msix(f) = "ok"
  <2> SUFFICES ASSUME verify_msix(f) PROVE check_msix(f) = "ok"
    OBVIOUS
  <2>1. t # <<>> /\ blob \in Blobs
    BY DEF verify_msix, verify_indirect
  <2>2. Blobs = flat_digest_blob(f)
    BY <2>1 DEF msix_authenticode_digest_blob
  <2>3. ~f.gap /\ validate_package_part_inventory(s, f.ext)
    BY <2>1, <2>2 DEF flat_digest_blob
  <2>4. PICK k \in kinds : Types /\ blob = msix_pieces(f, k)
    BY <2>1, <2>2 DEF flat_digest_blob
  <2>5. kind = k
    <3>1. kinds \subseteq {BodyOf(s, "blockMap")[2]}
      BY DEF parse_block_map_xml
    <3> HIDE DEF kinds
    <3> QED
      BY <2>4, <3>1
  <2>6. Once(s, "types") /\ Once(s, "blockMap")
    BY <2>3 DEF validate_package_part_inventory, Reserved
  <2>7. blob[1] = k
    BY <2>4 DEF msix_pieces
  <2>8. ~(None <=> Integrity)
    <3> DEFINE w == Named(s, {"codeIntegrity"})
               h == [i \in DOMAIN w |-> Hash(k, w[i].body)]
    <3>1. blob[2].AXCI = h
      BY <2>4 DEF msix_pieces
    <3>2. IsSeq(w)
      BY <1>4, NamedFacts
    <3>3. Integrity <=> w # <<>>
      BY DEF Has
    <3> HIDE DEF w
    <3>4. h = [i \in DOMAIN h |-> h[i]] /\ DOMAIN h = DOMAIN w
      OBVIOUS
    <3>5. h = [i \in DOMAIN w |-> h[i]]
      BY <3>4
    <3> HIDE DEF h
    <3>6. IsSeq(h) /\ Len(h) = Len(w)
      BY <3>2, <3>5, MappedSeq
    <3>7. h = <<>> <=> w = <<>>
      BY <3>2, <3>6, SeqFacts
    <3> QED
      BY <3>1, <3>3, <3>7
  <2> HIDE DEF s, t, kinds, blob, kind, declared, Types, Odd, Blobs, None, Integrity
  <2>9. blob = Pieces
    BY <2>4, <2>5
  <2> HIDE DEF Pieces
  <2> QED
    BY <1>3, <2>1, <2>3, <2>4, <2>5, <2>6, <2>7, <2>8, <2>9 DEF s
<1> HIDE DEF t, kinds, blob, kind, declared, Gap, Bad, Types, Odd, Pieces, None, Integrity, Blobs
<1>10. /\ check_msix(f) = "ok" => t # <<>> /\ blob = Pieces
       /\ check_msix(f) = "unsigned" => t = <<>> \/ Undeclared(f)
       /\ check_msix(f) = "mismatch" => t # <<>>
  BY <1>3, <1>7
<1> QED
  BY <1>1, <1>2, <1>5, <1>6, <1>8, <1>9, <1>10, Mapped DEF StatusFacts

LEMMA NuStatus ==
    ASSUME NEW f, NEW S, NuInv(f, S)
    PROVE  StatusFacts(f, S)
<1>1. f.fmt = "nuget"
  BY FormatOf
<1>2. /\ Verify(f) <=> verify_nuget(f)
      /\ inspect(f) = IF Has(f.parts, "signature") THEN map_digest_error(check_nuget(f)) ELSE "NotSigned"
      /\ (Carries(f) <=> Has(f.parts, "signature"))
  BY <1>1 DEF Verify, inspect, inspect_nuget, Carries
<1> DEFINE s == f.parts
           c == BodyOf(s, "signature")[2]
           R == signed_package_unsigned(s)
           Same == c.content[1] \in {signature_content(u, c.content[1][2]) : u \in R}
           Told1 == c.attrs.messageDigest = Hash(c.alg, c.content[1])
<1>3. check_nuget(f) = IF R = {} THEN "other" ELSE IF Same /\ Told1 THEN "ok" ELSE "mismatch"
  BY DEF check_nuget
<1>4. verify_nuget(f) => Has(s, "signature") /\ R # {} /\ Same /\ Told1
  <2> SUFFICES ASSUME verify_nuget(f) PROVE Has(s, "signature") /\ R # {} /\ Same /\ Told1
    OBVIOUS
  <2>1. PICK cut \in R : verify_detached(c, signature_content(cut, c.alg))
    BY DEF verify_nuget
  <2>2. IsSeq(s)
    BY DEF NuInv, NuShape
  <2>3. Has(s, "signature")
    <3> DEFINE w == Named(s, {"signature"})
    <3>1. IsSeq(w) /\ Len(w) = 1
      BY <2>1, <2>2, NamedFacts DEF signed_package_unsigned, When, Once
    <3> HIDE DEF w
    <3>2. w # <<>>
      BY <3>1, SeqFacts
    <3> QED
      BY <3>2 DEF w, Has
  <2>4. PICK p \in ToSet(s) : p.name = "signature" /\ BodyOf(s, "signature") = p.body
    BY <2>2, <2>3, HasFacts
  <2>5. Told1
    BY <2>4 DEF NuInv, NuDocument
  <2> DEFINE z == signature_content(cut, c.alg)
  <2>6. z[2] = c.alg
    BY DEF signature_content
  <2> HIDE DEF c
  <2>7. c.content[1] = z
    <3> HIDE DEF z
    <3>1. c.attrs.messageDigest = Hash(c.alg, z)
      BY <2>1 DEF verify_detached, z
    <3> QED
      BY <2>5, <3>1 DEF Hash
  <2>8. Same
    <3>1. signature_content(cut, c.content[1][2]) = c.content[1]
      BY <2>6, <2>7
    <3> QED
      BY <2>1, <3>1
  <2> QED
    BY <2>1, <2>3, <2>5, <2>8
<1> HIDE DEF R, Same, Told1
<1>5. /\ check_nuget(f) # "unsigned"
      /\ verify_nuget(f) => check_nuget(f) = "ok" /\ Has(s, "signature")
  BY <1>3, <1>4
<1> QED
  BY <1>1, <1>2, <1>5, Mapped DEF StatusFacts

LEMMA VsStatus ==
    ASSUME NEW f, NEW S, VsInv(f, S)
    PROVE  StatusFacts(f, S)
<1>1. f.fmt = "vsix"
  BY FormatOf
<1> DEFINE s == f.parts
           w == Named(s, {"origin", "signature"})
<1>2. /\ Verify(f) <=> verify_vsix(f)
      /\ inspect(f) = IF w = <<>> THEN "NotSigned" ELSE IF verify_vsix(f) THEN "Valid" ELSE "HashMismatch"
      /\ Content(f) = VsixContent(f) /\ (Carries(f) <=> Has(s, "signature"))
  BY <1>1 DEF Verify, inspect, inspect_vsix_opc, Content, Carries
<1>3. IsSeq(s)
  BY DEF VsInv, VsShape
<1>4. w = <<>> <=> \A p \in ToSet(s) : p.name \notin {"origin", "signature"}
  BY <1>3, NamedFacts
<1>5. Has(s, "signature") <=> \E p \in ToSet(s) : p.name = "signature"
  BY <1>3, HasFacts
<1>6. \A p \in ToSet(s) : p.name = "origin" => \E q \in ToSet(s) : q.name = "signature"
  BY DEF VsInv
<1>7. w = <<>> <=> ~Has(s, "signature")
  BY <1>4, <1>5, <1>6
<1>8. verify_vsix(f) => Has(s, "signature")
  <2> SUFFICES ASSUME verify_vsix(f) PROVE Has(s, "signature")
    OBVIOUS
  <2> DEFINE v == Named(s, {"signature"})
  <2>1. IsSeq(v) /\ Len(v) = 1
    BY <1>3, NamedFacts DEF verify_vsix, Once
  <2> HIDE DEF v
  <2>2. v # <<>>
    BY <2>1, SeqFacts
  <2> QED
    BY <2>2 DEF v, Has
<1>9. verify_vsix(f) => VsixContent(f) \in S
  BY VsVerified
<1> HIDE DEF w
<1> QED
  BY <1>2, <1>7, <1>8, <1>9 DEF StatusFacts

LEMMA CoStatus ==
    ASSUME NEW f, NEW S, CoInv(f, S)
    PROVE  StatusFacts(f, S)
<1>1. f.fmt = "clickonce"
  BY FormatOf
<1>2. /\ Verify(f) <=> verify_clickonce(f)
      /\ inspect(f) = IF OfKind(f.data, "xml") # <<>> THEN "Valid" ELSE "NotSigned"
      /\ (Carries(f) <=> OfKind(f.data, "xml") # <<>>)
  BY <1>1 DEF Verify, inspect, inspect_clickonce_manifest, Carries
<1>3. IsSeq(f.data)
  BY DEF CoInv
<1>4. verify_clickonce(f) => \E i \in DOMAIN f.data : f.data[i][1] = "xml"
  BY DEF verify_clickonce
<1>5. verify_clickonce(f) => OfKind(f.data, "xml") # <<>>
  BY <1>3, <1>4, OfKindFacts, SeqFacts
<1> QED
  BY <1>1, <1>2, <1>5 DEF StatusFacts, PresenceOnly

LEMMA AppStatus ==
    ASSUME NEW f, NEW S, AppInv(f, S)
    PROVE  StatusFacts(f, S)
<1>1. f.fmt = "appinstaller"
  BY FormatOf
<1>2. /\ Verify(f) <=> verify_appinstaller(f)
      /\ inspect(f) = IF f.companion # <<>> THEN "Valid" ELSE "NotSigned"
      /\ (Carries(f) <=> f.companion # <<>>)
  BY <1>1 DEF Verify, inspect, inspect_appinstaller, Carries
<1>3. verify_appinstaller(f) => f.companion # <<>>
  BY DEF verify_appinstaller
<1> QED
  BY <1>1, <1>2, <1>3 DEF StatusFacts, PresenceOnly

LEMMA FileStatus ==
    ASSUME NEW f, NEW S, FileInv(f, S)
    PROVE  StatusFacts(f, S)
BY PeStatus, CabStatus, MsiStatus, ScStatus, ZipStatus, MsixStatus, NuStatus, VsStatus, CoStatus,
   AppStatus DEF FileInv

(* What a reader is told of a file is so, whatever was done to it             *)
(* (portable_get_signature, map_digest_error, apply_trust_if_requested).      *)
THEOREM StatusTrue == Spec => []StatusIsTrue
<1>1. IInv => StatusIsTrue
  <2> SUFFICES ASSUME IInv PROVE StatusIsTrue
    OBVIOUS
  <2>1. StatusFacts(file, sealed)
    BY FileStatus DEF IInv
  <2>2. portable_get_signature(file, "none") = inspect(file)
    BY DEF portable_get_signature, apply_trust_if_requested
  <2>3. portable_get_signature(file, "anchored") = "Valid" => Verify(file)
    BY DEF portable_get_signature, apply_trust_if_requested
  <2> QED
    BY <2>1, <2>2, <2>3 DEF StatusFacts, StatusIsTrue
<1> QED
  BY <1>1, Sealed, PTL
=============================================================================
