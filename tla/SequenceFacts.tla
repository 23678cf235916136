--------------------------- MODULE SequenceFacts ---------------------------
(* Lemmas on sequences and their elements, for the proofs of this project. *)
EXTENDS Integers, Sequences, Functions, SequenceTheorems, TLAPS

\* A sequence given by its elements is a sequence of that length.
LEMMA MadeSeq ==
  ASSUME NEW S, NEW n \in Nat, NEW f \in [1 .. n -> S]
  PROVE  f \in Seq(S) /\ Len(f) = n /\ DOMAIN f = 1 .. n
<1>1. f \in Seq(S)
  BY SeqDef
<1>2. Len(f) \in Nat /\ DOMAIN f = 1 .. Len(f)
  BY <1>1, LenProperties
<1>3. 1 .. Len(f) = 1 .. n
  BY <1>2
<1>. QED
  BY <1>1, <1>2, <1>3

\* What appending does to the elements of a sequence.
LEMMA AppendElements ==
  ASSUME NEW S, NEW s \in Seq(S), NEW e \in S
  PROVE  /\ Append(s, e) \in Seq(S)
         /\ Len(Append(s, e)) = Len(s) + 1
         /\ DOMAIN Append(s, e) = 1 .. (Len(s) + 1)
         /\ DOMAIN s = 1 .. Len(s) /\ Len(s) \in Nat
         /\ \A i \in 1 .. Len(s) : Append(s, e)[i] = s[i]
         /\ Append(s, e)[Len(s) + 1] = e
         /\ Range(Append(s, e)) = Range(s) \cup {e}
<1>1. Append(s, e) \in Seq(S) /\ Len(Append(s, e)) = Len(s) + 1
      /\ (\A i \in 1 .. Len(s) : Append(s, e)[i] = s[i])
      /\ Append(s, e)[Len(s) + 1] = e
  BY AppendProperties
<1>2. DOMAIN s = 1 .. Len(s) /\ Len(s) \in Nat
  BY LenProperties
<1>3. DOMAIN Append(s, e) = 1 .. (Len(s) + 1)
  BY <1>1, LenProperties
<1>4. Range(Append(s, e)) \subseteq Range(s) \cup {e}
  <2>. SUFFICES ASSUME NEW i \in 1 .. (Len(s) + 1), Append(s, e)[i] # e
                PROVE  \E j \in DOMAIN s : Append(s, e)[i] = s[j]
    BY <1>3 DEF Range
  <2>1. i \in 1 .. Len(s)
    BY <1>1, <1>2
  <2>. QED
    BY <2>1, <1>1, <1>2
<1>5. Range(s) \cup {e} \subseteq Range(Append(s, e))
  <2>1. Len(s) + 1 \in 1 .. (Len(s) + 1)
    BY <1>2
  <2>2. \A i \in 1 .. Len(s) : i \in 1 .. (Len(s) + 1)
    BY <1>2
  <2>. QED
    BY <1>1, <1>2, <1>3, <2>1, <2>2 DEF Range
<1>. QED
  BY <1>1, <1>2, <1>3, <1>4, <1>5

\* An element of a sequence appended to is an old one in its place, or the new.
LEMMA AppendCases ==
  ASSUME NEW S, NEW s \in Seq(S), NEW e \in S, NEW i \in DOMAIN Append(s, e)
  PROVE  Append(s, e)[i] = e \/ (i \in DOMAIN s /\ Append(s, e)[i] = s[i])
<1>1. /\ DOMAIN Append(s, e) = 1 .. (Len(s) + 1) /\ DOMAIN s = 1 .. Len(s) /\ Len(s) \in Nat
      /\ \A k \in 1 .. Len(s) : Append(s, e)[k] = s[k]
      /\ Append(s, e)[Len(s) + 1] = e
  BY AppendElements
<1>2. i \in 1 .. Len(s) \/ i = Len(s) + 1
  BY <1>1
<1>. QED
  BY <1>1, <1>2

\* The elements of a sequence are in the set it is over.
LEMMA SeqElements ==
  ASSUME NEW S, NEW s \in Seq(S)
  PROVE  Range(s) \subseteq S /\ \A i \in DOMAIN s : s[i] \in S
<1>1. DOMAIN s = 1 .. Len(s) /\ \A i \in 1 .. Len(s) : s[i] \in S
  BY LenProperties, ElementOfSeq
<1>. QED
  BY <1>1 DEF Range

\* What is left of a sequence whose head has been taken.
LEMMA TailElements ==
  ASSUME NEW S, NEW s \in Seq(S), s # <<>>
  PROVE  /\ Head(s) \in S /\ Head(s) = s[1]
         /\ Tail(s) \in Seq(S)
         /\ DOMAIN Tail(s) = 1 .. (Len(s) - 1)
         /\ DOMAIN s = 1 .. Len(s) /\ Len(s) \in Nat \ {0}
         /\ \A i \in 1 .. (Len(s) - 1) : Tail(s)[i] = s[i + 1]
         /\ Range(s) = {Head(s)} \cup Range(Tail(s))
<1>1. /\ Head(s) \in S /\ Head(s) = s[1]
      /\ Tail(s) \in Seq(S) /\ Len(Tail(s)) = Len(s) - 1
      /\ \A i \in 1 .. Len(Tail(s)) : Tail(s)[i] = s[i + 1]
  BY HeadTailProperties
<1>2. DOMAIN s = 1 .. Len(s) /\ Len(s) \in Nat \ {0}
  BY LenProperties, EmptySeq
<1>3. DOMAIN Tail(s) = 1 .. (Len(s) - 1)
  BY <1>1, LenProperties
<1>4. Range(s) \subseteq {Head(s)} \cup Range(Tail(s))
  <2>. SUFFICES ASSUME NEW i \in 1 .. Len(s), s[i] # Head(s)
                PROVE  \E j \in DOMAIN Tail(s) : s[i] = Tail(s)[j]
    BY <1>2 DEF Range
  <2>1. i - 1 \in 1 .. (Len(s) - 1) /\ (i - 1) + 1 = i
    BY <1>1, <1>2
  <2>. QED
    BY <1>1, <1>3, <2>1
<1>5. {Head(s)} \cup Range(Tail(s)) \subseteq Range(s)
  <2>1. \A i \in 1 .. (Len(s) - 1) : i + 1 \in 1 .. Len(s)
    BY <1>2
  <2>2. 1 \in 1 .. Len(s)
    BY <1>2
  <2>. QED
    BY <1>1, <1>2, <1>3, <2>1, <2>2 DEF Range
<1>. QED
  BY <1>1, <1>2, <1>3, <1>4, <1>5

\* A sequence over a set is one over any larger set.
LEMMA SeqWidens ==
  ASSUME NEW S, NEW T, S \subseteq T, NEW s \in Seq(S)
  PROVE  s \in Seq(T)
<1>1. Len(s) \in Nat /\ DOMAIN s = 1 .. Len(s) /\ \A i \in 1 .. Len(s) : s[i] \in T
  BY LenProperties, ElementOfSeq
<1>2. s = [i \in 1 .. Len(s) |-> s[i]]
  BY SeqDef
<1>. QED
  BY <1>1, <1>2, MadeSeq

-----------------------------------------------------------------------------
(* The end of a sequence: what a table keeps under its cap *)

EndOf(s, n) == SubSeq(s, IF Len(s) > n THEN Len(s) - n + 1 ELSE 1, Len(s))

\* The last n elements of a sequence, or all of them.
LEMMA EndShape ==
  ASSUME NEW S, NEW s \in Seq(S), NEW n \in Nat
  PROVE  /\ EndOf(s, n) \in Seq(S)
         /\ Len(s) \in Nat
         /\ Len(EndOf(s, n)) = IF Len(s) > n THEN n ELSE Len(s)
         /\ \A i \in 1 .. Len(EndOf(s, n)) :
              /\ Len(s) - Len(EndOf(s, n)) + i \in 1 .. Len(s)
              /\ EndOf(s, n)[i] = s[Len(s) - Len(EndOf(s, n)) + i]
<1>. DEFINE l == Len(s)
            m == IF l > n THEN l - n + 1 ELSE 1
            k == Len(EndOf(s, n))
<1>1. l \in Nat /\ m \in 1 .. l + 1 /\ l - m + 1 = IF l > n THEN n ELSE l
  <2>1. l \in Nat
    BY LenProperties
  <2>. HIDE DEF l
  <2>. QED
    BY <2>1
<1>2. \A i \in m .. l : s[i] \in S
  <2>1. \A i \in m .. l : i \in 1 .. l
    <3>. HIDE DEF l, m
    <3>. QED
      BY <1>1
  <2>. QED
    BY <2>1, ElementOfSeq
<1>3. /\ EndOf(s, n) \in Seq(S)
      /\ k = IF m <= l THEN l - m + 1 ELSE 0
      /\ \A i \in 1 .. l - m + 1 : EndOf(s, n)[i] = s[m + i - 1]
  BY <1>1, <1>2, SubSeqProperties DEF EndOf
<1>4. k = l - m + 1
  <2>. HIDE DEF k, l, m
  <2>. QED
    BY <1>1, <1>3
<1>5. ASSUME NEW i \in 1 .. k
      PROVE  l - k + i \in 1 .. l /\ l - k + i = m + i - 1 /\ i \in 1 .. l - m + 1
  <2>. HIDE DEF k, l, m
  <2>. QED
    BY <1>1, <1>4
<1>6. k = IF l > n THEN n ELSE l
  BY <1>1, <1>4
<1>. QED
  BY <1>1, <1>3, <1>5, <1>6

\* Two sequences whose last elements are the same have the same end.
LEMMA SameEnd ==
  ASSUME NEW S, NEW s \in Seq(S), NEW t \in Seq(S), NEW n \in Nat,
         Len(EndOf(s, n)) = Len(EndOf(t, n)),
         \A i \in 1 .. Len(EndOf(s, n)) :
           s[Len(s) - Len(EndOf(s, n)) + i] = t[Len(t) - Len(EndOf(s, n)) + i]
  PROVE  EndOf(s, n) = EndOf(t, n)
<1>1. \A i \in 1 .. Len(EndOf(s, n)) : EndOf(s, n)[i] = EndOf(t, n)[i]
  BY EndShape
<1>. QED
  BY <1>1, EndShape, SeqEqual

\* The end of an end that is no shorter is the end.
LEMMA EndOfEnd ==
  ASSUME NEW S, NEW s \in Seq(S), NEW m \in Nat, NEW n \in Nat, n <= m
  PROVE  EndOf(EndOf(s, m), n) = EndOf(s, n)
<1>. DEFINE t == EndOf(s, m)
            a == Len(s)
            b == Len(t)
            k == Len(EndOf(t, n))
<1>1. /\ t \in Seq(S) /\ a \in Nat /\ b = IF a > m THEN m ELSE a
      /\ \A i \in 1 .. b : t[i] = s[a - b + i]
  BY EndShape
<1>2. /\ k = IF b > n THEN n ELSE b
      /\ Len(EndOf(s, n)) = IF a > n THEN n ELSE a
  BY <1>1, EndShape
<1>3. b \in Nat /\ k \in Nat /\ k <= b /\ Len(EndOf(s, n)) = k
  <2>. HIDE DEF a, b, k
  <2>. QED
    BY <1>1, <1>2
<1>4. ASSUME NEW i \in 1 .. k PROVE t[b - k + i] = s[a - k + i]
  <2>1. b - k + i \in 1 .. b /\ a - b + (b - k + i) = a - k + i
    <3>. HIDE DEF a, b, k
    <3>. QED
      BY <1>1, <1>3
  <2>. QED
    BY <1>1, <2>1
<1>. QED
  BY <1>1, <1>3, <1>4, SameEnd

\* What is appended to the end could as well be appended to the whole.
LEMMA EndOfAppend ==
  ASSUME NEW S, NEW s \in Seq(S), NEW e \in S, NEW n \in Nat \ {0}
  PROVE  EndOf(Append(EndOf(s, n), e), n) = EndOf(Append(s, e), n)
<1>. DEFINE t == EndOf(s, n)
            u == Append(t, e)
            v == Append(s, e)
            a == Len(s)
            b == Len(t)
            k == Len(EndOf(u, n))
<1>1. /\ t \in Seq(S) /\ a \in Nat /\ b \in Nat
      /\ b = IF a > n THEN n ELSE a
      /\ \A i \in 1 .. b : a - b + i \in 1 .. a /\ t[i] = s[a - b + i]
  BY EndShape
<1>2. /\ u \in Seq(S) /\ Len(u) = b + 1 /\ u[b + 1] = e
      /\ \A i \in 1 .. b : u[i] = t[i]
  BY <1>1, AppendProperties
<1>3. /\ v \in Seq(S) /\ Len(v) = a + 1 /\ v[a + 1] = e
      /\ \A i \in 1 .. a : v[i] = s[i]
  BY AppendProperties
<1>4. /\ k = IF b + 1 > n THEN n ELSE b + 1
      /\ Len(EndOf(v, n)) = IF a + 1 > n THEN n ELSE a + 1
  <2>. HIDE DEF u, v, a, b
  <2>1. Len(EndOf(u, n)) = IF Len(u) > n THEN n ELSE Len(u)
    BY <1>2, EndShape
  <2>2. Len(EndOf(v, n)) = IF Len(v) > n THEN n ELSE Len(v)
    BY <1>3, EndShape
  <2>. QED
    BY <1>2, <1>3, <2>1, <2>2
<1>5. k \in Nat /\ k <= b + 1 /\ Len(EndOf(v, n)) = k
  <2>. HIDE DEF a, b, k
  <2>. QED
    BY <1>1, <1>4
<1>6. ASSUME NEW i \in 1 .. k
      PROVE  u[b + 1 - k + i] = v[a + 1 - k + i]
  <2>. DEFINE j == b + 1 - k + i
  <2>1. /\ j \in 1 .. b \/ j = b + 1
        /\ a + 1 - k + i = a - b + j
        /\ a - b + (b + 1) = a + 1
    <3>. HIDE DEF a, b, k
    <3>. QED
      BY <1>1, <1>5
  <2>2. CASE j = b + 1
    BY <1>2, <1>3, <2>1, <2>2
  <2>3. CASE j \in 1 .. b
    BY <1>1, <1>2, <1>3, <2>1, <2>3
  <2>. QED
    BY <2>1, <2>2, <2>3
<1>7. EndOf(u, n) = EndOf(v, n)
  <2>. HIDE DEF u, v
  <2>1. \A i \in 1 .. Len(EndOf(u, n)) :
          u[Len(u) - Len(EndOf(u, n)) + i] = v[Len(v) - Len(EndOf(u, n)) + i]
    BY <1>2, <1>3, <1>6
  <2>. QED
    BY <1>2, <1>3, <1>5, <2>1, SameEnd
<1>. QED
  BY <1>7

\* Nothing of nothing.
LEMMA EndOfNone ==
  ASSUME NEW n \in Nat
  PROVE  EndOf(<<>>, n) = <<>>
<1>. DEFINE none == <<>>
<1>1. none \in Seq(Nat) /\ Len(none) = 0
  OBVIOUS
<1>2. EndOf(none, n) \in Seq(Nat) /\ Len(EndOf(none, n)) = IF Len(none) > n THEN n ELSE Len(none)
  <2>. HIDE DEF none
  <2>. QED
    BY <1>1, EndShape
<1>3. Len(EndOf(none, n)) = 0
  <2>. DEFINE k == Len(EndOf(none, n))
  <2>1. k = IF 0 > n THEN n ELSE 0
    BY <1>1, <1>2
  <2>. HIDE DEF k
  <2>2. k = 0
    BY <2>1
  <2>. QED
    BY <2>2 DEF k
<1>4. EndOf(none, n) = <<>>
  <2>. HIDE DEF none
  <2>. QED
    BY <1>2, <1>3, EmptySeq
<1>. QED
  BY <1>4

\* A sequence within its limit makes room for one more by losing its head.
LEMMA EndMakesRoom ==
  ASSUME NEW S, NEW s \in Seq(S), NEW e \in S, NEW n \in Nat \ {0}, Len(s) <= n
  PROVE  EndOf(Append(s, e), n) = Append(IF Len(s) >= n THEN Tail(s) ELSE s, e)
<1>. DEFINE u == Append(s, e)
            l == Len(s)
            v == EndOf(u, n)
<1>1. /\ u \in Seq(S) /\ Len(u) = l + 1 /\ u[l + 1] = e /\ l \in Nat
      /\ \A i \in 1 .. l : u[i] = s[i]
  BY AppendElements
<1>2. /\ v \in Seq(S)
      /\ Len(v) = IF l + 1 > n THEN n ELSE l + 1
      /\ \A i \in 1 .. Len(v) : v[i] = u[l + 1 - Len(v) + i]
  <2>1. /\ EndOf(u, n) \in Seq(S)
        /\ Len(EndOf(u, n)) = IF Len(u) > n THEN n ELSE Len(u)
        /\ \A i \in 1 .. Len(EndOf(u, n)) : EndOf(u, n)[i] = u[Len(u) - Len(EndOf(u, n)) + i]
    <3>. HIDE DEF u
    <3>. QED
      BY <1>1, EndShape
  <2>. HIDE DEF u, l
  <2>. QED
    BY <1>1, <2>1
<1>3. CASE l < n
  <2>1. Len(v) = l + 1
    <3>. HIDE DEF v, l
    <3>. QED
      BY <1>1, <1>2, <1>3
  <2>2. \A i \in 1 .. l + 1 : v[i] = u[i]
    <3>. HIDE DEF v, u, l
    <3>. QED
      BY <1>1, <1>2, <2>1
  <2>3. v = u
    <3>. HIDE DEF v, u
    <3>. QED
      BY <1>1, <1>2, <2>1, <2>2, SeqEqual
  <2>. QED
    BY <1>1, <1>3, <2>3
<1>4. CASE l = n
  <2>. DEFINE w == Append(Tail(s), e)
  <2>1. /\ Tail(s) \in Seq(S) /\ Len(Tail(s)) = l - 1
        /\ \A i \in 1 .. l - 1 : Tail(s)[i] = s[i + 1]
    BY <1>1, <1>4, EmptySeq, HeadTailProperties
  <2>2. /\ w \in Seq(S) /\ Len(w) = l /\ w[l] = e
        /\ \A i \in 1 .. l - 1 : w[i] = s[i + 1]
    <3>1. /\ w \in Seq(S) /\ Len(w) = Len(Tail(s)) + 1 /\ w[Len(Tail(s)) + 1] = e
          /\ \A i \in 1 .. Len(Tail(s)) : w[i] = Tail(s)[i]
      BY <2>1, AppendProperties
    <3>. QED
      BY <1>1, <2>1, <3>1
  <2>3. Len(v) = l
    <3>. HIDE DEF v, l
    <3>. QED
      BY <1>1, <1>2, <1>4
  <2>4. ASSUME NEW i \in 1 .. l PROVE v[i] = w[i]
    <3>1. v[i] = u[i + 1]
      <4>. HIDE DEF v, u, l
      <4>. QED
        BY <1>1, <1>2, <2>3
    <3>2. i = l \/ (i \in 1 .. l - 1 /\ i + 1 \in 1 .. l)
      <4>. HIDE DEF l
      <4>. QED
        BY <1>1
    <3>. QED
      BY <1>1, <2>2, <3>1, <3>2
  <2>5. v = w
    <3>. HIDE DEF v, w
    <3>. QED
      BY <1>1, <1>2, <2>2, <2>3, <2>4, SeqEqual
  <2>. QED
    BY <1>1, <1>4, <2>5
<1>. QED
  BY <1>1, <1>3, <1>4

=============================================================================
