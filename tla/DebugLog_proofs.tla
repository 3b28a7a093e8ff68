-------------------------- MODULE DebugLog_proofs --------------------------
(***************************************************************************)
(* Proofs about DebugLog: what is swept, what stays readable, for every    *)
(* text and every set of credentials.                                      *)
(***************************************************************************)
EXTENDS DebugLog, TLAPS, SequenceTheorems, FiniteSetTheorems, WellFoundedInduction

(***************************************************************************)
(* Induction over the naturals for a set, from the least element that a    *)
(* well-founded order gives to the numbers outside of it.                  *)
(***************************************************************************)
LEMMA SetInduction ==
    ASSUME NEW S, 0 \in S, \A n \in Nat : n \in S => n + 1 \in S
    PROVE  \A n \in Nat : n \in S
<1> DEFINE R == OpToRel(<, Nat)
           T == Nat \ S
<1>1. SUFFICES ASSUME T # {} PROVE FALSE
    BY Zenon
<1>2. IsWellFoundedOn(R, Nat)
    BY NatLessThanWellFounded
<1>3. T \subseteq Nat
    OBVIOUS
<1>4. \A x, y \in Nat : y < x => <<y, x>> \in R
    BY DEF OpToRel
<1> HIDE DEF R
<1>5. PICK x \in T : \A y \in T : ~(<<y, x>> \in R)
    BY <1>1, <1>2, <1>3, WFMin
<1>6. x # 0
    OBVIOUS
<1>7. x - 1 \in Nat /\ x - 1 < x
    BY <1>6
<1>8. x - 1 \in S
    BY <1>4, <1>5, <1>7
<1>9. QED
    BY <1>7, <1>8

\* The same from the end of an interval to its beginning.
LEMMA BackwardInduction ==
    ASSUME NEW S, NEW n \in Nat, n \in S,
           \A i \in 1..n : i > 1 /\ i \in S => i - 1 \in S
    PROVE  \A i \in 1..n : i \in S
<1> DEFINE D == {k \in Nat : k < n => n - k \in S}
<1>1. 0 \in D
    OBVIOUS
<1>2. ASSUME NEW k \in Nat, k \in D PROVE k + 1 \in D
    <2>1. SUFFICES ASSUME k + 1 < n PROVE n - (k + 1) \in S
        OBVIOUS
    <2>2. n - k \in 1..n /\ n - k > 1 /\ n - k \in S
        BY <1>2, <2>1
    <2>3. (n - k) - 1 \in S
        BY <2>2
    <2>4. QED
        BY <2>3
<1> HIDE DEF D
<1>3. \A k \in Nat : k \in D
    BY <1>1, <1>2, SetInduction
<1>4. ASSUME NEW i \in 1..n PROVE i \in S
    <2>1. n - i \in Nat /\ n - i \in D /\ n - i < n /\ n - (n - i) = i
        BY <1>3
    <2>2. QED
        BY <2>1 DEF D
<1>5. QED
    BY <1>4

LEMMA ForwardInduction ==
    ASSUME NEW S, NEW n \in Nat, 0 \in S,
           \A i \in 0..n : i < n /\ i \in S => i + 1 \in S
    PROVE  \A i \in 0..n : i \in S
<1> DEFINE D == {k \in Nat : k <= n => k \in S}
<1>1. 0 \in D
    OBVIOUS
<1>2. ASSUME NEW k \in Nat, k \in D PROVE k + 1 \in D
    BY <1>2
<1> HIDE DEF D
<1>3. \A k \in Nat : k \in D
    BY <1>1, <1>2, SetInduction
<1>4. QED
    BY <1>3 DEF D

-----------------------------------------------------------------------------
(***************************************************************************)
(* Replaced.  Its recursion along the text has a solution, and the texts   *)
(* it holds are, from the end to the beginning, what is left of each rest. *)
(***************************************************************************)
LEMMA OccursIsSubSeq ==
    ASSUME NEW text \in Text, NEW s \in Text, NEW i \in 1..Len(text)
    PROVE  Occurs(text, s, i) <=>
               i + Len(s) - 1 <= Len(text) /\ SubSeq(text, i, i + Len(s) - 1) = s
<1>1. SUFFICES ASSUME i + Len(s) - 1 <= Len(text)
               PROVE  (\A k \in 1..Len(s) : text[i + k - 1] = s[k])
                        <=> SubSeq(text, i, i + Len(s) - 1) = s
    BY DEF Occurs
<1> DEFINE part == SubSeq(text, i, i + Len(s) - 1)
<1>2. /\ text \in Seq(Word) /\ s \in Seq(Word) /\ Len(s) \in Nat
      /\ i \in Int /\ i >= 1 /\ i + Len(s) - 1 \in Int
    BY DEF Text
<1>3. part \in Seq(Word) /\ Len(part) = Len(s)
    BY <1>1, <1>2
<1>4. \A k \in 1..Len(s) : part[k] = text[i + k - 1]
    BY <1>1, <1>2
<1> HIDE DEF part
<1>5. part = s <=> \A k \in 1..Len(s) : part[k] = s[k]
    BY <1>2, <1>3, SeqEqual
<1>6. QED
    BY <1>4, <1>5 DEF part

Along(text, s, f, i) ==
    IF i > Len(text) THEN <<>>
    ELSE IF i + Len(s) - 1 <= Len(text) /\ SubSeq(text, i, i + Len(s) - 1) = s
         THEN Redacted \o f[i + Len(s)]
         ELSE <<text[i]>> \o f[i + 1]

Rests(text, s, f) == f = [i \in 1..(Len(text) + Len(s)) |-> Along(text, s, f, i)]

LEMMA RestsExist ==
    ASSUME NEW text \in Text, NEW s \in Text, Len(s) >= 1
    PROVE  \E f : Rests(text, s, f)
<1> DEFINE N == Len(text) + Len(s)
           Upto(k) == \E g : g = [i \in (N - k + 1)..N |-> Along(text, s, g, i)]
           D == {k \in 0..N : Upto(k)}
<1>0. Len(text) \in Nat /\ Len(s) \in Nat /\ N \in Nat /\ N >= 1
    BY DEF Text
<1>1. 0 \in D
    <2> DEFINE none == [i \in {} |-> 0]
    <2>1. (N - 0 + 1)..N = {}
        BY <1>0
    <2>2. none = [i \in (N - 0 + 1)..N |-> Along(text, s, none, i)]
        BY <2>1
    <2> HIDE DEF none
    <2>3. Upto(0)
        BY <2>2, Zenon
    <2>4. QED
        BY <2>3, <1>0
<1>2. ASSUME NEW k \in 0..N, k < N, k \in D PROVE k + 1 \in D
    <2> DEFINE j == N - k
    <2>1. PICK g : g = [i \in (j + 1)..N |-> Along(text, s, g, i)]
        BY <1>2
    <2> DEFINE h == [i \in j..N |-> IF i = j THEN Along(text, s, g, i) ELSE g[i]]
    <2>2. j \in 1..N
        BY <1>0, <1>2
    <2>3. \A i \in (j + 1)..N : h[i] = g[i]
        BY <2>2
    <2>4. ASSUME NEW i \in j..N PROVE Along(text, s, h, i) = Along(text, s, g, i)
        <3>1. CASE i > Len(text)
            BY <3>1 DEF Along
        <3>2. CASE i <= Len(text)
            <4>1. i + 1 \in (j + 1)..N
                BY <1>0, <2>2, <3>2
            <4>2. i + Len(s) - 1 <= Len(text) => i + Len(s) \in (j + 1)..N
                BY <1>0, <2>2, <3>2
            <4> HIDE DEF h, N, j
            <4>3. QED
                BY <2>3, <4>1, <4>2 DEF Along
        <3>3. QED
            BY <3>1, <3>2, <1>0, <2>2
    <2>5. ASSUME NEW i \in j..N PROVE h[i] = Along(text, s, h, i)
        <3>1. CASE i = j
            BY <2>4, <3>1
        <3>2. CASE i # j
            <4>1. i \in (j + 1)..N
                BY <2>2, <3>2
            <4>2. g[i] = Along(text, s, g, i)
                BY <2>1, <4>1
            <4>3. QED
                BY <2>3, <2>4, <4>1, <4>2
        <3>3. QED
            BY <3>1, <3>2
    <2>6. h = [i \in j..N |-> Along(text, s, h, i)]
        BY <2>5, Zenon
    <2>7. N - (k + 1) + 1 = j
        BY <1>0, <1>2
    <2>8. k + 1 \in 0..N
        BY <1>0, <1>2
    <2>9. Upto(k + 1)
        BY <2>6, <2>7, Zenon
    <2>10. QED
        BY <2>8, <2>9
<1> HIDE DEF D
<1>3. N \in D
    BY <1>0, <1>1, <1>2, ForwardInduction
<1>4. Upto(N) /\ N - N + 1 = 1
    BY <1>0, <1>3 DEF D
<1>5. QED
    BY <1>4 DEF Rests

LEMMA ReplacedUnfolds ==
    ASSUME NEW text \in Text, NEW s \in Text, Len(s) >= 1
    PROVE  \E f : Rests(text, s, f) /\ Replaced(text, s) = f[1]
<1> DEFINE f == CHOOSE g : Rests(text, s, g)
<1>1. Rests(text, s, f)
    BY RestsExist
<1>2. Replaced(text, s) = f[1]
    BY DEF Replaced, Rests, Along
<1>3. QED
    BY <1>1, <1>2

(***************************************************************************)
(* Where the words that no occurrence covers go to: neighbours stay        *)
(* neighbours, the ends stay ends, and all else is the mark of a mask.  It *)
(* takes that no occurrence of a literal begins within another one.        *)
(***************************************************************************)
Free(text, s, p) == \A j \in 1..Len(text) : ~Covers(text, s, j, p)

Boundary(text, s, i) ==
    \A j \in 1..Len(text) : Occurs(text, s, j) /\ j < i => j + Len(s) <= i

Moved(text, s, i, result, h) ==
    /\ h \in [1..Len(text) -> Nat]
    /\ \A p \in i..Len(text) : Free(text, s, p) =>
            h[p] \in 1..Len(result) /\ result[h[p]] = text[p]
    /\ \A p, r \in i..Len(text) :
            p <= r /\ (\A x \in p..r : Free(text, s, x)) => h[r] = h[p] + (r - p)
    /\ \A q \in 1..Len(result) :
            result[q] = "REDACTED" \/ \E p \in i..Len(text) : Free(text, s, p) /\ h[p] = q
    /\ i <= Len(text) /\ Free(text, s, i) => h[i] = 1
    /\ i <= Len(text) /\ Free(text, s, Len(text)) => h[Len(text)] = Len(result)

LEMMA LengthOfText ==
    \A t \in Text : Len(t) \in Nat /\ DOMAIN t = 1..Len(t) /\ \A i \in 1..Len(t) : t[i] \in Word
BY DEF Text

LEMMA PrependWord ==
    ASSUME NEW rest \in Text, NEW w \in Word
    PROVE  /\ <<w>> \o rest \in Text /\ Len(<<w>> \o rest) = Len(rest) + 1
           /\ (<<w>> \o rest)[1] = w
           /\ \A q \in 1..Len(rest) : (<<w>> \o rest)[q + 1] = rest[q]
<1>1. <<w>> \in Seq(Word) /\ Len(<<w>>) = 1 /\ <<w>>[1] = w /\ rest \in Seq(Word)
    BY DEF Text
<1>2. Len(rest) \in Nat
    BY LengthOfText
<1>3. /\ <<w>> \o rest \in Seq(Word)
      /\ Len(<<w>> \o rest) = Len(<<w>>) + Len(rest)
      /\ \A i \in 1..Len(<<w>>) + Len(rest) : (<<w>> \o rest)[i] =
            IF i <= Len(<<w>>) THEN <<w>>[i] ELSE rest[i - Len(<<w>>)]
    BY <1>1, ConcatProperties
<1> DEFINE all == <<w>> \o rest
<1> HIDE DEF all
<1>4. all \in Seq(Word) /\ Len(all) = 1 + Len(rest)
    BY <1>1, <1>3 DEF all
<1>5. \A i \in 1..(1 + Len(rest)) : all[i] = IF i <= 1 THEN w ELSE rest[i - 1]
    BY <1>1, <1>3 DEF all
<1>6. /\ all[1] = w /\ \A q \in 1..Len(rest) : all[q + 1] = rest[q]
    BY <1>2, <1>5
<1>7. QED
    BY <1>2, <1>4, <1>6 DEF all, Text

LEMMA PrependMask ==
    ASSUME NEW rest \in Text
    PROVE  /\ Redacted \o rest \in Text /\ Len(Redacted \o rest) = Len(rest) + 1
           /\ (Redacted \o rest)[1] = "REDACTED"
           /\ \A q \in 1..Len(rest) : (Redacted \o rest)[q + 1] = rest[q]
<1>1. "REDACTED" \in Word
    BY WordsAssumption DEF OwnWords
<1>2. QED
    BY <1>1, PrependWord DEF Redacted

LEMMA OccurrencesApart ==
    ASSUME NEW text \in Text, NEW s \in Text, NEW i, NEW j,
           Occurs(text, s, i), Occurs(text, s, j), i < j, ~Dovetails(s, s)
    PROVE  i + Len(s) <= j
<1> DEFINE o == j - i
<1>1. SUFFICES ASSUME j < i + Len(s) PROVE FALSE
    BY LengthOfText DEF Occurs
<1>2. o \in 1..(Len(s) - 1)
    BY <1>1, LengthOfText DEF Occurs
<1>3. ASSUME NEW k \in 1..(Len(s) - o) PROVE s[o + k] = s[k]
    <2>1. o + k \in 1..Len(s) /\ k \in 1..Len(s)
        BY <1>2, LengthOfText
    <2>2. i + (o + k) - 1 = j + k - 1
        BY LengthOfText DEF Occurs
    <2>3. s[o + k] = text[j + k - 1]
        BY <2>1, <2>2 DEF Occurs
    <2>4. QED
        BY <2>1, <2>3 DEF Occurs
<1>4. o + Len(s) > Len(s)
    BY <1>2, LengthOfText
<1>5. Dovetails(s, s)
    BY <1>2, <1>3, <1>4 DEF Dovetails
<1>6. QED
    BY <1>5

LEMMA MaskMoves ==
    ASSUME NEW text \in Text, NEW s \in Text, Len(s) >= 1, ~Dovetails(s, s),
           NEW i, Occurs(text, s, i),
           NEW rest \in Text, NEW g, Moved(text, s, i + Len(s), rest, g)
    PROVE  \E h : Moved(text, s, i, Redacted \o rest, h)
<1> DEFINE n == Len(text)
           h == [p \in 1..n |-> IF p >= i + Len(s) THEN g[p] + 1 ELSE 0]
           result == Redacted \o rest
<1>1. /\ n \in Nat /\ Len(s) \in Nat /\ i \in 1..n /\ i + Len(s) - 1 <= n
      /\ Len(result) = Len(rest) + 1 /\ Len(rest) \in Nat
      /\ result[1] = "REDACTED" /\ \A q \in 1..Len(rest) : result[q + 1] = rest[q]
    BY PrependMask, LengthOfText DEF Occurs
<1>2. \A p \in i..n : Free(text, s, p) => p \in (i + Len(s))..n
    BY <1>1 DEF Free, Covers
<1>3. /\ h \in [1..n -> Nat]
      /\ \A p \in (i + Len(s))..n : h[p] = g[p] + 1 /\ g[p] \in Nat
    <2>1. g \in [1..n -> Nat]
        BY DEF Moved
    <2>2. \A p \in 1..n : g[p] \in Nat
        BY <2>1
    <2>3. \A p \in (i + Len(s))..n : p \in 1..n /\ p >= i + Len(s)
        BY <1>1
    <2>4. QED
        BY <1>1, <2>2, <2>3
<1> HIDE DEF h, result, n
<1>4. ASSUME NEW p \in i..n, Free(text, s, p)
      PROVE  h[p] \in 1..Len(result) /\ result[h[p]] = text[p]
    <2>1. p \in (i + Len(s))..n
        BY <1>2, <1>4
    <2>2. g[p] \in 1..Len(rest) /\ rest[g[p]] = text[p]
        BY <1>4, <2>1 DEF Moved, n
    <2>3. h[p] = g[p] + 1
        BY <1>3, <2>1
    <2>4. g[p] + 1 \in 1..Len(result) /\ result[g[p] + 1] = rest[g[p]]
        BY <1>1, <2>2
    <2>5. QED
        BY <2>2, <2>3, <2>4, Zenon
<1>5. ASSUME NEW p \in i..n, NEW r \in i..n, p <= r, \A x \in p..r : Free(text, s, x)
      PROVE  h[r] = h[p] + (r - p)
    <2>1. p \in (i + Len(s))..n /\ r \in (i + Len(s))..n
        BY <1>1, <1>2, <1>5
    <2>2. g[r] = g[p] + (r - p)
        BY <1>5, <2>1 DEF Moved, n
    <2>3. /\ h[p] = g[p] + 1 /\ g[p] \in Nat /\ h[r] = g[r] + 1
          /\ p \in Int /\ r \in Int
        BY <1>1, <1>3, <2>1
    <2>4. QED
        BY <2>2, <2>3
<1>6. ASSUME NEW q \in 1..Len(result)
      PROVE  result[q] = "REDACTED" \/ \E p \in i..n : Free(text, s, p) /\ h[p] = q
    <2>1. CASE q = 1
        BY <1>1, <2>1
    <2>2. CASE q # 1
        <3>1. q - 1 \in 1..Len(rest) /\ result[q] = rest[q - 1]
            BY <1>1, <2>2
        <3>2. CASE rest[q - 1] = "REDACTED"
            BY <3>1, <3>2
        <3>3. CASE \E p \in (i + Len(s))..n : Free(text, s, p) /\ g[p] = q - 1
            BY <3>3, <1>1, <1>3
        <3>4. QED
            BY <3>1, <3>2, <3>3 DEF Moved, n
    <2>3. QED
        BY <2>1, <2>2
<1>7. ~Free(text, s, i)
    BY <1>1 DEF Free, Covers, n
<1>8. Free(text, s, n) => h[n] = Len(result)
    BY <1>1, <1>2, <1>3 DEF Moved, n
<1>9. Moved(text, s, i, result, h)
    BY <1>3, <1>4, <1>5, <1>6, <1>7, <1>8 DEF Moved, n
<1>10. QED
    BY <1>9 DEF result

LEMMA WordMoves ==
    ASSUME NEW text \in Text, NEW s \in Text, Len(s) >= 1,
           NEW i \in 1..Len(text), Free(text, s, i),
           NEW rest \in Text, NEW g, Moved(text, s, i + 1, rest, g),
           i = Len(text) => rest = <<>>
    PROVE  \E h : Moved(text, s, i, <<text[i]>> \o rest, h)
<1> DEFINE n == Len(text)
           h == [p \in 1..n |-> IF p > i THEN g[p] + 1 ELSE 1]
           result == <<text[i]>> \o rest
<1>1. /\ n \in Nat /\ i \in 1..n
      /\ Len(result) = Len(rest) + 1 /\ Len(rest) \in Nat
      /\ result[1] = text[i] /\ \A q \in 1..Len(rest) : result[q + 1] = rest[q]
    BY PrependWord, LengthOfText
<1>2. h[i] = 1
    OBVIOUS
<1>3. /\ h \in [1..n -> Nat]
      /\ \A p \in (i + 1)..n : h[p] = g[p] + 1 /\ g[p] \in Nat
    <2>1. g \in [1..n -> Nat]
        BY DEF Moved
    <2>2. QED
        BY <1>1, <2>1
<1> HIDE DEF h, result, n
<1>4. ASSUME NEW p \in i..n, Free(text, s, p)
      PROVE  h[p] \in 1..Len(result) /\ result[h[p]] = text[p]
    <2>1. CASE p = i
        BY <1>1, <1>2, <2>1
    <2>2. CASE p # i
        <3>1. p \in (i + 1)..n
            BY <1>1, <2>2
        <3>2. g[p] \in 1..Len(rest) /\ rest[g[p]] = text[p]
            BY <1>4, <3>1 DEF Moved, n
        <3>3. h[p] = g[p] + 1
            BY <1>3, <3>1
        <3>4. g[p] + 1 \in 1..Len(result) /\ result[g[p] + 1] = rest[g[p]]
            BY <1>1, <3>2
        <3>5. QED
            BY <3>2, <3>3, <3>4, Zenon
    <2>3. QED
        BY <2>1, <2>2
<1>5. ASSUME NEW p \in i..n, NEW r \in i..n, p <= r, \A x \in p..r : Free(text, s, x)
      PROVE  h[r] = h[p] + (r - p)
    <2>1. CASE p > i
        <3>1. p \in (i + 1)..n /\ r \in (i + 1)..n
            BY <1>1, <1>5, <2>1
        <3>2. g[r] = g[p] + (r - p)
            BY <1>5, <3>1 DEF Moved, n
        <3>3. /\ h[p] = g[p] + 1 /\ g[p] \in Nat /\ h[r] = g[r] + 1
              /\ p \in Int /\ r \in Int
            BY <1>1, <1>3, <3>1
        <3>4. QED
            BY <3>2, <3>3
    <2>2. CASE p = i /\ r = i
        BY <1>1, <1>2, <2>2
    <2>3. CASE p = i /\ r > i
        <3>1. i + 1 \in (i + 1)..n /\ r \in (i + 1)..n /\ i + 1 <= r
            BY <1>1, <2>3
        <3>2. \A x \in (i + 1)..r : Free(text, s, x)
            BY <1>1, <1>5, <2>3
        <3>3. g[r] = g[i + 1] + (r - (i + 1))
            BY <3>1, <3>2 DEF Moved, n
        <3>4. Free(text, s, i + 1) /\ i + 1 <= n
            BY <3>1, <3>2, <1>1
        <3>5. g[i + 1] = 1
            BY <3>4 DEF Moved, n
        <3>6. QED
            BY <1>1, <1>2, <1>3, <2>3, <3>1, <3>3, <3>5
    <2>4. QED
        BY <1>1, <1>5, <2>1, <2>2, <2>3
<1>6. ASSUME NEW q \in 1..Len(result)
      PROVE  result[q] = "REDACTED" \/ \E p \in i..n : Free(text, s, p) /\ h[p] = q
    <2>1. CASE q = 1
        BY <1>1, <1>2, <2>1
    <2>2. CASE q # 1
        <3>1. q - 1 \in 1..Len(rest) /\ result[q] = rest[q - 1]
            BY <1>1, <2>2
        <3>2. CASE rest[q - 1] = "REDACTED"
            BY <3>1, <3>2
        <3>3. CASE \E p \in (i + 1)..n : Free(text, s, p) /\ g[p] = q - 1
            BY <3>3, <1>1, <1>3
        <3>4. QED
            BY <3>1, <3>2, <3>3 DEF Moved, n
    <2>3. QED
        BY <2>1, <2>2
<1>7. Free(text, s, n) => h[n] = Len(result)
    <2>1. CASE i = n
        BY <1>1, <1>2, <2>1 DEF n
    <2>2. CASE i < n
        BY <1>1, <1>3, <2>2 DEF Moved, n
    <2>3. QED
        BY <1>1, <2>1, <2>2
<1>8. /\ i <= n /\ Free(text, s, i) => h[i] = 1
      /\ i <= n /\ Free(text, s, n) => h[n] = Len(result)
      /\ h \in [1..n -> Nat]
    BY <1>2, <1>3, <1>7
<1>9. Moved(text, s, i, result, h)
    BY <1>4, <1>5, <1>6, <1>8 DEF Moved, n
<1>10. QED
    BY <1>9 DEF result

LEMMA ReplacedMoves ==
    ASSUME NEW text \in Text, NEW s \in Text, Len(s) >= 1, ~Dovetails(s, s)
    PROVE  /\ Replaced(text, s) \in Text
           /\ \E h : Moved(text, s, 1, Replaced(text, s), h)
<1> DEFINE n == Len(text)
           N == Len(text) + Len(s)
<1>1. PICK f : Rests(text, s, f) /\ Replaced(text, s) = f[1]
    BY ReplacedUnfolds
<1>2. n \in Nat /\ Len(s) \in Nat /\ N \in Nat /\ N > n
    BY LengthOfText
<1>3. \A i \in 1..N : f[i] = Along(text, s, f, i)
    BY <1>1 DEF Rests
<1> DEFINE P(i) == /\ f[i] \in Text /\ (i > n => f[i] = <<>>)
                   /\ i > n \/ Boundary(text, s, i) => \E h : Moved(text, s, i, f[i], h)
           D == {i \in 1..N : \A m \in i..N : P(m)}
<1>4. ASSUME NEW i \in 1..N, i > n PROVE P(i)
    <2>1. f[i] = <<>>
        BY <1>2, <1>3, <1>4 DEF Along
    <2>2. <<>> \in Text /\ Len(<<>>) = 0
        BY DEF Text
    <2>3. Moved(text, s, i, <<>>, [p \in 1..Len(text) |-> 0])
        BY <2>2, <1>2, <1>4 DEF Moved
    <2>4. QED
        BY <2>1, <2>2, <2>3, <1>4
<1>5. ASSUME NEW i \in 1..n, \A m \in (i + 1)..N : P(m) PROVE P(i)
    <2>1. i \in 1..N /\ i + 1 \in (i + 1)..N /\ i + 1 \in 1..N
        BY <1>2
    <2>2. CASE Occurs(text, s, i)
        <3>1. i + Len(s) \in (i + 1)..N
            BY <1>2, <2>2 DEF Occurs
        <3>2. f[i] = Redacted \o f[i + Len(s)]
            <4>1. i + Len(s) - 1 <= n /\ SubSeq(text, i, i + Len(s) - 1) = s
                BY <2>2, OccursIsSubSeq
            <4>2. f[i] = Along(text, s, f, i) /\ ~(i > n)
                BY <1>2, <1>3, <2>1
            <4>3. QED
                BY <4>1, <4>2 DEF Along
        <3>3. f[i + Len(s)] \in Text
            BY <1>5, <3>1
        <3>4. Boundary(text, s, i) => Boundary(text, s, i + Len(s))
            <4>1. SUFFICES ASSUME Boundary(text, s, i), NEW j \in 1..n,
                                  Occurs(text, s, j), j < i + Len(s)
                           PROVE  j + Len(s) <= i + Len(s)
                BY DEF Boundary
            <4>2. CASE j < i
                BY <1>2, <4>1, <4>2 DEF Boundary
            <4>3. CASE j > i
                <5>1. i + Len(s) <= j
                    BY <2>2, <4>1, <4>3, OccurrencesApart
                <5>2. QED
                    BY <1>2, <4>1, <5>1
            <4>4. CASE j = i
                BY <1>2, <4>4
            <4>5. QED
                BY <1>2, <4>2, <4>3, <4>4
        <3>5. Boundary(text, s, i) => \E g : Moved(text, s, i + Len(s), f[i + Len(s)], g)
            BY <1>5, <3>1, <3>4
        <3>6. Boundary(text, s, i) => \E h : Moved(text, s, i, f[i], h)
            BY <2>2, <3>2, <3>3, <3>5, MaskMoves
        <3>7. f[i] \in Text
            BY <3>2, <3>3, PrependMask
        <3>8. QED
            BY <1>2, <3>6, <3>7
    <2>3. CASE ~Occurs(text, s, i)
        <3>1. f[i] = <<text[i]>> \o f[i + 1]
            <4>1. ~(i + Len(s) - 1 <= n /\ SubSeq(text, i, i + Len(s) - 1) = s)
                BY <2>3, OccursIsSubSeq
            <4>2. f[i] = Along(text, s, f, i) /\ ~(i > n)
                BY <1>2, <1>3, <2>1
            <4>3. QED
                BY <4>1, <4>2 DEF Along
        <3>2. f[i + 1] \in Text /\ text[i] \in Word
            BY <1>5, <2>1, LengthOfText
        <3>3. Boundary(text, s, i) => Boundary(text, s, i + 1) /\ Free(text, s, i)
            <4>1. SUFFICES ASSUME Boundary(text, s, i)
                           PROVE  Boundary(text, s, i + 1) /\ Free(text, s, i)
                OBVIOUS
            <4>2. ASSUME NEW j \in 1..n, Occurs(text, s, j), j <= i
                  PROVE  j + Len(s) <= i
                <5>1. j # i
                    BY <2>3, <4>2
                <5>2. QED
                    BY <4>1, <4>2, <5>1 DEF Boundary
            <4>3. Boundary(text, s, i + 1)
                BY <1>2, <4>2 DEF Boundary
            <4>4. QED
                BY <1>2, <4>2, <4>3 DEF Free, Covers
        <3>4. Boundary(text, s, i) => \E g : Moved(text, s, i + 1, f[i + 1], g)
            BY <1>5, <2>1, <3>3
        <3>5. i = n => f[i + 1] = <<>>
            BY <1>2, <1>5, <2>1
        <3>6. Boundary(text, s, i) => \E h : Moved(text, s, i, f[i], h)
            BY <3>1, <3>2, <3>3, <3>4, <3>5, WordMoves
        <3>7. f[i] \in Text
            BY <3>1, <3>2, PrependWord
        <3>8. QED
            BY <1>2, <3>6, <3>7
    <2>4. QED
        BY <2>2, <2>3
<1>6. N \in D
    <2>1. N \in 1..N /\ N..N = {N} /\ N > n
        BY <1>2
    <2>2. P(N)
        BY <1>4, <2>1
    <2> HIDE DEF P, N
    <2>3. QED
        BY <2>1, <2>2
<1>7. ASSUME NEW i \in 1..N, i > 1, i \in D PROVE i - 1 \in D
    <2>1. i - 1 \in 1..N /\ \A m \in i..N : P(m)
        BY <1>2, <1>7
    <2>2. P(i - 1)
        <3>1. CASE i - 1 > n
            BY <1>4, <2>1, <3>1
        <3>2. CASE i - 1 <= n
            <4>1. i - 1 \in 1..n /\ (i - 1) + 1 = i
                BY <1>2, <2>1, <3>2
            <4> HIDE DEF P, N, n
            <4>2. QED
                BY <1>5, <2>1, <4>1
        <3>3. QED
            BY <1>2, <3>1, <3>2
    <2> HIDE DEF P
    <2>3. ASSUME NEW m \in (i - 1)..N PROVE P(m)
        <3>1. m = i - 1 \/ m \in i..N
            BY <1>2
        <3>2. QED
            BY <2>1, <2>2, <3>1
    <2>4. QED
        BY <2>1, <2>3
<1> HIDE DEF D, P
<1>8. 1 \in D
    <2>1. 1 \in 1..N /\ N \in Nat
        BY <1>2
    <2> HIDE DEF N
    <2>2. QED
        BY <1>6, <1>7, <2>1, BackwardInduction
<1>9. P(1) /\ Boundary(text, s, 1)
    BY <1>2, <1>8 DEF D, Boundary
<1>10. QED
    BY <1>1, <1>9 DEF P

(***************************************************************************)
(* Sweeping a literal leaves what shorter ones cover, hides no word of its *)
(* own accord, and spares what stands between words of no literal.         *)
(***************************************************************************)
LEMMA CoveredStaysFree ==
    ASSUME NEW text \in Text, NEW s \in Text, NEW d \in Text, Len(d) <= Len(s),
           ~Dovetails(s, d), ~Dovetails(d, s),
           NEW j \in 1..Len(text), NEW p \in 1..Len(text), Covers(text, d, j, p),
           Free(text, s, p), NEW x \in j..(j + Len(d) - 1)
    PROVE  Free(text, s, x)
<1>1. SUFFICES ASSUME NEW m \in 1..Len(text), Covers(text, s, m, x) PROVE FALSE
    BY DEF Free
<1>2. /\ Len(text) \in Nat /\ Len(s) \in Nat /\ Len(d) \in Nat
      /\ m <= x /\ x < m + Len(s) /\ j <= x /\ x < j + Len(d)
      /\ j <= p /\ p < j + Len(d) /\ m + Len(s) - 1 <= Len(text)
    BY <1>1, LengthOfText DEF Covers, Occurs
<1>3. p < m \/ p >= m + Len(s)
    BY <1>1, <1>2 DEF Free, Covers
<1>4. CASE m < j
    <2> DEFINE o == j - m
    <2>1. o \in 1..(Len(s) - 1) /\ o + Len(d) > Len(s)
        BY <1>2, <1>3, <1>4
    <2>2. ASSUME NEW k \in 1..(Len(s) - o) PROVE s[o + k] = d[k]
        <3>1. o + k \in 1..Len(s) /\ k \in 1..Len(d) /\ m + (o + k) - 1 = j + k - 1
            BY <1>2, <2>1
        <3>2. text[m + (o + k) - 1] = s[o + k] /\ text[j + k - 1] = d[k]
            BY <1>1, <3>1 DEF Covers, Occurs
        <3>3. QED
            BY <3>1, <3>2
    <2> HIDE DEF o
    <2>3. QED
        BY <2>1, <2>2 DEF Dovetails
<1>5. CASE m >= j
    <2> DEFINE o == m - j
    <2>1. o \in 1..(Len(d) - 1) /\ o + Len(s) > Len(d)
        BY <1>2, <1>3, <1>5
    <2>2. ASSUME NEW k \in 1..(Len(d) - o) PROVE d[o + k] = s[k]
        <3>1. o + k \in 1..Len(d) /\ k \in 1..Len(s) /\ j + (o + k) - 1 = m + k - 1
            BY <1>2, <2>1
        <3>2. text[j + (o + k) - 1] = d[o + k] /\ text[m + k - 1] = s[k]
            BY <1>1, <3>1 DEF Covers, Occurs
        <3>3. QED
            BY <3>1, <3>2
    <2> HIDE DEF o
    <2>3. QED
        BY <2>1, <2>2 DEF Dovetails
<1>6. QED
    BY <1>2, <1>4, <1>5

LEMMA ReplaceCovers ==
    ASSUME NEW text \in Text, NEW s \in Text, NEW K \in SUBSET Text, NEW W,
           Len(s) >= 1, ~Dovetails(s, s), "REDACTED" \notin W,
           \A d \in K : /\ 1 <= Len(d) /\ Len(d) <= Len(s)
                        /\ ~Dovetails(s, d) /\ ~Dovetails(d, s),
           CoveredBy(text, K \cup {s}, W)
    PROVE  CoveredBy(Replaced(text, s), K, W)
<1> DEFINE result == Replaced(text, s)
           n == Len(text)
<1>1. PICK h : Moved(text, s, 1, result, h)
    BY ReplacedMoves
<1>2. result \in Text
    BY ReplacedMoves
<1> HIDE DEF result
<1>3. SUFFICES ASSUME NEW q \in 1..Len(result), result[q] \in W
               PROVE  \E d \in K : \E i \in 1..Len(result) : Covers(result, d, i, q)
    BY DEF CoveredBy, result
<1>4. PICK p \in 1..n : Free(text, s, p) /\ h[p] = q
    BY <1>1, <1>3 DEF Moved
<1>5. text[p] = result[q]
    BY <1>1, <1>4 DEF Moved
<1>6. PICK d \in K \cup {s}, j \in 1..n : Covers(text, d, j, p)
    BY <1>3, <1>5 DEF CoveredBy
<1>7. d \in K /\ d \in Text
    BY <1>4, <1>6 DEF Free
<1>8. \A x \in j..(j + Len(d) - 1) : Free(text, s, x)
    BY <1>4, <1>6, <1>7, CoveredStaysFree
<1>9. /\ n \in Nat /\ Len(d) \in Nat /\ Len(d) >= 1 /\ Len(result) \in Nat
      /\ j + Len(d) - 1 <= n /\ j <= p /\ p < j + Len(d)
    BY <1>2, <1>6, <1>7, LengthOfText DEF Covers, Occurs
<1>10. ASSUME NEW x \in j..(j + Len(d) - 1)
       PROVE  h[x] \in 1..Len(result) /\ result[h[x]] = text[x] /\ h[x] = h[j] + (x - j)
    <2>1. x \in 1..n /\ j <= x /\ Free(text, s, x) /\ \A y \in j..x : Free(text, s, y)
        BY <1>8, <1>9
    <2>2. QED
        BY <1>1, <2>1 DEF Moved
<1> DEFINE last == j + Len(d) - 1
<1>11. j \in j..last /\ last \in j..last /\ p \in j..last
    BY <1>9
<1>12. h[j] \in 1..Len(result) /\ h[last] \in 1..Len(result)
       /\ h[last] = h[j] + (last - j) /\ q = h[j] + (p - j)
    BY <1>4, <1>10, <1>11
<1>13. ASSUME NEW k \in 1..Len(d) PROVE result[h[j] + k - 1] = d[k]
    <2>1. j + k - 1 \in j..last
        BY <1>9
    <2>2. result[h[j + k - 1]] = text[j + k - 1] /\ h[j + k - 1] = h[j] + ((j + k - 1) - j)
        BY <1>10, <2>1
    <2>3. text[j + k - 1] = d[k]
        BY <1>6 DEF Covers, Occurs
    <2>4. h[j] + ((j + k - 1) - j) = h[j] + k - 1
        BY <1>12
    <2>5. QED
        BY <2>2, <2>3, <2>4, Zenon
<1>14. Covers(result, d, h[j], q)
    BY <1>9, <1>11, <1>12, <1>13 DEF Covers, Occurs
<1>15. QED
    BY <1>7, <1>12, <1>14

LEMMA ReplaceAddsNoWord ==
    ASSUME NEW text \in Text, NEW s \in Text, Len(s) >= 1, ~Dovetails(s, s)
    PROVE  /\ Replaced(text, s) \in Text
           /\ \A q \in 1..Len(Replaced(text, s)) :
                Replaced(text, s)[q] = "REDACTED"
                \/ \E p \in 1..Len(text) : text[p] = Replaced(text, s)[q]
<1>1. PICK h : Moved(text, s, 1, Replaced(text, s), h)
    BY ReplacedMoves
<1>2. Replaced(text, s) \in Text
    BY ReplacedMoves
<1>3. QED
    BY <1>1, <1>2 DEF Moved

\* v is in the text, and what is next to it begins or ends no literal.
Stands(text, v, B) ==
    \E p \in 1..Len(text) :
        /\ Occurs(text, v, p)
        /\ p = 1 \/ v[1] \notin B
        /\ \/ p + Len(v) > Len(text) \/ v[Len(v)] \notin B
           \/ text[p + Len(v)] \notin B

LEMMA ReplaceSpares ==
    ASSUME NEW text \in Text, NEW s \in Text, Len(s) >= 1, ~Dovetails(s, s),
           NEW B, \A k \in 1..Len(s) : s[k] \in B,
           NEW v \in Text, Len(v) >= 1, \A j \in 1..Len(v) : ~Occurs(v, s, j),
           Stands(text, v, B)
    PROVE  Stands(Replaced(text, s), v, B)
<1> DEFINE result == Replaced(text, s)
           n == Len(text)
<1>1. PICK h : Moved(text, s, 1, result, h)
    BY ReplacedMoves
<1>2. result \in Text
    BY ReplacedMoves
<1> HIDE DEF result
<1>3. PICK p \in 1..n : /\ Occurs(text, v, p)
                        /\ p = 1 \/ v[1] \notin B
                        /\ \/ p + Len(v) > n \/ v[Len(v)] \notin B
                           \/ text[p + Len(v)] \notin B
    BY DEF Stands
<1>4. /\ n \in Nat /\ Len(s) \in Nat /\ Len(v) \in Nat /\ Len(result) \in Nat
      /\ p + Len(v) - 1 <= n
    BY <1>2, <1>3, LengthOfText DEF Occurs
<1>5. ASSUME NEW x \in 1..n, text[x] \notin B PROVE Free(text, s, x)
    <2>1. SUFFICES ASSUME NEW m \in 1..n, Covers(text, s, m, x) PROVE FALSE
        BY DEF Free
    <2>2. x - m + 1 \in 1..Len(s) /\ m + (x - m + 1) - 1 = x
        BY <1>4, <2>1 DEF Covers, Occurs
    <2>3. text[x] = s[x - m + 1]
        BY <2>1, <2>2 DEF Covers, Occurs
    <2>4. QED
        BY <1>5, <2>2, <2>3
<1>6. ASSUME NEW x \in p..(p + Len(v) - 1) PROVE Free(text, s, x)
    <2>1. SUFFICES ASSUME NEW m \in 1..n, Covers(text, s, m, x) PROVE FALSE
        BY DEF Free
    <2>2. m <= x /\ x < m + Len(s) /\ m + Len(s) - 1 <= n
        BY <2>1 DEF Covers, Occurs
    <2>3. m >= p
        <3>1. SUFFICES ASSUME m < p PROVE FALSE
            BY <1>4
        <3>2. p # 1 /\ Covers(text, s, m, p) /\ text[p] \notin B
            <4>1. 1 \in 1..Len(v) /\ p + 1 - 1 = p
                BY <1>4
            <4>2. text[p] = v[1]
                BY <1>3, <4>1 DEF Occurs
            <4>3. QED
                BY <1>3, <1>4, <2>1, <2>2, <3>1, <4>2 DEF Covers
        <3>3. QED
            BY <1>5, <3>2 DEF Free
    <2>4. m + Len(s) <= p + Len(v)
        <3>1. SUFFICES ASSUME m + Len(s) > p + Len(v) PROVE FALSE
            BY <1>4
        <3>2. p + Len(v) \in 1..n /\ Covers(text, s, m, p + Len(v))
            BY <1>3, <1>4, <2>1, <2>2, <3>1 DEF Covers
        <3>3. v[Len(v)] \in B
            <4>1. Len(v) \in 1..Len(v) /\ p + Len(v) - 1 \in 1..n
                BY <1>4
            <4>2. text[p + Len(v) - 1] = v[Len(v)]
                BY <1>3, <4>1 DEF Occurs
            <4>3. Covers(text, s, m, p + Len(v) - 1)
                BY <1>4, <2>1, <2>2, <3>1 DEF Covers
            <4>4. QED
                BY <1>5, <4>1, <4>2, <4>3 DEF Free
        <3>4. QED
            BY <1>3, <1>4, <1>5, <3>2, <3>3 DEF Free
    <2> DEFINE j == m - p + 1
    <2>5. j \in 1..Len(v) /\ j + Len(s) - 1 <= Len(v)
        BY <1>4, <2>2, <2>3, <2>4
    <2>6. ASSUME NEW k \in 1..Len(s) PROVE v[j + k - 1] = s[k]
        <3>1. j + k - 1 \in 1..Len(v) /\ p + (j + k - 1) - 1 = m + k - 1
            BY <1>4, <2>5
        <3>2. text[p + (j + k - 1) - 1] = v[j + k - 1]
            BY <1>3, <3>1 DEF Occurs
        <3>3. text[m + k - 1] = s[k]
            BY <2>1 DEF Covers, Occurs
        <3>4. QED
            BY <3>1, <3>2, <3>3
    <2> HIDE DEF j
    <2>7. QED
        BY <2>5, <2>6 DEF Occurs
<1>7. ASSUME NEW x \in p..(p + Len(v)), x <= n, x = p + Len(v) => text[x] \notin B
      PROVE  Free(text, s, x)
    <2>1. CASE x = p + Len(v)
        <3>1. x \in 1..n
            BY <1>4, <1>7
        <3>2. QED
            BY <1>5, <1>7, <2>1, <3>1
    <2>2. CASE x # p + Len(v)
        <3>1. x \in p..(p + Len(v) - 1)
            BY <1>4, <1>7, <2>2
        <3>2. QED
            BY <1>6, <3>1
    <2>3. QED
        BY <2>1, <2>2
<1>8. ASSUME NEW x \in p..(p + Len(v)), x <= n, x = p + Len(v) => text[x] \notin B
      PROVE  h[x] \in 1..Len(result) /\ result[h[x]] = text[x] /\ h[x] = h[p] + (x - p)
    <2>1. x \in 1..n /\ p <= x /\ Free(text, s, x) /\ \A y \in p..x : Free(text, s, y)
        BY <1>4, <1>7, <1>8
    <2>2. QED
        BY <1>1, <2>1 DEF Moved
<1> DEFINE last == p + Len(v) - 1
<1>9. /\ p \in p..(p + Len(v)) /\ last \in p..(p + Len(v)) /\ last <= n /\ p <= n
      /\ last \in Int /\ last # p + Len(v) /\ p # p + Len(v)
    BY <1>4
<1>10. /\ h[p] \in 1..Len(result) /\ h[last] \in 1..Len(result)
       /\ h[last] = h[p] + (last - p)
    BY <1>8, <1>9
<1>11. ASSUME NEW k \in 1..Len(v) PROVE result[h[p] + k - 1] = v[k]
    <2>1. p + k - 1 \in p..(p + Len(v)) /\ p + k - 1 <= n /\ p + k - 1 # p + Len(v)
        BY <1>4
    <2>2. result[h[p + k - 1]] = text[p + k - 1] /\ h[p + k - 1] = h[p] + ((p + k - 1) - p)
        BY <1>8, <2>1
    <2>3. text[p + k - 1] = v[k]
        BY <1>3 DEF Occurs
    <2>4. h[p] + ((p + k - 1) - p) = h[p] + k - 1
        BY <1>10
    <2>5. QED
        BY <2>2, <2>3, <2>4
<1>12. Occurs(result, v, h[p])
    BY <1>4, <1>10, <1>11 DEF Occurs
<1>13. h[p] = 1 \/ v[1] \notin B
    <2>1. CASE p = 1
        <3>1. Free(text, s, 1) /\ 1 <= n
            BY <1>7, <1>9, <2>1
        <3>2. QED
            BY <1>1, <2>1, <3>1 DEF Moved
    <2>2. QED
        BY <1>3, <2>1
<1>14. \/ h[p] + Len(v) > Len(result) \/ v[Len(v)] \notin B
       \/ result[h[p] + Len(v)] \notin B
    <2>1. CASE p + Len(v) > n
        <3>1. last = n /\ Free(text, s, n) /\ 1 <= n
            BY <1>4, <1>7, <1>9, <2>1
        <3>2. h[n] = Len(result)
            BY <1>1, <3>1 DEF Moved
        <3>3. h[last] = Len(result)
            BY <3>1, <3>2, Zenon
        <3>4. last - p = Len(v) - 1
            BY <1>4
        <3> HIDE DEF last
        <3>5. QED
            BY <1>4, <1>10, <3>3, <3>4
    <2>2. CASE p + Len(v) <= n /\ v[Len(v)] \in B
        <3>1. p + Len(v) \in p..(p + Len(v)) /\ text[p + Len(v)] \notin B
            BY <1>3, <1>4, <2>2
        <3>2. /\ result[h[p + Len(v)]] = text[p + Len(v)]
              /\ h[p + Len(v)] = h[p] + ((p + Len(v)) - p)
            BY <1>8, <2>2, <3>1
        <3>3. h[p] + ((p + Len(v)) - p) = h[p] + Len(v)
            BY <1>4, <1>10
        <3>4. QED
            BY <1>3, <1>4, <2>2, <3>2, <3>3
    <2>3. QED
        BY <1>4, <2>1, <2>2
<1>15. QED
    BY <1>10, <1>12, <1>13, <1>14 DEF Stands, result

(***************************************************************************)
(* Scrub sweeps one literal after the other.                               *)
(***************************************************************************)
Sweepable(known) ==
    /\ known \in Seq(Text)
    /\ \A i \in 1..Len(known) : Len(known[i]) >= 1
    /\ \A i, j \in 1..Len(known) : i < j => Len(known[i]) >= Len(known[j])
    /\ \A i, j \in 1..Len(known) : ~Dovetails(known[i], known[j])

Sweeping(known, text, f) ==
    f = [n \in 0..Len(known) |-> IF n = 0 THEN text ELSE Replaced(f[n - 1], known[n])]

LEMMA SweepingExists ==
    ASSUME NEW known, Len(known) \in Nat, NEW text
    PROVE  \E f : Sweeping(known, text, f)
<1> DEFINE Step(g, n) == IF n = 0 THEN text ELSE Replaced(g[n - 1], known[n])
           Upto(m) == \E g : g = [n \in 0..m |-> Step(g, n)]
           D == {m \in 0..Len(known) : Upto(m)}
<1>1. 0 \in D
    <2> DEFINE g == [n \in 0..0 |-> text]
    <2>1. \A n \in 0..0 : text = Step(g, n)
        OBVIOUS
    <2>2. g = [n \in 0..0 |-> Step(g, n)]
        BY <2>1
    <2> HIDE DEF g
    <2>3. QED
        BY <2>2
<1>2. ASSUME NEW m \in 0..Len(known), m < Len(known), m \in D PROVE m + 1 \in D
    <2>1. PICK g : g = [n \in 0..m |-> Step(g, n)]
        BY <1>2
    <2> DEFINE h == [n \in 0..(m + 1) |-> IF n <= m THEN g[n] ELSE Step(g, n)]
    <2>2. \A n \in 0..m : h[n] = g[n]
        OBVIOUS
    <2>3. ASSUME NEW n \in 0..(m + 1) PROVE Step(h, n) = Step(g, n)
        <3>1. CASE n = 0
            BY <3>1
        <3>2. CASE n # 0
            <4>1. n - 1 \in 0..m
                BY <3>2
            <4>2. h[n - 1] = g[n - 1]
                BY <2>2, <4>1
            <4> HIDE DEF h
            <4>3. QED
                BY <4>2
        <3>3. QED
            BY <3>1, <3>2
    <2>4. ASSUME NEW n \in 0..(m + 1) PROVE h[n] = Step(h, n)
        <3>1. CASE n <= m
            <4>1. n \in 0..m
                BY <3>1
            <4>2. g[n] = Step(g, n)
                BY <2>1, <4>1
            <4> HIDE DEF Step
            <4>3. QED
                BY <2>2, <2>3, <4>1, <4>2
        <3>2. CASE n > m
            <4> HIDE DEF Step
            <4>1. h[n] = Step(g, n)
                BY <3>2
            <4>2. QED
                BY <2>3, <4>1
        <3>3. QED
            BY <3>1, <3>2
    <2> HIDE DEF Step
    <2>5. h = [n \in 0..(m + 1) |-> Step(h, n)]
        BY <2>4, Zenon
    <2>6. Upto(m + 1)
        BY <2>5
    <2>7. QED
        BY <1>2, <2>6
<1> HIDE DEF D
<1>3. \A n \in 0..Len(known) : n \in D
    BY <1>1, <1>2, ForwardInduction, Zenon
<1>4. QED
    BY <1>3 DEF D, Sweeping

LEMMA ScrubUnfolds ==
    ASSUME NEW known, Len(known) \in Nat, NEW text
    PROVE  \E f : Sweeping(known, text, f) /\ Scrub(known, text) = f[Len(known)]
<1> DEFINE f == CHOOSE g : Sweeping(known, text, g)
<1>1. Sweeping(known, text, f)
    BY SweepingExists
<1>2. Scrub(known, text) = f[Len(known)]
    BY DEF Scrub, Sweeping
<1>3. QED
    BY <1>1, <1>2

\* What a sweep of one literal keeps, a sweep of all of them keeps.
LEMMA ScrubKeeps ==
    ASSUME NEW known, Len(known) \in Nat, NEW text, NEW Kept,
           <<0, text>> \in Kept,
           \A n \in 1..Len(known), t \in Text :
                <<n - 1, t>> \in Kept =>
                    Replaced(t, known[n]) \in Text /\ <<n, Replaced(t, known[n])>> \in Kept,
           text \in Text
    PROVE  Scrub(known, text) \in Text /\ <<Len(known), Scrub(known, text)>> \in Kept
<1>1. PICK f : Sweeping(known, text, f) /\ Scrub(known, text) = f[Len(known)]
    BY ScrubUnfolds
<1>2. f[0] = text /\ \A n \in 1..Len(known) : f[n] = Replaced(f[n - 1], known[n])
    BY <1>1 DEF Sweeping
<1> DEFINE D == {n \in 0..Len(known) : f[n] \in Text /\ <<n, f[n]>> \in Kept}
<1>3. 0 \in D
    BY <1>2
<1>4. ASSUME NEW n \in 0..Len(known), n < Len(known), n \in D PROVE n + 1 \in D
    <2>1. n + 1 \in 1..Len(known) /\ (n + 1) - 1 = n
        BY <1>4
    <2>2. f[n + 1] = Replaced(f[n], known[n + 1])
        BY <1>2, <2>1
    <2>3. f[n] \in Text /\ <<n, f[n]>> \in Kept
        BY <1>4
    <2>4. f[n + 1] \in Text /\ <<n + 1, f[n + 1]>> \in Kept
        BY <2>1, <2>2, <2>3
    <2>5. QED
        BY <2>1, <2>4
<1> HIDE DEF D
<1>5. \A n \in 0..Len(known) : n \in D
    BY <1>3, <1>4, ForwardInduction, Zenon
<1>6. QED
    BY <1>1, <1>5 DEF D

LEMMA ScrubAddsNoWord ==
    ASSUME NEW known, Sweepable(known), NEW text \in Text
    PROVE  /\ Scrub(known, text) \in Text
           /\ \A q \in 1..Len(Scrub(known, text)) :
                Scrub(known, text)[q] = "REDACTED"
                \/ \E p \in 1..Len(text) : text[p] = Scrub(known, text)[q]
<1> DEFINE From(t) ==
            \A q \in 1..Len(t) : t[q] = "REDACTED" \/ \E p \in 1..Len(text) : text[p] = t[q]
           Kept == {e \in Nat \X Text : From(e[2])}
<1>1. Len(known) \in Nat /\ \A n \in 1..Len(known) : known[n] \in Text
    BY DEF Sweepable
<1>2. <<0, text>> \in Kept
    OBVIOUS
<1>3. ASSUME NEW n \in 1..Len(known), NEW t \in Text, <<n - 1, t>> \in Kept
      PROVE  Replaced(t, known[n]) \in Text /\ <<n, Replaced(t, known[n])>> \in Kept
    <2>1. known[n] \in Text /\ Len(known[n]) >= 1 /\ ~Dovetails(known[n], known[n])
        BY <1>1 DEF Sweepable
    <2>2. From(t)
        BY <1>3
    <2>3. Replaced(t, known[n]) \in Text
        BY <2>1, ReplaceAddsNoWord
    <2>4. From(Replaced(t, known[n]))
        BY <2>1, <2>2, ReplaceAddsNoWord
    <2>5. n \in Nat
        BY <1>1
    <2> HIDE DEF From
    <2>6. QED
        BY <2>3, <2>4, <2>5
<1> HIDE DEF Kept
<1>4. Scrub(known, text) \in Text /\ <<Len(known), Scrub(known, text)>> \in Kept
    BY <1>1, <1>2, <1>3, ScrubKeeps
<1>5. QED
    BY <1>4 DEF Kept

LEMMA ScrubClears ==
    ASSUME NEW known, Sweepable(known), NEW text \in Text, NEW W, "REDACTED" \notin W,
           CoveredBy(text, ToSet(known), W)
    PROVE  \A q \in 1..Len(Scrub(known, text)) : Scrub(known, text)[q] \notin W
<1> DEFINE Left(n) == {known[j] : j \in (n + 1)..Len(known)}
           Kept == {e \in (0..Len(known)) \X Text : CoveredBy(e[2], Left(e[1]), W)}
<1>1. /\ Len(known) \in Nat /\ DOMAIN known = 1..Len(known)
      /\ \A n \in 1..Len(known) : known[n] \in Text
    BY DEF Sweepable
<1>2. <<0, text>> \in Kept
    <2>1. Left(0) = ToSet(known)
        BY <1>1 DEF ToSet
    <2> HIDE DEF Left
    <2>2. QED
        BY <1>1, <2>1
<1>3. ASSUME NEW n \in 1..Len(known), NEW t \in Text, <<n - 1, t>> \in Kept
      PROVE  Replaced(t, known[n]) \in Text /\ <<n, Replaced(t, known[n])>> \in Kept
    <2>1. known[n] \in Text /\ Len(known[n]) >= 1 /\ ~Dovetails(known[n], known[n])
        BY <1>1 DEF Sweepable
    <2>2. Left(n - 1) = Left(n) \cup {known[n]}
        <3>1. ((n - 1) + 1)..Len(known) = ((n + 1)..Len(known)) \cup {n}
            BY <1>1
        <3>2. QED
            BY <3>1
    <2>3. /\ Left(n) \in SUBSET Text
          /\ \A d \in Left(n) : /\ 1 <= Len(d) /\ Len(d) <= Len(known[n])
                                /\ ~Dovetails(known[n], d) /\ ~Dovetails(d, known[n])
        <3>1. \A j \in (n + 1)..Len(known) : j \in 1..Len(known) /\ n < j
            BY <1>1
        <3>2. \A j \in 1..Len(known) : Len(known[j]) \in Nat
            BY <1>1, LengthOfText
        <3>3. QED
            BY <1>1, <3>1, <3>2 DEF Sweepable
    <2>4. CoveredBy(t, Left(n) \cup {known[n]}, W)
        <3> HIDE DEF Left
        <3>1. CoveredBy(t, Left(n - 1), W)
            BY <1>3
        <3>2. QED
            BY <2>2, <3>1
    <2> HIDE DEF Left
    <2>5. CoveredBy(Replaced(t, known[n]), Left(n), W)
        BY <2>1, <2>3, <2>4, ReplaceCovers
    <2>6. Replaced(t, known[n]) \in Text
        BY <2>1, ReplaceAddsNoWord
    <2>7. n \in 0..Len(known)
        BY <1>1
    <2>8. QED
        BY <2>5, <2>6, <2>7
<1> HIDE DEF Kept
<1>4. Scrub(known, text) \in Text /\ <<Len(known), Scrub(known, text)>> \in Kept
    BY <1>1, <1>2, <1>3, ScrubKeeps
<1>5. Left(Len(known)) = {}
    BY <1>1
<1> HIDE DEF Left
<1>6. CoveredBy(Scrub(known, text), {}, W)
    BY <1>4, <1>5 DEF Kept
<1>7. QED
    BY <1>6 DEF CoveredBy

LEMMA ScrubSpares ==
    ASSUME NEW known, Sweepable(known), NEW text \in Text,
           NEW B, \A i \in 1..Len(known) : \A k \in 1..Len(known[i]) : known[i][k] \in B,
           NEW v \in Text, Len(v) >= 1,
           \A i \in 1..Len(known) : \A j \in 1..Len(v) : ~Occurs(v, known[i], j),
           Stands(text, v, B)
    PROVE  Stands(Scrub(known, text), v, B)
<1> DEFINE Kept == {e \in Nat \X Text : Stands(e[2], v, B)}
<1>1. Len(known) \in Nat /\ \A n \in 1..Len(known) : known[n] \in Text
    BY DEF Sweepable
<1>2. <<0, text>> \in Kept
    OBVIOUS
<1>3. ASSUME NEW n \in 1..Len(known), NEW t \in Text, <<n - 1, t>> \in Kept
      PROVE  Replaced(t, known[n]) \in Text /\ <<n, Replaced(t, known[n])>> \in Kept
    <2>1. known[n] \in Text /\ Len(known[n]) >= 1 /\ ~Dovetails(known[n], known[n])
        BY <1>1 DEF Sweepable
    <2>2. Stands(t, v, B)
        BY <1>3
    <2>3. Replaced(t, known[n]) \in Text
        BY <2>1, ReplaceAddsNoWord
    <2>4. Stands(Replaced(t, known[n]), v, B)
        BY <2>1, <2>2, ReplaceSpares
    <2>5. n \in Nat
        BY <1>1
    <2>6. QED
        BY <2>3, <2>4, <2>5
<1> HIDE DEF Kept
<1>4. Scrub(known, text) \in Text /\ <<Len(known), Scrub(known, text)>> \in Kept
    BY <1>1, <1>2, <1>3, ScrubKeeps
<1>5. QED
    BY <1>4 DEF Kept

-----------------------------------------------------------------------------
(***************************************************************************)
(* The literals are kept longest first; a finite set has such an order.    *)
(***************************************************************************)
LEMMA LeastNumber ==
    ASSUME NEW T \in SUBSET Nat, T # {}
    PROVE  \E m \in T : \A k \in T : m <= k
<1> DEFINE R == OpToRel(<, Nat)
<1>1. IsWellFoundedOn(R, Nat)
    BY NatLessThanWellFounded
<1>2. \A x, y \in Nat : y < x => <<y, x>> \in R
    BY DEF OpToRel
<1> HIDE DEF R
<1>3. PICK x \in T : \A y \in T : ~(<<y, x>> \in R)
    BY <1>1, WFMin
<1>4. \A y \in T : ~(y < x)
    BY <1>2, <1>3
<1>5. QED
    BY <1>4

Enumerates(f, n, S) ==
    /\ f \in [1..n -> S]
    /\ \A i, j \in 1..n : i # j => f[i] # f[j]
    /\ \A i, j \in 1..n : i < j => Len(f[i]) >= Len(f[j])

LEMMA SortedExists ==
    ASSUME NEW S \in SUBSET Text, IsFiniteSet(S)
    PROVE  \E f : Enumerates(f, Cardinality(S), S)
<1> DEFINE D == {n \in Nat : \A U \in SUBSET Text :
                    IsFiniteSet(U) /\ Cardinality(U) = n => \E f : Enumerates(f, n, U)}
<1>1. 0 \in D
    <2>1. ASSUME NEW U \in SUBSET Text PROVE \E f : Enumerates(f, 0, U)
        <3>1. 1..0 = {}
            OBVIOUS
        <3>2. Enumerates([i \in 1..0 |-> i], 0, U)
            BY <3>1 DEF Enumerates
        <3>3. QED
            BY <3>2
    <2>2. QED
        BY <2>1
<1>2. ASSUME NEW n \in Nat, n \in D PROVE n + 1 \in D
    <2>1. SUFFICES ASSUME NEW U \in SUBSET Text, IsFiniteSet(U), Cardinality(U) = n + 1
                   PROVE  \E f : Enumerates(f, n + 1, U)
        OBVIOUS
    <2>2. U # {}
        BY <2>1, FS_EmptySet
    <2> DEFINE T == {Len(t) : t \in U}
    <2>3. T \in SUBSET Nat /\ T # {}
        BY <2>2, LengthOfText
    <2>4. PICK x \in U : \A y \in U : Len(x) <= Len(y)
        <3>1. PICK m \in T : \A k \in T : m <= k
            BY <2>3, LeastNumber
        <3>2. QED
            BY <3>1
    <2>5. IsFiniteSet(U \ {x}) /\ Cardinality(U \ {x}) = n
        <3>1. IsFiniteSet(U \ {x}) /\ Cardinality(U \ {x}) = Cardinality(U) - 1
            BY <2>1, <2>4, FS_RemoveElement, Zenon
        <3>2. QED
            BY <2>1, <3>1
    <2>6. PICK f : Enumerates(f, n, U \ {x})
        BY <1>2, <2>5
    <2> DEFINE g == [i \in 1..(n + 1) |-> IF i <= n THEN f[i] ELSE x]
    <2>7. \A i \in 1..n : g[i] = f[i] /\ g[i] \in U /\ g[i] # x
        BY <2>6 DEF Enumerates
    <2>8. g[n + 1] = x
        OBVIOUS
    <2>9. g \in [1..(n + 1) -> U]
        BY <2>6 DEF Enumerates
    <2> HIDE DEF g
    <2>10. ASSUME NEW i \in 1..(n + 1), NEW j \in 1..(n + 1), i # j PROVE g[i] # g[j]
        <3>1. CASE i \in 1..n /\ j \in 1..n
            BY <2>6, <2>7, <2>10, <3>1 DEF Enumerates
        <3>2. CASE i = n + 1
            BY <2>7, <2>8, <2>10, <3>2
        <3>3. CASE j = n + 1
            BY <2>7, <2>8, <2>10, <3>3
        <3>4. QED
            BY <3>1, <3>2, <3>3
    <2>11. ASSUME NEW i \in 1..(n + 1), NEW j \in 1..(n + 1), i < j
           PROVE  Len(g[i]) >= Len(g[j])
        <3>1. CASE j \in 1..n
            <4>1. i \in 1..n
                BY <2>11, <3>1
            <4>2. QED
                BY <2>6, <2>7, <2>11, <3>1, <4>1 DEF Enumerates
        <3>2. CASE j = n + 1
            <4>1. i \in 1..n /\ x \in Text /\ g[i] \in Text
                BY <2>7, <2>11, <3>2
            <4>2. Len(x) \in Nat /\ Len(g[i]) \in Nat /\ Len(x) <= Len(g[i])
                BY <2>4, <2>7, <4>1, LengthOfText
            <4>3. QED
                BY <2>8, <3>2, <4>2
        <3>3. QED
            BY <3>1, <3>2
    <2>12. QED
        BY <2>9, <2>10, <2>11 DEF Enumerates
<1> HIDE DEF D
<1>3. \A n \in Nat : n \in D
    BY <1>1, <1>2, SetInduction
<1>4. Cardinality(S) \in Nat
    BY FS_CardinalityType
<1>5. QED
    BY <1>3, <1>4 DEF D

LEMMA OrdersEnumerate ==
    ASSUME NEW S \in SUBSET Text, IsFiniteSet(S)
    PROVE  \A g : Enumerates(g, Cardinality(S), S) <=> g \in Orders(S)
<1> DEFINE n == Cardinality(S)
<1>1. n \in Nat
    BY FS_CardinalityType
<1>2. \A g \in [1..n -> S] : g \in Seq(Text) /\ Len(g) = n
    BY <1>1
<1>3. \A g : Enumerates(g, n, S) <=> g \in SetToSeqs(S) /\ IsSorted(g, Before)
    BY <1>2 DEF Enumerates, SetToSeqs, IsSorted, Before
<1>4. QED
    BY <1>3 DEF Orders

\* So a credential can always be registered.
LEMMA OrdersExist ==
    ASSUME NEW S \in SUBSET Text, IsFiniteSet(S)
    PROVE  Orders(S) # {}
BY SortedExists, OrdersEnumerate

LEMMA OrdersAreSorted ==
    ASSUME NEW S \in SUBSET Text, IsFiniteSet(S), NEW f \in Orders(S)
    PROVE  /\ f \in Seq(Text) /\ ToSet(f) = S
           /\ \A i, j \in 1..Len(f) : i < j => Len(f[i]) >= Len(f[j])
<1> DEFINE n == Cardinality(S)
<1>1. n \in Nat
    BY FS_CardinalityType
<1>2. \A g \in [1..n -> S] : g \in Seq(Text) /\ Len(g) = n
    BY <1>1
<1>3. Enumerates(f, n, S)
    BY OrdersEnumerate
<1>4. f \in Seq(Text) /\ Len(f) = n /\ f \in [1..n -> S]
    BY <1>2, <1>3 DEF Enumerates
<1>5. f \in Surjection(1..n, S)
    <2>1. f \in Injection(1..n, S)
        BY <1>3 DEF Enumerates, Injection, IsInjective
    <2>2. IsFiniteSet(1..n) /\ Cardinality(1..n) = n
        BY <1>1, FS_Interval
    <2>3. QED
        BY <2>1, <2>2, FS_Injection
<1>6. ToSet(f) = S
    <2> HIDE DEF n
    <2>1. DOMAIN f = 1..n /\ \A i \in 1..n : f[i] \in S
        BY <1>4
    <2>2. \A t \in S : \E i \in 1..n : f[i] = t
        BY <1>5 DEF Surjection
    <2>3. QED
        BY <2>1, <2>2 DEF ToSet
<1>7. QED
    BY <1>3, <1>4, <1>6 DEF Enumerates

LEMMA RangeIsFinite ==
    ASSUME NEW S, NEW s \in Seq(S)
    PROVE  IsFiniteSet(ToSet(s)) /\ ToSet(s) \in SUBSET S
<1>1. Len(s) \in Nat /\ DOMAIN s = 1..Len(s) /\ \A i \in 1..Len(s) : s[i] \in S
    OBVIOUS
<1>2. s \in Surjection(1..Len(s), ToSet(s))
    BY <1>1 DEF Surjection, ToSet
<1>3. IsFiniteSet(1..Len(s))
    BY <1>1, FS_Interval
<1>4. QED
    BY <1>1, <1>2, <1>3, FS_Surjection DEF ToSet

LEMMA RegisteredIs ==
    ASSUME NEW known \in Seq(Text), \A i \in 1..Len(known) : Len(known[i]) >= MinSecretLen,
           NEW values \in SUBSET Text, IsFiniteSet(values)
    PROVE  /\ Registered(known, values) # {}
           /\ \A r \in Registered(known, values) :
                /\ r \in Seq(Text) /\ ToSet(r) = ToSet(known) \cup Long(values)
                /\ \A i \in 1..Len(r) : Len(r[i]) >= MinSecretLen
                /\ \A i, j \in 1..Len(r) : i < j => Len(r[i]) >= Len(r[j])
<1> DEFINE S == ToSet(known) \cup {v \in values \ {<<>>} : LongEnough(v)}
<1>1. IsFiniteSet(ToSet(known)) /\ ToSet(known) \in SUBSET Text
    BY RangeIsFinite
<1>2. {v \in values \ {<<>>} : LongEnough(v)} = Long(values)
    <2>1. Len(<<>>) = 0 /\ MinSecretLen \in Nat /\ MinSecretLen >= 1
        BY LimitsAssumption
    <2>2. QED
        BY <2>1 DEF LongEnough, Long
<1>3. IsFiniteSet(Long(values)) /\ Long(values) \in SUBSET Text
    BY FS_Subset DEF Long
<1>4. IsFiniteSet(S) /\ S \in SUBSET Text
    BY <1>1, <1>2, <1>3, FS_Union
<1> HIDE DEF S
<1>5. Registered(known, values) = Orders(S) /\ S = ToSet(known) \cup Long(values)
    BY <1>2 DEF Registered, S
<1>6. Registered(known, values) # {}
    BY <1>4, <1>5, OrdersExist
<1>7. ASSUME NEW r \in Registered(known, values)
      PROVE  /\ r \in Seq(Text) /\ ToSet(r) = S
             /\ \A i, j \in 1..Len(r) : i < j => Len(r[i]) >= Len(r[j])
    BY <1>4, <1>5, <1>7, OrdersAreSorted
<1>8. ASSUME NEW r \in Registered(known, values), NEW i \in 1..Len(r)
      PROVE  Len(r[i]) >= MinSecretLen
    <2>1. r[i] \in ToSet(r)
        BY <1>7 DEF ToSet
    <2>2. CASE r[i] \in Long(values)
        BY <2>2 DEF Long
    <2>3. CASE r[i] \in ToSet(known)
        <3>1. PICK j \in DOMAIN known : known[j] = r[i]
            BY <2>3 DEF ToSet
        <3>2. j \in 1..Len(known)
            BY <3>1
        <3>3. QED
            BY <3>1, <3>2
    <2>4. QED
        BY <1>5, <1>7, <2>1, <2>2, <2>3
<1>9. QED
    BY <1>5, <1>6, <1>7, <1>8

LEMMA ReplacedTyped ==
    ASSUME NEW text \in Text, NEW s \in Text, Len(s) >= 1
    PROVE  Replaced(text, s) \in Text
<1> DEFINE N == Len(text) + Len(s)
<1>1. PICK f : Rests(text, s, f) /\ Replaced(text, s) = f[1]
    BY ReplacedUnfolds
<1>2. Len(text) \in Nat /\ Len(s) \in Nat /\ N \in Nat /\ N > Len(text)
    BY LengthOfText
<1>3. \A i \in 1..N : f[i] = Along(text, s, f, i)
    BY <1>1 DEF Rests
<1> DEFINE D == {i \in 1..N : \A m \in i..N : f[m] \in Text}
<1>4. ASSUME NEW i \in 1..N, \A m \in (i + 1)..N : f[m] \in Text PROVE f[i] \in Text
    <2>1. CASE i > Len(text)
        <3>1. f[i] = <<>>
            BY <1>3, <2>1 DEF Along
        <3>2. QED
            BY <3>1 DEF Text
    <2>2. CASE i <= Len(text) /\ i + Len(s) - 1 <= Len(text) /\ SubSeq(text, i, i + Len(s) - 1) = s
        <3>1. f[i] = Along(text, s, f, i) /\ ~(i > Len(text)) /\ i + Len(s) \in (i + 1)..N
            BY <1>2, <1>3, <2>2
        <3> HIDE DEF N
        <3>2. f[i] = Redacted \o f[i + Len(s)]
            BY <2>2, <3>1 DEF Along
        <3>3. QED
            BY <1>4, <3>1, <3>2, PrependMask
    <2>3. CASE i <= Len(text) /\ ~(i + Len(s) - 1 <= Len(text) /\ SubSeq(text, i, i + Len(s) - 1) = s)
        <3>1. /\ f[i] = Along(text, s, f, i) /\ ~(i > Len(text))
              /\ i + 1 \in (i + 1)..N /\ i \in 1..Len(text)
            BY <1>2, <1>3, <2>3
        <3> HIDE DEF N
        <3>2. f[i] = <<text[i]>> \o f[i + 1]
            BY <2>3, <3>1 DEF Along
        <3>3. text[i] \in Word /\ f[i + 1] \in Text
            BY <1>4, <3>1, LengthOfText
        <3>4. QED
            BY <3>2, <3>3, PrependWord
    <2>4. QED
        BY <1>2, <2>1, <2>2, <2>3
<1>5. N \in D
    <2>1. N \in 1..N /\ N..N = {N} /\ (N + 1)..N = {}
        BY <1>2
    <2>2. f[N] \in Text
        BY <1>4, <2>1
    <2> HIDE DEF N
    <2>3. QED
        BY <2>1, <2>2
<1>6. ASSUME NEW i \in 1..N, i > 1, i \in D PROVE i - 1 \in D
    <2>1. i - 1 \in 1..N /\ (i - 1) + 1 = i /\ \A m \in i..N : f[m] \in Text
        BY <1>2, <1>6
    <2>2. f[i - 1] \in Text
        BY <1>4, <2>1
    <2>3. \A m \in (i - 1)..N : m = i - 1 \/ m \in i..N
        BY <1>2
    <2> HIDE DEF N
    <2>4. QED
        BY <2>1, <2>2, <2>3
<1> HIDE DEF D
<1>7. 1 \in D
    <2>1. 1 \in 1..N /\ N \in Nat
        BY <1>2
    <2> HIDE DEF N
    <2>2. QED
        BY <1>5, <1>6, <2>1, BackwardInduction
<1>8. QED
    BY <1>1, <1>2, <1>7 DEF D

LEMMA ScrubTyped ==
    ASSUME NEW known \in Seq(Text), \A i \in 1..Len(known) : Len(known[i]) >= 1,
           NEW text \in Text
    PROVE  Scrub(known, text) \in Text
<1> DEFINE Kept == Nat \X Text
<1>1. Len(known) \in Nat /\ \A n \in 1..Len(known) : known[n] \in Text /\ n \in Nat
    OBVIOUS
<1>2. <<0, text>> \in Kept
    OBVIOUS
<1>3. ASSUME NEW n \in 1..Len(known), NEW t \in Text, <<n - 1, t>> \in Kept
      PROVE  Replaced(t, known[n]) \in Text /\ <<n, Replaced(t, known[n])>> \in Kept
    BY <1>1, ReplacedTyped
<1> HIDE DEF Kept
<1>4. QED
    BY <1>1, <1>2, <1>3, ScrubKeeps

-----------------------------------------------------------------------------
(***************************************************************************)
(* A body's text is its parts one after the other.                         *)
(***************************************************************************)
LEMMA Joined ==
    ASSUME NEW a \in Text, NEW b \in Text
    PROVE  /\ a \o b \in Text /\ Len(a \o b) = Len(a) + Len(b)
           /\ \A i \in 1..Len(a) : (a \o b)[i] = a[i]
           /\ \A i \in 1..Len(b) : (a \o b)[Len(a) + i] = b[i]
           /\ ToSet(a \o b) = ToSet(a) \cup ToSet(b)
<1>1. Len(a) \in Nat /\ Len(b) \in Nat /\ a \in Seq(Word) /\ b \in Seq(Word)
    BY DEF Text
<1>2. /\ a \o b \in Seq(Word) /\ Len(a \o b) = Len(a) + Len(b)
      /\ \A i \in 1..Len(a) + Len(b) :
            (a \o b)[i] = IF i <= Len(a) THEN a[i] ELSE b[i - Len(a)]
    BY <1>1, ConcatProperties
<1> DEFINE all == a \o b
<1> HIDE DEF all
<1>3. /\ all \in Seq(Word) /\ Len(all) = Len(a) + Len(b)
      /\ \A i \in 1..Len(a) + Len(b) : all[i] = IF i <= Len(a) THEN a[i] ELSE b[i - Len(a)]
    BY <1>2 DEF all
<1>4. \A i \in 1..Len(a) : all[i] = a[i]
    BY <1>1, <1>3
<1>5. \A i \in 1..Len(b) : all[Len(a) + i] = b[i]
    <2>1. \A i \in 1..Len(b) : Len(a) + i \in 1..Len(a) + Len(b) /\ ~(Len(a) + i <= Len(a))
                               /\ (Len(a) + i) - Len(a) = i
        BY <1>1
    <2>2. QED
        BY <1>3, <2>1
<1>6. /\ DOMAIN a = 1..Len(a) /\ DOMAIN b = 1..Len(b)
      /\ DOMAIN all = 1..Len(a) + Len(b)
    BY <1>1, <1>3
<1>7. \A i \in 1..Len(a) + Len(b) : i \in 1..Len(a) \/ i - Len(a) \in 1..Len(b)
    BY <1>1
<1>8. \A i \in 1..Len(a) : i \in 1..Len(a) + Len(b)
    BY <1>1
<1>9. \A i \in 1..Len(b) : Len(a) + i \in 1..Len(a) + Len(b)
    BY <1>1
<1>10. ToSet(all) = ToSet(a) \cup ToSet(b)
    <2>1. ToSet(all) \subseteq ToSet(a) \cup ToSet(b)
        BY <1>3, <1>6, <1>7 DEF ToSet
    <2>2. ToSet(a) \subseteq ToSet(all)
        BY <1>4, <1>6, <1>8 DEF ToSet
    <2>3. ToSet(b) \subseteq ToSet(all)
        BY <1>5, <1>6, <1>9 DEF ToSet
    <2>4. QED
        BY <2>1, <2>2, <2>3
<1>11. QED
    BY <1>3, <1>4, <1>5, <1>10 DEF all, Text

Flattening(parts, f) ==
    f = [i \in 1..Len(parts) |-> IF i = 1 THEN parts[i] ELSE f[i - 1] \o parts[i]]

LEMMA FlatteningExists ==
    ASSUME NEW parts, Len(parts) \in Nat
    PROVE  \E f : Flattening(parts, f)
<1> DEFINE Step(g, n) == IF n = 1 THEN parts[n] ELSE g[n - 1] \o parts[n]
           Upto(m) == \E g : g = [n \in 1..m |-> Step(g, n)]
           D == {m \in 0..Len(parts) : Upto(m)}
<1>1. 0 \in D
    <2> DEFINE g == [n \in {} |-> 0]
    <2>1. 1..0 = {}
        OBVIOUS
    <2>2. g = [n \in 1..0 |-> Step(g, n)]
        BY <2>1
    <2>3. Upto(0)
        BY <2>2, Zenon
    <2>4. 0 \in 0..Len(parts)
        OBVIOUS
    <2>5. QED
        BY <2>3, <2>4
<1>2. ASSUME NEW m \in 0..Len(parts), m < Len(parts), m \in D PROVE m + 1 \in D
    <2>1. PICK g : g = [n \in 1..m |-> Step(g, n)]
        BY <1>2
    <2> DEFINE h == [n \in 1..(m + 1) |-> IF n <= m THEN g[n] ELSE Step(g, n)]
    <2>2. \A n \in 1..m : h[n] = g[n]
        OBVIOUS
    <2>3. ASSUME NEW n \in 1..(m + 1) PROVE Step(h, n) = Step(g, n)
        <3>1. CASE n = 1
            BY <3>1
        <3>2. CASE n # 1
            <4>1. n - 1 \in 1..m
                BY <3>2
            <4>2. h[n - 1] = g[n - 1]
                BY <2>2, <4>1
            <4> HIDE DEF h
            <4>3. QED
                BY <4>2
        <3>3. QED
            BY <3>1, <3>2
    <2>4. ASSUME NEW n \in 1..(m + 1) PROVE h[n] = Step(h, n)
        <3>1. CASE n <= m
            <4>1. n \in 1..m
                BY <3>1
            <4>2. g[n] = Step(g, n)
                BY <2>1, <4>1
            <4> HIDE DEF Step
            <4>3. QED
                BY <2>2, <2>3, <4>1, <4>2
        <3>2. CASE n > m
            <4> HIDE DEF Step
            <4>1. h[n] = Step(g, n)
                BY <3>2
            <4>2. QED
                BY <2>3, <4>1
        <3>3. QED
            BY <3>1, <3>2
    <2> HIDE DEF Step
    <2>5. h = [n \in 1..(m + 1) |-> Step(h, n)]
        BY <2>4, Zenon
    <2>6. Upto(m + 1)
        BY <2>5
    <2>7. QED
        BY <1>2, <2>6
<1> HIDE DEF D
<1>3. \A n \in 0..Len(parts) : n \in D
    BY <1>1, <1>2, ForwardInduction, Zenon
<1>4. Len(parts) \in D
    BY <1>3
<1>5. QED
    BY <1>4, Zenon DEF D, Flattening

\* Where the first m parts are in the text.
Placed(parts, m, text, at) ==
    /\ text \in Text
    /\ \A i \in 1..m : at[i] \in Nat /\ at[i] + Len(parts[i]) <= Len(text)
    /\ \A i \in 1..m : \A k \in 1..Len(parts[i]) : text[at[i] + k] = parts[i][k]
    /\ \A q \in 1..Len(text) : \E i \in 1..m : q - at[i] \in 1..Len(parts[i])
    /\ \A i \in 1..m : at[i] + Len(parts[i]) = IF i < m THEN at[i + 1] ELSE Len(text)
    /\ at[1] = 0

LEMMA PlacedNext ==
    ASSUME NEW parts \in Seq(Text), NEW m \in 1..(Len(parts) - 1), NEW text, NEW at,
           Placed(parts, m, text, at)
    PROVE  \E to : Placed(parts, m + 1, text \o parts[m + 1], to)
<1> DEFINE new == parts[m + 1]
           all == text \o new
           to == [i \in 1..(m + 1) |-> IF i <= m THEN at[i] ELSE Len(text)]
<1>1. /\ m \in Nat /\ m >= 1 /\ new \in Text /\ text \in Text
      /\ Len(text) \in Nat /\ Len(new) \in Nat
      /\ \A i \in 1..m : parts[i] \in Text /\ Len(parts[i]) \in Nat
    <2>1. Len(parts) \in Nat /\ \A i \in 1..Len(parts) : parts[i] \in Text
        OBVIOUS
    <2>2. m + 1 \in 1..Len(parts) /\ \A i \in 1..m : i \in 1..Len(parts)
        BY <2>1
    <2>3. QED
        BY <2>1, <2>2, LengthOfText DEF Placed
<1>2. /\ all \in Text /\ Len(all) = Len(text) + Len(new)
      /\ \A i \in 1..Len(text) : all[i] = text[i]
      /\ \A i \in 1..Len(new) : all[Len(text) + i] = new[i]
    BY <1>1, Joined
<1>3. (\A i \in 1..m : to[i] = at[i]) /\ to[m + 1] = Len(text) /\ 1 \in 1..m
    BY <1>1
<1> HIDE DEF to, all
<1>4. \A i \in 1..(m + 1) : i \in 1..m \/ i = m + 1
    BY <1>1
<1>5. ASSUME NEW i \in 1..(m + 1)
      PROVE  /\ to[i] \in Nat /\ to[i] + Len(parts[i]) <= Len(all)
             /\ \A k \in 1..Len(parts[i]) : all[to[i] + k] = parts[i][k]
    <2>1. CASE i \in 1..m
        <3>1. at[i] \in Nat /\ at[i] + Len(parts[i]) <= Len(text)
            BY <2>1 DEF Placed
        <3>2. \A k \in 1..Len(parts[i]) : at[i] + k \in 1..Len(text)
            BY <1>1, <2>1, <3>1
        <3>3. \A k \in 1..Len(parts[i]) : text[at[i] + k] = parts[i][k]
            BY <2>1 DEF Placed
        <3>4. to[i] = at[i] /\ at[i] + Len(parts[i]) <= Len(all)
            BY <1>1, <1>2, <1>3, <2>1, <3>1
        <3>5. QED
            BY <1>2, <3>1, <3>2, <3>3, <3>4
    <2>2. CASE i = m + 1
        <3>1. to[i] = Len(text) /\ parts[i] = new
            BY <1>3, <2>2
        <3> HIDE DEF new
        <3>2. QED
            BY <1>1, <1>2, <3>1
    <2>3. QED
        BY <1>4, <2>1, <2>2
<1>6. ASSUME NEW q \in 1..Len(all) PROVE \E i \in 1..(m + 1) : q - to[i] \in 1..Len(parts[i])
    <2>1. CASE q \in 1..Len(text)
        <3>1. PICK i \in 1..m : q - at[i] \in 1..Len(parts[i])
            BY <2>1 DEF Placed
        <3>2. i \in 1..(m + 1) /\ to[i] = at[i]
            BY <1>1, <1>3
        <3>3. QED
            BY <3>1, <3>2
    <2>2. CASE q > Len(text)
        <3>1. q - to[m + 1] \in 1..Len(new) /\ m + 1 \in 1..(m + 1)
            BY <1>1, <1>2, <1>3, <2>2
        <3>2. QED
            BY <3>1
    <2>3. QED
        BY <1>1, <1>2, <2>1, <2>2
<1>7. ASSUME NEW i \in 1..(m + 1)
      PROVE  to[i] + Len(parts[i]) = IF i < m + 1 THEN to[i + 1] ELSE Len(all)
    <2>1. CASE i < m
        <3>1. i \in 1..m /\ i + 1 \in 1..m
            BY <1>1, <2>1
        <3>2. at[i] + Len(parts[i]) = at[i + 1]
            BY <2>1, <3>1 DEF Placed
        <3>3. QED
            BY <1>1, <1>3, <2>1, <3>1, <3>2
    <2>2. CASE i = m
        <3>1. i \in 1..m /\ i + 1 = m + 1 /\ ~(i < m) /\ i < m + 1
            BY <1>1, <2>2
        <3>2. at[i] + Len(parts[i]) = Len(text)
            BY <3>1 DEF Placed
        <3>3. QED
            BY <1>3, <3>1, <3>2
    <2>3. CASE i = m + 1
        <3>1. to[i] = Len(text) /\ parts[i] = new /\ ~(i < m + 1)
            BY <1>1, <1>3, <2>3
        <3> HIDE DEF new
        <3>2. QED
            BY <1>1, <1>2, <3>1
    <2>4. QED
        BY <1>1, <2>1, <2>2, <2>3
<1>8. to[1] = 0
    BY <1>3 DEF Placed
<1>9. Placed(parts, m + 1, all, to)
    BY <1>2, <1>5, <1>6, <1>7, <1>8 DEF Placed
<1>10. QED
    BY <1>9 DEF all

LEMMA FlattenPlaces ==
    ASSUME NEW parts \in Seq(Text)
    PROVE  IF Len(parts) = 0 THEN FlattenSeq(parts) = <<>>
           ELSE \E at : Placed(parts, Len(parts), FlattenSeq(parts), at)
<1> DEFINE n == Len(parts)
<1>1. n \in Nat /\ \A i \in 1..n : parts[i] \in Text
    OBVIOUS
<1>2. CASE n = 0
    BY <1>2 DEF FlattenSeq
<1>3. CASE n # 0
    <2> DEFINE f == CHOOSE g : Flattening(parts, g)
    <2>1. Flattening(parts, f)
        BY <1>1, FlatteningExists
    <2>2. FlattenSeq(parts) = f[n]
        BY <1>3 DEF FlattenSeq, Flattening
    <2> HIDE DEF f
    <2>3. f[1] = parts[1] /\ \A i \in 2..n : f[i] = f[i - 1] \o parts[i]
        <3>1. \A i \in 1..n : f[i] = IF i = 1 THEN parts[i] ELSE f[i - 1] \o parts[i]
            BY <2>1, Zenon DEF Flattening
        <3>2. 1 \in 1..n /\ \A i \in 2..n : i \in 1..n /\ i # 1
            BY <1>1, <1>3
        <3> HIDE DEF n
        <3>3. QED
            BY <3>1, <3>2
    <2> DEFINE D == {m \in 0..(n - 1) : \E at : Placed(parts, m + 1, f[m + 1], at)}
    <2>4. 0 \in D
        <3> DEFINE at == [i \in 1..1 |-> 0]
        <3>1. parts[1] \in Text /\ 1..1 = {1} /\ at[1] = 0 /\ Len(parts[1]) \in Nat
            BY <1>1, <1>3, LengthOfText
        <3>2. Placed(parts, 1, parts[1], at)
            <4> HIDE DEF at
            <4>1. \A q \in 1..Len(parts[1]) : q - at[1] \in 1..Len(parts[1])
                BY <3>1
            <4>2. \A k \in 1..Len(parts[1]) : at[1] + k = k
                BY <3>1
            <4>3. QED
                BY <3>1, <4>1, <4>2 DEF Placed
        <3> HIDE DEF at
        <3>3. 0 \in 0..(n - 1) /\ 0 + 1 = 1
            BY <1>1, <1>3
        <3>4. QED
            BY <2>3, <3>2, <3>3
    <2>5. ASSUME NEW m \in 0..(n - 1), m < n - 1, m \in D PROVE m + 1 \in D
        <3>1. m + 1 \in 1..(n - 1) /\ m + 1 \in 0..(n - 1) /\ (m + 1) + 1 \in 2..n
              /\ ((m + 1) + 1) - 1 = m + 1
            BY <1>1, <2>5
        <3>2. f[(m + 1) + 1] = f[m + 1] \o parts[(m + 1) + 1]
            BY <2>3, <3>1
        <3>3. PICK at : Placed(parts, m + 1, f[m + 1], at)
            BY <2>5
        <3>4. \E to : Placed(parts, (m + 1) + 1, f[(m + 1) + 1], to)
            BY <3>1, <3>2, <3>3, PlacedNext
        <3>5. QED
            BY <3>1, <3>4
    <2> HIDE DEF D
    <2>6. n - 1 \in Nat /\ n - 1 \in 0..(n - 1) /\ (n - 1) + 1 = n
        BY <1>1, <1>3
    <2>7. n - 1 \in D
        <3> DEFINE last == n - 1
        <3>1. last \in Nat
            BY <2>6
        <3> HIDE DEF n
        <3>2. \A m \in 0..last : m \in D
            <4>1. \A i \in 0..last : i < last /\ i \in D => i + 1 \in D
                BY <2>5
            <4> HIDE DEF last
            <4>2. QED
                BY <2>4, <3>1, <4>1, ForwardInduction, Zenon
        <3>3. QED
            BY <2>6, <3>2
    <2>8. \E at : Placed(parts, n, f[n], at)
        BY <2>6, <2>7 DEF D
    <2>9. QED
        BY <1>3, <2>2, <2>8
<1>4. QED
    BY <1>2, <1>3

CoveredWithin(parts, K, W) == \A i \in 1..Len(parts) : CoveredBy(parts[i], K, W)

LEMMA FlattenTyped ==
    ASSUME NEW parts \in Seq(Text)
    PROVE  FlattenSeq(parts) \in Text
<1>1. Len(parts) \in Nat /\ <<>> \in Text
    BY DEF Text
<1>2. QED
    BY <1>1, FlattenPlaces DEF Placed

LEMMA FlattenWords ==
    ASSUME NEW parts \in Seq(Text), NEW w \in ToSet(FlattenSeq(parts))
    PROVE  \E i \in 1..Len(parts) : w \in ToSet(parts[i])
<1> DEFINE flat == FlattenSeq(parts)
<1>1. flat \in Text /\ Len(parts) \in Nat /\ \A i \in 1..Len(parts) : parts[i] \in Text
    BY FlattenTyped
<1> HIDE DEF flat
<1>2. PICK q \in 1..Len(flat) : flat[q] = w
    BY <1>1, LengthOfText DEF ToSet, flat
<1>3. Len(parts) # 0
    <2>1. SUFFICES ASSUME Len(parts) = 0 PROVE FALSE
        OBVIOUS
    <2>2. flat = <<>>
        BY <2>1, FlattenPlaces DEF flat
    <2>3. QED
        BY <1>2, <2>2
<1>4. PICK at : Placed(parts, Len(parts), flat, at)
    BY <1>3, FlattenPlaces DEF flat
<1>5. PICK i \in 1..Len(parts) : q - at[i] \in 1..Len(parts[i])
    BY <1>2, <1>4 DEF Placed
<1>6. parts[i][q - at[i]] = flat[at[i] + (q - at[i])] /\ at[i] \in Nat
    BY <1>4, <1>5 DEF Placed
<1>7. at[i] + (q - at[i]) = q /\ DOMAIN parts[i] = 1..Len(parts[i])
    BY <1>1, <1>6, LengthOfText
<1>8. QED
    BY <1>2, <1>5, <1>6, <1>7 DEF ToSet

\* What covers words in a part covers them where the part is.
LEMMA CoveredFrom ==
    ASSUME NEW part \in Text, NEW text \in Text, NEW at \in Nat,
           at + Len(part) <= Len(text),
           \A k \in 1..Len(part) : text[at + k] = part[k],
           NEW K \in SUBSET Text, NEW W, CoveredBy(part, K, W),
           NEW p \in 1..Len(text), text[p] \in W, p - at \in 1..Len(part)
    PROVE  \E d \in K : \E j \in 1..Len(text) : Covers(text, d, j, p)
<1>1. Len(part) \in Nat /\ Len(text) \in Nat
    BY LengthOfText
<1>2. part[p - at] \in W
    <2>1. at + (p - at) = p
        BY <1>1
    <2>2. QED
        BY <2>1
<1>3. PICK d \in K, j \in 1..Len(part) : Covers(part, d, j, p - at)
    BY <1>2 DEF CoveredBy
<1>4. Len(d) \in Nat
    BY LengthOfText
<1>5. /\ j + Len(d) - 1 <= Len(part) /\ j <= p - at /\ p - at < j + Len(d)
      /\ \A k \in 1..Len(d) : part[j + k - 1] = d[k]
    BY <1>3 DEF Covers, Occurs
<1>6. at + j \in 1..Len(text) /\ (at + j) + Len(d) - 1 <= Len(text)
      /\ at + j <= p /\ p < (at + j) + Len(d)
    BY <1>1, <1>4, <1>5
<1>7. ASSUME NEW k \in 1..Len(d) PROVE text[(at + j) + k - 1] = d[k]
    <2>1. j + k - 1 \in 1..Len(part) /\ at + (j + k - 1) = (at + j) + k - 1
        BY <1>1, <1>4, <1>5
    <2>2. text[at + (j + k - 1)] = part[j + k - 1]
        BY <2>1
    <2>3. QED
        BY <1>5, <2>1, <2>2
<1>8. Covers(text, d, at + j, p)
    BY <1>6, <1>7 DEF Covers, Occurs
<1>9. QED
    BY <1>6, <1>8

LEMMA FlattenCovered ==
    ASSUME NEW parts \in Seq(Text), NEW K \in SUBSET Text, NEW W, CoveredWithin(parts, K, W)
    PROVE  CoveredBy(FlattenSeq(parts), K, W)
<1> DEFINE flat == FlattenSeq(parts)
<1>1. flat \in Text /\ Len(parts) \in Nat /\ \A i \in 1..Len(parts) : parts[i] \in Text
    BY FlattenTyped
<1> HIDE DEF flat
<1>2. SUFFICES ASSUME NEW p \in 1..Len(flat), flat[p] \in W
               PROVE  \E d \in K : \E j \in 1..Len(flat) : Covers(flat, d, j, p)
    BY DEF CoveredBy, flat
<1>3. Len(parts) # 0
    <2>1. SUFFICES ASSUME Len(parts) = 0 PROVE FALSE
        OBVIOUS
    <2>2. flat = <<>>
        BY <2>1, FlattenPlaces DEF flat
    <2>3. QED
        BY <1>2, <2>2
<1>4. PICK at : Placed(parts, Len(parts), flat, at)
    BY <1>3, FlattenPlaces DEF flat
<1>5. PICK i \in 1..Len(parts) : p - at[i] \in 1..Len(parts[i])
    BY <1>2, <1>4 DEF Placed
<1>6. /\ at[i] \in Nat /\ at[i] + Len(parts[i]) <= Len(flat)
      /\ \A k \in 1..Len(parts[i]) : flat[at[i] + k] = parts[i][k]
    BY <1>4, <1>5 DEF Placed
<1>7. CoveredBy(parts[i], K, W) /\ parts[i] \in Text
    BY <1>1, <1>5 DEF CoveredWithin
<1>8. QED
    BY <1>1, <1>2, <1>5, <1>6, <1>7, CoveredFrom

LEMMA JoinedCovered ==
    ASSUME NEW a \in Text, NEW b \in Text, NEW K \in SUBSET Text, NEW W,
           CoveredBy(a, K, W), CoveredBy(b, K, W)
    PROVE  CoveredBy(a \o b, K, W)
<1> DEFINE all == a \o b
<1>1. /\ all \in Text /\ Len(all) = Len(a) + Len(b) /\ Len(a) \in Nat /\ Len(b) \in Nat
      /\ \A i \in 1..Len(a) : all[i] = a[i]
      /\ \A i \in 1..Len(b) : all[Len(a) + i] = b[i]
    BY Joined, LengthOfText
<1> HIDE DEF all
<1>2. SUFFICES ASSUME NEW p \in 1..Len(all), all[p] \in W
               PROVE  \E d \in K : \E j \in 1..Len(all) : Covers(all, d, j, p)
    BY DEF CoveredBy, all
<1>3. CASE p \in 1..Len(a)
    <2>1. p - 0 \in 1..Len(a) /\ 0 + Len(a) <= Len(all) /\ 0 \in Nat
        BY <1>1, <1>3
    <2>2. \A k \in 1..Len(a) : all[0 + k] = a[k]
        BY <1>1
    <2>3. QED
        BY <1>1, <1>2, <2>1, <2>2, CoveredFrom
<1>4. CASE p > Len(a)
    <2>1. p - Len(a) \in 1..Len(b) /\ Len(a) + Len(b) <= Len(all)
        BY <1>1, <1>4
    <2>2. QED
        BY <1>1, <1>2, <2>1, CoveredFrom
<1>5. QED
    BY <1>1, <1>3, <1>4

\* The beginning of a part, or all of it, stands between words of no literal.
LEMMA FlattenStands ==
    ASSUME NEW parts \in Seq(Text), NEW B, NEW i \in 1..Len(parts),
           NEW v \in Text, NEW w \in Text, parts[i] = v \o w, Len(v) >= 1,
           i = 1 \/ v[1] \notin B,
           \/ v[Len(v)] \notin B
           \/ /\ w = <<>>
              /\ i < Len(parts) => Len(parts[i + 1]) >= 1 /\ parts[i + 1][1] \notin B
    PROVE  Stands(FlattenSeq(parts), v, B)
<1> DEFINE flat == FlattenSeq(parts)
<1>1. flat \in Text /\ Len(parts) \in Nat /\ \A k \in 1..Len(parts) : parts[k] \in Text
    BY FlattenTyped
<1> HIDE DEF flat
<1>2. PICK at : Placed(parts, Len(parts), flat, at)
    BY <1>1, FlattenPlaces DEF flat
<1>3. /\ at[i] \in Nat /\ at[i] + Len(v) <= Len(flat) /\ Len(v) \in Nat /\ Len(flat) \in Nat
      /\ \A k \in 1..Len(v) : flat[at[i] + k] = v[k]
      /\ w = <<>> => Len(parts[i]) = Len(v)
    <2>1. /\ at[i] \in Nat /\ at[i] + Len(parts[i]) <= Len(flat)
          /\ \A k \in 1..Len(parts[i]) : flat[at[i] + k] = parts[i][k]
        BY <1>1, <1>2 DEF Placed
    <2>2. /\ Len(v) \in Nat /\ Len(w) \in Nat /\ Len(flat) \in Nat /\ Len(<<>>) = 0
          /\ Len(parts[i]) = Len(v) + Len(w)
        BY <1>1, LengthOfText, Joined
    <2>3. \A k \in 1..Len(v) : parts[i][k] = v[k] /\ k \in 1..Len(parts[i])
        BY <2>2, Joined
    <2>4. QED
        BY <2>1, <2>2, <2>3
<1> DEFINE p == at[i] + 1
<1>4. p \in 1..Len(flat) /\ p + Len(v) - 1 <= Len(flat)
    BY <1>3
<1>5. Occurs(flat, v, p)
    <2>1. \A k \in 1..Len(v) : p + k - 1 = at[i] + k
        BY <1>3
    <2>2. QED
        BY <1>3, <1>4, <2>1 DEF Occurs
<1>6. p = 1 \/ v[1] \notin B
    <2>1. CASE i = 1
        BY <1>2, <2>1 DEF Placed
    <2>2. QED
        BY <2>1
<1>7. p + Len(v) > Len(flat) \/ v[Len(v)] \notin B \/ flat[p + Len(v)] \notin B
    <2>1. SUFFICES ASSUME v[Len(v)] \in B
          PROVE  p + Len(v) > Len(flat) \/ flat[p + Len(v)] \notin B
        OBVIOUS
    <2>2. Len(parts[i]) = Len(v)
        BY <1>3, <2>1
    <2>3. CASE i = Len(parts)
        <3>1. at[i] + Len(v) = Len(flat)
            BY <1>2, <2>2, <2>3 DEF Placed
        <3>2. QED
            BY <1>3, <3>1
    <2>4. CASE i < Len(parts)
        <3>1. at[i + 1] = at[i] + Len(v)
            BY <1>2, <2>2, <2>4 DEF Placed
        <3>2. i + 1 \in 1..Len(parts) /\ 1 \in 1..Len(parts[i + 1])
            BY <1>1, <2>1, <2>4, LengthOfText
        <3>3. flat[at[i + 1] + 1] = parts[i + 1][1]
            BY <1>2, <3>2 DEF Placed
        <3>4. at[i + 1] + 1 = p + Len(v)
            BY <1>3, <3>1
        <3>5. QED
            BY <2>1, <2>4, <3>3, <3>4
    <2>5. QED
        BY <1>1, <2>3, <2>4
<1> HIDE DEF p
<1>8. QED
    BY <1>4, <1>5, <1>6, <1>7 DEF Stands, flat

-----------------------------------------------------------------------------
(***************************************************************************)
(* Masking by key: what is open stays, of anything else only the beginning *)
(* of the path.                                                            *)
(***************************************************************************)
LEMMA MaskIsText == Redacted \in Text /\ ToSet(Redacted) = {"REDACTED"}
<1>1. "REDACTED" \in Word
    BY WordsAssumption DEF OwnWords
<1> DEFINE one(w) == <<w>>
<1>2. \A w \in Word : <<w>> \in Text /\ ToSet(<<w>>) = {w}
    BY DEF Text, ToSet
<1>3. QED
    BY <1>1, <1>2 DEF Redacted

LEMMA MaskedLeafIs ==
    ASSUME NEW leaf \in Leaf
    PROVE  /\ MaskedLeaf(leaf) \in Leaf
           /\ Open(leaf) => MaskedLeaf(leaf) = leaf
           /\ ~Open(leaf) => MaskedLeaf(leaf).value = Redacted
           /\ leaf.path # <<>> => MaskedLeaf(leaf).path # <<>>
           /\ ToSet(MaskedLeaf(leaf).path) \subseteq ToSet(leaf.path)
<1> DEFINE path == leaf.path
           I == {i \in 1..Len(path) : Sensitive(path[i])}
           first == SelectInSeq(path, Sensitive)
<1>1. /\ path \in Text /\ path \in Seq(Word) /\ leaf.value \in Text
      /\ Len(path) \in Nat /\ DOMAIN path = 1..Len(path)
    BY LengthOfText DEF Leaf, Text
<1>2. Open(leaf) <=> I = {}
    BY <1>1 DEF Open, ToSet
<1>3. first = IF I # {} THEN Min(I) ELSE 0
    BY DEF SelectInSeq
<1>4. I \in SUBSET Nat
    BY <1>1
<1>5. CASE Open(leaf)
    <2>1. first = 0
        BY <1>2, <1>3, <1>5
    <2>2. MaskedLeaf(leaf) = leaf
        BY <2>1 DEF MaskedLeaf
    <2>3. QED
        BY <1>5, <2>2
<1>6. CASE ~Open(leaf)
    <2>1. I # {}
        BY <1>2, <1>6
    <2>2. Min(I) \in I
        <3>1. \E m \in I : \A k \in I : m <= k
            BY <1>4, <2>1, LeastNumber
        <3> HIDE DEF I
        <3>2. QED
            BY <3>1 DEF Min
    <2>3. first \in 1..Len(path)
        BY <1>3, <2>1, <2>2
    <2> HIDE DEF first, I
    <2>4. MaskedLeaf(leaf) = [path |-> SubSeq(path, 1, first), value |-> Redacted]
        BY <1>1, <2>3 DEF MaskedLeaf, first
    <2> DEFINE part == SubSeq(path, 1, first)
    <2>5. /\ part \in Seq(Word) /\ Len(part) = first
          /\ \A i \in 1..first : part[i] = path[i]
        BY <1>1, <2>3
    <2> HIDE DEF part, path
    <2>6. part # <<>>
        <3>1. Len(part) >= 1 /\ Len(<<>>) = 0
            BY <1>1, <2>3, <2>5
        <3>2. QED
            BY <3>1
    <2>7. ToSet(part) \subseteq ToSet(path)
        <3>1. DOMAIN part = 1..first /\ \A i \in 1..first : i \in 1..Len(path)
            BY <1>1, <2>3, <2>5
        <3>2. QED
            BY <1>1, <2>5, <3>1 DEF ToSet
    <2>8. Redacted \in Text
        BY MaskIsText
    <2>9. [path |-> part, value |-> Redacted] \in Leaf
        BY <2>5, <2>8 DEF Leaf, Text
    <2>10. QED
        BY <1>6, <2>4, <2>6, <2>7, <2>9 DEF part, path
<1>7. QED
    BY <1>5, <1>6

LEMMA BodyIs ==
    ASSUME NEW b \in Body
    PROVE  /\ b.kind \in {"json", "form", "text"} /\ b.leaves \in Seq(Leaf)
           /\ b = [kind |-> b.kind, leaves |-> b.leaves]
           /\ Len(b.leaves) \in Nat /\ DOMAIN b.leaves = 1..Len(b.leaves)
           /\ \A i \in 1..Len(b.leaves) : b.leaves[i] \in Leaf
           /\ b.kind = "text" => Len(b.leaves) = 1 /\ b.leaves[1].path = <<>>
           /\ b.kind # "text" => \A i \in 1..Len(b.leaves) : b.leaves[i].path # <<>>
<1>1. b.leaves \in Seq(Leaf) /\ b = [kind |-> b.kind, leaves |-> b.leaves]
    BY DEF Body, Structured, Pages
<1>2. Len(b.leaves) \in Nat /\ DOMAIN b.leaves = 1..Len(b.leaves)
      /\ \A i \in 1..Len(b.leaves) : b.leaves[i] \in Leaf
    BY <1>1
<1>3. CASE b \in Pages
    BY <1>1, <1>2, <1>3 DEF Pages
<1>4. CASE b \in Structured("json") \cup Structured("form")
    BY <1>1, <1>2, <1>4 DEF Structured
<1>5. QED
    BY <1>3, <1>4 DEF Body

(***************************************************************************)
(* Encoding: word by word, and the words pvectl itself writes stay.        *)
(***************************************************************************)
LEMMA SpelledIs ==
    ASSUME NEW kind, NEW w \in Word
    PROVE  /\ Spelled(kind, w) \in Word
           /\ kind \notin {"form", "json"} => Spelled(kind, w) = w
           /\ w \in OwnWords \cup OwnKeys => Spelled(kind, w) = w
<1>1. \A e \in {FormEscapes, JSONEscapes} :
        /\ \A x \in DOMAIN e : e[x] \in Word
        /\ w \in OwnWords \cup OwnKeys => w \notin DOMAIN e
    BY EscapesAssumption
<1>2. CASE kind = "form"
    BY <1>1, <1>2 DEF Spelled
<1>3. CASE kind = "json"
    BY <1>1, <1>3 DEF Spelled
<1>4. CASE kind \notin {"form", "json"}
    BY <1>4 DEF Spelled
<1>5. QED
    BY <1>2, <1>3, <1>4

LEMMA EncodedIs ==
    ASSUME NEW kind, NEW t \in Text
    PROVE  /\ Encoded(kind, t) \in Text /\ Len(Encoded(kind, t)) = Len(t)
           /\ \A i \in 1..Len(t) : Encoded(kind, t)[i] = Spelled(kind, t[i])
           /\ ToSet(Encoded(kind, t)) = {Spelled(kind, w) : w \in ToSet(t)}
           /\ kind \notin {"form", "json"} => Encoded(kind, t) = t
           /\ ToSet(t) \subseteq OwnWords \cup OwnKeys => Encoded(kind, t) = t
<1> DEFINE all == [i \in DOMAIN t |-> Spelled(kind, t[i])]
<1>1. t \in Seq(Word) /\ Len(t) \in Nat /\ DOMAIN t = 1..Len(t) /\ \A i \in 1..Len(t) : t[i] \in Word
    BY LengthOfText DEF Text
<1>2. \A i \in 1..Len(t) : Spelled(kind, t[i]) \in Word
    BY <1>1, SpelledIs
<1>3. /\ all \in Seq(Word) /\ Len(all) = Len(t) /\ DOMAIN all = 1..Len(t)
      /\ \A i \in 1..Len(t) : all[i] = Spelled(kind, t[i])
    BY <1>1, <1>2
<1>4. Encoded(kind, t) = all
    BY DEF Encoded
<1> HIDE DEF all
<1>5. ToSet(all) = {Spelled(kind, w) : w \in ToSet(t)}
    BY <1>1, <1>3 DEF ToSet
<1>6. ASSUME \A i \in 1..Len(t) : Spelled(kind, t[i]) = t[i] PROVE all = t
    BY <1>1, <1>3, <1>6, SeqEqual
<1>7. kind \notin {"form", "json"} => \A i \in 1..Len(t) : Spelled(kind, t[i]) = t[i]
    BY <1>1, SpelledIs
<1>8. ToSet(t) \subseteq OwnWords \cup OwnKeys => \A i \in 1..Len(t) : Spelled(kind, t[i]) = t[i]
    <2>1. \A i \in 1..Len(t) : t[i] \in ToSet(t)
        BY <1>1 DEF ToSet
    <2>2. QED
        BY <1>1, <2>1, SpelledIs
<1>9. QED
    BY <1>3, <1>4, <1>5, <1>6, <1>7, <1>8 DEF Text

LEMMA EncodedJoined ==
    ASSUME NEW kind, NEW a \in Text, NEW b \in Text
    PROVE  Encoded(kind, a \o b) = Encoded(kind, a) \o Encoded(kind, b)
<1> DEFINE all == a \o b
           x == Encoded(kind, a)
           y == Encoded(kind, b)
           both == x \o y
<1>1. /\ all \in Text /\ Len(all) = Len(a) + Len(b) /\ Len(a) \in Nat /\ Len(b) \in Nat
      /\ \A i \in 1..Len(a) : all[i] = a[i]
      /\ \A i \in 1..Len(b) : all[Len(a) + i] = b[i]
    BY Joined, LengthOfText
<1>2. /\ x \in Text /\ Len(x) = Len(a) /\ \A i \in 1..Len(a) : x[i] = Spelled(kind, a[i])
      /\ y \in Text /\ Len(y) = Len(b) /\ \A i \in 1..Len(b) : y[i] = Spelled(kind, b[i])
    BY EncodedIs
<1> HIDE DEF all, x, y
<1>3. /\ both \in Text /\ Len(both) = Len(a) + Len(b)
      /\ \A i \in 1..Len(a) : both[i] = x[i]
      /\ \A i \in 1..Len(b) : both[Len(a) + i] = y[i]
    <2>1. /\ x \o y \in Text /\ Len(x \o y) = Len(x) + Len(y)
          /\ \A i \in 1..Len(x) : (x \o y)[i] = x[i]
          /\ \A i \in 1..Len(y) : (x \o y)[Len(x) + i] = y[i]
        BY <1>2, Joined
    <2> HIDE DEF both
    <2>2. both \in Text /\ Len(both) = Len(x) + Len(y)
        BY <2>1 DEF both
    <2>3. /\ \A i \in 1..Len(x) : both[i] = x[i]
          /\ \A i \in 1..Len(y) : both[Len(x) + i] = y[i]
        BY <2>1 DEF both
    <2>4. QED
        BY <1>2, <2>2, <2>3
<1>4. /\ Encoded(kind, all) \in Text /\ Len(Encoded(kind, all)) = Len(a) + Len(b)
      /\ \A i \in 1..(Len(a) + Len(b)) : Encoded(kind, all)[i] = Spelled(kind, all[i])
    BY <1>1, EncodedIs
<1> HIDE DEF both
<1>5. ASSUME NEW i \in 1..(Len(a) + Len(b)) PROVE Encoded(kind, all)[i] = both[i]
    <2>1. CASE i \in 1..Len(a)
        BY <1>1, <1>2, <1>3, <1>4, <2>1
    <2>2. CASE i > Len(a)
        <3>1. i - Len(a) \in 1..Len(b) /\ Len(a) + (i - Len(a)) = i
            BY <1>1, <2>2
        <3>2. all[i] = b[i - Len(a)] /\ both[i] = y[i - Len(a)]
            BY <1>1, <1>3, <3>1
        <3>3. QED
            BY <1>2, <1>4, <3>1, <3>2
    <2>3. QED
        BY <1>1, <2>1, <2>2
<1>6. Encoded(kind, all) = both
    BY <1>3, <1>4, <1>5, SeqEqual DEF Text
<1>7. QED
    BY <1>6 DEF all, both, x, y

LEMMA EncodedLeafIs ==
    ASSUME NEW kind, NEW leaf \in Leaf
    PROVE  /\ EncodedLeaf(kind, leaf) \in Leaf
           /\ EncodedLeaf(kind, leaf).path = Encoded(kind, leaf.path)
           /\ EncodedLeaf(kind, leaf).value = Encoded(kind, leaf.value)
           /\ kind \notin {"form", "json"} => EncodedLeaf(kind, leaf) = leaf
<1>1. leaf = [path |-> leaf.path, value |-> leaf.value] /\ leaf.path \in Text /\ leaf.value \in Text
    BY DEF Leaf
<1>2. QED
    BY <1>1, EncodedIs DEF EncodedLeaf, Leaf

LEMMA RedactBodyIs ==
    ASSUME NEW b \in Body
    PROVE  /\ RedactBody(b).leaves \in Seq(Leaf)
           /\ Len(RedactBody(b).leaves) = Len(b.leaves)
           /\ \A i \in 1..Len(b.leaves) :
                RedactBody(b).leaves[i] = EncodedLeaf(b.kind, MaskedLeaf(b.leaves[i]))
<1>1. CASE b.kind = "text"
    <2>1. RedactBody(b) = b
        BY <1>1 DEF RedactBody
    <2>2. ASSUME NEW i \in 1..Len(b.leaves)
          PROVE  EncodedLeaf(b.kind, MaskedLeaf(b.leaves[i])) = b.leaves[i]
        <3>1. b.leaves[i] \in Leaf /\ b.leaves[i].path = <<>>
            BY <1>1, BodyIs
        <3>2. Open(b.leaves[i])
            BY <3>1 DEF Open, ToSet
        <3>3. MaskedLeaf(b.leaves[i]) = b.leaves[i]
            BY <3>1, <3>2, MaskedLeafIs
        <3>4. QED
            BY <1>1, <3>1, <3>3, EncodedLeafIs
    <2>3. QED
        BY <2>1, <2>2, BodyIs
<1>2. CASE b.kind # "text"
    <2> DEFINE ls == b.leaves
               ms == [i \in DOMAIN ls |-> EncodedLeaf(b.kind, MaskedLeaf(ls[i]))]
    <2>1. RedactBody(b).leaves = ms
        BY <1>2, BodyIs DEF RedactBody
    <2>2. DOMAIN ls = 1..Len(ls) /\ Len(ls) \in Nat
          /\ \A i \in 1..Len(ls) : EncodedLeaf(b.kind, MaskedLeaf(ls[i])) \in Leaf
        BY BodyIs, MaskedLeafIs, EncodedLeafIs
    <2> HIDE DEF ls
    <2>3. ms \in Seq(Leaf) /\ Len(ms) = Len(ls)
        BY <2>2
    <2>4. \A i \in 1..Len(ls) : ms[i] = EncodedLeaf(b.kind, MaskedLeaf(ls[i]))
        BY <2>2
    <2> HIDE DEF ms
    <2>5. QED
        BY <2>1, <2>3, <2>4 DEF ls
<1>3. QED
    BY <1>1, <1>2

LEMMA RedactParamsIs ==
    ASSUME NEW b \in Body
    PROVE  /\ RedactParams(b).leaves \in Seq(Leaf)
           /\ Len(RedactParams(b).leaves) = Len(b.leaves)
           /\ \A i \in 1..Len(b.leaves) : RedactParams(b).leaves[i] = MaskedLeaf(b.leaves[i])
<1> DEFINE ls == b.leaves
           ms == [i \in DOMAIN ls |-> MaskedLeaf(ls[i])]
<1>1. RedactParams(b).leaves = ms
    BY BodyIs DEF RedactParams
<1>2. DOMAIN ls = 1..Len(ls) /\ Len(ls) \in Nat /\ \A i \in 1..Len(ls) : MaskedLeaf(ls[i]) \in Leaf
    BY BodyIs, MaskedLeafIs
<1> HIDE DEF ls
<1>3. ms \in Seq(Leaf) /\ Len(ms) = Len(ls)
    BY <1>2
<1>4. \A i \in 1..Len(ls) : ms[i] = MaskedLeaf(ls[i])
    BY <1>2
<1> HIDE DEF ms
<1>5. QED
    BY <1>1, <1>3, <1>4 DEF ls

Parts(body) == [i \in DOMAIN body.leaves |-> body.leaves[i].path \o body.leaves[i].value]

LEMMA PartsTyped ==
    ASSUME NEW b, b.leaves \in Seq(Leaf)
    PROVE  /\ Parts(b) \in Seq(Text) /\ Len(Parts(b)) = Len(b.leaves)
           /\ \A i \in 1..Len(b.leaves) : Parts(b)[i] = b.leaves[i].path \o b.leaves[i].value
           /\ Rendered(b) = FlattenSeq(Parts(b))
<1> DEFINE ls == b.leaves
           ps == [i \in DOMAIN ls |-> ls[i].path \o ls[i].value]
<1>1. DOMAIN ls = 1..Len(ls) /\ Len(ls) \in Nat /\ \A i \in 1..Len(ls) : ls[i] \in Leaf
    OBVIOUS
<1>2. \A i \in 1..Len(ls) : ls[i].path \o ls[i].value \in Text
    BY <1>1, Joined DEF Leaf
<1>3. Rendered(b) = FlattenSeq(Parts(b)) /\ Parts(b) = ps
    BY DEF Rendered, Parts
<1> HIDE DEF ls
<1>4. ps \in Seq(Text) /\ Len(ps) = Len(ls)
    BY <1>1, <1>2
<1>5. \A i \in 1..Len(ls) : ps[i] = ls[i].path \o ls[i].value
    BY <1>1
<1> HIDE DEF ps
<1>6. QED
    BY <1>3, <1>4, <1>5 DEF ls

LEMMA RenderedWords ==
    ASSUME NEW b, b.leaves \in Seq(Leaf)
    PROVE  /\ Rendered(b) \in Text
           /\ \A w \in ToSet(Rendered(b)) : \E i \in 1..Len(b.leaves) :
                w \in ToSet(b.leaves[i].path) \cup ToSet(b.leaves[i].value)
<1>1. Rendered(b) \in Text
    BY PartsTyped, FlattenTyped
<1>2. ASSUME NEW w \in ToSet(Rendered(b))
      PROVE  \E i \in 1..Len(b.leaves) :
                w \in ToSet(b.leaves[i].path) \cup ToSet(b.leaves[i].value)
    <2>1. PICK i \in 1..Len(b.leaves) : w \in ToSet(Parts(b)[i])
        BY PartsTyped, FlattenWords
    <2>2. b.leaves[i] \in Leaf
        OBVIOUS
    <2>3. b.leaves[i].path \in Text /\ b.leaves[i].value \in Text
        BY <2>2 DEF Leaf
    <2>4. Parts(b)[i] = b.leaves[i].path \o b.leaves[i].value
        BY PartsTyped
    <2>5. QED
        BY <2>1, <2>3, <2>4, Joined
<1>3. QED
    BY <1>1, <1>2

LEMMA RenderedCovered ==
    ASSUME NEW b, b.leaves \in Seq(Leaf), NEW K \in SUBSET Text, NEW W,
           \A i \in 1..Len(b.leaves) :
                CoveredBy(b.leaves[i].path, K, W) /\ CoveredBy(b.leaves[i].value, K, W)
    PROVE  CoveredBy(Rendered(b), K, W)
<1>1. ASSUME NEW i \in 1..Len(b.leaves) PROVE CoveredBy(Parts(b)[i], K, W)
    <2>1. b.leaves[i] \in Leaf
        OBVIOUS
    <2>2. b.leaves[i].path \in Text /\ b.leaves[i].value \in Text
        BY <2>1 DEF Leaf
    <2>3. Parts(b)[i] = b.leaves[i].path \o b.leaves[i].value
        BY PartsTyped
    <2>4. QED
        BY <2>2, <2>3, JoinedCovered
<1>2. CoveredWithin(Parts(b), K, W)
    BY <1>1, PartsTyped DEF CoveredWithin
<1>3. QED
    BY <1>2, PartsTyped, FlattenCovered

-----------------------------------------------------------------------------
(***************************************************************************)
(* Types of what is logged and sent.                                       *)
(***************************************************************************)
LEMMA OneWord == \A w \in Word : <<w>> \in Text /\ Len(<<w>>) = 1 /\ ToSet(<<w>>) = {w}
BY DEF Text, ToSet

LEMMA OwnWordsAreWords ==
    /\ \A w \in OwnWords \cup OwnKeys \cup {"page"} : w \in Word
    /\ Redacted \in Text
BY WordsAssumption, MaskIsText

LEMMA TokenSecretsIs ==
    ASSUME NEW token \in Text
    PROVE  /\ TokenSecrets(token)[1] = token /\ TokenSecrets(token)[2] \in Text
           /\ ToSet(TokenSecrets(token)) = {token, TokenSecrets(token)[2]}
<1> DEFINE I == {i \in 1..Len(token) : token[i] = "="}
           eq == SelectInSeq(token, LAMBDA w : w = "=")
           rest == IF eq = 0 THEN <<>> ELSE SubSeq(token, eq + 1, Len(token))
<1>1. token \in Seq(Word) /\ Len(token) \in Nat /\ \A i \in 1..Len(token) : token[i] \in Word
    BY LengthOfText DEF Text
<1>2. eq = IF I # {} THEN Min(I) ELSE 0
    BY DEF SelectInSeq
<1>3. eq \in 0..Len(token)
    <2>1. CASE I = {}
        BY <1>1, <1>2, <2>1
    <2>2. CASE I # {}
        <3>1. I \in SUBSET Nat
            BY <1>1
        <3>2. \E m \in I : \A k \in I : m <= k
            BY <2>2, <3>1, LeastNumber
        <3>3. Min(I) \in I
            <4> HIDE DEF I
            <4>1. QED
                BY <3>2 DEF Min
        <3>4. QED
            BY <1>1, <1>2, <2>2, <3>3
    <2>3. QED
        BY <2>1, <2>2
<1> HIDE DEF eq
<1>4. rest \in Text
    <2>1. SubSeq(token, eq + 1, Len(token)) \in Seq(Word)
        BY <1>1, <1>3
    <2>2. <<>> \in Seq(Word)
        OBVIOUS
    <2>3. QED
        BY <2>1, <2>2 DEF Text
<1>5. TokenSecrets(token) = <<token, rest>>
    BY DEF TokenSecrets, eq
<1> HIDE DEF rest
<1>6. ToSet(<<token, rest>>) = {token, rest}
    BY DEF ToSet
<1>7. QED
    BY <1>4, <1>5, <1>6

LEMMA BodiesAreBodies ==
    /\ Empty \in Body /\ Minted \in Body /\ Bodies \subseteq Body /\ Replies \subseteq Body
    /\ \A t \in Text : Page(t) \in Body /\ Message(t) \in Body
    /\ user \in Users => LoginBody \in Body
<1>1. \A k \in {"data", "message", "ticket", "CSRFPreventionToken", "username", "password"} : k \in Word
    BY WordsAssumption DEF OwnKeys
<1>2. \A a, b \in Word : <<a>> \in Text /\ <<a, b>> \in Text /\ <<a>> # <<>> /\ <<a, b>> # <<>>
    BY DEF Text
<1>3. \A s, t \in Leaf : <<s, t>> \in Seq(Leaf) /\ Len(<<s, t>>) = 2 /\ <<s>> \in Seq(Leaf)
                         /\ Len(<<s>>) = 1 /\ DOMAIN <<s, t>> = 1..2
    OBVIOUS
<1>4. <<>> \in Text /\ <<>> \in Seq(Leaf) /\ DOMAIN <<>> = {}
    BY DEF Text
<1>5. Empty \in Body
    BY <1>4 DEF Empty, Body, Structured
<1>6. \A kind, a, b : kind \in {"json", "form"} /\ a \in Leaf /\ b \in Leaf
                        /\ a.path # <<>> /\ b.path # <<>> =>
            [kind |-> kind, leaves |-> <<a, b>>] \in Structured(kind)
    BY <1>3 DEF Structured
<1>7. Minted \in Body
    <2> DEFINE a == [path |-> <<"data", "CSRFPreventionToken">>, value |-> CSRFToken]
               b == [path |-> <<"data", "ticket">>, value |-> Ticket]
    <2>1. a \in Leaf /\ b \in Leaf /\ a.path # <<>> /\ b.path # <<>>
        BY <1>1, <1>2, TextsAssumption DEF Leaf
    <2> HIDE DEF a, b
    <2>2. [kind |-> "json", leaves |-> <<a, b>>] \in Structured("json")
        BY <1>6, <2>1
    <2>3. QED
        BY <2>2 DEF Minted, Body, a, b
<1>8. ASSUME user \in Users PROVE LoginBody \in Body
    <2> DEFINE a == [path |-> <<"password">>, value |-> user.password]
               b == [path |-> <<"username">>, value |-> user.username]
    <2>1. a \in Leaf /\ b \in Leaf /\ a.path # <<>> /\ b.path # <<>>
        BY <1>1, <1>2, <1>8, TextsAssumption DEF Leaf
    <2> HIDE DEF a, b
    <2>2. [kind |-> "form", leaves |-> <<a, b>>] \in Structured("form")
        BY <1>6, <2>1
    <2>3. QED
        BY <2>2 DEF LoginBody, Body, a, b
<1>9. ASSUME NEW t \in Text PROVE Page(t) \in Body
    <2> DEFINE a == [path |-> <<>>, value |-> t]
    <2>1. a \in Leaf /\ a.path = <<>>
        BY <1>4 DEF Leaf
    <2> HIDE DEF a
    <2>2. [kind |-> "text", leaves |-> <<a>>] \in Pages
        BY <1>3, <2>1 DEF Pages
    <2>3. QED
        BY <2>2 DEF Page, Body, a
<1>10. ASSUME NEW t \in Text PROVE Message(t) \in Body
    <2> DEFINE a == [path |-> <<"message">>, value |-> t]
    <2>1. a \in Leaf /\ a.path # <<>>
        BY <1>1, <1>2 DEF Leaf
    <2> HIDE DEF a
    <2>2. [kind |-> "json", leaves |-> <<a>>] \in Structured("json")
        BY <1>3, <2>1 DEF Structured
    <2>3. QED
        BY <2>2 DEF Message, Body, a
<1>11. QED
    BY <1>5, <1>7, <1>8, <1>9, <1>10, BodiesAssumption DEF Body

LEMMA TicketSecretsAre ==
    ASSUME NEW b \in Body
    PROVE  TicketSecrets(b) \in SUBSET Text /\ IsFiniteSet(TicketSecrets(b))
<1> DEFINE paths == {<<"data", "ticket">>, <<"data", "CSRFPreventionToken">>}
           S == {l \in ToSet(b.leaves) : l.path \in paths}
           f == [l \in S |-> l.value]
<1>1. IsFiniteSet(ToSet(b.leaves)) /\ ToSet(b.leaves) \in SUBSET Leaf
    BY BodyIs, RangeIsFinite
<1>2. IsFiniteSet(S)
    BY <1>1, FS_Subset
<1>3. ValuesAt(b, paths) = {l.value : l \in S}
    BY DEF ValuesAt
<1>4. f \in Surjection(S, {l.value : l \in S})
    BY DEF Surjection
<1>5. IsFiniteSet(ValuesAt(b, paths))
    <2> DEFINE T == {l.value : l \in S}
    <2>1. f \in Surjection(S, T) /\ ValuesAt(b, paths) = T
        BY <1>3, <1>4
    <2> HIDE DEF S, f, T, paths
    <2>2. IsFiniteSet(T)
        BY <1>2, <2>1, FS_Surjection, Zenon
    <2>3. QED
        BY <2>1, <2>2
<1>6. ValuesAt(b, paths) \in SUBSET Text
    BY <1>1, <1>3 DEF Leaf
<1>7. IsFiniteSet({})
    BY FS_EmptySet
<1>8. QED
    BY <1>5, <1>6, <1>7 DEF TicketSecrets

LEMMA CutIs ==
    ASSUME NEW t \in Text
    PROVE  Cut(t) \in Text /\ ToSet(Cut(t)) \subseteq ToSet(t) \cup {"..."}
<1>1. t \in Seq(Word) /\ Len(t) \in Nat /\ DOMAIN t = 1..Len(t) /\ PreviewLimit \in Nat
    BY LengthOfText, LimitsAssumption DEF Text
<1>2. CASE Len(t) <= PreviewLimit
    BY <1>2 DEF Cut
<1>3. CASE ~(Len(t) <= PreviewLimit)
    <2> DEFINE head == SubSeq(t, 1, PreviewLimit)
    <2>1. /\ head \in Seq(Word) /\ DOMAIN head = 1..PreviewLimit
          /\ \A i \in 1..PreviewLimit : i \in 1..Len(t) /\ head[i] = t[i]
        BY <1>1, <1>3
    <2>2. Cut(t) = head \o <<"...">>
        BY <1>3 DEF Cut
    <2> HIDE DEF head
    <2>3. head \in Text /\ ToSet(head) \subseteq ToSet(t)
        BY <1>1, <2>1 DEF ToSet, Text
    <2>4. "..." \in Word
        BY WordsAssumption DEF OwnWords
    <2>5. <<"...">> \in Text /\ ToSet(<<"...">>) = {"..."}
        BY <2>4, OneWord
    <2>6. head \o <<"...">> \in Text /\ ToSet(head \o <<"...">>) = ToSet(head) \cup ToSet(<<"...">>)
        BY <2>3, <2>5, Joined
    <2>7. QED
        BY <2>2, <2>3, <2>5, <2>6
<1>4. QED
    BY <1>2, <1>3

LEMMA HeaderIs ==
    ASSUME NEW name \in Word, NEW value \in Text
    PROVE  /\ RedactHeader(name, value) \in Text
           /\ name \in SensitiveHeaders => ToSet(RedactHeader(name, value)) = {name, "REDACTED"}
<1>1. <<name>> \in Text /\ ToSet(<<name>>) = {name} /\ Redacted \in Text
    BY OneWord, MaskIsText
<1>2. /\ <<name>> \o value \in Text /\ <<name>> \o Redacted \in Text
      /\ ToSet(<<name>> \o Redacted) = ToSet(<<name>>) \cup ToSet(Redacted)
    BY <1>1, Joined
<1>3. QED
    BY <1>1, <1>2, MaskIsText DEF RedactHeader

Filed(known) ==
    /\ known \in Seq(Text)
    /\ \A i \in 1..Len(known) : Len(known[i]) >= MinSecretLen
    /\ \A i, j \in 1..Len(known) : i < j => Len(known[i]) >= Len(known[j])

LEMMA FiledIs ==
    ASSUME NEW known
    PROVE  Filed(known) <=>
            /\ known \in Seq(Text)
            /\ \A i \in DOMAIN known : Len(known[i]) >= MinSecretLen
            /\ \A i, j \in DOMAIN known : i < j => Len(known[i]) >= Len(known[j])
<1>1. CASE known \in Seq(Text)
    <2>1. DOMAIN known = 1..Len(known)
        BY <1>1
    <2>2. QED
        BY <2>1 DEF Filed
<1>2. QED
    BY <1>1 DEF Filed

LEMMA FiledNothing == Filed(<<>>) /\ ToSet(<<>>) = {}
<1>1. <<>> \in Seq(Text) /\ Len(<<>>) = 0 /\ 1..0 = {}
    OBVIOUS
<1>2. QED
    BY <1>1 DEF Filed, ToSet

LEMMA FiledWhenRegistered ==
    ASSUME NEW known, Filed(known), NEW values \in SUBSET Text, IsFiniteSet(values),
           NEW more \in Registered(known, values)
    PROVE  Filed(more) /\ ToSet(more) = ToSet(known) \cup Long(values)
BY RegisteredIs DEF Filed

LEMMA FiledIsLong ==
    ASSUME NEW known, Filed(known)
    PROVE  \A i \in 1..Len(known) : known[i] \in Text /\ Len(known[i]) >= 1
<1>1. MinSecretLen \in Nat /\ MinSecretLen >= 1
    BY LimitsAssumption
<1>2. \A i \in 1..Len(known) : known[i] \in Text
    BY DEF Filed
<1>3. \A i \in 1..Len(known) : Len(known[i]) \in Nat
    BY <1>2, LengthOfText
<1>4. QED
    BY <1>1, <1>2, <1>3 DEF Filed

LEMMA LogfTyped ==
    ASSUME NEW known, Filed(known), NEW at, NEW text \in Text
    PROVE  Logf(at, known, text) \subseteq Text
<1>1. Scrub(known, text) \in Text
    BY FiledIsLong, ScrubTyped DEF Filed
<1>2. QED
    BY <1>1 DEF Logf

LEMMA PreviewTyped ==
    ASSUME NEW known, Filed(known), NEW text \in Text
    PROVE  Preview(known, text) \in Text
<1>1. Scrub(known, text) \in Text
    BY FiledIsLong, ScrubTyped DEF Filed
<1>2. QED
    BY <1>1, CutIs DEF Preview

LEMMA RedactedText ==
    ASSUME NEW b \in Body
    PROVE  /\ Rendered(RedactBody(b)) \in Text /\ Rendered(RedactParams(b)) \in Text
           /\ Rendered(b) \in Text
BY RedactBodyIs, RedactParamsIs, BodyIs, RenderedWords

LEMMA UserIs ==
    ASSUME NEW u \in Users
    PROVE  /\ u.token \in Text /\ u.username \in Text /\ u.password \in Text
           /\ ToSet(TokenSecrets(u.token)) \cup {u.password} \in SUBSET Text
           /\ IsFiniteSet(ToSet(TokenSecrets(u.token)) \cup {u.password})
<1>1. u.token \in Text /\ u.username \in Text /\ u.password \in Text
    BY TextsAssumption
<1>2. /\ TokenSecrets(u.token)[2] \in Text
      /\ ToSet(TokenSecrets(u.token)) = {u.token, TokenSecrets(u.token)[2]}
    BY <1>1, TokenSecretsIs
<1>3. IsFiniteSet({u.token, TokenSecrets(u.token)[2]} \cup {u.password})
    <2>1. IsFiniteSet({u.token}) /\ IsFiniteSet({TokenSecrets(u.token)[2]}) /\ IsFiniteSet({u.password})
        BY FS_Singleton
    <2>2. IsFiniteSet(({u.token} \cup {TokenSecrets(u.token)[2]}) \cup {u.password})
        BY <2>1, FS_Union
    <2>3. ({u.token} \cup {TokenSecrets(u.token)[2]}) = {u.token, TokenSecrets(u.token)[2]}
        OBVIOUS
    <2>4. QED
        BY <2>2, <2>3
<1>4. QED
    BY <1>1, <1>2, <1>3

LEMMA RequestHeaders ==
    /\ NoHeaders \in Headers /\ ReplyHeaders \subseteq Headers
    /\ \A u \in Users : << <<"Authorization", u.token>> >> \in Headers
    /\ << <<"Cookie", Ticket>>, <<"CSRFPreventionToken", CSRFToken>> >> \in Headers
<1>1. "Authorization" \in Word /\ "Cookie" \in Word /\ "CSRFPreventionToken" \in Word
    BY WordsAssumption DEF OwnKeys
<1>2. \A a, b \in Word \X Text : <<a>> \in Seq(Word \X Text) /\ <<a, b>> \in Seq(Word \X Text)
    OBVIOUS
<1>3. \A w \in Word, t \in Text : <<w, t>> \in Word \X Text
    OBVIOUS
<1>4. QED
    BY <1>1, <1>2, <1>3, UserIs, TextsAssumption, BodiesAssumption DEF Headers, NoHeaders

LEMMA HeaderTyped ==
    ASSUME NEW list \in Headers, NEW i \in DOMAIN list
    PROVE  list[i][1] \in Word /\ list[i][2] \in Text
<1>1. list[i] \in Word \X Text
    BY DEF Headers
<1>2. QED
    BY <1>1

LEMMA HeaderLinesTyped ==
    ASSUME NEW list \in Headers, NEW known, Filed(known)
    PROVE  HeaderLines(known, list) \subseteq Text
<1> DEFINE Header(i) == Logf(LevelHeaders, known, RedactHeader(list[i][1], list[i][2]))
<1>1. ASSUME NEW i \in DOMAIN list PROVE Header(i) \subseteq Text
    BY HeaderTyped, HeaderIs, LogfTyped
<1>2. HeaderLines(known, list) = UNION {Header(i) : i \in DOMAIN list}
    BY DEF HeaderLines
<1> HIDE DEF Header
<1>3. QED
    BY <1>1, <1>2

LEMMA NothingIsNoBody == None \notin Body /\ Empty \in Body /\ Empty # None
BY NoneAssumption, BodiesAreBodies

LEMMA TripLinesTyped ==
    ASSUME TypeOK, pc = "log", reply.body # None, NEW known, Filed(known)
    PROVE  TripLines(known) \subseteq Text
<1>1. call.body \in Body /\ reply.body \in Body /\ headers \in Headers /\ reply.headers \in Headers
    BY DEF TypeOK, Call, Reply
<1>2. Logf(LevelRequest, known, <<"request">>) \subseteq Text
    BY OneWord, OwnWordsAreWords, LogfTyped DEF OwnWords
<1>3. HeaderLines(known, headers) \subseteq Text /\ HeaderLines(known, reply.headers) \subseteq Text
    BY <1>1, HeaderLinesTyped
<1>4. ASSUME NEW b \in {call.body, reply.body} \ {Empty}
      PROVE  Logf(LevelBody, known, Preview(known, Rendered(RedactBody(b)))) \subseteq Text
    BY <1>1, RedactedText, PreviewTyped, LogfTyped
<1> DEFINE Request == Logf(LevelRequest, known, <<"request">>)
           Fields == HeaderLines(known, headers) \cup HeaderLines(known, reply.headers)
           Content(b) == Logf(LevelBody, known, Preview(known, Rendered(RedactBody(b))))
           Sent == {call.body, reply.body} \ {Empty}
<1>5. TripLines(known) = (Request \cup Fields) \cup UNION {Content(b) : b \in Sent}
    BY DEF TripLines
<1> HIDE DEF Fields, Content, Request, Sent
<1>6. QED
    BY <1>2, <1>3, <1>4, <1>5 DEF Fields, Content, Request, Sent

LEMMA RepeatsAreBodies ==
    ASSUME TypeOK, pc = "send"
    PROVE  Repeats \subseteq Body
<1>1. "page" \in Word /\ <<"page">> \in Text
    BY OneWord, OwnWordsAreWords
<1>2. ASSUME NEW t \in Text PROVE Page(<<"page">> \o t) \in Body /\ Message(t) \in Body
    BY <1>1, Joined, BodiesAreBodies
<1>3. headers \in Headers /\ call.body \in Body
    BY DEF TypeOK, Call
<1>4. \A i \in DOMAIN headers : headers[i][2] \in Text
    BY <1>3, HeaderTyped
<1>5. \A i \in DOMAIN call.body.leaves : call.body.leaves[i].value \in Text
    BY <1>3, BodyIs DEF Leaf
<1>6. SentTexts \subseteq Text
    BY <1>4, <1>5 DEF SentTexts, ValuesOf, LeafValues
<1>7. QED
    BY <1>2, <1>6 DEF Repeats

(***************************************************************************)
(* The credentials known to the logger are texts long enough, longest      *)
(* first; there is a call to send and a reply to log when they are sent    *)
(* and logged; every line is a text.                                       *)
(***************************************************************************)
LEMMA ConnectTyped == TypeOK /\ Connect => TypeOK'
<1>1. SUFFICES ASSUME TypeOK, Connect PROVE TypeOK'
    OBVIOUS
<1>2. user \in Users
    BY <1>1 DEF TypeOK
<1>3. Filed(secrets')
    <2>1. CASE level = 0
        BY <1>1, <2>1, FiledNothing DEF Connect
    <2>2. CASE level # 0
        BY <1>1, <1>2, <2>2, UserIs, FiledNothing, FiledWhenRegistered DEF Connect
    <2>3. QED
        BY <2>1, <2>2
<1>4. <<"token">> \in Text /\ <<"login">> \o user.username \in Text
    BY <1>2, OneWord, OwnWordsAreWords, UserIs, Joined DEF OwnWords
<1>5. /\ Logf(LevelContext, secrets', <<"token">>) \subseteq Text
      /\ Logf(LevelContext, secrets', <<"login">> \o user.username) \subseteq Text
    BY <1>3, <1>4, LogfTyped
<1>6. UNCHANGED <<level, user, reply, calls>> /\ pc = "start"
    BY <1>1 DEF Connect
<1>7. printed' \subseteq Text
    BY <1>1, <1>5 DEF Connect
<1>8. headers' \in Headers
    BY <1>1, <1>2, RequestHeaders DEF Connect, TypeOK
<1>9. /\ pc' \in Labels /\ pc' \notin {"log", "done"}
      /\ call' = None \/ call' = call \/ call' = [what |-> "login", body |-> LoginBody]
      /\ pc' \in {"send"} => call' = [what |-> "login", body |-> LoginBody]
    BY <1>1 DEF Connect, Labels
<1>10. [what |-> "login", body |-> LoginBody] \in Call
    BY <1>2, BodiesAreBodies DEF Call
<1>11. call \in Call \cup {None} /\ reply \in Reply \cup {None}
    BY <1>1, <1>6 DEF TypeOK
<1>12. QED
    BY <1>1, <1>3, <1>6, <1>7, <1>8, <1>9, <1>10, <1>11, FiledIs DEF TypeOK

LEMMA BeginTyped == TypeOK /\ Begin => TypeOK'
<1>1. SUFFICES ASSUME TypeOK, Begin PROVE TypeOK'
    OBVIOUS
<1>2. Filed(secrets) /\ UNCHANGED <<level, user, secrets, headers>> /\ pc' = "send" /\ reply' = None
    BY <1>1, FiledIs DEF TypeOK, Begin
<1>3. calls' \in 0..MaxCalls
    BY <1>1, LimitsAssumption DEF TypeOK, Begin
<1>4. CASE call' = [what |-> "read", body |-> Empty] /\ printed' = {}
    <2>1. call' \in Call
        BY <1>4, BodiesAreBodies DEF Call
    <2>2. QED
        BY <1>1, <1>2, <1>3, <1>4, <2>1, FiledIs DEF TypeOK, Labels
<1>5. ASSUME NEW b \in Bodies, call' = [what |-> "task", body |-> b],
             printed' = Logf(LevelParams, secrets, Rendered(RedactParams(b)))
                        \cup Logf(LevelTask, secrets, <<"start">>)
      PROVE  TypeOK'
    <2>1. b \in Body
        BY BodiesAreBodies
    <2>2. call' \in Call
        BY <1>5, <2>1 DEF Call
    <2>3. Rendered(RedactParams(b)) \in Text /\ <<"start">> \in Text
        BY <2>1, RedactedText, OneWord, OwnWordsAreWords DEF OwnWords
    <2>4. printed' \subseteq Text
        <3>1. /\ Logf(LevelParams, secrets, Rendered(RedactParams(b))) \subseteq Text
              /\ Logf(LevelTask, secrets, <<"start">>) \subseteq Text
            BY <1>2, <2>3, LogfTyped
        <3>2. QED
            BY <1>5, <3>1
    <2>5. QED
        BY <1>1, <1>2, <1>3, <2>2, <2>4, FiledIs DEF TypeOK, Labels
<1>6. QED
    BY <1>1, <1>4, <1>5 DEF Begin

LEMMA SendTyped == TypeOK /\ Send => TypeOK'
<1>1. SUFFICES ASSUME TypeOK, Send PROVE TypeOK'
    OBVIOUS
<1>2. /\ Filed(secrets) /\ UNCHANGED <<level, user, secrets, headers, call, calls>>
      /\ pc = "send" /\ pc' = "log" /\ printed' = {}
    BY <1>1, FiledIs DEF TypeOK, Send
<1>3. Repeats \subseteq Body
    BY <1>1, <1>2, RepeatsAreBodies
<1>4. reply' \in Reply
    <2>1. CASE reply' \in [ok : {FALSE}, headers : ReplyHeaders, body : Replies \cup Repeats]
        BY <1>3, <2>1, BodiesAreBodies, RequestHeaders DEF Reply
    <2>2. CASE reply' = [ok |-> FALSE, headers |-> NoHeaders, body |-> None]
        BY <2>2, RequestHeaders DEF Reply
    <2>3. CASE reply' \in [ok : {TRUE}, headers : ReplyHeaders, body : {Minted}]
        BY <2>3, BodiesAreBodies, RequestHeaders DEF Reply
    <2>4. CASE reply' \in [ok : {TRUE}, headers : ReplyHeaders, body : Replies]
        BY <2>4, BodiesAreBodies, RequestHeaders DEF Reply
    <2>5. QED
        BY <1>1, <2>1, <2>2, <2>3, <2>4, Zenon DEF Send
<1>5. call \in Call
    BY <1>1, <1>2 DEF TypeOK
<1>6. QED
    BY <1>1, <1>2, <1>4, <1>5, FiledIs DEF TypeOK, Labels

LEMMA LogTyped == TypeOK /\ Log => TypeOK'
<1>1. SUFFICES ASSUME TypeOK, Log PROVE TypeOK'
    OBVIOUS
<1>2. /\ Filed(secrets) /\ UNCHANGED <<level, user, headers, call, reply, calls>>
      /\ pc = "log" /\ pc' = "done" /\ call \in Call /\ reply \in Reply
    BY <1>1, FiledIs DEF TypeOK, Log
<1>3. Filed(secrets')
    <2>1. CASE level >= LevelBody /\ reply.body # None
        <3>1. reply.body \in Body
            BY <1>2, <2>1 DEF Reply
        <3>2. secrets' \in Registered(secrets, TicketSecrets(reply.body))
            BY <1>1, <2>1 DEF Log
        <3>3. QED
            BY <1>2, <3>1, <3>2, TicketSecretsAre, FiledWhenRegistered
    <2>2. CASE ~(level >= LevelBody /\ reply.body # None)
        BY <1>1, <1>2, <2>2 DEF Log
    <2>3. QED
        BY <2>1, <2>2
<1>4. printed' \subseteq Text
    <2>1. CASE level < LevelRequest
        <3>1. ~(level >= LevelRequest)
            BY <1>1, <2>1 DEF TypeOK, LevelRequest, LevelFullBody
        <3>2. printed' = {}
            BY <1>1, <2>1, <3>1 DEF Log
        <3>3. QED
            BY <3>2
    <2>2. CASE level >= LevelRequest /\ reply.body = None
        <3>1. printed' = Logf(LevelRequest, secrets, <<"failed">>)
            <4>1. level \in Int /\ LevelRequest = 6
                BY <1>1 DEF TypeOK, LevelRequest, LevelFullBody
            <4>2. ~(level < LevelRequest)
                BY <2>2, <4>1
            <4>3. QED
                BY <1>1, <2>2, <4>2 DEF Log
        <3>2. QED
            BY <1>2, <3>1, OneWord, OwnWordsAreWords, LogfTyped DEF OwnWords
    <2>3. CASE ~(level < LevelRequest) /\ reply.body # None
        <3>1. printed' = TripLines(secrets')
            BY <1>1, <2>3 DEF Log
        <3>2. QED
            BY <1>1, <1>2, <1>3, <2>3, <3>1, TripLinesTyped
    <2>4. QED
        <3>1. level \in Int
            BY <1>1 DEF TypeOK, LevelFullBody
        <3>2. level < LevelRequest \/ level >= LevelRequest
            BY <3>1 DEF LevelRequest
        <3>3. QED
            BY <2>1, <2>2, <2>3, <3>2
<1>5. QED
    BY <1>1, <1>2, <1>3, <1>4, FiledIs DEF TypeOK, Labels

LEMMA DoneTyped == TypeOK /\ Done => TypeOK'
<1>1. SUFFICES ASSUME TypeOK, Done PROVE TypeOK'
    OBVIOUS
<1>2. /\ Filed(secrets) /\ UNCHANGED <<level, user, secrets, call, reply, calls>>
      /\ pc = "done" /\ pc' \in {"stopped", "ready"} /\ call \in Call /\ reply \in Reply
    BY <1>1, FiledIs DEF TypeOK, Done
<1>3. headers' \in Headers
    BY <1>1, RequestHeaders DEF Done, TypeOK
<1>4. Outcome \in Text
    <2>1. <<"done">> \in Text /\ <<"failed">> \in Text /\ <<>> \in Text
        BY OneWord, OwnWordsAreWords DEF OwnWords, Text
    <2>2. CASE reply.body = None \/ reply.body.kind # "text"
        BY <2>1, <2>2, Joined DEF Outcome
    <2>3. CASE ~(reply.body = None \/ reply.body.kind # "text")
        <3>1. reply.body \in Body
            BY <1>2, <2>3 DEF Reply
        <3>2. Rendered(reply.body) \in Text
            BY <3>1, RedactedText
        <3>3. QED
            BY <2>1, <3>2, Joined DEF Outcome
    <2>4. QED
        BY <2>2, <2>3
<1>5. printed' \subseteq Text
    BY <1>1, <1>2, <1>4, LogfTyped DEF Done
<1>6. QED
    BY <1>1, <1>2, <1>3, <1>5, FiledIs DEF TypeOK, Labels

LEMMA TypesInit == Init => TypeOK
<1>1. SUFFICES ASSUME Init PROVE TypeOK
    OBVIOUS
<1>2. Filed(secrets)
    BY <1>1, FiledNothing DEF Init
<1>3. headers \in Headers /\ 0 \in 0..MaxCalls
    BY <1>1, RequestHeaders, LimitsAssumption DEF Init
<1>4. QED
    BY <1>1, <1>2, <1>3, FiledIs DEF Init, TypeOK, Labels

LEMMA TypesStep == TypeOK /\ [Next]_vars => TypeOK'
<1>1. TypeOK /\ Next => TypeOK'
    BY ConnectTyped, BeginTyped, SendTyped, LogTyped, DoneTyped DEF Next
<1>2. TypeOK /\ UNCHANGED vars => TypeOK'
    BY DEF TypeOK, vars
<1>3. QED
    BY <1>1, <1>2

\* Every value the logger and the session keep is of its type, and the secrets
\* are long enough and filed longest first (Logger.Secret), in every behaviour.
THEOREM DebugLogTypeCorrect == Spec => []TypeOK
BY TypesInit, TypesStep, PTL DEF Spec

-----------------------------------------------------------------------------
(***************************************************************************)
(* What the session sends and receives, and what the logger knows of it.   *)
(***************************************************************************)
MintedKnown == level >= LevelBody => Long({Ticket, CSRFToken}) \subseteq ToSet(secrets)

Cookies == << <<"Cookie", Ticket>>, <<"CSRFPreventionToken", CSRFToken>> >>
Bearer == << <<"Authorization", user.token>> >>

Sent == {Empty, LoginBody} \cup Bodies
Echoes == {Page(<<"page">> \o t) : t \in TextsOf(user)} \cup {Message(t) : t \in TextsOf(user)}
Received == Replies \cup {Minted} \cup Echoes

Session ==
    /\ ToSet(secrets) \subseteq Literals(user)
    /\ pc # "start" /\ level > 0 => LoginLiterals(user) \subseteq ToSet(secrets)
    /\ headers \in {<<>>, Bearer, Cookies}
    /\ pc = "start" => headers = <<>>
    /\ headers = Cookies => MintedKnown
    /\ call # None => call.body \in Sent
    /\ reply # None => reply.body \in Received \cup {None}
    /\ reply # None => reply.headers \in ReplyHeaders \cup {NoHeaders}
    /\ pc \in {"log", "done"} /\ call.what = "login" /\ reply.ok => reply.body = Minted
    /\ pc = "done" /\ call.what = "login" /\ reply.ok => MintedKnown

LEMMA TextsOfHas ==
    ASSUME NEW u
    PROVE  /\ {u.token, u.username, u.password, Ticket, CSRFToken} \subseteq TextsOf(u)
           /\ \A b \in Bodies \cup Replies : \A i \in DOMAIN b.leaves :
                b.leaves[i].value \in TextsOf(u)
           /\ \A list \in ReplyHeaders : \A i \in DOMAIN list : list[i][2] \in TextsOf(u)
           /\ \A t \in TextsOf(u) :
                \/ t \in {u.token, u.username, u.password, Ticket, CSRFToken}
                \/ \E b \in Bodies \cup Replies : \E i \in DOMAIN b.leaves : t = b.leaves[i].value
                \/ \E list \in ReplyHeaders : \E i \in DOMAIN list : t = list[i][2]
<1> DEFINE own == {u.token, u.username, u.password, Ticket, CSRFToken}
<1>1. TextsOf(u) = own \cup BodyTexts \cup HeaderTexts
    BY DEF TextsOf
<1> HIDE DEF own
<1>a. \A t : t \in BodyTexts <=> \E b \in Bodies \cup Replies : t \in LeafValues(b)
    BY Zenon DEF BodyTexts
<1>b. \A t : t \in HeaderTexts <=> \E list \in ReplyHeaders : t \in ValuesOf(list)
    BY Zenon DEF HeaderTexts
<1>2. \A t : t \in TextsOf(u) <=>
            \/ t \in own
            \/ \E b \in Bodies \cup Replies : t \in LeafValues(b)
            \/ \E list \in ReplyHeaders : t \in ValuesOf(list)
    BY <1>1, <1>a, <1>b
<1>3. \A b : \A t : t \in LeafValues(b) <=> \E i \in DOMAIN b.leaves : t = b.leaves[i].value
    BY DEF LeafValues
<1>4. \A list : \A t : t \in ValuesOf(list) <=> \E i \in DOMAIN list : t = list[i][2]
    BY DEF ValuesOf
<1>5. own \subseteq TextsOf(u)
    BY <1>2
<1>6. ASSUME NEW b \in Bodies \cup Replies, NEW i \in DOMAIN b.leaves
      PROVE  b.leaves[i].value \in TextsOf(u)
    BY <1>2, <1>3
<1>7. ASSUME NEW list \in ReplyHeaders, NEW i \in DOMAIN list PROVE list[i][2] \in TextsOf(u)
    BY <1>2, <1>4
<1>8. ASSUME NEW t \in TextsOf(u)
      PROVE  \/ t \in own
             \/ \E b \in Bodies \cup Replies : \E i \in DOMAIN b.leaves : t = b.leaves[i].value
             \/ \E list \in ReplyHeaders : \E i \in DOMAIN list : t = list[i][2]
    BY <1>2, <1>3, <1>4
<1>9. QED
    BY <1>5, <1>6, <1>7, <1>8 DEF own

LEMMA LiteralsAreTexts ==
    ASSUME NEW u \in Users
    PROVE  /\ LoginLiterals(u) \subseteq Literals(u) /\ Literals(u) \in SUBSET Text
           /\ TextsOf(u) \in SUBSET Text
<1>1. \A b \in Replies \cup {Minted} : TicketSecrets(b) \in SUBSET Text
    BY BodiesAreBodies, TicketSecretsAre
<1>2. UNION {TicketSecrets(b) : b \in Replies \cup {Minted}} \in SUBSET Text
    BY <1>1
<1>3. ASSUME NEW b \in Bodies \cup Replies PROVE \A i \in DOMAIN b.leaves : b.leaves[i].value \in Text
    BY BodiesAreBodies, BodyIs DEF Leaf
<1>4. ASSUME NEW list \in ReplyHeaders, NEW i \in DOMAIN list PROVE list[i][2] \in Text
    BY RequestHeaders, HeaderTyped
<1>5. TextsOf(u) \in SUBSET Text
    <2>1. {u.token, u.username, u.password, Ticket, CSRFToken} \subseteq Text
        BY UserIs, TextsAssumption
    <2>2. QED
        BY <1>3, <1>4, <2>1, TextsOfHas
<1>6. QED
    BY <1>2, <1>5, UserIs DEF Literals, LoginLiterals, Long

LEMMA MintedTickets == TicketSecrets(Minted) = {Ticket, CSRFToken}
<1> DEFINE a == [path |-> <<"data", "CSRFPreventionToken">>, value |-> CSRFToken]
           b == [path |-> <<"data", "ticket">>, value |-> Ticket]
           paths == {<<"data", "ticket">>, <<"data", "CSRFPreventionToken">>}
<1>1. Minted.kind = "json" /\ Minted.leaves = <<a, b>>
    BY DEF Minted
<1>2. ToSet(<<a, b>>) = {a, b}
    BY DEF ToSet
<1>3. a.path \in paths /\ b.path \in paths /\ a.value = CSRFToken /\ b.value = Ticket
    OBVIOUS
<1> HIDE DEF a, b, paths
<1>4. ValuesAt(Minted, paths) = {CSRFToken, Ticket}
    BY <1>1, <1>2, <1>3 DEF ValuesAt
<1>5. TicketSecrets(Minted) = ValuesAt(Minted, paths)
    BY <1>1 DEF TicketSecrets, paths
<1>6. QED
    BY <1>4, <1>5

LEMMA TicketsAreLiterals ==
    ASSUME NEW u \in Users, NEW b \in Replies \cup {Minted}
    PROVE  Long(TicketSecrets(b)) \subseteq Literals(u)
BY DEF Literals, Long

LEMMA EchoesHaveNoTickets ==
    ASSUME NEW b \in Echoes
    PROVE  TicketSecrets(b) = {}
<1>1. CASE b.kind # "json"
    BY <1>1 DEF TicketSecrets
<1>2. CASE b.kind = "json"
    <2>1. PICK t : b = Message(t)
        BY <1>2 DEF Echoes, Page
    <2> DEFINE leaf == [path |-> <<"message">>, value |-> t]
    <2>2. b.leaves = <<leaf>>
        BY <2>1 DEF Message
    <2>3. ToSet(<<leaf>>) = {leaf} /\ leaf.path = <<"message">>
        BY DEF ToSet
    <2>4. leaf.path \notin {<<"data", "ticket">>, <<"data", "CSRFPreventionToken">>}
        <3>1. Len(<<"message">>) = 1 /\ Len(<<"data", "ticket">>) = 2
              /\ Len(<<"data", "CSRFPreventionToken">>) = 2
            OBVIOUS
        <3>2. QED
            BY <3>1
    <2> HIDE DEF leaf
    <2>5. QED
        BY <2>2, <2>3, <2>4 DEF TicketSecrets, ValuesAt
<1>3. QED
    BY <1>1, <1>2

LEMMA SessionInit == Init => Session
<1>1. SUFFICES ASSUME Init PROVE Session
    OBVIOUS
<1>2. ToSet(<<>>) = {}
    BY FiledNothing
<1>3. headers = <<>> /\ secrets = <<>> /\ pc = "start" /\ call = None /\ reply = None
    BY <1>1 DEF Init, NoHeaders
<1>4. Cookies # <<>>
    BY DEF Cookies
<1>5. QED
    BY <1>2, <1>3, <1>4 DEF Session

LEMMA SessionConnect == TypeOK /\ Session /\ Connect => Session'
<1>1. SUFFICES ASSUME TypeOK, Session, Connect PROVE Session'
    OBVIOUS
<1>2. /\ user \in Users /\ user' = user /\ level' = level /\ level \in 0..LevelFullBody
      /\ pc = "start" /\ pc' \in {"ready", "send", "stopped"} /\ reply' = reply
    BY <1>1 DEF Connect, TypeOK
<1>3. ToSet(secrets') = IF level = 0 THEN {} ELSE LoginLiterals(user)
    <2>1. CASE level = 0
        BY <1>1, <2>1, FiledNothing DEF Connect
    <2>2. CASE level # 0
        <3>1. secrets' \in Registered(<<>>, ToSet(TokenSecrets(user.token)) \cup {user.password})
            BY <1>1, <2>2 DEF Connect
        <3> DEFINE values == ToSet(TokenSecrets(user.token)) \cup {user.password}
        <3>2. values \in SUBSET Text /\ IsFiniteSet(values)
            BY <1>2, UserIs
        <3>3. LoginLiterals(user) = Long(values)
            BY DEF LoginLiterals
        <3> HIDE DEF values
        <3>4. secrets' \in Registered(<<>>, values)
            BY <3>1 DEF values
        <3>5. ToSet(secrets') = ToSet(<<>>) \cup Long(values)
            BY <3>2, <3>4, FiledNothing, FiledWhenRegistered
        <3>6. QED
            BY <2>2, <3>3, <3>5, FiledNothing
    <2>3. QED
        BY <2>1, <2>2
<1>4. LoginLiterals(user)' = LoginLiterals(user) /\ Literals(user)' = Literals(user)
      /\ LoginLiterals(user) \subseteq Literals(user) /\ TextsOf(user)' = TextsOf(user)
      /\ Sent' = Sent /\ Received' = Received
    BY <1>2, LiteralsAreTexts DEF LoginLiterals, Literals, TextsOf, Sent, Received, Echoes, LoginBody
<1>5. CASE headers' = Bearer /\ pc' = "ready" /\ call' = None
    <2>1. Bearer # Cookies
        BY DEF Bearer, Cookies
    <2>2. Bearer' = Bearer /\ Cookies' = Cookies
        BY <1>2 DEF Bearer, Cookies
    <2>3. QED
        BY <1>1, <1>2, <1>3, <1>4, <1>5, <2>1, <2>2 DEF Session
<1>6. CASE headers' = <<>> /\ pc' = "send" /\ call' = [what |-> "login", body |-> LoginBody]
    <2>1. Cookies # <<>> /\ Bearer' = Bearer /\ Cookies' = Cookies
        BY <1>2 DEF Bearer, Cookies
    <2>2. call'.body \in Sent
        BY <1>6 DEF Sent
    <2>3. QED
        BY <1>1, <1>2, <1>3, <1>4, <1>6, <2>1, <2>2 DEF Session
<1>7. CASE headers' = headers /\ pc' = "stopped" /\ call' = call
    <2>1. Bearer' = Bearer /\ Cookies' = Cookies /\ Cookies # <<>>
        BY <1>2 DEF Bearer, Cookies
    <2>2. headers' = <<>>
        BY <1>1, <1>2, <1>7 DEF Session
    <2>3. QED
        BY <1>1, <1>2, <1>3, <1>4, <1>7, <2>1, <2>2 DEF Session
<1>8. QED
    BY <1>1, <1>5, <1>6, <1>7 DEF Connect, Bearer, NoHeaders

\* Of a step that changes neither user, level nor secrets.
LEMMA SameKnowledge ==
    ASSUME UNCHANGED <<level, user, secrets>>
    PROVE  /\ ToSet(secrets') = ToSet(secrets) /\ MintedKnown' = MintedKnown
           /\ Literals(user)' = Literals(user) /\ LoginLiterals(user)' = LoginLiterals(user)
           /\ Sent' = Sent /\ Received' = Received /\ Bearer' = Bearer
BY DEF MintedKnown, Literals, LoginLiterals, Sent, Received, Echoes, TextsOf, LoginBody, Bearer

LEMMA SessionBegin == TypeOK /\ Session /\ Begin => Session'
<1>1. SUFFICES ASSUME TypeOK, Session, Begin PROVE Session'
    OBVIOUS
<1>2. /\ UNCHANGED <<level, user, secrets, headers>> /\ pc = "ready" /\ pc' = "send"
      /\ reply' = None
    BY <1>1 DEF Begin
<1>3. call'.body \in Sent
    BY <1>1 DEF Begin, Sent
<1>4. Cookies' = Cookies
    BY DEF Cookies
<1>5. QED
    BY <1>1, <1>2, <1>3, <1>4, SameKnowledge DEF Session

LEMMA CallAndReply ==
    ASSUME TypeOK, Session
    PROVE  /\ pc \in {"send", "log", "done"} => call # None /\ call \in Call /\ call.body \in Sent
           /\ pc \in {"log", "done"} =>
                /\ reply # None /\ reply \in Reply /\ reply.body \in Received \cup {None}
                /\ reply.headers \in ReplyHeaders \cup {NoHeaders}
           /\ None \notin Body
<1>1. None \notin Call /\ None \notin Reply /\ None \notin Body
    BY NoneAssumption
<1>2. QED
    BY <1>1 DEF TypeOK, Session

LEMMA RepeatsAreEchoes ==
    ASSUME TypeOK, Session, pc = "send"
    PROVE  Repeats \subseteq Echoes
<1>1. call.body \in Sent /\ user \in Users /\ headers \in {<<>>, Bearer, Cookies}
    BY CallAndReply DEF TypeOK, Session
<1>2. ASSUME NEW i \in DOMAIN headers PROVE headers[i][2] \in TextsOf(user)
    BY <1>1, <1>2 DEF Bearer, Cookies, TextsOf
<1>3. ASSUME NEW i \in DOMAIN call.body.leaves PROVE call.body.leaves[i].value \in TextsOf(user)
    <2>1. CASE call.body = Empty
        BY <1>3, <2>1 DEF Empty
    <2>2. CASE call.body = LoginBody
        BY <1>3, <2>2 DEF LoginBody, TextsOf
    <2>3. CASE call.body \in Bodies
        BY <1>3, <2>3, TextsOfHas
    <2>4. QED
        BY <1>1, <2>1, <2>2, <2>3 DEF Sent
<1>4. QED
    BY <1>2, <1>3 DEF Repeats, SentTexts, ValuesOf, LeafValues, Echoes

LEMMA SessionSend == TypeOK /\ Session /\ Send => Session'
<1>1. SUFFICES ASSUME TypeOK, Session, Send PROVE Session'
    OBVIOUS
<1>2. /\ UNCHANGED <<level, user, secrets, headers, call>> /\ pc = "send" /\ pc' = "log"
    BY <1>1 DEF Send
<1>3. Repeats \subseteq Echoes
    BY <1>1, <1>2, RepeatsAreEchoes
<1>4. /\ reply'.body \in Received \cup {None} /\ reply'.headers \in ReplyHeaders \cup {NoHeaders}
      /\ call.what = "login" /\ reply'.ok => reply'.body = Minted
    <2>1. CASE reply' \in [ok : {FALSE}, headers : ReplyHeaders, body : Replies \cup Repeats]
        BY <1>3, <2>1 DEF Received
    <2>2. CASE reply' = [ok |-> FALSE, headers |-> NoHeaders, body |-> None]
        BY <2>2
    <2>3. CASE reply' \in [ok : {TRUE}, headers : ReplyHeaders, body : {Minted}]
        BY <2>3 DEF Received
    <2>4. CASE call.what # "login" /\ reply' \in [ok : {TRUE}, headers : ReplyHeaders, body : Replies]
        BY <2>4 DEF Received
    <2>5. QED
        BY <1>1, <2>1, <2>2, <2>3, <2>4, Zenon DEF Send
<1>5. Cookies' = Cookies
    BY DEF Cookies
<1>6. QED
    BY <1>1, <1>2, <1>4, <1>5, SameKnowledge DEF Session

LEMMA SessionLog == TypeOK /\ Session /\ Log => Session'
<1>1. SUFFICES ASSUME TypeOK, Session, Log PROVE Session'
    OBVIOUS
<1>2. /\ UNCHANGED <<level, user, headers, call, reply>> /\ pc = "log" /\ pc' = "done"
      /\ user \in Users /\ Filed(secrets) /\ level \in Int
    BY <1>1, FiledIs DEF Log, TypeOK, LevelFullBody
<1>3. reply.body \in Received \cup {None} /\ reply # None
    BY <1>1, <1>2, CallAndReply
<1>4. /\ ToSet(secrets) \subseteq ToSet(secrets') /\ ToSet(secrets') \subseteq Literals(user)
      /\ reply.body = Minted /\ level >= LevelBody => Long({Ticket, CSRFToken}) \subseteq ToSet(secrets')
    <2>1. CASE level >= LevelBody /\ reply.body # None
        <3>1. secrets' \in Registered(secrets, TicketSecrets(reply.body))
            BY <1>1, <2>1 DEF Log
        <3>2. reply.body \in Body /\ reply.body \in Received
            BY <1>1, <1>2, <1>3, <2>1, CallAndReply DEF Reply
        <3>3. ToSet(secrets') = ToSet(secrets) \cup Long(TicketSecrets(reply.body))
            BY <1>2, <3>1, <3>2, TicketSecretsAre, FiledWhenRegistered
        <3>4. Long(TicketSecrets(reply.body)) \subseteq Literals(user)
            <4>1. CASE reply.body \in Replies \cup {Minted}
                BY <1>2, <4>1, TicketsAreLiterals
            <4>2. CASE reply.body \in Echoes
                BY <4>2, EchoesHaveNoTickets DEF Long
            <4>3. QED
                BY <3>2, <4>1, <4>2 DEF Received
        <3>5. QED
            BY <1>1, <3>3, <3>4, MintedTickets DEF Session
    <2>2. CASE ~(level >= LevelBody /\ reply.body # None)
        <3>1. Minted # None
            BY BodiesAreBodies, NoneAssumption
        <3>2. QED
            BY <1>1, <2>2, <3>1 DEF Log, Session
    <2>3. QED
        BY <2>1, <2>2
<1>5. /\ Literals(user)' = Literals(user) /\ LoginLiterals(user)' = LoginLiterals(user)
      /\ Sent' = Sent /\ Received' = Received /\ Bearer' = Bearer /\ Cookies' = Cookies
    BY <1>2 DEF Literals, LoginLiterals, Sent, Received, Echoes, TextsOf, LoginBody, Bearer, Cookies
<1>6. MintedKnown => MintedKnown'
    BY <1>2, <1>4 DEF MintedKnown
<1>7. reply.body = Minted => MintedKnown'
    BY <1>2, <1>4 DEF MintedKnown
<1>8. QED
    BY <1>1, <1>2, <1>4, <1>5, <1>6, <1>7 DEF Session

LEMMA SessionDone == TypeOK /\ Session /\ Done => Session'
<1>1. SUFFICES ASSUME TypeOK, Session, Done PROVE Session'
    OBVIOUS
<1>2. /\ UNCHANGED <<level, user, secrets, call, reply>> /\ pc = "done"
      /\ pc' \in {"stopped", "ready"}
    BY <1>1 DEF Done
<1>3. Cookies' = Cookies
    BY DEF Cookies
<1>4. headers' \in {headers, Cookies} /\ (headers' = headers \/ (call.what = "login" /\ reply.ok))
    BY <1>1 DEF Done, Cookies
<1>5. headers' = Cookies => MintedKnown
    BY <1>1, <1>2, <1>4 DEF Session
<1>6. QED
    BY <1>1, <1>2, <1>3, <1>4, <1>5, SameKnowledge DEF Session

LEMMA SessionStep == TypeOK /\ Session /\ [Next]_vars => Session'
<1>1. TypeOK /\ Session /\ Next => Session'
    BY SessionConnect, SessionBegin, SessionSend, SessionLog, SessionDone DEF Next
<1>2. Session /\ UNCHANGED vars => Session'
    <2>1. SUFFICES ASSUME Session, UNCHANGED vars PROVE Session'
        OBVIOUS
    <2>2. UNCHANGED <<level, user, secrets, headers, pc, call, reply>> /\ Cookies' = Cookies
        BY <2>1 DEF vars, Cookies
    <2>3. QED
        BY <2>1, <2>2, SameKnowledge DEF Session
<1>3. QED
    BY <1>1, <1>2

-----------------------------------------------------------------------------
(***************************************************************************)
(* Lines.  A text fits what the logger knows if the credentials it has are *)
(* whole; its words are accounted for by the texts in the open.            *)
(***************************************************************************)
Fit(text, known) == text \in Text /\ \A l \in ToSet(known) : CoveredBy(text, ToSet(known), ToSet(l))

Sourced(text, texts) ==
    \A w \in ToSet(text) : w \in Spoken \/ \E t \in texts : w \in ToSet(t)

Good(line, known, texts) ==
    /\ line \in Text
    /\ \A l \in ToSet(known) : ToSet(line) \cap ToSet(l) = {}
    /\ Sourced(line, texts)

\* What a message is scrubbed with, unless there is none to write.
Knows(known) ==
    /\ Filed(known) /\ user \in Users /\ level \in 0..LevelFullBody
    /\ ToSet(known) \subseteq Literals(user)
    /\ level > 0 => LoginLiterals(user) \subseteq ToSet(known)

\* Spelled as in a body, or repeated in a page.
Accounted(t) ==
    t \in Printable(user) \/ \E p \in Printable(user) : t = <<"page">> \o p

LEMMA LiteralsAreCredentials ==
    ASSUME Distinctive, NEW u \in Users, NEW l \in Literals(u)
    PROVE  l \in CredentialsOf(u) \cup {u.token}
<1>1. u.token \in Text
    BY UserIs
<1>2. LoginLiterals(u) \subseteq CredentialsOf(u) \cup {u.token}
    BY <1>1, TokenSecretsIs DEF LoginLiterals, Long, CredentialsOf
<1>3. ASSUME NEW b \in Replies, NEW t \in TicketSecrets(b) PROVE t \in CredentialsOf(u)
    <2>1. b \in Body
        BY BodiesAreBodies
    <2>2. PICK leaf \in ToSet(b.leaves) :
                leaf.path \in {<<"data", "ticket">>, <<"data", "CSRFPreventionToken">>} /\ leaf.value = t
        BY <1>3 DEF TicketSecrets, ValuesAt
    <2>3. PICK i \in DOMAIN b.leaves : b.leaves[i] = leaf
        BY <2>2 DEF ToSet
    <2>4. \E k \in ToSet(leaf.path) : Sensitive(k)
        <3>1. "ticket" \in SensitiveKeys /\ "CSRFPreventionToken" \in SensitiveKeys
            BY DEF Distinctive, KeysAreNamed
        <3>2. "ticket" \in ToSet(<<"data", "ticket">>)
              /\ "CSRFPreventionToken" \in ToSet(<<"data", "CSRFPreventionToken">>)
            BY DEF ToSet
        <3>3. QED
            BY <2>2, <3>1, <3>2 DEF Sensitive
    <2>5. ~Open(b.leaves[i])
        BY <2>3, <2>4 DEF Open
    <2>6. t \in SecretValues(b)
        BY <2>2, <2>3, <2>5 DEF SecretValues
    <2>7. QED
        BY <2>6 DEF CredentialsOf
<1>4. QED
    BY <1>2, <1>3, MintedTickets DEF Literals, Long, CredentialsOf

LEMMA LiteralsHaveNoOwnWords ==
    ASSUME Distinctive, NEW u \in Users, NEW l \in Literals(u)
    PROVE  ToSet(l) \cap Spoken = {} /\ "REDACTED" \notin ToSet(l) /\ "..." \notin ToSet(l)
<1>1. \A c \in CredentialsOf(u) \cup {u.token} : ToSet(c) \cap Spoken = {}
    BY DEF Distinctive, OwnWordsApart, Spellings
<1>2. l \in CredentialsOf(u) \cup {u.token}
    BY LiteralsAreCredentials
<1>3. "REDACTED" \in Spoken /\ "..." \in Spoken
    BY DEF Spoken, OwnWords
<1>4. QED
    BY <1>1, <1>2, <1>3

LEMMA KnownIsSweepable ==
    ASSUME Distinctive, NEW known, Knows(known)
    PROVE  Sweepable(known)
<1>1. \A i \in 1..Len(known) : known[i] \in Literals(user)
    <2>1. DOMAIN known = 1..Len(known)
        BY DEF Knows, Filed
    <2>2. QED
        BY <2>1 DEF Knows, ToSet
<1>2. \A s, d \in Literals(user) : ~Dovetails(s, d)
    BY DEF Distinctive, LiteralsApart, Knows
<1>3. QED
    BY <1>1, <1>2, FiledIsLong DEF Knows, Filed, Sweepable

LEMMA PrintableTexts ==
    ASSUME user \in Users
    PROVE  /\ Printable(user) \in SUBSET Text /\ TextsOf(user) \subseteq Printable(user)
           /\ \A t \in TextsOf(user) : Encoded("json", t) \in Printable(user)
           /\ \A t \in FormTexts(user) : Encoded("form", t) \in Printable(user)
<1>1. TextsOf(user) \in SUBSET Text
    BY LiteralsAreTexts
<1>2. ASSUME NEW t \in FormTexts(user) PROVE t \in TextsOf(user)
    <2>1. CASE t = user.username
        BY <2>1, TextsOfHas
    <2>2. ASSUME NEW b \in Bodies, t \in OpenValues(b) PROVE t \in TextsOf(user)
        <3>1. PICK i \in DOMAIN b.leaves : t = b.leaves[i].value
            BY <2>2 DEF OpenValues
        <3>2. QED
            BY <3>1, TextsOfHas
    <2>3. QED
        BY <2>1, <2>2 DEF FormTexts
<1>3. \A t \in TextsOf(user) : Encoded("json", t) \in Text /\ Encoded("form", t) \in Text
    BY <1>1, EncodedIs
<1>4. QED
    BY <1>1, <1>2, <1>3 DEF Printable

LEMMA FitTexts ==
    ASSUME Distinctive, NEW known, Knows(known), level > 0, NEW t \in Printable(user)
    PROVE  Fit(t, known)
<1>1. t \in Text /\ user \in Users
    BY PrintableTexts DEF Knows
<1>2. ASSUME NEW l \in ToSet(known) PROVE CoveredBy(t, ToSet(known), ToSet(l))
    <2>1. l \in Literals(user) /\ LoginLiterals(user) \cup {l} \subseteq ToSet(known)
        BY <1>2 DEF Knows
    <2>2. CoveredBy(t, LoginLiterals(user) \cup {l}, ToSet(l))
        BY <1>1, <2>1 DEF Distinctive, LiteralsWhole
    <2>3. QED
        BY <2>1, <2>2 DEF CoveredBy
<1>3. QED
    BY <1>1, <1>2 DEF Fit

LEMMA FitOwnWords ==
    ASSUME Distinctive, NEW known, Knows(known), NEW t \in Text, ToSet(t) \subseteq Spoken
    PROVE  Fit(t, known)
<1>1. ASSUME NEW l \in ToSet(known) PROVE CoveredBy(t, ToSet(known), ToSet(l))
    <2>1. ToSet(l) \cap Spoken = {}
        BY LiteralsHaveNoOwnWords DEF Knows
    <2>2. \A p \in 1..Len(t) : t[p] \in ToSet(t)
        BY LengthOfText DEF ToSet
    <2>3. QED
        BY <2>1, <2>2 DEF CoveredBy
<1>2. QED
    BY <1>1 DEF Fit

LEMMA KnownTexts ==
    ASSUME NEW known, Knows(known)
    PROVE  ToSet(known) \in SUBSET Text
BY RangeIsFinite DEF Knows, Filed

LEMMA FitJoined ==
    ASSUME NEW known, Knows(known), NEW a, NEW b, Fit(a, known), Fit(b, known)
    PROVE  Fit(a \o b, known)
BY KnownTexts, Joined, JoinedCovered DEF Fit

LEMMA AccountedFits ==
    ASSUME Distinctive, NEW known, Knows(known), level > 0, NEW t, Accounted(t)
    PROVE  Fit(t, known)
<1>1. CASE t \in Printable(user)
    BY <1>1, FitTexts
<1>2. ASSUME NEW p \in Printable(user), t = <<"page">> \o p PROVE Fit(t, known)
    <2>1. <<"page">> \in Text /\ ToSet(<<"page">>) = {"page"} /\ "page" \in Spoken
        BY OneWord, OwnWordsAreWords DEF Spoken
    <2>2. Fit(<<"page">>, known) /\ Fit(p, known)
        BY <2>1, FitOwnWords, FitTexts
    <2>3. QED
        BY <1>2, <2>2, FitJoined
<1>3. QED
    BY <1>1, <1>2 DEF Accounted

LEMMA SourcedJoined ==
    ASSUME NEW texts, NEW a \in Text, NEW b \in Text, Sourced(a, texts), Sourced(b, texts)
    PROVE  Sourced(a \o b, texts)
BY Joined DEF Sourced

LEMMA SourcedOwnWords ==
    ASSUME NEW texts, NEW t, ToSet(t) \subseteq Spoken
    PROVE  Sourced(t, texts)
BY DEF Sourced

LEMMA SourcedMore ==
    ASSUME NEW texts, NEW more, texts \subseteq more, NEW t, Sourced(t, texts)
    PROVE  Sourced(t, more)
BY DEF Sourced

(***************************************************************************)
(* A text that fits is a good line once it is swept.                       *)
(***************************************************************************)
LEMMA GoodIsFit ==
    ASSUME NEW known, NEW texts, NEW line, Good(line, known, texts)
    PROVE  Fit(line, known)
<1>1. \A p \in 1..Len(line) : line[p] \in ToSet(line)
    BY LengthOfText DEF ToSet, Good
<1>2. QED
    BY <1>1 DEF Good, Fit, CoveredBy

LEMMA ScrubGood ==
    ASSUME Distinctive, NEW known, Knows(known), NEW text, NEW texts,
           Fit(text, known), Sourced(text, texts)
    PROVE  Good(Scrub(known, text), known, texts)
<1> DEFINE line == Scrub(known, text)
<1>1. Sweepable(known) /\ text \in Text
    BY KnownIsSweepable DEF Fit
<1>2. line \in Text
    BY <1>1, ScrubAddsNoWord
<1>3. \A q \in 1..Len(line) : line[q] = "REDACTED" \/ \E p \in 1..Len(text) : text[p] = line[q]
    BY <1>1, ScrubAddsNoWord
<1>4. ASSUME NEW l \in ToSet(known) PROVE \A q \in 1..Len(line) : line[q] \notin ToSet(l)
    <2>1. "REDACTED" \notin ToSet(l)
        BY LiteralsHaveNoOwnWords DEF Knows
    <2>2. CoveredBy(text, ToSet(known), ToSet(l))
        BY DEF Fit
    <2>3. QED
        BY <1>1, <2>1, <2>2, ScrubClears
<1> HIDE DEF line
<1>5. DOMAIN line = 1..Len(line) /\ DOMAIN text = 1..Len(text)
    BY <1>1, <1>2, LengthOfText
<1>6. \A w \in ToSet(line) : w = "REDACTED" \/ w \in ToSet(text)
    BY <1>3, <1>5 DEF ToSet
<1>7. Sourced(line, texts)
    <2>1. "REDACTED" \in Spoken
        BY DEF Spoken, OwnWords
    <2>2. QED
        BY <1>6, <2>1 DEF Sourced
<1>8. \A l \in ToSet(known) : ToSet(line) \cap ToSet(l) = {}
    BY <1>4, <1>5 DEF ToSet
<1>9. QED
    BY <1>2, <1>7, <1>8 DEF Good, line

LEMMA LogfGood ==
    ASSUME Distinctive, NEW known, Knows(known), NEW at \in 1..9, NEW text, NEW texts,
           level > 0 => Fit(text, known) /\ Sourced(text, texts),
           NEW line \in Logf(at, known, text)
    PROVE  Good(line, known, texts)
<1>1. at <= level /\ line = Scrub(known, text)
    BY DEF Logf
<1>2. level > 0
    BY <1>1 DEF Knows, LevelFullBody
<1>3. QED
    BY <1>1, <1>2, ScrubGood

LEMMA PreviewGood ==
    ASSUME Distinctive, NEW known, Knows(known), NEW text, NEW texts,
           Fit(text, known), Sourced(text, texts)
    PROVE  Good(Preview(known, text), known, texts)
<1> DEFINE line == Scrub(known, text)
<1>1. Good(line, known, texts)
    BY ScrubGood
<1> HIDE DEF line
<1>2. Cut(line) \in Text /\ ToSet(Cut(line)) \subseteq ToSet(line) \cup {"..."}
    BY <1>1, CutIs DEF Good
<1>3. \A l \in ToSet(known) : "..." \notin ToSet(l)
    BY LiteralsHaveNoOwnWords DEF Knows
<1>4. \A l \in ToSet(known) : ToSet(Cut(line)) \cap ToSet(l) = {}
    BY <1>1, <1>2, <1>3 DEF Good
<1>5. "..." \in Spoken
    BY DEF Spoken, OwnWords
<1>6. Sourced(Cut(line), texts)
    BY <1>1, <1>2, <1>5 DEF Good, Sourced
<1>7. Good(Cut(line), known, texts)
    BY <1>2, <1>4, <1>6 DEF Good
<1>8. QED
    BY <1>1, <1>7 DEF Preview, line

(***************************************************************************)
(* What is sent and received fits, masked or not, encoded or not.          *)
(***************************************************************************)
\* Keys are no credentials, and values are accounted for as they are spelled.
Plain(kind, leaf) ==
    /\ ToSet(leaf.path) \subseteq Spoken /\ ToSet(Encoded(kind, leaf.path)) \subseteq Spoken
    /\ Accounted(leaf.value)
    /\ Open(leaf) => Accounted(Encoded(kind, leaf.value))

LEMMA OwnKeysArePlain ==
    ASSUME NEW kind, NEW path \in Text, ToSet(path) \subseteq OwnKeys
    PROVE  ToSet(path) \subseteq Spoken /\ ToSet(Encoded(kind, path)) \subseteq Spoken
<1>1. Encoded(kind, path) = path
    BY EncodedIs
<1>2. QED
    BY <1>1 DEF Spoken

LEMMA KeyIsText ==
    /\ \A k \in OwnKeys : <<k>> \in Text /\ ToSet(<<k>>) \subseteq OwnKeys
    /\ \A j, k \in OwnKeys : <<j, k>> \in Text /\ ToSet(<<j, k>>) \subseteq OwnKeys
<1>1. \A k \in OwnKeys : k \in Word
    BY WordsAssumption
<1>2. \A k \in Word : <<k>> \in Text /\ ToSet(<<k>>) = {k}
    BY OneWord
<1>3. \A j, k \in Word : <<j, k>> \in Text /\ ToSet(<<j, k>>) = {j, k}
    BY DEF Text, ToSet
<1>4. QED
    BY <1>1, <1>2, <1>3

LEMMA GivenLeaves ==
    ASSUME user \in Users, NEW b \in Bodies \cup Replies, NEW i \in DOMAIN b.leaves
    PROVE  Plain(b.kind, b.leaves[i])
<1> DEFINE leaf == b.leaves[i]
<1>1. b \in Body /\ leaf \in Leaf
    BY BodiesAreBodies, BodyIs
<1>2. leaf.value \in TextsOf(user)
    BY TextsOfHas
<1>3. ToSet(leaf.path) \cup ToSet(Encoded(b.kind, leaf.path)) \subseteq Spoken
    <2>1. ToSet(leaf.path) \cup ToSet(Encoded(b.kind, leaf.path)) \subseteq KeyWords(b)
        BY DEF KeyWords
    <2> HIDE DEF leaf
    <2>2. KeyWords(b) \subseteq BodyWords
        BY Zenon DEF BodyWords
    <2>3. QED
        BY <2>1, <2>2 DEF Spoken
<1>4. Open(leaf) => Accounted(Encoded(b.kind, leaf.value))
    <2>1. CASE b \in Bodies
        <3>1. b.kind = "form"
            BY <2>1, BodiesAssumption DEF Structured
        <3>2. Open(leaf) => leaf.value \in FormTexts(user)
            BY <2>1 DEF FormTexts, OpenValues
        <3>3. QED
            BY <3>1, <3>2, PrintableTexts DEF Accounted
    <2>2. CASE b \in Replies
        <3>1. b.kind \in {"json", "text"}
            BY <2>2, BodiesAssumption DEF Structured, Pages
        <3>2. leaf.value \in Text
            BY <1>1 DEF Leaf
        <3>3. b.kind = "text" => Encoded(b.kind, leaf.value) = leaf.value
            BY <3>2, EncodedIs
        <3>4. QED
            BY <1>2, <3>1, <3>3, PrintableTexts DEF Accounted
    <2>3. QED
        BY <2>1, <2>2
<1>5. Accounted(leaf.value)
    BY <1>2, PrintableTexts DEF Accounted
<1> HIDE DEF leaf
<1>6. QED
    BY <1>3, <1>4, <1>5 DEF Plain, leaf

\* A leaf under keys of pvectl's own, in JSON or, if it is open, in a form.
LEMMA OwnLeaf ==
    ASSUME user \in Users, NEW kind \in {"json", "form"}, NEW leaf,
           leaf.path \in Text, ToSet(leaf.path) \subseteq OwnKeys, leaf.value \in TextsOf(user),
           kind = "form" /\ Open(leaf) => leaf.value \in FormTexts(user)
    PROVE  Plain(kind, leaf)
<1>1. ToSet(leaf.path) \subseteq Spoken /\ ToSet(Encoded(kind, leaf.path)) \subseteq Spoken
    BY OwnKeysArePlain
<1>2. Accounted(leaf.value) /\ (Open(leaf) => Accounted(Encoded(kind, leaf.value)))
    BY PrintableTexts DEF Accounted
<1>3. QED
    BY <1>1, <1>2 DEF Plain

LEMMA BodyLeaves ==
    ASSUME Distinctive, user \in Users, NEW b \in Sent \cup Received
    PROVE  b \in Body /\ \A i \in DOMAIN b.leaves : Plain(b.kind, b.leaves[i])
<1>1. CASE b \in Bodies \cup Replies
    BY <1>1, BodiesAreBodies, GivenLeaves
<1>2. CASE b = Empty
    BY <1>2, BodiesAreBodies DEF Empty
<1>3. CASE b = LoginBody
    <2>1. b \in Body /\ b.kind = "form"
        BY <1>3, BodiesAreBodies DEF LoginBody
    <2> DEFINE p == [path |-> <<"password">>, value |-> user.password]
               u == [path |-> <<"username">>, value |-> user.username]
    <2>2. /\ p.path \in Text /\ ToSet(p.path) \subseteq OwnKeys
          /\ u.path \in Text /\ ToSet(u.path) \subseteq OwnKeys
        BY KeyIsText DEF OwnKeys
    <2>3. p.value \in TextsOf(user) /\ u.value \in TextsOf(user) /\ u.value \in FormTexts(user)
        BY DEF TextsOf, FormTexts
    <2>4. ~Open(p)
        <3>1. "password" \in ToSet(p.path) /\ "password" \in SensitiveKeys
            BY DEF ToSet, Distinctive, KeysAreNamed
        <3> HIDE DEF p
        <3>2. QED
            BY <3>1 DEF Open, Sensitive
    <2> HIDE DEF p, u
    <2>5. Plain("form", p) /\ Plain("form", u)
        BY <2>2, <2>3, <2>4, OwnLeaf
    <2>6. ASSUME NEW i \in DOMAIN b.leaves PROVE b.leaves[i] \in {p, u}
        BY <1>3, <2>6 DEF LoginBody, p, u
    <2>7. QED
        BY <2>1, <2>5, <2>6
<1>4. CASE b = Minted
    <2>1. b \in Body /\ b.kind = "json"
        BY <1>4, BodiesAreBodies DEF Minted
    <2> DEFINE c == [path |-> <<"data", "CSRFPreventionToken">>, value |-> CSRFToken]
               t == [path |-> <<"data", "ticket">>, value |-> Ticket]
    <2>2. /\ c.path \in Text /\ ToSet(c.path) \subseteq OwnKeys
          /\ t.path \in Text /\ ToSet(t.path) \subseteq OwnKeys
        BY KeyIsText DEF OwnKeys
    <2>3. c.value \in TextsOf(user) /\ t.value \in TextsOf(user)
        BY DEF TextsOf
    <2> HIDE DEF c, t
    <2>4. Plain("json", c) /\ Plain("json", t)
        BY <2>2, <2>3, OwnLeaf
    <2>5. ASSUME NEW i \in DOMAIN b.leaves PROVE b.leaves[i] \in {c, t}
        BY <1>4, <2>5 DEF Minted, c, t
    <2>6. QED
        BY <2>1, <2>4, <2>5
<1>5. ASSUME NEW t \in TextsOf(user), b = Page(<<"page">> \o t)
      PROVE  b \in Body /\ \A i \in DOMAIN b.leaves : Plain(b.kind, b.leaves[i])
    <2>1. t \in Text /\ t \in Printable(user)
        BY LiteralsAreTexts, PrintableTexts
    <2>2. <<"page">> \o t \in Text
        BY <2>1, OneWord, OwnWordsAreWords, Joined
    <2>3. b \in Body /\ b.kind = "text"
        BY <1>5, <2>2, BodiesAreBodies DEF Page
    <2>4. <<>> \in Text /\ ToSet(<<>>) \subseteq OwnKeys
        BY DEF Text, ToSet
    <2>5. ToSet(<<>>) \subseteq Spoken /\ ToSet(Encoded("text", <<>>)) \subseteq Spoken
        BY <2>4, OwnKeysArePlain
    <2>6. Accounted(<<"page">> \o t) /\ Encoded("text", <<"page">> \o t) = <<"page">> \o t
        <3>1. Accounted(<<"page">> \o t)
            BY <2>1, Zenon DEF Accounted
        <3>2. \A x \in Text : Encoded("text", x) = x
            BY EncodedIs
        <3>3. QED
            BY <2>2, <3>1, <3>2
    <2> DEFINE all == <<"page">> \o t
    <2>7. ASSUME NEW i \in DOMAIN b.leaves
          PROVE  b.leaves[i].path = <<>> /\ b.leaves[i].value = all
        BY <1>5, <2>7 DEF Page
    <2> HIDE DEF all
    <2>8. QED
        BY <2>3, <2>5, <2>6, <2>7, Zenon DEF Plain, all
<1>6. ASSUME NEW t \in TextsOf(user), b = Message(t)
      PROVE  b \in Body /\ \A i \in DOMAIN b.leaves : Plain(b.kind, b.leaves[i])
    <2>1. t \in Text
        BY LiteralsAreTexts
    <2>2. b \in Body /\ b.kind = "json"
        BY <1>6, <2>1, BodiesAreBodies DEF Message
    <2> DEFINE m == [path |-> <<"message">>, value |-> t]
    <2>3. m.path \in Text /\ ToSet(m.path) \subseteq OwnKeys /\ m.value \in TextsOf(user)
        BY KeyIsText DEF OwnKeys
    <2> HIDE DEF m
    <2>4. Plain("json", m)
        BY <2>3, OwnLeaf
    <2>5. ASSUME NEW i \in DOMAIN b.leaves PROVE b.leaves[i] = m
        BY <1>6, <2>5 DEF Message, m
    <2>6. QED
        BY <2>2, <2>4, <2>5
<1>7. QED
    BY <1>1, <1>2, <1>3, <1>4, <1>5, <1>6 DEF Sent, Received, Echoes

\* Leaves that are fit make a rendering that is.
LEMMA LeavesFit ==
    ASSUME Distinctive, NEW known, Knows(known), NEW texts, NEW r, r.leaves \in Seq(Leaf),
           \A i \in 1..Len(r.leaves) :
                /\ ToSet(r.leaves[i].path) \subseteq Spoken
                /\ \/ r.leaves[i].value = Redacted
                   \/ Fit(r.leaves[i].value, known) /\ r.leaves[i].value \in texts
    PROVE  Fit(Rendered(r), known) /\ Sourced(Rendered(r), texts)
<1>1. Rendered(r) \in Text
    BY RenderedWords
<1>2. ToSet(Redacted) \subseteq Spoken /\ Fit(Redacted, known)
    <2>1. ToSet(Redacted) \subseteq Spoken
        BY MaskIsText DEF Spoken, OwnWords
    <2>2. QED
        BY <2>1, MaskIsText, FitOwnWords
<1>3. ASSUME NEW i \in 1..Len(r.leaves)
      PROVE  Fit(r.leaves[i].path, known) /\ Fit(r.leaves[i].value, known)
    <2>1. r.leaves[i] \in Leaf
        OBVIOUS
    <2>2. r.leaves[i].path \in Text
        BY <2>1 DEF Leaf
    <2>3. QED
        BY <1>2, <2>2, FitOwnWords
<1>4. ASSUME NEW l \in ToSet(known) PROVE CoveredBy(Rendered(r), ToSet(known), ToSet(l))
    <2>1. \A i \in 1..Len(r.leaves) :
            /\ CoveredBy(r.leaves[i].path, ToSet(known), ToSet(l))
            /\ CoveredBy(r.leaves[i].value, ToSet(known), ToSet(l))
        BY <1>3 DEF Fit
    <2>2. QED
        BY <2>1, KnownTexts, RenderedCovered
<1>5. ASSUME NEW w \in ToSet(Rendered(r)), w \notin Spoken PROVE \E t \in texts : w \in ToSet(t)
    <2>1. PICK i \in 1..Len(r.leaves) :
                w \in ToSet(r.leaves[i].path) \cup ToSet(r.leaves[i].value)
        BY RenderedWords
    <2>2. w \in ToSet(r.leaves[i].value)
        BY <1>5, <2>1
    <2>3. r.leaves[i].value # Redacted
        BY <1>2, <1>5, <2>2
    <2>4. QED
        BY <2>2, <2>3
<1>6. QED
    BY <1>1, <1>4, <1>5 DEF Fit, Sourced

\* A key that is masked under is spelled like a key.
LEMMA MaskedPath ==
    ASSUME NEW kind, NEW leaf \in Leaf, ToSet(Encoded(kind, leaf.path)) \subseteq Spoken
    PROVE  ToSet(Encoded(kind, MaskedLeaf(leaf).path)) \subseteq Spoken
<1>1. /\ MaskedLeaf(leaf).path \in Text /\ leaf.path \in Text
      /\ ToSet(MaskedLeaf(leaf).path) \subseteq ToSet(leaf.path)
    BY MaskedLeafIs DEF Leaf
<1>2. /\ ToSet(Encoded(kind, leaf.path)) = {Spelled(kind, w) : w \in ToSet(leaf.path)}
      /\ ToSet(Encoded(kind, MaskedLeaf(leaf).path))
            = {Spelled(kind, w) : w \in ToSet(MaskedLeaf(leaf).path)}
    BY <1>1, EncodedIs
<1>3. QED
    BY <1>1, <1>2

LEMMA EncodedMask == \A kind : Encoded(kind, Redacted) = Redacted
<1>1. Redacted \in Text /\ ToSet(Redacted) \subseteq OwnWords
    BY MaskIsText DEF OwnWords
<1>2. QED
    BY <1>1, EncodedIs

LEMMA RedactedFits ==
    ASSUME Distinctive, NEW known, Knows(known), level > 0, NEW b \in Sent \cup Received
    PROVE  /\ Fit(Rendered(RedactBody(b)), known)
           /\ Sourced(Rendered(RedactBody(b)), OpenTexts(b))
<1> DEFINE r == RedactBody(b)
<1>1. /\ b \in Body /\ DOMAIN b.leaves = 1..Len(b.leaves)
      /\ \A i \in 1..Len(b.leaves) : b.leaves[i] \in Leaf /\ Plain(b.kind, b.leaves[i])
    BY BodyLeaves, BodyIs DEF Knows
<1>2. /\ r.leaves \in Seq(Leaf) /\ Len(r.leaves) = Len(b.leaves)
      /\ \A i \in 1..Len(b.leaves) : r.leaves[i] = EncodedLeaf(b.kind, MaskedLeaf(b.leaves[i]))
    BY <1>1, RedactBodyIs
<1> HIDE DEF r
<1>3. ASSUME NEW i \in 1..Len(r.leaves)
      PROVE  /\ ToSet(r.leaves[i].path) \subseteq Spoken
             /\ \/ r.leaves[i].value = Redacted
                \/ Fit(r.leaves[i].value, known) /\ r.leaves[i].value \in OpenTexts(b)
    <2> DEFINE leaf == b.leaves[i]
               masked == MaskedLeaf(leaf)
    <2>1. i \in 1..Len(b.leaves) /\ leaf \in Leaf /\ Plain(b.kind, leaf)
        BY <1>1, <1>2
    <2>2. masked \in Leaf /\ (Open(leaf) => masked = leaf) /\ (~Open(leaf) => masked.value = Redacted)
        BY <2>1, MaskedLeafIs
    <2>3. /\ r.leaves[i].path = Encoded(b.kind, masked.path)
          /\ r.leaves[i].value = Encoded(b.kind, masked.value)
        BY <1>2, <2>1, <2>2, EncodedLeafIs
    <2>4. ToSet(r.leaves[i].path) \subseteq Spoken
        BY <2>1, <2>3, MaskedPath DEF Plain
    <2>5. CASE Open(leaf)
        <3>1. r.leaves[i].value = Encoded(b.kind, leaf.value)
            BY <2>2, <2>3, <2>5
        <3>2. leaf.value \in OpenValues(b)
            BY <1>1, <2>1, <2>5 DEF OpenValues
        <3>3. r.leaves[i].value \in OpenTexts(b)
            BY <3>1, <3>2 DEF OpenTexts
        <3>4. Fit(r.leaves[i].value, known)
            BY <2>1, <2>5, <3>1, AccountedFits DEF Plain
        <3>5. QED
            BY <2>4, <3>3, <3>4
    <2>6. CASE ~Open(leaf)
        BY <2>2, <2>3, <2>4, <2>6, EncodedMask
    <2>7. QED
        BY <2>5, <2>6
<1>4. QED
    BY <1>2, <1>3, LeavesFit DEF r

LEMMA ParamsFit ==
    ASSUME Distinctive, NEW known, Knows(known), level > 0, NEW b \in Bodies
    PROVE  /\ Fit(Rendered(RedactParams(b)), known)
           /\ Sourced(Rendered(RedactParams(b)), OpenTexts(b))
<1> DEFINE r == RedactParams(b)
<1>1. /\ b \in Body /\ DOMAIN b.leaves = 1..Len(b.leaves)
      /\ \A i \in 1..Len(b.leaves) : b.leaves[i] \in Leaf /\ Plain(b.kind, b.leaves[i])
    BY BodyLeaves, BodyIs DEF Knows, Sent
<1>2. /\ r.leaves \in Seq(Leaf) /\ Len(r.leaves) = Len(b.leaves)
      /\ \A i \in 1..Len(b.leaves) : r.leaves[i] = MaskedLeaf(b.leaves[i])
    BY <1>1, RedactParamsIs
<1> HIDE DEF r
<1>3. ASSUME NEW i \in 1..Len(r.leaves)
      PROVE  /\ ToSet(r.leaves[i].path) \subseteq Spoken
             /\ \/ r.leaves[i].value = Redacted
                \/ Fit(r.leaves[i].value, known) /\ r.leaves[i].value \in OpenTexts(b)
    <2> DEFINE leaf == b.leaves[i]
    <2>1. i \in 1..Len(b.leaves) /\ leaf \in Leaf /\ Plain(b.kind, leaf)
        BY <1>1, <1>2
    <2>2. /\ r.leaves[i] = MaskedLeaf(leaf) /\ (Open(leaf) => r.leaves[i] = leaf)
          /\ (~Open(leaf) => r.leaves[i].value = Redacted)
          /\ ToSet(r.leaves[i].path) \subseteq ToSet(leaf.path)
        BY <1>2, <2>1, MaskedLeafIs
    <2>3. CASE Open(leaf)
        <3>1. leaf.value \in OpenTexts(b)
            BY <1>1, <2>1, <2>3 DEF OpenValues, OpenTexts
        <3>2. Fit(leaf.value, known) /\ ToSet(leaf.path) \subseteq Spoken
            BY <2>1, AccountedFits DEF Plain
        <3>3. QED
            BY <2>2, <2>3, <3>1, <3>2
    <2>4. CASE ~Open(leaf)
        BY <2>1, <2>2, <2>4 DEF Plain
    <2>5. QED
        BY <2>3, <2>4
<1>4. QED
    BY <1>2, <1>3, LeavesFit DEF r

LEMMA PageFits ==
    ASSUME Distinctive, NEW known, Knows(known), level > 0,
           NEW b \in Sent \cup Received, b.kind = "text"
    PROVE  Fit(Rendered(b), known) /\ Sourced(Rendered(b), OpenTexts(b))
<1>1. RedactBody(b) = b
    BY DEF RedactBody
<1>2. QED
    BY <1>1, RedactedFits

(***************************************************************************)
(* Every line printed is good.                                             *)
(***************************************************************************)
Clean == \A line \in printed : Good(line, secrets, Exposed)

LEMMA GoodForMore ==
    ASSUME NEW known, NEW texts, NEW more, texts \subseteq more, NEW line, Good(line, known, texts)
    PROVE  Good(line, known, more)
BY SourcedMore DEF Good

LEMMA OwnLine ==
    ASSUME Distinctive, NEW known, Knows(known), NEW w \in OwnWords, NEW texts
    PROVE  Fit(<<w>>, known) /\ Sourced(<<w>>, texts) /\ <<w>> \in Text
<1>1. <<w>> \in Text /\ ToSet(<<w>>) = {w} /\ w \in Spoken
    BY OneWord, OwnWordsAreWords DEF Spoken
<1>2. ToSet(<<w>>) \subseteq Spoken
    BY <1>1
<1>3. QED
    BY <1>1, <1>2, FitOwnWords, SourcedOwnWords

LEMMA KnowsNow ==
    ASSUME TypeOK, Session, pc # "start"
    PROVE  Knows(secrets)
BY FiledIs DEF TypeOK, Session, Knows

LEMMA KnowsNext ==
    ASSUME TypeOK', Session', pc' # "start", UNCHANGED <<level, user>>
    PROVE  Knows(secrets')
<1>1. Filed(secrets') /\ user' \in Users /\ level' \in 0..LevelFullBody
    BY FiledIs DEF TypeOK
<1>2. Literals(user)' = Literals(user) /\ LoginLiterals(user)' = LoginLiterals(user)
    BY DEF Literals, LoginLiterals
<1>3. QED
    BY <1>1, <1>2 DEF Session, Knows

LEMMA AtLevels ==
    /\ LevelContext \in 1..9 /\ LevelTask \in 1..9 /\ LevelParams \in 1..9 /\ LevelRequest \in 1..9
    /\ LevelHeaders \in 1..9 /\ LevelBody \in 1..9
BY DEF LevelContext, LevelTask, LevelParams, LevelRequest, LevelHeaders, LevelBody

LEMMA ExposedHas ==
    \A t : t \in Exposed <=>
        \/ \E b \in Exchanged : t \in OpenTexts(b)
        \/ reply # None /\ t \in OpenHeaders(reply.headers)
<1>1. \A t : t \in OpenInBodies <=> \E b \in Exchanged : t \in OpenTexts(b)
    BY Zenon DEF OpenInBodies
<1>2. \A t : t \in OpenInAnswer <=> reply # None /\ t \in OpenHeaders(reply.headers)
    BY DEF OpenInAnswer
<1>3. QED
    BY <1>1, <1>2 DEF Exposed

\* The same of the next state, whose call and reply are bodies and headers too.
LEMMA ExposedHasNext ==
    \A t : t \in Exposed' <=>
        \/ \E b \in Exchanged' : t \in OpenTexts(b)
        \/ reply' # None /\ t \in OpenHeaders(reply'.headers)
<1>1. (\A t : t \in Exposed <=>
        \/ \E b \in Exchanged : t \in OpenTexts(b)
        \/ reply # None /\ t \in OpenHeaders(reply.headers))'
    BY ExposedHas, PTL
<1>2. \A b : OpenTexts(b)' = OpenTexts(b)
    BY DEF OpenTexts, OpenValues
<1>3. OpenHeaders(reply.headers)' = OpenHeaders(reply'.headers)
    BY DEF OpenHeaders
<1>4. QED
    BY <1>1, <1>2, <1>3

LEMMA ExposedIs ==
    ASSUME TypeOK, Session, pc \in {"send", "log", "done"}
    PROVE  /\ OpenTexts(call.body) \subseteq Exposed
           /\ pc \in {"log", "done"} /\ reply.body # None => OpenTexts(reply.body) \subseteq Exposed
           /\ pc \in {"log", "done"} => OpenHeaders(reply.headers) \subseteq Exposed
<1>1. call.body \in Exchanged
    BY CallAndReply DEF Exchanged
<1>2. pc \in {"log", "done"} /\ reply.body # None => reply.body \in Exchanged
    BY CallAndReply DEF Exchanged
<1>3. pc \in {"log", "done"} => reply # None
    BY CallAndReply
<1>4. QED
    BY <1>1, <1>2, <1>3, ExposedHas

LEMMA ExposedNext ==
    ASSUME TypeOK', Session', pc' \in {"send", "log", "done"}
    PROVE  /\ OpenTexts(call'.body) \subseteq Exposed'
           /\ pc' \in {"log", "done"} /\ reply'.body # None => OpenTexts(reply'.body) \subseteq Exposed'
           /\ pc' \in {"log", "done"} => OpenHeaders(reply'.headers) \subseteq Exposed'
<1>1. call' \in Call /\ call' # None
    BY NoneAssumption DEF TypeOK
<1>2. pc' \in {"log", "done"} => reply' \in Reply /\ reply' # None
    BY NoneAssumption DEF TypeOK
<1>3. /\ call'.body \in Exchanged'
      /\ pc' \in {"log", "done"} /\ reply'.body # None => reply'.body \in Exchanged'
    BY <1>1, <1>2 DEF Exchanged
<1>4. QED
    BY <1>2, <1>3, ExposedHasNext

LEMMA UsernameIsOpen ==
    ASSUME Distinctive
    PROVE  user.username \in OpenTexts(LoginBody)
<1> DEFINE a == [path |-> <<"password">>, value |-> user.password]
           c == [path |-> <<"username">>, value |-> user.username]
<1>1. ToSet(<<"username">>) = {"username"} /\ "username" \notin SensitiveKeys
    BY DEF ToSet, Distinctive, KeysAreNamed
<1>2. c.path = <<"username">> /\ c.value = user.username
    OBVIOUS
<1>3. Open(c)
    BY <1>1, <1>2 DEF Open, Sensitive
<1>4. LoginBody.leaves = <<a, c>>
    BY DEF LoginBody
<1> HIDE DEF a, c
<1>5. 2 \in DOMAIN LoginBody.leaves /\ LoginBody.leaves[2] = c
    BY <1>4
<1>6. user.username \in OpenValues(LoginBody)
    BY <1>2, <1>3, <1>5 DEF OpenValues
<1>7. QED
    BY <1>6 DEF OpenTexts

LEMMA CleanConnect ==
    Distinctive /\ TypeOK /\ TypeOK' /\ Session' /\ Connect => Clean'
<1>1. SUFFICES ASSUME Distinctive, TypeOK, TypeOK', Session', Connect, NEW line \in printed'
               PROVE  Good(line, secrets', Exposed')
    BY DEF Clean
<1>2. UNCHANGED <<level, user>> /\ pc' # "start" /\ user \in Users
    BY <1>1 DEF Connect, TypeOK
<1>3. Knows(secrets')
    BY <1>1, <1>2, KnowsNext
<1>4. CASE printed' = Logf(LevelContext, secrets', <<"token">>)
    <2>1. "token" \in OwnWords
        BY DEF OwnWords
    <2>2. QED
        BY <1>1, <1>3, <1>4, <2>1, OwnLine, AtLevels, LogfGood
<1>5. CASE /\ printed' = Logf(LevelContext, secrets', <<"login">> \o user.username)
           /\ pc' = "send" /\ call' = [what |-> "login", body |-> LoginBody]
    <2>1. "login" \in OwnWords
        BY DEF OwnWords
    <2>2. OpenTexts(LoginBody) \subseteq Exposed'
        BY <1>1, <1>5, ExposedNext
    <2>3. Sourced(user.username, Exposed')
        BY <1>1, <2>2, UsernameIsOpen DEF Sourced
    <2>4. user.username \in Text /\ user.username \in Printable(user)
        BY <1>2, UserIs, PrintableTexts DEF TextsOf
    <2>5. /\ Fit(<<"login">>, secrets') /\ Sourced(<<"login">>, Exposed') /\ <<"login">> \in Text
        BY <1>1, <1>3, <2>1, OwnLine
    <2>6. Sourced(<<"login">> \o user.username, Exposed')
        BY <2>3, <2>4, <2>5, SourcedJoined
    <2>7. level > 0 => Fit(<<"login">> \o user.username, secrets')
        BY <1>1, <1>3, <2>4, <2>5, FitTexts, FitJoined
    <2>8. QED
        BY <1>1, <1>3, <1>5, <2>6, <2>7, AtLevels, LogfGood
<1>6. CASE printed' = {}
    BY <1>1, <1>6
<1>7. QED
    BY <1>1, <1>4, <1>5, <1>6, Zenon DEF Connect

LEMMA CleanBegin ==
    Distinctive /\ TypeOK /\ Session /\ TypeOK' /\ Session' /\ Begin => Clean'
<1>1. SUFFICES ASSUME Distinctive, TypeOK, Session, TypeOK', Session', Begin, NEW line \in printed'
               PROVE  Good(line, secrets', Exposed')
    BY DEF Clean
<1>2. UNCHANGED <<level, user, secrets>> /\ pc = "ready" /\ pc' = "send"
    BY <1>1 DEF Begin
<1>3. Knows(secrets)
    BY <1>1, <1>2, KnowsNow
<1>4. PICK b \in Bodies : /\ call' = [what |-> "task", body |-> b]
                          /\ printed' = Logf(LevelParams, secrets, Rendered(RedactParams(b)))
                                        \cup Logf(LevelTask, secrets, <<"start">>)
    BY <1>1 DEF Begin
<1>5. OpenTexts(b) \subseteq Exposed'
    BY <1>1, <1>2, <1>4, ExposedNext
<1>6. CASE line \in Logf(LevelParams, secrets, Rendered(RedactParams(b)))
    <2>1. level > 0 => Fit(Rendered(RedactParams(b)), secrets)
                       /\ Sourced(Rendered(RedactParams(b)), OpenTexts(b))
        BY <1>1, <1>3, ParamsFit
    <2>2. Good(line, secrets, OpenTexts(b))
        BY <1>1, <1>3, <1>6, <2>1, AtLevels, LogfGood
    <2>3. QED
        BY <1>2, <1>5, <2>2, GoodForMore
<1>7. CASE line \in Logf(LevelTask, secrets, <<"start">>)
    <2>1. "start" \in OwnWords
        BY DEF OwnWords
    <2>2. QED
        BY <1>1, <1>2, <1>3, <1>7, <2>1, OwnLine, AtLevels, LogfGood
<1>8. QED
    BY <1>1, <1>4, <1>6, <1>7

\* A header that is not masked is an answer's.
LEMMA HeaderLine ==
    ASSUME Distinctive, NEW known, Knows(known), level > 0, NEW texts,
           NEW list \in {NoHeaders, Bearer, Cookies} \cup ReplyHeaders,
           list \in ReplyHeaders => OpenHeaders(list) \subseteq texts,
           NEW i \in DOMAIN list
    PROVE  /\ Fit(RedactHeader(list[i][1], list[i][2]), known)
           /\ Sourced(RedactHeader(list[i][1], list[i][2]), texts)
<1> DEFINE name == list[i][1]
           value == list[i][2]
           line == RedactHeader(name, value)
<1>0. user \in Users
    BY DEF Knows
<1>1. list \in Headers /\ name \in Word /\ value \in Text
    BY <1>0, RequestHeaders, HeaderTyped DEF Bearer, Cookies
<1>2. CASE list \notin ReplyHeaders
    <2>1. name \in {"Authorization", "Cookie", "CSRFPreventionToken"}
        BY <1>2 DEF Bearer, Cookies, NoHeaders
    <2>2. name \in SensitiveHeaders /\ name \in Spoken
        BY <2>1 DEF Distinctive, KeysAreNamed, Spoken, OwnKeys
    <2>3. QED
        <3>1. "REDACTED" \in Spoken
            BY DEF Spoken, OwnWords
        <3>2. line \in Text /\ ToSet(line) \subseteq Spoken
            BY <1>1, <2>2, <3>1, HeaderIs
        <3> HIDE DEF line, name, value
        <3>3. QED
            BY <3>2, FitOwnWords, SourcedOwnWords DEF line, name, value
<1>3. CASE list \in ReplyHeaders
    <2>1. name \in Spoken /\ value \in TextsOf(user)
        <3>1. value \in TextsOf(user)
            BY <1>3, TextsOfHas
        <3>2. name \in NamesOf(list)
            BY DEF NamesOf
        <3> HIDE DEF name
        <3>3. name \in HeaderNames
            BY <1>3, <3>2, Zenon DEF HeaderNames
        <3>4. name \in Spoken
            BY <3>3 DEF Spoken
        <3>5. QED
            BY <3>1, <3>4
    <2>2. CASE name \in SensitiveHeaders
        <3>1. "REDACTED" \in Spoken
            BY DEF Spoken, OwnWords
        <3>2. line \in Text /\ ToSet(line) \subseteq Spoken
            BY <1>1, <2>1, <2>2, <3>1, HeaderIs
        <3> HIDE DEF line, name, value
        <3>3. QED
            BY <3>2, FitOwnWords, SourcedOwnWords DEF line, name, value
    <2>3. CASE name \notin SensitiveHeaders
        <3>1. line = <<name>> \o value
            BY <2>3 DEF RedactHeader
        <3>2. <<name>> \in Text /\ ToSet(<<name>>) \subseteq Spoken
            BY <1>1, <2>1, OneWord
        <3>3. Fit(<<name>>, known) /\ Fit(value, known)
            BY <1>0, <2>1, <3>2, FitOwnWords, FitTexts, PrintableTexts
        <3>4. value \in OpenHeaders(list)
            BY <2>3 DEF OpenHeaders
        <3>5. Sourced(value, texts)
            BY <1>3, <3>4 DEF Sourced
        <3>6. Sourced(<<name>>, texts)
            BY <3>2, SourcedOwnWords
        <3> HIDE DEF line, name, value
        <3>7. Fit(line, known) /\ Sourced(line, texts)
            BY <1>1, <3>1, <3>2, <3>3, <3>5, <3>6, FitJoined, SourcedJoined
        <3>8. QED
            BY <3>7 DEF line, name, value
    <2>4. QED
        BY <2>2, <2>3
<1>4. QED
    BY <1>2, <1>3

LEMMA HeaderLinesGood ==
    ASSUME Distinctive, NEW known, Knows(known), NEW texts,
           NEW list \in {NoHeaders, Bearer, Cookies} \cup ReplyHeaders,
           list \in ReplyHeaders => OpenHeaders(list) \subseteq texts,
           NEW line \in HeaderLines(known, list)
    PROVE  Good(line, known, texts)
<1>1. PICK i \in DOMAIN list :
            line \in Logf(LevelHeaders, known, RedactHeader(list[i][1], list[i][2]))
    BY DEF HeaderLines
<1>2. level > 0 => /\ Fit(RedactHeader(list[i][1], list[i][2]), known)
                   /\ Sourced(RedactHeader(list[i][1], list[i][2]), texts)
    BY HeaderLine
<1>3. QED
    BY <1>1, <1>2, AtLevels, LogfGood

LEMMA CleanTrip ==
    ASSUME Distinctive, TypeOK, Session, pc = "log", reply.body # None, NEW texts,
           OpenTexts(call.body) \subseteq texts, OpenTexts(reply.body) \subseteq texts,
           OpenHeaders(reply.headers) \subseteq texts,
           NEW known, Knows(known), NEW line \in TripLines(known)
    PROVE  Good(line, known, texts)
<1>1. call.body \in Sent \cup Received /\ reply.body \in Sent \cup Received
    BY CallAndReply
<1>2. CASE line \in Logf(LevelRequest, known, <<"request">>)
    <2>1. "request" \in OwnWords
        BY DEF OwnWords
    <2>2. QED
        BY <1>2, <2>1, OwnLine, AtLevels, LogfGood
<1>3. CASE line \in HeaderLines(known, headers)
    <2>1. headers \in {NoHeaders, Bearer, Cookies}
        BY DEF Session, NoHeaders
    <2>2. headers \in ReplyHeaders => OpenHeaders(headers) = {}
        BY <2>1 DEF OpenHeaders, Bearer, Cookies, NoHeaders, Distinctive, KeysAreNamed
    <2>3. QED
        BY <1>3, <2>1, <2>2, HeaderLinesGood
<1>4. CASE line \in HeaderLines(known, reply.headers)
    <2>1. reply.headers \in ReplyHeaders \cup {NoHeaders}
        BY CallAndReply
    <2>2. QED
        BY <1>4, <2>1, HeaderLinesGood
<1>5. ASSUME NEW b \in {call.body, reply.body},
             line \in Logf(LevelBody, known, Preview(known, Rendered(RedactBody(b))))
      PROVE  Good(line, known, texts)
    <2> DEFINE text == Preview(known, Rendered(RedactBody(b)))
    <2>1. b \in Sent \cup Received /\ OpenTexts(b) \subseteq texts
        BY <1>1
    <2>2. level > 0 => Good(text, known, OpenTexts(b))
        BY <2>1, RedactedFits, PreviewGood
    <2> HIDE DEF text
    <2>3. level > 0 => Fit(text, known) /\ Sourced(text, texts)
        BY <2>1, <2>2, GoodIsFit, SourcedMore DEF Good
    <2>4. line \in Logf(LevelBody, known, text)
        BY <1>5 DEF text
    <2>5. QED
        BY <2>3, <2>4, AtLevels, LogfGood
<1>6. \/ line \in Logf(LevelRequest, known, <<"request">>)
      \/ line \in HeaderLines(known, headers)
      \/ line \in HeaderLines(known, reply.headers)
      \/ \E b \in {call.body, reply.body} :
            line \in Logf(LevelBody, known, Preview(known, Rendered(RedactBody(b))))
    BY Zenon DEF TripLines
<1>7. QED
    BY <1>2, <1>3, <1>4, <1>5, <1>6

LEMMA CleanLog ==
    Distinctive /\ TypeOK /\ Session /\ TypeOK' /\ Session' /\ Log => Clean'
<1>1. SUFFICES ASSUME Distinctive, TypeOK, Session, TypeOK', Session', Log, NEW line \in printed'
               PROVE  Good(line, secrets', Exposed')
    BY DEF Clean
<1>2. UNCHANGED <<level, user, call, reply>> /\ pc = "log" /\ pc' = "done"
    BY <1>1 DEF Log
<1>3. Knows(secrets) /\ Knows(secrets')
    BY <1>1, <1>2, KnowsNow, KnowsNext
<1>4. CASE reply.body = None
    <2>1. secrets' = secrets /\ line \in Logf(LevelRequest, secrets, <<"failed">>)
        BY <1>1, <1>4 DEF Log, TripLines, TypeOK, LevelFullBody, LevelRequest
    <2>2. "failed" \in OwnWords
        BY DEF OwnWords
    <2>3. QED
        BY <1>1, <1>3, <2>1, <2>2, OwnLine, AtLevels, LogfGood
<1>5. CASE reply.body # None
    <2>1. printed' = {} \/ printed' = TripLines(secrets')
        <3>1. CASE level < LevelRequest
            BY <1>1, <1>5, <3>1 DEF Log
        <3>2. CASE ~(level < LevelRequest)
            BY <1>1, <1>5, <3>2, Zenon DEF Log
        <3>3. QED
            BY <3>1, <3>2
    <2>2. /\ OpenTexts(call.body) \subseteq Exposed' /\ OpenTexts(reply.body) \subseteq Exposed'
          /\ OpenHeaders(reply.headers) \subseteq Exposed'
        BY <1>1, <1>2, <1>5, ExposedNext
    <2>3. QED
        BY <1>1, <1>2, <1>3, <1>5, <2>1, <2>2, CleanTrip
<1>6. QED
    BY <1>4, <1>5

LEMMA CleanDone ==
    Distinctive /\ TypeOK /\ Session /\ Done => Clean'
<1>1. SUFFICES ASSUME Distinctive, TypeOK, Session, Done, NEW line \in printed'
               PROVE  Good(line, secrets', Exposed')
    BY DEF Clean
<1>2. UNCHANGED <<level, user, secrets, call, reply>> /\ pc = "done"
    BY <1>1 DEF Done
<1>3. Exposed' = Exposed /\ secrets' = secrets
    BY <1>2 DEF Exposed, OpenInBodies, OpenInAnswer, Exchanged, OpenTexts, OpenValues,
                OpenHeaders
<1>4. Knows(secrets)
    BY <1>1, <1>2, KnowsNow
<1>5. line \in Logf(LevelTask, secrets, Outcome)
    BY <1>1 DEF Done
<1>6. level > 0 => Fit(Outcome, secrets) /\ Sourced(Outcome, Exposed)
    <2>1. "done" \in OwnWords /\ "failed" \in OwnWords
        BY DEF OwnWords
    <2>2. CASE reply.ok
        BY <1>1, <1>4, <2>1, <2>2, OwnLine DEF Outcome
    <2>3. CASE ~reply.ok
        <3> DEFINE rest == IF reply.body = None \/ reply.body.kind # "text" THEN <<>>
                           ELSE Rendered(reply.body)
        <3>1. Outcome = <<"failed">> \o rest
            BY <2>3 DEF Outcome
        <3>2. rest \in Text /\ (level > 0 => Fit(rest, secrets) /\ Sourced(rest, Exposed))
            <4>1. CASE reply.body = None \/ reply.body.kind # "text"
                <5>1. rest = <<>>
                    BY <4>1
                <5>2. <<>> \in Text /\ ToSet(<<>>) \subseteq Spoken
                    BY FiledNothing DEF Text
                <5>3. Fit(<<>>, secrets) /\ Sourced(<<>>, Exposed)
                    BY <1>1, <1>4, <5>2, FitOwnWords, SourcedOwnWords
                <5>4. QED
                    BY <5>1, <5>2, <5>3, Zenon
            <4>2. CASE reply.body # None /\ reply.body.kind = "text"
                <5>1. reply.body \in Sent \cup Received /\ OpenTexts(reply.body) \subseteq Exposed
                    BY <1>1, <1>2, <4>2, CallAndReply, ExposedIs
                <5>2. reply.body \in Body
                    BY <1>1, <1>2, <4>2 DEF TypeOK, Reply
                <5>3. Rendered(reply.body) \in Text
                    BY <5>2, RedactedText
                <5>4. level > 0 => Fit(Rendered(reply.body), secrets)
                                   /\ Sourced(Rendered(reply.body), OpenTexts(reply.body))
                    BY <1>1, <1>4, <4>2, <5>1, PageFits
                <5>5. rest = Rendered(reply.body)
                    BY <4>2
                <5> HIDE DEF rest
                <5>6. QED
                    BY <5>1, <5>3, <5>4, <5>5, SourcedMore
            <4>3. QED
                BY <4>1, <4>2
        <3> HIDE DEF rest
        <3>3. /\ Fit(<<"failed">>, secrets) /\ Sourced(<<"failed">>, Exposed)
              /\ <<"failed">> \in Text
            BY <1>1, <1>4, <2>1, OwnLine
        <3>4. QED
            BY <1>4, <3>1, <3>2, <3>3, FitJoined, SourcedJoined
    <2>4. QED
        BY <2>2, <2>3
<1>7. Good(line, secrets, Exposed)
    BY <1>1, <1>4, <1>5, <1>6, AtLevels, LogfGood
<1>8. QED
    BY <1>3, <1>7

LEMMA CleanStep ==
    Distinctive /\ TypeOK /\ Session /\ TypeOK' /\ Session' /\ Clean /\ [Next]_vars => Clean'
<1>1. ASSUME TypeOK', Send PROVE Clean'
    BY <1>1 DEF Send, Clean
<1>2. Clean /\ UNCHANGED vars => Clean'
    <2>1. SUFFICES ASSUME Clean, UNCHANGED vars PROVE Clean'
        OBVIOUS
    <2>2. secrets' = secrets /\ printed' = printed /\ Exposed' = Exposed
        BY <2>1
        DEF vars, Exposed, OpenInBodies, OpenInAnswer, Exchanged, OpenTexts, OpenValues, OpenHeaders
    <2>3. QED
        BY <2>1, <2>2 DEF Clean
<1>3. QED
    BY <1>1, <1>2, CleanConnect, CleanBegin, CleanLog, CleanDone DEF Next

(***************************************************************************)
(* The inductive invariant: types, the session, good lines, nothing said   *)
(* before the logger knows anything, and at the highest level the bodies   *)
(* of a call among the lines of its round trip.                            *)
(***************************************************************************)
Quiet == pc = "start" => printed = {}

Shown ==
    pc = "done" /\ level = LevelFullBody /\ reply.body # None =>
        \A b \in {call.body, reply.body} \ {Empty} :
            Scrub(secrets, Scrub(secrets, Rendered(RedactBody(b)))) \in printed

IInv == TypeOK /\ Session /\ Clean /\ Quiet /\ Shown

LEMMA ShownStep == TypeOK /\ Shown /\ [Next]_vars => Shown'
<1>1. SUFFICES ASSUME TypeOK, Shown, [Next]_vars PROVE Shown'
    OBVIOUS
<1>2. CASE UNCHANGED vars
    BY <1>1, <1>2 DEF vars, Shown
<1>3. CASE Log
    <2>1. SUFFICES ASSUME level = LevelFullBody, reply.body # None,
                          NEW b \in {call.body, reply.body} \ {Empty}
                   PROVE  Scrub(secrets', Scrub(secrets', Rendered(RedactBody(b)))) \in printed'
        BY <1>3 DEF Log, Shown
    <2>2. ~(level < LevelRequest) /\ LevelBody <= level /\ level >= LevelFullBody
        BY <2>1 DEF LevelRequest, LevelBody, LevelFullBody
    <2>3. printed' = TripLines(secrets')
        BY <1>3, <2>1, <2>2, Zenon DEF Log
    <2>4. Preview(secrets', Rendered(RedactBody(b))) = Scrub(secrets', Rendered(RedactBody(b)))
        BY <2>2 DEF Preview
    <2>5. Logf(LevelBody, secrets', Preview(secrets', Rendered(RedactBody(b))))
            = {Scrub(secrets', Scrub(secrets', Rendered(RedactBody(b))))}
        BY <2>2, <2>4 DEF Logf
    <2>6. QED
        BY <2>3, <2>5, Zenon DEF TripLines
<1>4. CASE Connect \/ Begin \/ Send \/ Done
    <2>1. pc' # "done"
        BY <1>4 DEF Connect, Begin, Send, Done
    <2>2. QED
        BY <2>1 DEF Shown
<1>5. QED
    BY <1>1, <1>2, <1>3, <1>4 DEF Next

LEMMA Invariance ==
    ASSUME Distinctive
    PROVE  Spec => []IInv
<1>1. Init => IInv
    <2>1. SUFFICES ASSUME Init PROVE IInv
        OBVIOUS
    <2>2. printed = {} /\ pc = "start"
        BY <2>1 DEF Init
    <2>3. Clean /\ Quiet /\ Shown
        BY <2>2 DEF Clean, Quiet, Shown
    <2>4. QED
        BY <2>1, <2>3, TypesInit, SessionInit DEF IInv
<1>2. IInv /\ [Next]_vars => IInv'
    <2>1. SUFFICES ASSUME IInv, [Next]_vars PROVE IInv'
        OBVIOUS
    <2>2. TypeOK' /\ Session'
        BY <2>1, TypesStep, SessionStep DEF IInv
    <2>3. Clean' /\ Shown'
        BY <2>1, <2>2, CleanStep, ShownStep DEF IInv
    <2>4. Quiet'
        BY <2>1 DEF IInv, Quiet, Next, Connect, Begin, Send, Log, Done, vars
    <2>5. QED
        BY <2>2, <2>3, <2>4 DEF IInv
<1>3. QED
    BY <1>1, <1>2, PTL DEF Spec

\* Words in the open are keys', or of texts as they may be printed.
LEMMA ExposedIsPrintable ==
    ASSUME Distinctive, TypeOK, Session, NEW t \in Exposed, NEW w \in ToSet(t), w \notin Spoken
    PROVE  \E p \in Printable(user) : w \in ToSet(p)
<1>1. user \in Users
    BY DEF TypeOK
<1>2. \A x : Accounted(x) /\ w \in ToSet(x) => \E p \in Printable(user) : w \in ToSet(p)
    <2>1. ASSUME NEW p \in Printable(user), w \in ToSet(<<"page">> \o p) PROVE w \in ToSet(p)
        <3>1. <<"page">> \in Text /\ ToSet(<<"page">>) = {"page"} /\ "page" \in Spoken /\ p \in Text
            BY <1>1, OneWord, OwnWordsAreWords, PrintableTexts DEF Spoken
        <3>2. ToSet(<<"page">> \o p) = ToSet(<<"page">>) \cup ToSet(p)
            BY <3>1, Joined
        <3>3. QED
            BY <2>1, <3>1, <3>2
    <2>2. QED
        BY <2>1 DEF Accounted
<1>3. ASSUME NEW b \in Exchanged, t \in OpenTexts(b) PROVE Accounted(t)
    <2>1. b \in Sent \cup Received
        BY DEF Session, Exchanged
    <2>2. \A i \in DOMAIN b.leaves : Plain(b.kind, b.leaves[i])
        BY <1>1, <2>1, BodyLeaves
    <2>3. PICK i \in DOMAIN b.leaves : /\ Open(b.leaves[i])
                                       /\ t \in {b.leaves[i].value, Encoded(b.kind, b.leaves[i].value)}
        BY <1>3 DEF OpenTexts, OpenValues
    <2>4. QED
        BY <2>2, <2>3 DEF Plain
<1>4. ASSUME reply # None, t \in OpenHeaders(reply.headers) PROVE t \in Printable(user)
    <2>1. PICK i \in DOMAIN reply.headers : t = reply.headers[i][2]
        BY <1>4 DEF OpenHeaders
    <2>2. reply.headers \in ReplyHeaders
        BY <1>4, <2>1 DEF Session, NoHeaders
    <2>3. t \in TextsOf(user)
        BY <2>1, <2>2, TextsOfHas
    <2>4. QED
        BY <1>1, <2>3, PrintableTexts
<1>5. (\E b \in Exchanged : t \in OpenTexts(b)) \/ (reply # None /\ t \in OpenHeaders(reply.headers))
    BY ExposedHas
<1>6. QED
    BY <1>2, <1>3, <1>4, <1>5

LEMMA SweptIsKnown ==
    ASSUME Distinctive, TypeOK, Session, pc # "start", NEW c, Swept(c)
    PROVE  c \in ToSet(secrets)
<1>1. user \in Users /\ level > 0 /\ Len(c) >= MinSecretLen /\ LoginLiterals(user) \subseteq ToSet(secrets)
    BY DEF TypeOK, Session, Swept
<1>2. CASE c \in {TokenSecrets(user.token)[2], user.password}
    <2>1. c \in ToSet(TokenSecrets(user.token)) \cup {user.password}
        BY <1>1, <1>2, UserIs, TokenSecretsIs
    <2>2. QED
        BY <1>1, <2>1 DEF LoginLiterals, Long
<1>3. CASE c \in {Ticket, CSRFToken} /\ LoggedIn /\ level >= LevelBody
    <2>1. headers = Cookies
        <3>1. PICK i \in DOMAIN headers : headers[i][2] = Ticket
            BY <1>3 DEF LoggedIn
        <3>2. user.token # Ticket
            BY <1>1 DEF Distinctive, TicketsAreNew
        <3>3. headers # Bearer
            BY <3>1, <3>2 DEF Bearer
        <3>4. headers # <<>>
            BY <3>1
        <3>5. QED
            BY <3>3, <3>4 DEF Session
    <2>2. QED
        BY <1>1, <1>3, <2>1 DEF Session, MintedKnown, Long
<1>4. QED
    BY <1>2, <1>3 DEF Swept

(***************************************************************************)
(* A credential of the session that the logger was told of is in no line   *)
(* at any level, whole or in part, as it is or as an encoder spells it,    *)
(* also where the server repeats it; any other shows only where it is sent *)
(* or repeated under no key that names it (Logger.Secret, RedactBody,      *)
(* RedactHeader), for every set of credentials, bodies, answers and        *)
(* encoders of which Distinctive is so.                                    *)
(***************************************************************************)
THEOREM CredentialsNeverLeak ==
    ASSUME Distinctive
    PROVE  Spec => []CredentialsStayOut
<1>1. IInv => CredentialsStayOut
    <2>1. SUFFICES ASSUME IInv, NEW line \in printed, NEW c \in Credentials, HasPart(line, c)
                   PROVE  ~Swept(c) /\ \E t \in Exposed : HasPart(t, c)
        BY DEF CredentialsStayOut
    <2>2. TypeOK /\ Session /\ pc # "start" /\ Good(line, secrets, Exposed) /\ user \in Users
        BY <2>1 DEF IInv, Quiet, Clean, TypeOK
    <2>3. PICK s \in Spellings(c) : ToSet(line) \cap ToSet(s) # {}
        BY <2>1 DEF HasPart
    <2>4. PICK w \in ToSet(line) : w \in ToSet(s)
        BY <2>3
    <2>5. w \notin Spoken
        BY <2>1, <2>2, <2>3, <2>4 DEF Distinctive, OwnWordsApart, Credentials
    <2>6. PICK t \in Exposed : w \in ToSet(t)
        BY <2>2, <2>4, <2>5 DEF Good, Sourced
    <2>7. HasPart(t, c)
        BY <2>3, <2>4, <2>6 DEF HasPart
    <2>8. ~Swept(c)
        <3>1. SUFFICES ASSUME Swept(c) PROVE FALSE
            OBVIOUS
        <3>2. c \in ToSet(secrets) /\ c \in Literals(user)
            BY <2>2, <3>1, SweptIsKnown DEF Session
        <3>3. PICK p \in Printable(user) : w \in ToSet(p)
            BY <2>2, <2>5, <2>6, ExposedIsPrintable
        <3>4. w \in ToSet(c)
            BY <2>2, <2>3, <2>4, <3>2, <3>3 DEF Distinctive, LiteralsPlain
        <3>5. QED
            BY <2>2, <2>4, <3>2, <3>4 DEF Good
    <2>9. QED
        BY <2>6, <2>7, <2>8
<1>2. QED
    BY <1>1, Invariance, PTL

\* What SubSeqs has of a text: where each part of it begins, and all of them.
LEMMA PartBegins ==
    ASSUME NEW t \in Text, NEW x \in SubSeqs(t), Len(x) >= 1
    PROVE  \E p \in 1..Len(t) : x[1] = t[p]
<1>1. Len(t) \in Nat /\ t \in Seq(Word) /\ DOMAIN t = 1..Len(t)
    BY LengthOfText DEF Text
<1>2. PICK a \in 0..Len(t), b \in 0..Len(t) : x = SubSeq(t, a + 1, b)
    BY DEF SubSeqs
<1>3. CASE a + 1 > b
    <2>1. SubSeq(t, a + 1, b) = <<>>
        BY <1>1, <1>3
    <2>2. Len(x) = 0
        BY <1>2, <2>1
    <2>3. QED
        BY <2>2
<1>4. CASE a + 1 <= b
    <2>1. SubSeq(t, a + 1, b)[1] = t[a + 1] /\ a + 1 \in 1..Len(t)
        BY <1>1, <1>4
    <2>2. QED
        BY <1>2, <2>1
<1>5. QED
    BY <1>1, <1>3, <1>4

LEMMA NothingIsPart == \A t \in Text : <<>> \in SubSeqs(t)
<1>1. ASSUME NEW t \in Text PROVE <<>> \in SubSeqs(t)
    <2> DEFINE z == 0
               part == SubSeq(t, z + 1, z)
    <2>1. Len(t) \in Nat /\ t \in Seq(Word)
        BY LengthOfText DEF Text
    <2>2. part = <<>> /\ part = SubSeq(t, z + 1, z) /\ z \in 0..Len(t)
        BY <2>1
    <2> HIDE DEF z, part
    <2>3. part \in SubSeqs(t)
        BY <2>2 DEF SubSeqs
    <2>4. QED
        BY <2>2, <2>3
<1>2. QED
    BY <1>1

LEMMA OccursIsPart ==
    ASSUME NEW t \in Text, NEW v \in Text, NEW p, Occurs(t, v, p)
    PROVE  v \in SubSeqs(t)
<1>1. /\ Len(t) \in Nat /\ t \in Seq(Word) /\ Len(v) \in Nat /\ v \in Seq(Word)
      /\ p \in 1..Len(t) /\ p + Len(v) - 1 <= Len(t) /\ \A k \in 1..Len(v) : t[p + k - 1] = v[k]
    BY LengthOfText DEF Text, Occurs
<1> DEFINE a == p - 1
           b == p + Len(v) - 1
           part == SubSeq(t, a + 1, b)
<1>2. a \in 0..Len(t) /\ b \in 0..Len(t) /\ a + 1 = p
    BY <1>1
<1>3. /\ part \in Seq(Word) /\ Len(part) = Len(v)
      /\ \A k \in 1..Len(v) : part[k] = t[p + k - 1]
    BY <1>1, <1>2
<1>4. part \in SubSeqs(t)
    <2>1. part = SubSeq(t, a + 1, b)
        OBVIOUS
    <2> HIDE DEF a, b, part
    <2>2. QED
        BY <1>2, <2>1 DEF SubSeqs
<1> HIDE DEF part
<1>5. part = v
    BY <1>1, <1>3
<1>6. QED
    BY <1>4, <1>5

(***************************************************************************)
(* No line has the beginning of a swept credential with the rest of it     *)
(* masked, whichever of them contain one another (Logger.Secret sorts).    *)
(***************************************************************************)
THEOREM CredentialsMaskedWhole ==
    ASSUME Distinctive
    PROVE  Spec => []NeverHalfMasked
<1>1. IInv => NeverHalfMasked
    <2>1. SUFFICES ASSUME IInv, NEW line \in printed, NEW i \in DOMAIN secrets,
                          NEW n \in 1..(Len(secrets[i]) - 1),
                          SubSeq(secrets[i], 1, n) \o Redacted \in SubSeqs(line)
                   PROVE  FALSE
        BY DEF NeverHalfMasked
    <2> DEFINE s == secrets[i]
               half == SubSeq(s, 1, n)
    <2>2. /\ s \in Text /\ s \in ToSet(secrets) /\ line \in Text
          /\ ToSet(line) \cap ToSet(s) = {}
        <3>1. secrets \in Seq(Text)
            BY <2>1 DEF IInv, TypeOK
        <3>2. secrets[i] \in Text /\ secrets[i] \in ToSet(secrets)
            BY <3>1 DEF ToSet
        <3>3. QED
            BY <2>1, <3>2 DEF IInv, Clean, Good
    <2> HIDE DEF s
    <2>3. Len(s) \in Nat /\ s \in Seq(Word) /\ DOMAIN s = 1..Len(s)
        BY <2>2, LengthOfText DEF Text
    <2>4. n \in 1..(Len(s) - 1)
        BY DEF s
    <2>5. half \in Seq(Word) /\ Len(half) = n /\ half[1] = s[1]
        BY <2>3, <2>4
    <2>6. half \in Text /\ Redacted \in Text /\ Len(Redacted) = 1
        BY <2>5, MaskIsText DEF Text, Redacted
    <2> HIDE DEF half
    <2>7. Len(half \o Redacted) >= 1 /\ (half \o Redacted)[1] = s[1]
        <3>1. Len(half \o Redacted) = Len(half) + Len(Redacted)
            BY <2>6, Joined, Zenon
        <3>2. 1 \in 1..Len(half)
            BY <2>4, <2>5
        <3>3. (half \o Redacted)[1] = half[1]
            BY <2>6, <3>2, Joined
        <3>4. QED
            BY <2>4, <2>5, <2>6, <3>1, <3>3
    <2>8. half \o Redacted \in SubSeqs(line)
        BY <2>1 DEF half, s
    <2>9. PICK p \in 1..Len(line) : (half \o Redacted)[1] = line[p]
        BY <2>2, <2>7, <2>8, PartBegins
    <2>10. s[1] \in ToSet(line) /\ s[1] \in ToSet(s)
        <3>1. 1 \in 1..Len(s) /\ DOMAIN line = 1..Len(line)
            BY <2>2, <2>3, <2>4, LengthOfText
        <3>2. QED
            BY <2>3, <2>7, <2>9, <3>1 DEF ToSet
    <2>11. QED
        BY <2>2, <2>10
<1>2. QED
    BY <1>1, Invariance, PTL

\* The beginning of a leaf is in the line if it is no part of a literal.
LEMMA BeginningStays ==
    ASSUME Distinctive, NEW known, Knows(known), level > 0,
           NEW b \in Sent \cup Received, NEW i \in DOMAIN b.leaves,
           NEW v \in Text, NEW w \in Text, Len(v) >= 1,
           Encoded(b.kind, MaskedLeaf(b.leaves[i]).path)
                \o Encoded(b.kind, MaskedLeaf(b.leaves[i]).value) = v \o w,
           v[1] \in Spoken \/ b.kind = "text",
           v[Len(v)] \in Spoken \/ w = <<>>,
           \A l \in Literals(user) : \A j \in 1..Len(v) : ~Occurs(v, l, j)
    PROVE  v \in SubSeqs(Scrub(known, Scrub(known, Rendered(RedactBody(b)))))
<1> DEFINE r == RedactBody(b)
           text == Rendered(r)
           once == Scrub(known, text)
           B == UNION {ToSet(l) : l \in Literals(user)}
<1>1. /\ b \in Body /\ Len(b.leaves) \in Nat /\ DOMAIN b.leaves = 1..Len(b.leaves)
      /\ \A k \in 1..Len(b.leaves) : b.leaves[k] \in Leaf /\ Plain(b.kind, b.leaves[k])
    BY BodyLeaves, BodyIs DEF Knows
<1>2. /\ r.leaves \in Seq(Leaf) /\ Len(r.leaves) = Len(b.leaves)
      /\ \A k \in 1..Len(b.leaves) :
            /\ r.leaves[k].path = Encoded(b.kind, MaskedLeaf(b.leaves[k]).path)
            /\ r.leaves[k].value = Encoded(b.kind, MaskedLeaf(b.leaves[k]).value)
    BY <1>1, RedactBodyIs, MaskedLeafIs, EncodedLeafIs
<1> HIDE DEF r
<1>3. /\ Parts(r) \in Seq(Text) /\ Len(Parts(r)) = Len(b.leaves) /\ text = FlattenSeq(Parts(r))
      /\ \A k \in 1..Len(b.leaves) : Parts(r)[k] = r.leaves[k].path \o r.leaves[k].value
    BY <1>2, PartsTyped
<1>4. user \in Users /\ Sweepable(known) /\ B \cap Spoken = {}
    BY KnownIsSweepable, LiteralsHaveNoOwnWords DEF Knows
<1>5. i \in 1..Len(Parts(r)) /\ Parts(r)[i] = v \o w
    BY <1>1, <1>2, <1>3
<1>6. b.kind = "text" => Len(Parts(r)) = 1
    BY <1>1, <1>3, BodyIs
<1>7. ASSUME b.kind # "text", NEW k \in 1..Len(b.leaves)
      PROVE  Len(Parts(r)[k]) >= 1 /\ Parts(r)[k][1] \notin B
    <2> DEFINE path == r.leaves[k].path
               value == r.leaves[k].value
               masked == MaskedLeaf(b.leaves[k])
    <2>1. /\ b.leaves[k] \in Leaf /\ b.leaves[k].path # <<>>
          /\ ToSet(Encoded(b.kind, b.leaves[k].path)) \subseteq Spoken
        BY <1>1, <1>7, BodyIs DEF Plain
    <2>2. masked.path \in Text /\ masked.value \in Text /\ masked.path # <<>>
        BY <2>1, MaskedLeafIs DEF Leaf
    <2>3. /\ path \in Text /\ value \in Text /\ Len(path) = Len(masked.path)
          /\ ToSet(path) \subseteq Spoken
        <3>1. path = Encoded(b.kind, masked.path) /\ value = Encoded(b.kind, masked.value)
            BY <1>2
        <3>2. ToSet(Encoded(b.kind, masked.path)) \subseteq Spoken
            BY <2>1, MaskedPath
        <3> HIDE DEF path, value, masked
        <3>3. QED
            BY <2>2, <3>1, <3>2, EncodedIs
    <2>4. Parts(r)[k] = path \o value
        BY <1>3
    <2> HIDE DEF path, value, masked
    <2>5. Len(path) \in Nat /\ path \in Seq(Word) /\ DOMAIN path = 1..Len(path) /\ Len(value) \in Nat
        BY <2>3, LengthOfText DEF Text
    <2>6. Len(path) >= 1
        <3>1. masked.path \in Seq(Word)
            BY <2>2 DEF Text
        <3>2. Len(masked.path) >= 1
            BY <2>2, <3>1
        <3>3. QED
            BY <2>3, <3>2
    <2>7. Len(path \o value) = Len(path) + Len(value) /\ (path \o value)[1] = path[1]
        <3>1. 1 \in 1..Len(path)
            BY <2>5, <2>6
        <3>2. QED
            BY <2>3, <3>1, Joined, Zenon
    <2>8. path[1] \in ToSet(path)
        BY <2>5, <2>6 DEF ToSet
    <2>9. QED
        BY <1>4, <2>3, <2>4, <2>5, <2>6, <2>7, <2>8
<1> HIDE DEF B, text
<1>8. Stands(text, v, B)
    <2>1. i = 1 \/ v[1] \notin B
        BY <1>1, <1>4, <1>5, <1>6
    <2>2. b.kind = "text" => ~(i < Len(Parts(r)))
        <3>1. SUFFICES ASSUME Len(Parts(r)) = 1 PROVE ~(i < 1)
            BY <1>6
        <3>2. QED
            BY <1>5, <3>1
    <2>3. ASSUME i < Len(Parts(r))
          PROVE  Len(Parts(r)[i + 1]) >= 1 /\ Parts(r)[i + 1][1] \notin B
        <3>1. i + 1 \in 1..Len(b.leaves)
            BY <1>1, <1>3, <1>5, <2>3
        <3>2. QED
            BY <1>7, <2>2, <2>3, <3>1
    <2>4. \/ v[Len(v)] \notin B
          \/ w = <<>> /\ (i < Len(Parts(r)) => Len(Parts(r)[i + 1]) >= 1 /\ Parts(r)[i + 1][1] \notin B)
        BY <1>4, <2>3
    <2>5. QED
        BY <1>3, <1>5, <2>1, <2>4, FlattenStands
<1>9. \A k \in 1..Len(known) : known[k] \in Literals(user) /\ \A m \in 1..Len(known[k]) : known[k][m] \in B
    <2>1. ASSUME NEW k \in 1..Len(known)
          PROVE  known[k] \in Literals(user) /\ known[k] \in Text
        <3>1. DOMAIN known = 1..Len(known) /\ known[k] \in Text
            BY DEF Knows, Filed
        <3>2. QED
            BY <3>1 DEF Knows, ToSet
    <2>2. ASSUME NEW k \in 1..Len(known), NEW m \in 1..Len(known[k]) PROVE known[k][m] \in ToSet(known[k])
        BY <2>1, LengthOfText DEF ToSet
    <2>3. QED
        BY <2>1, <2>2 DEF B
<1>10. text \in Text
    BY <1>1, RedactedText DEF text, r
<1>11. \A k \in 1..Len(known) : \A j \in 1..Len(v) : ~Occurs(v, known[k], j)
    BY <1>9
<1>12. once \in Text
    BY <1>4, <1>10, ScrubAddsNoWord
<1>13. Stands(once, v, B)
    BY <1>4, <1>8, <1>9, <1>10, <1>11, ScrubSpares
<1> HIDE DEF once
<1>14. Scrub(known, once) \in Text /\ Stands(Scrub(known, once), v, B)
    BY <1>4, <1>9, <1>11, <1>12, <1>13, ScrubAddsNoWord, ScrubSpares
<1>15. v \in SubSeqs(Scrub(known, once))
    BY <1>14, OccursIsPart DEF Stands
<1>16. QED
    BY <1>15 DEF once, text, r

LEMMA OrdinaryHasNoLiteral ==
    ASSUME Distinctive, user \in Users, NEW path \in Text, NEW value \in Text,
           ToSet(path) \subseteq Spoken, OrdinaryText(value),
           NEW l \in Literals(user), NEW j \in 1..Len(path \o value)
    PROVE  ~Occurs(path \o value, l, j)
<1> DEFINE all == path \o value
<1>1. SUFFICES ASSUME Occurs(all, l, j) PROVE FALSE
    OBVIOUS
<1>2. /\ l \in Credentials \cup {user.token} /\ l \in Text /\ Len(l) >= MinSecretLen
      /\ ToSet(l) \cap Spoken = {}
    <2>1. l \in Text
        BY LiteralsAreTexts
    <2>2. Len(l) >= MinSecretLen
        BY DEF Literals, LoginLiterals, Long
    <2>3. QED
        BY <2>1, <2>2, LiteralsAreCredentials, LiteralsHaveNoOwnWords DEF Credentials
<1>3. l \notin SubSeqs(value)
    BY <1>2 DEF OrdinaryText
<1>4. /\ Len(path) \in Nat /\ Len(value) \in Nat /\ Len(all) = Len(path) + Len(value)
      /\ DOMAIN path = 1..Len(path) /\ DOMAIN l = 1..Len(l)
    BY <1>2, LengthOfText, Joined
<1>5. /\ \A k \in 1..Len(path) : all[k] = path[k]
      /\ \A k \in 1..Len(value) : all[Len(path) + k] = value[k]
    BY Joined
<1> HIDE DEF all
<1>6. Len(l) \in Nat /\ Len(l) >= 1
    BY <1>2, LengthOfText, LimitsAssumption
<1>7. j \in 1..Len(all) /\ j + Len(l) - 1 <= Len(all) /\ \A k \in 1..Len(l) : all[j + k - 1] = l[k]
    BY <1>1 DEF Occurs
<1>8. j > Len(path)
    <2>1. SUFFICES ASSUME j \in 1..Len(path) PROVE FALSE
        BY <1>4, <1>7
    <2>2. 1 \in 1..Len(l) /\ j + 1 - 1 = j
        BY <1>6, <1>7, <1>4
    <2>3. all[j] = l[1] /\ all[j] = path[j]
        BY <1>5, <1>7, <2>1, <2>2
    <2>4. l[1] \in ToSet(l) /\ path[j] \in ToSet(path)
        BY <1>4, <2>1, <2>2 DEF ToSet
    <2>5. QED
        BY <1>2, <2>3, <2>4
<1> DEFINE q == j - Len(path)
<1>9. q \in 1..Len(value) /\ q + Len(l) - 1 <= Len(value)
    BY <1>4, <1>6, <1>7, <1>8
<1>10. ASSUME NEW k \in 1..Len(l) PROVE value[q + k - 1] = l[k]
    <2>1. q + k - 1 \in 1..Len(value) /\ Len(path) + (q + k - 1) = j + k - 1
        BY <1>4, <1>6, <1>9
    <2>2. all[Len(path) + (q + k - 1)] = value[q + k - 1]
        BY <1>5, <2>1
    <2>3. QED
        BY <1>7, <2>1, <2>2
<1> HIDE DEF q
<1>11. Occurs(value, l, q)
    BY <1>9, <1>10 DEF Occurs
<1>12. QED
    BY <1>2, <1>3, <1>11, OccursIsPart

(***************************************************************************)
(* At the highest level every key sent and received is shown, and whole    *)
(* every value that no key calls sensitive and that has no credential to   *)
(* sweep: masking by key and sweeping take nothing else away (redact.go,   *)
(* Logger.Scrub, Preview).                                                 *)
(***************************************************************************)
THEOREM WhatWasSentStaysVisible ==
    ASSUME Distinctive
    PROVE  Spec => []NothingElseIsHidden
<1>1. IInv => NothingElseIsHidden
    <2>1. SUFFICES ASSUME IInv, pc = "done", level = LevelFullBody, reply.body # None,
                          NEW b \in Exchanged, NEW i \in DOMAIN b.leaves
                   PROVE  /\ Visible(Encoded(b.kind, MaskedLeaf(b.leaves[i]).path))
                          /\ Open(b.leaves[i]) /\ OrdinaryText(Encoded(b.kind, b.leaves[i].value)) =>
                                Visible(Encoded(b.kind, b.leaves[i].path \o b.leaves[i].value))
        BY DEF NothingElseIsHidden
    <2> DEFINE leaf == b.leaves[i]
               masked == MaskedLeaf(leaf)
               path == Encoded(b.kind, masked.path)
               value == Encoded(b.kind, masked.value)
               line == Scrub(secrets, Scrub(secrets, Rendered(RedactBody(b))))
    <2>2. TypeOK /\ Session /\ Shown /\ user \in Users /\ level > 0 /\ Knows(secrets)
        BY <2>1, KnowsNow DEF IInv, TypeOK, LevelFullBody
    <2>3. b \in {call.body, reply.body} /\ b \in Sent \cup Received
        BY <2>1, <2>2, CallAndReply DEF Exchanged
    <2>4. b # Empty
        BY <2>1 DEF Empty
    <2>5. line \in printed
        BY <2>1, <2>2, <2>3, <2>4 DEF Shown
    <2>6. b \in Body /\ i \in 1..Len(b.leaves) /\ leaf \in Leaf /\ Plain(b.kind, leaf)
          /\ (b.kind # "text" => leaf.path # <<>>)
        BY <2>1, <2>2, <2>3, BodyLeaves, BodyIs
    <2>7. /\ masked.path \in Text /\ masked.value \in Text
          /\ path \in Text /\ value \in Text /\ Len(path) = Len(masked.path)
          /\ ToSet(path) \subseteq Spoken
          /\ Open(leaf) => masked = leaf
          /\ b.kind # "text" => masked.path # <<>>
        <3>1. /\ masked.path \in Text /\ masked.value \in Text
              /\ Open(leaf) => masked = leaf
              /\ b.kind # "text" => masked.path # <<>>
            BY <2>6, MaskedLeafIs DEF Leaf
        <3>2. ToSet(path) \subseteq Spoken
            BY <2>6, MaskedPath DEF Plain
        <3> HIDE DEF masked, leaf
        <3>3. QED
            BY <3>1, <3>2, EncodedIs
    <2>8. line \in Text
        <3>1. Sweepable(secrets) /\ Rendered(RedactBody(b)) \in Text
            BY <2>2, <2>6, KnownIsSweepable, RedactedText
        <3>2. QED
            BY <3>1, ScrubAddsNoWord
    <2>9. ASSUME NEW v \in Text, NEW w \in Text,
                 path \o value = v \o w,
                 Len(v) >= 1 => v[1] \in Spoken \/ b.kind = "text",
                 Len(v) >= 1 => v[Len(v)] \in Spoken \/ w = <<>>,
                 \A l \in Literals(user) : \A j \in 1..Len(v) : ~Occurs(v, l, j)
          PROVE  Visible(v)
        <3>1. CASE Len(v) >= 1
            <4>1. v \in SubSeqs(line)
                BY <2>1, <2>2, <2>3, <2>9, <3>1, BeginningStays
            <4> HIDE DEF line
            <4>2. QED
                BY <2>5, <4>1 DEF Visible
        <3>2. CASE ~(Len(v) >= 1)
            <4> HIDE DEF line
            <4>1. Len(v) \in Nat /\ v \in Seq(Word)
                BY <2>9, LengthOfText DEF Text
            <4>2. v = <<>>
                BY <3>2, <4>1
            <4>3. <<>> \in SubSeqs(line)
                BY <2>8, NothingIsPart
            <4>4. QED
                BY <2>5, <4>2, <4>3 DEF Visible
        <3>3. QED
            BY <3>1, <3>2
    <2> HIDE DEF line, leaf, masked, path, value
    <2>10. Visible(path)
        <3>1. Len(path) \in Nat /\ DOMAIN path = 1..Len(path)
            BY <2>7, LengthOfText
        <3>2. \A j \in 1..Len(path) : path[j] \in Spoken
            BY <2>7, <3>1 DEF ToSet
        <3>3. Len(path) >= 1 => path[1] \in Spoken /\ path[Len(path)] \in Spoken
            BY <3>1, <3>2
        <3>4. ASSUME NEW l \in Literals(user), NEW j \in 1..Len(path), Occurs(path, l, j) PROVE FALSE
            <4>1. l \in Text /\ Len(l) >= MinSecretLen /\ ToSet(l) \cap Spoken = {}
                BY <2>2, LiteralsAreTexts, LiteralsHaveNoOwnWords DEF Literals, LoginLiterals, Long
            <4>2. Len(l) \in Nat /\ Len(l) >= 1 /\ DOMAIN l = 1..Len(l)
                BY <4>1, LengthOfText, LimitsAssumption
            <4>3. path[j + 1 - 1] = l[1] /\ l[1] \in ToSet(l) /\ j + 1 - 1 = j
                BY <3>1, <3>4, <4>2 DEF Occurs, ToSet
            <4>4. QED
                BY <3>2, <3>4, <4>1, <4>3
        <3>5. QED
            BY <2>7, <2>9, <3>3, <3>4
    <2>11. ASSUME Open(leaf), OrdinaryText(Encoded(b.kind, leaf.value))
           PROVE  Visible(Encoded(b.kind, leaf.path \o leaf.value))
        <3> DEFINE v == path \o value
        <3>1. OrdinaryText(value) /\ Encoded(b.kind, leaf.path \o leaf.value) = v
            BY <2>7, <2>11, EncodedJoined DEF path, value
        <3>2. v \in Text /\ v \o <<>> = v /\ <<>> \in Text
            BY <2>7, Joined DEF Text
        <3>3. \A l \in Literals(user) : \A j \in 1..Len(v) : ~Occurs(v, l, j)
            BY <2>2, <2>7, <3>1, OrdinaryHasNoLiteral
        <3>4. b.kind # "text" => v[1] \in Spoken
            <4>1. SUFFICES ASSUME b.kind # "text" PROVE v[1] \in Spoken
                OBVIOUS
            <4>2. Len(path) \in Nat /\ Len(path) >= 1 /\ DOMAIN path = 1..Len(path)
                <5>1. masked.path # <<>> /\ masked.path \in Seq(Word)
                    BY <2>7, <4>1 DEF Text
                <5>2. Len(masked.path) >= 1
                    BY <5>1
                <5>3. QED
                    BY <2>7, <5>2, LengthOfText
            <4>3. 1 \in 1..Len(path)
                BY <4>2
            <4>4. v[1] = path[1]
                BY <2>7, <4>3, Joined, Zenon
            <4>5. path[1] \in ToSet(path)
                BY <4>2, <4>3 DEF ToSet
            <4>6. QED
                BY <2>7, <4>4, <4>5
        <3> HIDE DEF v
        <3>5. path \o value = v \o <<>>
            BY <3>2 DEF v
        <3>6. Visible(v)
            BY <2>9, <3>2, <3>3, <3>4, <3>5
        <3>7. QED
            BY <3>1, <3>6
    <2>12. QED
        BY <2>10, <2>11 DEF leaf, masked, path
<1>2. QED
    BY <1>1, Invariance, PTL
=============================================================================
