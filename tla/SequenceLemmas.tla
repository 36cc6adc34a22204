--------------------------- MODULE SequenceLemmas ---------------------------
(* What the sequence operators of the models do to the elements of a         *)
(* sequence, and what a loop keeps: lemmas the proofs of several components  *)
(* rest on.                                                                  *)
EXTENDS Integers, Sequences, SequencesExt, FiniteSets, SequenceTheorems,
        WellFoundedInduction, TLAPS

-----------------------------------------------------------------------------
(* Sequences without repetition, and the sets of their elements. *)

LEMMA AppendSet ==
  ASSUME NEW S, NEW s \in Seq(S), NEW x \in S, x \notin ToSet(s), IsInjective(s)
  PROVE  /\ Append(s, x) \in Seq(S)
         /\ ToSet(Append(s, x)) = ToSet(s) \cup {x}
         /\ IsInjective(Append(s, x))
<1> DEFINE r == Append(s, x)
<1>1. /\ r \in Seq(S) /\ Len(r) = Len(s) + 1
      /\ \A i \in 1..Len(s) : r[i] = s[i]
      /\ r[Len(s) + 1] = x
  BY AppendProperties
<1>2. DOMAIN r = 1..(Len(s) + 1) /\ DOMAIN s = 1..Len(s) /\ Len(s) \in Nat
  BY <1>1, LenProperties
<1> HIDE DEF r
<1>3. \A i \in 1..(Len(s) + 1) : i \in 1..Len(s) \/ i = Len(s) + 1
  BY <1>2
<1>4. \A i \in 1..Len(s) : i \in 1..(Len(s) + 1) /\ i # Len(s) + 1
  BY <1>2
<1>5. ToSet(r) = ToSet(s) \cup {x}
  BY <1>1, <1>2, <1>3, <1>4 DEF ToSet
<1>6. \A i \in 1..Len(s) : s[i] # x
  BY <1>2 DEF ToSet
<1>7. IsInjective(r)
  BY <1>1, <1>2, <1>3, <1>6 DEF IsInjective
<1> QED BY <1>1, <1>5, <1>7 DEF r

LEMMA TailSet ==
  ASSUME NEW S, NEW s \in Seq(S), s # <<>>, IsInjective(s)
  PROVE  /\ Tail(s) \in Seq(S)
         /\ Head(s) \in S /\ Head(s) \in ToSet(s)
         /\ ToSet(Tail(s)) = ToSet(s) \ {Head(s)}
         /\ IsInjective(Tail(s))
<1> DEFINE r == Tail(s)
           n == Len(s)
<1>1. /\ Head(s) \in S /\ r \in Seq(S) /\ Len(r) = n - 1
      /\ \A i \in 1..Len(r) : r[i] = s[i + 1]
  BY HeadTailProperties
<1>2. DOMAIN r = 1..(n - 1) /\ DOMAIN s = 1..n /\ n \in Nat /\ n > 0
  BY <1>1, LenProperties, EmptySeq
<1>3. Head(s) = s[1]
  OBVIOUS
<1> HIDE DEF r, n
<1>4. \A i \in 1..(n - 1) : r[i] = s[i + 1] /\ i + 1 \in 1..n /\ i + 1 # 1
  BY <1>1, <1>2
<1>5. \A j \in 1..n : j = 1 \/ (j - 1 \in 1..(n - 1) /\ r[j - 1] = s[j])
  BY <1>1, <1>2
<1>6. Head(s) \in ToSet(s)
  BY <1>2, <1>3 DEF ToSet
<1>7. ToSet(r) \subseteq ToSet(s) \ {Head(s)}
  BY SMTT(30), <1>2, <1>3, <1>4 DEF ToSet, IsInjective
<1>8. ToSet(s) \ {Head(s)} \subseteq ToSet(r)
  BY <1>2, <1>3, <1>5 DEF ToSet
<1>9. IsInjective(r)
  <2> SUFFICES ASSUME NEW a \in 1..(n - 1), NEW b \in 1..(n - 1), r[a] = r[b]
               PROVE  a = b
    BY <1>2 DEF IsInjective
  <2>1. s[a + 1] = s[b + 1] /\ a + 1 \in 1..n /\ b + 1 \in 1..n
    BY <1>4
  <2>2. a + 1 = b + 1
    BY <1>2, <2>1 DEF IsInjective
  <2> QED BY <2>2, <1>2
<1> QED BY <1>1, <1>6, <1>7, <1>8, <1>9 DEF r

LEMMA ConsSet ==
  ASSUME NEW S, NEW s \in Seq(S), NEW x \in S, x \notin ToSet(s), IsInjective(s)
  PROVE  /\ <<x>> \o s \in Seq(S)
         /\ ToSet(<<x>> \o s) = ToSet(s) \cup {x}
         /\ IsInjective(<<x>> \o s)
<1> DEFINE r == <<x>> \o s
           n == Len(s)
<1>1. <<x>> \in Seq(S) /\ Len(<<x>>) = 1 /\ <<x>>[1] = x
  OBVIOUS
<1>2. /\ r \in Seq(S) /\ Len(r) = 1 + n
      /\ \A i \in 1..(1 + n) : r[i] = IF i <= 1 THEN <<x>>[i] ELSE s[i - 1]
  BY <1>1, ConcatProperties
<1>3. DOMAIN r = 1..(1 + n) /\ DOMAIN s = 1..n /\ n \in Nat
  BY <1>2, LenProperties
<1> HIDE DEF r, n
<1>4. r[1] = x /\ 1 \in 1..(1 + n)
  BY <1>1, <1>2, <1>3
<1>5. \A i \in 1..(1 + n) : i = 1 \/ (i - 1 \in 1..n /\ r[i] = s[i - 1])
  BY <1>2, <1>3
<1>6. \A j \in 1..n : j + 1 \in 1..(1 + n) /\ r[j + 1] = s[j]
  BY <1>2, <1>3
<1>7. \A i \in 1..n : s[i] # x
  BY <1>3 DEF ToSet
<1>8. ToSet(r) \subseteq ToSet(s) \cup {x}
  BY <1>3, <1>4, <1>5 DEF ToSet
<1>9. ToSet(s) \cup {x} \subseteq ToSet(r)
  <2>1. ASSUME NEW j \in 1..n PROVE s[j] \in ToSet(r)
    BY <1>3, <1>6 DEF ToSet
  <2>2. x \in ToSet(r)
    BY <1>3, <1>4 DEF ToSet
  <2> QED BY <1>3, <2>1, <2>2 DEF ToSet
<1>10. IsInjective(r)
  <2> SUFFICES ASSUME NEW a \in 1..(1 + n), NEW b \in 1..(1 + n), r[a] = r[b]
               PROVE  a = b
    BY <1>3 DEF IsInjective
  <2>1. CASE a = 1
    BY <2>1, <1>4, <1>5, <1>7
  <2>2. CASE b = 1
    BY <2>2, <1>4, <1>5, <1>7
  <2>3. CASE a # 1 /\ b # 1
    <3>1. a - 1 \in 1..n /\ b - 1 \in 1..n /\ s[a - 1] = s[b - 1]
      BY <2>3, <1>5
    <3>2. a - 1 = b - 1
      BY <3>1, <1>3 DEF IsInjective
    <3> QED BY <3>2
  <2> QED BY <2>1, <2>2, <2>3
<1> QED BY <1>2, <1>8, <1>9, <1>10 DEF r

(* A repetition-free sequence cut after its n-th element. *)
LEMMA SplitSet ==
  ASSUME NEW S, NEW s \in Seq(S), IsInjective(s), NEW n \in 0..Len(s)
  PROVE  /\ SubSeq(s, n + 1, Len(s)) \in Seq(S)
         /\ IsInjective(SubSeq(s, n + 1, Len(s)))
         /\ ToSet(SubSeq(s, 1, n)) \subseteq S
         /\ ToSet(SubSeq(s, 1, n)) \cap ToSet(SubSeq(s, n + 1, Len(s))) = {}
         /\ ToSet(SubSeq(s, 1, n)) \cup ToSet(SubSeq(s, n + 1, Len(s))) = ToSet(s)
<1> DEFINE a == SubSeq(s, 1, n)
           b == SubSeq(s, n + 1, Len(s))
           m == Len(s)
<1>1. m \in Nat /\ n \in Nat /\ n <= m /\ DOMAIN s = 1..m
  BY LenProperties
<1>2. /\ \A i \in 1..n : s[i] \in S
      /\ \A i \in (n + 1)..m : s[i] \in S
  BY <1>1, ElementOfSeq
<1>3. /\ a \in Seq(S) /\ Len(a) = n
      /\ \A i \in 1..n : a[i] = s[i]
  BY <1>1, <1>2, SubSeqProperties
<1>4. /\ b \in Seq(S) /\ Len(b) = m - n
      /\ \A i \in 1..(m - n) : b[i] = s[n + i]
  <2>1. /\ b \in Seq(S)
        /\ Len(b) = IF n + 1 <= m THEN m - (n + 1) + 1 ELSE 0
        /\ \A i \in 1..(m - (n + 1) + 1) : b[i] = s[n + 1 + i - 1]
    <3>1. /\ n + 1 \in 1..m + 1 /\ m \in 0..m
          /\ \A i \in (n + 1)..m : s[i] \in S
      BY <1>1, <1>2
    <3>2. /\ b \in Seq(S) /\ Len(b) = IF n + 1 <= m THEN m - (n + 1) + 1 ELSE 0
      BY <1>1, <3>1, SubSeqProperties
    <3>3. \A i \in 1..(m - (n + 1) + 1) : b[i] = s[n + 1 + i - 1]
      BY <1>1, <3>1, SubSeqProperties
    <3> QED BY <3>2, <3>3
  <2> HIDE DEF a, b, m
  <2>2. Len(b) = m - n
    <3>1. /\ n + 1 <= m => m - (n + 1) + 1 = m - n
          /\ ~(n + 1 <= m) => m - n = 0
      BY <1>1
    <3> QED BY <2>1, <3>1
  <2>3. ASSUME NEW i \in 1..(m - n) PROVE b[i] = s[n + i]
    <3>1. i \in 1..(m - (n + 1) + 1) /\ n + 1 + i - 1 = n + i
      BY <1>1
    <3> QED BY <2>1, <3>1
  <2> QED BY <2>1, <2>2, <2>3
<1>5. DOMAIN a = 1..n /\ DOMAIN b = 1..(m - n)
  BY <1>3, <1>4, LenProperties
<1> HIDE DEF a, b, m
<1>6. \A i \in 1..(m - n) : n + i \in 1..m /\ ~(n + i \in 1..n)
  BY <1>1
<1>7. \A i \in 1..n : i \in 1..m
  BY <1>1
<1>8. \A k \in 1..m : k \in 1..n \/ (k - n \in 1..(m - n) /\ n + (k - n) = k)
  BY <1>1
<1>9. ToSet(a) \subseteq S
  BY <1>2, <1>3, <1>5 DEF ToSet
<1>10. ToSet(a) \cap ToSet(b) = {}
  <2>1. ASSUME NEW i \in 1..n, NEW j \in 1..(m - n) PROVE a[i] # b[j]
    <3>1. a[i] = s[i] /\ b[j] = s[n + j] /\ i \in 1..m /\ n + j \in 1..m /\ i # n + j
      BY <1>1, <1>3, <1>4, <1>6, <1>7
    <3> QED BY <3>1, <1>1 DEF IsInjective
  <2> QED BY <2>1, <1>5 DEF ToSet
<1>11. ToSet(a) \cup ToSet(b) \subseteq ToSet(s)
  BY <1>1, <1>3, <1>4, <1>5, <1>6, <1>7 DEF ToSet
<1>12. ASSUME NEW k \in 1..m PROVE s[k] \in ToSet(a) \cup ToSet(b)
  <2>1. CASE k \in 1..n
    BY <2>1, <1>3, <1>5 DEF ToSet
  <2>2. CASE k - n \in 1..(m - n) /\ n + (k - n) = k
    <3>1. b[k - n] = s[k]
      BY <2>2, <1>4
    <3> QED BY <2>2, <3>1, <1>5 DEF ToSet
  <2> QED BY <1>8, <2>1, <2>2
<1>13. IsInjective(b)
  <2> SUFFICES ASSUME NEW i \in 1..(m - n), NEW j \in 1..(m - n), b[i] = b[j]
               PROVE  i = j
    BY <1>5 DEF IsInjective
  <2>1. n + i = n + j
    BY <1>1, <1>4, <1>6 DEF IsInjective
  <2> QED BY <2>1, <1>1
<1>14. ToSet(s) \subseteq ToSet(a) \cup ToSet(b)
  BY <1>1, <1>12 DEF ToSet
<1> QED BY <1>4, <1>9, <1>10, <1>11, <1>14, <1>13 DEF a, b, m

LEMMA FrontSet ==
  ASSUME NEW S, NEW s \in Seq(S), s # <<>>, IsInjective(s)
  PROVE  /\ Front(s) \in Seq(S)
         /\ Last(s) \in S /\ Last(s) \in ToSet(s)
         /\ ToSet(Front(s)) = ToSet(s) \ {Last(s)}
         /\ IsInjective(Front(s))
<1> DEFINE a == SubSeq(s, 1, Len(s) - 1)
           n == Len(s)
<1>1. n \in Nat /\ n > 0 /\ DOMAIN s = 1..n
  BY LenProperties, EmptySeq
<1>2. \A i \in 1..n : s[i] \in S
  BY <1>1, ElementOfSeq
<1>3. /\ a \in Seq(S) /\ Len(a) = n - 1
      /\ \A i \in 1..(n - 1) : a[i] = s[i]
  BY <1>1, <1>2, SubSeqProperties
<1>4. DOMAIN a = 1..(n - 1)
  BY <1>3, LenProperties
<1>5. Front(s) = a /\ Last(s) = s[n]
  BY DEF Front, Last
<1> HIDE DEF a, n
<1>6. \A i \in 1..(n - 1) : i \in 1..n /\ i # n
  BY <1>1
<1>7. \A i \in 1..n : i \in 1..(n - 1) \/ i = n
  BY <1>1
<1>8. n \in 1..n
  BY <1>1
<1>9. ToSet(a) = ToSet(s) \ {s[n]}
  BY <1>1, <1>3, <1>4, <1>6, <1>7, <1>8 DEF ToSet, IsInjective
<1>10. IsInjective(a)
  BY <1>1, <1>3, <1>4, <1>6 DEF IsInjective
<1> QED BY ZenonT(40), <1>1, <1>2, <1>3, <1>5, <1>8, <1>9, <1>10 DEF ToSet

-----------------------------------------------------------------------------
(* Removing an element from the middle of a sequence. *)

(* Removing one element of a sequence leaves a sequence one shorter. *)
LEMMA RemoveAtType ==
  ASSUME NEW S, NEW s \in Seq(S), NEW i \in 1..Len(s)
  PROVE  /\ RemoveAt(s, i) \in Seq(S)
         /\ Len(RemoveAt(s, i)) = Len(s) - 1
<1> DEFINE a == SubSeq(s, 1, i - 1)
           b == SubSeq(s, i + 1, Len(s))
<1>1. a \in Seq(S) /\ Len(a) = i - 1
  <2>1. \A k \in 1..(i - 1) : s[k] \in S
    OBVIOUS
  <2> QED BY <2>1, SubSeqProperties
<1>2. b \in Seq(S) /\ Len(b) = Len(s) - i
  <2>1. \A k \in (i + 1)..Len(s) : s[k] \in S
    OBVIOUS
  <2> QED BY <2>1, SubSeqProperties
<1>3. a \o b \in Seq(S) /\ Len(a \o b) = Len(a) + Len(b)
  BY <1>1, <1>2, ConcatProperties
<1>4. RemoveAt(s, i) = a \o b
  BY DEF RemoveAt
<1>5. Len(s) \in Nat /\ i \in Int
  OBVIOUS
<1> HIDE DEF a, b
<1>6. Len(a \o b) = Len(s) - 1
  BY <1>1, <1>2, <1>3, <1>5
<1> QED BY <1>3, <1>4, <1>6

(* What RemoveAt keeps, place by place. *)
LEMMA RemoveAtPlaces ==
  ASSUME NEW S, NEW s \in Seq(S), NEW i \in 1..Len(s)
  PROVE  /\ \A k \in 1..(i - 1) : RemoveAt(s, i)[k] = s[k]
         /\ \A k \in i..(Len(s) - 1) : RemoveAt(s, i)[k] = s[k + 1]
<1> DEFINE a == SubSeq(s, 1, i - 1)
           b == SubSeq(s, i + 1, Len(s))
<1>0. Len(s) \in Nat /\ i \in Int
  OBVIOUS
<1>1. /\ a \in Seq(S) /\ Len(a) = i - 1
      /\ \A k \in 1..(i - 1) : a[k] = s[k]
  <2>1. \A k \in 1..(i - 1) : s[k] \in S
    OBVIOUS
  <2> QED BY <2>1, SubSeqProperties
<1>2. /\ b \in Seq(S) /\ Len(b) = Len(s) - i
      /\ \A k \in 1..(Len(s) - i) : b[k] = s[i + k]
  <2>1. \A k \in (i + 1)..Len(s) : s[k] \in S
    OBVIOUS
  <2>2. b \in Seq(S) /\ Len(b) = Len(s) - i
    BY <2>1, SubSeqProperties
  <2>3. \A k \in 1..(Len(s) - i) : b[k] = s[i + k]
    BY <1>0, <2>1, SubSeqProperties
  <2> QED BY <2>2, <2>3
<1>3. RemoveAt(s, i) = a \o b
  BY DEF RemoveAt
<1> HIDE DEF a, b
<1>4. \A k \in 1..(Len(a) + Len(b)) :
        (a \o b)[k] = IF k <= Len(a) THEN a[k] ELSE b[k - Len(a)]
  BY <1>1, <1>2, ConcatProperties
<1>5. \A k \in 1..(i - 1) : (a \o b)[k] = s[k]
  BY <1>0, <1>1, <1>2, <1>4
<1>6. \A k \in i..(Len(s) - 1) : (a \o b)[k] = s[k + 1]
  <2> SUFFICES ASSUME NEW k \in i..(Len(s) - 1) PROVE (a \o b)[k] = s[k + 1]
    OBVIOUS
  <2>1. (a \o b)[k] = b[k - (i - 1)]
    BY <1>0, <1>1, <1>2, <1>4
  <2>2. k - (i - 1) \in 1..(Len(s) - i)
    BY <1>0
  <2>3. b[k - (i - 1)] = s[i + (k - (i - 1))]
    BY <1>2, <2>2
  <2>4. i + (k - (i - 1)) = k + 1
    BY <1>0
  <2> QED BY <2>1, <2>3, <2>4
<1> QED BY <1>3, <1>5, <1>6

(* What Append adds to the elements of a sequence and RemoveAt takes away. *)
LEMMA AppendElements ==
  ASSUME NEW S, NEW s \in Seq(S), NEW x \in S
  PROVE  \A c : c \in ToSet(Append(s, x)) <=> c \in ToSet(s) \/ c = x
<1>1. /\ Len(Append(s, x)) = Len(s) + 1 /\ Append(s, x)[Len(s) + 1] = x
      /\ \A k \in 1..Len(s) : Append(s, x)[k] = s[k]
      /\ Len(s) \in Nat
  BY AppendProperties
<1>2. \A c : c \in ToSet(s) <=> \E k \in 1..Len(s) : s[k] = c
  BY DEF ToSet
<1>3. \A c : c \in ToSet(Append(s, x))
             <=> \E k \in 1..(Len(s) + 1) : Append(s, x)[k] = c
  BY <1>1 DEF ToSet
<1> DEFINE t == Append(s, x)
<1>4. /\ t[Len(s) + 1] = x /\ \A k \in 1..Len(s) : t[k] = s[k]
      /\ \A c : c \in ToSet(t) <=> \E k \in 1..(Len(s) + 1) : t[k] = c
  BY <1>1, <1>3
<1> HIDE DEF t
<1>5. \A k : k \in 1..(Len(s) + 1) <=> k \in 1..Len(s) \/ k = Len(s) + 1
  BY <1>1
<1>6. \A c : c \in ToSet(t) <=> c \in ToSet(s) \/ c = x
  BY <1>2, <1>4, <1>5
<1> QED BY <1>6 DEF t

LEMMA RemoveAtElements ==
  ASSUME NEW S, NEW s \in Seq(S), NEW i \in 1..Len(s),
         \A a, b \in 1..Len(s) : s[a] = s[b] => a = b
  PROVE  /\ \A c : c \in ToSet(RemoveAt(s, i)) <=> c \in ToSet(s) /\ c # s[i]
         /\ \A a, b \in 1..Len(RemoveAt(s, i)) :
              a < b => \E x, y \in 1..Len(s) : /\ x < y
                                               /\ RemoveAt(s, i)[a] = s[x]
                                               /\ RemoveAt(s, i)[b] = s[y]
         /\ \A a, b \in 1..Len(RemoveAt(s, i)) :
              RemoveAt(s, i)[a] = RemoveAt(s, i)[b] => a = b
<1> DEFINE r == RemoveAt(s, i)
<1>1. /\ Len(s) \in Nat /\ i \in Nat /\ Len(r) = Len(s) - 1
      /\ \A k \in 1..(i - 1) : r[k] = s[k]
      /\ \A k \in i..(Len(s) - 1) : r[k] = s[k + 1]
  <2>1. Len(s) \in Nat /\ i \in Nat
    OBVIOUS
  <2> QED BY <2>1, RemoveAtType, RemoveAtPlaces
<1>2. /\ \A c : c \in ToSet(s) <=> \E k \in 1..Len(s) : s[k] = c
      /\ \A c : c \in ToSet(r) <=> \E k \in 1..Len(r) : r[k] = c
  BY RemoveAtType, LenProperties DEF ToSet
<1> DEFINE g(k) == IF k < i THEN k ELSE k + 1
<1> HIDE DEF r
<1>3. \A k \in 1..Len(r) : g(k) \in 1..Len(s) /\ r[k] = s[g(k)] /\ g(k) # i
  BY <1>1
<1>4. \A a, b \in 1..Len(r) : (a < b => g(a) < g(b)) /\ (a # b => g(a) # g(b))
  BY <1>1
<1>5. \A k \in 1..Len(s) : k # i => \E a \in 1..Len(r) : g(a) = k
  <2> SUFFICES ASSUME NEW k \in 1..Len(s), k # i
               PROVE  \E a \in 1..Len(r) : g(a) = k
    OBVIOUS
  <2>1. CASE k < i
    BY <1>1, <2>1
  <2>2. CASE k > i
    <3>1. k - 1 \in 1..Len(r) /\ g(k - 1) = k
      BY <1>1, <2>2
    <3> QED BY <3>1
  <2> QED BY <1>1, <2>1, <2>2
<1> HIDE DEF g
<1>6. \A c : c \in ToSet(r) <=> c \in ToSet(s) /\ c # s[i]
  <2> SUFFICES ASSUME NEW c
               PROVE  c \in ToSet(r) <=> c \in ToSet(s) /\ c # s[i]
    OBVIOUS
  <2>1. ASSUME c \in ToSet(r) PROVE c \in ToSet(s) /\ c # s[i]
    <3>1. PICK k \in 1..Len(r) : r[k] = c
      BY <1>2, <2>1
    <3>2. s[g(k)] = c /\ g(k) \in 1..Len(s) /\ g(k) # i
      BY <1>3, <3>1
    <3> QED BY <1>2, <3>2
  <2>2. ASSUME c \in ToSet(s), c # s[i] PROVE c \in ToSet(r)
    <3>1. PICK k \in 1..Len(s) : s[k] = c /\ k # i
      BY <1>2, <2>2
    <3>2. PICK a \in 1..Len(r) : g(a) = k
      BY <1>5, <3>1
    <3> QED BY <1>2, <1>3, <3>1, <3>2
  <2> QED BY <2>1, <2>2
<1>7. \A a, b \in 1..Len(r) :
        a < b => \E x, y \in 1..Len(s) : x < y /\ r[a] = s[x] /\ r[b] = s[y]
  BY <1>3, <1>4
<1>8. \A a, b \in 1..Len(r) : r[a] = r[b] => a = b
  BY <1>3, <1>4
<1> QED BY <1>6, <1>7, <1>8 DEF r

(* A sequence without repetition, one of its elements taken out. *)
LEMMA RemoveAtSet ==
  ASSUME NEW S, NEW s \in Seq(S), IsInjective(s), NEW i \in 1..Len(s)
  PROVE  /\ RemoveAt(s, i) \in Seq(S)
         /\ ToSet(RemoveAt(s, i)) = ToSet(s) \ {s[i]}
         /\ IsInjective(RemoveAt(s, i))
<1>1. RemoveAt(s, i) \in Seq(S)
  BY RemoveAtType
<1>2. \A a, b \in 1..Len(s) : s[a] = s[b] => a = b
  BY DEF IsInjective
<1>3. /\ \A c : c \in ToSet(RemoveAt(s, i)) <=> c \in ToSet(s) /\ c # s[i]
      /\ \A a, b \in 1..Len(RemoveAt(s, i)) :
           RemoveAt(s, i)[a] = RemoveAt(s, i)[b] => a = b
  BY <1>2, RemoveAtElements
<1> HIDE DEF RemoveAt
<1>4. IsInjective(RemoveAt(s, i))
  BY <1>1, <1>3 DEF IsInjective
<1> QED BY <1>1, <1>3, <1>4

LEMMA ConcatInjective ==
  ASSUME NEW S, NEW s \in Seq(S), NEW t \in Seq(S), IsInjective(s), IsInjective(t),
         ToSet(s) \cap ToSet(t) = {}
  PROVE  IsInjective(s \o t)
<1> DEFINE r == s \o t
           m == Len(s)
           n == Len(t)
<1>1. /\ m \in Nat /\ n \in Nat /\ DOMAIN r = 1..(m + n)
      /\ \A i \in 1..m : r[i] = s[i]
      /\ \A i \in (m + 1)..(m + n) : r[i] = t[i - m]
  OBVIOUS
<1>2. \A i \in 1..m : s[i] \in ToSet(s)
  BY DEF ToSet
<1>3. \A i \in 1..n : t[i] \in ToSet(t)
  BY DEF ToSet
<1>4. \A i, j \in 1..m : s[i] = s[j] => i = j
  BY DEF IsInjective
<1>5. \A i, j \in 1..n : t[i] = t[j] => i = j
  BY DEF IsInjective
<1> HIDE DEF r, m, n
<1> SUFFICES ASSUME NEW i \in 1..(m + n), NEW j \in 1..(m + n), r[i] = r[j]
             PROVE  i = j
  BY <1>1 DEF IsInjective, r
<1>6. CASE i \in 1..m /\ j \in 1..m
  BY <1>1, <1>4, <1>6
<1>7. CASE i \notin 1..m /\ j \notin 1..m
  <2>1. i - m \in 1..n /\ j - m \in 1..n /\ t[i - m] = t[j - m]
    BY <1>1, <1>7
  <2> QED BY <1>1, <1>5, <2>1
<1>8. CASE i \in 1..m /\ j \notin 1..m
  <2>1. j - m \in 1..n /\ s[i] = t[j - m]
    BY <1>1, <1>8
  <2> QED BY <1>2, <1>3, <1>8, <2>1
<1>9. CASE i \notin 1..m /\ j \in 1..m
  <2>1. i - m \in 1..n /\ s[j] = t[i - m]
    BY <1>1, <1>9
  <2> QED BY <1>2, <1>3, <1>9, <2>1
<1> QED BY <1>6, <1>7, <1>8, <1>9

-----------------------------------------------------------------------------
(* Loops *)

(* What holds before a loop and is kept by its i-th round holds after n. *)
LEMMA AfterRounds ==
  ASSUME NEW n \in Nat, NEW T, 0 \in T, \A i \in 1..n : i - 1 \in T => i \in T
  PROVE  n \in T
<1> DEFINE W == {k \in Nat : k <= n /\ k \notin T}
<1> SUFFICES ASSUME W # {} PROVE FALSE
  OBVIOUS
<1>1. PICK x \in W : \A y \in W : ~(<<y, x>> \in OpToRel(<, Nat))
  <2>1. W \subseteq Nat
    OBVIOUS
  <2> HIDE DEF W
  <2> QED BY <2>1, NatLessThanWellFounded, WFMin
<1>2. x \in Nat /\ x <= n /\ x \notin T /\ x # 0
  BY <1>1
<1>3. x - 1 \in Nat /\ x - 1 < x /\ x \in 1..n
  BY <1>2
<1>4. x - 1 \notin W
  BY <1>1, <1>2, <1>3 DEF OpToRel
<1> QED BY <1>2, <1>3, <1>4
=============================================================================
