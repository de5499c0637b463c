----------------------------- MODULE QueueLemmas -----------------------------
(***************************************************************************)
(* Queues without repetition: sequences that are injective, together with  *)
(* the set of their elements.  The scheduler's and the lock manager's      *)
(* queues are such sequences, and their proofs need what appending to,     *)
(* removing from and cutting a queue does to both.  Then what is left of a *)
(* sequence by Those, and induction for the folds of the community         *)
(* modules, which are loops over a set or a sequence in the code.          *)
(***************************************************************************)
EXTENDS Integers, Sequences, SequencesExt, Subsequences, SequenceTheorems, FiniteSetTheorems,
        WellFoundedInduction, TLAPS

\* Among natural numbers with a property, taken as a set, one is the least.
LEMMA LeastOf ==
  ASSUME NEW T, T \subseteq Nat, T # {}
  PROVE  \E k \in T : \A j \in T : k <= j
<1> DEFINE Below2 == {p \in Nat \X Nat : p[1] < p[2]}
<1>1. IsWellFoundedOn(Below2, Nat)
  BY NatLessThanWellFounded, Zenon DEF OpToRel
<1> HIDE DEF Below2
<1>2. \E k \in T : \A j \in T : <<j, k>> \notin Below2
  BY <1>1, WFMin
<1>3. \A j, k \in Nat : j < k => <<j, k>> \in Below2
  BY DEF Below2
<1>4. PICK k \in T : \A j \in T : <<j, k>> \notin Below2
  BY <1>2
<1>5. ASSUME NEW j \in T
      PROVE  k <= j
  <2>1. j \in Nat /\ k \in Nat
    OBVIOUS
  <2>2. ~(j < k)
    BY <1>3, <1>4, <2>1
  <2> QED
    BY <2>1, <2>2
<1> QED
  BY <1>5

\* The members of a sequence of S are in S, and are its entries.
LEMMA MembersOfSeq ==
  ASSUME NEW S, NEW q \in Seq(S)
  PROVE  /\ ToSet(q) \subseteq S
         /\ \A i \in 1 .. Len(q) : q[i] \in ToSet(q)
         /\ \A h \in ToSet(q) : \E i \in 1 .. Len(q) : q[i] = h
  BY LenProperties, ElementOfSeq DEF ToSet

\* An empty queue has no members, and only an empty one has none.
LEMMA MembersOfEmpty ==
  ASSUME NEW S, NEW q \in Seq(S)
  PROVE  ToSet(q) = {} <=> q = <<>>
<1>1. Len(q) \in Nat /\ DOMAIN q = 1 .. Len(q)
  BY LenProperties
<1>2. q = <<>> => ToSet(q) = {}
  BY DEF ToSet
<1>3. q # <<>> => q[1] \in ToSet(q)
  BY <1>1, EmptySeq DEF ToSet
<1> QED
  BY <1>2, <1>3

\* A newcomer appended to a queue.
LEMMA AppendToQueue ==
  ASSUME NEW S, NEW q \in Seq(S), NEW h \in S, IsInjective(q), h \notin ToSet(q)
  PROVE  /\ Append(q, h) \in Seq(S)
         /\ IsInjective(Append(q, h))
         /\ ToSet(Append(q, h)) = ToSet(q) \cup {h}
<1> DEFINE a == Append(q, h)
<1>1. /\ Len(q) \in Nat /\ DOMAIN q = 1 .. Len(q)
      /\ a \in Seq(S) /\ Len(a) = Len(q) + 1
      /\ \A i \in 1 .. Len(q) : a[i] = q[i]
      /\ a[Len(q) + 1] = h
  BY LenProperties, AppendProperties
<1>2. DOMAIN a = 1 .. Len(q) + 1
  BY <1>1, LenProperties
<1>3. \A i \in 1 .. Len(q) : q[i] # h
  BY <1>1 DEF ToSet
<1>4. IsInjective(a)
  BY <1>1, <1>2, <1>3 DEF IsInjective
<1>5. ToSet(a) \subseteq ToSet(q) \cup {h}
  BY <1>1, <1>2 DEF ToSet
<1>6. ToSet(q) \cup {h} \subseteq ToSet(a)
  <2>1. \A i \in 1 .. Len(q) : q[i] \in ToSet(a)
    BY <1>1, <1>2 DEF ToSet
  <2>2. h \in ToSet(a)
    BY <1>1, <1>2 DEF ToSet
  <2> QED
    BY <1>1, <2>1, <2>2 DEF ToSet
<1> QED
  BY <1>1, <1>4, <1>5, <1>6

\* The entries of a queue with its i-th entry removed.
LEMMA RemoveAtEntries ==
  ASSUME NEW S, NEW q \in Seq(S), NEW i \in 1 .. Len(q)
  PROVE  /\ RemoveAt(q, i) \in Seq(S)
         /\ Len(RemoveAt(q, i)) = Len(q) - 1
         /\ \A j \in 1 .. Len(q) - 1 :
              RemoveAt(q, i)[j] = IF j < i THEN q[j] ELSE q[j + 1]
<1> DEFINE a == SubSeq(q, 1, i - 1)
           b == SubSeq(q, i + 1, Len(q))
<1>1. Len(q) \in Nat /\ \A j \in 1 .. Len(q) : q[j] \in S
  BY LenProperties, ElementOfSeq
<1>2. a \in Seq(S) /\ Len(a) = i - 1 /\ \A j \in 1 .. i - 1 : a[j] = q[j]
  <2>1. \A j \in 1 .. i - 1 : q[j] \in S
    BY <1>1
  <2>2. /\ a \in Seq(S)
        /\ Len(a) = IF 1 <= i - 1 THEN (i - 1) - 1 + 1 ELSE 0
        /\ \A j \in 1 .. (i - 1) - 1 + 1 : a[j] = q[1 + j - 1]
    BY <2>1, <1>1, SubSeqProperties
  <2> QED
    BY <2>2, <1>1
<1>3. /\ b \in Seq(S) /\ Len(b) = Len(q) - i
      /\ \A j \in 1 .. Len(q) - i : b[j] = q[i + j]
  <2>1. \A j \in i + 1 .. Len(q) : q[j] \in S
    BY <1>1
  <2>2. /\ b \in Seq(S)
        /\ Len(b) = IF i + 1 <= Len(q) THEN Len(q) - (i + 1) + 1 ELSE 0
        /\ \A j \in 1 .. Len(q) - (i + 1) + 1 : b[j] = q[(i + 1) + j - 1]
    BY <2>1, <1>1, SubSeqProperties
  <2> QED
    BY <2>2, <1>1
<1>4. /\ a \o b \in Seq(S)
      /\ Len(a \o b) = Len(a) + Len(b)
      /\ \A j \in 1 .. Len(a) + Len(b) :
           (a \o b)[j] = IF j <= Len(a) THEN a[j] ELSE b[j - Len(a)]
  BY <1>2, <1>3, ConcatProperties
<1>5. RemoveAt(q, i) = a \o b
  BY DEF RemoveAt
<1> HIDE DEF a, b
<1>6. Len(a) + Len(b) = Len(q) - 1
  BY <1>1, <1>2, <1>3
<1>7. ASSUME NEW j \in 1 .. Len(q) - 1
      PROVE  (a \o b)[j] = IF j < i THEN q[j] ELSE q[j + 1]
  <2>1. CASE j < i
    BY <2>1, <1>1, <1>2, <1>4, <1>6
  <2>2. CASE ~(j < i)
    <3>1. (a \o b)[j] = b[j - (i - 1)]
      BY <2>2, <1>1, <1>2, <1>4, <1>6
    <3>2. j - (i - 1) \in 1 .. Len(q) - i /\ i + (j - (i - 1)) = j + 1
      BY <2>2, <1>1
    <3> QED
      BY <2>2, <3>1, <3>2, <1>3
  <2> QED
    BY <2>1, <2>2
<1> QED
  BY <1>4, <1>5, <1>6, <1>7 DEF a, b

\* An entry removed from a queue leaves it without that member.
LEMMA RemoveFromQueue ==
  ASSUME NEW S, NEW q \in Seq(S), NEW i \in 1 .. Len(q), IsInjective(q)
  PROVE  /\ RemoveAt(q, i) \in Seq(S)
         /\ IsInjective(RemoveAt(q, i))
         /\ ToSet(RemoveAt(q, i)) = ToSet(q) \ {q[i]}
<1> DEFINE r == RemoveAt(q, i)
           old(j) == IF j < i THEN j ELSE j + 1
<1>1. Len(q) \in Nat /\ DOMAIN q = 1 .. Len(q)
  BY LenProperties
<1>2. r \in Seq(S) /\ DOMAIN r = 1 .. Len(q) - 1
  BY RemoveAtEntries, LenProperties
<1>3. \A j \in 1 .. Len(q) - 1 : r[j] = q[old(j)] /\ old(j) \in 1 .. Len(q) /\ old(j) # i
  <2>1. \A j \in 1 .. Len(q) - 1 : r[j] = IF j < i THEN q[j] ELSE q[j + 1]
    BY RemoveAtEntries
  <2> HIDE DEF r
  <2> QED
    BY <1>1, <2>1
<1> HIDE DEF r
<1>4. \A j, k \in 1 .. Len(q) - 1 : old(j) = old(k) => j = k
  BY <1>1
<1>5. \A j, k \in 1 .. Len(q) : q[j] = q[k] => j = k
  BY <1>1 DEF IsInjective
<1>6. IsInjective(r)
  BY <1>2, <1>3, <1>4, <1>5 DEF IsInjective
<1>7. ToSet(r) \subseteq ToSet(q) \ {q[i]}
  BY SMTT(30), <1>1, <1>2, <1>3, <1>5 DEF ToSet
<1>8. ASSUME NEW h \in ToSet(q), h # q[i]
      PROVE  h \in ToSet(r)
  <2>1. PICK k \in 1 .. Len(q) : q[k] = h
    BY <1>1 DEF ToSet
  <2>2. k # i
    BY <2>1, <1>8
  <2>3. CASE k < i
    <3>1. k \in 1 .. Len(q) - 1 /\ old(k) = k
      BY <2>3, <1>1
    <3> QED
      BY <3>1, <2>1, <1>2, <1>3 DEF ToSet
  <2>4. CASE k > i
    <3>1. k - 1 \in 1 .. Len(q) - 1 /\ old(k - 1) = k
      BY <2>4, <1>1
    <3> QED
      BY <3>1, <2>1, <1>2, <1>3 DEF ToSet
  <2> QED
    BY <2>2, <2>3, <2>4, <1>1
<1> QED
  BY <1>2, <1>6, <1>7, <1>8 DEF r

\* A member taken off a queue by its place, as the code's searches do.
LEMMA RemoveMember ==
  ASSUME NEW S, NEW q \in Seq(S), NEW h \in ToSet(q), IsInjective(q)
  PROVE  LET w == RemoveAt(q, CHOOSE i \in 1 .. Len(q) : q[i] = h)
         IN w \in Seq(S) /\ IsInjective(w) /\ ToSet(w) = ToSet(q) \ {h}
<1> DEFINE n == CHOOSE i \in 1 .. Len(q) : q[i] = h
<1>1. n \in 1 .. Len(q) /\ q[n] = h
  BY MembersOfSeq
<1>2. /\ RemoveAt(q, n) \in Seq(S)
      /\ IsInjective(RemoveAt(q, n))
      /\ ToSet(RemoveAt(q, n)) = ToSet(q) \ {q[n]}
  BY <1>1, RemoveFromQueue
<1> QED
  BY <1>1, <1>2

\* The head taken off a queue.
LEMMA TailOfQueue ==
  ASSUME NEW S, NEW q \in Seq(S), q # <<>>, IsInjective(q)
  PROVE  /\ Head(q) \in ToSet(q)
         /\ Tail(q) \in Seq(S)
         /\ IsInjective(Tail(q))
         /\ ToSet(Tail(q)) = ToSet(q) \ {Head(q)}
<1>1. Len(q) \in Nat \ {0} /\ DOMAIN q = 1 .. Len(q)
  BY EmptySeq, LenProperties
<1>2. /\ Tail(q) \in Seq(S) /\ DOMAIN Tail(q) = 1 .. Len(q) - 1
      /\ \A i \in 1 .. Len(q) - 1 : Tail(q)[i] = q[i + 1]
  BY <1>1, HeadTailProperties, LenProperties
<1>3. Head(q) = q[1]
  BY <1>1
<1>4. \A j, k \in 1 .. Len(q) : q[j] = q[k] => j = k
  BY <1>1 DEF IsInjective
<1>5. IsInjective(Tail(q))
  BY <1>1, <1>2, <1>4 DEF IsInjective
<1>6. ToSet(Tail(q)) \subseteq ToSet(q) \ {Head(q)}
  BY <1>1, <1>2, <1>3, <1>4 DEF ToSet
<1>7. ASSUME NEW h \in ToSet(q), h # Head(q)
      PROVE  h \in ToSet(Tail(q))
  <2>1. PICK k \in 1 .. Len(q) : q[k] = h
    BY <1>1 DEF ToSet
  <2>2. k - 1 \in 1 .. Len(q) - 1 /\ (k - 1) + 1 = k
    BY <2>1, <1>1, <1>3, <1>7
  <2> QED
    BY <2>1, <2>2, <1>2 DEF ToSet
<1>8. Head(q) \in ToSet(q)
  BY <1>1, <1>3 DEF ToSet
<1> QED
  BY <1>2, <1>5, <1>6, <1>7, <1>8

\* What is left of a queue past its first n entries.
LEMMA RestOfQueue ==
  ASSUME NEW S, NEW q \in Seq(S), NEW n \in Nat, IsInjective(q)
  PROVE  /\ SubSeq(q, n + 1, Len(q)) \in Seq(S)
         /\ IsInjective(SubSeq(q, n + 1, Len(q)))
         /\ \A x : x \in ToSet(SubSeq(q, n + 1, Len(q))) <=> \E i \in n + 1 .. Len(q) : x = q[i]
<1> DEFINE s == SubSeq(q, n + 1, Len(q))
<1>1. Len(q) \in Nat /\ DOMAIN q = 1 .. Len(q) /\ \A i \in 1 .. Len(q) : q[i] \in S
  BY LenProperties, ElementOfSeq
<1>2. \A i, j \in 1 .. Len(q) : q[i] = q[j] => i = j
  BY <1>1 DEF IsInjective
<1>3. \A i \in n + 1 .. Len(q) : q[i] \in S
  BY <1>1
<1>4. /\ s \in Seq(S)
      /\ Len(s) = IF n + 1 <= Len(q) THEN Len(q) - (n + 1) + 1 ELSE 0
      /\ \A i \in 1 .. Len(q) - (n + 1) + 1 : s[i] = q[(n + 1) + i - 1]
  BY <1>1, <1>3, SubSeqProperties
<1> HIDE DEF s
<1>5. Len(q) \in Nat
  BY <1>1
<1>6. Len(s) = IF n + 1 <= Len(q) THEN Len(q) - (n + 1) + 1 ELSE 0
  BY <1>4
<1>7. Len(s) \in Nat /\ (n < Len(q) => Len(s) = Len(q) - n) /\ (n >= Len(q) => Len(s) = 0)
  <2>1. CASE n < Len(q)
    BY <2>1, <1>5, <1>6
  <2>2. CASE ~(n < Len(q))
    BY <2>2, <1>5, <1>6
  <2> QED
    BY <2>1, <2>2, <1>5
<1>8. ASSUME NEW i \in 1 .. Len(s)
      PROVE  s[i] = q[n + i] /\ n + i \in n + 1 .. Len(q)
  <2>1. i \in 1 .. Len(q) - (n + 1) + 1 /\ (n + 1) + i - 1 = n + i
    BY <1>5, <1>7
  <2>2. s[i] = q[n + i]
    BY <1>4, <2>1
  <2> QED
    BY <1>5, <1>7, <2>2
<1>9. DOMAIN s = 1 .. Len(s)
  BY <1>4, LenProperties
<1>10. IsInjective(s)
  <2>1. ASSUME NEW i \in 1 .. Len(s), NEW j \in 1 .. Len(s), s[i] = s[j]
        PROVE  i = j
    <3>1. n + i \in 1 .. Len(q) /\ n + j \in 1 .. Len(q) /\ q[n + i] = q[n + j]
      BY <1>1, <1>8, <2>1
    <3>2. n + i = n + j
      BY <1>2, <3>1
    <3> QED
      BY <3>2
  <2> QED
    BY <2>1, <1>9 DEF IsInjective
<1>11. \A x \in ToSet(s) : \E i \in n + 1 .. Len(q) : x = q[i]
  BY <1>8, <1>9 DEF ToSet
<1>12. ASSUME NEW i \in n + 1 .. Len(q)
      PROVE  q[i] \in ToSet(s)
  <2>1. i - n \in 1 .. Len(s) /\ n + (i - n) = i
    BY <1>5, <1>7
  <2> QED
    BY <2>1, <1>8, <1>9 DEF ToSet
<1> QED
  BY <1>4, <1>10, <1>11, <1>12 DEF s

\* One queue after another, with no member in common.
LEMMA QueueAfterQueue ==
  ASSUME NEW S, NEW c \in Seq(S), NEW w \in Seq(S),
         IsInjective(c), IsInjective(w), ToSet(c) \cap ToSet(w) = {}
  PROVE  /\ c \o w \in Seq(S)
         /\ Len(c) \in Nat /\ Len(w) \in Nat /\ Len(c \o w) = Len(c) + Len(w)
         /\ \A i \in 1 .. Len(c) : (c \o w)[i] = c[i]
         /\ \A i \in 1 .. Len(w) : (c \o w)[Len(c) + i] = w[i]
         /\ \A i \in 1 .. Len(c \o w) : (c \o w)[i] \in ToSet(c) \cup ToSet(w)
         /\ \A i, j \in 1 .. Len(c \o w) : (c \o w)[i] = (c \o w)[j] => i = j
<1> DEFINE q == c \o w
<1>1. Len(c) \in Nat /\ Len(w) \in Nat
  BY LenProperties
<1>2. /\ q \in Seq(S) /\ Len(q) = Len(c) + Len(w)
      /\ \A i \in 1 .. Len(c) + Len(w) : q[i] = IF i <= Len(c) THEN c[i] ELSE w[i - Len(c)]
  BY ConcatProperties
<1>3. /\ \A i, j \in 1 .. Len(c) : c[i] = c[j] => i = j
      /\ \A i, j \in 1 .. Len(w) : w[i] = w[j] => i = j
      /\ \A i \in 1 .. Len(c) : c[i] \in ToSet(c)
      /\ \A i \in 1 .. Len(w) : w[i] \in ToSet(w)
  BY LenProperties, MembersOfSeq DEF IsInjective
<1> HIDE DEF q
<1>4. ASSUME NEW i \in 1 .. Len(c)
      PROVE  q[i] = c[i]
  BY <1>1, <1>2
<1>5. ASSUME NEW i \in 1 .. Len(w)
      PROVE  q[Len(c) + i] = w[i]
  <2>1. Len(c) + i \in 1 .. Len(c) + Len(w) /\ ~(Len(c) + i <= Len(c)) /\ (Len(c) + i) - Len(c) = i
    BY <1>1
  <2> QED
    BY <1>2, <2>1
<1>6. ASSUME NEW i \in 1 .. Len(q)
      PROVE  \/ i \in 1 .. Len(c) /\ q[i] = c[i] /\ q[i] \in ToSet(c)
             \/ i - Len(c) \in 1 .. Len(w) /\ q[i] = w[i - Len(c)] /\ q[i] \in ToSet(w)
  <2>1. CASE i <= Len(c)
    <3>1. i \in 1 .. Len(c)
      BY <2>1, <1>1
    <3> QED
      BY <3>1, <1>3, <1>4
  <2>2. CASE ~(i <= Len(c))
    <3>1. i - Len(c) \in 1 .. Len(w) /\ q[i] = w[i - Len(c)]
      BY <2>2, <1>1, <1>2
    <3> QED
      BY <3>1, <1>3
  <2> QED
    BY <2>1, <2>2
<1>7. ASSUME NEW i \in 1 .. Len(q), NEW j \in 1 .. Len(q), q[i] = q[j]
      PROVE  i = j
  <2>1. CASE i \in 1 .. Len(c) /\ j \in 1 .. Len(c) /\ q[i] = c[i] /\ q[j] = c[j]
    BY <1>3, <1>7, <2>1
  <2>2. CASE /\ i - Len(c) \in 1 .. Len(w) /\ q[i] = w[i - Len(c)]
             /\ j - Len(c) \in 1 .. Len(w) /\ q[j] = w[j - Len(c)]
    <3>1. i - Len(c) = j - Len(c)
      BY <1>3, <1>7, <2>2
    <3> QED
      BY <1>1, <1>2, <3>1
  <2> QED
    BY <1>6, <1>7, <2>1, <2>2
<1>8. \A i \in 1 .. Len(q) : q[i] \in ToSet(c) \cup ToSet(w)
  BY <1>6
<1> QED
  BY <1>1, <1>2, <1>4, <1>5, <1>7, <1>8 DEF q

\* A newcomer put at a queue's head.
LEMMA PrependToQueue ==
  ASSUME NEW S, NEW q \in Seq(S), NEW h \in S, IsInjective(q), h \notin ToSet(q)
  PROVE  /\ <<h>> \o q \in Seq(S)
         /\ IsInjective(<<h>> \o q)
         /\ ToSet(<<h>> \o q) = ToSet(q) \cup {h}
<1> DEFINE c == <<h>>
           a == c \o q
<1>1. c \in Seq(S) /\ Len(c) = 1 /\ c[1] = h /\ IsInjective(c) /\ ToSet(c) = {h}
  BY DEF IsInjective, ToSet
<1>2. ToSet(c) \cap ToSet(q) = {}
  BY <1>1
<1> HIDE DEF c
<1>3. /\ a \in Seq(S)
      /\ Len(c) \in Nat /\ Len(q) \in Nat /\ Len(a) = Len(c) + Len(q)
      /\ \A i \in 1 .. Len(c) : a[i] = c[i]
      /\ \A i \in 1 .. Len(q) : a[Len(c) + i] = q[i]
      /\ \A i \in 1 .. Len(a) : a[i] \in ToSet(c) \cup ToSet(q)
      /\ \A i, j \in 1 .. Len(a) : a[i] = a[j] => i = j
  BY <1>1, <1>2, QueueAfterQueue
<1> HIDE DEF a
<1>4. DOMAIN a = 1 .. Len(a)
  BY <1>3, LenProperties
<1>5. IsInjective(a)
  BY <1>3, <1>4 DEF IsInjective
<1>6. ToSet(a) \subseteq ToSet(q) \cup {h}
  BY <1>1, <1>3, <1>4 DEF ToSet
<1>7. h \in ToSet(a)
  <2>1. 1 \in 1 .. Len(a) /\ a[1] = h
    BY <1>1, <1>3
  <2> QED
    BY <2>1, <1>4 DEF ToSet
<1>8. ASSUME NEW x \in ToSet(q)
      PROVE  x \in ToSet(a)
  <2>1. PICK i \in 1 .. Len(q) : q[i] = x
    BY MembersOfSeq
  <2>2. Len(c) + i \in 1 .. Len(a) /\ a[Len(c) + i] = x
    BY <1>3, <2>1
  <2> QED
    BY <2>2, <1>4 DEF ToSet
<1> QED
  BY <1>3, <1>5, <1>6, <1>7, <1>8 DEF a, c

\* An element appended to a sequence.
LEMMA MembersOfAppend ==
  ASSUME NEW T, NEW q \in Seq(T), NEW e \in T
  PROVE  Append(q, e) \in Seq(T) /\ ToSet(Append(q, e)) = ToSet(q) \cup {e}
<1> DEFINE a == Append(q, e)
<1>1. /\ a \in Seq(T) /\ Len(a) = Len(q) + 1 /\ a[Len(q) + 1] = e
      /\ \A i \in 1 .. Len(q) : a[i] = q[i]
      /\ Len(q) \in Nat /\ DOMAIN q = 1 .. Len(q) /\ DOMAIN a = 1 .. Len(a)
  BY LenProperties, AppendProperties
<1> HIDE DEF a
<1>2. ToSet(a) \subseteq ToSet(q) \cup {e}
  BY <1>1 DEF ToSet
<1>3. ToSet(q) \subseteq ToSet(a) /\ e \in ToSet(a)
  BY <1>1 DEF ToSet
<1> QED
  BY <1>1, <1>2, <1>3 DEF a

-----------------------------------------------------------------------------
(* What Those leaves of a sequence. *)

\* How Those is computed, up to the first n elements.
KeptUpTo(q, S, n, f) ==
  f = [i \in 0 .. n |-> IF i = 0 THEN <<>>
                        ELSE IF q[i] \in S THEN Append(f[i - 1], q[i]) ELSE f[i - 1]]

\* A filter's recursion has a function that satisfies it, up to any place of the sequence.
LEMMA KeptExists ==
  ASSUME NEW q, NEW S, NEW n \in Nat
  PROVE  \E f : KeptUpTo(q, S, n, f)
<1> DEFINE Missing == {m \in Nat : \A f : ~KeptUpTo(q, S, m, f)}
<1>1. ASSUME Missing # {}
      PROVE  FALSE
  <2>1. PICK m \in Missing : \A j \in Missing : m <= j
    BY <1>1, LeastOf, Zenon
  <2>2. m \in Nat
    OBVIOUS
  <2>3. CASE m = 0
    <3>1. KeptUpTo(q, S, 0, [i \in 0 .. 0 |-> <<>>])
      BY DEF KeptUpTo
    <3> QED
      BY <2>3, <3>1
  <2>4. CASE m # 0
    <3>1. m - 1 \in Nat /\ ~(m <= m - 1)
      BY <2>2, <2>4
    <3>2. PICK g : KeptUpTo(q, S, m - 1, g)
      BY <2>1, <3>1
    <3> DEFINE h == [i \in 0 .. m |-> IF i < m THEN g[i]
                                     ELSE IF q[m] \in S THEN Append(g[m - 1], q[m]) ELSE g[m - 1]]
    <3>3. \A i \in 0 .. m - 1 :
            g[i] = IF i = 0 THEN <<>> ELSE IF q[i] \in S THEN Append(g[i - 1], q[i]) ELSE g[i - 1]
      BY <3>2 DEF KeptUpTo
    <3>4. \A i \in 0 .. m :
            h[i] = IF i = 0 THEN <<>> ELSE IF q[i] \in S THEN Append(h[i - 1], q[i]) ELSE h[i - 1]
      <4> SUFFICES ASSUME NEW i \in 0 .. m
                   PROVE  h[i] = IF i = 0 THEN <<>>
                                 ELSE IF q[i] \in S THEN Append(h[i - 1], q[i]) ELSE h[i - 1]
        OBVIOUS
      <4>1. CASE i = m
        <5>1. m \in 0 .. m /\ m - 1 \in 0 .. m /\ ~(m < m) /\ m - 1 < m
          BY <2>2, <3>1
        <5>2. h[m] = (IF q[m] \in S THEN Append(g[m - 1], q[m]) ELSE g[m - 1]) /\ h[m - 1] = g[m - 1]
          BY <5>1
        <5> QED
          BY <2>4, <4>1, <5>2
      <4>2. CASE i # m
        <5>1. i \in 0 .. m - 1 /\ i < m /\ (i # 0 => i - 1 \in 0 .. m /\ i - 1 < m)
          BY <2>2, <4>2
        <5>2. h[i] = g[i] /\ (i # 0 => h[i - 1] = g[i - 1])
          BY <5>1
        <5> QED
          BY <3>3, <5>1, <5>2
      <4> QED
        BY <4>1, <4>2
    <3>5. KeptUpTo(q, S, m, h)
      BY <3>4 DEF KeptUpTo
    <3> QED
      BY <3>5
  <2> QED
    BY <2>3, <2>4
<1> QED
  BY <1>1

\* Those leaves the elements it is to leave, and no others.
LEMMA ThoseAre ==
  ASSUME NEW T, NEW q \in Seq(T), NEW S
  PROVE  Those(q, S) \in Seq(T) /\ ToSet(Those(q, S)) = ToSet(q) \cap S
<1> DEFINE n == Len(q)
           f == CHOOSE g : KeptUpTo(q, S, n, g)
           Is(i) == f[i] \in Seq(T) /\ ToSet(f[i]) = {q[j] : j \in 1 .. i} \cap S
           Wrong == {i \in 0 .. n : ~Is(i)}
<1>1. n \in Nat /\ \A i \in 1 .. n : q[i] \in T
  BY LenProperties, ElementOfSeq
<1>2. KeptUpTo(q, S, n, f)
  BY <1>1, KeptExists
<1>3. Those(q, S) = f[n]
  BY Zenon DEF Those, KeptUpTo
<1> HIDE DEF f, n
<1>4. \A i \in 0 .. n :
        f[i] = IF i = 0 THEN <<>> ELSE IF q[i] \in S THEN Append(f[i - 1], q[i]) ELSE f[i - 1]
  BY <1>2 DEF KeptUpTo
<1>5. ASSUME Wrong # {}
      PROVE  FALSE
  <2>1. PICK m \in Wrong : \A j \in Wrong : m <= j
    <3>1. Wrong \subseteq Nat
      BY <1>1
    <3> HIDE DEF Wrong
    <3> QED
      BY <1>5, <3>1, LeastOf, Zenon
  <2>2. m \in 0 .. n /\ ~Is(m)
    OBVIOUS
  <2>3. CASE m = 0
    <3>1. f[0] = <<>>
      BY <1>1, <1>4
    <3>2. ToSet(f[0]) = {} /\ f[0] \in Seq(T)
      BY <3>1 DEF ToSet
    <3>3. {q[j] : j \in 1 .. 0} = {}
      OBVIOUS
    <3> QED
      BY <2>2, <2>3, <3>2, <3>3
  <2>4. CASE m # 0
    <3>1. m - 1 \in 0 .. n /\ ~(m <= m - 1) /\ m \in 1 .. n
      BY <1>1, <2>2, <2>4
    <3>2. Is(m - 1)
      BY <2>1, <3>1
    <3>3. {q[j] : j \in 1 .. m} = {q[j] : j \in 1 .. m - 1} \cup {q[m]}
      <4>1. 1 .. m = 1 .. m - 1 \cup {m}
        BY <1>1, <3>1
      <4> QED
        BY <4>1
    <3>4. q[m] \in T
      BY <1>1, <3>1
    <3> DEFINE e == q[m]
               g == f[m - 1]
               A == {q[j] : j \in 1 .. m - 1}
    <3>5. f[m] = IF e \in S THEN Append(g, e) ELSE g
      BY <1>4, <2>2, <2>4
    <3>6. g \in Seq(T) /\ ToSet(g) = A \cap S
      BY <3>2
    <3> HIDE DEF e, g, A
    <3>7. Append(g, e) \in Seq(T) /\ ToSet(Append(g, e)) = ToSet(g) \cup {e}
      BY <3>4, <3>6, MembersOfAppend DEF e
    <3>8. f[m] \in Seq(T) /\ ToSet(f[m]) = (A \cup {e}) \cap S
      BY <3>5, <3>6, <3>7
    <3> QED
      BY <2>2, <3>3, <3>8 DEF A, e
  <2> QED
    BY <2>3, <2>4
<1>6. n \in 0 .. n
  BY <1>1
<1>7. Is(n)
  BY <1>5, <1>6
<1>8. ToSet(q) = {q[j] : j \in 1 .. n}
  BY LenProperties DEF ToSet, n
<1> QED
  BY <1>3, <1>7, <1>8

\* A function that computes Those, up to the n-th element.
Keeps(q, S, n, f) ==
  \A i \in 0 .. n :
    f[i] = IF i = 0 THEN <<>> ELSE IF q[i] \in S THEN Append(f[i - 1], q[i]) ELSE f[i - 1]

\* There is one.
LEMMA ThoseFollows ==
  ASSUME NEW T, NEW q \in Seq(T), NEW S
  PROVE  \E f : Keeps(q, S, Len(q), f) /\ Those(q, S) = f[Len(q)]
<1> DEFINE n == Len(q)
           f == CHOOSE g : KeptUpTo(q, S, n, g)
<1>1. n \in Nat
  BY LenProperties
<1>2. KeptUpTo(q, S, n, f)
  BY <1>1, KeptExists
<1>3. Those(q, S) = f[n]
  BY Zenon DEF Those, KeptUpTo
<1> HIDE DEF f
<1>4. Keeps(q, S, n, f)
  BY <1>2 DEF KeptUpTo, Keeps
<1> QED
  BY <1>3, <1>4

\* No two elements of a sequence are alike.
Apart(q, alike) == \A i, j \in DOMAIN q : i # j => <<q[i], q[j]>> \notin alike

\* No two elements become alike by leaving others out.
LEMMA ThoseApart ==
  ASSUME NEW T, NEW q \in Seq(T), NEW S, NEW alike, Apart(q, alike)
  PROVE  Apart(Those(q, S), alike)
<1> DEFINE n == Len(q)
<1>1. n \in Nat /\ DOMAIN q = 1 .. n /\ \A i \in 1 .. n : q[i] \in T
  BY LenProperties, ElementOfSeq
<1>2. PICK f : Keeps(q, S, n, f) /\ Those(q, S) = f[n]
  BY ThoseFollows
<1> DEFINE Is(i) == f[i] \in Seq(T) /\ Apart(f[i], alike) /\ ToSet(f[i]) \subseteq {q[j] : j \in 1 .. i}
           Wrong == {i \in 0 .. n : ~Is(i)}
<1> HIDE DEF n
<1>3. ASSUME Wrong # {}
      PROVE  FALSE
  <2>1. PICK m \in Wrong : \A j \in Wrong : m <= j
    <3>1. Wrong \subseteq Nat
      BY <1>1
    <3> HIDE DEF Wrong
    <3> QED
      BY <1>3, <3>1, LeastOf, Zenon
  <2>2. m \in 0 .. n /\ ~Is(m)
    OBVIOUS
  <2>3. CASE m = 0
    <3>1. f[0] = <<>>
      BY <1>1, <1>2 DEF Keeps
    <3>2. f[0] \in Seq(T) /\ ToSet(f[0]) = {} /\ Apart(f[0], alike)
      BY <3>1, EmptySeq DEF ToSet, Apart
    <3> QED
      BY <2>2, <2>3, <3>2
  <2>4. CASE m # 0
    <3>1. m - 1 \in 0 .. n /\ ~(m <= m - 1) /\ m \in 1 .. n
      BY <1>1, <2>2, <2>4
    <3>2. Is(m - 1)
      BY <2>1, <3>1
    <3> DEFINE g == f[m - 1]
               e == q[m]
               A == {q[j] : j \in 1 .. m - 1}
    <3>3. f[m] = (IF e \in S THEN Append(g, e) ELSE g) /\ e \in T
      BY <1>1, <1>2, <2>2, <2>4, <3>1 DEF Keeps
    <3>4. g \in Seq(T) /\ Apart(g, alike) /\ ToSet(g) \subseteq A
      BY <3>2
    <3>5. \A x \in A : <<x, e>> \notin alike /\ <<e, x>> \notin alike
      <4>1. \A j \in 1 .. m - 1 : j \in 1 .. n /\ j # m
        BY <1>1, <3>1
      <4> QED
        BY <1>1, <3>1, <4>1 DEF Apart
    <3>6. A \cup {e} \subseteq {q[j] : j \in 1 .. m} /\ A \subseteq {q[j] : j \in 1 .. m}
      <4>1. m \in 1 .. m /\ \A j \in 1 .. m - 1 : j \in 1 .. m
        BY <1>1, <3>1
      <4> QED
        BY <4>1
    <3> HIDE DEF e, g, A
    <3>7. /\ Append(g, e) \in Seq(T) /\ ToSet(Append(g, e)) = ToSet(g) \cup {e}
          /\ DOMAIN Append(g, e) = 1 .. Len(g) + 1 /\ DOMAIN g = 1 .. Len(g) /\ Len(g) \in Nat
          /\ \A i \in 1 .. Len(g) : Append(g, e)[i] = g[i]
          /\ Append(g, e)[Len(g) + 1] = e
      BY <3>3, <3>4, MembersOfAppend, AppendProperties, LenProperties
    <3>8. Apart(Append(g, e), alike)
      <4> DEFINE a == Append(g, e)
      <4> SUFFICES ASSUME NEW i \in DOMAIN a, NEW j \in DOMAIN a, i # j
                   PROVE  <<a[i], a[j]>> \notin alike
        BY DEF Apart
      <4>1. (i \in DOMAIN g \/ i = Len(g) + 1) /\ (j \in DOMAIN g \/ j = Len(g) + 1)
        BY <3>7
      <4>2. \A k \in DOMAIN g : a[k] = g[k] /\ g[k] \in A
        BY <3>4, <3>7 DEF ToSet
      <4>3. a[Len(g) + 1] = e
        BY <3>7
      <4> HIDE DEF a
      <4> QED
        BY <3>4, <3>5, <4>1, <4>2, <4>3 DEF Apart
    <3>9. Is(m)
      BY <3>3, <3>4, <3>6, <3>7, <3>8 DEF g
    <3> QED
      BY <2>2, <3>9
  <2> QED
    BY <2>3, <2>4
<1>4. Is(n)
  <2>1. n \in 0 .. n
    BY <1>1
  <2> QED
    BY <1>3, <2>1
<1> QED
  BY <1>2, <1>4

-----------------------------------------------------------------------------
(* Folds over sets and over sequences. *)

\* How a fold over the subsets of S is computed, in the order of choice ch, for those of
\* at most n elements.
Small(S, n) == {T \in SUBSET S : Cardinality(T) <= n}

FoldsUpTo(base, F, ch, D, g) ==
  g = [T \in D |-> IF T = {} THEN base ELSE F[<<ch[T], g[T \ {ch[T]}]>>]]

\* The same for a fold over the sets of up to n members.
LEMMA FoldExistsUpTo ==
  ASSUME NEW S, IsFiniteSet(S), NEW base, NEW F, NEW ch,
         \A T \in SUBSET S : T # {} => ch[T] \in T, NEW n \in Nat
  PROVE  \E g : FoldsUpTo(base, F, ch, Small(S, n), g)
<1> DEFINE Missing == {m \in Nat : \A g : ~FoldsUpTo(base, F, ch, Small(S, m), g)}
<1>1. \A T \in SUBSET S : /\ Cardinality(T) \in Nat /\ (Cardinality(T) = 0 <=> T = {})
                          /\ T # {} => Cardinality(T \ {ch[T]}) = Cardinality(T) - 1
  BY FS_Subset, FS_CardinalityType, FS_EmptySet, FS_RemoveElement
<1>2. ASSUME Missing # {}
      PROVE  FALSE
  <2>1. PICK m \in Missing : \A j \in Missing : m <= j
    BY <1>2, LeastOf, Zenon
  <2>2. m \in Nat
    OBVIOUS
  <2>3. CASE m = 0
    <3>1. \A T \in Small(S, 0) : T = {}
      <4> SUFFICES ASSUME NEW T \in Small(S, 0) PROVE T = {}
        OBVIOUS
      <4>1. T \in SUBSET S /\ Cardinality(T) <= 0
        BY DEF Small
      <4>2. Cardinality(T) \in Nat /\ (Cardinality(T) = 0 <=> T = {})
        BY <1>1, <4>1
      <4> QED
        BY <4>1, <4>2
    <3>2. FoldsUpTo(base, F, ch, Small(S, 0), [T \in Small(S, 0) |-> base])
      BY <3>1 DEF FoldsUpTo
    <3> QED
      BY <2>3, <3>2
  <2>4. CASE m # 0
    <3>1. m - 1 \in Nat /\ ~(m <= m - 1)
      BY <2>2, <2>4
    <3>2. PICK g : FoldsUpTo(base, F, ch, Small(S, m - 1), g)
      BY <2>1, <3>1
    <3> DEFINE D == Small(S, m)
               C == Small(S, m - 1)
               h == [T \in D |-> IF T \in C THEN g[T] ELSE F[<<ch[T], g[T \ {ch[T]}]>>]]
    <3>3. \A T \in C : g[T] = IF T = {} THEN base ELSE F[<<ch[T], g[T \ {ch[T]}]>>]
      BY <3>2 DEF FoldsUpTo
    <3>4. /\ \A T \in D : T # {} => T \ {ch[T]} \in C /\ T \ {ch[T]} \in D
          /\ \A T \in D : T = {} => T \in C
      BY <1>1, <2>2, <2>4 DEF Small
    <3> HIDE DEF C, D
    <3>5. \A T \in D : h[T] = IF T = {} THEN base ELSE F[<<ch[T], h[T \ {ch[T]}]>>]
      <4> SUFFICES ASSUME NEW T \in D
                   PROVE  h[T] = IF T = {} THEN base ELSE F[<<ch[T], h[T \ {ch[T]}]>>]
        OBVIOUS
      <4>1. CASE T = {}
        BY <3>3, <3>4, <4>1
      <4>2. CASE T # {}
        <5>1. h[T \ {ch[T]}] = g[T \ {ch[T]}]
          BY <3>4, <4>2
        <5>2. h[T] = F[<<ch[T], g[T \ {ch[T]}]>>]
          BY <3>3, <4>2
        <5> QED
          BY <4>2, <5>1, <5>2
      <4> QED
        BY <4>1, <4>2
    <3>6. h = [T \in D |-> h[T]]
      OBVIOUS
    <3> HIDE DEF h
    <3>7. FoldsUpTo(base, F, ch, D, h)
      BY <3>5, <3>6 DEF FoldsUpTo
    <3> QED
      BY <3>7 DEF D
  <2> QED
    BY <2>3, <2>4
<1> QED
  BY <1>2

\* A fold over a finite set, its members taken in the order ch chooses, has a function.
LEMMA FoldExists ==
  ASSUME NEW S, IsFiniteSet(S), NEW base, NEW F, NEW ch,
         \A T \in SUBSET S : T # {} => ch[T] \in T
  PROVE  \E g : FoldsUpTo(base, F, ch, SUBSET S, g)
<1>1. \A T \in SUBSET S : Cardinality(T) <= Cardinality(S)
  BY FS_Subset
<1>2. Small(S, Cardinality(S)) = SUBSET S
  BY <1>1 DEF Small
<1>3. Cardinality(S) \in Nat
  BY FS_CardinalityType
<1>4. \E g : FoldsUpTo(base, F, ch, Small(S, Cardinality(S)), g)
  BY <1>3, FoldExistsUpTo, Zenon
<1> QED
  BY <1>2, <1>4

\* What holds of the fold of no elements, and with one more if it did without, holds of all.
LEMMA FoldInduction ==
  ASSUME NEW S, IsFiniteSet(S), NEW ch, \A T \in SUBSET S : T # {} => ch[T] \in T,
         NEW g, NEW G, g[{}] \in G[{}],
         \A T \in SUBSET S : T # {} /\ g[T \ {ch[T]}] \in G[T \ {ch[T]}] => g[T] \in G[T]
  PROVE  \A T \in SUBSET S : g[T] \in G[T]
<1>1. \A T \in SUBSET S : /\ Cardinality(T) \in Nat /\ (Cardinality(T) = 0 <=> T = {})
                          /\ T # {} => Cardinality(T \ {ch[T]}) = Cardinality(T) - 1
  BY FS_Subset, FS_CardinalityType, FS_EmptySet, FS_RemoveElement
<1> DEFINE Wrong == {n \in Nat : \E T \in SUBSET S : Cardinality(T) = n /\ g[T] \notin G[T]}
<1>2. ASSUME Wrong # {}
      PROVE  FALSE
  <2>1. PICK m \in Wrong : \A j \in Wrong : m <= j
    BY <1>2, LeastOf, Zenon
  <2>2. PICK T \in SUBSET S : Cardinality(T) = m /\ g[T] \notin G[T]
    OBVIOUS
  <2>3. T # {}
    BY <2>2
  <2> DEFINE U == T \ {ch[T]}
  <2>4. U \in SUBSET S /\ Cardinality(U) = m - 1 /\ m - 1 \in Nat /\ ~(m <= m - 1)
    <3>1. m \in Nat /\ m # 0
      BY <1>1, <2>2, <2>3
    <3> QED
      BY <1>1, <2>2, <2>3, <3>1
  <2>5. g[U] \in G[U]
    BY <2>1, <2>4
  <2> QED
    BY <2>2, <2>3, <2>5
<1> QED
  BY <1>1, <1>2

\* The greatest of a set of places in a sequence.
LEMMA GreatestPlace ==
  ASSUME NEW n \in Nat, NEW T \in SUBSET (1 .. n), T # {}
  PROVE  Max(T) \in T /\ \A y \in T : y <= Max(T)
<1> DEFINE Gaps == {n - y : y \in T}
<1>1. \A y \in T : y \in Nat /\ y <= n /\ n - y \in Nat
  OBVIOUS
<1>2. Gaps \subseteq Nat /\ Gaps # {}
  BY <1>1
<1>3. PICK g \in Gaps : \A h \in Gaps : g <= h
  BY <1>2, LeastOf, Zenon
<1>4. PICK m \in T : g = n - m
  OBVIOUS
<1>5. ASSUME NEW y \in T PROVE m >= y
  <2>1. n - y \in Gaps
    OBVIOUS
  <2>2. n - m <= n - y
    BY <1>3, <1>4, <2>1
  <2> QED
    BY <1>1, <2>2
<1>6. Max(T) \in T /\ \A y \in T : Max(T) >= y
  BY <1>5 DEF Max
<1> QED
  BY <1>6

\* How a fold over a sequence of n elements is computed, and that every step of it stays in G:
\* G[T] is where the fold may be once the elements at the places T are taken.
FoldsOver(n, base, F, g) ==
  g = [T \in SUBSET (1 .. n) |-> IF T = {} THEN base ELSE F[<<Max(T), g[T \ {Max(T)}]>>]]

StepsStay(n, F, G) ==
  \A T \in SUBSET (1 .. n) : \A x \in T : \A u \in G[T \ {x}] :
    (\A y \in T : y <= x) => F[<<x, u>>] \in G[T]

StaysIn(n, g, G) == \A T \in SUBSET (1 .. n) : g[T] \in G[T]

\* A fold over a sequence of n elements has a function, and stays where every step stays:
\* G[T] is where it may be once the elements at the places T are taken.
LEMMA SeqFoldExists ==
  ASSUME NEW n \in Nat, NEW base, NEW F, NEW G, base \in G[{}], StepsStay(n, F, G)
  PROVE  \E g : FoldsOver(n, base, F, g) /\ StaysIn(n, g, G)
<1> DEFINE R == 1 .. n
           ch == [T \in SUBSET R |-> Max(T)]
<1>1. IsFiniteSet(R)
  BY FS_Interval
<1>2. \A T \in SUBSET R : T # {} => ch[T] \in T /\ ch[T] = Max(T) /\ \A y \in T : y <= ch[T]
  BY GreatestPlace
<1>3. \A T \in SUBSET R : T # {} => ch[T] \in T
  BY <1>2
<1> HIDE DEF ch, R
<1>4. PICK g : FoldsUpTo(base, F, ch, SUBSET R, g)
  BY <1>1, <1>3, FoldExists
<1>5. g = [T \in SUBSET R |-> IF T = {} THEN base ELSE F[<<ch[T], g[T \ {ch[T]}]>>]]
  BY <1>4 DEF FoldsUpTo
<1>6. \A T \in SUBSET R : g[T] = IF T = {} THEN base ELSE F[<<ch[T], g[T \ {ch[T]}]>>]
  BY <1>5
<1>7. g[{}] \in G[{}]
  BY <1>6
<1>8. \A T \in SUBSET R : T # {} /\ g[T \ {ch[T]}] \in G[T \ {ch[T]}] => g[T] \in G[T]
  <2> SUFFICES ASSUME NEW T \in SUBSET R, T # {}, g[T \ {ch[T]}] \in G[T \ {ch[T]}]
               PROVE  g[T] \in G[T]
    OBVIOUS
  <2>1. ch[T] \in T /\ \A y \in T : y <= ch[T]
    BY <1>2
  <2>2. F[<<ch[T], g[T \ {ch[T]}]>>] \in G[T]
    BY <2>1 DEF R, StepsStay
  <2> QED
    BY <1>6, <2>2
<1>9. \A T \in SUBSET R : g[T] \in G[T]
  BY <1>1, <1>3, <1>7, <1>8, FoldInduction, ZenonT(90)
<1>10. g = [T \in SUBSET R |-> IF T = {} THEN base ELSE F[<<Max(T), g[T \ {Max(T)}]>>]]
  <2>1. \A T \in SUBSET R : T # {} => ch[T] = Max(T)
    BY <1>2
  <2> QED
    BY <1>5, <2>1
<1> QED
  BY <1>9, <1>10 DEF R, FoldsOver, StaysIn

\* Whatever follows a fold's rule stays where every step stays.
LEMMA SeqFoldInduction ==
  ASSUME NEW n \in Nat, NEW g, NEW G, g[{}] \in G[{}],
         \A T \in SUBSET (1 .. n) : T # {} /\ g[T \ {Max(T)}] \in G[T \ {Max(T)}] => g[T] \in G[T]
  PROVE  g[1 .. n] \in G[1 .. n]
<1> DEFINE R == 1 .. n
           ch == [T \in SUBSET R |-> Max(T)]
<1>1. IsFiniteSet(R)
  BY FS_Interval
<1>2. \A T \in SUBSET R : T # {} => ch[T] \in T
  BY GreatestPlace
<1>3. \A T \in SUBSET R : T # {} /\ g[T \ {ch[T]}] \in G[T \ {ch[T]}] => g[T] \in G[T]
  OBVIOUS
<1> HIDE DEF ch, R
<1>4. \A T \in SUBSET R : g[T] \in G[T]
  BY <1>1, <1>2, <1>3, FoldInduction, ZenonT(90)
<1> QED
  BY <1>4 DEF R

=============================================================================
