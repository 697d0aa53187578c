-------------------------- MODULE PeerLocksProofs --------------------------
(***************************************************************************)
(* Which tasks of a peer can come to wait for each other in a circle, for  *)
(* any number of tasks: only with one that sends under a guard, as all     *)
(* other waiting keeps to an order of the mutexes.                         *)
(***************************************************************************)
EXTENDS PeerLocks, SequenceTheorems, TLAPS

Waits(o) == o[1] \in {"take", "touch", "mark", "clear"}

Frees(o, l) == o[1] = "give" /\ o[2] = l

\* The operations on the locks M.
Plain(M) == {"take", "give", "touch", "mark", "clear"} \X M

\* In s what is taken is given back, and until then only locks are waited for that
\* the one that is held is below.
Nested(below, O) ==
    { s \in Seq(O) :
        \A i \in DOMAIN s : s[i][1] = "take" =>
            /\ \E j \in DOMAIN s : i < j /\ Frees(s[j], s[i][2])
            /\ \A k \in DOMAIN s :
                  \/ k <= i
                  \/ ~Waits(s[k])
                  \/ <<s[i][2], s[k][2]>> \in below
                  \/ \E j \in DOMAIN s : i < j /\ j < k /\ Frees(s[j], s[i][2]) }

-----------------------------------------------------------------------------
(* Sequences of lock operations.                                           *)

\* What a concatenation is made of.
LEMMA ConcatShape ==
    ASSUME NEW O, NEW a \in Seq(O), NEW b \in Seq(O)
    PROVE  /\ a \o b \in Seq(O)
           /\ Len(a) \in Nat /\ Len(b) \in Nat
           /\ DOMAIN a = 1 .. Len(a) /\ DOMAIN b = 1 .. Len(b)
           /\ DOMAIN (a \o b) = 1 .. Len(a) + Len(b)
           /\ \A i \in DOMAIN a : (a \o b)[i] = a[i]
           /\ \A i \in DOMAIN b : (a \o b)[Len(a) + i] = b[i]
           /\ \A i \in DOMAIN (a \o b) :
                 i \in DOMAIN a \/ i - Len(a) \in DOMAIN b
<1>1. /\ a \o b \in Seq(O) /\ Len(a \o b) = Len(a) + Len(b)
      /\ \A i \in 1 .. Len(a) + Len(b) :
            (a \o b)[i] = IF i <= Len(a) THEN a[i] ELSE b[i - Len(a)]
  BY ConcatProperties
<1>2. /\ Len(a) \in Nat /\ Len(b) \in Nat
      /\ DOMAIN a = 1 .. Len(a) /\ DOMAIN b = 1 .. Len(b)
      /\ DOMAIN (a \o b) = 1 .. Len(a \o b)
  BY <1>1, LenProperties
<1>3. \A i \in DOMAIN a : (a \o b)[i] = a[i]
  BY <1>1, <1>2
<1>4. \A i \in DOMAIN b : (a \o b)[Len(a) + i] = b[i]
  <2> SUFFICES ASSUME NEW i \in DOMAIN b PROVE (a \o b)[Len(a) + i] = b[i]
    OBVIOUS
  <2>1. /\ Len(a) + i \in 1 .. Len(a) + Len(b) /\ ~(Len(a) + i <= Len(a))
        /\ Len(a) + i - Len(a) = i
    BY <1>2
  <2> QED
    BY <1>1, <2>1
<1> QED
  BY <1>1, <1>2, <1>3, <1>4

\* The rest of a sequence.
LEMMA TailShape ==
    ASSUME NEW O, NEW s \in Seq(O), s # <<>>
    PROVE  /\ Head(s) \in O /\ Tail(s) \in Seq(O) /\ Head(s) = s[1] /\ 1 \in DOMAIN s
           /\ DOMAIN s \subseteq Nat \ {0}
           /\ \A i \in DOMAIN s : i = 1 \/ i - 1 \in DOMAIN Tail(s)
           /\ \A i \in DOMAIN Tail(s) :
                 i \in Nat \ {0} /\ i + 1 \in DOMAIN s /\ Tail(s)[i] = s[i + 1]
<1>1. /\ Head(s) \in O /\ Tail(s) \in Seq(O) /\ Len(Tail(s)) = Len(s) - 1
      /\ \A i \in 1 .. Len(Tail(s)) : Tail(s)[i] = s[i + 1]
  BY HeadTailProperties
<1>2. /\ Len(s) \in Nat \ {0} /\ DOMAIN s = 1 .. Len(s)
      /\ DOMAIN Tail(s) = 1 .. Len(Tail(s))
  BY <1>1, LenProperties, EmptySeq
<1>3. Head(s) = s[1]
  OBVIOUS
<1> QED
  BY <1>1, <1>2, <1>3

\* One nested sequence after another is nested.
LEMMA ConcatNested ==
    ASSUME NEW below, NEW O, NEW a \in Nested(below, O), NEW b \in Nested(below, O)
    PROVE  a \o b \in Nested(below, O)
<1> DEFINE s == a \o b
<1>0. a \in Seq(O) /\ b \in Seq(O)
  BY DEF Nested
<1>1. /\ s \in Seq(O)
      /\ Len(a) \in Nat /\ Len(b) \in Nat
      /\ DOMAIN a = 1 .. Len(a) /\ DOMAIN b = 1 .. Len(b)
      /\ DOMAIN s = 1 .. Len(a) + Len(b)
      /\ \A i \in DOMAIN a : s[i] = a[i]
      /\ \A i \in DOMAIN b : s[Len(a) + i] = b[i]
      /\ \A i \in DOMAIN s : i \in DOMAIN a \/ i - Len(a) \in DOMAIN b
  BY <1>0, ConcatShape
<1> HIDE DEF s
<1> SUFFICES ASSUME NEW i \in DOMAIN s, s[i][1] = "take"
             PROVE  /\ \E j \in DOMAIN s : i < j /\ Frees(s[j], s[i][2])
                    /\ \A k \in DOMAIN s :
                          \/ k <= i
                          \/ ~Waits(s[k])
                          \/ <<s[i][2], s[k][2]>> \in below
                          \/ \E j \in DOMAIN s : i < j /\ j < k /\ Frees(s[j], s[i][2])
  BY <1>1 DEF Nested, s
<1>2. CASE i \in DOMAIN a
  <2>1. /\ \E j \in DOMAIN a : i < j /\ Frees(a[j], a[i][2])
        /\ \A k \in DOMAIN a :
              \/ k <= i
              \/ ~Waits(a[k])
              \/ <<a[i][2], a[k][2]>> \in below
              \/ \E j \in DOMAIN a : i < j /\ j < k /\ Frees(a[j], a[i][2])
    BY <1>1, <1>2 DEF Nested
  <2>2. PICK j \in DOMAIN a : i < j /\ Frees(a[j], a[i][2])
    BY <2>1
  <2>3. j \in DOMAIN s /\ Frees(s[j], s[i][2])
    BY <1>1, <1>2, <2>2
  <2>4. ASSUME NEW k \in DOMAIN s
        PROVE  \/ k <= i
               \/ ~Waits(s[k])
               \/ <<s[i][2], s[k][2]>> \in below
               \/ \E h \in DOMAIN s : i < h /\ h < k /\ Frees(s[h], s[i][2])
    <3>1. CASE k \in DOMAIN a
      <4>1. \A h \in DOMAIN a : h \in DOMAIN s /\ s[h] = a[h]
        BY <1>1
      <4> QED
        BY <1>2, <2>1, <3>1, <4>1
    <3>2. CASE k \notin DOMAIN a
      BY <1>1, <2>2, <2>3, <3>2
    <3> QED
      BY <3>1, <3>2
  <2> QED
    BY <2>2, <2>3, <2>4
<1>3. CASE i \notin DOMAIN a
  <2> DEFINE n == Len(a)
  <2>1. n \in Nat /\ i - n \in DOMAIN b /\ s[i] = b[i - n]
    <3>1. i - Len(a) \in DOMAIN b /\ Len(a) + (i - Len(a)) = i
      BY <1>1, <1>3
    <3> QED
      BY <1>1, <3>1
  <2>2. \A h \in DOMAIN b : h \in Int /\ n + h \in DOMAIN s /\ s[n + h] = b[h]
    BY <1>1
  <2>3. /\ \E j \in DOMAIN b : i - n < j /\ Frees(b[j], b[i - n][2])
        /\ \A k \in DOMAIN b :
              \/ k <= i - n
              \/ ~Waits(b[k])
              \/ <<b[i - n][2], b[k][2]>> \in below
              \/ \E j \in DOMAIN b : i - n < j /\ j < k /\ Frees(b[j], b[i - n][2])
    BY <2>1 DEF Nested
  <2>4. PICK j \in DOMAIN b : i - n < j /\ Frees(b[j], b[i - n][2])
    BY <2>3
  <2>5. n + j \in DOMAIN s /\ i < n + j /\ Frees(s[n + j], s[i][2])
    BY <1>1, <2>1, <2>2, <2>4
  <2>6. ASSUME NEW k \in DOMAIN s
        PROVE  \/ k <= i
               \/ ~Waits(s[k])
               \/ <<s[i][2], s[k][2]>> \in below
               \/ \E h \in DOMAIN s : i < h /\ h < k /\ Frees(s[h], s[i][2])
    <3>1. CASE k <= i
      BY <3>1
    <3>2. CASE ~(k <= i)
      <4>1. k - n \in DOMAIN b /\ n + (k - n) = k /\ k \in Int /\ i \in Int
        BY <1>1, <1>3, <3>2
      <4>2. s[k] = b[k - n] /\ ~(k - n <= i - n)
        BY <2>1, <2>2, <3>2, <4>1
      <4>3. CASE \E h \in DOMAIN b : i - n < h /\ h < k - n /\ Frees(b[h], b[i - n][2])
        <5>1. PICK h \in DOMAIN b : i - n < h /\ h < k - n /\ Frees(b[h], b[i - n][2])
          BY <4>3
        <5>2. n + h \in DOMAIN s /\ i < n + h /\ n + h < k /\ Frees(s[n + h], s[i][2])
          BY <2>1, <2>2, <4>1, <5>1
        <5> QED
          BY <5>2
      <4> QED
        BY <2>1, <2>3, <4>1, <4>2, <4>3
    <3> QED
      BY <3>1, <3>2
  <2> QED
    BY <2>5, <2>6
<1> QED
  BY <1>2, <1>3

\* What is left of a nested sequence is nested.
LEMMA TailNested ==
    ASSUME NEW below, NEW O, NEW s \in Nested(below, O), s # <<>>
    PROVE  Tail(s) \in Nested(below, O)
<1> DEFINE t == Tail(s)
<1>0. s \in Seq(O)
  BY DEF Nested
<1>1. /\ t \in Seq(O)
      /\ DOMAIN s \subseteq Nat \ {0}
      /\ \A i \in DOMAIN s : i = 1 \/ i - 1 \in DOMAIN t
      /\ \A i \in DOMAIN t : i \in Nat \ {0} /\ i + 1 \in DOMAIN s /\ t[i] = s[i + 1]
  BY <1>0, TailShape
<1> HIDE DEF t
<1> SUFFICES ASSUME NEW i \in DOMAIN t, t[i][1] = "take"
             PROVE  /\ \E j \in DOMAIN t : i < j /\ Frees(t[j], t[i][2])
                    /\ \A k \in DOMAIN t :
                          \/ k <= i
                          \/ ~Waits(t[k])
                          \/ <<t[i][2], t[k][2]>> \in below
                          \/ \E j \in DOMAIN t : i < j /\ j < k /\ Frees(t[j], t[i][2])
  BY <1>1 DEF Nested, t
<1>2. i + 1 \in DOMAIN s /\ s[i + 1] = t[i] /\ i \in Nat \ {0}
  BY <1>1
<1>3. /\ \E j \in DOMAIN s : i + 1 < j /\ Frees(s[j], s[i + 1][2])
      /\ \A k \in DOMAIN s :
            \/ k <= i + 1
            \/ ~Waits(s[k])
            \/ <<s[i + 1][2], s[k][2]>> \in below
            \/ \E j \in DOMAIN s : i + 1 < j /\ j < k /\ Frees(s[j], s[i + 1][2])
  BY <1>2 DEF Nested
<1>4. \A j \in DOMAIN s : i + 1 < j => /\ j - 1 \in DOMAIN t /\ i < j - 1
                                       /\ t[j - 1] = s[j]
  <2> SUFFICES ASSUME NEW j \in DOMAIN s, i + 1 < j
               PROVE  j - 1 \in DOMAIN t /\ i < j - 1 /\ t[j - 1] = s[j]
    OBVIOUS
  <2>1. j \in Nat /\ j - 1 \in DOMAIN t /\ (j - 1) + 1 = j
    BY <1>1, <1>2
  <2> QED
    BY <1>1, <1>2, <2>1
<1>5. \E j \in DOMAIN t : i < j /\ Frees(t[j], t[i][2])
  BY <1>2, <1>3, <1>4
<1>6. ASSUME NEW k \in DOMAIN t
      PROVE  \/ k <= i
             \/ ~Waits(t[k])
             \/ <<t[i][2], t[k][2]>> \in below
             \/ \E j \in DOMAIN t : i < j /\ j < k /\ Frees(t[j], t[i][2])
  <2>1. k + 1 \in DOMAIN s /\ s[k + 1] = t[k] /\ k \in Nat
    BY <1>1
  <2>2. CASE \E j \in DOMAIN s : i + 1 < j /\ j < k + 1 /\ Frees(s[j], s[i + 1][2])
    <3>1. PICK j \in DOMAIN s : i + 1 < j /\ j < k + 1 /\ Frees(s[j], s[i + 1][2])
      BY <2>2
    <3>2. j - 1 \in DOMAIN t /\ i < j - 1 /\ j - 1 < k /\ Frees(t[j - 1], t[i][2])
      BY <1>1, <1>2, <1>4, <2>1, <3>1
    <3> QED
      BY <3>2
  <2> QED
    BY <1>2, <1>3, <2>1, <2>2
<1> QED
  BY <1>5, <1>6

\* A sequence of one operation that takes nothing.
LEMMA OneNested ==
    ASSUME NEW below, NEW O, NEW o \in O, o[1] # "take"
    PROVE  <<o>> \in Nested(below, O)
<1>1. <<o>> \in Seq(O) /\ DOMAIN <<o>> = {1} /\ <<o>>[1] = o
  OBVIOUS
<1> QED
  BY <1>1 DEF Nested

\* A lock may be taken before a nested sequence that gives it back, if it is above
\* all that the sequence waits for.
LEMMA TakeNested ==
    ASSUME NEW below, NEW O, NEW b \in Nested(below, O), NEW l, <<"take", l>> \in O,
           NEW n \in DOMAIN b, Frees(b[n], l),
           \A k \in DOMAIN b : ~Waits(b[k]) \/ <<l, b[k][2]>> \in below
    PROVE  << <<"take", l>> >> \o b \in Nested(below, O)
<1> DEFINE a == << <<"take", l>> >>
           s == a \o b
<1>0. a \in Seq(O) /\ b \in Seq(O) /\ Len(a) = 1 /\ a[1][1] = "take" /\ a[1][2] = l
  BY DEF Nested
<1>1. /\ s \in Seq(O)
      /\ Len(b) \in Nat /\ DOMAIN b = 1 .. Len(b) /\ DOMAIN a = 1 .. 1
      /\ DOMAIN s = 1 .. 1 + Len(b)
      /\ s[1] = a[1]
      /\ \A i \in DOMAIN b : s[1 + i] = b[i]
  BY <1>0, ConcatShape
<1> HIDE DEF a, s
<1>2. \A i \in DOMAIN b : i \in Nat \ {0} /\ 1 + i \in DOMAIN s /\ s[1 + i] = b[i]
  BY <1>1
<1>3. \A i \in DOMAIN s : i = 1 \/ (i - 1 \in DOMAIN b /\ s[i] = b[i - 1])
  <2> SUFFICES ASSUME NEW i \in DOMAIN s, i # 1
               PROVE  i - 1 \in DOMAIN b /\ s[i] = b[i - 1]
    OBVIOUS
  <2>1. i - 1 \in DOMAIN b /\ 1 + (i - 1) = i
    BY <1>1
  <2> QED
    BY <1>2, <2>1
<1> SUFFICES ASSUME NEW i \in DOMAIN s, s[i][1] = "take"
             PROVE  /\ \E j \in DOMAIN s : i < j /\ Frees(s[j], s[i][2])
                    /\ \A k \in DOMAIN s :
                          \/ k <= i
                          \/ ~Waits(s[k])
                          \/ <<s[i][2], s[k][2]>> \in below
                          \/ \E j \in DOMAIN s : i < j /\ j < k /\ Frees(s[j], s[i][2])
  BY <1>1 DEF Nested, s, a
<1>4. CASE i = 1
  <2>1. s[i][2] = l
    BY <1>0, <1>1, <1>4
  <2>2. 1 + n \in DOMAIN s /\ i < 1 + n /\ Frees(s[1 + n], l)
    BY <1>2, <1>4
  <2>3. \A k \in DOMAIN s : \/ k <= i
                            \/ ~Waits(s[k])
                            \/ <<l, s[k][2]>> \in below
    BY <1>1, <1>3, <1>4
  <2> QED
    BY <2>1, <2>2, <2>3
<1>5. CASE i # 1
  <2>1. i - 1 \in DOMAIN b /\ s[i] = b[i - 1] /\ i \in Nat
    BY <1>1, <1>3, <1>5
  <2>2. /\ \E j \in DOMAIN b : i - 1 < j /\ Frees(b[j], b[i - 1][2])
        /\ \A k \in DOMAIN b :
              \/ k <= i - 1
              \/ ~Waits(b[k])
              \/ <<b[i - 1][2], b[k][2]>> \in below
              \/ \E j \in DOMAIN b : i - 1 < j /\ j < k /\ Frees(b[j], b[i - 1][2])
    BY <2>1 DEF Nested
  <2>3. \E j \in DOMAIN s : i < j /\ Frees(s[j], s[i][2])
    <3>1. PICK j \in DOMAIN b : i - 1 < j /\ Frees(b[j], b[i - 1][2])
      BY <2>2
    <3>2. 1 + j \in DOMAIN s /\ i < 1 + j /\ Frees(s[1 + j], s[i][2])
      BY <1>2, <2>1, <3>1
    <3> QED
      BY <3>2
  <2>4. ASSUME NEW k \in DOMAIN s, ~(k <= i)
        PROVE  \/ ~Waits(s[k])
               \/ <<s[i][2], s[k][2]>> \in below
               \/ \E j \in DOMAIN s : i < j /\ j < k /\ Frees(s[j], s[i][2])
    <3>1. k \in Nat /\ k - 1 \in DOMAIN b /\ s[k] = b[k - 1] /\ ~(k - 1 <= i - 1)
      BY <1>1, <1>3, <2>1, <2>4
    <3>2. CASE \E j \in DOMAIN b : i - 1 < j /\ j < k - 1 /\ Frees(b[j], b[i - 1][2])
      <4>1. PICK j \in DOMAIN b : i - 1 < j /\ j < k - 1 /\ Frees(b[j], b[i - 1][2])
        BY <3>2
      <4>2. 1 + j \in DOMAIN s /\ i < 1 + j /\ 1 + j < k /\ Frees(s[1 + j], s[i][2])
        BY <1>2, <2>1, <3>1, <4>1
      <4> QED
        BY <4>2
    <3> QED
      BY <2>1, <2>2, <3>1, <3>2
  <2> QED
    BY <2>3, <2>4
<1> QED
  BY <1>4, <1>5

-----------------------------------------------------------------------------
(* The ways through functions.                                             *)

\* One function after another.
LEMMA ThenShape ==
    ASSUME NEW A, NEW B, NEW s \in Then(A, B)
    PROVE  \E a \in A, b \in B : s = a \o b
  BY DEF Then

LEMMA ThenNested ==
    ASSUME NEW below, NEW O, NEW A \in SUBSET Nested(below, O),
           NEW B \in SUBSET Nested(below, O)
    PROVE  Then(A, B) \subseteq Nested(below, O)
<1> SUFFICES ASSUME NEW s \in Then(A, B) PROVE s \in Nested(below, O)
  OBVIOUS
<1> PICK a \in A, b \in B : s = a \o b
  BY ThenShape
<1> QED
  BY ConcatNested

LEMMA Then3Nested ==
    ASSUME NEW below, NEW O, NEW A \in SUBSET Nested(below, O),
           NEW B \in SUBSET Nested(below, O), NEW C \in SUBSET Nested(below, O)
    PROVE  Then3(A, B, C) \subseteq Nested(below, O)
  BY ThenNested DEF Then3

\* A critical section, and nothing at all.
LEMMA TouchNested ==
    ASSUME NEW below, NEW O, NEW l, <<"touch", l>> \in O
    PROVE  Touch(l) \subseteq Nested(below, O)
  BY OneNested DEF Touch

LEMMA NothingNested ==
    ASSUME NEW below, NEW O
    PROVE  Nothing \subseteq Nested(below, O)
<1>1. <<>> \in Seq(O) /\ DOMAIN <<>> = {}
  OBVIOUS
<1> QED
  BY <1>1 DEF Nothing, Nested

\* What uses fewer locks.
LEMMA FewerNested ==
    ASSUME NEW below, NEW O, NEW P \in SUBSET O
    PROVE  Nested(below, P) \subseteq Nested(below, O)
  BY SeqMonotonic DEF Nested

\* A guard that lives while A runs, whose locks are below the one it holds.
LEMMA HoldingNested ==
    ASSUME NEW below, NEW O, NEW P \in SUBSET O, NEW A \in SUBSET Nested(below, P),
           NEW l, <<"take", l>> \in O, <<"give", l>> \in O,
           \A o \in P : ~Waits(o) \/ <<l, o[2]>> \in below
    PROVE  Holding(l, A) \subseteq Nested(below, O)
<1> DEFINE g == << <<"give", l>> >>
<1> SUFFICES ASSUME NEW s \in Holding(l, A) PROVE s \in Nested(below, O)
  OBVIOUS
<1>a. PICK t \in Take(l), u \in Then(A, Give(l)) : s = t \o u
  BY ThenShape DEF Holding, Then3
<1>b. PICK a \in A, h \in Give(l) : u = a \o h
  BY ThenShape
<1>0. s = << <<"take", l>> >> \o (a \o g)
  BY <1>a, <1>b DEF Take, Give
<1>1. g \in Nested(below, O) /\ a \in Nested(below, O)
  BY OneNested, FewerNested
<1>2. a \o g \in Nested(below, O)
  BY <1>1, ConcatNested
<1>3. a \in Seq(O) /\ g \in Seq(O) /\ a \in Seq(P) /\ Len(g) = 1 /\ g[1] = <<"give", l>>
  BY <1>1 DEF Nested
<1>4. /\ Len(a) \in Nat /\ DOMAIN a = 1 .. Len(a) /\ DOMAIN (a \o g) = 1 .. Len(a) + 1
      /\ \A i \in DOMAIN a : (a \o g)[i] = a[i] /\ a[i] \in P
      /\ (a \o g)[Len(a) + 1] = <<"give", l>>
  <2>1. DOMAIN g = 1 .. 1
    BY <1>3, LenProperties
  <2>2. /\ Len(a) \in Nat /\ DOMAIN a = 1 .. Len(a) /\ DOMAIN (a \o g) = 1 .. Len(a) + 1
        /\ \A i \in DOMAIN a : (a \o g)[i] = a[i]
        /\ (a \o g)[Len(a) + 1] = g[1]
    BY <1>3, <2>1, ConcatShape
  <2> QED
    BY <1>3, <2>2, ElementOfSeq
<1> HIDE DEF g
<1>5. Len(a) + 1 \in DOMAIN (a \o g) /\ Frees((a \o g)[Len(a) + 1], l)
  BY <1>4 DEF Frees
<1>6. ASSUME NEW k \in DOMAIN (a \o g)
      PROVE  ~Waits((a \o g)[k]) \/ <<l, (a \o g)[k][2]>> \in below
  <2>1. CASE k \in DOMAIN a
    BY <1>4, <2>1
  <2>2. CASE k = Len(a) + 1
    BY <1>4, <2>2 DEF Waits
  <2> QED
    BY <1>4, <2>1, <2>2
<1> QED
  BY <1>0, <1>2, <1>5, <1>6, TakeNested

\* send_to, and the two ways it can go.
LEMMA SendNested ==
    ASSUME NEW below, NEW O, Plain(Sending) \subseteq O
    PROVE  /\ SendTo \subseteq Nested(below, O)
           /\ SendFails \subseteq Nested(below, O)
           /\ SendSucceeds \subseteq Nested(below, O)
<1>1. /\ <<"touch", "membership">> \in O
      /\ <<"mark", "failure">> \in O
      /\ <<"clear", "failure">> \in O
  BY DEF Plain, Sending
<1>2. /\ Touch("membership") \subseteq Nested(below, O)
      /\ Marked \subseteq Nested(below, O)
      /\ Cleared \subseteq Nested(below, O)
  BY <1>1, OneNested, TouchNested DEF Marked, Cleared
<1>3. SendFails \subseteq Nested(below, O)
  BY <1>2, ThenNested DEF SendFails
<1>4. SendSucceeds \subseteq Nested(below, O)
  BY <1>2, Then3Nested DEF SendSucceeds
<1> QED
  BY <1>3, <1>4 DEF SendTo

\* A peer's locks, each in a section of its own.
LEMMA TouchesNested ==
    ASSUME NEW below, NEW l \in Lock
    PROVE  Touch(l) \subseteq Nested(below, Plain(Lock))
<1>1. <<"touch", l>> \in Plain(Lock)
  BY DEF Plain
<1> QED
  BY <1>1, TouchNested

\* send_to in a function that holds no lock.
LEMMA FreeSendNested ==
    ASSUME NEW below
    PROVE  /\ SendTo \subseteq Nested(below, Plain(Lock))
           /\ SendFails \subseteq Nested(below, Plain(Lock))
           /\ SendSucceeds \subseteq Nested(below, Plain(Lock))
           /\ SendGossip \subseteq Nested(below, Plain(Lock))
           /\ SendGossipTo \subseteq Nested(below, Plain(Lock))
<1>1. Plain(Sending) \subseteq Plain(Lock) /\ "membership" \in Lock
  BY DEF Plain, Sending, Lock
<1>2. /\ SendTo \subseteq Nested(below, Plain(Lock))
      /\ SendFails \subseteq Nested(below, Plain(Lock))
      /\ SendSucceeds \subseteq Nested(below, Plain(Lock))
  BY <1>1, SendNested
<1>3. /\ Touch("membership") \subseteq Nested(below, Plain(Lock))
      /\ SendTo \cup Nothing \subseteq Nested(below, Plain(Lock))
  BY <1>1, <1>2, TouchesNested, NothingNested
<1>4. /\ SendGossip \subseteq Nested(below, Plain(Lock))
      /\ SendGossipTo \subseteq Nested(below, Plain(Lock))
  BY <1>2, <1>3, Then3Nested DEF SendGossip, SendGossipTo
<1> QED
  BY <1>2, <1>4

\* A guard on l around what uses the locks M, which are all above it.
LEMMA GuardNested ==
    ASSUME NEW below, NEW K \in SUBSET Lock, NEW M \in SUBSET K, NEW l \in K,
           NEW A \in SUBSET Nested(below, Plain(M)), \A m \in M : <<l, m>> \in below
    PROVE  Holding(l, A) \subseteq Nested(below, Plain(K))
<1>1. /\ Plain(M) \in SUBSET Plain(K)
      /\ <<"take", l>> \in Plain(K) /\ <<"give", l>> \in Plain(K)
      /\ \A o \in Plain(M) : o[2] \in M
  BY DEF Plain
<1>2. \A o \in Plain(M) : ~Waits(o) \/ <<l, o[2]>> \in below
  BY <1>1
<1> QED
  BY <1>1, <1>2, HoldingNested

\* leave: the ring, in it the storage, in it send_to.
LEMMA LeaveNested ==
    ASSUME NEW below,
           \A m \in Sending \cup {"storage"} : <<"hashring", m>> \in below,
           \A m \in Sending : <<"storage", m>> \in below
    PROVE  HandleLeave \subseteq Nested(below, Plain(Lock))
<1> DEFINE M == Sending \cup {"storage"}
<1>1. /\ M \in SUBSET Lock /\ Sending \in SUBSET M /\ "storage" \in M
      /\ "hashring" \in Lock
  BY DEF Sending, Lock
<1>2. SendTo \cup Nothing \subseteq Nested(below, Plain(Sending))
  BY SendNested, NothingNested
<1>3. Holding("storage", SendTo \cup Nothing) \subseteq Nested(below, Plain(M))
  BY <1>1, <1>2, GuardNested
<1>4. \A m \in M : <<"hashring", m>> \in below
  OBVIOUS
<1> HIDE DEF M
<1> QED
  BY <1>1, <1>3, <1>4, GuardNested DEF HandleLeave

\* What handle_gossip locks while it holds the membership table.
UnderTable == {"hashring", "storage"} \cup Sending

LEMMA GossipNested ==
    ASSUME NEW below, \A m \in UnderTable : <<"membership", m>> \in below
    PROVE  HandleGossip \subseteq Nested(below, Plain(Lock))
<1> DEFINE N == Nested(below, Plain(UnderTable))
           sent == SendTo \cup Nothing
           handOver == Then3(Touch("hashring"), Touch("storage"), sent)
<1>1. /\ UnderTable \in SUBSET Lock /\ "membership" \in Lock /\ "hashring" \in Lock
      /\ <<"touch", "hashring">> \in Plain(UnderTable)
      /\ <<"touch", "storage">> \in Plain(UnderTable)
      /\ Plain(Sending) \subseteq Plain(UnderTable)
  BY DEF UnderTable, Sending, Lock, Plain
<1>2. Touch("hashring") \subseteq N /\ Touch("storage") \subseteq N /\ Nothing \subseteq N
  BY <1>1, TouchNested, NothingNested
<1>3. sent \subseteq N
  BY <1>1, <1>2, SendNested
<1>4. handOver \subseteq N
  BY <1>2, <1>3, Then3Nested
<1>5. Then(Touch("hashring"), Nothing \cup handOver) \subseteq N
  <2>1. Nothing \cup handOver \subseteq N
    BY <1>2, <1>4
  <2> QED
    BY <1>2, <2>1, ThenNested
<1>6. Holding("membership", Then(Touch("hashring"), Nothing \cup handOver))
          \subseteq Nested(below, Plain(Lock))
  BY <1>1, <1>5, GuardNested
<1>7. Touch("hashring") \subseteq Nested(below, Plain(Lock))
  BY <1>1, TouchesNested
<1> HIDE DEF N
<1> QED
  BY <1>6, <1>7, ThenNested DEF HandleGossip

\* The handlers that never wait for a lock while they hold one.
LEMMA HandlersNested ==
    ASSUME NEW below
    PROVE  /\ HandleHello \subseteq Nested(below, Plain(Lock))
           /\ HandleReplicateList \subseteq Nested(below, Plain(Lock))
           /\ HandleAck \subseteq Nested(below, Plain(Lock))
           /\ HandleHandoff \subseteq Nested(below, Plain(Lock))
           /\ HandleMergeList \subseteq Nested(below, Plain(Lock))
           /\ HintedHandoff \subseteq Nested(below, Plain(Lock))
<1> DEFINE N == Nested(below, Plain(Lock))
<1>1. Touch("membership") \subseteq N /\ Touch("storage") \subseteq N
      /\ Touch("in_flight") \subseteq N /\ Nothing \subseteq N
  BY TouchesNested, NothingNested DEF Lock
<1>2. /\ SendTo \subseteq N /\ SendFails \subseteq N /\ SendSucceeds \subseteq N
      /\ SendGossip \subseteq N /\ SendGossipTo \subseteq N
  BY FreeSendNested
<1>3. HandleHello \subseteq N
  BY <1>1, <1>2, Then3Nested DEF HandleHello
<1>4. HandleReplicateList \subseteq N /\ HandleHandoff \subseteq N
  <2>1. Nothing \cup SendTo \subseteq N
    BY <1>1, <1>2
  <2> QED
    BY <1>1, <1>2, <2>1, ThenNested DEF HandleReplicateList, HandleHandoff
<1>5. HintedHandoff \subseteq N
  <2>1. Then(SendSucceeds, Touch("storage")) \subseteq N
    BY <1>1, <1>2, ThenNested
  <2>2. Nothing \cup Then(SendSucceeds, Touch("storage")) \cup SendFails \subseteq N
    BY <1>1, <1>2, <2>1
  <2> QED
    BY <1>1, <2>2, ThenNested DEF HintedHandoff
<1> QED
  BY <1>1, <1>3, <1>4, <1>5 DEF HandleAck, HandleMergeList

\* listen_proxy: the storage is locked while the answer goes to the proxy.
LEMMA ListenProxyNested ==
    ASSUME NEW below, <<"storage", "proxy_dealer">> \in below
    PROVE  ListenProxy \subseteq Nested(below, Plain(Lock))
<1> DEFINE N == Nested(below, Plain(Lock))
<1>1. /\ Touch("membership") \subseteq N /\ Touch("storage") \subseteq N
      /\ Touch("in_flight") \subseteq N /\ Touch("hashring") \subseteq N
      /\ Touch("proxy_dealer") \subseteq N /\ Touch("failure") \subseteq N
      /\ Nothing \subseteq N
  BY TouchesNested, NothingNested DEF Lock
<1>2. SendTo \subseteq N /\ SendFails \subseteq N /\ SendSucceeds \subseteq N
  BY FreeSendNested
<1>3. Holding("storage", Touch("proxy_dealer")) \subseteq N
  <2>1. /\ {"proxy_dealer"} \in SUBSET Lock /\ "storage" \in Lock
        /\ <<"touch", "proxy_dealer">> \in Plain({"proxy_dealer"})
    BY DEF Lock, Plain
  <2>2. Touch("proxy_dealer") \subseteq Nested(below, Plain({"proxy_dealer"}))
    BY <2>1, TouchNested
  <2>3. \A m \in {"proxy_dealer"} : <<"storage", m>> \in below
    OBVIOUS
  <2> QED
    BY <2>1, <2>2, <2>3, GuardNested
<1> HIDE DEF N
<1>4. SendReplicate \subseteq N /\ SendReadReplicate \subseteq N
  <2>t. /\ \A A, B \in SUBSET N : Then(A, B) \subseteq N
        /\ \A A, B, C \in SUBSET N : Then3(A, B, C) \subseteq N
    BY ThenNested, Then3Nested DEF N
  <2>1. IsPeerAvailable \subseteq N
    BY <1>1, <2>t DEF IsPeerAvailable
  <2>2. GetNextAvailableNode \subseteq N
    BY <1>1, <2>1, <2>t DEF GetNextAvailableNode
  <2>3. SendTo \cup Nothing \subseteq N
    BY <1>1, <1>2
  <2>4. Then3(SendFails, GetNextAvailableNode, SendTo \cup Nothing) \subseteq N
    BY <1>2, <2>2, <2>3, <2>t
  <2>5. SendSucceeds \cup Then3(SendFails, GetNextAvailableNode, SendTo \cup Nothing)
            \subseteq N
    BY <1>2, <2>4
  <2>6. SendReplicate \subseteq N
    BY <1>1, <2>5, <2>t DEF SendReplicate
  <2>7. SendReadReplicate \subseteq N
    BY <1>1, <1>2, <2>t DEF SendReadReplicate
  <2> QED
    BY <2>6, <2>7
<1>5. HandleIncomingPut \subseteq N
  <2> DEFINE stored == Holding("storage", Touch("proxy_dealer")) \cup Touch("proxy_dealer")
  <2>1. stored \subseteq N
    BY <1>1, <1>3
  <2>2. Then(SendReplicate, stored) \subseteq N
    BY <1>4, <2>1, ThenNested DEF N
  <2>3. Nothing \cup Then(SendReplicate, stored) \subseteq N
    BY <1>1, <2>2
  <2> QED
    BY <1>1, <2>3, ThenNested DEF HandleIncomingPut, N
<1>6. HandleGet \subseteq N
  <2> DEFINE stored == Then3(SendReadReplicate, Touch("storage") \cup Nothing,
                             Touch("proxy_dealer"))
  <2>1. Touch("storage") \cup Nothing \subseteq N
    BY <1>1
  <2>2. stored \subseteq N
    BY <1>1, <1>4, <2>1, Then3Nested DEF N
  <2>3. Nothing \cup stored \subseteq N
    BY <1>1, <2>2
  <2>4. Then(Touch("hashring"), Nothing \cup stored) \subseteq N
    BY <1>1, <2>3, ThenNested DEF N
  <2>5. HandleIncomingPut \cup Then(Touch("hashring"), Nothing \cup stored) \subseteq N
    BY <1>5, <2>4
  <2> QED
    BY <1>1, <2>5, ThenNested DEF HandleGet, N
<1>7. HandleIncomingPut \cup HandleGet \subseteq N
  BY <1>5, <1>6
<1> QED
  BY <1>1, <1>7, ThenNested DEF ListenProxy, N

-----------------------------------------------------------------------------
(* The order of the locks.                                                 *)

\* The order in which the mutexes are taken, but for sends: handle_gossip takes the
\* ring and the storage under the table, leave the storage under the ring, and
\* handle_incoming_put answers the proxy under the storage.
Rank(l) == IF l = "hashring" THEN 2
           ELSE IF l = "storage" THEN 3
           ELSE IF l = "proxy_dealer" THEN 4
           ELSE 1

\* The tasks that send while they hold a mutex.
Guarded == {"Leave", "Gossip", "failure_detection"}

\* The pairs of mutexes of which a task of kind k may wait for the second while it
\* holds the first.
Below(k) == { lm \in Lock \X Lock : \/ Rank(lm[1]) < Rank(lm[2])
                                    \/ k \in Guarded /\ lm[2] \in Sending }

\* The operations that a task has before it.
Ops(k) == Plain(Lock) \cup (IF k = "failure_detection" THEN {<<"ping", "failure">>} ELSE {})

\* Every way through a task keeps to the order.
LEMMA WaysNested ==
    ASSUME NEW k \in Kinds
    PROVE  Ways[k] \subseteq Nested(Below(k), Ops(k))
<1> DEFINE below == Below(k)
<1>1. /\ <<"storage", "proxy_dealer">> \in below
      /\ k = "Leave" =>
            /\ \A m \in Sending \cup {"storage"} : <<"hashring", m>> \in below
            /\ \A m \in Sending : <<"storage", m>> \in below
      /\ k = "Gossip" => \A m \in UnderTable : <<"membership", m>> \in below
  BY DEF Below, Guarded, Rank, Lock, Sending, UnderTable
<1> HIDE DEF below
<1>2. Nested(below, Plain(Lock)) \subseteq Nested(below, Ops(k))
  <2>1. Plain(Lock) \in SUBSET Ops(k)
    BY DEF Ops
  <2> QED
    BY <2>1, FewerNested
<1>3. k \in DOMAIN Ways
  BY KindsAssumption
<1>4. CASE k = "Leave"
  BY <1>1, <1>2, <1>4, LeaveNested DEF Ways, below
<1>5. CASE k = "Gossip"
  BY <1>1, <1>2, <1>5, GossipNested DEF Ways, below
<1>6. CASE k = "listen_proxy"
  BY <1>1, <1>2, <1>6, ListenProxyNested DEF Ways, below
<1>7. CASE k \in {"Hello", "ReplicateList", "Ack", "Handoff", "MergeList"}
  BY <1>2, <1>7, HandlersNested DEF Ways, below
<1>8. CASE k \in {"send_gossip", "hinted_handoff"}
  BY <1>2, <1>8, HandlersNested, FreeSendNested DEF Ways, below
<1>9. CASE k = "failure_detection"
  <2> DEFINE P == {<<"ping", "failure">>}
  <2>1. << <<"ping", "failure">> >> \in Nested(below, P)
    BY OneNested
  <2>2. {<< <<"ping", "failure">> >>} \in SUBSET Nested(below, P)
    BY <2>1
  <2>3. /\ P \in SUBSET Ops(k) /\ <<"take", "failure">> \in Ops(k)
        /\ <<"give", "failure">> \in Ops(k)
        /\ \A o \in P : ~Waits(o) \/ <<"failure", o[2]>> \in below
    BY <1>9 DEF Ops, Plain, Lock, Waits
  <2>4. Holding("failure", {<< <<"ping", "failure">> >>}) \subseteq Nested(below, Ops(k))
    BY <2>2, <2>3, HoldingNested
  <2> QED
    BY <1>9, <2>4 DEF Ways, FailureDetection, below
<1> QED
  BY <1>3, <1>4, <1>5, <1>6, <1>7, <1>8, <1>9 DEF Ways

-----------------------------------------------------------------------------
(* The invariant.                                                          *)

\* A lock is held by a task that will release it, and that until then waits only
\* for locks it may wait for.  A task that has not started has nothing to do.
Kept(l, t) ==
    /\ \E j \in DOMAIN todo[t] : Frees(todo[t][j], l)
    /\ \A k \in DOMAIN todo[t] :
          \/ ~Waits(todo[t][k])
          \/ <<l, todo[t][k][2]>> \in Below(kind[t])
          \/ \E j \in DOMAIN todo[t] : j < k /\ Frees(todo[t][j], l)

LocksInv ==
    /\ kind \in [Task -> Kinds \cup {"idle"}]
    /\ holder \in [Lock -> Task \cup {Nobody}]
    /\ failures \in BOOLEAN
    /\ DOMAIN todo = Task /\ todo = [t \in Task |-> todo[t]]
    /\ \A t \in Task : todo[t] \in Nested(Below(kind[t]), Ops(kind[t]))
    /\ \A t \in Task : kind[t] = "idle" => todo[t] = <<>>
    /\ \A t \in Task, l \in Lock : holder[l] = t => Kept(l, t)

\* What every step does to the task that takes it.
LEMMA AdvanceInv ==
    ASSUME LocksInv, NEW t \in Task, Running(t), Advance(t)
    PROVE  /\ DOMAIN todo' = Task /\ todo' = [u \in Task |-> todo'[u]]
           /\ \A u \in Task : todo'[u] \in Nested(Below(kind[u]), Ops(kind[u]))
           /\ \A u \in Task : u # t => todo'[u] = todo[u]
           /\ todo'[t] = Tail(todo[t])
<1>1. todo[t] \in Nested(Below(kind[t]), Ops(kind[t])) /\ todo[t] # <<>>
  BY DEF LocksInv, Running
<1>2. Tail(todo[t]) \in Nested(Below(kind[t]), Ops(kind[t]))
  BY <1>1, TailNested
<1> QED
  BY <1>2 DEF Advance, LocksInv

\* A lock that stays held across a step that does not give it back.
LEMMA StillKept ==
    ASSUME LocksInv, NEW t \in Task, Running(t), NEW l \in Lock, Kept(l, t),
           ~Frees(Head(todo[t]), l)
    PROVE  /\ \E j \in DOMAIN Tail(todo[t]) : Frees(Tail(todo[t])[j], l)
           /\ \A k \in DOMAIN Tail(todo[t]) :
                 \/ ~Waits(Tail(todo[t])[k])
                 \/ <<l, Tail(todo[t])[k][2]>> \in Below(kind[t])
                 \/ \E j \in DOMAIN Tail(todo[t]) : j < k /\ Frees(Tail(todo[t])[j], l)
<1> DEFINE s == todo[t]
           r == Tail(s)
<1>0. s \in Seq(Ops(kind[t])) /\ s # <<>>
  BY DEF LocksInv, Nested, Running
<1>1. /\ Head(s) = s[1] /\ DOMAIN s \subseteq Nat \ {0}
      /\ \A i \in DOMAIN s : i = 1 \/ i - 1 \in DOMAIN r
      /\ \A i \in DOMAIN r : i \in Nat \ {0} /\ i + 1 \in DOMAIN s /\ r[i] = s[i + 1]
  BY <1>0, TailShape
<1>2. /\ \E j \in DOMAIN s : Frees(s[j], l)
      /\ \A k \in DOMAIN s :
            \/ ~Waits(s[k])
            \/ <<l, s[k][2]>> \in Below(kind[t])
            \/ \E j \in DOMAIN s : j < k /\ Frees(s[j], l)
      /\ ~Frees(s[1], l)
  BY <1>1 DEF Kept
<1> HIDE DEF s, r
<1>3. \A j \in DOMAIN s : Frees(s[j], l) =>
          j \in Nat /\ j - 1 \in DOMAIN r /\ Frees(r[j - 1], l)
  <2> SUFFICES ASSUME NEW j \in DOMAIN s, Frees(s[j], l)
               PROVE  j \in Nat /\ j - 1 \in DOMAIN r /\ Frees(r[j - 1], l)
    OBVIOUS
  <2>1. j \in Nat /\ j - 1 \in DOMAIN r /\ (j - 1) + 1 = j
    BY <1>1, <1>2
  <2> QED
    BY <1>1, <2>1
<1>4. \E j \in DOMAIN r : Frees(r[j], l)
  BY <1>2, <1>3
<1>5. ASSUME NEW k \in DOMAIN r
      PROVE  \/ ~Waits(r[k])
             \/ <<l, r[k][2]>> \in Below(kind[t])
             \/ \E j \in DOMAIN r : j < k /\ Frees(r[j], l)
  <2>1. k \in Nat /\ k + 1 \in DOMAIN s /\ r[k] = s[k + 1]
    BY <1>1
  <2>2. CASE \E j \in DOMAIN s : j < k + 1 /\ Frees(s[j], l)
    <3>1. PICK j \in DOMAIN s : j < k + 1 /\ Frees(s[j], l)
      BY <2>2
    <3>2. j - 1 \in DOMAIN r /\ j - 1 < k /\ Frees(r[j - 1], l)
      BY <1>3, <2>1, <3>1
    <3> QED
      BY <3>2
  <2> QED
    BY <1>2, <2>1, <2>2
<1> QED
  BY <1>4, <1>5 DEF r, s

\* A lock that a task takes is kept from then on.
LEMMA TakenIsKept ==
    ASSUME LocksInv, NEW t \in Task, Running(t), NEW l \in Lock,
           Op(t) = "take", Mutex(t) = l
    PROVE  /\ \E j \in DOMAIN Tail(todo[t]) : Frees(Tail(todo[t])[j], l)
           /\ \A k \in DOMAIN Tail(todo[t]) :
                 \/ ~Waits(Tail(todo[t])[k])
                 \/ <<l, Tail(todo[t])[k][2]>> \in Below(kind[t])
                 \/ \E j \in DOMAIN Tail(todo[t]) : j < k /\ Frees(Tail(todo[t])[j], l)
<1> DEFINE s == todo[t]
           r == Tail(s)
<1>0. s \in Nested(Below(kind[t]), Ops(kind[t])) /\ s \in Seq(Ops(kind[t])) /\ s # <<>>
  BY DEF LocksInv, Nested, Running
<1>1. /\ Head(s) = s[1] /\ 1 \in DOMAIN s /\ DOMAIN s \subseteq Nat \ {0}
      /\ \A i \in DOMAIN s : i = 1 \/ i - 1 \in DOMAIN r
      /\ \A i \in DOMAIN r : i \in Nat \ {0} /\ i + 1 \in DOMAIN s /\ r[i] = s[i + 1]
  BY <1>0, TailShape
<1>2. s[1][1] = "take" /\ s[1][2] = l
  BY <1>1 DEF Op, Mutex
<1> HIDE DEF s, r
<1>3. /\ \E j \in DOMAIN s : 1 < j /\ Frees(s[j], l)
      /\ \A k \in DOMAIN s :
            \/ k <= 1
            \/ ~Waits(s[k])
            \/ <<l, s[k][2]>> \in Below(kind[t])
            \/ \E j \in DOMAIN s : 1 < j /\ j < k /\ Frees(s[j], l)
  <2>1. /\ \E j \in DOMAIN s : 1 < j /\ Frees(s[j], s[1][2])
        /\ \A k \in DOMAIN s :
              \/ k <= 1
              \/ ~Waits(s[k])
              \/ <<s[1][2], s[k][2]>> \in Below(kind[t])
              \/ \E j \in DOMAIN s : 1 < j /\ j < k /\ Frees(s[j], s[1][2])
    BY <1>0, <1>1, <1>2 DEF Nested
  <2> QED
    BY <1>2, <2>1
<1>4. \A j \in DOMAIN s : 1 < j /\ Frees(s[j], l) =>
          j \in Nat /\ j - 1 \in DOMAIN r /\ Frees(r[j - 1], l)
  <2> SUFFICES ASSUME NEW j \in DOMAIN s, 1 < j, Frees(s[j], l)
               PROVE  j \in Nat /\ j - 1 \in DOMAIN r /\ Frees(r[j - 1], l)
    OBVIOUS
  <2>1. j \in Nat /\ j - 1 \in DOMAIN r /\ (j - 1) + 1 = j
    BY <1>1
  <2> QED
    BY <1>1, <2>1
<1>5. \E j \in DOMAIN r : Frees(r[j], l)
  BY <1>3, <1>4
<1>6. ASSUME NEW k \in DOMAIN r
      PROVE  \/ ~Waits(r[k])
             \/ <<l, r[k][2]>> \in Below(kind[t])
             \/ \E j \in DOMAIN r : j < k /\ Frees(r[j], l)
  <2>1. k \in Nat \ {0} /\ k + 1 \in DOMAIN s /\ r[k] = s[k + 1]
    BY <1>1
  <2>2. CASE \E j \in DOMAIN s : 1 < j /\ j < k + 1 /\ Frees(s[j], l)
    <3>1. PICK j \in DOMAIN s : 1 < j /\ j < k + 1 /\ Frees(s[j], l)
      BY <2>2
    <3>2. j - 1 \in DOMAIN r /\ j - 1 < k /\ Frees(r[j - 1], l)
      BY <1>4, <2>1, <3>1
    <3> QED
      BY <3>2
  <2> QED
    BY <1>3, <2>1, <2>2
<1> QED
  BY <1>5, <1>6 DEF r, s

\* A task advances: it gives back, takes or only uses a lock.
LEMMA KeepsInv ==
    ASSUME LocksInv, NEW t \in Task, Running(t), Advance(t),
           kind' = kind, failures' \in BOOLEAN,
           holder' \in [Lock -> Task \cup {Nobody}],
           \A u \in Task, l \in Lock : holder'[l] = u =>
               \/ holder[l] = u /\ u # t
               \/ holder[l] = u /\ ~Frees(Head(todo[t]), l)
               \/ u = t /\ Op(t) = "take" /\ Mutex(t) = l
    PROVE  LocksInv'
<1>1. /\ DOMAIN todo' = Task /\ todo' = [u \in Task |-> todo'[u]]
      /\ \A u \in Task : todo'[u] \in Nested(Below(kind[u]), Ops(kind[u]))
      /\ \A u \in Task : u # t => todo'[u] = todo[u]
      /\ todo'[t] = Tail(todo[t])
  BY AdvanceInv
<1>2. kind[t] # "idle"
  BY DEF LocksInv, Running
<1>3. \A u \in Task : kind'[u] = "idle" => todo'[u] = <<>>
  BY <1>1, <1>2 DEF LocksInv
<1>5. ASSUME NEW u \in Task, NEW l \in Lock, holder'[l] = u
      PROVE  /\ \E j \in DOMAIN todo'[u] : Frees(todo'[u][j], l)
             /\ \A k \in DOMAIN todo'[u] :
                   \/ ~Waits(todo'[u][k])
                   \/ <<l, todo'[u][k][2]>> \in Below(kind[u])
                   \/ \E j \in DOMAIN todo'[u] : j < k /\ Frees(todo'[u][j], l)
  <2>1. CASE u # t
    BY <1>1, <1>5, <2>1 DEF LocksInv, Kept
  <2>2. CASE u = t /\ holder[l] = u /\ ~Frees(Head(todo[t]), l)
    <3>1. Kept(l, t)
      BY <2>2 DEF LocksInv
    <3>2. /\ \E j \in DOMAIN Tail(todo[t]) : Frees(Tail(todo[t])[j], l)
          /\ \A k \in DOMAIN Tail(todo[t]) :
                \/ ~Waits(Tail(todo[t])[k])
                \/ <<l, Tail(todo[t])[k][2]>> \in Below(kind[t])
                \/ \E j \in DOMAIN Tail(todo[t]) : j < k /\ Frees(Tail(todo[t])[j], l)
      BY <2>2, <3>1, StillKept
    <3> QED
      BY <1>1, <2>2, <3>2
  <2>3. CASE u = t /\ Op(t) = "take" /\ Mutex(t) = l
    BY <1>1, <2>3, TakenIsKept
  <2> QED
    BY <1>5, <2>1, <2>2, <2>3
<1>6. (\A u \in Task, l \in Lock : holder[l] = u => Kept(l, u))'
  BY <1>5 DEF Kept
<1> QED
  BY <1>1, <1>3, <1>6 DEF LocksInv

\* What a task does next concerns a lock.
LEMMA MutexType ==
    ASSUME LocksInv, NEW t \in Task, Running(t)
    PROVE  /\ Mutex(t) \in Lock /\ Head(todo[t]) \in Ops(kind[t])
           /\ todo[t] \in Seq(Ops(kind[t])) /\ todo[t] # <<>>
<1>1. todo[t] \in Seq(Ops(kind[t])) /\ todo[t] # <<>>
  BY DEF LocksInv, Nested, Running
<1>2. Head(todo[t]) \in Ops(kind[t])
  BY <1>1, TailShape
<1>3. \A o \in Ops(kind[t]) : o[2] \in Lock
  BY DEF Ops, Plain, Lock
<1> QED
  BY <1>1, <1>2, <1>3 DEF Mutex

LEMMA StartInv == ASSUME LocksInv, NEW t \in Task, Start(t) PROVE LocksInv'
<1>1. PICK k \in Kinds :
          /\ kind' = [kind EXCEPT ![t] = k]
          /\ \E way \in Ways[k] : todo' = [todo EXCEPT ![t] = way]
  BY DEF Start
<1>2. PICK way \in Ways[k] : todo' = [todo EXCEPT ![t] = way]
  BY <1>1
<1>3. way \in Nested(Below(k), Ops(k))
  BY <1>2, WaysNested
<1>4. k # "idle"
  BY KindsAssumption DEF Ways
<1>5. todo[t] = <<>> /\ UNCHANGED <<holder, failures>>
  BY DEF LocksInv, Start
<1>6. \A l \in Lock : holder[l] # t
  BY <1>5 DEF LocksInv, Kept
<1>7. /\ \A u \in Task : u # t => todo'[u] = todo[u] /\ kind'[u] = kind[u]
      /\ kind'[t] = k /\ todo'[t] = way
      /\ DOMAIN todo' = Task /\ todo' = [u \in Task |-> todo'[u]]
  BY <1>1, <1>2 DEF LocksInv
<1>8. (\A u \in Task, l \in Lock : holder[l] = u => Kept(l, u))'
  BY <1>5, <1>6, <1>7 DEF LocksInv, Kept
<1>9. \A u \in Task : todo'[u] \in Nested(Below(kind'[u]), Ops(kind'[u]))
  <2> SUFFICES ASSUME NEW u \in Task PROVE todo'[u] \in Nested(Below(kind'[u]), Ops(kind'[u]))
    OBVIOUS
  <2>1. CASE u = t
    BY <1>3, <1>7, <2>1
  <2>2. CASE u # t
    BY <1>7, <2>2 DEF LocksInv
  <2> QED
    BY <2>1, <2>2
<1>11. \A u \in Task : kind'[u] = "idle" => todo'[u] = <<>>
  BY <1>4, <1>7 DEF LocksInv
<1>12. kind' \in [Task -> Kinds \cup {"idle"}]
  BY <1>1 DEF LocksInv
<1> QED
  BY <1>5, <1>7, <1>8, <1>9, <1>11, <1>12 DEF LocksInv

\* failure_detection reads the failure table.
LEMMA PingInv == ASSUME LocksInv, NEW t \in Task, PingStep(t) PROVE LocksInv'
<1> DEFINE below == Below(kind[t])
           ops == Ops(kind[t])
           N == Nested(below, ops)
           s == todo[t]
           r == Tail(s)
<1>1. PICK way \in (IF failures THEN SendTo ELSE Nothing) :
          todo' = [todo EXCEPT ![t] = way \o r]
  BY DEF PingStep
<1>2. /\ Running(t) /\ Op(t) = "ping"
      /\ UNCHANGED <<kind, holder, failures>>
  BY DEF PingStep
<1>3. s \in N /\ s \in Seq(ops) /\ s # <<>> /\ Head(s) \in ops
  BY <1>2, MutexType DEF LocksInv
<1>4. r \in N /\ r \in Seq(ops)
  BY <1>3, TailNested DEF Nested
<1>5. kind[t] = "failure_detection"
  BY <1>2, <1>3 DEF Ops, Plain, Op
<1>6. \A l \in Lock, m \in Sending : <<l, m>> \in below
  BY <1>5 DEF Below, Guarded, Sending, Lock
<1>7. way \in Nested(below, Plain(Sending))
  BY <1>1, SendNested, NothingNested
<1>8. way \in N /\ way \in Seq(ops) /\ way \in Seq(Plain(Sending))
  <2>1. Plain(Sending) \in SUBSET ops
    BY DEF Plain, Sending, Ops, Lock
  <2>2. Nested(below, Plain(Sending)) \subseteq Nested(below, ops)
    BY <2>1, FewerNested
  <2> QED
    BY <1>7, <2>2 DEF Nested
<1>9. way \o r \in N
  BY <1>4, <1>8, ConcatNested
<1>10. /\ Len(way) \in Nat /\ Len(r) \in Nat
       /\ DOMAIN way = 1 .. Len(way) /\ DOMAIN r = 1 .. Len(r)
       /\ DOMAIN (way \o r) = 1 .. Len(way) + Len(r)
       /\ \A i \in DOMAIN way : (way \o r)[i] = way[i]
       /\ \A i \in DOMAIN r : (way \o r)[Len(way) + i] = r[i]
       /\ \A i \in DOMAIN (way \o r) : i \in DOMAIN way \/ i - Len(way) \in DOMAIN r
  BY <1>4, <1>8, ConcatShape
<1>11. /\ \A u \in Task : u # t => todo'[u] = todo[u]
       /\ todo'[t] = way \o r
       /\ DOMAIN todo' = Task /\ todo' = [u \in Task |-> todo'[u]]
  BY <1>1 DEF LocksInv
<1> HIDE DEF below, ops, N, s, r
<1>12. ASSUME NEW l \in Lock, holder[l] = t
       PROVE  /\ \E j \in DOMAIN (way \o r) : Frees((way \o r)[j], l)
              /\ \A k \in DOMAIN (way \o r) :
                    \/ ~Waits((way \o r)[k])
                    \/ <<l, (way \o r)[k][2]>> \in below
                    \/ \E j \in DOMAIN (way \o r) : j < k /\ Frees((way \o r)[j], l)
  <2>1. /\ \E j \in DOMAIN r : Frees(r[j], l)
        /\ \A k \in DOMAIN r :
              \/ ~Waits(r[k])
              \/ <<l, r[k][2]>> \in below
              \/ \E j \in DOMAIN r : j < k /\ Frees(r[j], l)
    <3>1. ~Frees(Head(todo[t]), l) /\ Kept(l, t)
      BY <1>2, <1>12 DEF Op, Frees, LocksInv
    <3> QED
      BY <1>2, <3>1, StillKept DEF below, r, s
  <2>2. \A j \in DOMAIN r : Len(way) + j \in DOMAIN (way \o r) /\ j \in Nat
    BY <1>10
  <2>3. \E j \in DOMAIN (way \o r) : Frees((way \o r)[j], l)
    BY <1>10, <2>1, <2>2
  <2>4. ASSUME NEW k \in DOMAIN (way \o r)
        PROVE  \/ ~Waits((way \o r)[k])
               \/ <<l, (way \o r)[k][2]>> \in below
               \/ \E j \in DOMAIN (way \o r) : j < k /\ Frees((way \o r)[j], l)
    <3>1. CASE k \in DOMAIN way
      <4>1. way[k] \in Plain(Sending)
        BY <1>8, <1>10, <3>1, ElementOfSeq
      <4> QED
        BY <1>6, <1>10, <3>1, <4>1 DEF Plain
    <3>2. CASE k - Len(way) \in DOMAIN r
      <4> DEFINE h == k - Len(way)
      <4>1. h \in DOMAIN r /\ k = Len(way) + h /\ h \in Nat /\ k \in Nat
        BY <1>10, <3>2
      <4> HIDE DEF h
      <4>2. (way \o r)[k] = r[h]
        BY <1>10, <4>1
      <4>3. CASE \E j \in DOMAIN r : j < h /\ Frees(r[j], l)
        <5>1. PICK j \in DOMAIN r : j < h /\ Frees(r[j], l)
          BY <4>3
        <5>2. /\ Len(way) + j \in DOMAIN (way \o r) /\ Len(way) + j < k
              /\ Frees((way \o r)[Len(way) + j], l)
          BY <1>10, <2>2, <4>1, <5>1
        <5> QED
          BY <5>2
      <4> QED
        BY <2>1, <4>1, <4>2, <4>3
    <3> QED
      BY <1>10, <3>1, <3>2
  <2> QED
    BY <2>3, <2>4
<1>13. (\A u \in Task, l \in Lock : holder[l] = u => Kept(l, u))'
  <2> SUFFICES ASSUME NEW u \in Task, NEW l \in Lock, holder'[l] = u PROVE Kept(l, u)'
    OBVIOUS
  <2>1. CASE u # t
    <3>1. Kept(l, u) /\ todo'[u] = todo[u]
      BY <1>2, <1>11, <2>1 DEF LocksInv
    <3> QED
      BY <1>2, <3>1 DEF Kept
  <2>2. CASE u = t
    BY <1>2, <1>11, <1>12, <2>2 DEF Kept, below
  <2> QED
    BY <2>1, <2>2
<1>14. kind[t] # "idle"
  BY <1>5
<1>15. \A u \in Task : todo'[u] \in Nested(Below(kind[u]), Ops(kind[u]))
  BY <1>9, <1>11 DEF LocksInv, N, below, ops
<1> QED
  BY <1>2, <1>11, <1>13, <1>14, <1>15 DEF LocksInv

LEMMA LocksStep == LocksInv /\ [Next]_vars => LocksInv'
<1> SUFFICES ASSUME LocksInv, [Next]_vars PROVE LocksInv'
  OBVIOUS
<1>1. ASSUME NEW t \in Task, TakeStep(t) PROVE LocksInv'
  <2>1. /\ Running(t) /\ Advance(t) /\ Op(t) = "take" /\ Mutex(t) \in Lock
        /\ holder' = [holder EXCEPT ![Mutex(t)] = t]
        /\ UNCHANGED <<kind, failures>>
    BY <1>1, MutexType DEF TakeStep
  <2>2. holder' \in [Lock -> Task \cup {Nobody}]
    BY <2>1 DEF LocksInv
  <2>3. \A l \in Lock : ~Frees(Head(todo[t]), l)
    BY <2>1 DEF Op, Frees
  <2>4. \A u \in Task, l \in Lock : holder'[l] = u =>
            \/ holder[l] = u
            \/ u = t /\ Mutex(t) = l
    BY <2>1 DEF LocksInv
  <2> QED
    BY <2>1, <2>2, <2>3, <2>4, KeepsInv DEF LocksInv
<1>2. ASSUME NEW t \in Task, GiveStep(t) PROVE LocksInv'
  <2>1. /\ Running(t) /\ Advance(t) /\ Op(t) = "give" /\ Mutex(t) \in Lock
        /\ holder' = [holder EXCEPT ![Mutex(t)] = Nobody]
        /\ UNCHANGED <<kind, failures>>
    BY <1>2, MutexType DEF GiveStep
  <2>2. holder' \in [Lock -> Task \cup {Nobody}]
    BY <2>1 DEF LocksInv
  <2>3. \A u \in Task, l \in Lock : holder'[l] = u => holder[l] = u /\ l # Mutex(t)
    BY <2>1, NobodyAssumption DEF LocksInv
  <2>4. \A l \in Lock : l # Mutex(t) => ~Frees(Head(todo[t]), l)
    BY DEF Mutex, Frees
  <2> QED
    BY <2>1, <2>2, <2>3, <2>4, KeepsInv DEF LocksInv
<1>3. ASSUME NEW t \in Task, TouchStep(t) PROVE LocksInv'
  <2>1. /\ Running(t) /\ Advance(t) /\ Op(t) \in {"touch", "mark", "clear"}
        /\ UNCHANGED <<kind, holder>>
    BY <1>3 DEF TouchStep
  <2>2. failures' \in BOOLEAN
    <3>1. CASE UNCHANGED failures
      BY <3>1 DEF LocksInv
    <3>2. CASE failures' \in BOOLEAN
      BY <3>2
    <3> QED
      BY <1>3, <3>1, <3>2 DEF TouchStep
  <2>5. \A l \in Lock : ~Frees(Head(todo[t]), l)
    BY <2>1 DEF Op, Frees
  <2> QED
    BY <2>1, <2>2, <2>5, KeepsInv DEF LocksInv
<1>4. CASE UNCHANGED vars
  BY <1>4 DEF LocksInv, Kept, vars
<1> QED
  BY <1>1, <1>2, <1>3, <1>4, StartInv, PingInv DEF Next, Step

LEMMA LocksInit == Init => LocksInv
<1> SUFFICES ASSUME Init PROVE LocksInv
  OBVIOUS
<1>1. \A k : <<>> \in Nested(Below(k), Ops(k))
  BY NothingNested DEF Nothing
<1>2. /\ DOMAIN todo = Task /\ todo = [t \in Task |-> todo[t]]
      /\ \A t \in Task : todo[t] = <<>>
  BY DEF Init
<1> QED
  BY <1>1, <1>2, NobodyAssumption DEF Init, LocksInv

-----------------------------------------------------------------------------
(* Theorems.                                                               *)

\* A mutex is held by a task that will release it, whatever a peer runs.
THEOREM PeerLocksTypeOK == Spec => []TypeOK
<1>1. ASSUME LocksInv PROVE TypeOK
  <2> SUFFICES ASSUME NEW l \in Lock, holder[l] # Nobody
               PROVE  \E i \in DOMAIN todo[holder[l]] :
                          todo[holder[l]][i] = <<"give", l>>
    BY <1>1 DEF TypeOK, LocksInv
  <2> DEFINE t == holder[l]
  <2>1. t \in Task
    BY <1>1 DEF LocksInv
  <2>2. Kept(l, t) /\ todo[t] \in Seq(Ops(kind[t]))
    BY <1>1, <2>1 DEF LocksInv, Nested
  <2>3. PICK i \in DOMAIN todo[t] : Frees(todo[t][i], l)
    BY <2>2 DEF Kept
  <2>4. todo[t][i] \in Ops(kind[t])
    BY <2>2, LenProperties, ElementOfSeq
  <2>5. todo[t][i] = <<"give", l>>
    BY <2>3, <2>4 DEF Frees, Ops, Plain
  <2> QED
    BY <2>5
<1> QED
  BY <1>1, LocksInit, LocksStep, PTL DEF Spec

\* Who does not send under a guard waits for a lock above all it holds, so that such
\* tasks that wait for each other in a circle would be higher and higher.
LEMMA InvCircles == ASSUME LocksInv PROVE CirclesAreGuardedSends
<1> SUFFICES ASSUME NEW S \in SUBSET Task, Circle(S),
                    \A t \in S : ~SendsUnderGuard(t)
             PROVE  FALSE
  BY DEF CirclesAreGuardedSends
<1>0. S # {} /\ \A t \in S : \E u \in S : WaitsFor(t, u)
  BY DEF Circle
<1> DEFINE height(t) == Rank(Mutex(t))
<1>1. ASSUME NEW t \in S
      PROVE  \E u \in S : height(t) < height(u)
  <2>1. PICK u \in S : WaitsFor(t, u)
    BY <1>0
  <2>2. PICK v \in S : WaitsFor(u, v)
    BY <1>0
  <2>3. /\ Running(t) /\ Running(u) /\ Mutex(t) \in Lock /\ Mutex(u) \in Lock
        /\ Head(todo[u]) = todo[u][1] /\ 1 \in DOMAIN todo[u]
        /\ DOMAIN todo[u] \subseteq Nat \ {0}
    BY <2>1, <2>2, MutexType, TailShape DEF WaitsFor
  <2>4. Kept(Mutex(t), u) /\ Waits(todo[u][1]) /\ todo[u][1][2] = Mutex(u)
    BY <2>1, <2>2, <2>3 DEF LocksInv, WaitsFor, Needs, Waits, Op, Mutex
  <2>5. ~ \E j \in DOMAIN todo[u] : j < 1
    BY <2>3
  <2>6. <<Mutex(t), Mutex(u)>> \in Below(kind[u])
    BY <2>3, <2>4, <2>5 DEF Kept
  <2>7. ~(kind[u] \in Guarded /\ Mutex(u) \in Sending)
    BY <2>1, <2>2, <2>3 DEF SendsUnderGuard, WaitsFor, Guarded
  <2> QED
    BY <2>6, <2>7 DEF Below
<1>2. \A t \in S : height(t) \in 1 .. 4
  BY DEF Rank
<1> HIDE DEF height
<1>3. \A t \in S : height(t) # 4
  BY <1>1, <1>2
<1>4. \A t \in S : height(t) # 3
  BY <1>1, <1>2, <1>3
<1>5. \A t \in S : height(t) # 2
  BY <1>1, <1>2, <1>3, <1>4
<1>6. \A t \in S : height(t) # 1
  BY <1>1, <1>2, <1>3, <1>4, <1>5
<1> QED
  BY <1>0, <1>2, <1>3, <1>4, <1>5, <1>6

\* Whatever tasks a peer runs, and however many, if some wait for each other in a
\* circle then one of them is leave, a gossip handler or failure_detection, which
\* sends with a mutex locked that sending needs or another waits for.
THEOREM PeerLocksCirclesAreGuardedSends == Spec => []CirclesAreGuardedSends
<1>1. LocksInv => CirclesAreGuardedSends
  BY InvCircles
<1> QED
  BY <1>1, LocksInit, LocksStep, PTL DEF Spec

\* The next operation of t needs no lock, or one that nobody holds.
MayGoOn(t) == Running(t) /\ (Needs(t) => holder[Mutex(t)] = Nobody)

\* A peer comes to a standstill, with tasks that have something left to do and none
\* that can, only by a send under a guard.
THEOREM PeerLocksSomeTaskGoesOn ==
    Spec => []((\E t \in Task : Running(t)) =>
                   \E t \in Task : MayGoOn(t) \/ SendsUnderGuard(t))
<1>1. ASSUME LocksInv, NEW t \in Task, Running(t), \A u \in Task : ~MayGoOn(u)
      PROVE  \E u \in Task : SendsUnderGuard(u)
  <2> DEFINE S == { u \in Task : Running(u) }
  <2>1. ASSUME NEW u \in S PROVE \E v \in S : WaitsFor(u, v)
    <3>1. Running(u) /\ Needs(u) /\ holder[Mutex(u)] # Nobody
      BY <1>1 DEF MayGoOn
    <3>2. Mutex(u) \in Lock
      BY <1>1, <3>1, MutexType
    <3> DEFINE v == holder[Mutex(u)]
    <3>3. v \in Task /\ Kept(Mutex(u), v)
      BY <1>1, <3>1, <3>2 DEF LocksInv
    <3>4. todo[v] # <<>>
      BY <3>3 DEF Kept
    <3> QED
      BY <3>1, <3>3, <3>4 DEF WaitsFor, Running
  <2>2. t \in S /\ S \in SUBSET Task
    BY <1>1
  <2>3. CirclesAreGuardedSends
    BY <1>1, InvCircles
  <2> HIDE DEF S
  <2>4. Circle(S)
    BY <2>1, <2>2 DEF Circle
  <2> QED
    BY <2>2, <2>3, <2>4 DEF CirclesAreGuardedSends
<1>2. LocksInv => ((\E t \in Task : Running(t)) =>
                       \E t \in Task : MayGoOn(t) \/ SendsUnderGuard(t))
  BY <1>1
<1> QED
  BY <1>2, LocksInit, LocksStep, PTL DEF Spec
=============================================================================
