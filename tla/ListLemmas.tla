----------------------------- MODULE ListLemmas -----------------------------
(***************************************************************************)
(* What the list operations of the kernel, the suspend core, the publisher *)
(* and the work queue do to a list that holds nothing twice.               *)
(***************************************************************************)
EXTENDS Lists, SequenceTheorems, TLAPS

\* A list over S that holds nothing twice.
OnceIn(S, s) == s \in Seq(S) /\ IsInjective(s)

LEMMA EmptyList == \A S : OnceIn(S, <<>>) /\ Range(<<>>) = {}
BY DEF OnceIn, IsInjective, Range

LEMMA OnceFacts ==
  ASSUME NEW S, NEW s, OnceIn(S, s)
  PROVE  /\ Len(s) \in Nat /\ DOMAIN s = 1 .. Len(s)
         /\ Range(s) \subseteq S
         /\ s = <<>> <=> Len(s) = 0
         /\ s = <<>> <=> Range(s) = {}
<1>1. Len(s) \in Nat /\ DOMAIN s = 1 .. Len(s) /\ (s = <<>> <=> Len(s) = 0)
  BY DEF OnceIn
<1>2. Range(s) \subseteq S
  BY <1>1 DEF OnceIn, Range
<1>3. s # <<>> => s[1] \in Range(s)
  BY <1>1 DEF Range
<1> QED BY <1>1, <1>2, <1>3, EmptyList

\* Something is put at the head of a list it is not on.
LEMMA ConsList ==
  ASSUME NEW S, NEW s, OnceIn(S, s), NEW d \in S, d \notin Range(s)
  PROVE  /\ OnceIn(S, <<d>> \o s) /\ Range(<<d>> \o s) = Range(s) \cup {d}
         /\ Len(<<d>> \o s) = Len(s) + 1 /\ (<<d>> \o s)[1] = d
         /\ \A i \in 2 .. Len(s) + 1 : (<<d>> \o s)[i] = s[i - 1]
         /\ Head(<<d>> \o s) = d /\ Tail(<<d>> \o s) = s /\ <<d>> \o s # <<>>
<1> DEFINE q == <<d>> \o s
<1>1. Len(s) \in Nat /\ DOMAIN s = 1 .. Len(s) /\ s \in Seq(S)
  BY OnceFacts DEF OnceIn
<1>2. <<d>> \in Seq(S) /\ Len(<<d>>) = 1
  OBVIOUS
<1>3. q \in Seq(S) /\ Len(q) = Len(s) + 1
  <2>1. q \in Seq(S) /\ Len(q) = Len(<<d>>) + Len(s)
    BY <1>1, <1>2, ConcatProperties
  <2> QED BY <1>1, <1>2, <2>1
<1>4. q[1] = d /\ \A i \in 2 .. Len(s) + 1 : q[i] = s[i - 1]
  BY <1>1, <1>2
<1> HIDE DEF q
<1>5. DOMAIN q = 1 .. Len(s) + 1
  BY <1>1, <1>3
<1>6. \A i \in 1 .. Len(s) : s[i] # d
  BY <1>1 DEF Range
<1>7. IsInjective(q)
  <2> SUFFICES ASSUME NEW i \in DOMAIN q, NEW j \in DOMAIN q, q[i] = q[j] PROVE i = j
    BY DEF IsInjective
  <2>1. CASE i = 1 \/ j = 1
    BY <1>1, <1>4, <1>5, <1>6, <2>1
  <2>2. CASE i # 1 /\ j # 1
    <3>1. i - 1 \in DOMAIN s /\ j - 1 \in DOMAIN s /\ s[i - 1] = s[j - 1]
      BY <1>1, <1>4, <1>5, <2>2
    <3>2. i - 1 = j - 1
      BY <3>1 DEF OnceIn, IsInjective
    <3> QED BY <1>1, <1>5, <3>2
  <2> QED BY <2>1, <2>2
<1>8. ASSUME NEW e \in Range(q) PROVE e \in Range(s) \cup {d}
  <2>1. PICK i \in 1 .. Len(s) + 1 : e = q[i]
    BY <1>5 DEF Range
  <2>2. CASE i = 1
    BY <1>4, <2>1, <2>2
  <2>3. CASE i # 1
    <3>1. i - 1 \in DOMAIN s /\ e = s[i - 1]
      BY <1>1, <1>4, <2>1, <2>3
    <3> QED BY <3>1 DEF Range
  <2> QED BY <2>2, <2>3
<1>9. ASSUME NEW e \in Range(s) \cup {d} PROVE e \in Range(q)
  <2>1. CASE e = d
    BY <1>1, <1>4, <1>5, <2>1 DEF Range
  <2>2. CASE e \in Range(s)
    <3>1. PICK i \in 1 .. Len(s) : e = s[i]
      BY <1>1, <2>2 DEF Range
    <3>2. i + 1 \in DOMAIN q /\ q[i + 1] = e
      BY <1>1, <1>4, <1>5, <3>1
    <3> QED BY <3>2 DEF Range
  <2> QED BY <2>1, <2>2
<1>10. Range(q) = Range(s) \cup {d}
  BY <1>8, <1>9
<1>11. q # <<>>
  BY <1>1, <1>3
<1>12. Head(q) = d
  BY <1>1, <1>3, <1>4
<1>13. Tail(q) = s
  <2>1. /\ Tail(q) \in Seq(S) /\ Len(Tail(q)) = Len(q) - 1
        /\ \A i \in 1 .. Len(Tail(q)) : Tail(q)[i] = q[i + 1]
    BY <1>3, <1>11, HeadTailProperties
  <2>2. Len(Tail(q)) = Len(s) /\ \A i \in 1 .. Len(s) : Tail(q)[i] = s[i]
    BY <1>1, <1>3, <1>4, <2>1
  <2> QED BY <1>1, <2>1, <2>2, SeqEqual
<1> QED BY <1>1, <1>3, <1>4, <1>7, <1>10, <1>11, <1>12, <1>13 DEF OnceIn, q

\* A list that is not empty is its head put before its tail.
LEMMA HeadList ==
  ASSUME NEW S, NEW s, OnceIn(S, s), s # <<>>
  PROVE  /\ OnceIn(S, Tail(s)) /\ Head(s) \in Range(s) /\ Head(s) \in S
         /\ Head(s) \notin Range(Tail(s)) /\ Range(Tail(s)) = Range(s) \ {Head(s)}
         /\ s = <<Head(s)>> \o Tail(s)
<1> DEFINE h == Head(s)
           q == Tail(s)
<1>1. /\ Len(s) \in Nat /\ DOMAIN s = 1 .. Len(s) /\ s \in Seq(S) /\ Len(s) > 0
      /\ h = s[1] /\ h \in S
  BY OnceFacts DEF OnceIn
<1>2. /\ q \in Seq(S) /\ Len(q) = Len(s) - 1
      /\ \A i \in 1 .. Len(q) : q[i] = s[i + 1]
  BY <1>1, HeadTailProperties
<1> HIDE DEF h, q
<1>3. DOMAIN q = 1 .. Len(s) - 1
  BY <1>1, <1>2
<1>4. OnceIn(S, q)
  BY <1>1, <1>2, <1>3 DEF OnceIn, IsInjective
<1>5. h \notin Range(q)
  <2> SUFFICES ASSUME NEW i \in DOMAIN q, q[i] = h PROVE FALSE
    BY DEF Range
  <2>1. i + 1 \in DOMAIN s /\ 1 \in DOMAIN s /\ s[i + 1] = s[1] /\ i + 1 # 1
    BY <1>1, <1>2, <1>3
  <2> QED BY <2>1 DEF OnceIn, IsInjective
<1>6. s = <<h>> \o q
  <2> DEFINE r == <<h>> \o q
  <2>1. /\ OnceIn(S, r) /\ Len(r) = Len(q) + 1 /\ r[1] = h
        /\ \A i \in 2 .. Len(q) + 1 : r[i] = q[i - 1]
    BY <1>1, <1>4, <1>5, ConsList
  <2> HIDE DEF r
  <2>2. \A i \in 1 .. Len(s) : s[i] = r[i]
    <3> SUFFICES ASSUME NEW i \in 1 .. Len(s) PROVE s[i] = r[i]
      OBVIOUS
    <3>1. CASE i = 1
      BY <1>1, <2>1, <3>1
    <3>2. CASE i # 1
      <4>1. i \in 2 .. Len(q) + 1 /\ i - 1 \in 1 .. Len(q) /\ (i - 1) + 1 = i
        BY <1>1, <1>2, <3>2
      <4> QED BY <1>2, <2>1, <4>1
    <3> QED BY <3>1, <3>2
  <2>3. Len(s) = Len(r) /\ r \in Seq(S)
    BY <1>1, <1>2, <2>1 DEF OnceIn
  <2>4. s = r
    BY <1>1, <2>2, <2>3, SeqEqual
  <2> QED BY <2>4 DEF r
<1>7. Range(s) = Range(q) \cup {h}
  BY <1>1, <1>4, <1>5, <1>6, ConsList
<1> QED BY <1>1, <1>4, <1>5, <1>6, <1>7 DEF h, q

\* At the end.
LEMMA AppendList ==
  ASSUME NEW S, NEW s, OnceIn(S, s), NEW d \in S, d \notin Range(s)
  PROVE  OnceIn(S, Append(s, d)) /\ Range(Append(s, d)) = Range(s) \cup {d}
<1>1. Len(s) \in Nat /\ DOMAIN s = 1 .. Len(s)
  BY DEF OnceIn
<1>2. /\ Append(s, d) \in Seq(S) /\ Len(Append(s, d)) = Len(s) + 1
      /\ \A i \in 1 .. Len(s) : Append(s, d)[i] = s[i]
      /\ Append(s, d)[Len(s) + 1] = d
  BY AppendProperties DEF OnceIn
<1>3. DOMAIN Append(s, d) = 1 .. Len(s) + 1
  BY <1>1, <1>2
<1>4. \A i \in 1 .. Len(s) : s[i] # d
  BY <1>1 DEF Range
<1>5. IsInjective(Append(s, d))
  BY <1>1, <1>2, <1>3, <1>4 DEF OnceIn, IsInjective
<1>6. Range(Append(s, d)) = Range(s) \cup {d}
  BY <1>1, <1>2, <1>3 DEF Range
<1> QED BY <1>2, <1>5, <1>6 DEF OnceIn

\* In between, or at an end.
LEMMA InsertList ==
  ASSUME NEW S, NEW s, OnceIn(S, s), NEW d \in S, d \notin Range(s), NEW k \in 1 .. Len(s) + 1
  PROVE  OnceIn(S, InsertAt(s, k, d)) /\ Range(InsertAt(s, k, d)) = Range(s) \cup {d}
<1> DEFINE q == InsertAt(s, k, d)
           a == SubSeq(s, 1, k - 1)
           b == SubSeq(s, k, Len(s))
<1>1. Len(s) \in Nat /\ DOMAIN s = 1 .. Len(s) /\ \A i \in 1 .. Len(s) : s[i] \in S
  BY DEF OnceIn
<1>2. /\ a \in Seq(S) /\ Len(a) = k - 1
      /\ \A i \in 1 .. k - 1 : a[i] = s[i]
  BY <1>1, SubSeqProperties
<1>3. /\ b \in Seq(S) /\ Len(b) = Len(s) - k + 1
      /\ \A i \in 1 .. Len(s) - k + 1 : b[i] = s[k + i - 1]
  BY <1>1, SubSeqProperties
<1>4. q = a \o <<d>> \o b
  BY DEF InsertAt
<1> HIDE DEF q, a, b
<1>5. q \in Seq(S) /\ Len(q) = Len(s) + 1
  <2>1. /\ a \o <<d>> \in Seq(S) /\ Len(a \o <<d>>) = k
    <3>1. <<d>> \in Seq(S) /\ Len(<<d>>) = 1
      OBVIOUS
    <3>2. a \o <<d>> \in Seq(S) /\ Len(a \o <<d>>) = Len(a) + Len(<<d>>)
      BY <1>2, <3>1, ConcatProperties
    <3> QED BY <1>1, <1>2, <3>1, <3>2
  <2>2. (a \o <<d>>) \o b \in Seq(S) /\ Len((a \o <<d>>) \o b) = k + (Len(s) - k + 1)
    <3>1. /\ (a \o <<d>>) \o b \in Seq(S)
          /\ Len((a \o <<d>>) \o b) = Len(a \o <<d>>) + Len(b)
      BY <1>3, <2>1, ConcatProperties
    <3> QED BY <1>3, <2>1, <3>1
  <2>3. q = (a \o <<d>>) \o b
    BY <1>4
  <2> QED BY <1>1, <2>2, <2>3
<1>6. \A i \in 1 .. Len(s) + 1 :
        q[i] = IF i < k THEN s[i] ELSE IF i = k THEN d ELSE s[i - 1]
  <2> SUFFICES ASSUME NEW i \in 1 .. Len(s) + 1
               PROVE  q[i] = IF i < k THEN s[i] ELSE IF i = k THEN d ELSE s[i - 1]
    OBVIOUS
  <2>1. CASE i < k
    BY <1>1, <1>2, <1>3, <1>4, <2>1
  <2>2. CASE i = k
    BY <1>1, <1>2, <1>3, <1>4, <2>2
  <2>3. CASE i > k
    <3>1. q[i] = b[i - k]
      BY <1>1, <1>2, <1>3, <1>4, <2>3
    <3> QED BY <1>1, <1>3, <2>3, <3>1
  <2> QED BY <1>1, <2>1, <2>2, <2>3
<1>7. DOMAIN q = 1 .. Len(s) + 1
  BY <1>1, <1>5
<1>8. \A i \in 1 .. Len(s) : s[i] # d
  BY <1>1 DEF Range
<1>9. IsInjective(q)
  <2> SUFFICES ASSUME NEW i \in DOMAIN q, NEW j \in DOMAIN q, q[i] = q[j] PROVE i = j
    BY DEF IsInjective
  <2>1. CASE i = k \/ j = k
    BY <1>1, <1>6, <1>7, <1>8, <2>1
  <2>2. CASE i # k /\ j # k
    <3> DEFINE f(n) == IF n < k THEN n ELSE n - 1
    <3>1. f(i) \in 1 .. Len(s) /\ f(j) \in 1 .. Len(s)
      BY <1>1, <1>7, <2>2
    <3>2. s[f(i)] = s[f(j)]
      BY <1>6, <1>7, <2>2
    <3>3. f(i) = f(j)
      BY <1>1, <3>1, <3>2 DEF OnceIn, IsInjective
    <3> QED BY <1>1, <1>7, <2>2, <3>3
  <2> QED BY <2>1, <2>2
<1>10. ASSUME NEW e \in Range(q) PROVE e \in Range(s) \cup {d}
  BY <1>1, <1>6, <1>7 DEF Range
<1>11. ASSUME NEW e \in Range(s) PROVE e \in Range(q)
  <2>1. PICK i \in 1 .. Len(s) : e = s[i]
    BY <1>1 DEF Range
  <2>2. q[IF i < k THEN i ELSE i + 1] = e /\ (IF i < k THEN i ELSE i + 1) \in DOMAIN q
    BY <1>1, <1>6, <1>7, <2>1
  <2> QED BY <2>2 DEF Range
<1>12. d \in Range(q)
  BY <1>1, <1>6, <1>7 DEF Range
<1> QED BY <1>5, <1>9, <1>10, <1>11, <1>12 DEF OnceIn, q

\* list_del of what is on the list: those behind it move up.
LEMMA WithoutIndex ==
  ASSUME NEW S, NEW s, OnceIn(S, s), NEW d \in Range(s)
  PROVE  \E k \in 1 .. Len(s) :
           /\ s[k] = d
           /\ Without(s, d) \in Seq(S) /\ Len(Without(s, d)) = Len(s) - 1
           /\ \A i \in 1 .. Len(s) - 1 :
                Without(s, d)[i] = IF i < k THEN s[i] ELSE s[i + 1]
<1> DEFINE k == CHOOSE i \in DOMAIN s : s[i] = d
           q == RemoveAt(s, k)
           a == SubSeq(s, 1, k - 1)
           b == SubSeq(s, k + 1, Len(s))
<1>1. /\ Len(s) \in Nat /\ DOMAIN s = 1 .. Len(s)
      /\ \A i \in 1 .. Len(s) : s[i] \in S
  BY OnceFacts DEF OnceIn
<1>2. k \in 1 .. Len(s) /\ s[k] = d
  BY <1>1 DEF Range
<1>3. Without(s, d) = q
  BY DEF Without
<1>4. q = a \o b
  BY DEF RemoveAt
<1> HIDE DEF k
<1>5. a \in Seq(S) /\ Len(a) = k - 1 /\ \A i \in 1 .. k - 1 : a[i] = s[i]
  BY <1>1, <1>2, SubSeqProperties
<1>6. /\ b \in Seq(S) /\ Len(b) = Len(s) - k
      /\ \A i \in 1 .. Len(s) - k : b[i] = s[k + i]
  <2>1. k + 1 \in Int /\ Len(s) \in Int /\ \A i \in k + 1 .. Len(s) : s[i] \in S
    BY <1>1, <1>2
  <2>2. /\ b \in Seq(S)
        /\ Len(b) = IF k + 1 <= Len(s) THEN Len(s) - (k + 1) + 1 ELSE 0
        /\ \A i \in 1 .. Len(s) - (k + 1) + 1 : b[i] = s[(k + 1) + i - 1]
    BY <2>1, SubSeqProperties
  <2> HIDE DEF b
  <2>3. Len(b) = Len(s) - k
    <3>1. k \in Int /\ k <= Len(s) /\ Len(s) \in Int
      BY <1>1, <1>2
    <3>2. CASE k + 1 <= Len(s)
      BY <2>2, <3>1, <3>2
    <3>3. CASE ~(k + 1 <= Len(s))
      BY <2>2, <3>1, <3>3
    <3> QED BY <3>2, <3>3
  <2>4. ASSUME NEW i \in 1 .. Len(s) - k PROVE b[i] = s[k + i]
    <3>1. (k + 1) + i - 1 = k + i /\ i \in 1 .. Len(s) - (k + 1) + 1
      BY <1>1, <1>2
    <3>2. b[i] = s[(k + 1) + i - 1]
      BY <2>2, <3>1
    <3> QED BY <3>1, <3>2
  <2> QED BY <2>2, <2>3, <2>4
<1> HIDE DEF q, a, b
<1>7. q \in Seq(S) /\ Len(q) = Len(s) - 1
  <2>1. a \o b \in Seq(S) /\ Len(a \o b) = Len(a) + Len(b)
    BY <1>5, <1>6, ConcatProperties
  <2> QED BY <1>1, <1>2, <1>4, <1>5, <1>6, <2>1
<1>8. ASSUME NEW i \in 1 .. Len(s) - 1
      PROVE  q[i] = IF i < k THEN s[i] ELSE s[i + 1]
  <2>1. CASE i < k
    BY <1>1, <1>2, <1>4, <1>5, <1>6, <2>1
  <2>2. CASE ~(i < k)
    <3>1. i - (k - 1) \in 1 .. Len(s) - k /\ i - (k - 1) = i - k + 1
      BY <1>1, <1>2, <2>2
    <3>2. q[i] = b[i - k + 1]
      BY <1>1, <1>2, <1>4, <1>5, <1>6, <2>2, <3>1
    <3>3. b[i - k + 1] = s[k + (i - k + 1)]
      BY <1>6, <3>1
    <3> QED BY <1>1, <1>2, <2>2, <3>2, <3>3
  <2> QED BY <2>1, <2>2
<1> QED BY <1>2, <1>3, <1>7, <1>8

LEMMA WithoutList ==
  ASSUME NEW S, NEW s, OnceIn(S, s), NEW d
  PROVE  /\ OnceIn(S, Without(s, d)) /\ Range(Without(s, d)) = Range(s) \ {d}
         /\ d \notin Range(s) => Without(s, d) = s
<1>1. CASE d \notin Range(s)
  BY <1>1 DEF Without
<1>2. CASE d \in Range(s)
  <2> DEFINE q == Without(s, d)
  <2>1. /\ Len(s) \in Nat /\ DOMAIN s = 1 .. Len(s)
    BY OnceFacts
  <2>2. PICK k \in 1 .. Len(s) :
          /\ s[k] = d /\ q \in Seq(S) /\ Len(q) = Len(s) - 1
          /\ \A i \in 1 .. Len(s) - 1 : q[i] = IF i < k THEN s[i] ELSE s[i + 1]
    BY <1>2, WithoutIndex
  <2> HIDE DEF q
  <2>3. DOMAIN q = 1 .. Len(s) - 1
    BY <2>1, <2>2
  <2>4. IsInjective(q)
    <3> SUFFICES ASSUME NEW i \in DOMAIN q, NEW j \in DOMAIN q, q[i] = q[j] PROVE i = j
      BY DEF IsInjective
    <3> DEFINE f(n) == IF n < k THEN n ELSE n + 1
    <3>1. f(i) \in DOMAIN s /\ f(j) \in DOMAIN s /\ s[f(i)] = s[f(j)]
      BY <2>1, <2>2, <2>3
    <3>2. f(i) = f(j)
      BY <3>1 DEF OnceIn, IsInjective
    <3> QED BY <2>1, <2>3, <3>2
  <2>5. ASSUME NEW e \in Range(q) PROVE e \in Range(s) \ {d}
    <3>1. PICK i \in 1 .. Len(s) - 1 : e = IF i < k THEN s[i] ELSE s[i + 1]
      BY <2>2, <2>3 DEF Range
    <3>2. PICK j \in 1 .. Len(s) : j # k /\ e = s[j]
      BY <2>1, <3>1
    <3> QED BY <2>1, <2>2, <3>2 DEF OnceIn, IsInjective, Range
  <2>6. ASSUME NEW e \in Range(s) \ {d} PROVE e \in Range(q)
    <3>1. PICK i \in 1 .. Len(s) : e = s[i] /\ i # k
      BY <2>1, <2>2 DEF Range
    <3>2. /\ q[IF i < k THEN i ELSE i - 1] = e
          /\ (IF i < k THEN i ELSE i - 1) \in DOMAIN q
      BY <2>1, <2>2, <2>3, <3>1
    <3> QED BY <3>2 DEF Range
  <2>7. OnceIn(S, q) /\ Range(q) = Range(s) \ {d}
    BY <2>2, <2>4, <2>5, <2>6 DEF OnceIn
  <2> QED BY <1>2, <2>7 DEF q
<1> QED BY <1>1, <1>2

LEMMA WithoutCons ==
  ASSUME NEW S, NEW s, OnceIn(S, s), NEW c \in S, c \notin Range(s), NEW d
  PROVE  /\ d = c => Without(<<c>> \o s, d) = s
         /\ d # c => Without(<<c>> \o s, d) = <<c>> \o Without(s, d)
<1> DEFINE q == <<c>> \o s
           r == Without(q, d)
<1>1. /\ Len(s) \in Nat /\ DOMAIN s = 1 .. Len(s) /\ s \in Seq(S)
  BY OnceFacts DEF OnceIn
<1>2. /\ OnceIn(S, q) /\ Len(q) = Len(s) + 1 /\ q[1] = c /\ Range(q) = Range(s) \cup {c}
      /\ \A i \in 2 .. Len(s) + 1 : q[i] = s[i - 1]
  BY ConsList
<1> HIDE DEF q
<1>3. DOMAIN q = 1 .. Len(s) + 1
  BY <1>1, <1>2 DEF OnceIn
<1>4. CASE d \notin Range(q)
  <2>1. d \notin Range(s) /\ d # c
    BY <1>2, <1>4
  <2> QED BY <1>4, <2>1 DEF Without, q
<1>5. CASE d \in Range(q)
  <2>0. OnceIn(S, q) /\ d \in Range(q)
    BY <1>2, <1>5
  <2>1. PICK k \in 1 .. Len(s) + 1 :
          /\ q[k] = d /\ r \in Seq(S) /\ Len(r) = Len(s)
          /\ \A i \in 1 .. Len(s) : r[i] = IF i < k THEN q[i] ELSE q[i + 1]
    <3>1. PICK k \in 1 .. Len(q) :
            /\ q[k] = d /\ r \in Seq(S) /\ Len(r) = Len(q) - 1
            /\ \A i \in 1 .. Len(q) - 1 : r[i] = IF i < k THEN q[i] ELSE q[i + 1]
      BY <2>0, WithoutIndex
    <3>2. Len(q) = Len(s) + 1 /\ Len(q) - 1 = Len(s)
      BY <1>1, <1>2
    <3> HIDE DEF r
    <3> QED BY <3>1, <3>2
  <2> HIDE DEF r
  <2>2. CASE d = c
    <3>1. k = 1
      <4>1. 1 \in DOMAIN q /\ k \in DOMAIN q /\ q[1] = q[k]
        BY <1>1, <1>2, <1>3, <2>1, <2>2
      <4> QED BY <1>2, <4>1 DEF OnceIn, IsInjective
    <3>2. \A i \in 1 .. Len(s) : r[i] = s[i]
      <4> SUFFICES ASSUME NEW i \in 1 .. Len(s) PROVE r[i] = s[i]
        OBVIOUS
      <4>1. i + 1 \in 2 .. Len(s) + 1 /\ (i + 1) - 1 = i /\ ~(i < 1)
        BY <1>1
      <4> QED BY <1>2, <2>1, <3>1, <4>1
    <3>3. r = s
      BY <1>1, <2>1, <3>2, SeqEqual
    <3> QED BY <2>2, <3>3 DEF q, r
  <2>3. CASE d # c
    <3> DEFINE w == Without(s, d)
               z == <<c>> \o w
    <3>1. d \in Range(s) /\ c \notin Range(w) /\ OnceIn(S, w)
      BY <1>2, <1>5, <2>3, WithoutList
    <3>2. PICK j \in 1 .. Len(s) :
            /\ s[j] = d /\ Len(w) = Len(s) - 1
            /\ \A i \in 1 .. Len(s) - 1 : w[i] = IF i < j THEN s[i] ELSE s[i + 1]
      BY <3>1, WithoutIndex
    <3> HIDE DEF w
    <3>3. /\ z \in Seq(S) /\ Len(z) = Len(w) + 1 /\ z[1] = c
          /\ \A i \in 2 .. Len(w) + 1 : z[i] = w[i - 1]
      BY <3>1, ConsList DEF OnceIn
    <3> HIDE DEF z
    <3>4. k = j + 1
      <4>1. j + 1 \in DOMAIN q /\ k \in DOMAIN q /\ q[j + 1] = q[k]
        BY ONLY <1>1, <1>2, <1>3, <2>1, <3>2
      <4> QED BY <1>2, <4>1 DEF OnceIn, IsInjective
    <3>5. \A i \in 1 .. Len(s) : r[i] = z[i]
      <4> SUFFICES ASSUME NEW i \in 1 .. Len(s) PROVE r[i] = z[i]
        OBVIOUS
      <4>1. CASE i = 1
        BY <1>1, <1>2, <2>1, <3>2, <3>3, <3>4, <4>1
      <4>2. CASE i # 1 /\ i < k
        <5>1. r[i] = s[i - 1]
          BY <1>1, <1>2, <2>1, <4>2
        <5>2. z[i] = w[i - 1] /\ i - 1 \in 1 .. Len(s) - 1 /\ i - 1 < j
          BY <1>1, <3>2, <3>3, <3>4, <4>2
        <5> QED BY <3>2, <5>1, <5>2
      <4>3. CASE i # 1 /\ ~(i < k)
        <5>1. r[i] = s[i] /\ (i - 1) + 1 = i
          <6>1. i + 1 \in 2 .. Len(s) + 1 /\ (i + 1) - 1 = i
            BY <1>1
          <6>2. q[i + 1] = s[(i + 1) - 1]
            BY <1>2, <6>1
          <6>3. r[i] = q[i + 1]
            BY <2>1, <4>3
          <6> QED BY <1>1, <6>1, <6>2, <6>3
        <5>2. z[i] = w[i - 1] /\ i - 1 \in 1 .. Len(s) - 1 /\ ~(i - 1 < j)
          BY <1>1, <3>2, <3>3, <3>4, <4>3
        <5> QED BY <3>2, <5>1, <5>2
      <4> QED BY <4>1, <4>2, <4>3
    <3>6. r = z
      BY <1>1, <2>1, <3>2, <3>3, <3>5, SeqEqual
    <3> QED BY <2>3, <3>6 DEF q, r, w, z
  <2> QED BY <2>2, <2>3
<1> QED BY <1>4, <1>5
=============================================================================
