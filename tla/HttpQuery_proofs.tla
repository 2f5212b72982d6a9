---------------------------- MODULE HttpQuery_proofs ----------------------------
(***************************************************************************)
(* For every set of letters and requests, and every four names asked for:  *)
(* what Parse stores of a query.                                           *)
(***************************************************************************)
EXTENDS HttpQuery, SequenceTheorems, FiniteSetTheorems, TLAPS

-----------------------------------------------------------------------------
(* Induction, from the fact that the ordering of finite sets is well founded. *)

\* A set of natural numbers has a least element.
LEMMA Least ==
  ASSUME NEW S \in SUBSET Nat, S # {}
  PROVE  \E m \in S : \A k \in S : m <= k
<1> DEFINE T == {0..m : m \in S}
<1>1. T \subseteq FiniteSubsetsOf(Nat) /\ T # {}
  <2>1. ASSUME NEW m \in S PROVE 0..m \subseteq Nat /\ IsFiniteSet(0..m)
    BY FS_Interval
  <2> QED
    BY <2>1 DEF FiniteSubsetsOf
<1>2. PICK U \in T : \A V \in T : <<V, U>> \notin StrictSubsetOrdering(Nat)
  <2> HIDE DEF T
  <2> QED
    BY <1>1, WFMin, FS_StrictSubsetOrderingWellFounded
<1>3. PICK m \in S : U = 0..m
  OBVIOUS
<1>4. ASSUME NEW k \in S, k < m PROVE FALSE
  <2>1. /\ 0..k \in T /\ 0..k \subseteq 0..m /\ 0..m \subseteq Nat
        /\ m \in 0..m /\ m \notin 0..k
    BY <1>4
  <2> QED
    BY <1>2, <1>3, <2>1 DEF StrictSubsetOrdering
<1> QED
  BY <1>4

\* A set that has 0, and n + 1 with each n, has every natural number.
LEMMA SetInduction ==
  ASSUME NEW S, 0 \in S, \A n \in Nat : n \in S => n + 1 \in S
  PROVE  Nat \subseteq S
<1> SUFFICES ASSUME Nat \ S # {} PROVE FALSE
  OBVIOUS
<1>1. PICK m \in Nat \ S : \A k \in Nat \ S : m <= k
  BY Least
<1>2. m # 0 /\ m - 1 \in Nat
  BY <1>1
<1>3. m - 1 \in S
  BY <1>1, <1>2
<1> QED
  BY <1>2, <1>3
-----------------------------------------------------------------------------
(* What a client writes. *)

\* What is written after n parameters, given what was written before.
Round(params, w, n) ==
  IF n = 0 THEN <<>>
  ELSE (IF n = 1 THEN <<>> ELSE Append(w[n - 1], "&")) \o Field(params[n])

\* The recursive definition has a solution, so it says what it seems to say.
LEMMA WrittenRounds ==
  ASSUME NEW params, Len(params) \in Nat
  PROVE  Written(params) =
           [n \in 0..Len(params) |-> Round(params, Written(params), n)]
<1> DEFINE Solves(w, m) == w = [n \in 0..m |-> Round(params, w, n)]
           S == {m \in Nat : \E w : Solves(w, m)}
<1>1. ASSUME NEW w, NEW v, NEW n \in Nat, n > 0 => w[n - 1] = v[n - 1]
      PROVE  Round(params, w, n) = Round(params, v, n)
  BY <1>1 DEF Round
<1>2. 0 \in S
  <2> DEFINE w == [n \in 0..0 |-> <<>>]
  <2>1. \A n \in 0..0 : Round(params, w, n) = <<>>
    BY DEF Round
  <2>2. Solves(w, 0)
    BY <2>1
  <2> QED
    BY <2>2
<1>3. ASSUME NEW m \in S PROVE m + 1 \in S
  <2>1. PICK w : Solves(w, m)
    OBVIOUS
  <2> DEFINE v == [n \in 0..m + 1 |-> IF n = m + 1 THEN Round(params, w, n) ELSE w[n]]
  <2>2. ASSUME NEW n \in 0..m + 1 PROVE v[n] = Round(params, v, n)
    <3>1. n > 0 => w[n - 1] = v[n - 1]
      OBVIOUS
    <3>2. Round(params, w, n) = Round(params, v, n)
      BY <1>1, <3>1
    <3>3. v[n] = Round(params, w, n)
      BY <2>1
    <3> QED
      BY <3>2, <3>3
  <2>3. Solves(v, m + 1)
    BY <2>2
  <2> HIDE DEF v, Solves
  <2> QED
    BY <2>3
<1>4. Len(params) \in S
  <2> HIDE DEF S
  <2> QED
    BY <1>2, <1>3, SetInduction
<1>5. \E w : w = [n \in 0..Len(params) |-> Round(params, w, n)]
  BY <1>4
<1>6. Written(params) = CHOOSE w : w = [n \in 0..Len(params) |-> Round(params, w, n)]
  BY Zenon DEF Written, Round
<1> QED
  BY <1>5, <1>6

\* The same, one value at a time.
LEMMA WrittenValues ==
  ASSUME NEW params, Len(params) \in Nat
  PROVE  /\ Written(params)[0] = <<>>
         /\ \A n \in 1..Len(params) :
              Written(params)[n] =
                (IF n = 1 THEN <<>> ELSE Append(Written(params)[n - 1], "&"))
                  \o Field(params[n])
<1>1. ASSUME NEW w, w = [n \in 0..Len(params) |-> Round(params, w, n)],
             NEW n \in 0..Len(params)
      PROVE  w[n] = Round(params, w, n)
  BY ONLY <1>1
<1>2. \A n \in 0..Len(params) : Written(params)[n] = Round(params, Written(params), n)
  <2> DEFINE w == Written(params)
  <2>1. w = [n \in 0..Len(params) |-> Round(params, w, n)]
    BY WrittenRounds
  <2> HIDE DEF w
  <2>2. \A n \in 0..Len(params) : w[n] = Round(params, w, n)
    BY <1>1, <2>1
  <2> QED
    BY <2>2 DEF w
<1>3. 0 \in 0..Len(params) /\ \A n \in 1..Len(params) : n \in 0..Len(params) /\ n # 0
  OBVIOUS
<1> QED
  BY <1>2, <1>3 DEF Round

\* A concatenation, symbol by symbol.
LEMMA Joined ==
  ASSUME NEW S, NEW s \in Seq(S), NEW t \in Seq(S)
  PROVE  /\ s \o t \in Seq(S) /\ Len(s \o t) = Len(s) + Len(t)
         /\ \A j \in 1..Len(s) : (s \o t)[j] = s[j]
         /\ \A j \in 1..Len(t) : (s \o t)[Len(s) + j] = t[j]
<1> DEFINE r == s \o t
<1>1. /\ r \in Seq(S) /\ Len(r) = Len(s) + Len(t)
      /\ \A j \in 1..Len(s) + Len(t) :
           r[j] = IF j <= Len(s) THEN s[j] ELSE t[j - Len(s)]
  BY ConcatProperties
<1>2. Len(s) \in Nat /\ Len(t) \in Nat
  BY LenProperties
<1> HIDE DEF r
<1>3. ASSUME NEW j \in 1..Len(s) PROVE r[j] = s[j]
  BY <1>1, <1>2
<1>4. ASSUME NEW j \in 1..Len(t) PROVE r[Len(s) + j] = t[j]
  <2> DEFINE i == Len(s) + j
  <2>1. i \in 1..Len(s) + Len(t) /\ ~(i <= Len(s)) /\ i - Len(s) = j
    BY <1>2
  <2> HIDE DEF i
  <2>2. r[i] = t[j]
    BY <1>1, <2>1
  <2> QED
    BY <2>2 DEF i
<1> QED
  BY <1>1, <1>3, <1>4 DEF r

\* A parameter as it is written.
LEMMA FieldFacts ==
  ASSUME NEW p \in Fields
  PROVE  /\ Len(p.name) \in Nat \ {0} /\ Len(p.value) \in Nat
         /\ p.name \in Seq(Symbols) /\ p.value \in Seq(Symbols)
         /\ \A j \in 1..Len(p.name) : p.name[j] \in Letters
         /\ \A j \in 1..Len(p.value) : p.value[j] \in Symbols
         /\ Field(p) \in Seq(Symbols)
         /\ Len(Field(p)) = Len(p.name) + 1 + Len(p.value)
         /\ \A j \in 1..Len(p.name) : Field(p)[j] = p.name[j]
         /\ Field(p)[Len(p.name) + 1] = "="
         /\ \A j \in 1..Len(p.value) : Field(p)[Len(p.name) + 1 + j] = p.value[j]
<1>1. p.name \in Seq(Letters) /\ p.name # <<>> /\ p.value \in Seq(Symbols)
  BY DEF Fields
<1>2. p.name \in Seq(Symbols) /\ p.value \in Seq(Symbols)
  BY <1>1, SeqMonotonic DEF Symbols
<1>3. Len(p.name) \in Nat \ {0} /\ Len(p.value) \in Nat
  BY <1>1, EmptySeq, LenProperties
<1>4. /\ \A j \in 1..Len(p.name) : p.name[j] \in Letters
      /\ \A j \in 1..Len(p.value) : p.value[j] \in Symbols
  BY <1>1, ElementOfSeq
<1> DEFINE e == <<"=">>
           f == p.name \o e
<1>5. e \in Seq(Symbols) /\ Len(e) = 1 /\ e[1] = "="
  BY DEF Symbols
<1>6. Field(p) = f \o p.value
  BY <1>1 DEF Field
<1> HIDE DEF e
<1>7. /\ f \in Seq(Symbols) /\ Len(f) = Len(p.name) + Len(e)
      /\ \A j \in 1..Len(p.name) : f[j] = p.name[j]
      /\ \A j \in 1..Len(e) : f[Len(p.name) + j] = e[j]
  BY <1>2, <1>5, Joined
<1> HIDE DEF f
<1>8. /\ f \o p.value \in Seq(Symbols) /\ Len(f \o p.value) = Len(f) + Len(p.value)
      /\ \A j \in 1..Len(f) : (f \o p.value)[j] = f[j]
      /\ \A j \in 1..Len(p.value) : (f \o p.value)[Len(f) + j] = p.value[j]
  <2>1. f \in Seq(Symbols)
    BY <1>7
  <2> QED
    BY <1>2, <2>1, Joined
<1>9. Len(f) = Len(p.name) + 1 /\ f[Len(p.name) + 1] = "="
  <2>1. 1 \in 1..Len(e)
    BY <1>5
  <2> QED
    BY <1>5, <1>7, <2>1
<1>10. Len(p.name) + 1 \in 1..Len(f) /\ \A j \in 1..Len(p.name) : j \in 1..Len(f)
  BY <1>3, <1>9
<1> QED
  BY <1>2, <1>3, <1>4, <1>6, <1>7, <1>8, <1>9, <1>10

\* The name of a parameter begins after what was written before and a "&".
Offset(params, n) == IF n = 1 THEN 0 ELSE Len(Written(params)[n - 1]) + 1

\* One more parameter.
LEMMA WrittenStep ==
  ASSUME NEW params \in Seq(Fields), NEW n \in 1..Len(params),
         Written(params)[n - 1] \in Seq(Symbols)
  PROVE  LET w == Written(params)
             f == Field(params[n])
         IN  /\ w[n] \in Seq(Symbols)
             /\ Offset(params, n) \in Nat
             /\ Len(w[n]) = Offset(params, n) + Len(f)
             /\ \A j \in 1..Len(f) : w[n][Offset(params, n) + j] = f[j]
             /\ n > 1 => w[n][Len(w[n - 1]) + 1] = "&"
             /\ Len(w[n - 1]) <= Offset(params, n)
             /\ \A j \in 1..Len(w[n - 1]) : w[n][j] = w[n - 1][j]
<1> DEFINE w == Written(params)
           f == Field(params[n])
           u == w[n - 1]
           v == IF n = 1 THEN <<>> ELSE Append(u, "&")
<1>1. Len(params) \in Nat /\ n \in Nat /\ n # 0
  BY LenProperties
<1>2. params[n] \in Fields
  BY ElementOfSeq
<1>3. f \in Seq(Symbols) /\ Len(f) \in Nat
  BY <1>2, FieldFacts, LenProperties
<1>4. w[n] = v \o f
  BY <1>1, WrittenValues
<1>5. n = 1 => u = <<>>
  <2>1. n = 1 => n - 1 = 0
    OBVIOUS
  <2>2. Written(params)[0] = <<>>
    BY <1>1, WrittenValues
  <2> QED
    BY <2>1, <2>2
<1>6. u \in Seq(Symbols) /\ Len(u) \in Nat
  BY LenProperties
<1>7. Offset(params, n) = IF n = 1 THEN 0 ELSE Len(u) + 1
  BY DEF Offset
<1> HIDE DEF w, f, u
<1>8. /\ v \in Seq(Symbols) /\ Len(v) = Offset(params, n)
      /\ n > 1 => v[Len(u) + 1] = "&"
      /\ \A j \in 1..Len(u) : v[j] = u[j]
      /\ Len(u) <= Len(v)
      /\ n > 1 => Len(u) + 1 \in 1..Len(v)
  <2>1. CASE n = 1
    BY <1>5, <1>7, <2>1, EmptySeq
  <2>2. CASE n # 1
    <3>1. "&" \in Symbols
      BY DEF Symbols
    <3>2. /\ Append(u, "&") \in Seq(Symbols) /\ Len(Append(u, "&")) = Len(u) + 1
          /\ \A j \in 1..Len(u) : Append(u, "&")[j] = u[j]
          /\ Append(u, "&")[Len(u) + 1] = "&"
      BY <1>6, <3>1, AppendProperties
    <3> QED
      BY <1>6, <1>7, <2>2, <3>2
  <2> QED
    BY <2>1, <2>2
<1> HIDE DEF v
<1>9. /\ v \o f \in Seq(Symbols) /\ Len(v \o f) = Len(v) + Len(f)
      /\ \A j \in 1..Len(v) : (v \o f)[j] = v[j]
      /\ \A j \in 1..Len(f) : (v \o f)[Len(v) + j] = f[j]
  <2>1. v \in Seq(Symbols)
    BY <1>8
  <2> QED
    BY <1>3, <2>1, Joined
<1>10. Len(v) \in Nat /\ \A j \in 1..Len(u) : j \in 1..Len(v)
  <2>1. Len(v) \in Nat
    BY <1>8, LenProperties
  <2> QED
    BY <1>6, <1>8, <2>1
<1>11. /\ w[n] \in Seq(Symbols)
       /\ Offset(params, n) \in Nat
       /\ Len(w[n]) = Offset(params, n) + Len(f)
       /\ \A j \in 1..Len(f) : w[n][Offset(params, n) + j] = f[j]
       /\ n > 1 => w[n][Len(u) + 1] = "&"
       /\ Len(u) <= Offset(params, n)
       /\ \A j \in 1..Len(u) : w[n][j] = u[j]
  BY <1>4, <1>8, <1>9, <1>10
<1> QED
  BY <1>11 DEF w, f, u

\* Everything that is written is a sequence of symbols.
LEMMA WrittenSymbols ==
  ASSUME NEW params \in Seq(Fields), NEW n \in 0..Len(params)
  PROVE  Written(params)[n] \in Seq(Symbols)
<1> DEFINE S == {m \in Nat : m <= Len(params) => Written(params)[m] \in Seq(Symbols)}
<1>1. Len(params) \in Nat
  BY LenProperties
<1>2. 0 \in S
  <2>1. Written(params)[0] = <<>>
    BY <1>1, WrittenValues
  <2> QED
    BY <2>1, EmptySeq
<1>3. ASSUME NEW m \in Nat, m \in S PROVE m + 1 \in S
  <2> SUFFICES ASSUME m + 1 <= Len(params)
               PROVE  Written(params)[m + 1] \in Seq(Symbols)
    OBVIOUS
  <2>1. m + 1 \in 1..Len(params) /\ (m + 1) - 1 = m /\ Written(params)[m] \in Seq(Symbols)
    BY <1>1, <1>3
  <2> QED
    BY <2>1, WrittenStep
<1>4. n \in S
  <2> HIDE DEF S
  <2> QED
    BY <1>2, <1>3, SetInduction
<1> QED
  BY <1>1, <1>4

\* What is written is not changed by what is written after it.
LEMMA WrittenPrefix ==
  ASSUME NEW params \in Seq(Fields), NEW n \in 0..Len(params)
  PROVE  /\ Len(Written(params)[n]) <= Len(Encode(params))
         /\ \A j \in 1..Len(Written(params)[n]) : Encode(params)[j] = Written(params)[n][j]
<1> DEFINE w == Written(params)
           Kept(m) == /\ Len(w[n]) <= Len(w[m])
                      /\ \A j \in 1..Len(w[n]) : w[m][j] = w[n][j]
           S == {m \in Nat : n <= m /\ m <= Len(params) => Kept(m)}
<1>1. Len(params) \in Nat /\ n \in Nat
  BY LenProperties
<1>2. ASSUME NEW m \in 0..Len(params) PROVE Len(w[m]) \in Nat
  BY WrittenSymbols, LenProperties
<1>3. 0 \in S
  BY <1>1, <1>2
<1>4. ASSUME NEW m \in Nat, m \in S PROVE m + 1 \in S
  <2> SUFFICES ASSUME n <= m + 1, m + 1 <= Len(params)
               PROVE  Kept(m + 1)
    OBVIOUS
  <2>1. CASE n = m + 1
    BY <1>2, <2>1
  <2>2. CASE n # m + 1
    <3>1. /\ n <= m /\ m <= Len(params) /\ m \in 0..Len(params)
          /\ m + 1 \in 1..Len(params) /\ (m + 1) - 1 = m /\ m + 1 \in 0..Len(params)
      BY <1>1, <2>2
    <3>2. Kept(m)
      BY <1>4, <3>1
    <3>3. Len(w[m]) \in Nat /\ Len(w[n]) \in Nat /\ Len(w[m + 1]) \in Nat
      BY <1>2, <3>1
    <3>4. w[m] \in Seq(Symbols)
      BY <3>1, WrittenSymbols
    <3>5. /\ Offset(params, m + 1) \in Nat
          /\ Len(w[m + 1]) = Offset(params, m + 1) + Len(Field(params[m + 1]))
          /\ Len(w[m]) <= Offset(params, m + 1)
          /\ \A j \in 1..Len(w[m]) : w[m + 1][j] = w[m][j]
      <4>1. ASSUME NEW i \in 1..Len(params), i - 1 = m
            PROVE  /\ Offset(params, i) \in Nat
                   /\ Len(w[i]) = Offset(params, i) + Len(Field(params[i]))
                   /\ Len(w[m]) <= Offset(params, i)
                   /\ \A j \in 1..Len(w[m]) : w[i][j] = w[m][j]
        BY <3>4, <4>1, WrittenStep
      <4> QED
        BY <3>1, <4>1
    <3>6. Len(Field(params[m + 1])) \in Nat
      BY <3>1, ElementOfSeq, FieldFacts, LenProperties
    <3>7. Len(w[m]) <= Len(w[m + 1])
      BY <3>3, <3>5, <3>6
    <3> HIDE DEF w
    <3> QED
      BY <3>2, <3>3, <3>5, <3>7
  <2> QED
    BY <2>1, <2>2
<1>5. Len(params) \in S
  <2> HIDE DEF S
  <2> QED
    BY <1>1, <1>3, <1>4, SetInduction
<1> QED
  BY <1>1, <1>5 DEF Encode

\* Where the symbols of a parameter are in the query.
LEMMA QueryFacts ==
  ASSUME NEW params \in Seq(Fields), NEW n \in 1..Len(params)
  PROVE  LET q == Encode(params)
             p == params[n]
             start == Offset(params, n)
             end == start + Len(p.name) + 1 + Len(p.value)
         IN  /\ q \in Seq(Symbols) /\ Len(q) \in Nat /\ start \in Nat
             /\ end <= Len(q)
             /\ \A j \in 1..Len(p.name) : q[start + j] = p.name[j]
             /\ q[start + Len(p.name) + 1] = "="
             /\ \A j \in 1..Len(p.value) : q[start + Len(p.name) + 1 + j] = p.value[j]
             /\ n = Len(params) => end = Len(q)
             /\ n < Len(params) => /\ Offset(params, n + 1) = end + 1
                                   /\ q[end + 1] = "&"
                                   /\ end + 2 <= Len(q)
<1> DEFINE q == Encode(params)
           w == Written(params)
           p == params[n]
           f == Field(params[n])
           start == Offset(params, n)
           a == Len(p.name)
           b == Len(p.value)
           c == Len(f)
           end == start + a + 1 + b
<1>1. /\ Len(params) \in Nat /\ n \in Nat /\ n # 0
      /\ Len(params) \in 0..Len(params) /\ n \in 0..Len(params) /\ n - 1 \in 0..Len(params)
  BY LenProperties
<1>2. p \in Fields
  BY ElementOfSeq
<1>3. /\ a \in Nat \ {0} /\ b \in Nat
      /\ c = a + 1 + b
      /\ \A j \in 1..a : f[j] = p.name[j]
      /\ f[a + 1] = "="
      /\ \A j \in 1..b : f[a + 1 + j] = p.value[j]
  BY <1>2, FieldFacts
<1>4. q \in Seq(Symbols) /\ Len(q) \in Nat
  BY <1>1, WrittenSymbols, LenProperties DEF Encode
<1>5. /\ w[n] \in Seq(Symbols) /\ start \in Nat /\ Len(w[n]) = start + c
      /\ \A j \in 1..c : w[n][start + j] = f[j]
  BY <1>1, WrittenSymbols, WrittenStep
<1> HIDE DEF q, w, p, f, start, a, b, c
<1>6. /\ Len(w[n]) <= Len(q)
      /\ \A j \in 1..Len(w[n]) : q[j] = w[n][j]
  BY <1>1, WrittenPrefix DEF q, w
<1>7. Len(w[n]) = end
  BY <1>3, <1>5
<1>8. ASSUME NEW j \in 1..c PROVE q[start + j] = f[j]
  <2>1. start + j \in 1..Len(w[n])
    BY <1>3, <1>5
  <2> QED
    BY <1>5, <1>6, <2>1
<1>9. \A j \in 1..a : q[start + j] = p.name[j]
  <2>1. \A j \in 1..a : j \in 1..c
    BY <1>3
  <2> QED
    BY <1>3, <1>8, <2>1
<1>10. q[start + a + 1] = "="
  <2>1. /\ a + 1 \in 1..c
        /\ start + (a + 1) = start + a + 1
    BY <1>3, <1>5
  <2>2. q[start + (a + 1)] = f[a + 1]
    BY <1>8, <2>1
  <2> QED
    BY <1>3, <2>1, <2>2
<1>11. ASSUME NEW j \in 1..b
       PROVE  q[start + a + 1 + j] = p.value[j]
  <2>1. /\ a + 1 + j \in 1..c
        /\ start + (a + 1 + j) = start + a + 1 + j
    BY <1>3, <1>5
  <2>2. q[start + (a + 1 + j)] = f[a + 1 + j]
    BY <1>8, <2>1
  <2> QED
    BY <1>3, <2>1, <2>2
<1>12. n = Len(params) => end = Len(q)
  BY <1>7 DEF q, w, Encode
<1>13. ASSUME n < Len(params)
       PROVE  /\ Offset(params, n + 1) = end + 1
              /\ q[end + 1] = "&"
              /\ end + 2 <= Len(q)
  <2>1. /\ n + 1 \in 1..Len(params) /\ n + 1 \in 0..Len(params)
        /\ (n + 1) - 1 = n /\ n + 1 > 1 /\ n + 1 # 1
    BY <1>1, <1>13
  <2>2. Offset(params, n + 1) = end + 1
    BY <1>7, <2>1 DEF Offset, w
  <2>3. /\ w[n + 1][Len(w[n]) + 1] = "&"
        /\ Len(w[n + 1]) = Offset(params, n + 1) + Len(Field(params[n + 1]))
    BY <1>5, <2>1, WrittenStep DEF w
  <2>4. params[n + 1] \in Fields
    BY <2>1, ElementOfSeq
  <2>5. Len(Field(params[n + 1])) \in Nat /\ Len(Field(params[n + 1])) >= 2
    <3> DEFINE x == Len(params[n + 1].name)
               y == Len(params[n + 1].value)
    <3>1. x \in Nat \ {0} /\ y \in Nat /\ Len(Field(params[n + 1])) = x + 1 + y
      BY <2>4, FieldFacts
    <3> HIDE DEF x, y
    <3> QED
      BY <3>1
  <2>6. /\ Len(w[n + 1]) <= Len(q)
        /\ \A j \in 1..Len(w[n + 1]) : q[j] = w[n + 1][j]
    BY <2>1, WrittenPrefix DEF q, w
  <2>7. end \in Nat /\ Len(w[n + 1]) >= end + 2 /\ Len(w[n + 1]) \in Nat
    <3> DEFINE d == Len(Field(params[n + 1]))
               e == Len(w[n + 1])
    <3>1. end \in Nat
      BY <1>3, <1>5
    <3>2. d \in Nat /\ d >= 2 /\ e = (end + 1) + d
      BY <2>2, <2>3, <2>5
    <3> HIDE DEF d, e, end
    <3>3. e >= end + 2 /\ e \in Nat
      BY <3>1, <3>2
    <3> QED
      BY <3>1, <3>3 DEF e
  <2>8. end + 1 \in 1..Len(w[n + 1]) /\ end + 2 <= Len(q)
    BY <1>4, <2>6, <2>7
  <2>9. q[end + 1] = w[n + 1][end + 1]
    BY <2>6, <2>8
  <2> QED
    BY <1>7, <2>2, <2>3, <2>8, <2>9
<1>14. end <= Len(q)
  BY <1>6, <1>7
<1> QED
  BY <1>4, <1>5, <1>9, <1>10, <1>11, <1>12, <1>13, <1>14 DEF q, p, start, a, b

\* A request of no parameters is an empty query.
LEMMA QueryEmpty == Encode(<<>>) = <<>>
<1>1. Len(<<>>) = 0
  BY EmptySeq
<1> QED
  BY <1>1, WrittenValues DEF Encode
-----------------------------------------------------------------------------
(* Where Parse is in its query, and what it has read. *)

\* No parameter is empty.
Proper(params) == \A i \in 1..Len(params) : params[i].value # <<>>

\* s ends in the first k symbols of t; it is longer only for an empty parameter.
Reaches(params, s, t, k) ==
  /\ Len(s) >= k
  /\ \A j \in 1..k : s[Len(s) - k + j] = t[j]
  /\ Proper(params) => Len(s) = k

\* What is meant by the first m parameters.
Read(params, m) ==
  {params[i] : i \in {j \in 1..m :
     /\ params[j].value # <<>>
     /\ \A k \in 1..j - 1 : params[k].name # params[j].name}}

\* The next symbol is symbol k + 1 of name n, or the "=" after it.
InName(n, k) ==
  /\ loop = "name"
  /\ index = Offset(request, n) + k + 1
  /\ value = <<>>
  /\ Reaches(request, key, request[n].name, k)
  /\ Proper(request) => stored = Read(request, n - 1)

\* The next symbol is symbol k + 1 of value n, or the one after it.
InValue(n, k) ==
  /\ loop = "value"
  /\ index = Offset(request, n) + Len(request[n].name) + k + 2
  /\ Len(value) = k /\ \A j \in 1..k : value[j] = request[n].value[j]
  /\ Reaches(request, key, request[n].name, Len(request[n].name))
  /\ Proper(request) => stored = Read(request, n - 1)

Nowhere ==
  /\ request = <<>> /\ loop = "name" /\ index = 1
  /\ key = <<>> /\ value = <<>> /\ stored = {}

Finished ==
  /\ loop = "done"
  /\ Proper(request) => stored = Read(request, Len(request))

Place ==
  \/ \E n \in 1..Len(request) : \E k \in 0..Len(request[n].name) : InName(n, k)
  \/ \E n \in 1..Len(request) : \E k \in 0..Len(request[n].value) : InValue(n, k)
  \/ Nowhere
  \/ Finished

\* The inductive invariant.  A "&" in a value ends it early, and Parse is nowhere
\* in the request any more.
ParseInv ==
  /\ TypeOK
  /\ Unbroken(request) => Place
  /\ NothingMisattributed

\* One more symbol of a name.
LEMMA ReachesStep ==
  ASSUME NEW params, NEW t, NEW s \in Seq(Symbols), NEW x \in Symbols, NEW k \in Nat,
         Reaches(params, s, t, k), x = t[k + 1]
  PROVE  Reaches(params, Append(s, x), t, k + 1)
<1> DEFINE r == Append(s, x)
<1>1. /\ Len(r) = Len(s) + 1 /\ r[Len(s) + 1] = x
      /\ \A j \in 1..Len(s) : r[j] = s[j]
  BY AppendProperties
<1>2. Len(s) \in Nat
  BY LenProperties
<1> HIDE DEF r
<1>3. Len(r) >= k + 1 /\ (Proper(params) => Len(r) = k + 1)
  BY <1>1, <1>2 DEF Reaches
<1>4. ASSUME NEW j \in 1..k + 1 PROVE r[Len(r) - (k + 1) + j] = t[j]
  <2> DEFINE m == Len(s)
  <2>1. m \in Nat /\ m >= k /\ Len(r) - (k + 1) + j = m - k + j
    BY <1>1, <1>2 DEF Reaches
  <2>2. CASE j = k + 1
    <3>1. m - k + j = m + 1
      BY <2>1, <2>2
    <3> QED
      BY <1>1, <2>1, <2>2, <3>1
  <2>3. CASE j \in 1..k
    <3>1. m - k + j \in 1..m
      BY <2>1, <2>3
    <3>2. r[m - k + j] = s[m - k + j] /\ s[m - k + j] = t[j]
      BY <1>1, <2>3, <3>1 DEF Reaches
    <3> QED
      BY <2>1, <3>2
  <2> QED
    BY <2>2, <2>3
<1> QED
  BY <1>3, <1>4 DEF Reaches, r

\* The names that are read are those that are there.
LEMMA ReadNames ==
  ASSUME NEW params \in Seq(Fields), Proper(params), NEW m \in 0..Len(params), NEW x
  PROVE  x \in Names(Read(params, m)) <=> \E i \in 1..m : params[i].name = x
<1>1. Len(params) \in Nat
  BY LenProperties
<1>2. ASSUME NEW i \in 1..m, params[i].name = x PROVE x \in Names(Read(params, m))
  <2> DEFINE S == {j \in 1..m : params[j].name = x}
  <2>1. S \in SUBSET Nat /\ S # {}
    BY <1>2
  <2>2. PICK j \in S : \A k \in S : j <= k
    <3> HIDE DEF S
    <3> QED
      BY <2>1, Least
  <2>3. \A k \in 1..j - 1 : k \in 1..m /\ ~(j <= k)
    BY <1>1
  <2>4. \A k \in 1..j - 1 : params[k].name # params[j].name
    BY <2>2, <2>3
  <2>5. j \in 1..Len(params)
    BY <1>1
  <2>6. params[j] \in Read(params, m)
    BY <2>4, <2>5 DEF Proper, Read
  <2> QED
    BY <2>6 DEF Names
<1>3. ASSUME x \in Names(Read(params, m)) PROVE \E i \in 1..m : params[i].name = x
  BY <1>3 DEF Names, Read
<1> QED
  BY <1>2, <1>3

\* One more parameter is read, unless its name is there already.
LEMMA ReadStep ==
  ASSUME NEW params \in Seq(Fields), Proper(params), NEW n \in 1..Len(params)
  PROVE  Read(params, n) =
           IF params[n].name \in Names(Read(params, n - 1)) THEN Read(params, n - 1)
           ELSE Read(params, n - 1) \cup {params[n]}
<1>1. Len(params) \in Nat
  BY LenProperties
<1>2. n - 1 \in 0..Len(params)
  BY <1>1
<1>3. params[n].name \in Names(Read(params, n - 1)) <=>
        \E i \in 1..n - 1 : params[i].name = params[n].name
  BY <1>2, ReadNames
<1>4. 1..n = (1..n - 1) \cup {n} /\ n \notin 1..n - 1
  BY <1>1
<1> DEFINE First(j) == /\ params[j].value # <<>>
                       /\ \A k \in 1..j - 1 : params[k].name # params[j].name
<1>5. /\ Read(params, n) = {params[i] : i \in {j \in 1..n : First(j)}}
      /\ Read(params, n - 1) = {params[i] : i \in {j \in 1..n - 1 : First(j)}}
  BY DEF Read
<1>6. First(n) <=> params[n].name \notin Names(Read(params, n - 1))
  BY <1>3 DEF Proper
<1> HIDE DEF First
<1> QED
  BY <1>4, <1>5, <1>6

\* What the types say of a parameter of the request and of its place in the query.
LEMMA Located ==
  ASSUME TypeOK, NEW n \in 1..Len(request)
  PROVE  LET p == request[n]
             start == Offset(request, n)
             end == start + Len(p.name) + 1 + Len(p.value)
         IN  /\ request \in Seq(Fields) /\ p \in Fields
             /\ Len(p.name) \in Nat \ {0} /\ Len(p.value) \in Nat
             /\ p.name \in Seq(Symbols) /\ p.value \in Seq(Symbols)
             /\ \A j \in 1..Len(p.name) : p.name[j] \in Letters
             /\ \A j \in 1..Len(p.value) : p.value[j] \in Symbols
             /\ Len(query) \in Nat /\ start \in Nat
             /\ end <= Len(query)
             /\ \A j \in 1..Len(p.name) : query[start + j] = p.name[j]
             /\ query[start + Len(p.name) + 1] = "="
             /\ \A j \in 1..Len(p.value) : query[start + Len(p.name) + 1 + j] = p.value[j]
             /\ n = Len(request) => end = Len(query)
             /\ n < Len(request) => /\ Offset(request, n + 1) = end + 1
                                    /\ query[end + 1] = "&"
                                    /\ end + 2 <= Len(query)
<1>1. request \in Seq(Fields) /\ query = Encode(request)
  BY RequestsAssumption DEF TypeOK
<1>2. request[n] \in Fields
  BY <1>1, ElementOfSeq
<1>3. LET p == request[n]
          start == Offset(request, n)
          end == start + Len(p.name) + 1 + Len(p.value)
      IN  /\ Len(query) \in Nat /\ start \in Nat
          /\ end <= Len(query)
          /\ \A j \in 1..Len(p.name) : query[start + j] = p.name[j]
          /\ query[start + Len(p.name) + 1] = "="
          /\ \A j \in 1..Len(p.value) : query[start + Len(p.name) + 1 + j] = p.value[j]
          /\ n = Len(request) => end = Len(query)
          /\ n < Len(request) => /\ Offset(request, n + 1) = end + 1
                                 /\ query[end + 1] = "&"
                                 /\ end + 2 <= Len(query)
  BY <1>1, QueryFacts
<1> QED
  BY <1>1, <1>2, <1>3, FieldFacts

\* The types hold whatever the values have in them.
LEMMA TypesStep == TypeOK /\ [Next]_vars => TypeOK'
<1> SUFFICES ASSUME TypeOK, [Next]_vars PROVE TypeOK'
  OBVIOUS
<1>1. request \in Seq(Fields) /\ Len(request) \in 0..Len(request)
  BY RequestsAssumption, LenProperties DEF TypeOK
<1>2. query \in Seq(Symbols) /\ Len(query) \in Nat
  BY <1>1, WrittenSymbols, LenProperties DEF TypeOK, Encode
<1>3. ASSUME ~AtEnd PROVE query[index] \in Symbols /\ index + 1 \in 1..Len(query) + 1
  <2>1. index \in 1..Len(query)
    BY <1>2, <1>3 DEF AtEnd, TypeOK
  <2> QED
    BY <1>2, <2>1, ElementOfSeq
<1>4. CASE NameSymbol
  <2>1. key' \in Seq(Symbols)
    BY <1>3, <1>4, AppendProperties DEF NameSymbol, TypeOK
  <2> QED
    BY <1>3, <1>4, <2>1 DEF NameSymbol, TypeOK
<1>5. CASE NameEnds
  BY <1>3, <1>5 DEF NameEnds, TypeOK
<1>6. CASE ValueSymbol
  <2>1. value' \in Seq(Symbols)
    BY <1>3, <1>6, AppendProperties DEF ValueSymbol, TypeOK
  <2> QED
    BY <1>3, <1>6, <2>1 DEF ValueSymbol, TypeOK
<1>7. CASE FieldEnds
  <2>1. /\ index' \in 1..Len(query) + 1
        /\ loop' = (IF index' > Len(query) THEN "done" ELSE "name")
        /\ request' = request /\ query' = query
    BY <1>3, <1>7 DEF FieldEnds, TypeOK
  <2>2. Store
    BY <1>7 DEF FieldEnds
  <2> DEFINE new == [name |-> key, value |-> value]
  <2>3. new \in Parameters /\ new.name = key
    BY DEF TypeOK, Parameters
  <2>4. key \notin Names(stored) => \A q \in stored : q.name # key
    BY DEF Names
  <2>5. \/ key' = <<>> /\ value' = <<>>
        \/ key' = key /\ value' = value
    BY <2>2 DEF Store
  <2>6. stored' = stored \/ (key \notin Names(stored) /\ stored' = stored \cup {new})
    <3>1. CASE key # <<>> /\ value # <<>>
      BY <2>2, <3>1 DEF Store
    <3>2. CASE key = <<>> \/ value = <<>>
      BY <2>2, <3>2 DEF Store
    <3> QED
      BY <3>1, <3>2
  <2> HIDE DEF new
  <2>7. stored' \subseteq Parameters /\ \A q, r \in stored' : q.name = r.name => q = r
    BY <2>3, <2>4, <2>6 DEF TypeOK
  <2>8. key' \in Seq(Symbols) /\ value' \in Seq(Symbols)
    BY <2>5, EmptySeq DEF TypeOK
  <2> QED
    BY <2>1, <2>7, <2>8 DEF TypeOK
<1>8. CASE UNCHANGED vars
  BY <1>8 DEF vars, TypeOK
<1> QED
  BY <1>4, <1>5, <1>6, <1>7, <1>8 DEF Next

LEMMA InitParse == Init => ParseInv
<1> SUFFICES ASSUME Init PROVE ParseInv
  OBVIOUS
<1>1. request \in Seq(Fields) /\ request \in Requests /\ Len(request) \in Nat
  BY RequestsAssumption, LenProperties DEF Init
<1>2. Len(request) \in 0..Len(request)
  BY <1>1
<1>3. query \in Seq(Symbols) /\ Len(query) \in Nat
  BY <1>1, <1>2, WrittenSymbols, LenProperties DEF Init, Encode
<1>4. TypeOK
  BY <1>1, <1>3, EmptySeq DEF Init, TypeOK
<1>5. NothingMisattributed
  BY DEF Init, NothingMisattributed
<1>6. CASE request = <<>>
  BY <1>4, <1>5, <1>6 DEF Init, ParseInv, Place, Nowhere
<1>7. CASE request # <<>>
  <2>1. 1 \in 1..Len(request)
    BY <1>1, <1>7, EmptySeq
  <2>2. Len(request[1].name) \in Nat /\ 0 \in 0..Len(request[1].name)
    BY <1>4, <2>1, Located
  <2>3. Len(<<>>) = 0
    BY EmptySeq
  <2>4. Reaches(request, <<>>, request[1].name, 0)
    BY <2>3 DEF Reaches
  <2>5. Read(request, 1 - 1) = {}
    BY DEF Read
  <2>6. InName(1, 0)
    BY <2>4, <2>5 DEF Init, InName, Offset
  <2> QED
    BY <1>4, <1>5, <2>1, <2>2, <2>6 DEF ParseInv, Place
<1> QED
  BY <1>6, <1>7

LEMMA NameSymbolParse ==
  ASSUME TypeOK, Unbroken(request), Place, NothingMisattributed, NameSymbol
  PROVE  Place' /\ NothingMisattributed'
<1>1. TypeOK /\ Place /\ NothingMisattributed
  OBVIOUS
<1>2. /\ loop = "name" /\ ~(index > Len(query)) /\ query[index] # "="
      /\ key' = Append(key, query[index]) /\ index' = index + 1
      /\ UNCHANGED <<request, query, value, loop, stored>>
  BY DEF NameSymbol, AtEnd
<1>3. ~Nowhere
  <2> SUFFICES ASSUME Nowhere PROVE FALSE
    OBVIOUS
  <2>1. query = <<>> /\ index = 1
    BY <1>1, QueryEmpty DEF TypeOK, Nowhere
  <2> QED
    BY <1>2, <2>1, EmptySeq
<1>4. PICK n \in 1..Len(request) : \E k \in 0..Len(request[n].name) : InName(n, k)
  BY <1>1, <1>2, <1>3 DEF Place, InValue, Finished
<1>k. PICK k \in 0..Len(request[n].name) : InName(n, k)
  BY <1>4
<1> DEFINE p == request[n]
           start == Offset(request, n)
           a == Len(p.name)
<1>5. /\ a \in Nat /\ start \in Nat /\ Len(query) \in Nat
      /\ query[start + a + 1] = "="
      /\ \A j \in 1..a : p.name[j] \in Letters
      /\ \A j \in 1..a : query[start + j] = p.name[j]
  BY <1>1, Located
<1>6. index = start + k + 1 /\ k \in 0..a /\ Reaches(request, key, p.name, k)
  BY <1>k DEF InName
<1> HIDE DEF p, start, a
<1>7. k + 1 \in 1..a /\ k + 1 \in 0..a /\ k \in Nat /\ start + (k + 1) = index
  <2>1. k # a
    BY <1>2, <1>5, <1>6
  <2> QED
    BY <1>5, <1>6, <2>1
<1>8. query[index] = p.name[k + 1] /\ query[index] \in Symbols
  BY <1>5, <1>7 DEF Symbols
<1>9. key \in Seq(Symbols)
  BY <1>1 DEF TypeOK
<1>10. Reaches(request, key', p.name, k + 1)
  BY <1>2, <1>6, <1>7, <1>8, <1>9, ReachesStep
<1>12. InName(n, k + 1)'
  <2>1. index' = start + (k + 1) + 1
    BY <1>2, <1>5, <1>6
  <2> QED
    BY <1>2, <1>k, <1>10, <2>1 DEF InName, p, start
<1>13. NothingMisattributed'
  BY <1>1, <1>2 DEF NothingMisattributed
<1> QED
  BY <1>2, <1>7, <1>12, <1>13 DEF Place, a, p

LEMMA NameEndsParse ==
  ASSUME TypeOK, Unbroken(request), Place, NothingMisattributed, NameEnds
  PROVE  Place' /\ NothingMisattributed'
<1>1. TypeOK /\ Place /\ NothingMisattributed
  OBVIOUS
<1>2. /\ loop = "name" /\ ~(index > Len(query)) /\ query[index] = "="
      /\ index' = index + 1 /\ loop' = "value"
      /\ UNCHANGED <<request, query, key, value, stored>>
  BY DEF NameEnds, AtEnd
<1>3. ~Nowhere
  <2> SUFFICES ASSUME Nowhere PROVE FALSE
    OBVIOUS
  <2>1. query = <<>> /\ index = 1
    BY <1>1, QueryEmpty DEF TypeOK, Nowhere
  <2> QED
    BY <1>2, <2>1, EmptySeq
<1>4. PICK n \in 1..Len(request) : \E k \in 0..Len(request[n].name) : InName(n, k)
  BY <1>1, <1>2, <1>3 DEF Place, InValue, Finished
<1>k. PICK k \in 0..Len(request[n].name) : InName(n, k)
  BY <1>4
<1> DEFINE p == request[n]
           start == Offset(request, n)
           a == Len(p.name)
           b == Len(p.value)
<1>5. /\ a \in Nat /\ b \in Nat /\ start \in Nat /\ Len(query) \in Nat
      /\ \A j \in 1..a : p.name[j] \in Letters
      /\ \A j \in 1..a : query[start + j] = p.name[j]
  BY <1>1, Located
<1>6. index = start + k + 1 /\ k \in 0..a /\ Reaches(request, key, p.name, k)
  BY <1>k DEF InName
<1> HIDE DEF p, start, a, b
<1>7. k = a
  <2> SUFFICES ASSUME k # a PROVE FALSE
    OBVIOUS
  <2>1. k + 1 \in 1..a /\ start + (k + 1) = index
    BY <1>5, <1>6
  <2>2. query[index] \in Letters
    BY <1>5, <2>1
  <2> QED
    BY <1>2, <2>2, LettersAssumption
<1>9. InValue(n, 0)'
  <2>1. index' = start + a + 0 + 2
    BY <1>2, <1>5, <1>6, <1>7
  <2>2. Len(value) = 0
    BY <1>k, EmptySeq DEF InName
  <2> QED
    BY <1>2, <1>k, <1>6, <1>7, <2>1, <2>2 DEF InName, InValue, p, start, a
<1>10. NothingMisattributed'
  BY <1>1, <1>2 DEF NothingMisattributed
<1>11. 0 \in 0..b
  BY <1>5
<1> QED
  BY <1>2, <1>9, <1>10, <1>11 DEF Place, b, p

LEMMA ValueSymbolParse ==
  ASSUME TypeOK, Unbroken(request), Place, NothingMisattributed, ValueSymbol
  PROVE  Place' /\ NothingMisattributed'
<1>1. TypeOK /\ Place /\ NothingMisattributed
  OBVIOUS
<1>2. /\ loop = "value" /\ ~(index > Len(query)) /\ query[index] # "&"
      /\ value' = Append(value, query[index]) /\ index' = index + 1
      /\ UNCHANGED <<request, query, key, loop, stored>>
  BY DEF ValueSymbol, AtEnd
<1>3. PICK n \in 1..Len(request) : \E k \in 0..Len(request[n].value) : InValue(n, k)
  BY <1>1, <1>2 DEF Place, InName, Nowhere, Finished
<1>k. PICK k \in 0..Len(request[n].value) : InValue(n, k)
  BY <1>3
<1> DEFINE p == request[n]
           start == Offset(request, n)
           a == Len(p.name)
           b == Len(p.value)
           end == start + a + 1 + b
<1>4. /\ a \in Nat /\ b \in Nat /\ start \in Nat /\ Len(query) \in Nat
      /\ \A j \in 1..b : p.value[j] \in Symbols
      /\ \A j \in 1..b : query[start + a + 1 + j] = p.value[j]
      /\ n = Len(request) => end = Len(query)
      /\ n < Len(request) => query[end + 1] = "&"
  BY <1>1, Located
<1>5. /\ index = start + a + k + 2 /\ k \in 0..b
      /\ Len(value) = k /\ \A j \in 1..k : value[j] = p.value[j]
  BY <1>k DEF InValue
<1>6. Len(request) \in Nat
  BY <1>1, RequestsAssumption, LenProperties DEF TypeOK
<1> HIDE DEF p, start, a, b
<1>7. k + 1 \in 1..b /\ k + 1 \in 0..b /\ k \in Nat /\ start + a + 1 + (k + 1) = index
  <2> SUFFICES ASSUME k = b PROVE FALSE
    BY <1>4, <1>5
  <2>1. index = end + 1
    BY <1>4, <1>5
  <2> HIDE DEF end
  <2> QED
    BY <1>2, <1>4, <1>6, <2>1
<1>8. query[index] = p.value[k + 1] /\ query[index] \in Symbols
  BY <1>4, <1>7
<1>9. value \in Seq(Symbols)
  BY <1>1 DEF TypeOK
<1>10. /\ value' \in Seq(Symbols) /\ Len(value') = k + 1
       /\ value'[k + 1] = p.value[k + 1]
       /\ \A j \in 1..k : value'[j] = p.value[j]
  BY <1>2, <1>5, <1>8, <1>9, AppendProperties
<1>11. \A j \in 1..k + 1 : value'[j] = p.value[j]
  <2>1. \A j \in 1..k + 1 : j \in 1..k \/ j = k + 1
    BY <1>7
  <2> QED
    BY <1>10, <2>1
<1>13. InValue(n, k + 1)'
  <2>1. index' = start + a + (k + 1) + 2
    BY <1>2, <1>4, <1>5
  <2> QED
    BY <1>2, <1>k, <1>10, <1>11, <2>1 DEF InValue, p, start, a
<1>14. NothingMisattributed'
  BY <1>1, <1>2 DEF NothingMisattributed
<1> QED
  BY <1>2, <1>7, <1>13, <1>14 DEF Place, b, p

\* A parameter that is not empty is stored; one that is leaves its name behind.
LEMMA StoreParse ==
  ASSUME TypeOK, Unbroken(request), NothingMisattributed, Store, UNCHANGED request,
         NEW n \in 1..Len(request), InValue(n, Len(request[n].value))
  PROVE  /\ value' = <<>>
         /\ NothingMisattributed'
         /\ Proper(request) => key' = <<>> /\ stored' = Read(request, n)
<1> DEFINE p == request[n]
           a == Len(p.name)
           b == Len(p.value)
<1>1. /\ request \in Seq(Fields) /\ p \in Fields /\ a \in Nat \ {0} /\ b \in Nat
      /\ p.name \in Seq(Symbols) /\ p.value \in Seq(Symbols)
  BY Located
<1>2. p = [name |-> p.name, value |-> p.value]
  BY <1>1 DEF Fields
<1>3. key \in Seq(Symbols) /\ value \in Seq(Symbols)
  BY DEF TypeOK
<1>4. /\ Len(value) = b /\ \A j \in 1..b : value[j] = p.value[j]
      /\ Len(key) >= a /\ \A j \in 1..a : key[Len(key) - a + j] = p.name[j]
      /\ Proper(request) => Len(key) = a /\ stored = Read(request, n - 1)
  BY DEF InValue, Reaches
<1>5. value = p.value
  <2> HIDE DEF p
  <2> QED
    BY <1>1, <1>3, <1>4, SeqEqual
<1>6. EndsIn(key, p.name) /\ (Len(key) = a => key = p.name)
  <2>1. EndsIn(key, p.name)
    BY <1>4 DEF EndsIn
  <2> HIDE DEF p
  <2>2. ASSUME Len(key) = a, NEW j \in 1..a PROVE key[j] = p.name[j]
    <3>1. Len(key) - a + j = j
      BY <1>1, <2>2
    <3> QED
      BY <1>4, <3>1
  <2> QED
    BY <1>1, <1>3, <2>1, <2>2, SeqEqual
<1>7. key # <<>>
  <2>1. Len(key) # 0
    BY <1>1, <1>3, <1>4, LenProperties
  <2> QED
    BY <2>1, EmptySeq
<1>8. Proper(request) => value # <<>>
  BY <1>5 DEF Proper
<1>9. CASE value = <<>>
  <2>1. UNCHANGED <<key, value, stored>>
    BY <1>9 DEF Store
  <2>2. NothingMisattributed'
    BY <2>1 DEF NothingMisattributed
  <2> QED
    BY <1>8, <1>9, <2>1, <2>2
<1>10. CASE value # <<>>
  <2> DEFINE new == [name |-> key, value |-> value]
  <2>1. /\ stored' = IF key \in Names(stored) THEN stored ELSE stored \cup {new}
        /\ key' = <<>> /\ value' = <<>>
    BY <1>7, <1>10 DEF Store
  <2>2. new.name = key /\ new.value = p.value
    BY <1>5
  <2>4. Len(key) = a => new = p
    BY <1>2, <1>5, <1>6
  <2> HIDE DEF new, p
  <2>6. NothingMisattributed'
    <3> SUFFICES ASSUME NEW q \in stored'
                 PROVE  \E i \in 1..Len(request) :
                          EndsIn(q.name, request[i].name) /\ q.value = request[i].value
      BY DEF NothingMisattributed
    <3>1. CASE q \in stored
      BY <3>1 DEF NothingMisattributed
    <3>2. CASE q = new
      BY <1>6, <2>2, <3>2 DEF p
    <3> QED
      BY <2>1, <3>1, <3>2
  <2>7. ASSUME Proper(request) PROVE stored' = Read(request, n)
    <3>1. Len(key) = a /\ stored = Read(request, n - 1) /\ new = p /\ key = p.name
      BY <1>4, <1>6, <2>4, <2>7
    <3>2. Read(request, n) =
            IF p.name \in Names(Read(request, n - 1)) THEN Read(request, n - 1)
            ELSE Read(request, n - 1) \cup {p}
      BY <1>1, <2>7, ReadStep DEF p
    <3> QED
      BY <2>1, <3>1, <3>2
  <2> QED
    BY <2>1, <2>6, <2>7
<1> QED
  BY <1>9, <1>10

LEMMA FieldEndsParse ==
  ASSUME TypeOK, Unbroken(request), Place, NothingMisattributed, FieldEnds
  PROVE  Place' /\ NothingMisattributed'
<1>1. TypeOK /\ Place /\ NothingMisattributed
  OBVIOUS
<1>2. /\ \/ /\ loop = "value" /\ ~(index > Len(query)) /\ query[index] = "&"
            /\ index' = index + 1
         \/ loop # "done" /\ index > Len(query) /\ index' = index
      /\ loop' = (IF index' > Len(query) THEN "done" ELSE "name")
      /\ Store
      /\ UNCHANGED <<request, query>>
  BY DEF FieldEnds, AtEnd
<1>3. request \in Seq(Fields) /\ Len(request) \in Nat
  BY <1>1, RequestsAssumption, LenProperties DEF TypeOK
<1>4. CASE Nowhere
  <2>1. query = <<>> /\ index = 1 /\ key = <<>> /\ value = <<>> /\ stored = {}
    BY <1>1, <1>4, QueryEmpty DEF TypeOK, Nowhere
  <2>2. Len(query) = 0 /\ Len(request) = 0
    BY <1>4, <2>1, EmptySeq DEF Nowhere
  <2>3. index' = 1 /\ loop' = "done"
    BY <1>2, <1>4, <2>1, <2>2 DEF Nowhere
  <2>4. UNCHANGED <<key, value, stored>>
    BY <1>2, <2>1 DEF Store
  <2>5. NothingMisattributed'
    BY <1>1, <1>2, <2>4 DEF NothingMisattributed
  <2>6. Read(request, Len(request)) = {}
    BY <2>2 DEF Read
  <2>7. Finished'
    BY <1>2, <2>1, <2>3, <2>4, <2>6 DEF Finished
  <2> QED
    BY <2>5, <2>7 DEF Place
<1>5. ASSUME NEW n \in 1..Len(request),
             \E k \in 0..Len(request[n].name) : InName(n, k)
      PROVE  FALSE
  <2>1. PICK k \in 0..Len(request[n].name) : InName(n, k)
    BY <1>5
  <2> DEFINE start == Offset(request, n)
             a == Len(request[n].name)
             b == Len(request[n].value)
  <2>2. /\ a \in Nat /\ b \in Nat /\ start \in Nat /\ Len(query) \in Nat
        /\ start + a + 1 + b <= Len(query)
    BY <1>1, Located
  <2>3. loop = "name" /\ index = start + k + 1 /\ k \in 0..a
    BY <2>1 DEF InName
  <2> HIDE DEF start, a, b
  <2>4. ~(index > Len(query))
    BY <2>2, <2>3
  <2> QED
    BY <1>2, <2>3, <2>4
<1>6. ASSUME NEW n \in 1..Len(request),
             \E k \in 0..Len(request[n].value) : InValue(n, k)
      PROVE  Place' /\ NothingMisattributed'
  <2>1. PICK k \in 0..Len(request[n].value) : InValue(n, k)
    BY <1>6
  <2> DEFINE start == Offset(request, n)
             a == Len(request[n].name)
             b == Len(request[n].value)
             end == start + a + 1 + b
  <2>2. /\ a \in Nat /\ b \in Nat /\ start \in Nat /\ Len(query) \in Nat
        /\ end <= Len(query)
        /\ \A j \in 1..b : request[n].value[j] # "&"
        /\ \A j \in 1..b : query[start + a + 1 + j] = request[n].value[j]
        /\ n = Len(request) => end = Len(query)
        /\ n < Len(request) => /\ Offset(request, n + 1) = end + 1
                               /\ query[end + 1] = "&"
                               /\ end + 2 <= Len(query)
    BY <1>1, Located DEF Unbroken
  <2>3. index = start + a + k + 2 /\ k \in 0..b /\ loop = "value"
    BY <2>1 DEF InValue
  <2> HIDE DEF start, a, b
  <2>4. k = b
    <3> SUFFICES ASSUME k # b PROVE FALSE
      OBVIOUS
    <3>1. k + 1 \in 1..b /\ start + a + 1 + (k + 1) = index /\ ~(index > Len(query))
      BY <2>2, <2>3
    <3>2. query[index] # "&"
      BY <2>2, <3>1
    <3> QED
      BY <1>2, <3>1, <3>2
  <2>5. index = end + 1 /\ end \in Nat
    BY <2>2, <2>3, <2>4
  <2>6. InValue(n, Len(request[n].value))
    BY <2>1, <2>4 DEF b
  <2>7. /\ value' = <<>>
        /\ NothingMisattributed'
        /\ Proper(request) => key' = <<>> /\ stored' = Read(request, n)
    BY <1>1, <1>2, <2>6, StoreParse
  <2> HIDE DEF end
  <2>8. CASE n < Len(request)
    <3>1. index' = end + 2 /\ loop' = "name" /\ index' <= Len(query)
      BY <1>2, <2>2, <2>5, <2>8
    <3>3. n + 1 \in 1..Len(request) /\ (n + 1) - 1 = n
      BY <1>3, <2>8
    <3>4. index' = Offset(request, n + 1) + 0 + 1
      BY <2>2, <2>5, <2>8, <3>1
    <3>5. Reaches(request, key', request[n + 1].name, 0)
      <4>1. key' \in Seq(Symbols)
        BY <1>1, <1>2, EmptySeq DEF TypeOK, Store
      <4> QED
        BY <2>7, <4>1, EmptySeq, LenProperties DEF Reaches
    <3>6. InName(n + 1, 0)'
      BY <1>2, <2>7, <3>1, <3>3, <3>4, <3>5 DEF InName
    <3>7. 0 \in 0..Len(request[n + 1].name)
      BY <1>1, <3>3, Located
    <3> QED
      BY <1>2, <2>7, <3>3, <3>6, <3>7 DEF Place
  <2>9. CASE n = Len(request)
    <3>1. index' = end + 1 /\ loop' = "done" /\ index' > Len(query)
      BY <1>2, <2>2, <2>5, <2>9
    <3>3. Finished'
      BY <1>2, <2>7, <2>9, <3>1 DEF Finished
    <3> QED
      BY <2>7, <3>3 DEF Place
  <2> QED
    BY <1>3, <2>8, <2>9
<1>7. CASE Finished
  <2>1. AtEnd
    BY <1>1, <1>7 DEF TypeOK, Finished, AtEnd
  <2> QED
    BY <1>7, <2>1 DEF FieldEnds, Finished, AtEnd
<1> QED
  BY <1>1, <1>4, <1>5, <1>6, <1>7 DEF Place
-----------------------------------------------------------------------------
\* Parse is always where the inductive invariant says.
LEMMA ParseInvariant == Spec => []ParseInv
<1>1. ASSUME ParseInv, [Next]_vars PROVE ParseInv'
  <2>1. TypeOK'
    BY <1>1, TypesStep DEF ParseInv
  <2>2. request' = request
    BY <1>1 DEF Next, NameSymbol, NameEnds, ValueSymbol, FieldEnds, vars
  <2>3. CASE Unbroken(request)
    <3>1. TypeOK /\ Place /\ NothingMisattributed
      BY <1>1, <2>3 DEF ParseInv
    <3>2. CASE UNCHANGED vars
      <4>1. Place' /\ NothingMisattributed'
        BY <3>1, <3>2 DEF vars, Place, InName, InValue, Nowhere, Finished,
          NothingMisattributed
      <4> QED
        BY <2>1, <4>1 DEF ParseInv
    <3>3. CASE Next
      <4>1. Place' /\ NothingMisattributed'
        BY <2>3, <3>1, <3>3, NameSymbolParse, NameEndsParse, ValueSymbolParse,
          FieldEndsParse DEF Next
      <4> QED
        BY <2>1, <4>1 DEF ParseInv
    <3> QED
      BY <1>1, <3>2, <3>3
  <2>4. CASE ~Unbroken(request)
    <3>1. ~Unbroken(request)'
      BY <2>2, <2>4 DEF Unbroken
    <3> QED
      BY <2>1, <3>1 DEF ParseInv, NothingMisattributed
  <2> QED
    BY <2>3, <2>4
<1> QED
  BY <1>1, InitParse, PTL DEF Spec

\* The types, and that no two parameters stored have one name: key_values_ is a
\* map, and what Parse reads of a query stays within it.
THEOREM TypesOfParse == Spec => []TypeOK
<1>1. ParseInv => TypeOK
  BY DEF ParseInv
<1> QED
  BY <1>1, ParseInvariant, PTL

\* Whatever the letters and the requests are: the server reads exactly what the
\* client means, if no value is empty or has a "&" in it (Parse, HttpQueryParameter).
THEOREM ProperRequests == Spec => []ProperRequestsAreRead
<1>1. ParseInv => ProperRequestsAreRead
  <2> SUFFICES ASSUME ParseInv, loop = "done", Unbroken(request),
                      \A i \in 1..Len(request) : request[i].value # <<>>
               PROVE  stored = Meant
    BY DEF ProperRequestsAreRead
  <2>1. Finished /\ Proper(request)
    BY DEF ParseInv, Place, InName, InValue, Nowhere, Proper
  <2> QED
    BY <2>1 DEF Finished, Read, Meant
<1> QED
  BY <1>1, ParseInvariant, PTL

\* Whatever the letters and the requests are: if no value has a "&" in it, Parse
\* stores only values of the request, each under a name that ends in the client's.
THEOREM Attributed == Spec => []NothingMisattributed
<1>1. ParseInv => NothingMisattributed
  BY DEF ParseInv
<1> QED
  BY <1>1, ParseInvariant, PTL
-----------------------------------------------------------------------------
(* What ProcessGame makes of it. *)

\* If no name comes twice, what a request means is told by its parameters.
LEMMA MeantKeys ==
  ASSUME OneOfEach(request), NEW w
  PROVE  /\ \A i \in 1..Len(request) :
              request[i].name = w => GetKey(Meant, w) = request[i].value
         /\ (\A i \in 1..Len(request) : request[i].name # w) =>
              GetKey(Meant, w) = <<>>
<1> DEFINE found == {p \in Meant : p.name = w}
<1>1. GetKey(Meant, w) = IF found = {} THEN <<>> ELSE (CHOOSE p \in found : TRUE).value
  BY DEF GetKey
<1>2. ASSUME NEW p \in found
      PROVE  \E i \in 1..Len(request) : request[i] = p /\ request[i].name = w
  BY DEF Meant
<1>3. ASSUME NEW i \in 1..Len(request), request[i].name = w, request[i].value # <<>>
      PROVE  request[i] \in found
  <2>1. \A k \in 1..i - 1 : k \in 1..Len(request) /\ k # i
    OBVIOUS
  <2>2. \A k \in 1..i - 1 : request[k].name # request[i].name
    BY <2>1 DEF OneOfEach
  <2> QED
    BY <1>3, <2>2 DEF Meant
<1> HIDE DEF found
<1>4. found # {} => (CHOOSE p \in found : TRUE) \in found
  OBVIOUS
<1>5. ASSUME NEW i \in 1..Len(request), request[i].name = w
      PROVE  GetKey(Meant, w) = request[i].value
  <2>1. \A p \in found : p = request[i]
    BY <1>2, <1>5 DEF OneOfEach
  <2>2. CASE found = {}
    BY <1>1, <1>3, <1>5, <2>2
  <2>3. CASE found # {}
    BY <1>1, <1>4, <2>1, <2>3
  <2> QED
    BY <2>2, <2>3
<1>6. ASSUME \A i \in 1..Len(request) : request[i].name # w
      PROVE  GetKey(Meant, w) = <<>>
  BY <1>1, <1>2, <1>6
<1> QED
  BY <1>5, <1>6

\* What is found under a name asked for is what is meant by it, if anything is.
LEMMA StoredKeys ==
  ASSUME NothingMisattributed, Unbroken(request), OneOfEach(request), NoneEnds(request),
         NEW w \in Asked, GetKey(stored, w) # <<>>
  PROVE  GetKey(stored, w) = GetKey(Meant, w)
<1> DEFINE found == {p \in stored : p.name = w}
<1>1. GetKey(stored, w) = IF found = {} THEN <<>> ELSE (CHOOSE p \in found : TRUE).value
  BY DEF GetKey
<1>2. found # {} => (CHOOSE p \in found : TRUE) \in found
  OBVIOUS
<1>3. PICK p \in found : GetKey(stored, w) = p.value
  <2> HIDE DEF found
  <2> QED
    BY <1>1, <1>2
<1>4. PICK i \in 1..Len(request) :
         EndsIn(p.name, request[i].name) /\ p.value = request[i].value
  BY <1>3 DEF NothingMisattributed
<1>5. request[i].name = w
  BY <1>3, <1>4 DEF NoneEnds
<1> QED
  BY <1>3, <1>4, <1>5, MeantKeys

LEMMA Understood == NothingMisattributed => UnderstoodOrRefused
<1> SUFFICES ASSUME NothingMisattributed, Unbroken(request), OneOfEach(request),
                    NoneEnds(request)
             PROVE  Dispatch(stored) \in {Dispatch(Meant), <<"error">>}
  BY DEF UnderstoodOrRefused
<1>1. \A w \in Asked : GetKey(stored, w) # <<>> => GetKey(stored, w) = GetKey(Meant, w)
  BY StoredKeys
<1>2. Start # <<>> /\ {PlayerName, RandKey, TokenId, Oper} \subseteq Asked
  BY NamesAssumption DEF Asked
<1>3. CASE GetKey(stored, Oper) = Start
  <2>1. GetKey(Meant, Oper) = Start
    BY <1>1, <1>2, <1>3
  <2> QED
    BY <1>1, <1>2, <1>3, <2>1 DEF Dispatch
<1>4. CASE GetKey(stored, Oper) # Start /\ GetKey(stored, Oper) # <<>>
  <2>1. GetKey(Meant, Oper) = GetKey(stored, Oper)
    BY <1>1, <1>2, <1>4
  <2> QED
    BY <1>1, <1>2, <1>4, <2>1 DEF Dispatch
<1>5. CASE GetKey(stored, Oper) = <<>>
  BY <1>2, <1>5 DEF Dispatch
<1> QED
  BY <1>3, <1>4, <1>5

\* A request of the page means a call only if none of its texts is empty.
LEMMA PageUnderstood == ParseInv => PageIsUnderstood
<1> SUFFICES ASSUME ParseInv, loop = "done", Unbroken(request),
                    StartsGame(request) \/ OperatesGame(request)
             PROVE  Dispatch(stored) = Dispatch(Meant)
  BY DEF PageIsUnderstood
<1>1. Finished /\ NothingMisattributed
  BY DEF ParseInv, Place, InName, InValue, Nowhere
<1>2. Proper(request) => stored = Meant
  BY <1>1 DEF Finished, Read, Meant
<1>3. SUFFICES ASSUME ~Proper(request)
               PROVE  /\ OneOfEach(request) /\ NoneEnds(request)
                      /\ Dispatch(Meant) = <<"error">>
  <2>1. OneOfEach(request) /\ NoneEnds(request) => Dispatch(stored) \in {Dispatch(Meant), <<"error">>}
    BY <1>1, Understood DEF UnderstoodOrRefused
  <2> QED
    BY <1>2, <1>3, <2>1
<1>n. \A a, b \in Asked : EndsIn(a, b) => a = b
  BY NamesAssumption
<1>4. PICK e \in 1..Len(request) : request[e].value = <<>>
  BY <1>3 DEF Proper
<1>5. CASE StartsGame(request)
  <2>1. /\ Len(request) = 3
        /\ request[1].name = PlayerName /\ request[2].name = RandKey
        /\ request[3].name = Oper /\ request[3].value = Start
    BY <1>5 DEF StartsGame, Named
  <2>2. 1..Len(request) = {1, 2, 3}
    BY <2>1
  <2>3. OneOfEach(request)
    BY <2>1, <2>2, NamesAssumption DEF OneOfEach
  <2>n. NoneEnds(request)
    <3>1. \A i \in 1..Len(request) : request[i].name \in Asked
      BY <2>1, <2>2 DEF Asked
    <3> QED
      BY <1>n, <3>1 DEF NoneEnds
  <2>4. /\ GetKey(Meant, PlayerName) = request[1].value
        /\ GetKey(Meant, RandKey) = request[2].value
        /\ GetKey(Meant, Oper) = Start
    BY <2>1, <2>2, <2>3, NamesAssumption, MeantKeys
  <2>5. request[1].value = <<>> \/ request[2].value = <<>>
    BY <1>4, <2>1, <2>2, NamesAssumption
  <2> QED
    BY <2>3, <2>n, <2>4, <2>5 DEF Dispatch
<1>6. CASE OperatesGame(request)
  <2>1. /\ Len(request) = 2
        /\ request[1].name = TokenId /\ request[2].name = Oper
    BY <1>6 DEF OperatesGame, Named
  <2>2. 1..Len(request) = {1, 2}
    BY <2>1
  <2>3. OneOfEach(request)
    BY <2>1, <2>2, NamesAssumption DEF OneOfEach
  <2>n. NoneEnds(request)
    <3>1. \A i \in 1..Len(request) : request[i].name \in Asked
      BY <2>1, <2>2 DEF Asked
    <3> QED
      BY <1>n, <3>1 DEF NoneEnds
  <2>4. /\ GetKey(Meant, TokenId) = request[1].value
        /\ GetKey(Meant, Oper) = request[2].value
        /\ GetKey(Meant, PlayerName) = <<>>
    BY <2>1, <2>2, <2>3, NamesAssumption, MeantKeys
  <2>5. request[1].value = <<>> \/ request[2].value = <<>>
    BY <1>4, <2>2
  <2> QED
    BY <2>3, <2>n, <2>4, <2>5 DEF Dispatch
<1> QED
  BY <1>5, <1>6

\* Whatever the letters and the requests are: a request without repeated names,
\* without names that end one asked for, and without a "&" in a value, is answered
\* as it is meant, or refused (ProcessGame, StartNewGame, PreProcess).
THEOREM NoOtherCall == Spec => []UnderstoodOrRefused
<1>1. ParseInv => UnderstoodOrRefused
  BY Understood DEF ParseInv
<1> QED
  BY <1>1, ParseInvariant, PTL

\* Whatever the player types without a "&": the requests of index.html are answered
\* as they are meant (start_tetris_game, operator_game and ProcessGame).
THEOREM PageRequestsUnderstood == Spec => []PageIsUnderstood
BY PageUnderstood, ParseInvariant, PTL
=============================================================================
