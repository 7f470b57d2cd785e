------------------------------ MODULE KeepSeqProofs ------------------------------
EXTENDS KeepSeq, SequenceTheorems, WellFoundedInduction, TLAPS

\* A set that holds 0 and with every number the next one holds them all.
LEMMA NatInd ==
  ASSUME NEW T \in SUBSET Nat, 0 \in T, \A n \in T : n + 1 \in T
  PROVE  T = Nat
<1> DEFINE R   == OpToRel(<, Nat)
           Bad == Nat \ T
<1>1. SUFFICES ASSUME Bad # {} PROVE FALSE
  OBVIOUS
<1>2. IsWellFoundedOn(R, Nat)
  BY NatLessThanWellFounded
<1>3. \A y, x \in Nat : y < x => <<y, x>> \in R
  BY DEF OpToRel
<1> HIDE DEF R
<1>4. PICK x \in Bad : \A y \in Bad : <<y, x>> \notin R
  <2>1. Bad \subseteq Nat
    OBVIOUS
  <2> HIDE DEF Bad
  <2> QED
    BY <1>1, <1>2, <2>1, WFMin
<1>5. x # 0 /\ x - 1 \in Nat /\ x - 1 < x
  BY <1>4
<1>6. x - 1 \in T
  BY <1>3, <1>4, <1>5
<1> QED
  BY <1>4, <1>5, <1>6

\* The same for sequences, which grow at the end.
LEMMA SeqInd ==
  ASSUME NEW T, NEW P \in SUBSET Seq(T), <<>> \in P,
         \A s \in P, x \in T : Append(s, x) \in P
  PROVE  P = Seq(T)
<1> DEFINE L == {n \in Nat : \A s \in Seq(T) : Len(s) = n => s \in P}
<1>1. 0 \in L
  <2>1. \A s \in Seq(T) : Len(s) = 0 => s = <<>>
    OBVIOUS
  <2> QED
    BY <2>1
<1>2. ASSUME NEW n \in L PROVE n + 1 \in L
  <2>1. SUFFICES ASSUME NEW s \in Seq(T), Len(s) = n + 1 PROVE s \in P
    OBVIOUS
  <2>a. s # <<>>
    BY <2>1
  <2>2. PICK f \in Seq(T), x \in T : s = Append(f, x)
    BY <2>a, SequenceEmptyOrAppend
  <2>3. Len(f) = n
    BY <2>1, <2>2
  <2> QED
    BY <1>2, <2>2, <2>3
<1>3. L = Nat
  <2>1. L \in SUBSET Nat
    OBVIOUS
  <2> HIDE DEF L
  <2> QED
    BY <1>1, <1>2, <2>1, NatInd
<1>4. \A s \in Seq(T) : Len(s) \in L
  BY <1>3
<1>5. \A s \in Seq(T) : s \in P
  BY <1>4
<1> QED
  BY <1>5

--------------------------------------------------------------------------------
(* The recursion is well defined.                                          *)

KeptStep(f, s, S, n) ==
  IF n = 0 THEN <<>> ELSE IF s[n] \in S THEN Append(f[n - 1], s[n]) ELSE f[n - 1]

LEMMA KeptDef ==
  ASSUME NEW T, NEW s \in Seq(T), NEW S
  PROVE  \A n \in 0 .. Len(s) : Kept(s, S)[n] = KeptStep(Kept(s, S), s, S, n)
<1> DEFINE Upto(n, f) == f = [m \in 0 .. n |-> KeptStep(f, s, S, m)]
           L == {n \in Nat : \E f : Upto(n, f)}
<1>1. 0 \in L
  <2> DEFINE f == [m \in 0 .. 0 |-> <<>>]
  <2>1. Upto(0, f)
    BY DEF KeptStep
  <2> QED
    BY <2>1
<1>2. ASSUME NEW n \in L PROVE n + 1 \in L
  <2>1. PICK f : Upto(n, f)
    BY <1>2
  <2> DEFINE g == [m \in 0 .. n + 1 |-> IF m = n + 1 THEN KeptStep(f, s, S, m) ELSE f[m]]
  <2>2. ASSUME NEW m \in 0 .. n + 1 PROVE g[m] = KeptStep(g, s, S, m)
    <3>1. CASE m = n + 1
      BY <3>1, <2>1 DEF KeptStep
    <3>2. CASE m # n + 1
      <4>1. m \in 0 .. n /\ g[m] = f[m] /\ f[m] = KeptStep(f, s, S, m)
        <5>1. m \in 0 .. n
          BY <3>2
        <5>2. g[m] = f[m]
          BY <3>2
        <5> HIDE DEF g
        <5>3. f[m] = KeptStep(f, s, S, m)
          BY <5>1, <2>1
        <5> QED
          BY <5>1, <5>2, <5>3
      <4>2. m # 0 => m - 1 \in 0 .. n + 1 /\ m - 1 # n + 1
        BY <4>1
      <4>3. m # 0 => g[m - 1] = f[m - 1]
        BY <4>2
      <4> HIDE DEF g
      <4> QED
        BY <4>1, <4>3 DEF KeptStep
    <3> QED
      BY <3>1, <3>2
  <2>3. Upto(n + 1, g)
    BY <2>2
  <2> QED
    BY <2>3
<1>3. L = Nat
  <2>1. L \in SUBSET Nat
    OBVIOUS
  <2> HIDE DEF L
  <2> QED
    BY <1>1, <1>2, <2>1, NatInd
<1>4. PICK f : Upto(Len(s), f)
  BY <1>3
<1>5. Kept(s, S) = CHOOSE g : g = [m \in 0 .. Len(s) |-> KeptStep(g, s, S, m)]
  BY DEF Kept, KeptStep
<1>6. Upto(Len(s), Kept(s, S))
  BY <1>4, <1>5
<1> QED
  BY <1>6

LEMMA KeepEmpty ==
  ASSUME NEW S
  PROVE  Keep(<<>>, S) = <<>>
<1>1. <<>> \in Seq({}) /\ Len(<<>>) = 0 /\ 0 \in 0 .. 0
  OBVIOUS
<1>2. Kept(<<>>, S)[0] = KeptStep(Kept(<<>>, S), <<>>, S, 0)
  BY <1>1, KeptDef
<1> QED
  BY <1>1, <1>2 DEF Keep, KeptStep

\* A new element at the end is kept behind the others.
LEMMA KeepAppend ==
  ASSUME NEW T, NEW s \in Seq(T), NEW x \in T, NEW S
  PROVE  Keep(Append(s, x), S) = IF x \in S THEN Append(Keep(s, S), x) ELSE Keep(s, S)
<1> DEFINE t == Append(s, x)
<1>1. t \in Seq(T) /\ Len(t) = Len(s) + 1 /\ t[Len(t)] = x /\ \A n \in 1 .. Len(s) : t[n] = s[n]
  BY AppendProperties
<1>2. \A n \in 0 .. Len(s) : Kept(s, S)[n] = KeptStep(Kept(s, S), s, S, n)
  BY KeptDef
<1>3. \A n \in 0 .. Len(t) : Kept(t, S)[n] = KeptStep(Kept(t, S), t, S, n)
  BY <1>1, KeptDef
<1> HIDE DEF t
<1> DEFINE L == {n \in Nat : n <= Len(s) => Kept(t, S)[n] = Kept(s, S)[n]}
<1>4. 0 \in L
  BY <1>1, <1>2, <1>3 DEF KeptStep
<1>5. ASSUME NEW n \in L PROVE n + 1 \in L
  <2>1. SUFFICES ASSUME n + 1 <= Len(s) PROVE Kept(t, S)[n + 1] = Kept(s, S)[n + 1]
    OBVIOUS
  <2>2. Kept(t, S)[n] = Kept(s, S)[n] /\ t[n + 1] = s[n + 1]
    BY <2>1, <1>1
  <2>3. n + 1 \in 0 .. Len(s) /\ n + 1 \in 0 .. Len(t) /\ n + 1 # 0 /\ (n + 1) - 1 = n
    BY <2>1, <1>1
  <2> QED
    BY <2>2, <2>3, <1>2, <1>3 DEF KeptStep
<1>6. L = Nat
  <2>1. L \in SUBSET Nat
    OBVIOUS
  <2> HIDE DEF L
  <2> QED
    BY <1>4, <1>5, <2>1, NatInd
<1>7. Kept(t, S)[Len(s)] = Kept(s, S)[Len(s)]
  BY <1>6
<1>8. Kept(t, S)[Len(t)] = IF x \in S THEN Append(Kept(t, S)[Len(s)], x) ELSE Kept(t, S)[Len(s)]
  BY <1>1, <1>3 DEF KeptStep
<1> QED
  BY <1>7, <1>8 DEF Keep, t

\* What is kept is a sequence of kept things.
LEMMA KeepType ==
  ASSUME NEW T, NEW S, NEW s \in Seq(T)
  PROVE  Keep(s, S) \in Seq(T) /\ Keep(s, S) \in Seq(T \cap S)
<1> DEFINE P == {u \in Seq(T) : Keep(u, S) \in Seq(T \cap S)}
<1>1. <<>> \in P
  <2>1. <<>> \in Seq(T) /\ <<>> \in Seq(T \cap S)
    OBVIOUS
  <2> QED
    BY <2>1, KeepEmpty
<1>2. ASSUME NEW u \in P, NEW x \in T PROVE Append(u, x) \in P
  <2>1. u \in Seq(T) /\ Keep(u, S) \in Seq(T \cap S)
    OBVIOUS
  <2>2. Append(u, x) \in Seq(T)
    BY <2>1, AppendProperties
  <2>3. Keep(Append(u, x), S) = IF x \in S THEN Append(Keep(u, S), x) ELSE Keep(u, S)
    BY <2>1, KeepAppend
  <2>4. x \in S => Append(Keep(u, S), x) \in Seq(T \cap S)
    <3>1. SUFFICES ASSUME x \in T \cap S PROVE Append(Keep(u, S), x) \in Seq(T \cap S)
      OBVIOUS
    <3> HIDE DEF P
    <3> QED
      BY <2>1, <3>1, AppendProperties
  <2> QED
    BY <2>2, <2>3, <2>4
<1>3. P = Seq(T)
  <2>1. P \in SUBSET Seq(T)
    OBVIOUS
  <2> HIDE DEF P
  <2> QED
    BY <1>1, <1>2, <2>1, SeqInd
<1>4. Keep(s, S) \in Seq(T \cap S)
  BY <1>3
<1> QED
  BY <1>4, SeqMonotonic

\* What is kept and what is not are the whole of it.
LEMMA KeepLen ==
  ASSUME NEW T, NEW S, NEW R, \A x \in T : x \in S <=> x \notin R, NEW s \in Seq(T)
  PROVE  Len(Keep(s, S)) + Len(Keep(s, R)) = Len(s)
<1> DEFINE P == {u \in Seq(T) : Len(Keep(u, S)) + Len(Keep(u, R)) = Len(u)}
<1>1. <<>> \in P
  BY KeepEmpty
<1>2. ASSUME NEW u \in P, NEW x \in T PROVE Append(u, x) \in P
  <2>1. Keep(u, S) \in Seq(T) /\ Keep(u, R) \in Seq(T)
    BY KeepType
  <2>2. /\ Keep(Append(u, x), S) = IF x \in S THEN Append(Keep(u, S), x) ELSE Keep(u, S)
        /\ Keep(Append(u, x), R) = IF x \in R THEN Append(Keep(u, R), x) ELSE Keep(u, R)
    BY KeepAppend
  <2>3. Len(Append(u, x)) = Len(u) + 1 /\ Append(u, x) \in Seq(T)
    BY AppendProperties
  <2> QED
    BY <2>1, <2>2, <2>3
<1>3. P = Seq(T)
  <2>1. P \in SUBSET Seq(T)
    OBVIOUS
  <2> HIDE DEF P
  <2> QED
    BY <1>1, <1>2, <2>1, SeqInd
<1> QED
  BY <1>3

\* A new element is one more in the range.
LEMMA RangeAppend ==
  ASSUME NEW T, NEW u \in Seq(T), NEW x \in T
  PROVE  Range(Append(u, x)) = Range(u) \cup {x}
<1>1. /\ Len(Append(u, x)) = Len(u) + 1 /\ Append(u, x)[Len(u) + 1] = x
      /\ \A n \in 1 .. Len(u) : Append(u, x)[n] = u[n]
  BY AppendProperties
<1>2. DOMAIN u = 1 .. Len(u) /\ Len(u) \in Nat
  OBVIOUS
<1>3. DOMAIN Append(u, x) = 1 .. Len(u) + 1
  OBVIOUS
<1> DEFINE t == Append(u, x)
<1> HIDE DEF t
<1>4. Range(t) = {t[n] : n \in 1 .. Len(u) + 1}
  BY <1>3 DEF Range, t
<1>5. Range(u) = {u[n] : n \in 1 .. Len(u)}
  BY <1>2 DEF Range
<1>6. 1 .. Len(u) + 1 = (1 .. Len(u)) \cup {Len(u) + 1}
  BY <1>2
<1> QED
  BY <1>1, <1>4, <1>5, <1>6 DEF t

\* Nothing that is to be kept goes.
LEMMA KeepRange ==
  ASSUME NEW T, NEW S, NEW s \in Seq(T)
  PROVE  Range(Keep(s, S)) = Range(s) \cap S
<1> DEFINE P == {u \in Seq(T) : Range(Keep(u, S)) = Range(u) \cap S}
<1>1. <<>> \in P
  BY KeepEmpty DEF Range
<1>3. ASSUME NEW u \in P, NEW x \in T PROVE Append(u, x) \in P
  <2>1. Keep(u, S) \in Seq(T)
    BY KeepType
  <2>2. Append(u, x) \in Seq(T)
    BY AppendProperties
  <2>3. Range(Append(u, x)) = Range(u) \cup {x}
    BY RangeAppend
  <2>4. Range(Append(Keep(u, S), x)) = Range(Keep(u, S)) \cup {x}
    BY <2>1, RangeAppend
  <2>5. Keep(Append(u, x), S) = IF x \in S THEN Append(Keep(u, S), x) ELSE Keep(u, S)
    BY KeepAppend
  <2>6. Range(Keep(u, S)) = Range(u) \cap S
    OBVIOUS
  <2>7. Range(Keep(Append(u, x), S)) = Range(Append(u, x)) \cap S
    BY <2>3, <2>4, <2>5, <2>6
  <2> QED
    BY <2>2, <2>7
<1>4. P = Seq(T)
  <2>1. P \in SUBSET Seq(T)
    OBVIOUS
  <2> HIDE DEF P
  <2> QED
    BY <1>1, <1>3, <2>1, SeqInd
<1> QED
  BY <1>4

LEMMA KeepConcat ==
  ASSUME NEW T, NEW S, NEW r \in Seq(T), NEW s \in Seq(T)
  PROVE  Keep(r \o s, S) = Keep(r, S) \o Keep(s, S)
<1> DEFINE P == {u \in Seq(T) : Keep(r \o u, S) = Keep(r, S) \o Keep(u, S)}
<1>1. <<>> \in P
  <2>1. Keep(r, S) \in Seq(T)
    BY KeepType
  <2>2. r \o <<>> = r /\ Keep(r, S) \o <<>> = Keep(r, S)
    BY <2>1, ConcatEmptySeq
  <2>3. <<>> \in Seq(T)
    OBVIOUS
  <2> QED
    BY <2>2, <2>3, KeepEmpty
<1>2. ASSUME NEW u \in P, NEW x \in T PROVE Append(u, x) \in P
  <2>1. u \in Seq(T) /\ Keep(r \o u, S) = Keep(r, S) \o Keep(u, S)
    OBVIOUS
  <2> HIDE DEF P
  <2>2. Keep(r, S) \in Seq(T)
    BY KeepType
  <2>3. Keep(u, S) \in Seq(T)
    BY <2>1, KeepType
  <2>4. r \o u \in Seq(T)
    BY <2>1, ConcatProperties
  <2>5. Append(u, x) \in Seq(T)
    BY <2>1, AppendProperties
  <2>6. \A a, b \in Seq(T) : a \o Append(b, x) = Append(a \o b, x)
    OBVIOUS
  <2>7. r \o Append(u, x) = Append(r \o u, x)
    BY <2>1, <2>6
  <2>8. Keep(Append(r \o u, x), S) = IF x \in S THEN Append(Keep(r \o u, S), x) ELSE Keep(r \o u, S)
    BY <2>4, KeepAppend
  <2>9. Keep(Append(u, x), S) = IF x \in S THEN Append(Keep(u, S), x) ELSE Keep(u, S)
    BY <2>1, KeepAppend
  <2>10. Keep(r, S) \o Append(Keep(u, S), x) = Append(Keep(r, S) \o Keep(u, S), x)
    BY <2>2, <2>3, <2>6
  <2>11. Keep(r \o Append(u, x), S) = Keep(r, S) \o Keep(Append(u, x), S)
    BY <2>1, <2>7, <2>8, <2>9, <2>10
  <2> QED
    BY <2>5, <2>11 DEF P
<1>3. P = Seq(T)
  <2>1. P \in SUBSET Seq(T)
    OBVIOUS
  <2> HIDE DEF P
  <2> QED
    BY <1>1, <1>2, <2>1, SeqInd
<1> QED
  BY <1>3

\* The order stays.
Increasing(s) == \A j, k \in DOMAIN s : j < k => s[j] < s[k]

LEMMA IncreasingAppend ==
  ASSUME NEW s \in Seq(Nat), NEW x \in Nat
  PROVE  Increasing(Append(s, x)) <=> Increasing(s) /\ \A y \in Range(s) : y < x
<1>1. /\ Append(s, x) \in Seq(Nat) /\ Len(Append(s, x)) = Len(s) + 1 /\ Append(s, x)[Len(s) + 1] = x
      /\ \A n \in 1 .. Len(s) : Append(s, x)[n] = s[n]
  BY AppendProperties
<1>2. DOMAIN s = 1 .. Len(s) /\ DOMAIN Append(s, x) = 1 .. Len(s) + 1
  BY <1>1
<1>3. \A y : y \in Range(s) <=> \E n \in 1 .. Len(s) : s[n] = y
  BY <1>2 DEF Range
<1> DEFINE t == Append(s, x)
<1> HIDE DEF t
<1>4. ASSUME Increasing(t) PROVE Increasing(s) /\ \A y \in Range(s) : y < x
  <2>1. \A j, k \in 1 .. Len(s) + 1 : j < k => t[j] < t[k]
    BY <1>4, <1>2 DEF Increasing, t
  <2>2. \A n \in 1 .. Len(s) : n \in 1 .. Len(s) + 1 /\ t[n] = s[n] /\ n < Len(s) + 1
    BY <1>1 DEF t
  <2>3. Len(s) + 1 \in 1 .. Len(s) + 1 /\ t[Len(s) + 1] = x
    BY <1>1 DEF t
  <2>4. \A n \in 1 .. Len(s) : s[n] < x
    BY <2>1, <2>2, <2>3
  <2>5. \A j, k \in 1 .. Len(s) : j < k => s[j] < s[k]
    BY <2>1, <2>2
  <2> QED
    BY <2>4, <2>5, <1>2, <1>3 DEF Increasing
<1>5. Increasing(s) /\ (\A y \in Range(s) : y < x) => Increasing(t)
  <2>1. SUFFICES ASSUME Increasing(s), \A y \in Range(s) : y < x,
                        NEW j \in 1 .. Len(s) + 1, NEW k \in 1 .. Len(s) + 1, j < k
                 PROVE  t[j] < t[k]
    BY <1>2 DEF Increasing, t
  <2>2. j \in 1 .. Len(s) /\ t[j] = s[j] /\ s[j] \in Range(s)
    BY <2>1, <1>1, <1>3 DEF t
  <2>3. CASE k = Len(s) + 1
    BY <2>1, <2>2, <2>3, <1>1 DEF t
  <2>4. CASE k # Len(s) + 1
    BY <2>1, <2>2, <2>4, <1>1, <1>2 DEF t, Increasing
  <2> QED
    BY <2>3, <2>4
<1> QED
  BY <1>4, <1>5 DEF t

LEMMA KeepIncreasing ==
  ASSUME NEW S, NEW s \in Seq(Nat), Increasing(s)
  PROVE  Increasing(Keep(s, S))
<1> DEFINE P == {u \in Seq(Nat) : Increasing(u) => Increasing(Keep(u, S))}
<1>1. <<>> \in P
  BY KeepEmpty DEF Increasing
<1>2. ASSUME NEW u \in P, NEW x \in Nat PROVE Append(u, x) \in P
  <2>1. SUFFICES ASSUME Increasing(Append(u, x)) PROVE Increasing(Keep(Append(u, x), S))
    BY AppendProperties
  <2>2. Increasing(u) /\ \A y \in Range(u) : y < x
    BY <2>1, IncreasingAppend
  <2>3. Keep(u, S) \in Seq(Nat) /\ Range(Keep(u, S)) \subseteq Range(u) /\ Increasing(Keep(u, S))
    BY <2>2, KeepType, KeepRange
  <2>4. Increasing(Append(Keep(u, S), x))
    BY <2>2, <2>3, IncreasingAppend
  <2> QED
    BY <2>3, <2>4, KeepAppend
<1>3. P = Seq(Nat)
  <2>1. P \in SUBSET Seq(Nat)
    OBVIOUS
  <2> HIDE DEF P
  <2> QED
    BY <1>1, <1>2, <2>1, SeqInd
<1> QED
  BY <1>3

LEMMA HeadTailRange ==
  ASSUME NEW T, NEW s \in Seq(T), s # <<>>
  PROVE  /\ Head(s) \in T /\ Tail(s) \in Seq(T) /\ Len(Tail(s)) = Len(s) - 1
         /\ Range(s) = {Head(s)} \cup Range(Tail(s))
<1>1. /\ Head(s) \in T /\ Tail(s) \in Seq(T) /\ Len(Tail(s)) = Len(s) - 1 /\ Head(s) = s[1]
      /\ Len(s) \in Nat \ {0}
      /\ \A n \in 1 .. Len(s) - 1 : Tail(s)[n] = s[n + 1]
  OBVIOUS
<1>2. DOMAIN s = 1 .. Len(s) /\ DOMAIN Tail(s) = 1 .. Len(s) - 1
  BY <1>1
<1> DEFINE t == Tail(s)
<1> HIDE DEF t
<1>3. Range(t) \subseteq Range(s) /\ Head(s) \in Range(s)
  BY <1>1, <1>2 DEF Range, t
<1>4. ASSUME NEW n \in 1 .. Len(s) PROVE s[n] \in {Head(s)} \cup Range(t)
  <2>1. CASE n = 1
    BY <2>1, <1>1
  <2>2. CASE n # 1
    <3>1. n - 1 \in 1 .. Len(s) - 1 /\ (n - 1) + 1 = n
      BY <2>2, <1>1
    <3> QED
      BY <3>1, <1>1, <1>2 DEF Range, t
  <2> QED
    BY <2>1, <2>2
<1>5. Range(s) \subseteq {Head(s)} \cup Range(t)
  BY <1>2, <1>4 DEF Range
<1> QED
  BY <1>1, <1>3, <1>5 DEF t

\* What is kept of a sequence is its head, if that is to be kept, and what is
\* kept of the rest.
LEMMA KeepHead ==
  ASSUME NEW T, NEW S, NEW s \in Seq(T), s # <<>>
  PROVE  Len(Keep(s, S)) = (IF Head(s) \in S THEN 1 ELSE 0) + Len(Keep(Tail(s), S))
<1>1. Head(s) \in T /\ Tail(s) \in Seq(T) /\ s = <<Head(s)>> \o Tail(s)
  BY HeadTailRange
<1> DEFINE h == <<Head(s)>>
<1>2. h \in Seq(T) /\ <<>> \in Seq(T) /\ h = Append(<<>>, Head(s))
  BY <1>1
<1>3. Keep(h, S) = IF Head(s) \in S THEN Append(<<>>, Head(s)) ELSE <<>>
  <2>1. \A x \in T : Keep(Append(<<>>, x), S) = IF x \in S THEN Append(Keep(<<>>, S), x) ELSE Keep(<<>>, S)
    BY <1>2, KeepAppend
  <2>2. Keep(<<>>, S) = <<>>
    BY KeepEmpty
  <2> HIDE DEF h
  <2> QED
    BY <1>1, <1>2, <2>1, <2>2
<1>4. Len(Keep(h, S)) = IF Head(s) \in S THEN 1 ELSE 0
  <2>1. \A x \in T : Len(Append(<<>>, x)) = 1
    BY <1>2, AppendProperties
  <2>2. Len(<<>>) = 0
    OBVIOUS
  <2> HIDE DEF h
  <2> QED
    BY <1>1, <1>3, <2>1, <2>2
<1> HIDE DEF h
<1>5. Keep(h \o Tail(s), S) = Keep(h, S) \o Keep(Tail(s), S)
  BY <1>1, <1>2, KeepConcat
<1>6. Keep(h, S) \in Seq(T) /\ Keep(Tail(s), S) \in Seq(T)
  BY <1>1, <1>2, KeepType
<1>7. \A a, b \in Seq(T) : Len(a \o b) = Len(a) + Len(b)
  OBVIOUS
<1>8. Keep(s, S) = Keep(h, S) \o Keep(Tail(s), S)
  BY <1>1, <1>5 DEF h
<1> QED
  BY <1>4, <1>6, <1>7, <1>8

\* What is kept twice is not more than what is kept the second time alone.
LEMMA KeepTwice ==
  ASSUME NEW T, NEW R, NEW S, NEW s \in Seq(T)
  PROVE  Len(Keep(Keep(s, R), S)) <= Len(Keep(s, S))
<1> DEFINE P == {u \in Seq(T) : Len(Keep(Keep(u, R), S)) <= Len(Keep(u, S))}
<1>1. <<>> \in P
  <2>1. <<>> \in Seq(T) /\ Len(<<>>) = 0
    OBVIOUS
  <2> QED
    BY <2>1, KeepEmpty
<1>2. ASSUME NEW u \in P, NEW x \in T PROVE Append(u, x) \in P
  <2>1. u \in Seq(T) /\ Len(Keep(Keep(u, R), S)) <= Len(Keep(u, S)) /\ Append(u, x) \in Seq(T)
    BY AppendProperties
  <2> HIDE DEF P
  <2>2. Keep(u, R) \in Seq(T)
    BY <2>1, KeepType
  <2>3. Keep(u, S) \in Seq(T) /\ Keep(Keep(u, R), S) \in Seq(T)
    BY <2>1, <2>2, KeepType
  <2>4. Keep(Append(u, x), R) = IF x \in R THEN Append(Keep(u, R), x) ELSE Keep(u, R)
    BY <2>1, KeepAppend
  <2>5. Keep(Append(u, x), S) = IF x \in S THEN Append(Keep(u, S), x) ELSE Keep(u, S)
    BY <2>1, KeepAppend
  <2>6. Keep(Append(Keep(u, R), x), S) = IF x \in S THEN Append(Keep(Keep(u, R), S), x) ELSE Keep(Keep(u, R), S)
    BY <2>2, KeepAppend
  <2>7. \A q \in Seq(T) : Len(Append(q, x)) = Len(q) + 1 /\ Len(q) \in Nat
    BY AppendProperties
  <2>8. Len(Keep(Keep(Append(u, x), R), S)) <= Len(Keep(Append(u, x), S))
    BY <2>1, <2>3, <2>4, <2>5, <2>6, <2>7
  <2> QED
    BY <2>1, <2>8 DEF P
<1>3. P = Seq(T)
  <2>1. P \in SUBSET Seq(T)
    OBVIOUS
  <2> HIDE DEF P
  <2> QED
    BY <1>1, <1>2, <2>1, SeqInd
<1> QED
  BY <1>3

\* Of two that are kept, the first was the first before.
LEMMA KeepOrder ==
  ASSUME NEW T, NEW S, NEW s \in Seq(T)
  PROVE  \A j, k \in DOMAIN Keep(s, S) : j < k =>
           \E m, n \in DOMAIN s : m < n /\ s[m] = Keep(s, S)[j] /\ s[n] = Keep(s, S)[k]
<1> DEFINE Ordered(u) == \A j, k \in DOMAIN Keep(u, S) : j < k =>
             \E m, n \in DOMAIN u : m < n /\ u[m] = Keep(u, S)[j] /\ u[n] = Keep(u, S)[k]
           P == {u \in Seq(T) : Ordered(u)}
<1>1. <<>> \in P
  <2>1. Ordered(<<>>)
    BY KeepEmpty
  <2> QED
    BY <2>1
<1>2. ASSUME NEW u \in P, NEW x \in T PROVE Append(u, x) \in P
  <2> DEFINE t == Append(u, x)
             w == Keep(u, S)
  <2>1. u \in Seq(T) /\ Ordered(u)
    OBVIOUS
  <2>2. t \in Seq(T) /\ Len(t) = Len(u) + 1 /\ t[Len(u) + 1] = x /\ \A n \in 1 .. Len(u) : t[n] = u[n]
    BY <2>1, AppendProperties
  <2>3. w \in Seq(T) /\ Range(w) \subseteq Range(u)
    BY <2>1, KeepType, KeepRange
  <2>4. Keep(t, S) = IF x \in S THEN Append(w, x) ELSE w
    BY <2>1, KeepAppend
  <2>5. DOMAIN u = 1 .. Len(u) /\ DOMAIN t = 1 .. Len(u) + 1 /\ DOMAIN w = 1 .. Len(w) /\ Len(u) \in Nat /\ Len(w) \in Nat
    BY <2>1, <2>2, <2>3
  <2>6. \A j, k \in DOMAIN w : j < k => \E m, n \in DOMAIN u : m < n /\ u[m] = w[j] /\ u[n] = w[k]
    BY <2>1
  <2> HIDE DEF P, Ordered, t, w
  <2>7. ASSUME NEW k \in DOMAIN w PROVE \E n \in DOMAIN u : u[n] = w[k]
    BY <2>3 DEF Range
  <2>8. \A m, n \in DOMAIN u : m < n => m \in DOMAIN t /\ n \in DOMAIN t /\ t[m] = u[m] /\ t[n] = u[n]
    BY <2>2, <2>5
  <2>9. \A j, k \in DOMAIN w : j < k => \E m, n \in DOMAIN t : m < n /\ t[m] = w[j] /\ t[n] = w[k]
    BY <2>6, <2>8
  <2>10. CASE x \notin S
    <3>1. Keep(t, S) = w
      BY <2>4, <2>10
    <3>2. Ordered(t)
      BY <3>1, <2>9 DEF Ordered
    <3> QED
      BY <3>2, <2>2 DEF P, t
  <2>11. CASE x \in S
    <3> DEFINE v == Append(w, x)
    <3>1. Keep(t, S) = v /\ DOMAIN v = 1 .. Len(w) + 1 /\ v[Len(w) + 1] = x /\ \A n \in 1 .. Len(w) : v[n] = w[n]
      BY <2>3, <2>4, <2>11, AppendProperties
    <3> HIDE DEF v
    <3>2. SUFFICES ASSUME NEW j \in DOMAIN v, NEW k \in DOMAIN v, j < k
                   PROVE  \E m, n \in DOMAIN t : m < n /\ t[m] = v[j] /\ t[n] = v[k]
      <4>1. (\A j, k \in DOMAIN v : j < k => \E m, n \in DOMAIN t : m < n /\ t[m] = v[j] /\ t[n] = v[k]) => Ordered(t)
        BY <3>1 DEF Ordered
      <4> QED
        BY <4>1, <2>2 DEF P, t
    <3>3. j \in DOMAIN w /\ v[j] = w[j]
      BY <3>1, <3>2, <2>5
    <3>4. CASE k \in DOMAIN w
      BY <3>1, <3>2, <3>3, <3>4, <2>5, <2>9
    <3>5. CASE k \notin DOMAIN w
      <4>1. v[k] = x
        BY <3>1, <3>2, <3>5, <2>5
      <4>2. PICK m \in DOMAIN u : u[m] = w[j]
        BY <3>3, <2>7
      <4>3. m \in DOMAIN t /\ t[m] = v[j] /\ Len(u) + 1 \in DOMAIN t /\ m < Len(u) + 1 /\ t[Len(u) + 1] = v[k]
        BY <4>1, <4>2, <3>3, <2>2, <2>5
      <4> QED
        BY <4>3
    <3> QED
      BY <3>4, <3>5
  <2> QED
    BY <2>10, <2>11
<1>3. P = Seq(T)
  <2>1. P \in SUBSET Seq(T)
    OBVIOUS
  <2> HIDE DEF P
  <2> QED
    BY <1>1, <1>2, <2>1, SeqInd
<1> QED
  BY <1>3

LEMMA KeepAll ==
  ASSUME NEW T, NEW S, NEW s \in Seq(T), Range(s) \subseteq S
  PROVE  Keep(s, S) = s
<1> DEFINE P == {u \in Seq(T) : Range(u) \subseteq S => Keep(u, S) = u}
<1>1. <<>> \in P
  BY KeepEmpty
<1>2. ASSUME NEW u \in P, NEW x \in T PROVE Append(u, x) \in P
  <2>1. u \in Seq(T) /\ Append(u, x) \in Seq(T)
    BY <1>2, AppendProperties
  <2>2. Range(Append(u, x)) = Range(u) \cup {x}
    BY <2>1, RangeAppend
  <2>3. Keep(Append(u, x), S) = IF x \in S THEN Append(Keep(u, S), x) ELSE Keep(u, S)
    BY <2>1, KeepAppend
  <2> QED
    BY <1>2, <2>1, <2>2, <2>3
<1>3. P \in SUBSET Seq(T)
  OBVIOUS
<1> HIDE DEF P
<1>4. P = Seq(T)
  BY <1>1, <1>2, <1>3, SeqInd
<1> QED
  BY <1>4 DEF P

\* s without its k-th place.
Skip(s, k) == [j \in 1 .. Len(s) - 1 |-> IF j < k THEN s[j] ELSE s[j + 1]]

LEMMA SkipIs ==
  ASSUME NEW T, NEW s \in Seq(T), NEW k \in 1 .. Len(s)
  PROVE  /\ Skip(s, k) \in Seq(T) /\ Len(Skip(s, k)) = Len(s) - 1
         /\ \A j \in 1 .. Len(s) - 1 : Skip(s, k)[j] = IF j < k THEN s[j] ELSE s[j + 1]
<1>1. PICK n \in Nat : n = Len(s)
  BY LenProperties
<1>2. n - 1 \in Nat /\ \A j \in 1 .. n - 1 : (IF j < k THEN s[j] ELSE s[j + 1]) \in T
  BY <1>1, ElementOfSeq
<1> QED
  BY <1>1, <1>2 DEF Skip

\* What is dropped later is as good as dropped.
LEMMA KeepSkip ==
  ASSUME NEW T, NEW S, NEW s \in Seq(T), NEW k \in 1 .. Len(s), s[k] \notin S
  PROVE  Keep(Skip(s, k), S) = Keep(s, S)
<1> DEFINE a == SubSeq(s, 1, k - 1)
           b == SubSeq(s, k + 1, Len(s))
           x == s[k]
           h == Append(<<>>, x)
<1>1. PICK n \in Nat : n = Len(s)
  BY LenProperties
<1>2. a \in Seq(T) /\ Len(a) = k - 1 /\ \A j \in 1 .. k - 1 : a[j] = s[j]
  BY <1>1, SubSeqProperties
<1>3. b \in Seq(T) /\ Len(b) = n - k /\ \A j \in 1 .. n - k : b[j] = s[k + j]
  BY <1>1, SubSeqProperties
<1>4. x \in T /\ <<>> \in Seq(T) /\ h \in Seq(T) /\ Len(h) = 1 /\ h[1] = x /\ x \notin S
  BY <1>1, ElementOfSeq
<1> HIDE DEF x
<1>5. Skip(s, k) \in Seq(T) /\ Len(Skip(s, k)) = n - 1
      /\ \A j \in 1 .. n - 1 : Skip(s, k)[j] = IF j < k THEN s[j] ELSE s[j + 1]
  BY <1>1, SkipIs
<1>6. Keep(h, S) = <<>>
  <2>1. Keep(h, S) = IF x \in S THEN Append(Keep(<<>>, S), x) ELSE Keep(<<>>, S)
    BY <1>4, KeepAppend
  <2> QED
    BY <2>1, <1>4, KeepEmpty
<1> DEFINE w == Skip(s, k)
<1> HIDE DEF a, b, h, x, w
<1>7. w = a \o b
  <2>1. a \o b \in Seq(T) /\ Len(a \o b) = n - 1
        /\ \A j \in 1 .. n - 1 : (a \o b)[j] = IF j < k THEN a[j] ELSE b[j - k + 1]
    <3>1. /\ a \o b \in Seq(T) /\ Len(a \o b) = Len(a) + Len(b)
          /\ \A j \in 1 .. Len(a) + Len(b) : (a \o b)[j] = IF j <= Len(a) THEN a[j] ELSE b[j - Len(a)]
      BY <1>2, <1>3, ConcatProperties
    <3>2. /\ Len(a) + Len(b) = n - 1 /\ \A j \in 1 .. n - 1 : j <= Len(a) <=> j < k
          /\ \A j \in 1 .. n - 1 : j - Len(a) = j - k + 1
      BY <1>1, <1>2, <1>3
    <3> DEFINE c == a \o b
    <3> HIDE DEF c
    <3>3. /\ c \in Seq(T) /\ Len(c) = n - 1
          /\ \A j \in 1 .. n - 1 : c[j] = IF j < k THEN a[j] ELSE b[j - k + 1]
      BY <3>1, <3>2 DEF c
    <3> QED
      BY <3>3 DEF c
  <2>2. \A j \in 1 .. n - 1 : w[j] = (a \o b)[j]
    <3> SUFFICES ASSUME NEW j \in 1 .. n - 1 PROVE w[j] = (a \o b)[j]
      OBVIOUS
    <3>1. CASE j < k
      BY <1>2, <1>5, <2>1, <3>1 DEF w
    <3>2. CASE ~(j < k)
      <4>1. j - k + 1 \in 1 .. n - k /\ k + (j - k + 1) = j + 1
        BY <1>1, <3>2
      <4> QED
        BY <1>3, <1>5, <2>1, <3>2, <4>1 DEF w
    <3> QED
      BY <3>1, <3>2
  <2>3. w \in Seq(T) /\ Len(w) = n - 1
    BY <1>5 DEF w
  <2> DEFINE c == a \o b
  <2> HIDE DEF c
  <2>4. c \in Seq(T) /\ Len(c) = Len(w) /\ \A j \in 1 .. Len(w) : w[j] = c[j]
    BY <2>1, <2>2, <2>3 DEF c
  <2>5. w = c
    BY <2>3, <2>4, SeqEqual
  <2> QED
    BY <2>5 DEF c
<1>8. s = (a \o h) \o b
  <2> DEFINE u == a \o h
  <2>1. u \in Seq(T) /\ Len(u) = k /\ \A j \in 1 .. k : u[j] = IF j < k THEN a[j] ELSE x
    <3>1. /\ a \o h \in Seq(T) /\ Len(a \o h) = Len(a) + Len(h)
          /\ \A j \in 1 .. Len(a) + Len(h) : (a \o h)[j] = IF j <= Len(a) THEN a[j] ELSE h[j - Len(a)]
      BY <1>2, <1>4, ConcatProperties
    <3>2. /\ Len(a) + Len(h) = k /\ \A j \in 1 .. k : j <= Len(a) <=> j < k
          /\ k - Len(a) = 1
      BY <1>1, <1>2, <1>4
    <3>3. \A j \in 1 .. k : j < k \/ j = k
      BY <1>1
    <3> HIDE DEF u
    <3>4. /\ u \in Seq(T) /\ Len(u) = k
          /\ \A j \in 1 .. k : u[j] = IF j < k THEN a[j] ELSE h[j - Len(a)]
      BY <3>1, <3>2 DEF u
    <3> QED
      BY <1>4, <3>2, <3>3, <3>4
  <2> HIDE DEF u
  <2>2. u \o b \in Seq(T) /\ Len(u \o b) = n
        /\ \A j \in 1 .. n : (u \o b)[j] = IF j <= k THEN u[j] ELSE b[j - k]
    <3>1. /\ u \o b \in Seq(T) /\ Len(u \o b) = Len(u) + Len(b)
          /\ \A j \in 1 .. Len(u) + Len(b) : (u \o b)[j] = IF j <= Len(u) THEN u[j] ELSE b[j - Len(u)]
      BY <1>3, <2>1, ConcatProperties
    <3>2. Len(u) + Len(b) = n /\ Len(u) = k
      BY <1>1, <1>3, <2>1
    <3> DEFINE c == u \o b
    <3> HIDE DEF c
    <3>3. /\ c \in Seq(T) /\ Len(c) = n
          /\ \A j \in 1 .. n : c[j] = IF j <= k THEN u[j] ELSE b[j - k]
      BY <3>1, <3>2 DEF c
    <3> QED
      BY <3>3 DEF c
  <2>3. \A j \in 1 .. n : s[j] = (u \o b)[j]
    <3> SUFFICES ASSUME NEW j \in 1 .. n PROVE s[j] = (u \o b)[j]
      OBVIOUS
    <3>1. CASE j <= k
      BY <1>1, <1>2, <2>1, <2>2, <3>1 DEF x
    <3>2. CASE ~(j <= k)
      <4>1. j - k \in 1 .. n - k /\ k + (j - k) = j
        BY <1>1, <3>2
      <4> QED
        BY <1>3, <2>2, <3>2, <4>1
    <3> QED
      BY <3>1, <3>2
  <2> DEFINE c == u \o b
  <2> HIDE DEF c
  <2>4. c \in Seq(T) /\ Len(c) = Len(s) /\ \A j \in 1 .. Len(s) : s[j] = c[j]
    BY <1>1, <2>2, <2>3 DEF c
  <2>5. s = c
    BY <2>4, SeqEqual
  <2> QED
    BY <2>5 DEF u, c
<1>9. Keep(w, S) = Keep(a, S) \o Keep(b, S)
  BY <1>2, <1>3, <1>7, KeepConcat
<1>10. Keep(s, S) = (Keep(a, S) \o Keep(h, S)) \o Keep(b, S)
  <2>1. a \o h \in Seq(T)
    BY <1>2, <1>4
  <2>2. Keep(s, S) = Keep(a \o h, S) \o Keep(b, S)
    BY <1>3, <1>8, <2>1, KeepConcat
  <2>3. Keep(a \o h, S) = Keep(a, S) \o Keep(h, S)
    BY <1>2, <1>4, KeepConcat
  <2> QED
    BY <2>2, <2>3
<1>11. Keep(a, S) \o <<>> = Keep(a, S)
  <2>1. Keep(a, S) \in Seq(T)
    BY <1>2, KeepType
  <2> QED
    BY <2>1, ConcatEmptySeq
<1> QED
  BY <1>6, <1>9, <1>10, <1>11 DEF w

--------------------------------------------------------------------------------
\* What the places of a sequence stand for.
Image(q, o) == [k \in DOMAIN q |-> o[q[k]]]

LEMMA ImageAppend ==
  ASSUME NEW D, NEW q \in Seq(D), NEW m \in D, NEW T, NEW o,
         NEW z \in Nat, z = Len(q), \A k \in 1 .. z : o[q[k]] \in T, o[m] \in T
  PROVE  Image(Append(q, m), o) = Append(Image(q, o), o[m])
<1> DEFINE r == Append(q, m)
<1>2. r \in Seq(D) /\ Len(r) = z + 1 /\ r[z + 1] = m /\ \A k \in 1 .. z : r[k] = q[k]
  BY AppendProperties
<1> HIDE DEF r
<1>3. Image(q, o) \in Seq(T) /\ Len(Image(q, o)) = z /\ \A k \in 1 .. z : Image(q, o)[k] = o[q[k]]
  <2>1. DOMAIN q = 1 .. z
    BY LenProperties
  <2> QED
    BY <2>1 DEF Image
<1> DEFINE s == Image(q, o)
           a == Image(r, o)
           b == Append(s, o[m])
<1> HIDE DEF s
<1>4. /\ b \in Seq(T) /\ Len(b) = Len(s) + 1 /\ b[Len(s) + 1] = o[m]
      /\ \A k \in 1 .. Len(s) : b[k] = s[k]
  BY <1>3, AppendProperties DEF s
<1> HIDE DEF b
<1>5. b \in Seq(T) /\ Len(b) = z + 1 /\ b[z + 1] = o[m] /\ \A k \in 1 .. z : b[k] = o[q[k]]
  BY <1>3, <1>4 DEF s
<1>6. z + 1 \in Nat /\ \A k \in 1 .. z + 1 : k = z + 1 \/ k \in 1 .. z
  OBVIOUS
<1>7. \A k \in 1 .. z + 1 : o[r[k]] \in T /\ o[r[k]] = b[k]
  BY <1>2, <1>5, <1>6
<1>9. a \in Seq(T) /\ Len(a) = z + 1 /\ \A k \in 1 .. z + 1 : a[k] = o[r[k]]
  <2>1. DOMAIN r = 1 .. z + 1
    BY <1>2, LenProperties
  <2> QED
    BY <1>6, <1>7, <2>1 DEF Image
<1> HIDE DEF a
<1>10. Len(a) = Len(b) /\ \A k \in 1 .. Len(a) : a[k] = b[k]
  BY <1>5, <1>7, <1>9
<1>11. a = b
  BY <1>5, <1>9, <1>10, SeqEqual
<1> QED
  BY <1>11 DEF a, b, r, s

--------------------------------------------------------------------------------
(* An interval of the numbers.                                              *)

\* The places after the first a, up to the b-th.
Span(a, b) == [k \in 1 .. b - a |-> a + k]

LEMMA SpanIs ==
  ASSUME NEW a \in Nat, NEW b \in Nat, a <= b
  PROVE  /\ Span(a, b) \in Seq(Nat) /\ Len(Span(a, b)) = b - a
         /\ \A k \in 1 .. b - a : Span(a, b)[k] = a + k
         /\ Span(a, b) = <<>> <=> a = b
<1>1. b - a \in Nat /\ \A k \in 1 .. b - a : a + k \in Nat
  OBVIOUS
<1> DEFINE s == Span(a, b)
<1>2. s \in Seq(Nat)
  BY <1>1, IsASeq DEF Span
<1>3. DOMAIN s = 1 .. b - a /\ \A k \in 1 .. b - a : s[k] = a + k
  BY DEF Span
<1> HIDE DEF s
<1>4. Len(s) = b - a
  BY <1>1, <1>2, <1>3, LenProperties
<1>5. s = <<>> <=> a = b
  BY <1>1, <1>2, <1>4, EmptySeq
<1> QED
  BY <1>2, <1>3, <1>4, <1>5 DEF s

LEMMA SpanFirst ==
  ASSUME NEW a \in Nat, NEW b \in Nat, a < b
  PROVE  Head(Span(a, b)) = a + 1 /\ Tail(Span(a, b)) = Span(a + 1, b)
<1> DEFINE s == Span(a, b)
           t == Tail(s)
           u == Span(a + 1, b)
<1>1. a + 1 \in Nat /\ a <= b /\ a + 1 <= b /\ a # b
  OBVIOUS
<1>2. s \in Seq(Nat) /\ Len(s) = b - a /\ s # <<>> /\ \A k \in 1 .. b - a : s[k] = a + k
  BY <1>1, SpanIs
<1>3. u \in Seq(Nat) /\ Len(u) = b - (a + 1) /\ \A k \in 1 .. b - (a + 1) : u[k] = a + 1 + k
  BY <1>1, SpanIs
<1> HIDE DEF s, u
<1>4. Head(s) = s[1] /\ t \in Seq(Nat) /\ Len(t) = Len(s) - 1
      /\ \A k \in 1 .. Len(s) - 1 : t[k] = s[k + 1]
  BY <1>2
<1> HIDE DEF t
<1>5. Len(t) = Len(u) /\ \A k \in 1 .. Len(t) : t[k] = u[k]
  <2>1. Len(t) = b - (a + 1) /\ Len(s) - 1 = b - (a + 1)
    BY <1>2, <1>4
  <2>2. \A k \in 1 .. b - (a + 1) : k + 1 \in 1 .. b - a /\ a + (k + 1) = a + 1 + k
    BY <1>1
  <2> QED
    BY <1>2, <1>3, <1>4, <2>1, <2>2
<1>6. t = u
  BY <1>3, <1>4, <1>5, SeqEqual
<1>7. 1 \in 1 .. b - a
  BY <1>1
<1> QED
  BY <1>2, <1>4, <1>6, <1>7 DEF s, t, u

LEMMA SpanLast ==
  ASSUME NEW a \in Nat, NEW b \in Nat, a <= b
  PROVE  Append(Span(a, b), b + 1) = Span(a, b + 1)
<1> DEFINE s == Span(a, b)
           t == Append(s, b + 1)
           u == Span(a, b + 1)
<1>1. b + 1 \in Nat /\ a <= b + 1
  OBVIOUS
<1>2. s \in Seq(Nat) /\ Len(s) = b - a /\ \A k \in 1 .. b - a : s[k] = a + k
  BY SpanIs
<1>3. u \in Seq(Nat) /\ Len(u) = b + 1 - a /\ \A k \in 1 .. b + 1 - a : u[k] = a + k
  BY <1>1, SpanIs
<1> HIDE DEF s, u
<1>4. /\ t \in Seq(Nat) /\ Len(t) = Len(s) + 1
      /\ \A k \in 1 .. Len(s) : t[k] = s[k]
      /\ t[Len(s) + 1] = b + 1
  BY <1>1, <1>2, AppendProperties
<1> HIDE DEF t
<1>5. Len(t) = Len(u) /\ \A k \in 1 .. Len(t) : t[k] = u[k]
  <2>1. Len(t) = b + 1 - a /\ Len(s) + 1 = b + 1 - a
    BY <1>2, <1>4
  <2>2. \A k \in 1 .. b + 1 - a : k \in 1 .. b - a \/ (k = b + 1 - a /\ a + k = b + 1)
    OBVIOUS
  <2>3. t[b + 1 - a] = b + 1 /\ \A k \in 1 .. b - a : t[k] = a + k
    BY <1>2, <1>4, <2>1
  <2> QED
    BY <1>3, <2>1, <2>2, <2>3
<1>6. t = u
  BY <1>3, <1>4, <1>5, SeqEqual
<1> QED
  BY <1>6 DEF s, t, u

\* The head of what is kept is the head, if that is kept.
LEMMA KeepLead ==
  ASSUME NEW T, NEW S, NEW s \in Seq(T), s # <<>>, Head(s) \in S
  PROVE  Keep(s, S) # <<>> /\ Head(Keep(s, S)) = Head(s)
<1> DEFINE P == {u \in Seq(T) : u # <<>> /\ Head(u) \in S => Keep(u, S) # <<>> /\ Head(Keep(u, S)) = Head(u)}
<1>1. <<>> \in P
  <2>1. <<>> \in Seq(T)
    OBVIOUS
  <2> QED
    BY <2>1
<1>2. ASSUME NEW u \in P, NEW x \in T PROVE Append(u, x) \in P
  <2>1. u \in Seq(T) /\ (u # <<>> /\ Head(u) \in S => Keep(u, S) # <<>> /\ Head(Keep(u, S)) = Head(u))
    OBVIOUS
  <2> HIDE DEF P
  <2>2. Keep(u, S) \in Seq(T) /\ Append(u, x) \in Seq(T)
    BY <2>1, KeepType, AppendProperties
  <2>3. Keep(Append(u, x), S) = IF x \in S THEN Append(Keep(u, S), x) ELSE Keep(u, S)
    BY <2>1, KeepAppend
  <2>4. Head(Append(u, x)) = IF u = <<>> THEN x ELSE Head(u)
    BY <2>1, HeadTailAppend
  <2>5. /\ Append(Keep(u, S), x) # <<>>
        /\ Head(Append(Keep(u, S), x)) = IF Keep(u, S) = <<>> THEN x ELSE Head(Keep(u, S))
    BY <2>2, HeadTailAppend, AppendProperties
  <2>6. u = <<>> => Keep(u, S) = <<>>
    BY KeepEmpty
  <2>7. Head(Append(u, x)) \in S =>
          Keep(Append(u, x), S) # <<>> /\ Head(Keep(Append(u, x), S)) = Head(Append(u, x))
    BY <2>1, <2>3, <2>4, <2>5, <2>6
  <2> QED
    BY <2>2, <2>7 DEF P
<1>3. P = Seq(T)
  <2>1. P \in SUBSET Seq(T)
    OBVIOUS
  <2> HIDE DEF P
  <2> QED
    BY <1>1, <1>2, <2>1, SeqInd
<1> QED
  BY <1>3

\* What is kept depends on what there is to keep.
LEMMA KeepSame ==
  ASSUME NEW T, NEW S, NEW R, NEW s \in Seq(T), \A x \in Range(s) : (x \in S <=> x \in R)
  PROVE  Keep(s, S) = Keep(s, R)
<1> DEFINE P == {u \in Seq(T) : (\A x \in Range(u) : (x \in S <=> x \in R)) => Keep(u, S) = Keep(u, R)}
<1>1. <<>> \in P
  BY KeepEmpty
<1>2. ASSUME NEW u \in P, NEW x \in T PROVE Append(u, x) \in P
  <2>1. u \in Seq(T) /\ ((\A y \in Range(u) : (y \in S <=> y \in R)) => Keep(u, S) = Keep(u, R))
    OBVIOUS
  <2> HIDE DEF P
  <2>2. Append(u, x) \in Seq(T) /\ Range(Append(u, x)) = Range(u) \cup {x}
    BY <2>1, AppendProperties, RangeAppend
  <2>3. Keep(Append(u, x), S) = IF x \in S THEN Append(Keep(u, S), x) ELSE Keep(u, S)
    BY <2>1, KeepAppend
  <2>4. Keep(Append(u, x), R) = IF x \in R THEN Append(Keep(u, R), x) ELSE Keep(u, R)
    BY <2>1, KeepAppend
  <2>5. (\A y \in Range(Append(u, x)) : (y \in S <=> y \in R)) => Keep(Append(u, x), S) = Keep(Append(u, x), R)
    BY <2>1, <2>2, <2>3, <2>4
  <2> QED
    BY <2>2, <2>5 DEF P
<1>3. P = Seq(T)
  <2>1. P \in SUBSET Seq(T)
    OBVIOUS
  <2> HIDE DEF P
  <2> QED
    BY <1>1, <1>2, <2>1, SeqInd
<1> QED
  BY <1>3

\* A set of numbers that is not empty has a least one.
LEMMA LeastExists ==
  ASSUME NEW K \in SUBSET Nat, K # {}
  PROVE  \E k \in K : \A j \in K : k <= j
<1> DEFINE R == OpToRel(<, Nat)
<1>1. IsWellFoundedOn(R, Nat)
  BY NatLessThanWellFounded
<1>2. \E x \in K : \A y \in K : ~(<<y, x>> \in R)
  BY <1>1, WFMin
<1>3. PICK x \in K : \A y \in K : ~(<<y, x>> \in R)
  BY <1>2
<1>4. ASSUME NEW y \in K PROVE x <= y
  <2>1. x \in Nat /\ y \in Nat
    OBVIOUS
  <2>2. ~(y < x)
    BY <1>3, <2>1 DEF OpToRel
  <2> QED
    BY <2>1, <2>2
<1> QED
  BY <1>4

--------------------------------------------------------------------------------
\* One sequence after another, by name: the provers are at their best with
\* concatenation when they do not see that it is one.
Cat(s, t) == s \o t

LEMMA CatIs ==
  ASSUME NEW T, NEW s \in Seq(T), NEW t \in Seq(T)
  PROVE  /\ Cat(s, t) \in Seq(T) /\ Range(Cat(s, t)) = Range(s) \cup Range(t)
         /\ Cat(s, <<>>) = s /\ Cat(<<>>, s) = s
  BY ConcatProperties, ConcatEmptySeq, RangeConcatenation DEF Cat

LEMMA CatLen ==
  ASSUME NEW T, NEW s \in Seq(T), NEW t \in Seq(T)
  PROVE  Len(Cat(s, t)) = Len(s) + Len(t)
  BY ConcatProperties DEF Cat

LEMMA CatAppend ==
  ASSUME NEW T, NEW s \in Seq(T), NEW x \in T
  PROVE  Append(s, x) = Cat(s, <<x>>) /\ <<x>> \in Seq(T)
<1>1. Append(s, x) = s \o <<x>>
  BY AppendIsConcat
<1>2. <<x>> \in Seq(T)
  OBVIOUS
<1> QED
  BY <1>1, <1>2 DEF Cat

LEMMA CatAgain ==
  ASSUME NEW T, NEW s \in Seq(T), NEW t \in Seq(T), NEW u \in Seq(T)
  PROVE  Cat(Cat(s, t), u) = Cat(s, Cat(t, u))
  BY ConcatAssociative DEF Cat

LEMMA KeepCat ==
  ASSUME NEW T, NEW S, NEW r \in Seq(T), NEW s \in Seq(T)
  PROVE  Keep(Cat(r, s), S) = Cat(Keep(r, S), Keep(s, S))
  BY KeepConcat DEF Cat
================================================================================
