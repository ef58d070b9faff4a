---------------------------- MODULE StreamProofs -----------------------------
(***************************************************************************)
(* Proofs about Stream: what the target applies is the source's log, for    *)
(* every set of tables and shapes, every log and every limit.               *)
(*                                                                          *)
(* Only and FlattenSeq are recursive functions; what they compute is shown  *)
(* by induction over sets, from the fact that the order of the naturals is  *)
(* well founded.                                                            *)
(***************************************************************************)
EXTENDS Stream, FiniteSetTheorems, WellFoundedInduction, TLAPS

-----------------------------------------------------------------------------
(* Induction. *)

\* A set of naturals that is not empty has a least element.
LEMMA Least ==
  ASSUME NEW T, T \subseteq Nat, T # {}
  PROVE  \E m \in T : \A k \in T : m <= k
<1>1. PICK m \in T : \A y \in T : ~ (<<y, m>> \in OpToRel(<, Nat))
  BY NatLessThanWellFounded, WFMin
<1>2. \A y \in T : y < m => <<y, m>> \in OpToRel(<, Nat)
  BY DEF OpToRel
<1>3. \A y \in T : ~ (y < m) /\ y \in Nat /\ m \in Nat
  BY <1>1, <1>2
<1> QED BY <1>3

\* A bounded one has a greatest.
LEMMA Greatest ==
  ASSUME NEW n \in Nat, NEW T, T \subseteq 1 .. n, T # {}
  PROVE  \E m \in T : \A k \in T : k <= m
<1> DEFINE D == {d \in Nat : n - d \in T}
<1>1. PICK t \in T : TRUE
  OBVIOUS
<1>2. n - t \in D
  BY <1>1
<1>3. PICK d \in D : \A k \in D : d <= k
  BY <1>2, Least
<1>4. \A k \in T : n - k \in D /\ k \in Nat
  OBVIOUS
<1>5. n - d \in T /\ d \in Nat
  BY <1>3
<1>6. \A k \in T : k <= n - d
  BY <1>3, <1>4, <1>5
<1> QED BY <1>5, <1>6

\* Induction over the naturals, for a set instead of a predicate.
LEMMA NatSetInduction ==
  ASSUME NEW P, 0 \in P, \A n \in Nat : n \in P => n + 1 \in P
  PROVE  Nat \subseteq P
<1> SUFFICES ASSUME Nat \ P # {} PROVE FALSE
  OBVIOUS
<1>1. PICK m \in Nat \ P : \A k \in Nat \ P : m <= k
  BY Least
<1>2. m # 0 /\ m - 1 \in Nat /\ m - 1 \in P
  BY <1>1
<1> QED BY <1>2

\* Induction over sequences, for a set.
LEMMA SeqSetInduction ==
  ASSUME NEW X, NEW P, <<>> \in P,
         \A s \in Seq(X) : \A e \in X : s \in P => Append(s, e) \in P
  PROVE  Seq(X) \subseteq P
<1> DEFINE L == {n \in Nat : \A s \in Seq(X) : Len(s) = n => s \in P}
<1>1. 0 \in L
  <2> SUFFICES ASSUME NEW s \in Seq(X), Len(s) = 0 PROVE s \in P
    OBVIOUS
  <2>1. s = <<>>
    OBVIOUS
  <2> QED BY <2>1
<1>2. ASSUME NEW n \in Nat, n \in L PROVE n + 1 \in L
  <2> SUFFICES ASSUME NEW s \in Seq(X), Len(s) = n + 1 PROVE s \in P
    OBVIOUS
  <2> DEFINE t == SubSeq(s, 1, n)
             e == s[n + 1]
  <2>1. t \in Seq(X) /\ Len(t) = n /\ e \in X
    OBVIOUS
  <2>2. s = Append(t, e)
    OBVIOUS
  <2>3. t \in P
    BY <1>2, <2>1
  <2> HIDE DEF t, e
  <2> QED BY <2>1, <2>2, <2>3
<1> HIDE DEF L
<1>3. Nat \subseteq L
  BY <1>1, <1>2, NatSetInduction
<1> QED BY <1>3 DEF L

-----------------------------------------------------------------------------
(* Only: the elements of a sequence in a set. *)

\* f is the recursive function in the definition of Only.
IsUpTo(f, s, S) ==
  f = [i \in 0 .. Len(s) |->
         IF i = 0 THEN <<>>
         ELSE IF s[i] \in S THEN Append(f[i - 1], s[i]) ELSE f[i - 1]]

LEMMA UpToUnique ==
  ASSUME NEW X, NEW S, NEW s \in Seq(X), NEW f, NEW g, IsUpTo(f, s, S), IsUpTo(g, s, S)
  PROVE  f = g
<1> DEFINE P == {n \in Nat : n <= Len(s) => f[n] = g[n]}
<1>1. 0 \in P
  BY DEF IsUpTo
<1>2. ASSUME NEW n \in Nat, n \in P PROVE n + 1 \in P
  <2> SUFFICES ASSUME n + 1 <= Len(s) PROVE f[n + 1] = g[n + 1]
    OBVIOUS
  <2>1. n + 1 \in 0 .. Len(s) /\ n + 1 # 0 /\ (n + 1) - 1 = n /\ f[n] = g[n]
    BY <1>2
  <2>2. f[n + 1] = IF s[n + 1] \in S THEN Append(f[n], s[n + 1]) ELSE f[n]
    BY <2>1 DEF IsUpTo
  <2>3. g[n + 1] = IF s[n + 1] \in S THEN Append(g[n], s[n + 1]) ELSE g[n]
    BY <2>1 DEF IsUpTo
  <2> QED BY <2>1, <2>2, <2>3
<1> HIDE DEF P
<1>3. Nat \subseteq P
  BY <1>1, <1>2, NatSetInduction
<1>4. \A n \in 0 .. Len(s) : f[n] = g[n]
  BY <1>3 DEF P
<1>5. DOMAIN f = 0 .. Len(s) /\ DOMAIN g = 0 .. Len(s)
  BY DEF IsUpTo
<1>6. f = [i \in DOMAIN f |-> f[i]] /\ g = [i \in DOMAIN g |-> g[i]]
  BY DEF IsUpTo
<1> QED BY <1>4, <1>5, <1>6

\* Only is the last value of that function.
LEMMA OnlyIs ==
  ASSUME NEW X, NEW S, NEW s \in Seq(X), NEW f, IsUpTo(f, s, S)
  PROVE  Only(s, S) = f[Len(s)]
<1> DEFINE U == CHOOSE g : IsUpTo(g, s, S)
<1>1. IsUpTo(U, s, S)
  OBVIOUS
<1>2. U = f
  BY <1>1, UpToUnique
<1>3. Only(s, S) = U[Len(s)]
  BY DEF Only, IsUpTo
<1> QED BY <1>2, <1>3

\* The function of a sequence with one more element.
LEMMA UpToAppend ==
  ASSUME NEW X, NEW S, NEW s \in Seq(X), NEW e \in X, NEW f, IsUpTo(f, s, S)
  PROVE  LET step == IF e \in S THEN Append(f[Len(s)], e) ELSE f[Len(s)]
             g == [i \in 0 .. Len(s) + 1 |-> IF i <= Len(s) THEN f[i] ELSE step]
         IN IsUpTo(g, Append(s, e), S) /\ g[Len(s) + 1] = step
<1> DEFINE step == IF e \in S THEN Append(f[Len(s)], e) ELSE f[Len(s)]
           g == [i \in 0 .. Len(s) + 1 |-> IF i <= Len(s) THEN f[i] ELSE step]
           a == Append(s, e)
<1>1. Len(a) = Len(s) + 1 /\ a \in Seq(X) /\ a[Len(s) + 1] = e
      /\ \A i \in 1 .. Len(s) : a[i] = s[i]
  OBVIOUS
<1>2. ASSUME NEW i \in 1 .. Len(s)
      PROVE  f[i] = IF s[i] \in S THEN Append(f[i - 1], s[i]) ELSE f[i - 1]
  <2>1. i \in 0 .. Len(s) /\ i # 0
    OBVIOUS
  <2> QED BY <2>1 DEF IsUpTo
<1>3. f[0] = <<>>
  BY DEF IsUpTo
<1> HIDE DEF a
<1>4. ASSUME NEW i \in 0 .. Len(s) + 1
      PROVE  g[i] = IF i = 0 THEN <<>>
                    ELSE IF a[i] \in S THEN Append(g[i - 1], a[i]) ELSE g[i - 1]
  <2>1. CASE i = 0
    BY <2>1, <1>3
  <2>2. CASE i \in 1 .. Len(s)
    <3>1. g[i] = f[i] /\ g[i - 1] = f[i - 1] /\ i # 0
      BY <2>2
    <3> HIDE DEF g
    <3> QED BY <2>2, <3>1, <1>1, <1>2
  <2>3. CASE i = Len(s) + 1
    <3>1. g[i] = step /\ g[i - 1] = f[Len(s)] /\ i # 0 /\ a[i] = e
      BY <2>3, <1>1
    <3> HIDE DEF g
    <3> QED BY <3>1
  <2> QED BY <2>1, <2>2, <2>3
<1>5. g = [i \in 0 .. Len(a) |->
         IF i = 0 THEN <<>>
         ELSE IF a[i] \in S THEN Append(g[i - 1], a[i]) ELSE g[i - 1]]
  <2>1. DOMAIN g = 0 .. Len(a)
    BY <1>1
  <2>2. g = [i \in DOMAIN g |-> g[i]]
    OBVIOUS
  <2> HIDE DEF g, step
  <2> QED BY <1>1, <1>4, <2>1, <2>2
<1>6. g[Len(s) + 1] = step
  OBVIOUS
<1> HIDE DEF g, step
<1>7. IsUpTo(g, a, S)
  BY <1>5 DEF IsUpTo
<1> QED BY <1>6, <1>7 DEF g, step, a

LEMMA UpToExists ==
  ASSUME NEW X, NEW S
  PROVE  \A s \in Seq(X) : \E f : IsUpTo(f, s, S)
<1> DEFINE P == {s \in Seq(X) : \E f : IsUpTo(f, s, S)}
<1>1. <<>> \in P
  <2> DEFINE f == [i \in 0 .. 0 |-> <<>>]
  <2>1. f[0] = <<>> /\ Len(<<>>) = 0 /\ <<>> \in Seq(X)
    OBVIOUS
  <2>2. IsUpTo(f, <<>>, S)
    BY DEF IsUpTo
  <2> HIDE DEF f
  <2> QED BY <2>1, <2>2
<1>2. ASSUME NEW s \in Seq(X), NEW e \in X, s \in P PROVE Append(s, e) \in P
  <2>1. PICK f : IsUpTo(f, s, S)
    BY <1>2
  <2>2. \E g : IsUpTo(g, Append(s, e), S)
    BY <2>1, UpToAppend
  <2>3. Append(s, e) \in Seq(X)
    OBVIOUS
  <2> QED BY <2>2, <2>3
<1> HIDE DEF P
<1>3. Seq(X) \subseteq P
  BY <1>1, <1>2, SeqSetInduction
<1> QED BY <1>3 DEF P

LEMMA OnlyEmpty ==
  ASSUME NEW S PROVE Only(<<>>, S) = <<>>
<1>1. <<>> \in Seq({}) /\ Len(<<>>) = 0
  OBVIOUS
<1>2. PICK f : IsUpTo(f, <<>>, S)
  BY <1>1, UpToExists
<1>3. Only(<<>>, S) = f[0]
  BY <1>1, <1>2, OnlyIs
<1>4. f[0] = <<>>
  BY <1>1, <1>2 DEF IsUpTo
<1> QED BY <1>3, <1>4

\* One more element is kept if it is in the set.
LEMMA OnlyAppend ==
  ASSUME NEW X, NEW S, NEW s \in Seq(X), NEW e \in X
  PROVE  Only(Append(s, e), S) = IF e \in S THEN Append(Only(s, S), e) ELSE Only(s, S)
<1>1. PICK f : IsUpTo(f, s, S)
  BY UpToExists
<1> DEFINE step == IF e \in S THEN Append(f[Len(s)], e) ELSE f[Len(s)]
           g == [i \in 0 .. Len(s) + 1 |-> IF i <= Len(s) THEN f[i] ELSE step]
<1>2. IsUpTo(g, Append(s, e), S) /\ g[Len(s) + 1] = step
  BY <1>1, UpToAppend
<1>3. Append(s, e) \in Seq(X) /\ Len(Append(s, e)) = Len(s) + 1
  OBVIOUS
<1>4. Only(s, S) = f[Len(s)]
  BY <1>1, OnlyIs
<1> HIDE DEF g
<1>5. Only(Append(s, e), S) = step
  BY <1>2, <1>3, OnlyIs
<1> QED BY <1>4, <1>5

\* Only keeps elements of the sequence that are in the set.
LEMMA OnlyType ==
  ASSUME NEW X, NEW S
  PROVE  \A s \in Seq(X) : Only(s, S) \in Seq(X \cap S)
<1> DEFINE P == {s \in Seq(X) : Only(s, S) \in Seq(X \cap S)}
<1>1. <<>> \in P
  <2>1. <<>> \in Seq(X) /\ <<>> \in Seq(X \cap S)
    OBVIOUS
  <2> QED BY <2>1, OnlyEmpty
<1>2. ASSUME NEW s \in Seq(X), NEW e \in X, s \in P PROVE Append(s, e) \in P
  <2>1. Only(Append(s, e), S) = IF e \in S THEN Append(Only(s, S), e) ELSE Only(s, S)
    BY OnlyAppend
  <2>2. Only(s, S) \in Seq(X \cap S)
    BY <1>2
  <2>3. CASE e \in S
    BY <2>1, <2>2, <2>3
  <2>4. CASE e \notin S
    BY <2>1, <2>2, <2>4
  <2> QED BY <2>3, <2>4
<1> HIDE DEF P
<1>3. Seq(X) \subseteq P
  BY <1>1, <1>2, SeqSetInduction
<1> QED BY <1>3 DEF P

LEMMA ConcatAppend ==
  ASSUME NEW X, NEW s \in Seq(X), NEW t \in Seq(X), NEW e \in X
  PROVE  s \o Append(t, e) = Append(s \o t, e)
OBVIOUS

\* Only distributes over concatenation.
LEMMA OnlyConcat ==
  ASSUME NEW X, NEW S, NEW s \in Seq(X), NEW t \in Seq(X)
  PROVE  Only(s \o t, S) = Only(s, S) \o Only(t, S)
<1> DEFINE P == {u \in Seq(X) : Only(s \o u, S) = Only(s, S) \o Only(u, S)}
<1>0. ASSUME NEW u \in Seq(X) PROVE Only(u, S) \in Seq(X)
  <2>1. Only(u, S) \in Seq(X \cap S)
    BY OnlyType
  <2> QED BY <2>1
<1>1. <<>> \in P
  <2>1. s \o <<>> = s /\ <<>> \in Seq(X) /\ Only(s, S) \o <<>> = Only(s, S)
    BY <1>0
  <2> QED BY <2>1, OnlyEmpty
<1>2. ASSUME NEW u \in Seq(X), NEW e \in X, u \in P PROVE Append(u, e) \in P
  <2>1. Only(Append(u, e), S) = IF e \in S THEN Append(Only(u, S), e) ELSE Only(u, S)
    BY OnlyAppend
  <2>2. s \o u \in Seq(X) /\ Append(u, e) \in Seq(X)
    OBVIOUS
  <2>3. \A v \in Seq(X) : Only(Append(v, e), S) = IF e \in S THEN Append(Only(v, S), e) ELSE Only(v, S)
    BY OnlyAppend
  <2>31. Only(Append(s \o u, e), S) = IF e \in S THEN Append(Only(s \o u, S), e) ELSE Only(s \o u, S)
    BY <2>2, <2>3
  <2>4. s \o Append(u, e) = Append(s \o u, e)
    BY ConcatAppend
  <2>5. Only(s \o u, S) = Only(s, S) \o Only(u, S)
    BY <1>2
  <2>6. Only(s, S) \in Seq(X) /\ Only(u, S) \in Seq(X)
    BY <1>0
  <2>7. Append(Only(s, S) \o Only(u, S), e) = Only(s, S) \o Append(Only(u, S), e)
    <3>1. \A v, w \in Seq(X) : v \o Append(w, e) = Append(v \o w, e)
      BY ConcatAppend
    <3> QED BY <2>6, <3>1
  <2>8. Only(s \o Append(u, e), S) = Only(s, S) \o Only(Append(u, e), S)
    BY <2>1, <2>31, <2>4, <2>5, <2>7
  <2> QED BY <2>2, <2>8
<1> HIDE DEF P
<1>3. Seq(X) \subseteq P
  BY <1>1, <1>2, SeqSetInduction
<1> QED BY <1>3 DEF P

-----------------------------------------------------------------------------
(* FlattenSeq. *)

\* f is the recursive function in the definition of FlattenSeq.
IsFlat(f, ss) ==
  f = [i \in 1 .. Len(ss) |-> IF i = 1 THEN ss[i] ELSE f[i - 1] \o ss[i]]

LEMMA FlatUnique ==
  ASSUME NEW X, NEW ss \in Seq(Seq(X)), NEW f, NEW g, IsFlat(f, ss), IsFlat(g, ss)
  PROVE  f = g
<1> DEFINE P == {n \in Nat : n \in 1 .. Len(ss) => f[n] = g[n]}
<1>1. 0 \in P
  OBVIOUS
<1>2. ASSUME NEW n \in Nat, n \in P PROVE n + 1 \in P
  <2> SUFFICES ASSUME n + 1 \in 1 .. Len(ss) PROVE f[n + 1] = g[n + 1]
    OBVIOUS
  <2>1. f[n + 1] = IF n + 1 = 1 THEN ss[n + 1] ELSE f[(n + 1) - 1] \o ss[n + 1]
    BY DEF IsFlat
  <2>2. g[n + 1] = IF n + 1 = 1 THEN ss[n + 1] ELSE g[(n + 1) - 1] \o ss[n + 1]
    BY DEF IsFlat
  <2>3. (n + 1) - 1 = n /\ (n + 1 = 1 \/ f[n] = g[n])
    BY <1>2
  <2> QED BY <2>1, <2>2, <2>3
<1> HIDE DEF P
<1>3. Nat \subseteq P
  BY <1>1, <1>2, NatSetInduction
<1>4. \A n \in 1 .. Len(ss) : f[n] = g[n]
  BY <1>3 DEF P
<1>5. DOMAIN f = 1 .. Len(ss) /\ DOMAIN g = 1 .. Len(ss)
  BY DEF IsFlat
<1>6. f = [i \in DOMAIN f |-> f[i]] /\ g = [i \in DOMAIN g |-> g[i]]
  BY DEF IsFlat
<1> QED BY <1>4, <1>5, <1>6

LEMMA FlattenIs ==
  ASSUME NEW X, NEW ss \in Seq(Seq(X)), NEW f, IsFlat(f, ss), Len(ss) # 0
  PROVE  FlattenSeq(ss) = f[Len(ss)]
<1> DEFINE U == CHOOSE g : IsFlat(g, ss)
<1>1. IsFlat(U, ss)
  OBVIOUS
<1>2. U = f
  BY <1>1, FlatUnique
<1>3. FlattenSeq(ss) = U[Len(ss)]
  BY DEF FlattenSeq, IsFlat
<1> QED BY <1>2, <1>3

LEMMA FlattenEmpty == FlattenSeq(<<>>) = <<>>
BY DEF FlattenSeq

LEMMA FlatAppend ==
  ASSUME NEW X, NEW ss \in Seq(Seq(X)), NEW s \in Seq(X), NEW f, IsFlat(f, ss)
  PROVE  LET step == IF Len(ss) = 0 THEN s ELSE f[Len(ss)] \o s
             g == [i \in 1 .. Len(ss) + 1 |-> IF i <= Len(ss) THEN f[i] ELSE step]
         IN IsFlat(g, Append(ss, s)) /\ g[Len(ss) + 1] = step
<1> DEFINE step == IF Len(ss) = 0 THEN s ELSE f[Len(ss)] \o s
           g == [i \in 1 .. Len(ss) + 1 |-> IF i <= Len(ss) THEN f[i] ELSE step]
           a == Append(ss, s)
<1>1. Len(a) = Len(ss) + 1 /\ a \in Seq(Seq(X)) /\ a[Len(ss) + 1] = s
      /\ \A i \in 1 .. Len(ss) : a[i] = ss[i]
  OBVIOUS
<1>2. ASSUME NEW i \in 1 .. Len(ss)
      PROVE  f[i] = IF i = 1 THEN ss[i] ELSE f[i - 1] \o ss[i]
  BY DEF IsFlat
<1> HIDE DEF a
<1>3. Len(ss) \in Nat
  OBVIOUS
<1>4. ASSUME NEW i \in 1 .. Len(ss) + 1
      PROVE  g[i] = IF i = 1 THEN a[i] ELSE g[i - 1] \o a[i]
  <2>1. CASE i \in 1 .. Len(ss)
    <3>1. g[i] = f[i] /\ (i = 1 \/ g[i - 1] = f[i - 1])
      BY <2>1, <1>3
    <3> HIDE DEF g
    <3> QED BY <2>1, <3>1, <1>1, <1>2
  <2>2. CASE i = Len(ss) + 1
    <3>1. g[i] = step /\ (i = 1 \/ g[i - 1] = f[Len(ss)]) /\ a[i] = s /\ (i = 1 <=> Len(ss) = 0)
      BY <2>2, <1>1, <1>3
    <3> HIDE DEF g
    <3> QED BY <3>1
  <2> QED BY <2>1, <2>2, <1>3
<1>5. g = [i \in 1 .. Len(a) |-> IF i = 1 THEN a[i] ELSE g[i - 1] \o a[i]]
  <2>1. DOMAIN g = 1 .. Len(a)
    BY <1>1
  <2>2. g = [i \in DOMAIN g |-> g[i]]
    OBVIOUS
  <2> HIDE DEF g, step
  <2> QED BY <1>1, <1>4, <2>1, <2>2
<1>6. g[Len(ss) + 1] = step
  BY <1>3
<1> HIDE DEF g, step
<1>7. IsFlat(g, a)
  BY <1>5 DEF IsFlat
<1> QED BY <1>6, <1>7 DEF g, step, a

LEMMA FlatExists ==
  ASSUME NEW X
  PROVE  \A ss \in Seq(Seq(X)) : \E f : IsFlat(f, ss)
<1> DEFINE P == {ss \in Seq(Seq(X)) : \E f : IsFlat(f, ss)}
<1>1. <<>> \in P
  <2>1. IsFlat(<<>>, <<>>) /\ <<>> \in Seq(Seq(X))
    BY DEF IsFlat
  <2> QED BY <2>1
<1>2. ASSUME NEW ss \in Seq(Seq(X)), NEW s \in Seq(X), ss \in P PROVE Append(ss, s) \in P
  <2>1. PICK f : IsFlat(f, ss)
    BY <1>2
  <2>2. \E g : IsFlat(g, Append(ss, s))
    BY <2>1, FlatAppend
  <2>3. Append(ss, s) \in Seq(Seq(X))
    OBVIOUS
  <2> QED BY <2>2, <2>3
<1> HIDE DEF P
<1>3. Seq(Seq(X)) \subseteq P
  BY <1>1, <1>2, SeqSetInduction
<1> QED BY <1>3 DEF P

LEMMA FlattenAppendRaw ==
  ASSUME NEW X, NEW ss \in Seq(Seq(X)), NEW s \in Seq(X)
  PROVE  FlattenSeq(Append(ss, s)) = IF Len(ss) = 0 THEN s ELSE FlattenSeq(ss) \o s
<1>1. PICK f : IsFlat(f, ss)
  BY FlatExists
<1> DEFINE step == IF Len(ss) = 0 THEN s ELSE f[Len(ss)] \o s
           g == [i \in 1 .. Len(ss) + 1 |-> IF i <= Len(ss) THEN f[i] ELSE step]
<1>2. IsFlat(g, Append(ss, s)) /\ g[Len(ss) + 1] = step
  BY <1>1, FlatAppend
<1>3. Append(ss, s) \in Seq(Seq(X)) /\ Len(Append(ss, s)) = Len(ss) + 1 /\ Len(ss) + 1 # 0
  OBVIOUS
<1>4. Len(ss) # 0 => FlattenSeq(ss) = f[Len(ss)]
  BY <1>1, FlattenIs
<1> HIDE DEF g
<1>5. FlattenSeq(Append(ss, s)) = step
  BY <1>2, <1>3, FlattenIs
<1> QED BY <1>4, <1>5

LEMMA FlattenType ==
  ASSUME NEW X
  PROVE  \A ss \in Seq(Seq(X)) : FlattenSeq(ss) \in Seq(X)
<1> DEFINE P == {ss \in Seq(Seq(X)) : FlattenSeq(ss) \in Seq(X)}
<1>1. <<>> \in P
  <2>1. <<>> \in Seq(X) /\ <<>> \in Seq(Seq(X))
    OBVIOUS
  <2> QED BY <2>1, FlattenEmpty
<1>2. ASSUME NEW ss \in Seq(Seq(X)), NEW s \in Seq(X), ss \in P PROVE Append(ss, s) \in P
  <2>1. FlattenSeq(Append(ss, s)) = IF Len(ss) = 0 THEN s ELSE FlattenSeq(ss) \o s
    BY FlattenAppendRaw
  <2>2. FlattenSeq(ss) \in Seq(X)
    BY <1>2
  <2>3. FlattenSeq(Append(ss, s)) \in Seq(X)
    BY <2>1, <2>2
  <2> QED BY <2>3
<1> HIDE DEF P
<1>3. Seq(Seq(X)) \subseteq P
  BY <1>1, <1>2, SeqSetInduction
<1> QED BY <1>3 DEF P

LEMMA FlattenAppend ==
  ASSUME NEW X, NEW ss \in Seq(Seq(X)), NEW s \in Seq(X)
  PROVE  FlattenSeq(Append(ss, s)) = FlattenSeq(ss) \o s
<1>1. FlattenSeq(Append(ss, s)) = IF Len(ss) = 0 THEN s ELSE FlattenSeq(ss) \o s
  BY FlattenAppendRaw
<1>2. CASE Len(ss) = 0
  <2>1. ss = <<>>
    BY <1>2
  <2>2. <<>> \o s = s
    OBVIOUS
  <2> QED BY <1>1, <1>2, <2>1, <2>2, FlattenEmpty
<1> QED BY <1>1, <1>2

\* Flattening distributes over concatenation.
LEMMA FlattenConcat ==
  ASSUME NEW X, NEW ss \in Seq(Seq(X)), NEW tt \in Seq(Seq(X))
  PROVE  FlattenSeq(ss \o tt) = FlattenSeq(ss) \o FlattenSeq(tt)
<1> DEFINE P == {u \in Seq(Seq(X)) : FlattenSeq(ss \o u) = FlattenSeq(ss) \o FlattenSeq(u)}
<1>0. \A u \in Seq(Seq(X)) : FlattenSeq(u) \in Seq(X)
  BY FlattenType
<1>1. <<>> \in P
  <2>1. ss \o <<>> = ss /\ <<>> \in Seq(Seq(X)) /\ FlattenSeq(ss) \o <<>> = FlattenSeq(ss)
    BY <1>0
  <2> QED BY <2>1, FlattenEmpty
<1>2. ASSUME NEW u \in Seq(Seq(X)), NEW e \in Seq(X), u \in P PROVE Append(u, e) \in P
  <2>1. FlattenSeq(Append(u, e)) = FlattenSeq(u) \o e
    BY FlattenAppend
  <2>2. ss \o u \in Seq(Seq(X)) /\ Append(u, e) \in Seq(Seq(X))
    OBVIOUS
  <2>3. FlattenSeq(Append(ss \o u, e)) = FlattenSeq(ss \o u) \o e
    BY <2>2, FlattenAppend
  <2>4. ss \o Append(u, e) = Append(ss \o u, e)
    BY ConcatAppend
  <2>5. FlattenSeq(ss \o u) = FlattenSeq(ss) \o FlattenSeq(u)
    BY <1>2
  <2>6. FlattenSeq(ss) \in Seq(X) /\ FlattenSeq(u) \in Seq(X)
    BY <1>0
  <2>7. (FlattenSeq(ss) \o FlattenSeq(u)) \o e = FlattenSeq(ss) \o (FlattenSeq(u) \o e)
    BY <2>6
  <2> QED BY <2>1, <2>2, <2>3, <2>4, <2>5, <2>7
<1> HIDE DEF P
<1>3. Seq(Seq(X)) \subseteq P
  BY <1>1, <1>2, SeqSetInduction
<1> QED BY <1>3 DEF P

-----------------------------------------------------------------------------
(* Changes. *)

LEMMA RangeAppend ==
  ASSUME NEW X, NEW s \in Seq(X), NEW e
  PROVE  Range(Append(s, e)) = Range(s) \cup {e}
<1> DEFINE a == Append(s, e)
<1>1. DOMAIN a = 1 .. Len(s) + 1 /\ DOMAIN s = 1 .. Len(s) /\ Len(s) \in Nat
      /\ a[Len(s) + 1] = e /\ \A i \in 1 .. Len(s) : a[i] = s[i]
  OBVIOUS
<1> HIDE DEF a
<1> QED BY <1>1 DEF Range, a

LEMMA RangeEmpty == Range(<<>>) = {}
BY DEF Range

LEMMA RangeType ==
  ASSUME NEW X, NEW s \in Seq(X)
  PROVE  Range(s) \subseteq X
BY DEF Range

\* How rows, decoded rows and the other changes are told apart.
LEMMA Kinds ==
  /\ \A c \in Row : IsRow(c) /\ c \in Change /\ c.rel \in Rel /\ c.shape \in Shape
  /\ \A c \in Truncate \cup Alter \cup {Elsewhere} : ~IsRow(c) /\ c \notin Row /\ c \notin DecodedRow
  /\ \A c \in Alter : RequiresBarrier(c)
  /\ ~IsRow(OtherMessage) /\ ~IsRow(Origin)
  /\ \A c \in Change : IsRow(c) <=> c \in Row
  /\ \A c \in Item : IsRow(c) <=> c \in DecodedRow
  /\ \A c \in Change : c \notin DecodedRow
<1>1. \A c \in Row : IsRow(c) /\ c \in Change /\ c.rel \in Rel /\ c.shape \in Shape
  BY DEF Row, IsRow, Change
<1>2. \A c \in Truncate \cup Alter \cup {Elsewhere} : ~IsRow(c)
  BY DEF Truncate, Alter, Elsewhere, IsRow
<1>3. \A c \in DecodedRow : IsRow(c)
  BY DEF DecodedRow, IsRow
<1>4. ~IsRow(OtherMessage) /\ ~IsRow(Origin)
  BY DEF OtherMessage, Origin, IsRow
<1>5. \A c \in Alter : RequiresBarrier(c)
  BY DEF Alter, RequiresBarrier
<1>6. \A c \in Row : c \notin DecodedRow
  <2> SUFFICES ASSUME NEW c \in Row, c \in DecodedRow PROVE FALSE
    OBVIOUS
  <2>1. DOMAIN c = {"kind", "rel", "shape"}
    BY DEF Row
  <2>2. DOMAIN c = {"kind", "row", "generation"}
    BY DEF DecodedRow
  <2> QED BY <2>1, <2>2
<1> QED BY <1>1, <1>2, <1>3, <1>4, <1>5, <1>6 DEF Change, Item

\* Changes that are no rows and that decode accepts.
Special == Truncate \cup Alter \cup {Elsewhere}

\* The changes of tables, and the ones decode accepts.
LEMMA TableChange ==
  ASSUME NEW c \in Change
  PROVE  /\ OfTable(c) <=> c \in Row \cup Truncate
         /\ OfTable(c) => c.rel \in Rel /\ c.shape \in Shape
         /\ c.kind \notin {"message", "origin"} => c \in Row \cup Special
         /\ c \in Special => c.kind # "row"
BY DEF Change, OfTable, Row, Truncate, Alter, Elsewhere, OtherMessage, Origin, Special

\* Rows are never barriers.
LEMMA BarrierIsNoRow ==
  \A c : RequiresBarrier(c) => ~IsRow(c)
BY DEF RequiresBarrier, IsRow

-----------------------------------------------------------------------------
(* The rows of a request. *)

\* The decoded rows of a table, and the rows they hold.
RowItems(r) == {c \in DecodedRow : c.row.rel = r}

RowMap(s) == [i \in DOMAIN s |-> s[i].row]

LEMMA GroupedIs ==
  ASSUME NEW changes, NEW r
  PROVE  Grouped(changes, r) = RowMap(Only(changes, RowItems(r)))
BY DEF Grouped, RowMap, RowItems

LEMMA RowMapType ==
  ASSUME NEW r, NEW s \in Seq(RowItems(r))
  PROVE  RowMap(s) \in Seq(RowsOf(r)) /\ Len(RowMap(s)) = Len(s)
<1>1. \A i \in 1 .. Len(s) : s[i].row \in RowsOf(r)
  BY DEF RowItems, RowsOf, DecodedRow
<1> QED BY <1>1 DEF RowMap

LEMMA RowMapAppend ==
  ASSUME NEW X, NEW s \in Seq(X), NEW c \in X
  PROVE  RowMap(Append(s, c)) = Append(RowMap(s), c.row)
<1> DEFINE a == Append(s, c)
<1>1. a \in Seq(X) /\ Len(a) = Len(s) + 1 /\ Len(s) \in Nat /\ DOMAIN a = 1 .. Len(s) + 1
      /\ a[Len(s) + 1] = c /\ \A i \in 1 .. Len(s) : a[i] = s[i]
  OBVIOUS
<1> DEFINE m == RowMap(s)
<1>2. m = [i \in 1 .. Len(s) |-> s[i].row] 
  BY DEF RowMap
<1>3. m \in Seq({s[i].row : i \in 1 .. Len(s)}) /\ Len(m) = Len(s)
  BY <1>2
<1>4. RowMap(a) = [i \in 1 .. Len(s) + 1 |-> a[i].row]
  BY <1>1 DEF RowMap
<1>5. Append(m, c.row) = [i \in 1 .. Len(s) + 1 |-> IF i = Len(s) + 1 THEN c.row ELSE m[i]]
  BY <1>3
<1> HIDE DEF a, m
<1> QED BY <1>1, <1>2, <1>4, <1>5 DEF a, m

LEMMA RowMapConcat ==
  ASSUME NEW X, NEW s \in Seq(X), NEW t \in Seq(X)
  PROVE  RowMap(s \o t) = RowMap(s) \o RowMap(t)
<1> DEFINE u == s \o t
           Y == {s[i].row : i \in 1 .. Len(s)} \cup {t[i].row : i \in 1 .. Len(t)}
<1>1. u \in Seq(X) /\ Len(u) = Len(s) + Len(t) /\ Len(s) \in Nat /\ Len(t) \in Nat
  OBVIOUS
<1>2. RowMap(s) \in Seq(Y) /\ RowMap(t) \in Seq(Y)
      /\ Len(RowMap(s)) = Len(s) /\ Len(RowMap(t)) = Len(t)
  <2>1. RowMap(s) = [i \in 1 .. Len(s) |-> s[i].row]
        /\ RowMap(t) = [i \in 1 .. Len(t) |-> t[i].row]
    BY DEF RowMap
  <2>2. (\A i \in 1 .. Len(s) : s[i].row \in Y) /\ (\A i \in 1 .. Len(t) : t[i].row \in Y)
    OBVIOUS
  <2> HIDE DEF Y
  <2>3. RowMap(s) \in Seq(Y) /\ Len(RowMap(s)) = Len(s)
    BY <1>1, <2>1, <2>2
  <2>4. RowMap(t) \in Seq(Y) /\ Len(RowMap(t)) = Len(t)
    BY <1>1, <2>1, <2>2
  <2> QED BY <2>3, <2>4
<1> HIDE DEF Y
<1>3. DOMAIN RowMap(u) = 1 .. Len(s) + Len(t)
  BY <1>1 DEF RowMap
<1>4. DOMAIN (RowMap(s) \o RowMap(t)) = 1 .. Len(s) + Len(t)
  BY <1>2
<1>5. ASSUME NEW i \in 1 .. Len(s) + Len(t)
      PROVE  RowMap(u)[i] = (RowMap(s) \o RowMap(t))[i]
  <2>1. CASE i <= Len(s)
    <3>1. u[i] = s[i]
      BY <2>1
    <3>2. RowMap(u)[i] = u[i].row /\ RowMap(s)[i] = s[i].row
      BY <1>1, <2>1 DEF RowMap
    <3>3. (RowMap(s) \o RowMap(t))[i] = RowMap(s)[i]
      BY <1>2, <2>1
    <3> QED BY <3>1, <3>2, <3>3
  <2>2. CASE i > Len(s)
    <3>1. u[i] = t[i - Len(s)]
      BY <2>2
    <3>2. RowMap(u)[i] = u[i].row /\ RowMap(t)[i - Len(s)] = t[i - Len(s)].row
      BY <1>1, <2>2 DEF RowMap
    <3>3. (RowMap(s) \o RowMap(t))[i] = RowMap(t)[i - Len(s)]
      BY <1>2, <2>2
    <3> QED BY <3>1, <3>2, <3>3
  <2>3. i <= Len(s) \/ i > Len(s)
    BY <1>1
  <2> HIDE DEF u
  <2> QED BY <2>1, <2>2, <2>3
<1> DEFINE f == RowMap(u)
           g == RowMap(s) \o RowMap(t)
<1>6. f = [i \in DOMAIN f |-> f[i]]
  BY DEF RowMap
<1>7. g = [i \in DOMAIN g |-> g[i]]
  <2>1. g \in Seq(Y)
    BY <1>2
  <2> HIDE DEF g
  <2> QED BY <2>1
<1> HIDE DEF f, g
<1>8. f = g
  BY <1>3, <1>4, <1>5, <1>6, <1>7 DEF f, g
<1> QED BY <1>8 DEF f, g

\* One more change in the request.
LEMMA GroupedAppend ==
  ASSUME NEW s \in Seq(Item), NEW c \in Item, NEW r
  PROVE  Grouped(Append(s, c), r) =
           IF c \in RowItems(r) THEN Append(Grouped(s, r), c.row) ELSE Grouped(s, r)
<1>1. Only(Append(s, c), RowItems(r)) =
        IF c \in RowItems(r) THEN Append(Only(s, RowItems(r)), c) ELSE Only(s, RowItems(r))
  BY OnlyAppend
<1>2. Only(s, RowItems(r)) \in Seq(Item \cap RowItems(r))
  BY OnlyType
<1> DEFINE o == Only(s, RowItems(r))
<1>3. c \in RowItems(r) => RowMap(Append(o, c)) = Append(RowMap(o), c.row)
  <2> HAVE c \in RowItems(r)
  <2>1. c \in Item \cap RowItems(r)
    OBVIOUS
  <2> HIDE DEF o
  <2> QED BY <1>2, <2>1, RowMapAppend DEF o
<1> QED BY <1>1, <1>3, GroupedIs

LEMMA GroupedConcat ==
  ASSUME NEW s \in Seq(Item), NEW t \in Seq(Item), NEW r
  PROVE  Grouped(s \o t, r) = Grouped(s, r) \o Grouped(t, r)
<1>1. Only(s \o t, RowItems(r)) = Only(s, RowItems(r)) \o Only(t, RowItems(r))
  BY OnlyConcat
<1>2. Only(s, RowItems(r)) \in Seq(Item \cap RowItems(r))
      /\ Only(t, RowItems(r)) \in Seq(Item \cap RowItems(r))
  BY OnlyType
<1>3. RowMap(Only(s, RowItems(r)) \o Only(t, RowItems(r)))
        = RowMap(Only(s, RowItems(r))) \o RowMap(Only(t, RowItems(r)))
  <2> DEFINE o == Only(s, RowItems(r))
             p == Only(t, RowItems(r))
  <2> HIDE DEF o, p
  <2> SUFFICES RowMap(o \o p) = RowMap(o) \o RowMap(p)
    BY DEF o, p
  <2> QED BY <1>2, RowMapConcat DEF o, p
<1> QED BY <1>1, <1>3, GroupedIs

LEMMA GroupedType ==
  ASSUME NEW s \in Seq(Item), NEW r
  PROVE  Grouped(s, r) \in Seq(RowsOf(r))
<1>1. Only(s, RowItems(r)) \in Seq(Item \cap RowItems(r))
  BY OnlyType
<1>2. Only(s, RowItems(r)) \in Seq(RowItems(r))
  BY <1>1
<1> QED BY <1>2, RowMapType, GroupedIs

LEMMA GroupedEmpty ==
  ASSUME NEW r PROVE Grouped(<<>>, r) = <<>>
BY OnlyEmpty, GroupedIs DEF RowMap

-----------------------------------------------------------------------------
(* How many changes a transaction counts for. *)

\* The changes that count against max_changes: every repetition of a DDL message
\* is left out.
First(body) ==
  {i \in DOMAIN body : body[i].kind = "ddl" => \A j \in 1 .. i - 1 : body[j] # body[i]}

LEMMA CountedIs ==
  ASSUME NEW body \in Seq(Change)
  PROVE  /\ Counted(body) = Cardinality(First(body)) /\ Counted(body) \in Nat
         /\ IsFiniteSet(First(body)) /\ First(body) \subseteq 1 .. Len(body)
<1>1. Counted(body) = Cardinality(First(body))
  BY DEF Counted, First
<1>2. First(body) \subseteq 1 .. Len(body)
  BY DEF First
<1>3. IsFiniteSet(1 .. Len(body))
  BY FS_Interval
<1>4. IsFiniteSet(First(body))
  BY <1>2, <1>3, FS_Subset
<1> QED BY <1>1, <1>2, <1>4, FS_CardinalityType

LEMMA CountedEmpty == Counted(<<>>) = 0
<1>1. First(<<>>) = {}
  BY DEF First
<1> QED BY <1>1, FS_EmptySet DEF Counted, First

LEMMA CountedAppend ==
  ASSUME NEW b \in Seq(Change), NEW c \in Change
  PROVE  Counted(Append(b, c)) =
           IF c.kind = "ddl" /\ c \in Range(b) THEN Counted(b) ELSE Counted(b) + 1
<1> DEFINE a == Append(b, c)
           n == Len(b)
<1>1. a \in Seq(Change) /\ n \in Nat /\ DOMAIN a = 1 .. n + 1 /\ DOMAIN b = 1 .. n
      /\ a[n + 1] = c /\ \A i \in 1 .. n : a[i] = b[i]
  OBVIOUS
<1> HIDE DEF a, n
<1>2. \A i \in 1 .. n : i \in First(a) <=> i \in First(b)
  BY <1>1 DEF First
<1>3. n + 1 \in First(a) <=> ~ (c.kind = "ddl" /\ c \in Range(b))
  <2>1. c \in Range(b) <=> \E j \in 1 .. n : b[j] = c
    BY <1>1 DEF Range
  <2> QED BY <1>1, <2>1 DEF First
<1>4. First(b) \subseteq 1 .. n /\ First(a) \subseteq 1 .. n + 1 /\ n + 1 \notin First(b)
  BY <1>1 DEF First
<1>5. IsFiniteSet(First(b)) /\ Counted(b) = Cardinality(First(b)) /\ Counted(a) = Cardinality(First(a))
  BY <1>1, CountedIs
<1>6. CASE c.kind = "ddl" /\ c \in Range(b)
  <2>1. \A i \in 1 .. n + 1 : i \in 1 .. n \/ i = n + 1
    BY <1>1
  <2>2. First(a) = First(b)
    BY <1>2, <1>3, <1>4, <1>6, <2>1
  <2> QED BY <1>5, <1>6, <2>2 DEF a
<1>7. CASE ~ (c.kind = "ddl" /\ c \in Range(b))
  <2>1. First(a) = First(b) \cup {n + 1}
    BY <1>2, <1>3, <1>4, <1>7, <1>1
  <2>2. Cardinality(First(b) \cup {n + 1}) = Cardinality(First(b)) + 1
    BY <1>4, <1>5, FS_AddElement
  <2> QED BY <1>5, <1>7, <2>1, <2>2 DEF a
<1> QED BY <1>6, <1>7

\* A transaction counts for no less than its beginning.
LEMMA CountedPrefix ==
  ASSUME NEW b \in Seq(Change), NEW k \in 0 .. Len(b)
  PROVE  Counted(SubSeq(b, 1, k)) <= Counted(b)
<1> DEFINE p == SubSeq(b, 1, k)
<1>1. p \in Seq(Change) /\ DOMAIN p = 1 .. k /\ Len(b) \in Nat /\ k \in Nat /\ k <= Len(b)
      /\ DOMAIN b = 1 .. Len(b) /\ \A i \in 1 .. k : p[i] = b[i]
  OBVIOUS
<1> HIDE DEF p
<1>2. First(p) \subseteq First(b)
  BY <1>1 DEF First
<1>3. Counted(p) = Cardinality(First(p)) /\ Counted(b) = Cardinality(First(b)) /\ IsFiniteSet(First(b))
  BY <1>1, CountedIs
<1>4. Cardinality(First(p)) <= Cardinality(First(b))
  BY <1>2, <1>3, FS_Subset
<1> QED BY <1>3, <1>4 DEF p

LEMMA Prefix ==
  ASSUME NEW X, NEW b \in Seq(X), NEW k \in 1 .. Len(b)
  PROVE  /\ SubSeq(b, 1, k) = Append(SubSeq(b, 1, k - 1), b[k])
         /\ SubSeq(b, 1, k - 1) \in Seq(X) /\ b[k] \in X
OBVIOUS

-----------------------------------------------------------------------------
(* The assembler. *)

\* changes is what the assembler has after it was sent body: its rows in order
\* and per table, every other change, nothing that is unsupported, and a length that
\* max_changes allows.
Assembled(changes, body) ==
  /\ changes \in Seq(Item)
  /\ \A c \in Range(body) : ~Unsupported(c)
  /\ \A r \in Rel : Grouped(changes, r) = Only(body, RowsOf(r))
  /\ \A c \in Range(body) : ~IsRow(c) => c \in Range(changes)
  /\ \A c \in Range(changes) : ~IsRow(c) => c \in Range(body)
  /\ Len(changes) = Counted(body) /\ Len(changes) <= MaxChanges

LEMMA AssembledEmpty == Assembled(<<>>, <<>>)
<1>1. <<>> \in Seq(Item) /\ Len(<<>>) = 0
  OBVIOUS
<1> QED BY <1>1, CountedEmpty, RangeEmpty, GroupedEmpty, OnlyEmpty, LimitsAssumption DEF Assembled

\* A row is pushed.
LEMMA AssembledRow ==
  ASSUME NEW ch \in Seq(Item), NEW b \in Seq(Change), Assembled(ch, b), Len(ch) < MaxChanges,
         NEW c \in Row, ~Unsupported(c), NEW g \in Nat
  PROVE  Assembled(Append(ch, [kind |-> "row", row |-> c, generation |-> g]), Append(b, c))
<1> DEFINE d == [kind |-> "row", row |-> c, generation |-> g]
<1>1. d \in DecodedRow /\ d.row = c
  BY DEF DecodedRow
<1> HIDE DEF d
<1>2. d \in Item /\ IsRow(d) /\ IsRow(c) /\ c \in Change /\ c.kind # "ddl"
  BY <1>1, Kinds DEF Item, Row
<1>3. Range(Append(ch, d)) = Range(ch) \cup {d} /\ Range(Append(b, c)) = Range(b) \cup {c}
  BY RangeAppend
<1>4. ASSUME NEW r \in Rel PROVE Grouped(Append(ch, d), r) = Only(Append(b, c), RowsOf(r))
  <2>1. Grouped(Append(ch, d), r) =
           IF d \in RowItems(r) THEN Append(Grouped(ch, r), d.row) ELSE Grouped(ch, r)
    BY <1>2, GroupedAppend
  <2>2. Only(Append(b, c), RowsOf(r)) =
           IF c \in RowsOf(r) THEN Append(Only(b, RowsOf(r)), c) ELSE Only(b, RowsOf(r))
    BY <1>2, OnlyAppend
  <2>3. d \in RowItems(r) <=> c \in RowsOf(r)
    BY <1>1 DEF RowItems, RowsOf
  <2>4. Grouped(ch, r) = Only(b, RowsOf(r))
    BY DEF Assembled
  <2> QED BY <1>1, <2>1, <2>2, <2>3, <2>4
<1>5. Counted(Append(b, c)) = Counted(b) + 1
  BY <1>2, CountedAppend
<1>6. Append(ch, d) \in Seq(Item) /\ Len(Append(ch, d)) = Len(ch) + 1 /\ Len(ch) \in Nat
  BY <1>2
<1> QED BY <1>2, <1>3, <1>4, <1>5, <1>6, LimitsAssumption DEF Assembled, d

\* A TRUNCATE or a DDL message is pushed.
LEMMA AssembledOther ==
  ASSUME NEW ch \in Seq(Item), NEW b \in Seq(Change), Assembled(ch, b), Len(ch) < MaxChanges,
         NEW c \in Special, ~Unsupported(c), ~ (c.kind = "ddl" /\ c \in Range(ch))
  PROVE  Assembled(Append(ch, c), Append(b, c))
<1>2. c \in Item /\ ~IsRow(c) /\ c \in Change /\ c \notin Row /\ c \notin DecodedRow
  <2>1. c \in Item /\ c \in Change
    BY DEF Item, Change, Special
  <2> QED BY <2>1, Kinds DEF Special
<1>3. Range(Append(ch, c)) = Range(ch) \cup {c} /\ Range(Append(b, c)) = Range(b) \cup {c}
  BY RangeAppend
<1>4. ASSUME NEW r \in Rel PROVE Grouped(Append(ch, c), r) = Only(Append(b, c), RowsOf(r))
  <2>1. Grouped(Append(ch, c), r) =
           IF c \in RowItems(r) THEN Append(Grouped(ch, r), c.row) ELSE Grouped(ch, r)
    BY <1>2, GroupedAppend
  <2>2. Only(Append(b, c), RowsOf(r)) =
           IF c \in RowsOf(r) THEN Append(Only(b, RowsOf(r)), c) ELSE Only(b, RowsOf(r))
    BY <1>2, OnlyAppend
  <2>3. c \notin RowItems(r) /\ c \notin RowsOf(r)
    BY <1>2 DEF RowItems, RowsOf
  <2>4. Grouped(ch, r) = Only(b, RowsOf(r))
    BY DEF Assembled
  <2> QED BY <2>1, <2>2, <2>3, <2>4
<1>5. Counted(Append(b, c)) = Counted(b) + 1
  <2>1. c \in Range(b) => c \in Range(ch)
    BY <1>2 DEF Assembled
  <2> QED BY <1>2, <2>1, CountedAppend
<1>6. Append(ch, c) \in Seq(Item) /\ Len(Append(ch, c)) = Len(ch) + 1 /\ Len(ch) \in Nat
  BY <1>2
<1> QED BY <1>2, <1>3, <1>4, <1>5, <1>6, LimitsAssumption DEF Assembled

\* A DDL message that the transaction already has is left out.
LEMMA AssembledRepeat ==
  ASSUME NEW ch \in Seq(Item), NEW b \in Seq(Change), Assembled(ch, b),
         NEW c \in Special, ~Unsupported(c), c.kind = "ddl", c \in Range(ch)
  PROVE  Assembled(ch, Append(b, c))
<1>2. c \in Item /\ ~IsRow(c) /\ c \in Change /\ c \notin Row /\ c \notin DecodedRow
  <2>1. c \in Item /\ c \in Change
    BY DEF Item, Change, Special
  <2> QED BY <2>1, Kinds DEF Special
<1>3. Range(Append(b, c)) = Range(b) \cup {c}
  BY RangeAppend
<1>4. ASSUME NEW r \in Rel PROVE Grouped(ch, r) = Only(Append(b, c), RowsOf(r))
  <2>2. Only(Append(b, c), RowsOf(r)) =
           IF c \in RowsOf(r) THEN Append(Only(b, RowsOf(r)), c) ELSE Only(b, RowsOf(r))
    BY <1>2, OnlyAppend
  <2>3. c \notin RowsOf(r)
    BY <1>2 DEF RowsOf
  <2>4. Grouped(ch, r) = Only(b, RowsOf(r))
    BY DEF Assembled
  <2> QED BY <2>2, <2>3, <2>4
<1>5. Counted(Append(b, c)) = Counted(b)
  <2>1. c \in Range(b)
    BY <1>2 DEF Assembled
  <2> QED BY <1>2, <2>1, CountedAppend
<1> QED BY <1>2, <1>3, <1>4, <1>5 DEF Assembled

-----------------------------------------------------------------------------
(* Batches. *)

\* The changes of each transaction of a batch.
Bodies(txs) == [i \in DOMAIN txs |-> txs[i].changes]

LEMMA BodiesType ==
  ASSUME NEW q \in Seq(Tx)
  PROVE  Bodies(q) \in Seq(Seq(Item)) /\ Len(Bodies(q)) = Len(q)
<1>1. ASSUME NEW i \in 1 .. Len(q) PROVE q[i].changes \in Seq(Item)
  <2>1. q[i] \in Tx
    OBVIOUS
  <2> QED BY <2>1 DEF Tx
<1> QED BY <1>1 DEF Bodies

LEMMA BodiesAppend ==
  ASSUME NEW q \in Seq(Tx), NEW t \in Tx
  PROVE  Bodies(Append(q, t)) = Append(Bodies(q), t.changes)
<1> DEFINE a == Append(q, t)
<1>1. a \in Seq(Tx) /\ DOMAIN a = 1 .. Len(q) + 1 /\ Len(q) \in Nat
      /\ a[Len(q) + 1] = t /\ \A i \in 1 .. Len(q) : a[i] = q[i]
  OBVIOUS
<1> DEFINE m == Bodies(q)
<1>2. m = [i \in 1 .. Len(q) |-> q[i].changes]
  BY DEF Bodies
<1>3. m \in Seq(Seq(Item)) /\ Len(m) = Len(q)
  BY BodiesType
<1>4. Bodies(a) = [i \in 1 .. Len(q) + 1 |-> a[i].changes]
  BY <1>1 DEF Bodies
<1>5. Append(m, t.changes) = [i \in 1 .. Len(q) + 1 |-> IF i = Len(q) + 1 THEN t.changes ELSE m[i]]
  BY <1>3
<1> HIDE DEF a, m
<1> QED BY <1>1, <1>2, <1>4, <1>5 DEF a, m

LEMMA ChangesType ==
  ASSUME NEW q \in Seq(Tx)
  PROVE  Changes(q) \in Seq(Item)
<1>1. Changes(q) = FlattenSeq(Bodies(q))
  BY DEF Changes, Bodies
<1> QED BY <1>1, BodiesType, FlattenType

LEMMA ChangesEmpty == Changes(<<>>) = <<>>
<1>1. Bodies(<<>>) = <<>> /\ Changes(<<>>) = FlattenSeq(Bodies(<<>>))
  BY DEF Changes, Bodies
<1> QED BY <1>1, FlattenEmpty

LEMMA ChangesAppend ==
  ASSUME NEW q \in Seq(Tx), NEW t \in Tx
  PROVE  Changes(Append(q, t)) = Changes(q) \o t.changes
<1>1. Changes(q) = FlattenSeq(Bodies(q)) /\ Changes(Append(q, t)) = FlattenSeq(Bodies(Append(q, t)))
  BY DEF Changes, Bodies
<1>2. Bodies(q) \in Seq(Seq(Item)) /\ t.changes \in Seq(Item)
  BY BodiesType DEF Tx
<1> DEFINE m == Bodies(q)
           c == t.changes
<1> HIDE DEF m, c
<1>3. FlattenSeq(Append(m, c)) = FlattenSeq(m) \o c
  BY <1>2, FlattenAppend DEF m, c
<1> QED BY <1>1, <1>3, BodiesAppend DEF m, c

LEMMA RowCountType ==
  ASSUME NEW q \in Seq(Tx)
  PROVE  RowCount(q) \in Nat
<1>1. Only(Changes(q), DecodedRow) \in Seq(Item \cap DecodedRow)
  BY ChangesType, OnlyType
<1> QED BY <1>1 DEF RowCount

LEMMA RowCountEmpty == RowCount(<<>>) = 0
BY ChangesEmpty, OnlyEmpty DEF RowCount

LEMMA RowCountAppend ==
  ASSUME NEW q \in Seq(Tx), NEW t \in Tx
  PROVE  RowCount(Append(q, t)) = RowCount(q) + Len(Rows(t)) /\ Len(Rows(t)) \in Nat
<1> DEFINE m == Changes(q)
           c == t.changes
<1>1. m \in Seq(Item) /\ c \in Seq(Item)
  BY ChangesType DEF Tx
<1>2. Changes(Append(q, t)) = m \o c
  BY ChangesAppend
<1> HIDE DEF m, c
<1>3. Only(m \o c, DecodedRow) = Only(m, DecodedRow) \o Only(c, DecodedRow)
  BY <1>1, OnlyConcat
<1>4. Only(m, DecodedRow) \in Seq(Item \cap DecodedRow) /\ Only(c, DecodedRow) \in Seq(Item \cap DecodedRow)
  BY <1>1, OnlyType
<1>5. Len(Only(m, DecodedRow) \o Only(c, DecodedRow))
        = Len(Only(m, DecodedRow)) + Len(Only(c, DecodedRow)) /\ Len(Only(c, DecodedRow)) \in Nat
  BY <1>4
<1> QED BY <1>2, <1>3, <1>5 DEF RowCount, Rows, m, c

\* The part of the log a batch stands for, one transaction longer.
LEMMA PartNext ==
  ASSUME NEW X, NEW log \in Seq(X), NEW a \in Nat, NEW b \in Nat, a <= b, b + 1 <= Len(log)
  PROVE  /\ SubSeq(log, a + 1, b + 1) = Append(SubSeq(log, a + 1, b), log[b + 1])
         /\ SubSeq(log, a + 1, b) \in Seq(X) /\ log[b + 1] \in X
<1>1. SubSeq(log, a + 1, b) \in Seq(X) /\ log[b + 1] \in X /\ Len(SubSeq(log, a + 1, b)) = b - a
  OBVIOUS
<1> QED BY <1>1

\* The transactions of a batch hold, for each table, the rows of their part of the
\* log.
LEMMA BatchRows ==
  ASSUME NEW log \in Seq(Seq(Change)), NEW d \in Nat, NEW r
  PROVE  \A q \in Seq(Tx) :
           /\ d + Len(q) <= Len(log)
           /\ \A i \in 1 .. Len(q) : Grouped(q[i].changes, r) = Only(log[d + i], RowsOf(r))
           => Grouped(Changes(q), r) = Only(FlattenSeq(SubSeq(log, d + 1, d + Len(q))), RowsOf(r))
<1> DEFINE Fits(q) == /\ d + Len(q) <= Len(log)
                      /\ \A i \in 1 .. Len(q) : Grouped(q[i].changes, r) = Only(log[d + i], RowsOf(r))
           Part(q) == SubSeq(log, d + 1, d + Len(q))
           P == {q \in Seq(Tx) : Fits(q) => Grouped(Changes(q), r) = Only(FlattenSeq(Part(q)), RowsOf(r))}
<1>1. <<>> \in P
  <2>1. Part(<<>>) = <<>> /\ <<>> \in Seq(Tx)
    OBVIOUS
  <2> HIDE DEF Part, Fits
  <2> QED BY <2>1, ChangesEmpty, GroupedEmpty, OnlyEmpty, FlattenEmpty
<1>2. ASSUME NEW q \in Seq(Tx), NEW t \in Tx, q \in P PROVE Append(q, t) \in P
  <2> DEFINE a == Append(q, t)
             n == Len(q)
  <2>1. a \in Seq(Tx) /\ Len(a) = n + 1 /\ a[n + 1] = t /\ n \in Nat /\ Len(log) \in Nat
        /\ \A i \in 1 .. n : a[i] = q[i]
    OBVIOUS
  <2> SUFFICES ASSUME Fits(a)
               PROVE  Grouped(Changes(a), r) = Only(FlattenSeq(Part(a)), RowsOf(r))
    BY <2>1
  <2> HIDE DEF a
  <2>2. Fits(q) /\ d + n + 1 <= Len(log) /\ Grouped(t.changes, r) = Only(log[d + n + 1], RowsOf(r))
    <3>1. d + n + 1 <= Len(log)
      BY <2>1
    <3>2. ASSUME NEW i \in 1 .. n PROVE Grouped(q[i].changes, r) = Only(log[d + i], RowsOf(r))
      <4>1. i \in 1 .. Len(a) /\ a[i] = q[i]
        BY <2>1
      <4> QED BY <4>1
    <3>3. Grouped(t.changes, r) = Only(log[d + n + 1], RowsOf(r))
      <4>1. n + 1 \in 1 .. Len(a) /\ a[n + 1] = t /\ d + (n + 1) = d + n + 1
        BY <2>1
      <4>2. Grouped(a[n + 1].changes, r) = Only(log[d + (n + 1)], RowsOf(r))
        BY <4>1
      <4> QED BY <4>1, <4>2
    <3>4. d + Len(q) <= Len(log)
      BY <2>1, <3>1
    <3>5. Fits(q)
      BY <3>2, <3>4
    <3> QED BY <3>1, <3>3, <3>5
  <2>3. Part(a) = Append(Part(q), log[d + n + 1]) /\ Part(q) \in Seq(Seq(Change))
        /\ log[d + n + 1] \in Seq(Change)
    <3> DEFINE e == d + n
    <3>1. e \in Nat /\ d <= e /\ e + 1 <= Len(log) /\ d + Len(a) = e + 1 /\ d + n + 1 = e + 1
      BY <2>1, <2>2
    <3> HIDE DEF e
    <3>2. /\ SubSeq(log, d + 1, e + 1) = Append(SubSeq(log, d + 1, e), log[e + 1])
          /\ SubSeq(log, d + 1, e) \in Seq(Seq(Change)) /\ log[e + 1] \in Seq(Change)
      BY <3>1, PartNext
    <3>3. Part(a) = SubSeq(log, d + 1, e + 1) /\ Part(q) = SubSeq(log, d + 1, e)
      BY <3>1 DEF e
    <3> HIDE DEF Part
    <3> QED BY <3>1, <3>2, <3>3
  <2>4. Grouped(Changes(q), r) = Only(FlattenSeq(Part(q)), RowsOf(r))
    BY <2>2, <1>2
  <2> HIDE DEF Part, Fits, n
  <2> DEFINE m == Changes(q)
             c == t.changes
             f == FlattenSeq(Part(q))
             b == log[d + n + 1]
  <2>5. m \in Seq(Item) /\ c \in Seq(Item) /\ Changes(a) = m \o c
    BY ChangesType, ChangesAppend DEF Tx, a
  <2>6. f \in Seq(Change) /\ b \in Seq(Change) /\ FlattenSeq(Part(a)) = f \o b
    <3> DEFINE p == Part(q)
    <3>1. p \in Seq(Seq(Change)) /\ b \in Seq(Change) /\ Part(a) = Append(p, b)
      BY <2>3
    <3> HIDE DEF p, b
    <3>2. FlattenSeq(Append(p, b)) = FlattenSeq(p) \o b
      BY <3>1, FlattenAppend
    <3>3. FlattenSeq(p) \in Seq(Change)
      BY <3>1, FlattenType
    <3> QED BY <3>1, <3>2, <3>3 DEF p
  <2>7. Grouped(m, r) = Only(f, RowsOf(r)) /\ Grouped(c, r) = Only(b, RowsOf(r))
    BY <2>2, <2>4
  <2> HIDE DEF m, c, f, b
  <2>8. Grouped(m \o c, r) = Grouped(m, r) \o Grouped(c, r)
    BY <2>5, GroupedConcat
  <2>9. Only(f \o b, RowsOf(r)) = Only(f, RowsOf(r)) \o Only(b, RowsOf(r))
    BY <2>6, OnlyConcat
  <2> QED BY <2>5, <2>6, <2>7, <2>8, <2>9
<1> HIDE DEF P
<1>3. Seq(Tx) \subseteq P
  BY <1>1, <1>2, SeqSetInduction
<1> QED BY <1>3 DEF P

-----------------------------------------------------------------------------
(* The log. *)

\* No transaction of the log after lo and up to hi has a barrier, and no change of
\* a transaction before the k-th is one.
Clear(log, lo, hi) == \A i \in lo + 1 .. hi : \A c \in Range(log[i]) : ~RequiresBarrier(c)

ClearTo(body, k) == \A j \in 1 .. k - 1 : ~RequiresBarrier(body[j])

LEMMA ClearJoin ==
  ASSUME NEW log, NEW a \in Nat, NEW b \in Nat, NEW c \in Nat, a <= b, b <= c
  PROVE  Clear(log, a, c) <=> Clear(log, a, b) /\ Clear(log, b, c)
<1>1. a + 1 .. c = (a + 1 .. b) \cup (b + 1 .. c)
  OBVIOUS
<1> QED BY <1>1 DEF Clear

LEMMA ClearSame ==
  ASSUME NEW log \in Seq(Seq(Change)), NEW body, NEW a \in Nat, NEW b \in Nat, b <= Len(log)
  PROVE  Clear(Append(log, body), a, b) <=> Clear(log, a, b)
<1>1. \A i \in a + 1 .. b : Append(log, body)[i] = log[i]
  OBVIOUS
<1> QED BY <1>1 DEF Clear

LEMMA PartSame ==
  ASSUME NEW log \in Seq(Seq(Change)), NEW body \in Seq(Change),
         NEW a \in Nat, NEW b \in Nat, b <= Len(log)
  PROVE  SubSeq(Append(log, body), a + 1, b) = SubSeq(log, a + 1, b)
OBVIOUS

LEMMA PartJoin ==
  ASSUME NEW log \in Seq(Seq(Change)), NEW a \in Nat, NEW b \in Nat, NEW c \in Nat,
         a <= b, b <= c, c <= Len(log)
  PROVE  SubSeq(log, a + 1, c) = SubSeq(log, a + 1, b) \o SubSeq(log, b + 1, c)
OBVIOUS

\* Without a barrier no table changes its shape.
LEMMA CatalogClear ==
  ASSUME NEW cat \in [Rel -> Shape], NEW body \in Seq(Change),
         \A i \in 1 .. Len(body) : ~RequiresBarrier(body[i])
  PROVE  CatalogAfter(cat, body) = cat
<1>1. \A i \in DOMAIN body : body[i] \notin Alter
  BY Kinds
<1> QED BY <1>1 DEF CatalogAfter

LEMMA CatalogType ==
  ASSUME NEW cat \in [Rel -> Shape], NEW body \in Seq(Change)
  PROVE  CatalogAfter(cat, body) \in [Rel -> Shape]
<1> SUFFICES ASSUME NEW r \in Rel PROVE CatalogAfter(cat, body)[r] \in Shape
  BY DEF CatalogAfter
<1> DEFINE alters == {i \in DOMAIN body : body[i] \in Alter /\ body[i].rel = r}
<1>1. CatalogAfter(cat, body)[r] = IF alters = {} THEN cat[r] ELSE body[Max(alters)].shape
  BY DEF CatalogAfter
<1>2. CASE alters = {}
  BY <1>1, <1>2
<1>3. CASE alters # {}
  <2>1. alters \subseteq 1 .. Len(body) /\ Len(body) \in Nat
    OBVIOUS
  <2>2. \E m \in alters : \A k \in alters : k <= m
    <3> HIDE DEF alters
    <3> QED BY <1>3, <2>1, Greatest
  <2>3. \A m, k \in alters : k <= m => m >= k
    BY <2>1
  <2>4. Max(alters) \in alters
    <3> HIDE DEF alters
    <3>1. \E m \in alters : \A k \in alters : m >= k
      BY <2>2, <2>3
    <3> QED BY <3>1 DEF Max
  <2>5. body[Max(alters)] \in Alter
    BY <2>4
  <2> QED BY <1>1, <1>3, <2>5 DEF Alter
<1> QED BY <1>2, <1>3

-----------------------------------------------------------------------------
(* The invariant. *)

\* Types, and the fields of the two records.
Types ==
  /\ TypeOK
  /\ decoder = [inTx |-> decoder.inTx, relations |-> decoder.relations]
  /\ assembler = [open |-> assembler.open, changes |-> assembler.changes,
                  last |-> assembler.last, generations |-> assembler.generations]

\* From the snapshot to the first barrier every row has the shape the tables were
\* made for, and so has the catalog while there is no barrier.
LogInv ==
  /\ \A i \in base + 1 .. Len(wal) : \A k \in 1 .. Len(wal[i]) :
       Clear(wal, base, i - 1) /\ ClearTo(wal[i], k) /\ OfTable(wal[i][k])
         => wal[i][k].shape = bound[wal[i][k].rel]
  /\ Clear(wal, base, Len(wal)) => catalog = bound

\* The target is at a position of the log before the first barrier, and has what
\* is in the log up to there; the slot is not ahead of it.
TargetInv ==
  /\ base <= ckpt /\ confirmed <= ckpt /\ Clear(wal, base, ckpt)
  /\ \A i \in base + 1 .. ckpt :
       Counted(wal[i]) <= MaxChanges /\ \A c \in Range(wal[i]) : ~Unsupported(c)
  /\ AppliedIsLog

\* What ended the last job.
WhyInv ==
  /\ pc # "down" => why = "none"
  /\ why \notin {"protocol", "binding"}
  /\ why = "unsupported" =>
       \E i \in ckpt + 1 .. Len(wal) : \E c \in Range(wal[i]) : Unsupported(c)
  /\ why = "limit" => \E i \in ckpt + 1 .. Len(wal) : Counted(wal[i]) > MaxChanges
  /\ why = "barrier" => /\ ckpt + 1 <= Len(wal)
                        /\ \E c \in Range(wal[ckpt + 1]) : RequiresBarrier(c)

\* The transactions a job holds are the ones after its acknowledged position, in
\* order: first the batch, then the queue, then the one being received.
PositionInv ==
  /\ next = durable + Len(batch) + Len(queue) + 1
  /\ \A i \in 1 .. Len(batch) : batch[i].lsn = durable + i
  /\ \A i \in 1 .. Len(queue) : queue[i].lsn = durable + Len(batch) + i
  /\ delivered = [i \in 1 .. Len(batch) + Len(queue) |-> durable + i]
  /\ batch = <<>> <=> pc = "streaming"
  /\ pc # "applied" => ckpt = durable
  /\ pc = "applied" => ckpt = durable + Len(batch)

\* What the assembler has of the transaction being received.
SenderInv ==
  /\ at = 0 => decoder.inTx = FALSE /\ assembler.open = FALSE /\ assembler.changes = <<>>
  /\ at # 0 => /\ decoder.inTx = TRUE /\ assembler.open = TRUE
               /\ next <= Len(wal) /\ at <= Len(wal[next]) + 1
               /\ Assembled(assembler.changes, SubSeq(wal[next], 1, at - 1))
  /\ assembler.last < next

\* What the batcher holds is what the log has; only the first transaction of a
\* batch can have a barrier.
ContentInv ==
  /\ \A i \in 1 .. Len(batch) : Assembled(batch[i].changes, wal[durable + i])
  /\ \A i \in 1 .. Len(queue) : Assembled(queue[i].changes, wal[durable + Len(batch) + i])
  /\ \A i \in 2 .. Len(batch) : ~Isolated(batch[i])
  /\ \A i \in 2 .. Len(queue) : ~Isolated(queue[i])

\* A barrier was sent that the target has not come to.
Seen == ~Clear(wal, ckpt, next - 1) \/ (at # 0 /\ ~ClearTo(wal[next], at))

\* Every row is of the generation the registry has a binding for.
OneGeneration(changes) == \A c \in Range(changes) : IsRow(c) => c.generation = 1

\* Decoder and assembler agree on a table's generation; a second one, or a shape
\* that is not the table's, was announced only after a barrier.
GenerationInv ==
  \A r \in Rel :
    /\ decoder.relations[r].generation = assembler.generations[r]
    /\ announced[r] # NoShape => /\ decoder.relations[r].generation # 0
                                 /\ decoder.relations[r].shape = announced[r]
    /\ decoder.relations[r].generation > 1 => Seen
    /\ decoder.relations[r].generation # 0 /\ decoder.relations[r].shape # bound[r] => Seen

\* A row of another generation was received only after a barrier.
BoundInv ==
  /\ OneGeneration(assembler.changes) \/ Seen
  /\ pc # "applied" => \A i \in 1 .. Len(batch) :
       OneGeneration(batch[i].changes) \/ ~Clear(wal, ckpt, durable + i)
  /\ \A i \in 1 .. Len(queue) :
       OneGeneration(queue[i].changes) \/ ~Clear(wal, ckpt, durable + Len(batch) + i)

\* The limit of a batch.
SizeOK(b) == Len(b) <= MaxRows /\ (RowCount(b) > MaxRows => Len(b) = 1)

SizeInv == SizeOK(queue) /\ SizeOK(batch)

Live == /\ PositionInv /\ SenderInv /\ ContentInv /\ GenerationInv /\ BoundInv /\ SizeInv

\* The inductive invariant.
IndInv == Types /\ LogInv /\ TargetInv /\ WhyInv /\ (pc # "down" => Live)

-----------------------------------------------------------------------------
(* Steps of the source and of jobs as a whole. *)

LEMMA InitInv == Init => IndInv
<1> SUFFICES ASSUME Init PROVE IndInv
  OBVIOUS
<1> USE DEF Init
<1>1. Types
  <2>1. decoder.relations \in [Rel -> [generation : Nat, shape : Shape \cup {NoShape}]]
    OBVIOUS
  <2>2. assembler.changes \in Seq(Item) /\ assembler.last \in Nat /\ assembler.generations \in [Rel -> Nat]
    OBVIOUS
  <2>3. decoder = [inTx |-> decoder.inTx, relations |-> decoder.relations]
    OBVIOUS
  <2>4. assembler = [open |-> assembler.open, changes |-> assembler.changes,
                  last |-> assembler.last, generations |-> assembler.generations]
    OBVIOUS
  <2>5. catalog \in [Rel -> Shape]
    BY LimitsAssumption
  <2> QED BY <2>1, <2>2, <2>3, <2>4, <2>5 DEF Types, TypeOK
<1>2. LogInv
  BY DEF LogInv
<1>3. TargetInv
  <2>1. Clear(wal, base, ckpt)
    BY DEF Clear
  <2>2. AppliedIsLog
    <3>1. SubSeq(wal, base + 1, ckpt) = <<>>
      OBVIOUS
    <3> QED BY <3>1, FlattenEmpty, OnlyEmpty DEF AppliedIsLog
  <2> QED BY <2>1, <2>2 DEF TargetInv
<1> QED BY <1>1, <1>2, <1>3 DEF IndInv, WhyInv

\* Steps that leave the log and the generation alone.
LEMMA LogFrame ==
  ASSUME IndInv, UNCHANGED <<wal, catalog, bound, base>>
  PROVE  LogInv'
BY DEF IndInv, LogInv

LEMMA TargetFrame ==
  ASSUME IndInv, UNCHANGED <<wal, base, ckpt, applied>>, confirmed' <= ckpt
  PROVE  TargetInv'
BY DEF IndInv, TargetInv, AppliedIsLog

\* A job that starts or ends.
LEMMA ConnectionTypes ==
  ASSUME IndInv, UNCHANGED <<wal, catalog, bound, base, ckpt, applied>>, NEW lsn \in Nat, lsn <= Len(wal),
         confirmed' \in 0 .. Len(wal), Connection(lsn),
         pc' \in {"down", "streaming", "applying", "applied"},
         why' \in {"none", "barrier", "binding", "limit", "unsupported", "protocol"}
  PROVE  Types'
<1> USE DEF Connection
<1>1. decoder'.relations \in [Rel -> [generation : Nat, shape : Shape \cup {NoShape}]]
  OBVIOUS
<1>2. assembler'.changes \in Seq(Item) /\ assembler'.last \in Nat /\ assembler'.generations \in [Rel -> Nat]
  OBVIOUS
<1>3. decoder' = [inTx |-> decoder'.inTx, relations |-> decoder'.relations]
  OBVIOUS
<1>4. assembler' = [open |-> assembler'.open, changes |-> assembler'.changes,
                    last |-> assembler'.last, generations |-> assembler'.generations]
  OBVIOUS
<1>5. announced' \in [Rel -> Shape \cup {NoShape}] /\ delivered' \in Seq(Nat)
      /\ queue' \in Seq(Tx) /\ batch' \in Seq(Tx) /\ at' \in Nat /\ next' \in 1 .. Len(wal) + 1
      /\ durable' \in 0 .. Len(wal)
  BY DEF IndInv, Types, TypeOK
<1>6. wal \in Seq(Seq(Change)) /\ catalog \in [Rel -> Shape] /\ {ckpt, base} \subseteq 0 .. Len(wal)
      /\ bound \in [Rel -> Shape] /\ applied \in [Rel -> Seq(Row)]
  BY DEF IndInv, Types, TypeOK
<1> QED BY <1>1, <1>2, <1>3, <1>4, <1>5, <1>6 DEF Types, TypeOK

\* An error ends the job.
LEMMA FailStep ==
  ASSUME IndInv, NEW reason \in {"none", "unsupported", "limit", "barrier"}, Fail(reason),
         reason = "unsupported" =>
           \E i \in ckpt + 1 .. Len(wal) : \E c \in Range(wal[i]) : Unsupported(c),
         reason = "limit" => \E i \in ckpt + 1 .. Len(wal) : Counted(wal[i]) > MaxChanges,
         reason = "barrier" => /\ ckpt + 1 <= Len(wal)
                               /\ \E c \in Range(wal[ckpt + 1]) : RequiresBarrier(c)
  PROVE  IndInv'
<1> USE DEF Fail, source, target
<1>1. Types'
  <2>1. confirmed' \in 0 .. Len(wal) /\ 0 <= Len(wal)
    BY DEF IndInv, Types, TypeOK
  <2> QED BY <2>1, ConnectionTypes
<1>2. LogInv'
  BY LogFrame
<1>3. TargetInv'
  <2>1. confirmed <= ckpt
    BY DEF IndInv, TargetInv
  <2> QED BY <2>1, TargetFrame
<1>4. WhyInv'
  BY DEF WhyInv
<1> QED BY <1>1, <1>2, <1>3, <1>4 DEF IndInv

LEMMA ConnectStep ==
  ASSUME IndInv, Connect PROVE IndInv'
<1> USE DEF Connect, source, target
<1>0. ckpt \in Nat /\ ckpt <= Len(wal) /\ confirmed \in 0 .. Len(wal) /\ confirmed <= ckpt
  BY DEF IndInv, Types, TypeOK, TargetInv
<1>1. Types'
  BY <1>0, ConnectionTypes
<1>2. LogInv' /\ TargetInv'
  BY <1>0, LogFrame, TargetFrame
<1>3. WhyInv'
  BY DEF WhyInv
<1>4. PositionInv'
  BY <1>0 DEF PositionInv, Connection
<1>5. SenderInv' /\ ContentInv'
  BY <1>0 DEF SenderInv, ContentInv, Connection
<1>6. GenerationInv'
  BY DEF GenerationInv, Connection
<1>7. BoundInv'
  <2>1. assembler'.changes = <<>> /\ queue' = <<>> /\ batch' = <<>>
    BY DEF Connection
  <2> QED BY <2>1, RangeEmpty DEF BoundInv, OneGeneration
<1>8. SizeInv'
  <2>1. queue' = <<>> /\ batch' = <<>>
    BY DEF Connection
  <2> QED BY <2>1, RowCountEmpty, LimitsAssumption DEF SizeInv, SizeOK
<1> QED BY <1>1, <1>2, <1>3, <1>4, <1>5, <1>6, <1>7, <1>8 DEF IndInv, Live

LEMMA RebuildStep ==
  ASSUME IndInv, Rebuild PROVE IndInv'
<1> USE DEF Rebuild, source, sender, adapter, batches
<1>0. Types
  BY DEF IndInv
<1>1. Types'
  BY <1>0 DEF Types, TypeOK
<1>2. LogInv'
  BY <1>0 DEF LogInv, Types, TypeOK
<1>3. TargetInv'
  <2>0. Len(wal) \in Nat
    BY <1>0 DEF Types, TypeOK
  <2>1. SubSeq(wal, Len(wal) + 1, Len(wal)) = <<>>
    BY <1>0 DEF Types, TypeOK
  <2>2. AppliedIsLog'
    BY <2>1, FlattenEmpty, OnlyEmpty DEF AppliedIsLog
  <2>3. Clear(wal', base', ckpt')
    BY <2>0 DEF Clear
  <2> QED BY <2>0, <2>2, <2>3 DEF TargetInv
<1> QED BY <1>1, <1>2, <1>3 DEF IndInv, WhyInv

LEMMA SourceCommitStep ==
  ASSUME IndInv, SourceCommit PROVE IndInv'
<1>0. Types /\ LogInv /\ TargetInv /\ WhyInv
  BY DEF IndInv
<1>1. PICK body \in Seq(Change) :
        /\ \A i \in DOMAIN body : OfTable(body[i]) =>
             body[i].shape = CatalogAfter(catalog, SubSeq(body, 1, i - 1))[body[i].rel]
        /\ wal' = Append(wal, body) /\ catalog' = CatalogAfter(catalog, body)
  <2>1. \A n \in 0 .. MaxLen : [1 .. n -> Change] \subseteq Seq(Change)
    BY LimitsAssumption
  <2> QED BY <2>1 DEF SourceCommit, Legal
<1>2. UNCHANGED <<confirmed, next, at, announced, decoder, assembler, delivered, durable,
                  queue, batch, pc, why, bound, base, ckpt, applied>>
  BY DEF SourceCommit, sender, adapter, batches, target
<1> DEFINE n == Len(wal)
<1>3. /\ wal \in Seq(Seq(Change)) /\ n \in Nat /\ Len(wal') = n + 1 /\ wal'[n + 1] = body
      /\ wal' \in Seq(Seq(Change)) /\ \A i \in 1 .. n : wal'[i] = wal[i]
  BY <1>0, <1>1 DEF Types, TypeOK
<1>4. {confirmed, durable, ckpt, base} \subseteq 0 .. n /\ next \in 1 .. n + 1 /\ catalog \in [Rel -> Shape]
      /\ at \in Nat
  BY <1>0 DEF Types, TypeOK
<1>5. ASSUME NEW a \in Nat, NEW b \in Nat, b <= n PROVE Clear(wal', a, b) <=> Clear(wal, a, b)
  BY <1>1, <1>3, <1>5, ClearSame
<1> HIDE DEF n
<1>6. Types'
  <2>1. catalog' \in [Rel -> Shape]
    BY <1>1, <1>4, CatalogType
  <2>2. {confirmed, durable, ckpt, base} \subseteq 0 .. n + 1 /\ next \in 1 .. (n + 1) + 1
    BY <1>3, <1>4
  <2>3. TypeOK
    BY <1>0 DEF Types
  <2>4. TypeOK'
    BY <1>2, <1>3, <2>1, <2>2, <2>3 DEF TypeOK
  <2> QED BY <1>0, <1>2, <2>4 DEF Types
<1>7. Clear(wal', base, n) => catalog = bound
  <2>1. base \in Nat /\ n \in Nat /\ n <= n
    BY <1>3, <1>4
  <2>2. Clear(wal', base, n) <=> Clear(wal, base, n)
    BY <1>5, <2>1
  <2>3. Clear(wal, base, n) => catalog = bound
    BY <1>0 DEF LogInv, n
  <2> QED BY <2>2, <2>3
<1>8. LogInv'
  <2>1. ASSUME NEW i \in base + 1 .. n + 1, NEW k \in 1 .. Len(wal'[i]),
               Clear(wal', base, i - 1), ClearTo(wal'[i], k), OfTable(wal'[i][k])
        PROVE  wal'[i][k].shape = bound[wal'[i][k].rel]
    <3>1. CASE i <= n
      <4>1. i \in base + 1 .. n /\ wal'[i] = wal[i] /\ i - 1 \in Nat /\ i - 1 <= n /\ base \in Nat
        BY <1>3, <1>4, <3>1
      <4>2. Clear(wal, base, i - 1)
        BY <1>5, <2>1, <4>1
      <4> QED BY <1>0, <2>1, <4>1, <4>2 DEF LogInv, n
    <3>2. CASE i = n + 1
      <4>1. wal'[i] = body /\ i - 1 = n
        BY <1>3, <3>2
      <4>2. catalog = bound
        BY <1>7, <2>1, <4>1
      <4> DEFINE p == SubSeq(body, 1, k - 1)
      <4>3. k \in 1 .. Len(body) /\ p \in Seq(Change) /\ Len(p) = k - 1 /\ \A j \in 1 .. k - 1 : p[j] = body[j]
        BY <2>1, <4>1
      <4>4. \A j \in 1 .. k - 1 : ~RequiresBarrier(body[j])
        BY <2>1, <4>1 DEF ClearTo
      <4> HIDE DEF p
      <4>5. \A j \in 1 .. Len(p) : ~RequiresBarrier(p[j])
        BY <4>3, <4>4
      <4>6. CatalogAfter(catalog, p) = catalog
        BY <1>4, <4>3, <4>5, CatalogClear
      <4> QED BY <1>1, <2>1, <4>1, <4>2, <4>3, <4>6 DEF p
    <3> QED BY <1>3, <1>4, <3>1, <3>2
  <2>2. ASSUME Clear(wal', base, n + 1) PROVE catalog' = bound
    <3>1. Clear(wal', base, n) /\ Clear(wal', n, n + 1)
      <4>1. base \in Nat /\ n \in Nat /\ n + 1 \in Nat /\ base <= n /\ n <= n + 1
        BY <1>3, <1>4
      <4> QED BY <4>1, <2>2, ClearJoin
    <3>2. \A i \in 1 .. Len(body) : ~RequiresBarrier(body[i])
      BY <1>3, <3>1 DEF Clear, Range
    <3>3. CatalogAfter(catalog, body) = catalog
      BY <1>4, <3>2, CatalogClear
    <3> QED BY <1>1, <1>7, <3>1, <3>3
  <2> QED BY <1>2, <1>3, <2>1, <2>2 DEF LogInv
<1>9. TargetInv'
  <2>1. Clear(wal', base, ckpt)
    BY <1>0, <1>4, <1>5 DEF TargetInv
  <2>2. \A i \in base + 1 .. ckpt : wal'[i] = wal[i]
    BY <1>3, <1>4
  <2>3. SubSeq(wal', base + 1, ckpt) = SubSeq(wal, base + 1, ckpt)
    <3>1. base \in Nat /\ ckpt \in Nat /\ ckpt <= Len(wal)
      BY <1>3, <1>4 DEF n
    <3> QED BY <1>1, <1>3, <3>1, PartSame
  <2> QED BY <1>0, <1>2, <2>1, <2>2, <2>3 DEF TargetInv, AppliedIsLog
<1>10. WhyInv'
  <2>1. \A i \in ckpt + 1 .. n : wal'[i] = wal[i] /\ i \in ckpt + 1 .. n + 1
    BY <1>3, <1>4
  <2>2. ckpt + 1 <= n => wal'[ckpt + 1] = wal[ckpt + 1] /\ ckpt + 1 <= n + 1
    BY <1>3, <1>4
  <2> QED BY <1>0, <1>2, <1>3, <2>1, <2>2 DEF WhyInv, n
<1>11. ASSUME pc # "down" PROVE Live'
  <2>0. PositionInv /\ SenderInv /\ ContentInv /\ GenerationInv /\ BoundInv /\ SizeInv
    BY <1>11 DEF IndInv, Live
  <2>1. PositionInv' /\ SizeInv'
    BY <1>2, <2>0 DEF PositionInv, SizeInv
  <2>2. next - 1 \in Nat /\ next - 1 <= n /\ ckpt \in Nat
    BY <1>4, <1>3
  <2>3. at # 0 => next \in 1 .. n
    BY <1>4, <1>3, <2>0 DEF SenderInv, n
  <2>4. SenderInv'
    BY <1>2, <1>3, <2>0, <2>3 DEF SenderInv, n
  <2>5. Seen => Seen'
    <3>1. Clear(wal', ckpt, next - 1) <=> Clear(wal, ckpt, next - 1)
      BY <1>5, <2>2
    <3>2. at # 0 => wal'[next] = wal[next]
      BY <1>3, <2>3
    <3> QED BY <1>2, <3>1, <3>2 DEF Seen
  <2>6. GenerationInv'
    BY <1>2, <2>0, <2>5 DEF GenerationInv
  <2>60. /\ Len(batch) \in Nat /\ Len(queue) \in Nat /\ durable \in Nat
         /\ durable + Len(batch) + Len(queue) <= n
    <3>1. batch \in Seq(Tx) /\ queue \in Seq(Tx)
      BY <1>0 DEF Types, TypeOK
    <3>2. next = durable + Len(batch) + Len(queue) + 1
      BY <2>0 DEF PositionInv
    <3> QED BY <1>3, <1>4, <3>1, <3>2
  <2>7. \A i \in 1 .. Len(batch) : durable + i \in 1 .. n
    BY <1>3, <2>60
  <2>8. \A i \in 1 .. Len(queue) : durable + Len(batch) + i \in 1 .. n
    BY <1>3, <2>60
  <2>9. ContentInv'
    BY <1>2, <1>3, <2>0, <2>7, <2>8 DEF ContentInv, Isolated
  <2>10. \A j \in 1 .. n : Clear(wal', ckpt, j) <=> Clear(wal, ckpt, j)
    BY <1>3, <1>5, <2>2
  <2>11. BoundInv'
    BY <1>2, <2>0, <2>5, <2>7, <2>8, <2>10 DEF BoundInv
  <2> QED BY <2>1, <2>4, <2>6, <2>9, <2>11 DEF Live
<1> QED BY <1>2, <1>6, <1>8, <1>9, <1>10, <1>11 DEF IndInv

LEMMA StopStep ==
  ASSUME IndInv, Stop PROVE IndInv'
BY FailStep DEF Stop

-----------------------------------------------------------------------------
(* Steps of the stream. *)

\* The records after an update of a field.
LEMMA DecoderInTx ==
  ASSUME NEW d, d = [inTx |-> d.inTx, relations |-> d.relations], NEW v
  PROVE  [d EXCEPT !.inTx = v] = [inTx |-> v, relations |-> d.relations]
<1> DEFINE x == d.inTx
           y == d.relations
<1>1. d = [inTx |-> x, relations |-> y]
  OBVIOUS
<1> HIDE DEF x, y
<1>2. [d EXCEPT !.inTx = v] = [inTx |-> v, relations |-> y]
  BY <1>1
<1> QED BY <1>2 DEF y

LEMMA AssemblerOpen ==
  ASSUME NEW a, a = [open |-> a.open, changes |-> a.changes, last |-> a.last,
                     generations |-> a.generations],
         NEW v, NEW w
  PROVE  [a EXCEPT !.open = v, !.changes = w]
           = [open |-> v, changes |-> w, last |-> a.last, generations |-> a.generations]
<1> DEFINE o == a.open
           c == a.changes
           l == a.last
           g == a.generations
<1>1. a = [open |-> o, changes |-> c, last |-> l, generations |-> g]
  OBVIOUS
<1> HIDE DEF o, c, l, g
<1> DEFINE b == [open |-> v, changes |-> c, last |-> l, generations |-> g]
<1>2. [a EXCEPT !.open = v] = b
  BY <1>1
<1>3. [b EXCEPT !.changes = w] = [open |-> v, changes |-> w, last |-> l, generations |-> g]
  OBVIOUS
<1> HIDE DEF b
<1>4. [a EXCEPT !.open = v, !.changes = w]
        = [open |-> v, changes |-> w, last |-> l, generations |-> g]
  BY <1>2, <1>3
<1> QED BY <1>4 DEF l, g

LEMMA DecoderRelations ==
  ASSUME NEW d, d = [inTx |-> d.inTx, relations |-> d.relations], NEW r, NEW v
  PROVE  [d EXCEPT !.relations[r] = v] = [inTx |-> d.inTx, relations |-> [d.relations EXCEPT ![r] = v]]
<1> DEFINE x == d.inTx
           y == d.relations
<1>1. d = [inTx |-> x, relations |-> y]
  OBVIOUS
<1> HIDE DEF x, y
<1>2. [d EXCEPT !.relations[r] = v] = [inTx |-> x, relations |-> [y EXCEPT ![r] = v]]
  BY <1>1
<1> QED BY <1>2 DEF x, y

LEMMA AssemblerGenerations ==
  ASSUME NEW a, a = [open |-> a.open, changes |-> a.changes, last |-> a.last,
                     generations |-> a.generations],
         NEW r, NEW v
  PROVE  [a EXCEPT !.generations[r] = v]
           = [open |-> a.open, changes |-> a.changes, last |-> a.last,
              generations |-> [a.generations EXCEPT ![r] = v]]
<1> DEFINE o == a.open
           c == a.changes
           l == a.last
           g == a.generations
<1>1. a = [open |-> o, changes |-> c, last |-> l, generations |-> g]
  OBVIOUS
<1> HIDE DEF o, c, l, g
<1>2. [a EXCEPT !.generations[r] = v]
        = [open |-> o, changes |-> c, last |-> l, generations |-> [g EXCEPT ![r] = v]]
  BY <1>1
<1> QED BY <1>2 DEF o, c, l, g

LEMMA AssemblerAppend ==
  ASSUME NEW a, a = [open |-> a.open, changes |-> a.changes, last |-> a.last,
                     generations |-> a.generations],
         NEW v
  PROVE  [a EXCEPT !.changes = Append(@, v)]
           = [open |-> a.open, changes |-> Append(a.changes, v), last |-> a.last,
              generations |-> a.generations]
<1> DEFINE o == a.open
           c == a.changes
           l == a.last
           g == a.generations
<1>1. a = [open |-> o, changes |-> c, last |-> l, generations |-> g]
  OBVIOUS
<1> HIDE DEF o, c, l, g
<1>2. [a EXCEPT !.changes = Append(@, v)]
        = [open |-> o, changes |-> Append(c, v), last |-> l, generations |-> g]
  BY <1>1
<1> QED BY <1>2 DEF o, c, l, g

LEMMA BeginStep ==
  ASSUME IndInv, ReceiveBegin PROVE IndInv'
<1>0. Types /\ LogInv /\ TargetInv /\ WhyInv /\ Live /\ pc = "streaming" /\ at = 0 /\ next <= Len(wal)
  BY DEF IndInv, ReceiveBegin, Receiving
<1>1. decoder.inTx = FALSE /\ assembler.open = FALSE /\ assembler.last < next /\ assembler.changes = <<>>
  BY <1>0 DEF Live, SenderInv
<1>2. BeginAccepted
  BY <1>0, <1>1 DEF BeginAccepted, Types, TypeOK
<1>3. /\ at' = 1
      /\ decoder' = [inTx |-> TRUE, relations |-> decoder.relations]
      /\ assembler' = [open |-> TRUE, changes |-> <<>>, last |-> assembler.last,
                       generations |-> assembler.generations]
      /\ UNCHANGED <<wal, catalog, confirmed, next, announced, delivered, durable,
                     queue, batch, pc, why, bound, base, ckpt, applied>>
  <2>1. /\ at' = 1
        /\ decoder' = [decoder EXCEPT !.inTx = TRUE]
        /\ assembler' = [assembler EXCEPT !.open = TRUE, !.changes = <<>>]
        /\ UNCHANGED <<wal, catalog, confirmed, next, announced, delivered, durable,
                       queue, batch, pc, why, bound, base, ckpt, applied>>
    BY <1>2 DEF ReceiveBegin, source, batches, target
  <2>2. [decoder EXCEPT !.inTx = TRUE] = [inTx |-> TRUE, relations |-> decoder.relations]
    BY <1>0, DecoderInTx DEF Types
  <2>3. [assembler EXCEPT !.open = TRUE, !.changes = <<>>]
          = [open |-> TRUE, changes |-> <<>>, last |-> assembler.last,
             generations |-> assembler.generations]
    <3>1. assembler = [open |-> assembler.open, changes |-> assembler.changes,
                       last |-> assembler.last, generations |-> assembler.generations]
      BY <1>0 DEF Types
    <3> QED BY <3>1, AssemblerOpen
  <2> QED BY <2>1, <2>2, <2>3
<1>4. decoder'.relations = decoder.relations /\ decoder'.inTx = TRUE /\ assembler'.open = TRUE
      /\ assembler'.changes = <<>> /\ assembler'.last = assembler.last
      /\ assembler'.generations = assembler.generations
  BY <1>3
<1>5. Types'
  <2>1. decoder' = [inTx |-> decoder'.inTx, relations |-> decoder'.relations]
    BY <1>3, <1>4
  <2>2. assembler' = [open |-> assembler'.open, changes |-> assembler'.changes,
                      last |-> assembler'.last, generations |-> assembler'.generations]
    BY <1>3, <1>4
  <2>3. assembler'.changes \in Seq(Item) /\ at' \in Nat
    BY <1>3, <1>4
  <2> QED BY <1>0, <1>3, <1>4, <2>1, <2>2, <2>3 DEF Types, TypeOK
<1>6. LogInv' /\ TargetInv' /\ WhyInv'
  BY <1>0, <1>3 DEF LogInv, TargetInv, WhyInv, AppliedIsLog
<1>7. Seen => Seen'
  BY <1>0, <1>3 DEF Seen
<1>8. PositionInv' /\ ContentInv' /\ SizeInv'
  BY <1>0, <1>3 DEF Live, PositionInv, ContentInv, SizeInv, Isolated
<1>9. SenderInv'
  <2>1. wal[next] \in Seq(Change) /\ next <= Len(wal)
    BY <1>0 DEF Types, TypeOK
  <2>2. SubSeq(wal[next], 1, 0) = <<>> /\ 1 <= Len(wal[next]) + 1
    BY <2>1
  <2>3. Assembled(assembler'.changes, SubSeq(wal'[next'], 1, at' - 1)) /\ at' # 0 /\ at' = 1
    <3>1. at' - 1 = 0 /\ at' # 0
      BY <1>3
    <3>2. SubSeq(wal'[next'], 1, at' - 1) = <<>>
      BY <1>3, <2>2, <3>1
    <3> QED BY <1>3, <1>4, <3>1, <3>2, AssembledEmpty
  <2> QED BY <1>1, <1>3, <1>4, <2>1, <2>2, <2>3 DEF SenderInv
<1>10. GenerationInv'
  BY <1>0, <1>3, <1>4, <1>7 DEF Live, GenerationInv
<1>11. BoundInv'
  BY <1>0, <1>3, <1>4, RangeEmpty DEF Live, BoundInv, OneGeneration
<1> QED BY <1>5, <1>6, <1>8, <1>9, <1>10, <1>11 DEF IndInv, Live

\* While a change is sent.
LEMMA SendingFacts ==
  ASSUME IndInv, Sending
  PROVE  /\ Types /\ LogInv /\ TargetInv /\ WhyInv /\ Live /\ pc = "streaming" /\ batch = <<>>
         /\ wal[next] \in Seq(Change) /\ next \in ckpt + 1 .. Len(wal) /\ at \in 1 .. Len(wal[next])
         /\ Current \in Change /\ ckpt = durable /\ ckpt \in Nat /\ base \in Nat /\ base <= ckpt
         /\ decoder.inTx = TRUE /\ assembler.open = TRUE
         /\ Assembled(assembler.changes, SubSeq(wal[next], 1, at - 1))
         /\ assembler.changes \in Seq(Item)
<1>1. Types /\ LogInv /\ TargetInv /\ WhyInv /\ Live /\ pc = "streaming" /\ next <= Len(wal)
  BY DEF IndInv, Sending, Receiving
<1>2. wal[next] \in Seq(Change) /\ next \in 1 .. Len(wal) /\ Len(wal) \in Nat
  BY <1>1 DEF Types, TypeOK
<1>3. at \in 1 .. Len(wal[next]) /\ Current \in Change
  BY <1>2 DEF Sending, Current
<1>4. batch = <<>> /\ ckpt = durable /\ ckpt \in Nat /\ base \in Nat /\ base <= ckpt
      /\ assembler.changes \in Seq(Item) /\ queue \in Seq(Tx)
  BY <1>1 DEF Live, PositionInv, Types, TypeOK, TargetInv
<1>5. next = durable + Len(queue) + 1
  <2>1. next = durable + Len(batch) + Len(queue) + 1
    BY <1>1 DEF Live, PositionInv
  <2>2. Len(batch) = 0 /\ Len(queue) \in Nat
    BY <1>4
  <2> QED BY <1>4, <2>1, <2>2
<1>6. next \in ckpt + 1 .. Len(wal)
  <2>1. Len(queue) \in Nat
    BY <1>4
  <2> QED BY <1>2, <1>4, <1>5, <2>1
<1>7. at # 0
  BY <1>3
<1>8. decoder.inTx = TRUE /\ assembler.open = TRUE
         /\ Assembled(assembler.changes, SubSeq(wal[next], 1, at - 1))
  BY <1>1, <1>7 DEF Live, SenderInv
<1> QED BY <1>1, <1>2, <1>3, <1>4, <1>6, <1>8

\* A row of another shape than the generation's comes after a barrier: LogInv up to
\* the checkpoint, TargetInv from there.
LEMMA ShapeSeen ==
  ASSUME IndInv, Sending, OfTable(Current), Current.shape # bound[Current.rel]
  PROVE  Seen
<1>1. /\ LogInv /\ TargetInv
      /\ wal[next] \in Seq(Change) /\ next \in ckpt + 1 .. Len(wal) /\ at \in 1 .. Len(wal[next])
      /\ ckpt \in Nat /\ base \in Nat /\ base <= ckpt
  BY SendingFacts
<1> SUFFICES ASSUME Clear(wal, ckpt, next - 1), ClearTo(wal[next], at) PROVE FALSE
  BY <1>1 DEF Seen
<1>2. next - 1 \in Nat /\ ckpt <= next - 1 /\ next \in base + 1 .. Len(wal)
  BY <1>1
<1>3. Clear(wal, base, ckpt)
  BY <1>1 DEF TargetInv
<1>4. Clear(wal, base, next - 1)
  BY <1>1, <1>2, <1>3, ClearJoin
<1> QED BY <1>1, <1>2, <1>4 DEF LogInv, Current

\* A second generation needs two shapes, and one of them is not the table's.
LEMMA RelationStep ==
  ASSUME IndInv, ReceiveRelation PROVE IndInv'
<1>0. Sending /\ OfTable(Current)
  BY DEF ReceiveRelation
<1>1. /\ Types /\ LogInv /\ TargetInv /\ WhyInv /\ Live
      /\ at \in 1 .. Len(wal[next]) /\ Current \in Change
  BY <1>0, SendingFacts
<1> DEFINE r == Current.rel
           s == Current.shape
           g == RelationGeneration(r, s)
<1>2. r \in Rel /\ s \in Shape
  BY <1>0, <1>1, TableChange
<1>3. decoder.relations \in [Rel -> [generation : Nat, shape : Shape \cup {NoShape}]]
      /\ assembler.generations \in [Rel -> Nat] /\ announced \in [Rel -> Shape \cup {NoShape}]
  BY <1>1 DEF Types, TypeOK
<1>4. /\ g \in Nat /\ g # 0 /\ g >= decoder.relations[r].generation
      /\ g > 1 => \/ decoder.relations[r].generation > 1
                  \/ decoder.relations[r].generation # 0 /\ decoder.relations[r].shape # s
  BY <1>2, <1>3 DEF RelationGeneration
<1>5. decoder.relations[r].generation = assembler.generations[r]
  BY <1>1, <1>2 DEF Live, GenerationInv
<1>6. /\ announced' = [announced EXCEPT ![r] = s]
      /\ decoder' = [inTx |-> decoder.inTx,
                     relations |-> [decoder.relations EXCEPT ![r] = [generation |-> g, shape |-> s]]]
      /\ assembler' = [open |-> assembler.open, changes |-> assembler.changes, last |-> assembler.last,
                       generations |-> [assembler.generations EXCEPT ![r] = g]]
      /\ UNCHANGED <<wal, catalog, confirmed, next, at, delivered, durable, queue, batch,
                     pc, why, bound, base, ckpt, applied>>
  <2>1. /\ announced' = [announced EXCEPT ![r] = s]
        /\ decoder' = [decoder EXCEPT !.relations[r] = [generation |-> g, shape |-> s]]
        /\ assembler' = [assembler EXCEPT !.generations[r] = g]
        /\ UNCHANGED <<wal, catalog, confirmed, next, at, delivered, durable, queue, batch,
                       pc, why, bound, base, ckpt, applied>>
    BY <1>4, <1>5 DEF ReceiveRelation, source, batches, target
  <2>2. decoder = [inTx |-> decoder.inTx, relations |-> decoder.relations]
        /\ assembler = [open |-> assembler.open, changes |-> assembler.changes,
                       last |-> assembler.last, generations |-> assembler.generations]
    BY <1>1 DEF Types
  <2> HIDE DEF r, s, g
  <2>3. [decoder EXCEPT !.relations[r] = [generation |-> g, shape |-> s]]
          = [inTx |-> decoder.inTx,
             relations |-> [decoder.relations EXCEPT ![r] = [generation |-> g, shape |-> s]]]
    BY <2>2, DecoderRelations
  <2>4. [assembler EXCEPT !.generations[r] = g]
          = [open |-> assembler.open, changes |-> assembler.changes, last |-> assembler.last,
             generations |-> [assembler.generations EXCEPT ![r] = g]]
    BY <2>2, AssemblerGenerations
  <2> QED BY <2>1, <2>3, <2>4
<1>7. s # bound[r] => Seen
  BY <1>0, ShapeSeen
<1> HIDE DEF r, s, g
<1>8. /\ decoder'.inTx = decoder.inTx /\ assembler'.open = assembler.open
      /\ assembler'.changes = assembler.changes /\ assembler'.last = assembler.last
      /\ decoder'.relations = [decoder.relations EXCEPT ![r] = [generation |-> g, shape |-> s]]
      /\ assembler'.generations = [assembler.generations EXCEPT ![r] = g]
  BY <1>6
<1>9. Types'
  <2>1. decoder' = [inTx |-> decoder'.inTx, relations |-> decoder'.relations]
    BY <1>6, <1>8
  <2>2. assembler' = [open |-> assembler'.open, changes |-> assembler'.changes,
                      last |-> assembler'.last, generations |-> assembler'.generations]
    BY <1>6, <1>8
  <2>3. decoder'.relations \in [Rel -> [generation : Nat, shape : Shape \cup {NoShape}]]
        /\ assembler'.generations \in [Rel -> Nat] /\ announced' \in [Rel -> Shape \cup {NoShape}]
    BY <1>2, <1>3, <1>4, <1>6, <1>8
  <2>4. TypeOK
    BY <1>1 DEF Types
  <2>5. TypeOK'
    BY <1>6, <1>8, <2>3, <2>4 DEF TypeOK
  <2> QED BY <2>1, <2>2, <2>5 DEF Types
<1>10. LogInv' /\ TargetInv' /\ WhyInv'
  BY <1>1, <1>6 DEF LogInv, TargetInv, WhyInv, AppliedIsLog
<1>11. Seen' <=> Seen
  BY <1>6 DEF Seen
<1>12. PositionInv' /\ ContentInv' /\ SizeInv'
  BY <1>1, <1>6 DEF Live, PositionInv, ContentInv, SizeInv, Isolated
<1>13. SenderInv' /\ BoundInv'
  BY <1>1, <1>6, <1>8, <1>11 DEF Live, SenderInv, BoundInv
<1>14. GenerationInv'
  <2> SUFFICES ASSUME NEW q \in Rel
               PROVE  /\ decoder'.relations[q].generation = assembler'.generations[q]
                      /\ announced'[q] # NoShape => /\ decoder'.relations[q].generation # 0
                                                    /\ decoder'.relations[q].shape = announced'[q]
                      /\ decoder'.relations[q].generation > 1 => Seen
                      /\ decoder'.relations[q].generation # 0 /\ decoder'.relations[q].shape # bound[q]
                           => Seen
    BY <1>6, <1>11 DEF GenerationInv
  <2>0. /\ decoder.relations[q].generation = assembler.generations[q]
        /\ announced[q] # NoShape => /\ decoder.relations[q].generation # 0
                                     /\ decoder.relations[q].shape = announced[q]
        /\ decoder.relations[q].generation > 1 => Seen
        /\ decoder.relations[q].generation # 0 /\ decoder.relations[q].shape # bound[q] => Seen
    BY <1>1 DEF Live, GenerationInv
  <2>1. CASE q = r
    <3>1. decoder'.relations[q] = [generation |-> g, shape |-> s] /\ assembler'.generations[q] = g
          /\ announced'[q] = s
      BY <1>2, <1>3, <1>6, <1>8, <2>1
    <3>2. decoder'.relations[q].generation = g /\ decoder'.relations[q].shape = s
      BY <3>1
    <3>3. g > 1 => Seen
      BY <1>4, <1>7, <2>0, <2>1
    <3> QED BY <1>4, <1>7, <2>1, <3>1, <3>2, <3>3
  <2>2. CASE q # r
    <3>1. decoder'.relations[q] = decoder.relations[q] /\ assembler'.generations[q] = assembler.generations[q]
          /\ announced'[q] = announced[q]
      BY <1>2, <1>3, <1>6, <1>8, <2>2
    <3> QED BY <2>0, <3>1
  <2> QED BY <2>1, <2>2
<1> QED BY <1>9, <1>10, <1>12, <1>13, <1>14, <1>6 DEF IndInv, Live

LEMMA InvalidateStep ==
  ASSUME IndInv, NEW r \in Rel, Invalidate(r) PROVE IndInv'
<1>0. Types /\ LogInv /\ TargetInv /\ WhyInv /\ Live /\ pc = "streaming"
  BY DEF IndInv, Invalidate
<1>1. UNCHANGED <<wal, catalog, confirmed, next, at, decoder, assembler, delivered, durable,
                  queue, batch, pc, why, bound, base, ckpt, applied>>
      /\ announced' = [announced EXCEPT ![r] = NoShape]
  BY DEF Invalidate, source, adapter, batches, target
<1>2. Types'
  <2>1. announced' \in [Rel -> Shape \cup {NoShape}]
    BY <1>0, <1>1 DEF Types, TypeOK
  <2> QED BY <1>0, <1>1, <2>1 DEF Types, TypeOK
<1>3. LogInv' /\ TargetInv' /\ WhyInv'
  BY <1>0, <1>1 DEF LogInv, TargetInv, WhyInv, AppliedIsLog
<1>4. PositionInv' /\ SenderInv' /\ ContentInv' /\ SizeInv'
  BY <1>0, <1>1 DEF Live, PositionInv, SenderInv, ContentInv, SizeInv
<1>5. Seen' <=> Seen
  BY <1>1 DEF Seen
<1>6. GenerationInv'
  <2>1. \A q \in Rel : announced'[q] # NoShape => announced'[q] = announced[q]
    BY <1>0, <1>1 DEF Types, TypeOK
  <2> QED BY <1>0, <1>1, <1>5, <2>1 DEF Live, GenerationInv
<1>7. BoundInv'
  BY <1>0, <1>1, <1>5 DEF Live, BoundInv
<1> QED BY <1>2, <1>3, <1>4, <1>6, <1>7 DEF IndInv, Live

\* A change that the walsender sends is one the decoder knows the relation of, with
\* the replica identity the change has.
LEMMA DecodableHolds ==
  ASSUME IndInv, Sending, OfTable(Current) => announced[Current.rel] = Current.shape
  PROVE  /\ Decodable(Current) /\ Pushable(Current)
         /\ Supported(Current) <=> ~Unsupported(Current)
<1>1. Live /\ Types /\ Current \in Change /\ decoder.inTx = TRUE /\ assembler.open = TRUE
  BY SendingFacts
<1>2. ASSUME OfTable(Current)
      PROVE  decoder.relations[Current.rel].generation # 0
             /\ assembler.generations[Current.rel] = decoder.relations[Current.rel].generation
             /\ decoder.relations[Current.rel].shape = Current.shape
  <2>1. Current.rel \in Rel /\ Current.shape \in Shape
    BY <1>1, <1>2, TableChange
  <2>2. announced[Current.rel] # NoShape
    BY <1>2, <2>1, LimitsAssumption
  <2> QED BY <1>1, <1>2, <2>1, <2>2 DEF Live, GenerationInv
<1>3. IsRow(Current) => OfTable(Current)
  BY DEF IsRow, OfTable
<1> QED BY <1>1, <1>2, <1>3 DEF Decodable, Pushable, Supported, Unsupported

\* Only a transaction that exceeds max_changes reaches the limit.
LEMMA LimitReached ==
  ASSUME IndInv, Sending,
         AtLimit(assembler.changes), ~Repeats(Decoded(Current))
  PROVE  Counted(wal[next]) > MaxChanges
<1> DEFINE b == wal[next]
           ch == assembler.changes
           c == Current
           p == SubSeq(b, 1, at - 1)
<1>1. b \in Seq(Change) /\ at \in 1 .. Len(b) /\ c \in Change /\ Assembled(ch, p) /\ ch \in Seq(Item)
      /\ c = b[at]
  BY SendingFacts DEF Current
<1>2. ~ (c.kind = "ddl" /\ c \in Range(p))
  <2> SUFFICES ASSUME c.kind = "ddl", c \in Range(p) PROVE FALSE
    OBVIOUS
  <2>1. ~IsRow(c) /\ Decoded(c) = c
    BY DEF IsRow, Decoded
  <2>2. c \in Range(ch)
    BY <1>1, <2>1 DEF Assembled
  <2> QED BY <2>1, <2>2 DEF Repeats, Range
<1> HIDE DEF b, ch, c, p
<1>3. SubSeq(b, 1, at) = Append(p, c) /\ p \in Seq(Change)
  BY <1>1, Prefix DEF p
<1>4. Counted(Append(p, c)) = Counted(p) + 1
  BY <1>1, <1>2, <1>3, CountedAppend
<1>5. Counted(p) = Len(ch) /\ Len(ch) >= MaxChanges /\ Len(ch) \in Nat
  BY <1>1 DEF Assembled, AtLimit, ch
<1>6. Counted(SubSeq(b, 1, at)) <= Counted(b) /\ Counted(b) \in Nat
  <2>1. at \in 0 .. Len(b)
    BY <1>1
  <2> QED BY <1>1, <2>1, CountedPrefix, CountedIs
<1>7. Counted(b) > MaxChanges
  <2>1. Len(ch) + 1 <= Counted(b)
    BY <1>3, <1>4, <1>5, <1>6
  <2>2. MaxChanges \in Nat
    BY LimitsAssumption
  <2> QED BY <1>5, <1>6, <2>1, <2>2
<1> QED BY <1>7 DEF b

LEMMA ChangeStep ==
  ASSUME IndInv, ReceiveChange PROVE IndInv'
<1>0. Sending /\ (OfTable(Current) => announced[Current.rel] = Current.shape)
  BY DEF ReceiveChange
<1>1. /\ Types /\ LogInv /\ TargetInv /\ WhyInv /\ Live /\ pc = "streaming" /\ batch = <<>>
      /\ wal[next] \in Seq(Change) /\ next \in ckpt + 1 .. Len(wal) /\ at \in 1 .. Len(wal[next])
      /\ Current \in Change /\ ckpt \in Nat
      /\ Assembled(assembler.changes, SubSeq(wal[next], 1, at - 1))
      /\ assembler.changes \in Seq(Item)
      /\ decoder.inTx = TRUE /\ assembler.open = TRUE
  BY <1>0, SendingFacts
<1>2. Decodable(Current) /\ Pushable(Current) /\ (Supported(Current) <=> ~Unsupported(Current))
  BY <1>0, DecodableHolds
<1>3. CASE ~Supported(Current)
  <2>1. Fail("unsupported")
    BY <1>2, <1>3 DEF ReceiveChange
  <2>2. Current \in Range(wal[next])
    BY <1>1 DEF Current, Range
  <2> QED BY <1>1, <1>2, <1>3, <2>1, <2>2, FailStep
<1>4. CASE Supported(Current) /\ AtLimit(assembler.changes) /\ ~Repeats(Decoded(Current))
  <2>1. Fail("limit")
    BY <1>2, <1>4 DEF ReceiveChange
  <2>2. Counted(wal[next]) > MaxChanges
    BY <1>0, <1>4, LimitReached
  <2> QED BY <1>1, <2>1, <2>2, FailStep
<1>5. CASE Supported(Current) /\ ~ (AtLimit(assembler.changes) /\ ~Repeats(Decoded(Current)))
  <2> DEFINE b == wal[next]
             ch == assembler.changes
             c == Current
             d == Decoded(c)
             p == SubSeq(b, 1, at - 1)
             ch2 == IF Repeats(d) THEN ch ELSE Append(ch, d)
  <2>1. /\ at' = at + 1
        /\ assembler' = IF Repeats(d) THEN assembler
                        ELSE [assembler EXCEPT !.changes = Append(@, d)]
        /\ UNCHANGED <<wal, catalog, confirmed, next, announced, decoder, delivered, durable,
                       queue, batch, pc, why, bound, base, ckpt, applied>>
    BY <1>2, <1>5 DEF ReceiveChange, source, batches, target
  <2>2. assembler' = [open |-> assembler.open, changes |-> ch2, last |-> assembler.last,
                      generations |-> assembler.generations]
    <3>1. assembler = [open |-> assembler.open, changes |-> assembler.changes,
                       last |-> assembler.last, generations |-> assembler.generations]
      BY <1>1 DEF Types
    <3>2. CASE Repeats(d)
      BY <2>1, <3>1, <3>2
    <3>3. CASE ~Repeats(d)
      <4> HIDE DEF d
      <4>1. [assembler EXCEPT !.changes = Append(@, d)]
              = [open |-> assembler.open, changes |-> Append(assembler.changes, d), last |-> assembler.last,
                 generations |-> assembler.generations]
        BY <3>1, AssemblerAppend
      <4> QED BY <2>1, <3>3, <4>1
    <3> QED BY <3>2, <3>3
  <2>3. c \in Row \cup Special /\ c \in Change /\ c = b[at] /\ b \in Seq(Change) /\ at \in 1 .. Len(b)
        /\ Assembled(ch, p) /\ ch \in Seq(Item) /\ ~Unsupported(c)
    BY <1>1, <1>2, <1>5, TableChange DEF Current, Supported
  <2>4. SubSeq(b, 1, at) = Append(p, c) /\ p \in Seq(Change)
    <3> HIDE DEF b, c
    <3> QED BY <2>3, Prefix
  <2>5. c \in Row => /\ d = [kind |-> "row", row |-> c, generation |-> decoder.relations[c.rel].generation]
                     /\ decoder.relations[c.rel].generation \in Nat /\ d.kind = "row"
                     /\ d.generation = decoder.relations[c.rel].generation
                     /\ c.rel \in Rel /\ decoder.relations[c.rel].generation # 0
    <3> SUFFICES ASSUME c \in Row
                 PROVE  /\ d = [kind |-> "row", row |-> c, generation |-> decoder.relations[c.rel].generation]
                        /\ decoder.relations[c.rel].generation \in Nat /\ d.kind = "row"
                        /\ d.generation = decoder.relations[c.rel].generation
                        /\ c.rel \in Rel /\ decoder.relations[c.rel].generation # 0
      OBVIOUS
    <3>1. IsRow(c) /\ OfTable(c) /\ c.rel \in Rel
      BY Kinds, TableChange, <2>3
    <3>2. decoder.relations[c.rel].generation # 0
      BY <1>2, <3>1 DEF Decodable
    <3>3. d = [kind |-> "row", row |-> c, generation |-> decoder.relations[c.rel].generation]
      BY <3>1 DEF Decoded
    <3>4. decoder.relations \in [Rel -> [generation : Nat, shape : Shape \cup {NoShape}]]
      BY <1>1 DEF Types, TypeOK
    <3>5. decoder.relations[c.rel].generation \in Nat
      BY <3>1, <3>4
    <3> HIDE DEF d, c
    <3> QED BY <3>1, <3>2, <3>3, <3>5
  <2>6. c \in Special => d = c /\ ~IsRow(c)
    BY <2>3, TableChange DEF Decoded, IsRow
  <2>7. Repeats(d) <=> d.kind = "ddl" /\ d \in Range(ch)
    BY DEF Repeats, Range
  <2>8. ~Repeats(d) => Len(ch) < MaxChanges
    <3>1. Len(ch) \in Nat
      BY <2>3
    <3> QED BY <1>5, <3>1, LimitsAssumption DEF AtLimit
  <2> HIDE DEF b, ch, c, d, p
  <2>9. Assembled(ch2, SubSeq(b, 1, at))
    <3>1. CASE c \in Row
      <4> DEFINE gn == decoder.relations[c.rel].generation
      <4>1. ~Repeats(d) /\ gn \in Nat /\ d = [kind |-> "row", row |-> c, generation |-> gn]
        BY <2>5, <2>7, <3>1
      <4> HIDE DEF gn
      <4>2. Assembled(Append(ch, [kind |-> "row", row |-> c, generation |-> gn]), Append(p, c))
        BY <2>3, <2>4, <2>8, <3>1, <4>1, AssembledRow
      <4> QED BY <2>4, <4>1, <4>2
    <3>2. CASE c \in Special /\ Repeats(d)
      BY <2>3, <2>4, <2>6, <2>7, <3>2, AssembledRepeat
    <3>3. CASE c \in Special /\ ~Repeats(d)
      BY <2>3, <2>4, <2>6, <2>7, <2>8, <3>3, AssembledOther
    <3> QED BY <2>3, <3>1, <3>2, <3>3
  <2> HIDE DEF ch2
  <2>10. /\ assembler'.open = assembler.open /\ assembler'.changes = ch2
         /\ assembler'.last = assembler.last /\ assembler'.generations = assembler.generations
    BY <2>2
  <2>11. ch2 \in Seq(Item)
    BY <2>9 DEF Assembled
  <2>12. Types'
    <3>1. assembler' = [open |-> assembler'.open, changes |-> assembler'.changes,
                        last |-> assembler'.last, generations |-> assembler'.generations]
      BY <2>2, <2>10
    <3>2. TypeOK
      BY <1>1 DEF Types
    <3>4. at' \in Nat
      BY <2>1, <2>3
    <3>3. TypeOK'
      BY <2>1, <2>10, <2>11, <3>2, <3>4 DEF TypeOK
    <3> QED BY <1>1, <2>1, <3>1, <3>3 DEF Types
  <2>13. LogInv' /\ TargetInv' /\ WhyInv'
    BY <1>1, <2>1 DEF LogInv, TargetInv, WhyInv, AppliedIsLog
  <2>14. at \in Nat /\ at # 0 /\ at' # 0 /\ at' - 1 = at /\ at' <= Len(b) + 1
    BY <2>1, <2>3
  <2>15. Seen => Seen'
    <3>1. ClearTo(wal[next], at') => ClearTo(wal[next], at)
      BY <2>1, <2>14 DEF ClearTo
    <3> QED BY <2>1, <2>14, <3>1 DEF Seen
  <2>16. PositionInv' /\ ContentInv' /\ SizeInv'
    BY <1>1, <2>1 DEF Live, PositionInv, ContentInv, SizeInv, Isolated
  <2>17. SenderInv'
    <3>1. Assembled(assembler'.changes, SubSeq(wal'[next'], 1, at' - 1))
      BY <2>1, <2>9, <2>10, <2>14 DEF b
    <3>2. next' <= Len(wal') /\ at' <= Len(wal'[next']) + 1 /\ assembler'.last < next'
      BY <1>1, <2>1, <2>10, <2>14 DEF b, Live, SenderInv
    <3> QED BY <1>1, <2>1, <2>10, <2>14, <3>1, <3>2 DEF SenderInv
  <2>18. GenerationInv'
    BY <1>1, <2>1, <2>10, <2>15 DEF Live, GenerationInv
  <2>19. OneGeneration(ch2) \/ Seen'
    <3>1. OneGeneration(ch) \/ Seen
      BY <1>1 DEF Live, BoundInv, ch
    <3>2. CASE Repeats(d)
      BY <2>15, <3>1, <3>2 DEF ch2
    <3>3. CASE ~Repeats(d)
      <4>1. Range(ch2) = Range(ch) \cup {d}
        BY <2>3, <3>3, RangeAppend DEF ch2
      <4>2. IsRow(d) => d.generation = 1 \/ Seen
        <5> SUFFICES ASSUME IsRow(d) PROVE d.generation = 1 \/ Seen
          OBVIOUS
        <5>1. c \in Row
          BY <2>3, <2>6
        <5>2. decoder.relations[c.rel].generation > 1 => Seen
          BY <1>1, <2>5, <5>1 DEF Live, GenerationInv
        <5> QED BY <2>5, <5>1, <5>2
      <4> QED BY <2>15, <3>1, <4>1, <4>2 DEF OneGeneration
    <3> QED BY <3>2, <3>3
  <2>20. BoundInv'
    BY <1>1, <2>1, <2>10, <2>19 DEF Live, BoundInv
  <2> QED BY <2>12, <2>13, <2>16, <2>17, <2>18, <2>20 DEF IndInv, Live
<1> QED BY <1>3, <1>4, <1>5

-----------------------------------------------------------------------------
(* Steps of the batches. *)

\* While a job runs.
LEMMA LiveFacts ==
  ASSUME IndInv, pc # "down"
  PROVE  /\ Types /\ LogInv /\ TargetInv /\ WhyInv /\ Live
         /\ wal \in Seq(Seq(Change)) /\ Len(wal) \in Nat /\ queue \in Seq(Tx) /\ batch \in Seq(Tx)
         /\ Len(queue) \in Nat /\ Len(batch) \in Nat /\ durable \in Nat /\ ckpt \in Nat /\ base \in Nat
         /\ base <= ckpt /\ ckpt <= Len(wal) /\ next \in Nat
         /\ next = durable + Len(batch) + Len(queue) + 1 /\ durable + Len(batch) + Len(queue) <= Len(wal)
<1>1. Types /\ LogInv /\ TargetInv /\ WhyInv /\ Live
  BY DEF IndInv
<1>2. wal \in Seq(Seq(Change)) /\ queue \in Seq(Tx) /\ batch \in Seq(Tx) /\ durable \in Nat
      /\ ckpt \in Nat /\ base \in Nat /\ next \in Nat /\ next <= Len(wal) + 1 /\ ckpt <= Len(wal)
  BY <1>1 DEF Types, TypeOK
<1>3. Len(wal) \in Nat /\ Len(queue) \in Nat /\ Len(batch) \in Nat
  BY <1>2
<1>4. next = durable + Len(batch) + Len(queue) + 1
  BY <1>1 DEF Live, PositionInv
<1>5. base <= ckpt
  BY <1>1 DEF TargetInv
<1>6. durable + Len(batch) + Len(queue) <= Len(wal)
  BY <1>2, <1>3, <1>4
<1> QED BY <1>1, <1>2, <1>3, <1>4, <1>5, <1>6

LEMMA FlushStep ==
  ASSUME IndInv, Flush PROVE IndInv'
<1>0. Types /\ LogInv /\ TargetInv /\ WhyInv /\ Live /\ pc = "streaming"
  BY DEF IndInv, Flush
<1>1. UNCHANGED <<wal, catalog, confirmed, next, at, announced, decoder, assembler, delivered, durable,
                  why, bound, base, ckpt, applied>>
      /\ queue # <<>> /\ batch' = queue /\ queue' = <<>> /\ pc' = "applying"
  BY DEF Flush, source, sender, adapter, target
<1>2. batch = <<>> /\ queue \in Seq(Tx) /\ durable \in Nat
  BY <1>0 DEF Live, PositionInv, Types, TypeOK
<1>3. Types'
  BY <1>0, <1>1 DEF Types, TypeOK
<1>4. LogInv' /\ TargetInv' /\ WhyInv'
  BY <1>0, <1>1 DEF LogInv, TargetInv, WhyInv, AppliedIsLog
<1>5. Seen' <=> Seen
  BY <1>1 DEF Seen
<1>6. Len(batch) = 0 /\ Len(queue') = 0 /\ Len(batch') = Len(queue) /\ Len(queue) \in Nat
      /\ \A i \in 1 .. Len(queue) : durable + Len(batch) + i = durable + i
  BY <1>1, <1>2
<1>7. PositionInv'
  BY <1>0, <1>1, <1>2, <1>6 DEF Live, PositionInv
<1>8. SenderInv' /\ GenerationInv'
  BY <1>0, <1>1, <1>5 DEF Live, SenderInv, GenerationInv
<1>9. ContentInv'
  BY <1>0, <1>1, <1>6 DEF Live, ContentInv, Isolated
<1>10. BoundInv'
  BY <1>0, <1>1, <1>5, <1>6 DEF Live, BoundInv
<1>11. SizeInv'
  BY <1>0, <1>1, RowCountEmpty, LimitsAssumption DEF Live, SizeInv, SizeOK
<1> QED BY <1>3, <1>4, <1>7, <1>8, <1>9, <1>10, <1>11 DEF IndInv, Live

LEMMA CommitStep ==
  ASSUME IndInv, ReceiveCommit PROVE IndInv'
<1>0. pc = "streaming" /\ next <= Len(wal) /\ at = Len(wal[next]) + 1
  BY DEF ReceiveCommit, Receiving
<1> DEFINE b == wal[next]
           ch == assembler.changes
           tx == [lsn |-> next, changes |-> ch]
           n == Len(queue)
<1>1. /\ Types /\ LogInv /\ TargetInv /\ WhyInv /\ Live
      /\ wal \in Seq(Seq(Change)) /\ Len(wal) \in Nat /\ queue \in Seq(Tx) /\ n \in Nat
      /\ durable \in Nat /\ ckpt \in Nat /\ next \in Nat
  BY <1>0, LiveFacts
<1>2. batch = <<>> /\ ckpt = durable /\ Len(batch) = 0 /\ next = durable + n + 1
  <2>1. batch = <<>> /\ ckpt = durable
    BY <1>0, <1>1 DEF Live, PositionInv
  <2>2. Len(batch) = 0
    BY <2>1
  <2>3. next = durable + Len(batch) + Len(queue) + 1
    BY <1>0, LiveFacts
  <2> QED BY <1>1, <2>1, <2>2, <2>3
<1>3. b \in Seq(Change) /\ Len(b) \in Nat /\ at # 0
  <2>1. next \in 1 .. Len(wal)
    BY <1>0, <1>1, <1>2
  <2>2. b \in Seq(Change)
    BY <1>1, <2>1
  <2> QED BY <1>0, <2>2
<1>4. /\ Assembled(ch, b) /\ ch \in Seq(Item) /\ tx \in Tx /\ tx.lsn = next /\ tx.changes = ch
      /\ decoder.inTx = TRUE /\ assembler.open = TRUE /\ assembler.last < next /\ assembler.last \in Nat
  <2>1. decoder.inTx = TRUE /\ assembler.open = TRUE /\ assembler.last < next
        /\ Assembled(ch, SubSeq(b, 1, at - 1))
    BY <1>1, <1>3 DEF Live, SenderInv
  <2>2. SubSeq(b, 1, at - 1) = b
    <3>1. at - 1 = Len(b)
      BY <1>0, <1>3
    <3> QED BY <1>3, <3>1
  <2>3. ch \in Seq(Item) /\ assembler.last \in Nat
    BY <1>1 DEF Types, TypeOK
  <2>4. tx \in Tx
    BY <1>1, <2>3 DEF Tx
  <2> QED BY <2>1, <2>2, <2>3, <2>4
<1>5. CommitAccepted
  BY <1>1, <1>4 DEF CommitAccepted
<1> HIDE DEF b, ch, tx, n
<1>6. /\ next' = next + 1 /\ at' = 0
      /\ decoder' = [inTx |-> FALSE, relations |-> decoder.relations]
      /\ assembler' = [open |-> FALSE, changes |-> <<>>, last |-> next,
                       generations |-> assembler.generations]
      /\ delivered' = Append(delivered, next)
      /\ IF MustFlush(tx)
           THEN queue' = <<tx>> /\ batch' = queue /\ pc' = "applying"
           ELSE queue' = Append(queue, tx) /\ batch' = batch /\ pc' = pc
      /\ UNCHANGED <<wal, catalog, confirmed, announced, durable, why, bound, base, ckpt, applied>>
  <2>1. /\ next' = next + 1 /\ at' = 0
        /\ decoder' = [decoder EXCEPT !.inTx = FALSE]
        /\ assembler' = [open |-> FALSE, changes |-> <<>>, last |-> next,
                         generations |-> assembler.generations]
        /\ delivered' = Append(delivered, next)
        /\ IF MustFlush(tx)
             THEN queue' = <<tx>> /\ batch' = queue /\ pc' = "applying"
             ELSE queue' = Append(queue, tx) /\ batch' = batch /\ pc' = pc
        /\ UNCHANGED <<wal, catalog, confirmed, announced, durable, why, bound, base, ckpt, applied>>
    BY <1>5 DEF ReceiveCommit, source, target, tx, ch
  <2>2. decoder = [inTx |-> decoder.inTx, relations |-> decoder.relations]
    BY <1>1 DEF Types
  <2>3. [decoder EXCEPT !.inTx = FALSE] = [inTx |-> FALSE, relations |-> decoder.relations]
    BY <2>2, DecoderInTx
  <2> QED BY <2>1, <2>3
<1>7. /\ decoder'.inTx = FALSE /\ decoder'.relations = decoder.relations
      /\ assembler'.open = FALSE /\ assembler'.changes = <<>> /\ assembler'.last = next
      /\ assembler'.generations = assembler.generations
  BY <1>6
<1>8. queue' \in Seq(Tx) /\ batch' \in Seq(Tx) /\ pc' \in {"streaming", "applying"}
  <2>1. <<tx>> \in Seq(Tx) /\ Append(queue, tx) \in Seq(Tx) /\ batch \in Seq(Tx)
    BY <1>1, <1>2, <1>4
  <2> QED BY <1>0, <1>1, <1>6, <2>1
<1>9. Types'
  <2>1. decoder' = [inTx |-> decoder'.inTx, relations |-> decoder'.relations]
    BY <1>6, <1>7
  <2>2. assembler' = [open |-> assembler'.open, changes |-> assembler'.changes,
                      last |-> assembler'.last, generations |-> assembler'.generations]
    BY <1>6, <1>7
  <2>3. TypeOK
    BY <1>1 DEF Types
  <2>4. next' \in 1 .. Len(wal) + 1 /\ at' \in Nat /\ <<>> \in Seq(Item)
    BY <1>0, <1>1, <1>6
  <2>5. delivered' \in Seq(Nat)
    BY <1>1, <1>6, <2>3 DEF TypeOK
  <2>6. TypeOK'
    BY <1>1, <1>6, <1>7, <1>8, <2>3, <2>4, <2>5 DEF TypeOK
  <2> QED BY <2>1, <2>2, <2>6 DEF Types
<1>10. LogInv' /\ TargetInv'
  BY <1>1, <1>6 DEF LogInv, TargetInv, AppliedIsLog
<1>11. WhyInv'
  BY <1>0, <1>1, <1>6 DEF WhyInv
<1>12. Seen => ~Clear(wal, ckpt, next)
  <2> SUFFICES ASSUME Clear(wal, ckpt, next) PROVE Clear(wal, ckpt, next - 1) /\ ClearTo(wal[next], at)
    BY DEF Seen
  <2>1. ckpt <= next - 1 /\ next - 1 \in Nat /\ next - 1 <= next /\ next \in ckpt + 1 .. next
    BY <1>1, <1>2
  <2>2. Clear(wal, ckpt, next - 1)
    BY <1>1, <2>1, ClearJoin
  <2>3. \A c \in Range(b) : ~RequiresBarrier(c)
    BY <2>1 DEF Clear, b
  <2>4. \A j \in 1 .. at - 1 : b[j] \in Range(b)
    BY <1>0, <1>3 DEF Range, b
  <2> QED BY <2>2, <2>3, <2>4 DEF ClearTo, b
<1>13. Seen => Seen'
  <2>1. next' - 1 = next
    BY <1>1, <1>6
  <2> QED BY <1>6, <1>12, <2>1 DEF Seen
<1>14. SenderInv'
  BY <1>1, <1>6, <1>7 DEF SenderInv
<1>15. GenerationInv'
  BY <1>1, <1>6, <1>7, <1>13 DEF Live, GenerationInv
<1>16. OneGeneration(tx.changes) \/ ~Clear(wal, ckpt, next)
  BY <1>1, <1>4, <1>12 DEF Live, BoundInv, ch
<1>17. OneGeneration(<<>>)
  BY RangeEmpty DEF OneGeneration
<1>18. /\ \A i \in 1 .. n : queue[i].lsn = durable + i
       /\ \A i \in 1 .. n : Assembled(queue[i].changes, wal[durable + i])
       /\ \A i \in 2 .. n : ~Isolated(queue[i])
       /\ \A i \in 1 .. n : OneGeneration(queue[i].changes) \/ ~Clear(wal, ckpt, durable + i)
       /\ SizeOK(queue)
  <2>1. \A i \in 1 .. n : durable + Len(batch) + i = durable + i
    BY <1>1, <1>2
  <2> QED BY <1>1, <2>1 DEF Live, PositionInv, ContentInv, BoundInv, SizeInv, n
<1>19. delivered' = [i \in 1 .. n + 1 |-> durable + i]
  <2>1. Len(batch) + Len(queue) = n
    BY <1>1, <1>2 DEF n
  <2>2. delivered = [i \in 1 .. n |-> durable + i]
    BY <1>1, <2>1 DEF Live, PositionInv
  <2>3. Append(delivered, next) = [i \in 1 .. n + 1 |-> durable + i]
    BY <1>1, <1>2, <2>2
  <2> QED BY <1>6, <2>3
<1>20. CASE MustFlush(tx)
  <2>1. queue' = <<tx>> /\ batch' = queue /\ pc' = "applying" /\ queue # <<>>
    BY <1>6, <1>20 DEF MustFlush
  <2>2. Len(queue') = 1 /\ queue'[1] = tx /\ Len(batch') = n
    BY <2>1 DEF n
  <2>3. durable + n + 1 = next /\ next' = durable + n + 1 + 1
    BY <1>2, <1>6
  <2>4. PositionInv'
    BY <1>1, <1>2, <1>4, <1>6, <1>18, <1>19, <2>1, <2>2, <2>3 DEF PositionInv
  <2>5. ContentInv'
    <3>1. \A i \in 1 .. Len(batch') : Assembled(batch'[i].changes, wal'[durable' + i])
      BY <1>6, <1>18, <2>1, <2>2
    <3>2. \A i \in 1 .. Len(queue') : Assembled(queue'[i].changes, wal'[durable' + Len(batch') + i])
      <4>1. \A i \in 1 .. Len(queue') : i = 1
        BY <2>2
      <4>2. Assembled(queue'[1].changes, wal'[durable' + Len(batch') + 1])
        BY <1>4, <1>6, <2>2, <2>3 DEF b
      <4> QED BY <4>1, <4>2
    <3>3. \A i \in 2 .. Len(batch') : ~Isolated(batch'[i])
      BY <1>18, <2>1, <2>2
    <3>4. 2 .. Len(queue') = {}
      BY <2>2
    <3> QED BY <3>1, <3>2, <3>3, <3>4 DEF ContentInv, Isolated
  <2>6. BoundInv'
    BY <1>1, <1>6, <1>7, <1>16, <1>17, <1>18, <2>1, <2>2, <2>3 DEF BoundInv
  <2>7. SizeInv'
    BY <1>18, <2>1, <2>2, LimitsAssumption DEF SizeInv, SizeOK
  <2> QED BY <1>9, <1>10, <1>11, <1>14, <1>15, <2>4, <2>5, <2>6, <2>7 DEF IndInv, Live
<1>21. CASE ~MustFlush(tx)
  <2>1. queue' = Append(queue, tx) /\ batch' = <<>> /\ pc' = "streaming"
    BY <1>0, <1>2, <1>6, <1>21
  <2>2. Len(queue') = n + 1 /\ queue'[n + 1] = tx /\ Len(batch') = 0
        /\ \A i \in 1 .. n : queue'[i] = queue[i]
    BY <1>1, <2>1 DEF n
  <2>3. durable + 0 + (n + 1) = next /\ next' = durable + 0 + (n + 1) + 1 /\ 0 + (n + 1) = n + 1
        /\ \A i \in 1 .. n : durable + 0 + i = durable + i
    BY <1>1, <1>2, <1>6
  <2>4. \A i \in 1 .. n + 1 : i \in 1 .. n \/ i = n + 1
    BY <1>1
  <2>5. PositionInv'
    <3>1. \A i \in 1 .. n + 1 : queue'[i].lsn = durable + 0 + i
      BY <1>4, <1>18, <2>2, <2>3, <2>4
    <3> QED BY <1>2, <1>6, <1>19, <2>1, <2>2, <2>3, <3>1 DEF PositionInv
  <2>6. ContentInv'
    <3>1. \A i \in 1 .. n + 1 : Assembled(queue'[i].changes, wal[durable + 0 + i])
      BY <1>4, <1>18, <2>2, <2>3, <2>4 DEF b
    <3>2. \A i \in 2 .. n + 1 : ~Isolated(queue'[i])
      <4>1. n # 0 => ~Isolated(tx)
        <5> SUFFICES ASSUME n # 0 PROVE ~Isolated(tx)
          OBVIOUS
        <5>1. queue # <<>>
          BY DEF n
        <5> QED BY <1>21, <5>1 DEF MustFlush
      <4>2. \A i \in 2 .. n + 1 : i \in 2 .. n \/ (i = n + 1 /\ n # 0)
        BY <1>1
      <4>3. \A i \in 2 .. n : queue'[i] = queue[i]
        BY <1>1, <2>2
      <4> QED BY <1>18, <2>2, <4>1, <4>2, <4>3
    <3> QED BY <1>6, <2>1, <2>2, <3>1, <3>2 DEF ContentInv, Isolated
  <2>7. BoundInv'
    <3>1. \A i \in 1 .. n + 1 : OneGeneration(queue'[i].changes) \/ ~Clear(wal, ckpt, durable + 0 + i)
      BY <1>16, <1>18, <2>2, <2>3, <2>4
    <3> QED BY <1>6, <1>7, <1>17, <2>1, <2>2, <3>1 DEF BoundInv
  <2>8. SizeInv'
    <3>1. SizeOK(<<>>)
      BY RowCountEmpty, LimitsAssumption DEF SizeOK
    <3>2. CASE queue = <<>>
      <4>1. n = 0
        BY <3>2 DEF n
      <4> QED BY <2>1, <2>2, <3>1, <4>1, LimitsAssumption DEF SizeInv, SizeOK
    <3>3. CASE queue # <<>>
      <4>1. ~ (RowCount(queue) + Len(Rows(tx)) > MaxRows) /\ ~ (Len(queue) >= MaxRows)
        BY <1>21, <3>3 DEF MustFlush
      <4>2. RowCount(Append(queue, tx)) = RowCount(queue) + Len(Rows(tx)) /\ Len(Rows(tx)) \in Nat
        BY <1>1, <1>4, RowCountAppend
      <4>3. RowCount(queue) \in Nat /\ MaxRows \in Nat
        BY <1>1, RowCountType, LimitsAssumption
      <4>4. SizeOK(Append(queue, tx))
        BY <1>1, <2>1, <2>2, <4>1, <4>2, <4>3 DEF SizeOK, n
      <4> QED BY <2>1, <3>1, <4>4 DEF SizeInv
    <3> QED BY <3>2, <3>3
  <2> QED BY <1>9, <1>10, <1>11, <1>14, <1>15, <2>5, <2>6, <2>7, <2>8 DEF IndInv, Live
<1> QED BY <1>20, <1>21

\* The changes of a batch show the barriers of its part of the log.
LEMMA BatchClear ==
  ASSUME IndInv, pc = "applying", ~Barred
  PROVE  Clear(wal, durable, durable + Len(batch))
<1>1. Live /\ Len(batch) \in Nat /\ durable \in Nat
  BY LiveFacts
<1> SUFFICES ASSUME NEW j \in durable + 1 .. durable + Len(batch), NEW c \in Range(wal[j]),
                    RequiresBarrier(c)
             PROVE  FALSE
  BY DEF Clear
<1> DEFINE i == j - durable
<1>2. i \in 1 .. Len(batch) /\ durable + i = j
  BY <1>1
<1> HIDE DEF i
<1>3. Assembled(batch[i].changes, wal[j])
  BY <1>1, <1>2 DEF Live, ContentInv
<1>4. c \in Range(batch[i].changes)
  BY <1>3, BarrierIsNoRow DEF Assembled
<1>5. batch[i] \in Range(batch)
  BY <1>1, <1>2 DEF Range
<1> QED BY <1>4, <1>5 DEF Barred

LEMMA ApplyStep ==
  ASSUME IndInv, Apply PROVE IndInv'
<1>0. pc = "applying"
  BY DEF Apply
<1> DEFINE m == Len(batch)
<1>1. /\ Types /\ LogInv /\ TargetInv /\ WhyInv /\ Live
      /\ wal \in Seq(Seq(Change)) /\ Len(wal) \in Nat /\ queue \in Seq(Tx) /\ batch \in Seq(Tx)
      /\ Len(queue) \in Nat /\ m \in Nat /\ durable \in Nat /\ base \in Nat /\ ckpt \in Nat
      /\ base <= ckpt /\ ckpt <= Len(wal) /\ next \in Nat
      /\ next = durable + m + Len(queue) + 1 /\ durable + m + Len(queue) <= Len(wal)
  BY <1>0, LiveFacts
<1>2. batch # <<>> /\ ckpt = durable /\ m # 0
  <2>1. batch # <<>> /\ ckpt = durable
    BY <1>0, <1>1 DEF Live, PositionInv
  <2> QED BY <1>1, <2>1
<1>3. CASE Barred
  <2>1. Fail("barrier")
    BY <1>3 DEF Apply
  <2>2. PICK i \in 1 .. m : \E c \in Range(batch[i].changes) : RequiresBarrier(c)
    <3>1. PICK tx \in Range(batch) : \E c \in Range(tx.changes) : RequiresBarrier(c)
      BY <1>3 DEF Barred
    <3>2. PICK i \in 1 .. Len(batch) : batch[i] = tx
      BY <1>1 DEF Range
    <3> QED BY <3>1, <3>2
  <2>3. PICK c \in Range(batch[i].changes) : RequiresBarrier(c)
    BY <2>2
  <2>4. ~IsRow(c)
    BY <2>3, BarrierIsNoRow
  <2>5. Isolated(batch[i])
    BY <2>3, <2>4 DEF Isolated, Range
  <2>6. i = 1
    <3>1. i \notin 2 .. Len(batch)
      BY <1>1, <2>5 DEF Live, ContentInv
    <3> QED BY <1>1, <3>1
  <2>7. Assembled(batch[i].changes, wal[durable + i])
    BY <1>1 DEF Live, ContentInv
  <2>8. c \in Range(wal[ckpt + 1])
    BY <1>2, <2>3, <2>4, <2>6, <2>7 DEF Assembled
  <2>9. ckpt + 1 <= Len(wal)
    BY <1>1, <1>2
  <2> QED BY <2>1, <2>3, <2>8, <2>9, FailStep
<1>4. CASE ~Barred
  <2>1. Clear(wal, ckpt, durable + m)
    BY <1>0, <1>2, <1>4, BatchClear
  <2>2. ~Unbound
    <3> SUFFICES ASSUME Unbound PROVE FALSE
      OBVIOUS
    <3>1. PICK i \in 1 .. m : \E c \in Range(batch[i].changes) : IsRow(c) /\ c.generation # 1
      <4>1. PICK tx \in Range(batch) : \E c \in Range(tx.changes) : IsRow(c) /\ c.generation # 1
        BY DEF Unbound
      <4>2. PICK i \in 1 .. Len(batch) : batch[i] = tx
        BY <1>1 DEF Range
      <4> QED BY <4>1, <4>2
    <3>2. ~OneGeneration(batch[i].changes)
      BY <3>1 DEF OneGeneration
    <3>3. ~Clear(wal, ckpt, durable + i)
      BY <1>0, <1>1, <3>2 DEF Live, BoundInv
    <3>4. durable + i \in Nat /\ ckpt <= durable + i /\ durable + i <= durable + m /\ durable + m \in Nat
      BY <1>1, <1>2
    <3> QED BY <1>1, <2>1, <3>3, <3>4, ClearJoin
  <2>3. /\ ckpt' = Last(batch).lsn
        /\ applied' = [r \in Rel |-> applied[r] \o Grouped(Changes(batch), r)]
        /\ pc' = "applied"
        /\ UNCHANGED <<wal, catalog, confirmed, next, at, announced, decoder, assembler, delivered, durable,
                       queue, batch, why, bound, base>>
    BY <1>4, <2>2 DEF Apply, source, sender, adapter, batches
  <2>4. ckpt' = durable + m
    <3>1. m \in 1 .. m
      BY <1>1, <1>2
    <3>2. batch[m].lsn = durable + m
      BY <1>1, <3>1 DEF Live, PositionInv
    <3> QED BY <2>3, <3>2 DEF Last
  <2>5. ckpt' \in 0 .. Len(wal) /\ ckpt <= ckpt' /\ ckpt' \in Nat /\ base <= ckpt' /\ ckpt' <= Len(wal)
    BY <1>1, <1>2, <2>4
  <2> HIDE DEF m
  <2>6. ASSUME NEW r \in Rel
        PROVE  /\ applied'[r] = Only(FlattenSeq(SubSeq(wal, base + 1, ckpt')), RowsOf(r))
               /\ applied'[r] \in Seq(Row)
    <3> DEFINE k == ckpt'
               p == SubSeq(wal, base + 1, ckpt)
               q == SubSeq(wal, ckpt + 1, k)
    <3>1. Grouped(Changes(batch), r) = Only(FlattenSeq(q), RowsOf(r))
      <4>1. \A i \in 1 .. Len(batch) : Grouped(batch[i].changes, r) = Only(wal[durable + i], RowsOf(r))
        BY <1>1 DEF Live, ContentInv, Assembled
      <4>2. durable + Len(batch) <= Len(wal)
        BY <1>1 DEF m
      <4>3. Grouped(Changes(batch), r)
              = Only(FlattenSeq(SubSeq(wal, durable + 1, durable + Len(batch))), RowsOf(r))
        BY <1>1, <4>1, <4>2, BatchRows
      <4> QED BY <1>2, <2>4, <4>3 DEF m
    <3>20. k \in Nat /\ ckpt <= k /\ k <= Len(wal)
      BY <2>5
    <3> HIDE DEF k
    <3>21. wal \in Seq(Seq(Change)) /\ base \in Nat /\ ckpt \in Nat /\ base <= ckpt
      BY <1>1
    <3>2. SubSeq(wal, base + 1, k) = p \o q
      BY <3>20, <3>21, PartJoin
    <3>3. p \in Seq(Seq(Change)) /\ q \in Seq(Seq(Change))
      BY <1>1, <3>20
    <3> HIDE DEF p, q
    <3>4. FlattenSeq(p \o q) = FlattenSeq(p) \o FlattenSeq(q)
      BY <3>3, FlattenConcat
    <3> DEFINE f == FlattenSeq(p)
               g == FlattenSeq(q)
    <3>5. f \in Seq(Change) /\ g \in Seq(Change)
      BY <3>3, FlattenType
    <3> HIDE DEF f, g
    <3>6. Only(f \o g, RowsOf(r)) = Only(f, RowsOf(r)) \o Only(g, RowsOf(r))
      BY <3>5, OnlyConcat
    <3>7. applied[r] = Only(f, RowsOf(r))
      BY <1>1 DEF TargetInv, AppliedIsLog, f, p
    <3>8. applied'[r] = applied[r] \o Grouped(Changes(batch), r)
      BY <2>3
    <3>9. applied'[r] = Only(FlattenSeq(SubSeq(wal, base + 1, k)), RowsOf(r))
      BY <3>1, <3>2, <3>4, <3>6, <3>7, <3>8 DEF f, g
    <3>10. applied'[r] \in Seq(Row)
      <4>1. Grouped(Changes(batch), r) \in Seq(RowsOf(r))
        BY <1>1, ChangesType, GroupedType
      <4>2. Grouped(Changes(batch), r) \in Seq(Row)
        BY <4>1 DEF RowsOf
      <4>3. applied[r] \in Seq(Row)
        BY <1>1 DEF Types, TypeOK
      <4> QED BY <3>8, <4>2, <4>3
    <3> QED BY <3>9, <3>10 DEF k
  <2>7. Types'
    <3>1. applied' \in [Rel -> Seq(Row)]
      BY <2>3, <2>6
    <3>2. TypeOK
      BY <1>1 DEF Types
    <3>3. TypeOK'
      BY <2>3, <2>5, <3>1, <3>2 DEF TypeOK
    <3> QED BY <1>1, <2>3, <3>3 DEF Types
  <2>8. LogInv'
    BY <2>3, LogFrame
  <2>9. TargetInv'
    <3>1. AppliedIsLog'
      BY <2>3, <2>6 DEF AppliedIsLog
    <3>2. Clear(wal, base, ckpt)
      BY <1>1 DEF TargetInv
    <3>3. Clear(wal, base, ckpt')
      BY <1>1, <2>1, <2>4, <2>5, <3>2, ClearJoin DEF m
    <3>4. ASSUME NEW j \in base + 1 .. ckpt'
          PROVE  Counted(wal[j]) <= MaxChanges /\ \A c \in Range(wal[j]) : ~Unsupported(c)
      <4>1. CASE j <= ckpt
        <5>1. j \in base + 1 .. ckpt
          BY <1>1, <2>5, <4>1
        <5> QED BY <1>1, <5>1 DEF TargetInv
      <4>2. CASE j > ckpt
        <5> DEFINE i == j - durable
        <5>1. i \in 1 .. Len(batch) /\ durable + i = j
          BY <1>1, <1>2, <2>4, <4>2 DEF m
        <5> HIDE DEF i
        <5>2. Assembled(batch[i].changes, wal[j])
          BY <1>1, <5>1 DEF Live, ContentInv
        <5> QED BY <5>2 DEF Assembled
      <4> QED BY <1>1, <2>5, <4>1, <4>2
    <3>5. confirmed <= ckpt'
      <4>1. confirmed <= ckpt /\ confirmed \in Nat
        BY <1>1 DEF TargetInv, Types, TypeOK
      <4> QED BY <1>1, <2>5, <4>1
    <3> QED BY <2>3, <2>5, <3>1, <3>3, <3>4, <3>5 DEF TargetInv
  <2>10. WhyInv'
    BY <1>0, <1>1, <2>3 DEF WhyInv
  <2>11. PositionInv'
    BY <1>0, <1>1, <1>2, <2>3, <2>4 DEF Live, PositionInv, m
  <2>12. SenderInv' /\ ContentInv' /\ SizeInv'
    BY <1>1, <2>3 DEF Live, SenderInv, ContentInv, SizeInv, Isolated
  <2>13. ASSUME NEW j \in Nat, j >= ckpt', ~Clear(wal, ckpt, j) PROVE ~Clear(wal, ckpt', j)
    BY <1>1, <2>1, <2>4, <2>5, <2>13, ClearJoin DEF m
  <2>14. Seen => Seen'
    <3>1. next - 1 \in Nat /\ next - 1 >= ckpt'
      BY <1>1, <2>4
    <3> QED BY <2>3, <2>13, <3>1 DEF Seen
  <2>15. GenerationInv'
    BY <1>1, <2>3, <2>14 DEF Live, GenerationInv
  <2>16. BoundInv'
    <3>1. \A i \in 1 .. Len(queue) : durable + Len(batch) + i \in Nat /\ durable + Len(batch) + i >= ckpt'
      BY <1>1, <2>4 DEF m
    <3> QED BY <1>1, <2>3, <2>13, <2>14, <3>1 DEF Live, BoundInv
  <2> QED BY <2>7, <2>8, <2>9, <2>10, <2>11, <2>12, <2>15, <2>16 DEF IndInv, Live
<1> QED BY <1>3, <1>4

LEMMA AcknowledgeStep ==
  ASSUME IndInv, Acknowledge PROVE IndInv'
<1>0. pc = "applied"
  BY DEF Acknowledge
<1> DEFINE m == Len(batch)
           n == Len(queue)
           lsn == Last(batch).lsn
<1>1. /\ Types /\ LogInv /\ TargetInv /\ WhyInv /\ Live
      /\ wal \in Seq(Seq(Change)) /\ Len(wal) \in Nat /\ queue \in Seq(Tx) /\ batch \in Seq(Tx)
      /\ n \in Nat /\ m \in Nat /\ durable \in Nat /\ base \in Nat /\ ckpt \in Nat
      /\ ckpt <= Len(wal) /\ next \in Nat
      /\ next = durable + m + n + 1
  BY <1>0, LiveFacts
<1>2. batch # <<>> /\ ckpt = durable + m /\ m # 0
  <2>1. batch # <<>> /\ ckpt = durable + m
    BY <1>0, <1>1 DEF Live, PositionInv
  <2> QED BY <1>1, <2>1
<1>3. lsn = ckpt /\ m \in 1 .. m
  <2>1. m \in 1 .. m
    BY <1>1, <1>2
  <2>2. batch[m].lsn = durable + m
    BY <1>1, <2>1 DEF Live, PositionInv
  <2> QED BY <1>2, <2>1, <2>2 DEF Last
<1>4. delivered = [i \in 1 .. m + n |-> durable + i]
  BY <1>1 DEF Live, PositionInv
<1> HIDE DEF m, n, lsn
<1>5. lsn >= durable /\ lsn \in Range(delivered)
  <2>1. m \in 1 .. m + n /\ delivered[m] = ckpt
    BY <1>1, <1>2, <1>3, <1>4
  <2> QED BY <1>1, <1>2, <1>3, <1>4, <2>1 DEF Range
<1>6. /\ durable' = ckpt /\ confirmed' = ckpt
      /\ delivered' = Outstanding(ckpt)
      /\ pc' = "streaming" /\ batch' = <<>>
      /\ UNCHANGED <<wal, catalog, next, at, announced, decoder, assembler, queue, why,
                     bound, base, ckpt, applied>>
  BY <1>3, <1>5 DEF Acknowledge, source, sender, target, lsn
<1>7. delivered' = [i \in 1 .. n |-> ckpt + i]
  <2> DEFINE later == {i \in DOMAIN delivered : delivered[i] > ckpt}
  <2>1. Outstanding(ckpt) = IF later = {} THEN <<>> ELSE SubSeq(delivered, Min(later), Len(delivered))
    BY DEF Outstanding
  <2>2. later = m + 1 .. m + n
    BY <1>1, <1>2, <1>4
  <2>30. m \in Nat /\ n \in Nat /\ m + n \in Nat /\ durable \in Nat
    BY <1>1
  <2>3. delivered \in Seq(Nat) /\ Len(delivered) = m + n
    BY <1>4, <2>30
  <2> HIDE DEF later
  <2>4. CASE n = 0
    <3>1. later = {}
      BY <1>1, <2>2, <2>4
    <3> QED BY <1>6, <2>1, <2>4, <3>1
  <2>5. CASE n # 0
    <3>1. later # {} /\ m + 1 \in later /\ \A y \in later : m + 1 <= y
      BY <2>30, <2>2, <2>5
    <3>2. \A x \in later : (\A y \in later : x <= y) => x = m + 1
      BY <2>30, <2>2, <3>1
    <3>3. Min(later) = m + 1
      BY <3>1, <3>2 DEF Min
    <3>4. SubSeq(delivered, m + 1, m + n) = [i \in 1 .. n |-> ckpt + i]
      BY <1>1, <1>2, <1>4, <2>3
    <3> QED BY <1>6, <2>1, <2>3, <3>1, <3>3, <3>4
  <2> QED BY <2>4, <2>5
<1>8. Len(batch') = 0 /\ <<>> \in Seq(Tx)
  BY <1>6
<1>9. Types'
  <2>1. TypeOK
    BY <1>1 DEF Types
  <2>2. delivered' \in Seq(Nat)
    BY <1>1, <1>7
  <2>3. ckpt \in 0 .. Len(wal)
    BY <1>1
  <2>4. TypeOK'
    BY <1>6, <1>8, <2>1, <2>2, <2>3 DEF TypeOK
  <2> QED BY <1>1, <1>6, <2>4 DEF Types
<1>10. LogInv' /\ TargetInv'
  <2>1. confirmed' <= ckpt
    BY <1>1, <1>6
  <2> QED BY <1>6, <2>1, LogFrame, TargetFrame
<1>11. WhyInv'
  BY <1>0, <1>1, <1>6 DEF WhyInv
<1>12. \A i \in 1 .. n : durable + m + i = ckpt + 0 + i
  BY <1>1, <1>2
<1>13. PositionInv'
  <2>1. next = ckpt + 0 + n + 1 /\ 0 + n = n
    BY <1>1, <1>2
  <2>2. \A i \in 1 .. n : queue[i].lsn = durable + m + i
    BY <1>1 DEF Live, PositionInv, m, n
  <2> QED BY <1>6, <1>7, <1>8, <1>12, <2>1, <2>2 DEF PositionInv, n
<1>14. Seen' <=> Seen
  BY <1>6 DEF Seen
<1>15. SenderInv' /\ GenerationInv'
  BY <1>1, <1>6, <1>14 DEF Live, SenderInv, GenerationInv
<1>16. ContentInv'
  <2>1. \A i \in 1 .. n : Assembled(queue[i].changes, wal[durable + m + i])
    BY <1>1 DEF Live, ContentInv, m, n
  <2>2. \A i \in 2 .. Len(queue) : ~Isolated(queue[i])
    BY <1>1 DEF Live, ContentInv
  <2> QED BY <1>6, <1>8, <1>12, <2>1, <2>2 DEF ContentInv, Isolated, n
<1>17. BoundInv'
  <2>1. \A i \in 1 .. n : OneGeneration(queue[i].changes) \/ ~Clear(wal, ckpt, durable + m + i)
    BY <1>1 DEF Live, BoundInv, m, n
  <2>2. \A i \in 1 .. Len(queue') : OneGeneration(queue'[i].changes)
                                        \/ ~Clear(wal', ckpt', durable' + Len(batch') + i)
    BY <1>6, <1>8, <1>12, <2>1 DEF n
  <2>3. OneGeneration(assembler'.changes) \/ Seen'
    BY <1>1, <1>6, <1>14 DEF Live, BoundInv
  <2>4. 1 .. Len(batch') = {}
    BY <1>8
  <2> QED BY <2>2, <2>3, <2>4 DEF BoundInv
<1>18. SizeInv'
  BY <1>1, <1>6, RowCountEmpty, LimitsAssumption DEF Live, SizeInv, SizeOK
<1> QED BY <1>9, <1>10, <1>11, <1>13, <1>15, <1>16, <1>17, <1>18 DEF IndInv, Live

LEMMA KeepaliveStep ==
  ASSUME IndInv, Keepalive PROVE IndInv'
<1>0. Types /\ LogInv /\ TargetInv /\ WhyInv /\ Live /\ pc = "streaming"
  BY DEF IndInv, Keepalive
<1>1. UNCHANGED <<wal, catalog, next, at, announced, decoder, assembler, delivered, durable,
                  queue, batch, pc, why, bound, base, ckpt, applied>>
      /\ confirmed' = durable
  BY DEF Keepalive, StatusLsn, source, sender, adapter, batches, target
<1>2. Types'
  BY <1>0, <1>1 DEF Types, TypeOK
<1>3. ckpt = durable /\ ckpt \in Nat
  BY <1>0 DEF Live, PositionInv, Types, TypeOK
<1>4. LogInv' /\ TargetInv' /\ WhyInv'
  BY <1>0, <1>1, <1>3 DEF LogInv, TargetInv, WhyInv, AppliedIsLog
<1>5. Seen' <=> Seen
  BY <1>1 DEF Seen
<1>6. PositionInv' /\ SenderInv' /\ ContentInv' /\ SizeInv'
  BY <1>0, <1>1 DEF Live, PositionInv, SenderInv, ContentInv, SizeInv
<1>7. GenerationInv' /\ BoundInv'
  BY <1>0, <1>1, <1>5 DEF Live, GenerationInv, BoundInv
<1> QED BY <1>2, <1>4, <1>6, <1>7 DEF IndInv, Live

-----------------------------------------------------------------------------
(* The theorems. *)

LEMMA StutterStep ==
  ASSUME IndInv, UNCHANGED vars PROVE IndInv'
<1>1. UNCHANGED <<wal, catalog, confirmed, next, at, announced, decoder, assembler, delivered, durable,
                  queue, batch, pc, why, bound, base, ckpt, applied>>
  BY DEF vars, source, sender, adapter, batches, target
<1>2. Types' /\ LogInv' /\ TargetInv' /\ WhyInv'
  BY <1>1 DEF IndInv, Types, TypeOK, LogInv, TargetInv, WhyInv, AppliedIsLog
<1>3. Seen' <=> Seen
  BY <1>1 DEF Seen
<1>4. Live => PositionInv' /\ SenderInv' /\ ContentInv' /\ SizeInv'
  BY <1>1 DEF Live, PositionInv, SenderInv, ContentInv, SizeInv, Isolated
<1>5. Live => GenerationInv' /\ BoundInv'
  BY <1>1, <1>3 DEF Live, GenerationInv, BoundInv
<1> QED BY <1>1, <1>2, <1>4, <1>5 DEF IndInv, Live

LEMMA NextInv == IndInv /\ [Next]_vars => IndInv'
<1> SUFFICES ASSUME IndInv, [Next]_vars PROVE IndInv'
  OBVIOUS
<1>1. CASE SourceCommit
  BY <1>1, SourceCommitStep
<1>2. CASE Connect
  BY <1>2, ConnectStep
<1>3. CASE Rebuild
  BY <1>3, RebuildStep
<1>4. CASE Stop
  BY <1>4, StopStep
<1>5. CASE ReceiveBegin
  BY <1>5, BeginStep
<1>6. CASE ReceiveRelation
  BY <1>6, RelationStep
<1>7. CASE ReceiveChange
  BY <1>7, ChangeStep
<1>8. CASE ReceiveCommit
  BY <1>8, CommitStep
<1>9. CASE \E r \in Rel : Invalidate(r)
  BY <1>9, InvalidateStep
<1>10. CASE Flush
  BY <1>10, FlushStep
<1>11. CASE Apply
  BY <1>11, ApplyStep
<1>12. CASE Acknowledge
  BY <1>12, AcknowledgeStep
<1>13. CASE Keepalive
  BY <1>13, KeepaliveStep
<1>14. CASE UNCHANGED vars
  BY <1>14, StutterStep
<1> QED BY <1>1, <1>2, <1>3, <1>4, <1>5, <1>6, <1>7, <1>8, <1>9, <1>10, <1>11, <1>12, <1>13, <1>14
        DEF Next

\* The inductive invariant holds in every reachable state, for all tables, shapes,
\* logs and limits.
THEOREM StreamInvariant == Spec => []IndInv
<1>1. Init => IndInv
  BY InitInv
<1>2. IndInv /\ [Next]_vars => IndInv'
  BY NextInv
<1> QED BY <1>1, <1>2, PTL DEF Spec

\* Type correctness of the whole path from the walsender to the target.
THEOREM StreamTypes == Spec => []TypeOK
<1>1. IndInv => TypeOK
  BY DEF IndInv, Types
<1> QED BY <1>1, StreamInvariant, PTL

\* build_apply_request_scoped hands the target, for each table, exactly the rows
\* that committed from the snapshot to the checkpoint, in order, whatever was
\* batched, repeated, cancelled or restarted in between.
THEOREM AppliedIsLogHolds == Spec => []AppliedIsLog
<1>1. IndInv => AppliedIsLog
  BY DEF IndInv, TargetInv
<1> QED BY <1>1, StreamInvariant, PTL

\* The rows applied are rows of the log before the first barrier.
LEMMA OneShape == IndInv => OneShapePerGeneration
<1> SUFFICES ASSUME IndInv, NEW r \in Rel, NEW c \in Range(applied[r]) PROVE c.shape = bound[r]
  BY DEF OneShapePerGeneration
<1>1. wal \in Seq(Seq(Change)) /\ base \in Nat /\ ckpt \in Nat /\ base <= ckpt /\ ckpt <= Len(wal)
      /\ Len(wal) \in Nat /\ LogInv /\ Clear(wal, base, ckpt) /\ AppliedIsLog
  BY DEF IndInv, Types, TypeOK, TargetInv
<1> DEFINE Y == UNION {Range(wal[i]) : i \in base + 1 .. ckpt}
           p == SubSeq(wal, base + 1, ckpt)
<1>2. p \in Seq(Seq(Y))
  <2>1. p \in Seq(Seq(Change)) /\ Len(p) = ckpt - base
    BY <1>1
  <2>2. ASSUME NEW k \in 1 .. Len(p) PROVE p[k] \in Seq(Y)
    <3>1. p[k] = wal[base + k] /\ base + k \in base + 1 .. ckpt /\ wal[base + k] \in Seq(Change)
      BY <1>1, <2>1
    <3>2. Range(wal[base + k]) \subseteq Y
      BY <3>1
    <3> DEFINE w == wal[base + k]
    <3>3. w \in Seq(Range(w))
      <4>1. w \in Seq(Change)
        BY <3>1
      <4> HIDE DEF w
      <4>2. \A i \in 1 .. Len(w) : w[i] \in Range(w)
        BY <4>1 DEF Range
      <4> QED BY <4>1, <4>2
    <3> HIDE DEF Y, w
    <3>4. w \in Seq(Y)
      BY <3>2, <3>3 DEF w
    <3> QED BY <3>1, <3>4 DEF w
  <2> HIDE DEF p, Y
  <2> QED BY <2>1, <2>2
<1> HIDE DEF p, Y
<1>3. FlattenSeq(p) \in Seq(Y)
  BY <1>2, FlattenType
<1>4. Only(FlattenSeq(p), RowsOf(r)) \in Seq(Y \cap RowsOf(r))
  BY <1>3, OnlyType
<1>5. applied[r] \in Seq(Y \cap RowsOf(r))
  BY <1>1, <1>4 DEF AppliedIsLog, p
<1>6. c \in Y /\ c \in RowsOf(r)
  BY <1>5, RangeType
<1>7. PICK i \in base + 1 .. ckpt : c \in Range(wal[i])
  BY <1>6 DEF Y
<1>8. wal[i] \in Seq(Change) /\ i \in base + 1 .. Len(wal) /\ i - 1 \in Nat /\ base <= i - 1 /\ i - 1 <= ckpt
  BY <1>1
<1>9. PICK k \in 1 .. Len(wal[i]) : wal[i][k] = c
  BY <1>7, <1>8 DEF Range
<1>10. Clear(wal, base, i - 1)
  BY <1>1, <1>8, ClearJoin
<1>11. ClearTo(wal[i], k)
  BY <1>1, <1>8, <1>9 DEF Clear, ClearTo, Range
<1>12. OfTable(c) /\ c.rel = r
  BY <1>6 DEF RowsOf, Row, OfTable
<1> QED BY <1>1, <1>8, <1>9, <1>10, <1>11, <1>12 DEF LogInv

\* No row of another shape than its table's is ever applied: the barrier of
\* reject_schema_barriers comes first, on every connection.
THEOREM OneShapePerGenerationHolds == Spec => []OneShapePerGeneration
BY OneShape, StreamInvariant, PTL

\* decode and max_changes refuse a job only for what a transaction after the
\* checkpoint holds (messages and origins of other software, changes under another
\* replica identity, too many changes), push, the registry and
\* validate_acknowledgement never do, and a barrier stops the target right before its
\* own transaction.
THEOREM RefusesOnlyTheUnsupportedHolds == Spec => []RefusesOnlyTheUnsupported
<1>1. IndInv => RefusesOnlyTheUnsupported
  BY DEF IndInv, WhyInv, TargetInv, RefusesOnlyTheUnsupported
<1> QED BY <1>1, StreamInvariant, PTL

\* Positions and sizes together.
LEMMA OutstandingExact == IndInv => DeliveredIsOutstanding
<1> SUFFICES ASSUME IndInv, pc # "down" PROVE DeliveredIsOutstanding
  BY DEF DeliveredIsOutstanding
<1> DEFINE m == Len(batch)
           n == Len(queue)
           Lsns(txs) == [i \in DOMAIN txs |-> txs[i].lsn]
<1>1. Live /\ batch \in Seq(Tx) /\ queue \in Seq(Tx) /\ m \in Nat /\ n \in Nat /\ durable \in Nat
  BY LiveFacts
<1>2. Lsns(batch) = [i \in 1 .. m |-> durable + i] /\ Lsns(queue) = [i \in 1 .. n |-> durable + m + i]
  <2>1. DOMAIN batch = 1 .. m /\ DOMAIN queue = 1 .. n
    BY <1>1
  <2>2. /\ \A i \in 1 .. m : batch[i].lsn = durable + i
        /\ \A i \in 1 .. n : queue[i].lsn = durable + m + i
    BY <1>1 DEF Live, PositionInv
  <2> HIDE DEF m, n
  <2> QED BY <2>1, <2>2
<1>3. delivered = [i \in 1 .. m + n |-> durable + i]
  BY <1>1 DEF Live, PositionInv
<1> DEFINE a == Lsns(batch)
           b == Lsns(queue)
<1> HIDE DEF Lsns, m, n
<1>4. a \in Seq(Nat) /\ b \in Seq(Nat) /\ Len(a) = m /\ Len(b) = n
  BY <1>1, <1>2
<1>5. \A i \in 1 .. m : a[i] = durable + i
  BY <1>2
<1>6. \A i \in 1 .. n : b[i] = durable + m + i
  BY <1>2
<1> HIDE DEF a, b
<1>7. delivered = a \o b
  <2>0. m \in Nat /\ n \in Nat
    BY <1>1
  <2>1. a \o b \in Seq(Nat) /\ DOMAIN (a \o b) = 1 .. m + n
    BY <1>4, <2>0
  <2>2. ASSUME NEW i \in 1 .. m + n PROVE (a \o b)[i] = durable + i
    <3>1. CASE i <= m
      BY <1>1, <1>4, <1>5, <3>1
    <3>2. CASE i > m
      <4>1. (a \o b)[i] = b[i - m] /\ i - m \in 1 .. n
        BY <1>1, <1>4, <3>2
      <4>2. durable + m + (i - m) = durable + i
        BY <1>1
      <4> QED BY <1>6, <4>1, <4>2
    <3>3. i <= m \/ i > m
      BY <2>0
    <3> QED BY <3>1, <3>2, <3>3
  <2> DEFINE u == a \o b
  <2>3. u = [i \in DOMAIN u |-> u[i]]
    <3>1. u \in Seq(Nat)
      BY <2>1
    <3> HIDE DEF u
    <3> QED BY <3>1
  <2> HIDE DEF u
  <2>4. u = [i \in 1 .. m + n |-> durable + i]
    BY <2>1, <2>2, <2>3 DEF u
  <2> QED BY <1>3, <2>4 DEF u
<1>8. SizeInv
  BY <1>1 DEF Live
<1> QED BY <1>7, <1>8 DEF DeliveredIsOutstanding, SizeInv, SizeOK, a, b, Lsns

\* acknowledge leaves exactly the transactions in the batcher in delivered_commits,
\* and the batcher keeps within its limits.
THEOREM DeliveredIsOutstandingHolds == Spec => []DeliveredIsOutstanding
BY OutstandingExact, StreamInvariant, PTL
=============================================================================
