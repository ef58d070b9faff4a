------------------------- MODULE TypeEvolutionProofs -------------------------
(***************************************************************************)
(* Proofs about TypeEvolution: the planned statements lead to the labels of *)
(* the snapshot, and what can be followed is not refused, for every set of  *)
(* labels, every number of them and every history of the source's type.     *)
(***************************************************************************)
EXTENDS TypeEvolution, SequenceTheorems, WellFoundedInduction, TLAPS

-----------------------------------------------------------------------------
(* Induction and recursive functions. *)

\* A set of naturals with 0 and all successors is all of them.
LEMMA SetInduction ==
  ASSUME NEW P, 0 \in P, \A n \in Nat : n \in P => n + 1 \in P
  PROVE  Nat \subseteq P
<1> DEFINE T == Nat \ P
<1> SUFFICES ASSUME T # {} PROVE FALSE
  OBVIOUS
<1>1. PICK m \in T : \A y \in T : ~ (<<y, m>> \in OpToRel(<, Nat))
  BY NatLessThanWellFounded, WFMin
<1>2. \A y \in T : y < m => <<y, m>> \in OpToRel(<, Nat)
  BY DEF OpToRel
<1>3. m # 0 /\ m - 1 \in Nat /\ m - 1 < m
  OBVIOUS
<1>4. m - 1 \in P
  BY <1>1, <1>2, <1>3
<1> QED BY <1>3, <1>4

\* f begins with x0 and goes on with step.
Proceeds(f, x0, step, n) ==
  /\ f = [i \in 0 .. n |-> f[i]]
  /\ f[0] = x0 /\ \A i \in 1 .. n : f[i] = step[<<i, f[i - 1]>>]

\* A function that is defined step by step exists.
LEMMA RecursionExists ==
  ASSUME NEW x0, NEW step, NEW n \in Nat
  PROVE  \E f : Proceeds(f, x0, step, n)
<1> DEFINE P == {k \in Nat : \E f : Proceeds(f, x0, step, k)}
<1>1. 0 \in P
  <2> DEFINE f == [i \in 0 .. 0 |-> x0]
  <2>1. Proceeds(f, x0, step, 0)
    BY DEF Proceeds
  <2> QED BY <2>1
<1>2. ASSUME NEW k \in Nat, k \in P PROVE k + 1 \in P
  <2>1. PICK f : Proceeds(f, x0, step, k)
    BY <1>2
  <2> DEFINE v == step[<<k + 1, f[k]>>]
             g == [i \in 0 .. k + 1 |-> IF i <= k THEN f[i] ELSE v]
  <2> HIDE DEF v
  <2>2. g = [i \in 0 .. k + 1 |-> g[i]] /\ g[0] = x0
    BY <2>1 DEF Proceeds
  <2>3. ASSUME NEW i \in 1 .. k + 1 PROVE g[i] = step[<<i, g[i - 1]>>]
    <3>1. CASE i <= k
      <4>1. g[i] = f[i] /\ g[i - 1] = f[i - 1] /\ i \in 1 .. k
        BY <3>1
      <4> HIDE DEF g
      <4> QED BY <4>1, <2>1 DEF Proceeds
    <3>2. CASE i = k + 1
      <4>1. g[i] = v /\ g[i - 1] = f[k]
        BY <3>2
      <4> HIDE DEF g
      <4> QED BY <4>1, <3>2 DEF v
    <3> QED BY <3>1, <3>2
  <2> HIDE DEF g
  <2>4. Proceeds(g, x0, step, k + 1)
    BY <2>2, <2>3 DEF Proceeds
  <2> QED BY <2>4
<1> HIDE DEF P
<1>3. n \in P
  BY <1>1, <1>2, SetInduction
<1> QED BY <1>3 DEF P

\* Its values are where its steps lead: a loop invariant, as a family of sets.
LEMMA RecursionStays ==
  ASSUME NEW x0, NEW step, NEW n \in Nat, NEW f, Proceeds(f, x0, step, n),
         NEW J, x0 \in J[0],
         \A i \in 1 .. n : \A x \in J[i - 1] : step[<<i, x>>] \in J[i]
  PROVE  \A i \in 0 .. n : f[i] \in J[i]
<1> DEFINE P == {k \in Nat : k <= n => f[k] \in J[k]}
<1>1. 0 \in P
  BY DEF Proceeds
<1>2. ASSUME NEW k \in Nat, k \in P PROVE k + 1 \in P
  <2> SUFFICES ASSUME k + 1 <= n PROVE f[k + 1] \in J[k + 1]
    OBVIOUS
  <2>1. k + 1 \in 1 .. n /\ (k + 1) - 1 = k /\ f[k] \in J[k]
    BY <1>2
  <2>2. f[k + 1] = step[<<k + 1, f[k]>>]
    BY <2>1 DEF Proceeds
  <2>3. step[<<k + 1, f[k]>>] \in J[k + 1]
    BY <2>1
  <2> QED BY <2>2, <2>3
<1> HIDE DEF P
<1>3. Nat \subseteq P
  BY <1>1, <1>2, SetInduction
<1> QED BY <1>3 DEF P

-----------------------------------------------------------------------------
(* Labels, and the statements on them. *)

\* Lists of different labels.
Labels == {d \in Seq(Label) : IsInjective(d)}

\* ALTER TYPE statements.
Statement == [kind : {"before"}, label : Label, before : Label]
             \cup [kind : {"append"}, label : Label]
             \cup [kind : {"rename"}, from : Label, label : Label]

\* What InsertAt returns, by position.
LEMMA InsertAtIs ==
  ASSUME NEW s \in Seq(Label), NEW i \in 1 .. Len(s) + 1, NEW e \in Label
  PROVE  /\ InsertAt(s, i, e) \in Seq(Label)
         /\ Len(InsertAt(s, i, e)) = Len(s) + 1
         /\ \A k \in 1 .. Len(s) + 1 :
              InsertAt(s, i, e)[k] = IF k < i THEN s[k] ELSE IF k = i THEN e ELSE s[k - 1]
<1> DEFINE a == SubSeq(s, 1, i - 1)
           b == SubSeq(s, i, Len(s))
           ae == a \o <<e>>
           t == ae \o b
<1>1. /\ a \in Seq(Label) /\ Len(a) = i - 1
      /\ \A k \in 1 .. i - 1 : a[k] = s[k]
  OBVIOUS
<1>2. /\ b \in Seq(Label) /\ Len(b) = Len(s) - i + 1
      /\ \A k \in 1 .. Len(s) - i + 1 : b[k] = s[i + k - 1]
  OBVIOUS
<1> HIDE DEF a, b
<1>3. /\ ae \in Seq(Label) /\ Len(ae) = i /\ ae[i] = e
      /\ \A k \in 1 .. i - 1 : ae[k] = a[k]
  BY <1>1
<1> HIDE DEF ae
<1>4. /\ t \in Seq(Label) /\ Len(t) = Len(s) + 1
      /\ \A k \in 1 .. i : t[k] = ae[k]
      /\ \A k \in i + 1 .. Len(s) + 1 : t[k] = b[k - i]
  <2>1. t \in Seq(Label) /\ Len(t) = Len(ae) + Len(b)
    BY <1>2, <1>3, ConcatProperties
  <2>2. \A k \in 1 .. Len(ae) + Len(b) :
          t[k] = IF k <= Len(ae) THEN ae[k] ELSE b[k - Len(ae)]
    <3>1. ae \in Seq(Label) /\ b \in Seq(Label)
      BY <1>2, <1>3
    <3> QED BY ONLY <3>1, ConcatProperties
  <2> HIDE DEF t
  <2>3. Len(ae) = i /\ Len(ae) + Len(b) = Len(s) + 1
    BY <1>2, <1>3
  <2> QED BY <2>1, <2>2, <2>3
<1>5. InsertAt(s, i, e) = t
  BY DEF InsertAt, a, b, ae
<1> HIDE DEF t
<1>6. ASSUME NEW k \in 1 .. Len(s) + 1
      PROVE  t[k] = IF k < i THEN s[k] ELSE IF k = i THEN e ELSE s[k - 1]
  <2>1. CASE k < i
    BY <1>1, <1>3, <1>4, <2>1
  <2>2. CASE k = i
    BY <1>3, <1>4, <2>2
  <2>3. CASE k > i
    <3>1. k - i \in 1 .. Len(s) - i + 1 /\ i + (k - i) - 1 = k - 1
      BY <2>3
    <3>2. b[k - i] = s[k - 1]
      BY <1>2, <3>1
    <3> QED BY <1>4, <2>3, <3>2
  <2> QED BY <2>1, <2>2, <2>3
<1> QED BY <1>4, <1>5, <1>6

\* An added label that is new keeps the labels different.
LEMMA InsertAtInjective ==
  ASSUME NEW s \in Labels, NEW i \in 1 .. Len(s) + 1, NEW e \in Label, e \notin Range(s)
  PROVE  InsertAt(s, i, e) \in Labels
<1> DEFINE t == InsertAt(s, i, e)
<1>0. s \in Seq(Label) /\ \A x, y \in 1 .. Len(s) : s[x] = s[y] => x = y
  BY DEF Labels, IsInjective
<1>1. /\ t \in Seq(Label) /\ Len(t) = Len(s) + 1
      /\ \A k \in 1 .. Len(s) + 1 :
           t[k] = IF k < i THEN s[k] ELSE IF k = i THEN e ELSE s[k - 1]
  BY <1>0, InsertAtIs
<1> HIDE DEF t
<1>2. \A x \in 1 .. Len(s) : s[x] # e
  BY <1>0 DEF Range
<1>3. ASSUME NEW x \in 1 .. Len(s) + 1, NEW y \in 1 .. Len(s) + 1, t[x] = t[y], x < y
      PROVE  FALSE
  <2>1. CASE y < i
    BY <1>0, <1>1, <1>3, <2>1
  <2>2. CASE y = i
    BY <1>1, <1>2, <1>3, <2>2
  <2>3. CASE y > i /\ x < i
    <3>1. t[x] = s[x] /\ t[y] = s[y - 1] /\ x \in 1 .. Len(s) /\ y - 1 \in 1 .. Len(s)
      BY <1>1, <2>3
    <3>2. x = y - 1
      BY <1>0, <1>3, <3>1
    <3> QED BY <2>3, <3>2
  <2>4. CASE y > i /\ x = i
    BY <1>1, <1>2, <1>3, <2>4
  <2>5. CASE y > i /\ x > i
    <3>1. t[x] = s[x - 1] /\ t[y] = s[y - 1] /\ x - 1 \in 1 .. Len(s) /\ y - 1 \in 1 .. Len(s)
      BY <1>1, <2>5
    <3>2. x - 1 = y - 1
      BY <1>0, <1>3, <3>1
    <3> QED BY <1>3, <3>2
  <2> QED BY <2>1, <2>2, <2>3, <2>4, <2>5
<1>4. \A x, y \in 1 .. Len(s) + 1 : t[x] = t[y] => x = y
  BY <1>3
<1> QED BY <1>1, <1>4 DEF Labels, IsInjective, t

\* Where a label is.
LEMMA PositionIs ==
  ASSUME NEW s \in Seq(Label), NEW l \in Range(s)
  PROVE  Position(s, l) \in 1 .. Len(s) /\ s[Position(s, l)] = l
<1>1. \E i \in DOMAIN s : s[i] = l
  BY DEF Range
<1> QED BY <1>1 DEF Position

LEMMA PositionOf ==
  ASSUME NEW s \in Labels, NEW i \in 1 .. Len(s)
  PROVE  s[i] \in Range(s) /\ Position(s, s[i]) = i
<1>0. s \in Seq(Label) /\ \A x, y \in 1 .. Len(s) : s[x] = s[y] => x = y
  BY DEF Labels, IsInjective
<1>1. s[i] \in Range(s)
  BY <1>0 DEF Range
<1>2. Position(s, s[i]) \in 1 .. Len(s) /\ s[Position(s, s[i])] = s[i]
  BY <1>0, <1>1, PositionIs
<1> QED BY <1>0, <1>1, <1>2

\* What ReplaceAt returns, by position.
LEMMA ReplaceAtIs ==
  ASSUME NEW s \in Seq(Label), NEW i \in 1 .. Len(s), NEW e \in Label
  PROVE  /\ ReplaceAt(s, i, e) \in Seq(Label)
         /\ Len(ReplaceAt(s, i, e)) = Len(s)
         /\ \A k \in 1 .. Len(s) : ReplaceAt(s, i, e)[k] = IF k = i THEN e ELSE s[k]
<1> DEFINE t == [s EXCEPT ![i] = e]
<1>1. t \in [1 .. Len(s) -> Label]
  OBVIOUS
<1>2. \A k \in 1 .. Len(s) : t[k] = IF k = i THEN e ELSE s[k]
  OBVIOUS
<1> HIDE DEF t
<1>3. t \in Seq(Label) /\ Len(t) = Len(s)
  BY <1>1
<1> QED BY <1>2, <1>3 DEF ReplaceAt, t

\* A statement that is accepted gives a list of labels again.
LEMMA AlteredIsSeq ==
  ASSUME NEW s \in Seq(Label), NEW a \in Statement, CanAlter(s, a)
  PROVE  Altered(s, a) \in Seq(Label)
<1>1. CASE a \in [kind : {"before"}, label : Label, before : Label]
  <2>1. a.kind = "before" /\ a.label \in Label /\ a.before \in Range(s)
    BY <1>1 DEF CanAlter
  <2>2. Position(s, a.before) \in 1 .. Len(s) + 1
    BY <2>1, PositionIs
  <2>3. InsertAt(s, Position(s, a.before), a.label) \in Seq(Label)
    BY <2>1, <2>2, InsertAtIs
  <2> QED BY <2>1, <2>3 DEF Altered
<1>2. CASE a \in [kind : {"append"}, label : Label]
  <2>1. a.kind = "append" /\ a.label \in Label
    BY <1>2
  <2> QED BY <2>1 DEF Altered
<1>3. CASE a \in [kind : {"rename"}, from : Label, label : Label]
  <2>1. a.kind = "rename" /\ a.label \in Label /\ a.from \in Range(s)
    BY <1>3 DEF CanAlter
  <2>2. ReplaceAt(s, Position(s, a.from), a.label) \in Seq(Label)
    BY <2>1, PositionIs, ReplaceAtIs
  <2> QED BY <2>1, <2>2 DEF Altered
<1> QED BY <1>1, <1>2, <1>3 DEF Statement

-----------------------------------------------------------------------------
(* AlterType. *)

\* f is the recursive function in the definition of AlterType.
IsAfter(f, s, list) ==
  f = [i \in 0 .. Len(list) |->
         IF i = 0 THEN s
         ELSE IF f[i - 1] # NoType /\ CanAlter(f[i - 1], list[i])
         THEN Altered(f[i - 1], list[i])
         ELSE NoType]

\* There is such a function.
LEMMA AfterExists ==
  ASSUME NEW s \in Seq(Label), NEW list \in Seq(Statement)
  PROVE  \E f : IsAfter(f, s, list)
<1> DEFINE X == Seq(Label) \cup {NoType}
           n == Len(list)
           To(i, x) == IF x # NoType /\ CanAlter(x, list[i])
                       THEN Altered(x, list[i]) ELSE NoType
           step == [q \in Nat \X X |-> To(q[1], q[2])]
           J == [i \in 0 .. n |-> X]
<1>1. ASSUME NEW i \in 1 .. n, NEW x \in X PROVE To(i, x) \in X
  <2>1. CASE x # NoType /\ CanAlter(x, list[i])
    <3>1. x \in Seq(Label) /\ list[i] \in Statement
      BY <2>1
    <3> QED BY <2>1, <3>1, AlteredIsSeq
  <2> QED BY <2>1
<1>2. \A i \in Nat, x \in X : step[<<i, x>>] = To(i, x)
  OBVIOUS
<1>3. s \in X /\ n \in Nat
  OBVIOUS
<1>4. \A i \in 0 .. n : J[i] = X
  OBVIOUS
<1> HIDE DEF step, X, n, To, J
<1>5. PICK f : Proceeds(f, s, step, n)
  BY <1>3, RecursionExists
<1>6. s \in J[0] /\ \A i \in 1 .. n : \A x \in J[i - 1] : step[<<i, x>>] \in J[i]
  <2>1. s \in J[0]
    BY <1>3, <1>4
  <2>2. ASSUME NEW i \in 1 .. n, NEW x \in J[i - 1] PROVE step[<<i, x>>] \in J[i]
    <3>1. i \in Nat /\ J[i] = X /\ J[i - 1] = X
      BY <1>3, <1>4
    <3> QED BY <1>1, <1>2, <3>1
  <2> QED BY <2>1, <2>2
<1>7. \A i \in 0 .. n : f[i] \in J[i]
  BY <1>3, <1>5, <1>6, RecursionStays
<1>8. ASSUME NEW i \in 1 .. n PROVE f[i] = To(i, f[i - 1])
  <2>1. i \in Nat /\ i - 1 \in 0 .. n
    BY <1>3
  <2>2. f[i - 1] \in X
    BY <1>4, <1>7, <2>1
  <2> QED BY <1>2, <1>5, <2>1, <2>2 DEF Proceeds
<1>9. ASSUME NEW i \in 0 .. n
      PROVE  f[i] = IF i = 0 THEN s
                    ELSE IF f[i - 1] # NoType /\ CanAlter(f[i - 1], list[i])
                    THEN Altered(f[i - 1], list[i])
                    ELSE NoType
  <2>1. CASE i = 0
    BY <1>5, <2>1 DEF Proceeds
  <2>2. CASE i # 0
    <3>1. i \in 1 .. n
      BY <1>3, <2>2
    <3> QED BY <1>8, <2>2, <3>1 DEF To
  <2> QED BY <2>1, <2>2
<1>10. f = [i \in 0 .. n |-> f[i]]
  BY <1>5 DEF Proceeds
<1>11. IsAfter(f, s, list)
  BY <1>9, <1>10 DEF IsAfter, n
<1> QED BY <1>11

\* AlterType is the last value of such a function.
LEMMA AlterTypeIs ==
  ASSUME NEW s \in Seq(Label), NEW list \in Seq(Statement)
  PROVE  \E f : IsAfter(f, s, list) /\ AlterType(s, list) = f[Len(list)]
<1> DEFINE U == CHOOSE f : IsAfter(f, s, list)
<1>1. IsAfter(U, s, list)
  BY AfterExists
<1>2. AlterType(s, list) = U[Len(list)]
  BY DEF AlterType, IsAfter
<1> QED BY <1>1, <1>2

LEMMA AlterTypeEmpty ==
  ASSUME NEW s \in Seq(Label)
  PROVE  AlterType(s, <<>>) = s
<1>1. <<>> \in Seq(Statement) /\ Len(<<>>) = 0
  OBVIOUS
<1>2. PICK f : IsAfter(f, s, <<>>) /\ AlterType(s, <<>>) = f[Len(<<>>)]
  BY <1>1, AlterTypeIs
<1> QED BY <1>1, <1>2 DEF IsAfter

\* One more statement is executed on what the others left.
LEMMA AlterTypeAppend ==
  ASSUME NEW s \in Seq(Label), NEW list \in Seq(Statement), NEW a \in Statement,
         AlterType(s, list) # NoType, CanAlter(AlterType(s, list), a)
  PROVE  AlterType(s, Append(list, a)) = Altered(AlterType(s, list), a)
<1> DEFINE n == Len(list)
           more == Append(list, a)
<1>1. /\ more \in Seq(Statement) /\ Len(more) = n + 1 /\ more[n + 1] = a /\ n \in Nat
      /\ \A i \in 1 .. n : more[i] = list[i]
  OBVIOUS
<1> HIDE DEF more
<1>2. PICK f : IsAfter(f, s, list) /\ AlterType(s, list) = f[n]
  BY AlterTypeIs
<1>3. PICK g : IsAfter(g, s, more) /\ AlterType(s, more) = g[n + 1]
  BY <1>1, AlterTypeIs
<1> DEFINE P == {i \in Nat : i <= n => f[i] = g[i]}
<1>4. 0 \in P
  BY <1>1, <1>2, <1>3 DEF IsAfter
<1>5. ASSUME NEW i \in Nat, i \in P PROVE i + 1 \in P
  <2> SUFFICES ASSUME i + 1 <= n PROVE f[i + 1] = g[i + 1]
    OBVIOUS
  <2>1. /\ i + 1 \in 0 .. n /\ i + 1 \in 0 .. n + 1 /\ i + 1 # 0 /\ (i + 1) - 1 = i
        /\ f[i] = g[i] /\ more[i + 1] = list[i + 1]
    BY <1>1, <1>5
  <2>2. f[i + 1] = IF f[i] # NoType /\ CanAlter(f[i], list[i + 1])
                   THEN Altered(f[i], list[i + 1]) ELSE NoType
    BY <1>2, <2>1 DEF IsAfter
  <2>3. g[i + 1] = IF g[i] # NoType /\ CanAlter(g[i], more[i + 1])
                   THEN Altered(g[i], more[i + 1]) ELSE NoType
    BY <1>1, <1>3, <2>1 DEF IsAfter
  <2> QED BY <2>1, <2>2, <2>3
<1> HIDE DEF P
<1>6. Nat \subseteq P
  BY <1>4, <1>5, SetInduction
<1>61. f[n] = g[n]
  BY <1>1, <1>6 DEF P
<1>7. n + 1 \in 0 .. n + 1 /\ n + 1 # 0 /\ (n + 1) - 1 = n
  BY <1>1
<1>8. g[n + 1] = IF g[n] # NoType /\ CanAlter(g[n], more[n + 1])
                 THEN Altered(g[n], more[n + 1]) ELSE NoType
  BY <1>1, <1>3, <1>7 DEF IsAfter
<1> QED BY <1>1, <1>2, <1>3, <1>61, <1>8 DEF more

-----------------------------------------------------------------------------
(* Subsequences. *)

\* at is the embedding in the definition of IsSubsequence.
Embeds(at, s, t) ==
  /\ at \in [1 .. Len(s) -> 1 .. Len(t)]
  /\ \A i \in 1 .. Len(s) : t[at[i]] = s[i]
  /\ \A i, j \in 1 .. Len(s) : i < j => at[i] < at[j]

LEMMA SubsequenceIs ==
  ASSUME NEW s \in Seq(Label), NEW t \in Seq(Label)
  PROVE  IsSubsequence(s, t) <=> \E at : Embeds(at, s, t)
<1>1. DOMAIN s = 1 .. Len(s) /\ DOMAIN t = 1 .. Len(t)
  OBVIOUS
<1> QED BY <1>1 DEF IsSubsequence, Embeds

LEMMA SubsequenceReflexive ==
  ASSUME NEW s \in Seq(Label)
  PROVE  IsSubsequence(s, s)
<1> DEFINE at == [i \in 1 .. Len(s) |-> i]
<1>1. Embeds(at, s, s)
  BY DEF Embeds
<1> HIDE DEF at
<1> QED BY <1>1, SubsequenceIs

LEMMA SubsequenceTransitive ==
  ASSUME NEW s \in Seq(Label), NEW t \in Seq(Label), NEW u \in Seq(Label),
         IsSubsequence(s, t), IsSubsequence(t, u)
  PROVE  IsSubsequence(s, u)
<1>1. PICK a : Embeds(a, s, t)
  BY SubsequenceIs
<1>2. PICK b : Embeds(b, t, u)
  BY SubsequenceIs
<1> DEFINE at == [i \in 1 .. Len(s) |-> b[a[i]]]
<1>3. \A i \in 1 .. Len(s) : a[i] \in 1 .. Len(t) /\ t[a[i]] = s[i]
  BY <1>1 DEF Embeds
<1>4. \A k \in 1 .. Len(t) : b[k] \in 1 .. Len(u) /\ u[b[k]] = t[k]
  BY <1>2 DEF Embeds
<1>5. at \in [1 .. Len(s) -> 1 .. Len(u)] /\ \A i \in 1 .. Len(s) : u[at[i]] = s[i]
  BY <1>3, <1>4
<1>6. ASSUME NEW i \in 1 .. Len(s), NEW j \in 1 .. Len(s), i < j PROVE at[i] < at[j]
  <2>1. a[i] < a[j]
    BY <1>1, <1>6 DEF Embeds
  <2>2. b[a[i]] < b[a[j]]
    BY <1>2, <1>3, <2>1 DEF Embeds
  <2> QED BY <2>2
<1> HIDE DEF at
<1>7. Embeds(at, s, u)
  BY <1>5, <1>6 DEF Embeds
<1> QED BY <1>7, SubsequenceIs

\* The labels before ADD VALUE are a subsequence of those after it.
LEMMA InsertAtExtends ==
  ASSUME NEW s \in Seq(Label), NEW p \in 1 .. Len(s) + 1, NEW e \in Label
  PROVE  IsSubsequence(s, InsertAt(s, p, e))
<1> DEFINE t == InsertAt(s, p, e)
           at == [i \in 1 .. Len(s) |-> IF i < p THEN i ELSE i + 1]
<1>1. /\ t \in Seq(Label) /\ Len(t) = Len(s) + 1
      /\ \A k \in 1 .. Len(s) + 1 :
           t[k] = IF k < p THEN s[k] ELSE IF k = p THEN e ELSE s[k - 1]
  BY InsertAtIs
<1> HIDE DEF t
<1>2. at \in [1 .. Len(s) -> 1 .. Len(t)]
  BY <1>1
<1>3. ASSUME NEW i \in 1 .. Len(s) PROVE t[at[i]] = s[i]
  <2>1. CASE i < p
    BY <1>1, <2>1
  <2>2. CASE i >= p
    <3>1. at[i] = i + 1 /\ i + 1 \in 1 .. Len(s) + 1 /\ (i + 1) - 1 = i
          /\ ~(i + 1 < p) /\ i + 1 # p
      BY <2>2
    <3>2. t[i + 1] = s[i]
      BY <1>1, <3>1
    <3> QED BY <3>1, <3>2
  <2> QED BY <2>1, <2>2
<1>4. \A i, j \in 1 .. Len(s) : i < j => at[i] < at[j]
  OBVIOUS
<1> HIDE DEF at
<1>5. Embeds(at, s, t)
  BY <1>2, <1>3, <1>4 DEF Embeds
<1> QED BY <1>1, <1>5, SubsequenceIs DEF t

-----------------------------------------------------------------------------
(* Additions. *)

Accumulator == [current : Seq(Label), statements : Seq(Statement)]

\* The loop of plan_enum_evolution after p positions: current has the desired
\* labels there, the rest of it is still to be found behind them, and it is
\* what the statements so far make of the existing labels.
AddedUpTo(acc, p, existing, desired) ==
  /\ acc \in Accumulator
  /\ acc.current \in Labels /\ p <= Len(acc.current)
  /\ \A i \in 1 .. p : acc.current[i] = desired[i]
  /\ IsSubsequence(acc.current, desired)
  /\ AlterType(existing, acc.statements) = acc.current

\* A label that is not at its position is in no other, so that it can be added.
LEMMA MissingIsNew ==
  ASSUME NEW cur \in Labels, NEW desired \in Labels, NEW p \in 1 .. Len(desired),
         p - 1 <= Len(cur), \A i \in 1 .. p - 1 : cur[i] = desired[i],
         NEW at, Embeds(at, cur, desired),
         ~(p <= Len(cur) /\ cur[p] = desired[p])
  PROVE  /\ desired[p] \notin Range(cur)
         /\ \A i \in 1 .. Len(cur) : IF i < p THEN at[i] = i ELSE at[i] > p
<1>0. /\ cur \in Seq(Label) /\ desired \in Seq(Label) /\ Len(cur) \in Nat /\ Len(desired) \in Nat
      /\ \A x, y \in 1 .. Len(desired) : desired[x] = desired[y] => x = y
  BY DEF Labels, IsInjective
<1>1. /\ \A i \in 1 .. Len(cur) : at[i] \in 1 .. Len(desired) /\ desired[at[i]] = cur[i]
      /\ \A i, j \in 1 .. Len(cur) : i < j => at[i] < at[j]
  BY DEF Embeds
<1>2. ASSUME NEW i \in 1 .. p - 1 PROVE i \in 1 .. Len(cur) /\ at[i] = i
  <2>1. i \in 1 .. Len(cur) /\ i \in 1 .. Len(desired)
    BY <1>0
  <2>2. desired[at[i]] = desired[i]
    BY <1>1, <2>1
  <2> QED BY <1>0, <1>1, <2>1, <2>2
<1>3. p <= Len(cur) => at[p] > p
  <2> SUFFICES ASSUME p <= Len(cur) PROVE at[p] > p
    OBVIOUS
  <2>1. p \in 1 .. Len(cur)
    BY <1>0
  <2>2. at[p] # p /\ at[p] \in 1 .. Len(desired)
    BY <1>1, <2>1
  <2>3. CASE p = 1
    BY <2>2, <2>3
  <2>4. CASE p # 1
    <3>1. p - 1 \in 1 .. p - 1 /\ p - 1 < p
      BY <2>4
    <3>2. at[p - 1] = p - 1 /\ p - 1 \in 1 .. Len(cur)
      BY <1>2, <3>1
    <3>3. at[p - 1] < at[p]
      BY <1>1, <2>1, <3>1, <3>2
    <3> QED BY <2>2, <3>2, <3>3
  <2> QED BY <2>3, <2>4
<1>4. ASSUME NEW i \in 1 .. Len(cur) PROVE IF i < p THEN at[i] = i ELSE at[i] > p
  <2>1. CASE i < p
    BY <1>2, <2>1
  <2>2. CASE i = p
    BY <1>3, <2>2
  <2>3. CASE i > p
    <3>1. p \in 1 .. Len(cur) /\ p < i
      BY <1>0, <2>3
    <3>2. at[p] < at[i] /\ at[p] > p
      BY <1>1, <1>3, <3>1
    <3> QED BY <1>1, <2>3, <3>1, <3>2
  <2> QED BY <2>1, <2>2, <2>3
<1>5. ASSUME NEW i \in 1 .. Len(cur), cur[i] = desired[p] PROVE FALSE
  <2>1. at[i] = p
    BY <1>0, <1>1, <1>5
  <2> QED BY <1>4, <2>1
<1> QED BY <1>0, <1>4, <1>5 DEF Range

\* One round of the loop.
LEMMA AddAtProceeds ==
  ASSUME NEW existing \in Labels, NEW desired \in Labels, NEW p \in 1 .. Len(desired),
         NEW acc, AddedUpTo(acc, p - 1, existing, desired)
  PROVE  AddedUpTo(AddAt(acc, p, desired[p]), p, existing, desired)
<1> DEFINE cur == acc.current
           list == acc.statements
           l == desired[p]
<1>0. /\ existing \in Seq(Label) /\ cur \in Seq(Label) /\ desired \in Seq(Label)
      /\ Len(cur) \in Nat /\ Len(desired) \in Nat /\ l \in Label
      /\ list \in Seq(Statement)
  BY DEF Labels, AddedUpTo, Accumulator
<1>1. /\ acc \in Accumulator /\ cur \in Labels /\ p - 1 <= Len(cur)
      /\ \A i \in 1 .. p - 1 : cur[i] = desired[i]
      /\ IsSubsequence(cur, desired) /\ AlterType(existing, list) = cur
  BY DEF AddedUpTo
<1> HIDE DEF cur, list, l
<1>2. CASE p <= Len(cur) /\ cur[p] = l
  <2>1. AddAt(acc, p, l) = acc
    BY <1>2 DEF AddAt, cur
  <2>2. \A i \in 1 .. p : cur[i] = desired[i]
    BY <1>1, <1>2 DEF l
  <2> QED BY <1>1, <1>2, <2>1, <2>2 DEF AddedUpTo, cur, list, l
<1>3. CASE ~(p <= Len(cur) /\ cur[p] = l)
  <2>1. PICK at : Embeds(at, cur, desired)
    BY <1>0, <1>1, SubsequenceIs
  <2>2. /\ l \notin Range(cur)
        /\ \A i \in 1 .. Len(cur) : IF i < p THEN at[i] = i ELSE at[i] > p
    BY <1>1, <1>3, <2>1, MissingIsNew DEF l
  <2>3. p \in 1 .. Len(cur) + 1
    BY <1>0, <1>1
  <2> DEFINE new == InsertAt(cur, p, l)
             a == IF p <= Len(cur) THEN [kind |-> "before", label |-> l, before |-> cur[p]]
                  ELSE [kind |-> "append", label |-> l]
             next == [current |-> new, statements |-> Append(list, a)]
  <2>4. AddAt(acc, p, l) = next
    BY <1>3 DEF AddAt, cur, list
  <2>5. /\ new \in Seq(Label) /\ Len(new) = Len(cur) + 1
        /\ \A k \in 1 .. Len(cur) + 1 :
             new[k] = IF k < p THEN cur[k] ELSE IF k = p THEN l ELSE cur[k - 1]
    BY <1>0, <2>3, InsertAtIs
  <2>6. new \in Labels
    BY <1>0, <1>1, <2>2, <2>3, InsertAtInjective
  <2>7. a \in Statement
    <3>1. CASE p <= Len(cur)
      <4>1. cur[p] \in Label
        BY <1>0, <3>1
      <4> QED BY <1>0, <3>1, <4>1 DEF Statement
    <3>2. CASE ~(p <= Len(cur))
      BY <1>0, <3>2 DEF Statement
    <3> QED BY <3>1, <3>2
  <2>8. CanAlter(cur, a) /\ Altered(cur, a) = new
    <3>1. CASE p <= Len(cur)
      <4>1. cur[p] \in Range(cur) /\ Position(cur, cur[p]) = p
        BY <1>1, <2>3, <3>1, PositionOf
      <4>2. a.kind = "before" /\ a.label = l /\ a.before = cur[p]
        BY <3>1
      <4> HIDE DEF a
      <4> QED BY <2>2, <4>1, <4>2 DEF CanAlter, Altered
    <3>2. CASE ~(p <= Len(cur))
      <4>1. a.kind = "append" /\ a.label = l
        BY <3>2
      <4>2. Append(cur, l) = new
        <5>1. p = Len(cur) + 1
          BY <1>0, <2>3, <3>2
        <5>2. \A k \in 1 .. Len(cur) + 1 : Append(cur, l)[k] = new[k]
          BY <1>0, <2>5, <5>1
        <5> HIDE DEF new
        <5> QED BY <1>0, <2>5, <5>2
      <4> HIDE DEF a, new
      <4> QED BY <2>2, <4>1, <4>2 DEF CanAlter, Altered
    <3> QED BY <3>1, <3>2
  <2> HIDE DEF new, a
  <2>9. AlterType(existing, Append(list, a)) = new
    <3>1. cur # NoType
      BY <1>0, TypesAssumption
    <3> QED BY <1>0, <1>1, <2>7, <2>8, <3>1, AlterTypeAppend
  <2>10. IsSubsequence(new, desired)
    <3> DEFINE b == [k \in 1 .. Len(cur) + 1 |->
                       IF k < p THEN k ELSE IF k = p THEN p ELSE at[k - 1]]
    <3>1. \A i \in 1 .. Len(cur) : at[i] \in 1 .. Len(desired) /\ desired[at[i]] = cur[i]
      BY <2>1 DEF Embeds
    <3>2. ASSUME NEW k \in 1 .. Len(cur) + 1
          PROVE  b[k] \in 1 .. Len(desired) /\ desired[b[k]] = new[k]
      <4>1. CASE k < p
        <5>1. k \in 1 .. Len(cur) /\ k \in 1 .. p - 1 /\ k \in 1 .. Len(desired)
          BY <1>0, <2>3, <4>1
        <5> QED BY <1>1, <2>5, <4>1, <5>1
      <4>2. CASE k = p
        BY <2>5, <4>2 DEF l
      <4>3. CASE k > p
        <5>1. k - 1 \in 1 .. Len(cur)
          BY <1>0, <2>3, <4>3
        <5>2. new[k] = cur[k - 1] /\ b[k] = at[k - 1]
          BY <2>5, <4>3
        <5> HIDE DEF b
        <5> QED BY <3>1, <5>1, <5>2
      <4> QED BY <1>0, <2>3, <4>1, <4>2, <4>3
    <3>3. ASSUME NEW i \in 1 .. Len(cur) + 1, NEW j \in 1 .. Len(cur) + 1, i < j
          PROVE  b[i] < b[j]
      <4>1. CASE j <= p
        BY <1>0, <2>3, <3>3, <4>1
      <4>2. CASE j > p /\ i <= p
        <5>1. j - 1 \in 1 .. Len(cur) /\ ~(j - 1 < p)
          BY <1>0, <2>3, <4>2
        <5>2. at[j - 1] > p /\ at[j - 1] \in 1 .. Len(desired)
          BY <2>2, <3>1, <5>1
        <5>3. b[i] = i /\ b[j] = at[j - 1]
          BY <2>3, <4>2
        <5> HIDE DEF b
        <5> QED BY <4>2, <5>2, <5>3
      <4>3. CASE i > p
        <5>1. i - 1 \in 1 .. Len(cur) /\ j - 1 \in 1 .. Len(cur) /\ i - 1 < j - 1
          BY <1>0, <2>3, <3>3, <4>3
        <5>2. at[i - 1] < at[j - 1]
          BY <2>1, <5>1 DEF Embeds
        <5>3. b[i] = at[i - 1] /\ b[j] = at[j - 1]
          BY <2>3, <3>3, <4>3
        <5> HIDE DEF b
        <5> QED BY <5>2, <5>3
      <4> QED BY <1>0, <2>3, <4>1, <4>2, <4>3
    <3>4. Embeds(b, new, desired)
      <4>1. b \in [1 .. Len(new) -> 1 .. Len(desired)]
        BY <2>5, <3>2
      <4> HIDE DEF b
      <4> QED BY <2>5, <3>2, <3>3, <4>1 DEF Embeds
    <3> HIDE DEF b
    <3> QED BY <1>0, <2>5, <3>4, SubsequenceIs
  <2>11. \A i \in 1 .. p : new[i] = desired[i]
    BY <1>0, <1>1, <2>3, <2>5 DEF l
  <2>12. p <= Len(new)
    BY <1>0, <2>3, <2>5
  <2>13. next \in Accumulator
    BY <1>0, <2>5, <2>7 DEF Accumulator
  <2> QED BY <2>4, <2>6, <2>9, <2>10, <2>11, <2>12, <2>13 DEF AddedUpTo, l
<1> QED BY <1>2, <1>3

\* f is the recursive function in the definition of Additions.
IsAdding(f, existing, desired) ==
  f = [p \in 0 .. Len(desired) |->
         IF p = 0 THEN [current |-> existing, statements |-> <<>>]
         ELSE AddAt(f[p - 1], p, desired[p])]

\* The additions that are planned lead from the existing to the desired labels.
LEMMA AdditionsReach ==
  ASSUME NEW existing \in Labels, NEW desired \in Labels, IsSubsequence(existing, desired)
  PROVE  AlterType(existing, Additions(existing, desired)) = desired
<1> DEFINE n == Len(desired)
           x0 == [current |-> existing, statements |-> <<>>]
           step == [q \in Nat \X Accumulator |-> AddAt(q[2], q[1], desired[q[1]])]
           J == [p \in 0 .. n |-> {acc \in Accumulator : AddedUpTo(acc, p, existing, desired)}]
<1>0. existing \in Seq(Label) /\ desired \in Seq(Label) /\ n \in Nat
  BY DEF Labels
<1>1. AddedUpTo(x0, 0, existing, desired)
  <2>1. x0 \in Accumulator
    BY <1>0 DEF Accumulator
  <2>2. AlterType(existing, <<>>) = existing
    BY <1>0, AlterTypeEmpty
  <2> QED BY <1>0, <2>1, <2>2 DEF AddedUpTo
<1>2. \A p \in Nat, x \in Accumulator : step[<<p, x>>] = AddAt(x, p, desired[p])
  OBVIOUS
<1>3. \A p \in 0 .. n : \A x : x \in J[p] <=> x \in Accumulator /\ AddedUpTo(x, p, existing, desired)
  OBVIOUS
<1> HIDE DEF n, x0, step, J
<1>4. x0 \in J[0] /\ \A p \in 1 .. n : \A x \in J[p - 1] : step[<<p, x>>] \in J[p]
  <2>1. x0 \in J[0]
    BY <1>0, <1>1, <1>3 DEF AddedUpTo
  <2>2. ASSUME NEW p \in 1 .. n, NEW x \in J[p - 1] PROVE step[<<p, x>>] \in J[p]
    <3>1. p \in Nat /\ p \in 0 .. n /\ p - 1 \in 0 .. n
      BY <1>0
    <3>2. x \in Accumulator /\ AddedUpTo(x, p - 1, existing, desired)
      BY <1>3, <3>1
    <3>3. AddedUpTo(AddAt(x, p, desired[p]), p, existing, desired)
      BY <3>2, AddAtProceeds DEF n
    <3>4. step[<<p, x>>] = AddAt(x, p, desired[p])
      BY <1>2, <3>1, <3>2
    <3> QED BY <1>3, <3>1, <3>3, <3>4 DEF AddedUpTo
  <2> QED BY <2>1, <2>2
<1>5. \E f : IsAdding(f, existing, desired)
  <2>1. PICK f : Proceeds(f, x0, step, n)
    BY <1>0, RecursionExists
  <2>2. \A p \in 0 .. n : f[p] \in J[p]
    BY <1>0, <1>4, <2>1, RecursionStays
  <2>3. ASSUME NEW p \in 0 .. n
        PROVE  f[p] = IF p = 0 THEN x0 ELSE AddAt(f[p - 1], p, desired[p])
    <3>1. CASE p = 0
      BY <2>1, <3>1 DEF Proceeds
    <3>2. CASE p # 0
      <4>1. p \in Nat /\ p \in 1 .. n /\ p - 1 \in 0 .. n
        BY <1>0, <3>2
      <4>2. f[p - 1] \in Accumulator
        BY <1>3, <2>2, <4>1
      <4> QED BY <1>2, <2>1, <3>2, <4>1, <4>2 DEF Proceeds
    <3> QED BY <3>1, <3>2
  <2>4. f = [p \in 0 .. n |-> f[p]]
    BY <2>1 DEF Proceeds
  <2>5. IsAdding(f, existing, desired)
    BY <2>3, <2>4 DEF IsAdding, n, x0
  <2> QED BY <2>5
<1> DEFINE U == CHOOSE f : IsAdding(f, existing, desired)
<1>6. IsAdding(U, existing, desired)
  BY <1>5
<1>7. Additions(existing, desired) = U[n].statements
  BY DEF Additions, IsAdding, n
<1> HIDE DEF U
<1> DEFINE P == {p \in Nat : p <= n => AddedUpTo(U[p], p, existing, desired)}
<1>8. 0 \in P
  BY <1>0, <1>1, <1>6 DEF IsAdding, x0, n
<1>9. ASSUME NEW p \in Nat, p \in P PROVE p + 1 \in P
  <2> SUFFICES ASSUME p + 1 <= n PROVE AddedUpTo(U[p + 1], p + 1, existing, desired)
    OBVIOUS
  <2>1. p + 1 \in 0 .. n /\ p + 1 # 0 /\ (p + 1) - 1 = p /\ p + 1 \in 1 .. Len(desired)
    BY <1>0 DEF n
  <2>2. U[p + 1] = AddAt(U[p], p + 1, desired[p + 1])
    BY <1>6, <2>1 DEF IsAdding, n
  <2>3. AddedUpTo(U[p], (p + 1) - 1, existing, desired)
    BY <1>0, <1>9, <2>1
  <2> QED BY <2>1, <2>2, <2>3, AddAtProceeds
<1> HIDE DEF P
<1>10. Nat \subseteq P
  BY <1>8, <1>9, SetInduction
<1>11. AddedUpTo(U[n], n, existing, desired)
  BY <1>0, <1>10 DEF P
<1> DEFINE cur == U[n].current
<1>12. /\ cur \in Seq(Label) /\ n <= Len(cur) /\ IsSubsequence(cur, desired) /\ Len(cur) \in Nat
       /\ \A i \in 1 .. n : cur[i] = desired[i]
       /\ AlterType(existing, U[n].statements) = cur
  BY <1>11 DEF AddedUpTo, Labels
<1> HIDE DEF cur
<1>13. Len(cur) = n
  <2> SUFFICES ASSUME n < Len(cur) PROVE FALSE
    BY <1>0, <1>12
  <2>1. PICK at : Embeds(at, cur, desired)
    BY <1>0, <1>12, SubsequenceIs
  <2>2. /\ \A i \in 1 .. Len(cur) : at[i] \in 1 .. n /\ desired[at[i]] = cur[i]
        /\ \A i, j \in 1 .. Len(cur) : i < j => at[i] < at[j]
    BY <2>1 DEF Embeds, n
  <2>3. n + 1 \in 1 .. Len(cur) /\ n + 1 > n
    BY <1>0, <1>12
  <2>4. CASE n = 0
    BY <2>2, <2>3, <2>4
  <2>5. CASE n # 0
    <3>1. n \in 1 .. n /\ n \in 1 .. Len(cur)
      BY <1>0, <1>12, <2>5
    <3>2. desired[at[n]] = desired[n] /\ at[n] \in 1 .. n
      BY <1>12, <2>2, <3>1
    <3>3. at[n] = n
      BY <3>1, <3>2, <1>0 DEF Labels, IsInjective, n
    <3>4. at[n] < at[n + 1] /\ at[n + 1] \in 1 .. n
      BY <2>2, <2>3, <3>1
    <3> QED BY <1>0, <3>3, <3>4
  <2> QED BY <2>4, <2>5
<1>14. cur = desired
  BY <1>0, <1>12, <1>13 DEF n
<1> QED BY <1>7, <1>12, <1>14

-----------------------------------------------------------------------------
(* Renames. *)

\* The labels when the first p positions have been renamed.
RenamedUpTo(p, existing, desired) ==
  [i \in 1 .. Len(desired) |-> IF i <= p THEN desired[i] ELSE existing[i]]

\* The next position can be renamed, whatever was renamed before it.
LEMMA RenameProceeds ==
  ASSUME NEW existing \in Labels, NEW desired \in Labels, AreRenames(existing, desired),
         NEW p \in 1 .. Len(desired), existing[p] # desired[p]
  PROVE  LET a == [kind |-> "rename", from |-> existing[p], label |-> desired[p]]
             mix == RenamedUpTo(p - 1, existing, desired)
         IN /\ a \in Statement /\ mix \in Seq(Label)
            /\ CanAlter(mix, a) /\ Altered(mix, a) = RenamedUpTo(p, existing, desired)
<1> DEFINE a == [kind |-> "rename", from |-> existing[p], label |-> desired[p]]
           n == Len(desired)
           mix == RenamedUpTo(p - 1, existing, desired)
           new == RenamedUpTo(p, existing, desired)
<1>0. /\ existing \in Seq(Label) /\ desired \in Seq(Label) /\ n \in Nat /\ Len(existing) = n
      /\ \A x, y \in 1 .. n : existing[x] = existing[y] => x = y
      /\ \A x, y \in 1 .. n : desired[x] = desired[y] => x = y
      /\ \A i \in 1 .. n : desired[i] = existing[i] \/ desired[i] \notin Range(existing)
  BY DEF Labels, IsInjective, AreRenames
<1>1. existing[p] \in Label /\ desired[p] \in Label
  BY <1>0
<1>2. a \in Statement
  BY <1>1 DEF Statement
<1>3. /\ mix \in [1 .. n -> Label] /\ new \in [1 .. n -> Label]
      /\ \A i \in 1 .. n : mix[i] = IF i < p THEN desired[i] ELSE existing[i]
      /\ \A i \in 1 .. n : new[i] = IF i <= p THEN desired[i] ELSE existing[i]
  BY <1>0 DEF RenamedUpTo
<1> HIDE DEF mix, new
<1>4. mix \in Seq(Label) /\ Len(mix) = n /\ new \in Seq(Label) /\ Len(new) = n
  BY <1>0, <1>3
<1>5. \A i \in 1 .. n : existing[i] \in Range(existing)
  BY <1>0 DEF Range
<1>6. ASSUME NEW i \in 1 .. n PROVE mix[i] = existing[p] => i = p
  <2> SUFFICES ASSUME mix[i] = existing[p] PROVE i = p
    OBVIOUS
  <2>1. CASE i < p
    <3>1. desired[i] = existing[p]
      BY <1>3, <2>1
    <3>2. desired[i] = existing[i]
      BY <1>0, <1>5, <3>1
    <3> QED BY <1>0, <3>1, <3>2
  <2>2. CASE ~(i < p)
    BY <1>0, <1>3, <2>2
  <2> QED BY <2>1, <2>2
<1>7. mix[p] = existing[p]
  BY <1>3
<1>8. existing[p] \in Range(mix)
  BY <1>4, <1>7 DEF Range
<1>9. Position(mix, existing[p]) = p
  BY <1>4, <1>6, <1>8, PositionIs
<1>10. ASSUME NEW i \in 1 .. n PROVE mix[i] # desired[p]
  <2>1. CASE i < p
    BY <1>0, <1>3, <2>1
  <2>2. CASE ~(i < p)
    <3>1. mix[i] = existing[i]
      BY <1>3, <2>2
    <3>2. desired[p] \notin Range(existing)
      BY <1>0
    <3> QED BY <1>5, <3>1, <3>2
  <2> QED BY <2>1, <2>2
<1>11. desired[p] \notin Range(mix)
  BY <1>4, <1>10 DEF Range
<1>12. a.kind = "rename" /\ a.from = existing[p] /\ a.label = desired[p]
  OBVIOUS
<1> HIDE DEF a
<1>13. CanAlter(mix, a) /\ Altered(mix, a) = ReplaceAt(mix, p, desired[p])
  BY <1>8, <1>9, <1>11, <1>12 DEF CanAlter, Altered
<1>14. ReplaceAt(mix, p, desired[p]) = new
  <2>1. /\ ReplaceAt(mix, p, desired[p]) \in Seq(Label) /\ Len(ReplaceAt(mix, p, desired[p])) = n
        /\ \A k \in 1 .. n : ReplaceAt(mix, p, desired[p])[k]
                             = IF k = p THEN desired[p] ELSE mix[k]
    BY <1>1, <1>4, ReplaceAtIs
  <2>2. ASSUME NEW k \in 1 .. n PROVE ReplaceAt(mix, p, desired[p])[k] = new[k]
    BY <1>3, <2>1
  <2> QED BY <1>4, <2>1, <2>2
<1> QED BY <1>2, <1>4, <1>13, <1>14 DEF a, mix, new

\* f is the recursive function in the definition of Renames.
IsRenaming(f, existing, desired) ==
  f = [p \in 0 .. Len(desired) |->
         IF p = 0 THEN <<>>
         ELSE IF existing[p] = desired[p] THEN f[p - 1]
         ELSE Append(f[p - 1],
                     [kind |-> "rename", from |-> existing[p], label |-> desired[p]])]

\* The renames that are planned lead from the existing to the desired labels.
LEMMA RenamesReach ==
  ASSUME NEW existing \in Labels, NEW desired \in Labels, AreRenames(existing, desired)
  PROVE  AlterType(existing, Renames(existing, desired)) = desired
<1> DEFINE n == Len(desired)
           Mix(p) == RenamedUpTo(p, existing, desired)
           rename(p) == [kind |-> "rename", from |-> existing[p], label |-> desired[p]]
           To(p, x) == IF existing[p] = desired[p] THEN x ELSE Append(x, rename(p))
           Good(x, p) == x \in Seq(Statement) /\ AlterType(existing, x) = Mix(p)
           step == [q \in Nat \X Seq(Statement) |-> To(q[1], q[2])]
           J == [p \in 0 .. n |-> {x \in Seq(Statement) : Good(x, p)}]
<1>0. existing \in Seq(Label) /\ desired \in Seq(Label) /\ n \in Nat /\ Len(existing) = n
  BY DEF Labels, AreRenames
<1>1. Good(<<>>, 0)
  <2>1. Mix(0) = existing
    BY <1>0 DEF RenamedUpTo
  <2> HIDE DEF Mix
  <2> QED BY <1>0, <2>1, AlterTypeEmpty
<1>2. ASSUME NEW p \in 1 .. n, NEW x, Good(x, p - 1) PROVE Good(To(p, x), p)
  <2>1. CASE existing[p] = desired[p]
    <3>1. Mix(p) = Mix(p - 1)
      BY <1>0, <2>1 DEF RenamedUpTo
    <3> HIDE DEF Mix
    <3> QED BY <1>2, <2>1, <3>1
  <2>2. CASE existing[p] # desired[p]
    <3>1. /\ rename(p) \in Statement /\ Mix(p - 1) \in Seq(Label)
          /\ CanAlter(Mix(p - 1), rename(p)) /\ Altered(Mix(p - 1), rename(p)) = Mix(p)
      BY <2>2, RenameProceeds
    <3> HIDE DEF rename, Mix
    <3>2. Mix(p - 1) # NoType
      BY <3>1, TypesAssumption
    <3>3. AlterType(existing, Append(x, rename(p))) = Altered(Mix(p - 1), rename(p))
      BY <1>0, <1>2, <3>1, <3>2, AlterTypeAppend
    <3> QED BY <1>2, <2>2, <3>1, <3>3
  <2> QED BY <2>1, <2>2
<1>3. \A p \in Nat, x \in Seq(Statement) : step[<<p, x>>] = To(p, x)
  OBVIOUS
<1>4. \A p \in 0 .. n : \A x : x \in J[p] <=> Good(x, p)
  OBVIOUS
<1>5. \A x, p : Good(x, p) => x \in Seq(Statement)
  OBVIOUS
<1> HIDE DEF n, step, J, Good, To
<1>6. <<>> \in J[0] /\ \A p \in 1 .. n : \A x \in J[p - 1] : step[<<p, x>>] \in J[p]
  <2>1. <<>> \in J[0]
    BY <1>0, <1>1, <1>4
  <2>2. ASSUME NEW p \in 1 .. n, NEW x \in J[p - 1] PROVE step[<<p, x>>] \in J[p]
    <3>1. p \in Nat /\ p \in 0 .. n /\ p - 1 \in 0 .. n
      BY <1>0
    <3>2. Good(x, p - 1)
      BY <1>4, <3>1
    <3>3. Good(To(p, x), p) /\ step[<<p, x>>] = To(p, x)
      BY <1>2, <1>3, <1>5, <3>1, <3>2
    <3> QED BY <1>4, <3>1, <3>3
  <2> QED BY <2>1, <2>2
<1>7. \E f : IsRenaming(f, existing, desired)
  <2>1. PICK f : Proceeds(f, <<>>, step, n)
    BY <1>0, RecursionExists
  <2>2. \A p \in 0 .. n : f[p] \in J[p]
    BY <1>0, <1>6, <2>1, RecursionStays
  <2>3. ASSUME NEW p \in 0 .. n PROVE f[p] = IF p = 0 THEN <<>> ELSE To(p, f[p - 1])
    <3>1. CASE p = 0
      BY <2>1, <3>1 DEF Proceeds
    <3>2. CASE p # 0
      <4>1. p \in Nat /\ p \in 1 .. n /\ p - 1 \in 0 .. n
        BY <1>0, <3>2
      <4>2. f[p - 1] \in Seq(Statement)
        BY <1>4, <1>5, <2>2, <4>1
      <4> QED BY <1>3, <2>1, <3>2, <4>1, <4>2 DEF Proceeds
    <3> QED BY <3>1, <3>2
  <2>4. f = [p \in 0 .. n |-> f[p]]
    BY <2>1 DEF Proceeds
  <2>5. IsRenaming(f, existing, desired)
    BY <2>3, <2>4 DEF IsRenaming, n, To
  <2> QED BY <2>5
<1> DEFINE U == CHOOSE f : IsRenaming(f, existing, desired)
<1>8. IsRenaming(U, existing, desired)
  BY <1>7
<1>9. Renames(existing, desired) = U[n]
  BY DEF Renames, IsRenaming, n
<1> HIDE DEF U
<1>10. U[0] = <<>> /\ \A p \in 1 .. n : U[p] = To(p, U[p - 1])
  <2>1. \A p \in 0 .. n : U[p] = IF p = 0 THEN <<>> ELSE To(p, U[p - 1])
    BY <1>8 DEF IsRenaming, To, n
  <2>2. 0 \in 0 .. n /\ \A p \in 1 .. n : p \in 0 .. n /\ p # 0
    BY <1>0
  <2> HIDE DEF To
  <2> QED BY <2>1, <2>2
<1> DEFINE P == {p \in Nat : p <= n => Good(U[p], p)}
<1>11. 0 \in P
  BY <1>1, <1>10
<1>12. ASSUME NEW p \in Nat, p \in P PROVE p + 1 \in P
  <2> SUFFICES ASSUME p + 1 <= n PROVE Good(U[p + 1], p + 1)
    OBVIOUS
  <2>1. p + 1 \in 1 .. n /\ (p + 1) - 1 = p /\ Good(U[p], p)
    BY <1>0, <1>12
  <2>2. U[p + 1] = To(p + 1, U[p])
    BY <1>10, <2>1
  <2>3. Good(To(p + 1, U[p]), p + 1)
    BY <1>2, <2>1
  <2> QED BY <2>2, <2>3
<1> HIDE DEF P
<1>13. Nat \subseteq P
  BY <1>11, <1>12, SetInduction
<1>14. Good(U[n], n)
  BY <1>0, <1>13 DEF P
<1>15. Mix(n) = desired
  BY <1>0 DEF RenamedUpTo, n
<1> QED BY <1>9, <1>14, <1>15 DEF Good

\* What is planned is accepted statement by statement and leaves exactly the
\* desired labels in their order (plan_enum_evolution, reconcile_prerequisite_type).
THEOREM PlanReaches ==
  ASSUME NEW existing \in Labels, NEW desired \in Labels, Plannable(existing, desired)
  PROVE  AlterType(existing, PlanEnumEvolution(existing, desired)) = desired
<1>1. CASE IsSubsequence(existing, desired)
  BY <1>1, AdditionsReach DEF PlanEnumEvolution
<1>2. CASE ~IsSubsequence(existing, desired)
  <2>1. AreRenames(existing, desired)
    BY <1>2 DEF Plannable
  <2> QED BY <1>2, <2>1, RenamesReach DEF PlanEnumEvolution
<1> QED BY <1>1, <1>2

-----------------------------------------------------------------------------
(* The invariant. *)

Entry == [labels : Definition, kind : {"create", "add", "rename"}]

\* What statements on the source make of the labels: additions, one after the
\* other, keep them in their order, and a rename keeps all others.
HistInv ==
  /\ hist \in Seq(Entry) /\ hist # <<>>
  /\ \A i, j \in 1 .. Len(hist) :
       i <= j /\ (\A k \in i + 1 .. j : hist[k].kind = "add") =>
         IsSubsequence(hist[i].labels, hist[j].labels)
  /\ \A i \in 2 .. Len(hist) :
       hist[i].kind = "rename" => AreRenames(hist[i - 1].labels, hist[i].labels)

\* The pipeline's own type has the labels its record says, those of the
\* definition it was last brought to.
TargetInv ==
  /\ type \in Definition \cup {NoType}
  /\ record \in [owner : {"own", "other"}, def : Definition, token : 0 .. MaxToken]
                  \cup {NoRecord}
  /\ last \in 1 .. plan.at
  /\ type # NoType /\ record # NoRecord /\ record.owner = "own" =>
       record.def = type /\ type = hist[last].labels

JobInv ==
  /\ used \in [1 .. Tables -> SUBSET Range(Source)]
  /\ plan.at \in 1 .. Len(hist) /\ token \in 0 .. MaxToken /\ loaded \in 0 .. Tables
  /\ pc \in {"idle", "loading"}
  /\ pc = "loading" => loaded < Tables /\ why = "none"
  /\ loaded > 0 => type = Desired /\ record # NoRecord /\ record.token = token

IInv == HistInv /\ TargetInv /\ JobInv /\ why # "alter" /\ RefusesOnlyMixedChanges

-----------------------------------------------------------------------------
(* The source's statements. *)

LEMMA DefinitionIs ==
  /\ \A d \in Definition : d \in Labels /\ d # <<>> /\ Len(d) <= MaxLabels
  /\ \A d \in Labels : d # <<>> /\ Len(d) <= MaxLabels => d \in Definition
<1>1. ASSUME NEW d \in Definition PROVE d \in Labels /\ d # <<>> /\ Len(d) <= MaxLabels
  <2>1. PICK m \in 0 .. MaxLabels : d \in [1 .. m -> Label]
    BY DEF Definition, SeqOf
  <2>2. d \in Seq(Label) /\ Len(d) = m
    BY <2>1, TypesAssumption
  <2> QED BY <2>1, <2>2, TypesAssumption DEF Definition, Labels
<1>2. ASSUME NEW d \in Labels, d # <<>>, Len(d) <= MaxLabels PROVE d \in Definition
  <2>1. d \in Seq(Label)
    BY DEF Labels
  <2>2. Len(d) \in 0 .. MaxLabels /\ d \in [1 .. Len(d) -> Label]
    BY <1>2, <2>1, TypesAssumption
  <2>3. d \in SeqOf(Label, MaxLabels)
    BY <2>2 DEF SeqOf
  <2> QED BY <1>2, <2>3 DEF Definition, Labels
<1> QED BY <1>1, <1>2

\* A definition is added to the history.
LEMMA HistoryGrows ==
  ASSUME HistInv, NEW e \in Entry, hist' = Append(hist, e),
         e.kind = "add" => IsSubsequence(Source, e.labels),
         e.kind = "rename" => AreRenames(Source, e.labels)
  PROVE  /\ HistInv' /\ Source' = e.labels /\ Len(hist') = Len(hist) + 1
         /\ \A i \in 1 .. Len(hist) : hist'[i] = hist[i]
<1> DEFINE n == Len(hist)
<1>0. hist \in Seq(Entry) /\ n \in Nat /\ n >= 1
  <2>1. hist \in Seq(Entry) /\ hist # <<>>
    BY DEF HistInv
  <2> QED BY <2>1
<1>1. /\ hist' \in Seq(Entry) /\ Len(hist') = n + 1 /\ hist' # <<>> /\ hist'[n + 1] = e
      /\ \A i \in 1 .. n : hist'[i] = hist[i]
  BY <1>0
<1>2. Source = hist[n].labels /\ Source' = e.labels
  BY <1>1 DEF Source, Last
<1>3. \A i \in 1 .. n : hist[i].labels \in Seq(Label)
  <2>1. \A i \in 1 .. n : hist[i] \in Entry
    BY <1>0
  <2> QED BY <2>1, DefinitionIs DEF Entry, Labels
<1>4. e.labels \in Seq(Label)
  BY DefinitionIs DEF Entry, Labels
<1> HIDE DEF n
<1>5. ASSUME NEW i \in 1 .. n + 1, NEW j \in 1 .. n + 1, i <= j,
             \A k \in i + 1 .. j : hist'[k].kind = "add"
      PROVE  IsSubsequence(hist'[i].labels, hist'[j].labels)
  <2>1. CASE j <= n
    <3>1. /\ i \in 1 .. n /\ j \in 1 .. n /\ hist'[i] = hist[i] /\ hist'[j] = hist[j]
          /\ \A k \in i + 1 .. j : hist[k].kind = "add"
      <4>1. i \in 1 .. n /\ j \in 1 .. n /\ \A k \in i + 1 .. j : k \in 1 .. n
        BY <1>0, <1>5, <2>1
      <4> QED BY <1>1, <1>5, <4>1
    <3> QED BY <1>5, <3>1 DEF HistInv, n
  <2>2. CASE i = n + 1
    <3>1. j = n + 1
      BY <1>0, <1>5, <2>2
    <3> QED BY <1>1, <1>4, <2>2, <3>1, SubsequenceReflexive
  <2>3. CASE j = n + 1 /\ i <= n
    <3>1. i \in 1 .. n /\ n \in 1 .. n /\ n + 1 \in i + 1 .. j
          /\ \A k \in i + 1 .. n : k \in i + 1 .. j /\ k \in 1 .. n
      BY <1>0, <2>3
    <3>2. \A k \in i + 1 .. n : hist[k].kind = "add"
      BY <1>1, <1>5, <3>1
    <3>3. IsSubsequence(hist[i].labels, hist[n].labels)
      BY <2>3, <3>1, <3>2 DEF HistInv, n
    <3>4. IsSubsequence(hist[n].labels, e.labels)
      BY <1>1, <1>2, <1>5, <3>1
    <3>5. IsSubsequence(hist[i].labels, e.labels)
      BY <1>3, <1>4, <3>1, <3>3, <3>4, SubsequenceTransitive
    <3> QED BY <1>1, <2>3, <3>1, <3>5
  <2>4. j <= n \/ i = n + 1 \/ (j = n + 1 /\ i <= n)
    BY <1>0
  <2> QED BY <2>1, <2>2, <2>3, <2>4
<1>6. ASSUME NEW i \in 2 .. n + 1, hist'[i].kind = "rename"
      PROVE  AreRenames(hist'[i - 1].labels, hist'[i].labels)
  <2>1. CASE i <= n
    <3>1. i \in 2 .. n /\ hist'[i] = hist[i] /\ hist'[i - 1] = hist[i - 1]
      BY <1>0, <1>1, <2>1
    <3> QED BY <1>6, <3>1 DEF HistInv, n
  <2>2. CASE i = n + 1
    <3>1. hist'[i] = e /\ hist'[i - 1] = hist[n]
      BY <1>0, <1>1, <2>2
    <3> QED BY <1>2, <1>6, <3>1
  <2>3. i <= n \/ i = n + 1
    BY <1>0
  <2> QED BY <2>1, <2>2, <2>3
<1>7. HistInv'
  BY <1>1, <1>5, <1>6 DEF HistInv
<1> QED BY <1>1, <1>2, <1>7 DEF n

\* A statement on the source's type keeps the invariant.
LEMMA RedefineKeeps ==
  ASSUME IInv, NEW d \in Definition, NEW kind \in {"create", "add", "rename"},
         Redefine(d, kind),
         kind = "add" => IsSubsequence(Source, d),
         kind = "rename" => AreRenames(Source, d),
         used' \in [1 .. Tables -> SUBSET Range(d)]
  PROVE  IInv'
<1> DEFINE e == [labels |-> d, kind |-> kind]
<1>0. /\ hist' = Append(hist, e) /\ type' = type /\ record' = record /\ last' = last
      /\ token' = token /\ plan' = plan /\ loaded' = loaded /\ pc' = pc /\ why' = why
  BY DEF Redefine, targetVars
<1>1. e \in Entry /\ e.labels = d /\ e.kind = kind
  BY DEF Entry
<1> HIDE DEF e
<1>2. /\ HistInv' /\ Source' = d /\ Len(hist') = Len(hist) + 1 /\ Len(hist) \in Nat
      /\ \A i \in 1 .. Len(hist) : hist'[i] = hist[i]
  <2>1. hist \in Seq(Entry) /\ HistInv
    BY DEF IInv, HistInv
  <2> QED BY <1>0, <1>1, <2>1, HistoryGrows
<1>3. plan.at \in 1 .. Len(hist) /\ last \in 1 .. plan.at
  BY DEF IInv, JobInv, TargetInv
<1>4. hist'[plan.at] = hist[plan.at] /\ hist'[last] = hist[last]
      /\ plan.at \in 1 .. Len(hist') /\ last \in 1 .. Len(hist)
  BY <1>2, <1>3
<1>5. TargetInv'
  BY <1>0, <1>4 DEF IInv, TargetInv
<1>6. Desired' = Desired
  BY <1>0, <1>4 DEF Desired
<1>7. JobInv'
  BY <1>0, <1>2, <1>4, <1>6 DEF IInv, JobInv
<1>8. RefusesOnlyMixedChanges'
  <2>1. \A i \in last + 1 .. plan.at : hist'[i] = hist[i]
    BY <1>2, <1>3
  <2>2. {hist'[i].kind : i \in last + 1 .. plan.at} = {hist[i].kind : i \in last + 1 .. plan.at}
    BY <2>1
  <2> QED BY <1>0, <2>2 DEF IInv, RefusesOnlyMixedChanges
<1> QED BY <1>0, <1>2, <1>5, <1>7, <1>8 DEF IInv

\* The labels of the source's type.
LEMMA SourceIs ==
  ASSUME HistInv
  PROVE  Source \in Definition /\ Source \in Labels /\ Source \in Seq(Label)
         /\ Len(Source) <= MaxLabels /\ Len(Source) \in Nat /\ Source # <<>>
<1>1. hist \in Seq(Entry) /\ hist # <<>>
  BY DEF HistInv
<1>2. hist[Len(hist)] \in Entry
  BY <1>1
<1>3. Source \in Definition
  BY <1>2 DEF Source, Last, Entry
<1>4. Source \in Labels /\ Len(Source) <= MaxLabels /\ Source # <<>>
  BY <1>3, DefinitionIs
<1> QED BY <1>3, <1>4 DEF Labels

LEMMA AddValueKeeps ==
  ASSUME IInv, NEW l \in Label, NEW p \in 1 .. MaxLabels, AddValue(l, p)
  PROVE  IInv'
<1> DEFINE d == InsertAt(Source, p, l)
<1>0. /\ l \notin Range(Source) /\ p \in 1 .. Len(Source) + 1 /\ Len(Source) < MaxLabels
      /\ Redefine(d, "add") /\ used' = used
  BY DEF AddValue
<1>1. Source \in Labels /\ Source \in Seq(Label) /\ Len(Source) \in Nat
  BY SourceIs DEF IInv
<1>2. /\ d \in Seq(Label) /\ Len(d) = Len(Source) + 1
      /\ \A k \in 1 .. Len(Source) + 1 :
           d[k] = IF k < p THEN Source[k] ELSE IF k = p THEN l ELSE Source[k - 1]
  <2>1. Source \in Seq(Label) /\ p \in 1 .. Len(Source) + 1 /\ l \in Label
    BY <1>0, <1>1
  <2> QED BY ONLY <2>1, InsertAtIs
<1>3. d \in Labels /\ IsSubsequence(Source, d)
  BY <1>0, <1>1, InsertAtInjective, InsertAtExtends
<1> HIDE DEF d
<1>4. d \in Definition
  <2>1. d # <<>> /\ Len(d) <= MaxLabels
    BY <1>0, <1>1, <1>2, TypesAssumption
  <2> QED BY <1>3, <2>1, DefinitionIs
<1>5. ASSUME NEW u \in Range(Source) PROVE u \in Range(d)
  <2>1. PICK i \in 1 .. Len(Source) : Source[i] = u
    BY <1>1 DEF Range
  <2>2. CASE i < p
    <3>1. d[i] = u /\ i \in DOMAIN d
      BY <1>1, <1>2, <2>1, <2>2
    <3> QED BY <3>1 DEF Range
  <2>3. CASE i >= p
    <3>1. i + 1 \in 1 .. Len(Source) + 1 /\ ~(i + 1 < p) /\ i + 1 # p /\ (i + 1) - 1 = i
      BY <1>0, <1>1, <2>3
    <3>2. d[i + 1] = u /\ i + 1 \in DOMAIN d
      BY <1>2, <2>1, <3>1
    <3> QED BY <3>2 DEF Range
  <2> QED BY <1>0, <2>2, <2>3
<1>6. used' \in [1 .. Tables -> SUBSET Range(d)]
  <2>1. used \in [1 .. Tables -> SUBSET Range(Source)]
    BY DEF IInv, JobInv
  <2>2. Range(Source) \subseteq Range(d)
    BY <1>5
  <2> QED BY <1>0, <2>1, <2>2
<1> QED BY <1>0, <1>3, <1>4, <1>6, RedefineKeeps

LEMMA RenameValueKeeps ==
  ASSUME IInv, NEW l \in Label, NEW m \in Label, RenameValue(l, m)
  PROVE  IInv'
<1> DEFINE p == Position(Source, l)
           d == ReplaceAt(Source, p, m)
<1>0. /\ l \in Range(Source) /\ m \notin Range(Source) /\ Redefine(d, "rename")
      /\ used' = [t \in DOMAIN used |-> {IF u = l THEN m ELSE u : u \in used[t]}]
  BY DEF RenameValue
<1>1. /\ Source \in Labels /\ Source \in Seq(Label) /\ Len(Source) \in Nat
      /\ Len(Source) <= MaxLabels /\ Source # <<>>
  BY SourceIs DEF IInv
<1>2. p \in 1 .. Len(Source) /\ Source[p] = l
  BY <1>0, <1>1, PositionIs
<1> HIDE DEF p
<1>3. /\ d \in Seq(Label) /\ Len(d) = Len(Source)
      /\ \A k \in 1 .. Len(Source) : d[k] = IF k = p THEN m ELSE Source[k]
  BY <1>1, <1>2, ReplaceAtIs
<1> HIDE DEF d
<1>4. \A k \in 1 .. Len(Source) : Source[k] # m
  BY <1>0, <1>1 DEF Range
<1>5. \A x, y \in 1 .. Len(Source) : Source[x] = Source[y] => x = y
  BY <1>1 DEF Labels, IsInjective
<1>6. d \in Labels
  <2>1. \A x, y \in 1 .. Len(d) : d[x] = d[y] => x = y
    BY <1>3, <1>4, <1>5
  <2> QED BY <1>3, <2>1 DEF Labels, IsInjective
<1>7. d \in Definition
  <2>1. d # <<>> /\ Len(d) <= MaxLabels
    BY <1>1, <1>2, <1>3
  <2> QED BY <1>6, <2>1, DefinitionIs
<1>8. AreRenames(Source, d)
  BY <1>0, <1>1, <1>3 DEF AreRenames
<1>9. ASSUME NEW u \in Range(Source) PROVE (IF u = l THEN m ELSE u) \in Range(d)
  <2>1. PICK i \in 1 .. Len(Source) : Source[i] = u
    BY <1>1 DEF Range
  <2>2. CASE u = l
    <3>1. d[p] = m /\ p \in DOMAIN d
      BY <1>2, <1>3
    <3> QED BY <2>2, <3>1 DEF Range
  <2>3. CASE u # l
    <3>1. d[i] = u /\ i \in DOMAIN d
      BY <1>2, <1>3, <2>1, <2>3
    <3> QED BY <2>3, <3>1 DEF Range
  <2> QED BY <2>2, <2>3
<1>10. used' \in [1 .. Tables -> SUBSET Range(d)]
  <2>1. used \in [1 .. Tables -> SUBSET Range(Source)]
    BY DEF IInv, JobInv
  <2>2. \A t \in 1 .. Tables : {IF u = l THEN m ELSE u : u \in used[t]} \subseteq Range(d)
    BY <1>9, <2>1
  <2> QED BY <1>0, <2>1, <2>2
<1> QED BY <1>0, <1>7, <1>8, <1>10, RedefineKeeps

LEMMA RecreateKeeps ==
  ASSUME IInv, NEW d \in Definition, Recreate(d)
  PROVE  IInv'
<1>1. used \in [1 .. Tables -> SUBSET Range(Source)]
  BY DEF IInv, JobInv
<1>2. used' \in [1 .. Tables -> SUBSET Range(d)]
  BY <1>1 DEF Recreate
<1> QED BY <1>2, RedefineKeeps DEF Recreate

LEMMA WriteRowKeeps ==
  ASSUME IInv, NEW t \in 1 .. Tables, NEW l \in Label, WriteRow(t, l)
  PROVE  IInv'
<1>0. /\ hist' = hist /\ type' = type /\ record' = record /\ last' = last
      /\ token' = token /\ plan' = plan /\ loaded' = loaded /\ pc' = pc /\ why' = why
      /\ l \in Range(Source) /\ used' = [used EXCEPT ![t] = @ \cup {l}]
  BY DEF WriteRow, targetVars
<1>1. used' \in [1 .. Tables -> SUBSET Range(Source)]
  BY <1>0 DEF IInv, JobInv
<1>2. Source' = Source /\ Desired' = Desired
  BY <1>0 DEF Source, Desired
<1>3. HistInv' /\ TargetInv' /\ RefusesOnlyMixedChanges'
  BY <1>0 DEF IInv, HistInv, TargetInv, RefusesOnlyMixedChanges
<1>4. JobInv'
  BY <1>0, <1>1, <1>2 DEF IInv, JobInv
<1> QED BY <1>0, <1>3, <1>4 DEF IInv

-----------------------------------------------------------------------------
(* The job. *)

LEMMA BeginKeeps ==
  ASSUME IInv, Begin
  PROVE  IInv'
<1>0. /\ hist' = hist /\ used' = used /\ type' = type /\ record' = record /\ last' = last
      /\ token < MaxToken /\ token' = token + 1 /\ plan'.at = Len(hist)
      /\ loaded' = 0 /\ pc' = "loading" /\ why' = "none"
  BY DEF Begin, source, targetVars
<1>1. /\ last \in 1 .. plan.at /\ plan.at \in 1 .. Len(hist) /\ token \in 0 .. MaxToken
      /\ hist \in Seq(Entry)
  BY DEF IInv, TargetInv, JobInv, HistInv
<1>2. last \in 1 .. Len(hist) /\ Len(hist) \in 1 .. Len(hist) /\ token' \in 0 .. MaxToken
  BY <1>0, <1>1, TypesAssumption
<1>3. Source' = Source
  BY <1>0 DEF Source
<1>4. HistInv' /\ TargetInv' /\ RefusesOnlyMixedChanges'
  BY <1>0, <1>2 DEF IInv, HistInv, TargetInv, RefusesOnlyMixedChanges
<1>5. JobInv'
  BY <1>0, <1>2, <1>3, TypesAssumption DEF IInv, JobInv
<1> QED BY <1>0, <1>4, <1>5 DEF IInv

\* What plan_enum_evolution refuses is a recreated type, or a rename among
\* other statements, between the definition the target has and the snapshot's.
Explained ==
  LET kinds == {hist[i].kind : i \in last + 1 .. plan.at}
  IN "create" \in kinds \/ ("rename" \in kinds /\ plan.at > last + 1)

LEMMA FailKeeps ==
  ASSUME IInv, NEW reason, FailLoad(reason), reason # "alter",
         reason = "unsupported" => Explained
  PROVE  IInv'
<1>0. /\ hist' = hist /\ used' = used /\ type' = type /\ record' = record /\ last' = last
      /\ token' = token /\ plan' = plan /\ loaded' = loaded /\ pc' = "idle" /\ why' = reason
  BY DEF FailLoad, source, targetVars
<1>1. Source' = Source /\ Desired' = Desired
  BY <1>0 DEF Source, Desired
<1>2. HistInv' /\ TargetInv' /\ RefusesOnlyMixedChanges'
  BY <1>0 DEF IInv, HistInv, TargetInv, RefusesOnlyMixedChanges, Explained
<1>3. JobInv'
  BY <1>0, <1>1 DEF IInv, JobInv
<1> QED BY <1>0, <1>2, <1>3 DEF IInv

LEMMA DesiredIs ==
  ASSUME IInv
  PROVE  Desired \in Definition /\ Desired \in Labels
<1>1. hist \in Seq(Entry) /\ plan.at \in 1 .. Len(hist)
  BY DEF IInv, HistInv, JobInv
<1>2. hist[plan.at] \in Entry
  BY <1>1
<1> QED BY <1>2, DefinitionIs DEF Desired, Entry

\* A table is loaded with the labels of its snapshot, or the COPY fails.
LEMMA CopyKeeps ==
  ASSUME IInv, pc = "loading", NEW added, CopyAndCommit(Desired, added)
  PROVE  IInv'
<1>1. CASE FailLoad("unsafe")
  BY <1>1, FailKeeps
<1>2. CASE ~FailLoad("unsafe")
  <2>0. /\ hist' = hist /\ used' = used /\ type' = Desired /\ last' = plan.at
        /\ record' = [owner |-> "own", def |-> Desired, token |-> token]
        /\ token' = token /\ plan' = plan /\ loaded' = loaded + 1 /\ why' = why
        /\ pc' = IF loaded + 1 = Tables THEN "idle" ELSE "loading"
    BY <1>2 DEF CopyAndCommit, source, ManagedRow, Record
  <2>1. Desired \in Definition /\ Desired \in Seq(Label)
    BY DesiredIs DEF Labels
  <2>2. /\ token \in 0 .. MaxToken /\ loaded \in 0 .. Tables /\ loaded < Tables /\ why = "none"
        /\ plan.at \in 1 .. Len(hist)
    BY DEF IInv, JobInv
  <2>3. /\ record' \in [owner : {"own", "other"}, def : Definition, token : 0 .. MaxToken]
        /\ record'.token = token /\ record'.def = Desired
    BY <2>0, <2>1, <2>2
  <2>4. record' # NoRecord
    <3>1. record' \in [owner : {"own", "other"}, def : Seq(Label), token : Nat]
      BY <2>0, <2>1, <2>2, TypesAssumption
    <3> QED BY <3>1, TypesAssumption
  <2>5. Source' = Source /\ Desired' = Desired
    BY <2>0 DEF Source, Desired
  <2>6. HistInv'
    BY <2>0 DEF IInv, HistInv
  <2>7. TargetInv'
    <3>1. plan.at \in 1 .. plan.at
      BY <2>2
    <3>2. Desired = hist[plan.at].labels
      BY DEF Desired
    <3> QED BY <2>0, <2>1, <2>3, <3>1, <3>2 DEF TargetInv
  <2>8. JobInv'
    <3>1. loaded + 1 \in 0 .. Tables /\ (loaded + 1 # Tables => loaded + 1 < Tables)
      BY <2>2, TypesAssumption
    <3> QED BY <2>0, <2>2, <2>3, <2>4, <2>5, <3>1 DEF IInv, JobInv
  <2>9. why' # "alter" /\ RefusesOnlyMixedChanges'
    BY <2>0, <2>2 DEF RefusesOnlyMixedChanges
  <2> QED BY <2>6, <2>7, <2>8, <2>9 DEF IInv
<1> QED BY <1>1, <1>2

\* The pipeline's own type with another definition than the snapshot's.
LEMMA ReconcileIs ==
  ASSUME IInv, Classify = "reconcile"
  PROVE  /\ type \in Labels /\ type = hist[last].labels /\ type # Desired
<1>1. type # NoType /\ record # NoRecord /\ record.owner = "own" /\ record.def # Desired
  BY DEF Classify
<1>2. type = hist[last].labels /\ record.def = type /\ type \in Definition
  BY <1>1 DEF IInv, TargetInv
<1> QED BY <1>1, <1>2, DefinitionIs

LEMMA RefusalIsExplained ==
  ASSUME IInv, Classify = "reconcile", ~Plannable(type, Desired)
  PROVE  Explained
<1> DEFINE kinds == {hist[i].kind : i \in last + 1 .. plan.at}
<1>0. /\ hist \in Seq(Entry) /\ plan.at \in 1 .. Len(hist) /\ last \in 1 .. plan.at
      /\ Len(hist) \in Nat
  BY DEF IInv, HistInv, JobInv, TargetInv
<1>1. type = hist[last].labels /\ type # Desired /\ Desired = hist[plan.at].labels
  BY ReconcileIs DEF Desired
<1>2. ~IsSubsequence(type, Desired) /\ ~AreRenames(type, Desired)
  BY DEF Plannable
<1>3. last < plan.at
  BY <1>0, <1>1
<1>4. \A i \in last + 1 .. plan.at : hist[i].kind \in {"create", "add", "rename"}
  <2>1. \A i \in last + 1 .. plan.at : i \in 1 .. Len(hist)
    BY <1>0
  <2>2. \A i \in last + 1 .. plan.at : hist[i] \in Entry
    BY <1>0, <2>1
  <2> QED BY <2>2 DEF Entry
<1>5. CASE \A i \in last + 1 .. plan.at : hist[i].kind = "add"
  <2>1. last \in 1 .. Len(hist) /\ last <= plan.at
    BY <1>0
  <2>2. IsSubsequence(hist[last].labels, hist[plan.at].labels)
    BY <1>0, <1>5, <2>1 DEF IInv, HistInv
  <2> QED BY <1>1, <1>2, <2>2
<1>6. CASE \E i \in last + 1 .. plan.at : hist[i].kind # "add"
  <2>1. PICK i \in last + 1 .. plan.at : hist[i].kind # "add"
    BY <1>6
  <2>2. CASE hist[i].kind = "create"
    BY <2>2 DEF Explained
  <2>3. CASE hist[i].kind = "rename"
    <3>1. CASE plan.at > last + 1
      BY <2>3, <3>1 DEF Explained
    <3>2. CASE ~(plan.at > last + 1)
      <4>1. i = plan.at /\ i - 1 = last /\ i \in 2 .. Len(hist)
        BY <1>0, <1>3, <3>2
      <4>2. AreRenames(hist[i - 1].labels, hist[i].labels)
        BY <2>3, <4>1 DEF IInv, HistInv
      <4> QED BY <1>1, <1>2, <4>1, <4>2
    <3> QED BY <3>1, <3>2
  <2> QED BY <1>4, <2>1, <2>2, <2>3
<1> QED BY <1>5, <1>6

LEMMA LoadTableKeeps ==
  ASSUME IInv, LoadTable
  PROVE  IInv'
<1> DEFINE alterations == PlanEnumEvolution(type, Desired)
<1>0. pc = "loading" /\ EnsureType
  BY DEF LoadTable
<1>1. Classify \in {"create", "reuse", "reconcile", "exists", "missing", "other", "newer"}
  BY DEF Classify
<1>2. CASE Classify = "create"
  <2>1. CopyAndCommit(Desired, {})
    BY <1>0, <1>2 DEF EnsureType
  <2> QED BY <1>0, <2>1, CopyKeeps
<1>3. CASE Classify = "reuse"
  <2>1. CopyAndCommit(type, {})
    BY <1>0, <1>3 DEF EnsureType
  <2>2. type # NoType /\ record # NoRecord /\ record.owner = "own" /\ record.def = Desired
    BY <1>3 DEF Classify
  <2>3. type = Desired
    BY <2>2 DEF IInv, TargetInv
  <2>4. CopyAndCommit(Desired, {})
    BY <2>1, <2>3
  <2> QED BY <1>0, <2>4, CopyKeeps
<1>4. CASE Classify = "reconcile"
  <2>1. CASE ~Plannable(type, Desired)
    <3>1. FailLoad("unsupported")
      BY <1>0, <1>4, <2>1 DEF EnsureType
    <3> QED BY <1>4, <2>1, <3>1, RefusalIsExplained, FailKeeps
  <2>2. CASE Plannable(type, Desired)
    <3>1. Desired \in Labels /\ type \in Labels
      BY <1>4, DesiredIs, ReconcileIs
    <3>2. AlterType(type, alterations) = Desired /\ Desired # NoType
      BY <2>2, <3>1, PlanReaches, TypesAssumption DEF Labels
    <3>3. PICK added : CopyAndCommit(Desired, added)
      BY <1>0, <1>4, <2>2, <3>2 DEF EnsureType
    <3> QED BY <1>0, <3>3, CopyKeeps
  <2> QED BY <2>1, <2>2
<1>5. CASE Classify \in {"exists", "missing", "other", "newer"}
  <2>1. FailLoad(Classify)
    BY <1>0, <1>5 DEF EnsureType
  <2>2. PICK reason \in {"exists", "missing", "other", "newer"} : FailLoad(reason)
    BY <1>5, <2>1
  <2>3. reason # "alter" /\ reason # "unsupported"
    OBVIOUS
  <2> QED BY <2>2, <2>3, FailKeeps
<1> QED BY <1>1, <1>2, <1>3, <1>4, <1>5

LEMMA StopKeeps ==
  ASSUME IInv, Stop
  PROVE  IInv'
<1>0. /\ hist' = hist /\ used' = used /\ type' = type /\ record' = record /\ last' = last
      /\ token' = token /\ plan' = plan /\ loaded' = loaded /\ pc' = "idle" /\ why' = why
  BY DEF Stop, source, targetVars
<1>1. Source' = Source /\ Desired' = Desired
  BY <1>0 DEF Source, Desired
<1>2. HistInv' /\ TargetInv' /\ RefusesOnlyMixedChanges'
  BY <1>0 DEF IInv, HistInv, TargetInv, RefusesOnlyMixedChanges
<1>3. JobInv'
  BY <1>0, <1>1 DEF IInv, JobInv
<1> QED BY <1>0, <1>2, <1>3 DEF IInv

-----------------------------------------------------------------------------
(* Theorems. *)

LEMMA InitIInv == TypesInit => IInv
<1> SUFFICES ASSUME TypesInit PROVE IInv
  OBVIOUS
<1>1. PICK d \in Definition :
        /\ hist = <<[labels |-> d, kind |-> "create"]>>
        /\ \/ type = NoType /\ record \in {NoRecord, Record("own", d, 0)}
           \/ type = d /\ record \in {NoRecord, Record("other", d, 1)}
  BY DEF TypesInit
<1>2. /\ used = [t \in 1 .. Tables |-> {}] /\ token = 0 /\ plan.at = 1 /\ loaded = 0
      /\ last = 1 /\ pc = "idle" /\ why = "none"
  BY DEF TypesInit
<1>3. [labels |-> d, kind |-> "create"] \in Entry
  BY DEF Entry
<1>4. hist \in Seq(Entry) /\ hist # <<>> /\ Len(hist) = 1 /\ hist[1].labels = d
  BY <1>1, <1>3
<1>5. d \in Seq(Label)
  BY DefinitionIs DEF Labels
<1>6. HistInv
  <2>1. ASSUME NEW i \in 1 .. Len(hist), NEW j \in 1 .. Len(hist)
        PROVE  IsSubsequence(hist[i].labels, hist[j].labels)
    <3>1. i = 1 /\ j = 1
      BY <1>4
    <3> QED BY <1>4, <1>5, <3>1, SubsequenceReflexive
  <2>2. 2 .. Len(hist) = {}
    BY <1>4
  <2> QED BY <1>4, <2>1, <2>2 DEF HistInv
<1>7. TargetInv
  <2>1. /\ Record("own", d, 0) \in [owner : {"own", "other"}, def : Definition, token : 0 .. MaxToken]
        /\ Record("other", d, 1) \in [owner : {"own", "other"}, def : Definition, token : 0 .. MaxToken]
        /\ Record("other", d, 1).owner # "own"
    BY TypesAssumption DEF Record
  <2>2. last \in 1 .. plan.at
    BY <1>2
  <2>3. type = NoType \/ record = NoRecord \/ record.owner # "own"
    BY <1>1, <2>1
  <2> QED BY <1>1, <2>1, <2>2, <2>3 DEF TargetInv
<1>8. JobInv
  <2>1. Tables \in Nat /\ MaxToken \in Nat
    BY TypesAssumption
  <2>2. used \in [1 .. Tables -> SUBSET Range(Source)]
    BY <1>2
  <2> QED BY <1>2, <1>4, <2>1, <2>2 DEF JobInv
<1> QED BY <1>2, <1>6, <1>7, <1>8 DEF IInv, RefusesOnlyMixedChanges

LEMMA NextIInv == IInv /\ [TypesNext]_typeVars => IInv'
<1> SUFFICES ASSUME IInv, [TypesNext]_typeVars PROVE IInv'
  OBVIOUS
<1>1. ASSUME NEW l \in Label, NEW p \in 1 .. MaxLabels, AddValue(l, p) PROVE IInv'
  BY <1>1, AddValueKeeps
<1>2. ASSUME NEW l \in Label, NEW m \in Label, RenameValue(l, m) PROVE IInv'
  BY <1>2, RenameValueKeeps
<1>3. ASSUME NEW d \in Definition, Recreate(d) PROVE IInv'
  BY <1>3, RecreateKeeps
<1>4. ASSUME NEW t \in 1 .. Tables, NEW l \in Label, WriteRow(t, l) PROVE IInv'
  BY <1>4, WriteRowKeeps
<1>5. CASE Begin
  BY <1>5, BeginKeeps
<1>6. CASE LoadTable
  BY <1>6, LoadTableKeeps
<1>7. CASE Stop
  BY <1>7, StopKeeps
<1>8. CASE UNCHANGED typeVars
  <2>1. /\ hist' = hist /\ used' = used /\ type' = type /\ record' = record /\ last' = last
        /\ token' = token /\ plan' = plan /\ loaded' = loaded /\ pc' = pc /\ why' = why
    BY <1>8 DEF typeVars
  <2>2. Source' = Source /\ Desired' = Desired
    BY <2>1 DEF Source, Desired
  <2>3. HistInv' /\ TargetInv' /\ RefusesOnlyMixedChanges'
    BY <2>1 DEF IInv, HistInv, TargetInv, RefusesOnlyMixedChanges
  <2>4. JobInv'
    BY <2>1, <2>2 DEF IInv, JobInv
  <2> QED BY <2>1, <2>3, <2>4 DEF IInv
<1> QED BY <1>1, <1>2, <1>3, <1>4, <1>5, <1>6, <1>7, <1>8 DEF TypesNext

\* The invariant holds in every reachable state: it holds at first, and each
\* statement on the source and each step of a job keeps it.
THEOREM IInvAlways == TypesSpec => []IInv
  BY InitIInv, NextIInv, PTL DEF TypesSpec

\* Types of the source's definitions and rows, the target's type and record,
\* and the job's progress, whatever statements, loads and crashes happen.
THEOREM TypesAreCorrect == TypesSpec => []TypesOK
<1>1. IInv => TypesOK
  <2> SUFFICES ASSUME IInv PROVE TypesOK
    OBVIOUS
  <2>1. /\ hist \in Seq(Entry) /\ plan.at \in 1 .. Len(hist) /\ last \in 1 .. plan.at
        /\ Len(hist) \in Nat
    BY DEF IInv, HistInv, JobInv, TargetInv
  <2>2. plan.at \in DOMAIN hist /\ last \in DOMAIN hist
    BY <2>1
  <2>3. \A i \in DOMAIN hist : hist[i].labels \in Definition
    <3>1. \A i \in DOMAIN hist : hist[i] \in Entry
      BY <2>1
    <3> QED BY <3>1 DEF Entry
  <2> QED BY <2>2, <2>3 DEF IInv, TargetInv, JobInv, TypesOK
<1> QED BY <1>1, IInvAlways, PTL

\* Every statement of a plan is accepted, and every loaded table has the type
\* of its snapshot (ensure_prerequisite_type, plan_enum_evolution).
THEOREM PlansReachSource == TypesSpec => []PlanReachesSource
<1>1. IInv => PlanReachesSource
  BY DEF IInv, JobInv, PlanReachesSource
<1> QED BY <1>1, IInvAlways, PTL

\* Additions alone, and a single rename, since the definition that the target
\* has are never refused by plan_enum_evolution.
THEOREM OnlyMixedChangesAreRefused == TypesSpec => []RefusesOnlyMixedChanges
<1>1. IInv => RefusesOnlyMixedChanges
  BY DEF IInv
<1> QED BY <1>1, IInvAlways, PTL
=============================================================================
