--------------------------- MODULE NormalizeProofs ---------------------------
(***************************************************************************)
(* Proofs about the module Normalize, for every set of keys and values and  *)
(* batches of any length: a folded batch passes the target's validation and *)
(* gives exactly the source's rows, only a batch that changes primary keys  *)
(* can be refused, and applying a batch a second time does no harm.         *)
(***************************************************************************)
EXTENDS Normalize, SequenceTheorems, TLAPS

-----------------------------------------------------------------------------
(* The definitions: the inductive invariant. *)

Normalizer == [lineages : Seq(Lineage), live : [Key -> Nat], origins : [Key -> Nat]]

\* The two maps are the inverses of the lineages' current and origin keys, and
\* only a lineage that began with an INSERT lives at another one's origin.
Links(n) ==
  /\ \A k \in Key : n.live[k] # 0 =>
       n.live[k] \in DOMAIN n.lineages /\ n.lineages[n.live[k]].current = k
  /\ \A i \in DOMAIN n.lineages :
       n.lineages[i].current # NoKey => n.live[n.lineages[i].current] = i
  /\ \A k \in Key : n.origins[k] # 0 =>
       n.origins[k] \in DOMAIN n.lineages /\ n.lineages[n.origins[k]].origin = k
  /\ \A i \in DOMAIN n.lineages :
       n.lineages[i].origin # NoKey => n.origins[n.lineages[i].origin] = i
  /\ \A k \in Key : n.live[k] # 0 /\ n.origins[k] \notin {0, n.live[k]} =>
       n.lineages[n.live[k]].origin = NoKey

\* The row of a live lineage, from the row its origin had when the batch began.
RowOf(l, t) == MergeCell(t[l.origin], l.cells)

\* What the maps say about a key's row at the start of the batch, and now.
Content(n, t, s) ==
  /\ \A k \in Key : n.origins[k] # 0 => t[k] # NoRow
  /\ \A k \in Key : n.live[k] # 0 /\ n.origins[k] = 0 => t[k] = NoRow
  /\ \A k \in Key : n.live[k] = 0 => s[k] = IF n.origins[k] = 0 THEN t[k] ELSE NoRow
  /\ \A k \in Key : n.live[k] # 0 => s[k] # NoRow /\ s[k] = RowOf(n.lineages[n.live[k]], t)
  /\ \A k \in Key : n.live[k] # 0 /\ n.lineages[n.live[k]].origin = NoKey =>
       n.lineages[n.live[k]].cells # Toast

Tracks(n, t, s) == n \in Normalizer /\ Links(n) /\ Content(n, t, s)

FoldInv ==
  /\ table \in Table /\ target \in Table
  /\ changes \in 0 .. MaxChanges /\ moved \in BOOLEAN /\ refused \in BOOLEAN
  /\ norm \in Normalizer /\ Len(norm.lineages) <= changes
  /\ refused => moved
  /\ Links(norm)
  /\ ~refused => Content(norm, target, table)

-----------------------------------------------------------------------------
(* The normalizer's operations. *)

LEMMA LineageFields ==
  ASSUME NEW n \in Normalizer, NEW i \in DOMAIN n.lineages
  PROVE  /\ n.lineages[i] \in Lineage
         /\ n.lineages[i].origin \in Key \cup {NoKey}
         /\ n.lineages[i].current \in Key \cup {NoKey}
         /\ n.lineages[i].cells \in Cell
<1>1. n.lineages \in Seq(Lineage)
  BY DEF Normalizer
<1>2. n.lineages[i] \in Lineage
  BY <1>1
<1> QED BY <1>2 DEF Lineage

LEMMA EmptyTracks ==
  ASSUME NEW t \in Table
  PROVE  Tracks(EmptyNormalizer, t, t) /\ Len(EmptyNormalizer.lineages) = 0
BY DEF Tracks, EmptyNormalizer, Normalizer, Links, Content, Table

\* A lineage appended to the others.
LEMMA Appended ==
  ASSUME NEW s \in Seq(Lineage), NEW l \in Lineage
  PROVE  /\ Append(s, l) \in Seq(Lineage)
         /\ Len(Append(s, l)) = Len(s) + 1
         /\ DOMAIN Append(s, l) = 1 .. Len(s) + 1 /\ DOMAIN s = 1 .. Len(s)
         /\ Append(s, l)[Len(s) + 1] = l
         /\ \A i \in DOMAIN s : Append(s, l)[i] = s[i]
OBVIOUS

\* new_baseline of a row that is still there: nothing is known of it but the row.
LEMMA BaselineTracks ==
  ASSUME NEW n, NEW t \in Table, NEW s \in Table, Tracks(n, t, s),
         NEW k \in Key, s[k] # NoRow, n.live[k] = 0, n.origins[k] = 0
  PROVE  LET m == NewBaseline(n, k, TRUE)
         IN /\ Tracks(m, t, s) /\ m.live[k] # 0
            /\ Len(m.lineages) = Len(n.lineages) + 1
<1> DEFINE m == NewBaseline(n, k, TRUE)
           i == Len(n.lineages) + 1
           l == [origin |-> k, current |-> k, cells |-> Toast]
<1>1. /\ m.lineages = Append(n.lineages, l)
      /\ m.live = [n.live EXCEPT ![k] = i] /\ m.origins = [n.origins EXCEPT ![k] = i]
      /\ m = [lineages |-> m.lineages, live |-> m.live, origins |-> m.origins]
  BY DEF NewBaseline
<1>2. n \in Normalizer /\ n.lineages \in Seq(Lineage) /\ l \in Lineage /\ i \in Nat \ {0}
  BY DEF Tracks, Normalizer, Lineage, Cell
<1>3. /\ m.lineages \in Seq(Lineage) /\ Len(m.lineages) = i /\ m.lineages[i] = l
      /\ DOMAIN m.lineages = 1 .. i /\ DOMAIN n.lineages = 1 .. Len(n.lineages)
      /\ \A j \in DOMAIN n.lineages : m.lineages[j] = n.lineages[j]
  <2>1. Len(n.lineages) + 1 = i
    OBVIOUS
  <2> HIDE DEF i, l, m
  <2> QED BY <1>1, <1>2, <2>1, Appended
<1>4. /\ m.live[k] = i /\ m.origins[k] = i
      /\ \A x \in Key \ {k} : m.live[x] = n.live[x] /\ m.origins[x] = n.origins[x]
  BY <1>1, <1>2 DEF Normalizer
<1>5. m \in Normalizer
  BY <1>1, <1>2, <1>3 DEF Normalizer
<1> HIDE DEF m, l
<1>6. l.origin = k /\ l.current = k /\ l.cells = Toast
  BY DEF l
<1>7. Links(m)
  <2>1. ASSUME NEW j \in DOMAIN n.lineages
        PROVE  n.lineages[j].current # k /\ n.lineages[j].origin # k
    BY <1>2, ValuesAssumption, LineageFields DEF Tracks, Links
  <2>2. \A x \in Key : m.live[x] # 0 =>
          m.live[x] \in DOMAIN m.lineages /\ m.lineages[m.live[x]].current = x
    BY <1>2, <1>3, <1>4, <1>6 DEF Tracks, Links
  <2>3. \A j \in DOMAIN m.lineages :
          m.lineages[j].current # NoKey => m.live[m.lineages[j].current] = j
    BY <1>2, <1>3, <1>4, <1>6, <2>1, LineageFields DEF Tracks, Links
  <2>4. \A x \in Key : m.origins[x] # 0 =>
          m.origins[x] \in DOMAIN m.lineages /\ m.lineages[m.origins[x]].origin = x
    BY <1>2, <1>3, <1>4, <1>6 DEF Tracks, Links
  <2>5. \A j \in DOMAIN m.lineages :
          m.lineages[j].origin # NoKey => m.origins[m.lineages[j].origin] = j
    BY <1>2, <1>3, <1>4, <1>6, <2>1, LineageFields DEF Tracks, Links
  <2>6. \A x \in Key : m.live[x] # 0 /\ m.origins[x] \notin {0, m.live[x]} =>
          m.lineages[m.live[x]].origin = NoKey
    <3>1. \A x \in Key \ {k} : m.live[x] # 0 => m.lineages[m.live[x]] = n.lineages[n.live[x]]
      BY <1>3, <1>4 DEF Tracks, Links
    <3> QED BY <1>4, <3>1 DEF Tracks, Links
  <2> QED BY <2>2, <2>3, <2>4, <2>5, <2>6 DEF Links
<1>8. Content(m, t, s)
  <2>1. \A x \in Key \ {k} : m.live[x] # 0 => m.lineages[m.live[x]] = n.lineages[n.live[x]]
    BY <1>3, <1>4 DEF Tracks, Links
  <2>2. s[k] = t[k] /\ s[k] = RowOf(l, t) /\ l.origin # NoKey
    BY <1>6, ValuesAssumption DEF Tracks, Content, RowOf, MergeCell
  <2> QED BY <1>2, <1>3, <1>4, <2>1, <2>2 DEF Tracks, Content
<1> QED BY <1>2, <1>3, <1>4, <1>5, <1>7, <1>8 DEF Tracks, m

\* A lineage in the place of another one.
LEMMA Replaced ==
  ASSUME NEW s \in Seq(Lineage), NEW i \in DOMAIN s, NEW l \in Lineage
  PROVE  LET r == [s EXCEPT ![i] = l]
         IN /\ r \in Seq(Lineage) /\ Len(r) = Len(s) /\ DOMAIN r = DOMAIN s
            /\ r[i] = l /\ \A j \in DOMAIN s \ {i} : r[j] = s[j]
OBVIOUS

\* insert without a lineage to revive.
LEMMA NewLineageTracks ==
  ASSUME NEW n, NEW t \in Table, NEW s \in Table, Tracks(n, t, s),
         NEW k \in Key, NEW v \in Value, s[k] = NoRow, ~Revives(n, k)
  PROVE  LET p == PushInsert(n, k, v)
         IN Tracks(p, t, [s EXCEPT ![k] = v]) /\ Len(p.lineages) = Len(n.lineages) + 1
<1> DEFINE p == PushInsert(n, k, v)
           i == Len(n.lineages) + 1
           l == [origin |-> NoKey, current |-> k, cells |-> v]
           u == [s EXCEPT ![k] = v]
<1>1. n \in Normalizer /\ n.lineages \in Seq(Lineage) /\ l \in Lineage /\ i \in Nat \ {0}
  BY DEF Tracks, Normalizer, Lineage, Cell
<1>2. /\ p.lineages = Append(n.lineages, l)
      /\ p.live = [n.live EXCEPT ![k] = i] /\ p.origins = n.origins
      /\ p = [lineages |-> p.lineages, live |-> p.live, origins |-> p.origins]
  <2>1. p = [n EXCEPT !.lineages = Append(@, l), !.live[k] = i]
    BY DEF PushInsert
  <2> HIDE DEF p, l, i
  <2> QED BY <1>1, <2>1 DEF Normalizer
<1>3. /\ p.lineages \in Seq(Lineage) /\ Len(p.lineages) = i /\ p.lineages[i] = l
      /\ DOMAIN p.lineages = 1 .. i /\ DOMAIN n.lineages = 1 .. Len(n.lineages)
      /\ \A j \in DOMAIN n.lineages : p.lineages[j] = n.lineages[j]
  <2>1. Len(n.lineages) + 1 = i
    OBVIOUS
  <2> HIDE DEF i, l, p
  <2> QED BY <1>1, <1>2, <2>1, Appended
<1>4. p.live[k] = i /\ \A x \in Key \ {k} : p.live[x] = n.live[x]
  BY <1>1, <1>2 DEF Normalizer
<1>5. p \in Normalizer
  BY <1>1, <1>2, <1>3 DEF Normalizer
<1>6. u[k] = v /\ \A x \in Key \ {k} : u[x] = s[x]
  BY DEF Table
<1> HIDE DEF p, l, u
<1>7. l.origin = NoKey /\ l.current = k /\ l.cells = v /\ v \notin {NoRow, Toast}
  BY ValuesAssumption DEF l
<1>8. n.live[k] = 0
  BY DEF Tracks, Content
<1>9. \A x \in Key \ {k} : p.live[x] # 0 => p.lineages[p.live[x]] = n.lineages[n.live[x]]
  BY <1>3, <1>4 DEF Tracks, Links
<1>10. Links(p)
  <2>1. ASSUME NEW j \in DOMAIN n.lineages
        PROVE  n.lineages[j].current # k
    BY <1>1, <1>8, ValuesAssumption, LineageFields DEF Tracks, Links
  <2>2. \A x \in Key : p.live[x] # 0 =>
          p.live[x] \in DOMAIN p.lineages /\ p.lineages[p.live[x]].current = x
    BY <1>1, <1>3, <1>4, <1>7 DEF Tracks, Links
  <2>3. \A j \in DOMAIN p.lineages :
          p.lineages[j].current # NoKey => p.live[p.lineages[j].current] = j
    BY <1>1, <1>3, <1>4, <1>7, <2>1, LineageFields DEF Tracks, Links
  <2>4. \A x \in Key : p.origins[x] # 0 =>
          p.origins[x] \in DOMAIN p.lineages /\ p.lineages[p.origins[x]].origin = x
    BY <1>1, <1>2, <1>3 DEF Tracks, Links
  <2>5. \A j \in DOMAIN p.lineages :
          p.lineages[j].origin # NoKey => p.origins[p.lineages[j].origin] = j
    BY <1>1, <1>2, <1>3, <1>7 DEF Tracks, Links
  <2>6. \A x \in Key : p.live[x] # 0 /\ p.origins[x] \notin {0, p.live[x]} =>
          p.lineages[p.live[x]].origin = NoKey
    BY <1>2, <1>3, <1>4, <1>7, <1>9 DEF Tracks, Links
  <2> QED BY <2>2, <2>3, <2>4, <2>5, <2>6 DEF Links
<1>11. Content(p, t, u)
  <2>1. u[k] = RowOf(l, t)
    BY <1>6, <1>7 DEF RowOf, MergeCell
  <2>2. n.origins[k] = 0 => t[k] = NoRow
    BY <1>8 DEF Tracks, Content
  <2>3. ASSUME NEW x \in Key \ {k}
        PROVE  /\ p.live[x] = n.live[x] /\ u[x] = s[x]
               /\ p.live[x] # 0 => p.lineages[p.live[x]] = n.lineages[n.live[x]]
    BY <1>4, <1>6, <1>9
  <2>4. p.live[k] # 0 /\ p.lineages[p.live[k]] = l
    BY <1>1, <1>3, <1>4
  <2>5. \A x \in Key : p.origins[x] # 0 => t[x] # NoRow
    BY <1>2 DEF Tracks, Content
  <2>6. \A x \in Key : p.live[x] # 0 /\ p.origins[x] = 0 => t[x] = NoRow
    BY <1>2, <2>2, <2>3 DEF Tracks, Content
  <2>7. \A x \in Key : p.live[x] = 0 => u[x] = IF p.origins[x] = 0 THEN t[x] ELSE NoRow
    BY <1>2, <2>3, <2>4 DEF Tracks, Content
  <2>8. \A x \in Key : p.live[x] # 0 => u[x] # NoRow /\ u[x] = RowOf(p.lineages[p.live[x]], t)
    <3>1. \A x \in Key \ {k} : p.live[x] # 0 =>
            u[x] # NoRow /\ u[x] = RowOf(p.lineages[p.live[x]], t)
      BY <2>3 DEF Tracks, Content
    <3> QED BY <1>6, <1>7, <2>1, <2>4, <3>1
  <2>9. \A x \in Key : p.live[x] # 0 /\ p.lineages[p.live[x]].origin = NoKey =>
          p.lineages[p.live[x]].cells # Toast
    BY <1>7, <2>3, <2>4 DEF Tracks, Content
  <2> QED BY <2>5, <2>6, <2>7, <2>8, <2>9 DEF Content
<1> QED BY <1>3, <1>5, <1>10, <1>11 DEF Tracks, p, u

\* Lineage i of the normalizer n is replaced by l, which has the same origin and
\* lives at its current key, if it has one, and no longer where it lived; the rows
\* change from s to u.
Relinks(n, t, s, i, l, p, u) ==
  /\ i \in DOMAIN n.lineages /\ l \in Lineage /\ p \in Normalizer /\ u \in Table
  /\ l.origin = n.lineages[i].origin
  /\ p.lineages = [n.lineages EXCEPT ![i] = l] /\ p.origins = n.origins
  /\ \A k \in Key : p.live[k] = IF k = l.current THEN i
                                ELSE IF n.live[k] = i THEN 0 ELSE n.live[k]
  /\ l.current # NoKey =>
       /\ n.live[l.current] \in {0, i}
       /\ n.origins[l.current] \in {0, i} \/ l.origin = NoKey
       /\ n.live[l.current] = 0 => s[l.current] = NoRow
       /\ u[l.current] # NoRow /\ u[l.current] = RowOf(l, t)
       /\ l.origin = NoKey => l.cells # Toast
  /\ \A k \in Key : k # l.current => u[k] = IF n.live[k] = i THEN NoRow ELSE s[k]

LEMMA RelinkedTracks ==
  ASSUME NEW n, NEW t \in Table, NEW s \in Table, NEW i, NEW l, NEW p, NEW u,
         Tracks(n, t, s), Relinks(n, t, s, i, l, p, u)
  PROVE  Tracks(p, t, u) /\ Len(p.lineages) = Len(n.lineages)
<1> USE DEF Relinks
<1>1. n \in Normalizer /\ n.lineages \in Seq(Lineage) /\ DOMAIN n.lineages = 1 .. Len(n.lineages)
      /\ n.live \in [Key -> Nat] /\ n.origins \in [Key -> Nat] /\ i \in Nat \ {0}
  BY DEF Tracks, Normalizer
<1>2. /\ p.lineages \in Seq(Lineage) /\ Len(p.lineages) = Len(n.lineages)
      /\ DOMAIN p.lineages = DOMAIN n.lineages
      /\ p.lineages[i] = l /\ \A j \in DOMAIN n.lineages \ {i} : p.lineages[j] = n.lineages[j]
  BY <1>1, Replaced
<1>3. l.current \in Key \cup {NoKey} /\ l.origin \in Key \cup {NoKey}
  BY DEF Lineage
<1>4. \A k \in Key : p.live[k] # 0 /\ k # l.current =>
        p.live[k] # i /\ p.live[k] = n.live[k] /\ p.lineages[p.live[k]] = n.lineages[n.live[k]]
  BY <1>2 DEF Tracks, Links
<1>5. ASSUME NEW j \in DOMAIN n.lineages \ {i}, l.current # NoKey
      PROVE  n.lineages[j].current # l.current
  BY <1>1, <1>3, <1>5, LineageFields DEF Tracks, Links
<1>6. Links(p)
  <2>1. \A k \in Key : p.live[k] # 0 =>
          p.live[k] \in DOMAIN p.lineages /\ p.lineages[p.live[k]].current = k
    BY <1>1, <1>2, <1>4 DEF Tracks, Links
  <2>2. \A j \in DOMAIN p.lineages :
          p.lineages[j].current # NoKey => p.live[p.lineages[j].current] = j
    <3> SUFFICES ASSUME NEW j \in DOMAIN n.lineages, p.lineages[j].current # NoKey
                 PROVE  p.live[p.lineages[j].current] = j
      BY <1>2
    <3>1. CASE j = i
      BY <3>1, <1>2, <1>3
    <3>2. CASE j # i
      BY <3>2, <1>1, <1>2, <1>3, <1>5, LineageFields DEF Tracks, Links
    <3> QED BY <3>1, <3>2
  <2>3. \A k \in Key : p.origins[k] # 0 =>
          p.origins[k] \in DOMAIN p.lineages /\ p.lineages[p.origins[k]].origin = k
    BY <1>2 DEF Tracks, Links
  <2>4. \A j \in DOMAIN p.lineages :
          p.lineages[j].origin # NoKey => p.origins[p.lineages[j].origin] = j
    BY <1>2 DEF Tracks, Links
  <2>5. \A k \in Key : p.live[k] # 0 /\ p.origins[k] \notin {0, p.live[k]} =>
          p.lineages[p.live[k]].origin = NoKey
    <3> SUFFICES ASSUME NEW k \in Key, p.live[k] # 0, p.origins[k] \notin {0, p.live[k]}
                 PROVE  p.lineages[p.live[k]].origin = NoKey
      OBVIOUS
    <3>1. CASE k = l.current
      BY <3>1, <1>2, ValuesAssumption
    <3>2. CASE k # l.current
      BY <3>2, <1>4 DEF Tracks, Links
    <3> QED BY <3>1, <3>2
  <2> QED BY <2>1, <2>2, <2>3, <2>4, <2>5 DEF Links
<1>7. Content(p, t, u)
  <2>1. \A k \in Key : p.origins[k] # 0 => t[k] # NoRow
    BY DEF Tracks, Content
  <2>2. \A k \in Key : p.live[k] # 0 /\ p.origins[k] = 0 => t[k] = NoRow
    <3> SUFFICES ASSUME NEW k \in Key, p.live[k] # 0, p.origins[k] = 0
                 PROVE  t[k] = NoRow
      OBVIOUS
    <3>1. CASE k = l.current
      BY <3>1, <1>1, ValuesAssumption DEF Tracks, Content
    <3>2. CASE k # l.current
      BY <3>2, <1>4 DEF Tracks, Content
    <3> QED BY <3>1, <3>2
  <2>3. \A k \in Key : p.live[k] = 0 => u[k] = IF p.origins[k] = 0 THEN t[k] ELSE NoRow
    BY <1>1 DEF Tracks, Content
  <2>4. \A k \in Key : p.live[k] # 0 => u[k] # NoRow /\ u[k] = RowOf(p.lineages[p.live[k]], t)
    <3> SUFFICES ASSUME NEW k \in Key, p.live[k] # 0
                 PROVE  u[k] # NoRow /\ u[k] = RowOf(p.lineages[p.live[k]], t)
      OBVIOUS
    <3>1. CASE k = l.current
      BY <3>1, <1>2, ValuesAssumption
    <3>2. CASE k # l.current
      BY <3>2, <1>4 DEF Tracks, Content
    <3> QED BY <3>1, <3>2
  <2>5. \A k \in Key : p.live[k] # 0 /\ p.lineages[p.live[k]].origin = NoKey =>
          p.lineages[p.live[k]].cells # Toast
    <3> SUFFICES ASSUME NEW k \in Key, p.live[k] # 0, p.lineages[p.live[k]].origin = NoKey
                 PROVE  p.lineages[p.live[k]].cells # Toast
      OBVIOUS
    <3>1. CASE k = l.current
      BY <3>1, <1>2, ValuesAssumption
    <3>2. CASE k # l.current
      BY <3>2, <1>4 DEF Tracks, Content
    <3> QED BY <3>1, <3>2
  <2> QED BY <2>1, <2>2, <2>3, <2>4, <2>5 DEF Content
<1> QED BY <1>2, <1>6, <1>7 DEF Tracks

\* insert: into a row that was deleted in this batch, or a row of its own.
LEMMA PushInsertTracks ==
  ASSUME NEW n, NEW t \in Table, NEW s \in Table, Tracks(n, t, s),
         NEW k \in Key, NEW v \in Value, s[k] = NoRow
  PROVE  LET p == PushInsert(n, k, v)
         IN Tracks(p, t, [s EXCEPT ![k] = v]) /\ Len(p.lineages) <= Len(n.lineages) + 1
<1>1. n \in Normalizer /\ n.lineages \in Seq(Lineage) /\ Len(n.lineages) \in Nat
  BY DEF Tracks, Normalizer
<1>2. CASE ~Revives(n, k)
  BY <1>1, <1>2, NewLineageTracks
<1>3. CASE Revives(n, k)
  <2> DEFINE p == PushInsert(n, k, v)
             u == [s EXCEPT ![k] = v]
             i == n.origins[k]
             l == [n.lineages[i] EXCEPT !.current = k, !.cells = v]
  <2>1. i \in DOMAIN n.lineages /\ n.lineages[i].origin = k /\ n.lineages[i].current = NoKey
    BY <1>3 DEF Revives, Tracks, Links
  <2>2. n.lineages[i] \in Lineage
    BY <1>1, <2>1
  <2>3. l \in Lineage /\ l.origin = k /\ l.current = k /\ l.cells = v
    BY <2>1, <2>2 DEF Lineage, Cell
  <2>4. /\ p.lineages = [n.lineages EXCEPT ![i] = l] /\ p.origins = n.origins
        /\ p.live = [n.live EXCEPT ![k] = i]
        /\ p = [lineages |-> p.lineages, live |-> p.live, origins |-> p.origins]
    <3>1. p = [n EXCEPT !.lineages = [@ EXCEPT ![i].current = k, ![i].cells = v], !.live[k] = i]
      BY <1>3 DEF PushInsert
    <3>2. [n.lineages EXCEPT ![i].current = k, ![i].cells = v] = [n.lineages EXCEPT ![i] = l]
      BY <1>1, <2>1
    <3> HIDE DEF p, l, i
    <3> QED BY <1>1, <3>1, <3>2 DEF Normalizer
  <2>5. i \in Nat \ {0} /\ n.live[k] = 0 /\ n.live \in [Key -> Nat] /\ n.origins \in [Key -> Nat]
    BY <1>1, <1>3 DEF Revives, Normalizer, Tracks, Content
  <2>6. u \in Table /\ u[k] = v /\ v \notin {NoRow, Toast} /\ \A x \in Key \ {k} : u[x] = s[x]
    BY ValuesAssumption DEF Table
  <2> HIDE DEF p, u, l, i
  <2>7. p \in Normalizer
    <3>1. p.lineages \in Seq(Lineage)
      BY <1>1, <2>1, <2>3, <2>4, Replaced
    <3>2. p.live \in [Key -> Nat]
      BY <2>4, <2>5
    <3> QED BY <2>4, <2>5, <3>1, <3>2 DEF Normalizer
  <2>8. \A x \in Key : n.live[x] # i
    BY <2>1, <2>5, ValuesAssumption DEF Tracks, Links
  <2>9. u[k] = RowOf(l, t) /\ k # NoKey
    BY <2>3, <2>6, ValuesAssumption DEF RowOf, MergeCell
  <2>10. \A x \in Key : p.live[x] = IF x = l.current THEN i
                                    ELSE IF n.live[x] = i THEN 0 ELSE n.live[x]
    BY <2>3, <2>4, <2>5, <2>8
  <2>11. Tracks(p, t, u) /\ Len(p.lineages) = Len(n.lineages)
    <3>1. l.origin = n.lineages[i].origin /\ n.origins[l.current] \in {0, i} /\ n.live[l.current] = 0
      BY <2>1, <2>3, <2>5 DEF i
    <3>2. \A x \in Key : x # l.current => u[x] = IF n.live[x] = i THEN NoRow ELSE s[x]
      BY <2>3, <2>6, <2>8
    <3>3. Relinks(n, t, s, i, l, p, u)
      BY <2>1, <2>3, <2>4, <2>6, <2>7, <2>9, <2>10, <3>1, <3>2 DEF Relinks
    <3> QED BY <3>3, RelinkedTracks
  <2> QED BY <1>1, <2>11 DEF p, u
<1> QED BY <1>2, <1>3

\* update of a key that lives, after the baseline of its row was recorded, and
\* delete of one.
Moved(n, old, new, cell) ==
  [n EXCEPT !.lineages[n.live[old]].current = new,
            !.lineages[n.live[old]].cells = MergeCell(@, cell),
            !.live = [@ EXCEPT ![old] = 0, ![new] = n.live[old]]]
Dead(n, k) == [n EXCEPT !.lineages[n.live[k]].current = NoKey, !.live[k] = 0]

LEMMA MovedTracks ==
  ASSUME NEW n, NEW t \in Table, NEW s \in Table, Tracks(n, t, s),
         NEW old \in Key, NEW new \in Key, NEW v \in Value, NEW cell \in {v, Toast},
         n.live[old] # 0, s[new] = NoRow \/ new = old, cell = Toast => v = s[old],
         old # new => n.live[new] = 0 /\ ~TakenOrigin(n, n.live[old], new),
         NEW p, p = Moved(n, old, new, cell)
  PROVE  Tracks(p, t, [s EXCEPT ![old] = NoRow, ![new] = v]) /\ Len(p.lineages) = Len(n.lineages)
<1> DEFINE u == [s EXCEPT ![old] = NoRow, ![new] = v]
           i == n.live[old]
           l == [n.lineages[i] EXCEPT !.current = new, !.cells = MergeCell(@, cell)]
<1>1. n \in Normalizer /\ n.lineages \in Seq(Lineage)
      /\ n.live \in [Key -> Nat] /\ n.origins \in [Key -> Nat]
  BY DEF Tracks, Normalizer
<1>2. i \in DOMAIN n.lineages /\ n.lineages[i].current = old /\ i \in Nat \ {0}
  BY <1>1 DEF Tracks, Links
<1>3. n.lineages[i] \in Lineage
  BY <1>1, <1>2
<1>4. /\ l \in Lineage /\ l.origin = n.lineages[i].origin /\ l.current = new
      /\ l.cells = MergeCell(n.lineages[i].cells, cell)
  BY <1>3 DEF Lineage, Cell, MergeCell
<1>5. /\ p.lineages = [n.lineages EXCEPT ![i] = l] /\ p.origins = n.origins
      /\ p.live = [n.live EXCEPT ![old] = 0, ![new] = i]
      /\ p = [lineages |-> p.lineages, live |-> p.live, origins |-> p.origins]
  <2>1. [n.lineages EXCEPT ![i].current = new, ![i].cells = MergeCell(@, cell)]
          = [n.lineages EXCEPT ![i] = l]
    BY <1>1, <1>2, <1>3 DEF Lineage
  <2>2. p = [n EXCEPT !.lineages = [n.lineages EXCEPT ![i].current = new,
                                      ![i].cells = MergeCell(@, cell)],
                      !.live = [n.live EXCEPT ![old] = 0, ![new] = i]]
    BY <1>1, <1>2, <1>3 DEF Normalizer, Moved
  <2> HIDE DEF l, i
  <2> QED BY <1>1, <2>1, <2>2 DEF Normalizer
<1>6. u \in Table /\ u[new] = v /\ v \notin {NoRow, Toast}
      /\ \A x \in Key \ {new} : u[x] = IF x = old THEN NoRow ELSE s[x]
  BY ValuesAssumption DEF Table
<1>7. s[old] # NoRow /\ s[old] = RowOf(n.lineages[i], t)
      /\ (n.lineages[i].origin = NoKey => n.lineages[i].cells # Toast)
  BY DEF Tracks, Content
<1> HIDE DEF u, l, i
<1>8. p \in Normalizer
  <2>1. p.lineages \in Seq(Lineage)
    BY <1>1, <1>2, <1>4, <1>5, Replaced
  <2>2. p.live \in [Key -> Nat]
    BY <1>1, <1>2, <1>5
  <2> QED BY <1>1, <1>5, <2>1, <2>2 DEF Normalizer
<1>9. \A x \in Key : n.live[x] = i <=> x = old
  BY <1>2 DEF Tracks, Links, i
<1>10. u[new] = RowOf(l, t) /\ new # NoKey /\ (l.origin = NoKey => l.cells # Toast)
  BY <1>4, <1>6, <1>7, ValuesAssumption DEF RowOf, MergeCell
<1>11. \A x \in Key : p.live[x] = IF x = l.current THEN i
                                  ELSE IF n.live[x] = i THEN 0 ELSE n.live[x]
  BY <1>1, <1>4, <1>5, <1>9
<1>12. /\ n.live[new] \in {0, i} /\ (n.live[new] = 0 => s[new] = NoRow)
       /\ n.origins[new] \in {0, i} \/ l.origin = NoKey
  BY <1>1, <1>2, <1>4, <1>9 DEF TakenOrigin, i, Tracks, Links
<1>13. \A x \in Key : x # l.current => u[x] = IF n.live[x] = i THEN NoRow ELSE s[x]
  BY <1>4, <1>6, <1>9
<1>14. Relinks(n, t, s, i, l, p, u)
  BY <1>2, <1>4, <1>5, <1>6, <1>8, <1>10, <1>11, <1>12, <1>13 DEF Relinks
<1>15. Tracks(p, t, u) /\ Len(p.lineages) = Len(n.lineages)
  BY <1>14, RelinkedTracks
<1> QED BY <1>15 DEF u

DeadLineages(n, k) == [n.lineages EXCEPT ![n.live[k]] = [@ EXCEPT !.current = NoKey]]
LiveWithout(n, k) == [n.live EXCEPT ![k] = 0]

LEMMA DeadFields ==
  ASSUME NEW n, NEW t \in Table, NEW s \in Table, Tracks(n, t, s),
         NEW k \in Key, n.live[k] # 0,
         NEW p, p = Dead(n, k)
  PROVE  /\ p.lineages = DeadLineages(n, k)
         /\ p.live = LiveWithout(n, k) /\ p.origins = n.origins
         /\ p = [lineages |-> p.lineages, live |-> p.live, origins |-> p.origins]
<1>1. n \in Normalizer /\ n.lineages \in Seq(Lineage)
  BY DEF Tracks, Normalizer
<1>2. n.live[k] \in DOMAIN n.lineages
  BY <1>1 DEF Tracks, Links
<1> QED BY <1>1, <1>2 DEF Normalizer, Dead, DeadLineages, LiveWithout

LEMMA DeadTracks ==
  ASSUME NEW n, NEW t \in Table, NEW s \in Table, Tracks(n, t, s),
         NEW k \in Key, n.live[k] # 0,
         NEW p, p = Dead(n, k)
  PROVE  Tracks(p, t, [s EXCEPT ![k] = NoRow]) /\ Len(p.lineages) = Len(n.lineages)
<1> DEFINE u == [s EXCEPT ![k] = NoRow]
           i == n.live[k]
           l == [n.lineages[i] EXCEPT !.current = NoKey]
<1>1. n \in Normalizer /\ n.lineages \in Seq(Lineage)
      /\ n.live \in [Key -> Nat] /\ n.origins \in [Key -> Nat]
  BY DEF Tracks, Normalizer
<1>2. i \in DOMAIN n.lineages /\ n.lineages[i].current = k /\ i \in Nat \ {0}
  BY <1>1 DEF Tracks, Links
<1>3. n.lineages[i] \in Lineage
  BY <1>1, <1>2
<1>4. l \in Lineage /\ l.origin = n.lineages[i].origin /\ l.current = NoKey
  BY <1>3 DEF Lineage
<1>5. /\ p.lineages = [n.lineages EXCEPT ![i] = l] /\ p.origins = n.origins
      /\ p.live = [n.live EXCEPT ![k] = 0]
      /\ p = [lineages |-> p.lineages, live |-> p.live, origins |-> p.origins]
  <2>1. /\ p.lineages = DeadLineages(n, k)
        /\ p.live = LiveWithout(n, k) /\ p.origins = n.origins
        /\ p = [lineages |-> p.lineages, live |-> p.live, origins |-> p.origins]
    BY DeadFields
  <2> QED BY <2>1 DEF DeadLineages, LiveWithout
<1>6. u \in Table /\ \A x \in Key : u[x] = IF x = k THEN NoRow ELSE s[x]
  BY DEF Table
<1> HIDE DEF u, l, i
<1>7. p \in Normalizer
  <2>1. p.lineages \in Seq(Lineage)
    BY <1>1, <1>2, <1>4, <1>5, Replaced
  <2>2. p.live \in [Key -> Nat]
    BY <1>1, <1>2, <1>5
  <2> QED BY <1>1, <1>5, <2>1, <2>2 DEF Normalizer
<1>8. \A x \in Key : n.live[x] = i <=> x = k
  BY <1>2 DEF Tracks, Links, i
<1>9. \A x \in Key : p.live[x] = IF x = l.current THEN i
                                 ELSE IF n.live[x] = i THEN 0 ELSE n.live[x]
  BY <1>1, <1>4, <1>5, <1>8, ValuesAssumption
<1>10. \A x \in Key : x # l.current => u[x] = IF n.live[x] = i THEN NoRow ELSE s[x]
  BY <1>6, <1>8
<1>11. Relinks(n, t, s, i, l, p, u)
  BY <1>2, <1>4, <1>5, <1>6, <1>7, <1>9, <1>10 DEF Relinks
<1>12. Tracks(p, t, u) /\ Len(p.lineages) = Len(n.lineages)
  BY <1>11, RelinkedTracks
<1> QED BY <1>12 DEF u

\* The normalizer after the baseline of a row that is there was recorded.
LEMMA WithBaselineTracks ==
  ASSUME NEW n, NEW t \in Table, NEW s \in Table, Tracks(n, t, s),
         NEW k \in Key, s[k] # NoRow
  PROVE  LET m == WithBaseline(n, k, TRUE)
         IN /\ Tracks(m, t, s) /\ m.live[k] # 0
            /\ Len(m.lineages) <= Len(n.lineages) + 1
            /\ ~LostBaseline(n, k)
<1>1. Len(n.lineages) \in Nat
  BY DEF Tracks, Normalizer
<1>2. CASE n.live[k] = 0
  <2>1. n.origins[k] = 0
    BY <1>2 DEF Tracks, Content
  <2>2. WithBaseline(n, k, TRUE) = NewBaseline(n, k, TRUE)
    BY <1>2 DEF WithBaseline
  <2> DEFINE m == NewBaseline(n, k, TRUE)
  <2>3. Tracks(m, t, s) /\ m.live[k] # 0 /\ Len(m.lineages) = Len(n.lineages) + 1
    BY <1>2, <2>1, BaselineTracks
  <2>4. WithBaseline(n, k, TRUE) = m /\ ~LostBaseline(n, k)
    BY <2>1, <2>2 DEF LostBaseline
  <2> HIDE DEF m
  <2>5. Len(m.lineages) <= Len(n.lineages) + 1
    BY <1>1, <2>3
  <2> QED BY <2>3, <2>4, <2>5
<1>3. CASE n.live[k] # 0
  BY <1>1, <1>3 DEF WithBaseline, LostBaseline
<1> QED BY <1>2, <1>3

LEMMA PushUpdateTracks ==
  ASSUME NEW n, NEW t \in Table, NEW s \in Table, Tracks(n, t, s),
         NEW old \in Key, NEW new \in Key, NEW v \in Value, NEW cell \in {v, Toast},
         s[old] # NoRow, s[new] = NoRow \/ new = old, cell = Toast => v = s[old],
         ~UpdateRefused(n, old, new)
  PROVE  LET p == PushUpdate(n, old, new, cell)
         IN /\ Tracks(p, t, [s EXCEPT ![old] = NoRow, ![new] = v])
            /\ Len(p.lineages) <= Len(n.lineages) + 1
<1> DEFINE m == WithBaseline(n, old, TRUE)
<1>1. Tracks(m, t, s) /\ m.live[old] # 0 /\ Len(m.lineages) <= Len(n.lineages) + 1
  BY WithBaselineTracks
<1>2. old # new => m.live[new] = 0 /\ ~TakenOrigin(m, m.live[old], new)
  BY DEF UpdateRefused
<1>3. PushUpdate(n, old, new, cell) = Moved(m, old, new, cell)
  BY DEF PushUpdate, Moved
<1> HIDE DEF m
<1>4. /\ Tracks(Moved(m, old, new, cell), t, [s EXCEPT ![old] = NoRow, ![new] = v])
      /\ Len(Moved(m, old, new, cell).lineages) = Len(m.lineages)
  BY <1>1, <1>2, MovedTracks
<1> QED BY <1>1, <1>3, <1>4

LEMMA PushDeleteTracks ==
  ASSUME NEW n, NEW t \in Table, NEW s \in Table, Tracks(n, t, s),
         NEW k \in Key, s[k] # NoRow
  PROVE  LET p == PushDelete(n, k)
         IN Tracks(p, t, [s EXCEPT ![k] = NoRow]) /\ Len(p.lineages) <= Len(n.lineages) + 1
<1> DEFINE m == WithBaseline(n, k, TRUE)
           p == PushDelete(n, k)
<1>1. Tracks(m, t, s) /\ m.live[k] # 0 /\ Len(m.lineages) <= Len(n.lineages) + 1
  BY WithBaselineTracks
<1>2. p = Dead(m, k)
  <2>1. CASE n.live[k] # 0
    BY <2>1 DEF PushDelete, WithBaseline, Dead
  <2>2. CASE n.live[k] = 0
    <3> DEFINE d == WithBaseline(n, k, FALSE)
               i == Len(n.lineages) + 1
               l == [origin |-> k, current |-> k, cells |-> Toast]
               e == [origin |-> k, current |-> NoKey, cells |-> Toast]
    <3>1. n.lineages \in Seq(Lineage) /\ n.live \in [Key -> Nat] /\ n.origins \in [Key -> Nat]
      BY DEF Tracks, Normalizer
    <3>2. /\ d = [lineages |-> Append(n.lineages, e), live |-> n.live,
                  origins |-> [n.origins EXCEPT ![k] = i]]
          /\ m = [lineages |-> Append(n.lineages, l), live |-> [n.live EXCEPT ![k] = i],
                  origins |-> [n.origins EXCEPT ![k] = i]]
      BY <2>2 DEF WithBaseline, NewBaseline
    <3>3. p = [d EXCEPT !.lineages[d.origins[k]].current = NoKey, !.live[k] = 0]
      BY <2>2 DEF PushDelete
    <3>4. d.origins[k] = i /\ m.live[k] = i /\ i \in Nat
      <4>1. [n.origins EXCEPT ![k] = i][k] = i /\ [n.live EXCEPT ![k] = i][k] = i /\ i \in Nat
        BY <3>1
      <4> HIDE DEF d, m, i, e, l
      <4> QED BY <3>2, <4>1
    <3>5. e \in Lineage /\ l \in Lineage /\ [e EXCEPT !.current = NoKey] = e
          /\ [l EXCEPT !.current = NoKey] = e
      BY DEF Lineage, Cell
    <3> HIDE DEF d, m, p, e, l
    <3>6. [Append(n.lineages, e) EXCEPT ![i].current = NoKey] = Append(n.lineages, e)
          /\ [Append(n.lineages, l) EXCEPT ![i].current = NoKey] = Append(n.lineages, e)
      <4>1. /\ Append(n.lineages, e)[i] = e /\ Append(n.lineages, l)[i] = l
            /\ i \in DOMAIN Append(n.lineages, e) /\ i \in DOMAIN Append(n.lineages, l)
        BY <3>1, <3>5
      <4>2. [Append(n.lineages, l) EXCEPT ![i] = e] = Append(n.lineages, e)
        <5> DEFINE a == Append(n.lineages, l)
                   b == Append(n.lineages, e)
                   r == [a EXCEPT ![i] = e]
        <5>1. a \in Seq(Lineage) /\ b \in Seq(Lineage) /\ Len(a) = i /\ Len(b) = i
          BY <3>1, <3>5
        <5>2. r \in Seq(Lineage) /\ Len(r) = i
          BY <3>5, <4>1, <5>1
        <5>3. \A j \in 1 .. i : r[j] = b[j]
          <6>1. r[i] = b[i]
            BY <4>1, <5>1
          <6>2. ASSUME NEW j \in 1 .. i, j # i
                PROVE  r[j] = b[j]
            <7>1. j \in DOMAIN n.lineages /\ a[j] = n.lineages[j] /\ b[j] = n.lineages[j]
              BY <3>1, <3>5, <6>2
            <7> HIDE DEF a, b
            <7>2. r[j] = a[j]
              BY <5>1, <6>2
            <7> QED BY <7>1, <7>2
          <6> QED BY <6>1, <6>2
        <5> HIDE DEF r, a, b
        <5>4. r = b
          BY <5>1, <5>2, <5>3, SeqEqual
        <5> QED BY <5>4 DEF r, a, b
      <4> HIDE DEF i
      <4> QED BY <3>1, <3>5, <4>1, <4>2
    <3>7. [n.live EXCEPT ![k] = 0] = [[n.live EXCEPT ![k] = i] EXCEPT ![k] = 0]
      BY <3>1
    <3>8. p = [lineages |-> Append(n.lineages, e), live |-> [n.live EXCEPT ![k] = 0],
               origins |-> [n.origins EXCEPT ![k] = i]]
      BY <3>2, <3>3, <3>4, <3>6
    <3>9. Dead(m, k) =
            [lineages |-> Append(n.lineages, e), live |-> [n.live EXCEPT ![k] = 0],
             origins |-> [n.origins EXCEPT ![k] = i]]
      <4> DEFINE q == Dead(m, k)
      <4>1. /\ q.lineages = [m.lineages EXCEPT ![i] = [@ EXCEPT !.current = NoKey]]
            /\ q.live = [m.live EXCEPT ![k] = 0] /\ q.origins = m.origins
            /\ q = [lineages |-> q.lineages, live |-> q.live, origins |-> q.origins]
        <5>1. /\ q.lineages = DeadLineages(m, k)
              /\ q.live = LiveWithout(m, k) /\ q.origins = m.origins
              /\ q = [lineages |-> q.lineages, live |-> q.live, origins |-> q.origins]
          BY <1>1, DeadFields
        <5> HIDE DEF q, i
        <5> QED BY <3>4, <5>1 DEF DeadLineages, LiveWithout
      <4>2. /\ m.lineages = Append(n.lineages, l) /\ m.live = [n.live EXCEPT ![k] = i]
            /\ m.origins = [n.origins EXCEPT ![k] = i]
        BY <3>2
      <4> HIDE DEF q, i
      <4>3. q.lineages = Append(n.lineages, e)
        BY <3>6, <4>1, <4>2
      <4> QED BY <3>7, <4>1, <4>2, <4>3 DEF q
    <3> QED BY <3>8, <3>9
  <2> QED BY <2>1, <2>2
<1> HIDE DEF m, p
<1>3. Tracks(p, t, [s EXCEPT ![k] = NoRow]) /\ Len(p.lineages) = Len(m.lineages)
  BY <1>1, <1>2, DeadTracks
<1> QED BY <1>1, <1>3 DEF p

-----------------------------------------------------------------------------
(* The staging table, by key: what each of its three kinds of rows says. *)

Deletes(n, k) ==
  n.live[k] = 0 /\ n.origins[k] # 0 /\ n.lineages[n.origins[k]].current = NoKey
Upserts(n, k) == n.live[k] # 0 /\ n.lineages[n.live[k]].origin \in {NoKey, k}
Moves(n, k) == n.live[k] # 0 /\ n.lineages[n.live[k]].origin \notin {NoKey, k}

DeleteRow(k) == [op |-> "D", key |-> k, cell |-> Toast, old |-> NoKey]
UpsertRow(n, k) ==
  [op |-> "U", key |-> k, cell |-> n.lineages[n.live[k]].cells, old |-> NoKey]
MoveRow(n, k) ==
  [op |-> "M", key |-> k, cell |-> n.lineages[n.live[k]].cells,
   old |-> n.lineages[n.live[k]].origin]

\* A lineage's staging row is the one of its key.
LEMMA StagingByKey ==
  ASSUME NEW n \in Normalizer, Links(n), NEW i \in DOMAIN Staging(n)
  PROVE  LET r == Staging(n)[i]
         IN \/ \E k \in Key : Deletes(n, k) /\ r = DeleteRow(k) /\ i = n.origins[k]
            \/ \E k \in Key : Upserts(n, k) /\ r = UpsertRow(n, k) /\ i = n.live[k]
            \/ \E k \in Key : Moves(n, k) /\ r = MoveRow(n, k) /\ i = n.live[k]
<1> DEFINE l == n.lineages[i]
<1>1. i \in DOMAIN n.lineages /\ Emits(n, i) /\ Staging(n)[i] = StagingRow(n, i)
  BY DEF Staging
<1>2. l.origin \in Key \cup {NoKey} /\ l.current \in Key \cup {NoKey}
  BY <1>1, LineageFields
<1>3. i # 0
  BY <1>1 DEF Normalizer
<1>4. CASE l.current = NoKey
  <2>1. l.origin \in Key /\ n.live[l.origin] = 0 /\ n.origins[l.origin] = i
    BY <1>1, <1>2, <1>4 DEF Emits, Links
  <2>2. StagingRow(n, i) = DeleteRow(l.origin)
    BY <1>4 DEF StagingRow, DeleteRow
  <2> QED BY <1>1, <1>3, <1>4, <2>1, <2>2 DEF Deletes
<1>5. CASE l.current # NoKey
  <2>1. l.current \in Key /\ n.live[l.current] = i
    BY <1>1, <1>2, <1>5 DEF Links
  <2>2. StagingRow(n, i) = IF l.origin \in {NoKey, l.current} THEN UpsertRow(n, l.current)
                           ELSE MoveRow(n, l.current)
    BY <1>5, <2>1 DEF StagingRow, UpsertRow, MoveRow
  <2> QED BY <1>1, <1>3, <2>1, <2>2 DEF Upserts, Moves
<1> QED BY <1>4, <1>5

\* Every key that has something to say has its row.
LEMMA KeysAreStaged ==
  ASSUME NEW n \in Normalizer, Links(n), NEW k \in Key
  PROVE  /\ Deletes(n, k) =>
              n.origins[k] \in DOMAIN Staging(n) /\ Staging(n)[n.origins[k]] = DeleteRow(k)
         /\ Upserts(n, k) =>
              n.live[k] \in DOMAIN Staging(n) /\ Staging(n)[n.live[k]] = UpsertRow(n, k)
         /\ Moves(n, k) =>
              n.live[k] \in DOMAIN Staging(n) /\ Staging(n)[n.live[k]] = MoveRow(n, k)
<1>1. ASSUME Deletes(n, k)
      PROVE  n.origins[k] \in DOMAIN Staging(n) /\ Staging(n)[n.origins[k]] = DeleteRow(k)
  <2>1. n.origins[k] \in DOMAIN n.lineages /\ n.lineages[n.origins[k]].origin = k
        /\ n.lineages[n.origins[k]].current = NoKey /\ n.live[k] = 0
    BY <1>1 DEF Deletes, Links
  <2>2. Emits(n, n.origins[k]) /\ StagingRow(n, n.origins[k]) = DeleteRow(k)
    BY <2>1, ValuesAssumption DEF Emits, StagingRow, DeleteRow
  <2> QED BY <2>1, <2>2 DEF Staging
<1>2. ASSUME n.live[k] # 0
      PROVE  /\ n.live[k] \in DOMAIN Staging(n)
             /\ Staging(n)[n.live[k]] =
                  IF n.lineages[n.live[k]].origin \in {NoKey, k} THEN UpsertRow(n, k)
                  ELSE MoveRow(n, k)
  <2>1. n.live[k] \in DOMAIN n.lineages /\ n.lineages[n.live[k]].current = k
    BY <1>2 DEF Links
  <2>2. /\ Emits(n, n.live[k])
        /\ StagingRow(n, n.live[k]) =
             IF n.lineages[n.live[k]].origin \in {NoKey, k} THEN UpsertRow(n, k)
             ELSE MoveRow(n, k)
    BY <2>1, ValuesAssumption DEF Emits, StagingRow, UpsertRow, MoveRow
  <2> QED BY <2>1, <2>2 DEF Staging
<1> QED BY <1>1, <1>2 DEF Upserts, Moves

LEMMA DeleteRowKind ==
  ASSUME NEW k
  PROVE  DeleteRow(k).op = "D" /\ DeleteRow(k).key = k
BY DEF DeleteRow

LEMMA RowKinds ==
  ASSUME NEW n, NEW k
  PROVE  /\ UpsertRow(n, k).op = "U" /\ UpsertRow(n, k).key = k
         /\ UpsertRow(n, k).cell = n.lineages[n.live[k]].cells
         /\ MoveRow(n, k).op = "M" /\ MoveRow(n, k).key = k
         /\ MoveRow(n, k).cell = n.lineages[n.live[k]].cells
         /\ MoveRow(n, k).old = n.lineages[n.live[k]].origin
BY DEF UpsertRow, MoveRow

\* The three sets of rows that the apply statements work on.
LEMMA StagedRows ==
  ASSUME NEW n \in Normalizer, Links(n)
  PROVE  /\ Rows(Staging(n), "D") = {DeleteRow(k) : k \in {x \in Key : Deletes(n, x)}}
         /\ Rows(Staging(n), "U") = {UpsertRow(n, k) : k \in {x \in Key : Upserts(n, x)}}
         /\ Rows(Staging(n), "M") = {MoveRow(n, k) : k \in {x \in Key : Moves(n, x)}}
<1> DEFINE g == Staging(n)
<1>1. ASSUME NEW r, NEW op
      PROVE  r \in Rows(g, op) <=> \E i \in DOMAIN g : g[i].op = op /\ r = g[i]
  BY DEF Rows
<1>2. ASSUME NEW i \in DOMAIN g
      PROVE  \/ \E k \in Key : Deletes(n, k) /\ g[i] = DeleteRow(k)
             \/ \E k \in Key : Upserts(n, k) /\ g[i] = UpsertRow(n, k)
             \/ \E k \in Key : Moves(n, k) /\ g[i] = MoveRow(n, k)
  BY StagingByKey
<1>3. ASSUME NEW k \in Key
      PROVE  /\ Deletes(n, k) => \E i \in DOMAIN g : g[i] = DeleteRow(k)
             /\ Upserts(n, k) => \E i \in DOMAIN g : g[i] = UpsertRow(n, k)
             /\ Moves(n, k) => \E i \in DOMAIN g : g[i] = MoveRow(n, k)
  BY KeysAreStaged
<1> HIDE DEF g
<1>4. ASSUME NEW r
      PROVE  r \in Rows(g, "D") <=> \E k \in Key : Deletes(n, k) /\ r = DeleteRow(k)
  BY <1>1, <1>2, <1>3, RowKinds, DeleteRowKind
<1>5. ASSUME NEW r
      PROVE  r \in Rows(g, "U") <=> \E k \in Key : Upserts(n, k) /\ r = UpsertRow(n, k)
  BY <1>1, <1>2, <1>3, RowKinds, DeleteRowKind
<1>6. ASSUME NEW r
      PROVE  r \in Rows(g, "M") <=> \E k \in Key : Moves(n, k) /\ r = MoveRow(n, k)
  BY <1>1, <1>2, <1>3, RowKinds, DeleteRowKind
<1>7. Rows(g, "D") = {DeleteRow(k) : k \in {x \in Key : Deletes(n, x)}}
  BY <1>4
<1>8. Rows(g, "U") = {UpsertRow(n, k) : k \in {x \in Key : Upserts(n, x)}}
  BY <1>5
<1>9. Rows(g, "M") = {MoveRow(n, k) : k \in {x \in Key : Moves(n, x)}}
  BY <1>6
<1> QED BY <1>7, <1>8, <1>9 DEF g

\* Only what is not live any more is moved away from: the old keys of the moves.
LEMMA MovedFrom ==
  ASSUME NEW n \in Normalizer, Links(n), NEW k \in Key, Moves(n, k)
  PROVE  LET o == n.lineages[n.live[k]].origin
         IN /\ o \in Key /\ o # k /\ n.origins[o] = n.live[k] /\ n.origins[k] = 0
            /\ ~Deletes(n, o)
<1>1. n.live[k] \in DOMAIN n.lineages /\ n.lineages[n.live[k]].current = k
  BY DEF Moves, Links
<1>2. n.lineages[n.live[k]].origin \in Key /\ n.lineages[n.live[k]].origin # k
  BY <1>1, LineageFields DEF Moves
<1>3. n.origins[n.lineages[n.live[k]].origin] = n.live[k]
  BY <1>1, <1>2, ValuesAssumption DEF Links
<1>4. n.origins[k] = 0
  BY <1>2 DEF Moves, Links
<1> QED BY <1>1, <1>2, <1>3, <1>4, ValuesAssumption DEF Deletes

\* validation_sql accepts what the normalizer made of a batch.
LEMMA FoldIsValid ==
  ASSUME NEW n, NEW t \in Table, NEW s \in Table, Tracks(n, t, s)
  PROVE  ValidBatch(t, Staging(n))
<1> DEFINE g == Staging(n)
<1>1. n \in Normalizer /\ Links(n)
  BY DEF Tracks
<1>2. ASSUME NEW i \in DOMAIN g
      PROVE  \/ \E k \in Key : Deletes(n, k) /\ g[i] = DeleteRow(k) /\ i = n.origins[k]
             \/ \E k \in Key : Upserts(n, k) /\ g[i] = UpsertRow(n, k) /\ i = n.live[k]
             \/ \E k \in Key : Moves(n, k) /\ g[i] = MoveRow(n, k) /\ i = n.live[k]
  BY <1>1, StagingByKey
<1> HIDE DEF g
<1>3. ASSUME NEW i \in DOMAIN g, g[i].op = "M"
      PROVE  /\ g[i].old # g[i].key
             /\ (t[g[i].key] = NoRow) # (t[g[i].old] = NoRow)
  <2>1. PICK k \in Key : Moves(n, k) /\ g[i] = MoveRow(n, k)
    BY <1>2, <1>3, RowKinds, DeleteRowKind
  <2> DEFINE o == n.lineages[n.live[k]].origin
  <2>2. o \in Key /\ o # k /\ n.origins[o] = n.live[k] /\ n.origins[k] = 0 /\ n.live[k] # 0
    BY <1>1, <2>1, MovedFrom DEF Moves
  <2>3. t[k] = NoRow /\ t[o] # NoRow
    BY <2>2 DEF Tracks, Content
  <2> QED BY <2>1, <2>2, <2>3, RowKinds
<1>4. ASSUME NEW i \in DOMAIN g, g[i].op = "U", t[g[i].key] = NoRow
      PROVE  g[i].cell # Toast
  <2>1. PICK k \in Key : Upserts(n, k) /\ g[i] = UpsertRow(n, k)
    BY <1>2, <1>4, RowKinds, DeleteRowKind
  <2>2. t[k] = NoRow /\ g[i].cell = n.lineages[n.live[k]].cells
    BY <1>4, <2>1, RowKinds
  <2>3. n.lineages[n.live[k]].origin # k
    <3>1. SUFFICES ASSUME n.lineages[n.live[k]].origin = k PROVE FALSE
      OBVIOUS
    <3>2. n.live[k] \in DOMAIN n.lineages /\ n.live[k] # 0
      BY <1>1, <2>1 DEF Links, Upserts
    <3>3. n.origins[k] # 0
      BY <1>1, <3>1, <3>2, ValuesAssumption DEF Links
    <3> QED BY <2>2, <3>3 DEF Tracks, Content
  <2> QED BY <2>1, <2>2, <2>3 DEF Upserts, Tracks, Content
<1>5. ASSUME NEW i \in DOMAIN g, NEW j \in DOMAIN g, i # j
      PROVE  g[i].key # g[j].key
  <2>1. \E k \in Key : g[i].key = k /\ ((n.live[k] = 0 /\ i = n.origins[k])
                                       \/ (n.live[k] # 0 /\ i = n.live[k]))
    BY <1>2, RowKinds, DeleteRowKind DEF Deletes, Upserts, Moves
  <2>2. \E k \in Key : g[j].key = k /\ ((n.live[k] = 0 /\ j = n.origins[k])
                                       \/ (n.live[k] # 0 /\ j = n.live[k]))
    BY <1>2, RowKinds, DeleteRowKind DEF Deletes, Upserts, Moves
  <2> QED BY <1>5, <2>1, <2>2
<1>6. ASSUME NEW i \in DOMAIN g, NEW j \in DOMAIN g, i # j, g[i].op = "M", g[j].op = "M"
      PROVE  g[i].old # g[j].old
  <2>1. PICK k \in Key : Moves(n, k) /\ g[i] = MoveRow(n, k) /\ i = n.live[k]
    BY <1>2, <1>6, RowKinds, DeleteRowKind
  <2>2. PICK x \in Key : Moves(n, x) /\ g[j] = MoveRow(n, x) /\ j = n.live[x]
    BY <1>2, <1>6, RowKinds, DeleteRowKind
  <2>3. n.origins[g[i].old] = i /\ n.origins[g[j].old] = j
    BY <1>1, <2>1, <2>2, MovedFrom, RowKinds
  <2> QED BY <1>6, <2>3
<1>7. ValidBatch(t, g)
  BY <1>3, <1>4, <1>5, <1>6 DEF ValidBatch
<1> QED BY <1>7 DEF g

\* What the statements of execute_apply make of a key's row in a table b.
LEMMA AppliedAt ==
  ASSUME NEW n \in Normalizer, Links(n), NEW b \in Table, NEW k \in Key,
         n.live[k] # 0 /\ n.lineages[n.live[k]].origin = NoKey =>
           n.lineages[n.live[k]].cells # Toast
  PROVE  LET r == ApplyBatch(b, Staging(n))[k]
             l == n.lineages[n.live[k]]
         IN /\ n.live[k] = 0 /\ n.origins[k] = 0 => r = b[k]
            /\ n.live[k] = 0 /\ n.origins[k] # 0 => r = NoRow
            /\ n.live[k] # 0 /\ l.origin = NoKey => r = l.cells
            /\ n.live[k] # 0 /\ l.origin = k /\ b[k] # NoRow => r = MergeCell(b[k], l.cells)
            /\ Moves(n, k) => r = IF b[k] = NoRow /\ b[l.origin] # NoRow
                                    THEN MergeCell(b[l.origin], l.cells) ELSE b[k]
<1> DEFINE g == Staging(n)
           l == n.lineages[n.live[k]]
           deleted == DeleteKeys(b, {r.key : r \in Rows(g, "D")})
           copied == MoveRows(deleted, Rows(g, "M"))
           vacated == DeleteKeys(copied, {r.old : r \in Rows(g, "M")})
           upserted == UpsertRows(vacated, Rows(g, "U"))
<1>1. ApplyBatch(b, g) = upserted
  BY DEF ApplyBatch
<1>2. \A r : r \in Rows(g, "D") <=> \E x \in Key : Deletes(n, x) /\ r = DeleteRow(x)
  BY StagedRows
<1>3. \A r : r \in Rows(g, "U") <=> \E x \in Key : Upserts(n, x) /\ r = UpsertRow(n, x)
  BY StagedRows
<1>4. \A r : r \in Rows(g, "M") <=> \E x \in Key : Moves(n, x) /\ r = MoveRow(n, x)
  BY StagedRows
<1> HIDE DEF g
<1>5. \A x \in Key : deleted[x] = IF Deletes(n, x) THEN NoRow ELSE b[x]
  <2>1. \A x \in Key : x \in {r.key : r \in Rows(g, "D")} <=> Deletes(n, x)
    <3> SUFFICES ASSUME NEW x \in Key
                 PROVE  x \in {r.key : r \in Rows(g, "D")} <=> Deletes(n, x)
      OBVIOUS
    <3>1. Deletes(n, x) => DeleteRow(x) \in Rows(g, "D") /\ DeleteRow(x).key = x
      BY <1>2, DeleteRowKind
    <3>2. \A r \in Rows(g, "D") : r.key = x => Deletes(n, x)
      BY <1>2, DeleteRowKind
    <3> QED BY <3>1, <3>2
  <2> QED BY <2>1 DEF DeleteKeys
<1>6. ~Moves(n, k) => copied[k] = deleted[k]
  BY <1>4, RowKinds DEF MoveRows
<1>7. Moves(n, k) =>
        copied[k] = IF deleted[k] = NoRow /\ deleted[l.origin] # NoRow
                      THEN MergeCell(deleted[l.origin], l.cells) ELSE deleted[k]
  <2> HIDE DEF deleted
  <2>1. SUFFICES ASSUME Moves(n, k)
                 PROVE  copied[k] = IF deleted[k] = NoRow /\ deleted[l.origin] # NoRow
                                      THEN MergeCell(deleted[l.origin], l.cells) ELSE deleted[k]
    OBVIOUS
  <2>2. \A r \in Rows(g, "M") : r.key = k <=> r = MoveRow(n, k)
    BY <1>4, RowKinds
  <2>3. MoveRow(n, k) \in Rows(g, "M")
    BY <1>4, <2>1
  <2>4. MoveRow(n, k).old = l.origin /\ MoveRow(n, k).cell = l.cells
    BY RowKinds
  <2>5. CASE deleted[k] = NoRow /\ deleted[l.origin] # NoRow
    <3>1. (CHOOSE r \in Rows(g, "M") : r.key = k /\ deleted[r.old] # NoRow) = MoveRow(n, k)
      BY <2>2, <2>3, <2>4, <2>5
    <3>2. \E r \in Rows(g, "M") : r.key = k /\ deleted[r.old] # NoRow
      BY <2>2, <2>3, <2>4, <2>5
    <3> QED BY <2>4, <2>5, <3>1, <3>2 DEF MoveRows
  <2>6. CASE ~(deleted[k] = NoRow /\ deleted[l.origin] # NoRow)
    <3>1. ~(deleted[k] = NoRow /\ \E r \in Rows(g, "M") : r.key = k /\ deleted[r.old] # NoRow)
      BY <2>2, <2>4, <2>6
    <3>2. copied[k] = deleted[k]
      BY <3>1 DEF MoveRows
    <3> QED BY <2>6, <3>2
  <2> QED BY <2>5, <2>6
<1>8. vacated[k] = IF \E x \in Key : Moves(n, x) /\ n.lineages[n.live[x]].origin = k
                     THEN NoRow ELSE copied[k]
  <2> HIDE DEF copied
  <2>1. k \in {r.old : r \in Rows(g, "M")}
          <=> \E x \in Key : Moves(n, x) /\ n.lineages[n.live[x]].origin = k
    BY <1>4, RowKinds
  <2> QED BY <2>1 DEF DeleteKeys
<1>9. ~Upserts(n, k) => upserted[k] = vacated[k]
  <2> HIDE DEF vacated
  <2> QED BY <1>3, RowKinds DEF UpsertRows
<1>10. Upserts(n, k) => upserted[k] = IF vacated[k] = NoRow THEN l.cells
                                      ELSE MergeCell(vacated[k], l.cells)
  <2> HIDE DEF vacated
  <2>1. SUFFICES ASSUME Upserts(n, k)
                 PROVE  upserted[k] = IF vacated[k] = NoRow THEN l.cells
                                      ELSE MergeCell(vacated[k], l.cells)
    OBVIOUS
  <2>2. \A r \in Rows(g, "U") : r.key = k <=> r = UpsertRow(n, k)
    BY <1>3, RowKinds
  <2>3. UpsertRow(n, k) \in Rows(g, "U") /\ UpsertRow(n, k).cell = l.cells
    BY <1>3, <2>1, RowKinds
  <2>4. (CHOOSE r \in Rows(g, "U") : r.key = k) = UpsertRow(n, k)
    BY <2>2, <2>3
  <2> QED BY <2>2, <2>3, <2>4 DEF UpsertRows
<1> HIDE DEF deleted, copied, vacated, upserted, l
<1>11. (\E x \in Key : Moves(n, x) /\ n.lineages[n.live[x]].origin = k)
         => n.origins[k] # 0 /\ n.lineages[n.origins[k]].current \notin {NoKey, k}
  <2> SUFFICES ASSUME NEW x \in Key, Moves(n, x), n.lineages[n.live[x]].origin = k
               PROVE  n.origins[k] # 0 /\ n.lineages[n.origins[k]].current \notin {NoKey, k}
    OBVIOUS
  <2>1. n.origins[k] = n.live[x] /\ k # x
    BY MovedFrom
  <2>2. n.live[x] # 0 /\ n.lineages[n.live[x]].current = x
    BY DEF Moves, Links
  <2> QED BY <2>1, <2>2, ValuesAssumption
<1>12. CASE n.live[k] = 0
  <2>1. ~Moves(n, k) /\ ~Upserts(n, k)
    BY <1>12 DEF Moves, Upserts
  <2>2. CASE n.origins[k] = 0
    <3>1. ~Deletes(n, k)
      BY <2>2 DEF Deletes
    <3>2. upserted[k] = b[k]
      BY <1>5, <1>6, <1>8, <1>9, <1>11, <2>1, <2>2, <3>1
    <3> QED BY <1>1, <1>12, <2>1, <2>2, <3>2 DEF g
  <2>3. CASE n.origins[k] # 0
    <3>1. upserted[k] = NoRow
      <4>1. CASE Deletes(n, k)
        BY <1>5, <1>6, <1>8, <1>9, <2>1, <4>1
      <4>2. CASE ~Deletes(n, k)
        <5> DEFINE x == n.lineages[n.origins[k]].current
        <5>1. n.origins[k] \in DOMAIN n.lineages /\ n.lineages[n.origins[k]].origin = k
              /\ x # NoKey
          BY <1>12, <2>3, <4>2 DEF Deletes, Links
        <5>2. x \in Key /\ n.live[x] = n.origins[k]
          BY <5>1, LineageFields DEF Links
        <5>3. Moves(n, x)
          BY <1>12, <2>3, <5>1, <5>2, ValuesAssumption DEF Moves
        <5> QED BY <1>8, <1>9, <2>1, <5>1, <5>2, <5>3
      <4> QED BY <4>1, <4>2
    <3> QED BY <1>1, <1>12, <2>1, <2>3, <3>1 DEF g
  <2> QED BY <2>2, <2>3
<1>13. CASE n.live[k] # 0
  <2>1. n.live[k] \in DOMAIN n.lineages /\ n.lineages[n.live[k]].current = k /\ ~Deletes(n, k)
    BY <1>13 DEF Links, Deletes
  <2>2. ASSUME l.origin = NoKey
        PROVE  upserted[k] = l.cells
    <3>1. Upserts(n, k) /\ l.cells # Toast
      BY <1>13, <2>2 DEF Upserts, l
    <3> QED BY <1>10, <3>1 DEF MergeCell
  <2>3. ASSUME l.origin = k, b[k] # NoRow
        PROVE  upserted[k] = MergeCell(b[k], l.cells)
    <3>1. Upserts(n, k) /\ ~Moves(n, k)
      BY <1>13, <2>3 DEF Upserts, Moves, l
    <3>2. n.origins[k] = n.live[k]
      BY <2>1, <2>3, ValuesAssumption DEF Links, l
    <3>3. vacated[k] = b[k]
      BY <1>5, <1>6, <1>8, <1>11, <2>1, <3>1, <3>2
    <3> QED BY <1>10, <2>3, <3>1, <3>3
  <2>4. ASSUME Moves(n, k)
        PROVE  upserted[k] = IF b[k] = NoRow /\ b[l.origin] # NoRow
                               THEN MergeCell(b[l.origin], l.cells) ELSE b[k]
    <3>1. l.origin \in Key /\ n.origins[k] = 0 /\ ~Deletes(n, l.origin)
      BY <2>4, MovedFrom DEF l
    <3>2. ~Upserts(n, k)
      BY <2>4 DEF Moves, Upserts
    <3>3. upserted[k] = copied[k]
      BY <1>8, <1>9, <1>11, <3>1, <3>2
    <3>4. deleted[k] = b[k] /\ deleted[l.origin] = b[l.origin]
      BY <1>5, <2>1, <3>1
    <3> QED BY <1>7, <2>4, <3>3, <3>4
  <2> QED BY <1>1, <1>13, <2>2, <2>3, <2>4 DEF g, l
<1> QED BY <1>12, <1>13

\* The target becomes what the source is.
LEMMA FoldGivesSource ==
  ASSUME NEW n, NEW t \in Table, NEW s \in Table, Tracks(n, t, s)
  PROVE  ApplyBatch(t, Staging(n)) = s /\ ApplyBatch(s, Staging(n)) = s
<1> DEFINE once == ApplyBatch(t, Staging(n))
           twice == ApplyBatch(s, Staging(n))
<1>1. n \in Normalizer /\ Links(n) /\ Content(n, t, s)
  BY DEF Tracks
<1>2. ASSUME NEW k \in Key
      PROVE  once[k] = s[k] /\ twice[k] = s[k]
  <2> DEFINE l == n.lineages[n.live[k]]
  <2>1. n.live[k] # 0 /\ l.origin = NoKey => l.cells # Toast
    BY <1>1 DEF Content
  <2>2. /\ n.live[k] = 0 /\ n.origins[k] = 0 => once[k] = t[k] /\ twice[k] = s[k]
        /\ n.live[k] = 0 /\ n.origins[k] # 0 => once[k] = NoRow /\ twice[k] = NoRow
        /\ n.live[k] # 0 /\ l.origin = NoKey => once[k] = l.cells /\ twice[k] = l.cells
        /\ n.live[k] # 0 /\ l.origin = k =>
             /\ t[k] # NoRow => once[k] = MergeCell(t[k], l.cells)
             /\ s[k] # NoRow => twice[k] = MergeCell(s[k], l.cells)
        /\ Moves(n, k) =>
             /\ once[k] = IF t[k] = NoRow /\ t[l.origin] # NoRow
                            THEN MergeCell(t[l.origin], l.cells) ELSE t[k]
             /\ twice[k] = IF s[k] = NoRow /\ s[l.origin] # NoRow
                             THEN MergeCell(s[l.origin], l.cells) ELSE s[k]
    BY <1>1, <2>1, AppliedAt
  <2> HIDE DEF once, twice
  <2>3. CASE n.live[k] = 0
    BY <1>1, <2>2, <2>3 DEF Content
  <2>4. CASE n.live[k] # 0 /\ l.origin = NoKey
    BY <1>1, <2>1, <2>2, <2>4 DEF Content, RowOf, MergeCell
  <2>5. CASE n.live[k] # 0 /\ l.origin = k
    <3>1. n.live[k] \in DOMAIN n.lineages
      BY <1>1, <2>5 DEF Links
    <3>2. n.origins[k] # 0
      BY <1>1, <2>5, <3>1, ValuesAssumption DEF Links
    <3>3. t[k] # NoRow /\ s[k] # NoRow /\ s[k] = MergeCell(t[k], l.cells)
      BY <1>1, <2>5, <3>2 DEF Content, RowOf
    <3> QED BY <2>2, <2>5, <3>3 DEF MergeCell
  <2>6. CASE n.live[k] # 0 /\ l.origin \notin {NoKey, k}
    <3>1. Moves(n, k)
      BY <2>6 DEF Moves
    <3>2. l.origin \in Key /\ n.origins[l.origin] # 0 /\ n.origins[k] = 0
      BY <1>1, <2>6, <3>1, MovedFrom
    <3>3. /\ t[k] = NoRow /\ t[l.origin] # NoRow /\ s[k] # NoRow
          /\ s[k] = MergeCell(t[l.origin], l.cells)
      BY <1>1, <2>6, <3>2 DEF Content, RowOf
    <3> QED BY <2>2, <3>1, <3>3
  <2> QED BY <2>3, <2>4, <2>5, <2>6
<1>3. once = [k \in Key |-> once[k]] /\ twice = [k \in Key |-> twice[k]]
  BY DEF ApplyBatch, UpsertRows
<1>4. s = [k \in Key |-> s[k]]
  BY DEF Table
<1> HIDE DEF once, twice
<1>5. once = s /\ twice = s
  BY <1>2, <1>3, <1>4
<1> QED BY <1>5 DEF once, twice

-----------------------------------------------------------------------------
(* The steps. *)

LEMMA InitFold == Init => FoldInv
<1> SUFFICES ASSUME Init PROVE FoldInv
  OBVIOUS
<1>1. table \in Table /\ target = table
  BY DEF Init
<1>2. Tracks(norm, target, table) /\ Len(norm.lineages) = 0
  BY <1>1, EmptyTracks DEF Init
<1>3. changes \in 0 .. MaxChanges /\ Len(norm.lineages) <= changes
  BY <1>2, ValuesAssumption DEF Init
<1>4. moved \in BOOLEAN /\ refused \in BOOLEAN /\ (refused => moved)
  BY DEF Init
<1>5. norm \in Normalizer /\ Links(norm) /\ Content(norm, target, table)
  BY <1>2 DEF Tracks
<1> QED BY <1>1, <1>3, <1>4, <1>5 DEF FoldInv

\* A change that was folded, and one that was refused.
LEMMA PushStep ==
  ASSUME FoldInv, Accepting, NEW n, NEW isMove \in BOOLEAN, Push(n, isMove),
         table' \in Table, Tracks(n, target, table'), Len(n.lineages) <= Len(norm.lineages) + 1
  PROVE  FoldInv'
<1>1. /\ norm' = n /\ refused' = FALSE /\ changes' = changes + 1 /\ target' = target
      /\ moved' \in BOOLEAN
  BY DEF Push, FoldInv
<1>2. changes' \in 0 .. MaxChanges
  BY <1>1, ValuesAssumption DEF FoldInv, Accepting
<1>3. Len(norm.lineages) \in Nat /\ Len(n.lineages) \in Nat
  BY DEF FoldInv, Normalizer, Tracks
<1>4. Len(n.lineages) <= changes'
  BY <1>1, <1>3 DEF FoldInv
<1> QED BY <1>1, <1>2, <1>4 DEF FoldInv, Tracks

LEMMA RefuseStep ==
  ASSUME FoldInv, Accepting, Refuse(TRUE), table' \in Table
  PROVE  FoldInv'
<1>1. /\ norm' = norm /\ refused' = TRUE /\ changes' = changes + 1 /\ target' = target
      /\ moved' = TRUE
  BY DEF Refuse
<1>2. changes' \in 0 .. MaxChanges
  BY <1>1, ValuesAssumption DEF FoldInv, Accepting
<1>3. Len(norm.lineages) \in Nat
  BY DEF FoldInv, Normalizer
<1>4. Len(norm.lineages) <= changes'
  BY <1>1, <1>3 DEF FoldInv
<1> QED BY <1>1, <1>2, <1>4 DEF FoldInv

LEMMA InsertStep ==
  ASSUME FoldInv, NEW k \in Key, NEW v \in Value, Insert(k, v)
  PROVE  FoldInv'
<1>1. table \in Table /\ target \in Table /\ Tracks(norm, target, table)
  BY DEF FoldInv, Insert, Accepting, Tracks
<1>2. Accepting /\ table[k] = NoRow /\ table' = [table EXCEPT ![k] = v]
  BY DEF Insert
<1>3. norm.live[k] = 0
  BY <1>1, <1>2 DEF Tracks, Content
<1>4. Push(PushInsert(norm, k, v), FALSE)
  BY <1>3 DEF Insert
<1>5. table' \in Table
  BY <1>1, <1>2 DEF Table
<1>6. /\ Tracks(PushInsert(norm, k, v), target, table')
      /\ Len(PushInsert(norm, k, v).lineages) <= Len(norm.lineages) + 1
  BY <1>1, <1>2, PushInsertTracks
<1> QED BY <1>2, <1>4, <1>5, <1>6, PushStep

LEMMA UpdateStep ==
  ASSUME FoldInv, NEW k \in Key, NEW new \in Key, NEW v \in Value, NEW cell \in {v, Toast},
         Update(k, new, v, cell)
  PROVE  FoldInv'
<1>1. table \in Table /\ target \in Table /\ Tracks(norm, target, table)
  BY DEF FoldInv, Update, Accepting, Tracks
<1>2. /\ Accepting /\ table[k] # NoRow /\ (new = k \/ table[new] = NoRow)
      /\ (cell = v \/ (cell = Toast /\ v = table[k]))
      /\ table' = [table EXCEPT ![k] = NoRow, ![new] = v]
  BY DEF Update
<1>3. table' \in Table
  BY <1>1, <1>2 DEF Table
<1>4. CASE UpdateRefused(norm, k, new)
  <2>1. new # k
    <3>1. ~LostBaseline(norm, k)
      BY <1>1, <1>2, WithBaselineTracks
    <3> QED BY <1>4, <3>1 DEF UpdateRefused
  <2>2. Refuse(TRUE)
    BY <1>4, <2>1 DEF Update
  <2> QED BY <1>2, <1>3, <2>2, RefuseStep
<1>5. CASE ~UpdateRefused(norm, k, new)
  <2> DEFINE p == PushUpdate(norm, k, new, cell)
  <2>1. Push(p, new # k)
    BY <1>5 DEF Update
  <2>2. cell = Toast => v = table[k]
    BY <1>2, ValuesAssumption
  <2>3. /\ Tracks(p, target, table') /\ Len(p.lineages) <= Len(norm.lineages) + 1
    BY <1>1, <1>2, <1>5, <2>2, PushUpdateTracks
  <2>4. (new # k) \in BOOLEAN
    OBVIOUS
  <2> HIDE DEF p
  <2> QED BY <1>2, <1>3, <2>1, <2>3, <2>4, PushStep
<1> QED BY <1>4, <1>5

LEMMA DeleteStep ==
  ASSUME FoldInv, NEW k \in Key, Delete(k)
  PROVE  FoldInv'
<1>1. table \in Table /\ target \in Table /\ Tracks(norm, target, table)
  BY DEF FoldInv, Delete, Accepting, Tracks
<1>2. Accepting /\ table[k] # NoRow /\ table' = [table EXCEPT ![k] = NoRow]
  BY DEF Delete
<1>3. ~LostBaseline(norm, k)
  BY <1>1, <1>2, WithBaselineTracks
<1>4. Push(PushDelete(norm, k), FALSE)
  BY <1>3 DEF Delete
<1>5. table' \in Table
  BY <1>1, <1>2 DEF Table
<1>6. /\ Tracks(PushDelete(norm, k), target, table')
      /\ Len(PushDelete(norm, k).lineages) <= Len(norm.lineages) + 1
  BY <1>1, <1>2, PushDeleteTracks
<1> QED BY <1>2, <1>4, <1>5, <1>6, PushStep

LEMMA ApplyStep ==
  ASSUME FoldInv, Apply
  PROVE  FoldInv'
<1>1. table \in Table /\ target \in Table /\ Tracks(norm, target, table) /\ ~refused
  BY DEF FoldInv, Apply, Tracks
<1>2. target' = table /\ table' = table
  BY <1>1, FoldGivesSource DEF Apply
<1>3. norm' = EmptyNormalizer /\ changes' = 0 /\ moved' = FALSE /\ refused' = refused
  BY DEF Apply
<1>4. Tracks(norm', target', table') /\ Len(norm'.lineages) = 0
  BY <1>1, <1>2, <1>3, EmptyTracks
<1>5. changes' \in 0 .. MaxChanges /\ Len(norm'.lineages) <= changes'
  BY <1>3, <1>4, ValuesAssumption
<1>6. moved' \in BOOLEAN /\ refused' = FALSE /\ table' \in Table /\ target' \in Table
  BY <1>1, <1>2, <1>3 DEF FoldInv
<1>7. norm' \in Normalizer /\ Links(norm') /\ Content(norm', target', table')
  BY <1>4 DEF Tracks
<1> QED BY <1>5, <1>6, <1>7 DEF FoldInv

\* The normalizer's maps, together with the rows at the start of the batch,
\* determine the source's rows, in every reachable state.
THEOREM FoldInvAlways == Spec => []FoldInv
<1>1. FoldInv /\ [Next]_vars => FoldInv'
  <2> SUFFICES ASSUME FoldInv, [Next]_vars PROVE FoldInv'
    OBVIOUS
  <2>1. CASE \E k \in Key, v \in Value : Insert(k, v)
    BY <2>1, InsertStep
  <2>2. CASE \E k, new \in Key, v \in Value : \E cell \in {v, Toast} : Update(k, new, v, cell)
    BY <2>2, UpdateStep
  <2>3. CASE \E k \in Key : Delete(k)
    BY <2>3, DeleteStep
  <2>4. CASE Apply
    BY <2>4, ApplyStep
  <2>5. CASE UNCHANGED vars
    BY <2>5 DEF vars, FoldInv, Links, Content
  <2> QED BY <2>1, <2>2, <2>3, <2>4, <2>5 DEF Next
<1> QED BY <1>1, InitFold, PTL DEF Spec

\* Types of tables and normalizer; a batch has at most one lineage per change.
THEOREM NormalizeTypes == Spec => []TypeOK
<1>1. FoldInv => TypeOK
  <2> SUFFICES ASSUME FoldInv PROVE TypeOK
    OBVIOUS
  <2>1. norm.lineages \in Seq(Lineage) /\ norm.live \in [Key -> Nat]
        /\ norm.origins \in [Key -> Nat]
    BY DEF FoldInv, Normalizer
  <2>2. DOMAIN norm.lineages = 1 .. Len(norm.lineages) /\ Len(norm.lineages) \in Nat
    BY <2>1
  <2>3. \A k \in Key : norm.live[k] \in 0 .. Len(norm.lineages)
                       /\ norm.origins[k] \in 0 .. Len(norm.lineages)
    <3>1. \A k \in Key : (norm.live[k] # 0 => norm.live[k] \in DOMAIN norm.lineages)
                         /\ (norm.origins[k] # 0 => norm.origins[k] \in DOMAIN norm.lineages)
      BY DEF FoldInv, Links
    <3>2. ASSUME NEW k \in Key
          PROVE  norm.live[k] \in 0 .. Len(norm.lineages)
      <4>1. norm.live[k] \in 1 .. Len(norm.lineages) \/ norm.live[k] = 0
        BY <2>2, <3>1
      <4> QED BY <2>2, <4>1
    <3>3. ASSUME NEW k \in Key
          PROVE  norm.origins[k] \in 0 .. Len(norm.lineages)
      <4>1. norm.origins[k] \in 1 .. Len(norm.lineages) \/ norm.origins[k] = 0
        BY <2>2, <3>1
      <4> QED BY <2>2, <4>1
    <3> QED BY <3>2, <3>3
  <2>4. norm.live \in [Key -> 0 .. Len(norm.lineages)]
        /\ norm.origins \in [Key -> 0 .. Len(norm.lineages)]
    BY <2>1, <2>3
  <2> QED BY <2>1, <2>4 DEF TypeOK, FoldInv
<1> QED BY <1>1, FoldInvAlways, PTL

\* Normalizer and apply statements together, for every table and batch: only a
\* batch that changes primary keys is refused; one that is accepted passes
\* validation_sql and turns the target into exactly the source's rows.
THEOREM FoldIsExactHolds == Spec => []FoldIsExact
<1>1. FoldInv => FoldIsExact
  <2> SUFFICES ASSUME FoldInv PROVE FoldIsExact
    OBVIOUS
  <2>1. CASE refused
    BY <2>1 DEF FoldInv, FoldIsExact
  <2>2. CASE ~refused
    <3>1. table \in Table /\ target \in Table /\ Tracks(norm, target, table)
      BY <2>2 DEF FoldInv, Tracks
    <3> QED BY <2>2, <3>1, FoldIsValid, FoldGivesSource DEF FoldIsExact
  <2> QED BY <2>1, <2>2
<1> QED BY <1>1, FoldInvAlways, PTL

\* A batch whose checkpoint was lost and that is applied again, to the result of
\* its first application, leaves every row as it is.
THEOREM ReplayDoesNoHarmHolds == Spec => []ReplayDoesNoHarm
<1>1. FoldInv => ReplayDoesNoHarm
  <2> SUFFICES ASSUME FoldInv, ~refused PROVE ApplyBatch(table, Staging(norm)) = table
    BY DEF ReplayDoesNoHarm
  <2>1. table \in Table /\ target \in Table /\ Tracks(norm, target, table)
    BY DEF FoldInv, Tracks
  <2> QED BY <2>1, FoldGivesSource
<1> QED BY <1>1, FoldInvAlways, PTL
=============================================================================
