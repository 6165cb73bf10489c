--------------------------- MODULE DsmDaemonProofs --------------------------
(***************************************************************************)
(* Proofs about the session daemon: the types, that it only ever reads     *)
(* where something has come, that whoever asks is told the right port,     *)
(* that no session has two servers, that the daemon does not panic while   *)
(* clients wait patiently, and that its table is a session directory.      *)
(***************************************************************************)
EXTENDS DsmDaemon, FiniteSetTheorems, SequenceTheorems, WellFoundedInduction, TLAPS

(* A set of naturals that is not empty has a least element: Min, which     *)
(* NextReady and accept() take, is defined by CHOOSE.                      *)
LEMMA LeastElement == ASSUME NEW S \in SUBSET Nat, S # {}
                      PROVE  Min(S) \in S /\ \A n \in S : Min(S) <= n
<1>1. PICK x \in S : \A y \in S : ~(<<y, x>> \in OpToRel(<, Nat))
  BY NatLessThanWellFounded, WFMin, Zenon
<1>2. \A y \in S : ~(y < x)
  BY <1>1, Zenon DEF OpToRel
<1>3. \A y \in S : x <= y
  <2> HIDE <1>1
  <2>1. x \in Nat
    OBVIOUS
  <2> QED BY <1>2, <2>1
<1> QED BY <1>3 DEF Min

(* Induction over the naturals, stated with a set of numbers: it follows   *)
(* from the well-foundedness of < because no operator is a parameter.      *)
LEMMA NatInduct == ASSUME NEW Q \in SUBSET Nat, 0 \in Q, \A n \in Q : n + 1 \in Q
                   PROVE  Q = Nat
<1>1. SUFFICES ASSUME Nat \ Q # {} PROVE FALSE
  OBVIOUS
<1> DEFINE n == Min(Nat \ Q)
<1>2. n \in Nat \ Q /\ \A k \in Nat \ Q : n <= k
  BY <1>1, LeastElement
<1> HIDE DEF n
<1>3. n - 1 \in Nat /\ n - 1 \in Q
  BY <1>2
<1>4. (n - 1) + 1 \in Q
  BY <1>3
<1> QED BY <1>2, <1>4

(* What SubSeq returns: the j - i + 1 elements from i to j.                *)
LEMMA PartOf ==
  ASSUME NEW S, NEW s \in Seq(S), NEW i \in Nat \ {0}, NEW j \in Nat, j <= Len(s), i <= j + 1
  PROVE  /\ SubSeq(s, i, j) \in Seq(S) /\ Len(SubSeq(s, i, j)) = j - i + 1
         /\ \A n \in 1 .. j - i + 1 : SubSeq(s, i, j)[n] = s[i + n - 1]
<1>1. Len(s) \in Nat /\ DOMAIN s = 1 .. Len(s) /\ \A n \in 1 .. Len(s) : s[n] \in S
  OBVIOUS
<1>2. i \in Int /\ j \in Int /\ \A n \in i .. j : s[n] \in S
  BY <1>1
<1> HIDE <1>1
<1>3. /\ SubSeq(s, i, j) \in Seq(S)
      /\ Len(SubSeq(s, i, j)) = IF i <= j THEN j - i + 1 ELSE 0
      /\ \A n \in 1 .. j - i + 1 : SubSeq(s, i, j)[n] = s[i + n - 1]
  BY <1>2, SubSeqProperties
<1>4. (IF i <= j THEN j - i + 1 ELSE 0) = j - i + 1
  OBVIOUS
<1> QED BY <1>3, <1>4

-----------------------------------------------------------------------------
(***************************************************************************)
(* The hash table.                                                         *)
(***************************************************************************)

(* The entries of a bucket, whatever their order.                          *)
Chain(b) == ToSet(table[b])

(* No two entries of a bucket have the same identifier (dsm_htab.c).       *)
Distinct == \A b \in Buckets : \A i, j \in DOMAIN table[b] :
              table[b][i].sid = table[b][j].sid => i = j

(* Position finds the first entry with the identifier, or 0 if there is    *)
(* none (dsm_getHashTableEntry walks the chain).                           *)
LEMMA PositionIs ==
  ASSUME NEW m, table[m.bucket] \in Seq(Entry)
  PROVE  /\ Position(m) = 0 <=> \A i \in DOMAIN table[m.bucket] : table[m.bucket][i].sid # m.sid
         /\ Position(m) # 0 => /\ Position(m) \in DOMAIN table[m.bucket]
                               /\ table[m.bucket][Position(m)].sid = m.sid
<1> DEFINE q == table[m.bucket]
           I == {i \in 1 .. Len(q) : q[i].sid = m.sid}
<1>1. Position(m) = IF I # {} THEN Min(I) ELSE 0
  BY DEF Position, SelectInSeq
<1>2. I \in SUBSET Nat /\ DOMAIN q = 1 .. Len(q)
  OBVIOUS
<1>3. I # {} => Min(I) \in I
  BY <1>2, LeastElement
<1>4. I = {} <=> \A i \in DOMAIN q : q[i].sid # m.sid
  BY <1>2
<1>5. I # {} => Min(I) \in DOMAIN q /\ q[Min(I)].sid = m.sid /\ Min(I) # 0
  BY <1>2, <1>3
<1> HIDE DEF I
<1> QED BY <1>1, <1>4, <1>5

(* An identifier is known exactly if its bucket has an entry for it, and   *)
(* that is the entry Lookup returns.                                       *)
LEMMA KnownIs ==
  ASSUME TypeOK, Distinct, NEW m, m.bucket \in Buckets
  PROVE  /\ Known(m) <=> \E e \in Chain(m.bucket) : e.sid = m.sid
         /\ Known(m) => /\ Lookup(m) \in Chain(m.bucket) /\ Lookup(m).sid = m.sid
                        /\ \A e \in Chain(m.bucket) : e.sid = m.sid => e = Lookup(m)
<1>1. table[m.bucket] \in Seq(Entry)
  BY DEF TypeOK
<1>2. /\ Position(m) = 0 <=> \A i \in DOMAIN table[m.bucket] : table[m.bucket][i].sid # m.sid
      /\ Position(m) # 0 => /\ Position(m) \in DOMAIN table[m.bucket]
                            /\ table[m.bucket][Position(m)].sid = m.sid
  BY <1>1, PositionIs
<1>3. Known(m) <=> Position(m) # 0
  BY DEF Known
<1>4. Lookup(m) = table[m.bucket][Position(m)]
  BY DEF Lookup
<1>5. \A i, j \in DOMAIN table[m.bucket] : table[m.bucket][i].sid = table[m.bucket][j].sid => i = j
  BY DEF Distinct
<1>6. Chain(m.bucket) = {table[m.bucket][i] : i \in DOMAIN table[m.bucket]}
  BY DEF Chain, ToSet
<1> QED BY <1>2, <1>3, <1>4, <1>5, <1>6

(* The one way in which a handler changes the table: the entry of the      *)
(* message's identifier, if any, makes way for those in new.               *)
Rewritten(m, new) ==
  /\ table' \in [Buckets -> Seq(Entry)]
  /\ Distinct'
  /\ \A b \in Buckets : b # m.bucket => Chain(b)' = Chain(b)
  /\ Chain(m.bucket)' = {e \in Chain(m.bucket) : e.sid # m.sid} \cup new

(* An entry put at the head of its bucket is the only one added.           *)
LEMMA PrependRewrites ==
  ASSUME TypeOK, Distinct, NEW m, m.bucket \in Buckets, ~Known(m),
         NEW e \in Entry, e.sid = m.sid, table' = Prepended(m, e)
  PROVE  Rewritten(m, {e})
<1> DEFINE q == table[m.bucket]
           r == <<e>> \o q
<1>1. q \in Seq(Entry) /\ table \in [Buckets -> Seq(Entry)]
  BY DEF TypeOK
<1>2. table' = [table EXCEPT ![m.bucket] = r]
  BY DEF Prepended, Cons
<1>3. /\ r \in Seq(Entry) /\ DOMAIN r = 1 .. Len(q) + 1 /\ DOMAIN q = 1 .. Len(q)
      /\ r[1] = e /\ \A i \in 1 .. Len(q) : r[i + 1] = q[i]
      /\ \A i \in 2 .. Len(q) + 1 : r[i] = q[i - 1]
  BY <1>1
<1>4. \A i \in DOMAIN q : q[i].sid # e.sid
  BY <1>1, PositionIs DEF Known
<1>5. \A i, j \in DOMAIN q : q[i].sid = q[j].sid => i = j
  BY DEF Distinct
<1> HIDE DEF r, q
<1>6. \A i, j \in DOMAIN r : r[i].sid = r[j].sid => i = j
  <2> SUFFICES ASSUME NEW i \in DOMAIN r, NEW j \in DOMAIN r, r[i].sid = r[j].sid
               PROVE  i = j
    OBVIOUS
  <2>1. CASE i = 1 /\ j # 1
    <3>1. j - 1 \in DOMAIN q /\ r[j] = q[j - 1]
      BY <1>3, <2>1
    <3> QED BY <1>3, <1>4, <2>1, <3>1
  <2>2. CASE i # 1 /\ j = 1
    <3>1. i - 1 \in DOMAIN q /\ r[i] = q[i - 1]
      BY <1>3, <2>2
    <3> QED BY <1>3, <1>4, <2>2, <3>1
  <2>3. CASE i # 1 /\ j # 1
    <3>1. /\ i - 1 \in DOMAIN q /\ r[i] = q[i - 1]
          /\ j - 1 \in DOMAIN q /\ r[j] = q[j - 1]
      BY <1>3, <2>3
    <3>2. i - 1 = j - 1
      BY <1>5, <3>1
    <3> QED BY <1>3, <3>2
  <2> QED BY <2>1, <2>2, <2>3
<1>7. {r[i] : i \in DOMAIN r} = {q[i] : i \in DOMAIN q} \cup {e}
  <2>1. ASSUME NEW i \in DOMAIN r PROVE r[i] = e \/ \E j \in DOMAIN q : r[i] = q[j]
    <3>1. CASE i # 1
      <4>1. i - 1 \in DOMAIN q /\ r[i] = q[i - 1]
        BY <1>3, <3>1
      <4> QED BY <4>1
    <3> QED BY <1>3, <3>1
  <2>2. ASSUME NEW i \in DOMAIN q PROVE \E j \in DOMAIN r : r[j] = q[i]
    BY <1>3
  <2>3. \E j \in DOMAIN r : r[j] = e
    BY <1>3
  <2> QED BY <2>1, <2>2, <2>3
<1>8. /\ table' \in [Buckets -> Seq(Entry)] /\ table'[m.bucket] = r
      /\ \A b \in Buckets : b # m.bucket => table'[b] = table[b]
  BY <1>1, <1>2, <1>3
<1>9. Distinct'
  BY <1>6, <1>8 DEF Distinct
<1>10. \A b \in Buckets : b # m.bucket => Chain(b)' = Chain(b)
  BY <1>8 DEF Chain
<1>11. Chain(m.bucket)' = {r[i] : i \in DOMAIN r} /\ Chain(m.bucket) = {q[i] : i \in DOMAIN q}
  BY <1>8 DEF Chain, ToSet, q
<1>12. {f \in {q[i] : i \in DOMAIN q} : f.sid # m.sid} = {q[i] : i \in DOMAIN q}
  BY <1>4
<1> QED BY <1>7, <1>8, <1>9, <1>10, <1>11, <1>12 DEF Rewritten

(* An entry that is updated is the only one replaced.                      *)
LEMMA UpdateRewrites ==
  ASSUME TypeOK, Distinct, NEW m, m.bucket \in Buckets, Known(m),
         NEW e \in Entry, e.sid = m.sid, table' = Updated(m, e)
  PROVE  Rewritten(m, {e})
<1> DEFINE q == table[m.bucket]
           k == Position(m)
           r == [q EXCEPT ![k] = e]
<1>1. q \in Seq(Entry) /\ table \in [Buckets -> Seq(Entry)]
  BY DEF TypeOK
<1>2. table' = [table EXCEPT ![m.bucket] = r]
  BY DEF Updated, ReplaceAt
<1>3. k \in DOMAIN q /\ q[k].sid = m.sid
  BY <1>1, PositionIs DEF Known
<1>4. \A i, j \in DOMAIN q : q[i].sid = q[j].sid => i = j
  BY DEF Distinct
<1> HIDE DEF q, k
<1>5. /\ r \in Seq(Entry) /\ DOMAIN r = DOMAIN q
      /\ \A i \in DOMAIN q : r[i] = IF i = k THEN e ELSE q[i]
  BY <1>1, <1>3
<1> HIDE DEF r
<1>6. \A i, j \in DOMAIN r : r[i].sid = r[j].sid => i = j
  BY <1>3, <1>4, <1>5
<1>7. {r[i] : i \in DOMAIN r} = {f \in {q[i] : i \in DOMAIN q} : f.sid # m.sid} \cup {e}
  <2>1. \A i \in DOMAIN q : i # k => q[i].sid # m.sid
    BY <1>3, <1>4
  <2>2. \A i \in DOMAIN q : q[i].sid # m.sid => i # k
    BY <1>3
  <2> QED BY <1>3, <1>5, <2>1, <2>2
<1>8. /\ table' \in [Buckets -> Seq(Entry)] /\ table'[m.bucket] = r
      /\ \A b \in Buckets : b # m.bucket => table'[b] = table[b]
  BY <1>1, <1>2, <1>5
<1>9. Distinct'
  BY <1>6, <1>8 DEF Distinct
<1>10. \A b \in Buckets : b # m.bucket => Chain(b)' = Chain(b)
  BY <1>8 DEF Chain
<1>11. Chain(m.bucket)' = {r[i] : i \in DOMAIN r} /\ Chain(m.bucket) = {q[i] : i \in DOMAIN q}
  BY <1>8 DEF Chain, ToSet, q
<1> QED BY <1>7, <1>8, <1>9, <1>10, <1>11 DEF Rewritten

(* An entry that is removed is the only one that goes: the rest of its     *)
(* bucket is kept.                                                         *)
LEMMA RemoveRewrites ==
  ASSUME TypeOK, Distinct, NEW m, m.bucket \in Buckets, Known(m), table' = Removed(m)
  PROVE  Rewritten(m, {})
<1> DEFINE q == table[m.bucket]
           k == Position(m)
           r == SubSeq(q, 1, k - 1) \o SubSeq(q, k + 1, Len(q))
<1>1. q \in Seq(Entry) /\ table \in [Buckets -> Seq(Entry)]
  BY DEF TypeOK
<1>2. k \in DOMAIN q /\ q[k].sid = m.sid
  BY <1>1, PositionIs DEF Known
<1>3. table' = [table EXCEPT ![m.bucket] = r]
  <2>1. \E i \in 1 .. Len(q) : q[i].sid = m.sid
    BY <1>1, <1>2
  <2>2. table' = [table EXCEPT ![m.bucket] = RemoveFirstMatch(q, LAMBDA e : e.sid = m.sid)]
    BY DEF Removed
  <2>3. RemoveFirstMatch(q, LAMBDA e : e.sid = m.sid) = r
    BY <2>1 DEF RemoveFirstMatch, RemoveAt, Position
  <2> QED BY <2>2, <2>3
<1>4. \A i, j \in DOMAIN q : q[i].sid = q[j].sid => i = j
  BY DEF Distinct
<1> HIDE DEF q, k
<1>5. /\ r \in Seq(Entry) /\ DOMAIN r = 1 .. Len(q) - 1 /\ DOMAIN q = 1 .. Len(q) /\ Len(q) \in Nat
      /\ \A i \in 1 .. Len(q) - 1 : r[i] = IF i < k THEN q[i] ELSE q[i + 1]
  <2> DEFINE x == SubSeq(q, 1, k - 1)
             y == SubSeq(q, k + 1, Len(q))
  <2>1. DOMAIN q = 1 .. Len(q) /\ Len(q) \in Nat /\ k \in 1 .. Len(q)
    BY <1>1, <1>2
  <2>2. x \in Seq(Entry) /\ Len(x) = k - 1 /\ \A i \in 1 .. k - 1 : x[i] = q[i]
    <3>1. /\ 1 \in Nat \ {0} /\ k - 1 \in Nat /\ k - 1 <= Len(q) /\ 1 <= (k - 1) + 1
          /\ (k - 1) - 1 + 1 = k - 1
      BY <2>1
    <3>2. /\ x \in Seq(Entry) /\ Len(x) = (k - 1) - 1 + 1
          /\ \A n \in 1 .. (k - 1) - 1 + 1 : x[n] = q[1 + n - 1]
      BY <1>1, <3>1, PartOf
    <3>3. \A n \in 1 .. k - 1 : 1 + n - 1 = n
      BY <2>1
    <3> QED BY <3>1, <3>2, <3>3
  <2>3. y \in Seq(Entry) /\ Len(y) = Len(q) - k /\ \A i \in 1 .. Len(q) - k : y[i] = q[k + i]
    <3>1. /\ k + 1 \in Nat \ {0} /\ Len(q) \in Nat /\ Len(q) <= Len(q) /\ k + 1 <= Len(q) + 1
          /\ Len(q) - (k + 1) + 1 = Len(q) - k
      BY <2>1
    <3>2. /\ y \in Seq(Entry) /\ Len(y) = Len(q) - (k + 1) + 1
          /\ \A n \in 1 .. Len(q) - (k + 1) + 1 : y[n] = q[(k + 1) + n - 1]
      BY <1>1, <3>1, PartOf
    <3>3. \A n \in 1 .. Len(q) - k : (k + 1) + n - 1 = k + n
      BY <2>1
    <3> QED BY <3>1, <3>2, <3>3
  <2> HIDE DEF x, y
  <2>4. /\ x \o y \in Seq(Entry) /\ Len(x \o y) = Len(q) - 1
        /\ DOMAIN (x \o y) = 1 .. Len(q) - 1
    <3>1. x \o y \in Seq(Entry) /\ Len(x \o y) = Len(x) + Len(y)
      BY <2>2, <2>3, ConcatProperties
    <3>2. Len(x) + Len(y) = Len(q) - 1
      BY <2>1, <2>2, <2>3
    <3>3. DOMAIN (x \o y) = 1 .. Len(x \o y)
      BY <3>1
    <3> QED BY <3>1, <3>2, <3>3
  <2>5. ASSUME NEW i \in 1 .. Len(q) - 1
        PROVE  (x \o y)[i] = IF i < k THEN q[i] ELSE q[i + 1]
    <3>1. CASE i < k
      BY <2>1, <2>2, <2>3, <3>1
    <3>2. CASE ~(i < k)
      <4>1. i - (k - 1) \in 1 .. Len(q) - k /\ k + (i - (k - 1)) = i + 1
        BY <2>1, <3>2
      <4>2. i \in 1 .. Len(x) + Len(y) /\ ~(i <= Len(x))
        BY <2>1, <2>2, <2>3, <3>2
      <4>3. (x \o y)[i] = y[i - Len(x)]
        BY <2>2, <2>3, <4>2, ConcatProperties
      <4> QED BY <2>2, <2>3, <3>2, <4>1, <4>3
    <3> QED BY <3>1, <3>2
  <2> QED BY <2>1, <2>4, <2>5 DEF x, y
<1> HIDE DEF r
<1>6. \A i, j \in DOMAIN r : r[i].sid = r[j].sid => i = j
  <2> SUFFICES ASSUME NEW i \in DOMAIN r, NEW j \in DOMAIN r, r[i].sid = r[j].sid
               PROVE  i = j
    OBVIOUS
  <2> DEFINE old(n) == IF n < k THEN n ELSE n + 1
  <2>1. /\ old(i) \in DOMAIN q /\ r[i] = q[old(i)]
        /\ old(j) \in DOMAIN q /\ r[j] = q[old(j)]
    BY <1>2, <1>5
  <2>2. old(i) = old(j)
    BY <1>4, <2>1
  <2> QED BY <1>2, <1>5, <2>2
<1>7. {r[i] : i \in DOMAIN r} = {f \in {q[i] : i \in DOMAIN q} : f.sid # m.sid}
  <2>1. \A i \in DOMAIN q : i # k => q[i].sid # m.sid
    BY <1>2, <1>4
  <2>2. ASSUME NEW i \in DOMAIN r
        PROVE  \E j \in DOMAIN q : r[i] = q[j] /\ j # k
    <3>1. CASE i < k
      <4>1. i \in DOMAIN q /\ r[i] = q[i] /\ i # k
        BY <1>2, <1>5, <2>2, <3>1
      <4> QED BY <4>1
    <3>2. CASE ~(i < k)
      <4>1. i + 1 \in DOMAIN q /\ r[i] = q[i + 1] /\ i + 1 # k
        BY <1>2, <1>5, <2>2, <3>2
      <4> QED BY <4>1
    <3> QED BY <3>1, <3>2
  <2>3. ASSUME NEW j \in DOMAIN q, j # k
        PROVE  \E i \in DOMAIN r : r[i] = q[j]
    <3>1. CASE j < k
      BY <1>2, <1>5, <3>1
    <3>2. CASE j > k
      <4>1. j - 1 \in DOMAIN r /\ r[j - 1] = q[(j - 1) + 1]
        BY <1>2, <1>5, <3>2
      <4> QED BY <1>5, <4>1
    <3> QED BY <1>2, <1>5, <2>3, <3>1, <3>2
  <2>4. \A j \in DOMAIN q : q[j].sid # m.sid => j # k
    BY <1>2
  <2> QED BY <2>1, <2>2, <2>3, <2>4
<1>8. /\ table' \in [Buckets -> Seq(Entry)] /\ table'[m.bucket] = r
      /\ \A b \in Buckets : b # m.bucket => table'[b] = table[b]
  BY <1>1, <1>3, <1>5
<1>9. Distinct'
  BY <1>6, <1>8 DEF Distinct
<1>10. \A b \in Buckets : b # m.bucket => Chain(b)' = Chain(b)
  BY <1>8 DEF Chain
<1>11. Chain(m.bucket)' = {r[i] : i \in DOMAIN r} /\ Chain(m.bucket) = {q[i] : i \in DOMAIN q}
  BY <1>8 DEF Chain, ToSet, q
<1> QED BY <1>7, <1>8, <1>9, <1>10, <1>11 DEF Rewritten

-----------------------------------------------------------------------------
(***************************************************************************)
(* The poll set.                                                           *)
(***************************************************************************)

(* Every number below the size of a finite set of naturals is the rank of  *)
(* one of its elements, which is how RemovePollable finds what it moves to *)
(* a place.                                                                *)
LEMMA RankedElement ==
  ASSUME NEW S \in SUBSET Nat, IsFiniteSet(S), NEW n \in Nat, n < Cardinality(S)
  PROVE  \E i \in S : Cardinality({k \in S : k < i}) = n
<1> DEFINE before(i) == {k \in S : k < i}
           Q == {r \in Nat : r < Cardinality(S) => \E i \in S : Cardinality(before(i)) = r}
<1>1. 0 \in Q
  <2> SUFFICES ASSUME 0 < Cardinality(S) PROVE \E i \in S : Cardinality(before(i)) = 0
    OBVIOUS
  <2>1. S # {}
    BY FS_EmptySet
  <2>2. Min(S) \in S /\ before(Min(S)) = {}
    <3>1. PICK x \in S : x = Min(S) /\ \A k \in S : x <= k
      BY <2>1, LeastElement
    <3>2. \A k \in S : k \in Nat
      OBVIOUS
    <3>3. \A k \in S : ~(k < x)
      BY <3>1, <3>2
    <3> QED BY <3>1, <3>3
  <2> QED BY <2>2, FS_EmptySet
<1>2. ASSUME NEW r \in Q PROVE r + 1 \in Q
  <2> SUFFICES ASSUME r + 1 < Cardinality(S)
               PROVE  \E i \in S : Cardinality(before(i)) = r + 1
    OBVIOUS
  <2>0. Cardinality(S) \in Nat /\ r \in Nat
    BY FS_CardinalityType
  <2>1. PICK i \in S : Cardinality(before(i)) = r
    BY <2>0
  <2> DEFINE after == {k \in S : k > i}
  <2>2. IsFiniteSet(before(i)) /\ i \notin before(i)
    <3>1. before(i) \subseteq S
      OBVIOUS
    <3> QED BY <3>1, FS_Subset
  <2>3. Cardinality(before(i) \cup {i}) = r + 1
    BY <2>1, <2>2, FS_AddElement
  <2>4. after # {}
    <3>1. SUFFICES ASSUME after = {} PROVE FALSE
      OBVIOUS
    <3>2. \A k \in S : k \in Nat
      OBVIOUS
    <3>3. \A k \in S : k < i \/ k = i
      BY <3>1, <3>2
    <3>4. S = before(i) \cup {i}
      BY <3>3
    <3> QED BY <2>0, <2>3, <3>4
  <2>5. Min(after) \in after /\ \A k \in after : Min(after) <= k
    BY <2>4, LeastElement
  <2>6. before(Min(after)) = before(i) \cup {i}
    <3>1. PICK x \in after : x = Min(after) /\ \A k \in after : x <= k
      BY <2>5
    <3>2. i < x /\ \A k \in S : k \in Nat
      OBVIOUS
    <3>3. \A k \in S : k > i => x <= k
      BY <3>1
    <3>4. \A k \in S : k < x <=> (k < i \/ k = i)
      BY <3>2, <3>3
    <3> QED BY <3>1, <3>4
  <2> QED BY <2>3, <2>5, <2>6
<1>3. Q = Nat
  BY <1>1, <1>2, NatInduct
<1> QED BY <1>3

(* A greater element has a greater rank.                                   *)
LEMMA RanksDiffer ==
  ASSUME NEW S \in SUBSET Nat, IsFiniteSet(S), NEW i \in S, NEW j \in S, i < j
  PROVE  /\ Cardinality({k \in S : k < i}) \in Nat /\ Cardinality({k \in S : k < j}) \in Nat
         /\ Cardinality({k \in S : k < i}) < Cardinality({k \in S : k < j})
         /\ Cardinality({k \in S : k < j}) < Cardinality(S)
<1> DEFINE before(n) == {k \in S : k < n}
<1>1. \A n \in S : IsFiniteSet(before(n)) /\ Cardinality(before(n)) \in Nat
  <2>1. \A n \in S : before(n) \subseteq S
    OBVIOUS
  <2> QED BY <2>1, FS_Subset, FS_CardinalityType
<1>0. \A k \in S : k \in Nat
  OBVIOUS
<1>2. i \notin before(i) /\ before(i) \cup {i} \subseteq before(j)
  <2>1. \A k \in S : k < i => k < j
    BY <1>0
  <2>2. ~(i < i)
    BY <1>0
  <2> QED BY <2>1, <2>2
<1>3. Cardinality(before(i) \cup {i}) = Cardinality(before(i)) + 1
  BY <1>1, <1>2, FS_AddElement
<1>4. Cardinality(before(i) \cup {i}) <= Cardinality(before(j))
  BY <1>1, <1>2, FS_Subset
<1>5. j \notin before(j) /\ before(j) \cup {j} \subseteq S
  <2>1. ~(j < j)
    BY <1>0
  <2> QED BY <2>1
<1>6. Cardinality(before(j) \cup {j}) = Cardinality(before(j)) + 1
  BY <1>1, <1>5, FS_AddElement
<1>7. Cardinality(before(j) \cup {j}) <= Cardinality(S) /\ Cardinality(S) \in Nat
  BY <1>5, FS_Subset, FS_CardinalityType
<1>8. Cardinality(before(i)) \in Nat /\ Cardinality(before(j)) \in Nat
  BY <1>1
<1> HIDE DEF before
<1>9. Cardinality(before(i)) < Cardinality(before(j)) /\ Cardinality(before(j)) < Cardinality(S)
  BY <1>3, <1>4, <1>6, <1>7, <1>8
<1> QED BY <1>8, <1>9 DEF before

(* The rank of an element is less than the element itself, and less than   *)
(* the number of elements.                                                 *)
LEMMA RankBounded ==
  ASSUME NEW N \in Nat, NEW S \in SUBSET (1 .. N), NEW i \in S
  PROVE  /\ IsFiniteSet(S)
         /\ Cardinality({k \in S : k < i}) \in Nat
         /\ Cardinality({k \in S : k < i}) <= i - 1
         /\ Cardinality({k \in S : k < i}) < Cardinality(S)
         /\ Cardinality(S) <= N
<1> DEFINE before == {k \in S : k < i}
<1>1. IsFiniteSet(1 .. N) /\ Cardinality(1 .. N) = N
  BY FS_Interval
<1>2. IsFiniteSet(S) /\ Cardinality(S) <= N
  BY <1>1, FS_Subset
<1>3. IsFiniteSet(1 .. i - 1) /\ Cardinality(1 .. i - 1) = i - 1
  BY FS_Interval
<1>4. before \subseteq 1 .. i - 1
  <2>1. \A k \in S : k \in 1 .. N
    OBVIOUS
  <2>2. \A k \in S : k < i => k \in 1 .. i - 1
    BY <2>1
  <2> QED BY <2>2
<1>5. IsFiniteSet(before) /\ Cardinality(before) <= i - 1 /\ Cardinality(before) \in Nat
  BY <1>3, <1>4, FS_Subset, FS_CardinalityType
<1>6. i \notin before /\ before \cup {i} \subseteq S
  OBVIOUS
<1>7. Cardinality(before \cup {i}) = Cardinality(before) + 1
  BY <1>5, <1>6, FS_AddElement
<1>8. Cardinality(before \cup {i}) <= Cardinality(S) /\ Cardinality(S) \in Nat
  BY <1>2, <1>6, FS_Subset, FS_CardinalityType
<1> HIDE DEF before
<1>9. Cardinality(before) < Cardinality(S)
  BY <1>5, <1>7, <1>8
<1> QED BY <1>2, <1>5, <1>9 DEF before

(* An element of the poll set, and that no descriptor is in it twice.      *)
Element == [fd : Fds \cup {Listener}, ready : BOOLEAN]
NoDouble == \A i, j \in DOMAIN pollset : pollset[i].fd = pollset[j].fd => i = j

(* dsm_removePollable keeps all the elements it is not asked to remove,    *)
(* and moves each of them to the left or not at all.                       *)
Thinned(p, fds) ==
  /\ p \in Seq(Element)
  /\ \A j \in DOMAIN p : \E i \in DOMAIN pollset :
       j <= i /\ p[j] = pollset[i] /\ pollset[i].fd \notin fds
  /\ \A i \in DOMAIN pollset : pollset[i].fd \notin fds => \E j \in DOMAIN p : p[j] = pollset[i]
  /\ \A i, j \in DOMAIN p : p[i].fd = p[j].fd => i = j

LEMMA RemoveKeeps ==
  ASSUME pollset \in Seq(Element), NoDouble, NEW fds, NEW p, p = RemovePollable(fds)
  PROVE  Thinned(p, fds)
<1> DEFINE kept == {i \in DOMAIN pollset : pollset[i].fd \notin fds}
           before(i) == Cardinality({k \in kept : k < i})
           old(j) == CHOOSE i \in kept : before(i) = j - 1
<1>1. p = [j \in 1 .. Cardinality(kept) |-> pollset[old(j)]]
  BY DEF RemovePollable
<1>2. /\ Len(pollset) \in Nat /\ DOMAIN pollset = 1 .. Len(pollset)
      /\ \A i \in 1 .. Len(pollset) : pollset[i] \in Element
  OBVIOUS
<1>3. kept \in SUBSET (1 .. Len(pollset))
  BY <1>2
<1>4. IsFiniteSet(kept) /\ Cardinality(kept) \in Nat /\ kept \in SUBSET Nat
  <2>1. IsFiniteSet(1 .. Len(pollset))
    BY <1>2, FS_Interval
  <2> QED BY <2>1, <1>2, <1>3, FS_Subset, FS_CardinalityType
<1>5. \A i \in kept : i \in 1 .. Len(pollset) /\ before(i) \in Nat /\ before(i) <= i - 1
                      /\ before(i) < Cardinality(kept)
  BY <1>2, <1>3, RankBounded
<1>6. \A i \in kept : i \in DOMAIN pollset /\ pollset[i].fd \notin fds
  OBVIOUS
<1>7. \A i \in DOMAIN pollset : pollset[i].fd \notin fds => i \in kept
  OBVIOUS
<1>8. \A i, j \in kept : before(i) = before(j) => i = j
  <2> SUFFICES ASSUME NEW i \in kept, NEW j \in kept, before(i) = before(j), i # j PROVE FALSE
    OBVIOUS
  <2>1. i \in Nat /\ j \in Nat /\ before(i) \in Nat
    BY <1>4, <1>5
  <2>2. i < j => before(i) < before(j)
    BY <1>4, RanksDiffer
  <2>3. j < i => before(j) < before(i)
    BY <1>4, RanksDiffer
  <2> HIDE DEF before, kept
  <2> QED BY <2>1, <2>2, <2>3
<1>9. \A n \in Nat : n < Cardinality(kept) => \E i \in kept : before(i) = n
  BY <1>4, RankedElement
<1> HIDE DEF kept, before
<1>10. \A j \in 1 .. Cardinality(kept) : old(j) \in kept /\ before(old(j)) = j - 1
  <2> SUFFICES ASSUME NEW j \in 1 .. Cardinality(kept)
               PROVE  \E i \in kept : before(i) = j - 1
    OBVIOUS
  <2>1. j - 1 \in Nat /\ j - 1 < Cardinality(kept)
    BY <1>4
  <2> QED BY <1>9, <2>1
<1> HIDE DEF old
<1>11. DOMAIN p = 1 .. Cardinality(kept) /\ \A j \in 1 .. Cardinality(kept) : p[j] = pollset[old(j)]
  BY <1>1
<1>12. p \in Seq(Element)
  <2>1. \A j \in 1 .. Cardinality(kept) : p[j] \in Element
    BY <1>2, <1>5, <1>10, <1>11
  <2>2. p \in [1 .. Cardinality(kept) -> Element]
    BY <1>1, <2>1, <1>11
  <2> QED BY <1>4, <2>2
<1>13. ASSUME NEW j \in DOMAIN p
       PROVE  \E i \in DOMAIN pollset : j <= i /\ p[j] = pollset[i] /\ pollset[i].fd \notin fds
  <2>1. old(j) \in kept /\ before(old(j)) = j - 1 /\ p[j] = pollset[old(j)]
    BY <1>10, <1>11, <1>13
  <2>2. j <= old(j)
    <3>1. /\ old(j) \in 1 .. Len(pollset)
          /\ before(old(j)) \in Nat /\ before(old(j)) <= old(j) - 1
      BY <1>5, <2>1
    <3>2. j \in Nat /\ old(j) \in Nat
      BY <1>2, <1>4, <1>11, <3>1
    <3> QED BY <2>1, <3>1, <3>2
  <2> QED BY <1>6, <2>1, <2>2
<1>14. ASSUME NEW i \in DOMAIN pollset, pollset[i].fd \notin fds
       PROVE  \E j \in DOMAIN p : p[j] = pollset[i]
  <2>1. i \in kept
    BY <1>7, <1>14
  <2>2. before(i) + 1 \in 1 .. Cardinality(kept) /\ (before(i) + 1) - 1 = before(i)
    BY <1>4, <1>5, <2>1
  <2>3. old(before(i) + 1) = i
    BY <1>8, <1>10, <2>1, <2>2
  <2> QED BY <1>11, <2>2, <2>3
<1>15. ASSUME NEW i \in DOMAIN p, NEW j \in DOMAIN p, p[i].fd = p[j].fd
       PROVE  i = j
  <2>1. old(i) = old(j)
    BY <1>6, <1>10, <1>11, <1>15 DEF NoDouble
  <2>2. i - 1 = j - 1
    BY <1>10, <1>11, <2>1
  <2> QED BY <1>11, <1>4, <2>2
<1> QED BY <1>12, <1>13, <1>14, <1>15 DEF Thinned

(* The loop over the poll set stops at an element with POLLIN, or is over. *)
LEMMA NextIsReady ==
  ASSUME NEW set \in Seq(Element), NEW i \in Nat
  PROVE  \/ NextReady(set, i + 1) = 0
         \/ NextReady(set, i + 1) \in i + 1 .. Len(set) /\ set[NextReady(set, i + 1)].ready
<1>1. From(set, i + 1) \in SUBSET Nat
  BY DEF From
<1>2. From(set, i + 1) # {} => Min(From(set, i + 1)) \in From(set, i + 1)
  BY <1>1, LeastElement
<1> QED BY <1>2 DEF NextReady, From

-----------------------------------------------------------------------------
(***************************************************************************)
(* The invariant, and what a call of processMessage does.                  *)
(***************************************************************************)

(* The daemon has read the message of p.                                   *)
Read(p) == stage[p] # "idle" /\ p \notin unread

(* How far the peers can be: only a server that was forked says anything,  *)
(* it reports the end of its session only after its check-in was read, and *)
(* nobody is told the port of a server that has not checked in.            *)
PeerInv ==
  /\ \A p \in unread : stage[p] \in {"sent", "left"}
  /\ \A p \in Servers \X {"SET", "DEL"} :
       stage[p] \in {"idle", "sent"} /\ (stage[p] # "idle" => sid[p[1]] # NoSid)
  /\ \A n \in Servers : stage[<<n, "DEL">>] # "idle" => Read(<<n, "SET">>)
  /\ \A c \in Clients : got[c] # NoPort => Read(<<got[c], "SET">>)

(* The clients whose first requests were read. Servers are forked in       *)
(* order, and there is a request that was read for each of them, the first *)
(* of a client or a further one: there is always one left to fork.         *)
Heard == {c \in Clients : stage[c] \in {"sent", "left"} /\ c \notin unread}
ForkInv ==
  \E k \in 0 .. NServers :
    /\ {n \in Servers : sid[n] # NoSid} = 1 .. k
    /\ k <= Cardinality(Heard) + Cardinality(seen)

(* An entry has somebody waiting, or the port of a server that has checked *)
(* in for it, never both.                                                  *)
ChainInv ==
  /\ Distinct
  /\ \A b \in Buckets : \A e \in Chain(b) :
       /\ e.port = NoPort => e.queue # << >>
       /\ e.port # NoPort => /\ e.queue = << >> /\ sid[e.port] = e.sid
                             /\ Read(<<e.port, "SET">>)

(* What the memory of msg may say when processMessage finds it again: the  *)
(* table has moved on since, but an old request finds its entry, an old    *)
(* check-in finds the port it set, and an old report finds nothing.        *)
LastInv ==
  daemon = "up" /\ last # NoMsg =>
    /\ last.type = "GET_SESSION" => \E e \in Chain(last.bucket) : e.sid = last.sid
    /\ last.type = "SET_SESSION" =>
         /\ last.port # NoPort
         /\ \E e \in Chain(last.bucket) : e.sid = last.sid /\ e.port = last.port
    /\ last.type = "DEL_SESSION" => \A e \in Chain(last.bucket) : e.sid # last.sid

(* The poll set holds the listener and the connected descriptors, each     *)
(* once; no peer has two, and those in the backlog have none yet.          *)
ConnInv ==
  /\ NoDouble
  /\ \A fd \in Fds : owner[fd] # NoPeer <=> \E i \in DOMAIN pollset : pollset[i].fd = fd
  /\ \A f, g \in Fds : owner[f] # NoPeer /\ owner[f] = owner[g] => f = g
  /\ \A fd \in Fds : owner[fd] # NoPeer => stage[owner[fd]] # "idle"
  /\ \A i \in DOMAIN backlog : stage[backlog[i]] # "idle" /\ \A fd \in Fds : owner[fd] # backlog[i]
  /\ \A i, j \in DOMAIN backlog : backlog[i] = backlog[j] => i = j

(* The loop stands at an element with POLLIN, and wherever it will find    *)
(* one later there is still something to read.                             *)
ReadyInv ==
  daemon = "up" /\ at # 0 =>
    /\ at \in DOMAIN pollset /\ pollset[at].ready
    /\ \A i \in at .. Len(pollset) : pollset[i].ready => Readable(pollset[i].fd)

(* Whoever waits in an entry is connected, was heard, and asked for just   *)
(* that session; nobody waits twice. It is an invariant only while nobody  *)
(* hangs up or asks again: a descriptor that is closed is given to another *)
(* peer, and one that asked twice waits twice.                             *)
QueueInv ==
  Patient /\ daemon = "up" =>
    \A b \in Buckets : \A e \in Chain(b) : \A i \in DOMAIN e.queue :
      /\ owner[e.queue[i]] \in Heard /\ want[owner[e.queue[i]]] = e.sid
      /\ \A b2 \in Buckets : \A f \in Chain(b2) : \A j \in DOMAIN f.queue :
           e.queue[i] = f.queue[j] => b = b2 /\ e = f /\ i = j

(* Whoever was told a port was told that of a server of the session asked  *)
(* for.                                                                    *)
RightAnswers ==
  Patient => \A c \in Clients : got[c] # NoPort => sid[got[c]] = want[c]

(* A server is active until the daemon has read that its session is over.  *)
Active(n) == sid[n] # NoSid /\ ~Read(<<n, "DEL">>)

(* No session has two active servers.                                      *)
OneActive == \A m, n \in Servers : Active(m) /\ Active(n) /\ sid[m] = sid[n] => m = n

(* The entries of the table are the sessions with an active server, each   *)
(* in its own bucket, with that server's port from its check-in on.        *)
ActiveInv ==
  /\ OneActive
  /\ daemon = "up" =>
       /\ \A s \in Sids : (\E e \in Chain(Hash[s]) : e.sid = s)
                            <=> \E n \in Servers : Active(n) /\ sid[n] = s
       /\ \A b \in Buckets : \A e \in Chain(b) :
            /\ b = Hash[e.sid]
            /\ \A n \in Servers : Active(n) /\ sid[n] = e.sid =>
                 e.port = IF Read(<<n, "SET">>) THEN n ELSE NoPort
       /\ last # NoMsg => last.bucket = Hash[last.sid]

(* The invariant that holds whatever the clients do.                       *)
DaemonInv == TypeOK /\ PeerInv /\ ForkInv /\ ChainInv /\ LastInv /\ ConnInv /\ ReadyInv

(* One more of the further messages of fd's client has been read.          *)
TakesFurther(fd) ==
  \E i \in DOMAIN again \ seen : again[i].client = owner[fd] /\ seen' = seen \cup {i}

(* processMessage takes m from fd: it has just read it, or has found the   *)
(* connection closed and goes on with what an earlier call has left        *)
(* (dsm_daemon.c:261).                                                     *)
Taken(fd, m, shut) ==
  /\ at # 0 /\ fd \in Fds /\ pollset[at].fd = fd /\ owner[fd] \in Peers
  /\ m \in Message /\ last' = m
  /\ UNCHANGED <<backlog, stage, again, dead, want>>
  /\ \/ /\ shut = {} /\ owner[fd] \in unread /\ m = MessageOf(owner[fd])
        /\ unread' = unread \ {owner[fd]} /\ UNCHANGED seen
     \/ /\ shut = {} /\ UNCHANGED unread /\ TakesFurther(fd)
        /\ \E s \in Sids : m = Request(s)
     \/ /\ shut = {fd} /\ m = last /\ last # NoMsg
        /\ owner[fd] \notin unread /\ stage[owner[fd]] = "left" /\ UNCHANGED <<unread, seen>>

(* processMessage closes the connection and does nothing else: it found it *)
(* closed and has nothing to go on with, or read a message there is no     *)
(* action for.                                                             *)
Ignored(fd) ==
  /\ at # 0 /\ fd \in Fds /\ pollset[at].fd = fd /\ owner[fd] \in Peers
  /\ \/ stage[owner[fd]] = "left" /\ UNCHANGED <<last, seen>>
     \/ TakesFurther(fd) /\ last' = NoMsg
  /\ Close({fd})
  /\ UNCHANGED <<daemon, table, sid, got, unread, backlog, stage, again, dead, want>>

(* The entries of the message's identifier: one or none.                   *)
Of(m) == {e \in Chain(m.bucket) : e.sid = m.sid}

(* The six outcomes of a handler. The daemon ends, because a queue is full *)
(* or in a panic.                                                          *)
Halted(fd, m, shut) ==
  /\ UNCHANGED <<table, loopVars, sid>>
  /\ \/ daemon' = "limit" /\ m.type = "GET_SESSION" /\ Of(m) # {} /\ UNCHANGED got
     \/ /\ daemon' = "panic" /\ m.type = "GET_SESSION" /\ Closed(fd, shut)
        /\ \E e \in Of(m) : e.port # NoPort /\ Told({fd} \ shut, e.port)
     \/ daemon' = "panic" /\ m.type # "GET_SESSION" /\ Of(m) = {} /\ UNCHANGED got
     \/ /\ daemon' = "panic" /\ m.type = "SET_SESSION"
        /\ \E e \in Of(m) : /\ Unanswerable(e.queue, shut) # {}
                            /\ \E fds \in SUBSET ToSet(e.queue) : Told(fds, m.port)

(* The session is new: an entry is made and a server forked.               *)
Created(fd, m, shut) ==
  /\ m.type = "GET_SESSION" /\ Of(m) = {}
  /\ Rewritten(m, {[sid |-> m.sid, port |-> NoPort, queue |-> <<fd>>]})
  /\ Fork(m.sid) /\ Close(shut) /\ UNCHANGED <<daemon, got>>

(* The session is not open yet: the client is left waiting.                *)
Joined(fd, m, shut) ==
  \E e \in Of(m) :
    /\ m.type = "GET_SESSION" /\ e.port = NoPort /\ Len(e.queue) < MaxQueue
    /\ Rewritten(m, {[e EXCEPT !.queue = Append(@, fd)]})
    /\ Close(shut) /\ UNCHANGED <<daemon, sid, got>>

(* The session is open: the client is told the port.                       *)
Replied(fd, m, shut) ==
  \E e \in Of(m) :
    /\ m.type = "GET_SESSION" /\ e.port # NoPort /\ ~Closed(fd, shut)
    /\ Told({fd} \ shut, e.port) /\ Close({fd}) /\ UNCHANGED <<daemon, table, sid>>

(* An entry once its session is open at p.                                 *)
OpenAt(e, p) == [e EXCEPT !.port = p, !.queue = << >>]

(* The session opens: everyone waiting is told the port.                   *)
Opened(fd, m, shut) ==
  \E e \in Of(m) :
    /\ m.type = "SET_SESSION" /\ Unanswerable(e.queue, shut) = {}
    /\ Rewritten(m, {OpenAt(e, m.port)})
    /\ Told(ToSet(e.queue), m.port) /\ Close(ToSet(e.queue) \cup {fd})
    /\ UNCHANGED <<daemon, sid>>

(* The session is over: its entry goes.                                    *)
Deleted(fd, m, shut) ==
  \E e \in Of(m) :
    /\ m.type = "DEL_SESSION" /\ Rewritten(m, {})
    /\ Close({fd} \cup ToSet(e.queue)) /\ UNCHANGED <<daemon, sid, got>>

(* What an entry holds once its session is open: its port, and nobody      *)
(* waiting.                                                                *)
LEMMA EntryOpened ==
  ASSUME NEW e \in Entry, NEW p \in Servers \cup {NoPort}
  PROVE  /\ OpenAt(e, p) \in Entry /\ OpenAt(e, p).sid = e.sid
         /\ OpenAt(e, p).port = p /\ OpenAt(e, p).queue = << >>
<1> DEFINE g == [e EXCEPT !.port = p]
<1>1. g \in Entry /\ g.sid = e.sid /\ g.port = p
  BY DEF Entry
<1>2. OpenAt(e, p) = [g EXCEPT !.queue = << >>]
  BY DEF OpenAt
<1> HIDE DEF g
<1>3. << >> \in Seq(Fds)
  OBVIOUS
<1>4. /\ [g EXCEPT !.queue = << >>] \in Entry /\ [g EXCEPT !.queue = << >>].sid = g.sid
      /\ [g EXCEPT !.queue = << >>].port = g.port /\ [g EXCEPT !.queue = << >>].queue = << >>
  BY <1>1, <1>3 DEF Entry
<1> QED BY <1>1, <1>2, <1>4

(* A handler has one of the six outcomes: the entry it looks up is the     *)
(* only one with that identifier, so what it does can be said without the  *)
(* order of the chains.                                                    *)
LEMMA DispatchOutcome ==
  ASSUME TypeOK, Distinct, NEW fd \in Fds, NEW m \in Message, NEW shut, Dispatch(fd, m, shut)
  PROVE  \/ Halted(fd, m, shut) \/ Created(fd, m, shut) \/ Joined(fd, m, shut)
         \/ Replied(fd, m, shut) \/ Opened(fd, m, shut) \/ Deleted(fd, m, shut)
<1>1. m.bucket \in Buckets /\ m.sid \in Sids /\ m.port \in Servers \cup {NoPort}
  BY DEF Message
<1>2. /\ Known(m) <=> Of(m) # {}
      /\ Known(m) => Lookup(m) \in Of(m)
  BY <1>1, KnownIs DEF Of
<1>3. \A e \in Of(m) : e \in Entry /\ e.sid = m.sid
  <2>1. table[m.bucket] \in Seq(Entry)
    BY <1>1 DEF TypeOK
  <2> QED BY <2>1 DEF Of, Chain, ToSet
<1>4. CASE m.type = "GET_SESSION" /\ MsgGetSession(fd, m, shut)
  <2>1. CASE /\ ~Known(m)
             /\ table' = Prepended(m, [sid |-> m.sid, port |-> NoPort, queue |-> <<fd>>])
             /\ Fork(m.sid) /\ Close(shut) /\ UNCHANGED <<daemon, got>>
    <3> DEFINE e == [sid |-> m.sid, port |-> NoPort, queue |-> <<fd>>]
    <3>1. e \in Entry /\ e.sid = m.sid
      BY <1>1 DEF Entry
    <3> HIDE DEF e
    <3>2. Rewritten(m, {e})
      BY <1>1, <2>1, <3>1, PrependRewrites DEF e
    <3> QED BY <1>2, <1>4, <2>1, <3>2 DEF Created, e
  <2>2. CASE /\ Known(m) /\ Lookup(m).port = NoPort /\ IsFull(Lookup(m).queue)
             /\ Panic("limit") /\ UNCHANGED got
    BY <1>2, <1>4, <2>2 DEF Halted, Panic
  <2>3. CASE /\ Known(m) /\ Lookup(m).port = NoPort /\ ~IsFull(Lookup(m).queue)
             /\ table' = Updated(m, [Lookup(m) EXCEPT !.queue = Append(@, fd)])
             /\ Close(shut) /\ UNCHANGED <<daemon, sid>> /\ UNCHANGED got
    <3> DEFINE e == [Lookup(m) EXCEPT !.queue = Append(@, fd)]
    <3>0. Lookup(m) \in Entry /\ Lookup(m).sid = m.sid
      BY <1>2, <1>3, <2>3
    <3>1. e \in Entry /\ e.sid = m.sid
      BY <3>0 DEF Entry
    <3>2. Len(Lookup(m).queue) < MaxQueue
      BY <2>3, <3>0, DaemonAssumption DEF IsFull, Entry
    <3> HIDE DEF e
    <3>3. Rewritten(m, {e})
      BY <1>1, <2>3, <3>1, UpdateRewrites DEF e
    <3> QED BY <1>2, <1>4, <2>3, <3>2, <3>3 DEF Joined, e
  <2>4. CASE /\ Known(m) /\ Lookup(m).port # NoPort
             /\ Closed(fd, shut) /\ Panic("panic")
             /\ Told({fd} \ shut, Lookup(m).port)
    BY <1>2, <1>4, <2>4 DEF Halted, Panic
  <2>5. CASE /\ Known(m) /\ Lookup(m).port # NoPort
             /\ ~Closed(fd, shut) /\ Close({fd}) /\ UNCHANGED <<daemon, table, sid>>
             /\ Told({fd} \ shut, Lookup(m).port)
    BY <1>2, <1>4, <2>5 DEF Replied
  <2> QED BY <1>4, <2>1, <2>2, <2>3, <2>4, <2>5 DEF MsgGetSession
<1>5. CASE m.type = "SET_SESSION" /\ MsgSetSession(fd, m, shut)
  <2>1. CASE ~Known(m) /\ Panic("panic") /\ UNCHANGED got
    BY <1>2, <1>5, <2>1 DEF Halted, Panic
  <2> DEFINE q == Lookup(m).queue
             bad == Unanswerable(q, shut)
             answered == {q[i] : i \in {j \in DOMAIN q : \A k \in bad : j > k}}
  <2>2. CASE Known(m) /\ Told(answered, m.port) /\ bad # {} /\ Panic("panic")
    <3>1. answered \in SUBSET ToSet(Lookup(m).queue)
      BY DEF ToSet
    <3>2. /\ UNCHANGED <<table, loopVars, sid>> /\ daemon' = "panic"
          /\ Lookup(m) \in Of(m) /\ Unanswerable(Lookup(m).queue, shut) # {}
      BY <1>2, <2>2 DEF Panic
    <3>3. Told(answered, m.port)
      BY <2>2
    <3> HIDE DEF answered, bad
    <3> QED BY <1>5, <3>1, <3>2, <3>3 DEF Halted
  <2>3. CASE /\ Known(m) /\ Told(answered, m.port) /\ bad = {}
             /\ table' = Updated(m, [Lookup(m) EXCEPT !.port = m.port, !.queue = << >>])
             /\ Close(answered \cup {fd}) /\ UNCHANGED <<daemon, sid>>
    <3>0. Lookup(m) \in Entry /\ Lookup(m).sid = m.sid /\ Lookup(m) \in Of(m)
      BY <1>2, <1>3, <2>3
    <3>1. PICK e \in Entry : e = OpenAt(Lookup(m), m.port) /\ e.sid = m.sid
      BY <1>1, <3>0, EntryOpened
    <3>2. answered = ToSet(Lookup(m).queue)
      <4>1. {j \in DOMAIN q : \A k \in bad : j > k} = DOMAIN q
        BY <2>3
      <4>2. answered = {q[i] : i \in DOMAIN q}
        BY <4>1
      <4> QED BY <4>2 DEF ToSet
    <3> HIDE DEF answered
    <3>3. Rewritten(m, {e})
      <4>1. table' = Updated(m, e) /\ Known(m)
        BY <2>3, <3>1 DEF OpenAt
      <4> QED BY <1>1, <3>1, <4>1, UpdateRewrites
    <3> QED BY <1>5, <2>3, <3>0, <3>1, <3>2, <3>3 DEF Opened
  <2> QED BY <1>5, <2>1, <2>2, <2>3 DEF MsgSetSession
<1>6. CASE m.type = "DEL_SESSION" /\ MsgDelSession(fd, m, shut)
  <2>1. CASE ~Known(m) /\ Panic("panic") /\ UNCHANGED got
    BY <1>2, <1>6, <2>1 DEF Halted, Panic
  <2>2. CASE /\ Known(m) /\ table' = Removed(m)
             /\ Close({fd} \cup ToSet(Lookup(m).queue)) /\ UNCHANGED <<daemon, sid, got>>
    <3>1. Rewritten(m, {})
      BY <1>1, <2>2, RemoveRewrites
    <3> QED BY <1>2, <1>6, <2>2, <3>1 DEF Deleted
  <2> QED BY <1>6, <2>1, <2>2 DEF MsgDelSession
<1> QED BY <1>4, <1>5, <1>6 DEF Dispatch

(* The two messages of a server are peers of their own, and no clients.    *)
LEMMA ServerPeers ==
  ASSUME NEW n \in Servers, NEW k \in {"SET", "DEL"}
  PROVE  <<n, k>> \in Peers \ Clients
BY PeerAssumption DEF Peers

(* A peer that is not a client is one of the two messages of a server.     *)
LEMMA OtherPeers ==
  ASSUME NEW p \in Peers \ Clients
  PROVE  /\ p \in Servers \X {"SET", "DEL"} /\ p[1] \in Servers /\ p[2] \in {"SET", "DEL"}
         /\ p = <<p[1], p[2]>>
BY DEF Peers

(* A request says which session it is for, under the bucket of its         *)
(* identifier.                                                             *)
LEMMA RequestIs ==
  ASSUME NEW s \in Sids
  PROVE  /\ Request(s) \in Message /\ Request(s).type = "GET_SESSION"
         /\ Request(s).sid = s /\ Request(s).bucket = Hash[s]
BY DaemonAssumption DEF Request, Message

(* What the first message of each peer says: a client asks for the session *)
(* it wants; a server speaks of the session it was forked for.             *)
LEMMA SentMessages ==
  ASSUME TypeOK, PeerInv, NEW p \in unread, NEW m, m = MessageOf(p)
  PROVE  /\ m \in Message
         /\ p \in Clients => m.type = "GET_SESSION" /\ m.sid = want[p]
                             /\ m.bucket = Hash[m.sid]
         /\ p \notin Clients =>
              /\ p[1] \in Servers /\ m.sid = sid[p[1]] /\ m.bucket = Hash[m.sid]
              /\ \/ p = <<p[1], "SET">> /\ m.type = "SET_SESSION" /\ m.port = p[1]
                 \/ p = <<p[1], "DEL">> /\ m.type = "DEL_SESSION"
<1>1. CASE p \in Clients
  <2>1. want[p] \in Sids
    BY <1>1, DaemonAssumption DEF TypeOK
  <2>2. m = Request(want[p])
    BY <1>1 DEF MessageOf
  <2> QED BY <1>1, <2>1, <2>2, RequestIs
<1>2. CASE p \notin Clients
  <2>1. /\ p \in Servers \X {"SET", "DEL"} /\ p[1] \in Servers /\ p[2] \in {"SET", "DEL"}
        /\ p = <<p[1], p[2]>>
    BY <1>2, OtherPeers DEF TypeOK
  <2>2. sid[p[1]] \in Sids
    BY <2>1 DEF PeerInv, TypeOK
  <2>3. Hash[sid[p[1]]] \in Buckets
    BY <2>2, DaemonAssumption
  <2>4. CASE p[2] = "SET"
    <3>1. m = [type |-> "SET_SESSION", sid |-> sid[p[1]], bucket |-> Hash[sid[p[1]]], port |-> p[1]]
      BY <1>2, <2>4 DEF MessageOf
    <3> QED BY <1>2, <2>1, <2>2, <2>3, <2>4, <3>1 DEF Message
  <2>5. CASE p[2] = "DEL"
    <3>1. m = [type |-> "DEL_SESSION", sid |-> sid[p[1]], bucket |-> Hash[sid[p[1]]], port |-> NoPort]
      BY <1>2, <2>5 DEF MessageOf
    <3> QED BY <1>2, <2>1, <2>2, <2>3, <2>5, <3>1 DEF Message
  <2> QED BY <2>1, <2>4, <2>5
<1> QED BY <1>1, <1>2

(* Further messages come from interactive clients.                         *)
LEMMA AgainTyped ==
  ASSUME TypeOK, NEW i \in DOMAIN again
  PROVE  again[i].client \in Interactive /\ again[i].sid \in Sids \cup {NoSid}
<1>1. PICK T : T = [client : Interactive, sid : Sids \cup {NoSid}]
  OBVIOUS
<1>2. again \in Seq(T)
  BY <1>1 DEF TypeOK
<1>3. again[i] \in T
  BY <1>2
<1> QED BY <1>1, <1>3

(* Every call of processMessage takes a message, new or old, or ignores    *)
(* the closed connection. Since the loop stands at a readable descriptor,  *)
(* it is not called for nothing.                                           *)
LEMMA MessageCases ==
  ASSUME TypeOK, PeerInv, ConnInv, ReadyInv, daemon = "up", ProcessMessage
  PROVE  \E fd \in Fds : \/ Ignored(fd)
                         \/ \E m \in Message, shut \in {{}, {fd}} :
                              Taken(fd, m, shut) /\ Dispatch(fd, m, shut)
<1> DEFINE fd == pollset[at].fd
<1>1. at # 0 /\ at \in DOMAIN pollset /\ Readable(fd) /\ fd \in Fds
  <2>1. at # 0 /\ at \in DOMAIN pollset /\ pollset[at].ready /\ fd # Listener
        /\ \A i \in at .. Len(pollset) : pollset[i].ready => Readable(pollset[i].fd)
    BY DEF ProcessMessage, ReadyInv
  <2>2. at \in at .. Len(pollset) /\ fd \in Fds \cup {Listener}
    <3>1. pollset \in Seq(Element) /\ at \in 0 .. Len(pollset)
      BY DEF TypeOK, Element
    <3>2. at \in 1 .. Len(pollset) /\ at \in at .. Len(pollset)
      BY <2>1, <3>1
    <3>3. pollset[at] \in Element
      BY <3>1, <3>2
    <3> QED BY <3>2, <3>3 DEF Element
  <2> QED BY <2>1, <2>2
<1>2. owner[fd] \in Peers
  BY <1>1 DEF ConnInv, TypeOK
<1>3. owner[fd] \in unread \/ Further(owner[fd]) # {} \/ stage[owner[fd]] = "left"
  BY <1>1, PeerAssumption DEF Readable, ProcessMessage
<1>4. CASE ReadMessage(fd)
  <2>1. PICK m : m = MessageOf(owner[fd]) /\ Dispatch(fd, m, {}) /\ last' = m
    BY <1>4 DEF ReadMessage
  <2>2. owner[fd] \in unread /\ unread' = unread \ {owner[fd]} /\ UNCHANGED seen
    BY <1>4 DEF ReadMessage
  <2>3. m \in Message
    BY <2>1, <2>2, SentMessages
  <2>4. Taken(fd, m, {})
    BY <1>1, <1>2, <2>1, <2>2, <2>3 DEF Taken, ProcessMessage
  <2> QED BY <1>1, <2>1, <2>3, <2>4
<1>5. CASE ReadNothing(fd)
  <2>1. owner[fd] \notin unread /\ stage[owner[fd]] = "left" /\ UNCHANGED <<last, unread, seen>>
    BY <1>3, <1>5 DEF ReadNothing
  <2>2. CASE Close({fd}) /\ UNCHANGED <<daemon, table, sid, got>>
    <3>1. Ignored(fd)
      BY <1>1, <1>2, <2>1, <2>2 DEF Ignored, ProcessMessage
    <3> QED BY <1>1, <3>1
  <2>3. CASE last # NoMsg /\ Dispatch(fd, last, {fd})
    <3>1. last \in Message
      BY <2>3 DEF TypeOK
    <3>2. Taken(fd, last, {fd})
      BY <1>1, <1>2, <2>1, <2>3, <3>1 DEF Taken, ProcessMessage
    <3> QED BY <1>1, <2>3, <3>1, <3>2
  <2> QED BY <1>5, <2>2, <2>3 DEF ReadNothing
<1>6. CASE ReadFurther(fd)
  <2>1. PICK i : i = Min(Further(owner[fd]))
    OBVIOUS
  <2>2. /\ seen' = seen \cup {i} /\ UNCHANGED unread /\ Further(owner[fd]) # {}
        /\ \/ again[i].sid # NoSid /\ Dispatch(fd, Request(again[i].sid), {})
              /\ last' = Request(again[i].sid)
           \/ Close({fd}) /\ last' = NoMsg /\ UNCHANGED <<daemon, table, sid, got>>
    BY <1>6, <2>1 DEF ReadFurther
  <2>3. i \in DOMAIN again \ seen /\ again[i].client = owner[fd]
    <3>1. again \in Seq([client : Interactive, sid : Sids \cup {NoSid}])
      BY DEF TypeOK
    <3>2. Further(owner[fd]) \in SUBSET Nat
      BY <3>1 DEF Further
    <3>3. i \in Further(owner[fd])
      BY <2>1, <2>2, <3>2, LeastElement
    <3> QED BY <3>3 DEF Further
  <2>4. TakesFurther(fd)
    BY <2>2, <2>3 DEF TakesFurther
  <2>5. CASE Close({fd}) /\ last' = NoMsg /\ UNCHANGED <<daemon, table, sid, got>>
    <3>1. Ignored(fd)
      BY <1>1, <1>2, <2>2, <2>4, <2>5 DEF Ignored, ProcessMessage
    <3> QED BY <1>1, <3>1
  <2>6. CASE /\ again[i].sid # NoSid /\ Dispatch(fd, Request(again[i].sid), {})
             /\ last' = Request(again[i].sid)
    <3>1. PICK s \in Sids : s = again[i].sid
      BY <2>3, <2>6, AgainTyped
    <3>2. Request(s) \in Message
      BY RequestIs
    <3>3. Taken(fd, Request(s), {})
      BY <1>1, <1>2, <2>2, <2>4, <2>6, <3>1, <3>2 DEF Taken, ProcessMessage
    <3> QED BY <1>1, <2>6, <3>1, <3>2, <3>3
  <2> QED BY <2>2, <2>5, <2>6
<1> QED BY <1>4, <1>5, <1>6 DEF ProcessMessage

-----------------------------------------------------------------------------
(***************************************************************************)
(* The walk over the poll set, which handlers change.                      *)
(***************************************************************************)

(* Closing descriptors leaves the poll set and the owners in step, and the *)
(* loop goes on at an element it has not visited.                          *)
LEMMA CloseKeeps ==
  ASSUME TypeOK, ConnInv, at # 0, at \in DOMAIN pollset, NEW fds \in SUBSET Fds, Close(fds)
  PROVE  /\ pollset' \in Seq(Element) /\ at' \in 0 .. Len(pollset')
         /\ owner' \in [Fds -> Peers \cup {NoPeer}]
         /\ NoDouble'
         /\ \A fd \in Fds : owner'[fd] = IF fd \in fds THEN NoPeer ELSE owner[fd]
         /\ \A fd \in Fds : owner'[fd] # NoPeer <=> \E i \in DOMAIN pollset' : pollset'[i].fd = fd
         /\ at' # 0 => /\ at' \in DOMAIN pollset' /\ pollset'[at'].ready
                       /\ \A i \in at' .. Len(pollset') : \E j \in at + 1 .. Len(pollset) :
                            pollset'[i] = pollset[j] /\ pollset[j].fd \notin fds
<1>1. /\ pollset \in Seq(Element) /\ NoDouble /\ at \in Nat /\ at \in 1 .. Len(pollset)
      /\ owner \in [Fds -> Peers \cup {NoPeer}]
  BY DEF TypeOK, Element, ConnInv
<1>2. /\ pollset' \in Seq(Element)
      /\ \A j \in DOMAIN pollset' : \E i \in DOMAIN pollset :
              j <= i /\ pollset'[j] = pollset[i] /\ pollset[i].fd \notin fds
      /\ \A i \in DOMAIN pollset : pollset[i].fd \notin fds =>
              \E j \in DOMAIN pollset' : pollset'[j] = pollset[i]
      /\ \A i, j \in DOMAIN pollset' : pollset'[i].fd = pollset'[j].fd => i = j
  <2>1. pollset' = RemovePollable(fds)
    BY DEF Close
  <2>2. pollset \in Seq(Element) /\ NoDouble
    BY <1>1
  <2>3. PICK q : q = RemovePollable(fds)
    OBVIOUS
  <2>4. Thinned(q, fds)
    BY <2>2, <2>3, RemoveKeeps
  <2>5. pollset' = q
    BY <2>1, <2>3
  <2> HIDE <2>1, <2>2, <2>3
  <2> QED BY <2>4, <2>5 DEF Thinned
<1>3. /\ at' = NextReady(pollset', at + 1)
      /\ owner' = [fd \in Fds |-> IF fd \in fds THEN NoPeer ELSE owner[fd]]
  BY DEF Close
<1>4. /\ owner' \in [Fds -> Peers \cup {NoPeer}]
      /\ \A fd \in Fds : owner'[fd] = IF fd \in fds THEN NoPeer ELSE owner[fd]
  BY <1>1, <1>3
<1>5. NoDouble'
  BY <1>2 DEF NoDouble
<1>6. PICK set \in Seq(Element) : set = pollset'
  BY <1>2
<1>7. PICK nx : nx = at'
  OBVIOUS
<1>8. nx = 0 \/ (nx \in at + 1 .. Len(set) /\ set[nx].ready)
  BY <1>1, <1>3, <1>6, <1>7, NextIsReady
<1>9. at' \in 0 .. Len(pollset')
  <2>1. Len(set) \in Nat
    OBVIOUS
  <2> QED BY <1>1, <1>6, <1>7, <1>8, <2>1
<1>10. ASSUME NEW fd \in Fds
       PROVE  owner'[fd] # NoPeer <=> \E i \in DOMAIN pollset' : pollset'[i].fd = fd
  <2>1. owner[fd] # NoPeer <=> \E i \in DOMAIN pollset : pollset[i].fd = fd
    BY DEF ConnInv
  <2>2. CASE fd \in fds
    BY <1>2, <1>4, <2>2
  <2>3. CASE fd \notin fds
    <3>1. owner'[fd] = owner[fd]
      BY <1>4, <2>3
    <3>2. (\E i \in DOMAIN pollset : pollset[i].fd = fd) <=> (\E i \in DOMAIN set : set[i].fd = fd)
      BY <1>2, <1>6, <2>3
    <3> QED BY <1>6, <2>1, <3>1, <3>2
  <2> QED BY <2>2, <2>3
<1>11. ASSUME at' # 0
       PROVE  /\ at' \in DOMAIN pollset' /\ pollset'[at'].ready
              /\ \A i \in at' .. Len(pollset') : \E j \in at + 1 .. Len(pollset) :
                            pollset'[i] = pollset[j] /\ pollset[j].fd \notin fds
  <2>1. nx \in at + 1 .. Len(set) /\ set[nx].ready
    BY <1>7, <1>8, <1>11
  <2>2. nx \in DOMAIN set
    BY <1>1, <2>1
  <2>3. ASSUME NEW i \in nx .. Len(set)
        PROVE  \E j \in at + 1 .. Len(pollset) : set[i] = pollset[j] /\ pollset[j].fd \notin fds
    <3>1. i \in DOMAIN set /\ i >= at + 1
      BY <1>1, <2>1
    <3>2. PICK j \in DOMAIN pollset : i <= j /\ set[i] = pollset[j] /\ pollset[j].fd \notin fds
      BY <1>2, <1>6, <3>1
    <3>3. j \in at + 1 .. Len(pollset)
      BY <1>1, <3>1, <3>2
    <3> QED BY <3>2, <3>3
  <2> QED BY <1>6, <1>7, <2>1, <2>2, <2>3
<1> QED BY <1>2, <1>4, <1>5, <1>9, <1>10, <1>11

(* After descriptors were closed the loop goes on: whatever it will still  *)
(* find with POLLIN is readable, because what is closed is also removed    *)
(* and the others have not been touched.                                   *)
LEMMA WalkGoesOn ==
  ASSUME TypeOK, PeerInv, ConnInv, ReadyInv, daemon = "up",
         at # 0, NEW fd \in Fds, pollset[at].fd = fd, owner[fd] \in Peers,
         UNCHANGED <<backlog, stage, again>>,
         \/ owner[fd] \in unread /\ unread' = unread \ {owner[fd]}
         \/ UNCHANGED unread,
         UNCHANGED seen \/ TakesFurther(fd),
         NEW fds \in SUBSET Fds, Close(fds)
  PROVE  ConnInv' /\ ReadyInv'
<1>1. at \in DOMAIN pollset /\ at \in 1 .. Len(pollset) /\ pollset \in Seq(Element)
      /\ \A i \in at .. Len(pollset) : pollset[i].ready => Readable(pollset[i].fd)
  BY DEF ReadyInv, TypeOK, Element
<1>2. /\ pollset' \in Seq(Element) /\ at' \in 0 .. Len(pollset')
      /\ owner' \in [Fds -> Peers \cup {NoPeer}]
      /\ NoDouble'
      /\ \A f \in Fds : owner'[f] = IF f \in fds THEN NoPeer ELSE owner[f]
      /\ \A f \in Fds : owner'[f] # NoPeer <=> \E i \in DOMAIN pollset' : pollset'[i].fd = f
      /\ at' # 0 => /\ at' \in DOMAIN pollset' /\ pollset'[at'].ready
                    /\ \A i \in at' .. Len(pollset') : \E j \in at + 1 .. Len(pollset) :
                         pollset'[i] = pollset[j] /\ pollset[j].fd \notin fds
  BY <1>1, CloseKeeps
<1>3. ConnInv'
  <2>0. backlog' = backlog /\ stage' = stage
    OBVIOUS
  <2>1. \A f \in Fds : owner'[f] # NoPeer => owner'[f] = owner[f]
    BY <1>2
  <2>2. \A f, g \in Fds : owner'[f] # NoPeer /\ owner'[f] = owner'[g] => f = g
    BY <1>2, <2>1 DEF ConnInv
  <2>3. \A f \in Fds : owner'[f] # NoPeer => stage[owner'[f]] # "idle"
    BY <2>1 DEF ConnInv
  <2>4. \A i \in DOMAIN backlog : backlog[i] \in Peers
    BY DEF TypeOK
  <2>5. \A i \in DOMAIN backlog : stage[backlog[i]] # "idle" /\ \A f \in Fds : owner'[f] # backlog[i]
    <3> SUFFICES ASSUME NEW i \in DOMAIN backlog
                 PROVE  stage[backlog[i]] # "idle" /\ \A f \in Fds : owner'[f] # backlog[i]
      OBVIOUS
    <3>1. stage[backlog[i]] # "idle" /\ (\A f \in Fds : owner[f] # backlog[i]) /\ backlog[i] # NoPeer
      BY <2>4, PeerAssumption DEF ConnInv
    <3> QED BY <1>2, <3>1
  <2> QED BY <1>2, <2>0, <2>2, <2>3, <2>5 DEF ConnInv
<1>4. ASSUME NEW j \in at + 1 .. Len(pollset), pollset[j].ready, pollset[j].fd \notin fds,
             NEW x, x = pollset[j].fd
      PROVE  Readable(x)'
  <2>0. j \in at .. Len(pollset) /\ j \in DOMAIN pollset /\ j # at
    BY <1>1
  <2>1. Readable(x)
    BY <1>1, <1>4, <2>0
  <2>2. x # fd /\ x \in Fds \cup {Listener}
    <3>1. pollset[j] \in Element
      BY <1>1, <2>0
    <3> QED BY <1>1, <1>4, <2>0, <3>1 DEF ConnInv, NoDouble, Element
  <2>4. CASE x = Listener
    BY <2>1, <2>4 DEF Readable
  <2>5. CASE x # Listener
    <3>1. x \in Fds /\ owner'[x] = owner[x] /\ owner[x] # NoPeer
      BY <1>2, <1>4, <2>0, <2>2, <2>5 DEF ConnInv
    <3>2. owner[x] # owner[fd]
      BY <2>2, <3>1 DEF ConnInv
    <3>3. owner[x] \in unread \/ Further(owner[x]) # {} \/ stage[owner[x]] = "left"
      BY <2>1, <2>5 DEF Readable
    <3>5. ASSUME NEW k \in DOMAIN again \ seen, again[k].client = owner[x]
          PROVE  k \in DOMAIN again' \ seen' /\ again'[k].client = owner[x]
      BY <3>2, <3>5 DEF TakesFurther
    <3>6. Further(owner[x]) # {} => Further(owner[x])' # {}
      BY <3>1, <3>5 DEF Further
    <3>4. owner'[x] \in unread' \/ Further(owner[x])' # {} \/ stage'[owner'[x]] = "left"
      BY <3>1, <3>2, <3>3, <3>6
    <3> QED BY <2>5, <3>4 DEF Readable
  <2> QED BY <2>4, <2>5
<1>5. ReadyInv'
  <2> SUFFICES ASSUME daemon' = "up", at' # 0
               PROVE  /\ at' \in DOMAIN pollset' /\ pollset'[at'].ready
                      /\ \A i \in at' .. Len(pollset') : pollset'[i].ready => Readable(pollset[i].fd)'
    BY DEF ReadyInv
  <2> SUFFICES ASSUME NEW i \in at' .. Len(pollset'), pollset'[i].ready
               PROVE  Readable(pollset[i].fd)'
    BY <1>2
  <2>1. PICK j \in at + 1 .. Len(pollset) : pollset'[i] = pollset[j] /\ pollset[j].fd \notin fds
    BY <1>2
  <2>2. PICK x : x = pollset'[i].fd
    OBVIOUS
  <2>3. Readable(x)'
    BY <1>4, <2>1, <2>2
  <2> QED BY <2>2, <2>3
<1> QED BY <1>3, <1>5

(* A daemon that has ended leaves its connections as they are.             *)
LEMMA WalkEnds ==
  ASSUME ConnInv, daemon' # "up", UNCHANGED <<loopVars, backlog, stage>>
  PROVE  ConnInv' /\ ReadyInv'
<1>1. ReadyInv'
  BY DEF ReadyInv
<1>2. UNCHANGED <<pollset, owner, backlog, stage>>
  BY DEF loopVars
<1> QED BY <1>1, <1>2 DEF ConnInv, NoDouble

-----------------------------------------------------------------------------
(***************************************************************************)
(* What a message does to the table, the servers and the clients.          *)
(***************************************************************************)

(* The entries of a bucket are entries, with no more waiting than a queue  *)
(* can hold.                                                               *)
LEMMA ChainTyped ==
  ASSUME TypeOK
  PROVE  \A b \in Buckets : \A e \in Chain(b) : e \in Entry /\ Len(e.queue) <= MaxQueue
<1> SUFFICES ASSUME NEW b \in Buckets, NEW e \in Chain(b)
             PROVE  e \in Entry /\ Len(e.queue) <= MaxQueue
  OBVIOUS
<1>1. table[b] \in Seq(Entry) /\ \A i \in DOMAIN table[b] : Len(table[b][i].queue) <= MaxQueue
  BY DEF TypeOK
<1>2. PICK i \in DOMAIN table[b] : e = table[b][i]
  BY DEF Chain, ToSet
<1> QED BY <1>1, <1>2

(* That bound, from entries back to positions in the table.                *)
LEMMA TableTyped ==
  ASSUME table' \in [Buckets -> Seq(Entry)],
         \A b \in Buckets : \A e \in Chain(b)' : Len(e.queue) <= MaxQueue
  PROVE  \A b \in Buckets : \A i \in DOMAIN table'[b] : Len(table'[b][i].queue) <= MaxQueue
BY DEF Chain, ToSet

(* What a rewritten table has in common with the old one.                  *)
LEMMA RewrittenChains ==
  ASSUME NEW m \in Message, NEW new, Rewritten(m, new)
  PROVE  /\ \A b \in Buckets : \A e \in Chain(b)' : e \in Chain(b) \/ (b = m.bucket /\ e \in new)
         /\ \A b \in Buckets : \A e \in Chain(b) : e \in Chain(b)' \/ (b = m.bucket /\ e.sid = m.sid)
         /\ new \subseteq Chain(m.bucket)' /\ Distinct'
BY DEF Rewritten, Message

(* The outcomes together.                                                  *)
Outcome(fd, m, shut) ==
  \/ Halted(fd, m, shut) \/ Created(fd, m, shut) \/ Joined(fd, m, shut)
  \/ Replied(fd, m, shut) \/ Opened(fd, m, shut) \/ Deleted(fd, m, shut)

(* What a message says that is new, or found in memory again: an old       *)
(* request is never for an unknown session, an old check-in repeats the    *)
(* port of an open session, and an old report finds nothing to delete.     *)
LEMMA NewOrOld ==
  ASSUME TypeOK, PeerInv, ChainInv, LastInv, daemon = "up",
         NEW fd \in Fds, NEW m \in Message, NEW shut, Taken(fd, m, shut)
  PROVE  /\ m.type = "GET_SESSION" /\ Of(m) = {} => shut = {}
         /\ m.type = "GET_SESSION" /\ shut = {} =>
              \/ /\ owner[fd] \in Clients /\ want[owner[fd]] = m.sid /\ owner[fd] \in unread
                 /\ unread' = unread \ {owner[fd]} /\ UNCHANGED seen
              \/ UNCHANGED unread /\ TakesFurther(fd)
         /\ m.type = "DEL_SESSION" /\ Of(m) # {} => shut = {}
         /\ m.type = "SET_SESSION" /\ Of(m) # {} =>
              /\ m.port \in Servers /\ sid[m.port] = m.sid
              /\ stage[<<m.port, "SET">>] = "sent" /\ <<m.port, "SET">> \notin unread'
              /\ shut = {} => owner[fd] = <<m.port, "SET">> /\ owner[fd] \in unread
              /\ shut # {} => \A e \in Of(m) : e.queue = << >> /\ e.port = m.port
<1>1. CASE /\ shut = {} /\ owner[fd] \in unread /\ m = MessageOf(owner[fd])
           /\ unread' = unread \ {owner[fd]} /\ UNCHANGED seen
  <2>0. PICK p \in unread : p = owner[fd]
    BY <1>1
  <2>1. /\ p \in Clients => m.type = "GET_SESSION" /\ m.sid = want[p]
        /\ p \notin Clients =>
              /\ p[1] \in Servers /\ m.sid = sid[p[1]] /\ m.bucket = Hash[m.sid]
              /\ \/ p = <<p[1], "SET">> /\ m.type = "SET_SESSION" /\ m.port = p[1]
                 \/ p = <<p[1], "DEL">> /\ m.type = "DEL_SESSION"
    BY <1>1, <2>0, SentMessages
  <2>2. m.type = "SET_SESSION" => stage[p] = "sent"
    <3>1. m.type = "SET_SESSION" => p \in Servers \X {"SET", "DEL"}
      BY <2>1
    <3> QED BY <3>1 DEF PeerInv
  <2> QED BY <1>1, <2>0, <2>1, <2>2
<1>2. CASE /\ shut = {fd} /\ m = last /\ last # NoMsg /\ UNCHANGED unread
  <2>1. /\ m.type = "GET_SESSION" => Of(m) # {}
        /\ m.type = "DEL_SESSION" => Of(m) = {}
        /\ m.type = "SET_SESSION" => m.port # NoPort /\ \E e \in Of(m) : e.port = m.port
    BY <1>2 DEF LastInv, Of
  <2>2. ASSUME m.type = "SET_SESSION"
        PROVE  /\ m.port \in Servers /\ sid[m.port] = m.sid
               /\ Read(<<m.port, "SET">>)
               /\ \A e \in Of(m) : e.queue = << >> /\ e.port = m.port
    <3>1. PICK e \in Of(m) : e.port = m.port
      BY <2>1, <2>2
    <3>2. m.port \in Servers /\ m.bucket \in Buckets
      BY <2>1, <2>2 DEF Message
    <3>3. e.queue = << >> /\ sid[e.port] = e.sid /\ Read(<<e.port, "SET">>) /\ e.sid = m.sid
      BY <2>1, <2>2, <3>1, <3>2 DEF ChainInv, Of
    <3>4. \A f \in Of(m) : f = e
      BY <3>2 DEF ChainInv, Distinct, Of, Chain, ToSet
    <3> QED BY <3>1, <3>2, <3>3, <3>4
  <2>3. ASSUME m.type = "SET_SESSION"
        PROVE  stage[<<m.port, "SET">>] = "sent" /\ <<m.port, "SET">> \notin unread'
    BY <1>2, <2>2, <2>3 DEF Read, PeerInv
  <2> QED BY <1>2, <2>1, <2>2, <2>3
<1>3. CASE /\ shut = {} /\ UNCHANGED unread /\ TakesFurther(fd)
           /\ \E s \in Sids : m = Request(s)
  <2>1. m.type = "GET_SESSION"
    BY <1>3, RequestIs
  <2> QED BY <1>3, <2>1
<1> QED BY <1>1, <1>2, <1>3 DEF Taken

(* Whatever the outcome, connections and poll set stay in step.            *)
LEMMA OutcomeWalks ==
  ASSUME TypeOK, PeerInv, ConnInv, ReadyInv, daemon = "up",
         NEW fd \in Fds, NEW m \in Message, NEW shut \in SUBSET Fds, Taken(fd, m, shut),
         Outcome(fd, m, shut)
  PROVE  /\ ConnInv' /\ ReadyInv'
         /\ pollset' \in Seq(Element) /\ at' \in 0 .. Len(pollset')
         /\ owner' \in [Fds -> Peers \cup {NoPeer}]
<1>1. /\ at # 0 /\ pollset[at].fd = fd /\ owner[fd] \in Peers /\ UNCHANGED <<backlog, stage, again>>
      /\ \/ owner[fd] \in unread /\ unread' = unread \ {owner[fd]}
         \/ UNCHANGED unread
      /\ UNCHANGED seen \/ TakesFurther(fd)
  BY DEF Taken
<1>2. ASSUME NEW fds \in SUBSET Fds, Close(fds)
      PROVE  /\ ConnInv' /\ ReadyInv'
             /\ pollset' \in Seq(Element) /\ at' \in 0 .. Len(pollset')
             /\ owner' \in [Fds -> Peers \cup {NoPeer}]
  <2>1. at \in DOMAIN pollset
    BY <1>1 DEF ReadyInv
  <2>2. ConnInv' /\ ReadyInv'
    BY <1>1, <1>2, WalkGoesOn
  <2> QED BY <1>1, <1>2, <2>1, <2>2, CloseKeeps
<1>3. CASE Halted(fd, m, shut)
  <2>1. daemon' # "up" /\ UNCHANGED <<loopVars, backlog, stage>>
    BY <1>1, <1>3 DEF Halted
  <2>2. ConnInv' /\ ReadyInv'
    BY <2>1, WalkEnds
  <2> QED BY <2>1, <2>2 DEF loopVars, TypeOK, Element
<1>4. CASE Created(fd, m, shut) \/ Joined(fd, m, shut)
  BY <1>2, <1>4 DEF Created, Joined
<1>5. CASE Replied(fd, m, shut)
  BY <1>2, <1>5 DEF Replied
<1>6. ASSUME NEW e \in Of(m) PROVE ToSet(e.queue) \in SUBSET Fds
  <2>1. e \in Entry
    BY ChainTyped DEF Of, Message
  <2> QED BY <2>1 DEF Entry, ToSet
<1>7. CASE Opened(fd, m, shut)
  <2>1. PICK e \in Of(m) : Close(ToSet(e.queue) \cup {fd})
    BY <1>7 DEF Opened
  <2>2. ToSet(e.queue) \cup {fd} \in SUBSET Fds
    BY <1>6
  <2> HIDE <1>1
  <2> QED BY <1>2, <2>1, <2>2
<1>8. CASE Deleted(fd, m, shut)
  <2>1. PICK e \in Of(m) : Close({fd} \cup ToSet(e.queue))
    BY <1>8 DEF Deleted
  <2>2. {fd} \cup ToSet(e.queue) \in SUBSET Fds
    BY <1>6
  <2> QED BY <1>2, <2>1, <2>2
<1> QED BY <1>3, <1>4, <1>5, <1>7, <1>8 DEF Outcome

(* Whatever the outcome, the table stays well formed: an entry that is not *)
(* an old one has somebody waiting or the port of a server that has just   *)
(* checked in; and what the message leaves in memory fits it.              *)
LEMMA OutcomeChains ==
  ASSUME TypeOK, PeerInv, ChainInv, LastInv, ForkInv, daemon = "up",
         NEW fd \in Fds, NEW m \in Message, NEW shut \in SUBSET Fds, Taken(fd, m, shut),
         Outcome(fd, m, shut)
  PROVE  /\ table' \in [Buckets -> Seq(Entry)] /\ Distinct'
         /\ \A b \in Buckets : \A e \in Chain(b)' :
              \/ e \in Chain(b)
              \/ /\ b = m.bucket /\ e.sid = m.sid /\ Len(e.queue) <= MaxQueue
                 /\ \/ e.port = NoPort /\ e.queue # << >>
                    \/ e.port = m.port /\ e.queue = << >> /\ m.type = "SET_SESSION" /\ Of(m) # {}
         /\ LastInv'
<1>1. m.bucket \in Buckets /\ m.sid \in Sids /\ table \in [Buckets -> Seq(Entry)] /\ Distinct
  BY DEF Message, TypeOK, ChainInv
<1>2. \A e \in Of(m) : e \in Entry /\ e.sid = m.sid /\ e \in Chain(m.bucket)
  BY <1>1, ChainTyped DEF Of
<1>3. last' = m
  BY DEF Taken
<1>4. CASE Halted(fd, m, shut) \/ Replied(fd, m, shut)
  <2>1. Distinct' /\ \A b \in Buckets : Chain(b)' = Chain(b)
    BY <1>1, <1>4 DEF Distinct, Chain, Halted, Replied
  <2>2. LastInv'
    BY <1>1, <1>3, <1>4, <2>1 DEF Halted, Replied, Of, LastInv
  <2> QED BY <1>1, <1>4, <2>1, <2>2 DEF Halted, Replied
<1>5. CASE Created(fd, m, shut)
  <2> DEFINE f == [sid |-> m.sid, port |-> NoPort, queue |-> <<fd>>]
  <2>1. /\ f.sid = m.sid /\ f.port = NoPort /\ f.queue # << >> /\ Len(f.queue) <= MaxQueue
        /\ Rewritten(m, {f}) /\ m.type = "GET_SESSION"
    BY <1>5, DaemonAssumption DEF Created
  <2> HIDE DEF f
  <2>2. /\ f \in Chain(m.bucket)' /\ Distinct'
        /\ \A b \in Buckets : \A e \in Chain(b)' : e \in Chain(b) \/ (b = m.bucket /\ e = f)
    BY <2>1, RewrittenChains
  <2>3. LastInv'
    BY <1>3, <2>1, <2>2 DEF LastInv
  <2> QED BY <2>1, <2>2, <2>3 DEF Rewritten
<1>6. CASE Joined(fd, m, shut)
  <2>1. PICK e \in Of(m) : /\ m.type = "GET_SESSION" /\ e.port = NoPort /\ Len(e.queue) < MaxQueue
                           /\ Rewritten(m, {[e EXCEPT !.queue = Append(@, fd)]})
    BY <1>6 DEF Joined
  <2>2. PICK f : /\ f = [e EXCEPT !.queue = Append(@, fd)] /\ f.sid = m.sid /\ f.port = NoPort
                 /\ f.queue # << >> /\ Len(f.queue) <= MaxQueue
    <3> DEFINE g == [e EXCEPT !.queue = Append(@, fd)]
    <3>1. g.sid = m.sid /\ g.port = NoPort /\ g.queue = Append(e.queue, fd) /\ e.queue \in Seq(Fds)
      BY <1>2, <2>1 DEF Entry
    <3>2. Len(g.queue) = Len(e.queue) + 1 /\ Len(e.queue) \in Nat
      BY <3>1
    <3> HIDE DEF g
    <3>3. Len(g.queue) <= MaxQueue /\ g.queue # << >>
      BY <2>1, <3>2, DaemonAssumption
    <3>4. g = [e EXCEPT !.queue = Append(@, fd)]
      BY DEF g
    <3> QED BY <3>1, <3>3, <3>4
  <2>20. Rewritten(m, {f})
    BY <2>1, <2>2
  <2> HIDE <2>1
  <2>3. /\ f \in Chain(m.bucket)' /\ Distinct'
        /\ \A b \in Buckets : \A d \in Chain(b)' : d \in Chain(b) \/ (b = m.bucket /\ d = f)
    BY <2>20, RewrittenChains
  <2>4. LastInv'
    BY <1>3, <2>1, <2>2, <2>3 DEF LastInv
  <2> QED BY <2>2, <2>20, <2>3, <2>4 DEF Rewritten
<1>7. CASE Opened(fd, m, shut)
  <2>1. PICK e \in Of(m) : /\ m.type = "SET_SESSION"
                           /\ Rewritten(m, {OpenAt(e, m.port)})
    BY <1>7 DEF Opened
  <2>2. m.port \in Servers /\ m.port # NoPort
    <3>1. Of(m) # {}
      BY <2>1
    <3>2. m.port \in Servers
      BY <2>1, <3>1, NewOrOld
    <3> QED BY <3>2 DEF Servers, NoPort
  <2>3. PICK f : /\ f = OpenAt(e, m.port)
                 /\ f.sid = m.sid /\ f.port = m.port /\ f.queue = << >>
    <3>1. e \in Entry /\ e.sid = m.sid /\ m.port \in Servers \cup {NoPort}
      BY <1>2, <2>1, <2>2
    <3> HIDE <1>2
    <3> QED BY <3>1, EntryOpened
  <2>4. /\ f \in Chain(m.bucket)' /\ Distinct'
        /\ \A b \in Buckets : \A d \in Chain(b)' : d \in Chain(b) \/ (b = m.bucket /\ d = f)
    BY <2>1, <2>3, RewrittenChains
  <2>5. LastInv'
    BY <1>3, <2>1, <2>2, <2>3, <2>4 DEF LastInv
  <2>6. Len(f.queue) <= MaxQueue
    BY <2>3, DaemonAssumption
  <2> QED BY <2>1, <2>3, <2>4, <2>5, <2>6 DEF Rewritten
<1>8. CASE Deleted(fd, m, shut)
  <2>1. Rewritten(m, {}) /\ m.type = "DEL_SESSION"
    BY <1>8 DEF Deleted
  <2>2. /\ Distinct' /\ \A b \in Buckets : \A d \in Chain(b)' : d \in Chain(b)
    BY <2>1, RewrittenChains
  <2>3. LastInv'
    BY <1>3, <2>1 DEF LastInv, Rewritten
  <2> QED BY <2>1, <2>2, <2>3 DEF Rewritten
<1> QED BY <1>4, <1>5, <1>6, <1>7, <1>8 DEF Outcome

(* Only the sender of a request for an open session, or those waiting when *)
(* one opens, are told a port; nobody when the message is an old one.      *)
LEMMA WhoIsTold ==
  ASSUME TypeOK, PeerInv, ChainInv, LastInv, daemon = "up",
         NEW fd \in Fds, NEW m \in Message, NEW shut, Taken(fd, m, shut),
         Outcome(fd, m, shut)
  PROVE  /\ got' \in [Clients -> Servers \cup {NoPort}]
         /\ \A c \in Clients :
              \/ got'[c] = got[c]
              \/ \E e \in Of(m) :
                   /\ shut = {}
                   /\ \/ /\ m.type = "GET_SESSION" /\ owner[fd] = c
                         /\ e.port # NoPort /\ got'[c] = e.port
                      \/ /\ m.type = "SET_SESSION" /\ got'[c] = m.port
                         /\ \E g \in ToSet(e.queue) : owner[g] = c
<1>1. \A e \in Of(m) : e \in Entry
  BY ChainTyped DEF Of, Message
<1>2. shut \in {{}, {fd}} /\ got \in [Clients -> Servers \cup {NoPort}]
  BY DEF Taken, TypeOK
<1>3. ASSUME NEW e \in Of(m), m.type = "GET_SESSION", e.port # NoPort, Told({fd} \ shut, e.port)
      PROVE  /\ got' \in [Clients -> Servers \cup {NoPort}]
             /\ \A c \in Clients : got'[c] = got[c] \/ (shut = {} /\ owner[fd] = c /\ got'[c] = e.port)
  <2>1. e.port \in Servers \cup {NoPort}
    BY <1>1 DEF Entry
  <2>2. got' = [c \in Clients |->
                  IF stage[c] # "left" /\ \E f \in {fd} \ shut : owner[f] = c THEN e.port ELSE got[c]]
    BY <1>3 DEF Told
  <2> QED BY <1>2, <2>1, <2>2
<1>4. ASSUME NEW e \in Of(m), m.type = "SET_SESSION", NEW fds \in SUBSET ToSet(e.queue), Told(fds, m.port)
      PROVE  /\ got' \in [Clients -> Servers \cup {NoPort}]
             /\ \A c \in Clients : \/ got'[c] = got[c]
                                   \/ /\ shut = {} /\ got'[c] = m.port
                                      /\ \E g \in ToSet(e.queue) : owner[g] = c
  <2>1. m.port \in Servers \cup {NoPort}
    BY DEF Message
  <2>2. got' = [c \in Clients |->
                  IF stage[c] # "left" /\ \E f \in fds : owner[f] = c THEN m.port ELSE got[c]]
    BY <1>4 DEF Told
  <2>3. shut # {} => e.queue = << >>
    BY <1>4, NewOrOld
  <2>4. shut # {} => fds = {}
    BY <2>3 DEF ToSet
  <2> QED BY <1>2, <2>1, <2>2, <2>4
<1>5. CASE UNCHANGED got
  BY <1>2, <1>5
<1>6. CASE Halted(fd, m, shut) /\ ~ UNCHANGED got
  <2>1. CASE m.type = "GET_SESSION" /\ \E e \in Of(m) : e.port # NoPort /\ Told({fd} \ shut, e.port)
    <3>1. PICK e \in Of(m) : e.port # NoPort /\ Told({fd} \ shut, e.port)
      BY <2>1
    <3> QED BY <1>3, <2>1, <3>1
  <2>2. CASE /\ m.type = "SET_SESSION"
             /\ \E e \in Of(m) : \E fds \in SUBSET ToSet(e.queue) : Told(fds, m.port)
    <3>0. PICK e \in Of(m) : \E fds \in SUBSET ToSet(e.queue) : Told(fds, m.port)
      BY <2>2
    <3>1. PICK fds \in SUBSET ToSet(e.queue) : Told(fds, m.port)
      BY <3>0
    <3>2. /\ got' \in [Clients -> Servers \cup {NoPort}]
          /\ \A c \in Clients : \/ got'[c] = got[c]
                                \/ /\ shut = {} /\ got'[c] = m.port
                                   /\ \E g \in ToSet(e.queue) : owner[g] = c
      BY <1>4, <2>2, <3>1
    <3> QED BY <2>2, <3>2
  <2> QED BY <1>6, <2>1, <2>2 DEF Halted
<1>7. CASE Replied(fd, m, shut)
  <2>1. PICK e \in Of(m) : m.type = "GET_SESSION" /\ e.port # NoPort /\ Told({fd} \ shut, e.port)
    BY <1>7 DEF Replied
  <2> QED BY <1>3, <2>1
<1>8. CASE Opened(fd, m, shut)
  <2>1. PICK e \in Of(m) : m.type = "SET_SESSION" /\ Told(ToSet(e.queue), m.port)
    BY <1>8 DEF Opened
  <2>2. /\ got' \in [Clients -> Servers \cup {NoPort}]
        /\ \A c \in Clients : \/ got'[c] = got[c]
                              \/ /\ shut = {} /\ got'[c] = m.port
                                 /\ \E g \in ToSet(e.queue) : owner[g] = c
    BY <1>4, <2>1
  <2> QED BY <2>1, <2>2
<1> QED BY <1>5, <1>6, <1>7, <1>8 DEF Outcome, Created, Joined, Deleted

(* As many further messages are read as are sent.                          *)
LEMMA SeenBounded ==
  ASSUME NEW N \in Nat, NEW S \in SUBSET (1 .. N)
  PROVE  IsFiniteSet(S) /\ Cardinality(S) \in Nat /\ Cardinality(S) <= N
<1>1. IsFiniteSet(1 .. N) /\ Cardinality(1 .. N) = N
  BY FS_Interval
<1> QED BY <1>1, FS_Subset, FS_CardinalityType

(* The number of requests read is bounded by that of the servers, and does *)
(* not fall.                                                               *)
LEMMA SeenGrows ==
  ASSUME TypeOK, UNCHANGED again, NEW fd, UNCHANGED seen \/ TakesFurther(fd)
  PROVE  /\ seen' \subseteq DOMAIN again
         /\ Cardinality(seen) \in Nat /\ Cardinality(seen') \in Nat
         /\ Cardinality(seen) <= Cardinality(seen') /\ Cardinality(seen') <= MaxAgain
         /\ TakesFurther(fd) => Cardinality(seen') = Cardinality(seen) + 1
<1>1. Len(again) \in Nat /\ DOMAIN again = 1 .. Len(again) /\ Len(again) <= MaxAgain
      /\ seen \in SUBSET (1 .. Len(again)) /\ MaxAgain \in Nat
  BY DaemonAssumption DEF TypeOK
<1>2. seen' \in SUBSET (1 .. Len(again)) /\ seen \subseteq seen'
  BY <1>1 DEF TakesFurther
<1>3. IsFiniteSet(seen) /\ Cardinality(seen) \in Nat /\ Cardinality(seen) <= Len(again)
  BY <1>1, SeenBounded
<1>4. IsFiniteSet(seen') /\ Cardinality(seen') \in Nat /\ Cardinality(seen') <= Len(again)
  BY <1>1, <1>2, SeenBounded
<1>5. Cardinality(seen) <= Cardinality(seen')
  BY <1>2, <1>4, FS_Subset
<1>6. TakesFurther(fd) => Cardinality(seen') = Cardinality(seen) + 1
  BY <1>3, FS_AddElement DEF TakesFurther
<1> QED BY <1>1, <1>2, <1>3, <1>4, <1>5, <1>6

(* Servers are numbered as they are forked, and there is always one more   *)
(* to fork: each has a request of its own that was read.                   *)
LEMMA OutcomeForks ==
  ASSUME TypeOK, PeerInv, ChainInv, LastInv, ForkInv, daemon = "up",
         NEW fd \in Fds, NEW m \in Message, NEW shut, Taken(fd, m, shut),
         Outcome(fd, m, shut)
  PROVE  /\ ForkInv' /\ sid' \in [Servers -> Sids \cup {NoSid}]
         /\ \/ UNCHANGED sid /\ (m.type = "GET_SESSION" => Of(m) # {})
            \/ /\ Created(fd, m, shut)
               /\ \E n \in Servers : sid[n] = NoSid /\ sid' = [sid EXCEPT ![n] = m.sid]
<1>0. /\ UNCHANGED again /\ (UNCHANGED seen \/ TakesFurther(fd))
      /\ Cardinality(seen) \in Nat /\ Cardinality(seen') \in Nat
      /\ Cardinality(seen) <= Cardinality(seen') /\ Cardinality(seen') <= MaxAgain
      /\ TakesFurther(fd) => Cardinality(seen') = Cardinality(seen) + 1
  <2>1. UNCHANGED again /\ (UNCHANGED seen \/ TakesFurther(fd))
    BY DEF Taken
  <2> QED BY <2>1, SeenGrows
<1>1. PICK k \in 0 .. NServers :
        {n \in Servers : sid[n] # NoSid} = 1 .. k /\ k <= Cardinality(Heard) + Cardinality(seen)
  BY DEF ForkInv
<1>2. /\ IsFiniteSet(Clients) /\ Heard \subseteq Clients /\ NServers \in Nat /\ MaxAgain \in Nat
      /\ Cardinality(Clients) \in Nat /\ Cardinality(Clients) + MaxAgain <= NServers
  BY DaemonAssumption, FS_CardinalityType DEF Heard
<1>3. IsFiniteSet(Heard) /\ Cardinality(Heard) <= Cardinality(Clients) /\ Cardinality(Heard) \in Nat
  BY <1>2, FS_Subset, FS_CardinalityType
<1>4. m.sid \in Sids /\ stage' = stage /\ unread' \subseteq unread
  BY DEF Message, Taken
<1>30. /\ Heard \subseteq Heard' /\ Cardinality(Heard) <= Cardinality(Heard')
       /\ Cardinality(Heard') \in Nat /\ Cardinality(Heard') <= Cardinality(Clients)
  <2>1. Heard \subseteq Heard' /\ Heard' \subseteq Clients
    BY <1>4 DEF Heard
  <2>2. IsFiniteSet(Heard') /\ Cardinality(Heard') \in Nat /\ Cardinality(Heard') <= Cardinality(Clients)
    BY <1>2, <2>1, FS_Subset, FS_CardinalityType
  <2> QED BY <2>1, <2>2, FS_Subset
<1>5. CASE Created(fd, m, shut)
  <2>1. \/ /\ owner[fd] \in Clients /\ owner[fd] \in unread
           /\ unread' = unread \ {owner[fd]}
        \/ TakesFurther(fd)
    <3>1. m.type = "GET_SESSION" /\ Of(m) = {}
      BY <1>5 DEF Created
    <3> QED BY <3>1, NewOrOld
  <2>2. Cardinality(Heard) + Cardinality(seen) + 1 <= Cardinality(Heard') + Cardinality(seen')
    <3>1. CASE TakesFurther(fd)
      BY <1>0, <1>3, <1>30, <3>1
    <3>2. CASE owner[fd] \in Clients /\ owner[fd] \in unread /\ unread' = unread \ {owner[fd]}
      <4> DEFINE c == owner[fd]
      <4>1. stage[c] \in {"sent", "left"}
        BY <3>2 DEF PeerInv
      <4>2. Heard' = Heard \cup {c} /\ c \notin Heard
        BY <1>4, <3>2, <4>1 DEF Heard
      <4> HIDE DEF c
      <4>3. Cardinality(Heard') = Cardinality(Heard) + 1
        BY <1>3, <4>2, FS_AddElement
      <4> QED BY <1>0, <1>3, <1>30, <4>3
    <3> QED BY <2>1, <3>1, <3>2
  <2>7. k \in Nat /\ k + 1 <= Cardinality(Heard') + Cardinality(seen') /\ k + 1 \in 1 .. NServers
    <3>1. k \in Nat /\ k + 1 <= Cardinality(Heard') + Cardinality(seen')
      BY <1>0, <1>1, <1>2, <1>3, <1>30, <2>2
    <3>2. Cardinality(Heard') + Cardinality(seen') <= NServers
      BY <1>0, <1>2, <1>30
    <3> QED BY <1>0, <1>2, <1>30, <3>1, <3>2
  <2>8. Cardinality({n \in Servers : sid[n] # NoSid}) = k
    <3>1. Cardinality(1 .. k) = k
      BY <2>7, FS_Interval
    <3> QED BY <1>1, <3>1
  <2>9. sid' = [sid EXCEPT ![k + 1] = m.sid]
    BY <1>5, <2>8 DEF Created, Fork
  <2>10. k + 1 \in Servers /\ sid[k + 1] = NoSid
    <3>1. k + 1 \notin 1 .. k
      BY <2>7
    <3>2. k + 1 \in Servers
      BY <2>7 DEF Servers
    <3> QED BY <1>1, <3>1, <3>2
  <2>11. sid \in [Servers -> Sids \cup {NoSid}]
    BY DEF TypeOK
  <2>12. {n \in Servers : sid'[n] # NoSid} = 1 .. k + 1
    <3>1. m.sid # NoSid
      BY <1>4, DaemonAssumption
    <3>2. \A n \in Servers : sid'[n] # NoSid <=> (sid[n] # NoSid \/ n = k + 1)
      BY <2>9, <2>10, <2>11, <3>1
    <3>3. 1 .. k + 1 = (1 .. k) \cup {k + 1}
      BY <2>7
    <3> QED BY <1>1, <2>10, <3>2, <3>3
  <2>13. ForkInv'
    <3>1. k + 1 \in 0 .. NServers
      BY <2>7
    <3> QED BY <2>7, <2>12, <3>1 DEF ForkInv
  <2> QED BY <1>4, <1>5, <2>9, <2>10, <2>11, <2>13
<1>6. CASE ~Created(fd, m, shut)
  <2>1. UNCHANGED sid /\ (m.type = "GET_SESSION" => Of(m) # {})
    BY <1>6 DEF Outcome, Halted, Joined, Replied, Opened, Deleted
  <2>5. k <= Cardinality(Heard') + Cardinality(seen')
    BY <1>0, <1>1, <1>3, <1>30
  <2>6. {n \in Servers : sid'[n] # NoSid} = 1 .. k
    BY <1>1, <2>1
  <2>7. ForkInv'
    BY <2>5, <2>6 DEF ForkInv
  <2> QED BY <2>1, <2>7 DEF TypeOK
<1> QED BY <1>5, <1>6

(* The invariant survives a message, new or old.                           *)
LEMMA MessageKeeps ==
  ASSUME DaemonInv, daemon = "up",
         NEW fd \in Fds, NEW m \in Message, NEW shut \in SUBSET Fds, Taken(fd, m, shut),
         Outcome(fd, m, shut)
  PROVE  DaemonInv'
<1> USE DEF DaemonInv
<1>1. /\ ConnInv' /\ ReadyInv'
      /\ pollset' \in Seq(Element) /\ at' \in 0 .. Len(pollset')
      /\ owner' \in [Fds -> Peers \cup {NoPeer}]
  BY OutcomeWalks
<1>2. /\ table' \in [Buckets -> Seq(Entry)] /\ Distinct' /\ LastInv'
      /\ \A b \in Buckets : \A e \in Chain(b)' :
              \/ e \in Chain(b)
              \/ /\ b = m.bucket /\ e.sid = m.sid /\ Len(e.queue) <= MaxQueue
                 /\ \/ e.port = NoPort /\ e.queue # << >>
                    \/ e.port = m.port /\ e.queue = << >> /\ m.type = "SET_SESSION" /\ Of(m) # {}
  BY OutcomeChains
<1>3. /\ got' \in [Clients -> Servers \cup {NoPort}]
      /\ \A c \in Clients :
              \/ got'[c] = got[c]
              \/ \E e \in Of(m) :
                   /\ shut = {}
                   /\ \/ /\ m.type = "GET_SESSION" /\ owner[fd] = c
                         /\ e.port # NoPort /\ got'[c] = e.port
                      \/ /\ m.type = "SET_SESSION" /\ got'[c] = m.port
                         /\ \E g \in ToSet(e.queue) : owner[g] = c
  BY WhoIsTold
<1>4. /\ ForkInv' /\ sid' \in [Servers -> Sids \cup {NoSid}]
      /\ \A n \in Servers : sid[n] # NoSid => sid'[n] = sid[n]
  <2>1. sid \in [Servers -> Sids \cup {NoSid}]
    BY DEF TypeOK
  <2> QED BY <2>1, OutcomeForks
<1>5. /\ m.type = "SET_SESSION" /\ Of(m) # {} =>
           /\ m.port \in Servers /\ sid[m.port] = m.sid
           /\ stage[<<m.port, "SET">>] = "sent" /\ <<m.port, "SET">> \notin unread'
  BY NewOrOld
<1>6. /\ UNCHANGED <<backlog, stage, again, dead, want>> /\ unread' \subseteq unread /\ last' = m
      /\ m.bucket \in Buckets /\ m.sid \in Sids
      /\ UNCHANGED seen \/ TakesFurther(fd)
  BY DEF Taken, Message
<1>60. seen' \subseteq DOMAIN again'
  <2>1. TypeOK /\ UNCHANGED again /\ (UNCHANGED seen \/ TakesFurther(fd))
    BY <1>6
  <2> QED BY <2>1, SeenGrows
<1>7. daemon' \in {"up", "panic", "limit"}
  BY DEF Outcome, Halted, Created, Joined, Replied, Opened, Deleted
<1>8. \A b \in Buckets : \A e \in Chain(b)' : Len(e.queue) <= MaxQueue
  BY <1>2, ChainTyped
<1>9. \A p : Read(p) => Read(p)'
  BY <1>6 DEF Read
<1>10. \A b \in Buckets : \A i \in DOMAIN table'[b] : Len(table'[b][i].queue) <= MaxQueue
  BY <1>2, <1>8, TableTyped
<1>11. TypeOK'
  BY <1>1, <1>2, <1>3, <1>4, <1>6, <1>60, <1>7, <1>10 DEF TypeOK, Element
<1>12. \A e \in Of(m) : /\ e \in Chain(m.bucket) /\ e.sid = m.sid /\ e.port \in Servers \cup {NoPort}
                        /\ e.port # NoPort => sid[e.port] = e.sid /\ Read(<<e.port, "SET">>)
  BY <1>6, ChainTyped DEF Of, Entry, ChainInv
<1>13. PeerInv'
  <2>1. \A p \in unread' : stage'[p] \in {"sent", "left"}
    BY <1>6 DEF PeerInv
  <2>2. \A p \in Servers \X {"SET", "DEL"} :
           stage'[p] \in {"idle", "sent"} /\ (stage'[p] # "idle" => sid'[p[1]] # NoSid)
    <3>1. \A p \in Servers \X {"SET", "DEL"} : p[1] \in Servers
      OBVIOUS
    <3> QED BY <1>4, <1>6, <3>1 DEF PeerInv
  <2>3. \A n \in Servers : stage'[<<n, "DEL">>] # "idle" => Read(<<n, "SET">>)'
    BY <1>6, <1>9 DEF PeerInv
  <2>4. ASSUME NEW c \in Clients, got'[c] # NoPort PROVE \E n : n = got'[c] /\ Read(<<n, "SET">>)'
    <3>1. CASE got'[c] = got[c]
      BY <1>9, <2>4, <3>1 DEF PeerInv
    <3>2. CASE \E e \in Of(m) : e.port # NoPort /\ got'[c] = e.port
      BY <1>9, <1>12, <3>2
    <3>3. CASE m.type = "SET_SESSION" /\ Of(m) # {} /\ got'[c] = m.port
      BY <1>5, <1>6, <3>3 DEF Read
    <3> QED BY <1>3, <3>1, <3>2, <3>3
  <2> QED BY <2>1, <2>2, <2>3, <2>4 DEF PeerInv
<1>14. ChainInv'
  <2>1. ASSUME NEW b \in Buckets, NEW e \in Chain(b)'
        PROVE  /\ e.port = NoPort => e.queue # << >>
               /\ e.port # NoPort => /\ e.queue = << >> /\ sid'[e.port] = e.sid
                                     /\ Read(<<e.port, "SET">>)'
    <3>1. CASE e \in Chain(b)
      <4>1. e.port \in Servers \cup {NoPort} /\ e.sid \in Sids
        BY <3>1, ChainTyped DEF Entry
      <4>2. /\ e.port = NoPort => e.queue # << >>
            /\ e.port # NoPort => /\ e.queue = << >> /\ sid[e.port] = e.sid
                                  /\ Read(<<e.port, "SET">>)
        BY <3>1 DEF ChainInv
      <4> QED BY <1>4, <1>9, <4>1, <4>2, DaemonAssumption
    <3>2. CASE e.port = NoPort /\ e.queue # << >>
      BY <3>2
    <3>3. CASE e.port = m.port /\ e.sid = m.sid /\ e.queue = << >> /\ m.type = "SET_SESSION" /\ Of(m) # {}
      <4>1. /\ m.port \in Servers /\ sid'[m.port] = m.sid
            /\ Read(<<m.port, "SET">>)'
        BY <1>4, <1>5, <1>6, <3>3, DaemonAssumption DEF Read
      <4>2. m.port # NoPort
        BY <4>1 DEF Servers, NoPort
      <4> QED BY <3>3, <4>1, <4>2
    <3> QED BY <1>2, <3>1, <3>2, <3>3
  <2> QED BY <1>2, <2>1 DEF ChainInv
<1> QED BY <1>1, <1>2, <1>4, <1>11, <1>13, <1>14

-----------------------------------------------------------------------------
(***************************************************************************)
(* The invariant over every step.                                          *)
(***************************************************************************)

(* An index of a sequence one longer is an old one or the last.            *)
LEMMA LastOrBefore == \A n \in Nat : \A i \in 1 .. n + 1 : i \in 1 .. n \/ i = n + 1
OBVIOUS

(* There are finitely many peers, and as many descriptors.                 *)
LEMMA FiniteInstance == IsFiniteSet(Peers) /\ Cardinality(Peers) \in Nat
                        /\ IsFiniteSet(Fds) /\ Cardinality(Fds) = Cardinality(Peers)
<1>1. IsFiniteSet(Servers)
  BY DaemonAssumption, FS_Interval DEF Servers
<1>2. IsFiniteSet({"SET", "DEL"})
  <2>1. IsFiniteSet({"SET"})
    BY FS_Singleton
  <2>2. {"SET", "DEL"} = {"SET"} \cup {"DEL"}
    OBVIOUS
  <2> QED BY <2>1, <2>2, FS_AddElement
<1>3. IsFiniteSet(Servers \X {"SET", "DEL"})
  BY <1>1, <1>2, FS_Product
<1>4. IsFiniteSet(Peers) /\ Cardinality(Peers) \in Nat
  BY <1>3, DaemonAssumption, FS_Union, FS_CardinalityType DEF Peers
<1> QED BY <1>4, FS_Interval DEF Fds

(* accept() finds a descriptor as long as one peer has none.               *)
LEMMA FreeDescriptor ==
  ASSUME TypeOK, ConnInv, NEW p \in Peers, \A fd \in Fds : owner[fd] # p
  PROVE  /\ Min({f \in Fds : owner[f] = NoPeer}) \in Fds
         /\ owner[Min({f \in Fds : owner[f] = NoPeer})] = NoPeer
<1> DEFINE F == {f \in Fds : owner[f] = NoPeer}
<1>1. F # {}
  <2>1. SUFFICES ASSUME F = {} PROVE FALSE
    OBVIOUS
  <2>2. owner \in [Fds -> Peers \ {p}]
    BY <2>1 DEF TypeOK
  <2>3. IsFiniteSet(Peers \ {p}) /\ Cardinality(Peers \ {p}) = Cardinality(Peers) - 1
    BY FiniteInstance, FS_RemoveElement
  <2>4. Cardinality(Peers \ {p}) < Cardinality(Fds)
    BY <2>3, FiniteInstance
  <2>5. \E f, g \in Fds : f # g /\ owner[f] = owner[g]
    BY <2>2, <2>3, <2>4, FiniteInstance, FS_PigeonHole
  <2> QED BY <2>1, <2>5 DEF ConnInv
<1>2. F \in SUBSET Nat
  BY DEF Fds
<1>3. Min(F) \in F
  BY <1>1, <1>2, LeastElement
<1> QED BY <1>3

(* The invariant survives processConnection: the lowest free descriptor    *)
(* gets the oldest connection, and a place at the end of the poll set      *)
(* without POLLIN.                                                         *)
LEMMA AcceptKeeps == DaemonInv /\ daemon = "up" /\ ProcessConnection => DaemonInv'
<1> SUFFICES ASSUME DaemonInv, daemon = "up", ProcessConnection PROVE DaemonInv'
  OBVIOUS
<1> USE DEF DaemonInv
<1> DEFINE f == Min({g \in Fds : owner[g] = NoPeer})
           p == Head(backlog)
<1>1. /\ at # 0 /\ at \in DOMAIN pollset /\ pollset[at].fd = Listener /\ pollset[at].ready
      /\ \A i \in at .. Len(pollset) : pollset[i].ready => Readable(pollset[i].fd)
  BY DEF ProcessConnection, ReadyInv
<1>2. /\ pollset \in Seq(Element) /\ Len(pollset) \in Nat /\ DOMAIN pollset = 1 .. Len(pollset)
      /\ at \in 1 .. Len(pollset) /\ backlog \in Seq(Peers)
      /\ owner \in [Fds -> Peers \cup {NoPeer}]
  BY <1>1 DEF TypeOK, Element
<1>3. backlog # << >>
  <2>1. at \in at .. Len(pollset)
    BY <1>2
  <2> QED BY <1>1, <2>1 DEF Readable
<1>4. p \in Peers /\ p = backlog[1] /\ 1 \in DOMAIN backlog
  BY <1>2, <1>3
<1>5. stage[p] # "idle" /\ \A fd \in Fds : owner[fd] # p
  BY <1>4 DEF ConnInv
<1>6. f \in Fds /\ owner[f] = NoPeer
  BY <1>4, <1>5, FreeDescriptor
<1>7. \A i \in DOMAIN pollset : pollset[i].fd # f
  BY <1>6 DEF ConnInv
<1>8. /\ owner' = [owner EXCEPT ![f] = p]
      /\ pollset' = Append(pollset, [fd |-> f, ready |-> FALSE])
      /\ at' = NextReady(pollset', at + 1) /\ backlog' = Tail(backlog)
      /\ UNCHANGED <<daemon, table, last, peerVars>>
  BY <1>7 DEF ProcessConnection, SetPollable, Installed
<1> HIDE DEF f, p
<1>9. PICK new : new = [fd |-> f, ready |-> FALSE] /\ new \in Element /\ new.fd = f /\ new.ready = FALSE
  <2>1. [fd |-> f, ready |-> FALSE] \in Element
    BY <1>6 DEF Element
  <2> QED BY <2>1
<1>10. /\ pollset' \in Seq(Element) /\ Len(pollset') = Len(pollset) + 1
       /\ DOMAIN pollset' = 1 .. Len(pollset) + 1 /\ pollset'[Len(pollset) + 1] = new
       /\ \A i \in 1 .. Len(pollset) : pollset'[i] = pollset[i]
  BY <1>2, <1>8, <1>9
<1>11. /\ owner' \in [Fds -> Peers \cup {NoPeer}] /\ owner'[f] = p
       /\ \A g \in Fds : g # f => owner'[g] = owner[g]
  BY <1>2, <1>4, <1>6, <1>8
<1>12. PICK set \in Seq(Element) : set = pollset'
  BY <1>10
<1>13. PICK nx : nx = at'
  OBVIOUS
<1>14. nx = 0 \/ (nx \in at + 1 .. Len(set) /\ set[nx].ready)
  <2>1. at \in Nat /\ nx = NextReady(set, at + 1)
    BY <1>2, <1>8, <1>12, <1>13
  <2> QED BY <2>1, NextIsReady
<1>15. at' \in 0 .. Len(pollset')
  <2>1. Len(set) \in Nat
    OBVIOUS
  <2> QED BY <1>2, <1>12, <1>13, <1>14, <2>1
<1>16. /\ backlog' \in Seq(Peers)
       /\ \A i \in DOMAIN backlog' : i + 1 \in DOMAIN backlog /\ backlog'[i] = backlog[i + 1]
                                     /\ i \in Nat /\ i + 1 # 1
  BY <1>2, <1>3, <1>8
<1>17. TypeOK'
  BY <1>8, <1>10, <1>11, <1>15, <1>16 DEF TypeOK, Element, peerVars
<1>18. NoDouble'
  <2> SUFFICES ASSUME NEW i \in DOMAIN pollset', NEW j \in DOMAIN pollset',
                      pollset'[i].fd = pollset'[j].fd
               PROVE  i = j
    BY DEF NoDouble
  <2>0. \A k \in DOMAIN pollset' : k \in 1 .. Len(pollset) \/ k = Len(pollset) + 1
    <3>1. \A k \in 1 .. Len(pollset) + 1 : k \in 1 .. Len(pollset) \/ k = Len(pollset) + 1
      BY <1>2, LastOrBefore
    <3> QED BY <1>10, <3>1
  <2>1. CASE i \in 1 .. Len(pollset) /\ j \in 1 .. Len(pollset)
    BY <1>2, <1>10, <2>1 DEF ConnInv, NoDouble
  <2>2. CASE i \notin 1 .. Len(pollset) /\ j \in 1 .. Len(pollset)
    <3>1. i = Len(pollset) + 1
      BY <2>0, <2>2
    <3> QED BY <1>2, <1>7, <1>9, <1>10, <2>2, <3>1
  <2>3. CASE i \in 1 .. Len(pollset) /\ j \notin 1 .. Len(pollset)
    <3>1. j = Len(pollset) + 1
      BY <2>0, <2>3
    <3> QED BY <1>2, <1>7, <1>9, <1>10, <2>3, <3>1
  <2>4. CASE i \notin 1 .. Len(pollset) /\ j \notin 1 .. Len(pollset)
    BY <2>0, <2>4
  <2> QED BY <2>1, <2>2, <2>3, <2>4
<1>19. ASSUME NEW g \in Fds
       PROVE  owner'[g] # NoPeer <=> \E i \in DOMAIN pollset' : pollset'[i].fd = g
  <2>1. CASE g = f
    <3>1. Len(pollset) + 1 \in DOMAIN pollset'
      BY <1>2, <1>10
    <3> QED BY <1>4, <1>9, <1>10, <1>11, <2>1, <3>1, PeerAssumption
  <2>2. CASE g # f
    <3>1. owner[g] # NoPeer <=> \E i \in 1 .. Len(pollset) : pollset[i].fd = g
      BY <1>2 DEF ConnInv
    <3>2. \A i \in DOMAIN pollset' : i \in 1 .. Len(pollset) \/ i = Len(pollset) + 1
      <4>1. \A i \in 1 .. Len(pollset) + 1 : i \in 1 .. Len(pollset) \/ i = Len(pollset) + 1
        BY <1>2, LastOrBefore
      <4> QED BY <1>10, <4>1
    <3>3. \A i \in 1 .. Len(pollset) : i \in DOMAIN pollset'
      BY <1>2, <1>10
    <3> QED BY <1>9, <1>10, <1>11, <2>2, <3>1, <3>2, <3>3
  <2> QED BY <2>1, <2>2
<1>20. ConnInv'
  <2>0. stage' = stage
    BY <1>8 DEF peerVars
  <2>1. \A g, h \in Fds : owner'[g] # NoPeer /\ owner'[g] = owner'[h] => g = h
    BY <1>5, <1>11 DEF ConnInv
  <2>2. \A g \in Fds : owner'[g] # NoPeer => stage[owner'[g]] # "idle"
    BY <1>5, <1>11 DEF ConnInv
  <2>3. ASSUME NEW i \in DOMAIN backlog'
        PROVE  stage[backlog'[i]] # "idle" /\ \A g \in Fds : owner'[g] # backlog'[i]
    <3>1. i + 1 \in DOMAIN backlog /\ backlog'[i] = backlog[i + 1] /\ i + 1 # 1
      BY <1>16
    <3>2. backlog[i + 1] # p
      BY <1>4, <3>1 DEF ConnInv
    <3>3. stage[backlog[i + 1]] # "idle" /\ \A g \in Fds : owner[g] # backlog[i + 1]
      BY <3>1 DEF ConnInv
    <3> QED BY <1>11, <3>1, <3>2, <3>3
  <2>4. ASSUME NEW i \in DOMAIN backlog', NEW j \in DOMAIN backlog', backlog'[i] = backlog'[j]
        PROVE  i = j
    <3>1. i + 1 \in DOMAIN backlog /\ j + 1 \in DOMAIN backlog /\ backlog[i + 1] = backlog[j + 1]
          /\ i \in Nat /\ j \in Nat
      BY <1>16, <2>4
    <3>2. i + 1 = j + 1
      BY <3>1 DEF ConnInv
    <3> QED BY <3>1, <3>2
  <2> QED BY <1>18, <1>19, <2>0, <2>1, <2>2, <2>3, <2>4 DEF ConnInv
<1>21. ReadyInv'
  <2> SUFFICES ASSUME at' # 0
               PROVE  /\ at' \in DOMAIN pollset' /\ pollset'[at'].ready
                      /\ \A i \in at' .. Len(pollset') : pollset'[i].ready => Readable(pollset[i].fd)'
    BY DEF ReadyInv
  <2>1. nx \in at + 1 .. Len(set) /\ set[nx].ready
    BY <1>13, <1>14
  <2>2. nx \in DOMAIN set
    BY <1>2, <2>1
  <2>3. ASSUME NEW i \in nx .. Len(set), set[i].ready, NEW x, x = set[i].fd
        PROVE  Readable(x)'
    <3>1. i \in 1 .. Len(pollset) + 1 /\ i \in Int /\ i > at
      BY <1>2, <1>10, <1>12, <2>1
    <3>2. i # Len(pollset) + 1
      BY <1>9, <1>10, <1>12, <2>3
    <3>3. i \in at .. Len(pollset) /\ i \in DOMAIN pollset /\ set[i] = pollset[i] /\ i # at
      BY <1>2, <1>10, <1>12, <3>1, <3>2
    <3>4. Readable(x) /\ x # Listener /\ x # f
      BY <1>1, <1>7, <2>3, <3>3 DEF ConnInv, NoDouble
    <3>5. x \in Fds
      <4>1. pollset[i] \in Element
        BY <1>2, <3>3
      <4> QED BY <2>3, <3>3, <3>4, <4>1 DEF Element
    <3>6. owner'[x] = owner[x] /\ unread' = unread /\ stage' = stage /\ again' = again /\ seen' = seen
      BY <1>8, <1>11, <3>4, <3>5 DEF peerVars
    <3> QED BY <3>4, <3>6 DEF Readable, Further
  <2>4. ASSUME NEW i \in at' .. Len(pollset'), pollset'[i].ready
        PROVE  Readable(pollset[i].fd)'
    <3>1. PICK x : x = pollset'[i].fd
      OBVIOUS
    <3>2. Readable(x)'
      BY <1>12, <1>13, <2>3, <2>4, <3>1
    <3> QED BY <3>1, <3>2
  <2> QED BY <1>12, <1>13, <2>1, <2>2, <2>4
<1>22. PeerInv' /\ ForkInv' /\ ChainInv' /\ LastInv'
  BY <1>8 DEF peerVars, PeerInv, ForkInv, ChainInv, LastInv, Heard, Read, Distinct, Chain
<1> QED BY <1>17, <1>20, <1>21, <1>22

(* The invariant survives poll(): POLLIN is set where something has come.  *)
LEMMA PollKeeps == DaemonInv /\ daemon = "up" /\ Poll => DaemonInv'
<1> SUFFICES ASSUME DaemonInv, daemon = "up", Poll PROVE DaemonInv'
  OBVIOUS
<1> USE DEF DaemonInv
<1>1. /\ pollset \in Seq(Element) /\ Len(pollset) \in Nat /\ DOMAIN pollset = 1 .. Len(pollset)
      /\ \A i \in 1 .. Len(pollset) : pollset[i] \in Element
  <2>1. pollset \in Seq(Element)
    BY DEF TypeOK, Element
  <2> QED BY <2>1
<1>2. /\ pollset' = [i \in DOMAIN pollset |-> [pollset[i] EXCEPT !.ready = Readable(pollset[i].fd)]]
      /\ at' = NextReady(pollset', 1)
      /\ UNCHANGED <<daemon, table, owner, backlog, last, peerVars>>
  BY DEF Poll
<1>3. \A x : Readable(x) \in BOOLEAN
  BY DEF Readable
<1>4. \A i \in 1 .. Len(pollset) :
        /\ pollset'[i] \in Element /\ pollset'[i].fd = pollset[i].fd
        /\ pollset'[i].ready = Readable(pollset[i].fd)
  <2> SUFFICES ASSUME NEW i \in 1 .. Len(pollset)
               PROVE  /\ pollset'[i] \in Element /\ pollset'[i].fd = pollset[i].fd
                      /\ pollset'[i].ready = Readable(pollset[i].fd)
    OBVIOUS
  <2>1. PICK r \in BOOLEAN : r = Readable(pollset[i].fd)
    BY <1>3
  <2>2. pollset'[i] = [pollset[i] EXCEPT !.ready = r] /\ pollset[i] \in Element
    BY <1>1, <1>2, <2>1
  <2>3. pollset'[i] \in Element /\ pollset'[i].fd = pollset[i].fd /\ pollset'[i].ready = r
    BY <2>2 DEF Element
  <2> QED BY <2>1, <2>3
<1>5. DOMAIN pollset' = 1 .. Len(pollset) /\ pollset' \in Seq(Element) /\ Len(pollset') = Len(pollset)
  <2>1. pollset' \in [1 .. Len(pollset) -> Element]
    BY <1>1, <1>2, <1>4
  <2> QED BY <1>1, <2>1
<1>6. PICK set \in Seq(Element) : set = pollset'
  BY <1>5
<1>7. PICK nx : nx = at'
  OBVIOUS
<1>8. nx = 0 \/ (nx \in 1 .. Len(set) /\ set[nx].ready)
  <2>1. 0 \in Nat /\ 0 + 1 = 1
    OBVIOUS
  <2>2. nx = NextReady(set, 0 + 1)
    BY <1>2, <1>6, <1>7, <2>1
  <2>3. nx = 0 \/ (nx \in 0 + 1 .. Len(set) /\ set[nx].ready)
    BY <2>1, <2>2, NextIsReady
  <2> QED BY <2>1, <2>3
<1>9. at' \in 0 .. Len(pollset')
  <2>1. Len(set) \in Nat
    OBVIOUS
  <2> QED BY <1>6, <1>7, <1>8, <2>1
<1>10. TypeOK'
  BY <1>2, <1>5, <1>9 DEF TypeOK, Element, peerVars
<1>11. ConnInv'
  <2>1. NoDouble'
    BY <1>1, <1>4, <1>5 DEF ConnInv, NoDouble
  <2>2. \A fd \in Fds : (\E i \in DOMAIN pollset' : pollset'[i].fd = fd)
                          <=> (\E i \in DOMAIN pollset : pollset[i].fd = fd)
    BY <1>1, <1>4, <1>5
  <2>3. \A fd \in Fds : owner[fd] # NoPeer <=> \E i \in DOMAIN pollset' : pollset'[i].fd = fd
    BY <2>2 DEF ConnInv
  <2>4. UNCHANGED <<owner, backlog, stage>>
    BY <1>2 DEF peerVars
  <2> HIDE <1>2
  <2> QED BY <2>1, <2>3, <2>4 DEF ConnInv
<1>12. ASSUME NEW x PROVE Readable(x) <=> Readable(x)'
  BY <1>2 DEF Readable, Further, peerVars
<1>13. ReadyInv'
  <2> SUFFICES ASSUME at' # 0
               PROVE  /\ at' \in DOMAIN pollset' /\ pollset'[at'].ready
                      /\ \A i \in at' .. Len(pollset') : pollset'[i].ready => Readable(pollset[i].fd)'
    BY DEF ReadyInv
  <2>1. at' \in DOMAIN pollset' /\ pollset'[at'].ready
    BY <1>5, <1>6, <1>7, <1>8
  <2>2. ASSUME NEW i \in at' .. Len(pollset'), pollset'[i].ready
        PROVE  Readable(pollset[i].fd)'
    <3>1. i \in 1 .. Len(pollset)
      BY <1>1, <1>5, <1>9, <2>2
    <3>2. PICK x : x = pollset[i].fd
      OBVIOUS
    <3>3. Readable(x)' /\ x = pollset'[i].fd
      BY <1>4, <1>12, <2>2, <3>1, <3>2
    <3> QED BY <3>3
  <2> QED BY <2>1, <2>2
<1>14. PeerInv' /\ ForkInv' /\ ChainInv' /\ LastInv'
  BY <1>2 DEF peerVars, PeerInv, ForkInv, ChainInv, LastInv, Heard, Read, Distinct, Chain
<1> QED BY <1>10, <1>11, <1>13, <1>14

(* The invariant survives a closed connection that is ignored.             *)
LEMMA IgnoredKeeps ==
  ASSUME DaemonInv, daemon = "up", NEW fd \in Fds, Ignored(fd)
  PROVE  DaemonInv'
<1> USE DEF DaemonInv
<1>1. /\ at # 0 /\ at \in DOMAIN pollset /\ pollset[at].fd = fd /\ owner[fd] \in Peers
      /\ Close({fd}) /\ {fd} \in SUBSET Fds
      /\ UNCHANGED <<daemon, table, sid, got, unread, backlog, stage, again, dead, want>>
      /\ UNCHANGED seen \/ TakesFurther(fd)
      /\ last' \in {last, NoMsg}
  BY DEF Ignored, ReadyInv
<1>2. ConnInv' /\ ReadyInv'
  BY <1>1, WalkGoesOn
<1>3. /\ pollset' \in Seq(Element) /\ at' \in 0 .. Len(pollset')
      /\ owner' \in [Fds -> Peers \cup {NoPeer}]
  BY <1>1, CloseKeeps
<1>4. /\ seen' \subseteq DOMAIN again' /\ Cardinality(seen) <= Cardinality(seen')
      /\ Cardinality(seen) \in Nat /\ Cardinality(seen') \in Nat
  <2>1. TypeOK /\ UNCHANGED again /\ (UNCHANGED seen \/ TakesFurther(fd))
    BY <1>1
  <2> QED BY <2>1, SeenGrows
<1>5. TypeOK'
  BY <1>1, <1>3, <1>4 DEF TypeOK, Element
<1>6. ForkInv'
  <2>1. PICK k \in 0 .. NServers : /\ {n \in Servers : sid[n] # NoSid} = 1 .. k
                                   /\ k <= Cardinality(Heard) + Cardinality(seen)
    BY DEF ForkInv
  <2>2. Heard \subseteq Clients /\ Heard' = Heard
    BY <1>1 DEF Heard
  <2>3. Cardinality(Heard) \in Nat
    BY <2>2, DaemonAssumption, FS_Subset, FS_CardinalityType
  <2>4. k <= Cardinality(Heard') + Cardinality(seen')
    BY <1>4, <2>1, <2>2, <2>3
  <2> QED BY <1>1, <2>1, <2>4 DEF ForkInv
<1>7. PeerInv' /\ ChainInv'
  BY <1>1 DEF PeerInv, ChainInv, Read, Distinct, Chain
<1>8. LastInv'
  BY <1>1 DEF LastInv, Chain
<1> QED BY <1>2, <1>5, <1>6, <1>7, <1>8

(* The invariant survives processMessage.                                  *)
LEMMA ProcessKeeps == DaemonInv /\ daemon = "up" /\ ProcessMessage => DaemonInv'
<1> SUFFICES ASSUME DaemonInv, daemon = "up", ProcessMessage PROVE DaemonInv'
  OBVIOUS
<1>1. PICK fd \in Fds : \/ Ignored(fd)
                        \/ \E m \in Message, shut \in {{}, {fd}} :
                             Taken(fd, m, shut) /\ Dispatch(fd, m, shut)
  BY MessageCases DEF DaemonInv
<1>2. CASE Ignored(fd)
  BY <1>2, IgnoredKeeps
<1>3. ASSUME NEW m \in Message, NEW shut \in {{}, {fd}}, Taken(fd, m, shut), Dispatch(fd, m, shut)
      PROVE  DaemonInv'
  <2>1. TypeOK /\ Distinct /\ shut \in SUBSET Fds
    BY DEF DaemonInv, ChainInv
  <2>2. Outcome(fd, m, shut)
    BY <1>3, <2>1, DispatchOutcome DEF Outcome
  <2> QED BY <1>3, <2>1, <2>2, MessageKeeps
<1> QED BY <1>1, <1>2, <1>3

(* What a step of a peer may change: it sends, connects or leaves, and     *)
(* takes nothing back that the daemon has found or read.                   *)
PeerFrame ==
  /\ UNCHANGED <<daemon, table, loopVars, last, seen, sid, want, got>>
  /\ again' \in Seq([client : Interactive, sid : Sids \cup {NoSid}]) /\ Len(again') <= MaxAgain
  /\ \A i \in DOMAIN again : i \in DOMAIN again' /\ again'[i] = again[i]
  /\ backlog' \in Seq(Peers) /\ (backlog # << >> => backlog' # << >>)
  /\ stage' \in [Peers -> {"idle", "connected", "sent", "left"}]
  /\ unread \subseteq unread' /\ unread' \subseteq Peers /\ dead' \subseteq Servers
  /\ \A p \in Peers : /\ stage[p] = "left" => stage'[p] = "left"
                      /\ stage[p] # "idle" => stage'[p] # "idle"
                      /\ stage[p] # "idle" /\ p \notin Clients /\ p \notin unread => p \notin unread'
  /\ Heard \subseteq Heard'

(* The invariant survives such a step, given what it does to the peer      *)
(* itself and to the backlog.                                              *)
LEMMA FrameKeeps ==
  ASSUME DaemonInv, PeerFrame, PeerInv',
         \A i \in DOMAIN backlog' : /\ stage'[backlog'[i]] # "idle"
                                    /\ \A fd \in Fds : owner[fd] # backlog'[i],
         \A i, j \in DOMAIN backlog' : backlog'[i] = backlog'[j] => i = j
  PROVE  DaemonInv'
<1> USE DEF DaemonInv
<1>1. UNCHANGED <<daemon, table, pollset, at, owner, last, seen, sid, want, got>>
  BY DEF PeerFrame, loopVars
<1>2. TypeOK'
  BY <1>1 DEF PeerFrame, TypeOK
<1>3. \A p \in Servers \X {"SET", "DEL"} : Read(p) => Read(p)'
  BY PeerAssumption DEF PeerFrame, Read, Peers
<1>4. ForkInv'
  <2>1. PICK k \in 0 .. NServers :
          {n \in Servers : sid[n] # NoSid} = 1 .. k /\ k <= Cardinality(Heard) + Cardinality(seen)
    BY DEF ForkInv
  <2>2. Heard \subseteq Heard' /\ Heard' \subseteq Clients /\ Heard \subseteq Clients
    BY DEF PeerFrame, Heard
  <2>3. /\ IsFiniteSet(Heard') /\ Cardinality(Heard) <= Cardinality(Heard')
        /\ Cardinality(Heard) \in Nat /\ Cardinality(Heard') \in Nat
    BY <2>2, DaemonAssumption, FS_Subset, FS_CardinalityType
  <2>30. Cardinality(seen) \in Nat
    <3>1. Len(again) \in Nat /\ seen \in SUBSET (1 .. Len(again))
      BY DEF TypeOK
    <3> QED BY <3>1, SeenBounded
  <2>4. /\ k <= Cardinality(Heard') + Cardinality(seen')
        /\ {n \in Servers : sid'[n] # NoSid} = 1 .. k
    BY <1>1, <2>1, <2>3, <2>30
  <2> QED BY <2>4 DEF ForkInv
<1>5. ChainInv'
  <2>1. Distinct'
    BY <1>1 DEF ChainInv, Distinct
  <2>2. ASSUME NEW b \in Buckets, NEW e \in Chain(b)'
        PROVE  /\ e.port = NoPort => e.queue # << >>
               /\ e.port # NoPort => /\ e.queue = << >> /\ sid'[e.port] = e.sid
                                     /\ Read(<<e.port, "SET">>)'
    <3>1. e \in Chain(b)
      BY <1>1, <2>2 DEF Chain
    <3>2. e.port \in Servers \cup {NoPort}
      BY <3>1, ChainTyped DEF Entry
    <3>3. /\ e.port = NoPort => e.queue # << >>
          /\ e.port # NoPort => e.queue = << >> /\ sid[e.port] = e.sid /\ Read(<<e.port, "SET">>)
      BY <3>1 DEF ChainInv
    <3>4. e.port # NoPort => <<e.port, "SET">> \in Servers \X {"SET", "DEL"}
      BY <3>2
    <3> QED BY <1>1, <1>3, <3>3, <3>4
  <2> QED BY <2>1, <2>2 DEF ChainInv
<1>6. LastInv'
  BY <1>1 DEF LastInv, Chain
<1>7. ConnInv'
  <2>1. NoDouble'
    BY <1>1 DEF ConnInv, NoDouble
  <2>2. \A fd \in Fds : owner[fd] # NoPeer => stage'[owner[fd]] # "idle"
    BY DEF ConnInv, PeerFrame, TypeOK
  <2> QED BY <1>1, <2>1, <2>2 DEF ConnInv
<1>8. ReadyInv'
  <2> SUFFICES ASSUME daemon = "up", at # 0
               PROVE  /\ at \in DOMAIN pollset /\ pollset[at].ready
                      /\ \A i \in at .. Len(pollset) : pollset[i].ready => Readable(pollset[i].fd)'
    BY <1>1 DEF ReadyInv
  <2>1. at \in DOMAIN pollset /\ pollset[at].ready /\ at \in 1 .. Len(pollset)
    BY DEF ReadyInv, TypeOK
  <2>2. ASSUME NEW i \in at .. Len(pollset), pollset[i].ready, NEW x, x = pollset[i].fd
        PROVE  Readable(x)'
    <3>1. Readable(x)
      BY <2>2 DEF ReadyInv
    <3>2. i \in DOMAIN pollset /\ pollset \in Seq(Element)
      <4>1. pollset \in Seq(Element)
        BY DEF TypeOK, Element
      <4> QED BY <2>1, <4>1
    <3>3. x \in Fds \cup {Listener}
      <4>1. pollset[i] \in Element
        BY <3>2
      <4> QED BY <2>2, <4>1 DEF Element
    <3>4. CASE x = Listener
      BY <3>1, <3>4 DEF Readable, PeerFrame
    <3>5. CASE x # Listener
      <4>1. x \in Fds /\ owner[x] \in Peers
        BY <2>2, <3>2, <3>3, <3>5 DEF ConnInv, TypeOK
      <4>2. owner[x] \in unread \/ Further(owner[x]) # {} \/ stage[owner[x]] = "left"
        BY <3>1, <3>5 DEF Readable
      <4>4. Further(owner[x]) # {} => Further(owner[x])' # {}
        BY <1>1 DEF PeerFrame, Further
      <4>3. owner'[x] \in unread' \/ Further(owner[x])' # {} \/ stage'[owner'[x]] = "left"
        BY <1>1, <4>1, <4>2, <4>4 DEF PeerFrame
      <4> QED BY <3>5, <4>3 DEF Readable
    <3> QED BY <3>4, <3>5
  <2>3. ASSUME NEW i \in at .. Len(pollset), pollset[i].ready
        PROVE  Readable(pollset[i].fd)'
    <3>1. PICK x : x = pollset[i].fd
      OBVIOUS
    <3>2. Readable(x)' /\ x = pollset'[i].fd
      BY <1>1, <2>2, <2>3, <3>1
    <3> QED BY <3>2
  <2> QED BY <2>1, <2>3
<1> QED BY <1>2, <1>4, <1>5, <1>6, <1>7, <1>8

(* The invariant survives a peer that connects.                            *)
LEMMA ConnectKeeps == \A p \in Peers : DaemonInv /\ Connect(p) => DaemonInv'
<1> SUFFICES ASSUME NEW p \in Peers, DaemonInv, Connect(p) PROVE DaemonInv'
  OBVIOUS
<1> USE DEF DaemonInv
<1>1. /\ stage[p] = "idle" /\ MayConnect(p) /\ backlog' = Append(backlog, p)
      /\ UNCHANGED <<daemon, table, loopVars, last, again, seen, sid, dead, want, got>>
      /\ \/ p \in Interactive /\ stage' = [stage EXCEPT ![p] = "connected"] /\ UNCHANGED unread
         \/ p \notin Interactive /\ stage' = [stage EXCEPT ![p] = "sent"] /\ unread' = unread \cup {p}
  BY DEF Connect
<1>2. /\ backlog \in Seq(Peers) /\ stage \in [Peers -> {"idle", "connected", "sent", "left"}]
      /\ unread \subseteq Peers /\ p \notin unread
  BY <1>1 DEF TypeOK, PeerInv
<1>3. /\ backlog' \in Seq(Peers) /\ Len(backlog) \in Nat /\ DOMAIN backlog = 1 .. Len(backlog)
      /\ DOMAIN backlog' = 1 .. Len(backlog) + 1 /\ backlog'[Len(backlog) + 1] = p
      /\ \A i \in 1 .. Len(backlog) : backlog'[i] = backlog[i]
      /\ backlog' # << >>
  BY <1>1, <1>2
<1>4. /\ stage' \in [Peers -> {"idle", "connected", "sent", "left"}] /\ stage'[p] # "idle"
      /\ \A q \in Peers : q # p => stage'[q] = stage[q] /\ (q \in unread' <=> q \in unread)
      /\ unread \subseteq unread' /\ unread' \subseteq unread \cup {p}
      /\ p \in unread' => stage'[p] = "sent"
      /\ stage'[p] \in {"connected", "sent"}
      /\ p \notin Interactive => stage'[p] = "sent"
  BY <1>1, <1>2
<1>5. PeerFrame
  <2>1. Heard \subseteq Heard'
    <3>1. \A c \in Heard : c \in Peers /\ c # p
      BY <1>1 DEF Heard, Peers
    <3> QED BY <1>4, <3>1 DEF Heard
  <2>2. dead' \subseteq Servers
    BY <1>1 DEF TypeOK
  <2>3. again \in Seq([client : Interactive, sid : Sids \cup {NoSid}]) /\ Len(again) <= MaxAgain
    BY DEF TypeOK
  <2> QED BY <1>1, <1>2, <1>3, <1>4, <2>1, <2>2, <2>3 DEF PeerFrame
<1>6. \A q \in Peers : q # p => (Read(q) <=> Read(q)')
  BY <1>4 DEF Read
<1>7. ~Read(p)
  BY <1>1 DEF Read
<1>8. PeerInv'
  <2>1. \A q \in unread' : stage'[q] \in {"sent", "left"}
    BY <1>2, <1>4 DEF PeerInv
  <2>2. ASSUME NEW q \in Servers \X {"SET", "DEL"}
        PROVE  stage'[q] \in {"idle", "sent"} /\ (stage'[q] # "idle" => sid'[q[1]] # NoSid)
    <3>1. q \in Peers /\ q \notin Clients /\ q \notin Interactive
      BY PeerAssumption, DaemonAssumption DEF Peers
    <3>2. CASE q = p
      BY <1>1, <1>4, <3>1, <3>2 DEF MayConnect
    <3>3. CASE q # p
      BY <1>1, <1>4, <3>1, <3>3 DEF PeerInv
    <3> QED BY <3>2, <3>3
  <2>3. ASSUME NEW n \in Servers, stage'[<<n, "DEL">>] # "idle"
        PROVE  Read(<<n, "SET">>)'
    <3>1. <<n, "DEL">> \in Peers \ Clients /\ <<n, "SET">> \in Peers \ Clients
      BY ServerPeers
    <3>2. Read(<<n, "SET">>)
      <4>1. CASE p = <<n, "DEL">>
        <5>1. p[1] = n /\ p[2] = "DEL" /\ p \notin Clients
          BY <3>1, <4>1
        <5>2. PICK c \in Clients : got[c] = n
          BY <1>1, <5>1 DEF MayConnect
        <5>3. n # NoPort
          BY DEF Servers, NoPort
        <5> QED BY <5>2, <5>3 DEF PeerInv
      <4>2. CASE p # <<n, "DEL">>
        BY <1>4, <2>3, <3>1, <4>2 DEF PeerInv
      <4> QED BY <4>1, <4>2
    <3> QED BY <1>6, <1>7, <3>1, <3>2
  <2>4. ASSUME NEW c \in Clients, got[c] # NoPort
        PROVE  \E n : n = got[c] /\ Read(<<n, "SET">>)'
    <3>1. Read(<<got[c], "SET">>) /\ got[c] \in Servers
      BY <2>4 DEF PeerInv, TypeOK
    <3>2. <<got[c], "SET">> \in Peers
      BY <3>1, ServerPeers
    <3> QED BY <1>6, <1>7, <3>1, <3>2
  <2>5. got' = got
    BY <1>1
  <2>6. \A c \in Clients : got'[c] # NoPort => \E n : n = got'[c] /\ Read(<<n, "SET">>)'
    BY <2>4, <2>5
  <2> QED BY <2>1, <2>2, <2>3, <2>6 DEF PeerInv
<1>9. \A i \in DOMAIN backlog' : i \in 1 .. Len(backlog) \/ i = Len(backlog) + 1
  BY <1>3, LastOrBefore
<1>10. \A i \in 1 .. Len(backlog) : backlog[i] # p /\ backlog[i] \in Peers /\ stage[backlog[i]] # "idle"
                                    /\ \A fd \in Fds : owner[fd] # backlog[i]
  BY <1>1, <1>2, <1>3 DEF ConnInv
<1>11. \A fd \in Fds : owner[fd] # p
  BY <1>1, PeerAssumption DEF ConnInv, TypeOK
<1>12. \A i \in DOMAIN backlog' : /\ stage'[backlog'[i]] # "idle"
                                  /\ \A fd \in Fds : owner[fd] # backlog'[i]
  BY <1>3, <1>4, <1>9, <1>10, <1>11
<1>13. \A i, j \in DOMAIN backlog' : backlog'[i] = backlog'[j] => i = j
  BY <1>3, <1>9, <1>10 DEF ConnInv
<1> QED BY <1>5, <1>8, <1>12, <1>13, FrameKeeps

(* The invariant survives a user's client that sends another message.      *)
LEMMA FurtherKeeps ==
  ASSUME DaemonInv, NEW c \in Interactive, NEW s \in Sids \cup {NoSid}, SendFurther(c, s)
  PROVE  DaemonInv'
<1> USE DEF DaemonInv
<1>1. /\ UNCHANGED <<daemon, table, loopVars, backlog, last, stage, unread, seen>>
      /\ UNCHANGED <<sid, dead, want, got>>
      /\ Len(again) < MaxAgain /\ again' = Append(again, [client |-> c, sid |-> s])
  BY DEF SendFurther
<1>2. /\ again' \in Seq([client : Interactive, sid : Sids \cup {NoSid}]) /\ Len(again') <= MaxAgain
      /\ \A i \in DOMAIN again : i \in DOMAIN again' /\ again'[i] = again[i]
  <2>1. /\ again \in Seq([client : Interactive, sid : Sids \cup {NoSid}])
        /\ [client |-> c, sid |-> s] \in [client : Interactive, sid : Sids \cup {NoSid}]
    BY DEF TypeOK
  <2>2. Len(again') = Len(again) + 1 /\ Len(again) \in Nat /\ MaxAgain \in Nat
    BY <1>1, <2>1, DaemonAssumption
  <2> QED BY <1>1, <2>1, <2>2
<1>3. PeerFrame
  <2>1. /\ backlog \in Seq(Peers) /\ stage \in [Peers -> {"idle", "connected", "sent", "left"}]
        /\ unread \subseteq Peers /\ dead \subseteq Servers
    BY DEF TypeOK
  <2>2. Heard' = Heard
    BY <1>1 DEF Heard
  <2> QED BY <1>1, <1>2, <2>1, <2>2 DEF PeerFrame
<1>4. PeerInv'
  BY <1>1 DEF PeerInv, Read
<1> QED BY <1>1, <1>3, <1>4, FrameKeeps DEF ConnInv

(* The invariant survives a user's client that sends or hangs up.          *)
LEMMA ClientKeeps ==
  ASSUME DaemonInv, NEW c \in Interactive, SendMessage(c) \/ Leave(c)
  PROVE  DaemonInv'
<1> USE DEF DaemonInv
<1>1. /\ UNCHANGED <<daemon, table, loopVars, backlog, last, again, seen, sid, dead, want, got>>
      /\ \/ /\ stage[c] = "connected" /\ stage' = [stage EXCEPT ![c] = "sent"]
            /\ unread' = unread \cup {c}
         \/ /\ stage[c] \in {"connected", "sent"} /\ stage' = [stage EXCEPT ![c] = "left"]
            /\ UNCHANGED unread
  BY DEF SendMessage, Leave
<1>2. /\ c \in Clients /\ c \in Peers /\ stage \in [Peers -> {"idle", "connected", "sent", "left"}]
      /\ unread \subseteq Peers
  BY DaemonAssumption DEF Peers, TypeOK
<1>3. /\ stage' \in [Peers -> {"idle", "connected", "sent", "left"}]
      /\ stage[c] \in {"connected", "sent"} /\ stage'[c] \in {"sent", "left"}
      /\ \A q \in Peers : q # c => stage'[q] = stage[q] /\ (q \in unread' <=> q \in unread)
      /\ unread \subseteq unread' /\ unread' \subseteq Peers
      /\ stage[c] = "connected" \/ (c \in unread' <=> c \in unread)
  BY <1>1, <1>2
<1>4. \A q \in Servers \X {"SET", "DEL"} : q # c /\ q \in Peers
  BY <1>2, PeerAssumption DEF Peers
<1>5. \A q \in Servers \X {"SET", "DEL"} : stage'[q] = stage[q] /\ (Read(q) <=> Read(q)')
  BY <1>3, <1>4 DEF Read
<1>6. PeerFrame
  <2>1. Heard \subseteq Heard'
    <3>1. \A d \in Heard : d \in Peers /\ stage[d] # "connected"
      BY DEF Heard, Peers
    <3> QED BY <1>3, <3>1 DEF Heard
  <2>2. /\ dead' \subseteq Servers /\ backlog' \in Seq(Peers) /\ backlog' = backlog
        /\ again \in Seq([client : Interactive, sid : Sids \cup {NoSid}]) /\ Len(again) <= MaxAgain
    BY <1>1 DEF TypeOK
  <2> QED BY <1>1, <1>2, <1>3, <2>1, <2>2 DEF PeerFrame
<1>7. PeerInv'
  <2>1. \A q \in unread' : stage'[q] \in {"sent", "left"}
    BY <1>2, <1>3 DEF PeerInv
  <2>2. \A q \in Servers \X {"SET", "DEL"} :
          stage'[q] \in {"idle", "sent"} /\ (stage'[q] # "idle" => sid'[q[1]] # NoSid)
    BY <1>1, <1>5 DEF PeerInv
  <2>3. ASSUME NEW n \in Servers, stage'[<<n, "DEL">>] # "idle"
        PROVE  Read(<<n, "SET">>)'
    <3>1. <<n, "DEL">> \in Servers \X {"SET", "DEL"} /\ <<n, "SET">> \in Servers \X {"SET", "DEL"}
      OBVIOUS
    <3> QED BY <1>5, <2>3, <3>1 DEF PeerInv
  <2>4. ASSUME NEW d \in Clients, got[d] # NoPort
        PROVE  \E n : n = got[d] /\ Read(<<n, "SET">>)'
    <3>1. Read(<<got[d], "SET">>) /\ <<got[d], "SET">> \in Servers \X {"SET", "DEL"}
      BY <2>4 DEF PeerInv, TypeOK
    <3> QED BY <1>5, <3>1
  <2>5. got' = got
    BY <1>1
  <2>6. \A d \in Clients : got'[d] # NoPort => \E n : n = got'[d] /\ Read(<<n, "SET">>)'
    BY <2>4, <2>5
  <2> QED BY <2>1, <2>2, <2>3, <2>6 DEF PeerInv
<1>8. \A i \in DOMAIN backlog' : /\ stage'[backlog'[i]] # "idle"
                                 /\ \A fd \in Fds : owner[fd] # backlog'[i]
  <2>1. \A i \in DOMAIN backlog : backlog[i] \in Peers
    BY DEF TypeOK
  <2> QED BY <1>1, <1>3, <2>1 DEF ConnInv
<1>9. \A i, j \in DOMAIN backlog' : backlog'[i] = backlog'[j] => i = j
  BY <1>1 DEF ConnInv
<1> QED BY <1>6, <1>7, <1>8, <1>9, FrameKeeps

(* The invariant survives a server that dies.                              *)
LEMMA DieKeeps == ASSUME DaemonInv, NEW n \in Mortal, n \in Servers, Die(n) PROVE DaemonInv'
<1> USE DEF DaemonInv
<1>1. /\ UNCHANGED <<daemon, table, loopVars, backlog, last, stage, unread, again, seen>>
      /\ UNCHANGED <<sid, want, got>>
      /\ dead' = dead \cup {n}
  BY DEF Die
<1>2. PeerFrame
  BY <1>1 DEF PeerFrame, TypeOK, Heard
<1>3. PeerInv'
  BY <1>1 DEF PeerInv, Read
<1> QED BY <1>1, <1>2, <1>3, FrameKeeps DEF ConnInv

(* The daemon starts in the invariant: an empty table, and a poll set with *)
(* the listener alone.                                                     *)
LEMMA InitHolds == Init => DaemonInv
<1> SUFFICES ASSUME Init PROVE DaemonInv
  OBVIOUS
<1> USE DEF Init
<1>1. \A b \in Buckets : table[b] = << >> /\ Chain(b) = {}
  BY DEF Chain, ToSet
<1>2. [fd |-> Listener, ready |-> FALSE] \in Element
  BY DEF Element
<1>3. pollset \in Seq(Element) /\ Len(pollset) = 1 /\ DOMAIN pollset = {1} /\ pollset[1].fd = Listener
  BY <1>2
<1>4. TypeOK
  <2>1. /\ table \in [Buckets -> Seq(Entry)] /\ backlog \in Seq(Peers)
        /\ \A b \in Buckets : \A i \in DOMAIN table[b] : Len(table[b][i].queue) <= MaxQueue
    OBVIOUS
  <2>2. at \in 0 .. Len(pollset)
    BY <1>3
  <2>3. /\ daemon \in {"up", "panic", "limit"} /\ pollset \in Seq(Element)
        /\ owner \in [Fds -> Peers \cup {NoPeer}] /\ last \in Message \cup {NoMsg}
        /\ stage \in [Peers -> {"idle", "connected", "sent", "left"}] /\ unread \subseteq Peers
        /\ sid \in [Servers -> Sids \cup {NoSid}] /\ dead \subseteq Servers /\ want \in Wants
        /\ got \in [Clients -> Servers \cup {NoPort}]
    BY <1>3
  <2>4. /\ again \in Seq([client : Interactive, sid : Sids \cup {NoSid}])
        /\ Len(again) <= MaxAgain /\ seen \subseteq DOMAIN again
    BY DaemonAssumption
  <2> QED BY <2>1, <2>2, <2>3, <2>4 DEF TypeOK, Element
<1>5. PeerInv
  <2>1. \A p \in Servers \X {"SET", "DEL"} : stage[p] = "idle"
    BY DEF Peers
  <2> QED BY <2>1 DEF PeerInv
<1>6. ForkInv
  <2>1. {n \in Servers : sid[n] # NoSid} = 1 .. 0
    OBVIOUS
  <2>2. Heard \subseteq Clients
    BY DEF Heard
  <2>3. Cardinality(Heard) \in Nat
    BY <2>2, DaemonAssumption, FS_Subset, FS_CardinalityType
  <2>30. Cardinality(seen) \in Nat
    BY FS_EmptySet
  <2>4. 0 \in 0 .. NServers /\ 0 <= Cardinality(Heard) + Cardinality(seen)
    BY <2>3, <2>30, DaemonAssumption
  <2> QED BY <2>1, <2>4 DEF ForkInv
<1>7. ChainInv /\ LastInv
  BY <1>1 DEF ChainInv, Distinct, LastInv
<1>8. ConnInv
  <2>1. \A fd \in Fds : owner[fd] = NoPeer /\ fd # Listener
    BY DEF Fds, Listener
  <2> QED BY <1>3, <2>1 DEF ConnInv, NoDouble
<1>9. ReadyInv
  BY DEF ReadyInv
<1> QED BY <1>4, <1>5, <1>6, <1>7, <1>8, <1>9 DEF DaemonInv

(* The invariant survives a step that changes nothing.                     *)
LEMMA StutterKeeps == DaemonInv /\ UNCHANGED vars => DaemonInv'
<1> SUFFICES ASSUME DaemonInv, UNCHANGED vars PROVE DaemonInv'
  OBVIOUS
<1>1. /\ UNCHANGED <<daemon, table, pollset, at, owner, backlog, last, stage, unread, again, seen>>
      /\ UNCHANGED <<sid, dead, want, got>>
  BY DEF vars, loopVars, peerVars
<1>2. TypeOK' /\ PeerInv' /\ ForkInv'
  BY <1>1 DEF DaemonInv, TypeOK, PeerInv, ForkInv, Heard, Read
<1>3. ChainInv' /\ LastInv'
  BY <1>1 DEF DaemonInv, ChainInv, LastInv, Distinct, Chain, Read
<1>4. ConnInv' /\ ReadyInv'
  BY <1>1 DEF DaemonInv, ConnInv, ReadyInv, NoDouble, Readable, Further
<1> QED BY <1>2, <1>3, <1>4 DEF DaemonInv

(* The invariant survives every step of the daemon and its peers.          *)
LEMMA StepKeeps == DaemonInv /\ [Next]_vars => DaemonInv'
<1> SUFFICES ASSUME DaemonInv, [Next]_vars PROVE DaemonInv'
  OBVIOUS
<1>1. CASE DaemonStep
  BY <1>1, PollKeeps, AcceptKeeps, ProcessKeeps DEF DaemonStep
<1>2. CASE \E p \in Peers : Connect(p)
  BY <1>2, ConnectKeeps
<1>3. CASE \E c \in Interactive : SendMessage(c) \/ Leave(c)
  BY <1>3, ClientKeeps
<1>6. CASE \E c \in Interactive : \E s \in Sids \cup {NoSid} : SendFurther(c, s)
  BY <1>6, FurtherKeeps
<1>4. CASE \E n \in Mortal : Die(n)
  BY <1>4, DieKeeps, PeerAssumption
<1>5. CASE UNCHANGED vars
  BY <1>5, StutterKeeps
<1> QED BY <1>1, <1>2, <1>3, <1>4, <1>5, <1>6 DEF Next

(* The invariant always holds.                                             *)
LEMMA DaemonInvariant == Spec => []DaemonInv
BY InitHolds, StepKeeps, PTL DEF Spec

(* Type correctness of the daemon, its table and its poll set, for every   *)
(* number of clients, sessions and buckets: accept() finds a descriptor,   *)
(* there is a server to fork for every new session, and no queue grows     *)
(* past DSM_MAX_SESSION_QUEUE (dsm_daemon.c, dsm_htab.c, dsm_poll.c).      *)
THEOREM DaemonTypes == Spec => []TypeOK
<1>1. DaemonInv => TypeOK
  BY DEF DaemonInv
<1> QED BY <1>1, DaemonInvariant, PTL

(* The daemon calls accept() and recv() only where something has come,     *)
(* although handlers add elements to the poll set and remove them while    *)
(* the loop walks over it (dsm_daemon.c, dsm_poll.c).                      *)
THEOREM NeverBlocks == Spec => []ReadyMeansReadable
<1>1. DaemonInv => ReadyMeansReadable
  BY DEF DaemonInv, ReadyInv, ReadyMeansReadable
<1> QED BY <1>1, DaemonInvariant, PTL

-----------------------------------------------------------------------------
(***************************************************************************)
(* While clients are patient: those waiting, and what they are told.       *)
(***************************************************************************)

(* While nobody has hung up or asked again, processMessage only goes on    *)
(* with a first message, which it has just read.                           *)
LEMMA FirstOnly ==
  ASSUME DaemonInv, Patient', daemon = "up",
         NEW fd \in Fds, NEW m \in Message, NEW shut, Taken(fd, m, shut)
  PROVE  /\ shut = {} /\ owner[fd] \in unread /\ owner[fd] \in Peers /\ m = MessageOf(owner[fd])
         /\ unread' = unread \ {owner[fd]} /\ UNCHANGED <<stage, want>> /\ Heard \subseteq Heard'
<1>1. UNCHANGED <<stage, want>> /\ owner[fd] \in Peers
  BY DEF Taken
<1>2. ~TakesFurther(fd) /\ stage[owner[fd]] # "left"
  BY <1>1 DEF TakesFurther, Patient, Left
<1> QED BY <1>1, <1>2 DEF Taken, Heard

(* Nor does it close a connection without an answer.                       *)
LEMMA NoneIgnored ==
  ASSUME DaemonInv, Patient', NEW fd \in Fds PROVE ~Ignored(fd)
BY DEF Ignored, TakesFurther, Patient, Left

(* Those waiting survive a message: a descriptor is closed only after its  *)
(* client was answered and has left the queue, with the rest of it.        *)
LEMMA QueueMessage ==
  ASSUME DaemonInv, QueueInv, Patient, Patient', daemon = "up",
         NEW fd \in Fds, NEW m \in Message, NEW shut, Taken(fd, m, shut),
         Outcome(fd, m, shut)
  PROVE  QueueInv'
<1>1. SUFFICES ASSUME daemon' = "up" PROVE QueueInv'
  BY DEF QueueInv
<1>2. /\ shut = {} /\ owner[fd] \in unread /\ UNCHANGED <<stage, want>> /\ Heard \subseteq Heard'
      /\ unread' = unread \ {owner[fd]}
  BY FirstOnly
<1>3. /\ m.bucket \in Buckets /\ TypeOK
      /\ \A b \in Buckets : \A e \in Chain(b) : e \in Entry /\ e.queue \in Seq(Fds)
                                 /\ \A i \in DOMAIN e.queue : e.queue[i] \in Fds
  BY ChainTyped DEF DaemonInv, Entry, Message
<1>4. \A b \in Buckets : \A e \in Chain(b) : \A i \in DOMAIN e.queue :
        /\ owner[e.queue[i]] \in Heard /\ want[owner[e.queue[i]]] = e.sid
        /\ \A b2 \in Buckets : \A f \in Chain(b2) : \A j \in DOMAIN f.queue :
             e.queue[i] = f.queue[j] => b = b2 /\ e = f /\ i = j
  BY DEF QueueInv
<1>5. \A b \in Buckets : \A e \in Chain(b) : \A i \in DOMAIN e.queue : e.queue[i] # fd
  BY <1>2, <1>4 DEF Heard
<1>6. ASSUME NEW fds, Close(fds),
             \A b \in Buckets : \A e \in Chain(b)' : \A i \in DOMAIN e.queue :
               e \in Chain(b) /\ e.queue[i] \notin fds
      PROVE  QueueInv'
  <2>1. \A g \in Fds : g \notin fds => owner'[g] = owner[g]
    BY <1>6 DEF Close
  <2>2. ASSUME NEW b \in Buckets, NEW e \in Chain(b)', NEW i \in DOMAIN e.queue
        PROVE  /\ owner'[e.queue[i]] \in Heard' /\ want'[owner'[e.queue[i]]] = e.sid
               /\ \A b2 \in Buckets : \A f \in Chain(b2)' : \A j \in DOMAIN f.queue :
                    e.queue[i] = f.queue[j] => b = b2 /\ e = f /\ i = j
    <3>1. e \in Chain(b) /\ e.queue[i] \notin fds /\ e.queue[i] \in Fds
      BY <1>3, <1>6
    <3>2. owner'[e.queue[i]] = owner[e.queue[i]]
      BY <2>1, <3>1
    <3> QED BY <1>2, <1>4, <1>6, <3>1, <3>2
  <2> QED BY <2>2 DEF QueueInv
<1>7. CASE Halted(fd, m, shut)
  BY <1>1, <1>7 DEF Halted
<1>8. CASE Replied(fd, m, shut)
  <2>1. UNCHANGED table /\ Close({fd})
    BY <1>8 DEF Replied
  <2>2. \A b \in Buckets : Chain(b)' = Chain(b)
    BY <2>1 DEF Chain
  <2> QED BY <1>5, <1>6, <2>1, <2>2
<1>9. CASE Opened(fd, m, shut)
  <2>1. PICK e0 \in Of(m) : /\ Rewritten(m, {OpenAt(e0, m.port)}) /\ Close(ToSet(e0.queue) \cup {fd})
    BY <1>9 DEF Opened
  <2>2. OpenAt(e0, m.port).queue = << >> /\ e0 \in Chain(m.bucket) /\ e0.sid = m.sid
    <3>1. e0 \in Entry /\ m.port \in Servers \cup {NoPort}
      BY <1>3 DEF Of, Message
    <3> QED BY <3>1, EntryOpened DEF Of
  <2>3. ASSUME NEW b \in Buckets, NEW e \in Chain(b)', NEW i \in DOMAIN e.queue
        PROVE  e \in Chain(b) /\ e.queue[i] \notin ToSet(e0.queue) \cup {fd}
    <3>1. e \in Chain(b) /\ (b = m.bucket => e.sid # m.sid)
      BY <2>1, <2>2, <2>3 DEF Rewritten
    <3>2. \A j \in DOMAIN e0.queue : e.queue[i] # e0.queue[j]
      BY <1>3, <1>4, <2>2, <3>1
    <3> QED BY <1>5, <3>1, <3>2 DEF ToSet
  <2> QED BY <1>6, <2>1, <2>3
<1>10. CASE Deleted(fd, m, shut)
  <2>1. PICK e0 \in Of(m) : Rewritten(m, {}) /\ Close({fd} \cup ToSet(e0.queue))
    BY <1>10 DEF Deleted
  <2>2. e0 \in Chain(m.bucket) /\ e0.sid = m.sid
    BY DEF Of
  <2>3. ASSUME NEW b \in Buckets, NEW e \in Chain(b)', NEW i \in DOMAIN e.queue
        PROVE  e \in Chain(b) /\ e.queue[i] \notin {fd} \cup ToSet(e0.queue)
    <3>1. e \in Chain(b) /\ (b = m.bucket => e.sid # m.sid)
      BY <2>1, <2>3 DEF Rewritten
    <3>2. \A j \in DOMAIN e0.queue : e.queue[i] # e0.queue[j]
      BY <1>3, <1>4, <2>2, <3>1
    <3> QED BY <1>5, <3>1, <3>2 DEF ToSet
  <2> QED BY <1>6, <2>1, <2>3
<1>11. ASSUME Close(shut), m.type = "GET_SESSION"
       PROVE  /\ \A g \in Fds : owner'[g] = owner[g]
              /\ owner[fd] \in Heard' /\ want[owner[fd]] = m.sid
  <2>1. \A g \in Fds : owner'[g] = owner[g]
    BY <1>2, <1>11 DEF Close
  <2>2. owner[fd] \in Clients /\ want[owner[fd]] = m.sid
    BY <1>2, <1>11, NewOrOld DEF DaemonInv
  <2>3. stage[owner[fd]] \in {"sent", "left"}
    BY <1>2 DEF DaemonInv, PeerInv
  <2> QED BY <1>2, <2>1, <2>2, <2>3 DEF Heard
<1>12. CASE Created(fd, m, shut)
  <2> DEFINE new == [sid |-> m.sid, port |-> NoPort, queue |-> <<fd>>]
  <2>1. /\ \A g \in Fds : owner'[g] = owner[g]
        /\ owner[fd] \in Heard' /\ want[owner[fd]] = m.sid
    BY <1>11, <1>12 DEF Created
  <2>2. Rewritten(m, {new}) /\ new.sid = m.sid /\ new.queue = <<fd>>
    BY <1>12 DEF Created
  <2> HIDE DEF new
  <2>3. \A b \in Buckets : \A e \in Chain(b)' : e \in Chain(b) \/ (b = m.bucket /\ e = new)
    BY <2>2 DEF Rewritten
  <2>4. \A i \in DOMAIN new.queue : i = 1 /\ new.queue[i] = fd
    BY <2>2
  <2>5. ASSUME NEW b \in Buckets, NEW e \in Chain(b)', NEW i \in DOMAIN e.queue
        PROVE  /\ owner'[e.queue[i]] \in Heard' /\ want'[owner'[e.queue[i]]] = e.sid
               /\ \A b2 \in Buckets : \A f \in Chain(b2)' : \A j \in DOMAIN f.queue :
                    e.queue[i] = f.queue[j] => b = b2 /\ e = f /\ i = j
    <3>1. CASE e \in Chain(b)
      <4>1. owner'[e.queue[i]] = owner[e.queue[i]]
        BY <1>3, <2>1, <3>1
      <4> QED BY <1>2, <1>4, <1>5, <2>3, <2>4, <3>1, <4>1
    <3>2. CASE b = m.bucket /\ e = new
      <4>1. e.queue[i] = fd /\ i = 1
        BY <2>4, <3>2
      <4> QED BY <1>2, <1>5, <2>1, <2>2, <2>3, <2>4, <3>2, <4>1
    <3> QED BY <2>3, <3>1, <3>2
  <2> QED BY <2>5 DEF QueueInv
<1>13. CASE Joined(fd, m, shut)
  <2>1. PICK e0 \in Of(m) : Rewritten(m, {[e0 EXCEPT !.queue = Append(@, fd)]}) /\ Close(shut)
                            /\ m.type = "GET_SESSION"
    BY <1>13 DEF Joined
  <2>2. /\ \A g \in Fds : owner'[g] = owner[g]
        /\ owner[fd] \in Heard' /\ want[owner[fd]] = m.sid
    BY <1>11, <2>1
  <2>3. e0 \in Chain(m.bucket) /\ e0.sid = m.sid /\ e0 \in Entry /\ e0.queue \in Seq(Fds)
    BY <1>3 DEF Of
  <2> DEFINE new == [e0 EXCEPT !.queue = Append(@, fd)]
             n == Len(e0.queue)
  <2>4. new.sid = m.sid /\ new.queue = Append(e0.queue, fd)
    BY <2>3 DEF Entry
  <2>5. Rewritten(m, {new})
    BY <2>1
  <2> HIDE DEF new
  <2>6. /\ n \in Nat /\ DOMAIN e0.queue = 1 .. n /\ DOMAIN new.queue = 1 .. n + 1
        /\ new.queue[n + 1] = fd /\ \A i \in 1 .. n : new.queue[i] = e0.queue[i]
    BY <2>3, <2>4
  <2>7. \A i \in DOMAIN new.queue : \/ i \in DOMAIN e0.queue /\ new.queue[i] = e0.queue[i]
                                    \/ i = n + 1 /\ new.queue[i] = fd
    BY <2>6, LastOrBefore
  <2>8. \A b \in Buckets : \A e \in Chain(b)' :
          \/ e \in Chain(b) /\ (b = m.bucket => e # e0)
          \/ b = m.bucket /\ e = new
    BY <2>3, <2>5 DEF Rewritten
  <2> HIDE DEF n
  <2>9. ASSUME NEW b \in Buckets, NEW e \in Chain(b)', NEW i \in DOMAIN e.queue
        PROVE  /\ owner'[e.queue[i]] \in Heard' /\ want'[owner'[e.queue[i]]] = e.sid
               /\ \A b2 \in Buckets : \A f \in Chain(b2)' : \A j \in DOMAIN f.queue :
                    e.queue[i] = f.queue[j] => b = b2 /\ e = f /\ i = j
    <3>1. CASE e \in Chain(b) /\ (b = m.bucket => e # e0)
      <4>1. owner'[e.queue[i]] = owner[e.queue[i]]
        BY <1>3, <2>2, <3>1
      <4>2. ASSUME NEW b2 \in Buckets, NEW f \in Chain(b2)', NEW j \in DOMAIN f.queue,
                   e.queue[i] = f.queue[j]
            PROVE  b = b2 /\ e = f /\ i = j
        <5>1. CASE f \in Chain(b2)
          BY <1>4, <3>1, <4>2, <5>1
        <5>2. CASE b2 = m.bucket /\ f = new
          BY <1>3, <1>4, <1>5, <2>3, <2>7, <3>1, <4>2, <5>2
        <5> QED BY <2>8, <5>1, <5>2
      <4> QED BY <1>2, <1>4, <3>1, <4>1, <4>2
    <3>2. CASE b = m.bucket /\ e = new
      <4>1. owner'[e.queue[i]] \in Heard' /\ want'[owner'[e.queue[i]]] = e.sid
        <5>1. CASE i \in DOMAIN e0.queue /\ new.queue[i] = e0.queue[i]
          BY <1>2, <1>3, <1>4, <2>2, <2>3, <2>4, <3>2, <5>1
        <5>2. CASE i = n + 1 /\ new.queue[i] = fd
          BY <1>2, <2>2, <2>4, <3>2, <5>2
        <5> QED BY <2>7, <3>2, <5>1, <5>2
      <4>2. ASSUME NEW b2 \in Buckets, NEW f \in Chain(b2)', NEW j \in DOMAIN f.queue,
                   e.queue[i] = f.queue[j]
            PROVE  b = b2 /\ e = f /\ i = j
        <5>1. CASE f \in Chain(b2) /\ (b2 = m.bucket => f # e0)
          BY <1>3, <1>4, <1>5, <2>3, <2>7, <3>2, <4>2, <5>1
        <5>2. CASE b2 = m.bucket /\ f = new
          <6>1. i = j
            BY <1>3, <1>4, <1>5, <2>3, <2>7, <3>2, <4>2, <5>2
          <6> QED BY <3>2, <5>2, <6>1
        <5> QED BY <2>8, <5>1, <5>2
      <4> QED BY <4>1, <4>2
    <3> QED BY <2>8, <3>1, <3>2
  <2> QED BY <2>9 DEF QueueInv
<1> QED BY <1>7, <1>8, <1>9, <1>10, <1>12, <1>13 DEF Outcome

(* Nobody who hung up comes back, and what was read stays read.            *)
LEMMA PatientStays == DaemonInv /\ [Next]_vars /\ Patient' => Patient
<1>0. [Next]_vars => seen \subseteq seen'
  BY DEF Next, DaemonStep, Poll, ProcessConnection, ProcessMessage, ReadMessage, ReadFurther,
         ReadNothing, Connect, SendMessage, SendFurther, Leave, Die, vars, peerVars
<1> SUFFICES ASSUME DaemonInv, [Next]_vars, NEW p \in Peers, stage[p] = "left"
             PROVE  stage'[p] = "left"
  BY <1>0 DEF Patient, Left
<1>1. stage \in [Peers -> {"idle", "connected", "sent", "left"}]
  BY DEF DaemonInv, TypeOK
<1>2. CASE DaemonStep
  BY <1>2 DEF DaemonStep, Poll, ProcessConnection, ProcessMessage, peerVars
<1>3. ASSUME NEW q \in Peers, Connect(q) PROVE stage'[p] = "left"
  BY <1>1, <1>3 DEF Connect
<1>4. ASSUME NEW c \in Interactive, SendMessage(c) \/ Leave(c) PROVE stage'[p] = "left"
  BY <1>1, <1>4 DEF SendMessage, Leave
<1>5. ASSUME NEW n \in Mortal, Die(n) PROVE stage'[p] = "left"
  BY <1>5 DEF Die
<1>6. CASE UNCHANGED vars
  BY <1>6 DEF vars, peerVars
<1>7. ASSUME NEW c \in Interactive, NEW s \in Sids \cup {NoSid}, SendFurther(c, s)
      PROVE  stage'[p] = "left"
  BY <1>7 DEF SendFurther
<1> QED BY <1>2, <1>3, <1>4, <1>5, <1>6, <1>7 DEF Next

(* Those waiting survive a step that leaves table and requests alone and   *)
(* takes no connection from a client that was heard.                       *)
LEMMA QueueFrame ==
  ASSUME DaemonInv, QueueInv, Patient, UNCHANGED <<daemon, table, want>>, Heard \subseteq Heard',
         \A fd \in Fds : owner[fd] \in Heard => owner'[fd] = owner[fd]
  PROVE  QueueInv'
<1>1. SUFFICES ASSUME daemon = "up" PROVE QueueInv'
  BY DEF QueueInv
<1>2. \A b \in Buckets : \A e \in Chain(b) : \A i \in DOMAIN e.queue :
        /\ owner[e.queue[i]] \in Heard /\ want[owner[e.queue[i]]] = e.sid
        /\ \A b2 \in Buckets : \A f \in Chain(b2) : \A j \in DOMAIN f.queue :
             e.queue[i] = f.queue[j] => b = b2 /\ e = f /\ i = j
  BY <1>1 DEF QueueInv
<1>3. \A b \in Buckets : Chain(b)' = Chain(b)
  BY DEF Chain
<1>4. \A b \in Buckets : \A e \in Chain(b) : \A i \in DOMAIN e.queue : e.queue[i] \in Fds
  BY ChainTyped DEF DaemonInv, Entry
<1>5. \A b \in Buckets : \A e \in Chain(b) : \A i \in DOMAIN e.queue :
        owner'[e.queue[i]] = owner[e.queue[i]]
  BY <1>2, <1>4
<1> QED BY <1>2, <1>3, <1>5 DEF QueueInv

(* What peers do takes no request back that was read.                      *)
LEMMA HeardOthers ==
  /\ \A p \in Peers : DaemonInv /\ Connect(p) => Heard \subseteq Heard'
  /\ \A c \in Interactive : DaemonInv /\ (SendMessage(c) \/ Leave(c)) => Heard \subseteq Heard'
<1>1. ASSUME NEW p \in Peers, DaemonInv, Connect(p) PROVE Heard \subseteq Heard'
  <2>1. \A c \in Heard : c \in Peers /\ c # p
    BY <1>1 DEF Heard, Peers, Connect
  <2> QED BY <1>1, <2>1 DEF Connect, Heard, DaemonInv, TypeOK
<1>2. ASSUME NEW c \in Interactive, DaemonInv, SendMessage(c) \/ Leave(c) PROVE Heard \subseteq Heard'
  <2>1. \A d \in Heard : d \in Peers /\ stage[d] # "connected"
    BY DEF Heard, Peers
  <2> QED BY <1>2, <2>1 DEF SendMessage, Leave, Heard, DaemonInv, TypeOK
<1> QED BY <1>1, <1>2

(* Those waiting survive every step.                                       *)
LEMMA QueueStep == DaemonInv /\ QueueInv /\ [Next]_vars => QueueInv'
<1> SUFFICES ASSUME DaemonInv, QueueInv, [Next]_vars, Patient' PROVE QueueInv'
  BY DEF QueueInv
<1>1. Patient
  BY PatientStays
<1>2. CASE daemon = "up" /\ ProcessMessage
  <2>1. PICK fd \in Fds : \/ Ignored(fd)
                          \/ \E m \in Message, shut \in {{}, {fd}} :
                               Taken(fd, m, shut) /\ Dispatch(fd, m, shut)
    BY <1>2, MessageCases DEF DaemonInv
  <2>2. ~Ignored(fd)
    BY NoneIgnored
  <2>3. PICK m \in Message, shut \in {{}, {fd}} : Taken(fd, m, shut) /\ Dispatch(fd, m, shut)
    BY <2>1, <2>2
  <2>4. TypeOK /\ Distinct
    BY DEF DaemonInv, ChainInv
  <2>5. Outcome(fd, m, shut)
    BY <2>3, <2>4, DispatchOutcome DEF Outcome
  <2> QED BY <1>1, <1>2, <2>3, <2>5, QueueMessage
<1>3. CASE daemon = "up" /\ Poll
  <2>1. UNCHANGED <<daemon, table, owner, stage, unread, want>>
    BY <1>3 DEF Poll, peerVars
  <2> QED BY <1>1, <2>1, QueueFrame DEF Heard
<1>4. CASE daemon = "up" /\ ProcessConnection
  <2>1. UNCHANGED <<daemon, table, stage, unread, want>>
    BY <1>4 DEF ProcessConnection, peerVars
  <2> DEFINE f == Min({g \in Fds : owner[g] = NoPeer})
  <2>2. owner' = [owner EXCEPT ![f] = Head(backlog)]
    BY <1>4 DEF ProcessConnection
  <2>3. backlog # << >>
    <3>1. at \in DOMAIN pollset /\ pollset[at].ready /\ pollset[at].fd = Listener
          /\ \A i \in at .. Len(pollset) : pollset[i].ready => Readable(pollset[i].fd)
      BY <1>4 DEF ProcessConnection, DaemonInv, ReadyInv
    <3>2. at \in at .. Len(pollset)
      BY <3>1 DEF DaemonInv, TypeOK
    <3> QED BY <3>1, <3>2 DEF Readable
  <2>4. Head(backlog) \in Peers /\ \A fd \in Fds : owner[fd] # Head(backlog)
    BY <2>3 DEF DaemonInv, TypeOK, ConnInv
  <2>5. f \in Fds /\ owner[f] = NoPeer
    BY <2>4, FreeDescriptor DEF DaemonInv
  <2> HIDE DEF f
  <2>6. \A fd \in Fds : owner[fd] \in Heard => owner'[fd] = owner[fd]
    BY <2>2, <2>5, PeerAssumption DEF Heard, Peers, DaemonInv, TypeOK
  <2>7. Heard \subseteq Heard'
    BY <2>1 DEF Heard
  <2> QED BY <1>1, <2>1, <2>6, <2>7, QueueFrame
<1>5. CASE \E p \in Peers : Connect(p)
  <2>1. UNCHANGED <<daemon, table, owner, want>> /\ Heard \subseteq Heard'
    BY <1>5, HeardOthers DEF Connect, loopVars
  <2> QED BY <1>1, <2>1, QueueFrame
<1>6. CASE \E c \in Interactive : SendMessage(c) \/ Leave(c)
  <2>1. UNCHANGED <<daemon, table, owner, want>> /\ Heard \subseteq Heard'
    BY <1>6, HeardOthers DEF SendMessage, Leave, loopVars
  <2> QED BY <1>1, <2>1, QueueFrame
<1>7. CASE (\E n \in Mortal : Die(n)) \/ UNCHANGED vars
  <2>1. UNCHANGED <<daemon, table, owner, want, stage, unread>>
    BY <1>7 DEF Die, vars, loopVars, peerVars
  <2> QED BY <1>1, <2>1, QueueFrame DEF Heard
<1>8. CASE \E c \in Interactive : \E s \in Sids \cup {NoSid} : SendFurther(c, s)
  <2>1. UNCHANGED <<daemon, table, owner, want, stage, unread>>
    BY <1>8 DEF SendFurther, loopVars
  <2> QED BY <1>1, <2>1, QueueFrame DEF Heard
<1> QED BY <1>2, <1>3, <1>4, <1>5, <1>6, <1>7, <1>8 DEF Next, DaemonStep

(* Answers stay right: the port in an entry is that of a server forked for *)
(* its identifier, and everyone told it asked for that identifier.         *)
LEMMA AnswerStep == DaemonInv /\ QueueInv /\ RightAnswers /\ [Next]_vars => RightAnswers'
<1> SUFFICES ASSUME DaemonInv, QueueInv, RightAnswers, [Next]_vars, Patient',
                    NEW c \in Clients, got'[c] # NoPort
             PROVE  sid'[got'[c]] = want'[c]
  BY DEF RightAnswers
<1>1. Patient
  BY PatientStays
<1>2. \A d \in Clients : got[d] # NoPort =>
        sid[got[d]] = want[d] /\ sid[got[d]] # NoSid /\ got[d] \in Servers
  <2> SUFFICES ASSUME NEW d \in Clients, got[d] # NoPort
               PROVE  sid[got[d]] = want[d] /\ sid[got[d]] # NoSid /\ got[d] \in Servers
    OBVIOUS
  <2>1. want[d] \in Sids /\ got[d] \in Servers
    BY DaemonAssumption DEF DaemonInv, TypeOK
  <2> QED BY <1>1, <2>1, DaemonAssumption DEF RightAnswers
<1>3. CASE UNCHANGED <<sid, got, want>>
  BY <1>2, <1>3
<1>4. CASE daemon = "up" /\ ProcessMessage
  <2>1. PICK fd \in Fds : \/ Ignored(fd)
                          \/ \E m \in Message, shut \in {{}, {fd}} :
                               Taken(fd, m, shut) /\ Dispatch(fd, m, shut)
    BY <1>4, MessageCases DEF DaemonInv
  <2>2. ~Ignored(fd)
    BY NoneIgnored
  <2>3. PICK m \in Message, shut \in {{}, {fd}} : Taken(fd, m, shut) /\ Dispatch(fd, m, shut)
    BY <2>1, <2>2
  <2>4. Outcome(fd, m, shut)
    <3>1. TypeOK /\ Distinct
      BY DEF DaemonInv, ChainInv
    <3> QED BY <2>3, <3>1, DispatchOutcome DEF Outcome
  <2>5. /\ TypeOK /\ PeerInv /\ ChainInv /\ LastInv /\ ForkInv /\ m.bucket \in Buckets /\ m.sid \in Sids
    BY DEF DaemonInv, Message
  <2>6. want' = want
    BY <2>3 DEF Taken
  <2>7. \A n \in Servers : sid[n] # NoSid => sid'[n] = sid[n]
    <3>1. sid \in [Servers -> Sids \cup {NoSid}]
      BY <2>5 DEF TypeOK
    <3> QED BY <1>4, <2>3, <2>4, <2>5, <3>1, OutcomeForks
  <2>8. CASE got'[c] = got[c]
    BY <1>2, <2>6, <2>7, <2>8
  <2>9. ASSUME NEW e \in Of(m), shut = {}, m.type = "GET_SESSION", owner[fd] = c,
               e.port # NoPort, got'[c] = e.port
        PROVE  sid'[got'[c]] = want[c]
    <3>1. e.port \in Servers /\ sid[e.port] = m.sid
      BY <2>5, <2>9, ChainTyped DEF ChainInv, Of, Entry
    <3>2. want[c] = m.sid
      <4>1. owner[fd] \in unread /\ m = MessageOf(owner[fd])
        BY <1>4, <2>3, FirstOnly
      <4> QED BY <2>9, <4>1 DEF MessageOf, Request
    <3> QED BY <2>5, <2>7, <2>9, <3>1, <3>2, DaemonAssumption
  <2>10. ASSUME NEW e \in Of(m), m.type = "SET_SESSION", got'[c] = m.port,
                NEW g \in ToSet(e.queue), owner[g] = c
         PROVE  sid'[got'[c]] = want[c]
    <3>1. m.port \in Servers /\ sid[m.port] = m.sid
      <4>1. Of(m) # {}
        OBVIOUS
      <4> QED BY <1>4, <2>3, <2>5, <2>10, <4>1, NewOrOld
    <3>2. e \in Chain(m.bucket) /\ e.sid = m.sid
      BY DEF Of
    <3>3. PICK i \in DOMAIN e.queue : g = e.queue[i]
      BY DEF ToSet
    <3>4. want[c] = m.sid
      BY <1>1, <1>4, <2>5, <2>10, <3>2, <3>3 DEF QueueInv
    <3> QED BY <2>5, <2>7, <2>10, <3>1, <3>4, DaemonAssumption
  <2>11. \/ got'[c] = got[c]
         \/ \E e \in Of(m) :
              /\ shut = {}
              /\ \/ /\ m.type = "GET_SESSION" /\ owner[fd] = c
                    /\ e.port # NoPort /\ got'[c] = e.port
                 \/ /\ m.type = "SET_SESSION" /\ got'[c] = m.port
                    /\ \E g \in ToSet(e.queue) : owner[g] = c
    BY <1>4, <2>3, <2>4, <2>5, WhoIsTold
  <2> QED BY <2>6, <2>8, <2>9, <2>10, <2>11
<1> QED BY <1>3, <1>4 DEF Next, DaemonStep, Poll, ProcessConnection, Connect, SendMessage, Leave,
                          SendFurther, Die, vars, peerVars

(* While nobody hangs up or asks again, a client is told the port of a server of the     *)
(* session it asked for, one that has checked in, although replies go to   *)
(* descriptors kept in the entry from an earlier pass of the loop          *)
(* (msg_set_session, dsm_daemon.c).                                        *)
THEOREM AnswersRight == Spec => []AnswerIsRight
<1>1. Init => QueueInv /\ RightAnswers
  <2>1. ASSUME Init, NEW b \in Buckets PROVE Chain(b) = {}
    BY <2>1 DEF Init, Chain, ToSet
  <2> QED BY <2>1 DEF QueueInv, RightAnswers, Init
<1>2. DaemonInv /\ DaemonInv' /\ (QueueInv /\ RightAnswers) /\ [Next]_vars => (QueueInv /\ RightAnswers)'
  BY QueueStep, AnswerStep
<1>3. DaemonInv /\ RightAnswers => AnswerIsRight
  <2> SUFFICES ASSUME DaemonInv, RightAnswers, Patient, NEW c \in Clients, got[c] # NoPort
               PROVE  sid[got[c]] = want[c] /\ stage[<<got[c], "SET">>] = "sent"
    BY DEF AnswerIsRight
  <2>1. got[c] \in Servers /\ Read(<<got[c], "SET">>)
    BY DEF DaemonInv, TypeOK, PeerInv
  <2>2. <<got[c], "SET">> \in Servers \X {"SET", "DEL"}
    BY <2>1
  <2> QED BY <2>1, <2>2 DEF RightAnswers, Read, DaemonInv, PeerInv
<1> QED BY <1>1, <1>2, <1>3, DaemonInvariant, PTL DEF Spec

-----------------------------------------------------------------------------
(***************************************************************************)
(* The servers and the table.                                              *)
(***************************************************************************)

(* Server n checks in or reports the end of its session, on fd.            *)
Reports(n, fd, m) ==
  /\ Active(n) /\ sid[n] = m.sid
  /\ \/ /\ m.type = "SET_SESSION" /\ owner[fd] = <<n, "SET">>
        /\ ~Read(<<n, "SET">>) /\ m.port = n
     \/ /\ m.type = "DEL_SESSION" /\ owner[fd] = <<n, "DEL">>
        /\ Read(<<n, "SET">>)

(* What the daemon has read after a message: one more of a server's if it  *)
(* is new and not a client's. A message always carries the bucket of its   *)
(* identifier, and one of a server speaks of its own session, which is     *)
(* active.                                                                 *)
LEMMA ReadAfter ==
  ASSUME DaemonInv, ActiveInv, daemon = "up",
         NEW fd \in Fds, NEW m \in Message, NEW shut, Taken(fd, m, shut)
  PROVE  /\ m.bucket = Hash[m.sid] /\ m.sid \in Sids /\ m.bucket \in Buckets
         /\ \A n \in Servers : \A k \in {"SET", "DEL"} :
              Read(<<n, k>>)' <=> Read(<<n, k>>) \/ (shut = {} /\ owner[fd] = <<n, k>>)
         /\ m.type = "GET_SESSION" =>
              \A n \in Servers : \A k \in {"SET", "DEL"} : Read(<<n, k>>)' <=> Read(<<n, k>>)
         /\ m.type # "GET_SESSION" /\ shut = {} =>
              \E n \in Servers : Reports(n, fd, m)
<1> USE DEF DaemonInv
<1>0. m.sid \in Sids /\ m.bucket \in Buckets /\ m.type \in {"GET_SESSION", "SET_SESSION", "DEL_SESSION"}
  BY DEF Message
<1>1. CASE /\ shut = {} /\ owner[fd] \in unread /\ m = MessageOf(owner[fd])
           /\ unread' = unread \ {owner[fd]}
  <2>0. PICK p \in unread : p = owner[fd]
    BY <1>1
  <2>1. /\ p \in Clients => m.type = "GET_SESSION" /\ m.bucket = Hash[m.sid]
        /\ p \notin Clients =>
              /\ p[1] \in Servers /\ m.sid = sid[p[1]] /\ m.bucket = Hash[m.sid]
              /\ \/ p = <<p[1], "SET">> /\ m.type = "SET_SESSION" /\ m.port = p[1]
                 \/ p = <<p[1], "DEL">> /\ m.type = "DEL_SESSION"
    BY <1>1, <2>0, SentMessages
  <2>2. stage' = stage /\ stage[p] # "idle"
    BY DEF Taken, PeerInv
  <2>3. \A n \in Servers : \A k \in {"SET", "DEL"} :
          Read(<<n, k>>)' <=> Read(<<n, k>>) \/ (shut = {} /\ owner[fd] = <<n, k>>)
    BY <1>1, <2>0, <2>2 DEF Read
  <2>4. m.type = "GET_SESSION" => \A n \in Servers : \A k \in {"SET", "DEL"} : p # <<n, k>>
    <3>1. \A n \in Servers : \A k \in {"SET", "DEL"} : <<n, k>> \notin Clients
      BY PeerAssumption
    <3> QED BY <2>1, <3>1
  <2>5. ASSUME m.type # "GET_SESSION"
        PROVE  \E n \in Servers : Reports(n, fd, m)
    <3>1. PICK n \in Servers : n = p[1] /\ m.sid = sid[n]
                               /\ \/ p = <<n, "SET">> /\ m.type = "SET_SESSION" /\ m.port = n
                                  \/ p = <<n, "DEL">> /\ m.type = "DEL_SESSION"
      BY <2>1, <2>5
    <3>2. ~Read(p)
      BY DEF Read
    <3>3. stage[<<n, "DEL">>] # "idle" => Read(<<n, "SET">>)
      BY DEF PeerInv
    <3>4. Read(<<n, "DEL">>) => stage[<<n, "DEL">>] # "idle"
      BY DEF Read
    <3>5. sid[n] # NoSid
      BY <1>0, <3>1, DaemonAssumption
    <3> QED BY <2>0, <2>2, <3>1, <3>2, <3>3, <3>4, <3>5 DEF Active, Reports
  <2>6. m.bucket = Hash[m.sid]
    BY <2>1
  <2>7. m.type = "GET_SESSION" =>
          \A n \in Servers : \A k \in {"SET", "DEL"} : Read(<<n, k>>)' <=> Read(<<n, k>>)
    BY <2>0, <2>3, <2>4
  <2> QED BY <1>0, <2>3, <2>5, <2>6, <2>7
<1>2. CASE /\ shut = {fd} /\ m = last /\ last # NoMsg /\ UNCHANGED unread
  <2>1. stage' = stage
    BY DEF Taken
  <2>2. \A n \in Servers : \A k \in {"SET", "DEL"} : Read(<<n, k>>)' <=> Read(<<n, k>>)
    BY <1>2, <2>1 DEF Read
  <2>3. m.bucket = Hash[m.sid]
    BY <1>2 DEF ActiveInv
  <2> QED BY <1>0, <1>2, <2>2, <2>3
<1>3. CASE /\ shut = {} /\ UNCHANGED unread /\ TakesFurther(fd)
           /\ \E s \in Sids : m = Request(s)
  <2>1. m.type = "GET_SESSION" /\ m.bucket = Hash[m.sid]
    BY <1>3, RequestIs
  <2>2. \A n \in Servers : \A k \in {"SET", "DEL"} : Read(<<n, k>>)' <=> Read(<<n, k>>)
    BY <1>3 DEF Read, Taken
  <2>3. owner[fd] \in Clients
    <3>1. PICK i \in DOMAIN again : again[i].client = owner[fd]
      BY <1>3 DEF TakesFurther
    <3>2. again[i].client \in Interactive
      BY AgainTyped
    <3> QED BY <3>1, <3>2, DaemonAssumption
  <2>4. \A n \in Servers : \A k \in {"SET", "DEL"} : owner[fd] # <<n, k>>
    BY <2>3, PeerAssumption
  <2> QED BY <1>0, <2>1, <2>2, <2>4
<1> QED BY <1>1, <1>2, <1>3 DEF Taken

(* Table and active servers stay in step over a message: an entry is made  *)
(* with its server, gets that server's port, and goes with it.             *)
LEMMA ActiveMessage ==
  ASSUME DaemonInv, ActiveInv, daemon = "up",
         NEW fd \in Fds, NEW m \in Message, NEW shut, Taken(fd, m, shut),
         Outcome(fd, m, shut)
  PROVE  ActiveInv'
<1>1. /\ m.bucket = Hash[m.sid] /\ m.sid \in Sids /\ m.bucket \in Buckets
      /\ \A n \in Servers : \A k \in {"SET", "DEL"} :
              Read(<<n, k>>)' <=> Read(<<n, k>>) \/ (shut = {} /\ owner[fd] = <<n, k>>)
      /\ m.type = "GET_SESSION" =>
              \A n \in Servers : \A k \in {"SET", "DEL"} : Read(<<n, k>>)' <=> Read(<<n, k>>)
      /\ m.type # "GET_SESSION" /\ shut = {} =>
              \E n \in Servers : Reports(n, fd, m)
  BY ReadAfter
<1>2. \A n \in Servers : <<n, "SET">> \in Servers \X {"SET", "DEL"} /\ <<n, "DEL">> \in Servers \X {"SET", "DEL"}
  OBVIOUS
<1>3. /\ \A k, n \in Servers : Active(k) /\ Active(n) /\ sid[k] = sid[n] => k = n
      /\ \A s \in Sids : (\E e \in Chain(Hash[s]) : e.sid = s)
                            <=> \E n \in Servers : Active(n) /\ sid[n] = s
      /\ \A b \in Buckets : \A e \in Chain(b) :
            /\ b = Hash[e.sid]
            /\ \A n \in Servers : Active(n) /\ sid[n] = e.sid =>
                 e.port = IF Read(<<n, "SET">>) THEN n ELSE NoPort
  BY DEF ActiveInv, OneActive
<1>4. \A b \in Buckets : \A e \in Chain(b) : e \in Entry /\ e.sid \in Sids
  BY ChainTyped DEF DaemonInv, Entry
<1>5. last' = m
  BY DEF Taken
<1>6. \A e \in Of(m) : e \in Chain(m.bucket) /\ e.sid = m.sid
  BY DEF Of
<1>7. ASSUME UNCHANGED sid PROVE \A n \in Servers : Active(n)' => Active(n)
  BY <1>1, <1>2, <1>7 DEF Active
<1>8. ASSUME UNCHANGED sid,
             NEW new, Rewritten(m, new), \A e \in new : e.sid = m.sid
      PROVE  /\ \A s \in Sids : s # m.sid =>
                  ((\E e \in Chain(Hash[s])' : e.sid = s) <=> (\E e \in Chain(Hash[s]) : e.sid = s))
             /\ \A b \in Buckets : \A e \in Chain(b)' :
                  (e \in Chain(b) /\ e.sid # m.sid) \/ (b = m.bucket /\ e \in new)
  <2>1. \A s \in Sids : Hash[s] \in Buckets
    BY DaemonAssumption
  <2>2. \A b \in Buckets : b # m.bucket => \A e \in Chain(b) : e.sid # m.sid
    BY <1>1, <1>3
  <2> QED BY <1>1, <1>8, <2>1, <2>2 DEF Rewritten
<1>9. CASE Halted(fd, m, shut)
  <2>1. daemon' # "up" /\ sid' = sid
    BY <1>9 DEF Halted
  <2> QED BY <1>3, <1>7, <2>1 DEF ActiveInv, OneActive
<1>10. ASSUME UNCHANGED sid, m.type = "GET_SESSION"
       PROVE  \A n \in Servers : /\ Active(n)' <=> Active(n)
                                 /\ Read(<<n, "SET">>)' <=> Read(<<n, "SET">>)
  BY <1>1, <1>2, <1>10 DEF Active
<1>11. CASE Replied(fd, m, shut)
  <2>1. UNCHANGED <<table, sid>> /\ m.type = "GET_SESSION"
    BY <1>11 DEF Replied
  <2>2. \A b \in Buckets : Chain(b)' = Chain(b)
    BY <2>1 DEF Chain
  <2>3. \A s \in Sids : Chain(Hash[s])' = Chain(Hash[s])
    BY <2>1 DEF Chain
  <2>4. \A n \in Servers : /\ Active(n)' <=> Active(n)
                           /\ Read(<<n, "SET">>)' <=> Read(<<n, "SET">>)
    BY <1>10, <2>1
  <2>5. OneActive'
    BY <1>3, <2>1, <2>4 DEF OneActive
  <2>6. \A s \in Sids : (\E e \in Chain(Hash[s])' : e.sid = s)
                            <=> \E n \in Servers : Active(n)' /\ sid'[n] = s
    <3> SUFFICES ASSUME NEW s \in Sids
                 PROVE  (\E e \in Chain(Hash[s])' : e.sid = s)
                            <=> \E n \in Servers : Active(n)' /\ sid'[n] = s
      OBVIOUS
    <3>1. Chain(Hash[s])' = Chain(Hash[s])
      BY <2>3
    <3>2. (\E e \in Chain(Hash[s]) : e.sid = s) <=> \E n \in Servers : Active(n) /\ sid[n] = s
      BY <1>3
    <3> QED BY <2>1, <2>4, <3>1, <3>2
  <2>7. \A b \in Buckets : \A e \in Chain(b)' :
          /\ b = Hash[e.sid]
          /\ \A n \in Servers : Active(n)' /\ sid'[n] = e.sid =>
               e.port = IF Read(<<n, "SET">>)' THEN n ELSE NoPort
    BY <1>3, <2>1, <2>2, <2>4
  <2> QED BY <1>1, <1>5, <2>5, <2>6, <2>7 DEF ActiveInv
<1>12. CASE Joined(fd, m, shut)
  <2>1. PICK e0 \in Of(m) : /\ m.type = "GET_SESSION" /\ UNCHANGED sid
                            /\ Rewritten(m, {[e0 EXCEPT !.queue = Append(@, fd)]})
    BY <1>12 DEF Joined
  <2>2. PICK f : /\ f = [e0 EXCEPT !.queue = Append(@, fd)]
                 /\ f.sid = m.sid /\ f.port = e0.port
    <3>1. e0 \in Entry /\ e0.sid = m.sid
      BY <1>1, <1>4, <1>6
    <3>2. /\ [e0 EXCEPT !.queue = Append(@, fd)].sid = e0.sid
          /\ [e0 EXCEPT !.queue = Append(@, fd)].port = e0.port
      BY <3>1 DEF Entry
    <3> QED BY <3>1, <3>2
  <2>3. Rewritten(m, {f})
    BY <2>1, <2>2
  <2>4. /\ \A s \in Sids : s # m.sid =>
             ((\E e \in Chain(Hash[s])' : e.sid = s) <=> (\E e \in Chain(Hash[s]) : e.sid = s))
        /\ \A b \in Buckets : \A e \in Chain(b)' :
             (e \in Chain(b) /\ e.sid # m.sid) \/ (b = m.bucket /\ e = f)
    <3>1. sid' = sid /\ \A e \in {f} : e.sid = m.sid
      BY <2>1, <2>2
    <3> HIDE <2>1, <2>2
    <3> QED BY <1>8, <2>3, <3>1
  <2>5. f \in Chain(m.bucket)'
    BY <2>3 DEF Rewritten
  <2>6. \A n \in Servers : /\ Active(n)' <=> Active(n)
                           /\ Read(<<n, "SET">>)' <=> Read(<<n, "SET">>)
    BY <1>10, <2>1
  <2>7. \A s \in Sids : (\E e \in Chain(Hash[s])' : e.sid = s)
                            <=> \E n \in Servers : Active(n)' /\ sid'[n] = s
    <3> SUFFICES ASSUME NEW s \in Sids
                 PROVE  (\E e \in Chain(Hash[s])' : e.sid = s)
                            <=> \E n \in Servers : Active(n)' /\ sid'[n] = s
      OBVIOUS
    <3>1. CASE s = m.sid
      BY <1>1, <1>3, <1>6, <2>1, <2>2, <2>5, <2>6, <3>1
    <3>2. CASE s # m.sid
      BY <1>3, <2>1, <2>4, <2>6, <3>2
    <3> QED BY <3>1, <3>2
  <2>8. ASSUME NEW b \in Buckets, NEW e \in Chain(b)'
        PROVE  /\ b = Hash[e.sid]
               /\ \A n \in Servers : Active(n)' /\ sid'[n] = e.sid =>
                    e.port = IF Read(<<n, "SET">>)' THEN n ELSE NoPort
    <3>1. CASE e \in Chain(b)
      BY <1>3, <2>1, <2>6, <3>1
    <3>2. CASE b = m.bucket /\ e = f
      <4>1. b = Hash[e.sid]
        BY <1>1, <2>2, <3>2
      <4>2. \A n \in Servers : Active(n) /\ sid[n] = m.sid =>
              e0.port = IF Read(<<n, "SET">>) THEN n ELSE NoPort
        BY <1>1, <1>3, <1>6
      <4> QED BY <2>1, <2>2, <2>6, <3>2, <4>1, <4>2
    <3> QED BY <2>4, <3>1, <3>2
  <2>9. OneActive'
    BY <1>3, <2>1, <2>6 DEF OneActive
  <2> QED BY <1>1, <1>5, <2>7, <2>8, <2>9 DEF ActiveInv
<1>13. CASE Opened(fd, m, shut)
  <2>1. PICK e0 \in Of(m) : /\ m.type = "SET_SESSION" /\ UNCHANGED sid
                            /\ Rewritten(m, {OpenAt(e0, m.port)})
    BY <1>13 DEF Opened
  <2>2. PICK f : f = OpenAt(e0, m.port) /\ f.sid = m.sid /\ f.port = m.port
    <3>1. e0 \in Entry /\ e0.sid = m.sid /\ m.port \in Servers \cup {NoPort}
      BY <1>1, <1>4, <1>6 DEF Message
    <3> QED BY <3>1, EntryOpened
  <2>3. Rewritten(m, {f})
    BY <2>1, <2>2
  <2>4. /\ \A s \in Sids : s # m.sid =>
             ((\E e \in Chain(Hash[s])' : e.sid = s) <=> (\E e \in Chain(Hash[s]) : e.sid = s))
        /\ \A b \in Buckets : \A e \in Chain(b)' :
             (e \in Chain(b) /\ e.sid # m.sid) \/ (b = m.bucket /\ e = f)
    <3>1. sid' = sid /\ \A e \in {f} : e.sid = m.sid
      BY <2>1, <2>2
    <3> HIDE <2>1, <2>2
    <3> QED BY <1>8, <2>3, <3>1
  <2>5. f \in Chain(m.bucket)'
    BY <2>3 DEF Rewritten
  <2>6. \A n \in Servers : Active(n)' <=> Active(n)
    <3>1. shut = {} => owner[fd] = <<m.port, "SET">>
      BY <1>1, <2>1 DEF Reports
    <3>2. \A n \in Servers : Read(<<n, "DEL">>)' <=> Read(<<n, "DEL">>)
      <4>1. \A n \in Servers : <<n, "DEL">> # <<m.port, "SET">>
        OBVIOUS
      <4> QED BY <1>1, <3>1, <4>1
    <3> QED BY <2>1, <3>2 DEF Active
  <2>7. \A s \in Sids : (\E e \in Chain(Hash[s])' : e.sid = s)
                            <=> \E n \in Servers : Active(n)' /\ sid'[n] = s
    <3> SUFFICES ASSUME NEW s \in Sids
                 PROVE  (\E e \in Chain(Hash[s])' : e.sid = s)
                            <=> \E n \in Servers : Active(n)' /\ sid'[n] = s
      OBVIOUS
    <3>1. CASE s = m.sid
      BY <1>1, <1>3, <1>6, <2>1, <2>2, <2>5, <2>6, <3>1
    <3>2. CASE s # m.sid
      BY <1>3, <2>1, <2>4, <2>6, <3>2
    <3> QED BY <3>1, <3>2
  <2>8. \A n \in Servers : sid[n] # m.sid => (Read(<<n, "SET">>)' <=> Read(<<n, "SET">>))
    <3> SUFFICES ASSUME NEW n \in Servers, sid[n] # m.sid
                 PROVE  Read(<<n, "SET">>)' <=> Read(<<n, "SET">>)
      OBVIOUS
    <3>1. shut = {} => owner[fd] # <<n, "SET">>
      <4>1. ASSUME shut = {} PROVE owner[fd] # <<n, "SET">>
        <5>1. PICK k \in Servers : sid[k] = m.sid /\ owner[fd] = <<k, "SET">>
          BY <1>1, <2>1, <4>1 DEF Reports
        <5>2. <<k, "SET">> = <<n, "SET">> => k = n
          OBVIOUS
        <5> QED BY <5>1, <5>2
      <4> QED BY <4>1
    <3> QED BY <1>1, <3>1
  <2>9. \A n \in Servers : Active(n) /\ sid[n] = m.sid => n = m.port /\ Read(<<n, "SET">>)'
    <3> SUFFICES ASSUME NEW n \in Servers, Active(n), sid[n] = m.sid
                 PROVE  n = m.port /\ Read(<<n, "SET">>)'
      OBVIOUS
    <3>1. CASE shut = {}
      <4>1. PICK k \in Servers : Active(k) /\ sid[k] = m.sid /\ owner[fd] = <<k, "SET">> /\ m.port = k
        BY <1>1, <2>1, <3>1 DEF Reports
      <4>2. n = k
        BY <1>3, <4>1
      <4>3. Read(<<n, "SET">>)' <=> Read(<<n, "SET">>) \/ (shut = {} /\ owner[fd] = <<n, "SET">>)
        BY <1>1
      <4> QED BY <3>1, <4>1, <4>2, <4>3
    <3>2. CASE shut # {}
      <4>1. e0.port = m.port /\ m.port \in Servers
        <5>1. Of(m) # {}
          OBVIOUS
        <5> QED BY <2>1, <3>2, <5>1, NewOrOld DEF DaemonInv
      <4>2. m.port # NoPort
        BY <4>1 DEF Servers, NoPort
      <4>3. e0.port = IF Read(<<n, "SET">>) THEN n ELSE NoPort
        BY <1>1, <1>3, <1>6
      <4> QED BY <1>1, <1>2, <4>1, <4>2, <4>3
    <3> QED BY <3>1, <3>2
  <2>10. ASSUME NEW b \in Buckets, NEW e \in Chain(b)'
         PROVE  /\ b = Hash[e.sid]
                /\ \A n \in Servers : Active(n)' /\ sid'[n] = e.sid =>
                     e.port = IF Read(<<n, "SET">>)' THEN n ELSE NoPort
    <3>1. CASE e \in Chain(b) /\ e.sid # m.sid
      BY <1>3, <2>1, <2>6, <2>8, <3>1
    <3>2. CASE b = m.bucket /\ e = f
      BY <1>1, <2>1, <2>2, <2>6, <2>9, <3>2
    <3> QED BY <2>4, <3>1, <3>2
  <2>11. OneActive'
    BY <1>3, <2>1, <2>6 DEF OneActive
  <2> QED BY <1>1, <1>5, <2>7, <2>10, <2>11 DEF ActiveInv
<1>14. CASE Deleted(fd, m, shut)
  <2>1. /\ m.type = "DEL_SESSION" /\ UNCHANGED sid /\ Rewritten(m, {}) /\ Of(m) # {}
    BY <1>14 DEF Deleted
  <2>2. shut = {}
    BY <2>1, NewOrOld DEF DaemonInv
  <2>3. PICK k \in Servers : Active(k) /\ sid[k] = m.sid /\ owner[fd] = <<k, "DEL">>
    BY <1>1, <2>1, <2>2 DEF Reports
  <2>4. /\ \A s \in Sids : s # m.sid =>
             ((\E e \in Chain(Hash[s])' : e.sid = s) <=> (\E e \in Chain(Hash[s]) : e.sid = s))
        /\ \A b \in Buckets : \A e \in Chain(b)' : e \in Chain(b) /\ e.sid # m.sid
    BY <1>8, <2>1
  <2>5. \A n \in Servers : Active(n)' <=> Active(n) /\ n # k
    <3>1. \A n \in Servers : Read(<<n, "DEL">>)' <=> Read(<<n, "DEL">>) \/ n = k
      <4>1. \A n \in Servers : <<n, "DEL">> = <<k, "DEL">> <=> n = k
        OBVIOUS
      <4> QED BY <1>1, <2>2, <2>3, <4>1
    <3> QED BY <2>1, <3>1 DEF Active
  <2>6. \A n \in Servers : Read(<<n, "SET">>)' <=> Read(<<n, "SET">>)
    BY <1>1, <1>2, <2>3
  <2>7. \A s \in Sids : (\E e \in Chain(Hash[s])' : e.sid = s)
                            <=> \E n \in Servers : Active(n)' /\ sid'[n] = s
    <3> SUFFICES ASSUME NEW s \in Sids
                 PROVE  (\E e \in Chain(Hash[s])' : e.sid = s)
                            <=> \E n \in Servers : Active(n)' /\ sid'[n] = s
      OBVIOUS
    <3>1. CASE s = m.sid
      BY <1>1, <1>3, <2>1, <2>3, <2>4, <2>5, <3>1
    <3>2. CASE s # m.sid
      BY <1>3, <2>1, <2>3, <2>4, <2>5, <3>2
    <3> QED BY <3>1, <3>2
  <2>8. ASSUME NEW b \in Buckets, NEW e \in Chain(b)'
        PROVE  /\ b = Hash[e.sid]
               /\ \A n \in Servers : Active(n)' /\ sid'[n] = e.sid =>
                    e.port = IF Read(<<n, "SET">>)' THEN n ELSE NoPort
    BY <1>3, <2>1, <2>4, <2>5, <2>6
  <2>9. OneActive'
    BY <1>3, <2>1, <2>5 DEF OneActive
  <2> QED BY <1>1, <1>5, <2>7, <2>8, <2>9 DEF ActiveInv
<1>15. CASE Created(fd, m, shut)
  <2>1. m.type = "GET_SESSION" /\ Of(m) = {}
    BY <1>15 DEF Created
  <2>2. PICK k \in Servers : sid[k] = NoSid /\ sid' = [sid EXCEPT ![k] = m.sid]
    <3>1. /\ TypeOK /\ PeerInv /\ ChainInv /\ LastInv /\ ForkInv
      BY DEF DaemonInv
    <3> QED BY <2>1, <3>1, OutcomeForks
  <2>3. /\ sid \in [Servers -> Sids \cup {NoSid}] /\ m.sid # NoSid
        /\ sid'[k] = m.sid /\ \A n \in Servers : n # k => sid'[n] = sid[n]
    BY <1>1, <2>2, DaemonAssumption DEF DaemonInv, TypeOK
  <2>4. \A q \in {"SET", "DEL"} : ~Read(<<k, q>>)
    <3> SUFFICES ASSUME NEW q \in {"SET", "DEL"} PROVE ~Read(<<k, q>>)
      OBVIOUS
    <3>1. <<k, q>> \in Servers \X {"SET", "DEL"} /\ <<k, q>>[1] = k
      OBVIOUS
    <3> QED BY <2>2, <3>1 DEF Read, DaemonInv, PeerInv
  <2>5. \A n \in Servers : Active(n)' <=> Active(n) \/ n = k
    BY <1>1, <1>2, <2>1, <2>2, <2>3, <2>4 DEF Active
  <2>6. ~Active(k) /\ \A n \in Servers : Read(<<n, "SET">>)' <=> Read(<<n, "SET">>)
    BY <1>1, <1>2, <2>1, <2>2 DEF Active
  <2>7. \A n \in Servers : Active(n) => sid[n] # m.sid
    BY <1>1, <1>3, <2>1 DEF Of
  <2> DEFINE new == [sid |-> m.sid, port |-> NoPort, queue |-> <<fd>>]
  <2>8. Rewritten(m, {new}) /\ new.sid = m.sid /\ new.port = NoPort
    BY <1>15 DEF Created
  <2> HIDE DEF new
  <2>9. /\ new \in Chain(m.bucket)'
        /\ \A b \in Buckets : \A e \in Chain(b)' : e \in Chain(b) \/ (b = m.bucket /\ e = new)
        /\ \A b \in Buckets : \A e \in Chain(b) : e.sid # m.sid => e \in Chain(b)'
    BY <2>8 DEF Rewritten
  <2>10. \A b \in Buckets : \A e \in Chain(b) : e.sid # m.sid
    BY <1>1, <1>3, <2>1 DEF Of
  <2>11. \A s \in Sids : (\E e \in Chain(Hash[s])' : e.sid = s)
                            <=> \E n \in Servers : Active(n)' /\ sid'[n] = s
    <3> SUFFICES ASSUME NEW s \in Sids
                 PROVE  (\E e \in Chain(Hash[s])' : e.sid = s)
                            <=> \E n \in Servers : Active(n)' /\ sid'[n] = s
      OBVIOUS
    <3>1. CASE s = m.sid
      BY <1>1, <2>3, <2>5, <2>8, <2>9, <3>1
    <3>2. CASE s # m.sid
      <4>1. Hash[s] \in Buckets
        BY DaemonAssumption
      <4>2. (\E e \in Chain(Hash[s])' : e.sid = s) <=> (\E e \in Chain(Hash[s]) : e.sid = s)
        BY <2>8, <2>9, <3>2, <4>1
      <4> QED BY <1>3, <2>3, <2>5, <2>6, <3>2, <4>2
    <3> QED BY <3>1, <3>2
  <2>12. ASSUME NEW b \in Buckets, NEW e \in Chain(b)'
         PROVE  /\ b = Hash[e.sid]
                /\ \A n \in Servers : Active(n)' /\ sid'[n] = e.sid =>
                     e.port = IF Read(<<n, "SET">>)' THEN n ELSE NoPort
    <3>1. CASE e \in Chain(b)
      BY <1>3, <2>3, <2>5, <2>6, <2>10, <3>1
    <3>2. CASE b = m.bucket /\ e = new
      <4>1. \A n \in Servers : Active(n)' /\ sid'[n] = m.sid => n = k
        BY <2>3, <2>5, <2>7
      <4> QED BY <1>1, <2>4, <2>6, <2>8, <3>2, <4>1
    <3> QED BY <2>9, <3>1, <3>2
  <2>13. OneActive'
    BY <1>3, <2>3, <2>5, <2>6, <2>7 DEF OneActive
  <2> QED BY <1>1, <1>5, <2>11, <2>12, <2>13 DEF ActiveInv
<1> QED BY <1>9, <1>11, <1>12, <1>13, <1>14, <1>15 DEF Outcome

(* Nothing but processMessage changes what has been read of a server, or   *)
(* the table.                                                              *)
LEMMA ReadsStay ==
  ASSUME DaemonInv, [Next]_vars, ~(daemon = "up" /\ ProcessMessage)
  PROVE  /\ UNCHANGED <<daemon, table, sid, last>>
         /\ \A n \in Servers : \A k \in {"SET", "DEL"} : Read(<<n, k>>)' <=> Read(<<n, k>>)
<1>0. /\ stage \in [Peers -> {"idle", "connected", "sent", "left"}]
      /\ \A n \in Servers : \A k \in {"SET", "DEL"} : <<n, k>> \in Peers /\ <<n, k>> \notin Clients
  BY ServerPeers DEF DaemonInv, TypeOK
<1>1. ASSUME UNCHANGED <<stage, unread>>
      PROVE  \A n \in Servers : \A k \in {"SET", "DEL"} : Read(<<n, k>>)' <=> Read(<<n, k>>)
  BY <1>1 DEF Read
<1>2. CASE daemon = "up" /\ (Poll \/ ProcessConnection)
  BY <1>1, <1>2 DEF Poll, ProcessConnection, peerVars
<1>3. ASSUME NEW p \in Peers, Connect(p)
      PROVE  /\ UNCHANGED <<daemon, table, sid, last>>
             /\ \A n \in Servers : \A k \in {"SET", "DEL"} : Read(<<n, k>>)' <=> Read(<<n, k>>)
  <2>1. /\ stage[p] = "idle" /\ UNCHANGED <<daemon, table, sid, last>>
        /\ \/ p \in Interactive /\ stage' = [stage EXCEPT ![p] = "connected"] /\ UNCHANGED unread
           \/ p \notin Interactive /\ stage' = [stage EXCEPT ![p] = "sent"] /\ unread' = unread \cup {p}
    BY <1>3 DEF Connect
  <2>2. ASSUME NEW n \in Servers, NEW k \in {"SET", "DEL"}
        PROVE  Read(<<n, k>>)' <=> Read(<<n, k>>)
    <3>1. PICK q \in Peers : q = <<n, k>> /\ q \notin Interactive
      BY <1>0, DaemonAssumption
    <3>2. stage'[q] # "idle" /\ q \notin unread' <=> stage[q] # "idle" /\ q \notin unread
      BY <1>0, <2>1, <3>1
    <3> QED BY <3>1, <3>2 DEF Read
  <2> QED BY <2>1, <2>2
<1>4. ASSUME NEW c \in Interactive, SendMessage(c) \/ Leave(c)
      PROVE  /\ UNCHANGED <<daemon, table, sid, last>>
             /\ \A n \in Servers : \A k \in {"SET", "DEL"} : Read(<<n, k>>)' <=> Read(<<n, k>>)
  <2>1. /\ UNCHANGED <<daemon, table, sid, last>>
        /\ \/ stage' = [stage EXCEPT ![c] = "sent"] /\ unread' = unread \cup {c}
           \/ stage' = [stage EXCEPT ![c] = "left"] /\ unread' = unread
    BY <1>4 DEF SendMessage, Leave
  <2>2. ASSUME NEW n \in Servers, NEW k \in {"SET", "DEL"}
        PROVE  Read(<<n, k>>)' <=> Read(<<n, k>>)
    <3>1. PICK q \in Peers : q = <<n, k>> /\ q # c
      BY <1>0, DaemonAssumption
    <3>2. stage'[q] = stage[q] /\ (q \in unread' <=> q \in unread)
      BY <1>0, <2>1, <3>1
    <3> QED BY <3>1, <3>2 DEF Read
  <2> QED BY <2>1, <2>2
<1>5. ASSUME NEW n \in Mortal, Die(n)
      PROVE  UNCHANGED <<daemon, table, sid, last, stage, unread>>
  BY <1>5 DEF Die
<1>6. CASE UNCHANGED vars
  BY <1>1, <1>6 DEF vars, peerVars
<1>7. ASSUME NEW c \in Interactive, NEW s \in Sids \cup {NoSid}, SendFurther(c, s)
      PROVE  UNCHANGED <<daemon, table, sid, last, stage, unread>>
  BY <1>7 DEF SendFurther
<1> QED BY <1>1, <1>2, <1>3, <1>4, <1>5, <1>6, <1>7 DEF Next, DaemonStep

(* Table and active servers stay in step over such a step.                 *)
LEMMA ActiveFrame ==
  ASSUME ActiveInv, UNCHANGED <<daemon, table, sid>>, last' \in {last, NoMsg},
         \A n \in Servers : \A k \in {"SET", "DEL"} : Read(<<n, k>>)' <=> Read(<<n, k>>)
  PROVE  ActiveInv'
<1>1. \A n \in Servers : /\ Active(n)' <=> Active(n)
                         /\ Read(<<n, "SET">>)' <=> Read(<<n, "SET">>)
  BY DEF Active
<1>2. \A b : Chain(b)' = Chain(b)
  BY DEF Chain
<1>3. OneActive'
  BY <1>1 DEF ActiveInv, OneActive
<1>4. ASSUME daemon = "up", NEW s \in Sids
      PROVE  (\E e \in Chain(Hash[s])' : e.sid = s) <=> \E n \in Servers : Active(n)' /\ sid'[n] = s
  <2>1. Chain(Hash[s])' = Chain(Hash[s])
    BY <1>2
  <2>2. (\E e \in Chain(Hash[s]) : e.sid = s) <=> \E n \in Servers : Active(n) /\ sid[n] = s
    BY <1>4 DEF ActiveInv
  <2> QED BY <1>1, <2>1, <2>2
<1>5. ASSUME daemon = "up", NEW b \in Buckets, NEW e \in Chain(b)'
      PROVE  /\ b = Hash[e.sid]
             /\ \A n \in Servers : Active(n)' /\ sid'[n] = e.sid =>
                  e.port = IF Read(<<n, "SET">>)' THEN n ELSE NoPort
  BY <1>1, <1>2, <1>5 DEF ActiveInv
<1>6. daemon = "up" /\ last' # NoMsg => last'.bucket = Hash[last'.sid]
  BY DEF ActiveInv
<1> QED BY <1>3, <1>4, <1>5, <1>6 DEF ActiveInv

(* Table and active servers stay in step over every step.                  *)
LEMMA ActiveStep == DaemonInv /\ ActiveInv /\ [Next]_vars => ActiveInv'
<1> SUFFICES ASSUME DaemonInv, ActiveInv, [Next]_vars PROVE ActiveInv'
  OBVIOUS
<1>1. CASE ~(daemon = "up" /\ ProcessMessage)
  BY <1>1, ReadsStay, ActiveFrame
<1>2. CASE daemon = "up" /\ ProcessMessage
  <2>1. PICK fd \in Fds : \/ Ignored(fd)
                          \/ \E m \in Message, shut \in {{}, {fd}} :
                               Taken(fd, m, shut) /\ Dispatch(fd, m, shut)
    BY <1>2, MessageCases DEF DaemonInv
  <2>2. CASE Ignored(fd)
    <3>1. UNCHANGED <<daemon, table, sid, stage, unread>> /\ last' \in {last, NoMsg}
      BY <2>2 DEF Ignored
    <3>2. \A n \in Servers : \A k \in {"SET", "DEL"} : Read(<<n, k>>)' <=> Read(<<n, k>>)
      BY <3>1 DEF Read
    <3> QED BY <3>1, <3>2, ActiveFrame
  <2>3. ASSUME NEW m \in Message, NEW shut \in {{}, {fd}}, Taken(fd, m, shut), Dispatch(fd, m, shut)
        PROVE  ActiveInv'
    <3>1. TypeOK /\ Distinct
      BY DEF DaemonInv, ChainInv
    <3>2. Outcome(fd, m, shut)
      BY <2>3, <3>1, DispatchOutcome DEF Outcome
    <3> QED BY <1>2, <2>3, <3>2, ActiveMessage
  <2> QED BY <2>1, <2>2, <2>3
<1> QED BY <1>1, <1>2

(* At the start there are no entries and no servers.                       *)
LEMMA ActiveStart == Init => ActiveInv
<1>1. ASSUME Init, NEW b \in Buckets PROVE Chain(b) = {}
  BY <1>1 DEF Init, Chain, ToSet
<1>2. \A s \in Sids : Hash[s] \in Buckets
  BY DaemonAssumption
<1>3. Init => /\ \A n \in Servers : ~Active(n)
              /\ last = NoMsg
  BY DEF Init, Active
<1> QED BY <1>1, <1>2, <1>3 DEF ActiveInv, OneActive

(* A session never has two servers, whoever hangs up or asks again, and    *)
(* whatever processMessage then goes on with: everyone who asks for it     *)
(* joins the same one until it has reported its end (msg_get_session,      *)
(* dsm_daemon.c).                                                          *)
THEOREM OneServerEach == Spec => []OneServer
<1>1. Init => ActiveInv
  BY ActiveStart
<1>2. DaemonInv /\ ActiveInv /\ [Next]_vars => ActiveInv'
  BY ActiveStep
<1>3. DaemonInv /\ ActiveInv => OneServer
  <2> SUFFICES ASSUME DaemonInv, ActiveInv,
                      NEW m \in Servers, sid[m] # NoSid, stage[<<m, "DEL">>] # "sent",
                      NEW n \in Servers, sid[n] # NoSid, stage[<<n, "DEL">>] # "sent", sid[m] = sid[n]
               PROVE  m = n
    BY DEF OneServer
  <2>1. <<m, "DEL">> \in Servers \X {"SET", "DEL"} /\ <<n, "DEL">> \in Servers \X {"SET", "DEL"}
    OBVIOUS
  <2>2. ~Read(<<m, "DEL">>) /\ ~Read(<<n, "DEL">>)
    BY <2>1 DEF Read, DaemonInv, PeerInv
  <2> QED BY <2>2 DEF Active, ActiveInv, OneActive
<1> QED BY <1>1, <1>2, <1>3, DaemonInvariant, PTL DEF Spec

(* While clients are patient no handler panics: the entry a server speaks  *)
(* of exists, and all descriptors in its queue are open and different.     *)
LEMMA MessageAnswered ==
  ASSUME DaemonInv, QueueInv, ActiveInv, Patient, Patient', daemon = "up",
         NEW fd \in Fds, NEW m \in Message, NEW shut, Taken(fd, m, shut), Outcome(fd, m, shut)
  PROVE  daemon' # "panic"
<1> SUFFICES ASSUME daemon' = "panic" PROVE FALSE
  OBVIOUS
<1>1. Halted(fd, m, shut)
  BY DEF Outcome, Created, Joined, Replied, Opened, Deleted
<1>2. shut = {} /\ owner[fd] \in Peers
  BY FirstOnly
<1>3. /\ m.bucket = Hash[m.sid] /\ m.sid \in Sids /\ m.bucket \in Buckets
      /\ m.type # "GET_SESSION" => \E n \in Servers : Reports(n, fd, m)
  BY <1>2, ReadAfter, Zenon
<1>4. m.type # "GET_SESSION" => Of(m) # {}
  BY <1>3 DEF ActiveInv, Of, Reports
<1>5. ~Closed(fd, shut)
  BY <1>2, PeerAssumption DEF Closed
<1>6. ASSUME NEW e \in Of(m) PROVE Unanswerable(e.queue, shut) = {}
  <2>1. /\ e \in Chain(m.bucket) /\ e.queue \in Seq(Fds)
    BY <1>3, ChainTyped DEF Of, DaemonInv, Entry
  <2>2. ASSUME NEW i \in DOMAIN e.queue
        PROVE  /\ owner[e.queue[i]] \in Heard
               /\ \A j \in DOMAIN e.queue : e.queue[i] = e.queue[j] => i = j
    BY <1>3, <2>1 DEF QueueInv
  <2>3. NoPeer \notin Heard
    BY PeerAssumption DEF Heard, Peers
  <2>4. DOMAIN e.queue \subseteq Nat
    BY <2>1
  <2>5. ASSUME NEW i \in DOMAIN e.queue
        PROVE  ~(Closed(e.queue[i], shut) \/ \E j \in DOMAIN e.queue : j > i /\ e.queue[j] = e.queue[i])
    <3>1. \A j \in DOMAIN e.queue : j > i => e.queue[j] # e.queue[i]
      BY <2>2, <2>4
    <3> QED BY <1>2, <2>2, <2>3, <3>1 DEF Closed
  <2> QED BY <2>5 DEF Unanswerable
<1> QED BY <1>1, <1>4, <1>5, <1>6 DEF Halted

(* While nobody hangs up on the daemon or has it read a second message, it *)
(* does not panic ("Bad table entry", "No session to delete!",             *)
(* dsm_sendall; dsm_daemon.c).                                             *)
THEOREM NeverPanics == Spec => []NoPanic
<1>1. Init => ActiveInv /\ QueueInv /\ NoPanic
  <2>1. ASSUME Init, NEW b \in Buckets PROVE Chain(b) = {}
    BY <2>1 DEF Init, Chain, ToSet
  <2> QED BY <2>1, ActiveStart DEF QueueInv, NoPanic, Init
<1>2. DaemonInv /\ (ActiveInv /\ QueueInv /\ NoPanic) /\ [Next]_vars => (ActiveInv /\ QueueInv /\ NoPanic)'
  <2> SUFFICES ASSUME DaemonInv, ActiveInv, QueueInv, NoPanic, [Next]_vars, Patient'
               PROVE  daemon' # "panic"
    BY ActiveStep, QueueStep DEF NoPanic
  <2>1. Patient /\ daemon # "panic"
    BY PatientStays DEF NoPanic
  <2>2. CASE ~(daemon = "up" /\ ProcessMessage)
    BY <2>1, <2>2, ReadsStay
  <2>3. CASE daemon = "up" /\ ProcessMessage
    <3>1. PICK fd \in Fds : \/ Ignored(fd)
                            \/ \E m \in Message, shut \in {{}, {fd}} :
                                 Taken(fd, m, shut) /\ Dispatch(fd, m, shut)
      BY <2>3, MessageCases DEF DaemonInv
    <3>2. ~Ignored(fd)
      BY NoneIgnored
    <3>3. PICK m \in Message, shut \in {{}, {fd}} : Taken(fd, m, shut) /\ Dispatch(fd, m, shut)
      BY <3>1, <3>2
    <3>4. TypeOK /\ Distinct
      BY DEF DaemonInv, ChainInv
    <3>5. Outcome(fd, m, shut)
      BY <3>3, <3>4, DispatchOutcome DEF Outcome
    <3> QED BY <2>1, <2>3, <3>3, <3>5, MessageAnswered
  <2> QED BY <2>2, <2>3
<1> QED BY <1>1, <1>2, DaemonInvariant, PTL DEF Spec

-----------------------------------------------------------------------------
(***************************************************************************)
(* The table is a session directory.                                       *)
(***************************************************************************)

(* What a bucket lists of an identifier.                                   *)
InChain(q, s) ==
  LET k == SelectInSeq(q, LAMBDA e : e.sid = s)
  IN  IF k = 0 THEN [port |-> NoPort, waiting |-> 0]
      ELSE [port |-> q[k].port, waiting |-> Len(q[k].queue)]

(* What a bucket without two entries of the same identifier lists is that  *)
(* of the entry, wherever it stands.                                       *)
LEMMA InChainIs ==
  ASSUME NEW q \in Seq(Entry), NEW s, \A i, j \in DOMAIN q : q[i].sid = q[j].sid => i = j
  PROVE  /\ (\A i \in DOMAIN q : q[i].sid # s) => InChain(q, s) = [port |-> NoPort, waiting |-> 0]
         /\ \A i \in DOMAIN q : q[i].sid = s =>
              InChain(q, s) = [port |-> q[i].port, waiting |-> Len(q[i].queue)]
<1> DEFINE I == {i \in 1 .. Len(q) : q[i].sid = s}
           k == SelectInSeq(q, LAMBDA e : e.sid = s)
<1>1. k = IF I # {} THEN Min(I) ELSE 0
  BY DEF SelectInSeq
<1>2. I \in SUBSET Nat /\ DOMAIN q = 1 .. Len(q) /\ 0 \notin DOMAIN q
  OBVIOUS
<1>3. I # {} => Min(I) \in I
  BY <1>2, LeastElement
<1>4. /\ (\A i \in DOMAIN q : q[i].sid # s) => k = 0
      /\ \A i \in DOMAIN q : q[i].sid = s => k = i /\ k # 0
  BY <1>1, <1>2, <1>3
<1> HIDE DEF k, I
<1>5. InChain(q, s) = IF k = 0 THEN [port |-> NoPort, waiting |-> 0]
                      ELSE [port |-> q[k].port, waiting |-> Len(q[k].queue)]
  BY DEF InChain, k
<1> QED BY <1>4, <1>5

(* What the table lists of an identifier is what its bucket lists.         *)
LEMMA ListedByName == \A s \in Sids : Listed(s) = InChain(table[Hash[s]], s)
BY DEF Listed, Position, Lookup, InChain

(* The same, after a step.                                                 *)
LEMMA ListedNext == (\A s \in Sids : Listed(s) = InChain(table[Hash[s]], s))'
BY ListedByName, PTL

(* What the table lists of an identifier, said without the order of its    *)
(* bucket.                                                                 *)
LEMMA ListedIs ==
  ASSUME NEW s \in Sids, table \in [Buckets -> Seq(Entry)], Distinct
  PROVE  /\ (\A e \in Chain(Hash[s]) : e.sid # s) => Listed(s) = [port |-> NoPort, waiting |-> 0]
         /\ \A e \in Chain(Hash[s]) : e.sid = s =>
              Listed(s) = [port |-> e.port, waiting |-> Len(e.queue)]
<1>1. Hash[s] \in Buckets
  BY DaemonAssumption
<1>2. PICK q \in Seq(Entry) : q = table[Hash[s]]
  BY <1>1
<1>3. Listed(s) = InChain(q, s)
  BY <1>2, ListedByName
<1>4. Chain(Hash[s]) = {q[i] : i \in DOMAIN q} /\ \A i, j \in DOMAIN q : q[i].sid = q[j].sid => i = j
  BY <1>1, <1>2 DEF Chain, ToSet, Distinct
<1>5. /\ (\A i \in DOMAIN q : q[i].sid # s) => InChain(q, s) = [port |-> NoPort, waiting |-> 0]
      /\ \A i \in DOMAIN q : q[i].sid = s =>
              InChain(q, s) = [port |-> q[i].port, waiting |-> Len(q[i].queue)]
  BY <1>4, InChainIs
<1> QED BY <1>3, <1>4, <1>5

(* The same, after a step.                                                 *)
LEMMA ListedAfter ==
  ASSUME NEW s \in Sids, table' \in [Buckets -> Seq(Entry)], Distinct'
  PROVE  /\ (\A e \in Chain(Hash[s])' : e.sid # s) => Listed(s)' = [port |-> NoPort, waiting |-> 0]
         /\ \A e \in Chain(Hash[s])' : e.sid = s =>
              Listed(s)' = [port |-> e.port, waiting |-> Len(e.queue)]
<1>1. Hash[s] \in Buckets
  BY DaemonAssumption
<1>2. PICK q \in Seq(Entry) : q = table'[Hash[s]]
  BY <1>1
<1>3. Listed(s)' = InChain(q, s)
  BY <1>2, ListedNext
<1>4. Chain(Hash[s])' = {q[i] : i \in DOMAIN q} /\ \A i, j \in DOMAIN q : q[i].sid = q[j].sid => i = j
  BY <1>1, <1>2 DEF Chain, ToSet, Distinct
<1>5. /\ (\A i \in DOMAIN q : q[i].sid # s) => InChain(q, s) = [port |-> NoPort, waiting |-> 0]
      /\ \A i \in DOMAIN q : q[i].sid = s =>
              InChain(q, s) = [port |-> q[i].port, waiting |-> Len(q[i].queue)]
  BY <1>4, InChainIs
<1> QED BY <1>3, <1>4, <1>5

(* A handler changes what is listed of the identifier of its message, and  *)
(* of no other.                                                            *)
LEMMA OneListing ==
  ASSUME TypeOK, Distinct, NEW m \in Message, m.bucket = Hash[m.sid],
         NEW new, Rewritten(m, new), \A e \in new : e.sid = m.sid
  PROVE  /\ \A s \in Sids : s # m.sid => Listed(s)' = Listed(s)
         /\ new = {} => Listed(m.sid)' = [port |-> NoPort, waiting |-> 0]
         /\ \A e \in new : Listed(m.sid)' = [port |-> e.port, waiting |-> Len(e.queue)]
<1>1. /\ m.sid \in Sids /\ m.bucket \in Buckets /\ table \in [Buckets -> Seq(Entry)]
      /\ table' \in [Buckets -> Seq(Entry)] /\ Distinct'
      /\ \A b \in Buckets : b # m.bucket => Chain(b)' = Chain(b)
      /\ Chain(m.bucket)' = {e \in Chain(m.bucket) : e.sid # m.sid} \cup new
  BY DEF Message, TypeOK, Rewritten
<1>2. ASSUME NEW s \in Sids, s # m.sid PROVE Listed(s)' = Listed(s)
  <2>1. PICK b \in Buckets : b = Hash[s]
    BY DaemonAssumption
  <2>2. \A e : e.sid = s => (e \in Chain(b)' <=> e \in Chain(b))
    BY <1>1, <1>2
  <2>3. /\ (\A e \in Chain(b) : e.sid # s) => Listed(s) = [port |-> NoPort, waiting |-> 0]
        /\ \A e \in Chain(b) : e.sid = s => Listed(s) = [port |-> e.port, waiting |-> Len(e.queue)]
    BY <1>1, <2>1, ListedIs
  <2>4. /\ (\A e \in Chain(b)' : e.sid # s) => Listed(s)' = [port |-> NoPort, waiting |-> 0]
        /\ \A e \in Chain(b)' : e.sid = s => Listed(s)' = [port |-> e.port, waiting |-> Len(e.queue)]
    BY <1>1, <2>1, ListedAfter
  <2>5. CASE \E e \in Chain(b) : e.sid = s
    BY <2>2, <2>3, <2>4, <2>5
  <2>6. CASE ~\E e \in Chain(b) : e.sid = s
    BY <2>2, <2>3, <2>4, <2>6
  <2> QED BY <2>5, <2>6
<1>3. /\ (\A e \in Chain(m.bucket)' : e.sid # m.sid) => Listed(m.sid)' = [port |-> NoPort, waiting |-> 0]
      /\ \A e \in Chain(m.bucket)' : e.sid = m.sid =>
           Listed(m.sid)' = [port |-> e.port, waiting |-> Len(e.queue)]
  BY <1>1, ListedAfter
<1> QED BY <1>1, <1>2, <1>3

(* A message makes a step of the directory, or none: a session is created  *)
(* when it is new, waited for while it has no port, opened at the port of  *)
(* its server, and removed when it is open and everyone in it was told.    *)
LEMMA DirectoryMessage ==
  ASSUME DaemonInv, ActiveInv, daemon = "up",
         NEW fd \in Fds, NEW m \in Message, NEW shut, Taken(fd, m, shut),
         Outcome(fd, m, shut)
  PROVE  Directory!DirNext \/ UNCHANGED Directory!dirVars
<1>1. /\ m.bucket = Hash[m.sid] /\ m.sid \in Sids /\ m.bucket \in Buckets
      /\ m.type # "GET_SESSION" /\ shut = {} =>
              \E n \in Servers : Reports(n, fd, m)
  BY ReadAfter
<1>2. /\ TypeOK /\ Distinct /\ table \in [Buckets -> Seq(Entry)]
      /\ \A b \in Buckets : \A e \in Chain(b) : e \in Entry /\ e.queue \in Seq(Fds)
      /\ \A b \in Buckets : \A e \in Chain(b) :
           /\ e.port = NoPort => e.queue # << >>
           /\ e.port # NoPort => e.queue = << >>
  BY ChainTyped DEF DaemonInv, ChainInv, TypeOK, Entry
<1> DEFINE s == m.sid
<1>3. PICK d : d = [t \in Sids |-> Listed(t)]
  OBVIOUS
<1>4. PICK d2 : d2 = [t \in Sids |-> Listed(t)']
  OBVIOUS
<1>5. PICK f : f = [t \in Sids |-> Cardinality({n \in Servers : sid[n] = t})]
  OBVIOUS
<1>6. PICK f2 : f2 = [t \in Sids |-> Cardinality({n \in Servers : sid'[n] = t})]
  OBVIOUS
<1>7. ASSUME UNCHANGED sid PROVE f2 = f
  BY <1>5, <1>6, <1>7
<1>8. \A e \in Of(m) :
        /\ e \in Entry /\ e \in Chain(m.bucket) /\ e.sid = m.sid /\ e.queue \in Seq(Fds)
        /\ d[s] = [port |-> e.port, waiting |-> Len(e.queue)]
        /\ d[s] # [port |-> NoPort, waiting |-> 0] /\ d[s].port = e.port
  <2> SUFFICES ASSUME NEW e \in Of(m)
               PROVE  /\ e \in Entry /\ e \in Chain(m.bucket) /\ e.sid = m.sid /\ e.queue \in Seq(Fds)
                      /\ d[s] = [port |-> e.port, waiting |-> Len(e.queue)]
                      /\ d[s] # [port |-> NoPort, waiting |-> 0] /\ d[s].port = e.port
    OBVIOUS
  <2>1. e \in Chain(m.bucket) /\ e.sid = m.sid /\ e \in Entry /\ e.queue \in Seq(Fds)
    BY <1>1, <1>2 DEF Of
  <2>2. d[s] = [port |-> e.port, waiting |-> Len(e.queue)]
    BY <1>1, <1>2, <1>3, <2>1, ListedIs
  <2>3. d[s].port = e.port /\ (e.port = NoPort => Len(e.queue) # 0)
    BY <1>1, <1>2, <2>1, <2>2
  <2>4. d[s] # [port |-> NoPort, waiting |-> 0]
    BY <2>2, <2>3
  <2> QED BY <2>1, <2>2, <2>4
<1>9. ASSUME NEW new, Rewritten(m, new), \A e \in new : e.sid = m.sid
      PROVE  /\ d2 = [d EXCEPT ![s] = d2[s]]
             /\ new = {} => d2[s] = [port |-> NoPort, waiting |-> 0]
             /\ \A e \in new : d2[s] = [port |-> e.port, waiting |-> Len(e.queue)]
  <2>1. /\ \A t \in Sids : t # m.sid => Listed(t)' = Listed(t)
        /\ new = {} => Listed(m.sid)' = [port |-> NoPort, waiting |-> 0]
        /\ \A e \in new : Listed(m.sid)' = [port |-> e.port, waiting |-> Len(e.queue)]
    BY <1>1, <1>2, <1>9, OneListing
  <2>2. \A t \in Sids : t # s => d2[t] = d[t]
    BY <1>3, <1>4, <2>1
  <2>3. d = [t \in Sids |-> d[t]] /\ d2 = [t \in Sids |-> d2[t]]
    BY <1>3, <1>4
  <2>4. d2 = [d EXCEPT ![s] = d2[s]]
    BY <1>1, <2>2, <2>3
  <2> QED BY <1>1, <1>4, <2>1, <2>4
<1>10. CASE Halted(fd, m, shut) \/ Replied(fd, m, shut)
  <2>1. UNCHANGED <<table, sid>>
    BY <1>10 DEF Halted, Replied
  <2>2. \A t \in Sids : Listed(t)' = Listed(t)
    BY <2>1, ListedByName, ListedNext
  <2>3. d2 = d /\ f2 = f
    BY <1>3, <1>4, <1>7, <2>1, <2>2
  <2> QED BY <1>3, <1>4, <1>5, <1>6, <2>3 DEF Directory!dirVars
<1>11. CASE Created(fd, m, shut)
  <2>1. m.type = "GET_SESSION" /\ Of(m) = {}
    BY <1>11 DEF Created
  <2>2. PICK k \in Servers : sid[k] = NoSid /\ sid' = [sid EXCEPT ![k] = m.sid]
    <3>1. /\ TypeOK /\ PeerInv /\ ChainInv /\ LastInv /\ ForkInv
      BY DEF DaemonInv
    <3> QED BY <2>1, <3>1, OutcomeForks
  <2> DEFINE e == [sid |-> m.sid, port |-> NoPort, queue |-> <<fd>>]
  <2>3. Rewritten(m, {e}) /\ e.sid = m.sid /\ e.port = NoPort /\ Len(e.queue) = 1
    BY <1>11 DEF Created
  <2> HIDE DEF e
  <2>4. d2 = [d EXCEPT ![s] = d2[s]] /\ d2[s] = [port |-> NoPort, waiting |-> 1]
    <3>1. \A g \in {e} : g.sid = m.sid
      BY <2>3
    <3>2. d2 = [d EXCEPT ![s] = d2[s]] /\ \A h \in {e} : d2[s] = [port |-> h.port, waiting |-> Len(h.queue)]
      BY <1>9, <2>3, <3>1
    <3> QED BY <2>3, <3>2
  <2>5. d[s] = [port |-> NoPort, waiting |-> 0]
    <3>1. \A g \in Chain(Hash[s]) : g.sid # s
      BY <1>1, <2>1 DEF Of
    <3> QED BY <1>1, <1>2, <1>3, <3>1, ListedIs
  <2>6. d2 = [d EXCEPT ![s].waiting = 1]
    <3>1. [d[s] EXCEPT !.waiting = 1] = d2[s]
      BY <2>4, <2>5
    <3> QED BY <2>4, <3>1
  <2>7. f2 = [f EXCEPT ![s] = @ + 1]
    <3>1. sid \in [Servers -> Sids \cup {NoSid}] /\ NoSid \notin Sids
      BY <1>2, DaemonAssumption DEF TypeOK
    <3>2. \A t \in Sids : t # s => {n \in Servers : sid'[n] = t} = {n \in Servers : sid[n] = t}
      BY <2>2, <3>1
    <3>3. /\ {n \in Servers : sid'[n] = s} = {n \in Servers : sid[n] = s} \cup {k}
          /\ k \notin {n \in Servers : sid[n] = s}
      BY <1>1, <2>2, <3>1
    <3>4. IsFiniteSet({n \in Servers : sid[n] = s})
      <4>1. IsFiniteSet(Servers)
        BY FS_Interval, DaemonAssumption DEF Servers
      <4> QED BY <4>1, FS_Subset
    <3>5. Cardinality({n \in Servers : sid'[n] = s}) = Cardinality({n \in Servers : sid[n] = s}) + 1
      BY <3>3, <3>4, FS_AddElement
    <3>6. f2[s] = f[s] + 1 /\ \A t \in Sids : t # s => f2[t] = f[t]
      BY <1>1, <1>5, <1>6, <3>2, <3>5
    <3>7. f = [t \in Sids |-> f[t]] /\ f2 = [t \in Sids |-> f2[t]]
      BY <1>5, <1>6
    <3> QED BY <1>1, <3>6, <3>7
  <2>8. Directory!Create(s)
    BY <1>1, <1>3, <1>4, <1>5, <1>6, <2>5, <2>6, <2>7 DEF Directory!Create, Directory!Unknown
  <2> QED BY <1>1, <2>8 DEF Directory!DirNext
<1>12. CASE Joined(fd, m, shut)
  <2>1. PICK e \in Of(m) : /\ e.port = NoPort /\ UNCHANGED sid
                           /\ Rewritten(m, {[e EXCEPT !.queue = Append(@, fd)]})
    BY <1>12 DEF Joined
  <2>2. PICK g : /\ g = [e EXCEPT !.queue = Append(@, fd)]
                 /\ g.sid = m.sid /\ g.port = NoPort /\ Len(g.queue) = Len(e.queue) + 1
    <3>1. e \in Entry /\ e.sid = m.sid /\ e.queue \in Seq(Fds)
      BY <1>8
    <3>2. /\ [e EXCEPT !.queue = Append(@, fd)].sid = m.sid
          /\ [e EXCEPT !.queue = Append(@, fd)].port = NoPort
          /\ [e EXCEPT !.queue = Append(@, fd)].queue = Append(e.queue, fd)
      BY <2>1, <3>1 DEF Entry
    <3>3. Len(Append(e.queue, fd)) = Len(e.queue) + 1
      BY <3>1
    <3> QED BY <3>2, <3>3
  <2>3. Rewritten(m, {g}) /\ \A h \in {g} : h.sid = m.sid
    BY <2>1, <2>2
  <2>4. d2 = [d EXCEPT ![s] = d2[s]] /\ d2[s] = [port |-> NoPort, waiting |-> Len(e.queue) + 1]
    <3>1. d2 = [d EXCEPT ![s] = d2[s]] /\ \A h \in {g} : d2[s] = [port |-> h.port, waiting |-> Len(h.queue)]
      BY <1>9, <2>3
    <3> QED BY <2>2, <3>1
  <2>5. /\ d[s] = [port |-> NoPort, waiting |-> Len(e.queue)] /\ d[s].port = NoPort
        /\ d[s] # [port |-> NoPort, waiting |-> 0]
    BY <1>8, <2>1
  <2>6. d2 = [d EXCEPT ![s].waiting = @ + 1]
    <3>1. [d[s] EXCEPT !.waiting = @ + 1] = d2[s]
      BY <2>4, <2>5
    <3> QED BY <2>4, <3>1
  <2>7. f2 = f
    BY <1>7, <2>1
  <2>8. Directory!Wait(s)
    BY <1>1, <1>3, <1>4, <1>5, <1>6, <2>5, <2>6, <2>7 DEF Directory!Wait, Directory!Unknown
  <2> QED BY <1>1, <2>8 DEF Directory!DirNext
<1>13. CASE Opened(fd, m, shut)
  <2>1. PICK e \in Of(m) : /\ m.type = "SET_SESSION" /\ UNCHANGED sid
                           /\ Rewritten(m, {OpenAt(e, m.port)})
    BY <1>13 DEF Opened
  <2>2. PICK g : /\ g = OpenAt(e, m.port)
                 /\ g.sid = m.sid /\ g.port = m.port /\ Len(g.queue) = 0
    <3>1. e \in Entry /\ e.sid = m.sid /\ m.port \in Servers \cup {NoPort}
      BY <1>8 DEF Message
    <3>2. OpenAt(e, m.port).sid = m.sid /\ OpenAt(e, m.port).port = m.port /\ OpenAt(e, m.port).queue = << >>
      BY <3>1, EntryOpened
    <3> QED BY <3>2
  <2>3. Rewritten(m, {g}) /\ \A h \in {g} : h.sid = m.sid
    BY <2>1, <2>2
  <2>4. d2 = [d EXCEPT ![s] = [port |-> m.port, waiting |-> 0]]
    <3>1. d2 = [d EXCEPT ![s] = d2[s]] /\ \A h \in {g} : d2[s] = [port |-> h.port, waiting |-> Len(h.queue)]
      BY <1>9, <2>3
    <3> QED BY <2>2, <3>1
  <2>5. m.port \in Servers /\ e.port \in {NoPort, m.port}
    <3>1. m.port \in Servers /\ (shut # {} => e.port = m.port)
      <4>1. Of(m) # {}
        OBVIOUS
      <4> QED BY <2>1, <4>1, NewOrOld DEF DaemonInv
    <3>2. ASSUME shut = {} PROVE e.port = NoPort
      <4>1. PICK n \in Servers : Active(n) /\ sid[n] = m.sid /\ ~Read(<<n, "SET">>)
        BY <1>1, <2>1, <3>2 DEF Reports
      <4>2. e \in Chain(m.bucket) /\ e.sid = m.sid
        BY <1>8
      <4> QED BY <1>1, <4>1, <4>2 DEF ActiveInv
    <3> QED BY <3>1, <3>2
  <2>6. d[s] # [port |-> NoPort, waiting |-> 0] /\ d[s].port = e.port
    BY <1>8
  <2>7. f2 = f
    BY <1>7, <2>1
  <2>8. Directory!Open(s)
    BY <1>1, <1>3, <1>4, <1>5, <1>6, <2>4, <2>5, <2>6, <2>7 DEF Directory!Open, Directory!Unknown
  <2> QED BY <1>1, <2>8 DEF Directory!DirNext
<1>14. CASE Deleted(fd, m, shut)
  <2>1. /\ m.type = "DEL_SESSION" /\ UNCHANGED sid /\ Rewritten(m, {}) /\ Of(m) # {}
    BY <1>14 DEF Deleted
  <2>2. PICK e \in Of(m) : TRUE
    BY <2>1
  <2>3. d2 = [d EXCEPT ![s] = [port |-> NoPort, waiting |-> 0]]
    <3>1. \A h \in {} : h.sid = m.sid
      OBVIOUS
    <3>2. d2 = [d EXCEPT ![s] = d2[s]] /\ d2[s] = [port |-> NoPort, waiting |-> 0]
      BY <1>9, <2>1, <3>1
    <3> QED BY <3>2
  <2>4. shut = {}
    BY <2>1, NewOrOld DEF DaemonInv
  <2>5. PICK n \in Servers : Active(n) /\ sid[n] = m.sid /\ Read(<<n, "SET">>)
    BY <1>1, <2>1, <2>4 DEF Reports
  <2>6. e.port = n
    <3>1. e \in Chain(m.bucket) /\ e.sid = m.sid
      BY <1>8
    <3> QED BY <1>1, <2>5, <3>1 DEF ActiveInv
  <2>7. d[s].port # NoPort
    <3>1. d[s].port = n
      BY <1>8, <2>6
    <3> QED BY <3>1 DEF Servers, NoPort
  <2>8. f2 = f
    BY <1>7, <2>1
  <2>9. Directory!Remove(s)
    BY <1>1, <1>3, <1>4, <1>5, <1>6, <2>3, <2>7, <2>8 DEF Directory!Remove, Directory!Unknown
  <2> QED BY <1>1, <2>9 DEF Directory!DirNext
<1> QED BY <1>10, <1>11, <1>12, <1>13, <1>14 DEF Outcome

(* Every step of the daemon and its peers makes a step of the directory or *)
(* none.                                                                   *)
LEMMA DirectoryStep ==
  DaemonInv /\ ActiveInv /\ [Next]_vars => [Directory!DirNext]_(Directory!dirVars)
<1> SUFFICES ASSUME DaemonInv, ActiveInv, [Next]_vars
             PROVE  Directory!DirNext \/ UNCHANGED Directory!dirVars
  OBVIOUS
<1>1. ASSUME UNCHANGED <<table, sid>> PROVE UNCHANGED Directory!dirVars
  <2>1. \A t \in Sids : Listed(t)' = Listed(t)
    BY <1>1, ListedByName, ListedNext
  <2> QED BY <1>1, <2>1 DEF Directory!dirVars
<1>2. CASE ~(daemon = "up" /\ ProcessMessage)
  BY <1>1, <1>2, ReadsStay
<1>3. CASE daemon = "up" /\ ProcessMessage
  <2>1. PICK fd \in Fds : \/ Ignored(fd)
                          \/ \E m \in Message, shut \in {{}, {fd}} :
                               Taken(fd, m, shut) /\ Dispatch(fd, m, shut)
    BY <1>3, MessageCases DEF DaemonInv
  <2>2. CASE Ignored(fd)
    BY <1>1, <2>2 DEF Ignored
  <2>3. ASSUME NEW m \in Message, NEW shut \in {{}, {fd}}, Taken(fd, m, shut), Dispatch(fd, m, shut)
        PROVE  Directory!DirNext \/ UNCHANGED Directory!dirVars
    <3>1. TypeOK /\ Distinct
      BY DEF DaemonInv, ChainInv
    <3>2. Outcome(fd, m, shut)
      BY <2>3, <3>1, DispatchOutcome DEF Outcome
    <3> QED BY <1>3, <2>3, <3>2, DirectoryMessage
  <2> QED BY <2>1, <2>2, <2>3
<1> QED BY <1>2, <1>3

(* The daemon's hash table, its handlers and its forks implement the session directory: a session is    *)
(* unknown, or announced with somebody waiting, or open at a port that     *)
(* does not change, and a server is forked for unknown ones only           *)
(* (dsm_daemon.c, dsm_htab.c).                                             *)
THEOREM DirectoryKept == Spec => DirectorySpec
<1>1. Init => Directory!DirInit
  <2> SUFFICES ASSUME Init PROVE Directory!DirInit
    OBVIOUS
  <2>1. \A t \in Sids : Listed(t) = [port |-> NoPort, waiting |-> 0]
    <3>1. TypeOK /\ Distinct
      BY InitHolds DEF DaemonInv, ChainInv
    <3>2. ASSUME NEW t \in Sids PROVE \A e \in Chain(Hash[t]) : e.sid # t
      <4>1. Hash[t] \in Buckets
        BY DaemonAssumption
      <4> QED BY <4>1 DEF Init, Chain, ToSet
    <3> QED BY <3>1, <3>2, ListedIs DEF TypeOK
  <2>2. \A t \in Sids : Cardinality({n \in Servers : sid[n] = t}) = 0
    <3>1. \A t \in Sids : {n \in Servers : sid[n] = t} = {}
      BY DaemonAssumption DEF Init
    <3> QED BY <3>1, FS_EmptySet
  <2> QED BY <2>1, <2>2 DEF Directory!DirInit, Directory!Unknown
<1>2. Init => ActiveInv
  BY ActiveStart
<1>3. DaemonInv /\ ActiveInv /\ [Next]_vars => ActiveInv'
  BY ActiveStep
<1>4. DaemonInv /\ ActiveInv /\ [Next]_vars => [Directory!DirNext]_(Directory!dirVars)
  BY DirectoryStep
<1> QED BY <1>1, <1>2, <1>3, <1>4, DaemonInvariant, PTL DEF Spec, DirectorySpec, Directory!DirSpec
=============================================================================
