------------------------- MODULE CcHashTableProofs -------------------------
(***************************************************************************)
(* Proofs about CcHashTable, for any keys, values, buckets and hash        *)
(* function: buckets and their list stay consistent, the table answers as  *)
(* a map does, a walk keeps no pointer to what a callback deleted and      *)
(* calls back once for every key, and an iterator returns every key once.  *)
(***************************************************************************)
EXTENDS CcHashTable, SequenceTheorems, FiniteSetTheorems, TLAPS

-----------------------------------------------------------------------------
(***************************************************************************)
(* Lists without repetition.                                               *)
(***************************************************************************)
LEMMA RemovedAt ==
  ASSUME NEW S, NEW s \in Seq(S), NEW i \in DOMAIN s
  PROVE  /\ RemoveAt(s, i) \in Seq(S)
         /\ Len(RemoveAt(s, i)) = Len(s) - 1
         /\ \A j \in 1 .. Len(s) - 1 :
              RemoveAt(s, i)[j] = IF j < i THEN s[j] ELSE s[j + 1]
<1> DEFINE n == Len(s)
           a == SubSeq(s, 1, i - 1)
           b == SubSeq(s, i + 1, Len(s))
<1>1. n \in Nat /\ i \in 1 .. n
  OBVIOUS
<1>2. /\ a \in Seq(S) /\ Len(a) = i - 1
      /\ \A j \in 1 .. i - 1 : a[j] = s[j]
  BY <1>1
<1>3. /\ b \in Seq(S) /\ Len(b) = n - i
      /\ \A j \in 1 .. n - i : b[j] = s[j + i]
  BY <1>1
<1>4. /\ a \o b \in Seq(S) /\ Len(a \o b) = n - 1
      /\ \A j \in 1 .. n - 1 :
           (a \o b)[j] = IF j <= i - 1 THEN a[j] ELSE b[j - (i - 1)]
  <2> HIDE DEF a, b, n
  <2>1. /\ a \o b \in Seq(S)
        /\ Len(a \o b) = Len(a) + Len(b)
        /\ \A j \in 1 .. Len(a) + Len(b) :
             (a \o b)[j] = IF j <= Len(a) THEN a[j] ELSE b[j - Len(a)]
    BY <1>2, <1>3, ConcatProperties
  <2>2. Len(a) + Len(b) = n - 1
    BY <1>1, <1>2, <1>3
  <2>3. \A j \in 1 .. n - 1 :
          (a \o b)[j] = IF j <= Len(a) THEN a[j] ELSE b[j - Len(a)]
    BY <2>1, <2>2
  <2> QED BY <2>1, <2>2, <2>3, <1>2
<1>5. ASSUME NEW j \in 1 .. n - 1
      PROVE  (a \o b)[j] = IF j < i THEN s[j] ELSE s[j + 1]
  <2> HIDE DEF a, b, n
  <2>1. CASE j < i
    BY <2>1, <1>1, <1>2, <1>4
  <2>2. CASE ~(j < i)
    <3>1. (a \o b)[j] = b[j - (i - 1)] /\ j - (i - 1) \in 1 .. n - i
      BY <2>2, <1>1, <1>4
    <3>2. b[j - (i - 1)] = s[(j - (i - 1)) + i]
      BY <3>1, <1>3
    <3>3. (j - (i - 1)) + i = j + 1
      BY <1>1
    <3> QED BY <2>2, <3>1, <3>2, <3>3
  <2> QED BY <2>1, <2>2
<1> QED BY <1>4, <1>5 DEF RemoveAt

LEMMA RemovedOnce ==
  ASSUME NEW S, NEW s \in Seq(S), IsInjective(s), NEW i \in DOMAIN s
  PROVE  /\ RemoveAt(s, i) \in Seq(S)
         /\ IsInjective(RemoveAt(s, i))
         /\ ToSet(RemoveAt(s, i)) = ToSet(s) \ {s[i]}
<1> DEFINE r == RemoveAt(s, i)
           n == Len(s)
<1>1. /\ n \in Nat /\ i \in 1 .. n /\ DOMAIN s = 1 .. n
      /\ r \in Seq(S) /\ DOMAIN r = 1 .. n - 1
      /\ \A j \in 1 .. n - 1 : r[j] = IF j < i THEN s[j] ELSE s[j + 1]
  BY RemovedAt
<1>2. \A j, l \in 1 .. n : s[j] = s[l] => j = l
  BY <1>1 DEF IsInjective
<1> HIDE DEF r, n
<1>3. IsInjective(r)
  BY <1>1, <1>2 DEF IsInjective
<1>4. ASSUME NEW j \in 1 .. n - 1 PROVE r[j] \in ToSet(s) \ {s[i]}
  <2>1. \E l \in 1 .. n : l # i /\ r[j] = s[l]
    <3>1. CASE j < i
      BY <3>1, <1>1
    <3>2. CASE ~(j < i)
      <4>1. j + 1 \in 1 .. n /\ j + 1 # i /\ r[j] = s[j + 1]
        BY <3>2, <1>1
      <4> QED BY <4>1
    <3> QED BY <3>1, <3>2
  <2> QED BY <2>1, <1>1, <1>2 DEF ToSet
<1>5. ASSUME NEW l \in 1 .. n, l # i PROVE s[l] \in ToSet(r)
  <2>1. CASE l < i
    BY <2>1, <1>1, <1>5 DEF ToSet
  <2>2. CASE l > i
    <3>1. l - 1 \in 1 .. n - 1 /\ r[l - 1] = s[l]
      BY <2>2, <1>1
    <3> QED BY <3>1, <1>1 DEF ToSet
  <2> QED BY <2>1, <2>2, <1>1, <1>5
<1>6. ToSet(r) = ToSet(s) \ {s[i]}
  BY <1>1, <1>4, <1>5 DEF ToSet
<1> QED BY <1>1, <1>3, <1>6 DEF r

LEMMA RemovedElement ==
  ASSUME NEW S, NEW s \in Seq(S), IsInjective(s), NEW x \in ToSet(s)
  PROVE  /\ RemoveFirst(s, x) \in Seq(S)
         /\ IsInjective(RemoveFirst(s, x))
         /\ ToSet(RemoveFirst(s, x)) = ToSet(s) \ {x}
         /\ \E i \in DOMAIN s : s[i] = x /\ RemoveFirst(s, x) = RemoveAt(s, i)
<1>1. PICK i \in DOMAIN s : s[i] = x
  BY DEF ToSet
<1>2. i \in 1 .. Len(s) /\ \A j \in 1 .. Len(s) : s[j] = x => j = i
  BY <1>1 DEF IsInjective
<1>3. SelectInSeq(s, LAMBDA v : v = x) = i
  BY <1>1, <1>2 DEF SelectInSeq, Min
<1>4. RemoveFirst(s, x) = RemoveAt(s, i)
  BY <1>1, <1>2, <1>3 DEF RemoveFirst
<1> QED BY <1>1, <1>4, RemovedOnce

LEMMA PutInFront ==
  ASSUME NEW S, NEW s \in Seq(S), IsInjective(s), NEW x \in S, x \notin ToSet(s)
  PROVE  /\ Cons(x, s) \in Seq(S)
         /\ Cons(x, s) # <<>>
         /\ IsInjective(Cons(x, s))
         /\ ToSet(Cons(x, s)) = ToSet(s) \cup {x}
<1> DEFINE r == Cons(x, s)
           n == Len(s)
<1>1. /\ n \in Nat /\ DOMAIN s = 1 .. n
      /\ r \in Seq(S) /\ Len(r) = n + 1 /\ DOMAIN r = 1 .. n + 1
      /\ r[1] = x /\ \A j \in 1 .. n : r[j + 1] = s[j]
  BY DEF Cons
<1> HIDE DEF r, n
<1>2. \A j \in 2 .. n + 1 : j - 1 \in 1 .. n /\ r[j] = s[j - 1]
  <2> SUFFICES ASSUME NEW j \in 2 .. n + 1
               PROVE  j - 1 \in 1 .. n /\ r[j] = s[j - 1]
    OBVIOUS
  <2>1. j - 1 \in 1 .. n /\ (j - 1) + 1 = j
    BY <1>1
  <2> QED BY <2>1, <1>1
<1>3. \A j \in 1 .. n : s[j] # x
  BY <1>1 DEF ToSet
<1>4. IsInjective(r)
  <2> SUFFICES ASSUME NEW a \in 1 .. n + 1, NEW b \in 1 .. n + 1, r[a] = r[b]
               PROVE  a = b
    BY <1>1 DEF IsInjective
  <2>1. CASE a = 1 \/ b = 1
    BY <2>1, <1>1, <1>2, <1>3
  <2>2. CASE a # 1 /\ b # 1
    <3>1. a \in 2 .. n + 1 /\ b \in 2 .. n + 1
      BY <2>2, <1>1
    <3>2. a - 1 \in 1 .. n /\ b - 1 \in 1 .. n /\ s[a - 1] = s[b - 1]
      BY <3>1, <1>2
    <3>3. a - 1 = b - 1
      BY <3>2, <1>1 DEF IsInjective
    <3> QED BY <3>1, <3>3
  <2> QED BY <2>1, <2>2
<1>5. ToSet(r) \subseteq ToSet(s) \cup {x}
  <2> SUFFICES ASSUME NEW j \in 1 .. n + 1 PROVE r[j] \in ToSet(s) \cup {x}
    BY <1>1 DEF ToSet
  <2>1. CASE j = 1
    BY <2>1, <1>1
  <2>2. CASE j # 1
    <3>1. j \in 2 .. n + 1  BY <2>2, <1>1
    <3> QED BY <3>1, <1>1, <1>2 DEF ToSet
  <2> QED BY <2>1, <2>2
<1>6. ToSet(s) \cup {x} \subseteq ToSet(r)
  <2>1. x \in ToSet(r)
    BY <1>1 DEF ToSet
  <2>2. ASSUME NEW j \in 1 .. n PROVE s[j] \in ToSet(r)
    <3>1. j + 1 \in 1 .. n + 1 /\ r[j + 1] = s[j]
      BY <1>1
    <3> QED BY <3>1, <1>1 DEF ToSet
  <2> QED BY <2>1, <2>2, <1>1 DEF ToSet
<1>7. r # <<>>
  BY <1>1
<1> QED BY <1>1, <1>4, <1>5, <1>6, <1>7 DEF r

-----------------------------------------------------------------------------
(***************************************************************************)
(* Tables.                                                                 *)
(***************************************************************************)
\* A bucket that exists: it has entries, each once, with different keys, all
\* of which belong here.
ChainOk(b, s) ==
  /\ s \in Seq(Entry)
  /\ s # <<>>
  /\ IsInjective(s)
  /\ \A e, f \in ToSet(s) : e.key = f.key => e = f
  /\ \A e \in ToSet(s) : BucketOf[e.key] = b

TableInv(t) ==
  /\ t \in Table
  /\ IsInjective(t.nonempty)
  /\ ToSet(t.nonempty) = {b \in Buckets : t.buckets[b] # NULL}
  /\ \A b \in Buckets : t.buckets[b] # NULL => ChainOk(b, t.buckets[b])
  /\ IsFiniteSet(KeysIn(t))
  /\ t.length = Cardinality(KeysIn(t))

EntriesOf(t, b) == ToSet(Chain(t, b))

LEMMA EmptyChain ==
  /\ <<>> \in Seq(Entry)
  /\ IsInjective(<<>>)
  /\ ToSet(<<>>) = {}
BY DEF IsInjective, ToSet

LEMMA KeysOfChain ==
  ASSUME NEW s \in Seq(Entry)
  PROVE  ToSet(KeysOf(s)) = {e.key : e \in ToSet(s)}
BY DEF ToSet, KeysOf

\* What a chain of the table is, whether its bucket exists or not.
LEMMA ChainIs ==
  ASSUME NEW t, TableInv(t), NEW b \in Buckets
  PROVE  /\ Chain(t, b) \in Seq(Entry)
         /\ IsInjective(Chain(t, b))
         /\ \A e, f \in EntriesOf(t, b) : e.key = f.key => e = f
         /\ \A e \in EntriesOf(t, b) : e \in Entry /\ BucketOf[e.key] = b
<1>1. CASE t.buckets[b] = NULL
  BY <1>1, EmptyChain DEF Chain, EntriesOf
<1>2. CASE t.buckets[b] # NULL
  <2>1. Chain(t, b) = t.buckets[b] /\ ChainOk(b, t.buckets[b])
    BY <1>2 DEF Chain, TableInv
  <2>2. \A e \in ToSet(Chain(t, b)) : e \in Entry
    BY <2>1 DEF ChainOk, ToSet
  <2> QED BY <2>1, <2>2 DEF ChainOk, EntriesOf
<1> QED BY <1>1, <1>2

\* The loop that looks for a key stops at its entry.
LEMMA FoundIs ==
  ASSUME NEW t, TableInv(t), NEW k \in Keys
  PROVE  /\ Holds(t, k) <=> \E e \in EntriesOf(t, BucketOf[k]) : e.key = k
         /\ \A e \in EntriesOf(t, BucketOf[k]) :
              e.key = k => Found(t, k) = e.value
         /\ ~Holds(t, k) => Found(t, k) = NULL
<1> DEFINE b == BucketOf[k]
           s == Chain(t, b)
<1>0. b \in Buckets
  BY TableAssumption
<1>1. /\ s \in Seq(Entry)
      /\ \A e, f \in ToSet(s) : e.key = f.key => e = f
      /\ IsInjective(s)
  BY <1>0, ChainIs DEF EntriesOf
<1>2. Holds(t, k) <=> \E e \in ToSet(s) : e.key = k
  BY <1>1, KeysOfChain DEF Holds
<1>3. ASSUME NEW e \in ToSet(s), e.key = k PROVE Found(t, k) = e.value
  <2>1. PICK i \in DOMAIN s : s[i] = e
    BY DEF ToSet
  <2>2. \A j \in DOMAIN s : s[j].key = k => j = i
    BY <2>1, <1>1, <1>3 DEF ToSet, IsInjective
  <2>3. i \in 1 .. Len(s) /\ DOMAIN s = 1 .. Len(s) /\ Len(s) \in Nat
    BY <1>1, <2>1
  <2>4. \A j \in 1 .. i - 1 : j \in DOMAIN s /\ j # i
    BY <2>3
  <2>5. PlaceOf(s, k) = i
    BY <2>1, <2>2, <2>4, <1>3 DEF PlaceOf
  <2> QED BY <2>1, <2>5, <1>2, <1>3 DEF Found
<1> QED BY <1>2, <1>3 DEF EntriesOf, Found

\* One bucket and the list change; the rest of the table stays as it is.
LEMMA BucketChanged ==
  ASSUME NEW t, TableInv(t), NEW t2 \in Table, NEW b \in Buckets, NEW c,
         t2.buckets = [t.buckets EXCEPT ![b] = c],
         c = NULL \/ (c # NULL /\ ChainOk(b, c)),
         IsInjective(t2.nonempty),
         ToSet(t2.nonempty) = IF c = NULL THEN ToSet(t.nonempty) \ {b}
                                          ELSE ToSet(t.nonempty) \cup {b},
         IsFiniteSet(KeysIn(t2)), t2.length = Cardinality(KeysIn(t2))
  PROVE  TableInv(t2)
<1>1. /\ t2.buckets[b] = c
      /\ \A d \in Buckets : d # b => t2.buckets[d] = t.buckets[d]
  BY DEF TableInv, Table
<1>2. ToSet(t2.nonempty) = {d \in Buckets : t2.buckets[d] # NULL}
  BY <1>1 DEF TableInv
<1>3. \A d \in Buckets : t2.buckets[d] # NULL => ChainOk(d, t2.buckets[d])
  BY <1>1 DEF TableInv
<1> QED BY <1>2, <1>3 DEF TableInv

\* delete_hash_entry takes away the entry of the key and nothing else.
LEMMA EntryDeleted ==
  ASSUME NEW t, TableInv(t), NEW k \in Keys
  PROVE  /\ TableInv(DeletedEntry(t, k))
         /\ \A d \in Buckets : EntriesOf(DeletedEntry(t, k), d) =
              {e \in EntriesOf(t, d) : e.key # k}
         /\ \A d \in Buckets \ {BucketOf[k]} :
              DeletedEntry(t, k).buckets[d] = t.buckets[d]
         /\ ~Holds(t, k) => DeletedEntry(t, k) = t
         /\ Holds(t, k) => \E i \in DOMAIN Chain(t, BucketOf[k]) :
              /\ Chain(t, BucketOf[k])[i].key = k
              /\ Chain(DeletedEntry(t, k), BucketOf[k]) =
                   RemoveAt(Chain(t, BucketOf[k]), i)
         /\ \/ DeletedEntry(t, k).nonempty = t.nonempty
            \/ /\ BucketOf[k] \in ToSet(t.nonempty)
               /\ DeletedEntry(t, k).nonempty =
                    RemoveFirst(t.nonempty, BucketOf[k])
<1> DEFINE b == BucketOf[k]
           s == Chain(t, b)
           i == PlaceOf(s, k)
           rest == RemoveAt(s, i)
           t2 == DeletedEntry(t, k)
<1>0. b \in Buckets
  BY TableAssumption
<1>1. CASE ~Holds(t, k)
  <2>1. t2 = t
    BY <1>1 DEF DeletedEntry
  <2>2. \A d \in Buckets : \A e \in EntriesOf(t, d) : e.key # k
    BY <1>1, ChainIs, FoundIs
  <2> HIDE DEF t2
  <2> QED BY <1>1, <2>1, <2>2 DEF t2
<1>2. CASE Holds(t, k)
  <2>1. PICK e0 \in ToSet(s) : e0.key = k
    BY <1>2, FoundIs DEF EntriesOf
  <2>2. /\ s \in Seq(Entry) /\ IsInjective(s)
        /\ \A e, f \in ToSet(s) : e.key = f.key => e = f
        /\ \A e \in ToSet(s) : e \in Entry /\ BucketOf[e.key] = b
    BY <1>0, ChainIs DEF EntriesOf
  <2>3. i \in DOMAIN s /\ s[i] = e0
    <3>1. PICK n \in DOMAIN s : s[n] = e0
      BY DEF ToSet
    <3>2. \A j \in DOMAIN s : s[j].key = k => j = n
      BY <3>1, <2>1, <2>2 DEF ToSet, IsInjective
    <3>3. \A j \in 1 .. n - 1 : j \in DOMAIN s /\ j # n
      BY <2>2, <3>1
    <3>4. PlaceOf(s, k) = n
      BY <3>1, <3>2, <3>3, <2>1 DEF PlaceOf
    <3> QED BY <3>1, <3>4
  <2>4. /\ rest \in Seq(Entry) /\ IsInjective(rest)
        /\ ToSet(rest) = ToSet(s) \ {e0}
    BY <2>2, <2>3, RemovedOnce
  <2>5. ToSet(rest) = {e \in ToSet(s) : e.key # k}
    BY <2>1, <2>2, <2>4
  <2>6. t.buckets[b] # NULL /\ b \in ToSet(t.nonempty)
    BY <2>1, <1>0, EmptyChain DEF Chain, TableInv
  <2> DEFINE c == IF rest = <<>> THEN NULL ELSE rest
             ne == IF rest = <<>> THEN RemoveFirst(t.nonempty, b) ELSE t.nonempty
  <2>7. /\ t2.buckets = [t.buckets EXCEPT ![b] = c]
        /\ t2.nonempty = ne
        /\ t2.length = t.length - 1
        /\ t2 = [buckets |-> t2.buckets, nonempty |-> t2.nonempty,
                 length |-> t2.length]
    <3> HIDE DEF rest
    <3>1. t = [buckets |-> t.buckets, nonempty |-> t.nonempty, length |-> t.length]
          /\ t.buckets \in [Buckets -> Seq(Entry) \cup {NULL}]
      BY DEF TableInv, Table
    <3> DEFINE removed == [t EXCEPT !.buckets[b] = rest, !.length = @ - 1]
    <3>2. t2 = IF rest = <<>> THEN DeletedBucket(removed, b) ELSE removed
      BY <1>2 DEF DeletedEntry, rest
    <3> DEFINE bs == [t.buckets EXCEPT ![b] = rest]
               l == t.length - 1
    <3>3. removed = [buckets |-> bs, nonempty |-> t.nonempty, length |-> l]
      <4>1. removed = [[t EXCEPT !.buckets = bs] EXCEPT !.length = l]
        OBVIOUS
      <4> HIDE DEF bs, l, removed
      <4>2. [t EXCEPT !.buckets = bs] =
              [buckets |-> bs, nonempty |-> t.nonempty, length |-> t.length]
        BY <3>1
      <4> QED BY <4>1, <4>2
    <3> HIDE DEF removed
    <3>4. DeletedBucket(removed, b) =
            [buckets |-> [t.buckets EXCEPT ![b] = NULL],
             nonempty |-> RemoveFirst(t.nonempty, b), length |-> t.length - 1]
      <4>1. [bs EXCEPT ![b] = NULL] = [t.buckets EXCEPT ![b] = NULL]
        BY <3>1, <1>0
      <4> DEFINE bs2 == [bs EXCEPT ![b] = NULL]
                 ne2 == RemoveFirst(t.nonempty, b)
      <4>2. DeletedBucket(removed, b) =
              [[removed EXCEPT !.buckets = bs2] EXCEPT !.nonempty = ne2]
        BY <3>3 DEF DeletedBucket
      <4> HIDE DEF bs, l, bs2, ne2
      <4>3. [removed EXCEPT !.buckets = bs2] =
              [buckets |-> bs2, nonempty |-> t.nonempty, length |-> l]
        BY <3>3
      <4>4. DeletedBucket(removed, b) =
              [buckets |-> bs2, nonempty |-> ne2, length |-> l]
        BY <4>2, <4>3
      <4> QED BY <4>1, <4>4 DEF bs2, ne2, l
    <3> HIDE DEF removed, t2
    <3> QED BY <3>2, <3>3, <3>4
  <2>8. /\ IsInjective(ne) /\ ne \in Seq(Buckets)
        /\ ToSet(ne) = IF c = NULL THEN ToSet(t.nonempty) \ {b}
                                   ELSE ToSet(t.nonempty) \cup {b}
    <3>1. t.nonempty \in Seq(Buckets) /\ IsInjective(t.nonempty)
      BY DEF TableInv, Table
    <3>2. CASE rest = <<>>
      BY <3>1, <3>2, <2>6, RemovedElement
    <3>3. CASE rest # <<>>
      <4>1. c # NULL
        BY <3>3, <2>4, TableAssumption
      <4> QED BY <3>1, <3>3, <4>1, <2>6
    <3> QED BY <3>2, <3>3
  <2>9. c = NULL \/ (c # NULL /\ ChainOk(b, c))
    <3>1. CASE rest = <<>>
      BY <3>1
    <3>2. CASE rest # <<>>
      BY <3>2, <2>2, <2>4, TableAssumption DEF ChainOk
    <3> QED BY <3>1, <3>2
  <2>10. /\ EntriesOf(t2, b) = ToSet(rest)
         /\ Chain(t2, b) = rest
         /\ \A d \in Buckets \ {b} :
              t2.buckets[d] = t.buckets[d] /\ EntriesOf(t2, d) = EntriesOf(t, d)
    <3>1. t2.buckets[b] = c /\ \A d \in Buckets \ {b} : t2.buckets[d] = t.buckets[d]
      BY <2>7, <1>0 DEF TableInv, Table
    <3>2. Chain(t2, b) = rest
      <4>1. CASE rest = <<>>
        BY <4>1, <3>1 DEF Chain
      <4>2. CASE rest # <<>>
        BY <4>2, <3>1, <2>4, TableAssumption DEF Chain
      <4> QED BY <4>1, <4>2
    <3> HIDE DEF t2, rest
    <3> QED BY <3>1, <3>2 DEF EntriesOf, Chain
  <2>11. \A d \in Buckets : EntriesOf(t2, d) = {e \in EntriesOf(t, d) : e.key # k}
    <3>1. \A d \in Buckets \ {b} : \A e \in EntriesOf(t, d) : e.key # k
      BY ChainIs
    <3> HIDE DEF t2
    <3> QED BY <3>1, <2>5, <2>10 DEF EntriesOf
  <2>12. /\ IsFiniteSet(KeysIn(t2)) /\ t2.length = Cardinality(KeysIn(t2))
         /\ t2.length \in Nat
    <3>1. \A x \in Keys : Holds(t2, x) <=>
            \E e \in EntriesOf(t2, BucketOf[x]) : e.key = x
      <4>1. \A d \in Buckets : Chain(t2, d) \in Seq(Entry)
        <5>1. \A d \in Buckets : t2.buckets[d] = IF d = b THEN c ELSE t.buckets[d]
          BY <2>7, <1>0 DEF TableInv, Table
        <5> HIDE DEF t2, c
        <5>2. c = NULL \/ c \in Seq(Entry)
          BY <2>9 DEF ChainOk
        <5> QED BY <5>1, <5>2, ChainIs, EmptyChain DEF Chain
      <4> HIDE DEF t2
      <4> QED BY <4>1, KeysOfChain, TableAssumption DEF Holds, EntriesOf
    <3>2. KeysIn(t2) = KeysIn(t) \ {k}
      <4> HIDE DEF t2
      <4> QED BY <3>1, <2>11, FoundIs, TableAssumption DEF KeysIn
    <3>3. k \in KeysIn(t) /\ IsFiniteSet(KeysIn(t)) /\ t.length = Cardinality(KeysIn(t))
      BY <1>2 DEF KeysIn, TableInv
    <3>4. /\ IsFiniteSet(KeysIn(t) \ {k})
          /\ Cardinality(KeysIn(t) \ {k}) = Cardinality(KeysIn(t)) - 1
      BY <3>3, FS_RemoveElement
    <3>5. Cardinality(KeysIn(t) \ {k}) \in Nat
      BY <3>4, FS_CardinalityType
    <3> HIDE DEF t2
    <3> QED BY <3>2, <3>3, <3>4, <3>5, <2>7
  <2>13. t2 \in Table
    <3>1. c \in Seq(Entry) \cup {NULL}
      BY <2>4
    <3>2. [t.buckets EXCEPT ![b] = c] \in [Buckets -> Seq(Entry) \cup {NULL}]
      BY <3>1 DEF TableInv, Table
    <3> HIDE DEF t2, c, ne
    <3> QED BY <3>2, <2>7, <2>8, <2>12 DEF Table
  <2>14. i \in DOMAIN s /\ s[i].key = k /\ Chain(t2, b) = RemoveAt(s, i)
    BY <2>1, <2>3, <2>10
  <2>15. \/ t2.nonempty = t.nonempty
         \/ b \in ToSet(t.nonempty) /\ t2.nonempty = RemoveFirst(t.nonempty, b)
    BY <2>6, <2>7
  <2> HIDE DEF t2, c, ne, rest, i
  <2>16. TableInv(t2)
    BY <1>0, <2>7, <2>8, <2>9, <2>12, <2>13, BucketChanged
  <2> QED BY <1>2, <2>10, <2>11, <2>14, <2>15, <2>16 DEF t2
<1> QED BY <1>1, <1>2

InsertedInFront(t, k, v) ==
  LET w == DeletedEntry(t, k)
      t2 == InsertedEntry(t, k, v)
      b == BucketOf[k]
  IN /\ Chain(t2, b) = Cons([key |-> k, value |-> v], Chain(w, b))
     /\ t2.nonempty =
          IF w.buckets[b] = NULL THEN Cons(b, w.nonempty) ELSE w.nonempty

\* insert_hash_entry: the entry that was there is gone, the new one is in front
\* in its bucket, and every other bucket is as it was.
LEMMA EntryInserted ==
  ASSUME NEW t, TableInv(t), NEW k \in Keys, NEW v \in Values
  PROVE  /\ TableInv(InsertedEntry(t, k, v))
         /\ EntriesOf(InsertedEntry(t, k, v), BucketOf[k]) =
              {e \in EntriesOf(t, BucketOf[k]) : e.key # k}
                \cup {[key |-> k, value |-> v]}
         /\ \A d \in Buckets \ {BucketOf[k]} :
              /\ InsertedEntry(t, k, v).buckets[d] = t.buckets[d]
              /\ EntriesOf(InsertedEntry(t, k, v), d) = EntriesOf(t, d)
         /\ InsertedInFront(t, k, v)
<1> DEFINE b == BucketOf[k]
           w == DeletedEntry(t, k)
           s == Chain(w, b)
           new == [key |-> k, value |-> v]
           c == Cons(new, s)
           ne == IF w.buckets[b] = NULL THEN Cons(b, w.nonempty) ELSE w.nonempty
           t2 == InsertedEntry(t, k, v)
<1>0. b \in Buckets
  BY TableAssumption
<1>1. /\ TableInv(w)
      /\ \A d \in Buckets : EntriesOf(w, d) = {e \in EntriesOf(t, d) : e.key # k}
      /\ \A d \in Buckets \ {b} : w.buckets[d] = t.buckets[d]
  BY EntryDeleted
<1> HIDE DEF w
<1>2. /\ s \in Seq(Entry) /\ IsInjective(s)
      /\ \A e, f \in ToSet(s) : e.key = f.key => e = f
      /\ \A e \in ToSet(s) : e.key # k /\ BucketOf[e.key] = b
  BY <1>0, <1>1, ChainIs DEF EntriesOf
<1>3. new \in Entry /\ new.key = k /\ new \notin ToSet(s)
  BY <1>2 DEF Entry
<1>4. /\ c \in Seq(Entry) /\ c # <<>> /\ IsInjective(c)
      /\ ToSet(c) = ToSet(s) \cup {new}
  <2> HIDE DEF s, new
  <2> QED BY <1>2, <1>3, PutInFront
<1>5. c # NULL /\ ChainOk(b, c)
  <2>1. c # NULL
    BY <1>4, TableAssumption
  <2> HIDE DEF c, s
  <2> QED BY <2>1, <1>2, <1>3, <1>4 DEF ChainOk
<1>6. /\ t2.buckets = [w.buckets EXCEPT ![b] = c]
      /\ t2.nonempty = ne
      /\ t2.length = w.length + 1
      /\ t2 = [buckets |-> t2.buckets, nonempty |-> t2.nonempty,
               length |-> t2.length]
  <2>1. /\ w = [buckets |-> w.buckets, nonempty |-> w.nonempty, length |-> w.length]
        /\ w.buckets \in [Buckets -> Seq(Entry) \cup {NULL}]
    BY <1>1 DEF TableInv, Table
  <2> DEFINE ready == IF w.buckets[b] = NULL THEN NewBucket(w, b) ELSE w
             bs == [w.buckets EXCEPT ![b] = s]
             bs2 == [bs EXCEPT ![b] = c]
             l == w.length + 1
  <2>2. ready = [buckets |-> bs, nonempty |-> ne, length |-> w.length]
    <3>1. CASE w.buckets[b] = NULL
      <4>1. s = <<>> /\ bs = [w.buckets EXCEPT ![b] = <<>>]
        BY <3>1 DEF Chain
      <4>2. NewBucket(w, b) = [[w EXCEPT !.buckets = bs] EXCEPT !.nonempty = ne]
        BY <3>1, <4>1, <2>1 DEF NewBucket
      <4> HIDE DEF bs, ne
      <4>3. [w EXCEPT !.buckets = bs] =
              [buckets |-> bs, nonempty |-> w.nonempty, length |-> w.length]
        BY <2>1
      <4> QED BY <3>1, <4>2, <4>3
    <3>2. CASE w.buckets[b] # NULL
      <4>1. s = w.buckets[b] /\ bs = w.buckets
        BY <3>2, <2>1 DEF Chain
      <4> HIDE DEF bs, s
      <4> QED BY <3>2, <4>1, <2>1
    <3> QED BY <3>1, <3>2
  <2>3. bs[b] = s /\ bs2 = [w.buckets EXCEPT ![b] = c]
    BY <2>1, <1>0
  <2>4. t2 = [[ready EXCEPT !.buckets = bs2] EXCEPT !.length = l]
    <3>1. t2 = [ready EXCEPT !.buckets[b] = Cons(new, @), !.length = @ + 1]
      BY DEF InsertedEntry, w
    <3> HIDE DEF ready, t2, c, s, bs, ne, new
    <3>2. ready.buckets[b] = s /\ ready.length = w.length /\ ready.buckets = bs
      BY <2>2, <2>3
    <3> QED BY <3>1, <3>2, <2>2 DEF c
  <2> HIDE DEF ready, t2, c, s, bs, bs2, ne, new, l
  <2>5. [ready EXCEPT !.buckets = bs2] =
          [buckets |-> bs2, nonempty |-> ne, length |-> w.length]
    BY <2>2
  <2>6. t2 = [buckets |-> bs2, nonempty |-> ne, length |-> l]
    BY <2>4, <2>5
  <2> QED BY <2>3, <2>6 DEF l
<1>7. /\ IsInjective(ne) /\ ne \in Seq(Buckets)
      /\ ToSet(ne) = ToSet(w.nonempty) \cup {b}
  <2>1. /\ w.nonempty \in Seq(Buckets) /\ IsInjective(w.nonempty)
        /\ b \in ToSet(w.nonempty) <=> w.buckets[b] # NULL
    BY <1>0, <1>1 DEF TableInv, Table
  <2>2. CASE w.buckets[b] = NULL
    BY <2>1, <2>2, <1>0, PutInFront
  <2>3. CASE w.buckets[b] # NULL
    BY <2>1, <2>3
  <2> QED BY <2>2, <2>3
<1>8. /\ EntriesOf(t2, b) = ToSet(s) \cup {new}
      /\ Chain(t2, b) = c
      /\ \A d \in Buckets \ {b} :
           t2.buckets[d] = w.buckets[d] /\ EntriesOf(t2, d) = EntriesOf(w, d)
  <2>1. t2.buckets[b] = c /\ \A d \in Buckets \ {b} : t2.buckets[d] = w.buckets[d]
    BY <1>6, <1>0, <1>1 DEF TableInv, Table
  <2> HIDE DEF t2, c, s, new
  <2> QED BY <2>1, <1>4, <1>5 DEF EntriesOf, Chain
<1>9. /\ IsFiniteSet(KeysIn(t2)) /\ t2.length = Cardinality(KeysIn(t2))
      /\ t2.length \in Nat
  <2>1. \A x \in Keys : Holds(t2, x) <=>
          \E e \in EntriesOf(t2, BucketOf[x]) : e.key = x
    <3>1. \A d \in Buckets : t2.buckets[d] = IF d = b THEN c ELSE w.buckets[d]
      BY <1>6, <1>0, <1>1 DEF TableInv, Table
    <3> HIDE DEF t2, c
    <3>2. \A d \in Buckets : Chain(t2, d) \in Seq(Entry)
      BY <3>1, <1>1, <1>4, ChainIs, EmptyChain DEF Chain
    <3> QED BY <3>2, KeysOfChain, TableAssumption DEF Holds, EntriesOf
  <2>2. KeysIn(t2) = KeysIn(w) \cup {k} /\ k \notin KeysIn(w)
    <3> HIDE DEF t2, new
    <3>1. \A x \in Keys : Holds(w, x) <=>
            \E e \in EntriesOf(w, BucketOf[x]) : e.key = x
      BY <1>1, FoundIs
    <3>2. ~Holds(w, k)
      BY <3>1, <1>2 DEF EntriesOf
    <3>3. Holds(t2, k)
      BY <2>1, <1>3, <1>8
    <3>4. ASSUME NEW x \in Keys, x # k PROVE Holds(t2, x) <=> Holds(w, x)
      <4>1. CASE BucketOf[x] = b
        BY <4>1, <3>1, <3>4, <2>1, <1>3, <1>8 DEF EntriesOf
      <4>2. CASE BucketOf[x] # b
        BY <4>2, <3>1, <2>1, <1>8, TableAssumption
      <4> QED BY <4>1, <4>2
    <3> QED BY <3>2, <3>3, <3>4 DEF KeysIn
  <2>3. /\ IsFiniteSet(KeysIn(w) \cup {k})
        /\ Cardinality(KeysIn(w) \cup {k}) = Cardinality(KeysIn(w)) + 1
        /\ Cardinality(KeysIn(w)) \in Nat /\ w.length = Cardinality(KeysIn(w))
    BY <2>2, <1>1, FS_AddElement, FS_CardinalityType DEF TableInv
  <2> HIDE DEF t2
  <2> QED BY <2>2, <2>3, <1>6
<1>10. t2 \in Table
  <2>1. [w.buckets EXCEPT ![b] = c] \in [Buckets -> Seq(Entry) \cup {NULL}]
    BY <1>1, <1>4 DEF TableInv, Table
  <2> HIDE DEF t2, c, ne
  <2> QED BY <2>1, <1>6, <1>7, <1>9 DEF Table
<1>11. t2.nonempty = ne
  BY <1>6
<1> HIDE DEF t2, c, ne, s, new
<1>12. TableInv(t2)
  BY <1>0, <1>1, <1>5, <1>6, <1>7, <1>9, <1>10, BucketChanged
<1>13. ToSet(s) = {e \in EntriesOf(t, b) : e.key # k}
  BY <1>0, <1>1 DEF s, EntriesOf
<1>14. \A d \in Buckets \ {b} : EntriesOf(t2, d) = EntriesOf(t, d)
  BY <1>1, <1>8 DEF EntriesOf, Chain
<1>15. InsertedInFront(t, k, v)
  BY <1>8, <1>11 DEF InsertedInFront, c, ne, s, new, w, t2
<1> QED BY <1>1, <1>8, <1>12, <1>13, <1>14, <1>15 DEF t2, new

\* What lookup finds in the tables an insertion and a deletion leave.
LEMMA InsertedIsFound ==
  ASSUME NEW t, TableInv(t), NEW k \in Keys, NEW v \in Values
  PROVE  /\ KeysIn(InsertedEntry(t, k, v)) = KeysIn(t) \cup {k}
         /\ Found(InsertedEntry(t, k, v), k) = v
         /\ \A x \in KeysIn(t) \ {k} : Found(InsertedEntry(t, k, v), x) = Found(t, x)
<1> DEFINE t2 == InsertedEntry(t, k, v)
           b == BucketOf[k]
           new == [key |-> k, value |-> v]
<1>1. /\ TableInv(t2)
      /\ EntriesOf(t2, b) = {e \in EntriesOf(t, b) : e.key # k} \cup {new}
      /\ \A d \in Buckets \ {b} : EntriesOf(t2, d) = EntriesOf(t, d)
  BY EntryInserted
<1>2. new.key = k /\ new.value = v
  OBVIOUS
<1> HIDE DEF t2, new
<1>3. ASSUME NEW x \in Keys
      PROVE  /\ Holds(t2, x) <=> \E e \in EntriesOf(t2, BucketOf[x]) : e.key = x
             /\ \A e \in EntriesOf(t2, BucketOf[x]) : e.key = x => Found(t2, x) = e.value
             /\ Holds(t, x) <=> \E e \in EntriesOf(t, BucketOf[x]) : e.key = x
             /\ \A e \in EntriesOf(t, BucketOf[x]) : e.key = x => Found(t, x) = e.value
  BY <1>1, FoundIs
<1>4. Holds(t2, k) /\ Found(t2, k) = v
  BY <1>1, <1>2, <1>3
<1>5. ASSUME NEW x \in Keys, x # k
      PROVE  \A e : e.key = x =>
               (e \in EntriesOf(t2, BucketOf[x]) <=> e \in EntriesOf(t, BucketOf[x]))
  BY <1>1, <1>2, <1>5, TableAssumption
<1>6. ASSUME NEW x \in Keys, x # k
      PROVE  /\ Holds(t2, x) <=> Holds(t, x)
             /\ Holds(t, x) => Found(t2, x) = Found(t, x)
  BY <1>3, <1>5, <1>6
<1> QED BY <1>4, <1>6 DEF KeysIn, t2

LEMMA DeletedIsGone ==
  ASSUME NEW t, TableInv(t), NEW k \in Keys
  PROVE  /\ KeysIn(DeletedEntry(t, k)) = KeysIn(t) \ {k}
         /\ \A x \in KeysIn(t) \ {k} : Found(DeletedEntry(t, k), x) = Found(t, x)
<1> DEFINE t2 == DeletedEntry(t, k)
<1>1. /\ TableInv(t2)
      /\ \A d \in Buckets : EntriesOf(t2, d) = {e \in EntriesOf(t, d) : e.key # k}
  BY EntryDeleted
<1> HIDE DEF t2
<1>2. ASSUME NEW x \in Keys
      PROVE  /\ Holds(t2, x) <=> \E e \in EntriesOf(t2, BucketOf[x]) : e.key = x
             /\ \A e \in EntriesOf(t2, BucketOf[x]) : e.key = x => Found(t2, x) = e.value
             /\ Holds(t, x) <=> \E e \in EntriesOf(t, BucketOf[x]) : e.key = x
             /\ \A e \in EntriesOf(t, BucketOf[x]) : e.key = x => Found(t, x) = e.value
             /\ BucketOf[x] \in Buckets
  BY <1>1, FoundIs, TableAssumption
<1>3. ~Holds(t2, k)
  BY <1>1, <1>2
<1>4. ASSUME NEW x \in Keys, x # k
      PROVE  /\ Holds(t2, x) <=> Holds(t, x)
             /\ Holds(t, x) => Found(t2, x) = Found(t, x)
  BY <1>1, <1>2, <1>4
<1> QED BY <1>3, <1>4 DEF KeysIn, t2

LEMMA NewTableInv == TableInv(NewTable) /\ KeysIn(NewTable) = {}
<1>1. NewTable.buckets = [b \in Buckets |-> NULL] /\ NewTable.nonempty = <<>>
      /\ NewTable.length = 0
  BY DEF NewTable
<1>2. NewTable \in Table
  BY DEF NewTable, Table
<1> HIDE DEF NewTable
<1>3. \A k \in Keys : ~Holds(NewTable, k)
  BY <1>1, EmptyChain, KeysOfChain, TableAssumption DEF Holds, Chain
<1>4. KeysIn(NewTable) = {}
  BY <1>3 DEF KeysIn
<1> QED BY <1>1, <1>2, <1>4, EmptyChain, FS_EmptySet DEF TableInv

-----------------------------------------------------------------------------
(***************************************************************************)
(* A walk.  What it has saved belongs to the table and not to the key the  *)
(* callback is at work on.                                                 *)
(***************************************************************************)
WalkInv ==
  walk # NULL =>
    /\ table # NULL
    /\ walk \in Walk
    /\ walk.next # NULL => Holds(table, walk.next) /\ BucketOf[walk.next] = walk.bucket
    /\ walk.nextBucket # NULL =>
         walk.nextBucket \in ToSet(table.nonempty) /\ walk.nextBucket # walk.bucket
    /\ walk.key # NULL => BucketOf[walk.key] = walk.bucket /\ walk.key # walk.next

IInv == (table # NULL => TableInv(table)) /\ WalkInv

LEMMA FirstAndAfter ==
  ASSUME NEW S, NEW s \in Seq(S), IsInjective(s)
  PROVE  /\ First(s) = NULL \/ First(s) \in ToSet(s)
         /\ \A x \in ToSet(s) : After(s, x) = NULL
                                \/ (After(s, x) \in ToSet(s) /\ After(s, x) # x)
<1>1. DOMAIN s = 1 .. Len(s) /\ Len(s) \in Nat
  OBVIOUS
<1>2. First(s) = NULL \/ First(s) \in ToSet(s)
  <2>1. s # <<>> => Head(s) = s[1] /\ 1 \in DOMAIN s
    OBVIOUS
  <2> QED BY <2>1 DEF First, ToSet
<1>3. ASSUME NEW x \in ToSet(s)
      PROVE  After(s, x) = NULL \/ (After(s, x) \in ToSet(s) /\ After(s, x) # x)
  <2> DEFINE i == CHOOSE j \in DOMAIN s : s[j] = x
  <2>1. i \in DOMAIN s /\ s[i] = x
    BY DEF ToSet
  <2>2. After(s, x) = IF i = Len(s) THEN NULL ELSE s[i + 1]
    BY DEF After
  <2> HIDE DEF i
  <2>3. CASE i = Len(s)
    BY <2>2, <2>3
  <2>4. CASE i # Len(s)
    <3>1. i + 1 \in DOMAIN s /\ i + 1 # i
      BY <1>1, <2>1, <2>4
    <3>2. s[i + 1] # x
      BY <2>1, <3>1 DEF IsInjective
    <3> QED BY <2>2, <2>4, <3>1, <3>2 DEF ToSet
  <2> QED BY <2>3, <2>4
<1> QED BY <1>2, <1>3

LEMMA KeysInjective ==
  ASSUME NEW t, TableInv(t), NEW b \in Buckets
  PROVE  /\ KeysOf(Chain(t, b)) \in Seq(Keys)
         /\ IsInjective(KeysOf(Chain(t, b)))
         /\ \A k \in ToSet(KeysOf(Chain(t, b))) :
              k \in Keys /\ BucketOf[k] = b /\ Holds(t, k)
<1> DEFINE s == Chain(t, b)
           ks == KeysOf(s)
<1>1. /\ s \in Seq(Entry) /\ IsInjective(s)
      /\ \A e, f \in ToSet(s) : e.key = f.key => e = f
      /\ \A e \in ToSet(s) : e \in Entry /\ BucketOf[e.key] = b
  BY ChainIs DEF EntriesOf
<1> HIDE DEF s
<1>2. DOMAIN s = 1 .. Len(s) /\ Len(s) \in Nat /\ ks = [i \in 1 .. Len(s) |-> s[i].key]
  BY <1>1 DEF KeysOf
<1>3. \A i \in 1 .. Len(s) : s[i] \in ToSet(s) /\ s[i].key \in Keys
  BY <1>1, <1>2 DEF ToSet, Entry
<1>4. ks \in Seq(Keys) /\ DOMAIN ks = 1 .. Len(s)
  BY <1>2, <1>3
<1>5. IsInjective(ks)
  BY <1>1, <1>2, <1>3 DEF IsInjective
<1>6. ToSet(ks) = {e.key : e \in ToSet(s)}
  BY <1>1, KeysOfChain
<1>7. \A k \in ToSet(ks) : k \in Keys /\ BucketOf[k] = b
  BY <1>1, <1>6 DEF Entry
<1>8. \A k \in ToSet(ks) : Holds(t, k)
  BY <1>7 DEF Holds, s
<1> QED BY <1>4, <1>5, <1>7, <1>8 DEF s

\* The callback changes the key it was given, or inserts one that is not
\* there: neither is what the walk has saved.
LEMMA ChangeWalkInv ==
  ASSUME IInv, table # NULL, NEW k \in Keys, UNCHANGED walk,
         walk # NULL => k = walk.key \/ ~Holds(table, k),
         table' # NULL, TableInv(table'),
         \A d \in Buckets \ {BucketOf[k]} : table'.buckets[d] = table.buckets[d],
         \A x \in Keys \ {k} : Holds(table, x) => Holds(table', x),
         k = walk.key \/ table'.buckets[BucketOf[k]] # NULL
  PROVE  WalkInv'
<1> SUFFICES ASSUME walk # NULL PROVE WalkInv'
  BY DEF WalkInv
<1>1. /\ walk \in Walk /\ TableInv(table)
      /\ walk.next # NULL => Holds(table, walk.next) /\ BucketOf[walk.next] = walk.bucket
      /\ walk.nextBucket # NULL =>
           walk.nextBucket \in ToSet(table.nonempty) /\ walk.nextBucket # walk.bucket
      /\ walk.key # NULL => BucketOf[walk.key] = walk.bucket /\ walk.key # walk.next
  BY DEF IInv, WalkInv
<1>2. walk.next # NULL => Holds(table', walk.next)
  <2>1. walk.next # NULL => walk.next \in Keys /\ walk.next # k
    BY <1>1, TableAssumption DEF Walk
  <2> QED BY <2>1, <1>1
<1>3. walk.nextBucket # NULL => walk.nextBucket \in ToSet(table'.nonempty)
  <2> SUFFICES ASSUME walk.nextBucket # NULL
               PROVE  walk.nextBucket \in ToSet(table'.nonempty)
    OBVIOUS
  <2>1. walk.nextBucket \in Buckets /\ table.buckets[walk.nextBucket] # NULL
    BY <1>1 DEF Walk, TableInv
  <2>2. table'.buckets[walk.nextBucket] # NULL
    BY <2>1, <1>1, TableAssumption
  <2> QED BY <2>1, <2>2 DEF TableInv
<1> QED BY <1>1, <1>2, <1>3 DEF WalkInv

LEMMA InitIInv == Init => IInv
BY NewTableInv DEF Init, IInv, WalkInv

LEMMA NextIInv == IInv /\ [Next]_vars => IInv'
<1> SUFFICES ASSUME IInv, [Next]_vars PROVE IInv'
  OBVIOUS
<1>0. \A b \in Buckets : b # NULL
  BY TableAssumption
<1>1. ASSUME NEW k \in Keys, NEW v \in Values, InsertEntry(k, v) PROVE IInv'
  <2>1. /\ table # NULL /\ TableInv(table) /\ table' = InsertedEntry(table, k, v)
        /\ walk' = walk /\ MayInsert(k)
    BY <1>1 DEF InsertEntry, IInv
  <2>2. TableInv(table') /\ table' # NULL
    BY <2>1, EntryInserted, TableAssumption DEF TableInv
  <2>3. \A d \in Buckets \ {BucketOf[k]} : table'.buckets[d] = table.buckets[d]
    BY <2>1, EntryInserted
  <2>4. \A x \in Keys \ {k} : Holds(table, x) => Holds(table', x)
    BY <2>1, InsertedIsFound DEF KeysIn
  <2>5. table'.buckets[BucketOf[k]] # NULL
    <3> DEFINE new == [key |-> k, value |-> v]
    <3>1. new \in EntriesOf(table', BucketOf[k])
      BY <2>1, EntryInserted
    <3> HIDE DEF new
    <3> QED BY <3>1, EmptyChain DEF EntriesOf, Chain
  <2>6. walk # NULL => k = walk.key \/ ~Holds(table, k)
    BY <2>1 DEF MayInsert, MayChange
  <2>7. WalkInv'
    BY <2>1, <2>2, <2>3, <2>4, <2>5, <2>6, ChangeWalkInv
  <2> QED BY <2>2, <2>7 DEF IInv
<1>2. ASSUME NEW k \in Keys, DeleteEntry(k) PROVE IInv'
  <2>1. /\ table # NULL /\ TableInv(table) /\ table' = DeletedEntry(table, k)
        /\ walk' = walk /\ (walk # NULL => k = walk.key)
    BY <1>2 DEF DeleteEntry, MayChange, IInv
  <2>2. TableInv(table') /\ table' # NULL
    BY <2>1, EntryDeleted, TableAssumption DEF TableInv
  <2>3. \A d \in Buckets \ {BucketOf[k]} : table'.buckets[d] = table.buckets[d]
    BY <2>1, EntryDeleted
  <2>4. \A x \in Keys \ {k} : Holds(table, x) => Holds(table', x)
    BY <2>1, DeletedIsGone DEF KeysIn
  <2>5. CASE walk # NULL
    BY <2>1, <2>2, <2>3, <2>4, <2>5, ChangeWalkInv DEF IInv
  <2>6. CASE walk = NULL
    BY <2>1, <2>2, <2>6 DEF IInv, WalkInv
  <2> QED BY <2>5, <2>6
<1>3. CASE DeleteHash \/ CreateHash
  BY <1>3, NewTableInv DEF DeleteHash, CreateHash, IInv, WalkInv
<1>4. ASSUME table' = table, walk' = walk PROVE IInv'
  BY <1>4 DEF IInv, WalkInv, TableInv, ChainOk, KeysIn, Holds, Chain
<1>5. CASE StartForeach
  <2>1. /\ table # NULL /\ table' = table /\ TableInv(table)
        /\ walk' = [bucket |-> NULL, nextBucket |-> First(table.nonempty),
                    next |-> NULL, key |-> NULL,
                    visited |-> <<>>, start |-> KeysIn(table)]
    BY <1>5 DEF StartForeach, IInv
  <2>2. First(table.nonempty) = NULL \/ First(table.nonempty) \in ToSet(table.nonempty)
    BY <2>1, FirstAndAfter DEF TableInv, Table
  <2>3. First(table.nonempty) \in Buckets \cup {NULL}
    BY <2>1, <2>2 DEF TableInv
  <2>4. walk' \in Walk
    BY <2>1, <2>3 DEF Walk, KeysIn
  <2> QED BY <2>1, <2>2, <2>4 DEF IInv, WalkInv
<1>6. CASE ForeachBucket
  <2> DEFINE nb == walk.nextBucket
             next == First(KeysOf(Chain(table, nb)))
             after == After(table.nonempty, nb)
  <2>1. /\ walk # NULL /\ nb # NULL /\ walk.key = NULL /\ table' = table
        /\ walk' = [walk EXCEPT !.bucket = nb, !.nextBucket = after, !.next = next]
        /\ table # NULL /\ TableInv(table) /\ walk \in Walk
        /\ nb \in ToSet(table.nonempty)
    BY <1>6 DEF ForeachBucket, IInv, WalkInv
  <2>2. nb \in Buckets
    BY <2>1 DEF TableInv
  <2>3. next = NULL \/ next \in ToSet(KeysOf(Chain(table, nb)))
    BY <2>1, <2>2, KeysInjective, FirstAndAfter
  <2>4. next # NULL => next \in Keys /\ BucketOf[next] = nb /\ Holds(table, next)
    BY <2>1, <2>2, <2>3, KeysInjective
  <2>5. after # NULL => after \in Buckets /\ after \in ToSet(table.nonempty) /\ after # nb
    BY <2>1, FirstAndAfter DEF TableInv, Table
  <2> HIDE DEF nb, next, after
  <2>6. /\ walk'.bucket = nb /\ walk'.nextBucket = after /\ walk'.next = next
        /\ walk'.key = NULL /\ walk' \in Walk
    BY <2>1, <2>2, <2>4, <2>5 DEF Walk
  <2> QED BY <2>1, <2>4, <2>5, <2>6 DEF IInv, WalkInv
<1>7. CASE ForeachEntry
  <2> DEFINE key == walk.next
             ks == KeysOf(Chain(table, walk.bucket))
             next == After(ks, key)
             visited == Append(walk.visited, key)
  <2>1. /\ walk # NULL /\ key # NULL /\ table' = table
        /\ walk' = [walk EXCEPT !.key = key, !.next = next, !.visited = visited]
        /\ table # NULL /\ TableInv(table) /\ walk \in Walk
        /\ Holds(table, key) /\ BucketOf[key] = walk.bucket
        /\ walk.nextBucket # NULL =>
             walk.nextBucket \in ToSet(table.nonempty) /\ walk.nextBucket # walk.bucket
    BY <1>7 DEF ForeachEntry, IInv, WalkInv
  <2>2. key \in Keys /\ walk.bucket \in Buckets /\ walk.visited \in Seq(Keys)
    BY <2>1, TableAssumption DEF Walk
  <2>3. key \in ToSet(ks)
    BY <2>1 DEF Holds
  <2>4. next # NULL => /\ next \in Keys /\ BucketOf[next] = walk.bucket
                       /\ Holds(table, next) /\ next # key
    <3>1. /\ ks \in Seq(Keys) /\ IsInjective(ks)
          /\ \A k \in ToSet(ks) :
               k \in Keys /\ BucketOf[k] = walk.bucket /\ Holds(table, k)
      BY <2>1, <2>2, KeysInjective
    <3> HIDE DEF ks, key
    <3> QED BY <3>1, <2>3, FirstAndAfter
  <2>5. visited \in Seq(Keys)
    BY <2>2
  <2> HIDE DEF key, next, visited, ks
  <2>6. /\ walk'.bucket = walk.bucket /\ walk'.nextBucket = walk.nextBucket
        /\ walk'.next = next /\ walk'.key = key /\ walk' \in Walk
    BY <2>1, <2>2, <2>4, <2>5 DEF Walk
  <2> QED BY <2>1, <2>4, <2>6 DEF IInv, WalkInv
<1>8. CASE CallbackReturns
  <2>1. /\ walk' = [walk EXCEPT !.key = NULL] /\ table' = table /\ walk # NULL
    BY <1>8 DEF CallbackReturns, InCallback
  <2>2. /\ walk \in Walk /\ table # NULL /\ TableInv(table)
    BY <2>1 DEF IInv, WalkInv
  <2>3. /\ walk'.bucket = walk.bucket /\ walk'.nextBucket = walk.nextBucket
        /\ walk'.next = walk.next /\ walk'.key = NULL /\ walk' \in Walk
    BY <2>1, <2>2 DEF Walk
  <2> QED BY <2>1, <2>2, <2>3 DEF IInv, WalkInv
<1>9. CASE EndForeach
  BY <1>9 DEF EndForeach, IInv, WalkInv
<1> QED BY <1>1, <1>2, <1>3, <1>4, <1>5, <1>6, <1>7, <1>8, <1>9
           DEF Next, vars, LookupEntry, InitIterator, IterateNext

-----------------------------------------------------------------------------
\* In every reachable state of the table, also amid a walk of foreach_hash, the
\* strengthening holds; the theorems below follow from it.
THEOREM Invariance == Spec => []IInv
BY InitIInv, NextIInv, PTL DEF Spec

\* Whatever is inserted, replaced and deleted, from outside or by the callback
\* of a walk: the buckets and the list of those that are not empty agree, keys
\* are where they belong and once each, and length counts them.
THEOREM BucketsConsistent == Spec => []TableConsistent
<1>1. IInv => TableConsistent
  <2> SUFFICES ASSUME IInv, table # NULL PROVE TableConsistent
    BY DEF TableConsistent
  <2>1. TableInv(table)
    BY DEF IInv
  <2>2. ASSUME NEW b \in ToSet(table.nonempty)
        PROVE  /\ table.buckets[b] # <<>>
               /\ IsInjective(KeysOf(table.buckets[b]))
               /\ \A k \in ToSet(KeysOf(table.buckets[b])) : BucketOf[k] = b
    <3>1. b \in Buckets /\ table.buckets[b] # NULL /\ table.buckets[b] # <<>>
      BY <2>1 DEF TableInv, ChainOk
    <3>2. Chain(table, b) = table.buckets[b]
      BY <3>1 DEF Chain
    <3> QED BY <2>1, <3>1, <3>2, KeysInjective
  <2> QED BY <2>1, <2>2 DEF TableConsistent, TableInv
<1> QED BY <1>1, Invariance, PTL

\* foreach_hash never goes on from an element or a bucket that its callback
\* has freed.
THEOREM WalkIsSafe == Spec => []SavedIsAlive
<1>1. IInv => SavedIsAlive
  BY DEF IInv, WalkInv, SavedIsAlive
<1> QED BY <1>1, Invariance, PTL

-----------------------------------------------------------------------------
(***************************************************************************)
(* The buckets implement a map.                                            *)
(***************************************************************************)
LEMMA AnswersAsMap ==
  ASSUME table # NULL, TableInv(table), NEW k \in Keys
  PROVE  Keyed!ValueOf(Map, k) = Found(table, k)
BY FoundIs DEF Keyed!ValueOf, Map, KeysIn

LEMMA StepSimulation ==
  IInv /\ IInv' /\ [Next]_vars => [Keyed!Next]_(Keyed!vars)
<1> SUFFICES ASSUME IInv, IInv', [Next]_vars PROVE [Keyed!Next]_(Keyed!vars)
  OBVIOUS
<1>1. ASSUME NEW k \in Keys, NEW v \in Values, InsertEntry(k, v)
      PROVE  Keyed!Insert(k, v)
  <2>1. /\ table # NULL /\ TableInv(table) /\ table' = InsertedEntry(table, k, v)
        /\ returned' = Answer("insert", Found(table, k))
    BY <1>1 DEF InsertEntry, IInv
  <2>2. table' # NULL
    BY <2>1, EntryInserted, TableAssumption DEF TableInv
  <2>3. /\ KeysIn(table') = KeysIn(table) \cup {k}
        /\ Found(table', k) = v
        /\ \A x \in KeysIn(table) \ {k} : Found(table', x) = Found(table, x)
    BY <2>1, InsertedIsFound
  <2>4. Map = [x \in KeysIn(table) |-> Found(table, x)]
        /\ Map' = [x \in KeysIn(table') |-> Found(table', x)]
    BY <2>1, <2>2 DEF Map
  <2>5. Map' = Keyed!With(Map, k, v)
    <3> DEFINE old == KeysIn(table)
               m == Map
    <3>1. /\ DOMAIN m = old /\ \A x \in old : m[x] = Found(table, x)
          /\ Map' = [x \in old \cup {k} |-> Found(table', x)]
      BY <2>3, <2>4
    <3>2. \A x \in old \cup {k} : Found(table', x) = IF x = k THEN v ELSE m[x]
      BY <2>3, <3>1
    <3> HIDE DEF old, m
    <3>3. Map' = [x \in DOMAIN m \cup {k} |-> IF x = k THEN v ELSE m[x]]
      BY <3>1, <3>2
    <3> QED BY <3>3 DEF Keyed!With, m
  <2>6. returned' = Keyed!Answer("insert", Keyed!ValueOf(Map, k))
    BY <2>1, AnswersAsMap DEF Answer, Keyed!Answer
  <2> QED BY <2>5, <2>6 DEF Keyed!Insert
<1>2. ASSUME NEW k \in Keys, DeleteEntry(k) PROVE Keyed!Delete(k)
  <2>1. /\ table # NULL /\ TableInv(table) /\ table' = DeletedEntry(table, k)
        /\ returned' = Answer("delete", Found(table, k))
    BY <1>2 DEF DeleteEntry, IInv
  <2>2. table' # NULL
    BY <2>1, EntryDeleted, TableAssumption DEF TableInv
  <2>3. /\ KeysIn(table') = KeysIn(table) \ {k}
        /\ \A x \in KeysIn(table) \ {k} : Found(table', x) = Found(table, x)
    BY <2>1, DeletedIsGone
  <2>4. Map = [x \in KeysIn(table) |-> Found(table, x)]
        /\ Map' = [x \in KeysIn(table') |-> Found(table', x)]
    BY <2>1, <2>2 DEF Map
  <2>5. Map' = Keyed!Without(Map, k)
    <3> DEFINE old == KeysIn(table)
               m == Map
    <3>1. /\ DOMAIN m = old /\ \A x \in old : m[x] = Found(table, x)
          /\ Map' = [x \in old \ {k} |-> Found(table', x)]
      BY <2>3, <2>4
    <3>2. \A x \in old \ {k} : Found(table', x) = m[x]
      BY <2>3, <3>1
    <3> HIDE DEF old, m
    <3>3. Map' = [x \in DOMAIN m \ {k} |-> m[x]]
      BY <3>1, <3>2
    <3> QED BY <3>3 DEF Keyed!Without, Keyed!Restrict, m
  <2>6. returned' = Keyed!Answer("delete", Keyed!ValueOf(Map, k))
    BY <2>1, AnswersAsMap DEF Answer, Keyed!Answer
  <2> QED BY <2>5, <2>6 DEF Keyed!Delete
<1>3. ASSUME NEW k \in Keys, LookupEntry(k) PROVE Keyed!Lookup(k)
  <2>1. /\ table # NULL /\ TableInv(table) /\ table' = table
        /\ returned' = Answer("lookup", Found(table, k))
    BY <1>3 DEF LookupEntry, IInv
  <2>2. Map' = Map
    BY <2>1 DEF Map, KeysIn, Holds, Found, Chain
  <2>3. returned' = Keyed!Answer("lookup", Keyed!ValueOf(Map, k))
    BY <2>1, AnswersAsMap DEF Answer, Keyed!Answer
  <2> QED BY <2>2, <2>3 DEF Keyed!Lookup
<1>4. CASE DeleteHash
  BY <1>4 DEF DeleteHash, Map, Keyed!DeleteAll, Keyed!Empty, Keyed!Next
<1>5. CASE CreateHash
  <2>1. Map = [k \in {} |-> NULL]
    BY <1>5 DEF CreateHash, Map
  <2>2. table' # NULL /\ KeysIn(table') = {}
    BY <1>5, NewTableInv, TableAssumption DEF CreateHash, TableInv
  <2>3. Map' = [k \in {} |-> NULL]
    BY <2>2 DEF Map
  <2>4. returned' = returned
    BY <1>5 DEF CreateHash
  <2> QED BY <2>1, <2>3, <2>4 DEF Keyed!vars
<1>6. ASSUME table' = table, returned' = returned PROVE UNCHANGED Keyed!vars
  BY <1>6 DEF Keyed!vars, Map, KeysIn, Holds, Found, Chain
<1>7. CASE \/ StartForeach \/ ForeachBucket \/ ForeachEntry \/ CallbackReturns
           \/ EndForeach \/ InitIterator \/ IterateNext \/ UNCHANGED vars
  BY <1>6, <1>7 DEF StartForeach, ForeachBucket, ForeachEntry, CallbackReturns,
                    EndForeach, InitIterator, IterateNext, vars
<1> QED BY <1>1, <1>2, <1>3, <1>4, <1>5, <1>7 DEF Next, Keyed!Next

\* Every behaviour of the table is one of a map, with the answers of one: what
\* an insertion replaced, what a deletion took out, what a lookup found.
THEOREM Refinement == Spec => ImplementsKeyedTable
<1>1. Init => Keyed!Init
  <2> SUFFICES ASSUME Init PROVE Keyed!Init
    OBVIOUS
  <2>1. table # NULL /\ KeysIn(table) = {} /\ returned = NULL
    BY NewTableInv, TableAssumption DEF Init, TableInv
  <2>2. Map = [k \in {} |-> NULL]
    BY <2>1 DEF Map
  <2> QED BY <2>1, <2>2 DEF Keyed!Init, Keyed!Empty
<1>2. IInv /\ IInv' /\ [Next]_vars => [Keyed!Next]_(Keyed!vars)
  BY StepSimulation
<1> QED BY <1>1, <1>2, Invariance, PTL DEF Spec, ImplementsKeyedTable, Keyed!Spec
-----------------------------------------------------------------------------
(***************************************************************************)
(* What lies ahead in a list: the elements from x on, and how the steps of *)
(* a walk and the changes of the list move that.                           *)
(***************************************************************************)
FromOn(s, x) ==
  IF x = NULL THEN {}
  ELSE {s[i] : i \in {n \in DOMAIN s : \E j \in DOMAIN s : j <= n /\ s[j] = x}}

LEMMA FromOnIs ==
  ASSUME NEW S, NEW s \in Seq(S), NULL \notin S, IsInjective(s),
         NEW i \in DOMAIN s
  PROVE  FromOn(s, s[i]) = {s[n] : n \in i .. Len(s)}
<1>1. /\ DOMAIN s = 1 .. Len(s) /\ Len(s) \in Nat /\ i \in 1 .. Len(s)
      /\ s[i] # NULL
      /\ \A j \in 1 .. Len(s) : s[j] = s[i] => j = i
  BY DEF IsInjective
<1>2. {n \in DOMAIN s : \E j \in DOMAIN s : j <= n /\ s[j] = s[i]} = i .. Len(s)
  BY <1>1
<1> QED BY <1>1, <1>2 DEF FromOn

LEMMA FromFirst ==
  ASSUME NEW S, NEW s \in Seq(S), NULL \notin S, IsInjective(s)
  PROVE  FromOn(s, First(s)) = ToSet(s)
<1>1. CASE s = <<>>
  BY <1>1 DEF First, FromOn, ToSet
<1>2. CASE s # <<>>
  <2>1. 1 \in DOMAIN s /\ First(s) = s[1] /\ DOMAIN s = 1 .. Len(s)
    BY <1>2 DEF First
  <2> QED BY <2>1, FromOnIs DEF ToSet
<1> QED BY <1>1, <1>2

\* Going on to the next element takes the one that is left out of what is
\* ahead, and nothing else.
LEMMA FromAfter ==
  ASSUME NEW S, NEW s \in Seq(S), NULL \notin S, IsInjective(s), NEW x \in ToSet(s)
  PROVE  /\ x \in FromOn(s, x)
         /\ FromOn(s, x) \subseteq ToSet(s)
         /\ FromOn(s, After(s, x)) = FromOn(s, x) \ {x}
<1> DEFINE i == CHOOSE j \in DOMAIN s : s[j] = x
<1>1. i \in DOMAIN s /\ s[i] = x /\ After(s, x) = IF i = Len(s) THEN NULL ELSE s[i + 1]
  BY DEF ToSet, After
<1> HIDE DEF i
<1>2. /\ DOMAIN s = 1 .. Len(s) /\ Len(s) \in Nat /\ i \in 1 .. Len(s)
      /\ \A j \in 1 .. Len(s) : s[j] = x => j = i
  BY <1>1 DEF IsInjective
<1>3. FromOn(s, x) = {s[n] : n \in i .. Len(s)}
  <2>1. FromOn(s, s[i]) = {s[n] : n \in i .. Len(s)}
    BY <1>1, FromOnIs
  <2> QED BY <2>1, <1>1
<1>4. FromOn(s, After(s, x)) = {s[n] : n \in i + 1 .. Len(s)}
  <2>1. CASE i = Len(s)
    BY <2>1, <1>1, <1>2 DEF FromOn
  <2>2. CASE i # Len(s)
    <3>1. i + 1 \in DOMAIN s /\ After(s, x) = s[i + 1]
      BY <2>2, <1>1, <1>2
    <3> QED BY <3>1, FromOnIs
  <2> QED BY <2>1, <2>2
<1>5. {s[n] : n \in i + 1 .. Len(s)} = {s[n] : n \in i .. Len(s)} \ {x}
  BY <1>1, <1>2
<1>6. x \in {s[n] : n \in i .. Len(s)} /\ {s[n] : n \in i .. Len(s)} \subseteq ToSet(s)
  BY <1>1, <1>2 DEF ToSet
<1> QED BY <1>3, <1>4, <1>5, <1>6

\* A new element in front is behind everything that is ahead.
LEMMA FromOnPutInFront ==
  ASSUME NEW S, NEW s \in Seq(S), NULL \notin S, IsInjective(s),
         NEW x \in ToSet(s), NEW y \in S, y \notin ToSet(s)
  PROVE  x \in ToSet(Cons(y, s)) /\ FromOn(Cons(y, s), x) = FromOn(s, x)
<1> DEFINE r == Cons(y, s)
           n == Len(s)
<1>1. /\ n \in Nat /\ DOMAIN s = 1 .. n
      /\ r \in Seq(S) /\ Len(r) = n + 1 /\ DOMAIN r = 1 .. n + 1
      /\ r[1] = y /\ \A j \in 1 .. n : r[j + 1] = s[j]
  BY DEF Cons
<1>2. IsInjective(r) /\ x \in ToSet(r)
  BY PutInFront
<1> HIDE DEF r, n
<1>3. PICK i \in 1 .. n : s[i] = x
  BY <1>1 DEF ToSet
<1>4. FromOn(s, x) = {s[j] : j \in i .. n}
  <2>1. i \in DOMAIN s
    BY <1>1, <1>3
  <2>2. FromOn(s, s[i]) = {s[j] : j \in i .. Len(s)}
    BY <2>1, FromOnIs
  <2> QED BY <2>2, <1>3 DEF n
<1>5. i + 1 \in DOMAIN r /\ r[i + 1] = x
  BY <1>1, <1>3
<1>6. FromOn(r, x) = {r[j] : j \in i + 1 .. n + 1}
  BY <1>1, <1>2, <1>5, FromOnIs
<1>7. \A j \in i + 1 .. n + 1 : j - 1 \in i .. n /\ r[j] = s[j - 1]
  <2> SUFFICES ASSUME NEW j \in i + 1 .. n + 1
               PROVE  j - 1 \in i .. n /\ r[j] = s[j - 1]
    OBVIOUS
  <2>1. j - 1 \in 1 .. n /\ j - 1 \in i .. n /\ (j - 1) + 1 = j
    BY <1>1
  <2> QED BY <2>1, <1>1
<1>8. \A j \in i .. n : j + 1 \in i + 1 .. n + 1 /\ r[j + 1] = s[j]
  BY <1>1
<1>9. {r[j] : j \in i + 1 .. n + 1} = {s[j] : j \in i .. n}
  BY <1>7, <1>8
<1> QED BY <1>2, <1>4, <1>6, <1>9 DEF r

\* What is removed was behind.
LEMMA FromOnRemoved ==
  ASSUME NEW S, NEW s \in Seq(S), NULL \notin S, IsInjective(s),
         NEW x \in ToSet(s), NEW l \in DOMAIN s, s[l] \notin FromOn(s, x)
  PROVE  x \in ToSet(RemoveAt(s, l)) /\ FromOn(RemoveAt(s, l), x) = FromOn(s, x)
<1> DEFINE r == RemoveAt(s, l)
           n == Len(s)
<1>1. /\ n \in Nat /\ l \in 1 .. n /\ DOMAIN s = 1 .. n
      /\ r \in Seq(S) /\ DOMAIN r = 1 .. n - 1 /\ Len(r) = n - 1
      /\ \A j \in 1 .. n - 1 : r[j] = IF j < l THEN s[j] ELSE s[j + 1]
  BY RemovedAt
<1>2. x # s[l]
  BY FromAfter
<1>3. IsInjective(r) /\ x \in ToSet(r)
  BY <1>2, RemovedOnce
<1> HIDE DEF r, n
<1>4. PICK i \in 1 .. n : s[i] = x
  BY <1>1 DEF ToSet
<1>5. FromOn(s, x) = {s[j] : j \in i .. n}
  <2>1. i \in DOMAIN s
    BY <1>1, <1>4
  <2>2. FromOn(s, s[i]) = {s[j] : j \in i .. Len(s)}
    BY <2>1, FromOnIs
  <2> QED BY <2>2, <1>4 DEF n
<1>6. l < i
  BY <1>1, <1>5
<1>7. i - 1 \in DOMAIN r /\ r[i - 1] = x
  <2>1. i - 1 \in 1 .. n - 1 /\ ~(i - 1 < l) /\ (i - 1) + 1 = i
    BY <1>1, <1>6
  <2> QED BY <2>1, <1>1, <1>4
<1>8. FromOn(r, x) = {r[j] : j \in i - 1 .. n - 1}
  BY <1>1, <1>3, <1>7, FromOnIs
<1>9. \A j \in i - 1 .. n - 1 : j + 1 \in i .. n /\ r[j] = s[j + 1]
  <2> SUFFICES ASSUME NEW j \in i - 1 .. n - 1
               PROVE  j + 1 \in i .. n /\ r[j] = s[j + 1]
    OBVIOUS
  <2>1. j \in 1 .. n - 1 /\ ~(j < l) /\ j + 1 \in i .. n
    BY <1>1, <1>6
  <2> QED BY <2>1, <1>1
<1>10. \A j \in i .. n : j - 1 \in i - 1 .. n - 1 /\ r[j - 1] = s[j]
  <2> SUFFICES ASSUME NEW j \in i .. n
               PROVE  j - 1 \in i - 1 .. n - 1 /\ r[j - 1] = s[j]
    OBVIOUS
  <2>1. j - 1 \in i - 1 .. n - 1 /\ (j - 1) + 1 = j
    BY <1>1, <1>6
  <2> QED BY <2>1, <1>9
<1>11. {r[j] : j \in i - 1 .. n - 1} = {s[j] : j \in i .. n}
  BY SMTT(20), <1>9, <1>10
<1> QED BY <1>3, <1>5, <1>8, <1>11 DEF r

-----------------------------------------------------------------------------
(***************************************************************************)
(* What lies ahead in a table: keys of the bucket at work on from the      *)
(* saved element on, and the keys of the buckets from the saved one on.    *)
(***************************************************************************)
ChainKeys(t, b) == KeysOf(Chain(t, b))
InBucket(t, b, x) == FromOn(ChainKeys(t, b), x)
InLater(t, c) == {k \in KeysIn(t) : BucketOf[k] \in FromOn(t.nonempty, c)}

Ahead(t, c, b, x) == InLater(t, c) \cup InBucket(t, b, x)

LEMMA NoNull == /\ NULL \notin Keys /\ NULL \notin Buckets
                /\ \A k \in Keys : BucketOf[k] \in Buckets
BY TableAssumption

LEMMA NonemptyIs ==
  ASSUME NEW t, TableInv(t)
  PROVE  /\ t.nonempty \in Seq(Buckets) /\ IsInjective(t.nonempty)
         /\ \A k \in KeysIn(t) : BucketOf[k] \in ToSet(t.nonempty)
         /\ \A b \in ToSet(t.nonempty) : b \in Buckets
<1>1. ASSUME NEW k \in KeysIn(t) PROVE t.buckets[BucketOf[k]] # NULL
  <2>1. \E e \in EntriesOf(t, BucketOf[k]) : e.key = k
    BY FoundIs DEF KeysIn
  <2> QED BY <2>1, EmptyChain DEF EntriesOf, Chain
<1> QED BY <1>1, NoNull DEF TableInv, Table, KeysIn

LEMMA ChainKeysAre ==
  ASSUME NEW t, TableInv(t), NEW b \in Buckets
  PROVE  /\ ChainKeys(t, b) \in Seq(Keys) /\ IsInjective(ChainKeys(t, b))
         /\ ToSet(ChainKeys(t, b)) = {k \in KeysIn(t) : BucketOf[k] = b}
<1>1. /\ ChainKeys(t, b) \in Seq(Keys) /\ IsInjective(ChainKeys(t, b))
      /\ ToSet(ChainKeys(t, b)) \subseteq {k \in KeysIn(t) : BucketOf[k] = b}
  BY KeysInjective DEF ChainKeys, KeysIn
<1>2. ASSUME NEW k \in KeysIn(t), BucketOf[k] = b PROVE k \in ToSet(ChainKeys(t, b))
  BY <1>2 DEF KeysIn, Holds, ChainKeys
<1> QED BY <1>1, <1>2

LEMMA KeysAre ==
  ASSUME NEW s \in Seq(Entry)
  PROVE  /\ KeysOf(s) \in Seq(Keys) /\ Len(KeysOf(s)) = Len(s)
         /\ \A j \in 1 .. Len(s) : KeysOf(s)[j] = s[j].key
<1>1. DOMAIN s = 1 .. Len(s) /\ Len(s) \in Nat
  OBVIOUS
<1>2. \A j \in 1 .. Len(s) : s[j].key \in Keys
  <2>1. \A j \in 1 .. Len(s) : s[j] \in Entry
    OBVIOUS
  <2>2. \A e \in Entry : e.key \in Keys
    BY DEF Entry
  <2> QED BY <2>1, <2>2
<1>3. KeysOf(s) = [j \in 1 .. Len(s) |-> s[j].key]
  BY <1>1 DEF KeysOf
<1> HIDE DEF KeysOf
<1> QED BY <1>1, <1>2, <1>3

\* Taking an entry out of a chain takes its key out of the keys, and likewise
\* for a new entry.
LEMMA KeysRemoved ==
  ASSUME NEW s \in Seq(Entry), NEW i \in DOMAIN s
  PROVE  KeysOf(RemoveAt(s, i)) = RemoveAt(KeysOf(s), i)
<1> DEFINE r == RemoveAt(s, i)
           ks == KeysOf(s)
           n == Len(s)
<1>1. /\ n \in Nat /\ i \in 1 .. n /\ DOMAIN s = 1 .. n
      /\ r \in Seq(Entry) /\ DOMAIN r = 1 .. n - 1 /\ Len(r) = n - 1
      /\ \A j \in 1 .. n - 1 : r[j] = IF j < i THEN s[j] ELSE s[j + 1]
  BY RemovedAt
<1>2. /\ ks \in Seq(Keys) /\ Len(ks) = n /\ DOMAIN ks = 1 .. n
      /\ \A j \in 1 .. n : ks[j] = s[j].key
  BY <1>1, KeysAre
<1> HIDE DEF ks, n
<1>3. /\ RemoveAt(ks, i) \in Seq(Keys) /\ Len(RemoveAt(ks, i)) = n - 1
      /\ \A j \in 1 .. n - 1 :
           RemoveAt(ks, i)[j] = IF j < i THEN ks[j] ELSE ks[j + 1]
  BY ZenonT(60), <1>1, <1>2, RemovedAt
<1> HIDE DEF r
<1>4. /\ KeysOf(r) \in Seq(Keys) /\ Len(KeysOf(r)) = n - 1
      /\ \A j \in 1 .. n - 1 : KeysOf(r)[j] = r[j].key
  BY <1>1, KeysAre
<1> DEFINE u == KeysOf(r)
           w == RemoveAt(ks, i)
<1>5. \A j \in 1 .. n - 1 : u[j] = w[j]
  BY SMTT(20), <1>1, <1>2, <1>3, <1>4
<1>6. u \in Seq(Keys) /\ w \in Seq(Keys) /\ Len(u) = Len(w) /\ Len(u) = n - 1
  BY <1>3, <1>4
<1> HIDE DEF u, w
<1>7. u = w
  BY <1>5, <1>6, SeqEqual
<1> QED BY <1>7 DEF u, w, r, ks

LEMMA KeysPutInFront ==
  ASSUME NEW s \in Seq(Entry), NEW e \in Entry
  PROVE  KeysOf(Cons(e, s)) = Cons(e.key, KeysOf(s))
<1> DEFINE u == KeysOf(Cons(e, s))
           w == Cons(e.key, KeysOf(s))
<1>1. /\ Cons(e, s) \in Seq(Entry) /\ Len(Cons(e, s)) = Len(s) + 1
      /\ Cons(e, s)[1] = e /\ \A j \in 1 .. Len(s) : Cons(e, s)[j + 1] = s[j]
  BY DEF Cons
<1>2. /\ KeysOf(s) \in Seq(Keys) /\ Len(KeysOf(s)) = Len(s)
      /\ \A j \in 1 .. Len(s) : KeysOf(s)[j] = s[j].key
  BY KeysAre
<1>3. e.key \in Keys
  BY DEF Entry
<1>4. /\ w \in Seq(Keys) /\ Len(w) = Len(s) + 1
      /\ w[1] = e.key /\ \A j \in 1 .. Len(s) : w[j + 1] = KeysOf(s)[j]
  BY <1>2, <1>3 DEF Cons
<1>5. /\ u \in Seq(Keys) /\ Len(u) = Len(s) + 1
      /\ \A j \in 1 .. Len(s) + 1 : u[j] = Cons(e, s)[j].key
  BY <1>1, KeysAre
<1> HIDE DEF u, w
<1>6. ASSUME NEW j \in 1 .. Len(s) + 1 PROVE u[j] = w[j]
  <2>1. CASE j = 1
    BY <2>1, <1>1, <1>4, <1>5
  <2>2. CASE j # 1
    <3>1. j - 1 \in 1 .. Len(s) /\ (j - 1) + 1 = j
      BY <2>2
    <3>2. Cons(e, s)[(j - 1) + 1] = s[j - 1] /\ w[(j - 1) + 1] = KeysOf(s)[j - 1]
      BY <3>1, <1>1, <1>4
    <3> QED BY <3>1, <3>2, <1>2, <1>5
  <2> QED BY <2>1, <2>2
<1> QED BY <1>4, <1>5, <1>6, SeqEqual DEF u, w

\* Deleting a key that is not ahead leaves what is ahead as it was.
LEMMA DeletedKept ==
  ASSUME NEW t, TableInv(t), NEW k \in Keys
  PROVE  /\ \A c \in ToSet(t.nonempty) :
              (Holds(t, k) => BucketOf[k] \notin FromOn(t.nonempty, c))
              => /\ c \in ToSet(DeletedEntry(t, k).nonempty)
                 /\ FromOn(DeletedEntry(t, k).nonempty, c) = FromOn(t.nonempty, c)
         /\ \A b \in Buckets : \A x \in ToSet(ChainKeys(t, b)) :
              k \notin InBucket(t, b, x)
              => /\ x \in ToSet(ChainKeys(DeletedEntry(t, k), b))
                 /\ InBucket(DeletedEntry(t, k), b, x) = InBucket(t, b, x)
<1> DEFINE t2 == DeletedEntry(t, k)
           bk == BucketOf[k]
<1>0. bk \in Buckets /\ NULL \notin Keys /\ NULL \notin Buckets
  BY NoNull
<1>1. CASE ~Holds(t, k)
  <2>1. t2 = t
    BY <1>1, EntryDeleted
  <2> HIDE DEF t2
  <2> QED BY <2>1 DEF t2
<1>2. CASE Holds(t, k)
  <2>1. /\ TableInv(t2)
        /\ \A d \in Buckets \ {bk} : t2.buckets[d] = t.buckets[d]
        /\ \/ t2.nonempty = t.nonempty
           \/ bk \in ToSet(t.nonempty) /\ t2.nonempty = RemoveFirst(t.nonempty, bk)
        /\ \E i \in DOMAIN Chain(t, bk) :
             Chain(t, bk)[i].key = k /\ Chain(t2, bk) = RemoveAt(Chain(t, bk), i)
    BY <1>2, EntryDeleted
  <2> HIDE DEF t2
  <2>2. ASSUME NEW c \in ToSet(t.nonempty), bk \notin FromOn(t.nonempty, c)
        PROVE  /\ c \in ToSet(t2.nonempty)
               /\ FromOn(t2.nonempty, c) = FromOn(t.nonempty, c)
    <3>1. t.nonempty \in Seq(Buckets) /\ IsInjective(t.nonempty)
      BY NonemptyIs
    <3>2. CASE t2.nonempty = t.nonempty
      BY <3>2
    <3>3. CASE bk \in ToSet(t.nonempty) /\ t2.nonempty = RemoveFirst(t.nonempty, bk)
      <4>1. PICK l \in DOMAIN t.nonempty :
              t.nonempty[l] = bk /\ t2.nonempty = RemoveAt(t.nonempty, l)
        BY <3>1, <3>3, RemovedElement
      <4> QED BY <4>1, <2>2, <3>1, <1>0, FromOnRemoved
    <3> QED BY <3>2, <3>3, <2>1
  <2>3. ASSUME NEW b \in Buckets, NEW x \in ToSet(ChainKeys(t, b)),
               k \notin InBucket(t, b, x)
        PROVE  /\ x \in ToSet(ChainKeys(t2, b))
               /\ InBucket(t2, b, x) = InBucket(t, b, x)
    <3>1. CASE b # bk
      BY <3>1, <2>1 DEF ChainKeys, InBucket, Chain
    <3>2. CASE b = bk
      <4> DEFINE s == Chain(t, b)
                 ks == ChainKeys(t, b)
      <4>1. s \in Seq(Entry) /\ ks \in Seq(Keys) /\ IsInjective(ks)
        BY ChainIs, ChainKeysAre
      <4>2. PICK i \in DOMAIN s : s[i].key = k /\ Chain(t2, b) = RemoveAt(s, i)
        BY <3>2, <2>1
      <4>3. ks = KeysOf(s) /\ ChainKeys(t2, b) = KeysOf(Chain(t2, b))
        BY DEF ChainKeys
      <4> HIDE DEF s, ks
      <4>4. i \in DOMAIN ks /\ ks[i] = k
        BY <4>1, <4>2, <4>3, KeysAre
      <4>5. ChainKeys(t2, b) = RemoveAt(ks, i)
        BY <4>1, <4>2, <4>3, KeysRemoved
      <4>6. x \in ToSet(ks) /\ ks[i] \notin FromOn(ks, x)
        BY <4>4, <2>3 DEF InBucket, ks
      <4>7. x \in ToSet(ChainKeys(t2, b)) /\ FromOn(ChainKeys(t2, b), x) = FromOn(ks, x)
        BY <4>1, <4>4, <4>5, <4>6, <1>0, FromOnRemoved
      <4> QED BY <4>7 DEF InBucket, ks
    <3> QED BY <3>1, <3>2
  <2> QED BY <1>2, <2>2, <2>3 DEF t2
<1> QED BY <1>1, <1>2

\* So does inserting one, in front of its chain and maybe with a bucket in
\* front of the others.
LEMMA InsertedKept ==
  ASSUME NEW t, TableInv(t), NEW k \in Keys, NEW v \in Values
  PROVE  /\ \A c \in ToSet(t.nonempty) :
              (Holds(t, k) => BucketOf[k] \notin FromOn(t.nonempty, c))
              => /\ c \in ToSet(InsertedEntry(t, k, v).nonempty)
                 /\ FromOn(InsertedEntry(t, k, v).nonempty, c) = FromOn(t.nonempty, c)
         /\ \A b \in Buckets : \A x \in ToSet(ChainKeys(t, b)) :
              k \notin InBucket(t, b, x)
              => /\ x \in ToSet(ChainKeys(InsertedEntry(t, k, v), b))
                 /\ InBucket(InsertedEntry(t, k, v), b, x) = InBucket(t, b, x)
<1> DEFINE w == DeletedEntry(t, k)
           t2 == InsertedEntry(t, k, v)
           bk == BucketOf[k]
           new == [key |-> k, value |-> v]
<1>0. bk \in Buckets /\ NULL \notin Keys /\ NULL \notin Buckets
  BY NoNull
<1>1. /\ TableInv(w)
      /\ \A d \in Buckets \ {bk} : w.buckets[d] = t.buckets[d]
      /\ KeysIn(w) = KeysIn(t) \ {k}
  BY EntryDeleted, DeletedIsGone
<1>2. /\ \A d \in Buckets \ {bk} : t2.buckets[d] = t.buckets[d]
      /\ Chain(t2, bk) = Cons(new, Chain(w, bk))
      /\ t2.nonempty = IF w.buckets[bk] = NULL THEN Cons(bk, w.nonempty) ELSE w.nonempty
  BY EntryInserted DEF InsertedInFront
<1>3. /\ \A c \in ToSet(t.nonempty) :
           (Holds(t, k) => bk \notin FromOn(t.nonempty, c))
           => c \in ToSet(w.nonempty) /\ FromOn(w.nonempty, c) = FromOn(t.nonempty, c)
      /\ \A b \in Buckets : \A x \in ToSet(ChainKeys(t, b)) :
           k \notin InBucket(t, b, x)
           => x \in ToSet(ChainKeys(w, b)) /\ InBucket(w, b, x) = InBucket(t, b, x)
  BY DeletedKept
<1> HIDE DEF w, t2
<1>4. ASSUME NEW c \in ToSet(t.nonempty),
             Holds(t, k) => bk \notin FromOn(t.nonempty, c)
      PROVE  c \in ToSet(t2.nonempty) /\ FromOn(t2.nonempty, c) = FromOn(t.nonempty, c)
  <2>1. c \in ToSet(w.nonempty) /\ FromOn(w.nonempty, c) = FromOn(t.nonempty, c)
    BY <1>3, <1>4
  <2>2. CASE w.buckets[bk] = NULL
    <3>1. bk \notin ToSet(w.nonempty) /\ t2.nonempty = Cons(bk, w.nonempty)
      BY <2>2, <1>1, <1>2 DEF TableInv
    <3> QED BY <3>1, <2>1, <1>0, <1>1, NonemptyIs, FromOnPutInFront
  <2>3. CASE w.buckets[bk] # NULL
    BY <2>1, <2>3, <1>2
  <2> QED BY <2>2, <2>3
<1>5. ASSUME NEW b \in Buckets, NEW x \in ToSet(ChainKeys(t, b)),
             k \notin InBucket(t, b, x)
      PROVE  /\ x \in ToSet(ChainKeys(t2, b))
             /\ InBucket(t2, b, x) = InBucket(t, b, x)
  <2>1. CASE b # bk
    BY <2>1, <1>2 DEF ChainKeys, InBucket, Chain
  <2>2. CASE b = bk
    <3>1. x \in ToSet(ChainKeys(w, b)) /\ InBucket(w, b, x) = InBucket(t, b, x)
      BY <1>3, <1>5
    <3> DEFINE s == Chain(w, b)
               ks == ChainKeys(w, b)
    <3>2. /\ s \in Seq(Entry) /\ ks \in Seq(Keys) /\ IsInjective(ks)
          /\ k \notin ToSet(ks)
      BY <1>1, ChainIs, ChainKeysAre
    <3>3. new \in Entry /\ new.key = k
      BY DEF Entry
    <3> HIDE DEF new
    <3>4. ks = KeysOf(s) /\ ChainKeys(t2, b) = KeysOf(Cons(new, s))
      BY <2>2, <1>2 DEF ChainKeys
    <3> HIDE DEF s, ks
    <3>5. ChainKeys(t2, b) = Cons(k, ks)
      BY <3>2, <3>3, <3>4, KeysPutInFront
    <3>6. x \in ToSet(ks)
      BY <3>1 DEF ks
    <3>7. x \in ToSet(Cons(k, ks)) /\ FromOn(Cons(k, ks), x) = FromOn(ks, x)
      BY <3>2, <3>6, <1>0, FromOnPutInFront
    <3> QED BY <3>1, <3>5, <3>7 DEF InBucket, ks
  <2> QED BY <2>1, <2>2
<1> QED BY <1>4, <1>5 DEF t2

-----------------------------------------------------------------------------
(***************************************************************************)
(* Where foreach_hash and the iterator stand: at bucket b, with element x  *)
(* saved of it and bucket c of the list, having met the keys of n.  None   *)
(* of those is ahead.                                                      *)
(***************************************************************************)
GoesOn(t, c, b, x, n) ==
  /\ c # NULL => c \in ToSet(t.nonempty)
  /\ x # NULL => b \in Buckets /\ x \in ToSet(ChainKeys(t, b))
  /\ b \notin FromOn(t.nonempty, c)
  /\ IsInjective(n)
  /\ \A k \in ToSet(n) : BucketOf[k] \notin FromOn(t.nonempty, c)
                         /\ k \notin InBucket(t, b, x)

LEMMA NothingAhead ==
  ASSUME NEW t, NEW b
  PROVE  /\ FromOn(t.nonempty, NULL) = {} /\ InBucket(t, b, NULL) = {}
         /\ InLater(t, NULL) = {} /\ Ahead(t, NULL, b, NULL) = {}
BY DEF FromOn, InBucket, InLater, Ahead

LEMMA AtTheStart ==
  ASSUME NEW t, TableInv(t)
  PROVE  /\ GoesOn(t, First(t.nonempty), NULL, NULL, <<>>)
         /\ Ahead(t, First(t.nonempty), NULL, NULL) = KeysIn(t)
<1> DEFINE c == First(t.nonempty)
<1>1. /\ c = NULL \/ c \in ToSet(t.nonempty)
      /\ FromOn(t.nonempty, c) = ToSet(t.nonempty)
      /\ NULL \notin ToSet(t.nonempty)
      /\ \A k \in KeysIn(t) : BucketOf[k] \in ToSet(t.nonempty)
  BY NoNull, NonemptyIs, FirstAndAfter, FromFirst
<1> HIDE DEF c
<1>2. InLater(t, c) = KeysIn(t)
  BY <1>1 DEF InLater
<1> QED BY <1>1, <1>2, NothingAhead, EmptyChain DEF GoesOn, Ahead, c

\* One element on: it joins those met, and is ahead no more.
OneElementOn(t, c, b, x, n, y, m) ==
  /\ GoesOn(t, c, b, y, m)
  /\ ToSet(m) = ToSet(n) \cup {x}
  /\ Ahead(t, c, b, x) \subseteq Ahead(t, c, b, y) \cup {x}
  /\ Ahead(t, c, b, y) \subseteq Ahead(t, c, b, x)
  /\ x \in KeysIn(t)

LEMMA NextElement ==
  ASSUME NEW t, TableInv(t), NEW c, NEW b, NEW x, x # NULL,
         NEW n \in Seq(Keys), GoesOn(t, c, b, x, n),
         NEW y, y = After(ChainKeys(t, b), x), NEW m, m = Append(n, x)
  PROVE  OneElementOn(t, c, b, x, n, y, m)
<1> DEFINE ks == ChainKeys(t, b)
<1>1. b \in Buckets /\ x \in ToSet(ks)
  BY DEF GoesOn
<1>2. /\ ks \in Seq(Keys) /\ IsInjective(ks) /\ NULL \notin Keys
      /\ x \in KeysIn(t) /\ x \in Keys /\ BucketOf[x] = b
  BY <1>1, ChainKeysAre, NoNull DEF KeysIn
<1>3. y = NULL \/ y \in ToSet(ks)
  BY <1>1, <1>2, FirstAndAfter
<1>4. /\ x \in InBucket(t, b, x)
      /\ InBucket(t, b, y) = InBucket(t, b, x) \ {x}
  BY <1>1, <1>2, FromAfter DEF InBucket
<1> HIDE DEF ks
<1>5. x \notin ToSet(n)
  BY <1>4 DEF GoesOn
<1>6. IsInjective(m) /\ ToSet(m) = ToSet(n) \cup {x}
  <2>1. /\ Len(n) \in Nat /\ DOMAIN n = 1 .. Len(n) /\ DOMAIN m = 1 .. Len(n) + 1
        /\ m[Len(n) + 1] = x /\ \A i \in 1 .. Len(n) : m[i] = n[i]
    BY <1>2
  <2>2. \A i, j \in DOMAIN n : n[i] = n[j] => i = j
    BY DEF GoesOn, IsInjective
  <2>3. \A i \in DOMAIN n : n[i] # x
    BY <1>5 DEF ToSet
  <2>4. IsInjective(m)
    BY <2>1, <2>2, <2>3 DEF IsInjective
  <2>5. ToSet(m) = ToSet(n) \cup {x}
    BY <2>1 DEF ToSet
  <2> QED BY <2>4, <2>5
<1>7. GoesOn(t, c, b, y, m)
  BY <1>1, <1>2, <1>3, <1>4, <1>6 DEF GoesOn, ks
<1> QED BY <1>2, <1>4, <1>6, <1>7 DEF OneElementOn, Ahead

\* One bucket on: the keys ahead are the same, the first of them saved.
LEMMA NextBucketOn ==
  ASSUME NEW t, TableInv(t), NEW c, c # NULL, NEW b, NEW n,
         GoesOn(t, c, b, NULL, n)
  PROVE  LET x == First(ChainKeys(t, c))
             d == After(t.nonempty, c)
         IN /\ GoesOn(t, d, c, x, n)
            /\ Ahead(t, d, c, x) = Ahead(t, c, b, NULL)
            /\ x # NULL /\ x \in ToSet(ChainKeys(t, c))
<1> DEFINE ks == ChainKeys(t, c)
           ne == t.nonempty
           x == First(ks)
           d == After(ne, c)
<1>1. /\ c \in ToSet(ne) /\ c \in Buckets /\ ne \in Seq(Buckets) /\ IsInjective(ne)
      /\ NULL \notin Keys /\ NULL \notin Buckets
  BY NonemptyIs, NoNull DEF GoesOn
<1>2. /\ ks \in Seq(Keys) /\ IsInjective(ks)
      /\ ToSet(ks) = {k \in KeysIn(t) : BucketOf[k] = c}
  BY <1>1, ChainKeysAre
<1>3. ks # <<>>
  <2>1. t.buckets[c] # NULL /\ ChainOk(c, t.buckets[c])
    BY <1>1 DEF TableInv
  <2>2. Chain(t, c) \in Seq(Entry) /\ Chain(t, c) # <<>>
    BY <2>1 DEF Chain, ChainOk
  <2>3. Len(ks) = Len(Chain(t, c))
    BY <2>2, KeysAre DEF ChainKeys
  <2> HIDE DEF ks
  <2> QED BY <2>2, <2>3, <1>2
<1>4. x \in ToSet(ks) /\ x # NULL
  <2>1. x = Head(ks) /\ Head(ks) = ks[1] /\ 1 \in DOMAIN ks
    BY <1>2, <1>3 DEF First
  <2>2. x \in ToSet(ks)
    BY <2>1 DEF ToSet
  <2> QED BY <2>2, <1>1, <1>2 DEF KeysIn
<1>5. InBucket(t, c, x) = ToSet(ks)
  BY <1>1, <1>2, FromFirst DEF InBucket
<1>6. d = NULL \/ d \in ToSet(ne)
  BY <1>1, FirstAndAfter
<1>7. c \in FromOn(ne, c) /\ FromOn(ne, d) = FromOn(ne, c) \ {c}
  BY <1>1, FromAfter
<1> HIDE DEF d, x, ks
<1>8. \A k \in ToSet(n) : BucketOf[k] \notin FromOn(ne, d) /\ k \notin ToSet(ks)
  BY <1>2, <1>7 DEF GoesOn
<1>9. GoesOn(t, d, c, x, n)
  BY <1>1, <1>4, <1>5, <1>6, <1>7, <1>8 DEF GoesOn, ks
<1>10. InLater(t, c) = InLater(t, d) \cup ToSet(ks)
  BY <1>2, <1>7 DEF InLater
<1> QED BY <1>4, <1>5, <1>9, <1>10, NothingAhead DEF Ahead, d, x, ks

\* The callback changes a key that has been met, or one that is not there.
LEMMA GoesOnKept ==
  ASSUME NEW t, TableInv(t), NEW t2, NEW k \in Keys,
         NEW c, NEW b, NEW x, NEW n, GoesOn(t, c, b, x, n),
         k \in ToSet(n) \/ ~Holds(t, k),
         \A d \in ToSet(t.nonempty) :
           (Holds(t, k) => BucketOf[k] \notin FromOn(t.nonempty, d))
           => d \in ToSet(t2.nonempty) /\ FromOn(t2.nonempty, d) = FromOn(t.nonempty, d),
         \A d \in Buckets : \A y \in ToSet(ChainKeys(t, d)) :
           k \notin InBucket(t, d, y)
           => y \in ToSet(ChainKeys(t2, d)) /\ InBucket(t2, d, y) = InBucket(t, d, y),
         KeysIn(t) \ {k} \subseteq KeysIn(t2)
  PROVE  /\ GoesOn(t2, c, b, x, n)
         /\ Ahead(t, c, b, x) \subseteq Ahead(t2, c, b, x)
<1>1. Holds(t, k) => BucketOf[k] \notin FromOn(t.nonempty, c)
  BY DEF GoesOn
<1>2. /\ c # NULL => c \in ToSet(t2.nonempty)
      /\ FromOn(t2.nonempty, c) = FromOn(t.nonempty, c)
  BY <1>1, NothingAhead DEF GoesOn
<1>3. x # NULL => k \notin InBucket(t, b, x)
  <2> SUFFICES ASSUME x # NULL PROVE k \notin InBucket(t, b, x)
    OBVIOUS
  <2>1. CASE k \in ToSet(n)
    BY <2>1 DEF GoesOn
  <2>2. CASE ~Holds(t, k)
    <3>1. b \in Buckets /\ x \in ToSet(ChainKeys(t, b))
      BY DEF GoesOn
    <3>2. InBucket(t, b, x) \subseteq KeysIn(t)
      BY <3>1, ChainKeysAre, NoNull, FromAfter DEF InBucket
    <3> QED BY <3>2, <2>2 DEF KeysIn
  <2> QED BY <2>1, <2>2
<1>4. /\ x # NULL => b \in Buckets /\ x \in ToSet(ChainKeys(t2, b))
      /\ InBucket(t2, b, x) = InBucket(t, b, x)
  BY <1>3, NothingAhead DEF GoesOn
<1>5. GoesOn(t2, c, b, x, n)
  BY <1>2, <1>4 DEF GoesOn
<1>6. InLater(t, c) \subseteq InLater(t2, c)
  BY <1>1, <1>2 DEF InLater, KeysIn
<1> QED BY <1>4, <1>5, <1>6 DEF Ahead

-----------------------------------------------------------------------------
(***************************************************************************)
(* What has been met and what is ahead make up the keys there were.        *)
(***************************************************************************)
VisitInv ==
  walk # NULL =>
    /\ GoesOn(table, walk.nextBucket, walk.bucket, walk.next, walk.visited)
    /\ walk.start \subseteq
         ToSet(walk.visited) \cup Ahead(table, walk.nextBucket, walk.bucket, walk.next)
    /\ walk.key # NULL => walk.key \in ToSet(walk.visited)

IterInv ==
  iterator # NULL =>
    /\ table # NULL
    /\ iterator \in Iterator
    /\ GoesOn(table, iterator.nextBucket, iterator.bucket,
              iterator.element, iterator.seen)
    /\ ToSet(iterator.seen)
         \cup Ahead(table, iterator.nextBucket, iterator.bucket, iterator.element)
       = KeysIn(table)
    /\ iterator.ended => iterator.nextBucket = NULL /\ iterator.element = NULL

\* A change the callback makes, and one made while no walk is on.
LEMMA ChangeVisitInv ==
  ASSUME IInv, VisitInv, table # NULL, NEW k \in Keys, UNCHANGED walk,
         walk # NULL => k = walk.key \/ ~Holds(table, k),
         \/ table' = DeletedEntry(table, k)
         \/ \E v \in Values : table' = InsertedEntry(table, k, v)
  PROVE  VisitInv'
<1> SUFFICES ASSUME walk # NULL PROVE VisitInv'
  BY DEF VisitInv
<1> DEFINE c == walk.nextBucket
           b == walk.bucket
           x == walk.next
           n == walk.visited
<1>1. /\ TableInv(table) /\ GoesOn(table, c, b, x, n)
      /\ walk.start \subseteq ToSet(n) \cup Ahead(table, c, b, x)
      /\ walk.key # NULL => walk.key \in ToSet(n)
  BY DEF IInv, VisitInv
<1>2. k \in ToSet(n) \/ ~Holds(table, k)
  BY <1>1, NoNull
<1>3. /\ \A d \in ToSet(table.nonempty) :
           (Holds(table, k) => BucketOf[k] \notin FromOn(table.nonempty, d))
           => /\ d \in ToSet(table'.nonempty)
              /\ FromOn(table'.nonempty, d) = FromOn(table.nonempty, d)
      /\ \A d \in Buckets : \A y \in ToSet(ChainKeys(table, d)) :
           k \notin InBucket(table, d, y)
           => /\ y \in ToSet(ChainKeys(table', d))
              /\ InBucket(table', d, y) = InBucket(table, d, y)
      /\ KeysIn(table) \ {k} \subseteq KeysIn(table')
  <2>1. CASE table' = DeletedEntry(table, k)
    BY <1>1, <2>1, DeletedKept, DeletedIsGone
  <2>2. ASSUME NEW v \in Values, table' = InsertedEntry(table, k, v)
        PROVE  <1>3!:
    BY <1>1, <2>2, InsertedKept, InsertedIsFound
  <2> QED BY <2>1, <2>2
<1> HIDE DEF c, b, x, n
<1>4. GoesOn(table', c, b, x, n) /\ Ahead(table, c, b, x) \subseteq Ahead(table', c, b, x)
  BY <1>1, <1>2, <1>3, GoesOnKept
<1> QED BY <1>1, <1>4 DEF VisitInv, c, b, x, n

LEMMA InitVisitInv == Init => VisitInv /\ IterInv
BY DEF Init, VisitInv, IterInv

LEMMA NextVisitInv == IInv /\ VisitInv /\ [Next]_vars => VisitInv'
<1> SUFFICES ASSUME IInv, VisitInv, [Next]_vars PROVE VisitInv'
  OBVIOUS
<1>1. ASSUME NEW k \in Keys, NEW v \in Values, InsertEntry(k, v) PROVE VisitInv'
  <2>1. /\ table # NULL /\ table' = InsertedEntry(table, k, v) /\ walk' = walk
        /\ walk # NULL => k = walk.key \/ ~Holds(table, k)
    BY <1>1 DEF InsertEntry, MayInsert, MayChange
  <2> QED BY <2>1, ChangeVisitInv
<1>2. ASSUME NEW k \in Keys, DeleteEntry(k) PROVE VisitInv'
  <2>1. /\ table # NULL /\ table' = DeletedEntry(table, k) /\ walk' = walk
        /\ walk # NULL => k = walk.key
    BY <1>2 DEF DeleteEntry, MayChange
  <2> QED BY <2>1, ChangeVisitInv
<1>3. CASE DeleteHash \/ CreateHash
  BY <1>3 DEF DeleteHash, CreateHash, VisitInv, IInv, WalkInv
<1>4. ASSUME table' = table, walk' = walk PROVE VisitInv'
  BY <1>4 DEF VisitInv
<1>5. CASE StartForeach
  <2>1. /\ table # NULL /\ table' = table /\ TableInv(table)
        /\ walk' = [bucket |-> NULL, nextBucket |-> First(table.nonempty),
                    next |-> NULL, key |-> NULL,
                    visited |-> <<>>, start |-> KeysIn(table)]
    BY <1>5 DEF StartForeach, IInv
  <2> QED BY <2>1, AtTheStart DEF VisitInv
<1>6. CASE ForeachBucket
  <2> DEFINE nb == walk.nextBucket
             next == First(ChainKeys(table, nb))
             after == After(table.nonempty, nb)
  <2>1. /\ walk # NULL /\ nb # NULL /\ walk.next = NULL /\ table' = table
        /\ walk' = [walk EXCEPT !.bucket = nb, !.nextBucket = after, !.next = next]
        /\ TableInv(table) /\ walk \in Walk
    BY <1>6 DEF ForeachBucket, IInv, WalkInv, ChainKeys
  <2>2. /\ GoesOn(table, nb, walk.bucket, NULL, walk.visited)
        /\ walk.start \subseteq
             ToSet(walk.visited) \cup Ahead(table, nb, walk.bucket, NULL)
        /\ walk.key # NULL => walk.key \in ToSet(walk.visited)
    BY <2>1 DEF VisitInv
  <2>3. /\ GoesOn(table, after, nb, next, walk.visited)
        /\ Ahead(table, after, nb, next) = Ahead(table, nb, walk.bucket, NULL)
    BY <2>1, <2>2, NextBucketOn
  <2> HIDE DEF nb, next, after
  <2>4. /\ walk'.bucket = nb /\ walk'.nextBucket = after /\ walk'.next = next
        /\ walk'.key = walk.key /\ walk'.visited = walk.visited
        /\ walk'.start = walk.start
    BY <2>1 DEF Walk
  <2> QED BY <2>1, <2>2, <2>3, <2>4 DEF VisitInv
<1>7. CASE ForeachEntry
  <2> DEFINE key == walk.next
             next == After(ChainKeys(table, walk.bucket), key)
             visited == Append(walk.visited, key)
  <2>1. /\ walk # NULL /\ key # NULL /\ table' = table
        /\ walk' = [walk EXCEPT !.key = key, !.next = next, !.visited = visited]
        /\ TableInv(table) /\ walk \in Walk
    BY <1>7 DEF ForeachEntry, IInv, WalkInv, ChainKeys
  <2>2. /\ GoesOn(table, walk.nextBucket, walk.bucket, key, walk.visited)
        /\ walk.start \subseteq ToSet(walk.visited)
             \cup Ahead(table, walk.nextBucket, walk.bucket, key)
        /\ walk.visited \in Seq(Keys)
    BY <2>1 DEF VisitInv, Walk
  <2>3. /\ GoesOn(table, walk.nextBucket, walk.bucket, next, visited)
        /\ ToSet(visited) = ToSet(walk.visited) \cup {key}
        /\ Ahead(table, walk.nextBucket, walk.bucket, key) \subseteq
             Ahead(table, walk.nextBucket, walk.bucket, next) \cup {key}
    <3>1. next = After(ChainKeys(table, walk.bucket), key)
          /\ visited = Append(walk.visited, key)
      OBVIOUS
    <3>2. TableInv(table) /\ key # NULL
      BY <2>1
    <3> HIDE DEF key, next, visited
    <3>3. OneElementOn(table, walk.nextBucket, walk.bucket, key, walk.visited,
                       next, visited)
      BY <2>2, <3>1, <3>2, NextElement
    <3> QED BY <3>3 DEF OneElementOn
  <2> HIDE DEF key, next, visited
  <2>4. /\ walk'.bucket = walk.bucket /\ walk'.nextBucket = walk.nextBucket
        /\ walk'.next = next /\ walk'.key = key /\ walk'.visited = visited
        /\ walk'.start = walk.start
    BY <2>1 DEF Walk
  <2> QED BY <2>1, <2>2, <2>3, <2>4 DEF VisitInv
<1>8. CASE CallbackReturns
  <2>1. /\ walk' = [walk EXCEPT !.key = NULL] /\ table' = table /\ walk # NULL
        /\ walk \in Walk
    BY <1>8 DEF CallbackReturns, InCallback, IInv, WalkInv
  <2>2. /\ walk'.bucket = walk.bucket /\ walk'.nextBucket = walk.nextBucket
        /\ walk'.next = walk.next /\ walk'.key = NULL
        /\ walk'.visited = walk.visited /\ walk'.start = walk.start
    BY <2>1 DEF Walk
  <2> QED BY <2>1, <2>2 DEF VisitInv
<1>9. CASE EndForeach
  BY <1>9 DEF EndForeach, VisitInv
<1> QED BY <1>1, <1>2, <1>3, <1>4, <1>5, <1>6, <1>7, <1>8, <1>9
           DEF Next, vars, LookupEntry, InitIterator, IterateNext

LEMMA NextIterInv == IInv /\ IterInv /\ [Next]_vars => IterInv'
<1> SUFFICES ASSUME IInv, IterInv, [Next]_vars PROVE IterInv'
  OBVIOUS
<1>1. ASSUME iterator' = NULL PROVE IterInv'
  BY <1>1 DEF IterInv
<1>2. ASSUME table' = table, iterator' = iterator PROVE IterInv'
  BY <1>2 DEF IterInv
<1>3. CASE CreateHash
  BY <1>1, <1>3 DEF CreateHash, IterInv
<1>4. CASE InitIterator
  <2> DEFINE b == First(table.nonempty)
             c == IF b = NULL THEN NULL ELSE After(table.nonempty, b)
             x == IF b = NULL THEN NULL ELSE First(KeysOf(table.buckets[b]))
  <2>1. /\ table # NULL /\ table' = table /\ TableInv(table)
        /\ iterator' = [bucket |-> b, nextBucket |-> c, element |-> x,
                        seen |-> <<>>, ended |-> FALSE]
    BY <1>4 DEF InitIterator, IInv
  <2>2. /\ GoesOn(table, b, NULL, NULL, <<>>)
        /\ Ahead(table, b, NULL, NULL) = KeysIn(table)
    BY <2>1, AtTheStart
  <2>3. b # NULL => b \in Buckets /\ b \in ToSet(table.nonempty)
    BY <2>1, <2>2, NonemptyIs DEF GoesOn
  <2>4. b # NULL => x = First(ChainKeys(table, b))
    BY <2>1, <2>3 DEF ChainKeys, Chain, TableInv
  <2>5. GoesOn(table, c, b, x, <<>>) /\ Ahead(table, c, b, x) = KeysIn(table)
    <3>1. CASE b = NULL
      BY <3>1, <2>2
    <3>2. CASE b # NULL
      BY <3>2, <2>1, <2>2, <2>4, NextBucketOn
    <3> QED BY <3>1, <3>2
  <2>6. c \in Buckets \cup {NULL} /\ x \in Keys \cup {NULL}
    <3>1. c # NULL => c \in ToSet(table.nonempty)
      BY <2>5 DEF GoesOn
    <3>2. x # NULL => b \in Buckets /\ x \in ToSet(ChainKeys(table, b))
      BY <2>5 DEF GoesOn
    <3> HIDE DEF b, c, x
    <3> QED BY <3>1, <3>2, <2>1, NonemptyIs, ChainKeysAre DEF KeysIn
  <2> HIDE DEF b, c, x
  <2>7. iterator' \in Iterator
    BY <2>1, <2>3, <2>6 DEF Iterator
  <2>8. ToSet(<<>>) = {}
    BY EmptyChain
  <2> QED BY <2>1, <2>5, <2>7, <2>8 DEF IterInv
<1>5. CASE IterateNext
  <2> DEFINE it == iterator
             b == it.nextBucket
             key == IF it.element # NULL \/ b = NULL THEN it.element
                    ELSE First(KeysOf(table.buckets[b]))
             bucket == IF it.element # NULL \/ b = NULL THEN it.bucket ELSE b
             c == IF bucket = it.bucket THEN b ELSE After(table.nonempty, b)
             y == After(KeysOf(table.buckets[bucket]), key)
  <2>1. /\ it # NULL /\ table' = table /\ table # NULL /\ TableInv(table)
        /\ iterator' = IF key = NULL THEN [it EXCEPT !.ended = TRUE]
                       ELSE [it EXCEPT !.bucket = bucket, !.nextBucket = c,
                                       !.element = y, !.seen = Append(@, key)]
        /\ it \in Iterator /\ ~it.ended
        /\ GoesOn(table, b, it.bucket, it.element, it.seen)
        /\ ToSet(it.seen) \cup Ahead(table, b, it.bucket, it.element) = KeysIn(table)
    BY <1>5 DEF IterateNext, IterInv, IInv
  <2>2. /\ it.seen \in Seq(Keys) /\ b \in Buckets \cup {NULL}
        /\ it.bucket \in Buckets \cup {NULL}
    BY <2>1 DEF Iterator
  \* The element at hand, or the first of the next bucket.
  <2>3. key # NULL =>
          /\ GoesOn(table, c, bucket, key, it.seen)
          /\ Ahead(table, c, bucket, key) = Ahead(table, b, it.bucket, it.element)
    <3>1. CASE it.element # NULL
      BY <3>1, <2>1
    <3>2. CASE it.element = NULL /\ b # NULL
      <4>1. b \in FromOn(table.nonempty, b) /\ b \in ToSet(table.nonempty)
        BY <3>2, <2>1, NonemptyIs, NoNull, FromAfter DEF GoesOn
      <4>2. bucket = b /\ bucket # it.bucket /\ c = After(table.nonempty, b)
        BY <3>2, <4>1, <2>1 DEF GoesOn
      <4>3. key = First(ChainKeys(table, b))
        BY <3>2, <4>1, <2>1 DEF ChainKeys, Chain, TableInv
      <4> HIDE DEF it, b, key, bucket, c
      <4> QED BY <3>2, <4>2, <4>3, <2>1, NextBucketOn
    <3>3. CASE it.element = NULL /\ b = NULL
      BY <3>3
    <3> QED BY <3>1, <3>2, <3>3
  <2>4. CASE key = NULL
    <3>1. it.element = NULL /\ b = NULL
      <4>1. CASE it.element # NULL \/ b = NULL
        BY <4>1, <2>4
      <4>2. CASE it.element = NULL /\ b # NULL
        <5>1. b \in ToSet(table.nonempty) /\ b \in Buckets
          BY <4>2, <2>1, NonemptyIs DEF GoesOn
        <5>2. key = First(ChainKeys(table, b))
          BY <4>2, <5>1, <2>1 DEF ChainKeys, Chain, TableInv
        <5> HIDE DEF key
        <5> QED BY <4>2, <5>2, <2>1, <2>4, NextBucketOn
      <4> QED BY <4>1, <4>2
    <3>2. iterator' = [it EXCEPT !.ended = TRUE]
      BY <2>1, <2>4
    <3> HIDE DEF key, bucket, c, y
    <3>3. /\ iterator'.nextBucket = b /\ iterator'.bucket = it.bucket
          /\ iterator'.element = it.element /\ iterator'.seen = it.seen
          /\ iterator' \in Iterator
      BY <2>1, <3>2 DEF Iterator
    <3> QED BY <2>1, <3>1, <3>3, NoNull DEF IterInv
  <2>5. CASE key # NULL
    <3>1. GoesOn(table, c, bucket, key, it.seen)
          /\ ToSet(it.seen) \cup Ahead(table, c, bucket, key) = KeysIn(table)
      BY <2>1, <2>3, <2>5
    <3>2. bucket \in Buckets /\ y = After(ChainKeys(table, bucket), key)
      <4>1. bucket \in Buckets /\ key \in ToSet(ChainKeys(table, bucket))
        BY <3>1, <2>5 DEF GoesOn
      <4>2. bucket \in ToSet(table.nonempty)
        <5>1. \E k \in KeysIn(table) : BucketOf[k] = bucket
          BY <4>1, <2>1, ChainKeysAre
        <5> QED BY <5>1, <2>1, NonemptyIs
      <4>3. KeysOf(table.buckets[bucket]) = ChainKeys(table, bucket)
        BY <4>1, <4>2, <2>1 DEF ChainKeys, Chain, TableInv
      <4> QED BY <4>1, <4>3
    <3>3. iterator' = [it EXCEPT !.bucket = bucket, !.nextBucket = c,
                                 !.element = y, !.seen = Append(@, key)]
      BY <2>1, <2>5
    <3> HIDE DEF key, bucket, c, y
    <3> DEFINE n == Append(it.seen, key)
    <3>4. /\ GoesOn(table, c, bucket, y, n)
          /\ ToSet(n) \cup Ahead(table, c, bucket, y) = KeysIn(table)
          /\ key \in KeysIn(table)
      <4>1. /\ GoesOn(table, c, bucket, y, n)
            /\ ToSet(n) = ToSet(it.seen) \cup {key}
            /\ Ahead(table, c, bucket, key) \subseteq
                 Ahead(table, c, bucket, y) \cup {key}
            /\ Ahead(table, c, bucket, y) \subseteq Ahead(table, c, bucket, key)
            /\ key \in KeysIn(table)
        <5>1. n = Append(it.seen, key)
          OBVIOUS
        <5>2. TableInv(table) /\ it.seen \in Seq(Keys)
          BY <2>1, <2>2
        <5> HIDE DEF n, it
        <5>3. OneElementOn(table, c, bucket, key, it.seen, y, n)
          BY <5>1, <5>2, <2>5, <3>1, <3>2, NextElement
        <5> QED BY <5>3 DEF OneElementOn
      <4> HIDE DEF n
      <4> QED BY <4>1, <3>1
    <3>5. c \in Buckets \cup {NULL} /\ y \in Keys \cup {NULL}
      <4>1. /\ c # NULL => c \in ToSet(table.nonempty)
            /\ y # NULL => y \in ToSet(ChainKeys(table, bucket))
        BY <3>4 DEF GoesOn
      <4> QED BY <4>1, <2>1, <3>2, NonemptyIs, ChainKeysAre DEF KeysIn
    <3>6. n \in Seq(Keys)
      BY <2>2, <3>4 DEF KeysIn
    <3>7. iterator' = [it EXCEPT !.bucket = bucket, !.nextBucket = c,
                                 !.element = y, !.seen = n]
      BY <3>3
    <3> HIDE DEF n
    <3>8. /\ iterator'.nextBucket = c /\ iterator'.bucket = bucket
          /\ iterator'.element = y /\ iterator'.seen = n
          /\ iterator'.ended = it.ended /\ iterator' \in Iterator
      BY <2>1, <3>2, <3>5, <3>6, <3>7 DEF Iterator
    <3> QED BY <2>1, <3>4, <3>8 DEF IterInv
  <2> QED BY <2>4, <2>5
<1> QED BY <1>1, <1>2, <1>3, <1>4, <1>5
           DEF Next, vars, LookupEntry, InsertEntry, DeleteEntry, DeleteHash,
               StartForeach, ForeachBucket, ForeachEntry, CallbackReturns, EndForeach

\* foreach_hash calls back for every entry that was there when it began, once,
\* although the callback deletes the entry, replaces it or inserts others.
THEOREM WalkVisitsOnce == Spec => []ForeachVisitsOnce
<1>1. IInv /\ VisitInv => ForeachVisitsOnce
  <2> SUFFICES ASSUME VisitInv, walk # NULL PROVE ForeachVisitsOnce
    BY DEF ForeachVisitsOnce
  <2>1. IsInjective(walk.visited)
    BY DEF VisitInv, GoesOn
  <2>2. AtEnd => walk.start \subseteq ToSet(walk.visited)
    BY NothingAhead DEF VisitInv, AtEnd
  <2> QED BY <2>1, <2>2 DEF ForeachVisitsOnce
<1> QED BY <1>1, Invariance, InitVisitInv, NextVisitInv, PTL DEF Spec

\* init_hash_iterator and iterate_hash_next return every key of a table that is
\* left alone, each once, before they return NULL.
THEOREM IteratorVisitsAll == Spec => []IteratorReturnsAll
<1>1. IInv /\ IterInv => IteratorReturnsAll
  <2> SUFFICES ASSUME IterInv, iterator # NULL PROVE IteratorReturnsAll
    BY DEF IteratorReturnsAll
  <2>1. IsInjective(iterator.seen)
    BY DEF IterInv, GoesOn
  <2>2. iterator.ended => ToSet(iterator.seen) = KeysIn(table)
    BY NothingAhead DEF IterInv
  <2> QED BY <2>1, <2>2 DEF IteratorReturnsAll
<1> QED BY <1>1, Invariance, InitVisitInv, NextIterInv, PTL DEF Spec

\* Every variable keeps the values the code can put there; a lookup, an
\* insertion or a deletion answers with a value of the table or with NULL.
THEOREM TypeCorrect == Spec => []TypeOK
<1> DEFINE Answers == [op : {"insert", "lookup", "delete"}, value : Values \cup {NULL}]
           ReturnedOK == returned \in Answers \cup {NULL}
<1>1. ASSUME NEW t, TableInv(t), NEW k \in Keys PROVE Found(t, k) \in Values \cup {NULL}
  <2>1. CASE ~Holds(t, k)
    BY <1>1, <2>1, FoundIs
  <2>2. CASE Holds(t, k)
    <3>1. PICK e \in EntriesOf(t, BucketOf[k]) : e.key = k /\ Found(t, k) = e.value
      BY <1>1, <2>2, FoundIs
    <3>2. e \in Entry
      BY <1>1, ChainIs, NoNull
    <3> QED BY <3>1, <3>2 DEF Entry
  <2> QED BY <2>1, <2>2
<1>2. Init => ReturnedOK
  BY DEF Init
<1>3. IInv /\ ReturnedOK /\ [Next]_vars => ReturnedOK'
  <2> SUFFICES ASSUME IInv, ReturnedOK, [Next]_vars PROVE ReturnedOK'
    OBVIOUS
  <2>1. ASSUME NEW k \in Keys, table # NULL,
               NEW op \in {"insert", "lookup", "delete"},
               returned' = Answer(op, Found(table, k))
        PROVE  ReturnedOK'
    <3>1. Found(table, k) \in Values \cup {NULL}
      BY <1>1, <2>1 DEF IInv
    <3> QED BY <2>1, <3>1 DEF Answer
  <2>2. ASSUME NEW k \in Keys, NEW v \in Values, InsertEntry(k, v) PROVE ReturnedOK'
    BY <2>1, <2>2 DEF InsertEntry
  <2>3. ASSUME NEW k \in Keys, LookupEntry(k) \/ DeleteEntry(k) PROVE ReturnedOK'
    BY <2>1, <2>3 DEF LookupEntry, DeleteEntry
  <2>4. CASE returned' = returned \/ returned' = NULL
    BY <2>4
  <2> QED BY <2>2, <2>3, <2>4
             DEF Next, vars, DeleteHash, CreateHash, StartForeach, ForeachBucket,
                 ForeachEntry, CallbackReturns, EndForeach, InitIterator, IterateNext
<1>4. IInv /\ IterInv /\ ReturnedOK => TypeOK
  BY DEF IInv, WalkInv, TableInv, IterInv, TypeOK
<1> QED BY <1>2, <1>3, <1>4, Invariance, InitVisitInv, NextIterInv, PTL DEF Spec
=============================================================================
