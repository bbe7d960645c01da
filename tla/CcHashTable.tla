---------------------------- MODULE CcHashTable ----------------------------
(***************************************************************************)
(* The hash table of lib/cc_hash_table.c: buckets that are lists of        *)
(* entries, created and deleted on demand, and the list of the buckets     *)
(* that are not empty, along which foreach_hash and the iterator go.       *)
(*                                                                         *)
(* Insert, lookup and delete hold the table's mutex from end to end and    *)
(* are one step.  foreach_hash holds it too, but calls back after each     *)
(* entry; the mutex is recursive, so that the callback may change the      *)
(* table while the walk keeps two pointers into it.  The callback deletes  *)
(* or replaces the key it was given, which the walk has moved past, or     *)
(* inserts keys that are not there; another key's element may be the one   *)
(* the walk has saved.  An iterator takes no lock and is given up when the *)
(* table is modified, as the comment on init_hash_iterator asks.           *)
(*                                                                         *)
(* Keys are unique in a bucket and buckets in the list (TableConsistent),  *)
(* so an element is named by its key and an element of the list by its     *)
(* bucket.                                                                 *)
(***************************************************************************)
EXTENDS Naturals, Sequences, FiniteSets, SequencesExt

CONSTANTS Keys, Values, Buckets,
          BucketOf,  \* get_bucket_index: the bucket of each key
          NULL

Entry == [key : Keys, value : Values]
Table == [buckets : [Buckets -> Seq(Entry) \cup {NULL}],
          nonempty : Seq(Buckets), length : Nat]

ASSUME TableAssumption == /\ BucketOf \in [Keys -> Buckets]
                          /\ NULL \notin Keys \cup Values \cup Buckets
                          /\ NULL \notin Seq(Entry)
                          /\ NULL \notin Table

VARIABLES table,     \* the hash_table
          walk,      \* foreach_hash, NULL while no walk is on
          iterator,  \* a hash_iterator, NULL while none is valid
          returned   \* history: the last operation and what it returned

vars == <<table, walk, iterator, returned>>

Answer(op, v) == [op |-> op, value |-> v]

\* create_hash_with_size.
NewTable == [buckets |-> [b \in Buckets |-> NULL], nonempty |-> <<>>, length |-> 0]

-----------------------------------------------------------------------------
(***************************************************************************)
(* The table's functions on lists.                                         *)
(***************************************************************************)
\* The element after the one that holds x, or the first.
First(s) == IF s = <<>> THEN NULL ELSE Head(s)
After(s, x) ==
  LET i == CHOOSE j \in DOMAIN s : s[j] = x
  IN IF i = Len(s) THEN NULL ELSE s[i + 1]

\* A bucket as a list, the keys in it, and the value of a key.
Chain(t, b) == IF t.buckets[b] = NULL THEN <<>> ELSE t.buckets[b]
KeysOf(s) == [i \in DOMAIN s |-> s[i].key]
Holds(t, k) == k \in ToSet(KeysOf(Chain(t, BucketOf[k])))

\* The loop that looks for a key: the first entry that has it.
PlaceOf(s, k) == CHOOSE i \in DOMAIN s : /\ s[i].key = k
                                        /\ \A j \in 1 .. i - 1 : s[j].key # k
Found(t, k) ==
  LET chain == Chain(t, BucketOf[k])
  IN IF Holds(t, k) THEN chain[PlaceOf(chain, k)].value ELSE NULL

\* Mutation: the list of buckets keeps one that has been deleted.
DeletedBucketButIndex(t, b) == [t EXCEPT !.buckets[b] = NULL]

NewBucket(t, b) ==
  [t EXCEPT !.buckets[b] = <<>>, !.nonempty = Cons(b, @)]
DeletedBucket(t, b) ==
  [t EXCEPT !.buckets[b] = NULL, !.nonempty = RemoveFirst(@, b)]

\* delete_hash_entry: a bucket that has become empty is deleted.
DeletedEntry(t, k) ==
  LET b == BucketOf[k]
      rest == RemoveAt(Chain(t, b), PlaceOf(Chain(t, b), k))
      removed == [t EXCEPT !.buckets[b] = rest, !.length = @ - 1]
  IN IF ~Holds(t, k) THEN t
     ELSE IF rest = <<>> THEN DeletedBucket(removed, b) ELSE removed

\* Mutation: new entries are put at the end.
InsertedAtTail(t, k, v) ==
  LET b == BucketOf[k]
      without == DeletedEntry(t, k)
      ready == IF without.buckets[b] = NULL THEN NewBucket(without, b) ELSE without
  IN [ready EXCEPT !.buckets[b] = Append(@, [key |-> k, value |-> v]),
                   !.length = @ + 1]

\* Mutation: the old entry of the key is left behind the new one.
InsertedOverOld(t, k, v) ==
  LET b == BucketOf[k]
      ready == IF t.buckets[b] = NULL THEN NewBucket(t, b) ELSE t
  IN [ready EXCEPT !.buckets[b] = Cons([key |-> k, value |-> v], @),
                   !.length = @ + 1]

\* insert_hash_entry: the old entry, and its bucket if it was alone, go before
\* the new one is put in front.
InsertedEntry(t, k, v) ==
  LET b == BucketOf[k]
      without == DeletedEntry(t, k)
      ready == IF without.buckets[b] = NULL THEN NewBucket(without, b) ELSE without
  IN [ready EXCEPT !.buckets[b] = Cons([key |-> k, value |-> v], @),
                   !.length = @ + 1]

KeysIn(t) == {k \in Keys : Holds(t, k)}

-----------------------------------------------------------------------------
(***************************************************************************)
(* The operations.                                                         *)
(***************************************************************************)
Init == /\ table = NewTable
        /\ walk = NULL
        /\ iterator = NULL
        /\ returned = NULL

\* While a walk is on, only its callback gets the mutex; it changes the key it
\* was given, or inserts one that is not in the table.
InCallback == walk # NULL /\ walk.key # NULL
MayRead == walk = NULL \/ InCallback
MayChange(k) == MayRead /\ (walk # NULL => k = walk.key)
MayInsert(k) == MayChange(k) \/ (MayRead /\ ~Holds(table, k))

InsertEntry(k, v) ==
  /\ table # NULL
  /\ MayInsert(k)
  /\ returned' = Answer("insert", Found(table, k))
  /\ table' = InsertedEntry(table, k, v)
  /\ iterator' = NULL
  /\ UNCHANGED walk

LookupEntry(k) ==
  /\ table # NULL
  /\ MayRead
  /\ returned' = Answer("lookup", Found(table, k))
  /\ UNCHANGED <<table, walk, iterator>>

DeleteEntry(k) ==
  /\ table # NULL
  /\ MayChange(k)
  /\ returned' = Answer("delete", Found(table, k))
  /\ table' = DeletedEntry(table, k)
  /\ iterator' = NULL
  /\ UNCHANGED walk

\* delete_hash, and create_hash again.
DeleteHash ==
  /\ table # NULL
  /\ walk = NULL
  /\ table' = NULL
  /\ iterator' = NULL
  /\ returned' = NULL
  /\ UNCHANGED walk

CreateHash ==
  /\ table = NULL
  /\ table' = NewTable
  /\ UNCHANGED <<walk, iterator, returned>>

\* foreach_hash: the two pointers kept, the key the callback is at work on,
\* and two histories, of the visits and of the keys there were.
StartForeach ==
  /\ table # NULL
  /\ walk = NULL
  /\ walk' = [bucket |-> NULL, nextBucket |-> First(table.nonempty),
              next |-> NULL, key |-> NULL,
              visited |-> <<>>, start |-> KeysIn(table)]
  /\ UNCHANGED <<table, iterator, returned>>

ForeachBucket ==
  /\ walk # NULL
  /\ walk.key = NULL
  /\ walk.next = NULL
  /\ walk.nextBucket # NULL
  /\ walk' = [walk EXCEPT
                !.bucket = walk.nextBucket,
                !.nextBucket = After(table.nonempty, walk.nextBucket),
                !.next = First(KeysOf(Chain(table, walk.nextBucket)))]
  /\ UNCHANGED <<table, iterator, returned>>

\* Mutation: the walk keeps the element it calls back for.
ForeachEntryKept ==
  /\ walk # NULL
  /\ walk.key = NULL
  /\ walk.next # NULL
  /\ walk' = [walk EXCEPT !.key = walk.next,
                          !.visited = Append(@, walk.next)]
  /\ UNCHANGED <<table, iterator, returned>>

ForeachEntry ==
  /\ walk # NULL
  /\ walk.key = NULL
  /\ walk.next # NULL
  /\ walk' = [walk EXCEPT
                !.key = walk.next,
                !.next = After(KeysOf(Chain(table, walk.bucket)), walk.next),
                !.visited = Append(@, walk.next)]
  /\ UNCHANGED <<table, iterator, returned>>

CallbackReturns ==
  /\ InCallback
  /\ walk' = [walk EXCEPT !.key = NULL]
  /\ UNCHANGED <<table, iterator, returned>>

AtEnd == walk # NULL /\ walk.key = NULL /\ walk.next = NULL /\ walk.nextBucket = NULL

EndForeach ==
  /\ AtEnd
  /\ walk' = NULL
  /\ UNCHANGED <<table, iterator, returned>>

\* Mutation: the iterator is set up a bucket ahead.
InitIteratorAhead ==
  /\ table # NULL
  /\ walk = NULL
  /\ LET b == First(table.nonempty)
         c == IF b = NULL THEN NULL ELSE After(table.nonempty, b)
     IN iterator' =
          [bucket |-> b,
           nextBucket |-> IF c = NULL THEN NULL ELSE After(table.nonempty, c),
           element |-> IF b = NULL THEN NULL ELSE First(KeysOf(table.buckets[b])),
           seen |-> <<>>, ended |-> FALSE]
  /\ UNCHANGED <<table, walk, returned>>

\* init_hash_iterator and iterate_hash_next; the history is of what it returned.
InitIterator ==
  /\ table # NULL
  /\ walk = NULL
  /\ LET b == First(table.nonempty)
     IN iterator' =
          [bucket |-> b,
           nextBucket |-> IF b = NULL THEN NULL ELSE After(table.nonempty, b),
           element |-> IF b = NULL THEN NULL ELSE First(KeysOf(table.buckets[b])),
           seen |-> <<>>, ended |-> FALSE]
  /\ UNCHANGED <<table, walk, returned>>

\* The turn of the loop that returns, after the buckets it goes through.
IterateNext ==
  /\ iterator # NULL
  /\ walk = NULL
  /\ ~iterator.ended
  /\ LET it == iterator
         b == it.nextBucket
         key == IF it.element # NULL \/ b = NULL THEN it.element
                ELSE First(KeysOf(table.buckets[b]))
         bucket == IF it.element # NULL \/ b = NULL THEN it.bucket ELSE b
     IN iterator' =
          IF key = NULL
          THEN [it EXCEPT !.ended = TRUE]
          ELSE [it EXCEPT !.bucket = bucket,
                          !.nextBucket = IF bucket = it.bucket THEN @
                                         ELSE After(table.nonempty, b),
                          !.element = After(KeysOf(table.buckets[bucket]), key),
                          !.seen = Append(@, key)]
  /\ UNCHANGED <<table, walk, returned>>

Next == \/ \E k \in Keys : \/ LookupEntry(k) \/ DeleteEntry(k)
                           \/ \E v \in Values : InsertEntry(k, v)
        \/ DeleteHash \/ CreateHash
        \/ StartForeach \/ ForeachBucket \/ ForeachEntry
        \/ CallbackReturns \/ EndForeach
        \/ InitIterator \/ IterateNext

Spec == Init /\ [][Next]_vars

-----------------------------------------------------------------------------
(***************************************************************************)
(* Properties.                                                             *)
(***************************************************************************)
Walk == [bucket : Buckets \cup {NULL}, nextBucket : Buckets \cup {NULL},
         next : Keys \cup {NULL}, key : Keys \cup {NULL},
         visited : Seq(Keys), start : SUBSET Keys]
Iterator == [bucket : Buckets \cup {NULL}, nextBucket : Buckets \cup {NULL},
             element : Keys \cup {NULL}, seen : Seq(Keys), ended : BOOLEAN]

\* The type invariant.
TypeOK == /\ table \in Table \cup {NULL}
          /\ walk \in Walk \cup {NULL}
          /\ iterator \in Iterator \cup {NULL}
          /\ returned \in [op : {"insert", "lookup", "delete"},
                          value : Values \cup {NULL}] \cup {NULL}

\* Buckets and their list say the same: the list has the buckets that exist,
\* once each, no bucket is empty, an entry is in its key's bucket, a key has
\* one entry, and length counts the entries.
TableConsistent ==
  table # NULL =>
    /\ IsInjective(table.nonempty)
    /\ ToSet(table.nonempty) = {b \in Buckets : table.buckets[b] # NULL}
    /\ \A b \in ToSet(table.nonempty) :
         /\ table.buckets[b] # <<>>
         /\ IsInjective(KeysOf(table.buckets[b]))
         /\ \A k \in ToSet(KeysOf(table.buckets[b])) : BucketOf[k] = b
    /\ table.length = Cardinality(KeysIn(table))

\* What a walk has saved is still in the table when the callback has returned,
\* whatever it deleted or put in its place.
SavedIsAlive ==
  walk # NULL =>
    /\ walk.next # NULL => Holds(table, walk.next) /\ BucketOf[walk.next] = walk.bucket
    /\ walk.nextBucket # NULL => walk.nextBucket \in ToSet(table.nonempty)

\* A walk calls back once for every key that was there when it began, and
\* never twice for the same key, replaced or not.
ForeachVisitsOnce ==
  walk # NULL =>
    /\ IsInjective(walk.visited)
    /\ AtEnd => walk.start \subseteq ToSet(walk.visited)

\* An iterator on a table left alone returns each key once before NULL.
IteratorReturnsAll ==
  iterator # NULL =>
    /\ IsInjective(iterator.seen)
    /\ iterator.ended => ToSet(iterator.seen) = KeysIn(table)

\* The table keeps what the header promises: the same answers as a map.
Map == IF table = NULL THEN [k \in {} |-> NULL]
       ELSE [k \in KeysIn(table) |-> Found(table, k)]
Keyed == INSTANCE KeyedTable WITH map <- Map
ImplementsKeyedTable == Keyed!Spec
=============================================================================
