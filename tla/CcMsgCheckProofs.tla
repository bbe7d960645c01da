-------------------------- MODULE CcMsgCheckProofs --------------------------
(***************************************************************************)
(* Proofs about CcMsgCheck: what an accepted message is, what its flows or *)
(* queues add up to, and what a validator that never returns was given.    *)
(***************************************************************************)
EXTENDS CcMsgCheck, SequenceTheorems, FiniteSetTheorems, WellFoundedInduction,
        TLAPS

-----------------------------------------------------------------------------
(***************************************************************************)
(* Sums.  The fold over a list takes its elements in an order it chooses;  *)
(* g is what it has when the elements of a set of indices are taken.       *)
(***************************************************************************)
Pick(T) == CHOOSE i \in T : TRUE

Sums(f, S, g) ==
  g = [T \in S |-> IF T = {} THEN 0 ELSE f[Pick(T)] + g[T \ {Pick(T)}]]

\* The sets of at most n indices.
UpTo(I, n) == {T \in SUBSET I : IsFiniteSet(T) /\ Cardinality(T) <= n}

LEMMA FewerIndices ==
  ASSUME NEW I, NEW n \in Nat, NEW T \in UpTo(I, n), NEW i \in T
  PROVE  n # 0 /\ T \ {i} \in UpTo(I, n - 1) /\ T \ {i} \in UpTo(I, n)
<1>1. IsFiniteSet(T) /\ Cardinality(T) <= n /\ Cardinality(T) \in Nat /\ T \in SUBSET I
  BY FS_CardinalityType DEF UpTo
<1>2. IsFiniteSet(T \ {i}) /\ Cardinality(T \ {i}) = Cardinality(T) - 1
  BY <1>1, FS_RemoveElement
<1>3. Cardinality(T \ {i}) \in Nat
  BY <1>2, FS_CardinalityType
<1>4. n # 0 /\ Cardinality(T \ {i}) <= n - 1 /\ Cardinality(T \ {i}) <= n
  BY <1>1, <1>2, <1>3
<1> QED BY <1>1, <1>2, <1>4 DEF UpTo

LEMMA PickIs == ASSUME NEW T, T # {} PROVE Pick(T) \in T
BY DEF Pick

\* The least of the numbers with a property, for proofs by induction.
LEMMA Least ==
  ASSUME NEW N \in SUBSET Nat, N # {}
  PROVE  \E n \in N : \A m \in N : n <= m
<1> DEFINE less == OpToRel(<, Nat)
<1>1. IsWellFoundedOn(less, Nat)
  BY NatLessThanWellFounded
<1>2. \A x, y \in Nat : x < y => <<x, y>> \in less
  BY DEF OpToRel
<1> HIDE DEF less
<1>3. PICK x \in N : \A y \in N : ~ (<<y, x>> \in less)
  BY <1>1, WFMin
<1>4. ASSUME NEW y \in N PROVE x <= y
  <2>1. x \in Nat /\ y \in Nat
    OBVIOUS
  <2>2. ~ (y < x)
    BY <2>1, <1>2, <1>3
  <2> QED BY <2>1, <2>2
<1> QED BY <1>4

\* The recursion has a solution on the sets of at most n indices, for every n.
LEMMA SumsExistUpTo ==
  ASSUME NEW I, NEW f, NEW n \in Nat
  PROVE  \E g : Sums(f, UpTo(I, n), g)
<1> DEFINE N == {m \in Nat : ~ \E g : Sums(f, UpTo(I, m), g)}
<1> SUFFICES ASSUME N # {} PROVE FALSE
  OBVIOUS
<1>1. PICK m \in N : \A q \in N : m <= q
  <2> HIDE DEF N
  <2>1. N \in SUBSET Nat
    BY DEF N
  <2> QED BY <2>1, Least
<1>2. CASE m = 0
  <2> DEFINE g == [T \in UpTo(I, 0) |-> 0]
  <2>1. ASSUME NEW T \in UpTo(I, 0) PROVE T = {}
    BY FewerIndices
  <2>2. Sums(f, UpTo(I, 0), g)
    BY <2>1 DEF Sums
  <2> QED BY <1>1, <1>2, <2>2
<1>3. CASE m # 0
  <2>1. m - 1 \in Nat /\ m - 1 \notin N
    BY <1>1, <1>3
  <2>2. PICK g : Sums(f, UpTo(I, m - 1), g)
    BY <2>1
  <2> DEFINE h == [T \in UpTo(I, m) |->
                     IF T = {} THEN 0 ELSE f[Pick(T)] + g[T \ {Pick(T)}]]
  <2>3. ASSUME NEW T \in UpTo(I, m), T # {}
        PROVE  h[T \ {Pick(T)}] = g[T \ {Pick(T)}]
    <3> DEFINE R == T \ {Pick(T)}
    <3>1. R \in UpTo(I, m - 1) /\ R \in UpTo(I, m)
      BY <2>3, PickIs, FewerIndices
    <3>2. g[R] = IF R = {} THEN 0 ELSE f[Pick(R)] + g[R \ {Pick(R)}]
      BY <2>2, <3>1 DEF Sums
    <3>3. h[R] = IF R = {} THEN 0 ELSE f[Pick(R)] + g[R \ {Pick(R)}]
      BY <3>1
    <3> QED BY <3>2, <3>3
  <2>4. Sums(f, UpTo(I, m), h)
    <3>1. h = [T \in UpTo(I, m) |->
                 IF T = {} THEN 0 ELSE f[Pick(T)] + h[T \ {Pick(T)}]]
      <4> HIDE DEF h
      <4>1. \A T \in UpTo(I, m) : T # {} => h[T \ {Pick(T)}] = g[T \ {Pick(T)}]
        BY <2>3
      <4> QED BY <4>1 DEF h
    <3> HIDE DEF h
    <3> QED BY <3>1 DEF Sums
  <2> QED BY <1>1, <2>4
<1> QED BY <1>2, <1>3

LEMMA SumsExist ==
  ASSUME NEW I, IsFiniteSet(I), NEW f
  PROVE  \E g : Sums(f, SUBSET I, g)
<1>1. Cardinality(I) \in Nat
  BY FS_CardinalityType
<1>2. UpTo(I, Cardinality(I)) = SUBSET I
  BY FS_Subset DEF UpTo
<1>3. \E g : Sums(f, UpTo(I, Cardinality(I)), g)
  BY <1>1, SumsExistUpTo
<1> QED BY <1>2, <1>3

\* Whichever element is taken, the rest adds up to the same.
InAnyOrder(f, S, g) ==
  \A T \in S : g[T] \in Nat /\ \A i \in T : g[T] = f[i] + g[T \ {i}]

LEMMA TakenInAnyOrder ==
  ASSUME NEW I, IsFiniteSet(I), NEW f, \A i \in I : f[i] \in Nat,
         NEW g, Sums(f, SUBSET I, g)
  PROVE  InAnyOrder(f, SUBSET I, g)
<1> DEFINE Good(T) == g[T] \in Nat /\ \A i \in T : g[T] = f[i] + g[T \ {i}]
           N == {n \in Nat : \E T \in SUBSET I : Cardinality(T) = n /\ ~Good(T)}
<1>1. \A T \in SUBSET I : IsFiniteSet(T) /\ Cardinality(T) \in Nat
  BY FS_Subset, FS_CardinalityType
<1> SUFFICES ASSUME N # {} PROVE FALSE
  BY <1>1 DEF InAnyOrder
<1>2. PICK n \in N : \A m \in N : n <= m
  <2> HIDE DEF N
  <2>1. N \in SUBSET Nat
    BY DEF N
  <2> QED BY <2>1, Least
<1>3. PICK T \in SUBSET I : Cardinality(T) = n /\ ~Good(T)
  OBVIOUS
<1>4. \A R \in SUBSET I : Cardinality(R) < n => Good(R)
  <2> SUFFICES ASSUME NEW R \in SUBSET I, Cardinality(R) < n, ~Good(R) PROVE FALSE
    OBVIOUS
  <2> HIDE DEF Good
  <2>1. Cardinality(R) \in N
    BY <1>1
  <2>2. n \in Nat /\ Cardinality(R) \in Nat /\ n <= Cardinality(R)
    BY <2>1, <1>1, <1>2
  <2> QED BY <2>2
<1>5. \A R \in SUBSET I : \A i \in R :
        Cardinality(R \ {i}) < Cardinality(R) /\ R \ {i} \in SUBSET I
  <2> SUFFICES ASSUME NEW R \in SUBSET I, NEW i \in R
               PROVE  Cardinality(R \ {i}) < Cardinality(R) /\ R \ {i} \in SUBSET I
    OBVIOUS
  <2>1. Cardinality(R \ {i}) = Cardinality(R) - 1 /\ Cardinality(R) \in Nat
    BY <1>1, FS_RemoveElement
  <2> QED BY <2>1
<1>6. g[T] = IF T = {} THEN 0 ELSE f[Pick(T)] + g[T \ {Pick(T)}]
  BY DEF Sums
<1>7. CASE T = {}
  BY <1>3, <1>6, <1>7
<1>8. CASE T # {}
  <2> DEFINE p == Pick(T)
  <2>1. p \in T /\ g[T] = f[p] + g[T \ {p}]
    BY <1>6, <1>8, PickIs
  <2> HIDE DEF p
  <2>2. Good(T \ {p})
    BY <2>1, <1>3, <1>4, <1>5
  <2>3. g[T] \in Nat
    BY <2>1, <2>2
  <2>4. ASSUME NEW i \in T, i # p PROVE g[T] = f[i] + g[T \ {i}]
    <3> DEFINE R == T \ {p, i}
    <3>1. g[T \ {p}] = f[i] + g[R]
      <4>1. i \in T \ {p} /\ (T \ {p}) \ {i} = R
        BY <2>4
      <4> QED BY <4>1, <2>2
    <3>2. Good(T \ {i})
      BY <1>3, <1>4, <1>5
    <3>3. g[T \ {i}] = f[p] + g[R]
      <4>1. p \in T \ {i} /\ (T \ {i}) \ {p} = R
        BY <2>1, <2>4
      <4> QED BY <4>1, <3>2
    <3>4. Good(R)
      <4>1. i \in T \ {p} /\ R = (T \ {p}) \ {i} /\ T \ {p} \in SUBSET I
        BY <2>4
      <4>2. Cardinality(R) < Cardinality(T \ {p}) /\ R \in SUBSET I
        BY <4>1, <1>5
      <4>3. Cardinality(T \ {p}) < n
        BY <2>1, <1>3, <1>5
      <4>4. Cardinality(R) < n
        BY <4>1, <4>2, <4>3, <1>1
      <4> HIDE DEF Good, R
      <4> QED BY <4>2, <4>4, <1>4
    <3>5. f[i] \in Nat /\ f[p] \in Nat /\ g[R] \in Nat
      BY <2>1, <3>4
    <3> HIDE DEF R
    <3> QED BY <2>1, <3>1, <3>3, <3>5
  <2> QED BY <1>3, <2>1, <2>3, <2>4
<1> QED BY <1>7, <1>8

\* What is the same for no elements, and for those of a set when it is the same
\* for the rest of them, is the same.
Agree(S, g, k) == \A T \in S : g[T] = k[T]

LEMMA AgreeByRest ==
  ASSUME NEW I, IsFiniteSet(I), NEW g, NEW k, g[{}] = k[{}],
         \A T \in SUBSET I :
           T # {} /\ g[T \ {Pick(T)}] = k[T \ {Pick(T)}] => g[T] = k[T]
  PROVE  Agree(SUBSET I, g, k)
<1> DEFINE N == {n \in Nat : \E T \in SUBSET I : Cardinality(T) = n /\ g[T] # k[T]}
<1>1. \A T \in SUBSET I : IsFiniteSet(T) /\ Cardinality(T) \in Nat
  BY FS_Subset, FS_CardinalityType
<1> SUFFICES ASSUME N # {} PROVE FALSE
  BY <1>1 DEF Agree
<1>2. PICK n \in N : \A m \in N : n <= m
  <2> HIDE DEF N
  <2>1. N \in SUBSET Nat
    BY DEF N
  <2> QED BY <2>1, Least
<1>3. PICK T \in SUBSET I : Cardinality(T) = n /\ g[T] # k[T]
  OBVIOUS
<1>4. T # {} /\ Pick(T) \in T
  BY <1>3, PickIs
<1> DEFINE R == T \ {Pick(T)}
<1>5. R \in SUBSET I /\ Cardinality(R) = Cardinality(T) - 1
  BY <1>1, <1>4, FS_RemoveElement
<1>6. Cardinality(R) \notin N
  <2>1. n \in Nat /\ Cardinality(R) = n - 1
    BY <1>3, <1>5
  <2> HIDE DEF N, R
  <2> QED BY <2>1, <1>2
<1>7. g[R] = k[R]
  <2> HIDE DEF R
  <2> QED BY <1>1, <1>5, <1>6
<1> QED BY <1>3, <1>4, <1>7

\* The elements of a part of the list add up to the same in the whole list.
LEMMA SumsAgree ==
  ASSUME NEW J, IsFiniteSet(J), NEW f, NEW h, \A i \in J : f[i] = h[i],
         NEW g, Sums(f, SUBSET J, g), NEW k, Sums(h, SUBSET J, k)
  PROVE  Agree(SUBSET J, g, k)
<1>1. \A T \in SUBSET J :
        /\ g[T] = IF T = {} THEN 0 ELSE f[Pick(T)] + g[T \ {Pick(T)}]
        /\ k[T] = IF T = {} THEN 0 ELSE h[Pick(T)] + k[T \ {Pick(T)}]
  BY DEF Sums
<1>2. g[{}] = k[{}]
  BY <1>1
<1>3. ASSUME NEW T \in SUBSET J, T # {}, g[T \ {Pick(T)}] = k[T \ {Pick(T)}]
      PROVE  g[T] = k[T]
  <2>1. f[Pick(T)] = h[Pick(T)]
    BY <1>3, PickIs
  <2> QED BY <1>1, <1>3, <2>1
<1> QED BY <1>2, <1>3, AgreeByRest

LEMMA SumIs ==
  ASSUME NEW s
  PROVE  Sum(s) = (CHOOSE g : Sums(s, SUBSET DOMAIN s, g))[DOMAIN s]
BY DEF Sum, FoldSeq, FoldFunction, FoldFunctionOnSet, MapThenFoldSet, Sums, Pick

LEMMA SumOfNone == Sum(<<>>) = 0
<1>1. \E g : Sums(<<>>, SUBSET DOMAIN <<>>, g)
  <2>1. IsFiniteSet(DOMAIN <<>>)
    BY FS_EmptySet
  <2> QED BY <2>1, SumsExist
<1> DEFINE k == CHOOSE g0 : Sums(<<>>, SUBSET DOMAIN <<>>, g0)
<1>2. Sums(<<>>, SUBSET DOMAIN <<>>, k)
  BY <1>1
<1> HIDE DEF k
<1>3. {} \in SUBSET DOMAIN <<>> /\ DOMAIN <<>> = {}
  OBVIOUS
<1>4. k[{}] = 0
  BY <1>2, <1>3 DEF Sums
<1> QED BY <1>3, <1>4, SumIs DEF k

LEMMA SumOfMore ==
  ASSUME NEW s \in Seq(Nat), NEW x \in Nat
  PROVE  Sum(s) \in Nat /\ Sum(Append(s, x)) = Sum(s) + x
<1> DEFINE t == Append(s, x)
           n == Len(s)
           I == 1 .. n
           J == 1 .. n + 1
<1>1. /\ DOMAIN s = I /\ \A i \in I : s[i] \in Nat
      /\ DOMAIN t = J /\ t[n + 1] = x /\ \A i \in I : t[i] = s[i]
  OBVIOUS
<1>2. n \in Nat /\ n + 1 \in J /\ J \ {n + 1} = I /\ I \in SUBSET J
  OBVIOUS
<1>3. IsFiniteSet(I) /\ IsFiniteSet(J)
  BY FS_Interval
<1>4. \A i \in J : t[i] \in Nat
  BY <1>1
<1> HIDE DEF t, n, I, J
<1> DEFINE g == CHOOSE g0 : Sums(s, SUBSET DOMAIN s, g0)
           k == CHOOSE k0 : Sums(t, SUBSET DOMAIN t, k0)
<1>5. Sums(s, SUBSET I, g) /\ Sum(s) = g[I]
  <2>1. \E g0 : Sums(s, SUBSET I, g0)
    BY <1>3, SumsExist
  <2> QED BY <2>1, <1>1, SumIs
<1>6. Sums(t, SUBSET J, k) /\ Sum(t) = k[J]
  <2>1. \E k0 : Sums(t, SUBSET J, k0)
    BY <1>3, SumsExist
  <2> QED BY <2>1, <1>1, SumIs
<1> HIDE DEF g, k
<1>7. \A T \in SUBSET I : g[T] = k[T]
  <2>1. \A i \in I : s[i] = t[i]
    BY <1>1
  <2> DEFINE P == SUBSET I
  <2>2. Sums(t, P, [T \in P |-> k[T]])
    <3>1. \A T \in P : T \in SUBSET J /\ T \ {Pick(T)} \in P
      BY <1>2
    <3>2. \A T \in SUBSET J : k[T] = IF T = {} THEN 0 ELSE t[Pick(T)] + k[T \ {Pick(T)}]
      BY <1>6 DEF Sums
    <3> HIDE DEF P
    <3> QED BY <3>1, <3>2 DEF Sums
  <2>3. Agree(SUBSET I, g, [T \in P |-> k[T]])
    BY <2>1, <2>2, <1>3, <1>5, SumsAgree
  <2> QED BY <2>3 DEF Agree
<1>8. \A T \in SUBSET J : k[T] \in Nat /\ \A i \in T : k[T] = t[i] + k[T \ {i}]
  <2>1. InAnyOrder(t, SUBSET J, k)
    BY <1>3, <1>4, <1>6, TakenInAnyOrder
  <2> QED BY <2>1 DEF InAnyOrder
<1>9. k[J] = x + g[I] /\ g[I] \in Nat
  <2>1. k[J] = t[n + 1] + k[J \ {n + 1}]
    BY <1>2, <1>8
  <2>2. g[I] = k[I] /\ k[I] \in Nat
    BY <1>2, <1>7, <1>8
  <2> QED BY <2>1, <2>2, <1>1, <1>2
<1> QED BY <1>5, <1>6, <1>9 DEF t

-----------------------------------------------------------------------------
(***************************************************************************)
(* The invariant.                                                          *)
(***************************************************************************)
\* The replies whose flows or queues are walked.
WalkedReplies == {"FLOW_REPLY", "QUEUE_GET_CONFIG_REPLY"}

\* The validator a message is handed to.
Handed == /\ msg.header \in Nat /\ msg.length \in Int
          /\ msg.kind \in Kinds /\ by \in HandedTo(msg.kind)

\* A message whose fixed part has been let through.
WholeMessage ==
  /\ by = msg.kind
  /\ by \in Validators
  /\ msg.version
  /\ msg.header = msg.length
  /\ msg.header \in Size[by].min .. Size[by].max
  /\ by \in DOMAIN Arrays =>
       (msg.header - Arrays[by].from) % Arrays[by].size = 0

Walking == pc \notin {"fixed", "done"}

\* Where the walk is, by the validator that walks.
AtItsPart ==
  /\ pc \in {"fixed", "array", "actions", "flow", "count", "queue",
             "properties", "stuck", "astray", "done"}
  /\ pc = "fixed" => result = "NONE"
  /\ Walking \/ result = "SUCCESS" => WholeMessage
  /\ pc = "array" => by \notin WalkedReplies
  /\ pc = "flow" => by = "FLOW_REPLY"
  /\ pc = "actions" => HasActions \/ by = "FLOW_REPLY"
  /\ pc \in {"count", "queue", "properties"} => by = "QUEUE_GET_CONFIG_REPLY"

\* The body is n bytes, or n less as many times 2^16 as what was left wrapped.
AddsUp(n, body, wraps) ==
  (\E k \in Nat : n = body + 65536 * k) /\ (wraps \/ n = body)

Progressing(s) == \A i \in DOMAIN s : s[i] > 0
Fitting(s) == \A i \in DOMAIN s : s[i] <= Max16

\* What has been walked and what is left add up to the body.
AddedUp ==
  /\ lens \in Seq(Nat)
  /\ Fitting(lens)
  /\ pc = "fixed" => lens = <<>>
  /\ pc \in {"flow", "count"} =>
       /\ left \in Nat /\ left <= Max16
       /\ AddsUp(left + Sum(lens), BodyLength, wrapped)
       /\ Progressing(lens)
  /\ pc = "actions" /\ by = "FLOW_REPLY" =>
       /\ left \in Nat /\ left <= Max16
       /\ lens # <<>>
       /\ AddsUp(left + (Sum(lens) - Last(lens)), BodyLength, wrapped)
       /\ Progressing(Front(lens))
  /\ pc \in {"queue", "properties"} => AddsUp(Sum(lens), BodyLength, wrapped) /\ Progressing(lens)
  /\ result = "SUCCESS" /\ by \in WalkedReplies =>
       AddsUp(Sum(lens), BodyLength, wrapped) /\ Progressing(lens)

\* Unless the offset has wrapped, it has passed every item let through.
Passed == /\ offset \in Nat /\ seen \subseteq Nat /\ wrapped \in BOOLEAN
          /\ ~wrapped => \A o \in seen : o < offset

CheckInv == Handed /\ AtItsPart /\ AddedUp /\ Passed /\ StuckOnlyByItsLengths

\* The walk's variables, for leaves that need a list without its fields.
LEMMA UnchangedLists ==
  /\ (UNCHANGED list <=> UNCHANGED <<offset, length, seen>>)
  /\ (UNCHANGED walk <=> UNCHANGED <<left, list, wrapped, lens>>)
BY DEF list, walk

-----------------------------------------------------------------------------
(***************************************************************************)
(* The fixed part.                                                         *)
(***************************************************************************)
LEMMA Max16Is == Max16 = 65535
BY DEF Max16

LEMMA SizeBounds ==
  \A v \in Validators :
    Size[v].min \in Nat /\ Size[v].max \in Nat /\ Size[v].max <= Max16
BY Max16Is DEF Validators, Size, Exactly, AtLeast

LEMMA MatchErrors == \A e \in ToSet(Match) : e # "SUCCESS"
BY DEF Match, ToSet

LEMMA LeastIsOne ==
  ASSUME NEW I \in SUBSET Nat, I # {}
  PROVE  Min(I) \in I
<1>1. PICK m \in I : \A k \in I : m <= k
  BY Least
<1> QED BY <1>1 DEF Min

\* The length of an array is looked at, and is a multiple of the element's.
LEMMA ArraysAreWhole ==
  ASSUME NEW m, NEW v \in DOMAIN Arrays, FixedPartError(m, v) = "SUCCESS"
  PROVE  (m.header - Arrays[v].from) % Arrays[v].size = 0
<1> DEFINE s == FieldErrors(v)
           first == SelectInSeq(s, LAMBDA e : e \in m.wrong)
           I == {i \in 1 .. Len(s) : s[i] \in m.wrong}
<1>1. v \in {"FEATURES_REPLY", "TABLE_REPLY", "PORT_REPLY", "QUEUE_REPLY"}
  BY DEF Arrays
<1>2. s \in {<<"NO_TABLE_AVAILABLE">>, <<"INVALID_STATS_REPLY_FLAGS">>}
  BY <1>1 DEF FieldErrors, ConfigFields, ReportFields, CommandFields,
              QueueConfigFields, StatsRequests, StatsReplies, StatsReplyFields
<1>3. first = IF I # {} THEN Min(I) ELSE 0
  BY DEF SelectInSeq
<1>4. FixedPartError(m, v) =
        IF HeaderError(m, v) # "SUCCESS" THEN HeaderError(m, v)
        ELSE IF first # 0 THEN s[first]
        ELSE IF (m.header - Arrays[v].from) % Arrays[v].size # 0
        THEN "INVALID_LENGTH" ELSE "SUCCESS"
  BY <1>1 DEF FixedPartError, Unknown
<1> HIDE DEF first, I
<1>5. ASSUME first # 0 PROVE s[first] # "SUCCESS"
  <2>1. I \in SUBSET Nat /\ I \subseteq 1 .. Len(s)
    BY DEF I
  <2>2. first \in 1 .. Len(s)
    BY <1>3, <1>5, <2>1, LeastIsOne
  <2>3. Len(s) = 1 /\ s[1] # "SUCCESS"
    BY <1>2
  <2> HIDE DEF s
  <2>4. first = 1
    BY <2>2, <2>3
  <2> QED BY <2>3, <2>4
<1> HIDE DEF s
<1> QED BY <1>4, <1>5

LEMMA PassedIsWhole ==
  ASSUME Handed, FixedPartError(msg, by) = "SUCCESS"
  PROVE  WholeMessage
<1>1. by \notin DOMAIN Unknown /\ HeaderError(msg, by) = "SUCCESS"
  BY DEF FixedPartError, Unknown
<1>2. by = msg.kind
  <2>1. TypeOf(msg.kind) = TypeOf(by)
    BY <1>1 DEF HeaderError
  <2> QED BY <2>1 DEF Handed, HandedTo, TypeOf, StatsRequests, StatsReplies
<1>3. by \in Validators
  BY <1>1, <1>2 DEF Handed, Kinds
<1>4. Size[by].min \in Nat /\ Size[by].max \in Nat
  BY <1>3, SizeBounds
<1>5. /\ msg.version /\ msg.header = msg.length
      /\ ~(msg.header > Size[by].max) /\ ~(msg.header < Size[by].min)
  BY <1>1, <1>4 DEF HeaderError, Handed
<1>6. by \in DOMAIN Arrays => (msg.header - Arrays[by].from) % Arrays[by].size = 0
  BY ArraysAreWhole
<1> QED BY <1>2, <1>3, <1>4, <1>5, <1>6 DEF WholeMessage, Handed

-----------------------------------------------------------------------------
(***************************************************************************)
(* The items.                                                              *)
(***************************************************************************)
LEMMA LengthsAre ==
  /\ Bodies \subseteq Nat /\ \A n \in Bodies : n <= Max16
  /\ ItemLengths \subseteq Nat /\ \A n \in ItemLengths : n <= Max16
BY CheckAssumption

\* What is let through is as long as a header, at least.
LetThrough(i) == i.error = "SUCCESS" => i.len \in Nat /\ i.len >= 8 /\ i.len <= Max16

LEMMA ActionsLetThrough == \A i \in ActionItems : LetThrough(i)
<1> SUFFICES ASSUME NEW t, NEW n \in ItemLengths, NEW wrong
             PROVE  LetThrough([len |-> n, error |-> ActionError(t, n, wrong)])
  BY DEF ActionItems
<1>1. ActionError(t, n, wrong) = "SUCCESS" => ~(n < 8)
  BY DEF ActionError
<1> QED BY <1>1, LengthsAre DEF LetThrough

LEMMA PropertiesLetThrough == \A i \in PropertyItems : LetThrough(i)
<1> SUFFICES ASSUME NEW t, NEW n \in ItemLengths
             PROVE  LetThrough([len |-> n, error |-> PropertyError(t, n)])
  BY DEF PropertyItems
<1>1. PropertyError(t, n) = "SUCCESS" => ~(n < 8)
  BY DEF PropertyError
<1> QED BY <1>1, LengthsAre DEF LetThrough

LEMMA Wraps ==
  \A n \in Int : /\ Uint16(n) \in Nat /\ Uint16(n) <= Max16
                 /\ n >= 0 /\ n <= Max16 => Uint16(n) = n
BY DEF Uint16, Max16

\* Behind an item that is let through the offset has passed it too.
LEMMA ItemPasses ==
  ASSUME Passed, NEW len \in Nat, len >= 8, Advance(len)
  PROVE  Passed'
<1>1. offset + len \in Int /\ Uint16(offset + len) \in Nat
  BY Wraps DEF Passed
<1>2. offset' \in Nat /\ seen' \subseteq Nat /\ wrapped' \in BOOLEAN
  BY <1>1 DEF Advance, Passed
<1>3. ASSUME ~wrapped' PROVE \A o \in seen' : o < offset'
  <2>1. ~wrapped /\ ~(offset + len > Max16)
    BY <1>3, Zenon DEF Advance
  <2>2. offset \in Nat /\ seen \subseteq Nat /\ \A o \in seen : o < offset
    BY <2>1 DEF Passed
  <2>3. offset' = Uint16(offset + len) /\ seen' = seen \cup {offset}
    BY DEF Advance
  <2>4. offset' = offset + len
    BY <2>1, <2>2, <2>3, Max16Is, Wraps
  <2> QED BY <2>2, <2>3, <2>4
<1> QED BY <1>2, <1>3 DEF Passed

LEMMA OneMore ==
  ASSUME NEW s \in Seq(Nat), NEW x \in Nat
  PROVE  LET t == Append(s, x)
         IN t \in Seq(Nat) /\ t # <<>> /\ Last(t) = x /\ Sum(t) = Sum(s) + x
<1>1. Append(s, x) \in Seq(Nat) /\ Append(s, x) # <<>>
  BY AppendProperties
<1>2. Sum(Append(s, x)) = Sum(s) + x
  BY SumOfMore
<1>3. Len(Append(s, x)) = Len(s) + 1 /\ Append(s, x)[Len(s) + 1] = x
  OBVIOUS
<1>4. Last(Append(s, x)) = x
  BY <1>3 DEF Last
<1> QED BY <1>1, <1>2, <1>4

LEMMA LastOfLengths ==
  ASSUME NEW s \in Seq(Nat), s # <<>>
  PROVE  Last(s) \in Nat /\ Sum(s) \in Nat
<1>1. Sum(s) \in Nat
  BY SumOfMore
<1> QED BY <1>1 DEF Last

\* A list of lengths is without a zero when its front and its last one are.
LEMMA FrontProgresses ==
  ASSUME NEW s \in Seq(Nat), NEW x \in Nat
  PROVE  /\ Front(Append(s, x)) = s
         /\ Progressing(s) /\ x > 0 => Progressing(Append(s, x))
         /\ Fitting(s) /\ x <= Max16 => Fitting(Append(s, x))
<1> DEFINE t == Append(s, x)
           n == Len(s)
<1>1. /\ DOMAIN s = 1 .. n /\ n \in Nat
      /\ DOMAIN t = 1 .. n + 1 /\ Len(t) = n + 1 /\ t \in Seq(Nat)
      /\ t[n + 1] = x
      /\ \A i \in 1 .. n : t[i] = s[i]
  BY LenProperties, AppendProperties
<1> HIDE DEF t, n
<1>2. Front(t) = s
  <2>1. Front(t) = SubSeq(t, 1, n)
    BY <1>1 DEF Front
  <2>2. CASE n = 0
    <3>1. s = <<>>
      BY <2>2, EmptySeq DEF n
    <3> QED BY <2>1, <2>2, <3>1, <1>1, SubSeqEmpty
  <2>3. CASE n # 0
    <3>1. /\ SubSeq(t, 1, n) \in Seq(Nat) /\ Len(SubSeq(t, 1, n)) = n
          /\ \A i \in 1 .. n : SubSeq(t, 1, n)[i] = t[i]
      BY <1>1, <2>3, SubSeqProperties
    <3> QED BY <2>1, <3>1, <1>1, SeqEqual DEF n
  <2> QED BY <2>2, <2>3
<1>3. ASSUME Progressing(s), x > 0 PROVE Progressing(t)
  BY <1>1, <1>3 DEF Progressing
<1>4. ASSUME Fitting(s), x <= Max16 PROVE Fitting(t)
  BY <1>1, <1>4 DEF Fitting
<1> QED BY <1>2, <1>3, <1>4 DEF t

LEMMA LastProgresses ==
  ASSUME NEW s \in Seq(Nat), s # <<>>, Progressing(Front(s)), Last(s) > 0
  PROVE  Progressing(s)
<1>1. /\ DOMAIN s = 1 .. Len(s) /\ Len(s) \in Nat \ {0}
      /\ DOMAIN Front(s) = 1 .. Len(s) - 1
      /\ \A i \in 1 .. Len(s) - 1 : Front(s)[i] = s[i]
      /\ Last(s) = s[Len(s)]
  BY LenProperties, EmptySeq DEF Front, Last
<1> QED BY <1>1 DEF Progressing

-----------------------------------------------------------------------------
(***************************************************************************)
(* Every step.                                                             *)
(***************************************************************************)
LEMMA CheckInvInit == Init => CheckInv
<1> SUFFICES ASSUME Init PROVE CheckInv
  OBVIOUS
<1>1. Handed
  <2> DEFINE With(k) ==
    {[kind |-> k, version |-> v, header |-> h, length |-> h + d,
      wrong |-> w, actions_len |-> a] :
       v \in BOOLEAN, h \in HeaderLengths(k), d \in {-1, 0, 1}, w \in Wrongs(k),
       a \in IF k = "PACKET_OUT" THEN ItemLengths ELSE {0}}
  <2>0. PICK k \in Kinds : msg \in With(k)
    BY DEF Init, Messages
  <2>1. PICK h \in HeaderLengths(k), d \in {-1, 0, 1} :
          msg.header = h /\ msg.length = h + d /\ msg.kind = k
    BY <2>0
  <2>2. h \in Nat
    BY DEF HeaderLengths
  <2> QED BY <2>1, <2>2 DEF Init, Handed
<1>2. AtItsPart
  BY DEF Init, AtItsPart, Walking
<1>3. AddedUp
  BY EmptySeq DEF Init, AddedUp, Fitting
<1>4. Passed /\ StuckOnlyByItsLengths
  BY DEF Init, Passed, StuckOnlyByItsLengths
<1> QED BY <1>1, <1>2, <1>3, <1>4 DEF CheckInv

\* The parts of the invariant a step does not touch.
LEMMA SameMessage ==
  ASSUME Handed, UNCHANGED <<msg, by>>
  PROVE  Handed' /\ (WholeMessage => WholeMessage') /\ (HasActions <=> HasActions')
BY DEF Handed, WholeMessage, HasActions

\* The same sum, of the same message.
LEMMA SameSum ==
  ASSUME NEW n, NEW body, NEW v \in BOOLEAN, NEW w \in BOOLEAN, v => w,
         AddsUp(n, body, v)
  PROVE  AddsUp(n, body, w)
BY DEF AddsUp

LEMMA SameBody == ASSUME UNCHANGED <<msg, by>> PROVE BodyLength' = BodyLength
BY DEF BodyLength

LEMMA SameOffset ==
  ASSUME Passed, UNCHANGED <<offset, seen, wrapped>>
  PROVE  Passed'
BY DEF Passed

LEMMA NewList ==
  ASSUME Passed, NEW n, BeginList(n), UNCHANGED wrapped
  PROVE  Passed'
BY DEF Passed, BeginList

LEMMA FixedPartKeeps ==
  ASSUME CheckInv, FixedPart
  PROVE  CheckInv'
<1> USE DEF CheckInv
<1>1. Handed' /\ (WholeMessage => WholeMessage') /\ (HasActions <=> HasActions')
  BY SameMessage DEF FixedPart
<1>2. Passed'
  BY SameOffset, NewList, UnchangedLists DEF FixedPart
<1>3. StuckOnlyByItsLengths' /\ lens = <<>> /\ lens' = <<>>
  BY DEF FixedPart, AddedUp, StuckOnlyByItsLengths, Goto, Return
<1>4. pc' \in {"array", "actions", "flow", "count"} \/ result' = "SUCCESS" => WholeMessage'
  BY <1>1, PassedIsWhole DEF FixedPart, Return
<1>5. AtItsPart'
  BY <1>1, <1>4 DEF FixedPart, AtItsPart, Walking, WalkedReplies, Arrays, Goto, Return
<1>6. /\ BodyLength' = BodyLength
      /\ WholeMessage' /\ by' \in WalkedReplies =>
           BodyLength \in Nat /\ BodyLength <= Max16
  BY <1>1, SizeBounds
     DEF FixedPart, WholeMessage, Size, AtLeast, BodyLength, WalkedReplies
<1>7. AddedUp'
  <2>1. Progressing(lens')
    BY <1>3 DEF Progressing
  <2>2. CASE pc' \in {"flow", "count"}
    <3>1. left' = BodyLength /\ BodyLength \in Nat /\ BodyLength <= Max16
      BY <2>2, <1>1, <1>4, <1>6
         DEF FixedPart, Goto, Return, BodyLength, WalkedReplies
    <3>2. AddsUp(left' + Sum(lens'), BodyLength, wrapped')
      <4>1. left' + Sum(lens') = BodyLength + 65536 * 0
        BY <3>1, <1>3, SumOfNone
      <4>2. left' + Sum(lens') = BodyLength
        BY <3>1, <1>3, SumOfNone
      <4> QED BY <4>1, <4>2 DEF AddsUp
    <3> QED BY <2>1, <2>2, <3>1, <3>2, <1>3, <1>6 DEF AddedUp, FixedPart, Goto, Return
  <2>3. CASE pc' \notin {"flow", "count"}
    BY <1>3, <2>3
       DEF FixedPart, AddedUp, WalkedReplies, Goto, Return, HasActions, Arrays
  <2> QED BY <2>2, <2>3
<1> QED BY <1>1, <1>2, <1>3, <1>5, <1>7

LEMMA ElementKeeps ==
  ASSUME CheckInv, Element
  PROVE  CheckInv'
<1> USE DEF CheckInv
<1>1. Handed' /\ (WholeMessage => WholeMessage') /\ (HasActions <=> HasActions')
  BY SameMessage DEF Element
<1>2. Passed'
  BY SameOffset, UnchangedLists DEF Element
<1>3. AtItsPart' /\ StuckOnlyByItsLengths'
  BY <1>1 DEF Element, AtItsPart, StuckOnlyByItsLengths, Walking, Goto, Return
<1>4. AddedUp'
  BY DEF Element, AddedUp, AtItsPart, Goto, Return
<1> QED BY <1>1, <1>2, <1>3, <1>4

\* One item of a list, whichever the items are, that starts over at the same
\* place or ends the walk.
LEMMA ItemKeeps ==
  ASSUME CheckInv, NEW items, Item(items), \A i \in items : LetThrough(i),
         pc \in {"actions", "properties"}
  PROVE  CheckInv'
<1> USE DEF CheckInv
<1>1. Handed' /\ (WholeMessage => WholeMessage') /\ (HasActions <=> HasActions')
  BY SameMessage DEF Item
<1>2. UNCHANGED <<msg, by, left, lens>>
  BY DEF Item
<1>3. CASE offset \in seen /\ Goto("stuck") /\ UNCHANGED <<list, wrapped>>
  <2>1. Passed'
    BY <1>3, SameOffset, UnchangedLists
  <2>2. wrapped
    BY <1>3 DEF Passed
  <2>3. StuckOnlyByItsLengths'
    BY <1>3, <2>2 DEF StuckOnlyByItsLengths
  <2>4. AtItsPart' /\ AddedUp'
    BY <1>1, <1>2, <1>3 DEF Goto, AtItsPart, AddedUp, Walking
  <2> QED BY <1>1, <2>1, <2>3, <2>4
<1>4. ASSUME NEW i \in items, i.error # "SUCCESS", Return(i.error),
             UNCHANGED <<list, wrapped>>
      PROVE  CheckInv'
  <2>1. Passed'
    BY <1>4, SameOffset, UnchangedLists
  <2>2. AtItsPart' /\ AddedUp' /\ StuckOnlyByItsLengths'
    BY <1>1, <1>2, <1>4
       DEF Return, AtItsPart, AddedUp, Walking, StuckOnlyByItsLengths
  <2> QED BY <1>1, <2>1, <2>2
<1>5. ASSUME NEW i \in items, i.error = "SUCCESS", Advance(i.len), Goto(pc)
      PROVE  CheckInv'
  <2>1. Passed'
    BY <1>5, ItemPasses DEF LetThrough
  <2>2. AtItsPart' /\ StuckOnlyByItsLengths'
    BY <1>1, <1>2, <1>5 DEF Goto, AtItsPart, Walking, StuckOnlyByItsLengths
  <2>3. wrapped \in BOOLEAN /\ wrapped' \in BOOLEAN /\ (wrapped => wrapped')
    BY <1>5, <2>1, Zenon DEF Advance, Passed
  <2>4. \A n : AddsUp(n, BodyLength, wrapped) => AddsUp(n, BodyLength', wrapped')
    BY <1>2, <2>3, SameSum, SameBody
  <2>5. AddedUp'
    BY <1>2, <1>5, <2>4 DEF Goto, AddedUp
  <2> QED BY <1>1, <2>1, <2>2, <2>5
<1> QED BY <1>3, <1>4, <1>5 DEF Item

LEMMA ActionsEndKeeps ==
  ASSUME CheckInv, ActionsEnd
  PROVE  CheckInv'
<1> USE DEF CheckInv
<1>1. Handed' /\ (WholeMessage => WholeMessage') /\ (HasActions <=> HasActions')
  BY SameMessage DEF ActionsEnd
<1>2. Passed'
  BY SameOffset, UnchangedLists DEF ActionsEnd
<1>3. UNCHANGED lens
  BY UnchangedLists DEF ActionsEnd
<1>4. AtItsPart' /\ StuckOnlyByItsLengths'
  BY <1>1 DEF ActionsEnd, Return, AtItsPart, StuckOnlyByItsLengths, Walking
<1>5. AddedUp'
  BY <1>3 DEF ActionsEnd, Return, AddedUp, HasActions, WalkedReplies
<1> QED BY <1>1, <1>2, <1>4, <1>5

\* What is left after a flow or a queue of len bytes: nothing is lost but what
\* wraps.
LEMMA TakeIs ==
  ASSUME left \in Nat, left <= Max16, wrapped \in BOOLEAN, NEW len \in Nat,
         len <= Max16, NEW next \in {"flow", "count"}, Take(len, next),
         NEW n \in Int, NEW body \in Int, AddsUp(left + n, body, wrapped)
  PROVE  /\ pc' \in {next, "stuck", "astray"} /\ result' = "NONE"
         /\ left' \in Nat /\ left' <= Max16
         /\ AddsUp(left' + (n + len), body, wrapped')
         /\ pc' = next => len > 0
         /\ pc' = "stuck" => len = 0
<1>1. /\ pc' \in {next, "stuck", "astray"} /\ result' = "NONE"
      /\ pc' = next => len # 0
      /\ pc' = "stuck" => len = 0
  BY DEF Take, Goto
<1>2. left' = Uint16(left - len)
  BY DEF Take
<1>3. left' \in Nat /\ left' <= Max16
  BY <1>2, Wraps
<1>4. PICK k \in Nat : left + n = body + 65536 * k
  BY DEF AddsUp
<1>5. CASE len > left
  <2>1. wrapped'
    BY <1>5, Zenon DEF Take
  <2>2. left' = left - len + 65536
    BY <1>2, <1>5, Max16Is DEF Uint16
  <2>3. PICK j : j = k + 1
    OBVIOUS
  <2>4. j \in Nat /\ left' + (n + len) = body + 65536 * j
    BY <1>4, <2>2, <2>3
  <2>5. AddsUp(left' + (n + len), body, wrapped')
    BY <2>1, <2>4 DEF AddsUp
  <2> QED BY <1>1, <1>3, <2>5
<1>6. CASE ~(len > left)
  <2>1. left' = left - len
    BY <1>2, <1>6, Wraps, Max16Is
  <2>2. left' + (n + len) = left + n
    BY <2>1
  <2>3. wrapped => wrapped'
    BY Zenon DEF Take
  <2>4. AddsUp(left' + (n + len), body, wrapped')
    BY <2>2, <2>3 DEF AddsUp
  <2> QED BY <1>1, <1>3, <2>4
<1> QED BY <1>5, <1>6

\* The offset and what has been seen are left alone, what is left may wrap.
LEMMA TakePasses ==
  ASSUME Passed, NEW len \in Nat, NEW next, Take(len, next), left \in Nat,
         UNCHANGED <<offset, seen>>
  PROVE  Passed'
<1>1. wrapped' \in BOOLEAN /\ (~wrapped' => ~wrapped)
  BY Zenon DEF Take, Passed
<1> QED BY <1>1 DEF Passed

LEMMA FlowKeeps ==
  ASSUME CheckInv, Flow
  PROVE  CheckInv'
<1> USE DEF CheckInv
<1>1. Handed' /\ (WholeMessage => WholeMessage') /\ (HasActions <=> HasActions')
  BY SameMessage DEF Flow
<1>2. Passed'
  BY SameOffset, NewList, UnchangedLists DEF Flow
<1>3. UNCHANGED left /\ pc = "flow" /\ by = "FLOW_REPLY"
  BY DEF Flow, AtItsPart
<1>4. CASE left = 0 /\ Return("SUCCESS") /\ UNCHANGED <<list, lens>>
  <2>1. AtItsPart' /\ StuckOnlyByItsLengths'
    BY <1>1, <1>3, <1>4 DEF Return, AtItsPart, StuckOnlyByItsLengths, Walking
  <2>2. AddedUp'
    <3>1. Sum(lens) \in Nat
      BY SumOfMore DEF AddedUp
    <3>2. BodyLength' = BodyLength /\ UNCHANGED <<lens, wrapped>>
      BY <1>4, SameBody DEF Flow
    <3>3. left + Sum(lens) = Sum(lens)
      BY <1>4, <3>1
    <3>4. AddsUp(Sum(lens), BodyLength, wrapped) /\ Progressing(lens)
      BY <1>3, <3>3 DEF AddedUp
    <3> QED BY <1>4, <3>2, <3>4 DEF Return, AddedUp
  <2> QED BY <1>1, <1>2, <2>1, <2>2
<1>5. ASSUME NEW e \in ToSet(Match) \cup {"INVALID_FLOW_PRIORITY"}, Return(e),
             UNCHANGED <<list, lens>>
      PROVE  CheckInv'
  <2>1. e # "SUCCESS"
    BY <1>5, MatchErrors
  <2>2. AtItsPart' /\ AddedUp' /\ StuckOnlyByItsLengths'
    BY <1>1, <1>3, <1>5, <2>1
       DEF Return, AtItsPart, AddedUp, Walking, StuckOnlyByItsLengths
  <2> QED BY <1>1, <1>2, <2>2
<1>6. ASSUME NEW len \in ItemLengths, lens' = Append(lens, len), Goto("actions"),
             UNCHANGED <<msg, by>>
      PROVE  CheckInv'
  <2>1. len \in Nat /\ Sum(lens) \in Nat
    BY LengthsAre, SumOfMore DEF AddedUp
  <2>2. /\ lens' \in Seq(Nat) /\ lens' # <<>>
        /\ Last(lens') = len /\ Sum(lens') = Sum(lens) + len
    BY <1>6, <2>1, OneMore DEF AddedUp
  <2>3. /\ left \in Nat /\ left <= Max16
        /\ AddsUp(left + Sum(lens), BodyLength, wrapped)
        /\ Progressing(Front(lens')) /\ Fitting(lens')
    BY <1>3, <1>6, <2>1, LengthsAre, FrontProgresses DEF AddedUp
  <2>4. AtItsPart' /\ StuckOnlyByItsLengths'
    BY <1>1, <1>3, <1>6 DEF Goto, AtItsPart, StuckOnlyByItsLengths, Walking
  <2>5. AddedUp'
    <3>1. left' + (Sum(lens') - Last(lens')) = left + Sum(lens)
      BY <1>3, <2>1, <2>2, <2>3
    <3>2. BodyLength' = BodyLength /\ wrapped' = wrapped
      BY <1>6, SameBody DEF Flow
    <3> QED BY <1>3, <1>6, <2>2, <2>3, <3>1, <3>2 DEF Goto, AddedUp
  <2> QED BY <1>1, <1>2, <2>4, <2>5
<1> QED BY <1>4, <1>5, <1>6 DEF Flow

LEMMA FlowEndKeeps ==
  ASSUME CheckInv, FlowEnd
  PROVE  CheckInv'
<1> USE DEF CheckInv
<1>1. Handed' /\ (WholeMessage => WholeMessage') /\ (HasActions <=> HasActions')
  BY SameMessage DEF FlowEnd
<1>2. UNCHANGED <<offset, seen, msg, by, lens>>
  BY UnchangedLists DEF FlowEnd
<1>3. /\ pc = "actions" /\ by = "FLOW_REPLY" /\ lens \in Seq(Nat) /\ lens # <<>>
      /\ left \in Nat /\ left <= Max16
      /\ AddsUp(left + (Sum(lens) - Last(lens)), BodyLength, wrapped)
      /\ Progressing(Front(lens))
  BY DEF FlowEnd, AtItsPart, AddedUp
<1>4. /\ Last(lens) \in Nat /\ Last(lens) <= Max16 /\ Sum(lens) \in Nat
      /\ Sum(lens) - Last(lens) \in Int
      /\ BodyLength \in Int /\ BodyLength' = BodyLength /\ wrapped \in BOOLEAN
  <2>1. Last(lens) \in Nat /\ Sum(lens) \in Nat
    BY <1>3, LastOfLengths
  <2>2. Last(lens) <= Max16
    <3>1. Len(lens) \in DOMAIN lens
      BY <1>3, LenProperties, EmptySeq
    <3> QED BY <3>1 DEF AddedUp, Fitting, Last
  <2>3. BodyLength \in Int
    BY DEF Handed, BodyLength
  <2> QED BY <1>2, <2>1, <2>2, <2>3, SameBody DEF Passed
<1>5. Take(Last(lens), "flow")
  BY DEF FlowEnd
<1>6. Passed'
  BY <1>2, <1>3, <1>4, <1>5, TakePasses
<1>7. /\ pc' \in {"flow", "stuck", "astray"} /\ result' = "NONE"
      /\ left' \in Nat /\ left' <= Max16
      /\ AddsUp(left' + ((Sum(lens) - Last(lens)) + Last(lens)), BodyLength, wrapped')
      /\ pc' = "flow" => Last(lens) > 0
      /\ pc' = "stuck" => Last(lens) = 0
  BY <1>3, <1>4, <1>5, TakeIs
<1>8. AtItsPart' /\ StuckOnlyByItsLengths'
  BY <1>1, <1>2, <1>3, <1>7 DEF AtItsPart, StuckOnlyByItsLengths, Walking
<1>9. AddedUp'
  <2>1. left' + ((Sum(lens) - Last(lens)) + Last(lens)) = left' + Sum(lens)
    BY <1>4, <1>7
  <2>2. pc' = "flow" => Progressing(lens)
    BY <1>3, <1>7, LastProgresses
  <2> QED BY <1>2, <1>3, <1>4, <1>7, <2>1, <2>2 DEF AddedUp
<1> QED BY <1>1, <1>6, <1>8, <1>9

LEMMA CountQueueKeeps ==
  ASSUME CheckInv, CountQueue
  PROVE  CheckInv'
<1> USE DEF CheckInv
<1>1. Handed' /\ (WholeMessage => WholeMessage') /\ (HasActions <=> HasActions')
  BY SameMessage DEF CountQueue
<1>2. UNCHANGED <<offset, seen, msg, by>>
  BY UnchangedLists DEF CountQueue
<1>3. /\ pc = "count" /\ by = "QUEUE_GET_CONFIG_REPLY" /\ lens \in Seq(Nat)
      /\ left \in Nat /\ left <= Max16
      /\ AddsUp(left + Sum(lens), BodyLength, wrapped) /\ Progressing(lens)
  BY DEF CountQueue, AtItsPart, AddedUp
<1>4. PICK len \in ItemLengths : lens' = Append(lens, len) /\ Take(len, "count")
  BY DEF CountQueue
<1>5. /\ len \in Nat /\ len <= Max16 /\ Sum(lens) \in Nat /\ Sum(lens) \in Int
      /\ BodyLength \in Int /\ BodyLength' = BodyLength /\ wrapped \in BOOLEAN
  BY <1>2, <1>3, LengthsAre, SumOfMore, SameBody DEF Handed, BodyLength, Passed
<1>6. /\ lens' \in Seq(Nat) /\ lens' # <<>>
      /\ Last(lens') = len /\ Sum(lens') = Sum(lens) + len
  BY <1>3, <1>4, <1>5, OneMore
<1>7. Passed'
  BY <1>2, <1>3, <1>4, <1>5, TakePasses
<1>8. /\ pc' \in {"count", "stuck", "astray"} /\ result' = "NONE"
      /\ left' \in Nat /\ left' <= Max16
      /\ AddsUp(left' + (Sum(lens) + len), BodyLength, wrapped')
      /\ pc' = "count" => len > 0
      /\ pc' = "stuck" => len = 0
  BY <1>3, <1>4, <1>5, TakeIs
<1>9. AtItsPart' /\ StuckOnlyByItsLengths'
  BY <1>1, <1>2, <1>3, <1>6, <1>8 DEF AtItsPart, StuckOnlyByItsLengths, Walking
<1>10. AddedUp'
  <2>1. Fitting(lens') /\ (pc' = "count" => Progressing(lens'))
    BY <1>3, <1>4, <1>5, <1>8, FrontProgresses DEF AddedUp
  <2> QED BY <1>2, <1>3, <1>5, <1>6, <1>8, <2>1 DEF AddedUp
<1> QED BY <1>1, <1>7, <1>9, <1>10

LEMMA CountEndKeeps ==
  ASSUME CheckInv, CountEnd
  PROVE  CheckInv'
<1> USE DEF CheckInv
<1>1. Handed' /\ (WholeMessage => WholeMessage') /\ (HasActions <=> HasActions')
  BY SameMessage DEF CountEnd
<1>2. Passed'
  BY SameOffset, UnchangedLists DEF CountEnd
<1>3. /\ pc = "count" /\ by = "QUEUE_GET_CONFIG_REPLY" /\ lens \in Seq(Nat)
      /\ left \in Nat /\ AddsUp(left + Sum(lens), BodyLength, wrapped)
      /\ Progressing(lens)
      /\ UNCHANGED <<msg, by, lens, wrapped>>
  BY DEF CountEnd, AtItsPart, AddedUp
<1>4. Sum(lens) \in Nat /\ BodyLength' = BodyLength
  BY <1>3, SumOfMore, SameBody
<1>5. AtItsPart' /\ StuckOnlyByItsLengths'
  BY <1>1, <1>3
     DEF CountEnd, Goto, Return, AtItsPart, StuckOnlyByItsLengths, Walking
<1>6. AddedUp'
  <2>1. left = 0 => left + Sum(lens) = Sum(lens)
    BY <1>3, <1>4
  <2>2. left = 0 => AddsUp(Sum(lens), BodyLength, wrapped)
    BY <1>3, <2>1
  <2> QED BY <1>3, <1>4, <2>2 DEF CountEnd, Goto, Return, AddedUp
<1> QED BY <1>1, <1>2, <1>5, <1>6

LEMMA QueueKeeps ==
  ASSUME CheckInv, Queue
  PROVE  CheckInv'
<1> USE DEF CheckInv
<1>1. Handed' /\ (WholeMessage => WholeMessage') /\ (HasActions <=> HasActions')
  BY SameMessage DEF Queue
<1>2. Passed'
  BY SameOffset, NewList, UnchangedLists DEF Queue
<1>3. /\ pc = "queue" /\ by = "QUEUE_GET_CONFIG_REPLY"
      /\ UNCHANGED <<msg, by, lens, wrapped>> /\ BodyLength' = BodyLength
  BY SameBody DEF Queue, AtItsPart
<1>4. AtItsPart' /\ StuckOnlyByItsLengths'
  BY <1>1, <1>3
     DEF Queue, Goto, Return, AtItsPart, StuckOnlyByItsLengths, Walking
<1>5. AddedUp'
  BY <1>3 DEF Queue, Goto, Return, AddedUp
<1> QED BY <1>1, <1>2, <1>4, <1>5

LEMMA PropertiesEndKeeps ==
  ASSUME CheckInv, PropertiesEnd
  PROVE  CheckInv'
<1> USE DEF CheckInv
<1>1. Handed' /\ (WholeMessage => WholeMessage') /\ (HasActions <=> HasActions')
  BY SameMessage DEF PropertiesEnd
<1>2. Passed'
  BY SameOffset, UnchangedLists DEF PropertiesEnd
<1>3. BodyLength' = BodyLength
  BY SameBody DEF PropertiesEnd
<1>4. AtItsPart' /\ AddedUp' /\ StuckOnlyByItsLengths'
  BY <1>1, <1>3
     DEF PropertiesEnd, Goto, AtItsPart, AddedUp, Walking, StuckOnlyByItsLengths
<1> QED BY <1>1, <1>2, <1>4

LEMMA CheckInvNext ==
  ASSUME CheckInv, [Next]_vars
  PROVE  CheckInv'
<1>1. CASE Next
  <2>1. ASSUME Action PROVE CheckInv'
    BY <2>1, ItemKeeps, ActionsLetThrough DEF Action
  <2>2. ASSUME Property PROVE CheckInv'
    BY <2>2, ItemKeeps, PropertiesLetThrough DEF Property
  <2> QED
    BY <1>1, <2>1, <2>2, FixedPartKeeps, ElementKeeps, ActionsEndKeeps, FlowKeeps,
       FlowEndKeeps, CountQueueKeeps, CountEndKeeps, QueueKeeps, PropertiesEndKeeps
       DEF Next
<1>2. CASE UNCHANGED vars
  BY <1>2 DEF vars, walk, list, CheckInv, Handed, AtItsPart, AddedUp, Passed,
              StuckOnlyByItsLengths, Walking, WholeMessage, HasActions, BodyLength
<1> QED BY <1>1, <1>2

-----------------------------------------------------------------------------
(***************************************************************************)
(* The errors a validator returns of what a switch does not report.        *)
(***************************************************************************)
Reported(v) == TypeOf(v) \in FromSwitch

FieldErrorsOf(v) ==
  CASE v = "SET_CONFIG" -> {"INVALID_SWITCH_CONFIG"}
    [] v \in {"PACKET_OUT", "QUEUE_GET_CONFIG_REQUEST"} -> {"INVALID_PORT_NO"}
    [] v = "FLOW_MOD" ->
         {"INVALID_WILDCARDS", "INVALID_VLAN_VID", "INVALID_VLAN_PCP",
          "INVALID_NW_TOS", "UNDEFINED_FLOW_MOD_COMMAND",
          "INVALID_FLOW_PRIORITY", "INVALID_PORT_NO", "INVALID_FLOW_MOD_FLAGS"}
    [] v = "PORT_MOD" -> {"INVALID_PORT_NO", "INVALID_PORT_CONFIG",
                          "INVALID_PORT_MASK", "INVALID_PORT_FEATURES"}
    [] v \in StatsRequests ->
         {"INVALID_WILDCARDS", "INVALID_VLAN_VID", "INVALID_VLAN_PCP",
          "INVALID_NW_TOS", "INVALID_STATS_REQUEST_FLAGS", "INVALID_PORT_NO"}
    [] OTHER -> {}

ErrorsOfActions == {"TOO_SHORT_ACTION", "INVALID_NW_TOS"} \cup ActionErrors

MayReturn(v) ==
  IF v \in DOMAIN Unknown THEN {Unknown[v]}
  ELSE CommonErrors \cup FieldErrorsOf(v)
         \cup IF v \in {"PACKET_OUT", "FLOW_MOD"} THEN ErrorsOfActions ELSE {}

ErrorsFit ==
  /\ pc = "array" => by \in DOMAIN Arrays
  /\ pc = "done" /\ result # "SUCCESS" /\ ~Reported(by) => result \in MayReturn(by)

LEMMA FieldsByName ==
  /\ DOMAIN ConfigFields = {"FEATURES_REPLY", "GET_CONFIG_REPLY", "SET_CONFIG"}
  /\ DOMAIN ReportFields = {"PACKET_IN", "FLOW_REMOVED", "PORT_STATUS"}
  /\ DOMAIN CommandFields = {"PACKET_OUT", "FLOW_MOD", "PORT_MOD"}
  /\ DOMAIN QueueConfigFields =
       {"QUEUE_GET_CONFIG_REQUEST", "QUEUE_GET_CONFIG_REPLY"}
BY DEF ConfigFields, ReportFields, CommandFields, QueueConfigFields

LEMMA FieldsAre ==
  ASSUME NEW v \in Kinds, ~Reported(v)
  PROVE  FieldErrors(v) \in Seq(FieldErrorsOf(v))
<1>1. CASE v = "SET_CONFIG"
  <2>1. FieldErrors("SET_CONFIG") = ConfigFields["SET_CONFIG"]
    BY FieldsByName DEF FieldErrors, StatsRequests, StatsReplies
  <2>2. FieldErrorsOf("SET_CONFIG") = {"INVALID_SWITCH_CONFIG"}
    BY DEF FieldErrorsOf, StatsRequests
  <2>3. <<"INVALID_SWITCH_CONFIG">> \in Seq(FieldErrorsOf("SET_CONFIG"))
    BY <2>2
  <2> QED BY <1>1, <2>1, <2>3 DEF ConfigFields
<1>2. CASE v = "PACKET_OUT"
  <2>1. FieldErrors("PACKET_OUT") = CommandFields["PACKET_OUT"]
    BY FieldsByName DEF FieldErrors, StatsRequests, StatsReplies
  <2>2. FieldErrorsOf("PACKET_OUT") = {"INVALID_PORT_NO"}
    BY DEF FieldErrorsOf, StatsRequests
  <2>3. <<"INVALID_PORT_NO">> \in Seq(FieldErrorsOf("PACKET_OUT"))
    BY <2>2
  <2> QED BY <1>2, <2>1, <2>3 DEF CommandFields
<1>3. CASE v = "FLOW_MOD"
  <2>1. FieldErrors("FLOW_MOD") = CommandFields["FLOW_MOD"]
    BY FieldsByName DEF FieldErrors, StatsRequests, StatsReplies
  <2>2. FieldErrorsOf("FLOW_MOD") =
          {"INVALID_WILDCARDS", "INVALID_VLAN_VID", "INVALID_VLAN_PCP",
           "INVALID_NW_TOS", "UNDEFINED_FLOW_MOD_COMMAND",
           "INVALID_FLOW_PRIORITY", "INVALID_PORT_NO", "INVALID_FLOW_MOD_FLAGS"}
    BY DEF FieldErrorsOf, StatsRequests
  <2>3. /\ Match \in Seq(FieldErrorsOf("FLOW_MOD"))
        /\ <<"UNDEFINED_FLOW_MOD_COMMAND", "INVALID_FLOW_PRIORITY",
             "INVALID_PORT_NO", "INVALID_FLOW_MOD_FLAGS">>
             \in Seq(FieldErrorsOf("FLOW_MOD"))
    BY <2>2 DEF Match
  <2> QED BY SMTT(20), <1>3, <2>1, <2>3 DEF CommandFields
<1>4. CASE v = "PORT_MOD"
  <2>1. FieldErrors("PORT_MOD") = CommandFields["PORT_MOD"]
    BY FieldsByName DEF FieldErrors, StatsRequests, StatsReplies
  <2>2. FieldErrorsOf("PORT_MOD") =
          {"INVALID_PORT_NO", "INVALID_PORT_CONFIG",
           "INVALID_PORT_MASK", "INVALID_PORT_FEATURES"}
    BY DEF FieldErrorsOf, StatsRequests
  <2>3. <<"INVALID_PORT_NO", "INVALID_PORT_CONFIG",
          "INVALID_PORT_MASK", "INVALID_PORT_FEATURES">>
          \in Seq(FieldErrorsOf("PORT_MOD"))
    BY <2>2
  <2> QED BY <1>4, <2>1, <2>3 DEF CommandFields
<1>5. CASE v = "QUEUE_GET_CONFIG_REQUEST"
  <2>1. FieldErrors("QUEUE_GET_CONFIG_REQUEST") =
          QueueConfigFields["QUEUE_GET_CONFIG_REQUEST"]
    BY FieldsByName DEF FieldErrors, StatsRequests, StatsReplies
  <2>2. FieldErrorsOf("QUEUE_GET_CONFIG_REQUEST") = {"INVALID_PORT_NO"}
    BY DEF FieldErrorsOf, StatsRequests
  <2>3. <<"INVALID_PORT_NO">> \in Seq(FieldErrorsOf("QUEUE_GET_CONFIG_REQUEST"))
    BY <2>2
  <2> QED BY <1>5, <2>1, <2>3 DEF QueueConfigFields
<1>6. CASE v \in StatsRequests
  <2>1. v \notin {"FEATURES_REPLY", "GET_CONFIG_REPLY", "SET_CONFIG", "PACKET_IN",
                  "FLOW_REMOVED", "PORT_STATUS", "PACKET_OUT", "FLOW_MOD",
                  "PORT_MOD", "QUEUE_GET_CONFIG_REQUEST",
                  "QUEUE_GET_CONFIG_REPLY"} \cup StatsReplies
    BY <1>6 DEF StatsRequests, StatsReplies
  <2>2. FieldErrors(v) = StatsRequestFields[v]
    BY <1>6, <2>1, FieldsByName DEF FieldErrors
  <2>3. FieldErrorsOf(v) =
          {"INVALID_WILDCARDS", "INVALID_VLAN_VID", "INVALID_VLAN_PCP",
           "INVALID_NW_TOS", "INVALID_STATS_REQUEST_FLAGS", "INVALID_PORT_NO"}
    BY <1>6, <2>1 DEF FieldErrorsOf
  <2> DEFINE S == FieldErrorsOf(v)
             flags == <<"INVALID_STATS_REQUEST_FLAGS">>
             match == IF v \in {"FLOW_REQUEST", "AGGREGATE_REQUEST"} THEN Match
                      ELSE <<>>
  <2>4. flags \in Seq(S) /\ PortOfRequest(v) \in Seq(S) /\ match \in Seq(S)
    <3> HIDE DEF S
    <3>1. {"INVALID_WILDCARDS", "INVALID_VLAN_VID", "INVALID_VLAN_PCP",
           "INVALID_NW_TOS", "INVALID_STATS_REQUEST_FLAGS", "INVALID_PORT_NO"}
            \subseteq S
      BY <2>3 DEF S
    <3>2. /\ <<>> \in Seq(S) /\ <<"INVALID_PORT_NO">> \in Seq(S)
          /\ <<"INVALID_STATS_REQUEST_FLAGS">> \in Seq(S)
          /\ Match \in Seq(S)
      BY <3>1 DEF Match
    <3> QED BY <3>2 DEF PortOfRequest
  <2>5. StatsRequestFields[v] = flags \o match \o PortOfRequest(v)
    BY <1>6 DEF StatsRequestFields
  <2> HIDE DEF S, flags, match
  <2>6. flags \o match \o PortOfRequest(v) \in Seq(S)
    BY <2>4
  <2> QED BY <2>2, <2>5, <2>6 DEF S
<1>7. CASE v \notin StatsRequests
                    \cup {"SET_CONFIG", "PACKET_OUT", "FLOW_MOD", "PORT_MOD",
                          "QUEUE_GET_CONFIG_REQUEST"}
  <2>1. v \notin {"FEATURES_REPLY", "GET_CONFIG_REPLY", "PACKET_IN", "FLOW_REMOVED",
                  "PORT_STATUS", "QUEUE_GET_CONFIG_REPLY"} \cup StatsReplies
    BY DEF Reported, FromSwitch, TypeOf, StatsReplies, StatsRequests
  <2>2. FieldErrors(v) = <<>>
    BY <1>7, <2>1, FieldsByName DEF FieldErrors
  <2> QED BY <2>2
<1> QED BY <1>1, <1>2, <1>3, <1>4, <1>5, <1>6, <1>7

LEMMA FixedErrors ==
  ASSUME Handed, ~Reported(by)
  PROVE  FixedPartError(msg, by) \in {"SUCCESS"} \cup MayReturn(by)
<1>1. CASE by \in DOMAIN Unknown
  BY <1>1 DEF FixedPartError, MayReturn
<1>2. CASE by \notin DOMAIN Unknown
  <2> DEFINE s == FieldErrors(by)
             first == SelectInSeq(s, LAMBDA e : e \in msg.wrong)
  <2>1. HeaderError(msg, by) \in {"SUCCESS"} \cup CommonErrors
    BY DEF HeaderError, CommonErrors
  <2>2. by \in Kinds
    BY DEF Handed, HandedTo, Kinds, Validators, Size
  <2>3. s \in Seq(FieldErrorsOf(by))
    BY <2>2, FieldsAre
  <2>4. ASSUME first # 0 PROVE s[first] \in FieldErrorsOf(by)
    <3> DEFINE I == {i \in 1 .. Len(s) : s[i] \in msg.wrong}
    <3>1. first = IF I # {} THEN Min(I) ELSE 0
      BY DEF SelectInSeq
    <3>2. I \in SUBSET Nat /\ I \subseteq 1 .. Len(s)
      OBVIOUS
    <3> HIDE DEF s, first, I
    <3>3. first \in 1 .. Len(s)
      BY <2>4, <3>1, <3>2, LeastIsOne
    <3> QED BY <2>3, <3>3
  <2>5. by \notin DOMAIN Arrays
    BY DEF Reported, TypeOf, Arrays, FromSwitch, StatsRequests, StatsReplies
  <2>6. FixedPartError(msg, by) =
          IF HeaderError(msg, by) # "SUCCESS" THEN HeaderError(msg, by)
          ELSE IF first # 0 THEN s[first] ELSE "SUCCESS"
    BY <1>2, <2>5 DEF FixedPartError
  <2> HIDE DEF s, first
  <2>7. FixedPartError(msg, by) \in {"SUCCESS"} \cup CommonErrors \cup FieldErrorsOf(by)
    BY <2>1, <2>4, <2>6
  <2> QED BY <1>2, <2>7 DEF MayReturn
<1> QED BY <1>1, <1>2

LEMMA ErrorsOfAction ==
  \A t, n, wrong : ActionError(t, n, wrong) \in {"SUCCESS"} \cup ErrorsOfActions
<1>1. \A t \in ActionTypes : TooShortAction[t] \in Range(TooShortAction)
  BY DEF ActionTypes, ActionSize, TooShortAction, Range
<1>2. \A t \in ActionTypes \ {"VENDOR"} : TooLongAction[t] \in Range(TooLongAction)
  BY DEF ActionTypes, ActionSize, TooLongAction, Range
<1>3. \A t \in DOMAIN ArgumentError : ArgumentError[t] \in ErrorsOfActions
  BY DEF ArgumentError, ErrorsOfActions, ActionErrors
<1>4. {"TOO_SHORT_ACTION", "UNDEFINED_ACTION_TYPE"} \subseteq ErrorsOfActions
  BY DEF ErrorsOfActions, ActionErrors
<1>5. Range(TooShortAction) \cup Range(TooLongAction) \subseteq ErrorsOfActions
  BY DEF ErrorsOfActions, ActionErrors
<1> QED BY <1>1, <1>2, <1>3, <1>4, <1>5 DEF ActionError

LEMMA ErrorsFitNext ==
  ASSUME CheckInv, ErrorsFit, [Next]_vars
  PROVE  ErrorsFit'
<1> USE DEF CheckInv
<1>1. CASE FixedPart
  BY <1>1, FixedErrors DEF FixedPart, ErrorsFit, Return, Goto, Reported, MayReturn
<1>2. CASE Element
  <2>1. Reported(by)
    BY <1>2 DEF Element, ErrorsFit, Arrays, Reported, TypeOf, StatsReplies,
                StatsRequests, FromSwitch
  <2> QED BY <1>2, <2>1 DEF Element, ErrorsFit, Return, Goto, Reported
<1>3. CASE Action
  <2>1. UNCHANGED by /\ pc' # "array" /\ pc = "actions"
    BY <1>3 DEF Action, Item, Goto, Return
  <2>2. HasActions \/ Reported(by)
    BY <2>1 DEF AtItsPart, Reported, TypeOf, StatsReplies, StatsRequests, FromSwitch
  <2>3. pc' = "done" /\ result' # "SUCCESS" => result' \in ErrorsOfActions
    BY <1>3, <2>1, ErrorsOfAction DEF Action, ActionItems, Item, Goto, Return
  <2> QED BY <2>1, <2>2, <2>3 DEF ErrorsFit, MayReturn, HasActions, Reported, Unknown
<1>4. CASE ActionsEnd
  BY <1>4 DEF ActionsEnd, ErrorsFit, Return
<1>5. CASE Flow \/ FlowEnd
  <2>1. pc' # "array" /\ (Reported(by)' \/ pc' # "done")
    BY <1>5 DEF Flow, FlowEnd, AtItsPart, Reported, TypeOf, StatsReplies,
                StatsRequests, FromSwitch, Goto, Return, Take
  <2> QED BY <2>1 DEF ErrorsFit
<1>6. CASE CountQueue \/ CountEnd \/ Queue \/ Property \/ PropertiesEnd
  <2>1. pc \in {"count", "queue", "properties"} /\ UNCHANGED by /\ pc' # "array"
    BY <1>6 DEF CountQueue, CountEnd, Queue, Property, PropertiesEnd, Item, Goto,
                Return, Take
  <2>2. Reported(by)
    BY <2>1 DEF AtItsPart, Reported, TypeOf, StatsReplies, StatsRequests, FromSwitch
  <2> QED BY <2>1, <2>2 DEF ErrorsFit, Reported
<1>7. CASE UNCHANGED vars
  BY <1>7 DEF vars, ErrorsFit, Reported, MayReturn
<1> QED BY <1>1, <1>2, <1>3, <1>4, <1>5, <1>6, <1>7 DEF Next

LEMMA OneAnswer ==
  ASSUME NEW v \in Kinds, ~Reported(v), NEW r \in MayReturn(v),
         TypeOf(v) \in DOMAIN Unanswered => r \notin Unanswered[TypeOf(v)]
  PROVE  Cardinality(cc_trans_error(TypeOf(v), r)) = 1
<1> SUFFICES \E x : cc_trans_error(TypeOf(v), r) = {x}
  BY FS_Singleton
<1>1. CASE TypeOf(v) \notin Types \/ r \in CommonErrors
  BY <1>1 DEF cc_trans_error
<1>2. CASE TypeOf(v) \in Types /\ r \notin CommonErrors
  <2>1. cc_trans_error(TypeOf(v), r) =
          {t \in DOMAIN ErrorMap(TypeOf(v)) : r \in ErrorMap(TypeOf(v))[t]}
    BY <1>2 DEF cc_trans_error, CommonErrors
  <2>2. CASE v = "SET_CONFIG"
    <3>1. ErrorMap("SET_CONFIG") = [BAD_REQUEST |-> {"INVALID_SWITCH_CONFIG"}]
      BY DEF ErrorMap
    <3>2. r = "INVALID_SWITCH_CONFIG"
      BY <1>2, <2>2 DEF MayReturn, FieldErrorsOf, StatsRequests, Unknown
    <3>3. TypeOf(v) = "SET_CONFIG"
      BY <2>2 DEF TypeOf, StatsRequests, StatsReplies
    <3> QED BY <2>1, <3>1, <3>2, <3>3
  <2>3. CASE v = "QUEUE_GET_CONFIG_REQUEST"
    <3>1. ErrorMap("QUEUE_GET_CONFIG_REQUEST") =
            [QUEUE_OP_FAILED |-> {"INVALID_PORT_NO"}]
      BY DEF ErrorMap
    <3>2. r = "INVALID_PORT_NO"
      BY <1>2, <2>3 DEF MayReturn, FieldErrorsOf, StatsRequests, Unknown
    <3>3. TypeOf(v) = "QUEUE_GET_CONFIG_REQUEST"
      BY <2>3 DEF TypeOf, StatsRequests, StatsReplies
    <3> QED BY <2>1, <3>1, <3>2, <3>3
  <2>4. CASE v = "PORT_MOD"
    <3>1. ErrorMap("PORT_MOD") =
            [PORT_MOD_FAILED |-> {"INVALID_PORT_NO"},
             BAD_REQUEST |-> {"INVALID_PORT_CONFIG", "INVALID_PORT_MASK",
                              "INVALID_PORT_FEATURES"}]
      BY DEF ErrorMap
    <3>2. r \in {"INVALID_PORT_NO", "INVALID_PORT_CONFIG",
                "INVALID_PORT_MASK", "INVALID_PORT_FEATURES"}
      BY <1>2, <2>4 DEF MayReturn, FieldErrorsOf, StatsRequests, Unknown
    <3>3. TypeOf(v) = "PORT_MOD"
      BY <2>4 DEF TypeOf, StatsRequests, StatsReplies
    <3>4. CASE r = "INVALID_PORT_NO"
      BY <2>1, <3>1, <3>3, <3>4
    <3>5. CASE r # "INVALID_PORT_NO"
      BY <2>1, <3>1, <3>2, <3>3, <3>5
    <3> QED BY <3>4, <3>5
  <2>5. CASE v = "PACKET_OUT"
    <3>1. ErrorMap("PACKET_OUT") = [BAD_ACTION |-> ActionErrors]
      BY DEF ErrorMap
    <3>2. TypeOf(v) = "PACKET_OUT"
      BY <2>5 DEF TypeOf, StatsRequests, StatsReplies
    <3>3. r \in {"INVALID_PORT_NO"} \cup ErrorsOfActions
      BY <1>2, <2>5 DEF MayReturn, FieldErrorsOf, StatsRequests, Unknown
    <3>4. r \in ActionErrors
      BY <3>2, <3>3 DEF ErrorsOfActions, ActionErrors, Unanswered
    <3> QED BY <2>1, <3>1, <3>2, <3>4
  <2>6. CASE v = "FLOW_MOD"
    <3> DEFINE F == {"INVALID_WILDCARDS", "UNDEFINED_FLOW_MOD_COMMAND",
                     "INVALID_FLOW_PRIORITY", "INVALID_FLOW_MOD_FLAGS"}
    <3>1. ErrorMap("FLOW_MOD") = [BAD_ACTION |-> ActionErrors, FLOW_MOD_FAILED |-> F]
      BY DEF ErrorMap
    <3>2. TypeOf(v) = "FLOW_MOD"
      BY <2>6 DEF TypeOf, StatsRequests, StatsReplies
    <3>3. r \in F \cup {"INVALID_VLAN_VID", "INVALID_VLAN_PCP", "INVALID_NW_TOS",
                     "INVALID_PORT_NO"} \cup ErrorsOfActions
      BY <1>2, <2>6 DEF MayReturn, FieldErrorsOf, StatsRequests, Unknown
    <3>4. r \in F \/ r \in ActionErrors
      BY <3>2, <3>3 DEF ErrorsOfActions, ActionErrors, Unanswered
    <3>5. F \cap ActionErrors = {}
      BY DEF ActionErrors, TooShortAction, TooLongAction, Range
    <3> HIDE DEF F
    <3> QED BY <2>1, <3>1, <3>2, <3>4, <3>5
  <2>7. CASE v \in StatsRequests \cup {"OTHER_REQUEST"}
    <3> DEFINE S == {"UNSUPPORTED_STATS_TYPE", "INVALID_STATS_TYPE",
                     "INVALID_STATS_REQUEST_FLAGS", "INVALID_PORT_NO"}
                      \cup ToSet(Match)
    <3>1. ErrorMap("STATS_REQUEST") = [BAD_REQUEST |-> S]
      BY DEF ErrorMap
    <3>2. TypeOf(v) = "STATS_REQUEST"
      BY <2>7 DEF TypeOf, StatsRequests, StatsReplies
    <3>3. ToSet(Match) = {"INVALID_WILDCARDS", "INVALID_VLAN_VID",
                          "INVALID_VLAN_PCP", "INVALID_NW_TOS"}
      BY DEF Match, ToSet
    <3>4. r \in S
      BY <1>2, <2>7, <3>3 DEF MayReturn, FieldErrorsOf, StatsRequests, Unknown
    <3> HIDE DEF S
    <3> QED BY <2>1, <3>1, <3>2, <3>4
  <2>8. CASE v \notin StatsRequests
                      \cup {"SET_CONFIG", "QUEUE_GET_CONFIG_REQUEST", "PORT_MOD",
                            "PACKET_OUT", "FLOW_MOD", "OTHER_REQUEST"}
    <3>1. v # "UNDEFINED" /\ v # "OTHER_REPLY"
      BY <1>2 DEF Reported, Types, TypeOf, Validators, Size, StatsRequests,
                  StatsReplies, FromSwitch
    <3> QED BY <1>2, <2>8, <3>1 DEF MayReturn, FieldErrorsOf, Unknown
  <2> QED BY <2>2, <2>3, <2>4, <2>5, <2>6, <2>7, <2>8
<1> QED BY <1>1, <1>2

-----------------------------------------------------------------------------
(***************************************************************************)
(* The theorems.                                                           *)
(***************************************************************************)
ValidInv == CheckInv /\ ErrorsFit

LEMMA ValidInvInit == Init => ValidInv
BY CheckInvInit DEF Init, ErrorsFit, ValidInv

LEMMA ValidInvNext ==
  ASSUME ValidInv, [Next]_vars
  PROVE  ValidInv'
BY CheckInvNext, ErrorsFitNext DEF ValidInv

LEMMA ValidInvariance == Spec => []ValidInv
<1>1. Init => ValidInv
  BY ValidInvInit
<1>2. ValidInv /\ [Next]_vars => ValidInv'
  BY ValidInvNext
<1> QED BY <1>1, <1>2, PTL DEF Spec

LEMMA WhatIsAccepted ==
  ASSUME ValidInv
  PROVE  AcceptedIsWhole /\ AcceptedAddsUp /\ StuckOnlyByItsLengths
<1>1. StuckOnlyByItsLengths /\ (result = "SUCCESS" => WholeMessage)
  BY DEF ValidInv, CheckInv, AtItsPart
<1>2. result = "SUCCESS" => Size[by].min \in Nat /\ Size[by].max \in Nat
  BY <1>1, SizeBounds DEF WholeMessage
<1>3. AcceptedIsWhole
  BY <1>1, <1>2 DEF WholeMessage, AcceptedIsWhole
<1>4. AcceptedAddsUp
  <2> SUFFICES ASSUME result = "SUCCESS", by \in WalkedReplies
               PROVE  /\ \A len \in ToSet(lens) : len > 0
                      /\ Uint16(Sum(lens)) = BodyLength
                      /\ Sum(lens) = BodyLength \/ wrapped
    BY DEF AcceptedAddsUp, WalkedReplies
  <2>1. AddsUp(Sum(lens), BodyLength, wrapped) /\ Progressing(lens)
    BY DEF ValidInv, CheckInv, AddedUp
  <2>2. BodyLength \in Nat /\ BodyLength <= Max16
    BY <1>1, SizeBounds DEF WholeMessage, Size, AtLeast, BodyLength, WalkedReplies
  <2>3. PICK k \in Nat : Sum(lens) = BodyLength + 65536 * k
    BY <2>1 DEF AddsUp
  <2>4. Uint16(Sum(lens)) = BodyLength
    BY <2>2, <2>3, Max16Is DEF Uint16
  <2> QED BY <2>1, <2>4 DEF AddsUp, Progressing, ToSet
<1> QED BY <1>1, <1>3, <1>4

LEMMA WhatIsAnswered ==
  ASSUME ValidInv
  PROVE  ErrorHasOneAnswer
<1> SUFFICES ASSUME pc = "done", result # "SUCCESS", by = msg.kind,
                    TypeOf(msg.kind) \notin FromSwitch,
                    TypeOf(msg.kind) \in DOMAIN Unanswered =>
                      result \notin Unanswered[TypeOf(msg.kind)]
             PROVE  Cardinality(cc_trans_error(TypeOf(msg.kind), result)) = 1
  BY DEF ErrorHasOneAnswer
<1>1. msg.kind \in Kinds /\ ~Reported(msg.kind) /\ result \in MayReturn(msg.kind)
  BY DEF ValidInv, CheckInv, Handed, ErrorsFit, Reported
<1> QED BY <1>1, OneAnswer

\* What a handler is given to work on is a whole message of its type: the length
\* in the header, which the handler reads the body with, is the length of the
\* buffer, holds the fixed part of the type and, but for the body of a HELLO that
\* has to be ignored, no more than the type allows.
THEOREM OnlyWholeAccepted == Spec => []AcceptedIsWhole
BY ValidInvariance, WhatIsAccepted, PTL

\* The flows or queues of a reply validate_flow_stats_reply or
\* validate_queue_get_config_reply accepts have lengths that add up to its body
\* on 16 bits, none of them zero.  Neither compares a length with what is left of
\* the message: when the lengths add up to more, what is left has wrapped on the
\* way, and the validator has read behind the message.
THEOREM LengthsAddUp == Spec => []AcceptedAddsUp
BY ValidInvariance, WhatIsAccepted, PTL

\* The loops of the validators go on for ever only when a flow or a queue claims
\* no length, or when an offset has wrapped at 16 bits.
THEOREM StuckByLengths == Spec => []StuckOnlyByItsLengths
BY ValidInvariance, WhatIsAccepted, PTL

\* Every error that a validator finds in a message that is not a switch's own
\* report has an entry in the table of errors, and no more than one, but for the
\* gaps that Unanswered names: cc_trans_error_type_and_code finds an answer.
THEOREM EveryErrorAnswered == Spec => []ErrorHasOneAnswer
BY ValidInvariance, WhatIsAnswered, PTL
=============================================================================
