--------------------------- MODULE CcMsgWireProofs ---------------------------
(***************************************************************************)
(* Proofs about CcMsgWire: what the folds of the creators compute, the     *)
(* properties of CcMsgCheck for the messages that are made or received,    *)
(* that no creator writes behind the message it makes, that every          *)
(* conversion treats each field of what it is given once, as the type of   *)
(* the field asks, that what is created passes its validator, and what is  *)
(* read to the end is well formed.                                         *)
(***************************************************************************)
EXTENDS CcMsgWire, CcMsgCheckProofs

-----------------------------------------------------------------------------
(***************************************************************************)
(* The folds over items and fields are sums of their lengths.              *)
(***************************************************************************)
LengthsOf(s) == [i \in DOMAIN s |-> s[i].len]
WidthsOf(s) == [i \in DOMAIN s |-> s[i].width * s[i].count]

\* The end of items that follow each other from b on.
SumFrom(b, s) == FoldSeq(LAMBDA i, n : n + i.len, b, s)

LengthSums(b, s, S, g) ==
  g = [T \in S |-> IF T = {} THEN b ELSE g[T \ {Pick(T)}] + s[Pick(T)].len]
WrappedSums(s, S, g) ==
  g = [T \in S |-> IF T = {} THEN 0
                   ELSE Uint16(g[T \ {Pick(T)}] + s[Pick(T)].len)]
WidthSums(s, S, g) ==
  g = [T \in S |-> IF T = {} THEN 0
                   ELSE g[T \ {Pick(T)}] + s[Pick(T)].width * s[Pick(T)].count]

LEMMA FoldsAre ==
  ASSUME NEW s
  PROVE  /\ \A b : SumFrom(b, s) =
                     (CHOOSE g : LengthSums(b, s, SUBSET DOMAIN s, g))[DOMAIN s]
         /\ ListLength(s) =
              (CHOOSE g : WrappedSums(s, SUBSET DOMAIN s, g))[DOMAIN s]
         /\ EndOf(s) = (CHOOSE g : WidthSums(s, SUBSET DOMAIN s, g))[DOMAIN s]
<1>1. ASSUME NEW b
      PROVE  SumFrom(b, s) =
               (CHOOSE g : LengthSums(b, s, SUBSET DOMAIN s, g))[DOMAIN s]
  BY DEF SumFrom, FoldSeq, FoldFunction, FoldFunctionOnSet, MapThenFoldSet,
         LengthSums, Pick
<1>2. ListLength(s) = (CHOOSE g : WrappedSums(s, SUBSET DOMAIN s, g))[DOMAIN s]
  BY DEF ListLength, FoldSeq, FoldFunction, FoldFunctionOnSet, MapThenFoldSet,
         WrappedSums, Pick
<1>3. EndOf(s) = (CHOOSE g : WidthSums(s, SUBSET DOMAIN s, g))[DOMAIN s]
  BY DEF EndOf, FoldSeq, FoldFunction, FoldFunctionOnSet, MapThenFoldSet,
         WidthSums, Pick
<1> QED BY <1>1, <1>2, <1>3

\* The sums of the parts of a list of numbers.
SumsOf(f, j) ==
  /\ IsFiniteSet(DOMAIN f)
  /\ j[{}] = 0
  /\ Sum(f) = j[DOMAIN f]
  /\ \A T \in SUBSET DOMAIN f :
       /\ j[T] \in Nat
       /\ T # {} => /\ Pick(T) \in DOMAIN f /\ f[Pick(T)] \in Nat
                    /\ T \ {Pick(T)} \in SUBSET DOMAIN f
                    /\ j[T] = j[T \ {Pick(T)}] + f[Pick(T)]

LEMMA SumsOfExist == ASSUME NEW f \in Seq(Nat) PROVE \E j : SumsOf(f, j)
<1> DEFINE D == DOMAIN f
           j == CHOOSE g : Sums(f, SUBSET D, g)
<1>1. IsFiniteSet(D) /\ \A i \in D : f[i] \in Nat
  <2>1. D = 1 .. Len(f) /\ Len(f) \in Nat /\ \A i \in D : f[i] \in Nat
    OBVIOUS
  <2>2. IsFiniteSet(1 .. Len(f))
    BY FS_Interval
  <2> QED BY <2>1, <2>2
<1> HIDE DEF D
<1>2. Sums(f, SUBSET D, j)
  BY <1>1, SumsExist
<1>3. Sum(f) = j[D]
  BY SumIs DEF D
<1> HIDE DEF j
<1>4. InAnyOrder(f, SUBSET D, j)
  BY <1>1, <1>2, TakenInAnyOrder
<1>5. \A T \in SUBSET D : j[T] \in Nat
  BY <1>4 DEF InAnyOrder
<1>6. \A T \in SUBSET D : j[T] = IF T = {} THEN 0 ELSE f[Pick(T)] + j[T \ {Pick(T)}]
  BY <1>2 DEF Sums
<1>7. ASSUME NEW T \in SUBSET D, T # {}
      PROVE  /\ Pick(T) \in D /\ f[Pick(T)] \in Nat
             /\ T \ {Pick(T)} \in SUBSET D
             /\ j[T] = j[T \ {Pick(T)}] + f[Pick(T)]
  <2>1. Pick(T) \in D /\ T \ {Pick(T)} \in SUBSET D
    BY <1>7, PickIs
  <2>2. f[Pick(T)] \in Nat /\ j[T \ {Pick(T)}] \in Nat
    BY <2>1, <1>1, <1>5
  <2>3. j[T] = f[Pick(T)] + j[T \ {Pick(T)}]
    BY <1>6, <1>7
  <2> QED BY <2>1, <2>2, <2>3
<1>8. j[{}] = 0
  <2>1. {} \in SUBSET D
    OBVIOUS
  <2> QED BY <2>1, <1>6
<1> QED BY <1>1, <1>3, <1>5, <1>7, <1>8 DEF SumsOf, D

LEMMA SumFromIs ==
  ASSUME NEW s, LengthsOf(s) \in Seq(Nat), NEW b \in Nat
  PROVE  SumFrom(b, s) = b + Sum(LengthsOf(s)) /\ Sum(LengthsOf(s)) \in Nat
<1> DEFINE f == LengthsOf(s)
           D == DOMAIN s
           k == CHOOSE g : LengthSums(b, s, SUBSET D, g)
<1>1. PICK j : SumsOf(f, j)
  BY SumsOfExist
<1>2. DOMAIN f = D /\ \A i \in D : f[i] = s[i].len
  BY DEF LengthsOf
<1>3. SumFrom(b, s) = k[D]
  BY FoldsAre
<1> HIDE DEF f, D
<1> DEFINE h == [T \in SUBSET D |-> b + j[T]]
<1>4. ASSUME NEW T \in SUBSET D, T # {}
      PROVE  /\ T \ {Pick(T)} \in SUBSET D
             /\ b + j[T] = (b + j[T \ {Pick(T)}]) + s[Pick(T)].len
  <2>1. T \in SUBSET DOMAIN f
    BY <1>2
  <2>2. /\ Pick(T) \in DOMAIN f /\ f[Pick(T)] \in Nat
        /\ T \ {Pick(T)} \in SUBSET DOMAIN f
        /\ j[T] = j[T \ {Pick(T)}] + f[Pick(T)]
    BY <1>1, <1>4, <2>1 DEF SumsOf
  <2>3. j[T \ {Pick(T)}] \in Nat
    BY <1>1, <2>2 DEF SumsOf
  <2> QED BY <1>2, <2>2, <2>3
<1>5. LengthSums(b, s, SUBSET D, h)
  <2>1. \A T \in SUBSET D : h[T] = b + j[T]
    OBVIOUS
  <2>2. h = [T \in SUBSET D |-> h[T]]
    OBVIOUS
  <2> HIDE DEF h
  <2>3. h = [T \in SUBSET D |->
               IF T = {} THEN b
               ELSE h[T \ {Pick(T)}] + s[Pick(T)].len]
    <3>1. b + j[{}] = b
      BY <1>1 DEF SumsOf
    <3> QED BY <2>1, <2>2, <3>1, <1>4
  <2> QED BY <2>3 DEF LengthSums
<1>6. LengthSums(b, s, SUBSET D, k)
  BY <1>5
<1> HIDE DEF k
<1>7. \A T \in SUBSET D :
        /\ h[T] = IF T = {} THEN b ELSE h[T \ {Pick(T)}] + s[Pick(T)].len
        /\ k[T] = IF T = {} THEN b
                 ELSE k[T \ {Pick(T)}] + s[Pick(T)].len
  <2> HIDE DEF h
  <2> QED BY <1>5, <1>6 DEF LengthSums
<1>8. Agree(SUBSET D, h, k)
  <2>1. h[{}] = k[{}] /\ IsFiniteSet(D)
    BY <1>1, <1>2, <1>7 DEF SumsOf
  <2>2. \A T \in SUBSET D :
          T # {} /\ h[T \ {Pick(T)}] = k[T \ {Pick(T)}] => h[T] = k[T]
    <3> HIDE DEF h
    <3> QED BY <1>7
  <2> HIDE DEF h
  <2> QED BY <2>1, <2>2, AgreeByRest
<1>9. D \in SUBSET D /\ Sum(f) = j[D] /\ j[D] \in Nat
  BY <1>1, <1>2 DEF SumsOf
<1>10. h[D] = b + j[D]
  OBVIOUS
<1> HIDE DEF h
<1> QED BY <1>3, <1>8, <1>9, <1>10 DEF Agree, f

LEMMA SumOfLengthsIs ==
  ASSUME NEW s, LengthsOf(s) \in Seq(Nat)
  PROVE  SumOfLengths(s) = Sum(LengthsOf(s)) /\ SumOfLengths(s) \in Nat
<1>1. SumOfLengths(s) = SumFrom(0, s)
  BY DEF SumOfLengths, SumFrom
<1> QED BY <1>1, SumFromIs

\* A sum that is wrapped at every step is the sum, wrapped.
LEMMA WrapsAgain ==
  /\ \A m, n \in Nat : Uint16(Uint16(m) + n) = Uint16(m + n)
  /\ Uint16(0) = 0
BY DEF Uint16, Max16

LEMMA ListLengthIs ==
  ASSUME NEW s, LengthsOf(s) \in Seq(Nat)
  PROVE  ListLength(s) = Uint16(Sum(LengthsOf(s)))
<1> DEFINE f == LengthsOf(s)
           D == DOMAIN s
           k == CHOOSE g : WrappedSums(s, SUBSET D, g)
<1>1. PICK j : SumsOf(f, j)
  BY SumsOfExist
<1>2. DOMAIN f = D /\ \A i \in D : f[i] = s[i].len
  BY DEF LengthsOf
<1>3. ListLength(s) = k[D]
  BY FoldsAre
<1> HIDE DEF f, D
<1> DEFINE h == [T \in SUBSET D |-> Uint16(j[T])]
<1>4. ASSUME NEW T \in SUBSET D, T # {}
      PROVE  /\ T \ {Pick(T)} \in SUBSET D
             /\ Uint16(j[T]) = Uint16(Uint16(j[T \ {Pick(T)}]) + s[Pick(T)].len)
  <2>1. T \in SUBSET DOMAIN f
    BY <1>2
  <2>2. /\ Pick(T) \in DOMAIN f /\ f[Pick(T)] \in Nat
        /\ T \ {Pick(T)} \in SUBSET DOMAIN f
        /\ j[T] = j[T \ {Pick(T)}] + f[Pick(T)]
    BY <1>1, <1>4, <2>1 DEF SumsOf
  <2>3. j[T \ {Pick(T)}] \in Nat
    BY <1>1, <2>2 DEF SumsOf
  <2> QED BY <1>2, <2>2, <2>3, WrapsAgain
<1>5. WrappedSums(s, SUBSET D, h)
  <2>1. \A T \in SUBSET D : h[T] = Uint16(j[T])
    OBVIOUS
  <2>2. h = [T \in SUBSET D |-> h[T]]
    OBVIOUS
  <2> HIDE DEF h
  <2>3. h = [T \in SUBSET D |->
               IF T = {} THEN 0 ELSE Uint16(h[T \ {Pick(T)}] + s[Pick(T)].len)]
    <3>1. j[{}] = 0
      BY <1>1 DEF SumsOf
    <3> QED BY <2>1, <2>2, <3>1, <1>4, WrapsAgain
  <2> QED BY <2>3 DEF WrappedSums
<1>6. WrappedSums(s, SUBSET D, k)
  BY <1>5
<1> HIDE DEF k
<1>7. \A T \in SUBSET D :
        /\ h[T] = IF T = {} THEN 0 ELSE Uint16(h[T \ {Pick(T)}] + s[Pick(T)].len)
        /\ k[T] = IF T = {} THEN 0 ELSE Uint16(k[T \ {Pick(T)}] + s[Pick(T)].len)
  <2> HIDE DEF h
  <2> QED BY <1>5, <1>6 DEF WrappedSums
<1>8. Agree(SUBSET D, h, k)
  <2>1. h[{}] = k[{}] /\ IsFiniteSet(D)
    BY <1>1, <1>2, <1>7 DEF SumsOf
  <2>2. \A T \in SUBSET D :
          T # {} /\ h[T \ {Pick(T)}] = k[T \ {Pick(T)}] => h[T] = k[T]
    <3> HIDE DEF h
    <3> QED BY <1>7
  <2> HIDE DEF h
  <2> QED BY <2>1, <2>2, AgreeByRest
<1>9. D \in SUBSET D /\ Sum(f) = j[D] /\ j[D] \in Nat
  BY <1>1, <1>2 DEF SumsOf
<1>10. h[D] = Uint16(j[D])
  OBVIOUS
<1> HIDE DEF h
<1> QED BY <1>3, <1>8, <1>9, <1>10 DEF Agree, f

LEMMA EndOfIs ==
  ASSUME NEW s, WidthsOf(s) \in Seq(Nat)
  PROVE  EndOf(s) = Sum(WidthsOf(s)) /\ EndOf(s) \in Nat
<1> DEFINE f == WidthsOf(s)
           D == DOMAIN s
           k == CHOOSE g : WidthSums(s, SUBSET D, g)
<1>1. PICK j : SumsOf(f, j)
  BY SumsOfExist
<1>2. DOMAIN f = D /\ \A i \in D : f[i] = s[i].width * s[i].count
  BY DEF WidthsOf
<1>3. EndOf(s) = k[D]
  BY FoldsAre
<1> HIDE DEF f, D
<1> DEFINE h == [T \in SUBSET D |-> j[T]]
<1>4. ASSUME NEW T \in SUBSET D, T # {}
      PROVE  /\ T \ {Pick(T)} \in SUBSET D
             /\ j[T] = j[T \ {Pick(T)}] + s[Pick(T)].width * s[Pick(T)].count
  <2>1. T \in SUBSET DOMAIN f
    BY <1>2
  <2>2. /\ Pick(T) \in DOMAIN f /\ f[Pick(T)] \in Nat
        /\ T \ {Pick(T)} \in SUBSET DOMAIN f
        /\ j[T] = j[T \ {Pick(T)}] + f[Pick(T)]
    BY <1>1, <1>4, <2>1 DEF SumsOf
  <2>3. j[T \ {Pick(T)}] \in Nat
    BY <1>1, <2>2 DEF SumsOf
  <2> QED BY <1>2, <2>2, <2>3
<1>5. WidthSums(s, SUBSET D, h)
  <2>1. \A T \in SUBSET D : h[T] = j[T]
    OBVIOUS
  <2>2. h = [T \in SUBSET D |-> h[T]]
    OBVIOUS
  <2> HIDE DEF h
  <2>3. h = [T \in SUBSET D |->
               IF T = {} THEN 0
               ELSE h[T \ {Pick(T)}] + s[Pick(T)].width * s[Pick(T)].count]
    <3>1. j[{}] = 0
      BY <1>1 DEF SumsOf
    <3> QED BY <2>1, <2>2, <3>1, <1>4
  <2> QED BY <2>3 DEF WidthSums
<1>6. WidthSums(s, SUBSET D, k)
  BY <1>5
<1> HIDE DEF k
<1>7. \A T \in SUBSET D :
        /\ h[T] = IF T = {} THEN 0
                 ELSE h[T \ {Pick(T)}] + s[Pick(T)].width * s[Pick(T)].count
        /\ k[T] = IF T = {} THEN 0
                 ELSE k[T \ {Pick(T)}] + s[Pick(T)].width * s[Pick(T)].count
  <2> HIDE DEF h
  <2> QED BY <1>5, <1>6 DEF WidthSums
<1>8. Agree(SUBSET D, h, k)
  <2>1. h[{}] = k[{}] /\ IsFiniteSet(D)
    BY <1>1, <1>2, <1>7 DEF SumsOf
  <2>2. \A T \in SUBSET D :
          T # {} /\ h[T \ {Pick(T)}] = k[T \ {Pick(T)}] => h[T] = k[T]
    <3> HIDE DEF h
    <3> QED BY <1>7
  <2> HIDE DEF h
  <2> QED BY <2>1, <2>2, AgreeByRest
<1>9. D \in SUBSET D /\ Sum(f) = j[D] /\ j[D] \in Nat
  BY <1>1, <1>2 DEF SumsOf
<1>10. h[D] = j[D]
  OBVIOUS
<1> HIDE DEF h
<1> QED BY <1>3, <1>8, <1>9, <1>10 DEF Agree, f

\* The sum of the first k numbers.
Before(f, k) == Sum(SubSeq(f, 1, k))

LEMMA BeforeMore ==
  ASSUME NEW f \in Seq(Nat), NEW k \in Nat, k <= Len(f)
  PROVE  /\ Before(f, k) \in Nat
         /\ k = 0 => Before(f, k) = 0
         /\ k = Len(f) => Before(f, k) = Sum(f)
         /\ k < Len(f) => Before(f, k + 1) = Before(f, k) + f[k + 1]
<1>1. SubSeq(f, 1, k) \in Seq(Nat)
  OBVIOUS
<1>2. Before(f, k) \in Nat
  BY <1>1, SumOfMore DEF Before
<1>3. k = 0 => SubSeq(f, 1, k) = <<>>
  OBVIOUS
<1>4. k = Len(f) => SubSeq(f, 1, k) = f
  OBVIOUS
<1>5. ASSUME k < Len(f) PROVE Before(f, k + 1) = Before(f, k) + f[k + 1]
  <2>1. SubSeq(f, 1, k + 1) = Append(SubSeq(f, 1, k), f[k + 1]) /\ f[k + 1] \in Nat
    BY <1>5
  <2> QED BY <2>1, <1>1, SumOfMore DEF Before
<1> QED BY <1>2, <1>3, <1>4, <1>5, SumOfNone DEF Before

LEMMA BeforeIsLess ==
  ASSUME NEW f \in Seq(Nat), NEW k \in Nat, k <= Len(f)
  PROVE  Before(f, k) <= Sum(f)
<1> DEFINE N == {m \in Nat : m <= Len(f) /\ ~(Before(f, Len(f) - m) <= Sum(f))}
<1>1. ASSUME N # {} PROVE FALSE
  <2>1. PICK m \in N : \A q \in N : m <= q
    <3> HIDE DEF N
    <3>1. N \in SUBSET Nat
      BY DEF N
    <3> QED BY <3>1, <1>1, Least
  <2> DEFINE j == Len(f) - m
  <2>2. j \in Nat /\ j <= Len(f) /\ m \in Nat /\ j + m = Len(f)
    OBVIOUS
  <2>3. m # 0
    <3>1. m = 0 => Before(f, j) = Sum(f) /\ Before(f, j) \in Nat
      BY <2>2, BeforeMore
    <3> QED BY <3>1
  <2>4. /\ Before(f, j + 1) = Before(f, j) + f[j + 1] /\ f[j + 1] \in Nat
        /\ Before(f, j) \in Nat
    <3>1. j < Len(f) /\ j + 1 \in 1 .. Len(f)
      BY <2>2, <2>3
    <3> HIDE DEF j
    <3> QED BY SMTT(20), <3>1, <2>2, BeforeMore
  <2>5. Before(f, j + 1) <= Sum(f)
    <3>1. m - 1 \in Nat /\ m - 1 \notin N /\ m - 1 <= Len(f) /\ Len(f) - (m - 1) = j + 1
      <4> HIDE DEF N
      <4> QED BY <2>1, <2>2, <2>3
    <3> HIDE DEF j
    <3> QED BY <3>1
  <2>6. ~(Before(f, j) <= Sum(f))
    OBVIOUS
  <2>7. Sum(f) \in Nat
    BY SumOfMore
  <2> HIDE DEF j
  <2> QED BY <2>4, <2>5, <2>6, <2>7
<1>2. Len(f) - k \in Nat /\ Len(f) - k <= Len(f) /\ Len(f) - (Len(f) - k) = k
  OBVIOUS
<1> QED BY <1>1, <1>2

-----------------------------------------------------------------------------
(***************************************************************************)
(* The lengths the creators compute are numbers.                           *)
(***************************************************************************)
Names == {"version", "type", "length", "xid", "datapath_id", "n_buffers",
          "n_tables", "pad", "capabilities", "actions", "buffer_id", "total_len",
          "in_port", "reason", "actions_len", "wildcards", "dl_src", "dl_dst",
          "dl_vlan", "dl_vlan_pcp", "pad1", "dl_type", "nw_tos", "nw_proto",
          "pad2", "nw_src", "nw_dst", "tp_src", "tp_dst", "cookie", "command",
          "idle_timeout", "hard_timeout", "priority", "out_port", "flags",
          "port"}
Widths == {1, 2, 4, 8}
FieldsNamed == [name : Names, width : Widths, count : Nat]

LEMMA StructEnds == ASSUME NEW s \in Seq(FieldsNamed) PROVE EndOf(s) \in Nat
<1>1. \A i \in DOMAIN s : s[i].width * s[i].count \in Nat
  <2>1. ASSUME NEW i \in DOMAIN s PROVE s[i].width * s[i].count \in Nat
    <3>1. s[i] \in FieldsNamed
      OBVIOUS
    <3>2. s[i].width \in Nat /\ s[i].count \in Nat
      BY <3>1 DEF FieldsNamed, Widths
    <3> QED BY <3>2
  <2> QED BY <2>1
<1>2. DOMAIN s = 1 .. Len(s) /\ Len(s) \in Nat
  OBVIOUS
<1>3. WidthsOf(s) \in Seq(Nat)
  BY <1>1, <1>2 DEF WidthsOf
<1> QED BY <1>3, EndOfIs

\* A structure ends within the last of its aligned words.
LEMMA AlignedWithin ==
  ASSUME NEW s \in Seq(FieldsNamed), s # <<>>, EndOf(s) \in Nat
  PROVE  /\ EndOf(s) <= SizeOf(s)
         /\ SizeOf(s) = 12 => EndOf(s) >= 8
         /\ SizeOf(s) < EndOf(s) + 8
<1> DEFINE W == {f.width : f \in ToSet(s)}
           align == Max(W)
<1>1. W \subseteq Widths /\ W # {}
  <2>1. ASSUME NEW i \in DOMAIN s PROVE s[i].width \in Widths
    <3>1. s[i] \in FieldsNamed
      OBVIOUS
    <3> QED BY <3>1 DEF FieldsNamed
  <2>2. 1 \in DOMAIN s
    OBVIOUS
  <2>3. W = {s[i].width : i \in DOMAIN s}
    BY DEF ToSet
  <2> HIDE DEF W
  <2> QED BY <2>1, <2>2, <2>3
<1>2. \E x \in W : \A y \in W : x >= y
  <2> HIDE DEF W
  <2>1. 8 \in W \/ 4 \in W \/ 2 \in W \/ 1 \in W
    BY <1>1 DEF Widths
  <2>2. CASE 8 \in W
    BY <1>1, <2>2 DEF Widths
  <2>3. CASE 8 \notin W /\ 4 \in W
    BY <1>1, <2>3 DEF Widths
  <2>4. CASE 8 \notin W /\ 4 \notin W /\ 2 \in W
    BY <1>1, <2>4 DEF Widths
  <2>5. CASE 8 \notin W /\ 4 \notin W /\ 2 \notin W
    BY <1>1, <2>1, <2>5 DEF Widths
  <2> QED BY <2>2, <2>3, <2>4, <2>5
<1>3. align \in Widths
  <2> HIDE DEF W
  <2>1. Max(W) \in W
    BY <1>2 DEF Max
  <2> QED BY <2>1, <1>1
<1>4. SizeOf(s) = align * ((EndOf(s) + align - 1) \div align)
  BY DEF SizeOf
<1> HIDE DEF align
<1> DEFINE e == EndOf(s)
           z == SizeOf(s)
<1>5. z = align * ((e + align - 1) \div align) /\ e \in Nat
  BY <1>4
<1> HIDE DEF e, z
<1>6. e <= z /\ z < e + align /\ (z = 12 => align # 8)
  <2>1. CASE align = 1
    BY <1>5, <2>1
  <2>2. CASE align = 2
    BY <1>5, <2>2
  <2>3. CASE align = 4
    BY <1>5, <2>3
  <2>4. CASE align = 8
    BY <1>5, <2>4
  <2> QED BY <1>3, <2>1, <2>2, <2>3, <2>4 DEF Widths
<1>7. z \in Int
  BY <1>5, <1>3 DEF Widths
<1> QED BY SMTT(20), <1>3, <1>5, <1>6, <1>7 DEF Widths, e, z

LEMMA EachIsStruct ==
  ASSUME NEW names \in Seq(Names)
  PROVE  Each(u16, names) \in Seq(FieldsNamed)
<1>1. \A i \in DOMAIN names : u16(names[i]) \in FieldsNamed
  BY DEF u16, Field, FieldsNamed, Widths
<1>2. DOMAIN names = 1 .. Len(names) /\ Len(names) \in Nat
  OBVIOUS
<1> QED BY <1>1, <1>2 DEF Each

\* Where the fixed part of a message ends: behind its header, and not far.
Start(n) == n \in Nat /\ 8 <= n /\ n <= 80

LEMMA StructsStart ==
  /\ Start(EndOf(ofp_switch_features)) /\ Start(EndOf(ofp_packet_in))
  /\ Start(EndOf(ofp_packet_out)) /\ Start(EndOf(ofp_flow_mod))
  /\ Start(EndOf(ofp_stats_request)) /\ Start(EndOf(ofp_stats_reply))
  /\ Start(EndOf(ofp_queue_get_config_reply))
<1>1. \A f \in Names, n \in Nat : /\ u8(f) \in FieldsNamed /\ u16(f) \in FieldsNamed
                                   /\ u32(f) \in FieldsNamed /\ u64(f) \in FieldsNamed
                                   /\ bytes(f, n) \in FieldsNamed
  BY DEF u8, u16, u32, u64, bytes, Field, FieldsNamed, Widths
<1>2. ofp_header \in Seq(FieldsNamed)
  BY <1>1 DEF ofp_header, Names
<1>3. ofp_switch_features \in Seq(FieldsNamed)
  BY <1>1, <1>2 DEF ofp_switch_features, Names
<1>4. ofp_packet_in \in Seq(FieldsNamed) /\ ofp_packet_out \in Seq(FieldsNamed)
  BY <1>1, <1>2 DEF ofp_packet_in, ofp_packet_out, Names
<1>5. ofp_flow_mod \in Seq(FieldsNamed)
  <2>1. ofp_match \in Seq(FieldsNamed)
    BY <1>1 DEF ofp_match, Names
  <2>2. Each(u16, <<"command", "idle_timeout", "hard_timeout", "priority">>)
          \in Seq(FieldsNamed)
    <3>1. <<"command", "idle_timeout", "hard_timeout", "priority">> \in Seq(Names)
      BY DEF Names
    <3> QED BY <3>1, EachIsStruct, Zenon
  <2>3. /\ <<u64("cookie")>> \in Seq(FieldsNamed)
        /\ <<u32("buffer_id"), u16("out_port"), u16("flags")>> \in Seq(FieldsNamed)
    BY <1>1 DEF Names
  <2> DEFINE e == Each(u16, <<"command", "idle_timeout", "hard_timeout", "priority">>)
  <2>4. e \in Seq(FieldsNamed)
    BY <2>2
  <2> HIDE DEF e
  <2>5. ofp_header \o ofp_match \o <<u64("cookie")>> \o e
          \o <<u32("buffer_id"), u16("out_port"), u16("flags")>> \in Seq(FieldsNamed)
    BY <1>2, <2>1, <2>3, <2>4
  <2> QED BY <2>5 DEF ofp_flow_mod, e
<1>6. ofp_stats_request \in Seq(FieldsNamed) /\ ofp_stats_reply \in Seq(FieldsNamed)
  <2>1. <<"type", "flags">> \in Seq(Names)
    BY DEF Names
  <2>2. Each(u16, <<"type", "flags">>) \in Seq(FieldsNamed)
    BY <2>1, EachIsStruct, Zenon
  <2> DEFINE e == Each(u16, <<"type", "flags">>)
  <2>3. e \in Seq(FieldsNamed)
    BY <2>2
  <2> HIDE DEF e
  <2>4. ofp_header \o e \in Seq(FieldsNamed)
    BY <1>2, <2>3
  <2> QED BY <2>4 DEF ofp_stats_request, ofp_stats_reply, e
<1>7. ofp_queue_get_config_reply \in Seq(FieldsNamed)
  BY <1>1, <1>2 DEF ofp_queue_get_config_reply, Names
<1>8. ofp_stats_request # <<>> /\ ofp_stats_reply # <<>> /\ ofp_flow_mod # <<>>
  <2>1. Len(ofp_header) = 4
    BY DEF ofp_header
  <2>2. ASSUME NEW s \in Seq(FieldsNamed), s # <<>>, NEW t \in Seq(FieldsNamed)
        PROVE  s \o t # <<>> /\ s \o t \in Seq(FieldsNamed)
    <3>1. Len(s \o t) = Len(s) + Len(t) /\ Len(s) > 0 /\ Len(t) \in Nat
      BY <2>2
    <3> QED BY <3>1
  <2> QED BY <1>2, <2>1, <2>2 DEF ofp_stats_request, ofp_stats_reply, ofp_flow_mod
<1>9. /\ ofp_switch_features # <<>> /\ ofp_packet_in # <<>>
      /\ ofp_packet_out # <<>> /\ ofp_queue_get_config_reply # <<>>
  BY <1>1, <1>2 DEF ofp_header, ofp_switch_features, ofp_packet_in, ofp_packet_out,
                    ofp_queue_get_config_reply, Names
<1>10. ASSUME NEW s \in Seq(FieldsNamed), s # <<>>,
              SizeOf(s) \in {12, 16, 20, 32, 72}
       PROVE  Start(EndOf(s))
  <2>1. EndOf(s) \in Nat
    BY StructEnds
  <2> DEFINE e == EndOf(s)
             z == SizeOf(s)
  <2>2. /\ e <= z /\ (z = 12 => e >= 8) /\ z < e + 8
        /\ e \in Nat /\ z \in {12, 16, 20, 32, 72}
    BY <1>10, <2>1, AlignedWithin
  <2> HIDE DEF e, z
  <2>3. 8 <= e /\ e <= 80
    BY <2>2
  <2> QED BY <2>2, <2>3 DEF Start, e
<1>11. \A s \in {ofp_switch_features, ofp_packet_in, ofp_packet_out, ofp_flow_mod,
                 ofp_stats_request, ofp_stats_reply, ofp_queue_get_config_reply} :
         SizeOf(s) \in {12, 16, 20, 32, 72}
  BY OfpAssertions DEF ofp_stats_reply
<1> QED BY <1>3, <1>4, <1>5, <1>6, <1>7, <1>8, <1>9, <1>10, <1>11

LEMMA StructsEnd ==
  /\ EndOf(ofp_switch_features) \in Nat /\ EndOf(ofp_packet_in) \in Nat
  /\ EndOf(ofp_packet_out) \in Nat /\ EndOf(ofp_flow_mod) \in Nat
  /\ EndOf(ofp_stats_request) \in Nat /\ EndOf(ofp_stats_reply) \in Nat
  /\ EndOf(ofp_queue_get_config_reply) \in Nat
BY StructsStart DEF Start

LEMMA StructsHaveSizes ==
  /\ SizeOf(ofp_header) \in Nat /\ SizeOf(ofp_error_msg) \in Nat
  /\ SizeOf(ofp_vendor_header) \in Nat /\ SizeOf(ofp_switch_config) \in Nat
  /\ SizeOf(ofp_flow_removed) \in Nat /\ SizeOf(ofp_port_status) \in Nat
  /\ SizeOf(ofp_port_mod) \in Nat /\ SizeOf(ofp_flow_stats_request) \in Nat
  /\ SizeOf(ofp_aggregate_stats_request) \in Nat
  /\ SizeOf(ofp_port_stats_request) \in Nat
  /\ SizeOf(ofp_queue_stats_request) \in Nat /\ SizeOf(ofp_desc_stats) \in Nat
  /\ SizeOf(ofp_aggregate_stats_reply) \in Nat /\ SizeOf(ofp_table_stats) \in Nat
  /\ SizeOf(ofp_port_stats) \in Nat /\ SizeOf(ofp_queue_stats) \in Nat
  /\ SizeOf(ofp_queue_get_config_request) \in Nat /\ SizeOf(ofp_phy_port) \in Nat
BY OfpAssertions DEF ofp_aggregate_stats_request

\* What a message may be made from.
Content(c) == /\ c.kind \in Validators
              /\ c.data \in Nat /\ c.count \in Nat
              /\ LengthsOf(c.items) \in Seq(Nat)
              /\ DOMAIN c = {"kind", "data", "count", "items", "buffered"}

\* A plan whose length is a number.
Plan(p) == p.length \in Nat

LEMMA PlansAre ==
  /\ \A n \in Int : Plan(OfSize(n))
  /\ \A n \in Nat, data \in Nat : \A copied : Plan(WithData(n, data, copied))
  /\ \A n \in Nat, count \in Nat : \A struct :
       SizeOf(struct) \in Nat => Plan(WithArray(n, struct, count))
  /\ \A n \in Nat, data \in Nat : \A items :
       LengthsOf(items) \in Seq(Nat) => Plan(WithList(n, items, data))
<1>1. \A n \in Int : Plan(cc_create_header(n))
  BY Wraps DEF Plan, cc_create_header
<1>2. \A n \in Int : Plan(OfSize(n))
  BY <1>1 DEF Plan, OfSize, cc_create_header
<1>3. ASSUME NEW n \in Nat, NEW data \in Nat, NEW copied
      PROVE  Plan(WithData(n, data, copied))
  <2>1. n + Uint16(data) \in Int
    BY Wraps
  <2> QED BY <2>1, <1>1 DEF Plan, WithData, cc_create_header
<1>4. ASSUME NEW n \in Nat, NEW count \in Nat, NEW struct, SizeOf(struct) \in Nat
      PROVE  Plan(WithArray(n, struct, count))
  <2>1. Uint16(count) \in Nat
    BY Wraps
  <2>2. SizeOf(struct) * Uint16(count) \in Nat
    BY <2>1, <1>4
  <2>3. n + SizeOf(struct) * Uint16(count) \in Int
    BY <2>2
  <2> QED BY <2>3, <1>1 DEF Plan, WithArray, cc_create_header
<1>5. ASSUME NEW n \in Nat, NEW data \in Nat, NEW items,
             LengthsOf(items) \in Seq(Nat)
      PROVE  Plan(WithList(n, items, data))
  <2>1. Uint16(data) \in Nat
    BY Wraps
  <2>2. ListLength(items) \in Nat
    <3>1. Sum(LengthsOf(items)) \in Nat
      BY <1>5, SumOfMore
    <3> QED BY <3>1, <1>5, ListLengthIs, Wraps
  <2>3. n + ListLength(items) + Uint16(data) \in Int
    BY <2>1, <2>2
  <2> QED BY <2>3, <1>1 DEF Plan, WithList, cc_create_header
<1> QED BY <1>2, <1>3, <1>4, <1>5

LEMMA LengthsAreNumbers == ASSUME NEW c, Content(c) PROVE Plan(PlanOf(c))
<1> USE DEF Content
<1>0. \A n \in Nat : /\ Plan(OfSize(n)) /\ Plan(cc_create_stats_request(n))
                     /\ Plan(cc_create_stats_reply(n))
  <2>1. ASSUME NEW n \in Nat
        PROVE  /\ Plan(OfSize(n)) /\ Plan(cc_create_stats_request(n))
               /\ Plan(cc_create_stats_reply(n))
    <3>1. /\ n \in Int /\ EndOf(ofp_stats_request) + n \in Int
          /\ EndOf(ofp_stats_reply) + n \in Int
      BY StructsEnd
    <3> QED BY <3>1, PlansAre DEF cc_create_stats_request, cc_create_stats_reply
  <2> QED BY <2>1
<1>1. /\ Plan(cc_create_hello(c)) /\ Plan(cc_create_features_request(c))
      /\ Plan(cc_create_get_config_request(c)) /\ Plan(cc_create_get_config_reply(c))
      /\ Plan(cc_create_set_config(c)) /\ Plan(cc_create_flow_removed(c))
      /\ Plan(cc_create_port_status(c)) /\ Plan(cc_create_port_mod(c))
      /\ Plan(cc_create_desc_stats_request(c)) /\ Plan(cc_create_flow_stats_request(c))
      /\ Plan(cc_create_aggregate_stats_request(c))
      /\ Plan(cc_create_table_stats_request(c))
      /\ Plan(cc_create_port_stats_request(c)) /\ Plan(cc_create_queue_stats_request(c))
      /\ Plan(cc_create_desc_stats_reply(c)) /\ Plan(cc_create_aggregate_stats_reply(c))
      /\ Plan(cc_create_barrier_request(c)) /\ Plan(cc_create_barrier_reply(c))
      /\ Plan(cc_create_queue_get_config_request(c))
  BY <1>0, StructsHaveSizes, StructsEnd
     DEF cc_create_hello, cc_create_features_request,
         cc_create_get_config_request, cc_create_get_config_reply,
         cc_create_set_config, cc_create_flow_removed, cc_create_port_status,
         cc_create_port_mod, cc_create_desc_stats_request,
         cc_create_flow_stats_request, cc_create_aggregate_stats_request,
         cc_create_table_stats_request, cc_create_port_stats_request,
         cc_create_queue_stats_request, cc_create_desc_stats_reply,
         cc_create_aggregate_stats_reply, cc_create_barrier_request,
         cc_create_barrier_reply, cc_create_queue_get_config_request
<1>2. /\ Plan(cc_create_error(c)) /\ Plan(cc_create_echo_request(c))
      /\ Plan(cc_create_echo_reply(c)) /\ Plan(cc_create_vendor(c))
      /\ Plan(cc_create_packet_in(c)) /\ Plan(cc_create_vendor_stats_request(c))
      /\ Plan(cc_create_vendor_stats_reply(c))
  <2>1. \A n \in Nat : \A e : Plan(WithData(n, c.data, e))
    BY PlansAre
  <2>2. EndOf(ofp_stats_request) + 4 \in Nat /\ EndOf(ofp_stats_reply) + 4 \in Nat
    BY StructsEnd
  <2> QED BY <2>1, <2>2, StructsHaveSizes, StructsEnd
     DEF cc_create_error, cc_create_echo_request, cc_create_echo_reply,
         cc_create_vendor, cc_create_packet_in, cc_create_vendor_stats_request,
         cc_create_vendor_stats_reply
<1>3. /\ Plan(cc_create_features_reply(c)) /\ Plan(cc_create_table_stats_reply(c))
      /\ Plan(cc_create_port_stats_reply(c)) /\ Plan(cc_create_queue_stats_reply(c))
  <2> DEFINE n == EndOf(ofp_switch_features)
             m == EndOf(ofp_stats_reply)
  <2>1. n \in Nat /\ m \in Nat
    BY StructsEnd
  <2>2. /\ Plan(WithArray(n, ofp_phy_port, c.count)) /\ Plan(OfSize(n))
        /\ Plan(WithArray(m, ofp_table_stats, c.count))
        /\ Plan(WithArray(m, ofp_port_stats, c.count))
        /\ Plan(WithArray(m, ofp_queue_stats, c.count))
    <3> HIDE DEF n, m
    <3> QED BY <2>1, <1>0, PlansAre, StructsHaveSizes
  <2> QED BY <2>2
     DEF cc_create_features_reply, cc_create_table_stats_reply,
         cc_create_port_stats_reply, cc_create_queue_stats_reply
<1>4. /\ Plan(cc_create_packet_out(c)) /\ Plan(cc_create_flow_mod(c))
      /\ Plan(cc_create_flow_stats_reply(c))
      /\ Plan(cc_create_queue_get_config_reply(c))
  <2>1. \A n, d \in Nat : Plan(WithList(n, c.items, d))
    BY PlansAre
  <2> QED BY <2>1, StructsEnd
     DEF cc_create_packet_out, cc_create_flow_mod, cc_create_flow_stats_reply,
         cc_create_queue_get_config_reply
<1> QED BY <1>1, <1>2, <1>3, <1>4 DEF PlanOf, Validators, Size

-----------------------------------------------------------------------------
(***************************************************************************)
(* What messages are made from.                                            *)
(***************************************************************************)
LEMMA ListsAreMeasured ==
  ASSUME NEW S, \A i \in S : i.len \in Nat, NEW n \in Nat, NEW s \in Lists(S, n)
  PROVE  LengthsOf(s) \in Seq(Nat)
<1>1. PICK k \in 0 .. n : s \in [1 .. k -> S]
  BY DEF Lists
<1>2. k \in Nat /\ DOMAIN s = 1 .. k /\ \A i \in 1 .. k : s[i].len \in Nat
  BY <1>1
<1> QED BY <1>2 DEF LengthsOf

LEMMA ItemsAreMeasured ==
  /\ \A types : \A i \in Parts(types) : i.len \in Nat
  /\ \A types, n : \A i \in Whole(types, n) : i.len \in Nat
<1>1. PartLengths \subseteq Nat /\ WholeLengths \subseteq Nat
  BY CreateAssumption
<1>2. ASSUME NEW types, NEW i \in Parts(types) PROVE i.len \in Nat
  <2>1. PICK t \in types, n \in PartLengths :
            i = [type |-> t, len |-> n, parts |-> <<>>]
    BY DEF Parts
  <2> QED BY <2>1, <1>1
<1>3. ASSUME NEW types, NEW n, NEW i \in Whole(types, n) PROVE i.len \in Nat
  <2>1. PICK len \in WholeLengths, ps \in Lists(Parts(types), n) :
          i = [type |-> "NONE", len |-> len, parts |-> ps]
    BY DEF Whole
  <2> QED BY <2>1, <1>1
<1> QED BY <1>2, <1>3

LEMMA NothingIsMeasured == LengthsOf(<<>>) \in Seq(Nat)
<1>1. LengthsOf(<<>>) = <<>>
  BY DEF LengthsOf
<1> QED BY <1>1, EmptySeq

LEMMA ContentsAre == ASSUME NEW c \in Contents PROVE Content(c)
<1>1. DataLengths \subseteq Nat /\ Counts \subseteq Nat
  BY CreateAssumption
<1>2. \A s \in Lists(Actions, MaxActions) : LengthsOf(s) \in Seq(Nat)
  BY ListsAreMeasured, ItemsAreMeasured, CreateAssumption DEF Actions
<1>3. \A s \in Flows \cup Queues : LengthsOf(s) \in Seq(Nat)
  <2>1. ASSUME NEW types, NEW s \in Wholes(types) PROVE LengthsOf(s) \in Seq(Nat)
    <3>1. PICK n \in Nat, k \in Nat : s \in Lists(Whole(types, n), k)
      BY <2>1, CreateAssumption DEF Wholes
    <3> QED BY <3>1, ItemsAreMeasured, ListsAreMeasured
  <2> QED BY <2>1 DEF Flows, Queues
<1>4. /\ OfOneSize \cup WithDataOnly \cup WithArrayOnly \subseteq Validators
      /\ {"PACKET_OUT", "FLOW_MOD", "FLOW_REPLY", "QUEUE_GET_CONFIG_REPLY"}
           \subseteq Validators
  BY DEF OfOneSize, WithDataOnly, WithArrayOnly, Validators, Size
<1> DEFINE Good(kinds, data, counts, items) ==
             /\ kinds \subseteq Validators /\ data \subseteq Nat
             /\ counts \subseteq Nat /\ \A s \in items : LengthsOf(s) \in Seq(Nat)
<1>5. ASSUME NEW kinds, NEW data, NEW counts, NEW items, NEW buffered,
             Good(kinds, data, counts, items),
             c \in Of(kinds, data, counts, items, buffered)
      PROVE  Content(c)
  <2>1. /\ c.kind \in kinds /\ c.data \in data
        /\ c.count \in counts /\ c.items \in items
        /\ DOMAIN c = {"kind", "data", "count", "items", "buffered"}
    BY <1>5 DEF Of
  <2> QED BY <1>5, <2>1 DEF Content
<1>6. /\ {0} \subseteq Nat /\ \A s \in {<<>>} : LengthsOf(s) \in Seq(Nat)
      /\ {"PACKET_OUT"} \subseteq Validators /\ {"FLOW_MOD"} \subseteq Validators
      /\ {"FLOW_REPLY"} \subseteq Validators
      /\ {"QUEUE_GET_CONFIG_REPLY"} \subseteq Validators
  BY <1>4, NothingIsMeasured
<1>7. /\ Good(OfOneSize, {0}, {0}, {<<>>})
      /\ Good(WithDataOnly, DataLengths, {0}, {<<>>})
      /\ Good(WithArrayOnly, {0}, Counts, {<<>>})
      /\ Good({"PACKET_OUT"}, DataLengths, {0}, Lists(Actions, MaxActions))
      /\ Good({"FLOW_MOD"}, {0}, {0}, Lists(Actions, MaxActions))
      /\ Good({"FLOW_REPLY"}, {0}, {0}, Flows)
      /\ Good({"QUEUE_GET_CONFIG_REPLY"}, {0}, {0}, Queues)
  BY <1>1, <1>2, <1>3, <1>4, <1>6
<1>8. \/ c \in Of(OfOneSize, {0}, {0}, {<<>>}, {TRUE})
      \/ c \in Of(WithDataOnly, DataLengths, {0}, {<<>>}, {TRUE})
      \/ c \in Of(WithArrayOnly, {0}, Counts, {<<>>}, {TRUE})
      \/ c \in Of({"PACKET_OUT"}, DataLengths, {0}, Lists(Actions, MaxActions), BOOLEAN)
      \/ c \in Of({"FLOW_MOD"}, {0}, {0}, Lists(Actions, MaxActions), {TRUE})
      \/ c \in Of({"FLOW_REPLY"}, {0}, {0}, Flows, {TRUE})
      \/ c \in Of({"QUEUE_GET_CONFIG_REPLY"}, {0}, {0}, Queues, {TRUE})
  BY Zenon DEF Contents
<1> HIDE DEF Good
<1> QED BY <1>5, <1>7, <1>8

LEMMA NeededIsNumber == ASSUME NEW c, Content(c) PROVE NeededLength(c) \in Nat
<1>1. PlanOf(EmptyOf(c)).length \in Nat
  <2>1. Content(EmptyOf(c))
    <3>1. /\ EmptyOf(c).kind = c.kind /\ EmptyOf(c).data = 0
          /\ EmptyOf(c).count = 0 /\ EmptyOf(c).items = <<>>
          /\ DOMAIN EmptyOf(c) = DOMAIN c
      BY DEF EmptyOf, Content
    <3> QED BY <3>1, NothingIsMeasured DEF Content
  <2> QED BY <2>1, LengthsAreNumbers DEF Plan
<1>2. SumOfLengths(c.items) \in Nat /\ c.data \in Nat
  BY SumOfLengthsIs DEF Content
<1>3. c.kind \in WithArrayOnly => c.count * SizeOf(Structure[c.kind][1]) \in Nat
  <2>1. c.kind \in WithArrayOnly => SizeOf(Structure[c.kind][1]) \in Nat
    BY StructsHaveSizes DEF WithArrayOnly, Structure
  <2> QED BY <2>1 DEF Content
<1> QED BY <1>1, <1>2, <1>3 DEF NeededLength

-----------------------------------------------------------------------------
(***************************************************************************)
(* The invariant: a message is checked once it has been made or received.  *)
(***************************************************************************)
Making == {"call", "put", "made", "received"}

WireInv == /\ CheckIdle \/ ValidInv
           /\ stage \in Making => CheckIdle /\ Content(content)
           /\ stage \in {"put", "made"} => Plan(plan)

LEMMA IdleIsRight ==
  ASSUME CheckIdle
  PROVE  /\ AcceptedIsWhole /\ AcceptedAddsUp /\ StuckOnlyByItsLengths
         /\ ErrorHasOneAnswer /\ ~Next
BY DEF CheckIdle, ErrorHasOneAnswer, AcceptedIsWhole, AcceptedAddsUp,
       StuckOnlyByItsLengths, Next,
       FixedPart, Element, Action, ActionsEnd, Flow, FlowEnd, CountQueue, CountEnd,
       Queue, Property, PropertiesEnd

LEMMA WireInvInit == WireInit => WireInv
<1> SUFFICES ASSUME WireInit PROVE WireInv
  OBVIOUS
<1>1. CASE Init /\ CreateIdle(NoContent, "any")
  BY <1>1, ValidInvInit DEF CreateIdle, WireInv, Making
<1>2. CASE CreateInit /\ CheckIdle
  BY <1>2, ContentsAre DEF CreateInit, WireInv, Making
<1>3. CASE CheckIdle /\ \E c \in ReceivedContents : CreateIdle(c, "received")
  BY <1>3, ContentsAre DEF CreateIdle, ReceivedContents, WireInv, Making
<1> QED BY <1>1, <1>2, <1>3 DEF WireInit

LEMMA SameCheck ==
  ASSUME CheckIdle \/ ValidInv, UNCHANGED vars
  PROVE  (CheckIdle \/ ValidInv)' /\ (CheckIdle => CheckIdle')
<1>1. CheckIdle => CheckIdle'
  BY DEF CheckIdle, vars, walk, list
<1>2. ValidInv => ValidInv'
  BY ValidInvNext
<1> QED BY <1>1, <1>2

LEMMA CreateKeeps ==
  ASSUME WireInv, CreateNext, UNCHANGED vars
  PROVE  WireInv'
<1>1. (CheckIdle \/ ValidInv)' /\ (CheckIdle => CheckIdle')
  BY SameCheck DEF WireInv
<1>2. UNCHANGED content /\ stage \in {"call", "put"}
  BY DEF CreateNext, Create, PutAction, PutItem, PutPart, PutItemEnd, Made
<1>3. (stage \in Making => CheckIdle /\ Content(content))'
  BY <1>1, <1>2 DEF WireInv, Making
<1>4. CASE Create
  BY <1>1, <1>2, <1>3, <1>4, LengthsAreNumbers DEF Create, WireInv, Making
<1>5. CASE PutAction \/ PutItem \/ PutPart \/ PutItemEnd \/ Made
  <2>1. stage = "put" /\ UNCHANGED plan
    BY <1>5 DEF PutAction, PutItem, PutPart, PutItemEnd, Made
  <2> QED BY <2>1, <1>1, <1>3 DEF WireInv
<1> QED BY <1>4, <1>5 DEF CreateNext

LEMMA HandKeeps ==
  ASSUME WireInv, Hand
  PROVE  WireInv'
<1>1. stage \in {"made", "received"} /\ CheckIdle /\ Content(content)
  BY DEF Hand, WireInv, Making
<1> DEFINE n == IF stage = "made" THEN plan.length ELSE NeededLength(content)
<1>2. n \in Nat
  BY <1>1, NeededIsNumber DEF WireInv, Plan
<1>3. msg' = [kind |-> content.kind, version |-> TRUE, header |-> n,
              length |-> n, wrong |-> {},
              actions_len |-> ListLength(content.items)]
  BY DEF Hand
<1> HIDE DEF n
<1>4. /\ by' = content.kind /\ pc' = "fixed" /\ stage' = "check"
      /\ UNCHANGED <<walk, result>>
  BY DEF Hand
<1>5. /\ lens' = <<>> /\ result' = "NONE" /\ offset' = 0 /\ seen' = {}
      /\ wrapped' = FALSE
  BY <1>1, <1>4 DEF CheckIdle, walk, list
<1>6. Handed'
  BY <1>1, <1>2, <1>3, <1>4 DEF Content, Handed, Kinds, HandedTo
<1>7. AtItsPart' /\ Passed' /\ StuckOnlyByItsLengths'
  BY <1>4, <1>5 DEF AtItsPart, Passed, StuckOnlyByItsLengths, Walking
<1>8. AddedUp'
  BY <1>4, <1>5, EmptySeq DEF AddedUp, Fitting
<1>9. ErrorsFit'
  BY <1>4 DEF ErrorsFit
<1> QED BY <1>4, <1>6, <1>7, <1>8, <1>9 DEF WireInv, ValidInv, CheckInv, Making

LEMMA CheckKeeps ==
  ASSUME WireInv, Check
  PROVE  WireInv'
<1>1. Next /\ stage' \in {"any", "check", "accepted"}
  BY DEF Check
<1>2. ValidInv'
  BY <1>1, IdleIsRight, ValidInvNext DEF WireInv
<1> QED BY <1>1, <1>2 DEF WireInv, Making

LEMMA GetKeeps ==
  ASSUME WireInv, GetNext, UNCHANGED vars
  PROVE  WireInv'
<1>1. (CheckIdle \/ ValidInv)'
  BY SameCheck DEF WireInv
<1>2. stage' \in {"get", "got", "astray"}
  BY DEF GetNext, GetStructure, GetAction, GetItem, GetPart, GetItemEnd, Got
<1> QED BY <1>1, <1>2 DEF WireInv, Making

LEMMA WireInvNext ==
  ASSUME WireInv, [WireNext]_wire_vars
  PROVE  WireInv'
<1>1. CASE UNCHANGED wire_vars
  <2>1. UNCHANGED vars /\ UNCHANGED <<content, stage, plan>>
    BY <1>1 DEF wire_vars, create_vars
  <2>2. (CheckIdle \/ ValidInv)' /\ (CheckIdle => CheckIdle')
    BY <2>1, SameCheck DEF WireInv
  <2> QED BY <2>1, <2>2 DEF WireInv
<1> QED BY <1>1, CreateKeeps, HandKeeps, CheckKeeps, GetKeeps DEF WireNext

LEMMA WireInvariance == WireSpec => []WireInv
<1>1. WireInit => WireInv
  BY WireInvInit
<1>2. WireInv /\ [WireNext]_wire_vars => WireInv'
  BY WireInvNext
<1> QED BY <1>1, <1>2, PTL DEF WireSpec

LEMMA WhatTheWireAccepts ==
  ASSUME WireInv
  PROVE  /\ AcceptedIsWhole /\ AcceptedAddsUp /\ StuckOnlyByItsLengths
         /\ ErrorHasOneAnswer
BY IdleIsRight, WhatIsAccepted, WhatIsAnswered DEF WireInv

-----------------------------------------------------------------------------
(***************************************************************************)
(* Items, as long as their headers at least.                               *)
(***************************************************************************)
Long(i) == i.len \in Nat /\ 8 <= i.len
ListOfLong(s) == \E S : s \in Seq(S) /\ \A i \in S : Long(i)

\* The items a message is made from, and their parts, are as long as a header.
Itemized(c) == /\ ListOfLong(c.items)
               /\ \A k \in DOMAIN c.items : ListOfLong(c.items[k].parts)
               /\ c.kind \notin WithItems => c.items = <<>>

LEMMA ListsAreSequences ==
  ASSUME NEW S, NEW n \in Nat, NEW s \in Lists(S, n)
  PROVE  s \in Seq(S)
<1>1. PICK k \in 0 .. n : s \in [1 .. k -> S]
  BY DEF Lists
<1>2. k \in Nat
  OBVIOUS
<1> QED BY <1>1, <1>2

LEMMA NothingIsLong == ListOfLong(<<>>)
<1>1. ASSUME NEW S, S = {} PROVE ListOfLong(<<>>)
  <2>1. <<>> \in Seq(S) /\ \A i \in S : Long(i)
    BY <1>1
  <2> QED BY <2>1 DEF ListOfLong
<1> QED BY <1>1

LEMMA ItemsAreLong ==
  /\ \A types : \A i \in Parts(types) : Long(i) /\ ListOfLong(i.parts)
  /\ \A types : \A n \in Nat : \A i \in Whole(types, n) : Long(i) /\ ListOfLong(i.parts)
<1>1. \A n \in PartLengths \cup WholeLengths : n \in Nat /\ 8 <= n
  BY CreateAssumption
<1>2. ASSUME NEW types, NEW i \in Parts(types)
      PROVE  Long(i) /\ ListOfLong(i.parts)
  <2>1. PICK t \in types, n \in PartLengths :
          i = [type |-> t, len |-> n, parts |-> <<>>]
    BY DEF Parts
  <2> QED BY <2>1, <1>1, NothingIsLong DEF Long
<1>3. ASSUME NEW types, NEW n \in Nat, NEW i \in Whole(types, n)
      PROVE  Long(i) /\ ListOfLong(i.parts)
  <2>1. PICK len \in WholeLengths, ps \in Lists(Parts(types), n) :
          i = [type |-> "NONE", len |-> len, parts |-> ps]
    BY DEF Whole
  <2>2. ps \in Seq(Parts(types))
    BY ListsAreSequences
  <2> QED BY <2>1, <2>2, <1>1, <1>2 DEF Long, ListOfLong
<1> QED BY <1>2, <1>3

LEMMA ContentsAreItemized == ASSUME NEW c \in Contents PROVE Itemized(c)
<1> DEFINE Good(s) == ListOfLong(s) /\ \A k \in DOMAIN s : ListOfLong(s[k].parts)
<1>1. ASSUME NEW S, NEW s \in Seq(S), \A i \in S : Long(i) /\ ListOfLong(i.parts)
      PROVE  Good(s)
  <2>1. \A k \in DOMAIN s : s[k] \in S
    OBVIOUS
  <2> QED BY <1>1, <2>1 DEF ListOfLong
<1> HIDE DEF Good
<1>2. ASSUME NEW types, NEW n \in Nat, NEW s \in Lists(Parts(types), n)
      PROVE  Good(s)
  <2>1. s \in Seq(Parts(types))
    BY <1>2, ListsAreSequences
  <2> QED BY <2>1, <1>1, ItemsAreLong
<1>3. ASSUME NEW types, NEW s \in Wholes(types) PROVE Good(s)
  <2>1. PICK n \in Nat, k \in Nat : s \in Lists(Whole(types, n), k)
    BY <1>3, CreateAssumption DEF Wholes
  <2>2. s \in Seq(Whole(types, n))
    BY <2>1, ListsAreSequences
  <2>3. \A i \in Whole(types, n) : Long(i) /\ ListOfLong(i.parts)
    BY ItemsAreLong
  <2> QED BY <2>2, <2>3, <1>1
<1>4. Good(<<>>)
  BY NothingIsLong DEF Good
<1>5. \/ c \in Of(OfOneSize, {0}, {0}, {<<>>}, {TRUE})
      \/ c \in Of(WithDataOnly, DataLengths, {0}, {<<>>}, {TRUE})
      \/ c \in Of(WithArrayOnly, {0}, Counts, {<<>>}, {TRUE})
      \/ c \in Of({"PACKET_OUT"}, DataLengths, {0}, Lists(Actions, MaxActions), BOOLEAN)
      \/ c \in Of({"FLOW_MOD"}, {0}, {0}, Lists(Actions, MaxActions), {TRUE})
      \/ c \in Of({"FLOW_REPLY"}, {0}, {0}, Flows, {TRUE})
      \/ c \in Of({"QUEUE_GET_CONFIG_REPLY"}, {0}, {0}, Queues, {TRUE})
  BY Zenon DEF Contents
<1>6. \/ c.items = <<>>
      \/ c.kind \in WithItems /\ (c.items \in Lists(Actions, MaxActions)
                                  \/ c.items \in Flows \/ c.items \in Queues)
  BY <1>5 DEF Of, WithItems
<1>7. Good(c.items)
  BY <1>2, <1>3, <1>4, <1>6, CreateAssumption DEF Actions, Flows, Queues
<1> QED BY <1>6, <1>7 DEF Itemized, Good

-----------------------------------------------------------------------------
(***************************************************************************)
(* What the creators plan: the length of a message that fits is not wrapped, *)
(* and what is written stays in front of its end.                          *)
(***************************************************************************)
\* The size of the fixed part of any message.
Short(n) == n \in Nat /\ 8 <= n /\ n <= 2000

Inside(p, sum) ==
  /\ p.length \in Nat /\ p.end \in Nat /\ p.from \in Nat
  /\ 8 <= p.length /\ p.end <= p.length /\ p.from + sum <= p.length

LEMMA Unwrapped ==
  /\ \A n \in Nat : n <= Max16 => Uint16(n) = n
  /\ \A n : Short(n) => n \in Nat /\ n <= Max16
BY DEF Uint16, Max16, Short

LEMMA SizeInside ==
  ASSUME NEW n, Short(n)
  PROVE  OfSize(n).length = n /\ Inside(OfSize(n), 0)
<1>1. Uint16(n) = n /\ n \in Nat /\ 8 <= n
  BY Unwrapped DEF Short
<1> QED BY <1>1 DEF OfSize, cc_create_header, Inside

LEMMA DataInside ==
  ASSUME NEW n, Short(n), NEW data \in Nat, n + data <= Max16
  PROVE  \A copied \in {data, Uint16(data)} :
           WithData(n, data, copied).length = n + data
           /\ Inside(WithData(n, data, copied), 0)
<1>1. n \in Nat /\ 8 <= n
  BY DEF Short
<1>2. data <= Max16
  BY <1>1, Max16Is
<1>3. Uint16(data) = data /\ Uint16(n + data) = n + data
  BY <1>1, <1>2, Unwrapped
<1> QED BY <1>1, <1>3 DEF WithData, cc_create_header, Inside

LEMMA ArrayInside ==
  ASSUME NEW n, Short(n), NEW count \in Nat, NEW struct,
         SizeOf(struct) \in {32, 48, 64, 104}, n + count * SizeOf(struct) <= Max16
  PROVE  WithArray(n, struct, count).length = n + count * SizeOf(struct)
         /\ Inside(WithArray(n, struct, count), 0)
<1> DEFINE z == SizeOf(struct)
           t == count * z
<1>1. n \in Nat /\ 8 <= n
  BY DEF Short
<1>2. z \in {32, 48, 64, 104}
  OBVIOUS
<1>3. t \in Nat /\ count <= t /\ z * count = t /\ n + t <= Max16
  <2>1. n + t <= Max16
    OBVIOUS
  <2>2. t \in Nat /\ count <= t /\ z * count = t
    <3> HIDE DEF z
    <3> QED BY <1>2
  <2> QED BY <2>1, <2>2
<1>4. count <= Max16
  <2> HIDE DEF z, t
  <2> QED BY <1>1, <1>3, Max16Is
<1>5. Uint16(count) = count /\ Uint16(n + t) = n + t
  <2> HIDE DEF z, t
  <2> QED BY <1>1, <1>3, <1>4, Unwrapped
<1>6. WithArray(n, struct, count) =
        [cc_create_header(n + t) EXCEPT !.end = n + t]
  <2>1. z * Uint16(count) = t
    BY <1>3, <1>5
  <2> QED BY <2>1, <1>3 DEF WithArray
<1> HIDE DEF t
<1> QED BY <1>1, <1>3, <1>5, <1>6 DEF cc_create_header, Inside, t

LEMMA ListInside ==
  ASSUME NEW n, Short(n), NEW items, LengthsOf(items) \in Seq(Nat), NEW data \in Nat,
         n + data + SumOfLengths(items) <= Max16
  PROVE  WithList(n, items, data).length = n + SumOfLengths(items) + data
         /\ Inside(WithList(n, items, data), SumOfLengths(items))
<1> DEFINE t == SumOfLengths(items)
<1>1. n \in Nat /\ 8 <= n
  BY DEF Short
<1>2. t \in Nat /\ ListLength(items) = Uint16(t)
  BY SumOfLengthsIs, ListLengthIs
<1> HIDE DEF t
<1>3. t <= Max16 /\ data <= Max16 /\ n + t + data <= Max16 /\ n + t + data \in Nat
  BY <1>1, <1>2, Max16Is DEF t
<1>4. Uint16(t) = t /\ Uint16(data) = data /\ Uint16(n + t + data) = n + t + data
  BY <1>2, <1>3, Unwrapped
<1> QED BY <1>1, <1>2, <1>3, <1>4 DEF WithList, cc_create_header, Inside, t

\* A creator of messages of one size, with data, with an array or with a list
\* behind n bytes.
Makes(kind, n) == \A d : d.kind = kind => PlanOf(d) = OfSize(n)
MakesData(kind, n) ==
  \A d : d.kind = kind => \E copied \in {d.data, Uint16(d.data)} :
                             PlanOf(d) = WithData(n, d.data, copied)
MakesArray(kind, n, struct) ==
  \A d : d.kind = kind => \/ PlanOf(d) = WithArray(n, struct, d.count)
                          \/ Uint16(d.count) = 0 /\ PlanOf(d) = OfSize(n)
MakesList(kind, n) ==
  \A d : d.kind = kind => \E data \in {0, d.data} :
                             PlanOf(d) = WithList(n, d.items, data)

LEMMA MakesSize == \A kind \in OfOneSize : \E n : Short(n) /\ Makes(kind, n)
<1>1. /\ \A n \in {0, 8, 12, 32, 44, 64, 88, 24, 1056} :
           /\ Short(EndOf(ofp_stats_request) + n) /\ Short(EndOf(ofp_stats_reply) + n)
  BY StructsStart DEF Start, Short
<1>2. /\ Short(8) /\ Short(12) /\ Short(88) /\ Short(64) /\ Short(32)
  BY DEF Short
<1>3. /\ Makes("HELLO", 8) /\ Makes("FEATURES_REQUEST", 8)
      /\ Makes("GET_CONFIG_REQUEST", 8) /\ Makes("GET_CONFIG_REPLY", 12)
      /\ Makes("SET_CONFIG", 12)
  BY ZenonT(60), OfpAssertions
     DEF Makes, PlanOf, cc_create_hello, cc_create_features_request,
     cc_create_get_config_request, cc_create_get_config_reply, cc_create_set_config
<1>4. /\ Makes("FLOW_REMOVED", 88) /\ Makes("PORT_STATUS", 64) /\ Makes("PORT_MOD", 32)
      /\ Makes("BARRIER_REQUEST", 8) /\ Makes("BARRIER_REPLY", 8)
      /\ Makes("QUEUE_GET_CONFIG_REQUEST", 12)
  BY ZenonT(60), OfpAssertions
     DEF Makes, PlanOf, cc_create_flow_removed, cc_create_port_status,
     cc_create_port_mod, cc_create_barrier_request, cc_create_barrier_reply,
     cc_create_queue_get_config_request
<1> DEFINE q == EndOf(ofp_stats_request)
           r == EndOf(ofp_stats_reply)
<1>5. /\ Makes("DESC_REQUEST", q + 0) /\ Makes("FLOW_REQUEST", q + 44)
      /\ Makes("AGGREGATE_REQUEST", q + 44) /\ Makes("TABLE_REQUEST", q + 0)
      /\ Makes("PORT_REQUEST", q + 8) /\ Makes("QUEUE_REQUEST", q + 8)
  BY ZenonT(60), OfpAssertions DEF Makes, PlanOf, cc_create_stats_request,
     cc_create_desc_stats_request, cc_create_flow_stats_request,
     cc_create_aggregate_stats_request, cc_create_table_stats_request,
     cc_create_port_stats_request, cc_create_queue_stats_request,
     ofp_aggregate_stats_request
<1>6. Makes("DESC_REPLY", r + 1056) /\ Makes("AGGREGATE_REPLY", r + 24)
  BY OfpAssertions DEF Makes, PlanOf, cc_create_stats_reply,
     cc_create_desc_stats_reply, cc_create_aggregate_stats_reply
<1> QED BY <1>1, <1>2, <1>3, <1>4, <1>5, <1>6 DEF OfOneSize

LEMMA MakesWithData ==
  \A kind \in WithDataOnly : \E n : Short(n) /\ MakesData(kind, n)
<1> DEFINE q == EndOf(ofp_stats_request)
           r == EndOf(ofp_stats_reply)
           p == EndOf(ofp_packet_in)
<1>1. Short(8) /\ Short(12) /\ Short(q + 4) /\ Short(r + 4) /\ Short(p)
  BY StructsStart DEF Start, Short
<1>2. /\ SizeOf(ofp_error_msg) = 12 /\ SizeOf(ofp_vendor_header) = 12
      /\ SizeOf(ofp_header) = 8
  BY OfpAssertions
<1>3. MakesData("ERROR", 12) /\ MakesData("VENDOR", 12)
  BY <1>2 DEF MakesData, PlanOf, cc_create_error, cc_create_vendor
<1>4. MakesData("ECHO_REQUEST", 8) /\ MakesData("ECHO_REPLY", 8)
  BY <1>2 DEF MakesData, PlanOf, cc_create_echo_request, cc_create_echo_reply
<1>5. MakesData("PACKET_IN", p)
  BY DEF MakesData, PlanOf, cc_create_packet_in
<1>6. MakesData("VENDOR_REQUEST", q + 4) /\ MakesData("VENDOR_REPLY", r + 4)
  BY DEF MakesData, PlanOf, cc_create_vendor_stats_request,
     cc_create_vendor_stats_reply
<1> HIDE DEF q, r, p
<1> QED BY <1>1, <1>3, <1>4, <1>5, <1>6 DEF WithDataOnly

LEMMA MakesWithArray ==
  \A kind \in WithArrayOnly : \E n : 
    Short(n) /\ MakesArray(kind, n, Structure[kind][1])
<1> DEFINE f == EndOf(ofp_switch_features)
           r == EndOf(ofp_stats_reply)
<1>1. Short(f) /\ Short(r)
  BY StructsStart DEF Start, Short
<1>2. MakesArray("FEATURES_REPLY", f, ofp_phy_port)
  BY DEF MakesArray, PlanOf, cc_create_features_reply
<1>3. /\ MakesArray("TABLE_REPLY", r, ofp_table_stats)
      /\ MakesArray("PORT_REPLY", r, ofp_port_stats)
      /\ MakesArray("QUEUE_REPLY", r, ofp_queue_stats)
  BY ZenonT(60) DEF MakesArray, PlanOf, cc_create_table_stats_reply,
     cc_create_port_stats_reply, cc_create_queue_stats_reply
<1>4. /\ Structure["FEATURES_REPLY"][1] = ofp_phy_port
      /\ Structure["TABLE_REPLY"][1] = ofp_table_stats
      /\ Structure["PORT_REPLY"][1] = ofp_port_stats
      /\ Structure["QUEUE_REPLY"][1] = ofp_queue_stats
  BY DEF Structure
<1> HIDE DEF f, r
<1> QED BY <1>1, <1>2, <1>3, <1>4 DEF WithArrayOnly

LEMMA MakesWithList == \A kind \in WithItems : \E n : Short(n) /\ MakesList(kind, n)
<1> DEFINE p == EndOf(ofp_packet_out)
           m == EndOf(ofp_flow_mod)
           r == EndOf(ofp_stats_reply)
           q == EndOf(ofp_queue_get_config_reply)
<1>1. Short(p) /\ Short(m) /\ Short(r) /\ Short(q)
  BY StructsStart DEF Start, Short
<1>2. /\ MakesList("PACKET_OUT", p) /\ MakesList("FLOW_MOD", m)
      /\ MakesList("FLOW_REPLY", r) /\ MakesList("QUEUE_GET_CONFIG_REPLY", q)
  <2>1. MakesList("PACKET_OUT", p)
    BY SMTT(20) DEF MakesList, PlanOf, cc_create_packet_out
  <2>2. MakesList("FLOW_MOD", m)
    BY SMTT(20) DEF MakesList, PlanOf, cc_create_flow_mod
  <2>3. MakesList("FLOW_REPLY", r)
    BY SMTT(20) DEF MakesList, PlanOf, cc_create_flow_stats_reply
  <2>4. MakesList("QUEUE_GET_CONFIG_REPLY", q)
    BY SMTT(20) DEF MakesList, PlanOf, cc_create_queue_get_config_reply
  <2> QED BY <2>1, <2>2, <2>3, <2>4
<1> HIDE DEF p, m, r, q
<1> QED BY <1>1, <1>2 DEF WithItems

\* What the creator of a message that fits has planned stays inside of it.
LEMMA PlansStayInside ==
  ASSUME NEW c, Content(c), Itemized(c), Fits(c),
         c.kind \in OfOneSize \cup WithDataOnly \cup WithArrayOnly \cup WithItems
  PROVE  Inside(PlanOf(c), Sum(LengthsOf(c.items)))
<1> DEFINE e == EmptyOf(c)
           t == SumOfLengths(c.items)
<1>0. LengthsOf(<<>>) = <<>>
  BY DEF LengthsOf
<1>1. /\ e.kind = c.kind /\ e.data = 0 /\ e.count = 0 /\ e.items = <<>>
      /\ c.data \in Nat /\ c.count \in Nat
  BY DEF EmptyOf, Content
<1>2. t = Sum(LengthsOf(c.items)) /\ t \in Nat /\ (c.items = <<>> => t = 0)
  BY <1>0, SumOfLengthsIs, SumOfNone DEF Content
<1>3. SumOfLengths(<<>>) = 0
  BY <1>0, SumOfLengthsIs, NothingIsMeasured, SumOfNone
<1>4. PlanOf(e).length + c.data + t
        + (IF c.kind \in WithArrayOnly
             THEN c.count * SizeOf(Structure[c.kind][1]) ELSE 0)
        <= Max16
  BY DEF Fits, NeededLength
<1> HIDE DEF e, t
<1>5. CASE c.kind \in OfOneSize
  <2>1. PICK n : Short(n) /\ Makes(c.kind, n)
    BY <1>5, MakesSize
  <2>2. c.items = <<>>
    BY <1>5 DEF Itemized, OfOneSize, WithItems
  <2> QED BY <2>1, <2>2, <1>2, SizeInside DEF Makes
<1>6. CASE c.kind \in WithDataOnly
  <2>1. PICK n : Short(n) /\ MakesData(c.kind, n)
    BY <1>6, MakesWithData
  <2>2. c.items = <<>> /\ c.kind \notin WithArrayOnly
    BY <1>6 DEF Itemized, WithDataOnly, WithArrayOnly, WithItems
  <2>3. PlanOf(e).length = n
    <3>1. n \in Nat /\ n + 0 <= Max16 /\ n + 0 = n
      BY <2>1, Unwrapped
    <3>2. PICK copied \in {0, Uint16(0)} : PlanOf(e) = WithData(n, 0, copied)
      BY <2>1, <1>1 DEF MakesData
    <3> QED BY <2>1, <3>1, <3>2, DataInside
  <2>4. n + c.data <= Max16
    BY <2>1, <2>2, <2>3, <1>1, <1>2, <1>4, Unwrapped
  <2>5. PICK copied \in {c.data, Uint16(c.data)} :
            PlanOf(c) = WithData(n, c.data, copied)
    BY <2>1 DEF MakesData
  <2> QED BY <2>1, <2>2, <2>4, <2>5, <1>1, <1>2, DataInside
<1>7. CASE c.kind \in WithArrayOnly
  <2> DEFINE s == Structure[c.kind][1]
  <2>1. PICK n : Short(n) /\ MakesArray(c.kind, n, s)
    BY <1>7, MakesWithArray
  <2>2. c.items = <<>>
    BY <1>7 DEF Itemized, WithArrayOnly, WithItems
  <2>3. SizeOf(s) \in {32, 48, 64, 104}
    BY <1>7, OfpAssertions DEF WithArrayOnly, Structure
  <2>4. PlanOf(e).length + c.data + t + c.count * SizeOf(s) <= Max16
    BY <1>4, <1>7
  <2> HIDE DEF s
  <2>5. PlanOf(e).length = n
    <3>1. n + 0 * SizeOf(s) <= Max16 /\ n + 0 * SizeOf(s) = n
      BY <2>1, <2>3, Unwrapped
    <3>2. WithArray(n, s, 0).length = n
      BY <2>1, <2>3, <3>1, ArrayInside
    <3>3. PlanOf(e) = WithArray(n, s, 0) \/ PlanOf(e) = OfSize(n)
      BY <2>1, <1>1 DEF MakesArray
    <3> QED BY <2>1, <3>2, <3>3, SizeInside
  <2>6. n + c.count * SizeOf(s) <= Max16
    <3> DEFINE x == c.count * SizeOf(s)
    <3>1. x \in Nat
      BY <2>3, <1>1
    <3>2. n + c.data + t + x <= Max16
      BY <2>4, <2>5
    <3> HIDE DEF x
    <3>3. n + x <= Max16
      BY <3>1, <3>2, <2>1, <1>1, <1>2, Unwrapped, Max16Is
    <3> QED BY <3>3 DEF x
  <2>7. Inside(WithArray(n, s, c.count), 0) /\ Inside(OfSize(n), 0)
    BY <2>1, <2>3, <2>6, <1>1, ArrayInside, SizeInside
  <2> QED BY <2>1, <2>2, <2>7, <1>2 DEF MakesArray
<1>8. CASE c.kind \in WithItems
  <2>1. PICK n : Short(n) /\ MakesList(c.kind, n)
    BY <1>8, MakesWithList
  <2>2. PlanOf(e).length = n
    <3>1. n + 0 + SumOfLengths(<<>>) <= Max16 /\ n + SumOfLengths(<<>>) + 0 = n
      BY <2>1, <1>3, Unwrapped
    <3>2. PlanOf(e) = WithList(n, <<>>, 0)
      BY <2>1, <1>1 DEF MakesList
    <3> QED BY <2>1, <3>1, <3>2, ListInside, NothingIsMeasured
  <2>3. PICK data \in {0, c.data} : PlanOf(c) = WithList(n, c.items, data)
    BY <2>1 DEF MakesList
  <2>4. n + data + t <= Max16 /\ data \in Nat
    <3>1. c.kind \notin WithArrayOnly
      BY <1>8 DEF WithItems, WithArrayOnly
    <3> QED BY <3>1, <2>1, <2>2, <1>1, <1>2, <1>4, Unwrapped, Max16Is
  <2> QED BY <2>1, <2>3, <2>4, <1>2, ListInside DEF Content, t
<1> QED BY <1>5, <1>6, <1>7, <1>8

-----------------------------------------------------------------------------
(***************************************************************************)
(* The loops over lists: there is always room for what is left to be put.  *)
(***************************************************************************)
LEMMA ListsHaveLengths ==
  ASSUME NEW s, ListOfLong(s)
  PROVE  LengthsOf(s) \in Seq(Nat)
<1>1. PICK S : s \in Seq(S) /\ \A i \in S : Long(i)
  BY DEF ListOfLong
<1>2. DOMAIN s = 1 .. Len(s) /\ Len(s) \in Nat /\ \A i \in DOMAIN s : s[i].len \in Nat
  BY <1>1 DEF Long
<1> QED BY <1>2 DEF LengthsOf

\* The length of each item of a list, and of those before it.
LEMMA ItemOfList ==
  ASSUME NEW s, ListOfLong(s), NEW k \in Nat, k < Len(s)
  PROVE  /\ k + 1 \in DOMAIN s /\ Long(s[k + 1])
         /\ LengthsOf(s) \in Seq(Nat) /\ Len(LengthsOf(s)) = Len(s)
         /\ Before(LengthsOf(s), k) \in Nat
         /\ Before(LengthsOf(s), k + 1)
              = Before(LengthsOf(s), k) + s[k + 1].len
         /\ Before(LengthsOf(s), k + 1) <= Sum(LengthsOf(s))
         /\ Sum(LengthsOf(s)) \in Nat
<1> DEFINE f == LengthsOf(s)
<1>1. PICK S : s \in Seq(S) /\ \A i \in S : Long(i)
  BY DEF ListOfLong
<1>2. DOMAIN s = 1 .. Len(s) /\ Len(s) \in Nat /\ k + 1 \in DOMAIN s
  BY <1>1
<1>3. \A i \in DOMAIN s : Long(s[i])
  BY <1>1
<1>4. f \in Seq(Nat) /\ Len(f) = Len(s) /\ f[k + 1] = s[k + 1].len
  <2>1. f \in [1 .. Len(s) -> Nat]
    BY <1>2, <1>3 DEF LengthsOf, Long
  <2> QED BY <2>1, <1>2 DEF LengthsOf
<1> HIDE DEF f
<1>5. /\ Before(f, k) \in Nat /\ Before(f, k + 1) = Before(f, k) + f[k + 1]
      /\ Before(f, k + 1) <= Sum(f) /\ Sum(f) \in Nat
  <2>1. k <= Len(f) /\ k < Len(f) /\ k + 1 \in Nat /\ k + 1 <= Len(f)
    BY <1>2, <1>4
  <2>2. Before(f, k) \in Nat /\ Before(f, k + 1) = Before(f, k) + f[k + 1]
    BY <2>1, <1>4, BeforeMore
  <2>3. Before(f, k + 1) <= Sum(f)
    BY <2>1, <1>4, BeforeIsLess
  <2>4. Sum(f) \in Nat
    BY <1>4, SumOfMore
  <2> QED BY <2>2, <2>3, <2>4
<1> QED BY <1>2, <1>3, <1>4, <1>5 DEF f

\* The items of the list from the one behind the first k are to be put, and
\* there is room for all of them.
ToPut(k) ==
  /\ k <= Len(content.items)
  /\ todo = SubSeq(content.items, k + 1, Len(content.items))
  /\ at + Sum(LengthsOf(content.items))
       <= plan.length + Before(LengthsOf(content.items), k)

PutsInside ==
  /\ plan.length \in Nat /\ end \in Nat /\ end <= plan.length /\ at \in Nat
  /\ todo = <<>> \/ \E k \in Nat : ToPut(k)
  /\ item # NoItem => /\ content.kind \in {"FLOW_REPLY", "QUEUE_GET_CONFIG_REPLY"}
                      /\ todo # <<>> /\ item = Head(todo)
                      /\ part \in Nat /\ part # 0

MadeFrom(c) == /\ Content(c) /\ Itemized(c)
               /\ c.kind \in OfOneSize \cup WithDataOnly \cup WithArrayOnly
                               \cup WithItems

WritesInv ==
  /\ stage \in {"call", "put"} => MadeFrom(content)
  /\ stage = "call" => item = NoItem
  /\ stage = "put" /\ WellFormed(content) /\ Fits(content) => PutsInside
  /\ WritesStayInside

LEMMA MaxOfTwo ==
  ASSUME NEW a \in Nat, NEW b \in Nat
  PROVE  Max({a, b}) \in Nat /\ \A n \in Nat : a <= n /\ b <= n => Max({a, b}) <= n
<1>1. \E x \in {a, b} : \A y \in {a, b} : x >= y
  <2>1. CASE a <= b
    BY <2>1
  <2>2. CASE b <= a
    BY <2>2
  <2> QED BY <2>1, <2>2
<1>2. Max({a, b}) \in {a, b}
  BY <1>1 DEF Max
<1> QED BY <1>2

\* The item that is put next, and where it ends.
LEMMA NextToPut ==
  ASSUME MadeFrom(content), PutsInside, todo # <<>>
  PROVE  \E i \in DOMAIN content.items :
           /\ Head(todo) = content.items[i] /\ Long(Head(todo))
           /\ at + Head(todo).len <= plan.length
           /\ i \in Nat /\ i <= Len(content.items)
           /\ Tail(todo) = SubSeq(content.items, i + 1, Len(content.items))
           /\ at + Head(todo).len + Sum(LengthsOf(content.items))
                <= plan.length + Before(LengthsOf(content.items), i)
<1> DEFINE s == content.items
           f == LengthsOf(s)
<1>1. ListOfLong(s)
  BY DEF MadeFrom, Itemized
<1>2. PICK S : s \in Seq(S)
  BY <1>1 DEF ListOfLong
<1>3. PICK k \in Nat : ToPut(k)
  BY DEF PutsInside
<1>4. k <= Len(s) /\ todo = SubSeq(s, k + 1, Len(s))
      /\ at + Sum(f) <= plan.length + Before(f, k)
  BY <1>3 DEF ToPut
<1> HIDE DEF s, f
<1>5. k < Len(s) /\ k + 1 <= Len(s) /\ k + 1 \in Nat
  BY <1>2, <1>4
<1>6. Head(todo) = s[k + 1] /\ Tail(todo) = SubSeq(s, (k + 1) + 1, Len(s))
  BY <1>2, <1>4, <1>5
<1>7. /\ k + 1 \in DOMAIN s /\ Long(s[k + 1])
      /\ Before(f, k) \in Nat /\ Before(f, k + 1) = Before(f, k) + s[k + 1].len
      /\ Before(f, k + 1) <= Sum(f) /\ Sum(f) \in Nat
  BY <1>1, <1>5, ItemOfList DEF f
<1>8. /\ at + s[k + 1].len <= plan.length
      /\ at + s[k + 1].len + Sum(f) <= plan.length + Before(f, k + 1)
  <2>1. at \in Nat /\ plan.length \in Nat /\ s[k + 1].len \in Nat
    BY <1>7 DEF PutsInside, Long
  <2> DEFINE x == s[k + 1].len
             b == Before(f, k)
             c == Before(f, k + 1)
  <2>2. at + Sum(f) <= plan.length + b /\ c = b + x /\ c <= Sum(f)
        /\ b \in Nat /\ Sum(f) \in Nat /\ x \in Nat
    BY <2>1, <1>4, <1>7
  <2> HIDE DEF x, b, c
  <2>3. at + x <= plan.length /\ at + x + Sum(f) <= plan.length + c
    BY <2>1, <2>2
  <2> QED BY <2>3 DEF x, c
<1> QED BY <1>5, <1>6, <1>7, <1>8 DEF s, f

\* An action that is well formed is as long as what converting it writes.
LEMMA ActionFits ==
  ASSUME NEW a, WellFormedAction(a), Long(a)
  PROVE  ActionWritten(a) = a.len
<1>1. CASE a.type = "VENDOR"
  <2>1. Max({8, a.len}) = a.len
    <3>1. a.len \in {8, a.len} /\ \A y \in {8, a.len} : a.len >= y
      BY DEF Long
    <3>2. \A x \in {8, a.len} : (\A y \in {8, a.len} : x >= y) => x = a.len
      BY DEF Long
    <3> QED BY <3>1, <3>2 DEF Max
  <2> QED BY <1>1, <2>1 DEF ActionWritten
<1>2. CASE a.type # "VENDOR"
  BY <1>2 DEF WellFormedAction, ActionWritten
<1> QED BY <1>1, <1>2

LEMMA Writes ==
  ASSUME PutsInside, NEW upto \in Nat, upto <= plan.length, Wrote(upto)
  PROVE  end' \in Nat /\ end' <= plan.length
BY MaxOfTwo DEF PutsInside, Wrote

LEMMA CreateWrites ==
  ASSUME WritesInv, Create
  PROVE  WritesInv'
<1> USE DEF WritesInv
<1>1. UNCHANGED <<content, item>> /\ stage = "call"
  BY DEF Create, walk_vars
<1>2. CASE FrameMissing(content)
  <2>1. stage' = "refused" /\ UNCHANGED <<plan, end>>
    BY <1>2 DEF Create
  <2> QED BY <1>1, <2>1 DEF WritesStayInside
<1>3. CASE ~FrameMissing(content)
  <2>1. /\ stage' = "put" /\ plan' = PlanOf(content)
        /\ end' = Max({8, PlanOf(content).end})
        /\ at' = PlanOf(content).from /\ todo' = Listed
    BY <1>3 DEF Create
  <2>2. ASSUME Fits(content) PROVE PutsInside'
    <3> DEFINE s == content.items
               f == LengthsOf(s)
               p == PlanOf(content)
    <3>1. Inside(p, Sum(f))
      BY <1>1, <2>2, PlansStayInside DEF MadeFrom
    <3>2. f \in Seq(Nat) /\ \E S : s \in Seq(S)
      BY <1>1 DEF MadeFrom, Content, Itemized, ListOfLong
    <3> HIDE DEF s, f, p
    <3>3. /\ p.length \in Nat /\ Max({8, p.end}) \in Nat /\ p.from \in Nat
          /\ Max({8, p.end}) <= p.length /\ p.from + Sum(f) <= p.length
      BY <3>1, MaxOfTwo DEF Inside
    <3>4. SubSeq(s, 0 + 1, Len(s)) = s /\ 0 <= Len(s)
      BY <3>2
    <3>5. p.from + Sum(f) <= p.length + Before(f, 0)
      <4>1. 0 <= Len(f) /\ Before(f, 0) = 0
        BY <3>2, BeforeMore
      <4> QED BY <4>1, <3>3
    <3>6. todo' = <<>> \/ ToPut(0)'
      BY <1>1, <2>1, <3>4, <3>5 DEF Listed, ToPut, s, f, p
    <3>7. (item = NoItem)'
      BY <1>1
    <3> QED BY <2>1, <3>3, <3>6, <3>7 DEF PutsInside, p
  <2>3. (WellFormed(content) /\ Fits(content))' => WellFormed(content) /\ Fits(content)
    BY <1>1
  <2>4. PutsInside' => ~(end > plan.length)'
    BY DEF PutsInside
  <2> QED BY <1>1, <2>1, <2>2, <2>3, <2>4 DEF WritesStayInside
<1> QED BY <1>2, <1>3

\* What is left to show of a step of the loop over a list.
LEMMA PutKeeps ==
  ASSUME WritesInv, stage = "put", stage' # "call", UNCHANGED <<content, plan>>,
         WellFormed(content) /\ Fits(content) =>
           /\ end' \in Nat /\ plan.length \in Nat /\ end' <= plan.length
           /\ stage' = "put" => PutsInside'
  PROVE  WritesInv'
<1>1. /\ MadeFrom(content)' <=> MadeFrom(content)
      /\ WellFormed(content)' <=> WellFormed(content)
      /\ Fits(content)' <=> Fits(content)
  OBVIOUS
<1>2. WellFormed(content) /\ Fits(content) => ~(end > plan.length)'
  OBVIOUS
<1> QED BY <1>1, <1>2 DEF WritesInv, WritesStayInside

LEMMA PutActionWrites ==
  ASSUME WritesInv, PutAction
  PROVE  WritesInv'
<1> DEFINE a == Head(todo)
<1>1. /\ stage = "put" /\ todo # <<>> /\ content.kind \in {"PACKET_OUT", "FLOW_MOD"}
      /\ UNCHANGED <<content, plan, item, part>> /\ MadeFrom(content)
  BY DEF PutAction, walk_vars, WritesInv
<1>2. \/ /\ Wrote(at + ActionWritten(a)) /\ at' = at + a.len
         /\ todo' = Tail(todo) /\ stage' = "put"
      \/ stage' = "died" /\ UNCHANGED end
  BY <1>1 DEF PutAction
<1>3. ASSUME WellFormed(content), Fits(content)
      PROVE  /\ end' \in Nat /\ plan.length \in Nat /\ end' <= plan.length
             /\ stage' = "put" => PutsInside'
  <2>1. PutsInside
    BY <1>1, <1>3 DEF WritesInv
  <2>2. PICK i \in DOMAIN content.items :
          /\ a = content.items[i] /\ Long(a)
          /\ at + a.len <= plan.length
          /\ i \in Nat /\ i <= Len(content.items)
          /\ Tail(todo) = SubSeq(content.items, i + 1, Len(content.items))
          /\ at + a.len + Sum(LengthsOf(content.items))
                <= plan.length + Before(LengthsOf(content.items), i)
    BY <1>1, <2>1, NextToPut
  <2>3. WellFormedAction(a)
    BY <1>1, <1>3, <2>2 DEF WellFormed, WellFormedItem, ToSet
  <2>4. ActionWritten(a) = a.len /\ at + a.len \in Nat
    BY <2>1, <2>2, <2>3, ActionFits DEF PutsInside, Long
  <2> HIDE DEF a
  <2>5. CASE stage' = "put"
    <3>1. end' \in Nat /\ end' <= plan.length
      BY <1>2, <2>1, <2>2, <2>4, <2>5, Writes
    <3>2. ToPut(i)'
      BY <1>1, <1>2, <2>2, <2>5 DEF ToPut
    <3>3. (item = NoItem)'
      BY <1>1, <2>1 DEF PutsInside
    <3> QED BY <1>1, <1>2, <2>1, <2>2, <2>4, <2>5, <3>1, <3>2, <3>3 DEF PutsInside
  <2>6. CASE stage' # "put"
    BY <1>2, <2>1, <2>6 DEF PutsInside
  <2> QED BY <2>5, <2>6
<1> QED BY <1>1, <1>2, <1>3, PutKeeps

\* The header of what is put is as long as it says, and its parts are within.
WalkedStruct(kind) ==
  IF kind = "FLOW_REPLY" THEN ofp_flow_stats ELSE ofp_packet_queue

LEMMA FilledExactly ==
  ASSUME MadeFrom(content), WellFormed(content), NEW i \in DOMAIN content.items,
         content.kind \in {"FLOW_REPLY", "QUEUE_GET_CONFIG_REPLY"}
  PROVE  LET h == content.items[i]
         IN /\ HeaderOf \in Nat
            /\ ListOfLong(h.parts) /\ h.len = HeaderOf + SumOfLengths(h.parts)
            /\ \A k \in DOMAIN h.parts :
                 IF IsFlow THEN WellFormedAction(h.parts[k])
                 ELSE WellFormedProperty(h.parts[k])
<1> DEFINE h == content.items[i]
<1>1. ListOfLong(h.parts)
  BY DEF MadeFrom, Itemized
<1>2. HeaderOf = SizeOf(WalkedStruct(content.kind)) /\ HeaderOf \in Nat
  BY OfpAssertions DEF HeaderOf, IsFlow, WalkedStruct
<1>3. /\ h \in ToSet(content.items)
      /\ \A k \in DOMAIN h.parts : h.parts[k] \in ToSet(h.parts)
  BY DEF ToSet
<1>4. CASE content.kind = "FLOW_REPLY"
  BY <1>1, <1>2, <1>3, <1>4 DEF WellFormed, WellFormedItem, IsFlow, WalkedStruct
<1>5. CASE content.kind = "QUEUE_GET_CONFIG_REPLY"
  BY <1>1, <1>2, <1>3, <1>5 DEF WellFormed, WellFormedItem, IsFlow, WalkedStruct
<1> QED BY <1>4, <1>5

LEMMA PutItemWrites ==
  ASSUME WritesInv, PutItem
  PROVE  WritesInv'
<1>1. /\ stage = "put" /\ todo # <<>>
      /\ content.kind \in {"FLOW_REPLY", "QUEUE_GET_CONFIG_REPLY"}
      /\ UNCHANGED <<content, stage, plan, todo, at>> /\ MadeFrom(content)
      /\ Wrote(at + HeaderOf)
  BY DEF PutItem, WritesInv
<1>2. item' = Head(todo) /\ part' = 1
  BY DEF PutItem, hton_flow_stats, hton_packet_queue, BeginWalk
<1>3. ASSUME WellFormed(content), Fits(content)
      PROVE  /\ end' \in Nat /\ plan.length \in Nat /\ end' <= plan.length
             /\ PutsInside'
  <2>1. PutsInside
    BY <1>1, <1>3 DEF WritesInv
  <2>2. PICK i \in DOMAIN content.items :
          /\ Head(todo) = content.items[i] /\ Long(Head(todo))
          /\ at + Head(todo).len <= plan.length
    BY <1>1, <2>1, NextToPut
  <2> DEFINE h == content.items[i]
  <2>3. /\ HeaderOf \in Nat /\ h.len = HeaderOf + SumOfLengths(h.parts)
        /\ ListOfLong(h.parts)
    BY <1>1, <1>3, FilledExactly
  <2>4. SumOfLengths(h.parts) \in Nat
    BY <2>3, ListsHaveLengths, SumOfLengthsIs
  <2>5. at + HeaderOf \in Nat /\ at + HeaderOf <= plan.length
    <3>1. at \in Nat /\ plan.length \in Nat /\ at + h.len <= plan.length
      BY <2>1, <2>2 DEF PutsInside
    <3> HIDE DEF h
    <3> QED BY <3>1, <2>3, <2>4
  <2>6. end' \in Nat /\ end' <= plan.length
    BY <1>1, <2>1, <2>5, Writes
  <2>7. todo' = <<>> \/ \E k \in Nat : ToPut(k)'
    BY <1>1, <2>1 DEF PutsInside, ToPut
  <2> QED BY <1>1, <1>2, <2>1, <2>6, <2>7 DEF PutsInside
<1> QED BY <1>1, <1>3, PutKeeps

\* Where a part begins, and that it ends within its flow or queue.
LEMMA PartWithin ==
  ASSUME NEW base \in Nat, ListOfLong(item.parts), part \in Nat, part # 0,
         part <= Len(item.parts)
  PROVE  /\ part \in DOMAIN item.parts /\ Long(item.parts[part])
         /\ Position(base) \in Nat
         /\ Position(base) + item.parts[part].len
              <= base + SumOfLengths(item.parts)
<1> DEFINE s == item.parts
           k == part - 1
           f == LengthsOf(s)
<1>1. k \in Nat /\ k + 1 = part
  OBVIOUS
<1>2. PICK S : s \in Seq(S) /\ \A i \in S : Long(i)
  BY DEF ListOfLong
<1>3. k < Len(s)
  BY <1>1, <1>2
<1>4. /\ k + 1 \in DOMAIN s /\ Long(s[k + 1])
      /\ f \in Seq(Nat) /\ Len(f) = Len(s)
      /\ Before(f, k) \in Nat
      /\ Before(f, k + 1) = Before(f, k) + s[k + 1].len
      /\ Before(f, k + 1) <= Sum(f)
      /\ Sum(f) \in Nat
  BY <1>1, <1>3, ItemOfList
<1>5. Position(base) = SumFrom(base, SubSeq(s, 1, k))
  BY DEF Position, SumFrom
<1>6. LengthsOf(SubSeq(s, 1, k)) = SubSeq(f, 1, k)
  <2>1. SubSeq(s, 1, k) = [i \in 1 .. k |-> s[i]] /\ DOMAIN f = DOMAIN s
        /\ \A i \in 1 .. k : i \in DOMAIN s
    BY <1>1, <1>2, <1>3 DEF LengthsOf
  <2>2. SubSeq(f, 1, k) = [i \in 1 .. k |-> f[i]]
    <3> HIDE DEF f
    <3> QED BY <1>1, <1>3, <1>4
  <2> QED BY <2>1, <2>2 DEF LengthsOf
<1>7. SumFrom(base, SubSeq(s, 1, k)) = base + Before(f, k)
  <2>1. SubSeq(f, 1, k) \in Seq(Nat)
    <3> HIDE DEF f
    <3> QED BY <1>1, <1>3, <1>4
  <2> HIDE DEF f
  <2> QED BY <1>6, <2>1, SumFromIs DEF Before
<1>8. SumOfLengths(s) = Sum(f)
  BY <1>4, SumOfLengthsIs
<1>9. base + Before(f, k) + s[k + 1].len <= base + Sum(f)
  <2> HIDE DEF s, f, k
  <2>1. s[k + 1].len \in Nat
    BY <1>4 DEF Long
  <2> QED BY <2>1, <1>4
<1> HIDE DEF f
<1> QED BY <1>1, <1>4, <1>5, <1>7, <1>8, <1>9

LEMMA PutPartWrites ==
  ASSUME WritesInv, PutPart
  PROVE  WritesInv'
<1> DEFINE p == item.parts[part]
           size == IF IsFlow THEN ActionWritten(p) ELSE SizeOf(PropertyStruct[p.type])
<1>1. /\ stage = "put" /\ item # NoItem /\ MadeFrom(content)
      /\ UNCHANGED <<content, plan, todo, at>>
  BY DEF PutPart, MoreParts, WritesInv
<1>2. \/ stage' \in {"astray", "died"} /\ UNCHANGED end
      \/ /\ ~IsAstray(HeaderOf) /\ stage' = "put"
         /\ Wrote(at + Position(HeaderOf) + size)
         /\ part' = part + 1 /\ item' = item
  BY <1>1 DEF PutPart, NextPart
<1>3. ASSUME WellFormed(content), Fits(content)
      PROVE  /\ end' \in Nat /\ plan.length \in Nat /\ end' <= plan.length
             /\ stage' = "put" => PutsInside'
  <2>1. PutsInside
    BY <1>1, <1>3 DEF WritesInv
  <2>2. CASE stage' # "put"
    BY <1>2, <2>1, <2>2 DEF PutsInside
  <2>3. CASE stage' = "put"
    <3>1. /\ todo # <<>> /\ item = Head(todo) /\ part \in Nat /\ part # 0
          /\ content.kind \in {"FLOW_REPLY", "QUEUE_GET_CONFIG_REPLY"}
      BY <1>1, <2>1 DEF PutsInside
    <3>2. PICK i \in DOMAIN content.items :
            item = content.items[i] /\ at + item.len <= plan.length
      BY <1>1, <2>1, <3>1, NextToPut
    <3>3. /\ HeaderOf \in Nat /\ ListOfLong(item.parts)
          /\ item.len = HeaderOf + SumOfLengths(item.parts)
          /\ \A k \in DOMAIN item.parts :
               IF IsFlow THEN WellFormedAction(item.parts[k])
               ELSE WellFormedProperty(item.parts[k])
      BY <1>1, <1>3, <3>1, <3>2, FilledExactly
    <3>4. part <= Len(item.parts)
      <4>1. Len(item.parts) \in Nat
        BY <3>3 DEF ListOfLong
      <4> QED BY <1>2, <2>3, <3>1, <4>1 DEF IsAstray
    <3>5. /\ part \in DOMAIN item.parts /\ Long(p) /\ Position(HeaderOf) \in Nat
          /\ Position(HeaderOf) + p.len <= item.len
      BY <3>1, <3>3, <3>4, PartWithin
    <3>6. size = p.len
      BY <3>3, <3>5, ActionFits DEF WellFormedProperty
    <3> HIDE DEF p, size
    <3>7. at + Position(HeaderOf) + size \in Nat
          /\ at + Position(HeaderOf) + size <= plan.length
      <4>1. at \in Nat /\ plan.length \in Nat /\ p.len \in Nat
        BY <2>1, <3>5 DEF PutsInside, Long
      <4>2. item.len \in Nat
        BY <3>3, ListsHaveLengths, SumOfLengthsIs
      <4> QED BY <3>2, <3>5, <3>6, <4>1, <4>2
    <3>8. end' \in Nat /\ end' <= plan.length
      BY <1>2, <2>1, <2>3, <3>7, Writes
    <3>9. todo' = <<>> \/ \E k \in Nat : ToPut(k)'
      BY <1>1, <2>1 DEF PutsInside, ToPut
    <3> QED BY <1>1, <1>2, <2>1, <2>3, <3>1, <3>8, <3>9 DEF PutsInside
  <2> QED BY <2>2, <2>3
<1> QED BY <1>1, <1>2, <1>3, PutKeeps

LEMMA PutItemEndWrites ==
  ASSUME WritesInv, PutItemEnd
  PROVE  WritesInv'
<1>1. /\ stage = "put" /\ item # NoItem /\ MadeFrom(content)
      /\ at' = at + item.len /\ todo' = Tail(todo) /\ item' = NoItem
      /\ UNCHANGED <<content, stage, plan, end>>
  BY DEF PutItemEnd, EndWalk, WritesInv
<1>2. ASSUME WellFormed(content), Fits(content)
      PROVE  /\ end' \in Nat /\ plan.length \in Nat /\ end' <= plan.length
             /\ PutsInside'
  <2>1. PutsInside /\ item = Head(todo) /\ todo # <<>>
    BY <1>1, <1>2 DEF WritesInv, PutsInside
  <2>2. PICK i \in DOMAIN content.items :
          /\ Long(item)
          /\ i \in Nat /\ i <= Len(content.items)
          /\ Tail(todo) = SubSeq(content.items, i + 1, Len(content.items))
          /\ at + item.len + Sum(LengthsOf(content.items))
                <= plan.length + Before(LengthsOf(content.items), i)
    BY <1>1, <2>1, NextToPut
  <2>3. ToPut(i)'
    BY <1>1, <2>2 DEF ToPut
  <2>4. at' \in Nat
    BY SMTT(20), <1>1, <2>1, <2>2 DEF PutsInside, Long
  <2> QED BY <1>1, <2>1, <2>2, <2>3, <2>4 DEF PutsInside
<1> QED BY <1>1, <1>2, PutKeeps

LEMMA MadeWrites ==
  ASSUME WritesInv, Made
  PROVE  WritesInv'
<1>1. stage = "put" /\ stage' = "made" /\ UNCHANGED <<content, plan, end>>
  BY DEF Made
<1> QED BY <1>1 DEF WritesInv, WritesStayInside

\* Whoever reads a message, or checks it, leaves it as it is.
LEMMA OthersWrite ==
  ASSUME WritesInv, Hand \/ Check \/ GetNext
  PROVE  WritesInv'
<1>1. UNCHANGED <<content, plan, end>>
  BY DEF Hand, Check, GetNext, GetStructure, GetAction, GetItem, GetPart,
         GetItemEnd, Got
<1>2. stage' \notin {"call", "put"}
  BY DEF Hand, Check, GetNext, GetStructure, GetAction, GetItem, GetPart,
         GetItemEnd, Got
<1> QED BY <1>1, <1>2 DEF WritesInv, WritesStayInside

LEMMA WritesInvInit == WireInit => WritesInv
<1> SUFFICES ASSUME WireInit PROVE WritesInv
  OBVIOUS
<1>1. plan.length = 0 /\ end = 0 /\ item = NoItem /\ stage # "put"
  BY DEF WireInit, CreateInit, CreateIdle, NoPlan, WalkInit
<1>2. WritesStayInside
  BY <1>1 DEF WritesStayInside
<1>3. ASSUME stage = "call" PROVE content \in Contents
  BY <1>3 DEF WireInit, CreateInit, CreateIdle
<1>4. ASSUME NEW c \in Contents PROVE MadeFrom(c)
  <2>1. c.kind \in OfOneSize \cup WithDataOnly \cup WithArrayOnly \cup WithItems
    BY DEF Contents, Of, WithItems
  <2> QED BY <2>1, ContentsAre, ContentsAreItemized DEF MadeFrom
<1> QED BY <1>1, <1>2, <1>3, <1>4 DEF WritesInv

LEMMA WritesInvNext ==
  ASSUME WritesInv, [WireNext]_wire_vars
  PROVE  WritesInv'
<1>1. CASE UNCHANGED wire_vars
  BY <1>1 DEF wire_vars, create_vars, walk_vars, WritesInv, PutsInside, ToPut,
              WritesStayInside
<1>2. CASE CreateNext
  BY <1>2, CreateWrites, PutActionWrites, PutItemWrites, PutPartWrites,
     PutItemEndWrites, MadeWrites DEF CreateNext
<1> QED BY <1>1, <1>2, OthersWrite DEF WireNext

-----------------------------------------------------------------------------
(***************************************************************************)
(* Byte order: a conversion that treats every field as its type asks makes *)
(* of a structure in the host the one on the wire, and back.               *)
(***************************************************************************)
Pads == {"pad", "pad1", "pad2"}

\* The fields that a conversion treats in one way each.
Apart(fs) ==
  /\ fs.s \cap (fs.l \cup fs.ll \cup fs.copy \cup Pads) = {}
  /\ fs.l \cap (fs.ll \cup fs.copy \cup Pads) = {}
  /\ fs.ll \cap (fs.copy \cup Pads) = {}
  /\ fs.copy \cap Pads = {}

\* Those a conversion treats as their type asks.
Treated(fs) ==
  {u16(n) : n \in fs.s} \cup {u32(n) : n \in fs.l} \cup {u64(n) : n \in fs.ll}
    \cup {u8(n) : n \in fs.copy} \cup {bytes(n, k) : n \in fs.copy, k \in Nat}
    \cup {bytes(n, k) : n \in Pads, k \in Nat}

LEMMA SwappedTwice ==
  ASSUME NEW S, NEW b \in Seq(S)
  PROVE  /\ Swapped(b, Len(b)) = Reverse(b)
         /\ Reverse(b) \in Seq(S) /\ Len(Reverse(b)) = Len(b)
         /\ Reverse(Reverse(b)) = b
<1> DEFINE n == Len(b)
<1>1. n \in Nat /\ b = [i \in 1 .. n |-> b[i]] /\ \A i \in 1 .. n : b[i] \in S
  OBVIOUS
<1>2. Reverse(b) = [i \in 1 .. n |-> b[n - i + 1]]
  BY DEF Reverse
<1>3. Reverse(b) \in Seq(S) /\ Len(Reverse(b)) = n
  BY <1>1, <1>2
<1>4. Reverse(Reverse(b)) = b
  <2>1. Reverse(Reverse(b)) = [i \in 1 .. n |-> Reverse(b)[n - i + 1]]
    BY <1>3 DEF Reverse
  <2>2. \A i \in 1 .. n : Reverse(b)[n - i + 1] = b[i]
    BY <1>1, <1>2
  <2> QED BY <1>1, <2>1, <2>2
<1>5. \A c \in Seq(S) : Len(c) = n => Resized(c, n) = c
  <2>1. ASSUME NEW c \in Seq(S), Len(c) = n PROVE Resized(c, n) = c
    <3>1. c = [i \in 1 .. n |-> c[i]]
      BY <2>1
    <3> QED BY <2>1, <3>1 DEF Resized
  <2> QED BY <2>1
<1>6. Swapped(b, n) = Reverse(b)
  BY <1>3, <1>5 DEF Swapped
<1> QED BY <1>3, <1>4, <1>6

InHost(f) == [j \in 1 .. f.width * f.count |-> <<f.name, j>>]
OnWire(f) ==
  IF IsPad(f) THEN [j \in DOMAIN InHost(f) |-> Zero]
  ELSE IF f.count = 1 THEN Reverse(InHost(f)) ELSE InHost(f)

LEMMA FieldConverted ==
  ASSUME NEW fs, Apart(fs), NEW f \in Treated(fs)
  PROVE  /\ Converted(fs, f, InHost(f)) = OnWire(f)
         /\ IsPad(f) \/ Converted(fs, f, OnWire(f)) = InHost(f)
<1> DEFINE b == InHost(f)
           S == {f.name} \X Nat
<1>1. f.width * f.count \in Nat
  BY DEF Treated, u8, u16, u32, u64, bytes, Field
<1>2. b \in Seq(S) /\ Len(b) = f.width * f.count
  <2> DEFINE n == f.width * f.count
  <2>1. n \in Nat
    BY <1>1
  <2> HIDE DEF n
  <2>2. [j \in 1 .. n |-> <<f.name, j>>] \in Seq(S)
        /\ Len([j \in 1 .. n |-> <<f.name, j>>]) = n
    BY <2>1
  <2> QED BY <2>2 DEF InHost, n
<1> HIDE DEF b, S
<1>3. /\ Swapped(b, Len(b)) = Reverse(b) /\ Reverse(Reverse(b)) = b
      /\ Swapped(Reverse(b), Len(b)) = b
  BY <1>2, SwappedTwice
<1>4. CASE \E n \in fs.s : f = u16(n)
  <2>1. /\ f.name \in fs.s /\ Len(b) = 2 /\ f.count = 1
    BY <1>2, <1>4 DEF u16, Field
  <2>2. ~IsPad(f) /\ \A c : Converted(fs, f, c) = Swapped(c, 2)
    BY <2>1 DEF Apart, IsPad, Pads, Converted
  <2> QED BY <1>3, <2>1, <2>2 DEF OnWire, b
<1>5. CASE \E n \in fs.l : f = u32(n)
  <2>1. /\ f.name \in fs.l /\ Len(b) = 4 /\ f.count = 1
    BY <1>2, <1>5 DEF u32, Field
  <2>2. ~IsPad(f) /\ \A c : Converted(fs, f, c) = Swapped(c, 4)
    BY <2>1 DEF Apart, IsPad, Pads, Converted
  <2> QED BY <1>3, <2>1, <2>2 DEF OnWire, b
<1>6. CASE \E n \in fs.ll : f = u64(n)
  <2>1. /\ f.name \in fs.ll /\ Len(b) = 8 /\ f.count = 1
    BY <1>2, <1>6 DEF u64, Field
  <2>2. ~IsPad(f) /\ \A c : Converted(fs, f, c) = Swapped(c, 8)
    BY <2>1 DEF Apart, IsPad, Pads, Converted
  <2> QED BY <1>3, <2>1, <2>2 DEF OnWire, b
<1>7. CASE f.name \in fs.copy /\ f.width = 1
  <2>1. ~IsPad(f) /\ \A c : Converted(fs, f, c) = c
    BY <1>7 DEF Apart, IsPad, Pads, Converted
  <2>2. f.count = 1 => Reverse(b) = b
    <3> HAVE f.count = 1
    <3>1. Len(b) = 1 /\ b = [i \in 1 .. 1 |-> b[i]]
      BY <1>2, <1>7
    <3>2. Reverse(b) = [i \in 1 .. 1 |-> b[1 - i + 1]]
      BY <3>1 DEF Reverse
    <3>3. \A i \in 1 .. 1 : b[1 - i + 1] = b[i]
      OBVIOUS
    <3> QED BY <3>1, <3>2, <3>3
  <2> QED BY <2>1, <2>2 DEF OnWire, b
<1>8. CASE f.name \in Pads
  <2>1. IsPad(f) /\ \A c : Converted(fs, f, c) = [i \in DOMAIN c |-> Zero]
    BY <1>8 DEF Apart, IsPad, Pads, Converted
  <2> QED BY <2>1 DEF OnWire
<1> QED BY <1>4, <1>5, <1>6, <1>7, <1>8 DEF Treated, u8, bytes, Field

LEMMA ConvertsWhole ==
  ASSUME NEW to \in {"network", "host"}, NEW struct, NEW fs,
         Apart(fs), struct \in Seq(Treated(fs)), Convert(to, struct, fs)
  PROVE  ConvertedWhole'
<1>1. \A i \in DOMAIN struct :
        /\ Host(struct)[i] = InHost(struct[i])
        /\ Network(struct)[i] = OnWire(struct[i])
  BY DEF Host, Network, InHost, OnWire
<1>2. ASSUME NEW i \in DOMAIN struct
      PROVE  /\ Converted(fs, struct[i], InHost(struct[i])) = OnWire(struct[i])
             /\ \/ IsPad(struct[i])
                \/ Converted(fs, struct[i], OnWire(struct[i])) = InHost(struct[i])
  <2>1. struct[i] \in Treated(fs)
    BY <1>2
  <2> QED BY <2>1, FieldConverted
<1>3. CASE to = "network"
  <2>1. piece' = [struct |-> struct, order |-> "network",
                  bytes |-> [i \in DOMAIN struct |->
                               Converted(fs, struct[i], Host(struct)[i])]]
    BY <1>3 DEF Convert
  <2> QED BY <2>1, <1>1, <1>2 DEF ConvertedWhole
<1>4. CASE to = "host"
  <2>1. piece' = [struct |-> struct, order |-> "host",
                  bytes |-> [i \in DOMAIN struct |->
                               Converted(fs, struct[i], Network(struct)[i])]]
    BY <1>4 DEF Convert
  <2> QED BY <2>1, <1>1, <1>2 DEF ConvertedWhole
<1> QED BY <1>3, <1>4

-----------------------------------------------------------------------------
(***************************************************************************)
(* The structures, actions and properties there are: each field of theirs  *)
(* is treated once, as its type asks.                                      *)
(***************************************************************************)
\* A structure and a conversion that treats all of it.
Turns(struct, fs) == Apart(fs) /\ struct \in Seq(Treated(fs))

LEMMA EachTreated ==
  ASSUME NEW fs
  PROVE  /\ \A names \in Seq(fs.s) : Each(u16, names) \in Seq(Treated(fs))
         /\ \A names \in Seq(fs.l) : Each(u32, names) \in Seq(Treated(fs))
         /\ \A names \in Seq(fs.ll) : Each(u64, names) \in Seq(Treated(fs))
<1>1. ASSUME NEW names \in Seq(fs.s) PROVE Each(u16, names) \in Seq(Treated(fs))
  <2>1. \A i \in DOMAIN names : u16(names[i]) \in Treated(fs)
    BY DEF Treated
  <2>2. DOMAIN names = 1 .. Len(names) /\ Len(names) \in Nat
    OBVIOUS
  <2> QED BY <2>1, <2>2 DEF Each
<1>2. ASSUME NEW names \in Seq(fs.l) PROVE Each(u32, names) \in Seq(Treated(fs))
  <2>1. \A i \in DOMAIN names : u32(names[i]) \in Treated(fs)
    BY DEF Treated
  <2>2. DOMAIN names = 1 .. Len(names) /\ Len(names) \in Nat
    OBVIOUS
  <2> QED BY <2>1, <2>2 DEF Each
<1>3. ASSUME NEW names \in Seq(fs.ll) PROVE Each(u64, names) \in Seq(Treated(fs))
  <2>1. \A i \in DOMAIN names : u64(names[i]) \in Treated(fs)
    BY DEF Treated
  <2>2. DOMAIN names = 1 .. Len(names) /\ Len(names) \in Nat
    OBVIOUS
  <2> QED BY <2>1, <2>2 DEF Each
<1> QED BY <1>1, <1>2, <1>3

LEMMA TreatedAre ==
  ASSUME NEW fs
  PROVE  /\ \A n \in fs.s : u16(n) \in Treated(fs)
         /\ \A n \in fs.l : u32(n) \in Treated(fs)
         /\ \A n \in fs.ll : u64(n) \in Treated(fs)
         /\ \A n \in fs.copy : u8(n) \in Treated(fs)
         /\ \A n \in fs.copy \cup Pads, k \in Nat : bytes(n, k) \in Treated(fs)
BY DEF Treated

LEMMA MatchTurns == Turns(ofp_match, ntoh_match)
<1> DEFINE fs == ntoh_match
<1>1. /\ fs.s = {"in_port", "dl_vlan", "dl_type", "tp_src", "tp_dst"}
      /\ fs.l = {"wildcards", "nw_src", "nw_dst"} /\ fs.ll = {}
      /\ fs.copy = {"dl_src", "dl_dst", "dl_vlan_pcp", "nw_tos", "nw_proto"}
  BY DEF ntoh_match, Fields
<1> HIDE DEF fs
<1>2. Apart(fs)
  BY <1>1 DEF Apart, Pads
<1> DEFINE S == Treated(fs)
<1>3. /\ u32("wildcards") \in S /\ u16("in_port") \in S /\ bytes("dl_src", 6) \in S
      /\ bytes("dl_dst", 6) \in S /\ u16("dl_vlan") \in S /\ u8("dl_vlan_pcp") \in S
      /\ bytes("pad1", 1) \in S /\ u16("dl_type") \in S /\ u8("nw_tos") \in S
      /\ u8("nw_proto") \in S /\ bytes("pad2", 2) \in S /\ u32("nw_src") \in S
      /\ u32("nw_dst") \in S /\ u16("tp_src") \in S /\ u16("tp_dst") \in S
  BY <1>1, TreatedAre DEF Pads
<1> HIDE DEF S
<1>4. ofp_match \in Seq(S)
  BY <1>3 DEF ofp_match
<1> QED BY <1>2, <1>4 DEF Turns, S, fs

LEMMA PhyPortTurns == Turns(ofp_phy_port, ntoh_phy_port)
<1> DEFINE fs == ntoh_phy_port
           S == Treated(fs)
           names == <<"config", "state", "curr", "advertised", "supported", "peer">>
           e == Each(u32, names)
           t == <<u16("port_no"), bytes("hw_addr", 6), bytes("name", 16)>>
<1>1. /\ fs.s = {"port_no"} /\ fs.ll = {} /\ fs.copy = {"hw_addr", "name"}
      /\ fs.l = {"config", "state", "curr", "advertised", "supported", "peer"}
  BY DEF ntoh_phy_port, Fields
<1>2. names \in Seq(fs.l)
  BY <1>1
<1> HIDE DEF fs, names
<1>3. Apart(fs)
  BY <1>1 DEF Apart, Pads
<1>4. u16("port_no") \in S /\ bytes("hw_addr", 6) \in S /\ bytes("name", 16) \in S
  BY <1>1, TreatedAre
<1>5. e \in Seq(S)
  BY <1>2, EachTreated
<1> HIDE DEF S, e
<1>6. t \in Seq(S)
  BY <1>4
<1> HIDE DEF t
<1>7. t \o e \in Seq(S)
  BY <1>5, <1>6
<1> QED BY <1>3, <1>7 DEF Turns, ofp_phy_port, S, fs, t, e, names

\* An action: its type and length, and its own fields.
LEMMA ActionTurns ==
  ASSUME NEW fs, Apart(fs), {"type", "len"} \subseteq fs.s,
         NEW fields \in Seq(Treated(fs))
  PROVE  Turns(ActionOf(fields), fs)
<1> DEFINE names == <<"type", "len">>
           e == Each(u16, names)
           S == Treated(fs)
<1>1. names \in Seq(fs.s)
  <2> DEFINE T == fs.s
  <2>1. "type" \in T /\ "len" \in T
    OBVIOUS
  <2> HIDE DEF T
  <2>2. <<"type", "len">> \in Seq(T)
    BY <2>1
  <2> QED BY <2>2 DEF T
<1> HIDE DEF names
<1>2. e \in Seq(S)
  BY <1>1, EachTreated
<1> HIDE DEF e, S
<1>3. e \o fields \in Seq(S)
  BY <1>2 DEF S
<1> QED BY <1>3 DEF Turns, ActionOf, S, e, names

\* The forms of an action behind its type and length.
LEMMA ActionForms ==
  ASSUME NEW fs, Apart(fs), {"type", "len"} \subseteq fs.s
  PROVE  /\ \A n \in fs.s, k \in Nat : Turns(ActionOf(<<u16(n), bytes("pad", k)>>), fs)
         /\ \A n \in fs.l : Turns(ActionOf(<<u32(n)>>), fs)
         /\ \A n \in fs.copy, k \in Nat :
              Turns(ActionOf(<<u8(n), bytes("pad", k)>>), fs)
         /\ \A n \in fs.copy, j \in Nat, k \in Nat :
              Turns(ActionOf(<<bytes(n, j), bytes("pad", k)>>), fs)
         /\ \A k \in Nat : Turns(ActionOf(<<bytes("pad", k)>>), fs)
         /\ \A n \in fs.s, m \in fs.l, k \in Nat :
              Turns(ActionOf(<<u16(n), bytes("pad", k), u32(m)>>), fs)
         /\ \A names \in Seq(fs.s) : Turns(ActionOf(Each(u16, names)), fs)
<1> DEFINE S == Treated(fs)
<1>1. /\ \A n \in fs.s : u16(n) \in S
      /\ \A n \in fs.l : u32(n) \in S
      /\ \A n \in fs.copy : u8(n) \in S /\ \A k \in Nat : bytes(n, k) \in S
      /\ \A k \in Nat : bytes("pad", k) \in S
  BY TreatedAre DEF Pads
<1>2. \A fields \in Seq(S) : Turns(ActionOf(fields), fs)
  BY ActionTurns
<1>3. \A names \in Seq(fs.s) : Each(u16, names) \in Seq(S)
  BY EachTreated
<1> HIDE DEF S
<1>4. \A a \in S, b \in S : <<a>> \in Seq(S) /\ <<a, b>> \in Seq(S)
                           /\ \A c \in S : <<a, b, c>> \in Seq(S)
  OBVIOUS
<1>5. \A n \in fs.s, k \in Nat : Turns(ActionOf(<<u16(n), bytes("pad", k)>>), fs)
  BY <1>1, <1>2, <1>4
<1>6. \A n \in fs.l : Turns(ActionOf(<<u32(n)>>), fs)
  BY <1>1, <1>2, <1>4
<1>7. \A n \in fs.copy, k \in Nat : Turns(ActionOf(<<u8(n), bytes("pad", k)>>), fs)
  BY <1>1, <1>2, <1>4
<1>8. \A n \in fs.copy, j \in Nat, k \in Nat :
        Turns(ActionOf(<<bytes(n, j), bytes("pad", k)>>), fs)
  BY <1>1, <1>2, <1>4
<1>9. \A k \in Nat : Turns(ActionOf(<<bytes("pad", k)>>), fs)
  BY <1>1, <1>2, <1>4
<1>10. \A n \in fs.s, m \in fs.l, k \in Nat :
         Turns(ActionOf(<<u16(n), bytes("pad", k), u32(m)>>), fs)
  BY <1>1, <1>2, <1>4
<1>11. \A names \in Seq(fs.s) : Turns(ActionOf(Each(u16, names)), fs)
  BY <1>2, <1>3, Zenon
<1> QED BY <1>5, <1>6, <1>7, <1>8, <1>9, <1>10, <1>11, Zenon

LEMMA ActionsTurn ==
  \A t \in DOMAIN ActionStruct : Turns(ActionStruct[t], ActionFields[t])
<1>1. Turns(ofp_action_output, ntoh_action_output)
  <2> DEFINE fs == ntoh_action_output
  <2>1. /\ fs.s = {"type", "len", "port", "max_len"} /\ fs.l = {}
        /\ fs.ll = {} /\ fs.copy = {}
    BY DEF ntoh_action_output, OfAction, Fields
  <2> HIDE DEF fs
  <2>2. Apart(fs) /\ {"type", "len"} \subseteq fs.s
    BY <2>1 DEF Apart, Pads
  <2>3. <<"port", "max_len">> \in Seq(fs.s)
    BY <2>1
  <2> QED BY <2>2, <2>3, ActionForms, Zenon DEF ofp_action_output, fs
<1>2. Turns(ofp_action_vlan_vid, ntoh_action_vlan_vid)
  <2> DEFINE fs == ntoh_action_vlan_vid
  <2>1. /\ fs.s = {"type", "len", "vlan_vid"} /\ fs.l = {}
        /\ fs.ll = {} /\ fs.copy = {}
    BY DEF ntoh_action_vlan_vid, OfAction, Fields
  <2> HIDE DEF fs
  <2>2. Apart(fs) /\ {"type", "len"} \subseteq fs.s
    BY <2>1 DEF Apart, Pads
  <2> QED BY <2>1, <2>2, ActionForms DEF ofp_action_vlan_vid, fs
<1>3. Turns(ofp_action_vlan_pcp, ntoh_action_vlan_pcp)
  <2> DEFINE fs == ntoh_action_vlan_pcp
  <2>1. /\ fs.s = {"type", "len"} /\ fs.l = {}
        /\ fs.ll = {} /\ fs.copy = {"vlan_pcp"}
    BY DEF ntoh_action_vlan_pcp, OfAction, Fields
  <2> HIDE DEF fs
  <2>2. Apart(fs) /\ {"type", "len"} \subseteq fs.s
    BY <2>1 DEF Apart, Pads
  <2> QED BY <2>1, <2>2, ActionForms DEF ofp_action_vlan_pcp, fs
<1>4. Turns(ofp_action_dl_addr, ntoh_action_dl_addr)
  <2> DEFINE fs == ntoh_action_dl_addr
  <2>1. /\ fs.s = {"type", "len"} /\ fs.l = {}
        /\ fs.ll = {} /\ fs.copy = {"dl_addr"}
    BY DEF ntoh_action_dl_addr, OfAction, Fields
  <2> HIDE DEF fs
  <2>2. Apart(fs) /\ {"type", "len"} \subseteq fs.s
    BY <2>1 DEF Apart, Pads
  <2> QED BY <2>1, <2>2, ActionForms DEF ofp_action_dl_addr, fs
<1>5. Turns(ofp_action_nw_addr, ntoh_action_nw_addr)
  <2> DEFINE fs == ntoh_action_nw_addr
  <2>1. /\ fs.s = {"type", "len"} /\ fs.l = {"nw_addr"}
        /\ fs.ll = {} /\ fs.copy = {}
    BY DEF ntoh_action_nw_addr, OfAction, Fields
  <2> HIDE DEF fs
  <2>2. Apart(fs) /\ {"type", "len"} \subseteq fs.s
    BY <2>1 DEF Apart, Pads
  <2> QED BY <2>1, <2>2, ActionForms DEF ofp_action_nw_addr, fs
<1>6. Turns(ofp_action_tp_port, ntoh_action_tp_port)
  <2> DEFINE fs == ntoh_action_tp_port
  <2>1. /\ fs.s = {"type", "len", "tp_port"} /\ fs.l = {}
        /\ fs.ll = {} /\ fs.copy = {}
    BY DEF ntoh_action_tp_port, OfAction, Fields
  <2> HIDE DEF fs
  <2>2. Apart(fs) /\ {"type", "len"} \subseteq fs.s
    BY <2>1 DEF Apart, Pads
  <2> QED BY <2>1, <2>2, ActionForms DEF ofp_action_tp_port, fs
<1>7. Turns(ofp_action_nw_tos, ntoh_action_nw_tos)
  <2> DEFINE fs == ntoh_action_nw_tos
  <2>1. /\ fs.s = {"type", "len"} /\ fs.l = {}
        /\ fs.ll = {} /\ fs.copy = {"nw_tos"}
    BY DEF ntoh_action_nw_tos, OfAction, Fields
  <2> HIDE DEF fs
  <2>2. Apart(fs) /\ {"type", "len"} \subseteq fs.s
    BY <2>1 DEF Apart, Pads
  <2> QED BY <2>1, <2>2, ActionForms DEF ofp_action_nw_tos, fs
<1>8. Turns(ofp_action_vendor_header, ntoh_action_vendor)
  <2> DEFINE fs == ntoh_action_vendor
  <2>1. /\ fs.s = {"type", "len"} /\ fs.l = {"vendor"}
        /\ fs.ll = {} /\ fs.copy = {}
    BY DEF ntoh_action_vendor, OfAction, Fields
  <2> HIDE DEF fs
  <2>2. Apart(fs) /\ {"type", "len"} \subseteq fs.s
    BY <2>1 DEF Apart, Pads
  <2> QED BY <2>1, <2>2, ActionForms DEF ofp_action_vendor_header, fs
<1>9. Turns(ofp_action_header, ntoh_action_strip_vlan)
  <2> DEFINE fs == ntoh_action_strip_vlan
  <2>1. /\ fs.s = {"type", "len"} /\ fs.l = {}
        /\ fs.ll = {} /\ fs.copy = {}
    BY DEF ntoh_action_strip_vlan, OfAction, Fields
  <2> HIDE DEF fs
  <2>2. Apart(fs) /\ {"type", "len"} \subseteq fs.s
    BY <2>1 DEF Apart, Pads
  <2> QED BY <2>1, <2>2, ActionForms DEF ofp_action_header, fs
<1>10. Turns(ofp_action_enqueue, ntoh_action_enqueue)
  <2> DEFINE fs == ntoh_action_enqueue
  <2>1. /\ fs.s = {"type", "len", "port"} /\ fs.l = {"queue_id"}
        /\ fs.ll = {} /\ fs.copy = {}
    BY DEF ntoh_action_enqueue, OfAction, Fields
  <2> HIDE DEF fs
  <2>2. Apart(fs) /\ {"type", "len"} \subseteq fs.s
    BY <2>1 DEF Apart, Pads
  <2> QED BY <2>1, <2>2, ActionForms DEF ofp_action_enqueue, fs
<1> QED BY <1>1, <1>2, <1>3, <1>4, <1>5, <1>6, <1>7, <1>8, <1>9, <1>10
    DEF ActionStruct, ActionFields, hton_action_vendor

LEMMA StatisticsTurn ==
  /\ Turns(ofp_aggregate_stats_reply, ntoh_aggregate_stats)
  /\ Turns(ofp_table_stats, ntoh_table_stats)
  /\ Turns(ofp_port_stats, ntoh_port_stats)
  /\ Turns(ofp_queue_stats, ntoh_queue_stats)
<1>1. Turns(ofp_aggregate_stats_reply, ntoh_aggregate_stats)
  <2> DEFINE fs == ntoh_aggregate_stats
             S == Treated(fs)
  <2>1. /\ fs.s = {} /\ fs.l = {"flow_count"}
        /\ fs.ll = {"packet_count", "byte_count"} /\ fs.copy = {}
    BY DEF ntoh_aggregate_stats, Fields
  <2> HIDE DEF fs
  <2>2. Apart(fs)
    BY <2>1 DEF Apart, Pads
  <2>3. /\ u64("packet_count") \in S /\ u64("byte_count") \in S
        /\ u32("flow_count") \in S /\ bytes("pad", 4) \in S
    BY <2>1, TreatedAre DEF Pads
  <2> HIDE DEF S
  <2>4. ofp_aggregate_stats_reply \in Seq(S)
    BY <2>3 DEF ofp_aggregate_stats_reply
  <2> QED BY <2>2, <2>4 DEF Turns, fs, S
<1>2. Turns(ofp_table_stats, ntoh_table_stats)
  <2> DEFINE fs == ntoh_table_stats
             S == Treated(fs)
             few == <<"wildcards", "max_entries", "active_count">>
             many == <<"lookup_count", "matched_count">>
             t == <<u8("table_id"), bytes("pad", 3), bytes("name", 32)>>
             d == Each(u32, few)
             e == Each(u64, many)
  <2>1. /\ fs.s = {} /\ fs.l = {"wildcards", "max_entries", "active_count"}
        /\ fs.ll = {"lookup_count", "matched_count"}
        /\ fs.copy = {"table_id", "name"}
    BY DEF ntoh_table_stats, Fields
  <2>2. few \in Seq(fs.l) /\ many \in Seq(fs.ll)
    BY <2>1
  <2> HIDE DEF fs, few, many
  <2>3. Apart(fs)
    BY <2>1 DEF Apart, Pads
  <2>4. u8("table_id") \in S /\ bytes("pad", 3) \in S /\ bytes("name", 32) \in S
    BY <2>1, TreatedAre DEF Pads
  <2>5. d \in Seq(S) /\ e \in Seq(S)
    BY <2>2, EachTreated
  <2> HIDE DEF S, d, e
  <2>6. t \in Seq(S)
    BY <2>4
  <2> HIDE DEF t
  <2>7. t \o d \o e \in Seq(S)
    BY <2>5, <2>6
  <2> QED BY <2>3, <2>7 DEF Turns, ofp_table_stats, fs, S, few, many, t, d, e
<1>3. Turns(ofp_port_stats, ntoh_port_stats)
  <2> DEFINE fs == ntoh_port_stats
             S == Treated(fs)
             names == <<"rx_packets", "tx_packets", "rx_bytes", "tx_bytes",
                        "rx_dropped", "tx_dropped", "rx_errors", "tx_errors",
                        "rx_frame_err", "rx_over_err", "rx_crc_err", "collisions">>
             t == <<u16("port_no"), bytes("pad", 6)>>
             e == Each(u64, names)
  <2>1. /\ fs.s = {"port_no"} /\ fs.l = {} /\ fs.copy = {}
        /\ fs.ll = {"rx_packets", "tx_packets", "rx_bytes", "tx_bytes",
                    "rx_dropped", "tx_dropped", "rx_errors", "tx_errors",
                    "rx_frame_err", "rx_over_err", "rx_crc_err", "collisions"}
    BY DEF ntoh_port_stats, Fields
  <2>2. names \in Seq(fs.ll)
    BY <2>1
  <2> HIDE DEF fs, names
  <2>3. Apart(fs)
    BY <2>1 DEF Apart, Pads
  <2>4. u16("port_no") \in S /\ bytes("pad", 6) \in S
    BY <2>1, TreatedAre DEF Pads
  <2>5. e \in Seq(S)
    BY <2>2, EachTreated
  <2> HIDE DEF S, e
  <2>6. t \in Seq(S)
    BY <2>4
  <2> HIDE DEF t
  <2>7. t \o e \in Seq(S)
    BY <2>5, <2>6
  <2> QED BY <2>3, <2>7 DEF Turns, ofp_port_stats, fs, S, names, t, e
<1>4. Turns(ofp_queue_stats, ntoh_queue_stats)
  <2> DEFINE fs == ntoh_queue_stats
             S == Treated(fs)
             names == <<"tx_bytes", "tx_packets", "tx_errors">>
             e == Each(u64, names)
  <2>1. /\ fs.s = {"port_no"} /\ fs.l = {"queue_id"} /\ fs.copy = {}
        /\ fs.ll = {"tx_bytes", "tx_packets", "tx_errors"}
    BY DEF ntoh_queue_stats, Fields
  <2>2. names \in Seq(fs.ll)
    BY <2>1
  <2> HIDE DEF fs, names
  <2>3. Apart(fs)
    BY <2>1 DEF Apart, Pads
  <2>4. u16("port_no") \in S /\ bytes("pad", 2) \in S /\ u32("queue_id") \in S
    BY <2>1, TreatedAre DEF Pads
  <2>5. e \in Seq(S)
    BY <2>2, EachTreated
  <2> HIDE DEF S, e
  <2>6. ofp_queue_stats_request \in Seq(S)
    BY <2>4 DEF ofp_queue_stats_request
  <2>7. ofp_queue_stats_request \o e \in Seq(S)
    BY <2>5, <2>6
  <2> QED BY <2>3, <2>7 DEF Turns, ofp_queue_stats, fs, S, names, e
<1> QED BY <1>1, <1>2, <1>3, <1>4

LEMMA FlowTurns == Turns(ofp_flow_stats, flow_stats_fields)
<1> DEFINE fs == flow_stats_fields
           S == Treated(fs)
           names == <<"cookie", "packet_count", "byte_count">>
           e == Each(u64, names)
           t == <<u16("length"), u8("table_id"), bytes("pad", 1)>>
           d == <<u32("duration_sec"), u32("duration_nsec"), u16("priority"),
                  u16("idle_timeout"), u16("hard_timeout"), bytes("pad2", 6)>>
<1>1. /\ fs.s = {"length", "priority", "idle_timeout", "hard_timeout", "in_port",
                 "dl_vlan", "dl_type", "tp_src", "tp_dst"}
      /\ fs.l = {"duration_sec", "duration_nsec", "wildcards", "nw_src", "nw_dst"}
      /\ fs.ll = {"cookie", "packet_count", "byte_count"}
      /\ fs.copy = {"table_id", "dl_src", "dl_dst", "dl_vlan_pcp", "nw_tos", "nw_proto"}
  BY DEF flow_stats_fields, ntoh_match, Fields
<1>2. names \in Seq(fs.ll)
  BY <1>1
<1> HIDE DEF fs, names
<1>3. Apart(fs)
  BY <1>1 DEF Apart, Pads
<1>4. /\ u16("length") \in S /\ u8("table_id") \in S /\ bytes("pad", 1) \in S
      /\ u32("duration_sec") \in S /\ u32("duration_nsec") \in S
      /\ u16("priority") \in S /\ u16("idle_timeout") \in S
      /\ u16("hard_timeout") \in S /\ bytes("pad2", 6) \in S
  BY <1>1, TreatedAre DEF Pads
<1>5. /\ u32("wildcards") \in S /\ u16("in_port") \in S /\ bytes("dl_src", 6) \in S
      /\ bytes("dl_dst", 6) \in S /\ u16("dl_vlan") \in S /\ u8("dl_vlan_pcp") \in S
      /\ bytes("pad1", 1) \in S /\ u16("dl_type") \in S /\ u8("nw_tos") \in S
      /\ u8("nw_proto") \in S /\ bytes("pad2", 2) \in S /\ u32("nw_src") \in S
      /\ u32("nw_dst") \in S /\ u16("tp_src") \in S /\ u16("tp_dst") \in S
  BY <1>1, TreatedAre DEF Pads
<1>6. e \in Seq(S)
  BY <1>2, EachTreated
<1> HIDE DEF S, e
<1>7. t \in Seq(S) /\ d \in Seq(S)
  BY <1>4
<1>8. ofp_match \in Seq(S)
  BY <1>5 DEF ofp_match
<1> HIDE DEF t, d
<1>9. t \o ofp_match \o d \o e \in Seq(S)
  BY <1>6, <1>7, <1>8
<1> QED BY <1>3, <1>9 DEF Turns, ofp_flow_stats, S, fs, names, t, d, e

LEMMA QueueTurns == Turns(ofp_packet_queue, packet_queue_fields)
<1> DEFINE fs == packet_queue_fields
           S == Treated(fs)
<1>1. fs.s = {"len"} /\ fs.l = {"queue_id"} /\ fs.ll = {} /\ fs.copy = {}
  BY DEF packet_queue_fields, Fields
<1> HIDE DEF fs
<1>2. Apart(fs)
  BY <1>1 DEF Apart, Pads
<1>3. u32("queue_id") \in S /\ u16("len") \in S /\ bytes("pad", 2) \in S
  BY <1>1, TreatedAre DEF Pads
<1> HIDE DEF S
<1>4. ofp_packet_queue \in Seq(S)
  BY <1>3 DEF ofp_packet_queue
<1> QED BY <1>2, <1>4 DEF Turns, S, fs

LEMMA PropertiesTurn ==
  \A t \in DOMAIN PropertyStruct : Turns(PropertyStruct[t], queue_property_fields(t))
<1>1. ASSUME NEW t \in {"NONE", "MIN_RATE"}
      PROVE  /\ Apart(queue_property_fields(t))
             /\ ofp_queue_prop_header \in Seq(Treated(queue_property_fields(t)))
             /\ t = "MIN_RATE" => ofp_queue_prop_min_rate
                                     \in Seq(Treated(queue_property_fields(t)))
  <2> DEFINE fs == queue_property_fields(t)
             S == Treated(fs)
             names == <<"property", "len">>
             e == Each(u16, names)
             h == e \o <<bytes("pad", 4)>>
  <2>1. /\ fs.s = {"property", "len"} \cup (IF t = "MIN_RATE" THEN {"rate"} ELSE {})
        /\ fs.l = {} /\ fs.ll = {} /\ fs.copy = {}
    BY DEF queue_property_fields, Fields
  <2>2. names \in Seq(fs.s)
    <3> DEFINE T == fs.s
    <3>1. "property" \in T /\ "len" \in T
      BY <2>1
    <3> HIDE DEF T
    <3>2. names \in Seq(T)
      BY <3>1
    <3> QED BY <3>2 DEF T
  <2> HIDE DEF fs, names
  <2>3. Apart(fs)
    BY <2>1 DEF Apart, Pads
  <2>4. /\ bytes("pad", 4) \in S /\ bytes("pad", 6) \in S
        /\ t = "MIN_RATE" => u16("rate") \in S
    BY <2>1, TreatedAre DEF Pads
  <2>5. e \in Seq(S)
    BY <2>2, EachTreated
  <2> HIDE DEF S, e
  <2>6. h \in Seq(S)
    BY <2>4, <2>5
  <2>7. t = "MIN_RATE" => <<u16("rate"), bytes("pad", 6)>> \in Seq(S)
    BY <2>4
  <2>8. ofp_queue_prop_header = h
    BY DEF ofp_queue_prop_header, e, names
  <2> HIDE DEF h
  <2>9. t = "MIN_RATE" => h \o <<u16("rate"), bytes("pad", 6)>> \in Seq(S)
    BY <2>6, <2>7
  <2> QED BY <2>3, <2>6, <2>8, <2>9 DEF ofp_queue_prop_min_rate, fs, S
<1> QED BY <1>1 DEF PropertyStruct, Turns

LEMMA StructuresTurn ==
  \A k \in DOMAIN Structure : Turns(Structure[k][1], Structure[k][2])
BY PhyPortTurns, MatchTurns, StatisticsTurn DEF Structure

\* Every conversion of a known structure, action or property is whole.
LEMMA Conversions ==
  ASSUME NEW to \in {"network", "host"}
  PROVE  /\ \A struct, fs :
              Turns(struct, fs) /\ Convert(to, struct, fs) => ConvertedWhole'
         /\ ConvertedWhole /\ ConvertStructure(to) => ConvertedWhole'
         /\ ConvertedWhole /\ UNCHANGED piece => ConvertedWhole'
<1>1. ASSUME NEW struct, NEW fs, Turns(struct, fs), Convert(to, struct, fs)
      PROVE  ConvertedWhole'
  BY <1>1, ConvertsWhole DEF Turns
<1>2. ConvertedWhole /\ UNCHANGED piece => ConvertedWhole'
  BY DEF ConvertedWhole
<1>3. ASSUME ConvertedWhole, ConvertStructure(to) PROVE ConvertedWhole'
  <2>1. CASE HasStructure
    <3>1. content.kind \in DOMAIN Structure
      BY <2>1 DEF HasStructure
    <3>2. Convert(to, Structure[content.kind][1], Structure[content.kind][2])
      BY <1>3, <2>1 DEF ConvertStructure
    <3> QED BY <3>1, <3>2, <1>1, StructuresTurn
  <2>2. CASE ~HasStructure
    BY <1>2, <1>3, <2>2 DEF ConvertStructure
  <2> QED BY <2>1, <2>2
<1> QED BY <1>1, <1>2, <1>3

LEMMA PartConversions ==
  ASSUME NEW p
  PROVE  /\ Known(p) /\ (hton_action(p) \/ ntoh_action(p)) => ConvertedWhole'
         /\ p.type \in DOMAIN PropertyStruct
              /\ (hton_queue_property(p) \/ ntoh_queue_property(p)) => ConvertedWhole'
<1>1. ASSUME Known(p), hton_action(p) \/ ntoh_action(p) PROVE ConvertedWhole'
  <2>1. Turns(ActionStruct[p.type], ActionFields[p.type])
    BY <1>1, ActionsTurn DEF Known
  <2> QED BY <1>1, <2>1, Conversions DEF hton_action, ntoh_action
<1>2. ASSUME p.type \in DOMAIN PropertyStruct,
             hton_queue_property(p) \/ ntoh_queue_property(p)
      PROVE  ConvertedWhole'
  <2>1. Turns(PropertyStruct[p.type], queue_property_fields(p.type))
    BY <1>2, PropertiesTurn
  <2> QED BY <1>2, <2>1, Conversions DEF hton_queue_property, ntoh_queue_property
<1> QED BY <1>1, <1>2

LEMMA ItemConversions ==
  ASSUME NEW i,
         \/ hton_flow_stats(i) \/ ntoh_flow_stats(i)
         \/ hton_packet_queue(i) \/ ntoh_packet_queue(i)
  PROVE  ConvertedWhole'
BY FlowTurns, QueueTurns, Conversions
   DEF hton_flow_stats, ntoh_flow_stats, hton_packet_queue, ntoh_packet_queue

\* What a message is made from, once more: flows and queues, and what is in them.
Measured(i) == Long(i) /\ i.len <= Max16 /\ ListOfLong(i.parts)
ListsWell(c) ==
  /\ MadeFrom(c)
  /\ c.kind \in Walked =>
       /\ \A k \in DOMAIN c.items : Measured(c.items[k])
       /\ c.kind = "QUEUE_GET_CONFIG_REPLY" =>
            \A k \in DOMAIN c.items : \A m \in DOMAIN c.items[k].parts :
              c.items[k].parts[m].type \in DOMAIN PropertyStruct

LEMMA WholesAre ==
  ASSUME NEW types, NEW s \in Wholes(types), NEW k \in DOMAIN s
  PROVE  /\ Measured(s[k])
         /\ \A m \in DOMAIN s[k].parts : s[k].parts[m].type \in types
<1>1. PICK n \in Nat, j \in Nat : s \in Lists(Whole(types, n), j)
  BY CreateAssumption DEF Wholes
<1>2. s[k] \in Whole(types, n)
  BY <1>1 DEF Lists
<1>3. PICK len \in WholeLengths, ps \in Lists(Parts(types), n) :
        s[k] = [type |-> "NONE", len |-> len, parts |-> ps]
  BY <1>2 DEF Whole
<1>4. Long(s[k]) /\ ListOfLong(s[k].parts)
  BY <1>1, <1>2, ItemsAreLong
<1>5. len \in Nat /\ len <= Max16
  BY CreateAssumption
<1>6. \A m \in DOMAIN ps : ps[m] \in Parts(types)
  BY <1>3 DEF Lists
<1>7. \A p \in Parts(types) : p.type \in types
  BY DEF Parts
<1> QED BY <1>3, <1>4, <1>5, <1>6, <1>7 DEF Measured

LEMMA ContentsAreWell == ASSUME NEW c \in Contents PROVE ListsWell(c)
<1>1. MadeFrom(c)
  <2>1. c.kind \in OfOneSize \cup WithDataOnly \cup WithArrayOnly \cup WithItems
    BY DEF Contents, Of, WithItems
  <2> QED BY <2>1, ContentsAre, ContentsAreItemized DEF MadeFrom
<1>2. \/ c \in Of(OfOneSize, {0}, {0}, {<<>>}, {TRUE})
      \/ c \in Of(WithDataOnly, DataLengths, {0}, {<<>>}, {TRUE})
      \/ c \in Of(WithArrayOnly, {0}, Counts, {<<>>}, {TRUE})
      \/ c \in Of({"PACKET_OUT"}, DataLengths, {0}, Lists(Actions, MaxActions), BOOLEAN)
      \/ c \in Of({"FLOW_MOD"}, {0}, {0}, Lists(Actions, MaxActions), {TRUE})
      \/ c \in Of({"FLOW_REPLY"}, {0}, {0}, Flows, {TRUE})
      \/ c \in Of({"QUEUE_GET_CONFIG_REPLY"}, {0}, {0}, Queues, {TRUE})
  BY Zenon DEF Contents
<1>3. /\ c.kind = "FLOW_REPLY" => c.items \in Flows
      /\ c.kind = "QUEUE_GET_CONFIG_REPLY" => c.items \in Queues
  BY <1>2 DEF Of, OfOneSize, WithDataOnly, WithArrayOnly
<1> QED BY <1>1, <1>3, WholesAre DEF ListsWell, Flows, Queues, Walked


-----------------------------------------------------------------------------
(***************************************************************************)
(* The invariant of the readers: they convert what a creator or the        *)
(* validator has walked before, without looking at it again.               *)
(***************************************************************************)
\* The walk over a flow comes to its m-th action: a header fits in front of
\* the end the flow claims.
Comes(i, m) == 88 + Before(LengthsOf(i.parts), m - 1) + 8 <= i.len

\* An item that is converted without meeting an action of no known type.
FlowReadable(i) == \A m \in DOMAIN i.parts : Comes(i, m) => Known(i.parts[m])
Readable(i) ==
  /\ content.kind \in {"PACKET_OUT", "FLOW_MOD"} => Known(i)
  /\ IsFlow => FlowReadable(i)
ReadableUpTo(k) == \A j \in 1 .. k : Readable(Listed[j])
AllReadable == ReadableUpTo(Len(Listed))

\* Where a loop over the list is.
AtItem(k) ==
  /\ k <= Len(Listed)
  /\ todo = SubSeq(Listed, k + 1, Len(Listed))
  /\ item # NoItem => /\ content.kind \in Walked
                      /\ k < Len(Listed) /\ item = Listed[k + 1]
  /\ stage = "put" => ReadableUpTo(k)

\* Where the walk over a flow or queue is.
AtPart ==
  /\ part \in Nat /\ part # 0 /\ part <= Len(item.parts) + 1
  /\ remaining =
       Uint16(item.len - (HeaderOf + Before(LengthsOf(item.parts), part - 1)))
  /\ stage = "put" /\ IsFlow => \A m \in 1 .. part - 1 : Known(item.parts[m])

\* The flows of a received list that have been validated are readable.
FlowsRead(n) == \A j \in 1 .. n : FlowReadable(content.items[j])
ActionsRead(i) ==
  \/ FlowReadable(i)
  \/ \E m \in Nat : /\ m <= Len(i.parts)
                    /\ offset = Before(LengthsOf(i.parts), m)
                    /\ \A q \in 1 .. m : Known(i.parts[q])
FlowsChecked ==
  /\ content.kind = "FLOW_REPLY" /\ by = "FLOW_REPLY"
  /\ pc \in {"fixed", "flow", "actions"} =>
       /\ msg.header = 12 + SumOfLengths(content.items)
       /\ Len(lens) <= Len(content.items)
       /\ \A j \in 1 .. Len(lens) : lens[j] = content.items[j].len
  /\ pc = "flow" => FlowsRead(Len(lens))
  /\ pc = "actions" => /\ FlowsRead(Len(lens) - 1)
                       /\ length = Uint16(Last(lens) - 88)
                       /\ ActionsRead(content.items[Len(lens)])

ReadInv ==
  /\ stage # "any" => content \in Contents
  /\ stage \in {"call", "received", "made", "check", "accepted"} => item = NoItem
  /\ stage \in {"put", "get"} => /\ \E k \in Nat : AtItem(k)
                                 /\ item # NoItem => AtPart
  /\ stage \in {"made", "accepted", "get"} => AllReadable
  /\ stage = "received" => content \in ReceivedContents
  /\ stage = "check" => AllReadable \/ FlowsChecked

LEMMA SameContent ==
  ASSUME UNCHANGED content
  PROVE  /\ Listed' = Listed /\ HeaderOf' = HeaderOf /\ (IsFlow' <=> IsFlow)
         /\ \A i : Readable(i)' <=> Readable(i)
         /\ \A k : ReadableUpTo(k)' <=> ReadableUpTo(k)
         /\ AllReadable' <=> AllReadable
<1>1. Listed' = Listed
  BY DEF Listed
<1>2. HeaderOf' = HeaderOf /\ (IsFlow' <=> IsFlow)
  BY DEF HeaderOf, IsFlow
<1>3. \A i : Readable(i)' <=> Readable(i)
  BY <1>2 DEF Readable
<1>4. \A k : ReadableUpTo(k)' <=> ReadableUpTo(k)
  BY <1>1, <1>3 DEF ReadableUpTo
<1> QED BY <1>1, <1>2, <1>3, <1>4 DEF AllReadable

LEMMA ListedAre ==
  ASSUME content \in Contents
  PROVE  /\ \E S : Listed \in Seq(S)
         /\ content.kind \in Walked =>
              /\ Listed = content.items
              /\ \A k \in DOMAIN Listed : Measured(Listed[k])
         /\ content.kind \in Walked /\ ~IsFlow =>
              \A k \in DOMAIN Listed : \A m \in DOMAIN Listed[k].parts :
                Listed[k].parts[m].type \in DOMAIN PropertyStruct
         /\ HeaderOf = IF IsFlow THEN 88 ELSE 8
<1>1. ListsWell(content)
  BY ContentsAreWell
<1>2. PICK S : content.items \in Seq(S)
  BY <1>1 DEF ListsWell, MadeFrom, Itemized, ListOfLong
<1>3. \E T : Listed \in Seq(T)
  <2>1. <<>> \in Seq(S)
    OBVIOUS
  <2> QED BY <1>2, <2>1 DEF Listed
<1>4. content.kind \in Walked => Listed = content.items
  BY DEF Listed, Walked
<1>5. HeaderOf = IF IsFlow THEN 88 ELSE 8
  BY OfpAssertions DEF HeaderOf
<1> QED BY <1>1, <1>3, <1>4, <1>5 DEF ListsWell, Walked, IsFlow

LEMMA NextOfList ==
  ASSUME NEW S, NEW s \in Seq(S), NEW k \in Nat, k <= Len(s),
         NEW rest, rest = SubSeq(s, k + 1, Len(s))
  PROVE  /\ rest = <<>> => k = Len(s)
         /\ rest # <<>> => /\ k < Len(s) /\ k + 1 \in DOMAIN s
                          /\ Head(rest) = s[k + 1]
                          /\ Tail(rest) = SubSeq(s, (k + 1) + 1, Len(s))
<1> DEFINE n == Len(s)
<1>1. n \in Nat /\ DOMAIN s = 1 .. n /\ k <= n
  OBVIOUS
<1>2. rest \in Seq(S) /\ Len(rest) = n - k
  <2>1. Len(rest) = IF k + 1 <= n THEN n - (k + 1) + 1 ELSE 0
    OBVIOUS
  <2>2. rest \in Seq(S)
    OBVIOUS
  <2> HIDE DEF n
  <2> QED BY <2>1, <2>2, <1>1
<1>3. ASSUME k < n
      PROVE  Head(rest) = s[k + 1] /\ Tail(rest) = SubSeq(s, (k + 1) + 1, n)
  <2>1. k + 1 \in Nat /\ k + 1 <= Len(s)
    BY <1>3
  <2> QED BY <2>1
<1> HIDE DEF n
<1>4. rest = <<>> => k = n
  <2>1. rest = <<>> => Len(rest) = 0
    OBVIOUS
  <2> QED BY <2>1, <1>1, <1>2
<1>5. rest # <<>> => k < n
  <2>1. Len(rest) = 0 => rest = <<>>
    BY <1>2
  <2> QED BY <2>1, <1>1, <1>2
<1>6. k < n => k + 1 \in DOMAIN s
  BY <1>1
<1>7. n = Len(s)
  BY DEF n
<1> QED BY <1>3, <1>4, <1>5, <1>6, <1>7

\* What a walk has left before and behind a part, on 16 bits.
LEMMA LeftIs ==
  /\ \A a, b \in Int : Uint16(Uint16(a) - b) = Uint16(a - b)
  /\ \A a \in Nat : a <= Max16 => Uint16(a) = a
  /\ \A a \in Int : Uint16(a) \in Nat /\ Uint16(a) <= Max16
BY DEF Uint16, Max16

LEMMA BeforeGrows ==
  ASSUME NEW f \in Seq(Nat), NEW j \in Nat, NEW k \in Nat, j <= k, k <= Len(f)
  PROVE  Before(f, j) <= Before(f, k)
<1> DEFINE g == SubSeq(f, 1, k)
<1>1. g \in Seq(Nat) /\ Len(g) = k
  OBVIOUS
<1>2. SubSeq(g, 1, j) = SubSeq(f, 1, j)
  OBVIOUS
<1> HIDE DEF g
<1>3. Before(g, j) <= Sum(g)
  BY <1>1, BeforeIsLess
<1> QED BY <1>2, <1>3 DEF Before, g

-----------------------------------------------------------------------------
(***************************************************************************)
(* The walks over lists and over the parts of their items.                 *)
(***************************************************************************)
\* Where a part begins.
LEMMA PositionIs ==
  ASSUME NEW base \in Nat, ListOfLong(item.parts), part \in Nat, part # 0,
         part <= Len(item.parts) + 1
  PROVE  /\ LengthsOf(item.parts) \in Seq(Nat)
         /\ Len(LengthsOf(item.parts)) = Len(item.parts)
         /\ DOMAIN item.parts = 1 .. Len(item.parts)
         /\ Before(LengthsOf(item.parts), part - 1) \in Nat
         /\ Position(base) = base + Before(LengthsOf(item.parts), part - 1)
<1> DEFINE s == item.parts
           k == part - 1
           f == LengthsOf(s)
<1>1. PICK S : s \in Seq(S) /\ \A i \in S : Long(i)
  BY DEF ListOfLong
<1>2. k \in Nat /\ k <= Len(s) /\ Len(s) \in Nat
  BY <1>1
<1>3. f \in Seq(Nat) /\ Len(f) = Len(s) /\ DOMAIN s = 1 .. Len(s)
  <2>1. f \in Seq(Nat)
    BY ListsHaveLengths
  <2>2. DOMAIN s = 1 .. Len(s)
    BY <1>1
  <2>3. f = [i \in 1 .. Len(s) |-> s[i].len]
    BY <2>2 DEF LengthsOf
  <2> HIDE DEF f
  <2>4. DOMAIN f = 1 .. Len(f) /\ Len(f) \in Nat
    BY <2>1
  <2> QED BY <1>2, <2>1, <2>2, <2>3, <2>4
<1>4. Position(base) = SumFrom(base, SubSeq(s, 1, k))
  BY DEF Position, SumFrom
<1>5. LengthsOf(SubSeq(s, 1, k)) = SubSeq(f, 1, k)
  <2>1. SubSeq(s, 1, k) = [i \in 1 .. k |-> s[i]] /\ DOMAIN f = DOMAIN s
        /\ \A i \in 1 .. k : i \in DOMAIN s
    BY <1>1, <1>2 DEF LengthsOf
  <2>2. SubSeq(f, 1, k) = [i \in 1 .. k |-> f[i]]
    <3> HIDE DEF f
    <3> QED BY <1>2, <1>3
  <2> QED BY <2>1, <2>2 DEF LengthsOf
<1>6. SumFrom(base, SubSeq(s, 1, k)) = base + Before(f, k) /\ Before(f, k) \in Nat
  <2> HIDE DEF f
  <2>1. SubSeq(f, 1, k) \in Seq(Nat)
    BY <1>2, <1>3
  <2>2. Before(f, k) \in Nat
    BY <1>2, <1>3, BeforeMore
  <2> QED BY <1>5, <2>1, <2>2, SumFromIs DEF Before
<1> QED BY <1>3, <1>4, <1>6

\* The walk goes on with a part that is there, within what its item claims.
LEMMA GoesOnInside ==
  ASSUME content \in Contents, Measured(item), AtPart, MoreParts, ~IsAstray(HeaderOf)
  PROVE  /\ part \in DOMAIN item.parts
         /\ IsFlow => Comes(item, part)
<1> DEFINE b == Before(LengthsOf(item.parts), part - 1)
           p == HeaderOf + b
<1>1. HeaderOf \in Nat /\ (IsFlow => HeaderOf = 88)
  BY ListedAre
<1>2. /\ b \in Nat /\ Position(HeaderOf) = p
      /\ DOMAIN item.parts = 1 .. Len(item.parts) /\ Len(item.parts) \in Nat
  <2>1. Len(item.parts) \in Nat
    BY DEF Measured, ListOfLong
  <2> QED BY <1>1, <2>1, PositionIs DEF AtPart, Measured
<1>3. ~(part > Len(item.parts)) /\ ~(p >= item.len)
  BY <1>2 DEF IsAstray
<1>4. /\ item.len \in Nat /\ item.len <= Max16
      /\ remaining = Uint16(item.len - p) /\ remaining >= 8
  BY DEF Measured, Long, AtPart, MoreParts
<1> HIDE DEF b
<1>5. item.len - p \in Nat /\ item.len - p <= Max16
  BY <1>1, <1>2, <1>3, <1>4, Max16Is
<1>6. item.len - p >= 8
  BY <1>4, <1>5, LeftIs
<1>7. part \in DOMAIN item.parts
  BY <1>2, <1>3 DEF AtPart
<1>8. IsFlow => 88 + b + 8 <= item.len
  BY <1>1, <1>2, <1>4, <1>6
<1> QED BY <1>7, <1>8 DEF Comes, b

LEMMA PartBehind ==
  ASSUME content \in Contents, Measured(item), AtPart, part \in DOMAIN item.parts,
         NextPart(item.parts[part].len), UNCHANGED <<content, stage>>,
         stage = "put" /\ IsFlow => Known(item.parts[part])
  PROVE  AtPart'
<1> DEFINE f == LengthsOf(item.parts)
           h == HeaderOf
           n == item.parts[part].len
<1>1. h \in Nat
  BY ListedAre
<1>2. /\ f \in Seq(Nat) /\ Len(f) = Len(item.parts) /\ Len(item.parts) \in Nat
      /\ DOMAIN item.parts = 1 .. Len(item.parts) /\ Before(f, part - 1) \in Nat
  <2>1. Len(item.parts) \in Nat
    BY DEF Measured, ListOfLong
  <2> QED BY <1>1, <2>1, PositionIs DEF AtPart, Measured
<1>3. f[part] = n /\ part \in Nat /\ part # 0 /\ part <= Len(f)
  BY <1>2 DEF LengthsOf, AtPart
<1>4. n \in Nat /\ Before(f, part) = Before(f, part - 1) + n
  <2> HIDE DEF f, n
  <2>1. part - 1 \in Nat /\ part - 1 < Len(f) /\ (part - 1) + 1 = part
        /\ part - 1 <= Len(f)
    BY <1>2, <1>3
  <2>2. Before(f, (part - 1) + 1) = Before(f, part - 1) + f[(part - 1) + 1]
    BY <2>1, <1>2, BeforeMore
  <2>3. f[part] \in Nat
    BY <1>2, <1>3
  <2> QED BY <2>1, <2>2, <2>3, <1>3
<1>5. /\ part' = part + 1 /\ item' = item
      /\ remaining' = Uint16(remaining - n)
  BY DEF NextPart
<1>6. remaining' = Uint16(item.len - (h + Before(f, part)))
  <2> DEFINE b == Before(f, part - 1)
  <2>1. remaining = Uint16(item.len - (h + b)) /\ item.len \in Nat /\ b \in Nat
    BY <1>2 DEF AtPart, Measured, Long
  <2> HIDE DEF f, h, n, b
  <2>2. item.len - (h + b) \in Int /\ n \in Int
    BY <1>1, <1>4, <2>1
  <2>3. remaining' = Uint16((item.len - (h + b)) - n)
    BY <1>5, <2>1, <2>2, LeftIs
  <2>4. (item.len - (h + b)) - n = item.len - (h + (b + n))
    BY <1>1, <1>4, <2>1
  <2>5. Before(f, part) = b + n
    BY <1>4 DEF b
  <2> QED BY <2>3, <2>4, <2>5
<1>7. ASSUME stage = "put", IsFlow
      PROVE  \A m \in 1 .. part : Known(item.parts[m])
  <2>1. \A m \in 1 .. part - 1 : Known(item.parts[m])
    BY <1>7 DEF AtPart
  <2>2. \A m \in 1 .. part : m = part \/ m \in 1 .. part - 1
    BY <1>3
  <2> QED BY <1>7, <2>1, <2>2
<1>8. (stage = "put" /\ IsFlow)' => stage = "put" /\ IsFlow
  BY SameContent
<1>9. HeaderOf' = h /\ LengthsOf(item.parts)' = f
  BY <1>5, SameContent
<1>10. part' \in Nat /\ part' # 0 /\ part' <= Len(item.parts) + 1 /\ part' - 1 = part
  BY <1>2, <1>3, <1>5
<1> HIDE DEF f, h
<1> QED BY <1>5, <1>6, <1>7, <1>8, <1>9, <1>10 DEF AtPart

\* A walk over a flow that ends has met every action it comes to.
LEMMA WalkedIsReadable ==
  ASSUME content \in Contents, Measured(item), AtPart, item # NoItem, ~MoreParts,
         IsFlow, stage = "put"
  PROVE  FlowReadable(item)
<1> DEFINE f == LengthsOf(item.parts)
           b == Before(f, part - 1)
<1>1. /\ f \in Seq(Nat) /\ Len(f) = Len(item.parts) /\ Len(item.parts) \in Nat
      /\ DOMAIN item.parts = 1 .. Len(item.parts) /\ b \in Nat
  <2>1. Len(item.parts) \in Nat
    BY DEF Measured, ListOfLong
  <2> QED BY <2>1, PositionIs DEF AtPart, Measured
<1>2. /\ item.len \in Nat /\ item.len <= Max16 /\ HeaderOf = 88
      /\ remaining = Uint16(item.len - (88 + b))
      /\ part \in Nat /\ part # 0 /\ part <= Len(item.parts) + 1
  BY ListedAre DEF Measured, Long, AtPart
<1>3. ~(item.len - (88 + b) >= 8)
  <2> HIDE DEF b
  <2>1. ~(remaining >= 8)
    BY DEF MoreParts
  <2> SUFFICES ASSUME item.len - (88 + b) >= 8 PROVE FALSE
    OBVIOUS
  <2>2. item.len - (88 + b) \in Nat /\ item.len - (88 + b) <= Max16
    BY <1>1, <1>2, Max16Is
  <2>3. remaining = item.len - (88 + b)
    BY <2>2, <1>2, LeftIs
  <2> QED BY <2>1, <2>3
<1>4. ASSUME NEW m \in DOMAIN item.parts, Comes(item, m) PROVE Known(item.parts[m])
  <2>1. CASE m < part
    <3>1. m \in 1 .. part - 1
      BY <1>1, <1>2, <2>1
    <3> QED BY <3>1 DEF AtPart
  <2>2. CASE part <= m
    <3> DEFINE c == Before(f, m - 1)
    <3>1. b <= c /\ c \in Nat
      <4> HIDE DEF f
      <4>1. part - 1 \in Nat /\ m - 1 \in Nat /\ part - 1 <= m - 1 /\ m - 1 <= Len(f)
        BY SMTT(20), <1>1, <1>2, <2>2
      <4> QED BY <4>1, <1>1, BeforeGrows, BeforeMore
    <3>2. 88 + c + 8 <= item.len
      BY <1>4 DEF Comes
    <3> HIDE DEF b, c
    <3> QED BY <1>1, <1>2, <1>3, <3>1, <3>2
  <2> QED BY <2>1, <2>2, <1>1, <1>2
<1> QED BY <1>4 DEF FlowReadable

LEMMA WalkBegins ==
  ASSUME content \in Contents, NEW i, Measured(i), BeginWalk(i, HeaderOf),
         UNCHANGED <<content, stage>>
  PROVE  AtPart'
<1>1. /\ item' = i /\ part' = 1 /\ remaining' = Uint16(i.len - HeaderOf)
  BY DEF BeginWalk
<1>2. HeaderOf \in Nat /\ HeaderOf' = HeaderOf
  BY ListedAre, SameContent
<1>3. Len(i.parts) \in Nat /\ Before(LengthsOf(i.parts), 0) = 0
  <2>1. LengthsOf(i.parts) \in Seq(Nat) /\ Len(i.parts) \in Nat
    BY ListsHaveLengths DEF Measured, ListOfLong
  <2>2. 0 <= Len(LengthsOf(i.parts))
    BY <2>1
  <2> QED BY <2>1, <2>2, BeforeMore
<1>4. part' \in Nat /\ part' # 0 /\ part' <= Len(i.parts) + 1 /\ part' - 1 = 0
      /\ 1 .. part' - 1 = {}
  BY <1>1, <1>3
<1>5. HeaderOf + Before(LengthsOf(i.parts), 0) = HeaderOf
  BY <1>2, <1>3
<1> QED BY <1>1, <1>2, <1>4, <1>5 DEF AtPart

LEMMA NextItem ==
  ASSUME content \in Contents, NEW k \in Nat, AtItem(k), todo # <<>>
  PROVE  /\ k < Len(Listed) /\ k + 1 \in DOMAIN Listed
         /\ Head(todo) = Listed[k + 1]
         /\ Tail(todo) = SubSeq(Listed, (k + 1) + 1, Len(Listed))
         /\ content.kind \in Walked => Measured(Head(todo))
<1>1. PICK S : Listed \in Seq(S)
  BY ListedAre
<1>2. k <= Len(Listed) /\ todo = SubSeq(Listed, k + 1, Len(Listed))
  BY DEF AtItem
<1>3. /\ k < Len(Listed) /\ k + 1 \in DOMAIN Listed
      /\ Head(todo) = Listed[k + 1]
      /\ Tail(todo) = SubSeq(Listed, (k + 1) + 1, Len(Listed))
  BY <1>1, <1>2, NextOfList
<1> QED BY <1>3, ListedAre

LEMMA InWalk ==
  ASSUME content \in Contents, NEW k \in Nat, AtItem(k), item # NoItem
  PROVE  /\ todo # <<>> /\ k + 1 \in DOMAIN Listed /\ item = Listed[k + 1]
         /\ Measured(item) /\ content.kind \in Walked
         /\ ~IsFlow => \A m \in DOMAIN item.parts :
                         item.parts[m].type \in DOMAIN PropertyStruct
<1>1. PICK S : Listed \in Seq(S)
  BY ListedAre
<1>2. /\ k <= Len(Listed) /\ todo = SubSeq(Listed, k + 1, Len(Listed))
      /\ content.kind \in Walked /\ k < Len(Listed) /\ item = Listed[k + 1]
  BY DEF AtItem
<1>3. todo # <<>>
  <2>1. Len(Listed) \in Nat
    BY <1>1
  <2>2. k # Len(Listed)
    BY <1>2, <2>1
  <2> QED BY <1>1, <1>2, <2>2, NextOfList
<1>4. k + 1 \in DOMAIN Listed
  BY <1>1, <1>2, <1>3, NextOfList
<1> QED BY <1>2, <1>3, <1>4, ListedAre

\* The loop goes on behind an item, or stays.
LEMMA LoopGoesOn ==
  ASSUME content \in Contents, NEW k \in Nat, AtItem(k), todo # <<>>,
         todo' = Tail(todo), item' = NoItem, UNCHANGED <<content, stage>>,
         stage = "put" => Readable(Listed[k + 1])
  PROVE  AtItem(k + 1)'
<1>1. /\ k < Len(Listed)
      /\ todo' = SubSeq(Listed, (k + 1) + 1, Len(Listed))
  BY NextItem
<1>2. k + 1 <= Len(Listed)
  <2>1. PICK S : Listed \in Seq(S)
    BY ListedAre
  <2>2. Len(Listed) \in Nat
    BY <2>1
  <2> QED BY <1>1, <2>2
<1>3. stage = "put" => ReadableUpTo(k + 1)
  <2> HAVE stage = "put"
  <2>1. ReadableUpTo(k) /\ Readable(Listed[k + 1])
    BY DEF AtItem
  <2>2. \A j \in 1 .. k + 1 : j = k + 1 \/ j \in 1 .. k
    OBVIOUS
  <2> QED BY <2>1, <2>2 DEF ReadableUpTo
<1>4. /\ Listed' = Listed
      /\ ReadableUpTo(k + 1)' <=> ReadableUpTo(k + 1)
  BY SameContent
<1> QED BY <1>1, <1>2, <1>3, <1>4 DEF AtItem

LEMMA LoopStays ==
  ASSUME NEW k \in Nat, AtItem(k), UNCHANGED <<content, todo, item>>,
         stage' = "put" => stage = "put"
  PROVE  AtItem(k)'
<1>1. Listed' = Listed /\ (ReadableUpTo(k)' <=> ReadableUpTo(k))
  BY SameContent
<1> QED BY <1>1 DEF AtItem

\* What is left to show of a step in the loop over a list.
LEMMA LoopKeeps ==
  ASSUME ReadInv, stage \in {"put", "get"}, UNCHANGED content,
         stage' \in {stage, "died", "astray"},
         stage' = stage => /\ \E k \in Nat : AtItem(k)'
                           /\ item' # NoItem => AtPart'
  PROVE  ReadInv'
<1>1. content \in Contents /\ (stage = "get" => AllReadable)
  BY DEF ReadInv
<1>2. AllReadable' <=> AllReadable
  BY SameContent
<1>3. content' \in Contents
  BY <1>1
<1> QED BY <1>1, <1>2, <1>3 DEF ReadInv

LEMMA CreateReads ==
  ASSUME ReadInv, Create
  PROVE  ReadInv'
<1>1. /\ content \in Contents /\ item = NoItem /\ UNCHANGED <<content, item>>
  BY DEF ReadInv, Create, walk_vars
<1>2. CASE stage' = "refused"
  BY <1>1, <1>2 DEF ReadInv
<1>3. CASE stage' = "put"
  <2>1. todo' = Listed
    BY <1>3 DEF Create
  <2>2. PICK S : Listed \in Seq(S)
    BY <1>1, ListedAre
  <2>3. 0 <= Len(Listed) /\ Listed = SubSeq(Listed, 0 + 1, Len(Listed))
    BY <2>2
  <2>4. ReadableUpTo(0)' /\ Listed' = Listed
    BY <1>1, SameContent DEF ReadableUpTo
  <2>5. AtItem(0)'
    BY <1>1, <2>1, <2>3, <2>4 DEF AtItem
  <2> QED BY <1>1, <1>3, <2>5 DEF ReadInv
<1> QED BY <1>2, <1>3 DEF Create

LEMMA PutActionReads ==
  ASSUME ReadInv, PutAction
  PROVE  ReadInv'
<1>1. /\ stage = "put" /\ todo # <<>> /\ content.kind \in {"PACKET_OUT", "FLOW_MOD"}
      /\ UNCHANGED <<content, item>> /\ content \in Contents
  BY DEF PutAction, walk_vars, ReadInv
<1>2. PICK k \in Nat : AtItem(k)
  BY <1>1 DEF ReadInv
<1>3. item = NoItem
  BY <1>1, <1>2 DEF AtItem, Walked
<1>4. CASE stage' = "died"
  BY <1>1, <1>4, LoopKeeps
<1>5. CASE stage' # "died"
  <2>1. Known(Head(todo)) /\ todo' = Tail(todo) /\ UNCHANGED stage
    BY <1>1, <1>5 DEF PutAction
  <2>2. Readable(Listed[k + 1])
    BY <1>1, <1>2, <2>1, NextItem DEF Readable, IsFlow
  <2>3. AtItem(k + 1)'
    BY <1>1, <1>2, <1>3, <2>1, <2>2, LoopGoesOn
  <2>4. k + 1 \in Nat
    OBVIOUS
  <2> QED BY <1>1, <1>3, <2>1, <2>3, <2>4, LoopKeeps
<1> QED BY <1>4, <1>5

LEMMA PutItemReads ==
  ASSUME ReadInv, PutItem \/ GetItem
  PROVE  ReadInv'
<1>1. /\ stage \in {"put", "get"} /\ todo # <<>> /\ item = NoItem
      /\ content.kind \in Walked
      /\ UNCHANGED <<content, stage, todo>> /\ content \in Contents
  BY DEF PutItem, GetItem, ReadInv, Walked
<1>2. PICK k \in Nat : AtItem(k)
  BY <1>1 DEF ReadInv
<1>3. BeginWalk(Head(todo), HeaderOf)
  BY DEF PutItem, GetItem, hton_flow_stats, ntoh_flow_stats, hton_packet_queue,
         ntoh_packet_queue, HeaderOf
<1>4. /\ k < Len(Listed) /\ Head(todo) = Listed[k + 1] /\ Measured(Head(todo))
  BY <1>1, <1>2, NextItem
<1>5. AtPart'
  BY <1>1, <1>3, <1>4, WalkBegins
<1>6. item' = Listed[k + 1]
  BY <1>3, <1>4 DEF BeginWalk
<1>7. AtItem(k)'
  <2>1. Listed' = Listed /\ (ReadableUpTo(k)' <=> ReadableUpTo(k))
    BY <1>1, SameContent
  <2> QED BY <1>1, <1>2, <1>4, <1>6, <2>1 DEF AtItem
<1> QED BY <1>1, <1>5, <1>7, LoopKeeps

\* The part that a walk goes on with can be converted.
LEMMA PartCanBeConverted ==
  ASSUME ReadInv, stage \in {"put", "get"}, MoreParts, ~IsAstray(HeaderOf)
  PROVE  /\ part \in DOMAIN item.parts
         /\ ~IsFlow => item.parts[part].type \in DOMAIN PropertyStruct
         /\ IsFlow /\ stage = "get" => Known(item.parts[part])
<1>1. content \in Contents /\ AtPart /\ item # NoItem
  BY DEF ReadInv, MoreParts
<1>2. PICK k \in Nat : AtItem(k)
  BY DEF ReadInv
<1>3. /\ k + 1 \in DOMAIN Listed /\ item = Listed[k + 1] /\ Measured(item)
      /\ ~IsFlow => \A m \in DOMAIN item.parts :
                      item.parts[m].type \in DOMAIN PropertyStruct
  BY <1>1, <1>2, InWalk
<1>4. part \in DOMAIN item.parts /\ (IsFlow => Comes(item, part))
  BY <1>1, <1>3, GoesOnInside
<1>5. ASSUME IsFlow, stage = "get" PROVE Known(item.parts[part])
  <2>1. k + 1 \in 1 .. Len(Listed)
    <3>1. PICK S : Listed \in Seq(S)
      BY <1>1, ListedAre
    <3> QED BY <3>1, <1>3
  <2>2. FlowReadable(item)
    BY <1>3, <1>5, <2>1 DEF ReadInv, AllReadable, ReadableUpTo, Readable
  <2> QED BY <1>4, <1>5, <2>2 DEF FlowReadable
<1> QED BY <1>3, <1>4, <1>5

LEMMA PutPartReads ==
  ASSUME ReadInv, PutPart \/ GetPart
  PROVE  ReadInv'
<1>1. /\ stage \in {"put", "get"} /\ MoreParts /\ item # NoItem
      /\ UNCHANGED <<content, todo>> /\ content \in Contents /\ AtPart
  BY DEF PutPart, GetPart, MoreParts, ReadInv
<1>2. PICK k \in Nat : AtItem(k)
  BY <1>1 DEF ReadInv
<1>3. \/ stage' \in {"astray", "died"}
      \/ /\ ~IsAstray(HeaderOf) /\ UNCHANGED stage
         /\ NextPart(item.parts[part].len)
         /\ stage = "put" /\ IsFlow => Known(item.parts[part])
  BY <1>1 DEF PutPart, GetPart
<1>4. CASE stage' \in {"astray", "died"}
  BY <1>1, <1>4, LoopKeeps
<1>5. CASE stage' \notin {"astray", "died"}
  <2>1. /\ ~IsAstray(HeaderOf) /\ UNCHANGED stage
        /\ NextPart(item.parts[part].len)
        /\ stage = "put" /\ IsFlow => Known(item.parts[part])
    BY <1>3, <1>5
  <2>2. part \in DOMAIN item.parts
    BY <1>1, <2>1, PartCanBeConverted
  <2>3. AtPart'
    BY <1>1, <1>2, <2>1, <2>2, InWalk, PartBehind
  <2>4. item' = item
    BY <2>1 DEF NextPart
  <2>5. AtItem(k)'
    BY <1>1, <1>2, <2>1, <2>4, LoopStays
  <2> QED BY <1>1, <2>1, <2>3, <2>5, LoopKeeps
<1> QED BY <1>4, <1>5

LEMMA ItemEndReads ==
  ASSUME ReadInv, PutItemEnd \/ GetItemEnd
  PROVE  ReadInv'
<1>1. /\ stage \in {"put", "get"} /\ ~MoreParts /\ item # NoItem
      /\ todo' = Tail(todo) /\ item' = NoItem
      /\ UNCHANGED <<content, stage>> /\ content \in Contents /\ AtPart
  BY DEF PutItemEnd, GetItemEnd, EndWalk, ReadInv
<1>2. PICK k \in Nat : AtItem(k)
  BY <1>1 DEF ReadInv
<1>3. todo # <<>> /\ item = Listed[k + 1] /\ Measured(item) /\ content.kind \in Walked
  BY <1>1, <1>2, InWalk
<1>4. stage = "put" => Readable(Listed[k + 1])
  BY <1>1, <1>3, WalkedIsReadable DEF Readable, Walked
<1>5. AtItem(k + 1)' /\ k + 1 \in Nat
  BY <1>1, <1>2, <1>3, <1>4, LoopGoesOn
<1> QED BY <1>1, <1>5, LoopKeeps

LEMMA MadeReads ==
  ASSUME ReadInv, Made
  PROVE  ReadInv'
<1>1. /\ stage = "put" /\ todo = <<>> /\ stage' = "made"
      /\ UNCHANGED <<content, item>> /\ content \in Contents
  BY DEF Made, walk_vars, ReadInv
<1>2. PICK k \in Nat : AtItem(k)
  BY <1>1 DEF ReadInv
<1>3. item = NoItem
  BY <1>1, <1>2, InWalk
<1>4. k = Len(Listed)
  <2>1. PICK S : Listed \in Seq(S)
    BY <1>1, ListedAre
  <2> QED BY <1>1, <1>2, <2>1, NextOfList DEF AtItem
<1>5. AllReadable
  BY <1>1, <1>2, <1>4 DEF AtItem, AllReadable
<1>6. AllReadable'
  BY <1>1, <1>5, SameContent
<1> QED BY <1>1, <1>3, <1>6 DEF ReadInv

LEMMA GetStructureReads ==
  ASSUME ReadInv, GetStructure
  PROVE  ReadInv'
<1>1. /\ content \in Contents /\ item = NoItem /\ UNCHANGED <<content, item>>
      /\ stage = "accepted" /\ stage' = "get" /\ todo' = Listed
  BY DEF ReadInv, GetStructure, walk_vars
<1>2. PICK S : Listed \in Seq(S)
  BY <1>1, ListedAre
<1>3. 0 <= Len(Listed) /\ Listed = SubSeq(Listed, 0 + 1, Len(Listed))
  BY <1>2
<1>4. Listed' = Listed /\ (AllReadable' <=> AllReadable)
  BY <1>1, SameContent
<1>5. AtItem(0)'
  BY <1>1, <1>3, <1>4 DEF AtItem
<1> QED BY <1>1, <1>4, <1>5 DEF ReadInv

LEMMA GetActionReads ==
  ASSUME ReadInv, GetAction
  PROVE  ReadInv'
<1>1. /\ stage = "get" /\ todo # <<>> /\ content.kind \in {"PACKET_OUT", "FLOW_MOD"}
      /\ todo' = Tail(todo)
      /\ UNCHANGED <<content, stage, item>> /\ content \in Contents
  BY DEF GetAction, walk_vars, ReadInv
<1>2. PICK k \in Nat : AtItem(k)
  BY <1>1 DEF ReadInv
<1>3. item = NoItem
  BY <1>1, <1>2 DEF AtItem, Walked
<1>4. AtItem(k + 1)' /\ k + 1 \in Nat
  BY <1>1, <1>2, <1>3, LoopGoesOn
<1> QED BY <1>1, <1>3, <1>4, LoopKeeps

LEMMA GotReads ==
  ASSUME ReadInv, Got
  PROVE  ReadInv'
BY DEF Got, ReadInv

-----------------------------------------------------------------------------
(***************************************************************************)
(* A received list of flows before it is validated.                        *)
(***************************************************************************)
\* The fixed part of a reply of statistics.
LEMMA EndOfReply == EndOf(ofp_stats_reply) = 12
<1> DEFINE s == ofp_stats_request
           f == WidthsOf(s)
           more == <<u16("type"), u16("flags")>>
<1>1. Each(u16, <<"type", "flags">>) = more
  <2> DEFINE names == <<"type", "flags">>
             t == Each(u16, names)
  <2>1. t = [i \in DOMAIN names |-> u16(names[i])]
    BY DEF Each
  <2>2. DOMAIN names = 1 .. 2 /\ names[1] = "type" /\ names[2] = "flags"
    OBVIOUS
  <2>3. t = [i \in 1 .. 2 |-> u16(names[i])]
    BY <2>1, <2>2
  <2> HIDE DEF t, names
  <2>4. /\ t[1] = u16("type") /\ t[2] = u16("flags")
        /\ t \in Seq({u16("type"), u16("flags")}) /\ Len(t) = 2
    <3>1. \A i \in 1 .. 2 : u16(names[i]) \in {u16("type"), u16("flags")}
      BY <2>2
    <3> QED BY <2>2, <2>3, <3>1
  <2>5. t = more
    BY <2>4
  <2> QED BY <2>5 DEF t, names
<1>2. s = ofp_header \o more
  BY <1>1 DEF ofp_stats_request
<1>3. /\ DOMAIN s = 1 .. 6
      /\ s[1].width * s[1].count = 1 /\ s[2].width * s[2].count = 1
      /\ s[3].width * s[3].count = 2 /\ s[4].width * s[4].count = 4
      /\ s[5].width * s[5].count = 2 /\ s[6].width * s[6].count = 2
  <2> DEFINE h == ofp_header
             S == {u8("version"), u8("type"), u16("length"), u32("xid"),
                   u16("type"), u16("flags")}
  <2>1. /\ u8("version") \in S /\ u8("type") \in S /\ u16("length") \in S
        /\ u32("xid") \in S /\ u16("type") \in S /\ u16("flags") \in S
    OBVIOUS
  <2>2. /\ u8("version").width * u8("version").count = 1
        /\ u8("type").width * u8("type").count = 1
        /\ u16("length").width * u16("length").count = 2
        /\ u32("xid").width * u32("xid").count = 4
        /\ u16("type").width * u16("type").count = 2
        /\ u16("flags").width * u16("flags").count = 2
    BY DEF u8, u16, u32, Field
  <2> HIDE DEF S, s
  <2>3. /\ h \in Seq(S) /\ Len(h) = 4 /\ h[1] = u8("version") /\ h[2] = u8("type")
        /\ h[3] = u16("length") /\ h[4] = u32("xid")
    BY <2>1 DEF ofp_header
  <2>4. /\ more \in Seq(S) /\ Len(more) = 2
        /\ more[1] = u16("type") /\ more[2] = u16("flags")
    BY <2>1
  <2> HIDE DEF h, more
  <2>5. s = h \o more
    BY <1>2 DEF h
  <2>6. /\ DOMAIN s = 1 .. 6 /\ s[1] = h[1] /\ s[2] = h[2] /\ s[3] = h[3]
        /\ s[4] = h[4] /\ s[5] = more[1] /\ s[6] = more[2]
    <3>1. /\ s \in Seq(S) /\ Len(s) = Len(h) + Len(more)
          /\ \A i \in 1 .. Len(h) + Len(more) :
               s[i] = IF i <= Len(h) THEN h[i] ELSE more[i - Len(h)]
      BY Zenon, <2>3, <2>4, <2>5, ConcatProperties
    <3>2. DOMAIN s = 1 .. 6
      BY <2>3, <2>4, <3>1
    <3>3. \A i \in 1 .. 6 : s[i] = IF i <= 4 THEN h[i] ELSE more[i - 4]
      BY <2>3, <2>4, <3>1
    <3> QED BY <3>2, <3>3
  <2> QED BY <2>2, <2>3, <2>4, <2>6
<1>4. /\ f \in Seq(Nat) /\ Len(f) = 6
      /\ f[1] = 1 /\ f[2] = 1 /\ f[3] = 2 /\ f[4] = 4 /\ f[5] = 2 /\ f[6] = 2
  <2> HIDE DEF s
  <2>1. f = [i \in 1 .. 6 |-> s[i].width * s[i].count]
    BY <1>3 DEF WidthsOf
  <2>2. \A i \in 1 .. 6 : s[i].width * s[i].count \in Nat
    BY <1>3
  <2> QED BY <1>3, <2>1, <2>2
<1>5. EndOf(s) = Sum(f)
  BY <1>4, EndOfIs
<1> HIDE DEF f
<1>6. /\ Before(f, 0) = 0 /\ Before(f, 6) = Sum(f)
      /\ \A k \in Nat : k < 6 => /\ Before(f, k) \in Nat
                               /\ Before(f, k + 1) = Before(f, k) + f[k + 1]
  <2>1. \A k \in Nat : k < 6 => k <= Len(f) /\ k < Len(f)
    BY <1>4
  <2>2. 6 <= Len(f) /\ 6 = Len(f) /\ 0 <= Len(f)
    BY <1>4
  <2>3. Before(f, 0) = 0 /\ Before(f, 6) = Sum(f)
    BY <1>4, <2>2, BeforeMore
  <2> QED BY <1>4, <2>1, <2>3, BeforeMore
<1>7. Sum(f) = 12
  <2>1. \A k \in Nat, n \in Nat :
          k < 6 /\ n = k + 1 => Before(f, n) = Before(f, k) + f[n]
    BY <1>6
  <2>2. /\ Before(f, 1) = Before(f, 0) + f[1] /\ Before(f, 2) = Before(f, 1) + f[2]
        /\ Before(f, 3) = Before(f, 2) + f[3] /\ Before(f, 4) = Before(f, 3) + f[4]
        /\ Before(f, 5) = Before(f, 4) + f[5] /\ Before(f, 6) = Before(f, 5) + f[6]
    BY <2>1
  <2>3. /\ Before(f, 0) = 0 /\ Before(f, 6) = Sum(f)
        /\ f[1] = 1 /\ f[2] = 1 /\ f[3] = 2 /\ f[4] = 4 /\ f[5] = 2 /\ f[6] = 2
    BY <1>4, <1>6
  <2> QED BY <2>2, <2>3
<1> QED BY <1>5, <1>7 DEF ofp_stats_reply

LEMMA NeededOfFlows ==
  ASSUME content \in Contents, IsFlow
  PROVE  NeededLength(content) = 12 + SumOfLengths(content.items)
<1> DEFINE e == EmptyOf(content)
<1>1. Content(content) /\ content.data = 0
  BY ContentsAre DEF Contents, Of, IsFlow, OfOneSize, WithDataOnly, WithArrayOnly
<1>2. e.kind = "FLOW_REPLY" /\ e.items = <<>>
  BY <1>1 DEF EmptyOf, Content, IsFlow
<1>3. LengthsOf(<<>>) = <<>> /\ ListLength(<<>>) = 0
  <2>1. LengthsOf(<<>>) = <<>>
    BY DEF LengthsOf
  <2> QED BY <2>1, NothingIsMeasured, ListLengthIs, SumOfNone, WrapsAgain
<1> HIDE DEF e
<1>4. PlanOf(e) = WithList(12, <<>>, 0)
  BY <1>2, EndOfReply DEF PlanOf, cc_create_flow_stats_reply
<1>5. PlanOf(e).length = 12
  <2>1. Uint16(0) = 0 /\ Uint16(12 + 0 + 0) = 12
    BY DEF Uint16, Max16
  <2> QED BY <1>3, <1>4, <2>1 DEF WithList, cc_create_header
<1>6. SumOfLengths(content.items) \in Nat
  BY <1>1, SumOfLengthsIs DEF Content
<1>7. content.kind \notin WithArrayOnly
  BY DEF IsFlow, WithArrayOnly
<1> QED BY <1>1, <1>5, <1>6, <1>7 DEF NeededLength, e

LEMMA HandReads ==
  ASSUME ReadInv, WireInv, Hand
  PROVE  ReadInv'
<1>1. /\ stage \in {"made", "received"} /\ stage' = "check"
      /\ content \in Contents /\ item = NoItem /\ UNCHANGED <<content, item>>
      /\ by' = content.kind /\ pc' = "fixed" /\ UNCHANGED lens
  BY DEF Hand, ReadInv, walk_vars, walk
<1>2. lens = <<>>
  BY <1>1 DEF WireInv, Making, CheckIdle
<1>3. AllReadable' <=> AllReadable
  BY <1>1, SameContent
<1>4. CASE AllReadable
  BY <1>1, <1>3, <1>4 DEF ReadInv
<1>5. CASE ~AllReadable
  <2>1. stage = "received" /\ content.kind \in Walked
    BY <1>1, <1>5 DEF ReadInv, ReceivedContents
  <2>2. IsFlow
    <3>1. ~IsFlow => \A i : Readable(i)
      BY <2>1 DEF Readable, Walked
    <3> QED BY <3>1, <1>5 DEF AllReadable, ReadableUpTo
  <2>3. msg'.header = 12 + SumOfLengths(content.items)
    BY <1>1, <2>1, <2>2, NeededOfFlows DEF Hand
  <2>4. Len(lens') = 0 /\ Len(content.items) \in Nat
    <3>1. Len(content.items) \in Nat
      BY <1>1, ContentsAreItemized DEF Itemized, ListOfLong
    <3>2. Len(<<>>) = 0
      OBVIOUS
    <3> QED BY <1>1, <1>2, <3>1, <3>2
  <2>5. FlowsChecked'
    BY <1>1, <2>2, <2>3, <2>4 DEF FlowsChecked, IsFlow
  <2> QED BY <1>1, <2>5 DEF ReadInv
<1> QED BY <1>4, <1>5

-----------------------------------------------------------------------------
(***************************************************************************)
(* What the validator of flows has let through is readable.                *)
(***************************************************************************)
LEMMA FlowsOfReply ==
  ASSUME content \in Contents, content.kind = "FLOW_REPLY"
  PROVE  /\ ListOfLong(content.items) /\ Len(content.items) \in Nat
         /\ DOMAIN content.items = 1 .. Len(content.items)
         /\ \A k \in DOMAIN content.items : Measured(content.items[k])
         /\ AllReadable <=> FlowsRead(Len(content.items))
<1>1. ListsWell(content)
  BY ContentsAreWell
<1>2. /\ ListOfLong(content.items)
      /\ \A k \in DOMAIN content.items : Measured(content.items[k])
  BY <1>1 DEF ListsWell, MadeFrom, Itemized, Walked
<1>3. Len(content.items) \in Nat /\ DOMAIN content.items = 1 .. Len(content.items)
  BY <1>2 DEF ListOfLong
<1>4. Listed = content.items
  BY DEF Listed
<1>5. \A i : Readable(i) <=> FlowReadable(i)
  BY DEF Readable, IsFlow
<1> QED BY <1>2, <1>3, <1>4, <1>5 DEF AllReadable, ReadableUpTo, FlowsRead

\* What adds up on 16 bits and is not more than the body is the body.
LEMMA AddsUpExactly ==
  ASSUME NEW n, NEW body, body \in Nat, NEW w, AddsUp(n, body, w), n <= body + Max16
  PROVE  n = body
<1>1. PICK k \in Nat : n = body + 65536 * k
  BY DEF AddsUp
<1>2. 65536 * k \in Nat /\ 65536 * k <= Max16
  BY <1>1, Max16Is
<1>3. k = 0
  BY <1>2, Max16Is
<1> QED BY <1>1, <1>3

\* The flows let through are the first ones of the body.
LEMMA FlowsTaken ==
  ASSUME content \in Contents, content.kind = "FLOW_REPLY", lens \in Seq(Nat),
         Len(lens) <= Len(content.items),
         \A j \in 1 .. Len(lens) : lens[j] = content.items[j].len
  PROVE  Sum(lens) \in Nat /\ Sum(lens) <= SumOfLengths(content.items)
<1> DEFINE s == content.items
           f == LengthsOf(s)
           n == Len(lens)
<1>1. /\ n \in Nat /\ Len(s) \in Nat /\ n <= Len(s) /\ ListOfLong(s)
      /\ DOMAIN s = 1 .. Len(s) /\ f \in Seq(Nat) /\ Sum(f) = SumOfLengths(s)
  <2>1. f \in Seq(Nat)
    BY FlowsOfReply, ListsHaveLengths
  <2> QED BY <2>1, FlowsOfReply, SumOfLengthsIs
<1>2. Len(f) = Len(s) /\ \A j \in 1 .. n : f[j] = lens[j]
  <2>1. f = [j \in 1 .. Len(s) |-> s[j].len]
    BY <1>1 DEF LengthsOf
  <2>2. \A j \in 1 .. n : j \in 1 .. Len(s) /\ lens[j] = s[j].len
    BY <1>1
  <2>3. \A j \in 1 .. n : f[j] = lens[j]
    BY <2>1, <2>2
  <2> HIDE DEF f, s
  <2>4. Len(f) = Len(s)
    BY <1>1, <2>1
  <2> QED BY <2>3, <2>4
<1>3. lens = SubSeq(f, 1, n)
  <2> HIDE DEF f
  <2>1. SubSeq(f, 1, n) = [j \in 1 .. n |-> f[j]]
    BY <1>1, <1>2
  <2>2. lens = [j \in 1 .. n |-> lens[j]]
    OBVIOUS
  <2> HIDE DEF n
  <2> QED BY <1>2, <2>1, <2>2
<1>4. Before(f, n) = Sum(lens)
  BY <1>3 DEF Before
<1>5. Before(f, n) <= Sum(f) /\ Before(f, n) \in Nat
  BY <1>1, <1>2, BeforeIsLess, BeforeMore
<1> QED BY <1>1, <1>4, <1>5

\* The flows let through take their part of the body: none is left out.
LEMMA FlowsSeen ==
  ASSUME content \in Contents, content.kind = "FLOW_REPLY", lens \in Seq(Nat),
         Len(lens) <= Len(content.items),
         \A j \in 1 .. Len(lens) : lens[j] = content.items[j].len,
         Sum(lens) = SumOfLengths(content.items)
  PROVE  Len(lens) = Len(content.items)
<1> DEFINE s == content.items
           f == LengthsOf(s)
           n == Len(lens)
<1>1. n \in Nat /\ Len(s) \in Nat /\ n <= Len(s)
  BY FlowsOfReply
<1>2. f \in Seq(Nat) /\ Len(f) = Len(s) /\ \A j \in 1 .. n : f[j] = lens[j]
  <2>1. f \in Seq(Nat) /\ DOMAIN s = 1 .. Len(s)
    BY FlowsOfReply, ListsHaveLengths
  <2>2. f = [j \in 1 .. Len(s) |-> s[j].len]
    BY <2>1 DEF LengthsOf
  <2>3. \A j \in 1 .. n : j \in 1 .. Len(s) /\ lens[j] = s[j].len
    BY <1>1
  <2>4. \A j \in 1 .. n : f[j] = lens[j]
    BY <2>2, <2>3
  <2> HIDE DEF f, s
  <2>5. Len(f) = Len(s)
    BY <1>1, <2>1, <2>2
  <2> QED BY <2>1, <2>4, <2>5
<1>3. lens = SubSeq(f, 1, n)
  <2> HIDE DEF f
  <2>1. SubSeq(f, 1, n) = [j \in 1 .. n |-> f[j]]
    BY <1>1, <1>2
  <2>2. lens = [j \in 1 .. n |-> lens[j]]
    OBVIOUS
  <2> HIDE DEF n
  <2> QED BY <1>2, <2>1, <2>2
<1>4. Before(f, n) = Sum(f)
  BY <1>2, <1>3, SumOfLengthsIs DEF Before
<1>5. ASSUME n < Len(s) PROVE FALSE
  <2>1. /\ Long(s[n + 1]) /\ Before(f, n) \in Nat
        /\ Before(f, n + 1) = Before(f, n) + s[n + 1].len
        /\ Before(f, n + 1) <= Sum(f) /\ Sum(f) \in Nat
    BY <1>1, <1>5, FlowsOfReply, ItemOfList
  <2> DEFINE a == Before(f, n)
             b == Before(f, n + 1)
             l == s[n + 1].len
             t == Sum(f)
  <2>2. l \in Nat /\ 8 <= l /\ a \in Nat /\ b = a + l /\ b <= t /\ a = t
    BY <2>1, <1>4 DEF Long
  <2> HIDE DEF a, b, l, t
  <2> QED BY <2>2
<1> QED BY <1>1, <1>5

\* The validator's walk over the flows of a received list goes on.
GoesOnReading ==
  /\ content \in Contents /\ UNCHANGED content
  /\ FlowsChecked /\ CheckInv /\ ReadsContent

LEMMA FlowsReadStay ==
  ASSUME UNCHANGED content
  PROVE  \A n : FlowsRead(n)' <=> FlowsRead(n)
BY DEF FlowsRead

LEMMA FixedPartReads ==
  ASSUME GoesOnReading, FixedPart
  PROVE  FlowsChecked' /\ result' # "SUCCESS"
<1>1. /\ pc = "fixed" /\ by = "FLOW_REPLY" /\ content.kind = "FLOW_REPLY"
      /\ UNCHANGED <<msg, by, lens, content>>
      /\ lens = <<>>
  BY DEF GoesOnReading, FixedPart, FlowsChecked, CheckInv, AddedUp
<1>2. CASE FixedPartError(msg, by) # "SUCCESS"
  BY <1>1, <1>2 DEF FixedPart, Return, FlowsChecked
<1>3. CASE FixedPartError(msg, by) = "SUCCESS"
  <2>1. by \notin DOMAIN Arrays /\ ~HasActions /\ by # "QUEUE_GET_CONFIG_REPLY"
    BY <1>1 DEF Arrays, HasActions
  <2>2. pc' = "flow" /\ result' = "NONE"
    BY <1>1, <1>3, <2>1 DEF FixedPart, Goto
  <2>3. FlowsRead(Len(lens))'
    <3>1. Len(lens') = 0
      BY <1>1
    <3> QED BY <3>1 DEF FlowsRead
  <2> QED BY <1>1, <2>2, <2>3 DEF GoesOnReading, FlowsChecked
<1> QED BY <1>2, <1>3

LEMMA FlowReads ==
  ASSUME GoesOnReading, Flow
  PROVE  /\ FlowsChecked'
         /\ result' = "SUCCESS" => AllReadable
<1>1. /\ pc = "flow" /\ by = "FLOW_REPLY" /\ content.kind = "FLOW_REPLY"
      /\ UNCHANGED <<msg, by, content>>
      /\ lens \in Seq(Nat) /\ content \in Contents
      /\ left \in Nat /\ left + Sum(lens) = SumOfLengths(content.items)
      /\ Len(lens) <= Len(content.items)
      /\ \A j \in 1 .. Len(lens) : lens[j] = content.items[j].len
      /\ FlowsRead(Len(lens))
      /\ msg.header = 12 + SumOfLengths(content.items)
  <2>1. /\ pc = "flow" /\ by = "FLOW_REPLY" /\ content.kind = "FLOW_REPLY"
        /\ UNCHANGED <<msg, by, content>>
        /\ lens \in Seq(Nat) /\ content \in Contents
        /\ left \in Nat /\ left <= Max16
        /\ AddsUp(left + Sum(lens), msg.header - 12, wrapped)
        /\ msg.header = 12 + SumOfLengths(content.items)
        /\ Len(lens) <= Len(content.items)
        /\ \A j \in 1 .. Len(lens) : lens[j] = content.items[j].len
        /\ FlowsRead(Len(lens))
    BY DEF GoesOnReading, Flow, FlowsChecked, CheckInv, AddedUp, BodyLength
  <2> DEFINE a == Sum(lens)
             t == SumOfLengths(content.items)
             n == left + a
  <2>2. a \in Nat /\ a <= t
    BY <2>1, FlowsTaken
  <2>3. t \in Nat
    <3>1. LengthsOf(content.items) \in Seq(Nat)
      BY <2>1, FlowsOfReply, ListsHaveLengths
    <3> QED BY <3>1, SumOfLengthsIs, SumOfMore
  <2>4. msg.header - 12 = t
    BY <2>1, <2>3
  <2>5. AddsUp(n, t, wrapped)
    BY <2>1, <2>4
  <2>6. n <= t + Max16
    <3> HIDE DEF a, t
    <3> QED BY <2>1, <2>2, <2>3, Max16Is
  <2>7. n = t
    <3> HIDE DEF n, t
    <3> QED BY <2>3, <2>5, <2>6, AddsUpExactly
  <2> QED BY <2>1, <2>7
<1>2. /\ Sum(lens) \in Nat /\ SumOfLengths(content.items) \in Nat
      /\ SumOfLengths(content.items) = Sum(LengthsOf(content.items))
      /\ Len(lens) \in Nat /\ Len(content.items) \in Nat
  <2>1. LengthsOf(content.items) \in Seq(Nat)
    BY <1>1, FlowsOfReply, ListsHaveLengths
  <2> QED BY <1>1, <2>1, FlowsOfReply, SumOfLengthsIs, SumOfMore
<1>3. CASE left = 0
  <2>1. Sum(lens) = SumOfLengths(content.items)
    BY <1>1, <1>2, <1>3
  <2>2. AllReadable
    BY <1>1, <2>1, FlowsSeen, FlowsOfReply
  <2>3. pc' = "done"
    BY <1>3 DEF Flow, Return
  <2> QED BY <1>1, <2>2, <2>3 DEF FlowsChecked
<1>4. CASE left > 0
  <2>20. PICK n : n = Len(lens)
    OBVIOUS
  <2>21. PICK s : s = content.items
    OBVIOUS
  <2>5. n < Len(s) /\ n + 1 \in DOMAIN s
    <3>1. n = Len(s) => lens = LengthsOf(s)
      <4>1. DOMAIN s = 1 .. Len(s) /\ DOMAIN lens = 1 .. n
        BY <1>1, <2>20, <2>21, FlowsOfReply
      <4>2. lens = [j \in 1 .. n |-> lens[j]]
        BY <1>1, <2>20
      <4> SUFFICES ASSUME n = Len(s) PROVE lens = LengthsOf(s)
        OBVIOUS
      <4>3. LengthsOf(s) = [j \in 1 .. n |-> s[j].len]
        BY <4>1 DEF LengthsOf
      <4>4. \A j \in 1 .. n : lens[j] = s[j].len
        BY <1>1, <2>20, <2>21
      <4> QED BY <4>2, <4>3, <4>4
    <3>2. Sum(lens) < SumOfLengths(s)
      BY <1>1, <1>2, <1>4, <2>21
    <3>3. n # Len(s)
      BY <1>2, <3>1, <3>2, <2>21
    <3>4. DOMAIN s = 1 .. Len(s)
      BY <1>1, <2>21, FlowsOfReply
    <3>5. n < Len(s)
      BY <1>1, <1>2, <3>3, <2>20, <2>21
    <3>6. n \in Nat /\ Len(s) \in Nat
      BY <1>2, <2>20, <2>21
    <3> QED BY <3>4, <3>5, <3>6
  <2>1. result' = "NONE" /\ Last(lens') = s[n + 1].len
    BY <1>1, <1>4, <2>5, <2>20, <2>21 DEF GoesOnReading, ReadsContent, ReadsLength
  <2>2. PICK len \in ItemLengths : /\ lens' = Append(lens, len)
                                   /\ BeginList(Uint16(len - 88))
                                   /\ pc' = "actions"
    <3>1. \A e \in ToSet(Match) \cup {"INVALID_FLOW_PRIORITY"} : e # "NONE"
      BY DEF ToSet, Match
    <3>2. ~(left = 0)
      BY <1>4
    <3> QED BY <2>1, <3>1, <3>2 DEF Flow, Return, Goto
  <2>3. /\ Len(lens') = n + 1 /\ lens'[n + 1] = len
        /\ \A j \in 1 .. n : lens'[j] = lens[j]
    <3>1. len \in Nat
      BY LengthsAre
    <3> QED BY <1>1, <2>2, <2>20, <3>1
  <2>4. Last(lens') = len
    BY <2>3 DEF Last
  <2>6. \A j \in 1 .. Len(lens') : lens'[j] = s[j].len
    <3>1. \A j \in 1 .. n + 1 : j = n + 1 \/ j \in 1 .. n
      BY <1>2, <2>20
    <3>2. lens'[n + 1] = s[n + 1].len
      BY <2>1, <2>3, <2>4, <2>21
    <3> QED BY <1>1, <2>3, <3>1, <3>2, <2>20, <2>21
  <2>7. length' = Uint16(Last(lens') - 88) /\ offset' = 0
    BY <2>2, <2>4 DEF BeginList
  <2>8. ActionsRead(s[n + 1])'
    <3> DEFINE ps == s[n + 1].parts
    <3>1. ListOfLong(ps)
      BY <1>1, <1>2, <2>5, <2>20, <2>21, FlowsOfReply DEF Measured
    <3>2. LengthsOf(ps) \in Seq(Nat) /\ 0 <= Len(ps)
      BY <3>1, ListsHaveLengths DEF ListOfLong
    <3>3. Before(LengthsOf(ps), 0) = 0
      <4> DEFINE f == LengthsOf(ps)
      <4>1. f \in Seq(Nat) /\ 0 <= Len(f)
        BY <3>2
      <4> HIDE DEF f
      <4> QED BY <4>1, BeforeMore DEF f
    <3> HIDE DEF ps
    <3>4. \E m \in Nat : /\ m <= Len(ps) /\ offset' = Before(LengthsOf(ps), m)
                         /\ \A q \in 1 .. m : Known(ps[q])
      <4>1. 1 .. 0 = {}
        OBVIOUS
      <4> QED BY <2>7, <3>2, <3>3, <4>1
    <3> QED BY <3>4 DEF ActionsRead, ps
  <2>9. FlowsRead(Len(lens) - 1)'
    <3>1. Len(lens') - 1 = n
      BY <1>2, <2>3, <2>20
    <3>2. FlowsRead(n)'
      BY <1>1, <2>20, FlowsReadStay
    <3> QED BY <3>1, <3>2 DEF FlowsRead
  <2>10. /\ Len(lens') <= Len(s) /\ content' = content /\ msg' = msg /\ by' = by
         /\ content'.kind = "FLOW_REPLY"
    BY <1>1, <1>2, <2>3, <2>5, <2>20, <2>21
  <2>11. ActionsRead(content.items[Len(lens)])'
    BY <1>1, <2>3, <2>8, <2>21
  <2>12. msg'.header = 12 + SumOfLengths(content'.items)
    <3>1. msg.header = 12 + SumOfLengths(content.items)
      BY <1>1
    <3> QED BY <2>10, <3>1
  <2>13. /\ length' = Uint16(Last(lens') - 88)
         /\ \A j \in 1 .. Len(lens') : lens'[j] = content'.items[j].len
         /\ Len(lens') <= Len(content'.items)
    BY <2>6, <2>7, <2>10, <2>21
  <2>14. pc' = "actions" /\ by' = "FLOW_REPLY" /\ content'.kind = "FLOW_REPLY"
    BY <1>1, <2>2, <2>10
  <2>15. FlowsChecked'
    BY <2>9, <2>11, <2>12, <2>13, <2>14 DEF FlowsChecked
  <2> QED BY <2>1, <2>15
<1> QED BY <1>1, <1>3, <1>4

\* An action is let through only when its type is known.
LEMMA LetThroughIsKnown ==
  ASSUME NEW a
  PROVE  LET e == ActionError(a.type, a.len, FALSE)
         IN e # "NONE" /\ (e = "SUCCESS" => Known(a))
<1>1. "NONE" \notin {"SUCCESS"} \cup ErrorsOfActions
  BY DEF ErrorsOfActions, ActionErrors, TooShortAction, TooLongAction, Range
<1>2. ActionError(a.type, a.len, FALSE) = "SUCCESS" => a.type \in ActionTypes
  BY DEF ActionError
<1>3. ActionTypes = DOMAIN ActionStruct
  BY DEF ActionTypes, ActionSize, ActionStruct
<1> QED BY <1>1, <1>2, <1>3, ErrorsOfAction DEF Known

\* A part that begins behind the 16 bits of its flow's length does not come.
LEMMA PartComes ==
  ASSUME NEW i, Measured(i), NEW m \in DOMAIN i.parts, Comes(i, m),
         NEW k \in Nat, k < m
  PROVE  /\ Before(LengthsOf(i.parts), k) + 96 <= i.len
         /\ Before(LengthsOf(i.parts), k) \in Nat
<1> DEFINE f == LengthsOf(i.parts)
<1>1. /\ ListOfLong(i.parts) /\ DOMAIN i.parts = 1 .. Len(i.parts)
      /\ Len(i.parts) \in Nat /\ i.len \in Nat
  BY DEF Measured, ListOfLong, Long
<1>2. f \in Seq(Nat) /\ Len(f) = Len(i.parts)
  <2>1. f \in Seq(Nat)
    BY <1>1, ListsHaveLengths
  <2>2. f = [q \in 1 .. Len(i.parts) |-> i.parts[q].len]
    BY <1>1 DEF LengthsOf
  <2> HIDE DEF f
  <2>3. DOMAIN f = 1 .. Len(f) /\ Len(f) \in Nat
    BY <2>1
  <2> QED BY <1>1, <2>1, <2>2, <2>3
<1>3. 88 + Before(f, m - 1) + 8 <= i.len
  BY DEF Comes
<1> HIDE DEF f
<1>4. m - 1 \in Nat /\ k <= m - 1 /\ m - 1 <= Len(f) /\ k <= Len(f)
  BY <1>1, <1>2
<1>5. /\ Before(f, k) <= Before(f, m - 1) /\ Before(f, k) \in Nat
      /\ Before(f, m - 1) \in Nat
  BY <1>2, <1>4, BeforeGrows, BeforeMore
<1> QED BY <1>1, <1>3, <1>5 DEF f

\* ReadsItem of a list of actions.
ReadsAction(items) ==
  \A i \in DOMAIN items :
    SumOfLengths(SubSeq(items, 1, i - 1)) = offset =>
      IF ActionError(items[i].type, items[i].len, FALSE) = "SUCCESS"
      THEN /\ result' = "NONE"
           /\ pc' = pc => offset' = Uint16(offset + items[i].len)
      ELSE result' = ActionError(items[i].type, items[i].len, FALSE)

\* The walk over the actions of a flow, where it goes on: behind an action that
\* is known, or behind everything that a conversion comes to.
LEMMA NextOfActions ==
  ASSUME NEW i, Measured(i), ActionsRead(i), offset' \in Nat,
         ReadsAction(i.parts),
         result' = "NONE", pc' = pc
  PROVE  ActionsRead(i)'
<1> DEFINE s == i.parts
           f == LengthsOf(s)
<1>1. /\ ListOfLong(s) /\ Len(s) \in Nat /\ DOMAIN s = 1 .. Len(s)
      /\ i.len \in Nat /\ i.len <= Max16
  BY DEF Measured, ListOfLong, Long
<1>2. CASE FlowReadable(i)
  BY <1>2 DEF ActionsRead
<1>3. CASE ~FlowReadable(i)
  <2>1. PICK m \in Nat : /\ m <= Len(s) /\ offset = Before(f, m)
                         /\ \A q \in 1 .. m : Known(s[q])
    BY <1>3 DEF ActionsRead
  <2>2. m # Len(s)
    BY <1>1, <1>3, <2>1 DEF FlowReadable
  <2>3. /\ m < Len(s) /\ m + 1 \in DOMAIN s /\ Long(s[m + 1])
        /\ f \in Seq(Nat) /\ Len(f) = Len(s)
        /\ Before(f, m) \in Nat /\ Before(f, m + 1) = Before(f, m) + s[m + 1].len
    BY <1>1, <2>1, <2>2, ItemOfList
  <2>4. SumOfLengths(SubSeq(s, 1, (m + 1) - 1)) = offset
    <3>1. (m + 1) - 1 = m
      OBVIOUS
    <3>2. LengthsOf(SubSeq(s, 1, m)) = SubSeq(f, 1, m)
      <4>1. SubSeq(s, 1, m) = [j \in 1 .. m |-> s[j]] /\ DOMAIN f = DOMAIN s
            /\ \A j \in 1 .. m : j \in DOMAIN s
        BY <1>1, <2>1 DEF LengthsOf, ListOfLong
      <4>2. SubSeq(f, 1, m) = [j \in 1 .. m |-> f[j]]
        <5> HIDE DEF f
        <5> QED BY <1>1, <2>1, <2>3
      <4> QED BY <4>1, <4>2 DEF LengthsOf
    <3>3. SubSeq(f, 1, m) \in Seq(Nat)
      <4> HIDE DEF f
      <4> QED BY <2>1, <2>3
    <3> QED BY <2>1, <3>1, <3>2, <3>3, SumOfLengthsIs DEF Before
  <2>5. Known(s[m + 1]) /\ offset' = Uint16(offset + s[m + 1].len)
    BY <2>3, <2>4, LetThroughIsKnown DEF ReadsAction
  <2>6. \A q \in 1 .. m + 1 : Known(s[q])
    <3>1. \A q \in 1 .. m + 1 : q = m + 1 \/ q \in 1 .. m
      OBVIOUS
    <3> QED BY <2>1, <2>5, <3>1
  <2>7. Before(f, m + 1) \in Nat
    <3>1. s[m + 1].len \in Nat
      BY <2>3 DEF Long
    <3> HIDE DEF f
    <3> QED BY <2>3, <3>1
  <2>8. CASE Before(f, m + 1) <= Max16
    <3> HIDE DEF f, s
    <3>1. offset' = Before(f, m + 1) /\ m + 1 \in Nat /\ m + 1 <= Len(s)
      <4>1. offset + s[m + 1].len = Before(f, m + 1)
        BY <2>1, <2>3
      <4>2. offset' = Before(f, m + 1)
        BY <2>5, <2>7, <2>8, <4>1, LeftIs
      <4> QED BY <1>1, <2>1, <2>3, <4>2
    <3>2. \E k \in Nat : /\ k <= Len(s) /\ offset' = Before(f, k)
                         /\ \A q \in 1 .. k : Known(s[q])
      BY <2>6, <3>1
    <3> QED BY <3>2 DEF ActionsRead, f, s
  <2>9. CASE ~(Before(f, m + 1) <= Max16)
    <3>1. ASSUME NEW q \in DOMAIN s, Comes(i, q) PROVE Known(s[q])
      <4>1. CASE q <= m + 1
        BY <1>1, <2>6, <4>1
      <4>2. CASE m + 1 < q
        <5>1. Before(f, m + 1) + 96 <= i.len
          BY <2>1, <3>1, <4>2, PartComes
        <5> HIDE DEF f
        <5> QED BY <1>1, <2>7, <2>9, <5>1, Max16Is
      <4> QED BY <1>1, <4>1, <4>2
    <3>2. FlowReadable(i)
      BY <3>1 DEF FlowReadable
    <3> QED BY <3>2 DEF ActionsRead
  <2> QED BY <2>8, <2>9
<1> QED BY <1>2, <1>3

LEMMA ActionReads ==
  ASSUME GoesOnReading, Action
  PROVE  FlowsChecked' /\ result' # "SUCCESS"
<1>1. /\ pc = "actions" /\ by = "FLOW_REPLY" /\ content.kind = "FLOW_REPLY"
      /\ Item(ActionItems) /\ offset < length
      /\ UNCHANGED <<msg, by, content, lens>>
      /\ lens \in Seq(Nat) /\ lens # <<>> /\ content \in Contents
      /\ Len(lens) <= Len(content.items)
      /\ msg.header = 12 + SumOfLengths(content.items)
      /\ \A j \in 1 .. Len(lens) : lens[j] = content.items[j].len
      /\ FlowsRead(Len(lens) - 1)
      /\ length = Uint16(Last(lens) - 88)
      /\ ActionsRead(content.items[Len(lens)])
  BY DEF GoesOnReading, Action, Item, FlowsChecked, CheckInv, AddedUp
<1>2. PICK n : n = Len(lens)
  OBVIOUS
<1>3. PICK i : i = content.items[n]
  OBVIOUS
<1>4. Measured(i) /\ n \in 1 .. Len(content.items)
  <2>1. n \in 1 .. Len(content.items)
    <3>1. n \in Nat /\ n # 0 /\ Len(content.items) \in Nat
      BY <1>1, <1>2, FlowsOfReply
    <3> QED BY <1>1, <1>2, <3>1
  <2> QED BY <1>1, <1>3, <2>1, FlowsOfReply
<1>5. ReadsAction(i.parts)
  <2>1. ~HasActions
    BY <1>1 DEF HasActions
  <2>2. ReadsParts(n, LAMBDA a : ActionError(a.type, a.len, FALSE))
    BY <1>1, <1>2, <2>1 DEF GoesOnReading, ReadsContent
  <2>3. n \in DOMAIN content.items
    BY <1>1, <1>2, <1>4, FlowsOfReply
  <2> QED BY <1>3, <2>2, <2>3 DEF ReadsParts, ReadsItem, ReadsAction
<1>6. CASE pc' # "actions"
  <2>1. pc' \in {"stuck", "done"} /\ result' # "SUCCESS"
    BY <1>1, <1>6 DEF Item, Goto, Return
  <2> QED BY <1>1, <2>1 DEF FlowsChecked
<1>7. CASE pc' = "actions"
  <2>1. /\ result' = "NONE" /\ pc' = pc /\ UNCHANGED length
        /\ \E it \in ActionItems : it.error = "SUCCESS" /\ Advance(it.len)
    BY <1>1, <1>7 DEF Item, Goto, Return, Advance
  <2>2. offset' \in Nat
    <3>1. PICK it \in ActionItems : it.error = "SUCCESS" /\ Advance(it.len)
      BY <2>1
    <3>2. it.len \in Nat
      BY <3>1, ActionsLetThrough DEF LetThrough
    <3>3. offset \in Nat
      BY DEF GoesOnReading, CheckInv, Passed
    <3>4. offset' = Uint16(offset + it.len) /\ offset + it.len \in Int
      BY <3>1, <3>2, <3>3 DEF Advance
    <3> QED BY <3>4, LeftIs
  <2>3. ActionsRead(i)
    BY <1>1, <1>2, <1>3
  <2>4. ActionsRead(i)'
    BY <1>4, <1>5, <2>1, <2>2, <2>3, NextOfActions
  <2>5. ActionsRead(content.items[Len(lens)])'
    BY <1>1, <1>2, <1>3, <2>4
  <2>6. FlowsRead(Len(lens) - 1)'
    BY <1>1 DEF FlowsRead
  <2> QED BY <1>1, <1>7, <2>1, <2>5, <2>6 DEF FlowsChecked
<1> QED BY <1>6, <1>7

\* A flow whose actions have been walked to their end is readable.
LEMMA FlowEndReads ==
  ASSUME GoesOnReading, FlowEnd
  PROVE  FlowsChecked' /\ result' # "SUCCESS"
<1>1. /\ pc = "actions" /\ by = "FLOW_REPLY" /\ content.kind = "FLOW_REPLY"
      /\ ~(offset < length) /\ offset \in Nat
      /\ UNCHANGED <<msg, by, content, lens>>
      /\ lens \in Seq(Nat) /\ lens # <<>> /\ content \in Contents
      /\ Len(lens) <= Len(content.items)
      /\ msg.header = 12 + SumOfLengths(content.items)
      /\ \A j \in 1 .. Len(lens) : lens[j] = content.items[j].len
      /\ FlowsRead(Len(lens) - 1)
      /\ length = Uint16(Last(lens) - 88)
      /\ ActionsRead(content.items[Len(lens)])
      /\ Take(Last(lens), "flow")
  <2>1. offset >= length /\ offset \in Nat
    BY DEF GoesOnReading, FlowEnd, CheckInv, Passed
  <2>2. length = Uint16(Last(lens) - 88) /\ lens \in Seq(Nat) /\ lens # <<>>
        /\ pc = "actions" /\ by = "FLOW_REPLY"
    BY DEF GoesOnReading, FlowEnd, FlowsChecked, CheckInv, AddedUp
  <2>3. length \in Nat
    <3>1. Last(lens) \in Nat
      BY <2>2, LastOfLengths
    <3>2. Last(lens) - 88 \in Int
      BY <3>1
    <3> QED BY <2>2, <3>2, LeftIs
  <2>4. ~(offset < length)
    BY <2>1, <2>3
  <2> QED BY <2>1, <2>2, <2>4 DEF GoesOnReading, FlowEnd, FlowsChecked
<1>2. PICK n : n = Len(lens)
  OBVIOUS
<1>3. PICK i : i = content.items[n]
  OBVIOUS
<1>4. n \in Nat /\ n # 0 /\ n \in 1 .. Len(lens) /\ n \in 1 .. Len(content.items)
  <2>1. n \in Nat /\ n # 0 /\ Len(content.items) \in Nat
    BY <1>1, <1>2, FlowsOfReply
  <2> QED BY <1>1, <1>2, <2>1
<1>5. Measured(i) /\ Last(lens) = i.len
  BY <1>1, <1>2, <1>3, <1>4, FlowsOfReply DEF Last
<1>6. FlowReadable(i)
  <2> SUFFICES ASSUME ~FlowReadable(i) PROVE FALSE
    OBVIOUS
  <2>1. PICK m \in Nat : /\ m <= Len(i.parts)
                         /\ offset = Before(LengthsOf(i.parts), m)
                         /\ \A q \in 1 .. m : Known(i.parts[q])
    BY <1>1, <1>2, <1>3 DEF ActionsRead
  <2>2. DOMAIN i.parts = 1 .. Len(i.parts) /\ i.len \in Nat /\ i.len <= Max16
        /\ Len(i.parts) \in Nat
    BY <1>5 DEF Measured, ListOfLong, Long
  <2>3. PICK q \in DOMAIN i.parts : Comes(i, q) /\ ~Known(i.parts[q])
    BY DEF FlowReadable
  <2>4. m < q
    BY <2>1, <2>2, <2>3
  <2>5. offset + 96 <= i.len
    BY <1>5, <2>1, <2>3, <2>4, PartComes
  <2>6. i.len - 88 \in Nat /\ i.len - 88 <= Max16 /\ offset < i.len - 88
    BY <1>1, <2>2, <2>5, Max16Is
  <2>7. length = i.len - 88
    BY <1>1, <1>5, <2>6, LeftIs
  <2> QED BY <1>1, <2>6, <2>7
<1>7. FlowsRead(Len(lens))'
  <2>1. \A j \in 1 .. n : j = n \/ j \in 1 .. Len(lens) - 1
    BY <1>2, <1>4
  <2>2. \A j \in 1 .. n : FlowReadable(content.items[j])
    BY <1>1, <1>3, <1>6, <2>1 DEF FlowsRead
  <2> QED BY <1>1, <1>2, <2>2 DEF FlowsRead
<1>8. result' = "NONE" /\ pc' \in {"flow", "stuck", "astray"}
  BY <1>1 DEF Take, Goto
<1> QED BY <1>1, <1>7, <1>8 DEF FlowsChecked

\* What the check of a received list has let through stays readable, and what
\* it accepts is readable to the end.
LEMMA NextReads ==
  ASSUME GoesOnReading, Next
  PROVE  /\ result' # "SUCCESS" => FlowsChecked'
         /\ result' = "SUCCESS" => AllReadable
<1>1. by = "FLOW_REPLY" /\ ~HasActions
  BY DEF GoesOnReading, FlowsChecked, HasActions
<1>2. ~(Element \/ ActionsEnd \/ CountQueue \/ CountEnd \/ Queue \/ Property
          \/ PropertiesEnd)
  BY <1>1 DEF GoesOnReading, CheckInv, AtItsPart, WalkedReplies, Element, ActionsEnd,
              CountQueue, CountEnd, Queue, Property, PropertiesEnd
<1> QED BY <1>2, FixedPartReads, FlowReads, ActionReads, FlowEndReads DEF Next

LEMMA CheckReads ==
  ASSUME ReadInv, WireInv, Check
  PROVE  ReadInv'
<1>1. stage \in {"any", "check"} /\ UNCHANGED <<content, item>> /\ Next
  BY DEF Check, walk_vars
<1>2. CASE stage = "any"
  BY <1>1, <1>2 DEF Check, ReadInv
<1>3. CASE stage = "check"
  <2>1. /\ content \in Contents /\ item = NoItem /\ (AllReadable \/ FlowsChecked)
        /\ stage' = IF result' = "SUCCESS" THEN "accepted" ELSE "check"
        /\ ReadsContent
    BY <1>3 DEF Check, ReadInv
  <2>2. AllReadable' <=> AllReadable
    BY <1>1, SameContent
  <2>3. CheckInv
    BY <1>1, IdleIsRight DEF WireInv, ValidInv
  <2>4. CASE AllReadable
    BY <1>1, <2>1, <2>2, <2>4 DEF ReadInv
  <2>5. CASE FlowsChecked
    <3>1. /\ result' # "SUCCESS" => FlowsChecked'
          /\ result' = "SUCCESS" => AllReadable
      BY <1>1, <2>1, <2>3, <2>5, NextReads DEF GoesOnReading
    <3> QED BY <1>1, <2>1, <2>2, <3>1 DEF ReadInv
  <2> QED BY <2>1, <2>4, <2>5
<1> QED BY <1>1, <1>2, <1>3

-----------------------------------------------------------------------------
(***************************************************************************)
(* Every step.                                                             *)
(***************************************************************************)
LEMMA ReadInvInit == WireInit => ReadInv
<1> SUFFICES ASSUME WireInit PROVE ReadInv
  OBVIOUS
<1>1. CASE Init /\ CreateIdle(NoContent, "any")
  BY <1>1 DEF CreateIdle, ReadInv
<1>2. CASE CreateInit /\ CheckIdle
  BY <1>2 DEF CreateInit, WalkInit, ReadInv
<1>3. CASE CheckIdle /\ \E c \in ReceivedContents : CreateIdle(c, "received")
  BY <1>3 DEF CreateIdle, WalkInit, ReceivedContents, ReadInv
<1> QED BY <1>1, <1>2, <1>3 DEF WireInit

LEMMA SameReads ==
  ASSUME ReadInv, UNCHANGED wire_vars
  PROVE  ReadInv'
<1>1. /\ UNCHANGED <<content, stage, todo, item, part, remaining>>
      /\ UNCHANGED <<by, pc, msg, lens, length, offset>>
  BY DEF wire_vars, create_vars, walk_vars, vars, walk, list
<1>2. /\ AllReadable' <=> AllReadable
      /\ \A k \in Nat : AtItem(k) => AtItem(k)'
  BY <1>1, SameContent, LoopStays
<1>3. AtPart => AtPart'
  BY <1>1, SameContent DEF AtPart, IsFlow
<1>4. FlowsChecked => FlowsChecked'
  BY <1>1 DEF FlowsChecked, FlowsRead, ActionsRead
<1>5. stage \in {"put", "get"} => \E k \in Nat : AtItem(k)'
  BY <1>2 DEF ReadInv
<1> QED BY <1>1, <1>2, <1>3, <1>4, <1>5 DEF ReadInv

LEMMA ReadInvNext ==
  ASSUME ReadInv, WireInv, [WireNext]_wire_vars
  PROVE  ReadInv'
<1>1. CASE UNCHANGED wire_vars
  BY <1>1, SameReads
<1>2. CASE CreateNext
  BY <1>2, CreateReads, PutActionReads, PutItemReads, PutPartReads, ItemEndReads,
     MadeReads DEF CreateNext
<1>3. CASE GetNext
  BY <1>3, GetStructureReads, GetActionReads, PutItemReads, PutPartReads,
     ItemEndReads, GotReads DEF GetNext
<1> QED BY <1>1, <1>2, <1>3, HandReads, CheckReads DEF WireNext


LEMMA ConvertedInit == WireInit => ConvertedWhole
<1> SUFFICES ASSUME WireInit PROVE ConvertedWhole
  OBVIOUS
<1>1. piece = NoPiece
  BY DEF WireInit, CreateIdle, CreateInit, WalkInit
<1> QED BY <1>1 DEF ConvertedWhole, NoPiece

\* A creator converts what its walk has found to be known.
LEMMA CreateConverts ==
  ASSUME ReadInv, ConvertedWhole, CreateNext
  PROVE  ConvertedWhole'
<1>1. ConvertedWhole /\ UNCHANGED piece => ConvertedWhole'
  BY DEF ConvertedWhole
<1>2. CASE Create
  <2>1. ConvertStructure("network") \/ UNCHANGED piece
    BY <1>2 DEF Create
  <2> QED BY <2>1, <1>1, Conversions
<1>3. CASE PutAction
  <2>1. (Known(Head(todo)) /\ hton_action(Head(todo))) \/ UNCHANGED piece
    BY <1>3 DEF PutAction
  <2> QED BY <2>1, <1>1, PartConversions
<1>4. CASE PutItem
  BY <1>4, ItemConversions DEF PutItem
<1>5. CASE PutPart
  <2>1. CASE UNCHANGED piece
    BY <2>1, <1>1
  <2>2. CASE ~UNCHANGED piece
    <3>1. /\ stage = "put" /\ MoreParts /\ ~IsAstray(HeaderOf)
          /\ IF IsFlow THEN hton_action(item.parts[part])
             ELSE hton_queue_property(item.parts[part])
          /\ IsFlow => Known(item.parts[part])
      BY <1>5, <2>2 DEF PutPart
    <3>2. ~IsFlow => item.parts[part].type \in DOMAIN PropertyStruct
      BY <3>1, PartCanBeConverted
    <3> QED BY <3>1, <3>2, PartConversions
  <2> QED BY <2>1, <2>2
<1>6. CASE PutItemEnd \/ Made
  BY <1>1, <1>6 DEF PutItemEnd, Made
<1> QED BY <1>2, <1>3, <1>4, <1>5, <1>6 DEF CreateNext

\* A reader converts what has been made or accepted, without a look at it.
LEMMA GetConverts ==
  ASSUME ReadInv, ConvertedWhole, GetNext
  PROVE  ConvertedWhole'
<1>1. CASE GetStructure
  BY <1>1, Conversions DEF GetStructure
<1>2. CASE GetAction
  <2>1. /\ stage = "get" /\ todo # <<>> /\ content.kind \in {"PACKET_OUT", "FLOW_MOD"}
        /\ ntoh_action(Head(todo)) /\ content \in Contents /\ AllReadable
    BY <1>2 DEF GetAction, ReadInv
  <2>2. PICK k \in Nat : AtItem(k)
    BY <2>1 DEF ReadInv
  <2>3. k + 1 \in DOMAIN Listed /\ Head(todo) = Listed[k + 1]
    BY <2>1, <2>2, NextItem
  <2>4. k + 1 \in 1 .. Len(Listed)
    <3>1. PICK S : Listed \in Seq(S)
      BY <2>1, ListedAre
    <3> QED BY <3>1, <2>3
  <2>5. Known(Head(todo))
    BY <2>1, <2>3, <2>4 DEF AllReadable, ReadableUpTo, Readable
  <2> QED BY <2>1, <2>5, PartConversions
<1>3. CASE GetItem
  BY <1>3, ItemConversions DEF GetItem
<1>4. CASE GetPart
  <2>1. CASE UNCHANGED piece
    BY <2>1 DEF ConvertedWhole
  <2>2. CASE ~UNCHANGED piece
    <3>1. /\ stage = "get" /\ MoreParts /\ ~IsAstray(HeaderOf)
          /\ IF IsFlow THEN ntoh_action(item.parts[part])
             ELSE ntoh_queue_property(item.parts[part])
      BY <1>4, <2>2 DEF GetPart
    <3>2. /\ ~IsFlow => item.parts[part].type \in DOMAIN PropertyStruct
          /\ IsFlow => Known(item.parts[part])
      BY <3>1, PartCanBeConverted
    <3> QED BY <3>1, <3>2, PartConversions
  <2> QED BY <2>1, <2>2
<1>5. CASE GetItemEnd \/ Got
  BY <1>5 DEF GetItemEnd, Got, ConvertedWhole
<1> QED BY <1>1, <1>2, <1>3, <1>4, <1>5 DEF GetNext

LEMMA ConvertedNext ==
  ASSUME ReadInv, ConvertedWhole, [WireNext]_wire_vars
  PROVE  ConvertedWhole'
<1>1. CASE UNCHANGED wire_vars \/ Hand \/ Check
  <2>1. UNCHANGED piece
    BY <1>1 DEF wire_vars, create_vars, walk_vars, Hand, Check
  <2> QED BY <2>1 DEF ConvertedWhole
<1> QED BY <1>1, CreateConverts, GetConverts DEF WireNext

-----------------------------------------------------------------------------
(***************************************************************************)
(* Where the structures of the fixed parts end.                            *)
(***************************************************************************)
LEMMA SumOfBoth ==
  ASSUME NEW f \in Seq(Nat), NEW g \in Seq(Nat)
  PROVE  Sum(f \o g) = Sum(f) + Sum(g) /\ f \o g \in Seq(Nat)
<1> DEFINE h == f \o g
           l == Len(f)
           m == Len(g)
<1>1. /\ h \in Seq(Nat) /\ Len(h) = Len(f) + Len(g)
      /\ \A i \in 1 .. Len(f) + Len(g) :
           h[i] = IF i <= Len(f) THEN f[i] ELSE g[i - Len(f)]
  BY Zenon, ConcatProperties
<1> HIDE DEF h
<1>2. /\ l \in Nat /\ m \in Nat /\ Len(h) = l + m
      /\ \A i \in 1 .. l : h[i] = f[i]
      /\ \A i \in 1 .. m : h[l + i] = g[i] /\ g[i] \in Nat
  <2>1. l \in Nat /\ m \in Nat /\ Len(h) = l + m
    BY <1>1
  <2>2. \A i \in 1 .. m : g[i] \in Nat
    OBVIOUS
  <2>3. \A i \in 1 .. l + m : h[i] = IF i <= l THEN f[i] ELSE g[i - l]
    BY <1>1
  <2> HIDE DEF l, m
  <2>4. ASSUME NEW i \in 1 .. m PROVE h[l + i] = g[i]
    <3>1. l + i \in 1 .. l + m /\ ~(l + i <= l) /\ (l + i) - l = i
      BY <2>1
    <3> QED BY <3>1, <2>3
  <2>5. \A i \in 1 .. l : h[i] = f[i]
    BY <2>1, <2>3
  <2> QED BY <2>1, <2>2, <2>4, <2>5
<1>3. Before(h, l) = Sum(f)
  <2>1. SubSeq(h, 1, l) = f
    BY <1>1, <1>2
  <2> QED BY <2>1 DEF Before
<1>4. Sum(f) \in Nat /\ Sum(g) \in Nat
  BY SumOfMore
<1> DEFINE N == {k \in Nat : k <= m /\ Before(h, l + k) # Sum(f) + Before(g, k)}
<1>5. ASSUME N # {} PROVE FALSE
  <2>1. PICK k \in N : \A q \in N : k <= q
    <3> HIDE DEF N
    <3>1. N \in SUBSET Nat
      BY DEF N
    <3> QED BY <3>1, <1>5, Least
  <2>2. k \in Nat /\ k <= m /\ Before(h, l + k) # Sum(f) + Before(g, k)
    BY <2>1
  <2>3. k # 0
    <3>1. Before(g, 0) = 0
      BY <1>2, BeforeMore
    <3> QED BY <3>1, <1>2, <1>3, <1>4, <2>2
  <2> DEFINE j == k - 1
  <2>4. j \in Nat /\ j + 1 = k /\ j < m /\ j < k
    BY <2>2, <2>3, <1>2
  <2>5. Before(h, l + j) = Sum(f) + Before(g, j)
    BY <2>1, <2>4
  <2> HIDE DEF j, N, l, m
  <2>6. /\ Before(h, (l + j) + 1) = Before(h, l + j) + h[(l + j) + 1]
        /\ Before(h, l + j) \in Nat
    <3>1. l + j \in Nat /\ l + j <= Len(h) /\ l + j < Len(h)
      BY <1>2, <2>4
    <3> QED BY <3>1, <1>1, BeforeMore
  <2>7. /\ Before(g, j + 1) = Before(g, j) + g[j + 1] /\ Before(g, j) \in Nat
    <3>1. j <= Len(g) /\ j < Len(g)
      BY <2>4 DEF m
    <3> QED BY <3>1, <2>4, BeforeMore
  <2>8. (l + j) + 1 = l + k /\ h[l + k] = g[k] /\ g[k] \in Nat
    BY <1>2, <2>2, <2>3, <2>4
  <2> QED BY <1>4, <2>2, <2>4, <2>5, <2>6, <2>7, <2>8
<1>6. Before(h, l + m) = Sum(f) + Before(g, m)
  <2>1. m \notin N
    BY <1>5
  <2> HIDE DEF l
  <2> QED BY <2>1, <1>2
<1>7. Before(h, l + m) = Sum(h) /\ Before(g, m) = Sum(g)
  <2>1. l + m \in Nat /\ l + m <= Len(h) /\ m <= Len(g) /\ m = Len(g)
    BY <1>2
  <2> HIDE DEF l, m
  <2> QED BY <2>1, <1>1, <1>2, BeforeMore
<1> QED BY <1>1, <1>6, <1>7 DEF h

LEMMA SumOfFew ==
  ASSUME NEW w \in Seq(Nat)
  PROVE  /\ Len(w) = 1 => Sum(w) = w[1]
         /\ Len(w) = 2 => Sum(w) = w[1] + w[2]
         /\ Len(w) = 3 => Sum(w) = w[1] + w[2] + w[3]
         /\ Len(w) = 4 => Sum(w) = w[1] + w[2] + w[3] + w[4]
<1>1. \A k \in Nat, n \in Nat :
        k < Len(w) /\ n = k + 1 => Before(w, n) = Before(w, k) + w[n]
  BY BeforeMore
<1>2. Before(w, 0) = 0 /\ Before(w, Len(w)) = Sum(w)
  <2>1. Len(w) \in Nat /\ Len(w) <= Len(w) /\ 0 <= Len(w)
    OBVIOUS
  <2> QED BY <2>1, BeforeMore
<1>3. /\ Len(w) >= 1 => w[1] \in Nat
      /\ Len(w) >= 2 => w[2] \in Nat
      /\ Len(w) >= 3 => w[3] \in Nat
      /\ Len(w) >= 4 => w[4] \in Nat
  OBVIOUS
<1>4. /\ Len(w) >= 1 => Before(w, 1) = Before(w, 0) + w[1]
      /\ Len(w) >= 2 => Before(w, 2) = Before(w, 1) + w[2]
      /\ Len(w) >= 3 => Before(w, 3) = Before(w, 2) + w[3]
      /\ Len(w) >= 4 => Before(w, 4) = Before(w, 3) + w[4]
  BY <1>1
<1>5. Len(w) = 1 => Sum(w) = w[1]
  BY <1>2, <1>3, <1>4
<1>6. Len(w) = 2 => Sum(w) = w[1] + w[2]
  BY <1>2, <1>3, <1>4
<1>7. Len(w) = 3 => Sum(w) = w[1] + w[2] + w[3]
  BY <1>2, <1>3, <1>4
<1>8. Len(w) = 4 => Sum(w) = w[1] + w[2] + w[3] + w[4]
  BY <1>2, <1>3, <1>4
<1> QED BY <1>5, <1>6, <1>7, <1>8

\* The octets of a field.
WidthOf(f) == f.width * f.count

LEMMA EndOfBoth ==
  ASSUME NEW S, NEW s \in Seq(S), NEW t \in Seq(S), \A f \in S : WidthOf(f) \in Nat
  PROVE  EndOf(s \o t) = EndOf(s) + EndOf(t) /\ s \o t \in Seq(S)
<1> DEFINE u == s \o t
           f == WidthsOf(s)
           g == WidthsOf(t)
           h == f \o g
<1>1. /\ u \in Seq(S) /\ Len(u) = Len(s) + Len(t)
      /\ \A i \in 1 .. Len(s) + Len(t) :
           u[i] = IF i <= Len(s) THEN s[i] ELSE t[i - Len(s)]
  BY Zenon, ConcatProperties
<1>2. ASSUME NEW q \in Seq(S)
      PROVE  /\ WidthsOf(q) \in Seq(Nat) /\ Len(WidthsOf(q)) = Len(q)
             /\ \A i \in 1 .. Len(q) : WidthsOf(q)[i] = WidthOf(q[i])
  <2>1. DOMAIN q = 1 .. Len(q) /\ Len(q) \in Nat /\ \A i \in DOMAIN q : q[i] \in S
    OBVIOUS
  <2>2. WidthsOf(q) = [i \in 1 .. Len(q) |-> WidthOf(q[i])]
    BY <2>1 DEF WidthsOf, WidthOf
  <2> QED BY <2>1, <2>2
<1> HIDE DEF u
<1>3. /\ f \in Seq(Nat) /\ Len(f) = Len(s) /\ \A i \in 1 .. Len(s) : f[i] = WidthOf(s[i])
      /\ g \in Seq(Nat) /\ Len(g) = Len(t) /\ \A i \in 1 .. Len(t) : g[i] = WidthOf(t[i])
  BY <1>2, Zenon
<1>4. EndOf(s) = Sum(f) /\ EndOf(t) = Sum(g) /\ EndOf(u) = Sum(WidthsOf(u))
  BY <1>1, <1>2, EndOfIs
<1> HIDE DEF f, g
<1>5. /\ h \in Seq(Nat) /\ Len(h) = Len(f) + Len(g)
      /\ \A i \in 1 .. Len(f) + Len(g) :
           h[i] = IF i <= Len(f) THEN f[i] ELSE g[i - Len(f)]
  <2>1. f \in Seq(Nat) /\ g \in Seq(Nat)
    BY <1>3
  <2> QED BY Zenon, ConcatProperties, <2>1
<1>6. Sum(h) = Sum(f) + Sum(g)
  BY <1>3, SumOfBoth
<1> HIDE DEF h
<1>7. WidthsOf(u) = h
  <2> DEFINE w == WidthsOf(u)
  <2>1. w \in Seq(Nat) /\ Len(w) = Len(u) /\ \A i \in 1 .. Len(u) : w[i] = WidthOf(u[i])
    BY <1>1, <1>2, Zenon
  <2> HIDE DEF w
  <2>2. Len(w) = Len(h) /\ \A i \in 1 .. Len(h) : w[i] = h[i]
    <3>1. Len(w) = Len(h) /\ Len(s) \in Nat /\ Len(t) \in Nat
      BY <2>1, <1>1, <1>3, <1>5
    <3>2. ASSUME NEW i \in 1 .. Len(h) PROVE w[i] = h[i]
      <4>1. CASE i <= Len(s)
        <5>1. i \in 1 .. Len(s) /\ i \in 1 .. Len(u) /\ i \in 1 .. Len(f) + Len(g)
          BY <4>1, <3>1, <1>1, <1>3, <1>5
        <5>2. w[i] = WidthOf(u[i]) /\ f[i] = WidthOf(s[i])
          BY <5>1, <2>1, <1>3
        <5>3. u[i] = s[i] /\ h[i] = f[i]
          BY <4>1, <5>1, <1>1, <1>3, <1>5
        <5> QED BY <5>2, <5>3
      <4>2. CASE ~(i <= Len(s))
        <5>1. i - Len(s) \in 1 .. Len(t)
          BY <4>2, <3>1, <1>3, <1>5
        <5>2. i \in 1 .. Len(u) /\ i \in 1 .. Len(f) + Len(g)
          BY <3>1, <1>1, <1>3, <1>5
        <5>3. w[i] = WidthOf(u[i]) /\ g[i - Len(s)] = WidthOf(t[i - Len(s)])
          BY <5>1, <5>2, <2>1, <1>3
        <5>4. u[i] = t[i - Len(s)] /\ h[i] = g[i - Len(s)]
          BY <4>2, <5>2, <1>1, <1>3, <1>5
        <5> QED BY <5>3, <5>4
      <4> QED BY <4>1, <4>2
    <3> QED BY <3>1, <3>2
  <2>3. w = h
    BY <2>1, <2>2, <1>5
  <2> QED BY <2>3 DEF w
<1> QED BY <1>1, <1>4, <1>6, <1>7 DEF u

\* The ends of a few fields that follow each other.
LEMMA EndOfFew ==
  /\ \A a : WidthOf(a) \in Nat => EndOf(<<a>>) = WidthOf(a)
  /\ \A a, b : WidthOf(a) \in Nat /\ WidthOf(b) \in Nat =>
       EndOf(<<a, b>>) = WidthOf(a) + WidthOf(b)
  /\ \A a, b, c : WidthOf(a) \in Nat /\ WidthOf(b) \in Nat /\ WidthOf(c) \in Nat =>
       EndOf(<<a, b, c>>) = WidthOf(a) + WidthOf(b) + WidthOf(c)
  /\ \A a, b, c, d : (WidthOf(a) \in Nat /\ WidthOf(b) \in Nat
                       /\ WidthOf(c) \in Nat /\ WidthOf(d) \in Nat) =>
       EndOf(<<a, b, c, d>>) = WidthOf(a) + WidthOf(b) + WidthOf(c) + WidthOf(d)
<1>1. ASSUME NEW a, WidthOf(a) \in Nat
      PROVE  EndOf(<<a>>) = WidthOf(a)
  <2> DEFINE s == <<a>>
             w == WidthsOf(s)
  <2>1. w = [i \in 1 .. 1 |-> WidthOf(s[i])]
    BY DEF WidthsOf, WidthOf
  <2>2. s[1] = a
    OBVIOUS
  <2> HIDE DEF s
  <2>3. w \in Seq(Nat) /\ Len(w) = 1 /\ w[1] = WidthOf(a)
    BY <1>1, <2>1, <2>2
  <2>4. EndOf(s) = Sum(w) /\ Sum(w) = w[1]
    BY <2>3, SumOfFew, EndOfIs
  <2> HIDE DEF w
  <2> QED BY <2>3, <2>4 DEF s
<1>2. ASSUME NEW a, NEW b, WidthOf(a) \in Nat, WidthOf(b) \in Nat
      PROVE  EndOf(<<a, b>>) = WidthOf(a) + WidthOf(b)
  <2> DEFINE s == <<a, b>>
             w == WidthsOf(s)
  <2>1. w = [i \in 1 .. 2 |-> WidthOf(s[i])]
    BY DEF WidthsOf, WidthOf
  <2>2. s[1] = a /\ s[2] = b
    OBVIOUS
  <2> HIDE DEF s
  <2>3. w \in Seq(Nat) /\ Len(w) = 2 /\ w[1] = WidthOf(a) /\ w[2] = WidthOf(b)
    BY <1>2, <2>1, <2>2
  <2>4. EndOf(s) = Sum(w) /\ Sum(w) = w[1] + w[2]
    BY <2>3, SumOfFew, EndOfIs
  <2> HIDE DEF w
  <2> QED BY <2>3, <2>4 DEF s
<1>3. ASSUME NEW a, NEW b, NEW c,
             WidthOf(a) \in Nat, WidthOf(b) \in Nat, WidthOf(c) \in Nat
      PROVE  EndOf(<<a, b, c>>) = WidthOf(a) + WidthOf(b) + WidthOf(c)
  <2> DEFINE s == <<a, b, c>>
             w == WidthsOf(s)
  <2>1. w = [i \in 1 .. 3 |-> WidthOf(s[i])]
    BY DEF WidthsOf, WidthOf
  <2>2. s[1] = a /\ s[2] = b /\ s[3] = c
    OBVIOUS
  <2> HIDE DEF s
  <2>3. /\ w \in Seq(Nat) /\ Len(w) = 3
        /\ w[1] = WidthOf(a) /\ w[2] = WidthOf(b) /\ w[3] = WidthOf(c)
    BY <1>3, <2>1, <2>2
  <2>4. EndOf(s) = Sum(w) /\ Sum(w) = w[1] + w[2] + w[3]
    BY <2>3, SumOfFew, EndOfIs
  <2> HIDE DEF w
  <2> QED BY <2>3, <2>4 DEF s
<1>4. ASSUME NEW a, NEW b, NEW c, NEW d, WidthOf(a) \in Nat, WidthOf(b) \in Nat,
             WidthOf(c) \in Nat, WidthOf(d) \in Nat
      PROVE  EndOf(<<a, b, c, d>>) = WidthOf(a) + WidthOf(b) + WidthOf(c) + WidthOf(d)
  <2> DEFINE s == <<a, b, c, d>>
             w == WidthsOf(s)
  <2>1. w = [i \in 1 .. 4 |-> WidthOf(s[i])]
    BY DEF WidthsOf, WidthOf
  <2>2. s[1] = a /\ s[2] = b /\ s[3] = c /\ s[4] = d
    OBVIOUS
  <2> HIDE DEF s
  <2>3. /\ w \in Seq(Nat) /\ Len(w) = 4 /\ w[1] = WidthOf(a)
        /\ w[2] = WidthOf(b) /\ w[3] = WidthOf(c) /\ w[4] = WidthOf(d)
    BY <1>4, <2>1, <2>2
  <2>4. EndOf(s) = Sum(w) /\ Sum(w) = w[1] + w[2] + w[3] + w[4]
    BY <2>3, SumOfFew, EndOfIs
  <2> HIDE DEF w
  <2> QED BY <2>3, <2>4 DEF s
<1> QED BY <1>1, <1>2, <1>3, <1>4

LEMMA FieldsHaveWidths ==
  /\ \A f \in FieldsNamed : WidthOf(f) \in Nat
  /\ \A n : /\ WidthOf(u8(n)) = 1 /\ WidthOf(u16(n)) = 2
            /\ WidthOf(u32(n)) = 4 /\ WidthOf(u64(n)) = 8
  /\ \A n : \A k \in Nat : WidthOf(bytes(n, k)) = k
<1>1. ASSUME NEW f \in FieldsNamed PROVE WidthOf(f) \in Nat
  BY DEF WidthOf, FieldsNamed, Widths
<1>2. \A n : /\ WidthOf(u8(n)) = 1 /\ WidthOf(u16(n)) = 2
            /\ WidthOf(u32(n)) = 4 /\ WidthOf(u64(n)) = 8
  BY DEF WidthOf, u8, u16, u32, u64, Field
<1>3. \A n : \A k \in Nat : WidthOf(bytes(n, k)) = k
  BY DEF WidthOf, bytes, Field
<1> QED BY <1>1, <1>2, <1>3

LEMMA EndOfHeader == EndOf(ofp_header) = 8
BY FieldsHaveWidths, EndOfFew DEF ofp_header

\* The structures that the header leads.
LEMMA EndBehindHeader ==
  ASSUME NEW t \in Seq(FieldsNamed)
  PROVE  EndOf(ofp_header \o t) = 8 + EndOf(t) /\ ofp_header \o t \in Seq(FieldsNamed)
<1>1. ofp_header \in Seq(FieldsNamed)
  <2>1. /\ u8("version") \in FieldsNamed /\ u8("type") \in FieldsNamed
        /\ u16("length") \in FieldsNamed /\ u32("xid") \in FieldsNamed
    BY DEF u8, u16, u32, Field, FieldsNamed, Widths, Names
  <2> QED BY <2>1 DEF ofp_header
<1>2. \A f \in FieldsNamed : WidthOf(f) \in Nat
  BY FieldsHaveWidths
<1> QED BY Zenon, <1>1, <1>2, EndOfHeader, EndOfBoth

\* The lists of 5 and 6 widths.
LEMMA SumOfSix ==
  ASSUME NEW w \in Seq(Nat)
  PROVE  /\ Len(w) = 5 => Sum(w) = w[1] + w[2] + w[3] + w[4] + w[5]
         /\ Len(w) = 6 => Sum(w) = w[1] + w[2] + w[3] + w[4] + w[5] + w[6]
<1>1. \A k \in Nat, n \in Nat :
        k < Len(w) /\ n = k + 1 => Before(w, n) = Before(w, k) + w[n]
  BY BeforeMore
<1>2. Before(w, 0) = 0 /\ Before(w, Len(w)) = Sum(w)
  <2>1. Len(w) \in Nat /\ Len(w) <= Len(w) /\ 0 <= Len(w)
    OBVIOUS
  <2> QED BY <2>1, BeforeMore
<1>3. Len(w) >= 5 => /\ w[1] \in Nat /\ w[2] \in Nat /\ w[3] \in Nat
                     /\ w[4] \in Nat /\ w[5] \in Nat
  OBVIOUS
<1>4. Len(w) >= 5 => /\ Before(w, 1) = Before(w, 0) + w[1]
                     /\ Before(w, 2) = Before(w, 1) + w[2]
                     /\ Before(w, 3) = Before(w, 2) + w[3]
                     /\ Before(w, 4) = Before(w, 3) + w[4]
                     /\ Before(w, 5) = Before(w, 4) + w[5]
  BY <1>1
<1>5. Len(w) >= 6 => Before(w, 6) = Before(w, 5) + w[6] /\ w[6] \in Nat
  BY <1>1
<1>6. Len(w) = 5 => Sum(w) = w[1] + w[2] + w[3] + w[4] + w[5]
  BY <1>2, <1>3, <1>4
<1>7. Len(w) = 6 => Sum(w) = w[1] + w[2] + w[3] + w[4] + w[5] + w[6]
  BY <1>2, <1>3, <1>4, <1>5
<1> QED BY <1>6, <1>7

LEMMA EndsOfFew ==
  ASSUME NEW s \in Seq(FieldsNamed)
  PROVE  /\ Len(s) = 5 =>
              EndOf(s) = WidthOf(s[1]) + WidthOf(s[2]) + WidthOf(s[3]) + WidthOf(s[4])
                           + WidthOf(s[5])
         /\ Len(s) = 6 =>
              EndOf(s) = WidthOf(s[1]) + WidthOf(s[2]) + WidthOf(s[3]) + WidthOf(s[4])
                           + WidthOf(s[5]) + WidthOf(s[6])
<1> DEFINE w == WidthsOf(s)
<1>1. DOMAIN s = 1 .. Len(s) /\ Len(s) \in Nat /\ \A i \in DOMAIN s : s[i] \in FieldsNamed
  OBVIOUS
<1>2. w = [i \in 1 .. Len(s) |-> WidthOf(s[i])]
  BY <1>1 DEF WidthsOf, WidthOf
<1>3. \A i \in 1 .. Len(s) : WidthOf(s[i]) \in Nat
  BY <1>1, FieldsHaveWidths
<1> HIDE DEF w
<1>4. /\ w \in Seq(Nat) /\ Len(w) = Len(s)
      /\ \A i \in 1 .. Len(s) : w[i] = WidthOf(s[i])
  BY <1>1, <1>2, <1>3
<1>5. EndOf(s) = Sum(w)
  BY <1>4, EndOfIs DEF w
<1>6. /\ Len(s) \in {5, 6} => /\ w[1] = WidthOf(s[1]) /\ w[2] = WidthOf(s[2])
                              /\ w[3] = WidthOf(s[3]) /\ w[4] = WidthOf(s[4])
                              /\ w[5] = WidthOf(s[5])
      /\ Len(s) = 6 => w[6] = WidthOf(s[6])
  BY <1>4
<1>7. ASSUME Len(s) = 5
      PROVE  EndOf(s) = WidthOf(s[1]) + WidthOf(s[2]) + WidthOf(s[3]) + WidthOf(s[4])
                           + WidthOf(s[5])
  <2>1. Sum(w) = w[1] + w[2] + w[3] + w[4] + w[5]
    BY <1>4, <1>7, SumOfSix
  <2> QED BY <2>1, <1>5, <1>6, <1>7
<1>8. ASSUME Len(s) = 6
      PROVE  EndOf(s) = WidthOf(s[1]) + WidthOf(s[2]) + WidthOf(s[3]) + WidthOf(s[4])
                           + WidthOf(s[5]) + WidthOf(s[6])
  <2>1. Sum(w) = w[1] + w[2] + w[3] + w[4] + w[5] + w[6]
    BY <1>4, <1>8, SumOfSix
  <2> QED BY <2>1, <1>5, <1>6, <1>8
<1> QED BY <1>7, <1>8

LEMMA FieldsAreNamed ==
  ASSUME NEW f \in Names
  PROVE  /\ u8(f) \in FieldsNamed /\ u16(f) \in FieldsNamed
         /\ u32(f) \in FieldsNamed /\ u64(f) \in FieldsNamed
         /\ \A n \in Nat : bytes(f, n) \in FieldsNamed
BY DEF u8, u16, u32, u64, bytes, Field, FieldsNamed, Widths

LEMMA EndsOfConfig ==
  /\ EndOf(ofp_switch_features) = 32 /\ EndOf(ofp_packet_in) = 18
  /\ EndOf(ofp_packet_out) = 16 /\ EndOf(ofp_queue_get_config_reply) = 16
<1>1. EndOf(ofp_switch_features) = 32
  <2> DEFINE t == <<u64("datapath_id"), u32("n_buffers"), u8("n_tables"),
                    bytes("pad", 3), u32("capabilities"), u32("actions")>>
  <2>1. t \in Seq(FieldsNamed) /\ Len(t) = 6
    BY FieldsAreNamed DEF Names
  <2>2. /\ WidthOf(t[1]) = 8 /\ WidthOf(t[2]) = 4 /\ WidthOf(t[3]) = 1
        /\ WidthOf(t[4]) = 3 /\ WidthOf(t[5]) = 4 /\ WidthOf(t[6]) = 4
    BY FieldsHaveWidths
  <2>3. ofp_switch_features = ofp_header \o t
    BY DEF ofp_switch_features
  <2> HIDE DEF t
  <2>4. EndOf(t) = 24
    BY <2>1, <2>2, EndsOfFew
  <2>5. EndOf(ofp_header \o t) = 8 + EndOf(t)
    BY Zenon, <2>1, EndBehindHeader
  <2> QED BY <2>3, <2>4, <2>5
<1>2. EndOf(ofp_packet_in) = 18
  <2> DEFINE t == <<u32("buffer_id"), u16("total_len"), u16("in_port"),
                    u8("reason"), bytes("pad", 1)>>
  <2>1. t \in Seq(FieldsNamed) /\ Len(t) = 5
    BY FieldsAreNamed DEF Names
  <2>2. /\ WidthOf(t[1]) = 4 /\ WidthOf(t[2]) = 2 /\ WidthOf(t[3]) = 2
        /\ WidthOf(t[4]) = 1 /\ WidthOf(t[5]) = 1
    BY FieldsHaveWidths
  <2>3. ofp_packet_in = ofp_header \o t
    BY DEF ofp_packet_in
  <2> HIDE DEF t
  <2>4. EndOf(t) = 10
    BY <2>1, <2>2, EndsOfFew
  <2>5. EndOf(ofp_header \o t) = 8 + EndOf(t)
    BY Zenon, <2>1, EndBehindHeader
  <2> QED BY <2>3, <2>4, <2>5
<1>3. EndOf(ofp_packet_out) = 16
  <2> DEFINE t == <<u32("buffer_id"), u16("in_port"), u16("actions_len")>>
  <2>1. t \in Seq(FieldsNamed)
    BY FieldsAreNamed DEF Names
  <2>2. EndOf(t) = 8
    BY FieldsHaveWidths, EndOfFew
  <2>3. ofp_packet_out = ofp_header \o t
    BY DEF ofp_packet_out
  <2> HIDE DEF t
  <2>4. EndOf(ofp_header \o t) = 8 + EndOf(t)
    BY Zenon, <2>1, EndBehindHeader
  <2> QED BY <2>2, <2>3, <2>4
<1>4. EndOf(ofp_queue_get_config_reply) = 16
  <2> DEFINE t == <<u16("port"), bytes("pad", 6)>>
  <2>1. t \in Seq(FieldsNamed)
    BY FieldsAreNamed DEF Names
  <2>2. EndOf(t) = 8
    BY FieldsHaveWidths, EndOfFew
  <2>3. ofp_queue_get_config_reply = ofp_header \o t
    BY DEF ofp_queue_get_config_reply
  <2> HIDE DEF t
  <2>4. EndOf(ofp_header \o t) = 8 + EndOf(t)
    BY Zenon, <2>1, EndBehindHeader
  <2> QED BY <2>2, <2>3, <2>4
<1> QED BY <1>1, <1>2, <1>3, <1>4

LEMMA EndOfMatch == EndOf(ofp_match) = 40 /\ ofp_match \in Seq(FieldsNamed)
<1> DEFINE m == ofp_match
           w == WidthsOf(m)
<1>1. m \in Seq(FieldsNamed) /\ Len(m) = 15
  BY FieldsAreNamed DEF Names, ofp_match
<1>2. /\ WidthOf(m[1]) = 4 /\ WidthOf(m[2]) = 2 /\ WidthOf(m[3]) = 6
      /\ WidthOf(m[4]) = 6 /\ WidthOf(m[5]) = 2 /\ WidthOf(m[6]) = 1
      /\ WidthOf(m[7]) = 1 /\ WidthOf(m[8]) = 2 /\ WidthOf(m[9]) = 1
      /\ WidthOf(m[10]) = 1 /\ WidthOf(m[11]) = 2 /\ WidthOf(m[12]) = 4
      /\ WidthOf(m[13]) = 4 /\ WidthOf(m[14]) = 2 /\ WidthOf(m[15]) = 2
  BY FieldsHaveWidths DEF ofp_match
<1> HIDE DEF m
<1>3. DOMAIN m = 1 .. 15
  BY <1>1
<1>4. w = [i \in 1 .. 15 |-> WidthOf(m[i])]
  BY <1>3 DEF WidthsOf, WidthOf
<1>5. \A i \in 1 .. 15 : WidthOf(m[i]) \in Nat
  <2>1. m \in Seq(FieldsNamed)
    BY <1>1
  <2>2. \A i \in DOMAIN m : m[i] \in FieldsNamed
    BY <2>1
  <2>3. \A i \in 1 .. 15 : m[i] \in FieldsNamed
    BY <2>2, <1>3
  <2> QED BY <2>3, FieldsHaveWidths
<1> HIDE DEF w
<1>6. /\ w \in Seq(Nat) /\ Len(w) = 15
      /\ w[1] = 4 /\ w[2] = 2 /\ w[3] = 6 /\ w[4] = 6 /\ w[5] = 2
      /\ w[6] = 1 /\ w[7] = 1 /\ w[8] = 2 /\ w[9] = 1 /\ w[10] = 1
      /\ w[11] = 2 /\ w[12] = 4 /\ w[13] = 4 /\ w[14] = 2 /\ w[15] = 2
  BY <1>2, <1>4, <1>5
<1>7. \A k \in Nat, n \in Nat :
        k < 15 /\ n = k + 1 => Before(w, n) = Before(w, k) + w[n]
  <2>1. w \in Seq(Nat) /\ Len(w) = 15
    BY <1>6
  <2>2. ASSUME NEW k \in Nat, k < 15
        PROVE  Before(w, k + 1) = Before(w, k) + w[k + 1]
    <3>1. k <= Len(w) /\ k < Len(w)
      BY <2>1, <2>2
    <3> QED BY <2>1, <3>1, BeforeMore
  <2> QED BY <2>2
<1>8. Before(w, 0) = 0 /\ Before(w, 15) = Sum(w)
  <2>1. 0 <= Len(w) /\ 15 <= Len(w) /\ 15 = Len(w)
    BY <1>6
  <2> QED BY <2>1, <1>6, BeforeMore
<1>9. /\ Before(w, 1) = Before(w, 0) + w[1]
      /\ Before(w, 2) = Before(w, 1) + w[2]
      /\ Before(w, 3) = Before(w, 2) + w[3]
      /\ Before(w, 4) = Before(w, 3) + w[4]
      /\ Before(w, 5) = Before(w, 4) + w[5]
      /\ Before(w, 6) = Before(w, 5) + w[6]
      /\ Before(w, 7) = Before(w, 6) + w[7]
      /\ Before(w, 8) = Before(w, 7) + w[8]
      /\ Before(w, 9) = Before(w, 8) + w[9]
      /\ Before(w, 10) = Before(w, 9) + w[10]
      /\ Before(w, 11) = Before(w, 10) + w[11]
      /\ Before(w, 12) = Before(w, 11) + w[12]
      /\ Before(w, 13) = Before(w, 12) + w[13]
      /\ Before(w, 14) = Before(w, 13) + w[14]
      /\ Before(w, 15) = Before(w, 14) + w[15]
  BY <1>7
<1>10. Before(w, 5) = 20
  BY <1>6, <1>8, <1>9
<1>11. Before(w, 10) = 26
  BY <1>6, <1>9, <1>10
<1>12. Sum(w) = 40
  BY <1>6, <1>8, <1>9, <1>11
<1>13. EndOf(m) = Sum(w)
  BY <1>6, EndOfIs DEF w
<1> QED BY <1>1, <1>12, <1>13 DEF m

LEMMA EndOfEach ==
  ASSUME NEW names \in Seq(Names), Len(names) = 4
  PROVE  EndOf(Each(u16, names)) = 8
<1> DEFINE t == Each(u16, names)
           w == WidthsOf(t)
<1>1. t = [i \in 1 .. 4 |-> u16(names[i])]
  <2>1. DOMAIN names = 1 .. 4
    OBVIOUS
  <2> QED BY <2>1, Zenon DEF Each
<1> HIDE DEF t
<1>2. w = [i \in 1 .. 4 |-> 2]
  <2>1. \A i \in 1 .. 4 : t[i].width * t[i].count = 2
    BY <1>1 DEF u16, Field
  <2>2. DOMAIN t = 1 .. 4
    BY <1>1
  <2> QED BY <2>1, <2>2 DEF WidthsOf
<1> HIDE DEF w
<1>3. w \in Seq(Nat) /\ Len(w) = 4 /\ w[1] = 2 /\ w[2] = 2 /\ w[3] = 2 /\ w[4] = 2
  BY <1>2
<1>4. Sum(w) = 8
  BY <1>3, SumOfFew
<1>5. EndOf(t) = Sum(w)
  BY <1>3, EndOfIs DEF w
<1> QED BY <1>4, <1>5 DEF t

LEMMA EndOfFlowMod == EndOf(ofp_flow_mod) = 72
<1> DEFINE c == <<u64("cookie")>>
           names == <<"command", "idle_timeout", "hard_timeout", "priority">>
           e == Each(u16, names)
           l == <<u32("buffer_id"), u16("out_port"), u16("flags")>>
           a == ofp_header \o ofp_match
           b == a \o c
           d == b \o e
<1>1. names \in Seq(Names) /\ Len(names) = 4
  BY DEF Names
<1>2. e \in Seq(FieldsNamed) /\ EndOf(e) = 8
  <2> HIDE DEF names
  <2>1. Each(u16, names) \in Seq(FieldsNamed)
    BY <1>1, EachIsStruct, Zenon
  <2>2. EndOf(Each(u16, names)) = 8
    BY <1>1, EndOfEach, Zenon
  <2> QED BY <2>1, <2>2
<1>3. c \in Seq(FieldsNamed) /\ l \in Seq(FieldsNamed)
  BY FieldsAreNamed DEF Names
<1>4. EndOf(c) = 8 /\ EndOf(l) = 8
  BY FieldsHaveWidths, EndOfFew
<1>5. \A f \in FieldsNamed : WidthOf(f) \in Nat
  BY FieldsHaveWidths
<1>6. ofp_flow_mod = d \o l
  BY DEF ofp_flow_mod
<1> HIDE DEF c, e, l
<1>7. a \in Seq(FieldsNamed) /\ EndOf(a) = 48
  BY EndOfMatch, EndBehindHeader
<1> HIDE DEF a
<1>8. b \in Seq(FieldsNamed) /\ EndOf(b) = EndOf(a) + EndOf(c)
  BY Zenon, <1>3, <1>5, <1>7, EndOfBoth
<1> HIDE DEF b
<1>9. d \in Seq(FieldsNamed) /\ EndOf(d) = EndOf(b) + EndOf(e)
  BY Zenon, <1>2, <1>5, <1>8, EndOfBoth
<1> HIDE DEF d
<1>10. EndOf(d \o l) = EndOf(d) + EndOf(l)
  BY Zenon, <1>3, <1>5, <1>9, EndOfBoth
<1> QED BY <1>2, <1>4, <1>6, <1>7, <1>8, <1>9, <1>10

-----------------------------------------------------------------------------
(***************************************************************************)
(* The lengths of the fixed parts that the creators make, and what the     *)
(* validator of the same kind allows.                                      *)
(***************************************************************************)
\* What the validator of a kind allows.
Allows(kind, n) == Size[kind].min <= n /\ n <= Size[kind].max
Unlimited(kind) == Size[kind].max = Max16

LEMMA CreatorMakesSize ==
  \A kind \in OfOneSize : \E n : Short(n) /\ Allows(kind, n) /\ Makes(kind, n)
<1>1. EndOf(ofp_stats_request) = 12 /\ EndOf(ofp_stats_reply) = 12
  BY EndOfReply DEF ofp_stats_reply
<1>2. /\ Short(8) /\ Short(12) /\ Short(88) /\ Short(64) /\ Short(32) /\ Short(56)
      /\ Short(20) /\ Short(1068) /\ Short(36)
  BY DEF Short
<1>3. /\ Makes("HELLO", 8) /\ Makes("FEATURES_REQUEST", 8)
      /\ Makes("GET_CONFIG_REQUEST", 8) /\ Makes("GET_CONFIG_REPLY", 12)
      /\ Makes("SET_CONFIG", 12)
  BY ZenonT(60), OfpAssertions
     DEF Makes, PlanOf, cc_create_hello, cc_create_features_request,
     cc_create_get_config_request, cc_create_get_config_reply, cc_create_set_config
<1>4. /\ Makes("FLOW_REMOVED", 88) /\ Makes("PORT_STATUS", 64) /\ Makes("PORT_MOD", 32)
      /\ Makes("BARRIER_REQUEST", 8) /\ Makes("BARRIER_REPLY", 8)
      /\ Makes("QUEUE_GET_CONFIG_REQUEST", 12)
  BY ZenonT(60), OfpAssertions
     DEF Makes, PlanOf, cc_create_flow_removed, cc_create_port_status,
     cc_create_port_mod, cc_create_barrier_request, cc_create_barrier_reply,
     cc_create_queue_get_config_request
<1> DEFINE q == EndOf(ofp_stats_request)
           r == EndOf(ofp_stats_reply)
<1>5. /\ Makes("DESC_REQUEST", q + 0) /\ Makes("FLOW_REQUEST", q + 44)
      /\ Makes("AGGREGATE_REQUEST", q + 44) /\ Makes("TABLE_REQUEST", q + 0)
      /\ Makes("PORT_REQUEST", q + 8) /\ Makes("QUEUE_REQUEST", q + 8)
  BY ZenonT(60), OfpAssertions DEF Makes, PlanOf, cc_create_stats_request,
     cc_create_desc_stats_request, cc_create_flow_stats_request,
     cc_create_aggregate_stats_request, cc_create_table_stats_request,
     cc_create_port_stats_request, cc_create_queue_stats_request,
     ofp_aggregate_stats_request
<1>6. Makes("DESC_REPLY", r + 1056) /\ Makes("AGGREGATE_REPLY", r + 24)
  BY OfpAssertions DEF Makes, PlanOf, cc_create_stats_reply,
     cc_create_desc_stats_reply, cc_create_aggregate_stats_reply
<1>7. /\ q + 0 = 12 /\ q + 44 = 56 /\ q + 8 = 20 /\ r + 1056 = 1068 /\ r + 24 = 36
  BY <1>1
<1> HIDE DEF q, r
<1>8. /\ Makes("DESC_REQUEST", 12) /\ Makes("FLOW_REQUEST", 56)
      /\ Makes("AGGREGATE_REQUEST", 56) /\ Makes("TABLE_REQUEST", 12)
      /\ Makes("PORT_REQUEST", 20) /\ Makes("QUEUE_REQUEST", 20)
      /\ Makes("DESC_REPLY", 1068) /\ Makes("AGGREGATE_REPLY", 36)
  BY <1>5, <1>6, <1>7
<1>9. /\ \A k \in {"HELLO", "FEATURES_REQUEST", "GET_CONFIG_REQUEST",
                   "BARRIER_REQUEST", "BARRIER_REPLY"} : Allows(k, 8)
      /\ \A k \in {"GET_CONFIG_REPLY", "SET_CONFIG", "QUEUE_GET_CONFIG_REQUEST",
                   "DESC_REQUEST", "TABLE_REQUEST"} : Allows(k, 12)
      /\ \A k \in {"FLOW_REQUEST", "AGGREGATE_REQUEST"} : Allows(k, 56)
      /\ \A k \in {"PORT_REQUEST", "QUEUE_REQUEST"} : Allows(k, 20)
  BY DEF Allows, Size, Exactly
<1>10. /\ Allows("FLOW_REMOVED", 88) /\ Allows("PORT_STATUS", 64)
       /\ Allows("PORT_MOD", 32) /\ Allows("DESC_REPLY", 1068)
       /\ Allows("AGGREGATE_REPLY", 36)
  BY DEF Allows, Size, Exactly
<1> QED BY <1>2, <1>3, <1>4, <1>8, <1>9, <1>10 DEF OfOneSize

LEMMA CreatorMakesWithData ==
  \A kind \in WithDataOnly :
    \E n : Short(n) /\ Size[kind].min <= n /\ Unlimited(kind) /\ MakesData(kind, n)
<1> DEFINE q == EndOf(ofp_stats_request)
           r == EndOf(ofp_stats_reply)
           p == EndOf(ofp_packet_in)
<1>1. q + 4 = 16 /\ r + 4 = 16 /\ p = 18
  BY EndOfReply, EndsOfConfig DEF ofp_stats_reply
<1>2. /\ SizeOf(ofp_error_msg) = 12 /\ SizeOf(ofp_vendor_header) = 12
      /\ SizeOf(ofp_header) = 8
  BY OfpAssertions
<1>3. MakesData("ERROR", 12) /\ MakesData("VENDOR", 12)
  BY <1>2 DEF MakesData, PlanOf, cc_create_error, cc_create_vendor
<1>4. MakesData("ECHO_REQUEST", 8) /\ MakesData("ECHO_REPLY", 8)
  BY <1>2 DEF MakesData, PlanOf, cc_create_echo_request, cc_create_echo_reply
<1>5. MakesData("PACKET_IN", p)
  BY DEF MakesData, PlanOf, cc_create_packet_in
<1>6. MakesData("VENDOR_REQUEST", q + 4) /\ MakesData("VENDOR_REPLY", r + 4)
  BY DEF MakesData, PlanOf, cc_create_vendor_stats_request,
     cc_create_vendor_stats_reply
<1> HIDE DEF q, r, p
<1>7. /\ MakesData("PACKET_IN", 18) /\ MakesData("VENDOR_REQUEST", 16)
      /\ MakesData("VENDOR_REPLY", 16)
  BY <1>1, <1>5, <1>6
<1>8. /\ Size["ERROR"].min = 12 /\ Size["VENDOR"].min = 12
      /\ Size["ECHO_REQUEST"].min = 8 /\ Size["ECHO_REPLY"].min = 8
      /\ Size["PACKET_IN"].min = 18 /\ Size["VENDOR_REQUEST"].min = 16
      /\ Size["VENDOR_REPLY"].min = 12 /\ \A k \in WithDataOnly : Unlimited(k)
  BY DEF Size, AtLeast, Unlimited, WithDataOnly
<1>9. Short(12) /\ Short(8) /\ Short(18) /\ Short(16)
  BY DEF Short
<1> QED BY <1>3, <1>4, <1>7, <1>8, <1>9 DEF WithDataOnly

LEMMA CreatorMakesWithArray ==
  \A kind \in WithArrayOnly : \E n :
    /\ Short(n) /\ n = Size[kind].min /\ Unlimited(kind)
    /\ n = Arrays[kind].from /\ Arrays[kind].size = SizeOf(Structure[kind][1])
    /\ MakesArray(kind, n, Structure[kind][1])
<1> DEFINE f == EndOf(ofp_switch_features)
           r == EndOf(ofp_stats_reply)
<1>1. f = 32 /\ r = 12 /\ Short(32) /\ Short(12)
  BY EndsOfConfig, EndOfReply DEF Short
<1>2. MakesArray("FEATURES_REPLY", f, ofp_phy_port)
  BY DEF MakesArray, PlanOf, cc_create_features_reply
<1>3. /\ MakesArray("TABLE_REPLY", r, ofp_table_stats)
      /\ MakesArray("PORT_REPLY", r, ofp_port_stats)
      /\ MakesArray("QUEUE_REPLY", r, ofp_queue_stats)
  BY ZenonT(60) DEF MakesArray, PlanOf, cc_create_table_stats_reply,
     cc_create_port_stats_reply, cc_create_queue_stats_reply
<1>4. /\ Structure["FEATURES_REPLY"][1] = ofp_phy_port
      /\ Structure["TABLE_REPLY"][1] = ofp_table_stats
      /\ Structure["PORT_REPLY"][1] = ofp_port_stats
      /\ Structure["QUEUE_REPLY"][1] = ofp_queue_stats
  BY DEF Structure
<1> HIDE DEF f, r
<1>5. /\ Size["FEATURES_REPLY"].min = 32 /\ Size["TABLE_REPLY"].min = 12
      /\ Size["PORT_REPLY"].min = 12 /\ Size["QUEUE_REPLY"].min = 12
      /\ \A k \in WithArrayOnly : Unlimited(k)
  BY DEF Size, AtLeast, Unlimited, WithArrayOnly
<1>6. /\ Arrays["FEATURES_REPLY"].from = 32 /\ Arrays["TABLE_REPLY"].from = 12
      /\ Arrays["PORT_REPLY"].from = 12 /\ Arrays["QUEUE_REPLY"].from = 12
      /\ Arrays["FEATURES_REPLY"].size = SizeOf(ofp_phy_port)
      /\ Arrays["TABLE_REPLY"].size = SizeOf(ofp_table_stats)
      /\ Arrays["PORT_REPLY"].size = SizeOf(ofp_port_stats)
      /\ Arrays["QUEUE_REPLY"].size = SizeOf(ofp_queue_stats)
  BY OfpAssertions DEF Arrays
<1> QED BY <1>1, <1>2, <1>3, <1>4, <1>5, <1>6 DEF WithArrayOnly

\* The creator of a kind makes a fixed part of n octets, then a list and data.
MakesListOf(kind, n) ==
  \A d : d.kind = kind =>
    PlanOf(d) = WithList(n, d.items, IF kind = "PACKET_OUT" THEN d.data ELSE 0)

LEMMA CreatorMakesWithList ==
  \A kind \in WithItems : \E n :
    /\ Short(n) /\ Unlimited(kind) /\ MakesListOf(kind, n)
    /\ n = IF kind = "FLOW_MOD" THEN 72 ELSE IF kind = "FLOW_REPLY" THEN 12 ELSE 16
    /\ Size[kind].min = IF kind = "QUEUE_GET_CONFIG_REPLY" THEN 24 ELSE n
<1> DEFINE p == EndOf(ofp_packet_out)
           m == EndOf(ofp_flow_mod)
           r == EndOf(ofp_stats_reply)
           q == EndOf(ofp_queue_get_config_reply)
<1>1. p = 16 /\ m = 72 /\ r = 12 /\ q = 16
  BY EndsOfConfig, EndOfReply, EndOfFlowMod
<1>2. /\ MakesListOf("PACKET_OUT", p) /\ MakesListOf("FLOW_MOD", m)
      /\ MakesListOf("FLOW_REPLY", r) /\ MakesListOf("QUEUE_GET_CONFIG_REPLY", q)
  BY SMTT(20) DEF MakesListOf, PlanOf, cc_create_packet_out, cc_create_flow_mod,
     cc_create_flow_stats_reply, cc_create_queue_get_config_reply
<1> HIDE DEF p, m, r, q
<1>3. /\ Size["PACKET_OUT"].min = 16 /\ Size["FLOW_MOD"].min = 72
      /\ Size["FLOW_REPLY"].min = 12 /\ Size["QUEUE_GET_CONFIG_REPLY"].min = 24
      /\ \A k \in WithItems : Unlimited(k)
  BY DEF Size, AtLeast, Unlimited, WithItems
<1>4. Short(16) /\ Short(72) /\ Short(12)
  BY DEF Short
<1> QED BY <1>1, <1>2, <1>3, <1>4 DEF WithItems

-----------------------------------------------------------------------------
(***************************************************************************)
(* What a creator makes of a content that fits is as long as the content   *)
(* needs, and as its validator allows.                                     *)
(***************************************************************************)
LEMMA DataOfContents ==
  ASSUME NEW c \in Contents
  PROVE  /\ c.kind \in OfOneSize \cup WithArrayOnly => c.data = 0
         /\ c.kind \in WithItems /\ c.kind # "PACKET_OUT" => c.data = 0
         /\ c.kind \in OfOneSize \cup WithDataOnly \cup WithArrayOnly \cup WithItems
BY DEF Contents, Of, OfOneSize, WithDataOnly, WithArrayOnly, WithItems

\* The octets in front of the list.
FixedLength(kind) ==
  IF kind = "FLOW_MOD" THEN 72 ELSE IF kind = "FLOW_REPLY" THEN 12 ELSE 16

\* A message that fits is made as long as it needs to be, and as its validator
\* allows.
LEMMA PlanIsNeeded ==
  ASSUME NEW c \in Contents, Fits(c)
  PROVE  /\ PlanOf(c).length = NeededLength(c)
         /\ NeededLength(c) \in Nat /\ NeededLength(c) <= Max16 /\ 8 <= NeededLength(c)
         /\ c.kind \notin WithItems => Allows(c.kind, NeededLength(c))
         /\ c.kind \in WithItems =>
              /\ NeededLength(c) = FixedLength(c.kind) + c.data + SumOfLengths(c.items)
              /\ c.data \in Nat /\ SumOfLengths(c.items) \in Nat
              /\ Unlimited(c.kind)
              /\ Size[c.kind].min = IF c.kind = "QUEUE_GET_CONFIG_REPLY" THEN 24
                                    ELSE FixedLength(c.kind)
         /\ c.kind \in WithArrayOnly =>
              /\ Arrays[c.kind].from \in Nat
              /\ Arrays[c.kind].size \in {32, 48, 64, 104} /\ c.count \in Nat
              /\ NeededLength(c) = Arrays[c.kind].from + c.count * Arrays[c.kind].size
<1> DEFINE e == EmptyOf(c)
           t == SumOfLengths(c.items)
           need == NeededLength(c)
<1>0. LengthsOf(<<>>) = <<>>
  BY DEF LengthsOf
<1>a. Content(c) /\ Itemized(c)
  BY ContentsAre, ContentsAreItemized
<1>1. /\ e.kind = c.kind /\ e.data = 0 /\ e.count = 0 /\ e.items = <<>>
      /\ c.data \in Nat /\ c.count \in Nat
  BY <1>a DEF EmptyOf, Content
<1>2. t = Sum(LengthsOf(c.items)) /\ t \in Nat /\ (c.items = <<>> => t = 0)
  BY <1>a, <1>0, SumOfLengthsIs, SumOfNone DEF Content
<1>3. SumOfLengths(<<>>) = 0
  BY <1>0, SumOfLengthsIs, NothingIsMeasured, SumOfNone
<1>4. /\ need = PlanOf(e).length + c.data + t
                  + (IF c.kind \in WithArrayOnly
                     THEN c.count * SizeOf(Structure[c.kind][1]) ELSE 0)
      /\ need <= Max16
  BY DEF Fits, NeededLength
<1>b. /\ c.kind \in OfOneSize \cup WithArrayOnly => c.data = 0
      /\ c.kind \in WithItems /\ c.kind # "PACKET_OUT" => c.data = 0
      /\ c.kind \in OfOneSize \cup WithDataOnly \cup WithArrayOnly \cup WithItems
  BY DataOfContents
<1>c. /\ OfOneSize \cap (WithItems \cup WithArrayOnly) = {}
      /\ WithDataOnly \cap (WithItems \cup WithArrayOnly) = {}
      /\ WithArrayOnly \cap WithItems = {}
  BY DEF OfOneSize, WithDataOnly, WithArrayOnly, WithItems
<1> HIDE DEF e, t, need
<1> SUFFICES /\ PlanOf(c).length = need
             /\ need \in Nat /\ 8 <= need
             /\ c.kind \notin WithItems => Allows(c.kind, need)
             /\ c.kind \in WithItems =>
                  /\ need = FixedLength(c.kind) + c.data + t
                  /\ Unlimited(c.kind)
                  /\ Size[c.kind].min = IF c.kind = "QUEUE_GET_CONFIG_REPLY" THEN 24
                                        ELSE FixedLength(c.kind)
             /\ c.kind \in WithArrayOnly =>
                  /\ Arrays[c.kind].from \in Nat
                  /\ Arrays[c.kind].size \in {32, 48, 64, 104}
                  /\ need = Arrays[c.kind].from + c.count * Arrays[c.kind].size
  BY <1>1, <1>2, <1>4 DEF need, t
<1>5. CASE c.kind \in OfOneSize
  <2>1. PICK n : Short(n) /\ Allows(c.kind, n) /\ Makes(c.kind, n)
    BY <1>5, CreatorMakesSize
  <2>2. c.items = <<>> /\ c.data = 0
    BY <1>5, <1>a, <1>b, <1>c DEF Itemized
  <2>3. PlanOf(c).length = n /\ PlanOf(e).length = n
    BY <2>1, <1>1, SizeInside DEF Makes
  <2>4. need = n
    BY <2>1, <2>2, <2>3, <1>2, <1>4, <1>5, <1>c, Unwrapped
  <2> QED BY <2>1, <2>3, <2>4, <1>5, <1>c DEF Short
<1>6. CASE c.kind \in WithDataOnly
  <2>1. PICK n : /\ Short(n) /\ Size[c.kind].min <= n /\ Unlimited(c.kind)
                 /\ MakesData(c.kind, n)
    BY <1>6, CreatorMakesWithData
  <2>2. c.items = <<>> /\ c.kind \notin WithArrayOnly
    BY <1>6, <1>a, <1>c DEF Itemized
  <2>3. PlanOf(e).length = n
    <3>1. n \in Nat /\ n + 0 <= Max16 /\ n + 0 = n
      BY <2>1, Unwrapped
    <3>2. PICK copied \in {0, Uint16(0)} : PlanOf(e) = WithData(n, 0, copied)
      BY <2>1, <1>1 DEF MakesData
    <3> QED BY <2>1, <3>1, <3>2, DataInside
  <2>4. need = n + c.data /\ n \in Nat
    BY <2>1, <2>2, <2>3, <1>1, <1>2, <1>4, Unwrapped
  <2>5. PICK copied \in {c.data, Uint16(c.data)} :
            PlanOf(c) = WithData(n, c.data, copied)
    BY <2>1 DEF MakesData
  <2>6. PlanOf(c).length = need
    BY <2>1, <2>4, <2>5, <1>1, <1>4, DataInside
  <2>7. Allows(c.kind, need)
    <3>1. Size[c.kind].min \in Nat
      BY <1>a, SizeBounds DEF Content
    <3> QED BY <3>1, <2>1, <2>4, <1>1, <1>4 DEF Allows, Unlimited
  <2> QED BY <2>1, <2>2, <2>4, <2>6, <2>7, <1>1, <1>6, <1>c DEF Short
<1>7. CASE c.kind \in WithArrayOnly
  <2> DEFINE s == Structure[c.kind][1]
             z == SizeOf(s)
  <2>1. PICK n : /\ Short(n) /\ n = Size[c.kind].min /\ Unlimited(c.kind)
                 /\ n = Arrays[c.kind].from /\ Arrays[c.kind].size = z
                 /\ MakesArray(c.kind, n, s)
    BY <1>7, CreatorMakesWithArray
  <2>2. c.items = <<>> /\ c.data = 0
    BY <1>7, <1>a, <1>b, <1>c DEF Itemized
  <2>3. z \in {32, 48, 64, 104}
    BY <1>7, OfpAssertions DEF WithArrayOnly, Structure
  <2>4. need = PlanOf(e).length + c.data + t + c.count * z
    BY <1>4, <1>7
  <2> HIDE DEF s
  <2>5. PlanOf(e).length = n
    <3>1. n + 0 * z <= Max16 /\ n + 0 * z = n
      BY <2>1, <2>3, Unwrapped
    <3>2. WithArray(n, s, 0).length = n
      BY <2>1, <2>3, <3>1, ArrayInside
    <3>3. PlanOf(e) = WithArray(n, s, 0) \/ PlanOf(e) = OfSize(n)
      BY <2>1, <1>1 DEF MakesArray
    <3> QED BY <2>1, <3>2, <3>3, SizeInside
  <2> DEFINE x == c.count * z
  <2>6. x \in Nat
    BY <2>3, <1>1
  <2>7. need = n + x /\ n \in Nat
    <3>1. n \in Nat
      BY <2>1 DEF Short
    <3>2. need = n + c.data + t + x
      BY <2>4, <2>5
    <3>3. c.data = 0 /\ t = 0
      BY <2>2, <1>2
    <3> HIDE DEF x
    <3> QED BY <3>1, <3>2, <3>3, <2>6
  <2>8. PlanOf(c).length = n + x
    <3>1. n + c.count * SizeOf(s) <= Max16
      BY <2>7, <1>4
    <3>2. WithArray(n, s, c.count).length = n + x
      BY <2>1, <2>3, <3>1, <1>1, ArrayInside
    <3>3. CASE PlanOf(c) = WithArray(n, s, c.count)
      BY <3>2, <3>3
    <3>4. CASE Uint16(c.count) = 0 /\ PlanOf(c) = OfSize(n)
      <4>1. c.count <= x
        BY <2>3, <1>1
      <4>2. c.count <= Max16
        <5> HIDE DEF x
        <5> QED BY <4>1, <2>6, <2>7, <1>1, <1>4, Max16Is
      <4>3. c.count = 0
        BY <3>4, <4>2, <1>1, Unwrapped
      <4>4. x = 0
        BY <4>3, <2>3
      <4>5. PlanOf(c).length = n
        BY <3>4, <2>1, SizeInside
      <4> HIDE DEF x
      <4> QED BY <4>4, <4>5, <2>7
    <3> QED BY <3>3, <3>4, <2>1 DEF MakesArray
  <2>9. Allows(c.kind, need) /\ 8 <= need
    <3> HIDE DEF x
    <3> QED BY <2>1, <2>6, <2>7, <1>4 DEF Allows, Unlimited, Short
  <2>10. need \in Nat
    <3> HIDE DEF x
    <3> QED BY <2>6, <2>7
  <2>11. need = Arrays[c.kind].from + c.count * Arrays[c.kind].size
    BY <2>1, <2>7
  <2> HIDE DEF x, z
  <2> QED BY <2>1, <2>3, <2>7, <2>8, <2>9, <2>10, <2>11, <1>7, <1>c
<1>8. CASE c.kind \in WithItems
  <2> DEFINE data == IF c.kind = "PACKET_OUT" THEN c.data ELSE 0
  <2>1. PICK n : /\ Short(n) /\ Unlimited(c.kind) /\ MakesListOf(c.kind, n)
                 /\ n = FixedLength(c.kind)
                 /\ Size[c.kind].min = IF c.kind = "QUEUE_GET_CONFIG_REPLY" THEN 24
                                       ELSE n
    BY <1>8, CreatorMakesWithList DEF FixedLength
  <2>2. PlanOf(e).length = n
    <3>1. n + 0 + SumOfLengths(<<>>) <= Max16 /\ n + SumOfLengths(<<>>) + 0 = n
      BY <2>1, <1>3, Unwrapped
    <3>2. PlanOf(e) = WithList(n, <<>>, 0)
      BY <2>1, <1>1 DEF MakesListOf
    <3> QED BY <2>1, <3>1, <3>2, ListInside, NothingIsMeasured
  <2>3. data = c.data
    BY <1>8, <1>b
  <2>4. PlanOf(c) = WithList(n, c.items, data)
    BY <2>1 DEF MakesListOf
  <2> HIDE DEF data
  <2>5. need = n + c.data + t /\ n \in Nat
    <3>1. c.kind \notin WithArrayOnly
      BY <1>8, <1>c
    <3> QED BY <3>1, <2>1, <2>2, <1>1, <1>2, <1>4, Unwrapped
  <2>6. PlanOf(c).length = n + t + c.data
    <3>1. LengthsOf(c.items) \in Seq(Nat)
      BY <1>a DEF Content
    <3>2. n + c.data + SumOfLengths(c.items) <= Max16
      BY <2>5, <1>4 DEF t
    <3> QED BY <3>1, <3>2, <2>1, <2>3, <2>4, <1>1, ListInside DEF t
  <2>7. need \in Nat /\ PlanOf(c).length = need
    BY <2>5, <2>6, <1>1, <1>2
  <2>8. 8 <= need
    BY <2>1, <2>5, <1>1, <1>2 DEF Short
  <2>9. c.kind \notin WithArrayOnly
    BY <1>8, <1>c
  <2> QED BY <2>1, <2>5, <2>7, <2>8, <2>9, <1>8
<1> QED BY <1>5, <1>6, <1>7, <1>8, <1>b

-----------------------------------------------------------------------------
(***************************************************************************)
(* A message that fits, as its validator finds it.                         *)
(***************************************************************************)
\* The message that is handed to the validator.
Given == [kind |-> content.kind, version |-> TRUE,
          header |-> NeededLength(content), length |-> NeededLength(content),
          wrong |-> {}, actions_len |-> ListLength(content.items)]

\* The validator of what fits finds nothing wrong in its fixed part.
LEMMA NothingWrong ==
  ASSUME content \in Contents, Fits(content),
         content.kind = "QUEUE_GET_CONFIG_REPLY" => NeededLength(content) >= 24
  PROVE  FixedPartError(Given, content.kind) = "SUCCESS"
<1> DEFINE v == content.kind
           n == NeededLength(content)
           m == Given
           s == FieldErrors(v)
           first == SelectInSeq(s, LAMBDA e : e \in m.wrong)
<1>1. v \in Validators
  BY ContentsAre DEF Content
<1>2. /\ m.kind = v /\ m.version = TRUE /\ m.header = n /\ m.length = n /\ m.wrong = {}
      /\ n \in Nat /\ n <= Max16 /\ 8 <= n
  BY PlanIsNeeded DEF Given
<1>3. Allows(v, n)
  <2>1. CASE v \notin WithItems
    BY <2>1, PlanIsNeeded
  <2>2. CASE v \in WithItems
    <3>1. /\ n = FixedLength(v) + content.data + SumOfLengths(content.items)
          /\ content.data \in Nat /\ SumOfLengths(content.items) \in Nat
          /\ Unlimited(v) /\ FixedLength(v) \in Nat
          /\ Size[v].min = IF v = "QUEUE_GET_CONFIG_REPLY" THEN 24 ELSE FixedLength(v)
      BY <2>2, PlanIsNeeded DEF FixedLength
    <3>2. n <= Size[v].max
      BY <3>1, <1>2 DEF Unlimited
    <3>3. Size[v].min <= n
      <4>1. CASE v = "QUEUE_GET_CONFIG_REPLY"
        BY <3>1, <4>1, <1>2
      <4>2. CASE v # "QUEUE_GET_CONFIG_REPLY"
        <5>1. FixedLength(v) <= n
          BY <3>1
        <5> QED BY <3>1, <4>2, <5>1
      <4> QED BY <4>1, <4>2
    <3> QED BY <3>2, <3>3 DEF Allows
  <2> QED BY <2>1, <2>2
<1>4. first = 0
  <2> DEFINE I == {i \in 1 .. Len(s) : s[i] \in m.wrong}
  <2>1. first = IF I # {} THEN Min(I) ELSE 0
    BY DEF SelectInSeq
  <2>2. I = {}
    BY <1>2
  <2> HIDE DEF I, first
  <2> QED BY <2>1, <2>2
<1>5. v \notin DOMAIN Unknown
  BY <1>1 DEF Unknown, Validators, Size
<1>6. HeaderError(m, v) = "SUCCESS"
  <2>1. TypeOf(v) \in Types
    BY <1>1 DEF Types
  <2>2. Size[v].min \in Nat /\ Size[v].max \in Nat
    BY <1>1, SizeBounds
  <2> HIDE DEF m, n, v
  <2>3. ~(n > Size[v].max) /\ ~(n < Size[v].min) /\ ~(n < 8) /\ ~(n < n) /\ ~(n > n)
    BY <1>2, <1>3, <2>2 DEF Allows
  <2> QED BY <1>2, <2>1, <2>3 DEF HeaderError
<1>7. v \in DOMAIN Arrays => (m.header - Arrays[v].from) % Arrays[v].size = 0
  <2>1. ASSUME v \in DOMAIN Arrays
        PROVE  (n - Arrays[v].from) % Arrays[v].size = 0
    <3>1. v \in WithArrayOnly
      BY <2>1 DEF Arrays, WithArrayOnly
    <3> DEFINE f == Arrays[v].from
               z == Arrays[v].size
               k == content.count
    <3>2. f \in Nat /\ z \in {32, 48, 64, 104} /\ k \in Nat /\ n = f + k * z
      BY <3>1, PlanIsNeeded
    <3> HIDE DEF f, z, k, n
    <3>3. n - f = k * z
      BY <3>2
    <3>4. (k * z) % z = 0
      <4>1. z = 32 \/ z = 48 \/ z = 64 \/ z = 104
        BY <3>2
      <4>2. (k * 32) % 32 = 0 /\ (k * 48) % 48 = 0 /\ (k * 64) % 64 = 0
            /\ (k * 104) % 104 = 0
        BY <3>2
      <4> QED BY <4>1, <4>2
    <3> QED BY <3>3, <3>4 DEF f, z
  <2> QED BY <2>1, <1>2
<1> HIDE DEF m, v, n, s, first
<1>8. FixedPartError(m, v) = "SUCCESS"
  BY <1>4, <1>5, <1>6, <1>7 DEF FixedPartError, first, s
<1> QED BY <1>8 DEF m, v

-----------------------------------------------------------------------------
(***************************************************************************)
(* Where the walk over a flow or queue ends.                               *)
(***************************************************************************)
\* The end the flow or queue claims is less than a header behind a part.
Ended(i) == \E e \in 0 .. Len(i.parts) :
              /\ HeaderOf + Before(LengthsOf(i.parts), e) <= i.len
              /\ i.len < HeaderOf + Before(LengthsOf(i.parts), e) + 8
EndedUpTo(n) == \A j \in 1 .. n : Ended(content.items[j])

\* Behind that end the walk goes on.
GoesOn == \/ HeaderOf + Before(LengthsOf(item.parts), part - 1) <= item.len
          \/ remaining >= 8

\* The walk is where a part could begin, behind the end.
Behind == /\ ListOfLong(item.parts)
          /\ part \in Nat /\ part # 0 /\ part <= Len(item.parts) + 1
          /\ HeaderOf + Before(LengthsOf(item.parts), part - 1) > item.len

\* A flow or queue that a creator or reader has walked ends where its parts do, or
\* less than a header behind one of them; while it is walked, the walk goes on for
\* one of the two reasons, and a walk that leaves the message is behind the end.
EndInv ==
  /\ stage \in {"put", "get"} /\ content.kind \in Walked =>
       /\ EndedUpTo(Len(content.items) - Len(todo))
       /\ item # NoItem => GoesOn
  /\ stage \in {"made", "received", "check", "accepted", "get"}
       /\ content.kind \in Walked =>
            Filled(content) \/ EndedUpTo(Len(content.items))
  /\ stage = "got" /\ content.kind \in Walked => EndedUpTo(Len(content.items))
  /\ stage = "astray" /\ result = "SUCCESS" => Behind

LEMMA PartsAreMeasured ==
  ASSUME NEW c \in Contents, c.kind \in Walked, NEW k \in DOMAIN c.items,
         NEW m \in DOMAIN c.items[k].parts
  PROVE  c.items[k].parts[m].len \in Nat /\ c.items[k].parts[m].len <= Max16
<1>1. \/ c \in Of({"FLOW_REPLY"}, {0}, {0}, Flows, {TRUE})
      \/ c \in Of({"QUEUE_GET_CONFIG_REPLY"}, {0}, {0}, Queues, {TRUE})
  BY DEF Contents, Of, OfOneSize, WithDataOnly, WithArrayOnly, Walked
<1>2. PICK types : c.items \in Wholes(types)
  BY <1>1 DEF Of, Flows, Queues
<1>3. PICK n \in Nat, j \in Nat : c.items \in Lists(Whole(types, n), j)
  BY <1>2, CreateAssumption DEF Wholes
<1>4. c.items[k] \in Whole(types, n)
  BY <1>3 DEF Lists
<1>5. c.items[k].parts \in Lists(Parts(types), n)
  BY <1>4 DEF Whole
<1>6. c.items[k].parts[m] \in Parts(types)
  BY <1>5 DEF Lists
<1>7. c.items[k].parts[m].len \in PartLengths
  BY <1>6 DEF Parts
<1> DEFINE l == c.items[k].parts[m].len
<1>8. l \in 8 .. Max16
  BY <1>7, CreateAssumption
<1>9. l \in Nat /\ l <= Max16
  <2> HIDE DEF l
  <2> QED BY <1>8, Max16Is, SMTT(20)
<1> QED BY <1>9

LEMMA SameEnds ==
  ASSUME UNCHANGED content
  PROVE  /\ \A i : Ended(i)' <=> Ended(i)
         /\ \A n : EndedUpTo(n)' <=> EndedUpTo(n)
         /\ Filled(content)' <=> Filled(content)
<1>1. HeaderOf' = HeaderOf
  BY SameContent
<1> QED BY <1>1 DEF Ended, EndedUpTo

LEMMA LeftToDo ==
  ASSUME content \in Contents, content.kind \in Walked, NEW k \in Nat, AtItem(k)
  PROVE  /\ Len(content.items) \in Nat /\ Len(content.items) - Len(todo) = k
         /\ todo # <<>> => Len(Tail(todo)) = Len(todo) - 1
         /\ Len(todo) \in Nat
<1>1. PICK S : content.items \in Seq(S)
  BY ListedAre
<1>2. /\ k <= Len(content.items)
      /\ todo = SubSeq(content.items, k + 1, Len(content.items))
  BY ListedAre DEF AtItem
<1>3. todo \in Seq(S) /\ Len(todo) = Len(content.items) - k
  BY <1>1, <1>2
<1> QED BY <1>1, <1>2, <1>3

LEMMA WalkGoesOn ==
  ASSUME content \in Contents, NEW i, Measured(i), BeginWalk(i, HeaderOf),
         UNCHANGED content
  PROVE  GoesOn'
<1>1. /\ item' = i /\ part' = 1 /\ remaining' = Uint16(i.len - HeaderOf)
  BY DEF BeginWalk
<1>2. HeaderOf \in {8, 88} /\ HeaderOf' = HeaderOf
  BY ListedAre, SameContent
<1>3. Before(LengthsOf(i.parts), 0) = 0
  <2>1. LengthsOf(i.parts) \in Seq(Nat)
    BY ListsHaveLengths DEF Measured
  <2>2. 0 <= Len(LengthsOf(i.parts))
    BY <2>1
  <2> QED BY <2>1, <2>2, BeforeMore
<1>4. part' - 1 = 0
  BY <1>1
<1>5. HeaderOf + 0 <= i.len \/ Uint16(i.len - HeaderOf) >= 8
  <2> DEFINE h == HeaderOf
             n == i.len
  <2>1. n \in Nat /\ 8 <= n /\ n <= Max16 /\ h \in Nat /\ h <= 88
    BY <1>2 DEF Measured, Long
  <2> HIDE DEF h, n
  <2>2. CASE h <= n
    BY <2>1, <2>2 DEF h, n
  <2>3. CASE ~(h <= n)
    <3>1. n - h \in Int /\ n - h < 0 /\ n - h >= 0 - 80
      BY <2>1, <2>3
    <3>2. Uint16(n - h) = n - h + 65536
      BY <3>1 DEF Uint16, Max16
    <3>3. Uint16(n - h) >= 8
      BY <3>1, <3>2
    <3> QED BY <3>3 DEF h, n
  <2> QED BY <2>2, <2>3
<1> QED BY <1>1, <1>2, <1>3, <1>4, <1>5 DEF GoesOn

\* A part is less than 2^16 bytes long: a walk that leaves its flow or queue
\* goes on.
LEMMA PartGoesOn ==
  ASSUME content \in Contents, Measured(item), AtPart, MoreParts,
         ~IsAstray(HeaderOf), NextPart(item.parts[part].len),
         item.parts[part].len <= Max16, UNCHANGED content
  PROVE  GoesOn'
<1> DEFINE f == LengthsOf(item.parts)
           b == Before(f, part - 1)
           p == HeaderOf + b
           n == item.parts[part].len
<1>1. HeaderOf \in Nat /\ HeaderOf' = HeaderOf
  BY ListedAre, SameContent
<1>2. /\ b \in Nat /\ Position(HeaderOf) = p /\ f \in Seq(Nat)
      /\ Len(f) = Len(item.parts)
      /\ DOMAIN item.parts = 1 .. Len(item.parts) /\ Len(item.parts) \in Nat
  <2>1. Len(item.parts) \in Nat
    BY DEF Measured, ListOfLong
  <2> QED BY <1>1, <2>1, PositionIs DEF AtPart, Measured
<1>3. ~(part > Len(item.parts)) /\ ~(p >= item.len)
  BY <1>2 DEF IsAstray
<1>4. /\ item.len \in Nat /\ item.len <= Max16
      /\ remaining = Uint16(item.len - p) /\ remaining >= 8
      /\ part \in Nat /\ part # 0
  BY DEF Measured, Long, AtPart, MoreParts
<1>5. f[part] = n /\ part \in DOMAIN item.parts
  BY <1>2, <1>3, <1>4 DEF LengthsOf
<1>6. n \in Nat /\ Before(f, part) = b + n
  <2> HIDE DEF f, n
  <2>1. part - 1 \in Nat /\ part - 1 < Len(f) /\ (part - 1) + 1 = part
        /\ part - 1 <= Len(f)
    BY <1>2, <1>3, <1>4
  <2>2. Before(f, (part - 1) + 1) = Before(f, part - 1) + f[(part - 1) + 1]
    BY <2>1, <1>2, BeforeMore
  <2>3. f[part] \in Nat
    BY <1>2, <1>5
  <2> QED BY <2>1, <2>2, <2>3, <1>5
<1>7. item' = item /\ part' - 1 = part /\ remaining' = Uint16(remaining - n)
  BY <1>4 DEF NextPart
<1>8. n <= Max16
  OBVIOUS
<1>9. HeaderOf + (b + n) <= item.len \/ remaining' >= 8
  <2> DEFINE h == HeaderOf
             l == item.len
             d == l - (h + b)
  <2>1. h \in Nat /\ b \in Nat /\ n \in Nat /\ l \in Nat /\ l <= Max16 /\ ~(h + b >= l)
        /\ remaining = Uint16(l - (h + b)) /\ n <= Max16
    BY <1>1, <1>2, <1>3, <1>4, <1>6, <1>8
  <2> HIDE DEF h, l, b, n
  <2>2. d \in Nat /\ d <= Max16
    BY <2>1, Max16Is
  <2>3. remaining = d
    BY <2>1, <2>2, LeftIs
  <2>4. d >= 8 /\ remaining' = Uint16(d - n)
    BY <1>4, <1>7, <2>3
  <2>5. CASE n <= d
    <3>1. h + (b + n) <= l
      BY <2>1, <2>5
    <3> QED BY <3>1 DEF h, l
  <2>6. CASE ~(n <= d)
    <3> HIDE DEF d
    <3>1. d - n \in Int /\ d - n < 0 /\ d - n >= 8 - 65535
      BY <2>1, <2>2, <2>4, <2>6, Max16Is
    <3>2. Uint16(d - n) = d - n + 65536
      BY <3>1 DEF Uint16, Max16
    <3>3. remaining' >= 8
      BY <2>4, <3>1, <3>2
    <3> QED BY <3>3
  <2> QED BY <2>5, <2>6
<1> HIDE DEF f, b, n
<1>10. Before(f, part) = b + n /\ LengthsOf(item'.parts) = f
  BY <1>6, <1>7 DEF f
<1> QED BY <1>1, <1>7, <1>9, <1>10 DEF GoesOn

LEMMA WalkEnds ==
  ASSUME content \in Contents, Measured(item), AtPart, item # NoItem, ~MoreParts, GoesOn
  PROVE  Ended(item)
<1> DEFINE f == LengthsOf(item.parts)
           b == Before(f, part - 1)
           h == HeaderOf
           l == item.len
<1>1. h \in Nat
  BY ListedAre
<1>2. /\ b \in Nat /\ Len(item.parts) \in Nat
  <2>1. Len(item.parts) \in Nat
    BY DEF Measured, ListOfLong
  <2> QED BY <1>1, <2>1, PositionIs DEF AtPart, Measured
<1>3. /\ l \in Nat /\ l <= Max16 /\ part \in Nat /\ part # 0
      /\ remaining = Uint16(l - (h + b)) /\ ~(remaining >= 8)
      /\ part <= Len(item.parts) + 1
  BY DEF Measured, Long, AtPart, MoreParts
<1>4. h + b <= l
  BY <1>3 DEF GoesOn
<1>5. part - 1 \in 0 .. Len(item.parts)
  BY <1>2, <1>3
<1>6. l < h + b + 8
  <2> HIDE DEF h, b, l
  <2>1. l - (h + b) \in Nat /\ l - (h + b) <= Max16
    BY <1>1, <1>2, <1>3, <1>4, Max16Is
  <2>2. remaining = l - (h + b)
    BY <2>1, <1>3, LeftIs
  <2> QED BY <2>1, <2>2, <1>1, <1>2, <1>3
<1> QED BY <1>4, <1>5, <1>6 DEF Ended

-----------------------------------------------------------------------------
(***************************************************************************)
(* Every step of a creator or a reader keeps where its walk can end.       *)
(***************************************************************************)
\* A reader's walk that has come behind the last part is behind the end.
LEMMA AstrayIsBehind ==
  ASSUME content \in Contents, NEW k \in Nat, AtItem(k), AtPart, MoreParts,
         IsAstray(HeaderOf),
         Filled(content) \/ EndedUpTo(Len(content.items))
  PROVE  Behind
<1> DEFINE f == LengthsOf(item.parts)
           b == Before(f, part - 1)
           h == HeaderOf
           l == item.len
           p == h + b
<1>1. /\ k + 1 \in DOMAIN Listed /\ item = Listed[k + 1] /\ Measured(item)
      /\ content.kind \in Walked /\ Listed = content.items
  BY InWalk, ListedAre DEF MoreParts
<1>2. h \in Nat
  BY ListedAre
<1>3. /\ b \in Nat /\ Position(HeaderOf) = p /\ f \in Seq(Nat)
      /\ Len(f) = Len(item.parts) /\ Len(item.parts) \in Nat
      /\ Sum(f) \in Nat
  <2>1. Len(item.parts) \in Nat
    BY <1>1 DEF Measured, ListOfLong
  <2> QED BY <1>1, <1>2, <2>1, PositionIs, SumOfMore DEF AtPart, Measured
<1>4. /\ l \in Nat /\ l <= Max16 /\ part \in Nat /\ part # 0
      /\ remaining = Uint16(l - p) /\ remaining >= 8
      /\ part <= Len(item.parts) + 1
  BY <1>1 DEF Measured, Long, AtPart, MoreParts
<1> SUFFICES ASSUME p <= l PROVE FALSE
  <2> HIDE DEF b, h, l
  <2>1. ~(p <= l) => p > l
    BY <1>2, <1>3, <1>4
  <2> QED BY <2>1, <1>1, <1>4 DEF Behind, Measured, b, h, l
<1>5. p + 8 <= l
  <2> HIDE DEF b, h, l
  <2>1. l - p \in Nat /\ l - p <= Max16
    BY <1>2, <1>3, <1>4, Max16Is
  <2>2. remaining = l - p
    BY <2>1, <1>4, LeftIs
  <2> QED BY <2>1, <2>2, <1>2, <1>3, <1>4
<1>6. part = Len(item.parts) + 1
  <2>1. ~(p >= l)
    <3> HIDE DEF b, h, l
    <3> QED BY <1>2, <1>3, <1>4, <1>5
  <2>2. part > Len(item.parts)
    BY <1>3, <2>1 DEF IsAstray
  <2> QED BY <2>2, <1>3, <1>4
<1>7. b = Sum(f)
  <2> HIDE DEF f
  <2>1. part - 1 = Len(f) /\ SubSeq(f, 1, Len(f)) = f
    BY <1>3, <1>6
  <2> QED BY <2>1 DEF Before
<1>8. CASE Filled(content)
  <2>1. item \in ToSet(content.items)
    BY <1>1 DEF ToSet
  <2>2. l <= h + SumOfLengths(item.parts)
    BY <1>1, <1>8, <2>1 DEF Filled, HeaderOf, IsFlow
  <2>3. SumOfLengths(item.parts) = Sum(f)
    BY <1>3, SumOfLengthsIs
  <2> HIDE DEF b, h, l, f
  <2> QED BY <1>2, <1>3, <1>4, <1>5, <1>7, <2>2, <2>3
<1>9. CASE EndedUpTo(Len(content.items))
  <2>1. k + 1 \in 1 .. Len(content.items)
    <3>1. PICK S : Listed \in Seq(S)
      BY ListedAre
    <3> QED BY <1>1, <3>1
  <2>2. Ended(item)
    BY <1>1, <1>9, <2>1 DEF EndedUpTo
  <2>3. PICK e \in 0 .. Len(item.parts) : l < h + Before(f, e) + 8
    BY <2>2 DEF Ended
  <2>4. Before(f, e) \in Nat /\ Before(f, e) <= Sum(f)
    <3> HIDE DEF f
    <3>1. e \in Nat /\ e <= Len(f)
      BY <1>3
    <3> QED BY <3>1, <1>3, BeforeIsLess, BeforeMore
  <2> HIDE DEF b, h, l, f
  <2> QED BY <1>2, <1>3, <1>4, <1>5, <1>7, <2>3, <2>4
<1> QED BY <1>8, <1>9

LEMMA CreateEnds ==
  ASSUME EndInv, ReadInv, Create \/ GetStructure
  PROVE  EndInv'
<1>1. /\ content \in Contents /\ UNCHANGED <<content, item>> /\ item = NoItem
      /\ stage \in {"call", "accepted"}
      /\ stage' \in {"refused", "put", "get"}
      /\ stage' = "get" => stage = "accepted"
      /\ stage' \in {"put", "get"} => todo' = Listed
  BY DEF ReadInv, Create, GetStructure, walk_vars
<1>2. ASSUME stage' \in {"put", "get"}, content.kind \in Walked
      PROVE  EndedUpTo(Len(content.items) - Len(todo))'
  <2>1. todo' = content.items /\ content' = content
    BY <1>1, <1>2, ListedAre
  <2>2. Len(content.items) \in Nat
    <3>1. PICK S : content.items \in Seq(S)
      BY <1>1, <1>2, ListedAre
    <3> QED BY <3>1
  <2>3. Len(content'.items) - Len(todo') = 0
    BY <2>1, <2>2
  <2> QED BY <2>3 DEF EndedUpTo
<1>3. /\ EndedUpTo(Len(content.items))' <=> EndedUpTo(Len(content.items))
      /\ Filled(content)' <=> Filled(content)
  BY <1>1, SameEnds
<1> QED BY <1>1, <1>2, <1>3 DEF EndInv

\* What is left to show of a step of a loop.
LEMMA LoopEnds ==
  ASSUME EndInv, stage \in {"put", "get"}, UNCHANGED content,
         stage' \in {stage, "died", "astray"},
         stage' = stage /\ content.kind \in Walked =>
           /\ EndedUpTo(Len(content.items) - Len(todo))'
           /\ (item # NoItem)' => GoesOn',
         stage' = "astray" /\ result' = "SUCCESS" => Behind'
  PROVE  EndInv'
<1>1. /\ EndedUpTo(Len(content.items))' <=> EndedUpTo(Len(content.items))
      /\ Filled(content)' <=> Filled(content)
  BY SameEnds
<1> QED BY <1>1 DEF EndInv

LEMMA ActionEnds ==
  ASSUME EndInv, ReadInv, PutAction \/ GetAction
  PROVE  EndInv'
<1>1. /\ stage \in {"put", "get"} /\ content.kind \notin Walked
      /\ UNCHANGED content /\ stage' \in {stage, "died"}
  BY DEF PutAction, GetAction, Walked
<1> QED BY <1>1, LoopEnds

LEMMA ItemEnds ==
  ASSUME EndInv, ReadInv, PutItem \/ GetItem
  PROVE  EndInv'
<1>1. /\ stage \in {"put", "get"} /\ todo # <<>> /\ item = NoItem
      /\ content.kind \in Walked
      /\ UNCHANGED <<content, stage, todo>> /\ content \in Contents
  BY DEF PutItem, GetItem, ReadInv, Walked
<1>2. PICK k \in Nat : AtItem(k)
  BY <1>1 DEF ReadInv
<1>3. BeginWalk(Head(todo), HeaderOf)
  BY DEF PutItem, GetItem, hton_flow_stats, ntoh_flow_stats, hton_packet_queue,
         ntoh_packet_queue, HeaderOf
<1>4. Measured(Head(todo))
  BY <1>1, <1>2, NextItem
<1>5. GoesOn'
  BY <1>1, <1>3, <1>4, WalkGoesOn
<1>6. EndedUpTo(Len(content.items) - Len(todo))
  BY <1>1 DEF EndInv
<1>7. EndedUpTo(Len(content.items) - Len(todo))'
  BY <1>1, <1>6 DEF EndedUpTo, Ended, HeaderOf, IsFlow
<1> QED BY <1>1, <1>5, <1>7, LoopEnds

LEMMA PartEnds ==
  ASSUME EndInv, ReadInv, WireInv, PutPart \/ GetPart, UNCHANGED vars
  PROVE  EndInv'
<1>1. /\ stage \in {"put", "get"} /\ MoreParts /\ item # NoItem
      /\ UNCHANGED <<content, todo, result>> /\ content \in Contents /\ AtPart
  BY DEF PutPart, GetPart, MoreParts, ReadInv, vars
<1>2. PICK k \in Nat : AtItem(k)
  BY <1>1 DEF ReadInv
<1>3. /\ item = Listed[k + 1] /\ k + 1 \in DOMAIN Listed
      /\ Measured(item) /\ content.kind \in Walked /\ Listed = content.items
  BY <1>1, <1>2, InWalk, ListedAre
<1>4. \/ stage' = "died"
      \/ /\ stage' = "astray" /\ IsAstray(HeaderOf) /\ UNCHANGED walk_vars
      \/ /\ ~IsAstray(HeaderOf) /\ UNCHANGED stage
         /\ NextPart(item.parts[part].len)
  BY <1>1 DEF PutPart, GetPart
<1>5. CASE stage' = "died"
  BY <1>1, <1>5, LoopEnds
<1>6. CASE stage' = "astray" /\ IsAstray(HeaderOf) /\ UNCHANGED walk_vars
  <2>1. CASE stage = "put"
    <3>1. result' = "NONE"
      BY <1>1, <2>1 DEF WireInv, Making, CheckIdle
    <3> QED BY <1>1, <1>6, <3>1, LoopEnds
  <2>2. CASE stage = "get"
    <3>1. Filled(content) \/ EndedUpTo(Len(content.items))
      BY <1>3, <2>2 DEF EndInv
    <3>2. Behind
      BY <1>1, <1>2, <1>6, <3>1, AstrayIsBehind
    <3>3. Behind'
      <4>1. UNCHANGED <<item, part>> /\ HeaderOf' = HeaderOf
        BY <1>1, <1>6, SameContent DEF walk_vars
      <4> QED BY <3>2, <4>1 DEF Behind
    <3> QED BY <1>1, <1>6, <3>3, LoopEnds
  <2> QED BY <1>1, <2>1, <2>2
<1>7. CASE ~IsAstray(HeaderOf) /\ UNCHANGED stage /\ NextPart(item.parts[part].len)
  <2>1. part \in DOMAIN item.parts
    BY <1>1, <1>7, PartCanBeConverted
  <2>2. item.parts[part].len <= Max16
    BY <1>1, <1>3, <2>1, PartsAreMeasured
  <2>3. GoesOn'
    BY <1>1, <1>3, <1>7, <2>2, PartGoesOn
  <2>4. EndedUpTo(Len(content.items) - Len(todo))
    BY <1>1, <1>3 DEF EndInv
  <2>5. EndedUpTo(Len(content.items) - Len(todo))'
    BY <1>1, <2>4 DEF EndedUpTo, Ended, HeaderOf, IsFlow
  <2>6. stage' # "astray"
    BY <1>1, <1>7
  <2> QED BY <1>1, <1>7, <2>3, <2>5, <2>6, LoopEnds
<1> QED BY <1>4, <1>5, <1>6, <1>7

LEMMA ItemIsEnded ==
  ASSUME EndInv, ReadInv, PutItemEnd \/ GetItemEnd
  PROVE  EndInv'
<1>1. /\ stage \in {"put", "get"} /\ ~MoreParts /\ item # NoItem
      /\ todo' = Tail(todo) /\ item' = NoItem
      /\ UNCHANGED <<content, stage>> /\ content \in Contents /\ AtPart
  BY DEF PutItemEnd, GetItemEnd, EndWalk, ReadInv
<1>2. PICK k \in Nat : AtItem(k)
  BY <1>1 DEF ReadInv
<1>3. /\ todo # <<>> /\ item = Listed[k + 1] /\ Measured(item)
      /\ content.kind \in Walked /\ Listed = content.items
  BY <1>1, <1>2, InWalk, ListedAre
<1>4. GoesOn /\ EndedUpTo(Len(content.items) - Len(todo))
  BY <1>1, <1>3 DEF EndInv
<1>5. Ended(content.items[k + 1])
  BY <1>1, <1>3, <1>4, WalkEnds
<1>6. /\ Len(content.items) \in Nat /\ Len(content.items) - Len(todo) = k
      /\ Len(todo) \in Nat /\ Len(Tail(todo)) = Len(todo) - 1
  BY <1>1, <1>2, <1>3, LeftToDo
<1>7. Len(content.items) - Len(Tail(todo)) = k + 1
  <2> DEFINE a == Len(content.items)
             b == Len(todo)
             c == Len(Tail(todo))
  <2>1. a \in Nat /\ b \in Nat /\ a - b = k /\ c = b - 1
    BY <1>6
  <2> HIDE DEF a, b, c
  <2>2. a - c = k + 1
    BY <2>1
  <2> QED BY <2>2 DEF a, c
<1>8. EndedUpTo(k + 1)
  <2>1. \A j \in 1 .. k + 1 : j = k + 1 \/ j \in 1 .. k
    OBVIOUS
  <2> QED BY <1>4, <1>5, <1>6, <2>1 DEF EndedUpTo
<1>9. EndedUpTo(Len(content.items) - Len(todo))'
  <2>1. EndedUpTo(k + 1)'
    BY <1>1, <1>8, SameEnds
  <2> QED BY <1>1, <1>7, <2>1 DEF EndedUpTo
<1>10. stage' # "astray"
  BY <1>1
<1> QED BY <1>1, <1>9, <1>10, LoopEnds

LEMMA ListEnds ==
  ASSUME EndInv, ReadInv, Made \/ Got
  PROVE  EndInv'
<1>1. /\ stage \in {"put", "get"} /\ todo = <<>>
      /\ stage' = IF stage = "put" THEN "made" ELSE "got"
      /\ UNCHANGED content /\ content \in Contents
  BY DEF Made, Got, ReadInv
<1>2. PICK k \in Nat : AtItem(k)
  BY <1>1 DEF ReadInv
<1>3. content.kind \in Walked => EndedUpTo(Len(content.items))
  <2> HAVE content.kind \in Walked
  <2>1. Len(content.items) \in Nat /\ EndedUpTo(Len(content.items) - Len(todo))
    BY <1>1, <1>2, LeftToDo DEF EndInv
  <2>2. Len(todo) = 0
    <3>1. Len(<<>>) = 0
      OBVIOUS
    <3> QED BY <1>1, <3>1
  <2>3. Len(content.items) - Len(todo) = Len(content.items)
    BY <2>1, <2>2
  <2> QED BY <2>1, <2>3
<1>4. EndedUpTo(Len(content.items))' <=> EndedUpTo(Len(content.items))
  BY <1>1, SameEnds
<1> QED BY <1>1, <1>3, <1>4 DEF EndInv

LEMMA CheckEndsItems ==
  ASSUME EndInv, ReadInv, Hand \/ Check
  PROVE  EndInv'
<1>1. /\ UNCHANGED content /\ stage \in {"made", "received", "any", "check"}
      /\ stage' \in {"any", "check", "accepted"}
      /\ stage' = "any" <=> stage = "any"
  BY DEF Hand, Check
<1>2. /\ EndedUpTo(Len(content.items))' <=> EndedUpTo(Len(content.items))
      /\ Filled(content)' <=> Filled(content)
  BY <1>1, SameEnds
<1> QED BY <1>1, <1>2 DEF EndInv

LEMMA EndInvInit == WireInit => EndInv
<1> SUFFICES ASSUME WireInit PROVE EndInv
  OBVIOUS
<1>1. CASE Init /\ CreateIdle(NoContent, "any")
  BY <1>1 DEF CreateIdle, EndInv
<1>2. CASE CreateInit /\ CheckIdle
  BY <1>2 DEF CreateInit, EndInv
<1>3. CASE CheckIdle /\ \E c \in ReceivedContents : CreateIdle(c, "received")
  BY <1>3 DEF CreateIdle, ReceivedContents, EndInv
<1> QED BY <1>1, <1>2, <1>3 DEF WireInit

LEMMA SameEndInv ==
  ASSUME EndInv, UNCHANGED wire_vars
  PROVE  EndInv'
<1>1. UNCHANGED <<content, stage, todo, item, part, remaining, result>>
  BY DEF wire_vars, create_vars, walk_vars, vars
<1>2. HeaderOf' = HeaderOf
  BY <1>1, SameContent
<1>3. Behind' <=> Behind
  BY <1>1, <1>2 DEF Behind
<1>4. GoesOn' <=> GoesOn
  BY <1>1, <1>2 DEF GoesOn
<1>5. /\ EndedUpTo(Len(content.items))' <=> EndedUpTo(Len(content.items))
      /\ Filled(content)' <=> Filled(content)
  BY <1>1, SameEnds
<1>6. EndedUpTo(Len(content.items) - Len(todo))
        => EndedUpTo(Len(content.items) - Len(todo))'
  BY <1>1, <1>2 DEF EndedUpTo, Ended
<1> QED BY <1>1, <1>3, <1>4, <1>5, <1>6 DEF EndInv

LEMMA EndInvNext ==
  ASSUME EndInv, ReadInv, WireInv, [WireNext]_wire_vars
  PROVE  EndInv'
<1>1. CASE UNCHANGED wire_vars
  BY <1>1, SameEndInv
<1>2. CASE CreateNext /\ UNCHANGED vars
  BY <1>2, CreateEnds, ActionEnds, ItemEnds, PartEnds, ItemIsEnded, ListEnds DEF CreateNext
<1>3. CASE GetNext /\ UNCHANGED vars
  BY <1>3, CreateEnds, ActionEnds, ItemEnds, PartEnds, ItemIsEnded, ListEnds DEF GetNext
<1> QED BY <1>1, <1>2, <1>3, CheckEndsItems DEF WireNext

-----------------------------------------------------------------------------
(***************************************************************************)
(* A list of actions or properties that is known to its validator.         *)
(***************************************************************************)
\* An action or property that its validator lets through, and all of a list.
ErrorOf(a) == IF content.kind = "QUEUE_GET_CONFIG_REPLY"
              THEN PropertyError(a.type, a.len) ELSE ActionError(a.type, a.len, FALSE)
RightTo(s, m) == \A q \in 1 .. m : ErrorOf(s[q]) = "SUCCESS"
Right(s) == RightTo(s, Len(s))

\* The list ends with its last item.
Covers(s) == /\ length \in Nat /\ length <= Max16
             /\ s = <<>> => length = 0
             /\ s # <<>> => Before(LengthsOf(s), Len(s) - 1) < length

\* The items in front of the offset, or all, have been let through.
ReadOf(s) == \/ Right(s)
             \/ \E m \in Nat : /\ m <= Len(s) /\ offset = Before(LengthsOf(s), m)
                               /\ RightTo(s, m)

\* The walk is at an item it has not seen, or behind the last one.
OnPath(s) == /\ length = Sum(LengthsOf(s)) /\ length <= Max16
             /\ \E m \in Nat : /\ m <= Len(s) /\ offset = Before(LengthsOf(s), m)
                               /\ \A o \in seen : o < offset

\* ReadsItem for either of the lists.
ReadsErrors(s) ==
  \A i \in DOMAIN s :
    SumOfLengths(SubSeq(s, 1, i - 1)) = offset =>
      IF ErrorOf(s[i]) = "SUCCESS"
      THEN /\ result' = "NONE"
           /\ pc' = pc => offset' = Uint16(offset + s[i].len)
      ELSE result' = ErrorOf(s[i])

LEMMA LongList ==
  ASSUME NEW s, ListOfLong(s)
  PROVE  /\ Len(s) \in Nat /\ DOMAIN s = 1 .. Len(s)
         /\ LengthsOf(s) \in Seq(Nat) /\ Len(LengthsOf(s)) = Len(s)
         /\ \A q \in 1 .. Len(s) : Long(s[q]) /\ LengthsOf(s)[q] = s[q].len
         /\ Sum(LengthsOf(s)) \in Nat /\ SumOfLengths(s) = Sum(LengthsOf(s))
         /\ s = <<>> <=> Len(s) = 0
<1> DEFINE f == LengthsOf(s)
<1>1. PICK S : s \in Seq(S) /\ \A i \in S : Long(i)
  BY DEF ListOfLong
<1>2. DOMAIN s = 1 .. Len(s) /\ Len(s) \in Nat /\ (s = <<>> <=> Len(s) = 0)
  BY <1>1
<1>3. \A q \in 1 .. Len(s) : Long(s[q])
  BY <1>1
<1>4. f \in [1 .. Len(s) -> Nat] /\ \A q \in 1 .. Len(s) : f[q] = s[q].len
  BY <1>2, <1>3 DEF LengthsOf, Long
<1>5. f \in Seq(Nat) /\ Len(f) = Len(s)
  BY <1>2, <1>4
<1> HIDE DEF f
<1>6. Sum(f) \in Nat
  BY <1>5, SumOfMore
<1>7. SumOfLengths(s) = Sum(f)
  BY <1>5, SumOfLengthsIs DEF f
<1> QED BY <1>2, <1>3, <1>4, <1>5, <1>6, <1>7 DEF f

\* Where an item of a list begins.
LEMMA ItemBegins ==
  ASSUME NEW s, ListOfLong(s), NEW m \in Nat, m <= Len(s)
  PROVE  /\ Before(LengthsOf(s), m) \in Nat
         /\ Before(LengthsOf(s), m) <= Sum(LengthsOf(s))
         /\ SumOfLengths(SubSeq(s, 1, m)) = Before(LengthsOf(s), m)
         /\ m = 0 => Before(LengthsOf(s), m) = 0
         /\ m = Len(s) => Before(LengthsOf(s), m) = Sum(LengthsOf(s))
         /\ m < Len(s) => Before(LengthsOf(s), m + 1) = Before(LengthsOf(s), m) + s[m + 1].len
<1> DEFINE f == LengthsOf(s)
<1>1. /\ Len(s) \in Nat /\ DOMAIN s = 1 .. Len(s) /\ f \in Seq(Nat) /\ Len(f) = Len(s)
      /\ \A q \in 1 .. Len(s) : f[q] = s[q].len
  BY LongList
<1>2. LengthsOf(SubSeq(s, 1, m)) = SubSeq(f, 1, m)
  <2>1. SubSeq(s, 1, m) = [j \in 1 .. m |-> s[j]] /\ DOMAIN f = DOMAIN s
        /\ \A j \in 1 .. m : j \in DOMAIN s
    BY <1>1 DEF LengthsOf, ListOfLong
  <2>2. SubSeq(f, 1, m) = [j \in 1 .. m |-> f[j]]
    <3> HIDE DEF f
    <3> QED BY <1>1
  <2> QED BY <2>1, <2>2 DEF LengthsOf
<1> HIDE DEF f
<1>3. SubSeq(f, 1, m) \in Seq(Nat) /\ m <= Len(f)
  BY <1>1
<1>4. SumOfLengths(SubSeq(s, 1, m)) = Before(f, m)
  BY <1>2, <1>3, SumOfLengthsIs DEF Before
<1>5. /\ Before(f, m) \in Nat /\ Before(f, m) <= Sum(f)
      /\ m = 0 => Before(f, m) = 0
      /\ m = Len(f) => Before(f, m) = Sum(f)
      /\ m < Len(f) => Before(f, m + 1) = Before(f, m) + f[m + 1]
  BY <1>1, <1>3, BeforeMore, BeforeIsLess
<1>6. m < Len(s) => f[m + 1] = s[m + 1].len
  <2>1. m < Len(s) => m + 1 \in 1 .. Len(s)
    BY <1>1
  <2> QED BY <1>1, <2>1
<1> QED BY <1>1, <1>4, <1>5, <1>6 DEF f

LEMMA SameErrors ==
  ASSUME UNCHANGED content
  PROVE  /\ \A a : ErrorOf(a)' = ErrorOf(a)
         /\ \A s, m : RightTo(s, m)' <=> RightTo(s, m)
         /\ \A s : Right(s)' <=> Right(s)
<1>1. \A a : ErrorOf(a)' = ErrorOf(a)
  BY DEF ErrorOf
<1>2. \A s, m : RightTo(s, m)' <=> RightTo(s, m)
  BY <1>1 DEF RightTo
<1> QED BY <1>1, <1>2 DEF Right

LEMMA ErrorsAreErrors == \A a : ErrorOf(a) # "NONE"
<1>1. "NONE" \notin {"SUCCESS"} \cup ErrorsOfActions
  BY DEF ErrorsOfActions, ActionErrors, TooShortAction, TooLongAction, Range
<1>2. \A t, n : PropertyError(t, n) # "NONE"
  BY DEF PropertyError
<1> QED BY <1>1, <1>2, ErrorsOfAction DEF ErrorOf

\* One more item is let through.
LEMMA ListStep ==
  ASSUME NEW s, ListOfLong(s), Covers(s), ReadOf(s), ReadsErrors(s),
         UNCHANGED content, result' = "NONE", pc' = pc
  PROVE  ReadOf(s)'
<1> DEFINE f == LengthsOf(s)
<1>1. CASE Right(s)
  BY <1>1, SameErrors DEF ReadOf
<1>2. CASE ~Right(s)
  <2>1. PICK m \in Nat : m <= Len(s) /\ offset = Before(f, m) /\ RightTo(s, m)
    BY <1>2 DEF ReadOf
  <2>2. Len(s) \in Nat /\ m < Len(s) /\ m + 1 \in DOMAIN s /\ m + 1 \in Nat
    <3>1. Len(s) \in Nat /\ DOMAIN s = 1 .. Len(s)
      BY LongList
    <3>2. m # Len(s)
      BY <1>2, <2>1 DEF Right
    <3>3. PICK n : n = Len(s)
      OBVIOUS
    <3>4. n \in Nat /\ m <= n /\ m # n
      BY <2>1, <3>1, <3>2, <3>3
    <3>5. m < n /\ m + 1 \in 1 .. n /\ m + 1 \in Nat
      BY <3>4
    <3> QED BY <3>1, <3>3, <3>4, <3>5
  <2>3. /\ SumOfLengths(SubSeq(s, 1, m)) = offset /\ (m + 1) - 1 = m
        /\ Before(f, m) \in Nat /\ Before(f, m + 1) = Before(f, m) + s[m + 1].len
    BY <2>1, <2>2, ItemBegins
  <2>4. ErrorOf(s[m + 1]) = "SUCCESS" /\ offset' = Uint16(offset + s[m + 1].len)
    BY <2>2, <2>3, ErrorsAreErrors DEF ReadsErrors
  <2>5. RightTo(s, m + 1)
    <3>1. \A q \in 1 .. m + 1 : q = m + 1 \/ q \in 1 .. m
      OBVIOUS
    <3> QED BY <2>1, <2>4, <3>1 DEF RightTo
  <2>6. CASE m + 1 = Len(s)
    BY <2>5, <2>6, SameErrors DEF ReadOf, Right
  <2>7. CASE m + 1 # Len(s)
    <3>1. m + 1 <= Len(s) - 1 /\ Len(s) - 1 \in Nat /\ Len(s) - 1 <= Len(s) /\ s # <<>>
          /\ m + 1 <= Len(s)
      BY <2>2, <2>7, LongList
    <3>2. /\ Before(f, m + 1) <= Before(f, Len(s) - 1)
          /\ Before(f, m + 1) \in Nat /\ Before(f, Len(s) - 1) \in Nat
      BY <2>2, <3>1, LongList, BeforeGrows, ItemBegins
    <3>3. Before(f, Len(s) - 1) < length /\ length \in Nat /\ length <= Max16
      BY <3>1 DEF Covers
    <3>4. Before(f, m + 1) <= Max16
      <4> DEFINE a == Before(f, m + 1)
                 b == Before(f, Len(s) - 1)
      <4> HIDE DEF a, b
      <4>1. a <= b /\ a \in Nat /\ b \in Nat /\ b < length
        BY <3>2, <3>3 DEF a, b
      <4>2. a <= Max16
        BY <4>1, <3>3, Max16Is
      <4> QED BY <4>2 DEF a
    <3>5. offset' = Before(f, m + 1)
      BY <2>1, <2>3, <2>4, <3>2, <3>4, LeftIs
    <3>6. RightTo(s, m + 1)'
      BY <2>5, SameErrors
    <3> QED BY <2>2, <3>1, <3>5, <3>6 DEF ReadOf
  <2> QED BY <2>6, <2>7
<1> QED BY <1>1, <1>2

\* At the end of a list every item has been let through.
LEMMA ListDone ==
  ASSUME NEW s, ListOfLong(s), Covers(s), ReadOf(s), offset >= length
  PROVE  Right(s)
<1> DEFINE f == LengthsOf(s)
<1> SUFFICES ASSUME ~Right(s) PROVE FALSE
  OBVIOUS
<1>1. PICK m \in Nat : m <= Len(s) /\ offset = Before(f, m) /\ RightTo(s, m)
  BY DEF ReadOf
<1>2. Len(s) \in Nat /\ m # Len(s)
  BY <1>1, LongList DEF Right
<1>3. /\ m <= Len(s) - 1 /\ Len(s) - 1 \in Nat /\ Len(s) - 1 <= Len(s) /\ s # <<>>
  BY <1>1, <1>2, LongList
<1>4. /\ Before(f, m) <= Before(f, Len(s) - 1)
      /\ Before(f, m) \in Nat /\ Before(f, Len(s) - 1) \in Nat
  BY <1>1, <1>2, <1>3, LongList, BeforeGrows, ItemBegins
<1>5. Before(f, Len(s) - 1) < length /\ length \in Nat
  BY <1>3 DEF Covers
<1> DEFINE a == Before(f, m)
           b == Before(f, Len(s) - 1)
<1>6. a <= b /\ a \in Nat /\ b \in Nat /\ b < length /\ a >= length
  BY <1>1, <1>4, <1>5
<1> HIDE DEF a, b
<1> QED BY <1>5, <1>6

\* A list that is right is walked from item to item.
LEMMA PathStep ==
  ASSUME NEW s, ListOfLong(s), OnPath(s), offset < length, Right(s), ReadsErrors(s),
         seen \subseteq Nat, UNCHANGED content,
         NEW items, Item(items), \A i \in items : i.error # "NONE"
  PROVE  pc' = pc /\ OnPath(s)'
<1> DEFINE f == LengthsOf(s)
<1>1. PICK m \in Nat : /\ m <= Len(s) /\ offset = Before(f, m)
                       /\ \A o \in seen : o < offset
  BY DEF OnPath
<1>2. length = Sum(f) /\ length <= Max16 /\ Sum(f) \in Nat /\ Len(s) \in Nat
      /\ DOMAIN s = 1 .. Len(s)
  BY LongList DEF OnPath
<1>3. offset \in Nat /\ ~(offset < offset)
  BY <1>1, ItemBegins
<1>4. m < Len(s) /\ m + 1 \in DOMAIN s /\ m + 1 \in Nat /\ m + 1 <= Len(s)
  <2>1. m = Len(s) => offset = Sum(f)
    BY <1>1, ItemBegins
  <2>2. m # Len(s)
    BY <1>2, <1>3, <2>1
  <2>3. PICK n : n = Len(s)
    OBVIOUS
  <2>4. n \in Nat /\ m <= n /\ m # n
    BY <1>1, <1>2, <2>2, <2>3
  <2>5. m < n /\ m + 1 \in 1 .. n /\ m + 1 \in Nat /\ m + 1 <= n
    BY <2>4
  <2> QED BY <1>2, <2>3, <2>4, <2>5
<1>5. /\ SumOfLengths(SubSeq(s, 1, m)) = offset /\ (m + 1) - 1 = m
      /\ Before(f, m + 1) = Before(f, m) + s[m + 1].len
      /\ Before(f, m + 1) \in Nat /\ Before(f, m + 1) <= Sum(f)
  BY <1>1, <1>4, ItemBegins
<1>6. ErrorOf(s[m + 1]) = "SUCCESS" /\ Long(s[m + 1])
  BY <1>2, <1>4, LongList DEF Right, RightTo
<1>7. result' = "NONE" /\ (pc' = pc => offset' = Uint16(offset + s[m + 1].len))
  BY <1>4, <1>5, <1>6 DEF ReadsErrors
<1>8. offset \notin seen
  BY <1>1, <1>3
<1>9. PICK i \in items : i.error = "SUCCESS" /\ Advance(i.len) /\ Goto(pc)
  BY <1>7, <1>8 DEF Item, Return
<1>10. /\ pc' = pc /\ seen' = seen \cup {offset} /\ length' = length
       /\ offset' = Uint16(offset + s[m + 1].len)
  BY <1>7, <1>9 DEF Advance, Goto
<1>11. offset' = Before(f, m + 1) /\ offset < offset'
  <2> DEFINE a == Before(f, m)
             b == Before(f, m + 1)
             l == s[m + 1].len
  <2>1. /\ b = a + l /\ b \in Nat /\ b <= length /\ length <= Max16 /\ length \in Nat
        /\ offset = a /\ l \in Nat /\ 8 <= l
    BY <1>1, <1>2, <1>5, <1>6 DEF Long
  <2>2. offset' = Uint16(offset + l)
    BY <1>10
  <2> HIDE DEF a, b, l
  <2>3. b <= Max16
    BY <2>1, Max16Is
  <2>4. offset' = b
    BY <2>1, <2>2, <2>3, LeftIs
  <2>5. offset < b
    BY <2>1, <1>3
  <2> QED BY <2>4, <2>5 DEF b
<1>12. \A o \in seen' : o < offset'
  <2>1. offset' \in Nat
    BY <1>5, <1>11
  <2>2. \A o \in seen : o < offset'
    BY <1>1, <1>3, <1>11, <2>1
  <2> QED BY <1>10, <1>11, <2>2
<1>13. \E k \in Nat : /\ k <= Len(s) /\ offset' = Before(LengthsOf(s), k)
                      /\ \A o \in seen' : o < offset'
  BY <1>4, <1>11, <1>12
<1> QED BY <1>2, <1>10, <1>13 DEF OnPath

-----------------------------------------------------------------------------
(***************************************************************************)
(* What the validator has let through of a message whose content is known. *)
(***************************************************************************)
\* The flow or queue that is walked, and the list of actions or properties.
Now == IF IsFlow THEN Len(lens) ELSE Len(lens) - left + 1
ListNow == IF HasActions THEN content.items ELSE content.items[Now].parts
RightUpTo(n) == \A j \in 1 .. n : Right(content.items[j].parts)

\* The flows or queues that have been looked at are those of the message.
Matches == /\ Len(lens) <= Len(content.items)
           /\ \A j \in 1 .. Len(lens) : lens[j] = content.items[j].len
Recorded ==
  content.kind \in Walked /\ pc \notin {"stuck", "astray", "done"} =>
    /\ Matches
    /\ pc \in {"queue", "properties"} => left \in 0 .. Len(lens)
    /\ pc = "properties" => left > 0

\* What has been let through of it: the flows or queues behind the one that is
\* walked as a whole, and that one up to the offset.
Tracked ==
  /\ pc \in {"actions", "properties"} =>
       /\ ~HasActions => Now \in 1 .. Len(content.items) /\ RightUpTo(Now - 1)
       /\ Covers(ListNow) /\ ReadOf(ListNow)
  /\ pc = "flow" => RightUpTo(Len(lens))
  /\ pc = "queue" => RightUpTo(Len(lens) - left)

\* A message that is right is walked from item to item.
Straight ==
  /\ pc \in {"fixed", "array", "actions", "flow", "count", "queue", "properties"}
  /\ pc \in {"actions", "properties"} => OnPath(ListNow)

\* The length of the fixed part before the flows or queues.
BodyOf(v) == IF v = "FLOW_REPLY" THEN 12 ELSE 16

\* All that the message holds has been let through.
AllRight == IF content.kind \in Walked THEN RightUpTo(Len(content.items))
            ELSE Right(content.items)

LEMMA MessageIs ==
  ASSUME content \in Contents, Fits(content), msg = Given
  PROVE  /\ content.kind \in Validators /\ msg.header = NeededLength(content)
         /\ msg.header \in Nat /\ msg.header <= Max16 /\ 8 <= msg.header
         /\ ListOfLong(content.items)
         /\ content.kind \notin WithItems => content.items = <<>>
         /\ content.kind \in Walked =>
              /\ Sum(LengthsOf(content.items)) = msg.header - BodyOf(content.kind)
              /\ \A k \in DOMAIN content.items : Measured(content.items[k])
              /\ HeaderOf = IF IsFlow THEN 88 ELSE 8
         /\ content.kind = "FLOW_MOD" =>
              msg.header - 72 = Sum(LengthsOf(content.items))
         /\ content.kind = "PACKET_OUT" =>
              msg.actions_len = Sum(LengthsOf(content.items))
         /\ content.kind \in WithItems => Sum(LengthsOf(content.items)) <= Max16
<1> DEFINE t == Sum(LengthsOf(content.items))
           n == NeededLength(content)
           kind == content.kind
<1>1. Itemized(content) /\ kind \in Validators /\ ListsWell(content)
  BY ContentsAre, ContentsAreItemized, ContentsAreWell DEF Content
<1>2. ListOfLong(content.items) /\ (kind \notin WithItems => content.items = <<>>)
  BY <1>1 DEF Itemized
<1>3. t \in Nat /\ SumOfLengths(content.items) = t /\ LengthsOf(content.items) \in Seq(Nat)
  BY <1>2, LongList
<1>4. /\ msg.header = n /\ n \in Nat /\ n <= Max16 /\ 8 <= n
      /\ msg.actions_len = ListLength(content.items)
      /\ kind \in WithItems => /\ n = FixedLength(kind) + content.data + t
                               /\ content.data \in Nat
  BY <1>3, PlanIsNeeded DEF Given
<1>5. kind \in WithItems /\ kind # "PACKET_OUT" => content.data = 0
  BY DataOfContents
<1>6. kind \in Walked =>
        /\ kind \in WithItems /\ kind # "PACKET_OUT"
        /\ FixedLength(kind) = BodyOf(kind) /\ BodyOf(kind) \in Nat
        /\ \A k \in DOMAIN content.items : Measured(content.items[k])
        /\ HeaderOf = IF IsFlow THEN 88 ELSE 8
  BY <1>1, ListedAre DEF Walked, WithItems, FixedLength, BodyOf, ListsWell
<1> HIDE DEF t, n
<1>7. kind \in Walked => t = msg.header - BodyOf(kind)
  BY <1>3, <1>4, <1>5, <1>6
<1>8. kind = "FLOW_MOD" => msg.header - 72 = t
  <2> HAVE kind = "FLOW_MOD"
  <2>1. n = 72 + 0 + t
    BY <1>4, <1>5 DEF WithItems, FixedLength
  <2> QED BY <2>1, <1>3, <1>4
<1>9. kind \in WithItems => t <= Max16
  <2> HAVE kind \in WithItems
  <2>1. FixedLength(kind) \in Nat
    BY DEF FixedLength
  <2> QED BY <2>1, <1>3, <1>4, Max16Is
<1>10. kind = "PACKET_OUT" => msg.actions_len = t
  <2> HAVE kind = "PACKET_OUT"
  <2>1. ListLength(content.items) = Uint16(t)
    BY <1>3, ListLengthIs DEF t
  <2>2. t <= Max16
    BY <1>9 DEF WithItems
  <2> QED BY <1>3, <1>4, <2>1, <2>2, LeftIs
<1> QED BY <1>1, <1>2, <1>4, <1>6, <1>7, <1>8, <1>9, <1>10 DEF t, n

\* The lengths that have been looked at, and what they sum up to.
LEMMA LengthsSeen ==
  ASSUME ListOfLong(content.items), lens \in Seq(Nat), Matches
  PROVE  /\ Len(lens) \in Nat /\ Len(content.items) \in Nat
         /\ Sum(lens) = Before(LengthsOf(content.items), Len(lens)) /\ Sum(lens) \in Nat
         /\ Sum(lens) <= Sum(LengthsOf(content.items))
         /\ Sum(LengthsOf(content.items)) \in Nat
         /\ Len(lens) = Len(content.items) <=> Sum(lens) = Sum(LengthsOf(content.items))
         /\ Len(lens) # Len(content.items) =>
              /\ Len(lens) < Len(content.items)
              /\ Len(lens) + 1 \in DOMAIN content.items
              /\ content.items[Len(lens) + 1].len \in Nat
              /\ Sum(lens) + content.items[Len(lens) + 1].len
                   <= Sum(LengthsOf(content.items))
<1> DEFINE s == content.items
           f == LengthsOf(s)
<1>0. PICK n : n = Len(lens)
  OBVIOUS
<1>1. /\ n \in Nat /\ Len(s) \in Nat /\ n <= Len(s) /\ DOMAIN s = 1 .. Len(s)
      /\ f \in Seq(Nat) /\ Len(f) = Len(s) /\ Sum(f) \in Nat
      /\ \A q \in 1 .. Len(s) : f[q] = s[q].len
  BY <1>0, LongList DEF Matches
<1>2. \A j \in 1 .. n : f[j] = lens[j]
  <2>1. \A j \in 1 .. n : j \in 1 .. Len(s) /\ lens[j] = s[j].len
    BY <1>0, <1>1 DEF Matches
  <2> QED BY <1>1, <2>1
<1>3. lens = SubSeq(f, 1, n)
  <2> HIDE DEF f
  <2>1. SubSeq(f, 1, n) = [j \in 1 .. n |-> f[j]]
    BY <1>1
  <2>2. lens = [j \in 1 .. n |-> lens[j]]
    BY <1>0
  <2> QED BY <1>2, <2>1, <2>2
<1>4. Sum(lens) = Before(f, n) /\ Sum(lens) \in Nat /\ Sum(lens) <= Sum(f)
      /\ (n = Len(s) => Sum(lens) = Sum(f))
  BY <1>1, <1>3, ItemBegins DEF Before
<1>5. n # Len(s) =>
        /\ n < Len(s) /\ n + 1 \in DOMAIN s /\ s[n + 1].len \in Nat
        /\ Sum(lens) + s[n + 1].len <= Sum(f) /\ Sum(lens) # Sum(f)
  <2> HAVE n # Len(s)
  <2>1. n < Len(s)
    <3> DEFINE k == Len(s)
    <3>1. k \in Nat /\ n <= k /\ n # k
      BY <1>1
    <3> HIDE DEF k
    <3>2. n < k
      BY <3>1, <1>1
    <3> QED BY <3>2 DEF k
  <2>2. /\ Long(s[n + 1]) /\ n + 1 \in DOMAIN s
        /\ Before(f, n + 1) = Before(f, n) + s[n + 1].len
        /\ Before(f, n + 1) <= Sum(f)
    BY <1>1, <2>1, ItemOfList
  <2> DEFINE a == Before(f, n)
             b == Before(f, n + 1)
             l == s[n + 1].len
             t == Sum(f)
             z == Sum(lens)
  <2>3. l \in Nat /\ 8 <= l /\ a \in Nat /\ b = a + l /\ b <= t /\ t \in Nat /\ z = a
    BY <2>2, <1>1, <1>4 DEF Long
  <2> HIDE DEF a, b, l, t, z
  <2>4. z + l <= t /\ z # t
    BY <2>3
  <2> QED BY <2>1, <2>2, <2>3, <2>4 DEF l, t, z
<1> QED BY <1>0, <1>1, <1>4, <1>5

LEMMA OneMoreSeen ==
  ASSUME ListOfLong(content.items), lens \in Seq(Nat), Matches,
         Sum(lens) # Sum(LengthsOf(content.items)),
         NEW len \in Nat, lens' = Append(lens, len), UNCHANGED content,
         Last(lens') = content.items[Len(lens) + 1].len
  PROVE  /\ Matches' /\ Len(lens') = Len(lens) + 1
         /\ len = content.items[Len(lens) + 1].len /\ Last(lens') = len
         /\ Len(lens) + 1 \in DOMAIN content.items
<1>0. PICK n : n = Len(lens)
  OBVIOUS
<1>1. n \in Nat /\ Len(content.items) \in Nat /\ n < Len(content.items)
      /\ n + 1 \in DOMAIN content.items
  BY <1>0, LengthsSeen
<1>2. Len(lens') = n + 1 /\ lens'[n + 1] = len /\ \A j \in 1 .. n : lens'[j] = lens[j]
  BY <1>0
<1>3. Last(lens') = len
  BY <1>2 DEF Last
<1>4. len = content.items[n + 1].len
  BY <1>0, <1>3
<1>5. \A j \in 1 .. n + 1 : lens'[j] = content.items[j].len
  <2>1. \A j \in 1 .. n + 1 : j = n + 1 \/ j \in 1 .. n
    BY <1>1
  <2> QED BY <1>0, <1>2, <1>4, <2>1 DEF Matches
<1>6. n + 1 <= Len(content.items)
  BY <1>1
<1> QED BY <1>0, <1>1, <1>2, <1>3, <1>4, <1>5, <1>6 DEF Matches

-----------------------------------------------------------------------------
(***************************************************************************)
(* The flows or queues that the validator looks at.                        *)
(***************************************************************************)
\* The validator of its own kind looks at a message that fits.
Checking ==
  /\ content \in Contents /\ Fits(content) /\ UNCHANGED content
  /\ by = content.kind /\ msg = Given /\ ValidInv /\ ReadsContent /\ Recorded

LEMMA WhileChecking ==
  ASSUME Checking
  PROVE  /\ lens \in Seq(Nat) /\ offset \in Nat /\ seen \subseteq Nat
         /\ ListOfLong(content.items)
         /\ pc = "array" => content.kind \notin WithItems
         /\ pc \in {"flow", "count"} =>
              /\ content.kind \in Walked /\ Matches
              /\ left \in Nat /\ left <= Max16
              /\ left + Sum(lens) = Sum(LengthsOf(content.items))
         /\ pc = "actions" => HasActions \/ content.kind = "FLOW_REPLY"
         /\ pc = "actions" /\ content.kind = "FLOW_REPLY" =>
              /\ Matches /\ lens # <<>> /\ left \in Nat /\ left <= Max16
              /\ left + Sum(lens) - Last(lens) = Sum(LengthsOf(content.items))
         /\ pc = "flow" => content.kind = "FLOW_REPLY"
         /\ pc \in {"count", "queue", "properties"} =>
              content.kind = "QUEUE_GET_CONFIG_REPLY"
         /\ pc \in {"queue", "properties"} =>
              Matches /\ Sum(lens) = Sum(LengthsOf(content.items))
<1>1. /\ CheckInv /\ ErrorsFit /\ content \in Contents /\ Fits(content) /\ msg = Given
      /\ by = content.kind /\ Recorded
  BY DEF Checking, ValidInv
<1>2. ListOfLong(content.items)
  BY <1>1, MessageIs
<1>3. pc = "array" => content.kind \notin WithItems
  BY <1>1 DEF ErrorsFit, Arrays, WithItems
<1>4. content.kind \in Walked =>
        Sum(LengthsOf(content.items)) = msg.header - BodyOf(content.kind)
  BY <1>1, MessageIs
<1>5. /\ pc = "flow" => content.kind = "FLOW_REPLY"
      /\ pc \in {"count", "queue", "properties"} =>
           content.kind = "QUEUE_GET_CONFIG_REPLY"
      /\ pc = "actions" => HasActions \/ content.kind = "FLOW_REPLY"
  BY <1>1 DEF CheckInv, AtItsPart
<1> DEFINE t == Sum(LengthsOf(content.items))
           a == Sum(lens)
           b == Last(lens)
<1>6. t \in Nat /\ t <= Max16 + t
  <2>1. t \in Nat
    BY <1>2, LongList
  <2> HIDE DEF t
  <2> QED BY <2>1, Max16Is
<1>7. content.kind \in Walked => BodyLength = t
  BY <1>1, <1>4 DEF BodyLength, BodyOf
<1>8. lens \in Seq(Nat) /\ offset \in Nat /\ seen \subseteq Nat
  BY <1>1 DEF CheckInv, AddedUp, Passed
<1>9. Matches => a \in Nat /\ a <= t
  BY <1>2, <1>8, LengthsSeen
<1>10. ASSUME pc \in {"flow", "count"}
       PROVE  /\ content.kind \in Walked /\ Matches
              /\ left \in Nat /\ left <= Max16 /\ left + a = t
  <2>1. /\ content.kind \in Walked /\ left \in Nat /\ left <= Max16
        /\ AddsUp(left + a, BodyLength, wrapped)
    BY <1>1, <1>5, <1>10 DEF CheckInv, AddedUp, Walked
  <2>2. Matches
    BY <1>1, <1>10, <2>1 DEF Recorded
  <2> DEFINE n == left + a
  <2>3. AddsUp(n, t, wrapped)
    BY <1>7, <2>1
  <2>4. n <= t + Max16
    <3> HIDE DEF a, t
    <3> QED BY <1>6, <1>9, <2>1, <2>2, Max16Is
  <2>5. n = t
    <3> HIDE DEF n, t
    <3> QED BY <1>6, <2>3, <2>4, AddsUpExactly
  <2> QED BY <2>1, <2>2, <2>5
<1>11. ASSUME pc = "actions", content.kind = "FLOW_REPLY"
       PROVE  /\ Matches /\ lens # <<>> /\ left \in Nat /\ left <= Max16
              /\ left + a - b = t
  <2>1. /\ content.kind \in Walked /\ lens # <<>> /\ left \in Nat /\ left <= Max16
        /\ AddsUp(left + (a - b), BodyLength, wrapped)
    BY <1>1, <1>11 DEF CheckInv, AddedUp, Walked
  <2>2. Matches
    BY <1>1, <1>11, <2>1 DEF Recorded
  <2> DEFINE n == left + (a - b)
  <2>3. AddsUp(n, t, wrapped)
    BY <1>7, <2>1
  <2>4. b \in Nat
    BY <1>8, <2>1, LastOfLengths
  <2>5. n <= t + Max16 /\ n = left + a - b
    <3> HIDE DEF a, b, t
    <3> QED BY <1>6, <1>9, <2>1, <2>2, <2>4, Max16Is
  <2>6. n = t
    <3> HIDE DEF n, t
    <3> QED BY <1>6, <2>3, <2>5, AddsUpExactly
  <2> QED BY <2>1, <2>2, <2>5, <2>6
<1>12. ASSUME pc \in {"queue", "properties"}
       PROVE  Matches /\ a = t
  <2>1. content.kind \in Walked /\ AddsUp(a, BodyLength, wrapped)
    BY <1>1, <1>5, <1>12 DEF CheckInv, AddedUp, Walked
  <2>2. Matches
    BY <1>1, <1>12, <2>1 DEF Recorded
  <2>3. AddsUp(a, t, wrapped)
    BY <1>7, <2>1
  <2>4. a <= t + Max16
    <3> HIDE DEF a, t
    <3> QED BY <1>6, <1>9, <2>2, Max16Is
  <2>5. a = t
    <3> HIDE DEF a, t
    <3> QED BY <1>6, <2>3, <2>4, AddsUpExactly
  <2> QED BY <2>2, <2>5
<1> QED BY <1>2, <1>3, <1>5, <1>8, <1>10, <1>11, <1>12

LEMMA SameMatches ==
  ASSUME UNCHANGED <<lens, content>>
  PROVE  Matches' <=> Matches
BY DEF Matches

LEMMA FixedPartRecords ==
  ASSUME Checking, FixedPart
  PROVE  Recorded'
<1>1. /\ UNCHANGED <<lens, content>> /\ by = content.kind /\ lens = <<>>
      /\ content \in Contents
  BY DEF Checking, FixedPart, ValidInv, CheckInv, AddedUp
<1>2. pc' \in {"done", "array", "actions", "flow", "count"}
  BY DEF FixedPart, Return, Goto
<1>3. Len(lens) = 0 /\ Len(content.items) \in Nat
  <2>1. Len(<<>>) = 0
    OBVIOUS
  <2> QED BY <1>1, <2>1, WhileChecking, LongList
<1>4. Matches
  BY <1>3 DEF Matches
<1> QED BY <1>1, <1>2, <1>4, SameMatches DEF Recorded

LEMMA ItemRecords ==
  ASSUME Checking, NEW items, Item(items), pc \in {"actions", "properties"}
  PROVE  Recorded'
<1>1. /\ UNCHANGED <<left, lens, content>>
      /\ pc' \in {"stuck", "done", pc}
  BY DEF Item, Checking, Goto, Return
<1>2. Matches' <=> Matches
  BY <1>1, SameMatches
<1> QED BY <1>1, <1>2 DEF Recorded, Checking

LEMMA FlowRecords ==
  ASSUME Checking, Flow
  PROVE  /\ Recorded' /\ pc' \in {"done", "actions"}
         /\ pc' = "done" /\ result' = "SUCCESS" =>
              UNCHANGED <<lens, left>> /\ Len(lens) = Len(content.items)
         /\ left # 0 => pc' = "actions"
         /\ pc' = "actions" =>
              /\ Len(lens') = Len(lens) + 1 /\ Len(lens') \in DOMAIN content.items
              /\ offset' = 0 /\ seen' = {}
              /\ length' = Uint16(content.items[Len(lens')].len - 88)
<1>1. /\ pc = "flow" /\ content.kind = "FLOW_REPLY" /\ UNCHANGED <<by, content, left>>
      /\ lens \in Seq(Nat) /\ ListOfLong(content.items) /\ Matches
      /\ left \in Nat /\ left + Sum(lens) = Sum(LengthsOf(content.items))
  BY WhileChecking DEF Flow, Checking
<1>2. /\ Sum(lens) \in Nat /\ Sum(LengthsOf(content.items)) \in Nat
      /\ Len(lens) = Len(content.items) <=> Sum(lens) = Sum(LengthsOf(content.items))
  BY <1>1, LengthsSeen
<1>3. CASE left = 0
  <2>1. pc' = "done" /\ UNCHANGED lens
    BY <1>3 DEF Flow, Return
  <2>2. Len(lens) = Len(content.items)
    BY <1>1, <1>2, <1>3
  <2> QED BY <1>1, <1>3, <2>1, <2>2 DEF Recorded
<1>4. CASE left # 0
  <2>1. left > 0
    BY <1>1, <1>4
  <2>5. Sum(lens) # Sum(LengthsOf(content.items))
    <3> DEFINE a == Sum(lens)
               b == Sum(LengthsOf(content.items))
    <3>1. a \in Nat /\ b \in Nat /\ left + a = b
      BY <1>1, <1>2
    <3> HIDE DEF a, b
    <3>2. a # b
      BY <3>1, <1>1, <1>4
    <3> QED BY <3>2 DEF a, b
  <2>8. Len(lens) + 1 \in DOMAIN content.items
    BY <1>1, <2>5, LengthsSeen
  <2>2. result' = "NONE" /\ Last(lens') = content.items[Len(lens) + 1].len
    BY <1>1, <2>1, <2>8 DEF Checking, ReadsContent, ReadsLength
  <2>3. PICK len \in ItemLengths : /\ lens' = Append(lens, len)
                                   /\ BeginList(Uint16(len - 88))
                                   /\ pc' = "actions"
    <3>1. \A e \in ToSet(Match) \cup {"INVALID_FLOW_PRIORITY"} : e # "NONE"
      BY DEF ToSet, Match
    <3> QED BY <1>4, <2>2, <3>1 DEF Flow, Return, Goto
  <2>4. len \in Nat
    BY LengthsAre
  <2>6. /\ Matches' /\ Len(lens') = Len(lens) + 1
        /\ len = content.items[Len(lens) + 1].len
        /\ Len(lens) + 1 \in DOMAIN content.items
    BY <1>1, <2>2, <2>3, <2>4, <2>5, OneMoreSeen
  <2>7. Recorded'
    BY <2>3, <2>6 DEF Recorded
  <2> QED BY <1>4, <2>2, <2>3, <2>6, <2>7 DEF BeginList
<1> QED BY <1>3, <1>4

LEMMA CountQueueRecords ==
  ASSUME Checking, CountQueue
  PROVE  /\ Recorded'
         /\ \E len \in Nat : /\ Take(len, "count") /\ len + Sum(lens) <= left + Sum(lens)
                             /\ len = content.items[Len(lens) + 1].len
                             /\ Len(lens) + 1 \in DOMAIN content.items
<1>1. /\ pc = "count" /\ content.kind = "QUEUE_GET_CONFIG_REPLY" /\ UNCHANGED <<by, content>>
      /\ lens \in Seq(Nat) /\ ListOfLong(content.items) /\ Matches
      /\ left \in Nat /\ left + Sum(lens) = Sum(LengthsOf(content.items))
      /\ left > 8
  BY WhileChecking DEF CountQueue, Checking
<1>2. /\ Sum(lens) \in Nat /\ Sum(LengthsOf(content.items)) \in Nat
      /\ Len(lens) = Len(content.items) <=> Sum(lens) = Sum(LengthsOf(content.items))
      /\ Len(lens) # Len(content.items) =>
           Sum(lens) + content.items[Len(lens) + 1].len
             <= Sum(LengthsOf(content.items))
  BY <1>1, LengthsSeen
<1>6. Sum(lens) # Sum(LengthsOf(content.items))
  <2> DEFINE a == Sum(lens)
             b == Sum(LengthsOf(content.items))
  <2>1. a \in Nat /\ b \in Nat /\ left + a = b /\ left > 8 /\ left \in Nat
    BY <1>1, <1>2
  <2> HIDE DEF a, b
  <2>2. a # b
    BY <2>1
  <2> QED BY <2>2 DEF a, b
<1>10. Len(lens) + 1 \in DOMAIN content.items
  BY <1>1, <1>6, LengthsSeen
<1>3. Last(lens') = content.items[Len(lens) + 1].len
  BY <1>1, <1>10 DEF Checking, ReadsContent, ReadsLength
<1>4. PICK len \in ItemLengths : lens' = Append(lens, len) /\ Take(len, "count")
  BY DEF CountQueue
<1>5. len \in Nat
  BY LengthsAre
<1>7. /\ Matches' /\ len = content.items[Len(lens) + 1].len
      /\ Len(lens) + 1 \in DOMAIN content.items
  BY <1>1, <1>3, <1>4, <1>5, <1>6, OneMoreSeen
<1>8. Recorded'
  <2>1. pc' \in {"count", "stuck", "astray"}
    BY <1>4 DEF Take, Goto
  <2> QED BY <1>7, <2>1 DEF Recorded
<1>9. len + Sum(lens) <= left + Sum(lens)
  <2> DEFINE a == Sum(lens)
             b == Sum(LengthsOf(content.items))
  <2>1. a \in Nat /\ left + a = b /\ a + len <= b /\ left \in Nat
    BY <1>1, <1>2, <1>6, <1>7
  <2> HIDE DEF a, b
  <2>2. len + a <= left + a
    BY <2>1, <1>5
  <2> QED BY <2>2 DEF a
<1> QED BY <1>4, <1>5, <1>7, <1>8, <1>9

LEMMA RecordedStays ==
  ASSUME Checking, UNCHANGED <<lens, content>>, pc \notin {"stuck", "astray", "done"},
         pc' \in {"queue", "properties"} => left' \in 0 .. Len(lens),
         pc' = "properties" => left' > 0
  PROVE  Recorded'
<1>1. content.kind \in Walked => Matches
  BY DEF Checking, Recorded
<1>2. Matches' <=> Matches
  BY SameMatches
<1>3. content' = content /\ lens' = lens
  OBVIOUS
<1> QED BY <1>1, <1>2, <1>3 DEF Recorded

LEMMA RecordedNext ==
  ASSUME Checking, Next
  PROVE  Recorded' /\ UNCHANGED <<msg, by>>
<1>1. UNCHANGED <<msg, by>>
  BY DEF Next, FixedPart, Element, Action, ActionsEnd, Flow, FlowEnd, CountQueue,
         CountEnd, Queue, Property, PropertiesEnd, Item
<1>2. CASE Element
  <2>1. content.kind \notin Walked
    BY <1>2, WhileChecking DEF Element, Walked, WithItems
  <2> QED BY <1>1, <2>1 DEF Checking, Recorded
<1>3. CASE ActionsEnd
  BY <1>1, <1>3 DEF ActionsEnd, Return, Recorded
<1>4. CASE FlowEnd
  <2>1. /\ pc' \in {"flow", "stuck", "astray"} /\ UNCHANGED <<lens, content>>
        /\ pc = "actions"
    BY <1>4 DEF FlowEnd, Take, Goto, Checking
  <2> QED BY <1>1, <2>1, RecordedStays
<1>5. CASE CountEnd
  <2>1. /\ pc' \in {"done", "queue"} /\ UNCHANGED <<lens, content>>
        /\ pc' = "queue" => left' = Len(lens)
        /\ pc = "count"
    BY <1>5 DEF CountEnd, Return, Goto, Checking
  <2>2. Len(lens) \in 0 .. Len(lens)
    <3>1. Len(lens) \in Nat
      BY WhileChecking
    <3> QED BY <3>1
  <2>3. pc' \in {"queue", "properties"} => left' \in 0 .. Len(lens)
    BY <2>1, <2>2
  <2> QED BY <1>1, <2>1, <2>3, RecordedStays
<1>6. CASE Queue
  <2>1. /\ pc' \in {"done", "properties"} /\ UNCHANGED <<lens, left, content>>
        /\ pc' = "properties" => left > 0
        /\ pc = "queue"
    BY <1>6 DEF Queue, Return, Goto, Checking
  <2>2. left \in 0 .. Len(lens)
    BY <2>1, WhileChecking DEF Checking, Recorded, Walked
  <2>3. /\ pc' \in {"queue", "properties"} => left' \in 0 .. Len(lens)
        /\ pc' = "properties" => left' > 0
    BY <2>1, <2>2
  <2> QED BY <1>1, <2>1, <2>3, RecordedStays
<1>7. CASE PropertiesEnd
  <2>1. /\ pc' = "queue" /\ UNCHANGED <<lens, content>> /\ left' = left - 1
        /\ pc = "properties"
    BY <1>7 DEF PropertiesEnd, Goto, Checking
  <2>2. left' \in 0 .. Len(lens)
    <3>1. left \in 0 .. Len(lens) /\ left > 0 /\ Len(lens) \in Nat
      BY <2>1, WhileChecking DEF Checking, Recorded, Walked
    <3> QED BY <2>1, <3>1
  <2> QED BY <1>1, <2>1, <2>2, RecordedStays
<1>8. CASE Action
  <2>1. Item(ActionItems) /\ pc \in {"actions", "properties"}
    BY <1>8 DEF Action
  <2> QED BY <1>1, <2>1, ItemRecords
<1>9. CASE Property
  <2>1. Item(PropertyItems) /\ pc \in {"actions", "properties"}
    BY <1>9 DEF Property
  <2> QED BY <1>1, <2>1, ItemRecords
<1> QED BY <1>1, <1>2, <1>3, <1>4, <1>5, <1>6, <1>7, <1>8, <1>9, FixedPartRecords,
           FlowRecords, CountQueueRecords DEF Next

-----------------------------------------------------------------------------
(***************************************************************************)
(* What is accepted has been let through as a whole.                       *)
(***************************************************************************)
LEMMA FilledCovers ==
  ASSUME content \in Contents, content.kind \in Walked, Filled(content),
         NEW k \in DOMAIN content.items
  PROVE  LET i == content.items[k]
             n == i.len - HeaderOf
         IN /\ ListOfLong(i.parts) /\ n \in Nat /\ n <= Max16 /\ Uint16(n) = n
            /\ n <= Sum(LengthsOf(i.parts))
            /\ i.parts = <<>> => n = 0
            /\ i.parts # <<>> => Before(LengthsOf(i.parts), Len(i.parts) - 1) < n
<1> DEFINE i == content.items[k]
           s == i.parts
           h == HeaderOf
           l == i.len
           t == Sum(LengthsOf(s))
           b == Before(LengthsOf(s), Len(s) - 1)
           n == l - h
<1>1. Measured(i) /\ h \in Nat
  BY ListedAre
<1>2. ListOfLong(s) /\ l \in Nat /\ l <= Max16
  BY <1>1 DEF Measured, Long
<1>3. i \in ToSet(content.items)
  BY DEF ToSet
<1>4. h = SizeOf(IF content.kind = "FLOW_REPLY" THEN ofp_flow_stats
                 ELSE ofp_packet_queue)
  BY DEF HeaderOf, IsFlow
<1>5. /\ l <= h + SumOfLengths(s)
      /\ s = <<>> => l = h
      /\ s # <<>> => l > h + SumOfLengths(Front(s))
  BY <1>3, <1>4 DEF Filled
<1>6. SumOfLengths(s) = t /\ t \in Nat
  BY <1>2, LongList
<1>7. s # <<>> => SumOfLengths(Front(s)) = b /\ b \in Nat
  <2> HAVE s # <<>>
  <2>1. Len(s) - 1 \in Nat /\ Len(s) - 1 <= Len(s)
    <3>1. Len(s) \in Nat /\ Len(s) # 0
      BY <1>2, LongList
    <3> QED BY <3>1
  <2> QED BY <1>2, <2>1, ItemBegins DEF Front
<1> HIDE DEF h, l, t, b
<1>8. /\ n \in Nat /\ n <= Max16 /\ n <= t
      /\ s = <<>> => n = 0
      /\ s # <<>> => b < n
  BY <1>1, <1>2, <1>5, <1>6, <1>7, Max16Is
<1>9. Uint16(n) = n
  BY <1>8, LeftIs
<1> QED BY <1>2, <1>8, <1>9 DEF h, l, t, b

LEMMA ListBegins ==
  ASSUME NEW s, ListOfLong(s), offset' = 0
  PROVE  ReadOf(s)'
<1>1. 0 <= Len(s) /\ Before(LengthsOf(s), 0) = 0
  <2>1. Len(s) \in Nat
    BY LongList
  <2>2. 0 <= Len(s)
    BY <2>1
  <2> QED BY <2>2, ItemBegins
<1>2. RightTo(s, 0)'
  BY DEF RightTo
<1> QED BY <1>1, <1>2 DEF ReadOf

LEMMA NothingToRead ==
  ASSUME content.kind \notin WithItems, content.items = <<>>
  PROVE  AllRight
<1>1. Len(<<>>) = 0
  OBVIOUS
<1> QED BY <1>1 DEF AllRight, Walked, WithItems, Right, RightTo

\* The list that is walked is one of the lists of the message.
LEMMA ListIsLong ==
  ASSUME Checking, pc \in {"actions", "properties"}
  PROVE  /\ ListOfLong(ListNow)
         /\ ~HasActions =>
              /\ content.kind \in Walked /\ Now \in DOMAIN content.items
              /\ ListNow = content.items[Now].parts
<1>1. /\ pc = "actions" => HasActions \/ content.kind = "FLOW_REPLY"
      /\ pc = "actions" /\ content.kind = "FLOW_REPLY" => Matches /\ lens # <<>>
      /\ pc = "properties" => content.kind = "QUEUE_GET_CONFIG_REPLY" /\ Matches
      /\ ListOfLong(content.items) /\ lens \in Seq(Nat)
  BY WhileChecking
<1>2. CASE HasActions
  BY <1>1, <1>2 DEF ListNow
<1>3. CASE ~HasActions
  <2>1. content.kind \in Walked /\ Matches
    BY <1>1, <1>3 DEF Walked
  <2>2. Len(lens) \in Nat /\ DOMAIN content.items = 1 .. Len(content.items)
        /\ Len(lens) <= Len(content.items) /\ Len(content.items) \in Nat
    BY <1>1, <2>1, LongList DEF Matches
  <2>3. Now \in 1 .. Len(lens)
    <3>1. CASE pc = "actions"
      <4>1. Len(lens) # 0
        BY <1>1, <1>3, <3>1
      <4>2. Now = Len(lens)
        BY <1>1, <1>3, <3>1 DEF Now, IsFlow
      <4> QED BY <2>2, <4>1, <4>2
    <3>2. CASE pc = "properties"
      <4>1. left \in 0 .. Len(lens) /\ left > 0
        BY <2>1, <3>2 DEF Checking, Recorded
      <4>2. Now = Len(lens) - left + 1
        BY <1>1, <3>2 DEF Now, IsFlow
      <4> QED BY <2>2, <4>1, <4>2
    <3> QED BY <3>1, <3>2
  <2>4. Now \in DOMAIN content.items
    BY <2>2, <2>3
  <2>5. Measured(content.items[Now])
    BY <2>1, <2>4, ListedAre DEF Checking
  <2> QED BY <1>3, <2>1, <2>4, <2>5 DEF Measured, ListNow
<1> QED BY <1>2, <1>3

\* What it reads is what is there.
LEMMA ListIsRead ==
  ASSUME Checking, pc \in {"actions", "properties"}, offset < length
  PROVE  ReadsErrors(ListNow)
<1>1. /\ pc = "actions" => HasActions \/ content.kind = "FLOW_REPLY"
      /\ pc = "properties" => content.kind = "QUEUE_GET_CONFIG_REPLY"
  BY WhileChecking
<1>2. by = content.kind /\ ReadsContent
  BY DEF Checking
<1>3. CASE pc = "actions"
  <2>1. content.kind # "QUEUE_GET_CONFIG_REPLY"
    BY <1>1, <1>2, <1>3 DEF HasActions
  <2>2. ListNow = IF HasActions THEN content.items ELSE content.items[Len(lens)].parts
    BY <1>1, <1>3 DEF ListNow, Now, IsFlow
  <2>3. PICK s : s = ListNow
    OBVIOUS
  <2>4. ReadsItem(s, LAMBDA a : ActionError(a.type, a.len, FALSE))
    <3>1. CASE HasActions
      BY <1>2, <1>3, <2>2, <2>3, <3>1 DEF ReadsContent
    <3>2. CASE ~HasActions
      <4>1. Len(lens) \in DOMAIN content.items
        BY <1>1, <1>3, <3>2, ListIsLong DEF Now, IsFlow
      <4>2. ReadsParts(Len(lens), LAMBDA a : ActionError(a.type, a.len, FALSE))
        BY <1>2, <1>3, <3>2 DEF ReadsContent
      <4> QED BY <2>2, <2>3, <3>2, <4>1, <4>2 DEF ReadsParts
    <3> QED BY <3>1, <3>2
  <2>5. ReadsErrors(s)
    BY <2>1, <2>4 DEF ReadsItem, ReadsErrors, ErrorOf
  <2> QED BY <2>3, <2>5
<1>4. CASE pc = "properties"
  <2>1. content.kind = "QUEUE_GET_CONFIG_REPLY" /\ ~HasActions
    BY <1>1, <1>2, <1>4 DEF HasActions
  <2>2. ListNow = content.items[Len(lens) - left + 1].parts
    BY <2>1 DEF ListNow, Now, IsFlow
  <2>3. PICK s : s = ListNow
    OBVIOUS
  <2>4. ReadsItem(s, LAMBDA p : PropertyError(p.type, p.len))
    <3>1. PICK n : n = Len(lens) - left + 1
      OBVIOUS
    <3>2. n \in DOMAIN content.items
      BY <1>4, <2>1, <3>1, ListIsLong DEF Now, IsFlow
    <3>3. ReadsParts(n, LAMBDA p : PropertyError(p.type, p.len))
      BY <1>2, <1>4, <3>1 DEF ReadsContent
    <3> QED BY <2>2, <2>3, <3>1, <3>2, <3>3 DEF ReadsParts
  <2>5. ReadsErrors(s)
    BY <2>1, <2>4 DEF ReadsItem, ReadsErrors, ErrorOf
  <2> QED BY <2>3, <2>5
<1> QED BY <1>3, <1>4

-----------------------------------------------------------------------------
(***************************************************************************)
(* What the validator lets through, step by step.                          *)
(***************************************************************************)
\* What a step of the validator lets through.
Tracks == Tracked' /\ (result' = "SUCCESS" => AllRight)

LEMMA SameRight ==
  ASSUME UNCHANGED content
  PROVE  \A n : RightUpTo(n)' <=> RightUpTo(n)
BY SameErrors DEF RightUpTo

\* The length of its actions that the message gives is the one they have.
LEMMA ActionsOfMessage ==
  ASSUME Checking, HasActions
  PROVE  /\ ListOfLong(content.items) /\ Sum(LengthsOf(content.items)) \in Nat
         /\ ActionsLength = Sum(LengthsOf(content.items))
         /\ Sum(LengthsOf(content.items)) <= Max16
<1>1. by = content.kind /\ content.kind \in {"PACKET_OUT", "FLOW_MOD"}
  BY DEF Checking, HasActions
<1>2. ActionsLength = Sum(LengthsOf(content.items))
  BY <1>1, MessageIs DEF Checking, ActionsLength
<1> QED BY <1>1, <1>2, LongList, MessageIs DEF Checking, WithItems

LEMMA FixedPartTracks ==
  ASSUME Checking, FixedPart
  PROVE  Tracks
<1>1. /\ content.kind \in Validators /\ by = content.kind /\ msg = Given
      /\ ListOfLong(content.items) /\ lens = <<>>
      /\ content.kind \notin WithItems => content.items = <<>>
      /\ UNCHANGED <<lens, content, by>>
  BY MessageIs DEF Checking, FixedPart, ValidInv, CheckInv, AddedUp
<1>2. CASE pc' = "actions"
  <2> DEFINE s == content.items
             t == Sum(LengthsOf(s))
  <2>1. /\ HasActions /\ offset' = 0 /\ length' = ActionsLength /\ result' = "NONE"
    BY <1>2 DEF FixedPart, Return, Goto, BeginList
  <2>2. ActionsLength = t
    BY <2>1, ActionsOfMessage
  <2>3. t \in Nat /\ t <= Max16
    BY <2>1, ActionsOfMessage
  <2>4. s = <<>> => t = 0
    <3> HAVE s = <<>>
    <3>1. Len(s) = 0 /\ 0 <= Len(s)
      BY <1>1, LongList
    <3> QED BY <1>1, <3>1, ItemBegins
  <2>5. s # <<>> => Before(LengthsOf(s), Len(s) - 1) < t
    <3> HAVE s # <<>>
    <3>1. PICK k \in Nat : k + 1 = Len(s) /\ k = Len(s) - 1 /\ k < Len(s)
      <4>1. Len(s) \in Nat /\ Len(s) # 0
        BY <1>1, LongList
      <4>2. Len(s) - 1 \in Nat /\ (Len(s) - 1) + 1 = Len(s) /\ Len(s) - 1 < Len(s)
        BY <4>1
      <4> QED BY <4>2
    <3>2. /\ Long(s[k + 1]) /\ Before(LengthsOf(s), k) \in Nat
          /\ Before(LengthsOf(s), k + 1) = Before(LengthsOf(s), k) + s[k + 1].len
      BY <1>1, <3>1, ItemOfList
    <3>3. Len(s) <= Len(s) /\ Len(s) \in Nat
      <4>1. Len(s) \in Nat
        BY <1>1, LongList
      <4> QED BY <4>1
    <3>4. Before(LengthsOf(s), Len(s)) = t
      BY <1>1, <3>3, ItemBegins
    <3> DEFINE b == Before(LengthsOf(s), k)
               l == s[k + 1].len
    <3>5. l \in Nat /\ 8 <= l /\ b \in Nat /\ t = b + l
      BY <3>1, <3>2, <3>4 DEF Long
    <3> HIDE DEF b, l, t
    <3>6. b < t
      BY <3>5
    <3> QED BY <3>1, <3>6 DEF b
  <2>6. Covers(s)'
    BY <1>1, <2>1, <2>2, <2>3, <2>4, <2>5 DEF Covers
  <2>7. ReadOf(s)'
    BY <1>1, <2>1, ListBegins
  <2>8. ListNow' = s /\ HasActions'
    BY <1>1, <2>1 DEF ListNow, HasActions
  <2>9. Covers(ListNow)' /\ ReadOf(ListNow)'
    <3>1. PICK z : z = s
      OBVIOUS
    <3>2. Covers(z)' /\ ReadOf(z)' /\ ListNow' = z
      BY <2>6, <2>7, <2>8, <3>1, <1>1
    <3> QED BY <3>2
  <2> QED BY <1>2, <2>1, <2>8, <2>9 DEF Tracks, Tracked
<1>3. CASE pc' = "flow"
  <2>1. Len(lens') = 0
    <3>1. Len(<<>>) = 0
      OBVIOUS
    <3> QED BY <1>1, <3>1
  <2>2. RightUpTo(Len(lens))'
    BY <2>1 DEF RightUpTo
  <2>3. result' = "NONE"
    BY <1>3 DEF FixedPart, Return, Goto
  <2> QED BY <1>3, <2>2, <2>3 DEF Tracks, Tracked
<1>4. CASE pc' \notin {"actions", "flow"}
  <2>1. pc' \in {"array", "count", "done"}
    BY <1>4 DEF FixedPart, Return, Goto
  <2>2. result' = "SUCCESS" => AllRight
    <3> HAVE result' = "SUCCESS"
    <3>1. by \notin DOMAIN Arrays \cup {"FLOW_REPLY", "QUEUE_GET_CONFIG_REPLY"}
          /\ ~HasActions
      BY DEF FixedPart, Return, Goto
    <3>2. content.kind \notin WithItems
      BY <1>1, <3>1 DEF HasActions, WithItems
    <3> QED BY <1>1, <3>2, NothingToRead
  <2> QED BY <2>1, <2>2 DEF Tracks, Tracked
<1> QED BY <1>2, <1>3, <1>4

LEMMA ElementTracks ==
  ASSUME Checking, Element
  PROVE  Tracks
<1>1. /\ content.kind \notin WithItems /\ content.items = <<>>
  BY WhileChecking, MessageIs DEF Element, Checking
<1>2. pc' \in {"array", "done"}
  BY DEF Element, Return, Goto
<1> QED BY <1>1, <1>2, NothingToRead DEF Tracks, Tracked

LEMMA ItemTracks ==
  ASSUME Checking, Tracked, NEW items, Item(items), pc \in {"actions", "properties"},
         \A i \in items : i.error # "NONE"
  PROVE  Tracks
<1>1. /\ UNCHANGED <<left, lens, content, by>> /\ offset < length
      /\ ~HasActions => Now \in 1 .. Len(content.items) /\ RightUpTo(Now - 1)
      /\ Covers(ListNow) /\ ReadOf(ListNow)
  BY DEF Item, Checking, Tracked
<1>2. CASE pc' # pc
  <2>1. pc' \in {"stuck", "done"} /\ result' # "SUCCESS"
    BY <1>2 DEF Item, Goto, Return
  <2> QED BY <2>1 DEF Tracks, Tracked
<1>3. CASE pc' = pc
  <2>1. result' = "NONE" /\ UNCHANGED length
    BY <1>3 DEF Item, Goto, Return, Advance
  <2>2. PICK s : s = ListNow
    OBVIOUS
  <2>3. ListOfLong(s) /\ Covers(s) /\ ReadOf(s) /\ ReadsErrors(s)
    BY <1>1, <2>2, ListIsLong, ListIsRead
  <2>4. ReadOf(s)'
    BY <1>1, <1>3, <2>1, <2>3, ListStep
  <2>5. Covers(s)'
    BY <2>1, <2>3 DEF Covers
  <2>6. ListNow' = s /\ Now' = Now /\ (HasActions' <=> HasActions)
    BY <1>1, <2>2 DEF ListNow, Now, HasActions, IsFlow
  <2>7. Covers(ListNow)' /\ ReadOf(ListNow)'
    BY <2>4, <2>5, <2>6
  <2>8. ~HasActions' => Now' \in 1 .. Len(content'.items) /\ RightUpTo(Now - 1)'
    <3> HAVE ~HasActions'
    <3>1. PICK n : n = Now
      OBVIOUS
    <3>2. RightUpTo(n - 1) /\ n \in 1 .. Len(content.items)
      BY <1>1, <2>6, <3>1
    <3>3. RightUpTo(n - 1)'
      BY <1>1, <3>2, SameRight
    <3> QED BY <1>1, <2>6, <3>1, <3>2, <3>3
  <2> QED BY <1>3, <2>1, <2>7, <2>8 DEF Tracks, Tracked
<1> QED BY <1>2, <1>3

\* A flow or queue whose list has come to its end is let through.
LEMMA EndTracks ==
  ASSUME Checking, Tracked, pc \in {"actions", "properties"}, offset >= length
  PROVE  IF HasActions THEN AllRight
         ELSE Now \in 1 .. Len(content.items) /\ RightUpTo(Now)
<1>1. PICK s : s = ListNow
  OBVIOUS
<1>2. /\ ListOfLong(s) /\ Covers(s) /\ ReadOf(s)
      /\ ~HasActions => /\ Now \in 1 .. Len(content.items) /\ RightUpTo(Now - 1)
                        /\ s = content.items[Now].parts
  BY <1>1, ListIsLong DEF Tracked
<1>3. Right(s)
  BY <1>2, ListDone
<1>4. CASE HasActions
  <2>1. content.kind \notin Walked /\ s = content.items
    BY <1>1, <1>4 DEF Checking, HasActions, Walked, ListNow
  <2> QED BY <1>3, <1>4, <2>1 DEF AllRight
<1>5. CASE ~HasActions
  <2>1. PICK n : n = Now
    OBVIOUS
  <2>2. /\ n \in 1 .. Len(content.items) /\ RightUpTo(n - 1)
        /\ Right(content.items[n].parts)
    BY <1>2, <1>3, <1>5, <2>1
  <2>3. \A j \in 1 .. n : j = n \/ j \in 1 .. n - 1
    BY <2>2
  <2>4. RightUpTo(n)
    BY <2>2, <2>3 DEF RightUpTo
  <2> QED BY <1>5, <2>1, <2>2, <2>4
<1> QED BY <1>4, <1>5

LEMMA ActionsEndTracks ==
  ASSUME Checking, Tracked, ActionsEnd
  PROVE  Tracks
<1>1. pc = "actions" /\ offset >= length /\ HasActions /\ pc' = "done"
  BY DEF ActionsEnd, Return
<1> QED BY <1>1, EndTracks DEF Tracks, Tracked

LEMMA FlowEndTracks ==
  ASSUME Checking, Tracked, FlowEnd
  PROVE  Tracks
<1>1. /\ pc = "actions" /\ offset >= length /\ ~HasActions
      /\ pc' \in {"flow", "stuck", "astray"} /\ result' = "NONE"
      /\ UNCHANGED <<lens, content>>
  BY DEF FlowEnd, Take, Goto, Checking
<1>2. Now = Len(lens)
  BY <1>1, WhileChecking DEF Now, IsFlow
<1>3. PICK n : n = Len(lens)
  OBVIOUS
<1>4. RightUpTo(n)'
  BY <1>1, <1>2, <1>3, EndTracks, SameRight
<1>5. RightUpTo(Len(lens))'
  BY <1>1, <1>3, <1>4
<1> QED BY <1>1, <1>5 DEF Tracks, Tracked

LEMMA PropertiesEndTracks ==
  ASSUME Checking, Tracked, PropertiesEnd
  PROVE  Tracks
<1>1. /\ pc = "properties" /\ offset >= length /\ left' = left - 1
      /\ pc' = "queue" /\ result' = "NONE" /\ UNCHANGED <<lens, content>>
      /\ content.kind = "QUEUE_GET_CONFIG_REPLY" /\ lens \in Seq(Nat)
      /\ left \in 0 .. Len(lens)
  BY WhileChecking DEF PropertiesEnd, Goto, Checking, Recorded, Walked
<1>2. ~HasActions /\ Now = Len(lens) - left + 1
  BY <1>1 DEF Now, IsFlow, HasActions, Checking
<1>3. Len(lens') - left' = Len(lens) - left + 1
  <2>1. Len(lens) \in Nat /\ left \in Nat
    BY <1>1
  <2> QED BY <1>1, <2>1
<1>4. PICK n : n = Len(lens) - left + 1
  OBVIOUS
<1>5. RightUpTo(n)'
  BY <1>1, <1>2, <1>4, EndTracks, SameRight
<1>6. RightUpTo(Len(lens) - left)'
  BY <1>3, <1>4, <1>5
<1> QED BY <1>1, <1>6 DEF Tracks, Tracked

LEMMA FlowTracks ==
  ASSUME Checking, Tracked, Filled(content), Flow
  PROVE  Tracks
<1>1. /\ pc = "flow" /\ content.kind = "FLOW_REPLY" /\ UNCHANGED <<by, content>>
      /\ ~HasActions /\ RightUpTo(Len(lens)) /\ content \in Contents
      /\ lens \in Seq(Nat)
  BY WhileChecking DEF Flow, Checking, HasActions, Tracked
<1>2. pc' = "actions" => result' = "NONE"
  BY DEF Flow, Goto, Return
<1>3. CASE pc' = "done"
  <2>1. result' = "SUCCESS" => AllRight
    <3> HAVE result' = "SUCCESS"
    <3>1. Len(lens) = Len(content.items)
      BY <1>3, FlowRecords
    <3> QED BY <1>1, <3>1 DEF AllRight, Walked
  <2> QED BY <1>3, <2>1 DEF Tracks, Tracked
<1>4. CASE pc' = "actions"
  <2>1. PICK n : n = Len(lens')
    OBVIOUS
  <2>2. /\ n = Len(lens) + 1 /\ n \in DOMAIN content.items /\ offset' = 0
        /\ length' = Uint16(content.items[n].len - 88)
    BY <1>4, <2>1, FlowRecords
  <2>3. PICK s : s = content.items[n].parts
    OBVIOUS
  <2>4. HeaderOf = 88
    BY <1>1, ListedAre DEF IsFlow
  <2>5. /\ ListOfLong(s) /\ length' \in Nat /\ length' <= Max16
        /\ s = <<>> => length' = 0
        /\ s # <<>> => Before(LengthsOf(s), Len(s) - 1) < length'
    BY <1>1, <2>2, <2>3, <2>4, FilledCovers DEF Walked
  <2>6. Covers(s)'
    BY <2>5 DEF Covers
  <2>7. ReadOf(s)'
    BY <2>2, <2>5, ListBegins
  <2>8. ListNow' = s /\ Now' = n /\ ~HasActions'
    BY <1>1, <2>1, <2>3 DEF ListNow, Now, HasActions, IsFlow
  <2>9. Covers(ListNow)' /\ ReadOf(ListNow)'
    BY <2>6, <2>7, <2>8
  <2>10. Now' \in 1 .. Len(content'.items)
    BY <1>1, <2>2, <2>8, LongList, WhileChecking
  <2>11. RightUpTo(Now - 1)'
    <3>1. PICK m : m = Len(lens)
      OBVIOUS
    <3>2. m \in Nat /\ n = m + 1
      BY <1>1, <2>2, <3>1
    <3>3. Now' - 1 = m
      BY <2>8, <3>2
    <3>4. RightUpTo(m)'
      BY <1>1, <3>1, SameRight
    <3> QED BY <3>3, <3>4
  <2> QED BY <1>2, <1>4, <2>9, <2>10, <2>11 DEF Tracks, Tracked
<1> QED BY <1>3, <1>4, FlowRecords

LEMMA QueueTracks ==
  ASSUME Checking, Tracked, Filled(content), Queue
  PROVE  Tracks
<1>1. /\ pc = "queue" /\ content.kind = "QUEUE_GET_CONFIG_REPLY"
      /\ UNCHANGED <<by, content, lens, left>> /\ ~HasActions
      /\ RightUpTo(Len(lens) - left) /\ content \in Contents /\ lens \in Seq(Nat)
      /\ Matches /\ Sum(lens) = Sum(LengthsOf(content.items))
      /\ left \in 0 .. Len(lens) /\ ListOfLong(content.items)
  BY WhileChecking DEF Queue, Checking, HasActions, Tracked, Recorded, Walked
<1>2. Len(lens) = Len(content.items) /\ Len(lens) \in Nat
  BY <1>1, LengthsSeen
<1>3. CASE pc' = "done"
  <2>1. result' = "SUCCESS" => AllRight
    <3> HAVE result' = "SUCCESS"
    <3>1. left = 0
      BY <1>3 DEF Queue, Return, Goto
    <3>2. Len(lens) - left = Len(content.items)
      BY <1>2, <3>1
    <3> QED BY <1>1, <3>2 DEF AllRight, Walked
  <2> QED BY <1>3, <2>1 DEF Tracks, Tracked
<1>4. CASE pc' # "done"
  <2>1. PICK n : n = Len(lens) - left + 1
    OBVIOUS
  <2>2. /\ pc' = "properties" /\ result' = "NONE" /\ left > 0 /\ offset' = 0
        /\ length' = lens[n] - 8
    BY <1>4, <2>1 DEF Queue, Return, Goto, BeginList
  <2>3. n \in 1 .. Len(lens) /\ n - 1 = Len(lens) - left
    BY <1>1, <1>2, <2>1, <2>2
  <2>4. n \in DOMAIN content.items /\ lens[n] = content.items[n].len
        /\ n \in 1 .. Len(content.items)
    BY <1>1, <1>2, <2>3, LongList DEF Matches
  <2>5. PICK s : s = content.items[n].parts
    OBVIOUS
  <2>6. HeaderOf = 8
    BY <1>1, ListedAre DEF IsFlow
  <2>7. /\ ListOfLong(s) /\ length' \in Nat /\ length' <= Max16
        /\ s = <<>> => length' = 0
        /\ s # <<>> => Before(LengthsOf(s), Len(s) - 1) < length'
    BY <1>1, <2>2, <2>4, <2>5, <2>6, FilledCovers DEF Walked
  <2>8. Covers(s)'
    BY <2>7 DEF Covers
  <2>9. ReadOf(s)'
    BY <2>2, <2>7, ListBegins
  <2>10. ListNow' = s /\ Now' = n /\ ~HasActions'
    BY <1>1, <2>1, <2>5 DEF ListNow, Now, HasActions, IsFlow
  <2>11. Covers(ListNow)' /\ ReadOf(ListNow)'
    BY <2>8, <2>9, <2>10
  <2>12. RightUpTo(Now - 1)'
    <3>1. PICK m : m = Len(lens) - left
      OBVIOUS
    <3>2. RightUpTo(m)' /\ Now' - 1 = m
      BY <1>1, <2>3, <2>10, <3>1, SameRight
    <3> QED BY <3>2
  <2> QED BY <1>1, <2>2, <2>4, <2>10, <2>11, <2>12 DEF Tracks, Tracked
<1> QED BY <1>3, <1>4

LEMMA CountEndTracks ==
  ASSUME Checking, CountEnd
  PROVE  Tracks
<1>1. /\ pc' \in {"done", "queue"} /\ result' # "SUCCESS" /\ UNCHANGED lens
      /\ pc' = "queue" => left' = Len(lens)
      /\ lens \in Seq(Nat)
  BY WhileChecking DEF CountEnd, Return, Goto
<1>2. pc' = "queue" => RightUpTo(Len(lens) - left)'
  <2> HAVE pc' = "queue"
  <2>1. Len(lens') - left' = 0
    <3>1. Len(lens) \in Nat
      BY <1>1
    <3> QED BY <1>1, <3>1
  <2> QED BY <2>1 DEF RightUpTo
<1> QED BY <1>1, <1>2 DEF Tracks, Tracked

\* An item always has an error, if only that it has none.
LEMMA ItemsHaveErrors ==
  /\ \A i \in ActionItems : i.error # "NONE"
  /\ \A i \in PropertyItems : i.error # "NONE"
<1>1. "NONE" \notin {"SUCCESS"} \cup ErrorsOfActions
  BY DEF ErrorsOfActions, ActionErrors, TooShortAction, TooLongAction, Range
<1>2. \A t, n : PropertyError(t, n) # "NONE"
  BY DEF PropertyError
<1> QED BY <1>1, <1>2, ErrorsOfAction DEF ActionItems, PropertyItems

LEMMA TrackedNext ==
  ASSUME Checking, Tracked, Filled(content), Next
  PROVE  Tracks
<1>1. CASE CountQueue
  <2>1. pc' \in {"count", "stuck", "astray"} /\ result' = "NONE"
    BY <1>1 DEF CountQueue, Take, Goto
  <2> QED BY <2>1 DEF Tracks, Tracked
<1>2. CASE Action
  <2>1. Item(ActionItems) /\ pc \in {"actions", "properties"}
    BY <1>2 DEF Action
  <2> QED BY <2>1, ItemsHaveErrors, ItemTracks
<1>3. CASE Property
  <2>1. Item(PropertyItems) /\ pc \in {"actions", "properties"}
    BY <1>3 DEF Property
  <2> QED BY <2>1, ItemsHaveErrors, ItemTracks
<1> QED BY <1>1, <1>2, <1>3, FixedPartTracks, ElementTracks, ActionsEndTracks,
           FlowTracks, FlowEndTracks, CountEndTracks, QueueTracks, PropertiesEndTracks
        DEF Next

-----------------------------------------------------------------------------
(***************************************************************************)
(* What is well formed is let through, and nothing else.                   *)
(***************************************************************************)
LEMMA SizesAgree ==
  /\ DOMAIN ActionStruct = ActionTypes /\ DOMAIN PropertyStruct = DOMAIN PropertySize
  /\ \A t \in ActionTypes : SizeOf(ActionStruct[t]) = ActionSize[t]
                            /\ ActionSize[t] \in Nat
  /\ \A t \in DOMAIN PropertySize : SizeOf(PropertyStruct[t]) = PropertySize[t]
                                    /\ PropertySize[t] \in {8, 16}
  /\ ActionSize["VENDOR"] = 8
<1>1. /\ DOMAIN ActionStruct = ActionTypes /\ DOMAIN PropertyStruct = DOMAIN PropertySize
      /\ ActionSize["VENDOR"] = 8
  BY DEF ActionTypes, ActionSize, ActionStruct, PropertyStruct, PropertySize
<1>2. \A s \in {ofp_action_output, ofp_action_vlan_vid, ofp_action_vlan_pcp,
                ofp_action_nw_addr, ofp_action_tp_port, ofp_action_nw_tos,
                ofp_action_vendor_header, ofp_action_header,
                ofp_queue_prop_header} : SizeOf(s) = 8
  BY OfpAssertions
<1>3. \A s \in {ofp_action_dl_addr, ofp_action_enqueue, ofp_queue_prop_min_rate} :
        SizeOf(s) = 16
  BY OfpAssertions
<1>4. \A t \in ActionTypes : SizeOf(ActionStruct[t]) = ActionSize[t]
                             /\ ActionSize[t] \in Nat
  BY <1>2, <1>3 DEF ActionTypes, ActionSize, ActionStruct
<1>5. \A t \in DOMAIN PropertySize : SizeOf(PropertyStruct[t]) = PropertySize[t]
                                     /\ PropertySize[t] \in {8, 16}
  BY <1>2, <1>3 DEF PropertySize, PropertyStruct
<1> QED BY <1>1, <1>4, <1>5

LEMMA RightAction ==
  ASSUME NEW a, Long(a)
  PROVE  ActionError(a.type, a.len, FALSE) = "SUCCESS" <=> WellFormedAction(a)
<1> DEFINE t == a.type
           n == a.len
<1>1. n \in Nat /\ ~(n < 8)
  BY DEF Long
<1>2. t \in ActionTypes => TooShortAction[t] # "SUCCESS"
  BY DEF ActionTypes, ActionSize, TooShortAction
<1>3. t \in ActionTypes /\ t # "VENDOR" => TooLongAction[t] # "SUCCESS"
  BY DEF ActionTypes, ActionSize, TooLongAction
<1>4. t \in ActionTypes => ActionSize[t] \in Nat /\ SizeOf(ActionStruct[t]) = ActionSize[t]
  BY SizesAgree
<1>5. Known(a) <=> t \in ActionTypes
  BY SizesAgree DEF Known
<1>6. WellFormedAction(a) <=> /\ t \in ActionTypes
                              /\ n = ActionSize[t] \/ t = "VENDOR"
  BY <1>4, <1>5 DEF WellFormedAction
<1> HIDE DEF t, n
<1>7. ActionError(t, n, FALSE) = "SUCCESS" <=>
        /\ t \in ActionTypes
        /\ ~(n < ActionSize[t])
        /\ n > ActionSize[t] => t = "VENDOR"
  BY <1>1, <1>2, <1>3 DEF ActionError
<1>8. t \in ActionTypes => (~(n < ActionSize[t]) <=> n = ActionSize[t] \/ n > ActionSize[t])
  BY <1>1, <1>4
<1>9. t = "VENDOR" => ~(n < ActionSize[t])
  BY <1>1, SizesAgree
<1>10. n = ActionSize[t] /\ t \in ActionTypes => ~(n > ActionSize[t])
  BY <1>1, <1>4
<1> QED BY <1>6, <1>7, <1>8, <1>9, <1>10 DEF t, n

LEMMA RightProperty ==
  ASSUME NEW p, Long(p), p.type \in DOMAIN PropertyStruct
  PROVE  PropertyError(p.type, p.len) = "SUCCESS" <=> WellFormedProperty(p)
<1> DEFINE t == p.type
           n == p.len
<1>1. /\ n \in Nat /\ ~(n < 8) /\ t \in DOMAIN PropertySize /\ PropertySize[t] \in Nat
      /\ SizeOf(PropertyStruct[t]) = PropertySize[t]
  BY SizesAgree DEF Long
<1>2. WellFormedProperty(p) <=> n = PropertySize[t]
  BY <1>1 DEF WellFormedProperty
<1> HIDE DEF t, n
<1>3. PropertyError(t, n) = "SUCCESS" <=> ~(n < PropertySize[t]) /\ ~(n > PropertySize[t])
  BY <1>1 DEF PropertyError
<1> QED BY <1>1, <1>2, <1>3 DEF t, n

\* An item that is well formed is as long as its parts, which are let through.
LEMMA WellFormedIsRight ==
  ASSUME content \in Contents, content.kind \in Walked, WellFormed(content),
         NEW k \in DOMAIN content.items
  PROVE  LET i == content.items[k]
         IN /\ ListOfLong(i.parts) /\ HeaderOf \in Nat
            /\ i.len = HeaderOf + Sum(LengthsOf(i.parts)) /\ i.len \in Nat
            /\ i.len <= Max16
            /\ Sum(LengthsOf(i.parts)) \in Nat
            /\ Right(i.parts)
<1> DEFINE i == content.items[k]
           s == i.parts
<1>1. ListsWell(content) /\ MadeFrom(content) /\ Measured(i)
  BY ContentsAreWell, ListedAre DEF ListsWell
<1>2. /\ ListOfLong(s) /\ HeaderOf \in Nat /\ i.len = HeaderOf + SumOfLengths(s)
      /\ \A q \in DOMAIN s : IF IsFlow THEN WellFormedAction(s[q])
                             ELSE WellFormedProperty(s[q])
  BY <1>1, FilledExactly DEF Walked
<1>3. /\ DOMAIN s = 1 .. Len(s) /\ SumOfLengths(s) = Sum(LengthsOf(s))
      /\ Sum(LengthsOf(s)) \in Nat
      /\ \A q \in 1 .. Len(s) : Long(s[q])
  BY <1>2, LongList
<1>4. \A q \in 1 .. Len(s) : ErrorOf(s[q]) = "SUCCESS"
  <2> TAKE q \in 1 .. Len(s)
  <2>1. CASE IsFlow
    <3>1. WellFormedAction(s[q]) /\ Long(s[q]) /\ content.kind # "QUEUE_GET_CONFIG_REPLY"
      BY <1>2, <1>3, <2>1 DEF IsFlow
    <3> QED BY <3>1, RightAction DEF ErrorOf
  <2>2. CASE ~IsFlow
    <3>1. WellFormedProperty(s[q]) /\ Long(s[q]) /\ content.kind = "QUEUE_GET_CONFIG_REPLY"
      BY <1>2, <1>3, <2>2 DEF IsFlow, Walked
    <3>2. s[q].type \in DOMAIN PropertyStruct
      BY <1>1, <1>3, <3>1 DEF ListsWell, Walked
    <3> QED BY <3>1, <3>2, RightProperty DEF ErrorOf
  <2> QED BY <2>1, <2>2
<1>5. Right(s)
  BY <1>4 DEF Right, RightTo
<1>6. i.len \in Nat /\ i.len <= Max16
  BY <1>1 DEF Measured, Long
<1> QED BY <1>2, <1>3, <1>5, <1>6

\* The actions of a message that is well formed are let through.
LEMMA WellFormedActions ==
  ASSUME content \in Contents, content.kind \in {"PACKET_OUT", "FLOW_MOD"},
         ListOfLong(content.items)
  PROVE  WellFormed(content) <=> Right(content.items)
<1> DEFINE s == content.items
<1>1. DOMAIN s = 1 .. Len(s) /\ \A q \in 1 .. Len(s) : Long(s[q])
  BY LongList
<1>2. \A q \in 1 .. Len(s) : ErrorOf(s[q]) = "SUCCESS" <=> WellFormedAction(s[q])
  BY <1>1, RightAction DEF ErrorOf
<1>3. WellFormed(content) <=> \A q \in 1 .. Len(s) : WellFormedAction(s[q])
  <2>1. \A a : WellFormedItem(content.kind, a) <=> WellFormedAction(a)
    BY DEF WellFormedItem
  <2>2. ToSet(s) = {s[q] : q \in 1 .. Len(s)}
    BY <1>1 DEF ToSet
  <2> QED BY <2>1, <2>2 DEF WellFormed
<1> QED BY <1>2, <1>3 DEF Right, RightTo

-----------------------------------------------------------------------------
(***************************************************************************)
(* A message that is well formed is walked from item to item.              *)
(***************************************************************************)
\* A step of the validator over what is well formed leads on or ends well.
GoingStraight == Checking /\ Straight /\ WellFormed(content) /\ ~BareQueues
GoesStraight == Straight' \/ (pc' = "done" /\ result' = "SUCCESS")

LEMMA PathBegins ==
  ASSUME NEW s, ListOfLong(s), offset' = 0, seen' = {},
         length' = Sum(LengthsOf(s)), Sum(LengthsOf(s)) <= Max16
  PROVE  OnPath(s)'
<1>1. 0 <= Len(s) /\ Before(LengthsOf(s), 0) = 0
  <2>1. Len(s) \in Nat
    BY LongList
  <2>2. 0 <= Len(s)
    BY <2>1
  <2> QED BY <2>2, ItemBegins
<1> QED BY <1>1 DEF OnPath

\* A queue has a property, which is as long as a header at least.
LEMMA QueueIsLong ==
  ASSUME content \in Contents, content.kind = "QUEUE_GET_CONFIG_REPLY",
         WellFormed(content), ~BareQueues, NEW k \in DOMAIN content.items
  PROVE  content.items[k].len >= 16
<1> DEFINE i == content.items[k]
           s == i.parts
           t == Sum(LengthsOf(s))
<1>1. HeaderOf = 8
  BY ListedAre DEF IsFlow
<1>2. i.len = 8 + t /\ ListOfLong(s)
  BY <1>1, WellFormedIsRight DEF Walked
<1>3. s # <<>>
  <2>1. i \in ToSet(content.items)
    BY DEF ToSet
  <2> QED BY <2>1 DEF BareQueues
<1>4. 0 < Len(s) /\ 0 <= Len(s)
  <2>1. Len(s) \in Nat /\ Len(s) # 0
    BY <1>2, <1>3, LongList
  <2> QED BY <2>1
<1>5. /\ Long(s[0 + 1]) /\ Before(LengthsOf(s), 0) \in Nat
      /\ Before(LengthsOf(s), 0 + 1) = Before(LengthsOf(s), 0) + s[0 + 1].len
      /\ Before(LengthsOf(s), 0 + 1) <= t /\ t \in Nat
  BY <1>2, <1>4, ItemOfList
<1> DEFINE b == Before(LengthsOf(s), 0 + 1)
           c == Before(LengthsOf(s), 0)
           l == s[0 + 1].len
<1>6. l \in Nat /\ 8 <= l /\ c \in Nat /\ b = c + l /\ b <= t /\ t \in Nat
      /\ i.len = 8 + t
  BY <1>2, <1>5 DEF Long
<1> HIDE DEF b, c, l, t
<1> QED BY <1>6

LEMMA QueuesFillBody ==
  ASSUME GoingStraight, content.kind = "QUEUE_GET_CONFIG_REPLY"
  PROVE  NeededLength(content) >= 24
<1> DEFINE s == content.items
           t == Sum(LengthsOf(s))
<1>1. /\ ListOfLong(s) /\ t = msg.header - 16
      /\ msg.header = NeededLength(content) /\ msg.header \in Nat
  BY MessageIs DEF GoingStraight, Checking, Walked, BodyOf
<1>2. s # <<>>
  BY DEF GoingStraight, BareQueues
<1>3. 0 < Len(s)
  <2>1. Len(s) \in Nat /\ Len(s) # 0
    BY <1>1, <1>2, LongList
  <2> QED BY <2>1
<1>4. /\ Long(s[0 + 1]) /\ Before(LengthsOf(s), 0) \in Nat
      /\ Before(LengthsOf(s), 0 + 1) = Before(LengthsOf(s), 0) + s[0 + 1].len
      /\ Before(LengthsOf(s), 0 + 1) <= t /\ t \in Nat
  BY <1>1, <1>3, ItemOfList
<1> DEFINE b == Before(LengthsOf(s), 0 + 1)
           c == Before(LengthsOf(s), 0)
           l == s[0 + 1].len
<1>5. l \in Nat /\ 8 <= l /\ c \in Nat /\ b = c + l /\ b <= t /\ t \in Nat
  BY <1>4 DEF Long
<1> HIDE DEF b, c, l, t
<1>6. t >= 8
  BY <1>5
<1> QED BY <1>1, <1>5, <1>6

LEMMA FixedPartStraight ==
  ASSUME GoingStraight, FixedPart
  PROVE  GoesStraight
<1>1. Checking /\ content \in Contents /\ Fits(content) /\ msg = Given
      /\ by = content.kind /\ UNCHANGED <<content, by>>
  BY DEF GoingStraight, Checking, FixedPart
<1>2. FixedPartError(msg, by) = "SUCCESS"
  BY <1>1, NothingWrong, QueuesFillBody
<1>3. CASE pc' = "actions"
  <2>1. HasActions /\ offset' = 0 /\ seen' = {} /\ length' = ActionsLength
    BY <1>3 DEF FixedPart, Return, Goto, BeginList
  <2>2. PICK s : s = content.items
    OBVIOUS
  <2>3. OnPath(s)'
    BY <1>1, <2>1, <2>2, ActionsOfMessage, PathBegins
  <2>4. ListNow' = s
    BY <1>1, <2>1, <2>2 DEF ListNow, HasActions
  <2>5. OnPath(ListNow)'
    BY <2>3, <2>4
  <2> QED BY <1>3, <2>5 DEF GoesStraight, Straight
<1>4. CASE pc' # "actions"
  <2>1. pc' \in {"array", "flow", "count"} \/ (pc' = "done" /\ result' = "SUCCESS")
    BY <1>2, <1>4 DEF FixedPart, Return, Goto
  <2> QED BY <2>1 DEF GoesStraight, Straight
<1> QED BY <1>3, <1>4

LEMMA ElementStraight ==
  ASSUME GoingStraight, Element
  PROVE  GoesStraight
<1>1. pc = "array" /\ by \in DOMAIN Arrays /\ result' \in {"NONE", "SUCCESS"}
  BY DEF GoingStraight, Checking, ValidInv, ErrorsFit, ReadsContent, Element
<1>2. \A e \in ToSet(Arrays[by].fields) : e \notin {"NONE", "SUCCESS"}
  BY <1>1 DEF Arrays, PhyPort, ToSet
<1>3. pc' = "array" \/ (pc' = "done" /\ result' = "SUCCESS")
  BY <1>1, <1>2 DEF Element, Return, Goto
<1> QED BY <1>3 DEF GoesStraight, Straight

LEMMA ItemStraight ==
  ASSUME GoingStraight, NEW items, Item(items), pc \in {"actions", "properties"},
         \A i \in items : i.error # "NONE"
  PROVE  GoesStraight
<1>1. /\ Checking /\ offset < length /\ UNCHANGED <<left, lens, content, by>>
      /\ content \in Contents /\ seen \subseteq Nat
  BY WhileChecking DEF GoingStraight, Checking, Item
<1>2. PICK s : s = ListNow
  OBVIOUS
<1>3. ListOfLong(s) /\ ReadsErrors(s) /\ OnPath(s)
  BY <1>1, <1>2, ListIsLong, ListIsRead DEF GoingStraight, Straight
<1>4. Right(s)
  <2>1. CASE HasActions
    <3>1. s = content.items /\ content.kind \in {"PACKET_OUT", "FLOW_MOD"}
      BY <1>1, <1>2, <2>1 DEF ListNow, HasActions, Checking
    <3> QED BY <1>1, <1>3, <3>1, WellFormedActions DEF GoingStraight
  <2>2. CASE ~HasActions
    BY <1>1, <1>2, <2>2, ListIsLong, WellFormedIsRight DEF GoingStraight
  <2> QED BY <2>1, <2>2
<1>5. pc' = pc /\ OnPath(s)'
  BY <1>1, <1>3, <1>4, PathStep
<1>6. ListNow' = s
  BY <1>1, <1>2 DEF ListNow, Now, HasActions, IsFlow
<1>7. OnPath(ListNow)'
  BY <1>5, <1>6
<1> QED BY <1>5, <1>7 DEF GoesStraight, Straight

LEMMA FlowStraight ==
  ASSUME GoingStraight, Flow
  PROVE  GoesStraight
<1>1. /\ Checking /\ pc = "flow" /\ content.kind = "FLOW_REPLY"
      /\ UNCHANGED <<by, content>> /\ ~HasActions /\ content \in Contents
  BY WhileChecking DEF GoingStraight, Flow, Checking, HasActions
<1>2. CASE left = 0
  <2>1. pc' = "done" /\ result' = "SUCCESS"
    BY <1>1, <1>2, WhileChecking DEF Flow, Return
  <2> QED BY <2>1 DEF GoesStraight
<1>3. CASE left # 0
  <2>1. PICK n : n = Len(lens')
    OBVIOUS
  <2>2. /\ pc' = "actions" /\ n \in DOMAIN content.items /\ offset' = 0 /\ seen' = {}
        /\ length' = Uint16(content.items[n].len - 88)
    BY <1>1, <1>3, <2>1, FlowRecords
  <2>3. PICK s : s = content.items[n].parts
    OBVIOUS
  <2>4. HeaderOf = 88
    BY <1>1, ListedAre DEF IsFlow
  <2>5. /\ ListOfLong(s) /\ content.items[n].len = 88 + Sum(LengthsOf(s))
        /\ content.items[n].len <= Max16 /\ Sum(LengthsOf(s)) \in Nat
    BY <1>1, <2>2, <2>3, <2>4, WellFormedIsRight DEF GoingStraight, Walked
  <2>6. length' = Sum(LengthsOf(s)) /\ Sum(LengthsOf(s)) <= Max16
    <3> DEFINE t == Sum(LengthsOf(s))
    <3>1. t \in Nat /\ 88 + t <= Max16 /\ length' = Uint16((88 + t) - 88)
      BY <2>2, <2>5
    <3> HIDE DEF t
    <3>2. (88 + t) - 88 = t /\ t <= Max16
      BY <3>1, Max16Is
    <3>3. length' = t
      BY <3>1, <3>2, LeftIs
    <3> QED BY <3>2, <3>3 DEF t
  <2>7. OnPath(s)'
    BY <2>2, <2>5, <2>6, PathBegins
  <2>8. ListNow' = s
    BY <1>1, <2>1, <2>3 DEF ListNow, Now, HasActions, IsFlow
  <2>9. OnPath(ListNow)'
    BY <2>7, <2>8
  <2> QED BY <2>2, <2>9 DEF GoesStraight, Straight
<1> QED BY <1>2, <1>3

LEMMA FlowEndStraight ==
  ASSUME GoingStraight, FlowEnd
  PROVE  GoesStraight
<1>1. /\ Checking /\ pc = "actions" /\ content.kind = "FLOW_REPLY"
      /\ ListOfLong(content.items) /\ lens \in Seq(Nat) /\ Matches /\ lens # <<>>
      /\ left \in Nat
      /\ left + Sum(lens) - Last(lens) = Sum(LengthsOf(content.items))
      /\ Take(Last(lens), "flow")
  BY WhileChecking DEF GoingStraight, FlowEnd, Checking
<1>2. Last(lens) \in Nat /\ 8 <= Last(lens)
  <2>1. Len(lens) \in 1 .. Len(lens) /\ Len(lens) \in 1 .. Len(content.items)
    <3>1. /\ Len(lens) \in Nat /\ Len(lens) # 0 /\ Len(lens) <= Len(content.items)
          /\ Len(content.items) \in Nat
      BY <1>1, LengthsSeen DEF Matches
    <3> QED BY <3>1
  <2>2. Last(lens) = content.items[Len(lens)].len
    BY <1>1, <2>1 DEF Matches, Last
  <2>3. Long(content.items[Len(lens)])
    BY <1>1, <2>1, LongList
  <2> QED BY <2>2, <2>3 DEF Long
<1>3. /\ Sum(lens) \in Nat /\ Sum(lens) <= Sum(LengthsOf(content.items))
      /\ Sum(LengthsOf(content.items)) \in Nat
  BY <1>1, LengthsSeen
<1>4. ~(Last(lens) > left) /\ Last(lens) # 0
  <2> DEFINE a == Sum(lens)
             b == Sum(LengthsOf(content.items))
             l == Last(lens)
  <2>1. a \in Nat /\ b \in Nat /\ a <= b /\ l \in Nat /\ 8 <= l /\ left + a - l = b
        /\ left \in Nat
    BY <1>1, <1>2, <1>3
  <2> HIDE DEF a, b, l
  <2>2. ~(l > left) /\ l # 0
    BY <2>1
  <2> QED BY <2>2 DEF l
<1>5. pc' = "flow"
  BY <1>1, <1>4 DEF Take, Goto
<1> QED BY <1>5 DEF GoesStraight, Straight

LEMMA CountQueueStraight ==
  ASSUME GoingStraight, CountQueue
  PROVE  GoesStraight
<1>1. /\ Checking /\ ListOfLong(content.items) /\ lens \in Seq(Nat)
      /\ left \in Nat /\ Sum(lens) \in Nat
  <2>1. Checking /\ pc = "count"
    BY DEF GoingStraight, CountQueue
  <2> QED BY <2>1, WhileChecking, LengthsSeen
<1>2. PICK len \in Nat : /\ Take(len, "count") /\ len + Sum(lens) <= left + Sum(lens)
                         /\ len = content.items[Len(lens) + 1].len
                         /\ Len(lens) + 1 \in DOMAIN content.items
  BY <1>1, CountQueueRecords
<1>3. Long(content.items[Len(lens) + 1])
  BY <1>1, <1>2, LongList
<1>4. len # 0 /\ ~(len > left)
  BY <1>1, <1>2, <1>3 DEF Long
<1>5. pc' = "count"
  BY <1>2, <1>4 DEF Take, Goto
<1> QED BY <1>5 DEF GoesStraight, Straight

LEMMA CountEndStraight ==
  ASSUME GoingStraight, CountEnd
  PROVE  GoesStraight
<1>1. /\ content.kind = "QUEUE_GET_CONFIG_REPLY" /\ content \in Contents
      /\ ListOfLong(content.items) /\ lens \in Seq(Nat) /\ Matches
      /\ left \in Nat /\ left + Sum(lens) = Sum(LengthsOf(content.items))
      /\ left <= 8
  BY WhileChecking DEF GoingStraight, CountEnd, Checking
<1>2. left = 0
  <2> SUFFICES ASSUME left # 0 PROVE FALSE
    OBVIOUS
  <2> DEFINE a == Sum(lens)
             b == Sum(LengthsOf(content.items))
             l == content.items[Len(lens) + 1].len
  <2>1. a \in Nat /\ b \in Nat /\ (Len(lens) = Len(content.items) => a = b)
    BY <1>1, LengthsSeen
  <2>2. left + a = b
    BY <1>1
  <2>3. a # b
    <3> HIDE DEF a, b
    <3> QED BY <1>1, <2>1, <2>2
  <2>4. Len(lens) + 1 \in DOMAIN content.items /\ l \in Nat /\ a + l <= b
    BY <1>1, <2>1, <2>3, LengthsSeen
  <2>5. l >= 16
    BY <1>1, <2>4, QueueIsLong DEF GoingStraight
  <2> HIDE DEF a, b, l
  <2> QED BY <1>1, <2>1, <2>2, <2>4, <2>5
<1>3. pc' = "queue"
  BY <1>2 DEF CountEnd, Goto
<1> QED BY <1>3 DEF GoesStraight, Straight

LEMMA QueueStraight ==
  ASSUME GoingStraight, Queue
  PROVE  GoesStraight
<1>1. /\ Checking /\ pc = "queue" /\ content.kind = "QUEUE_GET_CONFIG_REPLY"
      /\ content \in Contents /\ ListOfLong(content.items)
      /\ lens \in Seq(Nat) /\ Matches /\ left \in 0 .. Len(lens)
      /\ UNCHANGED <<by, content, lens, left>> /\ ~HasActions
  BY WhileChecking DEF GoingStraight, Queue, Checking, Recorded, Walked, HasActions
<1>2. CASE left = 0
  <2>1. pc' = "done" /\ result' = "SUCCESS"
    BY <1>2 DEF Queue, Return
  <2> QED BY <2>1 DEF GoesStraight
<1>3. CASE left # 0
  <2>1. PICK n : n = Len(lens) - left + 1
    OBVIOUS
  <2>2. n \in 1 .. Len(lens) /\ n \in DOMAIN content.items
    <3>1. Len(lens) \in Nat /\ Len(lens) <= Len(content.items)
          /\ Len(content.items) \in Nat /\ DOMAIN content.items = 1 .. Len(content.items)
      BY <1>1, LongList DEF Matches
    <3>2. n \in 1 .. Len(lens)
      BY <1>1, <1>3, <2>1, <3>1
    <3> QED BY <3>1, <3>2
  <2>3. lens[n] = content.items[n].len /\ lens[n] >= 16 /\ lens[n] \in Nat
    BY <1>1, <2>2, QueueIsLong DEF Matches, GoingStraight
  <2>4. left > 0 /\ ~(lens[n] < 16)
    BY <1>1, <1>3, <2>3
  <2>5. pc' = "properties" /\ offset' = 0 /\ seen' = {} /\ length' = lens[n] - 8
    BY <1>3, <2>1, <2>4 DEF Queue, Goto, BeginList
  <2>6. PICK s : s = content.items[n].parts
    OBVIOUS
  <2>7. HeaderOf = 8
    BY <1>1, ListedAre DEF IsFlow
  <2>8. /\ ListOfLong(s) /\ lens[n] = 8 + Sum(LengthsOf(s))
        /\ lens[n] <= Max16 /\ Sum(LengthsOf(s)) \in Nat
    BY <1>1, <2>2, <2>3, <2>6, <2>7, WellFormedIsRight DEF GoingStraight, Walked
  <2>9. length' = Sum(LengthsOf(s)) /\ Sum(LengthsOf(s)) <= Max16
    BY <2>5, <2>8, Max16Is
  <2>10. OnPath(s)'
    BY <2>5, <2>8, <2>9, PathBegins
  <2>11. ListNow' = s
    BY <1>1, <2>1, <2>6 DEF ListNow, Now, HasActions, IsFlow
  <2>12. OnPath(ListNow)'
    BY <2>10, <2>11
  <2> QED BY <2>5, <2>12 DEF GoesStraight, Straight
<1> QED BY <1>2, <1>3

LEMMA StraightNext ==
  ASSUME GoingStraight, Next
  PROVE  GoesStraight
<1>1. CASE Action
  <2>1. Item(ActionItems) /\ pc \in {"actions", "properties"}
    BY <1>1 DEF Action
  <2> QED BY <2>1, ItemsHaveErrors, ItemStraight
<1>2. CASE Property
  <2>1. Item(PropertyItems) /\ pc \in {"actions", "properties"}
    BY <1>2 DEF Property
  <2> QED BY <2>1, ItemsHaveErrors, ItemStraight
<1>3. CASE ActionsEnd
  BY <1>3 DEF ActionsEnd, Return, GoesStraight
<1>4. CASE PropertiesEnd
  BY <1>4 DEF PropertiesEnd, Goto, GoesStraight, Straight
<1> QED BY <1>1, <1>2, <1>3, <1>4, FixedPartStraight, ElementStraight, FlowStraight,
           FlowEndStraight, CountQueueStraight, CountEndStraight, QueueStraight
        DEF Next

-----------------------------------------------------------------------------
(***************************************************************************)
(* The invariant of what is accepted.                                      *)
(***************************************************************************)
\* While the validator is at it: what it has looked at and let through.
Followed ==
  /\ by = content.kind /\ msg = Given /\ Recorded
  /\ Filled(content) => Tracked
  /\ WellFormed(content) /\ ~BareQueues => Straight

\* A message that fits is followed from its creator through its validator, and is
\* right as a whole once it is accepted.
TrackInv ==
  /\ stage \in {"put", "made"} => plan = PlanOf(content)
  /\ stage = "any" => plan = NoPlan
  /\ stage \notin {"any", "check"} => pc = "idle" \/ (pc = "done" /\ result = "SUCCESS")
  /\ stage = "check" /\ Fits(content) => Followed
  /\ stage \in {"accepted", "get", "got"} /\ Fits(content) /\ Filled(content) => AllRight

LEMMA TrackInvInit == WireInit => TrackInv
<1> SUFFICES ASSUME WireInit PROVE TrackInv
  OBVIOUS
<1>1. /\ stage \in {"any", "call", "received"} /\ plan = NoPlan
      /\ stage # "any" => pc = "idle"
  BY DEF WireInit, CreateIdle, CreateInit, CheckIdle
<1> QED BY <1>1 DEF TrackInv

LEMMA SameAllRight ==
  ASSUME UNCHANGED content
  PROVE  AllRight' <=> AllRight
<1>1. RightUpTo(Len(content.items))' <=> RightUpTo(Len(content.items))
  BY DEF RightUpTo, Right, RightTo, ErrorOf
<1>2. Right(content.items)' <=> Right(content.items)
  BY DEF Right, RightTo, ErrorOf
<1> QED BY <1>1, <1>2 DEF AllRight

LEMMA CreateTracks ==
  ASSUME TrackInv, CreateNext, UNCHANGED vars
  PROVE  TrackInv'
<1>1. /\ UNCHANGED <<pc, result, content>> /\ stage \in {"call", "put"}
      /\ stage' \in {"refused", "put", "died", "astray", "made"}
  BY DEF CreateNext, Create, PutAction, PutItem, PutPart, PutItemEnd, Made, vars
<1>2. stage' \in {"put", "made"} => plan' = PlanOf(content)
  <2>1. CASE Create
    BY <2>1 DEF Create
  <2>2. CASE ~Create
    BY <2>2 DEF CreateNext, PutAction, PutItem, PutPart, PutItemEnd, Made, TrackInv
  <2> QED BY <2>1, <2>2
<1>3. PlanOf(content)' = PlanOf(content)
  BY <1>1
<1> QED BY <1>1, <1>2, <1>3 DEF TrackInv

LEMMA HandTracks ==
  ASSUME TrackInv, WireInv, ReadInv, Hand
  PROVE  TrackInv'
<1>1. /\ stage \in {"made", "received"} /\ stage' = "check" /\ pc' = "fixed"
      /\ by' = content.kind /\ UNCHANGED <<content, lens>> /\ lens = <<>>
      /\ content \in Contents
  BY DEF Hand, WireInv, Making, CheckIdle, ReadInv, walk
<1>2. ASSUME Fits(content) PROVE Followed'
  <2>1. stage = "made" => plan.length = NeededLength(content)
    BY <1>1, <1>2, PlanIsNeeded DEF TrackInv
  <2>2. msg' = Given /\ Given' = Given
    BY <1>1, <2>1 DEF Hand, Given
  <2>3. Recorded'
    BY <1>1 DEF Recorded, Matches
  <2>4. Tracked' /\ Straight'
    BY <1>1 DEF Tracked, Straight
  <2> QED BY <1>1, <2>2, <2>3, <2>4 DEF Followed
<1>3. Fits(content)' <=> Fits(content)
  BY <1>1
<1> QED BY <1>1, <1>2, <1>3 DEF TrackInv

LEMMA OnlySuccessIsDone ==
  ASSUME Next, result' = "SUCCESS"
  PROVE  pc' = "done"
BY DEF Next, FixedPart, Element, Action, ActionsEnd, Flow, FlowEnd, CountQueue,
       CountEnd, Queue, Property, PropertiesEnd, Item, Return, Goto, Take

LEMMA CheckTracks ==
  ASSUME TrackInv, WireInv, ReadInv, Check
  PROVE  TrackInv'
<1>1. /\ Next /\ UNCHANGED <<content, plan>> /\ ValidInv
  BY IdleIsRight DEF Check, WireInv
<1>2. CASE stage = "any"
  <2>1. stage' = "any"
    BY <1>2 DEF Check
  <2> QED BY <1>1, <1>2, <2>1 DEF TrackInv
<1>3. CASE stage = "check"
  <2>1. /\ ReadsContent /\ content \in Contents
        /\ stage' = IF result' = "SUCCESS" THEN "accepted" ELSE "check"
    BY <1>3 DEF Check, ReadInv
  <2>2. /\ Fits(content)' <=> Fits(content)
        /\ Filled(content)' <=> Filled(content)
        /\ WellFormed(content)' <=> WellFormed(content)
        /\ BareQueues' <=> BareQueues
        /\ Given' = Given
    BY <1>1 DEF BareQueues, Given
  <2>3. ASSUME Fits(content) PROVE Checking /\ Followed
    BY <1>1, <1>3, <2>1, <2>3 DEF TrackInv, Checking, Followed
  <2>4. CASE result' = "SUCCESS"
    <3>1. pc' = "done"
      BY <1>1, <2>4, OnlySuccessIsDone
    <3>2. Fits(content) /\ Filled(content) => AllRight
      BY <1>1, <2>3, <2>4, TrackedNext DEF Followed, Tracks
    <3> QED BY <1>1, <2>1, <2>2, <2>4, <3>1, <3>2, SameAllRight DEF TrackInv
  <2>5. CASE result' # "SUCCESS"
    <3>1. ASSUME Fits(content) PROVE Followed'
      <4>1. by' = content'.kind /\ msg' = Given' /\ Recorded'
        BY <1>1, <2>2, <2>3, <3>1, RecordedNext DEF Followed
      <4>2. Filled(content) => Tracked'
        BY <1>1, <2>3, <3>1, TrackedNext DEF Followed, Tracks
      <4>3. WellFormed(content) /\ ~BareQueues => Straight'
        BY <1>1, <2>3, <2>5, <3>1, StraightNext DEF Followed, GoingStraight, GoesStraight
      <4> QED BY <2>2, <4>1, <4>2, <4>3 DEF Followed
    <3>2. stage' = "check"
      BY <2>1, <2>5
    <3> QED BY <2>2, <3>1, <3>2 DEF TrackInv
  <2> QED BY <2>4, <2>5
<1> QED BY <1>2, <1>3 DEF Check

LEMMA GetTracks ==
  ASSUME TrackInv, GetNext, UNCHANGED vars
  PROVE  TrackInv'
<1>1. /\ UNCHANGED <<pc, result, content>> /\ stage \in {"accepted", "get"}
      /\ stage' \in {"get", "got", "astray"}
  BY DEF GetNext, GetStructure, GetAction, GetItem, GetPart, GetItemEnd, Got, vars
<1>2. /\ Fits(content)' <=> Fits(content)
      /\ Filled(content)' <=> Filled(content)
      /\ AllRight' <=> AllRight
  BY <1>1, SameAllRight
<1> QED BY <1>1, <1>2 DEF TrackInv

LEMMA TrackInvNext ==
  ASSUME TrackInv, WireInv, ReadInv, [WireNext]_wire_vars
  PROVE  TrackInv'
<1>1. CASE UNCHANGED wire_vars
  <2>1. /\ UNCHANGED <<msg, by, pc, left, offset, length, seen, lens, result>>
        /\ UNCHANGED <<content, stage, plan>>
    BY <1>1 DEF wire_vars, create_vars, vars, walk, list
  <2>2. AllRight' <=> AllRight
    BY <2>1, SameAllRight
  <2>3. Followed => Followed'
    <3>1. Recorded' <=> Recorded
      BY <2>1, SameMatches DEF Recorded
    <3>2. Straight' <=> Straight
      BY <2>1 DEF Straight, OnPath, ListNow, Now, HasActions, IsFlow
    <3>3. Tracked' <=> Tracked
      BY <2>1 DEF Tracked, Covers, ReadOf, Right, RightTo, RightUpTo, ErrorOf,
                  ListNow, Now, HasActions, IsFlow
    <3>4. Given' = Given /\ (BareQueues' <=> BareQueues)
      BY <2>1 DEF Given, BareQueues
    <3> QED BY <2>1, <3>1, <3>2, <3>3, <3>4 DEF Followed
  <2> QED BY <2>1, <2>2, <2>3 DEF TrackInv
<1> QED BY <1>1, CreateTracks, HandTracks, CheckTracks, GetTracks DEF WireNext

-----------------------------------------------------------------------------
(***************************************************************************)
(* What is created is accepted, and what is accepted is well formed.       *)
(***************************************************************************)
LEMMA WhatIsFollowed ==
  ASSUME TrackInv
  PROVE  CreatedIsAccepted
<1> SUFFICES ASSUME plan # NoPlan, Refused, ~BareQueues, Fits(content),
                    WellFormed(content)
             PROVE  FALSE
  BY DEF CreatedIsAccepted
<1>1. stage = "check"
  BY DEF TrackInv, Refused
<1>2. Straight
  BY <1>1 DEF TrackInv, Followed
<1> QED BY <1>2 DEF Straight, Refused

\* A flow or queue that its validator has let through, and that was converted
\* to the end.
LEMMA ItemIsReadRight ==
  ASSUME content \in Contents, content.kind \in Walked, Filled(content),
         NEW k \in DOMAIN content.items,
         Ended(content.items[k]), Right(content.items[k].parts)
  PROVE  \/ WellFormedItem(content.kind, content.items[k])
         \/ CutShort(content.items[k])
<1> DEFINE i == content.items[k]
           s == i.parts
           h == HeaderOf
           l == i.len
           t == Sum(LengthsOf(s))
<1>1. h \in Nat /\ Measured(i) /\ h = SizeOf(WalkedStruct(content.kind))
  BY ListedAre DEF WalkedStruct, HeaderOf, IsFlow
<1>2. /\ ListOfLong(s) /\ l - h \in Nat /\ l \in Nat /\ l - h <= t
      /\ s = <<>> => l - h = 0
      /\ s # <<>> => Before(LengthsOf(s), Len(s) - 1) < l - h
  BY <1>1, FilledCovers DEF Measured, Long
<1>3. /\ Len(s) \in Nat /\ t \in Nat /\ SumOfLengths(s) = t /\ DOMAIN s = 1 .. Len(s)
      /\ \A q \in 1 .. Len(s) : Long(s[q])
      /\ s = <<>> <=> Len(s) = 0
  BY <1>2, LongList
<1>4. l = h + t => WellFormedItem(content.kind, i)
  <2> HAVE l = h + t
  <2>1. ToSet(s) = {s[q] : q \in 1 .. Len(s)}
    BY <1>3 DEF ToSet
  <2>2. \A q \in 1 .. Len(s) : ErrorOf(s[q]) = "SUCCESS" /\ Long(s[q])
    BY <1>3 DEF Right, RightTo
  <2>3. CASE content.kind = "FLOW_REPLY"
    <3>1. \A q \in 1 .. Len(s) : WellFormedAction(s[q])
      BY <2>2, <2>3, RightAction DEF ErrorOf
    <3> QED BY <1>1, <1>3, <2>1, <2>3, <3>1 DEF WellFormedItem, WalkedStruct
  <2>4. CASE content.kind = "QUEUE_GET_CONFIG_REPLY"
    <3>1. \A q \in 1 .. Len(s) : s[q].type \in DOMAIN PropertyStruct
      BY <1>3, <2>4, ContentsAreWell DEF ListsWell
    <3>2. \A q \in 1 .. Len(s) : WellFormedProperty(s[q])
      BY <2>2, <2>4, <3>1, RightProperty DEF ErrorOf
    <3> QED BY <1>1, <1>3, <2>1, <2>4, <3>2 DEF WellFormedItem, WalkedStruct
  <2> QED BY <2>3, <2>4 DEF Walked
<1>5. PICK e \in 0 .. Len(s) : /\ h + Before(LengthsOf(s), e) <= l
                               /\ l < h + Before(LengthsOf(s), e) + 8
  BY DEF Ended
<1>6. e \in Nat /\ e <= Len(s) /\ Before(LengthsOf(s), e) \in Nat
  BY <1>2, <1>3, <1>5, ItemBegins
<1> DEFINE b == Before(LengthsOf(s), e)
<1>7. CASE e = Len(s)
  <2>1. b = t
    BY <1>2, <1>6, <1>7, ItemBegins
  <2>2. h \in Nat /\ t \in Nat /\ l \in Nat /\ h + t <= l /\ l - h <= t
    BY <1>1, <1>2, <1>3, <1>5, <2>1
  <2> HIDE DEF h, t, l
  <2>3. l = h + t
    BY <2>2
  <2> QED BY <1>4, <2>3
<1>8. CASE e # Len(s)
  <2>1. s # <<>> /\ Len(s) - 1 \in Nat /\ Len(s) - 1 <= Len(s) /\ e <= Len(s) - 1
    BY <1>3, <1>6, <1>8
  <2> DEFINE c == Before(LengthsOf(s), Len(s) - 1)
  <2>2. c \in Nat /\ SumOfLengths(Front(s)) = c /\ b <= c
    <3>1. c \in Nat /\ SumOfLengths(Front(s)) = c
      BY <1>2, <2>1, ItemBegins DEF Front
    <3>2. LengthsOf(s) \in Seq(Nat) /\ Len(LengthsOf(s)) = Len(s)
      BY <1>2, LongList
    <3>3. b <= c
      BY <1>6, <2>1, <3>2, BeforeGrows
    <3> QED BY <3>1, <3>3
  <2>3. l < h + c + 8
    <3>1. h \in Nat /\ l \in Nat /\ b \in Nat /\ c \in Nat /\ b <= c /\ l < h + b + 8
      BY <1>1, <1>2, <1>5, <1>6, <2>2
    <3> HIDE DEF h, l, b, c
    <3> QED BY <3>1
  <2> QED BY <2>1, <2>2, <2>3 DEF CutShort
<1> QED BY <1>7, <1>8

LEMMA WhatIsRead ==
  ASSUME ReadInv, EndInv, TrackInv
  PROVE  AcceptedIsReadRight
<1> SUFFICES ASSUME result = "SUCCESS" PROVE AcceptedIsReadRight
  BY DEF AcceptedIsReadRight
<1>1. ASSUME stage = "got", Fits(content), Filled(content),
             NEW i \in ToSet(content.items)
      PROVE  WellFormedItem(content.kind, i) \/ CutShort(i)
  <2>1. AllRight /\ content \in Contents
    BY <1>1 DEF TrackInv, ReadInv
  <2>2. Itemized(content)
    BY <2>1, ContentsAreItemized
  <2>3. ListOfLong(content.items) /\ DOMAIN content.items = 1 .. Len(content.items)
    BY <2>2, LongList DEF Itemized
  <2>4. PICK k \in DOMAIN content.items : i = content.items[k]
    BY <1>1 DEF ToSet
  <2>5. CASE content.kind \in Walked
    <3>1. EndedUpTo(Len(content.items)) /\ RightUpTo(Len(content.items))
      BY <1>1, <2>1, <2>5 DEF EndInv, AllRight
    <3>2. Ended(content.items[k]) /\ Right(content.items[k].parts)
      BY <2>3, <2>4, <3>1 DEF EndedUpTo, RightUpTo
    <3> QED BY <1>1, <2>1, <2>4, <2>5, <3>2, ItemIsReadRight
  <2>6. CASE content.kind \in {"PACKET_OUT", "FLOW_MOD"}
    <3>1. Right(content.items)
      BY <2>1, <2>6 DEF AllRight, Walked
    <3> QED BY <1>1, <2>1, <2>3, <2>6, <3>1, WellFormedActions DEF WellFormed
  <2>7. CASE content.kind \notin WithItems
    <3>1. content.items = <<>>
      BY <2>2, <2>7 DEF Itemized
    <3> QED BY <2>4, <3>1
  <2> QED BY <2>5, <2>6, <2>7 DEF WithItems, Walked
<1>2. ASSUME stage = "astray" PROVE Position(HeaderOf) > item.len
  <2>1. Behind /\ content \in Contents
    BY <1>2 DEF EndInv, ReadInv
  <2>2. HeaderOf \in Nat
    BY <2>1, ListedAre
  <2>3. Position(HeaderOf) = HeaderOf + Before(LengthsOf(item.parts), part - 1)
    BY <2>1, <2>2, PositionIs DEF Behind
  <2> QED BY <2>1, <2>3 DEF Behind
<1> QED BY <1>1, <1>2 DEF AcceptedIsReadRight

-----------------------------------------------------------------------------
(***************************************************************************)
(* The theorems.                                                           *)
(***************************************************************************)
\* A message made by a creator, of the length its creator computed on 16 bits,
\* or received, is handed to a reader only when it is whole.
THEOREM WireAcceptsWhole == WireSpec => []AcceptedIsWhole
BY WireInvariance, WhatTheWireAccepts, PTL

\* Whoever made a reply and whatever lengths its elements claim, those that a
\* validator accepts add up to the body on 16 bits, and to more than the body only
\* when the validator has read behind the message.
THEOREM WireAddsUp == WireSpec => []AcceptedAddsUp
BY WireInvariance, WhatTheWireAccepts, PTL

\* A creator's message keeps a validator for ever only through an element of no
\* length or an offset that wraps, which its 16-bit sums do not rule out.
THEOREM WireStuckByLengths == WireSpec => []StuckOnlyByItsLengths
BY WireInvariance, WhatTheWireAccepts, PTL

\* Nothing a creator makes, whatever it was given, is found wrong in a way that
\* the table of errors has no answer for.
THEOREM WireErrorsAnswered == WireSpec => []ErrorHasOneAnswer
BY WireInvariance, WhatTheWireAccepts, PTL

\* A creator never writes behind the message it makes, whatever the number and
\* the lengths of what it is given, as long as that fits into a message and no
\* item claims a length that is not its own: the loops over actions, flows,
\* properties and queues stop where the length on 16 bits says.
THEOREM CreatorsStayInside == WireSpec => []WritesStayInside
<1>1. WireInit => WritesInv
  BY WritesInvInit
<1>2. WritesInv /\ [WireNext]_wire_vars => WritesInv'
  BY WritesInvNext
<1>3. WritesInv => WritesStayInside
  BY DEF WritesInv
<1> QED BY <1>1, <1>2, <1>3, PTL DEF WireSpec

\* Every conversion that a creator or a reader makes treats each field of the
\* structure as its type asks: integers of more than a byte are swapped whole,
\* the others copied, pads cleared; a structure, action or property that the
\* conversion has no fields for is never met.
THEOREM ConversionsWhole == WireSpec => []ConvertedWhole
<1>1. WireInit => ReadInv /\ WireInv /\ ConvertedWhole
  BY ReadInvInit, WireInvInit, ConvertedInit
<1>2. ReadInv /\ WireInv /\ ConvertedWhole /\ [WireNext]_wire_vars
        => (ReadInv /\ WireInv /\ ConvertedWhole)'
  BY ReadInvNext, WireInvNext, ConvertedNext
<1> QED BY <1>1, <1>2, PTL DEF WireSpec

\* What a creator makes of a content that is well formed and fits into a message is
\* accepted by the validator of its kind: it finds the fixed part as it should be,
\* walks each list from item to item and ends behind the last one. Only a reply
\* of no queues, and a queue of no properties, is refused.
THEOREM WhatIsCreatedIsAccepted == WireSpec => []CreatedIsAccepted
<1>1. WireInit => WireInv /\ ReadInv /\ TrackInv
  BY WireInvInit, ReadInvInit, TrackInvInit
<1>2. WireInv /\ ReadInv /\ TrackInv /\ [WireNext]_wire_vars
        => (WireInv /\ ReadInv /\ TrackInv)'
  BY WireInvNext, ReadInvNext, TrackInvNext
<1>3. WireInv /\ ReadInv /\ TrackInv => CreatedIsAccepted
  BY WhatIsFollowed
<1> QED BY <1>1, <1>2, <1>3, PTL DEF WireSpec

\* Of a message that fits, whose lists reach as far as its lengths say, a reader that
\* comes to the end has handed on well-formed items only, apart from a flow or
\* queue whose last part claims more than is left, where less than a header is;
\* and a reader leaves a flow or queue behind the end that this one claims.
THEOREM WhatIsAcceptedIsReadRight == WireSpec => []AcceptedIsReadRight
<1>1. WireInit => WireInv /\ ReadInv /\ EndInv /\ TrackInv
  BY WireInvInit, ReadInvInit, EndInvInit, TrackInvInit
<1>2. WireInv /\ ReadInv /\ EndInv /\ TrackInv /\ [WireNext]_wire_vars
        => (WireInv /\ ReadInv /\ EndInv /\ TrackInv)'
  BY WireInvNext, ReadInvNext, EndInvNext, TrackInvNext
<1>3. WireInv /\ ReadInv /\ EndInv /\ TrackInv => AcceptedIsReadRight
  BY WhatIsRead
<1> QED BY <1>1, <1>2, <1>3, PTL DEF WireSpec
=============================================================================
