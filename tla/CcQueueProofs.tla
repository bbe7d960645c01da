--------------------------- MODULE CcQueueProofs ----------------------------
(***************************************************************************)
(* Proofs about CcQueue, for any set of queues, cells and buffers: for the *)
(* two queues of a connection, which share one heap with each other and    *)
(* with the other code of the process.                                     *)
(***************************************************************************)
EXTENDS CcQueue, SequenceTheorems, TLAPS

\* The list that starts at the head h: its cells ch are different, belong to
\* the queue, and each points to the next.
ListOk(h, ch, nx, own) ==
  /\ h \in own
  /\ \A i \in DOMAIN ch :
       /\ ch[i] \in own
       /\ ch[i] # h
       /\ nx[ch[i]] = IF i = Len(ch) THEN NULL ELSE ch[i + 1]
       /\ \A k \in DOMAIN ch : ch[i] = ch[k] => i = k
  /\ nx[h] = IF Len(ch) = 0 THEN NULL ELSE ch[1]

Own == allocated \ foreign
Live == Queues \ held

\* A queue's list, the buffers in it, and its tail, which points to a head only
\* before the first enqueue.
QueueOk(q) ==
  /\ ListOk(head[q], chain[q], next, Own)
  /\ \A i \in DOMAIN chain[q] : data[chain[q][i]] \in Msgs
  /\ \A p \in Live : tail[q] = head[p] => p = q /\ Len(chain[q]) = 0

Apart == \A p, q \in Live : p # q => CellsOf(p) \cap CellsOf(q) = {}

\* The sequences d of delivered buffers, by the turns they were enqueued in:
\* each in order, no two with a buffer in common.
InTurn(d, tn, n) ==
  /\ \A q \in Queues : \A i \in DOMAIN d[q] :
       /\ d[q][i] \in Msgs
       /\ 1 <= tn[d[q][i]] /\ tn[d[q][i]] <= n
       /\ \A j \in DOMAIN d[q] : i < j => tn[d[q][i]] < tn[d[q][j]]
  /\ \A p, q \in Queues : p # q =>
       \A i \in DOMAIN d[p], j \in DOMAIN d[q] : d[p][i] # d[q][j]

\* What d2 has in common with d, and beyond it m at the end of the sequence of x.
ComesLast(d, d2, m, x) ==
  \A q \in Queues : \A i \in DOMAIN d2[q] :
    \/ i \in DOMAIN d[q] /\ d2[q][i] = d[q][i]
    \/ q = x /\ d2[q][i] = m /\ \A j \in DOMAIN d2[q] : ~(i < j)

Deliveries == [q \in Queues |-> Delivered(q)]

\* A queue whose list no other has written to.  Either its tail is where it
\* belongs, and everything enqueued was dequeued or can be; or the queue was
\* drained, and is empty from its head on.
TailOk(q) ==
  \/ /\ tail[q] = LastCell(q)
     /\ Len(sent[q]) = Len(output[q]) + Len(chain[q])
  \/ Len(chain[q]) = 0 /\ tail[q] # head[q]

Begins(d, s) == \A i \in DOMAIN d : i \in DOMAIN s /\ d[i] = s[i]

IInv ==
  /\ TypeOK
  /\ \A q \in held : chain[q] = <<>>
  /\ \A q \in Live : QueueOk(q)
  /\ Apart
  /\ InTurn(Deliveries, turn, turns)
  /\ \A q \in Live \ struck : TailOk(q)
  /\ \A q \in Queues \ struck : Begins(Delivered(q), sent[q])

-----------------------------------------------------------------------------
(***************************************************************************)
(* Sequences and lists.                                                    *)
(***************************************************************************)

\* What is behind the i-th element is replaced by x.
LEMMA JoinedIs ==
  ASSUME NEW S, NEW s \in Seq(S), NEW i \in 0 .. Len(s), NEW x \in S
  PROVE  LET r == Append(SubSeq(s, 1, i), x)
         IN  /\ r \in Seq(S) /\ Len(r) = i + 1 /\ DOMAIN r = 1 .. i + 1
             /\ \A j \in 1 .. i : r[j] = s[j]
             /\ r[i + 1] = x
<1> DEFINE u == SubSeq(s, 1, i)
<1>1. Len(s) \in Nat /\ i \in Nat /\ DOMAIN s = 1 .. Len(s)
  BY LenProperties
<1>2. \A j \in 1 .. i : s[j] \in S
  BY <1>1, ElementOfSeq
<1>3. /\ u \in Seq(S) /\ Len(u) = IF 1 <= i THEN i - 1 + 1 ELSE 0
      /\ \A j \in 1 .. i - 1 + 1 : u[j] = s[1 + j - 1]
  BY <1>1, <1>2, SubSeqProperties
<1>4. Len(u) = i /\ \A j \in 1 .. i : u[j] = s[j]
  BY <1>1, <1>3
<1> HIDE DEF u
<1>5. /\ Append(u, x) \in Seq(S) /\ Len(Append(u, x)) = i + 1
      /\ \A j \in 1 .. i : Append(u, x)[j] = u[j]
      /\ Append(u, x)[i + 1] = x
  BY <1>3, <1>4, AppendProperties
<1>6. DOMAIN Append(u, x) = 1 .. i + 1
  BY <1>5, LenProperties
<1> QED BY <1>4, <1>5, <1>6 DEF u

\* enqueue_message behind the i-th cell: the new cell is the last one.
LEMMA ListJoin ==
  ASSUME NEW h \in Cells, NEW ch \in Seq(Cells), NEW own,
         NEW nx \in [Cells -> Cells \cup {NULL}], ListOk(h, ch, nx, own),
         NEW c \in Cells, c \notin own, NEW i \in 0 .. Len(ch),
         NEW t, t = IF i = 0 THEN h ELSE ch[i]
  PROVE  ListOk(h, Append(SubSeq(ch, 1, i), c),
                [nx EXCEPT ![c] = NULL, ![t] = c], own \cup {c})
<1> DEFINE ch2 == Append(SubSeq(ch, 1, i), c)
           nx2 == [nx EXCEPT ![c] = NULL, ![t] = c]
<1>1. /\ Len(ch) \in Nat /\ DOMAIN ch = 1 .. Len(ch)
      /\ \A j \in 1 .. Len(ch) : ch[j] \in Cells
      /\ i \in Nat /\ \A j \in 1 .. i : j \in DOMAIN ch
  BY LenProperties, ElementOfSeq
<1>2. /\ Len(ch2) = i + 1 /\ DOMAIN ch2 = 1 .. i + 1
      /\ \A j \in 1 .. i : ch2[j] = ch[j]
      /\ ch2[i + 1] = c
  BY JoinedIs
<1>3. t \in Cells /\ t # c /\ h # c /\ \A j \in 1 .. i : ch[j] # c
  <2>1. h # c /\ \A j \in 1 .. i : ch[j] # c
    BY <1>1 DEF ListOk
  <2>2. CASE i = 0
    BY <2>1, <2>2
  <2>3. CASE i # 0
    <3>1. i \in 1 .. i /\ t = ch[i]
      BY <1>1, <2>3
    <3> QED BY <3>1, <2>1, <1>1
  <2> QED BY <2>2, <2>3
<1>4. /\ nx2[c] = NULL /\ nx2[t] = c
      /\ \A d \in Cells : d # c /\ d # t => nx2[d] = nx[d]
  BY <1>3
<1> HIDE DEF ch2, nx2
<1>5. ASSUME NEW j \in 1 .. i
      PROVE  /\ ch2[j] \in own \cup {c} /\ ch2[j] # h
             /\ nx2[ch2[j]] = ch2[j + 1]
             /\ \A k \in 1 .. i + 1 : ch2[j] = ch2[k] => j = k
  <2>1. ch2[j] = ch[j] /\ ch[j] \in Cells /\ ch[j] # c /\ j \in DOMAIN ch
    BY <1>1, <1>2, <1>3
  <2>2. ch2[j] \in own \cup {c} /\ ch2[j] # h
    BY <2>1 DEF ListOk
  <2>3. i \in DOMAIN ch /\ t = ch[i]
    BY <1>1
  <2>4. nx2[ch2[j]] = ch2[j + 1]
    <3>1. CASE j = i
      BY <3>1, <2>1, <2>3, <1>2, <1>4
    <3>2. CASE j # i
      <4>1. ch[j] # t
        BY <3>2, <2>1, <2>3 DEF ListOk
      <4>2. j # Len(ch) /\ j + 1 \in 1 .. i
        <5> DEFINE n == Len(ch)
        <5>1. n \in Nat /\ i \in 0 .. n
          BY <1>1
        <5> HIDE DEF n
        <5>2. j # n /\ j + 1 \in 1 .. i
          BY <3>2, <5>1
        <5> QED BY <5>2 DEF n
      <4>3. nx[ch[j]] = ch[j + 1]
        BY <4>2, <2>1 DEF ListOk
      <4>4. nx2[ch[j]] = nx[ch[j]]
        BY <4>1, <2>1, <1>4
      <4>5. ch2[j + 1] = ch[j + 1]
        BY <4>2, <1>2
      <4> QED BY <4>3, <4>4, <4>5, <2>1
    <3> QED BY <3>1, <3>2
  <2>5. ASSUME NEW k \in 1 .. i + 1, ch2[j] = ch2[k] PROVE j = k
    <3>1. CASE k = i + 1
      BY <3>1, <2>1, <2>5, <1>2
    <3>2. CASE k # i + 1
      <4>1. k \in 1 .. i
        BY <3>2, <1>1
      <4>2. ch2[k] = ch[k] /\ k \in DOMAIN ch
        BY <4>1, <1>1, <1>2
      <4> QED BY <4>2, <2>1, <2>5 DEF ListOk
    <3> QED BY <3>1, <3>2
  <2> QED BY <2>2, <2>4, <2>5
<1>6. ch2[i + 1] # h /\ \A k \in 1 .. i : ch2[k] # ch2[i + 1]
  BY <1>1, <1>2, <1>3
<1>7. nx2[h] = ch2[1]
  <2>1. CASE i = 0
    BY <2>1, <1>2, <1>4
  <2>2. CASE i # 0
    <3>1. i \in DOMAIN ch /\ 1 \in 1 .. i /\ Len(ch) # 0
      BY <2>2, <1>1
    <3>2. h # t /\ h # c
      BY <3>1, <2>2, <1>3 DEF ListOk
    <3>3. nx[h] = ch[1]
      BY <3>1 DEF ListOk
    <3> QED BY <3>1, <3>2, <3>3, <1>2, <1>4
  <2> QED BY <2>1, <2>2
<1>8. ASSUME NEW j \in DOMAIN ch2
      PROVE  /\ ch2[j] \in own \cup {c} /\ ch2[j] # h
             /\ nx2[ch2[j]] = IF j = Len(ch2) THEN NULL ELSE ch2[j + 1]
             /\ \A k \in DOMAIN ch2 : ch2[j] = ch2[k] => j = k
  <2>1. CASE j = i + 1
    <3>1. \A k \in DOMAIN ch2 : k = i + 1 \/ k \in 1 .. i
      BY <1>1, <1>2
    <3> QED BY <3>1, <2>1, <1>2, <1>4, <1>6
  <2>2. CASE j # i + 1
    <3>1. j \in 1 .. i
      BY <2>2, <1>1, <1>2
    <3> QED BY <3>1, <2>2, <1>2, <1>5
  <2> QED BY <2>1, <2>2
<1>9. h \in own \cup {c} /\ Len(ch2) # 0
  BY <1>1, <1>2 DEF ListOk
<1>10. ListOk(h, ch2, nx2, own \cup {c})
  BY <1>7, <1>8, <1>9 DEF ListOk
<1> QED BY <1>10 DEF ch2, nx2

\* dequeue_message: the first cell is unlinked and given back.
LEMMA ListTail ==
  ASSUME NEW h \in Cells, NEW ch \in Seq(Cells), NEW own,
         NEW nx \in [Cells -> Cells \cup {NULL}], ListOk(h, ch, nx, own),
         ch # <<>>
  PROVE  ListOk(h, Tail(ch), [nx EXCEPT ![h] = nx[ch[1]], ![ch[1]] = NULL],
                own \ {ch[1]})
<1> DEFINE n == Len(ch)
           ch2 == Tail(ch)
           e == ch[1]
           nx2 == [nx EXCEPT ![h] = nx[ch[1]], ![ch[1]] = NULL]
<1>1. n \in Nat \ {0} /\ DOMAIN ch = 1 .. n /\ \A i \in 1 .. n : ch[i] \in Cells
  BY LenProperties, ElementOfSeq, EmptySeq
<1>2. /\ Len(ch2) = n - 1 /\ DOMAIN ch2 = 1 .. n - 1
      /\ \A i \in 1 .. n - 1 : ch2[i] = ch[i + 1]
  BY <1>1, HeadTailProperties, LenProperties
<1>3. e \in Cells /\ e # h
  BY <1>1 DEF ListOk
<1>4. /\ nx2[h] = nx[e]
      /\ \A d \in Cells : d # h /\ d # e => nx2[d] = nx[d]
  BY <1>3
<1>5. nx[e] = IF n = 1 THEN NULL ELSE ch[2]
  BY <1>1 DEF ListOk
<1> HIDE DEF ch2, nx2
<1>6. ASSUME NEW i \in DOMAIN ch2
      PROVE  /\ ch2[i] \in own \ {e} /\ ch2[i] # h
             /\ nx2[ch2[i]] = IF i = Len(ch2) THEN NULL ELSE ch2[i + 1]
             /\ \A k \in DOMAIN ch2 : ch2[i] = ch2[k] => i = k
  <2>1. i \in 1 .. n - 1 /\ i + 1 \in 1 .. n /\ i + 1 # 1
    BY <1>1, <1>2
  <2>2. ch2[i] = ch[i + 1] /\ ch2[i] \in Cells
    BY <2>1, <1>1, <1>2
  <2>3. ch2[i] \in own \ {e} /\ ch2[i] # h
    BY <2>1, <2>2, <1>1 DEF ListOk
  <2>4. nx[ch[i + 1]] = IF i + 1 = n THEN NULL ELSE ch[i + 2]
    BY <2>1, <1>1 DEF ListOk
  <2>5. nx2[ch2[i]] = nx[ch[i + 1]]
    BY <2>2, <2>3, <1>4
  <2>6. i # n - 1 => ch2[i + 1] = ch[i + 2]
    BY <2>1, <1>1, <1>2
  <2>7. i = Len(ch2) <=> i + 1 = n
    BY <2>1, <1>1, <1>2
  <2>8. \A k \in DOMAIN ch2 : ch2[i] = ch2[k] => i = k
    <3>1. ASSUME NEW k \in 1 .. n - 1, ch[i + 1] = ch[k + 1] PROVE i = k
      BY <3>1, <2>1, <1>1 DEF ListOk
    <3> QED BY <3>1, <2>1, <1>2
  <2> QED BY <2>1, <2>3, <2>4, <2>5, <2>6, <2>7, <2>8
<1>7. h \in own \ {e}
  BY <1>3 DEF ListOk
<1>8. nx2[h] = IF Len(ch2) = 0 THEN NULL ELSE ch2[1]
  BY <1>1, <1>2, <1>4, <1>5
<1>9. ListOk(h, ch2, nx2, own \ {e})
  BY <1>6, <1>7, <1>8 DEF ListOk
<1> QED BY <1>9 DEF ch2, nx2

\* A list is untouched by what is written outside of it.
LEMMA ListFrame ==
  ASSUME NEW h \in Cells, NEW ch \in Seq(Cells), NEW own, NEW own2,
         NEW nx, NEW nx2, ListOk(h, ch, nx, own),
         h \in own2, nx2[h] = nx[h],
         \A i \in DOMAIN ch : ch[i] \in own2 /\ nx2[ch[i]] = nx[ch[i]]
  PROVE  ListOk(h, ch, nx2, own2)
BY DEF ListOk

\* The cells of a list, and which of them is a given one.
LEMMA CellsAre ==
  ASSUME NEW q \in Queues, chain[q] \in Seq(Cells)
  PROVE  /\ Len(chain[q]) \in Nat /\ DOMAIN chain[q] = 1 .. Len(chain[q])
         /\ head[q] \in CellsOf(q)
         /\ \A i \in DOMAIN chain[q] : chain[q][i] \in CellsOf(q)
         /\ \A x \in CellsOf(q) : x = head[q] \/ \E i \in DOMAIN chain[q] : x = chain[q][i]
         /\ Len(chain[q]) = 0 => CellsOf(q) = {head[q]}
<1>1. Len(chain[q]) \in Nat /\ DOMAIN chain[q] = 1 .. Len(chain[q])
  BY LenProperties
<1>2. CellsOf(q) = {CellAt(q, i) : i \in 0 .. Len(chain[q])}
  BY DEF CellsOf
<1>3. head[q] \in CellsOf(q)
  <2>1. 0 \in 0 .. Len(chain[q]) /\ CellAt(q, 0) = head[q]
    BY <1>1 DEF CellAt
  <2> QED BY <2>1, <1>2
<1>4. ASSUME NEW i \in DOMAIN chain[q] PROVE chain[q][i] \in CellsOf(q)
  <2>1. i \in 0 .. Len(chain[q]) /\ CellAt(q, i) = chain[q][i]
    BY <1>1 DEF CellAt
  <2> QED BY <2>1, <1>2
<1>5. ASSUME NEW x \in CellsOf(q)
      PROVE  x = head[q] \/ \E i \in DOMAIN chain[q] : x = chain[q][i]
  <2>1. PICK i \in 0 .. Len(chain[q]) : x = CellAt(q, i)
    BY <1>2
  <2>2. i = 0 \/ i \in DOMAIN chain[q]
    BY <1>1
  <2> QED BY <2>1, <2>2 DEF CellAt
<1>6. ASSUME Len(chain[q]) = 0 PROVE CellsOf(q) = {head[q]}
  <2>1. DOMAIN chain[q] = {}
    BY <1>1, <1>6
  <2> QED BY <2>1, <1>3, <1>5
<1> QED BY <1>1, <1>3, <1>4, <1>5, <1>6

\* Different places in a list are different cells.
LEMMA PlacesDiffer ==
  ASSUME NEW q \in Queues, chain[q] \in Seq(Cells),
         ListOk(head[q], chain[q], next, Own),
         NEW i \in 0 .. Len(chain[q]), NEW k \in 0 .. Len(chain[q]),
         CellAt(q, i) = CellAt(q, k)
  PROVE  i = k
<1>1. Len(chain[q]) \in Nat /\ DOMAIN chain[q] = 1 .. Len(chain[q])
  BY LenProperties
<1>2. CASE i = 0 /\ k = 0
  BY <1>2
<1>3. CASE i = 0 /\ k # 0
  <2>1. k \in DOMAIN chain[q]
    BY <1>1, <1>3
  <2> QED BY <2>1, <1>3 DEF CellAt, ListOk
<1>4. CASE i # 0 /\ k = 0
  <2>1. i \in DOMAIN chain[q]
    BY <1>1, <1>4
  <2> QED BY <2>1, <1>4 DEF CellAt, ListOk
<1>5. CASE i # 0 /\ k # 0
  <2>1. i \in DOMAIN chain[q] /\ k \in DOMAIN chain[q]
    BY <1>1, <1>5
  <2> QED BY <2>1, <1>5 DEF CellAt, ListOk
<1> QED BY <1>2, <1>3, <1>4, <1>5

\* A sequence followed by another one, one by one.
LEMMA OneByOne ==
  ASSUME NEW n \in Nat, NEW cs \in [1 .. n -> Msgs], NEW out \in Seq(Msgs)
  PROVE  /\ Len(out) \in Nat /\ cs \in Seq(Msgs) /\ Len(cs) = n
         /\ out \o cs \in Seq(Msgs) /\ DOMAIN (out \o cs) = 1 .. Len(out) + n
         /\ \A i \in 1 .. Len(out) : (out \o cs)[i] = out[i]
         /\ \A i \in 1 .. n : (out \o cs)[Len(out) + i] = cs[i]
<1> DEFINE o == Len(out)
           d == out \o cs
<1>1. o \in Nat
  BY LenProperties
<1>2. cs \in Seq(Msgs) /\ Len(cs) = n
  BY SeqDef, LenProperties
<1>3. /\ out \o cs \in Seq(Msgs)
      /\ Len(out \o cs) = Len(out) + Len(cs)
      /\ \A i \in 1 .. Len(out) + Len(cs) :
           (out \o cs)[i] = IF i <= Len(out) THEN out[i] ELSE cs[i - Len(out)]
  BY ZenonT(60), <1>2, ConcatProperties
<1>4. /\ d \in Seq(Msgs) /\ Len(d) = o + n
      /\ \A i \in 1 .. o + n : d[i] = IF i <= o THEN out[i] ELSE cs[i - o]
  BY <1>2, <1>3
<1> HIDE DEF o, d
<1>5. \A i \in 1 .. o : d[i] = out[i]
  BY <1>1, <1>4
<1>6. ASSUME NEW i \in 1 .. n PROVE d[o + i] = cs[i]
  <2>1. o + i \in 1 .. o + n /\ ~(o + i <= o) /\ (o + i) - o = i
    BY <1>1
  <2> QED BY <2>1, <1>4
<1>7. DOMAIN d = 1 .. o + n
  BY <1>4, LenProperties
<1> QED BY <1>1, <1>2, <1>4, <1>5, <1>6, <1>7 DEF o, d

\* What a queue has delivered and can deliver, one by one.
LEMMA DeliveredIs ==
  ASSUME NEW q \in Queues, chain[q] \in Seq(Cells), output[q] \in Seq(Msgs),
         \A i \in DOMAIN chain[q] : data[chain[q][i]] \in Msgs
  PROVE  LET n == Len(chain[q])
             o == Len(output[q])
         IN  /\ n \in Nat /\ o \in Nat
             /\ Contents(q) \in Seq(Msgs) /\ Len(Contents(q)) = n
             /\ \A i \in 1 .. n : Contents(q)[i] = data[chain[q][i]]
             /\ Delivered(q) \in Seq(Msgs)
             /\ DOMAIN Delivered(q) = 1 .. o + n
             /\ \A i \in 1 .. o : Delivered(q)[i] = output[q][i]
             /\ \A i \in 1 .. n : Delivered(q)[o + i] = data[chain[q][i]]
<1> DEFINE n == Len(chain[q])
           cs == Contents(q)
           out == output[q]
<1>1. n \in Nat /\ DOMAIN chain[q] = 1 .. n
  BY LenProperties
<1>2. cs = [i \in 1 .. n |-> data[chain[q][i]]]
  BY DEF Contents
<1>3. \A i \in 1 .. n : data[chain[q][i]] \in Msgs
  BY <1>1
<1> HIDE DEF n, cs
<1>4. cs \in [1 .. n -> Msgs] /\ \A i \in 1 .. n : cs[i] = data[chain[q][i]]
  BY <1>2, <1>3
<1>5. Delivered(q) = out \o cs /\ out \in Seq(Msgs)
  BY DEF Delivered, cs
<1> HIDE DEF out
<1>6. /\ Len(out) \in Nat /\ cs \in Seq(Msgs) /\ Len(cs) = n
      /\ out \o cs \in Seq(Msgs) /\ DOMAIN (out \o cs) = 1 .. Len(out) + n
      /\ \A i \in 1 .. Len(out) : (out \o cs)[i] = out[i]
      /\ \A i \in 1 .. n : (out \o cs)[Len(out) + i] = cs[i]
  BY ZenonT(30), <1>1, <1>4, <1>5, OneByOne
<1> QED BY <1>1, <1>4, <1>5, <1>6 DEF n, cs, out

\* Sequences in turn stay so when they are cut off, and when a buffer m that
\* was not enqueued before comes to the end of one of them, that of x.
LEMMA InTurnStep ==
  ASSUME NEW d, NEW d2, NEW tn \in [Msgs -> Nat], NEW n \in Nat,
         InTurn(d, tn, n),
         NEW m \in Msgs, tn[m] = 0, NEW x,
         ComesLast(d, d2, m, x)
  PROVE  InTurn(d2, [tn EXCEPT ![m] = n + 1], n + 1)
<1> DEFINE tn2 == [tn EXCEPT ![m] = n + 1]
<1>1. /\ tn2[m] = n + 1 /\ n + 1 \in Nat
      /\ \A y \in Msgs : y # m => tn2[y] = tn[y]
  OBVIOUS
<1> HIDE DEF tn2
<1>2. ASSUME NEW q \in Queues, NEW i \in DOMAIN d[q]
      PROVE  /\ d[q][i] \in Msgs /\ d[q][i] # m
             /\ tn2[d[q][i]] = tn[d[q][i]]
             /\ 1 <= tn2[d[q][i]] /\ tn2[d[q][i]] < n + 1
  <2>1. d[q][i] \in Msgs /\ 1 <= tn[d[q][i]] /\ tn[d[q][i]] <= n
    BY DEF InTurn
  <2>2. d[q][i] # m /\ tn[d[q][i]] \in Nat
    BY <2>1
  <2> QED BY <2>1, <2>2, <1>1
<1>3. ASSUME NEW q \in Queues, NEW i \in DOMAIN d2[q]
      PROVE  /\ d2[q][i] \in Msgs
             /\ 1 <= tn2[d2[q][i]] /\ tn2[d2[q][i]] <= n + 1
             /\ \A j \in DOMAIN d2[q] : i < j => tn2[d2[q][i]] < tn2[d2[q][j]]
  <2>1. CASE i \in DOMAIN d[q] /\ d2[q][i] = d[q][i]
    <3>1. /\ d2[q][i] \in Msgs /\ tn[d[q][i]] \in Nat
          /\ tn2[d2[q][i]] = tn[d[q][i]]
          /\ 1 <= tn2[d2[q][i]] /\ tn2[d2[q][i]] < n + 1
      BY <2>1, <1>2
    <3>2. ASSUME NEW j \in DOMAIN d2[q], i < j
          PROVE  tn2[d2[q][i]] < tn2[d2[q][j]]
      <4>1. CASE j \in DOMAIN d[q] /\ d2[q][j] = d[q][j]
        <5>1. tn2[d2[q][j]] = tn[d[q][j]]
          BY <4>1, <1>2
        <5>2. tn[d[q][i]] < tn[d[q][j]]
          BY <4>1, <3>2, <2>1 DEF InTurn
        <5> QED BY <5>1, <5>2, <3>1
      <4>2. CASE d2[q][j] = m
        BY <4>2, <3>1, <1>1
      <4> QED BY <4>1, <4>2 DEF ComesLast
    <3>3. 1 <= tn2[d2[q][i]] /\ tn2[d2[q][i]] <= n + 1
      BY <3>1
    <3> QED BY <3>1, <3>2, <3>3
  <2>2. CASE d2[q][i] = m /\ \A j \in DOMAIN d2[q] : ~(i < j)
    BY <2>2, <1>1
  <2> QED BY <2>1, <2>2 DEF ComesLast
<1>4. ASSUME NEW p \in Queues, NEW q \in Queues, p # q,
             NEW i \in DOMAIN d2[p], NEW j \in DOMAIN d2[q]
      PROVE  d2[p][i] # d2[q][j]
  <2>1. CASE /\ i \in DOMAIN d[p] /\ d2[p][i] = d[p][i]
             /\ j \in DOMAIN d[q] /\ d2[q][j] = d[q][j]
    BY <2>1, <1>4 DEF InTurn
  <2>2. CASE i \in DOMAIN d[p] /\ d2[p][i] = d[p][i] /\ d2[q][j] = m
    BY <2>2, <1>2
  <2>3. CASE j \in DOMAIN d[q] /\ d2[q][j] = d[q][j] /\ d2[p][i] = m
    BY <2>3, <1>2
  <2> QED BY <2>1, <2>2, <2>3, <1>4 DEF ComesLast
<1>5. InTurn(d2, tn2, n + 1)
  BY <1>3, <1>4 DEF InTurn
<1> QED BY <1>5 DEF tn2

\* They stay so when nothing comes.
LEMMA InTurnCut ==
  ASSUME NEW d, NEW d2, NEW tn, NEW n, InTurn(d, tn, n),
         \A q \in Queues : \A i \in DOMAIN d2[q] :
           i \in DOMAIN d[q] /\ d2[q][i] = d[q][i]
  PROVE  InTurn(d2, tn, n)
<1>1. ASSUME NEW q \in Queues, NEW i \in DOMAIN d2[q]
      PROVE  /\ d2[q][i] \in Msgs
             /\ 1 <= tn[d2[q][i]] /\ tn[d2[q][i]] <= n
             /\ \A j \in DOMAIN d2[q] : i < j => tn[d2[q][i]] < tn[d2[q][j]]
  BY DEF InTurn
<1>2. ASSUME NEW p \in Queues, NEW q \in Queues, p # q,
             NEW i \in DOMAIN d2[p], NEW j \in DOMAIN d2[q]
      PROVE  d2[p][i] # d2[q][j]
  BY <1>2 DEF InTurn
<1> QED BY <1>1, <1>2 DEF InTurn

-----------------------------------------------------------------------------
(***************************************************************************)
(* Every operation keeps the invariant.                                    *)
(***************************************************************************)
\* What the invariant says of a queue that can still be used.
LEMMA LiveQueue ==
  ASSUME IInv, NEW q \in Live
  PROVE  /\ q \in Queues /\ q \notin held
         /\ head[q] \in Cells /\ tail[q] \in Cells /\ length[q] \in Nat
         /\ chain[q] \in Seq(Cells) /\ output[q] \in Seq(Msgs)
         /\ sent[q] \in Seq(Msgs)
         /\ ListOk(head[q], chain[q], next, Own)
         /\ \A i \in DOMAIN chain[q] : data[chain[q][i]] \in Msgs
         /\ CellsOf(q) \subseteq Own
         /\ CellAt(q, Len(chain[q])) = LastCell(q)
<1>1. q \in Queues /\ q \notin held /\ TypeOK /\ QueueOk(q)
  BY DEF IInv, Live
<1>2. chain[q] \in Seq(Cells)
  BY <1>1 DEF TypeOK
<1>3. CellsOf(q) \subseteq Own
  BY <1>1, <1>2, CellsAre DEF QueueOk, ListOk
<1> QED BY <1>1, <1>3 DEF TypeOK, QueueOk, LastCell

LEMMA TypedDeliveries ==
  ASSUME IInv, NEW q \in Queues
  PROVE  /\ chain[q] \in Seq(Cells) /\ output[q] \in Seq(Msgs)
         /\ \A i \in DOMAIN chain[q] : data[chain[q][i]] \in Msgs
         /\ Deliveries[q] = Delivered(q)
<1>1. chain[q] \in Seq(Cells) /\ output[q] \in Seq(Msgs)
  BY DEF IInv, TypeOK
<1>2. CASE q \in held
  <2>1. chain[q] = <<>>
    BY <1>2 DEF IInv
  <2>2. DOMAIN chain[q] = {}
    BY <2>1
  <2> QED BY <1>1, <2>2 DEF Deliveries
<1>3. CASE q \notin held
  BY <1>1, <1>3, LiveQueue DEF Live, Deliveries
<1> QED BY <1>2, <1>3

LEMMA InitIInv == Init => IInv
<1> SUFFICES ASSUME Init PROVE IInv
  OBVIOUS
<1>1. /\ head \in [Queues -> Cells]
      /\ \A p, q \in Queues : head[p] = head[q] => p = q
  BY DEF Init, Injection, IsInjective
<1>2. <<>> \in Seq(Cells) /\ <<>> \in Seq(Msgs) /\ Len(<<>>) = 0 /\ DOMAIN <<>> = {}
  OBVIOUS
<1>3. TypeOK
  BY <1>1, <1>2 DEF Init, TypeOK
<1>4. ASSUME NEW q \in Queues
      PROVE  /\ chain[q] = <<>> /\ sent[q] = <<>> /\ output[q] = <<>>
             /\ tail[q] = head[q] /\ next[head[q]] = NULL /\ head[q] \in Own
             /\ Len(chain[q]) = 0 /\ DOMAIN chain[q] = {}
             /\ CellsOf(q) = {head[q]} /\ LastCell(q) = head[q]
             /\ DOMAIN Delivered(q) = {}
  <2>1. /\ chain[q] = <<>> /\ sent[q] = <<>> /\ output[q] = <<>>
        /\ tail[q] = head[q] /\ next[head[q]] = NULL /\ head[q] \in Own
    BY <1>1 DEF Init, Own
  <2>2. /\ Len(chain[q]) = 0 /\ DOMAIN chain[q] = {} /\ Len(output[q]) = 0
        /\ chain[q] \in Seq(Cells) /\ output[q] \in Seq(Msgs)
    BY <1>2, <2>1, Zenon
  <2>3. DOMAIN Delivered(q) = 1 .. Len(output[q]) + Len(chain[q])
    BY <2>2, DeliveredIs
  <2>4. CellsOf(q) = {head[q]}
    BY <2>2, CellsAre
  <2>5. LastCell(q) = head[q]
    BY <2>2 DEF LastCell, CellAt
  <2>6. DOMAIN Delivered(q) = {}
    BY <2>2, <2>3
  <2> QED BY <2>1, <2>2, <2>4, <2>5, <2>6
<1>5. \A q \in Live : QueueOk(q)
  BY <1>1, <1>4 DEF QueueOk, ListOk, Live
<1>6. Apart
  BY <1>1, <1>4 DEF Apart, Live
<1>7. InTurn(Deliveries, turn, turns)
  BY <1>4 DEF InTurn, Deliveries
<1>8. \A q \in Live : TailOk(q)
  <2> SUFFICES ASSUME NEW q \in Live PROVE TailOk(q)
    OBVIOUS
  <2>1. q \in Queues
    BY DEF Live
  <2>2. Len(sent[q]) = 0 /\ Len(output[q]) = 0 /\ Len(chain[q]) = 0
    BY <1>2, <1>4, <2>1, Zenon
  <2> QED BY <1>4, <2>1, <2>2 DEF TailOk
<1>9. \A q \in Queues : Begins(Delivered(q), sent[q]) /\ chain[q] = <<>>
  BY <1>4 DEF Begins
<1>10. held \subseteq Queues
  BY <1>3 DEF TypeOK
<1> QED BY <1>3, <1>5, <1>6, <1>7, <1>8, <1>9, <1>10 DEF IInv

\* An enqueue that gets the cell c.
EnqueueTo(q, m, c) ==
  /\ data' = [data EXCEPT ![c] = m]
  /\ next' = [next EXCEPT ![c] = NULL, ![tail[q]] = c]
  /\ allocated' = allocated \cup {c}
  /\ chain' = [p \in Queues |-> Linked(p, tail[q], c)]
  /\ tail' = [tail EXCEPT ![q] = c]
  /\ length' = [length EXCEPT ![q] = @ + 1]
  /\ Enqueued(q, m)
  /\ UNCHANGED <<head, held, foreign, output>>

\* What it does to a list: the new element comes behind the cell that the tail
\* points to, when that is in the list.
LEMMA EnqueueLinks ==
  ASSUME IInv, NEW q \in Live, NEW m \in Msgs, NEW c \in Cells \ allocated,
         EnqueueTo(q, m, c), NEW p \in Live
  PROVE  \/ tail[q] \notin CellsOf(p) /\ chain'[p] = chain[p]
         \/ /\ tail[q] \in CellsOf(p)
            /\ \E i \in 0 .. Len(chain[p]) :
                 /\ CellAt(p, i) = tail[q]
                 /\ chain'[p] = Append(SubSeq(chain[p], 1, i), c)
<1>1. chain'[p] = Linked(p, tail[q], c) /\ p \notin held /\ p \in Queues
  BY LiveQueue DEF EnqueueTo
<1>2. CASE tail[q] \notin CellsOf(p)
  BY <1>1, <1>2 DEF Linked
<1>3. CASE tail[q] \in CellsOf(p)
  <2> DEFINE i == CHOOSE i \in 0 .. Len(chain[p]) : CellAt(p, i) = tail[q]
  <2>1. \E j \in 0 .. Len(chain[p]) : CellAt(p, j) = tail[q]
    BY <1>3 DEF CellsOf
  <2>2. i \in 0 .. Len(chain[p]) /\ CellAt(p, i) = tail[q]
    BY <2>1
  <2>3. chain'[p] = Append(SubSeq(chain[p], 1, i), c)
    BY <1>1, <1>3 DEF Linked
  <2> QED BY <1>3, <2>2, <2>3
<1> QED BY <1>2, <1>3

\* A list after an enqueue, of whichever queue.
LEMMA EnqueueKeepsList ==
  ASSUME IInv, NEW q \in Live, NEW m \in Msgs, NEW c \in Cells \ allocated,
         EnqueueTo(q, m, c), NEW p \in Live
  PROVE  /\ ListOk(head[p], chain'[p], next', Own \cup {c})
         /\ chain'[p] \in Seq(Cells)
         /\ \A i \in DOMAIN chain'[p] : data'[chain'[p][i]] \in Msgs
         /\ head[p] # c /\ c \notin CellsOf(p)
         /\ \A x \in CellsOf(p)' :
              x \in CellsOf(p) \/ (x = c /\ tail[q] \in CellsOf(p))
         /\ \A i \in DOMAIN Delivered(p)' :
              \/ i \in DOMAIN Delivered(p) /\ Delivered(p)'[i] = Delivered(p)[i]
              \/ /\ tail[q] \in CellsOf(p) /\ Delivered(p)'[i] = m
                 /\ \A j \in DOMAIN Delivered(p)' : ~(i < j)
                 /\ i = Len(output[p]) + Len(chain'[p])
         /\ \A i \in DOMAIN Delivered(p)' : i \in Nat
         /\ tail[q] \notin CellsOf(p) => Delivered(p)' = Delivered(p)
<1>1. /\ p \in Queues /\ q \in Queues
      /\ head[p] \in Cells /\ chain[p] \in Seq(Cells) /\ tail[q] \in Cells
      /\ output[p] \in Seq(Msgs)
      /\ ListOk(head[p], chain[p], next, Own) /\ CellsOf(p) \subseteq Own
      /\ \A i \in DOMAIN chain[p] : data[chain[p][i]] \in Msgs
  BY LiveQueue
<1>2. /\ next \in [Cells -> Cells \cup {NULL}]
      /\ data \in [Cells -> Msgs \cup {NULL}]
      /\ c \in Cells /\ c \notin Own
  BY DEF IInv, TypeOK, Own
<1>3. /\ next' = [next EXCEPT ![c] = NULL, ![tail[q]] = c]
      /\ data' = [data EXCEPT ![c] = m] /\ output' = output /\ head' = head
  BY DEF EnqueueTo
<1>4. /\ Len(chain[p]) \in Nat /\ DOMAIN chain[p] = 1 .. Len(chain[p])
      /\ head[p] \in CellsOf(p)
      /\ \A i \in DOMAIN chain[p] : chain[p][i] \in CellsOf(p) /\ chain[p][i] \in Cells
      /\ c \notin CellsOf(p) /\ head[p] # c
  <2>1. \A i \in DOMAIN chain[p] : chain[p][i] \in Cells
    BY <1>1, ElementOfSeq, LenProperties
  <2> QED BY <1>1, <1>2, <2>1, CellsAre
<1>5. \A i \in DOMAIN chain[p] : data'[chain[p][i]] = data[chain[p][i]]
  BY <1>2, <1>3, <1>4
<1> DEFINE n == Len(chain[p])
           o == Len(output[p])
<1>6. /\ n \in Nat /\ o \in Nat /\ DOMAIN Delivered(p) = 1 .. o + n
      /\ \A i \in 1 .. o : Delivered(p)[i] = output[p][i]
      /\ \A i \in 1 .. n : Delivered(p)[o + i] = data[chain[p][i]]
  BY <1>1, DeliveredIs
<1>7. CASE tail[q] \notin CellsOf(p)
  <2>1. chain'[p] = chain[p]
    BY <1>7, EnqueueLinks
  <2>2. next'[head[p]] = next[head[p]]
    BY <1>1, <1>2, <1>3, <1>4, <1>7
  <2>3. \A i \in DOMAIN chain[p] : next'[chain[p][i]] = next[chain[p][i]]
    BY <1>1, <1>2, <1>3, <1>4, <1>7
  <2>4. ListOk(head[p], chain[p], next', Own \cup {c})
    BY <1>1, <2>2, <2>3, ListFrame DEF ListOk
  <2>5. CellsOf(p)' = CellsOf(p)
    BY <1>3, <2>1 DEF CellsOf, CellAt
  <2>6. Contents(p)' = Contents(p)
    BY <1>4, <1>5, <2>1 DEF Contents
  <2>7. Delivered(p)' = Delivered(p)
    BY <1>3, <2>6 DEF Delivered
  <2>8. \A i \in DOMAIN Delivered(p)' : i \in Nat
    BY <1>6, <2>7
  <2> QED BY <1>1, <1>4, <1>5, <2>1, <2>4, <2>5, <2>7, <2>8
<1>8. CASE tail[q] \in CellsOf(p)
  <2>1. PICK i \in 0 .. n : /\ CellAt(p, i) = tail[q]
                            /\ chain'[p] = Append(SubSeq(chain[p], 1, i), c)
    BY <1>8, EnqueueLinks
  <2>2. tail[q] = IF i = 0 THEN head[p] ELSE chain[p][i]
    BY <2>1 DEF CellAt
  <2>3. ListOk(head[p], chain'[p], next', Own \cup {c})
    <3>1. ListOk(head[p], Append(SubSeq(chain[p], 1, i), c),
                 [next EXCEPT ![c] = NULL, ![tail[q]] = c], Own \cup {c})
      BY <1>1, <1>2, <2>1, <2>2, ListJoin
    <3> QED BY <3>1, <1>3, <2>1
  <2>4. /\ chain'[p] \in Seq(Cells) /\ DOMAIN chain'[p] = 1 .. i + 1
        /\ Len(chain'[p]) = i + 1
        /\ \A j \in 1 .. i : chain'[p][j] = chain[p][j]
        /\ chain'[p][i + 1] = c
    BY <1>1, <1>2, <2>1, JoinedIs
  <2>5. i \in Nat /\ i <= n /\ (\A j \in 1 .. i : j \in DOMAIN chain[p])
        /\ \A j \in 1 .. i + 1 : j = i + 1 \/ j \in 1 .. i
    <3> HIDE DEF n
    <3>1. i \in Nat /\ i <= n /\ (\A j \in 1 .. i : j \in 1 .. n)
          /\ \A j \in 1 .. i + 1 : j = i + 1 \/ j \in 1 .. i
      BY <1>6, <2>1
    <3> QED BY <3>1, <1>4 DEF n
  <2>6. data'[c] = m
    BY <1>2, <1>3
  <2>7. \A j \in DOMAIN chain'[p] : data'[chain'[p][j]] \in Msgs
    BY <1>1, <1>5, <2>4, <2>5, <2>6
  <2>8. ASSUME NEW x \in CellsOf(p)'
        PROVE  x \in CellsOf(p) \/ (x = c /\ tail[q] \in CellsOf(p))
    <3>1. PICK j \in 0 .. Len(chain'[p]) : x = CellAt(p, j)'
      BY DEF CellsOf
    <3>2. j = 0 \/ j \in 1 .. i + 1
      BY <2>4, <2>5
    <3> QED BY <1>3, <1>4, <1>8, <2>4, <2>5, <3>1, <3>2 DEF CellAt
  <2>9. /\ DOMAIN Delivered(p)' = 1 .. o + (i + 1)
        /\ \A j \in 1 .. o : Delivered(p)'[j] = output[p][j]
        /\ \A j \in 1 .. i + 1 : Delivered(p)'[o + j] = data'[chain'[p][j]]
    <3> DEFINE n2 == Len(chain'[p])
               cs2 == Contents(p)'
               out2 == output'[p]
    <3>1. n2 \in Nat /\ n2 = i + 1 /\ DOMAIN chain'[p] = 1 .. n2
      BY <2>4, <2>5
    <3>2. cs2 = [j \in 1 .. n2 |-> data'[chain'[p][j]]]
      BY DEF Contents
    <3>3. \A j \in 1 .. n2 : data'[chain'[p][j]] \in Msgs
      BY <2>7, <3>1
    <3>4. out2 \in Seq(Msgs) /\ Len(out2) = o /\ out2 = output[p]
      BY <1>1, <1>3
    <3> HIDE DEF n2, cs2
    <3>5. /\ cs2 \in [1 .. n2 -> Msgs]
          /\ \A j \in 1 .. n2 : cs2[j] = data'[chain'[p][j]]
      BY <3>2, <3>3
    <3>6. Delivered(p)' = out2 \o cs2
      BY DEF Delivered, cs2
    <3> HIDE DEF out2
    <3>8. n2 \in Nat
      BY <3>1
    <3>9. cs2 \in [1 .. n2 -> Msgs]
      BY <3>5
    <3>10. out2 \in Seq(Msgs)
      BY <3>4
    <3>7. /\ Len(out2) \in Nat /\ cs2 \in Seq(Msgs) /\ Len(cs2) = n2
          /\ out2 \o cs2 \in Seq(Msgs)
          /\ DOMAIN (out2 \o cs2) = 1 .. Len(out2) + n2
          /\ \A j \in 1 .. Len(out2) : (out2 \o cs2)[j] = out2[j]
          /\ \A j \in 1 .. n2 : (out2 \o cs2)[Len(out2) + j] = cs2[j]
      BY ZenonT(30), <3>8, <3>9, <3>10, OneByOne
    <3> HIDE DEF o
    <3> QED BY <3>1, <3>4, <3>5, <3>6, <3>7
  <2>10. ASSUME NEW j \in DOMAIN Delivered(p)'
         PROVE  /\ j \in Nat
                /\ \/ j \in DOMAIN Delivered(p) /\ Delivered(p)'[j] = Delivered(p)[j]
                   \/ /\ Delivered(p)'[j] = m
                      /\ \A k \in DOMAIN Delivered(p)' : ~(j < k)
                      /\ j = o + Len(chain'[p])
    <3> HIDE DEF n, o
    <3>1. CASE j \in 1 .. o
      <4>1. j \in 1 .. o + n
        BY <3>1, <1>6
      <4> QED BY <4>1, <3>1, <1>6, <2>9
    <3>2. CASE j - o \in 1 .. i /\ j \in Nat
      <4>1. /\ j - o \in 1 .. n /\ j - o \in 1 .. i + 1 /\ o + (j - o) = j
            /\ j \in 1 .. o + n
        BY <3>2, <1>6, <2>5
      <4>2. /\ Delivered(p)'[j] = data'[chain'[p][j - o]]
            /\ Delivered(p)[j] = data[chain[p][j - o]]
        BY <4>1, <1>6, <2>9
      <4>3. data'[chain'[p][j - o]] = data[chain[p][j - o]]
        BY <3>2, <1>5, <2>4, <2>5
      <4> QED BY <4>1, <4>2, <4>3, <1>6
    <3>3. CASE j = o + (i + 1)
      <4>1. i + 1 \in 1 .. i + 1 /\ j \in Nat /\ \A k \in 1 .. o + (i + 1) : ~(j < k)
        BY <3>3, <1>6, <2>5
      <4>2. Delivered(p)'[j] = m
        BY <3>3, <4>1, <2>4, <2>6, <2>9
      <4>3. j = o + Len(chain'[p])
        BY <3>3, <2>4
      <4> QED BY <4>1, <4>2, <4>3, <2>9
    <3>4. j \in 1 .. o + (i + 1)
      BY <2>9
    <3>5. j \in 1 .. o \/ (j - o \in 1 .. i /\ j \in Nat) \/ j = o + (i + 1)
      <4>1. o \in Nat /\ i \in Nat
        BY <1>6, <2>5
      <4> QED BY <3>4, <4>1
    <3> QED BY <3>1, <3>2, <3>3, <3>5
  <2> QED BY <1>4, <1>8, <2>3, <2>4, <2>7, <2>8, <2>10
<1> QED BY <1>7, <1>8

LEMMA EnqueueTyped ==
  ASSUME TypeOK, NEW q \in Queues, NEW m \in Msgs, NEW c \in Cells \ allocated,
         EnqueueTo(q, m, c), \A p \in Queues : chain'[p] \in Seq(Cells)
  PROVE  TypeOK'
<1>1. /\ chain' \in [Queues -> Seq(Cells)]
      /\ length' \in [Queues -> Nat] /\ tail' \in [Queues -> Cells]
      /\ head' \in [Queues -> Cells] /\ held' \in SUBSET Queues
      /\ output' \in [Queues -> Seq(Msgs)]
  <2>1. length[q] + 1 \in Nat
    BY DEF TypeOK
  <2> QED BY <2>1 DEF TypeOK, EnqueueTo
<1>2. /\ next' \in [Cells -> Cells \cup {NULL}]
      /\ data' \in [Cells -> Msgs \cup {NULL}]
      /\ allocated' \in SUBSET Cells /\ foreign' \in SUBSET allocated'
  BY DEF TypeOK, EnqueueTo
<1>3. sent' \in [Queues -> Seq(Msgs)]
  <2>1. Append(sent[q], m) \in Seq(Msgs)
    BY DEF TypeOK
  <2> QED BY <2>1 DEF TypeOK, EnqueueTo, Enqueued
<1>4. turns' \in Nat /\ turn' \in [Msgs -> 0 .. turns']
  <2>1. turns \in Nat /\ turns' = turns + 1 /\ turns + 1 \in 0 .. turns'
    BY DEF TypeOK, EnqueueTo, Enqueued
  <2>2. \A x \in Msgs : turn[x] \in 0 .. turns'
    BY <2>1 DEF TypeOK
  <2> QED BY <2>1, <2>2 DEF TypeOK, EnqueueTo, Enqueued
<1>5. struck' \in SUBSET Queues
  BY DEF TypeOK, EnqueueTo, Enqueued
<1> QED BY <1>1, <1>2, <1>3, <1>4, <1>5 DEF TypeOK

LEMMA EnqueueIInv ==
  ASSUME IInv, NEW q \in Queues, NEW m \in Msgs, Enqueue(q, m)
  PROVE  IInv'
<1>0. PICK c \in Cells \ allocated : EnqueueTo(q, m, c)
  BY DEF Enqueue, EnqueueTo
<1>1. /\ q \in Live /\ TypeOK /\ turn[m] = 0
      /\ head' = head /\ held' = held /\ output' = output /\ Live' = Live
      /\ tail' = [tail EXCEPT ![q] = c] /\ tail'[q] = c
      /\ \A p \in Queues : p # q => tail'[p] = tail[p] /\ sent'[p] = sent[p]
      /\ sent'[q] = Append(sent[q], m)
      /\ Own' = Own \cup {c}
  <2>1. /\ TypeOK /\ q \notin held /\ turn[m] = 0
    BY DEF IInv, Enqueue, Unsent
  <2>2. c \notin foreign
    BY <2>1 DEF TypeOK
  <2> QED BY <1>0, <2>1, <2>2 DEF Live, TypeOK, EnqueueTo, Enqueued, Own
<1>2. struck' = struck \cup {p \in Live \ {q} : tail[q] \in CellsOf(p)}
  BY <1>0 DEF EnqueueTo, Enqueued, Live
<1>3. ASSUME NEW p \in Queues \ Live
      PROVE  /\ chain'[p] = chain[p] /\ chain[p] = <<>> /\ chain[p] \in Seq(Cells)
             /\ Delivered(p)' = Delivered(p) /\ p \in held /\ p # q
  <2>1. p \in held /\ p # q /\ chain[p] = <<>> /\ chain[p] \in Seq(Cells)
    BY <1>1 DEF Live, IInv, TypeOK
  <2>2. chain'[p] = chain[p]
    BY <2>1, <1>0 DEF EnqueueTo, Linked
  <2>3. Contents(p) = <<>> /\ Contents(p)' = <<>>
    BY <2>1, <2>2 DEF Contents
  <2> QED BY <2>1, <2>2, <2>3, <1>1 DEF Delivered
<1>20. ASSUME NEW p \in Live
       PROVE  /\ ListOk(head[p], chain'[p], next', Own \cup {c})
              /\ chain'[p] \in Seq(Cells)
              /\ \A i \in DOMAIN chain'[p] : data'[chain'[p][i]] \in Msgs
              /\ head[p] # c /\ c \notin CellsOf(p)
              /\ \A x \in CellsOf(p)' :
                   x \in CellsOf(p) \/ (x = c /\ tail[q] \in CellsOf(p))
              /\ \A i \in DOMAIN Delivered(p)' :
                   \/ i \in DOMAIN Delivered(p) /\ Delivered(p)'[i] = Delivered(p)[i]
                   \/ /\ tail[q] \in CellsOf(p) /\ Delivered(p)'[i] = m
                      /\ \A j \in DOMAIN Delivered(p)' : ~(i < j)
                      /\ i = Len(output[p]) + Len(chain'[p])
              /\ \A i \in DOMAIN Delivered(p)' : i \in Nat
              /\ tail[q] \notin CellsOf(p) => Delivered(p)' = Delivered(p)
  BY <1>0, <1>1, EnqueueKeepsList
<1>4. \A p \in Queues : chain'[p] \in Seq(Cells)
  BY <1>3, <1>20
<1>5. TypeOK'
  BY <1>0, <1>1, <1>4, EnqueueTyped
<1>6. ASSUME NEW p \in held' PROVE chain'[p] = <<>>
  BY <1>1, <1>3, <1>6 DEF Live, TypeOK
<1>7. ASSUME NEW p \in Live, tail[q] \notin CellsOf(p) PROVE chain'[p] = chain[p]
  BY <1>0, <1>1, <1>7, EnqueueLinks
<1>8. ASSUME NEW p \in Live PROVE QueueOk(p)'
  <2>1. /\ ListOk(head'[p], chain'[p], next', Own')
        /\ \A i \in DOMAIN chain'[p] : data'[chain'[p][i]] \in Msgs
    BY <1>1, <1>20
  <2>2. ASSUME NEW r \in Live, tail'[p] = head'[r]
        PROVE  r = p /\ Len(chain'[p]) = 0
    <3>1. p # q
      BY <1>1, <2>2, <1>20
    <3>2. tail[p] = head[r] /\ QueueOk(p) /\ QueueOk(q)
      BY <1>1, <2>2, <3>1, LiveQueue DEF IInv
    <3>3. r = p /\ Len(chain[p]) = 0
      BY <3>2 DEF QueueOk
    <3>4. tail[q] # head[p]
      BY <3>1, <3>2 DEF QueueOk
    <3>5. CellsOf(p) = {head[p]}
      BY <3>3, LiveQueue, CellsAre
    <3> QED BY <3>3, <3>4, <3>5, <1>7
  <2> QED BY <2>1, <2>2, <1>1 DEF QueueOk
<1>9. Apart'
  <2> SUFFICES ASSUME NEW p \in Live, NEW r \in Live, p # r,
                      NEW x, x \in CellsOf(p)', x \in CellsOf(r)'
               PROVE  FALSE
    BY <1>1 DEF Apart
  <2>1. /\ x \in CellsOf(p) \/ (x = c /\ tail[q] \in CellsOf(p))
        /\ x \in CellsOf(r) \/ (x = c /\ tail[q] \in CellsOf(r))
        /\ c \notin CellsOf(p) /\ c \notin CellsOf(r)
    BY <1>1, <1>20
  <2>2. CellsOf(p) \cap CellsOf(r) = {}
    BY DEF IInv, Apart
  <2> QED BY <2>1, <2>2
<1>10. InTurn(Deliveries, turn, turns)'
  <2> DEFINE x == CHOOSE p \in Live : tail[q] \in CellsOf(p)
  <2>1. ASSUME NEW p \in Live, tail[q] \in CellsOf(p) PROVE p = x
    <3>1. x \in Live /\ tail[q] \in CellsOf(x)
      BY <2>1
    <3> QED BY <2>1, <3>1 DEF IInv, Apart
  <2> HIDE DEF x
  <2>2. ASSUME NEW p \in Queues, NEW i \in DOMAIN Deliveries'[p]
        PROVE  \/ i \in DOMAIN Deliveries[p] /\ Deliveries'[p][i] = Deliveries[p][i]
               \/ /\ p = x /\ Deliveries'[p][i] = m
                  /\ \A j \in DOMAIN Deliveries'[p] : ~(i < j)
    <3>1. Deliveries'[p] = Delivered(p)' /\ Deliveries[p] = Delivered(p)
      BY DEF Deliveries
    <3>2. CASE p \in Live
      BY <3>1, <3>2, <2>1, <1>20
    <3>3. CASE p \notin Live
      <4>1. Delivered(p)' = Delivered(p)
        BY <3>3, <1>3
      <4> QED BY <3>1, <4>1
    <3> QED BY <3>2, <3>3
  <2>3. turn \in [Msgs -> Nat] /\ turns \in Nat /\ InTurn(Deliveries, turn, turns)
    BY DEF IInv, TypeOK
  <2>4. turn' = [turn EXCEPT ![m] = turns + 1] /\ turns' = turns + 1
    BY <1>0 DEF EnqueueTo, Enqueued
  <2>5. InTurn(Deliveries', [turn EXCEPT ![m] = turns + 1], turns + 1)
    <3> DEFINE d == Deliveries
               d2 == Deliveries'
    <3>1. turn \in [Msgs -> Nat]
      BY <2>3
    <3>2. turns \in Nat
      BY <2>3
    <3>3. InTurn(d, turn, turns)
      BY <2>3
    <3>4. turn[m] = 0
      BY <1>1
    <3>5. ComesLast(d, d2, m, x)
      BY <2>2 DEF ComesLast
    <3> HIDE DEF d, d2
    <3>7. InTurn(d2, [turn EXCEPT ![m] = turns + 1], turns + 1)
      BY <3>1, <3>2, <3>3, <3>4, <3>5, InTurnStep
    <3> QED BY <3>7 DEF d2
  <2> QED BY <2>4, <2>5 DEF InTurn
<1>11. ASSUME q \notin struck, tail[q] \in CellsOf(q)
       PROVE  /\ tail[q] = LastCell(q)
              /\ Len(sent[q]) = Len(output[q]) + Len(chain[q])
              /\ Len(chain'[q]) = Len(chain[q]) + 1
              /\ chain'[q][Len(chain[q]) + 1] = c
  <2>1. /\ chain[q] \in Seq(Cells) /\ Len(chain[q]) \in Nat
        /\ ListOk(head[q], chain[q], next, Own) /\ c \in Cells
        /\ CellAt(q, Len(chain[q])) = LastCell(q)
    BY <1>1, LiveQueue, LenProperties
  <2>2. TailOk(q)
    BY <1>1, <1>11 DEF IInv
  <2>3. ~(Len(chain[q]) = 0 /\ tail[q] # head[q])
    BY <1>11, <2>1, CellsAre
  <2>4. /\ tail[q] = LastCell(q)
        /\ Len(sent[q]) = Len(output[q]) + Len(chain[q])
    BY <2>2, <2>3 DEF TailOk
  <2>5. PICK i \in 0 .. Len(chain[q]) :
          CellAt(q, i) = tail[q] /\ chain'[q] = Append(SubSeq(chain[q], 1, i), c)
    BY <1>0, <1>1, <1>11, EnqueueLinks
  <2>6. i = Len(chain[q])
    <3>1. Len(chain[q]) \in 0 .. Len(chain[q])
      BY <2>1
    <3> QED BY <3>1, <2>1, <2>4, <2>5, PlacesDiffer
  <2>7. Len(chain'[q]) = i + 1 /\ chain'[q][i + 1] = c
    BY <2>1, <2>5, JoinedIs
  <2> QED BY <2>4, <2>6, <2>7
<1>12. Len(sent'[q]) = Len(sent[q]) + 1 /\ Len(sent[q]) \in Nat /\ sent[q] \in Seq(Msgs)
       /\ sent'[q][Len(sent[q]) + 1] = m
       /\ \A i \in DOMAIN sent[q] : i \in DOMAIN sent'[q] /\ sent'[q][i] = sent[q][i]
       /\ Len(sent[q]) + 1 \in DOMAIN sent'[q]
  <2>1. sent[q] \in Seq(Msgs)
    BY <1>1, LiveQueue
  <2>2. /\ DOMAIN sent[q] = 1 .. Len(sent[q]) /\ Len(sent[q]) \in Nat
        /\ Append(sent[q], m) \in Seq(Msgs)
        /\ Len(Append(sent[q], m)) = Len(sent[q]) + 1
        /\ \A i \in 1 .. Len(sent[q]) : Append(sent[q], m)[i] = sent[q][i]
        /\ Append(sent[q], m)[Len(sent[q]) + 1] = m
    BY <2>1, LenProperties, AppendProperties
  <2>3. DOMAIN Append(sent[q], m) = 1 .. Len(sent[q]) + 1
    BY <2>2, LenProperties
  <2> DEFINE ns == Len(sent[q])
  <2>4. ns \in Nat /\ DOMAIN sent[q] = 1 .. ns /\ DOMAIN sent'[q] = 1 .. ns + 1
    BY <1>1, <2>2, <2>3
  <2>5. (\A i \in 1 .. ns : i \in 1 .. ns + 1) /\ ns + 1 \in 1 .. ns + 1
    <3> HIDE DEF ns
    <3> QED BY <2>4
  <2> QED BY <1>1, <2>1, <2>2, <2>4, <2>5
<1>13. ASSUME NEW p \in Live \ struck' PROVE TailOk(p)'
  <2>1. p \notin struck /\ (p = q \/ tail[q] \notin CellsOf(p)) /\ TailOk(p) /\ p \in Queues
    BY <1>2 DEF IInv, Live
  <2>2. CASE p # q
    <3>1. chain'[p] = chain[p] /\ tail'[p] = tail[p] /\ sent'[p] = sent[p]
      BY <1>1, <1>7, <2>1, <2>2
    <3>2. LastCell(p)' = LastCell(p)
      BY <1>1, <3>1 DEF LastCell, CellAt
    <3> QED BY <1>1, <2>1, <3>1, <3>2 DEF TailOk
  <2>3. CASE p = q /\ tail[q] \in CellsOf(q)
    <3>1. LastCell(q)' = chain'[q][Len(chain'[q])] /\ Len(chain[q]) \in Nat
      <4>1. Len(chain[q]) \in Nat
        BY <1>1, LiveQueue, LenProperties
      <4>2. Len(chain'[q]) = Len(chain[q]) + 1
        BY <2>1, <2>3, <1>11
      <4>3. Len(chain'[q]) # 0
        <5> DEFINE n == Len(chain[q])
        <5>1. n \in Nat /\ Len(chain'[q]) = n + 1
          BY <4>1, <4>2
        <5> HIDE DEF n
        <5> QED BY <5>1
      <4> QED BY <4>1, <4>3 DEF LastCell, CellAt
    <3>2. tail'[q] = LastCell(q)'
      BY <3>1, <1>1, <1>11, <2>1, <2>3
    <3>3. Len(sent'[q]) = Len(output'[q]) + Len(chain'[q])
      <4> DEFINE n == Len(chain[q])
                 o == Len(output[q])
      <4>1. n \in Nat /\ o \in Nat
        BY <3>1, <1>1, LiveQueue, LenProperties
      <4>2. Len(sent'[q]) = (o + n) + 1 /\ Len(output'[q]) = o /\ Len(chain'[q]) = n + 1
        BY <1>1, <1>11, <1>12, <2>1, <2>3
      <4> HIDE DEF n, o
      <4> QED BY <4>1, <4>2
    <3> QED BY <3>2, <3>3, <2>3 DEF TailOk
  <2>4. CASE p = q /\ tail[q] \notin CellsOf(q)
    <3>1. chain'[q] = chain[q]
      BY <1>7, <2>1, <2>4
    <3>2. Len(chain[q]) = 0
      <4>1. LastCell(q) \in CellsOf(q)
        <5>1. Len(chain[q]) \in 0 .. Len(chain[q])
          BY <1>1, LiveQueue, LenProperties
        <5> QED BY <5>1 DEF LastCell, CellsOf
      <4> QED BY <4>1, <2>1, <2>4 DEF TailOk
    <3>3. tail'[q] # head'[q]
      BY <1>1, <1>20
    <3> QED BY <3>1, <3>2, <3>3, <2>4 DEF TailOk
  <2> QED BY <2>1, <2>2, <2>3, <2>4
<1>14. ASSUME NEW p \in Queues \ struck' PROVE Begins(Delivered(p)', sent'[p])
  <2>1. p \notin struck /\ Begins(Delivered(p), sent[p])
    BY <1>2 DEF IInv
  <2>2. CASE p # q
    <3>1. Delivered(p)' = Delivered(p)
      <4>1. CASE p \in Live
        <5>1. tail[q] \notin CellsOf(p)
          BY <1>2, <2>2, <4>1
        <5> QED BY <5>1, <4>1, <1>1, <1>20
      <4>2. CASE p \notin Live
        BY <4>2, <1>3
      <4> QED BY <4>1, <4>2
    <3> QED BY <3>1, <2>1, <2>2, <1>1
  <2>3. CASE p = q
    <3> SUFFICES ASSUME NEW i \in DOMAIN Delivered(q)'
                 PROVE  i \in DOMAIN sent'[q] /\ Delivered(q)'[i] = sent'[q][i]
      BY <2>3 DEF Begins
    <3>1. CASE i \in DOMAIN Delivered(q) /\ Delivered(q)'[i] = Delivered(q)[i]
      BY <3>1, <2>1, <2>3, <1>12 DEF Begins
    <3>2. CASE /\ tail[q] \in CellsOf(q) /\ Delivered(q)'[i] = m
               /\ i = Len(output[q]) + Len(chain'[q])
      <4> DEFINE n == Len(chain[q])
                 o == Len(output[q])
      <4>1. n \in Nat /\ o \in Nat
        BY <1>1, LiveQueue, LenProperties
      <4>2. i = o + (n + 1) /\ Len(sent[q]) = o + n
        BY <3>2, <2>1, <2>3, <1>11
      <4> HIDE DEF n, o
      <4>3. i = Len(sent[q]) + 1
        BY <4>1, <4>2
      <4> QED BY <4>3, <3>2, <1>12
    <3> QED BY <3>1, <3>2, <1>1, <1>20
  <2> QED BY <2>2, <2>3
<1> QED BY <1>1, <1>5, <1>6, <1>8, <1>9, <1>10, <1>13, <1>14 DEF IInv


\* What dequeue_message works on.
LEMMA DequeueFirst ==
  ASSUME IInv, NEW q \in Queues, Dequeue(q)
  PROVE  LET e == chain[q][1] IN
         /\ q \in Live
         /\ chain[q] # <<>> /\ Len(chain[q]) \in Nat \ {0}
         /\ 1 \in DOMAIN chain[q]
         /\ e \in Cells /\ e \in Own /\ e \in CellsOf(q) /\ data[e] \in Msgs
         /\ next[head[q]] = e
         /\ next' = [next EXCEPT ![head[q]] = next[e], ![e] = NULL]
         /\ output' = [output EXCEPT ![q] = Append(@, data[e])]
         /\ allocated' = allocated \ {e}
         /\ Own' = Own \ {e}
         /\ chain' = [chain EXCEPT ![q] = Tail(@)]
         /\ chain'[q] = Tail(chain[q])
         /\ Live' = Live
<1>1. q \in Live
  BY DEF Dequeue, Live
<1>2. /\ ListOk(head[q], chain[q], next, Own) /\ chain[q] \in Seq(Cells)
      /\ next[head[q]] # NULL /\ CellsOf(q) \subseteq Own
  BY <1>1, LiveQueue DEF Dequeue
<1>3. Len(chain[q]) # 0 /\ next[head[q]] = chain[q][1]
  BY <1>2 DEF ListOk
<1>4. Len(chain[q]) \in Nat \ {0} /\ DOMAIN chain[q] = 1 .. Len(chain[q])
  BY <1>2, <1>3, LenProperties
<1>5. 1 \in DOMAIN chain[q] /\ chain[q][1] \in Cells
  <2> DEFINE n == Len(chain[q])
  <2>1. n \in Nat \ {0} /\ DOMAIN chain[q] = 1 .. n
    BY <1>4
  <2> HIDE DEF n
  <2>2. 1 \in 1 .. n
    BY <2>1
  <2>3. 1 \in 1 .. Len(chain[q])
    BY <2>2 DEF n
  <2> QED BY <2>1, <2>2, <2>3, <1>2, ElementOfSeq
<1>6. chain[q][1] \in CellsOf(q) /\ data[chain[q][1]] \in Msgs
  BY <1>1, <1>2, <1>5, CellsAre, LiveQueue
<1>7. chain[q] # <<>>
  <2>1. Len(<<>>) = 0
    OBVIOUS
  <2> QED BY <2>1, <1>3
<1>8. chain' = [chain EXCEPT ![q] = Tail(@)] /\ chain'[q] = Tail(chain[q])
  BY DEF Dequeue, IInv, TypeOK
<1>9. /\ next' = [next EXCEPT ![head[q]] = next[chain[q][1]], ![chain[q][1]] = NULL]
      /\ output' = [output EXCEPT ![q] = Append(@, data[chain[q][1]])]
      /\ allocated' = allocated \ {chain[q][1]}
      /\ Live' = Live /\ foreign' = foreign
  BY <1>3 DEF Dequeue, Live
<1>10. Own' = Own \ {chain[q][1]}
  BY <1>9 DEF Own
<1> QED BY <1>1, <1>2, <1>3, <1>4, <1>5, <1>6, <1>7, <1>8, <1>9, <1>10

\* The list behind the element taken, and what there is to deliver.
LEMMA DequeueTail ==
  ASSUME IInv, NEW q \in Queues, Dequeue(q)
  PROVE  LET n == Len(chain[q])
             o == Len(output[q])
         IN  /\ n \in Nat \ {0} /\ o \in Nat
             /\ chain'[q] \in Seq(Cells) /\ Len(chain'[q]) = n - 1
             /\ DOMAIN chain'[q] = 1 .. n - 1
             /\ \A i \in 1 .. n - 1 : /\ i + 1 \in DOMAIN chain[q]
                                      /\ chain'[q][i] = chain[q][i + 1]
             /\ output'[q] \in Seq(Msgs) /\ Len(output'[q]) = o + 1
             /\ \A i \in DOMAIN Delivered(q)' :
                  i \in DOMAIN Delivered(q) /\ Delivered(q)'[i] = Delivered(q)[i]
<1> DEFINE n == Len(chain[q])
           o == Len(output[q])
           n2 == Len(chain'[q])
           cs2 == Contents(q)'
           out2 == output'[q]
<1>1. /\ q \in Live /\ chain[q] # <<>> /\ n \in Nat \ {0}
      /\ data[chain[q][1]] \in Msgs /\ chain'[q] = Tail(chain[q])
  BY DequeueFirst
<1>2. output'[q] = Append(output[q], data[chain[q][1]]) /\ data' = data
  <2>1. /\ output' = [output EXCEPT ![q] = Append(@, data[chain[q][1]])]
        /\ output \in [Queues -> Seq(Msgs)]
    BY DequeueFirst DEF IInv, TypeOK
  <2> QED BY <2>1 DEF Dequeue
<1>3. /\ chain[q] \in Seq(Cells) /\ output[q] \in Seq(Msgs)
      /\ \A i \in DOMAIN chain[q] : data[chain[q][i]] \in Msgs
      /\ o \in Nat
      /\ DOMAIN chain[q] = 1 .. n
  BY <1>1, LiveQueue, LenProperties
<1>4. /\ chain'[q] \in Seq(Cells) /\ n2 = n - 1 /\ DOMAIN chain'[q] = 1 .. n2
      /\ \A i \in 1 .. n2 : chain'[q][i] = chain[q][i + 1]
  BY <1>1, <1>3, HeadTailProperties, LenProperties
<1>5. /\ out2 \in Seq(Msgs) /\ Len(out2) = o + 1
      /\ \A i \in 1 .. o : out2[i] = output[q][i]
      /\ out2[o + 1] = data[chain[q][1]]
  BY <1>1, <1>2, <1>3, AppendProperties
<1>6. /\ DOMAIN Delivered(q) = 1 .. o + n
      /\ \A i \in 1 .. o : Delivered(q)[i] = output[q][i]
      /\ \A i \in 1 .. n : Delivered(q)[o + i] = data[chain[q][i]]
  BY <1>3, DeliveredIs
<1>7. cs2 = [i \in 1 .. n2 |-> data[chain'[q][i]]]
  BY <1>2 DEF Contents
<1> HIDE DEF n, o, n2, cs2
<1>8. n2 \in Nat /\ \A i \in 1 .. n2 : i + 1 \in 1 .. n
  BY <1>1, <1>4
<1>9. \A i \in 1 .. n2 : data[chain'[q][i]] \in Msgs
  BY <1>3, <1>4, <1>8
<1>10. cs2 \in [1 .. n2 -> Msgs] /\ \A i \in 1 .. n2 : cs2[i] = data[chain'[q][i]]
  BY <1>7, <1>9
<1>11. Delivered(q)' = out2 \o cs2
  BY DEF Delivered, cs2
<1> HIDE DEF out2
<1>12. n2 \in Nat
  BY <1>8
<1>13. cs2 \in [1 .. n2 -> Msgs]
  BY <1>10
<1>14. out2 \in Seq(Msgs)
  BY <1>5
<1>15. /\ DOMAIN (out2 \o cs2) = 1 .. Len(out2) + n2
       /\ \A i \in 1 .. Len(out2) : (out2 \o cs2)[i] = out2[i]
       /\ \A i \in 1 .. n2 : (out2 \o cs2)[Len(out2) + i] = cs2[i]
  BY ZenonT(30), <1>12, <1>13, <1>14, OneByOne
<1>16. /\ DOMAIN Delivered(q)' = 1 .. (o + 1) + n2
       /\ \A i \in 1 .. o + 1 : Delivered(q)'[i] = out2[i]
       /\ \A i \in 1 .. n2 : Delivered(q)'[(o + 1) + i] = data[chain[q][i + 1]]
  <2>1. Len(out2) = o + 1
    BY <1>5
  <2>2. DOMAIN (out2 \o cs2) = 1 .. (o + 1) + n2
    BY <1>15, <2>1
  <2>3. \A i \in 1 .. o + 1 : (out2 \o cs2)[i] = out2[i]
    BY <1>15, <2>1
  <2>4. \A i \in 1 .. n2 : (out2 \o cs2)[(o + 1) + i] = cs2[i]
    BY <1>15, <2>1
  <2>5. \A i \in 1 .. n2 : cs2[i] = data[chain[q][i + 1]]
    BY <1>4, <1>10
  <2> QED BY <2>2, <2>3, <2>4, <2>5, <1>11
<1>17. ASSUME NEW i \in DOMAIN Delivered(q)'
       PROVE  i \in DOMAIN Delivered(q) /\ Delivered(q)'[i] = Delivered(q)[i]
  <2>1. i \in 1 .. (o + 1) + n2
    BY <1>16
  <2>2. i \in 1 .. o + n
    BY <2>1, <1>1, <1>3, <1>4
  <2>3. CASE i \in 1 .. o
    <3>1. i \in 1 .. o + 1
      BY <2>3, <1>3
    <3> QED BY <3>1, <2>2, <2>3, <1>5, <1>6, <1>16
  <2>4. CASE i = o + 1
    <3>1. o + 1 \in 1 .. o + 1 /\ 1 \in 1 .. n
      BY <1>1, <1>3
    <3> QED BY <3>1, <2>2, <2>4, <1>5, <1>6, <1>16
  <2>5. ASSUME NEW k \in 1 .. n2, i = (o + 1) + k
        PROVE  Delivered(q)'[i] = Delivered(q)[i]
    <3>1. i = o + (k + 1) /\ k + 1 \in 1 .. n
      BY <2>5, <1>3, <1>8
    <3>2. Delivered(q)'[i] = data[chain[q][k + 1]]
      BY <2>5, <1>16
    <3>3. Delivered(q)[i] = data[chain[q][k + 1]]
      BY <3>1, <1>6
    <3> QED BY <3>2, <3>3
  <2>6. i \in 1 .. o \/ i = o + 1 \/ \E k \in 1 .. n2 : i = (o + 1) + k
    <3>1. CASE i \in Nat /\ i > o + 1
      <4>1. i - (o + 1) \in 1 .. n2 /\ i = (o + 1) + (i - (o + 1))
        BY <2>1, <3>1, <1>3, <1>8
      <4> QED BY <4>1
    <3>2. CASE ~(i > o + 1)
      BY <2>1, <3>2, <1>3, <1>8
    <3>3. i \in Nat
      BY <2>1
    <3> QED BY <3>1, <3>2, <3>3
  <2>7. i \in DOMAIN Delivered(q)
    BY <2>2, <1>6
  <2> QED BY <2>3, <2>4, <2>5, <2>6, <2>7
<1>18. \A i \in 1 .. n - 1 : i + 1 \in DOMAIN chain[q] /\ chain'[q][i] = chain[q][i + 1]
  BY <1>3, <1>4, <1>8
<1>19. DOMAIN chain'[q] = 1 .. n - 1 /\ n2 = n - 1
  BY <1>4
<1> QED BY <1>1, <1>3, <1>4, <1>5, <1>17, <1>18, <1>19 DEF n, o, n2, out2

LEMMA DequeueIInv ==
  ASSUME IInv, NEW q \in Queues, Dequeue(q)
  PROVE  IInv'
<1> DEFINE e == chain[q][1]
           n == Len(chain[q])
           o == Len(output[q])
<1>1. /\ q \in Live /\ TypeOK
      /\ head' = head /\ tail' = tail /\ held' = held /\ data' = data
      /\ foreign' = foreign /\ sent' = sent /\ turn' = turn /\ turns' = turns
      /\ struck' = struck /\ Live' = Live
      /\ length' = [length EXCEPT ![q] = @ - 1] /\ length[q] # 0
  BY DequeueFirst DEF IInv, Dequeue, history
<1>2. /\ chain[q] # <<>> /\ n \in Nat \ {0} /\ 1 \in DOMAIN chain[q]
      /\ e \in Cells /\ e \in Own /\ e \in CellsOf(q) /\ data[e] \in Msgs
      /\ next[head[q]] = e
      /\ next' = [next EXCEPT ![head[q]] = next[e], ![e] = NULL]
      /\ output' = [output EXCEPT ![q] = Append(@, data[e])]
      /\ allocated' = allocated \ {e}
      /\ Own' = Own \ {e}
      /\ chain' = [chain EXCEPT ![q] = Tail(@)]
      /\ chain'[q] = Tail(chain[q])
  BY DequeueFirst
<1>3. /\ o \in Nat
      /\ chain'[q] \in Seq(Cells) /\ Len(chain'[q]) = n - 1
      /\ DOMAIN chain'[q] = 1 .. n - 1
      /\ \A i \in 1 .. n - 1 : i + 1 \in DOMAIN chain[q] /\ chain'[q][i] = chain[q][i + 1]
      /\ output'[q] \in Seq(Msgs) /\ Len(output'[q]) = o + 1
      /\ \A i \in DOMAIN Delivered(q)' :
           i \in DOMAIN Delivered(q) /\ Delivered(q)'[i] = Delivered(q)[i]
  BY DequeueTail
<1>4. \A p \in Queues : p # q => chain'[p] = chain[p] /\ output'[p] = output[p]
  BY <1>1, <1>2 DEF TypeOK
<1> HIDE DEF e, n, o
<1>5. TypeOK'
  <2>1. length' \in [Queues -> Nat]
    <3>1. length[q] - 1 \in Nat
      BY <1>1 DEF TypeOK
    <3> QED BY <3>1, <1>1 DEF TypeOK
  <2>2. next' \in [Cells -> Cells \cup {NULL}]
    BY <1>1, <1>2 DEF TypeOK
  <2>3. /\ chain' \in [Queues -> Seq(Cells)] /\ output' \in [Queues -> Seq(Msgs)]
    BY <1>1, <1>2, <1>3 DEF TypeOK
  <2>4. allocated' \in SUBSET Cells /\ foreign' \in SUBSET allocated'
    BY <1>1, <1>2 DEF TypeOK, Own
  <2> QED BY <2>1, <2>2, <2>3, <2>4, <1>1 DEF TypeOK
<1>6. ASSUME NEW p \in held' PROVE chain'[p] = <<>>
  <2>1. p # q /\ p \in Queues /\ chain[p] = <<>>
    BY <1>1 DEF Live, IInv, TypeOK
  <2> QED BY <2>1, <1>4
<1>7. ASSUME NEW p \in Live, p # q
      PROVE  /\ p \in Queues /\ head[p] \notin {head[q], e}
             /\ \A i \in DOMAIN chain[p] : chain[p][i] \notin {head[q], e}
  <2>1. /\ p \in Queues /\ CellsOf(p) \cap CellsOf(q) = {}
        /\ chain[p] \in Seq(Cells) /\ chain[q] \in Seq(Cells) /\ q \in Queues
    BY <1>1, <1>7, LiveQueue DEF IInv, Apart
  <2>2. head[q] \in CellsOf(q) /\ e \in CellsOf(q)
    BY <2>1, <1>2, CellsAre
  <2> QED BY <2>1, <2>2, CellsAre
<1>8. ASSUME NEW p \in Live PROVE QueueOk(p)'
  <2>1. CASE p = q
    <3>1. /\ head[q] \in Cells /\ chain[q] \in Seq(Cells)
          /\ next \in [Cells -> Cells \cup {NULL}]
          /\ ListOk(head[q], chain[q], next, Own)
          /\ \A i \in DOMAIN chain[q] : data[chain[q][i]] \in Msgs
      BY <1>1, LiveQueue DEF TypeOK
    <3>2. ListOk(head[q], Tail(chain[q]),
                 [next EXCEPT ![head[q]] = next[chain[q][1]], ![chain[q][1]] = NULL],
                 Own \ {chain[q][1]})
      BY <3>1, <1>2, ListTail
    <3>3. ListOk(head'[q], chain'[q], next', Own')
      BY <3>2, <1>1, <1>2 DEF e
    <3>4. \A i \in DOMAIN chain'[q] : data'[chain'[q][i]] \in Msgs
      BY <3>1, <1>1, <1>3
    <3>5. \A r \in Live : tail[q] # head[r]
      BY <1>1, <1>2 DEF IInv, QueueOk, n
    <3> QED BY <3>3, <3>4, <3>5, <1>1, <2>1 DEF QueueOk
  <2>2. CASE p # q
    <3>1. /\ p \in Queues /\ head[p] \in Cells /\ chain[p] \in Seq(Cells)
          /\ ListOk(head[p], chain[p], next, Own) /\ QueueOk(p)
      BY LiveQueue DEF IInv
    <3>2. \A i \in DOMAIN chain[p] : chain[p][i] \in Cells
      BY <3>1, ElementOfSeq, LenProperties
    <3>3. /\ head[p] \in Own' /\ next'[head[p]] = next[head[p]]
          /\ \A i \in DOMAIN chain[p] :
               chain[p][i] \in Own' /\ next'[chain[p][i]] = next[chain[p][i]]
      BY <3>1, <3>2, <2>2, <1>1, <1>2, <1>7 DEF ListOk, TypeOK
    <3>4. ListOk(head[p], chain[p], next', Own')
      BY <3>1, <3>3, ListFrame
    <3> QED BY <3>1, <3>4, <2>2, <1>1, <1>4 DEF QueueOk
  <2> QED BY <2>1, <2>2
<1>9. ASSUME NEW p \in Live PROVE CellsOf(p)' \subseteq CellsOf(p)
  <2>1. CASE p = q
    <3> SUFFICES ASSUME NEW x \in CellsOf(q)' PROVE x \in CellsOf(q)
      BY <2>1
    <3>1. PICK i \in 0 .. Len(chain'[q]) : x = CellAt(q, i)'
      BY DEF CellsOf
    <3>2. i = 0 \/ i \in 1 .. n - 1
      BY <3>1, <1>2, <1>3
    <3>3. chain[q] \in Seq(Cells) /\ q \in Queues /\ n - 1 \in Nat
      BY <1>1, <1>2, LiveQueue
    <3>4. CASE i = 0
      <4>1. x = head[q]
        BY <3>1, <3>4, <1>1 DEF CellAt
      <4> QED BY <4>1, <3>3, CellsAre
    <3>5. CASE i \in 1 .. n - 1
      <4>1. x = chain[q][i + 1] /\ i + 1 \in DOMAIN chain[q]
        BY <3>1, <3>3, <3>5, <1>3 DEF CellAt
      <4> QED BY <4>1, <3>3, CellsAre
    <3> QED BY <3>2, <3>4, <3>5
  <2>2. CASE p # q
    <3>1. chain'[p] = chain[p] /\ head' = head
      BY <2>2, <1>1, <1>4 DEF Live
    <3> QED BY <3>1 DEF CellsOf, CellAt
  <2> QED BY <2>1, <2>2
<1>10. Apart'
  BY <1>1, <1>9 DEF IInv, Apart
<1>11. ASSUME NEW p \in Queues
       PROVE  \A i \in DOMAIN Delivered(p)' :
                i \in DOMAIN Delivered(p) /\ Delivered(p)'[i] = Delivered(p)[i]
  <2>1. CASE p # q
    <3>1. Contents(p)' = Contents(p)
      BY <2>1, <1>1, <1>4 DEF Contents
    <3>2. Delivered(p)' = Delivered(p)
      BY <2>1, <3>1, <1>4 DEF Delivered
    <3> QED BY <3>2
  <2> QED BY <2>1, <1>3
<1>12. InTurn(Deliveries, turn, turns)'
  <2> DEFINE d == Deliveries
             d2 == Deliveries'
  <2>1. InTurn(d, turn, turns)
    BY DEF IInv
  <2>2. \A p \in Queues : \A i \in DOMAIN d2[p] : i \in DOMAIN d[p] /\ d2[p][i] = d[p][i]
    BY <1>11 DEF Deliveries
  <2> HIDE DEF d, d2
  <2>3. InTurn(d2, turn, turns)
    BY <2>1, <2>2, InTurnCut
  <2>4. InTurn(Deliveries', turn', turns')
    BY <2>3, <1>1 DEF d2
  <2> QED BY <2>4 DEF InTurn
<1>13. ASSUME NEW p \in Live \ struck PROVE TailOk(p)'
  <2>1. TailOk(p) /\ p \in Queues
    BY DEF IInv, Live
  <2>2. CASE p # q
    <3>1. LastCell(p)' = LastCell(p)
      BY <2>1, <2>2, <1>1, <1>4 DEF LastCell, CellAt
    <3> QED BY <2>1, <2>2, <3>1, <1>1, <1>4 DEF TailOk
  <2>3. CASE p = q
    <3>1. tail[q] = LastCell(q) /\ Len(sent[q]) = o + n
      BY <2>1, <2>3, <1>2 DEF TailOk, n, o
    <3>2. LastCell(q) = chain[q][n] /\ n \in DOMAIN chain[q]
      <4>1. DOMAIN chain[q] = 1 .. n /\ n \in 1 .. n
        <5>1. DOMAIN chain[q] = 1 .. n
          BY <1>1, LiveQueue, LenProperties DEF n
        <5> QED BY <5>1, <1>2
      <4> QED BY <4>1, <1>2 DEF LastCell, CellAt, n
    <3>3. tail[q] # head[q]
      BY <3>1, <3>2, <1>1, LiveQueue DEF ListOk
    <3>4. CASE n = 1
      <4>1. Len(chain'[q]) = 0
        BY <3>4, <1>3
      <4> QED BY <4>1, <3>3, <2>3, <1>1 DEF TailOk
    <3>5. CASE n # 1
      <4>1. n - 1 \in 1 .. n - 1 /\ n - 1 # 0 /\ (n - 1) + 1 = n
        BY <3>5, <1>2
      <4>2. LastCell(q)' = chain[q][n]
        BY <4>1, <1>3 DEF LastCell, CellAt
      <4>3. Len(sent[q]) = (o + 1) + (n - 1)
        BY <3>1, <1>2, <1>3
      <4>4. tail'[q] = LastCell(q)' /\ Len(sent'[q]) = Len(output'[q]) + Len(chain'[q])
        BY <4>2, <4>3, <3>1, <3>2, <1>1, <1>3
      <4> QED BY <4>4, <2>3 DEF TailOk
    <3> QED BY <3>4, <3>5
  <2> QED BY <2>2, <2>3
<1>14. \A p \in Queues \ struck : Begins(Delivered(p)', sent[p])
  BY <1>11 DEF IInv, Begins
<1> QED BY <1>1, <1>5, <1>6, <1>8, <1>10, <1>12, <1>13, <1>14 DEF IInv

LEMMA DeleteIInv ==
  ASSUME IInv, NEW q \in Queues, Delete(q)
  PROVE  IInv'
<1>1. /\ q \in Live /\ q \notin held /\ TypeOK
      /\ head' = head /\ tail' = tail /\ data' = data /\ length' = length
      /\ foreign' = foreign /\ sent' = sent /\ turn' = turn /\ turns' = turns
      /\ struck' = struck /\ output' = output
      /\ held' = held \cup {q} /\ Live' = Live \ {q}
      /\ next' = [next EXCEPT ![head[q]] = NULL]
      /\ chain' = [chain EXCEPT ![q] = <<>>]
      /\ allocated' = allocated \ CellsOf(q) /\ Own' = Own \ CellsOf(q)
  BY DEF IInv, Delete, Live, Own, history
<1>2. /\ chain'[q] = <<>>
      /\ \A p \in Queues : p # q => chain'[p] = chain[p]
  BY <1>1 DEF TypeOK
<1>3. TypeOK'
  <2>1. CellsOf(q) \subseteq Own
    BY <1>1, LiveQueue
  <2>2. allocated' \in SUBSET Cells /\ foreign' \in SUBSET allocated'
    BY <2>1, <1>1 DEF TypeOK, Own
  <2>3. next' \in [Cells -> Cells \cup {NULL}]
    BY <1>1 DEF TypeOK
  <2>4. chain' \in [Queues -> Seq(Cells)]
    <3>1. <<>> \in Seq(Cells)
      OBVIOUS
    <3> QED BY <3>1, <1>1 DEF TypeOK
  <2>5. held' \in SUBSET Queues
    BY <1>1 DEF TypeOK
  <2> QED BY <2>2, <2>3, <2>4, <2>5, <1>1 DEF TypeOK
<1>4. \A p \in held' : chain'[p] = <<>>
  <2> SUFFICES ASSUME NEW p \in held' PROVE chain'[p] = <<>>
    OBVIOUS
  <2>1. CASE p = q
    BY <2>1, <1>2
  <2>2. CASE p # q
    <3>1. p \in held /\ p \in Queues
      BY <2>2, <1>1 DEF TypeOK
    <3> QED BY <3>1, <2>2, <1>2 DEF IInv
  <2> QED BY <2>1, <2>2
<1>5. ASSUME NEW p \in Live, p # q
      PROVE  QueueOk(p)' /\ CellsOf(p)' = CellsOf(p)
  <2>1. /\ p \in Queues /\ head[p] \in Cells /\ chain[p] \in Seq(Cells)
        /\ ListOk(head[p], chain[p], next, Own) /\ QueueOk(p)
        /\ chain[q] \in Seq(Cells) /\ CellsOf(p) \cap CellsOf(q) = {}
    BY <1>1, <1>5, LiveQueue DEF IInv, Apart
  <2>2. /\ head[q] \in CellsOf(q) /\ head[p] \in CellsOf(p)
        /\ \A i \in DOMAIN chain[p] : chain[p][i] \in CellsOf(p) /\ chain[p][i] \in Cells
    <3>1. \A i \in DOMAIN chain[p] : chain[p][i] \in Cells
      BY <2>1, ElementOfSeq, LenProperties
    <3> QED BY <2>1, <3>1, CellsAre
  <2>3. /\ head[p] \in Own' /\ next'[head[p]] = next[head[p]]
        /\ \A i \in DOMAIN chain[p] :
             chain[p][i] \in Own' /\ next'[chain[p][i]] = next[chain[p][i]]
    BY <2>1, <2>2, <1>1 DEF ListOk, TypeOK
  <2>4. ListOk(head[p], chain[p], next', Own')
    BY <2>1, <2>3, ListFrame
  <2>5. chain'[p] = chain[p]
    BY <2>1, <1>2, <1>5
  <2> QED BY <2>1, <2>4, <2>5, <1>1 DEF QueueOk, CellsOf, CellAt
<1>6. \A p \in Live' : QueueOk(p)'
  BY <1>1, <1>5
<1>7. Apart'
  BY <1>1, <1>5 DEF IInv, Apart
<1>8. ASSUME NEW p \in Queues
      PROVE  \A i \in DOMAIN Delivered(p)' :
               i \in DOMAIN Delivered(p) /\ Delivered(p)'[i] = Delivered(p)[i]
  <2>1. CASE p # q
    <3>1. Contents(p)' = Contents(p)
      BY <2>1, <1>1, <1>2 DEF Contents
    <3>2. Delivered(p)' = Delivered(p)
      BY <3>1, <1>1 DEF Delivered
    <3> QED BY <3>2
  <2>2. CASE p = q
    <3> DEFINE n == Len(chain[q])
               o == Len(output[q])
    <3>1. Contents(q)' = <<>> /\ output[q] \in Seq(Msgs)
      BY <1>1, <1>2 DEF Contents, TypeOK
    <3>2. Delivered(q)' = output[q]
      BY <3>1, <1>1 DEF Delivered
    <3>3. /\ DOMAIN Delivered(q) = 1 .. o + n /\ n \in Nat /\ o \in Nat
          /\ \A i \in 1 .. o : Delivered(q)[i] = output[q][i]
      BY <1>1, LiveQueue, DeliveredIs
    <3>4. DOMAIN output[q] = 1 .. o
      BY <3>1, LenProperties
    <3> HIDE DEF n, o
    <3>5. \A i \in 1 .. o : i \in 1 .. o + n
      BY <3>3
    <3> QED BY <2>2, <3>2, <3>3, <3>4, <3>5
  <2> QED BY <2>1, <2>2
<1>9. InTurn(Deliveries, turn, turns)'
  <2> DEFINE d == Deliveries
             d2 == Deliveries'
  <2>1. InTurn(d, turn, turns)
    BY DEF IInv
  <2>2. \A p \in Queues : \A i \in DOMAIN d2[p] : i \in DOMAIN d[p] /\ d2[p][i] = d[p][i]
    BY <1>8 DEF Deliveries
  <2> HIDE DEF d, d2
  <2>3. InTurn(d2, turn, turns)
    BY <2>1, <2>2, InTurnCut
  <2>4. InTurn(Deliveries', turn', turns')
    BY <2>3, <1>1 DEF d2
  <2> QED BY <2>4 DEF InTurn
<1>10. ASSUME NEW p \in Live' \ struck' PROVE TailOk(p)'
  <2>1. p \in Live \ struck /\ p # q /\ p \in Queues
    BY <1>1 DEF Live
  <2>2. chain'[p] = chain[p] /\ TailOk(p)
    BY <2>1, <1>2 DEF IInv
  <2>3. LastCell(p)' = LastCell(p)
    BY <2>2, <1>1 DEF LastCell, CellAt
  <2> QED BY <2>2, <2>3, <1>1 DEF TailOk
<1>11. \A p \in Queues \ struck : Begins(Delivered(p)', sent[p])
  BY <1>8 DEF IInv, Begins
<1> QED BY <1>1, <1>3, <1>4, <1>6, <1>7, <1>9, <1>10, <1>11 DEF IInv

\* Other code of the process takes cells that are free, and gives back its own:
\* nothing changes that the queues own.
LEMMA ForeignIInv ==
  ASSUME IInv, UNCHANGED <<pointers, next, data, chain, output, history>>,
         Own' = Own, foreign' \in SUBSET allocated', allocated' \in SUBSET Cells
  PROVE  IInv'
<1>1. /\ head' = head /\ tail' = tail /\ length' = length /\ held' = held
      /\ next' = next /\ data' = data /\ chain' = chain /\ output' = output
      /\ sent' = sent /\ turn' = turn /\ turns' = turns /\ struck' = struck
  BY DEF pointers, history
<1>2. TypeOK'
  BY <1>1 DEF IInv, TypeOK
<1>3. \A q \in Live : QueueOk(q)'
  BY <1>1 DEF IInv, QueueOk, Live
<1>4. Live' = Live /\ Apart'
  <2>1. \A q \in Queues : CellsOf(q)' = CellsOf(q)
    BY <1>1 DEF CellsOf, CellAt
  <2>2. Live' = Live /\ Live \subseteq Queues
    BY <1>1 DEF Live
  <2>3. Apart
    BY DEF IInv
  <2> QED BY <2>1, <2>2, <2>3 DEF Apart
<1>5. ASSUME NEW q \in Queues PROVE Delivered(q)' = Delivered(q)
  <2>1. Contents(q)' = Contents(q)
    BY <1>1 DEF Contents
  <2> QED BY <2>1, <1>1 DEF Delivered
<1>6. Deliveries' = Deliveries
  BY <1>5 DEF Deliveries
<1>7. InTurn(Deliveries, turn, turns)'
  BY <1>1, <1>6 DEF IInv, InTurn
<1>8. \A q \in Live \ struck : TailOk(q)'
  BY <1>1 DEF IInv, TailOk, LastCell, CellAt
<1>9. \A q \in Queues \ struck : Begins(Delivered(q)', sent[q])
  BY <1>5 DEF IInv, Begins
<1>10. \A q \in held : chain'[q] = <<>>
  BY <1>1 DEF IInv
<1> QED BY <1>1, <1>2, <1>3, <1>4, <1>7, <1>8, <1>9, <1>10 DEF IInv

LEMMA NextIInv == IInv /\ [Next]_vars => IInv'
<1> SUFFICES ASSUME IInv, [Next]_vars PROVE IInv'
  OBVIOUS
<1>1. CASE UNCHANGED vars
  BY <1>1, ForeignIInv DEF vars, pointers, history, Own, IInv, TypeOK
<1>2. ASSUME NEW q \in Queues, NEW m \in Msgs, Enqueue(q, m) PROVE IInv'
  BY <1>2, EnqueueIInv
<1>3. ASSUME NEW q \in Queues, Dequeue(q) PROVE IInv'
  BY <1>3, DequeueIInv
<1>4. ASSUME NEW q \in Queues, Delete(q) PROVE IInv'
  BY <1>4, DeleteIInv
<1>5. ASSUME NEW c \in Cells, AllocateForeign(c) \/ FreeForeign(c) PROVE IInv'
  <2>1. UNCHANGED <<pointers, next, data, chain, output, history>>
    BY <1>5 DEF AllocateForeign, FreeForeign
  <2>2. Own' = Own /\ foreign' \in SUBSET allocated' /\ allocated' \in SUBSET Cells
    BY <1>5 DEF AllocateForeign, FreeForeign, Own, IInv, TypeOK
  <2> QED BY <2>1, <2>2, ForeignIInv
<1> QED BY <1>1, <1>2, <1>3, <1>4, <1>5 DEF Next

-----------------------------------------------------------------------------
(***************************************************************************)
(* The theorems.                                                           *)
(***************************************************************************)
\* In every reachable state of the queues of lib/cc_queue.c the strengthening
\* holds; the theorems below follow from it.
THEOREM Invariance == Spec => []IInv
<1>1. IInv /\ [Next]_vars => IInv'
  BY NextIInv
<1> QED BY <1>1, InitIInv, PTL DEF Spec

\* Every state of the queues is well typed; in particular length, which
\* dequeue_message decrements, never goes below zero.
THEOREM TypeCorrect == Spec => []TypeOK
<1>1. IInv => TypeOK
  BY DEF IInv
<1> QED BY <1>1, Invariance, PTL

\* However many queues and cells there are and whoever else uses the heap, the
\* list from the head of a queue is made of different cells of its own and
\* ends, although enqueue_message writes through tails that may point to freed
\* cells and into the lists of other queues.
THEOREM ListStaysWellFormed == Spec => []ListWellFormed
<1>1. ASSUME IInv PROVE ListWellFormed
  <2>1. ASSUME NEW q \in Queues \ held, NEW i \in 0 .. Len(chain[q])
        PROVE  /\ CellAt(q, i) \in allocated \ foreign
               /\ next[CellAt(q, i)] = IF i = Len(chain[q]) THEN NULL
                                                      ELSE CellAt(q, i + 1)
               /\ \A k \in 0 .. Len(chain[q]) :
                    CellAt(q, i) = CellAt(q, k) => i = k
    <3>1. /\ ListOk(head[q], chain[q], next, Own) /\ chain[q] \in Seq(Cells)
          /\ CellsOf(q) \subseteq Own
      BY <1>1, LiveQueue DEF Live
    <3>2. CellAt(q, i) \in allocated \ foreign
      BY <3>1 DEF CellsOf, Own
    <3>3. DOMAIN chain[q] = 1 .. Len(chain[q]) /\ Len(chain[q]) \in Nat
      BY <3>1, LenProperties
    <3>4. next[CellAt(q, i)] = IF i = Len(chain[q]) THEN NULL ELSE CellAt(q, i + 1)
      <4>1. CASE i = 0
        BY <4>1, <3>1, <3>3 DEF CellAt, ListOk
      <4>2. CASE i # 0
        <5>1. i \in DOMAIN chain[q] /\ i + 1 # 0
          BY <4>2, <3>3
        <5> QED BY <5>1, <4>2, <3>1 DEF CellAt, ListOk
      <4> QED BY <4>1, <4>2
    <3>5. \A k \in 0 .. Len(chain[q]) : CellAt(q, i) = CellAt(q, k) => i = k
      BY <3>1, PlacesDiffer
    <3> QED BY <3>2, <3>4, <3>5
  <2>2. \A p, q \in Queues \ held : p # q => CellsOf(p) \cap CellsOf(q) = {}
    BY <1>1 DEF IInv, Apart, Live
  <2> SUFFICES ASSUME NEW q \in Queues \ held
               PROVE  /\ \A i \in 0 .. Len(chain[q]) :
                           /\ CellAt(q, i) \in allocated \ foreign
                           /\ next[CellAt(q, i)] = IF i = Len(chain[q]) THEN NULL
                                                      ELSE CellAt(q, i + 1)
                           /\ \A k \in 0 .. Len(chain[q]) :
                                CellAt(q, i) = CellAt(q, k) => i = k
                      /\ \A p \in Queues \ (held \cup {q}) :
                           CellsOf(p) \cap CellsOf(q) = {}
    BY DEF ListWellFormed
  <2> QED BY <2>1, <2>2
<1> QED BY <1>1, Invariance, PTL

\* What dequeue_message returns, and can still return, comes in the order in
\* which it was enqueued, whatever the heap did with the cells freed: nothing
\* is delivered twice, by one queue or by two, and a queue is given buffers of
\* another only after an enqueue of that one has written to its list.
THEOREM DeliveryInOrder == Spec => []DeliveredInOrder
<1>1. ASSUME IInv PROVE DeliveredInOrder
  <2>1. \A q \in Queues : Deliveries[q] = Delivered(q)
    BY DEF Deliveries
  <2>2. InTurn(Deliveries, turn, turns)
    BY <1>1 DEF IInv
  <2>3. ASSUME NEW q \in Queues, NEW i \in DOMAIN Delivered(q),
               NEW j \in DOMAIN Delivered(q), i < j
        PROVE  turn[Delivered(q)[i]] < turn[Delivered(q)[j]]
    BY <2>1, <2>2, <2>3 DEF InTurn
  <2>4. ASSUME NEW p \in Queues, NEW q \in Queues, p # q,
               NEW i \in DOMAIN Delivered(p), NEW j \in DOMAIN Delivered(q)
        PROVE  Delivered(p)[i] # Delivered(q)[j]
    BY <2>1, <2>2, <2>4 DEF InTurn
  <2>5. ASSUME NEW q \in Queues \ struck, NEW i \in DOMAIN Delivered(q)
        PROVE  i <= Len(sent[q]) /\ Delivered(q)[i] = sent[q][i]
    <3>1. i \in DOMAIN sent[q] /\ Delivered(q)[i] = sent[q][i]
      BY <1>1 DEF IInv, Begins
    <3>2. sent[q] \in Seq(Msgs)
      BY <1>1 DEF IInv, TypeOK
    <3>3. Len(sent[q]) \in Nat /\ DOMAIN sent[q] = 1 .. Len(sent[q])
      BY <3>2, LenProperties
    <3> QED BY <3>1, <3>3
  <2>6. \A q \in Queues : \A i, j \in DOMAIN Delivered(q) :
          i < j => turn[Delivered(q)[i]] < turn[Delivered(q)[j]]
    BY <2>3
  <2>7. \A p, q \in Queues : p # q =>
          \A i \in DOMAIN Delivered(p), j \in DOMAIN Delivered(q) :
            Delivered(p)[i] # Delivered(q)[j]
    BY <2>4
  <2>8. \A q \in Queues \ struck : \A i \in DOMAIN Delivered(q) :
          i <= Len(sent[q]) /\ Delivered(q)[i] = sent[q][i]
    BY <2>5
  <2> QED BY <2>6, <2>7, <2>8, Zenon DEF DeliveredInOrder
<1> QED BY <1>1, Invariance, PTL

-----------------------------------------------------------------------------
(***************************************************************************)
(* The pointers implement the queues that callers see.                     *)
(***************************************************************************)

\* A queue as its callers see it.
Picture(q) == [fifo |-> Contents(q),
               stranded |-> length[q] - Len(chain[q]),
               drained |-> tail[q] # LastCell(q)]

Pictures == [q \in Queues |-> IF q \in held THEN NULL ELSE Picture(q)]

\* What the operations of MessageQueue make of the three parts of a queue.
LEMMA EnqueuedIs ==
  ASSUME NEW f, NEW n, NEW m
  PROVE  /\ Seen!Enqueued([fifo |-> f, stranded |-> n, drained |-> FALSE], m)
              = [fifo |-> Append(f, m), stranded |-> n, drained |-> FALSE]
         /\ Seen!Enqueued([fifo |-> f, stranded |-> n, drained |-> TRUE], m)
              = [fifo |-> f, stranded |-> n + 1, drained |-> TRUE]
<1> DEFINE a == Append(f, m)
           k == n + 1
           no == FALSE
           yes == TRUE
<1>1. Seen!Enqueued([fifo |-> f, stranded |-> n, drained |-> no], m)
        = [[fifo |-> f, stranded |-> n, drained |-> no] EXCEPT !.fifo = a]
  BY DEF Seen!Enqueued
<1>2. Seen!Enqueued([fifo |-> f, stranded |-> n, drained |-> yes], m)
        = [[fifo |-> f, stranded |-> n, drained |-> yes] EXCEPT !.stranded = k]
  BY DEF Seen!Enqueued
<1> HIDE DEF a, k, no, yes
<1>3. [[fifo |-> f, stranded |-> n, drained |-> no] EXCEPT !.fifo = a]
        = [fifo |-> a, stranded |-> n, drained |-> no]
  OBVIOUS
<1>4. [[fifo |-> f, stranded |-> n, drained |-> yes] EXCEPT !.stranded = k]
        = [fifo |-> f, stranded |-> k, drained |-> yes]
  OBVIOUS
<1>5. /\ Seen!Enqueued([fifo |-> f, stranded |-> n, drained |-> no], m)
           = [fifo |-> a, stranded |-> n, drained |-> no]
      /\ Seen!Enqueued([fifo |-> f, stranded |-> n, drained |-> yes], m)
           = [fifo |-> f, stranded |-> k, drained |-> yes]
  BY <1>1, <1>2, <1>3, <1>4, Zenon
<1> QED BY <1>5 DEF a, k, no, yes

LEMMA DequeuedIs ==
  ASSUME NEW f, NEW n, NEW d, f # <<>>
  PROVE  Seen!Dequeued([fifo |-> f, stranded |-> n, drained |-> d])
           = [fifo |-> Tail(f), stranded |-> n, drained |-> d \/ Len(f) = 1]
<1> DEFINE a == Tail(f)
           b == d \/ Len(f) = 1
           r == [fifo |-> f, stranded |-> n, drained |-> d]
<1>1. r.fifo = f /\ r.drained = d
  OBVIOUS
<1>2. Seen!Dequeued(r) = [r EXCEPT !.fifo = a, !.drained = b]
  BY <1>1 DEF Seen!Dequeued
<1> HIDE DEF a, b
<1>3. [r EXCEPT !.fifo = a] = [fifo |-> a, stranded |-> n, drained |-> d]
  OBVIOUS
<1>4. [[fifo |-> a, stranded |-> n, drained |-> d] EXCEPT !.drained = b]
        = [fifo |-> a, stranded |-> n, drained |-> b]
  OBVIOUS
<1> HIDE DEF r
<1>5. [r EXCEPT !.fifo = a, !.drained = b] = [[r EXCEPT !.fifo = a] EXCEPT !.drained = b]
  OBVIOUS
<1>6. Seen!Dequeued(r) = [fifo |-> a, stranded |-> n, drained |-> b]
  BY <1>2, <1>3, <1>4, <1>5, Zenon
<1> QED BY <1>6 DEF a, b, r

\* The state of a queue that can still be used, as a picture.
LEMMA PictureIs ==
  ASSUME IInv, NEW q \in Live
  PROVE  /\ Contents(q) \in Seq(Msgs) /\ Len(Contents(q)) = Len(chain[q])
         /\ Len(chain[q]) \in Nat
         /\ \A i \in 1 .. Len(chain[q]) : Contents(q)[i] = data[chain[q][i]]
         /\ Picture(q) # NULL /\ Pictures[q] = Picture(q)
         /\ Seen!LengthOf(Picture(q)) = length[q]
<1> DEFINE n == Len(chain[q])
           l == length[q]
           cs == Contents(q)
<1>1. /\ cs \in Seq(Msgs) /\ Len(cs) = n /\ n \in Nat /\ l \in Nat
      /\ \A i \in 1 .. n : cs[i] = data[chain[q][i]]
  BY LiveQueue, DeliveredIs
<1>2. Picture(q) = [fifo |-> cs, stranded |-> l - n, drained |-> tail[q] # LastCell(q)]
  BY DEF Picture
<1> HIDE DEF n, l, cs
<1>3. Picture(q) \in Seen!QueueState
  BY <1>1, <1>2 DEF Seen!QueueState
<1>4. Picture(q) # NULL
  BY <1>3, NullAssumption
<1>5. Seen!LengthOf(Picture(q)) = l
  <2>1. Seen!LengthOf(Picture(q)) = n + (l - n)
    BY <1>1, <1>2 DEF Seen!LengthOf
  <2> QED BY <2>1, <1>1
<1>6. Pictures[q] = Picture(q)
  BY LiveQueue DEF Pictures
<1> QED BY <1>1, <1>4, <1>5, <1>6 DEF n, l, cs

\* A queue that no enqueue of another one has written to.
LEMMA EnqueueSpares ==
  ASSUME IInv, NEW q \in Live, NEW m \in Msgs, NEW c \in Cells \ allocated,
         EnqueueTo(q, m, c), NEW p \in Live, p # q, tail[q] \notin CellsOf(p)
  PROVE  Picture(p)' = Picture(p)
<1>1. /\ p \in Queues /\ q \in Queues /\ chain[p] \in Seq(Cells)
      /\ CellsOf(p) \subseteq Own
  BY LiveQueue
<1>2. chain'[p] = chain[p]
  BY EnqueueLinks
<1>3. tail'[p] = tail[p] /\ length'[p] = length[p] /\ head' = head
  BY <1>1 DEF EnqueueTo, IInv, TypeOK
<1>4. \A i \in DOMAIN chain[p] : data'[chain[p][i]] = data[chain[p][i]]
  <2>1. c \notin Own /\ data' = [data EXCEPT ![c] = m] /\ data \in [Cells -> Msgs \cup {NULL}]
    BY DEF EnqueueTo, Own, IInv, TypeOK
  <2>2. \A i \in DOMAIN chain[p] : chain[p][i] \in CellsOf(p) /\ chain[p][i] \in Cells
    BY <1>1, CellsAre, ElementOfSeq, LenProperties
  <2> QED BY <1>1, <2>1, <2>2
<1>5. Contents(p)' = Contents(p)
  <2>1. DOMAIN chain[p] = 1 .. Len(chain[p])
    BY <1>1, LenProperties
  <2> QED BY <2>1, <1>2, <1>4 DEF Contents
<1>6. LastCell(p)' = LastCell(p)
  BY <1>2, <1>3 DEF LastCell, CellAt
<1> QED BY <1>2, <1>3, <1>5, <1>6 DEF Picture

\* The list that gets the new element, behind its i-th one.
LEMMA EnqueueJoins ==
  ASSUME IInv, NEW q \in Live, NEW m \in Msgs, NEW c \in Cells \ allocated,
         EnqueueTo(q, m, c), NEW p \in Live, NEW i \in 0 .. Len(chain[p]),
         CellAt(p, i) = tail[q]
  PROVE  /\ tail[q] \in CellsOf(p)
         /\ Contents(p)' = Append(SubSeq(Contents(p), 1, i), m)
         /\ Len(chain'[p]) = i + 1
         /\ LastCell(p)' = c
<1>1. /\ p \in Queues /\ chain[p] \in Seq(Cells) /\ c \in Cells
      /\ Len(chain[p]) \in Nat /\ DOMAIN chain[p] = 1 .. Len(chain[p])
      /\ ListOk(head[p], chain[p], next, Own)
      /\ CellsOf(p) \subseteq Own /\ c \notin Own
      /\ data' = [data EXCEPT ![c] = m] /\ data \in [Cells -> Msgs \cup {NULL}]
  BY LiveQueue, LenProperties DEF EnqueueTo, Own, IInv, TypeOK
<1>2. tail[q] \in CellsOf(p)
  BY DEF CellsOf
<1>3. PICK k \in 0 .. Len(chain[p]) :
        CellAt(p, k) = tail[q] /\ chain'[p] = Append(SubSeq(chain[p], 1, k), c)
  BY <1>2, EnqueueLinks
<1>4. k = i
  BY <1>1, <1>3, PlacesDiffer
<1>5. /\ Len(chain'[p]) = i + 1
      /\ \A j \in 1 .. i : chain'[p][j] = chain[p][j]
      /\ chain'[p][i + 1] = c
  BY <1>1, <1>3, <1>4, JoinedIs
<1>6. i \in Nat /\ i + 1 # 0 /\ \A j \in 1 .. i : j \in 1 .. Len(chain[p])
  <2> DEFINE n == Len(chain[p])
  <2>1. n \in Nat /\ i \in 0 .. n
    BY <1>1
  <2> HIDE DEF n
  <2>2. i \in Nat /\ i + 1 # 0 /\ \A j \in 1 .. i : j \in 1 .. n
    BY <2>1
  <2> QED BY <2>2 DEF n
<1>7. LastCell(p)' = c
  BY <1>5, <1>6 DEF LastCell, CellAt
<1>8. Contents(p)' = Append(SubSeq(Contents(p), 1, i), m)
  <2> DEFINE cs == Contents(p)
             new == Contents(p)'
             joined == Append(SubSeq(cs, 1, i), m)
  <2>1. /\ cs \in Seq(Msgs) /\ Len(cs) = Len(chain[p])
        /\ \A j \in 1 .. Len(chain[p]) : cs[j] = data[chain[p][j]]
    BY PictureIs
  <2>2. /\ joined \in Seq(Msgs) /\ Len(joined) = i + 1
        /\ \A j \in 1 .. i : joined[j] = cs[j]
        /\ joined[i + 1] = m
    <3> HIDE DEF cs
    <3>1. i \in 0 .. Len(cs)
      BY <2>1
    <3> QED BY <2>1, <3>1, JoinedIs
  <2>3. new = [j \in 1 .. i + 1 |-> data'[chain'[p][j]]]
    BY <1>5 DEF Contents
  <2>4. \A j \in 1 .. i : chain[p][j] \in CellsOf(p) /\ chain[p][j] \in Cells
    BY <1>1, <1>6, CellsAre, ElementOfSeq
  <2>5. \A j \in 1 .. i : data'[chain'[p][j]] = cs[j]
    BY <1>1, <1>5, <1>6, <2>1, <2>4
  <2>6. data'[chain'[p][i + 1]] = m
    BY <1>1, <1>5
  <2>7. \A j \in 1 .. i + 1 : data'[chain'[p][j]] = joined[j]
    <3> SUFFICES ASSUME NEW j \in 1 .. i + 1
                 PROVE  data'[chain'[p][j]] = joined[j]
      OBVIOUS
    <3>1. j = i + 1 \/ j \in 1 .. i
      BY <1>6
    <3> QED BY <3>1, <2>2, <2>5, <2>6
  <2> HIDE DEF cs, joined, new
  <2>8. DOMAIN joined = 1 .. i + 1 /\ joined \in [1 .. i + 1 -> Msgs]
    BY <2>2, LenProperties, ElementOfSeq
  <2>9. new = joined
    BY <2>3, <2>7, <2>8
  <2> QED BY <2>9 DEF new, joined, cs
<1> QED BY <1>2, <1>5, <1>7, <1>8

\* The queue that is enqueued to, when its tail is at the end of its list, is
\* nowhere in it, or is further up in it.
LEMMA EnqueuePictured ==
  ASSUME IInv, NEW q \in Live, NEW m \in Msgs, NEW c \in Cells \ allocated,
         EnqueueTo(q, m, c)
  PROVE  /\ tail[q] = LastCell(q) => Picture(q)' = Seen!Enqueued(Picture(q), m)
         /\ tail[q] \notin CellsOf(q) =>
              /\ Picture(q).drained
              /\ Picture(q)' = Seen!Enqueued(Picture(q), m)
         /\ \A i \in 0 .. Len(chain[q]) :
              CellAt(q, i) = tail[q] /\ tail[q] # LastCell(q) =>
                /\ Picture(q).drained
                /\ Picture(q)' = Seen!Struck(Seen!Enqueued(Picture(q), m), i, m, FALSE)
<1> DEFINE n == Len(chain[q])
           l == length[q]
           cs == Contents(q)
           s == l - n
<1>1. /\ cs \in Seq(Msgs) /\ Len(cs) = n /\ n \in Nat
      /\ q \in Queues /\ l \in Nat /\ chain[q] \in Seq(Cells)
      /\ CellsOf(q) \subseteq Own /\ CellAt(q, n) = LastCell(q)
  BY PictureIs, LiveQueue
<1>2. /\ tail'[q] = c /\ length'[q] = l + 1 /\ head' = head /\ c \notin Own
  BY <1>1 DEF EnqueueTo, IInv, TypeOK, Own
<1>3. ASSUME tail[q] = LastCell(q)
      PROVE  Picture(q)' = Seen!Enqueued(Picture(q), m)
  <2>1. n \in 0 .. n
    BY <1>1
  <2>2. /\ Contents(q)' = Append(SubSeq(cs, 1, n), m)
        /\ Len(chain'[q]) = n + 1 /\ LastCell(q)' = c
    BY <2>1, <1>1, <1>3, EnqueueJoins
  <2>3. Append(SubSeq(cs, 1, n), m) = Append(cs, m)
    <3> DEFINE a == Append(SubSeq(cs, 1, n), m)
               b == Append(cs, m)
    <3> HIDE DEF cs, n
    <3>1. n \in 0 .. Len(cs)
      BY <1>1, <2>1
    <3>2. /\ a \in Seq(Msgs) /\ Len(a) = n + 1
          /\ \A j \in 1 .. n : a[j] = cs[j]
          /\ a[n + 1] = m
      BY <3>1, <1>1, JoinedIs
    <3>3. /\ b \in Seq(Msgs) /\ Len(b) = n + 1
          /\ \A j \in 1 .. n : b[j] = cs[j]
          /\ b[n + 1] = m
      BY <1>1, AppendProperties
    <3>4. \A j \in 1 .. n + 1 : j = n + 1 \/ j \in 1 .. n
      BY <1>1
    <3> HIDE DEF a, b
    <3>5. \A j \in 1 .. Len(a) : a[j] = b[j]
      BY <3>2, <3>3, <3>4
    <3>6. a = b
      BY <3>2, <3>3, <3>5, SeqEqual
    <3> QED BY <3>6 DEF a, b
  <2>4. length'[q] - Len(chain'[q]) = s
    <3>1. length'[q] = l + 1 /\ Len(chain'[q]) = n + 1
      BY <1>2, <2>2
    <3> HIDE DEF n, l
    <3> QED BY <3>1, <1>1
  <2>5. (tail'[q] # LastCell(q)') = FALSE /\ (tail[q] # LastCell(q)) = FALSE
    BY <1>2, <1>3, <2>2
  <2>6. Picture(q)' = [fifo |-> Append(cs, m), stranded |-> s, drained |-> FALSE]
    BY <2>2, <2>3, <2>4, <2>5 DEF Picture
  <2>7. Picture(q) = [fifo |-> cs, stranded |-> s, drained |-> FALSE]
    BY <2>5 DEF Picture
  <2> HIDE DEF cs, s
  <2> QED BY <2>6, <2>7, EnqueuedIs
<1>4. ASSUME tail[q] # LastCell(q)
      PROVE  /\ Picture(q) = [fifo |-> cs, stranded |-> s, drained |-> TRUE]
             /\ Picture(q).drained
             /\ Seen!Enqueued(Picture(q), m)
                  = [fifo |-> cs, stranded |-> s + 1, drained |-> TRUE]
  <2>1. (tail[q] # LastCell(q)) = TRUE
    BY <1>4
  <2>2. Picture(q) = [fifo |-> cs, stranded |-> s, drained |-> TRUE]
    BY <2>1 DEF Picture
  <2> HIDE DEF cs, s
  <2>3. Seen!Enqueued([fifo |-> cs, stranded |-> s, drained |-> TRUE], m)
          = [fifo |-> cs, stranded |-> s + 1, drained |-> TRUE]
    BY EnqueuedIs
  <2>4. [fifo |-> cs, stranded |-> s, drained |-> TRUE].drained
    OBVIOUS
  <2> QED BY <2>2, <2>3, <2>4, Zenon
<1>5. ASSUME tail[q] \notin CellsOf(q)
      PROVE  /\ Picture(q).drained
             /\ Picture(q)' = Seen!Enqueued(Picture(q), m)
  <2>1. LastCell(q) \in CellsOf(q) /\ LastCell(q) # c
    <3>1. n \in 0 .. n
      BY <1>1
    <3> QED BY <3>1, <1>1, <1>2 DEF CellsOf
  <2>2. /\ chain'[q] = chain[q]
        /\ Delivered(q)' = Delivered(q)
        /\ ListOk(head[q], chain[q], next, Own)
    BY <1>5, EnqueueLinks, EnqueueKeepsList, LiveQueue
  <2>3. LastCell(q)' = LastCell(q)
    BY <1>2, <2>2 DEF LastCell, CellAt
  <2>4. Contents(q)' = cs
    <3>1. c \notin Own /\ data' = [data EXCEPT ![c] = m] /\ data \in [Cells -> Msgs \cup {NULL}]
      BY <1>2 DEF EnqueueTo, IInv, TypeOK
    <3>2. DOMAIN chain[q] = 1 .. n
      BY <1>1, LenProperties
    <3>3. \A i \in 1 .. n : chain[q][i] \in CellsOf(q) /\ chain[q][i] \in Cells
      BY <3>2, <1>1, CellsAre, ElementOfSeq
    <3>4. \A i \in 1 .. n : data'[chain[q][i]] = data[chain[q][i]]
      BY <3>1, <3>3, <1>1
    <3> QED BY <3>4, <2>2 DEF Contents
  <2>5. length'[q] - Len(chain'[q]) = s + 1
    <3>1. length'[q] = l + 1 /\ Len(chain'[q]) = n
      BY <1>2, <2>2
    <3> HIDE DEF n, l
    <3> QED BY <3>1, <1>1
  <2>6. (tail'[q] # LastCell(q)') = TRUE
    BY <1>2, <2>1, <2>3
  <2>7. Picture(q)' = [fifo |-> cs, stranded |-> s + 1, drained |-> TRUE]
    BY <2>4, <2>5, <2>6 DEF Picture
  <2> QED BY <2>1, <2>7, <1>4, <1>5
<1>6. ASSUME NEW i \in 0 .. Len(chain[q]), CellAt(q, i) = tail[q], tail[q] # LastCell(q)
      PROVE  /\ Picture(q).drained
             /\ Picture(q)' = Seen!Struck(Seen!Enqueued(Picture(q), m), i, m, FALSE)
  <2>1. /\ Contents(q)' = Append(SubSeq(cs, 1, i), m)
        /\ Len(chain'[q]) = i + 1 /\ LastCell(q)' = c
    BY <1>6, EnqueueJoins
  <2>2. (tail'[q] # LastCell(q)') = FALSE
    BY <1>2, <2>1
  <2>3. Picture(q)' = [fifo |-> Append(SubSeq(cs, 1, i), m),
                       stranded |-> (l + 1) - (i + 1),
                       drained |-> FALSE]
    BY <1>2, <2>1, <2>2 DEF Picture
  <2> DEFINE e == [fifo |-> cs, stranded |-> s + 1, drained |-> TRUE]
  <2>4. Seen!LengthOf(e) = l + 1
    <3>1. Seen!LengthOf(e) = n + (s + 1)
      BY <1>1 DEF Seen!LengthOf
    <3> HIDE DEF n, l, e
    <3> QED BY <3>1, <1>1
  <2>5. e.fifo = cs
    OBVIOUS
  <2>6. Seen!Enqueued(Picture(q), m) = e /\ Picture(q).drained
    BY <1>4, <1>6
  <2> HIDE DEF e, cs, s, l, n
  <2>7. Seen!Struck(e, i, m, FALSE) = [fifo |-> Append(SubSeq(cs, 1, i), m),
                                      stranded |-> (l + 1) - (i + 1),
                                      drained |-> FALSE]
    BY <2>4, <2>5 DEF Seen!Struck
  <2> QED BY <2>3, <2>6, <2>7
<1> QED BY <1>3, <1>5, <1>6

\* Another queue, into whose list the element is put.
LEMMA OtherPictured ==
  ASSUME IInv, NEW q \in Live, NEW m \in Msgs, NEW c \in Cells \ allocated,
         EnqueueTo(q, m, c), NEW p \in Live, p # q,
         NEW i \in 0 .. Len(chain[p]), CellAt(p, i) = tail[q]
  PROVE  Picture(p)' = Seen!Struck(Picture(p), i, m, tail'[p] # c)
<1>1. /\ Contents(p)' = Append(SubSeq(Contents(p), 1, i), m)
      /\ Len(chain'[p]) = i + 1 /\ LastCell(p)' = c
  BY EnqueueJoins
<1>2. length'[p] = length[p]
  BY LiveQueue DEF EnqueueTo, IInv, TypeOK
<1>3. Seen!LengthOf(Picture(p)) = length[p]
  BY PictureIs
<1>4. Picture(p).fifo = Contents(p)
  BY DEF Picture
<1>5. Seen!Struck(Picture(p), i, m, tail'[p] # c)
        = [fifo |-> Append(SubSeq(Contents(p), 1, i), m),
           stranded |-> length[p] - (i + 1),
           drained |-> tail'[p] # c]
  BY <1>3, <1>4 DEF Seen!Struck
<1> QED BY <1>1, <1>2, <1>5 DEF Picture

LEMMA EnqueueSimulated ==
  ASSUME IInv, NEW q \in Queues, NEW m \in Msgs, Enqueue(q, m)
  PROVE  Seen!Enqueue(q, m) \/ Seen!EnqueueElsewhere(q, m)
<1>0. PICK c \in Cells \ allocated : EnqueueTo(q, m, c)
  BY DEF Enqueue, EnqueueTo
<1>1. q \in Live /\ held' = held /\ output' = output
  BY <1>0 DEF Enqueue, EnqueueTo, Live
<1>2. /\ Pictures[q] = Picture(q) /\ Picture(q) # NULL
      /\ \A p \in Queues \ Live : p \in held /\ Pictures'[p] = NULL /\ Pictures[p] = NULL
      /\ \A p \in Live : /\ Pictures'[p] = Picture(p)' /\ Pictures[p] = Picture(p)
                         /\ p \in Queues
      /\ DOMAIN Pictures = Queues /\ DOMAIN Pictures' = Queues
  BY <1>1, PictureIs DEF Pictures, Live
<1>3. CASE tail[q] = LastCell(q) \/ \A p \in Live : tail[q] \notin CellsOf(p)
  <2>1. Picture(q)' = Seen!Enqueued(Picture(q), m)
    BY <1>0, <1>1, <1>3, EnqueuePictured
  <2>2. ASSUME NEW p \in Live, p # q PROVE Picture(p)' = Picture(p)
    <3>1. tail[q] \notin CellsOf(p)
      <4>1. CASE tail[q] = LastCell(q)
        <5>1. Len(chain[q]) \in 0 .. Len(chain[q])
          BY <1>1, PictureIs
        <5>2. LastCell(q) \in CellsOf(q)
          BY <5>1 DEF LastCell, CellsOf
        <5> QED BY <5>2, <4>1, <2>2, <1>1 DEF IInv, Apart
      <4> QED BY <4>1, <1>3
    <3> QED BY <3>1, <2>2, <1>0, <1>1, EnqueueSpares
  <2>3. \A p \in Queues : Pictures'[p] = IF p = q THEN Seen!Enqueued(Pictures[q], m)
                                                 ELSE Pictures[p]
    BY <2>1, <2>2, <1>1, <1>2
  <2>4. Pictures' = [Pictures EXCEPT ![q] = Seen!Enqueued(@, m)]
    BY <2>3, <1>2 DEF Pictures
  <2>5. Seen!Enqueue(q, m)
    BY <2>4, <1>1, <1>2 DEF Seen!Enqueue, Pictures, Picture
  <2> QED BY <2>5
<1>4. CASE tail[q] # LastCell(q) /\ \E p \in Live : tail[q] \in CellsOf(p)
  <2>1. PICK p \in Live : tail[q] \in CellsOf(p)
    BY <1>4
  <2>2. PICK i \in 0 .. Len(chain[p]) : CellAt(p, i) = tail[q]
    BY <2>1 DEF CellsOf
  <2>3. ASSUME NEW r \in Live, r # p PROVE tail[q] \notin CellsOf(r)
    BY <2>1, <2>3 DEF IInv, Apart
  <2>4. /\ Pictures[p] = Picture(p) /\ Pictures[p] # NULL
        /\ i \in 0 .. Len(Pictures[p].fifo)
    BY PictureIs DEF Picture
  <2> DEFINE dr == tail'[p] # c
  <2>5. /\ Pictures[q].drained
        /\ p = q => ~dr
        /\ Pictures' = [[Pictures EXCEPT ![q] = Seen!Enqueued(@, m)]
                           EXCEPT ![p] = Seen!Struck(@, i, m, dr)]
    <3>1. \A r \in Live : r # p /\ r # q => Picture(r)' = Picture(r)
      BY <2>3, <1>0, <1>1, EnqueueSpares
    <3>2. CASE p = q
      <4>1. /\ Picture(q).drained
            /\ Picture(q)' = Seen!Struck(Seen!Enqueued(Picture(q), m), i, m, FALSE)
        BY <3>2, <2>2, <1>0, <1>1, <1>4, EnqueuePictured
      <4>2. dr = FALSE
        BY <3>2, <1>0, <1>1 DEF EnqueueTo, IInv, TypeOK
      <4>3. \A r \in Queues : Pictures'[r] =
              IF r = q THEN Seen!Struck(Seen!Enqueued(Pictures[q], m), i, m, dr)
                       ELSE Pictures[r]
        BY <4>1, <4>2, <3>1, <3>2, <1>1, <1>2
      <4>4. Pictures' = [[Pictures EXCEPT ![q] = Seen!Enqueued(@, m)]
                            EXCEPT ![p] = Seen!Struck(@, i, m, dr)]
        <5> HIDE DEF dr
        <5> QED BY <4>3, <3>2, <1>2 DEF Pictures
      <4> QED BY <4>1, <4>2, <4>4, <1>2
    <3>3. CASE p # q
      <4>1. /\ Picture(q).drained
            /\ Picture(q)' = Seen!Enqueued(Picture(q), m)
        BY <3>3, <2>3, <1>0, <1>1, EnqueuePictured
      <4>2. Picture(p)' = Seen!Struck(Picture(p), i, m, dr)
        BY <3>3, <2>2, <1>0, <1>1, OtherPictured
      <4>3. \A r \in Queues : Pictures'[r] =
              IF r = q THEN Seen!Enqueued(Pictures[q], m)
              ELSE IF r = p THEN Seen!Struck(Pictures[p], i, m, dr)
              ELSE Pictures[r]
        BY <4>1, <4>2, <3>1, <3>3, <1>1, <1>2
      <4>4. Pictures' = [[Pictures EXCEPT ![q] = Seen!Enqueued(@, m)]
                            EXCEPT ![p] = Seen!Struck(@, i, m, dr)]
        <5> HIDE DEF dr
        <5> QED BY <4>3, <3>3, <1>2 DEF Pictures
      <4> QED BY <4>1, <4>4, <3>3, <1>2
    <3> QED BY <3>2, <3>3
  <2>6. dr \in BOOLEAN /\ p \in Queues
    BY <1>2
  <2> HIDE DEF dr
  <2>7. /\ Pictures[q] # NULL /\ Pictures[q].drained
        /\ \E r \in Queues, drained \in BOOLEAN :
             /\ Pictures[r] # NULL
             /\ r = q => ~drained
             /\ \E k \in 0 .. Len(Pictures[r].fifo) :
                  Pictures' = [[Pictures EXCEPT ![q] = Seen!Enqueued(@, m)]
                                 EXCEPT ![r] = Seen!Struck(@, k, m, drained)]
    BY <2>4, <2>5, <2>6, <1>2
  <2>8. Seen!EnqueueElsewhere(q, m)
    BY <2>7, <1>1 DEF Seen!EnqueueElsewhere, Pictures, Picture
  <2> QED BY <2>8
<1> QED BY <1>3, <1>4

LEMMA DequeueSimulated ==
  ASSUME IInv, NEW q \in Queues, Dequeue(q)
  PROVE  Seen!Dequeue(q)
<1> DEFINE n == Len(chain[q])
           l == length[q]
           cs == Contents(q)
           was == tail[q] # LastCell(q)
<1>1. /\ q \in Live /\ n \in Nat \ {0} /\ 1 \in DOMAIN chain[q]
      /\ chain' = [chain EXCEPT ![q] = Tail(@)]
      /\ output' = [output EXCEPT ![q] = Append(@, data[chain[q][1]])]
      /\ data[chain[q][1]] \in Msgs /\ chain[q] # <<>>
      /\ chain'[q] = Tail(chain[q])
  BY DequeueFirst
<1>2. /\ held' = held /\ head' = head /\ tail' = tail /\ data' = data
      /\ length'[q] = l - 1 /\ l # 0
      /\ \A p \in Queues : p # q => length'[p] = length[p] /\ chain'[p] = chain[p]
  BY <1>1 DEF Dequeue, IInv, TypeOK
<1>3. /\ cs \in Seq(Msgs) /\ Len(cs) = n /\ l \in Nat
      /\ \A i \in 1 .. n : cs[i] = data[chain[q][i]]
      /\ Pictures[q] = Picture(q) /\ Picture(q) # NULL
      /\ Seen!LengthOf(Picture(q)) = l
      /\ chain[q] \in Seq(Cells) /\ ListOk(head[q], chain[q], next, Own)
      /\ DOMAIN chain[q] = 1 .. n
  BY <1>1, PictureIs, LiveQueue, LenProperties
<1>4. cs # <<>> /\ Head(cs) = data[chain[q][1]]
  <2> HIDE DEF cs, n
  <2>1. Len(cs) # 0 /\ 1 \in 1 .. n
    BY <1>1, <1>3
  <2>2. cs # <<>>
    <3>1. Len(<<>>) = 0
      OBVIOUS
    <3> QED BY <2>1, <3>1
  <2>3. Head(cs) = cs[1]
    BY <2>2, <1>3, HeadTailProperties
  <2> QED BY <2>1, <2>2, <2>3, <1>3
<1>5. /\ Len(chain'[q]) = n - 1
      /\ \A i \in 1 .. n - 1 : chain'[q][i] = chain[q][i + 1]
  BY <1>1, DequeueTail
<1>6. Contents(q)' = Tail(cs)
  <2> DEFINE new == Contents(q)'
  <2>1. /\ Tail(cs) \in Seq(Msgs) /\ Len(Tail(cs)) = n - 1
        /\ \A i \in 1 .. n - 1 : Tail(cs)[i] = cs[i + 1]
    BY <1>3, <1>4, HeadTailProperties
  <2>2. new = [i \in 1 .. n - 1 |-> data[chain'[q][i]]]
    BY <1>2, <1>5 DEF Contents
  <2> HIDE DEF new, cs, n
  <2>3. n - 1 \in Nat /\ \A i \in 1 .. n - 1 : i + 1 \in 1 .. n
    BY <1>1
  <2>4. \A i \in 1 .. n - 1 : data[chain'[q][i]] = Tail(cs)[i]
    BY <2>1, <2>3, <1>3, <1>5
  <2>5. Tail(cs) \in [1 .. n - 1 -> Msgs]
    BY <2>1, LenProperties, ElementOfSeq
  <2>6. new = Tail(cs)
    BY <2>2, <2>4, <2>5
  <2> QED BY <2>6 DEF new
<1>7. (tail'[q] # LastCell(q)') = (was \/ Len(cs) = 1)
  <2>1. CASE n = 1
    <3>1. Len(chain'[q]) = 0
      BY <2>1, <1>5
    <3>2. LastCell(q)' = head[q]
      BY <3>1, <1>2 DEF LastCell, CellAt
    <3>3. tail[q] # head[q]
      BY <1>1 DEF IInv, QueueOk
    <3> QED BY <2>1, <3>2, <3>3, <1>2, <1>3
  <2>2. CASE n # 1
    <3> HIDE DEF n
    <3>1. n - 1 \in 1 .. n - 1 /\ (n - 1) + 1 = n /\ n - 1 # 0 /\ n # 0
      BY <2>2, <1>1
    <3>2. LastCell(q)' = chain[q][n]
      BY <3>1, <1>5 DEF LastCell, CellAt
    <3>3. LastCell(q) = chain[q][n]
      BY <3>1 DEF LastCell, CellAt, n
    <3> QED BY <2>2, <3>2, <3>3, <1>2, <1>3
  <2> QED BY <2>1, <2>2
<1>8. Picture(q)' = Seen!Dequeued(Picture(q))
  <2>1. length'[q] - Len(chain'[q]) = l - n
    <3>1. length'[q] = l - 1 /\ Len(chain'[q]) = n - 1 /\ n \in Nat /\ l \in Nat
      BY <1>1, <1>2, <1>3, <1>5
    <3> HIDE DEF n, l
    <3> QED BY <3>1
  <2>2. Picture(q)' = [fifo |-> Tail(cs), stranded |-> l - n, drained |-> was \/ Len(cs) = 1]
    BY <2>1, <1>6, <1>7 DEF Picture
  <2>3. Picture(q) = [fifo |-> cs, stranded |-> l - n, drained |-> was]
    BY DEF Picture
  <2> DEFINE s == l - n
  <2> HIDE DEF cs, s, was
  <2>4. Seen!Dequeued([fifo |-> cs, stranded |-> s, drained |-> was])
          = [fifo |-> Tail(cs), stranded |-> s, drained |-> was \/ Len(cs) = 1]
    BY <1>4, DequeuedIs
  <2> QED BY <2>2, <2>3, <2>4, Zenon DEF s
<1>9. ASSUME NEW p \in Live, p # q PROVE Picture(p)' = Picture(p)
  <2>1. p \in Queues
    BY DEF Live
  <2>2. Contents(p)' = Contents(p) /\ LastCell(p)' = LastCell(p)
    BY <2>1, <1>2, <1>9 DEF Contents, LastCell, CellAt
  <2> QED BY <2>1, <2>2, <1>2, <1>9 DEF Picture
<1>10. Pictures' = [Pictures EXCEPT ![q] = Seen!Dequeued(@)]
  <2>1. \A p \in Queues : Pictures'[p] = IF p = q THEN Seen!Dequeued(Pictures[q])
                                                 ELSE Pictures[p]
    BY <1>1, <1>2, <1>3, <1>8, <1>9 DEF Pictures, Live
  <2> QED BY <2>1, <1>3 DEF Pictures
<1>11. Seen!FirstOf(Pictures[q]) = Head(cs) /\ Head(cs) # NULL
  <2>1. Pictures[q].fifo = cs
    BY <1>3 DEF Picture
  <2>2. Head(cs) # NULL
    BY <1>1, <1>4, QueueAssumption
  <2> QED BY <2>1, <2>2, <1>4 DEF Seen!FirstOf
<1>12. /\ Pictures[q] # NULL /\ Seen!FirstOf(Pictures[q]) # NULL
       /\ Seen!LengthOf(Pictures[q]) # 0
       /\ output' = [output EXCEPT ![q] = Append(@, Seen!FirstOf(Pictures[q]))]
  BY <1>1, <1>2, <1>3, <1>4, <1>11
<1> QED BY <1>10, <1>12 DEF Seen!Dequeue, Pictures, Picture

LEMMA DeleteSimulated ==
  ASSUME IInv, NEW q \in Queues, Delete(q)
  PROVE  Seen!Delete(q)
<1>1. /\ q \in Live /\ held' = held \cup {q} /\ output' = output
      /\ head' = head /\ tail' = tail /\ length' = length /\ data' = data
      /\ \A p \in Queues : p # q => chain'[p] = chain[p]
  BY DEF Delete, Live, IInv, TypeOK
<1>2. Pictures[q] # NULL
  BY <1>1, PictureIs
<1>3. ASSUME NEW p \in Queues, p # q PROVE Picture(p)' = Picture(p)
  <2>1. Contents(p)' = Contents(p) /\ LastCell(p)' = LastCell(p)
    BY <1>1, <1>3 DEF Contents, LastCell, CellAt
  <2> QED BY <2>1, <1>1, <1>3 DEF Picture
<1>4. \A p \in Queues : Pictures'[p] = IF p = q THEN NULL ELSE Pictures[p]
  BY <1>1, <1>3 DEF Pictures
<1>5. Pictures' = [Pictures EXCEPT ![q] = NULL]
  BY <1>4 DEF Pictures
<1> QED BY <1>1, <1>2, <1>5 DEF Seen!Delete, Pictures, Picture

LEMMA StepSimulation ==
  ASSUME IInv, [Next]_vars
  PROVE  [Seen!Next]_(Seen!vars)
<1>1. ASSUME UNCHANGED <<pointers, data, chain, output>>
      PROVE  UNCHANGED Seen!vars
  <2>1. /\ head' = head /\ tail' = tail /\ length' = length /\ held' = held
        /\ data' = data /\ chain' = chain /\ output' = output
    BY <1>1 DEF pointers
  <2>2. ASSUME NEW q \in Queues PROVE Picture(q)' = Picture(q)
    <3>1. Contents(q)' = Contents(q) /\ LastCell(q)' = LastCell(q)
      BY <2>1 DEF Contents, LastCell, CellAt
    <3> QED BY <2>1, <3>1 DEF Picture
  <2>3. Pictures' = Pictures
    BY <2>1, <2>2 DEF Pictures
  <2> QED BY <2>1, <2>3 DEF Seen!vars, Pictures, Picture
<1>2. ASSUME NEW q \in Queues, NEW m \in Msgs, Enqueue(q, m)
      PROVE  Seen!Next
  BY <1>2, EnqueueSimulated DEF Seen!Next
<1>3. ASSUME NEW q \in Queues, Dequeue(q) PROVE Seen!Next
  BY <1>3, DequeueSimulated DEF Seen!Next
<1>4. ASSUME NEW q \in Queues, Delete(q) PROVE Seen!Next
  BY <1>4, DeleteSimulated DEF Seen!Next
<1>5. ASSUME NEW c \in Cells, AllocateForeign(c) \/ FreeForeign(c)
      PROVE  UNCHANGED Seen!vars
  BY <1>5, <1>1 DEF AllocateForeign, FreeForeign
<1>6. CASE UNCHANGED vars
  BY <1>6, <1>1 DEF vars
<1> QED BY <1>2, <1>3, <1>4, <1>5, <1>6 DEF Next

\* Every behaviour of the cells and pointers of all the queues is, to their
\* callers, one of the abstract queues: in order until drained once, and then
\* out of reach, or behind an element of some queue.
THEOREM Refinement == Spec => ImplementsMessageQueue
<1>1. Init => Seen!Init
  <2> SUFFICES ASSUME Init PROVE Seen!Init
    OBVIOUS
  <2>1. ASSUME NEW q \in Queues PROVE Picture(q) = Seen!NewQueue
    <3>1. chain[q] = <<>> /\ length[q] = 0 /\ tail[q] = head[q]
      BY DEF Init
    <3>2. Contents(q) = <<>> /\ LastCell(q) = head[q]
      BY <3>1, EmptySeq DEF Contents, LastCell, CellAt
    <3>3. length[q] - Len(chain[q]) = 0
      <4>1. Len(<<>>) = 0
        OBVIOUS
      <4>2. Len(chain[q]) = 0
        BY <3>1, <4>1, Zenon
      <4> DEFINE l == length[q]
                 n == Len(chain[q])
      <4>3. l = 0 /\ n = 0
        BY <3>1, <4>2
      <4> HIDE DEF l, n
      <4>4. l - n = 0
        BY <4>3
      <4> QED BY <4>4 DEF l, n
    <3>4. (tail[q] # LastCell(q)) = FALSE
      BY <3>1, <3>2
    <3> QED BY <3>2, <3>3, <3>4 DEF Picture, Seen!NewQueue
  <2> QED BY <2>1 DEF Init, Seen!Init, Picture
<1>2. IInv /\ [Next]_vars => [Seen!Next]_(Seen!vars)
  BY StepSimulation
<1> QED BY <1>1, <1>2, Invariance, PTL DEF Spec, ImplementsMessageQueue, Seen!Spec
=============================================================================
