----------------------- MODULE CcSecureChannelProofs ------------------------
(***************************************************************************)
(* Proofs about CcSecureChannel, for any number of reads and workers and   *)
(* any limit on a flush: whose message a job gets, and the order in which  *)
(* messages reach the wire.                                                *)
(***************************************************************************)
EXTENDS CcSecureChannel, SequenceTheorems, TLAPS

Sendable == AppMsgs \cup Replies

\* As long as the channel is used, the receive queue has nothing to dequeue
\* between two reads: what a read enqueues it dequeues, or it is out of reach.
RecvInv ==
  /\ reads \in 0 .. MaxReads
  /\ recvBuf = [j \in Jobs |-> recvBuf[j]]
  /\ main \in {"select", "flush", "delete_recv"} =>
       recvQueue \in [fifo : {<<>>}, stranded : Int, drained : BOOLEAN]
  /\ JobCarriesOwnMessage

\* What was written is a subsequence of the first k messages that were queued.
Ordered(w, s, k) ==
  \E f \in [DOMAIN w -> 1 .. k] :
    /\ \A i \in DOMAIN w : w[i] = s[f[i]]
    /\ \A i, l \in DOMAIN w : i < l => f[i] < f[l]

\* What was written comes from before the place k where the queue stands; the
\* queue has what follows, all of it unless it was drained.
StandsAt(k, q, w, s) ==
  /\ k <= Len(s)
  /\ Ordered(w, s, k)
  /\ \A i \in DOMAIN q.fifo : k + i \in DOMAIN s /\ q.fifo[i] = s[k + i]
  /\ IF q.drained THEN q.fifo = <<>> ELSE k + Len(q.fifo) = Len(s)

SendInv ==
  /\ sent \in Seq(Sendable)
  /\ wire \in Seq(Sendable)
  /\ WireInOrder
  /\ main \in {"select", "flush", "delete_recv", "delete_send"} =>
       sendQueue # NULL
  /\ sendQueue # NULL =>
       /\ sendQueue \in SendQueue!QueueState
       /\ \E k \in Nat : StandsAt(k, sendQueue, wire, sent)

IInv == RecvInv /\ SendInv

-----------------------------------------------------------------------------
(***************************************************************************)
(* What the three histories do.                                            *)
(***************************************************************************)
LEMMA OrderedIsInOrder ==
  ASSUME NEW s \in Seq(Sendable), NEW w, NEW k \in Nat, k <= Len(s),
         Ordered(w, s, k)
  PROVE  \E f \in [DOMAIN w -> DOMAIN s] :
           /\ \A i \in DOMAIN w : w[i] = s[f[i]]
           /\ \A i, l \in DOMAIN w : i < l => f[i] < f[l]
<1>1. DOMAIN s = 1 .. Len(s) /\ Len(s) \in Nat
  BY LenProperties
<1>2. PICK f \in [DOMAIN w -> 1 .. k] :
        /\ \A i \in DOMAIN w : w[i] = s[f[i]]
        /\ \A i, l \in DOMAIN w : i < l => f[i] < f[l]
  BY DEF Ordered
<1>3. 1 .. k \subseteq DOMAIN s
  BY <1>1
<1>4. f \in [DOMAIN w -> DOMAIN s]
  BY <1>2, <1>3
<1> QED BY <1>2, <1>4

\* A message is queued: what was written stays where it is.
LEMMA OrderedWhenQueued ==
  ASSUME NEW S, NEW s \in Seq(S), NEW m \in S, NEW w, NEW k \in Nat,
         k <= Len(s), Ordered(w, s, k)
  PROVE  Ordered(w, Append(s, m), k)
<1>1. PICK f \in [DOMAIN w -> 1 .. k] :
        /\ \A i \in DOMAIN w : w[i] = s[f[i]]
        /\ \A i, l \in DOMAIN w : i < l => f[i] < f[l]
  BY DEF Ordered
<1>2. \A i \in 1 .. k : Append(s, m)[i] = s[i]
  <2>1. Len(s) \in Nat
    BY LenProperties
  <2>2. \A i \in 1 .. k : i \in 1 .. Len(s)
    BY <2>1
  <2> QED BY <2>2, AppendProperties
<1>3. \A i \in DOMAIN w : w[i] = Append(s, m)[f[i]]
  BY <1>1, <1>2
<1> QED BY <1>1, <1>3 DEF Ordered

\* The queue moves on, whether or not its first message is written.
LEMMA OrderedWhenSkipped ==
  ASSUME NEW w, NEW s, NEW k \in Nat, Ordered(w, s, k)
  PROVE  Ordered(w, s, k + 1)
<1>1. PICK f \in [DOMAIN w -> 1 .. k] :
        /\ \A i \in DOMAIN w : w[i] = s[f[i]]
        /\ \A i, l \in DOMAIN w : i < l => f[i] < f[l]
  BY DEF Ordered
<1>2. f \in [DOMAIN w -> 1 .. k + 1]
  BY <1>1
<1> QED BY <1>1, <1>2 DEF Ordered

LEMMA OrderedWhenWritten ==
  ASSUME NEW S, NEW w \in Seq(S), NEW s, NEW k \in Nat, Ordered(w, s, k),
         s[k + 1] \in S
  PROVE  Ordered(Append(w, s[k + 1]), s, k + 1)
<1> DEFINE n == Len(w)
           w2 == Append(w, s[k + 1])
<1>1. PICK f \in [DOMAIN w -> 1 .. k] :
        /\ \A i \in DOMAIN w : w[i] = s[f[i]]
        /\ \A i, l \in DOMAIN w : i < l => f[i] < f[l]
  BY DEF Ordered
<1>2. /\ n \in Nat /\ DOMAIN w = 1 .. n /\ DOMAIN w2 = 1 .. n + 1
      /\ w2[n + 1] = s[k + 1] /\ \A i \in 1 .. n : w2[i] = w[i]
  BY LenProperties, AppendProperties
<1> HIDE DEF n, w2
<1> DEFINE g == [i \in 1 .. n + 1 |-> IF i = n + 1 THEN k + 1 ELSE f[i]]
<1>3. \A i \in 1 .. n : f[i] \in 1 .. k
  BY <1>1, <1>2
<1>4. ASSUME NEW i \in 1 .. n + 1 PROVE i = n + 1 \/ i \in 1 .. n
  BY <1>2
<1>5. /\ g[n + 1] = k + 1
      /\ \A i \in 1 .. n : g[i] = f[i]
  BY <1>2
<1>6. g \in [DOMAIN w2 -> 1 .. k + 1]
  <2> SUFFICES ASSUME NEW i \in 1 .. n + 1
               PROVE  (IF i = n + 1 THEN k + 1 ELSE f[i]) \in 1 .. k + 1
    BY <1>2
  <2>1. CASE i = n + 1
    BY <2>1
  <2>2. CASE i # n + 1
    <3>1. f[i] \in 1 .. k
      BY <2>2, <1>3, <1>4
    <3> QED BY <2>2, <3>1
  <2> QED BY <2>1, <2>2
<1> HIDE DEF g
<1>7. \A i \in DOMAIN w2 : w2[i] = s[g[i]]
  BY <1>1, <1>2, <1>4, <1>5
<1>8. ASSUME NEW i \in 1 .. n + 1, NEW l \in 1 .. n + 1, i < l
      PROVE  g[i] < g[l]
  <2>1. i \in 1 .. n
    BY <1>2, <1>8
  <2>2. CASE l = n + 1
    BY <2>1, <2>2, <1>3, <1>5
  <2>3. CASE l \in 1 .. n
    BY <2>1, <2>3, <1>1, <1>2, <1>5, <1>8
  <2> QED BY <2>2, <2>3, <1>4
<1>9. Ordered(w2, s, k + 1)
  BY <1>2, <1>6, <1>7, <1>8 DEF Ordered
<1> QED BY <1>9 DEF w2

-----------------------------------------------------------------------------
(***************************************************************************)
(* What queueing and dequeueing do to the send queue.                      *)
(***************************************************************************)
LEMMA SendEnqueued ==
  ASSUME NEW q \in SendQueue!QueueState, NEW m \in Sendable,
         NEW s \in Seq(Sendable), NEW w, NEW k \in Nat, StandsAt(k, q, w, s)
  PROVE  /\ SendQueue!Enqueued(q, m) \in SendQueue!QueueState
         /\ StandsAt(k, SendQueue!Enqueued(q, m), w, Append(s, m))
<1> DEFINE q2 == SendQueue!Enqueued(q, m)
           s2 == Append(s, m)
           n == Len(q.fifo)
           ns == Len(s)
<1>1. /\ q.fifo \in Seq(Sendable) /\ q.stranded \in Int /\ q.drained \in BOOLEAN
  BY DEF SendQueue!QueueState, Sendable
<1>2. /\ n \in Nat /\ DOMAIN q.fifo = 1 .. n
      /\ ns \in Nat /\ DOMAIN s = 1 .. ns
      /\ s2 \in Seq(Sendable) /\ Len(s2) = ns + 1 /\ DOMAIN s2 = 1 .. ns + 1
      /\ s2[ns + 1] = m /\ \A i \in 1 .. ns : s2[i] = s[i]
  BY <1>1, LenProperties, AppendProperties
<1>3. /\ k <= ns /\ Ordered(w, s2, k)
      /\ \A i \in 1 .. n : k + i \in 1 .. ns /\ q.fifo[i] = s[k + i]
  BY <1>2, OrderedWhenQueued DEF StandsAt
<1>4. k <= Len(s2)
  <2> HIDE DEF s2, ns
  <2> QED BY <1>2, <1>3
<1>5. CASE q.drained
  <2>1. q.fifo = <<>>
    BY <1>5 DEF StandsAt
  <2>2. /\ q2 \in SendQueue!QueueState
        /\ q2.fifo = <<>> /\ q2.drained
    BY <1>1, <1>5, <2>1 DEF SendQueue!QueueState, SendQueue!Enqueued
  <2>3. DOMAIN q2.fifo = {}
    BY <2>2
  <2> HIDE DEF q2, s2
  <2>4. StandsAt(k, q2, w, s2)
    BY <1>3, <1>4, <2>2, <2>3 DEF StandsAt
  <2> QED BY <2>2, <2>4 DEF q2, s2
<1>6. CASE ~q.drained
  <2> DEFINE new == Append(q.fifo, m)
  <2>1. /\ new \in Seq(Sendable) /\ Len(new) = n + 1 /\ DOMAIN new = 1 .. n + 1
        /\ new[n + 1] = m /\ \A i \in 1 .. n : new[i] = q.fifo[i]
    BY <1>1, <1>2, LenProperties, AppendProperties
  <2>2. q2 = [q EXCEPT !.fifo = new]
    BY <1>6 DEF SendQueue!Enqueued
  <2>3. k + n = ns
    BY <1>6 DEF StandsAt
  <2> HIDE DEF new, q2, s2, n, ns
  <2>4. q2 \in SendQueue!QueueState /\ q2.fifo = new /\ q2.drained = q.drained
    BY <2>1, <2>2 DEF SendQueue!QueueState, Sendable
  <2>5. ASSUME NEW i \in 1 .. n + 1
        PROVE  k + i \in 1 .. ns + 1 /\ new[i] = s2[k + i]
    <3>1. CASE i = n + 1
      <4>1. k + i = ns + 1 /\ k + i \in 1 .. ns + 1
        BY <3>1, <2>3, <1>2
      <4> QED BY <3>1, <4>1, <2>1, <1>2
    <3>2. CASE i # n + 1
      <4>1. i \in 1 .. n
        BY <3>2, <1>2
      <4>2. k + i \in 1 .. ns /\ k + i \in 1 .. ns + 1
        BY <4>1, <1>2, <1>3
      <4> QED BY <4>1, <4>2, <2>1, <1>2, <1>3
    <3> QED BY <3>1, <3>2
  <2>6. k + Len(new) = Len(s2)
    BY <2>1, <2>3, <1>2
  <2>7. StandsAt(k, q2, w, s2)
    BY <1>2, <1>3, <1>4, <1>6, <2>1, <2>4, <2>5, <2>6 DEF StandsAt
  <2> QED BY <2>4, <2>7 DEF q2, s2
<1> QED BY <1>5, <1>6

LEMMA SendDequeued ==
  ASSUME NEW q \in SendQueue!QueueState, SendQueue!FirstOf(q) # NULL,
         NEW s \in Seq(Sendable), NEW w \in Seq(Sendable), NEW k \in Nat,
         StandsAt(k, q, w, s)
  PROVE  /\ SendQueue!Dequeued(q) \in SendQueue!QueueState
         /\ SendQueue!FirstOf(q) \in Sendable
         /\ StandsAt(k + 1, SendQueue!Dequeued(q), w, s)
         /\ StandsAt(k + 1, SendQueue!Dequeued(q), Append(w, SendQueue!FirstOf(q)), s)
<1> DEFINE q2 == SendQueue!Dequeued(q)
           n == Len(q.fifo)
           ns == Len(s)
           new == Tail(q.fifo)
<1>1. /\ q.fifo \in Seq(Sendable) /\ q.stranded \in Int /\ q.drained \in BOOLEAN
  BY DEF SendQueue!QueueState, Sendable
<1>2. /\ q.fifo # <<>> /\ SendQueue!FirstOf(q) = Head(q.fifo)
      /\ q2 = [q EXCEPT !.fifo = new, !.drained = @ \/ n = 1]
  BY DEF SendQueue!FirstOf, SendQueue!Dequeued
<1>3. /\ n \in Nat \ {0} /\ DOMAIN q.fifo = 1 .. n
      /\ Head(q.fifo) = q.fifo[1] /\ Head(q.fifo) \in Sendable
      /\ ns \in Nat /\ DOMAIN s = 1 .. ns
      /\ new \in Seq(Sendable) /\ Len(new) = n - 1 /\ DOMAIN new = 1 .. n - 1
      /\ \A i \in 1 .. n - 1 : new[i] = q.fifo[i + 1]
  BY <1>1, <1>2, LenProperties, HeadTailProperties, EmptySeq
<1>4. /\ k <= ns /\ Ordered(w, s, k)
      /\ \A i \in 1 .. n : k + i \in 1 .. ns /\ q.fifo[i] = s[k + i]
      /\ ~q.drained /\ k + n = ns
  BY <1>2, <1>3 DEF StandsAt
<1>5. Head(q.fifo) = s[k + 1] /\ k + 1 <= ns
  BY <1>3, <1>4
<1>6. /\ Ordered(w, s, k + 1)
      /\ Ordered(Append(w, Head(q.fifo)), s, k + 1)
  BY ZenonT(60), <1>3, <1>4, <1>5, OrderedWhenSkipped, OrderedWhenWritten
<1> HIDE DEF q2, n, ns, new
<1>7. /\ q2 \in SendQueue!QueueState /\ q2.fifo = new /\ q2.drained = (n = 1)
  <2> DEFINE d == q.drained \/ n = 1
  <2>1. q2 = [q EXCEPT !.fifo = new, !.drained = d]
    BY <1>2
  <2>2. d = (n = 1)
    BY <1>4
  <2> HIDE DEF d
  <2>3. d \in BOOLEAN
    BY <2>2
  <2>4. q2 \in SendQueue!QueueState /\ q2.fifo = new /\ q2.drained = d
    BY <2>1, <2>3, <1>1, <1>3 DEF SendQueue!QueueState, Sendable
  <2> QED BY <2>2, <2>4
<1>8. ASSUME NEW i \in 1 .. n - 1
      PROVE  (k + 1) + i \in 1 .. ns /\ new[i] = s[(k + 1) + i]
  <2>1. i \in Nat /\ i <= n - 1 /\ 1 <= i /\ n \in Nat
    BY <1>3
  <2>2. i + 1 \in 1 .. n
    BY <2>1
  <2>3. k + (i + 1) = (k + 1) + i
    BY <2>1
  <2>4. k + (i + 1) \in 1 .. ns /\ q.fifo[i + 1] = s[k + (i + 1)]
    BY <2>2, <1>4
  <2> QED BY <2>3, <2>4, <1>3
<1>9. IF n = 1 THEN new = <<>> ELSE (k + 1) + Len(new) = ns
  <2>1. CASE n = 1
    BY <2>1, <1>3, EmptySeq
  <2>2. CASE n # 1
    BY <2>2, <1>3, <1>4
  <2> QED BY <2>1, <2>2
<1>10. ASSUME NEW v, Ordered(v, s, k + 1)
       PROVE  StandsAt(k + 1, q2, v, s)
  BY <1>3, <1>5, <1>7, <1>8, <1>9, <1>10 DEF StandsAt, ns
<1> QED BY <1>2, <1>3, <1>6, <1>7, <1>10 DEF q2

-----------------------------------------------------------------------------
(***************************************************************************)
(* The steps.                                                              *)
(***************************************************************************)
LEMMA InitIInv == Init => IInv
<1> SUFFICES ASSUME Init PROVE IInv
  OBVIOUS
<1> USE DEF Init
<1>1. RecvInv
  <2>1. RecvQueue!NewQueue \in [fifo : {<<>>}, stranded : Int, drained : BOOLEAN]
    BY DEF RecvQueue!NewQueue
  <2>2. 0 \in 0 .. MaxReads
    BY ChannelAssumption
  <2>3. JobCarriesOwnMessage
    BY DEF JobCarriesOwnMessage
  <2>4. recvBuf = [j \in Jobs |-> recvBuf[j]]
    OBVIOUS
  <2> QED BY <2>1, <2>2, <2>3, <2>4 DEF RecvInv
<1>2. SendInv
  <2>1. /\ <<>> \in Seq(Sendable) /\ Len(<<>>) = 0 /\ DOMAIN <<>> = {}
        /\ <<>> \in Seq(AppMsgs \cup Replies)
    OBVIOUS
  <2>2. /\ SendQueue!NewQueue \in SendQueue!QueueState
        /\ SendQueue!NewQueue.fifo = <<>> /\ ~SendQueue!NewQueue.drained
    BY <2>1 DEF SendQueue!NewQueue, SendQueue!QueueState
  <2>3. Ordered(<<>>, <<>>, 0)
    <3>1. 1 .. 0 = {}
      OBVIOUS
    <3> DEFINE f == [i \in {} |-> 1]
    <3>2. f \in [DOMAIN <<>> -> 1 .. 0]
      BY <2>1, <3>1
    <3> QED BY <2>1, <3>2 DEF Ordered
  <2>4. StandsAt(0, SendQueue!NewQueue, <<>>, <<>>)
    BY <2>1, <2>2, <2>3 DEF StandsAt
  <2>5. WireInOrder
    <3>1. \E f \in [DOMAIN <<>> -> DOMAIN <<>>] : TRUE
      <4> DEFINE f == [i \in {} |-> 1]
      <4>1. f \in [DOMAIN <<>> -> DOMAIN <<>>]
        BY <2>1
      <4> QED BY <4>1
    <3> QED BY <2>1, <3>1 DEF WireInOrder
  <2>6. sendQueue # NULL
    BY <2>2, NullAssumption
  <2> QED BY <2>1, <2>2, <2>4, <2>5, <2>6 DEF SendInv
<1> QED BY <1>1, <1>2 DEF IInv

\* cc_recv_from_secure_channel: the message is enqueued and dequeued again, or
\* it is out of reach and the job gets none.
LEMMA ReadRecvInv ==
  ASSUME RecvInv, NEW n \in ReadLengths, NEW kind \in Kinds, Read(n, kind)
  PROVE  RecvInv'
<1> DEFINE j == reads + 1
           m == [read |-> j, kind |-> kind, length |-> ReadLength(n)]
           q == IF ReadLength(n) >= HeaderSize
                THEN RecvQueue!Enqueued(recvQueue, m)
                ELSE recvQueue
           Empty == [fifo : {<<>>}, stranded : Int, drained : BOOLEAN]
<1>1. /\ reads < MaxReads /\ main = "select" /\ reads' = j
      /\ recvBuf' = [recvBuf EXCEPT ![j] = RecvQueue!FirstOf(q)]
      /\ recvQueue' = RecvQueue!Dequeued(q)
  BY DEF Read
<1>2. recvQueue \in Empty
  BY <1>1 DEF RecvInv
<1>3. j \in 0 .. MaxReads /\ j \in Jobs
  BY <1>1, ChannelAssumption DEF RecvInv, Jobs
<1>4. m.read = j
  OBVIOUS
<1> HIDE DEF j, m
<1>5. \/ q \in Empty
      \/ q.fifo = <<m>> /\ q \in [fifo : {<<m>>}, stranded : Int, drained : BOOLEAN]
  <2>1. CASE ReadLength(n) >= HeaderSize
    <3>1. CASE recvQueue.drained
      BY <1>2, <2>1, <3>1 DEF RecvQueue!Enqueued
    <3>2. CASE ~recvQueue.drained
      <4>1. Append(<<>>, m) = <<m>>
        OBVIOUS
      <4> DEFINE new == Append(recvQueue.fifo, m)
      <4>2. q = [recvQueue EXCEPT !.fifo = new]
        BY <2>1, <3>2 DEF RecvQueue!Enqueued
      <4>3. new = <<m>>
        BY <1>2, <4>1
      <4> HIDE DEF new, q
      <4> QED BY <1>2, <4>2, <4>3
    <3> QED BY <3>1, <3>2
  <2>2. CASE ~(ReadLength(n) >= HeaderSize)
    BY <1>2, <2>2
  <2> QED BY <2>1, <2>2
<1> HIDE DEF q
<1>6. /\ RecvQueue!Dequeued(q) \in Empty
      /\ RecvQueue!FirstOf(q) \in {NULL, m}
  <2>1. CASE q \in Empty
    BY <2>1 DEF RecvQueue!Dequeued, RecvQueue!FirstOf
  <2>2. CASE q \in [fifo : {<<m>>}, stranded : Int, drained : BOOLEAN]
    <3>1. Head(<<m>>) = m /\ Tail(<<m>>) = <<>> /\ <<m>> # <<>> /\ q.fifo = <<m>>
      BY <2>2
    <3> DEFINE d == q.drained \/ Len(q.fifo) = 1
               new == Tail(q.fifo)
    <3>2. RecvQueue!Dequeued(q) = [q EXCEPT !.fifo = new, !.drained = d]
      BY <3>1 DEF RecvQueue!Dequeued
    <3>3. d \in BOOLEAN /\ new = <<>>
      BY <3>1
    <3> HIDE DEF d, new
    <3>4. RecvQueue!Dequeued(q) \in Empty
      BY <2>2, <3>2, <3>3
    <3> QED BY <3>1, <3>4 DEF RecvQueue!FirstOf
  <2> QED BY <2>1, <2>2, <1>5
<1>7. /\ recvBuf'[j] \in {NULL, m}
      /\ \A i \in Jobs : i # j => recvBuf'[i] = recvBuf[i]
      /\ recvBuf' = [i \in Jobs |-> recvBuf'[i]]
  BY <1>1, <1>3, <1>6 DEF RecvInv
<1>8. JobCarriesOwnMessage'
  BY <1>4, <1>7 DEF JobCarriesOwnMessage, RecvInv
<1> QED BY <1>1, <1>3, <1>6, <1>7, <1>8 DEF RecvInv

\* Every other step leaves what was read alone.
LEMMA NextRecvInv == RecvInv /\ [Next]_vars => RecvInv'
<1> SUFFICES ASSUME RecvInv, [Next]_vars PROVE RecvInv'
  OBVIOUS
<1> USE DEF recvVars, sendVars, poolVars, JobCarriesOwnMessage
<1>0. ASSUME UNCHANGED <<reads, recvQueue, recvBuf>>,
             main' \in {"select", "flush", "delete_recv"} =>
               main \in {"select", "flush", "delete_recv"}
      PROVE  RecvInv'
  BY <1>0 DEF RecvInv
<1>1. CASE ReadNothing
  <2>1. /\ reads' = reads + 1 /\ reads < MaxReads /\ main = "select"
        /\ UNCHANGED <<recvQueue, recvBuf>>
    BY <1>1 DEF ReadNothing
  <2>2. reads' \in 0 .. MaxReads
    BY <2>1, ChannelAssumption DEF RecvInv
  <2> QED BY <2>1, <2>2 DEF RecvInv
<1>2. ASSUME NEW n \in ReadLengths, NEW kind \in Kinds, Read(n, kind)
      PROVE  RecvInv'
  BY <1>2, ReadRecvInv
<1>3. CASE Start
  BY <1>3, <1>0 DEF Start
<1>4. ASSUME NEW j \in Jobs,
             Reply(j) \/ HandleSilently(j) \/ HandleUndefined(j) \/ Finish(j)
      PROVE  RecvInv'
  BY <1>4, <1>0 DEF Reply, HandleSilently, HandleUndefined, Finish, WritesToFreed
<1>5. ASSUME NEW m \in AppMsgs, AppSend(m) \/ AppSendUndefined(m)
      PROVE  RecvInv'
  BY <1>5, <1>0 DEF AppSend, AppSendUndefined, WritesToFreed
<1>6. CASE StartFlush \/ FlushEnds
  BY <1>6, <1>0 DEF StartFlush, FlushEnds
<1>7. CASE FlushStops \/ Write \/ WritePart \/ WriteFails
  BY <1>7, <1>0 DEF FlushStops, Write, WritePart, WriteFails, DequeueToSend
<1>8. CASE DeleteRecvQueue
  BY <1>8 DEF DeleteRecvQueue, RecvInv
<1>9. CASE DeleteSendQueue \/ ClosePool \/ DiscardJobs \/ Leave
  BY <1>9, <1>0 DEF DeleteSendQueue, ClosePool, DiscardJobs, Leave
<1>10. CASE UNCHANGED vars
  BY <1>10, <1>0 DEF vars
<1> QED BY <1>1, <1>2, <1>3, <1>4, <1>5, <1>6, <1>7, <1>8, <1>9, <1>10 DEF Next

\* A message is queued, by a thread of the pool or by another.
LEMMA QueueSendInv ==
  ASSUME SendInv, NEW m \in Sendable, sendQueue # NULL,
         sendQueue' = SendQueue!Enqueued(sendQueue, m), sent' = Append(sent, m),
         wire' = wire
  PROVE  SendInv'
<1>1. /\ sent \in Seq(Sendable) /\ wire \in Seq(Sendable)
      /\ sendQueue \in SendQueue!QueueState
  BY DEF SendInv
<1>2. PICK k \in Nat : StandsAt(k, sendQueue, wire, sent)
  BY DEF SendInv
<1>3. /\ sendQueue' \in SendQueue!QueueState
      /\ StandsAt(k, sendQueue', wire', sent')
  BY <1>1, <1>2, SendEnqueued
<1>4. sent' \in Seq(Sendable) /\ sendQueue' # NULL
  BY <1>1, <1>3, AppendProperties, NullAssumption
<1>5. WireInOrder'
  <2> DEFINE s2 == sent'
  <2>1. s2 \in Seq(Sendable) /\ k <= Len(s2) /\ Ordered(wire, s2, k)
    BY <1>3, <1>4 DEF StandsAt
  <2> HIDE DEF s2
  <2>2. \E f \in [DOMAIN wire -> DOMAIN s2] :
          /\ \A i \in DOMAIN wire : wire[i] = s2[f[i]]
          /\ \A i, l \in DOMAIN wire : i < l => f[i] < f[l]
    BY <2>1, OrderedIsInOrder
  <2> QED BY <2>2 DEF s2, WireInOrder
<1> QED BY <1>1, <1>3, <1>4, <1>5 DEF SendInv

\* A message is dequeued, and written or not.
LEMMA FlushSendInv ==
  ASSUME SendInv, main = "flush", DequeueToSend,
         wire' \in {wire, Append(wire, NextMessage)}
  PROVE  SendInv'
<1>1. /\ sent \in Seq(Sendable) /\ wire \in Seq(Sendable)
      /\ sendQueue \in SendQueue!QueueState
  BY DEF SendInv
<1>2. PICK k \in Nat : StandsAt(k, sendQueue, wire, sent)
  BY DEF SendInv
<1>3. /\ SendQueue!FirstOf(sendQueue) # NULL
      /\ sendQueue' = SendQueue!Dequeued(sendQueue) /\ sent' = sent
  BY DEF DequeueToSend, NextMessage
<1>4. /\ sendQueue' \in SendQueue!QueueState
      /\ NextMessage \in Sendable
      /\ StandsAt(k + 1, sendQueue', wire, sent)
      /\ StandsAt(k + 1, sendQueue', Append(wire, NextMessage), sent)
  BY <1>1, <1>2, <1>3, SendDequeued DEF NextMessage
<1>5. StandsAt(k + 1, sendQueue', wire', sent') /\ k + 1 \in Nat
  <2>1. CASE wire' = wire
    BY <2>1, <1>3, <1>4
  <2>2. CASE wire' = Append(wire, NextMessage)
    BY <2>2, <1>3, <1>4
  <2> QED BY <2>1, <2>2
<1>6. wire' \in Seq(Sendable)
  BY <1>1, <1>4, AppendProperties
<1>7. WireInOrder'
  <2>1. k + 1 <= Len(sent') /\ Ordered(wire', sent', k + 1)
    BY <1>5 DEF StandsAt
  <2> QED
    <3>1. \E f \in [DOMAIN wire' -> DOMAIN sent'] :
            /\ \A i \in DOMAIN wire' : wire'[i] = sent'[f[i]]
            /\ \A i, l \in DOMAIN wire' : i < l => f[i] < f[l]
      BY SMTT(20), <2>1, <1>1, <1>3, <1>5, OrderedIsInOrder
    <3> QED BY <3>1 DEF WireInOrder
<1>8. sendQueue' # NULL
  BY <1>4, NullAssumption
<1> QED BY <1>1, <1>3, <1>4, <1>5, <1>6, <1>7, <1>8 DEF SendInv

LEMMA NextSendInv == SendInv /\ [Next]_vars => SendInv'
<1> SUFFICES ASSUME SendInv, [Next]_vars PROVE SendInv'
  OBVIOUS
<1> USE DEF recvVars, sendVars, poolVars
<1> DEFINE Open == {"select", "flush", "delete_recv", "delete_send"}
<1>0. ASSUME UNCHANGED <<sendQueue, sent, wire>>, main' \in Open => main \in Open
      PROVE  SendInv'
  <2>1. WireInOrder'
    BY <1>0 DEF SendInv, WireInOrder
  <2> QED BY <1>0, <2>1 DEF SendInv
<1>1. CASE ReadNothing
  BY <1>1, <1>0 DEF ReadNothing
<1>2. ASSUME NEW n \in ReadLengths, NEW kind \in Kinds, Read(n, kind)
      PROVE  SendInv'
  BY <1>2, <1>0 DEF Read
<1>3. CASE Start
  BY <1>3, <1>0 DEF Start
<1>4. ASSUME NEW j \in Jobs, Reply(j) PROVE SendInv'
  <2>1. [reply |-> j] \in Sendable
    BY DEF Sendable, Replies
  <2> QED BY <1>4, <2>1, QueueSendInv DEF Reply
<1>5. ASSUME NEW j \in Jobs, HandleSilently(j) \/ HandleUndefined(j) \/ Finish(j)
      PROVE  SendInv'
  BY <1>5, <1>0 DEF HandleSilently, HandleUndefined, Finish
<1>6. ASSUME NEW m \in AppMsgs, AppSend(m) PROVE SendInv'
  <2>1. m \in Sendable
    BY DEF Sendable
  <2> QED BY <1>6, <2>1, QueueSendInv DEF AppSend
<1>7. ASSUME NEW m \in AppMsgs, AppSendUndefined(m) PROVE SendInv'
  BY <1>7, <1>0 DEF AppSendUndefined
<1>8. CASE StartFlush \/ FlushEnds
  BY <1>8, <1>0 DEF StartFlush, FlushEnds
<1>9. CASE FlushStops \/ Write \/ WritePart \/ WriteFails
  BY <1>9, FlushSendInv DEF FlushStops, Write, WritePart, WriteFails, DequeueToSend
<1>10. CASE DeleteRecvQueue
  BY <1>10, <1>0 DEF DeleteRecvQueue
<1>11. CASE DeleteSendQueue
  <2>1. sendQueue' = NULL /\ UNCHANGED <<sent, wire>> /\ main' \notin Open
    BY <1>11 DEF DeleteSendQueue
  <2>2. WireInOrder'
    BY <2>1 DEF SendInv, WireInOrder
  <2> QED BY <2>1, <2>2 DEF SendInv
<1>12. CASE ClosePool \/ DiscardJobs \/ Leave
  BY <1>12, <1>0 DEF ClosePool, DiscardJobs, Leave
<1>13. CASE UNCHANGED vars
  BY <1>13, <1>0 DEF vars
<1> QED BY <1>1, <1>2, <1>3, <1>4, <1>5, <1>6, <1>7, <1>8, <1>9, <1>10, <1>11,
           <1>12, <1>13 DEF Next

-----------------------------------------------------------------------------
\* In every reachable state of a channel's loop, its two queues and its pool
\* the strengthening holds; the theorems below follow from it.
THEOREM Invariance == Spec => []IInv
<1>1. IInv /\ [Next]_vars => IInv'
  BY NextRecvInv, NextSendInv DEF IInv
<1> QED BY <1>1, InitIInv, PTL DEF Spec, SafeSpec

\* Although create_trans_info takes whatever is first in recv_queue, no job
\* ever gets the message of another read: there is never one left from before.
THEOREM JobsNotMixed == Spec => []JobCarriesOwnMessage
<1>1. IInv => JobCarriesOwnMessage
  BY DEF IInv, RecvInv
<1> QED BY <1>1, Invariance, PTL

\* Whatever threads queue messages, and wherever a flush stops or fails, what
\* reaches the wire is a subsequence of what was queued.
THEOREM WireOrdered == Spec => []WireInOrder
<1>1. IInv => WireInOrder
  BY DEF IInv, SendInv
<1> QED BY <1>1, Invariance, PTL
=============================================================================
