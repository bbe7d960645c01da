-------------------------- MODULE CcSessionProofs --------------------------
(***************************************************************************)
(* Proofs that a handler frees its message, and frees it once, and that    *)
(* the handlers and the senders implement CcSecureChannel, for any number  *)
(* of threads, reads and senders, and for identifiers of any size.         *)
(***************************************************************************)
EXTENDS CcSession, SequenceTheorems, TLAPS

Places == {"dispatch", "validate", "latest", "create", "enqueue", "app", "free",
           "return", "done"}

\* The pool has no job that was not read, and a job that was not read has not
\* begun: a message is not changed under its handler.
JobsInv ==
  /\ reads \in Nat
  /\ pending \in Seq(1 .. reads)
  /\ running \subseteq 1 .. reads
  /\ DOMAIN recvBuf = Jobs
  /\ pc \in [Jobs -> Places]
  /\ \A j \in Jobs : j > reads => pc[j] = "dispatch"

\* How often the buffer has been freed, wherever the handler is.  The last
\* free may come upon a buffer that the application queue has freed; and a
\* type without a case is the one that gets to the return with its buffer.
Freed(j) ==
  CASE pc[j] \in {"dispatch", "validate", "latest", "create", "enqueue", "app"}
         -> frees[j] = 0
    [] pc[j] = "free" -> frees[j] \in {0, 1}
    [] pc[j] = "return" -> \/ frees[j] = 1
                           \/ frees[j] = 0 /\ Type(j) \notin Cases
    [] pc[j] = "done" -> frees[j] = 1
    [] OTHER -> FALSE

FreesInv ==
  /\ frees \in [Jobs -> Nat]
  /\ \A j \in Jobs : Freed(j)
  /\ \A j \in finished : j \in Jobs /\ pc[j] = "done"

IInv == Alive => JobsInv /\ FreesInv

-----------------------------------------------------------------------------
LEMMA InitIInv == Init => IInv
<1> SUFFICES ASSUME Init PROVE JobsInv /\ FreesInv
  BY DEF IInv
<1>1. JobsInv
  <2>1. <<>> \in Seq(1 .. 0)  OBVIOUS
  <2>2. pc \in [Jobs -> Places]
    BY DEF Init, Places
  <2> QED BY <2>1, <2>2 DEF Init, JobsInv, Pool!Init
<1>2. FreesInv
  BY DEF Init, FreesInv, Freed, Pool!Init
<1> QED BY <1>1, <1>2

\* The main thread and the pool: a message is put where no handler has begun.
LEMMA ReceiveIInv == ASSUME IInv, NEW m, Receive(m) PROVE IInv'
<1>1. Alive /\ JobsInv /\ FreesInv
  BY DEF IInv, Alive, Receive
<1>2. /\ reads + 1 \in Jobs /\ reads' = reads + 1 /\ reads \in Nat
      /\ UNCHANGED <<pc, frees, running, finished>>
      /\ pending' = Append(pending, reads + 1)
  BY <1>1, SessionAssumption DEF Receive, JobsInv, Jobs, jobVars, Pool!Submit
<1>3. \A j \in Jobs : j # reads + 1 => recvBuf'[j] = recvBuf[j]
  BY <1>1 DEF Receive, JobsInv
<1>4. DOMAIN recvBuf' = Jobs
  BY <1>1 DEF Receive, JobsInv
<1>5. JobsInv'
  <2>1. pending \in Seq(1 .. reads + 1)
    <3>1. 1 .. reads \subseteq 1 .. reads + 1  BY <1>2
    <3> QED BY <3>1, <1>1 DEF JobsInv
  <2>2. pending' \in Seq(1 .. reads')
    BY <2>1, <1>2
  <2> QED BY <2>2, <1>1, <1>2, <1>4 DEF JobsInv, Jobs
<1>6. ASSUME NEW j \in Jobs PROVE Freed(j)'
  <2>1. CASE j = reads + 1
    <3>1. pc[j] = "dispatch"  BY <2>1, <1>1, <1>2 DEF JobsInv
    <3> QED BY <3>1, <1>1, <1>2 DEF FreesInv, Freed
  <2>2. CASE j # reads + 1
    BY <2>2, <1>1, <1>2, <1>3 DEF FreesInv, Freed, Type
  <2> QED BY <2>1, <2>2
<1> QED BY <1>1, <1>2, <1>5, <1>6 DEF IInv, FreesInv, Jobs

LEMMA StartIInv == IInv /\ Start => IInv'
<1> SUFFICES ASSUME IInv, Start PROVE IInv'
  OBVIOUS
<1>1. Alive /\ JobsInv /\ FreesInv
  BY DEF IInv, Start
<1>2. UNCHANGED <<main, reads, recvBuf, pc, frees, finished>>
  BY DEF Start, readVars, jobVars, Pool!Start
<1>3. /\ pending' \in Seq(1 .. reads)
      /\ running' \subseteq 1 .. reads
  <2>1. /\ pending \in Seq(1 .. reads) /\ pending # <<>>
        /\ pending' = Tail(pending) /\ running' = running \cup {Head(pending)}
    BY <1>1 DEF Start, JobsInv, Pool!Start
  <2>2. Head(pending) \in 1 .. reads /\ Tail(pending) \in Seq(1 .. reads)
    <3> DEFINE Read == 1 .. reads
    <3>1. pending \in Seq(Read) /\ pending # <<>>
      BY <2>1
    <3> HIDE DEF Read
    <3>2. Head(pending) \in Read /\ Tail(pending) \in Seq(Read)
      BY <3>1
    <3> QED BY <3>2 DEF Read
  <2> QED BY <2>1, <2>2, <1>1 DEF JobsInv
<1> QED BY <1>1, <1>2, <1>3 DEF IInv, JobsInv, FreesInv, Freed, Type, Jobs

\* Every other step of the main thread, and the senders, leave the handlers
\* and what they read alone.
LEMMA QuietIInv ==
  ASSUME IInv,
         Alive' => Alive,
         UNCHANGED <<reads, recvBuf, pc, frees, running, finished>>,
         pending' = pending \/ pending' = <<>>
  PROVE  IInv'
<1> SUFFICES ASSUME Alive' PROVE (JobsInv /\ FreesInv)'
  BY DEF IInv
<1>1. Alive /\ JobsInv /\ FreesInv
  BY DEF IInv
<1>2. pending' \in Seq(1 .. reads)
  <2>1. <<>> \in Seq(1 .. reads)  OBVIOUS
  <2> QED BY <2>1, <1>1 DEF JobsInv
<1> QED BY <1>1, <1>2 DEF JobsInv, FreesInv, Freed, Type, Jobs

-----------------------------------------------------------------------------
\* A handler moves on to l: nothing of the other jobs changes, and the buffer
\* has been freed as it should be where the handler is now.
MovesTo(j, l) ==
  /\ Alive
  /\ Goto(j, l)
  /\ UNCHANGED <<reads, recvBuf, pending>>
  /\ running' \subseteq running
  /\ finished' \subseteq finished \cup {i \in {j} : l = "done"}
  /\ \A i \in Jobs \ {j} : frees'[i] = frees[i]
  /\ j \in running /\ pc[j] # "done"
  /\ frees' \in [Jobs -> Nat]
  /\ CASE l \in {"validate", "latest", "create", "enqueue", "app"}
            -> frees'[j] = 0
       [] l = "free" -> frees'[j] \in {0, 1}
       [] l = "return" -> \/ frees'[j] = 1
                          \/ frees'[j] = 0 /\ Type(j) \notin Cases
       [] l = "done" -> frees'[j] = 1
       [] OTHER -> FALSE

LEMMA MovesIInv ==
  ASSUME IInv, NEW j \in Jobs, NEW l \in Places, MovesTo(j, l) PROVE IInv'
<1>0. Alive /\ JobsInv /\ FreesInv
  BY DEF IInv, MovesTo
<1>1. /\ pc' \in [Jobs -> Places] /\ pc'[j] = l
      /\ \A i \in Jobs : i # j => pc'[i] = pc[i]
  BY <1>0 DEF MovesTo, Goto, JobsInv
<1>2. JobsInv'
  <2>1. j <= reads
    BY <1>0 DEF MovesTo, JobsInv
  <2>2. \A i \in Jobs : i > reads => pc'[i] = "dispatch"
    BY <2>1, <1>0, <1>1 DEF JobsInv, Jobs
  <2>3. /\ pending' = pending /\ reads' = reads /\ recvBuf' = recvBuf
        /\ running' \subseteq 1 .. reads
    BY <1>0 DEF MovesTo, JobsInv
  <2> QED BY <2>2, <2>3, <1>0, <1>1 DEF JobsInv, Jobs
<1>3. ASSUME NEW i \in Jobs PROVE Freed(i)'
  <2>1. CASE i = j
    BY <2>1, <1>1 DEF MovesTo, Freed, Type
  <2>2. CASE i # j
    <3>1. /\ pc'[i] = pc[i] /\ frees'[i] = frees[i]
          /\ Type(i)' = Type(i)
      BY <2>2, <1>1 DEF MovesTo, Type
    <3>2. Freed(i)  BY <1>0 DEF FreesInv
    <3> QED BY <3>1, <3>2 DEF Freed
  <2> QED BY <2>1, <2>2
<1>4. \A i \in finished' : i \in Jobs /\ pc'[i] = "done"
  BY <1>0, <1>1 DEF FreesInv, MovesTo
<1>5. frees' \in [Jobs -> Nat] /\ Jobs' = Jobs
  BY DEF MovesTo, Jobs
<1> QED BY <1>2, <1>3, <1>4, <1>5 DEF IInv, FreesInv

\* Each step of a handler is such a move, or the end of the process.
LEMMA HandlerIInv == ASSUME IInv, NEW j \in Jobs, HandlerStep(j) PROVE IInv'
<1> SUFFICES ASSUME Alive' PROVE IInv'
  BY DEF IInv
<1>0. /\ Alive /\ JobsInv /\ FreesInv /\ j \in running
      /\ frees \in [Jobs -> Nat] /\ Freed(j)
  BY DEF IInv, HandlerStep, At, Dispatch, DispatchUndefined, Validate,
         SetLatest, Create, Enqueue, InsertToAppQueue, FreeBuffer, Return,
         FreesInv
<1>1. SUFFICES \E l \in Places : MovesTo(j, l)
  BY <1>1, MovesIInv
<1>2. /\ UNCHANGED <<reads, recvBuf, pending>>
      /\ running' \subseteq running
      /\ ~Return(j) => finished' = finished
  BY DEF HandlerStep, Dispatch, DispatchUndefined, Validate, SetLatest, Create,
         Enqueue, InsertToAppQueue, FreeBuffer, Return, readVars, poolVars,
         Pool!Finish
\* The steps that free nothing.
<1>3. CASE Dispatch(j)
  <2>1. CASE Type(j) \in Cases
    <3>1. MovesTo(j, "validate")
      BY <2>1, <1>3, <1>0, <1>2 DEF Dispatch, At, Freed, MovesTo, poolVars
    <3> QED BY <3>1 DEF Places
  <2>2. CASE Type(j) \notin Cases
    <3>1. MovesTo(j, "return")
      BY <2>2, <1>3, <1>0, <1>2 DEF Dispatch, At, Freed, MovesTo, poolVars
    <3> QED BY <3>1 DEF Places
  <2> QED BY <2>1, <2>2
<1>4. CASE DispatchUndefined(j)
  BY <1>4 DEF DispatchUndefined, Alive
<1>5. CASE Validate(j)
  <2>1. PICK l \in {"latest", "free"} : Goto(j, l)
    BY <1>5 DEF Validate
  <2>2. MovesTo(j, l)
    BY <2>1, <1>5, <1>0, <1>2 DEF Validate, At, Freed, MovesTo, poolVars
  <2> QED BY <2>2 DEF Places
<1>6. CASE SetLatest(j)
  <2>1. PICK l \in {"create", "app", "free"} : Goto(j, l)
    BY <1>6 DEF SetLatest
  <2>2. MovesTo(j, l)
    BY <2>1, <1>6, <1>0, <1>2 DEF SetLatest, At, Freed, MovesTo, poolVars
  <2> QED BY <2>2 DEF Places
<1>7. CASE Create(j)
  <2>1. MovesTo(j, "enqueue")
    BY <1>7, <1>0, <1>2 DEF Create, At, Freed, MovesTo, poolVars
  <2> QED BY <2>1 DEF Places
<1>8. CASE Enqueue(j)
  <2>1. MovesTo(j, "free")
    BY <1>8, <1>0, <1>2 DEF Enqueue, At, Freed, MovesTo, poolVars
  <2> QED BY <2>1 DEF Places
\* The steps that free the buffer: the process goes on after the first time.
<1>9. ASSUME Free(j)
      PROVE  /\ frees' \in [Jobs -> Nat] /\ frees'[j] = 1
             /\ \A i \in Jobs \ {j} : frees'[i] = frees[i]
  <2>1. frees[j] = 0
    BY <1>9 DEF Free, Alive
  <2> QED BY <2>1, <1>0, <1>9 DEF Free
<1>10. CASE InsertToAppQueue(j)
  <2>1. Free(j)
    BY <1>10 DEF InsertToAppQueue
  <2>2. MovesTo(j, "free")
    BY <2>1, <1>10, <1>0, <1>2, <1>9 DEF InsertToAppQueue, At, MovesTo, poolVars
  <2> QED BY <2>2 DEF Places
<1>11. CASE FreeBuffer(j)
  <2>1. Free(j)
    BY <1>11 DEF FreeBuffer
  <2>2. MovesTo(j, "return")
    BY <2>1, <1>11, <1>0, <1>2, <1>9 DEF FreeBuffer, At, MovesTo, poolVars
  <2> QED BY <2>2 DEF Places
<1>12. CASE Return(j)
  <2>1. /\ frees' \in [Jobs -> Nat] /\ frees'[j] = 1
        /\ \A i \in Jobs \ {j} : frees'[i] = frees[i]
    <3>1. CASE Free(j)
      BY <3>1, <1>9
    <3>2. CASE Type(j) \in Cases /\ UNCHANGED <<main, frees>>
      BY <3>2, <1>12, <1>0 DEF Return, At, Freed
    <3> QED BY <3>1, <3>2, <1>12 DEF Return
  <2>2. finished' = finished \cup {j} /\ Goto(j, "done") /\ pc[j] = "return"
    BY <1>12 DEF Return, At, Pool!Finish
  <2>3. MovesTo(j, "done")
    BY <2>1, <2>2, <1>0, <1>2 DEF MovesTo
  <2> QED BY <2>3 DEF Places
<1> QED BY <1>3, <1>4, <1>5, <1>6, <1>7, <1>8, <1>10, <1>11, <1>12
        DEF HandlerStep

LEMMA NextIInv == IInv /\ [Next]_vars => IInv'
<1> SUFFICES ASSUME IInv, [Next]_vars PROVE IInv'
  OBVIOUS
<1>1. ASSUME NEW m, Receive(m) PROVE IInv'
  BY <1>1, ReceiveIInv
<1>2. CASE DeleteRecvQueue \/ DeleteSendQueue \/ ClosePool \/ DiscardJobs
  <2>1. UNCHANGED <<reads, recvBuf, pc, frees, running, finished>>
    BY <1>2 DEF DeleteRecvQueue, DeleteSendQueue, ClosePool, DiscardJobs,
                readVars, jobVars, poolVars, Pool!Close, Pool!Discard
  <2>2. pending' = pending \/ pending' = <<>>
    BY <1>2 DEF DeleteRecvQueue, DeleteSendQueue, ClosePool, DiscardJobs,
                poolVars, Pool!Close, Pool!Discard
  <2>3. Alive
    BY <1>2 DEF DeleteRecvQueue, DeleteSendQueue, ClosePool, DiscardJobs, Alive
  <2> QED BY <2>1, <2>2, <2>3, QuietIInv
<1>3. CASE Start
  BY <1>3, StartIInv
<1>4. ASSUME NEW j \in Jobs, HandlerStep(j) PROVE IInv'
  BY <1>4, HandlerIInv
<1>5. ASSUME NEW c \in Calls,
             \/ BeginCall(c) \/ CallUndefined(c) \/ Increment(c)
             \/ Reread(c) \/ EnqueueCall(c)
      PROVE  IInv'
  <2>1. UNCHANGED <<reads, recvBuf, pc, frees, running, finished, pending>>
    BY <1>5 DEF BeginCall, CallUndefined, Increment, Reread, EnqueueCall,
                readVars, jobVars, poolVars
  <2>2. Alive
    BY <1>5 DEF BeginCall, CallUndefined, Increment, Reread, EnqueueCall, CallAt
  <2> QED BY <2>1, <2>2, QuietIInv
<1>6. CASE Generate
  <2>1. UNCHANGED <<reads, recvBuf, pc, frees, running, finished, pending>>
    BY <1>6 DEF Generate, readVars, jobVars, poolVars
  <2>2. Alive
    BY <1>6 DEF Generate, CallAt
  <2> QED BY <2>1, <2>2, QuietIInv
<1>7. CASE UNCHANGED vars
  BY <1>7, QuietIInv DEF vars, readVars, jobVars, poolVars, Alive
<1> QED BY <1>1, <1>2, <1>3, <1>4, <1>5, <1>6, <1>7 DEF Next

-----------------------------------------------------------------------------
\* In every reachable state of the handlers, the senders and the teardown the
\* strengthening holds; the theorem below follows from it.
THEOREM Invariance == Spec => []IInv
BY InitIInv, NextIInv, PTL DEF Spec, SafeSpec

\* On every way out of every handler, whatever the validator says and whatever
\* the other threads do, the message has been freed and not twice.
THEOREM MessagesFreed == Spec => []FreedOnce
<1>1. IInv => FreedOnce
  BY DEF IInv, FreesInv, Freed, FreedOnce
<1> QED BY <1>1, Invariance, PTL

-----------------------------------------------------------------------------
(***************************************************************************)
(* What relates the places of the handlers to the single steps that        *)
(* CcSecureChannel has for them.                                           *)
(***************************************************************************)
Queued == [by : Replies \cup AppMsgs, xid : Xids]

\* Whether who has a message among those that were queued.
HasSent(who) == \E i \in DOMAIN sent : sent[i].by = who
Replied(j) == HasSent(ReplyOf(j))

\* What a handler has done and can still do, given where it is: whether it has
\* answered and the kind its message has in CcSecureChannel.
KindAt(j) ==
  LET kind == KindOf(recvBuf[j])
  IN CASE pc[j] = "dispatch" -> ~Replied(j)
       [] pc[j] = "validate" -> ~Replied(j) /\ Type(j) \in Cases
       [] pc[j] = "latest" -> /\ ~Replied(j)
                              /\ Type(j) \in Cases \ (WithEntry \cup Mistaken)
                              /\ Type(j) = "HELLO" \/ recvBuf[j].valid
       [] pc[j] \in {"create", "enqueue"} -> /\ ~Replied(j)
                                             /\ kind \in {"hello", "echo"}
       [] pc[j] = "app" -> ~Replied(j) /\ kind = "app"
       [] pc[j] = "free" ->
            IF frees[j] = 1 /\ ~Replied(j) THEN kind = "app"
            ELSE IF Replied(j) THEN kind # "app" /\ frees[j] = 0
            ELSE kind \in {"hello", "silent", "error"}
       [] OTHER -> kind # "app"

\* Queues, messages and identifiers are what they should be, and there where
\* they are used.
DataInv ==
  /\ TypeOK
  /\ recvQueue \in RecvQueue!QueueState \cup {NULL}
  /\ main \in {"select", "delete_recv"} => recvQueue # NULL
  /\ sendQueue \in SendQueue!QueueState \cup {NULL}
  /\ sent \in Seq(Queued)
  /\ \A j \in Jobs : pc[j] # "dispatch" => recvBuf[j] # NULL
  /\ \A j \in Jobs : pc[j] = "enqueue" => sendBuf[j] \in Xids
  /\ \A c \in Calls : call[c] \in {"increment", "enqueue"} => callXid[c] \in Xids

KindInv ==
  /\ Alive => \A j \in Jobs : KindAt(j)
  /\ \A c \in Calls : call[c] # "done" => ~HasSent([call |-> c])

ChannelInv == DataInv /\ KindInv

\* What cc_recv_from_secure_channel may read next.
Incoming == [read : {reads + 1}, type : Types, valid : BOOLEAN, xid : PeerXids]
              \cup {NULL}

-----------------------------------------------------------------------------
(***************************************************************************)
(* Identifiers stay on two bytes, whatever is added, swapped and read.     *)
(***************************************************************************)
LEMMA Modulo ==
  ASSUME NEW a \in Nat, NEW b \in Nat, b > 0
  PROVE  /\ a % b \in 0 .. b - 1
         /\ a \div b \in Nat
         /\ a = b * (a \div b) + (a % b)
OBVIOUS

LEMMA XidsClosed ==
  ASSUME NEW x \in Xids PROVE After(x) \in Xids /\ ntohl(x) \in Xids
<1>1. Base \in Nat /\ Base > 0 /\ Base * Base \in Nat /\ Base * Base > 0
  BY SessionAssumption
<1>2. x \in Nat /\ x < Base * Base
  BY <1>1 DEF Xids
<1>3. After(x) \in Xids
  BY <1>1, <1>2, Modulo DEF After, Xids
<1>4. ntohl(x) \in Xids
  <2> DEFINE r == x % Base
             q == x \div Base
  <2>1. /\ r \in Nat /\ r <= Base - 1 /\ q \in Nat /\ x = Base * q + r
    BY <1>1, <1>2, Modulo
  <2>2. ntohl(x) = r * Base + q
    BY DEF ntohl
  <2> HIDE DEF r, q
  <2>3. q < Base
    <3> SUFFICES ASSUME q >= Base PROVE FALSE
      BY <1>1, <2>1
    <3>1. PICK d \in Nat : q = Base + d
      <4>1. q - Base \in Nat /\ q = Base + (q - Base)
        BY <1>1, <2>1
      <4> QED BY <4>1
    <3>2. Base * q = Base * Base + Base * d /\ Base * d \in Nat
      BY <3>1, <1>1
    <3> QED BY <3>2, <1>1, <1>2, <2>1
  <2>4. PICK e \in Nat : r = Base - 1 - e
    <3>1. Base - 1 - r \in Nat /\ r = Base - 1 - (Base - 1 - r)
      BY <1>1, <2>1
    <3> QED BY <3>1
  <2>5. r * Base = Base * Base - Base - e * Base /\ e * Base \in Nat
    BY <2>4, <1>1
  <2>6. r * Base + q <= Base * Base - 1 /\ r * Base + q \in Nat
    BY <2>1, <2>3, <2>5, <1>1
  <2> QED BY <2>2, <2>6, <1>1 DEF Xids
<1> QED BY <1>3, <1>4

LEMMA LatestType ==
  0 \in Xids /\ \A x \in Xids : x # Base * Base - 1 => x + 1 \in Xids
BY SessionAssumption DEF Xids

\* A message more in the history.
LEMMA SentMore ==
  ASSUME sent \in Seq(Queued), NEW by \in Replies \cup AppMsgs, NEW x \in Xids,
         sent' = Append(sent, [by |-> by, xid |-> x])
  PROVE  /\ sent' \in Seq(Queued)
         /\ \A who : HasSent(who)' <=> HasSent(who) \/ who = by
<1> DEFINE e == [by |-> by, xid |-> x]
           n == Len(sent)
<1>1. e \in Queued /\ e.by = by
  BY DEF Queued
<1>2. /\ n \in Nat /\ DOMAIN sent = 1 .. n /\ sent' \in Seq(Queued)
      /\ DOMAIN sent' = 1 .. n + 1
      /\ \A i \in 1 .. n : sent'[i] = sent[i]
      /\ sent'[n + 1] = e
  BY <1>1
<1> HIDE DEF n, e
<1>3. ASSUME NEW who PROVE HasSent(who)' <=> HasSent(who) \/ who = by
  <2>1. HasSent(who)' <=> \E i \in 1 .. n + 1 : sent'[i].by = who
    BY <1>2 DEF HasSent
  <2>2. HasSent(who) <=> \E i \in 1 .. n : sent'[i].by = who
    BY <1>2 DEF HasSent
  <2>3. 1 .. n + 1 = 1 .. n \cup {n + 1}
    BY <1>2
  <2> QED BY <2>1, <2>2, <2>3, <1>1, <1>2
<1> QED BY <1>2, <1>3

\* A reply is nothing the application has asked for.
LEMMA WhoDiffers ==
  /\ \A j \in Jobs, c \in Calls : ReplyOf(j) # [call |-> c]
  /\ \A i, j \in Jobs : ReplyOf(i) = ReplyOf(j) => i = j
  /\ \A c, d \in Calls : [call |-> c] = [call |-> d] => c = d
<1>1. ASSUME NEW j \in Jobs, NEW c \in Calls PROVE ReplyOf(j) # [call |-> c]
  <2>1. DOMAIN ReplyOf(j) = {"reply"} /\ DOMAIN [call |-> c] = {"call"}
    BY DEF ReplyOf
  <2> QED BY <2>1
<1>2. ASSUME NEW i \in Jobs, NEW j \in Jobs, ReplyOf(i) = ReplyOf(j) PROVE i = j
  <2>1. ReplyOf(i).reply = i /\ ReplyOf(j).reply = j
    BY DEF ReplyOf
  <2> QED BY <2>1, <1>2
<1>3. ASSUME NEW c \in Calls, NEW d \in Calls, [call |-> c] = [call |-> d]
      PROVE  c = d
  <2>1. [call |-> c].call = c /\ [call |-> d].call = d
    OBVIOUS
  <2> QED BY <2>1, <1>3
<1> QED BY <1>1, <1>2, <1>3

LEMMA QueueTypes ==
  ASSUME NEW q \in SendQueue!QueueState, NEW e \in Queued
  PROVE  SendQueue!Enqueued(q, e) \in SendQueue!QueueState
<1>1. SendQueue!QueueState
        = [fifo : Seq(Queued), stranded : Int, drained : BOOLEAN]
  BY DEF SendQueue!QueueState, Queued
<1>2. Append(q.fifo, e) \in Seq(Queued)
  BY <1>1
<1>3. CASE q.drained
  <2>1. SendQueue!Enqueued(q, e) = [q EXCEPT !.stranded = @ + 1]
    BY <1>3 DEF SendQueue!Enqueued
  <2> QED BY <2>1, <1>1
<1>4. CASE ~q.drained
  <2>1. SendQueue!Enqueued(q, e) = [q EXCEPT !.fifo = Append(@, e)]
    BY <1>4 DEF SendQueue!Enqueued
  <2> QED BY <2>1, <1>1, <1>2
<1> QED BY <1>3, <1>4

LEMMA RecvTypes ==
  ASSUME NEW q \in RecvQueue!QueueState
  PROVE  /\ \A m \in Message : RecvQueue!Enqueued(q, m) \in RecvQueue!QueueState
         /\ RecvQueue!FirstOf(q) \in Message \cup {NULL}
         /\ RecvQueue!Dequeued(q) \in RecvQueue!QueueState
<1>1. ASSUME NEW m \in Message
      PROVE  RecvQueue!Enqueued(q, m) \in RecvQueue!QueueState
  BY SMTT(20) DEF RecvQueue!QueueState, RecvQueue!Enqueued
<1>2. q.fifo \in Seq(Message)
  BY DEF RecvQueue!QueueState
<1>3. CASE q.fifo = <<>>
  BY <1>1, <1>3 DEF RecvQueue!FirstOf, RecvQueue!Dequeued
<1>4. CASE q.fifo # <<>>
  <2>1. Head(q.fifo) \in Message /\ Tail(q.fifo) \in Seq(Message)
        /\ (Len(q.fifo) = 1) \in BOOLEAN
    BY <1>2, <1>4
  <2> QED BY <2>1, <1>1, <1>4
          DEF RecvQueue!QueueState, RecvQueue!FirstOf, RecvQueue!Dequeued
<1> QED BY <1>3, <1>4

-----------------------------------------------------------------------------
LEMMA InitDataInv == Init => DataInv
<1> SUFFICES ASSUME Init PROVE DataInv
  OBVIOUS
<1>1. 0 \in Xids
  BY LatestType
<1>2. TypeOK
  BY <1>1, SessionAssumption DEF Init, TypeOK, Jobs
<1>3. /\ <<>> \in Seq(Message)
      /\ <<>> \in Seq([by : Replies \cup AppMsgs, xid : Xids])
      /\ sent \in Seq(Queued)
  BY DEF Init
<1>4. recvQueue \in RecvQueue!QueueState /\ sendQueue \in SendQueue!QueueState
  BY <1>3 DEF Init, RecvQueue!QueueState, RecvQueue!NewQueue,
              SendQueue!QueueState, SendQueue!NewQueue
<1>5. recvQueue # NULL
  BY <1>4, NullAssumption
<1> QED BY <1>2, <1>3, <1>4, <1>5 DEF Init, DataInv

\* The main thread.
LEMMA MainDataInv ==
  ASSUME IInv, DataInv,
         \/ \E m \in Incoming : Receive(m)
         \/ DeleteRecvQueue \/ DeleteSendQueue \/ ClosePool \/ DiscardJobs
         \/ Start
  PROVE  DataInv'
<1>0. TypeOK
  BY DEF DataInv
<1>1. ASSUME NEW m \in Incoming, Receive(m)
      PROVE  DataInv'
  <2> DEFINE q == IF m = NULL THEN recvQueue ELSE RecvQueue!Enqueued(recvQueue, m)
  <2>1. reads + 1 \in Jobs /\ reads' = reads + 1 /\ main = "select"
    BY <1>0, <1>1, SessionAssumption DEF Receive, TypeOK, Jobs
  <2>2. m \in Message \cup {NULL}
    BY <2>1 DEF Message, Incoming
  <2>3. recvQueue \in RecvQueue!QueueState /\ q \in RecvQueue!QueueState
    BY <2>1, <2>2, RecvTypes DEF DataInv
  <2>4. /\ recvBuf' = [recvBuf EXCEPT ![reads + 1] = RecvQueue!FirstOf(q)]
        /\ recvQueue' = RecvQueue!Dequeued(q)
    BY <1>1 DEF Receive
  <2> HIDE DEF q
  <2>5. /\ RecvQueue!FirstOf(q) \in Message \cup {NULL}
        /\ recvQueue' \in RecvQueue!QueueState /\ recvQueue' # NULL
    BY <2>3, <2>4, RecvTypes, NullAssumption
  <2>6. UNCHANGED <<sendQueue, sent, pc, sendBuf, frees, latest, call, callXid>>
        /\ main' \in {"select", "delete_recv", "undefined"}
    BY <1>1 DEF Receive, queueVars, jobVars, callVars
  <2>7. TypeOK'
    BY <1>0, <2>1, <2>4, <2>5, <2>6, SessionAssumption
       DEF TypeOK, Jobs, Message
  <2>8. ASSUME NEW j \in Jobs, pc'[j] # "dispatch" PROVE recvBuf'[j] # NULL
    <3>1. j # reads + 1
      BY <2>1, <2>6, <2>8 DEF IInv, JobsInv, Alive
    <3>2. recvBuf'[j] = recvBuf[j]
      BY <3>1, <2>4, <1>0 DEF TypeOK
    <3> QED BY <3>2, <2>6, <2>8 DEF DataInv
  <2> QED BY <2>5, <2>6, <2>7, <2>8, <1>0 DEF DataInv, Jobs
<1>2. CASE DeleteRecvQueue \/ DeleteSendQueue
  <2>1. /\ UNCHANGED <<reads, recvBuf, sent, pc, sendBuf, frees, latest, call,
                       callXid>>
        /\ main' \in {"delete_send", "close_pool"}
        /\ recvQueue' \in {recvQueue, NULL} /\ sendQueue' \in {sendQueue, NULL}
    BY <1>2
       DEF DeleteRecvQueue, DeleteSendQueue, readVars, queueVars, jobVars,
           callVars
  <2>2. TypeOK'
    BY <2>1, <1>0 DEF TypeOK, Jobs
  <2> QED BY <2>1, <2>2 DEF DataInv, Jobs
<1>3. CASE ClosePool \/ DiscardJobs \/ Start
  <2>1. /\ UNCHANGED <<reads, recvQueue, recvBuf, sendQueue, sent, pc, sendBuf,
                       frees, latest, call, callXid>>
        /\ main' = main \/ main' \in {"discard", "returned"}
    BY <1>3
       DEF ClosePool, DiscardJobs, Start, readVars, queueVars, jobVars,
           callVars
  <2>2. TypeOK'
    BY <2>1, <1>0 DEF TypeOK, Jobs
  <2> QED BY <2>1, <2>2 DEF DataInv, Jobs
<1> QED BY <1>1, <1>2, <1>3

\* What a thread of the pool does to the data: it goes on to another place of
\* its handler with what that place needs.
LEMMA HandlerDataInv ==
  ASSUME IInv, DataInv, NEW j \in Jobs, HandlerStep(j) PROVE DataInv'
<1>0. /\ TypeOK /\ Alive /\ JobsInv /\ FreesInv /\ j \in running
  BY DEF DataInv, IInv, HandlerStep, At, Dispatch, DispatchUndefined, Validate,
         SetLatest, Create, Enqueue, InsertToAppQueue, FreeBuffer, Return
<1>1. UNCHANGED <<reads, recvQueue, recvBuf, call, callXid>>
  BY DEF HandlerStep, Dispatch, DispatchUndefined, Validate, SetLatest, Create,
         Enqueue, InsertToAppQueue, FreeBuffer, Return, readVars, callVars
<1>2. main' \in {main, "undefined"}
  BY DEF HandlerStep, Dispatch, DispatchUndefined, Validate, SetLatest, Create,
         Enqueue, InsertToAppQueue, FreeBuffer, Return, Free
<1> DEFINE Moved(l) == pc' = [pc EXCEPT ![j] = l]
<1>3. \/ pc' = pc
      \/ Moved("validate") \/ Moved("latest") \/ Moved("create") \/ Moved("app")
      \/ Moved("free") \/ Moved("return") \/ Moved("done")
      \/ Create(j) /\ Moved("enqueue")
  BY DEF HandlerStep, Dispatch, DispatchUndefined, Validate, SetLatest, Create,
         Enqueue, InsertToAppQueue, FreeBuffer, Return, Goto, jobVars
<1>4. pc' \in [Jobs -> Places]
  BY <1>0, <1>3 DEF JobsInv, Places
<1>5. frees' \in [Jobs -> 0 .. 2]
  <2>1. frees' = frees \/ frees' = [frees EXCEPT ![j] = @ + 1]
    BY DEF HandlerStep, Dispatch, DispatchUndefined, Validate, SetLatest,
           Create, Enqueue, InsertToAppQueue, FreeBuffer, Return, Free, jobVars
  <2>2. frees[j] \in 0 .. 1
    BY <1>0 DEF FreesInv, Freed
  <2> QED BY <2>1, <2>2, <1>0 DEF TypeOK
<1>6. recvBuf[j] \in Message \/ pc[j] = "dispatch"
  BY <1>0 DEF DataInv, TypeOK
<1>7. latest' \in Xids
  <2>1. CASE SetLatest(j)
    <3>1. recvBuf[j].xid \in Xids
      BY <2>1, <1>6, SessionAssumption DEF SetLatest, At, Message
    <3> QED BY <2>1, <3>1, XidsClosed DEF SetLatest
  <2>2. CASE ~SetLatest(j)
    <3>1. latest' = latest
      BY <2>2 DEF HandlerStep, Dispatch, DispatchUndefined, Validate, Create,
             Enqueue, InsertToAppQueue, FreeBuffer, Return
    <3> QED BY <3>1, <1>0 DEF TypeOK
  <2> QED BY <2>1, <2>2
<1>8. /\ sendBuf' \in [Jobs -> Xids \cup {NULL}]
      /\ \A i \in Jobs : pc'[i] = "enqueue" => sendBuf'[i] \in Xids
  <2>1. CASE Create(j)
    <3>1. CreatedXid(j) \in Xids
      <4>1. latest \in Xids /\ recvBuf[j].xid \in Xids
        BY <2>1, <1>0, <1>6, SessionAssumption DEF Create, At, Message, TypeOK
      <4> QED BY <4>1, XidsClosed DEF CreatedXid
    <3>2. /\ sendBuf' = [sendBuf EXCEPT ![j] = CreatedXid(j)]
          /\ pc' = [pc EXCEPT ![j] = "enqueue"]
      BY <2>1 DEF Create, Goto
    <3> QED BY <3>1, <3>2, <1>0 DEF TypeOK, DataInv
  <2>2. CASE ~Create(j)
    <3>1. sendBuf' = sendBuf
      BY <2>2
         DEF HandlerStep, Dispatch, DispatchUndefined, Validate, SetLatest,
             Enqueue, InsertToAppQueue, FreeBuffer, Return, jobVars
    <3>2. \A i \in Jobs : pc'[i] = "enqueue" => pc[i] = "enqueue"
      BY <2>2, <1>0, <1>3 DEF TypeOK
    <3> QED BY <3>1, <3>2, <1>0 DEF TypeOK, DataInv
  <2> QED BY <2>1, <2>2
<1>9. TypeOK'
  BY <1>0, <1>1, <1>2, <1>4, <1>5, <1>7, <1>8 DEF TypeOK, Jobs, Places
<1>10. sent' \in Seq(Queued) /\ sendQueue' \in SendQueue!QueueState \cup {NULL}
  <2>1. CASE Enqueue(j)
    <3>1. sendBuf[j] \in Xids /\ ReplyOf(j) \in Replies
      BY <2>1 DEF DataInv, Enqueue, At, ReplyOf, Replies
    <3> DEFINE e == [by |-> ReplyOf(j), xid |-> sendBuf[j]]
    <3>2. e \in Queued
      BY <3>1 DEF Queued
    <3>3. /\ sendQueue # NULL /\ sendQueue' = SendQueue!Enqueued(sendQueue, e)
          /\ sent' = Append(sent, e)
      BY <2>1 DEF Enqueue, Put
    <3> HIDE DEF e
    <3> QED BY <3>2, <3>3, QueueTypes DEF DataInv
  <2>2. CASE ~Enqueue(j)
    <3>1. UNCHANGED <<sent, sendQueue>>
      BY <2>2
         DEF HandlerStep, Dispatch, DispatchUndefined, Validate, SetLatest,
             Create, InsertToAppQueue, FreeBuffer, Return, queueVars
    <3> QED BY <3>1 DEF DataInv
  <2> QED BY <2>1, <2>2
<1>11. \A i \in Jobs : pc'[i] # "dispatch" => recvBuf'[i] # NULL
  <2>1. CASE Dispatch(j)
    BY <2>1, <1>0, <1>1 DEF Dispatch, Goto, DataInv, TypeOK
  <2>2. CASE ~Dispatch(j)
    <3>1. pc[j] # "dispatch" \/ pc' = pc
      BY <2>2 DEF HandlerStep, DispatchUndefined, Validate, SetLatest, Create,
             Enqueue, InsertToAppQueue, FreeBuffer, Return, At, jobVars
    <3>2. \A i \in Jobs : i # j => pc'[i] = pc[i]
      BY <1>0, <1>3 DEF JobsInv
    <3> QED BY <3>1, <3>2, <1>1 DEF DataInv
  <2> QED BY <2>1, <2>2
<1>12. main' = "select" \/ main' = "delete_recv" => main' = main
  BY <1>2
<1> QED BY <1>1, <1>8, <1>9, <1>10, <1>11, <1>12 DEF DataInv, Jobs

\* The senders.
LEMMA SenderDataInv ==
  ASSUME DataInv,
         \/ Generate
         \/ \E c \in Calls : \/ BeginCall(c) \/ CallUndefined(c) \/ Increment(c)
                             \/ Reread(c) \/ EnqueueCall(c)
  PROVE  DataInv'
<1>0. TypeOK
  BY DEF DataInv
<1>1. /\ UNCHANGED <<reads, recvQueue, recvBuf, pc, sendBuf, frees>>
      /\ main' \in {main, "undefined"}
  BY DEF Generate, BeginCall, CallUndefined, Increment, Reread, EnqueueCall,
         readVars, jobVars
<1> DEFINE CallsInv ==
      /\ latest \in Xids
      /\ call \in [Calls -> {"begin", "increment", "reread", "enqueue", "done"}]
      /\ callXid \in [Calls -> Xids \cup {NULL}]
      /\ \A c \in Calls :
           call[c] \in {"increment", "enqueue"} => callXid[c] \in Xids
<1>2. CallsInv
  BY <1>0 DEF TypeOK, DataInv
<1>3. CallsInv'
  <2>1. CASE Generate
    BY <1>2, <2>1, LatestType DEF Generate
  <2>2. ASSUME NEW c \in Calls, BeginCall(c) \/ Reread(c) PROVE CallsInv'
    <3>1. PICK l \in {"enqueue", "increment"} :
            /\ callXid' = [callXid EXCEPT ![c] = latest] /\ latest' = latest
            /\ call' = [call EXCEPT ![c] = l]
      BY <2>2 DEF BeginCall, Reread
    <3> QED BY <3>1, <1>2
  <2>3. ASSUME NEW c \in Calls, Increment(c) PROVE CallsInv'
    <3>1. /\ latest' \in Xids /\ callXid' = callXid /\ callXid[c] \in Xids
          /\ call' = [call EXCEPT ![c] = "enqueue"]
      BY <2>3, <1>2, XidsClosed DEF Increment, CallAt
    <3> QED BY <3>1, <1>2
  <2>4. ASSUME NEW c \in Calls, CallUndefined(c) \/ EnqueueCall(c) PROVE CallsInv'
    <3>1. /\ UNCHANGED <<latest, callXid>>
          /\ call' = call \/ call' = [call EXCEPT ![c] = "done"]
      BY <2>4 DEF CallUndefined, EnqueueCall, callVars
    <3> QED BY <3>1, <1>2
  <2> QED BY <2>1, <2>2, <2>3, <2>4
<1>4. sent' \in Seq(Queued) /\ sendQueue' \in SendQueue!QueueState \cup {NULL}
  <2>1. ASSUME NEW c \in Calls, EnqueueCall(c) 
        PROVE  /\ sent' \in Seq(Queued)
               /\ sendQueue' \in SendQueue!QueueState \cup {NULL}
    <3> DEFINE e == [by |-> [call |-> c], xid |-> ntohl(callXid[c])]
    <3>1. callXid[c] \in Xids
      BY <2>1, <1>2 DEF EnqueueCall, CallAt
    <3>2. e \in Queued
      BY <3>1, XidsClosed DEF Queued, AppMsgs
    <3>3. /\ sendQueue # NULL /\ sendQueue' = SendQueue!Enqueued(sendQueue, e)
          /\ sent' = Append(sent, e)
      BY <2>1 DEF EnqueueCall, Put
    <3> HIDE DEF e
    <3> QED BY <3>2, <3>3, QueueTypes DEF DataInv
  <2>2. CASE UNCHANGED <<sent, sendQueue>>
    BY <2>2 DEF DataInv
  <2> QED BY <2>1, <2>2
             DEF Generate, BeginCall, CallUndefined, Increment, Reread,
                 queueVars
<1>5. TypeOK'
  BY <1>0, <1>1, <1>3 DEF TypeOK, Jobs
<1> QED BY <1>1, <1>3, <1>4, <1>5 DEF DataInv, Jobs

LEMMA NextDataInv == IInv /\ DataInv /\ [Next]_vars => DataInv'
<1> SUFFICES ASSUME IInv, DataInv, [Next]_vars PROVE DataInv'
  OBVIOUS
<1>1. CASE UNCHANGED vars
  BY <1>1
     DEF vars, readVars, queueVars, jobVars, callVars, DataInv, TypeOK, Jobs
<1> QED BY <1>1, MainDataInv, HandlerDataInv, SenderDataInv DEF Next, Incoming

-----------------------------------------------------------------------------
\* What a handler was to do, when nothing of it has changed.
LEMMA KindKept ==
  ASSUME NEW i \in Jobs, KindAt(i),
         recvBuf'[i] = recvBuf[i], pc'[i] = pc[i], frees'[i] = frees[i],
         HasSent(ReplyOf(i))' <=> HasSent(ReplyOf(i))
  PROVE  KindAt(i)'
<1>1. (Replied(i)' <=> Replied(i)) /\ Type(i)' = Type(i)
  BY DEF Replied, Type, ReplyOf
<1> QED BY <1>1 DEF KindAt

LEMMA InitKindInv == Init => KindInv
<1> SUFFICES ASSUME Init PROVE KindInv
  OBVIOUS
<1>1. \A who : ~HasSent(who)
  BY DEF Init, HasSent
<1> QED BY <1>1 DEF Init, KindInv, KindAt, Replied

LEMMA MainKindInv ==
  ASSUME IInv, DataInv, KindInv,
         \/ \E m \in Incoming : Receive(m)
         \/ DeleteRecvQueue \/ DeleteSendQueue \/ ClosePool \/ DiscardJobs
         \/ Start
  PROVE  KindInv'
<1>1. /\ UNCHANGED <<pc, frees, sent, call>> /\ Alive
  BY DEF Receive, DeleteRecvQueue, DeleteSendQueue, ClosePool, DiscardJobs,
         Start, Alive, queueVars, jobVars, callVars
<1>2. \A who : HasSent(who)' <=> HasSent(who)
  BY <1>1 DEF HasSent
<1>3. ASSUME NEW i \in Jobs PROVE KindAt(i)'
  <2>1. KindAt(i)
    BY <1>1 DEF KindInv
  <2>2. CASE pc[i] = "dispatch"
    BY <2>1, <2>2, <1>1, <1>2 DEF KindAt, Replied, ReplyOf
  <2>3. CASE pc[i] # "dispatch"
    <3>1. recvBuf'[i] = recvBuf[i]
      <4>1. ASSUME NEW m, Receive(m) PROVE recvBuf'[i] = recvBuf[i]
        <5>1. i <= reads /\ reads \in Nat /\ DOMAIN recvBuf = Jobs
          BY <1>1, <2>3 DEF IInv, JobsInv, Jobs
        <5> QED BY <4>1, <5>1 DEF Receive
      <4> QED BY <4>1 DEF DeleteRecvQueue, DeleteSendQueue, ClosePool,
                          DiscardJobs, Start, readVars
    <3> QED BY <3>1, <2>1, <1>1, <1>2, KindKept
  <2> QED BY <2>2, <2>3
<1> QED BY <1>1, <1>2, <1>3 DEF KindInv, Jobs

LEMMA HandlerKindInv ==
  ASSUME IInv, DataInv, KindInv, NEW j \in Jobs, HandlerStep(j) PROVE KindInv'
<1> SUFFICES ASSUME Alive' PROVE KindInv'
  <2>1. CASE ~Alive'
    <3>1. \A who \in AppMsgs : HasSent(who)' <=> HasSent(who)
      <4>1. UNCHANGED sent
        BY <2>1
           DEF HandlerStep, Dispatch, DispatchUndefined, Validate, SetLatest,
               Create, Enqueue, InsertToAppQueue, FreeBuffer, Return, At,
               Alive, queueVars
      <4> QED BY <4>1 DEF HasSent
    <3>2. call' = call
      BY DEF HandlerStep, Dispatch, DispatchUndefined, Validate, SetLatest,
             Create, Enqueue, InsertToAppQueue, FreeBuffer, Return, callVars
    <3> QED BY <2>1, <3>1, <3>2 DEF KindInv, AppMsgs
  <2> QED BY <2>1
<1>0. /\ TypeOK /\ Alive /\ JobsInv /\ FreesInv /\ j \in running /\ KindAt(j)
      /\ Freed(j)
  BY DEF DataInv, IInv, KindInv, FreesInv, HandlerStep, At, Dispatch,
         DispatchUndefined, Validate, SetLatest, Create, Enqueue,
         InsertToAppQueue, FreeBuffer, Return
<1>1. UNCHANGED <<recvBuf, call>>
  BY DEF HandlerStep, Dispatch, DispatchUndefined, Validate, SetLatest, Create,
         Enqueue, InsertToAppQueue, FreeBuffer, Return, readVars, callVars
<1>2. \A i \in Jobs : i # j => pc'[i] = pc[i] /\ frees'[i] = frees[i]
  BY <1>0
     DEF HandlerStep, Dispatch, DispatchUndefined, Validate, SetLatest, Create,
         Enqueue, InsertToAppQueue, FreeBuffer, Return, Goto, Free, jobVars,
         TypeOK
<1>3. \A who : who # ReplyOf(j) => (HasSent(who)' <=> HasSent(who))
  <2>1. CASE Enqueue(j)
    <3>1. /\ sent \in Seq(Queued) /\ sendBuf[j] \in Xids
          /\ ReplyOf(j) \in Replies \cup AppMsgs
      BY <2>1 DEF DataInv, Enqueue, At, ReplyOf, Replies
    <3>2. sent' = Append(sent, [by |-> ReplyOf(j), xid |-> sendBuf[j]])
      BY <2>1 DEF Enqueue, Put
    <3> QED BY <3>1, <3>2, SentMore
  <2>2. CASE ~Enqueue(j)
    <3>1. sent' = sent
      BY <2>2
         DEF HandlerStep, Dispatch, DispatchUndefined, Validate, SetLatest,
             Create, InsertToAppQueue, FreeBuffer, Return, queueVars
    <3> QED BY <3>1 DEF HasSent
  <2> QED BY <2>1, <2>2
<1>4. ASSUME NEW i \in Jobs, i # j PROVE KindAt(i)'
  <2>1. KindAt(i) /\ ReplyOf(i) # ReplyOf(j)
    BY <1>0, <1>4, WhoDiffers DEF KindInv
  <2>2. HasSent(ReplyOf(i))' <=> HasSent(ReplyOf(i))
    BY <2>1, <1>3
  <2> QED BY <2>1, <2>2, <1>1, <1>2, <1>4, KindKept
<1>5. \A c \in Calls : call'[c] # "done" => ~HasSent([call |-> c])'
  BY <1>1, <1>3, WhoDiffers DEF KindInv
<1>6. ~Enqueue(j) => (Replied(j)' <=> Replied(j))
  <2>1. ~Enqueue(j) => sent' = sent
    BY DEF HandlerStep, Dispatch, DispatchUndefined, Validate, SetLatest,
           Create, InsertToAppQueue, FreeBuffer, Return, queueVars
  <2> QED BY <2>1 DEF Replied, HasSent, ReplyOf
<1>7. recvBuf'[j] = recvBuf[j] /\ Type(j)' = Type(j) /\ Type(j) = recvBuf[j].type
  BY <1>1 DEF Type
<1>8. pc[j] # "dispatch" => recvBuf[j] \in Message
  BY <1>0 DEF DataInv, TypeOK
<1>9. KindAt(j)'
  <2>1. CASE Dispatch(j)
    <3>1. pc'[j] \in {"validate", "return"} /\ ~Replied(j)
          /\ (pc'[j] = "validate" <=> Type(j) \in Cases)
      BY <2>1, <1>0 DEF Dispatch, At, Goto, KindAt, TypeOK
    <3>2. ~Replied(j)'
      BY <2>1, <3>1, <1>6 DEF Dispatch, Enqueue, At
    <3>3. Type(j) \notin Cases => KindOf(recvBuf[j]) = "silent"
      BY <1>7 DEF KindOf, Cases, Answered, WithEntry, Forwarded, Mistaken
    <3> QED BY <3>1, <3>2, <3>3, <1>7 DEF KindAt
  <2>2. CASE DispatchUndefined(j)
    BY <2>2 DEF DispatchUndefined, Alive
  <2>3. CASE Validate(j)
    <3>1. PICK accepted \in Verdicts(recvBuf[j]) :
            pc' = [pc EXCEPT ![j] = IF accepted /\ Type(j) \notin WithEntry
                                    THEN "latest" ELSE "free"]
      BY <2>3 DEF Validate, Goto
    <3>2. ~Replied(j) /\ ~Replied(j)' /\ Type(j) \in Cases /\ frees'[j] = 0
          /\ recvBuf[j] \in Message
      BY <2>3, <1>0, <1>6, <1>8 DEF Validate, Enqueue, At, KindAt, Freed
    <3>3. CASE accepted /\ Type(j) \notin WithEntry
      <4>1. pc'[j] = "latest"
        BY <3>1, <3>3, <1>0 DEF TypeOK
      <4>2. Type(j) = "HELLO" \/ (recvBuf[j].valid /\ Type(j) \notin Mistaken)
        BY <3>3, <3>2, <1>7 DEF Verdicts, Message
      <4> QED BY <3>2, <3>3, <4>1, <4>2, <1>7 DEF KindAt, Mistaken
    <3>4. CASE ~(accepted /\ Type(j) \notin WithEntry)
      <4>1. pc'[j] = "free"
        BY <3>1, <3>4, <1>0 DEF TypeOK
      <4>2. KindOf(recvBuf[j]) \in {"hello", "silent", "error"}
        BY <3>2, <3>4, <1>7
           DEF Verdicts, Message, KindOf, WithEntry, Forwarded, Mistaken
      <4> QED BY <3>2, <4>1, <4>2, <1>7 DEF KindAt
    <3> QED BY <3>3, <3>4
  <2>4. CASE SetLatest(j)
    <3>1. /\ ~Replied(j) /\ ~Replied(j)' /\ frees'[j] = 0 /\ recvBuf[j] \in Message
          /\ Type(j) \in Cases \ (WithEntry \cup Mistaken)
          /\ Type(j) = "HELLO" \/ recvBuf[j].valid
      BY <2>4, <1>0, <1>6, <1>8 DEF SetLatest, Enqueue, At, KindAt, Freed
    <3>2. pc'[j] = CASE Type(j) \in Answered -> "create"
                     [] Type(j) \in Forwarded -> "app"
                     [] OTHER -> "free"
      BY <2>4, <1>0 DEF SetLatest, Goto, TypeOK
    <3>3. /\ Type(j) \in Answered => KindOf(recvBuf[j]) \in {"hello", "echo"}
          /\ Type(j) \in Forwarded => KindOf(recvBuf[j]) = "app"
          /\ Type(j) \notin Answered \cup Forwarded => KindOf(recvBuf[j]) = "error"
          /\ ~(Type(j) \in Answered /\ Type(j) \in Forwarded)
      BY <3>1, <1>7 DEF KindOf, Cases, Answered, WithEntry, Forwarded, Mistaken
    <3>4. \/ pc'[j] = "create" /\ KindOf(recvBuf[j]) \in {"hello", "echo"}
          \/ pc'[j] = "app" /\ KindOf(recvBuf[j]) = "app"
          \/ pc'[j] = "free" /\ KindOf(recvBuf[j]) = "error"
      BY <3>2, <3>3
    <3> QED BY <3>1, <3>4, <1>7 DEF KindAt
  <2>5. CASE Create(j)
    <3>1. ~Replied(j) /\ ~Replied(j)' /\ pc'[j] = "enqueue"
          /\ KindOf(recvBuf[j]) \in {"hello", "echo"}
      BY <2>5, <1>0, <1>6 DEF Create, Enqueue, At, KindAt, Goto, TypeOK
    <3> QED BY <3>1, <1>7 DEF KindAt
  <2>6. CASE Enqueue(j)
    <3>1. /\ KindOf(recvBuf[j]) \in {"hello", "echo"}
          /\ frees'[j] = 0 /\ pc'[j] = "free"
      BY <2>6, <1>0 DEF Enqueue, At, KindAt, Goto, TypeOK, Freed
    <3>2. Replied(j)'
      <4>1. /\ sent \in Seq(Queued) /\ sendBuf[j] \in Xids
            /\ ReplyOf(j) \in Replies \cup AppMsgs
        BY <2>6 DEF DataInv, Enqueue, At, ReplyOf, Replies
      <4>2. sent' = Append(sent, [by |-> ReplyOf(j), xid |-> sendBuf[j]])
        BY <2>6 DEF Enqueue, Put
      <4>3. HasSent(ReplyOf(j))'
        BY <4>1, <4>2, SentMore
      <4> QED BY <4>3 DEF Replied, ReplyOf
    <3> QED BY <3>1, <3>2, <1>7 DEF KindAt
  <2>7. CASE InsertToAppQueue(j)
    <3>1. /\ ~Replied(j) /\ ~Replied(j)' /\ pc'[j] = "free"
          /\ KindOf(recvBuf[j]) = "app"
      BY <2>7, <1>0, <1>6
         DEF InsertToAppQueue, Enqueue, At, KindAt, Goto, TypeOK
    <3>2. frees'[j] = 1
      BY <2>7, <1>0 DEF InsertToAppQueue, Free, At, Freed, FreesInv
    <3> QED BY <3>1, <3>2, <1>7 DEF KindAt
  <2>8. CASE FreeBuffer(j)
    <3>1. frees[j] = 0 /\ pc'[j] = "return"
      BY <2>8, <1>0 DEF FreeBuffer, Free, Alive, Goto, TypeOK
    <3>2. KindOf(recvBuf[j]) # "app"
      BY <2>8, <3>1, <1>0 DEF FreeBuffer, At, KindAt
    <3> QED BY <3>1, <3>2, <1>7 DEF KindAt
  <2>9. CASE Return(j)
    <3>1. KindOf(recvBuf[j]) # "app" /\ pc'[j] = "done"
      BY <2>9, <1>0 DEF Return, At, KindAt, Goto, TypeOK
    <3> QED BY <3>1, <1>7 DEF KindAt
  <2> QED BY <2>1, <2>2, <2>3, <2>4, <2>5, <2>6, <2>7, <2>8, <2>9
             DEF HandlerStep
<1> QED BY <1>4, <1>5, <1>9 DEF KindInv, Jobs

LEMMA SenderKindInv ==
  ASSUME DataInv, KindInv,
         \/ Generate
         \/ \E c \in Calls : \/ BeginCall(c) \/ CallUndefined(c) \/ Increment(c)
                             \/ Reread(c) \/ EnqueueCall(c)
  PROVE  KindInv'
<1>1. Alive /\ UNCHANGED <<recvBuf, pc, frees>>
  BY DEF Generate, BeginCall, CallUndefined, Increment, Reread, EnqueueCall,
         CallAt, readVars, jobVars
<1>2. call \in [Calls -> {"begin", "increment", "reread", "enqueue", "done"}]
  BY DEF DataInv, TypeOK
<1>3. ASSUME NEW c \in Calls, EnqueueCall(c) PROVE KindInv'
  <2>1. /\ sent' = Append(sent, [by |-> [call |-> c], xid |-> ntohl(callXid[c])])
        /\ call' = [call EXCEPT ![c] = "done"]
        /\ callXid[c] \in Xids
    BY <1>3 DEF EnqueueCall, Put, CallAt, DataInv
  <2>2. sent \in Seq(Queued) /\ ntohl(callXid[c]) \in Xids
        /\ [call |-> c] \in Replies \cup AppMsgs
    BY <2>1, XidsClosed DEF DataInv, AppMsgs
  <2>3. \A who : HasSent(who)' <=> HasSent(who) \/ who = [call |-> c]
    BY <2>1, <2>2, SentMore
  <2>4. ASSUME NEW i \in Jobs PROVE KindAt(i)'
    <3>1. KindAt(i) /\ (HasSent(ReplyOf(i))' <=> HasSent(ReplyOf(i)))
      BY <1>1, <2>3, WhoDiffers DEF KindInv
    <3> QED BY <3>1, <1>1, KindKept
  <2>5. ASSUME NEW d \in Calls, call'[d] # "done" PROVE ~HasSent([call |-> d])'
    <3>1. d # c /\ call[d] # "done"
      BY <2>1, <2>5, <1>2
    <3>2. [call |-> d] # [call |-> c]
      BY <3>1, WhoDiffers
    <3> QED BY <3>1, <3>2, <2>3 DEF KindInv
  <2> QED BY <2>4, <2>5 DEF KindInv, Jobs
<1>4. CASE ~\E c \in Calls : EnqueueCall(c)
  <2>1. sent' = sent
    BY <1>4
       DEF Generate, BeginCall, CallUndefined, Increment, Reread, queueVars
  <2>2. \A who : HasSent(who)' <=> HasSent(who)
    BY <2>1 DEF HasSent
  <2>3. \A c \in Calls : call'[c] # "done" => call[c] # "done"
    BY <1>2, <1>4
       DEF Generate, BeginCall, CallUndefined, Increment, Reread, callVars,
           CallAt
  <2>4. ASSUME NEW i \in Jobs PROVE KindAt(i)'
    <3>1. KindAt(i)
      BY <1>1 DEF KindInv
    <3> QED BY <3>1, <2>2, <1>1, KindKept
  <2> QED BY <2>2, <2>3, <2>4 DEF KindInv, Jobs
<1> QED BY <1>3, <1>4

LEMMA NextChannelInv == IInv /\ ChannelInv /\ [Next]_vars => ChannelInv'
<1> SUFFICES ASSUME IInv, DataInv, KindInv, [Next]_vars PROVE KindInv'
  BY NextDataInv DEF ChannelInv
<1>1. CASE UNCHANGED vars
  <2>1. UNCHANGED <<main, pc, frees, sent, call, recvBuf>>
    BY <1>1 DEF vars, readVars, queueVars, jobVars, callVars
  <2>2. \A who : HasSent(who)' <=> HasSent(who)
    BY <2>1 DEF HasSent
  <2>3. ASSUME Alive, NEW i \in Jobs PROVE KindAt(i)'
    BY <2>1, <2>2, <2>3, KindKept DEF KindInv
  <2> QED BY <2>1, <2>2, <2>3 DEF KindInv, Alive, Jobs
<1> QED BY <1>1, MainKindInv, HandlerKindInv, SenderKindInv DEF Next, Incoming

-----------------------------------------------------------------------------
(***************************************************************************)
(* What the refinement mapping makes of the queues, the buffers and the    *)
(* jobs that are handled.                                                  *)
(***************************************************************************)
Buffers == [j \in Jobs |-> IF recvBuf[j] = NULL THEN NULL
                           ELSE AsRead(recvBuf[j])]

Handled == {j \in Jobs : \/ /\ pc[j] \in {"return", "done"}
                            /\ KindOf(recvBuf[j]) # "app"
                         \/ \E i \in DOMAIN sent : sent[i].by = ReplyOf(j)}

LEMMA HandledJobs ==
  \A j \in Jobs : j \in Handled <=> \/ /\ pc[j] \in {"return", "done"}
                                       /\ KindOf(recvBuf[j]) # "app"
                                    \/ Replied(j)
BY DEF Handled, Replied, HasSent

LEMMA MapAppend ==
  /\ \A s \in Seq(Queued), e \in Queued :
       MapSeq(AsSent, Append(s, e)) = Append(MapSeq(AsSent, s), e.by)
  /\ \A s \in Seq(Message), m \in Message :
       MapSeq(AsRead, Append(s, m)) = Append(MapSeq(AsRead, s), AsRead(m))
<1>1. ASSUME NEW s \in Seq(Queued), NEW e \in Queued
      PROVE  MapSeq(AsSent, Append(s, e)) = Append(MapSeq(AsSent, s), e.by)
  BY DEF MapSeq, AsSent
<1>2. ASSUME NEW s \in Seq(Message), NEW m \in Message
      PROVE  MapSeq(AsRead, Append(s, m)) = Append(MapSeq(AsRead, s), AsRead(m))
  BY DEF MapSeq
<1> QED BY <1>1, <1>2

LEMMA MapSends ==
  ASSUME NEW q \in SendQueue!QueueState
  PROVE  /\ q # NULL
         /\ MapQueue(AsSent, q) # NULL
         /\ MapQueue(AsSent, q).drained = q.drained
         /\ \A e \in Queued :
              MapQueue(AsSent, SendQueue!Enqueued(q, e))
                = Channel!SendQueue!Enqueued(MapQueue(AsSent, q), e.by)
<1>1. q # NULL /\ q \in [fifo : Seq(Queued), stranded : Int, drained : BOOLEAN]
  BY NullAssumption DEF SendQueue!QueueState, Queued
<1>2. ASSUME NEW e \in Queued
      PROVE  MapQueue(AsSent, SendQueue!Enqueued(q, e))
                = Channel!SendQueue!Enqueued(MapQueue(AsSent, q), e.by)
  <2>1. SendQueue!Enqueued(q, e) # NULL
    BY QueueTypes, NullAssumption
  <2>2. CASE q.drained
    BY <1>1, <2>1, <2>2
       DEF MapQueue, SendQueue!Enqueued, Channel!SendQueue!Enqueued
  <2>3. CASE ~q.drained
    <3>1. MapSeq(AsSent, Append(q.fifo, e))
            = Append(MapSeq(AsSent, q.fifo), e.by)
      BY <1>1, MapAppend
    <3> QED BY <3>1, <1>1, <2>1, <2>3
               DEF MapQueue, SendQueue!Enqueued, Channel!SendQueue!Enqueued
  <2> QED BY <2>2, <2>3
<1>3. MapQueue(AsSent, q) = [fifo |-> MapSeq(AsSent, q.fifo),
                             stranded |-> q.stranded, drained |-> q.drained]
  BY <1>1 DEF MapQueue
<1>4. MapQueue(AsSent, q) # NULL
  <2>1. MapSeq(AsSent, q.fifo) \in Seq(AppMsgs \cup Replies)
    <3>1. /\ Len(q.fifo) \in Nat /\ DOMAIN q.fifo = 1 .. Len(q.fifo)
          /\ \A i \in 1 .. Len(q.fifo) : q.fifo[i] \in Queued
      BY <1>1
    <3>2. \A i \in 1 .. Len(q.fifo) : q.fifo[i].by \in AppMsgs \cup Replies
      BY <3>1 DEF Queued
    <3>3. MapSeq(AsSent, q.fifo) = [i \in 1 .. Len(q.fifo) |-> q.fifo[i].by]
      BY <3>1 DEF MapSeq, AsSent
    <3> QED BY <3>1, <3>2, <3>3
  <2>2. MapQueue(AsSent, q) \in Channel!SendQueue!QueueState
    BY <2>1, <1>1, <1>3
       DEF Channel!SendQueue!QueueState, Channel!Replies, Channel!Jobs,
           Replies, Jobs
  <2> QED BY <2>2, NullAssumption
<1> QED BY <1>1, <1>2, <1>3, <1>4

LEMMA MapReads ==
  ASSUME NEW q \in RecvQueue!QueueState
  PROVE  /\ MapQueue(AsRead, q).drained = q.drained
         /\ \A m \in Message :
              MapQueue(AsRead, RecvQueue!Enqueued(q, m))
                = Channel!RecvQueue!Enqueued(MapQueue(AsRead, q), AsRead(m))
         /\ Channel!RecvQueue!FirstOf(MapQueue(AsRead, q))
              = IF RecvQueue!FirstOf(q) = NULL THEN NULL
                ELSE AsRead(RecvQueue!FirstOf(q))
         /\ MapQueue(AsRead, RecvQueue!Dequeued(q))
              = Channel!RecvQueue!Dequeued(MapQueue(AsRead, q))
<1>1. q # NULL /\ q \in [fifo : Seq(Message), stranded : Int, drained : BOOLEAN]
  BY NullAssumption DEF RecvQueue!QueueState
<1>2. MapQueue(AsRead, q) = [fifo |-> MapSeq(AsRead, q.fifo),
                             stranded |-> q.stranded, drained |-> q.drained]
  BY <1>1 DEF MapQueue
<1>3. ASSUME NEW m \in Message
      PROVE  MapQueue(AsRead, RecvQueue!Enqueued(q, m))
                = Channel!RecvQueue!Enqueued(MapQueue(AsRead, q), AsRead(m))
  <2>1. RecvQueue!Enqueued(q, m) # NULL
    BY RecvTypes, NullAssumption
  <2>2. CASE q.drained
    BY <1>1, <2>1, <2>2
       DEF MapQueue, RecvQueue!Enqueued, Channel!RecvQueue!Enqueued
  <2>3. CASE ~q.drained
    <3>1. MapSeq(AsRead, Append(q.fifo, m))
            = Append(MapSeq(AsRead, q.fifo), AsRead(m))
      BY <1>1, MapAppend
    <3> QED BY <3>1, <1>1, <2>1, <2>3
               DEF MapQueue, RecvQueue!Enqueued, Channel!RecvQueue!Enqueued
  <2> QED BY <2>2, <2>3
<1>4. CASE q.fifo = <<>>
  <2>1. MapSeq(AsRead, <<>>) = <<>>
    BY DEF MapSeq
  <2> QED BY <2>1, <1>1, <1>2, <1>3, <1>4
       DEF RecvQueue!FirstOf, Channel!RecvQueue!FirstOf, RecvQueue!Dequeued,
           Channel!RecvQueue!Dequeued
<1>5. CASE q.fifo # <<>>
  <2> DEFINE f == q.fifo
             g == MapSeq(AsRead, f)
  <2>1. /\ f \in Seq(Message) /\ Len(f) \in Nat \ {0} /\ DOMAIN f = 1 .. Len(f)
        /\ Head(f) = f[1] /\ f[1] \in Message
    BY <1>1, <1>5
  <2>2. /\ Tail(f) \in Seq(Message) /\ Len(Tail(f)) = Len(f) - 1
        /\ DOMAIN Tail(f) = 1 .. Len(f) - 1
        /\ \A i \in 1 .. Len(f) - 1 : Tail(f)[i] = f[i + 1]
    BY <1>1, <1>5, HeadTailProperties
  <2>3. g = [i \in 1 .. Len(f) |-> AsRead(f[i])]
    BY <2>1 DEF MapSeq
  <2>4. g \in Seq({AsRead(m) : m \in Message}) /\ Len(g) = Len(f)
    BY <2>1, <2>3
  <2>5. g # <<>>
    BY <2>1, <2>4
  <2>6. Head(g) = AsRead(f[1]) /\ Tail(g) = MapSeq(AsRead, Tail(f))
    <3>1. /\ Head(g) = g[1] /\ Len(Tail(g)) = Len(g) - 1
          /\ Tail(g) \in Seq({AsRead(m) : m \in Message})
          /\ \A i \in 1 .. Len(Tail(g)) : Tail(g)[i] = g[i + 1]
      BY <2>4, <2>5, HeadTailProperties
    <3>2. MapSeq(AsRead, Tail(f)) = [i \in 1 .. Len(f) - 1 |-> AsRead(f[i + 1])]
      BY <2>2 DEF MapSeq
    <3>3. Tail(g) = [i \in 1 .. Len(f) - 1 |-> Tail(g)[i]]
      BY <3>1, <2>4
    <3>4. \A i \in 1 .. Len(f) - 1 : Tail(g)[i] = AsRead(f[i + 1])
      BY <3>1, <2>1, <2>3, <2>4
    <3>5. Head(g) = AsRead(f[1])
      BY <3>1, <2>1, <2>3
    <3> HIDE DEF f, g
    <3> QED BY <3>2, <3>3, <3>4, <3>5
  <2>7. f[1] # NULL
    BY <2>1, NullAssumption
  <2> DEFINE r == MapQueue(AsRead, q)
  <2>8. /\ q.fifo = f /\ q.fifo # <<>> /\ r.fifo = g
        /\ r = [fifo |-> g, stranded |-> q.stranded, drained |-> q.drained]
        /\ Len(f) = Len(g) /\ Head(f) = f[1]
    BY <1>2, <1>5, <2>1, <2>4
  <2>9. RecvQueue!FirstOf(q) = f[1] /\ Channel!RecvQueue!FirstOf(r) = AsRead(f[1])
    <3> HIDE DEF f, g, r
    <3> QED BY <2>5, <2>6, <2>8
               DEF RecvQueue!FirstOf, Channel!RecvQueue!FirstOf
  <2>10. RecvQueue!Dequeued(q) = [fifo |-> Tail(f), stranded |-> q.stranded,
                                  drained |-> q.drained \/ Len(f) = 1]
    <3> HIDE DEF f, g, r
    <3> QED BY <2>8, <1>1 DEF RecvQueue!Dequeued
  <2>11. Channel!RecvQueue!Dequeued(r)
           = [fifo |-> Tail(g), stranded |-> q.stranded, drained |-> q.drained \/ Len(g) = 1]
    <3> HIDE DEF f, g, r
    <3>1. Channel!RecvQueue!Dequeued(r)
            = [r EXCEPT !.fifo = Tail(g), !.drained = (q.drained \/ Len(g) = 1)]
      BY <2>5, <2>8 DEF Channel!RecvQueue!Dequeued
    <3>2. /\ r \in [fifo : {g}, stranded : Int, drained : BOOLEAN]
          /\ r.stranded = q.stranded
      BY <2>8, <1>1
    <3> QED BY <3>1, <3>2
  <2>12. RecvQueue!Dequeued(q) # NULL
    BY RecvTypes, NullAssumption
  <2>13. MapQueue(AsRead, RecvQueue!Dequeued(q))
           = [fifo |-> MapSeq(AsRead, Tail(f)), stranded |-> q.stranded,
              drained |-> q.drained \/ Len(f) = 1]
    <3> HIDE DEF f
    <3> QED BY <2>10, <2>12 DEF MapQueue
  <2> HIDE DEF f, g, r
  <2>14. MapQueue(AsRead, RecvQueue!Dequeued(q)) = Channel!RecvQueue!Dequeued(r)
    BY <2>6, <2>8, <2>11, <2>13
  <2>15. Channel!RecvQueue!FirstOf(r) = IF RecvQueue!FirstOf(q) = NULL THEN NULL
                                        ELSE AsRead(RecvQueue!FirstOf(q))
    BY <2>7, <2>9
  <2>16. MapQueue(AsRead, q) = r /\ r.drained = q.drained
    BY <2>8 DEF r
  <2> QED BY <1>3, <2>14, <2>15, <2>16
<1> QED BY <1>4, <1>5

-----------------------------------------------------------------------------
(***************************************************************************)
(* Each step is one of CcSecureChannel, or none.                           *)
(***************************************************************************)
LEMMA Stutters ==
  ASSUME UNCHANGED <<main, reads, recvQueue, recvBuf, sendQueue, sent,
                     poolVars>>,
         Handled' = Handled
  PROVE  UNCHANGED Channel!vars
BY DEF Channel!vars, Channel!recvVars, Channel!sendVars, Channel!poolVars,
       poolVars, Handled, MapQueue, MapSeq, Jobs

LEMMA InitSimulates == Init => Channel!Init
<1> SUFFICES ASSUME Init PROVE Channel!Init
  OBVIOUS
<1>1. /\ MapSeq(AsSent, <<>>) = <<>> /\ MapSeq(AsRead, <<>>) = <<>>
      /\ SendQueue!NewQueue # NULL /\ RecvQueue!NewQueue # NULL
  <2>1. MapSeq(AsSent, <<>>) = <<>> /\ MapSeq(AsRead, <<>>) = <<>>
    BY DEF MapSeq
  <2>2. /\ <<>> \in Seq(Message)
        /\ <<>> \in Seq([by : Replies \cup AppMsgs, xid : Xids])
    OBVIOUS
  <2>3. SendQueue!NewQueue \in SendQueue!QueueState
    BY <2>2 DEF SendQueue!QueueState, SendQueue!NewQueue
  <2>4. RecvQueue!NewQueue \in RecvQueue!QueueState
    BY <2>2 DEF RecvQueue!QueueState, RecvQueue!NewQueue
  <2> QED BY <2>1, <2>3, <2>4, NullAssumption
<1>2. MapQueue(AsSent, SendQueue!NewQueue) = Channel!SendQueue!NewQueue
  BY <1>1 DEF MapQueue, SendQueue!NewQueue, Channel!SendQueue!NewQueue
<1>3. MapQueue(AsRead, RecvQueue!NewQueue) = Channel!RecvQueue!NewQueue
  BY <1>1 DEF MapQueue, RecvQueue!NewQueue, Channel!RecvQueue!NewQueue
<1>4. Handled = {}
  BY DEF Init, Handled
<1>5. Buffers = [j \in Jobs |-> NULL]
  BY DEF Init, Buffers
<1>6. Channel!Pool!Init
  BY DEF Init, Pool!Init, Channel!Pool!Init
<1> QED BY <1>1, <1>2, <1>3, <1>4, <1>5, <1>6
           DEF Init, Channel!Init, Handled, Buffers, Channel!Jobs, Jobs

LEMMA ReceiveSimulates ==
  ASSUME IInv, ChannelInv,
         NEW m \in Incoming, Receive(m)
  PROVE  \E n \in Channel!ReadLengths, kind \in Channel!Kinds :
           Channel!Read(n, kind)
<1> DEFINE q == IF m = NULL THEN recvQueue ELSE RecvQueue!Enqueued(recvQueue, m)
           n == IF m = NULL THEN 1 ELSE 2
           kind == IF m = NULL THEN "silent" ELSE KindOf(m)
           a == [read |-> reads + 1, kind |-> kind, length |-> n]
           p == IF n >= 2
                THEN Channel!RecvQueue!Enqueued(MapQueue(AsRead, recvQueue), a)
                ELSE MapQueue(AsRead, recvQueue)
<1>1. /\ main = "select" /\ reads < MaxReads
      /\ reads' = reads + 1 /\ reads \in Nat
      /\ reads + 1 \in Jobs /\ reads \in Jobs \cup {0}
      /\ DOMAIN recvBuf = Jobs /\ pc[reads + 1] = "dispatch"
  BY SessionAssumption DEF Receive, Jobs, IInv, JobsInv, Alive
<1>2. m \in Message \cup {NULL}
  BY <1>1 DEF Message, Incoming
<1>3. recvQueue \in RecvQueue!QueueState /\ q \in RecvQueue!QueueState
  BY <1>1, <1>2, RecvTypes DEF ChannelInv, DataInv
<1>4. /\ n \in Channel!ReadLengths /\ kind \in Channel!Kinds
      /\ n \in {1, 2} /\ n % 4 = n
  BY DEF Channel!ReadLengths, Channel!Kinds, KindOf, Incoming
<1>5. m # NULL => a = AsRead(m)
  BY <1>2, NullAssumption DEF AsRead, Incoming
<1>6. p = MapQueue(AsRead, q)
  <2>1. CASE m = NULL
    BY <2>1
  <2>2. CASE m # NULL
    <3>1. MapQueue(AsRead, RecvQueue!Enqueued(recvQueue, m))
            = Channel!RecvQueue!Enqueued(MapQueue(AsRead, recvQueue), AsRead(m))
      BY <1>2, <1>3, <2>2, MapReads
    <3>2. p = Channel!RecvQueue!Enqueued(MapQueue(AsRead, recvQueue), AsRead(m))
      <4>1. n >= 2 /\ a = AsRead(m)
        BY <2>2, <1>5
      <4> HIDE DEF n, a
      <4> QED BY <4>1
    <3> QED BY <3>1, <3>2, <2>2
  <2> QED BY <2>1, <2>2
<1> HIDE DEF q
<1>7. /\ recvBuf' = [recvBuf EXCEPT ![reads + 1] = RecvQueue!FirstOf(q)]
      /\ recvQueue' = RecvQueue!Dequeued(q)
      /\ Pool!Submit(reads + 1)
      /\ \/ main' \in {"select", "delete_recv"}
         \/ m # NULL /\ recvQueue.drained /\ main' = "undefined"
      /\ UNCHANGED <<sendQueue, sent, pc>>
  BY DEF Receive, queueVars, jobVars, q
<1>8. Buffers' = [Buffers EXCEPT ![reads + 1] = Channel!RecvQueue!FirstOf(p)]
  <2>1. Channel!RecvQueue!FirstOf(p) = IF RecvQueue!FirstOf(q) = NULL THEN NULL
                                       ELSE AsRead(RecvQueue!FirstOf(q))
    BY <1>3, <1>6, MapReads
  <2> QED BY <2>1, <1>1, <1>7 DEF Buffers, Jobs
<1>9. MapQueue(AsRead, recvQueue)' = Channel!RecvQueue!Dequeued(p)
  BY <1>3, <1>6, <1>7, MapReads
<1>10. Handled' = Handled
  BY <1>1, <1>7 DEF Handled, Jobs
<1>11. MapQueue(AsRead, recvQueue).drained = recvQueue.drained
  BY <1>3, MapReads
<1>12. Channel!Pool!Submit(reads + 1)
  BY <1>7 DEF Pool!Submit, Channel!Pool!Submit, Pool!Known, Channel!Pool!Known
<1>13. \/ Channel!AfterRead
       \/ n >= 2 /\ Channel!WritesToFreed(MapQueue(AsRead, recvQueue))
  BY <1>7, <1>11 DEF Channel!AfterRead, Channel!WritesToFreed
<1>14. /\ MapSeq(AsSent, sent)' = MapSeq(AsSent, sent)
       /\ MapQueue(AsSent, sendQueue)' = MapQueue(AsSent, sendQueue)
  BY <1>7
<1>15. Channel!ReadLength(n) = n
  BY <1>4 DEF Channel!ReadLength
<1> HIDE DEF n, kind
<1>16. Channel!Read(n, kind)
  BY <1>1, <1>4, <1>7, <1>8, <1>9, <1>10, <1>12, <1>13, <1>14, <1>15
     DEF Channel!Read, Buffers, Handled
<1> QED BY <1>4, <1>16

\* A step that leaves alone what the handlers have done.
LEMMA HandledKept == UNCHANGED <<pc, recvBuf, sent>> => Handled' = Handled
BY DEF Handled, Jobs

LEMMA MainSimulates ==
  ASSUME IInv, ChannelInv,
         DeleteRecvQueue \/ DeleteSendQueue \/ ClosePool \/ DiscardJobs \/ Start
  PROVE  Channel!Next
<1>1. UNCHANGED <<reads, recvBuf, sent, pc>>
  BY DEF DeleteRecvQueue, DeleteSendQueue, ClosePool, DiscardJobs, Start,
         readVars, queueVars, jobVars
<1>2. /\ Buffers' = Buffers /\ MapSeq(AsSent, sent)' = MapSeq(AsSent, sent)
      /\ Handled' = Handled
  BY <1>1, HandledKept DEF Buffers, Jobs
<1>3. CASE DeleteRecvQueue
  <2>1. Channel!DeleteRecvQueue
    <3>1. MapQueue(AsRead, recvQueue)' = NULL
      BY <1>3 DEF DeleteRecvQueue, MapQueue
    <3> QED BY <1>1, <1>2, <1>3, <3>1
               DEF DeleteRecvQueue, Channel!DeleteRecvQueue, Channel!sendVars,
                   Channel!poolVars, poolVars, queueVars, Buffers, Handled
  <2> QED BY <2>1 DEF Channel!Next
<1>4. CASE DeleteSendQueue
  <2>1. Channel!DeleteSendQueue
    <3>1. MapQueue(AsSent, sendQueue)' = NULL
      BY <1>4 DEF DeleteSendQueue, MapQueue
    <3> QED BY <1>1, <1>2, <1>4, <3>1
               DEF DeleteSendQueue, Channel!DeleteSendQueue, Channel!recvVars,
                   Channel!poolVars, poolVars, readVars, Buffers, Handled
  <2> QED BY <2>1 DEF Channel!Next
<1>5. CASE ClosePool \/ DiscardJobs \/ Start
  <2>1. UNCHANGED <<recvQueue, sendQueue>>
    BY <1>5 DEF ClosePool, DiscardJobs, Start, readVars, queueVars
  <2>2. UNCHANGED <<Channel!recvVars, Channel!sendVars>>
    BY <1>1, <1>2, <2>1
       DEF Channel!recvVars, Channel!sendVars, Buffers, Handled
  <2>3. CASE ClosePool
    <3>1. Channel!ClosePool
      BY <2>2, <2>3
         DEF ClosePool, Channel!ClosePool, Pool!Close, Channel!Pool!Close
    <3> QED BY <3>1 DEF Channel!Next
  <2>4. CASE DiscardJobs
    <3>1. Channel!DiscardJobs
      BY <2>2, <2>4 DEF DiscardJobs, Channel!DiscardJobs, Pool!Discard,
            Channel!Pool!Discard, poolVars, Channel!poolVars
    <3> QED BY <3>1 DEF Channel!Next
  <2>5. CASE Start
    <3>1. Channel!Start
      <4>1. Pool!Cardinality(running) = Channel!Pool!Cardinality(running)
        BY DEF Pool!Cardinality, Channel!Pool!Cardinality
      <4> QED BY <4>1, <2>2, <2>5
                 DEF Start, Channel!Start, Pool!Start, Channel!Pool!Start,
                     Alive, Channel!Alive, ChannelInv, DataInv, TypeOK
    <3> QED BY <3>1 DEF Channel!Next
  <2> QED BY <1>5, <2>3, <2>4, <2>5
<1> QED BY <1>3, <1>4, <1>5

-----------------------------------------------------------------------------
LEMMA SenderSimulates ==
  ASSUME ChannelInv,
         \/ Generate
         \/ \E c \in Calls : \/ BeginCall(c) \/ CallUndefined(c) \/ Increment(c)
                             \/ Reread(c) \/ EnqueueCall(c)
  PROVE  [Channel!Next]_(Channel!vars)
<1>1. /\ UNCHANGED <<reads, recvQueue, recvBuf, pc, poolVars>> /\ Alive
      /\ UNCHANGED <<pending, running, finished, discarded, closed>>
  BY DEF Generate, BeginCall, CallUndefined, Increment, Reread, EnqueueCall,
         CallAt, readVars, jobVars, poolVars
<1>2. /\ Buffers' = Buffers
      /\ MapQueue(AsRead, recvQueue)' = MapQueue(AsRead, recvQueue)
      /\ Channel!Alive
  BY <1>1 DEF Buffers, Jobs, ChannelInv, DataInv, TypeOK, Alive, Channel!Alive
<1>3. ASSUME NEW c \in Calls, call[c] # "done"
      PROVE  /\ [call |-> c] \in AppMsgs
             /\ \A i \in DOMAIN MapSeq(AsSent, sent) :
                  MapSeq(AsSent, sent)[i] # [call |-> c]
  <2>1. ~HasSent([call |-> c])
    BY <1>3 DEF ChannelInv, KindInv
  <2> QED BY <2>1 DEF HasSent, MapSeq, AsSent, AppMsgs
<1>4. CASE Generate \/ \E c \in Calls : BeginCall(c) \/ Increment(c) \/ Reread(c)
  <2>1. UNCHANGED <<main, sendQueue, sent>>
    BY <1>4 DEF Generate, BeginCall, Increment, Reread, queueVars
  <2> QED BY <2>1, <1>1, HandledKept, Stutters
<1>5. ASSUME NEW c \in Calls, CallUndefined(c) PROVE Channel!Next
  <2>1. UNCHANGED <<sendQueue, sent>> /\ call[c] # "done" /\ main' = "undefined"
    BY <1>5 DEF CallUndefined, queueVars, CallAt
  <2>2. Handled' = Handled
    BY <1>1, <2>1, HandledKept
  <2>3. /\ MapSeq(AsSent, sent)' = MapSeq(AsSent, sent)
        /\ MapQueue(AsSent, sendQueue)' = MapQueue(AsSent, sendQueue)
    BY <2>1
  <2>4. Channel!AppSendUndefined([call |-> c])
    BY <1>1, <1>2, <1>3, <2>1, <2>2, <2>3
       DEF Channel!AppSendUndefined, Channel!recvVars, Channel!sendVars,
           Channel!poolVars, Buffers, Handled
  <2> QED BY <2>4, <1>3, <2>1 DEF Channel!Next
<1>6. ASSUME NEW c \in Calls, EnqueueCall(c) PROVE Channel!Next
  <2> DEFINE e == [by |-> [call |-> c], xid |-> ntohl(callXid[c])]
  <2>1. /\ sendQueue # NULL /\ sendQueue' = SendQueue!Enqueued(sendQueue, e)
        /\ sent' = Append(sent, e) /\ call[c] # "done" /\ main' = main
    BY <1>6 DEF EnqueueCall, Put, CallAt
  <2>2. callXid[c] \in Xids
    BY <1>6 DEF ChannelInv, DataInv, EnqueueCall, CallAt
  <2>3. e \in Queued /\ e.by = [call |-> c] /\ sent \in Seq(Queued)
        /\ sendQueue \in SendQueue!QueueState
    BY <2>1, <2>2, XidsClosed DEF Queued, AppMsgs, ChannelInv, DataInv
  <2>4. Handled' = Handled
    <3>1. \A who : HasSent(who)' <=> HasSent(who) \/ who = [call |-> c]
      BY <2>1, <2>2, <2>3, XidsClosed, SentMore DEF AppMsgs
    <3>2. \A j \in Jobs : HasSent(ReplyOf(j))' <=> HasSent(ReplyOf(j))
      BY <3>1, WhoDiffers
    <3> QED BY <3>2, <1>1 DEF Handled, HasSent, ReplyOf, Jobs
  <2> HIDE DEF e
  <2>5. /\ MapSeq(AsSent, sent)' = Append(MapSeq(AsSent, sent), [call |-> c])
        /\ MapQueue(AsSent, sendQueue)'
             = Channel!SendQueue!Enqueued(MapQueue(AsSent, sendQueue),
                                          [call |-> c])
        /\ MapQueue(AsSent, sendQueue) # NULL
    BY <2>1, <2>3, MapSends, MapAppend
  <2>6. Channel!AppSend([call |-> c])
    BY <1>1, <1>2, <1>3, <2>1, <2>4, <2>5
       DEF Channel!AppSend, Channel!recvVars, Channel!poolVars, Buffers,
           Handled
  <2> QED BY <2>6, <1>3, <2>1 DEF Channel!Next
<1> QED BY <1>4, <1>5, <1>6

-----------------------------------------------------------------------------
LEMMA HandlerSimulates ==
  ASSUME IInv, ChannelInv, NEW j \in Jobs, HandlerStep(j)
  PROVE  [Channel!Next]_(Channel!vars)
<1>0. /\ TypeOK /\ Alive /\ JobsInv /\ FreesInv /\ j \in running /\ KindAt(j)
      /\ Freed(j) /\ j \in Channel!Jobs
  BY DEF ChannelInv, DataInv, IInv, KindInv, FreesInv, HandlerStep, At,
         Dispatch, DispatchUndefined, Validate, SetLatest, Create, Enqueue,
         InsertToAppQueue, FreeBuffer, Return, Jobs, Channel!Jobs
<1>1. UNCHANGED <<reads, recvQueue, recvBuf>>
  BY DEF HandlerStep, Dispatch, DispatchUndefined, Validate, SetLatest, Create,
         Enqueue, InsertToAppQueue, FreeBuffer, Return, readVars
<1>2. /\ Buffers' = Buffers
      /\ MapQueue(AsRead, recvQueue)' = MapQueue(AsRead, recvQueue)
      /\ Channel!Alive
  BY <1>0, <1>1 DEF Buffers, Jobs, TypeOK, Alive, Channel!Alive
<1>3. /\ pc[j] # "dispatch" => recvBuf[j] \in Message
      /\ recvBuf[j] \in Message => /\ Buffers[j] = AsRead(recvBuf[j])
                                   /\ Buffers[j] # NULL
                                   /\ Buffers[j].kind = KindOf(recvBuf[j])
      /\ recvBuf[j] = NULL => Buffers[j] = NULL
  <2>1. pc[j] # "dispatch" => recvBuf[j] \in Message
    BY <1>0 DEF ChannelInv, DataInv, TypeOK
  <2>2. ASSUME recvBuf[j] \in Message
        PROVE  /\ Buffers[j] = AsRead(recvBuf[j])
               /\ Buffers[j] # NULL
               /\ Buffers[j].kind = KindOf(recvBuf[j])
    <3>1. recvBuf[j] # NULL
      BY <2>2, NullAssumption
    <3>2. AsRead(recvBuf[j]) \in Channel!Message
      BY <2>2
         DEF Message, Channel!Message, AsRead, KindOf, Channel!Kinds, Jobs,
             Channel!Jobs
    <3>3. Buffers[j] = AsRead(recvBuf[j])
      BY <3>1 DEF Buffers
    <3> QED BY <3>2, <3>3, NullAssumption DEF AsRead
  <2> QED BY <2>1, <2>2 DEF Buffers
<1>4. ~Enqueue(j) => /\ UNCHANGED <<sendQueue, sent>>
                     /\ MapSeq(AsSent, sent)' = MapSeq(AsSent, sent)
                     /\ MapQueue(AsSent, sendQueue)' = MapQueue(AsSent, sendQueue)
  BY DEF HandlerStep, Dispatch, DispatchUndefined, Validate, SetLatest,
         Create, InsertToAppQueue, FreeBuffer, Return, queueVars
\* Which jobs are handled now.
<1>5. ASSUME ~Enqueue(j)
      PROVE  Handled' = IF /\ pc[j] \notin {"return", "done"}
                           /\ pc'[j] \in {"return", "done"}
                           /\ KindOf(recvBuf[j]) # "app"
                        THEN Handled \cup {j} ELSE Handled
  <2>1. \A i \in Jobs : i # j => pc'[i] = pc[i]
    BY <1>0
       DEF HandlerStep, Dispatch, DispatchUndefined, Validate, SetLatest,
           Create, Enqueue, InsertToAppQueue, FreeBuffer, Return, Goto,
           jobVars, TypeOK
  <2>2. pc[j] \in {"return", "done"} => pc'[j] \in {"return", "done"}
    BY <1>0
       DEF HandlerStep, Dispatch, DispatchUndefined, Validate, SetLatest,
           Create, Enqueue, InsertToAppQueue, FreeBuffer, Return, Goto, At,
           jobVars, TypeOK
  <2> QED BY <1>1, <1>4, <1>5, <2>1, <2>2 DEF Handled, Jobs
<1>6. j \in Handled <=> \/ /\ pc[j] \in {"return", "done"}
                           /\ KindOf(recvBuf[j]) # "app"
                        \/ Replied(j)
  BY HandledJobs
\* The handler ends without an answer.
<1>7. ASSUME ~Enqueue(j), Handled' = Handled \cup {j}, j \notin Handled,
             recvBuf[j] \in Message,
             KindOf(recvBuf[j]) \in {"hello", "silent", "error"},
             UNCHANGED <<main, poolVars>>
      PROVE  Channel!Next
  <2>1. Channel!HandleSilently(j)
    BY <1>0, <1>1, <1>2, <1>3, <1>4, <1>7
       DEF Channel!HandleSilently, Channel!Unhandled, Channel!HandlerReturned,
           Channel!sendVars, Channel!poolVars, poolVars, Buffers, Handled
  <2> QED BY <2>1, <1>0 DEF Channel!Next
<1>8. ASSUME ~Enqueue(j), Handled' = Handled, j \notin Handled,
             recvBuf[j] \in Message => KindOf(recvBuf[j]) \in {"app", "error"},
             main' = "undefined", UNCHANGED poolVars
      PROVE  Channel!Next
  <2>1. recvBuf[j] \in Message \/ recvBuf[j] = NULL
    BY <1>0 DEF TypeOK
  <2>2. Channel!HandleUndefined(j)
    BY <1>0, <1>1, <1>2, <1>3, <1>4, <1>8, <2>1
       DEF Channel!HandleUndefined, Channel!Unhandled, Channel!recvVars,
           Channel!sendVars, Channel!poolVars, poolVars, Buffers, Handled
  <2> QED BY <2>2, <1>0 DEF Channel!Next
<1>9. ASSUME ~Enqueue(j), Handled' = Handled, UNCHANGED <<main, poolVars>>
      PROVE  UNCHANGED Channel!vars
  BY <1>1, <1>4, <1>9, Stutters
<1>10. CASE Dispatch(j)
  <2>1. /\ ~Enqueue(j) /\ pc[j] = "dispatch" /\ recvBuf[j] \in Message
        /\ UNCHANGED <<main, poolVars>>
        /\ pc'[j] = IF Type(j) \in Cases THEN "validate" ELSE "return"
    BY <1>0, <1>10 DEF Dispatch, Enqueue, At, Goto, TypeOK
  <2>2. CASE Type(j) \in Cases
    BY <2>1, <2>2, <1>5, <1>9
  <2>3. CASE Type(j) \notin Cases
    <3>1. KindOf(recvBuf[j]) = "silent"
      BY <2>3 DEF KindOf, Type, Cases, Answered, WithEntry, Forwarded, Mistaken
    <3>2. ~Replied(j)
      BY <2>1, <1>0 DEF KindAt
    <3> QED BY <2>1, <2>3, <3>1, <3>2, <1>5, <1>6, <1>7
  <2> QED BY <2>2, <2>3
<1>11. CASE DispatchUndefined(j)
  <2>1. /\ ~Enqueue(j) /\ pc[j] = "dispatch" /\ pc' = pc /\ main' = "undefined"
        /\ UNCHANGED poolVars
        /\ recvBuf[j] # NULL => Type(j) = "ERROR"
    BY <1>11 DEF DispatchUndefined, Enqueue, At, jobVars
  <2>2. recvBuf[j] \in Message => KindOf(recvBuf[j]) = "error"
    BY <2>1, NullAssumption DEF KindOf, Type, Forwarded
  <2>3. ~Replied(j)
    BY <2>1, <1>0 DEF KindAt
  <2> QED BY <2>1, <2>2, <2>3, <1>5, <1>6, <1>8
<1>12. CASE Validate(j) \/ SetLatest(j) \/ Create(j)
  <2>1. /\ ~Enqueue(j) /\ UNCHANGED <<main, poolVars>>
        /\ pc'[j] \in {"latest", "free", "create", "app", "enqueue"}
    BY <1>0, <1>12 DEF Validate, SetLatest, Create, Enqueue, At, Goto, TypeOK
  <2> QED BY <2>1, <1>5, <1>9
<1>13. CASE Enqueue(j)
  <2> DEFINE e == [by |-> ReplyOf(j), xid |-> sendBuf[j]]
  <2>1. /\ sendQueue # NULL /\ sendQueue' = SendQueue!Enqueued(sendQueue, e)
        /\ sent' = Append(sent, e) /\ pc[j] = "enqueue"
        /\ UNCHANGED <<main, poolVars>>
        /\ pc' = [pc EXCEPT ![j] = "free"]
    BY <1>13 DEF Enqueue, Put, At, Goto
  <2>2. sendBuf[j] \in Xids /\ ReplyOf(j) \in Replies
    BY <2>1 DEF ChannelInv, DataInv, ReplyOf, Replies
  <2>3. e \in Queued /\ e.by = ReplyOf(j) /\ sent \in Seq(Queued)
        /\ sendQueue \in SendQueue!QueueState
    BY <2>1, <2>2 DEF Queued, ChannelInv, DataInv
  <2>4. Handled' = Handled \cup {j}
    <3>1. \A who : HasSent(who)' <=> HasSent(who) \/ who = ReplyOf(j)
      BY <2>1, <2>2, <2>3, SentMore
    <3>2. \A i \in Jobs : HasSent(ReplyOf(i))' <=> HasSent(ReplyOf(i)) \/ i = j
      BY <3>1, WhoDiffers
    <3>3. \A i \in Jobs : i # j => pc'[i] = pc[i]
      BY <2>1, <1>0 DEF TypeOK
    <3>4. pc'[j] = "free"
      BY <2>1, <1>0 DEF TypeOK
    <3> QED BY <3>2, <3>3, <3>4, <2>1, <1>1 DEF Handled, HasSent, ReplyOf, Jobs
  <2>5. j \notin Handled /\ KindOf(recvBuf[j]) \in {"hello", "echo"}
    BY <2>1, <1>0, <1>6 DEF KindAt
  <2> HIDE DEF e
  <2>6. /\ MapSeq(AsSent, sent)' = Append(MapSeq(AsSent, sent), [reply |-> j])
        /\ MapQueue(AsSent, sendQueue)'
             = Channel!SendQueue!Enqueued(MapQueue(AsSent, sendQueue),
                                          [reply |-> j])
        /\ MapQueue(AsSent, sendQueue) # NULL
    BY <2>1, <2>3, MapSends, MapAppend DEF ReplyOf
  <2>7. Channel!Reply(j)
    BY <1>0, <1>1, <1>2, <1>3, <2>1, <2>4, <2>5, <2>6
       DEF Channel!Reply, Channel!Unhandled, Channel!HandlerReturned,
           Channel!poolVars, poolVars, Buffers, Handled
  <2> QED BY <2>7, <1>0 DEF Channel!Next
<1>14. CASE InsertToAppQueue(j)
  <2>1. /\ ~Enqueue(j) /\ pc[j] = "app" /\ pc'[j] = "free" /\ UNCHANGED poolVars
        /\ main' = IF frees[j] = 0 THEN main ELSE "undefined"
    BY <1>0, <1>14 DEF InsertToAppQueue, Enqueue, At, Goto, Free, TypeOK
  <2>2. main' = main
    BY <2>1, <1>0 DEF Freed
  <2> QED BY <2>1, <2>2, <1>5, <1>9
\* The last free of the handler, the second of a message for the application.
<1>15. CASE FreeBuffer(j)
  <2>1. /\ ~Enqueue(j) /\ UNCHANGED poolVars
        /\ pc[j] = "free" /\ pc'[j] = "return"
        /\ main' = IF frees[j] = 0 THEN main ELSE "undefined"
        /\ recvBuf[j] \in Message /\ frees[j] \in {0, 1}
    BY <1>0, <1>3, <1>15 DEF FreeBuffer, Enqueue, At, Goto, Free, TypeOK, Freed
  <2>2. CASE Replied(j)
    <3>1. frees[j] = 0 /\ j \in Handled
      BY <2>1, <2>2, <1>0, <1>6 DEF KindAt
    <3>2. Handled' = Handled
      BY <2>1, <3>1, <1>5
    <3> QED BY <2>1, <3>1, <3>2, <1>9
  <2>3. CASE ~Replied(j) /\ frees[j] = 0
    <3>1. /\ KindOf(recvBuf[j]) \in {"hello", "silent", "error"}
          /\ j \notin Handled
      BY <2>1, <2>3, <1>0, <1>6 DEF KindAt
    <3>2. Handled' = Handled \cup {j}
      BY <2>1, <3>1, <1>5
    <3> QED BY <2>1, <2>3, <3>1, <3>2, <1>7
  <2>4. CASE ~Replied(j) /\ frees[j] = 1
    <3>1. KindOf(recvBuf[j]) = "app" /\ j \notin Handled
      BY <2>1, <2>4, <1>0, <1>6 DEF KindAt
    <3>2. Handled' = Handled
      BY <2>1, <3>1, <1>5
    <3> QED BY <2>1, <2>4, <3>1, <3>2, <1>8
  <2> QED BY <2>1, <2>2, <2>3, <2>4
<1>16. CASE Return(j)
  <2>1. /\ ~Enqueue(j) /\ pc[j] = "return"
        /\ Pool!Finish(j) /\ main' \in {main, "undefined"}
    BY <1>16 DEF Return, Enqueue, At, Free
  <2>2. j \in Handled /\ Handled' = Handled
    BY <2>1, <1>0, <1>5, <1>6 DEF KindAt
  <2>3. Channel!Finish(j)
    BY <1>1, <1>2, <1>4, <2>1, <2>2
       DEF Channel!Finish, Pool!Finish, Channel!Pool!Finish, Channel!recvVars,
           Channel!sendVars, Buffers, Handled
  <2> QED BY <2>3, <1>0 DEF Channel!Next
<1> QED BY <1>10, <1>11, <1>12, <1>13, <1>14, <1>15, <1>16 DEF HandlerStep

LEMMA NextSimulates ==
  IInv /\ ChannelInv /\ [Next]_vars => [Channel!Next]_(Channel!vars)
<1> SUFFICES ASSUME IInv, ChannelInv, [Next]_vars
    PROVE  [Channel!Next]_(Channel!vars)
  OBVIOUS
<1>1. CASE UNCHANGED vars
  <2>1. UNCHANGED <<main, reads, recvQueue, recvBuf, sendQueue, sent, poolVars, pc>>
    BY <1>1 DEF vars, readVars, queueVars, jobVars
  <2> QED BY <2>1, HandledKept, Stutters
<1>2. ASSUME NEW m \in Incoming, Receive(m)
      PROVE  Channel!Next
  BY <1>2, ReceiveSimulates DEF Channel!Next
<1> QED BY <1>1, <1>2, MainSimulates, HandlerSimulates, SenderSimulates
           DEF Next, Incoming

-----------------------------------------------------------------------------
\* In every reachable state of the handlers and the senders, wherever each of
\* them is: what it reads is there and has its type, whether it has answered
\* is known from where it is, and so is the kind of its message.
THEOREM ChannelInvariance == Spec => []ChannelInv
<1>1. Init => ChannelInv
  BY InitDataInv, InitKindInv DEF ChannelInv
<1> QED BY <1>1, InitIInv, NextIInv, NextChannelInv, PTL DEF Spec, SafeSpec

\* The handlers, the senders and the main thread keep the variables in their
\* types: identifiers stay on two bytes through every swap and increment.
THEOREM TypeCorrect == Spec => []TypeOK
<1>1. ChannelInv => TypeOK
  BY DEF ChannelInv, DataInv
<1> QED BY <1>1, ChannelInvariance, PTL

\* The handlers of cc_of_msg_recv.c and the senders of cc_of_msg_send.c, with
\* all their steps among those of the others, do what CcSecureChannel says in
\* one step each: answer as the kind of the message says and once, queue one
\* message, or end the process where CcSecureChannel lets it end.
THEOREM Refinement == Spec => ImplementsChannel
<1>1. Init => ChannelInv
  BY InitDataInv, InitKindInv DEF ChannelInv
<1> QED BY <1>1, InitIInv, NextIInv, NextChannelInv, InitSimulates,
           NextSimulates, PTL
           DEF Spec, SafeSpec, ImplementsChannel, Channel!SafeSpec
=============================================================================
