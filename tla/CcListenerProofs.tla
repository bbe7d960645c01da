-------------------------- MODULE CcListenerProofs --------------------------
(***************************************************************************)
(* Proofs about CcListener, for any set of connections and any limits on   *)
(* the descriptors: what every process that was ever forked holds open.    *)
(***************************************************************************)
EXTENDS CcListener, WellFoundedInduction, TLAPS

\* The listening process: it has its socket from the beginning on, and a
\* connection only from accept to close.
ParentInv ==
  /\ parent = "start" =>
       backlog = {} /\ listenFd = NoFd /\ \A c \in Conns : child[c] = "none"
  /\ parent \in {"select", "accept", "fork", "close"} =>
       listenFd \in Fds /\ fds[Parent][listenFd] = "listener"
  /\ parent \in {"fork", "close"} =>
       /\ accepted \in [conn : Conns, fd : Fds]
       /\ accepted.fd # listenFd
       /\ fds[Parent][accepted.fd] = accepted.conn
  /\ \A fd \in Fds : fds[Parent][fd] \in Conns =>
       /\ parent \in {"fork", "close", "undefined"}
       /\ fd = accepted.fd /\ fds[Parent][fd] = accepted.conn
  /\ \A fd \in Fds : fds[Parent][fd] = "listener" => fd = listenFd
  /\ \A c \in backlog : child[c] = "none"
  /\ parent = "fork" =>
       accepted.conn \notin backlog /\ child[accepted.conn] = "none"

\* A child: no connection but its own, the listening socket only until it
\* has started, and its own descriptor beside it.
ChildInv ==
  \A c \in Conns :
    /\ \A fd \in Fds : fds[c][fd] \in Conns => fds[c][fd] = c
    /\ \A fd \in Fds : fds[c][fd] = "listener" =>
         fd = listenFd /\ child[c] = "forked"
    /\ child[c] = "forked" => listenFd \in Fds /\ selectFd[c] # listenFd
    /\ child[c] \in {"forked", "serving"} =>
         selectFd[c] \in Fds /\ fds[c][selectFd[c]] = c

IInv == TypeOK /\ ParentInv /\ ChildInv

-----------------------------------------------------------------------------
\* accept and socket give a descriptor that is free.
LEMMA LowestIsFree ==
  ASSUME NEW p \in {Parent} \cup Conns, TypeOK, Free(p) # {}
  PROVE  LowestFree(p) \in Fds /\ fds[p][LowestFree(p)] = Closed
<1> DEFINE less == OpToRel(<, Nat)
<1>1. Free(p) \subseteq Fds /\ Fds \subseteq Nat
  BY ListenerAssumption DEF Free, Fds
<1>2. IsWellFoundedOn(less, Nat)
  BY NatLessThanWellFounded
<1>3. \A x, y \in Nat : x < y => <<x, y>> \in less
  BY DEF OpToRel
<1> HIDE DEF less
<1>4. PICK x \in Free(p) : \A y \in Free(p) : ~ (<<y, x>> \in less)
  <2>1. Free(p) \subseteq Nat
    BY <1>1
  <2> QED BY <1>2, <2>1, WFMin
<1>5. \A y \in Free(p) : x <= y
  <2> SUFFICES ASSUME NEW y \in Free(p) PROVE x <= y
    OBVIOUS
  <2>1. x \in Nat /\ y \in Nat
    BY <1>1
  <2>2. ~ (y < x)
    BY <2>1, <1>3, <1>4
  <2> QED BY <2>1, <2>2
<1>6. LowestFree(p) \in Free(p)
  BY <1>5 DEF LowestFree, Min
<1> QED BY <1>6 DEF Free

LEMMA InitIInv == Init => IInv
<1> SUFFICES ASSUME Init PROVE IInv
  OBVIOUS
<1> USE ListenerAssumption DEF Init, Objects, NoFds, Closed
<1>1. TypeOK
  <2>1. fds \in [{Parent} \cup Conns -> [Fds -> Objects]]
    OBVIOUS
  <2> QED BY <2>1 DEF TypeOK, NotAccepted
<1>2. ParentInv
  BY DEF ParentInv
<1>3. ChildInv
  BY DEF ChildInv
<1> QED BY <1>1, <1>2, <1>3 DEF IInv

\* Steps that open, close and hand over nothing.
LEMMA QuietIInv ==
  ASSUME IInv, TypeOK',
         UNCHANGED <<listenFd, accepted, fds, selectFd>>,
         parent' \in {"select", "accept", "fork", "close"} =>
           parent \in {"select", "accept", "fork", "close"},
         parent' \in {"fork", "close"} => parent' = parent,
         parent' = "start" => parent = "start" /\ UNCHANGED <<backlog, child>>,
         parent \in {"fork", "close", "undefined"} =>
           parent' \in {"fork", "close", "undefined"},
         \A c \in Conns : \/ child'[c] = child[c]
                          \/ /\ child[c] # "forked"
                             /\ child'[c] \notin {"forked", "serving"}
                             /\ child[c] # "none" \/ c \in backlog,
         \A c \in backlog' :
           /\ child'[c] = "none"
           /\ parent = "fork" /\ c = accepted.conn => c \in backlog
  PROVE  IInv'
<1>1. ParentInv'
  <2>1. parent' = "start" =>
          backlog' = {} /\ listenFd' = NoFd /\ \A c \in Conns : child'[c] = "none"
    BY DEF IInv, ParentInv
  <2>2. parent' = "fork" =>
          accepted'.conn \notin backlog' /\ child'[accepted'.conn] = "none"
    <3> SUFFICES ASSUME parent' = "fork"
                 PROVE  accepted.conn \notin backlog' /\ child'[accepted.conn] = "none"
      OBVIOUS
    <3>1. /\ parent = "fork" /\ accepted.conn \in Conns
          /\ accepted.conn \notin backlog /\ child[accepted.conn] = "none"
      BY DEF IInv, ParentInv
    <3> QED BY <3>1
  <2>3. parent' \in {"fork", "close"} =>
          /\ accepted' \in [conn : Conns, fd : Fds]
          /\ accepted'.fd # listenFd'
          /\ fds'[Parent][accepted'.fd] = accepted'.conn
    BY DEF IInv, ParentInv
  <2>4. \A fd \in Fds : fds'[Parent][fd] \in Conns =>
          /\ parent' \in {"fork", "close", "undefined"}
          /\ fd = accepted'.fd /\ fds'[Parent][fd] = accepted'.conn
    BY DEF IInv, ParentInv
  <2>5. parent' \in {"select", "accept", "fork", "close"} =>
          listenFd' \in Fds /\ fds'[Parent][listenFd'] = "listener"
    BY DEF IInv, ParentInv
  <2>6. /\ \A fd \in Fds : fds'[Parent][fd] = "listener" => fd = listenFd'
        /\ \A c \in backlog' : child'[c] = "none"
    BY DEF IInv, ParentInv
  <2> HIDE DEF ParentInv
  <2> QED BY <2>1, <2>2, <2>3, <2>4, <2>5, <2>6 DEF ParentInv
<1>2. ChildInv'
  BY DEF IInv, ChildInv
<1> QED BY <1>1, <1>2 DEF IInv

LEMMA NextTypeOK == TypeOK /\ [Next]_vars => TypeOK'
<1> SUFFICES ASSUME TypeOK, [Next]_vars PROVE TypeOK'
  OBVIOUS
<1> USE DEF TypeOK, conns, children, signals, ParentAt
<1>1. CASE Listen
  BY <1>1, LowestIsFree DEF Listen, Objects
<1>2. CASE ListenFails
  BY <1>2 DEF ListenFails
<1>3. CASE Select
  BY <1>3 DEF Select
<1>4. CASE AcceptFails
  BY <1>4 DEF AcceptFails
<1>0. accepted.conn \in {Parent} \cup Conns /\ accepted.fd \in Fds \cup {NoFd}
  BY DEF NotAccepted
<1>5. CASE Fork
  BY <1>0, <1>5 DEF Fork
<1>6. CASE ForkFails
  BY <1>6 DEF ForkFails, Objects
<1>7. CASE CloseAccepted
  BY <1>7 DEF CloseAccepted, Objects
<1>8. CASE HandlerStarts
  BY <1>8 DEF HandlerStarts
<1>9. CASE HandlerReturns
  BY <1>9 DEF HandlerReturns
<1>10. ASSUME NEW c \in Conns, Accept(c) PROVE TypeOK'
  BY SMTT(20), <1>10, LowestIsFree DEF Accept, Objects
<1>11. ASSUME NEW c \in Conns, Reap(c) PROVE TypeOK'
  BY <1>11 DEF Reap
<1>12. ASSUME NEW c \in Conns, ChildStarts(c) PROVE TypeOK'
  <2> USE ListenerAssumption DEF ChildStarts, Objects
  <2>1. AcceptFd \in Fds
    BY DEF Fds
  <2>2. fds' \in [{Parent} \cup Conns -> [Fds -> Objects]]
    BY <1>12
  <2>3. selectFd' \in [Conns -> Fds \cup {NoFd}]
    BY <1>12, <2>1
  <2> QED BY <1>12, <2>2, <2>3
<1>13. ASSUME NEW c \in Conns, ChildReturns(c) PROVE TypeOK'
  BY <1>13 DEF ChildReturns
<1>14. ASSUME NEW c \in Conns, ChildEnds(c) PROVE TypeOK'
  BY <1>14 DEF ChildEnds, NoFds, Objects
<1>15. ASSUME NEW c \in Conns, Connect(c) PROVE TypeOK'
  BY <1>15 DEF Connect
<1>16. ASSUME NEW c \in Conns, Abort(c) PROVE TypeOK'
  BY <1>16 DEF Abort
<1>17. CASE UNCHANGED vars
  BY <1>17 DEF vars
<1> QED BY <1>1, <1>2, <1>3, <1>4, <1>5, <1>6, <1>7, <1>8, <1>9, <1>10, <1>11,
           <1>12, <1>13, <1>14, <1>15, <1>16, <1>17 DEF Next

LEMMA ListenIInv == IInv /\ Listen => IInv'
<1> SUFFICES ASSUME IInv, Listen PROVE IInv'
  OBVIOUS
<1> DEFINE fd0 == LowestFree(Parent)
<1>1. TypeOK'
  BY NextTypeOK DEF IInv, Next
<1>2. /\ parent = "start" /\ listenFd' = fd0
      /\ fds' = [fds EXCEPT ![Parent][fd0] = "listener"]
      /\ parent' \in {"select", "undefined"}
      /\ UNCHANGED <<backlog, accepted, child, selectFd>>
  BY DEF Listen, ParentAt, conns, children
<1>3. fd0 \in Fds
  BY LowestIsFree DEF IInv, Listen
<1> HIDE DEF fd0
<1>4. /\ fds'[Parent][fd0] = "listener"
      /\ \A fd \in Fds : fd # fd0 => fds'[Parent][fd] = fds[Parent][fd]
      /\ \A c \in Conns : fds'[c] = fds[c]
  BY <1>2, <1>3, ListenerAssumption DEF IInv, TypeOK
<1>5. \A fd \in Fds : fds[Parent][fd] \notin Conns
  BY <1>2 DEF IInv, ParentInv
<1>6. \A c \in Conns : child[c] = "none"
  BY <1>2 DEF IInv, ParentInv
<1>7. \A fd \in Fds : fds[Parent][fd] # "listener"
  <2>1. NoFd \notin Fds
    BY ListenerAssumption DEF NoFd, Fds
  <2> QED BY <2>1, <1>2 DEF IInv, ParentInv
<1>8. ParentInv'
  BY <1>2, <1>3, <1>4, <1>5, <1>6, <1>7, ListenerAssumption DEF ParentInv, IInv
<1>9. ChildInv'
  BY <1>2, <1>3, <1>4, <1>6 DEF ChildInv, IInv
<1> QED BY <1>1, <1>8, <1>9 DEF IInv

LEMMA AcceptIInv == ASSUME IInv, NEW c \in Conns, Accept(c) PROVE IInv'
<1> DEFINE fd0 == LowestFree(Parent)
<1>1. TypeOK'
  BY NextTypeOK DEF IInv, Next
<1>2. /\ parent = "accept" /\ backlog' = backlog \ {c} /\ c \in backlog
      /\ UNCHANGED <<listenFd, selectFd>>
  BY DEF Accept, ParentAt
<1>3. child[c] = "none"
  BY <1>2 DEF IInv, ParentInv
<1>4. CASE fd0 > FdSetSize
  <2>1. /\ parent' = "select" /\ child' = [child EXCEPT ![c] = "refused"]
        /\ UNCHANGED <<accepted, fds>>
    BY <1>4 DEF Accept
  <2> QED BY <1>1, <1>2, <1>3, <2>1, QuietIInv DEF IInv, ParentInv, TypeOK
<1>5. CASE ~(fd0 > FdSetSize)
  <2>1. /\ parent' = "fork" /\ accepted' = [conn |-> c, fd |-> fd0]
        /\ fds' = [fds EXCEPT ![Parent][fd0] = c] /\ child' = child
    BY <1>5 DEF Accept
  <2>2. fd0 \in Fds /\ fds[Parent][fd0] = "closed"
    BY LowestIsFree DEF IInv, Accept, Closed
  <2> HIDE DEF fd0
  <2>3. /\ fds'[Parent][fd0] = c
        /\ \A fd \in Fds : fd # fd0 => fds'[Parent][fd] = fds[Parent][fd]
        /\ \A d \in Conns : fds'[d] = fds[d]
    BY <2>1, <2>2, ListenerAssumption DEF IInv, TypeOK
  <2>4. /\ listenFd \in Fds /\ fds[Parent][listenFd] = "listener"
        /\ fd0 # listenFd
    BY <1>2, <2>2 DEF IInv, ParentInv
  <2>5. accepted'.conn = c /\ accepted'.fd = fd0
    BY <2>1
  <2>6. \A fd \in Fds : fds[Parent][fd] \notin Conns
    BY <1>2 DEF IInv, ParentInv
  <2>7. accepted' \in [conn : Conns, fd : Fds]
    BY <2>1, <2>2
  <2>8. c # "listener"
    BY ListenerAssumption
  <2>9. ParentInv'
    <3>1. /\ \A fd \in Fds : fds[Parent][fd] = "listener" => fd = listenFd
          /\ \A d \in backlog : child[d] = "none"
      BY DEF IInv, ParentInv
    <3>2. \A fd \in Fds : fds'[Parent][fd] = "listener" => fd = listenFd
      BY <2>3, <2>8, <3>1
    <3>3. \A fd \in Fds : fds'[Parent][fd] \in Conns => fd = fd0
      BY <2>3, <2>6
    <3> QED BY <1>2, <2>1, <2>3, <2>4, <2>5, <2>7, <3>1, <3>2, <3>3
            DEF ParentInv
  <2>10. ChildInv'
    BY <1>2, <2>1, <2>3 DEF ChildInv, IInv
  <2> QED BY <1>1, <2>9, <2>10 DEF IInv
<1> QED BY <1>4, <1>5

LEMMA ForkIInv == IInv /\ Fork => IInv'
<1> SUFFICES ASSUME IInv, Fork PROVE IInv'
  OBVIOUS
<1> DEFINE a == accepted.conn
<1>1. TypeOK'
  BY NextTypeOK DEF IInv, Next
<1>2. /\ parent = "fork" /\ parent' = "close"
      /\ child' = [child EXCEPT ![a] = "forked"]
      /\ fds' = [fds EXCEPT ![a] = fds[Parent]]
      /\ selectFd' = [selectFd EXCEPT ![a] = accepted.fd]
      /\ UNCHANGED <<listenFd, backlog, accepted>>
  BY DEF Fork, ParentAt, conns
<1>3. /\ a \in Conns /\ accepted.fd \in Fds /\ accepted.fd # listenFd
      /\ fds[Parent][accepted.fd] = a /\ a \notin backlog
      /\ listenFd \in Fds
      /\ \A fd \in Fds : fds[Parent][fd] \in Conns => fds[Parent][fd] = a
      /\ \A fd \in Fds : fds[Parent][fd] = "listener" => fd = listenFd
  BY <1>2 DEF IInv, ParentInv
<1> HIDE DEF a
<1>4. /\ fds'[a] = fds[Parent] /\ fds'[Parent] = fds[Parent]
      /\ \A c \in Conns : c # a => fds'[c] = fds[c]
      /\ child'[a] = "forked" /\ \A c \in Conns : c # a => child'[c] = child[c]
      /\ selectFd'[a] = accepted.fd
      /\ \A c \in Conns : c # a => selectFd'[c] = selectFd[c]
  BY <1>2, <1>3, ListenerAssumption DEF IInv, TypeOK
<1>5. ParentInv'
  BY <1>1, <1>2, <1>3, <1>4 DEF ParentInv, IInv, TypeOK
<1>6. ChildInv'
  <2> SUFFICES ASSUME NEW c \in Conns
               PROVE  /\ \A fd \in Fds : fds'[c][fd] \in Conns => fds'[c][fd] = c
                      /\ \A fd \in Fds : fds'[c][fd] = "listener" =>
                           fd = listenFd' /\ child'[c] = "forked"
                      /\ child'[c] = "forked" =>
                           listenFd' \in Fds /\ selectFd'[c] # listenFd'
                      /\ child'[c] \in {"forked", "serving"} =>
                           selectFd'[c] \in Fds /\ fds'[c][selectFd'[c]] = c
    BY DEF ChildInv
  <2>1. CASE c = a
    BY <2>1, <1>2, <1>3, <1>4
  <2>2. CASE c # a
    BY <2>2, <1>2, <1>4 DEF IInv, ChildInv
  <2> QED BY <2>1, <2>2
<1> QED BY <1>1, <1>5, <1>6 DEF IInv

\* close, after a fork that succeeded or failed.
LEMMA CloseIInv == IInv /\ (CloseAccepted \/ ForkFails) => IInv'
<1> SUFFICES ASSUME IInv, CloseAccepted \/ ForkFails PROVE IInv'
  OBVIOUS
<1> DEFINE a == accepted.conn
           fd0 == accepted.fd
<1>1. TypeOK'
  BY NextTypeOK DEF IInv, Next
<1>2. /\ parent \in {"fork", "close"} /\ parent' \in {"select", "ended"}
      /\ \/ child' = child
         \/ parent = "fork" /\ child' = [child EXCEPT ![a] = "refused"]
      /\ fds' = [fds EXCEPT ![Parent][fd0] = "closed"]
      /\ UNCHANGED <<listenFd, backlog, selectFd>>
  BY DEF CloseAccepted, ForkFails, ParentAt, children, Closed
<1>3. /\ a \in Conns /\ fd0 \in Fds /\ fd0 # listenFd
      /\ listenFd \in Fds /\ fds[Parent][listenFd] = "listener"
      /\ parent = "fork" => a \notin backlog /\ child[a] = "none"
      /\ \A fd \in Fds : fds[Parent][fd] \in Conns => fd = fd0
      /\ \A fd \in Fds : fds[Parent][fd] = "listener" => fd = listenFd
      /\ \A c \in backlog : child[c] = "none"
  BY <1>2 DEF IInv, ParentInv
<1> HIDE DEF a, fd0
<1>4. /\ fds'[Parent][fd0] = "closed" /\ "closed" \notin Conns
      /\ \A fd \in Fds : fd # fd0 => fds'[Parent][fd] = fds[Parent][fd]
      /\ \A c \in Conns : fds'[c] = fds[c]
  BY <1>2, <1>3, ListenerAssumption DEF IInv, TypeOK
<1>5. \A fd \in Fds : fds'[Parent][fd] \notin Conns
  BY <1>3, <1>4
<1>6. \A c \in Conns : child'[c] = child[c] \/ (c = a /\ parent = "fork"
                                             /\ child'[c] = "refused")
  BY <1>2, <1>3 DEF IInv, TypeOK
<1>7. ParentInv'
  <2>1. \A fd \in Fds : fds'[Parent][fd] = "listener" => fd = listenFd
    BY <1>3, <1>4
  <2>2. \A c \in backlog : child'[c] = "none"
    BY <1>3, <1>6 DEF IInv, TypeOK
  <2> QED BY <2>1, <2>2, <1>2, <1>3, <1>4, <1>5 DEF ParentInv
<1>8. ChildInv'
  BY <1>2, <1>3, <1>4, <1>6 DEF IInv, ChildInv
<1> QED BY <1>1, <1>7, <1>8 DEF IInv

\* The child closes the listening socket and moves its descriptor: neither
\* undoes the other, wherever the three descriptors lie.
LEMMA ChildStartsIInv == ASSUME IInv, NEW c \in Conns, ChildStarts(c) PROVE IInv'
<1> DEFINE s == selectFd[c]
<1>1. TypeOK'
  BY NextTypeOK DEF IInv, Next
<1>2. /\ child[c] = "forked" /\ child' = [child EXCEPT ![c] = "serving"]
      /\ UNCHANGED <<parent, listenFd, backlog, accepted>>
  BY DEF ChildStarts, conns
<1>3. /\ s \in Fds /\ s # listenFd /\ listenFd \in Fds /\ fds[c][s] = c
      /\ \A fd \in Fds : fds[c][fd] \in Conns => fds[c][fd] = c
      /\ \A fd \in Fds : fds[c][fd] = "listener" => fd = listenFd
      /\ AcceptFd \in Fds
  BY <1>2, ListenerAssumption DEF IInv, ChildInv, Fds
<1>4. /\ "closed" \notin Conns /\ c # "listener"
      /\ c # Parent
  BY ListenerAssumption
<1>5. /\ fds'[Parent] = fds[Parent]
      /\ \A d \in Conns : d # c =>
           fds'[d] = fds[d] /\ child'[d] = child[d] /\ selectFd'[d] = selectFd[d]
      /\ child'[c] = "serving"
  BY <1>2, <1>4 DEF ChildStarts, IInv, TypeOK
<1>6. /\ \A fd \in Fds : fds'[c][fd] \in Conns => fds'[c][fd] = c
      /\ \A fd \in Fds : fds'[c][fd] # "listener"
      /\ selectFd'[c] \in Fds /\ fds'[c][selectFd'[c]] = c
  <2>1. CASE s < AcceptFd
    <3>1. /\ fds' = [fds EXCEPT ![c][listenFd] = "closed", ![c][AcceptFd] = c,
                               ![c][s] = "closed"]
          /\ selectFd' = [selectFd EXCEPT ![c] = AcceptFd]
      BY <2>1 DEF ChildStarts, Closed
    <3>2. s # AcceptFd
      BY <2>1, <1>3, ListenerAssumption DEF Fds
    <3> HIDE DEF s
    <3>3. /\ fds'[c][s] = "closed" /\ fds'[c][AcceptFd] = c
          /\ listenFd # AcceptFd => fds'[c][listenFd] = "closed"
          /\ \A fd \in Fds \ {s, AcceptFd, listenFd} : fds'[c][fd] = fds[c][fd]
          /\ selectFd'[c] = AcceptFd
      BY <3>1, <3>2, <1>3 DEF IInv, TypeOK
    <3> QED BY <3>3, <1>3, <1>4
  <2>2. CASE ~(s < AcceptFd)
    <3>1. /\ fds' = [fds EXCEPT ![c][listenFd] = "closed"]
          /\ selectFd' = selectFd
      BY <2>2 DEF ChildStarts, Closed
    <3>2. /\ fds'[c][listenFd] = "closed"
          /\ \A fd \in Fds \ {listenFd} : fds'[c][fd] = fds[c][fd]
      BY <3>1, <1>3 DEF IInv, TypeOK
    <3> QED BY <3>1, <3>2, <1>3, <1>4
  <2> QED BY <2>1, <2>2
<1>7. ParentInv'
  <2>1. child[c] # "none"
    BY <1>2
  <2> QED BY <1>2, <1>5, <2>1 DEF IInv, ParentInv, TypeOK
<1>8. ChildInv'
  <2> SUFFICES ASSUME NEW d \in Conns
               PROVE  /\ \A fd \in Fds : fds'[d][fd] \in Conns => fds'[d][fd] = d
                      /\ \A fd \in Fds : fds'[d][fd] = "listener" =>
                           fd = listenFd' /\ child'[d] = "forked"
                      /\ child'[d] = "forked" =>
                           listenFd' \in Fds /\ selectFd'[d] # listenFd'
                      /\ child'[d] \in {"forked", "serving"} =>
                           selectFd'[d] \in Fds /\ fds'[d][selectFd'[d]] = d
    BY DEF ChildInv
  <2>1. CASE d = c
    BY <2>1, <1>5, <1>6
  <2>2. CASE d # c
    BY <2>2, <1>2, <1>5 DEF IInv, ChildInv
  <2> QED BY <2>1, <2>2
<1> QED BY <1>1, <1>7, <1>8 DEF IInv

LEMMA ChildEndsIInv == ASSUME IInv, NEW c \in Conns, ChildEnds(c) PROVE IInv'
<1>1. TypeOK'
  BY NextTypeOK DEF IInv, Next
<1>2. /\ child[c] \in {"serving", "polling"}
      /\ child' = [child EXCEPT ![c] = "zombie"]
      /\ fds' = [fds EXCEPT ![c] = NoFds]
      /\ UNCHANGED <<parent, listenFd, backlog, accepted, selectFd>>
  BY DEF ChildEnds, conns
<1>3. /\ \A fd \in Fds : fds'[c][fd] = "closed"
      /\ fds'[Parent] = fds[Parent]
      /\ \A d \in Conns : d # c => fds'[d] = fds[d] /\ child'[d] = child[d]
      /\ child'[c] = "zombie" /\ "closed" \notin Conns
  BY <1>2, ListenerAssumption DEF IInv, TypeOK, NoFds, Closed
<1>4. ParentInv'
  <2>1. child[c] # "none"
    BY <1>2
  <2> QED BY <1>2, <1>3, <2>1 DEF IInv, ParentInv, TypeOK
<1>5. ChildInv'
  BY <1>2, <1>3 DEF IInv, ChildInv
<1> QED BY <1>1, <1>4, <1>5 DEF IInv

LEMMA NextIInv == IInv /\ [Next]_vars => IInv'
<1> SUFFICES ASSUME IInv, [Next]_vars PROVE IInv'
  OBVIOUS
<1>0. TypeOK /\ TypeOK' /\ \A c \in backlog : child[c] = "none"
  BY NextTypeOK DEF IInv, ParentInv
<1> USE DEF ParentAt, conns, children, signals
<1>1. CASE Listen
  BY <1>1, ListenIInv
<1>2. CASE ListenFails
  BY <1>2, <1>0, QuietIInv DEF ListenFails, TypeOK
<1>3. CASE Select
  BY <1>3, <1>0, QuietIInv DEF Select, TypeOK
<1>4. CASE AcceptFails
  BY <1>4, <1>0, QuietIInv DEF AcceptFails, TypeOK
<1>5. CASE Fork
  BY <1>5, ForkIInv
<1>6. CASE ForkFails
  BY <1>6, CloseIInv
<1>7. CASE CloseAccepted
  BY <1>7, CloseIInv
<1>8. CASE HandlerStarts
  BY <1>8, <1>0, QuietIInv DEF HandlerStarts, TypeOK
<1>9. CASE HandlerReturns
  BY <1>9, <1>0, QuietIInv DEF HandlerReturns, TypeOK
<1>10. ASSUME NEW c \in Conns, Accept(c) PROVE IInv'
  BY <1>10, AcceptIInv
<1>11. ASSUME NEW c \in Conns, Reap(c) PROVE IInv'
  <2>1. /\ child[c] = "zombie" /\ child' = [child EXCEPT ![c] = "reaped"]
        /\ parent' \in {parent, "undefined"} /\ parent # "undefined"
        /\ UNCHANGED <<listenFd, backlog, accepted, fds, selectFd>>
    BY <1>11 DEF Reap, Zombies
  <2>2. parent # "start"
    BY <2>1 DEF IInv, ParentInv
  <2>3. \A d \in Conns : \/ child'[d] = child[d]
                         \/ child[d] = "zombie" /\ child'[d] = "reaped"
    BY <2>1, <1>0 DEF TypeOK
  <2>4. \A d \in backlog' : child'[d] = "none" /\ d \in backlog
    BY <2>1, <1>0 DEF TypeOK
  <2> QED BY <2>1, <2>2, <2>3, <2>4, <1>0, QuietIInv
<1>12. ASSUME NEW c \in Conns, ChildStarts(c) PROVE IInv'
  BY <1>12, ChildStartsIInv
<1>13. ASSUME NEW c \in Conns, ChildReturns(c) PROVE IInv'
  <2>1. /\ child[c] = "serving" /\ child' = [child EXCEPT ![c] = "polling"]
        /\ UNCHANGED <<parent, listenFd, backlog, accepted, fds, selectFd>>
    BY <1>13 DEF ChildReturns
  <2>2. parent # "start"
    BY <2>1 DEF IInv, ParentInv
  <2>3. \A d \in Conns : \/ child'[d] = child[d]
                         \/ child[d] = "serving" /\ child'[d] = "polling"
    BY <2>1, <1>0 DEF TypeOK
  <2>4. \A d \in backlog' : child'[d] = "none" /\ d \in backlog
    BY <2>1, <1>0 DEF TypeOK
  <2> QED BY <2>1, <2>2, <2>3, <2>4, <1>0, QuietIInv
<1>14. ASSUME NEW c \in Conns, ChildEnds(c) PROVE IInv'
  BY <1>14, ChildEndsIInv
<1>15. ASSUME NEW c \in Conns, Connect(c) PROVE IInv'
  <2>1. /\ parent # "start" /\ child[c] = "none" /\ c # accepted.conn
        /\ backlog' = backlog \cup {c}
        /\ UNCHANGED <<parent, listenFd, accepted, fds, child, selectFd>>
    BY <1>15 DEF Connect
  <2> QED BY <2>1, <1>0, QuietIInv
<1>16. ASSUME NEW c \in Conns, Abort(c) PROVE IInv'
  <2>1. /\ c \in backlog /\ backlog' = backlog \ {c} /\ child[c] = "none"
        /\ child' = [child EXCEPT ![c] = "refused"]
        /\ UNCHANGED <<parent, listenFd, accepted, fds, selectFd>>
    BY <1>16, <1>0 DEF Abort
  <2>2. parent # "start"
    BY <2>1 DEF IInv, ParentInv
  <2>3. \A d \in Conns : child'[d] = child[d] \/ (d = c /\ child'[d] = "refused")
    BY <2>1, <1>0 DEF TypeOK
  <2>4. \A d \in backlog' : child'[d] = "none" /\ d \in backlog
    BY <2>1, <1>0 DEF TypeOK
  <2> QED BY <2>1, <2>2, <2>3, <2>4, <1>0, QuietIInv
<1>17. CASE UNCHANGED vars
  BY <1>17, <1>0, QuietIInv DEF vars
<1> QED BY <1>1, <1>2, <1>3, <1>4, <1>5, <1>6, <1>7, <1>8, <1>9, <1>10, <1>11,
           <1>12, <1>13, <1>14, <1>15, <1>16, <1>17 DEF Next

-----------------------------------------------------------------------------
\* In every reachable state of the listening process, its children and the
\* SIGCHLD handler the strengthening holds; the theorems below follow from it.
THEOREM Invariance == Spec => []IInv
BY InitIInv, NextIInv, PTL DEF Spec, SafeSpec

\* Every state is well typed: every descriptor used is one a process may have.
THEOREM TypeCorrect == Spec => []TypeOK
<1>1. IInv => TypeOK
  BY DEF IInv
<1> QED BY <1>1, Invariance, PTL

\* However many switches connect and in whatever order their processes come
\* and go, no process holds the connection of another.
THEOREM ConnectionsNotShared == Spec => []OnlyOwnConnection
<1>1. ASSUME IInv PROVE OnlyOwnConnection
  BY <1>1 DEF IInv, ParentInv, ChildInv, OnlyOwnConnection
<1> QED BY <1>1, Invariance, PTL

\* The move to CC_ACCEPT_FD leaves every child with its connection under the
\* descriptor it selects on, for every AcceptFd, listenFd and descriptor given.
THEOREM SelectionCorrect == Spec => []SelectsItsConnection
<1>1. ASSUME IInv PROVE SelectsItsConnection
  BY <1>1 DEF IInv, ChildInv, SelectsItsConnection
<1> QED BY <1>1, Invariance, PTL

\* Only the listening process ever listens.
THEOREM OneListener == Spec => []NoSecondListener
<1>1. ASSUME IInv PROVE NoSecondListener
  BY <1>1 DEF IInv, ChildInv, NoSecondListener
<1> QED BY <1>1, Invariance, PTL
=============================================================================
