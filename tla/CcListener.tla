----------------------------- MODULE CcListener -----------------------------
(***************************************************************************)
(* The controller's listening process, main and cc_polling, and the        *)
(* process it forks for each switch in cc_conn_accept (src/cc_main.c,      *)
(* lib/cc_init_of.c): descriptors, processes and SIGCHLD.  What a child    *)
(* does with its channel is the subject of CcSecureChannel; here it serves *)
(* until it returns or crashes.                                            *)
(***************************************************************************)
EXTENDS Integers, FiniteSets, FiniteSetsExt

CONSTANTS Conns,      \* the connections switches may make
          MaxFd,      \* the highest descriptor a process may have
          FdSetSize,  \* FD_SETSIZE
          AcceptFd,   \* CC_ACCEPT_FD
          Parent      \* the listening process

ASSUME ListenerAssumption ==
  /\ Conns \cap {Parent, "inherited", "listener", "closed"} = {}
  /\ {MaxFd, FdSetSize, AcceptFd} \subseteq Nat
  /\ AcceptFd <= MaxFd

VARIABLES parent,    \* where the listening process is
          listenFd,  \* listen_socket->fd
          backlog,   \* connections not yet accepted
          accepted,  \* the connection cc_conn_accept is busy with, its fd
          fds,       \* the open descriptors of each process
          inherited, \* those the listening process was started with
          child,     \* the state of the process forked for each connection
          selectFd,  \* the child's local accept_fd, on which it selects
          channelFd, \* cc_switch.cc_socket.fd, which it reads and writes
          sigchld,   \* whether SIGCHLD is pending
          handler,   \* whether the parent is inside sig_child
          faulted    \* history: a waitpid failed for its status pointer

conns == <<backlog, accepted>>
children == <<child, selectFd, channelFd>>
signals == <<sigchld, handler, faulted>>
vars == <<parent, listenFd, conns, fds, inherited, children, signals>>

Fds == 0 .. MaxFd
NoFd == -1
Closed == "closed"
Objects == {"inherited", "listener", Closed} \cup Conns

NotAccepted == [conn |-> Parent, fd |-> NoFd]

TypeOK ==
  /\ parent \in {"start", "select", "accept", "fork", "close", "ended",
                 "undefined"}
  /\ listenFd \in Fds \cup {NoFd}
  /\ backlog \in SUBSET Conns
  /\ accepted \in {NotAccepted} \cup [conn : Conns, fd : Fds]
  /\ fds \in [{Parent} \cup Conns -> [Fds -> Objects]]
  /\ inherited \in SUBSET Fds
  /\ child \in [Conns -> {"none", "refused", "forked", "serving", "polling",
                          "zombie", "reaped"}]
  /\ selectFd \in [Conns -> Fds \cup {NoFd}]
  /\ channelFd \in [Conns -> Fds \cup {NoFd}]
  /\ sigchld \in BOOLEAN
  /\ handler \in BOOLEAN
  /\ faulted \in BOOLEAN

NoFds == [fd \in Fds |-> Closed]
Free(p) == {fd \in Fds : fds[p][fd] = Closed}
LowestFree(p) == Min(Free(p))

\* The process starts with any descriptors open, standard ones or others.
Init ==
  /\ parent = "start"
  /\ listenFd = NoFd
  /\ backlog = {}
  /\ accepted = NotAccepted
  /\ inherited \in SUBSET Fds
  /\ fds = [p \in {Parent} \cup Conns |->
              IF p = Parent
              THEN [fd \in Fds |-> IF fd \in inherited THEN "inherited"
                                                       ELSE Closed]
              ELSE NoFds]
  /\ child = [c \in Conns |-> "none"]
  /\ selectFd = [c \in Conns |-> NoFd]
  /\ channelFd = [c \in Conns |-> NoFd]
  /\ sigchld = FALSE
  /\ handler = FALSE
  /\ faulted = FALSE

\* The parent is at its own step p, and no signal handler is running on it.
ParentAt(p) == parent = p /\ ~handler

-----------------------------------------------------------------------------
(***************************************************************************)
(* The listening process.                                                  *)
(***************************************************************************)

\* cc_init_of_socket.
Listen ==
  /\ ParentAt("start")
  /\ Free(Parent) # {}
  /\ listenFd' = LowestFree(Parent)
  /\ fds' = [fds EXCEPT ![Parent][LowestFree(Parent)] = "listener"]
  /\ parent' = IF LowestFree(Parent) < FdSetSize THEN "select"
                                                 ELSE "undefined"
  /\ UNCHANGED <<conns, inherited, children, signals>>

\* The result is not looked at.  Without a descriptor FD_SET is given -1;
\* a socket that is closed or does not listen makes cc_polling return.
ListenFails ==
  /\ ParentAt("start")
  /\ parent' = IF Free(Parent) = {} THEN "undefined" ELSE "ended"
  /\ UNCHANGED <<listenFd, conns, fds, inherited, children, signals>>

\* cc_polling: select reports the listening socket.  A signal that interrupts
\* it is ignored.
Select ==
  /\ ParentAt("select")
  /\ backlog # {}
  /\ parent' = "accept"
  /\ UNCHANGED <<listenFd, conns, fds, inherited, children, signals>>

\* accept gives the lowest free descriptor; one beyond FD_SETSIZE is closed.
\* FD_SETSIZE itself passes: the child's FD_SET then writes behind its set,
\* which it may survive or not, as any child may.
Accept(c) ==
  /\ ParentAt("accept")
  /\ c \in backlog
  /\ Free(Parent) # {}
  /\ backlog' = backlog \ {c}
  /\ LET fd == LowestFree(Parent)
     IN  IF fd > FdSetSize
         THEN /\ parent' = "select"
              /\ child' = [child EXCEPT ![c] = "refused"]
              /\ UNCHANGED <<accepted, fds>>
         ELSE /\ parent' = "fork"
              /\ accepted' = [conn |-> c, fd |-> fd]
              /\ fds' = [fds EXCEPT ![Parent][fd] = c]
              /\ UNCHANGED child
  /\ UNCHANGED <<listenFd, inherited, selectFd, channelFd, signals>>

\* The connection is gone since select reported it (the socket does not
\* block), or no descriptor is left: the controller gives up.
AcceptFails ==
  /\ ParentAt("accept")
  /\ backlog = {} \/ Free(Parent) = {}
  /\ parent' = "ended"
  /\ UNCHANGED <<listenFd, conns, fds, inherited, children, signals>>

Fork ==
  /\ ParentAt("fork")
  /\ child' = [child EXCEPT ![accepted.conn] = "forked"]
  /\ fds' = [fds EXCEPT ![accepted.conn] = fds[Parent]]
  /\ selectFd' = [selectFd EXCEPT ![accepted.conn] = accepted.fd]
  /\ parent' = "close"
  /\ UNCHANGED <<listenFd, conns, inherited, channelFd, signals>>

ForkFails ==
  /\ ParentAt("fork")
  /\ fds' = [fds EXCEPT ![Parent][accepted.fd] = Closed]
  /\ child' = [child EXCEPT ![accepted.conn] = "refused"]
  /\ accepted' = NotAccepted
  /\ parent' = "ended"
  /\ UNCHANGED <<listenFd, backlog, inherited, selectFd, channelFd, signals>>

\* Mutation: the parent keeps its descriptor of the connection.
KeepAccepted ==
  /\ ParentAt("close")
  /\ accepted' = NotAccepted
  /\ parent' = "select"
  /\ UNCHANGED <<listenFd, backlog, fds, inherited, children, signals>>

CloseAccepted ==
  /\ ParentAt("close")
  /\ fds' = [fds EXCEPT ![Parent][accepted.fd] = Closed]
  /\ accepted' = NotAccepted
  /\ parent' = "select"
  /\ UNCHANGED <<listenFd, backlog, inherited, children, signals>>

-----------------------------------------------------------------------------
(***************************************************************************)
(* sig_child, which runs on the parent between any two of its steps.  The  *)
(* status pointer it passes to waitpid is never set: the call may write to *)
(* memory that is not there (the child is reaped, but the result is an     *)
(* error), to memory of something else, or do no harm.                     *)
(***************************************************************************)
Zombies == {c \in Conns : child[c] = "zombie"}

HandlerStarts ==
  /\ parent \notin {"ended", "undefined"}
  /\ sigchld
  /\ ~handler
  /\ handler' = TRUE
  /\ sigchld' = FALSE
  /\ UNCHANGED <<parent, listenFd, conns, fds, inherited, children, faulted>>

\* Mutation: an "if" in place of the "while" around waitpid.
ReapOnce(c) ==
  /\ handler
  /\ parent # "undefined"
  /\ c \in Zombies
  /\ child' = [child EXCEPT ![c] = "reaped"]
  /\ handler' = FALSE
  /\ UNCHANGED <<parent, listenFd, conns, fds, inherited, selectFd, channelFd,
                 sigchld, faulted>>

Reap(c) ==
  /\ handler
  /\ parent # "undefined"
  /\ c \in Zombies
  /\ child' = [child EXCEPT ![c] = "reaped"]
  /\ \/ UNCHANGED <<parent, handler, faulted>>
     \/ handler' = FALSE /\ faulted' = TRUE /\ UNCHANGED parent
     \/ parent' = "undefined" /\ UNCHANGED <<handler, faulted>>
  /\ UNCHANGED <<listenFd, conns, fds, inherited, selectFd, channelFd,
                 sigchld>>

HandlerReturns ==
  /\ handler
  /\ parent # "undefined"
  /\ Zombies = {}
  /\ handler' = FALSE
  /\ UNCHANGED <<parent, listenFd, conns, fds, inherited, children, sigchld,
                 faulted>>

-----------------------------------------------------------------------------
(***************************************************************************)
(* The child of one connection.                                            *)
(***************************************************************************)

\* Mutation: the child does not close the listening socket.
ChildKeepsListening(c) ==
  /\ child[c] = "forked"
  /\ child' = [child EXCEPT ![c] = "serving"]
  /\ channelFd' = [channelFd EXCEPT ![c] = selectFd[c]]
  /\ UNCHANGED <<parent, listenFd, conns, fds, inherited, selectFd, signals>>

\* Mutation: descriptor CC_ACCEPT_FD itself is moved too.
ChildMovesTooMuch(c) ==
  /\ child[c] = "forked"
  /\ child' = [child EXCEPT ![c] = "serving"]
  /\ channelFd' = [channelFd EXCEPT ![c] = selectFd[c]]
  /\ IF selectFd[c] <= AcceptFd
     THEN /\ fds' = [fds EXCEPT ![c][listenFd] = Closed,
                                ![c][AcceptFd] = c,
                                ![c][selectFd[c]] = Closed]
          /\ selectFd' = [selectFd EXCEPT ![c] = AcceptFd]
     ELSE /\ fds' = [fds EXCEPT ![c][listenFd] = Closed]
          /\ UNCHANGED selectFd
  /\ UNCHANGED <<parent, listenFd, conns, inherited, signals>>

\* The listening socket is closed and the descriptor noted; one below
\* CC_ACCEPT_FD is then moved there with dup2 and close.
ChildStarts(c) ==
  /\ child[c] = "forked"
  /\ child' = [child EXCEPT ![c] = "serving"]
  /\ channelFd' = [channelFd EXCEPT ![c] = selectFd[c]]
  /\ IF selectFd[c] < AcceptFd
     THEN /\ fds' = [fds EXCEPT ![c][listenFd] = Closed,
                                ![c][AcceptFd] = c,
                                ![c][selectFd[c]] = Closed]
          /\ selectFd' = [selectFd EXCEPT ![c] = AcceptFd]
     ELSE /\ fds' = [fds EXCEPT ![c][listenFd] = Closed]
          /\ UNCHANGED selectFd
  /\ UNCHANGED <<parent, listenFd, conns, inherited, signals>>

\* The select loop is left, cc_finalize_sw_info called, and cc_conn_accept
\* returns success to cc_polling in the child.
ChildReturns(c) ==
  /\ child[c] = "serving"
  /\ child' = [child EXCEPT ![c] = "polling"]
  /\ UNCHANGED <<parent, listenFd, conns, fds, inherited, selectFd, channelFd,
                 signals>>

\* The process ends: it crashes, or its select on the closed listening socket
\* fails and main returns.  Its descriptors are closed.
ChildEnds(c) ==
  /\ child[c] \in {"serving", "polling"}
  /\ child[c] = "polling" => fds[c][listenFd] = Closed
  /\ child' = [child EXCEPT ![c] = "zombie"]
  /\ fds' = [fds EXCEPT ![c] = NoFds]
  /\ sigchld' = TRUE
  /\ UNCHANGED <<parent, listenFd, conns, inherited, selectFd, channelFd,
                 handler, faulted>>

-----------------------------------------------------------------------------
(***************************************************************************)
(* The switches.                                                           *)
(***************************************************************************)
Connect(c) ==
  /\ parent \notin {"start", "ended", "undefined"}
  /\ child[c] = "none"
  /\ c \notin backlog \cup {accepted.conn}
  /\ backlog' = backlog \cup {c}
  /\ UNCHANGED <<parent, listenFd, accepted, fds, inherited, children, signals>>

\* A switch gives up before its connection is accepted.
Abort(c) ==
  /\ c \in backlog
  /\ backlog' = backlog \ {c}
  /\ child' = [child EXCEPT ![c] = "refused"]
  /\ UNCHANGED <<parent, listenFd, accepted, fds, inherited, selectFd,
                 channelFd, signals>>

Next ==
  \/ Listen \/ ListenFails \/ Select \/ AcceptFails \/ Fork \/ ForkFails
  \/ CloseAccepted
  \/ HandlerStarts \/ HandlerReturns
  \/ \E c \in Conns : \/ Accept(c) \/ Reap(c) \/ ChildStarts(c)
                      \/ ChildReturns(c) \/ ChildEnds(c)
                      \/ Connect(c) \/ Abort(c)

SafeSpec == Init /\ [][Next]_vars

\* Signals are delivered and the handler runs.
Spec == SafeSpec /\ WF_vars(HandlerStarts \/ HandlerReturns
                            \/ \E c \in Conns : Reap(c))

-----------------------------------------------------------------------------
(***************************************************************************)
(* Properties.                                                             *)
(***************************************************************************)

\* A process holds no connection but its own: the listening process none
\* while it waits, a child only the one it serves, so that a connection is
\* closed when the process of its switch ends.
OnlyOwnConnection ==
  /\ parent = "select" => \A fd \in Fds : fds[Parent][fd] \notin Conns
  /\ \A c \in Conns : \A fd \in Fds : fds[c][fd] \in Conns => fds[c][fd] = c

\* The descriptor a child selects on is its connection, wherever the
\* descriptors it was forked with happened to be.
SelectsItsConnection ==
  \A c \in Conns : child[c] = "serving" => fds[c][selectFd[c]] = c

\* A child whose switch is gone falls back into cc_polling, but has no
\* listening socket there: it cannot become a second listener.
NoSecondListener ==
  \A c \in Conns : child[c] \in {"serving", "polling"} =>
    \A fd \in Fds : fds[c][fd] # "listener"

\* The descriptor a child reads and writes is its connection; cc_conn_accept
\* says that a descriptor below 3 is avoided so that the standard ones are.
ChannelIsItsConnection ==
  \A c \in Conns : child[c] = "serving" => fds[c][channelFd[c]] = c

\* Although signals that come together are delivered as one, every child that
\* has ended is reaped, as long as the controller runs and no waitpid has
\* failed on its status pointer.
ZombiesReaped ==
  \A c \in Conns :
    child[c] = "zombie" ~> \/ child[c] = "reaped"
                           \/ faulted
                           \/ parent \in {"ended", "undefined"}
=============================================================================
