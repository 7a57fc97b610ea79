----------------------------- MODULE SynServer -----------------------------
(***************************************************************************)
(* The synthetic TCP server (servers/linux-synthetic.c).  Every thread of  *)
(* the process has a listening socket of its own on the same port          *)
(* (SO_REUSEPORT: the kernel gives a new connection to any of them) and an *)
(* epoll set of its own.  A thread handles the events of one epoll_wait,   *)
(* one after the other, as they were when epoll_wait returned: what        *)
(* happens to a connection in between is only met by the read or the write.*)
(*                                                                         *)
(* A request and a response are one long each, written and read whole; a   *)
(* request is its number on the connection, so that a response shows which *)
(* request it answers.  The clients keep one request in flight             *)
(* (LatencyWorker).  Every assertion that fails aborts the whole process,  *)
(* and the kernel then ends its connections.                               *)
(***************************************************************************)
EXTENDS Integers

CONSTANTS
  Threads,    \* the threads of the server process
  Conns,      \* the connections its clients may make
  Listener,   \* the event of a thread's listening socket
  None        \* no thread, no request

VARIABLES
  up,     \* is the process alive?
  home,   \* the thread whose listener, then whose epoll set, has a connection
  sock,   \* the server's socket of a connection
  peer,   \* what the server's kernel knows of the client's end
  link,   \* what the client's kernel knows of the server's end
  req,    \* the request that has arrived and is not read, 0 if there is none
  rep,    \* the response that has arrived and is not read, 0 if there is none
  todo,   \* the events of a thread's last epoll_wait not handled yet
  hup,    \* those of them that had EPOLLHUP or EPOLLERR
  work    \* the request a thread has read and not answered

serverVars == <<up, home, sock, peer, link, req, rep, todo, hup, work>>

Events == Conns \union {Listener}

ServerTypeOK ==
  /\ up \in BOOLEAN
  /\ home \in [Conns -> Threads \union {None}]
  /\ sock \in [Conns -> {"none", "backlog", "open", "closed"}]
  /\ peer \in [Conns -> {"up", "fin", "rst"}]
  /\ link \in [Conns -> {"up", "fin", "rst"}]
  /\ req \in [Conns -> Nat]
  /\ rep \in [Conns -> Nat]
  /\ todo \in [Threads -> SUBSET Events]
  /\ hup \in [Threads -> SUBSET Conns]
  /\ work \in [Threads -> [conn : Conns, req : Nat] \union {None}]

ServerInit ==
  /\ up = TRUE
  /\ home = [c \in Conns |-> None]
  /\ sock = [c \in Conns |-> "none"]
  /\ peer = [c \in Conns |-> "up"]
  /\ link = [c \in Conns |-> "up"]
  /\ req = [c \in Conns |-> 0]
  /\ rep = [c \in Conns |-> 0]
  /\ todo = [t \in Threads |-> {}]
  /\ hup = [t \in Threads |-> {}]
  /\ work = [t \in Threads |-> None]

-----------------------------------------------------------------------------
Mine(t, s) == {c \in Conns : home[c] = t /\ sock[c] = s}

(* Level-triggered; MAX_EVENTS is larger than what can be ready. *)
Ready(t) ==
  {c \in Mine(t, "open") : req[c] # 0 \/ peer[c] # "up"}
    \union (IF Mine(t, "backlog") # {} THEN {Listener} ELSE {})

Idle(t) == up /\ todo[t] = {} /\ work[t] = None

EpollWait(t) ==
  /\ Idle(t) /\ Ready(t) # {}
  /\ todo' = [todo EXCEPT ![t] = Ready(t)]
  /\ hup' = [hup EXCEPT ![t] = {c \in Mine(t, "open") : peer[c] = "rst"}]
  /\ UNCHANGED <<up, home, sock, peer, link, req, rep, work>>

AtEvent(t, e) == up /\ work[t] = None /\ e \in todo[t]
Handled(t, e) == todo' = [todo EXCEPT ![t] = @ \ {e}]

(* The new socket is not added to the epoll set. *)
BugAccept(t) ==
  /\ AtEvent(t, Listener)
  /\ \E c \in Mine(t, "backlog") : sock' = [sock EXCEPT ![c] = "closed"]
  /\ Handled(t, Listener)
  /\ UNCHANGED <<up, home, peer, link, req, rep, hup, work>>

(* accept gives one connection, a reset one as well. *)
Accept(t) ==
  /\ AtEvent(t, Listener)
  /\ \E c \in Mine(t, "backlog") : sock' = [sock EXCEPT ![c] = "open"]
  /\ Handled(t, Listener)
  /\ UNCHANGED <<up, home, peer, link, req, rep, hup, work>>

(* A hang-up that is noticed and not acted on. *)
BugHangup(t, c) ==
  /\ AtEvent(t, c) /\ c \in hup[t]
  /\ Handled(t, c)
  /\ UNCHANGED <<up, home, sock, peer, link, req, rep, hup, work>>

Hangup(t, c) ==
  /\ AtEvent(t, c) /\ c \in hup[t]
  /\ sock' = [sock EXCEPT ![c] = "closed"]
  /\ Handled(t, c)
  /\ UNCHANGED <<up, home, peer, link, req, rep, hup, work>>

(* Served again at the next epoll_wait: the request is not taken. *)
BugReadReq(t, c) ==
  /\ AtEvent(t, c) /\ c \notin hup[t] /\ req[c] # 0
  /\ work' = [work EXCEPT ![t] = [conn |-> c, req |-> req[c]]]
  /\ Handled(t, c)
  /\ UNCHANGED <<up, home, sock, peer, link, req, rep, hup>>

(* process_req: a request that had arrived can be read even after a reset. *)
ReadReq(t, c) ==
  /\ AtEvent(t, c) /\ c \notin hup[t] /\ req[c] # 0
  /\ work' = [work EXCEPT ![t] = [conn |-> c, req |-> req[c]]]
  /\ req' = [req EXCEPT ![c] = 0]
  /\ Handled(t, c)
  /\ UNCHANGED <<up, home, sock, peer, link, rep, hup>>

(* ... and answered, once the thread has spun. *)
WriteReply(t) ==
  /\ up /\ work[t] # None
  /\ peer[work[t].conn] # "rst"
  /\ rep' = [rep EXCEPT ![work[t].conn] = work[t].req]
  /\ work' = [work EXCEPT ![t] = None]
  /\ UNCHANGED <<up, home, sock, peer, link, req, todo, hup>>

(* The kernel closes the sockets of a process that dies: with a reset when *)
(* something was not read or not accepted, else in order.                  *)
Abort ==
  /\ up' = FALSE
  /\ link' = [c \in Conns |->
                IF sock[c] \in {"backlog", "open"}
                THEN IF sock[c] = "backlog" \/ req[c] # 0 THEN "rst" ELSE "fin"
                ELSE link[c]]
  /\ UNCHANGED <<home, sock, peer, req, rep, todo, hup, work>>

(* read returned 0. *)
ReadEof(t, c) ==
  AtEvent(t, c) /\ c \notin hup[t] /\ req[c] = 0 /\ Abort

WriteFails(t) ==
  up /\ work[t] # None /\ peer[work[t].conn] = "rst" /\ Abort

Thread(t) ==
  \/ EpollWait(t) \/ Accept(t) \/ WriteReply(t) \/ WriteFails(t)
  \/ \E c \in Conns : Hangup(t, c) \/ ReadReq(t, c) \/ ReadEof(t, c)
=============================================================================
