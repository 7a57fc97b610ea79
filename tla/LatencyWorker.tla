--------------------------- MODULE LatencyWorker ---------------------------
(***************************************************************************)
(* Latency agents, each with its worker latency_tcp_main (agents/          *)
(* tp_tcp.c), against one synthetic server.  A worker opens its            *)
(* connections one after the other, then, as long as the manager thread    *)
(* wants load, writes one request at a time and blocks in recv until it is *)
(* answered.  Its process may be killed at any point.                      *)
(*                                                                         *)
(* A worker that is not due, that has no load to generate or that          *)
(* pick_conn gave no connection goes round its loop without effect.        *)
(***************************************************************************)
EXTENDS SynServer, FiniteSets, FiniteSetsExt

CONSTANTS
  Agents,     \* the agents, one worker thread each
  Owner,      \* the agent of a connection
  MaxSends    \* bound: requests of an agent

ASSUME LatencyAssumption ==
  /\ IsFiniteSet(Conns) /\ IsFiniteSet(Threads)
  /\ Owner \in [Conns -> Agents]
  /\ MaxSends \in Nat
  /\ Listener \notin Conns
  /\ None \notin Threads \union [conn : Conns, req : Nat]

VARIABLES
  life,      \* "run", "returned" (the thread), "dead" (the process)
  linger,    \* the connections whose SO_LINGER has been set
  closed,    \* conn->closed
  waiting,   \* the connection a worker waits on in recv, or {}
  sent, answered, sample  \* history: see FifoRtt

client == <<life, linger, closed, waiting>>
vars   == <<serverVars, client, sent, answered, sample>>

TypeOK ==
  /\ ServerTypeOK
  /\ life \in [Agents -> {"run", "returned", "dead"}]
  /\ linger \subseteq Conns
  /\ closed \subseteq Conns
  /\ waiting \subseteq Conns
  /\ sent \in [Conns -> Nat]
  /\ answered \in [Conns -> Nat]
  /\ sample \in [tx : Nat, rx : Nat]

Init ==
  /\ ServerInit
  /\ life = [a \in Agents |-> "run"]
  /\ linger = {} /\ closed = {} /\ waiting = {}
  /\ sent = [c \in Conns |-> 0]
  /\ answered = [c \in Conns |-> 0]
  /\ sample = [tx |-> 0, rx |-> 0]

Of(a)     == {c \in Conns : Owner[c] = a}
Opened(a) == Of(a) \subseteq linger

-----------------------------------------------------------------------------
(* latency_open_connections: connect, then the socket options, on one      *)
(* connection after the other.                                             *)
Connecting(c) ==
  /\ life[Owner[c]] = "run" /\ sock[c] = "none"
  /\ \A d \in Of(Owner[c]) : sock[d] # "none" => d \in linger

Connect(c) ==
  /\ Connecting(c) /\ up
  /\ \E t \in Threads : home' = [home EXCEPT ![c] = t]
  /\ sock' = [sock EXCEPT ![c] = "backlog"]
  /\ UNCHANGED <<up, peer, link, req, rep, todo, hup, work, client,
                 sent, answered, sample>>

SetLinger(c) ==
  /\ life[Owner[c]] = "run" /\ sock[c] # "none" /\ c \notin linger
  /\ linger' = linger \union {c}
  /\ UNCHANGED <<serverVars, life, closed, waiting, sent, answered, sample>>

(* Without SO_LINGER: FIN, not RST. *)
BugDie(a) ==
  /\ life' = [life EXCEPT ![a] = "dead"]
  /\ peer' = [c \in Conns |->
                IF c \in Of(a) /\ sock[c] \in {"backlog", "open"} THEN "fin" ELSE peer[c]]
  /\ waiting' = waiting \ Of(a)
  /\ UNCHANGED <<up, home, sock, link, req, rep, todo, hup, work,
                 linger, closed, sent, answered, sample>>

(* The end of an agent's process: its connections are reset, but for the   *)
(* one that SO_LINGER was not set on yet.                                  *)
Die(a) ==
  /\ life' = [life EXCEPT ![a] = "dead"]
  /\ peer' = [c \in Conns |->
                IF c \in Of(a) /\ sock[c] \in {"backlog", "open"}
                THEN IF c \in linger THEN "rst" ELSE "fin"
                ELSE peer[c]]
  /\ waiting' = waiting \ Of(a)
  /\ UNCHANGED <<up, home, sock, link, req, rep, todo, hup, work,
                 linger, closed, sent, answered, sample>>

ConnectFails(c) == Connecting(c) /\ ~up /\ Die(Owner[c])

Kill(a) == life[a] # "dead" /\ Die(a)

-----------------------------------------------------------------------------
(* pick_conn: a connection that is not closed; pending_reqs stays 0.       *)
AtSend(c) ==
  /\ life[Owner[c]] = "run" /\ Opened(Owner[c])
  /\ Of(Owner[c]) \cap waiting = {}
  /\ c \notin closed
  /\ MapThenSumSet(LAMBDA d : sent[d], Of(Owner[c])) < MaxSends

(* writev succeeds on a connection that the server has only closed. *)
Send(c) ==
  /\ AtSend(c) /\ link[c] # "rst"
  /\ sent' = [sent EXCEPT ![c] = @ + 1]
  /\ req' = IF link[c] = "up" THEN [req EXCEPT ![c] = sent'[c]] ELSE req
  /\ waiting' = waiting \union {c}
  /\ UNCHANGED <<up, home, sock, peer, link, rep, todo, hup, work,
                 life, linger, closed, answered, sample>>

Return(a) ==
  /\ life' = [life EXCEPT ![a] = "returned"]
  /\ waiting' = waiting \ Of(a)
  /\ UNCHANGED <<serverVars, linger, closed, sent, answered, sample>>

SendFails(c) == AtSend(c) /\ link[c] = "rst" /\ Return(Owner[c])

(* recv: what has arrived is read first, then the end of the connection.   *)
Recv(c) ==
  /\ c \in waiting /\ rep[c] # 0
  /\ answered' = [answered EXCEPT ![c] = @ + 1]
  /\ sample' = [tx |-> sent[c], rx |-> rep[c]]
  /\ rep' = [rep EXCEPT ![c] = 0]
  /\ waiting' = waiting \ {c}
  /\ UNCHANGED <<up, home, sock, peer, link, req, todo, hup, work,
                 life, linger, closed, sent>>

(* The connection is closed and not marked. *)
BugRecvEof(c) ==
  /\ c \in waiting /\ rep[c] = 0 /\ link[c] = "fin"
  /\ waiting' = waiting \ {c}
  /\ UNCHANGED <<serverVars, life, linger, closed, sent, answered, sample>>

RecvEof(c) ==
  /\ c \in waiting /\ rep[c] = 0 /\ link[c] = "fin"
  /\ closed' = closed \union {c}
  /\ waiting' = waiting \ {c}
  /\ UNCHANGED <<serverVars, life, linger, sent, answered, sample>>

RecvFails(c) ==
  c \in waiting /\ rep[c] = 0 /\ link[c] = "rst" /\ Return(Owner[c])

Worker(c) ==
  \/ Connect(c) \/ SetLinger(c) \/ ConnectFails(c)
  \/ Send(c) \/ SendFails(c) \/ Recv(c) \/ RecvEof(c) \/ RecvFails(c)

Server == \E t \in Threads : Thread(t) /\ UNCHANGED <<client, sent, answered, sample>>

Next == \/ Server
        \/ \E c \in Conns : Worker(c)
        \/ \E a \in Agents : Kill(a)

Spec == Init /\ [][Next]_vars

(* Threads run, a spin ends, and recv returns once there is something to    *)
(* return; nothing obliges a worker to send, nor an agent to be killed.    *)
Fairness ==
  /\ \A t \in Threads : WF_vars(Thread(t) /\ UNCHANGED <<client, sent, answered, sample>>)
  /\ \A c \in Conns : WF_vars(Recv(c) \/ RecvEof(c) \/ RecvFails(c))

FairSpec == Spec /\ Fairness

-----------------------------------------------------------------------------
(* A thread is serving a request of c. *)
Served(c) == \E t \in Threads : work[t] # None /\ work[t].conn = c

(* A request in flight on a connection whose two ends are up is in exactly  *)
(* one place: it waits to be read, a thread has it, or its answer waits.   *)
RequestInOnePlace ==
  \A c \in waiting : link[c] = "up" =>
    \/ req[c] = sent[c] /\ rep[c] = 0 /\ ~Served(c)
    \/ req[c] = 0 /\ rep[c] = sent[c] /\ ~Served(c)
    \/ req[c] = 0 /\ rep[c] = 0 /\ Served(c)

(* The server outlives its clients: it only aborts if one was killed before *)
(* it had set SO_LINGER, or while it waited for an answer.                 *)
AbortNeedsADeath ==
  ~up => \E c \in Conns :
           \/ peer[c] = "fin" /\ c \notin linger
           \/ peer[c] = "rst" /\ sent[c] > answered[c]

(* The inductive invariant behind them.  What an event says stays true     *)
(* until it is handled; what is still to be read, served or received of a  *)
(* connection is its last request; a connection that no recv waits on is   *)
(* quiet, until its worker has stopped.                                    *)
SocketInv ==
  \A c \in Conns :
    /\ sock[c] = "none" => link[c] = "up" /\ peer[c] = "up" /\ c \notin linger
    /\ sock[c] # "none" => home[c] \in Threads
    /\ peer[c] # "up" => life[Owner[c]] = "dead"
    /\ peer[c] = "fin" => c \notin linger
    /\ sent[c] > 0 => Opened(Owner[c])
    /\ up => link[c] = "up"

EventInv ==
  up => \A t \in Threads : \A c \in todo[t] \cap Conns :
          /\ home[c] = t /\ sock[c] = "open"
          /\ IF c \in hup[t] THEN peer[c] = "rst" ELSE req[c] # 0 \/ peer[c] = "fin"

RequestInv ==
  /\ \A c \in Conns :
       /\ sent[c] = answered[c] \/ sent[c] = answered[c] + 1
       /\ req[c] # 0 => req[c] = sent[c] /\ rep[c] = 0 /\ ~Served(c)
       /\ rep[c] # 0 => rep[c] = sent[c] /\ ~Served(c)
       /\ req[c] # 0 \/ rep[c] # 0 \/ Served(c) => sent[c] > answered[c]
  /\ \A t \in Threads : work[t] # None =>
       /\ work[t].req = sent[work[t].conn]
       /\ home[work[t].conn] = t /\ sock[work[t].conn] # "none"

ClientInv ==
  \A c \in Conns :
    /\ c \in waiting => /\ life[Owner[c]] = "run" /\ sent[c] > answered[c]
                        /\ c \notin closed
                        /\ \A d \in waiting : Owner[d] = Owner[c] => d = c
    /\ c \notin waiting /\ c \notin closed /\ life[Owner[c]] = "run" =>
         sent[c] = answered[c]

LatencyInv ==
  /\ TypeOK /\ SocketInv /\ EventInv /\ RequestInv /\ ClientInv
  /\ RequestInOnePlace /\ AbortNeedsADeath

(* The thread is the request/response service of FifoRtt, with one request  *)
(* in flight.                                                              *)
Rtt == INSTANCE FifoRtt WITH Window <- 1
ImplementsFifoRtt == Rtt!Spec

(* Nobody waits for ever in recv, whoever dies. *)
Released == \A c \in Conns : c \in waiting ~> c \notin waiting

(* The server closes its end of every connection whose client was killed,   *)
(* unless it died itself.                                                  *)
NoLeak == \A c \in Conns : peer[c] = "rst" ~> sock[c] = "closed" \/ ~up
=============================================================================
