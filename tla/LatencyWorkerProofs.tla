------------------------ MODULE LatencyWorkerProofs ------------------------
(***************************************************************************)
(* Proofs about LatencyWorker for any number of agents, connections,       *)
(* server threads and requests, whichever processes die: LatencyInv is     *)
(* inductive, what it says of requests in flight and of the server's abort *)
(* follows, and so does the implementation of FifoRtt.                     *)
(***************************************************************************)
EXTENDS LatencyWorker, TLAPS

LEMMA LatencyInit ==
  ASSUME Init
  PROVE  LatencyInv
<1> USE LatencyAssumption DEF Init, ServerInit
<1>1. TypeOK
  BY DEF TypeOK, ServerTypeOK, Events
<1>2. SocketInv /\ EventInv /\ ClientInv
  BY DEF SocketInv, EventInv, ClientInv
<1>3. \A c \in Conns : ~Served(c)
  BY DEF Served
<1>4. RequestInv
  BY <1>3 DEF RequestInv
<1>5. RequestInOnePlace /\ AbortNeedsADeath
  BY DEF RequestInOnePlace, AbortNeedsADeath
<1> QED
  BY <1>1, <1>2, <1>4, <1>5 DEF LatencyInv

(* What a thread serves is of a connection of its own, so no other thread   *)
(* serves it.                                                              *)
LEMMA WorkFacts ==
  ASSUME TypeOK, RequestInv, NEW t \in Threads, work[t] # None
  PROVE  /\ work[t] \in [conn : Conns, req : Nat]
         /\ work[t].conn \in Conns /\ Served(work[t].conn)
         /\ home[work[t].conn] = t
         /\ work[t].req = sent[work[t].conn]
         /\ sent[work[t].conn] > answered[work[t].conn]
         /\ req[work[t].conn] = 0 /\ rep[work[t].conn] = 0
         /\ \A u \in Threads : work[u] # None /\ work[u].conn = work[t].conn => u = t
<1>1. work[t] \in [conn : Conns, req : Nat]
  BY DEF TypeOK, ServerTypeOK
<1>2. work[t].conn \in Conns
  BY <1>1
<1>3. Served(work[t].conn)
  BY DEF Served
<1> QED
  BY <1>1, <1>2, <1>3 DEF RequestInv

(* What a step that no request is part of leaves as it is. *)
LEMMA InOnePlaceFrame ==
  ASSUME LatencyInv, UNCHANGED <<link, req, rep, work, sent>>, waiting' \subseteq waiting
  PROVE  RequestInOnePlace'
<1>1. \A c \in Conns : Served(c)' <=> Served(c)
  BY DEF Served
<1> SUFFICES ASSUME NEW c \in waiting', link'[c] = "up"
             PROVE  \/ req[c] = sent[c] /\ rep[c] = 0 /\ ~Served(c)'
                    \/ req[c] = 0 /\ rep[c] = sent[c] /\ ~Served(c)'
                    \/ req[c] = 0 /\ rep[c] = 0 /\ Served(c)'
  BY DEF RequestInOnePlace
<1>2. c \in waiting /\ link[c] = "up" /\ c \in Conns
  BY DEF LatencyInv, TypeOK
<1> QED
  BY <1>1, <1>2 DEF LatencyInv, RequestInOnePlace

LEMMA RequestFrame ==
  ASSUME RequestInv, UNCHANGED <<req, rep, work, sent, answered, home, sock>>
  PROVE  RequestInv'
<1>1. \A c \in Conns : Served(c)' <=> Served(c)
  BY DEF Served
<1> QED
  BY <1>1 DEF RequestInv

-----------------------------------------------------------------------------
(* The steps of a worker. *)
LEMMA ConnectInv ==
  ASSUME LatencyInv, NEW c \in Conns, Connect(c)
  PROVE  LatencyInv'
<1> USE DEF LatencyInv, Connect, client
<1>1. PICK t \in Threads : home' = [home EXCEPT ![c] = t]
  OBVIOUS
<1>2. sock[c] = "none" /\ up /\ up' /\ sock' = [sock EXCEPT ![c] = "backlog"]
  BY DEF Connecting, TypeOK, ServerTypeOK
<1>3. TypeOK'
  BY <1>1, <1>2 DEF TypeOK, ServerTypeOK
<1>4. SocketInv'
  BY <1>1, <1>2 DEF SocketInv, TypeOK, ServerTypeOK, Opened, Of
<1>5. EventInv'
  BY <1>1, <1>2 DEF EventInv, TypeOK, ServerTypeOK
<1>6. \A d \in Conns : (Served(d)' <=> Served(d))
  BY DEF Served
<1>7. RequestInv'
  <2>1. ASSUME NEW u \in Threads, work[u] # None PROVE work[u].conn # c
    BY <1>2, <2>1, WorkFacts DEF RequestInv
  <2>2. ASSUME NEW u \in Threads, work[u] # None PROVE work[u].conn \in Conns
    BY <2>2, WorkFacts
  <2> QED
    BY <1>1, <1>2, <1>6, <2>1, <2>2 DEF RequestInv, TypeOK, ServerTypeOK
<1>8. ClientInv' /\ RequestInOnePlace'
  <2>1. ClientInv'
    BY <1>6 DEF ClientInv
  <2>2. RequestInOnePlace'
    BY InOnePlaceFrame
  <2> QED
    BY <2>1, <2>2
<1>9. AbortNeedsADeath'
  BY <1>2 DEF AbortNeedsADeath
<1> QED
  BY <1>3, <1>4, <1>5, <1>7, <1>8, <1>9

LEMMA SetLingerInv ==
  ASSUME LatencyInv, NEW c \in Conns, SetLinger(c)
  PROVE  LatencyInv'
<1> USE DEF LatencyInv, SetLinger, serverVars
<1>1. TypeOK'
  BY DEF TypeOK, ServerTypeOK
<1>2. peer[c] = "up"
  BY DEF SocketInv, TypeOK, ServerTypeOK
<1>3. SocketInv'
  BY <1>2 DEF SocketInv, Opened
<1>4. EventInv'
  BY DEF EventInv
<1>5. \A d \in Conns : (Served(d)' <=> Served(d))
  BY DEF Served
<1>6. RequestInv' /\ ClientInv' /\ RequestInOnePlace'
  <2>1. RequestInv'
    BY RequestFrame
  <2>2. ClientInv'
    BY <1>5 DEF ClientInv
  <2>3. RequestInOnePlace'
    BY InOnePlaceFrame
  <2> QED
    BY <2>1, <2>2, <2>3
<1>7. AbortNeedsADeath'
  BY <1>2 DEF AbortNeedsADeath
<1> QED
  BY <1>1, <1>3, <1>4, <1>6, <1>7

(* A process that dies had no connection that was reset before. *)
LEMMA DieInv ==
  ASSUME LatencyInv, NEW a \in Agents, life[a] # "dead", Die(a)
  PROVE  LatencyInv'
<1> USE DEF LatencyInv, Die
<1>1. \A c \in Conns : /\ peer'[c] \in {"up", "fin", "rst"}
                       /\ peer'[c] # peer[c] => /\ peer[c] = "up" /\ Owner[c] = a
                                                /\ sock[c] \in {"backlog", "open"}
                                                /\ peer'[c] = "rst" \/ c \notin linger
  <2> TAKE c \in Conns
  <2> DEFINE mine == c \in Of(a) /\ sock[c] \in {"backlog", "open"}
  <2>1. /\ ~mine => peer'[c] = peer[c]
        /\ mine /\ c \in linger => peer'[c] = "rst"
        /\ mine /\ c \notin linger => peer'[c] = "fin"
    OBVIOUS
  <2>2. mine => Owner[c] = a /\ sock[c] \in {"backlog", "open"}
    BY DEF Of
  <2>3. peer[c] \in {"up", "fin", "rst"} /\ (Owner[c] = a => peer[c] = "up")
    BY DEF SocketInv, TypeOK, ServerTypeOK
  <2> HIDE DEF mine
  <2> QED
    BY <2>1, <2>2, <2>3
<1>2. TypeOK'
  BY <1>1 DEF TypeOK, ServerTypeOK
<1>3. life' = [life EXCEPT ![a] = "dead"] /\ life \in [Agents -> {"run", "returned", "dead"}]
      /\ \A c \in Conns : Owner[c] \in Agents
  BY LatencyAssumption DEF TypeOK
<1>4. SocketInv'
  BY <1>1, <1>3 DEF SocketInv, Opened, Of
<1>5. EventInv'
  <2>1. ASSUME NEW t \in Threads, NEW c \in todo[t] \cap Conns, c \in hup[t], up
        PROVE  peer'[c] = "rst"
    BY <1>1, <2>1 DEF EventInv
  <2>2. ASSUME NEW t \in Threads, NEW c \in todo[t] \cap Conns, c \notin hup[t], up
        PROVE  req[c] # 0 \/ peer'[c] = "fin"
    BY <1>1, <2>2 DEF EventInv
  <2> QED
    BY <2>1, <2>2 DEF EventInv
<1>6. \A c \in Conns : (Served(c)' <=> Served(c))
  BY DEF Served
<1>7. RequestInv' /\ RequestInOnePlace'
  <2>1. RequestInv'
    BY RequestFrame
  <2>2. RequestInOnePlace'
    BY InOnePlaceFrame
  <2> QED
    BY <2>1, <2>2
<1>8. ClientInv'
  BY <1>3 DEF ClientInv, Of
<1>9. AbortNeedsADeath'
  BY <1>1 DEF AbortNeedsADeath
<1> QED
  BY <1>2, <1>4, <1>5, <1>7, <1>8, <1>9

LEMMA SendInv ==
  ASSUME LatencyInv, NEW c \in Conns, Send(c)
  PROVE  LatencyInv'
<1> USE DEF LatencyInv, Send
<1>1. /\ life[Owner[c]] = "run" /\ Opened(Owner[c]) /\ c \notin closed
      /\ \A d \in waiting : Owner[d] # Owner[c]
      /\ c \notin waiting
  BY DEF AtSend, TypeOK, Of
<1>2. /\ sent \in [Conns -> Nat] /\ answered \in [Conns -> Nat]
      /\ req \in [Conns -> Nat] /\ rep \in [Conns -> Nat]
      /\ sent' = [sent EXCEPT ![c] = sent[c] + 1]
      /\ \/ req' = req
         \/ link[c] = "up" /\ req' = [req EXCEPT ![c] = sent[c] + 1]
  BY DEF TypeOK, ServerTypeOK
<1>3. sent[c] = answered[c] /\ req[c] = 0 /\ rep[c] = 0 /\ ~Served(c)
  BY <1>1, <1>2 DEF ClientInv, RequestInv
<1>4. \A d \in Conns : (Served(d)' <=> Served(d))
  BY DEF Served
<1>5. TypeOK'
  BY <1>2 DEF TypeOK, ServerTypeOK
<1>6. SocketInv'
  BY <1>1, <1>2 DEF SocketInv, Opened
<1>7. EventInv'
  BY <1>2 DEF EventInv
<1>8. RequestInv'
  <2>1. ASSUME NEW u \in Threads, work[u] # None
        PROVE  work[u].conn \in Conns /\ work[u].conn # c
    BY <1>3, <2>1, WorkFacts
  <2>2. \A u \in Threads : work[u] # None =>
          /\ work[u].req = sent'[work[u].conn]
          /\ home[work[u].conn] = u /\ sock[work[u].conn] # "none"
    BY <1>2, <2>1 DEF RequestInv
  <2>3. ASSUME NEW d \in Conns
        PROVE  /\ sent'[d] = answered[d] \/ sent'[d] = answered[d] + 1
               /\ req'[d] # 0 => req'[d] = sent'[d] /\ rep[d] = 0 /\ ~Served(d)
               /\ rep[d] # 0 => rep[d] = sent'[d] /\ ~Served(d)
               /\ req'[d] # 0 \/ rep[d] # 0 \/ Served(d) => sent'[d] > answered[d]
    BY <1>2, <1>3 DEF RequestInv
  <2> QED
    BY <1>4, <2>2, <2>3 DEF RequestInv
<1>9. ClientInv'
  <2>1. ASSUME NEW d \in waiting'
        PROVE  /\ life[Owner[d]] = "run" /\ sent'[d] > answered[d] /\ d \notin closed
               /\ \A e \in waiting' : Owner[e] = Owner[d] => e = d
    BY <1>1, <1>2, <1>3 DEF ClientInv, TypeOK
  <2>2. ASSUME NEW d \in Conns, d \notin waiting', d \notin closed, life[Owner[d]] = "run"
        PROVE  sent'[d] = answered[d]
    BY <1>2, <2>2 DEF ClientInv
  <2> QED
    BY <2>1, <2>2 DEF ClientInv
<1>10. RequestInOnePlace'
  BY <1>2, <1>3, <1>4 DEF RequestInOnePlace, TypeOK
<1>11. AbortNeedsADeath'
  BY <1>2 DEF AbortNeedsADeath
<1> QED
  BY <1>5, <1>6, <1>7, <1>8, <1>9, <1>10, <1>11

LEMMA ReturnInv ==
  ASSUME LatencyInv, NEW a \in Agents, life[a] = "run", Return(a)
  PROVE  LatencyInv'
<1> USE DEF LatencyInv, Return, serverVars
<1>1. TypeOK'
  BY DEF TypeOK, ServerTypeOK
<1>2. life' = [life EXCEPT ![a] = "returned"] /\ life \in [Agents -> {"run", "returned", "dead"}]
      /\ \A c \in Conns : Owner[c] \in Agents
  BY LatencyAssumption DEF TypeOK
<1>3. SocketInv'
  BY <1>2 DEF SocketInv, Opened
<1>4. \A c \in Conns : (Served(c)' <=> Served(c))
  BY DEF Served
<1>5. EventInv' /\ RequestInv' /\ RequestInOnePlace'
  <2>1. EventInv'
    BY <1>4 DEF EventInv
  <2>2. RequestInv'
    BY RequestFrame
  <2>3. RequestInOnePlace'
    BY InOnePlaceFrame
  <2> QED
    BY <2>1, <2>2, <2>3
<1>6. ClientInv'
  BY <1>2 DEF ClientInv, Of
<1>7. AbortNeedsADeath'
  BY DEF AbortNeedsADeath
<1> QED
  BY <1>1, <1>3, <1>5, <1>6, <1>7

LEMMA RecvFacts ==
  ASSUME LatencyInv, NEW c \in Conns, Recv(c)
  PROVE  /\ rep[c] = sent[c] /\ sent[c] = answered[c] + 1
         /\ req[c] = 0 /\ ~Served(c) /\ peer[c] = "up"
<1>1. c \in waiting /\ rep[c] # 0 /\ sent[c] \in Nat /\ answered[c] \in Nat
      /\ peer[c] \in {"up", "fin", "rst"}
  BY DEF LatencyInv, TypeOK, ServerTypeOK, Recv
<1> QED
  BY <1>1 DEF LatencyInv, RequestInv, ClientInv, SocketInv

LEMMA RecvInv ==
  ASSUME LatencyInv, NEW c \in Conns, Recv(c)
  PROVE  LatencyInv'
<1> USE DEF LatencyInv, Recv
<1>1. /\ rep[c] = sent[c] /\ sent[c] = answered[c] + 1
      /\ req[c] = 0 /\ ~Served(c) /\ peer[c] = "up"
  BY RecvFacts
<1>2. /\ sent \in [Conns -> Nat] /\ answered \in [Conns -> Nat]
      /\ answered' = [answered EXCEPT ![c] = answered[c] + 1]
      /\ rep \in [Conns -> Nat] /\ rep' = [rep EXCEPT ![c] = 0]
  BY DEF TypeOK, ServerTypeOK
<1>3. \A d \in Conns : (Served(d)' <=> Served(d))
  BY DEF Served
<1>4. TypeOK'
  BY <1>2 DEF TypeOK, ServerTypeOK
<1>5. SocketInv' /\ EventInv'
  <2>1. SocketInv'
    BY DEF SocketInv, Opened
  <2>2. EventInv'
    BY DEF EventInv, Opened
  <2> QED
    BY <2>1, <2>2
<1>6. RequestInv'
  BY <1>1, <1>2, <1>3 DEF RequestInv
<1>7. ClientInv'
  BY <1>1, <1>2 DEF ClientInv, TypeOK
<1>8. RequestInOnePlace'
  BY <1>2, <1>3 DEF RequestInOnePlace, TypeOK
<1>9. AbortNeedsADeath'
  BY <1>1, <1>2 DEF AbortNeedsADeath
<1> QED
  BY <1>4, <1>5, <1>6, <1>7, <1>8, <1>9

LEMMA RecvEofInv ==
  ASSUME LatencyInv, NEW c \in Conns, RecvEof(c)
  PROVE  LatencyInv'
<1> USE DEF LatencyInv, RecvEof, serverVars
<1>1. TypeOK'
  BY DEF TypeOK, ServerTypeOK
<1>2. SocketInv' /\ EventInv'
  <2>1. SocketInv'
    BY DEF SocketInv, Opened
  <2>2. EventInv'
    BY DEF EventInv, Opened
  <2> QED
    BY <2>1, <2>2
<1>3. \A d \in Conns : (Served(d)' <=> Served(d))
  BY DEF Served
<1>4. RequestInv' /\ ClientInv' /\ RequestInOnePlace'
  <2>1. RequestInv'
    BY RequestFrame
  <2>2. ClientInv'
    BY <1>3 DEF ClientInv
  <2>3. RequestInOnePlace'
    BY InOnePlaceFrame
  <2> QED
    BY <2>1, <2>2, <2>3
<1>5. AbortNeedsADeath'
  BY DEF AbortNeedsADeath
<1> QED
  BY <1>1, <1>2, <1>4, <1>5

-----------------------------------------------------------------------------
(* The steps of a server thread. *)
LEMMA EpollWaitInv ==
  ASSUME LatencyInv, NEW t \in Threads, EpollWait(t), UNCHANGED <<client, sent, answered, sample>>
  PROVE  LatencyInv'
<1> USE DEF LatencyInv, EpollWait, client
<1>1. Ready(t) \subseteq Events /\ \A c \in Ready(t) \cap Conns :
        /\ c \in Mine(t, "open") /\ (req[c] # 0 \/ peer[c] # "up")
  BY LatencyAssumption DEF Ready, Mine, Events
<1>2. TypeOK'
  BY <1>1 DEF TypeOK, ServerTypeOK, Mine
<1>3. EventInv'
  BY <1>1 DEF EventInv, TypeOK, ServerTypeOK, Mine
<1>4. \A d \in Conns : (Served(d)' <=> Served(d))
  BY DEF Served
<1>5. SocketInv' /\ RequestInv' /\ ClientInv' /\ RequestInOnePlace' /\ AbortNeedsADeath'
  <2>1. SocketInv'
    BY <1>4 DEF SocketInv, Opened
  <2>2. RequestInv'
    BY RequestFrame
  <2>3. ClientInv'
    BY <1>4 DEF ClientInv, Opened
  <2>4. RequestInOnePlace'
    BY InOnePlaceFrame
  <2>5. AbortNeedsADeath'
    BY <1>4 DEF AbortNeedsADeath, Opened
  <2> QED
    BY <2>1, <2>2, <2>3, <2>4, <2>5
<1> QED
  BY <1>2, <1>3, <1>5

LEMMA AcceptInv ==
  ASSUME LatencyInv, NEW t \in Threads, Accept(t), UNCHANGED <<client, sent, answered, sample>>
  PROVE  LatencyInv'
<1> USE DEF LatencyInv, Accept, client, Handled
<1>1. PICK c \in Conns : sock[c] = "backlog" /\ sock' = [sock EXCEPT ![c] = "open"]
  BY DEF Mine
<1>2. TypeOK'
  BY <1>1 DEF TypeOK, ServerTypeOK
<1>3. SocketInv'
  BY <1>1 DEF SocketInv, Opened, TypeOK, ServerTypeOK
<1>4. EventInv'
  BY <1>1 DEF EventInv, TypeOK, ServerTypeOK
<1>5. \A d \in Conns : (Served(d)' <=> Served(d))
  BY DEF Served
<1>6. RequestInv'
  <2>1. ASSUME NEW u \in Threads, work[u] # None PROVE work[u].conn \in Conns
    BY <2>1, WorkFacts
  <2> QED
    BY <1>1, <1>5, <2>1 DEF RequestInv, TypeOK, ServerTypeOK
<1>7. ClientInv' /\ RequestInOnePlace' /\ AbortNeedsADeath'
  <2>1. ClientInv'
    BY <1>5 DEF ClientInv, AtEvent
  <2>2. RequestInOnePlace'
    BY InOnePlaceFrame
  <2>3. AbortNeedsADeath'
    BY <1>5 DEF AbortNeedsADeath, AtEvent
  <2> QED
    BY <2>1, <2>2, <2>3
<1> QED
  BY <1>2, <1>3, <1>4, <1>6, <1>7

LEMMA HangupInv ==
  ASSUME LatencyInv, NEW t \in Threads, NEW c \in Conns, Hangup(t, c),
         UNCHANGED <<client, sent, answered, sample>>
  PROVE  LatencyInv'
<1> USE DEF LatencyInv, Hangup, client, Handled
<1>1. home[c] = t /\ sock[c] = "open" /\ up
  BY DEF EventInv, AtEvent
<1>2. TypeOK'
  BY DEF TypeOK, ServerTypeOK
<1>3. SocketInv'
  BY <1>1 DEF SocketInv, Opened, TypeOK, ServerTypeOK
<1>4. EventInv'
  BY <1>1 DEF EventInv, TypeOK, ServerTypeOK
<1>5. \A d \in Conns : (Served(d)' <=> Served(d))
  BY DEF Served
<1>6. RequestInv'
  <2>1. ASSUME NEW u \in Threads, work[u] # None PROVE work[u].conn \in Conns
    BY <2>1, WorkFacts
  <2> QED
    BY <1>1, <1>5, <2>1 DEF RequestInv, TypeOK, ServerTypeOK
<1>7. ClientInv' /\ RequestInOnePlace' /\ AbortNeedsADeath'
  <2>1. ClientInv'
    BY <1>1, <1>5 DEF ClientInv
  <2>2. RequestInOnePlace'
    BY InOnePlaceFrame
  <2>3. AbortNeedsADeath'
    BY <1>1, <1>5 DEF AbortNeedsADeath
  <2> QED
    BY <2>1, <2>2, <2>3
<1> QED
  BY <1>2, <1>3, <1>4, <1>6, <1>7

LEMMA ReadReqInv ==
  ASSUME LatencyInv, NEW t \in Threads, NEW c \in Conns, ReadReq(t, c),
         UNCHANGED <<client, sent, answered, sample>>
  PROVE  LatencyInv'
<1> USE DEF LatencyInv, ReadReq, client, Handled
<1>1. /\ home[c] = t /\ sock[c] = "open" /\ up /\ work[t] = None /\ req[c] # 0
      /\ req \in [Conns -> Nat] /\ work \in [Threads -> [conn : Conns, req : Nat] \union {None}]
      /\ None \notin [conn : Conns, req : Nat]
  BY LatencyAssumption DEF EventInv, AtEvent, TypeOK, ServerTypeOK
<1>2. req[c] = sent[c] /\ rep[c] = 0 /\ ~Served(c) /\ sent[c] > answered[c]
  BY <1>1 DEF RequestInv
<1>3. /\ work' = [work EXCEPT ![t] = [conn |-> c, req |-> req[c]]]
      /\ work'[t] = [conn |-> c, req |-> sent[c]] /\ work'[t] # None
      /\ work'[t].conn = c /\ work'[t].req = sent[c]
      /\ \A u \in Threads \ {t} : work'[u] = work[u]
      /\ req' = [req EXCEPT ![c] = 0]
  BY <1>1, <1>2
<1>4. TypeOK'
  BY <1>1, <1>3 DEF TypeOK, ServerTypeOK
<1>5. Served(c)' /\ \A d \in Conns \ {c} : (Served(d)' <=> Served(d))
  BY <1>1, <1>3 DEF Served
<1>6. EventInv'
  BY <1>1, <1>3 DEF EventInv, TypeOK, ServerTypeOK
<1>7. RequestInv'
  <2>1. ASSUME NEW u \in Threads, work'[u] # None
        PROVE  /\ work'[u].req = sent[work'[u].conn]
               /\ home[work'[u].conn] = u /\ sock[work'[u].conn] # "none"
    BY <1>1, <1>3, <2>1 DEF RequestInv
  <2>2. ASSUME NEW d \in Conns
        PROVE  /\ req'[d] # 0 => req'[d] = sent[d] /\ rep[d] = 0 /\ ~Served(d)'
               /\ rep[d] # 0 => rep[d] = sent[d] /\ ~Served(d)'
               /\ req'[d] # 0 \/ rep[d] # 0 \/ Served(d)' => sent[d] > answered[d]
    BY <1>1, <1>2, <1>3, <1>5 DEF RequestInv
  <2> QED
    BY <2>1, <2>2 DEF RequestInv
<1>8. RequestInOnePlace'
  BY <1>1, <1>2, <1>3, <1>5 DEF RequestInOnePlace, TypeOK
<1>9. SocketInv' /\ ClientInv' /\ AbortNeedsADeath'
  <2>1. SocketInv'
    BY <1>1 DEF SocketInv, Opened
  <2>2. ClientInv'
    BY <1>1 DEF ClientInv, Opened
  <2>3. AbortNeedsADeath'
    BY <1>1 DEF AbortNeedsADeath, Opened
  <2> QED
    BY <2>1, <2>2, <2>3
<1> QED
  BY <1>4, <1>6, <1>7, <1>8, <1>9

LEMMA WriteReplyInv ==
  ASSUME LatencyInv, NEW t \in Threads, WriteReply(t),
         UNCHANGED <<client, sent, answered, sample>>
  PROVE  LatencyInv'
<1> USE DEF LatencyInv, WriteReply, client
<1>0. PICK c \in Conns : c = work[t].conn
  BY WorkFacts
<1>1. /\ work[t] # None /\ up /\ Served(c) /\ home[c] = t
      /\ work[t].req = sent[c] /\ sent[c] > answered[c] /\ req[c] = 0 /\ rep[c] = 0
      /\ \A u \in Threads : work[u] # None /\ work[u].conn = c => u = t
      /\ work[t] \in [conn : Conns, req : Nat]
  BY <1>0, WorkFacts
<1>2. /\ work' = [work EXCEPT ![t] = None] /\ rep' = [rep EXCEPT ![c] = sent[c]]
      /\ work \in [Threads -> [conn : Conns, req : Nat] \union {None}]
      /\ rep \in [Conns -> Nat] /\ sent[c] \in Nat /\ sent[c] # 0 /\ answered[c] \in Nat
  BY <1>0, <1>1 DEF TypeOK, ServerTypeOK
<1>3. TypeOK'
  BY <1>1, <1>2 DEF TypeOK, ServerTypeOK
<1>4. ~Served(c)' /\ \A d \in Conns \ {c} : (Served(d)' <=> Served(d))
  <2>1. work'[t] = None /\ \A u \in Threads \ {t} : work'[u] = work[u]
    BY <1>2
  <2>2. ASSUME NEW u \in Threads, work'[u] # None, work'[u].conn = c PROVE FALSE
    <3>1. u # t
      BY <2>1, <2>2
    <3>2. work[u] # None /\ work[u].conn = c
      BY <2>1, <2>2, <3>1
    <3> QED
      BY <1>1, <3>1, <3>2
  <2>3. ASSUME NEW d \in Conns \ {c} PROVE Served(d)' <=> Served(d)
    <3>1. work[t].conn # d
      BY <1>0
    <3> QED
      BY <2>1, <3>1 DEF Served
  <2> QED
    BY <2>2, <2>3 DEF Served
<1>5. RequestInv'
  <2>1. \A u \in Threads : work'[u] # None => work'[u] = work[u]
    BY <1>2
  <2>2. ASSUME NEW d \in Conns
        PROVE  /\ req[d] # 0 => req[d] = sent[d] /\ rep'[d] = 0 /\ ~Served(d)'
               /\ rep'[d] # 0 => rep'[d] = sent[d] /\ ~Served(d)'
               /\ req[d] # 0 \/ rep'[d] # 0 \/ Served(d)' => sent[d] > answered[d]
    BY <1>1, <1>2, <1>4 DEF RequestInv
  <2> QED
    BY <2>1, <2>2 DEF RequestInv
<1>6. RequestInOnePlace'
  BY <1>1, <1>2, <1>4 DEF RequestInOnePlace, TypeOK
<1>7. SocketInv' /\ EventInv' /\ ClientInv' /\ AbortNeedsADeath'
  <2>1. SocketInv'
    BY <1>1 DEF SocketInv, Opened
  <2>2. EventInv'
    BY <1>1 DEF EventInv, Opened
  <2>3. ClientInv'
    BY <1>1 DEF ClientInv, Opened
  <2>4. AbortNeedsADeath'
    BY <1>1 DEF AbortNeedsADeath, Opened
  <2> QED
    BY <2>1, <2>2, <2>3, <2>4
<1> QED
  BY <1>3, <1>5, <1>6, <1>7

LEMMA AbortInv ==
  ASSUME LatencyInv, Abort, UNCHANGED <<client, sent, answered, sample>>, AbortNeedsADeath'
  PROVE  LatencyInv'
<1> USE DEF LatencyInv, Abort, client
<1>1. TypeOK'
  BY DEF TypeOK, ServerTypeOK
<1>2. \A c \in Conns : /\ link'[c] = "up" => link[c] = "up"
                       /\ sock[c] = "none" => link'[c] = link[c]
  <2> TAKE c \in Conns
  <2> DEFINE gone == sock[c] \notin {"backlog", "open"}
             rst  == sock[c] = "backlog" \/ req[c] # 0
  <2>1. /\ gone => link'[c] = link[c]
        /\ ~gone /\ rst => link'[c] = "rst"
        /\ ~gone /\ ~rst => link'[c] = "fin"
    BY DEF TypeOK, ServerTypeOK
  <2>2. sock[c] = "none" => gone
    OBVIOUS
  <2> HIDE DEF gone, rst
  <2> QED
    BY <2>1, <2>2
<1>3. SocketInv' /\ EventInv'
  <2>1. SocketInv'
    BY <1>2 DEF SocketInv, Opened
  <2>2. EventInv'
    BY <1>2 DEF EventInv, Opened
  <2> QED
    BY <2>1, <2>2
<1>4. \A c \in Conns : (Served(c)' <=> Served(c))
  BY DEF Served
<1>5. RequestInv' /\ ClientInv'
  <2>1. RequestInv'
    BY RequestFrame
  <2>2. ClientInv'
    BY <1>4 DEF ClientInv
  <2> QED
    BY <2>1, <2>2
<1>6. RequestInOnePlace'
  BY <1>2, <1>4 DEF RequestInOnePlace, TypeOK
<1> QED
  BY <1>1, <1>3, <1>5, <1>6

(* The server aborts at the end of a connection whose client had not set    *)
(* SO_LINGER, or when the client of the request it has served is gone.      *)
LEMMA AbortReason ==
  ASSUME LatencyInv, NEW t \in Threads, UNCHANGED <<client, sent, answered, sample>>,
         WriteFails(t) \/ \E c \in Conns : ReadEof(t, c)
  PROVE  AbortNeedsADeath'
<1> USE DEF LatencyInv, Abort, client
<1>1. CASE WriteFails(t)
  <2>1. /\ work[t].conn \in Conns /\ peer[work[t].conn] = "rst"
        /\ sent[work[t].conn] > answered[work[t].conn] /\ UNCHANGED peer
    BY <1>1, WorkFacts DEF WriteFails
  <2> QED
    BY <2>1 DEF AbortNeedsADeath
<1>2. ASSUME NEW c \in Conns, ReadEof(t, c) PROVE AbortNeedsADeath'
  <2>1. peer[c] = "fin" /\ UNCHANGED peer
    BY <1>2 DEF ReadEof, EventInv, AtEvent
  <2>2. c \notin linger
    BY <2>1 DEF SocketInv
  <2> QED
    BY <2>1, <2>2 DEF AbortNeedsADeath
<1> QED
  BY <1>1, <1>2

-----------------------------------------------------------------------------
LEMMA LatencyNext ==
  ASSUME LatencyInv, [Next]_vars
  PROVE  LatencyInv'
<1>0. \A c \in Conns : Owner[c] \in Agents
  BY LatencyAssumption
<1>1. ASSUME NEW t \in Threads, Thread(t), UNCHANGED <<client, sent, answered, sample>>
      PROVE  LatencyInv'
  <2>1. CASE WriteFails(t) \/ \E c \in Conns : ReadEof(t, c)
    <3>1. Abort
      BY <2>1 DEF WriteFails, ReadEof
    <3> QED
      BY <1>1, <2>1, <3>1, AbortReason, AbortInv
  <2> QED
    BY <1>1, <2>1, EpollWaitInv, AcceptInv, WriteReplyInv, HangupInv, ReadReqInv DEF Thread
<1>2. ASSUME NEW c \in Conns, Worker(c)
      PROVE  LatencyInv'
  <2>1. CASE ConnectFails(c)
    <3>1. Die(Owner[c]) /\ life[Owner[c]] # "dead"
      BY <2>1 DEF ConnectFails, Connecting
    <3> QED
      BY <1>0, <3>1, DieInv
  <2>2. CASE SendFails(c)
    <3>1. Return(Owner[c]) /\ life[Owner[c]] = "run"
      BY <2>2 DEF SendFails, AtSend
    <3> QED
      BY <1>0, <3>1, ReturnInv
  <2>3. CASE RecvFails(c)
    <3>1. Return(Owner[c]) /\ life[Owner[c]] = "run"
      BY <2>3 DEF RecvFails, LatencyInv, ClientInv
    <3> QED
      BY <1>0, <3>1, ReturnInv
  <2> QED
    BY <1>2, <2>1, <2>2, <2>3, ConnectInv, SetLingerInv, SendInv, RecvInv, RecvEofInv
    DEF Worker
<1>3. ASSUME NEW a \in Agents, Kill(a)
      PROVE  LatencyInv'
  BY <1>3, DieInv DEF Kill
<1>4. CASE UNCHANGED vars
  <2> USE <1>4 DEF vars, serverVars, client, LatencyInv
  <2>2. TypeOK' /\ SocketInv' /\ EventInv'
    BY DEF TypeOK, ServerTypeOK, SocketInv, EventInv, Opened
  <2>3. RequestInv'
    BY RequestFrame
  <2>4. RequestInOnePlace'
    BY InOnePlaceFrame
  <2>5. ClientInv' /\ AbortNeedsADeath'
    BY DEF ClientInv, AbortNeedsADeath
  <2> QED
    BY <2>2, <2>3, <2>4, <2>5
<1> QED
  BY <1>1, <1>2, <1>3, <1>4 DEF Next, Server

LEMMA LatencyInvariant == Spec => []LatencyInv
BY LatencyInit, LatencyNext, PTL DEF Spec

(* Whoever dies: a request in flight on a live connection waits to be read, *)
(* is being served, or is answered, and never two of these.                *)
THEOREM RequestsInOnePlace == Spec => []RequestInOnePlace
<1>1. LatencyInv => RequestInOnePlace
  BY DEF LatencyInv
<1> QED
  BY <1>1, LatencyInvariant, PTL

(* The server outlives its clients, unless one of them died in one of the   *)
(* two bad moments.                                                        *)
THEOREM ServerOutlivesClients == Spec => []AbortNeedsADeath
<1>1. LatencyInv => AbortNeedsADeath
  BY DEF LatencyInv
<1> QED
  BY <1>1, LatencyInvariant, PTL

(* latency_tcp_main implements the service of FifoRtt with one request in   *)
(* flight per connection, against the synthetic server.                    *)
THEOREM LatencyImplementsFifoRtt == Spec => ImplementsFifoRtt
<1> DEFINE history == <<sent, answered, sample>>
<1>1. Init => Rtt!Init
  BY DEF Init, Rtt!Init
<1>2. LatencyInv /\ [Next]_vars => [Rtt!Next]_history
  <2> SUFFICES ASSUME LatencyInv, [Next]_vars PROVE Rtt!Next \/ UNCHANGED history
    OBVIOUS
  <2>1. ASSUME NEW c \in Conns, Send(c) PROVE Rtt!Next
    <3>1. sent[c] = answered[c] /\ answered[c] \in Nat
      BY <2>1 DEF LatencyInv, TypeOK, ClientInv, Send, AtSend, Of
    <3>2. Rtt!Send(c)
      BY <2>1, <3>1 DEF Send, Rtt!Send
    <3> QED
      BY <3>2 DEF Rtt!Next
  <2>2. ASSUME NEW c \in Conns, Recv(c) PROVE Rtt!Next
    <3>1. /\ rep[c] = sent[c] /\ sent[c] = answered[c] + 1
          /\ sent[c] \in Nat /\ answered[c] \in Nat
      BY <2>2, RecvFacts DEF LatencyInv, TypeOK
    <3>2. Rtt!Answer(c, 1)
      BY <2>2, <3>1 DEF Recv, Rtt!Answer
    <3> QED
      BY <3>2 DEF Rtt!Next
  <2>3. ASSUME NEW c \in Conns, Worker(c), ~Send(c), ~Recv(c) PROVE UNCHANGED history
    BY <2>3 DEF Worker, Connect, SetLinger, ConnectFails, SendFails, RecvEof, RecvFails,
                Die, Return
  <2>4. CASE Server \/ UNCHANGED vars \/ \E a \in Agents : Kill(a)
    BY <2>4 DEF Server, vars, Kill, Die
  <2> QED
    BY <2>1, <2>2, <2>3, <2>4 DEF Next
<1> QED
  BY <1>1, <1>2, LatencyInvariant, PTL DEF Spec, ImplementsFifoRtt, Rtt!Spec
=============================================================================
