---------------------------- MODULE EsdmRpcProofs ----------------------------
(***************************************************************************)
(* The proofs about the RPC client library. A caller takes its own answer, *)
(* and so many messages are under way on its connection (EsdmRpc), for any *)
(* number of callers, connections, time-outs and deaths of either side;    *)
(* and the threads of a process use handles that are there                 *)
(* (EsdmRpcService), for any number of them.                               *)
(***************************************************************************)
EXTENDS EsdmRpc, EsdmRpcService, TLAPS

(* The caller is between esdm_rpcc_get_service() and the release of the    *)
(* handle.                                                                 *)
Within == {"invoke", "stat", "connect", "pack", "read", "put"}

(* The handle has one user, and the one socket that is open is its own.    *)
HandleInv ==
    /\ \A c \in Callers : /\ cpc[c] \in Within => ref = c
                          /\ cpc[c] = "read" => fd \in Conns
                          /\ cpc[c] = "connect" => fd = NoFd
    /\ \A k \in Conns : k \in held <=> k = fd

(* A connection that both sides have closed leaves nothing behind, and a   *)
(* handler works only on an open one.                                      *)
ConnInv ==
    \A k \in Conns :
      /\ k \in held => peer[k] # "free"
      /\ peer[k] = "free" => c2s[k] = <<>> /\ s2c[k] = <<>> /\ late[k] = 0
      /\ hpc[k] # "none" => peer[k] = "open"
      /\ hpc[k] = "exec" => hreq[k] \in Requests
      /\ late[k] <= timeouts

Reading == IF \E c \in Callers : cpc[c] = "read" THEN 1 ELSE 0
Asked(k) == Len(c2s[k])
Answered(k) == Len(s2c[k])
Worked(k) == IF hpc[k] = "exec" THEN 1 ELSE 0

(* What is on the connection is what was given up and what is waited for.  *)
CountInv ==
    fd \in Conns /\ peer[fd] \in {"backlog", "open"} =>
        Asked(fd) + Answered(fd) + Worked(fd) = late[fd] + Reading

(* If nothing was given up, all of it belongs to the call that waits.      *)
OwnInv ==
    \A c \in Callers : cpc[c] = "read" /\ late[fd] = 0 =>
        /\ \A i \in DOMAIN c2s[fd] : c2s[fd][i].call = Call(c)
        /\ \A i \in DOMAIN s2c[fd] : s2c[fd][i].call = Call(c)
        /\ hpc[fd] = "exec" => hreq[fd].call = Call(c)

CoreInv == HandleInv /\ ConnInv /\ CountInv /\ OwnInv
RpcInv == RpcTypeOK /\ CoreInv

-----------------------------------------------------------------------------
(* What the proofs below need of the types.                                *)
LEMMA Shapes ==
    ASSUME RpcTypeOK
    PROVE  /\ DOMAIN cpc = Callers /\ DOMAIN calls = Callers
           /\ DOMAIN peer = Conns /\ DOMAIN c2s = Conns /\ DOMAIN s2c = Conns
           /\ DOMAIN late = Conns /\ DOMAIN hpc = Conns /\ DOMAIN hreq = Conns
           /\ NoFd \notin Conns /\ Raw \notin Conns /\ held \subseteq Conns
           /\ timeouts \in Nat
           /\ \A k \in Conns : /\ late[k] \in Nat
                               /\ c2s[k] \in Seq(Requests)
                               /\ s2c[k] \in Seq(Answers)
<1>1. NoFd \notin Conns /\ Raw \notin Conns /\ timeouts \in Nat
  BY RpcAssumption DEF RpcTypeOK, NoFd, Raw, Conns
<1>2. \A k \in Conns : late[k] \in Nat
  <2>1. \A n \in 0..MaxLate : n \in Nat
    BY RpcAssumption
  <2> QED
    BY <2>1, Zenon DEF RpcTypeOK
<1> QED
  BY <1>1, <1>2, Zenon DEF RpcTypeOK

(* Sequences of messages, as far as they are needed here.                  *)
LEMMA TailFacts ==
    ASSUME NEW S, NEW s \in Seq(S), s # <<>>
    PROVE  /\ Head(s) = s[1] /\ 1 \in DOMAIN s /\ Head(s) \in S
           /\ Tail(s) \in Seq(S) /\ Len(Tail(s)) = Len(s) - 1
           /\ Len(s) \in Nat /\ Len(Tail(s)) \in Nat
           /\ \A i \in DOMAIN Tail(s) : i + 1 \in DOMAIN s /\ Tail(s)[i] = s[i + 1]
OBVIOUS

LEMMA AppendFacts ==
    ASSUME NEW S, NEW s \in Seq(S), NEW e \in S
    PROVE  /\ Append(s, e) \in Seq(S) /\ Len(Append(s, e)) = Len(s) + 1
           /\ Len(s) \in Nat
           /\ \A i \in DOMAIN Append(s, e) :
                Append(s, e)[i] = e \/ (i \in DOMAIN s /\ Append(s, e)[i] = s[i])
OBVIOUS

LEMMA EmptyFacts ==
    ASSUME NEW S, NEW s \in Seq(S), Len(s) = 0
    PROVE  s = <<>> /\ DOMAIN s = {}
OBVIOUS

(* Only the user of the handle is inside.                                  *)
LEMMA OneUser ==
    ASSUME HandleInv, NEW c \in Callers, cpc[c] \in Within
    PROVE  \A u \in Callers \ {c} : cpc[u] \notin Within
BY Zenon DEF HandleInv

-----------------------------------------------------------------------------
(* A caller goes on without touching the connection.                       *)
LEMMA MoveKeeps ==
    ASSUME CoreInv, NEW c \in Callers,
           UNCHANGED <<fd, peer, c2s, s2c, late, held, hpc, hreq, timeouts>>,
           \A u \in Callers \ {c} : cpc'[u] = cpc[u] /\ calls'[u] = calls[u],
           cpc'[c] \notin {"read", "connect"},
           cpc'[c] \in Within => ref' = c,
           ref' = ref \/ (\A u \in Callers \ {c} : cpc[u] \notin Within),
           cpc[c] = "read" => peer[fd] = "closed"
    PROVE  CoreInv'
<1>1. HandleInv'
  BY Zenon DEF CoreInv, HandleInv, Conns, NoFd
<1>2. ConnInv'
  BY Zenon DEF CoreInv, ConnInv, Conns, Requests, AllCalls
<1>3. CountInv'
  <2>1. CASE cpc[c] = "read"
    BY <2>1, Zenon DEF CoreInv, CountInv, Conns
  <2>2. CASE cpc[c] # "read"
    <3>1. Reading' = Reading
      BY <2>2, Zenon DEF Reading
    <3> QED
      BY <3>1, Zenon DEF CoreInv, CountInv, Asked, Answered, Worked, Conns
  <2> QED
    BY <2>1, <2>2, Zenon
<1>4. OwnInv'
  BY DEF CoreInv, OwnInv, Call
<1> QED
  BY <1>1, <1>2, <1>3, <1>4, Zenon DEF CoreInv

(* The steps of a caller that touch nothing else.                          *)
LEMMA QuietCaller ==
    ASSUME RpcInv, NEW c \in Callers,
           \/ StartCall(c) \/ GetService(c) \/ Return(c) \/ Invoke(c)
           \/ PackPipe(c) \/ PackRaw(c) \/ ReadEnd(c)
    PROVE  CoreInv'
<1> USE DEF RpcInv
<1>1. CASE StartCall(c)
  <2>1. /\ UNCHANGED <<fd, peer, c2s, s2c, late, held, hpc, hreq, timeouts>>
        /\ \A u \in Callers \ {c} : cpc'[u] = cpc[u] /\ calls'[u] = calls[u]
        /\ cpc'[c] \notin {"read", "connect"}
        /\ cpc'[c] \in Within => ref' = c
        /\ cpc[c] = "read" => peer[fd] = "closed"
    BY <1>1, Shapes, Zenon DEF StartCall, Goto, Within, CoreInv, HandleInv, callVars, connVars, handVars, srvVars
  <2>2. ref' = ref
    BY <1>1, Zenon DEF StartCall
  <2> QED
    BY <2>1, <2>2, MoveKeeps, Zenon
<1>2. CASE GetService(c)
  <2>0. \A u \in Callers \ {c} : cpc[u] \notin Within
    BY <1>2, RpcAssumption, Zenon DEF GetService, CoreInv, HandleInv
  <2>1. /\ UNCHANGED <<fd, peer, c2s, s2c, late, held, hpc, hreq, timeouts>>
        /\ \A u \in Callers \ {c} : cpc'[u] = cpc[u] /\ calls'[u] = calls[u]
        /\ cpc'[c] \notin {"read", "connect"}
        /\ cpc'[c] \in Within => ref' = c
        /\ cpc[c] = "read" => peer[fd] = "closed"
    BY <1>2, Shapes, Zenon DEF GetService, Goto, Within, CoreInv, HandleInv, callVars, connVars, handVars, srvVars
  <2> QED
    BY <2>0, <2>1, MoveKeeps, Zenon
<1>3. CASE Return(c)
  <2>0. \A u \in Callers \ {c} : cpc[u] \notin Within
    BY <1>3, OneUser, Zenon DEF Return, CoreInv, Within
  <2>1. /\ UNCHANGED <<fd, peer, c2s, s2c, late, held, hpc, hreq, timeouts>>
        /\ \A u \in Callers \ {c} : cpc'[u] = cpc[u] /\ calls'[u] = calls[u]
        /\ cpc'[c] \notin {"read", "connect"}
        /\ cpc'[c] \in Within => ref' = c
        /\ cpc[c] = "read" => peer[fd] = "closed"
    BY <1>3, Shapes, Zenon DEF Return, Goto, Within, CoreInv, HandleInv, callVars, connVars, handVars, srvVars
  <2> QED
    BY <2>0, <2>1, MoveKeeps
<1>4. CASE Invoke(c)
  <2>1. /\ UNCHANGED <<fd, peer, c2s, s2c, late, held, hpc, hreq, timeouts>>
        /\ \A u \in Callers \ {c} : cpc'[u] = cpc[u] /\ calls'[u] = calls[u]
        /\ cpc'[c] \notin {"read", "connect"}
        /\ cpc'[c] \in Within => ref' = c
        /\ cpc[c] = "read" => peer[fd] = "closed"
    BY <1>4, Shapes, Zenon DEF Invoke, Goto, Within, CoreInv, HandleInv, callVars, connVars, handVars, srvVars
  <2>2. ref' = ref
    BY <1>4, Zenon DEF Invoke
  <2> QED
    BY <2>1, <2>2, MoveKeeps
<1>5. CASE PackPipe(c)
  <2>1. /\ UNCHANGED <<fd, peer, c2s, s2c, late, held, hpc, hreq, timeouts>>
        /\ \A u \in Callers \ {c} : cpc'[u] = cpc[u] /\ calls'[u] = calls[u]
        /\ cpc'[c] \notin {"read", "connect"}
        /\ cpc'[c] \in Within => ref' = c
        /\ cpc[c] = "read" => peer[fd] = "closed"
    BY <1>5, Shapes, Zenon DEF PackPipe, Goto, Within, CoreInv, HandleInv, callVars, connVars, handVars, srvVars
  <2>2. ref' = ref
    BY <1>5, Zenon DEF PackPipe
  <2> QED
    BY <2>1, <2>2, MoveKeeps
<1>6. CASE PackRaw(c)
  <2>1. /\ UNCHANGED <<fd, peer, c2s, s2c, late, held, hpc, hreq, timeouts>>
        /\ \A u \in Callers \ {c} : cpc'[u] = cpc[u] /\ calls'[u] = calls[u]
        /\ cpc'[c] \notin {"read", "connect"}
        /\ cpc'[c] \in Within => ref' = c
        /\ cpc[c] = "read" => peer[fd] = "closed"
    BY <1>6, Shapes, Zenon DEF PackRaw, Goto, Within, CoreInv, HandleInv, callVars, connVars, handVars, srvVars
  <2>2. ref' = ref
    BY <1>6, Zenon DEF PackRaw
  <2> QED
    BY <2>1, <2>2, MoveKeeps
<1>7. CASE ReadEnd(c)
  <2>1. /\ UNCHANGED <<fd, peer, c2s, s2c, late, held, hpc, hreq, timeouts>>
        /\ \A u \in Callers \ {c} : cpc'[u] = cpc[u] /\ calls'[u] = calls[u]
        /\ cpc'[c] \notin {"read", "connect"}
        /\ cpc'[c] \in Within => ref' = c
        /\ cpc[c] = "read" => peer[fd] = "closed"
    BY <1>7, Shapes, Zenon DEF ReadEnd, Goto, Within, CoreInv, HandleInv, callVars, connVars, handVars, srvVars
  <2>2. ref' = ref
    BY <1>7, Zenon DEF ReadEnd
  <2> QED
    BY <2>1, <2>2, MoveKeeps
<1> QED
  BY <1>1, <1>2, <1>3, <1>4, <1>5, <1>6, <1>7, Zenon

(* A closed connection is nobody's, whichever end is closed last.          *)
LEMMA CloseKeeps ==
    ASSUME RpcInv, CloseFd, fd' = NoFd,
           UNCHANGED <<hpc, hreq, timeouts>>,
           \A u \in Callers : /\ cpc'[u] # "read"
                              /\ cpc'[u] \in Within => ref' = u
    PROVE  CoreInv'
<1>0. /\ NoFd \notin Conns /\ timeouts \in Nat
      /\ \A k \in Conns :
           \/ /\ peer'[k] = peer[k] /\ c2s'[k] = c2s[k]
              /\ s2c'[k] = s2c[k] /\ late'[k] = late[k]
           \/ /\ peer[k] = "closed" /\ peer'[k] = "free" /\ late'[k] = 0
              /\ c2s'[k] = <<>> /\ s2c'[k] = <<>>
  BY Shapes DEF RpcInv, CloseFd, Gone, connVars
<1>1. \A k \in Conns : k \notin held'
  BY Zenon DEF RpcInv, CoreInv, HandleInv, CloseFd
<1>2. HandleInv'
  BY <1>0, <1>1, Zenon DEF HandleInv, Within, Conns, NoFd
<1>3. ConnInv'
  BY <1>0, <1>1 DEF RpcInv, CoreInv, ConnInv, Conns, Requests, AllCalls
<1>4. CountInv' /\ OwnInv'
  BY <1>0, Zenon DEF CountInv, OwnInv, Conns, NoFd
<1> QED
  BY <1>2, <1>3, <1>4, Zenon DEF CoreInv

LEMMA StatKeeps ==
    ASSUME RpcInv, NEW c \in Callers, Stat(c)
    PROVE  CoreInv'
<1>1. \A u \in Callers \ {c} : cpc[u] \notin Within
  BY OneUser, Zenon DEF RpcInv, CoreInv, Stat, Within
<1>2. /\ \A u \in Callers \ {c} : cpc'[u] = cpc[u]
      /\ cpc'[c] \in {"put", "connect"} /\ ref' = ref /\ ref = c
  BY Shapes, Zenon DEF RpcInv, CoreInv, HandleInv, Stat, Goto, Within
<1>3. \A u \in Callers : cpc'[u] # "read" /\ (cpc'[u] \in Within => ref' = u)
  BY <1>1, <1>2, Zenon DEF Within
<1>4. CloseFd /\ fd' = NoFd /\ UNCHANGED <<hpc, hreq, timeouts>>
  BY Zenon DEF Stat, handVars, srvVars
<1> QED
  BY <1>3, <1>4, CloseKeeps, Zenon

LEMMA ClientDiesKeeps ==
    ASSUME RpcInv, ClientDies
    PROVE  CoreInv'
<1>1. \A u \in Callers : cpc'[u] # "read" /\ (cpc'[u] \in Within => ref' = u)
  BY Zenon DEF ClientDies, Within
<1>2. CloseFd /\ fd' = NoFd /\ UNCHANGED <<hpc, hreq, timeouts>>
  BY Zenon DEF ClientDies, handVars
<1> QED
  BY <1>1, <1>2, CloseKeeps, Zenon

(* A new connection starts empty.                                          *)
LEMMA ConnectKeeps ==
    ASSUME RpcInv, NEW c \in Callers, Connect(c)
    PROVE  CoreInv'
<1>1. \A u \in Callers \ {c} : cpc[u] \notin Within
  BY OneUser, Zenon DEF RpcInv, CoreInv, Connect, Within
<1>2. PICK k \in Conns : /\ peer[k] = "free"
                         /\ peer' = [peer EXCEPT ![k] = "backlog"]
                         /\ fd' = k /\ held' = held \cup {k}
  BY Zenon DEF Connect
<1>3. /\ \A u \in Callers \ {c} : cpc'[u] = cpc[u]
      /\ cpc'[c] = "pack" /\ ref' = ref /\ ref = c
      /\ UNCHANGED <<c2s, s2c, late, hpc, hreq, timeouts>>
      /\ \A j \in Conns : peer'[j] = IF j = k THEN "backlog" ELSE peer[j]
      /\ \A j \in Conns : j \notin held
  BY <1>2, Shapes DEF RpcInv, CoreInv, HandleInv, Connect, Goto, Within, handVars, srvVars
<1>4. c2s[k] = <<>> /\ s2c[k] = <<>> /\ late[k] = 0 /\ hpc[k] = "none"
  BY <1>2, Zenon DEF RpcInv, CoreInv, ConnInv
<1>5. \A u \in Callers : cpc'[u] \notin {"read", "connect"} /\ (cpc'[u] \in Within => ref' = u)
  BY <1>1, <1>3, Zenon DEF Within
<1>6. HandleInv'
  BY <1>2, <1>3, <1>5, Zenon DEF HandleInv, Within, Conns, NoFd
<1>7. ConnInv'
  BY <1>2, <1>3, <1>4 DEF RpcInv, CoreInv, ConnInv, Conns, Requests, AllCalls
<1>8. CountInv'
  <2>1. Reading' = 0
    BY <1>5, Zenon DEF Reading
  <2> QED
    BY <1>2, <1>3, <1>4, <2>1 DEF CountInv, Asked, Answered, Worked, Conns
<1>9. OwnInv'
  BY <1>5, Zenon DEF OwnInv
<1> QED
  BY <1>6, <1>7, <1>8, <1>9, Zenon DEF CoreInv

LEMMA ConnectFailsKeeps ==
    ASSUME RpcInv, NEW c \in Callers, ConnectFails(c)
    PROVE  CoreInv'
<1>1. \A u \in Callers \ {c} : cpc[u] \notin Within
  BY OneUser, Zenon DEF RpcInv, CoreInv, ConnectFails, Within
<1>2. /\ \A u \in Callers \ {c} : cpc'[u] = cpc[u]
      /\ cpc'[c] = "put" /\ ref' = ref /\ ref = c /\ fd' = Raw
      /\ UNCHANGED <<peer, c2s, s2c, late, held, hpc, hreq, timeouts>>
      /\ \A j \in Conns : j \notin held
      /\ Raw \notin Conns
  BY Shapes, Zenon DEF RpcInv, CoreInv, HandleInv, ConnectFails, Goto, Within,
                connVars, handVars, srvVars
<1>3. \A u \in Callers : cpc'[u] \notin {"read", "connect"} /\ (cpc'[u] \in Within => ref' = u)
  BY <1>1, <1>2, Zenon DEF Within
<1>4. HandleInv'
  BY <1>2, <1>3, Zenon DEF HandleInv, Within, Conns, NoFd
<1>5. ConnInv'
  BY <1>2, Zenon DEF RpcInv, CoreInv, ConnInv, Conns, Requests, AllCalls
<1>6. CountInv' /\ OwnInv'
  BY <1>2, <1>3, Zenon DEF CountInv, OwnInv, Conns, Raw
<1> QED
  BY <1>4, <1>5, <1>6, Zenon DEF CoreInv

(* The request is the only one on a connection that nothing was given up   *)
(* on.                                                                     *)
LEMMA PackKeeps ==
    ASSUME RpcInv, NEW c \in Callers, Pack(c)
    PROVE  CoreInv'
<1> DEFINE r == [call |-> Call(c), len |-> MinOf(maxbuflen[c], buflen[c])]
<1>1. \A u \in Callers \ {c} : cpc[u] \notin Within
  BY OneUser, Zenon DEF RpcInv, CoreInv, Pack, Within
<1>2. /\ \A u \in Callers \ {c} : cpc'[u] = cpc[u]
      /\ cpc[c] = "pack" /\ cpc'[c] = "read" /\ ref' = ref /\ ref = c
      /\ fd \in Conns /\ fd \in held /\ peer[fd] \notin {"closed", "free"}
      /\ UNCHANGED <<fd, peer, s2c, late, held, hpc, hreq, timeouts, calls>>
      /\ c2s'[fd] = Append(c2s[fd], r)
      /\ \A j \in Conns \ {fd} : c2s'[j] = c2s[j]
  BY Shapes, Zenon DEF RpcInv, CoreInv, HandleInv, ConnInv, Pack, Goto, Within,
                handVars, srvVars
<1>3. peer[fd] \in {"backlog", "open"} /\ r \in Requests /\ r.call = Call(c)
  <2>1. MinOf(maxbuflen[c], buflen[c]) \in Nat /\ calls[c] \in 0..MaxCalls
    BY Zenon DEF RpcInv, RpcTypeOK, MinOf
  <2>2. peer[fd] \in {"free", "backlog", "open", "closed"}
    BY <1>2, Zenon DEF RpcInv, RpcTypeOK
  <2> QED
    BY <1>2, <2>1, <2>2, Zenon DEF Requests, AllCalls, Call
<1> HIDE DEF r
<1>4. /\ Asked(fd)' = Asked(fd) + 1 /\ Answered(fd)' = Answered(fd)
      /\ Asked(fd) \in Nat /\ Answered(fd) \in Nat /\ late[fd] \in Nat
      /\ \A i \in DOMAIN c2s'[fd] :
           c2s'[fd][i] = r \/ (i \in DOMAIN c2s[fd] /\ c2s'[fd][i] = c2s[fd][i])
  <2>1. c2s[fd] \in Seq(Requests) /\ s2c[fd] \in Seq(Answers) /\ late[fd] \in Nat
    BY <1>2, Shapes, Zenon DEF RpcInv
  <2>2. Len(s2c[fd]) \in Nat
    BY <2>1
  <2> QED
    BY <1>2, <1>3, <2>1, <2>2, AppendFacts DEF Asked, Answered
<1>5. /\ Reading = 0 /\ Reading' = 1 /\ Worked(fd)' = Worked(fd)
      /\ Worked(fd) \in Nat
  BY <1>1, <1>2, Zenon DEF Reading, Within, Worked
<1>6. Asked(fd) + Answered(fd) + Worked(fd) = late[fd] + Reading
  BY <1>2, <1>3, Zenon DEF RpcInv, CoreInv, CountInv
<1>7. HandleInv'
  BY <1>1, <1>2, Zenon DEF RpcInv, CoreInv, HandleInv, Within, Conns, NoFd
<1>8. ConnInv'
  BY <1>2 DEF RpcInv, CoreInv, ConnInv, Conns, Requests, AllCalls
<1>9. CountInv'
  <2>1. Asked(fd)' + Answered(fd)' + Worked(fd)' = late[fd] + Reading'
    BY <1>4, <1>5, <1>6
  <2> QED
    BY <1>2, <2>1, Zenon DEF CountInv, Conns
<1>10. OwnInv'
  <2> SUFFICES ASSUME late[fd] = 0
               PROVE  /\ \A i \in DOMAIN c2s'[fd] : c2s'[fd][i].call = Call(c)
                      /\ \A i \in DOMAIN s2c[fd] : s2c[fd][i].call = Call(c)
                      /\ hpc[fd] # "exec"
    BY <1>1, <1>2 DEF OwnInv, Call, Within
  <2>1. Asked(fd) = 0 /\ Answered(fd) = 0 /\ Worked(fd) = 0
    BY <1>4, <1>5, <1>6
  <2>2. DOMAIN c2s[fd] = {} /\ DOMAIN s2c[fd] = {}
    BY <1>2, <2>1, Shapes, EmptyFacts DEF RpcInv, Asked, Answered
  <2> QED
    BY <1>3, <1>4, <2>1, <2>2 DEF Worked
<1> QED
  BY <1>7, <1>8, <1>9, <1>10, Zenon DEF CoreInv

(* The answer that is waited for leaves the connection.                    *)
LEMMA DeliverKeeps ==
    ASSUME RpcInv, NEW c \in Callers, Deliver(c)
    PROVE  CoreInv'
<1>1. \A u \in Callers \ {c} : cpc[u] \notin Within
  BY OneUser, Zenon DEF RpcInv, CoreInv, Deliver, Within
<1>2. /\ \A u \in Callers \ {c} : cpc'[u] = cpc[u]
      /\ cpc[c] = "read" /\ cpc'[c] \in {"put", "invoke"}
  BY Shapes, Zenon DEF RpcInv, Deliver, Goto
<1>3. /\ ref' = ref /\ ref = c /\ fd \in Conns /\ fd \in held
      /\ peer[fd] # "free" /\ s2c[fd] # <<>> /\ s2c'[fd] = Tail(s2c[fd])
      /\ UNCHANGED <<fd, peer, c2s, late, held, hpc, hreq, timeouts>>
      /\ \A j \in Conns \ {fd} : s2c'[j] = s2c[j]
  BY Shapes, Zenon DEF RpcInv, CoreInv, HandleInv, ConnInv, Deliver, Within,
                handVars, srvVars
<1>4. /\ Answered(fd)' = Answered(fd) - 1 /\ Asked(fd)' = Asked(fd)
      /\ Answered(fd) \in Nat /\ Asked(fd) \in Nat /\ late[fd] \in Nat
  <2>1. c2s[fd] \in Seq(Requests) /\ s2c[fd] \in Seq(Answers) /\ late[fd] \in Nat
    BY <1>3, Shapes, Zenon DEF RpcInv
  <2>2. Len(c2s[fd]) \in Nat
    BY <2>1
  <2> QED
    BY <1>3, <2>1, <2>2, TailFacts, Zenon DEF Asked, Answered
<1>5. /\ Reading = 1 /\ Reading' = 0 /\ Worked(fd)' = Worked(fd)
      /\ Worked(fd) \in Nat
  BY <1>1, <1>2, <1>3 DEF Reading, Within, Worked
<1>6. HandleInv'
  BY <1>1, <1>2, <1>3, Zenon DEF RpcInv, CoreInv, HandleInv, Within, Conns, NoFd
<1>7. ConnInv'
  BY <1>3, Zenon DEF RpcInv, CoreInv, ConnInv, Conns, Requests, AllCalls
<1>8. CountInv'
  <2> SUFFICES ASSUME peer[fd] \in {"backlog", "open"}
               PROVE  Asked(fd)' + Answered(fd)' + Worked(fd)' = late[fd] + Reading'
    BY <1>3, Zenon DEF CountInv, Conns
  <2>1. Asked(fd) + Answered(fd) + Worked(fd) = late[fd] + Reading
    BY <1>3, Zenon DEF RpcInv, CoreInv, CountInv
  <2> QED
    BY <1>4, <1>5, <2>1
<1>9. OwnInv'
  BY <1>1, <1>2 DEF OwnInv, Within
<1> QED
  BY <1>6, <1>7, <1>8, <1>9 DEF CoreInv

(* The request is given up, and its answer will come nevertheless.         *)
LEMMA ReadTimeoutKeeps ==
    ASSUME RpcInv, NEW c \in Callers, ReadTimeout(c)
    PROVE  CoreInv'
<1>1. \A u \in Callers \ {c} : cpc[u] \notin Within
  BY OneUser, Zenon DEF RpcInv, CoreInv, ReadTimeout, Within
<1>2. /\ \A u \in Callers \ {c} : cpc'[u] = cpc[u]
      /\ cpc[c] = "read" /\ cpc'[c] \in {"put", "invoke"}
  BY Shapes, Zenon DEF RpcInv, ReadTimeout, Goto
<1>3. /\ ref' = ref /\ ref = c /\ fd \in Conns /\ fd \in held
      /\ peer[fd] \notin {"free", "closed"}
      /\ UNCHANGED <<fd, peer, c2s, s2c, held, hpc, hreq>>
      /\ timeouts' = timeouts + 1 /\ late'[fd] = late[fd] + 1
      /\ \A j \in Conns \ {fd} : late'[j] = late[j]
  BY Shapes, Zenon DEF RpcInv, CoreInv, HandleInv, ConnInv, ReadTimeout, Within, handVars
<1>4. timeouts \in Nat /\ \A k \in Conns : late[k] \in Nat
  BY Shapes, Zenon DEF RpcInv
<1>5. /\ Reading = 1 /\ Reading' = 0 /\ Asked(fd)' = Asked(fd)
      /\ Answered(fd)' = Answered(fd) /\ Worked(fd)' = Worked(fd)
  BY <1>1, <1>2, <1>3 DEF Reading, Within, Worked, Asked, Answered
<1>6. HandleInv'
  BY <1>1, <1>2, <1>3, Zenon DEF RpcInv, CoreInv, HandleInv, Within, Conns, NoFd
<1>7. ConnInv'
  BY <1>3, <1>4 DEF RpcInv, CoreInv, ConnInv, Conns, Requests, AllCalls
<1>8. CountInv'
  <2>1. peer[fd] \in {"backlog", "open"}
    BY <1>3, Zenon DEF RpcInv, RpcTypeOK
  <2>2. Asked(fd) + Answered(fd) + Worked(fd) = late[fd] + Reading
    BY <1>3, <2>1, Zenon DEF RpcInv, CoreInv, CountInv
  <2>3. late[fd] + Reading = late'[fd] + Reading'
    BY <1>3, <1>4, <1>5
  <2> QED
    BY <1>3, <1>5, <2>2, <2>3, Zenon DEF CountInv, Conns
<1>9. OwnInv'
  BY <1>1, <1>2 DEF OwnInv, Within
<1> QED
  BY <1>6, <1>7, <1>8, <1>9 DEF CoreInv

-----------------------------------------------------------------------------
(* The handlers.  What does not touch the handle or the callers keeps the  *)
(* part of the invariant that is about them.                               *)
LEMMA ServerKeepsHandle ==
    ASSUME HandleInv, UNCHANGED <<ref, fd, cpc, held>>
    PROVE  HandleInv'
BY Zenon DEF HandleInv, Within, Conns, NoFd

(* A connection that the client does not use bears on nothing else.        *)
LEMMA OtherConn ==
    ASSUME HandleInv, CountInv, OwnInv, UNCHANGED <<fd, cpc, calls>>,
           fd \in Conns => UNCHANGED <<peer[fd], c2s[fd], s2c[fd], late[fd],
                                       hpc[fd], hreq[fd]>>
    PROVE  CountInv' /\ OwnInv'
<1>1. /\ Reading' = Reading
      /\ fd \in Conns => /\ Asked(fd)' = Asked(fd) /\ Answered(fd)' = Answered(fd)
                         /\ Worked(fd)' = Worked(fd)
  BY Zenon DEF Reading, Worked, Asked, Answered
<1>2. CountInv'
  BY <1>1, Zenon DEF CountInv, Conns
<1>3. OwnInv'
  BY DEF OwnInv, HandleInv, Call
<1> QED
  BY <1>2, <1>3, Zenon

LEMMA AcceptKeeps ==
    ASSUME RpcInv, NEW k \in Conns, Accept(k)
    PROVE  CoreInv'
<1>1. /\ peer[k] = "backlog" /\ peer'[k] = "open" /\ hpc'[k] = "read"
      /\ \A j \in Conns \ {k} : peer'[j] = peer[j] /\ hpc'[j] = hpc[j]
      /\ UNCHANGED <<ref, fd, cpc, calls, c2s, s2c, late, held, hreq, timeouts>>
  BY Shapes, Zenon DEF RpcInv, Accept, callVars, srvVars
<1>2. hpc[k] = "none"
  BY <1>1, Zenon DEF RpcInv, CoreInv, ConnInv
<1>3. HandleInv'
  BY <1>1, ServerKeepsHandle, Zenon DEF RpcInv, CoreInv
<1>4. ConnInv'
  BY <1>1 DEF RpcInv, CoreInv, ConnInv, Conns, Requests, AllCalls
<1>5. CountInv'
  <2>1. /\ Reading' = Reading
        /\ fd \in Conns => /\ Asked(fd)' = Asked(fd) /\ Answered(fd)' = Answered(fd)
                           /\ Worked(fd)' = Worked(fd)
    BY <1>1, <1>2, Zenon DEF Reading, Worked, Asked, Answered
  <2> QED
    BY <1>1, <2>1, Zenon DEF RpcInv, CoreInv, CountInv, Conns
<1>6. OwnInv'
  BY <1>1, <1>2 DEF RpcInv, CoreInv, HandleInv, OwnInv, Call
<1> QED
  BY <1>3, <1>4, <1>5, <1>6, Zenon DEF CoreInv

(* The request moves from the connection to its handler.                   *)
LEMMA HandlerReadKeeps ==
    ASSUME RpcInv, NEW k \in Conns, HandlerRead(k)
    PROVE  CoreInv'
<1>1. /\ hpc[k] = "read" /\ hpc'[k] = "exec" /\ c2s[k] # <<>>
      /\ c2s'[k] = Tail(c2s[k]) /\ hreq'[k] = Head(c2s[k])
      /\ \A j \in Conns \ {k} : /\ c2s'[j] = c2s[j] /\ hpc'[j] = hpc[j]
                                /\ hreq'[j] = hreq[j]
      /\ UNCHANGED <<ref, fd, cpc, calls, peer, s2c, late, held, timeouts>>
  BY Shapes, Zenon DEF RpcInv, HandlerRead, callVars, srvVars
<1>2. /\ c2s[k] \in Seq(Requests) /\ s2c[k] \in Seq(Answers) /\ late[k] \in Nat
  BY Shapes, Zenon DEF RpcInv
<1>3. /\ Head(c2s[k]) = c2s[k][1] /\ 1 \in DOMAIN c2s[k]
      /\ Head(c2s[k]) \in Requests
      /\ Asked(k)' = Asked(k) - 1 /\ Asked(k) \in Nat
      /\ \A i \in DOMAIN c2s'[k] : i + 1 \in DOMAIN c2s[k] /\ c2s'[k][i] = c2s[k][i + 1]
  BY <1>1, <1>2, TailFacts DEF Asked
<1>4. HandleInv'
  BY <1>1, ServerKeepsHandle, Zenon DEF RpcInv, CoreInv
<1>5. ConnInv'
  BY <1>1, <1>3 DEF RpcInv, CoreInv, ConnInv, Conns, Requests, AllCalls
<1>6. CountInv' /\ OwnInv'
  <2>1. CASE k # fd
    BY <1>1, <2>1, OtherConn, Zenon DEF RpcInv, CoreInv
  <2>2. CASE k = fd
    <3>1. /\ Reading' = Reading /\ Worked(k) = 0 /\ Worked(k)' = 1
          /\ Reading \in Nat /\ Answered(k)' = Answered(k)
      BY <1>1, Zenon DEF Reading, Worked, Answered
    <3>2. Answered(k) \in Nat
      BY <1>2 DEF Answered
    <3>3. CountInv'
      <4> SUFFICES ASSUME peer[k] \in {"backlog", "open"}
                   PROVE  Asked(k)' + Answered(k)' + Worked(k)' = late[k] + Reading'
        BY <1>1, <2>2, Zenon DEF CountInv
      <4>1. Asked(k) + Answered(k) + Worked(k) = late[k] + Reading
        BY <2>2, Zenon DEF RpcInv, CoreInv, CountInv
      <4> QED
        BY <1>2, <1>3, <3>1, <3>2, <4>1
    <3>4. OwnInv'
      <4> SUFFICES ASSUME NEW c \in Callers, cpc[c] = "read", late[k] = 0
                   PROVE  /\ \A i \in DOMAIN c2s'[k] : c2s'[k][i].call = Call(c)
                          /\ \A i \in DOMAIN s2c[k] : s2c[k][i].call = Call(c)
                          /\ hreq'[k].call = Call(c)
        BY <1>1, <2>2, Zenon DEF OwnInv, Call
      <4>1. /\ \A i \in DOMAIN c2s[k] : c2s[k][i].call = Call(c)
            /\ \A i \in DOMAIN s2c[k] : s2c[k][i].call = Call(c)
        BY <2>2, Zenon DEF RpcInv, CoreInv, OwnInv
      <4> QED
        BY <1>1, <1>3, <4>1
    <3> QED
      BY <3>3, <3>4, Zenon
  <2> QED
    BY <2>1, <2>2, Zenon
<1> QED
  BY <1>4, <1>5, <1>6, Zenon DEF CoreInv

(* The answer takes the place of the request.                              *)
LEMMA HandlerAnswerKeeps ==
    ASSUME RpcInv, NEW k \in Conns, HandlerAnswer(k)
    PROVE  CoreInv'
<1> DEFINE a == AnswerTo(hreq[k])
<1>1. /\ hpc[k] = "exec" /\ hpc'[k] = "read" /\ k \in held
      /\ s2c'[k] = Append(s2c[k], a) /\ hreq'[k] = NoReq
      /\ \A j \in Conns \ {k} : /\ s2c'[j] = s2c[j] /\ hpc'[j] = hpc[j]
                                /\ hreq'[j] = hreq[j]
      /\ UNCHANGED <<ref, fd, cpc, calls, peer, c2s, late, held, timeouts>>
  BY Shapes, Zenon DEF RpcInv, HandlerAnswer, callVars, srvVars
<1>2. /\ c2s[k] \in Seq(Requests) /\ s2c[k] \in Seq(Answers) /\ late[k] \in Nat
      /\ k = fd /\ peer[k] = "open" /\ hreq[k] \in Requests
  BY <1>1, Shapes, Zenon DEF RpcInv, CoreInv, HandleInv, ConnInv
<1>3. a \in Answers /\ a.call = hreq[k].call
  BY <1>2, Zenon DEF AnswerTo, Answers, Requests
<1> HIDE DEF a
<1>4. /\ Answered(k)' = Answered(k) + 1 /\ Answered(k) \in Nat
      /\ \A i \in DOMAIN s2c'[k] :
           s2c'[k][i] = a \/ (i \in DOMAIN s2c[k] /\ s2c'[k][i] = s2c[k][i])
  BY <1>1, <1>2, <1>3, AppendFacts DEF Answered
<1>5. HandleInv'
  BY <1>1, ServerKeepsHandle, Zenon DEF RpcInv, CoreInv
<1>6. ConnInv'
  BY <1>1, <1>2 DEF RpcInv, CoreInv, ConnInv, Conns, Requests, AllCalls
<1>7. CountInv'
  <2>1. /\ Reading' = Reading /\ Worked(k) = 1 /\ Worked(k)' = 0
        /\ Reading \in Nat /\ Asked(k)' = Asked(k)
    BY <1>1, Zenon DEF Reading, Worked, Asked
  <2>2. Asked(k) \in Nat
    BY <1>2 DEF Asked
  <2>3. Asked(k) + Answered(k) + Worked(k) = late[k] + Reading
    BY <1>2, Zenon DEF RpcInv, CoreInv, CountInv
  <2>4. Asked(k)' + Answered(k)' + Worked(k)' = late[k] + Reading'
    BY <1>2, <1>4, <2>1, <2>2, <2>3
  <2> QED
    BY <1>1, <1>2, <2>4, Zenon DEF CountInv
<1>8. OwnInv'
  BY <1>1, <1>2, <1>3, <1>4, Zenon DEF RpcInv, CoreInv, OwnInv, Call
<1> QED
  BY <1>5, <1>6, <1>7, <1>8 DEF CoreInv

(* The server closes its end.                                              *)
LEMMA HandlerCloseKeeps ==
    ASSUME RpcInv, NEW k \in Conns, HandlerClose(k), peer[k] # "free",
           UNCHANGED <<ref, fd, cpc, calls, held, timeouts>>
    PROVE  CoreInv'
<1>1. /\ hpc'[k] = "none" /\ hreq'[k] = NoReq
      /\ \A j \in Conns \ {k} : UNCHANGED <<peer[j], c2s[j], s2c[j], late[j],
                                            hpc[j], hreq[j]>>
      /\ IF k \in held
           THEN peer'[k] = "closed" /\ UNCHANGED <<c2s[k], s2c[k], late[k]>>
           ELSE /\ peer'[k] = "free" /\ c2s'[k] = <<>> /\ s2c'[k] = <<>>
                /\ late'[k] = 0
      /\ timeouts \in Nat
  BY Shapes DEF RpcInv, HandlerClose, Gone
<1>2. HandleInv'
  BY ServerKeepsHandle, Zenon DEF RpcInv, CoreInv
<1>3. ConnInv'
  BY <1>1 DEF RpcInv, CoreInv, ConnInv, Conns, Requests, AllCalls
<1>4. CountInv' /\ OwnInv'
  <2>1. CASE k # fd
    BY <1>1, <2>1, OtherConn, Zenon DEF RpcInv, CoreInv
  <2>2. CASE k = fd
    <3>1. peer'[fd] = "closed" /\ UNCHANGED <<c2s[fd], s2c[fd], late[fd]>>
      BY <1>1, <2>2, Zenon DEF RpcInv, CoreInv, HandleInv
    <3>2. CountInv'
      BY <3>1, Zenon DEF CountInv
    <3>3. OwnInv'
      <4>1. hpc'[fd] = "none"
        BY <1>1, <2>2, Zenon
      <4> QED
        BY <3>1, <4>1, Zenon DEF RpcInv, CoreInv, OwnInv, Call
    <3> QED
      BY <3>2, <3>3, Zenon
  <2> QED
    BY <2>1, <2>2, Zenon
<1> QED
  BY <1>2, <1>3, <1>4, Zenon DEF CoreInv

LEMMA HandlerEndKeeps ==
    ASSUME RpcInv, NEW k \in Conns, AcceptFails(k) \/ HandlerEnd(k) \/ HandlerPipe(k)
    PROVE  CoreInv'
<1>1. HandlerClose(k) /\ UNCHANGED <<ref, fd, cpc, calls, held, timeouts>>
  BY Zenon DEF AcceptFails, HandlerEnd, HandlerPipe, callVars, srvVars
<1>2. peer[k] # "free"
  BY Zenon DEF RpcInv, CoreInv, ConnInv, AcceptFails, HandlerEnd, HandlerPipe
<1> QED
  BY <1>1, <1>2, HandlerCloseKeeps, Zenon

LEMMA ServerDiesKeeps ==
    ASSUME RpcInv, ServerDies
    PROVE  CoreInv'
<1>1. /\ \A k \in Conns :
           /\ hpc'[k] = "none"
           /\ k \in held => UNCHANGED <<c2s[k], s2c[k], late[k]>>
           /\ k \in held /\ peer[k] # "free" => peer'[k] = "closed"
           /\ k \notin held => /\ c2s'[k] = <<>> /\ s2c'[k] = <<>>
                               /\ late'[k] = 0 /\ peer'[k] = "free"
      /\ UNCHANGED <<ref, fd, cpc, calls, held, timeouts>>
      /\ timeouts \in Nat
  BY Shapes, Zenon DEF RpcInv, ServerDies, callVars
<1>2. HandleInv'
  BY <1>1, ServerKeepsHandle, Zenon DEF RpcInv, CoreInv
<1>3. ConnInv'
  BY <1>1 DEF RpcInv, CoreInv, ConnInv, Conns, Requests, AllCalls
<1>4. fd \in Conns => /\ peer'[fd] = "closed" /\ hpc'[fd] = "none"
                      /\ UNCHANGED <<c2s[fd], s2c[fd], late[fd]>>
  BY <1>1, Zenon DEF RpcInv, CoreInv, HandleInv, ConnInv
<1>5. CountInv'
  BY <1>1, <1>4, Zenon DEF CountInv, Conns
<1>6. OwnInv'
  BY <1>1, <1>4 DEF RpcInv, CoreInv, HandleInv, OwnInv, Call
<1> QED
  BY <1>2, <1>3, <1>5, <1>6, Zenon DEF CoreInv

(* Steps that touch none of it.                                            *)
LEMMA QuietKeeps ==
    ASSUME CoreInv, UNCHANGED <<ref, fd, cpc, calls, peer, c2s, s2c, late, held,
                                hpc, hreq, timeouts>>
    PROVE  CoreInv'
<1>1. HandleInv' /\ CountInv' /\ OwnInv'
  BY ServerKeepsHandle, OtherConn, Zenon DEF CoreInv
<1>2. ConnInv'
  BY Zenon DEF CoreInv, ConnInv, Conns, Requests, AllCalls
<1> QED
  BY <1>1, <1>2, Zenon DEF CoreInv

-----------------------------------------------------------------------------
(* Types                                                                   *)

LEMMA InitInv == ASSUME Init PROVE RpcInv
<1>1. RpcTypeOK
  <2>1. /\ 0 \in 0..MaxCalls /\ 0 \in 0..MaxLate /\ 0 \in 0..MaxDeaths
    BY RpcAssumption
  <2> QED
    BY <2>1 DEF Init, RpcTypeOK
<1>2. HandleInv
  BY RpcAssumption DEF Init, HandleInv, Within, Conns, NoFd
<1>3. ConnInv
  BY DEF Init, ConnInv
<1>4. CountInv /\ OwnInv
  BY Zenon DEF Init, CountInv, OwnInv, Conns, NoFd
<1> QED
  BY <1>1, <1>2, <1>3, <1>4, Zenon DEF RpcInv, CoreInv

(* A caller's place and lengths keep their types.                          *)
LEMMA PlaceType ==
    ASSUME RpcTypeOK, NEW c \in Callers,
           NEW p \in {"idle", "get", "invoke", "stat", "connect", "pack", "read", "put"},
           Goto(c, p)
    PROVE  cpc' \in [Callers -> {"idle", "get", "invoke", "stat", "connect", "pack",
                                 "read", "put"}]
BY Zenon DEF RpcTypeOK, Goto

LEMMA CloseType ==
    ASSUME RpcTypeOK, CloseFd
    PROVE  /\ held' \subseteq Conns
           /\ peer' \in [Conns -> {"free", "backlog", "open", "closed"}]
           /\ c2s' \in [Conns -> Seq(Requests)] /\ s2c' \in [Conns -> Seq(Answers)]
           /\ late' \in [Conns -> 0..MaxLate]
<1>1. 0 \in 0..MaxLate /\ <<>> \in Seq(Requests) /\ <<>> \in Seq(Answers)
  BY RpcAssumption
<1>2. held' \subseteq Conns
  BY Zenon DEF RpcTypeOK, CloseFd, connVars
<1>3. peer' \in [Conns -> {"free", "backlog", "open", "closed"}]
  <2>1. peer' = peer \/ (fd \in Conns /\ peer' = [peer EXCEPT ![fd] = "free"])
    BY Zenon DEF CloseFd, Gone, connVars
  <2>2. peer \in [Conns -> {"free", "backlog", "open", "closed"}]
    BY Zenon DEF RpcTypeOK
  <2> QED
    BY <2>1, <2>2, Zenon
<1>4. c2s' \in [Conns -> Seq(Requests)] /\ s2c' \in [Conns -> Seq(Answers)]
  BY <1>1, Zenon DEF RpcTypeOK, CloseFd, Gone, connVars
<1>5. late' \in [Conns -> 0..MaxLate]
  BY <1>1, Zenon DEF RpcTypeOK, CloseFd, Gone, connVars
<1> QED
  BY <1>2, <1>3, <1>4, <1>5, Zenon

LEMMA HandlerCloseType ==
    ASSUME RpcTypeOK, NEW k \in Conns, HandlerClose(k)
    PROVE  /\ peer' \in [Conns -> {"free", "backlog", "open", "closed"}]
           /\ c2s' \in [Conns -> Seq(Requests)] /\ s2c' \in [Conns -> Seq(Answers)]
           /\ late' \in [Conns -> 0..MaxLate]
           /\ hpc' \in [Conns -> {"none", "read", "exec"}]
           /\ hreq' \in [Conns -> Requests \cup {NoReq}]
<1>1. 0 \in 0..MaxLate /\ <<>> \in Seq(Requests) /\ <<>> \in Seq(Answers)
  BY RpcAssumption
<1>2. peer' \in [Conns -> {"free", "backlog", "open", "closed"}]
  BY Zenon DEF RpcTypeOK, HandlerClose, Gone
<1>3. c2s' \in [Conns -> Seq(Requests)] /\ s2c' \in [Conns -> Seq(Answers)]
  BY <1>1, Zenon DEF RpcTypeOK, HandlerClose, Gone
<1>4. late' \in [Conns -> 0..MaxLate]
  BY <1>1, Zenon DEF RpcTypeOK, HandlerClose, Gone
<1>5. /\ hpc' \in [Conns -> {"none", "read", "exec"}]
      /\ hreq' \in [Conns -> Requests \cup {NoReq}]
  BY Zenon DEF RpcTypeOK, HandlerClose
<1> QED
  BY <1>2, <1>3, <1>4, <1>5, Zenon

LEMMA CallerType ==
    ASSUME RpcInv, NEW c \in Callers, StartCall(c) \/ ReadTimeout(c) \/ CallerStep(c)
    PROVE  RpcTypeOK'
<1> USE DEF RpcInv
<1>1. CASE StartCall(c)
  <2>1. cpc' \in [Callers -> {"idle", "get", "invoke", "stat", "connect", "pack",
                            "read", "put"}]
    BY <1>1, PlaceType, Zenon DEF StartCall
  <2>2. calls[c] + 1 \in 0..MaxCalls
    BY <1>1, RpcAssumption DEF StartCall, RpcTypeOK
  <2>3. calls' \in [Callers -> 0..MaxCalls]
    BY <1>1, <2>2, Zenon DEF StartCall, RpcTypeOK
  <2>4. buflen' \in [Callers -> Nat] /\ maxbuflen' \in [Callers -> Nat]
    BY <1>1, RpcAssumption DEF StartCall, RpcTypeOK
  <2> QED
    BY <1>1, <2>1, <2>2, <2>3, <2>4, Zenon DEF StartCall, RpcTypeOK, callVars, connVars, handVars, srvVars
<1>2. CASE GetService(c)
  <2>1. cpc' \in [Callers -> {"idle", "get", "invoke", "stat", "connect", "pack",
                            "read", "put"}]
    BY <1>2, PlaceType, Zenon DEF GetService
  <2> QED
    BY <1>2, <2>1, Zenon DEF GetService, RpcTypeOK, callVars, connVars, handVars, srvVars
<1>3. CASE Return(c)
  <2>1. cpc' \in [Callers -> {"idle", "get", "invoke", "stat", "connect", "pack",
                            "read", "put"}]
    BY <1>3, PlaceType, Zenon DEF Return
  <2>2. buflen' \in [Callers -> Nat] /\ maxbuflen' \in [Callers -> Nat]
    BY <1>3, Zenon DEF Return, RpcTypeOK
  <2> QED
    BY <1>3, <2>1, <2>2, Zenon DEF Return, RpcTypeOK, callVars, connVars, handVars, srvVars
<1>4. CASE Invoke(c)
  <2>1. cpc' \in [Callers -> {"idle", "get", "invoke", "stat", "connect", "pack",
                            "read", "put"}]
    BY <1>4, PlaceType, Zenon DEF Invoke
  <2> QED
    BY <1>4, <2>1, Zenon DEF Invoke, RpcTypeOK, callVars, connVars, handVars, srvVars
<1>5. CASE Stat(c)
  <2>1. cpc' \in [Callers -> {"idle", "get", "invoke", "stat", "connect", "pack",
                            "read", "put"}]
    BY <1>5, PlaceType, Zenon DEF Stat
  <2>2. /\ held' \subseteq Conns
        /\ peer' \in [Conns -> {"free", "backlog", "open", "closed"}]
        /\ c2s' \in [Conns -> Seq(Requests)] /\ s2c' \in [Conns -> Seq(Answers)]
        /\ late' \in [Conns -> 0..MaxLate]
    BY <1>5, CloseType, Zenon DEF Stat
  <2> QED
    BY <1>5, <2>1, <2>2, Zenon DEF Stat, RpcTypeOK, callVars, connVars, handVars, srvVars
<1>6. CASE Connect(c)
  <2>1. cpc' \in [Callers -> {"idle", "get", "invoke", "stat", "connect", "pack",
                            "read", "put"}]
    BY <1>6, PlaceType, Zenon DEF Connect
  <2>2. /\ held' \subseteq Conns /\ fd' \in Conns \cup {NoFd, Raw}
        /\ peer' \in [Conns -> {"free", "backlog", "open", "closed"}]
    BY <1>6, Zenon DEF Connect, RpcTypeOK
  <2> QED
    BY <1>6, <2>1, <2>2, Zenon DEF Connect, RpcTypeOK, callVars, connVars, handVars, srvVars
<1>7. CASE ConnectFails(c)
  <2>1. cpc' \in [Callers -> {"idle", "get", "invoke", "stat", "connect", "pack",
                            "read", "put"}]
    BY <1>7, PlaceType, Zenon DEF ConnectFails
  <2> QED
    BY <1>7, <2>1, Zenon DEF ConnectFails, RpcTypeOK, callVars, connVars, handVars, srvVars
<1>8. CASE Pack(c)
  <2>1. cpc' \in [Callers -> {"idle", "get", "invoke", "stat", "connect", "pack",
                            "read", "put"}]
    BY <1>8, PlaceType, Zenon DEF Pack
  <2>2. /\ [call |-> Call(c), len |-> MinOf(maxbuflen[c], buflen[c])] \in Requests
        /\ fd \in Conns
    BY <1>8, Zenon DEF Pack, RpcTypeOK, MinOf, Requests, AllCalls, Call
  <2>3. c2s' \in [Conns -> Seq(Requests)]
    BY <1>8, <2>2, AppendFacts DEF Pack, RpcTypeOK
  <2> QED
    BY <1>8, <2>1, <2>2, <2>3, Zenon DEF Pack, RpcTypeOK, callVars, connVars, handVars, srvVars
<1>9. CASE PackPipe(c)
  <2>1. cpc' \in [Callers -> {"idle", "get", "invoke", "stat", "connect", "pack",
                            "read", "put"}]
    BY <1>9, PlaceType, Zenon DEF PackPipe
  <2> QED
    BY <1>9, <2>1, Zenon DEF PackPipe, RpcTypeOK, callVars, connVars, handVars, srvVars
<1>10. CASE PackRaw(c)
  <2>1. cpc' \in [Callers -> {"idle", "get", "invoke", "stat", "connect", "pack",
                            "read", "put"}]
    BY <1>10, PlaceType, Zenon DEF PackRaw
  <2> QED
    BY <1>10, <2>1, Zenon DEF PackRaw, RpcTypeOK, callVars, connVars, handVars, srvVars
<1>11. CASE Deliver(c)
  <2>1. cpc' \in [Callers -> {"idle", "get", "invoke", "stat", "connect", "pack",
                            "read", "put"}]
    BY <1>11, PlaceType, Zenon DEF Deliver
  <2>2. /\ s2c[fd] \in Seq(Answers) /\ s2c[fd] # <<>> /\ fd \in Conns
        /\ buflen[c] \in Nat
    BY <1>11, Zenon DEF Deliver, CoreInv, HandleInv, RpcTypeOK
  <2>3. Tail(s2c[fd]) \in Seq(Answers) /\ Head(s2c[fd]) \in Answers
    BY <2>2, TailFacts, Zenon
  <2>4. s2c' \in [Conns -> Seq(Answers)]
    BY <1>11, <2>2, <2>3, Zenon DEF Deliver, RpcTypeOK
  <2>5. Head(s2c[fd]).len \in Nat
    BY <2>3, Zenon DEF Answers
  <2>6. buflen[c] - Taken(Head(s2c[fd]), buflen[c]) \in Nat
    BY <2>2, <2>5 DEF Taken, MinOf
  <2>7. buflen' \in [Callers -> Nat] /\ maxbuflen' \in [Callers -> Nat]
    <3>1. /\ \/ buflen' = buflen
             \/ \E n \in Nat : buflen' = [buflen EXCEPT ![c] = n]
          /\ \/ maxbuflen' = maxbuflen
             \/ maxbuflen' = [maxbuflen EXCEPT ![c] = MAX_DATA]
      BY <1>11, <2>6, Zenon DEF Deliver
    <3>2. /\ buflen \in [Callers -> Nat] /\ maxbuflen \in [Callers -> Nat]
          /\ MAX_DATA \in Nat
      BY RpcAssumption, Zenon DEF RpcTypeOK
    <3> QED
      BY <3>1, <3>2, Zenon
  <2> QED
    BY <1>11, <2>1, <2>2, <2>3, <2>4, <2>5, <2>6, <2>7, Zenon DEF Deliver, RpcTypeOK, callVars, connVars, handVars, srvVars
<1>12. CASE ReadEnd(c)
  <2>1. cpc' \in [Callers -> {"idle", "get", "invoke", "stat", "connect", "pack",
                            "read", "put"}]
    BY <1>12, PlaceType, Zenon DEF ReadEnd
  <2> QED
    BY <1>12, <2>1, Zenon DEF ReadEnd, RpcTypeOK, callVars, connVars, handVars, srvVars
<1>13. CASE ReadTimeout(c)
  <2>1. cpc' \in [Callers -> {"idle", "get", "invoke", "stat", "connect", "pack",
                            "read", "put"}]
    BY <1>13, PlaceType, Zenon DEF ReadTimeout
  <2>2. /\ late[fd] + 1 \in 0..MaxLate /\ timeouts + 1 \in 0..MaxLate
        /\ fd \in Conns
    <3>1. /\ fd \in Conns /\ late[fd] <= timeouts /\ timeouts < MaxLate
      BY <1>13, Zenon DEF ReadTimeout, CoreInv, HandleInv, ConnInv
    <3>2. late[fd] \in 0..MaxLate /\ timeouts \in 0..MaxLate
      BY <3>1, Zenon DEF RpcTypeOK
    <3> QED
      BY <3>1, <3>2, RpcAssumption
  <2>3. late' \in [Conns -> 0..MaxLate] /\ timeouts' \in 0..MaxLate
    BY <1>13, <2>2, Zenon DEF ReadTimeout, RpcTypeOK
  <2> QED
    BY <1>13, <2>1, <2>2, <2>3, Zenon DEF ReadTimeout, RpcTypeOK, callVars, connVars, handVars, srvVars
<1> QED
  BY <1>1, <1>2, <1>3, <1>4, <1>5, <1>6, <1>7, <1>8, <1>9, <1>10, <1>11, <1>12, <1>13, Zenon DEF CallerStep

LEMMA HandlerType ==
    ASSUME RpcInv, NEW k \in Conns, HandlerStep(k) \/ AcceptFails(k) \/ HandlerEnd(k)
    PROVE  RpcTypeOK'
<1> USE DEF RpcInv
<1>1. CASE Accept(k)
  BY <1>1, Zenon DEF Accept, RpcTypeOK, callVars, srvVars
<1>2. CASE HandlerRead(k)
  <2>1. c2s[k] \in Seq(Requests) /\ c2s[k] # <<>>
    BY <1>2, Zenon DEF HandlerRead, RpcTypeOK
  <2>2. Tail(c2s[k]) \in Seq(Requests) /\ Head(c2s[k]) \in Requests
    BY <2>1, TailFacts, Zenon
  <2>3. /\ c2s' \in [Conns -> Seq(Requests)]
        /\ hreq' \in [Conns -> Requests \cup {NoReq}]
        /\ hpc' \in [Conns -> {"none", "read", "exec"}]
    BY <1>2, <2>2, Zenon DEF HandlerRead, RpcTypeOK
  <2> QED
    BY <1>2, <2>3, Zenon DEF HandlerRead, RpcTypeOK, callVars, srvVars
<1>3. CASE HandlerAnswer(k)
  <2>1. hreq[k] \in Requests
    BY <1>3, Zenon DEF HandlerAnswer, CoreInv, ConnInv
  <2>2. AnswerTo(hreq[k]) \in Answers /\ s2c[k] \in Seq(Answers)
    BY <2>1, Zenon DEF AnswerTo, Answers, Requests, RpcTypeOK
  <2>3. Append(s2c[k], AnswerTo(hreq[k])) \in Seq(Answers)
    BY <2>2, AppendFacts, Zenon
  <2>4. /\ s2c' \in [Conns -> Seq(Answers)]
        /\ hreq' \in [Conns -> Requests \cup {NoReq}]
        /\ hpc' \in [Conns -> {"none", "read", "exec"}]
    BY <1>3, <2>3, Zenon DEF HandlerAnswer, RpcTypeOK
  <2> QED
    BY <1>3, <2>4, Zenon DEF HandlerAnswer, RpcTypeOK, callVars, srvVars
<1>4. CASE HandlerPipe(k) \/ AcceptFails(k) \/ HandlerEnd(k)
  <2>1. HandlerClose(k) /\ UNCHANGED <<ref, fd, callVars, held, srvVars>>
    BY <1>4, Zenon DEF HandlerPipe, AcceptFails, HandlerEnd
  <2>2. /\ peer' \in [Conns -> {"free", "backlog", "open", "closed"}]
        /\ c2s' \in [Conns -> Seq(Requests)] /\ s2c' \in [Conns -> Seq(Answers)]
        /\ late' \in [Conns -> 0..MaxLate]
        /\ hpc' \in [Conns -> {"none", "read", "exec"}]
        /\ hreq' \in [Conns -> Requests \cup {NoReq}]
    BY <2>1, HandlerCloseType, Zenon
  <2> QED
    BY <2>1, <2>2, Zenon DEF RpcTypeOK, callVars, srvVars
<1> QED
  BY <1>1, <1>2, <1>3, <1>4, Zenon DEF HandlerStep

LEMMA ProcessType ==
    ASSUME RpcTypeOK,
           BecomeReady \/ ClientDies \/ ServerDies \/ CleanSocket \/ ServerStarts
    PROVE  RpcTypeOK'
<1>1. CASE BecomeReady \/ CleanSocket \/ ServerStarts
  BY <1>1, Zenon DEF BecomeReady, CleanSocket, ServerStarts, RpcTypeOK, callVars, connVars, handVars
<1>2. CASE ClientDies
  <2>1. /\ held' \subseteq Conns
        /\ peer' \in [Conns -> {"free", "backlog", "open", "closed"}]
        /\ c2s' \in [Conns -> Seq(Requests)] /\ s2c' \in [Conns -> Seq(Answers)]
        /\ late' \in [Conns -> 0..MaxLate]
    BY <1>2, CloseType, Zenon DEF ClientDies
  <2>2. deaths' \in 0..MaxDeaths
    BY <1>2, RpcAssumption DEF ClientDies, RpcTypeOK
  <2> QED
    BY <1>2, <2>1, <2>2, Zenon DEF ClientDies, RpcTypeOK, handVars
<1>3. CASE ServerDies
  <2>1. deaths' \in 0..MaxDeaths
    BY <1>3, RpcAssumption DEF ServerDies, RpcTypeOK
  <2>2. 0 \in 0..MaxLate /\ <<>> \in Seq(Requests) /\ <<>> \in Seq(Answers)
    BY RpcAssumption
  <2>3. /\ peer' \in [Conns -> {"free", "backlog", "open", "closed"}]
        /\ c2s' \in [Conns -> Seq(Requests)] /\ s2c' \in [Conns -> Seq(Answers)]
        /\ late' \in [Conns -> 0..MaxLate]
    BY <1>3, <2>2, Zenon DEF ServerDies, RpcTypeOK
  <2>4. /\ hpc' \in [Conns -> {"none", "read", "exec"}]
        /\ hreq' \in [Conns -> Requests \cup {NoReq}]
    BY <1>3, Zenon DEF ServerDies
  <2> QED
    BY <1>3, <2>1, <2>3, <2>4, Zenon DEF ServerDies, RpcTypeOK, callVars
<1> QED
  BY <1>1, <1>2, <1>3, Zenon

-----------------------------------------------------------------------------
(* The inductive invariant of the RPC connection: the handle has one user, *)
(* a closed connection leaves nothing behind, and what is on the           *)
(* connection is what was given up and what is waited for.                 *)
THEOREM RpcInvariant == Spec => []RpcInv
<1>1. ASSUME RpcInv, Next PROVE RpcInv'
  <2>1. ASSUME NEW c \in Callers, StartCall(c) \/ ReadTimeout(c) \/ CallerStep(c)
        PROVE  RpcInv'
    <3>1. RpcTypeOK'
      BY <1>1, <2>1, CallerType, Zenon
    <3>2. CoreInv'
      BY <1>1, <2>1, QuietCaller, StatKeeps, ConnectKeeps, ConnectFailsKeeps,
         PackKeeps, DeliverKeeps, ReadTimeoutKeeps, Zenon DEF CallerStep
    <3> QED
      BY <3>1, <3>2, Zenon DEF RpcInv
  <2>2. ASSUME NEW k \in Conns, HandlerStep(k) \/ AcceptFails(k) \/ HandlerEnd(k)
        PROVE  RpcInv'
    <3>1. RpcTypeOK'
      BY <1>1, <2>2, HandlerType, Zenon
    <3>2. CoreInv'
      BY <1>1, <2>2, AcceptKeeps, HandlerReadKeeps, HandlerAnswerKeeps,
         HandlerEndKeeps, Zenon DEF HandlerStep
    <3> QED
      BY <3>1, <3>2, Zenon DEF RpcInv
  <2>3. ASSUME BecomeReady \/ ClientDies \/ ServerDies \/ CleanSocket \/ ServerStarts
        PROVE  RpcInv'
    <3>1. RpcTypeOK'
      BY <1>1, <2>3, ProcessType, Zenon DEF RpcInv
    <3>2. CASE BecomeReady \/ CleanSocket \/ ServerStarts
      <4>1. UNCHANGED <<ref, fd, cpc, calls, peer, c2s, s2c, late, held, hpc, hreq, timeouts>>
        BY <3>2, Zenon DEF BecomeReady, CleanSocket, ServerStarts, callVars, connVars, handVars
      <4> QED
        BY <1>1, <3>1, <4>1, QuietKeeps, Zenon DEF RpcInv
    <3>3. CASE ClientDies \/ ServerDies
      BY <1>1, <3>1, <3>3, ClientDiesKeeps, ServerDiesKeeps, Zenon DEF RpcInv
    <3> QED
      BY <2>3, <3>2, <3>3, Zenon
  <2> QED
    BY <1>1, <2>1, <2>2, <2>3, Zenon DEF Next
<1>2. ASSUME RpcInv, UNCHANGED vars PROVE RpcInv'
  <2>1. /\ UNCHANGED <<ref, fd, cpc, calls, peer, c2s, s2c, late, held, hpc, hreq, timeouts>>
        /\ UNCHANGED <<buflen, maxbuflen, sock, ready, deaths>>
    BY <1>2, Zenon DEF vars, callVars, connVars, handVars, srvVars
  <2>2. RpcTypeOK'
    BY <1>2, <2>1, Zenon DEF RpcInv, RpcTypeOK
  <2> QED
    BY <1>2, <2>1, <2>2, QuietKeeps, Zenon DEF RpcInv
<1> QED
  BY InitInv, <1>1, <1>2, PTL DEF Spec

(* Every variable of the RPC connection keeps its type.                    *)
THEOREM RpcTypeCorrect == Spec => []RpcTypeOK
<1>1. RpcInv => RpcTypeOK
  BY Zenon DEF RpcInv
<1> QED
  BY <1>1, RpcInvariant, PTL

INSTANCE FiniteSetTheorems

(* The cardinality of the smallest sets.                                   *)
LEMMA SmallSets == Cardinality({}) = 0 /\ \A x : Cardinality({x}) = 1
BY FS_EmptySet, FS_Singleton, Zenon

(* The answer esdm_rpc_client_read_handler() takes belongs to the request  *)
(* that waits for it as long as no request of the connection timed out,    *)
(* and each one that did leaves one message too many on the connection: at *)
(* any number of callers, connections, time-outs, and deaths of the client *)
(* or the server.                                                          *)
THEOREM AnswerOwnCorrect == Spec => []AnswerOwn
<1>1. ASSUME RpcInv PROVE AnswerOwn
  <2>1. ASSUME NEW c \in Callers, cpc[c] = "read", s2c[fd] # <<>>, late[fd] = 0
        PROVE  Head(s2c[fd]).call = Call(c)
    <3>1. fd \in Conns /\ \A i \in DOMAIN s2c[fd] : s2c[fd][i].call = Call(c)
      BY <1>1, <2>1, Zenon DEF RpcInv, CoreInv, HandleInv, OwnInv
    <3>2. s2c[fd] \in Seq(Answers)
      BY <1>1, <3>1, Shapes, Zenon DEF RpcInv
    <3> QED
      BY <2>1, <3>1, <3>2, TailFacts
  <2>2. Cardinality({c \in Callers : cpc[c] = "read"}) = Reading
    <3>1. CASE \E c \in Callers : cpc[c] = "read"
      <4>1. PICK c \in Callers : cpc[c] = "read"
        BY <3>1, Zenon
      <4>2. {x \in Callers : cpc[x] = "read"} = {c}
        BY <1>1, <4>1, OneUser, Zenon DEF RpcInv, CoreInv, Within
      <4> QED
        BY <3>1, <4>2, SmallSets, Zenon DEF Reading
    <3>2. CASE ~ \E c \in Callers : cpc[c] = "read"
      <4>1. {x \in Callers : cpc[x] = "read"} = {}
        BY <3>2, Zenon
      <4> QED
        BY <3>2, <4>1, SmallSets, Zenon DEF Reading
    <3> QED
      BY <3>1, <3>2, Zenon
  <2>3. fd \in Conns /\ peer[fd] \in {"backlog", "open"} =>
          Len(c2s[fd]) + Len(s2c[fd]) + (IF hpc[fd] = "exec" THEN 1 ELSE 0)
            = late[fd] + Cardinality({c \in Callers : cpc[c] = "read"})
    BY <1>1, <2>2, Zenon DEF RpcInv, CoreInv, CountInv, Asked, Answered, Worked
  <2> QED
    BY <2>1, <2>3, Zenon DEF AnswerOwn
<1> QED
  BY <1>1, RpcInvariant, PTL

-----------------------------------------------------------------------------
(* The handles of the client library                                       *)

(* The threads are finitely many, and "nobody" is none of them.            *)
ServiceHypotheses == IsFiniteSet(Users) /\ NoUser \notin Users

(* A thread has an array of handles to itself.                             *)
Owner(u) == upc[u] \in {"publish", "wait"}

(* What a pointer may show.                                                *)
Memory == Arrays \cup {Null}

(* The types.                                                              *)
ServiceTypeOK ==
    /\ conn \in Memory /\ live \in SUBSET Arrays
    /\ DOMAIN refcnt = Arrays /\ DOMAIN upc = Users /\ DOMAIN cnt = Users
    /\ arr \in [Users -> Memory]

(* An allocated array is either published or has one owner.                *)
OneOwner ==
    /\ conn # Null => conn \in live
    /\ \A u \in Users : Owner(u) => arr[u] \in live /\ arr[u] # conn
    /\ \A u, v \in Users : Owner(u) /\ Owner(v) /\ arr[u] = arr[v] => u = v
    /\ \A a \in live : a = conn \/ \E u \in Users : Owner(u) /\ arr[u] = a
    /\ \A u, v \in Users : upc[u] = "publish" /\ v # u => arr[v] # arr[u]

(* The handle of a call is allocated and locked.                           *)
InUse == \A u \in Users : upc[u] = "use" => arr[u] \in live /\ refcnt[arr[u]] = u

(* Who waits for handles has some to wait for.                             *)
Waited == \A u \in Users : upc[u] = "wait" => cnt[u] > 0

(* All of it, and that nothing was freed twice.                            *)
Orderly == ServiceTypeOK /\ OneOwner /\ InUse /\ Waited /\ ~twice

(* The inductive invariant of the handles: a pointer that was read without *)
(* its count, or a wait that was given up, voids it.                       *)
ServiceInv == torn \/ overdue \/ Orderly

(* There is always an array to be allocated.                               *)
LEMMA FreshArray ==
    ASSUME ServiceHypotheses, ServiceTypeOK, OneOwner
    PROVE  Fresh \in Arrays /\ Fresh \notin live /\ Fresh # conn /\ \A u \in Users : arr[u] # Fresh
<1> DEFINE R == {arr[u] : u \in Users}
           n == Cardinality(Users)
<1>1. n \in Nat BY FS_CardinalityType, Zenon DEF ServiceHypotheses
<1>2. arr \in Surjection(Users, R) BY Zenon DEF Surjection, ServiceTypeOK
<1>3. IsFiniteSet(R) /\ Cardinality(R) <= n /\ Cardinality(R) \in Nat
  <2> HIDE DEF R
  <2>1. IsFiniteSet(Users) BY Zenon DEF ServiceHypotheses
  <2>2. IsFiniteSet(R) /\ Cardinality(R) <= Cardinality(Users) BY <1>2, <2>1, FS_Surjection, Zenon
  <2> QED BY <2>2, FS_CardinalityType, Zenon
<1>4. /\ IsFiniteSet(R \cup {conn}) /\ Cardinality(R \cup {conn}) \in Nat
      /\ Cardinality(R \cup {conn}) <= n + 1
  <2>1. IsFiniteSet(R \cup {conn}) BY <1>3, FS_AddElement, Zenon
  <2>2. Cardinality(R \cup {conn}) = IF conn \in R THEN Cardinality(R) ELSE Cardinality(R) + 1
    BY <1>3, FS_AddElement, Zenon
  <2> HIDE DEF R, n
  <2> QED BY <1>1, <1>3, <2>1, <2>2
<1>5. Cardinality(Arrays) = n + 2
  <2> HIDE DEF n
  <2>1. 1 \in Int /\ n + 2 \in Int BY <1>1
  <2>2. Cardinality(1..(n + 2)) = IF 1 > n + 2 THEN 0 ELSE (n + 2) - 1 + 1 BY <2>1, FS_Interval, Zenon
  <2>3. Arrays = 1..(n + 2) BY Zenon DEF Arrays, n
  <2> QED BY <1>1, <2>2, <2>3
<1>6. ~(Arrays \subseteq R \cup {conn})
  <2>1. SUFFICES ASSUME Arrays \in SUBSET (R \cup {conn}) PROVE FALSE BY Zenon
  <2>2. Cardinality(Arrays) <= Cardinality(R \cup {conn}) BY <1>4, <2>1, FS_Subset, Zenon
  <2> HIDE DEF R, n
  <2> QED BY <1>1, <1>4, <1>5, <2>2
<1>7. live \subseteq R \cup {conn} BY Zenon DEF OneOwner
<1>8. \E a \in Arrays : a \notin live \cup {conn} \cup {arr[u] : u \in Users}
  BY <1>6, <1>7, Zenon
<1>9. Fresh \in Arrays /\ Fresh \notin live \cup {conn} \cup {arr[u] : u \in Users}
  <2> DEFINE P(a) == a \in Arrays /\ a \notin live \cup {conn} \cup {arr[u] : u \in Users}
  <2>1. \E a : P(a) BY <1>8, Zenon
  <2>2. P(CHOOSE a : P(a)) BY <2>1, Zenon
  <2>3. Fresh = CHOOSE a : P(a) BY Zenon DEF Fresh
  <2> QED BY <2>2, <2>3, Zenon
<1> QED BY <1>9, Zenon

(* A step of a thread that owns no array before or after it and does not   *)
(* enter a call.                                                           *)
LEMMA AsideKept ==
    ASSUME Orderly, NEW u \in Users, NEW l, NEW a,
           upc' = [upc EXCEPT ![u] = l], arr' = [arr EXCEPT ![u] = a],
           a \in {arr[u], conn, Null},
           ~Owner(u), l \notin {"publish", "wait", "use"},
           UNCHANGED <<conn, live, twice>>,
           DOMAIN refcnt' = Arrays, DOMAIN cnt' = Users,
           \A v \in Users : v # u => cnt'[v] = cnt[v],
           \A v \in Users : v # u /\ upc[v] = "use" => refcnt'[arr[v]] = refcnt[arr[v]]
    PROVE  Orderly'
<1> USE DEF Orderly
<1>1. /\ \A v \in Users : upc'[v] = IF v = u THEN l ELSE upc[v]
      /\ \A v \in Users : arr'[v] = IF v = u THEN a ELSE arr[v]
  BY Zenon DEF ServiceTypeOK
<1>2. Null \in Memory BY Zenon DEF Memory
<1>3. ServiceTypeOK' BY <1>2, Zenon DEF ServiceTypeOK
<1>4. \A v \in Users : Owner(v)' <=> Owner(v) /\ v # u BY <1>1 DEF Owner
<1>n. \A b \in live : b # Null BY DEF ServiceTypeOK, Arrays, Null
<1>5. OneOwner'
  <2>1. conn' # Null => conn' \in live' BY Zenon DEF OneOwner
  <2>2. \A v \in Users : Owner(v)' => arr'[v] \in live' /\ arr'[v] # conn' BY <1>1, <1>4 DEF OneOwner
  <2>3. \A v, w \in Users : Owner(v)' /\ Owner(w)' /\ arr'[v] = arr'[w] => v = w
    BY <1>1, <1>4 DEF OneOwner
  <2>4. \A b \in live' : b = conn' \/ \E v \in Users : Owner(v)' /\ arr'[v] = b
    <3> SUFFICES ASSUME NEW b \in live, b # conn PROVE \E v \in Users : Owner(v)' /\ arr'[v] = b
      BY Zenon
    <3>1. PICK v \in Users : Owner(v) /\ arr[v] = b BY Zenon DEF OneOwner
    <3> QED BY <1>1, <1>4, <3>1, Zenon
  <2>5. ASSUME NEW v \in Users, NEW w \in Users, upc'[v] = "publish", w # v PROVE arr'[w] # arr'[v]
    <3>1. v # u /\ upc[v] = "publish" /\ arr'[v] = arr[v] BY <1>1, <2>5
    <3>2. Owner(v) BY <3>1, Zenon DEF Owner
    <3>3. arr[v] \in live /\ arr[v] # conn /\ arr[v] # Null BY <3>2, <1>n, Zenon DEF OneOwner
    <3>4. arr[w] # arr[v] /\ (w = u => arr[u] # arr[v]) BY <2>5, <3>1, Zenon DEF OneOwner
    <3> QED BY <1>1, <3>1, <3>3, <3>4, Zenon
  <2> QED BY <2>1, <2>2, <2>3, <2>4, <2>5, Zenon DEF OneOwner
<1>6. InUse' BY <1>1 DEF InUse
<1>7. Waited' BY <1>1 DEF Waited
<1> QED BY <1>3, <1>5, <1>6, <1>7, Zenon

(* What the changes of place and array come to.                            *)
LEMMA UserMoved ==
    ASSUME Orderly, NEW u \in Users, NEW l, NEW a, UGoto(u, l), Point(u, a)
    PROVE  \A v \in Users : /\ upc'[v] = IF v = u THEN l ELSE upc[v]
                            /\ arr'[v] = IF v = u THEN a ELSE arr[v]
BY Zenon DEF UGoto, Point, Orderly, ServiceTypeOK

(* esdm_rpcc_init_service() allocates an array                             *)
LEMMA AllocKept ==
    ASSUME ServiceHypotheses, Orderly, NEW u \in Users, InitAlloc(u)
    PROVE  Orderly'
<1> USE DEF Orderly
<1>1. CASE UGoto(u, "failed") /\ UNCHANGED <<arr, live, term, refcnt>>
  <2>1. arr' = [arr EXCEPT ![u] = arr[u]] BY <1>1, Zenon DEF ServiceTypeOK
  <2> QED BY <1>1, <2>1, AsideKept, Zenon DEF InitAlloc, UGoto, Owner, ServiceTypeOK
<1>2. CASE /\ Point(u, Fresh) /\ live' = live \cup {Fresh}
           /\ refcnt' = [refcnt EXCEPT ![Fresh] = NoUser] /\ UGoto(u, "publish")
  <2>1. /\ Fresh \in Arrays /\ Fresh \notin live /\ Fresh # conn
        /\ \A v \in Users : arr[v] # Fresh
    BY FreshArray, Zenon
  <2>2. \A v \in Users : /\ upc'[v] = IF v = u THEN "publish" ELSE upc[v]
                         /\ arr'[v] = IF v = u THEN Fresh ELSE arr[v]
    BY <1>2, UserMoved, Zenon
  <2>3. conn' = conn /\ twice' = twice /\ cnt' = cnt BY Zenon DEF InitAlloc
  <2> DEFINE f == Fresh
  <2>4. f \in Arrays /\ f \notin live /\ f # conn /\ \A v \in Users : arr[v] # f BY <2>1, Zenon
  <2>5. \A v \in Users : /\ upc'[v] = IF v = u THEN "publish" ELSE upc[v]
                         /\ arr'[v] = IF v = u THEN f ELSE arr[v]
    BY <2>2, Zenon
  <2>6. live' = live \cup {f} /\ refcnt' = [refcnt EXCEPT ![f] = NoUser] BY <1>2, Zenon
  <2>7. arr' = [arr EXCEPT ![u] = f] /\ upc' = [upc EXCEPT ![u] = "publish"] BY <1>2, Zenon DEF Point, UGoto
  <2>8. ~Owner(u) BY Zenon DEF InitAlloc, Owner
  <2> HIDE DEF f
  <2>9. \A v \in Users : Owner(v)' <=> Owner(v) \/ v = u BY <2>5, Zenon DEF Owner
  <2>10. ServiceTypeOK' BY <2>3, <2>4, <2>6, <2>7, Zenon DEF ServiceTypeOK, Memory
  <2>11. OneOwner'
    <3>1. conn' # Null => conn' \in live' BY <2>3, <2>6, Zenon DEF OneOwner
    <3>2. \A v \in Users : Owner(v)' => arr'[v] \in live' /\ arr'[v] # conn'
      BY <2>3, <2>4, <2>5, <2>6, <2>9, Zenon DEF OneOwner
    <3>3. \A v, w \in Users : Owner(v)' /\ Owner(w)' /\ arr'[v] = arr'[w] => v = w
      BY <2>4, <2>5, <2>8, <2>9 DEF OneOwner
    <3>4. ASSUME NEW b \in live', b # conn' PROVE \E v \in Users : Owner(v)' /\ arr'[v] = b
      <4>1. CASE b = f BY <2>5, <2>9, <4>1, Zenon
      <4>2. CASE b # f
        <5>1. PICK v \in Users : Owner(v) /\ arr[v] = b BY <2>3, <2>6, <3>4, <4>2, Zenon DEF OneOwner
        <5>2. v # u BY <2>8, <5>1, Zenon
        <5> QED BY <2>5, <2>9, <5>1, <5>2, Zenon
      <4> QED BY <4>1, <4>2, Zenon
    <3>5. \A v, w \in Users : upc'[v] = "publish" /\ w # v => arr'[w] # arr'[v]
      BY <2>4, <2>5 DEF OneOwner
    <3> QED BY <3>1, <3>2, <3>3, <3>4, <3>5, Zenon DEF OneOwner
  <2>12. InUse' BY <2>4, <2>5, <2>6, Zenon DEF InUse, ServiceTypeOK
  <2>13. Waited' BY <2>3, <2>5, Zenon DEF Waited
  <2> QED BY <2>3, <2>10, <2>11, <2>12, <2>13, Zenon
<1> QED BY <1>1, <1>2, Zenon DEF InitAlloc

(* and publishes it, or frees it when another was faster.                  *)
LEMMA PublishKept ==
    ASSUME Orderly, NEW u \in Users, InitPublish(u)
    PROVE  Orderly'
<1> USE DEF Orderly
<1> DEFINE m == arr[u]
<1>1. upc[u] = "publish" /\ Owner(u) BY Zenon DEF InitPublish, Owner
<1>2. m \in live /\ m # conn /\ \A v \in Users : v # u => arr[v] # m BY <1>1, Zenon DEF OneOwner
<1>3. PICK l \in {"count", "failed"} : UGoto(u, l) BY Zenon DEF InitPublish
<1>4. \A v \in Users : /\ upc'[v] = IF v = u THEN l ELSE upc[v]
                       /\ arr'[v] = IF v = u THEN Null ELSE arr[v]
  BY <1>3, UserMoved DEF InitPublish
<1>5. refcnt' = refcnt /\ cnt' = cnt BY Zenon DEF InitPublish
<1>6. ~twice' BY <1>2, Zenon DEF InitPublish, Freed
<1>7. \/ conn = Null /\ conn' = m /\ live' = live
      \/ conn # Null /\ conn' = conn /\ live' = live \ {m}
  BY Zenon DEF InitPublish, Freed
<1>8. \A b \in live : b # Null BY DEF ServiceTypeOK, Arrays, Null
<1>9. upc' = [upc EXCEPT ![u] = l] /\ arr' = [arr EXCEPT ![u] = Null]
  BY <1>3, Zenon DEF UGoto, Point, InitPublish
<1> HIDE DEF m
<1>10. ServiceTypeOK' BY <1>2, <1>5, <1>7, <1>9, Zenon DEF ServiceTypeOK, Memory
<1>11. \A v \in Users : Owner(v)' <=> Owner(v) /\ v # u BY <1>3, <1>4, Zenon DEF Owner
<1>12. OneOwner'
  <2>1. conn' # Null => conn' \in live' BY <1>2, <1>7 DEF OneOwner
  <2>2. ASSUME NEW v \in Users, Owner(v)' PROVE arr'[v] \in live' /\ arr'[v] # conn'
    <3>1. Owner(v) /\ v # u BY <1>11, <2>2, Zenon
    <3>2. arr[v] \in live /\ arr[v] # conn /\ arr[v] # m BY <1>2, <3>1, Zenon DEF OneOwner
    <3> QED BY <1>4, <1>7, <3>1, <3>2, Zenon
  <2>3. \A v, w \in Users : Owner(v)' /\ Owner(w)' /\ arr'[v] = arr'[w] => v = w
    BY <1>4, <1>11, Zenon DEF OneOwner
  <2>4. ASSUME NEW b \in live', b # conn' PROVE \E v \in Users : Owner(v)' /\ arr'[v] = b
    <3>1. b \in live /\ b # conn /\ b # m BY <1>7, <1>8, <2>4
    <3>2. PICK v \in Users : Owner(v) /\ arr[v] = b BY <3>1, Zenon DEF OneOwner
    <3>3. v # u BY <3>1, <3>2, Zenon DEF m
    <3> QED BY <1>4, <1>11, <3>2, <3>3, Zenon
  <2>5. ASSUME NEW v \in Users, NEW w \in Users, upc'[v] = "publish", w # v PROVE arr'[w] # arr'[v]
    <3>1. v # u /\ upc[v] = "publish" BY <1>3, <1>4, <2>5, Zenon
    <3>2. arr[v] \in live /\ arr[w] # arr[v] BY <2>5, <3>1, Zenon DEF OneOwner, Owner
    <3> QED BY <1>4, <1>8, <3>1, <3>2, Zenon
  <2> QED BY <2>1, <2>2, <2>3, <2>4, <2>5, Zenon DEF OneOwner
<1>13. InUse' BY <1>2, <1>3, <1>4, <1>5, <1>7 DEF InUse
<1>14. Waited' BY <1>3, <1>4, <1>5, Zenon DEF Waited
<1> QED BY <1>6, <1>10, <1>12, <1>13, <1>14, Zenon

(* esdm_rpcc_get_service() locks a handle.                                 *)
LEMMA LockKept ==
    ASSUME ServiceHypotheses, Orderly, NEW u \in Users, GetLock(u)
    PROVE  Orderly'
<1> USE DEF Orderly
<1>1. ~Owner(u) /\ UNCHANGED <<conn, live, twice, cnt>> BY Zenon DEF GetLock, Owner
<1>2. ASSUME NEW l \in {"lost", "idle"}, UGoto(u, l), Point(u, Null), UNCHANGED refcnt PROVE Orderly'
  BY <1>1, <1>2, AsideKept, Zenon DEF UGoto, Point, ServiceTypeOK
<1>3. CASE /\ arr[u] \in live /\ refcnt[arr[u]] = NoUser /\ UGoto(u, "use")
           /\ refcnt' = [refcnt EXCEPT ![arr[u]] = u] /\ UNCHANGED arr
  <2>1. upc' = [upc EXCEPT ![u] = "use"] /\ \A v \in Users : upc'[v] = IF v = u THEN "use" ELSE upc[v]
    BY <1>3, Zenon DEF UGoto, ServiceTypeOK
  <2>2. ServiceTypeOK' BY <1>1, <1>3, <2>1, Zenon DEF ServiceTypeOK, Memory
  <2>3. \A v \in Users : Owner(v)' <=> Owner(v) BY <1>1, <2>1 DEF Owner
  <2>4. \A v \in Users : upc'[v] = "publish" => upc[v] = "publish" BY <2>1
  <2>5. OneOwner' BY <1>1, <1>3, <2>3, <2>4, Zenon DEF OneOwner
  <2>6. ASSUME NEW v \in Users, upc'[v] = "use" PROVE arr'[v] \in live' /\ refcnt'[arr'[v]] = v
    <3>1. CASE v = u BY <1>1, <1>3, <3>1, Zenon DEF ServiceTypeOK
    <3>2. CASE v # u
      <4>1. arr[v] \in live /\ refcnt[arr[v]] = v BY <2>1, <2>6, <3>2, Zenon DEF InUse
      <4>2. arr[v] # arr[u] BY <1>3, <4>1, Zenon DEF ServiceHypotheses
      <4> QED BY <1>1, <1>3, <4>1, <4>2, Zenon DEF ServiceTypeOK
    <3> QED BY <3>1, <3>2, Zenon
  <2>7. Waited' BY <1>1, <2>1 DEF Waited
  <2> QED BY <1>1, <2>2, <2>5, <2>6, <2>7, Zenon DEF InUse
<1> QED BY <1>2, <1>3, Zenon DEF GetLock

(* esdm_rpcc_fini_service() takes the array away                           *)
LEMMA SwapKept ==
    ASSUME Orderly, NEW u \in Users, FiniSwap(u), ~torn'
    PROVE  Orderly'
<1> USE DEF Orderly
<1>1. ~Owner(u) /\ conn' = Null /\ UNCHANGED <<live, refcnt, twice>> BY Zenon DEF FiniSwap, Owner
<1>2. CASE conn = Null
  <2>1. UGoto(u, "gone") /\ Point(u, conn) /\ cnt' = [cnt EXCEPT ![u] = 0] BY <1>2, Zenon DEF FiniSwap
  <2>2. DOMAIN cnt' = Users /\ \A v \in Users : v # u => cnt'[v] = cnt[v] BY <2>1, Zenon DEF ServiceTypeOK
  <2> QED BY <1>1, <1>2, <2>1, <2>2, AsideKept, Zenon DEF UGoto, Point, ServiceTypeOK
<1>3. CASE conn # Null
  <2>1. UGoto(u, "wait") /\ Point(u, conn) /\ cnt' = cnt /\ cnt[u] > 0 BY <1>3, Zenon DEF FiniSwap
  <2>2. \A v \in Users : /\ upc'[v] = IF v = u THEN "wait" ELSE upc[v]
                         /\ arr'[v] = IF v = u THEN conn ELSE arr[v]
    BY <2>1, UserMoved, Zenon
  <2>3. ServiceTypeOK' BY <1>1, <2>1, Zenon DEF ServiceTypeOK, Memory, UGoto, Point
  <2>4. \A v \in Users : Owner(v)' <=> Owner(v) \/ v = u BY <2>2, Zenon DEF Owner
  <2>5. conn \in live /\ \A b \in live : b # Null BY <1>3 DEF OneOwner, ServiceTypeOK, Arrays, Null
  <2>6. OneOwner'
    <3>1. \A v \in Users : Owner(v)' => arr'[v] \in live' /\ arr'[v] # conn'
      BY <1>1, <2>2, <2>4, <2>5, Zenon DEF OneOwner
    <3>2. \A v, w \in Users : Owner(v)' /\ Owner(w)' /\ arr'[v] = arr'[w] => v = w
      BY <1>1, <2>2, <2>4 DEF OneOwner
    <3>3. ASSUME NEW b \in live' PROVE \E v \in Users : Owner(v)' /\ arr'[v] = b
      <4>1. CASE b = conn BY <2>2, <2>4, <4>1, Zenon
      <4>2. CASE b # conn
        <5>1. PICK v \in Users : Owner(v) /\ arr[v] = b BY <1>1, <3>3, <4>2, Zenon DEF OneOwner
        <5> QED BY <1>1, <2>2, <2>4, <5>1, Zenon
      <4> QED BY <4>1, <4>2, Zenon
    <3>4. ASSUME NEW v \in Users, NEW w \in Users, upc'[v] = "publish", w # v PROVE arr'[w] # arr'[v]
      <4>1. v # u /\ upc[v] = "publish" BY <2>2, <3>4, Zenon
      <4>2. arr[v] # conn /\ arr[w] # arr[v] BY <3>4, <4>1, Zenon DEF OneOwner, Owner
      <4> QED BY <2>2, <4>1, <4>2, Zenon
    <3> QED BY <1>1, <3>1, <3>2, <3>3, <3>4, Zenon DEF OneOwner
  <2>7. InUse' BY <1>1, <2>2, Zenon DEF InUse
  <2>8. Waited' BY <2>1, <2>2, Zenon DEF Waited
  <2> QED BY <1>1, <2>3, <2>6, <2>7, <2>8, Zenon
<1> QED BY <1>2, <1>3, Zenon

(* and frees it when every handle was put.                                 *)
LEMMA WaitKept ==
    ASSUME ServiceHypotheses, Orderly, NEW u \in Users, FiniWait(u), ~overdue, ~overdue'
    PROVE  Orderly'
<1> USE DEF Orderly
<1> DEFINE m == arr[u]
<1>1. Owner(u) /\ upc[u] = "wait" BY Zenon DEF FiniWait, Owner
<1>2. cnt[u] > 0 /\ cnt[u] # 0 BY <1>1 DEF Waited
<1>3. refcnt[m] = NoUser BY <1>2, Zenon DEF FiniWait
<1>4. m \in live /\ m # conn BY <1>1, Zenon DEF OneOwner
<1>5. \A v \in Users : upc[v] = "use" => arr[v] # m BY <1>3, Zenon DEF InUse, ServiceHypotheses
<1>n. ~twice' BY <1>4, Zenon DEF FiniWait, Freed
<1>6. /\ conn' = conn /\ live' = live \ {m}
      /\ refcnt' = [refcnt EXCEPT ![m] = NoUser] /\ cnt' = [cnt EXCEPT ![u] = 0]
      /\ UGoto(u, "gone") /\ Point(u, Null)
  BY <1>4, Zenon DEF FiniWait, Freed, Ended
<1> HIDE DEF m
<1>7. \A v \in Users : /\ upc'[v] = IF v = u THEN "gone" ELSE upc[v]
                       /\ arr'[v] = IF v = u THEN Null ELSE arr[v]
  BY <1>6, UserMoved, Zenon
<1>8. ServiceTypeOK' BY <1>6, Zenon DEF ServiceTypeOK, Memory, UGoto, Point
<1>9. \A v \in Users : Owner(v)' <=> Owner(v) /\ v # u BY <1>7, Zenon DEF Owner
<1>10. \A b \in live : b # Null BY DEF ServiceTypeOK, Arrays, Null
<1>11. OneOwner'
  <2>1. conn' # Null => conn' \in live' BY <1>4, <1>6, Zenon DEF OneOwner
  <2>2. ASSUME NEW v \in Users, Owner(v)' PROVE arr'[v] \in live' /\ arr'[v] # conn'
    <3>1. Owner(v) /\ v # u BY <1>9, <2>2, Zenon
    <3>2. arr[v] # m BY <1>1, <3>1, Zenon DEF OneOwner, m
    <3> QED BY <1>6, <1>7, <3>1, <3>2, Zenon DEF OneOwner
  <2>3. \A v, w \in Users : Owner(v)' /\ Owner(w)' /\ arr'[v] = arr'[w] => v = w
    BY <1>7, <1>9, Zenon DEF OneOwner
  <2>4. ASSUME NEW b \in live', b # conn' PROVE \E v \in Users : Owner(v)' /\ arr'[v] = b
    <3>1. b \in live /\ b # conn /\ b # m BY <1>6, <2>4, Zenon
    <3>2. PICK v \in Users : Owner(v) /\ arr[v] = b BY <3>1, Zenon DEF OneOwner
    <3>3. v # u BY <3>1, <3>2, Zenon DEF m
    <3> QED BY <1>7, <1>9, <3>2, <3>3, Zenon
  <2>5. ASSUME NEW v \in Users, NEW w \in Users, upc'[v] = "publish", w # v PROVE arr'[w] # arr'[v]
    <3>1. v # u /\ upc[v] = "publish" BY <1>7, <2>5, Zenon
    <3>2. arr[v] \in live /\ arr[w] # arr[v] BY <2>5, <3>1, Zenon DEF OneOwner, Owner
    <3> QED BY <1>7, <1>10, <3>1, <3>2, Zenon
  <2> QED BY <2>1, <2>2, <2>3, <2>4, <2>5, Zenon DEF OneOwner
<1>12. InUse' BY <1>5, <1>6, <1>7, Zenon DEF InUse, ServiceTypeOK
<1>13. Waited' BY <1>6, <1>7, Zenon DEF Waited, ServiceTypeOK
<1> QED BY <1>n, <1>8, <1>11, <1>12, <1>13, Zenon

(* Every other step of a thread leaves the handles alone.                  *)
Aside == {"idle", "setup", "init", "there", "alloc", "count", "ready", "failed", "get", "lock",
           "lost", "fini", "swap", "gone", "ended"}

(* It keeps the invariant.                                                 *)
LEMMA QuietKept ==
    ASSUME Orderly, NEW u \in Users, upc[u] \in Aside, NEW l \in Aside, UGoto(u, l),
           UNCHANGED arr \/ Point(u, Null) \/ Point(u, conn),
           UNCHANGED <<conn, live, twice, refcnt>>,
           UNCHANGED cnt \/ \E n : cnt' = [cnt EXCEPT ![u] = n]
    PROVE  Orderly'
<1>1. PICK a \in {arr[u], conn, Null} : arr' = [arr EXCEPT ![u] = a]
  BY Zenon DEF Point, Orderly, ServiceTypeOK
<1>2. DOMAIN cnt' = Users /\ \A v \in Users : v # u => cnt'[v] = cnt[v]
  BY Zenon DEF Orderly, ServiceTypeOK
<1>3. ~Owner(u) /\ l \notin {"publish", "wait", "use"} BY Zenon DEF Owner, Aside
<1>4. DOMAIN refcnt' = Arrays BY Zenon DEF Orderly, ServiceTypeOK
<1>5. upc' = [upc EXCEPT ![u] = l] BY Zenon DEF UGoto
<1> QED BY <1>1, <1>2, <1>3, <1>4, <1>5, AsideKept, Zenon

(* esdm_rpcc_put_service().                                                *)
LEMMA PutKept ==
    ASSUME Orderly, NEW u \in Users, Put(u)
    PROVE  Orderly'
<1>1. refcnt[arr[u]] = u /\ arr[u] \in Arrays BY Zenon DEF Put, Orderly, InUse, ServiceTypeOK
<1>2. DOMAIN refcnt' = Arrays /\ \A a \in Arrays : a # arr[u] => refcnt'[a] = refcnt[a]
  BY Zenon DEF Put, Orderly, ServiceTypeOK
<1>3. ASSUME NEW v \in Users, v # u, upc[v] = "use" PROVE refcnt'[arr[v]] = refcnt[arr[v]]
  <2>1. refcnt[arr[v]] = v /\ arr[v] \in Arrays BY <1>3, Zenon DEF Orderly, InUse, ServiceTypeOK
  <2> QED BY <1>1, <1>2, <1>3, <2>1, Zenon
<1>4. ~Owner(u) /\ "idle" \notin {"publish", "wait", "use"} BY Zenon DEF Put, Owner
<1>5. /\ upc' = [upc EXCEPT ![u] = "idle"] /\ arr' = [arr EXCEPT ![u] = Null]
      /\ UNCHANGED <<conn, live, twice, cnt>>
  BY Zenon DEF Put, UGoto, Point
<1>6. DOMAIN cnt' = Users /\ Null \in {arr[u], conn, Null} BY <1>5, Zenon DEF Orderly, ServiceTypeOK
<1> QED BY <1>2, <1>3, <1>4, <1>5, <1>6, AsideKept, Zenon

(* The first reads of pointer and count.                                   *)
LEMMA CallKept ==
    ASSUME Orderly, NEW u \in Users, ~torn',
           InitRead(u) \/ InitThere(u) \/ InitCount(u) \/ GetRead(u) \/ FiniCount(u)
    PROVE  Orderly'
<1>1. CASE InitRead(u)
  <2>1. PICK l \in Aside : UGoto(u, l) BY <1>1, Zenon DEF InitRead, Aside
  <2> QED BY <1>1, <2>1, QuietKept, Zenon DEF InitRead, Aside, serviceVars
<1>2. CASE InitThere(u)
  <2>1. UGoto(u, "ready") /\ UNCHANGED <<live, twice>> BY <1>2, Zenon DEF InitThere
  <2> QED BY <1>2, <2>1, QuietKept, Zenon DEF InitThere, Aside
<1>3. CASE InitCount(u)
  BY <1>3, QuietKept, Zenon DEF InitCount, Aside
<1>4. CASE GetRead(u)
  <2>1. PICK l \in Aside : UGoto(u, l) BY <1>4, Zenon DEF GetRead, Aside
  <2> QED BY <1>4, <2>1, QuietKept, Zenon DEF GetRead, Aside, serviceVars
<1>5. CASE FiniCount(u)
  <2>1. \E n : cnt' = [cnt EXCEPT ![u] = n] BY <1>5, Zenon DEF FiniCount
  <2> QED BY <1>5, <2>1, QuietKept, Zenon DEF FiniCount, Aside
<1> QED BY <1>1, <1>2, <1>3, <1>4, <1>5, Zenon

(* The libraries that use the handles.                                     *)
LEMMA LibraryKept ==
    ASSUME Orderly, NEW u \in Users,
           \/ GetrandomCall(u) \/ esdm_getrandom_lib_init(u)
           \/ esdm_getrandom_lib_exit(u) \/ GetrandomGone(u)
           \/ OSSL_provider_init(u) \/ esdm_teardown(u)
           \/ ESDM_RNG(u) \/ ESDM_RNG_destructor(u) \/ LibraryCall(u)
    PROVE  Orderly'
<1>1. UNCHANGED serviceVars /\ UNCHANGED cnt
  BY Zenon DEF GetrandomCall, esdm_getrandom_lib_init, esdm_getrandom_lib_exit, GetrandomGone,
     OSSL_provider_init, esdm_teardown, ESDM_RNG, ESDM_RNG_destructor, LibraryCall
<1>2. UNCHANGED arr \/ Point(u, Null)
  BY Zenon DEF GetrandomCall, esdm_getrandom_lib_init, esdm_getrandom_lib_exit, GetrandomGone,
     OSSL_provider_init, esdm_teardown, ESDM_RNG, ESDM_RNG_destructor, LibraryCall
<1>3. upc[u] \in Aside /\ \E l \in Aside : UGoto(u, l)
  <2>1. CASE GetrandomCall(u) BY <2>1, Zenon DEF GetrandomCall, Aside
  <2>2. CASE esdm_getrandom_lib_init(u) BY <2>2, Zenon DEF esdm_getrandom_lib_init, Aside
  <2>3. CASE esdm_getrandom_lib_exit(u) BY <2>3, Zenon DEF esdm_getrandom_lib_exit, Aside
  <2>4. CASE GetrandomGone(u) BY <2>4, Zenon DEF GetrandomGone, Aside
  <2>5. CASE OSSL_provider_init(u) BY <2>5, Zenon DEF OSSL_provider_init, Aside
  <2>6. CASE esdm_teardown(u) BY <2>6, Zenon DEF esdm_teardown, Aside
  <2>7. CASE ESDM_RNG(u) BY <2>7, Zenon DEF ESDM_RNG, Aside
  <2>8. CASE ESDM_RNG_destructor(u) BY <2>8, Zenon DEF ESDM_RNG_destructor, Aside
  <2>9. CASE LibraryCall(u) BY <2>9, Zenon DEF LibraryCall, Aside
  <2> QED BY <2>1, <2>2, <2>3, <2>4, <2>5, <2>6, <2>7, <2>8, <2>9, Zenon
<1>4. PICK l \in Aside : UGoto(u, l) BY <1>3, Zenon
<1>5. UNCHANGED <<conn, live, twice, refcnt>> BY <1>1, Zenon DEF serviceVars
<1> QED BY <1>1, <1>2, <1>3, <1>4, <1>5, QuietKept, Zenon

(* ServiceInv holds at the start.                                          *)
LEMMA ServiceInitOK == ASSUME ServiceInit PROVE ServiceInv
<1>1. ServiceTypeOK BY Zenon DEF ServiceInit, ServiceTypeOK, Memory
<1>2. OneOwner BY Zenon DEF ServiceInit, OneOwner, Owner
<1>3. InUse /\ Waited /\ ~twice BY Zenon DEF ServiceInit, InUse, Waited
<1> QED BY <1>1, <1>2, <1>3, Zenon DEF ServiceInv, Orderly

(* Every step keeps ServiceInv.                                            *)
LEMMA ServiceStep ==
    ASSUME ServiceHypotheses, ServiceInv, [ServiceNext]_svcVars
    PROVE  ServiceInv'
<1>1. CASE UNCHANGED svcVars
  BY <1>1, Zenon DEF svcVars, serviceVars, ServiceInv, Orderly, ServiceTypeOK, OneOwner, InUse, Waited, Owner
<1>2. CASE ServiceNext
  <2>1. PICK u \in Users :
          \/ InitRead(u) \/ InitThere(u) \/ InitAlloc(u) \/ InitPublish(u)
          \/ InitCount(u) \/ GetRead(u) \/ GetLock(u) \/ Put(u)
          \/ FiniCount(u) \/ FiniSwap(u) \/ FiniWait(u)
          \/ GetrandomCall(u) \/ esdm_getrandom_lib_init(u)
          \/ esdm_getrandom_lib_exit(u) \/ GetrandomGone(u)
          \/ OSSL_provider_init(u) \/ esdm_teardown(u)
          \/ ESDM_RNG(u) \/ ESDM_RNG_destructor(u) \/ LibraryCall(u)
    BY <1>2, Zenon DEF ServiceNext
  <2>2. (torn => torn') /\ (overdue => overdue')
    <3>1. CASE InitThere(u) \/ InitAlloc(u) \/ InitPublish(u) \/ InitCount(u) \/ GetLock(u) \/ Put(u)
               \/ FiniCount(u) \/ FiniSwap(u) \/ FiniWait(u)
      <4>1. CASE InitThere(u) BY <4>1, Zenon DEF InitThere
      <4>2. CASE InitAlloc(u) BY <4>2, Zenon DEF InitAlloc
      <4>3. CASE InitPublish(u) BY <4>3, Zenon DEF InitPublish
      <4>4. CASE InitCount(u) BY <4>4, Zenon DEF InitCount
      <4>5. CASE GetLock(u) BY <4>5, Zenon DEF GetLock
      <4>6. CASE Put(u) BY <4>6, Zenon DEF Put
      <4>7. CASE FiniCount(u) BY <4>7, Zenon DEF FiniCount
      <4>8. CASE FiniSwap(u) BY <4>8, Zenon DEF FiniSwap
      <4>9. CASE FiniWait(u)
        <5>1. torn' = torn /\ (overdue' = overdue \/ overdue' = TRUE)
          BY <4>9, Zenon DEF FiniWait
        <5> QED
          BY <5>1
      <4> QED
        BY <3>1, <4>1, <4>2, <4>3, <4>4, <4>5, <4>6, <4>7, <4>8, <4>9, Zenon
    <3>2. CASE UNCHANGED serviceVars BY <3>2, Zenon DEF serviceVars
    <3> QED BY <2>1, <3>1, <3>2, Zenon DEF InitRead, GetRead, GetrandomCall, esdm_getrandom_lib_init,
         esdm_getrandom_lib_exit, GetrandomGone, OSSL_provider_init, esdm_teardown, ESDM_RNG,
         ESDM_RNG_destructor, LibraryCall
  <2>3. ASSUME ~torn', ~overdue' PROVE Orderly'
    <3>1. Orderly /\ ~overdue BY <2>2, <2>3, Zenon DEF ServiceInv
    <3> QED BY <2>1, <2>3, <3>1, AllocKept, PublishKept, LockKept, PutKept, SwapKept, WaitKept,
            CallKept, LibraryKept, Zenon
  <2> QED BY <2>3, Zenon DEF ServiceInv
<1> QED BY <1>1, <1>2, Zenon

(* For any number of threads a handle in use is not freed underneath its   *)
(* user and no array of handles is freed twice, although every library of  *)
(* the process may end the service for all (esdm_rpcc_init_service(),      *)
(* esdm_rpcc_get_service(), esdm_rpcc_fini_service()), unless a call took  *)
(* more than a second or a thread saw the pointer without its count.       *)
THEOREM HandleKeptCorrect == ASSUME ServiceHypotheses PROVE ServiceSpec => []HandleKept
<1>1. ServiceInv => HandleKept BY Zenon DEF ServiceInv, Orderly, InUse, HandleKept
<1> QED BY <1>1, ServiceInitOK, ServiceStep, PTL DEF ServiceSpec
=============================================================================
