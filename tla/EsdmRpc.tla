------------------------------- MODULE EsdmRpc -------------------------------
(***************************************************************************)
(* One connection handle of the RPC client library, esdm_rpc_client.c, the *)
(* sockets it opens one after the other, and the connection handlers of    *)
(* the RPC server, esdm_rpc_server.c.  The threads of a client process     *)
(* share the handle; each of them asks for random data with the loop of    *)
(* esdm_rpc_get_random_bytes_full_c.c.                                     *)
(*                                                                         *)
(* A message is one datagram of a SOCK_SEQPACKET socket: header and body   *)
(* go out with one write, as ESDM_RPCC_BUF_WRITE has it.  A request is     *)
(* known by the call it belongs to only to this model: request_id is       *)
(* always 0 and the client never looks at it.                              *)
(***************************************************************************)
EXTENDS Integers, Sequences, FiniteSets

CONSTANTS
    Callers,            \* threads of the client process
    Lengths,            \* the amounts of data they ask for
    MAX_DATA,           \* ESDM_RPC_MAX_DATA
    SLOTS,              \* THREADING_MAX_THREADS: connection handlers
    MaxConns,           \* bound: connections one side still has open
    MaxCalls,           \* bound: calls of each caller
    MaxLate,            \* bound: how often the client times out
    MaxDeaths,          \* bound: how often the server or the client goes away
    None                \* no thread

ASSUME RpcAssumption ==
    /\ Lengths \subseteq Nat \ {0} /\ MAX_DATA \in Nat \ {0}
    /\ SLOTS \in Nat \ {0} /\ MaxConns \in Nat \ {0} /\ MaxLate \in Nat
    /\ MaxCalls \in Nat /\ MaxDeaths \in Nat /\ None \notin Callers

Conns == 1..MaxConns
NoFd == 0                       \* rpc_conn->fd is -1
Raw == MaxConns + 1             \* a socket that connect() failed for

VARIABLES
    ref,                \* owner of rpc_conn->ref_cnt
    fd,                 \* rpc_conn->fd
    cpc,                \* where a caller is
    buflen,             \* what it still has to get
    maxbuflen,          \* what it asks for at most
    calls,              \* calls it has made
    peer,               \* the server's end: free, backlog, open, closed
    c2s, s2c,           \* the datagrams under way on a connection
    held,               \* sockets the client has not closed
    hpc,                \* where the handler of a connection is
    hreq,               \* the request it works on
    late,               \* history: requests of a connection the client gave up
    timeouts,           \* how often the client timed out
    sock,               \* the server's socket file: live, stale or absent
    ready,              \* the ESDM delivers, it does not answer -EAGAIN
    deaths              \* how often the server or the client went away

callVars == <<cpc, buflen, maxbuflen, calls>>
connVars == <<peer, c2s, s2c, late>>
handVars == <<hpc, hreq>>
srvVars == <<sock, ready, deaths, timeouts>>
vars == <<ref, fd, callVars, connVars, held, handVars, srvVars>>

Call(c) == <<c, calls[c]>>
AllCalls == Callers \X (0..MaxCalls)
NoReq == [call |-> None, len |-> 0]
MinOf(a, b) == IF a <= b THEN a ELSE b

(* esdm_rpcc_init_service(); the server is listening.                      *)
Init ==
    /\ ref = None
    /\ fd = NoFd
    /\ cpc = [c \in Callers |-> "idle"]
    /\ buflen = [c \in Callers |-> 0]
    /\ maxbuflen = [c \in Callers |-> 0]
    /\ calls = [c \in Callers |-> 0]
    /\ peer = [k \in Conns |-> "free"]
    /\ c2s = [k \in Conns |-> <<>>]
    /\ s2c = [k \in Conns |-> <<>>]
    /\ late = [k \in Conns |-> 0]
    /\ held = {}
    /\ hpc = [k \in Conns |-> "none"]
    /\ hreq = [k \in Conns |-> NoReq]
    /\ sock = "live"
    /\ ready \in BOOLEAN
    /\ deaths = 0
    /\ timeouts = 0

Goto(c, place) == cpc' = [cpc EXCEPT ![c] = place]

-----------------------------------------------------------------------------
(* The client: esdm_rpcc_get_random_bytes_full_int() and below             *)

(* The call starts; get_service() follows.                                 *)
StartCall(c) ==
    /\ cpc[c] = "idle" /\ calls[c] < MaxCalls
    /\ Goto(c, "get")
    /\ calls' = [calls EXCEPT ![c] = @ + 1]
    /\ \E n \in Lengths : /\ buflen' = [buflen EXCEPT ![c] = n]
                          /\ maxbuflen' = [maxbuflen EXCEPT ![c] = n]
    /\ UNCHANGED <<ref, fd, connVars, held, handVars, srvVars>>

(* esdm_rpcc_get_service(): the handle has one caller at a time.           *)
GetService(c) ==
    /\ cpc[c] = "get" /\ ref = None
    /\ ref' = c
    /\ Goto(c, "invoke")
    /\ UNCHANGED <<fd, buflen, maxbuflen, calls, connVars, held, handVars,
                   srvVars>>

(* The call returns, and put_service() lets the next caller in.            *)
Return(c) ==
    /\ cpc[c] = "put"
    /\ ref' = None
    /\ Goto(c, "idle")
    /\ buflen' = [buflen EXCEPT ![c] = 0]
    /\ maxbuflen' = [maxbuflen EXCEPT ![c] = 0]
    /\ UNCHANGED <<fd, calls, connVars, held, handVars, srvVars>>

(* esdm_client_invoke(): connect unless there is a descriptor.             *)
Invoke(c) ==
    /\ cpc[c] = "invoke"
    /\ Goto(c, IF fd = NoFd THEN "stat" ELSE "pack")
    /\ UNCHANGED <<ref, fd, buflen, maxbuflen, calls, connVars, held, handVars,
                   srvVars>>

(* close(): a connection both sides have closed is gone.                   *)
Gone(k) ==
    /\ peer' = [peer EXCEPT ![k] = "free"]
    /\ c2s' = [c2s EXCEPT ![k] = <<>>]
    /\ s2c' = [s2c EXCEPT ![k] = <<>>]
    /\ late' = [late EXCEPT ![k] = 0]

CloseFd ==
    /\ held' = held \ {fd}
    /\ IF fd \in Conns /\ peer[fd] = "closed"
         THEN Gone(fd) ELSE UNCHANGED connVars

(* esdm_connect_proto_service(): the old descriptor is closed; without a   *)
(* socket file there is no new one.                                        *)
Stat(c) ==
    /\ cpc[c] = "stat"
    /\ CloseFd
    /\ fd' = NoFd
    /\ Goto(c, IF sock = "absent" THEN "put" ELSE "connect")
    /\ UNCHANGED <<ref, buflen, maxbuflen, calls, handVars, srvVars>>

Connect(c) ==
    /\ cpc[c] = "connect" /\ sock = "live"
    /\ \E k \in Conns :
          /\ peer[k] = "free"
          /\ \A j \in Conns : peer[j] = "free" => k <= j
          /\ peer' = [peer EXCEPT ![k] = "backlog"]
          /\ fd' = k
          /\ held' = held \cup {k}
    /\ Goto(c, "pack")
    /\ UNCHANGED <<ref, buflen, maxbuflen, calls, c2s, s2c, late, handVars,
                   srvVars>>

(* The attempts are used up, or the socket file is gone meanwhile: the     *)
(* error is returned, the new socket stays in rpc_conn->fd.                *)
ConnectFails(c) ==
    /\ cpc[c] = "connect" /\ sock # "live"
    /\ fd' = Raw
    /\ Goto(c, "put")
    /\ UNCHANGED <<ref, buflen, maxbuflen, calls, connVars, held, handVars,
                   srvVars>>

(* Bug variant of Pack: the loop over short writes sends it once more.     *)
BugPackTwice(c) ==
    /\ cpc[c] = "pack" /\ fd \in Conns /\ peer[fd] # "closed"
    /\ LET request == [call |-> Call(c), len |-> MinOf(maxbuflen[c], buflen[c])]
       IN  c2s' = [c2s EXCEPT ![fd] = @ \o <<request, request>>]
    /\ Goto(c, "read")
    /\ UNCHANGED <<ref, fd, buflen, maxbuflen, calls, peer, s2c, late, held,
                   handVars, srvVars>>

(* esdm_rpc_client_write_data_fd(): the request is sent.                   *)
Pack(c) ==
    /\ cpc[c] = "pack" /\ fd \in Conns /\ peer[fd] # "closed"
    /\ c2s' = [c2s EXCEPT ![fd] =
                 Append(@, [call |-> Call(c),
                            len |-> MinOf(maxbuflen[c], buflen[c])])]
    /\ Goto(c, "read")
    /\ UNCHANGED <<ref, fd, buflen, maxbuflen, calls, peer, s2c, late, held,
                   handVars, srvVars>>

(* Bug variant of PackPipe: the write is repeated without a new connection.*)
BugPackPipeRetry(c) ==
    /\ cpc[c] = "pack" /\ fd \in Conns /\ peer[fd] = "closed"
    /\ Goto(c, "pack")
    /\ UNCHANGED <<ref, fd, buflen, maxbuflen, calls, connVars, held, handVars,
                   srvVars>>

(* EPIPE: the server has closed its end, a new connection is needed.       *)
PackPipe(c) ==
    /\ cpc[c] = "pack" /\ fd \in Conns /\ peer[fd] = "closed"
    /\ Goto(c, "stat")
    /\ UNCHANGED <<ref, fd, buflen, maxbuflen, calls, connVars, held, handVars,
                   srvVars>>

(* ENOTCONN, on a socket connect() failed for: the error is returned.      *)
PackRaw(c) ==
    /\ cpc[c] = "pack" /\ fd = Raw
    /\ Goto(c, "put")
    /\ UNCHANGED <<ref, fd, buflen, maxbuflen, calls, connVars, held, handVars,
                   srvVars>>

(* esdm_rpcc_get_random_bytes_full_cb(): how much of an answer is copied.  *)
Taken(answer, left) == MinOf(answer.len, left)

(* esdm_rpc_client_read_handler(): whatever answer comes next is taken,    *)
(* and the caller's loop goes on.                                          *)
Deliver(c) ==
    /\ cpc[c] = "read" /\ s2c[fd] # <<>>
    /\ s2c' = [s2c EXCEPT ![fd] = Tail(@)]
    /\ LET answer == Head(s2c[fd])
           left == buflen[c] - Taken(answer, buflen[c])
       IN  IF answer.kind = "data"
             THEN /\ buflen' = [buflen EXCEPT ![c] = left]
                  /\ Goto(c, IF left = 0 THEN "put" ELSE "invoke")
                  /\ UNCHANGED maxbuflen
             ELSE /\ maxbuflen' = IF answer.kind = "toolong"
                                     THEN [maxbuflen EXCEPT ![c] = MAX_DATA]
                                     ELSE maxbuflen
                  /\ Goto(c, "invoke")
                  /\ UNCHANGED buflen
    /\ UNCHANGED <<ref, fd, calls, peer, c2s, late, held, handVars, srvVars>>

(* EOF, or ECONNRESET when the server left a request unread: the call      *)
(* fails with -EINTR and the descriptor is kept.                           *)
ReadEnd(c) ==
    /\ cpc[c] = "read" /\ peer[fd] = "closed"
    /\ s2c[fd] = <<>> \/ c2s[fd] # <<>>
    /\ Goto(c, "put")
    /\ UNCHANGED <<ref, fd, buflen, maxbuflen, calls, connVars, held, handVars,
                   srvVars>>

(* SO_RCVTIMEO expires: the request is sent again on the same connection,  *)
(* or the interrupt function ends the call.                                *)
ReadTimeout(c) ==
    /\ cpc[c] = "read" /\ peer[fd] # "closed" /\ s2c[fd] = <<>>
    /\ timeouts < MaxLate
    /\ timeouts' = timeouts + 1
    /\ late' = [late EXCEPT ![fd] = @ + 1]
    /\ \E place \in {"invoke", "put"} : Goto(c, place)
    /\ UNCHANGED <<ref, fd, buflen, maxbuflen, calls, peer, c2s, s2c, held,
                   handVars, sock, ready, deaths>>

-----------------------------------------------------------------------------
(* The client process ends anywhere in its calls, and a new one starts     *)

ClientDies ==
    /\ held # {} /\ deaths < MaxDeaths
    /\ deaths' = deaths + 1
    /\ ref' = None
    /\ CloseFd
    /\ fd' = NoFd
    /\ cpc' = [c \in Callers |-> "idle"]
    /\ buflen' = [c \in Callers |-> 0]
    /\ maxbuflen' = [c \in Callers |-> 0]
    /\ UNCHANGED <<calls, handVars, sock, ready, timeouts>>

-----------------------------------------------------------------------------
(* The server: esdm_rpcs_workerloop(), esdm_rpcs_handler() and below       *)

(* accept(), and thread_start() when a thread is free for the connection.  *)
Accept(k) ==
    /\ peer[k] = "backlog"
    /\ Cardinality({j \in Conns : hpc[j] # "none"}) < SLOTS
    /\ peer' = [peer EXCEPT ![k] = "open"]
    /\ hpc' = [hpc EXCEPT ![k] = "read"]
    /\ UNCHANGED <<ref, fd, callVars, c2s, s2c, late, held, hreq, srvVars>>

(* esdm_rpcs_read() has a request for esdm_rpcs_unpack().                  *)
HandlerRead(k) ==
    /\ hpc[k] = "read" /\ c2s[k] # <<>>
    /\ hreq' = [hreq EXCEPT ![k] = Head(c2s[k])]
    /\ c2s' = [c2s EXCEPT ![k] = Tail(@)]
    /\ hpc' = [hpc EXCEPT ![k] = "exec"]
    /\ UNCHANGED <<ref, fd, callVars, peer, s2c, late, held, srvVars>>

(* esdm_rpcs_release_conn(): the server closes its end.                    *)
HandlerClose(k) ==
    /\ IF k \in held
         THEN peer' = [peer EXCEPT ![k] = "closed"] /\ UNCHANGED <<c2s, s2c, late>>
         ELSE Gone(k)
    /\ hpc' = [hpc EXCEPT ![k] = "none"]
    /\ hreq' = [hreq EXCEPT ![k] = NoReq]

(* setsockopt() or thread_start() fails for an accepted connection.        *)
AcceptFails(k) ==
    /\ peer[k] = "backlog"
    /\ HandlerClose(k)
    /\ UNCHANGED <<ref, fd, callVars, held, srvVars>>

(* Nothing comes for two seconds, or the client has closed its end: EOF,   *)
(* or ECONNRESET when it left an answer unread.                            *)
HandlerEnd(k) ==
    /\ hpc[k] = "read"
    /\ c2s[k] = <<>> \/ (k \notin held /\ s2c[k] # <<>>)
    /\ HandlerClose(k)
    /\ UNCHANGED <<ref, fd, callVars, held, srvVars>>

(* esdm_rpc_get_random_bytes_full() of the server: too long a request gets *)
(* the negated limit, an ESDM that is not operational says -EAGAIN.        *)
AnswerTo(req) ==
    [call |-> req.call, len |-> req.len,
     kind |-> IF req.len > MAX_DATA THEN "toolong"
              ELSE IF ready THEN "data" ELSE "again"]

(* The request has been worked on and the answer is sent.                  *)
HandlerAnswer(k) ==
    /\ hpc[k] = "exec" /\ k \in held
    /\ s2c' = [s2c EXCEPT ![k] = Append(@, AnswerTo(hreq[k]))]
    /\ hpc' = [hpc EXCEPT ![k] = "read"]
    /\ hreq' = [hreq EXCEPT ![k] = NoReq]
    /\ UNCHANGED <<ref, fd, callVars, peer, c2s, late, held, srvVars>>

(* EPIPE: nobody reads the answer.                                         *)
HandlerPipe(k) ==
    /\ hpc[k] = "exec" /\ k \notin held
    /\ HandlerClose(k)
    /\ UNCHANGED <<ref, fd, callVars, held, srvVars>>

(* The ESDM becomes operational.                                           *)
BecomeReady ==
    /\ ~ready
    /\ ready' = TRUE
    /\ UNCHANGED <<ref, fd, callVars, connVars, held, handVars, sock, deaths,
                   timeouts>>

(* The server process ends: its sockets are closed, its socket file stays. *)
ServerDies ==
    /\ sock = "live" /\ deaths < MaxDeaths
    /\ sock' = "stale"
    /\ deaths' = deaths + 1
    /\ peer' = [k \in Conns |-> IF peer[k] = "free" THEN "free"
                                ELSE IF k \in held THEN "closed" ELSE "free"]
    /\ c2s' = [k \in Conns |-> IF k \in held THEN c2s[k] ELSE <<>>]
    /\ s2c' = [k \in Conns |-> IF k \in held THEN s2c[k] ELSE <<>>]
    /\ late' = [k \in Conns |-> IF k \in held THEN late[k] ELSE 0]
    /\ hpc' = [k \in Conns |-> "none"]
    /\ hreq' = [k \in Conns |-> NoReq]
    /\ UNCHANGED <<ref, fd, callVars, held, ready, timeouts>>

(* esdm_rpcs_cleanup() of the process that waits for the server.           *)
CleanSocket ==
    /\ sock = "stale"
    /\ sock' = "absent"
    /\ UNCHANGED <<ref, fd, callVars, connVars, held, handVars, ready, deaths,
                   timeouts>>

(* esdm_rpcs_start() of the next server, which removes a stale socket.     *)
ServerStarts ==
    /\ sock # "live"
    /\ sock' = "live"
    /\ ready' \in BOOLEAN
    /\ UNCHANGED <<ref, fd, callVars, connVars, held, handVars, deaths, timeouts>>

-----------------------------------------------------------------------------

CallerStep(c) ==
    \/ GetService(c) \/ Return(c) \/ Invoke(c) \/ Stat(c) \/ Connect(c)
    \/ ConnectFails(c) \/ Pack(c) \/ PackPipe(c) \/ PackRaw(c) \/ Deliver(c)
    \/ ReadEnd(c)

HandlerStep(k) ==
    Accept(k) \/ HandlerRead(k) \/ HandlerAnswer(k) \/ HandlerPipe(k)

Next ==
    \/ \E c \in Callers : StartCall(c) \/ ReadTimeout(c) \/ CallerStep(c)
    \/ \E k \in Conns : HandlerStep(k) \/ AcceptFails(k) \/ HandlerEnd(k)
    \/ BecomeReady \/ ClientDies \/ ServerDies \/ CleanSocket \/ ServerStarts

Spec == Init /\ [][Next]_vars

(* Fairness: the threads of the client and of the server run, a handler    *)
(* without requests times out, a caller blocked on the handle gets it when *)
(* it becomes free again and again, a request on a new connection is not   *)
(* beaten by the handler's two seconds for ever, and the ESDM becomes      *)
(* operational.                                                            *)
(* Nothing is assumed of a server that went away.                          *)
FairSpec ==
    /\ Spec
    /\ \A c \in Callers : /\ WF_vars(CallerStep(c))
                        /\ SF_vars(GetService(c)) /\ SF_vars(Pack(c))
    /\ \A k \in Conns : WF_vars(HandlerStep(k)) /\ WF_vars(HandlerEnd(k))
    /\ WF_vars(BecomeReady)

-----------------------------------------------------------------------------

Requests == [call : AllCalls, len : Nat]
Answers == [call : AllCalls, len : Nat, kind : {"data", "toolong", "again"}]

RpcTypeOK ==
    /\ ref \in Callers \cup {None}
    /\ fd \in Conns \cup {NoFd, Raw}
    /\ cpc \in [Callers -> {"idle", "get", "invoke", "stat", "connect", "pack",
                            "read", "put"}]
    /\ buflen \in [Callers -> Nat] /\ maxbuflen \in [Callers -> Nat]
    /\ calls \in [Callers -> 0..MaxCalls]
    /\ peer \in [Conns -> {"free", "backlog", "open", "closed"}]
    /\ c2s \in [Conns -> Seq(Requests)] /\ s2c \in [Conns -> Seq(Answers)]
    /\ held \subseteq Conns
    /\ late \in [Conns -> 0..MaxLate]
    /\ hpc \in [Conns -> {"none", "read", "exec"}]
    /\ hreq \in [Conns -> Requests \cup {NoReq}]
    /\ sock \in {"live", "stale", "absent"} /\ ready \in BOOLEAN
    /\ timeouts \in 0..MaxLate /\ deaths \in 0..MaxDeaths

(* The client takes the next answer for its own without looking at the     *)
(* method or the request ID: it is, across all reconnects, as long as no   *)
(* request on the connection timed out.  Each request that did leaves one  *)
(* answer too many on its connection for as long as that lives: what is    *)
(* under way, worked on or waiting to be read is the present request and   *)
(* those given up.                                                         *)
AnswerOwn ==
    /\ \A c \in Callers :
        cpc[c] = "read" /\ s2c[fd] # <<>> /\ late[fd] = 0 =>
            Head(s2c[fd]).call = Call(c)
    /\ fd \in Conns /\ peer[fd] \in {"backlog", "open"} =>
        Len(c2s[fd]) + Len(s2c[fd]) + (IF hpc[fd] = "exec" THEN 1 ELSE 0)
            = late[fd] + Cardinality({c \in Callers : cpc[c] = "read"})

(* Every call returns, with its data or an error, whenever the server goes *)
(* away, comes back or stays away.                                         *)
CallEnds ==
    \A c \in Callers : cpc[c] = "get" ~> cpc[c] = "idle"

(* "Connect to the server if we do not have a connection, otherwise reuse  *)
(* the session" (esdm_rpc_client.c): a request is only written to a socket *)
(* that has been connected.                                                *)
SessionReused == \A c \in Callers : cpc[c] = "pack" => fd # Raw
=============================================================================
