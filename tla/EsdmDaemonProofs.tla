-------------------------- MODULE EsdmDaemonProofs --------------------------
(***************************************************************************)
(* The proofs about the processes around the library. The CUSE daemon      *)
(* registers its pollers and misses no event (EsdmCuse), for any number of *)
(* slots, workers, pollers and threads of the server; the server           *)
(* (EsdmServer) starts and ends in order and does not feed itself; and     *)
(* server and clients share one segment through any number of restarts     *)
(* (EsdmShmSegment).                                                       *)
(***************************************************************************)
EXTENDS EsdmCuse, EsdmServer, EsdmShmSegment, WellFoundedInduction, TLAPS

-----------------------------------------------------------------------------
(* The pollers of the CUSE daemon                                          *)

(* The slots for pollers,                                                  *)
Entries == [fh : Fhs \cup {None}, ev : EventSets \cup {{}}, late : BOOLEAN]

(* what a worker registers                                                 *)
Requests == [fh : Fhs \cup {None}, ev : EventSets \cup {{}}]

(* and the places of a thread of the server.                               *)
ServerPlaces == {"out", "need", "test", "store", "oper", "operstore", "up", "post"}

(* The types of the CUSE daemon,                                           *)
PollTypeOK ==
    /\ polls \in [Slots -> Entries]
    /\ client \in [Fhs -> {"user", "sleeping"}]
    /\ wpc \in [Workers -> {"idle", "register"}]
    /\ req \in [Workers -> Requests]
    /\ \A w \in Workers : wpc[w] = "register" => req[w].fh \in Fhs

(* and of the status segment.                                              *)
RaiseTypeOK ==
    /\ sem \in [Sems -> Nat]
    /\ spc \in [Server -> ServerPlaces]
    /\ ups \in [Server -> Seq(Sems)]
    /\ \A t \in Server : spc[t] \in {"up", "post"} => ups[t] # <<>>

(* A thread of the server has yet to raise the semaphore of the daemon.    *)
Owes(t) == /\ spc[t] \in {"up", "post"}
           /\ \E k \in 1..Len(ups[t]) : ups[t][k] = CuseSem

(* The daemon will look at the slots again.                                *)
ToBeSeen == chk = "scan" \/ sem[CuseSem] > 0 \/ \E t \in Server : Owes(t)

(* An event somebody waits for will be seen, unless the slot was filled    *)
(* after the look.                                                         *)
EventsSeen ==
    \A i \in Slots : polls[i].late \/ polls[i].ev \cap PollMask = {} \/ ToBeSeen

(* A set of numbers has a least one.                                       *)
LEMMA LeastNatural ==
    ASSUME NEW S \in SUBSET Nat, S # {}
    PROVE  \E x \in S : \A y \in S : x <= y
<1> DEFINE R == OpToRel(<, Nat)
<1>1. IsWellFoundedOn(R, Nat)
    BY NatLessThanWellFounded, Zenon
<1>2. \A x, y \in Nat : x < y => <<x, y>> \in R
    BY Zenon DEF OpToRel
<1> HIDE DEF R
<1>3. PICK x \in S : \A y \in S : ~(<<y, x>> \in R)
    BY <1>1, WFMin, Zenon
<1>4. \A y \in S : ~(y < x)
    BY <1>2, <1>3, Zenon
<1>5. \A y \in S : x <= y
    BY <1>4
<1> QED
    BY <1>5, Zenon

(* esdm_cuse_poll() takes a slot that is free or has the same handle.      *)
LEMMA FirstUsable ==
    ASSUME MAX_PH \in Nat, NEW f, Usable(f) # {}
    PROVE  Min(Usable(f)) \in Slots /\ polls[Min(Usable(f))].fh \in {None, f}
<1>1. Usable(f) \in SUBSET Nat
    BY DEF Usable, Slots
<1>2. \E x \in Usable(f) : \A y \in Usable(f) : x <= y
    BY <1>1, LeastNatural, Zenon
<1>3. Min(Usable(f)) \in Usable(f)
    BY <1>2, Zenon DEF Min
<1> QED
    BY <1>3, Zenon DEF Usable

(* Every step keeps the types of the daemon,                               *)
LEMMA PollTypeStep ==
    ASSUME MAX_PH \in Nat, None \notin Fhs, PollTypeOK, [Next]_vars
    PROVE  PollTypeOK'
<1> USE DEF PollTypeOK
<1>q. Free \in Entries /\ NoReq \in Requests
    BY Zenon DEF Free, Entries, NoReq, Requests
<1>n. \A F : [f \in Fhs |-> IF f \in F /\ client[f] = "sleeping" THEN "user" ELSE client[f]]
                 \in [Fhs -> {"user", "sleeping"}]
    BY Zenon
<1>1. ASSUME NEW w \in Workers, NEW f \in Fhs, PollReply(w, f) PROVE PollTypeOK'
  <2>1. PICK ev \in EventSets :
          /\ req' = [req EXCEPT ![w] = [fh |-> f, ev |-> ev]]
          /\ client' = [client EXCEPT ![f] = IF PollMask \cap ev = {} THEN "sleeping" ELSE "user"]
    BY <1>1, Zenon DEF PollReply
  <2>2. wpc' = [wpc EXCEPT ![w] = "register"] /\ polls' = polls
    BY <1>1, Zenon DEF PollReply
  <2>3. [fh |-> f, ev |-> ev] \in Requests
    BY Zenon DEF Requests
  <2>4. req' \in [Workers -> Requests] /\ wpc' \in [Workers -> {"idle", "register"}]
    BY <2>1, <2>2, <2>3, Zenon
  <2>5. \A v \in Workers : wpc'[v] = "register" => req'[v].fh \in Fhs
    BY <2>1, <2>2, Zenon
  <2> QED
    BY <2>1, <2>2, <2>4, <2>5, Zenon
<1>2. ASSUME NEW w \in Workers, PollRegister(w) PROVE PollTypeOK'
  <2>1. [fh |-> req[w].fh, ev |-> req[w].ev, late |-> PollMask \cap req[w].ev # {}] \in Entries
    BY Zenon DEF Requests, Entries
  <2>2. PICK e \in Entries : polls' = [polls EXCEPT ![Min(Usable(req[w].fh))] = e]
    BY <1>2, <1>q, <2>1, Zenon DEF PollRegister
  <2>3. polls' \in [Slots -> Entries]
    BY <2>2, Zenon
  <2>4. client' \in [Fhs -> {"user", "sleeping"}]
    BY <1>2, <1>n, Zenon DEF PollRegister, Notify
  <2> QED
    BY <1>2, <1>q, <2>3, <2>4, Zenon DEF PollRegister, WorkerDone
<1>3. ASSUME NEW w \in Workers, PollBusy(w) PROVE PollTypeOK'
    BY <1>3, <1>q, Zenon DEF PollBusy, WorkerDone
<1>4. ASSUME NEW f \in Fhs, Interrupt(f) PROVE PollTypeOK'
    BY <1>4, Zenon DEF Interrupt
<1>5. ASSUME NEW f \in Fhs, Release(f) PROVE PollTypeOK'
    BY <1>5, <1>q, Zenon DEF Release
<1>6. CASE CheckerScan
  <2>1. \A i \in Slots : [polls[i] EXCEPT !.late = FALSE] \in Entries
    BY Zenon DEF Entries
  <2>2. polls' \in [Slots -> Entries]
    BY <1>6, <1>q, <2>1, Zenon DEF CheckerScan
  <2>3. client' \in [Fhs -> {"user", "sleeping"}]
    BY <1>6, <1>n, Zenon DEF CheckerScan, Notify
  <2> QED
    BY <1>6, <2>2, <2>3, Zenon DEF CheckerScan
<1>7. CASE CheckerDown
    BY <1>7, Zenon DEF CheckerDown
<1>8. CASE \E t \in Server : ServerCall(t) \/ ServerSuspend(t) \/ ServerStep(t)
    BY <1>8, Zenon DEF ServerCall, ServerSuspend, ServerStep, cuseVars
<1>9. CASE UNCHANGED vars
    BY <1>9, Zenon DEF vars, cuseVars
<1> QED
    BY <1>1, <1>2, <1>3, <1>4, <1>5, <1>6, <1>7, <1>8, <1>9, Zenon DEF Next

(* and that a sleeper is registered.                                       *)
LEMMA SleeperStep ==
    ASSUME MAX_PH \in Nat, None \notin Fhs, PollTypeOK, SleeperRegistered, [Next]_vars
    PROVE  SleeperRegistered'
<1> USE DEF PollTypeOK
<1>1. ASSUME NEW w \in Workers, NEW f \in Fhs, PollReply(w, f) PROVE SleeperRegistered'
  <2>1. PICK ev \in EventSets :
          /\ req' = [req EXCEPT ![w] = [fh |-> f, ev |-> ev]]
          /\ client' = [client EXCEPT ![f] = IF PollMask \cap ev = {} THEN "sleeping" ELSE "user"]
    BY <1>1, Zenon DEF PollReply
  <2>2. /\ wpc' = [wpc EXCEPT ![w] = "register"] /\ polls' = polls /\ wpc[w] = "idle"
        /\ refused' = refused \ {f}
    BY <1>1, Zenon DEF PollReply
  <2>3. wpc'[w] = "register" /\ req'[w].fh = f
    BY <2>1, <2>2, Zenon
  <2>4. \A v \in Workers : wpc[v] = "register" => v # w /\ wpc'[v] = "register" /\ req'[v] = req[v]
    BY <2>1, <2>2, Zenon
  <2>5. \A g \in Fhs : g # f => client'[g] = client[g] /\ (g \in refused <=> g \in refused')
    BY <2>1, <2>2, Zenon
  <2> QED
    BY <2>2, <2>3, <2>4, <2>5 DEF SleeperRegistered
<1>2. ASSUME NEW w \in Workers, PollRegister(w) PROVE SleeperRegistered'
  <2> DEFINE g == req[w].fh
             m == Min(Usable(g))
  <2>1. m \in Slots /\ polls[m].fh \in {None, g} /\ g \in Fhs
    BY <1>2, FirstUsable, Zenon DEF PollRegister
  <2>2. \A i \in Slots : i # m => polls'[i] = polls[i]
    BY <1>2, Zenon DEF PollRegister
  <2>3. \/ client'[g] = "user"
        \/ polls'[m].fh = g
    <3>1. CASE mask[w] # {}
      <4>1. client' = [f \in Fhs |-> IF f \in {g} /\ client[f] = "sleeping" THEN "user" ELSE client[f]]
        BY <1>2, <3>1, Zenon DEF PollRegister, Notify
      <4> QED
        BY <2>1, <4>1, Zenon
    <3>2. CASE mask[w] = {}
      BY <1>2, <2>1, <3>2, Zenon DEF PollRegister
    <3> QED
      BY <3>1, <3>2, Zenon
  <2>4. \A f \in Fhs : client'[f] = "sleeping" => client[f] = "sleeping"
    BY <1>2, Zenon DEF PollRegister, Notify
  <2>5. \A v \in Workers : v # w => wpc'[v] = wpc[v] /\ req'[v] = req[v]
    BY <1>2, Zenon DEF PollRegister, WorkerDone
  <2>6. refused' = refused
    BY <1>2, Zenon DEF PollRegister
  <2> HIDE DEF m, g
  <2>7. ASSUME NEW f \in Fhs, client'[f] = "sleeping", f # g
        PROVE  \/ f \in refused'
               \/ \E i \in Slots : polls'[i].fh = f
               \/ \E v \in Workers : wpc'[v] = "register" /\ req'[v].fh = f
    BY <2>1, <2>2, <2>4, <2>5, <2>6, <2>7 DEF SleeperRegistered, g
  <2> QED
    BY <2>1, <2>3, <2>7, Zenon DEF SleeperRegistered
<1>3. ASSUME NEW w \in Workers, PollBusy(w) PROVE SleeperRegistered'
  <2>1. /\ UNCHANGED <<polls, client>> /\ refused' = refused \cup {req[w].fh}
        /\ \A v \in Workers : v # w => wpc'[v] = wpc[v] /\ req'[v] = req[v]
    BY <1>3, Zenon DEF PollBusy, WorkerDone
  <2> QED
    BY <2>1 DEF SleeperRegistered
<1>4. ASSUME NEW f \in Fhs, Interrupt(f) PROVE SleeperRegistered'
  <2>1. /\ UNCHANGED <<polls, wpc, req, refused>>
        /\ \A g \in Fhs : client'[g] = "sleeping" => client[g] = "sleeping"
    BY <1>4, Zenon DEF Interrupt
  <2> QED
    BY <2>1, Zenon DEF SleeperRegistered
<1>5. ASSUME NEW f \in Fhs, Release(f) PROVE SleeperRegistered'
  <2>1. /\ UNCHANGED <<client, wpc, req, refused>> /\ client[f] # "sleeping"
        /\ \A i \in Slots : polls[i].fh # f => polls'[i] = polls[i]
    BY <1>5, Zenon DEF Release
  <2> QED
    BY <2>1 DEF SleeperRegistered
<1>6. CASE CheckerScan
  <2> DEFINE due == {i \in Slots : polls[i].ev \cap PollMask # {}}
  <2>1. UNCHANGED <<wpc, req, refused>>
    BY <1>6, Zenon DEF CheckerScan
  <2>2. \A i \in Slots : i \notin due => polls'[i].fh = polls[i].fh
    <3>1. \A i \in Slots : i \notin due => polls'[i] = [polls[i] EXCEPT !.late = FALSE]
      BY <1>6, Zenon DEF CheckerScan
    <3>2. \A i \in Slots : [polls[i] EXCEPT !.late = FALSE].fh = polls[i].fh
      BY Zenon DEF Entries
    <3> QED
      BY <3>1, <3>2, Zenon
  <2>3. client' = [f \in Fhs |-> IF f \in {polls[i].fh : i \in due} /\ client[f] = "sleeping"
                                   THEN "user" ELSE client[f]]
    BY <1>6, Zenon DEF CheckerScan, Notify
  <2> HIDE DEF due
  <2>4. \A f \in Fhs : client'[f] = "sleeping" =>
            client[f] = "sleeping" /\ \A i \in Slots : polls[i].fh = f => i \notin due
    BY <2>3, Zenon
  <2> QED
    BY <2>1, <2>2, <2>4 DEF SleeperRegistered
<1>7. CASE CheckerDown
    BY <1>7, Zenon DEF CheckerDown, SleeperRegistered
<1>8. CASE \E t \in Server : ServerCall(t) \/ ServerSuspend(t) \/ ServerStep(t)
    BY <1>8, Zenon DEF ServerCall, ServerSuspend, ServerStep, cuseVars, SleeperRegistered
<1>9. CASE UNCHANGED vars
    BY <1>9, Zenon DEF vars, cuseVars, SleeperRegistered
<1> QED
    BY <1>1, <1>2, <1>3, <1>4, <1>5, <1>6, <1>7, <1>8, <1>9, Zenon DEF Next

(* What holds at the start.                                                *)
LEMMA CuseInitOK ==
    ASSUME MAX_PH \in Nat, Init PROVE PollTypeOK /\ SleeperRegistered
<1>1. Free \in Entries /\ NoReq \in Requests
    BY Zenon DEF Free, Entries, NoReq, Requests
<1>2. PollTypeOK
    BY <1>1, Zenon DEF Init, PollTypeOK
<1>3. SleeperRegistered
    BY Zenon DEF Init, SleeperRegistered
<1> QED
    BY <1>2, <1>3, Zenon

(* For any number of slots, workers and clients, a client that was told to *)
(* wait is in the table of the checker or its worker is about to enter it, *)
(* unless the table was full (esdm_cuse_poll()).                           *)
THEOREM SleeperRegisteredCorrect ==
    ASSUME MAX_PH \in Nat, None \notin Fhs
    PROVE  Spec => []SleeperRegistered
<1> DEFINE I == PollTypeOK /\ SleeperRegistered
<1>1. Init => I
    BY CuseInitOK, Zenon
<1>2. I /\ [Next]_vars => I'
    BY PollTypeStep, SleeperStep, Zenon
<1>3. I => SleeperRegistered
    BY Zenon
<1> QED
    BY <1>1, <1>2, <1>3, PTL DEF Spec

(* The semaphore of the daemon is one of those the server raises.          *)
LEMMA CuseSemIn == CuseSem \in Sems /\ \E k \in 1..Len(CuseSems) : CuseSems[k] = CuseSem
BY StatusAssumption DEF CuseSem, Sems

(* What the server raises                                                  *)
LEMMA RaiseTypes ==
    /\ StatusUp \in Seq(Sems) /\ WakeAll \in Seq(Sems)
    /\ \A t : LevelUp(t) \in Seq(Sems) /\ StatusUp \o LevelUp(t) \in Seq(Sems)
    /\ StatusUp # <<>>
<1>1. CuseSems \in Seq(Sems) /\ CuseSems # <<>>
  <2>1. \A i \in 1..Len(CuseSems) : CuseSems[i] \in Sems
    BY StatusAssumption DEF Sems
  <2> QED
    BY <2>1, StatusAssumption
<1>2. <<"level">> \in Seq(Sems) /\ <<>> \in Seq(Sems)
    BY DEF Sems
<1>3. \A t : LevelUp(t) \in Seq(Sems)
    BY <1>2, Zenon DEF LevelUp
<1> QED
    BY <1>1, <1>2, <1>3 DEF StatusUp, WakeAll

(* The daemon's is among it.                                               *)
LEMMA RaiseHas ==
    ASSUME NEW s \in Seq(Sems)
    PROVE  \E k \in 1..Len(StatusUp \o s) : (StatusUp \o s)[k] = CuseSem
<1>1. PICK k \in 1..Len(StatusUp) : StatusUp[k] = CuseSem
    BY CuseSemIn, Zenon DEF StatusUp
<1>2. StatusUp \in Seq(Sems)
    BY RaiseTypes, Zenon
<1>3. k \in 1..Len(StatusUp \o s) /\ (StatusUp \o s)[k] = CuseSem
    BY <1>1, <1>2
<1> QED
    BY <1>3, Zenon

(* The server sets out to raise semaphores,                                *)
LEMMA RaiseNextTypes ==
    ASSUME RaiseTypeOK, NEW t \in Server, NEW s \in Seq(Sems), RaiseNext(t, s)
    PROVE  /\ spc' \in [Server -> ServerPlaces]
           /\ ups' \in [Server -> Seq(Sems)]
           /\ \A u \in Server : spc'[u] \in {"up", "post"} => ups'[u] # <<>>
           /\ \A u \in Server : u # t => spc'[u] = spc[u] /\ ups'[u] = ups[u]
           /\ ups'[t] = s /\ (s # <<>> => spc'[t] = "up")
<1>1. {"out", "up"} \subseteq ServerPlaces
    BY Zenon DEF ServerPlaces
<1> QED
    BY <1>1, Zenon DEF RaiseTypeOK, RaiseNext, ShmGoto

(* the daemon's among them,                                                *)
LEMMA RaiseOwes ==
    ASSUME RaiseTypeOK, NEW t \in Server, NEW s \in Seq(Sems), RaiseNext(t, s),
           NEW k \in 1..Len(s), s[k] = CuseSem
    PROVE  Owes(t)'
<1>1. s # <<>>
    OBVIOUS
<1>2. spc'[t] = "up" /\ ups'[t] = s
    BY <1>1, RaiseNextTypes, Zenon
<1>3. \E j \in 1..Len(ups'[t]) : ups'[t][j] = CuseSem
    BY <1>2, Zenon
<1> QED
    BY <1>2, <1>3, Zenon DEF Owes, CuseSem

(* or goes elsewhere.                                                      *)
LEMMA ShmGotoTypes ==
    ASSUME RaiseTypeOK, NEW t \in Server, NEW l \in ServerPlaces, ShmGoto(t, l), ups' = ups,
           l = "up" => ups[t] # <<>>, l = "post" => ups[t] # <<>>
    PROVE  /\ spc' \in [Server -> ServerPlaces]
           /\ \A u \in Server : spc'[u] \in {"up", "post"} => ups'[u] # <<>>
           /\ \A u \in Server : u # t => spc'[u] = spc[u]
           /\ spc'[t] = l
BY Zenon DEF RaiseTypeOK, ShmGoto

(* What a step of the server comes to: a status that changed is announced. *)
ServerMoves(t) ==
    /\ RaiseTypeOK'
    /\ \A u \in Server : u # t => spc'[u] = spc[u] /\ ups'[u] = ups[u]
    /\ \/ PollMask' = PollMask /\ (Owes(t) => Owes(t)' \/ sem'[CuseSem] > 0)
       \/ Owes(t)'
    /\ sem[CuseSem] > 0 => sem'[CuseSem] > 0

(* Every step of it is such a step.                                        *)
LEMMA ServerMovesOK ==
    ASSUME RaiseTypeOK, NEW t \in Server, ServerCall(t) \/ ServerSuspend(t) \/ ServerStep(t)
    PROVE  ServerMoves(t) /\ UNCHANGED cuseVars
<1> USE DEF RaiseTypeOK
<1>1. CASE ServerCall(t)
  <2>1. PICK l \in {"need", "oper"} : ShmGoto(t, l)
    BY <1>1, Zenon DEF ServerCall
  <2>2. UNCHANGED <<shmNeed, shmOper, suspend, sem, ups, cuseVars>> /\ ~Owes(t)
    BY <1>1, Zenon DEF ServerCall, Owes
  <2> QED
    BY <2>1, <2>2, ShmGotoTypes, Zenon DEF ServerMoves, PollMask, ServerPlaces
<1>2. CASE ServerSuspend(t)
  <2>1. RaiseNext(t, WakeAll) /\ UNCHANGED <<sem, cuseVars>>
    BY <1>2, Zenon DEF ServerSuspend, SetSuspend
  <2>2. WakeAll = StatusUp \o <<"level">> /\ <<"level">> \in Seq(Sems)
    BY DEF WakeAll, StatusUp, Sems
  <2>3. WakeAll \in Seq(Sems) /\ \E k \in 1..Len(WakeAll) : WakeAll[k] = CuseSem
    BY <2>2, RaiseHas, RaiseTypes, Zenon
  <2>5. Owes(t)'
    BY <2>1, <2>3, RaiseOwes, Zenon
  <2> QED
    BY <2>1, <2>3, <2>5, RaiseNextTypes, Zenon DEF ServerMoves
<1>3. CASE ServerStep(t)
  <2>c. UNCHANGED cuseVars
    BY <1>3, Zenon DEF ServerStep
  <2>1. CASE OperTest(t) \/ NeedRead(t) \/ \E low \in BOOLEAN : NeedTest(t, low)
    <3>1. PICK l \in {"operstore", "out", "test", "store"} : ShmGoto(t, l)
      BY <2>1, Zenon DEF OperTest, NeedRead, NeedTest
    <3>2. UNCHANGED <<shmNeed, shmOper, suspend, sem, ups>> /\ ~Owes(t)
      BY <2>1, Zenon DEF OperTest, NeedRead, NeedTest, Owes
    <3> QED
      BY <2>c, <3>1, <3>2, ShmGotoTypes, Zenon DEF ServerMoves, PollMask, ServerPlaces
  <2>2. CASE OperStore(t)
    <3>1. RaiseNext(t, StatusUp) /\ UNCHANGED sem
      BY <2>2, Zenon DEF OperStore
    <3>2. StatusUp \in Seq(Sems) /\ \E k \in 1..Len(StatusUp) : StatusUp[k] = CuseSem
      BY RaiseTypes, CuseSemIn, Zenon DEF StatusUp
    <3>3. Owes(t)'
      BY <3>1, <3>2, RaiseOwes, Zenon
    <3> QED
      BY <2>c, <3>1, <3>2, <3>3, RaiseNextTypes, Zenon DEF ServerMoves
  <2>3. CASE NeedStore(t)
    <3>1. CASE RaiseNext(t, StatusUp \o LevelUp(t))
      <4>1. /\ StatusUp \o LevelUp(t) \in Seq(Sems)
            /\ \E k \in 1..Len(StatusUp \o LevelUp(t)) : (StatusUp \o LevelUp(t))[k] = CuseSem
        BY RaiseTypes, RaiseHas, Zenon
      <4>3. Owes(t)'
        BY <3>1, <4>1, RaiseOwes, Zenon
      <4> QED
        BY <2>3, <2>c, <3>1, <4>1, <4>3, RaiseNextTypes, Zenon DEF ServerMoves, NeedStore
    <3>2. CASE RaiseNext(t, LevelUp(t)) /\ UNCHANGED shmNeed
      <4>1. UNCHANGED <<shmNeed, shmOper, suspend, sem>> /\ ~Owes(t)
        BY <2>3, <3>2, Zenon DEF NeedStore, Owes
      <4> QED
        BY <2>c, <3>2, <4>1, RaiseTypes, RaiseNextTypes DEF ServerMoves, PollMask
    <3> QED
      BY <2>3, <3>1, <3>2, Zenon DEF NeedStore
  <2>4. CASE UpTest(t)
    <3>u. ups[t] # <<>> /\ ups[t] \in Seq(Sems) /\ UNCHANGED <<shmNeed, shmOper, suspend, sem>>
      BY <2>4, Zenon DEF UpTest
    <3>1. CASE sem[Head(ups[t])] > 0
      <4>1. RaiseNext(t, Tail(ups[t])) /\ Tail(ups[t]) \in Seq(Sems)
        BY <2>4, <3>1, <3>u DEF UpTest
      <4>2. ASSUME Owes(t), Head(ups[t]) # CuseSem PROVE Owes(t)'
        <5>1. PICK k \in 1..Len(ups[t]) : ups[t][k] = CuseSem
          BY <4>2, Zenon DEF Owes
        <5>2. k # 1 /\ k - 1 \in 1..Len(Tail(ups[t])) /\ Tail(ups[t])[k - 1] = CuseSem
          BY <3>u, <4>2, <5>1
        <5> QED
          BY <4>1, <5>2, RaiseOwes, Zenon
      <4>3. Head(ups[t]) = CuseSem => sem'[CuseSem] > 0
        BY <3>1, <3>u, Zenon
      <4> QED
        BY <2>c, <3>u, <4>1, <4>2, <4>3, RaiseNextTypes, Zenon DEF ServerMoves, PollMask
    <3>2. CASE ~(sem[Head(ups[t])] > 0)
      <4>1. ShmGoto(t, "post") /\ UNCHANGED ups /\ spc[t] = "up"
        BY <2>4, <3>2, Zenon DEF UpTest
      <4>2. spc'[t] = "post"
        BY <4>1, <3>u, ShmGotoTypes, Zenon DEF ServerPlaces
      <4>3. Owes(t) => Owes(t)'
        BY <4>1, <4>2, Zenon DEF Owes, CuseSem
      <4> QED
        BY <2>c, <3>u, <4>1, <4>3, ShmGotoTypes, Zenon DEF ServerMoves, PollMask, ServerPlaces
    <3> QED
      BY <3>1, <3>2, Zenon
  <2>5. CASE UpPost(t)
    <3>u. ups[t] # <<>> /\ ups[t] \in Seq(Sems) /\ UNCHANGED <<shmNeed, shmOper, suspend>>
      BY <2>5, Zenon DEF UpPost
    <3>1. RaiseNext(t, Tail(ups[t])) /\ Tail(ups[t]) \in Seq(Sems) /\ Head(ups[t]) \in Sems
      BY <2>5, <3>u DEF UpPost
    <3>2. sem' = [sem EXCEPT ![Head(ups[t])] = sem[Head(ups[t])] + 1]
      BY <2>5, Zenon DEF UpPost
    <3>3. /\ sem' \in [Sems -> Nat] /\ sem'[Head(ups[t])] > 0
          /\ sem[CuseSem] > 0 => sem'[CuseSem] > 0
      BY <3>1, <3>2, CuseSemIn
    <3>4. ASSUME Owes(t), Head(ups[t]) # CuseSem PROVE Owes(t)'
      <4>1. PICK k \in 1..Len(ups[t]) : ups[t][k] = CuseSem
        BY <3>4 DEF Owes
      <4>2. k # 1 /\ k - 1 \in 1..Len(Tail(ups[t])) /\ Tail(ups[t])[k - 1] = CuseSem
        BY <3>u, <3>4, <4>1
      <4> QED
        BY <3>1, <4>2, RaiseOwes, Zenon
    <3> QED
      BY <2>c, <3>u, <3>1, <3>3, <3>4, RaiseNextTypes, Zenon DEF ServerMoves, PollMask
  <2> QED
    BY <1>3, <2>1, <2>2, <2>3, <2>4, <2>5, Zenon DEF ServerStep, OperStep, NeedStep
<1> QED
    BY <1>1, <1>2, <1>3, Zenon

(* Every step keeps the types of the status.                               *)
LEMMA RaiseTypeStep == ASSUME RaiseTypeOK, [Next]_vars PROVE RaiseTypeOK'
<1>1. CASE \E t \in Server : ServerCall(t) \/ ServerSuspend(t) \/ ServerStep(t)
    BY <1>1, ServerMovesOK, Zenon DEF ServerMoves
<1>2. CASE CheckerDown
  <2>1. sem' = [sem EXCEPT ![CuseSem] = sem[CuseSem] - 1] /\ sem[CuseSem] > 0
        /\ UNCHANGED <<spc, ups>>
    BY <1>2, Zenon DEF CheckerDown
  <2> QED
    BY <2>1, CuseSemIn DEF RaiseTypeOK
<1>3. ASSUME NEW w \in Workers, NEW f \in Fhs, PollReply(w, f) PROVE RaiseTypeOK'
    BY <1>3, Zenon DEF PollReply, RaiseTypeOK
<1>4. CASE \E w \in Workers : PollRegister(w) \/ PollBusy(w)
    BY <1>4, Zenon DEF PollRegister, PollBusy, shmVars, RaiseTypeOK
<1>5. CASE \E f \in Fhs : Interrupt(f) \/ Release(f)
    BY <1>5, Zenon DEF Interrupt, Release, shmVars, RaiseTypeOK
<1>6. CASE CheckerScan
    BY <1>6, Zenon DEF CheckerScan, RaiseTypeOK
<1>7. CASE UNCHANGED vars
    BY <1>7, Zenon DEF vars, shmVars, RaiseTypeOK
<1> QED
    BY <1>1, <1>2, <1>3, <1>4, <1>5, <1>6, <1>7, Zenon DEF Next

(* Every step keeps EventsSeen.                                            *)
LEMMA EventsStep ==
    ASSUME MAX_PH \in Nat, None \notin Fhs, PollTypeOK, RaiseTypeOK, EventsSeen, [Next]_vars
    PROVE  EventsSeen'
<1>q. UNCHANGED <<chk, sem, spc, ups>> => ToBeSeen' = ToBeSeen
    BY Zenon DEF ToBeSeen, Owes, CuseSem
<1>1. ASSUME NEW t \in Server, ServerCall(t) \/ ServerSuspend(t) \/ ServerStep(t)
      PROVE  EventsSeen'
  <2>1. ServerMoves(t) /\ UNCHANGED <<polls, chk>>
    BY <1>1, ServerMovesOK, Zenon DEF cuseVars
  <2>2. \A u \in Server : u # t /\ Owes(u) => Owes(u)'
    BY <2>1, Zenon DEF ServerMoves, Owes, CuseSem
  <2>3. CASE Owes(t)'
    BY <2>3, Zenon DEF EventsSeen, ToBeSeen
  <2>4. CASE PollMask' = PollMask /\ (Owes(t) => Owes(t)' \/ sem'[CuseSem] > 0)
    <3>1. ToBeSeen => ToBeSeen'
      BY <2>1, <2>2, <2>4, Zenon DEF ToBeSeen, ServerMoves, CuseSem
    <3> QED
      BY <2>1, <2>4, <3>1, Zenon DEF EventsSeen
  <2> QED
    BY <2>1, <2>3, <2>4, Zenon DEF ServerMoves
<1>2. CASE CheckerDown
    BY <1>2, Zenon DEF CheckerDown, EventsSeen, ToBeSeen
<1>3. ASSUME NEW w \in Workers, NEW f \in Fhs, PollReply(w, f) PROVE EventsSeen'
  <2>1. UNCHANGED <<polls, chk, sem, spc, ups, shmNeed, shmOper>> /\ suspend' = FALSE
    BY <1>3, Zenon DEF PollReply
  <2>2. PollMask' \subseteq PollMask
    BY <2>1, Zenon DEF PollMask
  <2> QED
    BY <2>1, <2>2, <1>q DEF EventsSeen
<1>4. ASSUME NEW w \in Workers, PollRegister(w) PROVE EventsSeen'
  <2> DEFINE m == Min(Usable(req[w].fh))
             e == [fh |-> req[w].fh, ev |-> req[w].ev, late |-> PollMask \cap req[w].ev # {}]
  <2>1. UNCHANGED <<chk, sem, spc, ups, shmNeed, shmOper, suspend>>
    BY <1>4, Zenon DEF PollRegister, shmVars
  <2>2. polls' = [polls EXCEPT ![m] = Free] \/ polls' = [polls EXCEPT ![m] = e]
    BY <1>4, Zenon DEF PollRegister
  <2>3. PollMask' = PollMask
    BY <2>1, Zenon DEF PollMask
  <2>4. \A i \in Slots : polls'[i] = polls[i] \/ polls'[i] = Free \/ polls'[i] = e
    BY <2>2, Zenon DEF PollTypeOK
  <2>5. Free.ev = {} /\ (e.late \/ e.ev \cap PollMask = {})
    BY Zenon DEF Free
  <2> HIDE DEF e
  <2>6. \A i \in Slots : polls'[i] = polls[i] \/ polls'[i].late \/ polls'[i].ev \cap PollMask = {}
    BY <2>4, <2>5, Zenon
  <2> QED
    BY <2>1, <2>3, <2>6, <1>q DEF EventsSeen
<1>5. ASSUME NEW w \in Workers, PollBusy(w) PROVE EventsSeen'
    BY <1>5, <1>q DEF PollBusy, shmVars, EventsSeen, PollMask
<1>6. ASSUME NEW f \in Fhs, Interrupt(f) PROVE EventsSeen'
    BY <1>6, <1>q DEF Interrupt, shmVars, EventsSeen, PollMask
<1>7. ASSUME NEW f \in Fhs, Release(f) PROVE EventsSeen'
  <2>1. UNCHANGED <<chk, sem, spc, ups, shmNeed, shmOper, suspend>>
    BY <1>7, Zenon DEF Release, shmVars
  <2>2. \A i \in Slots : polls'[i] = polls[i] \/ polls'[i] = Free
    BY <1>7, Zenon DEF Release
  <2>3. Free.ev = {} /\ PollMask' = PollMask
    BY <2>1, Zenon DEF Free, PollMask
  <2> QED
    BY <2>1, <2>2, <2>3, <1>q DEF EventsSeen
<1>8. CASE CheckerScan
  <2> DEFINE due == {i \in Slots : polls[i].ev \cap PollMask # {}}
  <2>1. PollMask' \subseteq PollMask
    BY <1>8, Zenon DEF CheckerScan, PollMask
  <2>2. \A i \in Slots : polls'[i] = IF i \in due THEN Free ELSE [polls[i] EXCEPT !.late = FALSE]
    BY <1>8, Zenon DEF CheckerScan
  <2>3. \A i \in Slots : [polls[i] EXCEPT !.late = FALSE].ev = polls[i].ev
    BY Zenon DEF Entries, PollTypeOK
  <2>4. Free.ev = {}
    BY Zenon DEF Free
  <2>5. \A i \in Slots : polls'[i].ev \cap PollMask = {}
    BY <2>2, <2>3, <2>4, Zenon
  <2> QED
    BY <2>1, <2>5, Zenon DEF EventsSeen
<1>9. CASE UNCHANGED vars
    BY <1>9, <1>q DEF vars, cuseVars, shmVars, EventsSeen, PollMask
<1> QED
    BY <1>1, <1>2, <1>3, <1>4, <1>5, <1>6, <1>7, <1>8, <1>9, Zenon DEF Next

(* For any number of slots, workers, clients and threads of the server:    *)
(* when the server is done and the checker sleeps for good, no entry waits *)
(* for an event that is there, unless it was entered after the look with a *)
(* mask computed before it (esdm_cuse_poll_checker()).                     *)
THEOREM NoMissedEventCorrect ==
    ASSUME MAX_PH \in Nat, None \notin Fhs
    PROVE  Spec => []NoMissedEvent
<1> DEFINE I == PollTypeOK /\ RaiseTypeOK /\ EventsSeen
<1>1. Init => I
  <2> SUFFICES ASSUME Init PROVE I
    BY Zenon
  <2>1. RaiseTypeOK
    BY DEF Init, ShmInit, RaiseTypeOK, ServerPlaces
  <2>2. EventsSeen
    BY Zenon DEF Init, EventsSeen, ToBeSeen
  <2> QED
    BY <2>1, <2>2, CuseInitOK, Zenon
<1>2. I /\ [Next]_vars => I'
    BY PollTypeStep, RaiseTypeStep, EventsStep, Zenon
<1>3. I => NoMissedEvent
    BY DEF EventsSeen, ToBeSeen, Owes, RaiseTypeOK, NoMissedEvent
<1> QED
    BY <1>1, <1>2, <1>3, PTL DEF Spec

-----------------------------------------------------------------------------
(* The server                                                              *)

(* The places of the main thread,                                          *)
MainPlaces == {"none", "test1", "block1", "asleep1", "start", "test2", "block2",
               "asleep2", "drop", "tell", "loop", "serve", "return", "gone"}

(* and of the thread of the unprivileged server.                           *)
UnprivPlaces == {"none", "start", "tell", "test1", "block1", "asleep1", "loop",
                 "serve", "ended"}

(* Whose socket lies in the file system.                                   *)
Whose == {"absent", "stale", "other", "mine"}

(* None of the sockets is this server's.                                   *)
NoneMine == \A s \in Sockets : sock[s] # "mine"

(* The types.                                                              *)
ServerTypeOK ==
    /\ mpc \in MainPlaces /\ tpc \in UnprivPlaces /\ npc \in {"none", "run", "done"}
    /\ esdm_rpc_init_state \in {Uninitialized, PrivInitComplete, UnprivInit, PermDropped}
    /\ sock \in [Sockets -> Whose]

(* How far the start has come decides where each thread may be.            *)
Order ==
    /\ npc = "run" => esdm_rpc_init_state = Uninitialized
    /\ mpc = "none" => esdm_rpc_init_state = Uninitialized
    /\ mpc \in {"none", "gone"} => tpc = "none" /\ npc = "none"
    /\ mpc \in {"test1", "block1", "asleep1", "start"} =>
          tpc = "none" /\ esdm_rpc_init_state \in {Uninitialized, PrivInitComplete}
    /\ mpc = "start" => esdm_rpc_init_state = PrivInitComplete
    /\ mpc \in {"test2", "block2", "asleep2"} =>
          esdm_rpc_init_state \in {PrivInitComplete, UnprivInit}
    /\ mpc \in {"drop", "tell"} => esdm_rpc_init_state = UnprivInit
    /\ mpc \in {"loop", "serve"} => esdm_rpc_init_state = PermDropped
    /\ esdm_rpc_init_state = Uninitialized =>
          mpc \in {"none", "test1", "block1", "asleep1", "gone"}
    /\ tpc \in {"start", "tell"} =>
          mpc \in {"test2", "block2", "asleep2"} /\ esdm_rpc_init_state = PrivInitComplete
    /\ tpc \in {"test1", "block1", "asleep1"} =>
          esdm_rpc_init_state \in {UnprivInit, PermDropped}
    /\ tpc \in {"loop", "serve"} => esdm_rpc_init_state = PermDropped
    /\ mpc = "tell" => uid = "nobody"
    /\ esdm_rpc_init_state = PermDropped =>
          uid = "nobody" /\ mpc \in {"loop", "serve", "return", "gone"}

(* A thread that sleeps, without having missed its wake-up, sleeps for a   *)
(* state that is not there yet.                                            *)
SleepsForSomething ==
    /\ mpc \in {"block1", "asleep1"} /\ "main" \notin missed =>
          esdm_rpc_init_state # PrivInitComplete
    /\ mpc \in {"block2", "asleep2"} /\ "main" \notin missed =>
          esdm_rpc_init_state # UnprivInit
    /\ tpc \in {"block1", "asleep1"} /\ "unpriv" \notin missed =>
          esdm_rpc_init_state # PermDropped

(* The parent that cleans up comes after the server is gone.               *)
CleanerLast ==
    /\ cpc \in {"start", "init"} => mpc = "none"
    /\ mpc = "none" => NoneMine
    /\ cpc = "start" => pidfile # "mine"
    /\ cpc = "clean" => mpc = "gone"
    /\ cpc = "release" => ~Alive /\ NoneMine
    /\ cpc = "gone" /\ ~early => ~Alive /\ NoneMine /\ pidfile # "mine"

(* The feeder has opened /dev/random only when there is no device of the   *)
(* CUSE daemon, or is known to have lost the race against it.              *)
FeedOutside == ~selffed /\ (dpc = "random" => cuse = "off")

(* The inductive invariant of the start,                                   *)
StartInv == ServerTypeOK /\ Order /\ SleepsForSomething

(* and of the server.                                                      *)
ServerInv == StartInv /\ CleanerLast /\ FeedOutside

(* What the start is about,                                                *)
StartVars == <<mpc, tpc, npc, esdm_rpc_init_state, uid, missed>>

(* and what the sockets are about.                                         *)
SocketVars == <<cpc, mpc, sock, pidfile, early>>

(* A step that changes none of the first keeps the start in order.         *)
LEMMA StartQuiet ==
    Order /\ SleepsForSomething /\ UNCHANGED StartVars => Order' /\ SleepsForSomething'
BY Zenon DEF Order, SleepsForSomething, StartVars

(* The states of the start are different.                                  *)
LEMMA StateNames ==
    /\ Uninitialized = 0 /\ PrivInitComplete = 1 /\ UnprivInit = 2 /\ PermDropped = 3
BY Zenon DEF Uninitialized, PrivInitComplete, UnprivInit, PermDropped

(* esdm_rpcs_start() leaves a socket behind that has an owner.             *)
LEMMA SocketTypes ==
    ASSUME sock \in [Sockets -> Whose], NEW s \in Sockets, esdm_rpcs_start(s)
    PROVE  sock' \in [Sockets -> Whose]
<1>1. PICK left \in esdm_rpcs_stale_socket(sock[s]) :
         sock' \in {[sock EXCEPT ![s] = "mine"], [sock EXCEPT ![s] = left]}
    BY Zenon DEF esdm_rpcs_start
<1>2. left \in Whose
    BY <1>1, Zenon DEF esdm_rpcs_stale_socket, Whose
<1> QED
    BY <1>1, <1>2, Zenon DEF Whose

(* Every step keeps the types,                                             *)
LEMMA ServerTypeStep == ServerTypeOK /\ [ServerNext]_srvVars => ServerTypeOK'
<1> SUFFICES ASSUME ServerTypeOK, [ServerNext]_srvVars PROVE ServerTypeOK'
    BY Zenon
<1> USE DEF ServerTypeOK, threadVars, initVars, fileVars
<1>w. \A p \in MainPlaces : Wake(p) \in MainPlaces
    BY Zenon DEF Wake, MainPlaces
<1>v. \A p \in UnprivPlaces : Wake(p) \in UnprivPlaces
    BY Zenon DEF Wake, UnprivPlaces
<1>1. CASE MainWaits
    BY <1>1, Zenon DEF MainWaits, MainPlaces
<1>2. CASE UnprivWaits
    BY <1>2, Zenon DEF UnprivWaits, UnprivPlaces
<1>3. CASE create_pid_file \/ daemon_init \/ CleanerKnows \/ CleanerListens \/ CleanerWaits
    BY <1>3, Zenon DEF create_pid_file, daemon_init, CleanerKnows, CleanerListens, CleanerWaits
<1>4. CASE CleanerReturns \/ CleanerSignal
    BY <1>4, Zenon DEF CleanerReturns, CleanerSignal
<1>5. CASE esdm_rpc_server_init
    BY <1>5, Zenon DEF esdm_rpc_server_init, MainPlaces
<1>6. CASE esdm_rpcs_cleanup
    BY <1>6, Zenon DEF esdm_rpcs_cleanup, Whose
<1>7. CASE esdm_rpc_priv_init_complete
    BY <1>7, <1>w, <1>v, Zenon DEF esdm_rpc_priv_init_complete, thread_wake_all
<1>8. CASE esdm_rpcs_interfaces_init
  <2>1. sock' \in [Sockets -> Whose]
    BY <1>8, SocketTypes, Zenon DEF esdm_rpcs_interfaces_init, Sockets
  <2> QED
    BY <1>8, <2>1, Zenon DEF esdm_rpcs_interfaces_init, MainPlaces, UnprivPlaces
<1>9. CASE esdm_rpcs_unpriv_init
  <2>1. sock' \in [Sockets -> Whose]
    BY <1>9, SocketTypes, Zenon DEF esdm_rpcs_unpriv_init, Sockets
  <2> QED
    BY <1>9, <2>1, Zenon DEF esdm_rpcs_unpriv_init, UnprivPlaces
<1>10. CASE UnprivTells
  <2>1. "test1" \in UnprivPlaces
    BY Zenon DEF UnprivPlaces
  <2> QED
    BY <1>10, <1>w, <1>v, <2>1, Zenon DEF UnprivTells, thread_wake_all
<1>11. CASE drop_privileges_permanent
    BY <1>11, Zenon DEF drop_privileges_permanent, MainPlaces
<1>12. CASE MainTells
  <2>1. "loop" \in MainPlaces
    BY Zenon DEF MainPlaces
  <2> QED
    BY <1>12, <1>w, <1>v, <2>1, Zenon DEF MainTells, thread_wake_all
<1>13. CASE MainServes
    BY <1>13, Zenon DEF MainServes, MainPlaces
<1>14. CASE UnprivServes
    BY <1>14, Zenon DEF UnprivServes, UnprivPlaces
<1>15. CASE ServerReturns \/ ServerExits
    BY <1>15, Zenon DEF ServerReturns, ServerExits, Ends, MainPlaces, UnprivPlaces
<1>16. CASE sig_term
    BY <1>16, <1>w, <1>v, Zenon DEF sig_term, thread_wake_all
<1>17. CASE ServerSignal \/ FeederGets \/ FeederStat \/ FeederOpen \/ CuseDaemon
    BY <1>17, Zenon DEF ServerSignal, FeederGets, FeederStat, FeederOpen, CuseDaemon
<1>18. CASE UNCHANGED srvVars
    BY <1>18, Zenon DEF srvVars
<1> QED
    BY <1>1, <1>2, <1>3, <1>4, <1>5, <1>6, <1>7, <1>8, <1>9, <1>10, <1>11, <1>12, <1>13,
       <1>14, <1>15, <1>16, <1>17, <1>18, Zenon DEF ServerNext

(* the order of the start,                                                 *)
LEMMA OrderStep ==
    StartInv /\ CleanerLast /\ [ServerNext]_srvVars => Order' /\ SleepsForSomething'
<1> SUFFICES ASSUME StartInv, CleanerLast, [ServerNext]_srvVars PROVE Order' /\ SleepsForSomething'
    BY Zenon
<1> USE StateNames DEF StartInv, ServerTypeOK
<1>1. CASE MainWaits
  <2>1. UNCHANGED <<tpc, npc, esdm_rpc_init_state, uid>>
    BY <1>1, Zenon DEF MainWaits
  <2>2. Order'
    BY <1>1, <2>1, Zenon DEF MainWaits, Order
  <2>3. SleepsForSomething'
    BY <1>1, <2>1, Zenon DEF MainWaits, SleepsForSomething
  <2> QED
    BY <2>2, <2>3, Zenon
<1>2. CASE UnprivWaits
  <2>1. UNCHANGED <<mpc, npc, esdm_rpc_init_state, uid>>
    BY <1>2, Zenon DEF UnprivWaits
  <2>2. Order'
    BY <1>2, <2>1, Zenon DEF UnprivWaits, Order
  <2>3. SleepsForSomething'
    BY <1>2, <2>1, Zenon DEF UnprivWaits, SleepsForSomething
  <2> QED
    BY <2>2, <2>3
<1>3. CASE create_pid_file \/ daemon_init \/ CleanerKnows \/ CleanerListens \/ CleanerWaits
    BY <1>3, StartQuiet, Zenon DEF create_pid_file, daemon_init, CleanerKnows, CleanerListens,
       CleanerWaits, StartVars, threadVars, initVars
<1>4. CASE CleanerReturns \/ CleanerSignal \/ esdm_rpcs_cleanup
    BY <1>4, StartQuiet, Zenon DEF CleanerReturns, CleanerSignal, esdm_rpcs_cleanup,
       StartVars, threadVars, initVars
<1>5. CASE esdm_rpc_server_init
  <2>1. mpc = "none" 
    BY <1>5, Zenon DEF esdm_rpc_server_init, CleanerLast
  <2> QED
    BY <1>5, <2>1, Zenon DEF esdm_rpc_server_init, initVars, Order, SleepsForSomething
<1>7. CASE esdm_rpc_priv_init_complete
  <2>1. /\ mpc \in {"test1", "block1", "asleep1"} /\ tpc = "none"
        /\ esdm_rpc_init_state' = 1 /\ npc' = "done" /\ tpc' = "none" /\ uid' = uid
        /\ mpc' = IF mpc = "asleep1" THEN "test1" ELSE mpc
        /\ mpc = "block1" => "main" \in missed'
    BY <1>7, Zenon DEF esdm_rpc_priv_init_complete, thread_wake_all, Wake, Blocking, Alive, Order
  <2>2. Order'
    BY <2>1 DEF Order
  <2>3. SleepsForSomething'
    BY <2>1, Zenon DEF SleepsForSomething
  <2> QED
    BY <2>2, <2>3
<1>8. CASE esdm_rpcs_interfaces_init
  <2>1. /\ mpc = "start"
        /\ (mpc' = "test2" /\ tpc' = "start") \/ (mpc' = "return" /\ tpc' = tpc)
        /\ UNCHANGED <<npc, esdm_rpc_init_state, uid, missed>>
    BY <1>8, Zenon DEF esdm_rpcs_interfaces_init, initVars
  <2>2. Order'
    BY <2>1, Zenon DEF Order
  <2>3. SleepsForSomething'
    BY <2>1, Zenon DEF Order, SleepsForSomething
  <2> QED
    BY <2>2, <2>3
<1>9. CASE esdm_rpcs_unpriv_init
  <2>1. /\ tpc = "start" /\ tpc' \in {"tell", "ended"}
        /\ UNCHANGED <<mpc, npc, esdm_rpc_init_state, uid, missed>>
    BY <1>9, Zenon DEF esdm_rpcs_unpriv_init, initVars
  <2>2. Order'
    BY <2>1, Zenon DEF Order
  <2>3. SleepsForSomething'
    BY <2>1, Zenon DEF Order, SleepsForSomething
  <2> QED
    BY <2>2, <2>3
<1>10. CASE UnprivTells
  <2>1. /\ mpc \in {"test2", "block2", "asleep2"} /\ tpc = "tell" /\ tpc' = "test1"
        /\ esdm_rpc_init_state' = 2 /\ UNCHANGED <<npc, uid>>
        /\ mpc' = IF mpc = "asleep2" THEN "test2" ELSE mpc
        /\ mpc = "block2" => "main" \in missed'
    BY <1>10, Zenon DEF UnprivTells, thread_wake_all, Wake, Blocking, Alive, Order
  <2>2. Order'
    BY <2>1 DEF Order
  <2>3. SleepsForSomething'
    BY <2>1, Zenon DEF SleepsForSomething
  <2> QED
    BY <2>2, <2>3
<1>11. CASE drop_privileges_permanent
  <2>1. /\ mpc = "drop"
        /\ (mpc' = "tell" /\ uid' = "nobody") \/ mpc' = "return"
        /\ UNCHANGED <<tpc, npc, esdm_rpc_init_state, missed>>
    BY <1>11, Zenon DEF drop_privileges_permanent, initVars
  <2>2. Order'
    BY <2>1, Zenon DEF Order
  <2>3. SleepsForSomething'
    BY <2>1, Zenon DEF SleepsForSomething
  <2> QED
    BY <2>2, <2>3
<1>12. CASE MainTells
  <2>1. /\ mpc = "tell" /\ mpc' = "loop" /\ esdm_rpc_init_state' = 3 /\ UNCHANGED <<npc, uid>>
        /\ tpc \notin {"start", "tell"}
        /\ tpc' = IF tpc = "asleep1" THEN "test1" ELSE tpc
        /\ tpc = "block1" => "unpriv" \in missed'
    BY <1>12, Zenon DEF MainTells, thread_wake_all, Wake, Blocking, Order, UnprivPlaces
  <2>2. Order'
    BY <2>1 DEF Order
  <2>3. SleepsForSomething'
    BY <2>1, Zenon DEF SleepsForSomething
  <2> QED
    BY <2>2, <2>3
<1>13. CASE MainServes
  <2>1. /\ mpc \in {"loop", "serve"} /\ mpc' \in {"serve", "return"}
        /\ UNCHANGED <<tpc, npc, esdm_rpc_init_state, uid, missed>>
    BY <1>13, Zenon DEF MainServes, initVars
  <2>2. Order'
    BY <2>1, Zenon DEF Order
  <2>3. SleepsForSomething'
    BY <2>1, Zenon DEF SleepsForSomething
  <2> QED
    BY <2>2, <2>3
<1>14. CASE UnprivServes
  <2>1. /\ tpc \in {"loop", "serve"} /\ tpc' \in {"serve", "ended"}
        /\ UNCHANGED <<mpc, npc, esdm_rpc_init_state, uid, missed>>
    BY <1>14, Zenon DEF UnprivServes, initVars
  <2>2. Order'
    BY <2>1, Zenon DEF Order
  <2>3. SleepsForSomething'
    BY <2>1, Zenon DEF SleepsForSomething
  <2> QED
    BY <2>2, <2>3
<1>15. CASE ServerReturns \/ ServerExits
  <2>1. /\ mpc' = "gone" /\ tpc' = "none" /\ npc' = "none"
        /\ UNCHANGED <<esdm_rpc_init_state, uid>>
    BY <1>15, Zenon DEF ServerReturns, ServerExits, Ends
  <2>2. Order'
    BY <2>1, Zenon DEF Order
  <2>3. SleepsForSomething'
    BY <2>1, Zenon DEF SleepsForSomething
  <2> QED
    BY <2>2, <2>3
<1>16. CASE sig_term
  <2>1. /\ mpc' = Wake(mpc) /\ tpc' = Wake(tpc)
        /\ UNCHANGED <<npc, esdm_rpc_init_state, uid>> /\ missed \subseteq missed'
    BY <1>16, Zenon DEF sig_term, thread_wake_all
  <2>2. tpc # "asleep2"
    BY Zenon DEF UnprivPlaces
  <2>3. Order'
    BY <2>1, <2>2, Zenon DEF Order, Wake
  <2>4. SleepsForSomething'
    BY <2>1, <2>2, Zenon DEF SleepsForSomething, Wake
  <2> QED
    BY <2>3, <2>4
<1>17. CASE ServerSignal \/ FeederGets \/ FeederStat \/ FeederOpen \/ CuseDaemon
    BY <1>17, StartQuiet, Zenon DEF ServerSignal, FeederGets, FeederStat, FeederOpen, CuseDaemon,
       StartVars, threadVars, initVars
<1>18. CASE UNCHANGED srvVars
    BY <1>18, StartQuiet, Zenon DEF srvVars, StartVars, threadVars, initVars
<1> QED
    BY <1>1, <1>2, <1>3, <1>4, <1>5, <1>7, <1>8, <1>9, <1>10, <1>11, <1>12, <1>13,
       <1>14, <1>15, <1>16, <1>17, <1>18, Zenon DEF ServerNext

(* the parent last                                                         *)
LEMMA CleanerStep ==
    ServerTypeOK /\ CleanerLast /\ [ServerNext]_srvVars => CleanerLast'
<1> SUFFICES ASSUME ServerTypeOK, CleanerLast, [ServerNext]_srvVars PROVE CleanerLast'
    BY Zenon
<1>q. UNCHANGED SocketVars => CleanerLast'
    BY DEF CleanerLast, NoneMine, Alive, SocketVars
<1>p. ASSUME UNCHANGED <<cpc, sock, early>>, pidfile' \in {pidfile, "absent"},
             mpc \notin {"none", "gone"}, mpc' # "none"
      PROVE  CleanerLast'
    BY <1>p, Zenon DEF CleanerLast, NoneMine, Alive
<1>w. \A p \in MainPlaces : Wake(p) = "none" <=> p = "none"
    BY Zenon DEF Wake, MainPlaces
<1>1. CASE MainWaits
    BY <1>1, <1>p, Zenon DEF MainWaits, cleanVars, fileVars
<1>2. CASE UnprivWaits \/ UnprivServes
    BY <1>2, <1>q, Zenon DEF UnprivWaits, UnprivServes, cleanVars, fileVars, SocketVars
<1>3. CASE create_pid_file
    BY <1>3, Zenon DEF create_pid_file, CleanerLast, NoneMine, Alive, threadVars
<1>4. CASE daemon_init \/ CleanerKnows \/ CleanerListens \/ CleanerWaits
    BY <1>4, Zenon DEF daemon_init, CleanerKnows, CleanerListens, CleanerWaits, CleanerLast,
       NoneMine, Alive, threadVars, fileVars
<1>5. CASE esdm_rpcs_cleanup
    BY <1>5, Zenon DEF esdm_rpcs_cleanup, CleanerLast, NoneMine, Alive, threadVars
<1>6. CASE CleanerReturns \/ CleanerSignal
    BY <1>6, Zenon DEF CleanerReturns, CleanerSignal, CleanerLast, NoneMine, Alive, Unlinked, threadVars
<1>7. CASE esdm_rpc_server_init
    BY <1>7, Zenon DEF esdm_rpc_server_init, CleanerLast, NoneMine, Alive, fileVars
<1>8. CASE esdm_rpc_priv_init_complete \/ sig_term \/ UnprivTells
    BY <1>8, <1>p, <1>w, Zenon DEF esdm_rpc_priv_init_complete, sig_term, UnprivTells, Alive,
       thread_wake_all, cleanVars, fileVars, Unlinked, ServerTypeOK
<1>9. CASE MainTells \/ MainServes \/ drop_privileges_permanent
    BY <1>9, <1>p, Zenon DEF MainTells, MainServes, drop_privileges_permanent, thread_wake_all, Wake,
       cleanVars, fileVars
<1>10. CASE esdm_rpcs_interfaces_init \/ esdm_rpcs_unpriv_init
  <2>1. /\ Alive /\ mpc' \notin {"none", "gone"}
        /\ UNCHANGED <<cpc, pidfile, early>>
    BY <1>10, Zenon DEF esdm_rpcs_interfaces_init, esdm_rpcs_unpriv_init, Alive, cleanVars
  <2> QED
    BY <2>1, Zenon DEF CleanerLast, Alive
<1>11. CASE ServerReturns \/ ServerExits
  <2>1. Alive /\ UNCHANGED <<cpc, sock, early>> /\ mpc' = "gone"
    BY <1>11, Zenon DEF ServerReturns, ServerExits, Ends, Alive, cleanVars
  <2>2. pidfile' \in {pidfile, "absent"}
    BY <1>11, Zenon DEF ServerReturns, ServerExits, Unlinked
  <2> QED
    BY <2>1, <2>2, <1>p, Zenon DEF Alive
<1>12. CASE ServerSignal \/ FeederGets \/ FeederStat \/ FeederOpen \/ CuseDaemon
    BY <1>12, <1>q, Zenon DEF ServerSignal, FeederGets, FeederStat, FeederOpen, CuseDaemon,
       SocketVars, cleanVars, threadVars, fileVars
<1>13. CASE UNCHANGED srvVars
    BY <1>13, <1>q, Zenon DEF srvVars, SocketVars, cleanVars, threadVars, fileVars
<1> QED
    BY <1>1, <1>2, <1>3, <1>4, <1>5, <1>6, <1>7, <1>8, <1>9, <1>10, <1>11, <1>12, <1>13, Zenon
    DEF ServerNext

(* and the feed outside.                                                   *)
LEMMA FeedStep == FeedOutside /\ [ServerNext]_srvVars => FeedOutside'
<1> SUFFICES ASSUME FeedOutside, [ServerNext]_srvVars PROVE FeedOutside'
    BY Zenon
<1> USE DEF FeedOutside, feedVars
<1>1. CASE FeederGets \/ FeederStat
    BY <1>1 DEF FeederGets, FeederStat
<1>2. CASE FeederOpen
    BY <1>2, Zenon DEF FeederOpen
<1>3. CASE CuseDaemon
    BY <1>3, Zenon DEF CuseDaemon
<1>4. CASE CleanerListens \/ CleanerReturns \/ CleanerSignal
    BY <1>4 DEF CleanerListens, CleanerReturns, CleanerSignal
<1>5. CASE MainWaits \/ UnprivWaits \/ create_pid_file \/ daemon_init
           \/ esdm_rpc_server_init \/ CleanerKnows \/ CleanerWaits \/ esdm_rpcs_cleanup
    BY <1>5 DEF MainWaits, UnprivWaits, create_pid_file, daemon_init,
       esdm_rpc_server_init, CleanerKnows, CleanerWaits, esdm_rpcs_cleanup
<1>6. CASE esdm_rpc_priv_init_complete \/ esdm_rpcs_interfaces_init \/ esdm_rpcs_unpriv_init
           \/ UnprivTells \/ drop_privileges_permanent
    BY <1>6 DEF esdm_rpc_priv_init_complete, esdm_rpcs_interfaces_init,
       esdm_rpcs_unpriv_init, UnprivTells, drop_privileges_permanent
<1>7. CASE MainTells \/ MainServes \/ UnprivServes \/ ServerReturns \/ sig_term
           \/ ServerExits \/ ServerSignal
    BY <1>7 DEF MainTells, MainServes, UnprivServes, ServerReturns, sig_term,
       ServerExits, ServerSignal
<1>8. CASE UNCHANGED srvVars
    BY <1>8, Zenon DEF srvVars
<1> QED
    BY <1>1, <1>2, <1>3, <1>4, <1>5, <1>6, <1>7, <1>8, Zenon DEF ServerNext

(* ServerInv holds at the start.                                           *)
LEMMA ServerInitOK == ServerInit => ServerInv
<1> SUFFICES ASSUME ServerInit PROVE ServerInv
    BY Zenon
<1>1. sock \in [Sockets -> Whose] /\ NoneMine
    BY Zenon DEF ServerInit, Whose, NoneMine
<1>2. ServerTypeOK
    BY <1>1, Zenon DEF ServerInit, ServerTypeOK, MainPlaces, UnprivPlaces
<1>3. Order /\ SleepsForSomething
    BY DEF ServerInit, Order, SleepsForSomething, Uninitialized, PermDropped
<1>4. CleanerLast /\ FeedOutside
    BY <1>1, Zenon DEF ServerInit, CleanerLast, FeedOutside
<1> QED
    BY <1>2, <1>3, <1>4, Zenon DEF ServerInv, StartInv

(* Every step keeps ServerInv.                                             *)
LEMMA ServerInvStep == ServerInv /\ [ServerNext]_srvVars => ServerInv'
BY ServerTypeStep, OrderStep, CleanerStep, FeedStep, Zenon DEF ServerInv, StartInv

(* Neither socket is served before the server has given up its privileges  *)
(* for good, and no thread sleeps in thread_wait_event() for a state that  *)
(* has come, unless the wake-up came between its test and its sleep        *)
(* (esdm_rpcs_workerloop(), drop_privileges_permanent(),                   *)
(* thread_wake_all()).                                                     *)
THEOREM StartOrderedCorrect == ServerSpec => []StartOrdered
<1>1. ServerInv => StartOrdered
    BY StateNames, Zenon DEF ServerInv, StartInv, Order, SleepsForSomething, StartOrdered
<1> QED
    BY ServerInitOK, ServerInvStep, <1>1, PTL DEF ServerSpec

(* The cleaner outlives the server and leaves neither a socket nor the PID *)
(* file of it behind, whatever signals the two get, except in the moments  *)
(* in which it does not pass a signal on (esdm_rpc_server_init(), its      *)
(* parent process).                                                        *)
THEOREM SocketsRemovedCorrect == ServerSpec => []SocketsRemoved
<1>1. ServerInv => SocketsRemoved
    BY Zenon DEF ServerInv, CleanerLast, NoneMine, SocketsRemoved
<1> QED
    BY ServerInitOK, ServerInvStep, <1>1, PTL DEF ServerSpec

(* What the ESDM delivers is not credited to it again: the feeder of the   *)
(* kernel looks for the CUSE daemon before it writes to /dev/random,       *)
(* unless the daemon comes up between the two looks.                       *)
THEOREM NoSelfFeedCorrect == ServerSpec => []NoSelfFeed
<1>1. ServerInv => NoSelfFeed
    BY Zenon DEF ServerInv, FeedOutside, NoSelfFeed
<1> QED
    BY ServerInitOK, ServerInvStep, <1>1, PTL DEF ServerSpec

-----------------------------------------------------------------------------
(* The segment and the semaphores                                          *)

(* The bounds are numbers, and the three processes are different.          *)
SegHypotheses == /\ NoSeg \notin Nat /\ MaxSem \in Nat \ {0} /\ MaxSegs \in Nat
                 /\ SServer # SCuse /\ SServer # SProvider /\ SCuse # SProvider

(* The places of a process.                                                *)
SegPlaces == {"off", "get", "create", "attach", "small", "rmid", "stat", "wait", "asleep",
           "random", "urandom", "level", "fill", "up"}

(* The types of the segments.                                              *)
SegShapes ==
    /\ att \in [Procs -> Segs \cup {NoSeg}]
    /\ id \in [Procs -> Segs \cup {NoSeg}]
    /\ at \in [Procs -> SegPlaces]
    /\ key \in Segs \cup {NoSeg} /\ segs \in Segs

(* Who is attached is attached to the segment that has the key, which no   *)
(* client is about to remove, unless somebody attached to it meanwhile.    *)
OneSegment ==
    /\ ~exposed => \A p \in Procs : att[p] # NoSeg => att[p] = key
    /\ ~exposed => \A c \in Clients, p \in Procs :
                      at[c] = "rmid" /\ att[p] # NoSeg => att[p] # id[c]

(* The types of the semaphores, and that a client that runs has made its   *)
(* own.                                                                    *)
SemShapes ==
    /\ sems \in [DOMAIN sems -> Nat]
    /\ mine \subseteq DOMAIN sems
    /\ \A c \in Clients : at[c] # "off" => SemOf(c) \in DOMAIN sems

(* What the server has opened at each place.                               *)
Opened ==
    /\ at[SServer] \in {"urandom", "level", "fill", "up"} => "random" \in mine
    /\ at[SServer] \in {"level", "fill", "up"} => "urandom" \in mine
    /\ at[SServer] \in {"fill", "up"} => "level" \in mine

(* A client asleep since before a start of the server finds its semaphore  *)
(* raised once the server has opened it.                                   *)
SleptWoken ==
    \A c \in slept : /\ c \in Clients /\ at[c] = "asleep"
                     /\ SemOf(c) \in mine => sems[SemOf(c)] > 0

(* Server and clients are processes.                                       *)
LEMMA ClientsAreProcs ==
    SServer \in Procs /\ Clients \subseteq Procs
BY Zenon DEF Procs, Clients

(* What a change of place comes to,                                        *)
LEMMA ProcMoved ==
    ASSUME SegShapes, NEW p \in Procs, NEW l \in SegPlaces, At(p, l)
    PROVE  /\ at' \in [Procs -> SegPlaces] /\ at'[p] = l
           /\ \A q \in Procs : q # p => at'[q] = at[q]
BY Zenon DEF SegShapes, At

(* of the identifier                                                       *)
LEMMA Identified ==
    ASSUME SegShapes, NEW p \in Procs, NEW s \in Segs \cup {NoSeg}, Id(p, s)
    PROVE  /\ id' \in [Procs -> Segs \cup {NoSeg}] /\ id'[p] = s
           /\ \A q \in Procs : q # p => id'[q] = id[q]
BY Zenon DEF SegShapes, Id

(* and of leaving.                                                         *)
LEMMA Left ==
    ASSUME SegShapes, NEW p \in Procs, Leave(p)
    PROVE  /\ at' \in [Procs -> SegPlaces] /\ at'[p] = "off"
           /\ \A q \in Procs : q # p => at'[q] = at[q]
           /\ id' \in [Procs -> Segs \cup {NoSeg}] /\ id'[p] = NoSeg
           /\ \A q \in Procs : q # p => id'[q] = id[q]
           /\ att' \in [Procs -> Segs \cup {NoSeg}] /\ att'[p] = NoSeg
           /\ \A q \in Procs : q # p => att'[q] = att[q]
<1>1. "off" \in SegPlaces /\ At(p, "off") /\ Id(p, NoSeg)
    BY Zenon DEF SegPlaces, Leave
<1>2. att' = [att EXCEPT ![p] = NoSeg]
    BY Zenon DEF Leave
<1>3. /\ att' \in [Procs -> Segs \cup {NoSeg}] /\ att'[p] = NoSeg
      /\ \A q \in Procs : q # p => att'[q] = att[q]
    BY <1>2, Zenon DEF SegShapes
<1> QED
    BY <1>1, <1>3, ProcMoved, Identified, Zenon

(* What a step of process p may do to the attachments.                     *)
Steps(p) ==
    /\ SegShapes'
    /\ \A q \in Procs : q # p => at'[q] = at[q] /\ id'[q] = id[q] /\ att'[q] = att[q]
    /\ exposed => exposed'

(* shmget() with IPC_CREAT,                                                *)
LEMMA Creates ==
    ASSUME SegHypotheses, SegShapes, NEW p \in Procs, Create(p)
    PROVE  /\ Steps(p) /\ at'[p] = "attach" /\ att' = att
           /\ key' = key \/ key = NoSeg
<1>1. At(p, "attach") /\ "attach" \in SegPlaces /\ UNCHANGED <<att, exposed>>
    BY Zenon DEF Create, SegPlaces
<1>2. CASE key = NoSeg
  <2>1. /\ segs' = segs + 1 /\ key' = segs + 1 /\ Id(p, segs + 1) /\ segs + 1 \in Segs
    BY <1>2 DEF Create, SegShapes, Segs, SegHypotheses
  <2> QED
    BY <1>1, <1>2, <2>1, ProcMoved, Identified DEF Steps, SegShapes
<1>3. CASE key # NoSeg
  <2>1. UNCHANGED <<key, segs>> /\ Id(p, key) /\ key \in Segs \cup {NoSeg}
    BY <1>3, Zenon DEF Create, SegShapes
  <2> QED
    BY <1>1, <1>3, <2>1, ProcMoved, Identified DEF Steps, SegShapes
<1> QED
    BY <1>2, <1>3, Zenon

(* and shmat().                                                            *)
LEMMA Attaches ==
    ASSUME SegShapes, NEW p \in Procs, NEW next \in SegPlaces, next # "rmid", Attach(p, next)
    PROVE  /\ Steps(p) /\ at'[p] \in {next, "off"} /\ key' = key
           /\ att'[p] # NoSeg => /\ att'[p] = id[p] /\ Exists(id[p])
                                 /\ exposed' \/ \A c \in Clients \ {p} :
                                                    at[c] = "rmid" => id[c] # id[p]
<1>1. CASE Exists(id[p])
  <2>1. /\ att' = [att EXCEPT ![p] = id[p]] /\ At(p, next) /\ UNCHANGED <<id, key, segs>>
        /\ exposed' = (exposed \/ \E c \in Clients \ {p} : at[c] = "rmid" /\ id[c] = id[p])
    BY <1>1, Zenon DEF Attach
  <2>2. /\ att' \in [Procs -> Segs \cup {NoSeg}] /\ att'[p] = id[p]
        /\ \A q \in Procs : q # p => att'[q] = att[q]
    BY <2>1, Zenon DEF SegShapes
  <2> QED
    BY <1>1, <2>1, <2>2, ProcMoved, Zenon DEF Steps, SegShapes
<1>2. CASE ~Exists(id[p])
  <2>1. Leave(p) /\ UNCHANGED <<key, segs, exposed>>
    BY <1>2, Zenon DEF Attach
  <2> QED
    BY <2>1, Left, Zenon DEF Steps, SegShapes
<1> QED
    BY <1>1, <1>2, Zenon

(* A step that attaches to nothing new keeps OneSegment,                   *)
LEMMA OneSegmentKept ==
    ASSUME SegShapes, OneSegment, NEW p \in Procs, Steps(p),
           att'[p] \in {att[p], NoSeg}, key' = key \/ key = NoSeg, at'[p] # "rmid"
    PROVE  OneSegment'
<1>1. ~exposed' => \A q \in Procs : att'[q] # NoSeg => att'[q] = att[q] /\ att[q] = key'
    BY Zenon DEF OneSegment, Steps
<1>2. \A c \in Clients : at'[c] = "rmid" => at[c] = "rmid" /\ id'[c] = id[c]
    BY ClientsAreProcs, Zenon DEF Steps
<1> QED
    BY <1>1, <1>2 DEF OneSegment, Steps

(* and so does one that attaches.                                          *)
LEMMA OneSegmentAttached ==
    ASSUME SegShapes, OneSegment, NEW p \in Procs, NEW next \in SegPlaces, next # "rmid",
           Attach(p, next)
    PROVE  OneSegment'
<1>1. /\ Steps(p) /\ at'[p] # "rmid" /\ key' = key
      /\ att'[p] # NoSeg => /\ att'[p] = id[p] /\ Exists(id[p])
                            /\ exposed' \/ \A c \in Clients \ {p} :
                                               at[c] = "rmid" => id[c] # id[p]
    BY Attaches, Zenon DEF SegPlaces
<1>2. ~exposed /\ Exists(id[p]) => id[p] = key
    BY Zenon DEF Exists, Attached, OneSegment
<1>3. \A c \in Clients : c \in Procs
    BY Zenon DEF Clients, Procs
<1> QED
    BY <1>1, <1>2, <1>3 DEF OneSegment, Steps

(* Every step keeps the segments,                                          *)
LEMMA SegmentStep ==
    ASSUME SegHypotheses, SegShapes, OneSegment, [SegNext]_segVars
    PROVE  SegShapes' /\ OneSegment'
<1> USE ClientsAreProcs DEF SegHypotheses
<1>q. ASSUME NEW p \in Procs, NEW l \in SegPlaces, At(p, l), l # "rmid",
             UNCHANGED <<key, segs, att, id, exposed>>
      PROVE  SegShapes' /\ OneSegment'
  <2>1. Steps(p) /\ at'[p] = l
    BY <1>q, ProcMoved, Zenon DEF Steps, SegShapes
  <2> QED
    BY <1>q, <2>1, OneSegmentKept, Zenon DEF Steps
<1>l. ASSUME NEW p \in Procs, Leave(p), UNCHANGED <<key, segs, exposed>>
      PROVE  SegShapes' /\ OneSegment'
  <2>1. Steps(p) /\ at'[p] = "off" /\ att'[p] = NoSeg
    BY <1>l, Left, Zenon DEF Steps, SegShapes
  <2> QED
    BY <1>l, <2>1, OneSegmentKept, Zenon DEF Steps
<1>i. ASSUME NEW p \in Procs, NEW l \in SegPlaces, At(p, l), l # "rmid", Id(p, key),
             UNCHANGED <<key, segs, att, exposed>>
      PROVE  SegShapes' /\ OneSegment'
  <2>1. Steps(p) /\ at'[p] = l
    BY <1>i, ProcMoved, Identified DEF Steps, SegShapes
  <2> QED
    BY <1>i, <2>1, OneSegmentKept, Zenon DEF Steps
<1>c. ASSUME NEW p \in Procs, Create(p) PROVE SegShapes' /\ OneSegment'
  <2>1. Steps(p) /\ at'[p] = "attach" /\ att' = att /\ (key' = key \/ key = NoSeg)
    BY <1>c, Creates, Zenon
  <2> QED
    BY <2>1, OneSegmentKept, Zenon DEF Steps
<1>p. {"create", "small", "attach", "random", "urandom", "level", "fill", "up", "get", "stat",
       "wait", "asleep", "off", "rmid"} \subseteq SegPlaces
    BY Zenon DEF SegPlaces
<1>1. CASE SrvGet
    BY <1>1, <1>q, <1>i, <1>p, Zenon DEF SrvGet
<1>2. CASE SrvGetSmall
  <2>1. CASE key = NoSeg
    BY <1>2, <2>1, <1>i, <1>p, Zenon DEF SrvGetSmall
  <2>2. CASE key # NoSeg
    <3>1. At(SServer, "rmid") /\ Id(SServer, key) /\ UNCHANGED <<key, segs, att, exposed>>
      BY <1>2, <2>2, Zenon DEF SrvGetSmall
    <3>2. Steps(SServer)
      BY <3>1, <1>p, ProcMoved, Identified DEF Steps, SegShapes
    <3>3. \A c \in Clients : at'[c] = at[c] /\ id'[c] = id[c]
      BY <3>2, Zenon DEF Steps, Clients
    <3> QED
      BY <3>1, <3>2, <3>3 DEF Steps, OneSegment
  <2> QED
    BY <2>1, <2>2, Zenon
<1>3. CASE SrvRemove
  <2>1. CASE Exists(id[SServer])
    <3>1. /\ At(SServer, "create") /\ UNCHANGED <<segs, att, id>>
          /\ key' = IF key = id[SServer] THEN NoSeg ELSE key
          /\ exposed' = (exposed \/ Attached(id[SServer]) # {})
      BY <1>3, <2>1, Zenon DEF SrvRemove, Remove
    <3>2. Steps(SServer) /\ at'[SServer] = "create"
      BY <3>1, <1>p, ProcMoved, Zenon DEF Steps, SegShapes
    <3>3. ~exposed' /\ key' # key => \A p \in Procs : att[p] = NoSeg
      BY <3>1, Zenon DEF OneSegment, Attached
    <3>4. \A c \in Clients : at'[c] = at[c]
      BY <3>2, Zenon DEF Steps, Clients
    <3> QED
      BY <3>1, <3>2, <3>3, <3>4 DEF OneSegment, Steps
  <2>2. CASE ~Exists(id[SServer])
    BY <1>3, <2>2, <1>q, <1>p, Zenon DEF SrvRemove
  <2> QED
    BY <2>1, <2>2, Zenon
<1>4. CASE SrvCreate
    BY <1>4, <1>c, Zenon DEF SrvCreate
<1>5. CASE SrvAttach
    BY <1>5, <1>p, OneSegmentAttached, Attaches, Zenon DEF SrvAttach, Steps
<1>6. CASE SrvSem("random", "urandom") \/ SrvSem("urandom", "level") \/ SrvSem("level", "fill")
    BY <1>6, <1>q, <1>p, Zenon DEF SrvSem
<1>7. CASE SrvSemFails \/ SrvExit
    BY <1>7, <1>l, Zenon DEF SrvSemFails, SrvExit
<1>8. ASSUME NEW o \in BOOLEAN, NEW n \in BOOLEAN, SrvStatus(o, n) PROVE SegShapes' /\ OneSegment'
    BY <1>8, <1>q, <1>p, Zenon DEF SrvStatus
<1>9. ASSUME NEW c \in Clients, CliSem(c) \/ CreateShm(c) PROVE SegShapes' /\ OneSegment'
  <2>1. CASE CliSem(c)
    BY <2>1, <1>q, <1>p, Zenon DEF CliSem
  <2>2. CASE CliGet(c)
    <3>1. CASE key = SmallSeg
      BY <2>2, <3>1, <1>l, Zenon DEF CliGet
    <3>2. CASE key # SmallSeg
      BY <2>2, <3>2, <1>i, <1>p, Zenon DEF CliGet
    <3> QED
      BY <3>1, <3>2, Zenon
  <2>3. CASE CliStat(c)
    <3>1. CASE ~Exists(id[c])
      BY <2>3, <3>1, <1>l, Zenon DEF CliStat
    <3>2. CASE Exists(id[c]) /\ Attached(id[c]) # {}
      BY <2>3, <3>2, <1>q, <1>p, Zenon DEF CliStat
    <3>3. CASE Exists(id[c]) /\ Attached(id[c]) = {}
      <4>1. At(c, "rmid") /\ UNCHANGED <<key, segs, att, id, exposed>>
        BY <2>3, <3>3, Zenon DEF CliStat
      <4>2. Steps(c)
        BY <4>1, <1>p, ProcMoved DEF Steps, SegShapes
      <4>3. \A p \in Procs : att[p] # id[c]
        BY <3>3, Zenon DEF Attached
      <4>4. ASSUME ~exposed', NEW d \in Clients, NEW p \in Procs, at'[d] = "rmid", att'[p] # NoSeg
            PROVE  att'[p] # id'[d]
        <5>1. att'[p] = att[p] /\ id' = id /\ ~exposed
          BY <4>1, <4>4, Zenon
        <5>2. CASE d = c
          BY <4>3, <5>1, <5>2, Zenon
        <5>3. CASE d # c
          <6>1. at[d] = "rmid"
            BY <4>2, <4>4, <5>3, ClientsAreProcs, Zenon DEF Steps
          <6> QED
            BY <4>4, <5>1, <6>1, Zenon DEF OneSegment
        <5> QED
          BY <5>2, <5>3, Zenon
      <4>5. ~exposed' => \A p \in Procs : att'[p] # NoSeg => att'[p] = key'
        BY <4>1, Zenon DEF OneSegment
      <4> QED
        BY <4>2, <4>4, <4>5, Zenon DEF OneSegment, Steps
    <3> QED
      BY <3>1, <3>2, <3>3, Zenon
  <2>4. CASE CliRemove(c)
    <3>1. /\ At(c, "create") /\ Id(c, NoSeg) /\ UNCHANGED <<segs, att, exposed>>
          /\ key' = IF key = id[c] THEN NoSeg ELSE key
          /\ at[c] = "rmid"
      BY <2>4, Zenon DEF CliRemove, Remove
    <3>2. Steps(c) /\ at'[c] = "create"
      BY <3>1, <1>p, ProcMoved, Identified DEF Steps, SegShapes
    <3>3. ~exposed /\ key' # key => \A p \in Procs : att[p] = NoSeg
      BY <3>1, Zenon DEF OneSegment
    <3>4. ~exposed' => \A p \in Procs : att'[p] # NoSeg => att'[p] = key'
      BY <3>1, <3>3, Zenon DEF OneSegment
    <3>5. ASSUME NEW d \in Clients, at'[d] = "rmid" PROVE at[d] = "rmid" /\ id'[d] = id[d]
      <4>1. d # c
        BY <3>2, <3>5, Zenon
      <4> QED
        BY <3>2, <3>5, <4>1, ClientsAreProcs, Zenon DEF Steps
    <3>6. ASSUME ~exposed', NEW d \in Clients, NEW p \in Procs, at'[d] = "rmid", att'[p] # NoSeg
          PROVE  att'[p] # id'[d]
      BY <3>1, <3>5, <3>6, Zenon DEF OneSegment
    <3> QED
      BY <3>2, <3>4, <3>6, Zenon DEF OneSegment, Steps
  <2>5. CASE Create(c)
    BY <2>5, <1>c, Zenon
  <2>6. CASE CliAttach(c)
    BY <2>6, <1>p, OneSegmentAttached, Attaches, Zenon DEF CliAttach, Steps
  <2> QED
    BY <1>9, <2>1, <2>2, <2>3, <2>4, <2>5, <2>6, Zenon DEF CreateShm
<1>10. ASSUME NEW c \in Clients, CliSleep(c) \/ CliWoken(c) PROVE SegShapes' /\ OneSegment'
    BY <1>10, <1>q, <1>p, Zenon DEF CliSleep, CliWoken
<1>11. ASSUME NEW p \in Procs, Killed(p) PROVE SegShapes' /\ OneSegment'
    BY <1>11, <1>l, Zenon DEF Killed
<1>12. CASE UNCHANGED segVars
    BY <1>12, Zenon DEF segVars, SegShapes, OneSegment
<1>13. SCuse \in Clients /\ SProvider \in Clients
    BY Zenon DEF Clients
<1> QED
    BY <1>1, <1>2, <1>3, <1>4, <1>5, <1>6, <1>7, <1>8, <1>9, <1>10, <1>11, <1>12, <1>13, Zenon
    DEF SegNext, SrvStep, CuseInitDone, AuxInitWait

(* The inductive invariant of the semaphores.                              *)
SemInv == SegShapes /\ SemShapes /\ Opened /\ SleptWoken

(* The clients are not the server, and each has a semaphore of its own.    *)
LEMMA SemNames ==
    ASSUME SegHypotheses
    PROVE  /\ SServer \notin Clients
           /\ \A c, d \in Clients : SemOf(c) = SemOf(d) => c = d
BY Zenon DEF SegHypotheses, Clients, SemOf

(* A client that is not asleep moves, and no semaphore changes.            *)
LEMMA SemQuiet ==
    ASSUME SegHypotheses, SemInv, NEW c \in Clients, at[c] \notin {"off", "asleep"},
           at' \in [Procs -> SegPlaces], at'[c] # "off",
           \A q \in Procs : q # c => at'[q] = at[q], UNCHANGED <<sems, mine, slept>>
    PROVE  SemShapes' /\ Opened' /\ SleptWoken'
<1>1. at'[SServer] = at[SServer]
    BY SemNames, ClientsAreProcs, Zenon
<1>2. SemShapes'
    BY ClientsAreProcs, Zenon DEF SemInv, SemShapes
<1>3. Opened'
    BY <1>1, Zenon DEF SemInv, Opened
<1>4. SleptWoken'
    BY ClientsAreProcs, Zenon DEF SemInv, SleptWoken
<1> QED
    BY <1>2, <1>3, <1>4, Zenon

(* The server moves, and no semaphore changes.                             *)
LEMMA SemServerQuiet ==
    ASSUME SegHypotheses, SemInv, at' \in [Procs -> SegPlaces],
           at'[SServer] \notin {"urandom", "level", "fill", "up"},
           \A q \in Procs : q # SServer => at'[q] = at[q], UNCHANGED <<sems, mine, slept>>
    PROVE  SemShapes' /\ Opened' /\ SleptWoken'
<1>1. \A c \in Clients : at'[c] = at[c]
    BY SemNames, ClientsAreProcs, Zenon
<1>2. SemShapes'
    BY <1>1, Zenon DEF SemInv, SemShapes
<1>3. Opened'
    BY Zenon DEF Opened
<1>4. SleptWoken'
    BY <1>1, Zenon DEF SemInv, SleptWoken
<1> QED
    BY <1>2, <1>3, <1>4, Zenon

(* A client is gone, with the semaphores as they are.                      *)
LEMMA ClientLeft ==
    ASSUME SegHypotheses, SemInv, NEW c \in Clients, Leave(c), sems' = sems
    PROVE  SemShapes' /\ Opened' /\ SleptWoken'
<1>1. c # SServer /\ c \in Procs
    BY SemNames, ClientsAreProcs, Zenon
<1>2. /\ at'[c] = "off" /\ \A q \in Procs : q # c => at'[q] = at[q]
    BY <1>1, Left, Zenon DEF SemInv
<1>3. slept' = slept \ {c} /\ mine' = mine
    BY <1>1, Zenon DEF Leave
<1>4. SemShapes'
    BY <1>2, <1>3, ClientsAreProcs, Zenon DEF SemInv, SemShapes
<1>5. Opened'
    BY <1>1, <1>2, <1>3, ClientsAreProcs, Zenon DEF SemInv, Opened
<1>6. SleptWoken'
    BY <1>2, <1>3, ClientsAreProcs, Zenon DEF SemInv, SleptWoken
<1> QED
    BY <1>4, <1>5, <1>6, Zenon

(* The semaphores are raised; none is created or removed.                  *)
LEMMA RaisedMore ==
    ASSUME SemShapes, NEW set
    PROVE  /\ Raised(set) \in [DOMAIN sems -> Nat]
           /\ \A m \in DOMAIN sems : Raised(set)[m] >= sems[m]
BY DEF SemShapes, Raised

(* The server is gone: those asleep are asleep since before its next start. *)
LEMMA ServerLeft ==
    ASSUME SegHypotheses, SemInv, Leave(SServer), DOMAIN sems' = DOMAIN sems,
           sems' \in [DOMAIN sems -> Nat]
    PROVE  SemShapes' /\ Opened' /\ SleptWoken'
<1>1. /\ at'[SServer] = "off" /\ \A q \in Procs : q # SServer => at'[q] = at[q]
    BY Left, ClientsAreProcs, Zenon DEF SemInv
<1>2. slept' = {c \in Clients : at[c] = "asleep"} /\ mine' = {}
    BY Zenon DEF Leave
<1>3. \A c \in Clients : at'[c] = at[c]
    BY <1>1, SemNames, ClientsAreProcs, Zenon
<1>4. SemShapes'
    BY <1>2, <1>3, Zenon DEF SemInv, SemShapes
<1>5. Opened'
    BY <1>1, Zenon DEF Opened
<1>6. SleptWoken'
    BY <1>2, <1>3, Zenon DEF SleptWoken
<1> QED
    BY <1>4, <1>5, <1>6, Zenon

(* The server opens a semaphore: who sleeps on it finds it raised.         *)
LEMMA SemOpened ==
    ASSUME SegHypotheses, SemInv, NEW n, NEW next \in SegPlaces, SrvSem(n, next)
    PROVE  /\ SemShapes' /\ SleptWoken' /\ mine' = mine \cup {n} /\ at'[SServer] = next
<1>1. /\ at'[SServer] = next /\ \A c \in Clients : at'[c] = at[c]
    BY ProcMoved, SemNames, ClientsAreProcs, Zenon DEF SrvSem, SemInv
<1>2. mine' = mine \cup {n} /\ slept' = slept
    BY Zenon DEF SrvSem
<1>3. DOMAIN sems' = DOMAIN sems \cup {n}
    BY Zenon DEF SrvSem
<1>4. \A m \in DOMAIN sems : m # n => sems'[m] = sems[m]
    BY Zenon DEF SrvSem
<1>5. sems'[n] \in Nat /\ (n \in DOMAIN sems => sems'[n] > 0)
  <2>1. sems'[n] = IF n \notin DOMAIN sems THEN 0
                   ELSE IF sems[n] = MaxSem THEN MaxSem ELSE sems[n] + 1
    BY Zenon DEF SrvSem
  <2> QED
    BY <2>1 DEF SemInv, SemShapes, SegHypotheses
<1>6. sems' \in [DOMAIN sems' -> Nat]
  <2>1. \A m \in DOMAIN sems' : sems'[m] \in Nat
    BY <1>3, <1>4, <1>5, Zenon DEF SemInv, SemShapes
  <2>2. sems' = [m \in DOMAIN sems' |-> sems'[m]]
    BY Zenon DEF SrvSem
  <2> QED
    BY <2>1, <2>2, Zenon
<1>7. SemShapes'
    BY <1>1, <1>2, <1>3, <1>6, Zenon DEF SemInv, SemShapes
<1>8. SleptWoken'
  <2> SUFFICES ASSUME NEW c \in slept
               PROVE  /\ c \in Clients /\ at'[c] = "asleep"
                      /\ SemOf(c) \in mine' => sems'[SemOf(c)] > 0
    BY <1>2, Zenon DEF SleptWoken
  <2>1. c \in Clients /\ at[c] = "asleep" /\ SemOf(c) \in DOMAIN sems
    BY Zenon DEF SemInv, SleptWoken, SemShapes
  <2>2. CASE SemOf(c) = n
    BY <1>1, <1>5, <2>1, <2>2, Zenon
  <2>3. CASE SemOf(c) # n
    BY <1>1, <1>2, <1>4, <2>1, <2>3, Zenon DEF SemInv, SleptWoken
  <2> QED
    BY <2>2, <2>3, Zenon
<1> QED
    BY <1>1, <1>2, <1>7, <1>8, Zenon

(* and the semaphores.                                                     *)
LEMMA SemStep ==
    ASSUME SegHypotheses, SemInv, [SegNext]_segVars
    PROVE  SemShapes' /\ Opened' /\ SleptWoken'
<1> USE ClientsAreProcs
<1>s. SegShapes
    BY Zenon DEF SemInv
<1>p. {"create", "small", "attach", "random", "urandom", "level", "fill", "up", "get", "stat",
       "wait", "asleep", "off", "rmid"} \subseteq SegPlaces
    BY Zenon DEF SegPlaces
<1>m. ASSUME NEW p \in Procs, NEW l \in SegPlaces, At(p, l)
      PROVE  /\ at' \in [Procs -> SegPlaces] /\ at'[p] = l
             /\ \A q \in Procs : q # p => at'[q] = at[q]
    BY <1>m, <1>s, ProcMoved, Zenon
<1>1. CASE SrvGet \/ SrvGetSmall \/ SrvRemove \/ SrvCreate
  <2>1. PICK l \in {"create", "small", "attach", "rmid"} : At(SServer, l)
    BY <1>1, Zenon DEF SrvGet, SrvGetSmall, SrvRemove, SrvCreate, Create
  <2>2. UNCHANGED <<sems, mine, slept>>
    BY <1>1, Zenon DEF SrvGet, SrvGetSmall, SrvRemove, SrvCreate, Create
  <2> QED
    BY <2>1, <2>2, <1>m, <1>p, SemServerQuiet, Zenon
<1>2. CASE SrvAttach
  <2>1. CASE Leave(SServer)
    BY <1>2, <2>1, ServerLeft, Zenon DEF SrvAttach, Attach, SemInv, SemShapes
  <2>2. CASE At(SServer, "random") /\ UNCHANGED <<slept, mine>>
    BY <1>2, <2>2, <1>m, <1>p, SemServerQuiet, Zenon DEF SrvAttach, Attach
  <2> QED
    BY <1>2, <2>1, <2>2, Zenon DEF SrvAttach, Attach
<1>3. CASE SrvSem("random", "urandom")
    BY <1>3, <1>p, SemOpened DEF Opened
<1>4. CASE SrvSem("urandom", "level")
  <2>1. "random" \in mine
    BY <1>4, Zenon DEF SemInv, Opened, SrvSem
  <2> QED
    BY <1>4, <2>1, <1>p, SemOpened DEF Opened
<1>5. CASE SrvSem("level", "fill")
  <2>1. "random" \in mine /\ "urandom" \in mine
    BY <1>5, Zenon DEF SemInv, Opened, SrvSem
  <2> QED
    BY <1>5, <2>1, <1>p, SemOpened, Zenon DEF Opened
<1>6. CASE SrvSemFails \/ SrvExit
  <2>1. sems' = sems \/ sems' = Raised(Names)
    BY <1>6, Zenon DEF SrvSemFails, SrvExit
  <2>2. DOMAIN Raised(Names) = DOMAIN sems
    BY Zenon DEF Raised
  <2>3. DOMAIN sems' = DOMAIN sems /\ sems' \in [DOMAIN sems -> Nat]
    BY <2>1, <2>2, RaisedMore, Zenon DEF SemInv, SemShapes
  <2> QED
    BY <1>6, <2>3, ServerLeft, Zenon DEF SrvSemFails, SrvExit
<1>7. ASSUME NEW o \in BOOLEAN, NEW n \in BOOLEAN, SrvStatus(o, n)
      PROVE  SemShapes' /\ Opened' /\ SleptWoken'
  <2>1. PICK set : sems' = Raised(set)
    BY <1>7, Zenon DEF SrvStatus, Announce
  <2>2. /\ At(SServer, "up") /\ at[SServer] \in {"fill", "up"} /\ UNCHANGED <<mine, slept>>
    BY <1>7, Zenon DEF SrvStatus
  <2>3. at'[SServer] = "up" /\ \A c \in Clients : at'[c] = at[c]
    BY <2>2, <1>m, <1>p, SemNames, Zenon
  <2>4. DOMAIN sems' = DOMAIN sems
    BY <2>1, Zenon DEF Raised
  <2>5. sems' \in [DOMAIN sems -> Nat] /\ \A m \in DOMAIN sems : sems'[m] >= sems[m]
    BY <2>1, RaisedMore, Zenon DEF SemInv
  <2>6. SemShapes'
    BY <2>2, <2>3, <2>4, <2>5, Zenon DEF SemInv, SemShapes
  <2>7. Opened'
    BY <2>2, <2>3, Zenon DEF SemInv, Opened
  <2>8. SleptWoken'
    BY <2>2, <2>3, <2>5 DEF SemInv, SemShapes, SleptWoken
  <2> QED
    BY <2>6, <2>7, <2>8, Zenon
<1>8. ASSUME NEW c \in Clients, CliSem(c) \/ CreateShm(c)
      PROVE  SemShapes' /\ Opened' /\ SleptWoken'
  <2>1. CASE CliSem(c)
    <3>1. At(c, "get") /\ at[c] = "off" /\ UNCHANGED <<mine, slept>>
      BY <2>1, Zenon DEF CliSem
    <3>2. at'[c] = "get" /\ (\A q \in Procs : q # c => at'[q] = at[q]) /\ at'[SServer] = at[SServer]
      BY <3>1, <1>m, <1>p, SemNames, Zenon
    <3>3. sems' = [m \in DOMAIN sems \cup {SemOf(c)} |-> IF m \in DOMAIN sems THEN sems[m] ELSE 0]
      BY <2>1, Zenon DEF CliSem
    <3>4. /\ DOMAIN sems' = DOMAIN sems \cup {SemOf(c)}
          /\ \A m \in DOMAIN sems : sems'[m] = sems[m]
          /\ sems' \in [DOMAIN sems' -> Nat]
      BY <3>3, Zenon DEF SemInv, SemShapes
    <3>5. SemShapes'
      BY <3>1, <3>2, <3>4, Zenon DEF SemInv, SemShapes
    <3>6. Opened'
      BY <3>1, <3>2, Zenon DEF SemInv, Opened
    <3>7. SleptWoken'
      BY <3>1, <3>2, <3>4, Zenon DEF SemInv, SemShapes, SleptWoken
    <3> QED
      BY <3>5, <3>6, <3>7, Zenon
  <2>2. CASE Leave(c) /\ sems' = sems
    BY <2>2, ClientLeft, Zenon
  <2>3. ASSUME CreateShm(c), ~Leave(c) PROVE SemShapes' /\ Opened' /\ SleptWoken'
    <3>1. PICK l \in {"create", "stat", "rmid", "attach", "wait"} : At(c, l)
      BY <2>3, Zenon DEF CreateShm, CliGet, CliStat, CliRemove, Create, CliAttach, Attach
    <3>2. at[c] \in {"get", "stat", "rmid", "create", "attach"} /\ UNCHANGED <<sems, mine, slept>>
      BY <2>3, Zenon DEF CreateShm, CliGet, CliStat, CliRemove, Create, CliAttach, Attach
    <3> QED
      BY <3>1, <3>2, <1>m, <1>p, SemQuiet, Zenon
  <2>4. CreateShm(c) => sems' = sems
    BY Zenon DEF CreateShm, CliGet, CliStat, CliRemove, Create, CliAttach, Attach
  <2> QED
    BY <1>8, <2>1, <2>2, <2>3, <2>4, Zenon
<1>9. ASSUME NEW c \in Clients, CliSleep(c) PROVE SemShapes' /\ Opened' /\ SleptWoken'
  <2>1. /\ At(c, "asleep") /\ at[c] = "wait" /\ UNCHANGED <<sems, mine>>
        /\ slept' = IF SemOf(c) \in mine THEN slept ELSE slept \cup {c}
    BY <1>9, Zenon DEF CliSleep
  <2>2. at'[c] = "asleep" /\ (\A q \in Procs : q # c => at'[q] = at[q]) /\ at'[SServer] = at[SServer]
    BY <2>1, <1>m, <1>p, SemNames, Zenon
  <2>3. SemShapes'
    BY <2>1, <2>2, Zenon DEF SemInv, SemShapes
  <2>4. Opened'
    BY <2>1, <2>2, Zenon DEF SemInv, Opened
  <2>5. SleptWoken'
    BY <2>1, <2>2, Zenon DEF SemInv, SleptWoken
  <2> QED
    BY <2>3, <2>4, <2>5
<1>10. ASSUME NEW c \in Clients, CliWoken(c) PROVE SemShapes' /\ Opened' /\ SleptWoken'
  <2>1. /\ At(c, "wait") /\ at[c] = "asleep" /\ mine' = mine /\ slept' = slept \ {c}
        /\ sems[SemOf(c)] > 0
    BY <1>10, Zenon DEF CliWoken
  <2>2. PICK left \in {sems[SemOf(c)] - 1} \cup ({MaxSem} \cap {sems[SemOf(c)]}) :
           sems' = [sems EXCEPT ![SemOf(c)] = left]
    BY <1>10, Zenon DEF CliWoken
  <2>3. at'[c] = "wait" /\ (\A q \in Procs : q # c => at'[q] = at[q]) /\ at'[SServer] = at[SServer]
    BY <2>1, <1>m, <1>p, SemNames, Zenon
  <2>4. SemOf(c) \in DOMAIN sems /\ left \in Nat
    BY <2>1, <2>2 DEF SemInv, SemShapes
  <2>5. /\ DOMAIN sems' = DOMAIN sems /\ sems' \in [DOMAIN sems -> Nat]
        /\ \A m \in DOMAIN sems : m # SemOf(c) => sems'[m] = sems[m]
    BY <2>2, <2>4, Zenon DEF SemInv, SemShapes
  <2>6. SemShapes'
    BY <2>1, <2>3, <2>5, Zenon DEF SemInv, SemShapes
  <2>7. Opened'
    BY <2>1, <2>3, Zenon DEF SemInv, Opened
  <2>8. SleptWoken'
    BY <2>1, <2>3, <2>5, SemNames, Zenon DEF SemInv, SemShapes, SleptWoken
  <2> QED
    BY <2>6, <2>7, <2>8, Zenon
<1>11. ASSUME NEW p \in Procs, Killed(p) PROVE SemShapes' /\ Opened' /\ SleptWoken'
  <2>1. Leave(p) /\ sems' = sems
    BY <1>11, Zenon DEF Killed
  <2>2. p = SServer \/ p \in Clients
    BY Zenon DEF Procs, Clients
  <2> QED
    BY <2>1, <2>2, ServerLeft, ClientLeft, Zenon DEF SemInv, SemShapes
<1>12. CASE UNCHANGED segVars
    BY <1>12, Zenon DEF segVars, SemInv, SemShapes, Opened, SleptWoken
<1>13. SCuse \in Clients /\ SProvider \in Clients
    BY Zenon DEF Clients
<1> QED
    BY <1>1, <1>2, <1>3, <1>4, <1>5, <1>6, <1>7, <1>8, <1>9, <1>10, <1>11, <1>12, <1>13, Zenon
    DEF SegNext, SrvStep, CuseInitDone, AuxInitWait

(* Both hold at the start.                                                 *)
LEMMA SegInitOK ==
    ASSUME SegHypotheses, SegInit PROVE SegShapes /\ OneSegment /\ SemShapes /\ Opened /\ SleptWoken
<1> USE DEF SegInit
<1>1. SegShapes
    BY DEF SegShapes, SegHypotheses, Segs, SmallSeg, SegPlaces
<1>2. OneSegment
    BY Zenon DEF OneSegment, Clients, Procs
<1>3. SemShapes
    BY DEF SemShapes, Clients, Procs, SemOf, SegHypotheses, SmallSeg
<1>4. Opened
    BY Zenon DEF Opened, Procs
<1>5. SleptWoken
    BY Zenon DEF SleptWoken
<1> QED
    BY <1>1, <1>2, <1>3, <1>4, <1>5, Zenon

(* Through any number of restarts of server and clients whoever is         *)
(* attached shares one segment, unless somebody attached to it while a     *)
(* client was removing it, and a client that slept through a start of the  *)
(* server is woken (esdm_shm_status_create_shm(),                          *)
(* esdm_shm_status_delete_shm()).                                          *)
THEOREM SegmentSharedCorrect ==
    ASSUME SegHypotheses
    PROVE  SegInit /\ [][SegNext]_segVars => []SegmentShared
<1> DEFINE I == SegShapes /\ OneSegment /\ SemShapes /\ Opened /\ SleptWoken
<1>1. SegInit => I
    BY SegInitOK, Zenon
<1>2. I /\ [SegNext]_segVars => I'
    BY SegmentStep, SemStep, Zenon DEF SemInv
<1>3. I => SegmentShared
    BY Zenon DEF OneSegment, Opened, SleptWoken, SegmentShared, SrvUp, SemOf
<1> QED
    BY <1>1, <1>2, <1>3, PTL
=============================================================================
