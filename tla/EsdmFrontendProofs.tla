------------------------- MODULE EsdmFrontendProofs -------------------------
(***************************************************************************)
(* The proofs about what stands between the applications and the server.   *)
(* The frontends, stubs and handlers (EsdmFrontends) claim and deliver no  *)
(* more than was done, for messages of any size; and the CUSE daemons use  *)
(* their privileges for root alone (EsdmPrivileges), read inside their     *)
(* values (EsdmProcFiles) and leave neither mount nor file behind          *)
(* (EsdmCuseLife), for any number of workers and readers and any stack of  *)
(* mounts.                                                                 *)
(***************************************************************************)
EXTENDS EsdmFrontends, EsdmPrivileges, EsdmProcFiles, EsdmCuseLife, TLAPS

-----------------------------------------------------------------------------
(* The calls of the frontends                                              *)

(* Sizes and lengths are numbers.                                          *)
FrontHypotheses ==
    /\ MaxData \in Nat /\ SeedSize \in Nat /\ MaxMsg \in Nat
    /\ Lens \in SUBSET Nat /\ Sizes \in SUBSET Nat

(* The data of a call in progress.                                         *)
CallTypeOK ==
    /\ len \in Nat /\ left \in Nat /\ cap \in Nat /\ seedlen \in Nat
    /\ stored \in Nat /\ taken \in Nat /\ amount \in Nat
    /\ answer.n \in Nat /\ taken <= 2 * (len + 1)
    /\ op \in PrivOps => len \in {0, 1} /\ (op # "rnd_add_entropy" => len = 1)
    /\ cut => op \in {"get_seed", "get_random_bytes_full_timeout"}

(* How a transport fails without an answer.                                *)
Silence == {"intr", "timedout"}

(* The length of the next request.                                         *)
Round == Smaller(left, MaxData)

(* Before an answer to a request: what the loop of a stub has done so far. *)
LoopKept ==
    /\ left <= len
    /\ op \in RandomOps => stored = len - left
    /\ op = "get_seed" => seedlen <= len
    /\ op = "write_data" => taken >= len - left
    /\ op \in PrivOps /\ ~root => taken = 0
    /\ op \notin PrivOps \cup {"write_data"} => taken = 0
    /\ op \notin RandomOps \cup {"get_seed"} => amount = 0

(* A request is out or being handled.                                      *)
Sent ==
    /\ op = "write_data" => taken = len - left \/ resent
    /\ op \in PrivOps => taken = 0 \/ resent

(* An answer has arrived, which tells what the handler did.                *)
Answered ==
    /\ op = "get_seed" /\ answer.ret = "ok" => answer.n = SeedSize + 1 /\ SeedSize <= len
    /\ answer.ret = "perm" => op \in PrivOps /\ ~root
    /\ op = "write_data" /\ answer.ret = "ok"
         => taken >= len - left + Round /\ (taken = len - left + Round \/ resent)
    /\ op \in PrivOps /\ answer.ret = "ok" => len = 1 /\ taken >= 1 /\ (taken = 1 \/ resent)
    /\ op \in PrivOps /\ answer.ret \notin {"ok", "intr", "timedout"} => taken = 0 \/ resent

(* The stub is back with a result that says no more than was done.         *)
Over ==
    /\ Delivered
    /\ ret = "ok" /\ op \in RandomOps => amount = len
    /\ op \notin RandomOps \cup {"get_seed"} => amount = 0
    /\ op \in PrivOps /\ ret = "ok" => len = 1
    /\ op \in PrivOps /\ ret \notin {"ok", "intr", "timedout"} => taken = 0 \/ resent

(* The invariant of a call, by the place it is in.                         *)
CallInv ==
    /\ CallTypeOK
    /\ pc \in {"idle", "send", "answered", "done"}
    /\ pc \in {"send", "answered"} => LoopKept
    /\ pc = "send" => Sent
    /\ pc = "answered" => Answered
    /\ pc = "done" => Over

(* The names of the calls are different.                                   *)
LEMMA OpsApart ==
    /\ "get_seed" \notin RandomOps \cup PrivOps \cup QueryOps
    /\ "write_data" \notin RandomOps \cup PrivOps \cup QueryOps
    /\ \A o \in RandomOps : o \notin PrivOps \cup QueryOps
    /\ \A o \in QueryOps : o \notin PrivOps
    /\ "get_random_bytes_full_timeout" \in RandomOps
    /\ "rnd_add_entropy" \in PrivOps
BY Zenon DEF RandomOps, PrivOps, QueryOps

(* The smaller of two numbers.                                             *)
LEMMA SmallerIs == \A a, b \in Nat :
    /\ Smaller(a, b) \in Nat /\ Smaller(a, b) <= a /\ Smaller(a, b) <= b
    /\ Smaller(a, b) = a \/ Smaller(a, b) = b
BY DEF Smaller

(* A call starts with nothing done.                                        *)
LEMMA CallStarts ==
    ASSUME NEW o, NEW n \in Nat, NEW nb, NEW priv, Call(o, n, nb, priv),
           o \in PrivOps => n \in {0, 1} /\ (o # "rnd_add_entropy" => n = 1)
    PROVE  CallInv'
<1>1. /\ op' = o /\ len' = n /\ left' = n /\ cap' = n /\ seedlen' = n /\ stored' = 0 /\ taken' = 0
      /\ resent' = FALSE /\ cut' = FALSE /\ root' = priv /\ answer' = NoAnswer /\ amount' = 0
  BY Zenon DEF Call, Return
<1>2. \/ n = 0 /\ o \in RandomOps \cup {"write_data"} /\ pc' = "done" /\ ret' = "ok"
      \/ pc' = "send" /\ ret' = "none"
  BY Zenon DEF Call, Return
<1>3. CallTypeOK' BY <1>1 DEF CallTypeOK, NoAnswer
<1>4. LoopKept' /\ Sent' BY <1>1 DEF LoopKept, Sent
<1>5. CASE n = 0 /\ o \in RandomOps \cup {"write_data"} /\ pc' = "done" /\ ret' = "ok"
  <2>1. Over' BY <1>1, <1>5, OpsApart DEF Over, Delivered
  <2> QED BY <1>3, <1>5, <2>1, Zenon DEF CallInv
<1> QED BY <1>2, <1>3, <1>4, <1>5, Zenon DEF CallInv

(* A handler changes nothing but the answer and what it acted on.          *)
LEMMA AnswerKept ==
    ASSUME CallInv, NEW o, Handle(o), NEW r, NEW n \in Nat, Answer(r, n),
           taken' \in Nat, taken' >= taken, taken' <= 2 * (len + 1),
           o \notin PrivOps \cup {"write_data"} => taken' = taken,
           ~root /\ o \in PrivOps => taken' = taken,
           o = "get_seed" /\ r = "ok" => n = SeedSize + 1 /\ SeedSize <= len,
           r = "perm" => o \in PrivOps /\ ~root,
           o = "write_data" /\ r = "ok"
             => taken' >= len - left + Round /\ (taken' = len - left + Round \/ resent),
           o \in PrivOps /\ r = "ok" => len = 1 /\ taken' >= 1 /\ (taken' = 1 \/ resent),
           o \in PrivOps /\ r \notin {"ok", "intr", "timedout"} => taken' = 0 \/ resent
    PROVE  CallInv'
<1>1. /\ op = o /\ pc = "send" /\ UNCHANGED <<op, len, nonblock, root, left, cap, seedlen, stored, cut, ret, amount, resent>>
      /\ pc' = "answered" /\ answer' = [ret |-> r, n |-> n]
  BY Zenon DEF Handle, Answer, stubVars, loopVars, resVars
<1>2. answer'.ret = r /\ answer'.n = n BY <1>1, Zenon
<1>3. Round' = Round BY <1>1, Zenon DEF Round, Smaller
<1>4. CallTypeOK /\ LoopKept /\ Sent BY <1>1, Zenon DEF CallInv
<1>5. CallTypeOK' BY <1>1, <1>2, <1>4, Zenon DEF CallTypeOK
<1>6. LoopKept' BY <1>1, <1>4 DEF LoopKept, CallTypeOK
<1>7. Answered' BY <1>1, <1>2, <1>3, <1>4, Zenon DEF Answered
<1> QED BY <1>1, <1>5, <1>6, <1>7, Zenon DEF CallInv

(* What a handler acts on is counted.                                      *)
LEMMA ActCounts ==
    ASSUME CallInv, NEW n \in Nat, n <= len, Act(n)
    PROVE  /\ taken' \in Nat /\ taken' >= taken /\ taken' <= 2 * (len + 1)
           /\ taken' >= n
           /\ \A m \in Nat : m + n <= len /\ taken >= m => taken' >= m + n
           /\ taken + n <= len => taken' = taken + n
<1>1. taken \in Nat /\ len \in Nat /\ taken <= 2 * (len + 1) BY Zenon DEF CallInv, CallTypeOK
<1> QED BY <1>1 DEF Act, Smaller

(* The handler that delivers random bytes,                                 *)
LEMMA RandomHandlerKept ==
    ASSUME CallInv, NEW o \in RandomOps, NEW f \in SUBSET {"fault", "again"}, RandomHandler(o, f)
    PROVE  CallInv'
<1>1. Handle(o) /\ taken' = taken /\ op = o BY Zenon DEF RandomHandler, Handle
<1>2. taken \in Nat /\ taken <= 2 * (len + 1) /\ cap \in Nat /\ left \in Nat BY Zenon DEF CallInv, CallTypeOK
<1>3. Asked \in Nat BY <1>2, SmallerIs, Zenon DEF Asked
<1>4. PICK r \in {"long", "ok", "fault", "again"} : \E n \in Nat : Answer(r, n)
  BY <1>3 DEF RandomHandler
<1>5. PICK n \in Nat : Answer(r, n) BY <1>4, Zenon
<1>6. o \notin PrivOps /\ o # "write_data" /\ o # "get_seed" BY OpsApart, Zenon
<1> QED BY <1>1, <1>2, <1>5, <1>6, AnswerKept

(* the one that delivers a seed,                                           *)
LEMMA SeedHandlerKept ==
    ASSUME CallInv, FrontHypotheses, esdm_rpc_get_seed
    PROVE  CallInv'
<1>1. Handle("get_seed") /\ taken' = taken BY Zenon DEF esdm_rpc_get_seed
<1>2. taken \in Nat /\ taken <= 2 * (len + 1) /\ len \in Nat BY Zenon DEF CallInv, CallTypeOK
<1>3. "get_seed" \notin PrivOps BY OpsApart, Zenon
<1>4. PICK r \in {"long", "inval", "msgsize", "ok", "yield", "again"} : \E n \in Nat :
         Answer(r, n) /\ (r = "ok" => n = SeedSize + 1 /\ SeedSize <= len)
  BY <1>2 DEF esdm_rpc_get_seed, FrontHypotheses
<1>5. PICK n \in Nat : Answer(r, n) /\ (r = "ok" => n = SeedSize + 1 /\ SeedSize <= len) BY <1>4, Zenon
<1> QED BY <1>1, <1>2, <1>3, <1>5, AnswerKept

(* the one that takes data,                                                *)
LEMMA WriteHandlerKept ==
    ASSUME CallInv, FrontHypotheses, esdm_rpc_write_data
    PROVE  CallInv'
<1>1. Handle("write_data") /\ op = "write_data" /\ pc = "send" BY Zenon DEF esdm_rpc_write_data, Handle
<1>2. taken \in Nat /\ taken <= 2 * (len + 1) /\ len \in Nat /\ left \in Nat BY Zenon DEF CallInv, CallTypeOK
<1>3. "write_data" \notin PrivOps BY OpsApart, Zenon
<1>4. CASE Answer("fault", 0) /\ UNCHANGED taken
  BY <1>1, <1>2, <1>3, <1>4, AnswerKept
<1>5. CASE Answer("ok", 0) /\ Act(Round)
  <2>1. Round \in Nat /\ Round <= left BY <1>2, SmallerIs, Zenon DEF Round, FrontHypotheses
  <2>2. left <= len /\ taken >= len - left /\ (taken = len - left \/ resent)
    BY <1>1, Zenon DEF CallInv, LoopKept, Sent
  <2>3. /\ taken' \in Nat /\ taken' >= taken /\ taken' <= 2 * (len + 1)
        /\ \A m \in Nat : m + Round <= len /\ taken >= m => taken' >= m + Round
        /\ taken + Round <= len => taken' = taken + Round
    BY <1>2, <1>5, <2>1, <2>2, ActCounts
  <2>4. taken' >= len - left + Round /\ (taken' = len - left + Round \/ resent)
    BY <1>2, <2>1, <2>2, <2>3
  <2> QED BY <1>1, <1>3, <1>5, <2>3, <2>4, AnswerKept, Zenon
<1> QED BY <1>4, <1>5, Zenon DEF esdm_rpc_write_data, Round

(* those that answer a question,                                           *)
LEMMA QueryKept ==
    ASSUME CallInv, NEW o \in QueryOps, Query(o)
    PROVE  CallInv'
<1>1. Handle(o) /\ taken' = taken /\ Answer("ok", 0) BY Zenon DEF Query
<1>2. taken \in Nat /\ taken <= 2 * (len + 1) BY Zenon DEF CallInv, CallTypeOK
<1>3. o \notin PrivOps /\ o # "write_data" /\ o # "get_seed" BY OpsApart, Zenon
<1> QED BY <1>1, <1>2, <1>3, AnswerKept

(* those that ask for a privilege,                                         *)
LEMMA PrivilegedKept ==
    ASSUME CallInv, NEW o \in PrivOps, Privileged(o), o = "rnd_add_entropy" => len > 0
    PROVE  CallInv'
<1>1. Handle(o) /\ op = o /\ pc = "send" BY Zenon DEF Privileged, Handle
<1>2. taken \in Nat /\ taken <= 2 * (len + 1) /\ len = 1 BY <1>1 DEF CallInv, CallTypeOK
<1>3. o # "write_data" /\ o # "get_seed" BY OpsApart, Zenon
<1>4. (taken = 0 \/ resent) /\ (~root => taken = 0) BY <1>1, Zenon DEF CallInv, Sent, LoopKept
<1>5. CASE ~root /\ Answer("perm", 0) /\ UNCHANGED taken
  BY <1>1, <1>2, <1>3, <1>4, <1>5, AnswerKept
<1>6. CASE root /\ Answer("ok", 0) /\ Act(1)
  <2>1. /\ taken' \in Nat /\ taken' >= taken /\ taken' <= 2 * (len + 1) /\ taken' >= 1
        /\ taken + 1 <= len => taken' = taken + 1
    BY <1>2, <1>6, ActCounts
  <2>2. taken' = 1 \/ resent BY <1>2, <1>4, <2>1
  <2> QED BY <1>1, <1>2, <1>3, <1>6, <2>1, <2>2, AnswerKept, Zenon
<1> QED BY <1>5, <1>6, Zenon DEF Privileged

(* and the one that takes data with their entropy keep CallInv.            *)
LEMMA AddHandlerKept ==
    ASSUME CallInv, esdm_rpc_rnd_add_entropy
    PROVE  CallInv'
<1>1. CASE len > 0 /\ Privileged("rnd_add_entropy")
  BY <1>1, OpsApart, PrivilegedKept, Zenon
<1>2. CASE Handle("rnd_add_entropy") /\ Answer("fault", 0) /\ UNCHANGED taken
  <2>1. op = "rnd_add_entropy" /\ pc = "send" BY <1>2, Zenon DEF Handle
  <2>2. taken \in Nat /\ taken <= 2 * (len + 1) BY Zenon DEF CallInv, CallTypeOK
  <2>3. taken = 0 \/ resent BY <2>1, OpsApart, Zenon DEF CallInv, Sent
  <2> QED BY <1>2, <2>2, <2>3, AnswerKept, OpsApart
<1> QED BY <1>1, <1>2, Zenon DEF esdm_rpc_rnd_add_entropy

(* Every handler keeps it.                                                 *)
LEMMA AllHandlersKept ==
    ASSUME CallInv, FrontHypotheses, Handlers
    PROVE  CallInv'
<1>1. CASE \E o \in RandomOps : \E f \in SUBSET {"fault", "again"} : RandomHandler(o, f)
  BY <1>1, RandomHandlerKept, Zenon
<1>2. CASE \E o \in QueryOps : Query(o) BY <1>2, QueryKept, Zenon
<1>3. CASE \E o \in PrivOps \ {"rnd_add_entropy"} : Privileged(o) BY <1>3, PrivilegedKept, Zenon
<1>4. CASE \/ esdm_rpc_get_random_bytes \/ esdm_rpc_get_random_bytes_full
           \/ esdm_rpc_get_random_bytes_full_timeout
           \/ esdm_rpc_get_random_bytes_min \/ esdm_rpc_get_random_bytes_pr
  BY <1>1, <1>4, Zenon DEF RandomOps, esdm_rpc_get_random_bytes, esdm_rpc_get_random_bytes_full,
     esdm_rpc_get_random_bytes_full_timeout, esdm_rpc_get_random_bytes_min,
     esdm_rpc_get_random_bytes_pr
<1>5. CASE \/ esdm_rpc_get_ent_lvl \/ esdm_rpc_get_min_reseed_secs
           \/ esdm_rpc_get_poolsize \/ esdm_rpc_get_write_wakeup_thresh
           \/ esdm_rpc_is_fully_seeded \/ esdm_rpc_is_min_seeded
           \/ esdm_rpc_rnd_get_ent_cnt \/ esdm_rpc_status
  BY <1>2, <1>5, Zenon DEF QueryOps, esdm_rpc_get_ent_lvl, esdm_rpc_get_min_reseed_secs,
     esdm_rpc_get_poolsize, esdm_rpc_get_write_wakeup_thresh, esdm_rpc_is_fully_seeded,
     esdm_rpc_is_min_seeded, esdm_rpc_rnd_get_ent_cnt, esdm_rpc_status
<1>6. CASE \/ esdm_rpc_rnd_add_to_ent_cnt \/ esdm_rpc_rnd_clear_pool
           \/ esdm_rpc_rnd_reseed_crng \/ esdm_rpc_set_min_reseed_secs
           \/ esdm_rpc_set_write_wakeup_thresh
  BY <1>3, <1>6, Zenon DEF PrivOps, esdm_rpc_rnd_add_to_ent_cnt, esdm_rpc_rnd_clear_pool,
     esdm_rpc_rnd_reseed_crng, esdm_rpc_set_min_reseed_secs, esdm_rpc_set_write_wakeup_thresh
<1> QED BY <1>4, <1>5, <1>6, SeedHandlerKept, WriteHandlerKept, AddHandlerKept, Zenon DEF Handlers

(* The transport keeps it: sent, received, interrupted, timed out or       *)
(* broken.                                                                 *)
LEMMA TransportKept ==
    ASSUME CallInv, Resubmit \/ Break
    PROVE  CallInv'
<1>1. CallTypeOK /\ LoopKept BY Zenon DEF CallInv, Resubmit, Break
<1>2. /\ UNCHANGED <<op, len, nonblock, root, left, cap, seedlen, stored, cut, ret, amount, taken>>
      /\ answer'.n = 0
  BY DEF Resubmit, Break, Answer, NoAnswer, stubVars, loopVars, resVars
<1>3. CallTypeOK' BY <1>1, <1>2 DEF CallTypeOK
<1>4. LoopKept' BY <1>1, <1>2, Zenon DEF LoopKept
<1>5. CASE Resubmit
  <2>1. pc' = "send" /\ resent' = TRUE BY <1>5, Zenon DEF Resubmit
  <2>2. Sent' BY <2>1, Zenon DEF Sent
  <2> QED BY <1>3, <1>4, <2>1, <2>2, Zenon DEF CallInv
<1>6. CASE Break
  <2>1. pc' = "answered" /\ answer'.ret \in Silence BY <1>6 DEF Break, Answer, Silence
  <2>2. Answered' BY <2>1, Zenon DEF Answered, Silence
  <2> QED BY <1>3, <1>4, <2>1, <2>2, Zenon DEF CallInv
<1> QED BY <1>5, <1>6, Zenon

(* The loop goes on with another request.                                  *)
LEMMA AgainKept ==
    ASSUME CallInv, NEW o, Take(o), Again, CallTypeOK',
           left' <= len,
           o \in RandomOps => stored' = len - left',
           o = "get_seed" => seedlen' <= len,
           o = "write_data" => taken >= len - left' /\ (taken = len - left' \/ resent),
           o \notin PrivOps
    PROVE  CallInv'
<1>1. /\ op = o /\ pc' = "send" /\ UNCHANGED <<op, len, root, taken, resent, ret, amount>>
      /\ LoopKept
  BY Zenon DEF Take, Again, stubVars, resVars, CallInv
<1>2. LoopKept' BY <1>1, Zenon DEF LoopKept
<1>3. Sent' BY <1>1, Zenon DEF Sent
<1> QED BY <1>1, <1>2, <1>3, Zenon DEF CallInv

(* A stub that fails, or asks once, tells what it was answered.            *)
LEMMA FailKept ==
    ASSUME CallInv, NEW o, Take(o), Return(answer.ret, 0), UNCHANGED loopVars,
           answer.ret = "ok" => o \notin RandomOps \cup {"get_seed", "write_data"}
    PROVE  CallInv'
<1>1. /\ op = o /\ pc' = "done" /\ UNCHANGED <<op, len, root, taken, resent, left, cap, seedlen, stored, cut>>
      /\ ret' = answer.ret /\ amount' = 0 /\ answer'.n = 0 /\ LoopKept /\ Answered /\ CallTypeOK
  BY Zenon DEF Take, Return, stubVars, loopVars, CallInv, NoAnswer
<1>2. CallTypeOK' BY <1>1 DEF CallTypeOK
<1>3. Delivered'
  <2>1. ret' = "perm" => taken' = 0 BY <1>1, Zenon DEF LoopKept, Answered
  <2>2. ret' = "ok" /\ op' \in RandomOps \cup {"get_seed"} => stored' >= amount' \/ cut'
    BY <1>1, Zenon DEF CallTypeOK
  <2>3. ret' = "ok" /\ op' \in PrivOps \cup {"write_data"} => taken' >= len' /\ (taken' = len' \/ resent')
    BY <1>1, Zenon DEF Answered
  <2> QED BY <2>1, <2>2, <2>3, Zenon DEF Delivered
<1>4. Over' BY <1>1, <1>3, Zenon DEF Over, Answered
<1> QED BY <1>1, <1>2, <1>4, Zenon DEF CallInv

(* A part of the data was handed over.                                     *)
LEMMA AdvanceKept ==
    ASSUME CallInv, NEW o \in RandomOps, Take(o), Advance
    PROVE  CallInv'
<1> DEFINE n == Smaller(answer.n, left)
<1>1. /\ op = o /\ UNCHANGED <<op, len, root, taken, resent, cap, seedlen, cut>>
      /\ answer'.n = 0 /\ LoopKept /\ CallTypeOK /\ left' = left - n /\ stored' = stored + n
  BY Zenon DEF Take, Advance, stubVars, CallInv, NoAnswer
<1>2. n \in Nat /\ n <= left
  <2>1. answer.n \in Nat /\ left \in Nat BY <1>1, Zenon DEF CallTypeOK
  <2> QED BY <2>1, SmallerIs, Zenon
<1>3. \/ left = n /\ Return("ok", len)
      \/ Again
  BY Zenon DEF Advance
<1> HIDE DEF n
<1>4. /\ len \in Nat /\ left \in Nat /\ stored \in Nat /\ left <= len /\ stored = len - left
      /\ o \notin PrivOps /\ o # "get_seed" /\ o # "write_data"
  BY <1>1, OpsApart, Zenon DEF CallTypeOK, LoopKept
<1>5. left' \in Nat /\ stored' \in Nat /\ left' <= len /\ stored' = len - left' BY <1>1, <1>2, <1>4
<1>6. CASE Again
  <2>1. amount' = amount BY <1>6, Zenon DEF Again, resVars
  <2>2. CallTypeOK' BY <1>1, <1>5, <2>1 DEF CallTypeOK
  <2> QED BY <1>4, <1>5, <1>6, <2>2, AgainKept, Zenon
<1>7. CASE left = n /\ Return("ok", len)
  <2>1. pc' = "done" /\ ret' = "ok" /\ amount' = len BY <1>7, Zenon DEF Return
  <2>2. CallTypeOK' BY <1>1, <1>4, <1>5, <2>1 DEF CallTypeOK
  <2>3. stored' >= amount' BY <1>1, <1>4, <1>5, <1>7, <2>1
  <2>4. Delivered' BY <1>1, <1>4, <2>1, <2>3, OpsApart, Zenon DEF Delivered
  <2>5. Over' BY <1>1, <1>4, <2>1, <2>4, OpsApart, Zenon DEF Over
  <2> QED BY <2>1, <2>2, <2>5, Zenon DEF CallInv
<1> QED BY <1>3, <1>6, <1>7, Zenon

(* The stub for random bytes keeps CallInv.                                *)
LEMMA RandomStubKept ==
    ASSUME CallInv, FrontHypotheses, NEW o \in RandomOps, Take(o),
           \/ AskLess \/ Advance \/ Poll
           \/ answer.ret # "ok" /\ Fail
    PROVE  CallInv'
<1>1. op = o /\ op' = op /\ answer'.n = 0 /\ LoopKept /\ CallTypeOK /\ UNCHANGED <<len, taken>>
  BY Zenon DEF Take, stubVars, CallInv, NoAnswer
<1>2. o \notin PrivOps /\ o # "get_seed" /\ o # "write_data" BY OpsApart, Zenon
<1>3. CASE AskLess \/ Poll
  <2>1. /\ Again /\ UNCHANGED <<left, seedlen, stored, cut, amount>>
        /\ cap' \in Nat
    BY <1>1, <1>3, Zenon DEF AskLess, Poll, Again, loopVars, resVars, CallTypeOK, FrontHypotheses
  <2>2. CallTypeOK' BY <1>1, <2>1 DEF CallTypeOK
  <2>3. left' <= len /\ stored' = len - left' BY <1>1, <2>1, Zenon DEF LoopKept
  <2> QED BY <1>2, <2>1, <2>2, <2>3, AgainKept, Zenon
<1>4. CASE Advance BY <1>4, AdvanceKept, Zenon
<1>5. CASE answer.ret # "ok" /\ Fail BY <1>5, FailKept, Zenon DEF Fail
<1> QED BY <1>3, <1>4, <1>5, Zenon

(* The time is over.                                                       *)
LEMMA TimeoutKept ==
    ASSUME CallInv, Take("get_random_bytes_full_timeout"), Return("ok", len), cut' = TRUE,
           UNCHANGED <<left, cap, seedlen, stored>>
    PROVE  CallInv'
<1>1. /\ op = "get_random_bytes_full_timeout" /\ op' = op /\ answer'.n = 0 /\ CallTypeOK
      /\ UNCHANGED <<len, taken>> /\ pc' = "done" /\ ret' = "ok" /\ amount' = len
  BY Zenon DEF Take, stubVars, CallInv, NoAnswer, Return
<1>2. CallTypeOK' BY <1>1, OpsApart DEF CallTypeOK
<1>3. Over' BY <1>1, OpsApart, Zenon DEF Over, Delivered
<1> QED BY <1>1, <1>2, <1>3, Zenon DEF CallInv

(* The stub for a seed,                                                    *)
LEMMA SeedStubKept ==
    ASSUME CallInv, FrontHypotheses, esdm_rpcc_get_seed
    PROVE  CallInv'
<1>1. /\ Take("get_seed") /\ op = "get_seed" /\ UNCHANGED <<op, len, root, taken, resent>>
      /\ answer'.n = 0 /\ LoopKept /\ Answered /\ CallTypeOK
  BY Zenon DEF esdm_rpcc_get_seed, Take, stubVars, CallInv, NoAnswer
<1>2. CASE answer.ret \in {"intr", "timedout"}
  <2>1. Fail BY <1>2, Zenon DEF esdm_rpcc_get_seed
  <2> QED BY <1>1, <1>2, <2>1, FailKept, Zenon DEF Fail
<1>3. CASE answer.ret \notin {"intr", "timedout"}
  <2> DEFINE n == Smaller(answer.n, seedlen)
  <2>1. n \in Nat /\ n <= answer.n /\ n <= seedlen /\ (n = answer.n \/ n = seedlen)
    BY <1>1, SmallerIs, Zenon DEF CallTypeOK
  <2>2. /\ seedlen' = n /\ stored' = n /\ cut' = (cut \/ seedlen < len) /\ UNCHANGED <<left, cap>>
        /\ \/ Again
           \/ answer.ret = "ok" /\ Return("ok", SeedSize)
           \/ answer.ret = "yield" /\ Return("ok", 0)
           \/ answer.ret \notin {"ok", "yield"} /\ Return(answer.ret, 0)
    BY <1>3, Zenon DEF esdm_rpcc_get_seed
  <2> HIDE DEF n
  <2>3. "get_seed" \notin PrivOps \cup RandomOps BY OpsApart, Zenon
  <2>4. seedlen <= len /\ left <= len /\ taken = 0 BY <1>1, OpsApart, Zenon DEF LoopKept
  <2>5. seedlen' <= len /\ seedlen \in Nat /\ len \in Nat BY <1>1, <2>1, <2>2, <2>4 DEF CallTypeOK
  <2>6. ASSUME amount' \in Nat PROVE CallTypeOK'
    BY <1>1, <2>1, <2>2, <2>3, <2>6 DEF CallTypeOK
  <2>7. CASE Again
    <3>1. amount' \in Nat BY <1>1, <2>7, Zenon DEF Again, resVars, CallTypeOK
    <3> QED BY <1>1, <2>2, <2>3, <2>4, <2>5, <2>6, <2>7, <3>1, AgainKept, Zenon
  <2>8. ASSUME NEW r, NEW k \in Nat, Return(r, k), r # "perm", r = "ok" => stored' >= k \/ cut'
        PROVE  CallInv'
    <3>1. pc' = "done" /\ ret' = r /\ amount' = k BY <2>8, Zenon DEF Return
    <3>2. Delivered' BY <1>1, <2>3, <2>8, <3>1, OpsApart, Zenon DEF Delivered
    <3>3. Over' BY <1>1, <2>3, <3>2, OpsApart, Zenon DEF Over
    <3> QED BY <2>6, <3>1, <3>3, Zenon DEF CallInv
  <2>9. CASE answer.ret = "ok" /\ Return("ok", SeedSize)
    <3>1. answer.n = SeedSize + 1 /\ SeedSize <= len /\ SeedSize \in Nat
      BY <1>1, <2>9, Zenon DEF Answered, FrontHypotheses
    <3>2. stored' >= SeedSize \/ seedlen < len BY <2>1, <2>2, <2>4, <2>5, <3>1
    <3> QED BY <2>2, <2>8, <2>9, <3>1, <3>2, Zenon
  <2>10. CASE answer.ret = "yield" /\ Return("ok", 0)
    <3>1. stored' >= 0 BY <2>1, <2>2
    <3> QED BY <2>8, <2>10, <3>1, Zenon
  <2>11. CASE answer.ret \notin {"ok", "yield"} /\ Return(answer.ret, 0)
    <3>1. answer.ret # "perm" BY <1>1, <2>3, Zenon DEF Answered
    <3> QED BY <2>8, <2>11, <3>1, Zenon
  <2> QED BY <2>2, <2>7, <2>9, <2>10, <2>11, Zenon
<1> QED BY <1>2, <1>3, Zenon

(* the stub that hands data over                                           *)
LEMMA WriteStubKept ==
    ASSUME CallInv, FrontHypotheses, esdm_rpcc_write_data
    PROVE  CallInv'
<1>1. /\ Take("write_data") /\ op = "write_data" /\ UNCHANGED <<op, len, root, taken, resent>>
      /\ answer'.n = 0 /\ LoopKept /\ Answered /\ CallTypeOK
  BY Zenon DEF esdm_rpcc_write_data, Take, stubVars, CallInv, NoAnswer
<1>2. CASE answer.ret # "ok"
  <2>1. Fail BY <1>2, Zenon DEF esdm_rpcc_write_data
  <2> QED BY <1>1, <1>2, <2>1, FailKept, Zenon DEF Fail
<1>3. CASE answer.ret = "ok"
  <2>1. /\ left' = left - Round /\ UNCHANGED <<cap, seedlen, stored, cut>>
        /\ \/ left = Round /\ Return("ok", 0)
           \/ Again
    BY <1>3, Zenon DEF esdm_rpcc_write_data, Round
  <2>2. /\ left \in Nat /\ len \in Nat /\ Round \in Nat /\ Round <= left /\ left <= len /\ taken \in Nat
    BY <1>1, SmallerIs, Zenon DEF CallTypeOK, LoopKept, Round, FrontHypotheses
  <2>3. taken >= len - left + Round /\ (taken = len - left + Round \/ resent)
    BY <1>1, <1>3, Zenon DEF Answered
  <2>4. left' \in Nat /\ left' <= len /\ taken >= len - left' /\ (taken = len - left' \/ resent)
    BY <2>1, <2>2, <2>3
  <2>5. ASSUME amount' \in Nat PROVE CallTypeOK'
    BY <1>1, <2>1, <2>4, <2>5, OpsApart DEF CallTypeOK
  <2>6. CASE Again
    <3>1. amount' \in Nat BY <1>1, <2>6, Zenon DEF Again, resVars, CallTypeOK
    <3> QED BY <1>1, <2>4, <2>5, <2>6, <3>1, AgainKept, OpsApart, Zenon
  <2>7. CASE left = Round /\ Return("ok", 0)
    <3>1. pc' = "done" /\ ret' = "ok" /\ amount' = 0 BY <2>7, Zenon DEF Return
    <3>2. taken >= len /\ (taken = len \/ resent) BY <2>2, <2>3, <2>7
    <3>3. Delivered' BY <1>1, <3>1, <3>2, OpsApart, Zenon DEF Delivered
    <3>4. Over' BY <1>1, <3>1, <3>3, OpsApart, Zenon DEF Over
    <3> QED BY <2>5, <3>1, <3>4, Zenon DEF CallInv
  <2> QED BY <2>1, <2>6, <2>7, Zenon
<1> QED BY <1>2, <1>3, Zenon

(* and the others keep it.                                                 *)
LEMMA StubsKept ==
    ASSUME CallInv, FrontHypotheses, Stubs
    PROVE  CallInv'
<1>1. ASSUME NEW o \in QueryOps \cup PrivOps, Once(o) PROVE CallInv'
  BY <1>1, FailKept, OpsApart, Zenon DEF Once
<1>2. CASE \/ esdm_rpcc_get_ent_lvl \/ esdm_rpcc_get_min_reseed_secs
           \/ esdm_rpcc_get_poolsize \/ esdm_rpcc_get_write_wakeup_thresh
           \/ esdm_rpcc_is_fully_seeded \/ esdm_rpcc_is_min_seeded
           \/ esdm_rpcc_rnd_get_ent_cnt \/ esdm_rpcc_status
  BY <1>1, <1>2, Zenon DEF QueryOps, esdm_rpcc_get_ent_lvl, esdm_rpcc_get_min_reseed_secs,
     esdm_rpcc_get_poolsize, esdm_rpcc_get_write_wakeup_thresh, esdm_rpcc_is_fully_seeded,
     esdm_rpcc_is_min_seeded, esdm_rpcc_rnd_get_ent_cnt, esdm_rpcc_status
<1>3. CASE \/ esdm_rpcc_rnd_add_entropy \/ esdm_rpcc_rnd_add_to_ent_cnt
           \/ esdm_rpcc_rnd_clear_pool \/ esdm_rpcc_rnd_reseed_crng
           \/ esdm_rpcc_set_min_reseed_secs \/ esdm_rpcc_set_write_wakeup_thresh
  BY <1>1, <1>3, Zenon DEF PrivOps, esdm_rpcc_rnd_add_entropy, esdm_rpcc_rnd_add_to_ent_cnt,
     esdm_rpcc_rnd_clear_pool, esdm_rpcc_rnd_reseed_crng, esdm_rpcc_set_min_reseed_secs,
     esdm_rpcc_set_write_wakeup_thresh
<1>4. CASE esdm_rpcc_get_random_bytes
  <2>1. "get_random_bytes" \in RandomOps BY Zenon DEF RandomOps
  <2> QED BY <1>4, <2>1, RandomStubKept, Zenon DEF esdm_rpcc_get_random_bytes
<1>5. ASSUME NEW o \in RandomOps, PollingLoop(o) PROVE CallInv'
  BY <1>5, RandomStubKept, Zenon DEF PollingLoop
<1>6. CASE \/ esdm_rpcc_get_random_bytes_full \/ esdm_rpcc_get_random_bytes_min
           \/ esdm_rpcc_get_random_bytes_pr
  BY <1>5, <1>6, Zenon DEF RandomOps, esdm_rpcc_get_random_bytes_full, esdm_rpcc_get_random_bytes_min,
     esdm_rpcc_get_random_bytes_pr
<1>7. CASE esdm_rpcc_get_random_bytes_full_timeout
  BY <1>5, <1>7, OpsApart, TimeoutKept, Zenon DEF esdm_rpcc_get_random_bytes_full_timeout
<1> QED BY <1>2, <1>3, <1>4, <1>6, <1>7, SeedStubKept, WriteStubKept, Zenon DEF Stubs

(* A step of a call keeps CallInv.                                         *)
LEMMA CallsStepKept ==
    ASSUME CallInv, FrontHypotheses, CallsStep
    PROVE  CallInv'
BY AllHandlersKept, TransportKept, StubsKept, Zenon DEF CallsStep

(* The stubs that deliver data and never leave any of it out.              *)
Plain == {"get_random_bytes", "get_random_bytes_full", "get_random_bytes_min", "get_random_bytes_pr"}

(* The types of the functions.                                             *)
FrontTypeOK ==
    /\ size \in Nat /\ moved \in Nat /\ claim \in Nat /\ have \in Nat
    /\ kernel \in Nat /\ done \in Nat
    /\ fpc \in {"idle", "call", "kernel", "done"}
    /\ fpc # "call" => pc \in {"idle", "done"}

(* What a function in progress has done so far.                            *)
Serving ==
    /\ fop = "getentropy" => op = "get_random_bytes_full" /\ len = size
    /\ fop \in {"generate", "fill"} => op \in Plain \cup {"write_data"}
    /\ fop \in {"nonce", "read"} => op \in Plain
    /\ fop = "read" => moved <= have
    /\ fop = "write" => op = "write_data" /\ done = moved /\ kernel = 0
    /\ fop \in Adding => /\ op \in PrivOps /\ len = 1 /\ kernel = 0
                         /\ done = 0 \/ silent

(* The inductive invariant of the frontends.                               *)
FrontInv ==
    /\ FrontTypeOK
    /\ fpc = "call" => Serving
    /\ fpc = "kernel" /\ fop = "write" => lossy
    /\ ClaimsBacked

(* A function of a frontend is in progress with nothing changed but the    *)
(* call.                                                                   *)
LEMMA CallsStepFront ==
    ASSUME CallInv, FrontInv, CallsStep, UNCHANGED frontVars
    PROVE  FrontInv'
<1>1. pc \in {"send", "answered"} /\ UNCHANGED <<op, len>>
  <2>1. CASE Handlers
    <3>1. \E o : Handle(o)
      BY <2>1, Zenon DEF Handlers, esdm_rpc_get_random_bytes, esdm_rpc_get_random_bytes_full,
         esdm_rpc_get_random_bytes_full_timeout, esdm_rpc_get_random_bytes_min,
         esdm_rpc_get_random_bytes_pr, esdm_rpc_get_seed, esdm_rpc_write_data, esdm_rpc_get_ent_lvl,
         esdm_rpc_get_min_reseed_secs, esdm_rpc_get_poolsize, esdm_rpc_get_write_wakeup_thresh,
         esdm_rpc_is_fully_seeded, esdm_rpc_is_min_seeded, esdm_rpc_rnd_get_ent_cnt, esdm_rpc_status,
         esdm_rpc_rnd_add_entropy, esdm_rpc_rnd_add_to_ent_cnt, esdm_rpc_rnd_clear_pool,
         esdm_rpc_rnd_reseed_crng, esdm_rpc_set_min_reseed_secs, esdm_rpc_set_write_wakeup_thresh,
         RandomHandler, Query, Privileged
    <3> QED BY <3>1, Zenon DEF Handle, stubVars
  <2>2. CASE Resubmit \/ Break BY <2>2, Zenon DEF Resubmit, Break, stubVars
  <2>3. CASE Stubs
    <3>1. \E o : Take(o)
      BY <2>3, Zenon DEF Stubs, esdm_rpcc_get_random_bytes, esdm_rpcc_get_random_bytes_full,
         esdm_rpcc_get_random_bytes_full_timeout, esdm_rpcc_get_random_bytes_min,
         esdm_rpcc_get_random_bytes_pr, esdm_rpcc_get_seed, esdm_rpcc_write_data,
         esdm_rpcc_get_ent_lvl, esdm_rpcc_get_min_reseed_secs, esdm_rpcc_get_poolsize,
         esdm_rpcc_get_write_wakeup_thresh, esdm_rpcc_is_fully_seeded, esdm_rpcc_is_min_seeded,
         esdm_rpcc_rnd_get_ent_cnt, esdm_rpcc_status, esdm_rpcc_rnd_add_entropy,
         esdm_rpcc_rnd_add_to_ent_cnt, esdm_rpcc_rnd_clear_pool, esdm_rpcc_rnd_reseed_crng,
         esdm_rpcc_set_min_reseed_secs, esdm_rpcc_set_write_wakeup_thresh, PollingLoop, Once
    <3> QED BY <3>1, Zenon DEF Take, stubVars
  <2> QED BY <2>1, <2>2, <2>3, Zenon DEF CallsStep
<1>2. fpc = "call" BY <1>1, Zenon DEF FrontInv, FrontTypeOK
<1>3. UNCHANGED <<fop, fpc, size, moved, claim, have, kernel, done, silent, lossy>> BY Zenon DEF frontVars
<1>4. FrontTypeOK' BY <1>2, <1>3, Zenon DEF FrontInv, FrontTypeOK
<1>5. Serving' BY <1>1, <1>2, <1>3, Zenon DEF FrontInv, Serving
<1>6. ClaimsBacked' BY <1>2, <1>3, Zenon DEF ClaimsBacked
<1> QED BY <1>2, <1>3, <1>4, <1>5, <1>6, Zenon DEF FrontInv

(* What is called is called with a length of its own.                      *)
Legal(o, n) ==
    /\ n \in Nat
    /\ o \in PrivOps => n \in {0, 1} /\ (o # "rnd_add_entropy" => n = 1)

(* A legal call may be made.                                               *)
LEMMA LegalCall ==
    ASSUME NEW o, NEW n, NEW nb, NEW priv, Call(o, n, nb, priv), Legal(o, n)
    PROVE  /\ CallInv' /\ op' = o /\ len' = n
BY CallStarts, Zenon DEF Legal, Call

(* A function is entered with a call,                                      *)
LEMMA Begins ==
    ASSUME NEW f, NEW n \in Nat, NEW w, Enter(f, n, w),
           NEW o, NEW m, NEW nb, NEW priv, Begin(o, m, nb, priv), Legal(o, m),
           f = "getentropy" => o = "get_random_bytes_full" /\ m = n,
           f \in {"generate", "fill"} => o \in Plain \cup {"write_data"},
           f \in {"nonce", "read"} => o \in Plain,
           f = "write" => o = "write_data",
           f \in Adding => o \in PrivOps /\ m = 1
    PROVE  CallInv' /\ FrontInv'
<1>1. Call(o, m, nb, priv) /\ fpc' = "call" /\ claim' = 0 BY Zenon DEF Begin, Invoke
<1>2. CallInv' /\ op' = o /\ len' = m BY <1>1, LegalCall, Zenon
<1>3. fop' = f /\ size' = n /\ moved' = 0 /\ have' = 0 /\ kernel' = 0 /\ done' = 0 BY Zenon DEF Enter
<1>4. FrontTypeOK' BY <1>1, <1>3, Zenon DEF FrontTypeOK
<1>5. Serving' BY <1>1, <1>2, <1>3 DEF Serving
<1>6. ClaimsBacked' BY <1>1, Zenon DEF ClaimsBacked
<1> QED BY <1>1, <1>2, <1>4, <1>5, <1>6, Zenon DEF FrontInv

(* or refused at once.                                                     *)
LEMMA Refused ==
    ASSUME CallInv, FrontInv, NEW f, NEW n \in Nat, NEW w, Enter(f, n, w),
           NEW r, Refuse(r), r # "ok"
    PROVE  CallInv' /\ FrontInv'
<1>1. UNCHANGED callVars /\ fpc' = "done" /\ fret' = r /\ claim' = 0 /\ fpc = "idle"
  BY Zenon DEF Refuse, Tell, Enter
<1>2. fop' = f /\ size' = n /\ moved' = 0 /\ have' = 0 /\ kernel' = 0 /\ done' = 0 BY Zenon DEF Enter
<1>3. CallInv' BY <1>1 DEF callVars, stubVars, loopVars, resVars, CallInv, CallTypeOK, LoopKept, Sent,
     Answered, Over, Delivered, Round
<1>4. pc' \in {"idle", "done"} BY <1>1, Zenon DEF callVars, FrontInv, FrontTypeOK
<1>5. FrontTypeOK' BY <1>1, <1>2, <1>4, Zenon DEF FrontTypeOK
<1>6. ClaimsBacked' BY <1>1, <1>2 DEF ClaimsBacked
<1> QED BY <1>1, <1>3, <1>5, <1>6, Zenon DEF FrontInv

(* What a stub that is back has done.                                      *)
LEMMA BackHonest ==
    ASSUME CallInv, pc = "done"
    PROVE  /\ stored \in Nat /\ amount \in Nat /\ len \in Nat /\ taken \in Nat
           /\ ret = "ok" => stored >= amount \/ cut
           /\ ret = "ok" /\ op \in Plain => stored >= amount /\ amount = len
           /\ op \in PrivOps /\ ret = "ok" => taken >= 1 /\ (taken = 1 \/ resent)
           /\ op \in PrivOps /\ ret \notin {"ok", "intr", "timedout"} => taken = 0 \/ resent
           /\ op \in Plain => op # "write_data"
<1>1. CallTypeOK /\ Over BY Zenon DEF CallInv
<1>2. stored \in Nat /\ amount \in Nat /\ len \in Nat /\ taken \in Nat BY <1>1, Zenon DEF CallTypeOK
<1>3. ret = "ok" => stored >= amount \/ cut BY <1>1, <1>2 DEF Over, Delivered
<1>4. op \in Plain => op \in RandomOps /\ ~cut /\ op # "write_data"
  BY <1>1, Zenon DEF Plain, RandomOps, CallTypeOK
<1>5. ret = "ok" /\ op \in Plain => stored >= amount /\ amount = len
  BY <1>1, <1>3, <1>4, Zenon DEF Over
<1>6. /\ op \in PrivOps /\ ret = "ok" => taken >= 1 /\ (taken = 1 \/ resent)
      /\ op \in PrivOps /\ ret \notin {"ok", "intr", "timedout"} => taken = 0 \/ resent
  BY <1>1, Zenon DEF Over, Delivered
<1> QED BY <1>2, <1>3, <1>4, <1>5, <1>6, Zenon

(* A step of the call keeps FrontInv.                                      *)
LEMMA CallsKept ==
    ASSUME CallInv, UNCHANGED callVars
    PROVE  CallInv'
BY DEF callVars, stubVars, loopVars, resVars, CallInv, CallTypeOK, LoopKept, Sent, Answered, Over,
   Delivered, Round

(* A function that returns is no command and no write, and claims no more  *)
(* than it has.                                                            *)
LEMMA Returns ==
    ASSUME CallInv, FrontInv, pc \in {"idle", "done"}, Keep, NEW r, NEW k \in Nat, Tell(r, k),
           fop \notin Adding \cup {"write"},
           have' \in Nat, moved' \in Nat, UNCHANGED <<kernel, done>> \/ (kernel' \in Nat /\ done' \in Nat),
           r = "ok" => k <= have' \/ (lossy' /\ fop \in {"getrandom", "app"})
    PROVE  CallInv' /\ FrontInv'
<1>1. UNCHANGED <<callVars, fop, size>> /\ fpc' = "done" /\ fret' = r /\ claim' = k
  BY Zenon DEF Keep, Tell
<1>2. CallInv' BY <1>1, CallsKept, Zenon
<1>3. pc' = pc BY <1>1, Zenon DEF callVars
<1>4. FrontTypeOK' BY <1>1, <1>3, Zenon DEF FrontInv, FrontTypeOK
<1>5. ClaimsBacked' BY <1>1, Zenon DEF ClaimsBacked
<1> QED BY <1>1, <1>2, <1>4, <1>5, Zenon DEF FrontInv

(* A function goes on with another call.                                   *)
LEMMA GoesOn ==
    ASSUME CallInv, FrontInv, NEW o, NEW m, NEW nb, NEW priv, Invoke(o, m, nb, priv), Legal(o, m),
           UNCHANGED <<fop, size, claim, fret>>, have' \in Nat, moved' \in Nat,
           kernel' \in Nat, done' \in Nat,
           fop # "getentropy" /\ fop \notin Adding,
           fop \in {"generate", "fill"} => o \in Plain \cup {"write_data"},
           fop \in {"nonce", "read"} => o \in Plain,
           fop = "read" => moved' <= have',
           fop = "write" => o = "write_data" /\ done' = moved' /\ kernel' = 0
    PROVE  CallInv' /\ FrontInv'
<1>1. Call(o, m, nb, priv) /\ fpc' = "call" BY Zenon DEF Invoke
<1>2. CallInv' /\ op' = o /\ len' = m BY <1>1, LegalCall, Zenon
<1>3. FrontTypeOK' BY <1>1, Zenon DEF FrontInv, FrontTypeOK
<1>4. Serving' BY <1>2, Zenon DEF Serving
<1>5. ClaimsBacked' BY <1>1, Zenon DEF ClaimsBacked
<1> QED BY <1>1, <1>2, <1>3, <1>4, <1>5, Zenon DEF FrontInv

(* The state at a return of a stub.                                        *)
LEMMA AtReturn ==
    ASSUME CallInv, FrontInv, NEW f, Returned(f)
    PROVE  /\ fop = f /\ fpc = "call" /\ pc = "done" /\ Serving
           /\ size \in Nat /\ moved \in Nat /\ have \in Nat /\ kernel \in Nat /\ done \in Nat
BY Zenon DEF Returned, FrontInv, FrontTypeOK

(* The names of the functions are different.                               *)
LEMMA FopsApart ==
    /\ Adding = {"addtoentcnt", "addentropy"}
    /\ DOMAIN IoctlStub = {"addtoentcnt", "addentropy", "clearpool", "reseedcrng"}
    /\ \A c \in DOMAIN IoctlStub : IoctlStub[c] \in PrivOps
    /\ \A o \in Plain \cup {"write_data", "get_seed"} : o \notin PrivOps
BY DEF Adding, IoctlStub, PrivOps, Plain

(* An application enters a function.                                       *)
LEMMA ApplicationKept ==
    ASSUME CallInv, FrontInv, FrontHypotheses, Application
    PROVE  CallInv' /\ FrontInv'
<1>1. CASE \E o \in Ops : \E n \in LensOf(o), nb, priv \in BOOLEAN :
             Enter("app", n, NoOption) /\ Begin(o, n, nb, priv)
  <2>1. PICK o \in Ops : \E n \in LensOf(o), nb, priv \in BOOLEAN :
             Enter("app", n, NoOption) /\ Begin(o, n, nb, priv)
    BY <1>1, Zenon
  <2>2. PICK n \in LensOf(o), nb \in BOOLEAN, priv \in BOOLEAN :
             Enter("app", n, NoOption) /\ Begin(o, n, nb, priv)
    BY <2>1, Zenon
  <2>3. n \in Nat /\ (o \in PrivOps => n \in {0, 1} /\ (o # "rnd_add_entropy" => n = 1))
    <3>1. CASE o \in RandomOps \cup {"write_data", "get_seed"}
      <4>1. o \notin PrivOps BY <3>1, OpsApart, Zenon
      <4>2. o # "rnd_add_entropy" BY <4>1, OpsApart, Zenon
      <4>3. LensOf(o) = Lens BY <3>1, <4>2, Zenon DEF LensOf
      <4> QED BY <4>1, <4>3, Zenon DEF FrontHypotheses
    <3>2. CASE o \notin RandomOps \cup {"write_data", "get_seed"}
      <4>1. LensOf(o) = IF o = "rnd_add_entropy" THEN {0, 1} ELSE {1} BY <3>2, Zenon DEF LensOf
      <4> QED BY <4>1
    <3> QED BY <3>1, <3>2, Zenon
  <2>4. Legal(o, n) BY <2>3, Zenon DEF Legal
  <2>5. "app" \notin Adding BY FopsApart, Zenon
  <2> QED BY <2>2, <2>3, <2>4, <2>5, Begins
<1>2. CASE /\ Returned("app") /\ Note /\ Tell(ret, amount) /\ have' = stored /\ Keep /\ Quiet
  <2>1. /\ fop = "app" /\ pc = "done"
        /\ moved \in Nat /\ kernel \in Nat /\ done \in Nat
    BY <1>2, AtReturn, Zenon
  <2>2. /\ stored \in Nat /\ amount \in Nat /\ (ret = "ok" => stored >= amount \/ cut)
    BY <2>1, BackHonest, Zenon
  <2>3. UNCHANGED <<moved, kernel, done>> /\ (cut => lossy') BY <1>2, Zenon DEF Quiet, Note
  <2>4. fop \notin Adding \cup {"write"} BY <2>1, FopsApart, Zenon
  <2>5. ret = "ok" => amount <= have' \/ lossy' BY <1>2, <2>2, <2>3, Zenon
  <2> QED BY <1>2, <2>1, <2>2, <2>3, <2>4, <2>5, Returns, Zenon
<1> QED BY <1>1, <1>2, Zenon DEF Application

(* The stubs for random bytes take every length.                           *)
LEMMA PlainLegal ==
    ASSUME NEW n \in Nat, NEW o \in Plain \cup {"write_data", "get_seed"}
    PROVE  Legal(o, n)
BY FopsApart, Zenon DEF Legal

(* getrandom(),                                                            *)
LEMMA GetrandomKept ==
    ASSUME CallInv, FrontInv, FrontHypotheses, getrandom_common \/ KernelGetrandom
    PROVE  CallInv' /\ FrontInv'
<1>f. "getrandom" \notin Adding \cup {"write"} BY FopsApart, Zenon
<1>1. ASSUME NEW n \in Sizes, NEW nb \in BOOLEAN,
             NEW kind \in {"insecure", "random", "seed", "plain", "invalid"},
             Enter("getrandom", n, [NoOption EXCEPT !.strict = nb]),
             IF kind = "invalid" THEN Refuse("inval")
             ELSE Begin(StubOf(kind), n, nb /\ kind = "seed", FALSE)
      PROVE  CallInv' /\ FrontInv'
  <2>1. n \in Nat BY Zenon DEF FrontHypotheses
  <2>2. CASE kind = "invalid" BY <1>1, <2>1, <2>2, Refused, Zenon
  <2>3. CASE kind # "invalid"
    <3>1. StubOf(kind) \in Plain \cup {"write_data", "get_seed"}
      BY <2>3, Zenon DEF StubOf, Plain
    <3>2. Legal(StubOf(kind), n) BY <2>1, <3>1, PlainLegal, Zenon
    <3>3. Begin(StubOf(kind), n, nb /\ kind = "seed", FALSE) BY <1>1, <2>3, Zenon
    <3> HIDE DEF StubOf
    <3> QED BY <1>1, <1>f, <2>1, <3>2, <3>3, Begins, Zenon
  <2> QED BY <2>2, <2>3, Zenon
<1>2. CASE /\ Returned("getrandom") /\ Note
           /\ IF ret = "ok" \/ op = "get_seed"
                THEN Tell(ret, amount) /\ have' = stored
                ELSE fpc' = "kernel" /\ UNCHANGED <<fret, claim, have>>
           /\ Keep /\ Quiet
  <2>1. /\ fop = "getrandom" /\ pc = "done"
        /\ moved \in Nat /\ kernel \in Nat /\ done \in Nat
    BY <1>2, AtReturn, Zenon
  <2>2. UNCHANGED <<moved, kernel, done>> /\ (cut => lossy') BY <1>2, Zenon DEF Quiet, Note
  <2>3. CASE Tell(ret, amount) /\ have' = stored
    <3>1. stored \in Nat /\ amount \in Nat /\ (ret = "ok" => stored >= amount \/ cut)
      BY <2>1, BackHonest, Zenon
    <3>2. ret = "ok" => amount <= have' \/ lossy' BY <2>2, <2>3, <3>1, Zenon
    <3> QED BY <1>2, <1>f, <2>1, <2>2, <2>3, <3>1, <3>2, Returns, Zenon
  <2>4. CASE fpc' = "kernel" /\ UNCHANGED <<fret, claim, have>>
    <3>1. UNCHANGED <<callVars, fop, size>> BY <1>2, Zenon DEF Keep
    <3>2. CallInv' /\ pc' = "done" BY <2>1, <3>1, CallsKept, Zenon DEF callVars
    <3>3. FrontTypeOK' BY <2>2, <2>4, <3>1, <3>2, Zenon DEF FrontInv, FrontTypeOK
    <3>4. ClaimsBacked' BY <2>4, Zenon DEF ClaimsBacked
    <3> QED BY <2>1, <2>4, <3>1, <3>2, <3>3, <3>4, Zenon DEF FrontInv
  <2> QED BY <1>2, <2>3, <2>4, Zenon
<1>3. CASE KernelGetrandom
  <2>1. /\ fop = "getrandom" /\ fpc = "kernel" /\ Keep /\ UNCHANGED <<moved, kernel, done>>
        /\ pc \in {"idle", "done"} /\ size \in Nat /\ moved \in Nat /\ have \in Nat
    BY <1>3, Zenon DEF KernelGetrandom, Quiet, FrontInv, FrontTypeOK
  <2>2. CASE \E n \in 1..size : Tell("ok", n) /\ have' = n
    <3>1. PICK n \in 1..size : Tell("ok", n) /\ have' = n BY <2>2, Zenon
    <3>2. n \in Nat /\ n <= have' BY <2>1, <3>1
    <3> QED BY <1>f, <2>1, <3>1, <3>2, Returns, Zenon
  <2>3. CASE Tell("errno", 0) /\ UNCHANGED have
    BY <1>f, <2>1, <2>3, Returns, Zenon
  <2> QED BY <1>3, <2>2, <2>3, Zenon DEF KernelGetrandom
<1> QED BY <1>1, <1>2, <1>3, Zenon DEF getrandom_common

(* getentropy(),                                                           *)
LEMMA GetentropyKept ==
    ASSUME CallInv, FrontInv, FrontHypotheses, getentropy_common
    PROVE  CallInv' /\ FrontInv'
<1>f. "getentropy" \notin Adding \cup {"write"} BY FopsApart, Zenon
<1>p. "get_random_bytes_full" \in Plain BY Zenon DEF Plain
<1>1. ASSUME NEW n \in Sizes, NEW long \in BOOLEAN, Enter("getentropy", n, NoOption),
             IF long THEN Refuse("io") ELSE Begin("get_random_bytes_full", n, FALSE, FALSE)
      PROVE  CallInv' /\ FrontInv'
  <2>1. n \in Nat BY Zenon DEF FrontHypotheses
  <2>2. CASE long BY <1>1, <2>1, <2>2, Refused, Zenon
  <2>3. CASE ~long
    <3>1. Legal("get_random_bytes_full", n) BY <1>p, <2>1, PlainLegal, Zenon
    <3> QED BY <1>1, <1>f, <2>1, <2>3, <3>1, Begins, Zenon
  <2> QED BY <2>2, <2>3, Zenon
<1>2. CASE /\ Returned("getentropy") /\ Note
           /\ \/ ret = "ok" /\ Tell("ok", size) /\ have' = stored
              \/ /\ ret # "ok"
                 /\ \E n \in 0..size : /\ Tell(IF n = size THEN "ok" ELSE "errno",
                                               IF n = size THEN size ELSE 0)
                                       /\ have' = n
           /\ Keep /\ Quiet
  <2>1. /\ fop = "getentropy" /\ pc = "done" /\ op = "get_random_bytes_full" /\ len = size
        /\ moved \in Nat /\ kernel \in Nat /\ done \in Nat /\ size \in Nat
    BY <1>2, AtReturn, Zenon DEF Serving
  <2>2. UNCHANGED <<moved, kernel, done>> BY <1>2, Zenon DEF Quiet
  <2>3. CASE ret = "ok" /\ Tell("ok", size) /\ have' = stored
    <3>1. stored \in Nat /\ stored >= size BY <1>p, <2>1, <2>3, BackHonest, Zenon
    <3>2. size <= have' BY <2>1, <2>3, <3>1, Zenon
    <3> QED BY <1>2, <1>f, <2>1, <2>2, <2>3, <3>1, <3>2, Returns, Zenon
  <2>4. CASE \E n \in 0..size : /\ Tell(IF n = size THEN "ok" ELSE "errno",
                                        IF n = size THEN size ELSE 0)
                                /\ have' = n
    <3>1. PICK n \in 0..size : /\ Tell(IF n = size THEN "ok" ELSE "errno",
                                       IF n = size THEN size ELSE 0)
                               /\ have' = n
      BY <2>4, Zenon
    <3>2. n \in Nat /\ n <= n /\ 0 \in Nat BY <2>1
    <3>3. CASE n = size /\ Tell("ok", n)
      BY <1>2, <1>f, <2>1, <2>2, <3>1, <3>2, <3>3, Returns, Zenon
    <3>4. CASE Tell("errno", 0)
      BY <1>2, <1>f, <2>1, <2>2, <3>1, <3>2, <3>4, Returns, Zenon
    <3> QED BY <3>1, <3>3, <3>4, Zenon
  <2> QED BY <1>2, <2>3, <2>4, Zenon
<1> QED BY <1>1, <1>2, Zenon DEF getentropy_common

(* additional input, if there is any, before the request,                  *)
LEMMA InputFirstKept ==
    ASSUME CallInv, FrontInv, FrontHypotheses,
           NEW f \in {"generate", "fill", "seed"}, NEW o, NEW lengths \in SUBSET Nat,
           f # "seed" => o \in Plain, o \in Plain \cup {"get_seed"},
           InputFirst(f, o, lengths)
    PROVE  CallInv' /\ FrontInv'
<1>f. f \notin Adding \cup {"write", "nonce", "read", "getentropy"} BY FopsApart, Zenon
<1>p. "get_random_bytes_pr" \in Plain BY Zenon DEF Plain
<1>1. ASSUME NEW n \in lengths, NEW w, Enter(f, n, w),
             IF w.input THEN Begin("write_data", 1, FALSE, FALSE)
             ELSE Begin(IF w.pr THEN "get_random_bytes_pr" ELSE o, n, FALSE, FALSE)
      PROVE  CallInv' /\ FrontInv'
  <2>1. n \in Nat BY Zenon
  <2>2. CASE Begin("write_data", 1, FALSE, FALSE)
    <3>1. Legal("write_data", 1) BY PlainLegal, Zenon
    <3> QED BY <1>1, <1>f, <2>1, <2>2, <3>1, Begins, Zenon
  <2>3. CASE \E s \in {o, "get_random_bytes_pr"} : Begin(s, n, FALSE, FALSE)
    <3>1. PICK s \in {o, "get_random_bytes_pr"} : Begin(s, n, FALSE, FALSE) BY <2>3, Zenon
    <3>2. Legal(s, n) /\ (f # "seed" => s \in Plain) BY <1>p, <2>1, PlainLegal, Zenon
    <3> QED BY <1>1, <1>f, <2>1, <3>1, <3>2, Begins, Zenon
  <2> QED BY <1>1, <2>2, <2>3, Zenon
<1>2. CASE /\ Returned(f) /\ op = "write_data" /\ Note
           /\ \/ /\ ret # "ok" /\ Tell("error", 0) /\ Keep
              \/ /\ ret = "ok"
                 /\ Invoke(IF wanted.pr THEN "get_random_bytes_pr" ELSE o, size,
                           FALSE, FALSE)
                 /\ UNCHANGED <<fop, size, wanted, fret, claim>>
           /\ Quiet /\ UNCHANGED have
  <2>1. /\ fop = f /\ pc = "done" /\ size \in Nat
        /\ moved \in Nat /\ kernel \in Nat /\ done \in Nat /\ have \in Nat
    BY <1>2, AtReturn, Zenon
  <2>2. UNCHANGED <<moved, kernel, done, have>> BY <1>2, Zenon DEF Quiet
  <2>3. CASE Tell("error", 0) /\ Keep BY <1>f, <2>1, <2>2, <2>3, Returns, Zenon
  <2>4. CASE /\ Invoke(IF wanted.pr THEN "get_random_bytes_pr" ELSE o, size, FALSE, FALSE)
             /\ UNCHANGED <<fop, size, wanted, fret, claim>>
    <3>1. PICK s \in {o, "get_random_bytes_pr"} : Invoke(s, size, FALSE, FALSE) BY <2>4, Zenon
    <3>2. Legal(s, size) /\ (f # "seed" => s \in Plain) BY <1>p, <2>1, PlainLegal, Zenon
    <3> QED BY <1>f, <2>1, <2>2, <2>4, <3>1, <3>2, GoesOn, Zenon
  <2> QED BY <1>2, <2>3, <2>4, Zenon
<1> QED BY <1>1, <1>2, Zenon DEF InputFirst

(* a function that checks the length it got,                               *)
LEMMA FullReturns ==
    ASSUME CallInv, FrontInv, NEW f \in {"generate", "fill", "nonce"}, Returned(f),
           op # "write_data", NEW r, r # "ok",
           IF ret = "ok" /\ amount = size THEN Tell("ok", size) ELSE Tell(r, 0),
           have' = stored, Keep, Quiet
    PROVE  CallInv' /\ FrontInv'
<1>1. /\ fop = f /\ pc = "done" /\ size \in Nat /\ op \in Plain
      /\ moved \in Nat /\ kernel \in Nat /\ done \in Nat
  BY AtReturn, Zenon DEF Serving
<1>2. fop \notin Adding \cup {"write"} BY <1>1, FopsApart, Zenon
<1>3. UNCHANGED <<moved, kernel, done>> BY Zenon DEF Quiet
<1>4. stored \in Nat /\ amount \in Nat /\ (ret = "ok" => stored >= amount) BY <1>1, BackHonest, Zenon
<1>5. CASE ret = "ok" /\ amount = size /\ Tell("ok", size)
  <2>1. size <= have' BY <1>1, <1>4, <1>5, Zenon
  <2> QED BY <1>1, <1>2, <1>3, <1>4, <1>5, <2>1, Returns, Zenon
<1>6. CASE Tell(r, 0) BY <1>1, <1>2, <1>3, <1>4, <1>6, Returns, Zenon
<1> QED BY <1>5, <1>6, Zenon

(* the generator of the providers,                                         *)
LEMMA ProviderKept ==
    ASSUME CallInv, FrontInv, FrontHypotheses,
           esdm_rand_generate \/ esdm_rand_nonce \/ fill_bytes_with_input
    PROVE  CallInv' /\ FrontInv'
<1>p. "get_random_bytes_full" \in Plain /\ "get_random_bytes_min" \in Plain
      /\ "get_random_bytes_min" # "write_data"
  BY Zenon DEF Plain
<1>s. Sizes \in SUBSET Nat BY Zenon DEF FrontHypotheses
<1>1. CASE esdm_rand_generate
  <2>1. CASE InputFirst("generate", "get_random_bytes_full", Sizes)
    BY <1>p, <1>s, <2>1, InputFirstKept, Zenon
  <2> QED BY <1>1, <2>1, FullReturns, Zenon DEF esdm_rand_generate
<1>2. CASE fill_bytes_with_input
  <2>1. CASE InputFirst("fill", "get_random_bytes_full", Sizes)
    BY <1>p, <1>s, <2>1, InputFirstKept, Zenon
  <2> QED BY <1>2, <2>1, FullReturns, Zenon DEF fill_bytes_with_input
<1>3. CASE esdm_rand_nonce
  <2>1. ASSUME NEW n \in Sizes, Enter("nonce", n, NoOption),
               Begin("get_random_bytes_min", n, FALSE, FALSE)
        PROVE  CallInv' /\ FrontInv'
    <3>1. n \in Nat /\ "nonce" \notin Adding \cup {"write", "getentropy", "generate", "fill"}
      BY <1>s, FopsApart, Zenon
    <3>2. Legal("get_random_bytes_min", n) BY <1>p, <3>1, PlainLegal, Zenon
    <3> QED BY <1>p, <2>1, <3>1, <3>2, Begins, Zenon
  <2>2. CASE Returned("nonce")
    <3>1. op \in Plain BY <2>2, AtReturn, Zenon DEF Serving
    <3>2. op # "write_data" BY <3>1, Zenon DEF Plain
    <3> QED BY <1>3, <2>2, <3>2, FullReturns, <2>1, Zenon DEF esdm_rand_nonce
  <2> QED BY <1>3, <2>1, <2>2, Zenon DEF esdm_rand_nonce
<1> QED BY <1>1, <1>2, <1>3, Zenon

(* their seed source                                                       *)
LEMMA SeedKept ==
    ASSUME CallInv, FrontInv, FrontHypotheses, esdm_rand_get_seed
    PROVE  CallInv' /\ FrontInv'
<1>1. CASE InputFirst("seed", "get_seed", {MaxData})
  BY <1>1, InputFirstKept DEF FrontHypotheses
<1>2. CASE /\ Returned("seed") /\ op # "write_data" /\ Note
           /\ \E bits \in (IF stored >= SeedHead THEN BOOLEAN ELSE {FALSE}) :
                IF ret = "ok" /\ amount > 0 /\ (wanted.strict => bits)
                  THEN Tell("ok", IF wanted.strict THEN SeedHead ELSE 0)
                  ELSE Tell("error", 0)
           /\ have' = stored
           /\ Keep /\ Quiet
  <2>1. fop = "seed" /\ pc = "done" /\ moved \in Nat BY <1>2, AtReturn, Zenon
  <2>2. fop \notin Adding \cup {"write"} BY <2>1, FopsApart, Zenon
  <2>3. UNCHANGED <<moved, kernel, done>> BY <1>2, Zenon DEF Quiet
  <2>4. stored \in Nat /\ stored >= 0 BY <2>1, BackHonest
  <2>5. \/ stored >= SeedHead /\ Tell("ok", SeedHead)
        \/ Tell("ok", 0) \/ Tell("error", 0)
    BY <1>2, Zenon
  <2>6. CASE stored >= SeedHead /\ Tell("ok", SeedHead)
    <3>1. SeedHead \in Nat /\ SeedHead <= have' BY <1>2, <2>4, <2>6, Zenon DEF SeedHead
    <3> QED BY <1>2, <2>1, <2>2, <2>3, <2>4, <2>6, <3>1, Returns, Zenon
  <2>7. CASE Tell("ok", 0) \/ Tell("error", 0)
    <3>1. 0 <= have' BY <1>2, <2>4, Zenon
    <3> QED BY <1>2, <2>1, <2>2, <2>3, <2>4, <2>7, <3>1, Returns, Zenon
  <2> QED BY <2>5, <2>6, <2>7, Zenon
<1> QED BY <1>1, <1>2, Zenon DEF esdm_rand_get_seed

(* and the functions that hand over no data keep FrontInv.                 *)
LEMMA NoDataKept ==
    ASSUME CallInv, FrontInv, FrontHypotheses, esdm_rand_reseed \/ esdm_self_test
    PROVE  CallInv' /\ FrontInv'
<1>f. /\ {"reseed", "selftest"} \cap (Adding \cup {"write"}) = {}
  BY FopsApart, Zenon
<1>1. Legal("write_data", 1) BY PlainLegal, Zenon
<1>2. Legal("rnd_get_ent_cnt", 1) BY Zenon DEF Legal
<1>3. CASE Enter("reseed", 0, NoOption) /\ Begin("write_data", 1, FALSE, FALSE)
  BY <1>f, <1>1, <1>3, Begins, Zenon
<1>4. CASE Enter("selftest", 0, NoOption) /\ Begin("rnd_get_ent_cnt", 1, FALSE, FALSE)
  BY <1>f, <1>2, <1>4, Begins, Zenon
<1>5. ASSUME NEW f \in {"reseed", "selftest"}, Returned(f), NEW r, Tell(r, 0), Keep, Quiet, UNCHANGED have
      PROVE  CallInv' /\ FrontInv'
  <2>1. /\ fop = f /\ pc = "done" /\ moved \in Nat /\ have \in Nat
    BY <1>5, AtReturn, Zenon
  <2>2. UNCHANGED <<moved, kernel, done>> /\ 0 <= have' BY <1>5, <2>1 DEF Quiet
  <2> QED BY <1>f, <1>5, <2>1, <2>2, Returns, Zenon
<1>6. CASE /\ Returned("reseed") /\ Invoke("write_data", 1, FALSE, FALSE)
           /\ UNCHANGED <<fop, size, wanted, fret, claim>> /\ Quiet /\ UNCHANGED have
  <2>1. /\ fop = "reseed" /\ pc = "done" /\ moved \in Nat /\ have \in Nat
        /\ kernel \in Nat /\ done \in Nat
    BY <1>6, AtReturn, Zenon
  <2>2. UNCHANGED <<moved, kernel, done, have>> BY <1>6, Zenon DEF Quiet
  <2> QED BY <1>f, <1>1, <1>6, <2>1, <2>2, GoesOn, Zenon
<1> QED BY <1>3, <1>4, <1>5, <1>6, Zenon DEF esdm_rand_reseed, esdm_self_test

(* A read of the device keeps it.                                          *)
LEMMA ReadKept ==
    ASSUME CallInv, FrontInv, FrontHypotheses, esdm_cuse_read_internal
    PROVE  CallInv' /\ FrontInv'
<1>f. "read" \notin Adding \cup {"write", "getentropy", "generate", "fill", "getrandom", "app"} BY FopsApart, Zenon
<1>n. \A n \in Nat : NextRead(n) \in Nat BY SmallerIs, Zenon DEF NextRead, FrontHypotheses
<1>1. ASSUME NEW n \in Sizes \ {0}, NEW w, NEW s \in Plain, Enter("read", n, w),
             Begin(s, NextRead(n), FALSE, FALSE)
      PROVE  CallInv' /\ FrontInv'
  <2>1. n \in Nat BY Zenon DEF FrontHypotheses
  <2>2. NextRead(n) \in Nat BY <1>n, <2>1, Zenon
  <2>3. Legal(s, NextRead(n)) BY <2>2, PlainLegal, Zenon
  <2> QED BY <1>f, <1>1, <2>1, <2>3, Begins, Zenon
<1>2. ASSUME NEW n, Returned("read"),
             n \in (IF ret = "ok" THEN {amount} ELSE IF wanted.fd THEN (-1)..len ELSE {-1}),
             have' = IF ret = "ok" THEN have + stored ELSE IF n > 0 THEN have + n ELSE have,
             IF n < 0
               THEN Tell("error", 0) /\ UNCHANGED moved /\ Keep
               ELSE /\ moved' = moved + n
                    /\ \/ moved + n = size /\ Tell("ok", size) /\ Keep
                       \/ /\ moved + n < size
                          /\ Invoke(op, NextRead(size - moved - n), FALSE, FALSE)
                          /\ UNCHANGED <<fop, size, wanted, fret, claim>>,
             UNCHANGED <<kernel, done>>
      PROVE  CallInv' /\ FrontInv'
  <2>1. /\ fop = "read" /\ pc = "done" /\ size \in Nat /\ op \in Plain /\ moved <= have
        /\ moved \in Nat /\ have \in Nat /\ kernel \in Nat /\ done \in Nat
    BY <1>2, AtReturn, Zenon DEF Serving
  <2>2. /\ stored \in Nat /\ amount \in Nat /\ len \in Nat /\ (ret = "ok" => stored >= amount)
    BY <2>1, BackHonest, Zenon
  <2>3. n \in Int /\ have' \in Nat /\ (n >= 0 => moved + n \in Nat /\ moved + n <= have')
    BY <1>2, <2>1, <2>2
  <2>4. fop \notin Adding \cup {"write"} BY <2>1, <1>f, Zenon
  <2>5. CASE n < 0 /\ Tell("error", 0) /\ UNCHANGED moved /\ Keep
    BY <1>2, <2>1, <2>3, <2>4, <2>5, Returns, Zenon
  <2>6. CASE ~(n < 0) /\ moved' = moved + n /\ moved + n = size /\ Tell("ok", size) /\ Keep
    <3>1. size <= have' /\ moved' \in Nat BY <2>1, <2>3, <2>6
    <3> QED BY <1>2, <2>1, <2>3, <2>4, <2>6, <3>1, Returns, Zenon
  <2>7. CASE /\ ~(n < 0) /\ moved' = moved + n /\ moved + n < size
             /\ Invoke(op, NextRead(size - moved - n), FALSE, FALSE)
             /\ UNCHANGED <<fop, size, wanted, fret, claim>>
    <3>1. moved' \in Nat /\ moved' <= have' /\ size - moved - n \in Nat BY <2>1, <2>3, <2>7
    <3>2. NextRead(size - moved - n) \in Nat BY <1>n, <3>1, Zenon
    <3>3. Legal(op, NextRead(size - moved - n)) BY <2>1, <3>2, PlainLegal, Zenon
    <3>4. kernel' \in Nat /\ done' \in Nat /\ UNCHANGED <<fop, size, claim, fret>> BY <1>2, <2>1, <2>7, Zenon
    <3> QED BY <1>f, <2>1, <2>3, <2>7, <3>1, <3>3, <3>4, GoesOn, Zenon
  <2> QED BY <1>2, <2>5, <2>6, <2>7, Zenon
<1>3. "get_random_bytes" \in Plain /\ "get_random_bytes_full" \in Plain /\ "get_random_bytes_pr" \in Plain
  BY Zenon DEF Plain
<1>4. CASE \E n \in Sizes \ {0}, pr, fd \in BOOLEAN,
              get \in {"get_random_bytes", "get_random_bytes_full"} :
             /\ Enter("read", n, [NoOption EXCEPT !.pr = pr, !.fd = fd])
             /\ Begin(IF pr THEN "get_random_bytes_pr" ELSE get, NextRead(n), FALSE, FALSE)
  BY <1>1, <1>3, <1>4, Zenon
<1> QED BY <1>2, <1>4, Zenon DEF esdm_cuse_read_internal

(* What the kernel takes of a write.                                       *)
LEMMA KernelWriteKept ==
    ASSUME CallInv, FrontInv, fop = "write", pc = "done" \/ pc = "idle", KernelWrite, Keep,
           UNCHANGED <<done, have>>,
           fpc = "kernel" \/ (fpc = "call" /\ done = moved /\ kernel = 0)
    PROVE  CallInv' /\ FrontInv'
<1>1. PICK n \in 1..size :
        /\ moved' = moved + n
        /\ kernel' = IF n > kernel THEN n ELSE kernel
        /\ lossy' = (lossy \/ n < size \/ done > 0)
        /\ IF moved + n < size THEN fpc' = "kernel" /\ UNCHANGED <<fret, claim>>
                               ELSE Tell("ok", moved + n)
  BY Zenon DEF KernelWrite
<1>2. UNCHANGED <<callVars, fop, size, done, have>> BY Zenon DEF Keep
<1>3. CallInv' /\ pc' = pc BY <1>2, CallsKept, Zenon DEF callVars
<1>4. /\ size \in Nat /\ moved \in Nat /\ kernel \in Nat /\ done \in Nat /\ have \in Nat /\ claim \in Nat
      /\ (fpc = "kernel" => lossy)
  BY Zenon DEF FrontInv, FrontTypeOK
<1>5. n \in Nat /\ moved' \in Nat /\ kernel' \in Nat /\ n >= 1 /\ n <= size BY <1>1, <1>4
<1>6. "write" \notin Adding BY FopsApart, Zenon
<1>7. CASE moved + n < size /\ fpc' = "kernel" /\ UNCHANGED <<fret, claim>>
  <2>0. n < size BY <1>4, <1>5, <1>7
  <2>1. lossy' BY <1>1, <2>0, Zenon
  <2>2. FrontTypeOK' BY <1>2, <1>3, <1>4, <1>5, <1>7, Zenon DEF FrontTypeOK
  <2>3. ClaimsBacked' BY <1>7, Zenon DEF ClaimsBacked
  <2> QED BY <1>3, <1>7, <2>1, <2>2, <2>3, Zenon DEF FrontInv
<1>8. CASE Tell("ok", moved + n)
  <2>1. fpc' = "done" /\ claim' = moved + n /\ fret' = "ok" BY <1>8, Zenon DEF Tell
  <2>2. FrontTypeOK' BY <1>1, <1>2, <1>3, <1>4, <1>5, <2>1, Zenon DEF FrontTypeOK
  <2>3. lossy' \/ (moved = 0 /\ kernel' = n)
    <3>1. CASE fpc = "kernel" BY <1>1, <1>4, <3>1, Zenon
    <3>2. CASE done = moved /\ kernel = 0
      <4>1. moved = 0 \/ done > 0 BY <1>4, <3>2
      <4>2. kernel' = n BY <1>1, <1>5, <3>2
      <4> QED BY <1>1, <4>1, <4>2, Zenon
    <3> QED BY <3>1, <3>2, Zenon
  <2>4. lossy' \/ claim' <= kernel' BY <1>4, <1>5, <2>1, <2>3
  <2>5. lossy' \/ claim' <= IF done' > kernel' THEN done' ELSE kernel'
    BY <1>2, <1>4, <1>5, <2>1, <2>4
  <2>6. ClaimsBacked' BY <1>2, <1>6, <2>1, <2>5, Zenon DEF ClaimsBacked
  <2> QED BY <1>3, <2>1, <2>2, <2>6, Zenon DEF FrontInv
<1> QED BY <1>1, <1>7, <1>8, Zenon

(* A write that ends.                                                      *)
LEMMA WriteReturns ==
    ASSUME CallInv, FrontInv, fop = "write", pc = "done" \/ pc = "idle", Keep, UNCHANGED have,
           NEW r, NEW k \in Nat, Tell(r, k), moved' \in Nat, done' \in Nat, kernel' \in Nat,
           r = "ok" => k <= done'
    PROVE  CallInv' /\ FrontInv'
<1>1. UNCHANGED <<callVars, fop, size, have>> BY Zenon DEF Keep
<1>2. CallInv' /\ pc' = pc BY <1>1, CallsKept, Zenon DEF callVars
<1>3. fpc' = "done" /\ claim' = k /\ fret' = r BY Zenon DEF Tell
<1>4. FrontTypeOK' BY <1>1, <1>2, <1>3, Zenon DEF FrontInv, FrontTypeOK
<1>5. "write" \notin Adding BY FopsApart, Zenon
<1>6. r = "ok" => k <= IF done' > kernel' THEN done' ELSE kernel' OBVIOUS
<1>7. ClaimsBacked' BY <1>1, <1>3, <1>5, <1>6, Zenon DEF ClaimsBacked
<1> QED BY <1>2, <1>3, <1>4, <1>7, Zenon DEF FrontInv

(* A write to the device keeps FrontInv.                                   *)
LEMMA WriteKept ==
    ASSUME CallInv, FrontInv, FrontHypotheses, esdm_cuse_write_internal
    PROVE  CallInv' /\ FrontInv'
<1>f. "write" \notin Adding \cup {"getentropy", "generate", "fill", "nonce", "read"} BY FopsApart, Zenon
<1>n. \A n \in Nat : NextRead(n) \in Nat BY SmallerIs, Zenon DEF NextRead, FrontHypotheses
<1>1. ASSUME NEW n \in Sizes, NEW w, Enter("write", n, w),
             IF n = 0 THEN Refuse("fault") ELSE Begin("write_data", NextRead(n), FALSE, FALSE)
      PROVE  CallInv' /\ FrontInv'
  <2>1. n \in Nat BY Zenon DEF FrontHypotheses
  <2>2. CASE n = 0 BY <1>1, <2>1, <2>2, Refused, Zenon
  <2>3. CASE n # 0
    <3>1. NextRead(n) \in Nat BY <1>n, <2>1, Zenon
    <3>2. Legal("write_data", NextRead(n)) BY <3>1, PlainLegal, Zenon
    <3> QED BY <1>f, <1>1, <2>1, <2>3, <3>2, Begins, Zenon
  <2> QED BY <2>2, <2>3, Zenon
<1>2. CASE Returned("write") /\ UNCHANGED <<silent, have>>
  <2>1. /\ fop = "write" /\ pc = "done" /\ fpc = "call" /\ size \in Nat /\ done = moved /\ kernel = 0
        /\ moved \in Nat /\ have \in Nat /\ kernel \in Nat /\ done \in Nat
    BY <1>2, AtReturn, Zenon DEF Serving
  <2>2. len \in Nat BY <2>1, BackHonest, Zenon
  <2>3. CASE /\ moved' = moved + len /\ done' = done + len /\ moved + len = size /\ Tell("ok", size) /\ Keep
             /\ UNCHANGED kernel
    <3>1. moved' \in Nat /\ done' \in Nat /\ kernel' \in Nat /\ size <= done' BY <2>1, <2>2, <2>3
    <3> QED BY <1>2, <2>1, <2>3, <3>1, WriteReturns, Zenon
  <2>4. CASE /\ moved' = moved + len /\ done' = done + len /\ moved + len < size
             /\ Invoke("write_data", NextRead(size - moved - len), FALSE, FALSE)
             /\ UNCHANGED <<fop, size, wanted, fret, claim>> /\ UNCHANGED kernel
    <3>1. moved' \in Nat /\ done' \in Nat /\ kernel' \in Nat /\ kernel' = 0 /\ done' = moved'
          /\ size - moved - len \in Nat /\ have' \in Nat
      BY <1>2, <2>1, <2>2, <2>4
    <3>2. NextRead(size - moved - len) \in Nat BY <1>n, <3>1, Zenon
    <3>3. Legal("write_data", NextRead(size - moved - len)) BY <3>2, PlainLegal, Zenon
    <3>4. UNCHANGED <<fop, size, claim, fret>> BY <2>4, Zenon
    <3> QED BY <1>f, <2>1, <2>4, <3>1, <3>3, <3>4, GoesOn, Zenon
  <2>5. CASE KernelWrite /\ Keep /\ UNCHANGED done
    BY <1>2, <2>1, <2>5, KernelWriteKept, Zenon
  <2>6. CASE Tell("error", 0) /\ Keep /\ UNCHANGED <<moved, kernel, done>>
    BY <1>2, <2>1, <2>6, WriteReturns, Zenon
  <2>7. \/ /\ moved' = moved + len /\ done' = done + len /\ moved + len = size /\ Tell("ok", size) /\ Keep
           /\ UNCHANGED kernel
        \/ /\ moved' = moved + len /\ done' = done + len /\ moved + len < size
           /\ Invoke("write_data", NextRead(size - moved - len), FALSE, FALSE)
           /\ UNCHANGED <<fop, size, wanted, fret, claim>> /\ UNCHANGED kernel
        \/ KernelWrite /\ Keep /\ UNCHANGED done
        \/ Tell("error", 0) /\ Keep /\ UNCHANGED <<moved, kernel, done>>
        \/ \E n \in Sizes, fd \in BOOLEAN : Enter("write", n, [NoOption EXCEPT !.fd = fd])
        \/ fpc = "kernel"
    BY Zenon DEF esdm_cuse_write_internal
  <2>8. ~\E n, w : Enter("write", n, w) BY <2>1, Zenon DEF Enter
  <2> QED BY <2>1, <2>3, <2>4, <2>5, <2>6, <2>7, <2>8, Zenon
<1>3. CASE /\ fop = "write" /\ fpc = "kernel"
           /\ KernelWrite \/ (Tell("error", 0) /\ UNCHANGED <<moved, kernel, lossy>>)
           /\ Keep /\ UNCHANGED <<have, done, silent>>
  <2>1. /\ pc = "done" \/ pc = "idle"
        /\ moved \in Nat /\ kernel \in Nat /\ done \in Nat
    BY <1>3, Zenon DEF FrontInv, FrontTypeOK
  <2>2. CASE KernelWrite BY <1>3, <2>1, <2>2, KernelWriteKept, Zenon
  <2>3. CASE Tell("error", 0) /\ UNCHANGED <<moved, kernel, lossy>>
    BY <1>3, <2>1, <2>3, WriteReturns, Zenon
  <2> QED BY <1>3, <2>2, <2>3, Zenon
<1> QED BY <1>1, <1>2, <1>3, Zenon DEF esdm_cuse_write_internal

(* A command of the device that ends.                                      *)
LEMMA IoctlReturns ==
    ASSUME CallInv, FrontInv, NEW cmd \in DOMAIN IoctlStub, IoctlDone(cmd)
    PROVE  CallInv' /\ FrontInv'
<1>1. /\ fop = cmd /\ pc = "done" /\ Serving
      /\ moved \in Nat /\ have \in Nat /\ done \in Nat
  BY AtReturn, Zenon DEF IoctlDone
<1>2. taken \in Nat BY <1>1, BackHonest, Zenon
<1>3. /\ UNCHANGED <<callVars, fop, size, wanted, moved, have>> /\ done' = Smaller(done + taken, 2)
      /\ silent' = (silent \/ ret \in {"intr", "timedout"})
  BY Zenon DEF IoctlDone, Keep, Note
<1>4. PICK n \in (IF wanted.fd /\ ((ret = "ok") # (cmd \in Adding)) THEN {0, 1} ELSE {0}) :
        /\ kernel' = n
        /\ IF cmd \in Adding
             THEN Tell(IF ret = "ok" \/ n = 1 \/ ~wanted.fd THEN "ok" ELSE "errno", 0)
             ELSE Tell(IF ret # "ok" THEN "error"
                        ELSE IF wanted.fd /\ n = 0 THEN "errno" ELSE "ok", 0)
  BY Zenon DEF IoctlDone
<1>5. fpc' = "done" /\ claim' = 0 BY <1>4, Zenon DEF Tell
<1>6. CallInv' /\ pc' = "done" /\ resent' = resent BY <1>1, <1>3, CallsKept, Zenon DEF callVars
<1>7. n \in {0, 1} BY <1>4, Zenon
<1>8. done' \in Nat BY <1>1, <1>2, <1>3 DEF Smaller
<1>9. FrontTypeOK' BY <1>1, <1>3, <1>4, <1>5, <1>6, <1>7, <1>8 DEF FrontInv, FrontTypeOK
<1>10. "write" \notin DOMAIN IoctlStub BY FopsApart, Zenon
<1>11. fop' # "write" /\ claim' <= have' BY <1>1, <1>3, <1>5, <1>10
<1>12. ASSUME cmd \in Adding
       PROVE  /\ ~silent' /\ ~resent => done' + kernel' <= 1
              /\ fret' = "ok" /\ wanted.fd => done' + kernel' >= 1
              /\ fret' \notin {"perm", "retry"}
  <2>1. op \in PrivOps /\ (done = 0 \/ silent) BY <1>1, <1>12, Zenon DEF Serving
  <2>2. /\ ret = "ok" => taken >= 1 /\ (taken = 1 \/ resent)
        /\ ret \notin {"ok", "intr", "timedout"} => taken = 0 \/ resent
    BY <1>1, <2>1, BackHonest, Zenon
  <2>3. fret' = IF ret = "ok" \/ n = 1 \/ ~wanted.fd THEN "ok" ELSE "errno"
    BY <1>4, <1>12, Zenon DEF Tell
  <2>4. fret' \notin {"perm", "retry"} /\ (fret' = "ok" /\ wanted.fd => ret = "ok" \/ n = 1) BY <2>3, Zenon
  <2>5. ret = "ok" => n = 0 BY <1>4, <1>12, Zenon
  <2>6. ASSUME ~silent', ~resent PROVE done' + kernel' <= 1
    <3>1. ~silent /\ ret \notin {"intr", "timedout"} BY <1>3, <2>6, Zenon
    <3>2. done = 0 BY <2>1, <3>1, Zenon
    <3>3. (ret = "ok" /\ taken = 1) \/ (ret # "ok" /\ taken = 0) BY <2>2, <2>6, <3>1, Zenon
    <3> QED BY <1>3, <1>4, <1>7, <2>5, <3>2, <3>3 DEF Smaller
  <2>7. ASSUME fret' = "ok", wanted.fd PROVE done' + kernel' >= 1
    <3>0. kernel' = n BY <1>4, Zenon
    <3>1. CASE n = 1
      <4>1. \A d \in Nat : d + 1 >= 1 OBVIOUS
      <4>2. done' + 1 >= 1 BY <1>8, <4>1, Zenon
      <4> QED BY <3>0, <3>1, <4>2, Zenon
    <3>2. CASE ret = "ok"
      <4>1. taken >= 1 BY <2>2, <3>2, Zenon
      <4> QED BY <1>1, <1>2, <1>3, <1>7, <3>0, <4>1 DEF Smaller
    <3> QED BY <2>4, <2>7, <3>1, <3>2, Zenon
  <2> QED BY <2>4, <2>6, <2>7, Zenon
<1>13. wanted' = wanted /\ fop' = cmd BY <1>1, <1>3, Zenon
<1>14. ClaimsBacked' BY <1>6, <1>11, <1>12, <1>13, Zenon DEF ClaimsBacked
<1> QED BY <1>5, <1>6, <1>9, <1>14, Zenon DEF FrontInv

(* A command of the device keeps FrontInv.                                 *)
LEMMA IoctlKept ==
    ASSUME CallInv, FrontInv, FrontHypotheses, esdm_cuse_ioctl
    PROVE  CallInv' /\ FrontInv'
<1>1. ASSUME NEW cmd \in DOMAIN IoctlStub, NEW w, NEW priv \in BOOLEAN, NEW retry \in BOOLEAN,
             Enter(cmd, 1, w),
             IF retry \/ ~priv
               THEN Refuse(IF retry THEN "retry" ELSE "perm")
               ELSE Begin(IoctlStub[cmd], 1, FALSE, TRUE)
      PROVE  CallInv' /\ FrontInv'
  <2>1. CASE \E r \in {"retry", "perm"} : Refuse(r)
    <3>1. PICK r \in {"retry", "perm"} : Refuse(r) BY <2>1, Zenon
    <3>2. r # "ok" /\ 1 \in Nat BY Zenon
    <3> QED BY <1>1, <3>1, <3>2, Refused, Zenon
  <2>2. CASE Begin(IoctlStub[cmd], 1, FALSE, TRUE)
    <3>1. IoctlStub[cmd] \in PrivOps BY FopsApart, Zenon
    <3>2. Legal(IoctlStub[cmd], 1) /\ 1 \in Nat BY Zenon DEF Legal
    <3>3. cmd \notin {"getentropy", "generate", "fill", "nonce", "read", "write"} BY FopsApart, Zenon
    <3> QED BY <1>1, <2>2, <3>1, <3>2, <3>3, Begins, Zenon
  <2> QED BY <1>1, <2>1, <2>2, Zenon
<1>2. CASE Enter("getentcnt", 0, NoOption) /\ Begin("rnd_get_ent_cnt", 1, FALSE, FALSE)
  <2>1. Legal("rnd_get_ent_cnt", 1) /\ 0 \in Nat BY Zenon DEF Legal
  <2>2. "getentcnt" \notin Adding \cup {"getentropy", "generate", "fill", "nonce", "read", "write"} BY FopsApart, Zenon
  <2> QED BY <1>2, <2>1, <2>2, Begins, Zenon
<1>3. CASE /\ Returned("getentcnt") /\ Note
           /\ Tell(IF ret = "ok" THEN "ok" ELSE "error", 0)
           /\ Keep /\ UNCHANGED <<have, moved, kernel, done>>
  <2>1. /\ fop = "getentcnt" /\ pc = "done" /\ moved \in Nat /\ have \in Nat
    BY <1>3, AtReturn, Zenon
  <2>2. fop \notin Adding \cup {"write"} /\ 0 <= have' /\ have' \in Nat /\ moved' \in Nat
    BY <1>3, <2>1, FopsApart
  <2> QED BY <1>3, <2>1, <2>2, Returns, Zenon
<1> QED BY <1>1, <1>2, <1>3, IoctlReturns, Zenon DEF esdm_cuse_ioctl

(* A call that was interrupted is made again.                              *)
LEMMA InvokeKept ==
    ASSUME CallInv, FrontInv, esdm_invoke
    PROVE  CallInv' /\ FrontInv'
<1>1. /\ Call(op, len, nonblock, root) /\ fpc = "call" /\ pc = "done" /\ silent'
      /\ UNCHANGED <<fop, fpc, size, wanted, moved, fret, claim, have, kernel, lossy>>
      /\ done' = IF op \in PrivOps THEN Smaller(done + taken, 2) ELSE done
  BY Zenon DEF esdm_invoke, Interrupted
<1>2. Legal(op, len) BY Zenon DEF CallInv, CallTypeOK, Legal
<1>3. CallInv' /\ op' = op /\ len' = len BY <1>1, <1>2, LegalCall, Zenon
<1>4. done' \in Nat BY <1>1 DEF FrontInv, FrontTypeOK, CallInv, CallTypeOK, Smaller
<1>5. FrontTypeOK' BY <1>1, <1>4, Zenon DEF FrontInv, FrontTypeOK
<1>6. op = "write_data" => done' = done BY <1>1, OpsApart, Zenon
<1>7. Serving' BY <1>1, <1>3, <1>6, Zenon DEF FrontInv, Serving
<1>8. ClaimsBacked' BY <1>1, Zenon DEF ClaimsBacked
<1> QED BY <1>1, <1>3, <1>5, <1>7, <1>8, Zenon DEF FrontInv

(* The function is left.                                                   *)
LEMMA LeaveKept ==
    ASSUME Leave
    PROVE  CallInv' /\ FrontInv'
<1>1. CallTypeOK' BY DEF Leave, CallTypeOK, NoAnswer, PrivOps
<1>2. FrontTypeOK' BY Zenon DEF Leave, FrontTypeOK
<1>3. fpc' = "idle" /\ pc' = "idle" BY Zenon DEF Leave
<1> QED BY <1>1, <1>2, <1>3, Zenon DEF CallInv, FrontInv, ClaimsBacked

(* Every step keeps FrontInv.                                              *)
LEMMA FrontStep ==
    ASSUME FrontHypotheses, CallInv, FrontInv, [Next]_vars
    PROVE  CallInv' /\ FrontInv'
<1>1. CASE UNCHANGED vars
  <2>1. CallInv' BY <1>1, CallsKept, Zenon DEF vars
  <2>2. FrontInv'
    BY <1>1 DEF vars, callVars, stubVars, loopVars, resVars, frontVars, FrontInv, FrontTypeOK, Serving,
       ClaimsBacked
  <2> QED BY <2>1, <2>2, Zenon
<1>2. CASE CallsStep /\ UNCHANGED frontVars BY <1>2, CallsStepKept, CallsStepFront, Zenon
<1> QED BY <1>1, <1>2, ApplicationKept, GetrandomKept, GetentropyKept, ProviderKept, SeedKept, NoDataKept,
        ReadKept, WriteKept, IoctlKept, InvokeKept, LeaveKept, Zenon DEF Next

(* FrontInv holds at the start.                                            *)
LEMMA FrontInitOK ==
    ASSUME Init
    PROVE  CallInv /\ FrontInv
<1>1. CallTypeOK BY DEF Init, CallsInit, CallTypeOK, NoAnswer, PrivOps
<1>2. FrontTypeOK BY Zenon DEF Init, CallsInit, FrontTypeOK
<1> QED BY <1>1, <1>2, Zenon DEF Init, CallsInit, CallInv, FrontInv, ClaimsBacked

(* For messages, buffers and requests of any size a stub that reports      *)
(* success did what it reports: the buffer holds as much as the returned   *)
(* length, data and commands were acted on, and once unless the request    *)
(* was submitted again; a refused command had no effect                    *)
(* (esdm_rpcc_get_random_bytes_*_int(), esdm_rpcc_get_seed_int(),          *)
(* esdm_rpcc_write_data_int() and the rnd_* commands). The two stubs that  *)
(* leave data out are excepted.                                            *)
THEOREM DeliveredCorrect == ASSUME FrontHypotheses PROVE Spec => []Delivered
<1>1. CallInv => Delivered BY Zenon DEF CallInv, Over, Delivered
<1> QED BY <1>1, FrontInitOK, FrontStep, PTL DEF Spec

(* And so it is for a frontend, whatever chunking, retry or fallback it    *)
(* went through (getrandom(), getentropy(), the OpenSSL and Botan          *)
(* adapters, esdm_cuse_read_internal(), esdm_cuse_write_internal(),        *)
(* esdm_cuse_ioctl()): what it reports was delivered or taken, and a       *)
(* command of the device was carried out once, with the exceptions named   *)
(* there.                                                                  *)
THEOREM ClaimsBackedCorrect == ASSUME FrontHypotheses PROVE Spec => []ClaimsBacked
<1>1. FrontInv => ClaimsBacked BY Zenon DEF FrontInv
<1> QED BY <1>1, FrontInitOK, FrontStep, PTL DEF Spec

-----------------------------------------------------------------------------
(* The privileges of the daemons                                           *)

(* The places of a worker.                                                 *)
PrivPlaces == {"idle", "lock", "open", "call", "drop", "unpriv"}

(* What a worker answered.                                                 *)
Verdicts == {"none", "perm", "range", "served", "refused"}

(* The worker has raised the privileges of the daemon.                     *)
AsRoot(w) == ppc[w] \in {"call", "drop"}

(* The types.                                                              *)
PrivTypeOK ==
    /\ daemon \in {"device", "proc"}
    /\ euid \in {"root", Nobody}
    /\ writer \in SUBSET Workers /\ readers \in SUBSET Workers
    /\ cred \in {"none", "root", Nobody}
    /\ ppc \in [Workers -> PrivPlaces]
    /\ caller \in [Workers -> Callers]
    /\ verdict \in [Workers -> Verdicts]
    /\ crossed \in BOOLEAN

(* Only a request of root comes to where privileges are raised, and each   *)
(* daemon has a way of its own.                                            *)
PrivPlace ==
    \A w \in Workers :
      /\ ppc[w] \in {"lock", "open", "call", "drop"} => caller[w] = "root"
      /\ ppc[w] \in {"lock", "unpriv"} => daemon = "device"
      /\ ppc[w] = "open" => daemon = "proc"
      /\ verdict[w] = "served" => caller[w] = "root"

(* The lock of the device daemons says who is privileged and who needs not *)
(* to be.                                                                  *)
PrivLock ==
    daemon = "device" =>
      /\ ~crossed
      /\ writer = {} \/ readers = {}
      /\ \A w \in Workers : /\ AsRoot(w) <=> w \in writer
                            /\ ppc[w] = "unpriv" <=> w \in readers

(* While no two requests have crossed, the daemon is root exactly as long  *)
(* as one worker wants it, and no worker of root's was refused.            *)
PrivSolo ==
    ~crossed =>
      /\ \A v, w \in Workers : AsRoot(v) /\ AsRoot(w) => v = w
      /\ euid = "root" <=> \E w \in Workers : AsRoot(w)
      /\ cred \in {"none", "root"}
      /\ \A w \in Workers : verdict[w] # "refused"

(* The inductive invariant of the privileges.                              *)
PrivInv == PrivTypeOK /\ PrivPlace /\ PrivLock /\ PrivSolo

(* PrivInv holds at the start.                                             *)
LEMMA PrivInitOK == PrivInit => PrivInv
<1> SUFFICES ASSUME PrivInit PROVE PrivInv
    BY Zenon
<1>1. PrivTypeOK
    BY Zenon DEF PrivInit, PrivTypeOK, PrivPlaces, Verdicts, Callers
<1>2. PrivPlace /\ PrivLock
    BY Zenon DEF PrivInit, PrivPlace, PrivLock, AsRoot
<1>3. PrivSolo
    BY Zenon DEF PrivInit, PrivSolo, AsRoot, Nobody
<1> QED
    BY <1>1, <1>2, <1>3, Zenon DEF PrivInv

(* Every step keeps the types.                                             *)
LEMMA PrivTypeStep == PrivTypeOK /\ [PrivNext]_privVars => PrivTypeOK'
<1> SUFFICES ASSUME PrivTypeOK, [PrivNext]_privVars PROVE PrivTypeOK'
    BY Zenon
<1> USE DEF PrivTypeOK, PrivPlaces, Verdicts, Callers, PGoto, Judge
<1>1. ASSUME NEW w \in Workers, esdm_cuse_client_privileged(w) PROVE PrivTypeOK'
    BY <1>1 DEF esdm_cuse_client_privileged
<1>2. ASSUME NEW w \in Workers, esdm_cuse_raise_privilege_transient(w) PROVE PrivTypeOK'
    BY <1>2, Zenon DEF esdm_cuse_raise_privilege_transient, raise_privilege_transient
<1>3. ASSUME NEW w \in Workers, esdm_cuse_drop_privilege_transient(w) PROVE PrivTypeOK'
    BY <1>3, Zenon DEF esdm_cuse_drop_privilege_transient, drop_privileges_transient
<1>4. ASSUME NEW w \in Workers, esdm_cuse_unpriv_call_start(w) PROVE PrivTypeOK'
    BY <1>4, Zenon DEF esdm_cuse_unpriv_call_start
<1>5. ASSUME NEW w \in Workers, esdm_cuse_unpriv_call_end(w) PROVE PrivTypeOK'
    BY <1>5, Zenon DEF esdm_cuse_unpriv_call_end
<1>6. ASSUME NEW w \in Workers, esdm_proc_open(w) PROVE PrivTypeOK'
    BY <1>6 DEF esdm_proc_open
<1>7. ASSUME NEW w \in Workers, esdm_proc_raise_privilege(w) PROVE PrivTypeOK'
    BY <1>7, Zenon DEF esdm_proc_raise_privilege, raise_privilege_transient
<1>8. ASSUME NEW w \in Workers, esdm_proc_drop(w) PROVE PrivTypeOK'
    BY <1>8, Zenon DEF esdm_proc_drop, drop_privileges_transient
<1>9. ASSUME NEW w \in Workers, PrivilegedCall(w) PROVE PrivTypeOK'
    BY <1>9, Zenon DEF PrivilegedCall
<1>10. CASE Disconnect
    BY <1>10, Zenon DEF Disconnect
<1>11. CASE UNCHANGED privVars
    BY <1>11, Zenon DEF privVars
<1> QED
    BY <1>1, <1>2, <1>3, <1>4, <1>5, <1>6, <1>7, <1>8, <1>9, <1>10, <1>11, Zenon
    DEF PrivNext

(* Every step keeps PrivInv.                                               *)
LEMMA PrivStep == PrivInv /\ [PrivNext]_privVars => PrivInv'
<1> SUFFICES ASSUME PrivInv, [PrivNext]_privVars PROVE PrivInv'
    OBVIOUS
<1>t. PrivTypeOK /\ PrivTypeOK'
    BY PrivTypeStep, Zenon DEF PrivInv
<1>i. PrivPlace /\ PrivLock /\ PrivSolo
    BY Zenon DEF PrivInv
<1> DEFINE Rest == PrivPlace /\ PrivLock /\ PrivSolo
<1> USE DEF PrivPlace, PrivLock, PrivSolo, AsRoot, PGoto, Judge, PrivTypeOK, PrivPlaces
<1>1. ASSUME NEW w \in Workers, esdm_cuse_client_privileged(w) PROVE Rest'
    BY <1>1, <1>t, <1>i DEF esdm_cuse_client_privileged
<1>2. ASSUME NEW w \in Workers, esdm_cuse_raise_privilege_transient(w) PROVE Rest'
    BY <1>2, <1>t, <1>i DEF esdm_cuse_raise_privilege_transient, raise_privilege_transient, Amid
<1>3. ASSUME NEW w \in Workers, esdm_cuse_drop_privilege_transient(w) PROVE Rest'
    BY <1>3, <1>t, <1>i DEF esdm_cuse_drop_privilege_transient, drop_privileges_transient, Amid, Nobody
<1>4. ASSUME NEW w \in Workers, esdm_cuse_unpriv_call_start(w) PROVE Rest'
    BY <1>4, <1>t, <1>i, Zenon DEF esdm_cuse_unpriv_call_start
<1>5. ASSUME NEW w \in Workers, esdm_cuse_unpriv_call_end(w) PROVE Rest'
    BY <1>5, <1>t, <1>i, Zenon DEF esdm_cuse_unpriv_call_end
<1>6. ASSUME NEW w \in Workers, esdm_proc_open(w) PROVE Rest'
    BY <1>6, <1>t, <1>i DEF esdm_proc_open
<1>7. ASSUME NEW w \in Workers, esdm_proc_raise_privilege(w) PROVE Rest'
    BY <1>7, <1>t, <1>i DEF esdm_proc_raise_privilege, raise_privilege_transient, Amid
<1>8. ASSUME NEW w \in Workers, esdm_proc_drop(w) PROVE Rest'
    BY <1>8, <1>t, <1>i DEF esdm_proc_drop, drop_privileges_transient, Amid, Nobody
<1>9. ASSUME NEW w \in Workers, PrivilegedCall(w) PROVE Rest'
    BY <1>9, <1>t, <1>i DEF PrivilegedCall, esdm_rpc_client_is_privileged
<1>10. ASSUME Disconnect PROVE Rest'
    BY <1>10, <1>t, <1>i, Zenon DEF Disconnect
<1>11. ASSUME UNCHANGED privVars PROVE Rest'
    BY <1>11, <1>t, <1>i, Zenon DEF privVars
<1> QED
    BY <1>1, <1>2, <1>3, <1>4, <1>5, <1>6, <1>7, <1>8, <1>9, <1>10, <1>11, <1>t, Zenon
    DEF PrivNext, PrivInv

(* For any number of FUSE workers every call is made with the privileges   *)
(* of its caller: root's command is not refused by the server, also after  *)
(* a reconnection, and nobody else's is served                             *)
(* (esdm_cuse_raise_privilege_transient(),                                 *)
(* esdm_cuse_drop_privilege_transient()); in the proc daemon as long as no *)
(* two writers overlap.                                                    *)
THEOREM PrivilegeFitsCorrect == PrivSpec => []PrivilegeFits
<1>1. PrivInv => PrivilegeFits
    BY Zenon DEF PrivInv, PrivTypeOK, PrivPlace, PrivLock, PrivSolo, AsRoot, PrivilegeFits, Callers
<1> QED
    BY PrivInitOK, PrivStep, <1>1, PTL DEF PrivSpec

-----------------------------------------------------------------------------
(* The files of the proc daemon                                            *)

(* What a read of a file carries.                                          *)
Reads == [off : Nat, asked : Nat, seen : Nat, copied : Nat, overlap : BOOLEAN]

(* The types.                                                              *)
ProcTypeOK ==
    /\ name \in {"boot_id", "uuid", "number", "status"}
    /\ valdata \in 0..MaxLen /\ vallen \in 0..MaxLen
    /\ rpc \in [Readers -> {"idle", "length", "copy"}]
    /\ read \in [Readers -> Reads]

(* A read that no other read changed the value under copies from inside    *)
(* it.                                                                     *)
CopyFits ==
    \A r \in Readers :
      ~read[r].overlap =>
        IF rpc[r] = "copy" THEN read[r].seen = vallen /\ read[r].off < vallen
        ELSE /\ read[r].copied <= read[r].asked
             /\ read[r].off + read[r].copied <= read[r].seen

(* The inductive invariant of the files.                                   *)
ProcInv == ProcTypeOK /\ CopyFits

(* For texts of any length and any number of readers a read of a file of   *)
(* the proc daemon copies no more than was asked for and nothing from      *)
(* behind the text (esdm_proc_read()), unless the file was filled between  *)
(* its two looks at the length.                                            *)
THEOREM ReadInsideCorrect ==
    ASSUME MaxLen \in Nat
    PROVE  ProcSpec => []ReadInside
<1>1. ProcInit => ProcInv
    BY DEF ProcInit, ProcInv, ProcTypeOK, Reads, CopyFits, NoRead, esdm_proc_uuid
<1>2. ProcInv /\ [ProcNext]_procVars => ProcInv'
  <2> SUFFICES ASSUME ProcInv, [ProcNext]_procVars PROVE ProcInv'
    BY Zenon
  <2> USE DEF ProcInv, ProcTypeOK, Reads, RGoto
  <2>1. ASSUME NEW r \in Readers, esdm_proc_getattr(r) PROVE ProcInv'
    <3>1. fill_data \subseteq 0..MaxLen
      BY <2>1 DEF esdm_proc_getattr, fill_data, esdm_proc_uuid, esdm_proc_data, esdm_proc_get_status
    <3>2. ProcTypeOK'
      BY <2>1, <3>1, Zenon DEF esdm_proc_getattr, Filling
    <3>3. CopyFits'
      BY <2>1, Zenon DEF esdm_proc_getattr, Filling, CopyFits
    <3> QED
      BY <3>2, <3>3, Zenon
  <2>2. ASSUME NEW r \in Readers, GetattrLength(r) PROVE ProcInv'
    <3>2. ProcTypeOK'
      BY <2>2, Zenon DEF GetattrLength, Filling
    <3>3. CopyFits'
      BY <2>2, Zenon DEF GetattrLength, Filling, CopyFits
    <3> QED
      BY <3>2, <3>3
  <2>3. ASSUME NEW r \in Readers, esdm_proc_read(r) PROVE ProcInv'
    <3> DEFINE New(o, n) == [off |-> o, asked |-> n, seen |-> vallen, copied |-> 0,
                             overlap |-> FALSE]
    <3>1. PICK o \in 0..MaxLen, n \in 1..MaxLen :
             IF o < vallen
               THEN /\ rpc' = [rpc EXCEPT ![r] = "copy"]
                    /\ read' = [read EXCEPT ![r] = New(o, n)]
               ELSE read' = [read EXCEPT ![r] = NoRead] /\ UNCHANGED rpc
      BY <2>3, Zenon DEF esdm_proc_read
    <3>2. UNCHANGED <<name, valdata, vallen>> /\ rpc[r] = "idle"
      BY <2>3, Zenon DEF esdm_proc_read
    <3>3. CASE o < vallen
      <4>1. ProcTypeOK'
        <5>1. New(o, n) \in Reads
          OBVIOUS
        <5>2. read' \in [Readers -> Reads] /\ rpc' \in [Readers -> {"idle", "length", "copy"}]
          <6> HIDE DEF New, Reads
          <6> QED
            BY <3>1, <3>3, <5>1, Zenon
        <5> QED
          BY <3>2, <5>2, Zenon
      <4>2. CopyFits'
        BY <3>1, <3>2, <3>3 DEF CopyFits
      <4> QED
        BY <4>1, <4>2, Zenon
    <3>4. CASE ~(o < vallen)
      <4>1. ProcTypeOK'
        <5>1. NoRead \in Reads
          BY Zenon DEF NoRead
        <5> QED
          BY <3>1, <3>2, <3>4, <5>1, Zenon
      <4>2. CopyFits'
        BY <3>1, <3>2, <3>4 DEF CopyFits, NoRead
      <4> QED
        BY <4>1, <4>2
    <3> QED
      BY <3>3, <3>4, Zenon
  <2>4. ASSUME NEW r \in Readers, ReadCopy(r) PROVE ProcInv'
    <3>1. Huge \in Nat
      BY DEF Huge
    <3>2. ProcTypeOK'
      BY <2>4, <3>1 DEF ReadCopy, Copy
    <3>3. CopyFits'
      BY <2>4, <3>1 DEF ReadCopy, Copy, CopyFits
    <3> QED
      BY <3>2, <3>3
  <2>5. CASE UNCHANGED procVars
    BY <2>5, Zenon DEF procVars, CopyFits
  <2> QED
    BY <2>1, <2>2, <2>3, <2>4, <2>5, Zenon DEF ProcNext
<1>3. ProcInv => ReadInside
    BY Zenon DEF ProcInv, ProcTypeOK, Reads, CopyFits, ReadInside
<1> QED
    BY <1>1, <1>2, <1>3, PTL DEF ProcSpec

-----------------------------------------------------------------------------
(* The life of a CUSE daemon                                               *)

(* What lies over the device file.                                         *)
Mounts == {"dead", "live", Own}

(* A stack that holds no mount of this daemon.                             *)
OwnFree(s) == \A i \in 1..Len(s) : s[i] # Own

(* The types.                                                              *)
LifeTypeOK ==
    /\ lpc \in {"open", "names", "mount", "flag", "bind", "label", "status",
                "running", "asleep", "term", "unmount", "unlink", "end"}
    /\ layers \in Seq(Mounts)
    /\ dst \in BOOLEAN /\ file \in BOOLEAN /\ cuse_unlink \in BOOLEAN
    /\ made \in BOOLEAN /\ handlers \in BOOLEAN /\ isolated \in BOOLEAN
    /\ stuck \in BOOLEAN /\ gap \in BOOLEAN

(* The mount of the daemon is the topmost one, and gone at the end unless  *)
(* the umount could not reach it.                                          *)
MountOnTop ==
    /\ OwnFree(layers) \/ (layers # <<>> /\ OwnFree(Tail(layers)))
    /\ lpc \in {"open", "names", "mount", "flag", "bind"} \/ ~handlers => OwnFree(layers)
    /\ lpc = "label" => layers # <<>>
    /\ lpc \in {"unlink", "end"} => stuck \/ isolated \/ OwnFree(layers)

(* A file that the daemon made is marked for removal.                      *)
FileMarked ==
    /\ made /\ file => cuse_unlink \/ gap \/ lpc = "flag"
    /\ lpc = "end" => gap \/ ~(made /\ file)

(* When the signal handlers are there, and what they need.                 *)
SetUp ==
    /\ lpc \in {"mount", "flag", "bind", "label", "status", "running", "asleep"} => handlers
    /\ handlers /\ lpc # "end" => dst
    /\ made => handlers
    /\ lpc \in {"open", "names"} => ~handlers

(* The inductive invariant of the life of a daemon.                        *)
LifeInv == LifeTypeOK /\ MountOnTop /\ FileMarked /\ SetUp

(* Taking a foreign mount away,                                            *)
LEMMA TailOwnFree ==
    ASSUME NEW s \in Seq(Mounts), s # <<>>, OwnFree(s)
    PROVE  Tail(s) \in Seq(Mounts) /\ OwnFree(Tail(s))
BY DEF OwnFree

(* and mounting on top of what is there.                                   *)
LEMMA PushedOwn ==
    ASSUME NEW s \in Seq(Mounts)
    PROVE  /\ <<Own>> \o s \in Seq(Mounts)
           /\ <<Own>> \o s # <<>>
           /\ Tail(<<Own>> \o s) = s
BY DEF Mounts

(* LifeInv holds at the start.                                             *)
LEMMA LifeInitOK == LifeInit => LifeInv
<1> SUFFICES ASSUME LifeInit PROVE LifeInv
    BY Zenon
<1>1. \A m \in Mounts : /\ <<m>> \in Seq(Mounts) /\ <<m, m>> \in Seq(Mounts)
                        /\ m # Own => OwnFree(<<m>>) /\ OwnFree(<<m, m>>)
    BY DEF OwnFree
<1>2. <<>> \in Seq(Mounts) /\ OwnFree(<<>>)
    BY DEF OwnFree
<1>3. {"dead", "live"} \subseteq Mounts /\ "dead" # Own /\ "live" # Own
    BY Zenon DEF Mounts, Own
<1>4. layers \in Seq(Mounts) /\ OwnFree(layers)
    BY <1>1, <1>2, <1>3, Zenon DEF LifeInit
<1> QED
    BY <1>4, Zenon DEF LifeInit, LifeInv, LifeTypeOK, MountOnTop, FileMarked, SetUp

(* Every step keeps LifeInv.                                               *)
LEMMA LifeStep == LifeInv /\ [LifeNext]_lifeVars => LifeInv'
<1> SUFFICES ASSUME LifeInv, [LifeNext]_lifeVars PROVE LifeInv'
    BY Zenon
<1> USE DEF LifeInv, LifeTypeOK, FileMarked, SetUp, LGoto
<1>p. layers # <<>> => Tail(layers) \in Seq(Mounts) /\ OwnFree(Tail(layers))
    BY TailOwnFree DEF MountOnTop
<1>q. layers' = layers => (OwnFree(layers) <=> OwnFree(layers)')
                       /\ (OwnFree(Tail(layers)) <=> OwnFree(Tail(layers))')
    BY Zenon DEF OwnFree
<1>1. CASE OpenFallback
  <2>1. OwnFree(layers') /\ layers' \in Seq(Mounts)
    BY <1>1, <1>p, Zenon DEF OpenFallback, MountOnTop
  <2>2. /\ lpc = "open" /\ lpc' \in {"open", "names", "end"}
        /\ UNCHANGED <<dst, file, cuse_unlink, made, handlers, isolated, stuck, gap>>
    BY <1>1, Zenon DEF OpenFallback
  <2> QED
    BY <2>1, <2>2 DEF MountOnTop
<1>2. CASE main_common
  <2>1. /\ lpc = "names"
        /\ \/ lpc' = "end" /\ UNCHANGED <<dst, handlers>>
           \/ lpc' = "term" /\ dst' \in BOOLEAN /\ UNCHANGED handlers
           \/ lpc' = "mount" /\ dst' = TRUE /\ handlers' = TRUE
        /\ UNCHANGED <<layers, file, cuse_unlink, made, isolated, stuck, gap>>
    BY <1>2, Zenon DEF main_common
  <2>2. LifeTypeOK'
    BY <2>1, Zenon
  <2>4. FileMarked'
    BY <2>1, Zenon
  <2>5. SetUp'
    BY <2>1
  <2>3. MountOnTop'
    BY <2>1, <1>q, Zenon DEF MountOnTop
  <2> QED
    BY <2>2, <2>3, <2>4, <2>5, Zenon
<1>3. CASE SessionEnds
    BY <1>3, <1>q, Zenon DEF SessionEnds, MountOnTop
<1>4. CASE MountCreate
  <2>1. /\ lpc = "mount"
        /\ \/ lpc' \in {"bind", "term"} /\ UNCHANGED <<file, made>>
           \/ lpc' = "flag" /\ file' = TRUE /\ made' = TRUE
        /\ UNCHANGED <<layers, dst, cuse_unlink, handlers, isolated, stuck, gap>>
    BY <1>4, Zenon DEF MountCreate
  <2>2. LifeTypeOK'
    BY <2>1, Zenon
  <2>4. FileMarked'
    BY <2>1
  <2>5. SetUp'
    BY <2>1, Zenon
  <2>3. MountOnTop'
    BY <2>1, <1>q, Zenon DEF MountOnTop
  <2> QED
    BY <2>2, <2>3, <2>4, <2>5
<1>5. CASE MountFlag
    BY <1>5, <1>q, Zenon DEF MountFlag, MountOnTop
<1>6. CASE MountBind
  <2>1. CASE layers' = <<Own>> \o layers /\ LGoto("label")
    <3>1. layers' \in Seq(Mounts) /\ layers' # <<>> /\ Tail(layers') = layers
      BY <2>1, PushedOwn, Zenon
    <3>2. OwnFree(Tail(layers'))
      BY <3>1, <1>6, Zenon DEF MountBind, MountOnTop, OwnFree
    <3> QED
      BY <1>6, <2>1, <3>1, <3>2, Zenon DEF MountBind, MountOnTop
  <2>2. CASE LGoto("term") /\ UNCHANGED layers
    BY <1>6, <2>2, <1>q, Zenon DEF MountBind, MountOnTop
  <2> QED
    BY <1>6, <2>1, <2>2, Zenon DEF MountBind
<1>7. CASE MountLabel
  <2>1. CASE LGoto("status") /\ UNCHANGED layers
    BY <1>7, <2>1, <1>q, Zenon DEF MountLabel, MountOnTop
  <2>2. CASE layers' = Tail(layers) /\ LGoto("term")
    <3>1. layers' \in Seq(Mounts) /\ OwnFree(layers')
      BY <1>7, <2>2, <1>p, Zenon DEF MountLabel, MountOnTop
    <3> QED
      BY <1>7, <2>2, <3>1, Zenon DEF MountLabel, MountOnTop
  <2> QED
    BY <1>7, <2>1, <2>2, Zenon DEF MountLabel
<1>8. CASE esdm_cuse_init_done
    BY <1>8, <1>q, Zenon DEF esdm_cuse_init_done, MountOnTop
<1>9. CASE esdm_cuse_term
    BY <1>9, <1>q, Zenon DEF esdm_cuse_term, MountOnTop
<1>10. CASE esdm_cuse_bind_unmount
  <2>1. CASE layers' = IF layers = <<>> THEN layers ELSE Tail(layers)
    <3>1. layers' \in Seq(Mounts) /\ OwnFree(layers')
      BY <2>1, <1>p, Zenon DEF MountOnTop
    <3> QED
      BY <1>10, <2>1, <3>1, <1>q, Zenon DEF esdm_cuse_bind_unmount, MountOnTop
  <2>2. CASE UNCHANGED layers
    BY <1>10, <2>2, <1>q, Zenon DEF esdm_cuse_bind_unmount, MountOnTop
  <2> QED
    BY <1>10, <2>1, <2>2, Zenon DEF esdm_cuse_bind_unmount
<1>11. CASE Unlink
    BY <1>11, <1>q, Zenon DEF Unlink, MountOnTop
<1>12. CASE esdm_cuse_sig_handler
    BY <1>12, <1>q, Zenon DEF esdm_cuse_sig_handler, MountOnTop
<1>13. CASE UNCHANGED lifeVars
    BY <1>13, <1>q DEF lifeVars, MountOnTop
<1> QED
    BY <1>1, <1>2, <1>3, <1>4, <1>5, <1>6, <1>7, <1>8, <1>9, <1>10, <1>11, <1>12, <1>13, Zenon
    DEF LifeNext

(* Whatever mounts lie over the device file, whatever step of the start    *)
(* failed and wherever a signal came, a daemon that is gone leaves neither *)
(* its bind mount nor a file of its own behind (esdm_cuse_bind_unmount(),  *)
(* esdm_cuse_term()), but for a mount that stays busy, namespaces that do  *)
(* not share the unmount, and a signal just after creat().                 *)
THEOREM MountRemovedCorrect == LifeSpec => []MountRemoved
<1>1. LifeInv => MountRemoved
    BY Zenon DEF LifeInv, MountOnTop, FileMarked, MountRemoved, OwnFree
<1> QED
    BY LifeInitOK, LifeStep, <1>1, PTL DEF LifeSpec
=============================================================================
