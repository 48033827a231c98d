----------------------------- MODULE EsdmRpcCalls -----------------------------
(***************************************************************************)
(* The calls of the RPC interface: every stub of service-rpc/client and    *)
(* the handler of service-rpc/server that answers it, for one caller that  *)
(* holds a connection handle.  How the handle is shared and how messages   *)
(* travel is EsdmRpc; here a request is answered, the answer comes after   *)
(* SO_RCVTIMEO and the request is submitted again, or the connection ends. *)
(*                                                                         *)
(* Lengths count pieces of data.  An answer is what response->ret says and *)
(* the length of its payload; "long" stands for the return code below -255 *)
(* that tells how much a handler can serve at once.                        *)
(***************************************************************************)
EXTENDS Integers

CONSTANTS
    MaxData,            \* ESDM_RPC_MAX_DATA
    SeedSize,           \* what esdm_get_seed() fills
    Lens                \* lengths a caller may ask for

VARIABLES
    pc,                 \* "idle", "send", "answered" or "done"
    op,                 \* the operation of the stub
    len, left, cap,     \* orig_buflen, buflen, maxbuflen
    nonblock,           \* ESDM_GET_SEED_NONBLOCK
    answer,             \* what the callback gets
    ret, amount,        \* what the stub returned: outcome, and length
    seedlen,            \* buffer.buflen of esdm_rpcc_get_seed_int()
    stored,             \* history: data put into the caller's buffer
    taken,              \* history: data or commands the server acted on
    resent,             \* history: the request was submitted again
    cut,                \* history: a retry or the time-out left data out
    root                \* the server sees a privileged peer

stubVars == <<op, len, nonblock, root>>
loopVars == <<left, cap, seedlen, stored, cut>>
resVars == <<ret, amount>>
callVars == <<pc, stubVars, loopVars, resVars, answer, taken, resent>>

Smaller(a, b) == IF a <= b THEN a ELSE b

RandomOps == {"get_random_bytes", "get_random_bytes_full",
              "get_random_bytes_full_timeout", "get_random_bytes_min",
              "get_random_bytes_pr"}
QueryOps == {"get_ent_lvl", "get_min_reseed_secs", "get_poolsize",
             "get_write_wakeup_thresh", "is_fully_seeded", "is_min_seeded",
             "rnd_get_ent_cnt", "status"}
PrivOps == {"rnd_add_entropy", "rnd_add_to_ent_cnt", "rnd_clear_pool",
            "rnd_reseed_crng", "set_min_reseed_secs",
            "set_write_wakeup_thresh"}
Ops == RandomOps \cup QueryOps \cup PrivOps \cup {"write_data", "get_seed"}

(* A command has no length and acts once, adding entropy has its data.     *)
LensOf(o) == CASE o \in RandomOps \cup {"write_data", "get_seed"} -> Lens
               [] o = "rnd_add_entropy" -> {0, 1}
               [] OTHER -> {1}

NoAnswer == [ret |-> "none", n |-> 0]

(* The stub returns.                                                       *)
Return(r, n) == pc' = "done" /\ ret' = r /\ amount' = n

(* The stub is entered; a loop over no data returns at once.               *)
Call(o, n, nb, priv) ==
    /\ pc \in {"idle", "done"}
    /\ op' = o /\ len' = n /\ nonblock' = nb /\ root' = priv
    /\ left' = n /\ cap' = n /\ seedlen' = n
    /\ stored' = 0 /\ taken' = 0 /\ resent' = FALSE /\ cut' = FALSE
    /\ answer' = NoAnswer
    /\ IF n = 0 /\ o \in RandomOps \cup {"write_data"}
         THEN Return("ok", 0)
         ELSE pc' = "send" /\ ret' = "none" /\ amount' = 0

-----------------------------------------------------------------------------
(* The handlers of the server                                              *)

Handle(o) == pc = "send" /\ op = o /\ UNCHANGED <<stubVars, loopVars, resVars, resent>>
Answer(r, n) == pc' = "answered" /\ answer' = [ret |-> r, n |-> n]

(* The server acts on n pieces; the history counter may saturate.          *)
Act(n) == taken' = Smaller(taken + n, 2 * (len + 1))

(* The length in the message.                                              *)
Asked == Smaller(cap, left)

(* A request that does not fit into rndval is answered with the size that  *)
(* does; otherwise the library is asked, which may deliver less.           *)
RandomHandler(o, failures) ==
    /\ Handle(o)
    /\ IF Asked > MaxData
         THEN Answer("long", 0)
         ELSE \/ \E n \in 1..Asked : Answer("ok", n)
              \/ \E r \in failures : Answer(r, 0)
    /\ UNCHANGED taken

esdm_rpc_get_random_bytes == RandomHandler("get_random_bytes", {"fault"})
esdm_rpc_get_random_bytes_full ==
    RandomHandler("get_random_bytes_full", {"fault", "again"})
esdm_rpc_get_random_bytes_full_timeout ==
    RandomHandler("get_random_bytes_full_timeout", {"fault", "again"})
esdm_rpc_get_random_bytes_min ==
    RandomHandler("get_random_bytes_min", {"fault", "again"})
esdm_rpc_get_random_bytes_pr ==
    RandomHandler("get_random_bytes_pr", {"fault", "again"})

(* esdm_get_seed() is called with ESDM_GET_SEED_NONBLOCK in any case.  The *)
(* payload is its size word and the data, or the size word alone; a yield  *)
(* to an unseeded DRNG returns 0 with the size word already written.       *)
esdm_rpc_get_seed ==
    /\ Handle("get_seed")
    /\ IF len > MaxData THEN Answer("long", 0)
       ELSE IF len = 0 THEN Answer("inval", 0)
       ELSE IF len < SeedSize THEN Answer("msgsize", 1)
       ELSE \/ Answer("ok", SeedSize + 1)
            \/ Answer("yield", SeedSize + 1)
            \/ Answer("again", 0)
    /\ UNCHANGED taken

(* The data is inserted without entropy and a reseed is forced.            *)
esdm_rpc_write_data ==
    /\ Handle("write_data")
    /\ \/ Answer("ok", 0) /\ Act(Smaller(left, MaxData))
       \/ Answer("fault", 0) /\ UNCHANGED taken

Query(o) == Handle(o) /\ Answer("ok", 0) /\ UNCHANGED taken

esdm_rpc_get_ent_lvl == Query("get_ent_lvl")
esdm_rpc_get_min_reseed_secs == Query("get_min_reseed_secs")
esdm_rpc_get_poolsize == Query("get_poolsize")
esdm_rpc_get_write_wakeup_thresh == Query("get_write_wakeup_thresh")
esdm_rpc_is_fully_seeded == Query("is_fully_seeded")
esdm_rpc_is_min_seeded == Query("is_min_seeded")
esdm_rpc_rnd_get_ent_cnt == Query("rnd_get_ent_cnt")
esdm_rpc_status == Query("status")

(* A privileged command: esdm_rpc_client_is_privileged() comes first.      *)
Privileged(o) ==
    /\ Handle(o)
    /\ IF root THEN Answer("ok", 0) /\ Act(1)
               ELSE Answer("perm", 0) /\ UNCHANGED taken

esdm_rpc_rnd_add_to_ent_cnt == Privileged("rnd_add_to_ent_cnt")
esdm_rpc_rnd_clear_pool == Privileged("rnd_clear_pool")
esdm_rpc_rnd_reseed_crng == Privileged("rnd_reseed_crng")
esdm_rpc_set_min_reseed_secs == Privileged("set_min_reseed_secs")
esdm_rpc_set_write_wakeup_thresh == Privileged("set_write_wakeup_thresh")

(* A message without data is refused before the check; the insertion may   *)
(* fail.                                                                   *)
esdm_rpc_rnd_add_entropy ==
    \/ len > 0 /\ Privileged("rnd_add_entropy")
    \/ /\ Handle("rnd_add_entropy")
       /\ len = 0 \/ root
       /\ Answer("fault", 0) /\ UNCHANGED taken

Handlers ==
    \/ esdm_rpc_get_random_bytes \/ esdm_rpc_get_random_bytes_full
    \/ esdm_rpc_get_random_bytes_full_timeout
    \/ esdm_rpc_get_random_bytes_min \/ esdm_rpc_get_random_bytes_pr
    \/ esdm_rpc_get_seed \/ esdm_rpc_write_data
    \/ esdm_rpc_get_ent_lvl \/ esdm_rpc_get_min_reseed_secs
    \/ esdm_rpc_get_poolsize \/ esdm_rpc_get_write_wakeup_thresh
    \/ esdm_rpc_is_fully_seeded \/ esdm_rpc_is_min_seeded
    \/ esdm_rpc_rnd_get_ent_cnt \/ esdm_rpc_status
    \/ esdm_rpc_rnd_add_entropy \/ esdm_rpc_rnd_add_to_ent_cnt
    \/ esdm_rpc_rnd_clear_pool \/ esdm_rpc_rnd_reseed_crng
    \/ esdm_rpc_set_min_reseed_secs \/ esdm_rpc_set_write_wakeup_thresh

-----------------------------------------------------------------------------
(* The transport                                                           *)

(* SO_RCVTIMEO passes first: the client submits the request again.         *)
Resubmit ==
    /\ pc = "answered" /\ answer.ret \notin {"intr", "timedout"}
    /\ pc' = "send" /\ resent' = TRUE /\ answer' = NoAnswer
    /\ UNCHANGED <<stubVars, loopVars, resVars, taken>>

(* No answer comes, whether the server acted on the request or not: the    *)
(* callback gets -EINTR, or is not called and buffer.ret stays -ETIMEDOUT. *)
Break ==
    /\ pc \in {"send", "answered"} /\ answer.ret \notin {"intr", "timedout"}
    /\ \E r \in {"intr", "timedout"} : Answer(r, 0)
    /\ UNCHANGED <<stubVars, loopVars, resVars, taken, resent>>

-----------------------------------------------------------------------------
(* The stubs: the callback and the loop around the call                    *)

Take(o) == pc = "answered" /\ op = o /\ answer' = NoAnswer /\ UNCHANGED <<stubVars, taken, resent>>

(* The next round of a loop, and the end of the call with the answer.      *)
Again == pc' = "send" /\ UNCHANGED resVars
Fail == Return(answer.ret, 0) /\ UNCHANGED loopVars

(* Bug variant of Advance: the answer's length is not subtracted but the   *)
(* length asked for.                                                       *)
BugAdvance ==
    LET n == Smaller(answer.n, left)
    IN  /\ answer.ret = "ok"
        /\ left' = left - Asked /\ stored' = stored + n
        /\ UNCHANGED <<cap, seedlen, cut>>
        /\ IF left = Asked THEN Return("ok", len) ELSE Again

(* The data is copied, as much as fits, and the loop goes on behind it.    *)
Advance ==
    LET n == Smaller(answer.n, left)
    IN  /\ answer.ret = "ok"
        /\ left' = left - n /\ stored' = stored + n
        /\ UNCHANGED <<cap, seedlen, cut>>
        /\ IF left = n THEN Return("ok", len) ELSE Again

AskLess ==
    /\ answer.ret = "long"
    /\ cap' = MaxData /\ UNCHANGED <<left, seedlen, stored, cut>>
    /\ Again

(* Not all stubs poll when the server answers -EAGAIN.                     *)
Poll == answer.ret = "again" /\ Again /\ UNCHANGED loopVars

esdm_rpcc_get_random_bytes ==
    /\ Take("get_random_bytes")
    /\ \/ AskLess \/ Advance
       \/ answer.ret \notin {"ok", "long"} /\ Fail

PollingLoop(o) ==
    /\ Take(o)
    /\ \/ AskLess \/ Advance \/ Poll
       \/ answer.ret \notin {"ok", "long", "again"} /\ Fail

esdm_rpcc_get_random_bytes_full == PollingLoop("get_random_bytes_full")
esdm_rpcc_get_random_bytes_min == PollingLoop("get_random_bytes_min")
esdm_rpcc_get_random_bytes_pr == PollingLoop("get_random_bytes_pr")

(* When the time is over the loop is left with ret = 0 and the call        *)
(* returns orig_buflen.                                                    *)
esdm_rpcc_get_random_bytes_full_timeout ==
    \/ PollingLoop("get_random_bytes_full_timeout")
    \/ /\ Take("get_random_bytes_full_timeout")
       /\ answer.ret = "again"
       /\ Return("ok", len)
       /\ cut' = TRUE /\ UNCHANGED <<left, cap, seedlen, stored>>

(* The callback overwrites buffer.buflen with the length it copied, also   *)
(* with the 0 of an -EAGAIN, and the loop does not set it again.           *)
esdm_rpcc_get_seed ==
    /\ Take("get_seed")
    /\ IF answer.ret \in {"intr", "timedout"}
         THEN Fail
         ELSE LET n == Smaller(answer.n, seedlen)
              IN  /\ seedlen' = n /\ stored' = n
                  /\ cut' = (cut \/ seedlen < len)
                  /\ UNCHANGED <<left, cap>>
                  /\ IF answer.ret = "again" /\ ~nonblock THEN Again
                     ELSE IF answer.ret = "ok" THEN Return("ok", SeedSize)
                     ELSE IF answer.ret = "yield" THEN Return("ok", 0)
                     ELSE Return(answer.ret, 0)

esdm_rpcc_write_data ==
    /\ Take("write_data")
    /\ IF answer.ret # "ok" THEN Fail
       ELSE LET n == Smaller(left, MaxData)
            IN  /\ left' = left - n /\ UNCHANGED <<cap, seedlen, stored, cut>>
                /\ IF left = n THEN Return("ok", 0) ELSE Again

(* The other stubs ask once and return what they were told.                *)
Once(o) == Take(o) /\ Return(answer.ret, 0) /\ UNCHANGED loopVars

esdm_rpcc_get_ent_lvl == Once("get_ent_lvl")
esdm_rpcc_get_min_reseed_secs == Once("get_min_reseed_secs")
esdm_rpcc_get_poolsize == Once("get_poolsize")
esdm_rpcc_get_write_wakeup_thresh == Once("get_write_wakeup_thresh")
esdm_rpcc_is_fully_seeded == Once("is_fully_seeded")
esdm_rpcc_is_min_seeded == Once("is_min_seeded")
esdm_rpcc_rnd_get_ent_cnt == Once("rnd_get_ent_cnt")
esdm_rpcc_status == Once("status")
esdm_rpcc_rnd_add_entropy == Once("rnd_add_entropy")
esdm_rpcc_rnd_add_to_ent_cnt == Once("rnd_add_to_ent_cnt")
esdm_rpcc_rnd_clear_pool == Once("rnd_clear_pool")
esdm_rpcc_rnd_reseed_crng == Once("rnd_reseed_crng")
esdm_rpcc_set_min_reseed_secs == Once("set_min_reseed_secs")
esdm_rpcc_set_write_wakeup_thresh == Once("set_write_wakeup_thresh")

Stubs ==
    \/ esdm_rpcc_get_random_bytes \/ esdm_rpcc_get_random_bytes_full
    \/ esdm_rpcc_get_random_bytes_full_timeout
    \/ esdm_rpcc_get_random_bytes_min \/ esdm_rpcc_get_random_bytes_pr
    \/ esdm_rpcc_get_seed \/ esdm_rpcc_write_data
    \/ esdm_rpcc_get_ent_lvl \/ esdm_rpcc_get_min_reseed_secs
    \/ esdm_rpcc_get_poolsize \/ esdm_rpcc_get_write_wakeup_thresh
    \/ esdm_rpcc_is_fully_seeded \/ esdm_rpcc_is_min_seeded
    \/ esdm_rpcc_rnd_get_ent_cnt \/ esdm_rpcc_status
    \/ esdm_rpcc_rnd_add_entropy \/ esdm_rpcc_rnd_add_to_ent_cnt
    \/ esdm_rpcc_rnd_clear_pool \/ esdm_rpcc_rnd_reseed_crng
    \/ esdm_rpcc_set_min_reseed_secs \/ esdm_rpcc_set_write_wakeup_thresh

CallsInit ==
    /\ pc = "idle" /\ op = "none" /\ len = 0 /\ left = 0 /\ cap = 0
    /\ nonblock = FALSE /\ root = FALSE /\ answer = NoAnswer
    /\ ret = "none" /\ amount = 0 /\ seedlen = 0 /\ stored = 0 /\ taken = 0
    /\ resent = FALSE /\ cut = FALSE

CallsStep == Handlers \/ Resubmit \/ Break \/ Stubs

-----------------------------------------------------------------------------
(* A call that reports success did what it reports: the caller's buffer    *)
(* holds at least as much as the returned length, data written and         *)
(* commands given were acted on, and only once unless the request was      *)
(* submitted again after SO_RCVTIMEO; a refused command had no effect.     *)
(* Two stubs leave data out: esdm_rpcc_get_seed_int() after an -EAGAIN and *)
(* esdm_rpcc_get_random_bytes_full_timeout_int() when the time is over.    *)
Delivered ==
    pc = "done" =>
      /\ ret = "ok" /\ op \in RandomOps \cup {"get_seed"}
           => stored >= amount \/ cut
      /\ ret = "ok" /\ op \in PrivOps \cup {"write_data"}
           => taken >= len /\ (taken = len \/ resent)
      /\ ret = "perm" => taken = 0
=============================================================================
