----------------------------- MODULE EsdmFrontends -----------------------------
(***************************************************************************)
(* The programs that stand between a user and the RPC stubs: the preload   *)
(* library of getrandom(2), the OpenSSL provider, the Botan generator and  *)
(* the read, write and ioctl handlers of the CUSE devices, each with its   *)
(* fallback to the kernel.  One request at a time; an application calls    *)
(* the stubs directly as well.                                             *)
(***************************************************************************)
EXTENDS EsdmRpcCalls

CONSTANTS
    Sizes,              \* sizes a user may ask for
    MaxMsg,             \* ESDM_RPC_MAX_MSG_SIZE
    Invokes             \* how often esdm_invoke() repeats a call (5)

VARIABLES
    fop,                \* the function of the frontend, "none" between them
    fpc,                \* "idle", "call", "kernel" or "done"
    size,               \* what the user asked for
    wanted,             \* what is said beside the size, see Options
    moved,              \* read_bytes, written: the loop of the device
    tries,              \* __ctr of esdm_invoke()
    fret, claim,        \* what the user is told: outcome, and length
    have,               \* history: data put into the user's buffer
    kernel, done,       \* history: what the kernel and the server acted on
    silent,             \* history: a call ended without an answer
    lossy               \* history: a stub left data out, or a fallback write
                        \* was short or followed what the server took

frontVars == <<fop, fpc, size, wanted, moved, tries, fret, claim, have,
               kernel, done, silent, lossy>>
vars == <<callVars, frontVars>>

(* Additional input or entropy handed over, prediction resistance, entropy *)
(* asked of a seed or flag GRND_NONBLOCK, a fallback descriptor.           *)
Options == [input : BOOLEAN, pr : BOOLEAN, strict : BOOLEAN, fd : BOOLEAN]
NoOption == [input |-> FALSE, pr |-> FALSE, strict |-> FALSE, fd |-> FALSE]

(* esdm_invoke(): a call that ends with -EINTR is made again.              *)
Invoke(o, n, nb, priv) ==
    Call(o, n, nb, priv) /\ fpc' = "call" /\ tries' = 0
Interrupted == fpc = "call" /\ pc = "done" /\ ret = "intr" /\ tries < Invokes
esdm_invoke ==
    /\ Interrupted
    /\ Call(op, len, nonblock, root)
    /\ tries' = tries + 1
    /\ done' = IF op \in PrivOps THEN Smaller(done + taken, 2) ELSE done
    /\ silent' = TRUE
    /\ UNCHANGED <<fop, fpc, size, wanted, moved, fret, claim, have, kernel,
                   lossy>>
Returned(f) == fop = f /\ fpc = "call" /\ pc = "done" /\ ~Interrupted

(* What a stub did is noted when it is back.                               *)
Note == /\ silent' = (silent \/ ret \in {"intr", "timedout"})
        /\ lossy' = (lossy \/ cut)

(* The function of the frontend returns: the user is told r and n.         *)
Tell(r, n) == fpc' = "done" /\ fret' = r /\ claim' = n

(* A user enters a function of a frontend.                                 *)
Enter(f, n, w) ==
    /\ fpc = "idle"
    /\ fop' = f /\ size' = n /\ wanted' = w /\ w \in Options
    /\ moved' = 0 /\ have' = 0 /\ kernel' = 0 /\ done' = 0
    /\ silent' = FALSE /\ lossy' = FALSE

(* ... which begins with a call, or ends at once.                          *)
Begin(o, n, nb, priv) == Invoke(o, n, nb, priv) /\ fret' = "none" /\ claim' = 0
Refuse(r) == Tell(r, 0) /\ tries' = 0 /\ UNCHANGED callVars

(* The user takes the result; histories without meaning are cleared.       *)
Leave ==
    /\ fpc = "done"
    /\ fpc' = "idle" /\ fop' = "none" /\ pc' = "idle"
    /\ size' = 0 /\ wanted' = NoOption /\ moved' = 0 /\ tries' = 0
    /\ fret' = "none" /\ claim' = 0 /\ have' = 0
    /\ kernel' = 0 /\ done' = 0 /\ silent' = FALSE /\ lossy' = FALSE
    /\ op' = "none" /\ len' = 0 /\ left' = 0 /\ cap' = 0 /\ seedlen' = 0
    /\ nonblock' = FALSE /\ root' = FALSE /\ stored' = 0 /\ taken' = 0
    /\ resent' = FALSE /\ cut' = FALSE /\ answer' = NoAnswer
    /\ ret' = "none" /\ amount' = 0

(* Nothing but the named variables changes when a stub is back.            *)
Keep == UNCHANGED <<callVars, fop, size, wanted, tries>>
Quiet == UNCHANGED <<moved, kernel, done>>

-----------------------------------------------------------------------------
(* An application calls a stub and takes what it returns.                  *)
Application ==
    \/ \E o \in Ops : \E n \in LensOf(o), nb, priv \in BOOLEAN :
         /\ nb => o = "get_seed"
         /\ priv => o \in PrivOps
         /\ Enter("app", n, NoOption)
         /\ Begin(o, n, nb, priv)
    \/ /\ Returned("app") /\ Note
       /\ Tell(ret, amount) /\ have' = stored
       /\ Keep /\ Quiet

-----------------------------------------------------------------------------
(* frontends/getrandom/getrandom.c                                         *)

StubOf(kind) ==
    CASE kind = "insecure" -> "get_random_bytes"
      [] kind = "random" -> "get_random_bytes_pr"
      [] kind = "seed" -> "get_seed"
      [] kind = "plain" -> "get_random_bytes_full"

(* Flags that exclude each other are refused.  A failed call falls back to *)
(* the system call, except for GRND_SEED.                                  *)
getrandom_common ==
    \/ \E n \in Sizes, nb \in BOOLEAN,
          kind \in {"insecure", "random", "seed", "plain", "invalid"} :
         /\ Enter("getrandom", n, [NoOption EXCEPT !.strict = nb])
         /\ IF kind = "invalid" THEN Refuse("inval")
            ELSE Begin(StubOf(kind), n, nb /\ kind = "seed", FALSE)
    \/ /\ Returned("getrandom") /\ Note
       /\ IF ret = "ok" \/ op = "get_seed"
            THEN Tell(ret, amount) /\ have' = stored
            ELSE fpc' = "kernel" /\ UNCHANGED <<fret, claim, have>>
       /\ Keep /\ Quiet

(* The system call delivers some of the data or fails.                     *)
KernelGetrandom ==
    /\ fop = "getrandom" /\ fpc = "kernel"
    /\ \/ \E n \in 1..size : Tell("ok", n) /\ have' = n
       \/ Tell("errno", 0) /\ UNCHANGED have
    /\ Keep /\ Quiet /\ UNCHANGED <<silent, lossy>>

(* getentropy() delivers everything or fails.                              *)
getentropy_common ==
    \/ \E n \in Sizes, long \in BOOLEAN :
         /\ Enter("getentropy", n, NoOption)
         /\ IF long THEN Refuse("io")
            ELSE Begin("get_random_bytes_full", n, FALSE, FALSE)
    \/ /\ Returned("getentropy") /\ Note
       /\ \/ ret = "ok" /\ Tell("ok", size) /\ have' = stored
          \/ /\ ret # "ok"
             /\ \E n \in 0..size : /\ Tell(IF n = size THEN "ok" ELSE "errno",
                                           IF n = size THEN size ELSE 0)
                                   /\ have' = n
       /\ Keep /\ Quiet

-----------------------------------------------------------------------------
(* frontends/openssl-provider/common.c                                     *)

(* Additional input is written first, and a failure of that ends the call; *)
(* then the data is asked for.                                             *)
InputFirst(f, o, lengths) ==
    \/ \E n \in lengths, w \in [input : BOOLEAN, pr : BOOLEAN,
                              strict : BOOLEAN, fd : {FALSE}] :
         /\ Enter(f, n, w)
         /\ IF w.input THEN Begin("write_data", 1, FALSE, FALSE)
            ELSE Begin(IF w.pr THEN "get_random_bytes_pr" ELSE o, n, FALSE, FALSE)
    \/ /\ Returned(f) /\ op = "write_data" /\ Note
       /\ \/ /\ ret # "ok" /\ Tell("error", 0) /\ Keep
          \/ /\ ret = "ok"
             /\ Invoke(IF wanted.pr THEN "get_random_bytes_pr" ELSE o, size,
                       FALSE, FALSE)
             /\ UNCHANGED <<fop, size, wanted, fret, claim>>
       /\ Quiet /\ UNCHANGED have

esdm_rand_generate ==
    \/ InputFirst("generate", "get_random_bytes_full", Sizes)
    \/ /\ Returned("generate") /\ op # "write_data" /\ Note
       /\ IF ret = "ok" /\ amount = size THEN Tell("ok", size) ELSE Tell("error", 0)
       /\ have' = stored
       /\ Keep /\ Quiet

(* Both inputs are written; that one fails is of no interest.              *)
esdm_rand_reseed ==
    \/ /\ Enter("reseed", 0, NoOption)
       /\ Begin("write_data", 1, FALSE, FALSE)
    \/ /\ Returned("reseed") /\ Note
       /\ \/ Tell("ok", 0) /\ Keep
          \/ /\ Invoke("write_data", 1, FALSE, FALSE)
             /\ UNCHANGED <<fop, size, wanted, fret, claim>>
       /\ Quiet /\ UNCHANGED have

esdm_rand_nonce ==
    \/ \E n \in Sizes :
         /\ Enter("nonce", n, NoOption)
         /\ Begin("get_random_bytes_min", n, FALSE, FALSE)
    \/ /\ Returned("nonce") /\ Note
       /\ IF ret = "ok" /\ amount = size THEN Tell("ok", size) ELSE Tell("error", 0)
       /\ have' = stored
       /\ Keep /\ Quiet

(* The size of the seed and its entropy, two words, come first.            *)
SeedHead == 2

(* Bug variant: the entropy told in the second word is not looked at.      *)
BugSeedUnchecked ==
    \/ /\ Returned("seed") /\ op # "write_data" /\ Note
       /\ IF ret = "ok" /\ amount > 0 THEN Tell("ok", SeedHead) ELSE Tell("error", 0)
       /\ have' = stored
       /\ Keep /\ Quiet
    \/ InputFirst("seed", "get_seed", {MaxData})

(* A seed is handed on when the server says that it holds the entropy; the *)
(* buffer was zeroed, so an untouched one holds none.                      *)
esdm_rand_get_seed ==
    \/ /\ Returned("seed") /\ op # "write_data" /\ Note
       /\ \E bits \in (IF stored >= SeedHead THEN BOOLEAN ELSE {FALSE}) :
            IF ret = "ok" /\ amount > 0 /\ (wanted.strict => bits)
              THEN Tell("ok", IF wanted.strict THEN SeedHead ELSE 0)
              ELSE Tell("error", 0)
       /\ have' = stored
       /\ Keep /\ Quiet
    \/ InputFirst("seed", "get_seed", {MaxData})

(* esdm_self_test() asks for the entropy level.                            *)
esdm_self_test ==
    \/ /\ Enter("selftest", 0, NoOption)
       /\ Begin("rnd_get_ent_cnt", 1, FALSE, FALSE)
    \/ /\ Returned("selftest") /\ Note
       /\ Tell(IF ret = "ok" THEN "ok" ELSE "error", 0)
       /\ Keep /\ Quiet /\ UNCHANGED have

-----------------------------------------------------------------------------
(* frontends/botan-rng/botan-rng.cpp: failures are thrown.                 *)
fill_bytes_with_input ==
    \/ InputFirst("fill", "get_random_bytes_full", Sizes)
    \/ /\ Returned("fill") /\ op # "write_data" /\ Note
       /\ IF ret = "ok" /\ amount = size THEN Tell("ok", size) ELSE Tell("throw", 0)
       /\ have' = stored
       /\ Keep /\ Quiet

-----------------------------------------------------------------------------
(* frontends/cuse/cuse_device.c                                            *)

NextRead(n) == Smaller(MaxMsg, n)

(* O_SYNC asks for prediction resistance.  The loop goes on until the      *)
(* buffer is full, from the fallback where the server fails.               *)
esdm_cuse_read_internal ==
    \/ \E n \in Sizes \ {0}, pr, fd \in BOOLEAN,
          get \in {"get_random_bytes", "get_random_bytes_full"} :
         /\ Enter("read", n, [NoOption EXCEPT !.pr = pr, !.fd = fd])
         /\ Begin(IF pr THEN "get_random_bytes_pr" ELSE get, NextRead(n), FALSE, FALSE)
    \/ /\ Returned("read") /\ Note
       /\ \E n \in (IF ret = "ok" THEN {amount}
                    ELSE IF wanted.fd THEN (-1)..len ELSE {-1}) :
            /\ have' = IF ret = "ok" THEN have + stored
                       ELSE IF n > 0 THEN have + n ELSE have
            /\ IF n < 0
                 THEN Tell("error", 0) /\ UNCHANGED moved /\ Keep
                 ELSE /\ moved' = moved + n
                      /\ \/ /\ moved + n = size
                            /\ Tell("ok", size)
                            /\ Keep
                         \/ /\ moved + n < size
                            /\ Invoke(op, NextRead(size - moved - n), FALSE, FALSE)
                            /\ UNCHANGED <<fop, size, wanted, fret, claim>>
       /\ UNCHANGED <<kernel, done>>

(* A write that the server refuses goes to the kernel as a whole, from the *)
(* beginning of the buffer each time, and what the server took before is   *)
(* counted as well; nothing to write is an error.                          *)
KernelWrite ==
    \E n \in 1..size :
      /\ moved' = moved + n
      /\ kernel' = IF n > kernel THEN n ELSE kernel
      /\ lossy' = (lossy \/ n < size \/ done > 0)
      /\ IF moved + n < size THEN fpc' = "kernel" /\ UNCHANGED <<fret, claim>>
                             ELSE Tell("ok", moved + n)

esdm_cuse_write_internal ==
    \/ \E n \in Sizes, fd \in BOOLEAN :
         /\ Enter("write", n, [NoOption EXCEPT !.fd = fd])
         /\ IF n = 0 THEN Refuse("fault")
            ELSE Begin("write_data", NextRead(n), FALSE, FALSE)
    \/ /\ Returned("write") /\ UNCHANGED <<silent, have>>
       /\ \/ /\ ret = "ok" /\ moved' = moved + len /\ done' = done + len
             /\ \/ moved + len = size /\ Tell("ok", size) /\ Keep
                \/ /\ moved + len < size
                   /\ Invoke("write_data", NextRead(size - moved - len), FALSE, FALSE)
                   /\ UNCHANGED <<fop, size, wanted, fret, claim>>
             /\ UNCHANGED <<kernel, lossy>>
          \/ ret # "ok" /\ wanted.fd /\ KernelWrite /\ Keep /\ UNCHANGED done
          \/ ret # "ok" /\ Tell("error", 0) /\ Keep /\ UNCHANGED <<moved, kernel, done, lossy>>
    \/ /\ fop = "write" /\ fpc = "kernel"
       /\ KernelWrite \/ (Tell("error", 0) /\ UNCHANGED <<moved, kernel, lossy>>)
       /\ Keep /\ UNCHANGED <<have, done, silent>>

(* RNDADDTOENTCNT and RNDADDENTROPY go to the kernel when the server did   *)
(* not take them; RNDCLEARPOOL and RNDRESEEDCRNG go there when it did.     *)
IoctlStub == [addtoentcnt |-> "rnd_add_to_ent_cnt", addentropy |-> "rnd_add_entropy",
              clearpool |-> "rnd_clear_pool", reseedcrng |-> "rnd_reseed_crng"]
Adding == {"addtoentcnt", "addentropy"}

IoctlDone(cmd) ==
    /\ Returned(cmd) /\ Note
    /\ \E n \in (IF wanted.fd /\ ((ret = "ok") # (cmd \in Adding)) THEN {0, 1} ELSE {0}) :
         /\ kernel' = n
         /\ IF cmd \in Adding
              THEN Tell(IF ret = "ok" \/ n = 1 \/ ~wanted.fd THEN "ok" ELSE "errno", 0)
              ELSE Tell(IF ret # "ok" THEN "error"
                         ELSE IF wanted.fd /\ n = 0 THEN "errno" ELSE "ok", 0)
    /\ done' = Smaller(done + taken, 2)
    /\ Keep /\ UNCHANGED <<moved, have>>

(* The caller's buffers are asked for first; then an unprivileged caller   *)
(* is refused.  Command 43 goes to the kernel only, 42 and RNDGETENTCNT    *)
(* only read.                                                              *)
esdm_cuse_ioctl ==
    \/ \E cmd \in DOMAIN IoctlStub, fd, priv, retry \in BOOLEAN :
         /\ Enter(cmd, 1, [NoOption EXCEPT !.fd = fd])
         /\ IF retry \/ ~priv
              THEN Refuse(IF retry THEN "retry" ELSE "perm")
              ELSE Begin(IoctlStub[cmd], 1, FALSE, TRUE)
    \/ \E cmd \in DOMAIN IoctlStub : IoctlDone(cmd)
    \/ /\ Enter("getentcnt", 0, NoOption)
       /\ Begin("rnd_get_ent_cnt", 1, FALSE, FALSE)
    \/ /\ Returned("getentcnt") /\ Note
       /\ Tell(IF ret = "ok" THEN "ok" ELSE "error", 0)
       /\ Keep /\ UNCHANGED <<have, moved, kernel, done>>

Init ==
    /\ CallsInit
    /\ fop = "none" /\ fpc = "idle" /\ size = 0 /\ wanted = NoOption
    /\ moved = 0 /\ tries = 0 /\ fret = "none" /\ claim = 0 /\ have = 0
    /\ kernel = 0 /\ done = 0 /\ silent = FALSE /\ lossy = FALSE

Next ==
    \/ CallsStep /\ UNCHANGED frontVars
    \/ esdm_invoke \/ Leave \/ Application
    \/ getrandom_common \/ KernelGetrandom \/ getentropy_common
    \/ esdm_rand_generate \/ esdm_rand_reseed \/ esdm_rand_nonce
    \/ esdm_rand_get_seed \/ esdm_self_test
    \/ fill_bytes_with_input
    \/ esdm_cuse_read_internal \/ esdm_cuse_write_internal
    \/ esdm_cuse_ioctl

Spec == Init /\ [][Next]_vars

-----------------------------------------------------------------------------
(* A user is never told of more data than was moved, whichever frontend,   *)
(* chunking, retry or fallback it went through: data that was asked for is *)
(* in the buffer, data that was written went to the server or the kernel   *)
(* as a whole.  The named exceptions: getrandom() hands on a seed that     *)
(* esdm_rpcc_get_seed_int() left out, and esdm_cuse_write_internal() adds  *)
(* up what the server and several short writes to the kernel took.         *)
(* A command of the device is carried out once: the server or, when the    *)
(* server did not take it, the kernel adds the entropy, and a refused      *)
(* command has no effect.  A request without an answer, or submitted       *)
(* again, may have had its effect before.                                  *)
ClaimsBacked ==
    /\ fpc = "done" /\ fret = "ok" =>
          \/ lossy /\ fop \in {"getrandom", "app", "write"}
          \/ claim <= (IF fop # "write" THEN have
                       ELSE IF done > kernel THEN done ELSE kernel)
    /\ fpc = "done" /\ fop \in Adding =>
          /\ ~silent /\ ~resent => done + kernel <= 1
          /\ fret = "ok" /\ wanted.fd => done + kernel >= 1
          /\ fret \in {"perm", "retry"} => done + kernel = 0
=============================================================================
