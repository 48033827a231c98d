------------------------------- MODULE EsdmHash -------------------------------
(***************************************************************************)
(* The hashes behind the conditioning of the entropy sources, the Hash     *)
(* DRBG and the integrity check: SHA-256, SHA-512, SHA-3 and SHAKE of      *)
(* crypto/sha256.c, sha512.c and sha3.c, and HMAC of crypto/hmac.c.  What  *)
(* can go wrong there is the bookkeeping of the partial block while data   *)
(* arrives in pieces.  The compression functions are symbols: the state is *)
(* the trace of what they were given, so that two traces are equal only if *)
(* the computations are.                                                   *)
(***************************************************************************)
EXTENDS Integers, Sequences

CONSTANTS
    HBlock,             \* bytes of a block, the rate of the sponge
    HWord,              \* bytes of a word of the sponge's state
    HDigest,            \* bytes of a digest
    Pieces,             \* sizes of the pieces of data
    KeyLens,            \* sizes of HMAC keys
    MaxMessage,         \* bound: bytes of data
    MaxSqueeze          \* bound: bytes squeezed

Algorithms == {"sha256", "sha512", "sha3", "shake"}
Sponge(a) == a \in {"sha3", "shake"}

(* The field of the message length is two words; only its end is written.  *)
LengthField(a) == IF a = "sha512" THEN HWord ELSE HWord \div 2

VARIABLES
    alg, phase,         \* "off", "open", "squeezed"
    ctx,                \* lc_hash_state
    key,                \* the pads of an HMAC, <<>> for a plain hash
    given,              \* history: bytes of data so far
    out,                \* the digest, or what was squeezed so far
    uneven              \* history: a squeeze followed one of a partial block

hashVars == <<alg, phase, ctx, key, given, out, uneven>>

Zero == <<"0">>
Zeros(n) == [i \in 1..n |-> Zero]
Xor(buf, pad) == [i \in DOMAIN buf |-> <<"xor", buf[i], pad>>]
DigestBytes(trace, n) == [i \in 1..n |-> <<"out", trace, i>>]

(* memcpy() of `in` to offset `off` of the buffer                          *)
Copy(buf, off, in) ==
    [i \in DOMAIN buf |-> IF i \in off + 1..off + Len(in) THEN in[i - off]
                                                          ELSE buf[i]]

(* The functions on the state: each is a symbol in the trace.              *)
keccakp_1600(trace) == Append(trace, <<"permute">>)
sha3_fill_state(trace, block) == Append(trace, <<"fill", block>>)
sha256_transform(trace, block) == Append(trace, <<"sha256", block>>)
sha512_transform(trace, block) == Append(trace, <<"sha512", block>>)

(* One full block: SHA-3 also permutes.                                    *)
Process(a, trace, block) ==
    CASE a = "sha256" -> sha256_transform(trace, block)
      [] a = "sha512" -> sha512_transform(trace, block)
      [] OTHER -> keccakp_1600(sha3_fill_state(trace, block))

RECURSIVE ProcessAll(_, _, _)
ProcessAll(a, trace, in) ==
    IF Len(in) < HBlock THEN trace
    ELSE ProcessAll(a, Process(a, trace, SubSeq(in, 1, HBlock)),
                    SubSeq(in, HBlock + 1, Len(in)))

(* sha256_init() and sha3_init(): the partial block keeps what it had.     *)
HashInit(c) == [c EXCEPT !.H = <<>>, !.msg_len = 0, !.squeeze_more = FALSE]

(* Bug variant of Fits: a block that the data fills up is not processed.   *)
BugFits(in, todo) == Len(in) <= todo

(* The data fits into the partial block and leaves room.                   *)
Fits(in, todo) == Len(in) < todo

(* What is left of the data behind its last full block.                    *)
Rest(in) == SubSeq(in, Len(in) - (Len(in) % HBlock) + 1, Len(in))

(* Top up the partial block, process full ones from the data, keep the     *)
(* rest.                                                                   *)
Update(a, c, in) ==
    LET partial == c.msg_len % HBlock
        todo == HBlock - partial
        d == [c EXCEPT !.msg_len = @ + Len(in)]
        full == Copy(c.partial, partial, SubSeq(in, 1, todo))
        more == SubSeq(in, todo + 1, Len(in))
    IN IF partial = 0
         THEN [d EXCEPT !.H = ProcessAll(a, @, in),
                        !.partial = Copy(@, 0, Rest(in))]
       ELSE IF Fits(in, todo)
         THEN [d EXCEPT !.partial = Copy(@, partial, in)]
         ELSE [d EXCEPT !.H = ProcessAll(a, Process(a, @, full), more),
                        !.partial = Copy(full, 0, Rest(more))]

sha256_update(c, in) == Update("sha256", c, in)
sha512_update(c, in) == Update("sha512", c, in)
keccak_absorb(a, c, in) == Update(a, [c EXCEPT !.squeeze_more = FALSE], in)

(* lc_hash_update()                                                        *)
HashUpdate(a, c, in) == CASE a = "sha256" -> sha256_update(c, in)
                          [] a = "sha512" -> sha512_update(c, in)
                          [] OTHER -> keccak_absorb(a, c, in)

(* The end of SHA-2: a mark, one more block if the length does not fit,    *)
(* the length in bits at the very end.                                     *)
Sha2Final(a, c) ==
    LET partial == c.msg_len % HBlock
        marked == Copy(c.partial, partial, << <<"0x80">> >>)
        crowded == partial + 1 > HBlock - LengthField(a)
        cleared(from) == Copy(marked, from, Zeros(HBlock - from))
        trace == IF crowded THEN Process(a, c.H, cleared(partial + 1)) ELSE c.H
        last == Copy(IF crowded THEN Zeros(HBlock) ELSE cleared(partial + 1),
                     HBlock - 1, << <<"bits", 8 * c.msg_len>> >>)
    IN [ctx |-> [c EXCEPT !.H = <<>>, !.partial = Zeros(HBlock),
                          !.msg_len = 8 * @],
        out |-> DigestBytes(Process(a, trace, last), HDigest)]

sha256_final(c) == Sha2Final("sha256", c)
sha512_final(c) == Sha2Final("sha512", c)

(* Full words of the state, the lower half of the next one, single bytes   *)
(* of the rest of that word.                                               *)
StateBytes(trace, todo) ==
    LET words == todo \div HWord
        half == (todo - words * HWord) \div (HWord \div 2)
        single == todo - words * HWord - half * (HWord \div 2)
        part == words * HWord + half * (HWord \div 2)
    IN DigestBytes(trace, words * HWord)
       \o [i \in 1..half * (HWord \div 2) |-> <<"out", trace, words * HWord + i>>]
       \o [i \in 1..single |-> <<"out", trace, part + i>>]

RECURSIVE SqueezeBlocks(_, _)
SqueezeBlocks(trace, len) ==
    IF len = 0 THEN [H |-> trace, out |-> <<>>]
    ELSE LET todo == IF len > HBlock THEN HBlock ELSE len
             p == keccakp_1600(trace)
             more == SqueezeBlocks(p, len - todo)
         IN [H |-> more.H, out |-> StateBytes(p, todo) \o more.out]

(* The padding once, then as many blocks as needed.                        *)
keccak_squeeze(a, c, len) ==
    LET partial == c.msg_len % HBlock
        cleared == Copy(c.partial, partial, Zeros(HBlock - partial))
        padded == Copy(cleared, partial, << <<"pad", a>> >>)
        last == [padded EXCEPT ![HBlock] = <<"or 0x80", @>>]
        start == IF c.squeeze_more THEN c.H ELSE sha3_fill_state(c.H, last)
        squeezed == SqueezeBlocks(start, len)
    IN [ctx |-> [c EXCEPT !.H = squeezed.H, !.squeeze_more = TRUE,
                          !.partial = IF c.squeeze_more THEN @ ELSE last],
        out |-> squeezed.out]

(* lc_hash_final()                                                         *)
HashFinal(a, c) == CASE a = "sha256" -> sha256_final(c)
                     [] a = "sha512" -> sha512_final(c)
                     [] OTHER -> keccak_squeeze(a, c, HDigest)

(* lc_hmac_init() and lc_hmac_reinit(): a key longer than a block is       *)
(* hashed first.                                                           *)
HmacInit(a, c, k) ==
    LET hashed == HashFinal(a, HashUpdate(a, HashInit(c), k))
        long == Len(k) > HBlock
        short == IF long THEN hashed.out ELSE k
        full == short \o Zeros(HBlock - Len(short))
        pads == <<Xor(full, "ipad"), Xor(full, "opad")>>
    IN [pads |-> pads,
        ctx |-> HashUpdate(a, HashInit(IF long THEN hashed.ctx ELSE c),
                           pads[1])]

(* lc_hmac_final()                                                         *)
HmacFinal(a, c, pads) ==
    LET inner == HashFinal(a, c)
        outer == HashUpdate(a, HashUpdate(a, HashInit(inner.ctx), pads[2]),
                            inner.out)
    IN HashFinal(a, outer)

-----------------------------------------------------------------------------

Data(from, n) == [i \in 1..n |-> <<"data", from + i>>]
KeyBytes(n) == [i \in 1..n |-> <<"key", i>>]

(* lc_hash_init() or lc_hmac_init()                                        *)
HashStart(a) ==
    /\ phase # "open"
    /\ alg' = a /\ phase' = "open" /\ given' = 0 /\ out' = <<>>
    /\ uneven' = FALSE
    /\ \/ key' = <<>> /\ ctx' = HashInit(ctx)
       \/ /\ a # "shake"
          /\ \E n \in KeyLens : LET r == HmacInit(a, ctx, KeyBytes(n))
                               IN key' = r.pads /\ ctx' = r.ctx

HashAdd(n) ==
    /\ phase = "open" /\ given + n <= MaxMessage
    /\ ctx' = HashUpdate(alg, ctx, Data(given, n))
    /\ given' = given + n
    /\ UNCHANGED <<alg, phase, key, out, uneven>>

HashEnd ==
    /\ phase = "open" /\ alg # "shake"
    /\ LET r == IF key = <<>> THEN HashFinal(alg, ctx)
                              ELSE HmacFinal(alg, ctx, key)
       IN ctx' = r.ctx /\ out' = r.out
    /\ phase' = "off"
    /\ UNCHANGED <<alg, key, given, uneven>>

(* lc_hash_set_digestsize() and lc_hash_final() of SHAKE, again and again  *)
ShakeSqueeze(n) ==
    /\ phase \in {"open", "squeezed"} /\ alg = "shake"
    /\ Len(out) + n <= MaxSqueeze
    /\ LET r == keccak_squeeze(alg, ctx, n)
       IN ctx' = r.ctx /\ out' = out \o r.out
    /\ uneven' = (uneven \/ Len(out) % HBlock # 0)
    /\ phase' = "squeezed"
    /\ UNCHANGED <<alg, key, given>>

HashInitial ==
    /\ alg = "sha256" /\ phase = "off" /\ key = <<>> /\ given = 0
    /\ ctx = [H |-> <<>>, partial |-> Zeros(HBlock), msg_len |-> 0,
              squeeze_more |-> FALSE]
    /\ out = <<>> /\ uneven = FALSE

HashNext == \/ \E a \in Algorithms : HashStart(a)
            \/ \E n \in Pieces : HashAdd(n) \/ ShakeSqueeze(n)
            \/ HashEnd

-----------------------------------------------------------------------------

(* The standards: pad the whole message, cut it into blocks.               *)
Padded(a, m) ==
    LET extra == IF Sponge(a) THEN 1 ELSE 1 + LengthField(a)
        k == (Len(m) + extra + HBlock - 1) \div HBlock
    IN [i \in 1..k * HBlock |->
           IF i <= Len(m) THEN m[i]
           ELSE IF Sponge(a)
             THEN LET b == IF i = Len(m) + 1 THEN <<"pad", a>> ELSE Zero
                  IN IF i = k * HBlock THEN <<"or 0x80", b>> ELSE b
             ELSE IF i = Len(m) + 1 THEN <<"0x80">>
             ELSE IF i = k * HBlock THEN <<"bits", 8 * Len(m)>> ELSE Zero]

Absorbed(a, m) == ProcessAll(a, <<>>, Padded(a, m))

RefDigest(a, m) == DigestBytes(Absorbed(a, m), HDigest)

(* Byte n of what SHAKE yields comes from block 1 + (n - 1) \div HBlock.   *)
RefStream(m, n) ==
    LET later == (n - 1) \div HBlock
    IN <<"out", Absorbed("shake", m) \o [i \in 1..later |-> <<"permute">>],
         1 + ((n - 1) % HBlock)>>

(* However the data arrives, a digest is that of the whole message: the    *)
(* hash of the padded message, and the two nested hashes of an HMAC; and   *)
(* SHAKE yields the bytes of one stream as long as it is squeezed by whole *)
(* blocks (the comment at lc_hash_final()).                                *)
DigestOfWhole ==
    /\ phase = "off" /\ out # <<>> =>
          out = IF key = <<>> THEN RefDigest(alg, Data(0, given))
                ELSE RefDigest(alg, key[2] \o
                         RefDigest(alg, key[1] \o Data(0, given)))
    /\ ~uneven /\ alg = "shake" => \A i \in DOMAIN out :
                         out[i] = RefStream(Data(0, given), i)
=============================================================================
