---------------------------- MODULE EsdmChaChaDrng ----------------------------
(***************************************************************************)
(* The ChaCha20 DRNG of crypto/chacha20_drng.c on the block function of    *)
(* crypto/chacha20.c.  The words a call of cc20_block() makes are symbols, *)
(* <<block, word>>, numbered from the start of the operation; the model    *)
(* follows where they go: to the caller or into the next key.              *)
(***************************************************************************)
EXTENDS Integers, Sequences

CONSTANTS
    WORD,                           \* bytes of a word
    LC_CC20_KEY_SIZE_WORDS,         \* words of the key; a block has twice as many
    SeedLens, OutLens,              \* lengths of seeds and of requests
    CounterValues, NonceValues      \* values of the counter and of a nonce word

LC_CC20_BLOCK_SIZE_WORDS == 2 * LC_CC20_KEY_SIZE_WORDS
LC_CC20_BLOCK_SIZE == WORD * LC_CC20_BLOCK_SIZE_WORDS
LC_CC20_KEY_SIZE == WORD * LC_CC20_KEY_SIZE_WORDS

VARIABLES
    cc20,       \* [counter, nonce] of struct lc_sym_state
    again,      \* whether the last operation's key met a counter twice
    updates,    \* updates of the state, modulo the values of the nonce
    rekeyed,      \* block words the last update added to the key words
    outbuf,     \* what the last request gave out: <<block, byte>>
    absorbed    \* where the last seed went: <<update, key byte>> per byte

ccVars == <<cc20, again, updates, rekeyed, outbuf, absorbed>>

KeyWords == 1..LC_CC20_KEY_SIZE_WORDS
Uninitialised == -1

Distinct(f) == \A i, j \in DOMAIN f : f[i] = f[j] => i = j

(* The counters n calls of cc20_block() use; each call raises it, modulo   *)
(* its width, and nothing else sets it.                                    *)
cc20_block(n) == [i \in 1..n |-> (cc20.counter + i - 1) % CounterValues]

(* The nonce is a number of three words, the least significant first.      *)
NextNonce(nonce) ==
    LET up(k) == (nonce[k] + 1) % NonceValues
    IN IF up(1) # 0 THEN <<up(1), nonce[2], nonce[3]>>
       ELSE IF up(2) # 0 THEN <<0, up(2), nonce[3]>>
       ELSE <<0, 0, up(3)>>

RECURSIVE NonceAfter(_, _)
NonceAfter(n, nonce) == IF n = 0 THEN nonce
                        ELSE NonceAfter(n - 1, NextNonce(nonce))

NonceCount == NonceValues * NonceValues * NonceValues

(* The words lc_cc20_drng_update() adds to the key: of a block of its own, *)
(* number own, or of the unused part of buf.                               *)
UpdateWords(buf, used_words, own) ==
    [i \in KeyWords |->
        IF used_words > LC_CC20_KEY_SIZE_WORDS THEN <<own, i>>
        ELSE <<buf, i + used_words>>]

UpdateBlocks(used_words) == IF used_words > LC_CC20_KEY_SIZE_WORDS THEN 1 ELSE 0

(* lc_cc20_drng_seed(): each chunk of key size enters the key and is       *)
(* followed by an update with a block of its own.                          *)
lc_cc20_drng_seed(inbuflen) ==
    LET chunks == (inbuflen + LC_CC20_KEY_SIZE - 1) \div LC_CC20_KEY_SIZE
    IN /\ absorbed' = [i \in 1..inbuflen |->
                          <<(i - 1) \div LC_CC20_KEY_SIZE,
                            (i - 1) % LC_CC20_KEY_SIZE>>]
       /\ cc20' = [counter |-> (cc20.counter + chunks) % CounterValues,
                   nonce |-> NonceAfter(chunks, cc20.nonce)]
       /\ updates' = (updates + chunks) % NonceCount
       /\ again' = FALSE
       /\ rekeyed' = IF chunks = 0 THEN rekeyed
                   ELSE UpdateWords(Uninitialised, LC_CC20_BLOCK_SIZE_WORDS,
                                    chunks)
       /\ outbuf' = IF chunks = 0 THEN outbuf ELSE <<>>

(* Bug variant of UsedWords: a word given out in part counts as unused.    *)
BugPartialWord(outbuflen) ==
    IF outbuflen % LC_CC20_BLOCK_SIZE = 0 THEN LC_CC20_BLOCK_SIZE_WORDS
    ELSE (outbuflen % LC_CC20_BLOCK_SIZE) \div WORD

(* used of lc_cc20_drng_generate(): the words the last block gave away.    *)
UsedWords(outbuflen) ==
    IF outbuflen % LC_CC20_BLOCK_SIZE = 0 THEN LC_CC20_BLOCK_SIZE_WORDS
    ELSE ((outbuflen % LC_CC20_BLOCK_SIZE) + WORD - 1) \div WORD

(* lc_cc20_drng_generate(): full blocks, into an aligned buffer directly,  *)
(* a last one that may be partial, and an update.                          *)
lc_cc20_drng_generate(outbuflen, aligned) ==
    LET full == outbuflen \div LC_CC20_BLOCK_SIZE
        rest == outbuflen % LC_CC20_BLOCK_SIZE
        blocks == full + (IF rest > 0 THEN 1 ELSE 0)
        aligned_buf == IF rest > 0 THEN blocks
                       ELSE IF aligned \/ full = 0 THEN Uninitialised ELSE full
        used == UsedWords(outbuflen)
        made == blocks + UpdateBlocks(used)
    IN /\ outbuf' = [i \in 1..outbuflen |->
                        <<1 + ((i - 1) \div LC_CC20_BLOCK_SIZE),
                          (i - 1) % LC_CC20_BLOCK_SIZE>>]
       /\ rekeyed' = UpdateWords(aligned_buf, used, blocks + 1)
       /\ cc20' = [counter |-> (cc20.counter + made) % CounterValues,
                   nonce |-> NextNonce(cc20.nonce)]
       /\ updates' = (updates + 1) % NonceCount
       /\ again' = ~Distinct(cc20_block(made))
       /\ absorbed' = <<>>

(* lc_cc20_drng_alloc(), lc_cc20_drng_zero() and cc20_init()               *)
ZeroCc20 == [counter |-> 1, nonce |-> <<0, 0, 0>>]

lc_cc20_drng_zero ==
    /\ cc20' = ZeroCc20 /\ updates' = 0 /\ again' = FALSE
    /\ rekeyed' = UpdateWords(Uninitialised, LC_CC20_BLOCK_SIZE_WORDS, 0)
    /\ outbuf' = <<>> /\ absorbed' = <<>>

CcInit ==
    /\ cc20 = ZeroCc20 /\ updates = 0 /\ again = FALSE
    /\ rekeyed = UpdateWords(Uninitialised, LC_CC20_BLOCK_SIZE_WORDS, 0)
    /\ outbuf = <<>> /\ absorbed = <<>>

CcNext == \/ \E n \in SeedLens : lc_cc20_drng_seed(n)
          \/ \E n \in OutLens, a \in BOOLEAN : lc_cc20_drng_generate(n, a)
          \/ lc_cc20_drng_zero

(* Backtracking resistance of the ChaCha20 DRNG: whatever the length of a  *)
(* request and wherever its buffer lies, lc_cc20_drng_update() renews each *)
(* key word with a word of its own, inside a block that was really made,   *)
(* no byte of which any caller got; a request gives no byte of the stream  *)
(* twice and never runs one key with a counter it had, even when the       *)
(* counter wraps; a seed enters the key whole, no two of its bytes in one  *)
(* place before an update parts them; and the nonce counts the updates     *)
(* through the carries of its three words.                                 *)
ChaChaRenewed ==
    /\ Distinct(rekeyed) /\ Distinct(outbuf) /\ Distinct(absorbed) /\ ~again
    /\ \A i \in KeyWords :
          /\ rekeyed[i][1] # Uninitialised
          /\ rekeyed[i][2] \in 1..LC_CC20_BLOCK_SIZE_WORDS
          /\ \A k \in DOMAIN outbuf :
                <<outbuf[k][1], (outbuf[k][2] \div WORD) + 1>> # rekeyed[i]
    /\ cc20.nonce[1] + (NonceValues * cc20.nonce[2])
          + (NonceValues * NonceValues * cc20.nonce[3]) = updates
=============================================================================
