--------------------------- MODULE EsdmSp80090aHash ---------------------------
(***************************************************************************)
(* Hash_DRBG as SP 800-90A, 10.1.1, defines it, on numbers: V and C are    *)
(* integers below Base^SeedLen and every addition is modulo that.  This is *)
(* what crypto/hash_drbg.c has to implement on arrays of bytes.            *)
(***************************************************************************)
EXTENDS Integers, Sequences

CONSTANTS
    Base,               \* values of a byte
    SeedLen, OutLen,    \* bytes of V and C, and of a hash
    Hash(_),            \* from byte strings to byte strings of length OutLen
    Entropy,            \* entropy inputs with their nonces
    Additional,         \* personalisation strings and additional inputs
    Requests            \* numbers of bytes to generate

VARIABLES v, c, counter, instantiated, bytes

sp80090a == <<v, c, counter, instantiated, bytes>>

Modulus == Base ^ SeedLen

(* The number a byte string stands for, most significant byte first.       *)
Value(s) == LET f[i \in 0..Len(s)] == IF i = 0 THEN 0
                                      ELSE f[i - 1] * Base + s[i]
            IN f[Len(s)]

Octets(n) == [i \in 1..SeedLen |-> (n \div (Base ^ (SeedLen - i))) % Base]

(* The leftmost n bytes of Hash of counted inputs, input k being in(k).    *)
Leftmost(n, in(_)) == [i \in 1..n |->
    Hash(in((i - 1) \div OutLen))[((i - 1) % OutLen) + 1]]

(* Hash_df, 10.3.1; no_of_bits_to_return is the same for V and C.          *)
HashDf(input) == Leftmost(SeedLen, LAMBDA k :
    <<(k + 1) % Base, (8 * SeedLen) % Base>> \o input)

(* Hashgen                                                                 *)
Hashgen(n, start) ==
    Leftmost(n, LAMBDA k : Octets((start + k) % Modulus))

SeedWith(material) ==
    /\ v' = Value(HashDf(material))
    /\ c' = Value(HashDf(<<0>> \o Octets(v')))
    /\ counter' = 1 /\ instantiated' = TRUE
    /\ UNCHANGED bytes

Instantiate(entropy, personalization) ==
    ~instantiated /\ SeedWith(entropy \o personalization)

Reseed(entropy, additional) ==
    instantiated /\ SeedWith(<<1>> \o Octets(v) \o entropy \o additional)

Generate(n, additional) ==
    LET w == IF additional = <<>> THEN 0
             ELSE Value(Hash(<<2>> \o Octets(v) \o additional))
        v2 == (v + w) % Modulus
    IN /\ bytes' = Hashgen(n, v2)
       /\ v' = (v2 + Value(Hash(<<3>> \o Octets(v2))) + c + counter) % Modulus
       /\ counter' = counter + 1
       /\ UNCHANGED <<c, instantiated>>

Uninstantiate ==
    /\ v' = 0 /\ c' = 0 /\ counter' = 1 /\ instantiated' = FALSE
    /\ UNCHANGED bytes

Init == v = 0 /\ c = 0 /\ counter = 1 /\ instantiated = FALSE /\ bytes = <<>>

Next == \/ \E e \in Entropy, p \in Additional :
               Instantiate(e, p) \/ Reseed(e, p)
        \/ \E n \in Requests, a \in Additional : Generate(n, a)
        \/ Uninstantiate

Spec == Init /\ [][Next]_sp80090a
=============================================================================
