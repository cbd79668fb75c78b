------------------------------- MODULE IceHash -------------------------------
(***************************************************************************)
(* The FNV-1a hashes of icehash.c: unrolled loops over 1, 4 and 8 bytes,   *)
(* and functions that hash the bytes a number has in memory.  A caller     *)
(* hashes a structure by handing the hash of one field on to the next.     *)
(* The functions of 32 and of 64 bits are the same but for the width of    *)
(* the hash and the prime.                                                 *)
(***************************************************************************)
EXTENDS IceWords, Sequences

CONSTANTS
  Fnv,             \* the hashes, 32a and 64a: their width and their prime
  ByteBits,        \* the width of a byte (8)
  Starts,          \* what callers begin with, FNV1_32A_INIT or another hash
  Byte,            \* the bytes, ...
  Uint32, Uint64,  \* ... the words of four and of eight bytes, a float being
                   \* one of four, ...
  Signed,          \* ... and the ints that callers hash
  MaxBytes         \* bound: a structure has no more bytes

(* A hash is no narrower than a byte, and the primes are odd.                *)
ASSUME HashAssumption ==
  /\ ByteBits \in Nat \ {0} /\ MaxBytes \in Nat
  /\ \A f \in Fnv :
       /\ f.bits \in Nat /\ f.bits >= ByteBits
       /\ f.prime \in Nat /\ f.prime % 2 = 1
       /\ Starts \subseteq Words(f.bits)
  /\ Byte \subseteq Words(ByteBits)
  /\ Uint32 \subseteq Words(4 * ByteBits)
  /\ Uint64 \subseteq Words(8 * ByteBits)
  /\ Signed \subseteq -Pow2[4 * ByteBits - 1] .. Pow2[4 * ByteBits - 1] - 1

VARIABLES
  fnv,     \* the hash the caller uses
  start,   \* what the caller began with
  h,       \* the hash so far
  hashed   \* the fields hashed so far, as they are in memory

hashVars == <<fnv, start, h, hashed>>

(* Mutant: the byte is or'ed to the hash.                                    *)
byte1Or(byte, hash) == (Or(byte, hash, fnv.bits) * fnv.prime) % Pow2[fnv.bits]

fnv_byte1(byte, hash) == (Xor(byte, hash, fnv.bits) * fnv.prime) % Pow2[fnv.bits]

fnv_byte4(b, hash) ==
  fnv_byte1(b[4], fnv_byte1(b[3], fnv_byte1(b[2], fnv_byte1(b[1], hash))))

(* Mutant: a line copied, and its index left as it was.                      *)
byte8Copied(b, hash) ==
  fnv_byte4(<<b[5], b[6], b[6], b[8]>>, fnv_byte4(SubSeq(b, 1, 4), hash))

fnv_byte8(b, hash) ==
  fnv_byte4(SubSeq(b, 5, 8), fnv_byte4(SubSeq(b, 1, 4), hash))

(* A number of n bytes in memory, on the little-endian machines the library  *)
(* is made for; a negative one as its two's complement.                      *)
InMemory(i, n) ==
  [k \in 1 .. n |-> Shifted(i)[ByteBits * (k - 1)] % Pow2[ByteBits]]

fnv_int(i, hash) == fnv_byte4(InMemory(i, 4), hash)
fnv_uint32_t(i, hash) == fnv_byte4(InMemory(i, 4), hash)
fnv_uint64_t(i, hash) == fnv_byte8(InMemory(i, 8), hash)

(* f is the representation of the float.                                     *)
fnv_float(f, hash) == fnv_byte4(InMemory(f, 4), hash)
-----------------------------------------------------------------------------
HashInit ==
  /\ fnv \in Fnv /\ start \in Starts
  /\ h = start /\ hashed = <<>>

Hashed(field, hash) ==
  /\ Len(hashed) + Len(field) <= MaxBytes
  /\ h' = hash /\ hashed' = hashed \o field
  /\ UNCHANGED <<fnv, start>>

HashByte(b) == Hashed(<<b>>, fnv_byte1(b, h))

HashInt(i) == Hashed(InMemory(i, 4), fnv_int(i, h))

HashUint32(i) == Hashed(InMemory(i, 4), fnv_uint32_t(i, h))

HashUint64(i) == Hashed(InMemory(i, 8), fnv_uint64_t(i, h))

HashFloat(f) == Hashed(InMemory(f, 4), fnv_float(f, h))

HashNext ==
  \/ \E b \in Byte : HashByte(b)
  \/ \E i \in Signed : HashInt(i)
  \/ \E i \in Uint32 : HashUint32(i) \/ HashFloat(i)
  \/ \E i \in Uint64 : HashUint64(i)

HashSpec == HashInit /\ [][HashNext]_hashVars
-----------------------------------------------------------------------------
(* Properties.                                                               *)

(* fnv_32a_buf and fnv_64a_buf of the fnv library: one step for each byte.   *)
FnvBuf(s) ==
  LET hash[n \in 0 .. Len(s)] ==
        IF n = 0 THEN start ELSE fnv_byte1(s[n], hash[n - 1])
  IN hash[Len(s)]

(* The unrolled functions, chained over the fields of a structure, give what *)
(* the loop of the fnv library gives for the structure in memory.            *)
HashIsFold == h = FnvBuf(hashed)

(* Structures that differ in one byte never have the same hash, wherever the *)
(* byte is: no bit of it is lost on the way.  (So 0.0f and -0.0f, which are  *)
(* equal for a fnKeyComparator that compares floats, hash differently.)      *)
OneByteApart ==
  \A n \in DOMAIN hashed : \A b \in Words(ByteBits) :
    b # hashed[n] => FnvBuf([hashed EXCEPT ![n] = b]) # h
=============================================================================
