-------------------------------- MODULE Mask --------------------------------
(***************************************************************************)
(* frame.mask (src/frame.zig) as it is used for one frame: the sender      *)
(* masks the payload chunk by chunk, the receiver, built for a machine     *)
(* whose words may have another size and cutting the payload into other    *)
(* chunks, unmasks it.  A call is a sequence of steps, one word or one     *)
(* tail byte each.                                                         *)
(*                                                                         *)
(* XOR is the only operation on the bytes, so a byte is represented by the *)
(* set of masking-key bytes that were XORed into it an odd number of       *)
(* times: {} is the application's byte, and key byte k toggles k.          *)
(***************************************************************************)
EXTENDS Integers

CONSTANTS PayloadLen,  \* bytes in the payload
          WordSizes    \* @sizeOf(Word) of the builds: 8, or 4 below 64 bits

MaskingKeyLen == 4

\* "The wide word must be a multiple of the four-byte masking key."
ASSUME MaskAssumption ==
    /\ PayloadLen \in Nat
    /\ WordSizes \subseteq Nat \ {0}
    /\ \A w \in WordSizes : w % MaskingKeyLen = 0

KeyByte == 0..(MaskingKeyLen - 1)

VARIABLES payload,    \* the payload's bytes
          pass,       \* "mask" at the sender, then "unmask" at the receiver
          word_size,  \* of the running side
          pos,        \* the pos of the running call: where its buf starts
          buf_len,    \* buf.len of the running call, or Idle
          i           \* the index of mask's loops

mask_vars == <<payload, pass, word_size, pos, buf_len, i>>

Idle == -1

MaskInit ==
    /\ payload = [b \in 0..(PayloadLen - 1) |-> {}]
    /\ pass = "mask" /\ word_size \in WordSizes
    /\ pos = 0 /\ buf_len = Idle /\ i = 0

\* The next chunk of the payload is handed to mask.
Call ==
    /\ buf_len = Idle
    /\ buf_len' \in 0..(PayloadLen - pos)
    /\ i' = 0
    /\ UNCHANGED <<payload, pass, word_size, pos>>

UnrotatedKey(k) == k % MaskingKeyLen

\* key[k], the masking key rotated to the call's position.
key(k) == ((pos % MaskingKeyLen) + k) % MaskingKeyLen

wide_key(j) == key(j % MaskingKeyLen)

Xor(byte, k) == IF k \in byte THEN byte \ {k} ELSE byte \cup {k}

WordMayFit == buf_len - i >= MaskingKeyLen

WordFits == buf_len - i >= word_size

\* One turn of the word loop: buf[i..i+word_size] ^= wide_key.
MaskWord ==
    /\ buf_len # Idle /\ WordFits
    /\ payload' = [b \in 0..(PayloadLen - 1) |->
                     IF b \in (pos + i)..(pos + i + word_size - 1)
                     THEN Xor(payload[b], wide_key(b - (pos + i)))
                     ELSE payload[b]]
    /\ i' = i + word_size
    /\ UNCHANGED <<pass, word_size, pos, buf_len>>

\* One turn of the tail loop: buf[i] ^= key[i % 4].
MaskTail ==
    /\ buf_len # Idle /\ ~WordFits /\ i < buf_len
    /\ payload' = [payload EXCEPT ![pos + i] = Xor(@, key(i % MaskingKeyLen))]
    /\ i' = i + 1
    /\ UNCHANGED <<pass, word_size, pos, buf_len>>

\* mask returns, and the caller's payload offset moves past the chunk.
Return ==
    /\ buf_len # Idle /\ i = buf_len
    /\ pos' = pos + buf_len
    /\ buf_len' = Idle /\ i' = 0
    /\ UNCHANGED <<payload, pass, word_size>>

\* The masked payload has left; the receiver starts at its first byte.
Deliver ==
    /\ pass = "mask" /\ buf_len = Idle /\ pos = PayloadLen
    /\ pass' = "unmask" /\ word_size' \in WordSizes
    /\ pos' = 0
    /\ UNCHANGED <<payload, buf_len, i>>

MaskNext == Call \/ MaskWord \/ MaskTail \/ Return \/ Deliver

MaskSpec == MaskInit /\ [][MaskNext]_mask_vars

----------------------------------------------------------------------------

MaskTypeOK ==
    /\ payload \in [0..(PayloadLen - 1) -> SUBSET KeyByte]
    /\ pass \in {"mask", "unmask"} /\ word_size \in WordSizes
    /\ pos \in 0..PayloadLen /\ buf_len \in 0..(PayloadLen - pos) \cup {Idle}
    /\ i \in 0..PayloadLen
    /\ (buf_len # Idle => i <= buf_len) /\ (buf_len = Idle => i = 0)

\* RFC 6455's octet b of a payload is masked with key octet b MOD 4.
Masked(b) == {b % MaskingKeyLen}

\* However the payload is cut into calls of mask, and whether a byte is
\* reached by the word loop or by the tail loop, the sender leaves every byte
\* XORed with the key byte of its place in the payload, and the receiver's
\* calls, cut elsewhere and with another word size, take exactly that off.
EveryByteInPlace ==
    \A b \in 0..(PayloadLen - 1) :
        payload[b] = IF (b < pos + i) <=> (pass = "mask") THEN Masked(b) ELSE {}

\* mask writes no byte outside the buf it was given.
OnlyTheBuffer ==
    [][\A b \in 0..(PayloadLen - 1) :
         payload'[b] # payload[b] => b \in pos..(pos + buf_len - 1)]_mask_vars
=============================================================================
