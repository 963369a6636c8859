----------------------------- MODULE BlockHash ------------------------------
(***************************************************************************)
(* The bytes a share goes through: bitcoin_util.rs, block.rs, the hash of  *)
(* one nonce in hasher.rs and in shader.metal.                             *)
(*                                                                         *)
(* SHA-256 compression is a free constructor: two hashes are equal only    *)
(* when the same blocks went in.  A byte is <<n>>, a literal, or <<i, s>>, *)
(* byte i of a digest, whose state s its first byte carries alone; a word  *)
(* is WordLen bytes, the most significant first.  Lengths are in bytes     *)
(* where the code has bits.                                                *)
(***************************************************************************)
EXTENDS Integers, Sequences, SequencesExt

CONSTANTS
  Base,           \* the number of values of a byte, 256
  WordLen,        \* bytes of a u32, 4
  DigestWords,    \* words of a digest, 8
  CounterLen      \* bytes of the u64 that counts extranonces, 8

ASSUME BlockHashAssumption ==
  /\ Base \in Nat /\ Base > 1
  /\ WordLen \in Nat \ {0}
  /\ DigestWords \in Nat /\ 2 * DigestWords * WordLen >= 4 * WordLen + 2
  /\ CounterLen \in Nat \ {0}

(* What ^ is, as far as it is used: tlapm does not know.                   *)
ASSUME PowersOfBase ==
  /\ Base ^ 0 = 1
  /\ \A k \in 0 .. DigestWords * WordLen + CounterLen : Base ^ (k + 1) = Base * Base ^ k

DigestLen == DigestWords * WordLen
TailLen   == 4 * WordLen
BlockLen  == 2 * DigestLen

-----------------------------------------------------------------------------
\* Bytes and words
Lit(s) == [i \in DOMAIN s |-> <<s[i]>>]

\* n.to_be_bytes() and n.to_le_bytes() of a number of len bytes.
ToBE(n, len) == [i \in 1 .. len |-> <<(n \div Base ^ (len - i)) % Base>>]
ToLE(n, len) == Reverse(ToBE(n, len))

Words(bytes) ==
  [i \in 1 .. Len(bytes) \div WordLen |->
     SubSeq(bytes, (i - 1) * WordLen + 1, i * WordLen)]

-----------------------------------------------------------------------------
\* SHA-256
IV == <<>>

Sha256Compress(state, block) == <<state, block>>

StateBytes(state) ==
  [i \in 1 .. DigestLen |-> IF i = 1 THEN <<i, state>> ELSE <<i, IV>>]

\* The last block or blocks: the marker 0x80, zeros, the length of the message.
Padded(rest, total) ==
  LET zeros == (-(Len(rest) + 2)) % BlockLen
  IN  rest \o <<<<Base \div 2>>>> \o [i \in 1 .. zeros |-> <<0>>] \o <<<<total>>>>

\* Sha256::digest of the sha2 crate, over a message of any length.
Digest(message) ==
  LET padded == Padded(message, Len(message))
      block(i) == SubSeq(padded, (i - 1) * BlockLen + 1, i * BlockLen)
      last   == Len(padded) \div BlockLen
      state[i \in 0 .. last] ==
        IF i = 0 THEN IV ELSE Sha256Compress(state[i - 1], block(i))
  IN  StateBytes(state[last])

Sha256d(message) == Digest(Digest(message))

-----------------------------------------------------------------------------
(* A pool may ask for more bytes than the counter has: zeros follow it.    *)
BuildCoinbaseTx(coinbase1, extranonce, size, coinbase2) ==
  LET counter == ToLE(extranonce, CounterLen)
      pad     == [i \in 1 .. size - CounterLen |-> <<0>>]
  IN  coinbase1
        \o (IF size > CounterLen THEN counter \o pad ELSE SubSeq(counter, 1, size))
        \o coinbase2

MerkleRoot(coinbaseHash, branches) ==
  LET current[i \in 0 .. Len(branches)] ==
        IF i = 0 THEN coinbaseHash ELSE Sha256d(current[i - 1] \o branches[i])
  IN  current[Len(branches)]

(* The tree that the branches are taken from, level by level: a last hash  *)
(* without a partner is paired with itself.                                *)
NextLevel(level) ==
  [i \in 1 .. (Len(level) + 1) \div 2 |->
     LET left  == level[2 * i - 1]
         right == IF 2 * i <= Len(level) THEN level[2 * i] ELSE left
     IN  Sha256d(left \o right)]

\* The hashes outnumber the levels.
ComputeMerkleRoot(hashes) ==
  LET level[i \in 0 .. Len(hashes)] ==
        IF i = 0 THEN hashes
        ELSE IF Len(level[i - 1]) > 1 THEN NextLevel(level[i - 1])
        ELSE level[i - 1]
  IN  IF hashes = <<>>
        THEN [i \in 1 .. DigestLen |-> <<0>>]
        ELSE level[Len(hashes)][1]

Serialize(h) ==
  ToLE(h.version, WordLen) \o h.prevHash \o h.merkleRoot
    \o ToLE(h.timestamp, WordLen) \o ToLE(h.bits, WordLen) \o ToLE(h.nonce, WordLen)

HeaderLen == BlockLen + TailLen

(* build_header: the header of a template with the given extranonce and    *)
(* nonce 0, serialized.                                                    *)
BuildHeader(t, extranonce) ==
  LET coinbase == BuildCoinbaseTx(t.coinbase1, extranonce, t.extranonceSize, t.coinbase2)
  IN  Serialize([version    |-> t.version,
                 prevHash   |-> t.prevHash,
                 merkleRoot |-> MerkleRoot(Sha256d(coinbase), t.branches),
                 timestamp  |-> t.timestamp,
                 bits       |-> t.bits,
                 nonce      |-> 0])

-----------------------------------------------------------------------------
\* The hash of a header with a nonce, as the program's five ways compute it.
FirstBlock(header) == SubSeq(header, 1, BlockLen)
Tail16(header)     == SubSeq(header, BlockLen + 1, HeaderLen)

WithNonce(header, nonce) ==
  SubSeq(header, 1, HeaderLen - WordLen) \o ToLE(nonce, WordLen)

SimpleHash(header, nonce) == Digest(Digest(WithNonce(header, nonce)))

Midstate(header) == Sha256Compress(IV, FirstBlock(header))

Sha256dFromMidstate(state, tail) ==
  Digest(StateBytes(Sha256Compress(state, Padded(tail, HeaderLen))))

(* hash_range_midstate: block_a holds the tail of the header and block_b   *)
(* the first digest; only the nonce and the digest are written per nonce.  *)
MidstateHash(header, nonce) ==
  LET blockA == Padded(SubSeq(header, BlockLen + 1, HeaderLen - WordLen)
                         \o ToLE(nonce, WordLen), HeaderLen)
      first  == Sha256Compress(Midstate(header), blockA)
      blockB == Padded(StateBytes(first), DigestLen)
  IN  StateBytes(Sha256Compress(IV, blockB))

\* The words main.rs takes from the header, read big-endian.
GpuTail(header) == Words(Tail16(header))

\* Mutant: the nonce is not byte-swapped in the kernel.
NonceWordUnswapped(nonce) == ToBE(nonce, WordLen)

NonceWord(nonce) == Reverse(ToBE(nonce, WordLen))

\* The kernel has a compression function of its own, which takes words.
GpuCompress(state, words) == Sha256Compress(state, FlattenSeq(words))

(* The kernel works on words: w[3] is the nonce in place of the tail's     *)
(* last word, w[4] the marker and w[15] the length.                        *)
GpuHash(header, nonce) ==
  LET tail  == GpuTail(header)
      w     == <<tail[1], tail[2], tail[3], NonceWord(nonce)>>
      Block(words, total) == Words(Padded(FlattenSeq(words), total))
      first == GpuCompress(Midstate(header), Block(w, HeaderLen))
      w2    == Words(StateBytes(first))
  IN  StateBytes(GpuCompress(IV, Block(w2, DigestLen)))
=============================================================================
