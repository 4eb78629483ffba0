-------------------------------- MODULE Sha1 --------------------------------
(***************************************************************************)
(* hadoken::sha1 (crypto/sha/sha1.hpp): the blocks it compresses.  The     *)
(* compression is arithmetic on the digest and one block, so the digest is *)
(* represented by the blocks that went into it.                            *)
(*                                                                         *)
(* Contract: once a digest has been taken nothing more is processed, and   *)
(* the object is not reset, since reset() leaves the completed flag set.   *)
(***************************************************************************)
EXTENDS Integers, Sequences, SequencesExt

BlockSize == 64
Unwritten == -1

\* reset(): the flag and the bytes of the block stay as they are.
Reset(h) == [h EXCEPT !.m_digest = <<>>, !.m_blockByteIndex = 0, !.m_byteCount = 0]

Fresh ==
  Reset([m_digest |-> <<>>, m_block |-> [i \in 1..BlockSize |-> Unwritten],
         m_blockByteIndex |-> 0, m_byteCount |-> 0, completed |-> FALSE])

\* process_byte, with process_internal for a full block.
ProcessByte(h, b) ==
  LET block == [h.m_block EXCEPT ![h.m_blockByteIndex + 1] = b]
      full == h.m_blockByteIndex + 1 = BlockSize
  IN  [h EXCEPT !.m_block = block,
                !.m_byteCount = @ + 1,
                !.m_blockByteIndex = IF full THEN 0 ELSE @ + 1,
                !.m_digest = IF full THEN Append(@, block) ELSE @]

\* process_block, and process of an integer: its bytes, the highest first.
ProcessBlock(h, bytes) ==
  LET after[n \in 0..Len(bytes)] == IF n = 0 THEN h ELSE ProcessByte(after[n - 1], bytes[n])
  IN  after[Len(bytes)]

Zeros(n) == [i \in 1..n |-> 0]
BigEndian(value) ==
  <<(value \div 16777216) % 256, (value \div 65536) % 256, (value \div 256) % 256, value % 256>>

\* A padding that takes 57 bytes of a block to leave room for the length.
FinalizeLate(h) ==
  LET terminated == ProcessByte(h, 128)
      index == terminated.m_blockByteIndex
      padding == IF index > 57 THEN BlockSize - index + 56
                 ELSE IF index = 57 THEN 0 ELSE 56 - index
  IN  IF h.completed THEN h
      ELSE [ProcessBlock(terminated, Zeros(padding + 4) \o BigEndian(h.m_byteCount * 8))
              EXCEPT !.completed = TRUE]

\* finalize(): only 32 bits of the length are written.
Finalize(h) ==
  LET terminated == ProcessByte(h, 128)
      index == terminated.m_blockByteIndex
      padding == IF index > 56 THEN BlockSize - index + 56 ELSE 56 - index
  IN  IF h.completed THEN h
      ELSE [ProcessBlock(terminated, Zeros(padding + 4) \o BigEndian(h.m_byteCount * 8))
              EXCEPT !.completed = TRUE]

GetDigest(h) == Finalize(h).m_digest

\* generate_deterministic_seed_160 (random/impl/random_derivate_impl.hpp), of
\* numbers of 32 bits.
Salt == <<108, 119, 173, 184, 62, 248, 33, 97, 195, 216, 46, 76, 19, 253, 117, 211>>
GenerateDeterministicSeed(origin_seed, key) ==
  LET salted == ProcessBlock(Fresh, Salt)
  IN  GetDigest(ProcessBlock(ProcessBlock(salted, BigEndian(key)), BigEndian(origin_seed)))
=============================================================================
