------------------------------ MODULE Chunker ------------------------------
(***************************************************************************)
(* The content-defined chunker (crates/chunker/src/lib.rs): where a buffer *)
(* is cut, and the stream that fills the buffer from a file that is read   *)
(* in pieces of any size and may fail.  The rolling hash has HashBits bits *)
(* instead of 64, Gear gives the number of a byte, and a mask is the set   *)
(* of its bits.  ck is one stream.                                         *)
(***************************************************************************)
EXTENDS Integers, Sequences, SequencesExt, FiniteSets, FiniteSetsExt

CONSTANTS
    ChunkJobs,      \* set of [source, min, normal, max, level]
    Gear,           \* byte -> number, the GEAR table
    HashBits,       \* the width of the rolling hash
    MaxReadErrors   \* how often a read may fail

VARIABLE ck

-----------------------------------------------------------------------------
(* The masks: MASKS[n] has n bits, of which none is the highest.             *)
Mask(n) == 0 .. n - 1
Log2(n) == CHOOSE e \in 0 .. n : 2^e <= n /\ n < 2^(e + 1)
MaskS(job) == Mask(Log2(job.normal) + job.level)
MaskL(job) == Mask(Log2(job.normal) - job.level)
Shifted(mask) == {b + 1 : b \in mask} \cap 0 .. HashBits - 1

ZeroHash(fp, mask) == \A b \in mask : (fp \div 2^b) % 2 = 0
GearLs(byte) == (2 * Gear[byte]) % 2^HashBits
Even(n) == n - (n % 2)

(* Two bytes in each turn from the even place n on, up to limit: <<the cut>> *)
(* if there is one, and the hash and the place where the loop ends.          *)
Phase(data, from, limit, hash, mask) ==
    LET turn[n \in 0 .. Len(data) + 1, fp \in 0 .. 2^HashBits - 1] ==
            LET one == (4 * fp + GearLs(data[n + 1])) % 2^HashBits
                two == (one + Gear[data[n + 2]]) % 2^HashBits
            IN  IF n >= limit THEN [cut |-> <<>>, n |-> n, fp |-> fp]
                ELSE IF ZeroHash(one, Shifted(mask)) THEN [cut |-> <<n>>, n |-> n, fp |-> fp]
                ELSE IF ZeroHash(two, mask) THEN [cut |-> <<n + 1>>, n |-> n, fp |-> fp]
                ELSE turn[n + 2, two]
    IN  turn[from, hash]

(* Chunker::cut.                                                             *)
Cut(job, data) ==
    LET max == Min({Len(data), job.max})
        end == Even(max)
        odd == job.min < end /\ job.min % 2 = 1
        hash == IF odd THEN Gear[data[job.min + 1]] % 2^HashBits ELSE 0
        first == Phase(data, IF odd THEN job.min + 1 ELSE Min({job.min, max}), Even(Min({job.normal, max})), hash, MaskS(job))
        second == Phase(data, first.n, end, first.fp, MaskL(job))
    IN  IF Len(data) <= job.min THEN Len(data)
        ELSE IF odd /\ ZeroHash(hash, MaskS(job)) THEN job.min + 1
        ELSE IF first.cut # <<>> THEN first.cut[1]
        ELSE IF second.cut # <<>> THEN second.cut[1]
        ELSE max

-----------------------------------------------------------------------------
(* ChunkStream::next: read until the buffer is full or the source ends.      *)
(* Mutant of Filled: the minimum is enough.                                  *)
FilledMin == Len(ck.buffer) >= ck.job.min

Filled == Len(ck.buffer) >= ck.job.max

ReadSome(n) ==
    /\ ck.stage = "next" /\ ~Filled
    /\ n <= Min({ck.job.max - Len(ck.buffer), Len(ck.job.source) - ck.at})
    /\ ck' = [ck EXCEPT !.at = @ + n, !.buffer = @ \o SubSeq(ck.job.source, ck.at + 1, ck.at + n)]

(* The buffer stays as it is, and next may be called again.                  *)
ReadFails ==
    /\ ck.stage = "next" /\ ~Filled /\ ck.errors < MaxReadErrors
    /\ ck' = [ck EXCEPT !.errors = @ + 1]

(* A chunk of n bytes leaves the buffer.                                     *)
Yields(n) ==
    [ck EXCEPT !.chunks = Append(@, [offset |-> ck.offset, data |-> SubSeq(ck.buffer, 1, n)]),
               !.buffer = SubSeq(@, n + 1, Len(@)), !.offset = @ + n]

Yielded(eof) ==
    IF eof /\ ck.buffer = <<>> THEN [ck EXCEPT !.stage = "done"]
    ELSE IF Len(ck.buffer) >= ck.job.min /\ Cut(ck.job, ck.buffer) > 0 THEN Yields(Cut(ck.job, ck.buffer))
    ELSE IF eof THEN Yields(Len(ck.buffer))
    ELSE [ck EXCEPT !.stage = "done"]

NextChunk ==
    /\ ck.stage = "next"
    /\ \/ Filled /\ ck' = Yielded(FALSE)
       \/ ~Filled /\ ck.at = Len(ck.job.source) /\ ck' = Yielded(TRUE)

ChunkRests == ck.stage = "done" /\ UNCHANGED ck

ChunkStart(job) == [job |-> job, stage |-> "next", at |-> 0, buffer |-> <<>>, offset |-> 0, chunks |-> <<>>, errors |-> 0]
ChunkInit == \E job \in ChunkJobs : ck = ChunkStart(job)
ChunkNext == (\E n \in 1 .. ck.job.max : ReadSome(n)) \/ ReadFails \/ NextChunk \/ ChunkRests
ChunkSpec == ChunkInit /\ [][ChunkNext]_ck

-----------------------------------------------------------------------------
(* Every chunk but the last has at least min_size bytes, and none has more   *)
(* than max_size (Chunker::cut).                                             *)
ChunkSizes ==
    \A i \in DOMAIN ck.chunks :
        /\ Len(ck.chunks[i].data) \in 1 .. ck.job.max
        /\ Len(ck.chunks[i].data) < ck.job.min => ck.chunks[i].offset + Len(ck.chunks[i].data) = Len(ck.job.source)

(* The chunks follow each other and are the file, whatever the reads return  *)
(* and also after one that failed; at the end nothing is left in the buffer. *)
ChunksRebuild ==
    /\ FlattenSeq([i \in DOMAIN ck.chunks |-> ck.chunks[i].data]) \o ck.buffer = SubSeq(ck.job.source, 1, ck.at)
    /\ \A i \in DOMAIN ck.chunks :
           ck.chunks[i].data = SubSeq(ck.job.source, ck.chunks[i].offset + 1, ck.chunks[i].offset + Len(ck.chunks[i].data))
    /\ ck.stage = "done" => ck.buffer = <<>> /\ ck.at = Len(ck.job.source)

(* What the chunks of data are meant to be, byte by byte: the first place at *)
(* or after min where the bits of the hash of the bytes from min on that the *)
(* mask has are 0.  A byte that is judged alone to reach an even place is    *)
(* part of the chunk that it ends, the others begin the next.                *)
HashAt(job, data, n) ==
    FoldLeft(LAMBDA fp, byte : (2 * fp + Gear[byte]) % 2^HashBits, 0, SubSeq(data, job.min + 1, n + 1))
CutMeans(job, data) ==
    LET max == Min({Len(data), job.max})
        mask(n) == IF n < Even(Min({job.normal, max})) \/ (n = job.min /\ n % 2 = 1) THEN MaskS(job) ELSE MaskL(job)
        found == {n \in job.min .. Even(max) - 1 : ZeroHash(HashAt(job, data, n), mask(n))}
    IN  IF Len(data) <= job.min THEN Len(data)
        ELSE IF found = {} THEN max
        ELSE IF Min(found) = job.min /\ job.min % 2 = 1 THEN job.min + 1 ELSE Min(found)
CutsOf(job) ==
    LET from[at \in 0 .. Len(job.source)] ==
            IF at = Len(job.source) THEN {}
            ELSE LET n == CutMeans(job, SubSeq(job.source, at + 1, Min({at + job.max, Len(job.source)})))
                 IN  {at + n} \cup from[at + n]
    IN  from[0]

(* The chunks of a file depend on its bytes alone, not on how it was read:   *)
(* otherwise the same file would be stored again with every backup.  The     *)
(* loop that takes two bytes in a turn finds the places that one byte at a   *)
(* time finds.                                                               *)
CutsStable ==
    {ck.chunks[i].offset + Len(ck.chunks[i].data) : i \in DOMAIN ck.chunks} = {n \in CutsOf(ck.job) : n <= ck.offset}

(* Chunker, ChunkStream: the chunks are the file, in sizes within their      *)
(* bounds, and their ends depend on its bytes alone, not on how it was read. *)
ChunksRight == ChunkSizes /\ ChunksRebuild /\ CutsStable
=============================================================================
