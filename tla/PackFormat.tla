----------------------------- MODULE PackFormat -----------------------------
(***************************************************************************)
(* The layout of a pack (repository/packer.rs, Packer) and of what is      *)
(* encoded in it (repository/storage.rs): blobs one after the other, an    *)
(* encrypted footer that has their IDs and lengths, and the footer's       *)
(* length.  A file is a sequence of cells; an ID, a number, a nonce and a  *)
(* tag take one cell each.  pk is one packer that is used again and again, *)
(* and the last file it made.                                              *)
(***************************************************************************)
EXTENDS Integers, Sequences, SequencesExt, FiniteSets

CONSTANTS
    PackJobs,        \* sequences of [id, length, raw]: blobs to be packed
    PackFull,        \* max_packer_size
    FooterMultiple,  \* FOOTER_BLOB_MULTIPLE
    Width            \* 2^Width - 1 is the largest length or offset (u32)

VARIABLE pk

U32Max == 2^Width - 1
Key == 1
Cell(kind, a, b) == <<kind, a, b>>
Damage == Cell("damage", 0, 0)
Error == [ok |-> FALSE, value |-> <<>>]
Value(v) == [ok |-> TRUE, value |-> v]

-----------------------------------------------------------------------------
(* SecureStorage.  zstd and AES-GCM-SIV are known by what undoes them: a     *)
(* frame says how much it holds, and a tag fits one key, nonce and text.     *)
Compress(data) == <<Cell("frame", Len(data), 0)>> \o data
Decompress(data) ==
    IF data # <<>> /\ Head(data)[1] = "frame" /\ Head(data)[2] = Len(data) - 1 THEN Value(Tail(data)) ELSE Error

Encrypt(key, nonce, data) ==
    <<Cell("nonce", nonce, 0)>>
    \o [i \in 1 .. Len(data) |-> Cell("text", <<key, nonce>>, data[i])]
    \o <<Cell("tag", <<key, nonce>>, data)>>

Decrypt(key, data) ==
    IF Len(data) < 2 \/ data[1][1] # "nonce" \/ \E i \in 2 .. Len(data) - 1 : data[i][1] # "text" THEN Error
    ELSE LET text == [i \in 1 .. Len(data) - 2 |-> data[i + 1][3]]
         IN  IF data = Encrypt(key, data[1][2], text) THEN Value(text) ELSE Error

Encode(nonce, data) == Encrypt(Key, nonce, Compress(data))
Decode(data) == LET text == Decrypt(Key, data) IN IF text.ok THEN Decompress(text.value) ELSE Error

-----------------------------------------------------------------------------
(* Packer.                                                                   *)
EmptyPacker == [buffer |-> <<>>, descriptors |-> <<>>, raw |-> 0]
PackBlobCells(blob) == [i \in 1 .. blob.length |-> Cell("blob", blob.id, i)]

(* Mutant of Fits: only the length.                                          *)
FitsLength(packer, blob) == blob.length <= U32Max /\ blob.raw <= U32Max

Fits(packer, blob) == Len(packer.buffer) <= U32Max /\ blob.length <= U32Max /\ blob.raw <= U32Max

AddTo(packer, blob) ==
    [buffer |-> packer.buffer \o PackBlobCells(blob), raw |-> packer.raw + blob.raw,
     descriptors |-> Append(packer.descriptors,
        [id |-> blob.id, type |-> blob.type, offset |-> Len(packer.buffer) % 2^Width, length |-> blob.length, raw |-> blob.raw])]

(* generate_footer: entries that mean nothing fill the footer up.            *)
Padding == [id |-> 0, type |-> "padding", offset |-> 1, length |-> 1, raw |-> 1]
Padded(descriptors) ==
    LET over == Len(descriptors) % FooterMultiple
    IN  IF over = 0 THEN descriptors ELSE descriptors \o [i \in 1 .. FooterMultiple - over |-> Padding]
EntryCells(d) == <<Cell("id", d.id, 0), Cell(d.type, 0, 0), Cell("u32", d.length, 0), Cell("u32", d.raw, 0)>>
FooterCells(descriptors) == FlattenSeq([i \in DOMAIN descriptors |-> EntryCells(descriptors[i])])

(* finalize_and_extract.                                                     *)
Finalized(packer, nonce) ==
    LET descriptors == Padded(packer.descriptors)
        footer == Encode(nonce, FooterCells(descriptors))
    IN  [data |-> packer.buffer \o footer \o <<Cell("u32", Len(footer), 0)>>, descriptors |-> descriptors,
         raw |-> packer.raw, meta |-> Len(footer) + 1]

(* resolve_read_offset and read of a backend: from the end, as far as it     *)
(* goes.                                                                     *)
ReadEnd(data, n) ==
    LET start == IF n > Len(data) THEN 0 ELSE Len(data) - n
    IN  SubSeq(data, start + 1, Len(data))

(* A number is read from whatever the cell holds.                            *)
Number(cell, guess) == IF cell[1] = "u32" THEN cell[2] ELSE guess

FooterEntries(cells) == [i \in 1 .. Len(cells) \div 4 |-> SubSeq(cells, 4 * i - 3, 4 * i)]

(* The offsets are not stored: blobs follow each other.                      *)
ParseEntries(cells) ==
    FoldLeft(LAMBDA acc, e :
               LET d == [id |-> e[1][2], type |-> e[2][1], offset |-> acc.offset, length |-> e[3][2], raw |-> e[4][2]]
               IN  IF d.type = "padding" THEN acc
                   ELSE [offset |-> (acc.offset + d.length) % 2^Width, list |-> Append(acc.list, d)],
             [offset |-> 0, list |-> <<>>], FooterEntries(cells)).list

ParseFooter(data, guess) ==
    IF data = <<>> THEN Error
    ELSE LET n == Number(Last(data), guess)
         IN  IF n + 1 > Len(data) THEN Error
             ELSE LET footer == Decode(SubSeq(data, Len(data) - n, Len(data) - 1))
                  IN  CASE ~footer.ok -> Error
                        [] footer.ok /\ Len(footer.value) % 4 # 0 -> Error
                        [] OTHER -> Value(ParseEntries(footer.value))

ParsePackFooter(data, guess) ==
    LET trailer == ReadEnd(data, 1)
    IN  IF trailer = <<>> THEN Error ELSE ParseFooter(ReadEnd(data, 1 + Number(trailer[1], guess)), guess)

-----------------------------------------------------------------------------
NoStats == [raw |-> 0, encoded |-> 0, metaRaw |-> 0, metaEncoded |-> 0]

(* update_stats: a footer, and all of a pack of trees, is metadata.          *)
Counted(stats, type, pack) ==
    IF type = "data"
    THEN [raw |-> stats.raw + pack.raw, encoded |-> stats.encoded + Len(pack.data) - pack.meta,
          metaRaw |-> stats.metaRaw + pack.meta, metaEncoded |-> stats.metaEncoded + pack.meta]
    ELSE [stats EXCEPT !.metaRaw = @ + pack.raw + pack.meta, !.metaEncoded = @ + Len(pack.data)]

NoPack == [data |-> <<>>, descriptors |-> <<>>, raw |-> 0, meta |-> 0]

(* add_blob.                                                                 *)
PackBlob ==
    /\ pk.stage = "pack" /\ pk.waiting # <<>> /\ Len(pk.packer.buffer) < PackFull
    /\ \E blob \in {Head(pk.waiting)} :
         pk' = IF Fits(pk.packer, blob)
               THEN [pk EXCEPT !.packer = AddTo(@, blob), !.waiting = Tail(@), !.held = Append(@, blob)]
               ELSE [pk EXCEPT !.stage = "error"]

PackFinalize ==
    /\ pk.stage = "pack" /\ pk.packer.buffer # <<>> /\ (pk.waiting = <<>> \/ Len(pk.packer.buffer) >= PackFull)
    /\ \E pack \in {Finalized(pk.packer, pk.nonce)} :
         pk' = [pk EXCEPT !.stage = "saved", !.pack = pack, !.file = pack.data, !.nonce = @ + 1,
                          !.packer = EmptyPacker, !.stats = Counted(@, pk.type, pack)]

(* recycle_buffer.                                                           *)
RecycleBuffer ==
    /\ pk.stage \in {"saved", "parsed"} /\ pk.waiting # <<>>
    /\ pk' = [pk EXCEPT !.stage = "pack", !.packer = EmptyPacker, !.held = <<>>, !.damaged = FALSE, !.parsed = Error]

(* The file on the disk is cut short, or a cell of it is lost.               *)
PackDamaged ==
    /\ pk.stage = "saved" /\ ~pk.damaged
    /\ \E i \in DOMAIN pk.file :
         \/ pk' = [pk EXCEPT !.file = SubSeq(@, 1, i - 1), !.damaged = TRUE]
         \/ pk' = [pk EXCEPT !.file = [@ EXCEPT ![i] = Damage], !.damaged = TRUE]

PackParsed ==
    /\ pk.stage = "saved"
    /\ \E guess \in 0 .. 2 * FooterMultiple :
         pk' = [pk EXCEPT !.stage = "parsed", !.parsed = ParsePackFooter(pk.file, guess)]

PackRests ==
    /\ pk.stage = "error" \/ (pk.stage = "parsed" /\ pk.waiting = <<>>)
    /\ UNCHANGED pk

PackNext == PackBlob \/ PackFinalize \/ RecycleBuffer \/ PackDamaged \/ PackParsed \/ PackRests
PackStart(job, type) ==
    LET blobs == [i \in DOMAIN job |-> [id |-> job[i].id, type |-> type, length |-> job[i].length,
                                       raw |-> job[i].raw]]
    IN  [stage |-> "pack", type |-> type, waiting |-> blobs, held |-> <<>>, packer |-> EmptyPacker,
         pack |-> NoPack, file |-> <<>>, nonce |-> 1, damaged |-> FALSE, parsed |-> Error,
         stats |-> NoStats, all |-> blobs]
PackInit == \E job \in PackJobs, type \in {"data", "tree"} : pk = PackStart(job, type)
PackSpec == PackInit /\ [][PackNext]_pk

-----------------------------------------------------------------------------
(* What a footer says of a pack is true: it lists the blobs that were packed *)
(* in their order, and each of them is where its offset and length say       *)
(* (finalize_and_extract, parse_pack_footer), also next to the largest       *)
(* offset there is.                                                          *)
FooterFaithful ==
    pk.stage = "parsed" /\ ~pk.damaged =>
      /\ pk.parsed.ok
      /\ [i \in DOMAIN pk.parsed.value |-> pk.parsed.value[i].id] = [i \in DOMAIN pk.held |-> pk.held[i].id]
      /\ \A i \in DOMAIN pk.held :
           LET d == pk.parsed.value[i]
           IN  SubSeq(pk.file, d.offset + 1, d.offset + d.length) = PackBlobCells(pk.held[i]) /\ d.raw = pk.held[i].raw

(* The offsets that go to the index are those that a later rebuild of the    *)
(* index reads from the footer (add_pack, parse_footer).                     *)
IndexAgrees ==
    pk.stage = "parsed" /\ pk.parsed.ok =>
      pk.parsed.value = SelectSeq(pk.pack.descriptors, LAMBDA d : d.type # "padding")

(* A damaged footer is an error, never another list of blobs; the footer has *)
(* its own tag (decode).                                                     *)
DamageNoticed ==
    pk.stage = "parsed" /\ pk.parsed.ok =>
      SubSeq(pk.file, Len(pk.file) - pk.pack.meta + 1, Len(pk.file))
        = SubSeq(pk.pack.data, Len(pk.pack.data) - pk.pack.meta + 1, Len(pk.pack.data))

(* The sizes that a snapshot reports add up over all packs (update_stats):   *)
(* raw bytes and encoded bytes of the blobs, with the footers apart.         *)
SumOf(blobs, f(_)) == FoldLeft(LAMBDA acc, b : acc + f(b), 0, blobs)
StatsExact ==
    LET packed == SubSeq(pk.all, 1, Len(pk.all) - Len(pk.waiting) - (IF pk.stage \in {"pack", "error"} THEN Len(pk.held) ELSE 0))
        raw == SumOf(packed, LAMBDA b : b.raw)
        encoded == SumOf(packed, LAMBDA b : b.length)
    IN  IF pk.type = "data"
        THEN pk.stats.raw = raw /\ pk.stats.encoded = encoded /\ pk.stats.metaRaw = pk.stats.metaEncoded
        ELSE pk.stats.raw = 0 /\ pk.stats.metaRaw - raw = pk.stats.metaEncoded - encoded

(* Packer, parse_pack_footer: what is read back from a pack is what was      *)
(* packed, at the offsets that went to the index, damage is an error, and    *)
(* the sizes counted are those written.                                      *)
PacksReadable ==
    /\ FooterFaithful
    /\ IndexAgrees
    /\ DamageNoticed
    /\ StatsExact
=============================================================================
