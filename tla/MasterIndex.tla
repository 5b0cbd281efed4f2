---------------------------- MODULE MasterIndex ----------------------------
(***************************************************************************)
(* The index in memory (repository/index.rs): a list of Index values, each *)
(* with a map for data blobs and one for trees, with Bloom filters in      *)
(* front of them; the blobs that wait for a pack; the index files.  Packs  *)
(* are added, an index that is full or old is written while others go on,  *)
(* the collector merges the list and replaces the files, and a process     *)
(* that dies leaves the files to the next.  mi.known is what has to be     *)
(* found, and mi.look one lookup that is under way.                        *)
(***************************************************************************)
EXTENDS Integers, Sequences, SequencesExt, FiniteSets, FiniteSetsExt, TLC

CONSTANTS
    IndexPacks,     \* pack ID -> sequence of [id, type, offset]
    BlobsPerIndex,  \* blobs_per_index_file
    LookIds,        \* the blobs that are looked up while packs are added
    MaxRounds,      \* at most so many merges and reloads
    Halves          \* an ID is h1 + Halves * h2, the two halves get_hashes takes of it

VARIABLE mi

BlobIds == UNION {{d.id : d \in ToSet(IndexPacks[p])} : p \in DOMAIN IndexPacks}

-----------------------------------------------------------------------------
(* utils/collections/bloom_filter.rs, with a false positive rate of 1%:      *)
(* -ln 0.01 / (ln 2)^2 is 9.585 and ln 2 is 0.693.                           *)
NewFilter(items) ==
    LET n == Max({items, 1})
        least == (9585 * n + 999) \div 1000
        m == CHOOSE p \in {2 ^ e : e \in 0 .. 10} : p >= least /\ p \div 2 < least
    IN  [size |-> m, hashes |-> (693 * m + 1000 * n - 1) \div (1000 * n), bits |-> {}]

BitsOf(filter, id) ==
    {((id % Halves) + i * (id \div Halves)) % filter.size : i \in 0 .. filter.hashes - 1}
FilterInsert(filter, id) == [filter EXCEPT !.bits = @ \cup BitsOf(filter, id)]
FilterContains(filter, id) == BitsOf(filter, id) \subseteq filter.bits
FilterOf(items, ids) == FoldSet(LAMBDA id, filter : FilterInsert(filter, id), NewFilter(items), ids)

-----------------------------------------------------------------------------
(* BlobMap: a function while it grows, a sorted sequence and a filter once   *)
(* it is frozen.                                                             *)
Mutable(map) == [frozen |-> FALSE, map |-> map]
Immutable(vec) == [frozen |-> TRUE, vec |-> vec, filter |-> FilterOf(Len(vec), {e[1] : e \in ToSet(vec)})]
ById(entries) == SetToSortSeq(entries, LAMBDA x, y : x[1] < y[1])

(* slice::binary_search_by_key: 0 when it is not there.                      *)
Search(vec, id) ==
    LET at[lo \in 1 .. Len(vec) + 1, hi \in 0 .. Len(vec)] ==
            LET mid == (lo + hi) \div 2
            IN  IF lo > hi THEN 0
                ELSE IF vec[mid][1] = id THEN mid
                ELSE IF vec[mid][1] < id THEN at[mid + 1, hi] ELSE at[lo, mid - 1]
    IN  at[1, Len(vec)]

EntriesOf(map) == IF map.frozen THEN ToSet(map.vec) ELSE {<<id, map.map[id]>> : id \in DOMAIN map.map}
MapGet(map, id) ==
    IF ~map.frozen THEN IF id \in DOMAIN map.map THEN <<map.map[id]>> ELSE <<>>
    ELSE LET at == Search(map.vec, id)
         IN  IF FilterContains(map.filter, id) /\ at # 0 THEN <<map.vec[at][2]>> ELSE <<>>
MapInsert(map, id, loc) == IF map.frozen THEN map ELSE Mutable((id :> loc) @@ map.map)

-----------------------------------------------------------------------------
(* Index.  pack_ids is an IndexSet: a location has the place of its pack.    *)
NewIndex(instance) ==
    [instance |-> instance, data |-> Mutable(<<>>), tree |-> Mutable(<<>>), packs |-> <<>>,
     status |-> "pending", file |-> <<>>]

PackPlace(packs, pack) == IF Contains(packs, pack) THEN CHOOSE i \in DOMAIN packs : packs[i] = pack ELSE Len(packs) + 1
PackInsert(packs, pack) == IF Contains(packs, pack) THEN packs ELSE Append(packs, pack)

NumBlobs(index) == Cardinality(EntriesOf(index.data)) + Cardinality(EntriesOf(index.tree))
IsFull(index) == NumBlobs(index) >= BlobsPerIndex

IndexContains(index, id) == MapGet(index.data, id) # <<>> \/ MapGet(index.tree, id) # <<>>

ResolveLocation(index, loc, type) == [pack |-> index.packs[loc.pack], offset |-> loc.offset, type |-> type]
IndexGet(index, id) ==
    LET data == MapGet(index.data, id) tree == MapGet(index.tree, id)
    IN  IF data # <<>> THEN <<ResolveLocation(index, data[1], "data")>>
        ELSE IF tree # <<>> THEN <<ResolveLocation(index, tree[1], "tree")>> ELSE <<>>
IterIds(index) ==
    {<<e[1], ResolveLocation(index, e[2], "data")>> : e \in EntriesOf(index.data)}
    \cup {<<e[1], ResolveLocation(index, e[2], "tree")>> : e \in EntriesOf(index.tree)}

(* Index::add_pack.                                                          *)
AddPackTo(index, pack, descriptors) ==
    LET place == PackPlace(index.packs, pack)
        put(map, d) == MapInsert(map, d.id, [pack |-> place, offset |-> d.offset])
        one(i, d) == IF d.type = "data" THEN [i EXCEPT !.data = put(@, d)]
                     ELSE IF d.type = "tree" THEN [i EXCEPT !.tree = put(@, d)] ELSE i
    IN  FoldLeft(one, [index EXCEPT !.packs = PackInsert(@, pack)], descriptors)

(* Index::get_pack_descriptors: the packs that are kept, and what is in them.*)
Described(index, obsolete) ==
    {<<e[2].pack, [id |-> e[1], type |-> e[2].type, offset |-> e[2].offset]>> :
        e \in {x \in IterIds(index) : x[2].pack \notin obsolete}}

(* What Index::persist writes: the packs by ID, their blobs by ID.  The file *)
(* is named by its contents, so its contents stand for its name.             *)
FileOf(index) ==
    LET found == Described(index, {})
        blobs(p) == SetToSortSeq({e[2] : e \in {x \in found : x[1] = p}}, LAMBDA x, y : x.id < y.id)
        packs == SetToSortSeq({e[1] : e \in found}, <)
    IN  [i \in 1 .. Len(packs) |-> [id |-> packs[i], blobs |-> blobs(packs[i])]]

(* Index::from_index_file.                                                   *)
FromIndexFile(file, instance) ==
    LET packs == [i \in 1 .. Len(file) |-> file[i].id]
        entries(type) == UNION {{<<b.id, [pack |-> i, offset |-> b.offset]>> :
                                    b \in {x \in ToSet(file[i].blobs) : x.type = type}} : i \in 1 .. Len(file)}
    IN  [instance |-> instance, data |-> Immutable(ById(entries("data"))), tree |-> Immutable(ById(entries("tree"))),
         packs |-> packs, status |-> "persisted", file |-> <<file>>]

-----------------------------------------------------------------------------
(* MasterIndex.                                                              *)
InIndices(state, id) ==
    /\ state.bloom # <<>> => FilterContains(state.bloom[1], id)
    /\ \E i \in DOMAIN state.indices : IndexContains(state.indices[i], id)
HasBlob(id) == id \in mi.pending \/ InIndices(mi, id)

LastIn(seq, places) == IF places = {} THEN <<>> ELSE <<seq[Max(places)]>>
GetBlob(id) ==
    LET index == LastIn(mi.indices, {i \in DOMAIN mi.indices : IndexGet(mi.indices[i], id) # <<>>})
    IN  IF index = <<>> THEN <<>> ELSE IndexGet(index[1], id)
GetData(id) ==
    LET index == LastIn(mi.indices, {i \in DOMAIN mi.indices : MapGet(mi.indices[i].data, id) # <<>>})
    IN  IF index = <<>> THEN <<>> ELSE <<ResolveLocation(index[1], MapGet(index[1].data, id)[1], "data")>>
GetTree(id) ==
    LET index == LastIn(mi.indices, {i \in DOMAIN mi.indices : MapGet(mi.indices[i].tree, id) # <<>>})
    IN  IF index = <<>> THEN <<>> ELSE <<ResolveLocation(index[1], MapGet(index[1].tree, id)[1], "tree")>>

ForEachId(indices) == UNION {IterIds(indices[i]) : i \in DOMAIN indices}
IdsOfIndices == {mi.indices[i].file[1] : i \in {j \in DOMAIN mi.indices : mi.indices[j].status = "persisted"}}
NextInstance(indices) == 1 + Max({0} \cup {indices[i].instance : i \in DOMAIN indices})
InFiles(files) == UNION {{b.id : b \in UNION {ToSet(f[i].blobs) : i \in DOMAIN f}} : f \in files}

(* merge_index: every pack that is kept, by ID, into new indices.            *)
MergeIndex(indices, obsolete) ==
    LET found == UNION {Described(indices[i], obsolete) : i \in DOMAIN indices}
        packs == SetToSortSeq({e[1] : e \in found}, <)
        blobs(p) == SetToSortSeq({e[2] : e \in {x \in found : x[1] = p}}, LAMBDA x, y : x.offset < y.offset)
        one(acc, p) ==
            LET index == AddPackTo(acc.current, p, blobs(p))
            IN  IF IsFull(index)
                THEN [done |-> Append(acc.done, [index EXCEPT !.status = "finalized"]),
                      current |-> NewIndex(index.instance + 1)]
                ELSE [acc EXCEPT !.current = index]
        all == FoldLeft(one, [done |-> <<>>, current |-> NewIndex(1)], packs)
    IN  all.done \o (IF NumBlobs(all.current) = 0 THEN <<>> ELSE <<all.current>>)

-----------------------------------------------------------------------------
NoLook == [kind |-> "none", id |-> 0, at |-> "done", owed |-> FALSE, missed |-> FALSE]

IndexInit ==
    mi = [indices |-> <<>>, bloom |-> <<>>, pending |-> {}, files |-> {}, saving |-> {}, old |-> <<>>,
          added |-> {}, rounds |-> 0, known |-> {}, look |-> NoLook]

BloomAfter(descriptors) ==
    IF mi.bloom = <<>> THEN <<>>
    ELSE <<FoldLeft(LAMBDA filter, d : FilterInsert(filter, d.id), mi.bloom[1], descriptors)>>

MasterAddPack(p, timedOut) ==
    /\ p \notin mi.added
    /\ LET descriptors == IndexPacks[p]
           indices == IF \E i \in DOMAIN mi.indices : mi.indices[i].status = "pending" THEN mi.indices
                      ELSE Append(mi.indices, NewIndex(NextInstance(mi.indices)))
           at == Min({i \in DOMAIN indices : indices[i].status = "pending"})
           index == AddPackTo(indices[at], p, descriptors)
           save == IsFull(index) \/ timedOut
       IN  mi' = [mi EXCEPT
               !.pending = @ \ {d.id : d \in ToSet(descriptors)},
               !.bloom = BloomAfter(descriptors),
               !.indices = [indices EXCEPT ![at] = IF save THEN [index EXCEPT !.status = "finalized"] ELSE index],
               !.saving = IF save THEN @ \cup {index.instance} ELSE @,
               !.added = @ \cup {p},
               !.known = @ \cup {d.id : d \in {x \in ToSet(descriptors) : x.type # "padding"}}]

(* The rest of add_pack, and of each turn of persist: the file is written    *)
(* and the entry of the list hears of it.  An index without blobs is not.    *)
IndexSaved(instance) ==
    /\ instance \in mi.saving
    /\ LET at == CHOOSE i \in DOMAIN mi.indices : mi.indices[i].instance = instance
           index == mi.indices[at]
       IN  mi' = IF NumBlobs(index) = 0 THEN [mi EXCEPT !.saving = @ \ {instance}]
                 ELSE [mi EXCEPT !.saving = @ \ {instance}, !.files = @ \cup {FileOf(index)},
                                 !.indices[at].status = "persisted", !.indices[at].file = <<FileOf(index)>>]

(* The write fails, and the index stays for a later persist.                 *)
IndexNotSaved(instance) ==
    /\ instance \in mi.saving
    /\ mi' = [mi EXCEPT !.saving = @ \ {instance}]

(* persist, up to the end of its lock.                                       *)
ToPersist(index) == index.status # "persisted" /\ NumBlobs(index) # 0
PersistIndices ==
    /\ mi.saving = {}
    /\ \E i \in DOMAIN mi.indices : ToPersist(mi.indices[i])
    /\ mi' = [mi EXCEPT
           !.indices = [i \in DOMAIN @ |-> IF ToPersist(@[i]) THEN [@[i] EXCEPT !.status = "finalized"] ELSE @[i]],
           !.saving = {mi.indices[i].instance : i \in {j \in DOMAIN mi.indices : ToPersist(mi.indices[j])}}]

(* cleanup, of which the plan has remembered the index files before.         *)
Cleanup(obsolete) ==
    /\ mi.rounds < MaxRounds
    /\ mi.look.at = "done"
    /\ mi.saving = {}
    /\ mi' = [mi EXCEPT
           !.rounds = @ + 1,
           !.indices = MergeIndex(@, obsolete),
           !.old = IF @ = <<>> THEN <<IdsOfIndices>> ELSE @,
           !.known = {id \in @ : \E e \in ForEachId(mi.indices) : e[1] = id /\ e[2].pack \notin obsolete}]

Superseded == mi.old[1] \ IdsOfIndices
DeleteOldIndices ==
    /\ mi.old # <<>>
    /\ mi.saving = {}
    /\ \A i \in DOMAIN mi.indices : ~ToPersist(mi.indices[i])
    /\ \E failed \in SUBSET Superseded :
           mi' = [mi EXCEPT !.files = @ \ (Superseded \ failed), !.old = <<>>]

(* reload_master_index, by this process or by the next one: the files in the *)
(* order of their names, then a filter for all of them.                      *)
Reload ==
    /\ mi.rounds < MaxRounds
    /\ \E order \in {s \in [1 .. Cardinality(mi.files) -> mi.files] : IsInjective(s)} :
           LET indices == [i \in DOMAIN order |-> FromIndexFile(order[i], i)]
               total == FoldLeft(LAMBDA n, i : n + NumBlobs(i), 0, indices)
           IN  mi' = [mi EXCEPT
                   !.indices = indices,
                   !.bloom = IF total = 0 THEN <<>> ELSE <<FilterOf(total, {e[1] : e \in ForEachId(indices)})>>,
                   !.rounds = @ + 1, !.pending = {}, !.saving = {}, !.old = <<>>, !.known = InFiles(mi.files), !.look = NoLook]

(* contains and add_pending_blob look at the pending blobs first, without    *)
(* the lock, and then at the indices; add_pending_blob skips the filter.     *)
(* Mutant of Looked: the indices first.                                      *)
LookedSwapped(first, id) == IF first THEN InIndices(mi, id) ELSE id \in mi.pending

Looked(first, id) ==
    IF first THEN id \in mi.pending
    ELSE IF mi.look.kind = "add" THEN InIndices([mi EXCEPT !.bloom = <<>>], id) ELSE InIndices(mi, id)
Answer(owed, found) == [NoLook EXCEPT !.missed = owed /\ ~found]
LookFirst(kind, id) ==
    /\ mi.look.at = "done"
    /\ mi' = [mi EXCEPT !.look = IF Looked(TRUE, id) THEN Answer(HasBlob(id), TRUE)
                                 ELSE [kind |-> kind, id |-> id, at |-> "first", owed |-> HasBlob(id), missed |-> FALSE]]
LookSecond ==
    /\ mi.look.at = "first"
    /\ LET found == Looked(FALSE, mi.look.id)
       IN  mi' = [mi EXCEPT !.look = IF mi.look.kind = "add" /\ ~found THEN [@ EXCEPT !.at = "second"]
                                    ELSE Answer(@.owed, found)]
PendingInsert ==
    /\ mi.look.at = "second"
    /\ mi' = [mi EXCEPT !.look = Answer(@.owed, @.id \in mi.pending), !.pending = @ \cup {mi.look.id}]

IndexNext ==
    \/ \E p \in DOMAIN IndexPacks, timedOut \in BOOLEAN : MasterAddPack(p, timedOut)
    \/ \E instance \in mi.saving : IndexSaved(instance) \/ IndexNotSaved(instance)
    \/ PersistIndices
    \/ \E obsolete \in SUBSET mi.added : Cleanup(obsolete)
    \/ DeleteOldIndices
    \/ Reload
    \/ \E kind \in {"has", "add"}, id \in LookIds : LookFirst(kind, id)
    \/ LookSecond
    \/ PendingInsert

IndexSpec == IndexInit /\ [][IndexNext]_mi

-----------------------------------------------------------------------------
(* contains answers yes for the blobs that wait or that some pack in the     *)
(* index has, and for no others: no Bloom filter, of one map or of all, and  *)
(* no merge, autosave or reload hides a blob or invents one.                 *)
BlobsFound == \A id \in BlobIds : HasBlob(id) <=> id \in mi.pending \cup mi.known

(* get, get_data and get_tree find every blob that is known, and where they  *)
(* point that pack has that blob: the places in pack_ids stay right when     *)
(* packs are added again, indices are merged and files are read back.        *)
LocationsTrue ==
    \A id \in BlobIds :
        /\ (GetBlob(id) # <<>>) <=> id \in mi.known
        /\ (GetData(id) \o GetTree(id) # <<>>) <=> id \in mi.known
        /\ \A l \in ToSet(GetBlob(id) \o GetData(id) \o GetTree(id)) :
               [id |-> id, type |-> l.type, offset |-> l.offset] \in ToSet(IndexPacks[l.pack])

(* Once nothing waits to be written, the index files have every blob that    *)
(* the index in memory knows: the next process finds what this one found,    *)
(* also after the collector has replaced the files, when a new index came    *)
(* out equal to an old one.                                                  *)
FilesComplete ==
    (mi.saving = {} /\ \A i \in DOMAIN mi.indices : ~ToPersist(mi.indices[i])) => mi.known \subseteq InFiles(mi.files)

(* A lookup takes two looks and a pack may be added between them, which      *)
(* moves its blobs from one place to the other.  A blob that was there when  *)
(* the lookup began is never reported to be missing.                         *)
LookupSteady == ~mi.look.missed

(* MasterIndex: however packs are added, indices saved, merged and read      *)
(* back, and even while a lookup is under way, lookups find exactly the      *)
(* blobs there are, where they are, and the files on disk have them all once *)
(* nothing waits.                                                            *)
IndexTrue ==
    /\ BlobsFound
    /\ LocationsTrue
    /\ FilesComplete
    /\ LookupSteady
=============================================================================
