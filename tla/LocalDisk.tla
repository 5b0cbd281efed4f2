----------------------------- MODULE LocalDisk ------------------------------
(***************************************************************************)
(* The local file system below the target of a restore, as far as the      *)
(* restorer can tell: paths lead to inodes, of which several paths may     *)
(* share one.  A file is the sequence of its cells; a cell is a part of a  *)
(* blob or Zero; of a symlink or a directory only their number counts, the *)
(* length that symlink_metadata tells.  Whatever is touched has the time Now, later than any     *)
(* time of a snapshot.  Below a directory that is shut nothing is reached. *)
(* Every operation returns the disk and whether it succeeded.              *)
(***************************************************************************)
EXTENDS NodeStreams, TLC

Zero == <<-1, 0>>
Now == 9

Inode(kind, cells, mtime, shut) ==
    [kind |-> kind, cells |-> cells, mtime |-> mtime, shut |-> shut]

EmptyDisk == [at |-> (<<>> :> 0), node |-> (0 :> Inode("dir", <<>>, Now, FALSE))]

Reached(d, p) == \A a \in Ancestors(p) : a \in DOMAIN d.at => ~d.node[d.at[a]].shut
PathExists(d, p) == p \in DOMAIN d.at /\ Reached(d, p)
InodeAt(d, p) == d.node[d.at[p]]
KindAt(d, p) == IF PathExists(d, p) THEN InodeAt(d, p).kind ELSE "none"
IsDirAt(d, p) == KindAt(d, p) = "dir"

Touched(d, dir) == [d EXCEPT !.node[d.at[dir]].mtime = Now]

(* A new entry in a directory that is there.                                 *)
AddInode(d, p, inode) ==
    LET i == CHOOSE i \in 0 .. Cardinality(DOMAIN d.node) : i \notin DOMAIN d.node
    IN  Touched([at |-> (p :> i) @@ d.at, node |-> (i :> inode) @@ d.node], Front(p))

(* remove_file: an inode goes with its last path.                            *)
Unlink(d, p) ==
    LET i == d.at[p]
        at == [q \in (DOMAIN d.at) \ {p} |-> d.at[q]]
        keep == {j \in DOMAIN d.node : j # i \/ \E q \in DOMAIN at : at[q] = i}
    IN  Touched([at |-> at, node |-> [j \in keep |-> d.node[j]]], Front(p))

(* remove_dir_all.                                                           *)
RemoveAll(d, p) ==
    LET at == [q \in {q \in DOMAIN d.at : ~IsPrefix(p, q)} |-> d.at[q]]
        keep == {at[q] : q \in DOMAIN at}
    IN  Touched([at |-> at, node |-> [j \in keep |-> d.node[j]]], Front(p))

(* create_dir_all: fails if something on the way is not a directory.         *)
CreateDirAll(d, dir) ==
    LET missing == {q \in Ancestors(dir) \cup {dir} : q \notin DOMAIN d.at}
    IN  IF \E q \in Ancestors(dir) \cup {dir} :
             IF q \in missing THEN ~Reached(d, q) ELSE ~IsDirAt(d, q)
        THEN [ok |-> FALSE, disk |-> d]
        ELSE [ok |-> TRUE,
              disk |-> FoldLeft(LAMBDA e, q : AddInode(e, q, Inode("dir", <<>>, Now, FALSE)),
                                d, InOrder(missing))]

(* A link of p to the inode of q.                                            *)
HardLink(d, q, p) ==
    IF KindAt(d, q) # "file" \/ p \in DOMAIN d.at \/ ~Reached(d, p) THEN [ok |-> FALSE, disk |-> d]
    ELSE [ok |-> TRUE, disk |-> Touched([d EXCEPT !.at = (p :> d.at[q]) @@ @], Front(p))]

Resized(cells, n) == [k \in 1 .. n |-> IF k <= Len(cells) THEN cells[k] ELSE Zero]

(* write_at.                                                                 *)
WriteAt(d, i, offset, data) ==
    LET cells == Resized(d.node[i].cells, Max({Len(d.node[i].cells), offset + Len(data)}))
    IN  [d EXCEPT !.node[i].cells =
           [k \in 1 .. Len(cells) |->
              IF k > offset /\ k <= offset + Len(data) THEN data[k - offset] ELSE cells[k]],
                  !.node[i].mtime = Now]
=============================================================================
