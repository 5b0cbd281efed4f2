--------------------------- MODULE TransferProofs ---------------------------
(***************************************************************************)
(* Proofs about FileStore and Limiter: operations on stored files that     *)
(* fail, are retried and are answered late, and the bandwidth they are     *)
(* granted, for any number of bytes, attempts and payers.                  *)
(***************************************************************************)
EXTENDS FileStore, Limiter, TLAPS

-----------------------------------------------------------------------------
(* Operations on files.                                                      *)

(* The contents a transfer of n bytes brings.                                *)
Whole(n) == [k \in 1 .. n |-> k]

(* How an operation ended, or that it has not.                               *)
Results == {"running", "abort", "ok", "failed", "killed"}
Names == [{"src", "dst"} -> Nat]
Upload == [open : BOOLEAN, body : Seq(Nat)]

(* Types.                                                                    *)
FileRec ==
    [task : Transfer, pc : Nat, try : Nat, offset : Nat, result : Results,
     synced : BOOLEAN, missed : BOOLEAN, unseen : BOOLEAN, uploads : Seq(Upload),
     store : Names, data : Seq(Seq(Nat))]

(* Names lead to inodes, no two to the same; the old contents are not        *)
(* written to; the file is whole.                                            *)
FilesInv(x) ==
    /\ Len(x.data) >= 2 /\ x.data[2] = OldContent
    /\ x.store["src"] <= Len(x.data) /\ x.store["dst"] <= Len(x.data)
    /\ x.store["src"] # 2 /\ (x.store["src"] # 0 => x.store["src"] # x.store["dst"])
    /\ x.store["dst"] # 0 => x.data[x.store["dst"]] \in {OldContent, Whole(x.task.size)}

(* The file is there with its new contents.                                  *)
NewThere(x) == x.store["dst"] # 0 /\ x.data[x.store["dst"]] = Whole(x.task.size)

(* A request changes the files and the uploads, and keeps the file whole.    *)
Kept(x, z) ==
    /\ z \in FileRec /\ FilesInv(z)
    /\ z.task = x.task /\ z.pc = x.pc /\ z.offset = x.offset /\ z.result = x.result /\ z.missed = x.missed

(* A file was put under a name.                                              *)
PutDone(z, name, content) ==
    /\ Kept(xf, z) /\ z.uploads = xf.uploads /\ z.synced = xf.synced
    /\ z.data[z.store[name]] = content /\ z.store[name] # 0
    /\ \A other \in {"src", "dst"} \ {name} : z.store[other] = xf.store[other]
    /\ \A i \in 1 .. Len(xf.data) : z.data[i] = xf.data[i]

(* The request worked and is answered, or its answer is lost.                *)
Advanced(z, y) ==
    LET last == Len(TransferProgram(xf.task))
    IN  /\ y \in FileRec /\ FilesInv(y) /\ y.task = xf.task /\ (NewThere(z) => NewThere(y))
        /\ y.data = z.data /\ y.store = z.store /\ y.synced = z.synced /\ y.uploads = z.uploads
        /\ y.missed = xf.missed /\ y.offset = xf.offset
        /\ xf.pc = last => y.pc = xf.pc /\ y.result = "ok"
        /\ xf.pc # last => y.pc = xf.pc + 1 /\ y.result = xf.result

Unanswered(z, y) ==
    /\ y \in FileRec /\ FilesInv(y) /\ y.task = xf.task /\ (NewThere(z) => NewThere(y))
    /\ y.data = z.data /\ y.store = z.store /\ y.synced = z.synced /\ y.uploads = z.uploads
    /\ y.missed /\ y.offset = xf.offset /\ y.pc = xf.pc /\ y.result = xf.result

(* A write through a temporary file.                                         *)
TempInv(x) ==
    /\ x.uploads = <<>> /\ x.pc \in 1 .. 4
    /\ x.result = "running" /\ x.pc >= 3 /\ x.store["src"] # 0 =>
         x.data[x.store["src"]] = Whole(x.task.size)
    /\ x.task.backend = "local" =>
         /\ x.task.was => x.store["dst"] # 0
         /\ x.synced \/ (x.pc <= 3 /\ x.store["dst"] = StoreBefore(x.task)["dst"])
    /\ x.result = "ok" => NewThere(x)

(* A rename: the file is under its old name until it is under its new one.   *)
(* Over SFTP a lost answer may have it under none.                           *)
RenameInv(x) ==
    /\ x.uploads = <<>> /\ x.pc \in 1 .. 2
    /\ x.data[1] = Whole(x.task.size) /\ x.store["src"] \in {0, 1}
    /\ x.task.backend = "local" =>
         x.pc = 1 /\ (IF x.result = "ok" THEN x.store["src"] = 0 /\ x.store["dst"] = 1 ELSE x.store["src"] = 1)
    /\ x.task.backend = "sftp" =>
         /\ x.result = "ok" => x.store["src"] = 0 /\ x.store["dst"] = 1
         /\ x.result # "ok" /\ ~x.missed => x.store["src"] = 1
    /\ x.task.backend = "s3" =>
         /\ IF x.pc = 1 THEN x.store["src"] = 1 ELSE NewThere(x)
         /\ x.result = "ok" => x.pc = 2 /\ x.store["src"] = 0

(* A removal.  Over SFTP it may end without having seen the file.            *)
RemoveInv(x) ==
    /\ x.uploads = <<>> /\ x.pc \in 1 .. 2 /\ (x.task.backend # "sftp" => x.pc = 1)
    /\ x.result = "ok" => x.store["dst"] = 0 \/ x.unseen

(* A write to S3 in one request.                                             *)
PutInv(x) ==
    /\ x.uploads = <<>> /\ x.pc = 1 /\ (x.task.was => x.store["dst"] # 0)
    /\ x.result = "ok" => NewThere(x)

(* A multipart upload: the parts that arrived are the beginning of the       *)
(* contents.                                                                 *)
UploadInv(x) ==
    LET program == S3Write(x.task)
        u == Len(x.uploads)
    IN  /\ x.pc \in 1 .. Len(program) /\ (x.task.was => x.store["dst"] # 0)
        /\ x.store["src"] = 0
        /\ ~x.missed => u <= 1
        /\ x.pc = 1 => (~x.missed => u = 0) /\ x.offset = 0 /\ x.result # "abort"
        /\ x.pc > 1 => u > 0
        /\ program[x.pc] = "part" =>
             /\ x.offset < x.task.size
             /\ x.uploads[u].body \in {Whole(x.offset), Whole(PartEnd(x))}
        /\ program[x.pc] = "complete" => x.uploads[u].body = Whole(x.task.size)
        /\ x.result = "ok" => NewThere(x)
        /\ x.result = "failed" /\ ~x.missed => \A v \in 1 .. u : ~x.uploads[v].open

(* What holds of each kind of operation.                                     *)
KindInv(x) ==
    /\ x.task.op = "write" =>
         /\ x.task.backend # "s3" => TempInv(x)
         /\ x.task.backend = "s3" /\ ~Multipart(x.task) => PutInv(x)
         /\ Multipart(x.task) => UploadInv(x)
    /\ x.task.op = "rename" => RenameInv(x)
    /\ x.task.op = "remove" => RemoveInv(x)

(* The inductive invariant.                                                  *)
TransferInv(x) ==
    /\ x \in FileRec /\ FilesInv(x) /\ KindInv(x)
    /\ x.result = "abort" => Multipart(x.task)

(* What has been carried out may be answered or not.                         *)
GoesOn(c) ==
    /\ c.ok => TransferInv(NextRequest(c.x))
    /\ xf.task.backend # "local" =>
         TransferInv([c.x EXCEPT !.missed = @ \/ c.ok]) /\ [c.x EXCEPT !.missed = @ \/ c.ok].result = "running"

-----------------------------------------------------------------------------
(* NewContent: the contents of n bytes are a sequence of n bytes.            *)
LEMMA WholeSeq ==
    ASSUME NEW n \in Nat
    PROVE  Whole(n) \in Seq(Nat) /\ Len(Whole(n)) = n
BY DEF Whole

(* NewContent: what a write that failed got written is a beginning of the    *)
(* contents.                                                                 *)
LEMMA WholePrefix ==
    ASSUME NEW n \in Nat, NEW m \in 0 .. n
    PROVE  SubSeq(Whole(n), 1, m) = Whole(m)
BY DEF Whole

(* S3Backend::write: the bytes up to an offset and the part that follows are *)
(* the bytes up to the end of the part.                                      *)
LEMMA WholeJoined ==
    ASSUME NEW n \in Nat, NEW o \in 0 .. n, NEW e \in o .. n
    PROVE  Whole(o) \o SubSeq(Whole(n), o + 1, e) = Whole(e)
BY DEF Whole

(* retry: a failed attempt changes the place and the result of an operation  *)
(* only; it begins again (SFTP), repeats the request (S3), or gives up,      *)
(* which for an upload that was begun means to abort it.                     *)
LEMMA FailedFields ==
    ASSUME NEW x \in FileRec, NEW y, y = FailedTry(x)
    PROVE  /\ y \in FileRec
           /\ y.data = x.data /\ y.store = x.store /\ y.task = x.task /\ y.offset = x.offset
           /\ y.synced = x.synced /\ y.missed = x.missed /\ y.uploads = x.uploads
           /\ y.pc \in {1, x.pc} /\ (x.task.backend # "sftp" => y.pc = x.pc)
           /\ y.result \in {x.result, "failed", "abort"}
           /\ x.task.backend = "local" => y.result = "failed"
           /\ x.task.backend = "sftp" => y.pc = 1 \/ y.result = "failed"
           /\ y.result = "abort" /\ x.result # "abort" =>
                Multipart(x.task) /\ x.uploads # <<>> /\ TransferProgram(x.task)[x.pc] # "initiate"
           /\ y.result = "failed" /\ x.result # "failed" /\ Multipart(x.task) =>
                x.uploads = <<>> \/ TransferProgram(x.task)[x.pc] = "initiate"
<1>1. CASE x.task.backend # "local" /\ x.try < MaxAttempts
  <2>1. y = [x EXCEPT !.try = @ + 1, !.pc = IF x.task.backend = "sftp" THEN 1 ELSE @]
    BY <1>1 DEF FailedTry
  <2>2. x.try + 1 \in Nat /\ (IF x.task.backend = "sftp" THEN 1 ELSE x.pc) \in Nat
    BY DEF FileRec
  <2>3. y \in FileRec BY Zenon, <2>1, <2>2 DEF FileRec
  <2>4. QED BY <1>1, <2>1, <2>3 DEF FileRec
<1>2. CASE ~(x.task.backend # "local" /\ x.try < MaxAttempts)
  <2>1. y = GiveUp(x) BY <1>2 DEF FailedTry
  <2>2. CASE Multipart(x.task) /\ x.uploads # <<>> /\ TransferProgram(x.task)[x.pc] # "initiate"
    <3>1. y = [x EXCEPT !.result = "abort"] BY <2>1, <2>2 DEF GiveUp
    <3>2. y \in FileRec BY Zenon, <3>1 DEF FileRec, Results
    <3>3. x.task.backend = "s3" BY <2>2 DEF Multipart
    <3>4. QED BY <2>2, <3>1, <3>2, <3>3 DEF FileRec
  <2>3. CASE ~(Multipart(x.task) /\ x.uploads # <<>> /\ TransferProgram(x.task)[x.pc] # "initiate")
    <3>1. y = [x EXCEPT !.result = "failed"] BY <2>1, <2>3 DEF GiveUp, TransferReturns
    <3>2. y \in FileRec BY Zenon, <3>1 DEF FileRec, Results
    <3>3. QED BY <2>3, <3>1, <3>2 DEF FileRec
  <2>4. QED BY <2>2, <2>3
<1>3. QED BY <1>1, <1>2

(* A request that was answered, and was no part and no question, changes the *)
(* place and the result of the operation only.                               *)
LEMMA NextFields ==
    ASSUME NEW x \in FileRec, NEW y, y = NextRequest(x), NEW program, program = TransferProgram(x.task),
           program[x.pc] # "part", program[x.pc] # "exists"
    PROVE  /\ y \in FileRec
           /\ y.data = x.data /\ y.store = x.store /\ y.task = x.task /\ y.offset = x.offset
           /\ y.synced = x.synced /\ y.missed = x.missed /\ y.uploads = x.uploads
           /\ x.pc = Len(program) => y.pc = x.pc /\ y.result = "ok"
           /\ x.pc # Len(program) => y.pc = x.pc + 1 /\ y.result = x.result
<1> DEFINE z == [x EXCEPT !.try = IF x.task.backend = "s3" THEN 0 ELSE @, !.offset = @]
<1>1. y = IF x.pc = Len(program) THEN TransferReturns(z, "ok") ELSE [z EXCEPT !.pc = @ + 1]
  BY DEF NextRequest
<1>2. (IF x.task.backend = "s3" THEN 0 ELSE x.try) \in Nat BY DEF FileRec
<1>3. z \in FileRec BY Zenon, <1>2 DEF FileRec
<1>4. /\ z.data = x.data /\ z.store = x.store /\ z.task = x.task /\ z.offset = x.offset
      /\ z.synced = x.synced /\ z.missed = x.missed /\ z.uploads = x.uploads
      /\ z.pc = x.pc /\ z.result = x.result
  BY DEF FileRec
<1> HIDE DEF z
<1>5. CASE x.pc = Len(program)
  <2>1. y = [z EXCEPT !.result = "ok"] BY <1>1, <1>5 DEF TransferReturns
  <2>2. y \in FileRec BY Zenon, <1>3, <2>1 DEF FileRec, Results
  <2>3. QED BY <1>3, <1>4, <1>5, <2>1, <2>2 DEF FileRec
<1>6. CASE x.pc # Len(program)
  <2>1. y = [z EXCEPT !.pc = z.pc + 1] BY <1>1, <1>6
  <2>2. z.pc + 1 \in Nat BY <1>3 DEF FileRec
  <2>3. y \in FileRec BY Zenon, <1>3, <2>1, <2>2 DEF FileRec
  <2>4. QED BY <1>3, <1>4, <1>6, <2>1, <2>3 DEF FileRec
<1>7. QED BY <1>5, <1>6

(* The files are as good as they were when neither names nor contents        *)
(* change.                                                                   *)
LEMMA NextFiles ==
    ASSUME NEW x, FilesInv(x), NEW y, y.data = x.data, y.store = x.store, y.task = x.task
    PROVE  FilesInv(y) /\ (NewThere(x) => NewThere(y))
BY DEF FilesInv, NewThere

(* retry: a failed attempt keeps the invariant.                              *)
LEMMA FailedKeeps ==
    ASSUME NEW x, TransferInv(x), x.result = "running", NEW y, y = FailedTry(x)
    PROVE  TransferInv(y)
<1>1. x \in FileRec /\ FilesInv(x) /\ KindInv(x) BY DEF TransferInv
<1>2. /\ y \in FileRec
      /\ y.data = x.data /\ y.store = x.store /\ y.task = x.task /\ y.offset = x.offset
      /\ y.synced = x.synced /\ y.missed = x.missed /\ y.uploads = x.uploads
      /\ y.pc \in {1, x.pc} /\ (x.task.backend # "sftp" => y.pc = x.pc)
      /\ y.result \in {x.result, "failed", "abort"}
      /\ x.task.backend = "local" => y.result = "failed"
      /\ x.task.backend = "sftp" => y.pc = 1 \/ y.result = "failed"
      /\ y.result = "abort" =>
           Multipart(x.task) /\ x.uploads # <<>> /\ TransferProgram(x.task)[x.pc] # "initiate"
      /\ y.result = "failed" /\ Multipart(x.task) =>
           x.uploads = <<>> \/ TransferProgram(x.task)[x.pc] = "initiate"
  BY <1>1, FailedFields
<1>3. FilesInv(y) BY <1>1, <1>2, NextFiles
<1>4. x.task \in Transfer /\ x.uploads \in Seq(Upload) BY <1>1 DEF FileRec
<1>5. CASE x.task.op = "write" /\ x.task.backend # "s3"
  <2>1. TempInv(x) BY <1>1, <1>5 DEF KindInv
  <2>2. TempInv(y) BY <1>2, <2>1 DEF TempInv, NewThere
  <2>3. QED BY <1>2, <1>3, <1>5, <2>2 DEF TransferInv, KindInv, Multipart
<1>6. CASE x.task.op = "write" /\ x.task.backend = "s3" /\ ~Multipart(x.task)
  <2>1. PutInv(x) BY <1>1, <1>6 DEF KindInv
  <2>2. PutInv(y) BY <1>2, <1>6, <2>1 DEF PutInv, NewThere
  <2>3. QED BY <1>2, <1>3, <1>6, <2>2 DEF TransferInv, KindInv
<1>7. CASE Multipart(x.task)
  <2>1. UploadInv(x) /\ x.task.op = "write" /\ x.task.backend = "s3" BY <1>1, <1>7 DEF KindInv, Multipart
  <2>2. TransferProgram(x.task) = S3Write(x.task) BY <2>1 DEF TransferProgram
  <2>3. y.pc = x.pc /\ PartEnd(y) = PartEnd(x) BY <1>2, <2>1 DEF PartEnd
  <2>4. S3Write(x.task)[x.pc] = "initiate" => x.pc = 1 BY <1>7, <2>1 DEF S3Write, UploadInv
  <2>5. S3Write(x.task)[1] = "initiate" BY <1>7 DEF S3Write
  <2>6. UploadInv(y) BY <1>2, <1>4, <1>7, <2>1, <2>2, <2>3, <2>4, <2>5 DEF UploadInv, NewThere
  <2>7. QED BY <1>2, <1>3, <1>7, <2>1, <2>6 DEF TransferInv, KindInv
<1>8. CASE x.task.op = "rename"
  <2>1. RenameInv(x) BY <1>1, <1>8 DEF KindInv
  <2>2. RenameInv(y) BY <1>2, <1>8, <2>1 DEF RenameInv, NewThere
  <2>3. QED BY <1>2, <1>3, <1>8, <2>2 DEF TransferInv, KindInv, Multipart
<1>9. CASE x.task.op = "remove"
  <2>1. RemoveInv(x) BY <1>1, <1>9 DEF KindInv
  <2>2. RemoveInv(y) BY <1>2, <1>9, <2>1 DEF RemoveInv
  <2>3. QED BY <1>2, <1>3, <1>9, <2>2 DEF TransferInv, KindInv, Multipart
<1>10. QED BY <1>4, <1>5, <1>6, <1>7, <1>8, <1>9 DEF Transfer

-----------------------------------------------------------------------------
(* The contents the model speaks of are sequences.                           *)
LEMMA ContentTypes ==
    ASSUME xf \in FileRec
    PROVE  /\ NewContent = Whole(xf.task.size) /\ xf.task.size \in Nat
           /\ Whole(xf.task.size) \in Seq(Nat) /\ OldContent \in Seq(Nat) /\ <<>> \in Seq(Nat)
<1>1. xf.task \in Transfer BY DEF FileRec
<1>2. xf.task.size \in Nat BY <1>1 DEF Transfer
<1>3. Whole(xf.task.size) \in Seq(Nat) BY <1>2, WholeSeq
<1>4. QED BY <1>2, <1>3 DEF NewContent, Whole, OldContent

(* LocalFS::write, SftpBackend::write: writing to the temporary file leaves  *)
(* the file alone.                                                           *)
LEMMA TempWritten ==
    ASSUME xf \in FileRec, FilesInv(xf), xf.store["src"] # 0, NEW content \in Seq(Nat),
           NEW z, z = [xf EXCEPT !.data[xf.store["src"]] = content]
    PROVE  /\ Kept(xf, z) /\ z.uploads = xf.uploads /\ z.synced = xf.synced /\ z.store = xf.store
           /\ z.data[xf.store["src"]] = content
           /\ xf.store["dst"] # 0 => z.data[xf.store["dst"]] = xf.data[xf.store["dst"]]
<1> DEFINE i == xf.store["src"]
           d == [xf.data EXCEPT ![i] = content]
<1>1. xf.data \in Seq(Seq(Nat)) /\ xf.store \in Names BY DEF FileRec
<1>2. i \in 1 .. Len(xf.data) BY <1>1 DEF FilesInv, Names
<1>3. /\ d \in Seq(Seq(Nat)) /\ Len(d) = Len(xf.data)
      /\ \A j \in 1 .. Len(xf.data) : d[j] = IF j = i THEN content ELSE xf.data[j]
  BY <1>1, <1>2
<1>4. z = [xf EXCEPT !.data = d] BY DEF FileRec
<1> HIDE DEF d
<1>5. z \in FileRec BY Zenon, <1>3, <1>4 DEF FileRec
<1>6. /\ z.data = d /\ z.store = xf.store /\ z.task = xf.task /\ z.pc = xf.pc /\ z.offset = xf.offset
      /\ z.result = xf.result /\ z.missed = xf.missed /\ z.uploads = xf.uploads /\ z.synced = xf.synced
  BY <1>4 DEF FileRec
<1>7. xf.store["dst"] # 0 => xf.store["dst"] \in 1 .. Len(xf.data) /\ xf.store["dst"] # i
  BY <1>1, <1>2 DEF FilesInv, Names
<1>8. Len(z.data) >= 2 /\ z.data[2] = OldContent BY <1>1, <1>3, <1>6 DEF FilesInv
<1>9. xf.store["dst"] # 0 => z.data[xf.store["dst"]] = xf.data[xf.store["dst"]] BY <1>3, <1>6, <1>7
<1>10. FilesInv(z) BY <1>3, <1>6, <1>8, <1>9 DEF FilesInv
<1>11. QED BY <1>2, <1>3, <1>5, <1>6, <1>9, <1>10 DEF Kept

(* A new inode under a name: the file stays whole when its new contents are, *)
(* and the temporary file is no file yet.                                    *)
LEMMA PutKeeps ==
    ASSUME xf \in FileRec, FilesInv(xf), NEW content \in Seq(Nat), NEW name \in {"src", "dst"},
           IF name = "dst" THEN content = Whole(xf.task.size) ELSE xf.store["src"] = 0
    PROVE  PutDone(PutFile(xf, name, content), name, content)
<1> DEFINE z == PutFile(xf, name, content)
<1>0. z = PutFile(xf, name, content) OBVIOUS
<1> HIDE DEF z
<1>1. xf.data \in Seq(Seq(Nat)) /\ xf.store \in Names BY DEF FileRec
<1>2. Append(xf.data, content) \in Seq(Seq(Nat)) BY <1>1
<1>3. [xf.store EXCEPT ![name] = Len(xf.data) + 1] \in Names BY <1>1 DEF Names
<1>4. z = [xf EXCEPT !.store = [xf.store EXCEPT ![name] = Len(xf.data) + 1], !.data = Append(xf.data, content)]
  BY <1>0 DEF PutFile, FileRec
<1>5. z \in FileRec BY Zenon, <1>2, <1>3, <1>4 DEF FileRec
<1>6. /\ z.data = Append(xf.data, content)
      /\ z.store = [xf.store EXCEPT ![name] = Len(xf.data) + 1]
  BY <1>4 DEF FileRec
<1>7. /\ z.task = xf.task /\ z.pc = xf.pc /\ z.offset = xf.offset
      /\ z.result = xf.result /\ z.synced = xf.synced /\ z.missed = xf.missed
      /\ z.uploads = xf.uploads
  BY <1>4 DEF FileRec
<1>8. /\ Len(z.data) = Len(xf.data) + 1 /\ z.data[Len(xf.data) + 1] = content
      /\ \A j \in 1 .. Len(xf.data) : z.data[j] = xf.data[j]
  BY <1>1, <1>6
<1>9. Len(xf.data) \in Nat BY <1>1
<1>10. Len(z.data) >= 2 /\ z.data[2] = OldContent BY <1>8, <1>9 DEF FilesInv
<1>11. ASSUME name = "src" PROVE PutDone(z, name, content)
  <2>1. z.store["src"] = Len(xf.data) + 1 /\ z.store["dst"] = xf.store["dst"] BY <1>1, <1>6, <1>11 DEF Names
  <2>2. z.store["dst"] \in 0 .. Len(xf.data) BY <1>1, <2>1 DEF FilesInv, Names
  <2>3. z.store["dst"] # 0 => z.data[z.store["dst"]] = xf.data[xf.store["dst"]] BY <1>8, <2>1, <2>2
  <2>4. z.store["dst"] # 0 => z.data[z.store["dst"]] \in {OldContent, Whole(z.task.size)}
    BY <1>7, <2>1, <2>3 DEF FilesInv
  <2>5. z.store["src"] # 2 /\ z.store["src"] # z.store["dst"] BY <1>9, <2>1, <2>2 DEF FilesInv
  <2>6. FilesInv(z) BY <1>8, <1>9, <1>10, <2>1, <2>2, <2>4, <2>5 DEF FilesInv
  <2>7. QED BY <1>5, <1>7, <1>8, <1>9, <1>11, <2>1, <2>6 DEF Kept, PutDone
<1>12. ASSUME name = "dst" PROVE PutDone(z, name, content)
  <2>1. z.store["dst"] = Len(xf.data) + 1 /\ z.store["src"] = xf.store["src"] BY <1>1, <1>6, <1>12 DEF Names
  <2>2. z.store["src"] \in 0 .. Len(xf.data) /\ z.store["src"] # 2 BY <1>1, <2>1 DEF FilesInv, Names
  <2>3. z.data[z.store["dst"]] = Whole(z.task.size) BY <1>7, <1>8, <1>12, <2>1
  <2>4. FilesInv(z) BY SMTT(20), <1>8, <1>9, <1>10, <2>1, <2>2, <2>3 DEF FilesInv
  <2>5. QED BY <1>5, <1>7, <1>8, <1>9, <1>12, <2>1, <2>4 DEF Kept, PutDone
<1>13. QED BY <1>11, <1>12 DEF z

(* Changing names changes nothing else.                                      *)
LEMMA NamesKeep ==
    ASSUME xf \in FileRec, NEW names \in Names, NEW z, z = [xf EXCEPT !.store = names], FilesInv(z)
    PROVE  /\ Kept(xf, z) /\ z.uploads = xf.uploads /\ z.synced = xf.synced
           /\ z.data = xf.data /\ z.store = names
<1>1. z \in FileRec BY Zenon DEF FileRec
<1>2. /\ z.data = xf.data /\ z.store = names /\ z.task = xf.task /\ z.pc = xf.pc /\ z.offset = xf.offset
      /\ z.result = xf.result /\ z.missed = xf.missed /\ z.uploads = xf.uploads /\ z.synced = xf.synced
  BY DEF FileRec
<1>3. QED BY <1>1, <1>2 DEF Kept

(* Removing a name leaves the other one alone.                               *)
LEMMA NameGone ==
    ASSUME xf \in FileRec, FilesInv(xf), NEW name \in {"src", "dst"},
           NEW z, z = [xf EXCEPT !.store[name] = 0]
    PROVE  /\ Kept(xf, z) /\ z.uploads = xf.uploads /\ z.synced = xf.synced /\ z.data = xf.data
           /\ z.store[name] = 0
           /\ name = "src" => z.store["dst"] = xf.store["dst"]
           /\ name = "dst" => z.store["src"] = xf.store["src"]
<1>1. xf.store \in Names BY DEF FileRec
<1> DEFINE names == [xf.store EXCEPT ![name] = 0]
<1>2. names \in Names /\ names[name] = 0
      /\ \A other \in {"src", "dst"} \ {name} : names[other] = xf.store[other]
  BY <1>1 DEF Names
<1>3. z = [xf EXCEPT !.store = names] BY DEF FileRec
<1> HIDE DEF names
<1>4. z.data = xf.data /\ z.store = names /\ z.task = xf.task BY <1>3 DEF FileRec
<1>5. names["src"] \in {0, xf.store["src"]} /\ names["dst"] \in {0, xf.store["dst"]} BY <1>2
<1>6. Len(xf.data) >= 2 BY DEF FilesInv
<1>7. FilesInv(z) BY <1>4, <1>5, <1>6 DEF FilesInv
<1>8. QED BY ZenonT(40), <1>2, <1>3, <1>4, <1>7, NamesKeep

(* rename: the file takes the place of the destination.                      *)
LEMMA Renamed ==
    ASSUME xf \in FileRec, FilesInv(xf), xf.store["src"] # 0, xf.data[xf.store["src"]] = Whole(xf.task.size),
           NEW z, z = [xf EXCEPT !.store = [@ EXCEPT !["src"] = 0, !["dst"] = xf.store["src"]]]
    PROVE  /\ Kept(xf, z) /\ z.uploads = xf.uploads /\ z.synced = xf.synced /\ z.data = xf.data
           /\ z.store["src"] = 0 /\ z.store["dst"] = xf.store["src"] /\ NewThere(z)
<1>1. xf.store \in Names BY DEF FileRec
<1> DEFINE names == [xf.store EXCEPT !["src"] = 0, !["dst"] = xf.store["src"]]
<1>2. names \in Names /\ names["src"] = 0 /\ names["dst"] = xf.store["src"] BY <1>1 DEF Names
<1>3. z = [xf EXCEPT !.store = names] BY DEF FileRec
<1> HIDE DEF names
<1>4. z.data = xf.data /\ z.store = names /\ z.task = xf.task BY <1>3 DEF FileRec
<1>5. z.store["src"] = 0 /\ z.store["dst"] = xf.store["src"] BY Zenon, <1>2, <1>4
<1>6. Len(xf.data) >= 2 BY DEF FilesInv
<1>7. FilesInv(z) BY <1>4, <1>5, <1>6 DEF FilesInv
<1>8. QED BY <1>2, <1>3, <1>4, <1>5, <1>7, NamesKeep DEF NewThere

(* A request that was not carried out leaves no trace.                       *)
LEMMA NothingDone ==
    ASSUME xf \in FileRec
    PROVE  [xf EXCEPT !.missed = @ \/ FALSE] = xf
BY DEF FileRec

(* LocalFS::write: sync_all changes neither names nor contents.              *)
LEMMA SyncDone ==
    ASSUME xf \in FileRec, FilesInv(xf), NEW z, z = [xf EXCEPT !.synced = TRUE]
    PROVE  Kept(xf, z) /\ z.uploads = xf.uploads /\ z.synced = TRUE /\ z.data = xf.data /\ z.store = xf.store
<1>1. z \in FileRec BY Zenon DEF FileRec
<1>2. /\ z.data = xf.data /\ z.store = xf.store /\ z.task = xf.task /\ z.pc = xf.pc /\ z.offset = xf.offset
      /\ z.result = xf.result /\ z.missed = xf.missed /\ z.uploads = xf.uploads /\ z.synced = TRUE
  BY DEF FileRec
<1>3. QED BY Zenon, <1>1, <1>2, NextFiles DEF Kept

(* After a request that worked, and was no part and no question, the next    *)
(* one is due.                                                               *)
LEMMA NextDone ==
    ASSUME NEW z, Kept(xf, z), TransferRequest # "part", TransferRequest # "exists"
    PROVE  Advanced(z, NextRequest(z))
<1> DEFINE program == TransferProgram(xf.task)
           y == NextRequest(z)
<1>1. /\ z \in FileRec /\ FilesInv(z) /\ z.task = xf.task /\ z.pc = xf.pc /\ z.result = xf.result
      /\ z.missed = xf.missed /\ z.offset = xf.offset
  BY DEF Kept
<1>2. y = NextRequest(z) /\ program = TransferProgram(z.task) /\ program[z.pc] # "part" /\ program[z.pc] # "exists"
  BY <1>1 DEF TransferRequest
<1> HIDE DEF y, program
<1>3. /\ y \in FileRec
      /\ y.data = z.data /\ y.store = z.store /\ y.task = z.task /\ y.offset = z.offset
      /\ y.synced = z.synced /\ y.missed = z.missed /\ y.uploads = z.uploads
      /\ z.pc = Len(program) => y.pc = z.pc /\ y.result = "ok"
      /\ z.pc # Len(program) => y.pc = z.pc + 1 /\ y.result = z.result
  BY <1>1, <1>2, NextFields
<1>4. FilesInv(y) /\ (NewThere(z) => NewThere(y)) BY <1>1, <1>3, NextFiles
<1>5. QED BY <1>1, <1>3, <1>4 DEF Advanced, y, program

(* A request that worked and whose answer is lost.                           *)
LEMMA LostDone ==
    ASSUME NEW z, Kept(xf, z)
    PROVE  Unanswered(z, [z EXCEPT !.missed = @ \/ TRUE])
<1> DEFINE y == [z EXCEPT !.missed = @ \/ TRUE]
<1>1. /\ z \in FileRec /\ FilesInv(z) /\ z.task = xf.task /\ z.pc = xf.pc /\ z.result = xf.result
      /\ z.offset = xf.offset
  BY DEF Kept
<1>2. /\ y \in FileRec
      /\ y.data = z.data /\ y.store = z.store /\ y.task = z.task /\ y.offset = z.offset
      /\ y.synced = z.synced /\ y.uploads = z.uploads /\ y.pc = z.pc /\ y.result = z.result
      /\ y.missed
  BY Zenon, <1>1 DEF FileRec
<1> HIDE DEF y
<1>3. FilesInv(y) /\ (NewThere(z) => NewThere(y)) BY <1>1, <1>2, NextFiles
<1>4. Unanswered(z, y) BY <1>1, <1>2, <1>3 DEF Unanswered
<1>5. QED BY <1>4 DEF y

(* A request that does nothing and fails.                                    *)
LEMMA RefusedGoesOn ==
    ASSUME TransferInv(xf), xf.result = "running", NEW c, c.ok = FALSE, c.x = xf
    PROVE  GoesOn(c)
<1>1. xf \in FileRec BY DEF TransferInv
<1>2. [c.x EXCEPT !.missed = @ \/ c.ok] = [xf EXCEPT !.missed = @ \/ FALSE] OBVIOUS
<1>3. QED BY <1>1, <1>2, NothingDone DEF GoesOn

(* A request that works, and is no part and no question: the invariant holds *)
(* afterwards if the part of it that is about the kind of operation does,    *)
(* with the answer and without.                                              *)
LEMMA DoneGoesOn ==
    ASSUME xf.result = "running", NEW c, c.ok = TRUE, NEW z, z = c.x, Kept(xf, z),
           TransferRequest # "part", TransferRequest # "exists",
           \A y : Advanced(z, y) => KindInv(y),
           xf.task.backend # "local" => \A y : Unanswered(z, y) => KindInv(y)
    PROVE  GoesOn(c)
<1> DEFINE y == NextRequest(z)
           l == [z EXCEPT !.missed = @ \/ TRUE]
<1>1. Advanced(z, y) /\ Unanswered(z, l) BY NextDone, LostDone
<1>2. c.ok = TRUE => [c.x EXCEPT !.missed = @ \/ c.ok] = l OBVIOUS
<1>3. y = NextRequest(c.x) OBVIOUS
<1> HIDE DEF y, l
<1>4. /\ y \in FileRec /\ FilesInv(y) /\ y.result # "abort" /\ KindInv(y)
      /\ l \in FileRec /\ FilesInv(l) /\ l.result = "running"
      /\ xf.task.backend # "local" => KindInv(l)
  BY <1>1 DEF Advanced, Unanswered
<1>5. TransferInv(y) /\ (xf.task.backend # "local" => TransferInv(l)) BY <1>4 DEF TransferInv
<1>6. QED BY Zenon, <1>2, <1>3, <1>4, <1>5 DEF GoesOn

(* SftpBackend::write ends with rename_full.                                 *)
LEMMA SftpWriteProgram ==
    <<"create", "write">> \o RenameFull = <<"create", "write", "clear", "rename">>
<1> DEFINE a == <<"create", "write">> \o RenameFull
           b == <<"create", "write", "clear", "rename">>
<1>1. Len(a) = 4 /\ a[1] = "create" /\ a[2] = "write" /\ a[3] = "clear" /\ a[4] = "rename"
  BY DEF RenameFull
<1>2. a \in Seq({"create", "write", "clear", "rename"}) /\ b \in Seq({"create", "write", "clear", "rename"})
  BY DEF RenameFull
<1>3. Len(b) = 4 /\ b[1] = "create" /\ b[2] = "write" /\ b[3] = "clear" /\ b[4] = "rename"
  OBVIOUS
<1> HIDE DEF a, b
<1>4. a = b BY <1>1, <1>2, <1>3
<1>5. QED BY <1>4 DEF a, b

(* LocalFS::write, SftpBackend::write: every request of a write through a    *)
(* temporary file keeps the invariant, answered or not.                      *)
LEMMA TempGoesOn ==
    ASSUME TransferInv(xf), xf.result = "running", xf.task.op = "write", xf.task.backend # "s3",
           NEW c, c = Carried(xf, TransferRequest)
    PROVE  GoesOn(c)
<1>1. xf \in FileRec /\ FilesInv(xf) /\ TempInv(xf) BY DEF TransferInv, KindInv
<1>2. xf.task \in Transfer /\ xf.store \in Names /\ xf.data \in Seq(Seq(Nat)) BY <1>1 DEF FileRec
<1> DEFINE program == TransferProgram(xf.task)
<1>3. program = IF xf.task.backend = "local" THEN <<"create", "write", "sync", "rename">>
                ELSE <<"create", "write", "clear", "rename">>
  <2>1. CASE xf.task.backend = "local" BY <2>1 DEF TransferProgram, LocalProgram
  <2>2. CASE xf.task.backend = "sftp"
    BY <2>2, SftpWriteProgram DEF TransferProgram, SftpProgram
  <2>3. QED BY <1>2, <2>1, <2>2 DEF Transfer
<1>4. /\ xf.pc \in 1 .. 4 /\ Len(program) = 4 /\ TransferRequest = program[xf.pc]
      /\ TransferRequest # "part" /\ TransferRequest # "exists"
  BY <1>1, <1>3 DEF TempInv, TransferRequest
<1> DEFINE z == c.x
<1>5. ASSUME c.ok = FALSE, c.x = xf PROVE GoesOn(c) BY Zenon, <1>5, RefusedGoesOn
<1>6. ASSUME c.ok = TRUE, Kept(xf, z), \A y : Advanced(z, y) => TempInv(y),
             xf.task.backend # "local" => \A y : Unanswered(z, y) => TempInv(y)
      PROVE  GoesOn(c)
  <2>1. \A y : Advanced(z, y) => KindInv(y)
    BY <1>6 DEF Advanced, KindInv, Multipart
  <2>2. xf.task.backend # "local" => \A y : Unanswered(z, y) => KindInv(y)
    BY <1>6 DEF Unanswered, KindInv, Multipart
  <2>3. z = c.x OBVIOUS
  <2> HIDE DEF z
  <2>4. QED BY Zenon, <1>4, <1>6, <2>1, <2>2, <2>3, DoneGoesOn
<1>7. NewContent = Whole(xf.task.size) /\ Whole(xf.task.size) \in Seq(Nat) /\ <<>> \in Seq(Nat)
  BY SMTT(20), <1>1, ContentTypes
<1>8.  \A y : /\ Advanced(z, y) =>
                   /\ y.data = z.data /\ y.store = z.store /\ y.synced = z.synced /\ y.uploads = z.uploads
                   /\ y.task = xf.task /\ (NewThere(z) => NewThere(y))
                   /\ xf.pc = 4 => y.pc = xf.pc /\ y.result = "ok"
                   /\ xf.pc # 4 => y.pc = xf.pc + 1 /\ y.result = "running"
              /\ Unanswered(z, y) =>
                   /\ y.data = z.data /\ y.store = z.store /\ y.uploads = z.uploads
                   /\ y.task = xf.task /\ y.pc = xf.pc /\ y.result = "running"
  BY <1>4 DEF Advanced, Unanswered
<1> HIDE DEF program
<1>9. CASE xf.pc = 1
  <2>1. TransferRequest = "create" BY <1>3, <1>4, <1>9
  <2>2. c = [ok |-> TRUE, x |-> IF xf.store["src"] = 0 THEN PutFile(xf, "src", <<>>)
                                ELSE [xf EXCEPT !.data[xf.store["src"]] = <<>>]]
    BY <2>1 DEF Carried
  <2>3. /\ c.ok = TRUE /\ z = IF xf.store["src"] = 0 THEN PutFile(xf, "src", <<>>)
                              ELSE [xf EXCEPT !.data[xf.store["src"]] = <<>>]
    BY <2>2
  <2> HIDE DEF z
  <2>4. /\ Kept(xf, z) /\ z.uploads = xf.uploads /\ z.synced = xf.synced
        /\ z.store["dst"] = xf.store["dst"]
    <3>1. CASE xf.store["src"] = 0
      <4>1. z = PutFile(xf, "src", <<>>) BY <2>3, <3>1
      <4>2. PutDone(z, "src", <<>>) BY Zenon, <1>1, <1>7, <3>1, <4>1, PutKeeps
      <4>3. QED BY <4>2 DEF PutDone
    <3>2. CASE xf.store["src"] # 0 BY ZenonT(40), <1>1, <1>7, <2>3, <3>2, TempWritten
    <3>3. QED BY <3>1, <3>2
  <2>5. \A y : Advanced(z, y) => TempInv(y) BY <1>1, <1>8, <1>9, <2>4 DEF TempInv
  <2>6. xf.task.backend # "local" => \A y : Unanswered(z, y) => TempInv(y)
    BY <1>1, <1>8, <1>9, <2>4 DEF TempInv
  <2>7. QED BY Zenon, <1>6, <2>3, <2>4, <2>5, <2>6
<1>10. CASE xf.pc = 2
  <2>1. TransferRequest = "write" BY <1>3, <1>4, <1>10
  <2>2. c = IF xf.store["src"] = 0 THEN [ok |-> FALSE, x |-> xf]
            ELSE [ok |-> TRUE, x |-> [xf EXCEPT !.data[xf.store["src"]] = NewContent]]
    BY <2>1 DEF Carried
  <2>3. CASE xf.store["src"] = 0 BY <1>5, <2>2, <2>3
  <2>4. CASE xf.store["src"] # 0
    <3>1. c.ok = TRUE /\ z = [xf EXCEPT !.data[xf.store["src"]] = Whole(xf.task.size)] BY <1>7, <2>2, <2>4
    <3> HIDE DEF z
    <3>2. /\ Kept(xf, z) /\ z.uploads = xf.uploads /\ z.synced = xf.synced /\ z.store = xf.store
          /\ z.data[xf.store["src"]] = Whole(xf.task.size)
      BY ZenonT(40), <1>1, <1>7, <2>4, <3>1, TempWritten
    <3>3. \A y : Advanced(z, y) => TempInv(y) BY <1>1, <1>8, <1>10, <3>2 DEF TempInv
    <3>4. xf.task.backend # "local" => \A y : Unanswered(z, y) => TempInv(y)
    BY <1>1, <1>8, <1>10, <3>2 DEF TempInv
    <3>5. QED BY Zenon, <1>6, <3>1, <3>2, <3>3, <3>4
  <2>5. QED BY <2>3, <2>4
<1>11. CASE xf.pc = 3
  <2>1. CASE xf.task.backend = "local"
    <3>1. TransferRequest = "sync" BY <1>3, <1>4, <1>11, <2>1
    <3>2. c = [ok |-> TRUE, x |-> [xf EXCEPT !.synced = TRUE]] BY <3>1 DEF Carried
    <3>3. c.ok = TRUE /\ z = [xf EXCEPT !.synced = TRUE] BY <3>2
    <3> HIDE DEF z
    <3>4. Kept(xf, z) /\ z.uploads = xf.uploads /\ z.synced = TRUE /\ z.data = xf.data /\ z.store = xf.store
      BY Zenon, <1>1, <3>3, SyncDone
    <3>5. \A y : Advanced(z, y) =>
            /\ y.synced = TRUE /\ y.data = xf.data /\ y.store = xf.store /\ y.uploads = xf.uploads
            /\ y.task = xf.task /\ y.pc = 4 /\ y.result = "running"
      BY <1>8, <1>11, <3>4
    <3>6. \A y : Advanced(z, y) => TempInv(y) BY <1>1, <1>11, <2>1, <3>5 DEF TempInv
    <3>7. QED BY Zenon, <1>6, <2>1, <3>3, <3>4, <3>6
  <2>2. CASE xf.task.backend # "local"
    <3>1. TransferRequest = "clear" BY <1>3, <1>4, <1>11, <2>2
    <3>2. c = [ok |-> TRUE, x |-> [xf EXCEPT !.store["dst"] = 0]] BY <3>1 DEF Carried
    <3>3. c.ok = TRUE /\ z = [xf EXCEPT !.store["dst"] = 0] BY <3>2
    <3> HIDE DEF z
    <3>4. /\ Kept(xf, z) /\ z.uploads = xf.uploads /\ z.data = xf.data /\ z.store["src"] = xf.store["src"]
      BY <1>1, <3>3, NameGone
    <3>5. \A y : Advanced(z, y) => TempInv(y) BY <1>1, <1>8, <1>11, <2>2, <3>4 DEF TempInv
    <3>6. \A y : Unanswered(z, y) => TempInv(y) BY <1>1, <1>8, <1>11, <2>2, <3>4 DEF TempInv
    <3>7. QED BY Zenon, <1>6, <3>3, <3>4, <3>5, <3>6
  <2>3. QED BY <2>1, <2>2
<1>12. CASE xf.pc = 4
  <2>1. TransferRequest = "rename" BY <1>3, <1>4, <1>12
  <2>2. c = IF xf.store["src"] = 0 \/ (xf.task.backend = "sftp" /\ xf.store["dst"] # 0)
            THEN [ok |-> FALSE, x |-> xf]
            ELSE [ok |-> TRUE, x |-> [xf EXCEPT !.store = [@ EXCEPT !["src"] = 0, !["dst"] = xf.store["src"]]]]
    BY <2>1 DEF Carried
  <2>3. CASE xf.store["src"] = 0 \/ (xf.task.backend = "sftp" /\ xf.store["dst"] # 0)
    BY <1>5, <2>2, <2>3
  <2>4. CASE ~(xf.store["src"] = 0 \/ (xf.task.backend = "sftp" /\ xf.store["dst"] # 0))
    <3>1. c.ok = TRUE /\ z = [xf EXCEPT !.store = [@ EXCEPT !["src"] = 0, !["dst"] = xf.store["src"]]]
      BY <2>2, <2>4
    <3> HIDE DEF z
    <3>2. xf.store["src"] # 0 /\ xf.data[xf.store["src"]] = Whole(xf.task.size)
      BY <1>1, <1>12, <2>4 DEF TempInv
    <3>3. /\ Kept(xf, z) /\ z.uploads = xf.uploads /\ z.synced = xf.synced /\ z.data = xf.data
          /\ z.store["src"] = 0 /\ z.store["dst"] = xf.store["src"] /\ NewThere(z)
      BY Zenon, <1>1, <3>1, <3>2, Renamed
    <3>4. \A y : Advanced(z, y) => TempInv(y) BY <1>1, <1>8, <1>12, <3>2, <3>3 DEF TempInv
    <3>5. xf.task.backend # "local" => \A y : Unanswered(z, y) => TempInv(y)
    BY <1>1, <1>8, <1>12, <3>3 DEF TempInv
    <3>6. QED BY Zenon, <1>6, <3>1, <3>3, <3>4, <3>5
  <2>5. QED BY <2>3, <2>4
<1>13. QED BY <1>4, <1>9, <1>10, <1>11, <1>12

(* S3Backend::write: so does the one request of a small file,                *)
LEMMA PutGoesOn ==
    ASSUME TransferInv(xf), xf.result = "running", xf.task.op = "write", xf.task.backend = "s3",
           ~Multipart(xf.task), NEW c, c = Carried(xf, TransferRequest)
    PROVE  GoesOn(c)
<1>1. xf \in FileRec /\ FilesInv(xf) /\ PutInv(xf) BY DEF TransferInv, KindInv
<1>2. TransferProgram(xf.task) = <<"put">> BY DEF TransferProgram, S3Write
<1>3. xf.pc = 1 /\ TransferRequest = "put" /\ Len(TransferProgram(xf.task)) = 1
  BY <1>1, <1>2 DEF PutInv, TransferRequest
<1>4. NewContent = Whole(xf.task.size) /\ Whole(xf.task.size) \in Seq(Nat) BY <1>1, ContentTypes
<1> DEFINE z == c.x
<1>5. c = [ok |-> TRUE, x |-> PutFile(xf, "dst", Whole(xf.task.size))] BY <1>3, <1>4 DEF Carried
<1>6. c.ok = TRUE /\ z = PutFile(xf, "dst", Whole(xf.task.size)) BY <1>5
<1>7. z = c.x OBVIOUS
<1> HIDE DEF z
<1>8. PutDone(z, "dst", Whole(xf.task.size)) BY <1>1, <1>4, <1>6, PutKeeps
<1>9. Kept(xf, z) /\ NewThere(z) /\ z.uploads = <<>> BY <1>1, <1>8 DEF PutDone, PutInv, Kept, NewThere
<1>10. \A y : Advanced(z, y) => KindInv(y)
  BY <1>3, <1>9 DEF Advanced, KindInv, PutInv, NewThere
<1>11. \A y : Unanswered(z, y) => KindInv(y)
  BY <1>3, <1>9 DEF Unanswered, KindInv, PutInv, NewThere
<1>12. QED BY Zenon, <1>3, <1>6, <1>7, <1>9, <1>10, <1>11, DoneGoesOn

(* remove_recursively_full: so does the question whether the file is there,  *)
LEMMA ExistsGoesOn ==
    ASSUME TransferInv(xf), xf.result = "running", xf.task.op = "remove", xf.task.backend = "sftp",
           TransferRequest = "exists", xf.pc = 1, Len(TransferProgram(xf.task)) = 2,
           NEW c, c = Carried(xf, TransferRequest)
    PROVE  GoesOn(c)
<1>1. xf \in FileRec /\ FilesInv(xf) /\ RemoveInv(xf) BY DEF TransferInv, KindInv
<1>2. c = [ok |-> TRUE, x |-> xf] BY DEF Carried
<1>3. c.ok = TRUE /\ c.x = xf BY <1>2
<1> DEFINE w == [xf EXCEPT !.try = @, !.offset = @]
           y == NextRequest(xf)
           l == [xf EXCEPT !.missed = @ \/ TRUE]
<1>4. w = xf BY ZenonT(40), <1>1 DEF FileRec
<1>5. y = IF xf.store["dst"] = 0 THEN TransferReturns(w, "ok") ELSE [w EXCEPT !.pc = @ + 1]
  BY DEF NextRequest, TransferRequest
<1> HIDE DEF w, y
<1>6. TransferInv(y)
  <2>1. CASE xf.store["dst"] = 0
    <3>1. y = [xf EXCEPT !.result = "ok"] BY <1>4, <1>5, <2>1 DEF TransferReturns
    <3>2. y \in FileRec BY Zenon, <1>1, <3>1 DEF FileRec, Results
    <3>3. /\ y.task = xf.task /\ y.data = xf.data /\ y.store = xf.store /\ y.uploads = xf.uploads
          /\ y.pc = xf.pc /\ y.result = "ok"
      BY <1>1, <3>1 DEF FileRec
    <3>4. FilesInv(y) BY <1>1, <3>3, NextFiles
    <3>5. RemoveInv(y) BY <1>1, <2>1, <3>3 DEF RemoveInv
    <3>6. QED BY <3>2, <3>3, <3>4, <3>5 DEF TransferInv, KindInv, Multipart
  <2>2. CASE xf.store["dst"] # 0
    <3>1. y = [xf EXCEPT !.pc = 2] BY <1>4, <1>5, <2>2
    <3>2. y \in FileRec BY ZenonT(40), <1>1, <3>1 DEF FileRec
    <3>3. /\ y.task = xf.task /\ y.data = xf.data /\ y.store = xf.store /\ y.uploads = xf.uploads
          /\ y.pc = 2 /\ y.result = "running"
      BY <1>1, <3>1 DEF FileRec
    <3>4. FilesInv(y) BY <1>1, <3>3, NextFiles
    <3>5. RemoveInv(y) BY <1>1, <3>3 DEF RemoveInv
    <3>6. QED BY <3>2, <3>3, <3>4, <3>5 DEF TransferInv, KindInv, Multipart
  <2>3. QED BY <2>1, <2>2
<1>7. TransferInv(l) /\ l.result = "running"
  <2>1. Kept(xf, xf) BY <1>1 DEF Kept
  <2>2. Unanswered(xf, l) BY <2>1, LostDone
  <2> HIDE DEF l
  <2>3. RemoveInv(l) BY <1>1, <2>2 DEF Unanswered, RemoveInv
  <2>4. QED BY <2>2, <2>3 DEF Unanswered, TransferInv, KindInv, Multipart
<1>8. c.ok = TRUE => [c.x EXCEPT !.missed = @ \/ c.ok] = l BY <1>3
<1>9. NextRequest(c.x) = y BY <1>3 DEF y
<1> HIDE DEF l
<1>10. QED BY Zenon, <1>3, <1>6, <1>7, <1>8, <1>9 DEF GoesOn

(* remove: so does the one request of other removals, and the last of these, *)
LEMMA DeleteGoesOn ==
    ASSUME TransferInv(xf), xf.result = "running", xf.task.op = "remove",
           TransferRequest = "delete", xf.pc = Len(TransferProgram(xf.task)),
           NEW c, c = Carried(xf, TransferRequest)
    PROVE  GoesOn(c)
<1>1. xf \in FileRec /\ FilesInv(xf) /\ RemoveInv(xf) BY DEF TransferInv, KindInv
<1> DEFINE z == c.x
<1>2. c = [ok |-> TRUE, x |-> [xf EXCEPT !.store["dst"] = 0]] BY DEF Carried
<1>3. c.ok = TRUE /\ z = [xf EXCEPT !.store["dst"] = 0] BY <1>2
<1>4. z = c.x OBVIOUS
<1> HIDE DEF z
<1>5. Kept(xf, z) /\ z.uploads = xf.uploads /\ z.store["dst"] = 0 BY Zenon, <1>1, <1>3, NameGone
<1>6. \A y : Advanced(z, y) => KindInv(y)
  BY ZenonT(40), <1>1, <1>5 DEF Advanced, KindInv, RemoveInv, Multipart
<1>7. \A y : Unanswered(z, y) => KindInv(y)
  BY <1>1, <1>5 DEF Unanswered, KindInv, RemoveInv, Multipart
<1>8. QED BY Zenon, <1>3, <1>4, <1>5, <1>6, <1>7, DoneGoesOn

(* which are all requests of a removal.                                      *)
LEMMA RemoveRequests ==
    ASSUME TransferInv(xf), xf.task.op = "remove"
    PROVE  \/ /\ xf.task.backend = "sftp" /\ TransferRequest = "exists" /\ xf.pc = 1
              /\ Len(TransferProgram(xf.task)) = 2
           \/ TransferRequest = "delete" /\ xf.pc = Len(TransferProgram(xf.task))
<1>1. xf \in FileRec /\ RemoveInv(xf) BY DEF TransferInv, KindInv
<1>2. xf.task \in Transfer BY <1>1 DEF FileRec
<1>3. CASE xf.task.backend = "sftp"
  <2>1. TransferProgram(xf.task) = <<"exists", "delete">>
    BY <1>3 DEF TransferProgram, SftpProgram, RemoveRecursivelyFull
  <2>2. xf.pc \in {1, 2} BY <1>1 DEF RemoveInv
  <2>3. QED BY <1>3, <2>1, <2>2 DEF TransferRequest
<1>4. CASE xf.task.backend # "sftp"
  <2>1. TransferProgram(xf.task) = <<"delete">>
    BY <1>2, <1>4 DEF TransferProgram, LocalProgram, Transfer
  <2>2. xf.pc = 1 BY <1>1, <1>4 DEF RemoveInv
  <2>3. QED BY <2>1, <2>2 DEF TransferRequest
<1>5. QED BY <1>3, <1>4

(* rename: so does every request of a rename.                                *)
LEMMA RenameGoesOn ==
    ASSUME TransferInv(xf), xf.result = "running", xf.task.op = "rename",
           NEW c, c = Carried(xf, TransferRequest)
    PROVE  GoesOn(c)
<1>1. xf \in FileRec /\ FilesInv(xf) /\ RenameInv(xf) BY DEF TransferInv, KindInv
<1>2. xf.task \in Transfer /\ xf.data \in Seq(Seq(Nat)) BY <1>1 DEF FileRec
<1>3. NewContent = Whole(xf.task.size) /\ Whole(xf.task.size) \in Seq(Nat) BY <1>1, ContentTypes
<1>4. /\ xf.uploads = <<>> /\ xf.data[1] = Whole(xf.task.size)
      /\ 1 \in 1 .. 2 /\ 2 \in 1 .. 2 /\ 1 + 1 = 2 /\ 1 # 2
  BY <1>1 DEF RenameInv
<1> DEFINE z == c.x
<1>5. z = c.x OBVIOUS
<1>6. ASSUME c.ok = FALSE, c.x = xf PROVE GoesOn(c) BY Zenon, <1>6, RefusedGoesOn
<1>7. ASSUME NEW last, last = Len(TransferProgram(xf.task)),
             TransferRequest # "part", TransferRequest # "exists",
             c.ok = TRUE, Kept(xf, z), \A y : Advanced(z, y) => RenameInv(y),
             xf.task.backend # "local" => \A y : Unanswered(z, y) => RenameInv(y)
      PROVE  GoesOn(c)
  <2>1. \A y : Advanced(z, y) => KindInv(y)
    BY ZenonT(40), <1>7 DEF Advanced, KindInv, Multipart
  <2>2. xf.task.backend # "local" => \A y : Unanswered(z, y) => KindInv(y)
    BY ZenonT(40), <1>7 DEF Unanswered, KindInv, Multipart
  <2> HIDE DEF z
  <2>3. QED BY Zenon, <1>5, <1>7, <2>1, <2>2, DoneGoesOn
<1>8. CASE TransferRequest = "rename" /\ xf.task.backend \in {"local", "sftp"}
           /\ xf.pc = Len(TransferProgram(xf.task))
  <2>1. c = IF xf.store["src"] = 0 \/ (xf.task.backend = "sftp" /\ xf.store["dst"] # 0)
            THEN [ok |-> FALSE, x |-> xf]
            ELSE [ok |-> TRUE, x |-> [xf EXCEPT !.store = [@ EXCEPT !["src"] = 0, !["dst"] = xf.store["src"]]]]
    BY <1>8 DEF Carried
  <2>2. CASE xf.store["src"] = 0 \/ (xf.task.backend = "sftp" /\ xf.store["dst"] # 0)
    BY <1>6, <2>1, <2>2
  <2>3. CASE ~(xf.store["src"] = 0 \/ (xf.task.backend = "sftp" /\ xf.store["dst"] # 0))
    <3>1. c.ok = TRUE /\ z = [xf EXCEPT !.store = [@ EXCEPT !["src"] = 0, !["dst"] = xf.store["src"]]]
      BY <2>1, <2>3
    <3> HIDE DEF z
    <3>2. xf.store["src"] = 1 /\ xf.store["src"] # 0 /\ xf.data[xf.store["src"]] = Whole(xf.task.size)
      BY <1>1, <2>3 DEF RenameInv
    <3>3. /\ Kept(xf, z) /\ z.uploads = xf.uploads /\ z.data = xf.data
          /\ z.store["src"] = 0 /\ z.store["dst"] = xf.store["src"]
      BY Zenon, <1>1, <3>1, <3>2, Renamed
    <3>4. \A y : Advanced(z, y) => RenameInv(y) BY ZenonT(40), <1>1, <1>8, <3>2, <3>3 DEF Advanced, RenameInv
    <3>5. xf.task.backend # "local" => \A y : Unanswered(z, y) => RenameInv(y)
      BY <1>1, <1>8, <3>2, <3>3 DEF Unanswered, RenameInv
    <3>6. QED BY Zenon, <1>7, <1>8, <3>1, <3>3, <3>4, <3>5
  <2>4. QED BY <2>2, <2>3
<1>9. CASE xf.task.backend = "local"
  <2>1. TransferProgram(xf.task) = <<"rename">> BY <1>9 DEF TransferProgram, LocalProgram
  <2>2. xf.pc = 1 BY <1>1, <1>9 DEF RenameInv
  <2>3. QED BY <1>8, <1>9, <2>1, <2>2 DEF TransferRequest
<1>10. CASE xf.task.backend = "sftp"
  <2>1. TransferProgram(xf.task) = <<"clear", "rename">> BY <1>10 DEF TransferProgram, SftpProgram, RenameFull
  <2>2. CASE xf.pc = 1
    <3>1. TransferRequest = "clear" /\ Len(TransferProgram(xf.task)) = 2 BY <2>1, <2>2 DEF TransferRequest
    <3>2. c = [ok |-> TRUE, x |-> [xf EXCEPT !.store["dst"] = 0]] BY <3>1 DEF Carried
    <3>3. c.ok = TRUE /\ z = [xf EXCEPT !.store["dst"] = 0] BY <3>2
    <3> HIDE DEF z
    <3>4. /\ Kept(xf, z) /\ z.uploads = xf.uploads /\ z.data = xf.data /\ z.store["src"] = xf.store["src"]
      BY <1>1, <3>3, NameGone
    <3>5. ASSUME NEW y, Advanced(z, y) PROVE RenameInv(y)
      <4>1. /\ y.task = xf.task /\ y.data = xf.data /\ y.uploads = <<>> /\ y.pc = 2
            /\ y.store["src"] = xf.store["src"] /\ y.result = "running" /\ y.missed = xf.missed
        BY ZenonT(20), <1>4, <2>2, <3>1, <3>4, <3>5 DEF Advanced
      <4>2. xf.store["src"] \in {0, 1} /\ (~xf.missed => xf.store["src"] = 1)
        BY ZenonT(20), <1>1, <1>10 DEF RenameInv
      <4>3. QED BY ZenonT(20), <1>4, <1>10, <4>1, <4>2 DEF RenameInv
    <3>6. ASSUME NEW y, Unanswered(z, y) PROVE RenameInv(y)
      <4>1. /\ y.task = xf.task /\ y.data = xf.data /\ y.uploads = <<>> /\ y.pc = 1
            /\ y.store["src"] = xf.store["src"] /\ y.result = "running" /\ y.missed
        BY ZenonT(20), <1>4, <2>2, <3>4, <3>6 DEF Unanswered
      <4>2. xf.store["src"] \in {0, 1}
        BY ZenonT(20), <1>1 DEF RenameInv
      <4>3. QED BY ZenonT(20), <1>4, <1>10, <4>1, <4>2 DEF RenameInv
    <3>7. QED BY Zenon, <1>7, <3>1, <3>3, <3>4, <3>5, <3>6
  <2>3. CASE xf.pc = 2 BY <1>8, <1>10, <2>1, <2>3 DEF TransferRequest
  <2>4. QED BY <1>1, <2>2, <2>3 DEF RenameInv
<1>11. CASE xf.task.backend = "s3"
  <2>1. TransferProgram(xf.task) = <<"copy", "delete">> BY <1>11 DEF TransferProgram, S3Rename
  <2>2. CASE xf.pc = 1
    <3>1. TransferRequest = "copy" /\ Len(TransferProgram(xf.task)) = 2 BY <2>1, <2>2 DEF TransferRequest
    <3>2. xf.store["src"] = 1 /\ xf.data[1] = Whole(xf.task.size) BY <1>1, <1>11, <2>2 DEF RenameInv
    <3>3. FileContent(xf, "src") = Whole(xf.task.size) BY <3>2 DEF FileContent
    <3>4. c = [ok |-> TRUE, x |-> PutFile(xf, "dst", Whole(xf.task.size))]
      <4>1. c = IF xf.store["src"] = 0 THEN [ok |-> FALSE, x |-> xf]
                ELSE [ok |-> TRUE, x |-> PutFile(xf, "dst", FileContent(xf, "src"))]
        BY <3>1 DEF Carried
      <4>2. xf.store["src"] # 0 BY <3>2
      <4>3. QED BY Zenon, <3>3, <4>1, <4>2
    <3>5. c.ok = TRUE /\ z = PutFile(xf, "dst", Whole(xf.task.size)) BY <3>4
    <3> HIDE DEF z
    <3>6. PutDone(z, "dst", Whole(xf.task.size)) BY <1>1, <1>3, <3>5, PutKeeps
    <3>7. Len(xf.data) >= 2 BY <1>1 DEF FilesInv
    <3>8. /\ Kept(xf, z) /\ NewThere(z) /\ z.uploads = xf.uploads /\ z.data[1] = Whole(xf.task.size)
          /\ z.store["src"] = 1
      BY <1>2, <3>2, <3>6, <3>7 DEF PutDone, Kept, NewThere
    <3>9. ASSUME NEW y, Advanced(z, y) PROVE RenameInv(y)
      <4>1. /\ y.task = xf.task /\ y.data[1] = Whole(xf.task.size) /\ y.uploads = <<>> /\ y.pc = 2
            /\ y.store["src"] = 1 /\ y.result = "running" /\ NewThere(y)
        BY ZenonT(20), <1>4, <2>2, <3>1, <3>8, <3>9 DEF Advanced
      <4>2. QED BY ZenonT(20), <1>4, <1>11, <4>1 DEF RenameInv
    <3>10. ASSUME NEW y, Unanswered(z, y) PROVE RenameInv(y)
      <4>1. /\ y.task = xf.task /\ y.data[1] = Whole(xf.task.size) /\ y.uploads = <<>> /\ y.pc = 1
            /\ y.store["src"] = 1 /\ y.result = "running"
        BY ZenonT(20), <1>4, <2>2, <3>8, <3>10 DEF Unanswered
      <4>2. QED BY ZenonT(20), <1>4, <1>11, <4>1 DEF RenameInv
    <3>11. QED BY Zenon, <1>7, <3>1, <3>5, <3>8, <3>9, <3>10
  <2>3. CASE xf.pc = 2
    <3>1. TransferRequest = "delete" /\ Len(TransferProgram(xf.task)) = 2 BY <2>1, <2>3 DEF TransferRequest
    <3>2. c = [ok |-> TRUE, x |-> [xf EXCEPT !.store["src"] = 0]] BY <3>1 DEF Carried
    <3>3. c.ok = TRUE /\ z = [xf EXCEPT !.store["src"] = 0] BY <3>2
    <3> HIDE DEF z
    <3>4. /\ Kept(xf, z) /\ z.uploads = xf.uploads /\ z.data = xf.data /\ z.store["src"] = 0
          /\ z.store["dst"] = xf.store["dst"]
      BY Zenon, <1>1, <3>3, NameGone
    <3>5. NewThere(z) BY <1>1, <1>11, <2>3, <3>4 DEF RenameInv, NewThere, Kept
    <3>6. ASSUME NEW y, Advanced(z, y) PROVE RenameInv(y)
      <4>1. /\ y.task = xf.task /\ y.data[1] = Whole(xf.task.size) /\ y.uploads = <<>> /\ y.pc = 2
            /\ y.store["src"] = 0 /\ NewThere(y)
        BY ZenonT(20), <1>4, <2>3, <3>1, <3>4, <3>5, <3>6 DEF Advanced
      <4>2. QED BY ZenonT(20), <1>4, <1>11, <4>1 DEF RenameInv
    <3>7. ASSUME NEW y, Unanswered(z, y) PROVE RenameInv(y)
      <4>1. /\ y.task = xf.task /\ y.data[1] = Whole(xf.task.size) /\ y.uploads = <<>> /\ y.pc = 2
            /\ y.store["src"] = 0 /\ NewThere(y)
        BY ZenonT(20), <1>4, <2>3, <3>4, <3>5, <3>7 DEF Unanswered
      <4>2. QED BY ZenonT(20), <1>4, <1>11, <4>1 DEF RenameInv
    <3>8. QED BY Zenon, <1>7, <3>1, <3>3, <3>4, <3>6, <3>7
  <2>4. QED BY <1>1, <2>2, <2>3 DEF RenameInv
<1>12. QED BY <1>2, <1>9, <1>10, <1>11 DEF Transfer

(* Changing the uploads changes no file.                                     *)
LEMMA UploadsKeep ==
    ASSUME xf \in FileRec, FilesInv(xf), NEW ups \in Seq(Upload), NEW z, z = [xf EXCEPT !.uploads = ups]
    PROVE  Kept(xf, z) /\ z.uploads = ups /\ z.data = xf.data /\ z.store = xf.store
<1>1. z \in FileRec BY Zenon DEF FileRec
<1>2. /\ z.data = xf.data /\ z.store = xf.store /\ z.task = xf.task /\ z.pc = xf.pc /\ z.offset = xf.offset
      /\ z.result = xf.result /\ z.missed = xf.missed /\ z.uploads = ups
  BY DEF FileRec
<1>3. QED BY Zenon, <1>1, <1>2, NextFiles DEF Kept

(* A sequence of uploads, one of which is replaced.                          *)
LEMMA UploadSet ==
    ASSUME NEW ups \in Seq(Upload), NEW u \in 1 .. Len(ups), NEW w \in Upload
    PROVE  /\ [ups EXCEPT ![u] = w] \in Seq(Upload) /\ Len([ups EXCEPT ![u] = w]) = Len(ups)
           /\ [ups EXCEPT ![u] = w][u] = w
OBVIOUS

(* S3Backend::write: the requests of a multipart upload.                     *)
LEMMA UploadPrograms ==
    ASSUME xf \in FileRec, Multipart(xf.task)
    PROVE  /\ xf.task.op = "write" /\ xf.task.backend = "s3" /\ TransferProgram(xf.task) = S3Write(xf.task)
           /\ xf.task.size \in Nat
           /\ xf.task.size > 0 => S3Write(xf.task) = <<"initiate", "part", "complete">>
           /\ xf.task.size = 0 => S3Write(xf.task) = <<"initiate", "complete">>
<1>1. xf.task \in Transfer BY DEF FileRec
<1>2. xf.task.op = "write" /\ xf.task.backend = "s3" /\ xf.task.size \in Nat BY <1>1 DEF Multipart, Transfer
<1>3. TransferProgram(xf.task) = S3Write(xf.task) BY <1>2 DEF TransferProgram
<1>4. S3Write(xf.task) = IF xf.task.size > 0 THEN <<"initiate", "part", "complete">> ELSE <<"initiate", "complete">>
  BY DEF S3Write
<1>5. QED BY <1>2, <1>3, <1>4

(* initiate_multipart_upload keeps the invariant, answered or not.           *)
LEMMA InitiateGoesOn ==
    ASSUME TransferInv(xf), xf.result = "running", Multipart(xf.task), xf.pc = 1,
           NEW c, c = Carried(xf, TransferRequest)
    PROVE  GoesOn(c)
<1>1. xf \in FileRec /\ FilesInv(xf) /\ UploadInv(xf) BY DEF TransferInv, KindInv, Multipart
<1>2. /\ xf.task.op = "write" /\ xf.task.backend = "s3" /\ TransferProgram(xf.task) = S3Write(xf.task)
      /\ xf.task.size \in Nat
      /\ xf.task.size > 0 => S3Write(xf.task) = <<"initiate", "part", "complete">>
      /\ xf.task.size = 0 => S3Write(xf.task) = <<"initiate", "complete">>
  BY <1>1, UploadPrograms
<1>3. xf.uploads \in Seq(Upload) BY <1>1 DEF FileRec
<1>4. TransferRequest = "initiate" /\ Len(TransferProgram(xf.task)) # 1 BY <1>2 DEF TransferRequest
<1> DEFINE new == [open |-> TRUE, body |-> <<>>]
           z == c.x
<1>5. c = [ok |-> TRUE, x |-> [xf EXCEPT !.uploads = Append(@, new)]] BY <1>4 DEF Carried
<1>6. c.ok = TRUE /\ z = [xf EXCEPT !.uploads = Append(xf.uploads, new)] BY <1>5
<1>7. z = c.x OBVIOUS
<1>8. new \in Upload /\ new.body = Whole(0)
  <2>1. <<>> \in Seq(Nat) OBVIOUS
  <2>2. <<>> = Whole(0) BY DEF Whole
  <2>3. QED BY <2>1, <2>2 DEF Upload
<1> HIDE DEF z, new
<1>9. /\ Append(xf.uploads, new) \in Seq(Upload)
      /\ Len(Append(xf.uploads, new)) = Len(xf.uploads) + 1
      /\ Append(xf.uploads, new)[Len(xf.uploads) + 1] = new
  BY <1>3, <1>8
<1>10. Kept(xf, z) /\ z.uploads = Append(xf.uploads, new) /\ z.data = xf.data /\ z.store = xf.store
  BY Zenon, <1>1, <1>6, <1>9, UploadsKeep
<1>11. ASSUME NEW y, Advanced(z, y) PROVE KindInv(y)
  <2>1. /\ y.task = xf.task /\ y.pc = 2 /\ y.result = "running" /\ y.offset = 0
        /\ y.store = xf.store /\ y.uploads = Append(xf.uploads, new) /\ y.missed = xf.missed
    <3>1. xf.offset = 0 BY ZenonT(20), <1>1 DEF UploadInv
    <3>2. y.pc = xf.pc + 1 /\ y.result = "running" BY ZenonT(20), <1>4, <1>11 DEF Advanced
    <3>3. 1 + 1 = 2 OBVIOUS
    <3>4. QED BY ZenonT(20), <1>10, <1>11, <3>1, <3>2, <3>3 DEF Advanced
  <2>2. Len(y.uploads) = Len(xf.uploads) + 1 /\ y.uploads[Len(y.uploads)].body = Whole(0) BY <1>8, <1>9, <2>1
  <2>3. Len(xf.uploads) \in Nat /\ (~xf.missed => Len(xf.uploads) = 0)
        /\ (xf.task.was => xf.store["dst"] # 0) /\ xf.store["src"] = 0
    <3>1. Len(xf.uploads) \in Nat BY <1>3
    <3>2. QED BY ZenonT(20), <1>1, <3>1 DEF UploadInv
  <2>4. CASE xf.task.size > 0
    <3>1. S3Write(y.task) = <<"initiate", "part", "complete">> BY <1>2, <2>1, <2>4
    <3>2. UploadInv(y) BY <2>1, <2>2, <2>3, <2>4, <3>1 DEF UploadInv
    <3>3. QED BY <1>2, <2>1, <3>2 DEF KindInv
  <2>5. CASE xf.task.size = 0
    <3>1. S3Write(y.task) = <<"initiate", "complete">> BY <1>2, <2>1, <2>5
    <3>2. UploadInv(y) BY <2>1, <2>2, <2>3, <2>5, <3>1 DEF UploadInv
    <3>3. QED BY <1>2, <2>1, <3>2 DEF KindInv
  <2>6. QED BY <1>2, <2>4, <2>5
<1>12. ASSUME NEW y, Unanswered(z, y) PROVE KindInv(y)
  <2>1. /\ y.task = xf.task /\ y.pc = 1 /\ y.result = "running" /\ y.offset = 0
        /\ y.store = xf.store /\ y.uploads = Append(xf.uploads, new) /\ y.missed = TRUE
    BY <1>1, <1>10, <1>12 DEF Unanswered, UploadInv, FileRec
  <2>2. S3Write(y.task)[1] = "initiate" /\ Len(S3Write(y.task)) >= 1 BY <1>2, <2>1
  <2>3. UploadInv(y) BY <1>1, <2>1, <2>2 DEF UploadInv
  <2>4. QED BY <1>2, <2>1, <2>3 DEF KindInv
<1>13. QED BY Zenon, <1>4, <1>6, <1>7, <1>10, <1>11, <1>12, DoneGoesOn

(* put_multipart_chunk: a part that arrived, for the first time or again,    *)
(* makes the upload a longer beginning of the contents.                      *)
LEMMA PartDone ==
    ASSUME TransferInv(xf), Multipart(xf.task), TransferRequest = "part",
           NEW c, c = Carried(xf, TransferRequest)
    PROVE  /\ c.ok = TRUE /\ Kept(xf, c.x) /\ c.x.data = xf.data /\ c.x.store = xf.store
           /\ xf.offset \in Nat /\ xf.task.size \in Nat /\ xf.offset < xf.task.size
           /\ PartEnd(xf) \in xf.offset .. xf.task.size
           /\ Len(c.x.uploads) = Len(xf.uploads) /\ Len(xf.uploads) \in Nat \ {0}
           /\ c.x.uploads[Len(xf.uploads)].body = Whole(PartEnd(xf))
           /\ xf.pc = 2 /\ S3Write(xf.task) = <<"initiate", "part", "complete">>
<1>1. xf \in FileRec /\ FilesInv(xf) /\ UploadInv(xf) BY DEF TransferInv, KindInv, Multipart
<1>2. /\ xf.task.op = "write" /\ xf.task.backend = "s3" /\ TransferProgram(xf.task) = S3Write(xf.task)
      /\ xf.task.size \in Nat
      /\ xf.task.size > 0 => S3Write(xf.task) = <<"initiate", "part", "complete">>
      /\ xf.task.size = 0 => S3Write(xf.task) = <<"initiate", "complete">>
  BY <1>1, UploadPrograms
<1>3. xf.uploads \in Seq(Upload) /\ xf.offset \in Nat /\ xf.pc \in Nat BY <1>1 DEF FileRec
<1>4. xf.pc = 2 /\ xf.task.size > 0 BY <1>1, <1>2, <1>3 DEF TransferRequest, UploadInv
<1>5. S3Write(xf.task) = <<"initiate", "part", "complete">> BY <1>2, <1>4
<1> DEFINE u == Len(xf.uploads)
           e == PartEnd(xf)
           o == xf.offset
           n == xf.task.size
<1>6. u \in Nat \ {0} /\ u \in 1 .. Len(xf.uploads) /\ o < n
      /\ xf.uploads[u].body \in {Whole(o), Whole(e)}
  BY <1>1, <1>3, <1>4, <1>5 DEF UploadInv
<1>7. e \in o .. n /\ o \in 0 .. e /\ e \in Nat /\ o \in 0 .. n
  BY <1>2, <1>3, <1>6, FileStoreAssumption DEF PartEnd
<1>8. xf.uploads[u] \in Upload BY <1>3, <1>6
<1>9. NewContent = Whole(n) BY <1>1, ContentTypes
<1> DEFINE body == SubSeq(xf.uploads[u].body, 1, o) \o SubSeq(Whole(n), o + 1, e)
           w == [xf.uploads[u] EXCEPT !.body = body]
           ups == [xf.uploads EXCEPT ![u] = w]
<1>10. c = [ok |-> TRUE, x |-> [xf EXCEPT !.uploads[u].body = body]] BY <1>9 DEF Carried
<1>11. [xf EXCEPT !.uploads[u].body = body] = [xf EXCEPT !.uploads = ups] BY <1>1, <1>3 DEF FileRec
<1>12. body = Whole(e) /\ Whole(e) \in Seq(Nat)
  <2>1. SubSeq(xf.uploads[u].body, 1, o) = Whole(o)
    <3>1. SubSeq(Whole(o), 1, o) = Whole(o) BY <1>3, WholePrefix
    <3>2. SubSeq(Whole(e), 1, o) = Whole(o) BY SMTT(20), <1>7, WholePrefix
    <3>3. QED BY <1>6, <3>1, <3>2
  <2>2. Whole(o) \o SubSeq(Whole(n), o + 1, e) = Whole(e) BY Zenon, <1>2, <1>7, WholeJoined
  <2>3. QED BY Zenon, <1>7, <2>1, <2>2, WholeSeq
<1> HIDE DEF body
<1>13. w \in Upload /\ w.body = Whole(e) BY <1>8, <1>12 DEF Upload
<1> HIDE DEF w
<1>14. ups \in Seq(Upload) /\ Len(ups) = u /\ ups[u] = w BY <1>3, <1>6, <1>13, UploadSet
<1> HIDE DEF ups
<1>15. c.ok = TRUE /\ c.x = [xf EXCEPT !.uploads = ups] BY SMTT(20), <1>10, <1>11
<1>16. Kept(xf, c.x) /\ c.x.uploads = ups /\ c.x.data = xf.data /\ c.x.store = xf.store
  BY <1>1, <1>14, <1>15, UploadsKeep
<1>17. QED BY <1>2, <1>3, <1>4, <1>5, <1>6, <1>7, <1>13, <1>14, <1>15, <1>16

(* After a part the next one is due, or the end of the upload.               *)
LEMMA PartFollows ==
    ASSUME NEW x \in FileRec, TransferProgram(x.task) = <<"initiate", "part", "complete">>, x.pc = 2,
           NEW y, y = NextRequest(x), PartEnd(x) \in Nat
    PROVE  /\ y \in FileRec
           /\ y.data = x.data /\ y.store = x.store /\ y.task = x.task /\ y.offset = PartEnd(x)
           /\ y.synced = x.synced /\ y.missed = x.missed /\ y.uploads = x.uploads /\ y.result = x.result
           /\ y.pc = IF PartEnd(x) < x.task.size THEN 2 ELSE 3
<1> DEFINE z == [x EXCEPT !.try = IF x.task.backend = "s3" THEN 0 ELSE @, !.offset = PartEnd(x)]
<1>1. TransferProgram(x.task)[x.pc] = "part" /\ x.pc # Len(TransferProgram(x.task)) OBVIOUS
<1>2. z.offset = PartEnd(x) BY DEF FileRec
<1>3. y = IF z.offset < x.task.size THEN z ELSE [z EXCEPT !.pc = @ + 1]
  BY <1>1 DEF NextRequest
<1>4. (IF x.task.backend = "s3" THEN 0 ELSE x.try) \in Nat BY DEF FileRec
<1>5. z \in FileRec BY Zenon, <1>4 DEF FileRec
<1>6. /\ z.data = x.data /\ z.store = x.store /\ z.task = x.task
      /\ z.synced = x.synced /\ z.missed = x.missed /\ z.uploads = x.uploads
      /\ z.pc = x.pc /\ z.result = x.result
  BY DEF FileRec
<1> HIDE DEF z
<1>7. CASE PartEnd(x) < x.task.size
  <2>1. y = z BY <1>2, <1>3, <1>7
  <2>2. QED BY <1>2, <1>5, <1>6, <1>7, <2>1
<1>8. CASE ~(PartEnd(x) < x.task.size)
  <2>1. y = [z EXCEPT !.pc = z.pc + 1] BY <1>2, <1>3, <1>8
  <2>2. z.pc + 1 \in Nat BY SMTT(20), <1>5 DEF FileRec
  <2>3. y \in FileRec BY Zenon, <1>5, <2>1, <2>2 DEF FileRec
  <2>4. QED BY <1>2, <1>5, <1>6, <1>8, <2>1, <2>3 DEF FileRec
<1>9. QED BY <1>7, <1>8

(* put_multipart_chunk keeps the invariant, answered or not.                 *)
LEMMA PartGoesOn ==
    ASSUME TransferInv(xf), xf.result = "running", Multipart(xf.task), TransferRequest = "part",
           NEW c, c = Carried(xf, TransferRequest)
    PROVE  GoesOn(c)
<1>1. xf \in FileRec /\ FilesInv(xf) /\ UploadInv(xf) BY DEF TransferInv, KindInv, Multipart
<1>2. /\ xf.task.op = "write" /\ xf.task.backend = "s3" /\ TransferProgram(xf.task) = S3Write(xf.task)
  BY <1>1, UploadPrograms
<1> DEFINE z == c.x
           y == NextRequest(z)
           l == [z EXCEPT !.missed = @ \/ TRUE]
           e == PartEnd(xf)
           u == Len(xf.uploads)
<1>3. /\ c.ok = TRUE /\ Kept(xf, z) /\ z.data = xf.data /\ z.store = xf.store
      /\ xf.offset \in Nat /\ xf.task.size \in Nat /\ xf.offset < xf.task.size
      /\ e \in xf.offset .. xf.task.size
      /\ Len(z.uploads) = u /\ u \in Nat \ {0}
      /\ z.uploads[u].body = Whole(e)
      /\ xf.pc = 2 /\ S3Write(xf.task) = <<"initiate", "part", "complete">>
  BY Zenon, PartDone
<1>4. z = c.x /\ y = NextRequest(z) /\ y = NextRequest(c.x) /\ l = [z EXCEPT !.missed = @ \/ TRUE] OBVIOUS
<1> HIDE DEF z, y, l
<1>5. /\ z \in FileRec /\ FilesInv(z) /\ z.task = xf.task /\ z.pc = 2 /\ z.offset = xf.offset
      /\ z.result = "running" /\ z.missed = xf.missed /\ PartEnd(z) = e
  BY <1>3 DEF Kept, PartEnd
<1>6. /\ xf.store["src"] = 0 /\ (xf.task.was => xf.store["dst"] # 0) /\ (~xf.missed => u <= 1)
  BY <1>1 DEF UploadInv
<1> HIDE DEF e
<1>7. TransferInv(y)
  <2>1. e \in Nat /\ TransferProgram(z.task) = <<"initiate", "part", "complete">> BY <1>2, <1>3, <1>5
  <2>2. /\ y \in FileRec
        /\ y.data = z.data /\ y.store = z.store /\ y.task = z.task /\ y.offset = e
        /\ y.missed = z.missed /\ y.uploads = z.uploads /\ y.result = z.result
        /\ y.pc = IF e < z.task.size THEN 2 ELSE 3
    BY <1>4, <1>5, <2>1, PartFollows
  <2>3. FilesInv(y) BY <1>5, <2>2, NextFiles
  <2>4. y.task = xf.task /\ y.store = xf.store /\ y.missed = xf.missed /\ y.result = "running"
    BY <1>3, <1>5, <2>2
  <2>5. CASE e < xf.task.size
    <3>1. y.pc = 2 BY SMTT(20), <1>5, <2>2, <2>5
    <3>2. UploadInv(y) BY SMTT(20), <1>3, <1>6, <2>2, <2>4, <2>5, <3>1 DEF UploadInv
    <3>3. QED BY <1>2, <2>2, <2>3, <2>4, <3>2 DEF TransferInv, KindInv
  <2>6. CASE ~(e < xf.task.size)
    <3>1. y.pc = 3 /\ e = xf.task.size BY <1>3, <1>5, <2>2, <2>6
    <3>2. /\ S3Write(y.task) = <<"initiate", "part", "complete">> /\ Len(y.uploads) = u
          /\ y.uploads[u].body = Whole(y.task.size)
      BY SMTT(20), <1>3, <2>2, <2>4, <3>1
    <3>3. UploadInv(y) BY <1>3, <1>6, <2>4, <3>1, <3>2 DEF UploadInv
    <3>4. QED BY <1>2, <2>2, <2>3, <2>4, <3>3 DEF TransferInv, KindInv
  <2>7. QED BY <2>5, <2>6
<1>8. TransferInv(l) /\ l.result = "running"
  <2>1. Unanswered(z, l) BY <1>3, <1>4, LostDone
  <2>2. /\ l \in FileRec /\ FilesInv(l) /\ l.task = xf.task /\ l.store = xf.store /\ l.uploads = z.uploads
        /\ l.missed /\ l.offset = xf.offset /\ l.pc = 2 /\ l.result = "running"
    BY <1>3, <2>1 DEF Unanswered
  <2>3. PartEnd(l) = e BY SMTT(20), <2>2 DEF PartEnd, e
  <2>4. UploadInv(l) BY SMTT(20), <1>3, <1>6, <2>2, <2>3 DEF UploadInv
  <2>5. QED BY <1>2, <2>2, <2>4 DEF TransferInv, KindInv
<1>9. l = [c.x EXCEPT !.missed = @ \/ c.ok] BY <1>3, <1>4
<1>10. QED BY <1>4, <1>7, <1>8, <1>9 DEF GoesOn

(* complete_multipart_upload keeps the invariant, answered or not: all parts *)
(* have arrived.                                                             *)
LEMMA CompleteGoesOn ==
    ASSUME TransferInv(xf), xf.result = "running", Multipart(xf.task), TransferRequest = "complete",
           NEW c, c = Carried(xf, TransferRequest)
    PROVE  GoesOn(c)
<1>1. xf \in FileRec /\ FilesInv(xf) /\ UploadInv(xf) BY DEF TransferInv, KindInv, Multipart
<1>2. /\ xf.task.op = "write" /\ xf.task.backend = "s3" /\ TransferProgram(xf.task) = S3Write(xf.task)
      /\ xf.task.size \in Nat
      /\ xf.task.size > 0 => S3Write(xf.task) = <<"initiate", "part", "complete">>
      /\ xf.task.size = 0 => S3Write(xf.task) = <<"initiate", "complete">>
  BY <1>1, UploadPrograms
<1>3. xf.uploads \in Seq(Upload) /\ xf.pc \in Nat BY <1>1 DEF FileRec
<1>4. xf.pc = Len(S3Write(xf.task)) /\ xf.pc > 1 /\ S3Write(xf.task)[xf.pc] = "complete"
  <2>1. xf.pc \in 1 .. Len(S3Write(xf.task)) BY <1>1 DEF UploadInv
  <2>2. S3Write(xf.task)[xf.pc] = "complete" BY <1>2 DEF TransferRequest
  <2>3. CASE xf.task.size > 0
    <3>1. S3Write(xf.task) = <<"initiate", "part", "complete">> BY <1>2, <2>3
    <3>2. xf.pc \in {1, 2, 3} /\ xf.pc # 1 /\ xf.pc # 2 BY <2>1, <2>2, <3>1
    <3>3. QED BY <2>2, <3>1, <3>2
  <2>4. CASE xf.task.size = 0
    <3>1. S3Write(xf.task) = <<"initiate", "complete">> BY <1>2, <2>4
    <3>2. xf.pc \in {1, 2} /\ xf.pc # 1 BY <2>1, <2>2, <3>1
    <3>3. QED BY <2>2, <3>1, <3>2
  <2>5. QED BY <1>2, <2>3, <2>4
<1> DEFINE u == Len(xf.uploads)
           z == c.x
           p == PutFile(xf, "dst", Whole(xf.task.size))
<1>5. u \in 1 .. Len(xf.uploads) /\ xf.uploads[u].body = Whole(xf.task.size)
  BY <1>1, <1>3, <1>4 DEF UploadInv
<1>6. Whole(xf.task.size) \in Seq(Nat) BY <1>2, WholeSeq
<1>7. c = IF ~xf.uploads[u].open THEN [ok |-> FALSE, x |-> xf]
          ELSE [ok |-> TRUE, x |-> [p EXCEPT !.uploads[u].open = FALSE]]
  BY <1>5 DEF Carried
<1>8. CASE ~xf.uploads[u].open BY Zenon, <1>7, <1>8, RefusedGoesOn
<1>9. CASE xf.uploads[u].open
  <2>1. c.ok = TRUE /\ z = [p EXCEPT !.uploads[u].open = FALSE] /\ z = c.x BY <1>7, <1>9
  <2>2. PutDone(p, "dst", Whole(xf.task.size)) BY SMTT(20), <1>1, <1>6, PutKeeps
  <2>3. Kept(xf, p) /\ NewThere(p) /\ p.uploads = xf.uploads /\ p.store["src"] = xf.store["src"]
    <3>1. /\ Kept(xf, p) /\ p.uploads = xf.uploads /\ p.store["src"] = xf.store["src"]
          /\ p.data[p.store["dst"]] = Whole(xf.task.size) /\ p.store["dst"] # 0
      BY ZenonT(20), <2>2, "src" \in {"src", "dst"} \ {"dst"} DEF PutDone
    <3>2. QED BY ZenonT(20), <3>1 DEF Kept, NewThere
  <2>4. p \in FileRec /\ FilesInv(p) BY <2>3 DEF Kept
  <2> DEFINE w == [xf.uploads[u] EXCEPT !.open = FALSE]
             ups == [xf.uploads EXCEPT ![u] = w]
  <2>5. [p EXCEPT !.uploads[u].open = FALSE] = [p EXCEPT !.uploads = ups] BY Zenon, <2>3, <2>4 DEF FileRec
  <2>6. xf.uploads[u] \in Upload BY <1>3, <1>5
  <2>7. w \in Upload /\ w.body = Whole(xf.task.size) BY Zenon, <1>5, <2>6 DEF Upload
  <2> HIDE DEF w, p
  <2>8. ups \in Seq(Upload) /\ Len(ups) = u /\ ups[u] = w BY <1>3, <1>5, <2>7, UploadSet
  <2> HIDE DEF ups, z
  <2>9. z = [p EXCEPT !.uploads = ups] BY <2>1, <2>5
  <2>10. z \in FileRec BY ZenonT(40), <2>4, <2>8, <2>9 DEF FileRec
  <2>11. /\ z.data = p.data /\ z.store = p.store /\ z.task = p.task /\ z.pc = p.pc /\ z.offset = p.offset
         /\ z.result = p.result /\ z.missed = p.missed /\ z.uploads = ups
    BY <2>4, <2>9 DEF FileRec
  <2>12. Kept(xf, z) /\ NewThere(z) BY <2>3, <2>4, <2>10, <2>11, NextFiles DEF Kept
  <2>13. ASSUME NEW y, Advanced(z, y) \/ Unanswered(z, y) PROVE KindInv(y)
    <3>1. /\ y.task = xf.task /\ y.pc = xf.pc /\ y.result \in {"ok", "running"} /\ y.uploads = ups
          /\ y.store = p.store /\ NewThere(y) /\ (y.missed = xf.missed \/ y.missed)
      BY <1>2, <1>4, <2>11, <2>12, <2>13 DEF Advanced, Unanswered
    <3>2. y.store["src"] = 0 /\ y.store["dst"] # 0 /\ (~xf.missed => u <= 1)
      BY <1>1, <2>3, <3>1 DEF UploadInv, NewThere
    <3>3. UploadInv(y) BY <1>4, <1>5, <2>7, <2>8, <3>1, <3>2 DEF UploadInv
    <3>4. QED BY <1>2, <3>1, <3>3 DEF KindInv
  <2>14. QED BY Zenon, <2>1, <2>12, <2>13, DoneGoesOn
<1>10. QED BY <1>8, <1>9

-----------------------------------------------------------------------------
(* Every request of every operation keeps the invariant, answered or not.    *)
LEMMA RequestGoesOn ==
    ASSUME TransferInv(xf), xf.result = "running", NEW c, c = Carried(xf, TransferRequest)
    PROVE  GoesOn(c)
<1>1. xf \in FileRec /\ KindInv(xf) BY DEF TransferInv
<1>2. xf.task \in Transfer BY <1>1 DEF FileRec
<1>3. CASE xf.task.op = "write" /\ xf.task.backend # "s3" BY <1>3, TempGoesOn
<1>4. CASE xf.task.op = "write" /\ xf.task.backend = "s3" /\ ~Multipart(xf.task) BY <1>4, PutGoesOn
<1>5. CASE Multipart(xf.task)
  <2>1. UploadInv(xf) BY <1>1, <1>5 DEF KindInv, Multipart
  <2>2. /\ TransferProgram(xf.task) = S3Write(xf.task) /\ xf.task.size \in Nat
        /\ xf.task.size > 0 => S3Write(xf.task) = <<"initiate", "part", "complete">>
        /\ xf.task.size = 0 => S3Write(xf.task) = <<"initiate", "complete">>
    BY <1>1, <1>5, UploadPrograms
  <2>3. xf.pc \in 1 .. Len(S3Write(xf.task)) BY <2>1 DEF UploadInv
  <2>4. xf.pc = 1 \/ TransferRequest = "part" \/ TransferRequest = "complete"
    BY <2>2, <2>3 DEF TransferRequest
  <2>5. QED BY <1>5, <2>4, InitiateGoesOn, PartGoesOn, CompleteGoesOn
<1>6. CASE xf.task.op = "rename" BY <1>6, RenameGoesOn
<1>7. CASE xf.task.op = "remove" BY <1>7, RemoveRequests, ExistsGoesOn, DeleteGoesOn
<1>8. QED BY <1>2, <1>3, <1>4, <1>5, <1>6, <1>7 DEF Transfer

(* RequestAnswered keeps the invariant.                                      *)
LEMMA AnsweredKeeps ==
    ASSUME TransferInv(xf), RequestAnswered
    PROVE  TransferInv(xf')
<1> DEFINE c == Carried(xf, TransferRequest)
<1>1. xf.result = "running" /\ xf' = IF c.ok THEN NextRequest(c.x) ELSE FailedTry(xf)
  BY DEF RequestAnswered, TransferRunning
<1>2. GoesOn(c) BY <1>1, RequestGoesOn
<1> HIDE DEF c
<1>3. CASE c.ok BY <1>1, <1>2, <1>3 DEF GoesOn
<1>4. CASE ~c.ok
  <2>1. xf' = FailedTry(xf) BY <1>1, <1>4
  <2>2. QED BY <1>1, <2>1, FailedKeeps
<1>5. QED BY <1>3, <1>4

(* AnswerLost keeps the invariant.                                           *)
LEMMA LostKeeps ==
    ASSUME TransferInv(xf), AnswerLost
    PROVE  TransferInv(xf')
<1> DEFINE c == Carried(xf, TransferRequest)
           l == [c.x EXCEPT !.missed = @ \/ c.ok]
<1>1. xf.result = "running" /\ xf.task.backend # "local" /\ xf' = FailedTry(l)
  BY DEF AnswerLost, TransferRunning
<1>2. GoesOn(c) BY <1>1, RequestGoesOn
<1>3. TransferInv(l) /\ l.result = "running" BY <1>1, <1>2 DEF GoesOn
<1> HIDE DEF l
<1>4. QED BY <1>1, <1>3, FailedKeeps

(* Where a file is written to, asked for, and where an old one is cleared    *)
(* away.                                                                     *)
LEMMA RequestsOf ==
    ASSUME TransferInv(xf), TransferRequest \in {"clear", "write", "exists"}
    PROVE  \/ xf.task.op = "write" /\ xf.task.backend # "s3" /\ xf.pc = 2 /\ TransferRequest = "write"
           \/ /\ xf.task.op = "write" /\ xf.task.backend = "sftp" /\ xf.pc = 3 /\ TransferRequest = "clear"
              /\ Len(TransferProgram(xf.task)) = 4
           \/ /\ xf.task.op = "rename" /\ xf.task.backend = "sftp" /\ xf.pc = 1 /\ TransferRequest = "clear"
              /\ Len(TransferProgram(xf.task)) = 2
           \/ xf.task.op = "remove" /\ TransferRequest = "exists"
<1>1. xf \in FileRec /\ KindInv(xf) BY DEF TransferInv
<1>2. xf.task \in Transfer BY <1>1 DEF FileRec
<1> DEFINE program == TransferProgram(xf.task)
<1>3. TransferRequest = program[xf.pc] BY DEF TransferRequest
<1>4. CASE xf.task.op = "write" /\ xf.task.backend = "local"
  <2>1. program = <<"create", "write", "sync", "rename">> BY <1>4 DEF TransferProgram, LocalProgram
  <2>2. xf.pc \in {1, 2, 3, 4} BY <1>1, <1>4 DEF KindInv, TempInv
  <2> HIDE DEF program
  <2>3. QED BY <1>3, <1>4, <2>1, <2>2
<1>5. CASE xf.task.op = "write" /\ xf.task.backend = "sftp"
  <2>1. program = <<"create", "write", "clear", "rename">>
    BY <1>5, SftpWriteProgram DEF TransferProgram, SftpProgram
  <2>2. xf.pc \in {1, 2, 3, 4} BY <1>1, <1>5 DEF KindInv, TempInv
  <2>3. program[1] # TransferRequest /\ program[4] # TransferRequest /\ program[2] = "write" /\ program[3] = "clear"
        /\ Len(program) = 4
    BY <2>1
  <2> HIDE DEF program
  <2>4. CASE xf.pc = 2 BY <1>3, <1>5, <2>3, <2>4
  <2>5. CASE xf.pc = 3 BY <1>3, <1>5, <2>3, <2>5 DEF program
  <2>6. QED BY <1>3, <2>2, <2>3, <2>4, <2>5
<1>6. CASE xf.task.op = "write" /\ xf.task.backend = "s3" /\ ~Multipart(xf.task)
  <2>1. program = <<"put">> BY <1>6 DEF TransferProgram, S3Write
  <2>2. xf.pc = 1 BY <1>1, <1>6 DEF KindInv, PutInv
  <2>3. QED BY <1>3, <2>1, <2>2
<1>7. CASE Multipart(xf.task)
  <2>1. UploadInv(xf) BY <1>1, <1>7 DEF KindInv, Multipart
  <2>2. /\ program = S3Write(xf.task) /\ xf.task.size \in Nat
        /\ xf.task.size > 0 => S3Write(xf.task) = <<"initiate", "part", "complete">>
        /\ xf.task.size = 0 => S3Write(xf.task) = <<"initiate", "complete">>
    BY <1>1, <1>7, UploadPrograms
  <2>3. xf.pc \in 1 .. Len(S3Write(xf.task)) BY <2>1 DEF UploadInv
  <2>4. TransferRequest \in {"initiate", "part", "complete"} BY <1>3, <2>2, <2>3
  <2>5. QED BY <2>4
<1>8. CASE xf.task.op = "rename"
  <2>1. RenameInv(xf) BY <1>1, <1>8 DEF KindInv
  <2>2. CASE xf.task.backend = "local"
    <3>1. program = <<"rename">> BY <1>8, <2>2 DEF TransferProgram, LocalProgram
    <3>2. xf.pc = 1 BY <2>1, <2>2 DEF RenameInv
    <3>3. QED BY <1>3, <3>1, <3>2
  <2>3. CASE xf.task.backend = "sftp"
    <3>1. program = <<"clear", "rename">> BY <1>8, <2>3 DEF TransferProgram, SftpProgram, RenameFull
    <3>2. xf.pc \in {1, 2} BY <2>1 DEF RenameInv
    <3>3. QED BY <1>3, <1>8, <2>3, <3>1, <3>2
  <2>4. CASE xf.task.backend = "s3"
    <3>1. program = <<"copy", "delete">> BY <1>8, <2>4 DEF TransferProgram, S3Rename
    <3>2. xf.pc \in {1, 2} BY <2>1 DEF RenameInv
    <3>3. QED BY <1>3, <3>1, <3>2
  <2>5. QED BY <1>2, <2>2, <2>3, <2>4 DEF Transfer
<1>9. CASE xf.task.op = "remove" BY <1>9, RemoveRequests
<1>10. QED BY <1>2, <1>4, <1>5, <1>6, <1>7, <1>8, <1>9 DEF Transfer

(* RequestRefused keeps the invariant: what a write left is in the temporary *)
(* file, and a clear that failed leaves the old file.                        *)
LEMMA RefusedKeeps ==
    ASSUME TransferInv(xf), RequestRefused
    PROVE  TransferInv(xf')
<1>1. xf \in FileRec /\ FilesInv(xf) /\ KindInv(xf) /\ xf.result = "running"
  BY DEF TransferInv, RequestRefused, TransferRunning
<1>2. CASE xf' = FailedTry(xf) BY <1>1, <1>2, FailedKeeps
<1>3. CASE TransferRequest = "clear" /\ xf' = NextRequest(xf)
  <2> DEFINE y == NextRequest(xf)
  <2>1. Kept(xf, xf) BY <1>1 DEF Kept
  <2>2. Advanced(xf, y) BY <1>3, <2>1, NextDone
  <2> HIDE DEF y
  <2>3. /\ y \in FileRec /\ FilesInv(y) /\ y.task = xf.task /\ y.data = xf.data /\ y.store = xf.store
        /\ y.uploads = xf.uploads /\ y.missed = xf.missed
        /\ xf.pc # Len(TransferProgram(xf.task)) => y.pc = xf.pc + 1 /\ y.result = "running"
    BY SMTT(20), <1>1, <2>2 DEF Advanced
  <2>4. CASE /\ xf.task.op = "write" /\ xf.task.backend = "sftp" /\ xf.pc = 3
             /\ Len(TransferProgram(xf.task)) = 4
    <3>1. TempInv(y) BY SMTT(20), <1>1, <2>3, <2>4 DEF KindInv, TempInv
    <3>2. QED BY SMTT(20), <1>3, <2>3, <2>4, <3>1 DEF TransferInv, KindInv, Multipart, y
  <2>5. CASE /\ xf.task.op = "rename" /\ xf.task.backend = "sftp" /\ xf.pc = 1
             /\ Len(TransferProgram(xf.task)) = 2
    <3>1. RenameInv(y) BY <1>1, <2>3, <2>5 DEF KindInv, RenameInv
    <3>2. QED BY SMTT(20), <1>3, <2>3, <2>5, <3>1 DEF TransferInv, KindInv, Multipart, y
  <2>6. QED BY <1>3, <2>4, <2>5, RequestsOf
<1>4. CASE TransferRequest = "write" /\ xf.store["src"] # 0
           /\ \E n \in 0 .. xf.task.size :
                xf' = FailedTry([xf EXCEPT !.data[xf.store["src"]] = SubSeq(NewContent, 1, n)])
  <2>1. PICK n \in 0 .. xf.task.size :
          xf' = FailedTry([xf EXCEPT !.data[xf.store["src"]] = SubSeq(NewContent, 1, n)])
    BY <1>4
  <2>2. xf.task.op = "write" /\ xf.task.backend # "s3" /\ xf.pc = 2 BY <1>4, RequestsOf
  <2>3. NewContent = Whole(xf.task.size) /\ xf.task.size \in Nat BY <1>1, ContentTypes
  <2>4. SubSeq(NewContent, 1, n) = Whole(n) BY ZenonT(40), <2>3, WholePrefix
  <2>5. Whole(n) \in Seq(Nat) BY <2>3, WholeSeq
  <2> DEFINE z == [xf EXCEPT !.data[xf.store["src"]] = Whole(n)]
  <2>6. xf' = FailedTry(z) BY SMTT(20), <2>1, <2>4
  <2>7. /\ Kept(xf, z) /\ z.uploads = xf.uploads /\ z.synced = xf.synced /\ z.store = xf.store
    BY <1>1, <1>4, <2>5, TempWritten
  <2> HIDE DEF z
  <2>8. z \in FileRec /\ FilesInv(z) /\ z.task = xf.task /\ z.pc = 2 /\ z.result = "running"
    BY <1>1, <2>2, <2>7 DEF Kept
  <2>9. TempInv(z) BY SMTT(20), <1>1, <2>2, <2>7, <2>8 DEF KindInv, TempInv
  <2>10. TransferInv(z) BY <2>2, <2>8, <2>9 DEF TransferInv, KindInv, Multipart
  <2>11. QED BY <2>6, <2>8, <2>10, FailedKeeps
<1>5. CASE TransferRequest = "exists" /\ xf' = TransferReturns([xf EXCEPT !.unseen = TRUE], "ok")
  <2>1. xf.task.op = "remove" BY <1>5, RequestsOf
  <2>2. xf' = [xf EXCEPT !.unseen = TRUE, !.result = "ok"] BY <1>5 DEF TransferReturns
  <2>3. xf' \in FileRec BY ZenonT(40), <1>1, <2>2 DEF FileRec, Results
  <2>4. /\ xf'.task = xf.task /\ xf'.data = xf.data /\ xf'.store = xf.store /\ xf'.uploads = xf.uploads
        /\ xf'.pc = xf.pc /\ xf'.result = "ok" /\ xf'.unseen
    BY <1>1, <2>2 DEF FileRec
  <2>5. FilesInv(xf') BY <1>1, <2>4, NextFiles
  <2>6. RemoveInv(xf') BY <1>1, <2>1, <2>4 DEF KindInv, RemoveInv
  <2>7. QED BY <2>1, <2>3, <2>4, <2>5, <2>6 DEF TransferInv, KindInv, Multipart
<1>6. QED BY ZenonT(40), <1>2, <1>3, <1>4, <1>5 DEF RequestRefused

(* UploadAborted keeps the invariant: the upload is the last one that was    *)
(* begun.                                                                    *)
LEMMA AbortedKeeps ==
    ASSUME TransferInv(xf), UploadAborted
    PROVE  TransferInv(xf')
<1>1. xf \in FileRec /\ FilesInv(xf) /\ Multipart(xf.task) /\ xf.result = "abort" /\ KindInv(xf)
  BY DEF TransferInv, UploadAborted
<1>2. xf.task.op = "write" /\ xf.task.backend = "s3" /\ UploadInv(xf) BY <1>1 DEF KindInv, Multipart
<1>3. xf.uploads \in Seq(Upload) BY <1>1 DEF FileRec
<1> DEFINE u == Len(xf.uploads)
<1>4. u \in Nat /\ u > 0 /\ u \in 1 .. Len(xf.uploads) BY SMTT(20), <1>1, <1>2, <1>3 DEF UploadInv
<1>5. CASE xf' = TransferReturns([xf EXCEPT !.uploads[Len(xf.uploads)].open = FALSE], "failed")
  <2> DEFINE w == [xf.uploads[u] EXCEPT !.open = FALSE]
             ups == [xf.uploads EXCEPT ![u] = w]
             y == [xf EXCEPT !.uploads = ups, !.result = "failed"]
  <2>1. xf' = y BY <1>1, <1>5 DEF TransferReturns, FileRec
  <2>2. xf.uploads[u] \in Upload BY <1>3, <1>4
  <2>3. w \in Upload /\ w.body = xf.uploads[u].body /\ w.open = FALSE BY Zenon, <2>2 DEF Upload
  <2> HIDE DEF w
  <2>4. ups \in Seq(Upload) /\ Len(ups) = u /\ ups[u] = w BY <1>3, <1>4, <2>3, UploadSet
  <2> HIDE DEF ups
  <2>5. y \in FileRec BY Zenon, <1>1, <2>4 DEF FileRec, Results
  <2>6. /\ y.data = xf.data /\ y.store = xf.store /\ y.task = xf.task /\ y.pc = xf.pc /\ y.offset = xf.offset
        /\ y.missed = xf.missed /\ y.result = "failed" /\ y.uploads = ups
    BY <1>1 DEF FileRec
  <2> HIDE DEF y
  <2>7. FilesInv(y) BY <1>1, <2>6, NextFiles
  <2>8. PartEnd(y) = PartEnd(xf) BY <2>6 DEF PartEnd
  <2>9. Len(y.uploads) = u /\ y.uploads[u].body = xf.uploads[u].body /\ ~y.uploads[u].open BY SMTT(20), <2>3, <2>4, <2>6
  <2>10. UploadInv(y) BY SMTT(20), <1>2, <1>4, <2>6, <2>8, <2>9 DEF UploadInv
  <2>11. QED BY <1>1, <1>2, <2>1, <2>5, <2>6, <2>7, <2>10 DEF TransferInv, KindInv
<1>6. CASE xf' = TransferReturns([xf EXCEPT !.missed = TRUE], "failed")
  <2> DEFINE y == [xf EXCEPT !.missed = TRUE, !.result = "failed"]
  <2>1. xf' = y BY <1>1, <1>6 DEF TransferReturns, FileRec
  <2>2. y \in FileRec BY Zenon, <1>1 DEF FileRec, Results
  <2>3. /\ y.data = xf.data /\ y.store = xf.store /\ y.task = xf.task /\ y.pc = xf.pc /\ y.offset = xf.offset
        /\ y.missed = TRUE /\ y.result = "failed" /\ y.uploads = xf.uploads
    BY <1>1 DEF FileRec
  <2> HIDE DEF y
  <2>4. FilesInv(y) BY <1>1, <2>3, NextFiles
  <2>5. PartEnd(y) = PartEnd(xf) BY SMTT(20), <2>3 DEF PartEnd
  <2>6. UploadInv(y) BY <1>2, <1>4, <2>3, <2>5 DEF UploadInv
  <2>7. QED BY <1>1, <1>2, <2>1, <2>2, <2>3, <2>4, <2>6 DEF TransferInv, KindInv
<1>7. QED BY <1>5, <1>6 DEF UploadAborted

(* TransferKilled keeps the invariant.                                       *)
LEMMA KilledKeeps ==
    ASSUME TransferInv(xf), TransferKilled
    PROVE  TransferInv(xf')
<1> DEFINE y == [xf EXCEPT !.result = "killed"]
<1>1. xf' = y /\ xf.result = "running" BY DEF TransferKilled, TransferReturns, TransferRunning
<1>2. xf \in FileRec /\ FilesInv(xf) /\ KindInv(xf) BY DEF TransferInv
<1>3. y \in FileRec BY Zenon, <1>2 DEF FileRec, Results
<1>4. /\ y.data = xf.data /\ y.store = xf.store /\ y.task = xf.task /\ y.pc = xf.pc /\ y.offset = xf.offset
      /\ y.missed = xf.missed /\ y.result = "killed" /\ y.uploads = xf.uploads /\ y.synced = xf.synced
  BY <1>2 DEF FileRec
<1> HIDE DEF y
<1>5. FilesInv(y) BY <1>2, <1>4, NextFiles
<1>6. TempInv(xf) => TempInv(y) BY <1>1, <1>4 DEF TempInv
<1>7. PutInv(xf) => PutInv(y) BY <1>1, <1>4 DEF PutInv
<1>8. UploadInv(xf) => UploadInv(y)
  <2>1. PartEnd(y) = PartEnd(xf) BY <1>4 DEF PartEnd
  <2>2. QED BY <1>1, <1>4, <2>1 DEF UploadInv
<1>9. RenameInv(xf) => RenameInv(y) BY <1>1, <1>4 DEF RenameInv, NewThere
<1>10. RemoveInv(xf) => RemoveInv(y) BY SMTT(20), <1>1, <1>4 DEF RemoveInv
<1>11. KindInv(y) BY SMTT(20), <1>2, <1>4, <1>6, <1>7, <1>8, <1>9, <1>10 DEF KindInv
<1>12. QED BY <1>1, <1>3, <1>4, <1>5, <1>11 DEF TransferInv

(* PowerLost keeps the invariant: the contents were synced before the        *)
(* rename.                                                                   *)
LEMMA PowerKeeps ==
    ASSUME TransferInv(xf), PowerLost
    PROVE  TransferInv(xf')
<1>1. xf \in FileRec /\ FilesInv(xf) /\ KindInv(xf) BY DEF TransferInv
<1>2. xf.task.op = "write" /\ xf.task.backend = "local" BY DEF PowerLost
<1>3. TempInv(xf) BY <1>1, <1>2 DEF KindInv
<1>4. xf.task \in Transfer /\ xf.store \in Names /\ xf.data \in Seq(Seq(Nat)) BY <1>1 DEF FileRec
<1> DEFINE d == [i \in DOMAIN xf.data |->
                   IF xf.synced \/ xf.data[i] = OldContent THEN xf.data[i] ELSE <<>>]
<1>5. PICK store \in {xf.store, StoreBefore(xf.task)} :
        xf' = TransferReturns([xf EXCEPT !.store = store, !.data = d], "killed")
  BY Zenon DEF PowerLost
<1> DEFINE y == [xf EXCEPT !.store = store, !.data = d, !.result = "killed"]
<1>6. xf' = y BY <1>5 DEF TransferReturns
<1>7. /\ d \in Seq(Seq(Nat)) /\ Len(d) = Len(xf.data)
      /\ \A i \in 1 .. Len(xf.data) : d[i] = IF xf.synced \/ xf.data[i] = OldContent THEN xf.data[i] ELSE <<>>
  <2>1. DOMAIN xf.data = 1 .. Len(xf.data) /\ Len(xf.data) \in Nat BY <1>4
  <2>2. \A i \in 1 .. Len(xf.data) : d[i] = IF xf.synced \/ xf.data[i] = OldContent THEN xf.data[i] ELSE <<>>
    BY <2>1
  <2>3. \A i \in 1 .. Len(xf.data) : xf.data[i] \in Seq(Nat) /\ <<>> \in Seq(Nat) BY <1>4
  <2>4. \A i \in 1 .. Len(xf.data) : d[i] \in Seq(Nat) BY <2>2, <2>3
  <2>5. DOMAIN d = 1 .. Len(xf.data) /\ d = [i \in 1 .. Len(xf.data) |-> d[i]] BY <2>1
  <2> HIDE DEF d
  <2>6. d \in Seq(Seq(Nat)) /\ Len(d) = Len(xf.data) BY SMTT(20), <2>1, <2>4, <2>5
  <2>7. QED BY <2>2, <2>6
<1> HIDE DEF d
<1>8. /\ StoreBefore(xf.task) \in Names /\ StoreBefore(xf.task)["src"] = 0
      /\ StoreBefore(xf.task)["dst"] = IF xf.task.was THEN 2 ELSE 0
  BY <1>2 DEF StoreBefore, Names
<1>9. y \in FileRec BY Zenon, <1>1, <1>4, <1>7, <1>8 DEF FileRec, Results
<1>10. /\ y.data = d /\ y.store = store /\ y.task = xf.task /\ y.pc = xf.pc
       /\ y.result = "killed" /\ y.uploads = xf.uploads /\ y.synced = xf.synced
  BY <1>1 DEF FileRec
<1> HIDE DEF y
<1>11. Len(xf.data) >= 2 /\ xf.data[2] = OldContent /\ Len(xf.data) \in Nat BY <1>1, <1>4 DEF FilesInv
<1>12. d[2] = OldContent
  <2>1. 2 \in 1 .. Len(xf.data) BY <1>11
  <2>2. d[2] = xf.data[2] BY <1>7, <1>11, <2>1
  <2>3. QED BY <1>11, <2>2
<1>13. store["dst"] \in {0, 2} \/ (xf.synced /\ store = xf.store)
  BY <1>3, <1>2, <1>8 DEF TempInv
<1>14. store["dst"] # 0 => d[store["dst"]] \in {OldContent, Whole(xf.task.size)}
  <2>1. CASE store["dst"] \in {0, 2} BY <1>12, <2>1
  <2>2. CASE xf.synced /\ store = xf.store
    <3>1. store["dst"] # 0 => store["dst"] \in 1 .. Len(xf.data) BY <1>1, <1>4, <2>2 DEF FilesInv, Names
    <3>2. store["dst"] # 0 => d[store["dst"]] = xf.data[store["dst"]] BY <1>7, <2>2, <3>1
    <3>3. QED BY <1>1, <2>2, <3>2 DEF FilesInv
  <2>3. QED BY <1>13, <2>1, <2>2
<1>15. /\ store["src"] <= Len(d) /\ store["dst"] <= Len(d) /\ store["src"] # 2
       /\ store["src"] # 0 => store["src"] # store["dst"]
  <2>1. CASE store = xf.store BY <1>1, <1>7, <2>1 DEF FilesInv
  <2>2. CASE store = StoreBefore(xf.task) BY <1>7, <1>8, <1>11, <2>2
  <2>3. QED BY <1>5, <2>1, <2>2
<1>16. FilesInv(y) BY <1>7, <1>10, <1>11, <1>12, <1>14, <1>15 DEF FilesInv
<1>17. TempInv(y)
  <2>1. (xf.task.was => store["dst"] # 0)
        /\ (xf.synced \/ (xf.pc <= 3 /\ store["dst"] = StoreBefore(xf.task)["dst"]))
    <3>1. CASE store = xf.store BY <1>2, <1>3, <3>1 DEF TempInv
    <3>2. CASE store = StoreBefore(xf.task) BY <1>2, <1>3, <1>8, <3>2 DEF TempInv
    <3>3. QED BY <1>5, <3>1, <3>2
  <2>2. QED BY <1>2, <1>3, <1>10, <2>1 DEF TempInv
<1>18. QED BY <1>2, <1>6, <1>9, <1>10, <1>16, <1>17 DEF TransferInv, KindInv, Multipart

(* The invariant holds when an operation begins.                             *)
LEMMA StartHolds ==
    ASSUME TransferInit
    PROVE  TransferInv(xf)
<1>1. PICK t \in Transfers : xf = TransferStart(t) BY DEF TransferInit
<1>2. /\ t \in Transfer /\ t.was \in BOOLEAN /\ t.size \in Nat /\ t.op \in {"write", "rename", "remove"}
      /\ t.backend \in {"local", "sftp", "s3"}
  BY FileStoreAssumption DEF Transfer
<1> DEFINE d == <<Whole(t.size), OldContent>>
<1>3. /\ d \in Seq(Seq(Nat)) /\ Len(d) = 2 /\ d[1] = Whole(t.size) /\ d[2] = OldContent
  <2>1. Whole(t.size) \in Seq(Nat) /\ OldContent \in Seq(Nat) BY <1>2, WholeSeq DEF OldContent
  <2>2. QED BY <2>1
<1>4. /\ StoreBefore(t) \in Names /\ StoreBefore(t)["src"] = (IF t.op = "rename" THEN 1 ELSE 0)
      /\ StoreBefore(t)["dst"] = (IF t.was THEN 2 ELSE 0)
  BY DEF StoreBefore, Names
<1>5. xf = [task |-> t, pc |-> 1, try |-> 0, offset |-> 0, result |-> "running", synced |-> FALSE,
            uploads |-> <<>>, missed |-> FALSE, unseen |-> FALSE, store |-> StoreBefore(t), data |-> d]
  BY <1>1 DEF TransferStart, Whole
<1> HIDE DEF d
<1>6. /\ xf.task = t /\ xf.pc = 1 /\ xf.offset = 0 /\ xf.result = "running" /\ xf.synced = FALSE
      /\ xf.uploads = <<>> /\ xf.missed = FALSE /\ xf.store = StoreBefore(t) /\ xf.data = d
  BY <1>5
<1>7. <<>> \in Seq(Upload) OBVIOUS
<1>8. xf \in FileRec BY <1>2, <1>3, <1>4, <1>5, <1>7 DEF FileRec, Results
<1>9. FilesInv(xf)
  <2>1. xf.store["src"] \in {0, 1} /\ xf.store["dst"] \in {0, 2} BY <1>4, <1>6
  <2>2. Len(xf.data) = 2 /\ xf.data[2] = OldContent BY SMTT(20), <1>3, <1>6
  <2>3. QED BY <2>1, <2>2 DEF FilesInv
<1>10. CASE t.op = "write" /\ t.backend # "s3"
  <2>1. TempInv(xf) BY <1>4, <1>6, <1>10 DEF TempInv
  <2>2. QED BY <1>6, <1>8, <1>9, <1>10, <2>1 DEF TransferInv, KindInv, Multipart
<1>11. CASE t.op = "write" /\ t.backend = "s3" /\ ~Multipart(t)
  <2>1. PutInv(xf) BY <1>4, <1>6 DEF PutInv
  <2>2. QED BY <1>6, <1>8, <1>9, <1>11, <2>1 DEF TransferInv, KindInv
<1>12. CASE Multipart(t)
  <2>1. /\ t.op = "write" /\ S3Write(t)[1] = "initiate" /\ Len(S3Write(t)) >= 1
    BY <1>12 DEF S3Write, Multipart
  <2>2. Len(xf.uploads) = 0 BY <1>6
  <2>3. UploadInv(xf) BY <1>4, <1>6, <2>1, <2>2 DEF UploadInv
  <2>4. KindInv(xf) BY <1>6, <1>12, <2>1, <2>3 DEF KindInv, Multipart
  <2>5. QED BY <1>6, <1>8, <1>9, <2>4 DEF TransferInv
<1>13. CASE t.op = "rename"
  <2>1. RenameInv(xf) BY SMTT(20), <1>3, <1>4, <1>6, <1>13 DEF RenameInv
  <2>2. QED BY SMTT(20), <1>6, <1>8, <1>9, <1>13, <2>1 DEF TransferInv, KindInv, Multipart
<1>14. CASE t.op = "remove"
  <2>1. RemoveInv(xf) BY <1>6 DEF RemoveInv
  <2>2. QED BY <1>6, <1>8, <1>9, <1>14, <2>1 DEF TransferInv, KindInv, Multipart
<1>15. QED BY <1>2, <1>10, <1>11, <1>12, <1>13, <1>14

(* The invariant implies what is promised.                                   *)
LEMMA InvSafe ==
    ASSUME TransferInv(xf)
    PROVE  TransfersSafe
<1>1. xf \in FileRec /\ FilesInv(xf) /\ KindInv(xf) BY DEF TransferInv
<1>2. xf.task \in Transfer /\ xf.uploads \in Seq(Upload) BY <1>1 DEF FileRec
<1>3. NewContent = Whole(xf.task.size) BY <1>1, ContentTypes
<1>4. DstWhole BY <1>1, <1>3 DEF DstWhole, FilesInv, FileContent
<1>5. CASE xf.task.op = "write" /\ xf.task.backend # "s3"
  <2>1. TempInv(xf) BY <1>1, <1>5 DEF KindInv
  <2>2. StaysReadable BY <1>2, <1>5, <2>1 DEF StaysReadable, TempInv, Transfer
  <2>3. NothingLost BY <1>5 DEF NothingLost
  <2>4. OkMeansDone BY <1>3, <1>5, <2>1 DEF OkMeansDone, TempInv, NewThere, FileContent
  <2>5. UploadsClosed BY <2>1 DEF UploadsClosed, TempInv
  <2>6. QED BY <1>4, <2>2, <2>3, <2>4, <2>5 DEF TransfersSafe
<1>6. CASE xf.task.op = "write" /\ xf.task.backend = "s3" /\ ~Multipart(xf.task)
  <2>1. PutInv(xf) BY <1>1, <1>6 DEF KindInv
  <2>2. StaysReadable BY <2>1 DEF StaysReadable, PutInv
  <2>3. NothingLost BY <1>6 DEF NothingLost
  <2>4. OkMeansDone BY <1>3, <1>6, <2>1 DEF OkMeansDone, PutInv, NewThere, FileContent
  <2>5. UploadsClosed BY <2>1 DEF UploadsClosed, PutInv
  <2>6. QED BY <1>4, <2>2, <2>3, <2>4, <2>5 DEF TransfersSafe
<1>7. CASE Multipart(xf.task)
  <2>1. UploadInv(xf) /\ xf.task.op = "write" BY <1>1, <1>7 DEF KindInv, Multipart
  <2>2. StaysReadable BY <2>1 DEF StaysReadable, UploadInv
  <2>3. NothingLost BY <2>1 DEF NothingLost
  <2>4. OkMeansDone BY <1>3, <2>1 DEF OkMeansDone, UploadInv, NewThere, FileContent
  <2>5. UploadsClosed BY SMTT(20), <1>2, <2>1 DEF UploadsClosed, UploadInv
  <2>6. QED BY <1>4, <2>2, <2>3, <2>4, <2>5 DEF TransfersSafe
<1>8. CASE xf.task.op = "rename"
  <2>1. RenameInv(xf) BY <1>1, <1>8 DEF KindInv
  <2>2. StaysReadable BY <1>8 DEF StaysReadable
  <2>3. NothingLost BY <1>2, <1>3, <2>1 DEF NothingLost, RenameInv, NewThere, FileContent, Transfer
  <2>4. OkMeansDone BY <1>2, <1>3, <1>8, <2>1 DEF OkMeansDone, RenameInv, NewThere, FileContent, Transfer
  <2>5. UploadsClosed BY SMTT(20), <2>1 DEF UploadsClosed, RenameInv
  <2>6. QED BY <1>4, <2>2, <2>3, <2>4, <2>5 DEF TransfersSafe
<1>9. CASE xf.task.op = "remove"
  <2>1. RemoveInv(xf) BY <1>1, <1>9 DEF KindInv
  <2>2. StaysReadable BY <1>9 DEF StaysReadable
  <2>3. NothingLost BY <1>9 DEF NothingLost
  <2>4. OkMeansDone BY <1>9, <2>1 DEF OkMeansDone, RemoveInv
  <2>5. UploadsClosed BY <2>1 DEF UploadsClosed, RemoveInv
  <2>6. QED BY <1>4, <2>2, <2>3, <2>4, <2>5 DEF TransfersSafe
<1>10. QED BY <1>2, <1>5, <1>6, <1>7, <1>8, <1>9 DEF Transfer

(* LocalFS, SftpBackend, S3Backend, retry: whatever requests fail, are lost  *)
(* or are cut by a crash, a file is whole, old or new, stays where it can be *)
(* read, is not lost on its way to another name, an operation that reports   *)
(* success is done, and no upload stays open, with the exceptions that the   *)
(* parts of TransfersSafe name.                                              *)
THEOREM TransfersStaySafe == TransferSpec => []TransfersSafe
<1>1. TransferInit => TransferInv(xf) BY StartHolds
<1>2. TransferInv(xf) /\ [TransferNext]_xf => TransferInv(xf)'
  <2> SUFFICES ASSUME TransferInv(xf), [TransferNext]_xf PROVE TransferInv(xf')
    OBVIOUS
  <2>1. CASE RequestAnswered BY <2>1, AnsweredKeeps
  <2>2. CASE RequestRefused BY <2>2, RefusedKeeps
  <2>3. CASE AnswerLost BY <2>3, LostKeeps
  <2>4. CASE UploadAborted BY <2>4, AbortedKeeps
  <2>5. CASE TransferKilled BY <2>5, KilledKeeps
  <2>6. CASE PowerLost BY <2>6, PowerKeeps
  <2>7. CASE TransferDone \/ UNCHANGED xf BY <2>7 DEF TransferDone
  <2>8. QED BY <2>1, <2>2, <2>3, <2>4, <2>5, <2>6, <2>7 DEF TransferNext
<1>3. TransferInv(xf) => TransfersSafe BY InvSafe
<1>4. QED BY <1>1, <1>2, <1>3, PTL DEF TransferSpec

-----------------------------------------------------------------------------
(* The rate limiter.                                                         *)

PayerRec ==
    [pc : {"begin", "clock", "load", "swap", "sleep", "done"}, left : Nat, dry : BOOLEAN,
     now : Int, free : Int, due : Int]
GrantRec == [of : Payers, left : Nat, start : Int, amount : Nat, capped : BOOLEAN]

LimiterTypeInv ==
    /\ clock \in Int /\ nextFree \in Int
    /\ payer \in [Payers -> PayerRec] /\ grants \subseteq GrantRec

(* What was granted lies before the time that is free, unless the limiter    *)
(* was too far behind.                                                       *)
GrantsBehind == NoneCapped => \A g \in grants : g.start + g.amount <= nextFree

LimiterInv == LimiterTypeInv /\ GrantsBehind /\ GrantsDisjoint

(* A step that only changes a transfer, or the clock, keeps the invariant.   *)
LEMMA LimiterOther ==
    ASSUME LimiterInv, payer' \in [Payers -> PayerRec], clock' \in Int, UNCHANGED <<nextFree, grants>>
    PROVE  LimiterInv'
BY DEF LimiterInv, LimiterTypeInv, GrantsBehind, GrantsDisjoint, NoneCapped

(* consume: the payment whose compare_exchange succeeds starts where the     *)
(* last one ended or later.                                                  *)
LEMMA SwapKeeps ==
    ASSUME LimiterInv, NEW c \in Payers, Swap(c)
    PROVE  LimiterInv'
<1> DEFINE p == payer[c]
           start == StartTime(p.now, p.free)
           new == [of |-> c, left |-> p.left, start |-> start, amount |-> NextPart(c),
                   capped |-> start < Uncapped(p.now, p.free)]
<1>1. p \in PayerRec /\ nextFree \in Int /\ grants \subseteq GrantRec /\ nextFree = p.free
  BY SMTT(40) DEF LimiterInv, LimiterTypeInv, Swap
<1>2. /\ p.now \in Int /\ p.free \in Int /\ p.left \in Nat
      /\ Uncapped(p.now, p.free) \in Int /\ start \in Int /\ NextPart(c) \in Nat
      /\ Uncapped(p.now, p.free) >= nextFree
  BY <1>1, LimiterAssumption DEF PayerRec, Uncapped, StartTime, MaxOf, MinOf, NextPart
<1>3. nextFree' = start + NextPart(c) /\ grants' = grants \union {new} /\ clock' = clock
  BY SMTT(40) DEF Swap
<1>4. new \in GrantRec
  BY SMTT(40), <1>2 DEF GrantRec
<1>5. new.start = start /\ new.amount = NextPart(c) /\ (new.capped <=> start < Uncapped(p.now, p.free))
  BY Zenon
<1>6. payer' \in [Payers -> PayerRec]
  <2>1. clock + WaitTime(p.now, start) \in Int
    BY <1>2 DEF WaitTime, LimiterInv, LimiterTypeInv
  <2>2. payer' = [payer EXCEPT ![c].pc = "sleep", ![c].due = clock + WaitTime(p.now, start)]
    BY DEF Swap
  <2> HIDE DEF start
  <2>3. QED
    BY ZenonT(60), <2>1, <2>2 DEF PayerRec, LimiterInv, LimiterTypeInv
<1> HIDE DEF new, start, p
<1>7. LimiterTypeInv'
  BY <1>1, <1>2, <1>3, <1>4, <1>6 DEF LimiterInv, LimiterTypeInv
<1>8. NoneCapped' => NoneCapped /\ ~new.capped
  BY <1>3 DEF NoneCapped
<1>9. NoneCapped' => \A g \in grants : g.start + g.amount <= start
  <2> SUFFICES ASSUME NoneCapped', NEW g \in grants PROVE g.start + g.amount <= start
    OBVIOUS
  <2>1. g.start \in Int /\ g.amount \in Nat /\ g.start + g.amount <= nextFree
    BY <1>1, <1>8 DEF GrantRec, LimiterInv, GrantsBehind
  <2>2. start >= nextFree
    BY <1>1, <1>2, <1>5, <1>8
  <2>3. QED
    BY <1>1, <1>2, <2>1, <2>2
<1>10. GrantsBehind'
  <2> SUFFICES ASSUME NoneCapped', NEW g \in grants' PROVE g.start + g.amount <= nextFree'
    BY DEF GrantsBehind
  <2>1. CASE g = new
    BY SMTT(40), <1>2, <1>3, <1>5, <2>1
  <2>2. CASE g \in grants
    <3>1. g.start \in Int /\ g.amount \in Nat
      BY SMTT(40), <1>1, <2>2 DEF GrantRec
    <3>2. QED
      BY SMTT(40), <1>2, <1>3, <1>9, <2>2, <3>1
  <2>3. QED
    BY <1>3, <2>1, <2>2
<1>11. GrantsDisjoint'
  BY SMTT(40), <1>3, <1>5, <1>8, <1>9 DEF LimiterInv, GrantsDisjoint
<1>12. QED
  BY SMTT(40), <1>7, <1>10, <1>11 DEF LimiterInv

(* RateLimiter::consume: for any number of transfers and any limit, payments *)
(* that race each other get stretches of the limiter's time that do not      *)
(* overlap, unless it was further behind than MaxDebt.                       *)
THEOREM GrantsStayDisjoint == LimiterSpec => []GrantsDisjoint
<1>1. LimiterInit => LimiterInv
  <2> SUFFICES ASSUME LimiterInit PROVE LimiterInv
    OBVIOUS
  <2>1. PICK load \in Loads : LimiterStart(load)
    BY DEF LimiterInit
  <2>2. payer \in [Payers -> PayerRec]
    BY SMTT(40), <2>1, LimiterAssumption DEF LimiterStart, PayerRec
  <2>3. QED
    BY <2>1, <2>2, LimiterAssumption
    DEF LimiterStart, LimiterInv, LimiterTypeInv, GrantsBehind, GrantsDisjoint
<1>2. LimiterInv /\ [LimiterNext]_limiterVars => LimiterInv'
  <2> SUFFICES ASSUME LimiterInv, [LimiterNext]_limiterVars PROVE LimiterInv'
    OBVIOUS
  <2>1. clock \in Int /\ nextFree \in Int /\ payer \in [Payers -> PayerRec]
    BY DEF LimiterInv, LimiterTypeInv
  <2>2. ASSUME NEW c \in Payers, Enter(c) PROVE LimiterInv'
    BY <2>1, <2>2, LimiterOther DEF Enter, PayerRec
  <2>3. ASSUME NEW c \in Payers, ReadClock(c) PROVE LimiterInv'
    BY ZenonT(60), <2>1, <2>3, LimiterOther DEF ReadClock, PayerRec
  <2>4. ASSUME NEW c \in Payers, LoadFree(c) PROVE LimiterInv'
    BY ZenonT(60), <2>1, <2>4, LimiterOther DEF LoadFree, PayerRec
  <2>5. ASSUME NEW c \in Payers, SwapFails(c) PROVE LimiterInv'
    BY <2>1, <2>5, LimiterOther DEF SwapFails, PayerRec
  <2>6. ASSUME NEW c \in Payers, Slept(c) PROVE LimiterInv'
    <3>1. payer[c].left - NextPart(c) \in Nat
      BY <2>1, LimiterAssumption DEF NextPart, MinOf, PayerRec
    <3>2. payer' \in [Payers -> PayerRec]
      BY SMTT(40), <2>1, <2>6, <3>1 DEF Slept, PayerRec
    <3>3. QED
      BY SMTT(40), <2>1, <2>6, <3>2, LimiterOther DEF Slept
  <2>7. CASE ClockTick
    BY SMTT(40), <2>1, <2>7, LimiterOther DEF ClockTick
  <2>8. CASE UNCHANGED limiterVars
    BY <2>1, <2>8, LimiterOther DEF limiterVars
  <2>9. QED
    BY SMTT(40), <2>2, <2>3, <2>4, <2>5, <2>6, <2>7, <2>8, SwapKeeps DEF LimiterNext, LimiterIdle
<1>3. LimiterInv => GrantsDisjoint
  BY DEF LimiterInv
<1>4. QED
  BY <1>1, <1>2, <1>3, PTL DEF LimiterSpec
=============================================================================
