----------------------------- MODULE FileStore ------------------------------
(***************************************************************************)
(* One operation on one file of a storage backend (backend/localfs.rs,     *)
(* sftp.rs, s3.rs and retry of backend/mod.rs), as the requests it makes.  *)
(* A request may fail, or be carried out while its answer is lost; the     *)
(* process may be killed, and the machine may lose what was not synced.    *)
(*                                                                         *)
(* Two names matter: dst, the file, and src, where a rename comes from or  *)
(* the temporary file of a write.  A name leads to an inode (0: none), an  *)
(* inode to its contents.  SFTP repeats a whole operation, S3 a request,   *)
(* the local file system nothing.                                          *)
(***************************************************************************)
EXTENDS Integers, Sequences

CONSTANTS
    Transfers,      \* operations on a file that was there before or was not
    MaxAttempts,    \* RetryOptions::max_attempts
    Threshold,      \* s3_multipart_threshold
    PartSize        \* s3_multipart_part_size

Transfer ==
    [backend : {"local", "sftp", "s3"}, op : {"write", "rename", "remove"}, was : BOOLEAN,
     size : Nat, faults : SUBSET {"error", "lost", "kill", "power"}]

ASSUME FileStoreAssumption ==
    /\ Transfers \subseteq Transfer
    /\ MaxAttempts \in Nat /\ Threshold \in Nat /\ PartSize \in Nat

VARIABLE xf

OldContent == <<0>>
NewContent == [k \in 1 .. xf.task.size |-> k]

Multipart(task) == task.backend = "s3" /\ task.op = "write" /\ task.size >= Threshold

(* Where the next part of a multipart upload ends.                           *)
PartEnd(x) ==
    IF x.offset + PartSize < x.task.size THEN x.offset + PartSize ELSE x.task.size

(* The requests of an operation.                                             *)
(* Mutant of LocalProgram: the temporary file is not synced.                 *)
LocalUnsynced(task) ==
    CASE task.op = "write" -> <<"create", "write", "rename">>
      [] task.op = "rename" -> <<"rename">>
      [] task.op = "remove" -> <<"delete">>

LocalProgram(task) ==
    CASE task.op = "write" -> <<"create", "write", "sync", "rename">>
      [] task.op = "rename" -> <<"rename">>
      [] task.op = "remove" -> <<"delete">>

RenameFull == <<"clear", "rename">>
RemoveRecursivelyFull == <<"exists", "delete">>

SftpProgram(task) ==
    CASE task.op = "write" -> <<"create", "write">> \o RenameFull
      [] task.op = "rename" -> RenameFull
      [] task.op = "remove" -> RemoveRecursivelyFull

S3Write(task) ==
    IF Multipart(task)
    THEN IF task.size > 0 THEN <<"initiate", "part", "complete">> ELSE <<"initiate", "complete">>
    ELSE <<"put">>

S3Rename == <<"copy", "delete">>

TransferProgram(task) ==
    CASE task.backend = "local" -> LocalProgram(task)
      [] task.backend = "sftp" -> SftpProgram(task)
      [] task.backend = "s3" ->
           CASE task.op = "write" -> S3Write(task)
             [] task.op = "rename" -> S3Rename
             [] task.op = "remove" -> <<"delete">>

FileContent(x, name) == IF x.store[name] = 0 THEN <<-1>> ELSE x.data[x.store[name]]

(* A new inode under a name.                                                 *)
PutFile(x, name, content) ==
    [x EXCEPT !.store[name] = Len(x.data) + 1, !.data = Append(@, content)]

(* What a request does to the store, and whether it succeeds.                *)
Carried(x, request) ==
    CASE request = "create" ->
           [ok |-> TRUE, x |-> IF x.store["src"] = 0 THEN PutFile(x, "src", <<>>)
                               ELSE [x EXCEPT !.data[x.store["src"]] = <<>>]]
      [] request = "write" ->
           IF x.store["src"] = 0 THEN [ok |-> FALSE, x |-> x]
           ELSE [ok |-> TRUE, x |-> [x EXCEPT !.data[x.store["src"]] = NewContent]]
      [] request = "sync" -> [ok |-> TRUE, x |-> [x EXCEPT !.synced = TRUE]]
      [] request = "exists" -> [ok |-> TRUE, x |-> x]
      [] request = "clear" -> [ok |-> TRUE, x |-> [x EXCEPT !.store["dst"] = 0]]
      [] request = "rename" ->
           IF x.store["src"] = 0 \/ (x.task.backend = "sftp" /\ x.store["dst"] # 0)
           THEN [ok |-> FALSE, x |-> x]
           ELSE [ok |-> TRUE,
                 x |-> [x EXCEPT !.store = [@ EXCEPT !["src"] = 0, !["dst"] = x.store["src"]]]]
      [] request = "put" -> [ok |-> TRUE, x |-> PutFile(x, "dst", NewContent)]
      [] request = "copy" ->
           IF x.store["src"] = 0 THEN [ok |-> FALSE, x |-> x]
           ELSE [ok |-> TRUE, x |-> PutFile(x, "dst", FileContent(x, "src"))]
      [] request = "delete" ->
           [ok |-> TRUE,
            x |-> [x EXCEPT !.store[IF x.task.op = "remove" THEN "dst" ELSE "src"] = 0]]
      [] request = "initiate" ->
           [ok |-> TRUE, x |-> [x EXCEPT !.uploads = Append(@, [open |-> TRUE, body |-> <<>>])]]
      [] request = "part" ->    \* it joins the parts before it, whether it is new or not
           [ok |-> TRUE,
            x |-> [x EXCEPT !.uploads[Len(x.uploads)].body =
                     SubSeq(@, 1, x.offset) \o SubSeq(NewContent, x.offset + 1, PartEnd(x))]]
      [] request = "complete" ->
           LET u == Len(x.uploads)
           IN  IF ~x.uploads[u].open THEN [ok |-> FALSE, x |-> x]
               ELSE [ok |-> TRUE,
                     x |-> [PutFile(x, "dst", x.uploads[u].body) EXCEPT !.uploads[u].open = FALSE]]

----------------------------------------------------------------------------
(* retry.                                                                    *)

TransferRequest == TransferProgram(xf.task)[xf.pc]

TransferReturns(x, result) == [x EXCEPT !.result = result]

(* After the last attempt.  An upload is aborted, if that request works.     *)
GiveUp(x) ==
    IF Multipart(x.task) /\ x.uploads # <<>> /\ TransferProgram(x.task)[x.pc] # "initiate"
    THEN [x EXCEPT !.result = "abort"] ELSE TransferReturns(x, "failed")

FailedTry(x) ==
    IF x.task.backend # "local" /\ x.try < MaxAttempts
    THEN [x EXCEPT !.try = @ + 1, !.pc = IF x.task.backend = "sftp" THEN 1 ELSE @]
    ELSE GiveUp(x)

(* The next part, as long as there is one, or the next request, if it is     *)
(* needed.                                                                   *)
NextRequest(x) ==
    LET request == TransferProgram(x.task)[x.pc]
        y == [x EXCEPT !.try = IF x.task.backend = "s3" THEN 0 ELSE @,
                       !.offset = IF request = "part" THEN PartEnd(x) ELSE @]
    IN  IF request = "part" /\ y.offset < x.task.size THEN y
        ELSE IF x.pc = Len(TransferProgram(x.task)) \/ (request = "exists" /\ x.store["dst"] = 0)
        THEN TransferReturns(y, "ok")
        ELSE [y EXCEPT !.pc = @ + 1]

TransferRunning == xf.result = "running"

(* A request is answered.  SFTP ignores it if the old file cannot be         *)
(* removed.                                                                  *)
RequestAnswered ==
    /\ TransferRunning
    /\ LET c == Carried(xf, TransferRequest)
       IN  xf' = IF c.ok THEN NextRequest(c.x) ELSE FailedTry(xf)

(* A request fails; a write may have got to some point.  exists_exact_full   *)
(* takes any failure for an absent file, and the removal ends (xf.unseen).   *)
RequestRefused ==
    /\ TransferRunning /\ "error" \in xf.task.faults
    /\ IF TransferRequest = "clear" THEN xf' = NextRequest(xf)
       ELSE IF TransferRequest = "exists" THEN xf' = TransferReturns([xf EXCEPT !.unseen = TRUE], "ok")
       ELSE IF TransferRequest = "write" /\ xf.store["src"] # 0
       THEN \E n \in 0 .. xf.task.size :
              xf' = FailedTry([xf EXCEPT !.data[xf.store["src"]] = SubSeq(NewContent, 1, n)])
       ELSE xf' = FailedTry(xf)

(* A request is carried out, but the answer does not come in time.           *)
AnswerLost ==
    /\ TransferRunning /\ "lost" \in xf.task.faults /\ xf.task.backend # "local"
    /\ LET c == Carried(xf, TransferRequest)
       IN  xf' = FailedTry([c.x EXCEPT !.missed = @ \/ c.ok])

(* The abort, which may fail; after a failed completion it is left to a task *)
(* that ends with the process.                                               *)
UploadAborted ==
    /\ xf.result = "abort"
    /\ \/ xf' = TransferReturns([xf EXCEPT !.uploads[Len(xf.uploads)].open = FALSE], "failed")
       \/ /\ "error" \in xf.task.faults \/ TransferRequest = "complete"
          /\ xf' = TransferReturns([xf EXCEPT !.missed = TRUE], "failed")

(* The process ends.                                                         *)
TransferKilled ==
    /\ TransferRunning /\ "kill" \in xf.task.faults
    /\ xf' = TransferReturns(xf, "killed")

StoreBefore(t) ==
    [name \in {"src", "dst"} |->
       IF name = "src" THEN IF t.op = "rename" THEN 1 ELSE 0 ELSE IF t.was THEN 2 ELSE 0]

(* The power fails: what was not synced is lost, and perhaps the rename.     *)
PowerLost ==
    /\ TransferRunning \/ xf.result = "ok"
    /\ "power" \in xf.task.faults /\ xf.task.backend = "local" /\ xf.task.op = "write"
    /\ \E store \in {xf.store, StoreBefore(xf.task)} :
         xf' = TransferReturns([xf EXCEPT
                 !.store = store,
                 !.data = [i \in DOMAIN @ |->
                             IF xf.synced \/ @[i] = OldContent THEN @[i] ELSE <<>>]], "killed")

TransferDone == xf.result \notin {"running", "abort"} /\ UNCHANGED xf

TransferStart(t) ==
    [task |-> t, pc |-> 1, try |-> 0, offset |-> 0, result |-> "running", synced |-> FALSE,
     uploads |-> <<>>, missed |-> FALSE, unseen |-> FALSE, store |-> StoreBefore(t),
     data |-> <<[k \in 1 .. t.size |-> k], OldContent>>]
TransferInit == \E t \in Transfers : xf = TransferStart(t)

TransferNext ==
    RequestAnswered \/ RequestRefused \/ AnswerLost \/ UploadAborted \/ TransferKilled \/ PowerLost \/ TransferDone

TransferSpec == TransferInit /\ [][TransferNext]_xf

----------------------------------------------------------------------------
(* Properties.                                                               *)

(* LocalFS::write, SftpBackend::write, S3Backend::write: whoever reads the   *)
(* file, at any time and after a crash, finds the whole old or the whole new *)
(* contents.                                                                 *)
DstWhole == xf.store["dst"] # 0 => FileContent(xf, "dst") \in {OldContent, NewContent}

(* retry: an operation that reports success has done what it was asked, but  *)
(* for a removal over SFTP that could not ask for the file.                  *)
OkMeansDone ==
    xf.result = "ok" =>
      CASE xf.task.op = "write" -> FileContent(xf, "dst") = NewContent
        [] xf.task.op = "rename" -> FileContent(xf, "dst") = NewContent /\ xf.store["src"] = 0
        [] xf.task.op = "remove" -> xf.store["dst"] = 0 \/ xf.unseen

(* rename: the renamed file is under one of its names, whatever fails.  Over *)
(* SFTP this needs that no answer is lost: a repeated rename that finds its  *)
(* work done removes the destination.                                        *)
NothingLost ==
    xf.task.op = "rename" /\ (xf.task.backend = "sftp" => ~xf.missed) =>
      NewContent \in {FileContent(xf, "src"), FileContent(xf, "dst")}

(* write to the local file system or to S3: a file that is there stays there *)
(* while it is replaced.                                                     *)
StaysReadable ==
    xf.task.op = "write" /\ xf.task.backend # "sftp" /\ xf.task.was => xf.store["dst"] # 0

(* S3Backend::write: a write that failed leaves no upload open, unless the   *)
(* answer to its start or its end was lost.                                  *)
UploadsClosed ==
    xf.result = "failed" /\ ~xf.missed => \A u \in DOMAIN xf.uploads : ~xf.uploads[u].open

(* LocalFS, SftpBackend, S3Backend, retry: whatever requests fail, are lost  *)
(* or are cut by a crash, a file is whole, old or new; local and in S3 it    *)
(* stays readable while it is replaced; it is not lost on its way to another *)
(* name, an operation that reports success is done, and no upload stays      *)
(* open, with the exceptions that each part names.                           *)
TransfersSafe ==
    /\ DstWhole
    /\ StaysReadable
    /\ NothingLost
    /\ OkMeansDone
    /\ UploadsClosed
=============================================================================
