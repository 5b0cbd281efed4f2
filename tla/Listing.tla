------------------------------ MODULE Listing -------------------------------
(***************************************************************************)
(* Listing the files of a backend while other clients add and remove       *)
(* files: list_dir_recursive and read_backend_dir (backend/mod.rs), which  *)
(* ask for one directory at a time, and list_dir and list_dir_recursive of *)
(* S3 (backend/s3.rs), which ask for one page at a time.  A path is a      *)
(* sequence of names, names are naturals; a directory of S3 is a common    *)
(* prefix of keys.                                                         *)
(***************************************************************************)
EXTENDS Integers, Sequences, FiniteSets, NodeStreams

CONSTANTS
    Listings,       \* what is listed: [how, path, files, dirs, universe, faults]
    KeysPerPage,       \* objects of a page of S3
    MaxChanges      \* bound of the model: files added or removed meanwhile

VARIABLE ls

ChildOf(path, p) == SubSeq(p, 1, Len(path) + 1)

(* LocalFS::list_dir, SftpBackend::list_dir: the entries of a directory.     *)
ListedEntries(x, path) ==
    {f \in x.files \union x.job.dirs : Under(path, f) /\ Len(f) = Len(path) + 1}

(* What one page of S3 lists: keys below a prefix, cut at the delimiter.     *)
ItemsOf(x, path, delimiter) ==
    {IF delimiter THEN ChildOf(path, f) ELSE f : f \in {g \in x.files : Under(path, g)}}

FirstItems(items, n) ==
    {i \in items : Cardinality({j \in items : Before(j, i)}) < n}
LastItem(items) == CHOOSE i \in items : \A j \in items : ~Before(i, j)

ListReturns(x, result) == [x EXCEPT !.result = result]

(* read_backend_dir: a directory of the stack; its directories go on the     *)
(* stack and in the list.                                                    *)
Crawl ==
    /\ ls.result = "running" /\ ls.job.how = "crawl"
    /\ IF ls.todo = {} THEN ls' = ListReturns(ls, "ok")
       ELSE \E dir \in ls.todo :
              LET entries == ListedEntries(ls, dir)
              IN  ls' = [ls EXCEPT !.todo = (@ \ {dir}) \union (entries \intersect ls.job.dirs),
                                   !.nodes = @ \union entries]

(* list_dir_recursive: the directories at the same time, in any order; only  *)
(* files are listed.                                                         *)
Descend ==
    /\ ls.result = "running" /\ ls.job.how = "descend"
    /\ IF ls.todo = {} THEN ls' = ListReturns(ls, "ok")
       ELSE \E dir \in ls.todo :
              LET entries == ListedEntries(ls, dir)
              IN  ls' = [ls EXCEPT !.todo = (@ \ {dir}) \union (entries \intersect ls.job.dirs),
                                   !.nodes = @ \union (entries \ ls.job.dirs)]

(* Mutant of ListPage: the last page is dropped.                             *)
ListPageCut ==
    /\ ls.result = "running" /\ ls.job.how \in {"page", "page_all"}
    /\ LET items == {i \in ItemsOf(ls, ls.job.path, ls.job.how = "page") :
                       ls.token = <<>> \/ Before(ls.token, i)}
           page == FirstItems(items, KeysPerPage)
       IN  ls' = IF page = items THEN ListReturns(ls, "ok")
                 ELSE [ls EXCEPT !.nodes = @ \union page, !.token = LastItem(page)]

(* S3Backend::list_dir, list_dir_recursive: the pages one after another, as  *)
(* long as the answer is cut off.                                            *)
ListPage ==
    /\ ls.result = "running" /\ ls.job.how \in {"page", "page_all"}
    /\ LET items == {i \in ItemsOf(ls, ls.job.path, ls.job.how = "page") :
                       ls.token = <<>> \/ Before(ls.token, i)}
           page == FirstItems(items, KeysPerPage)
           x == [ls EXCEPT !.nodes = @ \union page]
       IN  ls' = IF page = items THEN ListReturns(x, "ok")
                 ELSE [x EXCEPT !.token = LastItem(page)]

(* A request that keeps failing ends the listing.                            *)
ListingFails ==
    /\ ls.result = "running" /\ ls.job.faults
    /\ ls' = ListReturns(ls, "error")

(* Other clients.                                                            *)
OtherAdds ==
    /\ ls.result = "running" /\ ls.changes < MaxChanges
    /\ \E f \in ls.job.universe \ ls.files :
         ls' = [ls EXCEPT !.files = @ \union {f}, !.ever = @ \union {f}, !.changes = @ + 1]

OtherRemoves ==
    /\ ls.result = "running" /\ ls.changes < MaxChanges
    /\ \E f \in ls.files :
         ls' = [ls EXCEPT !.files = @ \ {f}, !.always = @ \ {f}, !.changes = @ + 1]

ListingRests == ls.result # "running" /\ UNCHANGED ls

ListingStart(job) ==
    [job |-> job, files |-> job.files, always |-> job.files, ever |-> job.files,
     todo |-> {job.path}, nodes |-> {}, token |-> <<>>, result |-> "running", changes |-> 0]
ListingInit == \E job \in Listings : ls = ListingStart(job)

ListingNext == Crawl \/ Descend \/ ListPage \/ ListingFails \/ OtherAdds \/ OtherRemoves \/ ListingRests

ListingSpec == ListingInit /\ [][ListingNext]_ls /\ WF_ls(ListingNext)

----------------------------------------------------------------------------
(* Properties.                                                               *)

(* What a listing is to show of a set of files.                              *)
ShownOf(files) ==
    LET below == {f \in files : Under(ls.job.path, f)}
    IN  IF ls.job.how = "page" THEN {ChildOf(ls.job.path, f) : f \in below} ELSE below

(* Whatever other clients do meanwhile, a listing that succeeds has every    *)
(* file that was there all the time, and none that never was.                *)
ListedThroughout ==
    ls.result = "ok" =>
      /\ ShownOf(ls.always) \subseteq ls.nodes
      /\ ls.nodes \ (IF ls.job.how = "crawl" THEN ls.job.dirs ELSE {}) \subseteq ShownOf(ls.ever)
=============================================================================
