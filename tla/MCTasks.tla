------------------------------ MODULE MCTasks -------------------------------
(* The instances of the components that are checked for progress as well.    *)
EXTENDS PackSaver, Bundle, Cache, TaskScreens, Browsers, TLC

-----------------------------------------------------------------------------
(* PackSaver.                                                                *)

CONSTANTS tree1, data1, data2, c1, c2, w1, w2

-----------------------------------------------------------------------------
(* Bundle.  Files with shared blobs, nested directories, and sources in two  *)
(* places.                                                                   *)

BSrc(s) == <<RootDir>> \o s
BFs(kinds, closed) ==
    LET paths == {<<RootDir>>} \union {BSrc(k[1]) : k \in kinds}
        Of(p) == CHOOSE k \in kinds : BSrc(k[1]) = p
    IN  [kind |-> [p \in paths |-> IF p = <<RootDir>> THEN "dir" ELSE Of(p)[2]],
         stamp |-> [p \in paths |-> 1],
         data |-> [p \in paths |-> IF p = <<RootDir>> THEN <<>> ELSE Of(p)[3]],
         closed |-> {BSrc(p) : p \in closed}, gone |-> {}, hidden |-> {}]
BundleJob(kinds, sources) ==
    [fs |-> BFs(kinds, {}), sources |-> {BSrc(s) : s \in sources}, unreadable |-> {}, sealed |-> {}, rotten |-> {},
     dest |-> [p \in {<<>>} |-> [kind |-> "dir", data |-> <<>>, meta |-> "new"]], faults |-> {}]

BDir(p) == <<p, "dir", <<>>>>
BFile(p, data) == <<p, "file", data>>
SharedFiles == {BDir(<<1>>), BFile(<<1, 1>>, <<7, 8>>), BFile(<<1, 2>>, <<7, 7>>)}
NestedDirs == {BDir(<<1>>), BDir(<<1, 1>>), BFile(<<1, 1, 1>>, <<7>>), <<<<1, 2>>, "link", <<>>>>}
Split == {BDir(<<1>>), BDir(<<1, 1>>), BFile(<<1, 2>>, <<>>), BFile(<<2>>, <<7>>)}

(* The root directory is walked under the empty path.                        *)
WholeDisk ==
    [BundleJob(NestedDirs, {<<>>}) EXCEPT
       !.fs.kind = (<<>> :> "dir") @@ @, !.fs.stamp = (<<>> :> 1) @@ @, !.fs.data = (<<>> :> <<>>) @@ @]

AllBundleJobs ==
    {[BundleJob(SharedFiles, {<<1>>}) EXCEPT !.faults = f] : f \in {{}, {"write"}, {"kill"}}}
    \union {[BundleJob(SharedFiles, {<<1>>}) EXCEPT !.unreadable = {BSrc(<<1, 1>>)}],
            [BundleJob(SharedFiles, {<<1>>}) EXCEPT !.rotten = {<<"data", 8>>}],
            [BundleJob(NestedDirs, {<<1>>}) EXCEPT !.fs.closed = {BSrc(<<1, 1>>)}],
            [BundleJob(NestedDirs, {<<1>>}) EXCEPT !.sealed = {<<1>>}],
            [BundleJob(NestedDirs, {<<1>>}) EXCEPT !.dest = @ @@ (<<1>> :> [kind |-> "dir", data |-> <<>>, meta |-> "new"])
                                                          @@ (<<1, 2>> :> [kind |-> "file", data |-> <<9>>, meta |-> "old"])],
            [BundleJob(NestedDirs, {<<1>>}) EXCEPT !.rotten = {<<"tree", <<>>>>}],
            BundleJob(Split, {<<1, 1>>, <<1, 2>>, <<2>>}),
            BundleJob(SharedFiles, {<<1>>, <<1, 1>>}), BundleJob(NestedDirs, {<<1>>, <<1, 1>>}),
            BundleJob(NestedDirs, {<<1>>, <<1, 1, 1>>}), WholeDisk}

-----------------------------------------------------------------------------
(* Cache.  Three tasks on one file.                                          *)

Ops(x, y, z) == ("a" :> x) @@ ("b" :> y) @@ ("c" :> z)
AllCacheJobs ==
    {[op |-> o, remote |-> r, cached |-> k, faults |-> f] :
       o \in {Ops("read", "read", "read"), Ops("read", "read", "remove"),
              Ops("read", "read", "write"), Ops("read", "remove", "write"),
              Ops("read", "rename", "read"), Ops("rename", "remove", "read"),
              Ops("write", "rename", "remove")},
       r \in BOOLEAN, k \in BOOLEAN, f \in BOOLEAN}
(* Tasks that wait for each other's download.                                *)
WaitingJobs ==
    {j \in AllCacheJobs : j.op \in {Ops("read", "read", "read"), Ops("read", "read", "remove")}}
SomeHandles ==
    {[extension |-> FALSE, hint |-> TRUE, type |-> "index", metadata |-> TRUE],
     [extension |-> FALSE, hint |-> TRUE, type |-> "pack", metadata |-> FALSE]}

-----------------------------------------------------------------------------
(* TaskScreens.  One screen of each kind.                                    *)

AllScreens == {"restore", "snapshot", "find"}

-----------------------------------------------------------------------------
(* Browsers.  Browsers over three snapshots with nested directories, and a   *)
(* tree with an empty directory.                                             *)

D(path, changed) == [path |-> path, dir |-> TRUE, changed |-> changed]
F(path, changed) == [path |-> path, dir |-> FALSE, changed |-> changed]

Deep == <<D(<<1>>, FALSE), D(<<1, 2>>, FALSE), F(<<1, 2, 3>>, TRUE), F(<<1, 4>>, FALSE),
          F(<<2>>, TRUE)>>
Flat == <<F(<<1>>, TRUE), F(<<1, 2>>, TRUE), F(<<3>>, FALSE)>>
ThreeDiffs == [s \in 1 .. 3 |-> [t \in 1 .. 3 |->
    IF {s, t} = {1, 2} THEN Deep ELSE IF {s, t} = {2, 3} THEN Flat ELSE <<>>]]
ThreePairs == {<<1, 2>>, <<2, 1>>, <<1, 1>>}
SmallTrees == <<{[name |-> 2, tree |-> <<2>>], [name |-> 1, tree |-> <<>>], [name |-> 3, tree |-> <<3>>]},
                {[name |-> 1, tree |-> <<3>>]}, {}>>
=============================================================================
