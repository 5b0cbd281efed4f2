---------------------------- MODULE AccessProofs ----------------------------
(***************************************************************************)
(* Proofs about Keys and RepoLock: who gets into a repository, and who has *)
(* it to themselves.  Any number of processes, users, keys and sessions,   *)
(* and any timing that satisfies TimingAssumption.                         *)
(***************************************************************************)
EXTENDS Keys, RepoLock, TLAPS

-----------------------------------------------------------------------------
(* The keys.                                                                 *)

KeyPCs ==
    {"start", "write_key", "write_manifest", "make_dirs", "search", "found", "save", "drop",
     "delete", "export", "ok", "failed", "killed"}

(* Functions of some identifiers to key files.                               *)
KeyFiles == UNION {[S -> KeyFile] : S \in SUBSET Nat}

KeysRec(P) ==
    [ops : [P -> KeyCommand], keys : KeyFiles, made : Nat, manifest : Nat, masters : Nat,
     dirs : BOOLEAN, fresh : BOOLEAN, inits : Nat, deletes : Nat, kills : Nat, files : SUBSET KeyFile,
     at : [P -> KeyPCs], master : [P -> Nat], listed : [P -> SUBSET Nat],
     own : [P -> KeyFiles], through : [P -> SUBSET Nat]]

(* The places where a command can be.                                        *)
KeyPlace(c) ==
    /\ PcOf(c) \in {"write_key", "write_manifest", "make_dirs"} => KeyOp(c).op = "init"
    /\ PcOf(c) = "search" => KeyOp(c).op \in {"open", "add", "change"}
    /\ PcOf(c) = "found" => KeyOp(c).op \in {"open", "add"}
    /\ PcOf(c) \in {"delete", "export"} => KeyOp(c).op = PcOf(c)
    /\ PcOf(c) \in {"save", "drop"} => KeyOp(c).op = "change" /\ DOMAIN kr.own[c] # {}
    /\ DOMAIN kr.own[c] # {} => KeyOp(c).op = "change"
KeyPlaces == \A c \in KeyProcs : KeyPlace(c)

KeysTypeInv == kr \in KeysRec(KeyProcs) /\ KeyPlaces

(* No identifier is given twice, and a key never changes.                    *)
IdsInv ==
    /\ DOMAIN kr.keys \subseteq 1 .. kr.made
    /\ \A c \in KeyProcs : \A id \in DOMAIN kr.own[c] :
         /\ id \in 1 .. kr.made /\ kr.own[c][id].user = KeyOp(c).user
         /\ id \in DOMAIN kr.keys => kr.keys[id] = kr.own[c][id]

(* There is one master key, as long as one init at most wrote one.           *)
MasterInv ==
    /\ ~kr.fresh => \A c \in KeyProcs : PcOf(c) \notin {"write_key", "write_manifest"}
    /\ ~kr.fresh => kr.manifest # 0
    /\ (kr.fresh => kr.inits <= 1) =>
         /\ \A id \in DOMAIN kr.keys : kr.keys[id].master = kr.masters
         /\ \A key \in kr.files : key.master = kr.masters
         /\ \A c \in KeyProcs : \A id \in DOMAIN kr.own[c] : kr.own[c][id].master = kr.masters
         /\ \A c \in KeyProcs : PcOf(c) \in {"found", "write_manifest"} => kr.master[c] = kr.masters
         /\ kr.manifest = kr.masters \/ (kr.fresh /\ kr.manifest = 0)
    /\ kr.fresh /\ kr.inits = 0 =>
         /\ DOMAIN kr.keys = {} /\ kr.files = {} /\ kr.manifest = 0
         /\ \A c \in KeyProcs : DOMAIN kr.own[c] = {} /\ PcOf(c) \notin {"found", "write_manifest"}

(* A key that is there all the time is still to be tried, or was found.      *)
Searches(c) ==
    /\ \A id \in kr.through[c] : id \in DOMAIN kr.keys /\ OpensKey(c, id)
    /\ KeyOp(c).op \in {"open", "add"} /\ PcOf(c) = "search" => kr.through[c] \subseteq kr.listed[c]
    /\ KeyOp(c).op \in {"open", "add"} /\ PcOf(c) = "failed" /\ kr.inits = 0 => kr.through[c] = {}
SearchInv == \A c \in KeyProcs : Searches(c)

(* Whoever removes the old key leaves the user one that is newer.            *)
NewerInv ==
    kr.deletes = 0 =>
      \A c \in KeyProcs :
        /\ DOMAIN kr.own[c] # {} => \E id \in DOMAIN kr.keys : kr.keys[id].user = KeyOp(c).user
        /\ PcOf(c) = "drop" =>
             \E id \in DOMAIN kr.keys : id > OldKey(c) /\ kr.keys[id].user = KeyOp(c).user

KeysInv == KeysTypeInv /\ IdsInv /\ MasterInv /\ SearchInv /\ NewerInv

(* A function of identifiers to key files.                                   *)
LEMMA KeyFilesAre ==
    ASSUME NEW f
    PROVE  f \in KeyFiles <=> f \in [DOMAIN f -> KeyFile] /\ DOMAIN f \subseteq Nat
BY Zenon DEF KeyFiles

(* The key files with one more.                                              *)
LEMMA OneMoreKey ==
    ASSUME NEW f \in KeyFiles, NEW id \in Nat, NEW key \in KeyFile
    PROVE  /\ WithKey(f, id, key) \in KeyFiles
           /\ DOMAIN WithKey(f, id, key) = (DOMAIN f) \cup {id}
           /\ WithKey(f, id, key)[id] = key
           /\ \A k \in DOMAIN f : k # id => WithKey(f, id, key)[k] = f[k]
<1>1. f \in [DOMAIN f -> KeyFile] /\ DOMAIN f \subseteq Nat
  BY Zenon, KeyFilesAre
<1>2. /\ WithKey(f, id, key) \in [(DOMAIN f) \cup {id} -> KeyFile]
      /\ DOMAIN WithKey(f, id, key) = (DOMAIN f) \cup {id}
  BY Zenon, <1>1 DEF WithKey
<1>3. WithKey(f, id, key) \in KeyFiles
  BY Zenon, <1>1, <1>2, KeyFilesAre
<1>4. QED
  BY Zenon, <1>2, <1>3 DEF WithKey

(* The key files without one.                                                *)
LEMMA OneKeyLess ==
    ASSUME NEW f \in KeyFiles, NEW id
    PROVE  /\ [k \in (DOMAIN f) \ {id} |-> f[k]] \in KeyFiles
           /\ DOMAIN [k \in (DOMAIN f) \ {id} |-> f[k]] = (DOMAIN f) \ {id}
           /\ \A k \in (DOMAIN f) \ {id} : [i \in (DOMAIN f) \ {id} |-> f[i]][k] = f[k]
<1> DEFINE g == [k \in (DOMAIN f) \ {id} |-> f[k]]
<1>1. f \in [DOMAIN f -> KeyFile] /\ DOMAIN f \subseteq Nat
  BY Zenon, KeyFilesAre
<1>2. DOMAIN g = (DOMAIN f) \ {id} /\ g \in [(DOMAIN f) \ {id} -> KeyFile]
  BY Zenon, <1>1
<1>3. \A k \in (DOMAIN f) \ {id} : g[k] = f[k]
  BY Zenon
<1> HIDE DEF g
<1>4. g \in KeyFiles
  BY Zenon, <1>1, <1>2, KeyFilesAre
<1>5. QED
  BY Zenon, <1>2, <1>3, <1>4 DEF g

(* What is the same in two states but for where the processes stand.         *)
KeysSame(x, y) ==
    /\ y.ops = x.ops /\ y.keys = x.keys /\ y.made = x.made /\ y.manifest = x.manifest
    /\ y.masters = x.masters /\ y.fresh = x.fresh /\ y.inits = x.inits
    /\ y.deletes = x.deletes /\ y.files = x.files
    /\ y.master = x.master /\ y.listed = x.listed /\ y.own = x.own /\ y.through = x.through

(* The fields of a state after KeyEnds.                                      *)
LEMMA EndsFields ==
    ASSUME NEW P, NEW x \in KeysRec(P), NEW c \in P, NEW pc \in KeyPCs
    PROVE  /\ KeyEnds(x, c, pc) \in KeysRec(P) /\ KeysSame(x, KeyEnds(x, c, pc))
           /\ KeyEnds(x, c, pc).at[c] = pc
           /\ \A d \in P : d # c => KeyEnds(x, c, pc).at[d] = x.at[d]
<1> DEFINE at == [x.at EXCEPT ![c] = pc]
<1>1. KeyEnds(x, c, pc) = [x EXCEPT !.at = at]
  BY Zenon DEF KeyEnds
<1>2. at \in [P -> KeyPCs] /\ at[c] = pc /\ \A d \in P : d # c => at[d] = x.at[d]
  BY Zenon DEF KeysRec
<1> HIDE DEF at
<1>3. QED
  BY SMTT(40), <1>1, <1>2 DEF KeysRec, KeysSame

(* The state after AddKey: key has the identifier n.                         *)
Added(x, y, n, key) ==
    /\ y.made = n /\ DOMAIN y.keys = (DOMAIN x.keys) \cup {n}
    /\ y.keys[n] = key /\ \A k \in DOMAIN x.keys : k # n => y.keys[k] = x.keys[k]
    /\ y.ops = x.ops /\ y.manifest = x.manifest /\ y.masters = x.masters /\ y.fresh = x.fresh
    /\ y.inits = x.inits /\ y.deletes = x.deletes /\ y.files = x.files
    /\ y.master = x.master /\ y.listed = x.listed /\ y.own = x.own /\ y.through = x.through

(* The fields of a state after AddKey.                                       *)
LEMMA AddKeyFields ==
    ASSUME NEW P, NEW x \in KeysRec(P), NEW key \in KeyFile, NewKeyId(x) \in Nat
    PROVE  /\ AddKey(x, key) \in KeysRec(P) /\ Added(x, AddKey(x, key), NewKeyId(x), key)
           /\ AddKey(x, key).at = x.at
<1> DEFINE n == NewKeyId(x)
           keys == WithKey(x.keys, n, key)
<1>1. x.keys \in KeyFiles
  BY Zenon DEF KeysRec
<1>2. /\ keys \in KeyFiles /\ DOMAIN keys = (DOMAIN x.keys) \cup {n} /\ keys[n] = key
      /\ \A k \in DOMAIN x.keys : k # n => keys[k] = x.keys[k]
  BY ZenonT(60), <1>1, OneMoreKey
<1>3. AddKey(x, key) = [x EXCEPT !.keys = keys, !.made = n]
  BY Zenon DEF AddKey
<1> HIDE DEF keys, n
<1>4. n \in Nat
  BY Zenon DEF n
<1>5. /\ AddKey(x, key) \in KeysRec(P)
      /\ AddKey(x, key).keys = keys /\ AddKey(x, key).made = n /\ AddKey(x, key).at = x.at
      /\ KeysSame([x EXCEPT !.keys = keys, !.made = n], AddKey(x, key))
  BY ZenonT(40), <1>2, <1>3, <1>4 DEF KeysRec, KeysSame
<1>6. Added(x, AddKey(x, key), n, key)
  BY <1>2, <1>3, <1>5 DEF Added, KeysRec
<1>7. QED
  BY Zenon, <1>5, <1>6 DEF n

(* The state after DropKey.                                                  *)
Dropped(P, x, y, id) ==
    /\ y.made = x.made /\ DOMAIN y.keys = (DOMAIN x.keys) \ {id}
    /\ \A k \in (DOMAIN x.keys) \ {id} : y.keys[k] = x.keys[k]
    /\ \A d \in P : y.through[d] = x.through[d] \ {id}
    /\ y.ops = x.ops /\ y.manifest = x.manifest /\ y.masters = x.masters /\ y.fresh = x.fresh
    /\ y.inits = x.inits /\ y.deletes = x.deletes /\ y.files = x.files
    /\ y.master = x.master /\ y.listed = x.listed /\ y.own = x.own

(* The fields of a state after DropKey.                                      *)
LEMMA DropKeyFields ==
    ASSUME NEW P, NEW x \in KeysRec(P), NEW id
    PROVE  /\ DropKey(x, id) \in KeysRec(P) /\ Dropped(P, x, DropKey(x, id), id)
           /\ DropKey(x, id).at = x.at
<1> DEFINE keys == [k \in (DOMAIN x.keys) \ {id} |-> x.keys[k]]
           through == [d \in P |-> x.through[d] \ {id}]
<1>1. x.keys \in KeyFiles /\ x.through \in [P -> SUBSET Nat] /\ DOMAIN x.through = P
  BY Zenon DEF KeysRec
<1>2. /\ keys \in KeyFiles /\ DOMAIN keys = (DOMAIN x.keys) \ {id}
      /\ \A k \in (DOMAIN x.keys) \ {id} : keys[k] = x.keys[k]
  BY Zenon, <1>1, OneKeyLess
<1>3. through \in [P -> SUBSET Nat] /\ \A d \in P : through[d] = x.through[d] \ {id}
  BY Zenon, <1>1
<1>4. DropKey(x, id) = [x EXCEPT !.keys = keys, !.through = through]
  BY Zenon, <1>1 DEF DropKey
<1> HIDE DEF keys, through
<1>5. QED
  BY ZenonT(40), <1>2, <1>3, <1>4 DEF Dropped, KeysRec

(* What a step of a process leaves alone.                                    *)
KeysFrame(c) ==
    /\ kr' \in KeysRec(KeyProcs) /\ KeyProcs' = KeyProcs /\ kr'.ops = kr.ops /\ kr'.fresh = kr.fresh
    /\ \A d \in KeyProcs : d # c =>
         /\ kr'.at[d] = kr.at[d] /\ kr'.master[d] = kr.master[d]
         /\ kr'.listed[d] = kr.listed[d] /\ kr'.own[d] = kr.own[d]

(* What c remembers of its user's keys: as before, or one more of those that *)
(* are there.                                                                *)
OwnRule(c) ==
    \/ kr'.own[c] = kr.own[c]
    \/ \E id \in DOMAIN kr.keys :
         /\ kr.keys[id].user = kr.ops[c].user
         /\ DOMAIN kr'.own[c] = (DOMAIN kr.own[c]) \cup {id}
         /\ kr'.own[c][id] = kr.keys[id]
         /\ \A k \in DOMAIN kr.own[c] : k # id => kr'.own[c][k] = kr.own[c][k]

(* A step that touches no key file of the repository.                        *)
LocalRule(c) ==
    /\ KeysFrame(c)
    /\ kr'.keys = kr.keys /\ kr'.made = kr.made /\ kr'.masters = kr.masters
    /\ kr'.inits = kr.inits /\ kr'.deletes = kr.deletes
    /\ \A d \in KeyProcs : d # c => kr'.through[d] = kr.through[d]
    /\ \A key \in kr'.files : \/ key \in kr.files
                              \/ \E id \in DOMAIN kr.keys : key = kr.keys[id]
                              \/ kr.at[c] = "found" /\ key.master = kr.master[c]
    /\ kr'.manifest = kr.manifest \/ (kr.at[c] = "write_manifest" /\ kr'.manifest = kr.master[c])
    /\ kr'.at[c] \notin {"write_manifest", "drop"}
    /\ kr'.at[c] = "write_key" => kr.manifest = 0
    /\ kr'.at[c] = "found" => \E id \in DOMAIN kr.keys : kr'.master[c] = kr.keys[id].master
    /\ OwnRule(c) /\ KeyPlace(c)' /\ Searches(c)'

(* Such a step keeps the invariant.                                          *)
LEMMA LocalKeeps ==
    ASSUME KeysInv, NEW c \in KeyProcs, LocalRule(c)
    PROVE  KeysInv'
<1> DEFINE P == KeyProcs
<1>1. /\ kr' \in KeysRec(P) /\ P' = P /\ kr'.ops = kr.ops /\ kr'.fresh = kr.fresh
      /\ \A d \in P : d # c =>
           /\ kr'.at[d] = kr.at[d] /\ kr'.master[d] = kr.master[d] /\ kr'.through[d] = kr.through[d]
           /\ kr'.listed[d] = kr.listed[d] /\ kr'.own[d] = kr.own[d]
      /\ kr'.keys = kr.keys /\ kr'.made = kr.made /\ kr'.masters = kr.masters
      /\ kr'.inits = kr.inits /\ kr'.deletes = kr.deletes
  BY ZenonT(40) DEF LocalRule, KeysFrame
<1>2. KeysTypeInv'
  <2>1. \A d \in P : d # c => KeyPlace(d)'
    BY SMTT(40), <1>1 DEF KeysInv, KeysTypeInv, KeyPlaces, KeyPlace, PcOf, KeyOp
  <2>2. KeyPlace(c)'
    BY Zenon DEF LocalRule
  <2>3. QED
    BY Zenon, <1>1, <2>1, <2>2 DEF KeysTypeInv, KeyPlaces
<1>3. IdsInv'
  <2>1. ASSUME NEW d \in P, NEW k \in DOMAIN kr'.own[d]
        PROVE  /\ k \in 1 .. kr.made /\ kr'.own[d][k].user = kr.ops[d].user
               /\ k \in DOMAIN kr.keys => kr.keys[k] = kr'.own[d][k]
    <3>1. CASE kr'.own[d] = kr.own[d]
      BY SMTT(40), <2>1, <3>1 DEF KeysInv, IdsInv, KeyOp
    <3>2. CASE d = c /\ kr'.own[c] # kr.own[c]
      BY SMTT(40), <2>1, <3>2 DEF LocalRule, OwnRule, KeysInv, IdsInv, KeyOp
    <3>3. QED
      BY Zenon, <1>1, <3>1, <3>2
  <2>2. DOMAIN kr.keys \subseteq 1 .. kr.made
    BY Zenon DEF KeysInv, IdsInv
  <2>3. DOMAIN kr'.keys \subseteq 1 .. kr'.made
    BY Zenon, <1>1, <2>2
  <2>4. \A d \in P' : \A k \in DOMAIN kr'.own[d] :
          /\ k \in 1 .. kr'.made /\ kr'.own[d][k].user = KeyOp(d)'.user
          /\ k \in DOMAIN kr'.keys => kr'.keys[k] = kr'.own[d][k]
    BY SMTT(40), <1>1, <2>1 DEF KeyOp
  <2>5. QED
    BY Zenon, <2>3, <2>4 DEF IdsInv
<1>4. MasterInv'
  <2>1. ~kr.fresh => kr.manifest # 0 /\ \A d \in P : kr.at[d] \notin {"write_key", "write_manifest"}
    BY Zenon DEF KeysInv, MasterInv, PcOf
  <2>2. kr.at[c] # "write_manifest" => kr'.manifest = kr.manifest
    BY Zenon DEF LocalRule
  <2>3. ~kr.fresh => kr'.manifest # 0 /\ \A d \in P : kr'.at[d] \notin {"write_key", "write_manifest"}
    BY Zenon, <1>1, <2>1, <2>2 DEF LocalRule
  <2>4. ASSUME kr.fresh => kr.inits <= 1
        PROVE  /\ \A id \in DOMAIN kr.keys : kr.keys[id].master = kr.masters
               /\ \A key \in kr'.files : key.master = kr.masters
               /\ \A d \in P : \A id \in DOMAIN kr'.own[d] : kr'.own[d][id].master = kr.masters
               /\ \A d \in P : kr'.at[d] \in {"found", "write_manifest"} => kr'.master[d] = kr.masters
               /\ kr'.manifest = kr.masters \/ (kr.fresh /\ kr'.manifest = 0)
    <3>1. /\ \A id \in DOMAIN kr.keys : kr.keys[id].master = kr.masters
          /\ \A key \in kr.files : key.master = kr.masters
          /\ \A d \in P : \A id \in DOMAIN kr.own[d] : kr.own[d][id].master = kr.masters
          /\ \A d \in P : kr.at[d] \in {"found", "write_manifest"} => kr.master[d] = kr.masters
          /\ kr.manifest = kr.masters \/ (kr.fresh /\ kr.manifest = 0)
      BY Zenon, <2>4 DEF KeysInv, MasterInv, PcOf
    <3>2. \A key \in kr'.files : key.master = kr.masters
      BY SMTT(40), <3>1 DEF LocalRule
    <3>3. \A id \in DOMAIN kr'.own[c] : kr'.own[c][id].master = kr.masters
      BY SMTT(40), <3>1 DEF LocalRule, OwnRule
    <3>4. kr'.at[c] \in {"found", "write_manifest"} => kr'.master[c] = kr.masters
      BY Zenon, <3>1 DEF LocalRule
    <3>5. kr'.manifest = kr.masters \/ (kr.fresh /\ kr'.manifest = 0)
      BY Zenon, <3>1 DEF LocalRule
    <3>6. QED
      BY SMTT(40), <1>1, <3>1, <3>2, <3>3, <3>4, <3>5
  <2>5. ASSUME kr.fresh, kr.inits = 0
        PROVE  /\ DOMAIN kr.keys = {} /\ kr'.files = {} /\ kr'.manifest = 0
               /\ \A d \in P : DOMAIN kr'.own[d] = {} /\ kr'.at[d] \notin {"found", "write_manifest"}
    <3>1. /\ DOMAIN kr.keys = {} /\ kr.files = {} /\ kr.manifest = 0
          /\ \A d \in P : DOMAIN kr.own[d] = {} /\ kr.at[d] \notin {"found", "write_manifest"}
      BY Zenon, <2>5 DEF KeysInv, MasterInv, PcOf
    <3>2. DOMAIN kr'.own[c] = {} /\ kr'.files = {} /\ kr'.at[c] \notin {"found", "write_manifest"}
      BY Zenon, <3>1 DEF LocalRule, OwnRule
    <3>3. QED
      BY ZenonT(40), <1>1, <2>2, <3>1, <3>2
  <2>6. QED
    BY SMTT(40), <1>1, <2>3, <2>4, <2>5 DEF MasterInv, PcOf
<1>5. SearchInv'
  <2>1. \A d \in P : d # c => Searches(d)'
    BY SMTT(40), <1>1 DEF KeysInv, SearchInv, Searches, OpensKey, PcOf, KeyOp
  <2>2. Searches(c)'
    BY Zenon DEF LocalRule
  <2>3. QED
    BY Zenon, <1>1, <2>1, <2>2 DEF SearchInv
<1>6. NewerInv'
  <2> SUFFICES ASSUME kr.deletes = 0, NEW d \in P
               PROVE  /\ DOMAIN kr'.own[d] # {} => \E id \in DOMAIN kr.keys : kr.keys[id].user = kr.ops[d].user
                      /\ kr'.at[d] = "drop" => \E id \in DOMAIN kr.keys :
                                                id > OldKey(d)' /\ kr.keys[id].user = kr.ops[d].user
    BY SMTT(40), <1>1 DEF NewerInv, PcOf, KeyOp
  <2>1. /\ DOMAIN kr.own[d] # {} => \E id \in DOMAIN kr.keys : kr.keys[id].user = kr.ops[d].user
        /\ kr.at[d] = "drop" => \E id \in DOMAIN kr.keys :
                                 id > OldKey(d) /\ kr.keys[id].user = kr.ops[d].user
    BY Zenon DEF KeysInv, NewerInv, PcOf, KeyOp
  <2>2. CASE d # c
    BY ZenonT(40), <1>1, <2>1, <2>2 DEF OldKey
  <2>3. CASE d = c
    BY Zenon, <2>1, <2>3 DEF LocalRule, OwnRule
  <2>4. QED
    BY Zenon, <2>2, <2>3
<1>7. QED
  BY Zenon, <1>2, <1>3, <1>4, <1>5, <1>6 DEF KeysInv

(* A step that takes c to another place and changes nothing of its search.   *)
QuietRule(c, pc) ==
    /\ kr' \in KeysRec(KeyProcs) /\ kr'.at[c] = pc
    /\ \A d \in KeyProcs : d # c => kr'.at[d] = kr.at[d] /\ kr'.master[d] = kr.master[d]
    /\ kr'.ops = kr.ops /\ kr'.keys = kr.keys /\ kr'.made = kr.made /\ kr'.masters = kr.masters
    /\ kr'.fresh = kr.fresh /\ kr'.inits = kr.inits /\ kr'.deletes = kr.deletes
    /\ kr'.listed = kr.listed /\ kr'.own = kr.own /\ kr'.through = kr.through
    /\ pc \in {"write_key", "make_dirs"} => kr.ops[c].op = "init"
    /\ pc \in {"delete", "export"} => kr.ops[c].op = pc
    /\ pc = "save" => kr.ops[c].op = "change" /\ DOMAIN kr.own[c] # {}
    /\ pc = "write_key" => kr.manifest = 0
    /\ pc = "found" => /\ kr.ops[c].op \in {"open", "add"}
                       /\ \E id \in DOMAIN kr.keys : kr'.master[c] = kr.keys[id].master
    /\ pc = "failed" /\ kr.ops[c].op \in {"open", "add"} /\ kr.inits = 0 => kr.through[c] = {}
    /\ \A key \in kr'.files : \/ key \in kr.files
                              \/ \E id \in DOMAIN kr.keys : key = kr.keys[id]
                              \/ kr.at[c] = "found" /\ key.master = kr.master[c]
    /\ kr'.manifest = kr.manifest \/ (kr.at[c] = "write_manifest" /\ kr'.manifest = kr.master[c])

(* It touches no key file.                                                   *)
LEMMA QuietLocal ==
    ASSUME KeysInv, NEW c \in KeyProcs, NEW pc \in KeyPCs \ {"search", "write_manifest", "drop"},
           QuietRule(c, pc)
    PROVE  LocalRule(c)
<1>1. KeysFrame(c)
  BY Zenon DEF QuietRule, KeysFrame, KeyProcs
<1>2. OwnRule(c)
  BY Zenon DEF QuietRule, OwnRule
<1>3. KeyPlace(c)'
  BY SMTT(40) DEF QuietRule, KeyPlace, PcOf, KeyOp, KeysInv, KeysTypeInv, KeyPlaces
<1>4. Searches(c)'
  BY DEF QuietRule, Searches, OpensKey, PcOf, KeyOp, KeysInv, SearchInv
<1>5. QED
  BY ZenonT(40), <1>1, <1>2, <1>3, <1>4 DEF QuietRule, LocalRule

(* What KeyEnds does to a state that differs from the current one elsewhere. *)
LEMMA EndsQuiet ==
    ASSUME KeysInv, NEW c \in KeyProcs, NEW pc \in KeyPCs, NEW x \in KeysRec(KeyProcs),
           x.at = kr.at, kr' = KeyEnds(x, c, pc)
    PROVE  /\ kr' \in KeysRec(KeyProcs) /\ KeysSame(x, kr') /\ kr'.at[c] = pc
           /\ \A d \in KeyProcs : d # c => kr'.at[d] = kr.at[d]
BY EndsFields

(* What changes in x besides where c stands: none of these.                  *)
KeysElse(x) ==
    /\ x.at = kr.at /\ x.ops = kr.ops /\ x.keys = kr.keys /\ x.made = kr.made /\ x.masters = kr.masters
    /\ x.fresh = kr.fresh /\ x.inits = kr.inits /\ x.deletes = kr.deletes
    /\ x.listed = kr.listed /\ x.own = kr.own /\ x.through = kr.through

(* Every step that neither searches nor changes the keys touches none.       *)
LEMMA ReadersLocal ==
    ASSUME KeysInv, NEW c \in KeyProcs,
           \/ CheckNew(c) \/ WriteManifest(c) \/ MakeDirs(c) \/ OpenManifest(c) \/ FindId(c)
           \/ ExportKey(c) \/ KillKeyProc(c)
    PROVE  LocalRule(c)
<1> DEFINE P == KeyProcs
           Quiet == KeyPCs \ {"search", "write_manifest", "drop"}
<1>1. /\ kr \in KeysRec(P) /\ kr.manifest \in Nat /\ kr.files \in SUBSET KeyFile /\ kr.kills \in Nat
      /\ kr.keys \in KeyFiles /\ kr.master \in [P -> Nat]
  BY Zenon DEF KeysInv, KeysTypeInv, KeysRec
<1>2. KeyPlace(c)
  BY Zenon DEF KeysInv, KeysTypeInv, KeyPlaces
<1>3. {"failed", "write_key", "make_dirs", "ok", "delete", "export", "killed"} \subseteq Quiet
  BY ZenonT(40) DEF KeyPCs
<1> HIDE DEF Quiet
<1>4. CASE CheckNew(c)
  <2>1. kr \in KeysRec(P) /\ KeysElse(kr)
    BY ZenonT(40), <1>1 DEF KeysElse
  <2>2. PICK pc \in {"failed", "write_key"} : kr' = KeyEnds(kr, c, pc) /\ kr.ops[c].op = "init" /\ (pc = "write_key" => kr.manifest = 0)
    BY ZenonT(40), <1>2, <1>4 DEF CheckNew, KeyOp
  <2>3. pc \in Quiet
    BY ZenonT(40), <1>3
  <2>4. QuietRule(c, pc)
    BY SMTT(60), <1>1, <2>1, <2>2, <2>3, EndsQuiet DEF QuietRule, KeysSame, KeysElse, Quiet
  <2>5. QED
    BY Zenon, <2>3, <2>4, QuietLocal DEF Quiet
<1>5. CASE WriteManifest(c)
  <2> DEFINE x == [kr EXCEPT !.manifest = kr.master[c]]
  <2>1. x \in KeysRec(P) /\ KeysElse(x) /\ x.files = kr.files /\ x.master = kr.master /\ x.manifest = kr.master[c]
    BY ZenonT(40), <1>1 DEF KeysRec, KeysElse
  <2>2. PICK pc \in {"make_dirs"} : kr' = KeyEnds(x, c, pc) /\ kr.at[c] = "write_manifest" /\ kr.ops[c].op = "init"
    BY Zenon, <1>2, <1>5 DEF WriteManifest, PcOf, KeyOp, KeyPlace
  <2> HIDE DEF x
  <2>3. pc \in Quiet
    BY Zenon, <1>3
  <2>4. QuietRule(c, pc)
    BY SMTT(60), <1>1, <2>1, <2>2, <2>3, EndsQuiet DEF QuietRule, KeysSame, KeysElse, Quiet
  <2>5. QED
    BY Zenon, <2>3, <2>4, QuietLocal DEF Quiet
<1>6. CASE MakeDirs(c)
  <2> DEFINE x == [kr EXCEPT !.dirs = TRUE]
  <2>1. x \in KeysRec(P) /\ KeysElse(x) /\ x.files = kr.files /\ x.master = kr.master /\ x.manifest = kr.manifest
    BY Zenon, <1>1 DEF KeysRec, KeysElse
  <2>2. PICK pc \in {"ok"} : kr' = KeyEnds(x, c, pc) /\ kr.ops[c].op = "init"
    BY Zenon, <1>2, <1>6 DEF MakeDirs, PcOf, KeyOp, KeyPlace
  <2> HIDE DEF x
  <2>3. pc \in Quiet
    BY Zenon, <1>3
  <2>4. QuietRule(c, pc)
    BY SMTT(60), <1>1, <2>1, <2>2, <2>3, EndsQuiet DEF QuietRule, KeysSame, KeysElse, Quiet
  <2>5. QED
    BY Zenon, <2>3, <2>4, QuietLocal DEF Quiet
<1>7. CASE OpenManifest(c)
  <2>1. kr \in KeysRec(P) /\ KeysElse(kr)
    BY Zenon, <1>1 DEF KeysElse
  <2>2. PICK pc \in {"ok", "failed"} : kr' = KeyEnds(kr, c, pc) /\ kr.at[c] = "found" /\ (pc = "failed" => kr.manifest # kr.master[c])
    BY Zenon, <1>2, <1>7 DEF OpenManifest, PcOf
  <2>6. ~(pc = "failed" /\ kr.inits = 0)
    BY Zenon, <2>2 DEF KeysInv, MasterInv, PcOf
  <2>3. pc \in Quiet
    BY Zenon, <1>3
  <2>4. QuietRule(c, pc)
    BY SMTT(60), <1>1, <2>1, <2>2, <2>3, <2>6, EndsQuiet DEF QuietRule, KeysSame, KeysElse, Quiet
  <2>5. QED
    BY Zenon, <2>3, <2>4, QuietLocal DEF Quiet
<1>8. CASE FindId(c)
  <2>1. kr \in KeysRec(P) /\ KeysElse(kr)
    BY Zenon, <1>1 DEF KeysElse
  <2>2. PICK pc \in {"delete", "export", "failed"} : kr' = KeyEnds(kr, c, pc) /\ kr.ops[c].op \in {"delete", "export"} /\ (pc # "failed" => pc = kr.ops[c].op)
    BY Zenon, <1>2, <1>8 DEF FindId, KeyOp
  <2>3. pc \in Quiet
    BY Zenon, <1>3
  <2>4. QuietRule(c, pc)
    BY SMTT(60), <1>1, <2>1, <2>2, <2>3, EndsQuiet DEF QuietRule, KeysSame, KeysElse, Quiet
  <2>5. QED
    BY Zenon, <2>3, <2>4, QuietLocal DEF Quiet
<1>9. CASE ExportKey(c)
  <2> DEFINE id == kr.ops[c].id
             x == [kr EXCEPT !.files = @ \union {kr.keys[id]}]
  <2>1. kr.ops[c].op = "export"
    BY Zenon, <1>2, <1>9 DEF ExportKey, PcOf, KeyOp, KeyPlace
  <2>2. CASE id \notin DOMAIN kr.keys
    <3>1. kr' = KeyEnds(kr, c, "failed")
      BY ZenonT(40), <1>9, <2>2 DEF ExportKey, KeyOp
    <3>2. QuietRule(c, "failed")
      BY SMTT(60), <1>1, <1>3, <2>1, <3>1, EndsQuiet DEF QuietRule, KeysSame, Quiet
    <3>3. QED
      BY Zenon, <1>3, <3>2, QuietLocal DEF Quiet
  <2>3. CASE id \in DOMAIN kr.keys
    <3>1. kr' = KeyEnds(x, c, "ok")
      BY Zenon, <1>9, <2>3 DEF ExportKey, KeyOp
    <3>2. kr.keys[id] \in KeyFile
      BY Zenon, <1>1, <2>3, KeyFilesAre
    <3>3. /\ x \in KeysRec(P) /\ KeysElse(x) /\ x.files = kr.files \union {kr.keys[id]}
          /\ x.master = kr.master /\ x.manifest = kr.manifest
      BY SMTT(40), <1>1, <3>2 DEF KeysRec, KeysElse
    <3> HIDE DEF x
    <3>4. QuietRule(c, "ok")
      BY SMTT(60), <1>1, <1>3, <2>1, <2>3, <3>1, <3>3, EndsQuiet DEF QuietRule, KeysSame, KeysElse, Quiet
    <3>5. QED
      BY Zenon, <1>3, <3>4, QuietLocal DEF Quiet
  <2>4. QED
    BY Zenon, <2>2, <2>3
<1>10. CASE KillKeyProc(c)
  <2> DEFINE x == [kr EXCEPT !.kills = @ - 1]
  <2>0. kr.kills - 1 \in Nat
    BY <1>1, <1>10 DEF KillKeyProc
  <2>1. x \in KeysRec(P) /\ KeysElse(x) /\ x.files = kr.files /\ x.master = kr.master /\ x.manifest = kr.manifest
    BY ZenonT(40), <1>1, <2>0 DEF KeysRec, KeysElse
  <2>2. PICK pc \in {"killed"} : kr' = KeyEnds(x, c, pc) /\ kr.kills > 0
    BY ZenonT(40), <1>2, <1>10 DEF KillKeyProc
  <2> HIDE DEF x
  <2>3. pc \in Quiet
    BY ZenonT(40), <1>3
  <2>4. QuietRule(c, pc)
    BY SMTT(60), <1>1, <2>1, <2>2, <2>3, EndsQuiet DEF QuietRule, KeysSame, KeysElse, Quiet
  <2>5. QED
    BY Zenon, <2>3, <2>4, QuietLocal DEF Quiet
<1>11. QED
  BY Zenon, <1>4, <1>5, <1>6, <1>7, <1>8, <1>9, <1>10

(* KeyFileStream: every step of a search touches no key file.                *)
LEMMA SearchLocal ==
    ASSUME KeysInv, NEW c \in KeyProcs, ListKeys(c) \/ TryKey(c) \/ FindOwn(c)
    PROVE  LocalRule(c)
<1> DEFINE P == KeyProcs
           Quiet == KeyPCs \ {"search", "write_manifest", "drop"}
<1>1. /\ kr \in KeysRec(P) /\ kr.keys \in KeyFiles /\ kr.master \in [P -> Nat]
      /\ kr.listed \in [P -> SUBSET Nat] /\ kr.through \in [P -> SUBSET Nat] /\ kr.own \in [P -> KeyFiles]
  BY Zenon DEF KeysInv, KeysTypeInv, KeysRec
<1>2. KeyPlace(c) /\ Searches(c)
  BY Zenon DEF KeysInv, KeysTypeInv, KeyPlaces, SearchInv
<1>3. /\ {"failed", "found", "save"} \subseteq Quiet
      /\ "search" \in KeyPCs
  BY Zenon DEF KeyPCs
<1>4. DOMAIN kr.keys \subseteq Nat /\ \A id \in DOMAIN kr.keys : kr.keys[id] \in KeyFile /\ kr.keys[id].master \in Nat
  BY <1>1, KeyFilesAre DEF KeyFile
<1> HIDE DEF Quiet
<1>5. CASE ListKeys(c)
  <2> DEFINE opens == {id \in DOMAIN kr.keys : OpensKey(c, id)}
             listed == [kr.listed EXCEPT ![c] = DOMAIN kr.keys]
             through == [kr.through EXCEPT ![c] = opens]
             x == [kr EXCEPT !.listed = listed, !.through = through]
  <2>1. kr.ops[c].op \in {"open", "add", "change"} /\ kr' = KeyEnds(x, c, "search") /\ kr.at[c] = "start"
    BY Zenon, <1>5 DEF ListKeys, KeyOp, PcOf
  <2>2. /\ listed \in [P -> SUBSET Nat] /\ listed[c] = DOMAIN kr.keys
        /\ through \in [P -> SUBSET Nat] /\ through[c] = opens
        /\ \A d \in P : d # c => listed[d] = kr.listed[d] /\ through[d] = kr.through[d]
    BY Zenon, <1>1, <1>4
  <2> HIDE DEF listed, through
  <2>3. /\ x \in KeysRec(P) /\ x.listed = listed /\ x.through = through /\ x.at = kr.at /\ x.ops = kr.ops
        /\ x.keys = kr.keys /\ x.made = kr.made /\ x.masters = kr.masters /\ x.fresh = kr.fresh
        /\ x.inits = kr.inits /\ x.deletes = kr.deletes /\ x.own = kr.own /\ x.files = kr.files
        /\ x.manifest = kr.manifest /\ x.master = kr.master
    BY ZenonT(40), <1>1, <2>2 DEF KeysRec
  <2> HIDE DEF x
  <2>4. /\ kr' \in KeysRec(P) /\ KeysSame(x, kr') /\ kr'.at[c] = "search"
        /\ \A d \in P : d # c => kr'.at[d] = kr.at[d]
    BY Zenon, <1>3, <2>1, <2>3, EndsQuiet
  <2>5. KeysFrame(c)
    BY SMTT(40), <2>2, <2>3, <2>4 DEF KeysFrame, KeysSame, KeyProcs
  <2>6. kr'.listed[c] = DOMAIN kr.keys /\ kr'.through[c] = opens /\ kr'.keys = kr.keys /\ kr'.ops = kr.ops
    BY ZenonT(40), <2>2, <2>3, <2>4 DEF KeysSame
  <2>7. KeyPlace(c)'
    BY SMTT(60), <1>2, <2>1, <2>3, <2>4 DEF KeyPlace, PcOf, KeyOp, KeysSame
  <2>8. Searches(c)'
    BY Zenon, <2>4, <2>6 DEF Searches, OpensKey, PcOf, KeyOp
  <2>9. OwnRule(c)
    BY ZenonT(40), <2>3, <2>4 DEF OwnRule, KeysSame
  <2>10. QED
    BY ZenonT(40), <2>2, <2>3, <2>4, <2>5, <2>7, <2>8, <2>9 DEF LocalRule, KeysSame
<1>6. CASE TryKey(c)
  <2>1. kr.at[c] = "search" /\ kr.ops[c].op \in {"open", "add"} /\ kr.through[c] \subseteq kr.listed[c]
    BY ZenonT(40), <1>2, <1>6 DEF TryKey, PcOf, KeyOp, Searches
  <2>2. CASE kr.listed[c] = {}
    <3>1. kr' = KeyEnds(kr, c, "failed") /\ kr.through[c] = {}
      BY ZenonT(40), <1>6, <2>1, <2>2 DEF TryKey
    <3>2. QuietRule(c, "failed")
      BY SMTT(60), <1>1, <1>3, <3>1, EndsQuiet DEF QuietRule, KeysSame, Quiet
    <3>3. QED
      BY ZenonT(40), <1>3, <3>2, QuietLocal DEF Quiet
  <2>3. ASSUME NEW id \in kr.listed[c], id \in DOMAIN kr.keys, OpensKey(c, id),
               kr' = KeyEnds([kr EXCEPT !.master[c] = kr.keys[id].master], c, "found")
        PROVE  LocalRule(c)
    <3> DEFINE master == [kr.master EXCEPT ![c] = kr.keys[id].master]
               x == [kr EXCEPT !.master = master]
    <3>1. kr' = KeyEnds(x, c, "found")
      BY Zenon, <2>3
    <3>2. master \in [P -> Nat] /\ master[c] = kr.keys[id].master /\ \A d \in P : d # c => master[d] = kr.master[d]
      BY Zenon, <1>1, <1>4, <2>3
    <3> HIDE DEF master
    <3>3. x \in KeysRec(P) /\ KeysElse(x) /\ x.files = kr.files /\ x.manifest = kr.manifest /\ x.master = master
      BY ZenonT(40), <1>1, <3>2 DEF KeysRec, KeysElse
    <3> HIDE DEF x
    <3>4. /\ kr' \in KeysRec(P) /\ KeysSame(x, kr') /\ kr'.at[c] = "found"
          /\ \A d \in P : d # c => kr'.at[d] = kr.at[d]
      BY SMTT(40), <1>3, <3>1, <3>3, EndsQuiet DEF KeysElse, Quiet
    <3>5. kr'.master[c] = kr.keys[id].master /\ \A d \in P : d # c => kr'.master[d] = kr.master[d]
      BY SMTT(40), <3>2, <3>3, <3>4 DEF KeysSame
    <3>6. QuietRule(c, "found")
      BY ZenonT(40), <2>1, <2>3, <3>3, <3>4, <3>5 DEF QuietRule, KeysSame, KeysElse
    <3>7. QED
      BY Zenon, <1>3, <3>6, QuietLocal DEF Quiet
  <2>4. ASSUME NEW id \in kr.listed[c], ~(id \in DOMAIN kr.keys /\ OpensKey(c, id)),
               kr' = [kr EXCEPT !.listed[c] = @ \ {id}]
        PROVE  LocalRule(c)
    <3> DEFINE listed == [kr.listed EXCEPT ![c] = @ \ {id}]
    <3>1. kr' = [kr EXCEPT !.listed = listed]
      BY Zenon, <2>4
    <3>2. /\ listed \in [P -> SUBSET Nat] /\ listed[c] = kr.listed[c] \ {id}
          /\ \A d \in P : d # c => listed[d] = kr.listed[d]
      BY Zenon, <1>1
    <3> HIDE DEF listed
    <3>3. /\ kr' \in KeysRec(P) /\ kr'.listed = listed /\ kr'.master = kr.master /\ kr'.files = kr.files
          /\ kr'.manifest = kr.manifest /\ kr'.at = kr.at /\ kr'.ops = kr.ops /\ kr'.keys = kr.keys
          /\ kr'.made = kr.made /\ kr'.masters = kr.masters /\ kr'.fresh = kr.fresh /\ kr'.inits = kr.inits
          /\ kr'.deletes = kr.deletes /\ kr'.own = kr.own /\ kr'.through = kr.through
      BY SMTT(40), <1>1, <3>1, <3>2 DEF KeysRec
    <3>4. KeysFrame(c)
      BY ZenonT(40), <3>2, <3>3 DEF KeysFrame, KeyProcs
    <3>5. id \notin kr.through[c]
      BY Zenon, <1>2, <2>4 DEF Searches
    <3>6. Searches(c)'
      BY SMTT(60), <1>2, <2>1, <3>2, <3>3, <3>5 DEF Searches, OpensKey, PcOf, KeyOp
    <3>7. KeyPlace(c)' /\ OwnRule(c)
      BY Zenon, <1>2, <3>3 DEF KeyPlace, PcOf, KeyOp, OwnRule
    <3>8. QED
      BY Zenon, <2>1, <3>3, <3>4, <3>6, <3>7 DEF LocalRule
  <2>5. QED
    BY Zenon, <1>6, <2>2, <2>3, <2>4 DEF TryKey
<1>7. CASE FindOwn(c)
  <2>1. kr.at[c] = "search" /\ kr.ops[c].op = "change"
    BY Zenon, <1>7 DEF FindOwn, PcOf, KeyOp
  <2>2. CASE kr.listed[c] = {}
    <3>1. PICK pc \in {"failed", "save"} :
            kr' = KeyEnds(kr, c, pc) /\ (pc = "save" => DOMAIN kr.own[c] # {})
      BY ZenonT(40), <1>7, <2>2 DEF FindOwn
    <3>2. QuietRule(c, pc)
      BY SMTT(60), <1>1, <1>3, <2>1, <3>1, EndsQuiet DEF QuietRule, KeysSame, Quiet
    <3>3. QED
      BY ZenonT(40), <1>3, <3>2, QuietLocal DEF Quiet
  <2>3. CASE kr.listed[c] # {}
    <3>1. PICK id \in kr.listed[c] :
            kr' = [kr EXCEPT !.listed[c] = @ \ {id},
                             !.own[c] = IF id \in DOMAIN kr.keys /\ kr.keys[id].user = KeyOp(c).user
                                        THEN WithKey(@, id, kr.keys[id]) ELSE @]
      BY Zenon, <1>7, <2>3 DEF FindOwn
    <3> DEFINE mine == id \in DOMAIN kr.keys /\ kr.keys[id].user = kr.ops[c].user
               listed == [kr.listed EXCEPT ![c] = @ \ {id}]
               knows == IF mine THEN WithKey(kr.own[c], id, kr.keys[id]) ELSE kr.own[c]
               own == [kr.own EXCEPT ![c] = knows]
    <3>2. kr' = [kr EXCEPT !.listed = listed, !.own = own]
      BY ZenonT(40), <1>1, <3>1 DEF KeyOp
    <3>3. listed \in [P -> SUBSET Nat] /\ \A d \in P : d # c => listed[d] = kr.listed[d]
      BY ZenonT(40), <1>1
    <3>4. /\ knows \in KeyFiles
          /\ mine => /\ DOMAIN knows = (DOMAIN kr.own[c]) \cup {id} /\ knows[id] = kr.keys[id]
                     /\ \A k \in DOMAIN kr.own[c] : k # id => knows[k] = kr.own[c][k]
          /\ ~mine => knows = kr.own[c]
      <4>1. kr.own[c] \in KeyFiles
        BY Zenon, <1>1
      <4>2. CASE mine
        <5>1. id \in Nat /\ kr.keys[id] \in KeyFile /\ knows = WithKey(kr.own[c], id, kr.keys[id])
          BY Zenon, <1>4, <4>2
        <5> HIDE DEF knows, mine
        <5>2. QED
          BY ZenonT(60), <4>1, <4>2, <5>1, OneMoreKey
      <4>3. CASE ~mine
        BY Zenon, <4>1, <4>3
      <4>4. QED
        BY ZenonT(40), <4>2, <4>3
    <3> HIDE DEF knows
    <3>5. own \in [P -> KeyFiles] /\ own[c] = knows /\ \A d \in P : d # c => own[d] = kr.own[d]
      BY Zenon, <1>1, <3>4
    <3> HIDE DEF listed, own
    <3>6. /\ kr' \in KeysRec(P) /\ kr'.listed = listed /\ kr'.master = kr.master /\ kr'.files = kr.files
          /\ kr'.manifest = kr.manifest /\ kr'.at = kr.at /\ kr'.ops = kr.ops /\ kr'.keys = kr.keys
          /\ kr'.made = kr.made /\ kr'.masters = kr.masters /\ kr'.fresh = kr.fresh /\ kr'.inits = kr.inits
          /\ kr'.deletes = kr.deletes /\ kr'.own = own /\ kr'.through = kr.through
      BY ZenonT(40), <1>1, <3>2, <3>3, <3>5 DEF KeysRec
    <3>7. KeysFrame(c)
      BY Zenon, <3>3, <3>5, <3>6 DEF KeysFrame, KeyProcs
    <3>8. Searches(c)'
      BY ZenonT(40), <1>2, <2>1, <3>6 DEF Searches, OpensKey, PcOf, KeyOp
    <3>9. KeyPlace(c)'
      BY Zenon, <1>2, <2>1, <3>6 DEF KeyPlace, PcOf, KeyOp
    <3>10. OwnRule(c)
      BY ZenonT(40), <3>4, <3>5, <3>6 DEF OwnRule
    <3>11. QED
      BY Zenon, <2>1, <3>6, <3>7, <3>8, <3>9, <3>10 DEF LocalRule
  <2>4. QED
    BY Zenon, <2>2, <2>3
<1>8. QED
  BY Zenon, <1>5, <1>6, <1>7

(* A new key file gets a number.                                             *)
LEMMA NewIdNat == ASSUME KeysInv PROVE NewKeyId(kr) \in Nat
BY DEF KeysInv, KeysTypeInv, KeysRec, NewKeyId

(* A step that adds a key file.                                              *)
AddRule(c, key) ==
    /\ KeysFrame(c)
    /\ kr'.made = NewKeyId(kr) /\ DOMAIN kr'.keys = (DOMAIN kr.keys) \cup {NewKeyId(kr)}
    /\ kr'.keys[NewKeyId(kr)] = key
    /\ \A k \in DOMAIN kr.keys : k # NewKeyId(kr) => kr'.keys[k] = kr.keys[k]
    /\ kr'.own = kr.own /\ kr'.through = kr.through /\ kr'.listed = kr.listed /\ kr'.deletes = kr.deletes
    /\ kr'.inits = 0 => kr.inits = 0
    /\ kr'.at[c] \in {"write_manifest", "drop", "ok"}
    /\ kr'.at[c] = "write_manifest" => kr.ops[c].op = "init"
    /\ kr'.at[c] = "drop" => /\ kr.ops[c].op = "change" /\ DOMAIN kr.own[c] # {}
                             /\ key.user = kr.ops[c].user

(* It keeps what is said of identifiers, searches and users.                 *)
LEMMA AddKeeps ==
    ASSUME KeysInv, NEW c \in KeyProcs, NEW key, AddRule(c, key)
    PROVE  KeysTypeInv' /\ IdsInv' /\ SearchInv' /\ NewerInv'
<1> DEFINE P == KeyProcs
<1>1. PICK n \in Nat : kr.made = n /\ NewKeyId(kr) = n + 1
  BY Zenon DEF KeysInv, KeysTypeInv, KeysRec, NewKeyId
<1>2. /\ kr' \in KeysRec(P) /\ P' = P /\ kr'.ops = kr.ops
      /\ \A d \in P : d # c => kr'.at[d] = kr.at[d]
      /\ kr'.own = kr.own /\ kr'.through = kr.through /\ kr'.listed = kr.listed /\ kr'.deletes = kr.deletes
  BY Zenon DEF AddRule, KeysFrame
<1>3. /\ kr'.made = n + 1 /\ DOMAIN kr'.keys = (DOMAIN kr.keys) \cup {n + 1} /\ kr'.keys[n + 1] = key
      /\ \A k \in DOMAIN kr.keys : k # n + 1 => kr'.keys[k] = kr.keys[k]
  BY Zenon, <1>1 DEF AddRule
<1>4. DOMAIN kr.keys \subseteq 1 .. n /\ \A d \in P : DOMAIN kr.own[d] \subseteq 1 .. n
  BY Zenon, <1>1 DEF KeysInv, IdsInv
<1>5. \A k \in DOMAIN kr.keys : k \in DOMAIN kr'.keys /\ kr'.keys[k] = kr.keys[k]
  BY <1>3, <1>4
<1>6. KeysTypeInv'
  <2>1. \A d \in P : d # c => KeyPlace(d)'
    BY SMTT(40), <1>2 DEF KeysInv, KeysTypeInv, KeyPlaces, KeyPlace, PcOf, KeyOp
  <2>2. KeyPlace(c)'
    BY SMTT(40), <1>2 DEF AddRule, KeysInv, KeysTypeInv, KeyPlaces, KeyPlace, PcOf, KeyOp
  <2>3. QED
    BY Zenon, <1>2, <2>1, <2>2 DEF KeysTypeInv, KeyPlaces
<1>7. IdsInv'
  <2>1. DOMAIN kr'.keys \subseteq 1 .. kr'.made
    BY <1>1, <1>3, <1>4
  <2>2. ASSUME NEW d \in P, NEW k \in DOMAIN kr'.own[d]
        PROVE  /\ k \in 1 .. kr'.made /\ kr'.own[d][k].user = KeyOp(d)'.user
               /\ k \in DOMAIN kr'.keys => kr'.keys[k] = kr'.own[d][k]
    <3>1. /\ k \in 1 .. n /\ kr.own[d][k].user = kr.ops[d].user
          /\ k \in DOMAIN kr.keys => kr.keys[k] = kr.own[d][k]
      BY <1>2, <1>4, <2>2 DEF KeysInv, IdsInv, KeyOp
    <3>2. k \in 1 .. (n + 1) /\ k # n + 1
      BY <3>1
    <3>3. QED
      BY Zenon, <1>2, <1>3, <1>5, <3>1, <3>2 DEF KeyOp
  <2>3. QED
    BY SMTT(40), <1>2, <2>1, <2>2 DEF IdsInv
<1>8. SearchInv'
  <2>1. ASSUME NEW d \in P PROVE Searches(d)'
    <3>1. Searches(d)
      BY ZenonT(40) DEF KeysInv, SearchInv
    <3>2. \A id \in kr'.through[d] : id \in DOMAIN kr'.keys /\ OpensKey(d, id)'
      BY <1>2, <1>5, <3>1 DEF Searches, OpensKey, KeyOp
    <3>3. kr'.at[d] \in {"search", "failed"} => kr'.at[d] = kr.at[d]
      BY Zenon, <1>2 DEF AddRule
    <3>4. kr'.inits = 0 => kr.inits = 0
      BY Zenon DEF AddRule
    <3>5. QED
      BY <1>2, <3>1, <3>2, <3>3, <3>4 DEF Searches, PcOf, KeyOp
  <2>2. QED
    BY Zenon, <1>2, <2>1 DEF SearchInv
<1>9. NewerInv'
  <2> SUFFICES ASSUME kr.deletes = 0, NEW d \in P
               PROVE  /\ DOMAIN kr'.own[d] # {} => \E id \in DOMAIN kr'.keys : kr'.keys[id].user = kr.ops[d].user
                      /\ kr'.at[d] = "drop" => \E id \in DOMAIN kr'.keys :
                                                id > OldKey(d)' /\ kr'.keys[id].user = kr.ops[d].user
    BY <1>2 DEF NewerInv, PcOf, KeyOp
  <2>1. /\ DOMAIN kr.own[d] # {} => \E id \in DOMAIN kr.keys : kr.keys[id].user = kr.ops[d].user
        /\ kr.at[d] = "drop" => \E id \in DOMAIN kr.keys :
                                 id > OldKey(d) /\ kr.keys[id].user = kr.ops[d].user
    BY Zenon DEF KeysInv, NewerInv, PcOf, KeyOp
  <2>2. OldKey(d)' = OldKey(d)
    BY Zenon, <1>2 DEF OldKey
  <2>3. CASE d = c /\ kr'.at[c] = "drop"
    <3>1. key.user = kr.ops[c].user /\ DOMAIN kr.own[c] # {}
      BY ZenonT(40), <2>3 DEF AddRule
    <3>2. OldKey(c) \in 1 .. n
      BY ZenonT(40), <1>4, <3>1 DEF OldKey
    <3>3. n + 1 \in DOMAIN kr'.keys /\ n + 1 > OldKey(c) /\ kr'.keys[n + 1].user = kr.ops[c].user
      BY SMTT(40), <1>3, <3>1, <3>2
    <3>4. QED
      BY Zenon, <2>2, <2>3, <3>3
  <2>4. CASE ~(d = c /\ kr'.at[c] = "drop")
    BY SMTT(40), <1>2, <1>5, <2>1, <2>2, <2>4
  <2>5. QED
    BY Zenon, <2>3, <2>4
<1>10. QED
  BY Zenon, <1>6, <1>7, <1>8, <1>9

(* A new key with the master key that is already there.                      *)
LEMMA AddMaster ==
    ASSUME KeysInv, NEW c \in KeyProcs, NEW key, AddRule(c, key),
           kr'.masters = kr.masters, kr'.inits = kr.inits, kr'.manifest = kr.manifest,
           kr'.files = kr.files, kr'.master = kr.master, kr'.at[c] # "write_manifest",
           ~(kr.fresh /\ kr.inits = 0), (kr.fresh => kr.inits <= 1) => key.master = kr.masters
    PROVE  MasterInv'
<1> DEFINE P == KeyProcs
<1>1. /\ P' = P /\ kr'.fresh = kr.fresh /\ kr'.own = kr.own
      /\ \A d \in P : d # c => kr'.at[d] = kr.at[d]
      /\ kr'.at[c] \in {"drop", "ok"}
  BY ZenonT(40) DEF AddRule, KeysFrame
<1>2. \A id \in DOMAIN kr'.keys :
        kr'.keys[id] = key \/ (id \in DOMAIN kr.keys /\ kr'.keys[id] = kr.keys[id])
  BY ZenonT(40) DEF AddRule
<1>3. \A d \in P : kr'.at[d] \in {"found", "write_key", "write_manifest"} => kr'.at[d] = kr.at[d]
  BY ZenonT(40), <1>1
<1>4. ~kr'.fresh => kr'.manifest # 0 /\ \A d \in P : kr'.at[d] \notin {"write_key", "write_manifest"}
  BY ZenonT(40), <1>1, <1>3 DEF KeysInv, MasterInv, PcOf
<1>5. ASSUME kr.fresh => kr.inits <= 1
      PROVE  /\ \A id \in DOMAIN kr'.keys : kr'.keys[id].master = kr.masters
             /\ \A k \in kr.files : k.master = kr.masters
             /\ \A d \in P : \A id \in DOMAIN kr.own[d] : kr.own[d][id].master = kr.masters
             /\ \A d \in P : kr'.at[d] \in {"found", "write_manifest"} => kr.master[d] = kr.masters
             /\ kr.manifest = kr.masters \/ (kr.fresh /\ kr.manifest = 0)
  BY <1>2, <1>3, <1>5 DEF KeysInv, MasterInv, PcOf
<1>6. QED
  BY SMTT(40), <1>1, <1>4, <1>5 DEF MasterInv, PcOf

(* run_add.                                                                  *)
LEMMA WriteAddedKeeps ==
    ASSUME KeysInv, NEW c \in KeyProcs, WriteAdded(c)
    PROVE  KeysInv'
<1> DEFINE P == KeyProcs
           key == [user |-> kr.ops[c].newUser, pass |-> kr.ops[c].newPass, master |-> kr.master[c]]
<1>1. /\ kr \in KeysRec(P) /\ kr.files \in SUBSET KeyFile /\ kr.master \in [P -> Nat]
      /\ kr.ops[c] \in KeyCommand
  BY Zenon DEF KeysInv, KeysTypeInv, KeysRec
<1>2. kr.at[c] = "found" /\ kr.ops[c].op = "add"
  BY Zenon DEF WriteAdded, PcOf, KeyOp
<1>3. key \in KeyFile /\ key.master = kr.master[c]
  BY ZenonT(40), <1>1 DEF KeyFile, KeyCommand
<1>4. kr' = KeyEnds(IF kr.ops[c].toFile THEN [kr EXCEPT !.files = @ \union {key}] ELSE AddKey(kr, key), c, "ok")
  BY ZenonT(40) DEF WriteAdded, KeyOp
<1> HIDE DEF key
<1>5. "ok" \in KeyPCs \ {"search", "write_manifest", "drop"}
  BY ZenonT(40) DEF KeyPCs
<1>6. CASE kr.ops[c].toFile
  <2> DEFINE x == [kr EXCEPT !.files = @ \union {key}]
  <2>1. kr' = KeyEnds(x, c, "ok")
    BY <1>4, <1>6
  <2>2. /\ x \in KeysRec(P) /\ KeysElse(x) /\ x.files = kr.files \union {key}
        /\ x.master = kr.master /\ x.manifest = kr.manifest
    BY SMTT(40), <1>1, <1>3 DEF KeysRec, KeysElse
  <2> HIDE DEF x
  <2>3. QuietRule(c, "ok")
    BY SMTT(60), <1>2, <1>3, <1>5, <2>1, <2>2, EndsQuiet DEF QuietRule, KeysSame, KeysElse
  <2>4. QED
    BY <1>5, <2>3, QuietLocal, LocalKeeps
<1>7. CASE ~kr.ops[c].toFile
  <2> DEFINE y == AddKey(kr, key)
  <2>1. kr' = KeyEnds(y, c, "ok")
    BY Zenon, <1>4, <1>7
  <2>2. NewKeyId(kr) \in Nat
    BY Zenon, NewIdNat
  <2>3. y \in KeysRec(P) /\ Added(kr, y, NewKeyId(kr), key) /\ y.at = kr.at
    BY SMTT(40), <1>1, <1>3, <2>2, AddKeyFields
  <2> HIDE DEF y
  <2>4. /\ kr' \in KeysRec(P) /\ KeysSame(y, kr') /\ kr'.at[c] = "ok"
        /\ \A d \in P : d # c => kr'.at[d] = kr.at[d]
    BY ZenonT(40), <1>5, <2>1, <2>3, EndsQuiet
  <2>5. KeysFrame(c)
    BY SMTT(40), <2>3, <2>4 DEF KeysFrame, KeyProcs, KeysSame, Added
  <2>6. AddRule(c, key)
    BY ZenonT(40), <2>3, <2>4, <2>5 DEF AddRule, KeysSame, Added
  <2>7. MasterInv'
    <3>1. ~(kr.fresh /\ kr.inits = 0) /\ ((kr.fresh => kr.inits <= 1) => key.master = kr.masters)
      BY Zenon, <1>2, <1>3 DEF KeysInv, MasterInv, PcOf
    <3>2. QED
      BY SMTT(40), <2>3, <2>4, <2>6, <3>1, AddMaster DEF KeysSame, Added
  <2>8. QED
    BY Zenon, <2>6, <2>7, AddKeeps DEF KeysInv
<1>8. QED
  BY Zenon, <1>6, <1>7

(* run_password_change: the new key.                                         *)
LEMMA SaveChangedKeeps ==
    ASSUME KeysInv, NEW c \in KeyProcs, SaveChanged(c)
    PROVE  KeysInv'
<1> DEFINE P == KeyProcs
           old == kr.own[c][OldKey(c)]
           key == [old EXCEPT !.pass = kr.ops[c].newPass]
           y == AddKey(kr, key)
<1>1. /\ kr \in KeysRec(P) /\ kr.own[c] \in KeyFiles /\ kr.ops[c] \in KeyCommand /\ KeyPlace(c)
  BY ZenonT(40) DEF KeysInv, KeysTypeInv, KeysRec, KeyPlaces
<1>2. kr.at[c] = "save" /\ kr' = KeyEnds(y, c, "drop")
  BY ZenonT(40) DEF SaveChanged, PcOf, KeyOp
<1>3. kr.ops[c].op = "change" /\ DOMAIN kr.own[c] # {}
  BY ZenonT(40), <1>1, <1>2 DEF KeyPlace, PcOf, KeyOp
<1>4. OldKey(c) \in DOMAIN kr.own[c]
  BY ZenonT(40), <1>3 DEF OldKey
<1>5. old \in KeyFile /\ old.user = kr.ops[c].user
  BY ZenonT(40), <1>1, <1>4, KeyFilesAre DEF KeysInv, IdsInv, KeyOp
<1> HIDE DEF old
<1>6. key \in KeyFile /\ key.user = kr.ops[c].user /\ key.master = old.master
  BY ZenonT(40), <1>1, <1>5 DEF KeyFile, KeyCommand
<1> HIDE DEF key
<1>7. NewKeyId(kr) \in Nat
  BY Zenon, NewIdNat
<1>8. y \in KeysRec(P) /\ Added(kr, y, NewKeyId(kr), key) /\ y.at = kr.at
  BY ZenonT(40), <1>1, <1>6, <1>7, AddKeyFields
<1> HIDE DEF y
<1>9. "drop" \in KeyPCs
  BY ZenonT(40) DEF KeyPCs
<1>10. /\ kr' \in KeysRec(P) /\ KeysSame(y, kr') /\ kr'.at[c] = "drop"
       /\ \A d \in P : d # c => kr'.at[d] = kr.at[d]
  BY ZenonT(40), <1>2, <1>8, <1>9, EndsQuiet
<1>11. KeysFrame(c)
  BY SMTT(40), <1>8, <1>10 DEF KeysFrame, KeyProcs, KeysSame, Added
<1>12. AddRule(c, key)
  BY ZenonT(40), <1>3, <1>6, <1>8, <1>10, <1>11 DEF AddRule, KeysSame, Added
<1>13. MasterInv'
  <2>1. ~(kr.fresh /\ kr.inits = 0) /\ ((kr.fresh => kr.inits <= 1) => key.master = kr.masters)
    BY ZenonT(40), <1>3, <1>4, <1>6 DEF KeysInv, MasterInv, old
  <2>2. QED
    BY SMTT(40), <1>8, <1>10, <1>12, <2>1, AddMaster DEF KeysSame, Added
<1>14. QED
  BY Zenon, <1>12, <1>13, AddKeeps DEF KeysInv

(* Repository::init: the first key and its master key.                       *)
LEMMA WriteFirstKeyKeeps ==
    ASSUME KeysInv, NEW c \in KeyProcs, WriteFirstKey(c)
    PROVE  KeysInv'
<1> DEFINE P == KeyProcs
           m == kr.masters + 1
           master == [kr.master EXCEPT ![c] = m]
           n == kr.inits + 1
           x == [kr EXCEPT !.masters = m, !.master = master, !.inits = n]
           key == [user |-> kr.ops[c].user, pass |-> kr.ops[c].pass, master |-> m]
           y == AddKey(x, key)
<1>1. /\ kr \in KeysRec(P) /\ kr.master \in [P -> Nat] /\ kr.masters \in Nat /\ kr.inits \in Nat
      /\ kr.ops[c] \in KeyCommand /\ KeyPlace(c)
  BY ZenonT(40) DEF KeysInv, KeysTypeInv, KeysRec, KeyPlaces
<1>2. kr.at[c] = "write_key" /\ kr' = KeyEnds(y, c, "write_manifest")
  BY ZenonT(40), <1>1 DEF WriteFirstKey, PcOf, KeyOp
<1>3. kr.ops[c].op = "init" /\ kr.fresh
  BY ZenonT(40), <1>1, <1>2 DEF KeyPlace, PcOf, KeyOp, KeysInv, MasterInv
<1>4. key \in KeyFile /\ key.master = m
  BY SMTT(40), <1>1 DEF KeyFile, KeyCommand
<1> HIDE DEF key
<1>5. master \in [P -> Nat] /\ master[c] = m /\ \A d \in P : d # c => master[d] = kr.master[d]
  BY <1>1
<1> HIDE DEF master
<1>6. /\ x \in KeysRec(P) /\ x.masters = m /\ x.master = master /\ x.inits = n
      /\ x.at = kr.at /\ x.ops = kr.ops /\ x.keys = kr.keys /\ x.made = kr.made
      /\ x.fresh = kr.fresh /\ x.deletes = kr.deletes /\ x.files = kr.files /\ x.manifest = kr.manifest
      /\ x.listed = kr.listed /\ x.own = kr.own /\ x.through = kr.through
  <2>1. m \in Nat /\ n \in Nat
    BY <1>1
  <2> HIDE DEF m, n
  <2>2. QED
    BY ZenonT(40), <1>1, <1>5, <2>1 DEF KeysRec
<1> HIDE DEF x
<1>7. NewKeyId(x) = NewKeyId(kr) /\ NewKeyId(kr) \in Nat
  BY Zenon, <1>6, NewIdNat DEF NewKeyId
<1>8. y \in KeysRec(P) /\ Added(x, y, NewKeyId(kr), key) /\ y.at = kr.at
  BY ZenonT(40), <1>4, <1>6, <1>7, AddKeyFields
<1> HIDE DEF y
<1>9. "write_manifest" \in KeyPCs
  BY ZenonT(40) DEF KeyPCs
<1>10. /\ kr' \in KeysRec(P) /\ KeysSame(y, kr') /\ kr'.at[c] = "write_manifest"
       /\ \A d \in P : d # c => kr'.at[d] = kr.at[d]
  BY ZenonT(40), <1>2, <1>8, <1>9, EndsQuiet
<1>11. KeysFrame(c)
  BY SMTT(60), <1>5, <1>6, <1>8, <1>10 DEF KeysFrame, KeyProcs, KeysSame, Added
<1>12. AddRule(c, key)
  BY SMTT(60), <1>1, <1>3, <1>6, <1>8, <1>10, <1>11 DEF AddRule, KeysSame, Added
<1>13. MasterInv'
  <2>1. kr'.fresh /\ P' = P /\ kr'.inits = kr.inits + 1 /\ kr'.masters = m /\ kr'.master = master
        /\ kr'.manifest = kr.manifest /\ kr'.files = kr.files /\ kr'.own = kr.own
    BY ZenonT(40), <1>3, <1>6, <1>8, <1>10, <1>11 DEF KeysFrame, KeysSame, Added
  <2>2. kr'.inits # 0
    BY SMTT(60), <1>1, <2>1
  <2>3. ASSUME kr'.inits <= 1
        PROVE  /\ \A id \in DOMAIN kr'.keys : kr'.keys[id].master = m
               /\ kr.files = {} /\ \A d \in P : DOMAIN kr.own[d] = {}
               /\ \A d \in P : kr'.at[d] \in {"found", "write_manifest"} => master[d] = m
               /\ kr.manifest = 0
    <3>1. kr.inits = 0
      BY SMTT(40), <1>1, <2>1, <2>3
    <3>2. /\ DOMAIN kr.keys = {} /\ kr.files = {} /\ kr.manifest = 0
          /\ \A d \in P : DOMAIN kr.own[d] = {} /\ kr.at[d] \notin {"found", "write_manifest"}
      BY Zenon, <1>3, <3>1 DEF KeysInv, MasterInv, PcOf
    <3>3. \A id \in DOMAIN kr'.keys : kr'.keys[id] = key
      BY Zenon, <1>12, <3>2 DEF AddRule
    <3>4. QED
      BY ZenonT(40), <1>4, <1>5, <1>10, <3>2, <3>3
  <2>4. QED
    BY ZenonT(40), <2>1, <2>2, <2>3 DEF MasterInv, PcOf
<1>14. QED
  BY Zenon, <1>12, <1>13, AddKeeps DEF KeysInv

(* A step that removes a key file, if it is there.                           *)
DropRule(c, id) ==
    /\ KeysFrame(c)
    /\ kr'.made = kr.made /\ DOMAIN kr'.keys = (DOMAIN kr.keys) \ {id}
    /\ \A k \in (DOMAIN kr.keys) \ {id} : kr'.keys[k] = kr.keys[k]
    /\ \A d \in KeyProcs : kr'.through[d] = kr.through[d] \ {id}
    /\ kr'.manifest = kr.manifest /\ kr'.masters = kr.masters /\ kr'.inits = kr.inits
    /\ kr'.files = kr.files /\ kr'.master = kr.master /\ kr'.listed = kr.listed /\ kr'.own = kr.own
    /\ kr'.at[c] = "ok"

(* It keeps what is said of identifiers, master keys and searches.           *)
LEMMA DropKeeps ==
    ASSUME KeysInv, NEW c \in KeyProcs, NEW id, DropRule(c, id)
    PROVE  KeysTypeInv' /\ IdsInv' /\ MasterInv' /\ SearchInv'
<1> DEFINE P == KeyProcs
<1>1. /\ kr' \in KeysRec(P) /\ P' = P /\ kr'.ops = kr.ops /\ kr'.fresh = kr.fresh
      /\ \A d \in P : d # c => kr'.at[d] = kr.at[d]
      /\ kr'.at[c] = "ok" /\ kr'.own = kr.own /\ kr'.made = kr.made
  BY Zenon DEF DropRule, KeysFrame
<1>2. \A k \in DOMAIN kr'.keys : k \in DOMAIN kr.keys /\ kr'.keys[k] = kr.keys[k]
  BY Zenon DEF DropRule
<1>3. KeysTypeInv'
  <2>1. \A d \in P : KeyPlace(d)'
    BY SMTT(40), <1>1 DEF KeysInv, KeysTypeInv, KeyPlaces, KeyPlace, PcOf, KeyOp
  <2>2. QED
    BY Zenon, <1>1, <2>1 DEF KeysTypeInv, KeyPlaces
<1>4. IdsInv'
  <2>1. DOMAIN kr'.keys \subseteq 1 .. kr'.made
    BY SMTT(40), <1>1, <1>2 DEF KeysInv, IdsInv
  <2>2. \A d \in P : \A k \in DOMAIN kr'.own[d] :
          /\ k \in 1 .. kr'.made /\ kr'.own[d][k].user = KeyOp(d)'.user
          /\ k \in DOMAIN kr'.keys => kr'.keys[k] = kr'.own[d][k]
    BY SMTT(40), <1>1, <1>2 DEF KeysInv, IdsInv, KeyOp
  <2>3. QED
    BY Zenon, <1>1, <2>1, <2>2 DEF IdsInv
<1>5. MasterInv'
  <2>1. /\ kr'.manifest = kr.manifest /\ kr'.masters = kr.masters /\ kr'.inits = kr.inits
        /\ kr'.files = kr.files /\ kr'.master = kr.master
    BY ZenonT(40) DEF DropRule
  <2>2. \A d \in P : kr'.at[d] \in {"found", "write_key", "write_manifest"} => kr'.at[d] = kr.at[d]
    BY ZenonT(40), <1>1
  <2>3. ~kr.fresh => kr.manifest # 0 /\ \A d \in P : kr'.at[d] \notin {"write_key", "write_manifest"}
    BY ZenonT(40), <2>2 DEF KeysInv, MasterInv, PcOf
  <2>4. ASSUME kr.fresh => kr.inits <= 1
        PROVE  /\ \A k \in DOMAIN kr'.keys : kr'.keys[k].master = kr.masters
               /\ \A key \in kr.files : key.master = kr.masters
               /\ \A d \in P : \A k \in DOMAIN kr.own[d] : kr.own[d][k].master = kr.masters
               /\ \A d \in P : kr'.at[d] \in {"found", "write_manifest"} => kr.master[d] = kr.masters
               /\ kr.manifest = kr.masters \/ (kr.fresh /\ kr.manifest = 0)
    BY SMTT(40), <1>2, <2>2, <2>4 DEF KeysInv, MasterInv, PcOf
  <2>5. ASSUME kr.fresh, kr.inits = 0
        PROVE  /\ DOMAIN kr'.keys = {} /\ kr.files = {} /\ kr.manifest = 0
               /\ \A d \in P : DOMAIN kr.own[d] = {} /\ kr'.at[d] \notin {"found", "write_manifest"}
    BY ZenonT(40), <1>2, <2>2, <2>5 DEF KeysInv, MasterInv, PcOf
  <2>6. QED
    BY SMTT(40), <1>1, <2>1, <2>3, <2>4, <2>5 DEF MasterInv, PcOf
<1>6. SearchInv'
  <2>1. ASSUME NEW d \in P PROVE Searches(d)'
    <3>1. Searches(d)
      BY ZenonT(40) DEF KeysInv, SearchInv
    <3>2. \A k \in kr'.through[d] : k \in kr.through[d] /\ k \in DOMAIN kr'.keys /\ kr'.keys[k] = kr.keys[k]
      BY SMTT(40), <3>1 DEF DropRule, Searches
    <3>3. \A k \in kr'.through[d] : k \in DOMAIN kr'.keys /\ OpensKey(d, k)'
      BY SMTT(60), <1>1, <3>1, <3>2 DEF Searches, OpensKey, KeyOp
    <3>4. kr'.listed = kr.listed /\ kr'.inits = kr.inits
      BY ZenonT(40) DEF DropRule
    <3>5. kr'.at[d] \in {"search", "failed"} => kr'.at[d] = kr.at[d]
      BY <1>1
    <3>6. kr.through[d] = {} => kr'.through[d] = {}
      BY <3>2
    <3>7. QED
      BY SMTT(40), <1>1, <3>1, <3>2, <3>3, <3>4, <3>5, <3>6 DEF Searches, PcOf, KeyOp
  <2>2. QED
    BY SMTT(40), <1>1, <2>1 DEF SearchInv
<1>7. QED
  BY Zenon, <1>3, <1>4, <1>5, <1>6

(* run_password_change: the old key is removed, a newer one stays.           *)
LEMMA DropOldKeeps ==
    ASSUME KeysInv, NEW c \in KeyProcs, DropOld(c)
    PROVE  KeysInv'
<1> DEFINE P == KeyProcs
           id == OldKey(c)
           y == DropKey(kr, id)
<1>1. kr \in KeysRec(P) /\ KeyPlace(c)
  BY ZenonT(40) DEF KeysInv, KeysTypeInv, KeyPlaces
<1>2. kr.at[c] = "drop" /\ kr' = KeyEnds(y, c, "ok")
  BY ZenonT(40) DEF DropOld, PcOf
<1>3. y \in KeysRec(P) /\ Dropped(P, kr, y, id) /\ y.at = kr.at
  BY ZenonT(40), <1>1, DropKeyFields
<1> HIDE DEF y
<1>4. "ok" \in KeyPCs
  BY ZenonT(40) DEF KeyPCs
<1>5. /\ kr' \in KeysRec(P) /\ KeysSame(y, kr') /\ kr'.at[c] = "ok"
      /\ \A d \in P : d # c => kr'.at[d] = kr.at[d]
  BY SMTT(40), <1>2, <1>3, <1>4, EndsQuiet
<1>6. KeysFrame(c)
  BY SMTT(40), <1>3, <1>5 DEF KeysFrame, KeyProcs, KeysSame, Dropped
<1>7. DropRule(c, id)
  BY SMTT(40), <1>3, <1>5, <1>6 DEF DropRule, KeysSame, Dropped
<1>8. kr'.deletes = kr.deletes /\ kr'.own = kr.own /\ kr'.ops = kr.ops /\ P' = P
  BY Zenon, <1>3, <1>5, <1>6 DEF KeysSame, Dropped, KeysFrame
<1>9. id \in DOMAIN kr.own[c] /\ id \in 1 .. kr.made /\ kr.own[c][id].user = kr.ops[c].user
  <2>1. DOMAIN kr.own[c] # {}
    BY ZenonT(40), <1>1, <1>2 DEF KeyPlace, PcOf
  <2>2. id \in DOMAIN kr.own[c]
    BY ZenonT(40), <2>1 DEF OldKey
  <2>3. QED
    BY ZenonT(40), <2>2 DEF KeysInv, IdsInv, KeyOp
<1>10. DOMAIN kr.keys \subseteq Nat /\ (id \in DOMAIN kr.keys => kr.keys[id].user = kr.ops[c].user)
  BY SMTT(40), <1>9 DEF KeysInv, IdsInv
<1> HIDE DEF id
<1>11. NewerInv'
  <2> SUFFICES ASSUME kr.deletes = 0, NEW d \in P
               PROVE  /\ DOMAIN kr.own[d] # {} => \E k \in DOMAIN kr'.keys : kr'.keys[k].user = kr.ops[d].user
                      /\ kr'.at[d] = "drop" => \E k \in DOMAIN kr'.keys :
                                                k > OldKey(d)' /\ kr'.keys[k].user = kr.ops[d].user
    BY <1>8 DEF NewerInv, PcOf, KeyOp
  <2>1. PICK new \in DOMAIN kr.keys : new > id /\ kr.keys[new].user = kr.ops[c].user
    BY Zenon, <1>2 DEF KeysInv, NewerInv, PcOf, KeyOp, id
  <2>2. new \in Nat /\ id \in Nat /\ new # id
    BY SMTT(40), <1>9, <1>10, <2>1
  <2>3. new \in DOMAIN kr'.keys /\ kr'.keys[new] = kr.keys[new]
    BY Zenon, <1>7, <2>1, <2>2 DEF DropRule
  <2>4. OldKey(d)' = OldKey(d)
    BY ZenonT(40), <1>8 DEF OldKey
  <2>5. DOMAIN kr.own[d] # {} => \E k \in DOMAIN kr'.keys : kr'.keys[k].user = kr.ops[d].user
    <3> SUFFICES ASSUME DOMAIN kr.own[d] # {} PROVE \E k \in DOMAIN kr'.keys : kr'.keys[k].user = kr.ops[d].user
      BY ZenonT(40)
    <3>1. PICK k \in DOMAIN kr.keys : kr.keys[k].user = kr.ops[d].user
      BY ZenonT(40) DEF KeysInv, NewerInv, PcOf, KeyOp
    <3>2. CASE k = id
      BY SMTT(40), <1>10, <2>1, <2>3, <3>1, <3>2
    <3>3. CASE k # id
      BY SMTT(40), <1>7, <3>1, <3>3 DEF DropRule
    <3>4. QED
      BY ZenonT(40), <3>2, <3>3
  <2>6. kr'.at[d] = "drop" => \E k \in DOMAIN kr'.keys :
                              k > OldKey(d) /\ kr'.keys[k].user = kr.ops[d].user
    <3> SUFFICES ASSUME kr'.at[d] = "drop"
                 PROVE  \E k \in DOMAIN kr'.keys : k > OldKey(d) /\ kr'.keys[k].user = kr.ops[d].user
      BY ZenonT(40)
    <3>1. kr.at[d] = "drop"
      BY ZenonT(40), <1>5
    <3>2. PICK k \in DOMAIN kr.keys : k > OldKey(d) /\ kr.keys[k].user = kr.ops[d].user
      BY ZenonT(40), <3>1 DEF KeysInv, NewerInv, PcOf, KeyOp
    <3>3. OldKey(d) \in Nat
      <4>1. DOMAIN kr.own[d] # {}
        BY ZenonT(40), <3>1 DEF KeysInv, KeysTypeInv, KeyPlaces, KeyPlace, PcOf
      <4>2. OldKey(d) \in DOMAIN kr.own[d]
        BY ZenonT(40), <4>1 DEF OldKey
      <4>3. QED
        BY SMTT(40), <1>9, <4>2 DEF KeysInv, IdsInv
    <3>4. CASE k = id
      BY SMTT(40), <1>10, <2>1, <2>2, <2>3, <3>2, <3>3, <3>4
    <3>5. CASE k # id
      BY <1>7, <3>2, <3>5 DEF DropRule
    <3>6. QED
      BY Zenon, <3>4, <3>5
  <2>7. QED
    BY SMTT(40), <2>4, <2>5, <2>6
<1>12. QED
  BY <1>7, <1>11, DropKeeps DEF KeysInv

(* run_delete.                                                               *)
LEMMA DeleteKeyKeeps ==
    ASSUME KeysInv, NEW c \in KeyProcs, DeleteKey(c)
    PROVE  KeysInv'
<1> DEFINE P == KeyProcs
           id == kr.ops[c].id
           y == DropKey(kr, id)
           n == y.deletes + 1
           z == [y EXCEPT !.deletes = n]
<1>1. kr \in KeysRec(P)
  BY Zenon DEF KeysInv, KeysTypeInv
<1>2. kr.at[c] = "delete" /\ kr' = KeyEnds(z, c, "ok")
  BY ZenonT(40) DEF DeleteKey, PcOf, KeyOp
<1>3. y \in KeysRec(P) /\ Dropped(P, kr, y, id) /\ y.at = kr.at
  BY ZenonT(40), <1>1, DropKeyFields
<1> HIDE DEF y
<1>4. n \in Nat /\ n # 0
  BY <1>3 DEF KeysRec
<1> HIDE DEF n
<1>5. /\ z \in KeysRec(P) /\ z.deletes = n /\ z.at = y.at
      /\ z.ops = y.ops /\ z.keys = y.keys /\ z.made = y.made /\ z.manifest = y.manifest
      /\ z.masters = y.masters /\ z.fresh = y.fresh /\ z.inits = y.inits /\ z.files = y.files
      /\ z.master = y.master /\ z.listed = y.listed /\ z.own = y.own /\ z.through = y.through
  BY SMTT(40), <1>3, <1>4 DEF KeysRec
<1> HIDE DEF z
<1>6. "ok" \in KeyPCs
  BY Zenon DEF KeyPCs
<1>7. /\ kr' \in KeysRec(P) /\ KeysSame(z, kr') /\ kr'.at[c] = "ok"
      /\ \A d \in P : d # c => kr'.at[d] = kr.at[d]
  BY SMTT(40), <1>2, <1>3, <1>5, <1>6, EndsQuiet
<1>8. KeysFrame(c)
  BY ZenonT(40), <1>3, <1>5, <1>7 DEF KeysFrame, KeyProcs, KeysSame, Dropped
<1>9. DropRule(c, id)
  BY SMTT(40), <1>3, <1>5, <1>7, <1>8 DEF DropRule, KeysSame, Dropped
<1>10. NewerInv'
  BY Zenon, <1>4, <1>5, <1>7 DEF NewerInv, KeysSame
<1>11. QED
  BY Zenon, <1>9, <1>10, DropKeeps DEF KeysInv

(* Every first state of the keys satisfies the invariant.                    *)
LEMMA KeysInvInit == KeysInit => KeysInv
<1> SUFFICES ASSUME KeysInit PROVE KeysInv
  BY ZenonT(40)
<1>1. PICK job \in KeyJobs : kr = KeysStart(job)
  BY ZenonT(40) DEF KeysInit
<1> DEFINE P == DOMAIN job.ops
           n == Cardinality(DOMAIN job.keys)
<1>2. /\ n \in Nat /\ job.keys \in [1 .. n -> KeyFile] /\ job.ops \in [P -> KeyCommand]
      /\ job.manifest \in Nat /\ job.kills \in Nat /\ (job.manifest = 0 => DOMAIN job.keys = {})
      /\ \A id \in DOMAIN job.keys : job.keys[id].master = job.manifest
  BY ZenonT(40), KeysAssumption
<1>3. n \in Nat /\ DOMAIN job.keys = 1 .. n /\ job.keys \in [1 .. n -> KeyFile]
  BY ZenonT(40), <1>2
<1> HIDE DEF n
<1>4. job.keys \in KeyFiles
  BY <1>2, <1>3, KeyFilesAre
<1>5. <<>> \in KeyFiles /\ DOMAIN <<>> = {}
  <2>1. DOMAIN <<>> = {} /\ <<>> \in [{} -> KeyFile]
    OBVIOUS
  <2>2. QED
    BY ZenonT(40), <2>1, KeyFilesAre
<1>6. "start" \in KeyPCs
  BY Zenon DEF KeyPCs
<1>7. /\ kr.ops = job.ops /\ kr.keys = job.keys /\ kr.made = n /\ kr.manifest = job.manifest
      /\ kr.masters = job.manifest /\ kr.fresh = (job.manifest = 0) /\ kr.inits = 0 /\ kr.deletes = 0
      /\ kr.files = {} /\ kr.at = [c \in P |-> "start"] /\ kr.own = [c \in P |-> <<>>]
      /\ kr.through = [c \in P |-> {}]
  BY Zenon, <1>1 DEF KeysStart, n
<1>8. kr \in KeysRec(P)
  <2>1. 0 \in Nat /\ {} \in SUBSET Nat /\ {} \in SUBSET KeyFile
    OBVIOUS
  <2>2. /\ [c \in P |-> "start"] \in [P -> KeyPCs] /\ [c \in P |-> 0] \in [P -> Nat]
        /\ [c \in P |-> {}] \in [P -> SUBSET Nat] /\ [c \in P |-> <<>>] \in [P -> KeyFiles]
    BY Zenon, <1>5, <1>6, <2>1
  <2>3. (job.manifest # 0) \in BOOLEAN /\ (job.manifest = 0) \in BOOLEAN
    BY Zenon
  <2>4. Cardinality(DOMAIN job.keys) \in Nat
    BY Zenon, <1>2 DEF n
  <2>5. QED
    BY ZenonT(60), <1>1, <1>2, <1>4, <2>1, <2>2, <2>3, <2>4 DEF KeysStart, KeysRec
<1>9. KeyProcs = P
  BY Zenon, <1>7 DEF KeyProcs
<1>10. \A c \in P : kr.at[c] = "start" /\ DOMAIN kr.own[c] = {} /\ kr.through[c] = {}
  BY <1>5, <1>7
<1>11. KeysTypeInv
  BY SMTT(40), <1>8, <1>9, <1>10 DEF KeysTypeInv, KeyPlaces, KeyPlace, PcOf
<1>12. IdsInv
  BY SMTT(40), <1>3, <1>7, <1>9, <1>10 DEF IdsInv
<1>13. MasterInv
  BY ZenonT(40), <1>2, <1>7, <1>9, <1>10 DEF MasterInv, PcOf
<1>14. SearchInv
  BY ZenonT(40), <1>9, <1>10 DEF SearchInv, Searches, PcOf
<1>15. NewerInv
  BY ZenonT(40), <1>9, <1>10 DEF NewerInv, PcOf
<1>16. QED
  BY Zenon, <1>11, <1>12, <1>13, <1>14, <1>15 DEF KeysInv

(* keys.rs, cmd_key.rs, Repository::init: whatever commands on keys overlap, *)
(* however many, and wherever they are killed, every key leads to the master *)
(* key of the manifest, a user whose key is there gets in, and a change of   *)
(* password leaves none without a key.                                       *)
THEOREM KeysStayUsable == KeysSpec => []KeysUsable
<1>1. KeysInv /\ [KeysNext]_kr => KeysInv'
  <2> SUFFICES ASSUME KeysInv, [KeysNext]_kr PROVE KeysInv'
    BY Zenon
  <2>1. CASE UNCHANGED kr
    <3>1. KeysTypeInv /\ IdsInv /\ MasterInv /\ SearchInv /\ NewerInv
      BY Zenon DEF KeysInv
    <3>2. KeysTypeInv'
      BY <2>1, <3>1 DEF KeysTypeInv, KeyPlaces, KeyPlace, KeyProcs, PcOf, KeyOp
    <3>3. IdsInv'
      BY <2>1, <3>1 DEF IdsInv, KeyProcs, KeyOp
    <3>4. MasterInv'
      BY <2>1, <3>1 DEF MasterInv, KeyProcs, PcOf
    <3>5. SearchInv'
      BY <2>1, <3>1 DEF SearchInv, Searches, KeyProcs, PcOf, KeyOp, OpensKey
    <3>6. NewerInv'
      BY <2>1, <3>1 DEF NewerInv, KeyProcs, PcOf, KeyOp, OldKey
    <3>7. QED
      BY Zenon, <3>2, <3>3, <3>4, <3>5, <3>6 DEF KeysInv
  <2>2. ASSUME NEW c \in KeyProcs,
               \/ CheckNew(c) \/ WriteManifest(c) \/ MakeDirs(c) \/ OpenManifest(c) \/ FindId(c)
               \/ ExportKey(c) \/ KillKeyProc(c)
        PROVE  KeysInv'
    BY Zenon, <2>2, ReadersLocal, LocalKeeps
  <2>3. ASSUME NEW c \in KeyProcs, ListKeys(c) \/ TryKey(c) \/ FindOwn(c)
        PROVE  KeysInv'
    BY ZenonT(40), <2>3, SearchLocal, LocalKeeps
  <2>4. QED
    BY ZenonT(40), <2>1, <2>2, <2>3, WriteFirstKeyKeeps, WriteAddedKeeps, SaveChangedKeeps, DropOldKeeps, DeleteKeyKeeps
    DEF KeysNext, KeysRest
<1>2. KeysInv => KeysUsable
  <2> SUFFICES ASSUME KeysInv PROVE KeysUsable
    BY ZenonT(40)
  <2>1. KeysAgree
    BY ZenonT(40) DEF KeysInv, MasterInv, KeysAgree
  <2>2. OpenWorks
    BY ZenonT(40) DEF KeysInv, SearchInv, Searches, OpenWorks
  <2>3. UserKeepsKey
    BY ZenonT(40) DEF KeysInv, NewerInv, UserKeepsKey
  <2>4. QED
    BY <2>1, <2>2, <2>3 DEF KeysUsable
<1>3. QED
  BY <1>1, <1>2, KeysInvInit, PTL DEF KeysSpec

-----------------------------------------------------------------------------
(* The lock.                                                                 *)

(* Nobody stands still for longer than the timing allows.                    *)
Punctual == "stall" \notin Faults

(* In addition, lock files can be read, and no command gives its lock up     *)
(* before its work is done.                                                  *)
Benign == Faults \subseteq {"storage"} /\ EarlyDrop = {}

(* The variables have their types.                                           *)
Types ==
    /\ phase \in [Session -> Phases]
    /\ lockfile \in [Session -> Age \cup {None}]
    /\ elapsed \in [Session -> Age]
    /\ todo \in [Session -> SUBSET Session]
    /\ known \in [Session -> [Session -> Age \cup {None}]]
    /\ alive \in [Session -> BOOLEAN]
    /\ refresh \in [Session -> Age \cup {None}]
    /\ releasing \in [Session -> BOOLEAN]

(* A lock file that somebody counts on exists and is young.                  *)
FilesKept ==
    \A s \in Session : CountsOn(s) => lockfile[s] # None /\ lockfile[s] <= HolderMax

AttemptsQuick == \A s \in Session : phase[s] \in Acquiring => elapsed[s] <= AcquireMax

(* What a session remembers, and when.                                       *)
MemoryInv ==
    \A s \in Session :
      /\ phase[s] # "read" => todo[s] = {} /\ known[s] = NothingRead
      /\ phase[s] \notin Acquiring => elapsed[s] = 0
      /\ alive[s] => phase[s] = "work" /\ s \notin Sweeper
      /\ releasing[s] => ~alive[s] /\ phase[s] \in {"work", "unlock"}
      /\ refresh[s] # None => phase[s] \in {"work", "unlock", "done"}

(* A refresh under way carries a timestamp newer than the one in the file.   *)
RefreshInv ==
    \A s \in Session : alive[s] /\ refresh[s] # None => refresh[s] <= lockfile[s]

(* A copy of a lock that somebody counts on is at most as old as the file    *)
(* may get plus the time the reader has taken.                               *)
CopiesFresh ==
    \A s, l \in Session :
      phase[s] \in Acquiring /\ CountsOn(l) /\ known[s][l] # None
        => known[s][l] <= HolderMax + elapsed[s]

KeptInv == Types /\ FilesKept /\ AttemptsQuick /\ MemoryInv /\ RefreshInv /\ CopiesFresh

(* t has listed or read the lock of s and has not judged it yet.             *)
Sees(t, s) == s \in todo[t] \/ known[t][s] # None

Conflict(s, t) == s # t /\ (s \in Exclusive \/ t \in Exclusive)

(* Of two attempts in conflict, the one that listed last has seen the other. *)
SeenInv ==
    \A s, t \in Session \ Sweeper : Conflict(s, t) =>
      /\ phase[s] = "work" /\ phase[t] = "read" => Sees(t, s)
      /\ phase[s] = "read" /\ phase[t] = "read" => Sees(t, s) \/ Sees(s, t)
      /\ ~(phase[s] = "work" /\ phase[t] = "work")

WorkInv == \A s \in Session : phase[s] = "work" => alive[s] /\ s \notin Sweeper

ExclusionInv == KeptInv /\ WorkInv /\ SeenInv


-----------------------------------------------------------------------------

(* One tick makes an age at most one older and never loses it.               *)
LEMMA OlderFacts ==
    ASSUME NEW a \in Age \cup {None}
    PROVE  /\ Older(a) \in Age \cup {None}
           /\ Older(a) = None <=> a = None
           /\ a # None => a <= Older(a) /\ Older(a) <= a + 1
BY TimingAssumption DEF Older, None, Age

(* A live session's lock is never stale in the eyes of a reader.             *)
LEMMA LiveNotStale ==
    ASSUME KeptInv, Punctual,
           NEW s \in Session, NEW l \in Session, Judging(s, l), CountsOn(l)
    PROVE  ~IsStale(s, l)
<1> USE DEF None, Age, Acquiring, Phases
<1>1. known[s][l] <= HolderMax + elapsed[s]
  BY Zenon DEF KeptInv, CopiesFresh, Judging
<1>2. elapsed[s] <= AcquireMax
  BY Zenon DEF KeptInv, AttemptsQuick, Judging
<1>3. known[s][l] \in Int /\ elapsed[s] \in Int
  BY TimingAssumption DEF KeptInv, Types
<1>4. known[s][l] <= Expire
  BY <1>1, <1>2, <1>3, TimingAssumption
<1>5. phase[l] # "idle"
  BY Zenon DEF KeptInv, MemoryInv, CountsOn
<1> QED
  BY <1>3, <1>4, <1>5, TimingAssumption DEF IsStale, IsExpired, ProcessAlive, Punctual

-----------------------------------------------------------------------------

(* A repository without locks has the types.                                 *)
LEMMA TypeInit == Init => Types
BY SMTT(40), TimingAssumption DEF Init, Types, NothingRead, None, Age, Phases

(* The session s moves on: its place, what it knows, and nobody else's.      *)
LEMMA GotoType ==
    ASSUME Types, NEW s \in Session, NEW p \in Phases, Goto(s, p)
    PROVE  /\ phase' \in [Session -> Phases] /\ elapsed' \in [Session -> Age]
           /\ known' \in [Session -> [Session -> Age \cup {None}]]
<1>1. NothingRead \in [Session -> Age \cup {None}]
  BY Zenon DEF NothingRead
<1>2. 0 \in Age
  BY TimingAssumption DEF Age
<1>3. phase' \in [Session -> Phases]
  BY Zenon DEF Types, Goto
<1>4. elapsed' \in [Session -> Age]
  BY Zenon, <1>2 DEF Types, Goto
<1>5. known' \in [Session -> [Session -> Age \cup {None}]]
  BY Zenon, <1>1 DEF Types, Goto
<1>6. QED
  BY <1>3, <1>4, <1>5

(* Every step of the lock protocol keeps the types.                          *)
LEMMA TypeNext == Types /\ [Next]_vars => Types'
<1> SUFFICES ASSUME Types, [Next]_vars PROVE Types'
  OBVIOUS
<1>1. 0 \in Age /\ {"idle", "list", "read", "work", "unlock", "done"} = Phases
  BY TimingAssumption DEF Age, Phases, Acquiring
<1>2. \A s \in Session, ok \in BOOLEAN : Without(s, ok) \in [Session -> Age \cup {None}]
  BY Zenon DEF Types, Without
<1>3. ASSUME NEW s \in Session, Begin(s) PROVE Types'
  <2>1. lockfile' \in [Session -> Age \cup {None}]
    BY Zenon, <1>1, <1>3 DEF Types, Begin
  <2>2. QED
    BY Zenon, <1>1, <1>3, <2>1, GotoType DEF Types, Begin
<1>4. ASSUME NEW s \in Session, List(s) PROVE Types'
  <2>1. todo' \in [Session -> SUBSET Session]
    BY Zenon, <1>4 DEF Types, List
  <2>2. QED
    BY Zenon, <1>1, <1>4, <2>1, GotoType DEF Types, List
<1>5. ASSUME NEW s \in Session, ListFails(s) PROVE Types'
  <2>1. lockfile' \in [Session -> Age \cup {None}]
    BY Zenon, <1>2, <1>5 DEF ListFails, Deletes
  <2>2. QED
    BY Zenon, <1>1, <1>5, <2>1, GotoType DEF Types, ListFails
<1>6. ASSUME NEW s \in Session, Acquire(s) PROVE Types'
  <2>1. alive' \in [Session -> BOOLEAN]
    BY Zenon, <1>6 DEF Types, Acquire
  <2>2. QED
    BY Zenon, <1>1, <1>6, <2>1, GotoType DEF Types, Acquire
<1>7. ASSUME NEW s \in Session, Unlock(s) PROVE Types'
  <2>1. alive' \in [Session -> BOOLEAN] /\ releasing' \in [Session -> BOOLEAN]
    BY Zenon, <1>7 DEF Types, Unlock
  <2>2. QED
    BY Zenon, <1>1, <1>7, <2>1, GotoType DEF Types, Unlock
<1>8. ASSUME NEW s \in Session, DeleteLock(s) PROVE Types'
  BY Zenon, <1>2, <1>8 DEF Types, DeleteLock, Deletes
<1>9. ASSUME NEW s \in Session, Unlocked(s) PROVE Types'
  BY Zenon, <1>1, <1>9, GotoType DEF Types, Unlocked
<1>10. ASSUME NEW s \in Session, Exit(s) PROVE Types'
  <2>1. refresh' \in [Session -> Age \cup {None}]
    BY Zenon, <1>10 DEF Types, Exit
  <2>2. QED
    BY Zenon, <1>1, <1>10, <2>1, GotoType DEF Types, Exit
<1>11. ASSUME NEW s \in Session, RefreshStart(s) PROVE Types'
  BY Zenon, <1>1, <1>11 DEF Types, RefreshStart
<1>12. ASSUME NEW s \in Session, RefreshWrite(s) PROVE Types'
  BY Zenon, <1>12 DEF Types, RefreshWrite
<1>13. ASSUME NEW s \in Session, TriggerUnlock(s) PROVE Types'
  BY Zenon, <1>13 DEF Types, TriggerUnlock
<1>14. ASSUME NEW s \in Session, Crash(s) PROVE Types'
  <2>1. /\ todo' \in [Session -> SUBSET Session] /\ alive' \in [Session -> BOOLEAN]
        /\ refresh' \in [Session -> Age \cup {None}] /\ releasing' \in [Session -> BOOLEAN]
    BY Zenon, <1>14 DEF Types, Crash
  <2>2. QED
    BY Zenon, <1>1, <1>14, <2>1, GotoType DEF Types, Crash
<1>15. ASSUME NEW s \in Session, NEW l \in Session, Read(s, l) PROVE Types'
  <2>1. known' \in [Session -> [Session -> Age \cup {None}]]
    <3>1. lockfile[l] \in Age \cup {None}
      BY Zenon DEF Types
    <3>2. CASE known' = [known EXCEPT ![s][l] = lockfile[l]]
      BY Zenon, <3>1, <3>2 DEF Types
    <3>3. CASE UNCHANGED known
      BY Zenon, <3>3 DEF Types
    <3>4. QED
      BY Zenon, <1>15, <3>2, <3>3 DEF Read
  <2>2. QED
    BY Zenon, <1>15, <2>1 DEF Types, Read
<1>16. ASSUME NEW s \in Session, NEW l \in Session, JudgeStale(s, l) PROVE Types'
  <2>1. lockfile' \in [Session -> Age \cup {None}]
    BY Zenon, <1>2, <1>16 DEF JudgeStale, Deletes
  <2>2. CASE known' = [known EXCEPT ![s][l] = None] /\ UNCHANGED <<phase, elapsed>>
    BY Zenon, <1>16, <2>1, <2>2 DEF Types, JudgeStale
  <2>3. CASE Goto(s, "done")
    BY Zenon, <1>1, <1>16, <2>1, <2>3, GotoType DEF Types, JudgeStale
  <2>4. QED
    BY Zenon, <1>16, <2>2, <2>3 DEF JudgeStale
<1>17. ASSUME NEW s \in Session, NEW l \in Session, JudgeConflict(s, l) PROVE Types'
  <2>1. lockfile' \in [Session -> Age \cup {None}]
    BY Zenon, <1>2, <1>17 DEF JudgeConflict, Deletes
  <2>2. QED
    BY Zenon, <1>1, <1>17, <2>1, GotoType DEF Types, JudgeConflict
<1>18. ASSUME NEW s \in Session, NEW l \in Session, JudgeCompatible(s, l) PROVE Types'
  BY Zenon, <1>18 DEF Types, JudgeCompatible
<1>19. CASE Tick
  <2>1. /\ \A s \in Session : /\ Older(lockfile[s]) \in Age \cup {None}
                             /\ Older(refresh[s]) \in Age \cup {None}
        /\ \A s, l \in Session : Older(known[s][l]) \in Age \cup {None}
    BY Zenon, OlderFacts DEF Types
  <2>2. None \notin Age
    BY TimingAssumption DEF None, Age
  <2>3. ASSUME NEW s \in Session PROVE Older(elapsed[s]) \in Age
    <3>1. elapsed[s] \in Age /\ elapsed[s] # None
      BY Zenon, <2>2 DEF Types
    <3>2. QED
      BY Zenon, <3>1, OlderFacts
  <2>4. lockfile' \in [Session -> Age \cup {None}] /\ refresh' \in [Session -> Age \cup {None}]
    BY Zenon, <1>19, <2>1 DEF Tick
  <2>5. elapsed' \in [Session -> Age]
    BY Zenon, <1>19, <2>3 DEF Tick, Types
  <2>6. known' \in [Session -> [Session -> Age \cup {None}]]
    BY Zenon, <1>19, <2>1 DEF Tick
  <2>7. QED
    BY Zenon, <1>19, <2>4, <2>5, <2>6 DEF Tick, Types
<1>20. CASE UNCHANGED vars
  BY Zenon, <1>20 DEF vars, Types
<1>21. QED
  BY Zenon, <1>3, <1>4, <1>5, <1>6, <1>7, <1>8, <1>9, <1>10, <1>11, <1>12, <1>13, <1>14, <1>15, <1>16,
     <1>17, <1>18, <1>19, <1>20 DEF Next, Step

-----------------------------------------------------------------------------

(* At first no session counts on a lock file.                                *)
LEMMA KeptInit == Init => KeptInv
BY SMTT(40), TypeInit DEF Init, KeptInv, FilesKept, AttemptsQuick, MemoryInv, RefreshInv, CopiesFresh,
   CountsOn, NothingRead, Acquiring, None

(* What a session has after a change of one copy.                            *)
LEMMA CopyUpdate ==
    ASSUME known \in [Session -> [Session -> Age \cup {None}]], NEW s \in Session, NEW l \in Session, NEW a,
           known' = [known EXCEPT ![s][l] = a]
    PROVE  /\ known'[s][l] = a
           /\ \A m \in Session \ {l} : known'[s][m] = known[s][m]
           /\ \A k \in Session \ {s} : known'[k] = known[k]
<1>1. known'[s] = [known[s] EXCEPT ![l] = a] /\ \A k \in Session \ {s} : known'[k] = known[k]
  BY Zenon
<1>2. DOMAIN known[s] = Session
  BY ZenonT(40)
<1>3. QED
  BY Zenon, <1>1, <1>2

(* A step of s leaves what belongs to the other sessions alone.              *)
OthersStay(s) ==
    \A k \in Session \ {s} :
      /\ phase'[k] = phase[k] /\ lockfile'[k] = lockfile[k] /\ elapsed'[k] = elapsed[k]
      /\ todo'[k] = todo[k] /\ known'[k] = known[k] /\ alive'[k] = alive[k]
      /\ refresh'[k] = refresh[k] /\ releasing'[k] = releasing[k]

(* The parts of the invariant that are about one session.                    *)
FileKept(s) == CountsOn(s) => lockfile[s] # None /\ lockfile[s] <= HolderMax
AttemptQuick(s) == phase[s] \in Acquiring => elapsed[s] <= AcquireMax
Memory(s) ==
    /\ phase[s] # "read" => todo[s] = {} /\ known[s] = NothingRead
    /\ phase[s] \notin Acquiring => elapsed[s] = 0
    /\ alive[s] => phase[s] = "work" /\ s \notin Sweeper
    /\ releasing[s] => ~alive[s] /\ phase[s] \in {"work", "unlock"}
    /\ refresh[s] # None => phase[s] \in {"work", "unlock", "done"}
RefreshNewer(s) == alive[s] /\ refresh[s] # None => refresh[s] <= lockfile[s]
OwnInv(s) == FileKept(s) /\ AttemptQuick(s) /\ Memory(s) /\ RefreshNewer(s)

(* They make up the invariant, but for the copies.                           *)
LEMMA OwnInvs ==
    /\ KeptInv <=> Types /\ CopiesFresh /\ \A s \in Session : OwnInv(s)
    /\ KeptInv' <=> Types' /\ CopiesFresh' /\ \A s \in Session : OwnInv(s)'
<1>1. KeptInv <=> Types /\ CopiesFresh /\ \A s \in Session : OwnInv(s)
  BY Zenon DEF KeptInv, FilesKept, AttemptsQuick, MemoryInv, RefreshInv, OwnInv, FileKept, AttemptQuick,
     Memory, RefreshNewer
<1>2. KeptInv' <=> Types' /\ CopiesFresh' /\ \A s \in Session : OwnInv(s)'
  BY Zenon DEF KeptInv, FilesKept, AttemptsQuick, MemoryInv, RefreshInv, OwnInv, FileKept, AttemptQuick,
     Memory, RefreshNewer
<1>3. QED
  BY Zenon, <1>1, <1>2

(* What a step of s has to keep: its own part, and the copies that it has    *)
(* of locks and that others have of its lock.                                *)
OwnStep(s) ==
    /\ OthersStay(s) /\ OwnInv(s)'
    /\ CountsOn(s)' => CountsOn(s) \/ \A k \in Session : known[k][s] = None
    /\ \A l \in Session :
         \/ known'[s][l] = None
         \/ known'[s][l] = known[s][l] /\ elapsed'[s] = elapsed[s] /\ phase[s] \in Acquiring
         \/ known'[s][l] = lockfile[l] /\ (CountsOn(l)' => CountsOn(l))

(* Then the invariant stays.                                                 *)
LEMMA OwnStepKeeps ==
    ASSUME KeptInv, Types', NEW s \in Session, OwnStep(s)
    PROVE  KeptInv'
<1>1. Types /\ CopiesFresh /\ \A k \in Session : OwnInv(k)
  BY Zenon, OwnInvs
<1>2. ASSUME NEW k \in Session \ {s} PROVE OwnInv(k)' /\ (CountsOn(k)' <=> CountsOn(k))
  <2>1. OwnInv(k)
    BY Zenon, <1>1
  <2>2. QED
    BY Zenon, <2>1 DEF OwnStep, OthersStay, OwnInv, FileKept, AttemptQuick, Memory, RefreshNewer, CountsOn,
       NothingRead
<1>3. \A k \in Session : OwnInv(k)'
  BY Zenon, <1>2 DEF OwnStep
<1>4. ASSUME NEW k \in Session, NEW m \in Session, phase'[k] \in Acquiring, CountsOn(m)', known'[k][m] # None
      PROVE  known'[k][m] <= HolderMax + elapsed'[k]
  <2>1. CountsOn(m) \/ \A j \in Session : known[j][m] = None
    BY Zenon, <1>2, <1>4 DEF OwnStep
  <2>2. ASSUME known'[k][m] = known[k][m], elapsed'[k] = elapsed[k], phase[k] \in Acquiring
        PROVE  known'[k][m] <= HolderMax + elapsed'[k]
    <3>1. CountsOn(m)
      BY Zenon, <1>4, <2>1, <2>2
    <3>2. known[k][m] <= HolderMax + elapsed[k]
      BY Zenon, <1>1, <1>4, <2>2, <3>1 DEF CopiesFresh
    <3>3. QED
      BY Zenon, <2>2, <3>2
  <2>3. CASE k # s
    BY Zenon, <1>4, <2>2, <2>3 DEF OwnStep, OthersStay
  <2>4. ASSUME known'[k][m] = lockfile[m], CountsOn(m)
        PROVE  known'[k][m] <= HolderMax + elapsed'[k]
    <3>1. lockfile[m] <= HolderMax
      BY Zenon, <1>1, <2>4 DEF OwnInv, FileKept
    <3>2. elapsed'[k] \in Age /\ lockfile[m] \in Age \cup {None}
      BY Zenon, <1>1 DEF Types
    <3>3. QED
      BY TimingAssumption, <2>4, <3>1, <3>2 DEF Age, None
  <2>5. CASE k = s
    BY Zenon, <1>4, <2>2, <2>4, <2>5 DEF OwnStep
  <2>6. QED
    BY Zenon, <2>3, <2>5
<1>5. CopiesFresh'
  BY Zenon, <1>4 DEF CopiesFresh
<1>6. QED
  BY Zenon, <1>3, <1>5, OwnInvs

(* What belongs to s after it has moved on.                                  *)
LEMMA GotoOwn ==
    ASSUME Types, NEW s \in Session, NEW p, Goto(s, p)
    PROVE  /\ phase'[s] = p
           /\ IF p \in Acquiring THEN elapsed'[s] = elapsed[s] /\ known'[s] = known[s]
                                 ELSE elapsed'[s] = 0 /\ known'[s] = NothingRead
           /\ \A k \in Session \ {s} :
                phase'[k] = phase[k] /\ elapsed'[k] = elapsed[k] /\ known'[k] = known[k]
BY Zenon DEF Goto, Types

(* s leaves the protocol, or is done with its attempt: it counts on nothing. *)
LEMMA LeavingKeeps ==
    ASSUME KeptInv, Types', NEW s \in Session, NEW p \in {"idle", "unlock", "done"}, Goto(s, p),
           \A k \in Session \ {s} : /\ lockfile'[k] = lockfile[k] /\ todo'[k] = todo[k]
                                    /\ alive'[k] = alive[k] /\ refresh'[k] = refresh[k]
                                    /\ releasing'[k] = releasing[k],
           todo'[s] = {}, ~alive'[s], releasing'[s] => p = "unlock", refresh'[s] # None => p # "idle"
    PROVE  KeptInv'
<1>1. Types
  BY Zenon DEF KeptInv
<1>2. p \notin Acquiring /\ p \notin {"read", "work"}
  BY Zenon DEF Acquiring
<1>3. /\ phase'[s] = p /\ elapsed'[s] = 0 /\ known'[s] = NothingRead
      /\ \A k \in Session \ {s} :
           phase'[k] = phase[k] /\ elapsed'[k] = elapsed[k] /\ known'[k] = known[k]
  BY Zenon, <1>1, <1>2, GotoOwn
<1>4. ~CountsOn(s)'
  BY Zenon, <1>2, <1>3 DEF CountsOn
<1>5. OwnInv(s)'
  <2>1. FileKept(s)' /\ RefreshNewer(s)'
    BY Zenon, <1>4 DEF FileKept, RefreshNewer
  <2>2. AttemptQuick(s)'
    BY Zenon, <1>2, <1>3 DEF AttemptQuick
  <2>3. Memory(s)'
    BY Zenon, <1>2, <1>3 DEF Memory, NothingRead
  <2>4. QED
    BY Zenon, <2>1, <2>2, <2>3 DEF OwnInv
<1>6. \A l \in Session : known'[s][l] = None
  BY Zenon, <1>3 DEF NothingRead
<1>7. OthersStay(s)
  BY Zenon, <1>3 DEF OthersStay
<1>8. QED
  BY Zenon, <1>4, <1>5, <1>6, <1>7, OwnStepKeeps DEF OwnStep

(* Time passes: a lock file that somebody counts on and a copy of one grow   *)
(* no older than they may, for nobody stalls.                                *)
LEMMA TickKeeps ==
    ASSUME Punctual, Types, FilesKept, AttemptsQuick, MemoryInv, RefreshInv, CopiesFresh, Tick
    PROVE  FilesKept' /\ AttemptsQuick' /\ MemoryInv' /\ RefreshInv' /\ CopiesFresh'
<1>1. Timely /\ UNCHANGED <<phase, todo, alive, releasing>>
  BY Zenon DEF Tick, Punctual
<1>2. /\ \A k \in Session : lockfile'[k] = Older(lockfile[k]) /\ refresh'[k] = Older(refresh[k])
      /\ \A k, m \in Session : known'[k][m] = Older(known[k][m])
      /\ \A k \in Session : elapsed'[k] = IF phase[k] \in Acquiring THEN Older(elapsed[k])
                                                                ELSE elapsed[k]
  BY Zenon DEF Tick
<1>3. /\ \A k \in Session : /\ lockfile[k] \in Age \cup {None} /\ refresh[k] \in Age \cup {None}
                            /\ elapsed[k] \in Age
      /\ \A k, m \in Session : known[k][m] \in Age \cup {None}
  BY Zenon DEF Types
<1>4. \A k \in Session : CountsOn(k)' <=> CountsOn(k)
  BY Zenon, <1>1 DEF CountsOn
<1>5. FilesKept'
  BY TimingAssumption, <1>1, <1>2, <1>3, <1>4, OlderFacts DEF FilesKept, Timely, Age, None
<1>6. AttemptsQuick'
  BY TimingAssumption, <1>1, <1>2, <1>3, OlderFacts DEF AttemptsQuick, Timely, Age, None
<1>7. RefreshInv'
  <2>1. ASSUME NEW k \in Session, alive[k], refresh[k] # None
        PROVE  Older(refresh[k]) <= Older(lockfile[k])
    <3>1. refresh[k] <= lockfile[k]
      BY Zenon, <2>1 DEF RefreshInv
    <3>2. QED
      BY TimingAssumption, <1>3, <2>1, <3>1 DEF Older, Age, None
  <2>2. QED
    BY <1>1, <1>2, <1>3, <2>1, OlderFacts DEF RefreshInv
<1>8. MemoryInv'
  <2>1. \A k \in Session : known[k] = NothingRead => known'[k] = NothingRead
    BY Zenon DEF Tick, NothingRead, Older, None
  <2>2. \A k \in Session : refresh'[k] # None => refresh[k] # None
    BY <1>2, <1>3, OlderFacts
  <2>3. QED
    BY Zenon, <1>1, <1>2, <2>1, <2>2 DEF MemoryInv, Acquiring
<1>9. CopiesFresh'
  <2>1. ASSUME NEW k \in Session, NEW m \in Session, phase[k] \in Acquiring, CountsOn(m),
               known[k][m] # None
        PROVE  Older(known[k][m]) <= HolderMax + Older(elapsed[k])
    <3>1. known[k][m] <= HolderMax + elapsed[k] /\ elapsed[k] < AcquireMax
      BY Zenon, <1>1, <2>1 DEF CopiesFresh, Timely
    <3>2. QED
      BY TimingAssumption, <1>3, <2>1, <3>1 DEF Older, Age, None
  <2>2. QED
    BY <1>1, <1>2, <1>3, <1>4, <2>1, OlderFacts DEF CopiesFresh
<1>10. QED
  BY Zenon, <1>5, <1>6, <1>7, <1>8, <1>9

(* A lock that is judged stale is not one that somebody counts on.           *)
LEMMA StaleKeeps ==
    ASSUME Punctual, KeptInv, NEW s \in Session, NEW l \in Session, JudgeStale(s, l)
    PROVE  FilesKept' /\ AttemptsQuick' /\ MemoryInv' /\ RefreshInv' /\ CopiesFresh'
<1>0. Types /\ FilesKept /\ AttemptsQuick /\ MemoryInv /\ RefreshInv /\ CopiesFresh
  BY Zenon DEF KeptInv
<1>1. ~CountsOn(l) /\ phase[s] = "read" /\ todo[s] = {} /\ UNCHANGED <<todo, alive, refresh, releasing>>
  BY Zenon, LiveNotStale DEF JudgeStale, Judging
<1>2. PICK ok \in BOOLEAN :
        /\ lockfile' = Without(l, ok)
        /\ IF ok \/ s \notin Sweeper
           THEN known' = [known EXCEPT ![s][l] = None] /\ UNCHANGED <<phase, elapsed>>
           ELSE Goto(s, "done")
  BY Zenon DEF JudgeStale, Deletes
<1>3. \A k \in Session : k # l => lockfile'[k] = lockfile[k]
  BY Zenon, <1>0, <1>2 DEF Without, Types
<1>4. CASE known' = [known EXCEPT ![s][l] = None] /\ UNCHANGED <<phase, elapsed>>
  <2>1. \A k, m \in Session : known'[k][m] # None => known'[k][m] = known[k][m]
    BY Zenon, <1>0, <1>4 DEF Types
  <2>2. \A k \in Session : CountsOn(k)' <=> CountsOn(k)
    BY Zenon, <1>1, <1>4 DEF CountsOn
  <2>3. FilesKept' /\ AttemptsQuick'
    BY Zenon, <1>0, <1>1, <1>3, <1>4, <2>2 DEF FilesKept, AttemptsQuick
  <2>4. \A k \in Session : phase[k] # "read" => known'[k] = known[k]
    BY Zenon, <1>0, <1>1, <1>4 DEF Types
  <2>5. MemoryInv'
    BY ZenonT(40), <1>0, <1>1, <1>4, <2>4 DEF MemoryInv
  <2>6. ~alive[l]
    BY Zenon, <1>0, <1>1 DEF CountsOn, MemoryInv
  <2>7. RefreshInv'
    BY Zenon, <1>0, <1>1, <1>3, <2>6 DEF RefreshInv
  <2>8. CopiesFresh'
    BY <1>0, <1>4, <2>1, <2>2 DEF CopiesFresh
  <2>9. QED
    BY Zenon, <2>3, <2>5, <2>7, <2>8
<1>5. CASE Goto(s, "done")
  <2>1. /\ phase' = [phase EXCEPT ![s] = "done"] /\ elapsed' = [elapsed EXCEPT ![s] = 0]
        /\ known' = [known EXCEPT ![s] = NothingRead]
    BY Zenon, <1>5 DEF Goto, Acquiring
  <2>2. /\ phase'[s] = "done" /\ elapsed'[s] = 0 /\ known'[s] = NothingRead
        /\ \A k \in Session : k # s => /\ phase'[k] = phase[k] /\ elapsed'[k] = elapsed[k]
                                       /\ known'[k] = known[k]
    BY Zenon, <1>0, <2>1 DEF Types
  <2>3. ~alive[s] /\ ~releasing[s] /\ refresh[s] = None /\ ~alive[l]
    BY Zenon, <1>0, <1>1 DEF MemoryInv, CountsOn
  <2>4. \A k \in Session : CountsOn(k)' => k # s /\ CountsOn(k)
    BY Zenon, <1>1, <2>2, <2>3 DEF CountsOn, Acquiring
  <2>5. FilesKept'
    BY Zenon, <1>0, <1>1, <1>3, <2>4 DEF FilesKept
  <2>6. AttemptsQuick' /\ MemoryInv'
    BY <1>0, <1>1, <2>2, <2>3 DEF AttemptsQuick, MemoryInv, Acquiring
  <2>7. RefreshInv'
    BY Zenon, <1>0, <1>1, <1>3, <2>3 DEF RefreshInv
  <2>8. CopiesFresh'
    BY ZenonT(40), <1>0, <2>2, <2>4 DEF CopiesFresh, Acquiring
  <2>9. QED
    BY Zenon, <2>5, <2>6, <2>7, <2>8
<1>6. QED
  BY Zenon, <1>2, <1>4, <1>5

(* If nobody stalls, every step keeps the lock files that sessions count     *)
(* on, and what others know of them, young.                                  *)
LEMMA KeptNext == Punctual /\ KeptInv /\ [Next]_vars => KeptInv'
<1> SUFFICES ASSUME Punctual, KeptInv, [Next]_vars PROVE KeptInv'
  OBVIOUS
<1>1. Types /\ Types' /\ CopiesFresh /\ \A k \in Session : OwnInv(k)
  BY Zenon, TypeNext, OwnInvs
<1>2. ASSUME NEW s \in Session PROVE FileKept(s) /\ AttemptQuick(s) /\ Memory(s) /\ RefreshNewer(s)
  BY Zenon, <1>1 DEF OwnInv
<1>0. /\ lockfile \in [Session -> Age \cup {None}] /\ todo \in [Session -> SUBSET Session]
      /\ alive \in [Session -> BOOLEAN] /\ refresh \in [Session -> Age \cup {None}]
      /\ releasing \in [Session -> BOOLEAN]
  BY Zenon, <1>1 DEF Types
<1>3. ASSUME NEW s \in Session, \E ok \in Deletes(s) : lockfile' = Without(s, ok)
      PROVE  \A k \in Session \ {s} : lockfile'[k] = lockfile[k]
  <2>1. PICK ok \in Deletes(s) : lockfile' = Without(s, ok)
    BY Zenon, <1>3
  <2>2. QED
    BY Zenon, <1>0, <2>1 DEF Without
<1>4. ASSUME NEW s \in Session, Begin(s) PROVE KeptInv'
  <2>1. phase'[s] = "list" /\ elapsed'[s] = elapsed[s] /\ known'[s] = known[s]
    BY Zenon, <1>1, <1>4, GotoOwn DEF Begin, Acquiring
  <2>2. elapsed[s] = 0 /\ known[s] = NothingRead /\ todo[s] = {} /\ ~alive[s] /\ ~releasing[s] /\ refresh[s] = None
    BY Zenon, <1>2, <1>4 DEF Begin, Memory, Acquiring
  <2>3. s \notin Sweeper => lockfile'[s] = 0
    BY Zenon, <1>1, <1>4 DEF Begin, Types
  <2>4. OthersStay(s)
    BY Zenon, <1>1, <1>4, GotoOwn DEF Begin, OthersStay, Types
  <2>5. 0 # None /\ 0 <= HolderMax /\ 0 <= AcquireMax
    BY TimingAssumption DEF None
  <2>6. FileKept(s)' /\ AttemptQuick(s)'
    BY Zenon, <2>1, <2>2, <2>3, <2>5 DEF FileKept, AttemptQuick, CountsOn
  <2>7. Memory(s)' /\ RefreshNewer(s)'
    BY Zenon, <1>4, <2>1, <2>2 DEF Begin, Memory, RefreshNewer, NothingRead, Acquiring
  <2>8. \A l \in Session : known'[s][l] = None
    BY Zenon, <2>1, <2>2 DEF NothingRead
  <2>9. QED
    BY Zenon, <1>1, <1>4, <2>4, <2>6, <2>7, <2>8, OwnStepKeeps DEF OwnStep, OwnInv, Begin
<1>5. ASSUME NEW s \in Session, List(s) PROVE KeptInv'
  <2>1. phase'[s] = "read" /\ elapsed'[s] = elapsed[s] /\ known'[s] = known[s]
    BY Zenon, <1>1, <1>5, GotoOwn DEF List, Acquiring
  <2>2. phase[s] \in Acquiring /\ phase'[s] \in Acquiring
    BY Zenon, <1>5, <2>1 DEF List, Acquiring
  <2>3. OthersStay(s) /\ lockfile'[s] = lockfile[s] /\ alive'[s] = alive[s] /\ (CountsOn(s)' <=> CountsOn(s))
    <3>1. lockfile'[s] = lockfile[s] /\ alive'[s] = alive[s] /\ (CountsOn(s)' <=> CountsOn(s))
      BY Zenon, <1>5, <2>2 DEF List, CountsOn
    <3>2. Goto(s, "read") /\ UNCHANGED <<lockfile, alive, refresh, releasing>>
      BY Zenon, <1>5 DEF List
    <3>3. \A k \in Session \ {s} : todo'[k] = todo[k]
      BY Zenon, <1>0, <1>5 DEF List
    <3>4. \A k \in Session \ {s} : phase'[k] = phase[k] /\ elapsed'[k] = elapsed[k] /\ known'[k] = known[k]
      BY Zenon, <1>1, <3>2, GotoOwn
    <3>5. OthersStay(s)
      BY Zenon, <3>2, <3>3, <3>4 DEF OthersStay
    <3>6. QED
      BY Zenon, <3>1, <3>5
  <2>4. FileKept(s)' /\ AttemptQuick(s)' /\ RefreshNewer(s)'
    BY Zenon, <1>2, <1>5, <2>1, <2>2, <2>3 DEF FileKept, AttemptQuick, RefreshNewer, List
  <2>5. Memory(s)'
    BY Zenon, <1>2, <1>5, <2>1, <2>2 DEF Memory, List, Acquiring
  <2>6. QED
    BY Zenon, <1>1, <2>1, <2>2, <2>3, <2>4, <2>5, OwnStepKeeps DEF OwnStep, OwnInv
<1>6. ASSUME NEW s \in Session, ListFails(s) PROVE KeptInv'
  <2>1. todo[s] = {} /\ ~alive[s] /\ ~releasing[s]
    BY Zenon, <1>2, <1>6 DEF Memory, ListFails
  <2>2. \A k \in Session \ {s} : lockfile'[k] = lockfile[k]
    BY Zenon, <1>3, <1>6 DEF ListFails
  <2>3. QED
    BY Zenon, <1>1, <1>6, <2>1, <2>2, LeavingKeeps DEF ListFails
<1>7. ASSUME NEW s \in Session, Acquire(s) PROVE KeptInv'
  <2>1. todo[s] = {} /\ ~alive[s] /\ ~releasing[s] /\ refresh[s] = None
    BY Zenon, <1>2, <1>7 DEF Memory, Acquire
  <2>2. /\ alive'[s] = (s \notin Sweeper)
        /\ \A k \in Session \ {s} : alive'[k] = alive[k]
    BY Zenon, <1>0, <1>7 DEF Acquire
  <2>3. CASE s \in Sweeper
    <3>1. Goto(s, "done") /\ ~alive'[s]
      BY Zenon, <1>7, <2>2, <2>3 DEF Acquire
    <3>2. QED
      BY Zenon, <1>1, <1>7, <2>1, <2>2, <3>1, LeavingKeeps DEF Acquire
  <2>4. CASE s \notin Sweeper
    <3>1. Goto(s, "work") /\ "work" \notin Acquiring
      BY Zenon, <1>7, <2>4 DEF Acquire, Acquiring
    <3>2. phase'[s] = "work" /\ elapsed'[s] = 0 /\ known'[s] = NothingRead
      BY Zenon, <1>1, <3>1, GotoOwn
    <3>3. OthersStay(s)
      BY Zenon, <1>1, <1>7, <2>2, <3>1, GotoOwn DEF Acquire, OthersStay
    <3>4. CountsOn(s) /\ CountsOn(s)'
      BY Zenon, <1>7, <2>2, <2>4 DEF Acquire, CountsOn, Acquiring
    <3>5. FileKept(s)' /\ AttemptQuick(s)' /\ RefreshNewer(s)'
      BY Zenon, <1>2, <1>7, <2>1, <3>1, <3>2, <3>4 DEF FileKept, AttemptQuick, RefreshNewer, Acquire
    <3>6. Memory(s)'
      BY Zenon, <1>7, <2>1, <2>2, <2>4, <3>1, <3>2 DEF Memory, Acquire, NothingRead
    <3>7. \A l \in Session : known'[s][l] = None
      BY Zenon, <3>2 DEF NothingRead
    <3>8. QED
      BY Zenon, <1>1, <3>3, <3>4, <3>5, <3>6, <3>7, OwnStepKeeps DEF OwnStep, OwnInv
  <2>5. QED
    BY Zenon, <2>3, <2>4
<1>8. ASSUME NEW s \in Session, Unlock(s) PROVE KeptInv'
  <2>1. todo[s] = {}
    BY Zenon, <1>2, <1>8 DEF Memory, Unlock
  <2>2. /\ ~alive'[s]
        /\ \A k \in Session \ {s} : alive'[k] = alive[k] /\ releasing'[k] = releasing[k]
    BY Zenon, <1>0, <1>8 DEF Unlock
  <2>3. QED
    BY Zenon, <1>1, <1>8, <2>1, <2>2, LeavingKeeps DEF Unlock
<1>9. ASSUME NEW s \in Session, Unlocked(s) PROVE KeptInv'
  <2>1. todo[s] = {} /\ ~alive[s]
    BY Zenon, <1>2, <1>9 DEF Memory, Unlocked
  <2>2. QED
    BY Zenon, <1>1, <1>9, <2>1, LeavingKeeps DEF Unlocked
<1>10. ASSUME NEW s \in Session, Exit(s) PROVE KeptInv'
  <2>1. todo[s] = {} /\ ~alive[s] /\ ~releasing[s]
    BY Zenon, <1>2, <1>10 DEF Memory, Exit
  <2>2. /\ refresh'[s] = None
        /\ \A k \in Session \ {s} : refresh'[k] = refresh[k]
    BY Zenon, <1>0, <1>10 DEF Exit
  <2>3. QED
    BY Zenon, <1>1, <1>10, <2>1, <2>2, LeavingKeeps DEF Exit
<1>11. ASSUME NEW s \in Session, Crash(s) PROVE KeptInv'
  <2>1. /\ todo'[s] = {} /\ ~alive'[s] /\ ~releasing'[s] /\ refresh'[s] = None
        /\ \A k \in Session \ {s} : /\ todo'[k] = todo[k] /\ alive'[k] = alive[k]
                                    /\ refresh'[k] = refresh[k] /\ releasing'[k] = releasing[k]
    <3>1. todo'[s] = {} /\ \A k \in Session \ {s} : todo'[k] = todo[k]
      BY Zenon, <1>0, <1>11 DEF Crash
    <3>2. ~alive'[s] /\ \A k \in Session \ {s} : alive'[k] = alive[k]
      BY Zenon, <1>0, <1>11 DEF Crash
    <3>3. refresh'[s] = None /\ \A k \in Session \ {s} : refresh'[k] = refresh[k]
      BY Zenon, <1>0, <1>11 DEF Crash
    <3>4. ~releasing'[s] /\ \A k \in Session \ {s} : releasing'[k] = releasing[k]
      BY Zenon, <1>0, <1>11 DEF Crash
    <3>5. QED
      BY Zenon, <3>1, <3>2, <3>3, <3>4
  <2>2. QED
    BY Zenon, <1>1, <1>11, <2>1, LeavingKeeps DEF Crash
<1>12. ASSUME NEW s \in Session, UNCHANGED <<phase, elapsed, todo, known>>, OthersStay(s),
              alive'[s] => alive[s], FileKept(s)', RefreshNewer(s)',
              releasing'[s] => ~alive'[s] /\ phase[s] \in {"work", "unlock"},
              refresh'[s] # None => phase[s] \in {"work", "unlock", "done"}
       PROVE  KeptInv'
  <2>1. AttemptQuick(s)' /\ Memory(s)'
    BY Zenon, <1>2, <1>12 DEF AttemptQuick, Memory, NothingRead
  <2>2. CountsOn(s)' => CountsOn(s)
    BY Zenon, <1>12 DEF CountsOn
  <2>3. \A l \in Session :
          \/ known'[s][l] = None
          \/ known'[s][l] = known[s][l] /\ elapsed'[s] = elapsed[s] /\ phase[s] \in Acquiring
    <3>1. phase[s] \notin Acquiring => known[s] = NothingRead
      BY Zenon, <1>2 DEF Memory, Acquiring
    <3>2. QED
      BY Zenon, <1>12, <3>1 DEF NothingRead
  <2>4. QED
    BY Zenon, <1>1, <1>12, <2>1, <2>2, <2>3, OwnStepKeeps DEF OwnStep, OwnInv
<1>13. ASSUME NEW s \in Session, DeleteLock(s) PROVE KeptInv'
  <2>1. ~alive[s] /\ phase[s] \in {"work", "unlock"} /\ phase[s] \notin Acquiring
    BY Zenon, <1>2, <1>13 DEF Memory, DeleteLock, Acquiring
  <2>2. /\ ~releasing'[s]
        /\ \A k \in Session \ {s} : releasing'[k] = releasing[k] /\ lockfile'[k] = lockfile[k]
    <3>1. ~releasing'[s] /\ \A k \in Session \ {s} : releasing'[k] = releasing[k]
      BY Zenon, <1>0, <1>13 DEF DeleteLock
    <3>2. \A k \in Session \ {s} : lockfile'[k] = lockfile[k]
      BY Zenon, <1>3, <1>13 DEF DeleteLock
    <3>3. QED
      BY Zenon, <3>1, <3>2
  <2>3. FileKept(s)' /\ RefreshNewer(s)'
    BY Zenon, <1>13, <2>1 DEF DeleteLock, FileKept, RefreshNewer, CountsOn
  <2>4. refresh'[s] # None => phase[s] \in {"work", "unlock", "done"}
    BY Zenon, <2>1
  <2>5. OthersStay(s)
    BY Zenon, <1>13, <2>2 DEF DeleteLock, OthersStay
  <2>6. QED
    BY Zenon, <1>12, <1>13, <2>1, <2>2, <2>3, <2>4, <2>5 DEF DeleteLock
<1>14. ASSUME NEW s \in Session, RefreshStart(s) PROVE KeptInv'
  <2>1. phase[s] = "work" /\ s \notin Sweeper /\ (releasing[s] => ~alive[s])
    BY Zenon, <1>2, <1>14 DEF Memory, RefreshStart
  <2>2. /\ refresh'[s] = 0
        /\ \A k \in Session \ {s} : refresh'[k] = refresh[k]
    BY Zenon, <1>0, <1>14 DEF RefreshStart
  <2>3. FileKept(s)'
    BY Zenon, <1>2, <1>14 DEF RefreshStart, FileKept, CountsOn
  <2>4. lockfile[s] # None
    BY Zenon, <1>2, <1>14, <2>1 DEF RefreshStart, FileKept, CountsOn
  <2>5. 0 <= lockfile[s]
    <3>1. lockfile[s] \in Age
      BY Zenon, <1>1, <2>4 DEF Types
    <3>2. QED
      BY TimingAssumption, <3>1 DEF Age
  <2>6. RefreshNewer(s)'
    BY Zenon, <1>14, <2>2, <2>5 DEF RefreshStart, RefreshNewer
  <2>7. OthersStay(s)
    BY Zenon, <1>14, <2>2 DEF RefreshStart, OthersStay
  <2>8. QED
    BY Zenon, <1>12, <1>14, <2>1, <2>3, <2>6, <2>7 DEF RefreshStart
<1>15. ASSUME NEW s \in Session, RefreshWrite(s) PROVE KeptInv'
  <2>1. releasing[s] => ~alive[s] /\ phase[s] \in {"work", "unlock"}
    BY Zenon, <1>2 DEF Memory
  <2>2. /\ refresh'[s] = None /\ lockfile'[s] \in {lockfile[s], refresh[s]}
        /\ \A k \in Session \ {s} : refresh'[k] = refresh[k] /\ lockfile'[k] = lockfile[k]
    BY Zenon, <1>0, <1>15 DEF RefreshWrite
  <2>3. FileKept(s)'
    <3>1. CASE ~CountsOn(s)
      BY Zenon, <1>15, <3>1 DEF RefreshWrite, FileKept, CountsOn
    <3>2. CASE CountsOn(s)
      <4>1. lockfile[s] # None /\ lockfile[s] <= HolderMax
        BY Zenon, <1>2, <3>2 DEF FileKept
      <4>2. refresh[s] # None /\ refresh[s] <= lockfile[s]
        BY Zenon, <1>2, <1>15, <3>2 DEF RefreshWrite, RefreshNewer, Memory, CountsOn, Acquiring
      <4>3. refresh[s] <= HolderMax
        <5>1. refresh[s] \in Age /\ lockfile[s] \in Age
          BY Zenon, <1>1, <4>1, <4>2 DEF Types
        <5>2. QED
          BY TimingAssumption, <4>1, <4>2, <5>1 DEF Age
      <4>4. QED
        BY Zenon, <2>2, <4>1, <4>2, <4>3 DEF FileKept
    <3>3. QED
      BY Zenon, <3>1, <3>2
  <2>4. RefreshNewer(s)' /\ OthersStay(s)
    BY Zenon, <1>15, <2>2 DEF RefreshWrite, RefreshNewer, OthersStay
  <2>5. QED
    BY Zenon, <1>12, <1>15, <2>1, <2>2, <2>3, <2>4 DEF RefreshWrite
<1>16. ASSUME NEW s \in Session, TriggerUnlock(s) PROVE KeptInv'
  <2>1. refresh[s] # None => phase[s] \in {"work", "unlock", "done"}
    BY Zenon, <1>2 DEF Memory
  <2>2. /\ ~alive'[s] /\ phase[s] \notin Acquiring /\ phase[s] = "work"
        /\ \A k \in Session \ {s} : alive'[k] = alive[k] /\ releasing'[k] = releasing[k]
    BY Zenon, <1>0, <1>16 DEF TriggerUnlock, Acquiring
  <2>3. FileKept(s)' /\ RefreshNewer(s)' /\ OthersStay(s)
    BY Zenon, <1>16, <2>2 DEF TriggerUnlock, FileKept, RefreshNewer, CountsOn, OthersStay
  <2>4. QED
    BY Zenon, <1>12, <1>16, <2>1, <2>2, <2>3 DEF TriggerUnlock
<1>17. ASSUME NEW s \in Session, UNCHANGED <<phase, lockfile, elapsed, alive, refresh, releasing>>,
              OthersStay(s), phase[s] = "read",
              \A l \in Session : known'[s][l] \in {None, known[s][l], lockfile[l]}
       PROVE  KeptInv'
  <2>1. \A l \in Session : CountsOn(l)' => CountsOn(l)
    BY Zenon, <1>17 DEF CountsOn
  <2>2. phase[s] \in Acquiring
    BY Zenon, <1>17 DEF Acquiring
  <2>3. FileKept(s)' /\ AttemptQuick(s)' /\ RefreshNewer(s)'
    BY Zenon, <1>2, <1>17, <2>1 DEF FileKept, AttemptQuick, RefreshNewer
  <2>4. Memory(s)'
    BY Zenon, <1>2, <1>17, <2>2 DEF Memory
  <2>5. QED
    BY Zenon, <1>1, <1>17, <2>1, <2>2, <2>3, <2>4, OwnStepKeeps DEF OwnStep, OwnInv
<1>18. known \in [Session -> [Session -> Age \cup {None}]]
  BY Zenon, <1>1 DEF Types
<1>19. ASSUME NEW s \in Session, NEW l \in Session, Read(s, l) PROVE KeptInv'
  <2>1. phase[s] = "read"
    BY Zenon, <1>2, <1>19 DEF Memory, Read
  <2>2. UNCHANGED <<phase, lockfile, elapsed, alive, refresh, releasing>>
    BY Zenon, <1>19 DEF Read
  <2>3. \A k \in Session \ {s} : todo'[k] = todo[k]
    BY Zenon, <1>0, <1>19 DEF Read
  <2>4. known' = [known EXCEPT ![s][l] = lockfile[l]] \/ known' = known
    BY Zenon, <1>19 DEF Read
  <2>5. /\ \A m \in Session : known'[s][m] \in {None, known[s][m], lockfile[m]}
        /\ \A k \in Session \ {s} : known'[k] = known[k]
    <3>1. CASE known' = [known EXCEPT ![s][l] = lockfile[l]]
      <4>1. known'[s][l] = lockfile[l] /\ \A m \in Session \ {l} : known'[s][m] = known[s][m]
        BY ZenonT(40), <1>18, <3>1, CopyUpdate
      <4>2. \A k \in Session \ {s} : known'[k] = known[k]
        BY Zenon, <1>18, <3>1, CopyUpdate
      <4>3. QED
        BY Zenon, <4>1, <4>2
    <3>2. QED
      BY Zenon, <2>4, <3>1
  <2>6. OthersStay(s)
    BY Zenon, <2>2, <2>3, <2>5 DEF OthersStay
  <2>7. QED
    BY Zenon, <1>17, <2>1, <2>2, <2>5, <2>6
<1>20. ASSUME NEW s \in Session, NEW l \in Session, JudgeCompatible(s, l) PROVE KeptInv'
  <2>1. /\ phase[s] = "read" /\ known' = [known EXCEPT ![s][l] = None]
        /\ UNCHANGED <<phase, lockfile, elapsed, todo, alive, refresh, releasing>>
    BY Zenon, <1>20 DEF JudgeCompatible, Judging
  <2>2. /\ \A m \in Session : known'[s][m] \in {None, known[s][m], lockfile[m]}
        /\ \A k \in Session \ {s} : known'[k] = known[k]
    <3>1. known'[s][l] = None /\ \A m \in Session \ {l} : known'[s][m] = known[s][m]
      BY ZenonT(40), <1>18, <2>1, CopyUpdate
    <3>2. \A k \in Session \ {s} : known'[k] = known[k]
      BY Zenon, <1>18, <2>1, CopyUpdate
    <3>3. QED
      BY Zenon, <3>1, <3>2
  <2>3. OthersStay(s)
    BY Zenon, <2>1, <2>2 DEF OthersStay
  <2>4. QED
    BY Zenon, <1>17, <2>1, <2>2, <2>3
<1>21. ASSUME NEW s \in Session, NEW l \in Session, JudgeConflict(s, l) PROVE KeptInv'
  <2>1. todo[s] = {} /\ ~alive[s] /\ ~releasing[s]
    BY Zenon, <1>2, <1>21 DEF Memory, JudgeConflict, Judging
  <2>2. \A k \in Session \ {s} : lockfile'[k] = lockfile[k]
    BY Zenon, <1>3, <1>21 DEF JudgeConflict
  <2>3. QED
    BY Zenon, <1>1, <1>21, <2>1, <2>2, LeavingKeeps DEF JudgeConflict
<1>22. ASSUME NEW s \in Session, NEW l \in Session, JudgeStale(s, l) PROVE KeptInv'
  BY Zenon, <1>1, <1>22, StaleKeeps DEF KeptInv
<1>23. CASE Tick
  BY Zenon, <1>1, <1>23, TickKeeps DEF KeptInv
<1>24. CASE UNCHANGED vars
  <2>1. ASSUME NEW s \in Session PROVE OwnInv(s)'
    BY Zenon, <1>2, <1>24 DEF vars, OwnInv, FileKept, AttemptQuick, Memory, RefreshNewer, CountsOn, NothingRead
  <2>2. CopiesFresh'
    BY Zenon, <1>1, <1>24 DEF vars, CopiesFresh, CountsOn
  <2>3. QED
    BY Zenon, <1>1, <2>1, <2>2, OwnInvs
<1>25. QED
  BY Zenon, <1>4, <1>5, <1>6, <1>7, <1>8, <1>9, <1>10, <1>11, <1>13, <1>14, <1>15, <1>16, <1>19, <1>20,
     <1>21, <1>22, <1>23, <1>24 DEF Next, Step

(* Whatever crashes, signals, failed deletions and failed refreshes happen,  *)
(* nobody removes the lock file of a command that still counts on it.        *)
THEOREM LockKept ==
    ASSUME Punctual
    PROVE  Spec => []LiveLockKept
<1>1. KeptInv => LiveLockKept
  BY Zenon DEF KeptInv, FilesKept, MemoryInv, CountsOn, LiveLockKept
<1>2. KeptInv /\ [Next]_vars => KeptInv'
  BY Zenon, KeptNext
<1> QED
  BY <1>1, <1>2, KeptInit, PTL DEF Spec

(* A step of s that leaves the others alone, and after which what s has goes *)
(* with its phase.                                                           *)
HandleStep(s) ==
    /\ HandleOK(s)'
    /\ \A k \in Session \ {s} :
         /\ phase'[k] = phase[k] /\ todo'[k] = todo[k] /\ known'[k] = known[k]
         /\ alive'[k] = alive[k] /\ refresh'[k] = refresh[k] /\ releasing'[k] = releasing[k]

(* Such a step keeps it for all.                                             *)
LEMMA HandleStepKeeps ==
    ASSUME NEW s \in Session, \A k \in Session : HandleOK(k), HandleStep(s)
    PROVE  \A k \in Session : HandleOK(k)'
<1>1. ASSUME NEW k \in Session \ {s} PROVE HandleOK(k)'
  <2>1. HandleOK(k)
    BY Zenon
  <2>2. QED
    BY Zenon, <2>1 DEF HandleStep, HandleOK, NothingRead
<1>2. QED
  BY Zenon, <1>1 DEF HandleStep

(* Whatever happens, what every session has goes with its phase.             *)
LEMMA HandleNext ==
    ASSUME Types, \A k \in Session : HandleOK(k), [Next]_vars
    PROVE  \A k \in Session : HandleOK(k)'
<1>1. ASSUME NEW s \in Session, Begin(s) PROVE HandleStep(s)
  BY Zenon, <1>1 DEF Begin, HandleStep, HandleOK, Types, NothingRead, Goto, Acquiring
<1>2. ASSUME NEW s \in Session, List(s) PROVE HandleStep(s)
  BY Zenon, <1>2 DEF List, HandleStep, HandleOK, Types, NothingRead, Goto, Acquiring
<1>3. ASSUME NEW s \in Session, ListFails(s) PROVE HandleStep(s)
  BY Zenon, <1>3 DEF ListFails, HandleStep, HandleOK, Types, NothingRead, Goto, Acquiring
<1>4. ASSUME NEW s \in Session, Acquire(s) PROVE HandleStep(s)
  BY Zenon, <1>4 DEF Acquire, HandleStep, HandleOK, Types, NothingRead, Goto, Acquiring
<1>5. ASSUME NEW s \in Session, Unlock(s) PROVE HandleStep(s)
  BY Zenon, <1>5 DEF Unlock, HandleStep, HandleOK, Types, NothingRead, Goto, Acquiring
<1>6. ASSUME NEW s \in Session, DeleteLock(s) PROVE HandleStep(s)
  BY Zenon, <1>6 DEF DeleteLock, HandleStep, HandleOK, Types, NothingRead
<1>7. ASSUME NEW s \in Session, Unlocked(s) PROVE HandleStep(s)
  BY Zenon, <1>7 DEF Unlocked, HandleStep, HandleOK, Types, NothingRead, Goto, Acquiring
<1>8. ASSUME NEW s \in Session, Exit(s) PROVE HandleStep(s)
  BY Zenon, <1>8 DEF Exit, HandleStep, HandleOK, Types, NothingRead, Goto, Acquiring
<1>9. ASSUME NEW s \in Session, RefreshStart(s) PROVE HandleStep(s)
  BY Zenon, <1>9 DEF RefreshStart, HandleStep, HandleOK, Types, NothingRead
<1>10. ASSUME NEW s \in Session, RefreshWrite(s) PROVE HandleStep(s)
  BY Zenon, <1>10 DEF RefreshWrite, HandleStep, HandleOK, Types, NothingRead
<1>11. ASSUME NEW s \in Session, TriggerUnlock(s) PROVE HandleStep(s)
  BY Zenon, <1>11 DEF TriggerUnlock, HandleStep, HandleOK, Types, NothingRead
<1>12. ASSUME NEW s \in Session, Crash(s) PROVE HandleStep(s)
  BY Zenon, <1>12 DEF Crash, HandleStep, HandleOK, Types, NothingRead, Goto, Acquiring
<1>13. ASSUME NEW s \in Session, NEW l \in Session, Read(s, l) PROVE HandleStep(s)
  BY Zenon, <1>13 DEF Read, HandleStep, HandleOK, Types, NothingRead
<1>14. ASSUME NEW s \in Session, NEW l \in Session, JudgeStale(s, l) PROVE HandleStep(s)
  <2>1. HandleOK(s) /\ phase[s] = "read" /\ todo[s] = {}
    BY Zenon, <1>14 DEF JudgeStale, Judging
  <2>2. CASE known' = [known EXCEPT ![s][l] = None] /\ UNCHANGED <<phase, elapsed>>
    BY Zenon, <1>14, <2>1, <2>2 DEF JudgeStale, HandleStep, HandleOK, Types, NothingRead
  <2>3. CASE Goto(s, "done")
    <3>1. phase'[s] = "done" /\ known'[s] = NothingRead
      BY Zenon, <2>3 DEF Goto, Acquiring, Types
    <3>2. \A k \in Session \ {s} : phase'[k] = phase[k] /\ known'[k] = known[k]
      BY Zenon, <2>3 DEF Goto, Acquiring, Types
    <3>3. QED
      BY Zenon, <1>14, <2>1, <3>1, <3>2 DEF JudgeStale, HandleStep, HandleOK, NothingRead
  <2>4. QED
    BY Zenon, <1>14, <2>2, <2>3 DEF JudgeStale
<1>15. ASSUME NEW s \in Session, NEW l \in Session, JudgeConflict(s, l) PROVE HandleStep(s)
  BY Zenon, <1>15 DEF JudgeConflict, HandleStep, HandleOK, Types, NothingRead, Goto, Acquiring, Judging
<1>16. ASSUME NEW s \in Session, NEW l \in Session, JudgeCompatible(s, l) PROVE HandleStep(s)
  BY Zenon, <1>16 DEF JudgeCompatible, HandleStep, HandleOK, Types, NothingRead, Judging
<1>17. ASSUME Tick PROVE \A k \in Session : HandleOK(k)'
  <2>1. ASSUME NEW k \in Session PROVE HandleOK(k)'
    <3>1. HandleOK(k)
      BY Zenon
    <3>2. phase'[k] = phase[k] /\ alive'[k] = alive[k] /\ releasing'[k] = releasing[k] /\ todo'[k] = todo[k]
      BY Zenon, <1>17 DEF Tick
    <3>3. refresh'[k] # None => refresh[k] # None
      BY Zenon, <1>17, OlderFacts DEF Tick, Types
    <3>4. known[k] = NothingRead => known'[k] = NothingRead
      <4>1. known'[k] = [l \in Session |-> Older(known[k][l])]
        BY Zenon, <1>17 DEF Tick
      <4>2. Older(None) = None
        BY Zenon, OlderFacts
      <4>3. QED
        BY Zenon, <4>1, <4>2 DEF NothingRead
    <3>5. QED
      BY Zenon, <3>1, <3>2, <3>3, <3>4 DEF HandleOK, NothingRead
  <2>2. QED
    BY Zenon, <2>1
<1>18. ASSUME UNCHANGED vars PROVE \A k \in Session : HandleOK(k)'
  BY Zenon, <1>18 DEF vars, HandleOK, NothingRead
<1>19. QED
  BY Zenon, <1>1, <1>2, <1>3, <1>4, <1>5, <1>6, <1>7, <1>8, <1>9, <1>10, <1>11, <1>12, <1>13, <1>14, <1>15, <1>16, <1>17, <1>18, HandleStepKeeps DEF Next, Step

(* TypeOK in its two parts.                                                  *)
LEMMA TypeParts ==
    /\ TypeOK <=> Types /\ \A s \in Session : HandleOK(s)
    /\ TypeOK' <=> Types' /\ \A s \in Session : HandleOK(s)'
BY Zenon DEF TypeOK, Types

(* The variables keep their types, and what a session has (alive_flag, the   *)
(* refresh, the locks that get_locks has read) goes with its phase, whatever *)
(* faults there are.                                                         *)
THEOREM TypeCorrect == Spec => []TypeOK
<1>1. Init => TypeOK
  BY Zenon, TypeInit, TypeParts DEF Init, HandleOK
<1>2. TypeOK /\ [Next]_vars => TypeOK'
  BY Zenon, TypeParts, TypeNext, HandleNext
<1>3. QED
  BY <1>1, <1>2, PTL DEF Spec

-----------------------------------------------------------------------------

(* At first no session works or has judged another.                          *)
LEMMA ExclusionInit == Init => ExclusionInv
BY ZenonT(40), KeptInit DEF Init, ExclusionInv, WorkInv, SeenInv, Sees

(* The faults the exclusion tolerates include no stall.                      *)
LEMMA BenignPunctual == Benign => Punctual
BY ZenonT(40) DEF Benign, Punctual

(* What a step of s has to keep: nobody else's view changes, s begins to     *)
(* work only when it has nothing left to judge, and stops looking at a lock  *)
(* in conflict with its own for no other reason.                             *)
SeenStep(s) ==
    /\ \A k \in Session \ {s} : phase'[k] = phase[k] /\ alive'[k] = alive[k]
    /\ \A k \in Session \ {s}, t \in Session : Sees(k, t)' <=> Sees(k, t)
    /\ phase'[s] = "work" =>
         /\ alive'[s] /\ s \notin Sweeper
         /\ phase[s] = "work" \/ (phase[s] = "read" /\ \A t \in Session : ~Sees(s, t))
    /\ phase'[s] = "read" =>
         \A t \in Session \ Sweeper :
           Conflict(s, t) /\ phase[t] \in {"read", "work"}
             => Sees(s, t)' \/ (phase[s] = "read" /\ ~Sees(s, t))

(* Then conflicting sessions stay aware of each other.                       *)
LEMMA SeenStepKeeps ==
    ASSUME WorkInv, SeenInv, NEW s \in Session, SeenStep(s)
    PROVE  WorkInv' /\ SeenInv'
<1>1. WorkInv'
  BY Zenon DEF WorkInv, SeenStep
<1>2. \A a, b \in Session : Conflict(a, b) <=> Conflict(b, a)
  BY Zenon DEF Conflict
<1>3. ASSUME NEW t \in Session \ Sweeper, s \notin Sweeper, Conflict(s, t)
      PROVE  /\ phase[s] = "work" /\ phase[t] = "read" => Sees(t, s)
             /\ phase[t] = "work" /\ phase[s] = "read" => Sees(s, t)
             /\ phase[s] = "read" /\ phase[t] = "read" => Sees(t, s) \/ Sees(s, t)
             /\ ~(phase[s] = "work" /\ phase[t] = "work")
  BY Zenon, <1>2, <1>3 DEF SeenInv
<1>4. ASSUME NEW t \in Session \ Sweeper, s \notin Sweeper, Conflict(s, t)
      PROVE  /\ phase'[s] = "work" /\ phase'[t] = "read" => Sees(t, s)'
             /\ phase'[t] = "work" /\ phase'[s] = "read" => Sees(s, t)'
             /\ phase'[s] = "read" /\ phase'[t] = "read" => Sees(t, s)' \/ Sees(s, t)'
             /\ ~(phase'[s] = "work" /\ phase'[t] = "work")
  <2>1. phase'[t] = phase[t] /\ (Sees(t, s)' <=> Sees(t, s))
    BY Zenon, <1>4 DEF SeenStep, Conflict
  <2>2. phase'[s] = "work" => phase[s] = "work" \/ (phase[s] = "read" /\ ~Sees(s, t))
    BY Zenon DEF SeenStep
  <2>3. phase'[s] = "read" /\ phase[t] \in {"read", "work"}
          => Sees(s, t)' \/ (phase[s] = "read" /\ ~Sees(s, t))
    BY Zenon, <1>4 DEF SeenStep
  <2>4. QED
    BY Zenon, <1>3, <1>4, <2>1, <2>2, <2>3
<1>5. ASSUME NEW a \in Session \ Sweeper, NEW b \in Session \ Sweeper, Conflict(a, b), a # s, b # s
      PROVE  /\ phase'[a] = "work" /\ phase'[b] = "read" => Sees(b, a)'
             /\ phase'[a] = "read" /\ phase'[b] = "read" => Sees(b, a)' \/ Sees(a, b)'
             /\ ~(phase'[a] = "work" /\ phase'[b] = "work")
  <2>1. /\ phase'[a] = phase[a] /\ phase'[b] = phase[b]
        /\ (Sees(b, a)' <=> Sees(b, a)) /\ (Sees(a, b)' <=> Sees(a, b))
    BY Zenon, <1>5 DEF SeenStep
  <2>2. QED
    BY Zenon, <1>5, <2>1 DEF SeenInv
<1>6. ASSUME NEW a \in Session \ Sweeper, NEW b \in Session \ Sweeper, Conflict(a, b)
      PROVE  /\ phase'[a] = "work" /\ phase'[b] = "read" => Sees(b, a)'
             /\ phase'[a] = "read" /\ phase'[b] = "read" => Sees(b, a)' \/ Sees(a, b)'
             /\ ~(phase'[a] = "work" /\ phase'[b] = "work")
  BY ZenonT(40), <1>2, <1>4, <1>5, <1>6
<1>7. SeenInv'
  BY Zenon, <1>6 DEF SeenInv, Conflict
<1>8. QED
  BY Zenon, <1>1, <1>7

(* Every step keeps conflicting sessions aware of each other until one       *)
(* gives way.                                                                *)
LEMMA ExclusionNext == Benign /\ ExclusionInv /\ [Next]_vars => ExclusionInv'
<1> SUFFICES ASSUME Benign, ExclusionInv, [Next]_vars PROVE WorkInv' /\ SeenInv'
  BY Zenon, KeptNext, BenignPunctual DEF ExclusionInv
<1>1. KeptInv /\ Types /\ WorkInv /\ SeenInv /\ FilesKept /\ MemoryInv
  BY Zenon DEF ExclusionInv, KeptInv
<1>2. todo \in [Session -> SUBSET Session] /\ alive \in [Session -> BOOLEAN]
  BY Zenon, <1>1 DEF Types
<1>3. ASSUME NEW s \in Session, NEW p, Goto(s, p), p \notin {"read", "work"},
             \A k \in Session \ {s} : todo'[k] = todo[k] /\ alive'[k] = alive[k]
      PROVE  WorkInv' /\ SeenInv'
  <2>1. /\ phase'[s] = p
        /\ \A k \in Session \ {s} : phase'[k] = phase[k] /\ known'[k] = known[k]
    BY Zenon, <1>1, <1>3, GotoOwn
  <2>2. SeenStep(s)
    BY Zenon, <1>3, <2>1 DEF SeenStep, Sees
  <2>3. QED
    BY Zenon, <1>1, <2>2, SeenStepKeeps
<1>4. ASSUME UNCHANGED <<phase, todo, known, alive>> PROVE WorkInv' /\ SeenInv'
  <2>1. WorkInv'
    BY Zenon, <1>1, <1>4 DEF WorkInv
  <2>2. SeenInv'
    BY ZenonT(40), <1>1, <1>4 DEF SeenInv, Sees, Conflict
  <2>3. QED
    BY Zenon, <2>1, <2>2
<1>5. ASSUME NEW s \in Session, UNCHANGED <<phase, alive>>, phase[s] = "read",
             \A k \in Session \ {s} : todo'[k] = todo[k] /\ known'[k] = known[k],
             \A t \in Session \ Sweeper :
               Conflict(s, t) /\ phase[t] \in {"read", "work"} /\ Sees(s, t) => Sees(s, t)'
      PROVE  WorkInv' /\ SeenInv'
  <2>1. SeenStep(s)
    BY Zenon, <1>5 DEF SeenStep, Sees
  <2>2. QED
    BY Zenon, <1>1, <2>1, SeenStepKeeps
<1>6. ASSUME NEW t \in Session \ Sweeper, phase[t] \in {"read", "work"} PROVE CountsOn(t) /\ lockfile[t] # None
  BY Zenon, <1>1, <1>6 DEF WorkInv, CountsOn, FilesKept, Acquiring
<1>7. ASSUME NEW s \in Session, Begin(s) PROVE WorkInv' /\ SeenInv'
  BY Zenon, <1>3, <1>7 DEF Begin
<1>8. ASSUME NEW s \in Session, List(s) PROVE WorkInv' /\ SeenInv'
  <2>1. todo'[s] = {l \in Session \ {s} : lockfile[l] # None} /\ \A k \in Session \ {s} : todo'[k] = todo[k]
    BY Zenon, <1>2, <1>8 DEF List
  <2>2. Goto(s, "read") /\ alive' = alive
    BY Zenon, <1>8 DEF List
  <2>3. phase'[s] = "read" /\ \A k \in Session \ {s} : phase'[k] = phase[k] /\ known'[k] = known[k]
    BY Zenon, <1>1, <2>2, GotoOwn
  <2>4. \A t \in Session \ Sweeper : Conflict(s, t) /\ phase[t] \in {"read", "work"} => Sees(s, t)'
    BY Zenon, <1>6, <2>1 DEF Conflict, Sees
  <2>5. SeenStep(s)
    BY Zenon, <2>1, <2>2, <2>3, <2>4 DEF SeenStep, Sees
  <2>6. QED
    BY Zenon, <1>1, <2>5, SeenStepKeeps
<1>9. ASSUME NEW s \in Session, ListFails(s) PROVE WorkInv' /\ SeenInv'
  BY Zenon, <1>3, <1>9 DEF ListFails
<1>10. ASSUME NEW s \in Session, Acquire(s) PROVE WorkInv' /\ SeenInv'
  <2>1. \A t \in Session : ~Sees(s, t)
    BY Zenon, <1>10 DEF Acquire, NothingRead, Sees
  <2>2. /\ Goto(s, IF s \in Sweeper THEN "done" ELSE "work") /\ todo' = todo /\ phase[s] = "read"
        /\ alive' = [alive EXCEPT ![s] = s \notin Sweeper]
    BY Zenon, <1>10 DEF Acquire
  <2>3. alive'[s] = (s \notin Sweeper) /\ \A k \in Session \ {s} : alive'[k] = alive[k]
    BY Zenon, <1>2, <2>2
  <2>4. /\ phase'[s] = IF s \in Sweeper THEN "done" ELSE "work"
        /\ \A k \in Session \ {s} : phase'[k] = phase[k] /\ known'[k] = known[k]
    BY Zenon, <1>1, <2>2, GotoOwn
  <2>5. SeenStep(s)
    BY Zenon, <2>1, <2>2, <2>3, <2>4 DEF SeenStep, Sees
  <2>6. QED
    BY Zenon, <1>1, <2>5, SeenStepKeeps
<1>11. ASSUME NEW s \in Session, Unlock(s) PROVE WorkInv' /\ SeenInv'
  <2>1. Goto(s, "unlock") /\ todo' = todo /\ \A k \in Session \ {s} : alive'[k] = alive[k]
    BY Zenon, <1>2, <1>11 DEF Unlock
  <2>2. QED
    BY Zenon, <1>3, <2>1
<1>12. ASSUME NEW s \in Session, DeleteLock(s) PROVE WorkInv' /\ SeenInv'
  BY Zenon, <1>4, <1>12 DEF DeleteLock
<1>13. ASSUME NEW s \in Session, Unlocked(s) PROVE WorkInv' /\ SeenInv'
  BY Zenon, <1>3, <1>13 DEF Unlocked
<1>14. ASSUME NEW s \in Session, Exit(s) PROVE WorkInv' /\ SeenInv'
  BY Zenon, <1>3, <1>14 DEF Exit
<1>15. ASSUME NEW s \in Session, RefreshStart(s) PROVE WorkInv' /\ SeenInv'
  BY Zenon, <1>4, <1>15 DEF RefreshStart
<1>16. ASSUME NEW s \in Session, RefreshWrite(s) PROVE WorkInv' /\ SeenInv'
  BY Zenon, <1>4, <1>16 DEF RefreshWrite
<1>17. ASSUME NEW s \in Session, TriggerUnlock(s) PROVE FALSE
  BY Zenon, <1>17 DEF TriggerUnlock, Benign
<1>18. ASSUME NEW s \in Session, Crash(s) PROVE WorkInv' /\ SeenInv'
  <2>1. Goto(s, "idle") /\ \A k \in Session \ {s} : todo'[k] = todo[k] /\ alive'[k] = alive[k]
    BY Zenon, <1>2, <1>18 DEF Crash
  <2>2. QED
    BY Zenon, <1>3, <2>1
<1>19. known \in [Session -> [Session -> Age \cup {None}]]
  BY Zenon, <1>1 DEF Types
<1>20. ASSUME NEW s \in Session, NEW l \in Session, Read(s, l) PROVE WorkInv' /\ SeenInv'
  <2>1. /\ known' = [known EXCEPT ![s][l] = lockfile[l]]
        /\ l \in todo[s] /\ todo' = [todo EXCEPT ![s] = @ \ {l}] /\ UNCHANGED <<phase, alive>>
    BY Zenon, <1>20 DEF Read, Benign
  <2>2. known'[s][l] = lockfile[l] /\ \A m \in Session \ {l} : known'[s][m] = known[s][m]
    BY ZenonT(40), <1>19, <2>1, CopyUpdate
  <2>3. \A k \in Session \ {s} : known'[k] = known[k]
    BY Zenon, <1>19, <2>1, CopyUpdate
  <2>4. todo'[s] = todo[s] \ {l} /\ \A k \in Session \ {s} : todo'[k] = todo[k]
    BY Zenon, <1>2, <2>1
  <2>5. phase[s] = "read"
    BY Zenon, <1>1, <2>1 DEF MemoryInv
  <2>6. \A t \in Session \ Sweeper : phase[t] \in {"read", "work"} /\ Sees(s, t) => Sees(s, t)'
    BY Zenon, <1>6, <2>2, <2>4 DEF Sees
  <2>7. QED
    BY Zenon, <1>5, <2>1, <2>3, <2>4, <2>5, <2>6
<1>21. ASSUME NEW s \in Session, NEW l \in Session, JudgeStale(s, l) PROVE WorkInv' /\ SeenInv'
  <2>1. ~CountsOn(l) /\ phase[s] = "read" /\ UNCHANGED <<todo, alive>>
    BY Zenon, <1>1, <1>21, LiveNotStale, BenignPunctual DEF JudgeStale, Judging
  <2>2. CASE Goto(s, "done")
    BY Zenon, <1>3, <2>1, <2>2
  <2>3. CASE known' = [known EXCEPT ![s][l] = None] /\ UNCHANGED phase
    <3>1. \A m \in Session \ {l} : known'[s][m] = known[s][m]
      BY ZenonT(40), <1>19, <2>3, CopyUpdate
    <3>2. \A k \in Session \ {s} : known'[k] = known[k]
      BY Zenon, <1>19, <2>3, CopyUpdate
    <3>3. \A t \in Session \ Sweeper : phase[t] \in {"read", "work"} /\ Sees(s, t) => Sees(s, t)'
      BY Zenon, <1>6, <2>1, <3>1 DEF Sees
    <3>4. QED
      BY Zenon, <1>5, <2>1, <2>3, <3>2, <3>3
  <2>4. QED
    BY Zenon, <1>21, <2>2, <2>3 DEF JudgeStale
<1>22. ASSUME NEW s \in Session, NEW l \in Session, JudgeConflict(s, l) PROVE WorkInv' /\ SeenInv'
  BY Zenon, <1>3, <1>22 DEF JudgeConflict
<1>23. ASSUME NEW s \in Session, NEW l \in Session, JudgeCompatible(s, l) PROVE WorkInv' /\ SeenInv'
  <2>1. /\ phase[s] = "read" /\ UNCHANGED <<phase, todo, alive>>
        /\ known' = [known EXCEPT ![s][l] = None]
    BY Zenon, <1>23 DEF JudgeCompatible, Judging
  <2>2. \A m \in Session \ {l} : known'[s][m] = known[s][m]
    BY Zenon, <1>19, <2>1, CopyUpdate
  <2>3. \A k \in Session \ {s} : known'[k] = known[k]
    BY Zenon, <1>19, <2>1, CopyUpdate
  <2>4. CASE s \in Sweeper
    <3>1. WorkInv' /\ \A k \in Session \ Sweeper, t \in Session : Sees(k, t)' <=> Sees(k, t)
      BY Zenon, <1>1, <2>1, <2>3, <2>4 DEF WorkInv, Sees
    <3>2. SeenInv'
      BY Zenon, <1>1, <2>1, <3>1 DEF SeenInv, Conflict
    <3>3. QED
      BY Zenon, <3>1, <3>2
  <2>5. CASE s \notin Sweeper
    <3>1. ~Conflict(s, l)
      BY Zenon, <1>23, <2>5 DEF JudgeCompatible, Conflict
    <3>2. \A t \in Session \ Sweeper : Conflict(s, t) /\ Sees(s, t) => Sees(s, t)'
      BY Zenon, <2>1, <2>2, <3>1 DEF Sees
    <3>3. QED
      BY Zenon, <1>5, <2>1, <2>3, <3>2
  <2>6. QED
    BY Zenon, <2>4, <2>5
<1>24. CASE Tick
  <2>1. UNCHANGED <<phase, todo, alive>> /\ \A k, m \in Session : known'[k][m] = Older(known[k][m])
    BY Zenon, <1>24 DEF Tick
  <2>2. \A k, m \in Session : known'[k][m] = None <=> known[k][m] = None
    <3>1. \A k, m \in Session : known[k][m] \in Age \cup {None}
      BY Zenon, <1>1 DEF Types
    <3>2. QED
      BY ZenonT(40), <2>1, <3>1, OlderFacts
  <2>3. \A k, m \in Session : Sees(k, m)' <=> Sees(k, m)
    BY Zenon, <2>1, <2>2 DEF Sees
  <2>4. WorkInv'
    BY Zenon, <1>1, <2>1 DEF WorkInv
  <2>5. SeenInv'
    BY Zenon, <1>1, <2>1, <2>3 DEF SeenInv, Conflict
  <2>6. QED
    BY Zenon, <2>4, <2>5
<1>25. CASE UNCHANGED vars
  BY Zenon, <1>4, <1>25 DEF vars
<1>26. QED
  BY Zenon, <1>7, <1>8, <1>9, <1>10, <1>11, <1>12, <1>13, <1>14, <1>15, <1>16, <1>17, <1>18, <1>20, <1>21,
     <1>22, <1>23, <1>24, <1>25 DEF Next, Step

(* While a command works under an exclusive lock, no other command works     *)
(* under any lock, whatever crashes, failed deletions and failed refreshes   *)
(* happen (try_acquire_lock_once).                                           *)
THEOREM Exclusion ==
    ASSUME Benign
    PROVE  Spec => []MutualExclusion
<1>1. ExclusionInv => MutualExclusion
  BY Zenon DEF ExclusionInv, SeenInv, WorkInv, Conflict, MutualExclusion
<1>2. ExclusionInv /\ [Next]_vars => ExclusionInv'
  BY Zenon, ExclusionNext
<1> QED
  BY <1>1, <1>2, ExclusionInit, PTL DEF Spec

-----------------------------------------------------------------------------
Holders == {s \in Session : phase[s] = "work"}

(* A step that changes who works changes it for one session.                 *)
LEMMA OneHolderMoves ==
    ASSUME Types, Next
    PROVE  \/ Holders' = Holders
           \/ \E s \in Session : s \notin Holders /\ Holders' = Holders \cup {s}
           \/ \E s \in Session : s \in Holders /\ Holders' = Holders \ {s}
<1> USE DEF None, Age, Acquiring, Phases
<1>1. ASSUME UNCHANGED phase PROVE Holders' = Holders
  BY Zenon, <1>1 DEF Holders
<1>2. ASSUME NEW s \in Session, NEW p \in Phases, phase' = [phase EXCEPT ![s] = p]
      PROVE  \/ Holders' = Holders
             \/ s \notin Holders /\ Holders' = Holders \cup {s}
             \/ s \in Holders /\ Holders' = Holders \ {s}
  <2>1. CASE p = "work" /\ phase[s] # "work"
    BY <1>2, <2>1 DEF Holders, Types
  <2>2. CASE p # "work" /\ phase[s] = "work"
    BY Zenon, <1>2, <2>2 DEF Holders, Types
  <2>3. CASE p = "work" <=> phase[s] = "work"
    BY Zenon, <1>2, <2>3 DEF Holders, Types
  <2> QED BY ZenonT(40), <2>1, <2>2, <2>3
<1>3. \/ UNCHANGED phase
      \/ \E s \in Session, p \in Phases : phase' = [phase EXCEPT ![s] = p]
  <2>1. ASSUME NEW s \in Session, NEW l \in Session,
               Read(s, l) \/ JudgeStale(s, l) \/ JudgeConflict(s, l) \/ JudgeCompatible(s, l)
        PROVE  UNCHANGED phase \/ phase' = [phase EXCEPT ![s] = "done"]
    BY ZenonT(40), <2>1 DEF Read, JudgeStale, JudgeConflict, JudgeCompatible, Goto
  <2>2. ASSUME NEW s \in Session,
               Begin(s) \/ List(s) \/ ListFails(s) \/ Acquire(s) \/ Unlock(s) \/ Unlocked(s)
                 \/ Exit(s) \/ Crash(s)
        PROVE  \E p \in Phases : phase' = [phase EXCEPT ![s] = p]
    BY ZenonT(40), <2>2 DEF Begin, List, ListFails, Acquire, Unlock, Unlocked, Exit, Crash, Goto
  <2>3. ASSUME NEW s \in Session,
               RefreshStart(s) \/ RefreshWrite(s) \/ TriggerUnlock(s) \/ DeleteLock(s)
        PROVE  UNCHANGED phase
    BY Zenon, <2>3 DEF RefreshStart, RefreshWrite, TriggerUnlock, DeleteLock
  <2>4. ASSUME Tick PROVE UNCHANGED phase
    BY Zenon, <2>4 DEF Tick
  <2>5. "done" \in Phases
    BY Zenon
  <2> QED BY ZenonT(40), <2>1, <2>2, <2>3, <2>4, <2>5 DEF Next, Step
<1> QED BY Zenon, <1>1, <1>2, <1>3

(* The lock files implement a reader-writer lock: a lock is granted only     *)
(* when it conflicts with none that is held (try_acquire_lock_once).         *)
THEOREM LockFilesImplementRwLock ==
    ASSUME Benign
    PROVE  Spec => ImplementsRwLock
<1>1. Init => Abstract!Init
  BY Zenon DEF Init, Abstract!Init
<1>2. ExclusionInv /\ ExclusionInv' /\ [Next]_vars => [Abstract!Next]_Holders
  <2> SUFFICES ASSUME ExclusionInv, ExclusionInv', [Next]_vars, Holders' # Holders
               PROVE  Abstract!Next
    BY Zenon DEF Holders
  <2>1. Types /\ Next
    BY Zenon DEF ExclusionInv, KeptInv, Holders, vars
  <2>2. CASE \E s \in Session : s \notin Holders /\ Holders' = Holders \cup {s}
    <3>1. PICK s \in Session : s \notin Holders /\ Holders' = Holders \cup {s}
      BY Zenon, <2>2
    <3>2. \A t \in Holders : ~Abstract!Conflict(s, t)
      BY Zenon, <3>1 DEF Abstract!Conflict, Conflict, Holders, ExclusionInv, SeenInv, WorkInv
    <3> QED BY Zenon, <3>1, <3>2 DEF Abstract!Next, Abstract!Grant, Holders
  <2>3. CASE \E s \in Session : s \in Holders /\ Holders' = Holders \ {s}
    BY Zenon, <2>3 DEF Abstract!Next, Abstract!Release, Holders
  <2> QED BY ZenonT(40), <2>1, <2>2, <2>3, OneHolderMoves
<1>3. ExclusionInv /\ [Next]_vars => ExclusionInv'
  BY Zenon, ExclusionNext
<1> QED
  BY <1>1, <1>2, <1>3, ExclusionInit, PTL DEF Spec, ImplementsRwLock, Abstract!Spec, Holders
=============================================================================
