-------------------------------- MODULE Keys --------------------------------
(***************************************************************************)
(* Creating a repository, opening it, and its key files                    *)
(* (repository/keys.rs, Repository::init and try_open_unlocked of          *)
(* repository/repo.rs, commands/cmd_key.rs, cmd_init.rs).  Several         *)
(* processes run at the same time, none of them takes a lock, and each may *)
(* be killed between two steps.                                            *)
(*                                                                         *)
(* A key file is [user, pass, master]: the master key, encrypted with the  *)
(* password.  The manifest is encrypted with a master key, too, and is     *)
(* given by it; 0 stands for none.                                         *)
(***************************************************************************)
EXTENDS Naturals, FiniteSets

CONSTANTS
    KeyJobs,        \* [keys, manifest, ops: what the processes run, kills: at most so many]
    KeyUser,        \* user names
    KeyPass         \* passwords

KeyFile == [user : KeyUser, pass : KeyPass, master : Nat]
KeyCommand ==
    [op : {"init", "open", "add", "change", "delete", "export"}, user : KeyUser, pass : KeyPass,
     newUser : KeyUser, newPass : KeyPass, toFile : BOOLEAN, id : Nat]

ASSUME KeysAssumption ==
    \A job \in KeyJobs :
      /\ Cardinality(DOMAIN job.keys) \in Nat
      /\ job.keys \in [1 .. Cardinality(DOMAIN job.keys) -> KeyFile] /\ job.ops \in [DOMAIN job.ops -> KeyCommand]
      /\ job.manifest \in Nat /\ job.kills \in Nat
      /\ job.manifest = 0 => DOMAIN job.keys = {}
      /\ \A id \in DOMAIN job.keys : job.keys[id].master = job.manifest

VARIABLE kr

KeyProcs == DOMAIN kr.ops
PcOf(c) == kr.at[c]
KeyOp(c) == kr.ops[c]

WithKey(f, id, key) == [k \in (DOMAIN f) \union {id} |-> IF k = id THEN key ELSE f[k]]

(* made: key files written so far; each has an identifier of its own.        *)
NewKeyId(x) == x.made + 1
AddKey(x, key) ==
    [x EXCEPT !.keys = WithKey(@, NewKeyId(x), key), !.made = NewKeyId(x)]
DropKey(x, id) ==
    [x EXCEPT !.keys = [k \in (DOMAIN @) \ {id} |-> @[k]],
              !.through = [c \in DOMAIN @ |-> @[c] \ {id}]]

KeyEnds(x, c, how) == [x EXCEPT !.at[c] = how]

(* Keys of c's user that its password opens.                                 *)
OpensKey(c, id) == kr.keys[id].user = KeyOp(c).user /\ kr.keys[id].pass = KeyOp(c).pass

----------------------------------------------------------------------------
(* Repository::init.                                                         *)

CheckNew(c) ==
    /\ PcOf(c) = "start" /\ KeyOp(c).op = "init"
    /\ kr' = KeyEnds(kr, c, IF kr.manifest # 0 THEN "failed" ELSE "write_key")

WriteFirstKey(c) ==
    /\ PcOf(c) = "write_key"
    /\ LET m == kr.masters + 1
           x == [kr EXCEPT !.masters = m, !.master[c] = m, !.inits = @ + 1]
       IN  kr' = KeyEnds(AddKey(x, [user |-> KeyOp(c).user, pass |-> KeyOp(c).pass, master |-> m]),
                      c, "write_manifest")

WriteManifest(c) ==
    /\ PcOf(c) = "write_manifest"
    /\ kr' = KeyEnds([kr EXCEPT !.manifest = kr.master[c]], c, "make_dirs")

MakeDirs(c) ==
    /\ PcOf(c) = "make_dirs"
    /\ kr' = KeyEnds([kr EXCEPT !.dirs = TRUE], c, "ok")

----------------------------------------------------------------------------
(* KeyFileStream: the listed files are loaded one by one.                    *)

ListKeys(c) ==
    /\ PcOf(c) = "start" /\ KeyOp(c).op \in {"open", "add", "change"}
    /\ kr' = KeyEnds([kr EXCEPT !.listed[c] = DOMAIN kr.keys,
                             !.through[c] = {id \in DOMAIN kr.keys : OpensKey(c, id)}], c, "search")

(* retrieve_master_key: the first that has the user and that the password    *)
(* opens; one that cannot be loaded is passed over.                          *)
TryKey(c) ==
    /\ PcOf(c) = "search" /\ KeyOp(c).op \in {"open", "add"}
    /\ IF kr.listed[c] = {} THEN kr' = KeyEnds(kr, c, "failed")
       ELSE \E id \in kr.listed[c] :
              kr' = IF id \in DOMAIN kr.keys /\ OpensKey(c, id)
                    THEN KeyEnds([kr EXCEPT !.master[c] = kr.keys[id].master], c, "found")
                    ELSE [kr EXCEPT !.listed[c] = @ \ {id}]

(* try_open_unlocked: the manifest must decode with the master key.          *)
OpenManifest(c) ==
    /\ PcOf(c) = "found" /\ KeyOp(c).op = "open"
    /\ kr' = KeyEnds(kr, c, IF kr.manifest = kr.master[c] THEN "ok" ELSE "failed")

(* run_add: a key for another user, in the repository or in a local file.    *)
WriteAdded(c) ==
    /\ PcOf(c) = "found" /\ KeyOp(c).op = "add"
    /\ LET key == [user |-> KeyOp(c).newUser, pass |-> KeyOp(c).newPass, master |-> kr.master[c]]
       IN  kr' = KeyEnds(IF KeyOp(c).toFile THEN [kr EXCEPT !.files = @ \union {key}] ELSE AddKey(kr, key),
                      c, "ok")

(* load_keyfile_with_username: all the user's keys; there must be one.       *)
FindOwn(c) ==
    /\ PcOf(c) = "search" /\ KeyOp(c).op = "change"
    /\ IF kr.listed[c] # {}
       THEN \E id \in kr.listed[c] :
              kr' = [kr EXCEPT !.listed[c] = @ \ {id},
                               !.own[c] = IF id \in DOMAIN kr.keys /\ kr.keys[id].user = KeyOp(c).user
                                          THEN WithKey(@, id, kr.keys[id]) ELSE @]
       ELSE LET good == {id \in DOMAIN kr.own[c] : kr.own[c][id].pass = KeyOp(c).pass}
            IN  kr' = IF Cardinality(DOMAIN kr.own[c]) # 1 \/ good = {} THEN KeyEnds(kr, c, "failed")
                      ELSE KeyEnds(kr, c, "save")

OldKey(c) == CHOOSE id \in DOMAIN kr.own[c] : TRUE

(* Mutant of SaveChanged: removes the old key first.                         *)
SaveChangedLast(c) ==
    \/ /\ PcOf(c) = "save"
       /\ kr' = KeyEnds(DropKey(kr, OldKey(c)), c, "resave")
    \/ /\ PcOf(c) = "resave"
       /\ kr' = KeyEnds(AddKey(kr, [kr.own[c][OldKey(c)] EXCEPT !.pass = KeyOp(c).newPass]), c, "ok")

(* run_password_change: the new key file, then the removal of the old one.   *)
SaveChanged(c) ==
    /\ PcOf(c) = "save"
    /\ kr' = KeyEnds(AddKey(kr, [kr.own[c][OldKey(c)] EXCEPT !.pass = KeyOp(c).newPass]), c, "drop")

DropOld(c) ==
    /\ PcOf(c) = "drop"
    /\ kr' = KeyEnds(DropKey(kr, OldKey(c)), c, "ok")

(* find_id_with_prefix, then remove or load.                                 *)
FindId(c) ==
    /\ PcOf(c) = "start" /\ KeyOp(c).op \in {"delete", "export"}
    /\ kr' = KeyEnds(kr, c, IF KeyOp(c).id \in DOMAIN kr.keys THEN KeyOp(c).op ELSE "failed")

DeleteKey(c) ==
    /\ PcOf(c) = "delete"
    /\ kr' = KeyEnds([DropKey(kr, KeyOp(c).id) EXCEPT !.deletes = @ + 1], c, "ok")

ExportKey(c) ==
    /\ PcOf(c) = "export"
    /\ kr' = IF KeyOp(c).id \notin DOMAIN kr.keys THEN KeyEnds(kr, c, "failed")
             ELSE KeyEnds([kr EXCEPT !.files = @ \union {kr.keys[KeyOp(c).id]}], c, "ok")

KeysOver == {"ok", "failed", "killed"}

KillKeyProc(c) ==
    /\ PcOf(c) \notin KeysOver /\ kr.kills > 0
    /\ kr' = KeyEnds([kr EXCEPT !.kills = @ - 1], c, "killed")

KeysRest == (\A c \in KeyProcs : PcOf(c) \in KeysOver) /\ UNCHANGED kr

KeysStart(job) ==
    LET each(v) == [c \in DOMAIN job.ops |-> v]
    IN  [ops |-> job.ops, keys |-> job.keys, made |-> Cardinality(DOMAIN job.keys),
         manifest |-> job.manifest, masters |-> job.manifest, dirs |-> job.manifest # 0,
         fresh |-> job.manifest = 0,
         inits |-> 0, deletes |-> 0, kills |-> job.kills, files |-> {},
         at |-> each("start"), master |-> each(0), listed |-> each({}),
         own |-> each(<<>>), through |-> each({})]
KeysInit == \E job \in KeyJobs : kr = KeysStart(job)

KeysNext ==
    \/ \E c \in KeyProcs :
         \/ CheckNew(c) \/ WriteFirstKey(c) \/ WriteManifest(c) \/ MakeDirs(c)
         \/ ListKeys(c) \/ TryKey(c) \/ OpenManifest(c) \/ WriteAdded(c)
         \/ FindOwn(c) \/ SaveChanged(c) \/ DropOld(c)
         \/ FindId(c) \/ DeleteKey(c) \/ ExportKey(c) \/ KillKeyProc(c)
    \/ KeysRest

KeysSpec == KeysInit /\ [][KeysNext]_kr /\ WF_kr(KeysNext)

----------------------------------------------------------------------------
(* Properties.                                                               *)

(* Repository::init, run_add, run_password_change: every key file, in the    *)
(* repository or exported, leads to the master key of the manifest.  (Of a   *)
(* new repository only if one init wrote a key: one that was killed before   *)
(* it wrote the manifest leaves a key that opens nothing.)                   *)
KeysAgree ==
    (kr.fresh => kr.inits <= 1) /\ kr.manifest # 0 =>
      /\ \A id \in DOMAIN kr.keys : kr.keys[id].master = kr.manifest
      /\ \A key \in kr.files : key.master = kr.manifest

(* retrieve_master_key: whoever else adds, changes or removes keys meanwhile,*)
(* a user whose key is there all the time finds it.                          *)
OpenWorks ==
    \A c \in KeyProcs :
      KeyOp(c).op \in {"open", "add"} /\ PcOf(c) = "failed" /\ kr.inits = 0 => kr.through[c] = {}

(* run_password_change: stopped at any point, and run twice at the same      *)
(* time, it leaves the user a key of the repository.                         *)
UserKeepsKey ==
    kr.deletes = 0 =>
      \A c \in KeyProcs :
        KeyOp(c).op = "change" /\ DOMAIN kr.own[c] # {} =>
          \E id \in DOMAIN kr.keys : kr.keys[id].user = KeyOp(c).user

(* keys.rs, cmd_key.rs, Repository::init: whatever commands on keys overlap  *)
(* and wherever they are killed, every key leads to the master key of the    *)
(* manifest, a user whose key is there gets in, and none is left without one *)
(* by a change of password.                                                  *)
KeysUsable == KeysAgree /\ OpenWorks /\ UserKeepsKey
=============================================================================
