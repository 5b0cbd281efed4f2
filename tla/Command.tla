------------------------------ MODULE Command -------------------------------
(***************************************************************************)
(* A command from its arguments to its exit code (commands/mod.rs,         *)
(* common/hooks.rs and run of the five commands that have hooks): options  *)
(* merged with the configuration file, the credentials, the lock, the      *)
(* hooks around the work, and the order of its steps.  What the steps do   *)
(* to the repository is in the modules of the commands; here each of them  *)
(* succeeds or fails.                                                      *)
(*                                                                         *)
(* The value of an option is a sequence: <<>> if absent, <<v>> for an      *)
(* Option, the elements for a Vec.                                         *)
(***************************************************************************)
EXTENDS Naturals, Sequences, SequencesExt, FiniteSets

CONSTANTS
    CommandJobs,        \* [name, cli, config, env, dry, stdin, hooks, credentials, flags]
    MaxPasswordTries    \* MAX_PASSWORD_RETRIES

VARIABLE cd

Name == cd.job.name
At(stage) == cd.stage = stage
Is(name) == Name = name

-----------------------------------------------------------------------------
(* Options.  Which of them merge takes from the configuration, and how.      *)
GlobalKinds == [repo |-> "opt", noLock |-> "opt"]
SnapshotKinds == [paths |-> "vec", exclude |-> "append", skip |-> "opt"]
RestoreKinds == [target |-> "opt", exclude |-> "opt", delete |-> "opt"]
ForgetKinds == [forget |-> "vec", keep |-> "opt"]

(* merge_opt, the test for an empty Vec, and merge_option_vec.               *)
MergeOption(kind, left, right) ==
    CASE kind = "append" -> left \o right
      [] OTHER -> IF right # <<>> THEN right ELSE left

Merge(kinds, cli, section) ==
    IF section = <<>> THEN cli
    ELSE [o \in DOMAIN cli |-> IF o \in DOMAIN kinds THEN MergeOption(kinds[o], cli[o], section[1][o]) ELSE cli[o]]

KindsOf(name) ==
    CASE name = "snapshot" -> SnapshotKinds
      [] name = "restore" -> RestoreKinds
      [] name = "forget" -> ForgetKinds
      [] OTHER -> <<>>

(* resolve_global: the repository may also come from the environment.        *)
ResolveGlobal(job) ==
    LET g == Merge(GlobalKinds, job.cli.global, job.config.global)
    IN  [g EXCEPT !.repo = IF @ = <<>> THEN job.env ELSE @]

ResolveArgs(job) ==
    IF KindsOf(job.name) = <<>> THEN job.cli.args ELSE Merge(KindsOf(job.name), job.cli.args, job.config.args)

Flag(value) == value = <<TRUE>>

-----------------------------------------------------------------------------
(* Results: an error of the command's own type, as run returns it.           *)
ExitCode(name, result) ==
    CASE result = "ok" -> 0
      [] result = "interrupted" -> IF name = "clean" THEN 10 ELSE 130
      [] result = "repo" -> CASE name \in {"clean", "verify"} -> 10 [] OTHER -> 1
      [] result = "backend" -> CASE name \in {"snapshot", "clean"} -> 30 [] name = "verify" -> 22 [] OTHER -> 1
      [] result \in {"path", "notfound", "rule", "packs"} -> 20
      [] result \in {"parent", "target", "snapshots"} -> 21
      [] OTHER -> CASE name = "clean" -> 10 [] name = "verify" -> 22 [] OTHER -> 30

(* What ends inside the lock's scope, outside it, and before it.             *)
Inside(x, result) == [x EXCEPT !.stage = "unlock", !.result = result]
CommandOver(x, result) == [x EXCEPT !.stage = "ended", !.result = result, !.exit = ExitCode(x.job.name, result)]
Log(x, event) == [x EXCEPT !.log = Append(@, event)]

(* parse_and_run.                                                            *)
Configure ==
    /\ At("parse")
    /\ \E g \in {ResolveGlobal(cd.job)} :
         cd' = IF ~cd.job.config.ok \/ g.repo = <<>>
               THEN [cd EXCEPT !.stage = "ended", !.result = "usage", !.exit = 1]
               ELSE [cd EXCEPT !.stage = "preflight", !.global = g, !.args = ResolveArgs(cd.job)]

(* run of snapshot: sources are looked at before anything is opened, and a   *)
(* password cannot be asked for when stdin is one.                           *)
SourcesUsable ==
    IF cd.job.stdin THEN cd.job.credentials # "prompt"
    ELSE cd.args.paths # <<>> /\ "missing" \notin Range(cd.args.paths)
Preflight ==
    /\ At("preflight")
    /\ cd' = IF Is("snapshot") => SourcesUsable THEN [cd EXCEPT !.stage = "backend"] ELSE CommandOver(cd, "path")

OpenBackend == At("backend") /\ (cd' = [cd EXCEPT !.stage = "auth"] \/ cd' = CommandOver(cd, "backend"))

Retryable(outcome) == outcome = "wrong"

(* open_with_retry: credentials that were given are tried once, others are   *)
(* asked for; only wrong ones are asked for again.                           *)
RepoOpened == Log([cd EXCEPT !.stage = "resolve", !.tries = @ + 1, !.lock = IF Flag(cd.global.noLock) THEN "none" ELSE "held"],
              "opened")
OpenRepository ==
    /\ At("auth")
    /\ \/ cd' = RepoOpened
       \/ cd.job.credentials = "prompt" /\ cd' = [cd EXCEPT !.stage = "post", !.result = "repo"]
       \/ \E outcome \in {"wrong", "locked"} :
            LET tried == [cd EXCEPT !.tries = @ + 1, !.failed = Append(@, outcome)]
            IN  cd' = IF cd.job.credentials = "prompt" /\ Retryable(outcome) /\ tried.tries < MaxPasswordTries
                      THEN tried ELSE [tried EXCEPT !.stage = "post", !.result = "repo"]

(* What is looked up under the lock before the hook: the parent snapshot, or *)
(* the index, the snapshot and the target; forget has its handler already.   *)
Resolve ==
    /\ At("resolve")
    /\ \/ /\ Is("restore") => cd.args.target # <<>>
          /\ cd' = [cd EXCEPT !.stage = "pre", !.handler = IF Is("forget") THEN "on" ELSE @]
       \/ Is("snapshot") /\ ~cd.job.stdin /\ cd' = Inside(cd, "parent")
       \/ Is("restore") /\ \E e \in {"repo", "notfound"} : cd' = Inside(cd, e)
       \/ Is("restore") /\ cd.args.target = <<>> /\ cd' = Inside(cd, "target")

-----------------------------------------------------------------------------
(* Hooks.  One of the command line goes before the configured one, unless    *)
(* empty, and has no timeout.                                                *)
HookOf(hook) ==
    IF hook.cli \notin {<<>>, <<"">>} THEN [run |-> TRUE, timeout |-> FALSE]
    ELSE [run |-> hook.toml \notin {<<>>, <<"">>}, timeout |-> hook.timeout]
Hooked(hook) == ~cd.job.dry /\ HookOf(hook).run

(* run_hook: it cannot be started, fails or succeeds; with a timeout it may  *)
(* be killed, and is waited for.                                             *)
HookEnds(hook) == {"ok", "failed"} \union (IF HookOf(hook).timeout THEN {"killed"} ELSE {})

(* run_command_pre.                                                          *)
PreHook ==
    /\ At("pre")
    /\ \/ ~Hooked(cd.job.hooks.pre) /\ cd' = [cd EXCEPT !.stage = "work"]
       \/ /\ Hooked(cd.job.hooks.pre)
          /\ \E end \in HookEnds(cd.job.hooks.pre) :
               cd' = IF end = "ok" THEN [Log(cd, "pre ok") EXCEPT !.stage = "work"]
                     ELSE Inside(Log(cd, "pre " \o end), "repo")

(* with_repository_lock, once the closure is done.                           *)
Unlock ==
    /\ At("unlock")
    /\ cd' = [Log(cd, "unlock") EXCEPT !.stage = "post", !.lock = IF @ = "held" THEN "free" ELSE @]

(* run_command_post: its outcome is only logged.                             *)
PostHook ==
    /\ At("post")
    /\ \/ ~Hooked(cd.job.hooks.post) /\ cd' = CommandOver(cd, cd.result)
       \/ /\ Hooked(cd.job.hooks.post)
          /\ \E end \in HookEnds(cd.job.hooks.post) : cd' = CommandOver(Log(cd, "post " \o end), cd.result)

-----------------------------------------------------------------------------
(* The work.  A step that failed after an interrupt is an interrupted one.   *)
Failed(x, result) == Inside(x, IF x.signal THEN "interrupted" ELSE result)
Does(x, effect, stage) == [Log(x, effect) EXCEPT !.effects = @ \union {effect}, !.stage = stage]
Ends(x, effect) == Inside(Does(x, effect, "unlock"), "ok")
Handling(x, stage) == [x EXCEPT !.stage = stage, !.handler = "on"]

(* run_with_repo of snapshot: the index and the sources, the pack saver, the *)
(* archiver, the flush.                                                      *)
SnapshotPrepare ==
    /\ At("work") /\ Is("snapshot")
    /\ \/ cd' = Handling(Log(cd, "index"), "archive")
       \/ cd' = Inside(Handling(Log(cd, "index"), "archive"), "failed")
       \/ \E e \in {"repo", "path"} : cd' = Inside(cd, e)
SnapshotArchive == At("archive") /\ \E ok \in BOOLEAN : cd' = [Log(cd, "archive") EXCEPT !.stage = "flush", !.archived = ok]

(* Mutant of SnapshotFlush: the archiver's result is not looked at.          *)
SnapshotFlushOnly ==
    /\ At("flush")
    /\ \/ cd' = Inside(cd, "failed")
       \/ cd' = Does(cd, "flushed", "save")

SnapshotFlush ==
    /\ At("flush")
    /\ \/ cd' = Inside(cd, "failed")
       \/ cd.archived /\ cd' = Does(cd, "flushed", "save")
       \/ ~cd.archived /\ cd' = Failed(Does(cd, "flushed", "save"), "failed")

(* Whether the tree is the parent's is for the archiver to say.              *)
SnapshotSave ==
    /\ At("save")
    /\ \E same \in BOOLEAN :
         IF Flag(cd.args.skip) /\ same THEN cd' = Ends(cd, "skipped")
         ELSE cd' = Ends(cd, "saved") \/ cd' = Inside(cd, "repo")

(* run_with_repo of restore: the filters and the target, the files, then     *)
(* what to delete.                                                           *)
RestoreFilters ==
    /\ At("work") /\ Is("restore")
    /\ \/ \E e \in {"repo", "target"} : cd' = Inside(cd, e)
       \/ cd' = Handling(cd, "restore")

RestoreSnapshot ==
    /\ At("restore")
    /\ \/ cd' = Failed(cd, "failed")
       \/ cd' = IF Flag(cd.args.delete) THEN Does(cd, "restored", "delete") ELSE Ends(cd, "restored")
RestoreDelete ==
    /\ At("delete")
    /\ cd' = Failed(cd, "failed") \/ cd' = Ends(cd, "deleted")

(* forget_phase looks for an interrupt when all is done; its handler is then *)
(* dropped, and clean has one of its own.                                    *)
ForgetPhase ==
    /\ At("work") /\ Is("forget")
    /\ \/ \E e \in {"rule", "repo", "failed"} : cd' = Inside(cd, e)
       \/ cd.signal /\ cd' = Inside(Does(cd, "forgotten", "unlock"), "interrupted")
       \/ /\ ~cd.signal
          /\ cd' = IF cd.job.gc THEN [Does(cd, "forgotten", "gc") EXCEPT !.handler = "dropped"] ELSE Ends(cd, "forgotten")

(* run_with_repo of clean, also for forget, which only sees a failure.       *)
GcFailed == IF Is("forget") THEN Inside(cd, "failed") ELSE Failed(cd, "failed")
CleanPrepare ==
    /\ At("gc") \/ (At("work") /\ Is("clean"))
    /\ cd' = Inside(cd, "failed") \/ cd' = Handling(cd, "scan")
CleanScan ==
    /\ At("scan")
    /\ cd' = GcFailed \/ cd' = IF cd.job.dry THEN Ends(cd, "collected") ELSE [cd EXCEPT !.stage = "execute"]
CleanExecute ==
    /\ At("execute")
    /\ cd' = GcFailed \/ cd' = Ends(cd, "collected")

(* run_with_repo of verify: interrupted, it stops early and reports what it  *)
(* has found so far.                                                         *)
VerifyPrepare ==
    /\ At("work") /\ Is("verify")
    /\ cd' = Handling(cd, "verify")
VerifyRepository ==
    /\ At("verify")
    /\ \/ \E e \in {"packs", "snapshots", "failed"} : cd' = Inside(cd, e)
       \/ cd' = Ends(cd, "verified")
       \/ cd.signal /\ cd' = Inside(cd, "ok")

-----------------------------------------------------------------------------
(* CleanupHandler.  An interrupt is noted and the lock given back; before    *)
(* there was a handler it ends the process, and the lock stays until it is   *)
(* stale; once one was dropped nobody hears it.                              *)
Interrupt ==
    /\ cd.handler = "on" /\ ~cd.signal /\ cd.stage \notin {"unlock", "post", "ended"}
    /\ cd' = [cd EXCEPT !.signal = TRUE, !.lock = IF @ = "held" THEN "free" ELSE @]
KillCommand ==
    /\ cd.handler = "none" /\ cd.stage \in {"resolve", "pre", "work"}
    /\ cd' = [cd EXCEPT !.stage = "killed"]

CommandRests == cd.stage \in {"ended", "killed"} /\ UNCHANGED cd

CommandNext ==
    \/ Configure \/ Preflight \/ OpenBackend \/ OpenRepository \/ Resolve \/ PreHook
    \/ SnapshotPrepare \/ SnapshotArchive \/ SnapshotFlush \/ SnapshotSave
    \/ RestoreFilters \/ RestoreSnapshot \/ RestoreDelete \/ ForgetPhase \/ CleanPrepare \/ CleanScan \/ CleanExecute
    \/ VerifyPrepare \/ VerifyRepository
    \/ Unlock \/ PostHook \/ Interrupt \/ KillCommand \/ CommandRests

CommandStart(job) ==
    [job |-> job, stage |-> "parse", global |-> job.cli.global, args |-> job.cli.args, tries |-> 0, failed |-> <<>>,
     lock |-> "none", log |-> <<>>, effects |-> {}, archived |-> FALSE, handler |-> "none", signal |-> FALSE,
     result |-> "none", exit |-> 0]
CommandInit == \E job \in CommandJobs : cd = CommandStart(job)
CommandSpec == CommandInit /\ [][CommandNext]_cd

-----------------------------------------------------------------------------
Works == {"index", "archive", "flushed", "saved", "skipped", "restored", "deleted", "forgotten", "collected", "verified"}
PreEnds == {"pre ok", "pre failed", "pre killed"}
PostEnds == {"post ok", "post failed", "post killed"}

(* Hooks (common/hooks.rs): nothing is done before the pre-hook succeeded    *)
(* and nothing if it failed or was killed; the post-hook comes once, after   *)
(* the lock was given back; neither runs in a dry run.                       *)
HooksBracket ==
    /\ \A i \in DOMAIN cd.log :
         /\ cd.log[i] \in Works /\ Hooked(cd.job.hooks.pre) => \E j \in 1 .. i : cd.log[j] = "pre ok"
         /\ cd.log[i] \in PostEnds => i = Len(cd.log) /\ cd.stage = "ended" /\ cd.lock # "held"
         /\ cd.log[i] \in PreEnds \union PostEnds => ~cd.job.dry
    /\ cd.stage = "ended" /\ cd.tries > 0 /\ Hooked(cd.job.hooks.post) => cd.log # <<>> /\ Last(cd.log) \in PostEnds

(* The lock is given back however the command ends (with_repository_lock);   *)
(* only a process that is killed leaves it.                                  *)
LockReturned == cd.stage = "ended" => cd.lock # "held"

(* Exit code 0 says that all of the work was done, and any other that it was *)
(* not or that there was an interrupt, whatever the post-hook did (run and   *)
(* to_exit_code of the commands).  verify is the exception: interrupted, it  *)
(* may report success for the part it looked at.                             *)
WorkDone ==
    CASE Is("snapshot") -> cd.effects \intersect {"saved", "skipped"} # {}
      [] Is("restore") -> "restored" \in cd.effects /\ (Flag(cd.args.delete) => "deleted" \in cd.effects)
      [] Is("forget") -> "forgotten" \in cd.effects /\ (cd.job.gc => "collected" \in cd.effects)
      [] Is("clean") -> "collected" \in cd.effects
      [] OTHER -> "verified" \in cd.effects
ExitTruthful ==
    /\ cd.stage = "ended" /\ cd.exit = 0 => WorkDone \/ (Is("verify") /\ cd.signal)
    /\ cd.stage = "ended" /\ cd.exit # 0 => ~WorkDone \/ cd.signal
    /\ "saved" \in cd.effects => cd.archived

(* Files are deleted from the target only after all were restored, and       *)
(* garbage collected only after the snapshots were forgotten.                *)
DestroysLast ==
    /\ "deleted" \in cd.effects => "restored" \in cd.effects
    /\ Is("forget") /\ "collected" \in cd.effects => "forgotten" \in cd.effects
    /\ cd.stage = "delete" => "restored" \in cd.effects

(* Credentials that were given are tried once, others at most three times,   *)
(* and a failure that is not theirs is final (open_with_retry).              *)
TriesBounded ==
    /\ cd.tries <= (IF cd.job.credentials = "prompt" THEN MaxPasswordTries ELSE 1)
    /\ \A i \in DOMAIN cd.failed : cd.failed[i] = "locked" => i = Len(cd.failed) /\ cd.tries = i

(* An option given in one place has the value it was given there, and        *)
(* "Config file values supplement CLI lists" (doc/manual.md:320).            *)
ConfigFills ==
    cd.stage \notin {"parse", "ended"} /\ cd.job.config.args # <<>> /\ KindsOf(Name) # <<>> =>
      \A o \in DOMAIN KindsOf(Name) :
        LET c == cd.job.cli.args[o]
            f == cd.job.config.args[1][o]
        IN  /\ f = <<>> => cd.args[o] = c
            /\ c = <<>> => cd.args[o] = f
            /\ Is("snapshot") /\ o = "exclude" => Range(c) \union Range(f) = Range(cd.args[o])

(* commands/mod.rs, hooks.rs, the run functions: whatever fails and whenever *)
(* a signal comes, the lock is given back, hooks run around the work and not *)
(* without it, the exit code tells whether the work was done, destructive    *)
(* steps come last, credentials are tried a bounded number of times, and     *)
(* options have the values they were given.                                  *)
CommandHonest ==
    /\ LockReturned
    /\ HooksBracket
    /\ ExitTruthful
    /\ DestroysLast
    /\ TriesBounded
    /\ ConfigFills
=============================================================================
