--------------------------- MODULE SharingProofs ----------------------------
(***************************************************************************)
(* Proofs about Cache and Connections: what the tasks of one process share *)
(* (the download queue and cached files; the pool of SFTP connections),    *)
(* for any number of tasks and connections.                                *)
(***************************************************************************)
EXTENDS Cache, Connections, TLAPS

-----------------------------------------------------------------------------
(* The cache.                                                                *)

(* Where the task stands that downloads the file.                            *)
Fetching == {"claimed", "fetch", "store", "stored", "failed"}

(* The places where a task with an operation can be.                         *)
CacheWhere(op) ==
    CASE op = "read" -> Fetching \cup {"idle", "read", "check", "unlocked", "waiting", "again", "data", "error"}
      [] op = "read_through" -> {"idle", "read_through", "data", "error"}
      [] op = "write" -> {"idle", "write", "write_copy", "ok", "error"}
      [] op = "write_through" -> {"idle", "write", "ok", "error"}
      [] op = "rename" -> {"idle", "rename", "rename_file", "ok", "error"}
      [] op = "remove" -> {"idle", "check", "unlocked", "waiting", "uncache", "unlink", "ok", "error"}

CacheOps == {"read", "read_through", "write", "write_through", "rename", "remove"}
CachePCs ==
    {"idle", "read", "check", "unlocked", "waiting", "claimed", "fetch", "store", "stored", "failed", "again",
     "read_through", "write", "write_copy", "rename", "rename_file", "uncache", "unlink", "data", "ok", "error"}

CacheRec(D) ==
    [op : [D -> CacheOps], client : [D -> CachePCs],
     faults : BOOLEAN, remote : BOOLEAN, cached : BOOLEAN,
     queue : {"none", "downloading", "failed"}, fetches : Nat, missed : SUBSET D,
     raced : BOOLEAN, kept : BOOLEAN]

CacheTypeInv ==
    /\ cs \in CacheRec(CacheTasks)
    /\ \A c \in CacheTasks : cs.client[c] \in CacheWhere(cs.op[c])

(* One task at most downloads the file, and the queue says so.               *)
FetchInv ==
    /\ \A c \in CacheTasks : cs.client[c] \in Fetching => cs.queue = "downloading"
    /\ \A c, d \in CacheTasks : cs.client[c] \in Fetching /\ cs.client[d] \in Fetching => c = d

(* What has been downloaded is stored or about to be.                        *)
OnceInv ==
    ~cs.faults /\ (\A c \in CacheTasks : CacheRemoves(c) => CacheAt(c, "idle")) =>
      /\ cs.fetches <= 1
      /\ cs.fetches = 1 => cs.cached \/ \E c \in CacheTasks : CacheAt(c, "store")
      /\ \A c \in CacheTasks : CacheAt(c, "fetch") => cs.fetches = 0

(* While tasks that store the copy and tasks that remove the file do not     *)
(* meet, copies are made of a file that exists; and if rename did not pass   *)
(* over an error, whoever removes the file has removed the copy.             *)
RemoveInv ==
    ~cs.raced =>
      /\ \A c, d \in CacheTasks : ~(cs.client[c] \in CacheStoring /\ cs.client[d] \in CacheRemoving)
      /\ \A c \in CacheTasks : cs.client[c] \in {"store", "write_copy"} => cs.remote
      /\ ~cs.kept =>
           /\ \A c \in CacheTasks : cs.client[c] \in {"rename_file", "unlink"} => ~cs.cached
           /\ RemovedFromCache

CacheInv == CacheTypeInv /\ FetchInv /\ OnceInv /\ RemoveInv

(* What every step of a task leaves alone.                                   *)
CacheFrame(c) ==
    /\ cs' \in CacheRec(CacheTasks) /\ CacheTasks' = CacheTasks
    /\ cs'.op = cs.op /\ cs'.faults = cs.faults
    /\ \A d \in CacheTasks :
         d # c => \/ cs'.client[d] = cs.client[d]
                  \/ cs.client[d] = "waiting" /\ cs'.client[d] = "check"

(* What is the same in two states but for the tasks.                         *)
CacheSame(x, y) ==
    /\ y.op = x.op /\ y.faults = x.faults /\ y.remote = x.remote /\ y.cached = x.cached
    /\ y.queue = x.queue /\ y.fetches = x.fetches /\ y.raced = x.raced /\ y.kept = x.kept

(* The fields of a state after CacheGoto.                                    *)
LEMMA GotoFields ==
    ASSUME NEW D, NEW x \in CacheRec(D), NEW c \in D, NEW to \in CachePCs
    PROVE  /\ CacheGoto(x, c, to) \in CacheRec(D)
           /\ CacheSame(x, CacheGoto(x, c, to))
           /\ CacheGoto(x, c, to).client[c] = to
           /\ \A d \in D : d # c => CacheGoto(x, c, to).client[d] = x.client[d]
<1>1. [x.client EXCEPT ![c] = to] \in [D -> CachePCs]
  BY DEF CacheRec
<1>2. CacheGoto(x, c, to) = [x EXCEPT !.client = [x.client EXCEPT ![c] = to]]
  BY DEF CacheGoto
<1>3. QED
  BY <1>1, <1>2 DEF CacheRec, CacheSame

(* The fields of a state after CacheRace.                                    *)
LEMMA RaceFields ==
    ASSUME NEW D, NEW x \in CacheRec(D), NEW places
    PROVE  /\ CacheRace(x, places) \in CacheRec(D)
           /\ CacheRace(x, places).op = x.op /\ CacheRace(x, places).client = x.client
           /\ CacheRace(x, places).faults = x.faults /\ CacheRace(x, places).remote = x.remote
           /\ CacheRace(x, places).cached = x.cached /\ CacheRace(x, places).queue = x.queue
           /\ CacheRace(x, places).fetches = x.fetches /\ CacheRace(x, places).kept = x.kept
           /\ x.raced => CacheRace(x, places).raced
           /\ ~CacheRace(x, places).raced => \A d \in D : x.client[d] \notin places
<1> DEFINE meets == \E d \in DOMAIN x.client : x.client[d] \in places
           y == [x EXCEPT !.raced = x.raced \/ meets]
<1>1. (x.raced \/ meets) \in BOOLEAN
  OBVIOUS
<1>2. DOMAIN x.client = D
  BY DEF CacheRec
<1>3. CacheRace(x, places) = y
  BY DEF CacheRace
<1> HIDE DEF meets
<1>4. /\ y \in CacheRec(D) /\ y.raced = (x.raced \/ meets) /\ y.op = x.op /\ y.client = x.client
      /\ y.faults = x.faults /\ y.remote = x.remote /\ y.cached = x.cached /\ y.queue = x.queue
      /\ y.fetches = x.fetches /\ y.kept = x.kept
  BY Zenon, <1>1 DEF CacheRec
<1> HIDE DEF y
<1>5. ~y.raced => \A d \in D : x.client[d] \notin places
  BY Zenon, <1>2, <1>4 DEF meets
<1>6. QED
  BY Zenon, <1>3, <1>4, <1>5

(* The tasks after notify_waiters, and those that miss it.                   *)
Woken(D, x) == [d \in D |-> IF x.client[d] = "waiting" THEN "check" ELSE x.client[d]]
Late(D, x) == x.missed \union {d \in D : x.client[d] = "unlocked"}

(* The fields of a state after notify_waiters.                               *)
LEMMA WakeFields ==
    ASSUME NEW D, NEW x \in CacheRec(D)
    PROVE  /\ CacheWake(x) \in CacheRec(D)
           /\ CacheSame(x, CacheWake(x))
           /\ CacheWake(x).client = Woken(D, x)
<1>1. DOMAIN x.client = D
  BY DEF CacheRec
<1>2. CacheWake(x) = [x EXCEPT !.client = Woken(D, x), !.missed = Late(D, x)]
  BY <1>1 DEF CacheWake, Woken, Late
<1>3. Woken(D, x) \in [D -> CachePCs]
  <2>1. "check" \in CachePCs
    BY DEF CachePCs
  <2>2. QED
    BY <2>1 DEF CacheRec, Woken
<1>4. Late(D, x) \in SUBSET D
  BY DEF CacheRec, Late
<1>5. QED
  BY Zenon, <1>2, <1>3, <1>4 DEF CacheRec, CacheSame

(* What a step does that takes c to another place in a state x that differs  *)
(* from the current one only outside the tasks, with or without waking the   *)
(* tasks that wait.                                                          *)
LEMMA CacheMoves ==
    ASSUME CacheTypeInv, NEW c \in CacheTasks, NEW to \in CachePCs,
           NEW x \in CacheRec(CacheTasks), x.op = cs.op, x.client = cs.client, x.faults = cs.faults,
           cs' = CacheGoto(x, c, to) \/ (to # "waiting" /\ cs' = CacheWake(CacheGoto(x, c, to)))
    PROVE  /\ CacheFrame(c) /\ cs'.client[c] = to
           /\ cs'.remote = x.remote /\ cs'.cached = x.cached /\ cs'.queue = x.queue
           /\ cs'.fetches = x.fetches /\ cs'.raced = x.raced /\ cs'.kept = x.kept
<1> DEFINE D == CacheTasks
           y == CacheGoto(x, c, to)
<1>1. /\ y \in CacheRec(D) /\ CacheSame(x, y)
      /\ y.client[c] = to /\ \A d \in D : d # c => y.client[d] = x.client[d]
  BY GotoFields
<1> HIDE DEF y
<1>2. y.client \in [D -> CachePCs]
  BY <1>1 DEF CacheRec
<1>3. CASE cs' = y
  <2>1. CacheTasks' = CacheTasks
    BY <1>2, <1>3 DEF CacheTasks
  <2>2. QED
    BY <1>1, <1>3, <2>1 DEF CacheFrame, CacheSame
<1>4. CASE to # "waiting" /\ cs' = CacheWake(y)
  <2>1. cs' \in CacheRec(D) /\ CacheSame(y, cs') /\ cs'.client = Woken(D, y)
    BY <1>1, <1>4, WakeFields
  <2>2. \A d \in D : Woken(D, y)[d] = IF y.client[d] = "waiting" THEN "check" ELSE y.client[d]
    BY DEF Woken
  <2>3. DOMAIN Woken(D, y) = D
    BY DEF Woken
  <2>4. CacheTasks' = CacheTasks
    BY <2>1, <2>3 DEF CacheTasks
  <2>5. QED
    BY <1>1, <1>4, <2>1, <2>2, <2>4 DEF CacheFrame, CacheSame
<1>5. QED
  BY <1>3, <1>4 DEF y

(* What a step of a task never does: leave the places of its operation, ...  *)
PlaceRule(c) ==
    /\ cs.client[c] \notin CacheEnded
    /\ cs'.client[c] \in CacheWhere(cs.op[c]) /\ cs'.client[c] # "idle"

(* ... enter or leave a download without saying so in the queue, ...         *)
QueueRule(c) ==
    \/ cs.client[c] \notin Fetching /\ cs'.client[c] \notin Fetching /\ cs'.queue = cs.queue
    \/ cs.client[c] \in Fetching /\ cs'.client[c] \in Fetching /\ cs'.queue = cs.queue
    \/ cs.client[c] \in Fetching /\ cs'.client[c] \notin Fetching
    \/ cs.client[c] \notin Fetching /\ cs.queue # "downloading"
       /\ (cs'.client[c] \in Fetching => cs'.queue = "downloading")

(* ... download what is there, or lose what was downloaded, ...              *)
FetchRule(c) ==
    /\ \/ cs.client[c] = "fetch" /\ cs'.client[c] = "store" /\ cs'.fetches = cs.fetches + 1
       \/ cs'.fetches = cs.fetches
    /\ cs'.client[c] = "fetch" => cs.client[c] = "claimed" /\ ~cs.cached
    /\ cs.client[c] = "store" /\ ~cs.faults => cs'.cached
    /\ cs.cached /\ ~cs'.cached => CacheRemoves(c) /\ cs.client[c] # "idle"

(* No task is about to remove the file, or about to store its copy.          *)
NoneRemoving == \A d \in CacheTasks : cs.client[d] \notin CacheRemoving
NoneStoring ==
    \A d \in CacheTasks : cs.client[d] \in CacheStoring => cs.client[d] \in Fetching /\ cs.queue # "downloading"

(* ... or copy or remove the file anywhere else than where it should.        *)
CopyRule(c) ==
    /\ cs.raced => cs'.raced
    /\ cs.kept => cs'.kept
    /\ cs'.client[c] \in CacheStoring /\ ~cs'.raced => cs.client[c] \in CacheStoring \/ NoneRemoving
    /\ cs'.client[c] \in CacheRemoving /\ ~cs'.raced => cs.client[c] \in CacheRemoving \/ NoneStoring
    /\ cs.remote /\ ~cs'.remote => cs.client[c] \in {"rename_file", "unlink"}
    /\ ~cs.cached /\ cs'.cached => cs.client[c] \in {"store", "write_copy"} /\ cs'.remote = cs.remote
    /\ cs'.client[c] \in {"store", "write_copy"} => cs'.remote
    /\ cs'.client[c] \in {"rename_file", "unlink"} /\ ~cs'.kept => ~cs'.cached
    /\ cs'.client[c] = "ok" /\ CacheRemoves(c) =>
         cs.client[c] \in {"rename_file", "unlink"} /\ cs'.cached = cs.cached

CacheRules(c) == CacheFrame(c) /\ PlaceRule(c) /\ QueueRule(c) /\ FetchRule(c) /\ CopyRule(c)

(* Where a task stands tells what its operation is.                          *)
LEMMA PlaceOp ==
    ASSUME NEW op \in CacheOps, NEW at \in CacheWhere(op)
    PROVE  /\ at \in Fetching \cup {"read", "again"} => op = "read"
           /\ at = "read_through" => op = "read_through"
           /\ at \in {"check", "unlocked", "waiting"} => op \in {"read", "remove"}
           /\ at = "write" => op \in {"write", "write_through"}
           /\ at = "write_copy" => op = "write"
           /\ at \in {"rename", "rename_file"} => op = "rename"
           /\ at \in {"uncache", "unlink"} => op = "remove"
BY DEF CacheOps, CacheWhere, Fetching

(* Every step of a task keeps the rules.                                     *)
LEMMA CacheStepRules ==
    ASSUME CacheTypeInv, NEW c \in CacheTasks, CacheStep(c)
    PROVE  CacheRules(c)
<1> DEFINE D == CacheTasks
           op == cs.op[c]
           at == cs.client[c]
<1>1. /\ cs \in CacheRec(D) /\ op \in CacheOps /\ at \in CacheWhere(op)
      /\ cs.cached \in BOOLEAN /\ cs.remote \in BOOLEAN /\ cs.raced \in BOOLEAN /\ cs.kept \in BOOLEAN
      /\ cs.faults \in BOOLEAN
  BY DEF CacheTypeInv, CacheRec
<1>2. /\ at \in Fetching \cup {"read", "again"} => op = "read"
      /\ at = "read_through" => op = "read_through"
      /\ at \in {"check", "unlocked", "waiting"} => op \in {"read", "remove"}
      /\ at = "write" => op \in {"write", "write_through"}
      /\ at = "write_copy" => op = "write"
      /\ at \in {"rename", "rename_file"} => op = "rename"
      /\ at \in {"uncache", "unlink"} => op = "remove"
  BY <1>1, PlaceOp
<1>3. CASE CacheHit(c)
  <2>1. PICK to \in {"data", "check"} : cs' = CacheGoto(cs, c, to) /\ at = "read"
    BY <1>3 DEF CacheHit, CacheAt
  <2>2. /\ CacheFrame(c) /\ cs'.client[c] = to
        /\ cs'.remote = cs.remote /\ cs'.cached = cs.cached /\ cs'.queue = cs.queue /\ cs'.fetches = cs.fetches /\ cs'.raced = cs.raced /\ cs'.kept = cs.kept
    BY <1>1, <2>1, CacheMoves DEF CachePCs
  <2>3. to \in CacheWhere(op)
    BY <1>2, <2>1 DEF CacheWhere, Fetching
  <2>4. QED
    BY <1>1, <1>2, <2>1, <2>2, <2>3 DEF CacheRules, PlaceRule, QueueRule, FetchRule, CopyRule, CacheRemoves,
          Fetching, CacheEnded, CacheStoring, CacheRemoving
<1>4. CASE ReadThrough(c)
  <2>1. PICK to \in {"data", "error"} : cs' = CacheGoto(cs, c, to) /\ at = "read_through"
    BY <1>4 DEF ReadThrough, CacheAt
  <2>2. /\ CacheFrame(c) /\ cs'.client[c] = to
        /\ cs'.remote = cs.remote /\ cs'.cached = cs.cached /\ cs'.queue = cs.queue /\ cs'.fetches = cs.fetches /\ cs'.raced = cs.raced /\ cs'.kept = cs.kept
    BY <1>1, <2>1, CacheMoves DEF CachePCs
  <2>3. to \in CacheWhere(op)
    BY <1>2, <2>1 DEF CacheWhere, Fetching
  <2>4. QED
    BY <1>1, <1>2, <2>1, <2>2, <2>3 DEF CacheRules, PlaceRule, QueueRule, FetchRule, CopyRule, CacheRemoves,
          Fetching, CacheEnded, CacheStoring, CacheRemoving
<1>5. CASE ClaimFetch(c)
  <2>1. at = "check"
    BY <1>5 DEF ClaimFetch, CacheAt
  <2>2. CASE cs.queue = "downloading" /\ cs' = CacheGoto(cs, c, "unlocked")
    <3>1. /\ CacheFrame(c) /\ cs'.client[c] = "unlocked"
          /\ cs'.remote = cs.remote /\ cs'.cached = cs.cached /\ cs'.queue = cs.queue /\ cs'.fetches = cs.fetches /\ cs'.raced = cs.raced /\ cs'.kept = cs.kept
      BY <1>1, <2>2, CacheMoves DEF CachePCs
    <3>2. "unlocked" \in CacheWhere(op)
      BY <1>2, <2>1, <2>2 DEF CacheWhere, Fetching
    <3>3. QED
      BY SMTT(40), <1>1, <1>2, <2>1, <2>2, <3>1, <3>2 DEF CacheRules, PlaceRule, QueueRule, FetchRule, CopyRule, CacheRemoves,
          Fetching, CacheEnded, CacheStoring, CacheRemoving
  <2>3. CASE cs.queue # "downloading" /\ op = "remove" /\ cs' = CacheGoto(CacheRace([cs EXCEPT !.queue = "none"], {"write_copy"}), c, "uncache")
    <3> DEFINE w == [cs EXCEPT !.queue = "none"]
               x == CacheRace(w, {"write_copy"})
    <3>1. /\ w \in CacheRec(D) /\ w.op = cs.op /\ w.client = cs.client /\ w.faults = cs.faults
          /\ w.queue = "none" /\ w.kept = cs.kept /\ w.remote = cs.remote /\ w.cached = cs.cached /\ w.fetches = cs.fetches /\ w.raced = cs.raced
      BY Zenon, <1>1 DEF CacheRec
    <3> HIDE DEF w
    <3>2. /\ x \in CacheRec(D) /\ x.op = cs.op /\ x.client = cs.client /\ x.faults = cs.faults
          /\ x.queue = "none" /\ x.kept = cs.kept /\ x.remote = cs.remote /\ x.cached = cs.cached /\ x.fetches = cs.fetches
          /\ cs.raced => x.raced
          /\ ~x.raced => \A d \in D : cs.client[d] \notin {"write_copy"}
      <4>1. /\ x \in CacheRec(D) /\ x.op = w.op /\ x.client = w.client /\ x.faults = w.faults
            /\ x.remote = w.remote /\ x.cached = w.cached /\ x.queue = w.queue
            /\ x.fetches = w.fetches /\ x.kept = w.kept
            /\ w.raced => x.raced
            /\ ~x.raced => \A d \in D : w.client[d] \notin {"write_copy"}
        BY <3>1, RaceFields
      <4> HIDE DEF x
      <4>2. QED
        BY <3>1, <4>1
    <3> HIDE DEF x
    <3>3. cs' = CacheGoto(x, c, "uncache")
      BY <2>3 DEF w, x
    <3>4. /\ CacheFrame(c) /\ cs'.client[c] = "uncache" /\ cs'.raced = x.raced
          /\ cs'.queue = "none" /\ cs'.kept = cs.kept /\ cs'.remote = cs.remote /\ cs'.cached = cs.cached /\ cs'.fetches = cs.fetches
      BY <3>2, <3>3, CacheMoves DEF CachePCs
    <3>5. "uncache" \in CacheWhere(op)
      BY <1>2, <2>1, <2>3 DEF CacheWhere, Fetching
    <3>6. ~cs'.raced => NoneStoring
      BY <2>3, <3>2, <3>4 DEF NoneStoring, CacheStoring, Fetching
    <3>7. cs.raced => cs'.raced
      BY <3>2, <3>4
    <3>8. QED
      BY SMTT(40), <1>1, <1>2, <2>1, <2>3, <3>4, <3>5, <3>6, <3>7 DEF CacheRules, PlaceRule, QueueRule, FetchRule, CopyRule, CacheRemoves,
          Fetching, CacheEnded, CacheStoring, CacheRemoving
  <2>4. CASE cs.queue # "downloading" /\ op # "remove" /\ cs' = CacheGoto(CacheRace([cs EXCEPT !.queue = "downloading"], CacheRemoving), c, "claimed")
    <3> DEFINE w == [cs EXCEPT !.queue = "downloading"]
               x == CacheRace(w, CacheRemoving)
    <3>1. /\ w \in CacheRec(D) /\ w.op = cs.op /\ w.client = cs.client /\ w.faults = cs.faults
          /\ w.queue = "downloading" /\ w.kept = cs.kept /\ w.remote = cs.remote /\ w.cached = cs.cached /\ w.fetches = cs.fetches /\ w.raced = cs.raced
      BY Zenon, <1>1 DEF CacheRec
    <3> HIDE DEF w
    <3>2. /\ x \in CacheRec(D) /\ x.op = cs.op /\ x.client = cs.client /\ x.faults = cs.faults
          /\ x.queue = "downloading" /\ x.kept = cs.kept /\ x.remote = cs.remote /\ x.cached = cs.cached /\ x.fetches = cs.fetches
          /\ cs.raced => x.raced
          /\ ~x.raced => \A d \in D : cs.client[d] \notin CacheRemoving
      <4>1. /\ x \in CacheRec(D) /\ x.op = w.op /\ x.client = w.client /\ x.faults = w.faults
            /\ x.remote = w.remote /\ x.cached = w.cached /\ x.queue = w.queue
            /\ x.fetches = w.fetches /\ x.kept = w.kept
            /\ w.raced => x.raced
            /\ ~x.raced => \A d \in D : w.client[d] \notin CacheRemoving
        BY <3>1, RaceFields
      <4> HIDE DEF x
      <4>2. QED
        BY <3>1, <4>1
    <3> HIDE DEF x
    <3>3. cs' = CacheGoto(x, c, "claimed")
      BY <2>4 DEF w, x
    <3>4. /\ CacheFrame(c) /\ cs'.client[c] = "claimed" /\ cs'.raced = x.raced
          /\ cs'.queue = "downloading" /\ cs'.kept = cs.kept /\ cs'.remote = cs.remote /\ cs'.cached = cs.cached /\ cs'.fetches = cs.fetches
      BY <3>2, <3>3, CacheMoves DEF CachePCs
    <3>5. "claimed" \in CacheWhere(op)
      BY <1>2, <2>1, <2>4 DEF CacheWhere, Fetching
    <3>6. ~cs'.raced => NoneRemoving
      BY <3>2, <3>4 DEF NoneRemoving
    <3>7. cs.raced => cs'.raced
      BY <3>2, <3>4
    <3>8. QED
      BY SMTT(40), <1>1, <1>2, <2>1, <2>4, <3>4, <3>5, <3>6, <3>7 DEF CacheRules, PlaceRule, QueueRule, FetchRule, CopyRule, CacheRemoves,
          Fetching, CacheEnded, CacheStoring, CacheRemoving
  <2>5. QED
    BY <1>5, <2>1, <2>2, <2>3, <2>4 DEF ClaimFetch, CacheAt
<1>6. CASE ListenFetch(c)
  <2>1. PICK to \in {"waiting"} : cs' = CacheGoto(cs, c, to) /\ at = "unlocked"
    BY <1>6 DEF ListenFetch, CacheAt
  <2>2. /\ CacheFrame(c) /\ cs'.client[c] = to
        /\ cs'.remote = cs.remote /\ cs'.cached = cs.cached /\ cs'.queue = cs.queue /\ cs'.fetches = cs.fetches /\ cs'.raced = cs.raced /\ cs'.kept = cs.kept
    BY <1>1, <2>1, CacheMoves DEF CachePCs
  <2>3. to \in CacheWhere(op)
    BY <1>2, <2>1 DEF CacheWhere, Fetching
  <2>4. QED
    BY <1>1, <1>2, <2>1, <2>2, <2>3 DEF CacheRules, PlaceRule, QueueRule, FetchRule, CopyRule, CacheRemoves,
          Fetching, CacheEnded, CacheStoring, CacheRemoving
<1>7. CASE CheckAgain(c)
  <2>1. at = "claimed"
    BY <1>7 DEF CheckAgain, CacheAt
  <2>2. CASE ~cs.cached /\ cs' = CacheGoto(cs, c, "fetch")
    <3>1. /\ CacheFrame(c) /\ cs'.client[c] = "fetch"
          /\ cs'.remote = cs.remote /\ cs'.cached = cs.cached /\ cs'.queue = cs.queue /\ cs'.fetches = cs.fetches /\ cs'.raced = cs.raced /\ cs'.kept = cs.kept
      BY <1>1, <2>2, CacheMoves DEF CachePCs
    <3>2. "fetch" \in CacheWhere(op)
      BY <1>2, <2>1, <2>2 DEF CacheWhere, Fetching
    <3>3. QED
      BY SMTT(40), <1>1, <1>2, <2>1, <2>2, <3>1, <3>2 DEF CacheRules, PlaceRule, QueueRule, FetchRule, CopyRule, CacheRemoves,
          Fetching, CacheEnded, CacheStoring, CacheRemoving
  <2>3. CASE cs.cached /\ cs' = CacheWake(CacheGoto([cs EXCEPT !.queue = "none"], c, "again"))
    <3> DEFINE x == [cs EXCEPT !.queue = "none"]
    <3>1. /\ x \in CacheRec(D) /\ x.op = cs.op /\ x.client = cs.client /\ x.faults = cs.faults
          /\ x.queue = "none" /\ x.remote = cs.remote /\ x.cached = cs.cached /\ x.fetches = cs.fetches /\ x.raced = cs.raced /\ x.kept = cs.kept
      BY <1>1 DEF CacheRec
    <3> HIDE DEF x
    <3>2. cs' = CacheWake(CacheGoto(x, c, "again"))
      BY <2>3 DEF x
    <3>3. /\ CacheFrame(c) /\ cs'.client[c] = "again"
          /\ cs'.queue = "none" /\ cs'.remote = cs.remote /\ cs'.cached = cs.cached /\ cs'.fetches = cs.fetches /\ cs'.raced = cs.raced /\ cs'.kept = cs.kept
      BY <3>1, <3>2, CacheMoves DEF CachePCs
    <3>4. "again" \in CacheWhere(op)
      BY <1>2, <2>1, <2>3 DEF CacheWhere, Fetching
    <3>5. QED
      BY Zenon, <1>1, <1>2, <2>1, <2>3, <3>3, <3>4 DEF CacheRules, PlaceRule, QueueRule, FetchRule, CopyRule, CacheRemoves,
          Fetching, CacheEnded, CacheStoring, CacheRemoving
  <2>4. QED
    BY <1>7, <2>1, <2>2, <2>3 DEF CheckAgain, CacheAt
<1>8. CASE FetchFile(c)
  <2>1. at = "fetch"
    BY <1>8 DEF FetchFile, CacheAt
  <2>2. CASE cs.remote /\ cs' = CacheGoto([cs EXCEPT !.fetches = @ + 1], c, "store")
    <3> DEFINE x == [cs EXCEPT !.fetches = @ + 1]
    <3>1. /\ x \in CacheRec(D) /\ x.op = cs.op /\ x.client = cs.client /\ x.faults = cs.faults
          /\ x.fetches = cs.fetches + 1 /\ x.remote = cs.remote /\ x.cached = cs.cached /\ x.queue = cs.queue /\ x.raced = cs.raced /\ x.kept = cs.kept
      BY <1>1 DEF CacheRec
    <3> HIDE DEF x
    <3>2. cs' = CacheGoto(x, c, "store")
      BY <2>2 DEF x
    <3>3. /\ CacheFrame(c) /\ cs'.client[c] = "store"
          /\ cs'.fetches = cs.fetches + 1 /\ cs'.remote = cs.remote /\ cs'.cached = cs.cached /\ cs'.queue = cs.queue /\ cs'.raced = cs.raced /\ cs'.kept = cs.kept
      BY <3>1, <3>2, CacheMoves DEF CachePCs
    <3>4. "store" \in CacheWhere(op)
      BY SMTT(40), <1>2, <2>1, <2>2 DEF CacheWhere, Fetching
    <3>5. QED
      BY Zenon, <1>1, <1>2, <2>1, <2>2, <3>3, <3>4 DEF CacheRules, PlaceRule, QueueRule, FetchRule, CopyRule, CacheRemoves,
          Fetching, CacheEnded, CacheStoring, CacheRemoving
  <2>3. CASE cs' = CacheGoto(cs, c, "failed")
    <3>1. /\ CacheFrame(c) /\ cs'.client[c] = "failed"
          /\ cs'.remote = cs.remote /\ cs'.cached = cs.cached /\ cs'.queue = cs.queue /\ cs'.fetches = cs.fetches /\ cs'.raced = cs.raced /\ cs'.kept = cs.kept
      BY <1>1, <2>3, CacheMoves DEF CachePCs
    <3>2. "failed" \in CacheWhere(op)
      BY <1>2, <2>1, <2>3 DEF CacheWhere, Fetching
    <3>3. QED
      BY SMTT(40), <1>1, <1>2, <2>1, <2>3, <3>1, <3>2 DEF CacheRules, PlaceRule, QueueRule, FetchRule, CopyRule, CacheRemoves,
          Fetching, CacheEnded, CacheStoring, CacheRemoving
  <2>4. QED
    BY <1>8, <2>1, <2>2, <2>3 DEF FetchFile, CacheAt
<1>9. CASE StoreCopy(c)
  <2>1. at = "store"
    BY <1>9 DEF StoreCopy, CacheAt
  <2>2. CASE cs' = CacheGoto([cs EXCEPT !.cached = TRUE], c, "stored")
    <3> DEFINE x == [cs EXCEPT !.cached = TRUE]
    <3>1. /\ x \in CacheRec(D) /\ x.op = cs.op /\ x.client = cs.client /\ x.faults = cs.faults
          /\ x.cached = TRUE /\ x.remote = cs.remote /\ x.queue = cs.queue /\ x.fetches = cs.fetches /\ x.raced = cs.raced /\ x.kept = cs.kept
      BY Zenon, <1>1 DEF CacheRec
    <3> HIDE DEF x
    <3>2. cs' = CacheGoto(x, c, "stored")
      BY <2>2 DEF x
    <3>3. /\ CacheFrame(c) /\ cs'.client[c] = "stored"
          /\ cs'.cached = TRUE /\ cs'.remote = cs.remote /\ cs'.queue = cs.queue /\ cs'.fetches = cs.fetches /\ cs'.raced = cs.raced /\ cs'.kept = cs.kept
      BY <3>1, <3>2, CacheMoves DEF CachePCs
    <3>4. "stored" \in CacheWhere(op)
      BY <1>2, <2>1, <2>2 DEF CacheWhere, Fetching
    <3>5. QED
      BY <1>1, <1>2, <2>1, <2>2, <3>3, <3>4 DEF CacheRules, PlaceRule, QueueRule, FetchRule, CopyRule, CacheRemoves,
          Fetching, CacheEnded, CacheStoring, CacheRemoving
  <2>3. CASE cs.faults /\ cs' = CacheGoto(cs, c, "failed")
    <3>1. /\ CacheFrame(c) /\ cs'.client[c] = "failed"
          /\ cs'.remote = cs.remote /\ cs'.cached = cs.cached /\ cs'.queue = cs.queue /\ cs'.fetches = cs.fetches /\ cs'.raced = cs.raced /\ cs'.kept = cs.kept
      BY ZenonT(60), <1>1, <2>3, CacheMoves DEF CachePCs
    <3>2. "failed" \in CacheWhere(op)
      BY <1>2, <2>1, <2>3 DEF CacheWhere, Fetching
    <3>3. QED
      BY SMTT(40), <1>1, <1>2, <2>1, <2>3, <3>1, <3>2 DEF CacheRules, PlaceRule, QueueRule, FetchRule, CopyRule, CacheRemoves,
          Fetching, CacheEnded, CacheStoring, CacheRemoving
  <2>4. QED
    BY <1>9, <2>1, <2>2, <2>3 DEF StoreCopy, CacheAt
<1>10. CASE FinishFetch(c)
  <2>1. at \in {"stored", "failed"}
    BY <1>10 DEF FinishFetch, CacheAt
  <2>2. CASE at = "stored" /\ cs' = CacheWake(CacheGoto([cs EXCEPT !.queue = "none"], c, "again"))
    <3> DEFINE x == [cs EXCEPT !.queue = "none"]
    <3>1. /\ x \in CacheRec(D) /\ x.op = cs.op /\ x.client = cs.client /\ x.faults = cs.faults
          /\ x.queue = "none" /\ x.remote = cs.remote /\ x.cached = cs.cached /\ x.fetches = cs.fetches /\ x.raced = cs.raced /\ x.kept = cs.kept
      BY <1>1 DEF CacheRec
    <3> HIDE DEF x
    <3>2. cs' = CacheWake(CacheGoto(x, c, "again"))
      BY <2>2 DEF x
    <3>3. /\ CacheFrame(c) /\ cs'.client[c] = "again"
          /\ cs'.queue = "none" /\ cs'.remote = cs.remote /\ cs'.cached = cs.cached /\ cs'.fetches = cs.fetches /\ cs'.raced = cs.raced /\ cs'.kept = cs.kept
      BY <3>1, <3>2, CacheMoves DEF CachePCs
    <3>4. "again" \in CacheWhere(op)
      BY <1>2, <2>1, <2>2 DEF CacheWhere, Fetching
    <3>5. QED
      BY <1>1, <1>2, <2>1, <2>2, <3>3, <3>4 DEF CacheRules, PlaceRule, QueueRule, FetchRule, CopyRule, CacheRemoves,
          Fetching, CacheEnded, CacheStoring, CacheRemoving
  <2>3. CASE at = "failed" /\ cs' = CacheWake(CacheGoto([cs EXCEPT !.queue = "failed"], c, "error"))
    <3> DEFINE x == [cs EXCEPT !.queue = "failed"]
    <3>1. /\ x \in CacheRec(D) /\ x.op = cs.op /\ x.client = cs.client /\ x.faults = cs.faults
          /\ x.queue = "failed" /\ x.remote = cs.remote /\ x.cached = cs.cached /\ x.fetches = cs.fetches /\ x.raced = cs.raced /\ x.kept = cs.kept
      BY <1>1 DEF CacheRec
    <3> HIDE DEF x
    <3>2. cs' = CacheWake(CacheGoto(x, c, "error"))
      BY <2>3 DEF x
    <3>3. /\ CacheFrame(c) /\ cs'.client[c] = "error"
          /\ cs'.queue = "failed" /\ cs'.remote = cs.remote /\ cs'.cached = cs.cached /\ cs'.fetches = cs.fetches /\ cs'.raced = cs.raced /\ cs'.kept = cs.kept
      BY <3>1, <3>2, CacheMoves DEF CachePCs
    <3>4. "error" \in CacheWhere(op)
      BY <1>2, <2>1, <2>3 DEF CacheWhere, Fetching
    <3>5. QED
      BY <1>1, <1>2, <2>1, <2>3, <3>3, <3>4 DEF CacheRules, PlaceRule, QueueRule, FetchRule, CopyRule, CacheRemoves,
          Fetching, CacheEnded, CacheStoring, CacheRemoving
  <2>4. QED
    BY <1>10, <2>1, <2>2, <2>3 DEF FinishFetch, CacheAt
<1>11. CASE ReadAgain(c)
  <2>1. PICK to \in {"data", "error"} : cs' = CacheGoto(cs, c, to) /\ at = "again"
    BY SMTT(40), <1>11 DEF ReadAgain, CacheAt
  <2>2. /\ CacheFrame(c) /\ cs'.client[c] = to
        /\ cs'.remote = cs.remote /\ cs'.cached = cs.cached /\ cs'.queue = cs.queue /\ cs'.fetches = cs.fetches /\ cs'.raced = cs.raced /\ cs'.kept = cs.kept
    BY <1>1, <2>1, CacheMoves DEF CachePCs
  <2>3. to \in CacheWhere(op)
    BY <1>2, <2>1 DEF CacheWhere, Fetching
  <2>4. QED
    BY <1>1, <1>2, <2>1, <2>2, <2>3 DEF CacheRules, PlaceRule, QueueRule, FetchRule, CopyRule, CacheRemoves,
          Fetching, CacheEnded, CacheStoring, CacheRemoving
<1>12. CASE WriteRemote(c)
  <2>1. at = "write"
    BY <1>12 DEF WriteRemote, CacheAt
  <2>2. CASE op = "write" /\ cs' = CacheGoto(CacheRace([cs EXCEPT !.remote = TRUE], CacheRemoving), c, "write_copy")
    <3> DEFINE w == [cs EXCEPT !.remote = TRUE]
               x == CacheRace(w, CacheRemoving)
    <3>1. /\ w \in CacheRec(D) /\ w.op = cs.op /\ w.client = cs.client /\ w.faults = cs.faults
          /\ w.remote = TRUE /\ w.kept = cs.kept /\ w.cached = cs.cached /\ w.queue = cs.queue /\ w.fetches = cs.fetches /\ w.raced = cs.raced
      BY Zenon, <1>1 DEF CacheRec
    <3> HIDE DEF w
    <3>2. /\ x \in CacheRec(D) /\ x.op = cs.op /\ x.client = cs.client /\ x.faults = cs.faults
          /\ x.remote = TRUE /\ x.kept = cs.kept /\ x.cached = cs.cached /\ x.queue = cs.queue /\ x.fetches = cs.fetches
          /\ cs.raced => x.raced
          /\ ~x.raced => \A d \in D : cs.client[d] \notin CacheRemoving
      <4>1. /\ x \in CacheRec(D) /\ x.op = w.op /\ x.client = w.client /\ x.faults = w.faults
            /\ x.remote = w.remote /\ x.cached = w.cached /\ x.queue = w.queue
            /\ x.fetches = w.fetches /\ x.kept = w.kept
            /\ w.raced => x.raced
            /\ ~x.raced => \A d \in D : w.client[d] \notin CacheRemoving
        BY <3>1, RaceFields
      <4> HIDE DEF x
      <4>2. QED
        BY <3>1, <4>1
    <3> HIDE DEF x
    <3>3. cs' = CacheGoto(x, c, "write_copy")
      BY <2>2 DEF w, x
    <3>4. /\ CacheFrame(c) /\ cs'.client[c] = "write_copy" /\ cs'.raced = x.raced
          /\ cs'.remote = TRUE /\ cs'.kept = cs.kept /\ cs'.cached = cs.cached /\ cs'.queue = cs.queue /\ cs'.fetches = cs.fetches
      BY <3>2, <3>3, CacheMoves DEF CachePCs
    <3>5. "write_copy" \in CacheWhere(op)
      BY <1>2, <2>1, <2>2 DEF CacheWhere, Fetching
    <3>6. ~cs'.raced => NoneRemoving
      BY <3>2, <3>4 DEF NoneRemoving
    <3>7. cs.raced => cs'.raced
      BY <3>2, <3>4
    <3>8. QED
      BY SMTT(40), <1>1, <1>2, <2>1, <2>2, <3>4, <3>5, <3>6, <3>7 DEF CacheRules, PlaceRule, QueueRule, FetchRule, CopyRule, CacheRemoves,
          Fetching, CacheEnded, CacheStoring, CacheRemoving
  <2>3. CASE op = "write_through" /\ cs' = CacheGoto([cs EXCEPT !.remote = TRUE], c, "ok")
    <3> DEFINE x == [cs EXCEPT !.remote = TRUE]
    <3>1. /\ x \in CacheRec(D) /\ x.op = cs.op /\ x.client = cs.client /\ x.faults = cs.faults
          /\ x.remote = TRUE /\ x.cached = cs.cached /\ x.queue = cs.queue /\ x.fetches = cs.fetches /\ x.raced = cs.raced /\ x.kept = cs.kept
      BY ZenonT(40), <1>1 DEF CacheRec
    <3> HIDE DEF x
    <3>2. cs' = CacheGoto(x, c, "ok")
      BY <2>3 DEF x
    <3>3. /\ CacheFrame(c) /\ cs'.client[c] = "ok"
          /\ cs'.remote = TRUE /\ cs'.cached = cs.cached /\ cs'.queue = cs.queue /\ cs'.fetches = cs.fetches /\ cs'.raced = cs.raced /\ cs'.kept = cs.kept
      BY <3>1, <3>2, CacheMoves DEF CachePCs
    <3>4. "ok" \in CacheWhere(op)
      BY <1>2, <2>1, <2>3 DEF CacheWhere, Fetching
    <3>5. QED
      BY <1>1, <1>2, <2>1, <2>3, <3>3, <3>4 DEF CacheRules, PlaceRule, QueueRule, FetchRule, CopyRule, CacheRemoves,
          Fetching, CacheEnded, CacheStoring, CacheRemoving
  <2>4. CASE cs' = CacheGoto(cs, c, "error")
    <3>1. /\ CacheFrame(c) /\ cs'.client[c] = "error"
          /\ cs'.remote = cs.remote /\ cs'.cached = cs.cached /\ cs'.queue = cs.queue /\ cs'.fetches = cs.fetches /\ cs'.raced = cs.raced /\ cs'.kept = cs.kept
      BY <1>1, <2>4, CacheMoves DEF CachePCs
    <3>2. "error" \in CacheWhere(op)
      BY <1>2, <2>1, <2>4 DEF CacheWhere, Fetching
    <3>3. QED
      BY SMTT(40), <1>1, <1>2, <2>1, <2>4, <3>1, <3>2 DEF CacheRules, PlaceRule, QueueRule, FetchRule, CopyRule, CacheRemoves,
          Fetching, CacheEnded, CacheStoring, CacheRemoving
  <2>5. QED
    BY <1>2, <1>12, <2>1, <2>2, <2>3, <2>4 DEF WriteRemote, CacheAt
<1>13. CASE WriteCopy(c)
  <2>1. at = "write_copy"
    BY <1>13 DEF WriteCopy, CacheAt
  <2>2. CASE cs' = CacheGoto([cs EXCEPT !.cached = TRUE], c, "ok")
    <3> DEFINE x == [cs EXCEPT !.cached = TRUE]
    <3>1. /\ x \in CacheRec(D) /\ x.op = cs.op /\ x.client = cs.client /\ x.faults = cs.faults
          /\ x.cached = TRUE /\ x.remote = cs.remote /\ x.queue = cs.queue /\ x.fetches = cs.fetches /\ x.raced = cs.raced /\ x.kept = cs.kept
      BY Zenon, <1>1 DEF CacheRec
    <3> HIDE DEF x
    <3>2. cs' = CacheGoto(x, c, "ok")
      BY SMTT(40), <2>2 DEF x
    <3>3. /\ CacheFrame(c) /\ cs'.client[c] = "ok"
          /\ cs'.cached = TRUE /\ cs'.remote = cs.remote /\ cs'.queue = cs.queue /\ cs'.fetches = cs.fetches /\ cs'.raced = cs.raced /\ cs'.kept = cs.kept
      BY <3>1, <3>2, CacheMoves DEF CachePCs
    <3>4. "ok" \in CacheWhere(op)
      BY SMTT(40), <1>2, <2>1, <2>2 DEF CacheWhere, Fetching
    <3>5. QED
      BY <1>1, <1>2, <2>1, <2>2, <3>3, <3>4 DEF CacheRules, PlaceRule, QueueRule, FetchRule, CopyRule, CacheRemoves,
          Fetching, CacheEnded, CacheStoring, CacheRemoving
  <2>3. CASE cs' = CacheGoto(cs, c, "error")
    <3>1. /\ CacheFrame(c) /\ cs'.client[c] = "error"
          /\ cs'.remote = cs.remote /\ cs'.cached = cs.cached /\ cs'.queue = cs.queue /\ cs'.fetches = cs.fetches /\ cs'.raced = cs.raced /\ cs'.kept = cs.kept
      BY <1>1, <2>3, CacheMoves DEF CachePCs
    <3>2. "error" \in CacheWhere(op)
      BY <1>2, <2>1, <2>3 DEF CacheWhere, Fetching
    <3>3. QED
      BY SMTT(40), <1>1, <1>2, <2>1, <2>3, <3>1, <3>2 DEF CacheRules, PlaceRule, QueueRule, FetchRule, CopyRule, CacheRemoves,
          Fetching, CacheEnded, CacheStoring, CacheRemoving
  <2>4. QED
    BY <1>13, <2>1, <2>2, <2>3 DEF WriteCopy, CacheAt
<1>14. CASE RenameCopy(c)
  <2>1. at = "rename"
    BY <1>14 DEF RenameCopy, CacheAt
  <2>2. CASE cs' = CacheGoto(CacheRace([cs EXCEPT !.cached = FALSE], CacheStoring), c, "rename_file")
    <3> DEFINE w == [cs EXCEPT !.cached = FALSE]
               x == CacheRace(w, CacheStoring)
    <3>1. /\ w \in CacheRec(D) /\ w.op = cs.op /\ w.client = cs.client /\ w.faults = cs.faults
          /\ w.cached = FALSE /\ w.kept = cs.kept /\ w.remote = cs.remote /\ w.queue = cs.queue /\ w.fetches = cs.fetches /\ w.raced = cs.raced
      BY Zenon, <1>1 DEF CacheRec
    <3> HIDE DEF w
    <3>2. /\ x \in CacheRec(D) /\ x.op = cs.op /\ x.client = cs.client /\ x.faults = cs.faults
          /\ x.cached = FALSE /\ x.kept = cs.kept /\ x.remote = cs.remote /\ x.queue = cs.queue /\ x.fetches = cs.fetches
          /\ cs.raced => x.raced
          /\ ~x.raced => \A d \in D : cs.client[d] \notin CacheStoring
      <4>1. /\ x \in CacheRec(D) /\ x.op = w.op /\ x.client = w.client /\ x.faults = w.faults
            /\ x.remote = w.remote /\ x.cached = w.cached /\ x.queue = w.queue
            /\ x.fetches = w.fetches /\ x.kept = w.kept
            /\ w.raced => x.raced
            /\ ~x.raced => \A d \in D : w.client[d] \notin CacheStoring
        BY <3>1, RaceFields
      <4> HIDE DEF x
      <4>2. QED
        BY <3>1, <4>1
    <3> HIDE DEF x
    <3>3. cs' = CacheGoto(x, c, "rename_file")
      BY <2>2 DEF w, x
    <3>4. /\ CacheFrame(c) /\ cs'.client[c] = "rename_file" /\ cs'.raced = x.raced
          /\ cs'.cached = FALSE /\ cs'.kept = cs.kept /\ cs'.remote = cs.remote /\ cs'.queue = cs.queue /\ cs'.fetches = cs.fetches
      BY <3>2, <3>3, CacheMoves DEF CachePCs
    <3>5. "rename_file" \in CacheWhere(op)
      BY <1>2, <2>1, <2>2 DEF CacheWhere, Fetching
    <3>6. ~cs'.raced => NoneStoring
      BY <2>2, <3>2, <3>4 DEF NoneStoring, CacheStoring, Fetching
    <3>7. cs.raced => cs'.raced
      BY <3>2, <3>4
    <3>8. QED
      BY SMTT(40), <1>1, <1>2, <2>1, <2>2, <3>4, <3>5, <3>6, <3>7 DEF CacheRules, PlaceRule, QueueRule, FetchRule, CopyRule, CacheRemoves,
          Fetching, CacheEnded, CacheStoring, CacheRemoving
  <2>3. CASE cs' = CacheGoto(CacheRace([cs EXCEPT !.kept = TRUE], CacheStoring), c, "rename_file")
    <3> DEFINE w == [cs EXCEPT !.kept = TRUE]
               x == CacheRace(w, CacheStoring)
    <3>1. /\ w \in CacheRec(D) /\ w.op = cs.op /\ w.client = cs.client /\ w.faults = cs.faults
          /\ w.kept = TRUE /\ w.remote = cs.remote /\ w.cached = cs.cached /\ w.queue = cs.queue /\ w.fetches = cs.fetches /\ w.raced = cs.raced
      BY Zenon, <1>1 DEF CacheRec
    <3> HIDE DEF w
    <3>2. /\ x \in CacheRec(D) /\ x.op = cs.op /\ x.client = cs.client /\ x.faults = cs.faults
          /\ x.kept = TRUE /\ x.remote = cs.remote /\ x.cached = cs.cached /\ x.queue = cs.queue /\ x.fetches = cs.fetches
          /\ cs.raced => x.raced
          /\ ~x.raced => \A d \in D : cs.client[d] \notin CacheStoring
      <4>1. /\ x \in CacheRec(D) /\ x.op = w.op /\ x.client = w.client /\ x.faults = w.faults
            /\ x.remote = w.remote /\ x.cached = w.cached /\ x.queue = w.queue
            /\ x.fetches = w.fetches /\ x.kept = w.kept
            /\ w.raced => x.raced
            /\ ~x.raced => \A d \in D : w.client[d] \notin CacheStoring
        BY <3>1, RaceFields
      <4> HIDE DEF x
      <4>2. QED
        BY <3>1, <4>1
    <3> HIDE DEF x
    <3>3. cs' = CacheGoto(x, c, "rename_file")
      BY <2>3 DEF w, x
    <3>4. /\ CacheFrame(c) /\ cs'.client[c] = "rename_file" /\ cs'.raced = x.raced
          /\ cs'.kept = TRUE /\ cs'.remote = cs.remote /\ cs'.cached = cs.cached /\ cs'.queue = cs.queue /\ cs'.fetches = cs.fetches
      BY <3>2, <3>3, CacheMoves DEF CachePCs
    <3>5. "rename_file" \in CacheWhere(op)
      BY <1>2, <2>1, <2>3 DEF CacheWhere, Fetching
    <3>6. ~cs'.raced => NoneStoring
      BY <2>3, <3>2, <3>4 DEF NoneStoring, CacheStoring, Fetching
    <3>7. cs.raced => cs'.raced
      BY <3>2, <3>4
    <3>8. QED
      BY SMTT(40), <1>1, <1>2, <2>1, <2>3, <3>4, <3>5, <3>6, <3>7 DEF CacheRules, PlaceRule, QueueRule, FetchRule, CopyRule, CacheRemoves,
          Fetching, CacheEnded, CacheStoring, CacheRemoving
  <2>4. QED
    BY <1>14, <2>1, <2>2, <2>3 DEF RenameCopy, CacheAt
<1>15. CASE RenameRemote(c)
  <2>1. at = "rename_file"
    BY <1>15 DEF RenameRemote, CacheAt
  <2>2. CASE cs' = CacheGoto([cs EXCEPT !.remote = FALSE], c, "ok")
    <3> DEFINE x == [cs EXCEPT !.remote = FALSE]
    <3>1. /\ x \in CacheRec(D) /\ x.op = cs.op /\ x.client = cs.client /\ x.faults = cs.faults
          /\ x.remote = FALSE /\ x.cached = cs.cached /\ x.queue = cs.queue /\ x.fetches = cs.fetches /\ x.raced = cs.raced /\ x.kept = cs.kept
      BY Zenon, <1>1 DEF CacheRec
    <3> HIDE DEF x
    <3>2. cs' = CacheGoto(x, c, "ok")
      BY <2>2 DEF x
    <3>3. /\ CacheFrame(c) /\ cs'.client[c] = "ok"
          /\ cs'.remote = FALSE /\ cs'.cached = cs.cached /\ cs'.queue = cs.queue /\ cs'.fetches = cs.fetches /\ cs'.raced = cs.raced /\ cs'.kept = cs.kept
      BY <3>1, <3>2, CacheMoves DEF CachePCs
    <3>4. "ok" \in CacheWhere(op)
      BY <1>2, <2>1, <2>2 DEF CacheWhere, Fetching
    <3>5. QED
      BY <1>1, <1>2, <2>1, <2>2, <3>3, <3>4 DEF CacheRules, PlaceRule, QueueRule, FetchRule, CopyRule, CacheRemoves,
          Fetching, CacheEnded, CacheStoring, CacheRemoving
  <2>3. CASE cs' = CacheGoto(cs, c, "error")
    <3>1. /\ CacheFrame(c) /\ cs'.client[c] = "error"
          /\ cs'.remote = cs.remote /\ cs'.cached = cs.cached /\ cs'.queue = cs.queue /\ cs'.fetches = cs.fetches /\ cs'.raced = cs.raced /\ cs'.kept = cs.kept
      BY <1>1, <2>3, CacheMoves DEF CachePCs
    <3>2. "error" \in CacheWhere(op)
      BY <1>2, <2>1, <2>3 DEF CacheWhere, Fetching
    <3>3. QED
      BY SMTT(40), <1>1, <1>2, <2>1, <2>3, <3>1, <3>2 DEF CacheRules, PlaceRule, QueueRule, FetchRule, CopyRule, CacheRemoves,
          Fetching, CacheEnded, CacheStoring, CacheRemoving
  <2>4. QED
    BY <1>15, <2>1, <2>2, <2>3 DEF RenameRemote, CacheAt
<1>16. CASE RemoveCopy(c)
  <2>1. at = "uncache"
    BY <1>16 DEF RemoveCopy, CacheAt
  <2>2. CASE cs' = CacheGoto([cs EXCEPT !.cached = FALSE], c, "unlink")
    <3> DEFINE x == [cs EXCEPT !.cached = FALSE]
    <3>1. /\ x \in CacheRec(D) /\ x.op = cs.op /\ x.client = cs.client /\ x.faults = cs.faults
          /\ x.cached = FALSE /\ x.remote = cs.remote /\ x.queue = cs.queue /\ x.fetches = cs.fetches /\ x.raced = cs.raced /\ x.kept = cs.kept
      BY Zenon, <1>1 DEF CacheRec
    <3> HIDE DEF x
    <3>2. cs' = CacheGoto(x, c, "unlink")
      BY <2>2 DEF x
    <3>3. /\ CacheFrame(c) /\ cs'.client[c] = "unlink"
          /\ cs'.cached = FALSE /\ cs'.remote = cs.remote /\ cs'.queue = cs.queue /\ cs'.fetches = cs.fetches /\ cs'.raced = cs.raced /\ cs'.kept = cs.kept
      BY <3>1, <3>2, CacheMoves DEF CachePCs
    <3>4. "unlink" \in CacheWhere(op)
      BY <1>2, <2>1, <2>2 DEF CacheWhere, Fetching
    <3>5. QED
      BY SMTT(40), <1>1, <1>2, <2>1, <2>2, <3>3, <3>4 DEF CacheRules, PlaceRule, QueueRule, FetchRule, CopyRule, CacheRemoves,
          Fetching, CacheEnded, CacheStoring, CacheRemoving
  <2>3. CASE cs' = CacheGoto(cs, c, "error")
    <3>1. /\ CacheFrame(c) /\ cs'.client[c] = "error"
          /\ cs'.remote = cs.remote /\ cs'.cached = cs.cached /\ cs'.queue = cs.queue /\ cs'.fetches = cs.fetches /\ cs'.raced = cs.raced /\ cs'.kept = cs.kept
      BY <1>1, <2>3, CacheMoves DEF CachePCs
    <3>2. "error" \in CacheWhere(op)
      BY <1>2, <2>1, <2>3 DEF CacheWhere, Fetching
    <3>3. QED
      BY <1>1, <1>2, <2>1, <2>3, <3>1, <3>2 DEF CacheRules, PlaceRule, QueueRule, FetchRule, CopyRule, CacheRemoves,
          Fetching, CacheEnded, CacheStoring, CacheRemoving
  <2>4. QED
    BY <1>16, <2>1, <2>2, <2>3 DEF RemoveCopy, CacheAt
<1>17. CASE RemoveRemote(c)
  <2>1. at = "unlink"
    BY <1>17 DEF RemoveRemote, CacheAt
  <2>2. CASE cs' = CacheGoto([cs EXCEPT !.remote = FALSE], c, "ok")
    <3> DEFINE x == [cs EXCEPT !.remote = FALSE]
    <3>1. /\ x \in CacheRec(D) /\ x.op = cs.op /\ x.client = cs.client /\ x.faults = cs.faults
          /\ x.remote = FALSE /\ x.cached = cs.cached /\ x.queue = cs.queue /\ x.fetches = cs.fetches /\ x.raced = cs.raced /\ x.kept = cs.kept
      BY Zenon, <1>1 DEF CacheRec
    <3> HIDE DEF x
    <3>2. cs' = CacheGoto(x, c, "ok")
      BY <2>2 DEF x
    <3>3. /\ CacheFrame(c) /\ cs'.client[c] = "ok"
          /\ cs'.remote = FALSE /\ cs'.cached = cs.cached /\ cs'.queue = cs.queue /\ cs'.fetches = cs.fetches /\ cs'.raced = cs.raced /\ cs'.kept = cs.kept
      BY <3>1, <3>2, CacheMoves DEF CachePCs
    <3>4. "ok" \in CacheWhere(op)
      BY SMTT(40), <1>2, <2>1, <2>2 DEF CacheWhere, Fetching
    <3>5. QED
      BY SMTT(40), <1>1, <1>2, <2>1, <2>2, <3>3, <3>4 DEF CacheRules, PlaceRule, QueueRule, FetchRule, CopyRule, CacheRemoves,
          Fetching, CacheEnded, CacheStoring, CacheRemoving
  <2>3. CASE cs' = CacheGoto(cs, c, "error")
    <3>1. /\ CacheFrame(c) /\ cs'.client[c] = "error"
          /\ cs'.remote = cs.remote /\ cs'.cached = cs.cached /\ cs'.queue = cs.queue /\ cs'.fetches = cs.fetches /\ cs'.raced = cs.raced /\ cs'.kept = cs.kept
      BY <1>1, <2>3, CacheMoves DEF CachePCs
    <3>2. "error" \in CacheWhere(op)
      BY <1>2, <2>1, <2>3 DEF CacheWhere, Fetching
    <3>3. QED
      BY SMTT(40), <1>1, <1>2, <2>1, <2>3, <3>1, <3>2 DEF CacheRules, PlaceRule, QueueRule, FetchRule, CopyRule, CacheRemoves,
          Fetching, CacheEnded, CacheStoring, CacheRemoving
  <2>4. QED
    BY <1>17, <2>1, <2>2, <2>3 DEF RemoveRemote, CacheAt
<1>18. CASE CacheBegin(c)
  <2> DEFINE to == FirstStep(op)
  <2>1. at = "idle" /\ cs' = CacheGoto(cs, c, to)
    BY <1>18 DEF CacheBegin, CacheAt
  <2>2. to \in CachePCs /\ to \in CacheWhere(op) /\ to \in {"read", "check", "read_through", "write", "rename"}
    BY <1>1 DEF FirstStep, CacheOps, CachePCs, CacheWhere
  <2> HIDE DEF to
  <2>3. /\ CacheFrame(c) /\ cs'.client[c] = to
        /\ cs'.remote = cs.remote /\ cs'.cached = cs.cached /\ cs'.queue = cs.queue /\ cs'.fetches = cs.fetches /\ cs'.raced = cs.raced /\ cs'.kept = cs.kept
    BY <1>1, <2>1, <2>2, CacheMoves
  <2>4. QED
    BY <1>1, <2>1, <2>2, <2>3 DEF CacheRules, PlaceRule, QueueRule, FetchRule, CopyRule, CacheRemoves,
          Fetching, CacheEnded, CacheStoring, CacheRemoving
<1>19. QED
  BY <1>3, <1>4, <1>5, <1>6, <1>7, <1>8, <1>9, <1>10, <1>11, <1>12, <1>13, <1>14, <1>15, <1>16, <1>17, <1>18 DEF CacheStep

(* What a rule says of one task holds of all of them after the step.         *)
LEMMA CacheRulesKeep ==
    ASSUME CacheInv, NEW c \in CacheTasks, CacheRules(c)
    PROVE  CacheInv'
<1> DEFINE D == CacheTasks
<1>1. CacheFrame(c) /\ PlaceRule(c) /\ QueueRule(c) /\ FetchRule(c) /\ CopyRule(c)
  BY DEF CacheRules
<1>2. /\ D' = D /\ cs'.op = cs.op /\ cs'.faults = cs.faults
      /\ \A d \in D : d # c => \/ cs'.client[d] = cs.client[d]
                               \/ (cs.client[d] = "waiting" /\ cs'.client[d] = "check")
  BY <1>1 DEF CacheFrame
<1>3. CacheTypeInv'
  <2>1. cs' \in CacheRec(D)' /\ \A d \in D : cs.op[d] \in CacheOps
    BY <1>1 DEF CacheFrame, CacheInv, CacheTypeInv, CacheRec
  <2>2. ASSUME NEW d \in D PROVE cs'.client[d] \in CacheWhere(cs.op[d])
    <3>1. cs.client[d] \in CacheWhere(cs.op[d])
      BY DEF CacheInv, CacheTypeInv
    <3>2. cs.client[d] = "waiting" => "check" \in CacheWhere(cs.op[d])
      BY Zenon, <2>1, <3>1, PlaceOp DEF CacheWhere
    <3>3. QED
      BY <1>1, <1>2, <3>1, <3>2 DEF PlaceRule
  <2>3. QED
    BY <1>2, <2>1, <2>2 DEF CacheTypeInv
<1>4. FetchInv'
  <2>1. \A d \in D : d # c => (cs'.client[d] \in Fetching <=> cs.client[d] \in Fetching)
    BY <1>2 DEF Fetching
  <2>2. QED
    BY <1>1, <1>2, <2>1 DEF CacheInv, FetchInv, QueueRule
<1>5. OnceInv'
  <2> SUFFICES ASSUME ~cs'.faults, \A d \in D : CacheRemoves(d)' => CacheAt(d, "idle")'
               PROVE  /\ cs'.fetches <= 1
                      /\ cs'.fetches = 1 => cs'.cached \/ \E d \in D : CacheAt(d, "store")'
                      /\ \A d \in D : CacheAt(d, "fetch")' => cs'.fetches = 0
    BY <1>2 DEF OnceInv
  <2>1. \A d \in D : CacheRemoves(d) => CacheAt(d, "idle")
    BY <1>1, <1>2 DEF CacheRemoves, CacheAt, PlaceRule
  <2>2. /\ cs.fetches <= 1
        /\ cs.fetches = 1 => cs.cached \/ \E d \in D : cs.client[d] = "store"
        /\ \A d \in D : cs.client[d] = "fetch" => cs.fetches = 0
    BY <1>2, <2>1 DEF CacheInv, OnceInv, CacheAt
  <2>3. cs.fetches \in Nat
    BY DEF CacheInv, CacheTypeInv, CacheRec
  <2>4. cs.cached => cs'.cached
    <3>1. ~(CacheRemoves(c) /\ cs.client[c] # "idle")
      BY <2>1 DEF CacheAt
    <3>2. QED
      BY <1>1, <3>1 DEF FetchRule
  <2>5. \A d \in D : d # c => /\ cs'.client[d] = "store" <=> cs.client[d] = "store"
                              /\ cs'.client[d] = "fetch" <=> cs.client[d] = "fetch"
    BY <1>2
  <2>6. cs'.client[c] = "fetch" => cs.fetches = 0
    <3>1. SUFFICES ASSUME cs'.client[c] = "fetch", cs.fetches # 0 PROVE FALSE
      OBVIOUS
    <3>2. cs.client[c] = "claimed" /\ ~cs.cached
      BY <1>1, <3>1 DEF FetchRule
    <3>3. PICK d \in D : cs.client[d] = "store"
      BY <2>2, <2>3, <3>1, <3>2
    <3>4. QED
      BY <3>2, <3>3 DEF CacheInv, FetchInv, Fetching
  <2>7. CASE cs.client[c] = "fetch" /\ cs'.client[c] = "store" /\ cs'.fetches = cs.fetches + 1
    <3>1. \A d \in D : cs'.client[d] # "fetch"
      BY <2>5, <2>7 DEF CacheInv, FetchInv, Fetching
    <3>2. QED
      BY <2>2, <2>3, <2>7, <3>1 DEF CacheAt
  <2>8. CASE cs'.fetches = cs.fetches
    <3>1. cs.client[c] = "store" => cs'.cached
      BY <1>1, <1>2 DEF FetchRule
    <3>2. QED
      BY SMTT(40), <2>2, <2>4, <2>5, <2>6, <2>8, <3>1 DEF CacheAt
  <2>9. QED
    BY <1>1, <2>7, <2>8 DEF FetchRule
<1>6. RemoveInv'
  <2> SUFFICES ASSUME ~cs'.raced
               PROVE  /\ \A d, e \in D : ~(cs'.client[d] \in CacheStoring /\ cs'.client[e] \in CacheRemoving)
                      /\ \A d \in D : cs'.client[d] \in {"store", "write_copy"} => cs'.remote
                      /\ ~cs'.kept =>
                           /\ \A d \in D : cs'.client[d] \in {"rename_file", "unlink"} => ~cs'.cached
                           /\ RemovedFromCache'
    BY <1>2 DEF RemoveInv
  <2>1. /\ \A d, e \in D : ~(cs.client[d] \in CacheStoring /\ cs.client[e] \in CacheRemoving)
        /\ \A d \in D : cs.client[d] \in {"store", "write_copy"} => cs.remote
        /\ ~cs.raced
    BY <1>1 DEF CacheInv, RemoveInv, CopyRule
  <2>2. \A d \in D : d # c => /\ cs'.client[d] \in CacheStoring => cs.client[d] \in CacheStoring
                              /\ cs'.client[d] \in CacheRemoving => cs.client[d] \in CacheRemoving
    BY <1>2 DEF CacheStoring, CacheRemoving
  <2>3. cs'.client[c] \in CacheStoring => \A d \in D : cs.client[d] \notin CacheRemoving
    BY <1>1, <2>1 DEF CopyRule, NoneRemoving
  <2>4. cs'.client[c] \in CacheRemoving => \A d \in D : cs.client[d] \notin CacheStoring
    <3>1. NoneStoring => \A d \in D : cs.client[d] \notin CacheStoring
      BY DEF NoneStoring, CacheInv, FetchInv
    <3>2. QED
      BY <1>1, <2>1, <3>1 DEF CopyRule
  <2>5. ~(cs'.client[c] \in CacheStoring /\ cs'.client[c] \in CacheRemoving)
    BY DEF CacheStoring, CacheRemoving
  <2>6. ASSUME NEW d \in D, NEW e \in D, cs'.client[d] \in CacheStoring, cs'.client[e] \in CacheRemoving
        PROVE  FALSE
    <3>1. CASE d = c /\ e = c
      BY <2>5, <2>6, <3>1
    <3>2. CASE d = c /\ e # c
      BY <2>2, <2>3, <2>6, <3>2
    <3>3. CASE d # c /\ e = c
      BY <2>2, <2>4, <2>6, <3>3
    <3>4. CASE d # c /\ e # c
      BY <2>1, <2>2, <2>6, <3>4
    <3>5. QED
      BY <3>1, <3>2, <3>3, <3>4
  <2>7. ASSUME NEW d \in D, cs'.client[d] \in {"store", "write_copy"} PROVE cs'.remote
    <3>1. CASE d = c
      BY SMTT(40), <1>1, <2>7, <3>1 DEF CopyRule
    <3>2. CASE d # c
      <4>1. cs.client[d] \in {"store", "write_copy"} /\ cs.remote
        BY <1>2, <2>1, <2>7, <3>2
      <4>2. cs.client[c] \notin {"rename_file", "unlink"}
        BY <2>1, <4>1 DEF CacheStoring, CacheRemoving
      <4>3. QED
        BY <1>1, <4>1, <4>2 DEF CopyRule
    <3>3. QED
      BY <3>1, <3>2
  <2> SUFFICES ASSUME ~cs'.kept
               PROVE  /\ \A d \in D : cs'.client[d] \in {"rename_file", "unlink"} => ~cs'.cached
                      /\ RemovedFromCache'
    BY <2>6, <2>7
  <2>8. /\ \A d \in D : cs.client[d] \in {"rename_file", "unlink"} => ~cs.cached
        /\ RemovedFromCache /\ ~cs.kept
    BY <1>1, <2>1 DEF CacheInv, RemoveInv, CopyRule
  <2>9. ASSUME NEW d \in D, cs'.client[d] \in {"rename_file", "unlink"} PROVE ~cs'.cached
    <3>1. CASE d = c
      BY SMTT(40), <1>1, <2>9, <3>1 DEF CopyRule
    <3>2. CASE d # c
      <4>1. cs.client[d] \in {"rename_file", "unlink"} /\ ~cs.cached
        BY SMTT(40), <1>2, <2>8, <2>9, <3>2
      <4>2. cs.client[c] \notin {"store", "write_copy"}
        BY <2>1, <4>1 DEF CacheStoring, CacheRemoving
      <4>3. QED
        BY SMTT(40), <1>1, <4>1, <4>2 DEF CopyRule
    <3>3. QED
      BY <3>1, <3>2
  <2>10. \A d \in D : (CacheRemoves(d)' <=> CacheRemoves(d)) /\ CacheRemoves(d) \in BOOLEAN
    BY <1>2 DEF CacheRemoves
  <2>11. ASSUME NEW d \in D, CacheRemoves(d)', cs'.client[d] = "ok", ~cs'.remote PROVE ~cs'.cached
    <3>1. CASE d = c
      BY SMTT(40), <1>1, <2>8, <2>10, <2>11, <3>1 DEF CopyRule
    <3>2. CASE d # c /\ cs.remote
      <4>1. cs.client[c] \in {"rename_file", "unlink"} /\ ~cs.cached
        BY <1>1, <2>8, <2>11, <3>2 DEF CopyRule
      <4>2. cs.client[c] \notin {"store", "write_copy"}
        BY <4>1
      <4>3. QED
        BY <1>1, <4>1, <4>2 DEF CopyRule
    <3>3. CASE d # c /\ ~cs.remote
      <4>1. cs.client[d] = "ok" /\ CacheRemoves(d)
        BY SMTT(40), <1>2, <2>10, <2>11, <3>3
      <4>2. ~cs.cached
        BY <2>1, <2>8, <3>3, <4>1 DEF RemovedFromCache, CacheAt
      <4>3. cs.client[c] \notin {"store", "write_copy"}
        BY <2>1, <3>3
      <4>4. QED
        BY <1>1, <4>2, <4>3 DEF CopyRule
    <3>4. QED
      BY SMTT(40), <3>1, <3>2, <3>3
  <2>12. RemovedFromCache'
    BY <1>2, <2>11 DEF RemovedFromCache, CacheAt
  <2>13. QED
    BY <2>9, <2>12
<1>7. QED
  BY <1>3, <1>4, <1>5, <1>6 DEF CacheInv

(* Every first state of the cache satisfies the invariant.                   *)
LEMMA CacheInvInit == CacheInit => CacheInv
<1> SUFFICES ASSUME CacheInit PROVE CacheInv
  OBVIOUS
<1>1. PICK j \in CacheJobs, h \in Cacheable : cs = CacheStart(j, h)
  BY DEF CacheInit
<1> DEFINE D == DOMAIN j.op
           op == [c \in D |-> IF ShouldCache(h) \/ j.op[c] \notin {"read", "write"} THEN j.op[c]
                               ELSE IF j.op[c] = "read" THEN "read_through" ELSE "write_through"]
<1>2. op \in [D -> CacheOps]
  BY CacheAssumption DEF CacheOps
<1>3. j.faults \in BOOLEAN /\ j.remote \in BOOLEAN /\ j.cached \in BOOLEAN
  BY SMTT(40), CacheAssumption
<1>4. /\ cs.op = op /\ cs.client = [c \in D |-> "idle"] /\ cs.fetches = 0 /\ cs.raced = FALSE
      /\ cs = [op |-> op, client |-> [c \in D |-> "idle"], faults |-> j.faults,
               remote |-> j.remote, cached |-> j.cached, queue |-> "none",
               fetches |-> 0, missed |-> {}, raced |-> FALSE, kept |-> FALSE]
  BY SMTT(40), <1>1 DEF CacheStart
<1> HIDE DEF op
<1>5. CacheTasks = D
  BY <1>4 DEF CacheTasks
<1>6. "idle" \in CachePCs /\ \A o \in CacheOps : "idle" \in CacheWhere(o)
  BY SMTT(40) DEF CachePCs, CacheOps, CacheWhere
<1>7. cs \in CacheRec(D)
  BY SMTT(40), <1>2, <1>3, <1>4, <1>6 DEF CacheRec
<1>8. \A c \in D : cs.client[c] = "idle" /\ cs.op[c] \in CacheOps
  BY <1>2, <1>4
<1>9. CacheTypeInv
  BY SMTT(40), <1>5, <1>6, <1>7, <1>8 DEF CacheTypeInv
<1>10. FetchInv /\ OnceInv /\ RemoveInv
  BY <1>4, <1>5, <1>8
  DEF FetchInv, Fetching, OnceInv, CacheAt, RemoveInv, CacheStoring, CacheRemoving, RemovedFromCache
<1>11. QED
  BY <1>9, <1>10 DEF CacheInv

(* cache_file, CacheBackend::remove and rename: however many tasks read,     *)
(* write, rename and remove a file at the same time, a file is downloaded    *)
(* once while nothing fails and nobody removes it, and no copy is left of a  *)
(* file that was removed, unless the removal met a read or a write in a way  *)
(* the code does not prevent, or rename passed over an error with the copy.  *)
THEOREM CacheStaysCoherent == CacheSpec => []CacheCoherent
<1>1. CacheInv /\ [CacheNext]_cs => CacheInv'
  <2> SUFFICES ASSUME CacheInv, [CacheNext]_cs PROVE CacheInv'
    BY SMTT(40)
  <2>1. CASE UNCHANGED cs
    BY <2>1 DEF CacheInv, CacheTypeInv, FetchInv, OnceInv, RemoveInv, CacheTasks, CacheAt, CacheRemoves,
                RemovedFromCache
  <2>2. CASE \E c \in CacheTasks : CacheStep(c)
    <3>1. PICK c \in CacheTasks : CacheStep(c)
      BY <2>2
    <3>2. CacheRules(c)
      BY <3>1, CacheStepRules DEF CacheInv
    <3>3. QED
      BY <3>2, CacheRulesKeep
  <2>3. QED
    BY <2>1, <2>2 DEF CacheNext, CacheIdle
<1>2. CacheInv => CacheCoherent
  <2> SUFFICES ASSUME CacheInv PROVE CacheCoherent
    OBVIOUS
  <2>1. FetchedOnce
    BY DEF CacheInv, OnceInv, FetchedOnce
  <2>2. RemovedFromCache
    BY DEF CacheInv, RemoveInv, RemovedFromCache
  <2>3. QED
    BY <2>1, <2>2 DEF CacheCoherent
<1>3. QED
  BY <1>1, <1>2, CacheInvInit, PTL DEF CacheSpec

-----------------------------------------------------------------------------
(* The connection pool.                                                      *)

Further == 2 .. MaxConnections
Conn == [key : Nat, id : Nat]
ConnPCs == {"start", "idle", "connect", "prompt", "login", "connected", "open", "lock", "use",
            "sent", "failed"}

PoolRec ==
    [job : Opening, known : SUBSET KnownLine, before : SUBSET KnownLine, accepted : SUBSET Nat,
     at : [Connectors -> ConnPCs], rejected : Nat, prompts : Nat, made : Nat,
     alive : SUBSET Nat, deaths : Nat, conns : [Connectors -> Conn], slots : Seq(Conn),
     lock : Seq({"free", "held"}), slot : [PoolUsers -> Nat], next : Nat, written : BOOLEAN]

Trusted(key) == key \in cn.accepted \union {l.key : l \in LinesOfHost(cn.job, cn.before)}
HostKnown == LinesOfHost(cn.job, cn.known) # {}
Replacing(c) == cn.at[c] \in {"connect", "login"}

(* Where the connectors stand beside each other: the first connection is     *)
(* made alone, the further ones begin together, users come last.             *)
PlacesInv ==
    /\ cn.at[1] \in {"start", "connect", "prompt", "login", "connected", "open", "failed"}
    /\ cn.at[1] \in {"connect", "prompt", "login", "connected"} => cn.job.url = "sftp"
    /\ \A k \in Further :
         /\ cn.at[k] \in {"idle", "connect", "login", "connected", "failed"}
         /\ cn.at[k] # "idle" => cn.at[1] \in {"connected", "open"} /\ cn.job.url = "sftp"
         /\ cn.at[1] = "open" => cn.at[k] \in {"idle", "connected", "failed"}
         /\ \A j \in Further : cn.at[k] = "idle" => cn.at[j] = "idle"
    /\ \A c \in PoolUsers :
         /\ cn.at[c] \in {"idle", "lock", "connect", "login", "use", "sent", "failed"}
         /\ cn.at[c] # "idle" => cn.at[1] = "open"
         /\ cn.at[c] \in {"lock", "connect", "login", "use"} =>
              cn.job.url = "sftp" /\ cn.slot[c] \in DOMAIN cn.slots
    /\ cn.at[1] = "open" /\ cn.job.url = "sftp" => cn.slots # <<>>
    /\ DOMAIN cn.lock = DOMAIN cn.slots

(* Whoever is past the check of the key has a trusted one.                   *)
TrustInv ==
    /\ \A l \in cn.known : l \in cn.before \/ l.key \in cn.accepted
    /\ \A c \in Connectors : cn.at[c] \in {"login", "connected"} => Trusted(cn.conns[c].key)
    /\ \A k \in DOMAIN cn.slots : Trusted(cn.slots[k].key)

(* Once asked for, the host is known before anyone else connects.            *)
PromptInv ==
    /\ cn.prompts <= 1
    /\ cn.prompts = 1 => cn.at[1] \in {"prompt", "failed"} \/ HostKnown
    /\ cn.at[1] \in {"login", "connected"} => HostKnown
    /\ cn.at[1] = "open" /\ cn.job.url = "sftp" => HostKnown

TriesInv ==
    /\ cn.rejected <= MaxPasswords
    /\ cn.at[1] \in {"start", "connect", "prompt", "login"} => cn.rejected < MaxPasswords

(* Every connection that is alive has its place, and a slot whose connection *)
(* is being replaced belongs to one user and holds a dead one.               *)
AliveInv ==
    /\ \A id \in cn.alive : id <= cn.made
    /\ \A k \in DOMAIN cn.slots : cn.slots[k].id <= cn.made
    /\ \A c \in Connectors : cn.conns[c].id <= cn.made
    /\ cn.at[1] # "open" =>
         \A id \in cn.alive : \E c \in 1 .. MaxConnections : cn.at[c] = "connected" /\ cn.conns[c].id = id
    /\ cn.at[1] = "open" => \A id \in cn.alive : \E k \in DOMAIN cn.slots : cn.slots[k].id = id
    /\ \A c \in PoolUsers :
         Replacing(c) => cn.lock[cn.slot[c]] = "held" /\ cn.slots[cn.slot[c]].id \notin cn.alive
    /\ \A c, d \in PoolUsers : Replacing(c) /\ Replacing(d) /\ cn.slot[c] = cn.slot[d] => c = d

PoolInv ==
    /\ cn \in PoolRec
    /\ PlacesInv /\ TrustInv /\ PromptInv /\ TriesInv /\ AliveInv /\ DryWritesNothing

(* Connectors: the first, the further ones, and the users.                   *)
LEMMA ConnectorKinds ==
    /\ MainConnection = 1 /\ 1 \in Connectors /\ 1 \in 1 .. MaxConnections
    /\ 1 \notin Further /\ 1 \notin PoolUsers /\ Further \intersect PoolUsers = {}
    /\ Further \subseteq Connectors /\ PoolUsers \subseteq Connectors /\ 1 .. MaxConnections \subseteq Connectors
    /\ \A c \in Connectors : c = 1 \/ c \in Further \/ c \in PoolUsers
    /\ \A c \in 1 .. MaxConnections : c = 1 \/ c \in Further
    /\ \A c \in Further : c \in 1 .. MaxConnections
BY ConnectionsAssumption DEF MainConnection, Connectors, Further

(* A sequence with one place written.                                        *)
LEMMA SlotSet ==
    ASSUME NEW S, NEW q \in Seq(S), NEW k, NEW e \in S
    PROVE  /\ [q EXCEPT ![k] = e] \in Seq(S)
           /\ DOMAIN [q EXCEPT ![k] = e] = DOMAIN q
           /\ \A j \in DOMAIN q : j # k => [q EXCEPT ![k] = e][j] = q[j]
           /\ k \in DOMAIN q => [q EXCEPT ![k] = e][k] = e
<1>1. q \in [1 .. Len(q) -> S] /\ Len(q) \in Nat
  OBVIOUS
<1>2. [q EXCEPT ![k] = e] \in [1 .. Len(q) -> S]
  BY Zenon, <1>1
<1>3. QED
  BY <1>1, <1>2

(* ConnectMain keeps the invariant.                                          *)
LEMMA MainKeeps ==
    ASSUME PoolInv, ConnectMain
    PROVE  PoolInv'
<1> cn \in PoolRec /\ PlacesInv /\ TrustInv /\ PromptInv /\ TriesInv /\ AliveInv /\ DryWritesNothing
  BY DEF PoolInv
<1> DEFINE to == IF cn.job.url = "sftp" THEN "connect" ELSE "open"
<1>1. /\ cn \in PoolRec /\ cn.at[1] = "start" /\ to \in ConnPCs
      /\ cn' = [cn EXCEPT !.at[1] = to]
  BY ConnectorKinds DEF ConnectMain, ConnAt, ConnPCs
<1>2. cn' \in PoolRec
  BY Zenon, <1>1, ConnectorKinds DEF PoolRec
<1>3. /\ cn'.job = cn.job /\ cn'.known = cn.known /\ cn'.before = cn.before
      /\ cn'.accepted = cn.accepted /\ cn'.at = [cn.at EXCEPT ![1] = to]
      /\ cn'.rejected = cn.rejected /\ cn'.prompts = cn.prompts /\ cn'.made = cn.made
      /\ cn'.alive = cn.alive /\ cn'.conns = cn.conns /\ cn'.slots = cn.slots
      /\ cn'.lock = cn.lock /\ cn'.slot = cn.slot /\ cn'.written = cn.written
  BY <1>1 DEF PoolRec
<1>4. \A c \in Connectors : c # 1 => cn'.at[c] = cn.at[c] /\ cn.at[c] = "idle"
  BY <1>1, <1>3, ConnectorKinds DEF PlacesInv, PoolRec
<1>5. cn'.at[1] = to /\ cn.alive = {}
  BY <1>1, <1>3, <1>4, ConnectorKinds DEF AliveInv, PoolRec
<1>6. PlacesInv'
  BY <1>1, <1>3, <1>4, <1>5, ConnectorKinds DEF PlacesInv
<1>7. TrustInv'
  BY <1>1, <1>3, <1>4, <1>5 DEF TrustInv, Trusted
<1>8. PromptInv' /\ TriesInv'
  BY <1>1, <1>3, <1>5 DEF PromptInv, TriesInv, HostKnown
<1>9. AliveInv'
  BY <1>1, <1>3, <1>4, <1>5, ConnectorKinds DEF AliveInv, Replacing
<1>10. QED
  BY <1>2, <1>3, <1>6, <1>7, <1>8, <1>9 DEF PoolInv, DryWritesNothing

(* ConnectFurther keeps the invariant: no connection but the first is open.  *)
LEMMA FurtherKeeps ==
    ASSUME PoolInv, ConnectFurther
    PROVE  PoolInv'
<1> cn \in PoolRec /\ PlacesInv /\ TrustInv /\ PromptInv /\ TriesInv /\ AliveInv /\ DryWritesNothing
  BY DEF PoolInv
<1> DEFINE at == [c \in DOMAIN cn.at |-> IF c \in 2 .. MaxConnections THEN "connect" ELSE cn.at[c]]
<1>1. /\ cn \in PoolRec /\ cn.at[1] = "connected" /\ cn' = [cn EXCEPT !.at = at]
      /\ \A k \in Further : cn.at[k] = "idle"
  BY ConnectorKinds DEF PlacesInv, ConnectFurther, ConnAt, Further
<1>2. /\ at \in [Connectors -> ConnPCs]
      /\ \A c \in Connectors : at[c] = IF c \in Further THEN "connect" ELSE cn.at[c]
  BY <1>1 DEF PoolRec, ConnPCs, Further
<1> HIDE DEF at
<1>3. cn' \in PoolRec
  BY ZenonT(40), <1>1, <1>2 DEF PoolRec
<1>4. /\ cn'.job = cn.job /\ cn'.known = cn.known /\ cn'.before = cn.before
      /\ cn'.accepted = cn.accepted /\ cn'.at = at /\ cn'.rejected = cn.rejected
      /\ cn'.prompts = cn.prompts /\ cn'.made = cn.made /\ cn'.alive = cn.alive
      /\ cn'.conns = cn.conns /\ cn'.slots = cn.slots /\ cn'.lock = cn.lock /\ cn'.slot = cn.slot
      /\ cn'.written = cn.written
  BY <1>1 DEF PoolRec
<1>5. /\ \A c \in Connectors : c \notin Further => cn'.at[c] = cn.at[c]
      /\ \A c \in Further : cn'.at[c] = "connect"
  BY <1>2, <1>4, ConnectorKinds
<1>6. PlacesInv'
  BY <1>1, <1>4, <1>5, ConnectorKinds DEF PlacesInv
<1>7. TrustInv'
  BY <1>1, <1>4, <1>5 DEF TrustInv, Trusted
<1>8. PromptInv' /\ TriesInv'
  BY <1>1, <1>4, <1>5, ConnectorKinds DEF PromptInv, TriesInv, HostKnown
<1>9. AliveInv'
  BY <1>1, <1>4, <1>5, ConnectorKinds DEF AliveInv, Replacing
<1>10. QED
  BY <1>3, <1>4, <1>6, <1>7, <1>8, <1>9 DEF PoolInv, DryWritesNothing

(* PoolOpened keeps the invariant: each connection that was made gets a slot.*)
LEMMA OpenedKeeps ==
    ASSUME PoolInv, PoolOpened
    PROVE  PoolInv'
<1> cn \in PoolRec /\ PlacesInv /\ TrustInv /\ PromptInv /\ TriesInv /\ AliveInv /\ DryWritesNothing
  BY DEF PoolInv
<1>1. PICK n \in 1 .. MaxConnections : \E got \in [1 .. n -> 1 .. MaxConnections] :
         /\ {got[k] : k \in 1 .. n} = {c \in 1 .. MaxConnections : ConnAt(c, "connected")}
         /\ cn' = [cn EXCEPT !.at[MainConnection] = "open",
                             !.slots = [k \in 1 .. n |-> cn.conns[got[k]]],
                             !.lock = [k \in 1 .. n |-> "free"]]
  BY Zenon DEF PoolOpened
<1>2. PICK got \in [1 .. n -> 1 .. MaxConnections] :
         /\ {got[k] : k \in 1 .. n} = {c \in 1 .. MaxConnections : ConnAt(c, "connected")}
         /\ cn' = [cn EXCEPT !.at[MainConnection] = "open",
                             !.slots = [k \in 1 .. n |-> cn.conns[got[k]]],
                             !.lock = [k \in 1 .. n |-> "free"]]
  BY Zenon, <1>1
<1> DEFINE slots == [k \in 1 .. n |-> cn.conns[got[k]]]
           free == [k \in 1 .. n |-> "free"]
<1>3. /\ cn \in PoolRec /\ cn.at[1] = "connected" /\ n \in Nat /\ n >= 1
      /\ \A k \in Further : cn.at[k] \in {"connected", "failed"}
      /\ cn' = [cn EXCEPT !.at[1] = "open", !.slots = slots, !.lock = free]
  BY <1>2, ConnectionsAssumption, ConnectorKinds DEF PoolOpened, ConnAt, Further
<1>4. /\ slots \in Seq(Conn) /\ free \in Seq({"free", "held"}) /\ slots # <<>>
      /\ DOMAIN slots = 1 .. n /\ DOMAIN free = 1 .. n
      /\ \A k \in 1 .. n : /\ slots[k] = cn.conns[got[k]] /\ free[k] = "free"
                           /\ got[k] \in Connectors /\ cn.at[got[k]] = "connected"
      /\ \A c \in 1 .. MaxConnections : cn.at[c] = "connected" => \E k \in 1 .. n : got[k] = c
  <2>1. \A k \in 1 .. n : got[k] \in Connectors /\ cn.at[got[k]] = "connected"
    BY <1>2, ConnectorKinds DEF ConnAt
  <2>2. \A c \in 1 .. MaxConnections : cn.at[c] = "connected" => \E k \in 1 .. n : got[k] = c
    BY <1>2 DEF ConnAt
  <2>3. \A k \in 1 .. n : cn.conns[got[k]] \in Conn
    BY <1>3, <2>1 DEF PoolRec
  <2>4. slots \in Seq(Conn) /\ DOMAIN slots = 1 .. n /\ slots # <<>>
    BY <1>3, <2>3
  <2>5. free \in Seq({"free", "held"}) /\ DOMAIN free = 1 .. n
    BY <1>3
  <2>6. QED
    BY <2>1, <2>2, <2>4, <2>5
<1> HIDE DEF slots, free
<1>5. cn' \in PoolRec
  BY Zenon, <1>3, <1>4, ConnectorKinds DEF PoolRec, ConnPCs
<1>6. /\ cn'.job = cn.job /\ cn'.known = cn.known /\ cn'.before = cn.before
      /\ cn'.accepted = cn.accepted /\ cn'.at = [cn.at EXCEPT ![1] = "open"]
      /\ cn'.rejected = cn.rejected /\ cn'.prompts = cn.prompts /\ cn'.made = cn.made
      /\ cn'.alive = cn.alive /\ cn'.conns = cn.conns /\ cn'.slots = slots /\ cn'.lock = free
      /\ cn'.slot = cn.slot /\ cn'.written = cn.written
  BY <1>3 DEF PoolRec
<1>7. /\ \A c \in Connectors : c # 1 => cn'.at[c] = cn.at[c]
      /\ cn'.at[1] = "open"
      /\ \A c \in PoolUsers : cn.at[c] = "idle"
  BY <1>3, <1>6, ConnectorKinds DEF PlacesInv, PoolRec
<1>8. PlacesInv'
  BY <1>3, <1>4, <1>6, <1>7, ConnectorKinds DEF PlacesInv
<1>9. TrustInv'
  <2>1. \A key : Trusted(key)' <=> Trusted(key)
    BY <1>6 DEF Trusted
  <2>2. ASSUME NEW k \in 1 .. n PROVE Trusted(slots[k].key)
    <3>1. slots[k] = cn.conns[got[k]] /\ got[k] \in Connectors /\ cn.at[got[k]] = "connected"
      BY <1>4
    <3>2. QED
      BY <3>1 DEF TrustInv
  <2>3. \A c \in Connectors : cn'.at[c] \in {"login", "connected"} => Trusted(cn.conns[c].key)
    BY <1>7 DEF TrustInv
  <2>4. QED
    BY <1>4, <1>6, <2>1, <2>2, <2>3 DEF TrustInv
<1>10. PromptInv' /\ TriesInv'
  BY <1>3, <1>6, <1>7, ConnectorKinds DEF PromptInv, TriesInv, HostKnown
<1>11. AliveInv'
  <2>1. ASSUME NEW k \in 1 .. n PROVE slots[k].id <= cn.made
    <3>1. slots[k] = cn.conns[got[k]] /\ got[k] \in Connectors
      BY <1>4
    <3>2. QED
      BY <3>1 DEF AliveInv
  <2>2. ASSUME NEW id \in cn.alive PROVE \E k \in 1 .. n : slots[k].id = id
    <3>1. PICK c \in 1 .. MaxConnections : cn.at[c] = "connected" /\ cn.conns[c].id = id
      BY <1>3 DEF AliveInv
    <3>2. PICK k \in 1 .. n : got[k] = c
      BY <1>4, <3>1
    <3>3. QED
      BY <1>4, <3>1, <3>2
  <2>3. \A c \in PoolUsers : ~Replacing(c)'
    BY <1>7, ConnectorKinds DEF Replacing
  <2>4. DOMAIN cn'.slots = 1 .. n /\ cn'.slots = slots
    BY <1>4, <1>6
  <2>5. (\A id \in cn.alive : id <= cn.made) /\ \A c \in Connectors : cn.conns[c].id <= cn.made
    BY DEF AliveInv
  <2>6. QED
    BY SMTT(20), <1>6, <1>7, <2>1, <2>2, <2>3, <2>4, <2>5 DEF AliveInv
<1>12. QED
  BY <1>5, <1>6, <1>8, <1>9, <1>10, <1>11 DEF PoolInv, DryWritesNothing

(* ConnectionDies keeps the invariant.                                       *)
LEMMA DeathKeeps ==
    ASSUME PoolInv, ConnectionDies
    PROVE  PoolInv'
<1> cn \in PoolRec /\ PlacesInv /\ TrustInv /\ PromptInv /\ TriesInv /\ AliveInv /\ DryWritesNothing
  BY DEF PoolInv
<1>1. PICK id \in cn.alive : cn' = [cn EXCEPT !.alive = @ \ {id}, !.deaths = @ + 1]
  BY Zenon DEF ConnectionDies
<1>2. cn \in PoolRec /\ cn' \in PoolRec
  <2>1. cn \in PoolRec /\ cn.alive \ {id} \in SUBSET Nat /\ cn.deaths + 1 \in Nat
    BY SMTT(20) DEF PoolRec
  <2>2. QED
    BY Zenon, <1>1, <2>1 DEF PoolRec
<1>3. /\ cn'.job = cn.job /\ cn'.known = cn.known /\ cn'.before = cn.before
      /\ cn'.accepted = cn.accepted /\ cn'.at = cn.at /\ cn'.rejected = cn.rejected
      /\ cn'.prompts = cn.prompts /\ cn'.made = cn.made /\ cn'.alive = cn.alive \ {id}
      /\ cn'.conns = cn.conns /\ cn'.slots = cn.slots /\ cn'.lock = cn.lock /\ cn'.slot = cn.slot
      /\ cn'.written = cn.written
  BY <1>1, <1>2 DEF PoolRec
<1>4. PlacesInv'
  BY <1>3 DEF PlacesInv
<1>5. TrustInv'
  BY <1>3 DEF TrustInv, Trusted
<1>6. PromptInv' /\ TriesInv'
  BY <1>3 DEF PromptInv, TriesInv, HostKnown
<1>7. AliveInv'
  BY <1>3 DEF AliveInv, Replacing
<1>8. QED
  BY <1>2, <1>3, <1>4, <1>5, <1>6, <1>7 DEF PoolInv, DryWritesNothing

(* KeyRotates keeps the invariant: what was trusted is what was looked at.   *)
LEMMA RotationKeeps ==
    ASSUME PoolInv, KeyRotates
    PROVE  PoolInv'
<1> cn \in PoolRec /\ PlacesInv /\ TrustInv /\ PromptInv /\ TriesInv /\ AliveInv /\ DryWritesNothing
  BY DEF PoolInv
<1>1. cn \in PoolRec /\ cn' = [cn EXCEPT !.job.key = 2] /\ cn.job \in Opening
  BY DEF KeyRotates, PoolRec
<1>2. [cn.job EXCEPT !.key = 2] \in Opening
  BY <1>1 DEF Opening
<1>3. cn' \in PoolRec
  BY Zenon, <1>1, <1>2 DEF PoolRec
<1>4. /\ cn'.job = [cn.job EXCEPT !.key = 2] /\ cn'.known = cn.known /\ cn'.before = cn.before
      /\ cn'.accepted = cn.accepted /\ cn'.at = cn.at /\ cn'.rejected = cn.rejected
      /\ cn'.prompts = cn.prompts /\ cn'.made = cn.made /\ cn'.alive = cn.alive
      /\ cn'.conns = cn.conns /\ cn'.slots = cn.slots /\ cn'.lock = cn.lock /\ cn'.slot = cn.slot
      /\ cn'.written = cn.written
  BY <1>1 DEF PoolRec
<1>5. cn'.job.url = cn.job.url /\ cn'.job.port22 = cn.job.port22 /\ cn'.job.dry = cn.job.dry
  BY <1>1, <1>4 DEF Opening
<1>6. \A lines : LinesOfHost(cn'.job, lines) = LinesOfHost(cn.job, lines)
  BY <1>5 DEF LinesOfHost, HostPort
<1>7. PlacesInv'
  BY <1>4, <1>5 DEF PlacesInv
<1>8. TrustInv'
  BY <1>4, <1>6 DEF TrustInv, Trusted
<1>9. PromptInv' /\ TriesInv'
  BY <1>4, <1>5, <1>6 DEF PromptInv, TriesInv, HostKnown
<1>10. AliveInv'
  BY <1>4 DEF AliveInv, Replacing
<1>11. QED
  BY <1>3, <1>4, <1>5, <1>7, <1>8, <1>9, <1>10 DEF PoolInv, DryWritesNothing

(* A connector that gives up keeps the invariant.                            *)
LEMMA UnconnectedKeeps ==
    ASSUME PoolInv, NEW c \in Connectors, cn.at[c] \in {"connect", "prompt", "login"},
           cn' = Unconnected(cn, c)
    PROVE  PoolInv'
<1> cn \in PoolRec /\ PlacesInv /\ TrustInv /\ PromptInv /\ TriesInv /\ AliveInv /\ DryWritesNothing
  BY DEF PoolInv
<1> DEFINE free == IF c \in PoolUsers THEN [cn.lock EXCEPT ![cn.slot[c]] = "free"] ELSE cn.lock
<1>1. cn \in PoolRec /\ DOMAIN cn.lock = DOMAIN cn.slots
  BY DEF PlacesInv
<1>2. cn' = [cn EXCEPT !.at[c] = "failed", !.lock = free]
  BY Zenon, <1>1 DEF Unconnected, PoolRec
<1>3. /\ free \in Seq({"free", "held"}) /\ DOMAIN free = DOMAIN cn.lock
      /\ \A k \in DOMAIN cn.lock : (c \in PoolUsers => k # cn.slot[c]) => free[k] = cn.lock[k]
  <2>1. cn.lock \in Seq({"free", "held"})
    BY <1>1 DEF PoolRec
  <2>2. QED
    BY <2>1, SlotSet
<1> HIDE DEF free
<1>4. cn' \in PoolRec
  <2>1. [cn.at EXCEPT ![c] = "failed"] \in [Connectors -> ConnPCs]
    BY <1>1 DEF PoolRec, ConnPCs
  <2>2. QED
    BY ZenonT(40), <1>1, <1>2, <1>3, <2>1 DEF PoolRec
<1>5. /\ cn'.job = cn.job /\ cn'.known = cn.known /\ cn'.before = cn.before
      /\ cn'.accepted = cn.accepted /\ cn'.at = [cn.at EXCEPT ![c] = "failed"]
      /\ cn'.rejected = cn.rejected /\ cn'.prompts = cn.prompts /\ cn'.made = cn.made
      /\ cn'.alive = cn.alive /\ cn'.conns = cn.conns /\ cn'.slots = cn.slots /\ cn'.lock = free
      /\ cn'.slot = cn.slot /\ cn'.written = cn.written
  BY <1>1, <1>2 DEF PoolRec
<1>6. cn'.at[c] = "failed" /\ \A d \in Connectors : d # c => cn'.at[d] = cn.at[d]
  BY <1>1, <1>5 DEF PoolRec
<1>7. PlacesInv'
  BY <1>1, <1>3, <1>5, <1>6, ConnectorKinds DEF PlacesInv
<1>8. TrustInv'
  BY <1>5, <1>6 DEF TrustInv, Trusted
<1>9. PromptInv' /\ TriesInv'
  BY <1>5, <1>6, ConnectorKinds DEF PromptInv, TriesInv, HostKnown
<1>10. AliveInv'
  <2>1. \A d \in PoolUsers : Replacing(d)' => Replacing(d) /\ d # c /\ cn.slot[d] \in DOMAIN cn.lock
    BY <1>1, <1>6, ConnectorKinds DEF Replacing, PlacesInv
  <2>2. \A d \in PoolUsers : Replacing(d)' => cn'.lock[cn.slot[d]] = "held"
    <3> SUFFICES ASSUME NEW d \in PoolUsers, Replacing(d)' PROVE free[cn.slot[d]] = "held"
      BY <1>5
    <3>1. cn.lock[cn.slot[d]] = "held" /\ cn.slot[d] \in DOMAIN cn.lock /\ Replacing(d) /\ d # c
      BY <2>1 DEF AliveInv
    <3>2. c \in PoolUsers => Replacing(c)
      BY ConnectorKinds DEF PlacesInv, Replacing
    <3>3. c \in PoolUsers => cn.slot[c] # cn.slot[d]
      BY <3>1, <3>2 DEF AliveInv
    <3>4. QED
      BY <1>3, <3>1, <3>3
  <2>3. cn'.at[1] = "open" <=> cn.at[1] = "open"
    BY <1>6, ConnectorKinds
  <2>4. \A d \in 1 .. MaxConnections : cn.at[d] = "connected" => cn'.at[d] = "connected"
    BY <1>6, ConnectorKinds
  <2>5. QED
    BY <1>5, <2>1, <2>2, <2>3, <2>4 DEF AliveInv, Replacing
<1>11. QED
  BY <1>4, <1>5, <1>7, <1>8, <1>9, <1>10 DEF PoolInv, DryWritesNothing

(* A connector whose server shows a key of known_hosts goes on to log in.    *)
LEMMA KnownKeeps ==
    ASSUME PoolInv, NEW c \in Connectors, cn.at[c] = "connect", KeyVerdict(cn.job, cn.known) = "known",
           cn' = [cn EXCEPT !.at[c] = "login", !.conns[c].key = cn.job.key]
    PROVE  PoolInv'
<1> cn \in PoolRec /\ PlacesInv /\ TrustInv /\ PromptInv /\ TriesInv /\ AliveInv /\ DryWritesNothing
  BY DEF PoolInv
<1> DEFINE conn == [cn.conns[c] EXCEPT !.key = cn.job.key]
<1>1. cn \in PoolRec /\ cn.job \in Opening /\ cn.conns[c] \in Conn
  BY DEF PoolRec
<1>2. conn \in Conn /\ conn.key = cn.job.key /\ conn.id = cn.conns[c].id
  BY <1>1 DEF Conn, Opening
<1>3. cn' = [cn EXCEPT !.at[c] = "login", !.conns[c] = conn]
  BY <1>1 DEF PoolRec
<1> HIDE DEF conn
<1>4. cn' \in PoolRec
  <2>1. [cn.at EXCEPT ![c] = "login"] \in [Connectors -> ConnPCs] /\ [cn.conns EXCEPT ![c] = conn] \in [Connectors -> Conn]
    BY <1>1, <1>2 DEF PoolRec, ConnPCs
  <2>2. QED
    BY ZenonT(40), <1>1, <1>3, <2>1 DEF PoolRec
<1>5. /\ cn'.job = cn.job /\ cn'.known = cn.known /\ cn'.before = cn.before
      /\ cn'.accepted = cn.accepted /\ cn'.at = [cn.at EXCEPT ![c] = "login"]
      /\ cn'.rejected = cn.rejected /\ cn'.prompts = cn.prompts /\ cn'.made = cn.made
      /\ cn'.alive = cn.alive /\ cn'.conns = [cn.conns EXCEPT ![c] = conn] /\ cn'.slots = cn.slots
      /\ cn'.lock = cn.lock /\ cn'.slot = cn.slot /\ cn'.written = cn.written
  BY Zenon, <1>1, <1>3 DEF PoolRec
<1>6. /\ cn'.at[c] = "login" /\ cn'.conns[c] = conn
      /\ \A d \in Connectors : d # c => cn'.at[d] = cn.at[d] /\ cn'.conns[d] = cn.conns[d]
  BY <1>1, <1>5 DEF PoolRec
<1>7. HostKnown /\ Trusted(cn.job.key)
  <2>1. PICK l \in LinesOfHost(cn.job, cn.known) : l.key = cn.job.key
    BY DEF KeyVerdict
  <2>2. l \in cn.known /\ (l \in cn.before => l \in LinesOfHost(cn.job, cn.before))
    BY <2>1 DEF LinesOfHost
  <2>3. QED
    BY <2>1, <2>2 DEF HostKnown, Trusted, TrustInv
<1>8. PlacesInv'
  BY <1>5, <1>6, ConnectorKinds DEF PlacesInv
<1>9. TrustInv'
  <2>1. \A key : Trusted(key)' <=> Trusted(key)
    BY <1>5 DEF Trusted
  <2>2. QED
    BY <1>2, <1>5, <1>6, <1>7, <2>1 DEF TrustInv
<1>10. PromptInv' /\ TriesInv'
  BY <1>5, <1>6, <1>7, ConnectorKinds DEF PromptInv, TriesInv, HostKnown
<1>11. AliveInv'
  <2>1. \A d \in PoolUsers : Replacing(d)' <=> Replacing(d)
    BY <1>6, ConnectorKinds DEF Replacing
  <2>2. \A d \in Connectors : cn'.conns[d].id = cn.conns[d].id
    BY <1>2, <1>6
  <2>3. cn'.at[1] = "open" <=> cn.at[1] = "open"
    BY <1>6, ConnectorKinds
  <2>4. \A d \in 1 .. MaxConnections : cn.at[d] = "connected" => cn'.at[d] = "connected"
    BY <1>6, ConnectorKinds
  <2>5. QED
    BY <1>5, <2>1, <2>2, <2>3, <2>4, ConnectorKinds DEF AliveInv
<1>12. QED
  BY <1>4, <1>5, <1>8, <1>9, <1>10, <1>11 DEF PoolInv, DryWritesNothing

(* Only the first connection can meet a host that is not in known_hosts, and *)
(* only once.                                                                *)
LEMMA PromptKeeps ==
    ASSUME PoolInv, NEW c \in Connectors, cn.at[c] = "connect", KeyVerdict(cn.job, cn.known) = "unknown",
           cn' = [cn EXCEPT !.at[c] = "prompt", !.conns[c].key = cn.job.key, !.prompts = @ + 1]
    PROVE  PoolInv'
<1> cn \in PoolRec /\ PlacesInv /\ TrustInv /\ PromptInv /\ TriesInv /\ AliveInv /\ DryWritesNothing
  BY DEF PoolInv
<1> DEFINE conn == [cn.conns[c] EXCEPT !.key = cn.job.key]
<1>1. cn \in PoolRec /\ cn.job \in Opening /\ cn.conns[c] \in Conn
  BY DEF PoolRec
<1>2. conn \in Conn /\ conn.id = cn.conns[c].id
  BY <1>1 DEF Conn, Opening
<1>3. cn' = [cn EXCEPT !.at[c] = "prompt", !.conns[c] = conn, !.prompts = cn.prompts + 1]
  BY <1>1 DEF PoolRec
<1> HIDE DEF conn
<1>4. cn' \in PoolRec
  <2>1. /\ [cn.at EXCEPT ![c] = "prompt"] \in [Connectors -> ConnPCs] /\ cn.prompts + 1 \in Nat
        /\ [cn.conns EXCEPT ![c] = conn] \in [Connectors -> Conn]
    BY <1>1, <1>2 DEF PoolRec, ConnPCs
  <2>2. QED
    BY ZenonT(40), <1>1, <1>3, <2>1 DEF PoolRec
<1>5. /\ cn'.job = cn.job /\ cn'.known = cn.known /\ cn'.before = cn.before
      /\ cn'.accepted = cn.accepted /\ cn'.at = [cn.at EXCEPT ![c] = "prompt"]
      /\ cn'.rejected = cn.rejected /\ cn'.prompts = cn.prompts + 1 /\ cn'.made = cn.made
      /\ cn'.alive = cn.alive /\ cn'.conns = [cn.conns EXCEPT ![c] = conn] /\ cn'.slots = cn.slots
      /\ cn'.lock = cn.lock /\ cn'.slot = cn.slot /\ cn'.written = cn.written
  BY ZenonT(40), <1>1, <1>3 DEF PoolRec
<1>6. /\ cn'.at[c] = "prompt" /\ cn'.conns[c] = conn
      /\ \A d \in Connectors : d # c => cn'.at[d] = cn.at[d] /\ cn'.conns[d] = cn.conns[d]
  BY <1>1, <1>5 DEF PoolRec
<1>7. ~HostKnown
  BY DEF KeyVerdict, HostKnown
<1>8. c = 1
  <2>1. ~(cn.at[1] = "open" /\ cn.job.url = "sftp") /\ cn.at[1] # "connected"
    BY <1>7 DEF PromptInv
  <2>2. c \notin Further /\ c \notin PoolUsers
    BY <2>1 DEF PlacesInv
  <2>3. QED
    BY <2>2, ConnectorKinds
<1>9. cn.prompts = 0
  BY <1>1, <1>7, <1>8 DEF PromptInv, PoolRec
<1>10. PlacesInv'
  BY <1>5, <1>6, <1>8, ConnectorKinds DEF PlacesInv
<1>11. TrustInv'
  <2>1. \A key : Trusted(key)' <=> Trusted(key)
    BY <1>5 DEF Trusted
  <2>2. QED
    BY <1>2, <1>5, <1>6, <2>1 DEF TrustInv
<1>12. PromptInv' /\ TriesInv'
  BY <1>5, <1>6, <1>8, <1>9, ConnectorKinds DEF PromptInv, TriesInv, HostKnown
<1>13. AliveInv'
  <2>1. \A d \in PoolUsers : Replacing(d)' <=> Replacing(d)
    BY <1>6, <1>8, ConnectorKinds DEF Replacing
  <2>2. \A d \in Connectors : cn'.conns[d].id = cn.conns[d].id
    BY <1>2, <1>6
  <2>3. cn'.at[1] = "open" <=> cn.at[1] = "open"
    BY <1>6, ConnectorKinds
  <2>4. \A d \in 1 .. MaxConnections : cn.at[d] = "connected" => cn'.at[d] = "connected"
    BY <1>6, ConnectorKinds
  <2>5. QED
    BY <1>5, <2>1, <2>2, <2>3, <2>4, ConnectorKinds DEF AliveInv
<1>14. QED
  BY <1>4, <1>5, <1>10, <1>11, <1>12, <1>13 DEF PoolInv, DryWritesNothing

(* A key that the user accepts is written to known_hosts and trusted.        *)
LEMMA AcceptKeeps ==
    ASSUME PoolInv, NEW c \in Connectors, cn.at[c] = "prompt",
           NEW key, key = cn.conns[c].key, NEW line, line = [host |-> HostPort(cn.job), key |-> key],
           cn' = [cn EXCEPT !.known = cn.known \union {line}, !.accepted = cn.accepted \union {key}, !.at[c] = "login"]
    PROVE  PoolInv'
<1> cn \in PoolRec /\ PlacesInv /\ TrustInv /\ PromptInv /\ TriesInv /\ AliveInv /\ DryWritesNothing
  BY DEF PoolInv
<1>1. cn \in PoolRec /\ key \in Nat
  BY SMTT(20) DEF PoolRec, Conn
<1>2. line.host = HostPort(cn.job) /\ line.key = key /\ line \in KnownLine
  <2>1. HostPort(cn.job) \in {"name", "name:port", "other"}
    BY DEF HostPort
  <2>2. QED
    BY <1>1, <2>1 DEF KnownLine
<1>3. cn' = [cn EXCEPT !.known = cn.known \union {line}, !.accepted = cn.accepted \union {key}, !.at[c] = "login"]
  OBVIOUS
<1>4. c = 1
  BY ConnectorKinds DEF PlacesInv
<1>5. cn' \in PoolRec
  <2>1. /\ [cn.at EXCEPT ![c] = "login"] \in [Connectors -> ConnPCs]
        /\ cn.known \union {line} \in SUBSET KnownLine /\ cn.accepted \union {key} \in SUBSET Nat
    BY <1>1, <1>2 DEF PoolRec, ConnPCs
  <2>2. QED
    BY ZenonT(40), <1>1, <1>3, <2>1 DEF PoolRec
<1>6. /\ cn'.job = cn.job /\ cn'.known = cn.known \union {line} /\ cn'.before = cn.before
      /\ cn'.accepted = cn.accepted \union {key} /\ cn'.at = [cn.at EXCEPT ![c] = "login"]
      /\ cn'.rejected = cn.rejected /\ cn'.prompts = cn.prompts /\ cn'.made = cn.made
      /\ cn'.alive = cn.alive /\ cn'.conns = cn.conns /\ cn'.slots = cn.slots
      /\ cn'.lock = cn.lock /\ cn'.slot = cn.slot /\ cn'.written = cn.written
  BY <1>1, <1>3 DEF PoolRec
<1>7. cn'.at[c] = "login" /\ \A d \in Connectors : d # c => cn'.at[d] = cn.at[d]
  BY <1>1, <1>6 DEF PoolRec
<1>8. HostKnown'
  BY <1>2, <1>6 DEF HostKnown, LinesOfHost
<1>9. PlacesInv'
  <2>1. cn.at[1] = "prompt" /\ \A d \in Connectors : d # 1 => cn.at[d] = "idle" /\ cn'.at[d] = "idle"
    BY <1>4, <1>7, ConnectorKinds DEF PlacesInv
  <2>2. QED
    BY <1>4, <1>6, <1>7, <2>1, ConnectorKinds DEF PlacesInv
<1>10. TrustInv'
  <2>1. \A k : Trusted(k) \/ k = key => Trusted(k)'
    BY <1>6 DEF Trusted
  <2>2. \A l \in cn'.known : l \in cn'.before \/ l.key \in cn'.accepted
    BY <1>2, <1>6 DEF TrustInv
  <2>3. QED
    BY <1>6, <1>7, <2>1, <2>2 DEF TrustInv
<1>11. PromptInv' /\ TriesInv'
  BY <1>4, <1>6, <1>7, <1>8, ConnectorKinds DEF PromptInv, TriesInv
<1>12. AliveInv'
  <2>1. \A d \in PoolUsers : ~Replacing(d)'
    BY <1>4, <1>7, ConnectorKinds DEF PlacesInv, Replacing
  <2>2. cn'.at[1] # "open" /\ cn.at[1] # "open"
    BY <1>4, <1>7
  <2>3. \A d \in 1 .. MaxConnections : cn.at[d] = "connected" => cn'.at[d] = "connected"
    BY <1>7, ConnectorKinds
  <2>4. \A id \in cn.alive : \E d \in 1 .. MaxConnections : cn'.at[d] = "connected" /\ cn.conns[d].id = id
    BY <2>2, <2>3 DEF AliveInv
  <2>5. /\ \A id \in cn.alive : id <= cn.made
        /\ \A k \in DOMAIN cn.slots : cn.slots[k].id <= cn.made
        /\ \A d \in Connectors : cn.conns[d].id <= cn.made
    BY DEF AliveInv
  <2>6. QED
    BY <1>6, <2>1, <2>2, <2>4, <2>5 DEF AliveInv
<1>13. QED
  BY <1>5, <1>6, <1>9, <1>10, <1>11, <1>12 DEF PoolInv, DryWritesNothing

(* The numbers of connections that have been made.                           *)
LEMMA PoolIds ==
    ASSUME PoolInv
    PROVE  /\ \A k \in DOMAIN cn.slots : cn.slots[k].id <= cn.made /\ cn.slots[k].id \in Nat
           /\ \A id \in cn.alive : id <= cn.made /\ id \in Nat
           /\ \A d \in Connectors : cn.conns[d].id <= cn.made /\ cn.conns[d].id \in Nat
<1> cn \in PoolRec /\ PlacesInv /\ TrustInv /\ PromptInv /\ TriesInv /\ AliveInv /\ DryWritesNothing
  BY DEF PoolInv
<1>1. cn.slots \in Seq(Conn) /\ cn.alive \subseteq Nat /\ cn.conns \in [Connectors -> Conn]
  BY DEF PoolRec
<1>2. \A k \in DOMAIN cn.slots : cn.slots[k] \in Conn
  BY <1>1
<1>3. /\ \A id \in cn.alive : id <= cn.made
      /\ \A k \in DOMAIN cn.slots : cn.slots[k].id <= cn.made
      /\ \A c \in Connectors : cn.conns[c].id <= cn.made
  BY DEF AliveInv
<1>4. QED
  BY <1>1, <1>2, <1>3 DEF Conn

(* The first connection and the further ones: the pool is not open yet.      *)
LEMMA ConnectedKeeps ==
    ASSUME PoolInv, NEW c \in Connectors, c \notin PoolUsers, cn.at[c] = "login",
           NEW conn, conn = [cn.conns[c] EXCEPT !.id = cn.made + 1],
           cn' = [cn EXCEPT !.made = cn.made + 1, !.alive = cn.alive \union {cn.made + 1},
                            !.at[c] = "connected", !.conns[c] = conn]
    PROVE  PoolInv'
<1> cn \in PoolRec /\ PlacesInv /\ TrustInv /\ PromptInv /\ TriesInv /\ AliveInv /\ DryWritesNothing
  BY DEF PoolInv
<1>1. cn \in PoolRec /\ cn.conns[c] \in Conn /\ cn.made \in Nat
  BY DEF PoolRec
<1>2. conn \in Conn /\ conn.key = cn.conns[c].key /\ conn.id = cn.made + 1
  BY <1>1 DEF Conn
<1>3. cn' \in PoolRec
  <2>1. /\ [cn.at EXCEPT ![c] = "connected"] \in [Connectors -> ConnPCs] /\ cn.made + 1 \in Nat
        /\ [cn.conns EXCEPT ![c] = conn] \in [Connectors -> Conn] /\ cn.alive \union {cn.made + 1} \in SUBSET Nat
    BY <1>1, <1>2 DEF PoolRec, ConnPCs
  <2>2. QED
    BY ZenonT(40), <1>1, <2>1 DEF PoolRec
<1>4. /\ cn'.job = cn.job /\ cn'.known = cn.known /\ cn'.before = cn.before
      /\ cn'.accepted = cn.accepted /\ cn'.at = [cn.at EXCEPT ![c] = "connected"]
      /\ cn'.rejected = cn.rejected /\ cn'.prompts = cn.prompts /\ cn'.made = cn.made + 1
      /\ cn'.alive = cn.alive \union {cn.made + 1} /\ cn'.conns = [cn.conns EXCEPT ![c] = conn]
      /\ cn'.slots = cn.slots /\ cn'.lock = cn.lock /\ cn'.slot = cn.slot
      /\ cn'.written = cn.written
  BY <1>1 DEF PoolRec
<1>5. /\ cn'.at[c] = "connected" /\ cn'.conns[c] = conn
      /\ \A d \in Connectors : d # c => cn'.at[d] = cn.at[d] /\ cn'.conns[d] = cn.conns[d]
  BY <1>1, <1>4 DEF PoolRec
<1>6. /\ c \in 1 .. MaxConnections /\ cn.at[1] # "open" /\ cn'.at[1] # "open"
      /\ \A d \in PoolUsers : cn'.at[d] = "idle"
  BY <1>5, ConnectorKinds DEF PlacesInv
<1>7. PlacesInv'
  BY <1>4, <1>5, <1>6, ConnectorKinds DEF PlacesInv
<1>8. TrustInv'
  <2>1. \A key : Trusted(key)' <=> Trusted(key)
    BY <1>4 DEF Trusted
  <2>2. QED
    BY <1>2, <1>4, <1>5, <2>1 DEF TrustInv
<1>9. PromptInv' /\ TriesInv'
  BY <1>4, <1>5, <1>6, ConnectorKinds DEF PromptInv, TriesInv, HostKnown
<1>10. AliveInv'
  <2>1. \A d \in PoolUsers : ~Replacing(d)'
    BY <1>6 DEF Replacing
  <2>2. /\ \A id \in cn'.alive : id <= cn'.made
        /\ \A k \in DOMAIN cn.slots : cn.slots[k].id <= cn.made + 1
    BY <1>1, <1>4, PoolIds
  <2>3. \A d \in Connectors : cn'.conns[d].id <= cn'.made
    BY <1>1, <1>2, <1>4, <1>5, PoolIds
  <2>4. ASSUME NEW id \in cn'.alive
        PROVE  \E d \in 1 .. MaxConnections : cn'.at[d] = "connected" /\ cn'.conns[d].id = id
    <3>1. CASE id = cn.made + 1
      BY ZenonT(40), <1>2, <1>5, <1>6, <3>1
    <3>2. CASE id \in cn.alive
      <4>1. PICK d \in 1 .. MaxConnections : cn.at[d] = "connected" /\ cn.conns[d].id = id
        BY <1>6, <3>2 DEF AliveInv
      <4>2. QED
        BY <1>5, <4>1, ConnectorKinds
    <3>3. QED
      BY <1>4, <3>1, <3>2
  <2>5. QED
    BY <1>4, <1>6, <2>1, <2>2, <2>3, <2>4 DEF AliveInv
<1>11. QED
  BY <1>3, <1>4, <1>7, <1>8, <1>9, <1>10 DEF PoolInv, DryWritesNothing

(* A user's new connection takes the place of a dead one.                    *)
Replaced(c, slots, free) ==
    cn' = [cn EXCEPT !.made = cn.made + 1, !.alive = cn.alive \union {cn.made + 1},
                     !.slots = slots, !.lock = free, !.at[c] = "use"]

(* It keeps the invariant: the other slots are as they were.                 *)
LEMMA ReplacedKeeps ==
    ASSUME PoolInv, NEW c \in PoolUsers, cn.at[c] = "login",
           NEW conn \in Conn, conn.key = cn.conns[c].key, conn.id = cn.made + 1,
           NEW slots \in Seq(Conn), DOMAIN slots = DOMAIN cn.slots, slots[cn.slot[c]] = conn,
           \A k \in DOMAIN cn.slots : k # cn.slot[c] => slots[k] = cn.slots[k],
           NEW free \in Seq({"free", "held"}), DOMAIN free = DOMAIN cn.slots,
           \A k \in DOMAIN cn.slots : k # cn.slot[c] => free[k] = cn.lock[k],
           Replaced(c, slots, free)
    PROVE  PoolInv'
<1> cn \in PoolRec /\ PlacesInv /\ TrustInv /\ PromptInv /\ TriesInv /\ AliveInv /\ DryWritesNothing
  BY DEF PoolInv
<1>1. cn \in PoolRec /\ c \in Connectors /\ cn.conns[c] \in Conn /\ cn.made \in Nat
      /\ cn.slots \in Seq(Conn) /\ cn.lock \in Seq({"free", "held"})
  <2>1. cn \in PoolRec /\ c \in Connectors
    BY ConnectorKinds
  <2>2. QED
    BY SMTT(20), <2>1 DEF PoolRec
<1>2. /\ cn.at[1] = "open" /\ cn.slot[c] \in DOMAIN cn.slots /\ DOMAIN cn.lock = DOMAIN cn.slots
      /\ cn.job.url = "sftp" /\ c # 1
  BY ConnectorKinds DEF PlacesInv
<1>3. cn' \in PoolRec
  <2>1. /\ [cn.at EXCEPT ![c] = "use"] \in [Connectors -> ConnPCs] /\ cn.made + 1 \in Nat
        /\ cn.alive \union {cn.made + 1} \in SUBSET Nat
    BY <1>1 DEF PoolRec, ConnPCs
  <2>2. QED
    BY ZenonT(40), <1>1, <2>1 DEF PoolRec, Replaced
<1>4. /\ cn'.job = cn.job /\ cn'.known = cn.known /\ cn'.before = cn.before
      /\ cn'.accepted = cn.accepted /\ cn'.at = [cn.at EXCEPT ![c] = "use"]
      /\ cn'.rejected = cn.rejected /\ cn'.prompts = cn.prompts /\ cn'.made = cn.made + 1
      /\ cn'.alive = cn.alive \union {cn.made + 1} /\ cn'.conns = cn.conns /\ cn'.slots = slots
      /\ cn'.lock = free /\ cn'.slot = cn.slot /\ cn'.written = cn.written
  BY <1>1 DEF PoolRec, Replaced
<1>5. cn'.at[c] = "use" /\ \A d \in Connectors : d # c => cn'.at[d] = cn.at[d]
  BY <1>1, <1>4 DEF PoolRec
<1>6. PlacesInv'
  <2>1. slots # <<>>
    BY <1>2
  <2>2. QED
    BY <1>2, <1>4, <1>5, <2>1, ConnectorKinds DEF PlacesInv
<1>7. TrustInv'
  <2>1. \A key : Trusted(key)' <=> Trusted(key)
    BY <1>4 DEF Trusted
  <2>2. Trusted(conn.key)
    BY <1>1 DEF TrustInv
  <2>3. \A k \in DOMAIN slots : Trusted(slots[k].key)
    BY <2>2 DEF TrustInv
  <2>4. QED
    BY <1>4, <1>5, <2>1, <2>3 DEF TrustInv
<1>8. PromptInv' /\ TriesInv'
  BY SMTT(20), <1>2, <1>4, <1>5, ConnectorKinds DEF PromptInv, TriesInv, HostKnown
<1>9. AliveInv'
  <2>1. /\ \A k \in DOMAIN cn.slots : cn.slots[k].id <= cn.made /\ cn.slots[k].id \in Nat
        /\ \A id \in cn.alive : id <= cn.made /\ id \in Nat
        /\ \A d \in Connectors : cn.conns[d].id <= cn.made /\ cn.conns[d].id \in Nat
    BY PoolIds
  <2>2. /\ \A id \in cn'.alive : id <= cn'.made
        /\ \A d \in Connectors : cn'.conns[d].id <= cn'.made
    BY <1>1, <1>4, <2>1
  <2>3. ASSUME NEW k \in DOMAIN slots PROVE slots[k].id <= cn.made + 1
    <3>1. k # cn.slot[c] => slots[k] = cn.slots[k] /\ cn.slots[k].id <= cn.made /\ cn.slots[k].id \in Nat
      BY <2>1
    <3>2. QED
      BY <1>1, <3>1
  <2>4. ASSUME NEW id \in cn'.alive PROVE \E k \in DOMAIN slots : slots[k].id = id
    <3>1. CASE id = cn.made + 1
      BY <1>2, <3>1
    <3>2. CASE id \in cn.alive
      <4>1. PICK k \in DOMAIN cn.slots : cn.slots[k].id = id
        BY <1>2, <3>2 DEF AliveInv
      <4>2. cn.slots[cn.slot[c]].id \notin cn.alive
        BY DEF AliveInv, Replacing
      <4>3. QED
        BY <3>2, <4>1, <4>2
    <3>3. QED
      BY <1>4, <3>1, <3>2
  <2>5. \A d \in PoolUsers : Replacing(d)' => Replacing(d) /\ d # c
    BY SMTT(20), <1>5, ConnectorKinds DEF Replacing
  <2>6. ASSUME NEW d \in PoolUsers, Replacing(d)'
        PROVE  free[cn.slot[d]] = "held" /\ slots[cn.slot[d]].id \notin cn'.alive
    <3>1. cn.lock[cn.slot[d]] = "held" /\ cn.slots[cn.slot[d]].id \notin cn.alive /\ cn.slot[d] # cn.slot[c]
      BY <2>5, <2>6 DEF AliveInv, Replacing
    <3>2. cn.slot[d] \in DOMAIN cn.slots
      BY <2>5, <2>6 DEF PlacesInv, Replacing
    <3>3. slots[cn.slot[d]] = cn.slots[cn.slot[d]] /\ free[cn.slot[d]] = cn.lock[cn.slot[d]]
      BY <3>1, <3>2
    <3>4. QED
      BY SMTT(20), <1>1, <1>4, <2>1, <3>1, <3>2, <3>3
  <2>7. \A d, e \in PoolUsers : Replacing(d)' /\ Replacing(e)' /\ cn.slot[d] = cn.slot[e] => d = e
    BY <2>5 DEF AliveInv
  <2>8. cn'.at[1] = "open"
    BY <1>2, <1>5, ConnectorKinds
  <2>9. \A k \in DOMAIN cn'.slots : cn'.slots[k].id <= cn'.made
    BY ZenonT(20), <1>4, <2>3
  <2>10. \A id \in cn'.alive : \E k \in DOMAIN cn'.slots : cn'.slots[k].id = id
    BY ZenonT(20), <1>4, <2>4
  <2>11. \A d \in PoolUsers :
           Replacing(d)' => cn'.lock[cn'.slot[d]] = "held" /\ cn'.slots[cn'.slot[d]].id \notin cn'.alive
    BY ZenonT(20), <1>4, <2>6
  <2>12. \A d, e \in PoolUsers : Replacing(d)' /\ Replacing(e)' /\ cn'.slot[d] = cn'.slot[e] => d = e
    BY ZenonT(20), <1>4, <2>7
  <2>13. QED
    BY ZenonT(20), <2>2, <2>8, <2>9, <2>10, <2>11, <2>12 DEF AliveInv
<1>10. QED
  BY <1>3, <1>4, <1>6, <1>7, <1>8, <1>9 DEF PoolInv, DryWritesNothing

(* A password that is refused.                                               *)
LEMMA RejectedKeeps ==
    ASSUME PoolInv, cn.at[1] = "login", NEW to \in {"connect", "failed"}, to = "connect" => TriesAgain(cn),
           cn' = [cn EXCEPT !.rejected = cn.rejected + 1, !.at[1] = to]
    PROVE  PoolInv'
<1> cn \in PoolRec /\ PlacesInv /\ TrustInv /\ PromptInv /\ TriesInv /\ AliveInv /\ DryWritesNothing
  BY DEF PoolInv
<1>1. cn \in PoolRec /\ to \in {"connect", "failed"} /\ cn.rejected \in Nat
  BY DEF PoolRec
<1>2. cn' \in PoolRec
  <2>1. to \in ConnPCs
    BY <1>1 DEF ConnPCs
  <2>2. cn.at \in [Connectors -> ConnPCs] /\ cn.rejected + 1 \in Nat
    BY <1>1 DEF PoolRec
  <2>3. [cn.at EXCEPT ![1] = to] \in [Connectors -> ConnPCs]
    BY Zenon, <2>1, <2>2
  <2>4. QED
    BY Zenon, <1>1, <2>2, <2>3 DEF PoolRec
<1>3. /\ cn'.job = cn.job /\ cn'.known = cn.known /\ cn'.before = cn.before
      /\ cn'.accepted = cn.accepted /\ cn'.at = [cn.at EXCEPT ![1] = to]
      /\ cn'.rejected = cn.rejected + 1 /\ cn'.prompts = cn.prompts /\ cn'.made = cn.made
      /\ cn'.alive = cn.alive /\ cn'.conns = cn.conns /\ cn'.slots = cn.slots
      /\ cn'.lock = cn.lock /\ cn'.slot = cn.slot /\ cn'.written = cn.written
  BY <1>1 DEF PoolRec
<1>4. cn'.at[1] = to /\ \A d \in Connectors : d # 1 => cn'.at[d] = cn.at[d] /\ cn.at[d] = "idle"
  BY <1>1, <1>3, ConnectorKinds DEF PoolRec, PlacesInv
<1>5. PlacesInv'
  BY <1>1, <1>3, <1>4, ConnectorKinds DEF PlacesInv
<1>6. TrustInv'
  BY <1>1, <1>3, <1>4 DEF TrustInv, Trusted
<1>7. PromptInv'
  BY <1>1, <1>3, <1>4 DEF PromptInv, HostKnown
<1>8. TriesInv'
  <2>1. cn.rejected < MaxPasswords /\ (to = "connect" => cn.rejected < MaxPasswords - 1)
    BY DEF TriesInv, TriesAgain
  <2>2. QED
    BY <1>1, <1>3, <1>4, <2>1, ConnectionsAssumption DEF TriesInv
<1>9. AliveInv'
  <2>1. \A d \in PoolUsers : ~Replacing(d)'
    BY <1>4, ConnectorKinds DEF Replacing
  <2>2. cn.alive = {}
    BY <1>4, ConnectorKinds DEF AliveInv
  <2>3. QED
    BY <1>1, <1>3, <1>4, <2>1, <2>2 DEF AliveInv
<1>10. QED
  BY <1>2, <1>3, <1>5, <1>6, <1>7, <1>8, <1>9 DEF PoolInv, DryWritesNothing

(* A step of a user that opens and closes no connection and holds no lock    *)
(* after it.                                                                 *)
UserMoves(c, to, k, n, w) ==
    cn' = [cn EXCEPT !.at[c] = to, !.slot[c] = k, !.next = n, !.written = w]

(* It keeps the invariant.                                                   *)
LEMMA UserKeeps ==
    ASSUME PoolInv, NEW c \in PoolUsers, cn.at[c] \in {"idle", "lock", "use"}, cn.at[1] = "open",
           NEW to \in {"lock", "use", "sent"}, NEW k \in Nat, NEW n \in Nat, NEW w \in BOOLEAN,
           to = "sent" \/ (cn.job.url = "sftp" /\ k \in DOMAIN cn.slots),
           cn.job.dry /\ ~cn.written => ~w,
           UserMoves(c, to, k, n, w)
    PROVE  PoolInv'
<1> cn \in PoolRec /\ PlacesInv /\ TrustInv /\ PromptInv /\ TriesInv /\ AliveInv /\ DryWritesNothing
  BY DEF PoolInv
<1>1. cn \in PoolRec /\ c \in Connectors /\ c # 1
  BY ConnectorKinds
<1>2. /\ cn.at \in [Connectors -> ConnPCs] /\ to \in ConnPCs
      /\ cn.slot \in [PoolUsers -> Nat]
  BY <1>1 DEF PoolRec, ConnPCs
<1>3. /\ [cn.at EXCEPT ![c] = to] \in [Connectors -> ConnPCs]
      /\ [cn.slot EXCEPT ![c] = k] \in [PoolUsers -> Nat]
  BY Zenon, <1>2
<1>4. cn' \in PoolRec
  BY ZenonT(40), <1>1, <1>3 DEF PoolRec, UserMoves
<1>5. /\ cn'.job = cn.job /\ cn'.known = cn.known /\ cn'.before = cn.before
      /\ cn'.accepted = cn.accepted /\ cn'.at = [cn.at EXCEPT ![c] = to]
      /\ cn'.rejected = cn.rejected /\ cn'.prompts = cn.prompts /\ cn'.made = cn.made
      /\ cn'.alive = cn.alive /\ cn'.conns = cn.conns /\ cn'.slots = cn.slots
      /\ cn'.lock = cn.lock /\ cn'.slot = [cn.slot EXCEPT ![c] = k] /\ cn'.written = w
  BY <1>1 DEF PoolRec, UserMoves
<1>6. /\ cn'.at[c] = to /\ \A d \in Connectors : d # c => cn'.at[d] = cn.at[d]
      /\ cn'.slot[c] = k /\ \A d \in PoolUsers : d # c => cn'.slot[d] = cn.slot[d]
  BY <1>1, <1>2, <1>5
<1>7. PlacesInv'
  BY SMTT(20), <1>1, <1>5, <1>6, ConnectorKinds DEF PlacesInv
<1>8. TrustInv'
  BY <1>5, <1>6 DEF TrustInv, Trusted
<1>9. PromptInv' /\ TriesInv'
  BY SMTT(20), <1>1, <1>5, <1>6, ConnectorKinds DEF PromptInv, TriesInv, HostKnown
<1>10. AliveInv'
  <2>1. \A d \in PoolUsers : Replacing(d)' => Replacing(d) /\ d # c
    BY <1>6, ConnectorKinds DEF Replacing
  <2>2. cn'.at[1] = "open"
    BY <1>1, <1>6, ConnectorKinds
  <2>3. QED
    BY <1>5, <1>6, <2>1, <2>2 DEF AliveInv
<1>11. QED
  BY <1>4, <1>5, <1>7, <1>8, <1>9, <1>10 DEF PoolInv, DryWritesNothing

(* A user that finds the connection of its slot dead takes the slot's lock,  *)
(* which nobody holds who is replacing another one.                          *)
LEMMA ReplaceKeeps ==
    ASSUME PoolInv, NEW c \in PoolUsers, cn.at[c] = "lock", cn.lock[cn.slot[c]] = "free",
           cn.slots[cn.slot[c]].id \notin cn.alive,
           NEW held \in Seq({"free", "held"}), DOMAIN held = DOMAIN cn.lock, held[cn.slot[c]] = "held",
           \A k \in DOMAIN cn.lock : k # cn.slot[c] => held[k] = cn.lock[k],
           cn' = [cn EXCEPT !.at[c] = "connect", !.lock = held]
    PROVE  PoolInv'
<1> cn \in PoolRec /\ PlacesInv /\ TrustInv /\ PromptInv /\ TriesInv /\ AliveInv /\ DryWritesNothing
  BY DEF PoolInv
<1>1. cn \in PoolRec /\ c \in Connectors /\ c # 1
  BY ConnectorKinds
<1>2. cn.at \in [Connectors -> ConnPCs] /\ "connect" \in ConnPCs
  BY <1>1 DEF PoolRec, ConnPCs
<1>3. [cn.at EXCEPT ![c] = "connect"] \in [Connectors -> ConnPCs]
  BY Zenon, <1>2
<1>4. cn' \in PoolRec
  BY ZenonT(40), <1>1, <1>3 DEF PoolRec
<1>5. /\ cn'.job = cn.job /\ cn'.known = cn.known /\ cn'.before = cn.before
      /\ cn'.accepted = cn.accepted /\ cn'.at = [cn.at EXCEPT ![c] = "connect"]
      /\ cn'.rejected = cn.rejected /\ cn'.prompts = cn.prompts /\ cn'.made = cn.made
      /\ cn'.alive = cn.alive /\ cn'.conns = cn.conns /\ cn'.slots = cn.slots /\ cn'.lock = held
      /\ cn'.slot = cn.slot /\ cn'.written = cn.written
  BY <1>1 DEF PoolRec
<1>6. cn'.at[c] = "connect" /\ \A d \in Connectors : d # c => cn'.at[d] = cn.at[d]
  BY <1>1, <1>2, <1>5
<1>7. PlacesInv'
  BY SMTT(20), <1>1, <1>5, <1>6, ConnectorKinds DEF PlacesInv
<1>8. TrustInv'
  BY <1>5, <1>6 DEF TrustInv, Trusted
<1>9. PromptInv' /\ TriesInv'
  BY SMTT(20), <1>1, <1>5, <1>6, ConnectorKinds DEF PromptInv, TriesInv, HostKnown
<1>10. AliveInv'
  <2>1. \A d \in PoolUsers : Replacing(d)' => d = c \/ Replacing(d)
    BY <1>6, ConnectorKinds DEF Replacing
  <2>2. ASSUME NEW d \in PoolUsers, Replacing(d), d # c
        PROVE  cn.slot[d] # cn.slot[c] /\ held[cn.slot[d]] = "held" /\ cn.slots[cn.slot[d]].id \notin cn.alive
    <3>1. cn.lock[cn.slot[d]] = "held" /\ cn.slots[cn.slot[d]].id \notin cn.alive
      BY <2>2 DEF AliveInv
    <3>2. cn.slot[d] \in DOMAIN cn.lock
      BY <2>2 DEF PlacesInv, Replacing
    <3>3. QED
      BY <3>1, <3>2
  <2>3. \A d \in PoolUsers : Replacing(d)' =>
          held[cn.slot[d]] = "held" /\ cn.slots[cn.slot[d]].id \notin cn.alive
    BY <2>1, <2>2
  <2>4. \A d, e \in PoolUsers : Replacing(d)' /\ Replacing(e)' /\ cn.slot[d] = cn.slot[e] => d = e
    <3>1. \A d, e \in PoolUsers : Replacing(d) /\ Replacing(e) /\ cn.slot[d] = cn.slot[e] => d = e
      BY DEF AliveInv
    <3>2. QED
      BY <2>1, <2>2, <3>1
  <2>5. cn.at[1] = "open" /\ cn'.at[1] = "open"
    BY <1>1, <1>6, ConnectorKinds DEF PlacesInv
  <2>6. /\ \A id \in cn.alive : id <= cn.made /\ \E k \in DOMAIN cn.slots : cn.slots[k].id = id
        /\ \A k \in DOMAIN cn.slots : cn.slots[k].id <= cn.made
        /\ \A d \in Connectors : cn.conns[d].id <= cn.made
    BY <2>5 DEF AliveInv
  <2>7. QED
    BY <1>5, <2>3, <2>4, <2>5, <2>6 DEF AliveInv
<1>11. QED
  BY <1>4, <1>5, <1>7, <1>8, <1>9, <1>10 DEF PoolInv, DryWritesNothing

(* SftpConnection::new keeps the invariant up to the prompt.                 *)
LEMMA CheckKeyKeeps ==
    ASSUME PoolInv, NEW c \in Connectors, CheckKey(c)
    PROVE  PoolInv'
<1> cn \in PoolRec /\ PlacesInv /\ TrustInv /\ PromptInv /\ TriesInv /\ AliveInv /\ DryWritesNothing
  BY DEF PoolInv
<1>1. cn.at[c] = "connect"
  BY DEF CheckKey, ConnAt
<1>2. CASE KeyVerdict(cn.job, cn.known) = "known" /\ cn' = [cn EXCEPT !.at[c] = "login", !.conns[c].key = cn.job.key]
  BY Zenon, <1>1, <1>2, KnownKeeps
<1>3. CASE /\ KeyVerdict(cn.job, cn.known) = "unknown"
           /\ cn' = [cn EXCEPT !.at[c] = "prompt", !.conns[c].key = cn.job.key, !.prompts = @ + 1]
  BY Zenon, <1>1, <1>3, PromptKeeps
<1>4. CASE cn' = Unconnected(cn, c)
  BY <1>1, <1>4, UnconnectedKeeps
<1>5. QED
  BY <1>2, <1>3, <1>4 DEF CheckKey

(* The prompt keeps it.                                                      *)
LEMMA AnswerKeeps ==
    ASSUME PoolInv, NEW c \in Connectors, AnswerPrompt(c)
    PROVE  PoolInv'
<1> cn \in PoolRec /\ PlacesInv /\ TrustInv /\ PromptInv /\ TriesInv /\ AliveInv /\ DryWritesNothing
  BY DEF PoolInv
<1> DEFINE key == cn.conns[c].key
           line == [host |-> HostPort(cn.job), key |-> key]
<1>1. cn.at[c] = "prompt" /\ cn \in PoolRec
  BY DEF AnswerPrompt, ConnAt
<1>2. CASE cn' = [SaveKey(cn, key) EXCEPT !.accepted = @ \union {key}, !.at[c] = "login"]
  <2>1. cn' = [cn EXCEPT !.known = cn.known \union {line}, !.accepted = cn.accepted \union {key}, !.at[c] = "login"]
    BY <1>1, <1>2 DEF SaveKey, PoolRec
  <2> HIDE DEF line
  <2>2. QED
    BY Zenon, <1>1, <2>1, AcceptKeeps DEF line
<1>3. CASE cn' = Unconnected(cn, c)
  BY <1>1, <1>3, UnconnectedKeeps
<1>4. QED
  BY <1>2, <1>3 DEF AnswerPrompt

(* The login keeps it.                                                       *)
LEMMA LoginKeeps ==
    ASSUME PoolInv, NEW c \in Connectors, Login(c)
    PROVE  PoolInv'
<1> cn \in PoolRec /\ PlacesInv /\ TrustInv /\ PromptInv /\ TriesInv /\ AliveInv /\ DryWritesNothing
  BY DEF PoolInv
<1> DEFINE conn == [cn.conns[c] EXCEPT !.id = cn.made + 1]
<1>1. cn.at[c] = "login" /\ cn \in PoolRec
  BY DEF Login, ConnAt
<1>2. cn.slots \in Seq(Conn) /\ cn.lock \in Seq({"free", "held"})
  BY <1>1 DEF PoolRec
<1>3. conn \in Conn /\ conn.key = cn.conns[c].key /\ conn.id = cn.made + 1
  <2>1. cn.conns[c] \in Conn /\ cn.made \in Nat
    BY SMTT(20), <1>1 DEF PoolRec
  <2>2. QED
    BY <2>1 DEF Conn
<1>4. CASE cn' = Connected(cn, c) /\ c \notin PoolUsers
  <2>1. cn' = [cn EXCEPT !.made = cn.made + 1, !.alive = cn.alive \union {cn.made + 1},
                         !.at[c] = "connected", !.conns[c] = conn]
    BY <1>1, <1>3, <1>4 DEF Connected, PoolRec
  <2> HIDE DEF conn
  <2>2. QED
    BY Zenon, <1>1, <1>4, <2>1, ConnectedKeeps DEF conn
<1>5. CASE cn' = Connected(cn, c) /\ c \in PoolUsers
  <2> DEFINE slots == [cn.slots EXCEPT ![cn.slot[c]] = conn]
             free == [cn.lock EXCEPT ![cn.slot[c]] = "free"]
  <2>1. Replaced(c, slots, free)
    BY <1>1, <1>3, <1>5 DEF Connected, PoolRec, Replaced
  <2> HIDE DEF conn
  <2>2. cn.slot[c] \in DOMAIN cn.slots /\ DOMAIN cn.lock = DOMAIN cn.slots
    BY <1>1, <1>5 DEF PlacesInv
  <2>3. /\ slots \in Seq(Conn) /\ DOMAIN slots = DOMAIN cn.slots /\ slots[cn.slot[c]] = conn
        /\ \A k \in DOMAIN cn.slots : k # cn.slot[c] => slots[k] = cn.slots[k]
    BY <1>2, <1>3, <2>2, SlotSet
  <2>4. /\ free \in Seq({"free", "held"}) /\ DOMAIN free = DOMAIN cn.slots
        /\ \A k \in DOMAIN cn.slots : k # cn.slot[c] => free[k] = cn.lock[k]
    <3>1. "free" \in {"free", "held"}
      OBVIOUS
    <3>2. QED
      BY <1>2, <2>2, <3>1, SlotSet
  <2> HIDE DEF slots, free
  <2>5. QED
    BY Zenon, <1>1, <1>3, <1>5, <2>1, <2>3, <2>4, ReplacedKeeps
<1>6. CASE /\ c = MainConnection
           /\ cn' = [cn EXCEPT !.rejected = @ + 1, !.at[c] = IF TriesAgain(cn) THEN "connect" ELSE "failed"]
  <2> DEFINE to == IF TriesAgain(cn) THEN "connect" ELSE "failed"
  <2>1. to \in {"connect", "failed"} /\ (to = "connect" => TriesAgain(cn))
    OBVIOUS
  <2>2. c = 1 /\ cn' = [cn EXCEPT !.rejected = cn.rejected + 1, !.at[1] = to]
    BY <1>1, <1>6, ConnectorKinds
  <2> HIDE DEF to
  <2>3. QED
    BY Zenon, <1>1, <2>1, <2>2, RejectedKeeps
<1>7. CASE cn' = Unconnected(cn, c)
  BY <1>1, <1>7, UnconnectedKeeps
<1>8. QED
  BY <1>4, <1>5, <1>6, <1>7 DEF Login

(* Two sequences joined.                                                     *)
LEMMA Joined ==
    ASSUME NEW S, NEW q \in Seq(S), NEW r \in Seq(S)
    PROVE  /\ q \o r \in Seq(S) /\ Len(q \o r) = Len(q) + Len(r)
           /\ \A i \in 1 .. Len(q) : (q \o r)[i] = q[i]
OBVIOUS

(* The layers of a dry run have DryBackend among them.                       *)
LEMMA DryLayer ==
    ASSUME NEW job, job.dry
    PROVE  \E k \in DOMAIN Layers(job) : Layers(job)[k] = "dry"
<1> DEFINE S == {job.url, "dry", "throttled"}
           limited == IF job.url # "sftp" /\ job.limits THEN <<"throttled">> ELSE <<>>
           dry == <<job.url>> \o <<"dry">>
<1>1. Layers(job) = dry \o limited
  BY Zenon DEF Layers
<1>2. /\ <<job.url>> \in Seq(S) /\ Len(<<job.url>>) = 1
      /\ <<"dry">> \in Seq(S) /\ Len(<<"dry">>) = 1 /\ <<"dry">>[1] = "dry"
  OBVIOUS
<1>3. limited \in Seq(S)
  <2>1. <<"throttled">> \in Seq(S) /\ <<>> \in Seq(S)
    OBVIOUS
  <2>2. QED
    BY Zenon, <2>1
<1>4. dry \in Seq(S) /\ Len(dry) = 2 /\ dry[2] = "dry"
  BY <1>2
<1> HIDE DEF S, limited, dry
<1>5. 2 \in DOMAIN (dry \o limited) /\ (dry \o limited)[2] = "dry"
  <2>1. Len(limited) \in Nat /\ 2 \in 1 .. Len(dry)
    BY <1>3, <1>4
  <2>2. /\ dry \o limited \in Seq(S) /\ Len(dry \o limited) = Len(dry) + Len(limited)
        /\ \A i \in 1 .. Len(dry) : (dry \o limited)[i] = dry[i]
    BY Zenon, <1>3, <1>4, Joined
  <2>3. QED
    BY <1>4, <2>1, <2>2
<1>6. QED
  BY <1>1, <1>5

(* get_connection and the operation that follows it keep the invariant.      *)
LEMMA UserStepKeeps ==
    ASSUME PoolInv, NEW c \in PoolUsers, TakeIndex(c) \/ LockSlot(c) \/ SendRequest(c)
    PROVE  PoolInv'
<1> cn \in PoolRec /\ PlacesInv /\ TrustInv /\ PromptInv /\ TriesInv /\ AliveInv /\ DryWritesNothing
  BY DEF PoolInv
<1>1. /\ cn \in PoolRec /\ c \in Connectors /\ MainConnection = 1
      /\ cn.lock \in Seq({"free", "held"}) /\ cn.slots \in Seq(Conn) /\ cn.slot[c] \in Nat
      /\ cn.next \in Nat /\ cn.written \in BOOLEAN
  <2>1. cn \in PoolRec /\ c \in Connectors /\ MainConnection = 1
    BY ConnectorKinds
  <2>2. QED
    BY <2>1 DEF PoolRec
<1>2. CASE TakeIndex(c)
  <2> DEFINE k == (cn.next % Len(cn.slots)) + 1
  <2>1. /\ cn.at[c] = "idle" /\ cn.at[1] = "open" /\ cn.job.url = "sftp"
        /\ cn' = [cn EXCEPT !.at[c] = "lock", !.next = cn.next + 1, !.slot[c] = k]
    BY <1>1, <1>2 DEF TakeIndex, ConnAt
  <2>2. cn.slots # <<>>
    BY <2>1 DEF PlacesInv
  <2>3. Len(cn.slots) \in Nat /\ Len(cn.slots) > 0 /\ DOMAIN cn.slots = 1 .. Len(cn.slots)
    BY <1>1, <2>2
  <2>4. k \in DOMAIN cn.slots /\ k \in Nat /\ cn.next + 1 \in Nat
    BY <1>1, <2>3
  <2> HIDE DEF k
  <2>5. UserMoves(c, "lock", k, cn.next + 1, cn.written)
    BY Zenon, <1>1, <2>1 DEF PoolRec, UserMoves
  <2>6. "lock" \in {"lock", "use", "sent"} /\ cn.at[c] \in {"idle", "lock", "use"}
    BY <2>1
  <2>7. QED
    BY Zenon, <1>1, <2>1, <2>4, <2>5, <2>6, UserKeeps
<1>3. CASE LockSlot(c)
  <2>1. /\ cn.at[c] = "lock" /\ cn.lock[cn.slot[c]] = "free" /\ cn.at[1] = "open" /\ cn.job.url = "sftp"
        /\ cn.slot[c] \in DOMAIN cn.slots /\ DOMAIN cn.lock = DOMAIN cn.slots
    BY <1>3 DEF LockSlot, ConnAt, PlacesInv
  <2>2. CASE cn.slots[cn.slot[c]].id \in cn.alive
    <3>1. cn' = [cn EXCEPT !.at[c] = "use"]
      BY <1>3, <2>2 DEF LockSlot
    <3>2. UserMoves(c, "use", cn.slot[c], cn.next, cn.written)
      BY Zenon, <1>1, <3>1 DEF PoolRec, UserMoves
    <3>3. QED
      BY <1>1, <2>1, <3>2, UserKeeps
  <2>3. CASE cn.slots[cn.slot[c]].id \notin cn.alive
    <3> DEFINE held == [cn.lock EXCEPT ![cn.slot[c]] = "held"]
    <3>1. cn' = [cn EXCEPT !.at[c] = "connect", !.lock = held]
      BY <1>1, <1>3, <2>3 DEF LockSlot, PoolRec
    <3>2. "held" \in {"free", "held"}
      OBVIOUS
    <3>3. /\ held \in Seq({"free", "held"}) /\ DOMAIN held = DOMAIN cn.lock /\ held[cn.slot[c]] = "held"
          /\ \A k \in DOMAIN cn.lock : k # cn.slot[c] => held[k] = cn.lock[k]
      BY <1>1, <2>1, <3>2, SlotSet
    <3> HIDE DEF held
    <3>4. QED
      BY Zenon, <2>1, <2>3, <3>1, <3>3, ReplaceKeeps
  <2>4. QED
    BY <2>2, <2>3
<1>4. CASE SendRequest(c)
  <2> DEFINE w == cn.written \/ \A k \in DOMAIN Layers(cn.job) : Layers(cn.job)[k] # "dry"
  <2>1. cn' = [cn EXCEPT !.at[c] = "sent", !.written = w]
    BY <1>4 DEF SendRequest
  <2>2. cn.at[c] \in {"idle", "use"} /\ cn.at[1] = "open"
    BY <1>1, <1>4 DEF SendRequest, ConnAt, PlacesInv
  <2>3. w \in BOOLEAN
    BY Zenon, <1>1
  <2>4. cn.job.dry /\ ~cn.written => ~w
    BY Zenon, DryLayer
  <2> HIDE DEF w
  <2>5. UserMoves(c, "sent", cn.slot[c], cn.next, w)
    BY Zenon, <1>1, <2>1 DEF PoolRec, UserMoves
  <2>6. QED
    BY <1>1, <2>2, <2>3, <2>4, <2>5, UserKeeps
<1>5. QED
  BY <1>2, <1>3, <1>4

(* A backend that nobody has opened yet.                                     *)
LEMMA PoolInvInit == ConnectionsInit => PoolInv
<1> SUFFICES ASSUME NEW job \in Openings, cn = ConnectionsStart(job) PROVE PoolInv
  BY DEF ConnectionsInit
<1>1. job \in Opening /\ job.known \in SUBSET KnownLine
  BY ConnectionsAssumption DEF Opening
<1>2. /\ cn.job = job /\ cn.known = job.known /\ cn.before = job.known /\ cn.accepted = {}
      /\ cn.at = [c \in Connectors |-> IF c = MainConnection THEN "start" ELSE "idle"]
      /\ cn.rejected = 0 /\ cn.prompts = 0 /\ cn.made = 0 /\ cn.alive = {} /\ cn.deaths = 0
      /\ cn.conns = [c \in Connectors |-> [key |-> 0, id |-> 0]] /\ cn.slots = <<>> /\ cn.lock = <<>>
      /\ cn.slot = [c \in PoolUsers |-> 0] /\ cn.next = 0 /\ cn.written = FALSE
  BY DEF ConnectionsStart
<1>3. /\ cn.at[1] = "start" /\ \A c \in Connectors : c # 1 => cn.at[c] = "idle"
      /\ \A c \in Connectors : cn.conns[c].id = 0
  BY <1>2, ConnectorKinds
<1>4. cn \in PoolRec
  <2>1. /\ [c \in Connectors |-> IF c = MainConnection THEN "start" ELSE "idle"] \in [Connectors -> ConnPCs]
        /\ [c \in Connectors |-> [key |-> 0, id |-> 0]] \in [Connectors -> Conn]
        /\ [c \in PoolUsers |-> 0] \in [PoolUsers -> Nat]
    BY DEF ConnPCs, Conn
  <2>2. <<>> \in Seq(Conn) /\ <<>> \in Seq({"free", "held"})
    OBVIOUS
  <2>3. QED
    BY Zenon, <1>1, <2>1, <2>2 DEF ConnectionsStart, PoolRec
<1>5. DOMAIN cn.slots = {} /\ DOMAIN cn.lock = {}
  BY <1>2
<1>6. PlacesInv
  BY <1>3, <1>5, ConnectorKinds DEF PlacesInv
<1>7. TrustInv
  BY <1>2, <1>3, <1>5 DEF TrustInv
<1>8. PromptInv /\ TriesInv
  BY <1>2, <1>3, ConnectionsAssumption DEF PromptInv, TriesInv
<1>9. AliveInv
  BY <1>2, <1>3, <1>5, ConnectorKinds DEF AliveInv, Replacing
<1>10. QED
  BY <1>2, <1>4, <1>6, <1>7, <1>8, <1>9 DEF PoolInv, DryWritesNothing

(* SftpConnectionManager, new_backend_with_prompt: for any number of         *)
(* connections, users, tries and breaks, every connection in use is to a     *)
(* server that known_hosts had or the user accepted, the user is asked about *)
(* it once, wrong passwords are limited, no connection is opened and         *)
(* forgotten, and a dry run writes nothing.                                  *)
THEOREM PoolStaysSound == ConnectionsSpec => []PoolSound
<1>1. PoolInv /\ [ConnectionsNext]_cn => PoolInv'
  <2> SUFFICES ASSUME PoolInv, [ConnectionsNext]_cn PROVE PoolInv'
    OBVIOUS
  <2>1. CASE ConnectMain \/ ConnectFurther \/ PoolOpened \/ ConnectionDies \/ KeyRotates
    BY <2>1, MainKeeps, FurtherKeeps, OpenedKeeps, DeathKeeps, RotationKeeps
  <2>2. ASSUME NEW c \in Connectors, CheckKey(c) \/ AnswerPrompt(c) \/ Login(c) PROVE PoolInv'
    BY <2>2, CheckKeyKeeps, AnswerKeeps, LoginKeeps
  <2>3. ASSUME NEW c \in PoolUsers, TakeIndex(c) \/ LockSlot(c) \/ SendRequest(c) PROVE PoolInv'
    BY SMTT(20), <2>3, UserStepKeeps
  <2>4. CASE UNCHANGED cn
    <3>1. cn \in PoolRec /\ PlacesInv /\ TrustInv /\ PromptInv /\ TriesInv /\ AliveInv /\ DryWritesNothing
      BY DEF PoolInv
    <3>2. cn' \in PoolRec /\ PlacesInv'
      BY <2>4, <3>1 DEF PlacesInv
    <3>3. TrustInv'
      BY <2>4, <3>1 DEF TrustInv, Trusted
    <3>4. PromptInv' /\ TriesInv'
      BY <2>4, <3>1 DEF PromptInv, TriesInv, HostKnown
    <3>5. AliveInv' /\ DryWritesNothing'
      BY <2>4, <3>1 DEF AliveInv, DryWritesNothing, Replacing
    <3>6. QED
      BY <3>2, <3>3, <3>4, <3>5 DEF PoolInv
  <2>5. QED
    BY <2>1, <2>2, <2>3, <2>4 DEF ConnectionsNext, ConnectionsRest
<1>2. PoolInv => PoolSound
  <2> SUFFICES ASSUME PoolInv PROVE PoolSound
    OBVIOUS
  <2>1. TrustedServers
    BY DEF PoolInv, TrustInv, Trusted, TrustedServers, InUse, ConnAt
  <2>2. NoneLeaked
    BY ConnectorKinds DEF PoolInv, AliveInv, NoneLeaked, InUse, ConnAt
  <2>3. QED
    BY <2>1, <2>2 DEF PoolSound, PoolInv, PromptInv, TriesInv, PromptedOnce, FewWrongPasswords
<1>3. QED
  BY PoolInvInit, <1>1, <1>2, PTL DEF ConnectionsSpec
=============================================================================
