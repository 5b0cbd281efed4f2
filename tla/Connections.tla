---------------------------- MODULE Connections -----------------------------
(***************************************************************************)
(* Opening a backend (new_backend_with_prompt of backend/mod.rs) and the   *)
(* connections of the SFTP backend (backend/sftp.rs): the check of the     *)
(* server's key against known_hosts, the password prompt, the pool that    *)
(* opens its first connection alone and the others in parallel, and        *)
(* get_connection, which takes connections in turn and replaces dead ones. *)
(*                                                                         *)
(* A line of known_hosts is [host, key]; host is "name", "name:port" or    *)
(* another one.                                                            *)
(***************************************************************************)
EXTENDS Naturals, Sequences, FiniteSets

CONSTANTS
    Openings,       \* how the backend is opened
    MaxPasswords,   \* MAX_PASSWORD_RETRIES
    MaxConnections, \* MAX_SFTP_CONNECTIONS
    PoolUsers,      \* tasks that use the backend
    MaxDeaths       \* bound of the model: connections that break

KnownLine == [host : {"name", "name:port", "other"}, key : Nat]
Opening ==
    [url : {"local", "sftp", "s3"}, privatekey : BOOLEAN, dry : BOOLEAN, limits : BOOLEAN, port22 : BOOLEAN,
     key : Nat, known : SUBSET KnownLine, faults : SUBSET {"network", "rotation"}]

ASSUME ConnectionsAssumption ==
    /\ Openings \subseteq Opening
    /\ MaxPasswords \in Nat \ {0} /\ MaxConnections \in Nat \ {0} /\ MaxDeaths \in Nat
    /\ PoolUsers \intersect (1 .. MaxConnections) = {}

VARIABLE cn

(* Who connects: MainConnection, which opens the backend, the tasks that     *)
(* open the further connections, and those that use the backend.             *)
MainConnection == 1
Connectors == (1 .. MaxConnections) \union PoolUsers

HostPort(job) == IF job.port22 THEN "name" ELSE "name:port"
LinesOfHost(job, known) == {l \in known : l.host \in {"name", HostPort(job)}}

(* check_server_key: what known_hosts says of the key the server shows.      *)
KeyVerdict(job, known) ==
    CASE \E l \in LinesOfHost(job, known) : l.key = job.key -> "known"
      [] LinesOfHost(job, known) = {} -> "unknown"
      [] OTHER -> "changed"

Faulty(f) == f \in cn.job.faults
ConnAt(c, pc) == cn.at[c] = pc

(* A connection that cannot be had: MainConnection gives up, a further       *)
(* connection is done without, a user's operation fails and its lock is      *)
(* released.                                                                 *)
Unconnected(x, c) ==
    IF c \in PoolUsers
    THEN [x EXCEPT !.at[c] = "failed", !.lock[x.slot[c]] = "free"]
    ELSE [x EXCEPT !.at[c] = "failed"]

SaveKey(x, key) == [x EXCEPT !.known = @ \union {[host |-> HostPort(x.job), key |-> key]}]

(* SftpConnection::new: the connection, the server's key, the prompt.        *)
CheckKey(c) ==
    /\ ConnAt(c, "connect")
    /\ \/ /\ KeyVerdict(cn.job, cn.known) = "known"
          /\ cn' = [cn EXCEPT !.at[c] = "login", !.conns[c].key = cn.job.key]
       \/ /\ KeyVerdict(cn.job, cn.known) = "unknown"
          /\ cn' = [cn EXCEPT !.at[c] = "prompt", !.conns[c].key = cn.job.key,
                                  !.prompts = @ + 1]
       \/ /\ KeyVerdict(cn.job, cn.known) = "changed" \/ Faulty("network")
          /\ cn' = Unconnected(cn, c)

(* The answer; a known_hosts that cannot be written fails the connection.    *)
AnswerPrompt(c) ==
    /\ ConnAt(c, "prompt")
    /\ \/ LET key == cn.conns[c].key
          IN  cn' = [SaveKey(cn, key) EXCEPT !.accepted = @ \union {key}, !.at[c] = "login"]
       \/ cn' = Unconnected(cn, c)

(* A connection that is authenticated goes to its place in the pool.         *)
Connected(x, c) ==
    LET conn == [x.conns[c] EXCEPT !.id = x.made + 1]
        y == [x EXCEPT !.made = @ + 1, !.alive = @ \union {conn.id}]
    IN  IF c \in PoolUsers
        THEN [y EXCEPT !.slots[x.slot[c]] = conn, !.lock[x.slot[c]] = "free", !.at[c] = "use"]
        ELSE [y EXCEPT !.at[c] = "connected", !.conns[c] = conn]

(* A password that is refused is asked for again, MaxPasswords times in all. *)
TriesAgain(x) == ~x.job.privatekey /\ x.rejected < MaxPasswords - 1

(* The login.  The password that was accepted serves all other connections.  *)
Login(c) ==
    /\ ConnAt(c, "login")
    /\ \/ cn' = Connected(cn, c)
       \/ /\ c = MainConnection
          /\ cn' = [cn EXCEPT !.rejected = @ + 1,
                                  !.at[c] = IF TriesAgain(cn) THEN "connect" ELSE "failed"]
       \/ Faulty("network") /\ cn' = Unconnected(cn, c)

(* new_backend_with_prompt: only SFTP has to connect.                        *)
ConnectMain ==
    /\ ConnAt(MainConnection, "start")
    /\ cn' = [cn EXCEPT !.at[MainConnection] = IF cn.job.url = "sftp" THEN "connect" ELSE "open"]

(* SftpConnectionManager::new: the further connections, in parallel.         *)
ConnectFurther ==
    /\ ConnAt(MainConnection, "connected") /\ \E k \in 2 .. MaxConnections : ConnAt(k, "idle")
    /\ cn' = [cn EXCEPT !.at = [c \in DOMAIN @ |-> IF c \in 2 .. MaxConnections THEN "connect"
                                                       ELSE @[c]]]

(* They have ended: the handles are joined in order, and those that failed   *)
(* are left out.                                                             *)
PoolOpened ==
    /\ ConnAt(MainConnection, "connected")
    /\ \A k \in 2 .. MaxConnections : cn.at[k] \in {"connected", "failed"}
    /\ \E n \in 1 .. MaxConnections : \E got \in [1 .. n -> 1 .. MaxConnections] :
         /\ \A j, k \in 1 .. n : j < k => got[j] < got[k]
         /\ {got[k] : k \in 1 .. n} = {c \in 1 .. MaxConnections : ConnAt(c, "connected")}
         /\ cn' = [cn EXCEPT !.at[MainConnection] = "open",
                                 !.slots = [k \in 1 .. n |-> cn.conns[got[k]]],
                                 !.lock = [k \in 1 .. n |-> "free"]]

----------------------------------------------------------------------------
(* get_connection.                                                           *)

TakeIndex(c) ==
    /\ c \in PoolUsers /\ ConnAt(c, "idle")
    /\ ConnAt(MainConnection, "open") /\ cn.job.url = "sftp"
    /\ cn' = [cn EXCEPT !.at[c] = "lock", !.next = @ + 1,
                            !.slot[c] = (cn.next % Len(cn.slots)) + 1]

(* Mutant of LockSlot: no lock.                                              *)
LockSlotNot(c) ==
    /\ ConnAt(c, "lock")
    /\ cn' = IF cn.slots[cn.slot[c]].id \in cn.alive
               THEN [cn EXCEPT !.at[c] = "use"]
               ELSE [cn EXCEPT !.at[c] = "connect"]

(* The slot's lock is held while its dead connection is replaced.            *)
LockSlot(c) ==
    /\ ConnAt(c, "lock") /\ cn.lock[cn.slot[c]] = "free"
    /\ cn' = IF cn.slots[cn.slot[c]].id \in cn.alive
               THEN [cn EXCEPT !.at[c] = "use"]
               ELSE [cn EXCEPT !.at[c] = "connect", !.lock[cn.slot[c]] = "held"]

(* Layers of a backend, the outermost last.                                  *)
Layers(job) ==
    <<job.url>>
    \o (IF job.dry THEN <<"dry">> ELSE <<>>)
    \o (IF job.url # "sftp" /\ job.limits THEN <<"throttled">> ELSE <<>>)

(* A write goes through the layers; DryBackend answers it itself.            *)
SendRequest(c) ==
    /\ c \in PoolUsers
    /\ ConnAt(c, "use") \/ (ConnAt(c, "idle") /\ ConnAt(MainConnection, "open") /\ cn.job.url # "sftp")
    /\ cn' = [cn EXCEPT !.at[c] = "sent",
                            !.written = @ \/ \A k \in DOMAIN Layers(cn.job) :
                                               Layers(cn.job)[k] # "dry"]

(* A connection breaks.                                                      *)
ConnectionDies ==
    /\ Faulty("network") /\ cn.deaths < MaxDeaths
    /\ \E id \in cn.alive :
         cn' = [cn EXCEPT !.alive = @ \ {id}, !.deaths = @ + 1]

(* The server's key is replaced.                                             *)
KeyRotates ==
    /\ Faulty("rotation") /\ cn.job.key = 1
    /\ cn' = [cn EXCEPT !.job.key = 2]

ConnectionsRest ==
    /\ \/ ConnAt(MainConnection, "failed")
       \/ ConnAt(MainConnection, "open") /\ \A c \in PoolUsers : cn.at[c] \in {"sent", "failed"}
    /\ UNCHANGED cn

ConnectionsStart(job) ==
    [job |-> job, known |-> job.known, before |-> job.known, accepted |-> {},
     at |-> [c \in Connectors |-> IF c = MainConnection THEN "start" ELSE "idle"],
     rejected |-> 0, prompts |-> 0, made |-> 0, alive |-> {}, deaths |-> 0,
     conns |-> [c \in Connectors |-> [key |-> 0, id |-> 0]], slots |-> <<>>, lock |-> <<>>,
     slot |-> [c \in PoolUsers |-> 0], next |-> 0, written |-> FALSE]
ConnectionsInit == \E job \in Openings : cn = ConnectionsStart(job)

ConnectionsNext ==
    \/ ConnectMain \/ ConnectFurther \/ PoolOpened \/ ConnectionDies \/ KeyRotates \/ ConnectionsRest
    \/ \E c \in Connectors : CheckKey(c) \/ AnswerPrompt(c) \/ Login(c)
    \/ \E c \in PoolUsers : TakeIndex(c) \/ LockSlot(c) \/ SendRequest(c)

ConnectionsSpec == ConnectionsInit /\ [][ConnectionsNext]_cn /\ WF_cn(ConnectionsNext)

----------------------------------------------------------------------------
(* Properties.                                                               *)

InUse == {cn.slots[k] : k \in DOMAIN cn.slots}
         \union {cn.conns[c] : c \in {d \in Connectors : ConnAt(d, "connected")}}

(* check_server_key: every connection, the replaced ones included, was made  *)
(* to a server whose key known_hosts had for the host or the user accepted.  *)
TrustedServers ==
    \A conn \in InUse :
      conn.key \in cn.accepted \union {l.key : l \in LinesOfHost(cn.job, cn.before)}

(* check_server_key: the user is asked about a host at most once, however    *)
(* many connections are opened.                                              *)
PromptedOnce == cn.prompts <= 1

(* SftpConnectionManager::new: a wrong password reaches the server at most   *)
(* MaxPasswords times.                                                       *)
FewWrongPasswords == cn.rejected <= MaxPasswords

(* get_connection: two tasks that find the same connection dead make one new *)
(* one: no connection is open but out of the pool.                           *)
NoneLeaked ==
    ConnAt(MainConnection, "open") => cn.alive \subseteq {conn.id : conn \in InUse}

(* new_backend_with_prompt: whatever the layers, a dry run writes nothing.   *)
DryWritesNothing == cn.job.dry => ~cn.written

(* SftpConnectionManager: every connection in use, the first, the further    *)
(* and the replaced ones, is to a server that was trusted; the user is asked *)
(* once for its key, is given few tries for a password; none is opened and   *)
(* forgotten; and under --dry-run nothing is written through them.           *)
PoolSound ==
    /\ TrustedServers
    /\ PromptedOnce
    /\ FewWrongPasswords
    /\ NoneLeaked
    /\ DryWritesNothing
=============================================================================
