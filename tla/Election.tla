------------------------------ MODULE Election ------------------------------
(***************************************************************************)
(* Leader election of meta-core: the process main (cmd/meta-core/main.go), *)
(* Election and RedisManager (internal/leader) and the connection that     *)
(* storage.Client opens (internal/storage), for a set of instances that    *)
(* share one META_CORE_PATH.                                               *)
(*                                                                         *)
(* Each node is one container. It runs at most one meta-core process at a  *)
(* time, with two threads of interest: main, whose program counter is      *)
(* pc[n], and healthCheckLoop, whose program counter is hpc[n]. A          *)
(* redis-server is bound to the node's own port; it is a child of the      *)
(* present process (owned) or an orphan of an earlier one. The lock file,  *)
(* the info file and its ".tmp" sibling are on the shared volume.          *)
(*                                                                         *)
(* A leader's address stands for its whole LeaderLockInfo. The Timestamp   *)
(* in it is left out: it is written and never read.                        *)
(***************************************************************************)
EXTENDS Naturals

CONSTANTS Node,  \* the instances
          None,  \* no node: nobody holds the lock, no file, no address
          Torn   \* the content of a file that is opened but not yet written

ASSUME NodeAssumption == None \notin Node /\ Torn \notin Node /\ None # Torn

VARIABLES
    lock,        \* the holder of the flock on kv-leader.lock, or None
    infoFile,    \* content of kv-leader.info
    tmpFile,     \* content of kv-leader.info.tmp, one name for every node
    pc,          \* main thread
    hpc,         \* health check goroutine
    role,        \* Election.role
    leaderInfo,  \* Election.leaderInfo
    running,     \* RedisManager.running
    redis,       \* the redis-server bound to the node's port
    owned,       \* that server is a child of the present process
    client,      \* address given to the storage client
    connected    \* Client.connected

shared == <<lock, infoFile, tmpFile>>
thread == <<pc, hpc>>
elect  == <<role, leaderInfo>>
server == <<running, redis, owned>>
store  == <<client, connected>>
vars   == <<lock, infoFile, tmpFile, pc, hpc, role, leaderInfo,
            running, redis, owned, client, connected>>

Address == Node \cup {None}

\* Where main is while the process holds the lock.
HolderPC == {"spawn", "waitReady", "openTmp", "fillTmp", "rename"}
MainPC   == HolderPC \cup {"down", "acquire", "readInfo", "connect", "run",
                           "join", "stopRedis", "release", "close"}
HealthPC == {"off", "idle", "fillTmp", "rename", "redisCheck"}

TypeOK ==
    /\ lock \in Address
    /\ infoFile \in Address \cup {Torn}
    /\ tmpFile \in Address \cup {Torn}
    /\ pc \in [Node -> MainPC]
    /\ hpc \in [Node -> HealthPC]
    /\ role \in [Node -> {"unknown", "leader", "follower"}]
    /\ leaderInfo \in [Node -> Address]
    /\ running \in [Node -> BOOLEAN]
    /\ redis \in [Node -> {"none", "starting", "ready"}]
    /\ owned \in [Node -> BOOLEAN]
    /\ client \in [Node -> Address]
    /\ connected \in [Node -> BOOLEAN]

Init ==
    /\ lock = None
    /\ infoFile = None
    /\ tmpFile = None
    /\ pc = [n \in Node |-> "down"]
    /\ hpc = [n \in Node |-> "off"]
    /\ role = [n \in Node |-> "unknown"]
    /\ leaderInfo = [n \in Node |-> None]
    /\ running = [n \in Node |-> FALSE]
    /\ redis = [n \in Node |-> "none"]
    /\ owned = [n \in Node |-> FALSE]
    /\ client = [n \in Node |-> None]
    /\ connected = [n \in Node |-> FALSE]

Goto(n, label)       == pc' = [pc EXCEPT ![n] = label]
HealthGoto(n, label) == hpc' = [hpc EXCEPT ![n] = label]

-----------------------------------------------------------------------------
(* Process life and death                                                  *)

\* The kernel closes the lock file of a process that ends, and everything
\* in its memory is gone. Its redis-server child is not told.
ProcessEnds(n) ==
    /\ Goto(n, "down")
    /\ HealthGoto(n, "off")
    /\ lock' = IF lock = n THEN None ELSE lock
    /\ role' = [role EXCEPT ![n] = "unknown"]
    /\ leaderInfo' = [leaderInfo EXCEPT ![n] = None]
    /\ running' = [running EXCEPT ![n] = FALSE]
    /\ owned' = [owned EXCEPT ![n] = FALSE]
    /\ client' = [client EXCEPT ![n] = None]
    /\ connected' = [connected EXCEPT ![n] = FALSE]
    /\ UNCHANGED <<infoFile, tmpFile>>

Boot(n) ==
    /\ pc[n] = "down"
    /\ Goto(n, "acquire")
    /\ UNCHANGED <<shared, hpc, elect, server, store>>

\* SIGKILL, a panic, or SIGTERM before waitForShutdown has asked for it.
Crash(n) ==
    /\ pc[n] # "down"
    /\ ProcessEnds(n)
    /\ UNCHANGED redis

\* The whole container goes, with the redis-server in it.
ContainerKill(n) ==
    /\ pc[n] # "down" \/ redis[n] # "none"
    /\ ProcessEnds(n)
    /\ redis' = [redis EXCEPT ![n] = "none"]

\* An error out of Election.Start reaches log.Fatalf in main.
Fatal(n) ==
    /\ ProcessEnds(n)
    /\ UNCHANGED redis

-----------------------------------------------------------------------------
(* The redis-server process                                                *)

RedisReady(n) ==
    /\ redis[n] = "starting"
    /\ redis' = [redis EXCEPT ![n] = "ready"]
    /\ UNCHANGED <<shared, thread, elect, running, owned, store>>

RedisCrash(n) ==
    /\ redis[n] # "none"
    /\ redis' = [redis EXCEPT ![n] = "none"]
    /\ owned' = [owned EXCEPT ![n] = FALSE]
    /\ UNCHANGED <<shared, thread, elect, running, store>>

\* RedisManager.Start. When an orphan holds the port the new child cannot
\* bind it and exits; until monitorProcess notices, running is TRUE.
SpawnRedis(n) ==
    /\ running' = [running EXCEPT ![n] = TRUE]
    /\ redis' = [redis EXCEPT ![n] = IF @ = "none" THEN "starting" ELSE @]
    /\ owned' = [owned EXCEPT ![n] = @ \/ redis[n] = "none"]

\* monitorProcess: cmd.Wait returned.
MonitorProcess(n) ==
    /\ running[n]
    /\ ~(owned[n] /\ redis[n] # "none")
    /\ running' = [running EXCEPT ![n] = FALSE]
    /\ UNCHANGED <<shared, thread, elect, redis, owned, store>>

-----------------------------------------------------------------------------
(* Election.Start, on the main thread                                      *)

\* Mutant of TryAcquireLock: a shared flock, which nobody else's excludes.
TryAcquireShared(n) ==
    /\ pc[n] = "acquire"
    /\ lock' = n
    /\ role' = [role EXCEPT ![n] = "leader"]
    /\ Goto(n, "spawn")
    /\ UNCHANGED <<infoFile, tmpFile, hpc, leaderInfo, server, store>>

TryAcquireLock(n) ==
    /\ pc[n] = "acquire"
    /\ \/ /\ lock = None
          /\ lock' = n
          /\ role' = [role EXCEPT ![n] = "leader"]
          /\ Goto(n, "spawn")
       \/ /\ lock # None
          /\ role' = [role EXCEPT ![n] = "follower"]
          /\ Goto(n, "readInfo")
          /\ UNCHANGED lock
    /\ UNCHANGED <<infoFile, tmpFile, hpc, leaderInfo, server, store>>

StartRedis(n) ==
    /\ pc[n] = "spawn"
    /\ SpawnRedis(n)
    /\ Goto(n, "waitReady")
    /\ UNCHANGED <<shared, hpc, elect, store>>

StartRedisFails(n) ==
    /\ pc[n] = "spawn"
    /\ Fatal(n)

\* The probe asks the port, so an orphan answers it as well as a child.
WaitForReady(n) ==
    /\ pc[n] = "waitReady"
    /\ redis[n] = "ready"
    /\ leaderInfo' = [leaderInfo EXCEPT ![n] = n]
    /\ Goto(n, "openTmp")
    /\ UNCHANGED <<shared, hpc, role, server, store>>

WaitForReadyTimeout(n) ==
    /\ pc[n] = "waitReady"
    /\ redis[n] # "ready"
    /\ Fatal(n)

\* writeLeaderInfo: os.WriteFile truncates and then writes the ".tmp" file,
\* os.Rename puts it in place.
OpenTmp == tmpFile' = Torn

\* Mutant of FillTmp: the wrong field of Election is marshalled.
FillTmpRole(n) == tmpFile' = role[n]

FillTmp(n) == tmpFile' = leaderInfo[n]

RenameTmp == infoFile' = tmpFile /\ tmpFile' = None

PublishOpen(n) ==
    /\ pc[n] = "openTmp"
    /\ OpenTmp
    /\ Goto(n, "fillTmp")
    /\ UNCHANGED <<lock, infoFile, hpc, elect, server, store>>

PublishFill(n) ==
    /\ pc[n] = "fillTmp"
    /\ FillTmp(n)
    /\ Goto(n, "rename")
    /\ UNCHANGED <<lock, infoFile, hpc, elect, server, store>>

PublishRename(n) ==
    /\ pc[n] = "rename"
    /\ tmpFile # None
    /\ RenameTmp
    /\ Goto(n, "connect")
    /\ UNCHANGED <<lock, hpc, elect, server, store>>

\* Mutants of PublishFails: the error of os.WriteFile is dropped inside
\* writeLeaderInfo, or that of writeLeaderInfo is logged only.
PublishErrorDropped(n) ==
    /\ pc[n] = "fillTmp"
    /\ Goto(n, "rename")
    /\ UNCHANGED <<shared, hpc, elect, server, store>>

PublishErrorLogged(n) ==
    /\ pc[n] \in {"fillTmp", "rename"}
    /\ Goto(n, "connect")
    /\ UNCHANGED <<shared, hpc, elect, server, store>>

PublishFails(n) ==
    /\ pc[n] \in {"fillTmp", "rename"}
    /\ Fatal(n)

\* Mutant of ReadLeaderInfo: it reads the ".tmp" file.
ReadTmpFile(n) ==
    /\ pc[n] = "readInfo"
    /\ IF tmpFile = Torn
       THEN Fatal(n)
       ELSE /\ leaderInfo' = [leaderInfo EXCEPT ![n] = tmpFile]
            /\ Goto(n, IF tmpFile = None THEN "run" ELSE "connect")
            /\ HealthGoto(n, IF tmpFile = None THEN "idle" ELSE "off")
            /\ UNCHANGED <<shared, role, server, store>>

\* A missing info file leaves the follower with no leader and no connection;
\* one that does not parse is an error of Start.
ReadLeaderInfo(n) ==
    /\ pc[n] = "readInfo"
    /\ IF infoFile = Torn
       THEN Fatal(n)
       ELSE /\ leaderInfo' = [leaderInfo EXCEPT ![n] = infoFile]
            /\ Goto(n, IF infoFile = None THEN "run" ELSE "connect")
            /\ HealthGoto(n, IF infoFile = None THEN "idle" ELSE "off")
            /\ UNCHANGED <<shared, role, server, store>>

\* storage.Connect, at the end of both transitions. The client is set even
\* when the ping fails, which is only logged. The health loop starts next.
ConnectStorage(n) ==
    /\ pc[n] = "connect"
    /\ client' = [client EXCEPT ![n] = leaderInfo[n]]
    /\ \E answered \in BOOLEAN :
          /\ answered => redis[leaderInfo[n]] = "ready"
          /\ connected' = [connected EXCEPT ![n] = answered]
    /\ Goto(n, "run")
    /\ HealthGoto(n, "idle")
    /\ UNCHANGED <<shared, elect, server>>

-----------------------------------------------------------------------------
(* healthCheckLoop                                                         *)

\* updateLeaderTimestamp rewrites the info file in the same three steps.
TickLeader(n) ==
    /\ hpc[n] = "idle"
    /\ role[n] = "leader"
    /\ OpenTmp
    /\ HealthGoto(n, "fillTmp")
    /\ UNCHANGED <<lock, infoFile, pc, elect, server, store>>

HealthFill(n) ==
    /\ hpc[n] = "fillTmp"
    /\ FillTmp(n)
    /\ HealthGoto(n, "rename")
    /\ UNCHANGED <<lock, infoFile, pc, elect, server, store>>

HealthRename(n) ==
    /\ hpc[n] = "rename"
    /\ tmpFile # None
    /\ RenameTmp
    /\ HealthGoto(n, "redisCheck")
    /\ UNCHANGED <<lock, pc, elect, server, store>>

\* Mutant of HealthWriteFails: performHealthCheck returns on the error.
HealthWriteReturns(n) ==
    /\ hpc[n] \in {"fillTmp", "rename"}
    /\ HealthGoto(n, "idle")
    /\ UNCHANGED <<shared, pc, elect, server, store>>

\* The error is logged and the check goes on.
HealthWriteFails(n) ==
    /\ hpc[n] \in {"fillTmp", "rename"}
    /\ HealthGoto(n, "redisCheck")
    /\ UNCHANGED <<shared, pc, elect, server, store>>

RedisAlive(n) ==
    /\ hpc[n] = "redisCheck"
    /\ running[n]
    /\ HealthGoto(n, "idle")
    /\ UNCHANGED <<shared, pc, elect, server, store>>

RestartRedis(n) ==
    /\ hpc[n] = "redisCheck"
    /\ ~running[n]
    /\ SpawnRedis(n)
    /\ HealthGoto(n, "idle")
    /\ UNCHANGED <<shared, pc, elect, store>>

RestartRedisFails(n) ==
    /\ hpc[n] = "redisCheck"
    /\ ~running[n]
    /\ HealthGoto(n, "idle")
    /\ UNCHANGED <<shared, pc, elect, server, store>>

\* Mutant of TickFollower: it stops looking once it knows a leader.
TickFollowerOnce(n) ==
    /\ hpc[n] = "idle"
    /\ role[n] = "follower"
    /\ leaderInfo[n] = None
    /\ infoFile \notin {None, Torn}
    /\ leaderInfo' = [leaderInfo EXCEPT ![n] = infoFile]
    /\ UNCHANGED <<shared, thread, role, server, store>>

\* A follower looks at the info file and at nothing else: not at the lock,
\* not at the timestamp, not at its own connection.
TickFollower(n) ==
    /\ hpc[n] = "idle"
    /\ role[n] = "follower"
    /\ infoFile \notin {None, Torn}
    /\ leaderInfo' = [leaderInfo EXCEPT ![n] = infoFile]
    /\ UNCHANGED <<shared, thread, role, server, store>>

\* stopChan is closed; the select may still have taken some ticks before.
HealthLoopStop(n) ==
    /\ hpc[n] = "idle"
    /\ pc[n] = "join"
    /\ HealthGoto(n, "off")
    /\ UNCHANGED <<shared, pc, elect, server, store>>

-----------------------------------------------------------------------------
(* Shutdown, on the main thread                                            *)

Shutdown(n) ==
    /\ pc[n] = "run"
    /\ Goto(n, "join")
    /\ UNCHANGED <<shared, hpc, elect, server, store>>

\* Mutant of JoinHealthLoop: Stop closes stopChan and does not wait.
StopWithoutJoin(n) ==
    /\ pc[n] = "join"
    /\ Goto(n, IF role[n] = "leader" THEN "stopRedis" ELSE "release")
    /\ UNCHANGED <<shared, hpc, elect, server, store>>

JoinHealthLoop(n) ==
    /\ pc[n] = "join"
    /\ hpc[n] = "off"
    /\ Goto(n, IF role[n] = "leader" THEN "stopRedis" ELSE "release")
    /\ UNCHANGED <<shared, hpc, elect, server, store>>

\* Mutant of StopRedis: it waits for the end of a child also when there is
\* none any more.
StopRedisWaits(n) ==
    /\ pc[n] = "stopRedis"
    /\ running[n]
    /\ running' = [running EXCEPT ![n] = FALSE]
    /\ redis' = [redis EXCEPT ![n] = IF owned[n] THEN "none" ELSE @]
    /\ owned' = [owned EXCEPT ![n] = FALSE]
    /\ Goto(n, "release")
    /\ UNCHANGED <<shared, hpc, elect, store>>

\* Mutant of StopRedis: a child that is still loading is left alone.
StopRedisIfReady(n) ==
    /\ pc[n] = "stopRedis"
    /\ running' = [running EXCEPT ![n] = FALSE]
    /\ redis' = [redis EXCEPT ![n] = IF running[n] /\ owned[n] /\ @ = "ready" THEN "none" ELSE @]
    /\ owned' = [owned EXCEPT ![n] = IF running[n] THEN FALSE ELSE @]
    /\ Goto(n, "release")
    /\ UNCHANGED <<shared, hpc, elect, store>>

\* RedisManager.Stop returns once the child is gone; it knows of no orphan.
StopRedis(n) ==
    /\ pc[n] = "stopRedis"
    /\ running' = [running EXCEPT ![n] = FALSE]
    /\ redis' = [redis EXCEPT ![n] = IF running[n] /\ owned[n] THEN "none" ELSE @]
    /\ owned' = [owned EXCEPT ![n] = IF running[n] THEN FALSE ELSE @]
    /\ Goto(n, "release")
    /\ UNCHANGED <<shared, hpc, elect, store>>

ReleaseLock(n) ==
    /\ pc[n] = "release"
    /\ lock' = IF role[n] = "leader" THEN None ELSE lock
    /\ Goto(n, "close")
    /\ UNCHANGED <<infoFile, tmpFile, hpc, elect, server, store>>

\* storageClient.Close, and main returns.
CloseStorage(n) ==
    /\ pc[n] = "close"
    /\ ProcessEnds(n)
    /\ UNCHANGED redis

-----------------------------------------------------------------------------
Main(n) ==
    \/ TryAcquireLock(n) \/ StartRedis(n) \/ StartRedisFails(n)
    \/ WaitForReady(n) \/ WaitForReadyTimeout(n)
    \/ PublishOpen(n) \/ PublishFill(n) \/ PublishRename(n) \/ PublishFails(n)
    \/ ReadLeaderInfo(n) \/ ConnectStorage(n)
    \/ JoinHealthLoop(n) \/ StopRedis(n) \/ ReleaseLock(n) \/ CloseStorage(n)

HealthLoop(n) ==
    \/ TickLeader(n) \/ HealthFill(n) \/ HealthRename(n) \/ HealthWriteFails(n)
    \/ RedisAlive(n) \/ RestartRedis(n) \/ RestartRedisFails(n)
    \/ TickFollower(n) \/ HealthLoopStop(n)

Environment(n) ==
    Boot(n) \/ Shutdown(n) \/ Crash(n) \/ ContainerKill(n) \/ RedisCrash(n)

Next == \E n \in Node :
    Main(n) \/ HealthLoop(n) \/ RedisReady(n) \/ MonitorProcess(n) \/ Environment(n)

\* A live process runs its threads; the select of the health loop does not
\* starve stopChan; a spawn does not fail for ever. Nothing makes a process
\* start, stop or fail.
Fairness == \A n \in Node :
    /\ WF_vars(Main(n))
    /\ WF_vars(HealthLoop(n))
    /\ WF_vars(RedisReady(n))
    /\ WF_vars(MonitorProcess(n))
    /\ SF_vars(RestartRedis(n))
    /\ SF_vars(HealthLoopStop(n))

Spec == Init /\ [][Next]_vars
FairSpec == Spec /\ Fairness

-----------------------------------------------------------------------------
(* What is required of it                                                  *)

Leading(n)   == pc[n] = "run" /\ role[n] = "leader"
Following(n) == pc[n] = "run" /\ role[n] = "follower"

\* Between TryAcquireLock and releaseLock a process that says it is the
\* leader is the only one of all instances that does (election.go, Role).
AtMostOneLeader ==
    \A n, m \in Node :
        /\ role[n] = "leader" /\ pc[n] # "close"
        /\ role[m] = "leader" /\ pc[m] # "close"
        => n = m

\* A reader of kv-leader.info never meets a half-written document, although
\* every writer, also one that died, used the same ".tmp" name
\* (writeLeaderInfo: "atomically writes leader info to file").
InfoFileIntact == infoFile # Torn

\* The redis-server a process spawned and still manages runs only while that
\* process holds the lock: Stop ends the health loop, then Redis, and only
\* then releases; a restart by the health loop never comes after.
OwnedRedisUnderLock ==
    \A n \in Node : owned[n] /\ redis[n] # "none" => lock = n

\* Once an instance serves as leader, the info file names it, whatever other
\* instances wrote, started to write or left behind before.
LeaderPublished == \A n \in Node : Leading(n) => infoFile = n

\* Every change of the info file names the present holder of the lock: no
\* late heartbeat of a former leader can overwrite a new leader's address.
InfoFileNamesHolder == [][infoFile' # infoFile => infoFile' = lock]_vars

\* A redis-server nobody manages is what a process leaves behind that dies or
\* gives up in Start: a shutdown leaves none, even if its health loop restarts
\* Redis after the request (RedisManager.Stop, of its own child alone).
Orphan(n) == redis[n] # "none" /\ ~owned[n]
OrphansComeFromDeath ==
    [][\A n \in Node : ~Orphan(n) /\ Orphan(n)'
                          => pc[n] \notin {"down", "close"} /\ pc'[n] = "down"]_vars

\* Under a leader that stays, every running follower comes to report that
\* leader and keeps doing so (performHealthCheck, "Re-read leader info").
FollowersLearnLeader ==
    \A n \in Node :
        <>[]Leading(n) =>
            <>[](\A m \in Node : Following(m) => leaderInfo[m] = n)

\* README: "Redis crash: Auto-detected via health check, automatically
\* restarted".
RedisRestarted ==
    \A n \in Node :
        (Leading(n) /\ redis[n] = "none") ~> (redis[n] # "none" \/ ~Leading(n))

\* A shutdown that was asked for comes to its end: wg.Wait returns, although
\* the loop may still tick, write and restart Redis after the request.
ShutdownEnds == \A n \in Node : pc[n] = "join" ~> pc[n] = "down"

-----------------------------------------------------------------------------
(* What the documents say and the code does not do                         *)

\* README: "Leader crash: Lock released, followers detect via stale
\* timestamp, re-election occurs".
FailoverCompletes ==
    (lock = None /\ infoFile # None /\ \E n \in Node : Following(n))
        ~> (lock # None \/ \A n \in Node : ~Following(n))

\* README: "Losers become followers, read leader info, connect to leader's
\* Redis".
FollowersConnect ==
    \A n, m \in Node :
        (<>[](Leading(n) /\ redis[n] = "ready") /\ <>[]Following(m))
            => <>(connected[m] /\ client[m] = n)

\* README, of REDIS_PORT: "Redis port (leader only)".
RedisOnlyAtLeader == \A n \in Node : redis[n] # "none" => lock = n

\* Why FailoverCompletes fails: without a holder and without a process at the
\* start of Start, nobody takes the lock until a process is started.
Leaderless == lock = None /\ \A n \in Node : pc[n] # "acquire"
LeaderlessUntilStart ==
    [][Leaderless => Leaderless' \/ \E n \in Node : Boot(n)]_vars

\* Why FollowersConnect fails: what the storage client is connected to is as
\* it was at the end of Start for as long as the process lives.
ConnectsOnce ==
    [][\A n \in Node : pc[n] \in {"run", "join", "stopRedis", "release", "close"}
                          /\ pc'[n] # "down"
                       => UNCHANGED <<client[n], connected[n]>>]_vars

-----------------------------------------------------------------------------
\* The election implements the abstract one: the lock is the office, the info
\* file is what is published, Election.leaderInfo is what is known.
Abstract == INSTANCE Leadership WITH
    holder <- lock, published <- infoFile, known <- leaderInfo

Implements == Abstract!ASpec
=============================================================================
