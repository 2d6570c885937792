--------------------------- MODULE Election_proofs ---------------------------
(***************************************************************************)
(* Theorems about Election, for every set of nodes.                        *)
(*                                                                         *)
(* The inductive invariant ties the program counters of the two threads of *)
(* a process to what it holds: the lock, the right to write the info file, *)
(* a running redis-server.                                                 *)
(***************************************************************************)
EXTENDS Election, TLAPS

\* A process holds the lock from tryAcquireLock to releaseLock, and these are
\* the times at which it is the leader.
LockInv ==
    \A n \in Node : (role[n] = "leader" /\ pc[n] # "close") <=> lock = n

\* What main knows about its role at each point of its program.
RoleInv ==
    \A n \in Node :
        /\ pc[n] \in HolderPC \cup {"stopRedis"} => role[n] = "leader"
        /\ pc[n] \in {"down", "acquire"} => role[n] = "unknown"
        /\ pc[n] = "readInfo" => role[n] = "follower"
        /\ pc[n] \in {"connect", "run", "join"} => role[n] # "unknown"

\* The health loop lives between the end of Start and the join in Stop, and
\* only a leader's loop writes files and looks after Redis.
HealthInv ==
    \A n \in Node :
        /\ hpc[n] # "off" => pc[n] \in {"run", "join"}
        /\ hpc[n] \notin {"off", "idle"} => role[n] = "leader"

\* A leader reports itself from the moment its Redis answered.
InfoInv ==
    \A n \in Node :
        /\ role[n] = "leader" /\ pc[n] \notin {"spawn", "waitReady"} =>
               leaderInfo[n] = n
        /\ pc[n] = "connect" => leaderInfo[n] # None

\* What a thread is about to rename is what it wrote.
TmpInv ==
    \A n \in Node : pc[n] = "rename" \/ hpc[n] = "rename" => tmpFile = n

PublishedInv ==
    \A n \in Node :
        role[n] = "leader" /\ pc[n] \in {"connect", "run", "join", "stopRedis", "release"}
            => infoFile = n

\* A live child is never believed dead, and a process that has stopped its
\* Redis, or not started it yet, believes in none.
RedisInv ==
    \A n \in Node :
        /\ owned[n] /\ redis[n] # "none" => running[n]
        /\ running[n] => /\ role[n] = "leader"
                         /\ pc[n] \notin {"spawn", "release", "close"}

IInv == /\ TypeOK
        /\ LockInv
        /\ RoleInv
        /\ HealthInv
        /\ InfoInv
        /\ TmpInv
        /\ PublishedInv
        /\ InfoFileIntact
        /\ RedisInv

-----------------------------------------------------------------------------
(* Every action preserves the invariant                                    *)

\* The steps of Election.Start and Election.Stop, on the main thread.
LEMMA MainPreserves ==
    ASSUME NEW n \in Node, IInv, Main(n)
    PROVE  IInv'
<1> USE NodeAssumption
<1> USE DEF IInv, LockInv, RoleInv, HealthInv, InfoInv, TmpInv, PublishedInv,
            RedisInv, InfoFileIntact, TypeOK, Address, HolderPC, MainPC, HealthPC
<1> USE DEF Goto, HealthGoto, shared, thread, elect, server, store
<1>1. CASE TryAcquireLock(n)
  BY <1>1 DEF TryAcquireLock
<1>2. CASE StartRedis(n)
  BY <1>2 DEF StartRedis, SpawnRedis
<1>3. CASE StartRedisFails(n)
  BY <1>3 DEF StartRedisFails, Fatal, ProcessEnds
<1>4. CASE WaitForReady(n)
  BY <1>4 DEF WaitForReady
<1>5. CASE WaitForReadyTimeout(n)
  BY <1>5 DEF WaitForReadyTimeout, Fatal, ProcessEnds
<1>6. CASE PublishOpen(n)
  BY <1>6 DEF PublishOpen, OpenTmp
<1>7. CASE PublishFill(n)
  BY <1>7 DEF PublishFill, FillTmp
<1>8. CASE PublishRename(n)
  BY <1>8 DEF PublishRename, RenameTmp
<1>9. CASE PublishFails(n)
  BY <1>9 DEF PublishFails, Fatal, ProcessEnds
<1>10. CASE ReadLeaderInfo(n)
  BY <1>10 DEF ReadLeaderInfo, Fatal, ProcessEnds
<1>11. CASE ConnectStorage(n)
  BY <1>11 DEF ConnectStorage
<1>12. CASE JoinHealthLoop(n)
  BY <1>12 DEF JoinHealthLoop
<1>13. CASE StopRedis(n)
  <2>1. CASE running[n]
    BY <1>13, <2>1 DEF StopRedis
  <2>2. CASE ~running[n]
    BY <1>13, <2>2 DEF StopRedis
  <2> QED  BY <2>1, <2>2
<1>14. CASE ReleaseLock(n)
  BY <1>14 DEF ReleaseLock
<1>15. CASE CloseStorage(n)
  BY <1>15 DEF CloseStorage, ProcessEnds
<1> QED  BY <1>1, <1>2, <1>3, <1>4, <1>5, <1>6, <1>7, <1>8, <1>9, <1>10, <1>11, <1>12, <1>13, <1>14, <1>15 DEF Main

\* The steps of healthCheckLoop.
LEMMA HealthLoopPreserves ==
    ASSUME NEW n \in Node, IInv, HealthLoop(n)
    PROVE  IInv'
<1> USE NodeAssumption
<1> USE DEF IInv, LockInv, RoleInv, HealthInv, InfoInv, TmpInv, PublishedInv,
            RedisInv, InfoFileIntact, TypeOK, Address, HolderPC, MainPC, HealthPC
<1> USE DEF Goto, HealthGoto, shared, thread, elect, server, store
<1>1. CASE TickLeader(n)
  BY <1>1 DEF TickLeader, OpenTmp
<1>2. CASE HealthFill(n)
  BY <1>2 DEF HealthFill, FillTmp
<1>3. CASE HealthRename(n)
  BY <1>3 DEF HealthRename, RenameTmp
<1>4. CASE HealthWriteFails(n)
  BY <1>4 DEF HealthWriteFails
<1>5. CASE RedisAlive(n)
  BY <1>5 DEF RedisAlive
<1>6. CASE RestartRedis(n)
  BY <1>6 DEF RestartRedis, SpawnRedis
<1>7. CASE RestartRedisFails(n)
  BY <1>7 DEF RestartRedisFails
<1>8. CASE TickFollower(n)
  BY <1>8 DEF TickFollower
<1>9. CASE HealthLoopStop(n)
  BY <1>9 DEF HealthLoopStop
<1> QED  BY <1>1, <1>2, <1>3, <1>4, <1>5, <1>6, <1>7, <1>8, <1>9 DEF HealthLoop

\* The steps of starts, stops and failures from outside.
LEMMA EnvironmentPreserves ==
    ASSUME NEW n \in Node, IInv, Environment(n)
    PROVE  IInv'
<1> USE NodeAssumption
<1> USE DEF IInv, LockInv, RoleInv, HealthInv, InfoInv, TmpInv, PublishedInv,
            RedisInv, InfoFileIntact, TypeOK, Address, HolderPC, MainPC, HealthPC
<1> USE DEF Goto, HealthGoto, shared, thread, elect, server, store
<1>1. CASE Boot(n)
  BY <1>1 DEF Boot
<1>2. CASE Shutdown(n)
  BY <1>2 DEF Shutdown
<1>3. CASE Crash(n)
  BY <1>3 DEF Crash, ProcessEnds
<1>4. CASE ContainerKill(n)
  BY <1>4 DEF ContainerKill, ProcessEnds
<1>5. CASE RedisCrash(n)
  BY <1>5 DEF RedisCrash
<1> QED  BY <1>1, <1>2, <1>3, <1>4, <1>5 DEF Environment

\* The redis-server becoming ready, and monitorProcess noticing its end.
LEMMA ServerPreserves ==
    ASSUME NEW n \in Node, IInv, RedisReady(n) \/ MonitorProcess(n)
    PROVE  IInv'
<1> USE DEF IInv, LockInv, RoleInv, HealthInv, InfoInv, TmpInv, PublishedInv,
            RedisInv, InfoFileIntact, TypeOK, Address, HolderPC, MainPC, HealthPC
<1> USE DEF shared, thread, elect, store
<1>1. CASE RedisReady(n)
  BY <1>1 DEF RedisReady
<1>2. CASE MonitorProcess(n)
  BY <1>2 DEF MonitorProcess
<1> QED  BY <1>1, <1>2

-----------------------------------------------------------------------------
(* The invariants                                                          *)

LEMMA InitInv == Init => IInv
BY NodeAssumption
   DEF Init, IInv, TypeOK, LockInv, RoleInv, HealthInv, InfoInv, TmpInv,
       PublishedInv, RedisInv, InfoFileIntact, Address, HolderPC, MainPC, HealthPC

LEMMA StutterInv == IInv /\ UNCHANGED vars => IInv'
BY DEF vars, IInv, TypeOK, LockInv, RoleInv, HealthInv, InfoInv, TmpInv,
       PublishedInv, RedisInv, InfoFileIntact

LEMMA NextInv == IInv /\ [Next]_vars => IInv'
<1> SUFFICES ASSUME IInv, [Next]_vars
             PROVE  IInv'
  OBVIOUS
<1>1. CASE UNCHANGED vars
  BY <1>1, StutterInv
<1>2. CASE Next
  <2>1. PICK n \in Node : \/ Main(n) \/ HealthLoop(n) \/ Environment(n)
                          \/ RedisReady(n) \/ MonitorProcess(n)
    BY <1>2 DEF Next
  <2> QED
    BY <2>1, MainPreserves, HealthLoopPreserves, EnvironmentPreserves, ServerPreserves
<1> QED  BY <1>1, <1>2

\* The inductive invariant holds of every reachable state.
THEOREM Invariance == Spec => []IInv
<1>1. Init => IInv
  BY InitInv
<1>2. IInv /\ [Next]_vars => IInv'
  BY NextInv
<1> QED  BY <1>1, <1>2, PTL DEF Spec

\* Every variable keeps its type, for any number of instances.
THEOREM TypeCorrect == Spec => []TypeOK
<1>1. IInv => TypeOK
  BY DEF IInv
<1> QED  BY <1>1, Invariance, PTL

\* No two instances are the leader at once: each would hold the lock.
THEOREM LeaderUnique == Spec => []AtMostOneLeader
<1>1. IInv => AtMostOneLeader
  BY DEF IInv, LockInv, AtMostOneLeader
<1> QED  BY <1>1, Invariance, PTL

\* No reader meets a half-written info file, in spite of the shared name of
\* the temporary file and of processes that die while they write it.
THEOREM InfoFileSound == Spec => []InfoFileIntact
<1>1. IInv => InfoFileIntact
  BY DEF IInv
<1> QED  BY <1>1, Invariance, PTL

\* A redis-server that its parent still manages never outlives the parent's
\* leadership.
THEOREM RedisSafety == Spec => []OwnedRedisUnderLock
<1>1. IInv => OwnedRedisUnderLock
  <2> SUFFICES ASSUME IInv, NEW n \in Node, owned[n], redis[n] # "none"
               PROVE  lock = n
    BY DEF OwnedRedisUnderLock
  <2>1. running[n]
    BY DEF IInv, RedisInv
  <2>2. role[n] = "leader" /\ pc[n] # "close"
    BY <2>1 DEF IInv, RedisInv
  <2> QED  BY <2>2 DEF IInv, LockInv
<1> QED  BY <1>1, Invariance, PTL

\* An instance that serves as leader is the one the info file names.
THEOREM LeaderIsPublished == Spec => []LeaderPublished
<1>1. IInv => LeaderPublished
  BY DEF IInv, PublishedInv, LeaderPublished, Leading
<1> QED  BY <1>1, Invariance, PTL

-----------------------------------------------------------------------------
(* The refinement of Leadership                                            *)

\* Main's steps: Elect, Claim, Publish, Learn, Resign, End, or nothing.
LEMMA MainRefines ==
    ASSUME NEW n \in Node, IInv, Main(n)
    PROVE  [Abstract!ANext]_Abstract!avars
<1> USE NodeAssumption
<1> USE DEF Abstract!ANext, Abstract!avars
<1> USE DEF shared, elect, Goto
<1>1. CASE TryAcquireLock(n)
  BY <1>1 DEF TryAcquireLock, Abstract!Elect
<1>2. CASE StartRedis(n)
  BY <1>2 DEF StartRedis
<1>3. CASE StartRedisFails(n) \/ WaitForReadyTimeout(n) \/ PublishFails(n) \/ CloseStorage(n)
  BY <1>3 DEF StartRedisFails, WaitForReadyTimeout, PublishFails, CloseStorage,
              Fatal, ProcessEnds, Abstract!End
<1>4. CASE WaitForReady(n)
  <2>1. lock = n
    BY <1>4 DEF WaitForReady, IInv, LockInv, RoleInv, HolderPC
  <2> QED  BY <1>4, <2>1 DEF WaitForReady, Abstract!Claim
<1>5. CASE PublishOpen(n) \/ PublishFill(n)
  BY <1>5 DEF PublishOpen, PublishFill
<1>6. CASE PublishRename(n)
  <2>1. lock = n /\ leaderInfo[n] = n /\ tmpFile = n
    BY <1>6 DEF PublishRename, IInv, LockInv, RoleInv, HolderPC, InfoInv, TmpInv
  <2> QED  BY <1>6, <2>1 DEF PublishRename, RenameTmp, Abstract!Publish
<1>7. CASE ReadLeaderInfo(n)
  <2>1. lock # n /\ infoFile # Torn
    BY <1>7 DEF ReadLeaderInfo, IInv, LockInv, RoleInv, InfoFileIntact
  <2> QED  BY <1>7, <2>1 DEF ReadLeaderInfo, Abstract!Learn
<1>8. CASE ConnectStorage(n) \/ JoinHealthLoop(n) \/ StopRedis(n)
  BY <1>8 DEF ConnectStorage, JoinHealthLoop, StopRedis
<1>9. CASE ReleaseLock(n)
  <2>1. role[n] = "leader" => lock = n
    BY <1>9 DEF ReleaseLock, IInv, LockInv
  <2> QED  BY <1>9, <2>1 DEF ReleaseLock, Abstract!Resign
<1> QED
  BY <1>1, <1>2, <1>3, <1>4, <1>5, <1>6, <1>7, <1>8, <1>9 DEF Main

\* A leader's heartbeat publishes, a follower's check learns.
LEMMA HealthLoopRefines ==
    ASSUME NEW n \in Node, IInv, HealthLoop(n)
    PROVE  [Abstract!ANext]_Abstract!avars
<1> USE NodeAssumption
<1> USE DEF Abstract!ANext, Abstract!avars
<1> USE DEF shared, elect, HealthGoto
<1>1. CASE TickLeader(n) \/ HealthFill(n) \/ HealthWriteFails(n)
  BY <1>1 DEF TickLeader, HealthFill, HealthWriteFails
<1>2. CASE HealthRename(n)
  <2>1. role[n] = "leader" /\ pc[n] \in {"run", "join"} /\ tmpFile = n
    BY <1>2 DEF HealthRename, IInv, HealthInv, TmpInv
  <2>2. lock = n /\ leaderInfo[n] = n
    BY <2>1 DEF IInv, LockInv, InfoInv
  <2> QED  BY <1>2, <2>1, <2>2 DEF HealthRename, RenameTmp, Abstract!Publish
<1>3. CASE RedisAlive(n) \/ RestartRedis(n) \/ RestartRedisFails(n) \/ HealthLoopStop(n)
  BY <1>3 DEF RedisAlive, RestartRedis, RestartRedisFails, HealthLoopStop
<1>4. CASE TickFollower(n)
  <2>1. lock # n
    BY <1>4 DEF TickFollower, IInv, LockInv
  <2> QED  BY <1>4, <2>1 DEF TickFollower, Abstract!Learn
<1> QED  BY <1>1, <1>2, <1>3, <1>4 DEF HealthLoop

\* The rest of the world: a process that ends gives up its office.
LEMMA EnvironmentRefines ==
    ASSUME NEW n \in Node,
           Environment(n) \/ RedisReady(n) \/ MonitorProcess(n)
    PROVE  [Abstract!ANext]_Abstract!avars
<1> USE DEF Abstract!ANext, Abstract!avars
<1> USE DEF shared, elect
<1>1. CASE Crash(n) \/ ContainerKill(n)
  BY <1>1 DEF Crash, ContainerKill, ProcessEnds, Abstract!End
<1>2. CASE Boot(n) \/ Shutdown(n) \/ RedisCrash(n) \/ RedisReady(n) \/ MonitorProcess(n)
  BY <1>2 DEF Boot, Shutdown, RedisCrash, RedisReady, MonitorProcess
<1> QED  BY <1>1, <1>2 DEF Environment

LEMMA StepRefines == IInv /\ [Next]_vars => [Abstract!ANext]_Abstract!avars
<1> SUFFICES ASSUME IInv, [Next]_vars
             PROVE  [Abstract!ANext]_Abstract!avars
  OBVIOUS
<1>1. CASE UNCHANGED vars
  BY <1>1 DEF vars, Abstract!avars
<1>2. CASE Next
  <2>1. PICK n \in Node : \/ Main(n) \/ HealthLoop(n) \/ Environment(n)
                          \/ RedisReady(n) \/ MonitorProcess(n)
    BY <1>2 DEF Next
  <2> QED
    BY <2>1, MainRefines, HealthLoopRefines, EnvironmentRefines
<1> QED  BY <1>1, <1>2

\* The election implements Leadership: one holder, who alone publishes, and
\* followers that believe only what was published.
THEOREM Refinement == Spec => Implements
<1>1. Init => Abstract!AInit
  BY DEF Init, Abstract!AInit
<1>2. IInv /\ [Next]_vars => [Abstract!ANext]_Abstract!avars
  BY StepRefines
<1> QED  BY <1>1, <1>2, Invariance, PTL DEF Spec, Implements, Abstract!ASpec

\* A late heartbeat of a former leader never replaces its successor's address.
THEOREM OnlyHolderPublishes == Spec => InfoFileNamesHolder
<1>1. IInv /\ [Next]_vars => [infoFile' # infoFile => infoFile' = lock]_vars
  <2> SUFFICES ASSUME IInv, [Next]_vars, infoFile' # infoFile
               PROVE  infoFile' = lock
    OBVIOUS
  <2>1. Abstract!ANext
    BY StepRefines DEF Abstract!avars
  <2>2. PICK n \in Node : Abstract!Publish(n)
    BY <2>1 DEF Abstract!ANext, Abstract!Elect, Abstract!Claim, Abstract!Learn,
                Abstract!Resign, Abstract!End
  <2> QED  BY <2>2 DEF Abstract!Publish
<1> QED  BY <1>1, Invariance, PTL DEF Spec, InfoFileNamesHolder

-----------------------------------------------------------------------------
(* How far the documents are right                                         *)

\* What a process leaves behind, and when.
LEMMA OrphanStep ==
    ASSUME IInv, [Next]_vars, NEW n \in Node, ~Orphan(n), Orphan(n)'
    PROVE  pc[n] \notin {"down", "close"} /\ pc'[n] = "down"
<1> USE DEF Orphan
<1>0. /\ pc \in [Node -> MainPC] /\ redis \in [Node -> {"none", "starting", "ready"}]
      /\ owned \in [Node -> BOOLEAN] /\ running \in [Node -> BOOLEAN]
  BY DEF IInv, TypeOK
<1>1. PICK m \in Node : \/ Main(m) \/ HealthLoop(m) \/ Environment(m)
                        \/ RedisReady(m) \/ MonitorProcess(m)
  BY DEF Next, vars
<1>2. CASE UNCHANGED server
  BY <1>2 DEF server
<1>3. CASE ProcessEnds(m) /\ UNCHANGED redis
  <2>1. n = m /\ pc'[n] = "down"
    BY <1>0, <1>3 DEF ProcessEnds, Goto
  <2>2. owned[n] /\ redis[n] # "none"
    BY <1>3, <2>1
  <2>3. running[n]
    BY <2>2 DEF IInv, RedisInv
  <2>4. pc[n] # "close" /\ role[n] = "leader"
    BY <2>3 DEF IInv, RedisInv
  <2>5. pc[n] # "down"
    BY <2>4 DEF IInv, RoleInv
  <2> QED  BY <2>1, <2>4, <2>5
<1>4. CASE StartRedisFails(m) \/ WaitForReadyTimeout(m) \/ PublishFails(m) \/ CloseStorage(m)
           \/ Crash(m)
  BY <1>3, <1>4 DEF StartRedisFails, WaitForReadyTimeout, PublishFails, CloseStorage, Fatal, Crash
<1>5. CASE ReadLeaderInfo(m)
  BY <1>2, <1>3, <1>5 DEF ReadLeaderInfo, Fatal
<1>6. CASE StartRedis(m) \/ RestartRedis(m)
  BY <1>0, <1>6 DEF StartRedis, RestartRedis, SpawnRedis
<1>7. CASE StopRedis(m)
  BY <1>0, <1>7 DEF StopRedis
<1>8. CASE RedisReady(m) \/ RedisCrash(m) \/ MonitorProcess(m)
  BY <1>0, <1>8 DEF RedisReady, RedisCrash, MonitorProcess
<1>9. CASE ContainerKill(m)
  BY <1>0, <1>9 DEF ContainerKill, ProcessEnds
<1>10. CASE TryAcquireLock(m) \/ WaitForReady(m) \/ PublishOpen(m) \/ PublishFill(m)
            \/ PublishRename(m) \/ ConnectStorage(m) \/ JoinHealthLoop(m) \/ ReleaseLock(m)
  BY <1>2, <1>10 DEF TryAcquireLock, WaitForReady, PublishOpen, PublishFill, PublishRename,
                     ConnectStorage, JoinHealthLoop, ReleaseLock
<1>11. CASE TickLeader(m) \/ HealthFill(m) \/ HealthRename(m) \/ HealthWriteFails(m)
            \/ RedisAlive(m) \/ RestartRedisFails(m) \/ TickFollower(m) \/ HealthLoopStop(m)
  BY <1>2, <1>11 DEF TickLeader, HealthFill, HealthRename, HealthWriteFails, RedisAlive,
                     RestartRedisFails, TickFollower, HealthLoopStop
<1>12. CASE Boot(m) \/ Shutdown(m)
  BY <1>2, <1>12 DEF Boot, Shutdown
<1> QED
  BY <1>1, <1>4, <1>5, <1>6, <1>7, <1>8, <1>9, <1>10, <1>11, <1>12
     DEF Main, HealthLoop, Environment

\* No shutdown leaves a redis-server behind, whatever its health loop still
\* does: orphans are left by processes that die or give up in Start.
THEOREM ShutdownLeavesNone == Spec => OrphansComeFromDeath
<1>1. IInv /\ [Next]_vars
        => [\A n \in Node : ~Orphan(n) /\ Orphan(n)'
                              => pc[n] \notin {"down", "close"} /\ pc'[n] = "down"]_vars
  BY OrphanStep
<1> QED  BY <1>1, Invariance, PTL DEF Spec, OrphansComeFromDeath

\* The README has Redis at the leader only: this holds but for orphans, so
\* that they are all that the run election_orphan can find.
THEOREM RedisAtLeader == Spec => [](RedisOnlyAtLeader \/ \E n \in Node : Orphan(n))
<1>1. OwnedRedisUnderLock => (RedisOnlyAtLeader \/ \E n \in Node : Orphan(n))
  BY DEF OwnedRedisUnderLock, RedisOnlyAtLeader, Orphan
<1> QED  BY <1>1, RedisSafety, PTL

\* Once nobody holds the lock and nobody is about to try, only a process that
\* is started can lead: however many followers run, none of them takes over.
THEOREM NobodyTakesOver == Spec => LeaderlessUntilStart
<1>1. ASSUME IInv, [Next]_vars, Leaderless, ~Leaderless'
      PROVE  \E n \in Node : Boot(n)
  <2>0. pc \in [Node -> MainPC] /\ \A n \in Node : pc[n] # "acquire"
    BY <1>1 DEF IInv, TypeOK, Leaderless
  <2>1. PICK m \in Node : \/ Main(m) \/ HealthLoop(m) \/ Environment(m)
                          \/ RedisReady(m) \/ MonitorProcess(m)
    BY <1>1 DEF Next, vars, Leaderless
  <2>2. lock = None
    BY <1>1 DEF Leaderless
  <2>3. CASE Boot(m)
    BY <2>3
  <2>4. ASSUME lock' = None, \/ pc' = pc
                             \/ \E l \in MainPC \ {"acquire"} : Goto(m, l)
        PROVE  FALSE
    BY <1>1, <2>0, <2>4 DEF Leaderless, Goto
  <2>5. CASE ProcessEnds(m)
    BY <2>2, <2>4, <2>5 DEF ProcessEnds, MainPC, HolderPC
  <2>6. CASE \/ StartRedisFails(m) \/ WaitForReadyTimeout(m) \/ PublishFails(m)
             \/ CloseStorage(m) \/ Crash(m) \/ ContainerKill(m)
    BY <2>5, <2>6 DEF StartRedisFails, WaitForReadyTimeout, PublishFails, CloseStorage, Fatal,
                      Crash, ContainerKill
  <2>7. CASE ReadLeaderInfo(m)
    BY <2>2, <2>4, <2>5, <2>7 DEF ReadLeaderInfo, Fatal, shared, MainPC, HolderPC
  <2>8. CASE TryAcquireLock(m)
    BY <2>0, <2>8 DEF TryAcquireLock
  <2>9. CASE \/ StartRedis(m) \/ WaitForReady(m) \/ PublishOpen(m) \/ PublishFill(m)
             \/ PublishRename(m) \/ ConnectStorage(m) \/ StopRedis(m) \/ ReleaseLock(m)
    BY <2>2, <2>4, <2>9 DEF StartRedis, WaitForReady, PublishOpen, PublishFill, PublishRename,
             ConnectStorage, StopRedis, ReleaseLock, shared, MainPC, HolderPC
  <2>10. CASE JoinHealthLoop(m)
    BY <2>2, <2>4, <2>10 DEF JoinHealthLoop, shared, MainPC, HolderPC
  <2>11. CASE HealthLoop(m)
    BY <2>2, <2>4, <2>11 DEF HealthLoop, TickLeader, HealthFill, HealthRename, HealthWriteFails,
             RedisAlive, RestartRedis, RestartRedisFails, TickFollower, HealthLoopStop,
             shared, thread
  <2>12. CASE Shutdown(m) \/ RedisCrash(m) \/ RedisReady(m) \/ MonitorProcess(m)
    BY <2>2, <2>4, <2>12 DEF Shutdown, RedisCrash, RedisReady, MonitorProcess, shared, thread,
             MainPC, HolderPC
  <2> QED
    BY <2>1, <2>3, <2>6, <2>7, <2>8, <2>9, <2>10, <2>11, <2>12 DEF Main, Environment
<1>2. IInv /\ [Next]_vars => [Leaderless => Leaderless' \/ \E n \in Node : Boot(n)]_vars
  BY <1>1
<1> QED  BY <1>2, Invariance, PTL DEF Spec, LeaderlessUntilStart

\* A process that has started connects to no other Redis as long as it lives.
THEOREM NeverReconnects == Spec => ConnectsOnce
<1> DEFINE Up == {"run", "join", "stopRedis", "release", "close"}
<1>1. ASSUME IInv, [Next]_vars, NEW n \in Node, pc[n] \in Up, pc'[n] # "down"
      PROVE  UNCHANGED <<client[n], connected[n]>>
  <2>0. /\ pc \in [Node -> MainPC]
        /\ client \in [Node -> Address] /\ connected \in [Node -> BOOLEAN]
    BY <1>1 DEF IInv, TypeOK
  <2>1. CASE UNCHANGED vars
    BY <2>1 DEF vars
  <2>2. ASSUME NEW m \in Node, \/ Main(m) \/ HealthLoop(m) \/ Environment(m)
                               \/ RedisReady(m) \/ MonitorProcess(m)
        PROVE  UNCHANGED <<client[n], connected[n]>>
    <3>1. CASE UNCHANGED store
      BY <3>1 DEF store
    <3>2. CASE ProcessEnds(m)
      BY <1>1, <2>0, <3>2 DEF ProcessEnds, Goto
    <3>3. CASE ConnectStorage(m)
      BY <1>1, <2>0, <3>3 DEF ConnectStorage
    <3>4. CASE \/ StartRedisFails(m) \/ WaitForReadyTimeout(m) \/ PublishFails(m)
               \/ CloseStorage(m) \/ Crash(m) \/ ContainerKill(m)
      BY <3>2, <3>4 DEF StartRedisFails, WaitForReadyTimeout, PublishFails, CloseStorage, Fatal,
                        Crash, ContainerKill
    <3>5. CASE ReadLeaderInfo(m)
      BY <3>1, <3>2, <3>5 DEF ReadLeaderInfo, Fatal
    <3>6. CASE \/ TryAcquireLock(m) \/ StartRedis(m) \/ WaitForReady(m) \/ PublishOpen(m)
               \/ PublishFill(m) \/ PublishRename(m) \/ JoinHealthLoop(m) \/ StopRedis(m)
               \/ ReleaseLock(m)
      BY <3>1, <3>6 DEF TryAcquireLock, StartRedis, WaitForReady, PublishOpen, PublishFill,
               PublishRename, JoinHealthLoop, StopRedis, ReleaseLock
    <3>7. CASE HealthLoop(m)
      BY <3>1, <3>7 DEF HealthLoop, TickLeader, HealthFill, HealthRename, HealthWriteFails,
               RedisAlive, RestartRedis, RestartRedisFails, TickFollower, HealthLoopStop
    <3>8. CASE Boot(m) \/ Shutdown(m) \/ RedisCrash(m) \/ RedisReady(m) \/ MonitorProcess(m)
      BY <3>1, <3>8 DEF Boot, Shutdown, RedisCrash, RedisReady, MonitorProcess
    <3> QED
      BY <2>2, <3>3, <3>4, <3>5, <3>6, <3>7, <3>8 DEF Main, Environment
  <2> QED
    BY <1>1, <2>1, <2>2 DEF Next
<1>2. IInv /\ [Next]_vars
        => [\A n \in Node : pc[n] \in Up /\ pc'[n] # "down"
                              => UNCHANGED <<client[n], connected[n]>>]_vars
  BY <1>1
<1> QED  BY <1>2, Invariance, PTL DEF Spec, ConnectsOnce
=============================================================================
