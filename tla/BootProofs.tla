----------------------------- MODULE BootProofs -----------------------------
(***************************************************************************)
(* Proofs about Boot, for any instances and any number of faults.          *)
(***************************************************************************)
EXTENDS Boot, TLAPS

LEMMA TypeInit == Init => TypeOK
  BY S3liteAssumption DEF Init, S3liteInit, TypeOK, S3liteTypeOK, Role, Stage,
     Waiting

\* A random value is one of its kind.
LEMMA FreshIn ==
    ASSUME NEW S, S \ made # {} PROVE Fresh(S) \in S \ made
  BY DEF Fresh

\* Every step keeps the types.
LEMMA TypeStep ==
    ASSUME TypeOK, [Next]_vars PROVE TypeOK'
<1> USE DEF TypeOK, S3liteTypeOK, Role, Stage, Waiting, s3liteVars, IsLeader,
            LeaseFree, Acquire, OpenFollower, Refresh, Commit, Sync, Release,
            Fault, Drop, CloseDB, Goes, Commits, After, Exits, Secret
<1>1. ASSUME NEW i \in Instance, Open(i) PROVE TypeOK'
  BY <1>1 DEF Open
<1>2. ASSUME NEW i \in Instance, Skips(i) PROVE TypeOK'
  BY <1>2 DEF Skips
<1>3. ASSUME NEW i \in Instance, FindsNone(i) PROVE TypeOK'
  BY <1>3 DEF FindsNone
<1>4. ASSUME NEW i \in Instance, Reissue(i) PROVE TypeOK'
  BY <1>4 DEF Reissue
<1>5. ASSUME NEW i \in Instance, CreateAdmin(i) PROVE TypeOK'
  BY <1>5, FreshIn, BootAssumption DEF CreateAdmin
<1>6. ASSUME NEW i \in Instance, MintToken(i) PROVE TypeOK'
  BY <1>6, FreshIn, BootAssumption DEF MintToken
<1>7. ASSUME NEW i \in Instance, BootstrapFails(i) PROVE TypeOK'
  BY <1>7 DEF BootstrapFails
<1>8. ASSUME NEW i \in Instance, Finds(i) PROVE TypeOK'
  BY <1>8 DEF Finds
<1>9. ASSUME NEW i \in Instance, WriterFindsNone(i) PROVE TypeOK'
  BY <1>9 DEF WriterFindsNone
<1>10. ASSUME NEW i \in Instance, FollowerRefreshes(i) PROVE TypeOK'
  BY <1>10 DEF FollowerRefreshes
<1>11. ASSUME NEW i \in Instance, Insert(i) PROVE TypeOK'
  BY <1>11, FreshIn, BootAssumption DEF Insert
<1>12. ASSUME NEW i \in Instance, Reread(i) PROVE TypeOK'
  BY <1>12 DEF Reread
<1>13. ASSUME NEW i \in Instance, Promote(i) PROVE TypeOK'
  BY <1>13 DEF Promote
<1>14. ASSUME NEW i \in Instance, SecretFails(i) PROVE TypeOK'
  BY <1>14 DEF SecretFails
<1>15. ASSUME NEW i \in Instance, Gate(i) PROVE TypeOK'
  BY <1>15 DEF Gate
<1>16. ASSUME NEW i \in Instance, Yield(i) PROVE TypeOK'
  BY <1>16 DEF Yield
<1>17. ASSUME NEW i \in Instance, Stop(i) PROVE TypeOK'
  BY <1>17 DEF Stop
<1>18. ASSUME NEW i \in Instance, Close(i) PROVE TypeOK'
  BY <1>18 DEF Close
<1>19. ASSUME NEW i \in Instance, Crash(i) PROVE TypeOK'
  BY <1>19 DEF Crash
<1>20. ASSUME NEW i \in Instance, Lapse(i) PROVE TypeOK'
  BY <1>20 DEF Lapse
<1>21. ASSUME NEW i \in Instance, Replicate(i) PROVE TypeOK'
  BY <1>21 DEF Replicate
<1>22. CASE UNCHANGED vars
  BY <1>22 DEF vars
<1> QED
  BY <1>1, <1>2, <1>3, <1>4, <1>5, <1>6, <1>7, <1>8, <1>9, <1>10, <1>11, <1>12,
     <1>13, <1>14, <1>15, <1>16, <1>17, <1>18, <1>19, <1>20, <1>21, <1>22 DEF
     Next, Bootstrap, GetOrCreateSecret

\* A process goes down with its database closed.
LEMMA DownStep ==
    ASSUME TypeOK, DownIsClosed, [Next]_vars PROVE DownIsClosed'
<1> USE DEF TypeOK, S3liteTypeOK, Role, Stage, Waiting, s3liteVars, IsLeader,
            LeaseFree, Acquire, OpenFollower, Refresh, Commit, Sync, Release,
            Fault, Drop, CloseDB, Goes, Commits, After, Exits, DownIsClosed
<1>1. ASSUME NEW i \in Instance, Open(i) PROVE DownIsClosed'
  BY <1>1 DEF Open
<1>2. ASSUME NEW i \in Instance, Skips(i) PROVE DownIsClosed'
  BY <1>2 DEF Skips
<1>3. ASSUME NEW i \in Instance, FindsNone(i) PROVE DownIsClosed'
  BY <1>3 DEF FindsNone
<1>4. ASSUME NEW i \in Instance, Reissue(i) PROVE DownIsClosed'
  BY <1>4 DEF Reissue
<1>5. ASSUME NEW i \in Instance, CreateAdmin(i) PROVE DownIsClosed'
  BY <1>5 DEF CreateAdmin
<1>6. ASSUME NEW i \in Instance, MintToken(i) PROVE DownIsClosed'
  BY <1>6 DEF MintToken
<1>7. ASSUME NEW i \in Instance, BootstrapFails(i) PROVE DownIsClosed'
  BY <1>7 DEF BootstrapFails
<1>8. ASSUME NEW i \in Instance, Finds(i) PROVE DownIsClosed'
  BY <1>8 DEF Finds
<1>9. ASSUME NEW i \in Instance, WriterFindsNone(i) PROVE DownIsClosed'
  BY <1>9 DEF WriterFindsNone
<1>10. ASSUME NEW i \in Instance, FollowerRefreshes(i) PROVE DownIsClosed'
  BY <1>10 DEF FollowerRefreshes
<1>11. ASSUME NEW i \in Instance, Insert(i) PROVE DownIsClosed'
  BY <1>11 DEF Insert
<1>12. ASSUME NEW i \in Instance, Reread(i) PROVE DownIsClosed'
  BY <1>12 DEF Reread
<1>13. ASSUME NEW i \in Instance, Promote(i) PROVE DownIsClosed'
  BY <1>13 DEF Promote
<1>14. ASSUME NEW i \in Instance, SecretFails(i) PROVE DownIsClosed'
  BY <1>14 DEF SecretFails
<1>15. ASSUME NEW i \in Instance, Gate(i) PROVE DownIsClosed'
  BY <1>15 DEF Gate
<1>16. ASSUME NEW i \in Instance, Yield(i) PROVE DownIsClosed'
  BY <1>16 DEF Yield
<1>17. ASSUME NEW i \in Instance, Stop(i) PROVE DownIsClosed'
  BY <1>17 DEF Stop
<1>18. ASSUME NEW i \in Instance, Close(i) PROVE DownIsClosed'
  BY <1>18 DEF Close
<1>19. ASSUME NEW i \in Instance, Crash(i) PROVE DownIsClosed'
  BY <1>19 DEF Crash
<1>20. ASSUME NEW i \in Instance, Lapse(i) PROVE DownIsClosed'
  BY <1>20 DEF Lapse
<1>21. ASSUME NEW i \in Instance, Replicate(i) PROVE DownIsClosed'
  BY <1>21 DEF Replicate
<1>22. CASE UNCHANGED vars
  BY <1>22 DEF vars
<1> QED
  BY <1>1, <1>2, <1>3, <1>4, <1>5, <1>6, <1>7, <1>8, <1>9, <1>10, <1>11, <1>12,
     <1>13, <1>14, <1>15, <1>16, <1>17, <1>18, <1>19, <1>20, <1>21, <1>22 DEF
     Next, Bootstrap, GetOrCreateSecret

\* What a step does to the database all instances share.  Whoever writes a
\* secret or an admin has none.
S3Step ==
    \/ UNCHANGED s3liteVars
    \/ \E i \in Instance :
        \/ Acquire(i)
        \/ ~IsLeader(i) /\ OpenFollower(i)
        \/ Refresh(i)
        \/ \E w \in Write :
            /\ Commit(i, w)
            /\ w \in Key => Secret(i) = {}
            /\ w \in Admin => ~HasAdmin(i)
        \/ Sync(i)
        \/ s3 = db[i] /\ Release(i, "follower")
        \/ Drop(i, "closed") \/ Drop(i, "demoted")
        \/ CloseDB(i)

\* Every step of a process is such a step.
LEMMA S3StepTaken ==
    ASSUME TypeOK, DownIsClosed, ChecksHold, [Next]_vars PROVE S3Step
<1> USE DEF S3Step
<1>1. ASSUME NEW i \in Instance, Open(i) PROVE S3Step
  BY <1>1 DEF Open, Goes, DownIsClosed, IsLeader
<1>2. ASSUME NEW i \in Instance,
             Skips(i) \/ FindsNone(i) \/ Reissue(i) \/ BootstrapFails(i) \/
                 Finds(i) \/ WriterFindsNone(i) \/ Reread(i) \/ SecretFails(i)
                 \/ Stop(i)
      PROVE  S3Step
  BY <1>2 DEF Skips, FindsNone, Reissue, BootstrapFails, Finds, WriterFindsNone,
     Reread, SecretFails, Stop
<1>3. ASSUME NEW i \in Instance, CreateAdmin(i) PROVE S3Step
  BY <1>3, FreshIn, BootAssumption DEF CreateAdmin, Commits, ChecksHold, Commit,
     IsLeader, Goes
<1>4. ASSUME NEW i \in Instance, MintToken(i) PROVE S3Step
  BY <1>4, FreshIn, BootAssumption DEF MintToken, Commits, ChecksHold, Commit,
     IsLeader, Goes
<1>5. ASSUME NEW i \in Instance, Insert(i) PROVE S3Step
  BY <1>5, FreshIn, BootAssumption DEF Insert, Commits, ChecksHold, Commit,
     IsLeader, Goes
<1>6. ASSUME NEW i \in Instance,
             FollowerRefreshes(i) \/ Promote(i) \/ Gate(i) \/ Yield(i)
      PROVE  S3Step
  BY <1>6 DEF FollowerRefreshes, Promote, Gate, Yield
<1>7. ASSUME NEW i \in Instance,
             Close(i) \/ Crash(i) \/ Lapse(i) \/ Replicate(i)
      PROVE  S3Step
  BY <1>7 DEF Close, Crash, Lapse, Replicate
<1>8. CASE UNCHANGED vars
  BY <1>8 DEF vars
<1> QED
  BY <1>1, <1>2, <1>3, <1>4, <1>5, <1>6, <1>7, <1>8 DEF Next, Bootstrap,
     GetOrCreateSecret

\* The replica stays behind the one writer.
LEMMA ReplicaStep ==
    ASSUME TypeOK, ReplicaBehind, S3Step PROVE ReplicaBehind'
<1> USE DEF TypeOK, S3liteTypeOK, Role, IsLeader, ReplicaBehind
<1>1. ASSUME NEW i \in Instance, Acquire(i) PROVE ReplicaBehind'
  BY <1>1 DEF LeaseFree, Acquire
<1>2. ASSUME NEW i \in Instance, ~IsLeader(i) /\ OpenFollower(i)
      PROVE  ReplicaBehind'
  BY <1>2 DEF OpenFollower
<1>3. ASSUME NEW i \in Instance, Refresh(i) PROVE ReplicaBehind'
  BY <1>3 DEF Refresh
<1>4. ASSUME NEW i \in Instance, NEW w \in Write, Commit(i, w),
             w \in Key => Secret(i) = {}, w \in Admin => ~HasAdmin(i)
      PROVE  ReplicaBehind'
  BY <1>4 DEF Commit
<1>5. ASSUME NEW i \in Instance, Sync(i) PROVE ReplicaBehind'
  BY <1>5 DEF Sync
<1>6. ASSUME NEW i \in Instance, s3 = db[i] /\ Release(i, "follower")
      PROVE  ReplicaBehind'
  BY <1>6 DEF Release
<1>7. ASSUME NEW i \in Instance, Drop(i, "closed") \/ Drop(i, "demoted")
      PROVE  ReplicaBehind'
  BY <1>7 DEF Drop, Fault
<1>8. ASSUME NEW i \in Instance, CloseDB(i) PROVE ReplicaBehind'
  BY <1>8 DEF CloseDB
<1>9. CASE UNCHANGED s3liteVars
  BY <1>9 DEF s3liteVars
<1> QED
  BY <1>1, <1>2, <1>3, <1>4, <1>5, <1>6, <1>7, <1>8, <1>9 DEF S3Step

\* A secret or an admin is written once.
LEMMA OneStep ==
    ASSUME TypeOK, ReplicaBehind, OneOfEach, S3Step PROVE OneOfEach'
<1> USE DEF TypeOK, S3liteTypeOK, Role, IsLeader, ReplicaBehind, OneOfEach,
            AtMostOne, Secret, HasAdmin
<1>1. ASSUME NEW i \in Instance, Acquire(i) PROVE OneOfEach'
  BY <1>1 DEF LeaseFree, Acquire
<1>2. ASSUME NEW i \in Instance, ~IsLeader(i) /\ OpenFollower(i)
      PROVE  OneOfEach'
  BY <1>2 DEF OpenFollower
<1>3. ASSUME NEW i \in Instance, Refresh(i) PROVE OneOfEach'
  BY <1>3 DEF Refresh
<1>4. ASSUME NEW i \in Instance, NEW w \in Write, Commit(i, w),
             w \in Key => Secret(i) = {}, w \in Admin => ~HasAdmin(i)
      PROVE  OneOfEach'
  <2>1. /\ role[i] = "leader" /\ role' = role
        /\ s3' = s3 /\ db'[i] = db[i] \union {w}
    BY <1>4 DEF Commit
  <2>2. \A j \in Instance : role'[j] = "leader" => j = i
    BY <2>1
  <2>3. AtMostOne(db'[i] \intersect Key) /\ AtMostOne(db'[i] \intersect Admin)
    <3>1. AtMostOne(db[i] \intersect Key) /\ AtMostOne(db[i] \intersect Admin)
      BY <2>1
    <3> QED BY <1>4, <2>1, <3>1
  <2>4. ASSUME NEW d \in {s3'} \union
                      {db'[j] : j \in {h \in Instance : role'[h] = "leader"}}
        PROVE  AtMostOne(d \intersect Key) /\ AtMostOne(d \intersect Admin)
    <3>1. d = s3 \/ d = db'[i]
      BY <2>1, <2>2, <2>4
    <3> QED BY <2>3, <3>1
  <2> QED BY <2>4
<1>5. ASSUME NEW i \in Instance, Sync(i) PROVE OneOfEach'
  BY <1>5 DEF Sync
<1>6. ASSUME NEW i \in Instance, s3 = db[i] /\ Release(i, "follower")
      PROVE  OneOfEach'
  BY <1>6 DEF Release
<1>7. ASSUME NEW i \in Instance, Drop(i, "closed") \/ Drop(i, "demoted")
      PROVE  OneOfEach'
  BY <1>7 DEF Drop, Fault
<1>8. ASSUME NEW i \in Instance, CloseDB(i) PROVE OneOfEach'
  BY <1>8 DEF CloseDB
<1>9. CASE UNCHANGED s3liteVars
  BY <1>9 DEF s3liteVars
<1> QED
  BY <1>1, <1>2, <1>3, <1>4, <1>5, <1>6, <1>7, <1>8, <1>9 DEF S3Step

\* Nothing known is forgotten.
Kept == Known \subseteq Known' /\ \A i \in Instance : db'[i] \subseteq Known'

\* Nothing known is forgotten.
LEMMA KeptStep ==
    ASSUME TypeOK, ReplicaBehind, Accounted, S3Step PROVE Kept
<1> USE DEF TypeOK, S3liteTypeOK, Role, IsLeader, ReplicaBehind, Accounted,
            Known, Kept
<1>1. ASSUME NEW i \in Instance, Acquire(i) PROVE Kept
  BY <1>1 DEF LeaseFree, Acquire
<1>2. ASSUME NEW i \in Instance, ~IsLeader(i) /\ OpenFollower(i) PROVE Kept
  BY <1>2 DEF OpenFollower
<1>3. ASSUME NEW i \in Instance, Refresh(i) PROVE Kept
  BY <1>3 DEF Refresh
<1>4. ASSUME NEW i \in Instance, NEW w \in Write, Commit(i, w),
             w \in Key => Secret(i) = {}, w \in Admin => ~HasAdmin(i) PROVE Kept
  BY <1>4 DEF Commit
<1>5. ASSUME NEW i \in Instance, Sync(i) PROVE Kept
  BY <1>5 DEF Sync
<1>6. ASSUME NEW i \in Instance, s3 = db[i] /\ Release(i, "follower") PROVE Kept
  BY <1>6 DEF Release
<1>7. ASSUME NEW i \in Instance, Drop(i, "closed") \/ Drop(i, "demoted")
      PROVE  Kept
  BY <1>7 DEF Drop, Fault
<1>8. ASSUME NEW i \in Instance, CloseDB(i) PROVE Kept
  BY <1>8 DEF CloseDB
<1>9. CASE UNCHANGED s3liteVars
  BY <1>9 DEF s3liteVars
<1> QED
  BY <1>1, <1>2, <1>3, <1>4, <1>5, <1>6, <1>7, <1>8, <1>9 DEF S3Step

\* What a writer checked holds until it writes.
LEMMA ChecksStep ==
    ASSUME TypeOK, ReplicaBehind, ChecksHold, [Next]_vars PROVE ChecksHold'
<1> USE DEF TypeOK, S3liteTypeOK, Role, Stage, Waiting, s3liteVars, IsLeader,
            LeaseFree, Acquire, OpenFollower, Refresh, Commit, Sync, Release,
            Fault, Drop, CloseDB, Goes, Commits, After, Exits, ReplicaBehind,
            ChecksHold, Secret, HasAdmin
<1>1. ASSUME NEW i \in Instance, Open(i) PROVE ChecksHold'
  BY <1>1 DEF Open
<1>2. ASSUME NEW i \in Instance, Skips(i) PROVE ChecksHold'
  BY <1>2 DEF Skips
<1>3. ASSUME NEW i \in Instance, FindsNone(i) PROVE ChecksHold'
  BY <1>3 DEF FindsNone
<1>4. ASSUME NEW i \in Instance, Reissue(i) PROVE ChecksHold'
  BY <1>4 DEF Reissue
<1>5. ASSUME NEW i \in Instance, CreateAdmin(i) PROVE ChecksHold'
  <2>1. PICK a \in Admin : Commit(i, a) /\ Goes(i, "create", "mint")
    BY <1>5, FreshIn DEF CreateAdmin
  <2>2. /\ \A j \in Instance \ {i} : db'[j] = db[j] /\ pc'[j] = pc[j]
        /\ role' = role /\ pc'[i] = "mint" /\ db'[i] = db[i] \union {a}
    BY <2>1
  <2> QED BY <2>2
<1>6. ASSUME NEW i \in Instance, MintToken(i) PROVE ChecksHold'
  BY <1>6 DEF MintToken
<1>7. ASSUME NEW i \in Instance, BootstrapFails(i) PROVE ChecksHold'
  BY <1>7 DEF BootstrapFails
<1>8. ASSUME NEW i \in Instance, Finds(i) PROVE ChecksHold'
  BY <1>8 DEF Finds
<1>9. ASSUME NEW i \in Instance, WriterFindsNone(i) PROVE ChecksHold'
  BY <1>9 DEF WriterFindsNone
<1>10. ASSUME NEW i \in Instance, FollowerRefreshes(i) PROVE ChecksHold'
  BY <1>10 DEF FollowerRefreshes
<1>11. ASSUME NEW i \in Instance, Insert(i) PROVE ChecksHold'
  BY <1>11 DEF Insert
<1>12. ASSUME NEW i \in Instance, Reread(i) PROVE ChecksHold'
  BY <1>12 DEF Reread
<1>13. ASSUME NEW i \in Instance, Promote(i) PROVE ChecksHold'
  BY <1>13 DEF Promote
<1>14. ASSUME NEW i \in Instance, SecretFails(i) PROVE ChecksHold'
  BY <1>14 DEF SecretFails
<1>15. ASSUME NEW i \in Instance, Gate(i) PROVE ChecksHold'
  BY <1>15 DEF Gate
<1>16. ASSUME NEW i \in Instance, Yield(i) PROVE ChecksHold'
  BY <1>16 DEF Yield
<1>17. ASSUME NEW i \in Instance, Stop(i) PROVE ChecksHold'
  BY <1>17 DEF Stop
<1>18. ASSUME NEW i \in Instance, Close(i) PROVE ChecksHold'
  BY <1>18 DEF Close
<1>19. ASSUME NEW i \in Instance, Crash(i) PROVE ChecksHold'
  BY <1>19 DEF Crash
<1>20. ASSUME NEW i \in Instance, Lapse(i) PROVE ChecksHold'
  BY <1>20 DEF Lapse
<1>21. ASSUME NEW i \in Instance, Replicate(i) PROVE ChecksHold'
  BY <1>21 DEF Replicate
<1>22. CASE UNCHANGED vars
  BY <1>22 DEF vars
<1> QED
  BY <1>1, <1>2, <1>3, <1>4, <1>5, <1>6, <1>7, <1>8, <1>9, <1>10, <1>11, <1>12,
     <1>13, <1>14, <1>15, <1>16, <1>17, <1>18, <1>19, <1>20, <1>21, <1>22 DEF
     Next, Bootstrap, GetOrCreateSecret

\* What an instance holds in memory or prints is from its database.
Learned ==
    /\ \A i \in Instance : key'[i] \subseteq key[i] \union db[i]
    /\ \A t \in shown' \ shown : \E i \in Instance : t \in db'[i]

\* What an instance holds in memory or prints is from its database.
LEMMA LearnedStep ==
    ASSUME TypeOK, [Next]_vars PROVE Learned
<1> USE DEF TypeOK, S3liteTypeOK, Role, Stage, Waiting, Learned
<1>1. ASSUME NEW i \in Instance, Open(i) PROVE Learned
  BY <1>1 DEF Open
<1>2. ASSUME NEW i \in Instance,
             Skips(i) \/ FindsNone(i) \/ Reissue(i) \/ BootstrapFails(i)
      PROVE  Learned
  BY <1>2 DEF Skips, FindsNone, Reissue, BootstrapFails
<1>3. ASSUME NEW i \in Instance, CreateAdmin(i) PROVE Learned
  BY <1>3 DEF CreateAdmin
<1>4. ASSUME NEW i \in Instance, MintToken(i) PROVE Learned
  BY <1>4, FreshIn DEF MintToken, Commits, Commit
<1>5. ASSUME NEW i \in Instance, Finds(i) PROVE Learned
  BY <1>5 DEF Finds, Secret
<1>6. ASSUME NEW i \in Instance, Reread(i) PROVE Learned
  BY <1>6 DEF Reread, Secret
<1>7. ASSUME NEW i \in Instance,
             WriterFindsNone(i) \/ FollowerRefreshes(i) \/ Insert(i) \/
                 Promote(i) \/ SecretFails(i)
      PROVE  Learned
  BY <1>7 DEF WriterFindsNone, FollowerRefreshes, Insert, Promote, SecretFails
<1>8. ASSUME NEW i \in Instance, Gate(i) \/ Yield(i) \/ Stop(i) PROVE Learned
  BY <1>8 DEF Gate, Yield, Stop
<1>9. ASSUME NEW i \in Instance, Close(i) PROVE Learned
  BY <1>9 DEF Close, Exits
<1>10. ASSUME NEW i \in Instance, Crash(i) PROVE Learned
  BY <1>10 DEF Crash, Exits
<1>11. ASSUME NEW i \in Instance, Lapse(i) \/ Replicate(i) PROVE Learned
  BY <1>11 DEF Lapse, Replicate
<1>12. CASE UNCHANGED vars
  BY <1>12 DEF vars
<1> QED
  BY <1>1, <1>2, <1>3, <1>4, <1>5, <1>6, <1>7, <1>8, <1>9, <1>10, <1>11, <1>12
     DEF Next, Bootstrap, GetOrCreateSecret

LEMMA AccountStep ==
    ASSUME TypeOK, DownIsClosed, ReplicaBehind, ChecksHold, Accounted,
        [Next]_vars
    PROVE  Accounted'
  BY S3StepTaken, KeptStep, LearnedStep DEF Accounted, Kept, Learned

\* Every row is generated before it is written.
LEMMA GeneratedStep ==
    ASSUME TypeOK, Generated, [Next]_vars PROVE Generated'
<1>1. /\ s3 \subseteq made /\ lost \subseteq made
      /\ \A i \in Instance : db[i] \subseteq made
  BY DEF Generated
<1>2. ASSUME s3' \subseteq made', lost' \subseteq made',
             \A i \in Instance : db'[i] \subseteq made'
      PROVE  Generated'
  BY <1>2 DEF Generated
<1>3. db \in [Instance -> SUBSET Write]
  BY DEF TypeOK, S3liteTypeOK
<1>4. ASSUME NEW i \in Instance, Acquire(i) \/ OpenFollower(i) \/ Refresh(i), UNCHANGED made
      PROVE  Generated'
  <2>1. db' = [db EXCEPT ![i] = s3] /\ UNCHANGED <<s3, lost>>
    BY <1>4 DEF Acquire, OpenFollower, Refresh
  <2> QED BY <1>1, <1>2, <1>3, <1>4, <2>1
<1>5. ASSUME NEW i \in Instance, NEW S, Commits(i, S) PROVE Generated'
  <2>1. /\ db' = [db EXCEPT ![i] = @ \union {Fresh(S)}] /\ UNCHANGED <<s3, lost>>
        /\ made' = made \union {Fresh(S)}
    BY <1>5 DEF Commits, Commit
  <2> QED BY <1>1, <1>2, <1>3, <2>1
<1>6. ASSUME NEW i \in Instance, UNCHANGED made,
             Sync(i) \/ CloseDB(i) \/ Release(i, "follower")
               \/ Drop(i, "closed") \/ Drop(i, "demoted")
      PROVE  Generated'
  <2>1. /\ UNCHANGED db /\ s3' \in {s3, db[i]}
        /\ lost' \subseteq lost \union db[i]
    BY <1>6 DEF Sync, CloseDB, Release, Drop
  <2> QED BY <1>1, <1>2, <1>6, <2>1
<1>7. ASSUME UNCHANGED <<s3liteVars, made>> PROVE Generated'
  BY <1>1, <1>2, <1>7 DEF s3liteVars
<1>8. ASSUME NEW i \in Instance, Open(i) \/ FollowerRefreshes(i) \/ Promote(i) \/ Gate(i)
      PROVE  Generated'
  BY <1>4, <1>7, <1>8 DEF Open, FollowerRefreshes, Promote, Gate
<1>9. ASSUME NEW i \in Instance, CreateAdmin(i) \/ MintToken(i) \/ Insert(i)
      PROVE  Generated'
  BY <1>5, <1>9 DEF CreateAdmin, MintToken, Insert
<1>10. ASSUME NEW i \in Instance,
              Yield(i) \/ Close(i) \/ Crash(i) \/ Lapse(i) \/ Replicate(i)
       PROVE  Generated'
  BY <1>6, <1>10 DEF Yield, Close, Crash, Lapse, Replicate, Exits
<1>11. ASSUME NEW i \in Instance,
              Skips(i) \/ FindsNone(i) \/ Reissue(i) \/ BootstrapFails(i) \/
                  Finds(i) \/ WriterFindsNone(i) \/ Reread(i) \/ SecretFails(i)
                  \/ Stop(i)
       PROVE  Generated'
  BY <1>7, <1>11 DEF Skips, FindsNone, Reissue, BootstrapFails, Finds, WriterFindsNone,
     Reread, SecretFails, Stop
<1>12. CASE UNCHANGED vars
  BY <1>7, <1>12 DEF vars
<1> QED
  BY <1>8, <1>9, <1>10, <1>11, <1>12 DEF Next, Bootstrap, GetOrCreateSecret

LEMMA IInvInit == Init => IInv
  <1> SUFFICES ASSUME Init PROVE IInv
    OBVIOUS
  <1>1. TypeOK
    BY TypeInit
  <1>2. DownIsClosed /\ ReplicaBehind /\ ChecksHold
    BY DEF Init, S3liteInit, DownIsClosed, ReplicaBehind, ChecksHold, IsLeader
  <1>3. OneOfEach /\ Accounted /\ Generated
    BY DEF Init, S3liteInit, OneOfEach, AtMostOne, Accounted, Known, IsLeader, Generated
  <1> QED BY <1>1, <1>2, <1>3 DEF IInv

LEMMA IInvStep == IInv /\ [Next]_vars => IInv'
  BY TypeStep, DownStep, S3StepTaken, ReplicaStep, OneStep, ChecksStep,
     AccountStep, GeneratedStep
     DEF IInv

LEMMA IInvHolds == Spec => []IInv
  BY IInvInit, IInvStep, PTL DEF Spec

(***************************************************************************)
(* Type correctness (TypeOK) of the boot, for any instances.               *)
(***************************************************************************)
THEOREM BootTypeCorrect == Spec => []TypeOK
  <1>1. IInv => TypeOK
    BY DEF IInv
  <1> QED BY IInvHolds, <1>1, PTL

(***************************************************************************)
(* GetOrCreateSecret gives every instance on a root the same secret,       *)
(* whoever creates it and whenever (KeysAgree).                            *)
(***************************************************************************)
THEOREM OneSecret == Spec => []KeysAgree
  <1>1. IInv => KeysAgree
    <2> SUFFICES ASSUME IInv, NEW i \in Instance, NEW j \in Instance,
                        NEW k \in key[i] \ lost, NEW l \in key[j] \ lost
                 PROVE  k = l
      BY DEF KeysAgree
    <2> DEFINE Counts == {s3} \union {db[h] : h \in {g \in Instance :
        IsLeader(g)}}
    <2>1. k \in Key /\ l \in Key /\ k \in Known \ lost /\ l \in Known \ lost
      BY DEF IInv, Accounted, TypeOK
    <2>2. PICK d \in Counts : k \in d /\ l \in d
      BY <2>1 DEF IInv, ReplicaBehind, Known
    <2> QED BY <2>1, <2>2 DEF IInv, OneOfEach, AtMostOne
  <1> QED BY IInvHolds, <1>1, PTL

(***************************************************************************)
(* A root gets one admin from the bootstrap, whichever processes are at it *)
(* (FirstAdminOnce).                                                       *)
(***************************************************************************)
THEOREM OneFirstAdmin == Spec => []FirstAdminOnce
  <1>1. IInv => FirstAdminOnce
    BY DEF IInv, OneOfEach, AtMostOne, FirstAdminOnce
  <1> QED BY IInvHolds, <1>1, PTL

(***************************************************************************)
(* A printed token is in the database of every later writer, unless a      *)
(* fault lost it (BannerHolds).                                            *)
(***************************************************************************)
THEOREM BannerInForce == Spec => []BannerHolds
  <1>1. IInv => BannerHolds
    BY DEF IInv, Accounted, Known, ReplicaBehind, BannerHolds
  <1> QED BY IInvHolds, <1>1, PTL

-----------------------------------------------------------------------------
(* One root                                                                *)

\* There is one leader at most, and the root is its database, or the replica.
LEMMA RootIs ==
  ASSUME ReplicaBehind
  PROVE  /\ \A i \in Instance : IsLeader(i) => Root = db[i] /\ holder = i /\ s3 \subseteq Root
         /\ (\A i \in Instance : ~IsLeader(i)) => Root = s3
  BY DEF ReplicaBehind, Root

LEMMA RootIsNext ==
  ASSUME ReplicaBehind'
  PROVE  /\ \A i \in Instance : IsLeader(i)' => Root' = db'[i]
         /\ (\A i \in Instance : ~IsLeader(i)') => Root' = s3'
  BY DEF ReplicaBehind, Root

\* What the steps of s3lite make of the root.
Same == Root' = Root /\ UNCHANGED <<s3, lost>>
Added(v) == Root' = Root \union {v} /\ UNCHANGED <<s3, lost>>
Synced == Root' = Root /\ s3' = Root /\ UNCHANGED lost
Fell == Root' = s3 /\ lost' = lost \union (Root \ s3) /\ UNCHANGED s3

LEMMA RootKinds ==
  ASSUME IInv, IInv', NEW i \in Instance
  PROVE  /\ UNCHANGED s3liteVars => Same
         /\ Acquire(i) => Same
         /\ OpenFollower(i) /\ ~IsLeader(i) => Same
         /\ Refresh(i) => Same
         /\ \A v : Commit(i, v) => Added(v)
         /\ Sync(i) => Synced
         /\ Release(i, "follower") /\ s3 = db[i] => Same
         /\ \A to \in {"closed", "demoted"} : Drop(i, to) => Same \/ Fell
         /\ CloseDB(i) => Same \/ Synced
  <1>0. /\ role \in [Instance -> Role] /\ db \in [Instance -> SUBSET Write]
    BY DEF IInv, TypeOK, S3liteTypeOK
  <1>1. /\ \A j \in Instance : IsLeader(j) => Root = db[j] /\ holder = j
        /\ (\A j \in Instance : ~IsLeader(j)) => Root = s3
    BY RootIs DEF IInv
  <1>2. /\ \A j \in Instance : IsLeader(j)' => Root' = db'[j]
        /\ (\A j \in Instance : ~IsLeader(j)') => Root' = s3'
    BY RootIsNext DEF IInv
  \* Leaders that stay as they are, or none before and after.
  <1>3. ASSUME UNCHANGED <<s3, lost>>,
               \A j \in Instance : /\ IsLeader(j)' = IsLeader(j)
                                   /\ IsLeader(j) => db'[j] = db[j]
        PROVE  Same
    <2>1. CASE \E j \in Instance : IsLeader(j)
      BY <1>1, <1>2, <1>3, <2>1 DEF Same
    <2>2. CASE \A j \in Instance : ~IsLeader(j)
      BY <1>1, <1>2, <1>3, <2>2 DEF Same
    <2> QED BY <2>1, <2>2
  <1>4. UNCHANGED s3liteVars => Same
    BY <1>3 DEF s3liteVars, IsLeader
  <1>5. ASSUME Acquire(i) PROVE Same
    <2>1. \A j \in Instance : ~IsLeader(j)
      BY <1>1, <1>5 DEF Acquire, LeaseFree
    <2>2. /\ Root = s3 /\ db'[i] = s3 /\ role'[i] = "leader" /\ UNCHANGED <<s3, lost>>
      BY <1>0, <1>1, <1>5, <2>1 DEF Acquire
    <2>3. Root' = db'[i]
      BY <1>2, <2>2 DEF IsLeader
    <2> QED BY <2>2, <2>3 DEF Same
  <1>6. ASSUME ~IsLeader(i), OpenFollower(i) \/ Refresh(i) PROVE Same
    <2>1. /\ role' \in {role, [role EXCEPT ![i] = "follower"]}
          /\ db' = [db EXCEPT ![i] = s3] /\ UNCHANGED <<s3, lost>>
      BY <1>6 DEF OpenFollower, Refresh
    <2>2. \A j \in Instance : /\ IsLeader(j)' = IsLeader(j)
                              /\ IsLeader(j) => db'[j] = db[j]
      BY <1>0, <1>6, <2>1 DEF IsLeader
    <2> QED BY <1>3, <2>1, <2>2
  <1>7. Refresh(i) => ~IsLeader(i)
    BY DEF Refresh
  <1>8. ASSUME NEW v, Commit(i, v) PROVE Added(v)
    <2>1. /\ IsLeader(i) /\ db' = [db EXCEPT ![i] = @ \union {v}]
          /\ UNCHANGED <<role, s3, lost>>
      BY <1>8 DEF Commit
    <2>2. Root = db[i] /\ Root' = db'[i] /\ db'[i] = db[i] \union {v}
      BY <1>0, <1>1, <1>2, <2>1 DEF IsLeader
    <2> QED BY <2>1, <2>2 DEF Added
  <1>9. ASSUME Sync(i) PROVE Synced
    <2>1. IsLeader(i) /\ s3' = db[i] /\ UNCHANGED <<role, db, lost>>
      BY <1>9 DEF Sync
    <2>2. Root = db[i] /\ Root' = db[i]
      BY <1>1, <1>2, <2>1 DEF IsLeader
    <2> QED BY <2>1, <2>2 DEF Synced
  <1>10. ASSUME NEW to \in {"closed", "demoted", "follower"}, IsLeader(i),
                role' = [role EXCEPT ![i] = to]
         PROVE  Root' = s3' /\ Root = db[i]
    <2>1. \A j \in Instance : ~IsLeader(j)'
      BY <1>0, <1>1, <1>10 DEF IsLeader
    <2> QED BY <1>1, <1>2, <1>10, <2>1
  <1>11. ASSUME NEW to \in {"closed", "demoted"}, ~IsLeader(i),
                role' = [role EXCEPT ![i] = to], UNCHANGED <<db, s3, lost>>
         PROVE  Same
    <2>1. \A j \in Instance : IsLeader(j)' = IsLeader(j)
      BY <1>0, <1>11 DEF IsLeader
    <2> QED BY <1>3, <1>11, <2>1
  <1>12. ASSUME Release(i, "follower"), s3 = db[i] PROVE Same
    BY <1>10, <1>12 DEF Release, Same
  <1>13. ASSUME NEW to \in {"closed", "demoted"}, Drop(i, to) PROVE Same \/ Fell
    BY <1>10, <1>11, <1>13 DEF Drop, Fell
  <1>14. ASSUME CloseDB(i) PROVE Same \/ Synced
    <2>1. CASE IsLeader(i)
      BY <1>10, <1>14, <2>1 DEF CloseDB, Synced
    <2>2. CASE ~IsLeader(i)
      BY <1>11, <1>14, <2>2 DEF CloseDB
    <2> QED BY <2>1, <2>2
  <1> QED BY <1>4, <1>5, <1>6, <1>7, <1>8, <1>9, <1>12, <1>13, <1>14

\* Every step is one of the root, or changes nothing of it.
LEMMA RootStep ==
  ASSUME IInv, IInv', [Next]_vars PROVE [One!Next]_(One!vars)
<1> USE DEF One!vars
<1>1. ASSUME Same, UNCHANGED <<key, shown>> PROVE UNCHANGED One!vars
  BY <1>1 DEF Same
<1>2. /\ TypeOK /\ \A i \in Instance : IsLeader(i) => Root = db[i]
      /\ Root \union s3 \union lost \subseteq made
      /\ Known \subseteq Root \union lost
  <2>1. \A i \in Instance : IsLeader(i) => Root = db[i] /\ s3 \subseteq Root
    BY RootIs DEF IInv
  <2>2. (\A i \in Instance : ~IsLeader(i)) => Root = s3
    BY RootIs DEF IInv
  <2>3. Root \subseteq made
    BY <2>1, <2>2 DEF IInv, Generated
  <2>4. Known \subseteq Root \union lost
    BY <2>1, <2>2 DEF Known
  <2> QED BY <2>1, <2>3, <2>4 DEF IInv, Generated
\* The steps that leave the root as it is.
<1>3. ASSUME NEW i \in Instance,
             \/ Skips(i) \/ FindsNone(i) \/ Reissue(i) \/ BootstrapFails(i)
             \/ WriterFindsNone(i) \/ SecretFails(i) \/ Stop(i)
      PROVE  UNCHANGED One!vars
  <2>1. UNCHANGED <<s3liteVars, key, shown>>
    BY <1>3 DEF Skips, FindsNone, Reissue, BootstrapFails, WriterFindsNone, SecretFails, Stop
  <2> QED BY <1>1, <2>1, RootKinds
<1>4. ASSUME NEW i \in Instance, Open(i) PROVE UNCHANGED One!vars
  <2>1. (Acquire(i) \/ OpenFollower(i)) /\ UNCHANGED <<key, shown>>
    BY <1>4 DEF Open
  <2>2. ~IsLeader(i)
    BY <1>4 DEF Open, Goes, IInv, DownIsClosed, IsLeader
  <2> QED BY <1>1, <2>1, <2>2, RootKinds
<1>5. ASSUME NEW i \in Instance, FollowerRefreshes(i) \/ Promote(i) \/ Gate(i) \/ Yield(i)
      PROVE  UNCHANGED One!vars
  <2>1. /\ UNCHANGED <<key, shown>>
        /\ \/ Refresh(i) \/ Acquire(i) \/ UNCHANGED s3liteVars
           \/ Release(i, "follower") /\ s3 = db[i]
    BY <1>5 DEF FollowerRefreshes, Promote, Gate, Yield
  <2> QED BY <1>1, <2>1, RootKinds
\* The writes.
<1>6. ASSUME NEW i \in Instance, NEW S \in {Admin, Key, Token}, Commits(i, S)
      PROVE  /\ Fresh(S) \in S /\ IsLeader(i) /\ Root = db[i]
             /\ Fresh(S) \notin Root \union lost /\ Added(Fresh(S))
  <2>1. Fresh(S) \in S \ made /\ Commit(i, Fresh(S))
    BY <1>6, FreshIn DEF Commits
  <2>2. IsLeader(i) /\ Added(Fresh(S))
    BY <2>1, RootKinds DEF Commit
  <2> QED BY <1>2, <2>1, <2>2
<1>7. ASSUME NEW i \in Instance, CreateAdmin(i) PROVE One!Next
  <2>1. Commits(i, Admin) /\ UNCHANGED <<key, shown>> /\ pc[i] = "create"
    BY <1>7 DEF CreateAdmin, Goes
  <2>2. Root \intersect Admin = {}
    BY <1>6, <2>1 DEF IInv, ChecksHold, HasAdmin
  <2>3. One!Bootstrap(Fresh(Admin)) /\ Fresh(Admin) \in Admin
    BY <1>6, <2>1, <2>2 DEF One!Bootstrap, One!Add, Added
  <2> QED BY <2>3 DEF One!Next
<1>8. ASSUME NEW i \in Instance, MintToken(i) PROVE One!Next
  <2>1. /\ Commits(i, Token) /\ UNCHANGED key /\ pc[i] = "mint"
        /\ shown' = shown \union {Fresh(Token)}
    BY <1>8 DEF MintToken, Goes
  <2>2. Root \intersect Admin # {}
    BY <1>6, <2>1 DEF IInv, ChecksHold, HasAdmin
  <2>3. One!Mint(Fresh(Token)) /\ Fresh(Token) \in Token
    BY <1>6, <2>1, <2>2 DEF One!Mint, One!Add, Added
  <2> QED BY <2>3 DEF One!Next
<1>9. ASSUME NEW i \in Instance, Insert(i) PROVE One!Next
  <2>1. Commits(i, Key) /\ UNCHANGED <<key, shown>> /\ pc[i] = "insert"
    BY <1>9 DEF Insert, Goes
  <2>2. Root \intersect Key = {}
    BY <1>6, <2>1 DEF IInv, ChecksHold, Secret
  <2>3. One!Choose(Fresh(Key)) /\ Fresh(Key) \in Key
    BY <1>6, <2>1, <2>2 DEF One!Choose, One!Add, Added
  <2> QED BY <2>3 DEF One!Next
\* The reads.
<1>10. ASSUME NEW i \in Instance, Finds(i) \/ Reread(i) PROVE One!Next
  <2>1. PICK k \in Secret(i) : key' = [key EXCEPT ![i] = {k}]
    BY <1>10 DEF Finds, Reread
  <2>2. UNCHANGED <<s3liteVars, shown>>
    BY <1>10 DEF Finds, Reread
  <2>3. k \in Key /\ k \in Root \union lost
    BY <1>2, <2>1 DEF Secret, IInv, Accounted
  <2>4. Same
    BY <2>2, RootKinds
  <2>5. One!Take(i, k)
    BY <2>1, <2>2, <2>3, <2>4 DEF One!Take, Same
  <2> QED BY <2>3, <2>5 DEF One!Next
\* What ends, or is lost, or reaches the replica.
<1>11. ASSUME NEW i \in Instance, Close(i) \/ Crash(i) \/ Lapse(i) \/ Replicate(i)
       PROVE  One!Next
  <2>1. One!MayEnd /\ UNCHANGED shown
    BY <1>11 DEF Close, Crash, Lapse, Replicate, Exits, One!MayEnd
  <2>2. \/ CloseDB(i) \/ Sync(i)
        \/ \E to \in {"closed", "demoted"} : Drop(i, to)
    BY <1>11 DEF Close, Crash, Lapse, Replicate
  <2>3. Same \/ Synced \/ Fell
    BY <2>2, RootKinds
  <2>4. CASE Same
    BY <2>1, <2>4 DEF Same, One!End, One!Next
  <2>5. CASE Synced
    BY <2>1, <2>5 DEF Synced, One!Sync, One!Next
  <2>6. CASE Fell
    BY <2>1, <2>6 DEF Fell, One!Lose, One!Next
  <2> QED BY <2>3, <2>4, <2>5, <2>6
<1>12. CASE UNCHANGED vars
  <2>1. UNCHANGED <<s3liteVars, key, shown>>
    BY <1>12 DEF vars
  <2>2. Root' = Root
    BY <2>1 DEF Root, IsLeader, s3liteVars
  <2> QED BY <2>1, <2>2 DEF s3liteVars
<1> QED
  BY <1>3, <1>4, <1>5, <1>7, <1>8, <1>9, <1>10, <1>11, <1>12
     DEF Next, Bootstrap, GetOrCreateSecret

LEMMA RootInit == Init => One!Init
<1> SUFFICES ASSUME Init PROVE One!Init
  OBVIOUS
<1>1. s3 = {} /\ lost = {} /\ \A i \in Instance : ~IsLeader(i)
  BY DEF Init, S3liteInit, IsLeader
<1>2. Root = {}
  BY <1>1 DEF Root
<1> QED BY <1>1, <1>2 DEF Init, One!Init

(***************************************************************************)
(* However many servers and bootstrap runs come up on a root, and whatever *)
(* ends between a check and the write that relies on it: the root gets one *)
(* admin and one secret, each in one step; a token is printed only for a   *)
(* root with an admin; everyone signs with the secret of the root, or with *)
(* one that a fault took from it.                                          *)
(***************************************************************************)
THEOREM RootsAreOne == Spec => ImplementsOneRoot
  <1>1. IInv /\ [Next]_vars => [One!Next]_(One!vars)
    BY IInvStep, RootStep
  <1> QED BY <1>1, IInvHolds, RootInit, PTL
          DEF Spec, ImplementsOneRoot, One!Spec
=============================================================================
