---------------------------- MODULE LeaseProofs ----------------------------
(***************************************************************************)
(* Proofs about Lease, for any instances and requests and any number of    *)
(* faults.                                                                 *)
(***************************************************************************)
EXTENDS Lease, TLAPS

LEMMA TypeInit == Init => TypeOK
  BY S3liteAssumption DEF Init, S3liteInit, TypeOK, S3liteTypeOK, Role, Request,
     Inside

\* Every step keeps the types.
LEMMA TypeStep ==
    ASSUME TypeOK, [Next]_vars PROVE TypeOK'
<1> USE DEF TypeOK, S3liteTypeOK, Role, Request, Inside, Moves, RequestFrame,
            loops, clients, s3liteVars, Ended, IsLeader, LeaseFree, Acquire,
            Promote, OpenFollower, Commit, Sync, Release, Fault, Drop, CloseDB,
            YieldMoves, YieldFrame, SweepMoves, SweepFrame, Yielding, Readers,
            Exits
<1>1. ASSUME NEW r \in Request, NEW i \in Instance, Arrive(r, i) PROVE TypeOK'
  BY <1>1 DEF Arrive
<1>2. ASSUME NEW r \in Request, Enter(r) PROVE TypeOK'
  BY <1>2 DEF Enter
<1>3. ASSUME NEW r \in Request, GatePass(r) PROVE TypeOK'
  <2>1. req[r].inst \in Instance
    BY <1>3
  <2>2. req' \in [Request ->
                  [at : Inside \union {"none", "arrived", "done", "failed"},
                   inst : Instance]]
    BY <1>3 DEF GatePass
  <2>3. S3liteTypeOK'
    <3>1. CASE UNCHANGED s3liteVars
      BY <3>1
    <3>2. CASE Acquire(req[r].inst)
      BY <3>2, <2>1
    <3> QED BY <1>3, <3>1, <3>2 DEF GatePass
  <2> QED BY <1>3, <2>2, <2>3 DEF GatePass
<1>4. ASSUME NEW r \in Request, GateRefuse(r) PROVE TypeOK'
  BY <1>4 DEF GateRefuse
<1>5. ASSUME NEW r \in Request, Read(r) PROVE TypeOK'
  BY <1>5 DEF Read
<1>6. ASSUME NEW r \in Request, WriteDB(r) PROVE TypeOK'
  BY <1>6 DEF WriteDB
<1>7. ASSUME NEW r \in Request, Acknowledge(r) PROVE TypeOK'
  BY <1>7 DEF Acknowledge
<1>8. ASSUME NEW r \in Request, WriteFails(r) PROVE TypeOK'
  BY <1>8 DEF WriteFails
<1>9. ASSUME NEW i \in Instance, ProbeArrives(i) PROVE TypeOK'
  BY <1>9 DEF ProbeArrives
<1>10. ASSUME NEW i \in Instance, ProbeAnswered(i) PROVE TypeOK'
  BY <1>10 DEF ProbeAnswered
<1>11. ASSUME NEW i \in Instance, Idle(i) PROVE TypeOK'
  BY <1>11 DEF Idle
<1>12. ASSUME NEW i \in Instance, YieldLock(i) PROVE TypeOK'
  BY <1>12 DEF YieldLock
<1>13. ASSUME NEW i \in Instance, YieldSync(i) PROVE TypeOK'
  BY <1>13 DEF YieldSync
<1>14. ASSUME NEW i \in Instance, YieldRelease(i) PROVE TypeOK'
  BY <1>14 DEF YieldRelease
<1>15. ASSUME NEW i \in Instance, YieldFails(i) PROVE TypeOK'
  BY <1>15 DEF YieldFails
<1>16. ASSUME NEW i \in Instance, SweepEnter(i) PROVE TypeOK'
  BY <1>16 DEF SweepEnter
<1>17. ASSUME NEW i \in Instance, SweepGate(i) PROVE TypeOK'
  <2>1. UNCHANGED SweepFrame /\ sweep' \in [Instance -> {"no", "entered", "sweeping"}]
    BY <1>17 DEF SweepGate
  <2>2. UNCHANGED s3liteVars \/ Acquire(i)
    BY <1>17 DEF SweepGate
  <2>3. S3liteTypeOK'
    BY <2>2
  <2> QED BY <2>1, <2>3
<1>18. ASSUME NEW i \in Instance, SweepEnds(i) PROVE TypeOK'
  BY <1>18 DEF SweepEnds
<1>19. ASSUME NEW i \in Instance, Boot(i) PROVE TypeOK'
  BY <1>19 DEF Boot
<1>20. ASSUME NEW i \in Instance, Sigterm(i) PROVE TypeOK'
  BY <1>20 DEF Sigterm
<1>21. ASSUME NEW i \in Instance, Close(i) PROVE TypeOK'
  BY <1>21 DEF Close
<1>26. ASSUME NEW i \in Instance, FinalSync(i) PROVE TypeOK'
  BY <1>26 DEF FinalSync
<1>27. ASSUME NEW i \in Instance, Exit(i) PROVE TypeOK'
  BY <1>27 DEF Exit
<1>22. ASSUME NEW i \in Instance, Crash(i) PROVE TypeOK'
  BY <1>22 DEF Crash
<1>23. ASSUME NEW i \in Instance, Lapse(i) PROVE TypeOK'
  BY <1>23 DEF Lapse
<1>24. ASSUME NEW i \in Instance, Replicate(i) PROVE TypeOK'
  BY <1>24 DEF Replicate
<1>25. CASE UNCHANGED vars
  BY <1>25 DEF vars
<1> QED
  BY <1>1, <1>2, <1>3, <1>4, <1>5, <1>6, <1>7, <1>8, <1>9, <1>10, <1>11, <1>12,
     <1>13, <1>14, <1>15, <1>16, <1>17, <1>18, <1>19, <1>20, <1>21, <1>22,
     <1>23, <1>24, <1>25, <1>26, <1>27 DEF Next, Serve, Yield, Sweeps, Shuts

\* The activity lock excludes requests and sweeps from a yield.
LEMMA LockStep ==
    ASSUME TypeOK, LockExcludes, [Next]_vars PROVE LockExcludes'
<1> USE DEF TypeOK, S3liteTypeOK, Role, Request, Inside, Moves, RequestFrame,
            loops, clients, s3liteVars, Ended, YieldMoves, YieldFrame,
            SweepMoves, SweepFrame, Yielding, Readers, Exits, LockExcludes
<1>1. ASSUME NEW r \in Request, NEW i \in Instance, Arrive(r, i)
      PROVE  LockExcludes'
  BY <1>1 DEF Arrive
<1>2. ASSUME NEW r \in Request, Enter(r) PROVE LockExcludes'
  BY <1>2 DEF Enter
<1>3. ASSUME NEW r \in Request, GatePass(r) PROVE LockExcludes'
  BY <1>3 DEF GatePass
<1>4. ASSUME NEW r \in Request, GateRefuse(r) PROVE LockExcludes'
  BY <1>4 DEF GateRefuse
<1>5. ASSUME NEW r \in Request, Read(r) PROVE LockExcludes'
  BY <1>5 DEF Read
<1>6. ASSUME NEW r \in Request, WriteDB(r) PROVE LockExcludes'
  BY <1>6 DEF WriteDB
<1>7. ASSUME NEW r \in Request, Acknowledge(r) PROVE LockExcludes'
  BY <1>7 DEF Acknowledge
<1>8. ASSUME NEW r \in Request, WriteFails(r) PROVE LockExcludes'
  BY <1>8 DEF WriteFails
<1>9. ASSUME NEW i \in Instance, ProbeArrives(i) PROVE LockExcludes'
  BY <1>9 DEF ProbeArrives
<1>10. ASSUME NEW i \in Instance, ProbeAnswered(i) PROVE LockExcludes'
  BY <1>10 DEF ProbeAnswered
<1>11. ASSUME NEW i \in Instance, Idle(i) PROVE LockExcludes'
  BY <1>11 DEF Idle
<1>12. ASSUME NEW i \in Instance, YieldLock(i) PROVE LockExcludes'
  BY <1>12 DEF YieldLock
<1>13. ASSUME NEW i \in Instance, YieldSync(i) PROVE LockExcludes'
  BY <1>13 DEF YieldSync
<1>14. ASSUME NEW i \in Instance, YieldRelease(i) PROVE LockExcludes'
  BY <1>14 DEF YieldRelease
<1>15. ASSUME NEW i \in Instance, YieldFails(i) PROVE LockExcludes'
  BY <1>15 DEF YieldFails
<1>16. ASSUME NEW i \in Instance, SweepEnter(i) PROVE LockExcludes'
  BY <1>16 DEF SweepEnter
<1>17. ASSUME NEW i \in Instance, SweepGate(i) PROVE LockExcludes'
  BY <1>17 DEF SweepGate
<1>18. ASSUME NEW i \in Instance, SweepEnds(i) PROVE LockExcludes'
  BY <1>18 DEF SweepEnds
<1>19. ASSUME NEW i \in Instance, Boot(i) PROVE LockExcludes'
  BY <1>19 DEF Boot
<1>20. ASSUME NEW i \in Instance, Sigterm(i) PROVE LockExcludes'
  BY <1>20 DEF Sigterm
<1>21. ASSUME NEW i \in Instance, Close(i) PROVE LockExcludes'
  BY <1>21 DEF Close
<1>26. ASSUME NEW i \in Instance, FinalSync(i) PROVE LockExcludes'
  BY <1>26 DEF FinalSync
<1>27. ASSUME NEW i \in Instance, Exit(i) PROVE LockExcludes'
  BY <1>27 DEF Exit
<1>22. ASSUME NEW i \in Instance, Crash(i) PROVE LockExcludes'
  BY <1>22 DEF Crash
<1>23. ASSUME NEW i \in Instance, Lapse(i) PROVE LockExcludes'
  BY <1>23 DEF Lapse
<1>24. ASSUME NEW i \in Instance, Replicate(i) PROVE LockExcludes'
  BY <1>24 DEF Replicate
<1>25. CASE UNCHANGED vars
  BY <1>25 DEF vars
<1> QED
  BY <1>1, <1>2, <1>3, <1>4, <1>5, <1>6, <1>7, <1>8, <1>9, <1>10, <1>11, <1>12,
     <1>13, <1>14, <1>15, <1>16, <1>17, <1>18, <1>19, <1>20, <1>21, <1>22,
     <1>23, <1>24, <1>25, <1>26, <1>27 DEF Next, Serve, Yield, Sweeps, Shuts

\* What is down stays quiet.
LEMMA DownStep ==
    ASSUME TypeOK, DownIsQuiet, [Next]_vars PROVE DownIsQuiet'
<1> USE DEF TypeOK, S3liteTypeOK, Role, Request, Inside, Moves, RequestFrame,
            loops, clients, s3liteVars, Ended, IsLeader, LeaseFree, Acquire,
            Promote, OpenFollower, Commit, Sync, Release, Fault, Drop, CloseDB,
            YieldMoves, YieldFrame, SweepMoves, SweepFrame, Yielding, Readers,
            Exits, DownIsQuiet
<1>1. ASSUME NEW r \in Request, NEW i \in Instance, Arrive(r, i)
      PROVE  DownIsQuiet'
  BY <1>1 DEF Arrive
<1>2. ASSUME NEW r \in Request, Enter(r) PROVE DownIsQuiet'
  BY <1>2 DEF Enter
<1>3. ASSUME NEW r \in Request, GatePass(r) PROVE DownIsQuiet'
  BY <1>3 DEF GatePass
<1>4. ASSUME NEW r \in Request, GateRefuse(r) PROVE DownIsQuiet'
  BY <1>4 DEF GateRefuse
<1>5. ASSUME NEW r \in Request, Read(r) PROVE DownIsQuiet'
  BY <1>5 DEF Read
<1>6. ASSUME NEW r \in Request, WriteDB(r) PROVE DownIsQuiet'
  BY <1>6 DEF WriteDB
<1>7. ASSUME NEW r \in Request, Acknowledge(r) PROVE DownIsQuiet'
  BY <1>7 DEF Acknowledge
<1>8. ASSUME NEW r \in Request, WriteFails(r) PROVE DownIsQuiet'
  BY <1>8 DEF WriteFails
<1>9. ASSUME NEW i \in Instance, ProbeArrives(i) PROVE DownIsQuiet'
  BY <1>9 DEF ProbeArrives
<1>10. ASSUME NEW i \in Instance, ProbeAnswered(i) PROVE DownIsQuiet'
  BY <1>10 DEF ProbeAnswered
<1>11. ASSUME NEW i \in Instance, Idle(i) PROVE DownIsQuiet'
  BY <1>11 DEF Idle
<1>12. ASSUME NEW i \in Instance, YieldLock(i) PROVE DownIsQuiet'
  BY <1>12 DEF YieldLock
<1>13. ASSUME NEW i \in Instance, YieldSync(i) PROVE DownIsQuiet'
  BY <1>13 DEF YieldSync
<1>14. ASSUME NEW i \in Instance, YieldRelease(i) PROVE DownIsQuiet'
  BY <1>14 DEF YieldRelease
<1>15. ASSUME NEW i \in Instance, YieldFails(i) PROVE DownIsQuiet'
  BY <1>15 DEF YieldFails
<1>16. ASSUME NEW i \in Instance, SweepEnter(i) PROVE DownIsQuiet'
  BY <1>16 DEF SweepEnter
<1>17. ASSUME NEW i \in Instance, SweepGate(i) PROVE DownIsQuiet'
  BY <1>17 DEF SweepGate
<1>18. ASSUME NEW i \in Instance, SweepEnds(i) PROVE DownIsQuiet'
  BY <1>18 DEF SweepEnds
<1>19. ASSUME NEW i \in Instance, Boot(i) PROVE DownIsQuiet'
  BY <1>19 DEF Boot
<1>20. ASSUME NEW i \in Instance, Sigterm(i) PROVE DownIsQuiet'
  BY <1>20 DEF Sigterm
<1>21. ASSUME NEW i \in Instance, Close(i) PROVE DownIsQuiet'
  BY <1>21 DEF Close
<1>26. ASSUME NEW i \in Instance, FinalSync(i) PROVE DownIsQuiet'
  BY <1>26 DEF FinalSync
<1>27. ASSUME NEW i \in Instance, Exit(i) PROVE DownIsQuiet'
  BY <1>27 DEF Exit
<1>22. ASSUME NEW i \in Instance, Crash(i) PROVE DownIsQuiet'
  BY <1>22 DEF Crash
<1>23. ASSUME NEW i \in Instance, Lapse(i) PROVE DownIsQuiet'
  BY <1>23 DEF Lapse
<1>24. ASSUME NEW i \in Instance, Replicate(i) PROVE DownIsQuiet'
  BY <1>24 DEF Replicate
<1>25. CASE UNCHANGED vars
  BY <1>25 DEF vars
<1> QED
  BY <1>1, <1>2, <1>3, <1>4, <1>5, <1>6, <1>7, <1>8, <1>9, <1>10, <1>11, <1>12,
     <1>13, <1>14, <1>15, <1>16, <1>17, <1>18, <1>19, <1>20, <1>21, <1>22,
     <1>23, <1>24, <1>25, <1>26, <1>27 DEF Next, Serve, Yield, Sweeps, Shuts

\* Only a yield and a boot make followers, and neither meets a request.
LEMMA FenceStep ==
    ASSUME TypeOK, LockExcludes, DownIsQuiet, YieldFencesNothing, [Next]_vars
        PROVE YieldFencesNothing'
<1> USE DEF TypeOK, S3liteTypeOK, Role, Request, Inside, Moves, RequestFrame,
            loops, clients, s3liteVars, Ended, IsLeader, LeaseFree, Acquire,
            Promote, OpenFollower, Commit, Sync, Release, Fault, Drop, CloseDB,
            YieldMoves, YieldFrame, SweepMoves, SweepFrame, Yielding, Readers,
            Exits, LockExcludes, DownIsQuiet, YieldFencesNothing, MayServe
<1>1. ASSUME NEW r \in Request, NEW i \in Instance, Arrive(r, i)
      PROVE  YieldFencesNothing'
  BY <1>1 DEF Arrive
<1>2. ASSUME NEW r \in Request, Enter(r) PROVE YieldFencesNothing'
  BY <1>2 DEF Enter
<1>3. ASSUME NEW r \in Request, GatePass(r) PROVE YieldFencesNothing'
  BY <1>3 DEF GatePass
<1>4. ASSUME NEW r \in Request, GateRefuse(r) PROVE YieldFencesNothing'
  BY <1>4 DEF GateRefuse
<1>5. ASSUME NEW r \in Request, Read(r) PROVE YieldFencesNothing'
  BY <1>5 DEF Read
<1>6. ASSUME NEW r \in Request, WriteDB(r) PROVE YieldFencesNothing'
  BY <1>6 DEF WriteDB
<1>7. ASSUME NEW r \in Request, Acknowledge(r) PROVE YieldFencesNothing'
  BY <1>7 DEF Acknowledge
<1>8. ASSUME NEW r \in Request, WriteFails(r) PROVE YieldFencesNothing'
  BY <1>8 DEF WriteFails
<1>9. ASSUME NEW i \in Instance, ProbeArrives(i) PROVE YieldFencesNothing'
  BY <1>9 DEF ProbeArrives
<1>10. ASSUME NEW i \in Instance, ProbeAnswered(i) PROVE YieldFencesNothing'
  BY <1>10 DEF ProbeAnswered
<1>11. ASSUME NEW i \in Instance, Idle(i) PROVE YieldFencesNothing'
  BY <1>11 DEF Idle
<1>12. ASSUME NEW i \in Instance, YieldLock(i) PROVE YieldFencesNothing'
  BY <1>12 DEF YieldLock
<1>13. ASSUME NEW i \in Instance, YieldSync(i) PROVE YieldFencesNothing'
  BY <1>13 DEF YieldSync
<1>14. ASSUME NEW i \in Instance, YieldRelease(i) PROVE YieldFencesNothing'
  BY <1>14 DEF YieldRelease
<1>15. ASSUME NEW i \in Instance, YieldFails(i) PROVE YieldFencesNothing'
  BY <1>15 DEF YieldFails
<1>16. ASSUME NEW i \in Instance, SweepEnter(i) PROVE YieldFencesNothing'
  BY <1>16 DEF SweepEnter
<1>17. ASSUME NEW i \in Instance, SweepGate(i) PROVE YieldFencesNothing'
  BY <1>17 DEF SweepGate
<1>18. ASSUME NEW i \in Instance, SweepEnds(i) PROVE YieldFencesNothing'
  BY <1>18 DEF SweepEnds
<1>19. ASSUME NEW i \in Instance, Boot(i) PROVE YieldFencesNothing'
  BY <1>19 DEF Boot
<1>20. ASSUME NEW i \in Instance, Sigterm(i) PROVE YieldFencesNothing'
  BY <1>20 DEF Sigterm
<1>21. ASSUME NEW i \in Instance, Close(i) PROVE YieldFencesNothing'
  BY <1>21 DEF Close
<1>26. ASSUME NEW i \in Instance, FinalSync(i) PROVE YieldFencesNothing'
  BY <1>26 DEF FinalSync
<1>27. ASSUME NEW i \in Instance, Exit(i) PROVE YieldFencesNothing'
  BY <1>27 DEF Exit
<1>22. ASSUME NEW i \in Instance, Crash(i) PROVE YieldFencesNothing'
  BY <1>22 DEF Crash
<1>23. ASSUME NEW i \in Instance, Lapse(i) PROVE YieldFencesNothing'
  BY <1>23 DEF Lapse
<1>24. ASSUME NEW i \in Instance, Replicate(i) PROVE YieldFencesNothing'
  BY <1>24 DEF Replicate
<1>25. CASE UNCHANGED vars
  BY <1>25 DEF vars
<1> QED
  BY <1>1, <1>2, <1>3, <1>4, <1>5, <1>6, <1>7, <1>8, <1>9, <1>10, <1>11, <1>12,
     <1>13, <1>14, <1>15, <1>16, <1>17, <1>18, <1>19, <1>20, <1>21, <1>22,
     <1>23, <1>24, <1>25, <1>26, <1>27 DEF Next, Serve, Yield, Sweeps, Shuts

\* The replica stays behind the one writer.
LEMMA ReplicaStep ==
    ASSUME TypeOK, LockExcludes, DownIsQuiet, ReplicaBehind, [Next]_vars
      PROVE  ReplicaBehind'
<1> USE DEF TypeOK, S3liteTypeOK, Role, Request, Inside, Moves, RequestFrame,
            loops, clients, s3liteVars, Ended, IsLeader, LeaseFree, Acquire,
            Promote, OpenFollower, Commit, Sync, Release, Fault, Drop, CloseDB,
            YieldMoves, YieldFrame, SweepMoves, SweepFrame, Yielding, Readers,
            Exits, LockExcludes, DownIsQuiet, ReplicaBehind, MayServe
<1>1. ASSUME NEW r \in Request, NEW i \in Instance, Arrive(r, i)
      PROVE  ReplicaBehind'
  BY <1>1 DEF Arrive
<1>2. ASSUME NEW r \in Request, Enter(r) PROVE ReplicaBehind'
  BY <1>2 DEF Enter
<1>3. ASSUME NEW r \in Request, GatePass(r) PROVE ReplicaBehind'
  BY <1>3 DEF GatePass
<1>4. ASSUME NEW r \in Request, GateRefuse(r) PROVE ReplicaBehind'
  BY <1>4 DEF GateRefuse
<1>5. ASSUME NEW r \in Request, Read(r) PROVE ReplicaBehind'
  BY <1>5 DEF Read
<1>6. ASSUME NEW r \in Request, WriteDB(r) PROVE ReplicaBehind'
  BY <1>6 DEF WriteDB
<1>7. ASSUME NEW r \in Request, Acknowledge(r) PROVE ReplicaBehind'
  BY <1>7 DEF Acknowledge
<1>8. ASSUME NEW r \in Request, WriteFails(r) PROVE ReplicaBehind'
  BY <1>8 DEF WriteFails
<1>9. ASSUME NEW i \in Instance, ProbeArrives(i) PROVE ReplicaBehind'
  BY <1>9 DEF ProbeArrives
<1>10. ASSUME NEW i \in Instance, ProbeAnswered(i) PROVE ReplicaBehind'
  BY <1>10 DEF ProbeAnswered
<1>11. ASSUME NEW i \in Instance, Idle(i) PROVE ReplicaBehind'
  BY <1>11 DEF Idle
<1>12. ASSUME NEW i \in Instance, YieldLock(i) PROVE ReplicaBehind'
  BY <1>12 DEF YieldLock
<1>13. ASSUME NEW i \in Instance, YieldSync(i) PROVE ReplicaBehind'
  BY <1>13 DEF YieldSync
<1>14. ASSUME NEW i \in Instance, YieldRelease(i) PROVE ReplicaBehind'
  BY <1>14 DEF YieldRelease
<1>15. ASSUME NEW i \in Instance, YieldFails(i) PROVE ReplicaBehind'
  BY <1>15 DEF YieldFails
<1>16. ASSUME NEW i \in Instance, SweepEnter(i) PROVE ReplicaBehind'
  BY <1>16 DEF SweepEnter
<1>17. ASSUME NEW i \in Instance, SweepGate(i) PROVE ReplicaBehind'
  BY <1>17 DEF SweepGate
<1>18. ASSUME NEW i \in Instance, SweepEnds(i) PROVE ReplicaBehind'
  BY <1>18 DEF SweepEnds
<1>19. ASSUME NEW i \in Instance, Boot(i) PROVE ReplicaBehind'
  BY <1>19 DEF Boot
<1>20. ASSUME NEW i \in Instance, Sigterm(i) PROVE ReplicaBehind'
  BY <1>20 DEF Sigterm
<1>21. ASSUME NEW i \in Instance, Close(i) PROVE ReplicaBehind'
  BY <1>21 DEF Close
<1>26. ASSUME NEW i \in Instance, FinalSync(i) PROVE ReplicaBehind'
  BY <1>26 DEF FinalSync
<1>27. ASSUME NEW i \in Instance, Exit(i) PROVE ReplicaBehind'
  BY <1>27 DEF Exit
<1>22. ASSUME NEW i \in Instance, Crash(i) PROVE ReplicaBehind'
  BY <1>22 DEF Crash
<1>23. ASSUME NEW i \in Instance, Lapse(i) PROVE ReplicaBehind'
  BY <1>23 DEF Lapse
<1>24. ASSUME NEW i \in Instance, Replicate(i) PROVE ReplicaBehind'
  BY <1>24 DEF Replicate
<1>25. CASE UNCHANGED vars
  BY <1>25 DEF vars
<1> QED
  BY <1>1, <1>2, <1>3, <1>4, <1>5, <1>6, <1>7, <1>8, <1>9, <1>10, <1>11, <1>12,
     <1>13, <1>14, <1>15, <1>16, <1>17, <1>18, <1>19, <1>20, <1>21, <1>22,
     <1>23, <1>24, <1>25, <1>26, <1>27 DEF Next, Serve, Yield, Sweeps, Shuts

\* No step loses track of a committed write.
LEMMA AccountStep ==
    ASSUME TypeOK, LockExcludes, DownIsQuiet, ReplicaBehind, Accounted,
        [Next]_vars PROVE Accounted'
<1> USE DEF TypeOK, S3liteTypeOK, Role, Request, Inside, Moves, RequestFrame,
            loops, clients, s3liteVars, Ended, IsLeader, LeaseFree, Acquire,
            Promote, OpenFollower, Commit, Sync, Release, Fault, Drop, CloseDB,
            YieldMoves, YieldFrame, SweepMoves, SweepFrame, Yielding, Readers,
            Exits, LockExcludes, DownIsQuiet, ReplicaBehind, Accounted,
            Committed, MayServe
<1>1. ASSUME NEW r \in Request, NEW i \in Instance, Arrive(r, i)
      PROVE  Accounted'
  BY <1>1 DEF Arrive
<1>2. ASSUME NEW r \in Request, Enter(r) PROVE Accounted'
  BY <1>2 DEF Enter
<1>3. ASSUME NEW r \in Request, GatePass(r) PROVE Accounted'
  BY <1>3 DEF GatePass
<1>4. ASSUME NEW r \in Request, GateRefuse(r) PROVE Accounted'
  BY <1>4 DEF GateRefuse
<1>5. ASSUME NEW r \in Request, Read(r) PROVE Accounted'
  BY <1>5 DEF Read
<1>6. ASSUME NEW r \in Request, WriteDB(r) PROVE Accounted'
  BY <1>6 DEF WriteDB
<1>7. ASSUME NEW r \in Request, Acknowledge(r) PROVE Accounted'
  BY <1>7 DEF Acknowledge
<1>8. ASSUME NEW r \in Request, WriteFails(r) PROVE Accounted'
  BY <1>8 DEF WriteFails
<1>9. ASSUME NEW i \in Instance, ProbeArrives(i) PROVE Accounted'
  BY <1>9 DEF ProbeArrives
<1>10. ASSUME NEW i \in Instance, ProbeAnswered(i) PROVE Accounted'
  BY <1>10 DEF ProbeAnswered
<1>11. ASSUME NEW i \in Instance, Idle(i) PROVE Accounted'
  BY <1>11 DEF Idle
<1>12. ASSUME NEW i \in Instance, YieldLock(i) PROVE Accounted'
  BY <1>12 DEF YieldLock
<1>13. ASSUME NEW i \in Instance, YieldSync(i) PROVE Accounted'
  BY <1>13 DEF YieldSync
<1>14. ASSUME NEW i \in Instance, YieldRelease(i) PROVE Accounted'
  BY <1>14 DEF YieldRelease
<1>15. ASSUME NEW i \in Instance, YieldFails(i) PROVE Accounted'
  BY <1>15 DEF YieldFails
<1>16. ASSUME NEW i \in Instance, SweepEnter(i) PROVE Accounted'
  BY <1>16 DEF SweepEnter
<1>17. ASSUME NEW i \in Instance, SweepGate(i) PROVE Accounted'
  BY <1>17 DEF SweepGate
<1>18. ASSUME NEW i \in Instance, SweepEnds(i) PROVE Accounted'
  BY <1>18 DEF SweepEnds
<1>19. ASSUME NEW i \in Instance, Boot(i) PROVE Accounted'
  BY <1>19 DEF Boot
<1>20. ASSUME NEW i \in Instance, Sigterm(i) PROVE Accounted'
  BY <1>20 DEF Sigterm
<1>21. ASSUME NEW i \in Instance, Close(i) PROVE Accounted'
  BY <1>21 DEF Close
<1>26. ASSUME NEW i \in Instance, FinalSync(i) PROVE Accounted'
  BY <1>26 DEF FinalSync
<1>27. ASSUME NEW i \in Instance, Exit(i) PROVE Accounted'
  BY <1>27 DEF Exit
<1>22. ASSUME NEW i \in Instance, Crash(i) PROVE Accounted'
  BY <1>22 DEF Crash
<1>23. ASSUME NEW i \in Instance, Lapse(i) PROVE Accounted'
  BY <1>23 DEF Lapse
<1>24. ASSUME NEW i \in Instance, Replicate(i) PROVE Accounted'
  BY <1>24 DEF Replicate
<1>25. CASE UNCHANGED vars
  BY <1>25 DEF vars
<1> QED
  BY <1>1, <1>2, <1>3, <1>4, <1>5, <1>6, <1>7, <1>8, <1>9, <1>10, <1>11, <1>12,
     <1>13, <1>14, <1>15, <1>16, <1>17, <1>18, <1>19, <1>20, <1>21, <1>22,
     <1>23, <1>24, <1>25, <1>26, <1>27 DEF Next, Serve, Yield, Sweeps, Shuts

\* An admitted request keeps seeing what was acknowledged before it.
LEMMA SeesStep ==
    ASSUME TypeOK, LockExcludes, DownIsQuiet, ReplicaBehind, Accounted,
        AdmittedSees, [Next]_vars PROVE AdmittedSees'
<1> USE DEF TypeOK, S3liteTypeOK, Role, Request, Inside, Moves, RequestFrame,
            loops, clients, s3liteVars, Ended, IsLeader, LeaseFree, Acquire,
            Promote, OpenFollower, Commit, Sync, Release, Fault, Drop, CloseDB,
            YieldMoves, YieldFrame, SweepMoves, SweepFrame, Yielding, Readers,
            Exits, LockExcludes, DownIsQuiet, ReplicaBehind, Accounted,
            Committed, AdmittedSees, MayServe
<1>1. ASSUME NEW r \in Request, NEW i \in Instance, Arrive(r, i)
      PROVE  AdmittedSees'
  BY <1>1 DEF Arrive
<1>2. ASSUME NEW r \in Request, Enter(r) PROVE AdmittedSees'
  BY <1>2 DEF Enter
<1>3. ASSUME NEW r \in Request, GatePass(r) PROVE AdmittedSees'
  BY <1>3 DEF GatePass
<1>4. ASSUME NEW r \in Request, GateRefuse(r) PROVE AdmittedSees'
  BY <1>4 DEF GateRefuse
<1>5. ASSUME NEW r \in Request, Read(r) PROVE AdmittedSees'
  BY <1>5 DEF Read
<1>6. ASSUME NEW r \in Request, WriteDB(r) PROVE AdmittedSees'
  BY <1>6 DEF WriteDB
<1>7. ASSUME NEW r \in Request, Acknowledge(r) PROVE AdmittedSees'
  BY <1>7 DEF Acknowledge
<1>8. ASSUME NEW r \in Request, WriteFails(r) PROVE AdmittedSees'
  BY <1>8 DEF WriteFails
<1>9. ASSUME NEW i \in Instance, ProbeArrives(i) PROVE AdmittedSees'
  BY <1>9 DEF ProbeArrives
<1>10. ASSUME NEW i \in Instance, ProbeAnswered(i) PROVE AdmittedSees'
  BY <1>10 DEF ProbeAnswered
<1>11. ASSUME NEW i \in Instance, Idle(i) PROVE AdmittedSees'
  BY <1>11 DEF Idle
<1>12. ASSUME NEW i \in Instance, YieldLock(i) PROVE AdmittedSees'
  BY <1>12 DEF YieldLock
<1>13. ASSUME NEW i \in Instance, YieldSync(i) PROVE AdmittedSees'
  BY <1>13 DEF YieldSync
<1>14. ASSUME NEW i \in Instance, YieldRelease(i) PROVE AdmittedSees'
  BY <1>14 DEF YieldRelease
<1>15. ASSUME NEW i \in Instance, YieldFails(i) PROVE AdmittedSees'
  BY <1>15 DEF YieldFails
<1>16. ASSUME NEW i \in Instance, SweepEnter(i) PROVE AdmittedSees'
  BY <1>16 DEF SweepEnter
<1>17. ASSUME NEW i \in Instance, SweepGate(i) PROVE AdmittedSees'
  BY <1>17 DEF SweepGate
<1>18. ASSUME NEW i \in Instance, SweepEnds(i) PROVE AdmittedSees'
  BY <1>18 DEF SweepEnds
<1>19. ASSUME NEW i \in Instance, Boot(i) PROVE AdmittedSees'
  BY <1>19 DEF Boot
<1>20. ASSUME NEW i \in Instance, Sigterm(i) PROVE AdmittedSees'
  BY <1>20 DEF Sigterm
<1>21. ASSUME NEW i \in Instance, Close(i) PROVE AdmittedSees'
  BY <1>21 DEF Close
<1>26. ASSUME NEW i \in Instance, FinalSync(i) PROVE AdmittedSees'
  BY <1>26 DEF FinalSync
<1>27. ASSUME NEW i \in Instance, Exit(i) PROVE AdmittedSees'
  BY <1>27 DEF Exit
<1>22. ASSUME NEW i \in Instance, Crash(i) PROVE AdmittedSees'
  BY <1>22 DEF Crash
<1>23. ASSUME NEW i \in Instance, Lapse(i) PROVE AdmittedSees'
  BY <1>23 DEF Lapse
<1>24. ASSUME NEW i \in Instance, Replicate(i) PROVE AdmittedSees'
  BY <1>24 DEF Replicate
<1>25. CASE UNCHANGED vars
  BY <1>25 DEF vars
<1> QED
  BY <1>1, <1>2, <1>3, <1>4, <1>5, <1>6, <1>7, <1>8, <1>9, <1>10, <1>11, <1>12,
     <1>13, <1>14, <1>15, <1>16, <1>17, <1>18, <1>19, <1>20, <1>21, <1>22,
     <1>23, <1>24, <1>25, <1>26, <1>27 DEF Next, Serve, Yield, Sweeps, Shuts

LEMMA IInvInit == Init => IInv
  <1> SUFFICES ASSUME Init PROVE IInv
    OBVIOUS
  <1>1. TypeOK
    BY TypeInit
  <1>2. LockExcludes /\ DownIsQuiet /\ YieldFencesNothing
    BY <1>1 DEF Init, S3liteInit, LockExcludes, DownIsQuiet, YieldFencesNothing,
                Readers, Yielding, Inside, Request
  <1>3. ReplicaBehind /\ Accounted /\ AdmittedSees
    BY <1>1 DEF Init, S3liteInit, ReplicaBehind, Accounted, Committed,
       AdmittedSees,
                IsLeader, Request
  <1> QED BY <1>1, <1>2, <1>3 DEF IInv

LEMMA IInvStep == IInv /\ [Next]_vars => IInv'
  BY TypeStep, LockStep, DownStep, FenceStep, ReplicaStep, AccountStep, SeesStep
     DEF IInv

LEMMA IInvHolds == Spec => []IInv
  BY IInvInit, IInvStep, PTL DEF Spec

(***************************************************************************)
(* Type correctness (TypeOK), for any number of instances and requests.    *)
(***************************************************************************)
THEOREM LeaseTypeCorrect == Spec => []TypeOK
  <1>1. IInv => TypeOK
    BY DEF IInv
  <1> QED BY IInvHolds, <1>1, PTL

(***************************************************************************)
(* maybeYield and the boot never turn an instance into a follower under a  *)
(* request that passed the gate, or under a sweep: only a lost lease or    *)
(* the end of the process takes the lease from them.                       *)
(***************************************************************************)
THEOREM NothingFenced == Spec => []YieldFencesNothing
  <1>1. IInv => YieldFencesNothing
    BY DEF IInv
  <1> QED BY IInvHolds, <1>1, PTL

(***************************************************************************)
(* However the lease goes round, by yields, shutdowns, crashes and lapses, *)
(* its holder has every acknowledged write but those that were lost when   *)
(* a lease or a process went without a final sync.                         *)
(***************************************************************************)
THEOREM HandOver == Spec => []NextWriterSeesAcked
  <1>1. IInv => NextWriterSeesAcked
    <2> SUFFICES ASSUME IInv, NEW i \in Instance, IsLeader(i),
                        NEW r \in acked, r \notin lost
                 PROVE  r \in db[i]
      BY DEF NextWriterSeesAcked
    <2>1. r \in Committed
      BY DEF IInv, TypeOK, Committed
    <2>2. r \in s3 \/ \E j \in Instance : IsLeader(j) /\ r \in db[j]
      BY <2>1 DEF IInv, Accounted
    <2> QED BY <2>2 DEF IInv, ReplicaBehind
  <1> QED BY IInvHolds, <1>1, PTL

(***************************************************************************)
(* No answer is staler than what was acknowledged when its request was     *)
(* sent, at whichever instance.                                            *)
(***************************************************************************)
THEOREM Freshness == Spec => ReadsAreCurrent
  <1>1. IInv /\ [Next]_vars =>
          [\A r \in Request : req[r].at = "admitted" /\ req'[r].at = "done"
             => base[r] \ lost \subseteq db[req[r].inst]]_vars
    BY DEF IInv, AdmittedSees
  <1> QED BY IInvHolds, <1>1, PTL DEF Spec, ReadsAreCurrent

-----------------------------------------------------------------------------
(* One database                                                            *)

\* There is one leader at most, and the database is its own, or the replica.
LEMMA DataIs ==
  ASSUME TypeOK, ReplicaBehind
  PROVE  /\ \A i \in Instance : IsLeader(i) => Data = db[i] /\ holder = i
         /\ (\A i \in Instance : ~IsLeader(i)) => Data = s3
         /\ Data \in SUBSET Write
  BY DEF TypeOK, S3liteTypeOK, ReplicaBehind, Data

LEMMA DataIsNext ==
  ASSUME TypeOK', ReplicaBehind'
  PROVE  /\ \A i \in Instance : IsLeader(i)' => Data' = db'[i] /\ holder' = i
         /\ (\A i \in Instance : ~IsLeader(i)') => Data' = s3'
         /\ Data' \in SUBSET Write
  BY DEF TypeOK, S3liteTypeOK, ReplicaBehind, Data

\* A request that is admitted sees the database as it is, or as it saw it.
Sees(r) == req'[r].at = "admitted" =>
    /\ req'[r].inst = req[r].inst
    /\ \/ req[r].at \in Waiting \union {"admitted"} /\ db'[req[r].inst] = Data'
       \/ req[r].at \in Waiting /\ db'[req[r].inst] = Data
       \/ req[r].at = "admitted" /\ db'[req[r].inst] = db[req[r].inst]

LEMMA LooksOn ==
  ASSUME IInv, IInv', \A r \in Request : Sees(r)
  PROVE  One!Looks
  <1> DEFINE ats == [r \in Request |-> At(r)]
             views == [r \in Request |-> View(r)]
  <1>1. Data' \in SUBSET Write /\ Data \in SUBSET Write
    BY DataIs, DataIsNext DEF IInv
  <1>2. \A r \in Request : View(r)' \in SUBSET Write
    BY <1>1 DEF IInv, TypeOK, S3liteTypeOK, View, Request
  <1>3. ASSUME NEW r \in Request
        PROVE  /\ At(r)' # "open" => View(r)' = {}
               /\ At(r)' = "open" => \/ View(r)' = Data'
                                     \/ At(r) = "open" /\ View(r)' = View(r)
    <2>1. req'[r].at \in Waiting \union {"admitted"} <=> At(r)' = "open"
      BY DEF At, Waiting, Inside, IInv, TypeOK
    <2>2. req[r].at \in Waiting \union {"admitted"} <=> At(r) = "open"
      BY DEF At, Waiting, Inside, IInv, TypeOK
    <2>3. CASE At(r)' # "open"
      <3>1. View(r)' = {}
        BY <2>1, <2>3 DEF View
      <3> QED BY <2>3, <3>1
    <2>4. CASE req'[r].at \in Waiting
      <3>1. View(r)' = Data'
        BY <2>4 DEF View, Waiting
      <3> QED BY <2>1, <2>4, <3>1
    <2>5. CASE req'[r].at = "admitted"
      <3>1. View(r)' = db'[req'[r].inst]
        BY <2>5 DEF View, Waiting
      <3>2. req[r].at = "admitted" => View(r) = db[req[r].inst]
        BY DEF View, Waiting
      <3>3. req[r].at \in Waiting => View(r) = Data
        BY DEF View, Waiting
      <3>4. Sees(r)
        OBVIOUS
      <3>5. At(r) = "open" /\ At(r)' = "open"
        BY <2>1, <2>2, <2>5, <3>4 DEF Sees
      <3>6. View(r)' = Data' \/ View(r)' = View(r)
        BY <2>5, <3>1, <3>2, <3>3, <3>4 DEF Sees
      <3> QED BY <3>5, <3>6
    <2> QED BY <2>1, <2>3, <2>4, <2>5
  <1>4. \A r \in Write : ats[r] = At(r) /\ ats'[r] = At(r)' /\ views[r] = View(r) /\ views'[r] = View(r)'
    BY DEF Request
  <1>5. views' \in [Write -> SUBSET Write]
    BY <1>2 DEF Request
  <1> QED BY <1>3, <1>4, <1>5 DEF One!Looks, Request

\* What the steps of s3lite make of the one database and of its copies.
Kept == Data' = Data /\ UNCHANGED <<db, s3>>
Copied(i) == Data' = Data /\ s3' = s3 /\ \E d : db' = [db EXCEPT ![i] = d]
Promoted(i) == Data' = Data /\ s3' = s3 /\ db' = [db EXCEPT ![i] = Data]
Wrote(i, r) == /\ Data' = Data \union {r} /\ s3' = s3
               /\ db' = [db EXCEPT ![i] = Data']
Synced == Data' = Data /\ s3' = Data /\ UNCHANGED db
Fell == Data' = s3 /\ UNCHANGED <<db, s3>>

LEMMA S3liteKinds ==
  ASSUME IInv, IInv', NEW i \in Instance
  PROVE  /\ UNCHANGED <<role, holder, db, s3>> => Kept
         /\ Acquire(i) => Promoted(i)
         /\ OpenFollower(i) /\ ~IsLeader(i) => Copied(i)
         /\ \A r \in Request : Commit(i, r) => Wrote(i, r)
         /\ Sync(i) => Synced
         /\ \A to \in {"follower", "closed"} : Release(i, to) /\ s3 = db[i] => Kept
         /\ \A to \in {"closed", "demoted"} : Drop(i, to) => Kept \/ Fell
         /\ CloseDB(i) => Kept \/ Synced
  <1>0. TypeOK /\ ReplicaBehind /\ role \in [Instance -> Role]
    BY DEF IInv, TypeOK, S3liteTypeOK
  <1>1. /\ \A j \in Instance : IsLeader(j) => Data = db[j] /\ holder = j
        /\ (\A j \in Instance : ~IsLeader(j)) => Data = s3
    BY <1>0, DataIs
  <1>2. /\ \A j \in Instance : IsLeader(j)' => Data' = db'[j] /\ holder' = j
        /\ (\A j \in Instance : ~IsLeader(j)') => Data' = s3'
    BY DataIsNext DEF IInv
  <1>3. db \in [Instance -> SUBSET Write]
    BY <1>0 DEF TypeOK, S3liteTypeOK
  \* Leaders that stay, or none before and after.
  <1>4. ASSUME UNCHANGED <<db, s3>>, \A j \in Instance : IsLeader(j)' = IsLeader(j)
        PROVE  Kept
    <2>1. CASE \E j \in Instance : IsLeader(j)
      BY <1>1, <1>2, <1>4, <2>1 DEF Kept
    <2>2. CASE \A j \in Instance : ~IsLeader(j)
      BY <1>1, <1>2, <1>4, <2>2 DEF Kept
    <2> QED BY <2>1, <2>2
  <1>5. UNCHANGED <<role, holder, db, s3>> => Kept
    BY <1>4 DEF IsLeader
  <1>6. ASSUME Acquire(i) PROVE Promoted(i)
    <2>1. \A j \in Instance : ~IsLeader(j)
      BY <1>1, <1>6 DEF Acquire, LeaseFree
    <2>2. Data = s3 /\ db' = [db EXCEPT ![i] = s3] /\ s3' = s3 /\ role'[i] = "leader"
      BY <1>0, <1>1, <1>6, <2>1 DEF Acquire
    <2>3. Data' = db'[i] /\ db'[i] = s3
      BY <1>2, <1>3, <2>2 DEF IsLeader
    <2> QED BY <2>2, <2>3 DEF Promoted
  <1>7. ASSUME OpenFollower(i), ~IsLeader(i) PROVE Copied(i)
    <2>1. /\ role' = [role EXCEPT ![i] = "follower"]
          /\ db' = [db EXCEPT ![i] = s3] /\ s3' = s3
      BY <1>7 DEF OpenFollower
    <2>2. \A j \in Instance : /\ IsLeader(j)' = IsLeader(j)
                              /\ IsLeader(j) => db'[j] = db[j]
      BY <1>0, <1>3, <1>7, <2>1 DEF IsLeader
    <2>3. CASE \E j \in Instance : IsLeader(j)
      BY <1>1, <1>2, <2>1, <2>2, <2>3 DEF Copied
    <2>4. CASE \A j \in Instance : ~IsLeader(j)
      BY <1>1, <1>2, <2>1, <2>2, <2>4 DEF Copied
    <2> QED BY <2>3, <2>4
  <1>8. ASSUME NEW r \in Request, Commit(i, r) PROVE Wrote(i, r)
    <2>1. /\ IsLeader(i) /\ db' = [db EXCEPT ![i] = @ \union {r}]
          /\ UNCHANGED <<role, s3>>
      BY <1>8 DEF Commit
    <2>2. Data = db[i] /\ Data' = db'[i] /\ db'[i] = db[i] \union {r}
      BY <1>1, <1>2, <1>3, <2>1 DEF IsLeader
    <2> QED BY <2>1, <2>2 DEF Wrote
  <1>9. ASSUME Sync(i) PROVE Synced
    <2>1. IsLeader(i) /\ s3' = db[i] /\ UNCHANGED <<role, db>>
      BY <1>9 DEF Sync
    <2>2. Data = db[i] /\ Data' = db[i]
      BY <1>1, <1>2, <2>1 DEF IsLeader
    <2> QED BY <2>1, <2>2 DEF Synced
  <1>10. ASSUME NEW to \in {"closed", "demoted", "follower"}, IsLeader(i),
                role' = [role EXCEPT ![i] = to]
         PROVE  Data' = s3'
    <2>1. \A j \in Instance : ~IsLeader(j)'
      BY <1>0, <1>1, <1>10 DEF IsLeader
    <2> QED BY <1>2, <2>1
  <1>11. ASSUME NEW to \in {"closed", "demoted"}, ~IsLeader(i),
                role' = [role EXCEPT ![i] = to], UNCHANGED <<db, s3>>
         PROVE  Kept
    <2>1. \A j \in Instance : IsLeader(j)' = IsLeader(j)
      BY <1>0, <1>11 DEF IsLeader
    <2> QED BY <1>4, <1>11, <2>1
  <1>12. ASSUME NEW to \in {"follower", "closed"}, Release(i, to), s3 = db[i] PROVE Kept
    BY <1>1, <1>10, <1>12 DEF Release, Kept
  <1>13. ASSUME NEW to \in {"closed", "demoted"}, Drop(i, to) PROVE Kept \/ Fell
    BY <1>10, <1>11, <1>13 DEF Drop, Fell
  <1>14. ASSUME CloseDB(i) PROVE Kept \/ Synced
    <2>1. CASE IsLeader(i)
      BY <1>1, <1>10, <1>14, <2>1 DEF CloseDB, Synced
    <2>2. CASE ~IsLeader(i)
      BY <1>11, <1>14, <2>2 DEF CloseDB
    <2> QED BY <2>1, <2>2
  <1> QED BY <1>5, <1>6, <1>7, <1>8, <1>9, <1>12, <1>13, <1>14

\* A step after which every request is, for its client, where it was.
LEMMA StillStep ==
  ASSUME IInv, IInv', \A r \in Request : At(r)' = At(r) /\ Sees(r),
         \/ Kept \/ Synced \/ Fell
         \/ \E i \in Instance : Promoted(i) \/ Copied(i)
  PROVE  One!Next
  <1>1. One!Looks
    BY LooksOn
  <1>2. [r \in Request |-> At(r)]' = [r \in Request |-> At(r)]
    OBVIOUS
  <1>3. One!CutOff
    <2> DEFINE S == {}
    <2>1. S \in SUBSET Write
      OBVIOUS
    <2>2. [r \in Request |-> At(r)]' =
            [r \in Write |-> IF r \in S /\ [q \in Request |-> At(q)][r] = "open" THEN "idle"
                             ELSE IF r \in S /\ [q \in Request |-> At(q)][r] = "made" THEN "failed"
                             ELSE [q \in Request |-> At(q)][r]]
      BY <1>2 DEF Request
    <2> QED BY <2>1, <2>2 DEF One!CutOff
  <1>4. CASE Kept \/ \E i \in Instance : Promoted(i) \/ Copied(i)
    <2>1. One!Stop
      BY <1>1, <1>3, <1>4 DEF One!Stop, One!Keep, Kept, Promoted, Copied
    <2> QED BY <2>1 DEF One!Next
  <1>5. CASE Synced
    BY <1>1, <1>3, <1>5 DEF Synced, One!Sync, One!Next
  <1>6. CASE Fell
    BY <1>1, <1>3, <1>6 DEF Fell, One!Lose, One!Next
  <1> QED BY <1>4, <1>5, <1>6

\* A step that moves no request.
LEMMA RestStep ==
  ASSUME IInv, IInv', UNCHANGED req,
         \/ Kept \/ Synced \/ Fell
         \/ \E i \in Instance : \/ Promoted(i)
                                \/ Copied(i) /\ \A r \in Request :
                                     req[r].inst = i => req[r].at # "admitted"
  PROVE  One!Next
  <1>1. /\ db \in [Instance -> SUBSET Write]
        /\ \A r \in Request : req[r].inst \in Instance
    BY DEF IInv, TypeOK, S3liteTypeOK
  <1>2. \A r \in Request : Sees(r)
    BY <1>1 DEF Sees, Kept, Synced, Fell, Promoted, Copied
  <1>3. \A r \in Request : At(r)' = At(r)
    BY DEF At
  <1> QED BY <1>2, <1>3, StillStep

\* A step of one request, which sees what it has to.
LEMMA OthersSee ==
  ASSUME IInv, NEW r \in Request, \A q \in Request \ {r} : req'[q] = req[q],
         \/ Kept
         \/ Promoted(req[r].inst)
         \/ Wrote(req[r].inst, r)
  PROVE  \A q \in Request \ {r} : Sees(q)
  <1>1. /\ db \in [Instance -> SUBSET Write]
        /\ \A q \in Request : req[q].inst \in Instance
    BY DEF IInv, TypeOK, S3liteTypeOK
  <1> QED BY <1>1 DEF Sees, Kept, Promoted, Wrote

LEMMA MoveStep ==
  ASSUME IInv, IInv', NEW r \in Request, NEW from, NEW to,
         \A q \in Request \ {r} : req'[q] = req[q],
         \/ Kept
         \/ Promoted(req[r].inst)
         \/ Wrote(req[r].inst, r),
         Sees(r), At(r) = from, At(r)' = to
  PROVE  One!Move(r, from, to)
  <1>1. One!Looks
    BY OthersSee, LooksOn
  <1>2. \A q \in Request \ {r} : At(q)' = At(q)
    BY DEF At
  <1>3. [q \in Request |-> At(q)]' = [[q \in Request |-> At(q)] EXCEPT ![r] = to]
    BY <1>2
  <1> QED BY <1>1, <1>3 DEF One!Move

\* Where a request is, for its client.
LEMMA Places ==
  ASSUME NEW r \in Request
  PROVE  /\ req[r].at = "none" => At(r) = "idle"
         /\ req[r].at \in Waiting \union {"admitted"} => At(r) = "open"
         /\ req[r].at = "written" => At(r) = "made"
         /\ req[r].at = "done" => At(r) = "answered"
         /\ req[r].at = "failed" => At(r) = "failed"
  BY DEF At, Waiting

LEMMA PlacesNext ==
  ASSUME NEW r \in Request
  PROVE  /\ req'[r].at = "none" => At(r)' = "idle"
         /\ req'[r].at \in Waiting \union {"admitted"} => At(r)' = "open"
         /\ req'[r].at = "written" => At(r)' = "made"
         /\ req'[r].at = "done" => At(r)' = "answered"
         /\ req'[r].at = "failed" => At(r)' = "failed"
  BY DEF At, Waiting

\* The steps of one request.
LEMMA ReqStep ==
  ASSUME IInv, IInv', NEW r \in Request,
         \/ \E i \in Instance : Arrive(r, i)
         \/ Enter(r) \/ GatePass(r) \/ GateRefuse(r) \/ Serve(r)
  PROVE  One!Next
<1> DEFINE i == req[r].inst
<1>1. /\ i \in Instance
      /\ db \in [Instance -> SUBSET Write]
      /\ req \in [Request -> [at : Inside \union {"none", "arrived", "done", "failed"},
                              inst : Instance]]
  BY DEF IInv, TypeOK, S3liteTypeOK
<1>2. UNCHANGED s3liteVars => Kept
  BY <1>1, S3liteKinds DEF s3liteVars
<1>3. ASSUME NEW from, NEW to, Moves(r, from, to)
      PROVE  /\ \A q \in Request \ {r} : req'[q] = req[q]
             /\ req[r].at = from /\ req'[r].at = to /\ req'[r].inst = i
  BY <1>1, <1>3 DEF Moves
<1>4. ASSUME NEW j \in Instance, Arrive(r, j) PROVE One!Next
  <2>1. /\ \A q \in Request \ {r} : req'[q] = req[q]
        /\ req[r].at = "none" /\ req'[r].at = "arrived"
    BY <1>1, <1>4 DEF Arrive
  <2>2. Kept
    BY <1>2, <1>4 DEF Arrive
  <2>3. At(r) = "idle" /\ At(r)' = "open" /\ Sees(r)
    BY <2>1, Places, PlacesNext DEF Sees, Waiting
  <2>4. One!Move(r, "idle", "open")
    BY <2>1, <2>2, <2>3, MoveStep
  <2> QED BY <2>2, <2>4 DEF One!Next, One!Send, One!Keep, Kept, Request
<1>5. ASSUME \/ Moves(r, "arrived", "entered") /\ Kept
             \/ Moves(r, "entered", "arrived") /\ Kept
             \/ Moves(r, "entered", "admitted") /\ Kept /\ MayServe(i)
             \/ Moves(r, "entered", "admitted") /\ Promoted(i)
      PROVE  One!Next
  <2>1. \A q \in Request \ {r} : req'[q] = req[q]
    BY <1>3, <1>5
  <2>2. At(r) = "open" /\ At(r)' = "open"
    BY <1>3, <1>5, Places, PlacesNext DEF Waiting
  <2>3. \A q \in Request : At(q)' = At(q)
    BY <2>1, <2>2 DEF At
  <2>4. MayServe(i) => db[i] = Data
    BY <1>1, DataIs DEF MayServe, IInv
  <2>5. Sees(r)
    BY <1>1, <1>3, <1>5, <2>4 DEF Sees, Waiting, Kept, Promoted
  <2>6. \A q \in Request : Sees(q)
    BY <1>5, <2>1, <2>5, OthersSee
  <2> QED BY <1>1, <1>5, <2>3, <2>6, StillStep
<1>6. ASSUME Enter(r) PROVE One!Next
  BY <1>2, <1>5, <1>6 DEF Enter
<1>7. ASSUME GatePass(r) PROVE One!Next
  <2>1. Acquire(i) => Promoted(i)
    BY <1>1, S3liteKinds
  <2> QED BY <1>2, <1>5, <1>7, <2>1 DEF GatePass, Promote
<1>8. ASSUME GateRefuse(r) PROVE One!Next
  BY <1>2, <1>5, <1>8 DEF GateRefuse
<1>9. ASSUME NEW from, NEW to, Moves(r, from, to), UNCHANGED s3liteVars,
             to \in {"done", "none"}, NEW a, NEW b,
             At(r) = a, At(r)' = b
      PROVE  One!Move(r, a, b) /\ One!Keep
  <2>1. Sees(r)
    BY <1>3, <1>9 DEF Sees
  <2>2. One!Move(r, a, b)
    BY <1>2, <1>3, <1>9, <2>1, MoveStep
  <2> QED BY <1>2, <1>9, <2>2 DEF One!Keep, Kept
<1>10. ASSUME Read(r) PROVE One!Next
  <2>1. Moves(r, "admitted", "done") /\ UNCHANGED s3liteVars
    BY <1>10 DEF Read
  <2>2. At(r) = "open" /\ At(r)' = "answered"
    BY <1>3, <2>1, Places, PlacesNext
  <2>3. One!Answer(r)
    BY <1>9, <2>1, <2>2 DEF One!Answer
  <2> QED BY <2>3 DEF One!Next, Request
<1>11. ASSUME Acknowledge(r) PROVE One!Next
  <2>1. Moves(r, "written", "done") /\ UNCHANGED s3liteVars
    BY <1>11 DEF Acknowledge
  <2>2. At(r) = "made" /\ At(r)' = "answered"
    BY <1>3, <2>1, Places, PlacesNext
  <2>3. One!Acknowledge(r)
    BY <1>9, <2>1, <2>2 DEF One!Acknowledge
  <2> QED BY <2>3 DEF One!Next, Request
<1>12. ASSUME WriteFails(r) PROVE One!Next
  <2>1. Moves(r, "admitted", "none") /\ UNCHANGED s3liteVars
    BY <1>12 DEF WriteFails
  <2>2. At(r) = "open" /\ At(r)' = "idle"
    BY <1>3, <2>1, Places, PlacesNext
  <2>3. One!GiveUp(r)
    BY <1>9, <2>1, <2>2 DEF One!GiveUp
  <2> QED BY <2>3 DEF One!Next, Request
<1>13. ASSUME WriteDB(r) PROVE One!Next
  <2>1. Moves(r, "admitted", "written")
    BY <1>13 DEF WriteDB
  <2>2. Wrote(i, r)
    BY <1>1, <1>13, S3liteKinds DEF WriteDB
  <2>3. At(r) = "open" /\ At(r)' = "made" /\ Sees(r)
    BY <1>3, <2>1, Places, PlacesNext DEF Sees
  <2>4. One!Move(r, "open", "made")
    BY <1>3, <2>1, <2>2, <2>3, MoveStep
  <2>5. One!Make(r)
    BY <2>2, <2>4 DEF One!Make, Wrote
  <2> QED BY <2>5 DEF One!Next, Request
<1> QED BY <1>4, <1>6, <1>7, <1>8, <1>10, <1>11, <1>12, <1>13 DEF Serve

\* A process ends: its clients are cut off.
LEMMA ExitStep ==
  ASSUME IInv, IInv', NEW i \in Instance, Exit(i) \/ Crash(i)
  PROVE  One!Next
  <1> DEFINE S == {r \in Request : req[r].inst = i}
             ats == [r \in Request |-> At(r)]
  <1>1. /\ db \in [Instance -> SUBSET Write]
        /\ req \in [Request -> [at : Inside \union {"none", "arrived", "done", "failed"},
                                inst : Instance]]
    BY DEF IInv, TypeOK, S3liteTypeOK
  <1>2. Exits(i) /\ (UNCHANGED s3liteVars \/ Drop(i, "closed"))
    BY DEF Exit, Crash
  <1>3. Kept \/ Fell
    BY <1>2, S3liteKinds DEF s3liteVars
  <1>4. ASSUME NEW r \in Request
        PROVE  /\ r \notin S => req'[r] = req[r]
               /\ r \in S => /\ req[r].at \in {"none", "done", "failed"} => req'[r] = req[r]
                             /\ req[r].at = "written" => req'[r].at = "failed"
                             /\ req[r].at \in Waiting \union {"admitted"} => req'[r].at = "none"
    BY <1>1, <1>2 DEF Exits, Waiting
  <1>5. ASSUME NEW r \in Request PROVE Sees(r)
    <2>1. req'[r].at = "admitted" => req'[r] = req[r]
      BY <1>1, <1>4 DEF Waiting, Inside
    <2> QED BY <1>3, <2>1 DEF Sees, Kept, Fell
  <1>6. One!Looks
    BY <1>5, LooksOn
  <1>7. ASSUME NEW r \in Request
        PROVE  At(r)' = IF r \in S /\ At(r) = "open" THEN "idle"
                        ELSE IF r \in S /\ At(r) = "made" THEN "failed"
                        ELSE At(r)
    <2>1. req'[r] = req[r] => At(r)' = At(r)
      BY DEF At
    <2>2. CASE r \notin S
      BY <1>4, <2>1, <2>2
    <2>3. CASE r \in S /\ req[r].at \in {"none", "done", "failed"}
      BY <1>4, <2>1, <2>3, Places
    <2>4. CASE r \in S /\ req[r].at = "written"
      BY <1>4, <2>4, Places, PlacesNext
    <2>5. CASE r \in S /\ req[r].at \in Waiting \union {"admitted"}
      BY <1>4, <2>5, Places, PlacesNext
    <2>6. req[r].at \in {"none", "done", "failed", "written"} \union Waiting \union {"admitted"}
      BY <1>1 DEF Waiting, Inside
    <2> QED BY <2>2, <2>3, <2>4, <2>5, <2>6
  <1>8. ats' = [r \in Write |-> IF r \in S /\ ats[r] = "open" THEN "idle"
                                ELSE IF r \in S /\ ats[r] = "made" THEN "failed"
                                ELSE ats[r]]
    BY <1>7 DEF Request
  <1>9. One!CutOff
    BY <1>8 DEF One!CutOff, Request
  <1>10. CASE Kept
    BY <1>6, <1>9, <1>10 DEF Kept, One!Stop, One!Keep, One!Next
  <1>11. CASE Fell
    BY <1>6, <1>9, <1>11 DEF Fell, One!Lose, One!Next
  <1> QED BY <1>3, <1>10, <1>11

\* The steps of an instance that go on with its requests.
LEMMA InstanceStep ==
  ASSUME IInv, IInv', NEW i \in Instance,
         \/ ProbeArrives(i) \/ ProbeAnswered(i)
         \/ Idle(i) \/ Yield(i) \/ SweepEnter(i) \/ Sweeps(i)
         \/ Boot(i) \/ Sigterm(i) \/ FinalSync(i) \/ Close(i) \/ Lapse(i)
         \/ Replicate(i)
  PROVE  One!Next
<1>1. UNCHANGED s3liteVars => Kept
  BY S3liteKinds DEF s3liteVars
<1>2. ASSUME ProbeArrives(i) \/ ProbeAnswered(i) \/ Idle(i) PROVE One!Next
  <2>1. UNCHANGED <<req, s3liteVars>>
    BY <1>2 DEF ProbeArrives, ProbeAnswered, Idle, clients
  <2> QED BY <1>1, <2>1, RestStep
<1>3. ASSUME SweepEnter(i) \/ SweepEnds(i) \/ Sigterm(i) \/ YieldLock(i) PROVE One!Next
  <2>1. UNCHANGED <<req, s3liteVars>>
    BY <1>3 DEF SweepEnter, SweepEnds, Sigterm, YieldLock, SweepFrame, YieldFrame, clients
  <2> QED BY <1>1, <2>1, RestStep
<1>4. ASSUME YieldSync(i) \/ FinalSync(i) \/ Replicate(i) PROVE One!Next
  <2>1. UNCHANGED req /\ Sync(i)
    BY <1>4 DEF YieldSync, FinalSync, Replicate, YieldFrame, clients
  <2>2. Synced
    BY <2>1, S3liteKinds
  <2> QED BY <2>1, <2>2, RestStep
<1>5. ASSUME YieldRelease(i) PROVE One!Next
  <2>1. UNCHANGED req /\ Release(i, "follower") /\ yield[i] = "synced"
    BY <1>5 DEF YieldRelease, YieldFrame, YieldMoves, clients
  <2>2. s3 = db[i]
    BY <2>1 DEF Release, IInv, ReplicaBehind
  <2>3. Kept
    BY <2>1, <2>2, S3liteKinds
  <2> QED BY <2>1, <2>3, RestStep
<1>6. ASSUME YieldFails(i) PROVE One!Next
  <2>1. UNCHANGED req /\ UNCHANGED <<role, holder, db, s3>>
    BY <1>6 DEF YieldFails, YieldFrame, clients, s3liteVars
  <2>2. Kept
    BY <2>1, S3liteKinds
  <2> QED BY <2>1, <2>2, RestStep
<1>7. ASSUME SweepGate(i) PROVE One!Next
  <2>1. UNCHANGED req /\ (UNCHANGED s3liteVars \/ Acquire(i))
    BY <1>7 DEF SweepGate, Promote, SweepFrame, clients
  <2>2. Kept \/ Promoted(i)
    BY <1>1, <2>1, S3liteKinds
  <2> QED BY <2>1, <2>2, RestStep
<1>8. ASSUME Boot(i) PROVE One!Next
  <2>1. /\ UNCHANGED req /\ (Acquire(i) \/ OpenFollower(i))
        /\ life[i] = "down"
    BY <1>8 DEF Boot, clients
  <2>2. /\ ~IsLeader(i)
        /\ \A r \in Request : req[r].inst = i => req[r].at # "admitted"
    BY <2>1 DEF IInv, DownIsQuiet, IsLeader
  <2>3. Promoted(i) \/ Copied(i)
    BY <2>1, <2>2, S3liteKinds
  <2> QED BY <2>1, <2>2, <2>3, RestStep
<1>9. ASSUME Lapse(i) PROVE One!Next
  <2>1. UNCHANGED req /\ Drop(i, "demoted")
    BY <1>9 DEF Lapse, clients
  <2>2. Kept \/ Fell
    BY <2>1, S3liteKinds
  <2> QED BY <2>1, <2>2, RestStep
<1>10. ASSUME Close(i) PROVE One!Next
  <2>1. /\ UNCHANGED req
        /\ \/ Release(i, "closed") /\ s3 = db[i]
           \/ CloseDB(i)
           \/ Drop(i, "closed")
    BY <1>10 DEF Close, clients
  <2>2. Kept \/ Synced \/ Fell
    BY <2>1, S3liteKinds
  <2> QED BY <2>1, <2>2, RestStep
<1> QED BY <1>2, <1>3, <1>4, <1>5, <1>6, <1>7, <1>8, <1>9, <1>10 DEF Yield, Sweeps

\* Every step is one of the one database, or changes nothing of it.
LEMMA OneStep == IInv /\ IInv' /\ [Next]_vars => [One!Next]_(One!vars)
<1> SUFFICES ASSUME IInv, IInv', [Next]_vars PROVE [One!Next]_(One!vars)
  OBVIOUS
<1>1. ASSUME NEW r \in Request,
             \/ \E i \in Instance : Arrive(r, i)
             \/ Enter(r) \/ GatePass(r) \/ GateRefuse(r) \/ Serve(r)
      PROVE  One!Next
  BY <1>1, ReqStep
<1>2. ASSUME NEW i \in Instance,
             \/ ProbeArrives(i) \/ ProbeAnswered(i)
             \/ Idle(i) \/ Yield(i) \/ SweepEnter(i) \/ Sweeps(i)
             \/ Boot(i) \/ Sigterm(i) \/ Shuts(i) \/ Crash(i) \/ Lapse(i) \/ Replicate(i)
      PROVE  One!Next
  BY <1>2, InstanceStep, ExitStep DEF Shuts
<1>3. CASE UNCHANGED vars
  <2>1. UNCHANGED <<req, role, holder, db, s3>>
    BY <1>3 DEF vars, clients, s3liteVars
  <2>2. Data' = Data
    BY <2>1 DEF Data, IsLeader
  <2>3. \A r \in Request : At(r)' = At(r) /\ View(r)' = View(r)
    BY <2>1, <2>2 DEF At, View
  <2> QED BY <2>1, <2>2, <2>3 DEF One!vars
<1> QED BY <1>1, <1>2, <1>3 DEF Next

LEMMA OneInit == Init => One!Init
<1> SUFFICES ASSUME Init PROVE One!Init
  OBVIOUS
<1>1. /\ s3 = {} /\ \A i \in Instance : ~IsLeader(i)
      /\ \A r \in Request : req[r].at = "none"
  BY DEF Init, S3liteInit, IsLeader
<1>2. Data = {}
  BY <1>1 DEF Data
<1>3. \A r \in Request : At(r) = "idle"
  BY <1>1 DEF At
<1>4. \A r \in Request : View(r) = {}
  BY <1>1 DEF View, Waiting
<1> QED BY <1>1, <1>2, <1>3, <1>4 DEF One!Init, Request

(***************************************************************************)
(* Clients see one database, whatever number of instances takes turns with *)
(* it: each write takes effect once and before its answer, each read is    *)
(* answered from the database as it was while the request was open, and a  *)
(* fault takes it back to the replica and to nothing else.                 *)
(***************************************************************************)
THEOREM ClientsSeeOneDatabase == Spec => ImplementsOneDatabase
  <1>1. IInv /\ [Next]_vars => [One!Next]_(One!vars)
    BY IInvStep, OneStep
  <1> QED BY <1>1, IInvHolds, OneInit, PTL
          DEF Spec, ImplementsOneDatabase, One!Spec
=============================================================================
