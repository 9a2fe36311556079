---------------------------- MODULE CiRunsProofs ----------------------------
(***************************************************************************)
(* Proofs about CiRuns, for any number of workflow files, any results and  *)
(* any number of crashes.                                                  *)
(***************************************************************************)
EXTENDS CiRuns, TLAPS

\* How far the dispatcher is, and that nothing exists of the files it has not
\* come to.
DispatchInv ==
    /\ dispatch.at \in {"file", "triggering", "marking"} => dispatch.file \in Job
    /\ dispatch.at = "file" => dispatch.jobs < dispatch.file
    /\ dispatch.at \in {"triggering", "marking"} => dispatch.jobs <= dispatch.file
    /\ dispatch.errors <= dispatch.jobs
    /\ dispatch.at = "triggering" => dispatch.errors < dispatch.jobs
    /\ dispatch.at = "idle" => dispatch.jobs = 0 /\ dispatch.file = 1

Untouched(j) == job[j] = "none" /\ runner[j] = "none" /\ complete[j].at = "none"
AheadInv == \A j \in Job :
    /\ dispatch.at = "idle" => Untouched(j)
    /\ dispatch.at = "file" /\ j >= dispatch.file => Untouched(j)
    /\ dispatch.at \in {"triggering", "marking"} /\ j > dispatch.file => Untouched(j)

\* A handler that has recorded the result finds the job over, and one that has
\* stored the log finds it in S3.
HandlerInv == \A j \in Job :
    /\ complete[j].at = "stored" => j \in logs
    /\ complete[j].at \in {"recorded", "listed", "finishing"} => Over(job[j])

IInv == TypeOK /\ DispatchInv /\ AheadInv /\ HandlerInv /\ LogBeforePointer /\ DoneTailIsOver

LEMMA RollupType == RollupOf(job) \in Status
  BY DEF RollupOf, Status, Result

LEMMA InitOK == Init => IInv
  BY CiAssumption DEF Init, IInv, TypeOK, DispatchInv, AheadInv, HandlerInv, LogBeforePointer,
     DoneTailIsOver, Untouched, NoHandler, NoSweep, Status, Result, Job, Over

-----------------------------------------------------------------------------
(* Types                                                                   *)

DispatchType == [at : {"idle", "file", "triggering", "marking", "ending", "erroring", "done"},
                 file : Job \union {1}, jobs : 0..Files, errors : 0..Files]
HandlerType == [at : {"none", "received", "checked", "stored", "recorded", "listed",
                      "finishing"}, result : Result, rollup : Status]
SweepType == [at : {"idle", "marking", "rolling", "listed"}, left : SUBSET Job,
              stuck : SUBSET Job, rollup : Status]
RunnerType == {"none", "triggered", "started", "working", "exited"}

LEMMA TypeShape ==
  ASSUME TypeOK
  PROVE  /\ dispatch \in DispatchType
         /\ complete \in [Job -> HandlerType]
         /\ sweep \in SweepType
  BY DEF TypeOK, DispatchType, HandlerType, SweepType

\* NextFile moves on to a file, or to the end.
LEMMA NextFileType ==
  ASSUME TypeOK, dispatch.file \in Job
  PROVE  /\ \/ NextFile.at = "ending" /\ NextFile.file = dispatch.file
            \/ /\ NextFile.at = "file" /\ NextFile.file = dispatch.file + 1
               /\ NextFile.file \in Job
         /\ NextFile.jobs = dispatch.jobs /\ NextFile.errors = dispatch.errors
         /\ NextFile \in DispatchType
  <1>1. dispatch \in DispatchType
    BY TypeShape
  <1>2. CASE dispatch.file = Files
    <2>1. NextFile = [dispatch EXCEPT !.at = "ending"]
      BY <1>2 DEF NextFile
    <2> QED BY <1>1, <2>1 DEF DispatchType
  <1>3. CASE dispatch.file # Files
    <2>1. NextFile = [dispatch EXCEPT !.at = "file", !.file = dispatch.file + 1]
      BY <1>3 DEF NextFile
    <2>2. dispatch.file + 1 \in Job
      BY <1>3, CiAssumption DEF Job
    <2> QED BY <1>1, <2>1, <2>2 DEF DispatchType
  <1> QED BY <1>2, <1>3

\* Types, but for what the dispatcher keeps.
LEMMA DispatchTypes ==
  ASSUME TypeOK, DispatchInv, Dispatch
  PROVE  TypeOK' /\ DispatchInv'
  <1> USE CiAssumption DEF Others, rows, memory
  <1>0. dispatch \in DispatchType
    BY TypeShape
  <1>1. ASSUME run' \in Status \union {"none"},
               job' \in [Job -> Status \union {"none"}],
               runner' \in [Job -> RunnerType],
               dispatch' \in DispatchType,
               UNCHANGED <<logKey, Others>>
        PROVE  TypeOK'
    BY <1>1 DEF TypeOK, DispatchType, RunnerType
  <1>2. CASE CreateRun \/ CreateErrorRun
    <2>1. \E a \in {"file", "erroring"} : dispatch' = [dispatch EXCEPT !.at = a]
      BY <1>2 DEF CreateRun, CreateErrorRun
    <2>2. dispatch' \in DispatchType
      BY <1>0, <2>1 DEF DispatchType
    <2>3. TypeOK'
      BY <1>1, <1>2, <2>2 DEF CreateRun, CreateErrorRun, TypeOK, RunnerType, Status
    <2>4. DispatchInv'
      BY <1>0, <1>2 DEF CreateRun, CreateErrorRun, DispatchInv, DispatchType, Job
    <2> QED BY <2>3, <2>4
  <1>3. CASE SkipFile
    <2>1. dispatch.file \in Job /\ dispatch' = NextFile /\ dispatch.at = "file"
      BY <1>3 DEF SkipFile, DispatchInv
    <2>2. TypeOK'
      BY <1>1, <1>3, <2>1, NextFileType DEF SkipFile, TypeOK, RunnerType
    <2>3. DispatchInv'
      BY <1>0, <2>1, NextFileType DEF DispatchInv, DispatchType, Job
    <2> QED BY <2>2, <2>3
  <1>4. CASE CreateJob
    <2>1. /\ dispatch.file \in Job /\ dispatch.at = "file"
          /\ dispatch.jobs < dispatch.file /\ dispatch.errors <= dispatch.jobs
          /\ dispatch' = [dispatch EXCEPT !.at = "triggering", !.jobs = dispatch.jobs + 1]
      BY <1>4 DEF CreateJob, DispatchInv
    <2>2. dispatch' \in DispatchType /\ DispatchInv'
      <3>1. dispatch.jobs + 1 \in 0..Files /\ dispatch.errors < dispatch.jobs + 1
        BY <1>0, <2>1 DEF DispatchType, Job
      <3>2. /\ dispatch'.at = "triggering" /\ dispatch'.file = dispatch.file
            /\ dispatch'.jobs = dispatch.jobs + 1 /\ dispatch'.errors = dispatch.errors
        BY <1>0, <2>1 DEF DispatchType
      <3>3. dispatch' \in DispatchType
        BY <1>0, <2>1, <3>1 DEF DispatchType
      <3>4. dispatch'.jobs <= dispatch'.file
        BY <1>0, <2>1, <3>2 DEF DispatchType, Job
      <3> QED BY <1>0, <2>1, <3>1, <3>2, <3>3, <3>4 DEF DispatchInv, DispatchType
    <2>3. TypeOK'
      BY <1>1, <1>4, <2>2 DEF CreateJob, TypeOK, RunnerType, Status
    <2> QED BY <2>2, <2>3
  <1>5. CASE TriggerReturns
    <2>1. /\ dispatch.file \in Job /\ dispatch.at = "triggering"
          /\ dispatch.jobs <= dispatch.file /\ dispatch.errors < dispatch.jobs
          /\ \/ dispatch' = NextFile
             \/ dispatch' = [dispatch EXCEPT !.at = "marking", !.errors = dispatch.errors + 1]
      BY <1>5 DEF TriggerReturns, DispatchInv
    <2>2. ASSUME dispatch' = NextFile
          PROVE  dispatch' \in DispatchType /\ DispatchInv'
      BY <1>0, <2>1, <2>2, NextFileType DEF DispatchInv, DispatchType, Job
    <2>3. ASSUME dispatch' = [dispatch EXCEPT !.at = "marking", !.errors = dispatch.errors + 1]
          PROVE  dispatch' \in DispatchType /\ DispatchInv'
      <3>1. dispatch.errors + 1 \in 0..Files /\ dispatch.errors + 1 <= dispatch.jobs
        BY <1>0, <2>1 DEF DispatchType, Job
      <3>2. /\ dispatch'.at = "marking" /\ dispatch'.file = dispatch.file
            /\ dispatch'.jobs = dispatch.jobs /\ dispatch'.errors = dispatch.errors + 1
        BY <1>0, <2>3 DEF DispatchType
      <3>3. dispatch' \in DispatchType
        BY <1>0, <2>3, <3>1 DEF DispatchType
      <3> QED BY <2>1, <3>1, <3>2, <3>3 DEF DispatchInv
    <2>4. dispatch' \in DispatchType /\ DispatchInv'
      BY <2>1, <2>2, <2>3
    <2>5. TypeOK'
      BY <1>1, <1>5, <2>4 DEF TriggerReturns, TypeOK, RunnerType
    <2> QED BY <2>4, <2>5
  <1>6. CASE MarkJobError
    <2>1. dispatch.file \in Job /\ dispatch' = NextFile /\ dispatch.at = "marking"
      BY <1>6 DEF MarkJobError, DispatchInv
    <2>2. TypeOK'
      BY <1>1, <1>6, <2>1, NextFileType
         DEF MarkJobError, TypeOK, RunnerType, Status, Result
    <2>3. DispatchInv'
      BY <1>0, <2>1, NextFileType DEF DispatchInv, DispatchType, Job
    <2> QED BY <2>2, <2>3
  <1>7. CASE EndDispatch
    <2>1. run' \in Status \union {"none"}
      BY <1>7 DEF EndDispatch, TypeOK, Status, Result
    <2>2. dispatch' = [dispatch EXCEPT !.at = "done"] /\ UNCHANGED <<job, logKey, runner, Others>>
      BY <1>7 DEF EndDispatch
    <2>3. dispatch' \in DispatchType /\ DispatchInv'
      BY <1>0, <2>2 DEF DispatchInv, DispatchType
    <2> QED BY <1>1, <2>1, <2>2, <2>3 DEF TypeOK, RunnerType
  <1> QED BY <1>2, <1>3, <1>4, <1>5, <1>6, <1>7 DEF Dispatch

LEMMA RunnerTypes ==
  ASSUME TypeOK, NEW j \in Job, Runner(j)
  PROVE  TypeOK' /\ dispatch' = dispatch
  <1> USE CiAssumption DEF TypeOK, Others, rows, memory, Status
  <1>1. CASE RunnerStarts(j) \/ ClaimRefused(j) \/ RunnerDies(j)
    <2>1. /\ \E s \in {"started", "exited"} : runner' = [runner EXCEPT ![j] = s]
          /\ UNCHANGED <<rows, dispatch, Others>>
      BY <1>1 DEF RunnerStarts, ClaimRefused, RunnerDies
    <2> QED BY <2>1
  <1>2. CASE Claim(j)
    BY <1>2 DEF Claim
  <1>3. CASE SendChunk(j)
    BY <1>3 DEF SendChunk
  <1>4. CASE PostResult(j)
    <2>1. PICK s \in Results : complete' = [complete EXCEPT ![j] =
                           [at |-> "received", result |-> s, rollup |-> "running"]]
      BY <1>4 DEF PostResult
    <2>2. s \in Result
      BY DEF Result
    <2> QED BY <1>4, <2>1, <2>2 DEF PostResult
  <1> QED BY <1>1, <1>2, <1>3, <1>4 DEF Runner

LEMMA HandlerTypes ==
  ASSUME TypeOK, NEW j \in Job, Complete(j)
  PROVE  TypeOK' /\ dispatch' = dispatch
  <1> USE DEF HandlerFrame, Moves, rows, memory
  <1>0. complete \in [Job -> HandlerType]
    BY TypeShape
  <1>1. ASSUME run' \in Status \union {"none"},
               job' \in [Job -> Status \union {"none"}],
               logKey' \subseteq Job, logs' \subseteq Job, idle' \subseteq Job,
               live' \in [Job -> {"none", "open", "done"}],
               complete' \in [Job -> HandlerType],
               UNCHANGED HandlerFrame
        PROVE  TypeOK' /\ dispatch' = dispatch
    BY <1>1 DEF TypeOK, HandlerType
  <1>2. ASSUME NEW a \in {"none", "checked", "stored", "recorded", "finishing"},
               complete' = [complete EXCEPT ![j].at = a]
        PROVE  complete' \in [Job -> HandlerType]
    BY <1>0, <1>2 DEF HandlerType
  <1>3. NoHandler \in HandlerType
    BY DEF NoHandler, HandlerType, Result, Status
  <1>4. complete[j].rollup \in Status /\ complete[j].result \in Result
    BY <1>0 DEF HandlerType
  <1>5. CASE CheckJob(j)
    <2>1. complete' \in [Job -> HandlerType]
      BY <1>2, <1>5 DEF CheckJob
    <2> QED BY <1>1, <1>5, <2>1 DEF CheckJob, TypeOK
  <1>6. CASE StoreLog(j) \/ SetRunStatus(j) \/ RecordResult(j)
    <2>1. complete' \in [Job -> HandlerType]
      BY <1>2, <1>6 DEF StoreLog, SetRunStatus, RecordResult
    <2> QED BY <1>1, <1>4, <1>6, <2>1 DEF StoreLog, SetRunStatus, RecordResult, TypeOK, Status
  <1>7. CASE ListJobs(j)
    <2>1. complete' \in [Job -> HandlerType]
      BY <1>0, <1>7, RollupType DEF ListJobs, HandlerType
    <2> QED BY <1>1, <1>7, <2>1 DEF ListJobs, TypeOK
  <1>8. CASE FinishLive(j)
    <2>1. complete' \in [Job -> HandlerType]
      BY <1>0, <1>3, <1>8 DEF FinishLive
    <2> QED BY <1>1, <1>8, <2>1 DEF FinishLive, TypeOK
  <1>9. CASE CompleteFails(j)
    <2>1. complete' \in [Job -> HandlerType]
      BY <1>0, <1>2, <1>3, <1>9 DEF CompleteFails
    <2> QED BY <1>1, <1>9, <2>1 DEF CompleteFails, TypeOK
  <1> QED BY <1>5, <1>6, <1>7, <1>8, <1>9 DEF Complete

Other == \/ \E j \in Job : AppendChunk(j) \/ Age(j) \/ BufferIdles(j) \/ SweepMark(j)
         \/ SweepStart \/ SweepList \/ SweepSetRun \/ SweepSkips \/ SweepFails \/ Replicate

LEMMA OtherTypes ==
  ASSUME TypeOK, Other
  PROVE  TypeOK' /\ dispatch' = dispatch
  <1> USE DEF TypeOK, SweepFrame, HandlerFrame, rows, memory, Status, Result
  <1>1. ASSUME NEW j \in Job, AppendChunk(j) \/ Age(j) \/ BufferIdles(j)
        PROVE  TypeOK' /\ dispatch' = dispatch
    BY <1>1 DEF AppendChunk, Age, BufferIdles
  <1>2. ASSUME NEW j \in Job, SweepMark(j)
        PROVE  TypeOK' /\ dispatch' = dispatch
    <2>1. UNCHANGED SweepFrame /\ UNCHANGED <<run, logKey, live, idle>>
      BY <1>2 DEF SweepMark
    <2>2. job' \in [Job -> Status \union {"none"}]
      BY <1>2 DEF SweepMark
    <2>3. sweep \in SweepType
      BY DEF SweepType
    <2>4. sweep' \in SweepType
      BY <1>2, <2>3 DEF SweepMark, SweepType
    <2> QED BY <2>1, <2>2, <2>4 DEF SweepType
  <1>3. CASE SweepStart
    <2>1. Stuck \subseteq Job
      BY DEF Stuck
    <2>2. sweep' \in SweepType
      BY <1>3, <2>1 DEF SweepStart, SweepType, NoSweep
    <2>3. live' \in [Job -> {"none", "open", "done"}] /\ idle' \subseteq Job
      BY <1>3 DEF SweepStart, Reclaimed
    <2>4. UNCHANGED <<rows, SweepFrame>>
      BY <1>3 DEF SweepStart
    <2> QED BY <2>2, <2>3, <2>4 DEF SweepType
  <1>4. CASE SweepList
    <2>1. sweep \in SweepType /\ RollupOf(job) \in Status
      BY RollupType DEF SweepType
    <2>2. sweep' \in SweepType
      BY <1>4, <2>1 DEF SweepList, SweepType
    <2>3. UNCHANGED <<rows, memory, SweepFrame>>
      BY <1>4 DEF SweepList
    <2> QED BY <2>2, <2>3 DEF SweepType
  <1>5. CASE SweepSetRun
    <2>1. sweep \in SweepType /\ run' = sweep.rollup
      BY <1>5, TypeShape DEF SweepSetRun
    <2>2. PICK j \in sweep.left : sweep' = NextStuck(j)
      BY <1>5 DEF SweepSetRun
    <2>3. sweep' \in SweepType
      BY <2>1, <2>2 DEF NextStuck, SweepType, NoSweep
    <2> QED BY <1>5, <2>1, <2>3 DEF SweepSetRun, SweepType
  <1>6. CASE SweepFails
    BY <1>6 DEF SweepFails, NoSweep
  <1>7. CASE SweepSkips
    <2>1. PICK j \in sweep.left : sweep' = NextStuck(j)
      BY <1>7 DEF SweepSkips
    <2>2. sweep \in SweepType
      BY DEF SweepType
    <2>3. sweep' \in SweepType
      BY <2>1, <2>2 DEF NextStuck, SweepType, NoSweep
    <2> QED BY <1>7, <2>3 DEF SweepSkips, SweepType
  <1>8. CASE Replicate
    BY <1>8 DEF Replicate
  <1> QED BY <1>1, <1>2, <1>3, <1>4, <1>5, <1>6, <1>7, <1>8 DEF Other

LEMMA CrashTypes ==
  ASSUME TypeOK, DispatchInv, Crash
  PROVE  TypeOK' /\ DispatchInv'
  BY DEF Crash, TypeOK, DispatchInv, NoHandler, NoSweep, Status, Result

LEMMA TypeStep == TypeOK /\ DispatchInv /\ [Next]_vars => TypeOK' /\ DispatchInv'
  <1> SUFFICES ASSUME TypeOK, DispatchInv, [Next]_vars PROVE TypeOK' /\ DispatchInv'
    OBVIOUS
  <1>1. dispatch' = dispatch => DispatchInv'
    BY DEF DispatchInv
  <1>2. UNCHANGED vars => TypeOK' /\ dispatch' = dispatch
    BY DEF vars, rows, memory, TypeOK
  <1> QED BY <1>1, <1>2, DispatchTypes, RunnerTypes, HandlerTypes, OtherTypes, CrashTypes
          DEF Next, Other

(***************************************************************************)
(* Type correctness for any number of workflow files and crashes.          *)
(***************************************************************************)
THEOREM CiTypeCorrect == Spec => []TypeOK
  <1>1. Init => TypeOK /\ DispatchInv
    BY InitOK DEF IInv
  <1> QED BY <1>1, TypeStep, PTL DEF Spec
-----------------------------------------------------------------------------
(* What a step leaves of a job                                             *)

\* Nothing but the dispatcher touches a job that has no row and no runner.
LEMMA UntouchedStays ==
  ASSUME TypeOK, NEW k \in Job, Untouched(k),
         Other \/ \E j \in Job : Runner(j) \/ Complete(j)
  PROVE  Untouched(k)'
  <1> USE DEF Untouched, rows, memory
  <1>1. ASSUME NEW j \in Job, Runner(j)
        PROVE  Untouched(k)'
    <2>1. j # k
      BY <1>1 DEF Runner, RunnerStarts, Claim, ClaimRefused, SendChunk, PostResult, RunnerDies
    <2> QED BY <1>1, <2>1 DEF Runner, RunnerStarts, Claim, ClaimRefused, SendChunk,
               PostResult, RunnerDies, Others, TypeOK
  <1>2. ASSUME NEW j \in Job, Complete(j)
        PROVE  Untouched(k)'
    <2>1. j # k
      BY <1>2 DEF Complete, CheckJob, StoreLog, RecordResult, ListJobs, SetRunStatus,
         FinishLive, Finishes, CompleteFails, Moves
    <2> QED BY SMTT(20), <1>2, <2>1 DEF Complete, CheckJob, StoreLog, RecordResult, ListJobs,
               SetRunStatus, FinishLive, CompleteFails, Moves, HandlerFrame, TypeOK
  <1>3. ASSUME NEW j \in Job, SweepMark(j)
        PROVE  Untouched(k)'
    BY <1>3 DEF SweepMark, SweepFrame, TypeOK
  <1>4. ASSUME NEW j \in Job, AppendChunk(j) \/ Age(j) \/ BufferIdles(j)
        PROVE  Untouched(k)'
    BY <1>4 DEF AppendChunk, Age, BufferIdles, HandlerFrame
  <1>5. ASSUME SweepStart \/ SweepList \/ SweepSetRun \/ SweepSkips \/ SweepFails \/ Replicate
        PROVE  Untouched(k)'
    BY <1>5 DEF SweepStart, SweepList, SweepSetRun, SweepSkips, SweepFails, Replicate, SweepFrame
  <1> QED BY <1>1, <1>2, <1>3, <1>4, <1>5 DEF Other

LEMMA OverStays ==
  ASSUME TypeOK, DispatchInv, AheadInv, [Next]_vars, crashes' = crashes,
         NEW k \in Job, Over(job[k])
  PROVE  Over(job[k])'
  <1> USE DEF Over, Terminal, rows
  <1>1. CASE UNCHANGED job
    BY <1>1
  <1>2. CASE CreateJob
    <2>1. dispatch.file \in Job /\ job[dispatch.file] = "none"
      BY <1>2 DEF CreateJob, DispatchInv, AheadInv, Untouched, Job
    <2>2. k # dispatch.file
      BY <2>1 DEF Result
    <2> QED BY <1>2, <2>2 DEF CreateJob, TypeOK
  <1>3. CASE MarkJobError
    BY <1>3 DEF MarkJobError, TypeOK, Result
  <1>4. ASSUME NEW j \in Job, Claim(j)
        PROVE  Over(job[k])'
    BY <1>4 DEF Claim, Claimable, TypeOK, Result
  <1>5. ASSUME NEW j \in Job, RecordResult(j)
        PROVE  Over(job[k])'
    <2>1. complete[j].result \in Result
      BY TypeShape DEF HandlerType
    <2> QED BY <1>5, <2>1 DEF RecordResult, TypeOK
  <1>6. ASSUME NEW j \in Job, SweepMark(j)
        PROVE  Over(job[k])'
    BY <1>6 DEF SweepMark, TypeOK, Result
  <1>7. CASE Crash
    BY <1>7 DEF Crash, TypeOK
  <1> QED
    <2>1. CASE Dispatch
      BY <1>1, <1>2, <1>3, <2>1 DEF Dispatch, CreateRun, CreateErrorRun, SkipFile,
         TriggerReturns, EndDispatch
    <2>2. ASSUME NEW j \in Job, Runner(j)
          PROVE  Over(job[k])'
      BY <1>1, <1>4, <2>2 DEF Runner, RunnerStarts, ClaimRefused, SendChunk, PostResult,
         RunnerDies
    <2>3. ASSUME NEW j \in Job, Complete(j)
          PROVE  Over(job[k])'
      BY <1>1, <1>5, <2>3 DEF Complete, CheckJob, StoreLog, ListJobs, SetRunStatus,
         FinishLive, CompleteFails
    <2>4. CASE Other
      BY <1>1, <1>6, <2>4 DEF Other, AppendChunk, Age, BufferIdles, SweepStart, SweepList,
         SweepSetRun, SweepSkips, SweepFails, Replicate
    <2> QED BY <1>1, <1>7, <2>1, <2>2, <2>3, <2>4 DEF Next, Other, vars

-----------------------------------------------------------------------------
(* The inductive invariant                                                 *)

LEMMA AheadDispatch ==
  ASSUME TypeOK, DispatchInv, AheadInv, Dispatch
  PROVE  AheadInv'
  <1> SUFFICES ASSUME NEW k \in Job
               PROVE  /\ dispatch'.at = "idle" => Untouched(k)'
                      /\ dispatch'.at = "file" /\ k >= dispatch'.file => Untouched(k)'
                      /\ dispatch'.at \in {"triggering", "marking"} /\ k > dispatch'.file
                           => Untouched(k)'
    BY DEF AheadInv
  <1> USE DEF Untouched, rows, Others
  <1>0. dispatch \in DispatchType
    BY TypeShape
  <1>1. CASE CreateRun \/ CreateErrorRun
    BY <1>0, <1>1 DEF CreateRun, CreateErrorRun, AheadInv, DispatchType
  <1>2. CASE SkipFile \/ MarkJobError
    <2>1. dispatch.file \in Job /\ dispatch' = NextFile
      BY <1>2 DEF SkipFile, MarkJobError, DispatchInv
    <2>2. k > dispatch.file => Untouched(k)
      BY <1>2, <2>1 DEF SkipFile, MarkJobError, AheadInv, Job
    <2>3. k > dispatch.file => Untouched(k)'
      <3>1. CASE SkipFile
        BY <2>2, <3>1 DEF SkipFile
      <3>2. CASE MarkJobError
        <4>1. k > dispatch.file => k # dispatch.file
          BY <2>1 DEF Job
        <4> QED BY <2>2, <3>2, <4>1 DEF MarkJobError, TypeOK
      <3> QED BY <1>2, <3>1, <3>2
    <2> QED BY <2>1, <2>3, NextFileType DEF Job
  <1>3. CASE CreateJob
    <2>1. dispatch.file \in Job /\ dispatch'.at = "triggering" /\ dispatch'.file = dispatch.file
      BY <1>0, <1>3 DEF CreateJob, DispatchInv, DispatchType
    <2>2. k > dispatch.file => Untouched(k)
      BY <1>3, <2>1 DEF CreateJob, AheadInv, Job
    <2>3. k > dispatch.file => Untouched(k)'
      BY <1>3, <2>1, <2>2 DEF CreateJob, TypeOK, Job
    <2> QED BY <2>1, <2>3
  <1>4. CASE TriggerReturns
    <2>1. dispatch.file \in Job
      BY <1>4 DEF TriggerReturns, DispatchInv
    <2>2. k > dispatch.file => Untouched(k)
      BY <1>4, <2>1 DEF TriggerReturns, AheadInv
    <2>3. k > dispatch.file => Untouched(k)'
      BY <1>4, <2>2 DEF TriggerReturns
    <2>4. CASE dispatch' = NextFile
      BY <2>1, <2>3, <2>4, NextFileType DEF Job
    <2>5. CASE dispatch' = [dispatch EXCEPT !.at = "marking", !.errors = dispatch.errors + 1]
      <3>1. dispatch'.at = "marking" /\ dispatch'.file = dispatch.file
        BY <1>0, <2>5 DEF DispatchType
      <3> QED BY <2>3, <3>1
    <2> QED BY <1>4, <2>4, <2>5 DEF TriggerReturns
  <1>5. CASE EndDispatch
    BY <1>0, <1>5 DEF EndDispatch, DispatchType
  <1> QED BY <1>1, <1>2, <1>3, <1>4, <1>5 DEF Dispatch

LEMMA AheadStep == TypeOK /\ DispatchInv /\ AheadInv /\ [Next]_vars => AheadInv'
  <1> SUFFICES ASSUME TypeOK, DispatchInv, AheadInv, [Next]_vars PROVE AheadInv'
    OBVIOUS
  <1>1. CASE Other \/ \E j \in Job : Runner(j) \/ Complete(j)
    <2>1. dispatch' = dispatch
      BY <1>1, RunnerTypes, HandlerTypes, OtherTypes
    <2> QED BY <1>1, <2>1, UntouchedStays DEF AheadInv
  <1>2. CASE Crash
    <2>1. dispatch'.at = "done"
      BY <1>2, TypeShape DEF Crash, DispatchType
    <2> QED BY <2>1 DEF AheadInv
  <1>3. CASE UNCHANGED vars
    BY <1>3 DEF vars, AheadInv, Untouched
  <1> QED BY <1>1, <1>2, <1>3, AheadDispatch DEF Next, Other

-----------------------------------------------------------------------------
(* Completions, logs and live tails                                        *)

\* The jobs whose log is in S3 are never fewer, and one handler moves at a time.
LEMMA HandlerStep ==
  ASSUME TypeOK, DispatchInv, AheadInv, HandlerInv, [Next]_vars
  PROVE  HandlerInv' /\ logs \subseteq logs'
  <1> USE DEF rows, memory
  <1>1. ASSUME UNCHANGED complete, logs \subseteq logs', crashes' = crashes
        PROVE  HandlerInv'
    BY <1>1, OverStays DEF HandlerInv
  <1>2. CASE Dispatch
    <2>1. UNCHANGED <<complete, logs, crashes>>
      BY <1>2 DEF Dispatch, CreateRun, CreateErrorRun, SkipFile, CreateJob, TriggerReturns,
         MarkJobError, EndDispatch, Others
    <2> QED BY <1>1, <2>1
  <1>3. ASSUME NEW j \in Job, Runner(j)
        PROVE  HandlerInv' /\ logs \subseteq logs'
    <2>1. logs' = logs /\ crashes' = crashes
      BY <1>3 DEF Runner, RunnerStarts, Claim, ClaimRefused, SendChunk, PostResult,
         RunnerDies, Others
    <2>2. CASE UNCHANGED complete
      BY <1>1, <2>1, <2>2
    <2>3. CASE PostResult(j)
      <3>1. complete'[j].at = "received" /\ \A k \in Job : k # j => complete'[k] = complete[k]
        BY <2>3 DEF PostResult, TypeOK
      <3> QED BY <2>1, <3>1, OverStays DEF HandlerInv
    <2> QED BY <1>3, <2>2, <2>3 DEF Runner, RunnerStarts, Claim, ClaimRefused, SendChunk,
               RunnerDies, Others
  <1>4. ASSUME NEW j \in Job, Complete(j)
        PROVE  HandlerInv' /\ logs \subseteq logs'
    <2>1. crashes' = crashes /\ \A k \in Job : k # j => complete'[k] = complete[k]
      BY <1>4 DEF Complete, CheckJob, StoreLog, RecordResult, ListJobs, SetRunStatus,
         FinishLive, CompleteFails, Moves, HandlerFrame, TypeOK
    <2>2. logs \subseteq logs'
      BY <1>4 DEF Complete, CheckJob, StoreLog, RecordResult, ListJobs, SetRunStatus,
         FinishLive, CompleteFails
    <2>3. Over(job[j]) => Over(job[j])'
      BY <2>1, OverStays
    <2>4. complete'[j].at = "stored" => j \in logs'
      BY <1>4 DEF Complete, CheckJob, StoreLog, RecordResult, ListJobs, SetRunStatus,
         FinishLive, CompleteFails, Moves, NoHandler, TypeOK
    <2>5. complete'[j].at \in {"recorded", "listed", "finishing"} => Over(job[j])'
      <3>1. CASE RecordResult(j)
        BY <3>1, TypeShape DEF RecordResult, HandlerType, Over, Terminal, TypeOK
      <3>2. CASE ListJobs(j) \/ SetRunStatus(j) \/ CompleteFails(j)
        BY <2>3, <3>2 DEF ListJobs, SetRunStatus, CompleteFails, Moves, NoHandler, HandlerInv,
           TypeOK
      <3>3. CASE CheckJob(j) \/ StoreLog(j) \/ FinishLive(j)
        BY <3>3 DEF CheckJob, StoreLog, FinishLive, Moves, NoHandler, TypeOK
      <3> QED BY <1>4, <3>1, <3>2, <3>3 DEF Complete
    <2> QED BY <2>1, <2>2, <2>4, <2>5, OverStays DEF HandlerInv
  <1>5. CASE Other
    <2>1. UNCHANGED <<complete, logs, crashes>>
      BY <1>5 DEF Other, AppendChunk, Age, BufferIdles, SweepMark, SweepStart, SweepList,
         SweepSetRun, SweepSkips, SweepFails, Replicate, SweepFrame, HandlerFrame
    <2> QED BY <1>1, <2>1
  <1>6. CASE Crash
    BY <1>6 DEF Crash, NoHandler, HandlerInv
  <1>7. CASE UNCHANGED vars
    BY <1>1, <1>7 DEF vars
  <1> QED BY <1>2, <1>3, <1>4, <1>5, <1>6, <1>7 DEF Next, Other

LEMMA LogStep ==
  ASSUME TypeOK, DispatchInv, AheadInv, HandlerInv, LogBeforePointer, [Next]_vars
  PROVE  LogBeforePointer'
  <1> USE HandlerStep DEF LogBeforePointer, rows, memory
  <1>1. CASE UNCHANGED <<logKey, replica>>
    BY <1>1
  <1>2. ASSUME NEW j \in Job, RecordResult(j)
        PROVE  LogBeforePointer'
    <2>1. j \in logs
      BY <1>2 DEF RecordResult, Moves, HandlerInv
    <2> QED BY <1>2, <2>1 DEF RecordResult, HandlerFrame
  <1>3. CASE Replicate
    BY <1>3 DEF Replicate
  <1>4. CASE Crash
    BY <1>4 DEF Crash
  <1> QED
    <2>1. CASE Dispatch
      BY <1>1, <2>1 DEF Dispatch, CreateRun, CreateErrorRun, SkipFile, CreateJob,
         TriggerReturns, MarkJobError, EndDispatch, Others
    <2>2. ASSUME NEW j \in Job, Runner(j)
          PROVE  LogBeforePointer'
      BY <1>1, <2>2 DEF Runner, RunnerStarts, Claim, ClaimRefused, SendChunk, PostResult,
         RunnerDies, Others
    <2>3. ASSUME NEW j \in Job, Complete(j)
          PROVE  LogBeforePointer'
      BY <1>1, <1>2, <2>3 DEF Complete, CheckJob, StoreLog, ListJobs, SetRunStatus,
         FinishLive, CompleteFails, HandlerFrame
    <2>4. CASE Other
      BY <1>1, <1>3, <2>4 DEF Other, AppendChunk, Age, BufferIdles, SweepMark, SweepStart,
         SweepList, SweepSetRun, SweepSkips, SweepFails, SweepFrame, HandlerFrame
    <2> QED BY <1>1, <1>4, <2>1, <2>2, <2>3, <2>4 DEF Next, Other, vars

LEMMA TailStep ==
  ASSUME TypeOK, DispatchInv, AheadInv, HandlerInv, DoneTailIsOver, [Next]_vars
  PROVE  DoneTailIsOver'
  <1> USE DEF rows, memory
  <1>1. ASSUME crashes' = crashes, \A k \in Job : live'[k] = "done" => live[k] = "done"
        PROVE  DoneTailIsOver'
    BY <1>1, OverStays DEF DoneTailIsOver
  <1>2. CASE Dispatch
    BY <1>1, <1>2 DEF Dispatch, CreateRun, CreateErrorRun, SkipFile, CreateJob,
       TriggerReturns, MarkJobError, EndDispatch, Others
  <1>3. ASSUME NEW j \in Job, Runner(j)
        PROVE  DoneTailIsOver'
    BY <1>1, <1>3 DEF Runner, RunnerStarts, Claim, ClaimRefused, SendChunk, PostResult,
       RunnerDies, Others
  <1>4. ASSUME NEW j \in Job, FinishLive(j)
        PROVE  DoneTailIsOver'
    <2>1. crashes' = crashes /\ Over(job[j])
      BY <1>4 DEF FinishLive, Finishes, HandlerFrame, HandlerInv
    <2>2. \A k \in Job : live'[k] = "done" => k = j \/ live[k] = "done"
      BY <1>4 DEF FinishLive, TypeOK
    <2> QED BY <2>1, <2>2, OverStays DEF DoneTailIsOver
  <1>5. ASSUME NEW j \in Job, Complete(j), ~FinishLive(j)
        PROVE  DoneTailIsOver'
    BY <1>1, <1>5 DEF Complete, CheckJob, StoreLog, RecordResult, ListJobs, SetRunStatus,
       CompleteFails, HandlerFrame
  <1>6. CASE Other
    <2>1. crashes' = crashes
      BY <1>6 DEF Other, AppendChunk, Age, BufferIdles, SweepMark, SweepStart, SweepList,
         SweepSetRun, SweepSkips, SweepFails, Replicate, SweepFrame, HandlerFrame
    <2>2. ASSUME NEW j \in Job, AppendChunk(j)
          PROVE  \A k \in Job : live'[k] = "done" => live[k] = "done"
      BY <2>2 DEF AppendChunk, TypeOK
    <2>3. ASSUME SweepStart
          PROVE  \A k \in Job : live'[k] = "done" => live[k] = "done"
      BY <2>3 DEF SweepStart, TypeOK
    <2>4. \/ UNCHANGED live
          \/ SweepStart
          \/ \E j \in Job : AppendChunk(j)
      BY <1>6 DEF Other, Age, BufferIdles, SweepMark, SweepList, SweepSetRun, SweepSkips,
         SweepFails, Replicate, SweepFrame, HandlerFrame
    <2> QED BY <1>1, <2>1, <2>2, <2>3, <2>4
  <1>7. CASE Crash
    BY <1>7 DEF Crash, DoneTailIsOver
  <1>8. CASE UNCHANGED vars
    BY <1>1, <1>8 DEF vars
  <1> QED BY <1>2, <1>3, <1>4, <1>5, <1>6, <1>7, <1>8 DEF Next, Other

LEMMA IInvHolds == Spec => []IInv
  <1>1. IInv /\ [Next]_vars => IInv'
    BY TypeStep, AheadStep, HandlerStep, LogStep, TailStep DEF IInv
  <1> QED BY InitOK, <1>1, PTL DEF Spec

(***************************************************************************)
(* No row, live or replicated, points to a log that is not in S3, whatever *)
(* handlers, sweeps, failures and crashes come between.                    *)
(***************************************************************************)
THEOREM LogsAreDurable == Spec => []LogBeforePointer
  <1>1. IInv => LogBeforePointer
    BY DEF IInv
  <1> QED BY IInvHolds, <1>1, PTL

(***************************************************************************)
(* A live tail says "done" only of a job that is over.                     *)
(***************************************************************************)
THEOREM DoneTailsAreOver == Spec => []DoneTailIsOver
  <1>1. IInv => DoneTailIsOver
    BY DEF IInv
  <1> QED BY IInvHolds, <1>1, PTL

(***************************************************************************)
(* Between crashes, a job that is over stays over.                         *)
(***************************************************************************)
THEOREM JobsStayOver == Spec => OverForGood
  <1>1. IInv /\ [Next]_vars =>
          [\A j \in Job : crashes' = crashes /\ Over(job[j]) => Over(job'[j])]_vars
    BY OverStays DEF IInv, Over
  <1> QED BY IInvHolds, <1>1, PTL DEF Spec, OverForGood

=============================================================================
