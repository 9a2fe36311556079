------------------------------- MODULE CiRuns -------------------------------
(***************************************************************************)
(* One CI run of gitmote, from the push that dispatches it to the status   *)
(* the UI shows (src/internal/ci, src/internal/meta/ci.go, the runner in   *)
(* src/internal/runner).                                                   *)
(*                                                                         *)
(* The dispatcher creates the run and, file by file, a job row and a       *)
(* runner for it.  A runner claims its job, streams its output and posts   *)
(* its result once; it retries nothing.  The leader's handlers and its     *)
(* reconcile tick read and write the rows one statement at a time, with no *)
(* transaction and no lock around a check and the write that follows it.   *)
(* Rows are replicated to S3 asynchronously, blobs go there directly, the  *)
(* live log buffers are in memory only.                                    *)
(*                                                                         *)
(* A job is named by the number of its workflow file.                      *)
(***************************************************************************)
EXTENDS Naturals

CONSTANTS Files,      \* the number of workflow files the push selects
          Malformed,  \* those that do not parse
          Results,    \* the results runners may post
          MayFail,    \* whether triggers and calls to the DB and S3 may fail
          MaxCrashes  \* bound: server crashes

ASSUME CiAssumption ==
    /\ Files \in Nat
    /\ Malformed \subseteq 1..Files
    /\ Results \subseteq {"passed", "failed", "error"}
    /\ MayFail \in BOOLEAN
    /\ MaxCrashes \in Nat

Job == 1..Files

VARIABLES
    run,       \* ci_runs.status, "none" when there is no row
    job,       \* job[j]: ci_jobs.status, "none" when there is no row
    logKey,    \* the jobs whose row has a log_key
    replica,   \* run, job and logKey as S3 has them
    logs,      \* the jobs whose log blob is in S3
    dispatch,  \* the dispatcher: its stage, its file, jobs and trigger errors
    runner,    \* runner[j]: where the runner of j is
    complete,  \* complete[j]: the handler of j's completion
    sweep,     \* the reconcile tick: its stage and the jobs left to do
    live,      \* live[j]: the live log buffer of j
    chunks,    \* the jobs with a log chunk on its way to the server
    idle,      \* the jobs whose buffer was not touched for liveLogTTL
    old,       \* the jobs whose row was claimed more than maxAge ago
    crashes    \* number of crashes so far

rows    == <<run, job, logKey>>
memory  == <<live, idle>>
vars    == <<run, job, logKey, replica, logs, dispatch, runner, complete, sweep,
             live, chunks, idle, old, crashes>>

Result   == {"passed", "failed", "error"}
Status   == Result \union {"queued", "running"}
Terminal == Result
Over(s)  == s \in Terminal

\* rollup: running while a job is not terminal, else the worst outcome.
RollupOf(J) ==
    LET seen == {J[j] : j \in Job} \ {"none"}
    IN  CASE ~(seen \subseteq Terminal) -> "running"
          [] "error" \in seen           -> "error"
          [] "failed" \in seen          -> "failed"
          [] OTHER                      -> "passed"

NoHandler == [at |-> "none", result |-> "error", rollup |-> "running"]
NoSweep   == [at |-> "idle", left |-> {}, stuck |-> {}, rollup |-> "running"]

Init ==
    /\ run = "none"
    /\ job = [j \in Job |-> "none"]
    /\ logKey = {}
    /\ replica = [run |-> run, job |-> job, logKey |-> logKey]
    /\ logs = {}
    /\ dispatch = [at |-> "idle", file |-> 1, jobs |-> 0, errors |-> 0]
    /\ runner = [j \in Job |-> "none"]
    /\ complete = [j \in Job |-> NoHandler]
    /\ sweep = NoSweep
    /\ live = [j \in Job |-> "none"]
    /\ chunks = {}
    /\ idle = {}
    /\ old = {}
    /\ crashes = 0

-----------------------------------------------------------------------------
(* The dispatcher, in the after-commit hook of the push *)

Others == <<replica, logs, complete, sweep, memory, chunks, old, crashes>>

\* The file after the current one, or the end.
NextFileTooFar == IF dispatch.file > Files THEN [dispatch EXCEPT !.at = "ending"]  \* a mutant
                  ELSE [dispatch EXCEPT !.at = "file", !.file = @ + 1]
NextFile == IF dispatch.file = Files THEN [dispatch EXCEPT !.at = "ending"]
            ELSE [dispatch EXCEPT !.at = "file", !.file = @ + 1]

\* recordRun: CreateRun.
CreateRun ==
    /\ dispatch.at = "idle"
    /\ Files > 0
    /\ run' = "queued"
    /\ dispatch' = [dispatch EXCEPT !.at = "file"]
    /\ UNCHANGED <<job, logKey, runner, Others>>

\* recordErrorRun: the commit or its workflows cannot be read.
CreateErrorRun ==
    /\ dispatch.at = "idle"
    /\ MayFail
    /\ run' = "queued"
    /\ dispatch' = [dispatch EXCEPT !.at = "erroring"]
    /\ UNCHANGED <<job, logKey, runner, Others>>

\* A file that does not parse gets no job, nor does one whose CreateJob fails.
SkipFile ==
    /\ dispatch.at = "file"
    /\ dispatch.file \in Malformed \/ MayFail
    /\ dispatch' = NextFile
    /\ UNCHANGED <<rows, runner, Others>>

\* CreateJob; the call that triggers the job's runner is under way.
CreateJob ==
    /\ dispatch.at = "file"
    /\ dispatch.file \notin Malformed
    /\ job' = [job EXCEPT ![dispatch.file] = "queued"]
    /\ runner' = [runner EXCEPT ![dispatch.file] = "triggered"]
    /\ dispatch' = [dispatch EXCEPT !.at = "triggering", !.jobs = @ + 1]
    /\ UNCHANGED <<run, logKey, Others>>

\* Trigger returns: whether it says so or not, the runner may start, now, later
\* or never.
TriggerReturns ==
    /\ dispatch.at = "triggering"
    /\ \/ dispatch' = NextFile
       \/ MayFail /\ dispatch' = [dispatch EXCEPT !.at = "marking", !.errors = @ + 1]
    /\ UNCHANGED <<rows, runner, Others>>

\* SetJobStatus(error), whatever the status is by now, after a trigger error; if
\* it fails the job stays as it is.
MarkJobError ==
    /\ dispatch.at = "marking"
    /\ \/ job' = [job EXCEPT ![dispatch.file] = "error"]
       \/ MayFail /\ job' = job
    /\ dispatch' = NextFile
    /\ UNCHANGED <<run, logKey, runner, Others>>

\* The end of recordRun, or of recordErrorRun.  A setRunStatus that fails is
\* logged and passed over.
EndDispatch ==
    /\ dispatch.at \in {"ending", "erroring"}
    /\ \/ run' = CASE dispatch.at = "erroring" -> "error"
                   [] dispatch.at = "ending" /\ Malformed # {} -> "failed"
                   [] dispatch.at = "ending" /\ Malformed = {} ->
                        IF dispatch.jobs > 0 /\ dispatch.errors = dispatch.jobs
                        THEN "error" ELSE run
       \/ MayFail /\ run' = run
    /\ dispatch' = [dispatch EXCEPT !.at = "done"]
    /\ UNCHANGED <<job, logKey, runner, Others>>

-----------------------------------------------------------------------------
(* The runner, and the handler of its claim *)

RunnerStarts(j) ==
    /\ runner[j] = "triggered"
    /\ runner' = [runner EXCEPT ![j] = "started"]
    /\ UNCHANGED <<rows, dispatch, Others>>

\* ClaimJob takes the row from queued to running.
ClaimableAnyStatus(j) == job[j] # "none"                        \* a mutant
Claimable(j) == job[j] = "queued"

\* The answer arrives, or is lost: then the runner's HTTP client asks again or
\* the runner gives up.
Claim(j) ==
    /\ runner[j] = "started"
    /\ Claimable(j)
    /\ job' = [job EXCEPT ![j] = "running"]
    /\ old' = old \ {j}
    /\ \E s \in {"working", "started", "exited"} : runner' = [runner EXCEPT ![j] = s]
    /\ UNCHANGED <<run, logKey, replica, logs, dispatch, complete, sweep, memory,
                   chunks, crashes>>

\* The job is not claimable: there is nothing to do.
ClaimRefused(j) ==
    /\ runner[j] = "started"
    /\ ~Claimable(j)
    /\ runner' = [runner EXCEPT ![j] = "exited"]
    /\ UNCHANGED <<rows, dispatch, Others>>

\* The engine produced output: the streamer posts it, best-effort.
SendChunk(j) ==
    /\ runner[j] = "working"
    /\ j \notin chunks
    /\ chunks' = chunks \union {j}
    /\ UNCHANGED <<rows, replica, logs, dispatch, runner, complete, sweep, memory, old, crashes>>

\* The runner posts its result and log.
PostResult(j) ==
    /\ runner[j] = "working"
    /\ \E s \in Results : complete' = [complete EXCEPT ![j] =
                           [at |-> "received", result |-> s, rollup |-> "running"]]
    /\ runner' = [runner EXCEPT ![j] = "exited"]
    /\ UNCHANGED <<rows, replica, logs, dispatch, sweep, memory, chunks, old, crashes>>

\* The runner dies, or its claim or its result never reaches a leader.
RunnerDies(j) ==
    /\ runner[j] \in {"started", "working"}
    /\ runner' = [runner EXCEPT ![j] = "exited"]
    /\ UNCHANGED <<rows, dispatch, Others>>

-----------------------------------------------------------------------------
(* handleLogChunk and handleComplete *)

\* LiveLogs.Append; a buffer that is done stays so.
AppendChunk(j) ==
    /\ j \in chunks
    /\ chunks' = chunks \ {j}
    /\ live' = [live EXCEPT ![j] = IF @ = "none" THEN "open" ELSE @]
    /\ idle' = idle \ {j}
    /\ UNCHANGED <<rows, replica, logs, dispatch, runner, complete, sweep, old, crashes>>

Moves(j, from, to) == complete[j].at = from /\ complete' = [complete EXCEPT ![j].at = to]
HandlerFrame == <<replica, dispatch, runner, sweep, chunks, old, crashes>>

\* GetJob: nothing to do for a job that is absent or terminal.
CheckJob(j) ==
    /\ Moves(j, "received", IF job[j] = "none" \/ Over(job[j]) THEN "none" ELSE "checked")
    /\ UNCHANGED <<rows, logs, memory, HandlerFrame>>

\* storeLog: the blob goes to S3.
StoreLogForgotten(j) ==                                         \* a mutant
    /\ Moves(j, "checked", "stored")
    /\ UNCHANGED <<rows, logs, memory, HandlerFrame>>
StoreLog(j) ==
    /\ Moves(j, "checked", "stored")
    /\ logs' = logs \union {j}
    /\ UNCHANGED <<rows, memory, HandlerFrame>>

\* SetJobResult: status and log_key, whatever the status is by now.
RecordResult(j) ==
    /\ Moves(j, "stored", "recorded")
    /\ job' = [job EXCEPT ![j] = complete[j].result]
    /\ logKey' = logKey \union {j}
    /\ UNCHANGED <<run, logs, memory, HandlerFrame>>

\* rollupRun reads the jobs, then sets the run's status.
ListJobs(j) ==
    /\ complete[j].at = "recorded"
    /\ complete' = [complete EXCEPT ![j].at = "listed", ![j].rollup = RollupOf(job)]
    /\ UNCHANGED <<rows, logs, memory, HandlerFrame>>

SetRunStatus(j) ==
    /\ Moves(j, "listed", "finishing")
    /\ run' = complete[j].rollup
    /\ UNCHANGED <<job, logKey, logs, memory, HandlerFrame>>

\* LiveLogs.Finish, and the answer.
FinishesEarly(j) == complete[j].at \in {"stored", "finishing"}  \* a mutant
Finishes(j) == complete[j].at = "finishing"
FinishLive(j) ==
    /\ Finishes(j)
    /\ complete' = [complete EXCEPT ![j] = NoHandler]
    /\ live' = [live EXCEPT ![j] = IF @ = "none" THEN "none" ELSE "done"]
    /\ idle' = idle \ {j}
    /\ UNCHANGED <<rows, logs, HandlerFrame>>

\* A call fails: before the result is recorded the handler gives up, after it
\* only the rollup is skipped.
CompleteFails(j) ==
    /\ MayFail
    /\ \/ complete[j].at \in {"received", "checked", "stored"}
          /\ complete' = [complete EXCEPT ![j] = NoHandler]
       \/ complete[j].at \in {"recorded", "listed"}
          /\ complete' = [complete EXCEPT ![j].at = "finishing"]
    /\ UNCHANGED <<rows, logs, memory, HandlerFrame>>

-----------------------------------------------------------------------------
(* ReconcileStuck, on the leader's ticker *)

SweepFrame == <<replica, logs, dispatch, runner, complete, chunks, old, crashes>>

\* LiveLogs.Sweep drops every idle buffer.
ReclaimedDone == {j \in idle : live[j] = "done"}                \* a mutant
Reclaimed == idle

\* The tick: sweep the buffers, then read the running jobs that are old.
StuckUnclaimed == {j \in old : job[j] = "queued"}               \* a mutant
Stuck == {j \in old : job[j] = "running"}
SweepStart ==
    /\ sweep.at = "idle"
    /\ live' = [j \in Job |-> IF j \in Reclaimed THEN "none" ELSE live[j]]
    /\ idle' = idle \ Reclaimed
    /\ sweep' = IF Stuck = {} THEN NoSweep
                ELSE [at |-> "marking", left |-> Stuck, stuck |-> Stuck, rollup |-> "running"]
    /\ UNCHANGED <<rows, SweepFrame>>

\* One UPDATE for each of them, which hits only a row that is still running.
SweepMark(j) ==
    /\ sweep.at = "marking"
    /\ j \in sweep.left
    /\ job' = [job EXCEPT ![j] = IF @ = "running" THEN "error" ELSE @]
    /\ sweep' = IF sweep.left = {j}
                THEN [sweep EXCEPT !.at = "rolling", !.left = sweep.stuck]
                ELSE [sweep EXCEPT !.left = @ \ {j}]
    /\ UNCHANGED <<run, logKey, memory, SweepFrame>>

\* Then one rollup for each: list, set.
SweepList ==
    /\ sweep.at = "rolling"
    /\ sweep' = [sweep EXCEPT !.at = "listed", !.rollup = RollupOf(job)]
    /\ UNCHANGED <<rows, memory, SweepFrame>>

NextStuck(j) == IF sweep.left = {j} THEN NoSweep
                ELSE [sweep EXCEPT !.at = "rolling", !.left = @ \ {j}]

SweepSetRun ==
    /\ sweep.at = "listed"
    /\ run' = sweep.rollup
    /\ \E j \in sweep.left : sweep' = NextStuck(j)
    /\ UNCHANGED <<job, logKey, memory, SweepFrame>>

\* GetJob, ListJobs or SetRunStatus fails: this rollup is skipped.
SweepSkips ==
    /\ MayFail
    /\ sweep.at \in {"rolling", "listed"}
    /\ \E j \in sweep.left : sweep' = NextStuck(j)
    /\ UNCHANGED <<rows, memory, SweepFrame>>

\* An UPDATE fails: the tick is over, no run is rolled up.
SweepFails ==
    /\ MayFail
    /\ sweep.at = "marking"
    /\ sweep' = NoSweep
    /\ UNCHANGED <<rows, memory, SweepFrame>>

-----------------------------------------------------------------------------
(* Time and the environment *)

\* A running job has been running for maxAge.
Age(j) ==
    /\ job[j] = "running"
    /\ j \notin old
    /\ old' = old \union {j}
    /\ UNCHANGED <<rows, replica, logs, dispatch, runner, complete, sweep, memory, chunks, crashes>>

\* A buffer has not been touched for liveLogTTL.
BufferIdles(j) ==
    /\ live[j] # "none"
    /\ j \notin idle
    /\ idle' = idle \union {j}
    /\ UNCHANGED <<rows, live, HandlerFrame, logs, complete>>

\* litestream ships the WAL to S3; of no account after the last crash.
Replicate ==
    /\ crashes < MaxCrashes
    /\ replica' = [run |-> run, job |-> job, logKey |-> logKey]
    /\ replica' # replica
    /\ UNCHANGED <<rows, logs, dispatch, runner, complete, sweep, memory, chunks, old, crashes>>

\* The server dies; the next one restores the rows from S3.  Runners live on.
Crash ==
    /\ crashes < MaxCrashes
    /\ crashes' = crashes + 1
    /\ run' = replica.run
    /\ job' = replica.job
    /\ logKey' = replica.logKey
    /\ dispatch' = [dispatch EXCEPT !.at = "done"]
    /\ complete' = [j \in Job |-> NoHandler]
    /\ sweep' = NoSweep
    /\ live' = [j \in Job |-> "none"]
    /\ chunks' = {}
    /\ idle' = {}
    /\ UNCHANGED <<replica, logs, runner, old>>

-----------------------------------------------------------------------------
Dispatch == CreateRun \/ CreateErrorRun \/ SkipFile \/ CreateJob \/ TriggerReturns
              \/ MarkJobError \/ EndDispatch
Runner(j) == RunnerStarts(j) \/ Claim(j) \/ ClaimRefused(j) \/ SendChunk(j)
               \/ PostResult(j) \/ RunnerDies(j)
Complete(j) == CheckJob(j) \/ StoreLog(j) \/ RecordResult(j) \/ ListJobs(j)
                 \/ SetRunStatus(j) \/ FinishLive(j) \/ CompleteFails(j)

Next == \/ Dispatch
        \/ \E j \in Job : \/ Runner(j) \/ Complete(j) \/ AppendChunk(j)
                          \/ Age(j) \/ BufferIdles(j) \/ SweepMark(j)
        \/ SweepStart \/ SweepList \/ SweepSetRun \/ SweepSkips \/ SweepFails
        \/ Replicate \/ Crash

Spec == Init /\ [][Next]_vars

\* The ticker ticks, time passes, handlers run to their end; a DB that fails
\* now and then works now and then.  Nothing is assumed of runners, triggers,
\* clients or the network.
Fairness ==
    /\ WF_vars(SweepStart) /\ WF_vars(SweepList) /\ WF_vars(SweepSetRun)
    /\ \A j \in Job : /\ SF_vars(SweepMark(j)) /\ WF_vars(Complete(j))
                      /\ WF_vars(Age(j)) /\ WF_vars(BufferIdles(j))
FairSpec == Spec /\ Fairness
-----------------------------------------------------------------------------
(* Properties *)

TypeOK ==
    /\ run \in Status \union {"none"}
    /\ job \in [Job -> Status \union {"none"}]
    /\ logKey \subseteq Job
    /\ replica \in [run : Status \union {"none"}, job : [Job -> Status \union {"none"}],
                    logKey : SUBSET Job]
    /\ logs \subseteq Job
    /\ dispatch \in [at : {"idle", "file", "triggering", "marking", "ending",
                           "erroring", "done"},
                     file : Job \union {1}, jobs : 0..Files, errors : 0..Files]
    /\ runner \in [Job -> {"none", "triggered", "started", "working", "exited"}]
    /\ complete \in [Job -> [at : {"none", "received", "checked", "stored", "recorded",
                                   "listed", "finishing"},
                             result : Result, rollup : Status]]
    /\ sweep \in [at : {"idle", "marking", "rolling", "listed"}, left : SUBSET Job,
                  stuck : SUBSET Job, rollup : Status]
    /\ live \in [Job -> {"none", "open", "done"}]
    /\ chunks \subseteq Job
    /\ idle \subseteq Job
    /\ old \subseteq Job
    /\ crashes \in Nat

(***************************************************************************)
(* The log blob is durable before a row, live or replicated, points to it  *)
(* (handleComplete's content-before-pointer order).                        *)
(***************************************************************************)
LogBeforePointer == logKey \subseteq logs /\ replica.logKey \subseteq logs

(***************************************************************************)
(* A job that is over is over for good: no late trigger error, repeated    *)
(* claim, completion or sweep brings it back to queued or running.  Its    *)
(* value among the terminal ones may still change.  A crash may take back  *)
(* what was not replicated.                                                *)
(***************************************************************************)
OverForGood == [][\A j \in Job :
    crashes' = crashes /\ Over(job[j]) => Over(job'[j])]_vars

(***************************************************************************)
(* When the live tail of a job says it is done, the job is terminal: the   *)
(* log page reloads on "done" and must then find the durable log, not      *)
(* another live page (handleComplete's order, ciJobLogLive).               *)
(***************************************************************************)
DoneTailIsOver == \A j \in Job : live[j] = "done" => Over(job[j])

(***************************************************************************)
(* A claimed job does not stay running forever, whatever becomes of its    *)
(* runner, its claim's answer, its completion or the server (ci.md:154).   *)
(***************************************************************************)
ClaimedJobsEnd == \A j \in Job : job[j] = "running" ~> job[j] # "running"

(***************************************************************************)
(* The live buffer of a job whose runner is gone is reclaimed and does not *)
(* come back for good, although chunks may arrive after Finish and Sweep.  *)
(***************************************************************************)
BuffersReclaimed == \A j \in Job : runner[j] = "exited" ~> [](live[j] = "none")

(***************************************************************************)
(* Once the dispatcher is through and no handler or sweep is at work, the  *)
(* run's status is the rollup of its jobs (rollupRun's comment): running   *)
(* while a job is not over, else the worst outcome.                        *)
(***************************************************************************)
Quiet == /\ dispatch.at = "done"
         /\ sweep.at = "idle"
         /\ \A j \in Job : complete[j].at = "none"
RunMatchesJobs ==
    Quiet /\ logKey # {} /\ (\A j \in Job : Over(job[j])) => run = RollupOf(job)
=============================================================================
