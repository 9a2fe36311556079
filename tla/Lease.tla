------------------------------- MODULE Lease -------------------------------
(***************************************************************************)
(* How gitmote instances on one storage root take turns as the writer      *)
(* (src/cmd/gitmote/main.go).                                              *)
(*                                                                         *)
(* Every request but the probes holds the activity lock for reading, then  *)
(* passes the gate, which takes the lease on demand or answers 503.  A     *)
(* writer that was idle for a while takes the activity lock for writing    *)
(* and hands the lease back.  The reconcile tick goes through the same     *)
(* lock and gate.  A SIGTERM drains the requests and closes the database.  *)
(*                                                                         *)
(* A client request is named by the write it may make.                     *)
(***************************************************************************)
EXTENDS S3lite

CONSTANT Probed  \* the instances that health checks ask

ASSUME LeaseAssumption == Probed \subseteq Instance

VARIABLES
    life,     \* life[i]: the process
    req,      \* req[r]: where request r is, and at which instance
    base,     \* base[r]: the writes acknowledged before r was sent
    acked,    \* the writes acknowledged to clients
    recent,   \* the instances at which a request ended within idleYieldAfter
    yield,    \* yield[i]: where maybeYield is
    sweep,    \* sweep[i]: where reconcileOnce is
    probing   \* the instances answering a probe

Request == Write
loops   == <<yield, sweep>>
clients == <<req, base, acked, probing>>
vars == <<s3liteVars, life, clients, recent, loops>>

Inside == {"entered", "admitted", "written"}   \* holding the activity lock

Init ==
    /\ S3liteInit
    /\ life = [i \in Instance |-> "down"]
    /\ \E i \in Instance : req = [r \in Request |-> [at |-> "none", inst |-> i]]
    /\ base = [r \in Request |-> {}]
    /\ acked = {}
    /\ recent = {}
    /\ yield = [i \in Instance |-> "no"]
    /\ sweep = [i \in Instance |-> "no"]
    /\ probing = {}

\* Who holds the activity lock of i for reading.
ReadersButSweeps(i) ==                                          \* a mutant
    \E r \in Request : req[r].inst = i /\ req[r].at \in Inside
ReadersButRequests(i) == sweep[i] # "no"                        \* a mutant
Readers(i) == \/ \E r \in Request : req[r].inst = i /\ req[r].at \in Inside
              \/ sweep[i] # "no"
\* The yield holds it for writing.
Yielding(i) == yield[i] \in {"locked", "synced"}

\* The gate's answer without a promotion.
MayServeAnyRole(i) == role[i] # "closed"                        \* a mutant
MayServeDemoted(i) == role[i] \in {"leader", "demoted"}          \* a mutant
MayServe(i) == IsLeader(i)

\* TryPromote takes the lease, if the database is still open.
Promote(i) == role[i] # "closed" /\ Acquire(i)
-----------------------------------------------------------------------------
(* Requests: track, leaderGate, the handler *)

Moves(r, from, to) == req[r].at = from /\ req' = [req EXCEPT ![r].at = to]
RequestFrame == <<life, probing, loops>>

\* track's deferred function.
EndedAs(r) == recent' = recent \union {r}                       \* a mutant
Ended(r) == recent' = recent \union {req[r].inst}

Arrive(r, i) ==
    /\ req[r].at = "none"
    /\ life[i] = "up"
    /\ req' = [req EXCEPT ![r] = [at |-> "arrived", inst |-> i]]
    /\ base' = [base EXCEPT ![r] = acked]
    /\ UNCHANGED <<s3liteVars, acked, recent, RequestFrame>>

\* act.mu.RLock() returns.
Enter(r) ==
    /\ ~Yielding(req[r].inst)
    /\ Moves(r, "arrived", "entered")
    /\ UNCHANGED <<s3liteVars, base, acked, recent, RequestFrame>>

\* TryPromote: this instance is the writer, or becomes it.
GatePass(r) ==
    /\ Moves(r, "entered", "admitted")
    /\ \/ MayServe(req[r].inst) /\ UNCHANGED s3liteVars
       \/ ~IsLeader(req[r].inst) /\ Promote(req[r].inst)
    /\ UNCHANGED <<base, acked, recent, RequestFrame>>

\* The lease is held elsewhere, or TryPromote failed or took too long: 503 with
\* Retry-After, and the client sends the request again.
GateRefuse(r) ==
    /\ ~IsLeader(req[r].inst)
    /\ Moves(r, "entered", "arrived")
    /\ base' = [base EXCEPT ![r] = acked]
    /\ Ended(r)
    /\ UNCHANGED <<s3liteVars, acked, RequestFrame>>

\* The handler answers from the local database.
Read(r) ==
    /\ Moves(r, "admitted", "done")
    /\ Ended(r)
    /\ UNCHANGED <<s3liteVars, base, acked, RequestFrame>>

\* The handler's transaction commits; then it answers.
WriteDB(r) ==
    /\ Moves(r, "admitted", "written")
    /\ Commit(req[r].inst, r)
    /\ UNCHANGED <<base, acked, recent, RequestFrame>>

Acknowledge(r) ==
    /\ Moves(r, "written", "done")
    /\ acked' = acked \union {r}
    /\ Ended(r)
    /\ UNCHANGED <<s3liteVars, base, RequestFrame>>

\* The lease is gone and the transaction fails.
WriteFails(r) ==
    /\ ~IsLeader(req[r].inst)
    /\ Moves(r, "admitted", "none")
    /\ Ended(r)
    /\ UNCHANGED <<s3liteVars, base, acked, RequestFrame>>

\* A liveness probe or a static asset: neither tracked nor gated.
ProbeArrives(i) ==
    /\ i \in Probed
    /\ life[i] = "up"
    /\ i \notin probing
    /\ probing' = probing \union {i}
    /\ UNCHANGED <<s3liteVars, life, req, base, acked, recent, loops>>

ProbeTracked(i) ==                                              \* a mutant
    /\ i \in probing
    /\ probing' = probing \ {i}
    /\ recent' = recent \union {i}
    /\ UNCHANGED <<s3liteVars, life, req, base, acked, loops>>
ProbeAnswered(i) ==
    /\ i \in probing
    /\ probing' = probing \ {i}
    /\ UNCHANGED <<s3liteVars, life, req, base, acked, recent, loops>>
-----------------------------------------------------------------------------
(* yieldWhenIdle and maybeYield *)

YieldMoves(i, from, to) == yield[i] = from /\ yield' = [yield EXCEPT ![i] = to]
YieldFrame == <<life, clients, recent, sweep>>

\* No request has ended for idleYieldAfter.
Idle(i) ==
    /\ i \in recent
    /\ recent' = recent \ {i}
    /\ UNCHANGED <<s3liteVars, life, clients, loops>>

\* The tick: leader, idle, TryLock, and still idle.  Between the first look and
\* the lock the lease may lapse; YieldLease then finds none.
YieldLock(i) ==
    /\ life[i] = "up"
    /\ IsLeader(i)
    /\ ~Readers(i)
    /\ i \notin recent
    /\ YieldMoves(i, "no", "locked")
    /\ UNCHANGED <<s3liteVars, YieldFrame>>

\* YieldLease: the final sync, then the lock is given back.
YieldSync(i) ==
    /\ YieldMoves(i, "locked", "synced")
    /\ Sync(i)
    /\ UNCHANGED YieldFrame

YieldRelease(i) ==
    /\ YieldMoves(i, "synced", "no")
    /\ Release(i, "follower")
    /\ UNCHANGED YieldFrame

\* YieldLease finds no lease to yield, or it fails or runs out of time and the
\* lease is kept (Lapse is how it is dropped).
YieldFails(i) ==
    /\ Yielding(i)
    /\ yield' = [yield EXCEPT ![i] = "no"]
    /\ IF IsLeader(i) THEN Fault /\ UNCHANGED <<holder, role, db, s3, lost>>
       ELSE UNCHANGED s3liteVars
    /\ UNCHANGED YieldFrame
-----------------------------------------------------------------------------
(* reconcileLoop and reconcileOnce *)

SweepMoves(i, from, to) == sweep[i] = from /\ sweep' = [sweep EXCEPT ![i] = to]
SweepFrame == <<life, clients, recent, yield>>

\* The tick: act.mu.RLock().
SweepEnter(i) ==
    /\ life[i] = "up"
    /\ ~Yielding(i)
    /\ SweepMoves(i, "no", "entered")
    /\ UNCHANGED <<s3liteVars, SweepFrame>>

SweepGate(i) ==
    /\ \/ /\ SweepMoves(i, "entered", "sweeping")
          /\ IF IsLeader(i) THEN UNCHANGED s3liteVars ELSE Promote(i)
       \/ /\ SweepMoves(i, "entered", "no")
          /\ ~IsLeader(i)
          /\ UNCHANGED s3liteVars
    /\ UNCHANGED SweepFrame

SweepEnds(i) ==
    /\ SweepMoves(i, "sweeping", "no")
    /\ UNCHANGED <<s3liteVars, SweepFrame>>
-----------------------------------------------------------------------------
(* The process, and s3lite's own steps *)

\* meta.Open with RoleAuto, newLeaseActivity.
Boot(i) ==
    /\ life[i] = "down"
    /\ life' = [life EXCEPT ![i] = "up"]
    /\ Acquire(i) \/ OpenFollower(i)
    /\ recent' = recent \union {i}
    /\ UNCHANGED <<clients, loops>>

\* SIGTERM: the loops stop, srv.Shutdown waits for the requests.
Sigterm(i) ==
    /\ life[i] = "up"
    /\ life' = [life EXCEPT ![i] = "draining"]
    /\ UNCHANGED <<s3liteVars, clients, recent, loops>>

\* The process is gone; a request that wrote nothing may be sent again.
Exits(i) ==
    /\ life' = [life EXCEPT ![i] = "down"]
    /\ req' = [r \in Request |->
                 IF req[r].inst # i \/ req[r].at \in {"none", "done", "failed"} THEN req[r]
                 ELSE [req[r] EXCEPT !.at = IF @ = "written" THEN "failed" ELSE "none"]]
    /\ recent' = recent \ {i}
    /\ yield' = [yield EXCEPT ![i] = "no"]
    /\ sweep' = [sweep EXCEPT ![i] = "no"]
    /\ probing' = probing \ {i}
    /\ UNCHANGED <<base, acked>>

\* closeAll after Shutdown, whether that saw the last request end or ran out of
\* time: the yield loop is over, the requests that are left go on.  The writer ships
\* what it has, gives the lease back and closes the database.
FinalSync(i) ==
    /\ life[i] = "draining"
    /\ ~Yielding(i)
    /\ Sync(i)
    /\ life' = [life EXCEPT ![i] = "synced"]
    /\ UNCHANGED <<clients, recent, loops>>

\* The final sync may fail, or a request may commit after it.
Close(i) ==
    /\ life[i] \in {"draining", "synced"}
    /\ ~Yielding(i)
    /\ life' = [life EXCEPT ![i] = "closed"]
    /\ \/ life[i] = "synced" /\ s3 = db[i] /\ Release(i, "closed")
       \/ ~IsLeader(i) /\ CloseDB(i)
       \/ Drop(i, "closed")
    /\ UNCHANGED <<clients, recent, loops>>

\* run returns.
Exit(i) ==
    /\ life[i] = "closed"
    /\ Exits(i)
    /\ UNCHANGED s3liteVars

Crash(i) ==
    /\ life[i] # "down"
    /\ Drop(i, "closed")
    /\ Exits(i)

\* A renewal fails: OnDemote.
Lapse(i) ==
    /\ IsLeader(i)
    /\ Drop(i, "demoted")
    /\ UNCHANGED <<life, clients, recent, loops>>

Replicate(i) ==
    /\ s3 # db[i]
    /\ Sync(i)
    /\ UNCHANGED <<life, clients, recent, loops>>
-----------------------------------------------------------------------------
Serve(r) == Read(r) \/ WriteDB(r) \/ Acknowledge(r) \/ WriteFails(r)
Yield(i) == YieldLock(i) \/ YieldSync(i) \/ YieldRelease(i) \/ YieldFails(i)
Sweeps(i) == SweepGate(i) \/ SweepEnds(i)
Shuts(i) == FinalSync(i) \/ Close(i) \/ Exit(i)

Next ==
    \/ \E r \in Request : \/ \E i \in Instance : Arrive(r, i)
                          \/ Enter(r) \/ GatePass(r) \/ GateRefuse(r) \/ Serve(r)
    \/ \E i \in Instance :
          \/ ProbeArrives(i) \/ ProbeAnswered(i)
          \/ Idle(i) \/ Yield(i) \/ SweepEnter(i) \/ Sweeps(i)
          \/ Boot(i) \/ Sigterm(i) \/ Shuts(i) \/ Crash(i) \/ Lapse(i) \/ Replicate(i)

Spec == Init /\ [][Next]_vars

\* Goroutines run and time passes.  A promotion that fails now and then works
\* now and then.  A client that got a 503 asks again every two seconds or so,
\* and a sweep is short against the minutes between two ticks: so, again and
\* again, the client meets a lease and the yield an activity lock nobody holds.
Fairness ==
    /\ \A r \in Request : /\ SF_vars(LeaseFree /\ Enter(r)) /\ SF_vars(GatePass(r))
                         /\ WF_vars(Enter(r) \/ GateRefuse(r) \/ Serve(r))
    /\ \A i \in Instance : /\ SF_vars(Yield(i)) /\ WF_vars(Idle(i))
                           /\ WF_vars(Sweeps(i) \/ Shuts(i))
FairSpec == Spec /\ Fairness
-----------------------------------------------------------------------------
(* Properties *)

TypeOK ==
    /\ S3liteTypeOK
    /\ life \in [Instance -> {"down", "up", "draining", "synced", "closed"}]
    /\ req \in [Request -> [at : Inside \union {"none", "arrived", "done", "failed"},
                            inst : Instance]]
    /\ base \in [Request -> SUBSET Request]
    /\ acked \subseteq Request
    /\ recent \subseteq Instance
    /\ yield \in [Instance -> {"no", "locked", "synced"}]
    /\ sweep \in [Instance -> {"no", "entered", "sweeping"}]
    /\ probing \subseteq Instance

\* The activity lock: a yield excludes what it must not fence.
LockExcludes == \A i \in Instance : Readers(i) => ~Yielding(i)

\* A process that is down has no requests, sweeps or yields, nor an open database.
DownIsQuiet == \A i \in Instance :
    /\ life[i] \in {"down", "closed"} => role[i] = "closed"
    /\ life[i] = "down" =>
        /\ sweep[i] = "no" /\ yield[i] = "no"
        /\ \A r \in Request : req[r].inst = i => req[r].at \in {"none", "done", "failed"}

(***************************************************************************)
(* The yield never fences what is at work (main.go:308-313): a request     *)
(* that passed the gate, and a sweep, run on the writer until they end,    *)
(* unless its lease is lost to a failed renewal.                           *)
(***************************************************************************)
YieldFencesNothing ==
    /\ \A r \in Request : req[r].at \in {"admitted", "written"}
                            => role[req[r].inst] # "follower"
    /\ \A i \in Instance : sweep[i] = "sweeping" => role[i] # "follower"

\* The writer's database has all of the replica, and no more between the final
\* sync of a yield and the release.
ReplicaBehind == \A i \in Instance : IsLeader(i) =>
    /\ holder = i
    /\ s3 \subseteq db[i]
    /\ yield[i] = "synced" => s3 = db[i]

\* Where a committed write can be: in the replica, with the writer, or lost.
Committed == {r \in Request : r \in acked \/ req[r].at = "written"}
Accounted == Committed \subseteq s3 \union lost
               \union UNION {db[i] : i \in {j \in Instance : IsLeader(j)}}

\* What an admitted request is about to read.
AdmittedSees == \A r \in Request :
    /\ base[r] \subseteq acked
    /\ req[r].at = "admitted" => base[r] \ lost \subseteq db[req[r].inst]

(***************************************************************************)
(* The next writer sees every acknowledged write (meta.go:187, safety.md   *)
(* section 1): what a leader's database lacks was lost in a crash, with a  *)
(* lease, in a final sync that failed or after it, by a request that       *)
(* outlived Shutdown; never in a yield, a shutdown that waited for its     *)
(* requests, or a promotion.                                               *)
(***************************************************************************)
NextWriterSeesAcked ==
    \A i \in Instance : IsLeader(i) => acked \ lost \subseteq db[i]

(***************************************************************************)
(* No stale answers (newHandler's comment, safety.md section 1): a request *)
(* is answered from a database that has every write acknowledged before it *)
(* was sent, by whichever instance, unless that write was lost.            *)
(***************************************************************************)
ReadsAreCurrent == [][\A r \in Request :
    req[r].at = "admitted" /\ req'[r].at = "done"
      => base[r] \ lost \subseteq db[req[r].inst]]_vars

\* The inductive invariant behind the three properties above.
IInv == /\ TypeOK /\ LockExcludes /\ DownIsQuiet /\ YieldFencesNothing
        /\ ReplicaBehind /\ Accounted /\ AdmittedSees

(***************************************************************************)
(* Instances take turns (safety.md section 1): a request whose client      *)
(* keeps asking one instance is served, although another instance has the  *)
(* lease, sweeps, and answers probes all the time; or its instance goes.   *)
(***************************************************************************)
TurnsAreTaken == \A r \in Request :
    req[r].at = "arrived" ~> req[r].at \in {"done", "failed", "none"}

(***************************************************************************)
(* Clients see one database (safety.md section 1, OneDatabase): promotion, *)
(* yield, close and a lapse that requests do not notice never make two of  *)
(* it, and never bring back what a fault took away.                        *)
(***************************************************************************)
Data == IF \E i \in Instance : IsLeader(i) THEN db[holder] ELSE s3
Waiting == {"arrived", "entered"}
At(r) == CASE req[r].at = "none"    -> "idle"
           [] req[r].at = "written" -> "made"
           [] req[r].at = "done"    -> "answered"
           [] req[r].at = "failed"  -> "failed"
           [] OTHER                 -> "open"
View(r) == CASE req[r].at = "admitted" -> db[req[r].inst]
             [] req[r].at \in Waiting  -> Data
             [] OTHER                  -> {}
One == INSTANCE OneDatabase
       WITH data <- Data, durable <- s3, at <- [r \in Request |-> At(r)],
            view <- [r \in Request |-> View(r)]
ImplementsOneDatabase == One!Spec
=============================================================================
