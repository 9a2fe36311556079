-------------------------------- MODULE Boot --------------------------------
(***************************************************************************)
(* How instances come up on one storage root: buildGitHandler of           *)
(* src/cmd/gitmote/main.go with the first-admin bootstrap and the server   *)
(* secret (internal/bootstrap, internal/meta/secrets.go), and the          *)
(* bootstrap subcommand beside them.                                       *)
(*                                                                         *)
(* An instance opens the database as the writer or as a follower.  The     *)
(* writer of a root without an admin makes one, with a token that is       *)
(* printed once.  Then the instance needs the one secret that signs        *)
(* sessions: it reads it, creates it as the writer, or waits as a follower *)
(* for the secret or for the lease.  Then it serves, with the secret in    *)
(* memory, and takes and yields the lease as module Lease says.            *)
(***************************************************************************)
EXTENDS S3lite

CONSTANTS Key,           \* values of the server secret
          Admin,         \* admin rows
          Token          \* token rows

ASSUME BootAssumption ==
    /\ Write = Key \union Admin \union Token
    /\ Key \intersect Admin = {} /\ Key \intersect Token = {} /\ Admin \intersect Token = {}

VARIABLES
    pc,     \* pc[i]: where instance i is
    cli,    \* the instances that are runs of "gitmote bootstrap"
    key,    \* key[i]: the secret it holds in memory, as a set of at most one
    shown,  \* the tokens printed to the operator
    made    \* the values generated so far

vars == <<s3liteVars, pc, cli, key, shown, made>>

Waiting == {"await", "refreshed"}
Stage == Waiting \union {"down", "opened", "create", "mint", "insert", "reread", "up", "closing"}

Init ==
    /\ S3liteInit
    /\ pc = [i \in Instance |-> "down"]
    /\ cli = {}
    /\ key = [i \in Instance |-> {}]
    /\ shown = {}
    /\ made = {}

Goes(i, from, to) == pc[i] = from /\ pc' = [pc EXCEPT ![i] = to]

\* A random value.
Fresh(S) == CHOOSE v \in S \ made : TRUE
Commits(i, S) ==
    /\ S \ made # {}
    /\ Commit(i, Fresh(S))
    /\ made' = made \union {Fresh(S)}
-----------------------------------------------------------------------------
(* meta.Open, maybeAutoBootstrap, bootstrap.Run and Reissue *)

\* The subcommand opens as RoleWriter: it fails while the lease is held.
Open(i) ==
    /\ Goes(i, "down", "opened")
    /\ \/ (Acquire(i) \/ OpenFollower(i)) /\ UNCHANGED cli
       \/ Acquire(i) /\ cli' = cli \union {i}
    /\ UNCHANGED <<key, shown, made>>

\* What follows the bootstrap.
After(i) == IF i \in cli THEN "closing" ELSE "await"

HasAdminNever(i) == FALSE                                       \* a mutant
HasAdmin(i) == db[i] \intersect Admin # {}

\* The server bootstraps as the writer only.
Skips(i) ==
    /\ Goes(i, "opened", After(i))
    /\ HasAdmin(i) \/ (i \notin cli /\ ~IsLeader(i))
    /\ UNCHANGED <<s3liteVars, cli, key, shown, made>>

FindsNone(i) ==
    /\ Goes(i, "opened", "create")
    /\ i \in cli \/ IsLeader(i)
    /\ ~HasAdmin(i)
    /\ UNCHANGED <<s3liteVars, cli, key, shown, made>>

Reissue(i) ==
    /\ i \in cli
    /\ HasAdmin(i)
    /\ Goes(i, "opened", "mint")
    /\ UNCHANGED <<s3liteVars, cli, key, shown, made>>

CreateAdmin(i) ==
    /\ Goes(i, "create", "mint")
    /\ Commits(i, Admin)
    /\ UNCHANGED <<cli, key, shown>>

\* The token is stored, then printed.
MintToken(i) ==
    /\ Goes(i, "mint", After(i))
    /\ Commits(i, Token)
    /\ shown' = shown \union {Fresh(Token)}
    /\ UNCHANGED <<cli, key>>

\* A failed bootstrap is logged, and the server goes on.
BootstrapFailsLoudly(i) ==                                      \* a mutant
    /\ pc[i] \in {"opened", "create", "mint"}
    /\ pc' = [pc EXCEPT ![i] = After(i)]
    /\ shown' = shown \union {Fresh(Token)}
    /\ UNCHANGED <<s3liteVars, cli, key, made>>
BootstrapGoesOn(i) ==                                           \* a mutant
    /\ pc[i] \in {"opened", "create", "mint"}
    /\ pc' = [pc EXCEPT ![i] = IF @ = "create" THEN "mint" ELSE After(i)]
    /\ UNCHANGED <<s3liteVars, cli, key, shown, made>>
BootstrapFails(i) ==
    /\ pc[i] \in {"opened", "create", "mint"}
    /\ pc' = [pc EXCEPT ![i] = After(i)]
    /\ UNCHANGED <<s3liteVars, cli, key, shown, made>>
-----------------------------------------------------------------------------
(* GetOrCreateSecret, awaitSecret, getSecret *)

SecretAnyRow(i) == db[i]                                        \* a mutant
Secret(i) == db[i] \intersect Key

\* It is there: the instance serves.
Finds(i) ==
    /\ pc[i] \in Waiting
    /\ \E k \in Secret(i) : key' = [key EXCEPT ![i] = {k}]
    /\ pc' = [pc EXCEPT ![i] = "up"]
    /\ UNCHANGED <<s3liteVars, cli, shown, made>>

WriterFindsNone(i) ==
    /\ Goes(i, "await", "insert")
    /\ IsLeader(i)
    /\ Secret(i) = {}
    /\ UNCHANGED <<s3liteVars, cli, key, shown, made>>

FollowerRefreshes(i) ==
    /\ Goes(i, "await", "refreshed")
    /\ Secret(i) = {}
    /\ Refresh(i)
    /\ UNCHANGED <<cli, key, shown, made>>

\* TryPromote: the lease is free, or held, or not known to be free yet.
PromoteNever(i) ==                                              \* a mutant
    /\ Goes(i, "refreshed", "await")
    /\ Secret(i) = {}
    /\ UNCHANGED <<s3liteVars, cli, key, shown, made>>
Promote(i) ==
    /\ Goes(i, "refreshed", "await")
    /\ Secret(i) = {}
    /\ Acquire(i) \/ UNCHANGED s3liteVars
    /\ UNCHANGED <<cli, key, shown, made>>

\* INSERT ... ON CONFLICT DO NOTHING.
Insert(i) ==
    /\ Goes(i, "insert", "reread")
    /\ Commits(i, Key)
    /\ UNCHANGED <<cli, key, shown>>

Reread(i) ==
    /\ Goes(i, "reread", "up")
    /\ \E k \in Secret(i) : key' = [key EXCEPT ![i] = {k}]
    /\ UNCHANGED <<s3liteVars, cli, shown, made>>

\* A failing call, no writer to insert, or secretWaitTimeout: the boot fails.
SecretFailsToMemory(i) ==                                       \* a mutant
    /\ pc[i] \in Waiting \union {"insert", "reread"}
    /\ Key \ made # {}
    /\ pc' = [pc EXCEPT ![i] = "up"]
    /\ key' = [key EXCEPT ![i] = {Fresh(Key)}]
    /\ made' = made \union {Fresh(Key)}
    /\ UNCHANGED <<s3liteVars, cli, shown>>
SecretFails(i) ==
    /\ pc[i] \in Waiting \union {"insert", "reread"}
    /\ pc' = [pc EXCEPT ![i] = "closing"]
    /\ UNCHANGED <<s3liteVars, cli, key, shown, made>>
-----------------------------------------------------------------------------
(* Serving, stopping, and s3lite's own steps *)

\* The gate takes the lease for a request (module Lease).
Gate(i) ==
    /\ pc[i] = "up"
    /\ Acquire(i)
    /\ UNCHANGED <<pc, cli, key, shown, made>>

\* The idle writer yields, after a final sync (module Lease).
Yield(i) ==
    /\ pc[i] = "up"
    /\ s3 = db[i]
    /\ Release(i, "follower")
    /\ UNCHANGED <<pc, cli, key, shown, made>>

Stop(i) ==
    /\ Goes(i, "up", "closing")
    /\ UNCHANGED <<s3liteVars, cli, key, shown, made>>

\* The process ends, its memory with it.
Exits(i) ==
    /\ pc' = [pc EXCEPT ![i] = "down"]
    /\ cli' = cli \ {i}
    /\ key' = [key EXCEPT ![i] = {}]
    /\ UNCHANGED <<shown, made>>

\* The deferred md.Close; its final sync may fail.
Close(i) ==
    /\ pc[i] = "closing"
    /\ CloseDB(i) \/ Drop(i, "closed")
    /\ Exits(i)

Crash(i) ==
    /\ pc[i] # "down"
    /\ Drop(i, "closed")
    /\ Exits(i)

Lapse(i) ==
    /\ IsLeader(i)
    /\ Drop(i, "demoted")
    /\ UNCHANGED <<pc, cli, key, shown, made>>

Replicate(i) ==
    /\ s3 # db[i]
    /\ Sync(i)
    /\ UNCHANGED <<pc, cli, key, shown, made>>
-----------------------------------------------------------------------------
Bootstrap(i) == Skips(i) \/ FindsNone(i) \/ Reissue(i) \/ CreateAdmin(i) \/ MintToken(i)
                \/ BootstrapFails(i)
GetOrCreateSecret(i) == Finds(i) \/ WriterFindsNone(i) \/ FollowerRefreshes(i)
                        \/ Insert(i) \/ Reread(i)

Next == \E i \in Instance :
    \/ Open(i) \/ Bootstrap(i) \/ GetOrCreateSecret(i) \/ Promote(i) \/ SecretFails(i)
    \/ Gate(i) \/ Yield(i) \/ Stop(i) \/ Close(i) \/ Crash(i) \/ Lapse(i) \/ Replicate(i)

Spec == Init /\ [][Next]_vars

\* A process runs and the database replicates; an idle writer yields now and
\* then, and one who tries every half second meets the lease free some time.
\* No boot is assumed to time out.
Fairness == \A i \in Instance :
    /\ WF_vars(Bootstrap(i)) /\ WF_vars(GetOrCreateSecret(i)) /\ WF_vars(Promote(i))
    /\ WF_vars(Close(i)) /\ WF_vars(Replicate(i)) /\ SF_vars(Yield(i))
    /\ SF_vars(LeaseFree /\ FollowerRefreshes(i)) /\ SF_vars(Acquire(i) /\ Promote(i))
FairSpec == Spec /\ Fairness
-----------------------------------------------------------------------------
(* Properties *)

TypeOK ==
    /\ S3liteTypeOK
    /\ pc \in [Instance -> Stage]
    /\ cli \subseteq Instance
    /\ key \in [Instance -> SUBSET Key]
    /\ shown \subseteq Token
    /\ made \subseteq Write

(***************************************************************************)
(* Every instance signs and checks sessions with the same secret           *)
(* (secrets.go:106-108, safety.md section 6), whatever the order in which  *)
(* they boot, crash and take the lease; a secret that a fault lost is the  *)
(* exception.                                                              *)
(***************************************************************************)
KeysAgree == \A i, j \in Instance :
    \A k \in key[i] \ lost, l \in key[j] \ lost : k = l

(***************************************************************************)
(* The bootstrap never adds an admin to a root that has one                *)
(* (bootstrap.go:51-53), from the server or from the subcommand, with any  *)
(* handle.                                                                 *)
(***************************************************************************)
FirstAdminOnce == \A i \in Instance : IsLeader(i) =>
    \A a, b \in db[i] \intersect Admin : a = b

(***************************************************************************)
(* The token in the banner, the operator's only chance to capture it       *)
(* (main.go:155), is in the database of every later writer, unless a fault *)
(* lost it.                                                                *)
(***************************************************************************)
BannerHolds == \A i \in Instance : IsLeader(i) => shown \ lost \subseteq db[i]

\* A process that is down has no open database.
DownIsClosed == \A i \in Instance : pc[i] = "down" => role[i] = "closed"

\* The writer, the holder of the lease, has all of the replica.
ReplicaBehind == \A i \in Instance : IsLeader(i) => holder = i /\ s3 \subseteq db[i]

\* Nobody else writes between the check and the write that relies on it.
ChecksHold == \A i \in Instance : IsLeader(i) =>
    /\ pc[i] = "create" => ~HasAdmin(i)
    /\ pc[i] = "mint" => HasAdmin(i)
    /\ pc[i] = "insert" => Secret(i) = {}

\* One admin and one secret in every database that counts.
AtMostOne(S) == \A v, w \in S : v = w
OneOfEach ==
    \A d \in {s3} \union {db[i] : i \in {j \in Instance : IsLeader(j)}} :
        AtMostOne(d \intersect Key) /\ AtMostOne(d \intersect Admin)

\* Whatever was read, printed or written is in the replica, with the writer, or lost.
Known == s3 \union lost \union UNION {db[i] : i \in {j \in Instance : IsLeader(j)}}
Accounted ==
    /\ \A i \in Instance : key[i] \subseteq Known /\ db[i] \subseteq Known
    /\ shown \subseteq Known

\* What is in a database, or was, has been generated.
Generated == s3 \union lost \union UNION {db[i] : i \in Instance} \subseteq made

\* The inductive invariant behind the properties above and the refinement below.
IInv == /\ TypeOK /\ DownIsClosed /\ ReplicaBehind /\ ChecksHold
        /\ OneOfEach /\ Accounted /\ Generated

(***************************************************************************)
(* An instance that waits for the secret gets it, takes the lease and      *)
(* creates it, or gives up (secrets.go:126-134): followers do not wait for *)
(* each other, nor for a writer that died.                                 *)
(***************************************************************************)
WaitEnds == \A i \in Instance : pc[i] \in Waiting ~> pc[i] \notin Waiting

(***************************************************************************)
(* A storage root gets one admin and one secret (OneRoot), whatever comes  *)
(* up on it at the same time, and whatever ends or loses the lease between *)
(* a check and the write that relies on it.                                *)
(***************************************************************************)
Root == IF \E i \in Instance : IsLeader(i) THEN db[holder] ELSE s3
One == INSTANCE OneRoot WITH root <- Root, durable <- s3, gone <- lost
ImplementsOneRoot == One!Spec
=============================================================================
