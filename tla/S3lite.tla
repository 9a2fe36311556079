------------------------------- MODULE S3lite -------------------------------
(***************************************************************************)
(* The metadata database as gitmote's instances share it, which is what    *)
(* the s3lite library promises internal/meta/meta.go: one lock.json in S3  *)
(* (the lease), one replica in S3, and a local copy in each instance that  *)
(* only the holder of the lease may write.  The library is not part of the *)
(* repository; this is its interface as meta.go documents and uses it.     *)
(*                                                                         *)
(* A database is the set of writes it contains.                            *)
(***************************************************************************)
EXTENDS Naturals

CONSTANTS Instance,   \* the server instances on one storage root
          NoOne,      \* the holder of a released lease
          Write,      \* the writes the instances may make
          MaxFaults   \* bound: leases lost, crashes, failed yields and final syncs

ASSUME S3liteAssumption == NoOne \notin Instance /\ MaxFaults \in Nat

VARIABLES
    holder,  \* whom lock.json names
    role,    \* role[i]: what instance i believes of itself
    db,      \* db[i]: the local database of i
    s3,      \* the replica
    lost,    \* the writes that were in a database and never reached S3
    faults   \* the faults so far

s3liteVars == <<holder, role, db, s3, lost, faults>>

\* "demoted" is a follower that lost its lease to a failed renewal.
Role == {"closed", "follower", "leader", "demoted"}

S3liteInit ==
    /\ holder = NoOne
    /\ role = [i \in Instance |-> "closed"]
    /\ db = [i \in Instance |-> {}]
    /\ s3 = {}
    /\ lost = {}
    /\ faults = 0

IsLeader(i) == role[i] = "leader"

\* The lease was released, or its holder stopped renewing and its TTL is over:
\* the holder stops to be leader before that.
LeaseFree == holder \notin {i \in Instance : IsLeader(i)}

\* The lock is taken, then the replica restored.
Acquire(i) ==
    /\ LeaseFree
    /\ holder' = i
    /\ role' = [role EXCEPT ![i] = "leader"]
    /\ db' = [db EXCEPT ![i] = s3]
    /\ UNCHANGED <<s3, lost, faults>>

\* Open as a follower: a snapshot of the replica.
OpenFollower(i) ==
    /\ holder # NoOne
    /\ role' = [role EXCEPT ![i] = "follower"]
    /\ db' = [db EXCEPT ![i] = s3]
    /\ UNCHANGED <<holder, s3, lost, faults>>

\* A follower catches up with the replica.
Refresh(i) ==
    /\ ~IsLeader(i)
    /\ db' = [db EXCEPT ![i] = s3]
    /\ UNCHANGED <<holder, role, s3, lost, faults>>

\* A transaction commits, on the leader only.
Commit(i, w) ==
    /\ IsLeader(i)
    /\ db' = [db EXCEPT ![i] = @ \union {w}]
    /\ UNCHANGED <<holder, role, s3, lost, faults>>

\* The WAL is shipped to S3.
Sync(i) ==
    /\ IsLeader(i)
    /\ s3' = db[i]
    /\ UNCHANGED <<holder, role, db, lost, faults>>

\* The lock is given back, after a final sync.
Release(i, to) ==
    /\ IsLeader(i)
    /\ holder' = NoOne
    /\ role' = [role EXCEPT ![i] = to]
    /\ UNCHANGED <<db, s3, lost, faults>>

Fault == faults < MaxFaults /\ faults' = faults + 1

\* The instance stops being leader, if it was, with writes that are not in S3.
Drop(i, to) ==
    /\ Fault
    /\ role' = [role EXCEPT ![i] = to]
    /\ lost' = IF IsLeader(i) THEN lost \union (db[i] \ s3) ELSE lost
    /\ UNCHANGED <<holder, db, s3>>

\* Close: a final sync, then the lock is given back.
CloseDB(i) ==
    /\ s3' = IF IsLeader(i) THEN db[i] ELSE s3
    /\ holder' = IF IsLeader(i) THEN NoOne ELSE holder
    /\ role' = [role EXCEPT ![i] = "closed"]
    /\ UNCHANGED <<db, lost, faults>>

S3liteTypeOK ==
    /\ holder \in Instance \union {NoOne}
    /\ role \in [Instance -> Role]
    /\ db \in [Instance -> SUBSET Write]
    /\ s3 \subseteq Write
    /\ lost \subseteq Write
    /\ faults \in Nat
=============================================================================
