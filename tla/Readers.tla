------------------------------ MODULE Readers ------------------------------
(***************************************************************************)
(* Readers of the on-disk repo next to the pushes of WritePath             *)
(* (src/internal/repo/materialize.go, the read half of                     *)
(* src/internal/githttp/backend.go, resolve in src/internal/webui/browse.go *)
(* and the dispatcher's Materialize).                                      *)
(*                                                                         *)
(* A ref advertisement, an upload-pack, a page or a CI dispatch refreshes  *)
(* the bare repo and then lets git read it.  It takes no lock: refreshes   *)
(* overlap each other, the receive-pack of a push, and its handler.  A     *)
(* refresh reads the refs of the DB at one moment and writes what it read  *)
(* at later ones: first packed-refs as a whole, then it removes the loose  *)
(* ref files one by one, since a loose file hides the packed line.         *)
(*                                                                         *)
(* diskRefs of WritePath is what git sees in a repo: the loose file of a   *)
(* ref, or else its line in packed-refs.                                   *)
(***************************************************************************)
EXTENDS WritePath

CONSTANT Reader         \* the requests that read

ASSUME NameAssumption == Name # {}

VARIABLES
    packed,  \* packed[n]: the refs in packed-refs of spelling n's repo
    loose,   \* loose[n]: the refs that have a loose file there
    reader,  \* reader[q]: where reader q is, and what it has read
    past,    \* history: the values the refs have had since the last crash
    behind   \* history: behind[q]: the refs that moved since reader q listed
             \* them, or of which packed-refs was given an older value since

files == <<packed, loose>>
rvars == <<vars, files, reader, past, behind>>

\* Between the reading of the list and the end of the refresh.
Mirroring == {"packing", "pruning"}
ReaderState == {"idle", "fetching", "listing", "serving"} \union Mirroring

NoRefs == [r \in Ref |-> Absent]
NoReader == [at |-> "idle", name |-> CHOOSE n \in Name : TRUE, whole |-> FALSE,
             list |-> NoRefs, left |-> {}, base |-> {}]

Held == {<<r, refs[r]>> : r \in Ref}

RInit ==
    /\ Init
    /\ packed = [n \in Name |-> NoRefs]
    /\ loose = [n \in Name |-> {}]
    /\ reader = [q \in Reader |-> NoReader]
    /\ past = Held
    /\ behind = [q \in Reader |-> {}]

-----------------------------------------------------------------------------
(* The readers *)

\* Steps of a reader change no state of the server but the on-disk repo.
ReaderFrame == <<refs, replica, settings, store, lock, nonces, outcome, cmds,
                 pack, leftOut, broken, guard, req, hook, todo, fired, landed,
                 crashes>>

\* Authorized, GetRepo has found the repo and ensureRepo its directory.  The
\* advertisement alone does not need the objects (MaterializeRefs).
Arrive(q) ==
    /\ reader[q].at = "idle"
    /\ \E n \in Name, w \in BOOLEAN :
         reader' = [reader EXCEPT ![q] = [NoReader EXCEPT !.name = n, !.whole = w,
                        !.at = IF w THEN "fetching" ELSE "listing"]]
    /\ UNCHANGED <<ReaderFrame, disk, diskRefs, files>>

\* hydrateObjects copies what S3 lists and the disk lacks.
Fetch(q) ==
    /\ reader[q].at = "fetching"
    /\ LET n == reader[q].name IN
         disk' = [disk EXCEPT ![n] = @ \union Fetched(n)]
    /\ reader' = [reader EXCEPT ![q].at = "listing",
                                ![q].base = Closure({refs[r] : r \in Ref})]
    /\ UNCHANGED <<ReaderFrame, diskRefs, files>>

\* writeRefs: ListRefs.  A ref without a row will have no line.
ListedRows == [r \in {q \in Ref : refs[q] # Absent} |-> refs[r]]  \* a mutant
Listed == refs
ListRefs(q) ==
    /\ reader[q].at = "listing"
    /\ reader' = [reader EXCEPT ![q].at = "packing", ![q].list = Listed,
                                ![q].left = Ref]
    /\ UNCHANGED <<ReaderFrame, disk, diskRefs, files>>

\* writePackedRefs: one rename.  A loose file still hides its line.
WritePacked(q) ==
    /\ reader[q].at = "packing"
    /\ LET n == reader[q].name IN
         /\ packed' = [packed EXCEPT ![n] = reader[q].list]
         /\ diskRefs' = [diskRefs EXCEPT ![n] = [r \in Ref |->
              IF r \in loose[n] THEN @[r] ELSE reader[q].list[r]]]
    /\ reader' = [reader EXCEPT ![q].at = "pruning"]
    /\ UNCHANGED <<ReaderFrame, disk, loose>>

\* removeLooseRefs, one file.
PrunedKeeping(n, r) == loose[n]                                 \* a mutant
Pruned(n, r) == loose[n] \ {r}
PrunableEarly(q) == reader[q].at \in Mirroring                  \* a mutant
Prunable(q) == reader[q].at = "pruning"
RemoveLoose(q) ==
    /\ Prunable(q)
    /\ \E r \in reader[q].left :
        LET n == reader[q].name IN
        /\ loose' = [loose EXCEPT ![n] = Pruned(n, r)]
        /\ diskRefs' = [diskRefs EXCEPT ![n][r] =
              IF r \in loose'[n] THEN @ ELSE packed[n][r]]
        /\ reader' = [reader EXCEPT ![q].left = @ \ {r}]
    /\ UNCHANGED <<ReaderFrame, disk, packed>>

\* removeLooseRefs is through: git may read.
Refreshed(q) ==
    /\ reader[q].at = "pruning"
    /\ reader[q].left = {}
    /\ reader' = [reader EXCEPT ![q].at = "serving"]
    /\ UNCHANGED <<ReaderFrame, disk, diskRefs, files>>

\* The answer is sent; or S3, the DB or the client fails before the mirror.
Leave(q) ==
    /\ reader[q].at \in {"fetching", "listing", "serving"}
    /\ reader' = [reader EXCEPT ![q] = NoReader]
    /\ UNCHANGED <<ReaderFrame, disk, diskRefs, files>>

-----------------------------------------------------------------------------
(* What the steps of WritePath do to the files *)

\* The refresh under the repo lock, as a whole: no ref moves while it works, so
\* a reader that overlaps it leaves what one does that overlaps its packed-refs.
\* (Only a push whose client vanished could move one then.)
PushMirrors(p) ==
    /\ MirrorRefs(p)
    /\ packed' = [packed EXCEPT ![NameOf[p]] = refs]
    /\ loose' = [loose EXCEPT ![NameOf[p]] = {}]
    /\ UNCHANGED reader

\* git writes a loose file for a ref it moves; to delete one it removes the
\* file and the packed line.
PushFinalizes(p) ==
    /\ Finalize(p)
    /\ LET n == NameOf[p]
           gone == {r \in Moving(p) : cmds[p][r].new = Absent}
       IN  /\ loose' = [loose EXCEPT ![n] = (@ \union Moving(p)) \ gone]
           /\ packed' = [packed EXCEPT ![n] = [r \in Ref |->
                             IF r \in gone THEN Absent ELSE @[r]]]
    /\ UNCHANGED reader

\* The cache directory survives, or it is gone with the host.
ServerCrashes ==
    /\ Crash
    /\ reader' = [q \in Reader |-> NoReader]
    /\ IF disk' = disk /\ diskRefs' = diskRefs THEN UNCHANGED files
       ELSE /\ packed' = [n \in Name |-> NoRefs]
            /\ loose' = [n \in Name |-> {}]

\* Every other step of a push or of the environment leaves the files alone.
OtherStep ==
    /\ \/ \E p \in Push :
            \/ Begin(p) \/ Lock(p) \/ Hydrate(p) \/ MaterializeFails(p)
            \/ Served(p) \/ Vanish(p) \/ FireAfterCommit(p) \/ Release(p)
            \/ UnpackFails(p) \/ CheckConnected(p) \/ HookWithoutQuarantine(p)
            \/ HandleBadNonce(p) \/ HandleGuarded(p) \/ HandleStart(p) \/ PutObject(p)
            \/ HandleFails(p) \/ CASRefs(p) \/ CASMismatch(p) \/ Record(p)
            \/ ReceivePackDies(p)
       \/ Replicate \/ EditSettings
    /\ UNCHANGED <<files, reader>>

-----------------------------------------------------------------------------
ReaderStep(q) == Arrive(q) \/ Fetch(q) \/ ListRefs(q) \/ WritePacked(q)
                   \/ RemoveLoose(q) \/ Refreshed(q) \/ Leave(q)

\* The refs of which a step gives packed-refs a value they do not have.
Outdated(n) == {r \in Ref : packed'[n][r] \notin {packed[n][r], refs'[r]}}
Moved == {r \in Ref : refs'[r] # refs[r]}

RNext ==
    /\ \/ \E q \in Reader : ReaderStep(q)
       \/ \E p \in Push : PushMirrors(p) \/ PushFinalizes(p)
       \/ OtherStep
       \/ ServerCrashes
    /\ past' = IF crashes' = crashes THEN past \union Held' ELSE Held'
    /\ behind' = [q \in Reader |->
          IF reader[q].at \in Mirroring /\ reader'[q].at \in Mirroring
          THEN behind[q] \union Moved \union Outdated(reader[q].name) ELSE {}]

RSpec == RInit /\ [][RNext]_rvars

\* Pushes are scheduled as in WritePath, whatever readers do.
FairRSpec == RSpec /\ Fairness
-----------------------------------------------------------------------------
(* Properties *)

RTypeOK ==
    /\ TypeOK
    /\ packed \in [Name -> [Ref -> Value]]
    /\ loose \in [Name -> SUBSET Ref]
    /\ reader \in [Reader -> [at : ReaderState, name : Name, whole : BOOLEAN,
                              list : [Ref -> Value], left : SUBSET Ref,
                              base : SUBSET Commit]]
    /\ past \subseteq Ref \X Value
    /\ behind \in [Reader -> SUBSET Ref]

(***************************************************************************)
(* A cache that outlived a crash, or another instance's turn, advertises   *)
(* nothing of what the crash undid (mirrorRefs' comment, storage.md): git  *)
(* shows a reader, for each ref, a value that the ref has had in the DB of *)
(* this server.  It need not be the latest.                                *)
(***************************************************************************)
ShownIsOfThisLife == \A q \in Reader :
    reader[q].at = "serving" =>
        \A r \in Ref : <<r, diskRefs[reader[q].name][r]>> \in past

(***************************************************************************)
(* A reader that fetched the objects can be served every ref it is shown   *)
(* that points into what had been committed when it listed them in S3, but *)
(* for what committed pushes left out (storage.md: the data requests copy  *)
(* every object that the disk lacks).                                      *)
(***************************************************************************)
ServedWhole == \A q \in Reader : LET n == reader[q].name IN
    reader[q].at = "serving" /\ reader[q].whole =>
        \A r \in Ref : diskRefs[n][r] \in reader[q].base
                         => Anc[diskRefs[n][r]] \subseteq disk[n] \union Withheld

(***************************************************************************)
(* A repo on disk that is up to date with a ref falls behind again, while  *)
(* the ref stands still, only through what was read before the ref moved:  *)
(* a refresh with an older list, or the receive-pack of a push whose       *)
(* commit has been superseded.  A refresh that has read the current refs,  *)
(* and whose packed-refs no older refresh replaced, never uncovers an      *)
(* older value (mirrorRefs' order).                                        *)
(***************************************************************************)
FallsBehind(n, r) == /\ crashes' = crashes
                     /\ refs'[r] = refs[r]
                     /\ diskRefs[n][r] = refs[r]
                     /\ diskRefs'[n][r] # refs[r]
StaleRefresh(n, r) == \E q \in Reader :
    /\ reader[q].at \in Mirroring
    /\ reader[q].name = n
    /\ r \in behind[q]
SupersededPush(n, r) == \E p \in Push :
    /\ hook[p] = "ok" /\ hook'[p] = "final"
    /\ NameOf[p] = n
    /\ r \in DOMAIN cmds[p] /\ cmds[p][r].new # refs[r]
KeepsCurrent == [][\A n \in Name, r \in Ref :
    FallsBehind(n, r) => StaleRefresh(n, r) \/ SupersededPush(n, r)]_rvars

(***************************************************************************)
(* When AfterCommit runs, what the push made of the refs that git did not  *)
(* mark can be read from the on-disk repo (receive.go:54-56): receive-pack *)
(* has migrated its objects there, whatever readers made of the ref files  *)
(* meanwhile.  At most what earlier pushes left out is missing.            *)
(***************************************************************************)
AfterCommitSeesCommit == [][\A p \in fired' \ fired : \A r \in Unmarked(p) :
    cmds[p][r].new # Absent =>
        Anc[cmds[p][r].new] \subseteq disk[NameOf[p]] \union LeftOutBy(landed \ {p})]_rvars

(***************************************************************************)
(* git marks a command only when history is really missing: because this   *)
(* push left some of it out, or one that has committed.  Readers that put  *)
(* older refs on disk, crashes that take refs back and caches that outlive *)
(* them are no cause (storage.md:51-52).                                   *)
(***************************************************************************)
MarkedForCause == \A p \in Push :
    broken[p] # {} => \E q \in landed \union {p} : leftOut[q] # {}
=============================================================================
