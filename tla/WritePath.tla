----------------------------- MODULE WritePath -----------------------------
(***************************************************************************)
(* The push path of gitmote for ONE repository (src/internal/githttp,      *)
(* src/cmd/gitmote-hook, src/internal/meta/refs.go and the materializer    *)
(* as a push uses it).                                                     *)
(*                                                                         *)
(* A push is two threads of control.  The REQUEST goroutine                *)
(* (serveReceivePack) takes the repo lock, mints a nonce, refreshes the    *)
(* on-disk repo, waits for git http-backend, fires the after-commit hook   *)
(* and releases.  The HOOK thread is git receive-pack, its pre-receive     *)
(* hook and the socket handler Writer.handle: it burns the nonce, PUTs the *)
(* quarantined objects, runs the ref CAS and answers.  Nothing makes the   *)
(* request wait for the handler: it returns when http-backend returns.     *)
(*                                                                         *)
(* A commit stands for the objects it adds; Anc[c] is its history, c       *)
(* included.  A repo may be addressed by several spellings of its name     *)
(* (GetRepo strips ".git"), while locks, cache directories and object keys *)
(* use the spelling of the URL.                                            *)
(***************************************************************************)
EXTENDS FiniteSets, Naturals

CONSTANTS Push,        \* the pushes (POST /<repo>/git-receive-pack)
          Name,        \* the spellings of the repo's name in use
          NameOf,      \* the spelling each push's URL has
          Ref,         \* the ref names
          Commit,      \* the commits clients may push
          Anc,         \* Anc[c]: the commits reachable from c
          Absent,      \* ZeroSHA, the value of a ref that does not exist
          Free,        \* the owner of an unlocked mutex
          InitRefs,    \* the refs the repo starts with
          InitDefault, \* its default branch
          InitAdmins,  \* the pushes whose user is an admin of it
          Changes,     \* the ref changes clients may ask for
          MaxCrashes,  \* bound: server crashes
          MaxEdits,    \* bound: changes of default branch and ACLs
          MayVanish,   \* whether clients may disconnect in mid-push
          MayOmit      \* whether clients may leave history out of their packs

Value == Commit \union {Absent}

ASSUME HistoryAssumption ==
    /\ Anc \in [Commit -> SUBSET Commit]
    /\ \A c \in Commit : c \in Anc[c]
    /\ \A c \in Commit : \A d \in Anc[c] : Anc[d] \subseteq Anc[c]
    /\ Absent \notin Commit

ASSUME NamingAssumption ==
    /\ NameOf \in [Push -> Name]
    /\ Free \notin Push

ASSUME InputAssumption ==
    /\ InitRefs \in [Ref -> Value]
    /\ InitDefault \in Ref
    /\ InitAdmins \subseteq Push
    /\ Changes \subseteq UNION {[S -> Value] : S \in SUBSET Ref}
    /\ MaxCrashes \in Nat
    /\ MaxEdits \in Nat
    /\ MayVanish \in BOOLEAN
    /\ MayOmit \in BOOLEAN

VARIABLES
    refs,      \* table refs of the metadata DB
    replica,   \* the refs in the copy of the DB that S3 holds
    store,     \* store[n]: objects under the prefix n/objects/ in S3
    disk,      \* disk[n]: objects in the on-disk bare repo of spelling n
    diskRefs,  \* diskRefs[n]: refs of that bare repo
    lock,      \* lock[n]: Writer.locks, one mutex for each spelling
    nonces,    \* Writer.pushes: the pushes whose nonce is still registered
    req,       \* req[p]: where the request goroutine is
    hook,      \* hook[p]: where receive-pack, its hook and handle are
    cmds,      \* cmds[p]: the ref commands, a function on the refs named
    pack,      \* pack[p]: the objects in the push's quarantine
    leftOut,   \* history: leftOut[p]: what its client should have sent, and did not
    broken,    \* broken[p]: the refs whose commands git's own check has failed
    todo,      \* todo[p]: those putObjects has not PUT yet
    guard,     \* guard[p]: the guard inputs Begin put in the pushOp
    outcome,   \* the pushes whose pushOutcome is filled
    fired,     \* the pushes AfterCommit ran for
    settings,  \* default branch and admins, as the metadata DB has them
    landed,    \* history: the pushes whose transaction has committed
    crashes    \* number of crashes so far

dbVars     == <<refs, replica, settings, landed>>
repoVars   == <<store, disk, diskRefs>>
writerVars == <<lock, nonces, outcome>>
clientVars == <<cmds, pack, leftOut, guard>>
pushVars   == <<clientVars, broken>>
vars == <<refs, replica, store, disk, diskRefs, lock, nonces, req, hook, cmds,
          pack, leftOut, broken, todo, guard, outcome, fired, settings, landed,
          crashes>>

-----------------------------------------------------------------------------
(* Types and derived state *)

Command  == [old : Value, new : Value]
Commands == UNION {[S -> Command] : S \in SUBSET Ref}
NoCommands == [r \in {} |-> [old |-> Absent, new |-> Absent]]
GuardInput == [default : Ref, admin : BOOLEAN]

\* States of the request goroutine in which its push holds the repo lock.
Holding == {"locked", "hydrated", "serving", "served", "releasing"}
ReqState == {"idle", "waiting", "done"} \union Holding

\* Answers of receive-pack, the hook or the handler that refuse the push.
Refusal == {"noObjectDir", "badNonce", "guarded", "failed", "mismatch"}
\* receive-pack has ended, one way or the other.
Ended == Refusal \union {"final", "dead"}
HookState == {"none", "unpacking", "checked", "putting", "committed", "ok"}
                \union Ended

Closure(S) == UNION {Anc[c] : c \in S \ {Absent}}
News(p)    == {cmds[p][r].new : r \in DOMAIN cmds[p]}

\* gitmote-hook's isForce: a deletion, or old is not an ancestor of new.
IsForceDeletionsOnly(c) == c.new = Absent                       \* a mutant
IsForce(c) ==
    \/ c.new = Absent
    \/ c.old # Absent /\ c.old \notin Closure({c.new})

DeleteOnly(p) == \A r \in DOMAIN cmds[p] : cmds[p][r].new = Absent

\* What the clients of the pushes S left out of their packs.
LeftOutBy(S) == UNION {leftOut[p] : p \in S}

\* Where git looks for the objects of a push, and where it stops looking: the
\* tips of the refs on disk that it finds there.
Here(p) == pack[p] \union disk[NameOf[p]]
OnDisk(n) == {diskRefs[n][r] : r \in Ref} \ {Absent}
Tips(p) == OnDisk(NameOf[p]) \intersect Here(p)

\* git's check that the history of a new tip is complete.  It finds what is
\* missing, unless that lies behind a tip on disk, where it need not look.  A
\* tip on disk that is missing itself is passed over, or, when HEAD names it,
\* fails the check for all.
MustMark(p, r) == LET c == cmds[p][r].new IN
    /\ c # Absent
    /\ c \notin Here(p) \/ ~(Anc[c] \subseteq Here(p) \union Closure(Tips(p)))
MayMark(p, r) == LET c == cmds[p][r].new IN
    /\ c # Absent
    /\ ~(OnDisk(NameOf[p]) \subseteq Here(p)) \/ ~(Anc[c] \subseteq Here(p))

\* The commands that git carries out: those that passed its check.
Unmarked(p) == DOMAIN cmds[p] \ broken[p]

\* The local refs that move: those that hold the old value the client named.
Moving(p) == {r \in Unmarked(p) : diskRefs[NameOf[p]][r] = cmds[p][r].old}

\* handle's guard of the default branch, on the inputs Begin read.  The hook
\* takes a git error for a rewrite: what it walks may be missing.
MayRewrite(p, r) ==
    \/ IsForce(cmds[p][r])
    \/ cmds[p][r].old # Absent /\ ~(Closure({cmds[p][r].new}) \subseteq Here(p))
Protected(p) ==
    ~guard[p].admin /\ \E r \in DOMAIN cmds[p] :
        r = guard[p].default /\ IsForce(cmds[p][r])
MayProtect(p) ==
    ~guard[p].admin /\ \E r \in DOMAIN cmds[p] :
        r = guard[p].default /\ MayRewrite(p, r)

\* The PUTs end before the transaction starts.
UploadedAny(p) == TRUE                                          \* a mutant
Uploaded(p) == todo[p] = {}

\* casOne's comparison, for every ref of the transaction.
MatchesUnchecked(p) == TRUE                                     \* a mutant
Matches(p) == \A r \in DOMAIN cmds[p] : refs[r] = cmds[p][r].old

\* The refs after the updates of p, over the refs R.
UpdatedDroppingRows(R, p) ==                                    \* a mutant
    [r \in {q \in Ref : q \in DOMAIN cmds[p] => cmds[p][q].new # Absent} |->
       IF r \in DOMAIN cmds[p] THEN cmds[p][r].new ELSE R[r]]
Updated(R, p) ==
    [r \in Ref |-> IF r \in DOMAIN cmds[p] THEN cmds[p][r].new ELSE R[r]]

\* lockRepo's mutex is free; unregister forgets the nonce.
UnlockedAlways(n) == TRUE                                       \* a mutant
Unlocked(n) == lock[n] = Free
UnregisteredNever(p) == nonces                                  \* a mutant
Unregistered(p) == nonces \ {p}
-----------------------------------------------------------------------------
(* Initial state: the repo was filled under every spelling in use, the     *)
(* server has just booted, its cache is empty.                             *)

Init ==
    /\ settings = [default |-> InitDefault, admins |-> InitAdmins, edits |-> 0]
    /\ refs = InitRefs
    /\ replica = InitRefs
    /\ store = [n \in Name |-> Closure({InitRefs[r] : r \in Ref})]
    /\ disk = [n \in Name |-> {}]
    /\ diskRefs = [n \in Name |-> [r \in Ref |-> Absent]]
    /\ lock = [n \in Name |-> Free]
    /\ nonces = {}
    /\ req = [p \in Push |-> "idle"]
    /\ hook = [p \in Push |-> "none"]
    /\ cmds = [p \in Push |-> NoCommands]
    /\ pack = [p \in Push |-> {}]
    /\ leftOut = [p \in Push |-> {}]
    /\ broken = [p \in Push |-> {}]
    /\ todo = [p \in Push |-> {}]
    /\ guard = [p \in Push |-> [default |-> InitDefault, admin |-> FALSE]]
    /\ outcome = {}
    /\ fired = {}
    /\ landed = {}
    /\ crashes = 0

-----------------------------------------------------------------------------
(* The request goroutine *)

\* The client has seen the advertised refs, asks for changes relative to them
\* and sends what it believes the server lacks, or less.  Authorize passed;
\* Begin reads the repo and the pusher's ACL and is about to lock.
Begin(p) ==
    /\ req[p] = "idle"
    /\ \E ch \in Changes :
        LET needed == Closure({ch[r] : r \in DOMAIN ch})
                        \ Closure({refs[r] : r \in Ref})
        IN  /\ \A r \in DOMAIN ch : ch[r] # refs[r]
            /\ cmds' = [cmds EXCEPT ![p] =
                          [r \in DOMAIN ch |-> [old |-> refs[r], new |-> ch[r]]]]
            /\ \E out \in IF MayOmit THEN SUBSET needed ELSE {{}} :
                 /\ leftOut' = [leftOut EXCEPT ![p] = out]
                 /\ pack' = [pack EXCEPT ![p] = needed \ out]
    /\ guard' = [guard EXCEPT ![p] = [default |-> settings.default,
                                      admin |-> p \in settings.admins]]
    /\ req' = [req EXCEPT ![p] = "waiting"]
    /\ UNCHANGED <<dbVars, repoVars, writerVars, broken, hook, todo, fired, crashes>>

\* lk.Lock() returns; register mints the nonce of this push.
Lock(p) ==
    /\ req[p] = "waiting"
    /\ Unlocked(NameOf[p])
    /\ lock' = [lock EXCEPT ![NameOf[p]] = p]
    /\ nonces' = nonces \union {p}
    /\ req' = [req EXCEPT ![p] = "locked"]
    /\ UNCHANGED <<dbVars, repoVars, pushVars, outcome, hook, todo, fired, crashes>>

\* hydrateObjects copies what S3 lists under this spelling and the disk lacks.
FetchedWhenCold(n) == IF disk[n] = {} THEN store[n] ELSE {}      \* a mutant
Fetched(n) == store[n]
Hydrate(p) ==
    /\ req[p] = "locked"
    /\ LET n == NameOf[p] IN
         disk' = [disk EXCEPT ![n] = @ \union Fetched(n)]
    /\ req' = [req EXCEPT ![p] = "hydrated"]
    /\ UNCHANGED <<dbVars, store, diskRefs, writerVars, pushVars, hook, todo,
                   fired, crashes>>

\* writeRefs: ListRefs, then the on-disk refs mirror it.  http-backend starts.
MirrorRefs(p) ==
    /\ req[p] = "hydrated"
    /\ diskRefs' = [diskRefs EXCEPT ![NameOf[p]] = refs]
    /\ req' = [req EXCEPT ![p] = "serving"]
    /\ hook' = [hook EXCEPT ![p] = "unpacking"]
    /\ UNCHANGED <<dbVars, store, disk, writerVars, pushVars, todo, fired, crashes>>

\* Materialize fails (S3, the DB, a client that hung up): the deferred Release
\* runs without the after-commit hook.
MaterializeFailsLocked(p) ==                                    \* a mutant
    /\ req[p] \in {"locked", "hydrated"}
    /\ req' = [req EXCEPT ![p] = "done"]
    /\ UNCHANGED <<dbVars, repoVars, writerVars, pushVars, hook, todo, fired, crashes>>
MaterializeFails(p) ==
    /\ req[p] \in {"locked", "hydrated"}
    /\ req' = [req EXCEPT ![p] = "releasing"]
    /\ UNCHANGED <<dbVars, repoVars, writerVars, pushVars, hook, todo, fired, crashes>>

\* http-backend returns because receive-pack has ended.
ServedEarly(p) ==                                               \* a mutant
    /\ req[p] = "serving"
    /\ hook[p] \in Ended \union {"ok"}
    /\ req' = [req EXCEPT ![p] = "served"]
    /\ UNCHANGED <<dbVars, repoVars, writerVars, pushVars, hook, todo, fired, crashes>>
Served(p) ==
    /\ req[p] = "serving"
    /\ hook[p] \in Ended
    /\ req' = [req EXCEPT ![p] = "served"]
    /\ UNCHANGED <<dbVars, repoVars, writerVars, pushVars, hook, todo, fired, crashes>>

\* http-backend is killed because the client went away: cgi.Handler returns,
\* receive-pack, its hook and the socket handler carry on by themselves.
Vanish(p) ==
    /\ MayVanish
    /\ req[p] = "serving"
    /\ hook[p] \notin Ended
    /\ req' = [req EXCEPT ![p] = "served"]
    /\ UNCHANGED <<dbVars, repoVars, writerVars, pushVars, hook, todo, fired, crashes>>

\* FireAfterCommit, with what the outcome holds at this moment.
FireAfterCommit(p) ==
    /\ req[p] = "served"
    /\ fired' = IF p \in outcome THEN fired \union {p} ELSE fired
    /\ req' = [req EXCEPT ![p] = "releasing"]
    /\ UNCHANGED <<dbVars, repoVars, writerVars, pushVars, hook, todo, crashes>>

\* The deferred Release: discard the nonce, unlock.
Release(p) ==
    /\ req[p] = "releasing"
    /\ nonces' = Unregistered(p)
    /\ lock' = [lock EXCEPT ![NameOf[p]] = Free]
    /\ req' = [req EXCEPT ![p] = "done"]
    /\ UNCHANGED <<dbVars, repoVars, pushVars, outcome, hook, todo, fired, crashes>>

-----------------------------------------------------------------------------
(* receive-pack, the pre-receive hook and Writer.handle *)

\* A step of the hook thread that only ends it, with a refusal.
Refuse(p, why) ==
    /\ hook' = [hook EXCEPT ![p] = why]
    /\ UNCHANGED <<dbVars, repoVars, pushVars, lock, outcome, req, todo, fired, crashes>>

\* The pack cannot be unpacked: receive-pack ends before its hook.
UnpackFails(p) ==
    /\ hook[p] = "unpacking"
    /\ ~DeleteOnly(p)
    /\ Refuse(p, "failed")
    /\ UNCHANGED nonces

\* The pack is unpacked into the quarantine, and git marks the commands whose
\* new tips fail its check.  It hands all commands to its hook nonetheless.
CheckConnected(p) ==
    /\ hook[p] = "unpacking"
    /\ \E B \in SUBSET {r \in DOMAIN cmds[p] : MayMark(p, r)} :
        /\ \A r \in DOMAIN cmds[p] : MustMark(p, r) => r \in B
        /\ broken' = [broken EXCEPT ![p] = B]
    /\ hook' = [hook EXCEPT ![p] = "checked"]
    /\ UNCHANGED <<dbVars, repoVars, writerVars, clientVars, req, todo, fired, crashes>>

\* A push of deletions only has no pack, so git makes no quarantine and leaves
\* GIT_OBJECT_DIRECTORY unset: the hook exits before it calls the parent.
HookWithoutQuarantine(p) ==
    /\ hook[p] = "checked"
    /\ DeleteOnly(p)
    /\ Refuse(p, "noObjectDir")
    /\ UNCHANGED nonces

HookCalls(p) == hook[p] = "checked" /\ ~DeleteOnly(p)

\* take finds no such nonce: the push was released before its hook called.
HandleBadNonce(p) ==
    /\ HookCalls(p)
    /\ p \notin nonces
    /\ Refuse(p, "badNonce")
    /\ UNCHANGED nonces

\* take burns the nonce, then the default-branch guard refuses.
HandleGuarded(p) ==
    /\ HookCalls(p)
    /\ p \in nonces
    /\ MayProtect(p)
    /\ nonces' = nonces \ {p}
    /\ Refuse(p, "guarded")

\* take burns the nonce, the guard passes, putObjects starts its walk.
HandleStart(p) ==
    /\ HookCalls(p)
    /\ p \in nonces
    /\ ~Protected(p)
    /\ nonces' = nonces \ {p}
    /\ hook' = [hook EXCEPT ![p] = "putting"]
    /\ todo' = [todo EXCEPT ![p] = pack[p]]
    /\ UNCHANGED <<dbVars, repoVars, pushVars, lock, outcome, req, fired, crashes>>

\* putObjects PUTs one object under the spelling of the push.
PutObject(p) ==
    /\ hook[p] = "putting"
    /\ \E o \in todo[p] :
        /\ store' = [store EXCEPT ![NameOf[p]] = @ \union {o}]
        /\ todo' = [todo EXCEPT ![p] = @ \ {o}]
    /\ UNCHANGED <<dbVars, disk, diskRefs, writerVars, pushVars, req, hook, fired, crashes>>

\* A PUT or the transaction fails, or casTimeout expires.
HandleFailsSilently(p) ==                                       \* a mutant
    /\ hook[p] = "putting"
    /\ Refuse(p, "ok")
    /\ UNCHANGED nonces
HandleFails(p) ==
    /\ hook[p] = "putting"
    /\ Refuse(p, "failed")
    /\ UNCHANGED nonces

\* CASRefs commits: every ref held its old value, all of them move at once.
CASRefs(p) ==
    /\ hook[p] = "putting"
    /\ Uploaded(p)
    /\ Matches(p)
    /\ refs' = Updated(refs, p)
    /\ landed' = landed \union {p}
    /\ hook' = [hook EXCEPT ![p] = "committed"]
    /\ UNCHANGED <<replica, settings, repoVars, writerVars, pushVars, req, todo, fired, crashes>>

\* CASRefs rolls back: some ref moved.
CASMismatch(p) ==
    /\ hook[p] = "putting"
    /\ Uploaded(p)
    /\ ~Matches(p)
    /\ Refuse(p, "mismatch")
    /\ UNCHANGED nonces

\* outcome.record, and the OK response.
RecordForgotten(p) ==                                           \* a mutant
    /\ hook[p] = "committed"
    /\ Refuse(p, "ok")
    /\ UNCHANGED nonces
Record(p) ==
    /\ hook[p] = "committed"
    /\ outcome' = outcome \union {p}
    /\ hook' = [hook EXCEPT ![p] = "ok"]
    /\ UNCHANGED <<dbVars, repoVars, pushVars, lock, nonces, req, todo, fired, crashes>>

\* receive-pack goes on with the commands it has not marked: it migrates the
\* quarantine into the repo and moves their refs.  If none is left it drops the
\* quarantine.
Finalize(p) ==
    /\ hook[p] = "ok"
    /\ LET n == NameOf[p] IN
        /\ disk' = IF Unmarked(p) = {} THEN disk
                   ELSE [disk EXCEPT ![n] = @ \union pack[p]]
        /\ diskRefs' = [diskRefs EXCEPT ![n] = [r \in Ref |->
              IF r \in Moving(p) THEN cmds[p][r].new ELSE @[r]]]
    /\ hook' = [hook EXCEPT ![p] = "final"]
    /\ UNCHANGED <<dbVars, store, writerVars, pushVars, req, todo, fired, crashes>>

\* Left without http-backend, receive-pack dies of a broken pipe.
ReceivePackDies(p) ==
    /\ req[p] \in {"served", "releasing", "done"}
    /\ hook[p] \in {"unpacking", "checked", "ok"}
    /\ Refuse(p, "dead")
    /\ UNCHANGED nonces
-----------------------------------------------------------------------------
(* The environment *)

\* litestream ships the WAL to S3.
Replicate ==
    /\ replica # refs
    /\ replica' = refs
    /\ UNCHANGED <<refs, settings, landed, repoVars, writerVars, pushVars, req, hook, todo, fired, crashes>>

\* The server dies and a new one restores the DB from S3.  Everything in memory
\* is gone; the cache directory survives or not.
Crash ==
    /\ crashes < MaxCrashes
    /\ crashes' = crashes + 1
    /\ refs' = replica
    /\ \/ UNCHANGED <<disk, diskRefs>>
       \/ /\ disk' = [n \in Name |-> {}]
          /\ diskRefs' = [n \in Name |-> [r \in Ref |-> Absent]]
    /\ lock' = [n \in Name |-> Free]
    /\ nonces' = {}
    /\ outcome' = {}
    /\ req' = [p \in Push |-> IF req[p] = "idle" THEN "idle" ELSE "done"]
    /\ hook' = [p \in Push |-> IF hook[p] = "none" \/ hook[p] \in Ended
                               THEN hook[p] ELSE "dead"]
    /\ UNCHANGED <<replica, settings, landed, store, pushVars, todo, fired>>

\* An admin changes the default branch or a pusher's admin level in the web UI.
EditSettings ==
    /\ settings.edits < MaxEdits
    /\ \/ \E r \in Ref \ {settings.default} :
            settings' = [settings EXCEPT !.default = r, !.edits = @ + 1]
       \/ \E p \in Push :
            settings' = [settings EXCEPT !.edits = @ + 1, !.admins =
                           IF p \in @ THEN @ \ {p} ELSE @ \union {p}]
    /\ UNCHANGED <<refs, replica, landed, repoVars, writerVars, pushVars, req, hook, todo, fired, crashes>>
-----------------------------------------------------------------------------
Request(p) == Lock(p) \/ Hydrate(p) \/ MirrorRefs(p) \/ MaterializeFails(p)
                \/ Served(p) \/ FireAfterCommit(p) \/ Release(p)

Handler(p) == UnpackFails(p) \/ CheckConnected(p) \/ HookWithoutQuarantine(p)
                \/ HandleBadNonce(p)
                \/ HandleGuarded(p) \/ HandleStart(p) \/ PutObject(p)
                \/ HandleFails(p) \/ CASRefs(p) \/ CASMismatch(p) \/ Record(p)
                \/ Finalize(p)

Next == \/ \E p \in Push : Begin(p) \/ Request(p) \/ Vanish(p) \/ Handler(p)
                           \/ ReceivePackDies(p)
        \/ Replicate \/ Crash \/ EditSettings

Spec == Init /\ [][Next]_vars

\* Every goroutine and child process that can step does: Go and the OS
\* schedule them, S3 calls end by casTimeout, Go's mutex hands over in FIFO
\* order once a waiter starves.  A client that has begun to send its pack
\* sends the rest; clients need not begin, and nothing crashes fairly.
Fairness == \A p \in Push : WF_vars(Request(p)) /\ WF_vars(Handler(p))
                            /\ SF_vars(Lock(p))
FairSpec == Spec /\ Fairness
-----------------------------------------------------------------------------
(* Properties *)

TypeOK ==
    /\ refs \in [Ref -> Value]
    /\ replica \in [Ref -> Value]
    /\ store \in [Name -> SUBSET Commit]
    /\ disk \in [Name -> SUBSET Commit]
    /\ diskRefs \in [Name -> [Ref -> Value]]
    /\ lock \in [Name -> Push \union {Free}]
    /\ nonces \subseteq Push
    /\ req \in [Push -> ReqState]
    /\ hook \in [Push -> HookState]
    /\ cmds \in [Push -> Commands]
    /\ pack \in [Push -> SUBSET Commit]
    /\ leftOut \in [Push -> SUBSET Commit]
    /\ broken \in [Push -> SUBSET Ref]
    /\ todo \in [Push -> SUBSET Commit]
    /\ guard \in [Push -> GuardInput]
    /\ outcome \subseteq Push
    /\ fired \subseteq Push
    /\ landed \subseteq Push
    /\ settings \in [default : Ref, admins : SUBSET Push, edits : Nat]
    /\ crashes \in Nat

\* Every commit a set of refs reaches is in S3, under every spelling.
Backed(R) == \A n \in Name, r \in Ref :
                R[r] # Absent => Anc[R[r]] \subseteq store[n]

(***************************************************************************)
(* Content before pointer, as safety.md section 3 and the comment on       *)
(* Writer.handle state it: no ref, in the live DB or in the copy a restart *)
(* restores, ever reaches an object that is not in S3.                     *)
(***************************************************************************)
ContentBeforePointer == Backed(refs) /\ Backed(replica)

\* The history that is missing for good: what committed pushes did not send.
Withheld == LeftOutBy(landed)

(***************************************************************************)
(* Content before pointer, for the content the server was sent: whatever a *)
(* ref reaches, in the live DB or in the copy a restart restores, is in    *)
(* S3, unless a push that committed left it out of its pack.               *)
(***************************************************************************)
ReceivedBeforePointer == \A n \in Name, r \in Ref :
    /\ refs[r] # Absent => Anc[refs[r]] \subseteq store[n] \union Withheld
    /\ replica[r] # Absent => Anc[replica[r]] \subseteq store[n] \union Withheld

(***************************************************************************)
(* The local repo is only a cache: it never holds an object that S3 lacks, *)
(* nor a ref whose history S3 lacks and no committed push left out.        *)
(* receive-pack's check trusts what is on disk, and no handler PUTs it     *)
(* again.                                                                  *)
(***************************************************************************)
CacheBacked == \A n \in Name :
    /\ disk[n] \subseteq store[n]
    /\ \A r \in Ref : diskRefs[n][r] # Absent
                       => Anc[diskRefs[n][r]] \subseteq store[n] \union Withheld

(***************************************************************************)
(* What a push still owes S3: from its beginning, the history of its new   *)
(* tips is in its pack, in S3, or left out, by its client or before; while *)
(* it PUTs, its pack is in S3 or still to be PUT; once its refs are        *)
(* committed, all of its pack is in S3.                                    *)
(***************************************************************************)
InFlightBacked == \A p \in Push : LET n == NameOf[p] IN
    /\ Closure(News(p)) \subseteq
           pack[p] \union store[n] \union leftOut[p] \union Withheld
    /\ hook[p] = "putting" => pack[p] \subseteq store[n] \union todo[p]
    /\ hook[p] \in {"committed", "ok"} => pack[p] \subseteq store[n] /\ p \in landed

\* A push that has not begun has no hook thread and moved no ref.
IdleHasNoHook == \A p \in Push : req[p] = "idle" => hook[p] = "none" /\ p \notin landed

(***************************************************************************)
(* The inductive strengthening of ReceivedBeforePointer and CacheBacked.   *)
(***************************************************************************)
IInv == TypeOK /\ ReceivedBeforePointer /\ CacheBacked /\ InFlightBacked /\ IdleHasNoHook

\* A request that was given the repo lock holds it until it releases, and only
\* such a request has a nonce that still opens the write path.
LockInv ==
    /\ \A p \in Push : req[p] \in Holding => lock[NameOf[p]] = p
    /\ \A p \in nonces : req[p] \in Holding

(***************************************************************************)
(* A push enters the write path only while it holds the lock of its repo:  *)
(* the nonce of a request that has been released opens nothing any more,   *)
(* although its receive-pack and hook may still be running.                *)
(***************************************************************************)
EntersUnderLock == [][\A p \in Push :
    hook[p] # "putting" /\ hook'[p] = "putting" => lock[NameOf[p]] = p]_vars

(***************************************************************************)
(* The default branch keeps its history unless an admin rewrites it        *)
(* (auth.md:33-37, Writer.handle's guard): when it is deleted or moves to  *)
(* a commit that does not contain it, what has just committed is a push    *)
(* that was an admin's, or that found another default branch, when it      *)
(* began.                                                                  *)
(***************************************************************************)
CommitsNow(p) == hook[p] = "putting" /\ hook'[p] = "committed"
Rewrites(r) == refs[r] # Absent /\ refs[r] \notin Closure({refs'[r]})

DefaultBranchKept == [][
    crashes' = crashes /\ Rewrites(settings.default)
      => \E p \in Push : /\ CommitsNow(p)
                         /\ guard[p].admin \/ guard[p].default # settings.default]_vars

(***************************************************************************)
(* Pushes to one repo serialize (receive.go:184, safety.md section 2): no  *)
(* two of them are between the take of their nonce and the end of their    *)
(* receive-pack at the same time.                                          *)
(***************************************************************************)
InWritePath(p) == hook[p] \in {"putting", "committed", "ok"}
Serialized == \A p, q \in Push : InWritePath(p) /\ InWritePath(q) => p = q

(***************************************************************************)
(* AfterCommit runs for each push that advanced refs (receive.go:54): a    *)
(* request that is over has fired it if its push took effect.  A crash     *)
(* between the transaction and the hook loses it, so only runs without     *)
(* one count.                                                              *)
(***************************************************************************)
AfterCommitForEachPush == \A p \in Push :
    crashes = 0 /\ req[p] = "done" /\ hook[p] \in {"committed", "ok", "final"}
      => p \in fired

(***************************************************************************)
(* Whoever waits for the repo lock gets through: every push that has begun *)
(* ends and releases, whatever the pushes before it ran into.              *)
(***************************************************************************)
EveryPushEnds == \A p \in Push : req[p] = "waiting" ~> req[p] = "done"

(***************************************************************************)
(* Writer.handle promises readers of the refs what AtomicRefs says.        *)
(***************************************************************************)
PushState(p) ==
    IF req[p] = "idle" THEN "idle"
    ELSE IF p \in landed THEN "effective"
    ELSE IF hook[p] \in {"none", "unpacking", "checked", "putting"} THEN "open"
    ELSE "over"

Atomic == INSTANCE AtomicRefs
            WITH durable <- replica,
                 content <- {c \in Commit : \A n \in Name : c \in store[n]},
                 wants <- cmds,
                 omits <- leftOut,
                 state <- [p \in Push |-> PushState(p)]
ImplementsAtomicRefs == Atomic!Spec
=============================================================================
