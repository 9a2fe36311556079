# Verification of gitmote

gitmote is a git forge in one Go binary. Its durable state is an S3 bucket: a SQLite database with the metadata
(refs, users, grants, CI runs), replicated there by the s3lite library, and the git objects and CI logs as plain
objects. Instances of the server come and go, share the bucket, and take turns as the only writer of the database.

This directory holds TLA+ models of the parts of gitmote where order, concurrency and failure matter, TLC
configurations that check them on small instances, and TLAPS proofs of the properties that matter most for every
size. `PROJECT.json` maps every definition to the source lines it models and lists the runs, the mutants that show that
each property can fail, the theorems and the hazards. Paths below are relative to the repository.

- [Running](#running)
- [The system](#the-system): inventory of components, state, operations, interactions, hard parts
- [The models](#the-models): one section for each module, with its correspondence to the code
- [The runs](#the-runs): what each checks, the bounds, the fairness
- [The proofs](#the-proofs)
- [Where the code and its documentation differ](#where-the-code-and-its-documentation-differ)
- [What is not modelled](#what-is-not-modelled)
- [Plan](#plan)

## Running

    tlc -config WritePath.cfg MCWritePath.tla     # a model-checking run; the table below names module and .cfg
    tlapm WritePathProofs.tla                     # the proofs of a module

Every pass run ends within five minutes on two cores. The violation runs are expected to find a counterexample.

## The system

| component | state it keeps | operations | code |
|---|---|---|---|
| Push write path | one mutex for each spelling of a repo, nonces of registered pushes and their outcome (memory) | serve a receive-pack, answer the hook, PUT the quarantine, CAS the refs, after-commit | `internal/githttp`, `internal/hookrpc`, `cmd/gitmote-hook` |
| Ref store | table `refs` | multi-ref compare-and-swap, list | `internal/meta/refs.go` |
| Materializer | bare repos on local disk, a cache of S3 | fetch missing objects, mirror the refs | `internal/repo` |
| Writer lease | `lock.json` in S3, the role of each instance, the activity lock | acquire on demand, yield when idle, lose, release on close | `cmd/gitmote/main.go`, `internal/meta/meta.go` |
| Boot | first admin, its token, two server secrets | bootstrap, reissue, get-or-create a secret | `internal/bootstrap`, `internal/meta/secrets.go`, `cmd/gitmote/main.go` |
| Authorization | tables `users`, `repos`, `acls`, `tokens`; session cookies | Authorize, authorizeRead, and the management pages that write the tables | `internal/auth`, `internal/meta`, `internal/webui` |
| CI dispatcher | tables `ci_runs`, `ci_jobs` | find the workflows a push selects, record a run, trigger a runner for each with the secrets of the repo | `internal/ci/dispatcher.go`, `local.go`, `internal/scaleway` |
| CI report API, reconcile tick | the same tables, log blobs in S3 | claim, log chunk, completion, roll-up; end stuck jobs | `internal/ci/report.go`, `internal/meta/ci.go` |
| Live logs | buffers in memory | append, tail, finish, sweep | `internal/ci/livelogs.go` |
| CI runner | its own job, in another process | claim, clone, run, stream, post the result once | `internal/runner`, `cmd/gitmote-runner` |
| Workflow triggers | none | read the `on:` key, match branches against globs, parse env secrets | `internal/ci/triggers.go`, `envsecrets.go` |
| Keyring, CI secrets | table `ci_secrets`, master keys from the environment | seal, open, rotate | `internal/secrets`, `internal/webui` |
| Repo browsing | none | trees, blobs, logs and diffs read from git | `internal/repo/browse.go` |
| Web UI, rendering | none of its own | management pages, browse pages, Markdown and ANSI to HTML | `internal/webui`, `internal/render` |
| Object store | S3 | put, get, head, list | `internal/store` |

How they interact:

- A push arrives over HTTP, passes the lease gate and the authorization, then takes the repo's mutex, refreshes the bare
  repo from S3 and runs `git http-backend`. git's pre-receive hook calls back over a Unix socket with a nonce. The
  handler of that call PUTs the objects in S3, then moves all refs in one transaction, then answers the hook; git
  then updates the on-disk refs. git judges before its hook whether the pushed history is complete, keeps what it finds to itself, and calls the hook in any case. When http-backend is over, the request runs the after-commit hook, which dispatches
  CI, and releases the mutex. Request and socket handler are separate goroutines with separate contexts.
- Advertisements, fetches, pages and the dispatcher refresh the same bare repo, at any time and with no lock, and let git read it.
- The dispatcher reads the workflows and the secrets, writes rows and starts runners. Runners talk to the report API with requests that may be lost. The
  reconcile tick ends jobs that nobody reports. Handlers, dispatcher and tick share the tables, a statement at a time.
- Every request but the health checks, and the tick, hold the activity lock for reading and pass the gate, which takes the
  lease if it is free. The idle loop takes the activity lock for writing and yields.
- A commit reaches the local database first and S3 some time later (WAL replication). A crash, or a lost lease, goes back to
  what S3 has. A graceful yield or close syncs first.

What is hard in it, and hard to test: the handler of a push that outlives its request; content that must be durable
before any pointer to it, in a live and in a replicated copy; rows that are read in one statement and used in a later one;
caches that one request refreshes while another works on them; runners that vanish, triggers that time out although they worked, chunks
that come late; secrets edited while they are handed out, and keys that change between two servers; a yield racing a
request; followers waiting for a writer that died. `PROJECT.json` lists these hazards at their lines with the property
that covers each, or the reason why none does.

What makes each component correct, in a sentence: no ref ever points to content that was sent and is not in S3, and a push is all or
nothing (write path, ref store, materializer); no acknowledged write is missing from the next writer's database and
nobody is fenced at work (lease); instances agree on secrets and a root gets one first admin (boot); nobody gets in, or is
kept out, without a cause (authorization); what is over stays over, and what was claimed ends (CI); a runner starts only for what the push
selects, with the secrets of one moment (dispatch); what was saved can be opened (keyring).

## The models

### `WritePath`, with `AtomicRefs` and `MCWritePath`

One repository and a set of pushes. A push has two threads of control: `req[p]` is the request goroutine
(`serveReceivePack`, `Writer.Begin`), `hook[p]` is receive-pack with its hook and `Writer.handle`. Nothing makes the first wait
for the second, as in the code: it waits for http-backend only.

| state | code |
|---|---|
| `refs`, `settings` | tables `refs`, `repos.default_branch`, `acls` of the live database |
| `replica` | the same in the copy S3 has |
| `store[n]` | objects in S3 under the prefix of spelling `n` of the repo's name |
| `disk[n]`, `diskRefs[n]` | the bare repo in the cache directory of that spelling |
| `lock[n]`, `nonces`, `outcome` | `Writer.locks`, `Writer.pushes`, `pushOutcome` |
| `cmds`, `pack`, `todo`, `guard` | ref commands, quarantine, objects still to PUT, the guard inputs read before the lock |
| `broken[p]` | the commands receive-pack has marked as failed (their `error_string`) |
| `fired` | pushes whose after-commit hook ran |
| `leftOut[p]`, `landed` | history: what the client of `p` should have sent and did not; the pushes whose transaction committed |

A commit stands for the objects it adds and `Anc[c]` for its history. The actions are the steps of the two goroutines at
which others can see or change something: lock, hydrate, mirror the refs, start, unpack and check, the
nonce, the guard, each PUT, the CAS, the answer, the update of the on-disk refs, the after-commit hook, the release, and the
failures of each; the client may disconnect at any time, the server may crash at any time, the replica lags by any number
of commits, and an admin edits default branch and grants in between.

Clients may leave history out of a pack (`MayOmit`), by a defect or from a damaged clone. What receive-pack makes of that is in `CheckConnected`, as git's
`execute_commands` has it: a tip whose history it cannot find marks its command and nothing else. Where git looks, and where it stops looking, is the quarantine and the local
repo: `MustMark` and `MayMark` bound what it finds, because it need not look behind a tip that is on disk, and a tip that is on disk as a ref only may fail the whole check.
Then the hook runs with all commands, marked or not (`HookCalls`), and `Writer.handle` asks only for the nonce and the guard. The guard's input comes from
`git merge-base` in the hook, where an error counts as a force (`MayRewrite`). After the hook git moves the refs of the unmarked commands (`Moving`), and
drops the quarantine if there is none. Only a pack that cannot be unpacked at all ends before the hook (`UnpackFails`).

So `ContentBeforePointer`, the claim of `safety.md` section 3, fails for an incomplete pack: that is the run `incomplete_pack`. `ReceivedBeforePointer` is what the
order of PUTs and CAS does give: whatever a ref reaches is in S3 unless a push that committed left it out (`Withheld`). Where clients leave nothing out the two are the same.

Names of a repo with and without `.git` are one repo for the database and two for mutexes, directories and object keys.
`NameOf` gives each push a spelling. The durability properties hold with one spelling in use, which is why the theorem says so;
the run `alias` shows what happens with two. git leaves `GIT_OBJECT_DIRECTORY` unset for a push that carries no pack (checked
with git 2.39.2); the hook stops there.

`AtomicRefs` is the promise behind all this: a push takes effect in one step, in which every ref had the value it named
and all the history it needs is available, except what it or an earlier effective push did not send, or not at all; a crash goes back to a replicated state. `WritePath` implements it under
the mapping at its end: `content` is what S3 has under every spelling, and a push is open until its CAS or its refusal. A push
that git refuses to its client after the CAS is effective all the same.

### `Readers`, with `MCReaders`

The readers of the on-disk repo, composed with all of `WritePath`. `reader[q]` goes through a refresh (`Materialize`, or `MaterializeRefs`
for an advertisement) and then serves: fetch the objects, list the refs of the database, rename a new `packed-refs` into place, remove the loose ref
files one by one. None of these steps waits for a push or for another reader.

| state | code |
|---|---|
| `packed[n]`, `loose[n]` | `packed-refs` of the bare repo, and the refs with a loose file, which hides the packed line |
| `diskRefs[n]` of `WritePath` | what git sees: the loose file, or else the packed line |
| `reader[q]` | where the refresh is, the list it has read, the loose files it has yet to look at |
| `past`, `behind` | history: the values of the refs in this life of the server; the refs a refresh is behind with |

A push's own refresh, under the lock, is one step (`PushMirrors`); `PushFinalizes` says what receive-pack does to the files. The cache may survive a
crash, so it can hold refs and files the restored database never had. `behind` is defined from what moved, not from what a reader
did: `KeepsCurrent` says that a repo falls back to an older value of a ref only by the hand of somebody who read before the ref moved.

`ServedWhole` and `AfterCommitSeesCommit` are about the objects behind what git shows; they except what a committed push left out, and
`AfterCommitSeesCommit` the refs that git marked, which it does not move. `MarkedForCause` is the other side of it: the local repo, by which git judges a push, never makes a complete
push look incomplete, whatever readers, crashes and surviving caches made of it.

### `CiRuns`

One run with its jobs, from the dispatch to the status in the UI. `run`, `job`, `logKey` are the rows, `replica` is their copy
in S3, `logs` the blobs there. `dispatch` is the dispatcher (its stage, file and error counters), `runner[j]` the runner
process, `complete[j]` the handler of a completion with what it has read so far, `sweep` the reconcile tick with the list it has
read, `live[j]` the buffer, `chunks` the log chunks on their way. Each action is one statement of the database or one call of S3,
because the code has no transaction around a check and its write. Where the code logs a failed write and goes on (the status of a job or a run, a roll-up of the tick), so does the
model. Triggers fail, succeed with a lost answer or work; runners
die at any point; answers get lost; a crash empties the memory and restores the replica. Files in `Malformed` get no job.

### `Dispatch`, with `MCDispatch`

What a push starts and with what. The branch filters are operators, from the `on:` key as yaml.v3 presents it (`InterpretOn`) to the regular expression
of a glob: `PieceMatches` is what each character of the glob adds to it, with the second star of a pair skipped as the loop skips it (`Skipped`), and `GlobMatch` asks
whether the name can be cut into one part for each. The first of repeated keys counts. Next to them stands the filter as docs and comments describe it (`Fits`, `Wanted`), written
another way. `MCDispatch` compares `GlobMatch` with a third, recursive matcher on all short patterns and names; `RunsForCause` compares the decisions. `WorkflowAssumption`
says of yaml.v3 only that the values and contents of its nodes are sequences.

`keys` is the keyring of the running server, one of `KeySets`; `stored` is `ci_secrets`, each row a seal that remembers what it was bound to; `saved` is
what the pages were last given; `push[p]` is the dispatch: read the tree and filter (each read may fail), create the run, mint the clone token, load the
secrets once, then one step for each file. Pages save and delete in between, and servers with other keys take over, with the
database as S3 has it. `moments[p]` collects what was saved at each moment of a dispatch. AES-GCM is what it promises: `Opens` needs the same key, repo, name
and version.

### `S3lite` and `Lease`

`S3lite` is an external component: what s3lite promises as `internal/meta/meta.go` documents and uses it. A database is the set of writes
it contains. The lease is free when it was released or when its holder is no longer leader. The expiry of the lease (TTL) is modelled by what
s3lite guarantees about it: a holder that fails to renew stops being leader before another instance can take over. Taking
the lock and restoring the replica (`TryPromote`) is one step. `lost` collects the writes that a crash, a lost lease or
a final sync that failed or came too early took away; there are at most `MaxFaults` of these.

`Lease` is `main.go` on top: `req[r]` goes through `track`, `leaderGate` and its handler, and back; `yield[i]` is
`maybeYield` between its `TryLock` and `Unlock`; `sweep[i]` is `reconcileOnce`; `recent` stands for `lastActive`; `life[i]` is the process
with its SIGTERM drain and the three steps of its end, final sync, release and close, exit. `Shutdown` gives up after a timeout, so requests may still be at work in all three: a write
that commits after the final sync is lost with the release, and counts as a fault like a final sync that failed; `probing` are health checks, which are not tracked. `base[r]` is a history variable: what was
acknowledged to clients when `r` was sent.

`OneDatabase` is what clients may rely on: there is one database, in which a write takes effect in one step while its request is open, and from which
a read is answered as it was at one moment while it was open; a fault takes it back to what was durable. `Lease` implements it under the mapping
at its end. The one database is that of the leader, or the replica when nobody leads, so a yield, a close and a promotion may not change it. What a waiting
request would be answered from is the database as it changes, what an admitted one would be answered from is its instance's copy. Processes that end cut off their clients: a request that had written is
failed for its client, who does not know whether the write took effect; the others may be sent again.
The other modules take the database as `OneDatabase` gives it: the `Replicate` and `Crash` (or `Restart`) of `WritePath`, `CiRuns` and `Dispatch` are its `Sync` and `Lose`.

### `Boot`

`buildGitHandler`'s boot and the `bootstrap` subcommand as processes `pc[i]` on the same `S3lite`: open as writer or follower,
check for an admin, create it, mint and print its token, then get or create the server secret, where a follower waits in
`awaitSecret` for the secret or for the lease; then serve, yield, stop, crash. Any call of the database may fail. The
session key and the worker secret follow the same code and are one secret here. The environment variables that override them and
the optional initial repo of the subcommand are left out. `shown` are the printed tokens, `key[i]` the secret in memory.

An instance that was a follower when it looked for an admin, and becomes the writer of a still empty root later, never
bootstraps it (`main.go:194`). The model has that behaviour; no property is about it.

`OneRoot` is what the operator of a storage root may rely on: the root gets one admin and one secret, each in one step that looks and writes; a token is
printed in the step that stores it, for a root that has an admin; a process signs with a secret of the root, and a fault takes the root back to what was durable. The mapping: the root is
the database of the writer, or the replica while there is none; the other local databases do not appear in it. The code looks in one transaction and writes in another, reads copies that may be old, and
goes on after a bootstrap that failed; that this is never visible is what the refinement says.

### `Access`

The database tables the guard reads, the pages and the dispatcher that write them, and requests whose decision takes several
statements. `Authorize` (git) reads the repo, then the token with its constraints, then the grant: `GetRepo`, `Verify`,
`Decide`. `authorizeRead` (browse pages) reads the viewer first: `Viewer`, `BrowseRepo`, `Decide`. Between any two of them admins may write: every
page passes `RequireAdmin` first and writes later. `postRepo` writes twice and the second write may fail. A cookie outlives the token it was
issued for, and logging out only makes the browser forget it. A token shown may be one that nobody minted (`Forged`). A viewer whose user cannot be read counts as anonymous.

A decision is not atomic, and the model does not pretend that it is: a token may be valid at one moment of the request and the grant
be there at another. What the properties claim is what can be claimed, condition by condition. `held[q]` collects what was true at
*some* moment since the request was sent, `kept[q]` what was true at *every* moment, and `Allows` spells out the rules of
`docs/architecture/auth.md`. Admitted means allowed by `held`; refused means not allowed by `kept`. The rows of tokens
are never changed by the code, only deleted. Ids are abstracted away, so `DeleteToken` may delete any row. `edits` bounds the writes and is no part of the
code.

## The runs

| run | module, cfg | checks | size |
|---|---|---|---|
| `write_path` | MCWritePath, WritePath.cfg | `TypeOK`, `ReceivedBeforePointer`, `CacheBacked`, `EntersUnderLock`, `DefaultBranchKept`, `ImplementsAtomicRefs` | 2 pushes, 2 refs, 3 commits, 1 crash, 1 edit, clients vanish and leave history out |
| `push_requests` | MCReaders, PushRequests.cfg | `RTypeOK`, `Serialized`, `AfterCommitForEachPush`, `AfterCommitSeesCommit`, `ShownIsOfThisLife`, `ServedWhole`, `MarkedForCause`, `KeepsCurrent`, `EveryPushEnds` | 2 pushes, 1 reader again and again, 1 crash, clients stay and leave history out |
| `ci_runs` | CiRuns, CiRuns.cfg | `TypeOK`, `DoneTailIsOver`, `OverForGood`, `LogBeforePointer`, `ClaimedJobsEnd`, `BuffersReclaimed` | 2 files, 1 malformed, 2 crashes, everything fails |
| `dispatch` | MCDispatch, Dispatch.cfg | `TypeOK`, `RunsForCause`, `JobsCarryOneMoment`, `RotationKeepsSecrets` | 1 push, 2 repos, 2 names, 2 values, 2 files, 4 key sets, 2 edits, 2 restarts |
| `lease` | MCLease, Lease.cfg | `TypeOK`, `YieldFencesNothing`, `NextWriterSeesAcked`, `ReadsAreCurrent`, `ImplementsOneDatabase` | 2 instances, 2 requests, 2 faults |
| `lease_turns` | MCLease, LeaseTurns.cfg | `TurnsAreTaken` | 2 instances, 1 request, 1 fault, health checks |
| `boot` | Boot, Boot.cfg | `TypeOK`, `KeysAgree`, `FirstAdminOnce`, `BannerHolds`, `WaitEnds`, `ImplementsOneRoot` | 2 processes, 2 secrets, admins and tokens, 1 fault |
| `access` | Access, Access.cfg | `TypeOK`, `AdmittedForCause`, `RefusedForCause` | 2 users, 2 tokens and a forged one, 2 repos, 1 request, 4 writes |
| `incomplete_pack` | MCWritePath, IncompletePack.cfg | `ContentBeforePointer` violated | 2 pushes that leave history out |
| `alias` | MCWritePath, Alias.cfg | `ContentBeforePointer` violated | 2 pushes with two spellings |
| `vanish` | MCWritePath, Vanish.cfg | `AfterCommitForEachPush` violated | 2 pushes, clients vanish |
| `ci_rollup` | CiRuns, CiRollup.cfg | `RunMatchesJobs` violated | 2 jobs |

Bounds, and why they are enough to meet the cases of interest:

- `write_path`: two pushes contend for the mutex, the nonce and the CAS, one of them by an admin; the commits are a root and two
  diverging children, and the three change sets are two of two refs, with a fast-forward, a force push or a deletion in them, and a deletion alone. A client may leave out each part
  of what it should send, so that tips lack themselves or their history, and the second push builds on what the first withheld; one
  crash can fall between any two steps, with any lag of the replica; one edit makes the guard's inputs stale.
- `push_requests`: the reader overlaps both pushes, with a list older than either, and the cache that survives the crash; a second reader
  would add refreshes that overlap each other, which the theorems cover. A client that disconnects breaks
  `AfterCommitForEachPush` (run `vanish`), and for the same reason `Serialized` and `AfterCommitSeesCommit`, so that run has none.
- `ci_runs`: the malformed file comes first, so that it is skipped before the other file's job exists. The handlers of one job are at most a claim, a chunk, a completion and a sweep at once, and jobs meet only in the run's
  status, which the two-job run `ci_rollup` is about. The first crash loses rows, the second one hits the recovery.
- `dispatch`: workflows with every shape of the `on:` key, alone and in pairs, and branches with none, one and two slashes; two edits are a save and its
  replacement or deletion, around the moment the secrets are loaded; four key sets are none, either version and both, so that a key is added, removed and rolled back.
  A second push would share no state with the first but the tables.
- `lease`: a request at each of two instances, or two at one; two faults allow a lost lease followed by a crash of the successor.
  Instances and requests are symmetric there; the liveness run uses no symmetry.
- `boot`: two processes are a server with another server or with the subcommand; two values for each row let two of them be generated.
- `access`: root and a second user, an unscoped and a scoped token, one that nobody minted, a repo the scoped token is for and another; four writes are the
  longest useful sequence (create the user, create a repo, grant, and then revoke, open or mint). More requests do not interact.

Deadlock is not checked where the system may come to rest (all pushes done, the run over, the bounds used up). Only `boot`
checks it: its processes can always start again.

Fairness, only in the runs with liveness properties:

- `push_requests`: goroutines and child processes that can step do (weak fairness of `Request` and `Handler`), and a
  waiter gets Go's mutex in the end (strong fairness of `Lock`: Go hands a mutex over in FIFO order once a waiter starves). A client that began to send its
  pack is assumed to send the rest there. Nothing is assumed of readers: pushes do not wait for them.
- `ci_runs`: the tick of the reconcile loop, handlers that received a completion, and time; a failing UPDATE does not fail
  for ever (strong fairness of `SweepMark`). Nothing is assumed of runners, clients or the network.
- `lease_turns`: clients answered 503 retry after seconds, ticks come minutes apart and the idle check in between, so that a client meets a free lease,
  and the idle loop a free activity lock, again and again (strong fairness of entering while the lease is free, of the gate and of the yield). Faults are bounded, not fair.
- `boot`: processes go on and the database replicates; an idle writer yields again and again; a follower retries every 500 ms, so it meets a free lease.
  The timeout of the wait is possible and never assumed.

Every property has a mutant, a plausible bug of the code next to the definition it replaces (`\* a mutant`), under
which its run fails.

## The proofs

All for every value of the constants, from the assumptions named in the modules.

| theorem | module | says |
|---|---|---|
| `TypeCorrect` | WritePathProofs | `TypeOK` |
| `Durability`, `CacheIsBacked` | WritePathProofs | `ReceivedBeforePointer`, `CacheBacked`, with one spelling in use |
| `CompletePacksAreDurable` | WritePathProofs | `ContentBeforePointer`, with one spelling in use and clients that leave nothing out |
| `NonceIsBoundToLock` | WritePathProofs | `EntersUnderLock`, with any spellings |
| `DefaultBranchIsKept` | WritePathProofs | `DefaultBranchKept`, with any spellings |
| `PushesSerialize`, `AfterCommitFires` | WritePathProofs | `Serialized` with one spelling, `AfterCommitForEachPush`, where clients stay |
| `RefsAreAtomic` | WritePathProofs | `ImplementsAtomicRefs`, the refinement, with one spelling in use |
| `ReadersTypeCorrect`, `CurrentStaysCurrent` | ReadersProofs | `RTypeOK`, `KeepsCurrent` |
| `DurabilityWithReaders`, `ReadersAreServed`, `ReadersSeeThisLife` | ReadersProofs | `ReceivedBeforePointer` and `CacheBacked` among readers, `ServedWhole`, `ShownIsOfThisLife`, with one spelling |
| `RefsAreAtomicAmongReaders` | ReadersProofs | `ImplementsAtomicRefs` among readers, with one spelling |
| `PushesAmongReaders`, `AfterCommitReads` | ReadersProofs | `Serialized`, `AfterCommitForEachPush` and `AfterCommitSeesCommit` among readers, with one spelling, where clients stay |
| `MarksHaveCauses` | ReadersProofs | `MarkedForCause`, with one spelling, where clients stay |
| `CiTypeCorrect`, `LogsAreDurable`, `DoneTailsAreOver`, `JobsStayOver` | CiRunsProofs | `TypeOK`, `LogBeforePointer`, `DoneTailIsOver`, `OverForGood` |
| `DispatchTypeCorrect`, `JobsAreAlike`, `RotationIsLossless`, `StartsForCause` | DispatchProofs | `TypeOK`, `JobsCarryOneMoment`, `RotationKeepsSecrets`, `RunsForCause` |
| `GlobIsDescribed` | FilterProofs | `GlobMatch(p, name) <=> Fits(p, name)`, for every pattern and name |
| `LeaseTypeCorrect`, `NothingFenced`, `HandOver`, `Freshness` | LeaseProofs | `TypeOK`, `YieldFencesNothing`, `NextWriterSeesAcked`, `ReadsAreCurrent` |
| `ClientsSeeOneDatabase` | LeaseProofs | `ImplementsOneDatabase`, the refinement |
| `BootTypeCorrect`, `OneSecret`, `OneFirstAdmin`, `BannerInForce` | BootProofs | `TypeOK`, `KeysAgree`, `FirstAdminOnce`, `BannerHolds` |
| `RootsAreOne` | BootProofs | `ImplementsOneRoot`, the refinement |
| `AccessTypeCorrect`, `AdmittedRight`, `RefusedRight` | AccessProofs | `TypeOK`, `AdmittedForCause`, `RefusedForCause` |

The inductive invariants, and why they need their parts:

- WritePath, `IInv`: that refs reach only what S3 has, or a committed push left out, is not inductive. A CAS is right because of what the push still
  owes (`InFlightBacked`): from its beginning, the history of its tips is in its pack, in S3, left out by it or withheld before, and what of its pack is not in S3 yet is in `todo`.
  Nothing in it rests on git's check. The commit turns what the push left out into what is withheld, from everybody. `CacheBacked` is there for the cache itself: an object migrated to the local
  repo is in S3 by then. A push that has not begun has no hook and no commit (`IdleHasNoHook`). `CompletePacksAreDurable` adds that nothing was left out (`NothingLeftOut`). The histories (`Anc`) are assumed reflexive and transitive.
  `LockInv` relates a registered nonce to a held lock and yields the action property. `HookInv` (what is being PUT has passed the guard, on inputs
  nobody changes) yields `DefaultBranchKept`. `AttendedInv` says that, where clients stay, a hook thread at work has its request waiting for
  it; with the lock that makes handlers exclude each other. For the refinement, `IInv` turns each action into a step of `AtomicRefs` (begin, commit,
  refuse, replicate, crash, gain content) or a stutter. A step of a reader changes nothing the mapping looks at, and what `Readers` adds to the steps of pushes is local
  disk, so the refinement carries over (`AtomicStep`).
- Readers, `RIInv`: `IInv` and that every list a reader holds and every `packed-refs` is backed by S3 (`ListsBacked`). `BaseHere`: what a reader
  fetched stays on disk. `FreshInv`: in this life, what a refresh has written or is about to uncover is a value of this life, also what a push that has
  committed is about to write (`CommandsFresh`), while files that nobody has refreshed yet may be of an earlier one. `KeepInv`: a
  refresh holds the current value of each ref it is not behind with. `SeenInv` (part of `SInv`), for the after-commit hook: from the refresh of a push to its commit the refs stand
  still, and every value they have had is whole on disk but for what was withheld, so the tips at which git's check stops are, whichever of them a reader uncovers; what it passed is then
  whole too, with the push's own pack (`CheckPasses`). `MarkInv`: once a push has fetched, the history of its tips is in its pack, on disk, left out or withheld, so that a mark names one of the last two.
- CiRuns, `IInv`: nothing exists of the files the dispatcher has not come to (`DispatchInv`, `AheadInv`), and a completion handler's progress is reflected
  in the row and in S3 (`HandlerInv`).
- Dispatch, `IInv`: every row, live and replicated, is bound to its place, to a key some server had and to the value last saved (`SealedInv`); the moment
  at hand has been observed (`MomentInv`); the jobs started, and the secrets kept for the next, are of one moment (`CarryInv`);
  the files a dispatch has still to start are among those its commit and branch select, or it failed to read (`CauseInv`).
- The filters (FilterProofs) have no state. Which stars are skipped is defined by recursion along the pattern: what holds of it is shown of the least position
  where it could fail (`NatMin`). The first star of a run may take all that the description gives to the stars of the run, so each cut of the
  name that the description allows is gathered into one that the code's expression allows (`GatheredMatches`). From the matchers to the decision it is a case for each
  shape of the `on:` key (`TriggeredIsWanted`).
- Lease, `IInv`: the activity lock excludes a yield and its readers (`LockExcludes`); a leader is the holder and its database contains the
  replica (`ReplicaBehind`); every committed write is in the replica, with the leader, or lost (`Accounted`); an admitted request sees what was acknowledged
  before it (`AdmittedSees`). `DownIsQuiet` makes the start of a process harmless. For the refinement, the steps of `S3lite` are sorted by what they make of the one database
  (`S3liteKinds`: kept, copied to an instance, promoted, written, synced, fallen back), where `ReplicaBehind` says why a release after the final sync keeps it and a drop without one
  takes it back to the replica. Each request still sees what it saw, or the database as it is (`LooksOn`), and then a step of one request (`ReqStep`), of an instance (`InstanceStep`)
  and the end of a process (`ExitStep`) are steps of `OneDatabase`.
- Boot, `IInv`: the check for an admin or a secret stays true until the write that relies on it because only the leader writes
  (`ChecksHold`), so there is one of each in every database that counts (`OneOfEach`), and whatever somebody has read or printed is accounted for
  (`Accounted`). Steps of `S3lite` are dealt with once, in the lemmas about them. For the refinement, `ChecksHold` also says that an admin is there when a token is
  minted, and `Generated` that every row has been drawn, so that a new one is new to the root and to what was lost; `RootKinds` sorts the steps of `S3lite` by what they make of the root (kept,
  added to, synced, fallen back), and `RootStep` makes of each action a step of `OneRoot` or a stutter.
- Access, `IInv`: for each request, the histories are what they say (`Watched`), and what it has read is reflected in them
  (`ReadsStand`: the repo row in `RepoRead`, the token in `TokenRead`, the viewer in `ViewerRead`). A change of the database moves no
  request, a step of a request changes no table and so adds nothing to its histories (`TurnsWatched`); then one lemma for each statement
  of the decision.

Only model-checked: the liveness properties (`EveryPushEnds`, `ClaimedJobsEnd`, `BuffersReclaimed`, `TurnsAreTaken`, `WaitEnds`). Liveness under fairness, and
`ENABLED`, are beyond the prover. The properties of the violation runs are false and so have no theorem.

## Where the code and its documentation differ

Each is a run with one property, quoted from the documentation, that TLC violates:

- `incomplete_pack`: `receive.go:276-277` says of the handler "It never leaves a ref that points at a missing object.", `safety.md:80-81` calls such a ref "the one true corruption".
  git hands the commands of a push whose history is incomplete to its hook, the handler commits them, and git then tells the client that the push failed.
  `storage.md:51-52` relies on git's check as well; it protects the local refs only.
- `alias`: `urls.md:47-48` promises that a clone with `.git` reaches the same repo. It reaches the same refs, but mutex, cache and object keys are
  those of the spelling in the URL (`receive.go:392`).
- `vanish`: `receive.go:54` runs the after-commit hook "once for each push that advanced refs". A client that disconnects while the handler is at work
  advances refs without it, and releases the mutex early.
- `ci_rollup`: the comment of `rollupRun` (`report.go:246-248`) is about one caller at a time. With two, the older list may be written last and the run stays running.

Known and without a run of their own:

- `auth.md:35-36` lets a collaborator delete branches. A push of deletions only ends in the hook (`gitmote-hook/main.go:41`), since git makes no quarantine for it: `HookWithoutQuarantine`
  is all that happens, in one step.
- `ci.md:91-92` shows a malformed workflow as a failed run. The roll-up of the other jobs overwrites it; and as long as the second job has no row,
  the roll-up of the first alone may set the run's status.
- `materialize.go:216-217` says that the object behind every ref is on disk because hydration runs first. Objects and refs are read at two moments:
  a push that commits in between is listed, while its objects are still in the quarantine until receive-pack ends. `ServedWhole` claims what holds: the refs that point into
  what was committed when the objects were listed. Browse pages answer 404 for such a ref for a moment.
- A refresh by a reader may put an older list over what a push is about to update. receive-pack then fails to move its local ref and tells the client
  that the push failed, although the refs have been committed. The next refresh repairs the repo.
- git refuses to delete the branch that HEAD names after the hook has run, when the refs have been committed. In the model such a deletion moves the local ref; the next refresh agrees with it.
- A key set rolled back to an older one cannot open what a newer key sealed: pages and dispatch report it, and jobs then run without the repo's
  stored secrets.
- A workflow that could not be read when it was filtered is run although its filter might exclude the branch (`dispatcher.go:214`).
- A job stays queued for ever if its runner never starts (`ci.go:287`); a completion is accepted for a queued job too.
- Two completions, or a completion and a sweep, may both see a job that is not over, and the later
  one overwrites the terminal status (`report.go:173`; `OverForGood` says what still holds).
- The guard judges a push by the default
  branch and the role read before the wait for the mutex: `DefaultBranchKept` allows for it, the version without that allowance fails with one edit.
- Row ids are reused after the newest row is deleted or lost (`users.go:243`, `ci.go:35`), so a second revocation from an old page may name another row.

## What is not modelled

- The parsing of the process environment into env secrets (`EnvSecrets` is a constant, `RepoKey` may map two repos to one key), names of
  secrets and their reserved ones, nonces of the cipher, the key material behind a version.
- What git does after its hook for reasons of its own (hooks other than pre-receive, refused deletions of HEAD's branch, `receive.*` settings that gitmote does not set), the sidebands and reports to the client.
- HEAD of the bare repo and its creation, and a mirror that fails half-way for lack of local disk.
- What the pages show, Markdown and ANSI rendering, the diff and tree readers of `internal/repo/browse.go`: they change nothing.
- The S3 client: a PUT makes a key visible to later reads, which is what S3 guarantees; retries and paging of the SDK are left out.
- Inside of the runner: clone and act are one step that ends with any result, or never.
- Caps and offsets of the live log, hashing of tokens and signing of cookies, clocks: `old`, `idle` and expiry are events that may happen when they can.

## Plan

Built, in this order, the most important behaviour first: `AtomicRefs` and `WritePath` with its proofs, up to the refinement; `CiRuns` with proofs; `S3lite` and
`Lease` with proofs, up to the refinement of `OneDatabase`; `Boot` with proofs, up to the refinement of `OneRoot`; `Access` with proofs; `Readers` with proofs; `Dispatch` with proofs, the filters included.

Next, if the models are extended:

1. Several runs in `CiRuns`, with ids that are reused after a crash, so that a runner of a lost job meets a later one. The code cannot tell the two
   apart, so what can be claimed is bounded by that.
2. The refs of a repo in `Readers` together with HEAD and its creation, and a mirror that fails half-way.
3. The composition of `Dispatch` with the after-commit hook of `WritePath`: the commit a dispatch reads is the one the push made of the branch, or a later one.
4. The stages of the runner (clone, act, upload) with the timeouts of each.
