------------------------------ MODULE Dispatch ------------------------------
(***************************************************************************)
(* What a push starts, and with which secrets: the decision of the CI      *)
(* dispatcher (src/internal/ci/dispatcher.go) over the branch filters of   *)
(* the workflows (triggers.go), the CI secrets of a repo, sealed by a      *)
(* keyring (src/internal/secrets) in a table that the management pages     *)
(* write (src/internal/webui/webui.go), and those of the process env       *)
(* (envsecrets.go).  CiRuns has what becomes of the run it records.        *)
(*                                                                         *)
(* A YAML node is a record of its kind, value and content, as in yaml.v3:  *)
(* the content of a mapping is its keys and values in turn.  A value is a  *)
(* sequence of characters, in which a keyword is one character.            *)
(***************************************************************************)
EXTENDS Naturals, Sequences

CONSTANTS Repo, Name, Value, File, Push,
          NoValue,    \* what a name without a secret has
          NoRow,      \* a name without a row of ci_secrets
          NoEnv,      \* a file no runner was triggered for
          Version,    \* the versions of the master key
          KeySets,    \* the sets of versions a server may be started with
          Commit,     \* the commits: commit[f] is the workflow in file f, if any
          Branch,     \* the names of branches
          RepoKey,    \* repoKey: the spelling of a repo's name in the env
          EnvSecrets, \* LoadEnvSecrets: EnvSecrets[k][n]
          MayFail,    \* whether reads of the repo, the DB and triggers may fail
          MaxEdits,   \* bound: secrets saved or deleted
          MaxCrashes  \* bound: restarts of the server

Secrets == [Name -> Value \union {NoValue}]

ASSUME DispatchAssumption ==
    /\ NoValue \notin Value
    /\ Repo # {} /\ KeySets # {}
    /\ Version \subseteq Nat /\ KeySets \subseteq SUBSET Version
    /\ \A K \in KeySets : K # {} => \E v \in K : \A w \in K : w <= v
    /\ \A c \in Commit : DOMAIN c \subseteq File
    /\ \A r \in Repo : EnvSecrets[RepoKey[r]] \in Secrets
    /\ NoRow \notin [v : Version, sealed : [key : Version, repo : Repo, name : Name,
                                            v : Version, value : Value]]
    /\ NoEnv \notin Secrets
    /\ MayFail \in BOOLEAN
    /\ MaxEdits \in Nat /\ MaxCrashes \in Nat

VARIABLES
    keys,     \* the versions in the keyring of the server
    seen,     \* the versions a server ever had
    stored,   \* stored[r][n]: the row of ci_secrets
    saved,    \* saved[r][n]: the value that was saved last
    replica,  \* stored and saved, as S3 has them
    push,     \* push[p]: the dispatch of a push
    env,      \* env[p][f]: the secrets the runner of file f was triggered with
    moments,  \* moments[p]: what was saved, at each moment of the dispatch
    edits,    \* the secrets saved or deleted so far
    crashes   \* number of restarts so far

table == <<stored, saved>>
vars == <<keys, seen, table, replica, push, env, moments, edits, crashes>>

NoSecrets == [n \in Name |-> NoValue]
-----------------------------------------------------------------------------
(* globMatch and the branch filters *)

\* globMatch writes a regular expression, character by character of the glob, and
\* asks whether it matches: whether name can be cut into one part for each
\* character.  cut[i] is the length of what the first i of them take.
Cuts(p, name) == {cut \in [0..Len(p) -> 0..Len(name)] :
                     /\ cut[0] = 0 /\ cut[Len(p)] = Len(name)
                     /\ \A i \in 1..Len(p) : cut[i - 1] <= cut[i]}
Part(name, cut, i) == SubSeq(name, cut[i - 1] + 1, cut[i])

\* The i++ of the loop: the second star of a pair adds nothing of its own.
Skipped(p) ==
    LET skipped[i \in 1..Len(p)] ==
          i > 1 /\ p[i] = "*" /\ p[i - 1] = "*" /\ ~skipped[i - 1]
    IN  skipped

\* What character i of the glob adds, an escaped character, nothing, .* or [^/]*,
\* matches s.
Slashless(s) == \A k \in DOMAIN s : s[k] # "/"
PieceMatches(p, i, s) ==
    IF p[i] # "*" THEN s = <<p[i]>>
    ELSE IF Skipped(p)[i] THEN s = <<>>
    ELSE (i < Len(p) /\ p[i + 1] = "*") \/ Slashless(s)

GlobMatch(p, name) == \E cut \in Cuts(p, name) :
    \A i \in 1..Len(p) : PieceMatches(p, i, Part(name, cut, i))

\* mapValue: the value of the first key k, in a sequence of at most one.
ValuesOf(node, k) ==
    LET at == {i \in 1..Len(node.content) \div 2 : node.content[2 * i - 1].value = k}
    IN  IF at = {} THEN <<>>
        ELSE LET i == CHOOSE i \in at : \A j \in at : i <= j IN <<node.content[2 * i]>>

\* seqStrings: a scalar, or the scalars of a sequence.
SeqStrings(nodes) ==
    IF nodes = <<>> THEN {}
    ELSE CASE nodes[1].kind = "scalar"   -> {nodes[1].value}
           [] nodes[1].kind = "sequence" ->
                {nodes[1].content[i].value : i \in
                    {i \in DOMAIN nodes[1].content : nodes[1].content[i].kind = "scalar"}}
           [] OTHER -> {}

\* The trigger, the allow-list and the deny-list that the `on:` key declares.
InterpretOn(on) ==
    LET bare(reacts) == [reacts |-> reacts, branches |-> {}, ignore |-> {}]
        pushed == ValuesOf(on, <<"push">>)
    IN  CASE on.kind = "scalar"   -> bare(on.value = <<"push">>)
          [] on.kind = "sequence" -> bare(\E i \in DOMAIN on.content :
                                            /\ on.content[i].kind = "scalar"
                                            /\ on.content[i].value = <<"push">>)
          [] on.kind = "mapping"  ->
               IF pushed = <<>> \/ pushed[1].kind # "mapping" THEN bare(pushed # <<>>)
               ELSE [reacts   |-> TRUE,
                     branches |-> SeqStrings(ValuesOf(pushed[1], <<"branches">>)),
                     ignore   |-> SeqStrings(ValuesOf(pushed[1], <<"branches-ignore">>))]
          [] OTHER -> bare(FALSE)

AnyGlob(patterns, branch) == \E p \in patterns : GlobMatch(p, branch)
MatchesAnyAllowed(trig, branch) ==                               \* a mutant
    trig.reacts /\ (trig.branches # {} => AnyGlob(trig.branches, branch))
Matches(trig, branch) ==
    /\ trig.reacts
    /\ trig.branches # {} => AnyGlob(trig.branches, branch)
    /\ ~AnyGlob(trig.ignore, branch)

\* triggeredBy keeps a file that it cannot read or parse.
TriggeredBy(workflow, branch) ==
    ~workflow.parses \/ Matches(InterpretOn(workflow.on), branch)
Triggered == [c \in Commit |-> [b \in Branch |-> {f \in DOMAIN c : TriggeredBy(c[f], b)}]]
-----------------------------------------------------------------------------
(* The filter as docs and comments describe it, to compare with *)

\* Each character of p stands for itself, a star for a run of anything but
\* slashes, and a star next to a star for a run of anything.
StandsFor(p, i, s) ==
    IF p[i] # "*" THEN s = <<p[i]>>
    ELSE (\E j \in {i - 1, i + 1} \cap DOMAIN p : p[j] = "*") \/ Slashless(s)
Fits(p, name) == \E cut \in Cuts(p, name) :
    \A i \in 1..Len(p) : StandsFor(p, i, Part(name, cut, i))

\* Some of the words in node fits the branch.  A key stands for its first value.
Words(node) == CASE node.kind = "scalar"   -> {node}
                 [] node.kind = "sequence" -> {node.content[i] : i \in DOMAIN node.content}
                 [] OTHER -> {}
Under(node, k) ==
    LET named(i) == i % 2 = 1 /\ node.content[i].value = k
    IN  {node.content[i + 1] : i \in {i \in 1..Len(node.content) - 1 :
                                       named(i) /\ \A j \in 1..i - 1 : ~named(j)}}
Listed(node, k, branch) ==
    \E v \in Under(node, k) : \E w \in Words(v) : w.kind = "scalar" /\ Fits(w.value, branch)
Constrains(node, k) ==
    \E v \in Under(node, k) : \E w \in Words(v) : w.kind = "scalar"
Wanted(workflow, branch) ==
    \/ ~workflow.parses
    \/ /\ workflow.on.kind \in {"scalar", "sequence"}
       /\ \E w \in Words(workflow.on) : w.kind = "scalar" /\ w.value = <<"push">>
    \/ /\ workflow.on.kind = "mapping"
       /\ \E v \in Under(workflow.on, <<"push">>) :
            v.kind = "mapping" =>
              /\ Constrains(v, <<"branches">>) => Listed(v, <<"branches">>, branch)
              /\ ~Listed(v, <<"branches-ignore">>, branch)
Causes == [c \in Commit |-> [b \in Branch |-> {f \in DOMAIN c : Wanted(c[f], b)}]]

\* What yaml.v3 gives of a document: values and contents are sequences.
AsSeq(s) == s \in Seq({s[i] : i \in DOMAIN s})
NodeOK(n) == AsSeq(n.value) /\ AsSeq(n.content)
Below(S) == UNION {{n.content[i] : i \in DOMAIN n.content} : n \in S}
WellFormed ==
    /\ \A b \in Branch : AsSeq(b)
    /\ \A c \in Commit : \A f \in DOMAIN c :
         LET top == {c[f].on}
         IN  \A n \in top \union Below(top) \union Below(Below(top))
                     \union Below(Below(Below(top))) : NodeOK(n)
ASSUME WorkflowAssumption == WellFormed
-----------------------------------------------------------------------------
(* The keyring and the secrets *)

\* The highest version seals.
CurrentAbove == (CHOOSE v \in keys : \A w \in keys : w <= v) + 1  \* a mutant
Current == CHOOSE v \in keys : \A w \in keys : w <= v

\* Encrypt: the key, and the repo, name and version that the seal is bound to.
Seal(r, n, x) ==
    [v |-> Current,
     sealed |-> [key |-> Current, repo |-> r, name |-> n, v |-> Current, value |-> x]]

\* Decrypt opens a row under the key of its own version, or fails.
Opens(r, n) ==
    LET e == stored[r][n]
    IN  /\ e.v \in keys
        /\ e.sealed.key = e.v
        /\ e.sealed.repo = r /\ e.sealed.name = n /\ e.sealed.v = e.v

\* Service.Secrets: every secret of the repo, or an error and none of them.
Openable(r) == \A n \in Name : stored[r][n] # NoRow => Opens(r, n)
Plain(r) == [n \in Name |-> IF stored[r][n] = NoRow THEN NoValue
                            ELSE stored[r][n].sealed.value]
Loaded(r) == IF Openable(r) THEN Plain(r) ELSE NoSecrets

\* repoSecrets: those of the env win.
Overlay(r, m) == [n \in Name |-> IF EnvSecrets[RepoKey[r]][n] # NoValue
                                 THEN EnvSecrets[RepoKey[r]][n] ELSE m[n]]
-----------------------------------------------------------------------------
NoPush == [at |-> "none", repo |-> CHOOSE r \in Repo : TRUE, files |-> {}, cause |-> {},
           broken |-> {}, secrets |-> NoSecrets, run |-> "none"]

Init ==
    /\ keys \in KeySets
    /\ seen = keys
    /\ stored = [r \in Repo |-> [n \in Name |-> NoRow]]
    /\ saved = [r \in Repo |-> NoSecrets]
    /\ replica = [stored |-> stored, saved |-> saved]
    /\ push = [p \in Push |-> NoPush]
    /\ env = [p \in Push |-> [f \in File |-> NoEnv]]
    /\ moments = [p \in Push |-> {}]
    /\ edits = 0
    /\ crashes = 0

InFlight(p) == push[p].at \notin {"none", "done", "lost"}
Observe == moments' = [p \in Push |->
    IF InFlight(p)' THEN moments[p] \union {saved'[push'[p].repo]} ELSE moments[p]]
-----------------------------------------------------------------------------
(* The management pages *)

Edit ==
    /\ edits < MaxEdits
    /\ edits' = edits + 1
    /\ UNCHANGED <<keys, seen, replica, push, env, crashes>>
    /\ Observe

\* The upsert replaces the version with the seal.
UpsertedOld(old, new) ==                                        \* a mutant
    IF old = NoRow THEN new ELSE [new EXCEPT !.v = old.v]
Upserted(old, new) == new

\* postSecret: refused without a key.
SetSecret(r, n, x) ==
    /\ keys # {}
    /\ stored' = [stored EXCEPT ![r][n] = Upserted(@, Seal(r, n, x))]
    /\ saved' = [saved EXCEPT ![r][n] = x]
    /\ Edit

\* postDeleteSecret.
DeleteSecret(r, n) ==
    /\ stored[r][n] # NoRow
    /\ stored' = [stored EXCEPT ![r][n] = NoRow]
    /\ saved' = [saved EXCEPT ![r][n] = NoValue]
    /\ Edit
-----------------------------------------------------------------------------
(* Dispatch and recordRun *)

Moves(p, from, to) == push[p].at = from /\ push' = [push EXCEPT ![p].at = to]
DispatchFrame == UNCHANGED <<keys, seen, table, replica, edits, crashes>> /\ Observe
Quietly == UNCHANGED env /\ DispatchFrame

\* A branch is created or updated; Materialize is called.
Begin(p) ==
    /\ push[p].at = "none"
    /\ \E r \in Repo : push' = [push EXCEPT ![p].at = "reading", ![p].repo = r]
    /\ Quietly

\* A tag or a deletion: nothing to do.
Ignore(p) == Moves(p, "none", "done") /\ Quietly

\* The tree of workflows is read and each file filtered, those in lost after a
\* failed read.  broken: those that validate will refuse.
Discover(p) ==
    /\ push[p].at = "reading"
    /\ \E c \in Commit, b \in Branch : \E lost \in IF MayFail THEN SUBSET DOMAIN c ELSE {{}} :
         LET files == lost \union Triggered[c][b]
         IN  push' = [push EXCEPT
                        ![p].at = IF files = {} THEN "done" ELSE "recording",
                        ![p].files = files,
                        ![p].cause = lost \union Causes[c][b],
                        ![p].broken = {f \in files : ~c[f].valid}]
    /\ Quietly

\* Materialize or Tree fails: recordErrorRun.
RecordErrorRun(p) ==
    /\ MayFail
    /\ push[p].at = "reading"
    /\ \E s \in {"recorded", "unrecorded"} :
         push' = [push EXCEPT ![p].at = "done", ![p].run = s]
    /\ Quietly

CreateRun(p) ==
    /\ push[p].at = "recording"
    /\ \/ push' = [push EXCEPT ![p].at = "minting", ![p].run = "recorded"]
       \/ MayFail /\ push' = [push EXCEPT ![p].at = "done", ![p].run = "unrecorded"]
    /\ Quietly

\* mintCloneToken, whose row Access has: with or without it the run goes on.
MintCloneToken(p) == Moves(p, "minting", "loading") /\ Quietly

\* repoSecrets, once for all jobs; without those of the DB if they fail to load.
RepoSecrets(p) ==
    /\ push[p].at = "loading"
    /\ \E m \in {Loaded(push[p].repo)} \union IF MayFail THEN {NoSecrets} ELSE {} :
         push' = [push EXCEPT ![p].at = "files", ![p].secrets = Overlay(push[p].repo, m)]
    /\ Quietly

\* The secrets in the environment of a job.
JobEnvFresh(p) == Overlay(push[p].repo, Loaded(push[p].repo))   \* a mutant
JobEnv(p) == push[p].secrets

\* CreateJob and Trigger; whatever Trigger returns, the runner may be started.
StartJob(p, f) ==
    /\ push[p].at = "files"
    /\ f \in push[p].files \ push[p].broken
    /\ push' = [push EXCEPT ![p].files = @ \ {f}]
    /\ env' = [env EXCEPT ![p][f] = JobEnv(p)]
    /\ DispatchFrame

\* A broken file, or one whose CreateJob fails, gets no job.
SkipFile(p, f) ==
    /\ push[p].at = "files"
    /\ f \in push[p].files
    /\ f \in push[p].broken \/ MayFail
    /\ push' = [push EXCEPT ![p].files = @ \ {f}]
    /\ Quietly

\* The end of recordRun; the status it gives the run is CiRuns' EndDispatch.
EndRun(p) == push[p].files = {} /\ Moves(p, "files", "done") /\ Quietly
-----------------------------------------------------------------------------
(* The server *)

Replicate ==
    /\ crashes < MaxCrashes
    /\ replica' = [stored |-> stored, saved |-> saved]
    /\ replica' # replica
    /\ UNCHANGED <<keys, seen, table, push, env, edits, crashes>>
    /\ Observe

\* The server dies, or is replaced; the next one may have other keys.
Restart ==
    /\ crashes < MaxCrashes
    /\ crashes' = crashes + 1
    /\ keys' \in KeySets
    /\ seen' = seen \union keys'
    /\ stored' = replica.stored
    /\ saved' = replica.saved
    /\ push' = [p \in Push |-> IF InFlight(p) THEN [push[p] EXCEPT !.at = "lost"] ELSE push[p]]
    /\ UNCHANGED <<replica, env, edits>>
    /\ Observe

Pages == \E r \in Repo, n \in Name : DeleteSecret(r, n) \/ \E x \in Value : SetSecret(r, n, x)
Step(p) == \/ Discover(p) \/ RecordErrorRun(p) \/ CreateRun(p)
           \/ MintCloneToken(p) \/ RepoSecrets(p) \/ EndRun(p)
           \/ \E f \in File : StartJob(p, f) \/ SkipFile(p, f)

Next == \/ Pages \/ Replicate \/ Restart
        \/ \E p \in Push : Begin(p) \/ Ignore(p) \/ Step(p)

Spec == Init /\ [][Next]_vars
-----------------------------------------------------------------------------
(* Properties *)

Row == [v : Version, sealed : [key : Version, repo : Repo, name : Name, v : Version,
                               value : Value]]
Table == [stored : [Repo -> [Name -> Row \union {NoRow}]], saved : [Repo -> Secrets]]

PushType == [at : {"none", "reading", "recording", "minting", "loading", "files", "done", "lost"},
             repo : Repo, files : SUBSET File, cause : SUBSET File, broken : SUBSET File,
             secrets : Secrets, run : {"none", "recorded", "unrecorded"}]
TypeOK ==
    /\ keys \in KeySets
    /\ seen \subseteq Version
    /\ stored \in [Repo -> [Name -> Row \union {NoRow}]]
    /\ saved \in [Repo -> Secrets]
    /\ replica \in Table
    /\ push \in [Push -> PushType]
    /\ env \in [Push -> [File -> Secrets \union {NoEnv}]]
    /\ moments \in [Push -> SUBSET Secrets]
    /\ edits \in Nat /\ crashes \in Nat

(***************************************************************************)
(* A runner is started only for a file whose filter selects the branch, as *)
(* comments and docs describe filters, or that could not be read when it   *)
(* was filtered; and the dispatch of a push that has such a file leaves a  *)
(* run, or in the log the error of CreateRun (triggeredBy, globMatch).     *)
(***************************************************************************)
RunsForCause == \A p \in Push :
    /\ \A f \in File : env[p][f] # NoEnv => f \in push[p].cause
    /\ push[p].at = "done" /\ push[p].cause # {} => push[p].run # "none"

(***************************************************************************)
(* The jobs of a run all get the same secrets, and what they get of the    *)
(* table is what was saved for their repo at one moment of the dispatch,   *)
(* complete, or nothing: never a part, never a mix of before and after an  *)
(* edit, never what another repo has (Service.Secrets, repoSecrets).       *)
(***************************************************************************)
JobsCarryOneMoment == \A p \in Push : \E m \in moments[p] \union {NoSecrets} :
    \A f \in File : env[p][f] # NoEnv => env[p][f] = Overlay(push[p].repo, m)

(***************************************************************************)
(* Rotation by addition loses nothing: a server that has every key version *)
(* any server before it had opens every stored secret, and finds the value *)
(* that was saved last (Keyring's comment, docs/configuration.md).         *)
(***************************************************************************)
RotationKeepsSecrets == seen \subseteq keys =>
    \A r \in Repo : Openable(r) /\ Plain(r) = saved[r]

=============================================================================
