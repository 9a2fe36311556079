--------------------------- MODULE DispatchProofs ---------------------------
(***************************************************************************)
(* Proofs about Dispatch, for any repos, secrets, key versions, workflows  *)
(* and pushes.                                                             *)
(***************************************************************************)
EXTENDS FilterProofs

\* A row is sealed under a version some server had, bound to its place, and
\* holds what was saved.
SealedIn(tab, r, n) ==
    IF tab.stored[r][n] = NoRow THEN tab.saved[r][n] = NoValue
    ELSE /\ tab.stored[r][n].v \in seen
         /\ tab.stored[r][n].sealed.key = tab.stored[r][n].v
         /\ tab.stored[r][n].sealed.repo = r
         /\ tab.stored[r][n].sealed.name = n
         /\ tab.stored[r][n].sealed.v = tab.stored[r][n].v
         /\ tab.stored[r][n].sealed.value = tab.saved[r][n]
Now == [stored |-> stored, saved |-> saved]
SealedInv == /\ keys \subseteq seen
             /\ \A r \in Repo, n \in Name : SealedIn(Now, r, n) /\ SealedIn(replica, r, n)

\* A dispatch under way has seen what is saved now.
MomentInv == \A p \in Push : InFlight(p) => saved[push[p].repo] \in moments[p]

\* The secrets of the jobs, and those at hand for the next, are of one moment.
Carries(p, m) ==
    /\ push[p].at = "files" => push[p].secrets = Overlay(push[p].repo, m)
    /\ \A f \in File : env[p][f] # NoEnv => env[p][f] = Overlay(push[p].repo, m)
CarryInv == \A p \in Push :
    /\ push[p].at \in {"none", "reading", "recording", "minting", "loading"} =>
         \A f \in File : env[p][f] = NoEnv
    /\ \E m \in moments[p] \union {NoSecrets} : Carries(p, m)

\* A dispatch has the files that are left of its cause, and no job without a run.
Working == {"minting", "loading", "files"}
Caused(p) ==
    /\ push[p].at \in {"none", "reading"} => push[p].cause = {}
    /\ push[p].at \in Working \union {"recording"} => push[p].files \subseteq push[p].cause
    /\ push[p].at \in Working => push[p].run = "recorded"
    /\ \A f \in File : env[p][f] # NoEnv => f \in push[p].cause
    /\ push[p].at = "done" /\ push[p].cause # {} => push[p].run # "none"
CauseInv == \A p \in Push : Caused(p)

IInv == TypeOK /\ SealedInv /\ MomentInv /\ CarryInv

LEMMA PushShape ==
  ASSUME TypeOK
  PROVE  push \in [Push -> PushType]
  BY DEF TypeOK

LEMMA NoSecretsType == NoSecrets \in Secrets
  BY DEF NoSecrets, Secrets

LEMMA OverlayType ==
  ASSUME NEW r \in Repo, NEW m \in Secrets
  PROVE  Overlay(r, m) \in Secrets
  <1>1. EnvSecrets[RepoKey[r]] \in Secrets
    BY DispatchAssumption
  <1> QED BY <1>1 DEF Overlay, Secrets

\* The seals depend on nothing but the tables, their copy and the keys.
LEMMA SealedFollows ==
  ASSUME SealedInv, UNCHANGED <<keys, seen, stored, saved, replica>>
  PROVE  SealedInv'
  <1>1. Now' = Now
    BY DEF Now
  <1>2. \A r \in Repo, n \in Name : /\ SealedIn(Now, r, n)' = SealedIn(Now, r, n)
                                   /\ SealedIn(replica, r, n)' = SealedIn(replica, r, n)
    BY <1>1 DEF SealedIn
  <1> QED BY <1>2 DEF SealedInv

\* The keyring seals under a version it has.
LEMMA CurrentIn ==
  ASSUME TypeOK, keys # {}
  PROVE  Current \in keys
  BY DispatchAssumption DEF TypeOK, Current

\* What is loaded is what was saved, or nothing.
LEMMA LoadedIsSaved ==
  ASSUME TypeOK, SealedInv, NEW r \in Repo
  PROVE  /\ Plain(r) = saved[r]
         /\ Loaded(r) \in {saved[r], NoSecrets} /\ Loaded(r) \in Secrets
         /\ seen \subseteq keys => Openable(r)
  <1>1. saved[r] \in Secrets
    BY DEF TypeOK
  <1>2. \A n \in Name : Plain(r)[n] = saved[r][n]
    BY DEF Plain, SealedInv, SealedIn, Now
  <1>3. Plain(r) = saved[r]
    BY <1>1, <1>2 DEF Plain, Secrets
  <1>4. seen \subseteq keys => Openable(r)
    BY DEF Openable, Opens, SealedInv, SealedIn, Now
  <1> QED BY <1>1, <1>3, <1>4, NoSecretsType DEF Loaded

-----------------------------------------------------------------------------
LEMMA InitOK == Init => IInv
  <1> SUFFICES ASSUME Init PROVE IInv
    OBVIOUS
  <1>1. NoPush \in PushType /\ NoPush.at = "none"
    BY DispatchAssumption, NoSecretsType DEF NoPush, PushType
  <1>2. TypeOK
    BY <1>1, DispatchAssumption, NoSecretsType DEF Init, TypeOK, PushType, Table
  <1>3. SealedInv
    BY DEF Init, SealedInv, SealedIn, Now, NoSecrets
  <1>4. MomentInv
    BY <1>1 DEF Init, MomentInv, InFlight
  <1>5. CarryInv
    BY <1>1 DEF Init, CarryInv, Carries
  <1> QED BY <1>2, <1>3, <1>4, <1>5 DEF IInv

\* A step of a dispatch and an edit of the table leave these types alone.
LEMMA ObserveType ==
  ASSUME TypeOK, Observe, saved' \in [Repo -> Secrets], push' \in [Push -> PushType]
  PROVE  /\ moments' \in [Push -> SUBSET Secrets]
         /\ \A p \in Push : moments[p] \subseteq moments'[p]
         /\ MomentInv'
  BY DEF Observe, TypeOK, MomentInv, InFlight, PushType

\* A step of one dispatch: what it has to show.
LEMMA DispatchStep ==
  ASSUME IInv, NEW p \in Push, DispatchFrame,
         NEW e \in PushType, push' = [push EXCEPT ![p] = e],
         NEW g \in [File -> Secrets \union {NoEnv}], env' = [env EXCEPT ![p] = g],
         e.at \in {"none", "reading", "recording", "minting", "loading"} =>
            \A f \in File : g[f] = NoEnv,
         \E m \in moments'[p] \union {NoSecrets} :
            /\ e.at = "files" => e.secrets = Overlay(e.repo, m)
            /\ \A f \in File : g[f] # NoEnv => g[f] = Overlay(e.repo, m)
  PROVE  IInv'
  <1>1. push' \in [Push -> PushType] /\ push'[p] = e /\ \A q \in Push : q # p => push'[q] = push[q]
    BY PushShape DEF IInv
  <1>2. /\ env' \in [Push -> [File -> Secrets \union {NoEnv}]]
        /\ env'[p] = g /\ \A q \in Push : q # p => env'[q] = env[q]
    BY DEF IInv, TypeOK
  <1>3. /\ moments' \in [Push -> SUBSET Secrets]
        /\ \A q \in Push : moments[q] \subseteq moments'[q]
        /\ MomentInv'
    BY <1>1, ObserveType DEF DispatchFrame, IInv, TypeOK, table
  <1>4. TypeOK'
    <2>1. UNCHANGED <<keys, seen, stored, saved, replica, edits, crashes>>
      BY DEF DispatchFrame, table
    <2>2. TypeOK
      BY DEF IInv
    <2>3. /\ keys' \in KeySets /\ seen' \subseteq Version /\ replica' \in Table
          /\ edits' \in Nat /\ crashes' \in Nat
          /\ stored' \in [Repo -> [Name -> Row \union {NoRow}]] /\ saved' \in [Repo -> Secrets]
      BY <2>1, <2>2 DEF TypeOK
    <2> QED BY <1>1, <1>2, <1>3, <2>3 DEF TypeOK
  <1>5. SealedInv'
    <2>1. UNCHANGED <<keys, seen, stored, saved, replica>>
      BY DEF DispatchFrame, table
    <2> QED BY <2>1, SealedFollows DEF IInv
  <1>6. CarryInv'
    <2> SUFFICES ASSUME NEW q \in Push
                 PROVE  /\ push'[q].at \in {"none", "reading", "recording", "minting", "loading"} =>
                             \A f \in File : env'[q][f] = NoEnv
                        /\ \E m \in moments'[q] \union {NoSecrets} :
                             /\ push'[q].at = "files" =>
                                  push'[q].secrets = Overlay(push'[q].repo, m)
                             /\ \A f \in File : env'[q][f] # NoEnv =>
                                  env'[q][f] = Overlay(push'[q].repo, m)
      BY DEF CarryInv, Carries, Overlay
    <2>1. CASE q = p
      BY <1>1, <1>2, <2>1
    <2>2. CASE q # p
      BY <1>1, <1>2, <1>3, <2>2 DEF IInv, CarryInv, Carries
    <2> QED BY <2>1, <2>2
  <1> QED BY <1>3, <1>4, <1>5, <1>6 DEF IInv

Early == {"none", "reading", "recording", "minting", "loading"}

\* A step that starts no job and loads no secrets.
LEMMA QuietStep ==
  ASSUME IInv, NEW p \in Push, Quietly,
         NEW e \in PushType, push' = [push EXCEPT ![p] = e],
         e.at \in Early => push[p].at \in Early,
         e.at = "files" => push[p].at = "files" /\ e.secrets = push[p].secrets,
         e.repo = push[p].repo \/ push[p].at \in Early
  PROVE  IInv'
  <1>1. env' = [env EXCEPT ![p] = env[p]] /\ env[p] \in [File -> Secrets \union {NoEnv}]
    BY DEF Quietly, IInv, TypeOK
  <1>2. moments[p] \subseteq moments'[p]
    <2>1. push' \in [Push -> PushType]
      BY PushShape DEF IInv
    <2> QED BY <2>1, ObserveType DEF Quietly, DispatchFrame, IInv, TypeOK, table
  <1>3. e.at \in Early => \A f \in File : env[p][f] = NoEnv
    BY DEF IInv, CarryInv, Early
  <1>4. \E m \in moments'[p] \union {NoSecrets} :
            /\ e.at = "files" => e.secrets = Overlay(e.repo, m)
            /\ \A f \in File : env[p][f] # NoEnv => env[p][f] = Overlay(e.repo, m)
    <2>1. CASE push[p].at \in Early
      <3>1. \A f \in File : env[p][f] = NoEnv
        BY <2>1 DEF IInv, CarryInv, Early
      <3>2. e.at # "files"
        BY <2>1 DEF Early
      <3> QED BY <3>1, <3>2
    <2>2. CASE e.repo = push[p].repo
      BY <1>2, <2>2 DEF IInv, CarryInv, Carries
    <2> QED BY <2>1, <2>2
  <1>5. e.at \in {"none", "reading", "recording", "minting", "loading"} =>
            \A f \in File : env[p][f] = NoEnv
    BY <1>3 DEF Early
  <1>6. DispatchFrame
    BY DEF Quietly
  <1> DEFINE g == env[p]
  <1>7. g \in [File -> Secrets \union {NoEnv}] /\ env' = [env EXCEPT ![p] = g]
    BY <1>1
  <1>8. /\ e.at \in {"none", "reading", "recording", "minting", "loading"} =>
             \A f \in File : g[f] = NoEnv
        /\ \E m \in moments'[p] \union {NoSecrets} :
             /\ e.at = "files" => e.secrets = Overlay(e.repo, m)
             /\ \A f \in File : g[f] # NoEnv => g[f] = Overlay(e.repo, m)
    BY <1>4, <1>5
  <1> HIDE DEF g
  <1> QED BY <1>6, <1>7, <1>8, DispatchStep

LEMMA PushSteps ==
  ASSUME IInv, NEW p \in Push, Begin(p) \/ Ignore(p) \/ Step(p)
  PROVE  IInv'
  <1> USE DEF Early
  <1>0. push \in [Push -> PushType]
    BY PushShape DEF IInv
  <1>1. CASE Begin(p)
    <2>1. PICK r \in Repo : push' = [push EXCEPT ![p].at = "reading", ![p].repo = r]
      BY <1>1 DEF Begin
    <2>2. push[p].at = "none" /\ Quietly
      BY <1>1 DEF Begin
    <2> DEFINE e == [push[p] EXCEPT !.at = "reading", !.repo = r]
    <2>3. e \in PushType /\ e.at = "reading" /\ push' = [push EXCEPT ![p] = e]
      BY <1>0, <2>1 DEF PushType
    <2> HIDE DEF e
    <2> QED BY <2>2, <2>3, QuietStep
  <1>2. ASSUME NEW a \in {"reading", "recording", "minting", "loading", "files", "done", "lost"},
               push' = [push EXCEPT ![p].at = a], Quietly,
               a \in Early => push[p].at \in Early,
               a = "files" => push[p].at = "files"
        PROVE  IInv'
    <2> DEFINE e == [push[p] EXCEPT !.at = a]
    <2>1. /\ e \in PushType /\ e.at = a /\ e.repo = push[p].repo
          /\ e.secrets = push[p].secrets /\ push' = [push EXCEPT ![p] = e]
      BY <1>0, <1>2 DEF PushType
    <2> HIDE DEF e
    <2> QED BY <1>2, <2>1, QuietStep
  <1>3. CASE Ignore(p) \/ EndRun(p) \/ MintCloneToken(p)
    BY <1>2, <1>3 DEF Ignore, EndRun, MintCloneToken, Moves
  <1>4. CASE Discover(p)
    <2>1. PICK c \in Commit, b \in Branch : \E lost \in IF MayFail THEN SUBSET DOMAIN c ELSE {{}} :
             LET files == lost \union Triggered[c][b]
             IN  push' = [push EXCEPT
                            ![p].at = IF files = {} THEN "done" ELSE "recording",
                            ![p].files = files,
                            ![p].cause = lost \union Causes[c][b],
                            ![p].broken = {f \in files : ~c[f].valid}]
      BY <1>4 DEF Discover
    <2>2. PICK lost \in SUBSET DOMAIN c :
             LET files == lost \union Triggered[c][b]
             IN  push' = [push EXCEPT
                            ![p].at = IF files = {} THEN "done" ELSE "recording",
                            ![p].files = files,
                            ![p].cause = lost \union Causes[c][b],
                            ![p].broken = {f \in files : ~c[f].valid}]
      BY <2>1
    <2>3. /\ DOMAIN c \subseteq File
          /\ Triggered[c][b] \subseteq DOMAIN c /\ Causes[c][b] \subseteq DOMAIN c
      <3>1. Triggered[c][b] = {f \in DOMAIN c : TriggeredBy(c[f], b)}
        BY DEF Triggered
      <3>2. Causes[c][b] = {f \in DOMAIN c : Wanted(c[f], b)}
        BY DEF Causes
      <3> QED BY <3>1, <3>2, DispatchAssumption
    <2>4. PICK F \in SUBSET File, C \in SUBSET File, B \in SUBSET File, a \in {"done", "recording"} :
             push' = [push EXCEPT ![p].at = a, ![p].files = F, ![p].cause = C, ![p].broken = B]
      <3> DEFINE G == lost \union Triggered[c][b]
                 broken == {f \in G : ~c[f].valid}
                 cause == lost \union Causes[c][b]
                 at == IF G = {} THEN "done" ELSE "recording"
      <3>1. /\ G \in SUBSET File /\ broken \in SUBSET File /\ cause \in SUBSET File
            /\ at \in {"done", "recording"}
        BY <2>3
      <3>2. push' = [push EXCEPT ![p].at = at, ![p].files = G, ![p].cause = cause,
                                 ![p].broken = broken]
        BY <2>2
      <3> HIDE DEF G, broken, cause, at
      <3> QED BY <3>1, <3>2
    <2> DEFINE e == [push[p] EXCEPT !.at = a, !.files = F, !.cause = C, !.broken = B]
    <2>5. e \in PushType /\ e.at = a /\ e.repo = push[p].repo /\ push' = [push EXCEPT ![p] = e]
      BY <1>0, <2>4 DEF PushType
    <2>6. push[p].at = "reading" /\ Quietly
      BY <1>4 DEF Discover
    <2> HIDE DEF e
    <2> QED BY <2>5, <2>6, QuietStep
  <1>5. CASE RecordErrorRun(p) \/ CreateRun(p)
    <2>1. PICK a \in {"done", "minting"}, s \in {"recorded", "unrecorded"} :
             push' = [push EXCEPT ![p].at = a, ![p].run = s]
      BY <1>5 DEF RecordErrorRun, CreateRun
    <2> DEFINE e == [push[p] EXCEPT !.at = a, !.run = s]
    <2>2. e \in PushType /\ e.at = a /\ e.repo = push[p].repo /\ push' = [push EXCEPT ![p] = e]
      BY <1>0, <2>1 DEF PushType
    <2>3. push[p].at \in {"reading", "recording"} /\ Quietly
      BY <1>5 DEF RecordErrorRun, CreateRun
    <2> HIDE DEF e
    <2> QED BY <2>2, <2>3, QuietStep
  <1>6. CASE RepoSecrets(p)
    <2>1. PICK m \in {Loaded(push[p].repo), NoSecrets} :
             push' = [push EXCEPT ![p].at = "files", ![p].secrets = Overlay(push[p].repo, m)]
      BY <1>6 DEF RepoSecrets
    <2>2. push[p].at = "loading" /\ Quietly /\ DispatchFrame
      BY <1>6 DEF RepoSecrets, Quietly
    <2>3. push[p].repo \in Repo
      BY <1>0 DEF PushType
    <2>4. m \in Secrets /\ m \in {saved[push[p].repo], NoSecrets}
      BY <2>3, LoadedIsSaved, NoSecretsType DEF IInv
    <2> DEFINE e == [push[p] EXCEPT !.at = "files", !.secrets = Overlay(push[p].repo, m)]
    <2>5. /\ e \in PushType /\ e.at = "files" /\ e.repo = push[p].repo
          /\ e.secrets = Overlay(push[p].repo, m) /\ push' = [push EXCEPT ![p] = e]
      BY <1>0, <2>1, <2>3, <2>4, OverlayType DEF PushType
    <2>6. saved[push[p].repo] \in moments[p] /\ moments[p] \subseteq moments'[p]
      <3>1. push' \in [Push -> PushType]
        BY <1>0, <2>5
      <3>2. saved' \in [Repo -> Secrets] /\ Observe
        BY <2>2 DEF IInv, TypeOK, Quietly, DispatchFrame, table
      <3>3. moments[p] \subseteq moments'[p]
        BY <3>1, <3>2, ObserveType DEF IInv
      <3>4. saved[push[p].repo] \in moments[p]
        BY <2>2 DEF IInv, MomentInv, InFlight
      <3> QED BY <3>3, <3>4
    <2>7. \A f \in File : env[p][f] = NoEnv
      BY <2>2 DEF IInv, CarryInv
    <2>8. env' = [env EXCEPT ![p] = env[p]] /\ env[p] \in [File -> Secrets \union {NoEnv}]
      BY <2>2 DEF Quietly, IInv, TypeOK
    <2>9. m \in moments'[p] \union {NoSecrets}
      BY <2>4, <2>6
    <2> HIDE DEF e
    <2> QED BY <2>2, <2>5, <2>7, <2>8, <2>9, DispatchStep
  <1>7. ASSUME NEW f \in File, StartJob(p, f)
        PROVE  IInv'
    <2>1. push[p].at = "files" /\ DispatchFrame
      BY <1>7 DEF StartJob
    <2> DEFINE e == [push[p] EXCEPT !.files = push[p].files \ {f}]
               g == [env[p] EXCEPT ![f] = push[p].secrets]
    <2>2. /\ e \in PushType /\ e.at = "files" /\ e.repo = push[p].repo
          /\ e.secrets = push[p].secrets /\ push' = [push EXCEPT ![p] = e]
      BY <1>0, <1>7 DEF StartJob, PushType
    <2>3. env[p] \in [File -> Secrets \union {NoEnv}] /\ push[p].secrets \in Secrets
      BY <1>0 DEF IInv, TypeOK, PushType
    <2>4. g \in [File -> Secrets \union {NoEnv}] /\ env' = [env EXCEPT ![p] = g]
      BY <1>7, <2>3 DEF StartJob, JobEnv, IInv, TypeOK
    <2>5. g[f] = push[p].secrets /\ \A h \in File : h # f => g[h] = env[p][h]
      BY <2>3
    <2>6. moments[p] \subseteq moments'[p]
      <3>1. push' \in [Push -> PushType]
        BY <1>0, <2>2
      <3> QED BY <2>1, <3>1, ObserveType DEF IInv, DispatchFrame, TypeOK, table
    <2>7. PICK m \in moments[p] \union {NoSecrets} : Carries(p, m)
      BY DEF IInv, CarryInv
    <2> HIDE DEF e, g
    <2>8. /\ m \in moments'[p] \union {NoSecrets}
          /\ e.secrets = Overlay(e.repo, m)
          /\ \A h \in File : g[h] # NoEnv => g[h] = Overlay(e.repo, m)
      BY <2>1, <2>2, <2>5, <2>6, <2>7 DEF Carries
    <2> QED BY <2>1, <2>2, <2>4, <2>8, DispatchStep
  <1>8. ASSUME NEW f \in File, SkipFile(p, f)
        PROVE  IInv'
    <2> DEFINE e == [push[p] EXCEPT !.files = push[p].files \ {f}]
    <2>1. /\ e \in PushType /\ e.at = push[p].at /\ e.repo = push[p].repo
          /\ e.secrets = push[p].secrets /\ push' = [push EXCEPT ![p] = e]
      BY <1>0, <1>8 DEF SkipFile, PushType
    <2>2. Quietly
      BY <1>8 DEF SkipFile
    <2> HIDE DEF e
    <2> QED BY <2>1, <2>2, QuietStep
  <1> QED BY <1>1, <1>3, <1>4, <1>5, <1>6, <1>7, <1>8 DEF Step

-----------------------------------------------------------------------------
(* The table and the server                                                *)

\* Dispatches stay as they are while the table or the server changes.
LEMMA CarryKept ==
  ASSUME IInv, Observe, saved' \in [Repo -> Secrets], push' \in [Push -> PushType], env' = env,
         \A p \in Push : \/ push'[p] = push[p]
                         \/ push'[p].at = "lost" /\ push'[p].repo = push[p].repo
  PROVE  CarryInv'
  <1>1. \A p \in Push : moments[p] \subseteq moments'[p]
    BY ObserveType DEF IInv
  <1> SUFFICES ASSUME NEW p \in Push
               PROVE  /\ push'[p].at \in {"none", "reading", "recording", "minting", "loading"} =>
                           \A f \in File : env'[p][f] = NoEnv
                      /\ \E m \in moments'[p] \union {NoSecrets} :
                           /\ push'[p].at = "files" =>
                                push'[p].secrets = Overlay(push'[p].repo, m)
                           /\ \A f \in File : env'[p][f] # NoEnv =>
                                env'[p][f] = Overlay(push'[p].repo, m)
    BY DEF CarryInv, Carries, Overlay
  <1>2. PICK m \in moments[p] \union {NoSecrets} : Carries(p, m)
    BY DEF IInv, CarryInv
  <1>3. m \in moments'[p] \union {NoSecrets}
    BY <1>1
  <1>4. push'[p] = push[p] \/ (push'[p].at = "lost" /\ push'[p].repo = push[p].repo)
    OBVIOUS
  <1>5. push[p].at \in {"none", "reading", "recording", "minting", "loading"} =>
          \A f \in File : env[p][f] = NoEnv
    BY DEF IInv, CarryInv
  <1> QED BY <1>2, <1>3, <1>4, <1>5 DEF Carries

LEMMA PagesStep ==
  ASSUME IInv, Pages
  PROVE  IInv'
  <1> USE DEF IInv
  <1>1. PICK r \in Repo, n \in Name : DeleteSecret(r, n) \/ \E x \in Value : SetSecret(r, n, x)
    BY DEF Pages
  <1>2. PICK row \in Row \union {NoRow}, x \in Value \union {NoValue} :
          /\ stored' = [stored EXCEPT ![r][n] = row]
          /\ saved' = [saved EXCEPT ![r][n] = x]
          /\ IF row = NoRow THEN x = NoValue
             ELSE /\ row.v \in seen /\ row.sealed.key = row.v
                  /\ row.sealed.repo = r /\ row.sealed.name = n /\ row.sealed.v = row.v
                  /\ row.sealed.value = x
    <2>1. CASE DeleteSecret(r, n)
      BY <2>1 DEF DeleteSecret
    <2>2. ASSUME NEW x \in Value, SetSecret(r, n, x)
          PROVE  \E row \in Row : /\ stored' = [stored EXCEPT ![r][n] = row]
                                  /\ saved' = [saved EXCEPT ![r][n] = x]
                                  /\ row.v \in seen /\ row.sealed.key = row.v
                                  /\ row.sealed.repo = r /\ row.sealed.name = n
                                  /\ row.sealed.v = row.v /\ row.sealed.value = x
      <3>1. Current \in keys /\ Current \in seen /\ Current \in Version
        BY <2>2, CurrentIn DEF SetSecret, SealedInv, TypeOK
      <3>2. Seal(r, n, x) \in Row
        BY <3>1 DEF Seal, Row
      <3>3. stored' = [stored EXCEPT ![r][n] = Seal(r, n, x)] /\ saved' = [saved EXCEPT ![r][n] = x]
        BY <2>2 DEF SetSecret, Upserted
      <3>4. /\ Seal(r, n, x).v = Current /\ Seal(r, n, x).sealed.key = Current
            /\ Seal(r, n, x).sealed.repo = r /\ Seal(r, n, x).sealed.name = n
            /\ Seal(r, n, x).sealed.v = Current /\ Seal(r, n, x).sealed.value = x
        BY DEF Seal
      <3> QED BY <3>1, <3>2, <3>3, <3>4
    <2>3. NoRow \notin Row
      BY DispatchAssumption DEF Row
    <2> QED BY <1>1, <2>1, <2>2, <2>3
  <1>3. UNCHANGED <<keys, seen, replica, push, env, crashes>> /\ Observe /\ edits' = edits + 1
    BY <1>1 DEF DeleteSecret, SetSecret, Edit
  <1>4. saved' \in [Repo -> Secrets] /\ stored' \in [Repo -> [Name -> Row \union {NoRow}]]
    BY <1>2 DEF TypeOK, Secrets
  <1>5. push' \in [Push -> PushType]
    BY <1>3, PushShape
  <1>6. TypeOK'
    BY <1>3, <1>4, ObserveType, <1>5 DEF TypeOK
  <1>7. SealedInv'
    <2>1. ASSUME NEW s \in Repo, NEW m \in Name
          PROVE  IF stored'[s][m] = NoRow THEN saved'[s][m] = NoValue
                 ELSE /\ stored'[s][m].v \in seen
                      /\ stored'[s][m].sealed.key = stored'[s][m].v
                      /\ stored'[s][m].sealed.repo = s /\ stored'[s][m].sealed.name = m
                      /\ stored'[s][m].sealed.v = stored'[s][m].v
                      /\ stored'[s][m].sealed.value = saved'[s][m]
      <3>1. CASE s = r /\ m = n
        <4>1. stored'[s][m] = row /\ saved'[s][m] = x
          BY <1>2, <3>1 DEF TypeOK, Secrets
        <4> QED BY <1>2, <3>1, <4>1
      <3>2. CASE ~(s = r /\ m = n)
        <4>1. stored'[s][m] = stored[s][m] /\ saved'[s][m] = saved[s][m]
          BY <1>2, <3>2 DEF TypeOK, Secrets
        <4> QED BY <4>1 DEF SealedInv, SealedIn, Now
      <3> QED BY <3>1, <3>2
    <2>2. ASSUME NEW s \in Repo, NEW m \in Name PROVE SealedIn(Now, s, m)'
      BY <1>3, <2>1 DEF SealedIn, Now
    <2>3. keys' \subseteq seen' /\ \A s \in Repo, m \in Name : SealedIn(replica, s, m)'
      BY <1>3 DEF SealedInv, SealedIn
    <2> QED BY <2>2, <2>3 DEF SealedInv
  <1> QED BY <1>3, <1>4, <1>5, <1>6, <1>7, ObserveType, CarryKept

LEMMA ServerSteps ==
  ASSUME IInv, Replicate \/ Restart
  PROVE  IInv'
  <1> USE DEF IInv
  <1>1. CASE Replicate
    <2>1. push' \in [Push -> PushType] /\ saved' \in [Repo -> Secrets] /\ Observe
      BY <1>1, PushShape DEF Replicate, TypeOK, table
    <2>2. TypeOK'
      BY <1>1, <2>1, ObserveType DEF Replicate, TypeOK, Table, table
    <2>3. SealedInv'
      BY <1>1 DEF Replicate, SealedInv, SealedIn, Now, table
    <2>4. CarryInv'
      BY <1>1, <2>1, CarryKept DEF Replicate
    <2> QED BY <2>1, <2>2, <2>3, <2>4, ObserveType
  <1>2. CASE Restart
    <2>1. saved' \in [Repo -> Secrets] /\ stored' \in [Repo -> [Name -> Row \union {NoRow}]]
      BY <1>2 DEF Restart, TypeOK, Table
    <2>2. \A p \in Push : \/ push'[p] = push[p]
                          \/ push'[p] = [push[p] EXCEPT !.at = "lost"]
      BY <1>2 DEF Restart
    <2>3. push' \in [Push -> PushType]
      <3>1. ASSUME NEW p \in Push
            PROVE  push'[p] \in PushType
        <4>1. push[p] \in PushType
          BY PushShape
        <4>2. [push[p] EXCEPT !.at = "lost"] \in PushType
          BY <4>1 DEF PushType
        <4> QED BY <2>2, <4>1, <4>2
      <3> QED BY <1>2, <3>1 DEF Restart
    <2>4. \A p \in Push : \/ push'[p] = push[p]
                          \/ push'[p].at = "lost" /\ push'[p].repo = push[p].repo
      BY <2>2, PushShape DEF PushType
    <2>5. TypeOK'
      <3>1. /\ keys' \in KeySets /\ seen' \subseteq Version
            /\ edits' \in Nat /\ crashes' \in Nat
        BY <1>2, DispatchAssumption DEF Restart, TypeOK
      <3>3. replica' \in Table /\ env' \in [Push -> [File -> Secrets \union {NoEnv}]]
        BY <1>2 DEF Restart, TypeOK
      <3>4. moments' \in [Push -> SUBSET Secrets]
        BY <1>2, <2>1, <2>3, ObserveType DEF Restart
      <3> QED BY <2>1, <2>3, <3>1, <3>3, <3>4 DEF TypeOK
    <2>6. SealedInv'
      <3>1. /\ keys' \subseteq seen' /\ seen \subseteq seen'
            /\ stored' = replica.stored /\ saved' = replica.saved /\ replica' = replica
        BY <1>2 DEF Restart
      <3>2. \A r \in Repo, n \in Name : SealedIn(replica, r, n)
        BY DEF SealedInv
      <3>3. ASSUME NEW r \in Repo, NEW n \in Name
            PROVE  SealedIn(Now, r, n)' /\ SealedIn(replica, r, n)'
        BY <3>1, <3>2 DEF SealedIn, Now
      <3> QED BY <3>1, <3>3 DEF SealedInv
    <2> QED BY <1>2, <2>1, <2>3, <2>4, <2>5, <2>6, ObserveType, CarryKept DEF Restart
  <1> QED BY <1>1, <1>2

LEMMA IInvHolds == Spec => []IInv
  <1>1. IInv /\ [Next]_vars => IInv'
    <2> SUFFICES ASSUME IInv, [Next]_vars PROVE IInv'
      OBVIOUS
    <2>1. CASE UNCHANGED vars
      <3>1. TypeOK'
        BY <2>1 DEF vars, table, IInv, TypeOK
      <3>3. SealedInv'
        BY <2>1, SealedFollows DEF vars, table, IInv
      <3>4. MomentInv'
        BY <2>1 DEF vars, table, IInv, MomentInv, InFlight
      <3>2. CarryInv'
        <4>1. UNCHANGED <<push, env, moments>>
          BY <2>1 DEF vars
        <4>2. \A p \in Push : \A m : Carries(p, m) => Carries(p, m)'
          BY <4>1 DEF Carries, Overlay
        <4> QED BY <4>1, <4>2 DEF IInv, CarryInv, NoSecrets
      <3> QED BY <3>1, <3>2, <3>3, <3>4 DEF IInv
    <2> QED BY <2>1, PagesStep, ServerSteps, PushSteps DEF Next
  <1> QED BY InitOK, <1>1, PTL DEF Spec

(***************************************************************************)
(* Type correctness, for any pushes, secrets and key versions.             *)
(***************************************************************************)
THEOREM DispatchTypeCorrect == Spec => []TypeOK
  <1>1. IInv => TypeOK
    BY DEF IInv
  <1> QED BY IInvHolds, <1>1, PTL

(***************************************************************************)
(* All jobs of a run carry the secrets of their repo as they were saved at *)
(* one moment of the dispatch, complete, or none but those of the env:     *)
(* Service.Secrets fails closed, repoSecrets loads once.                   *)
(***************************************************************************)
THEOREM JobsAreAlike == Spec => []JobsCarryOneMoment
  <1>1. IInv => JobsCarryOneMoment
    BY DEF IInv, CarryInv, Carries, JobsCarryOneMoment
  <1> QED BY IInvHolds, <1>1, PTL

(***************************************************************************)
(* A keyring that has all the versions there ever were opens every secret  *)
(* that is stored, through any saves, deletions, restarts and restores.    *)
(***************************************************************************)
THEOREM RotationIsLossless == Spec => []RotationKeepsSecrets
  <1>1. IInv => RotationKeepsSecrets
    BY LoadedIsSaved DEF IInv, RotationKeepsSecrets
  <1> QED BY IInvHolds, <1>1, PTL

\* A step of one dispatch changes its entries only.
LEMMA EntryOf ==
  ASSUME IInv, NEW p \in Push, NEW e, push' = [push EXCEPT ![p] = e]
  PROVE  push'[p] = e /\ \A q \in Push : q # p => push'[q] = push[q]
  BY PushShape DEF IInv

LEMMA CauseKept ==
  ASSUME IInv, CauseInv, NEW p \in Push, NEW e, push' = [push EXCEPT ![p] = e],
         \A q \in Push : q # p => env'[q] = env[q], Caused(p)'
  PROVE  CauseInv'
  <1>1. ASSUME NEW q \in Push, q # p PROVE Caused(q)'
    <2>1. push'[q] = push[q] /\ env'[q] = env[q] /\ Caused(q)
      BY <1>1, EntryOf DEF CauseInv
    <2> QED BY <2>1 DEF Caused
  <1> QED BY <1>1 DEF CauseInv

LEMMA CausePushSteps ==
  ASSUME IInv, CauseInv, NEW p \in Push, Begin(p) \/ Ignore(p) \/ Step(p)
  PROVE  CauseInv'
  <1> DEFINE old == push[p]
  <1>1. old \in PushType /\ Caused(p)
    BY PushShape DEF IInv, CauseInv
  <1>2. old.at \in Early => \A f \in File : env[p][f] = NoEnv
    BY DEF IInv, CarryInv, Early
  <1> HIDE DEF old
  <1>3. ASSUME NEW e, push' = [push EXCEPT ![p] = e], Quietly,
               \/ e.at = "reading" /\ e.cause = {} /\ old.at = "none"
               \/ e.at = "done" /\ old.at \in {"reading", "recording"} /\ e.cause = old.cause
                  /\ e.run # "none"
               \/ e.at \in Working /\ e.files \subseteq e.cause /\ e.run = "recorded"
                  /\ e.cause = old.cause
               \/ e.at \in {"recording", "done"} /\ e.files = e.cause /\ old.at = "reading"
                  /\ (e.at = "done" => e.cause = {})
               \/ e.at = "done" /\ e.cause = old.cause /\ e.run = old.run
                  /\ (old.at = "none" \/ old.run = "recorded")
        PROVE  CauseInv'
    <2>1. push'[p] = e /\ UNCHANGED env
      BY <1>3, EntryOf DEF Quietly
    <2>2. old.at \in {"none", "reading"} => \A f \in File : env[p][f] = NoEnv
      BY <1>2 DEF Early
    <2>3. \A f \in File : env[p][f] # NoEnv => f \in e.cause
      BY <1>1, <1>3, <2>2 DEF Caused, old
    <2>4. Caused(p)'
      BY <1>1, <1>3, <2>1, <2>3 DEF Caused, Working, old
    <2> QED BY <1>3, <2>1, <2>4, CauseKept
  <1>4. CASE Begin(p)
    <2>1. PICK r \in Repo : push' = [push EXCEPT ![p].at = "reading", ![p].repo = r]
      BY <1>4 DEF Begin
    <2>2. old.at = "none" /\ Quietly
      BY <1>4 DEF Begin, old
    <2> DEFINE e == [old EXCEPT !.at = "reading", !.repo = r]
    <2>3. /\ e.at = "reading" /\ e.cause = {}
          /\ push' = [push EXCEPT ![p] = e]
      BY <1>1, <2>1, <2>2 DEF PushType, Caused, old
    <2> HIDE DEF e
    <2> QED BY <1>3, <2>2, <2>3
  <1>5. CASE Ignore(p) \/ EndRun(p)
    <2> DEFINE e == [old EXCEPT !.at = "done"]
    <2>1. /\ push' = [push EXCEPT ![p] = e] /\ Quietly
          /\ old.at = "none" \/ old.at = "files"
      BY <1>5 DEF Ignore, EndRun, Moves, old
    <2>2. e.at = "done" /\ e.cause = old.cause /\ e.run = old.run
      BY <1>1 DEF PushType
    <2>3. old.at = "none" \/ old.run = "recorded"
      BY <1>1, <2>1 DEF Caused, Working, old
    <2> HIDE DEF e
    <2> QED BY <1>3, <2>1, <2>2, <2>3
  <1>6. CASE MintCloneToken(p)
    <2> DEFINE e == [old EXCEPT !.at = "loading"]
    <2>1. push' = [push EXCEPT ![p] = e] /\ Quietly /\ old.at = "minting"
      BY <1>6 DEF MintCloneToken, Moves, old
    <2>2. e.at \in Working /\ e.cause = old.cause /\ e.files = old.files /\ e.run = old.run
      BY <1>1 DEF PushType, Working
    <2>3. old.files \subseteq old.cause /\ old.run = "recorded"
      BY <1>1, <2>1 DEF Caused, Working, old
    <2> HIDE DEF e
    <2> QED BY <1>3, <2>1, <2>2, <2>3
  <1>7. CASE Discover(p)
    <2>1. PICK c \in Commit, b \in Branch : \E lost \in IF MayFail THEN SUBSET DOMAIN c ELSE {{}} :
             LET files == lost \union Triggered[c][b]
             IN  push' = [push EXCEPT
                            ![p].at = IF files = {} THEN "done" ELSE "recording",
                            ![p].files = files,
                            ![p].cause = lost \union Causes[c][b],
                            ![p].broken = {f \in files : ~c[f].valid}]
      BY <1>7 DEF Discover
    <2>2. Triggered[c][b] = Causes[c][b]
      BY WorkflowAssumption, TriggeredIsCaused
    <2>3. PICK G, B : push' = [push EXCEPT ![p].at = IF G = {} THEN "done" ELSE "recording",
                                           ![p].files = G, ![p].cause = G, ![p].broken = B]
      <3>1. PICK lost : push' = [push EXCEPT
                            ![p].at = IF lost \union Triggered[c][b] = {} THEN "done"
                                      ELSE "recording",
                            ![p].files = lost \union Triggered[c][b],
                            ![p].cause = lost \union Triggered[c][b],
                            ![p].broken = {f \in lost \union Triggered[c][b] : ~c[f].valid}]
        BY <2>1, <2>2
      <3> QED BY <3>1
    <2> DEFINE at == IF G = {} THEN "done" ELSE "recording"
               e == [old EXCEPT !.at = at, !.files = G, !.cause = G, !.broken = B]
    <2>4. /\ push' = [push EXCEPT ![p] = e]
          /\ e.at = at /\ e.files = G /\ e.cause = G
      BY <1>1, <2>3 DEF PushType, old
    <2>5. old.at = "reading" /\ Quietly
      BY <1>7 DEF Discover, old
    <2> HIDE DEF e
    <2> QED BY <1>3, <2>4, <2>5
  <1>8. CASE RecordErrorRun(p) \/ CreateRun(p)
    <2>1. PICK a \in {"done", "minting"}, s \in {"recorded", "unrecorded"} :
             /\ push' = [push EXCEPT ![p].at = a, ![p].run = s]
             /\ a = "minting" => s = "recorded" /\ old.at = "recording"
      BY <1>8 DEF RecordErrorRun, CreateRun, old
    <2>2. old.at \in {"reading", "recording"} /\ Quietly
      BY <1>8 DEF RecordErrorRun, CreateRun, old
    <2> DEFINE e == [old EXCEPT !.at = a, !.run = s]
    <2>3. /\ push' = [push EXCEPT ![p] = e] /\ e.at = a /\ e.run = s
          /\ e.files = old.files /\ e.cause = old.cause
      BY <1>1, <2>1 DEF PushType, old
    <2>4. old.at = "recording" => old.files \subseteq old.cause
      BY <1>1 DEF Caused, old
    <2> HIDE DEF e
    <2>5. CASE a = "done"
      BY <1>3, <2>1, <2>2, <2>3, <2>5
    <2>6. CASE a = "minting"
      BY <1>3, <2>1, <2>2, <2>3, <2>4, <2>6 DEF Working
    <2> QED BY <2>1, <2>5, <2>6
  <1>9. CASE RepoSecrets(p)
    <2>1. PICK m : push' = [push EXCEPT ![p].at = "files", ![p].secrets = m]
      BY <1>9 DEF RepoSecrets
    <2>2. old.at = "loading" /\ Quietly
      BY <1>9 DEF RepoSecrets, old
    <2> DEFINE e == [old EXCEPT !.at = "files", !.secrets = m]
    <2>3. /\ push' = [push EXCEPT ![p] = e] /\ e.at \in Working /\ e.run = old.run
          /\ e.files = old.files /\ e.cause = old.cause
      BY <1>1, <2>1 DEF PushType, Working, old
    <2>4. old.files \subseteq old.cause /\ old.run = "recorded"
      BY <1>1, <2>2 DEF Caused, Working, old
    <2> HIDE DEF e
    <2> QED BY <1>3, <2>2, <2>3, <2>4
  <1>10. ASSUME NEW f \in File, SkipFile(p, f) PROVE CauseInv'
    <2> DEFINE e == [old EXCEPT !.files = @ \ {f}]
    <2>1. push' = [push EXCEPT ![p] = e] /\ old.at = "files" /\ Quietly
      BY <1>1, <1>10 DEF SkipFile, PushType, old
    <2>2. /\ e.at \in Working /\ e.run = old.run
          /\ e.files \subseteq old.files /\ e.cause = old.cause
      BY <1>1, <2>1 DEF PushType, Working
    <2>3. old.files \subseteq old.cause /\ old.run = "recorded"
      BY <1>1, <2>1 DEF Caused, Working, old
    <2> HIDE DEF e
    <2> QED BY <1>3, <2>1, <2>2, <2>3
  <1>11. ASSUME NEW f \in File, StartJob(p, f) PROVE CauseInv'
    <2> DEFINE e == [old EXCEPT !.files = @ \ {f}]
    <2>1. /\ push' = [push EXCEPT ![p] = e] /\ old.at = "files" /\ f \in old.files
          /\ env' = [env EXCEPT ![p][f] = JobEnv(p)]
      BY <1>1, <1>11 DEF StartJob, PushType, old
    <2>2. /\ e.at = "files" /\ e.run = old.run
          /\ e.files \subseteq old.files /\ e.cause = old.cause
      BY <1>1, <2>1 DEF PushType
    <2>3. old.files \subseteq old.cause /\ old.run = "recorded"
      BY <1>1, <2>1 DEF Caused, Working, old
    <2>4. /\ \A q \in Push : q # p => env'[q] = env[q]
          /\ \A g \in File : g # f => env'[p][g] = env[p][g]
      BY <2>1 DEF IInv, TypeOK
    <2> HIDE DEF e
    <2>5. push'[p] = e
      BY <2>1, EntryOf
    <2>6. \A g \in File : env'[p][g] # NoEnv => g \in e.cause
      BY <1>1, <2>1, <2>2, <2>3, <2>4 DEF Caused, old
    <2>7. Caused(p)'
      BY <2>2, <2>3, <2>5, <2>6 DEF Caused, Working
    <2> QED BY <2>1, <2>4, <2>7, CauseKept
  <1> QED BY <1>4, <1>5, <1>6, <1>7, <1>8, <1>9, <1>10, <1>11 DEF Step

LEMMA CauseHolds == Spec => []CauseInv
  <1>1. Init => CauseInv
    <2> SUFFICES ASSUME Init, NEW p \in Push PROVE Caused(p)
      BY DEF CauseInv
    <2>1. push[p] = NoPush /\ \A f \in File : env[p][f] = NoEnv
      BY DEF Init
    <2>2. NoPush.at = "none" /\ NoPush.cause = {}
      BY DEF NoPush
    <2> QED BY <2>1, <2>2 DEF Caused, Working
  <1>2. IInv /\ CauseInv /\ [Next]_vars => CauseInv'
    <2> SUFFICES ASSUME IInv, CauseInv, [Next]_vars PROVE CauseInv'
      OBVIOUS
    <2>1. ASSUME UNCHANGED <<push, env>> PROVE CauseInv'
      BY <2>1 DEF CauseInv, Caused
    <2>2. CASE UNCHANGED vars
      BY <2>1, <2>2 DEF vars
    <2>3. CASE Pages
      BY <2>1, <2>3 DEF Pages, SetSecret, DeleteSecret, Edit
    <2>4. CASE Replicate
      BY <2>1, <2>4 DEF Replicate
    <2>5. CASE Restart
      <3> SUFFICES ASSUME NEW p \in Push PROVE Caused(p)'
        BY DEF CauseInv
      <3>1. UNCHANGED env /\ Caused(p) /\ push[p] \in PushType
        BY <2>5, PushShape DEF Restart, CauseInv, IInv
      <3>2. push'[p] = IF InFlight(p) THEN [push[p] EXCEPT !.at = "lost"] ELSE push[p]
        BY <2>5 DEF Restart
      <3>3. CASE InFlight(p)
        <4>1. push'[p].at = "lost" /\ push'[p].cause = push[p].cause
          BY <3>1, <3>2, <3>3 DEF PushType
        <4> QED BY <3>1, <4>1 DEF Caused, Working
      <3>4. CASE ~InFlight(p)
        BY <3>1, <3>2, <3>4 DEF Caused
      <3> QED BY <3>3, <3>4
    <2> QED BY <2>2, <2>3, <2>4, <2>5, CausePushSteps DEF Next
  <1> QED BY IInvHolds, <1>1, <1>2, PTL DEF Spec

(***************************************************************************)
(* A runner is started only for a file whose filter, as described, lets    *)
(* the branch through or that could not be read, and no push that has one  *)
(* ends without a run or an error in the log: for any workflows, patterns  *)
(* and branches.                                                           *)
(***************************************************************************)
THEOREM StartsForCause == Spec => []RunsForCause
  <1>1. CauseInv => RunsForCause
    BY DEF CauseInv, Caused, RunsForCause
  <1> QED BY CauseHolds, <1>1, PTL
=============================================================================
