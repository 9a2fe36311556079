-------------------------- MODULE WritePathProofs --------------------------
(***************************************************************************)
(* Proofs about WritePath, for any repo, any set of pushes and any number  *)
(* of crashes.                                                             *)
(***************************************************************************)
EXTENDS WritePath, TLAPS

\* The closure of a set of values is a set of commits.
LEMMA ClosureType == ASSUME NEW S \in SUBSET Value
                     PROVE  Closure(S) \in SUBSET Commit
  BY HistoryAssumption DEF Closure, Value

LEMMA NoCommandsType == NoCommands \in Commands
  <1>1. NoCommands \in [{} -> Command]
    BY DEF NoCommands
  <1>2. [{} -> Command] \in {[S -> Command] : S \in SUBSET Ref}
    OBVIOUS
  <1> QED BY <1>1, <1>2 DEF Commands

\* What Begin builds from a client's changes is a set of commands.
LEMMA CommandsType ==
  ASSUME NEW ch \in Changes, NEW R \in [Ref -> Value]
  PROVE  /\ [r \in DOMAIN ch |-> [old |-> R[r], new |-> ch[r]]] \in Commands
         /\ {ch[r] : r \in DOMAIN ch} \in SUBSET Value
  <1>1. PICK S \in SUBSET Ref : ch \in [S -> Value]
    BY InputAssumption
  <1>2. [r \in DOMAIN ch |-> [old |-> R[r], new |-> ch[r]]] \in [S -> Command]
    BY <1>1 DEF Command
  <1>3. {ch[r] : r \in DOMAIN ch} \in SUBSET Value
    BY <1>1
  <1> QED BY <1>2, <1>3 DEF Commands

\* A push's commands are functions on some refs.
LEMMA CommandsShape ==
  ASSUME NEW w \in Commands
  PROVE  /\ DOMAIN w \subseteq Ref
         /\ \A r \in DOMAIN w : w[r] \in Command
  BY DEF Commands

\* The steps that end the hook thread of a push and do nothing else to it.
Refuses(p) == \/ UnpackFails(p) \/ HookWithoutQuarantine(p) \/ HandleBadNonce(p)
              \/ HandleGuarded(p) \/ HandleFails(p) \/ CASMismatch(p)
              \/ ReceivePackDies(p)

LEMMA TypeInit == Init => TypeOK
  <1> SUFFICES ASSUME Init PROVE TypeOK
    OBVIOUS
  <1>1. cmds \in [Push -> Commands]
    BY NoCommandsType DEF Init
  <1>2. store \in [Name -> SUBSET Commit]
    BY ClosureType, InputAssumption DEF Init
  <1> QED BY <1>1, <1>2, NamingAssumption, InputAssumption
          DEF Init, TypeOK, Value, ReqState, HookState, GuardInput

\* What the client of a push chooses: the changes, and what it leaves out.
LEMMA BeginParts ==
  ASSUME NEW p \in Push, Begin(p)
  PROVE  \E ch \in Changes :
            /\ cmds' = [cmds EXCEPT ![p] =
                         [r \in DOMAIN ch |-> [old |-> refs[r], new |-> ch[r]]]]
            /\ \E out \in SUBSET (Closure({ch[r] : r \in DOMAIN ch})
                      \ Closure({refs[r] : r \in Ref})) :
                 /\ leftOut' = [leftOut EXCEPT ![p] = out]
                 /\ pack' = [pack EXCEPT ![p] = (Closure({ch[r] : r \in DOMAIN ch})
                                \ Closure({refs[r] : r \in Ref})) \ out]
  BY DEF Begin

LEMMA TypeStep == TypeOK /\ [Next]_vars => TypeOK'
  <1> SUFFICES ASSUME TypeOK, [Next]_vars PROVE TypeOK'
    OBVIOUS
  <1> USE NamingAssumption DEF TypeOK, ReqState, HookState, Holding, Ended, Refusal,
          dbVars, repoVars, writerVars, pushVars, clientVars
  <1>1. ASSUME NEW p \in Push, Begin(p) PROVE TypeOK'
    <2>1. PICK ch \in Changes :
            /\ cmds' = [cmds EXCEPT ![p] =
                         [r \in DOMAIN ch |-> [old |-> refs[r], new |-> ch[r]]]]
            /\ \E out \in SUBSET (Closure({ch[r] : r \in DOMAIN ch})
                      \ Closure({refs[r] : r \in Ref})) :
                 /\ leftOut' = [leftOut EXCEPT ![p] = out]
                 /\ pack' = [pack EXCEPT ![p] = (Closure({ch[r] : r \in DOMAIN ch})
                                \ Closure({refs[r] : r \in Ref})) \ out]
      BY <1>1, BeginParts
    <2>2. [r \in DOMAIN ch |-> [old |-> refs[r], new |-> ch[r]]] \in Commands
      BY CommandsType
    <2>3. cmds' \in [Push -> Commands]
      BY <2>1, <2>2
    <2>4. Closure({ch[r] : r \in DOMAIN ch}) \in SUBSET Commit
      BY CommandsType, ClosureType
    <2>5. pack' \in [Push -> SUBSET Commit] /\ leftOut' \in [Push -> SUBSET Commit]
      <3>1. PICK out \in SUBSET Commit, rest \in SUBSET Commit :
              leftOut' = [leftOut EXCEPT ![p] = out] /\ pack' = [pack EXCEPT ![p] = rest]
        BY <2>1, <2>4
      <3> QED BY <3>1
    <2>6. guard' \in [Push -> GuardInput]
      BY <1>1 DEF Begin, GuardInput
    <2>7. req' \in [Push -> ReqState]
      BY <1>1 DEF Begin
    <2>8. /\ UNCHANGED <<refs, replica, settings, store, disk, diskRefs, lock>>
          /\ UNCHANGED <<nonces, outcome, hook, todo, fired, crashes, broken, landed>>
      BY <1>1 DEF Begin
    <2> HIDE DEF Holding, Ended, Refusal, ReqState, HookState
    <2> QED BY <2>3, <2>5, <2>6, <2>7, <2>8
  <1>2. ASSUME NEW p \in Push, Request(p) \/ Vanish(p) PROVE TypeOK'
    <2>1. CASE Lock(p)
      BY <2>1 DEF Lock
    <2>2. CASE Hydrate(p)
      BY <2>2 DEF Hydrate, Fetched
    <2>3. CASE MirrorRefs(p)
      BY <2>3 DEF MirrorRefs
    <2>4. CASE MaterializeFails(p)
      BY <2>4 DEF MaterializeFails
    <2>5. CASE Served(p)
      BY <2>5 DEF Served
    <2>6. CASE FireAfterCommit(p)
      BY <2>6 DEF FireAfterCommit
    <2>7. CASE Release(p)
      BY <2>7 DEF Release, Unregistered
    <2>8. CASE Vanish(p)
      BY <2>8 DEF Vanish
    <2> HIDE DEF TypeOK
    <2> QED BY <1>2, <2>1, <2>2, <2>3, <2>4, <2>5, <2>6, <2>7, <2>8 DEF Request
  <1>3. ASSUME NEW p \in Push, CASRefs(p) PROVE TypeOK'
    <2>1. refs' \in [Ref -> Value]
      BY <1>3, CommandsShape DEF CASRefs, Updated, Command
    <2>2. hook' \in [Push -> HookState]
      BY <1>3 DEF CASRefs
    <2> QED BY <1>3, <2>1, <2>2 DEF CASRefs
  <1>4. ASSUME NEW p \in Push, Finalize(p) PROVE TypeOK'
    <2>1. diskRefs' \in [Name -> [Ref -> Value]]
      BY <1>4, CommandsShape DEF Finalize, Moving, Unmarked, Command
    <2> QED BY <1>4, <2>1 DEF Finalize
  <1>5. ASSUME NEW p \in Push, NEW why \in Refusal \union {"dead"}, Refuse(p, why),
               nonces' \subseteq nonces
        PROVE  TypeOK'
    BY <1>5 DEF Refuse
  <1>10. ASSUME NEW p \in Push, Refuses(p) PROVE TypeOK'
    <2> HIDE DEF TypeOK
    <2>1. CASE UnpackFails(p)
      BY <2>1, <1>5 DEF UnpackFails
    <2>2. CASE HookWithoutQuarantine(p)
      BY <2>2, <1>5 DEF HookWithoutQuarantine
    <2>3. CASE HandleBadNonce(p)
      BY <2>3, <1>5 DEF HandleBadNonce
    <2>4. CASE HandleGuarded(p)
      BY <2>4, <1>5 DEF HandleGuarded
    <2>5. CASE HandleFails(p)
      BY <2>5, <1>5 DEF HandleFails
    <2>6. CASE CASMismatch(p)
      BY <2>6, <1>5 DEF CASMismatch
    <2>7. CASE ReceivePackDies(p)
      BY <2>7, <1>5 DEF ReceivePackDies
    <2> QED BY <1>10, <2>1, <2>2, <2>3, <2>4, <2>5, <2>6, <2>7 DEF Refuses
  <1>11. ASSUME NEW p \in Push, HandleStart(p) PROVE TypeOK'
    BY <1>11 DEF HandleStart
  <1>12. ASSUME NEW p \in Push, PutObject(p) PROVE TypeOK'
    BY <1>12 DEF PutObject
  <1>13. ASSUME NEW p \in Push, Record(p) PROVE TypeOK'
    BY <1>13 DEF Record
  <1>14. ASSUME NEW p \in Push, CheckConnected(p) PROVE TypeOK'
    <2>1. PICK B \in SUBSET DOMAIN cmds[p] : broken' = [broken EXCEPT ![p] = B]
      BY <1>14 DEF CheckConnected
    <2>2. B \in SUBSET Ref
      BY CommandsShape
    <2> QED BY <1>14, <2>1, <2>2 DEF CheckConnected
  <1>6. CASE Replicate
    BY <1>6 DEF Replicate
  <1>7. CASE Crash
    BY <1>7 DEF Crash, Value
  <1>8. CASE EditSettings
    <2>1. settings' \in [default : Ref, admins : SUBSET Push, edits : Nat]
      <3> HIDE DEF ReqState, HookState, Holding, Ended, Refusal
      <3>1. /\ settings \in [default : Ref, admins : SUBSET Push, edits : Nat]
            /\ settings.admins \in SUBSET Push
            /\ settings.edits + 1 \in Nat
        OBVIOUS
      <3> HIDE DEF TypeOK
      <3>2. ASSUME NEW r \in Ref, settings' = [settings EXCEPT !.default = r, !.edits = @ + 1]
            PROVE  settings' \in [default : Ref, admins : SUBSET Push, edits : Nat]
        BY <3>1, <3>2
      <3>3. ASSUME NEW p \in Push,
                   settings' = [settings EXCEPT !.edits = @ + 1, !.admins =
                         IF p \in @ THEN @ \ {p} ELSE @ \union {p}]
            PROVE  settings' \in [default : Ref, admins : SUBSET Push, edits : Nat]
        <4>1. (IF p \in settings.admins THEN settings.admins \ {p}
                 ELSE settings.admins \union {p}) \in SUBSET Push
          BY <3>1
        <4> QED BY <3>1, <3>3, <4>1
      <3> QED BY <1>8, <3>2, <3>3 DEF EditSettings
    <2> QED BY <1>8, <2>1 DEF EditSettings
  <1>9. CASE UNCHANGED vars
    BY <1>9 DEF vars
  <1> HIDE DEF TypeOK
  <1> QED BY <1>1, <1>2, <1>3, <1>4, <1>6, <1>7, <1>8, <1>9, <1>10, <1>11, <1>12, <1>13, <1>14
          DEF Next, Handler, Refuses

(***************************************************************************)
(* Type correctness: whatever the pushes, the replication, the crashes and *)
(* the settings edits do, every variable stays in its type.                *)
(***************************************************************************)
THEOREM TypeCorrect == Spec => []TypeOK
  BY TypeInit, TypeStep, PTL DEF Spec
-----------------------------------------------------------------------------
(* Content before pointer: the parts of IInv besides TypeOK are preserved   *)
(* action by action; most actions touch none of the variables they mention. *)

Backing == ReceivedBeforePointer /\ CacheBacked /\ InFlightBacked /\ IdleHasNoHook

InPath == {"putting", "committed", "ok"}

\* The history of a set of values is where the history of each of them is.
LEMMA ClosureWithin ==
  ASSUME NEW S, NEW X, \A v \in S : v # Absent => Anc[v] \subseteq X
  PROVE  Closure(S) \subseteq X
  BY DEF Closure

LEMMA ClosureContains ==
  ASSUME NEW S, NEW v \in S, v # Absent
  PROVE  Anc[v] \subseteq Closure(S)
  BY DEF Closure

\* What is withheld stays withheld.
LEMMA WithheldGrows ==
  ASSUME landed \subseteq landed', \A q \in landed : leftOut'[q] = leftOut[q]
  PROVE  Withheld \subseteq Withheld'
  BY DEF Withheld, LeftOutBy

LEMMA WithheldStays ==
  ASSUME UNCHANGED <<landed, leftOut>>
  PROVE  Withheld' = Withheld
  BY DEF Withheld, LeftOutBy

\* A step that leaves refs, objects and the clients' requests alone, and lets
\* no hook thread into the write path or back out of it to another stage.
LEMMA Frame ==
  ASSUME Backing,
         UNCHANGED <<refs, replica, store, disk, diskRefs, cmds, pack, leftOut, landed, todo>>,
         \A q \in Push : hook'[q] \in InPath => \/ hook[q] = hook'[q]
                                         \/ (hook[q] = "committed" /\ hook'[q] = "ok"),
         \A q \in Push : req'[q] = "idle" => req[q] = "idle",
         \A q \in Push : hook[q] = "none" => hook'[q] = "none"
  PROVE  Backing'
  <1>0. Withheld' = Withheld
    BY WithheldStays
  <1>1. ReceivedBeforePointer' /\ CacheBacked'
    BY <1>0 DEF Backing, ReceivedBeforePointer, CacheBacked
  <1>2. IdleHasNoHook'
    BY DEF Backing, IdleHasNoHook
  <1>3. InFlightBacked'
    <2>1. \A q \in Push : News(q)' = News(q)
      BY DEF News
    <2> QED BY <1>0, <2>1 DEF Backing, InFlightBacked, InPath
  <1> QED BY <1>1, <1>2, <1>3 DEF Backing

\* A client's request is new: what it needs beyond the refs is in its pack or
\* left out, and its hook thread has not started.
LEMMA BeginBacks ==
  ASSUME TypeOK, Backing, NEW p \in Push, Begin(p)
  PROVE  Backing'
  <1>1. /\ UNCHANGED <<refs, replica, store, disk, diskRefs, hook, todo, landed>>
        /\ req' = [req EXCEPT ![p] = "waiting"]
        /\ \A q \in Push \ {p} : /\ cmds'[q] = cmds[q] /\ pack'[q] = pack[q]
                                /\ leftOut'[q] = leftOut[q]
    BY DEF Begin, TypeOK, dbVars, repoVars
  <1>2. hook[p] = "none" /\ p \notin landed
    BY DEF Begin, Backing, IdleHasNoHook
  <1>3. \A q \in Push \ {p} : News(q)' = News(q)
    BY <1>1 DEF News
  <1>4. Withheld' = Withheld
    <2>1. \A q \in landed : leftOut'[q] = leftOut[q]
      BY <1>1, <1>2 DEF TypeOK
    <2> QED BY <1>1, <2>1 DEF Withheld, LeftOutBy
  <1>5. Closure({refs[r] : r \in Ref}) \subseteq store[NameOf[p]] \union Withheld
    <2>1. \A v \in {refs[r] : r \in Ref} : v # Absent =>
             Anc[v] \subseteq store[NameOf[p]] \union Withheld
      BY NamingAssumption DEF Backing, ReceivedBeforePointer
    <2> QED BY <2>1, ClosureWithin
  <1>6. Closure(News(p))' \subseteq
           pack'[p] \union leftOut'[p] \union Closure({refs[r] : r \in Ref})
    <2>1. PICK ch \in Changes :
            /\ cmds' = [cmds EXCEPT ![p] =
                         [r \in DOMAIN ch |-> [old |-> refs[r], new |-> ch[r]]]]
            /\ \E out \in SUBSET (Closure({ch[r] : r \in DOMAIN ch})
                      \ Closure({refs[r] : r \in Ref})) :
                 /\ leftOut' = [leftOut EXCEPT ![p] = out]
                 /\ pack' = [pack EXCEPT ![p] = (Closure({ch[r] : r \in DOMAIN ch})
                                \ Closure({refs[r] : r \in Ref})) \ out]
      BY DEF Begin
    <2>2. cmds'[p] = [r \in DOMAIN ch |-> [old |-> refs[r], new |-> ch[r]]]
      BY <2>1 DEF TypeOK
    <2>3. News(p)' = {ch[r] : r \in DOMAIN ch}
      BY <2>2 DEF News
    <2>4. Closure({ch[r] : r \in DOMAIN ch}) \ Closure({refs[r] : r \in Ref})
             \subseteq pack'[p] \union leftOut'[p]
      BY <2>1 DEF TypeOK
    <2> QED BY <2>3, <2>4 DEF Closure
  <1>7. InFlightBacked'
    <2>1. \A q \in Push \ {p} : (Closure(News(q)))' = Closure(News(q))
      BY <1>3 DEF Closure
    <2>2. Closure(News(p))' \subseteq pack'[p] \union store'[NameOf[p]] \union leftOut'[p] \union Withheld'
      BY <1>1, <1>4, <1>5, <1>6
    <2> QED BY <1>1, <1>2, <1>4, <2>1, <2>2 DEF Backing, InFlightBacked
  <1>8. IdleHasNoHook'
    BY <1>1 DEF Backing, IdleHasNoHook, TypeOK
  <1>9. ReceivedBeforePointer' /\ CacheBacked'
    BY <1>1, <1>4 DEF Backing, ReceivedBeforePointer, CacheBacked
  <1> QED BY <1>7, <1>8, <1>9 DEF Backing

\* The materializer copies into the cache what S3 has and the DB says.
LEMMA HydrateBacks ==
  ASSUME TypeOK, Backing, NEW p \in Push, Hydrate(p)
  PROVE  Backing'
  <1>1. /\ UNCHANGED <<refs, replica, store, diskRefs, cmds, pack, leftOut, landed, hook, todo>>
        /\ req' = [req EXCEPT ![p] = "hydrated"]
        /\ \A n \in Name : disk'[n] \subseteq disk[n] \union store[n]
    BY DEF Hydrate, Fetched, TypeOK, dbVars, pushVars, clientVars
  <1>2. CacheBacked'
    BY <1>1, WithheldStays DEF Backing, CacheBacked
  <1>3. \A q \in Push : News(q)' = News(q)
    BY <1>1 DEF News
  <1>4. InFlightBacked' /\ IdleHasNoHook'
    BY <1>1, <1>3, WithheldStays DEF Backing, InFlightBacked, IdleHasNoHook, TypeOK
  <1>5. ReceivedBeforePointer'
    BY <1>1, WithheldStays DEF Backing, ReceivedBeforePointer
  <1> QED BY <1>2, <1>4, <1>5 DEF Backing

LEMMA MirrorRefsBacks ==
  ASSUME TypeOK, Backing, NEW p \in Push, MirrorRefs(p)
  PROVE  Backing'
  <1>1. /\ UNCHANGED <<refs, replica, store, disk, cmds, pack, leftOut, landed, todo>>
        /\ req' = [req EXCEPT ![p] = "serving"]
        /\ hook' = [hook EXCEPT ![p] = "unpacking"]
        /\ \A n \in Name : diskRefs'[n] = diskRefs[n] \/ diskRefs'[n] = refs
    BY DEF MirrorRefs, TypeOK, dbVars, pushVars, clientVars
  <1>2. CacheBacked'
    BY <1>1, WithheldStays DEF Backing, CacheBacked, ReceivedBeforePointer
  <1>3. \A q \in Push : News(q)' = News(q)
    BY <1>1 DEF News
  <1>4. InFlightBacked'
    BY <1>1, <1>3, WithheldStays DEF Backing, InFlightBacked, TypeOK
  <1>5. IdleHasNoHook'
    BY <1>1 DEF Backing, IdleHasNoHook, TypeOK
  <1>6. ReceivedBeforePointer'
    BY <1>1, WithheldStays DEF Backing, ReceivedBeforePointer
  <1> QED BY <1>2, <1>4, <1>5, <1>6 DEF Backing

\* git's check moves the hook thread on, and marks commands.
LEMMA CheckConnectedBacks ==
  ASSUME TypeOK, Backing, NEW p \in Push, CheckConnected(p)
  PROVE  Backing'
  <1>1. /\ UNCHANGED <<refs, replica, store, disk, diskRefs, cmds, pack, leftOut, landed>>
        /\ UNCHANGED <<todo, req>>
        /\ hook[p] = "unpacking"
        /\ \A q \in Push : hook'[q] = IF q = p THEN "checked" ELSE hook[q]
    BY DEF CheckConnected, TypeOK, dbVars, repoVars, clientVars
  <1>2. \A q \in Push : hook'[q] \in InPath => hook[q] = hook'[q]
    BY <1>1 DEF InPath
  <1>3. \A q \in Push : hook[q] = "none" => hook'[q] = "none"
    BY <1>1
  <1> HIDE DEF Backing
  <1> QED BY <1>1, <1>2, <1>3, Frame

LEMMA HandleStartBacks ==
  ASSUME TypeOK, Backing, NEW p \in Push, HandleStart(p)
  PROVE  Backing'
  <1>1. /\ UNCHANGED <<refs, replica, store, disk, diskRefs, cmds, pack, leftOut, landed, req>>
        /\ \A q \in Push : hook'[q] = IF q = p THEN "putting" ELSE hook[q]
        /\ \A q \in Push : todo'[q] = IF q = p THEN pack[p] ELSE todo[q]
    BY DEF HandleStart, TypeOK, dbVars, repoVars, pushVars, clientVars
  <1>2. \A q \in Push : News(q)' = News(q)
    BY <1>1 DEF News
  <1>4. InFlightBacked'
    BY <1>1, <1>2, WithheldStays DEF Backing, InFlightBacked
  <1>5. hook[p] = "checked"
    BY DEF HandleStart, HookCalls
  <1>6. IdleHasNoHook'
    BY <1>1, <1>5 DEF Backing, IdleHasNoHook
  <1>7. ReceivedBeforePointer' /\ CacheBacked'
    BY <1>1, WithheldStays DEF Backing, ReceivedBeforePointer, CacheBacked
  <1> QED BY <1>4, <1>6, <1>7 DEF Backing

\* A PUT moves an object from what is owed to what S3 has.
LEMMA PutObjectBacks ==
  ASSUME TypeOK, Backing, NEW p \in Push, PutObject(p)
  PROVE  Backing'
  <1>1. PICK o \in todo[p] :
          /\ store' = [store EXCEPT ![NameOf[p]] = @ \union {o}]
          /\ todo' = [todo EXCEPT ![p] = @ \ {o}]
    BY DEF PutObject
  <1>2. UNCHANGED <<refs, replica, disk, diskRefs, cmds, pack, leftOut, landed, req, hook>>
    BY DEF PutObject, dbVars, pushVars, clientVars
  <1>3. \A n \in Name : store[n] \subseteq store'[n]
    BY <1>1 DEF TypeOK
  <1>4. o \in store'[NameOf[p]]
    BY <1>1, NamingAssumption DEF TypeOK
  <1>5. \A q \in Push : News(q)' = News(q)
    BY <1>2 DEF News
  <1>6. \A q \in Push : store[NameOf[q]] \union todo[q] \subseteq store'[NameOf[q]] \union todo'[q]
    BY <1>1, <1>3, <1>4, NamingAssumption DEF TypeOK
  <1>7. InFlightBacked'
    BY <1>2, <1>3, <1>5, <1>6, NamingAssumption, WithheldStays DEF Backing, InFlightBacked
  <1>8. ReceivedBeforePointer' /\ CacheBacked'
    BY <1>2, <1>3, WithheldStays DEF Backing, ReceivedBeforePointer, CacheBacked
  <1>9. IdleHasNoHook'
    BY <1>2 DEF Backing, IdleHasNoHook
  <1> QED BY <1>7, <1>8, <1>9 DEF Backing

\* The commit of a push whose PUTs are all done.
LEMMA CASRefsBacks ==
  ASSUME TypeOK, Backing, NEW p \in Push, CASRefs(p),
         \A m, n \in Name : m = n
  PROVE  Backing'
  <1>1. /\ UNCHANGED <<replica, store, disk, diskRefs, cmds, pack, leftOut, todo, req>>
        /\ hook[p] = "putting"
        /\ \A q \in Push : hook'[q] = IF q = p THEN "committed" ELSE hook[q]
        /\ landed' = landed \union {p}
    BY DEF CASRefs, TypeOK, repoVars, pushVars, clientVars
  <1>2. Withheld \subseteq Withheld' /\ leftOut[p] \subseteq Withheld'
    BY <1>1 DEF Withheld, LeftOutBy
  <1>3. pack[p] \subseteq store[NameOf[p]]
    BY DEF CASRefs, Uploaded, Backing, InFlightBacked
  <1>4. Closure(News(p)) \subseteq store[NameOf[p]] \union Withheld'
    BY <1>2, <1>3 DEF Backing, InFlightBacked
  <1>5. \A r \in Ref : refs'[r] = refs[r] \/ refs'[r] \in News(p)
    BY DEF CASRefs, Updated, News
  <1>6. \A r \in Ref, n \in Name : refs'[r] # Absent => Anc[refs'[r]] \subseteq store[n] \union Withheld'
    <2> SUFFICES ASSUME NEW r \in Ref, NEW n \in Name, refs'[r] # Absent
                 PROVE  Anc[refs'[r]] \subseteq store[n] \union Withheld'
      OBVIOUS
    <2>1. CASE refs'[r] = refs[r]
      BY <1>2, <2>1 DEF Backing, ReceivedBeforePointer
    <2>2. CASE refs'[r] \in News(p)
      <3>1. Anc[refs'[r]] \subseteq Closure(News(p))
        BY <2>2, ClosureContains
      <3>2. n = NameOf[p]
        BY NamingAssumption
      <3> QED BY <3>1, <3>2, <1>4
    <2> QED BY <1>5, <2>1, <2>2
  <1>7. ReceivedBeforePointer'
    BY <1>1, <1>2, <1>6 DEF Backing, ReceivedBeforePointer
  <1>8. \A q \in Push : News(q)' = News(q)
    BY <1>1 DEF News
  <1>9. InFlightBacked'
    <2>1. \A q \in Push : (Closure(News(q)))' = Closure(News(q))
      BY <1>8 DEF Closure
    <2> QED BY <1>1, <1>2, <1>3, <2>1 DEF Backing, InFlightBacked
  <1>10. CacheBacked' /\ IdleHasNoHook'
    BY <1>1, <1>2 DEF Backing, CacheBacked, IdleHasNoHook
  <1> QED BY <1>7, <1>9, <1>10 DEF Backing

\* receive-pack moves into the cache only what the handler has PUT.
LEMMA FinalizeBacks ==
  ASSUME TypeOK, Backing, NEW p \in Push, Finalize(p)
  PROVE  Backing'
  <1> DEFINE n == NameOf[p]
  <1>1. /\ UNCHANGED <<refs, replica, store, cmds, pack, leftOut, landed, todo, req>>
        /\ hook[p] = "ok"
        /\ \A q \in Push : hook'[q] = IF q = p THEN "final" ELSE hook[q]
    BY DEF Finalize, TypeOK, dbVars, pushVars, clientVars
  <1>2. pack[p] \subseteq store[n] /\ p \in landed
    BY <1>1 DEF Backing, InFlightBacked
  <1>3. Closure(News(p)) \subseteq store[n] \union Withheld
    <2>1. leftOut[p] \subseteq Withheld
      BY <1>2 DEF Withheld, LeftOutBy
    <2> QED BY <1>2, <2>1 DEF Backing, InFlightBacked
  <1>4. \A m \in Name : disk'[m] \subseteq store[m]
    BY <1>2 DEF Finalize, Backing, CacheBacked, TypeOK
  <1>5. /\ \A m \in Name \ {n} : diskRefs'[m] = diskRefs[m]
        /\ \A r \in Ref : diskRefs'[n][r] = diskRefs[n][r] \/ diskRefs'[n][r] \in News(p)
    BY NamingAssumption DEF Finalize, Moving, Unmarked, TypeOK, News
  <1>6. \A v \in News(p) : v # Absent => Anc[v] \subseteq store[n] \union Withheld
    BY <1>3, ClosureContains
  <1>7. \A m \in Name, r \in Ref :
           diskRefs'[m][r] # Absent => Anc[diskRefs'[m][r]] \subseteq store[m] \union Withheld
    BY <1>5, <1>6 DEF Backing, CacheBacked
  <1>8. CacheBacked'
    BY <1>1, <1>4, <1>7, WithheldStays DEF CacheBacked
  <1>9. \A q \in Push : News(q)' = News(q)
    BY <1>1 DEF News
  <1>10. InFlightBacked'
    BY <1>1, <1>9, WithheldStays DEF Backing, InFlightBacked
  <1>11. ReceivedBeforePointer' /\ IdleHasNoHook'
    BY <1>1, WithheldStays DEF Backing, ReceivedBeforePointer, IdleHasNoHook
  <1> QED BY <1>8, <1>10, <1>11 DEF Backing

\* A restart takes the refs back to the replica and ends every push.
LEMMA CrashBacks ==
  ASSUME TypeOK, Backing, Crash
  PROVE  Backing'
  <1>1. /\ UNCHANGED <<replica, store, cmds, pack, leftOut, landed, todo>>
        /\ refs' = replica
        /\ \A q \in Push : hook'[q] \in Ended \union {"none"}
        /\ \A q \in Push : req'[q] = "idle" => req[q] = "idle"
        /\ \A q \in Push : hook[q] = "none" => hook'[q] = "none"
    BY DEF Crash, pushVars, clientVars, Ended
  <1>2. /\ \A n \in Name : disk'[n] = disk[n] \/ disk'[n] = {}
        /\ \A n \in Name, r \in Ref : diskRefs'[n][r] = diskRefs[n][r] \/ diskRefs'[n][r] = Absent
    BY DEF Crash
  <1>3. CacheBacked'
    BY <1>1, <1>2, WithheldStays DEF Backing, CacheBacked
  <1>4. ReceivedBeforePointer'
    BY <1>1, WithheldStays DEF Backing, ReceivedBeforePointer
  <1>5. InFlightBacked'
    <2>1. \A q \in Push : News(q)' = News(q)
      BY <1>1 DEF News
    <2> QED BY <1>1, <2>1, WithheldStays DEF Backing, InFlightBacked, Ended, Refusal
  <1>6. IdleHasNoHook'
    BY <1>1 DEF Backing, IdleHasNoHook
  <1> QED BY <1>3, <1>4, <1>5, <1>6 DEF Backing

LEMMA ReplicateBacks ==
  ASSUME Backing, Replicate
  PROVE  Backing'
  <1>1. /\ UNCHANGED <<refs, store, disk, diskRefs, cmds, pack, leftOut, landed, todo, req, hook>>
        /\ replica' = refs
    BY DEF Replicate, dbVars, repoVars, pushVars, clientVars
  <1>2. \A q \in Push : News(q)' = News(q)
    BY <1>1 DEF News
  <1> QED BY <1>1, <1>2, WithheldStays DEF Backing, ReceivedBeforePointer, CacheBacked,
          InFlightBacked, IdleHasNoHook

\* The steps of the request goroutine that only move it on.
LEMMA RequestBacks ==
  ASSUME TypeOK, Backing, NEW p \in Push, Request(p) \/ Vanish(p)
  PROVE  Backing'
  <1> USE DEF Holding, dbVars, repoVars, writerVars, pushVars, clientVars
  <1>1. CASE Hydrate(p)
    BY <1>1, HydrateBacks
  <1>2. CASE MirrorRefs(p)
    BY <1>2, MirrorRefsBacks
  <1>3. ASSUME UNCHANGED <<refs, replica, store, disk, diskRefs, cmds, pack, leftOut, landed, todo, hook>>,
               \E a \in ReqState \ {"idle"} : req' = [req EXCEPT ![p] = a]
        PROVE  Backing'
    <2>1. \A q \in Push : req'[q] = "idle" => req[q] = "idle"
      BY <1>3 DEF TypeOK
    <2> HIDE DEF Backing
    <2> QED BY <1>3, <2>1, Frame
  <1> HIDE DEF Backing
  <1>4. CASE Lock(p)
    BY <1>3, <1>4 DEF Lock, ReqState
  <1>5. CASE MaterializeFails(p)
    BY <1>3, <1>5 DEF MaterializeFails, ReqState
  <1>6. CASE Served(p)
    BY <1>3, <1>6 DEF Served, ReqState
  <1>7. CASE Vanish(p)
    BY <1>3, <1>7 DEF Vanish, ReqState
  <1>8. CASE FireAfterCommit(p)
    BY <1>3, <1>8 DEF FireAfterCommit, ReqState
  <1>9. CASE Release(p)
    BY <1>3, <1>9 DEF Release, ReqState
  <1> QED BY <1>1, <1>2, <1>4, <1>5, <1>6, <1>7, <1>8, <1>9 DEF Request

\* The steps that end a hook thread with a refusal.
LEMMA RefusesBacks ==
  ASSUME TypeOK, Backing, NEW p \in Push, Refuses(p)
  PROVE  Backing'
  <1>1. ASSUME NEW why \in Refusal \union {"dead"}, Refuse(p, why), hook[p] # "none"
        PROVE  Backing'
    <2>1. /\ UNCHANGED <<refs, replica, store, disk, diskRefs, cmds, pack, leftOut, landed, todo>>
          /\ req' = req
          /\ \A q \in Push : hook'[q] = IF q = p THEN why ELSE hook[q]
      BY <1>1 DEF Refuse, TypeOK, dbVars, repoVars, pushVars, clientVars
    <2>2. /\ \A q \in Push : hook'[q] \in InPath => hook'[q] = hook[q]
          /\ \A q \in Push : hook[q] = "none" => hook'[q] = "none"
      BY <1>1, <2>1 DEF InPath, Refusal
    <2> QED BY <2>1, <2>2, Frame
  <1> HIDE DEF Backing
  <1>2. CASE UnpackFails(p)
    BY <1>1, <1>2 DEF UnpackFails, Refusal
  <1>3. CASE HookWithoutQuarantine(p)
    BY <1>1, <1>3 DEF HookWithoutQuarantine, Refusal
  <1>4. CASE HandleBadNonce(p)
    BY <1>1, <1>4 DEF HandleBadNonce, HookCalls, Refusal
  <1>5. CASE HandleGuarded(p)
    BY <1>1, <1>5 DEF HandleGuarded, HookCalls, Refusal
  <1>6. CASE HandleFails(p)
    BY <1>1, <1>6 DEF HandleFails, Refusal
  <1>7. CASE CASMismatch(p)
    BY <1>1, <1>7 DEF CASMismatch, Refusal
  <1>8. CASE ReceivePackDies(p)
    BY <1>1, <1>8 DEF ReceivePackDies, Refusal
  <1> QED BY <1>2, <1>3, <1>4, <1>5, <1>6, <1>7, <1>8 DEF Refuses

LEMMA RecordBacks ==
  ASSUME TypeOK, Backing, NEW p \in Push, Record(p)
  PROVE  Backing'
  <1>1. /\ UNCHANGED <<refs, replica, store, disk, diskRefs, cmds, pack, leftOut, landed, todo, req>>
        /\ hook[p] = "committed"
        /\ \A q \in Push : hook'[q] = IF q = p THEN "ok" ELSE hook[q]
    BY DEF Record, TypeOK, dbVars, repoVars, pushVars, clientVars
  <1>2. \A q \in Push : hook'[q] \in InPath => \/ hook[q] = hook'[q]
                                               \/ (hook[q] = "committed" /\ hook'[q] = "ok")
    BY <1>1
  <1>3. \A q \in Push : hook[q] = "none" => hook'[q] = "none"
    BY <1>1
  <1> HIDE DEF Backing
  <1> QED BY <1>1, <1>2, <1>3, Frame

LEMMA StutterBacks ==
  ASSUME Backing, UNCHANGED <<refs, replica, store, disk, diskRefs, cmds, pack, leftOut, landed, todo, req, hook>>
  PROVE  Backing'
  BY Frame

-----------------------------------------------------------------------------
\* One spelling in use: then IInv is an invariant.
LEMMA IInvInit == Init => IInv
  <1> SUFFICES ASSUME Init PROVE IInv
    OBVIOUS
  <1>1. \A n \in Name, r \in Ref : InitRefs[r] # Absent => Anc[InitRefs[r]] \subseteq store[n]
    <2> SUFFICES ASSUME NEW n \in Name, NEW r \in Ref, InitRefs[r] # Absent
                 PROVE  Anc[InitRefs[r]] \subseteq store[n]
      OBVIOUS
    <2>1. store[n] = Closure({InitRefs[q] : q \in Ref})
      BY DEF Init
    <2> QED BY <2>1, ClosureContains
  <1>2. ReceivedBeforePointer
    BY <1>1 DEF Init, ReceivedBeforePointer
  <1>3. CacheBacked
    BY DEF Init, CacheBacked
  <1>4. InFlightBacked /\ IdleHasNoHook
    <2>1. \A p \in Push : Closure(News(p)) = {}
      BY DEF Init, News, NoCommands, Closure
    <2> QED BY <2>1 DEF Init, InFlightBacked, IdleHasNoHook
  <1> QED BY <1>2, <1>3, <1>4, TypeInit DEF IInv

LEMMA IInvStep ==
  ASSUME \A m, n \in Name : m = n
  PROVE  IInv /\ [Next]_vars => IInv'
  <1> SUFFICES ASSUME IInv, [Next]_vars PROVE IInv'
    OBVIOUS
  <1>1. TypeOK /\ Backing
    BY DEF IInv, Backing
  <1>2. TypeOK'
    BY TypeStep DEF IInv
  <1>3. Backing'
    <2>1. ASSUME NEW p \in Push, Begin(p) PROVE Backing'
      BY <1>1, <2>1, BeginBacks
    <2>2. ASSUME NEW p \in Push, Request(p) \/ Vanish(p) PROVE Backing'
      BY <1>1, <2>2, RequestBacks
    <2>3. ASSUME NEW p \in Push, Refuses(p) PROVE Backing'
      BY <1>1, <2>3, RefusesBacks
    <2>4. ASSUME NEW p \in Push, HandleStart(p) PROVE Backing'
      BY <1>1, <2>4, HandleStartBacks
    <2>13. ASSUME NEW p \in Push, CheckConnected(p) PROVE Backing'
      BY <1>1, <2>13, CheckConnectedBacks
    <2>5. ASSUME NEW p \in Push, PutObject(p) PROVE Backing'
      BY <1>1, <2>5, PutObjectBacks
    <2>6. ASSUME NEW p \in Push, CASRefs(p) PROVE Backing'
      BY <1>1, <2>6, CASRefsBacks
    <2>7. ASSUME NEW p \in Push, Record(p) PROVE Backing'
      BY <1>1, <2>7, RecordBacks
    <2>8. ASSUME NEW p \in Push, Finalize(p) PROVE Backing'
      BY <1>1, <2>8, FinalizeBacks
    <2>9. CASE Replicate
      BY <1>1, <2>9, ReplicateBacks
    <2>10. CASE Crash
      BY <1>1, <2>10, CrashBacks
    <2>11. CASE EditSettings
      BY <1>1, <2>11, StutterBacks DEF EditSettings, repoVars, pushVars, clientVars
    <2>12. CASE UNCHANGED vars
      BY <1>1, <2>12, StutterBacks DEF vars
    <2> QED BY <2>1, <2>2, <2>3, <2>4, <2>5, <2>6, <2>7, <2>8, <2>9, <2>10, <2>11, <2>12,
               <2>13
            DEF Next, Handler, Refuses
  <1> QED BY <1>2, <1>3 DEF IInv, Backing

LEMMA IInvHolds ==
  ASSUME \A m, n \in Name : m = n
  PROVE  Spec => []IInv
  <1>1. IInv /\ [Next]_vars => IInv'
    BY IInvStep
  <1> QED BY IInvInit, <1>1, PTL DEF Spec

(***************************************************************************)
(* Content before pointer, for what the server was sent.  As long as a     *)
(* repo is addressed by one spelling of its name, no interleaving of       *)
(* pushes, complete or not, hooks that outlive them, failures, crashes and *)
(* replication leads to a ref, live or replicated, whose history is not in *)
(* S3, except where a committed push left it out.  The run "alias" shows   *)
(* that the assumption is needed.                                          *)
(***************************************************************************)
THEOREM Durability ==
  ASSUME \A m, n \in Name : m = n
  PROVE  Spec => []ReceivedBeforePointer
  <1>1. IInv => ReceivedBeforePointer
    BY DEF IInv
  <1> QED BY IInvHolds, <1>1, PTL

\* Clients that always complete their packs.
NothingLeftOut == \A p \in Push : leftOut[p] = {}

LEMMA NothingLeftOutStep ==
  ASSUME MayOmit = FALSE
  PROVE  TypeOK /\ NothingLeftOut /\ [Next]_vars => NothingLeftOut'
  <1> SUFFICES ASSUME TypeOK, NothingLeftOut, [Next]_vars PROVE NothingLeftOut'
    OBVIOUS
  <1>1. ASSUME NEW p \in Push, Begin(p) PROVE NothingLeftOut'
    <2>1. leftOut' = [leftOut EXCEPT ![p] = {}]
      BY <1>1 DEF Begin
    <2> QED BY <2>1 DEF NothingLeftOut, TypeOK
  <1>2. ASSUME leftOut' = leftOut PROVE NothingLeftOut'
    BY <1>2 DEF NothingLeftOut
  <1>3. ASSUME NEW p \in Push, Request(p) \/ Vanish(p) PROVE leftOut' = leftOut
    BY <1>3 DEF Request, Lock, Hydrate, MirrorRefs, MaterializeFails, Served,
       FireAfterCommit, Release, Vanish, pushVars, clientVars
  <1>4. ASSUME NEW p \in Push, Refuses(p) PROVE leftOut' = leftOut
    BY <1>4 DEF Refuses, UnpackFails, HookWithoutQuarantine, HandleBadNonce,
       HandleGuarded, HandleFails, CASMismatch, ReceivePackDies, Refuse, pushVars, clientVars
  <1>5. ASSUME NEW p \in Push, CheckConnected(p) \/ HandleStart(p) \/ PutObject(p)
                                 \/ CASRefs(p) \/ Record(p) \/ Finalize(p)
        PROVE  leftOut' = leftOut
    BY <1>5 DEF CheckConnected, HandleStart, PutObject, CASRefs, Record, Finalize,
       pushVars, clientVars
  <1>6. CASE Replicate \/ Crash \/ EditSettings \/ UNCHANGED vars
    BY <1>2, <1>6 DEF Replicate, Crash, EditSettings, vars, pushVars, clientVars
  <1> QED BY <1>1, <1>2, <1>3, <1>4, <1>5, <1>6 DEF Next, Handler, Refuses

(***************************************************************************)
(* Content before pointer as the documents state it, for clients whose     *)
(* packs are complete: nothing a ref reaches is missing in S3.  The run    *)
(* "incomplete_pack" shows that this assumption is needed, too.            *)
(***************************************************************************)
THEOREM CompletePacksAreDurable ==
  ASSUME \A m, n \in Name : m = n, MayOmit = FALSE
  PROVE  Spec => []ContentBeforePointer
  <1>1. IInv /\ NothingLeftOut => ContentBeforePointer
    BY DEF IInv, NothingLeftOut, ReceivedBeforePointer, Withheld, LeftOutBy,
       ContentBeforePointer, Backed, TypeOK
  <1>2. Init => NothingLeftOut
    BY DEF Init, NothingLeftOut
  <1>3. IInv => TypeOK
    BY DEF IInv
  <1> QED BY IInvHolds, <1>1, <1>2, <1>3, NothingLeftOutStep, PTL DEF Spec

(***************************************************************************)
(* The cache, which a crash may leave behind for the next life, never      *)
(* holds an object that S3 lacks, nor a ref to content that was sent and   *)
(* is not in S3: what git's check trusts on disk, and no handler PUTs      *)
(* again, is as durable as the refs are.                                   *)
(***************************************************************************)
THEOREM CacheIsBacked ==
  ASSUME \A m, n \in Name : m = n
  PROVE  Spec => []CacheBacked
  <1>1. IInv => CacheBacked
    BY DEF IInv
  <1> QED BY IInvHolds, <1>1, PTL

-----------------------------------------------------------------------------
(* The lock, the nonces and the way into the write path.                    *)

\* A step that gives and takes neither lock, and mints no nonce.
LEMMA LockFrame ==
  ASSUME TypeOK, LockInv, lock' = lock, nonces' \subseteq nonces,
         \A q \in Push : req'[q] \in Holding <=> req[q] \in Holding
  PROVE  LockInv'
  BY DEF LockInv, TypeOK

LEMMA LockInvInit == Init => LockInv
  BY DEF Init, LockInv, Holding

LEMMA LockInvStep == TypeOK /\ LockInv /\ [Next]_vars => LockInv'
  <1> SUFFICES ASSUME TypeOK, LockInv, [Next]_vars PROVE LockInv'
    OBVIOUS
  <1> USE DEF writerVars
  <1>1. ASSUME NEW p \in Push, NEW a \in ReqState, lock' = lock, nonces' = nonces,
               req' = [req EXCEPT ![p] = a], req[p] \in Holding <=> a \in Holding
        PROVE  LockInv'
    <2>1. \A q \in Push : req'[q] \in Holding <=> req[q] \in Holding
      BY <1>1 DEF TypeOK
    <2> QED BY <1>1, <2>1, LockFrame
  <1>2. ASSUME req' = req, lock' = lock, nonces' \subseteq nonces PROVE LockInv'
    BY <1>2, LockFrame
  <1>3. ASSUME NEW p \in Push, Lock(p) PROVE LockInv'
    <2>1. /\ \A n \in Name : lock'[n] = IF n = NameOf[p] THEN p ELSE lock[n]
          /\ \A q \in Push : req'[q] = IF q = p THEN "locked" ELSE req[q]
          /\ nonces' = nonces \union {p}
          /\ lock[NameOf[p]] = Free
      BY <1>3 DEF Lock, Unlocked, TypeOK
    <2>2. \A q \in Push : req[q] \in Holding => NameOf[q] # NameOf[p]
      BY <2>1, NamingAssumption DEF LockInv
    <2> QED BY <2>1, <2>2, NamingAssumption DEF LockInv, Holding, TypeOK
  <1>4. ASSUME NEW p \in Push, Release(p) PROVE LockInv'
    <2>1. /\ \A n \in Name : lock'[n] = IF n = NameOf[p] THEN Free ELSE lock[n]
          /\ \A q \in Push : req'[q] = IF q = p THEN "done" ELSE req[q]
          /\ nonces' = nonces \ {p}
          /\ req[p] \in Holding
      BY <1>4 DEF Release, Unregistered, TypeOK, Holding
    <2>2. \A q \in Push \ {p} : req[q] \in Holding => NameOf[q] # NameOf[p]
      BY <2>1 DEF LockInv
    <2> QED BY <2>1, <2>2, NamingAssumption DEF LockInv, Holding, TypeOK
  <1>5. ASSUME NEW p \in Push, Begin(p) PROVE LockInv'
    BY <1>1, <1>5 DEF Begin, ReqState, Holding
  <1>6. ASSUME NEW p \in Push, Request(p) \/ Vanish(p) PROVE LockInv'
    <2>1. CASE Hydrate(p)
      BY <1>1, <2>1 DEF Hydrate, ReqState, Holding
    <2>2. CASE MirrorRefs(p)
      BY <1>1, <2>2 DEF MirrorRefs, ReqState, Holding
    <2>3. CASE MaterializeFails(p)
      BY <1>1, <2>3 DEF MaterializeFails, ReqState, Holding
    <2>4. CASE Served(p)
      BY <1>1, <2>4 DEF Served, ReqState, Holding
    <2>5. CASE Vanish(p)
      BY <1>1, <2>5 DEF Vanish, ReqState, Holding
    <2>6. CASE FireAfterCommit(p)
      BY <1>1, <2>6 DEF FireAfterCommit, ReqState, Holding
    <2> QED BY <1>3, <1>4, <1>6, <2>1, <2>2, <2>3, <2>4, <2>5, <2>6 DEF Request
  <1>7. ASSUME NEW p \in Push, Refuses(p) PROVE LockInv'
    BY <1>2, <1>7 DEF Refuses, UnpackFails, HookWithoutQuarantine, HandleBadNonce,
         HandleGuarded, HandleFails, CASMismatch, ReceivePackDies, Refuse
  <1>8. ASSUME NEW p \in Push, CheckConnected(p) \/ HandleStart(p) \/ PutObject(p)
                                 \/ CASRefs(p) \/ Record(p) \/ Finalize(p)
        PROVE  LockInv'
    BY <1>2, <1>8 DEF CheckConnected, HandleStart, PutObject, CASRefs, Record, Finalize
  <1>9. CASE Crash
    BY <1>9 DEF Crash, LockInv, Holding
  <1>10. CASE Replicate \/ EditSettings \/ UNCHANGED vars
    BY <1>2, <1>10 DEF Replicate, EditSettings, vars
  <1> QED BY <1>3, <1>4, <1>5, <1>6, <1>7, <1>8, <1>9, <1>10
          DEF Next, Handler, Refuses

\* The only way into the write path is to burn a nonce.
LEMMA EntersStep ==
  ASSUME TypeOK, LockInv, [Next]_vars, NEW p \in Push,
         hook[p] # "putting", hook'[p] = "putting"
  PROVE  p \in nonces
  <1>1. ASSUME NEW q \in Push, Refuses(q) PROVE FALSE
    <2>1. PICK why \in Refusal \union {"dead"} : Refuse(q, why)
      BY <1>1 DEF Refuses, UnpackFails, HookWithoutQuarantine, HandleBadNonce,
           HandleGuarded, HandleFails, CASMismatch, ReceivePackDies, Refusal
    <2> QED BY <2>1 DEF Refuse, Refusal, TypeOK
  <1>2. ASSUME NEW q \in Push, Begin(q) \/ Request(q) \/ Vanish(q) PROVE FALSE
    BY <1>2 DEF Begin, Request, Lock, Hydrate, MirrorRefs, MaterializeFails, Served,
         FireAfterCommit, Release, Vanish, TypeOK
  <1>3. ASSUME NEW q \in Push, HandleStart(q) PROVE p \in nonces
    BY <1>3 DEF HandleStart, TypeOK
  <1>4. ASSUME NEW q \in Push, CheckConnected(q) \/ PutObject(q) \/ CASRefs(q)
                                 \/ Record(q) \/ Finalize(q)
        PROVE  FALSE
    BY <1>4 DEF CheckConnected, PutObject, CASRefs, Record, Finalize, TypeOK
  <1>5. CASE Crash
    BY <1>5 DEF Crash, Ended, Refusal
  <1>6. CASE Replicate \/ EditSettings \/ UNCHANGED vars
    BY <1>6 DEF Replicate, EditSettings, vars
  <1> QED BY <1>1, <1>2, <1>3, <1>4, <1>5, <1>6 DEF Next, Handler, Refuses

(***************************************************************************)
(* A push enters the write path only while it holds the lock of its repo,  *)
(* however long its receive-pack outlives its request: the nonce dies with *)
(* the request (Begin's release, take).                                    *)
(***************************************************************************)
THEOREM NonceIsBoundToLock == Spec => EntersUnderLock
  <1>1. TypeOK /\ LockInv /\ [Next]_vars => [\A p \in Push :
            hook[p] # "putting" /\ hook'[p] = "putting" => lock[NameOf[p]] = p]_vars
    BY EntersStep DEF LockInv
  <1>2. Spec => [](TypeOK /\ LockInv)
    BY TypeInit, TypeStep, LockInvInit, LockInvStep, PTL DEF Spec
  <1> QED BY <1>1, <1>2, PTL DEF Spec, EntersUnderLock

-----------------------------------------------------------------------------
(* Clients that stay connected.                                            *)

\* A hook thread at work has its request waiting for it, and what it recorded
\* is there when the request looks.
AttendedInv == \A p \in Push :
    /\ hook[p] \in {"unpacking", "checked"} \union InPath => req[p] = "serving"
    /\ req[p] \in {"idle", "waiting", "locked", "hydrated"} => hook[p] = "none"
    /\ crashes = 0 /\ hook[p] \in {"ok", "final"} => p \in outcome
    /\ crashes = 0 /\ req[p] \in {"releasing", "done"} /\ hook[p] = "final" => p \in fired

LEMMA AttendedInit == Init => AttendedInv
  BY DEF Init, AttendedInv, InPath

LEMMA AttendedStep ==
  ASSUME MayVanish = FALSE
  PROVE  TypeOK /\ AttendedInv /\ [Next]_vars => AttendedInv'
  <1> SUFFICES ASSUME TypeOK, AttendedInv, [Next]_vars PROVE AttendedInv'
    OBVIOUS
  <1> USE DEF AttendedInv, InPath, TypeOK, dbVars, repoVars, writerVars, pushVars, clientVars
  <1>1. ASSUME NEW p \in Push, Begin(p) PROVE AttendedInv'
    BY <1>1 DEF Begin
  <1>2. ASSUME NEW p \in Push, Request(p) PROVE AttendedInv'
    <2>1. CASE Lock(p)
      BY <2>1 DEF Lock
    <2>2. CASE Hydrate(p)
      BY <2>2 DEF Hydrate
    <2>3. CASE MirrorRefs(p)
      BY <2>3 DEF MirrorRefs
    <2>4. CASE MaterializeFails(p)
      BY <2>4 DEF MaterializeFails
    <2>5. CASE Served(p)
      BY <2>5 DEF Served, Ended, Refusal
    <2>6. CASE FireAfterCommit(p)
      BY <2>6 DEF FireAfterCommit
    <2>7. CASE Release(p)
      BY <2>7 DEF Release
    <2> QED BY <1>2, <2>1, <2>2, <2>3, <2>4, <2>5, <2>6, <2>7 DEF Request
  <1>3. ASSUME NEW p \in Push, Vanish(p) PROVE AttendedInv'
    BY <1>3 DEF Vanish
  <1>4. ASSUME NEW p \in Push, NEW why \in Refusal \union {"dead"}, Refuse(p, why),
               req[p] = "serving"
        PROVE  AttendedInv'
    BY <1>4 DEF Refuse, Refusal
  <1>5. ASSUME NEW p \in Push, Refuses(p) PROVE AttendedInv'
    <2>1. PICK why \in Refusal \union {"dead"} : Refuse(p, why)
      BY <1>5 DEF Refuses, UnpackFails, HookWithoutQuarantine, HandleBadNonce,
         HandleGuarded, HandleFails, CASMismatch, ReceivePackDies, Refusal
    <2>2. req[p] = "serving"
      BY <1>5 DEF Refuses, UnpackFails, HookWithoutQuarantine, HandleBadNonce,
         HandleGuarded, HandleFails, CASMismatch, ReceivePackDies, HookCalls
    <2> HIDE DEF AttendedInv
    <2> QED BY <1>4, <2>1, <2>2
  <1>6. ASSUME NEW p \in Push, CheckConnected(p) \/ HandleStart(p) PROVE AttendedInv'
    BY <1>6 DEF CheckConnected, HandleStart, HookCalls
  <1>7. ASSUME NEW p \in Push, PutObject(p) \/ CASRefs(p) PROVE AttendedInv'
    BY <1>7 DEF PutObject, CASRefs
  <1>8. ASSUME NEW p \in Push, Record(p) \/ Finalize(p) PROVE AttendedInv'
    BY <1>8 DEF Record, Finalize
  <1>9. CASE Crash
    BY <1>9 DEF Crash, Ended, Refusal
  <1>10. CASE Replicate \/ EditSettings \/ UNCHANGED vars
    BY <1>10 DEF Replicate, EditSettings, vars
  <1> HIDE DEF AttendedInv
  <1> QED BY <1>1, <1>2, <1>3, <1>5, <1>6, <1>7, <1>8, <1>9, <1>10
          DEF Next, Handler, Refuses

\* Two pushes at work would both hold the one lock.
LEMMA AttendedSerializes ==
  ASSUME \A m, n \in Name : m = n, LockInv, AttendedInv
  PROVE  Serialized
  <1> SUFFICES ASSUME NEW p \in Push, NEW q \in Push, InWritePath(p), InWritePath(q)
               PROVE  p = q
    BY DEF Serialized
  <1>1. req[p] = "serving" /\ req[q] = "serving"
    BY DEF AttendedInv, InWritePath, InPath
  <1>2. lock[NameOf[p]] = p /\ lock[NameOf[q]] = q
    BY <1>1 DEF LockInv, Holding
  <1> QED BY <1>2, NamingAssumption

LEMMA AttendedFires == AttendedInv => AfterCommitForEachPush
  BY DEF AttendedInv, AfterCommitForEachPush, InPath

(***************************************************************************)
(* Pushes to one repo serialize, as long as it is addressed by one         *)
(* spelling and clients stay connected until they are answered.  The run   *)
(* "vanish" shows what the second assumption is for.                       *)
(***************************************************************************)
THEOREM PushesSerialize ==
  ASSUME \A m, n \in Name : m = n, MayVanish = FALSE
  PROVE  Spec => []Serialized
  <1>1. LockInv /\ AttendedInv => Serialized
    BY AttendedSerializes
  <1> QED BY <1>1, TypeInit, TypeStep, LockInvInit, LockInvStep, AttendedInit,
             AttendedStep, PTL DEF Spec

(***************************************************************************)
(* AfterCommit runs for each push that advanced refs, if clients stay      *)
(* connected and the server does not crash.                                *)
(***************************************************************************)
THEOREM AfterCommitFires ==
  ASSUME MayVanish = FALSE
  PROVE  Spec => []AfterCommitForEachPush
  <1> QED BY AttendedFires, TypeInit, TypeStep, AttendedInit, AttendedStep, PTL DEF Spec

-----------------------------------------------------------------------------
(* The default branch, and the abstract specification                      *)

\* A hook thread starts with its http-backend; the guard has let through what
\* is being PUT, and neither commands nor guard inputs change after Begin.  A
\* hook thread is late once its push has landed, and not before.
Early == {"none", "unpacking", "checked", "putting"}
Late == {"committed", "ok", "final"}
HookInv == \A p \in Push :
    /\ req[p] \in {"idle", "waiting", "locked", "hydrated"} => hook[p] = "none"
    /\ hook[p] = "putting" => ~Protected(p)
    /\ hook[p] \in Early => p \notin landed
    /\ hook[p] \in Late => p \in landed

LEMMA HookInvInit == Init => HookInv
  BY DEF Init, HookInv, Late

\* A step after Begin that moves one request or one hook thread.
LEMMA HookFrame ==
  ASSUME TypeOK, HookInv, UNCHANGED clientVars, landed' = landed,
         \A q \in Push : req'[q] \in {"idle", "waiting", "locked", "hydrated"} =>
             req[q] \in {"idle", "waiting", "locked", "hydrated"} /\ hook'[q] = hook[q],
         \A q \in Push : hook'[q] = "putting" => hook[q] = "putting" \/ ~Protected(q),
         \A q \in Push : hook'[q] \in Early => hook[q] \in Early,
         \A q \in Push : hook'[q] \in Late => hook[q] \in Late
  PROVE  HookInv'
  <1>1. \A q \in Push : Protected(q) <=> Protected(q)'
    BY DEF Protected, clientVars
  <1> QED BY <1>1 DEF HookInv

LEMMA HookInvStep == TypeOK /\ HookInv /\ [Next]_vars => HookInv'
  <1> SUFFICES ASSUME TypeOK, HookInv, [Next]_vars PROVE HookInv'
    OBVIOUS
  <1> USE DEF dbVars, pushVars
  <1>1. ASSUME NEW p \in Push, Begin(p) PROVE HookInv'
    <2>1. /\ hook' = hook /\ landed' = landed
          /\ req' = [req EXCEPT ![p] = "waiting"]
          /\ hook[p] = "none"
          /\ \A q \in Push \ {p} : cmds'[q] = cmds[q] /\ guard'[q] = guard[q]
      BY <1>1 DEF Begin, TypeOK, HookInv
    <2>2. \A q \in Push \ {p} : Protected(q) <=> Protected(q)'
      BY <2>1 DEF Protected
    <2> QED BY <2>1, <2>2 DEF HookInv, TypeOK
  <1>2. ASSUME NEW p \in Push, Request(p) \/ Vanish(p) PROVE HookInv'
    BY <1>2, HookFrame DEF Request, Lock, Hydrate, MirrorRefs, MaterializeFails, Served,
       FireAfterCommit, Release, Vanish, HookInv, Early, Late, TypeOK
  <1>3. ASSUME NEW p \in Push, Refuses(p) PROVE HookInv'
    <2>1. PICK why \in Refusal \union {"dead"} : Refuse(p, why)
      BY <1>3 DEF Refuses, UnpackFails, HookWithoutQuarantine, HandleBadNonce,
         HandleGuarded, HandleFails, CASMismatch, ReceivePackDies, Refusal
    <2>2. hook[p] # "none"
      BY <1>3 DEF Refuses, UnpackFails, HookWithoutQuarantine, HandleBadNonce,
         HandleGuarded, HandleFails, CASMismatch, ReceivePackDies, HookCalls
    <2> QED BY <2>1, <2>2, HookFrame DEF Refuse, Refusal, HookInv, Early, Late, TypeOK
  <1>4. ASSUME NEW p \in Push, HandleStart(p) PROVE HookInv'
    <2>1. hook[p] = "checked" /\ ~Protected(p)
      BY <1>4 DEF HandleStart, HookCalls
    <2> QED BY <1>4, <2>1, HookFrame DEF HandleStart, HookInv, Early, Late, TypeOK
  <1>5. ASSUME NEW p \in Push, CheckConnected(p) \/ PutObject(p) \/ Record(p) \/ Finalize(p)
        PROVE  HookInv'
    BY <1>5, HookFrame DEF CheckConnected, PutObject, Record, Finalize, HookInv,
       Early, Late, TypeOK
  <1>6. ASSUME NEW p \in Push, CASRefs(p) PROVE HookInv'
    <2>1. /\ UNCHANGED <<req, cmds, guard>>
          /\ hook' = [hook EXCEPT ![p] = "committed"]
          /\ landed' = landed \union {p}
          /\ hook[p] = "putting"
      BY <1>6 DEF CASRefs, clientVars
    <2>2. \A q \in Push : Protected(q) <=> Protected(q)'
      BY <2>1 DEF Protected
    <2> QED BY <2>1, <2>2 DEF HookInv, Early, Late, TypeOK
  <1>7. CASE Crash
    BY <1>7, HookFrame DEF Crash, HookInv, Ended, Refusal, Early, Late, TypeOK
  <1>8. CASE Replicate \/ EditSettings \/ UNCHANGED vars
    BY <1>8, HookFrame DEF Replicate, EditSettings, vars, clientVars, HookInv
  <1> QED BY <1>1, <1>2, <1>3, <1>4, <1>5, <1>6, <1>7, <1>8 DEF Next, Handler, Refuses

\* The refs move by a CAS, or a crash takes them back.
LEMMA OnlyCASMoves ==
  ASSUME TypeOK, [Next]_vars, crashes' = crashes, refs' # refs
  PROVE  \E p \in Push : CASRefs(p)
  <1>1. ASSUME NEW p \in Push, Begin(p) \/ Request(p) \/ Vanish(p) PROVE refs' = refs
    BY <1>1 DEF Begin, Request, Lock, Hydrate, MirrorRefs, MaterializeFails, Served,
       FireAfterCommit, Release, Vanish, dbVars
  <1>2. ASSUME NEW p \in Push, Refuses(p) PROVE refs' = refs
    BY <1>2 DEF Refuses, UnpackFails, HookWithoutQuarantine, HandleBadNonce,
       HandleGuarded, HandleFails, CASMismatch, ReceivePackDies, Refuse, dbVars
  <1>3. ASSUME NEW p \in Push, CheckConnected(p) \/ HandleStart(p) \/ PutObject(p)
                                 \/ Record(p) \/ Finalize(p)
        PROVE  refs' = refs
    BY <1>3 DEF CheckConnected, HandleStart, PutObject, Record, Finalize, dbVars
  <1>4. CASE Replicate \/ EditSettings \/ UNCHANGED vars
    BY <1>4 DEF Replicate, EditSettings, vars
  <1>5. ~Crash
    BY DEF Crash, TypeOK
  <1> QED BY <1>1, <1>2, <1>3, <1>4, <1>5 DEF Next, Handler, Refuses

\* A command that takes history off a ref is one that gitmote-hook calls a force.
LEMMA ForceIsSeen ==
  ASSUME TypeOK, NEW p \in Push, NEW d \in Ref, CASRefs(p), Rewrites(d)
  PROVE  d \in DOMAIN cmds[p] /\ IsForce(cmds[p][d])
  <1>1. refs[d] \in Commit
    BY DEF Rewrites, TypeOK, Value
  <1>2. refs'[d] = IF d \in DOMAIN cmds[p] THEN cmds[p][d].new ELSE refs[d]
    BY DEF CASRefs, Updated
  <1>3. refs[d] \in Anc[refs[d]]
    BY <1>1, HistoryAssumption
  <1>4. d \in DOMAIN cmds[p]
    BY <1>1, <1>2, <1>3, HistoryAssumption DEF Rewrites, Closure
  <1>5. cmds[p][d].old = refs[d]
    BY <1>4 DEF CASRefs, Matches
  <1> QED BY <1>2, <1>4, <1>5 DEF Rewrites, IsForce

(***************************************************************************)
(* The default branch keeps its history, whatever the client names next to *)
(* it in one push, unless the push is an admin's or found another default  *)
(* branch when it began.                                                   *)
(***************************************************************************)
THEOREM DefaultBranchIsKept == Spec => DefaultBranchKept
  <1>1. ASSUME TypeOK, HookInv, [Next]_vars, crashes' = crashes,
               Rewrites(settings.default)
        PROVE  \E p \in Push : /\ CommitsNow(p)
                               /\ guard[p].admin \/ guard[p].default # settings.default
    <2> DEFINE d == settings.default
    <2>1. d \in Ref
      BY <1>1 DEF TypeOK
    <2>2. refs[d] \in Commit
      BY <1>1, <2>1 DEF Rewrites, TypeOK, Value
    <2>3. refs' # refs
      <3>1. refs[d] \in Anc[refs[d]]
        BY <2>2, HistoryAssumption
      <3> QED BY <1>1, <2>2, <3>1, HistoryAssumption DEF Rewrites, Closure
    <2>4. PICK p \in Push : CASRefs(p)
      BY <1>1, <2>3, OnlyCASMoves
    <2>5. d \in DOMAIN cmds[p] /\ IsForce(cmds[p][d])
      BY <1>1, <2>1, <2>4, ForceIsSeen
    <2>6. hook[p] = "putting" /\ hook'[p] = "committed"
      BY <1>1, <2>4 DEF CASRefs, TypeOK
    <2>7. ~Protected(p)
      BY <1>1, <2>6 DEF HookInv
    <2> QED BY <2>5, <2>6, <2>7 DEF CommitsNow, Protected
  <1>2. TypeOK /\ HookInv /\ [Next]_vars => [
            crashes' = crashes /\ Rewrites(settings.default)
              => \E p \in Push : /\ CommitsNow(p)
                                 /\ guard[p].admin \/ guard[p].default # settings.default]_vars
    BY <1>1
  <1>3. Spec => [](TypeOK /\ HookInv)
    BY TypeInit, TypeStep, HookInvInit, HookInvStep, PTL DEF Spec
  <1> QED BY <1>2, <1>3, PTL DEF Spec, DefaultBranchKept

\* A step that readers of the refs cannot see.
LEMMA AtomicStutters ==
  ASSUME UNCHANGED <<refs, replica, store, cmds, leftOut>>,
         \A q \in Push : PushState(q)' = PushState(q)
  PROVE  UNCHANGED Atomic!vars
  BY DEF Atomic!vars

LEMMA AtomicInit ==
  ASSUME Name # {}
  PROVE  Init => Atomic!Init
  <1> SUFFICES ASSUME Init PROVE Atomic!Init
    OBVIOUS
  <1>1. {c \in Commit : \A n \in Name : c \in store[n]} = Closure({InitRefs[r] : r \in Ref})
    BY ClosureType, InputAssumption DEF Init
  <1>2. Closure({InitRefs[r] : r \in Ref}) = Atomic!History({InitRefs[r] : r \in Ref})
    BY DEF Closure, Atomic!History
  <1>3. [p \in Push |-> PushState(p)] = [p \in Push |-> "idle"]
    BY DEF Init, PushState
  <1> QED BY <1>1, <1>2, <1>3 DEF Init, Atomic!Init, NoCommands

\* The state of a push, as a function: one push moves.
LEMMA StateMoves ==
  ASSUME NEW p \in Push, NEW s, PushState(p)' = s,
         \A q \in Push \ {p} : PushState(q)' = PushState(q)
  PROVE  [q \in Push |-> PushState(q)]' = [[q \in Push |-> PushState(q)] EXCEPT ![p] = s]
  OBVIOUS

LEMMA BeginOpens ==
  ASSUME TypeOK, HookInv, NEW p \in Push, Begin(p)
  PROVE  Atomic!Open(p)
  <1>1. /\ UNCHANGED <<refs, replica, store, hook, landed>>
        /\ req' = [req EXCEPT ![p] = "waiting"]
        /\ req[p] = "idle" /\ hook[p] = "none" /\ p \notin landed
    BY DEF Begin, dbVars, repoVars, HookInv, Early
  <1>2. PushState(p) = "idle" /\ PushState(p)' = "open"
    BY <1>1 DEF PushState, TypeOK
  <1>3. \A q \in Push \ {p} : PushState(q)' = PushState(q)
    BY <1>1 DEF PushState, TypeOK
  <1>4. PICK ch \in Changes :
          cmds' = [cmds EXCEPT ![p] = [r \in DOMAIN ch |-> [old |-> refs[r], new |-> ch[r]]]]
    BY DEF Begin
  <1>5. [r \in DOMAIN ch |-> [old |-> refs[r], new |-> ch[r]]] \in Atomic!Commands
    BY CommandsType DEF TypeOK, Commands, Command, Value, Atomic!Commands, Atomic!Value
  <1>6. PICK out \in IF MayOmit THEN SUBSET Commit ELSE {{}} :
          leftOut' = [leftOut EXCEPT ![p] = out]
    <2>1. \A dh \in Changes : Closure({dh[r] : r \in DOMAIN dh}) \in SUBSET Commit
      BY CommandsType, ClosureType DEF TypeOK
    <2> QED BY <2>1 DEF Begin
  <1> QED BY <1>1, <1>2, <1>3, <1>4, <1>5, <1>6, StateMoves DEF Atomic!Open

\* The steps of the request goroutine, and those of the hook thread before its
\* verdict or after it.
LEMMA RequestStutters ==
  ASSUME TypeOK, HookInv, NEW p \in Push, Request(p) \/ Vanish(p)
  PROVE  UNCHANGED Atomic!vars
  <1>1. UNCHANGED <<refs, replica, store, cmds, leftOut, landed>>
    BY DEF Request, Lock, Hydrate, MirrorRefs, MaterializeFails, Served, FireAfterCommit,
       Release, Vanish, dbVars, repoVars, pushVars, clientVars
  <1>2. \A q \in Push : req'[q] = "idle" <=> req[q] = "idle"
    <2>1. CASE Lock(p) \/ Hydrate(p) \/ MirrorRefs(p) \/ MaterializeFails(p) \/ Served(p)
      BY <2>1 DEF Lock, Hydrate, MirrorRefs, MaterializeFails, Served, TypeOK
    <2>2. CASE FireAfterCommit(p) \/ Release(p) \/ Vanish(p)
      BY <2>2 DEF FireAfterCommit, Release, Vanish, TypeOK
    <2> QED BY <2>1, <2>2 DEF Request
  <1>3. \A q \in Push : \/ hook'[q] = hook[q]
                        \/ hook[q] = "none" /\ hook'[q] = "unpacking"
    BY DEF Request, Lock, Hydrate, MirrorRefs, MaterializeFails, Served, FireAfterCommit,
       Release, Vanish, TypeOK, HookInv
  <1>4. \A q \in Push : PushState(q)' = PushState(q)
    BY <1>1, <1>2, <1>3 DEF PushState
  <1> QED BY <1>1, <1>4, AtomicStutters

LEMMA HandleStutters ==
  ASSUME TypeOK, NEW p \in Push,
         CheckConnected(p) \/ HandleStart(p) \/ Record(p) \/ Finalize(p)
  PROVE  UNCHANGED Atomic!vars
  <1>1. UNCHANGED <<refs, replica, store, cmds, leftOut, landed, req>>
    BY DEF CheckConnected, HandleStart, Record, Finalize, dbVars, repoVars, pushVars, clientVars
  <1>2. \A q \in Push : hook'[q] = hook[q]
          \/ (hook[q] \in {"unpacking", "checked"} /\ hook'[q] \in {"checked", "putting"})
          \/ (hook[q] \in {"committed", "ok"} /\ hook'[q] \in {"ok", "final"})
    BY DEF CheckConnected, HandleStart, HookCalls, Record, Finalize, TypeOK
  <1>3. \A q \in Push : PushState(q)' = PushState(q)
    BY <1>1, <1>2 DEF PushState
  <1> QED BY <1>1, <1>3, AtomicStutters

\* Whatever ends the hook thread refuses the push, or comes after the verdict.
LEMMA RefusesRefuse ==
  ASSUME TypeOK, HookInv, NEW p \in Push, Refuses(p)
  PROVE  Atomic!Refuse(p) \/ UNCHANGED Atomic!vars
  <1>1. PICK why \in Refusal \union {"dead"} : Refuse(p, why)
    BY DEF Refuses, UnpackFails, HookWithoutQuarantine, HandleBadNonce,
       HandleGuarded, HandleFails, CASMismatch, ReceivePackDies, Refusal
  <1>2. hook[p] \in {"unpacking", "checked", "putting", "ok"}
    BY DEF Refuses, UnpackFails, HookWithoutQuarantine, HandleBadNonce,
       HandleGuarded, HandleFails, CASMismatch, ReceivePackDies, HookCalls
  <1>3. /\ UNCHANGED <<refs, replica, store, cmds, leftOut, landed, req>>
        /\ hook' = [hook EXCEPT ![p] = why]
    BY <1>1 DEF Refuse, dbVars, repoVars, pushVars, clientVars
  <1>4. \A q \in Push \ {p} : PushState(q)' = PushState(q)
    BY <1>3 DEF PushState, TypeOK
  <1>5. req[p] # "idle"
    BY <1>2 DEF HookInv
  <1>6. CASE hook[p] = "ok"
    <2>1. PushState(p) = "effective" /\ PushState(p)' = "effective"
      BY <1>3, <1>5, <1>6 DEF PushState, HookInv, Late
    <2> QED BY <1>3, <1>4, <2>1, AtomicStutters
  <1>7. CASE hook[p] \in {"unpacking", "checked", "putting"}
    <2>1. PushState(p) = "open" /\ PushState(p)' = "over"
      BY <1>3, <1>5, <1>7 DEF PushState, HookInv, Early, Refusal, TypeOK
    <2> QED BY <1>3, <1>4, <2>1, StateMoves DEF Atomic!Refuse
  <1> QED BY <1>2, <1>6, <1>7

LEMMA PutUploads ==
  ASSUME TypeOK, NEW p \in Push, PutObject(p)
  PROVE  Atomic!Upload
  <1>1. UNCHANGED <<refs, replica, cmds, leftOut, landed, req, hook>>
    BY DEF PutObject, dbVars, pushVars, clientVars
  <1>2. \A n \in Name : store[n] \subseteq store'[n]
    BY DEF PutObject, TypeOK
  <1>3. [q \in Push |-> PushState(q)]' = [q \in Push |-> PushState(q)]
    BY <1>1 DEF PushState
  <1>4. {c \in Commit : \A n \in Name : c \in store[n]}
          \subseteq {c \in Commit : \A n \in Name : c \in store'[n]}
    BY <1>2
  <1> QED BY <1>1, <1>3, <1>4 DEF Atomic!Upload

\* What is committed is what was asked for, and what of its history was sent
\* is in S3.
LEMMA CASTakesEffect ==
  ASSUME TypeOK, HookInv, InFlightBacked, \A m, n \in Name : m = n,
         NEW p \in Push, CASRefs(p)
  PROVE  Atomic!TakeEffect(p)
  <1> DEFINE content == {c \in Commit : \A n \in Name : c \in store[n]}
  <1>1. /\ UNCHANGED <<replica, store, cmds, leftOut, req>>
        /\ hook' = [hook EXCEPT ![p] = "committed"]
        /\ landed' = landed \union {p}
        /\ hook[p] = "putting"
    BY DEF CASRefs, repoVars, pushVars, clientVars
  <1>2. req[p] # "idle" /\ p \notin landed
    BY <1>1 DEF HookInv, Early
  <1>3. PushState(p) = "open" /\ PushState(p)' = "effective"
    BY <1>1, <1>2 DEF PushState, TypeOK
  <1>4. \A q \in Push \ {p} : PushState(q)' = PushState(q)
    BY <1>1 DEF PushState, TypeOK
  <1>5. Atomic!History(Atomic!NewValues(cmds[p])) = Closure(News(p))
    BY DEF Atomic!History, Atomic!NewValues, Closure, News
  <1>6. Withheld \subseteq Atomic!Withheld
    <2>1. \A q \in landed : q \in Push /\ PushState(q) = "effective"
      BY DEF PushState, TypeOK, HookInv, Early
    <2> QED BY <2>1 DEF Withheld, LeftOutBy, Atomic!Withheld
  <1>7. store[NameOf[p]] \subseteq content
    BY NamingAssumption DEF TypeOK
  <1>8. Closure(News(p)) \subseteq content \union leftOut[p] \union Atomic!Withheld
    BY <1>1, <1>6, <1>7 DEF CASRefs, Uploaded, InFlightBacked
  <1>9. /\ \A r \in DOMAIN cmds[p] : refs[r] = cmds[p][r].old
        /\ refs' = [r \in Ref |-> IF r \in DOMAIN cmds[p] THEN cmds[p][r].new ELSE refs[r]]
    BY DEF CASRefs, Matches, Updated
  <1> QED BY <1>1, <1>3, <1>4, <1>5, <1>8, <1>9, StateMoves DEF Atomic!TakeEffect

LEMMA CrashLoses ==
  ASSUME TypeOK, HookInv, Crash
  PROVE  Atomic!Lose
  <1>1. /\ refs' = replica
        /\ UNCHANGED <<replica, store, cmds, leftOut, landed>>
    BY DEF Crash, pushVars, clientVars
  <1> DEFINE S == {p \in Push : hook[p] \in {"unpacking", "checked", "putting"}}
  <1>2. \A p \in Push :
          PushState(p)' = IF p \in S /\ PushState(p) = "open" THEN "over" ELSE PushState(p)
    BY DEF Crash, PushState, HookInv, Ended, Refusal, TypeOK
  <1> QED BY <1>1, <1>2 DEF Atomic!Lose

\* Each step is a step of the abstract specification, or nothing in it.
LEMMA AtomicStep ==
  ASSUME \A m, n \in Name : m = n, IInv, HookInv, [Next]_vars
  PROVE  Atomic!Next \/ UNCHANGED Atomic!vars
  <1>1. TypeOK /\ InFlightBacked
    BY DEF IInv
  <1>2. ASSUME NEW p \in Push, Begin(p) PROVE Atomic!Next
    BY <1>1, <1>2, BeginOpens DEF Atomic!Next
  <1>3. ASSUME NEW p \in Push, Request(p) \/ Vanish(p) PROVE UNCHANGED Atomic!vars
    BY <1>1, <1>3, RequestStutters
  <1>4. ASSUME NEW p \in Push, Refuses(p) PROVE Atomic!Next \/ UNCHANGED Atomic!vars
    BY <1>1, <1>4, RefusesRefuse DEF Atomic!Next
  <1>5. ASSUME NEW p \in Push,
               CheckConnected(p) \/ HandleStart(p) \/ Record(p) \/ Finalize(p)
        PROVE  UNCHANGED Atomic!vars
    BY <1>1, <1>5, HandleStutters
  <1>6. ASSUME NEW p \in Push, PutObject(p) PROVE Atomic!Next
    BY <1>1, <1>6, PutUploads DEF Atomic!Next
  <1>7. ASSUME NEW p \in Push, CASRefs(p) PROVE Atomic!Next
    BY <1>1, <1>7, CASTakesEffect DEF Atomic!Next
  <1>8. CASE Replicate
    <2>1. /\ replica' = refs
          /\ UNCHANGED <<refs, store, cmds, leftOut, landed, req, hook>>
      BY <1>8 DEF Replicate, repoVars, pushVars, clientVars
    <2>2. [q \in Push |-> PushState(q)]' = [q \in Push |-> PushState(q)]
      BY <2>1 DEF PushState
    <2> QED BY <2>1, <2>2 DEF Atomic!Next, Atomic!Sync
  <1>9. CASE Crash
    BY <1>1, <1>9, CrashLoses DEF Atomic!Next
  <1>10. CASE EditSettings \/ UNCHANGED vars
    BY <1>10, AtomicStutters DEF EditSettings, vars, repoVars, pushVars, clientVars, PushState
  <1> QED BY <1>2, <1>3, <1>4, <1>5, <1>6, <1>7, <1>8, <1>9, <1>10
          DEF Next, Handler, Refuses

(***************************************************************************)
(* Refinement: to whom looks at refs and content, a push is one step or    *)
(* none (safety.md sections 3 and 4), as long as the repo is addressed by  *)
(* one spelling.  Threads, failures, late hooks and disconnecting clients  *)
(* do not show; that a client sent less than it should does, and only by   *)
(* what it left out.                                                       *)
(***************************************************************************)
THEOREM RefsAreAtomic ==
  ASSUME \A m, n \in Name : m = n, Name # {}
  PROVE  Spec => ImplementsAtomicRefs
  <1>1. IInv /\ HookInv /\ [Next]_vars => [Atomic!Next]_(Atomic!vars)
    BY AtomicStep
  <1>2. IInv => TypeOK
    BY DEF IInv
  <1>3. Spec => [](IInv /\ HookInv)
    BY IInvHolds, <1>2, HookInvInit, HookInvStep, PTL DEF Spec
  <1> QED BY AtomicInit, <1>1, <1>3, PTL DEF Spec, ImplementsAtomicRefs, Atomic!Spec
=============================================================================
