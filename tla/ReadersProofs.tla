--------------------------- MODULE ReadersProofs ---------------------------
(***************************************************************************)
(* Proofs about Readers, for any repo, any set of pushes and of readers    *)
(* and any number of crashes.                                              *)
(***************************************************************************)
EXTENDS Readers, WritePathProofs

(* What the steps are                                                      *)

\* A step is a reader's, or a step of WritePath in which no reader moves
\* unless the server crashes.
LEMMA StepKinds ==
  ASSUME [RNext]_rvars
  PROVE  \/ \E q \in Reader : ReaderStep(q)
         \/ [Next]_vars /\ reader' = reader /\ crashes' = crashes
         \/ [Next]_vars /\ ServerCrashes
  <1>1. ASSUME NEW p \in Push, PushMirrors(p) \/ PushFinalizes(p)
        PROVE  Next /\ reader' = reader /\ crashes' = crashes
    <2>1. Next /\ reader' = reader
      BY <1>1 DEF PushMirrors, PushFinalizes, Next, Request, Handler
    <2>2. crashes' = crashes
      BY <1>1 DEF PushMirrors, PushFinalizes, MirrorRefs, Finalize
    <2> QED BY <2>1, <2>2
  <1>2. OtherStep => Next /\ reader' = reader /\ crashes' = crashes
    <2> SUFFICES ASSUME OtherStep PROVE Next /\ reader' = reader /\ crashes' = crashes
      OBVIOUS
    <2>1. Next /\ reader' = reader
      BY DEF OtherStep, Next, Request, Handler
    <2>2. crashes' = crashes
      BY DEF OtherStep, Begin, Lock, Hydrate, MaterializeFails, Served, Vanish,
         FireAfterCommit, Release, UnpackFails, CheckConnected, HookWithoutQuarantine,
         HandleBadNonce, HandleGuarded, HandleStart, PutObject, HandleFails, CASRefs,
         CASMismatch, Record, ReceivePackDies, Refuse, Replicate, EditSettings
    <2> QED BY <2>1, <2>2
  <1>3. ServerCrashes => Next
    BY DEF ServerCrashes, Next
  <1>4. UNCHANGED rvars => UNCHANGED vars /\ reader' = reader /\ crashes' = crashes
    BY DEF rvars, vars
  <1> QED BY <1>1, <1>2, <1>3, <1>4 DEF RNext

\* What each step does to packed-refs, and that the records of the readers
\* follow.
LEMMA PackedKinds ==
  ASSUME [RNext]_rvars, \A q \in Reader : ~ReaderStep(q)
  PROVE  \/ UNCHANGED <<packed, loose>>
         \/ \E p \in Push : PushMirrors(p) \/ PushFinalizes(p)
         \/ ServerCrashes
  BY DEF RNext, OtherStep, files, rvars

ReaderRecord == [at : ReaderState, name : Name, whole : BOOLEAN,
                 list : [Ref -> Value], left : SUBSET Ref, base : SUBSET Commit]

LEMMA ReaderShape ==
  ASSUME RTypeOK
  PROVE  /\ reader \in [Reader -> ReaderRecord]
         /\ \A q \in Reader : /\ reader[q].name \in Name
                              /\ reader[q].list \in [Ref -> Value]
                              /\ reader[q].left \in SUBSET Ref
                              /\ reader[q].base \in SUBSET Commit
         /\ NoReader \in ReaderRecord
         /\ NoReader.at = "idle" /\ NoReader.list = NoRefs /\ NoReader.base = {}
         /\ Closure({refs[r] : r \in Ref}) \in SUBSET Commit
  <1>1. reader \in [Reader -> ReaderRecord]
    BY DEF RTypeOK, ReaderRecord
  <1>2. NoReader \in ReaderRecord
    BY NameAssumption DEF NoReader, ReaderRecord, NoRefs, Value, ReaderState
  <1>3. {refs[r] : r \in Ref} \in SUBSET Value
    BY DEF RTypeOK, TypeOK
  <1>4. Closure({refs[r] : r \in Ref}) \in SUBSET Commit
    BY <1>3, ClosureType
  <1>5. NoReader.at = "idle" /\ NoReader.list = NoRefs /\ NoReader.base = {}
    BY DEF NoReader
  <1> QED BY <1>1, <1>2, <1>4, <1>5 DEF ReaderRecord

\* What each step of reader q does to its record and to the repo on disk.
Arriving(q)  == /\ reader[q].at = "idle"
                /\ reader'[q].at \in {"fetching", "listing"}
                /\ reader'[q].list = NoRefs /\ reader'[q].base = {}
                /\ UNCHANGED <<disk, diskRefs, packed, loose>>
Fetching(q)  == /\ reader[q].at = "fetching"
                /\ disk' = [disk EXCEPT ![reader[q].name] = @ \union store[reader[q].name]]
                /\ reader'[q].at = "listing"
                /\ reader'[q].name = reader[q].name
                /\ reader'[q].list = reader[q].list
                /\ reader'[q].base = Closure({refs[r] : r \in Ref})
                /\ UNCHANGED <<diskRefs, packed, loose>>
Listing(q)   == /\ reader[q].at = "listing"
                /\ reader'[q].at = "packing"
                /\ reader'[q].name = reader[q].name
                /\ reader'[q].list = refs
                /\ reader'[q].left = Ref
                /\ reader'[q].base = reader[q].base
                /\ UNCHANGED <<disk, diskRefs, packed, loose>>
Packing(q)   == /\ reader[q].at = "packing"
                /\ packed' = [packed EXCEPT ![reader[q].name] = reader[q].list]
                /\ diskRefs' = [diskRefs EXCEPT ![reader[q].name] = [r \in Ref |->
                      IF r \in loose[reader[q].name] THEN diskRefs[reader[q].name][r]
                      ELSE reader[q].list[r]]]
                /\ reader'[q].at = "pruning"
                /\ reader'[q].name = reader[q].name
                /\ reader'[q].list = reader[q].list
                /\ reader'[q].left = reader[q].left
                /\ reader'[q].base = reader[q].base
                /\ UNCHANGED <<disk, loose>>
Pruning(q)   == /\ reader[q].at = "pruning"
                /\ \E r \in reader[q].left :
                     /\ diskRefs' = [diskRefs EXCEPT ![reader[q].name][r] =
                                       packed[reader[q].name][r]]
                     /\ loose' = [loose EXCEPT ![reader[q].name] = @ \ {r}]
                     /\ reader'[q].left = reader[q].left \ {r}
                /\ reader'[q].at = "pruning"
                /\ reader'[q].name = reader[q].name
                /\ reader'[q].list = reader[q].list
                /\ reader'[q].base = reader[q].base
                /\ UNCHANGED <<disk, packed>>
Finishing(q) == /\ reader[q].at = "pruning" /\ reader[q].left = {}
                /\ reader'[q].at = "serving"
                /\ reader'[q].name = reader[q].name
                /\ reader'[q].list = reader[q].list
                /\ reader'[q].base = reader[q].base
                /\ UNCHANGED <<disk, diskRefs, packed, loose>>
Leaving(q)   == /\ reader'[q] = NoReader
                /\ UNCHANGED <<disk, diskRefs, packed, loose>>

LEMMA ReaderSteps ==
  ASSUME RTypeOK, NEW q \in Reader, ReaderStep(q)
  PROVE  /\ UNCHANGED ReaderFrame
         /\ \A x \in Reader \ {q} : reader'[x] = reader[x]
         /\ reader' \in [Reader -> ReaderRecord]
         /\ \/ Arriving(q) \/ Fetching(q) \/ Listing(q) \/ Packing(q)
            \/ Pruning(q) \/ Finishing(q) \/ Leaving(q)
  <1> USE ReaderShape DEF files
  <1>1. refs \in [Ref -> Value] /\ loose \in [Name -> SUBSET Ref]
    BY DEF RTypeOK, TypeOK
  <1>2. {"idle", "fetching", "listing", "serving", "packing", "pruning"} \subseteq ReaderState
    BY DEF ReaderState, Mirroring
  <1>3. CASE Arrive(q)
    <2>1. PICK n \in Name, w \in BOOLEAN :
             reader' = [reader EXCEPT ![q] = [NoReader EXCEPT !.name = n, !.whole = w,
                          !.at = IF w THEN "fetching" ELSE "listing"]]
      BY <1>3 DEF Arrive
    <2>2. reader'[q] = [at |-> IF w THEN "fetching" ELSE "listing", name |-> n,
                        whole |-> w, list |-> NoRefs, left |-> {}, base |-> {}]
      BY <2>1 DEF NoReader
    <2>3. reader'[q] \in ReaderRecord
      BY <1>2, <2>2 DEF ReaderRecord, NoRefs, Value
    <2>4. /\ reader' = [reader EXCEPT ![q] = reader'[q]]
          /\ \A x \in Reader \ {q} : reader'[x] = reader[x]
      BY <2>1
    <2>5. reader' \in [Reader -> ReaderRecord]
      BY <2>3, <2>4
    <2>6. reader'[q].at \in {"fetching", "listing"} /\ reader'[q].list = NoRefs
                                                    /\ reader'[q].base = {}
      BY <2>2
    <2>7. /\ UNCHANGED ReaderFrame
          /\ reader[q].at = "idle"
          /\ UNCHANGED <<disk, diskRefs, packed, loose>>
      BY <1>3 DEF Arrive
    <2> HIDE DEF files
    <2> QED BY <2>4, <2>5, <2>6, <2>7 DEF Arriving
  <1>4. CASE Fetch(q)
    BY <1>2, <1>4 DEF Fetch, Fetched, ReaderRecord, Fetching
  <1>5. CASE ListRefs(q)
    BY <1>1, <1>2, <1>5 DEF ListRefs, Listed, ReaderRecord, Listing
  <1>6. CASE WritePacked(q)
    <2>1. reader' = [reader EXCEPT ![q].at = "pruning"]
      BY <1>6 DEF WritePacked
    <2>2. /\ reader' \in [Reader -> ReaderRecord]
          /\ reader'[q] = [reader[q] EXCEPT !.at = "pruning"]
          /\ \A x \in Reader \ {q} : reader'[x] = reader[x]
      BY <1>2, <2>1 DEF ReaderRecord
    <2>3. /\ reader'[q].at = "pruning" /\ reader'[q].name = reader[q].name
          /\ reader'[q].list = reader[q].list /\ reader'[q].left = reader[q].left
          /\ reader'[q].base = reader[q].base
      BY <2>2 DEF ReaderRecord
    <2>4. Packing(q) /\ UNCHANGED ReaderFrame
      BY <1>6, <2>3 DEF WritePacked, Packing
    <2> QED BY <2>2, <2>4
  <1>7. CASE RemoveLoose(q)
    <2>1. PICK r \in reader[q].left :
            /\ loose' = [loose EXCEPT ![reader[q].name] = @ \ {r}]
            /\ diskRefs' = [diskRefs EXCEPT ![reader[q].name][r] =
                 IF r \in loose'[reader[q].name] THEN @ ELSE packed[reader[q].name][r]]
            /\ reader' = [reader EXCEPT ![q].left = @ \ {r}]
      BY <1>7 DEF RemoveLoose, Pruned
    <2>2. r \notin loose'[reader[q].name]
      BY <1>1, <2>1
    <2>3. diskRefs' = [diskRefs EXCEPT ![reader[q].name][r] = packed[reader[q].name][r]]
      BY <2>1, <2>2
    <2>4. /\ reader'[q] = [reader[q] EXCEPT !.left = reader[q].left \ {r}]
          /\ \A x \in Reader \ {q} : reader'[x] = reader[x]
      BY <2>1
    <2>5. reader'[q] \in ReaderRecord
      BY <2>4 DEF ReaderRecord
    <2>6. reader' \in [Reader -> ReaderRecord]
      BY <2>1, <2>4, <2>5
    <2>7. reader[q].at = "pruning" /\ UNCHANGED <<ReaderFrame, disk, packed>>
      BY <1>7 DEF RemoveLoose, Prunable
    <2>8. /\ reader'[q].at = reader[q].at /\ reader'[q].name = reader[q].name
          /\ reader'[q].list = reader[q].list /\ reader'[q].base = reader[q].base
          /\ reader'[q].left = reader[q].left \ {r}
      BY <2>4 DEF ReaderRecord
    <2>9. Pruning(q)
      BY <2>1, <2>3, <2>7, <2>8 DEF Pruning
    <2> QED BY <2>4, <2>6, <2>7, <2>9
  <1>8. CASE Refreshed(q)
    BY <1>2, <1>8 DEF Refreshed, ReaderRecord, Finishing
  <1>9. CASE Leave(q)
    BY <1>9 DEF Leave, Leaving
  <1> QED BY <1>3, <1>4, <1>5, <1>6, <1>7, <1>8, <1>9 DEF ReaderStep

-----------------------------------------------------------------------------
(* Types                                                                   *)

LEMMA RTypeInit == RInit => RTypeOK
  <1> SUFFICES ASSUME RInit PROVE RTypeOK
    OBVIOUS
  <1>1. NoReader \in ReaderRecord
    BY NameAssumption DEF NoReader, ReaderRecord, NoRefs, Value, ReaderState
  <1>2. packed \in [Name -> [Ref -> Value]]
    BY DEF RInit, NoRefs, Value
  <1>3. loose \in [Name -> SUBSET Ref] /\ behind \in [Reader -> SUBSET Ref]
    BY DEF RInit
  <1>4. past \subseteq Ref \X Value
    BY InputAssumption DEF RInit, Held, Init
  <1>5. reader \in [Reader -> ReaderRecord]
    BY <1>1 DEF RInit
  <1> QED BY <1>2, <1>3, <1>4, <1>5, TypeInit DEF RInit, RTypeOK, ReaderRecord

\* Types but for the two history variables.
FilesTyped == /\ packed \in [Name -> [Ref -> Value]]
              /\ loose \in [Name -> SUBSET Ref]
              /\ reader \in [Reader -> ReaderRecord]

LEMMA ReaderTypeStep ==
  ASSUME RTypeOK, NEW q \in Reader, ReaderStep(q)
  PROVE  TypeOK' /\ FilesTyped'
  <1> DEFINE n == reader[q].name
  <1>1. TypeOK /\ FilesTyped
    BY DEF RTypeOK, ReaderRecord, FilesTyped
  <1>2. /\ n \in Name /\ reader[q].list \in [Ref -> Value]
        /\ reader[q].left \in SUBSET Ref
        /\ packed[n] \in [Ref -> Value]
    BY <1>1, ReaderShape DEF FilesTyped
  <1>3. reader' \in [Reader -> ReaderRecord] /\ UNCHANGED ReaderFrame
    BY ReaderSteps
  <1>4. \/ Arriving(q) \/ Fetching(q) \/ Listing(q) \/ Packing(q)
        \/ Pruning(q) \/ Finishing(q) \/ Leaving(q)
    BY ReaderSteps
  <1>5. packed' \in [Name -> [Ref -> Value]]
    <2>1. packed' = packed \/ packed' = [packed EXCEPT ![n] = reader[q].list]
      BY <1>4 DEF Arriving, Fetching, Listing, Packing, Pruning, Finishing, Leaving
    <2> HIDE DEF n
    <2> QED BY <1>1, <1>2, <2>1 DEF FilesTyped
  <1>6. loose' \in [Name -> SUBSET Ref]
    <2>1. loose' = loose \/ \E r \in Ref : loose' = [loose EXCEPT ![n] = @ \ {r}]
      BY <1>2, <1>4 DEF Arriving, Fetching, Listing, Packing, Pruning, Finishing, Leaving
    <2> HIDE DEF n
    <2> QED BY <1>1, <1>2, <2>1 DEF FilesTyped
  <1>7. disk' \in [Name -> SUBSET Commit]
    <2>1. disk' = disk \/ disk' = [disk EXCEPT ![n] = @ \union store[n]]
      BY <1>4 DEF Arriving, Fetching, Listing, Packing, Pruning, Finishing, Leaving
    <2>2. disk \in [Name -> SUBSET Commit] /\ store \in [Name -> SUBSET Commit]
      BY <1>1 DEF TypeOK
    <2> HIDE DEF n
    <2> QED BY <1>2, <2>1, <2>2
  <1>8. diskRefs' \in [Name -> [Ref -> Value]]
    <2>1. CASE Packing(q)
      <3>1. [r \in Ref |-> IF r \in loose[n] THEN diskRefs[n][r] ELSE reader[q].list[r]]
              \in [Ref -> Value]
        BY <1>1, <1>2 DEF TypeOK
      <3> QED BY <1>1, <1>2, <2>1, <3>1 DEF TypeOK, Packing
    <2>2. CASE Pruning(q)
      <3>1. PICK r \in reader[q].left : diskRefs' = [diskRefs EXCEPT ![n][r] = packed[n][r]]
        BY <2>2 DEF Pruning
      <3>2. packed[n][r] \in Value
        BY <1>2
      <3> HIDE DEF n
      <3> QED BY <1>1, <1>2, <3>1, <3>2 DEF TypeOK
    <2> QED BY <1>1, <1>4, <2>1, <2>2
            DEF TypeOK, Arriving, Fetching, Listing, Finishing, Leaving
  <1> QED BY <1>1, <1>3, <1>5, <1>6, <1>7, <1>8 DEF FilesTyped, TypeOK, ReaderFrame

LEMMA FilesTypedStep ==
  ASSUME RTypeOK, [RNext]_rvars, \A q \in Reader : ~ReaderStep(q)
  PROVE  FilesTyped'
  <1>1. FilesTyped /\ TypeOK
    BY DEF RTypeOK, FilesTyped, ReaderRecord
  <1>2. CASE UNCHANGED <<packed, loose>> /\ reader' = reader
    BY <1>1, <1>2 DEF FilesTyped
  <1>3. ASSUME NEW p \in Push, PushMirrors(p) PROVE FilesTyped'
    BY <1>1, <1>3 DEF PushMirrors, FilesTyped, TypeOK
  <1>4. ASSUME NEW p \in Push, PushFinalizes(p) PROVE FilesTyped'
    <2> DEFINE n == NameOf[p]
               moved == Moving(p)
               gone == {r \in moved : cmds[p][r].new = Absent}
    <2>1. n \in Name /\ moved \subseteq Ref
      BY <1>1, CommandsShape, NamingAssumption DEF TypeOK, Moving, Unmarked
    <2>2. (loose[n] \union moved) \ gone \in SUBSET Ref
      BY <1>1, <2>1 DEF FilesTyped
    <2>3. [r \in Ref |-> IF r \in gone THEN Absent ELSE packed[n][r]] \in [Ref -> Value]
      BY <1>1, <2>1 DEF FilesTyped, Value
    <2>4. /\ loose' = [loose EXCEPT ![n] = (@ \union moved) \ gone]
          /\ packed' = [packed EXCEPT ![n] = [r \in Ref |->
                             IF r \in gone THEN Absent ELSE @[r]]]
          /\ reader' = reader
      BY <1>4 DEF PushFinalizes
    <2> HIDE DEF n, moved, gone
    <2> QED BY <1>1, <2>1, <2>2, <2>3, <2>4 DEF FilesTyped
  <1>5. CASE ServerCrashes
    <2>1. NoReader \in ReaderRecord /\ NoRefs \in [Ref -> Value]
      BY NameAssumption DEF NoReader, ReaderRecord, NoRefs, Value, ReaderState
    <2>2. /\ reader' = [q \in Reader |-> NoReader]
          /\ \/ packed' = packed /\ loose' = loose
             \/ /\ packed' = [n \in Name |-> NoRefs]
                /\ loose' = [n \in Name |-> {}]
      BY <1>5 DEF ServerCrashes, files
    <2> QED BY <1>1, <2>1, <2>2 DEF FilesTyped
  <1> QED BY <1>2, <1>3, <1>4, <1>5, StepKinds, PackedKinds

LEMMA RTypeStep == RTypeOK /\ [RNext]_rvars => RTypeOK'
  <1> SUFFICES ASSUME RTypeOK, [RNext]_rvars PROVE RTypeOK'
    OBVIOUS
  <1>1. TypeOK'
    BY StepKinds, ReaderTypeStep, TypeStep DEF RTypeOK
  <1>2. FilesTyped'
    BY ReaderTypeStep, FilesTypedStep
  <1>3. past' \subseteq Ref \X Value
    <2>1. Held' \subseteq Ref \X Value
      BY <1>1 DEF Held, TypeOK
    <2> QED BY <2>1 DEF RNext, rvars, RTypeOK
  <1>4. behind' \in [Reader -> SUBSET Ref]
    BY DEF RNext, rvars, RTypeOK, Moved, Outdated
  <1> QED BY <1>1, <1>2, <1>3, <1>4 DEF RTypeOK, FilesTyped, ReaderRecord

(***************************************************************************)
(* Type correctness with any number of readers next to the pushes.         *)
(***************************************************************************)
THEOREM ReadersTypeCorrect == RSpec => []RTypeOK
  BY RTypeInit, RTypeStep, PTL DEF RSpec

-----------------------------------------------------------------------------
(* Content before pointer, with readers                                    *)

\* A set of refs whose histories are in S3, but for what was withheld.
Sound(R) == \A n \in Name, r \in Ref :
               R[r] # Absent => Anc[R[r]] \subseteq store[n] \union Withheld

\* What readers have listed, and what they wrote, points into S3.
ListsBacked == /\ \A q \in Reader : Sound(reader[q].list)
               /\ \A n \in Name : Sound(packed[n])

\* The inductive invariant of the composition.
RIInv == RTypeOK /\ Backing /\ ListsBacked

\* Objects in S3 stay: what was backed remains so.
LEMMA StoreGrows ==
  ASSUME TypeOK, [Next]_vars, NEW n \in Name
  PROVE  store[n] \subseteq store'[n]
  <1> USE DEF repoVars
  <1>1. ASSUME NEW p \in Push, PutObject(p) PROVE store[n] \subseteq store'[n]
    BY <1>1 DEF PutObject, TypeOK
  <1>2. ASSUME NEW p \in Push, Begin(p) \/ Request(p) \/ Vanish(p) PROVE store' = store
    BY <1>2 DEF Begin, Request, Lock, Hydrate, MirrorRefs, MaterializeFails, Served,
       FireAfterCommit, Release, Vanish
  <1>3. ASSUME NEW p \in Push, Refuses(p) PROVE store' = store
    BY <1>3 DEF Refuses, UnpackFails, HookWithoutQuarantine, HandleBadNonce,
       HandleGuarded, HandleFails, CASMismatch, ReceivePackDies, Refuse
  <1>4. ASSUME NEW p \in Push, CheckConnected(p) \/ HandleStart(p) \/ CASRefs(p)
                                 \/ Record(p) \/ Finalize(p)
        PROVE  store' = store
    BY <1>4 DEF CheckConnected, HandleStart, CASRefs, Record, Finalize
  <1>5. Replicate \/ Crash \/ EditSettings => store' = store
    BY DEF Replicate, Crash, EditSettings
  <1>6. UNCHANGED vars => store' = store
    BY DEF vars
  <1> QED BY <1>1, <1>2, <1>3, <1>4, <1>5, <1>6 DEF Next, Handler, Refuses

\* What a push has landed without stays as it is, and there may be more of it.
LEMMA LandedKept ==
  ASSUME TypeOK, IdleHasNoHook, [Next]_vars
  PROVE  /\ landed \subseteq landed'
         /\ \A q \in landed : leftOut'[q] = leftOut[q]
         /\ Withheld \subseteq Withheld'
  <1>1. ASSUME NEW p \in Push, Begin(p)
        PROVE  landed' = landed /\ \A q \in landed : leftOut'[q] = leftOut[q]
    BY <1>1 DEF Begin, IdleHasNoHook, TypeOK, dbVars
  <1>2. ASSUME NEW p \in Push, CASRefs(p)
        PROVE  landed \subseteq landed' /\ leftOut' = leftOut
    BY <1>2 DEF CASRefs, pushVars, clientVars
  <1>3. CASE ~\E p \in Push : Begin(p) \/ CASRefs(p)
    <2>1. ASSUME NEW p \in Push, Request(p) \/ Vanish(p)
          PROVE  landed' = landed /\ leftOut' = leftOut
      BY <2>1 DEF Request, Lock, Hydrate, MirrorRefs, MaterializeFails, Served,
         FireAfterCommit, Release, Vanish, dbVars, pushVars, clientVars
    <2>2. ASSUME NEW p \in Push, Refuses(p)
          PROVE  landed' = landed /\ leftOut' = leftOut
      BY <2>2 DEF Refuses, UnpackFails, HookWithoutQuarantine, HandleBadNonce,
         HandleGuarded, HandleFails, CASMismatch, ReceivePackDies, Refuse, dbVars,
         pushVars, clientVars
    <2>3. ASSUME NEW p \in Push, CheckConnected(p) \/ HandleStart(p) \/ PutObject(p)
                                    \/ Record(p) \/ Finalize(p)
          PROVE  landed' = landed /\ leftOut' = leftOut
      BY <2>3 DEF CheckConnected, HandleStart, PutObject, Record, Finalize, dbVars,
         pushVars, clientVars
    <2>4. Replicate \/ EditSettings => landed' = landed /\ leftOut' = leftOut
      BY DEF Replicate, EditSettings, pushVars, clientVars
    <2>5. Crash => landed' = landed /\ leftOut' = leftOut
      BY DEF Crash, pushVars, clientVars
    <2>6. UNCHANGED vars => landed' = landed /\ leftOut' = leftOut
      BY DEF vars
    <2>7. landed' = landed /\ leftOut' = leftOut
      BY <1>3, <2>1, <2>2, <2>3, <2>4, <2>5, <2>6 DEF Next, Handler, Refuses
    <2> QED BY <2>7, WithheldGrows
  <1>4. landed \subseteq landed' /\ \A q \in landed : leftOut'[q] = leftOut[q]
    BY <1>1, <1>2, <1>3
  <1> QED BY <1>4, WithheldGrows

LEMMA NoRefsBacked == Sound(NoRefs)
  BY DEF Sound, NoRefs

LEMMA RefsAreSound == ReceivedBeforePointer => Sound(refs)
  BY DEF ReceivedBeforePointer, Sound

\* A reader copies from S3 to the cache, and from one list of refs to another.
LEMMA ReaderBacks ==
  ASSUME RIInv, NEW q \in Reader, ReaderStep(q)
  PROVE  Backing' /\ ListsBacked'
  <1> DEFINE m == reader[q].name
  <1>1. /\ UNCHANGED ReaderFrame
        /\ \A x \in Reader \ {q} : reader'[x] = reader[x]
        /\ \/ Arriving(q) \/ Fetching(q) \/ Listing(q) \/ Packing(q)
           \/ Pruning(q) \/ Finishing(q) \/ Leaving(q)
    BY ReaderSteps DEF RIInv
  <1>2. /\ m \in Name /\ reader[q].left \subseteq Ref
        /\ disk \in [Name -> SUBSET Commit] /\ diskRefs \in [Name -> [Ref -> Value]]
        /\ packed \in [Name -> [Ref -> Value]]
    BY ReaderShape DEF RIInv, RTypeOK, TypeOK
  <1>3. /\ UNCHANGED <<refs, replica, store, cmds, pack, leftOut, landed, todo, hook, req>>
        /\ Withheld' = Withheld
    BY <1>1, WithheldStays DEF ReaderFrame
  <1>4. ReceivedBeforePointer' /\ IdleHasNoHook'
    BY <1>3 DEF RIInv, Backing, ReceivedBeforePointer, IdleHasNoHook
  <1>5. InFlightBacked'
    <2>1. \A p \in Push : News(p)' = News(p)
      BY <1>3 DEF News
    <2> QED BY <1>3, <2>1 DEF RIInv, Backing, InFlightBacked
  <1>6. \A n \in Name : disk'[n] \subseteq store'[n]
    <2>1. disk' = disk \/ disk' = [disk EXCEPT ![m] = @ \union store[m]]
      BY <1>1 DEF Arriving, Fetching, Listing, Packing, Pruning, Finishing, Leaving
    <2>2. \A n \in Name : disk[n] \subseteq store[n]
      BY DEF RIInv, Backing, CacheBacked
    <2> HIDE DEF m
    <2> QED BY <1>2, <1>3, <2>1, <2>2
  <1>7. \A n \in Name, r \in Ref :
          diskRefs'[n][r] \in {diskRefs[n][r], reader[q].list[r], packed[n][r]}
    <2>1. CASE Pruning(q)
      <3>1. PICK x \in Ref : diskRefs' = [diskRefs EXCEPT ![m][x] = packed[m][x]]
        BY <1>2, <2>1 DEF Pruning
      <3> HIDE DEF m
      <3> QED BY <1>2, <3>1
    <2>2. CASE Packing(q)
      <3>1. diskRefs' = [diskRefs EXCEPT ![m] = [r \in Ref |->
               IF r \in loose[m] THEN diskRefs[m][r] ELSE reader[q].list[r]]]
        BY <2>2 DEF Packing
      <3> HIDE DEF m
      <3> QED BY <1>2, <3>1
    <2> QED BY <1>1, <2>1, <2>2 DEF Arriving, Fetching, Listing, Finishing, Leaving
  <1>8. CacheBacked'
    BY <1>3, <1>6, <1>7 DEF RIInv, Backing, ListsBacked, CacheBacked, Sound
  <1>9. reader'[q].list \in {reader[q].list, refs, NoRefs}
    BY <1>1, ReaderShape DEF RIInv, Arriving, Fetching, Listing, Packing, Pruning,
       Finishing, Leaving
  <1>10. \A x \in Reader : Sound(reader'[x].list)
    BY <1>1, <1>9, NoRefsBacked, RefsAreSound DEF RIInv, Backing, ListsBacked
  <1>11. \A n \in Name : packed'[n] \in {packed[n], reader[q].list}
    BY <1>1, <1>2 DEF Arriving, Fetching, Listing, Packing, Pruning, Finishing, Leaving
  <1>12. \A n \in Name : Sound(packed'[n])
    BY <1>11 DEF RIInv, ListsBacked
  <1>13. ListsBacked'
    BY <1>3, <1>10, <1>12 DEF ListsBacked, Sound
  <1> QED BY <1>4, <1>5, <1>8, <1>13 DEF Backing

\* A push writes the refs of the DB, or removes a line.
LEMMA PushListsBacked ==
  ASSUME RIInv, [RNext]_rvars, \A q \in Reader : ~ReaderStep(q)
  PROVE  ListsBacked'
  <1>1. Withheld \subseteq Withheld' /\ \A n \in Name : store[n] \subseteq store'[n]
    <2>1. [Next]_vars
      BY StepKinds
    <2> QED BY <2>1, StoreGrows, LandedKept DEF RIInv, RTypeOK, Backing
  <1>2. reader' = reader \/ reader' = [q \in Reader |-> NoReader]
    BY StepKinds DEF ServerCrashes
  <1>3. \A q \in Reader : Sound(reader'[q].list)
    BY <1>2, NoRefsBacked, ReaderShape DEF RIInv, ListsBacked
  <1>4. packed \in [Name -> [Ref -> Value]]
    BY DEF RIInv, RTypeOK
  <1>5. \A n \in Name : \/ packed'[n] \in {packed[n], refs, NoRefs}
                        \/ \A r \in Ref : packed'[n][r] \in {packed[n][r], Absent}
    <2>1. CASE UNCHANGED packed
      BY <2>1
    <2>2. ASSUME NEW p \in Push, PushMirrors(p)
          PROVE  \A n \in Name : packed'[n] \in {packed[n], refs}
      BY <1>4, <2>2 DEF PushMirrors
    <2>3. ASSUME NEW p \in Push, PushFinalizes(p), NEW n \in Name
          PROVE  packed'[n] = packed[n] \/ \A r \in Ref : packed'[n][r] \in {packed[n][r], Absent}
      <3>1. PICK gone : packed' = [packed EXCEPT ![NameOf[p]] = [r \in Ref |->
                             IF r \in gone THEN Absent ELSE @[r]]]
        BY <2>3 DEF PushFinalizes
      <3> QED BY <1>4, <3>1
    <2>4. CASE ServerCrashes
      BY <2>4 DEF ServerCrashes, files
    <2> QED BY <2>1, <2>2, <2>3, <2>4, PackedKinds
  <1>6. \A n \in Name : Sound(packed'[n])
    BY <1>5, NoRefsBacked, RefsAreSound DEF RIInv, Backing, ListsBacked, Sound
  <1> QED BY <1>1, <1>3, <1>6 DEF ListsBacked, Sound

LEMMA RIInvInit == RInit => RIInv
  <1> SUFFICES ASSUME RInit PROVE RIInv
    OBVIOUS
  <1>1. IInv
    BY IInvInit DEF RInit
  <1>2. ListsBacked
    BY NoRefsBacked, ReaderShape, RTypeInit DEF ListsBacked, RInit
  <1> QED BY <1>1, <1>2, RTypeInit DEF RIInv, IInv, Backing

LEMMA RIInvStep ==
  ASSUME \A m, n \in Name : m = n
  PROVE  RIInv /\ [RNext]_rvars => RIInv'
  <1> SUFFICES ASSUME RIInv, [RNext]_rvars PROVE RIInv'
    OBVIOUS
  <1>1. RTypeOK'
    BY RTypeStep DEF RIInv
  <1>2. CASE \E q \in Reader : ReaderStep(q)
    BY <1>1, <1>2, ReaderBacks DEF RIInv
  <1>3. CASE \A q \in Reader : ~ReaderStep(q)
    <2>1. IInv /\ [Next]_vars
      BY <1>3, StepKinds DEF RIInv, RTypeOK, IInv, Backing
    <2>2. IInv'
      BY <2>1, IInvStep
    <2> QED BY <1>1, <1>3, <2>2, PushListsBacked DEF RIInv, IInv, Backing
  <1> QED BY <1>2, <1>3

LEMMA RIInvHolds ==
  ASSUME \A m, n \in Name : m = n
  PROVE  RSpec => []RIInv
  <1>1. RIInv /\ [RNext]_rvars => RIInv'
    BY RIInvStep
  <1> QED BY RIInvInit, <1>1, PTL DEF RSpec

(***************************************************************************)
(* Content before pointer, with readers.  Refreshes that overlap pushes,   *)
(* receive-packs, crashes and each other, with lists of any age, put no    *)
(* object into the cache that S3 lacks and no ref whose history S3 lacks,  *)
(* except where a committed push left it out: they add nothing to what is  *)
(* missing, and the check of the next push may trust what they write.      *)
(***************************************************************************)
THEOREM DurabilityWithReaders ==
  ASSUME \A m, n \in Name : m = n
  PROVE  RSpec => [](ReceivedBeforePointer /\ CacheBacked)
  <1>1. RIInv => ReceivedBeforePointer /\ CacheBacked
    BY DEF RIInv, Backing
  <1> QED BY RIInvHolds, <1>1, PTL

-----------------------------------------------------------------------------
(* A reader that fetched is served whole                                   *)

\* What a reader found committed when it fetched is on disk, histories included,
\* but for what was withheld.
BaseHere == \A q \in Reader : /\ reader[q].base \subseteq disk[reader[q].name] \union Withheld
                             /\ \A c \in reader[q].base : Anc[c] \subseteq reader[q].base

LEMMA ClosureClosed ==
  ASSUME NEW S \in SUBSET Value, NEW c \in Closure(S)
  PROVE  Anc[c] \subseteq Closure(S)
  <1>1. PICK d \in S \ {Absent} : c \in Anc[d]
    BY DEF Closure
  <1>2. d \in Commit /\ Anc[c] \subseteq Anc[d]
    BY <1>1, HistoryAssumption DEF Value
  <1> QED BY <1>1, <1>2 DEF Closure

\* Objects on disk stay unless the host is lost.
LEMMA DiskGrows ==
  ASSUME TypeOK, [Next]_vars, ~Crash, NEW n \in Name
  PROVE  disk[n] \subseteq disk'[n]
  <1>1. ASSUME NEW p \in Push, Hydrate(p) \/ Finalize(p)
        PROVE  disk[n] \subseteq disk'[n]
    <2>1. disk \in [Name -> SUBSET Commit] /\ NameOf[p] \in Name
      BY NamingAssumption DEF TypeOK
    <2>2. \/ disk' = disk
          \/ \E X : disk' = [disk EXCEPT ![NameOf[p]] = @ \union X]
      BY <1>1 DEF Hydrate, Finalize
    <2> QED BY <2>1, <2>2
  <1>2. CASE ~\E p \in Push : Hydrate(p) \/ Finalize(p)
    <2>1. disk' = disk
      BY <1>2 DEF Next, Begin, Request, Lock, MirrorRefs, MaterializeFails,
           Served, Vanish, FireAfterCommit, Release, Handler, UnpackFails, CheckConnected,
           HookWithoutQuarantine, HandleBadNonce, HandleGuarded, HandleStart, HandleFails,
           PutObject, CASRefs, CASMismatch, Record, ReceivePackDies, Refuse, Replicate, EditSettings,
           dbVars, repoVars, vars
    <2> QED BY <2>1
  <1> QED BY <1>1, <1>2

LEMMA BaseStep == RIInv /\ BaseHere /\ [RNext]_rvars => BaseHere'
  <1> SUFFICES ASSUME RIInv, BaseHere, [RNext]_rvars PROVE BaseHere'
    OBVIOUS
  <1>0. RTypeOK /\ TypeOK
    BY DEF RIInv, RTypeOK
  <1>1. ASSUME NEW q \in Reader, ReaderStep(q) PROVE BaseHere'
    <2>1. /\ \A x \in Reader \ {q} : reader'[x] = reader[x]
          /\ \/ Arriving(q) \/ Fetching(q) \/ Listing(q) \/ Packing(q)
             \/ Pruning(q) \/ Finishing(q) \/ Leaving(q)
      BY <1>0, <1>1, ReaderSteps
    <2>2. reader[q].name \in Name /\ disk \in [Name -> SUBSET Commit]
      BY <1>0, ReaderShape DEF TypeOK
    <2>3. \A n \in Name : disk[n] \subseteq disk'[n]
      BY <2>1, <2>2 DEF Arriving, Fetching, Listing, Packing, Pruning, Finishing, Leaving
    <2>6. Withheld' = Withheld
      BY <1>0, <1>1, ReaderSteps, WithheldStays DEF ReaderFrame
    <2>4. CASE Fetching(q)
      <3>1. {refs[r] : r \in Ref} \in SUBSET Value
        BY <1>0 DEF TypeOK
      <3>2. Closure({refs[r] : r \in Ref}) \subseteq store[reader[q].name] \union Withheld
        <4>1. \A v \in {refs[r] : r \in Ref} :
                 v # Absent => Anc[v] \subseteq store[reader[q].name] \union Withheld
          BY <2>2 DEF RIInv, Backing, ReceivedBeforePointer
        <4> QED BY <4>1, ClosureWithin
      <3>3. /\ reader'[q].base = Closure({refs[r] : r \in Ref})
            /\ reader'[q].name = reader[q].name
            /\ store[reader[q].name] \subseteq disk'[reader[q].name]
        BY <2>2, <2>4 DEF Fetching
      <3>4. /\ reader'[q].base \subseteq disk'[reader'[q].name] \union Withheld'
            /\ \A c \in reader'[q].base : Anc[c] \subseteq reader'[q].base
        BY <2>6, <3>1, <3>2, <3>3, ClosureClosed
      <3> QED BY <2>1, <2>3, <2>6, <3>4, <1>0, ReaderShape DEF BaseHere
    <2>5. CASE ~Fetching(q)
      <3>1. \/ reader'[q].base = {}
            \/ reader'[q].base = reader[q].base /\ reader'[q].name = reader[q].name
        BY <2>1, <2>5, <1>0, ReaderShape DEF Arriving, Listing, Packing, Pruning, Finishing, Leaving
      <3> QED BY <2>1, <2>3, <2>6, <3>1, <1>0, ReaderShape DEF BaseHere
    <2> QED BY <2>4, <2>5
  <1>2. CASE ServerCrashes
    BY <1>0, <1>2, ReaderShape DEF ServerCrashes, BaseHere
  <1>3. CASE [Next]_vars /\ reader' = reader /\ crashes' = crashes
    <2>1. ~Crash
      BY <1>0, <1>3 DEF Crash, TypeOK
    <2>2. Withheld \subseteq Withheld'
      BY <1>0, <1>3, LandedKept DEF RIInv, Backing
    <2> QED BY <1>0, <1>3, <2>1, <2>2, DiskGrows, ReaderShape DEF BaseHere
  <1> QED BY <1>1, <1>2, <1>3, StepKinds

(***************************************************************************)
(* A reader that fetched the objects can be served every ref it is shown   *)
(* that points into what had been committed when it listed them in S3,     *)
(* whatever pushes and other readers do to the repo meanwhile, but for the *)
(* history that committed pushes left out.                                 *)
(***************************************************************************)
THEOREM ReadersAreServed ==
  ASSUME \A m, n \in Name : m = n
  PROVE  RSpec => []ServedWhole
  <1>1. RInit => RIInv /\ BaseHere
    BY RIInvInit, RTypeInit, ReaderShape DEF RInit, BaseHere
  <1>2. RIInv /\ [RNext]_rvars => RIInv'
    BY RIInvStep
  <1>3. RIInv /\ BaseHere => ServedWhole
    BY DEF BaseHere, ServedWhole
  <1> QED BY <1>1, <1>2, <1>3, BaseStep, PTL DEF RSpec

-----------------------------------------------------------------------------
(* What readers are shown is of this life                                  *)

Fresh(R) == \A r \in Ref : <<r, R[r]>> \in past

\* What a push that has committed has made of the refs is of this life.
CommandsFresh == \A p \in Push : hook[p] \in {"committed", "ok"} =>
                   \A r \in DOMAIN cmds[p] : <<r, cmds[p][r].new>> \in past

\* The parts of the repo that a refresh of this life has replaced.
RepoFresh == \A q \in Reader : LET n == reader[q].name IN
    /\ reader[q].at \in Mirroring => Fresh(reader[q].list)
    /\ reader[q].at = "packing" => reader[q].left = Ref
    /\ reader[q].at \in {"pruning", "serving"} => Fresh(packed[n])
    /\ reader[q].at = "pruning" =>
         \A r \in Ref \ reader[q].left : <<r, diskRefs[n][r]>> \in past
    /\ reader[q].at = "serving" => Fresh(diskRefs[n])

FreshInv == Held \subseteq past /\ CommandsFresh /\ RepoFresh

LEMMA FreshInit == RInit => FreshInv
  <1> SUFFICES ASSUME RInit PROVE FreshInv
    OBVIOUS
  <1>1. CommandsFresh
    BY DEF RInit, Init, CommandsFresh
  <1>2. RepoFresh
    BY RTypeInit, ReaderShape DEF RInit, RepoFresh, Mirroring
  <1> QED BY <1>1, <1>2 DEF RInit, FreshInv

LEMMA HeldFresh == Held \subseteq past <=> Fresh(refs)
  BY DEF Held, Fresh

\* A push commits what the refs then are, and its request stays as it was.
LEMMA CommitKinds ==
  ASSUME TypeOK, IdleHasNoHook, [Next]_vars, NEW p \in Push,
         hook'[p] \in {"committed", "ok"}
  PROVE  \/ hook[p] \in {"committed", "ok"} /\ cmds'[p] = cmds[p]
         \/ \A r \in DOMAIN cmds'[p] : refs'[r] = cmds'[p][r].new
  <1> USE DEF dbVars, repoVars, writerVars, pushVars, clientVars
  <1>1. ASSUME NEW x \in Push, Begin(x)
        PROVE  hook[p] \in {"committed", "ok"} /\ cmds'[p] = cmds[p]
    BY <1>1 DEF Begin, TypeOK, IdleHasNoHook
  <1>2. ASSUME NEW x \in Push, Request(x) \/ Vanish(x)
        PROVE  hook[p] \in {"committed", "ok"} /\ cmds'[p] = cmds[p]
    BY <1>2 DEF Request, Lock, Hydrate, MirrorRefs, MaterializeFails, Served,
         FireAfterCommit, Release, Vanish, TypeOK
  <1>3. ASSUME NEW x \in Push, Refuses(x)
        PROVE  hook[p] \in {"committed", "ok"} /\ cmds'[p] = cmds[p]
    BY <1>3 DEF Refuses, UnpackFails, HookWithoutQuarantine, HandleBadNonce,
         HandleGuarded, HandleFails, CASMismatch, ReceivePackDies, Refuse, TypeOK
  <1>4. ASSUME NEW x \in Push,
               CheckConnected(x) \/ HandleStart(x) \/ PutObject(x) \/ Record(x) \/ Finalize(x)
        PROVE  hook[p] \in {"committed", "ok"} /\ cmds'[p] = cmds[p]
    BY <1>4 DEF CheckConnected, HandleStart, PutObject, Record, Finalize, TypeOK
  <1>5. ASSUME NEW x \in Push, CASRefs(x)
        PROVE  \/ hook[p] \in {"committed", "ok"} /\ cmds'[p] = cmds[p]
               \/ \A r \in DOMAIN cmds'[p] : refs'[r] = cmds'[p][r].new
    <2>1. cmds' = cmds /\ refs' = Updated(refs, x) /\ hook' = [hook EXCEPT ![x] = "committed"]
      BY <1>5 DEF CASRefs
    <2>2. DOMAIN cmds[x] \subseteq Ref
      BY CommandsShape DEF TypeOK
    <2> QED BY <2>1, <2>2 DEF Updated, TypeOK
  <1>6. Crash => FALSE
    BY DEF Crash, Ended, Refusal
  <1>7. CASE Replicate \/ EditSettings \/ UNCHANGED vars
    BY <1>7 DEF Replicate, EditSettings, vars
  <1> QED BY <1>1, <1>2, <1>3, <1>4, <1>5, <1>6, <1>7 DEF Next, Handler, Refuses

\* What a push leaves in the files of a repo.
Wrote(r, v) == \/ v = refs[r]
               \/ \E p \in Push : /\ hook[p] = "ok" /\ r \in DOMAIN cmds[p]
                                  /\ v = cmds[p][r].new

LEMMA PushWrites ==
  ASSUME RTypeOK, [RNext]_rvars, \A q \in Reader : ~ReaderStep(q), ~ServerCrashes,
         NEW n \in Name, NEW r \in Ref
  PROVE  /\ diskRefs'[n][r] = diskRefs[n][r] \/ Wrote(r, diskRefs'[n][r])
         /\ packed'[n][r] = packed[n][r] \/ Wrote(r, packed'[n][r])
  <1>0. /\ diskRefs \in [Name -> [Ref -> Value]]
        /\ packed \in [Name -> [Ref -> Value]]
    BY DEF RTypeOK, TypeOK
  <1>1. ASSUME NEW p \in Push, PushMirrors(p)
        PROVE  /\ diskRefs'[n] = diskRefs[n] \/ diskRefs'[n] = refs
               /\ packed'[n] = packed[n] \/ packed'[n] = refs
    BY <1>0, <1>1 DEF PushMirrors, MirrorRefs
  <1>2. ASSUME NEW p \in Push, PushFinalizes(p)
        PROVE  /\ diskRefs'[n][r] = diskRefs[n][r] \/ Wrote(r, diskRefs'[n][r])
               /\ packed'[n][r] = packed[n][r] \/ Wrote(r, packed'[n][r])
    <2> DEFINE gone == {x \in Moving(p) : cmds[p][x].new = Absent}
    <2>1. /\ packed' = [packed EXCEPT ![NameOf[p]] = [x \in Ref |->
                             IF x \in gone THEN Absent ELSE @[x]]]
          /\ Finalize(p)
      BY <1>2 DEF PushFinalizes
    <2>2. /\ hook[p] = "ok"
          /\ diskRefs' = [diskRefs EXCEPT ![NameOf[p]] = [x \in Ref |->
                             IF x \in Moving(p) THEN cmds[p][x].new ELSE @[x]]]
          /\ Moving(p) \subseteq DOMAIN cmds[p]
      BY <2>1 DEF Finalize, Moving, Unmarked
    <2>3. diskRefs'[n][r] = diskRefs[n][r] \/ Wrote(r, diskRefs'[n][r])
      <3>1. \/ diskRefs'[n][r] = diskRefs[n][r]
            \/ r \in Moving(p) /\ diskRefs'[n][r] = cmds[p][r].new
        BY <1>0, <2>2
      <3> QED BY <2>2, <3>1 DEF Wrote
    <2>4. packed'[n][r] = packed[n][r] \/ (r \in gone /\ packed'[n][r] = Absent)
      <3> HIDE DEF gone
      <3> QED BY <1>0, <2>1
    <2>5. r \in gone => r \in DOMAIN cmds[p] /\ cmds[p][r].new = Absent
      BY <2>2
    <2> QED BY <2>2, <2>3, <2>4, <2>5 DEF Wrote
  <1>3. CASE \A p \in Push : ~PushMirrors(p) /\ ~PushFinalizes(p)
    <2>1. OtherStep \/ UNCHANGED rvars
      BY <1>3 DEF RNext
    <2>2. packed' = packed
      BY <2>1 DEF OtherStep, files, rvars
    <2>3. diskRefs' = diskRefs
      BY <2>1 DEF OtherStep, Begin, Lock, Hydrate, MaterializeFails, Served, Vanish,
         FireAfterCommit, Release, UnpackFails, CheckConnected, HookWithoutQuarantine,
         HandleBadNonce, HandleGuarded, HandleStart, PutObject, HandleFails, CASRefs,
         CASMismatch, Record, ReceivePackDies, Refuse, Replicate, EditSettings, repoVars, rvars, vars
    <2> QED BY <2>2, <2>3
  <1>4. (\E p \in Push : PushMirrors(p)) =>
           /\ diskRefs'[n][r] = diskRefs[n][r] \/ Wrote(r, diskRefs'[n][r])
           /\ packed'[n][r] = packed[n][r] \/ Wrote(r, packed'[n][r])
    BY <1>1 DEF Wrote
  <1> QED BY <1>2, <1>3, <1>4

\* A reader's step moves values about, all of them from one place to another.
LEMMA ReaderMoves ==
  ASSUME RTypeOK, NEW q \in Reader, ReaderStep(q), NEW n \in Name, NEW r \in Ref
  PROVE  /\ \/ diskRefs'[n][r] = diskRefs[n][r]
            \/ n = reader[q].name /\ reader[q].at = "packing"
                  /\ diskRefs'[n][r] = reader[q].list[r]
            \/ n = reader[q].name /\ reader[q].at = "pruning" /\ r \in reader[q].left
                  /\ diskRefs'[n][r] = packed[n][r]
         /\ \/ packed'[n] = packed[n]
            \/ n = reader[q].name /\ reader[q].at = "packing"
                  /\ packed'[n] = reader[q].list
  <1> DEFINE m == reader[q].name
  <1>1. /\ m \in Name
        /\ diskRefs \in [Name -> [Ref -> Value]]
        /\ packed \in [Name -> [Ref -> Value]]
        /\ reader[q].left \in SUBSET Ref
    BY ReaderShape DEF RTypeOK, TypeOK
  <1>2. \/ Arriving(q) \/ Fetching(q) \/ Listing(q) \/ Packing(q)
        \/ Pruning(q) \/ Finishing(q) \/ Leaving(q)
    BY ReaderSteps
  <1>3. CASE Packing(q)
    <2>1. /\ diskRefs' = [diskRefs EXCEPT ![m] = [x \in Ref |->
               IF x \in loose[m] THEN diskRefs[m][x] ELSE reader[q].list[x]]]
          /\ packed' = [packed EXCEPT ![m] = reader[q].list]
          /\ reader[q].at = "packing"
      BY <1>3 DEF Packing
    <2> HIDE DEF m
    <2>2. /\ \/ diskRefs'[n][r] = diskRefs[n][r]
             \/ n = m /\ diskRefs'[n][r] = reader[q].list[r]
          /\ \/ packed'[n] = packed[n]
             \/ n = m /\ packed'[n] = reader[q].list
      BY <1>1, <2>1
    <2> QED BY <2>1, <2>2 DEF m
  <1>4. CASE Pruning(q)
    <2>1. PICK x \in reader[q].left : diskRefs' = [diskRefs EXCEPT ![m][x] = packed[m][x]]
      BY <1>4 DEF Pruning
    <2>2. packed' = packed /\ reader[q].at = "pruning"
      BY <1>4 DEF Pruning
    <2> HIDE DEF m
    <2>3. \/ diskRefs'[n][r] = diskRefs[n][r]
          \/ n = m /\ r = x /\ diskRefs'[n][r] = packed[n][r]
      BY <1>1, <2>1
    <2> QED BY <2>1, <2>2, <2>3 DEF m
  <1>5. CASE Arriving(q) \/ Fetching(q) \/ Listing(q) \/ Finishing(q) \/ Leaving(q)
    BY <1>5 DEF Arriving, Fetching, Listing, Finishing, Leaving
  <1> QED BY <1>2, <1>3, <1>4, <1>5

\* What a reader uncovers or overwrites is of this life.
LEMMA ReaderShows ==
  ASSUME RTypeOK, FreshInv, NEW q \in Reader, ReaderStep(q),
         NEW n \in Name, NEW r \in Ref, <<r, diskRefs[n][r]>> \in past
  PROVE  <<r, diskRefs'[n][r]>> \in past
  <1>1. reader[q].at = "pruning" => Fresh(packed[reader[q].name])
    BY DEF FreshInv, RepoFresh
  <1>2. reader[q].at = "packing" => Fresh(reader[q].list)
    BY DEF FreshInv, RepoFresh, Mirroring
  <1> QED BY <1>1, <1>2, ReaderMoves DEF Fresh

LEMMA ReaderFresh ==
  ASSUME RTypeOK, FreshInv, NEW q \in Reader, ReaderStep(q), [RNext]_rvars
  PROVE  FreshInv'
  <1>1. /\ UNCHANGED ReaderFrame
        /\ \A x \in Reader \ {q} : reader'[x] = reader[x]
        /\ \/ Arriving(q) \/ Fetching(q) \/ Listing(q) \/ Packing(q)
           \/ Pruning(q) \/ Finishing(q) \/ Leaving(q)
    BY ReaderSteps
  <1>2. past' = past
    BY <1>1 DEF RNext, rvars, FreshInv, Held, ReaderFrame
  <1>3. UNCHANGED <<refs, hook, cmds>>
    BY <1>1 DEF ReaderFrame
  <1>4. Held' \subseteq past' /\ CommandsFresh'
    BY <1>2, <1>3 DEF FreshInv, Held, CommandsFresh
  <1>5. \A x \in Reader : reader[x].name \in Name /\ reader[x].left \subseteq Ref
    BY ReaderShape
  <1>6. ASSUME NEW n \in Name, Fresh(packed[n])
        PROVE  Fresh(packed'[n])
    BY <1>6, ReaderMoves DEF FreshInv, RepoFresh, Fresh, Mirroring
  <1>7. ASSUME NEW n \in Name, NEW r \in Ref, <<r, diskRefs[n][r]>> \in past
        PROVE  <<r, diskRefs'[n][r]>> \in past
    BY <1>7, ReaderShows
  <1> DEFINE Good(x) == LET n == reader[x].name IN
        /\ reader[x].at \in Mirroring => Fresh(reader[x].list)
        /\ reader[x].at = "packing" => reader[x].left = Ref
        /\ reader[x].at \in {"pruning", "serving"} => Fresh(packed[n])
        /\ reader[x].at = "pruning" =>
             \A r \in Ref \ reader[x].left : <<r, diskRefs[n][r]>> \in past
        /\ reader[x].at = "serving" => Fresh(diskRefs[n])
  <1>8. ASSUME NEW x \in Reader \ {q} PROVE Good(x)'
    BY <1>1, <1>2, <1>5, <1>6, <1>7 DEF FreshInv, RepoFresh, Fresh
  <1>9. Good(q)'
    <2> DEFINE m == reader[q].name
    <2>1. CASE Listing(q)
      <3>1. /\ reader'[q].at = "packing" /\ reader'[q].list = refs
            /\ reader'[q].left = Ref
        BY <2>1 DEF Listing
      <3>2. Fresh(refs)
        BY HeldFresh DEF FreshInv
      <3>3. Fresh(reader'[q].list)
        BY <3>1, <3>2
      <3> QED BY <1>2, <3>1, <3>3 DEF Fresh
    <2>2. CASE Packing(q)
      <3>1. /\ reader'[q].at = "pruning" /\ reader'[q].name = m
            /\ reader'[q].list = reader[q].list /\ reader'[q].left = Ref
            /\ packed'[m] = reader[q].list
        BY <1>5, <2>2 DEF Packing, FreshInv, RepoFresh, RTypeOK
      <3>2. Fresh(reader[q].list)
        BY <2>2 DEF Packing, FreshInv, RepoFresh, Mirroring
      <3>3. Fresh(reader'[q].list) /\ Fresh(packed'[m])
        BY <3>1, <3>2
      <3>4. Ref \ reader'[q].left = {}
        BY <3>1
      <3> HIDE DEF m
      <3> QED BY <1>2, <3>1, <3>3, <3>4 DEF Fresh
    <2>3. CASE Pruning(q)
      <3>1. /\ reader'[q].at = "pruning" /\ reader'[q].name = m
            /\ reader'[q].list = reader[q].list /\ packed' = packed
            /\ reader[q].at = "pruning"
        BY <2>3 DEF Pruning
      <3>2. PICK r \in reader[q].left :
               /\ diskRefs' = [diskRefs EXCEPT ![m][r] = packed[m][r]]
               /\ reader'[q].left = reader[q].left \ {r}
        BY <2>3 DEF Pruning
      <3>3. diskRefs'[m][r] = packed[m][r]
        BY <1>5, <3>2 DEF RTypeOK, TypeOK
      <3>4. Fresh(packed[m]) /\ Fresh(reader[q].list)
        BY <3>1 DEF FreshInv, RepoFresh, Mirroring
      <3>5. \A y \in Ref \ reader[q].left : <<y, diskRefs'[m][y]>> \in past
        BY <1>5, <1>7, <3>1 DEF FreshInv, RepoFresh
      <3>6. <<r, diskRefs'[m][r]>> \in past
        BY <1>5, <3>3, <3>4 DEF Fresh
      <3> QED BY SMTT(20), <1>2, <3>1, <3>2, <3>4, <3>5, <3>6 DEF Fresh
    <2>4. CASE Finishing(q)
      <3>1. /\ reader'[q].at = "serving" /\ reader'[q].name = m
            /\ reader[q].at = "pruning" /\ reader[q].left = {}
            /\ UNCHANGED <<diskRefs, packed>>
        BY <2>4 DEF Finishing
      <3> QED BY <1>2, <3>1 DEF FreshInv, RepoFresh, Fresh, Mirroring
    <2>5. CASE Arriving(q) \/ Fetching(q) \/ Leaving(q)
      <3>1. reader'[q].at \in {"idle", "fetching", "listing"}
        <4>1. NoReader.at = "idle"
          BY ReaderShape
        <4> QED BY <2>5, <4>1 DEF Arriving, Fetching, Leaving
      <3> QED BY <3>1 DEF Mirroring
    <2> QED BY <1>1, <2>1, <2>2, <2>3, <2>4, <2>5
  <1> QED BY <1>4, <1>8, <1>9 DEF FreshInv, RepoFresh

\* So is what a push writes to the repo.
LEMMA PushShows ==
  ASSUME RTypeOK, FreshInv, [RNext]_rvars, \A q \in Reader : ~ReaderStep(q),
         ~ServerCrashes, NEW n \in Name, NEW r \in Ref
  PROVE  /\ <<r, diskRefs[n][r]>> \in past => <<r, diskRefs'[n][r]>> \in past
         /\ <<r, packed[n][r]>> \in past => <<r, packed'[n][r]>> \in past
  <1>1. ASSUME NEW v, Wrote(r, v) PROVE <<r, v>> \in past
    BY <1>1, HeldFresh DEF Wrote, FreshInv, CommandsFresh, Fresh
  <1> QED BY <1>1, PushWrites

LEMMA PushFresh ==
  ASSUME RIInv, FreshInv, [RNext]_rvars, \A q \in Reader : ~ReaderStep(q), ~ServerCrashes
  PROVE  FreshInv'
  <1>1. RTypeOK /\ TypeOK /\ IdleHasNoHook
    BY DEF RIInv, RTypeOK, Backing
  <1>2. [Next]_vars /\ reader' = reader /\ crashes' = crashes
    BY StepKinds
  <1>3. past \subseteq past' /\ Held' \subseteq past'
    BY <1>2 DEF RNext, rvars, vars, FreshInv, Held
  <1>4. CommandsFresh'
    <2> SUFFICES ASSUME NEW p \in Push, hook'[p] \in {"committed", "ok"},
                        NEW r \in DOMAIN cmds'[p]
                 PROVE  <<r, cmds'[p][r].new>> \in past'
      BY DEF CommandsFresh
    <2>1. CASE hook[p] \in {"committed", "ok"} /\ cmds'[p] = cmds[p]
      BY <1>3, <2>1 DEF FreshInv, CommandsFresh
    <2>2. CASE refs'[r] = cmds'[p][r].new
      <3>1. TypeOK'
        BY <1>1, <1>2, TypeStep
      <3>2. r \in Ref
        BY <3>1, CommandsShape DEF TypeOK
      <3> QED BY <1>3, <2>2, <3>2 DEF Held
    <2> QED BY <1>1, <1>2, <2>1, <2>2, CommitKinds
  <1>6. ASSUME NEW n \in Name, NEW r \in Ref
        PROVE  /\ <<r, diskRefs[n][r]>> \in past => <<r, diskRefs'[n][r]>> \in past'
               /\ <<r, packed[n][r]>> \in past => <<r, packed'[n][r]>> \in past'
    BY <1>1, <1>3, PushShows
  <1>7. \A q \in Reader : reader[q].name \in Name
    BY <1>1, ReaderShape
  <1>8. RepoFresh'
    BY <1>2, <1>3, <1>6, <1>7 DEF FreshInv, RepoFresh, Fresh
  <1> QED BY <1>3, <1>4, <1>8 DEF FreshInv

LEMMA CrashFresh ==
  ASSUME RTypeOK, ServerCrashes, [RNext]_rvars
  PROVE  FreshInv'
  <1>1. crashes' # crashes
    BY DEF ServerCrashes, Crash, RTypeOK, TypeOK
  <1>2. past' = Held'
    BY <1>1 DEF RNext, rvars, vars
  <1>3. CommandsFresh'
    BY DEF ServerCrashes, Crash, CommandsFresh, Ended, Refusal
  <1>4. RepoFresh'
    BY ReaderShape DEF ServerCrashes, RepoFresh, Mirroring
  <1> QED BY <1>2, <1>3, <1>4 DEF FreshInv

(***************************************************************************)
(* A cache that outlived a crash, or another instance's turn, advertises   *)
(* nothing of what the crash undid: however refreshes and pushes overlap,  *)
(* git shows a reader of each ref a value that it has had in the DB since. *)
(***************************************************************************)
THEOREM ReadersSeeThisLife ==
  ASSUME \A m, n \in Name : m = n
  PROVE  RSpec => []ShownIsOfThisLife
  <1>1. RInit => RIInv /\ FreshInv
    BY RIInvInit, FreshInit
  <1>2. RIInv /\ [RNext]_rvars => RIInv'
    BY RIInvStep
  <1>3. RIInv /\ FreshInv /\ [RNext]_rvars => FreshInv'
    BY ReaderFresh, PushFresh, CrashFresh DEF RIInv
  <1>4. FreshInv => ShownIsOfThisLife
    BY DEF FreshInv, RepoFresh, Fresh, ShownIsOfThisLife
  <1> QED BY <1>1, <1>2, <1>3, <1>4, PTL DEF RSpec

-----------------------------------------------------------------------------
(* A current repo falls behind only through what was read before           *)

\* A refresh at work has the current value of a ref, in its list and, once it
\* has written it, in packed-refs, unless the ref is one it is behind with.
KeepInv == \A q \in Reader : \A r \in Ref \ behind[q] :
    /\ reader[q].at \in Mirroring => reader[q].list[r] = refs[r]
    /\ reader[q].at = "pruning" => packed[reader[q].name][r] = refs[r]

LEMMA KeepStep == RTypeOK /\ KeepInv /\ [RNext]_rvars => KeepInv'
  <1> SUFFICES ASSUME RTypeOK, KeepInv, [RNext]_rvars,
                      NEW q \in Reader, NEW r \in Ref \ behind'[q],
                      reader'[q].at \in Mirroring
               PROVE  /\ reader'[q].list[r] = refs'[r]
                      /\ reader'[q].at = "pruning" => packed'[reader'[q].name][r] = refs'[r]
    BY DEF KeepInv, Mirroring
  <1> DEFINE n == reader[q].name
  <1>0. reader[q].name \in Name /\ NoReader.at = "idle"
    BY ReaderShape
  <1>1. CASE UNCHANGED rvars
    BY <1>1 DEF rvars, vars, files, KeepInv, Mirroring
  <1>2. CASE RNext /\ reader[q].at \in Mirroring
    <2>1. /\ r \notin behind[q]
          /\ refs'[r] = refs[r]
          /\ packed'[n][r] \in {packed[n][r], refs'[r]}
      <3>1. behind'[q] = behind[q] \union Moved \union Outdated(n)
        BY <1>2 DEF RNext
      <3> QED BY <3>1 DEF Moved, Outdated
    <2>2. /\ reader[q].list[r] = refs[r]
          /\ reader[q].at = "pruning" => packed[n][r] = refs[r]
      BY <1>2, <2>1 DEF KeepInv
    <2>3. CASE reader'[q] = reader[q]
      BY <2>1, <2>2, <2>3
    <2>4. CASE Packing(q)
      <3>1. /\ reader'[q].list = reader[q].list /\ reader'[q].name = n
            /\ packed' = [packed EXCEPT ![n] = reader[q].list]
        BY <2>4 DEF Packing
      <3>2. packed'[n] = reader[q].list
        BY <1>0, <3>1 DEF RTypeOK
      <3> QED BY <2>1, <2>2, <3>1, <3>2
    <2>5. CASE Pruning(q)
      BY <2>1, <2>2, <2>5 DEF Pruning
    <2>6. CASE ~Packing(q) /\ ~Pruning(q) /\ ReaderStep(q)
      <3>1. Arriving(q) \/ Fetching(q) \/ Listing(q) \/ Finishing(q) \/ Leaving(q)
        BY <2>6, ReaderSteps
      <3> QED BY <1>0, <1>2, <3>1
              DEF Arriving, Fetching, Listing, Finishing, Leaving, Mirroring
    <2>7. CASE ~ReaderStep(q)
      <3>1. CASE \E x \in Reader : ReaderStep(x)
        <4>1. PICK x \in Reader : ReaderStep(x)
          BY <3>1
        <4>2. reader'[q] = reader[q]
          BY <2>7, <4>1, ReaderSteps
        <4> QED BY <2>3, <4>2
      <3>2. CASE reader' = reader
        BY <2>3, <3>2
      <3>3. CASE ServerCrashes
        BY <1>0, <3>3 DEF ServerCrashes, Mirroring
      <3> QED BY <3>1, <3>2, <3>3, StepKinds
    <2> QED BY <2>4, <2>5, <2>6, <2>7
  <1>3. CASE RNext /\ reader[q].at \notin Mirroring
    <2>1. PICK x \in Reader : ReaderStep(x)
      <3>1. ~ServerCrashes
        BY <1>0 DEF ServerCrashes, Mirroring
      <3>2. reader' # reader
        BY <1>3
      <3> QED BY <3>1, <3>2, StepKinds
    <2>2. x = q
      BY <1>3, <2>1, ReaderSteps
    <2>3. Listing(q)
      <3>1. /\ \/ Arriving(q) \/ Fetching(q) \/ Listing(q) \/ Packing(q)
               \/ Pruning(q) \/ Finishing(q) \/ Leaving(q)
        BY <2>1, <2>2, ReaderSteps
      <3> QED BY <1>0, <1>3, <3>1 DEF Arriving, Fetching, Packing, Pruning, Finishing,
                                     Leaving, Mirroring
    <2>4. refs' = refs
      BY <2>1, ReaderSteps DEF ReaderFrame
    <2> QED BY <2>3, <2>4 DEF Listing
  <1> QED BY <1>1, <1>2, <1>3

\* A push writes an older value to a repo only when its receive-pack ends.
LEMMA PushOutdates ==
  ASSUME RTypeOK, [RNext]_rvars, \A q \in Reader : ~ReaderStep(q), ~ServerCrashes,
         NEW n \in Name, NEW r \in Ref, diskRefs[n][r] = refs[r], diskRefs'[n][r] # refs[r]
  PROVE  SupersededPush(n, r)
  <1>0. /\ diskRefs \in [Name -> [Ref -> Value]] /\ hook \in [Push -> HookState]
    BY DEF RTypeOK, TypeOK
  <1>1. ASSUME NEW p \in Push, PushMirrors(p) PROVE FALSE
    BY <1>0, <1>1 DEF PushMirrors, MirrorRefs
  <1>2. ASSUME NEW p \in Push, PushFinalizes(p) PROVE SupersededPush(n, r)
    <2>1. /\ hook[p] = "ok" /\ hook' = [hook EXCEPT ![p] = "final"]
          /\ diskRefs' = [diskRefs EXCEPT ![NameOf[p]] = [x \in Ref |->
                             IF x \in Moving(p) THEN cmds[p][x].new ELSE @[x]]]
          /\ Moving(p) \subseteq DOMAIN cmds[p]
      BY <1>2 DEF PushFinalizes, Finalize, Moving, Unmarked
    <2>2. NameOf[p] = n /\ r \in DOMAIN cmds[p] /\ diskRefs'[n][r] = cmds[p][r].new
      BY <1>0, <2>1
    <2> QED BY <1>0, <2>1, <2>2 DEF SupersededPush
  <1>3. CASE OtherStep \/ UNCHANGED rvars
    <2>1. diskRefs' = diskRefs
      BY <1>3 DEF OtherStep, Begin, Lock, Hydrate, MaterializeFails, Served, Vanish,
         FireAfterCommit, Release, UnpackFails, CheckConnected, HookWithoutQuarantine,
         HandleBadNonce, HandleGuarded, HandleStart, PutObject, HandleFails, CASRefs,
         CASMismatch, Record, ReceivePackDies, Refuse, Replicate, EditSettings, repoVars, rvars, vars
    <2> QED BY <2>1
  <1> QED BY <1>1, <1>2, <1>3 DEF RNext

LEMMA FallsStep ==
  ASSUME RTypeOK, KeepInv, [RNext]_rvars, NEW n \in Name, NEW r \in Ref, FallsBehind(n, r)
  PROVE  StaleRefresh(n, r) \/ SupersededPush(n, r)
  <1>1. ~ServerCrashes
    BY DEF FallsBehind, ServerCrashes, Crash, RTypeOK, TypeOK
  <1>2. ASSUME NEW q \in Reader, ReaderStep(q) PROVE StaleRefresh(n, r)
    <2>1. \/ /\ n = reader[q].name /\ reader[q].at = "packing"
             /\ reader[q].list[r] # refs[r]
          \/ /\ n = reader[q].name /\ reader[q].at = "pruning"
             /\ packed[n][r] # refs[r]
      BY <1>2, ReaderMoves DEF FallsBehind
    <2>2. r \in behind[q]
      BY <2>1 DEF KeepInv, Mirroring
    <2> QED BY <2>1, <2>2 DEF StaleRefresh, Mirroring
  <1>3. CASE \A q \in Reader : ~ReaderStep(q)
    BY <1>1, <1>3, PushOutdates DEF FallsBehind
  <1> QED BY <1>2, <1>3

(***************************************************************************)
(* mirrorRefs' order: with any number of refreshes and pushes at work, a   *)
(* repo that is up to date with a ref falls behind, while the ref stands   *)
(* still, only through a list or a push that was read before it moved.     *)
(***************************************************************************)
THEOREM CurrentStaysCurrent == RSpec => KeepsCurrent
  <1>1. RInit => RTypeOK /\ KeepInv
    BY RTypeInit, ReaderShape DEF RInit, KeepInv, Mirroring
  <1>2. RTypeOK /\ KeepInv /\ [RNext]_rvars => [\A n \in Name, r \in Ref :
            FallsBehind(n, r) => StaleRefresh(n, r) \/ SupersededPush(n, r)]_rvars
    BY FallsStep
  <1>3. RSpec => [](RTypeOK /\ KeepInv)
    BY <1>1, RTypeStep, KeepStep, PTL DEF RSpec
  <1> QED BY <1>2, <1>3, PTL DEF RSpec, KeepsCurrent

-----------------------------------------------------------------------------
(* Pushes among readers                                                    *)

LEMMA PushInvStep ==
  ASSUME MayVanish = FALSE
  PROVE  RTypeOK /\ LockInv /\ AttendedInv /\ [RNext]_rvars => LockInv' /\ AttendedInv'
  <1> SUFFICES ASSUME RTypeOK, LockInv, AttendedInv, [RNext]_rvars
               PROVE  LockInv' /\ AttendedInv'
    OBVIOUS
  <1>1. CASE \E q \in Reader : ReaderStep(q)
    <2>1. UNCHANGED ReaderFrame
      BY <1>1, ReaderSteps
    <2> QED BY <2>1 DEF ReaderFrame, LockInv, AttendedInv
  <1>2. CASE [Next]_vars
    BY <1>2, LockInvStep, AttendedStep DEF RTypeOK
  <1> QED BY <1>1, <1>2, StepKinds

LEMMA ReaderHookStep ==
  RTypeOK /\ HookInv /\ [RNext]_rvars => HookInv'
  <1> SUFFICES ASSUME RTypeOK, HookInv, [RNext]_rvars PROVE HookInv'
    OBVIOUS
  <1>1. CASE \E q \in Reader : ReaderStep(q)
    <2>1. UNCHANGED ReaderFrame
      BY <1>1, ReaderSteps
    <2>2. UNCHANGED <<req, hook, cmds, guard, landed>>
      BY <2>1 DEF ReaderFrame
    <2>3. \A p \in Push : Protected(p)' <=> Protected(p)
      BY <2>2 DEF Protected
    <2> QED BY <2>2, <2>3 DEF HookInv
  <1>2. CASE [Next]_vars
    BY <1>2, HookInvStep DEF RTypeOK
  <1> QED BY <1>1, <1>2, StepKinds

(***************************************************************************)
(* Refinement, with readers: refreshes of any age and number, which write  *)
(* into the repo that git's check trusts, change nothing about the promise *)
(* that a push is one step or none, and that a step lacks no history but   *)
(* what it and the pushes before it left out.                              *)
(***************************************************************************)
THEOREM RefsAreAtomicAmongReaders ==
  ASSUME \A m, n \in Name : m = n
  PROVE  RSpec => ImplementsAtomicRefs
  <1>1. RIInv /\ HookInv /\ [RNext]_rvars => [Atomic!Next]_(Atomic!vars)
    <2> SUFFICES ASSUME RIInv, HookInv, [RNext]_rvars
                 PROVE  Atomic!Next \/ UNCHANGED Atomic!vars
      OBVIOUS
    <2>1. IInv
      BY DEF RIInv, RTypeOK, IInv, Backing
    <2>2. CASE \E q \in Reader : ReaderStep(q)
      <3>1. UNCHANGED ReaderFrame
        BY <2>2, ReaderSteps DEF RIInv
      <3>2. UNCHANGED <<refs, replica, store, cmds, leftOut, landed, req, hook>>
        BY <3>1 DEF ReaderFrame
      <3> QED BY <3>2, AtomicStutters DEF PushState
    <2>3. CASE [Next]_vars
      BY <2>1, <2>3, AtomicStep
    <2> QED BY <2>2, <2>3, StepKinds
  <1>2. RInit => Init
    BY DEF RInit
  <1>3. RIInv => RTypeOK
    BY DEF RIInv
  <1>4. RSpec => [](RIInv /\ HookInv)
    BY RIInvInit, RIInvStep, <1>2, <1>3, HookInvInit, ReaderHookStep, PTL DEF RSpec
  <1>5. Init => Atomic!Init
    BY AtomicInit, NameAssumption
  <1> QED BY <1>1, <1>2, <1>4, <1>5, PTL DEF RSpec, ImplementsAtomicRefs, Atomic!Spec

(***************************************************************************)
(* Readers, who take no lock, neither let two pushes to a repo overlap nor *)
(* make one miss its after-commit hook, with clients that stay connected.  *)
(***************************************************************************)
THEOREM PushesAmongReaders ==
  ASSUME \A m, n \in Name : m = n, MayVanish = FALSE
  PROVE  RSpec => [](Serialized /\ AfterCommitForEachPush)
  <1>1. RInit => RTypeOK /\ LockInv /\ AttendedInv
    BY RTypeInit, LockInvInit, AttendedInit DEF RInit
  <1>2. RTypeOK /\ LockInv /\ AttendedInv /\ [RNext]_rvars => LockInv' /\ AttendedInv'
    BY PushInvStep
  <1>3. LockInv /\ AttendedInv => Serialized /\ AfterCommitForEachPush
    BY AttendedSerializes, AttendedFires
  <1> QED BY <1>1, <1>2, <1>3, RTypeStep, PTL DEF RSpec
-----------------------------------------------------------------------------
(* What the after-commit hook can read, and what git marks                 *)

\* A push that has refreshed the repo, and has not committed yet.
Watching(p) == req[p] = "hydrated" \/ hook[p] \in {"unpacking", "checked", "putting"}

\* What the pushes that committed, but for p, left out.
LeftBy(p) == LeftOutBy(landed \ {p})

\* Every value the refs have had in this life is in S3, and on disk while a push
\* watches the repo, but for what was withheld; the repo then shows such values
\* only, until git has checked the push.
PastBacked == \A e \in past, n \in Name :
                 e[2] # Absent => Anc[e[2]] \subseteq store[n] \union Withheld
PastHere == \A p \in Push : Watching(p) =>
    \A e \in past : e[2] # Absent => Anc[e[2]] \subseteq disk[NameOf[p]] \union Withheld
TipsFresh == \A p \in Push : hook[p] = "unpacking" => Fresh(diskRefs[NameOf[p]])

\* So the history of what git lets a push make of the refs is in its quarantine
\* or on disk, and on disk once receive-pack has ended, but for what earlier
\* pushes left out.
Passed(p, X) == \A r \in Unmarked(p) :
    cmds[p][r].new # Absent => Anc[cmds[p][r].new] \subseteq X \union LeftBy(p)
NewsHere == \A p \in Push :
    /\ hook[p] \in {"checked", "putting", "committed", "ok"} =>
         Passed(p, pack[p] \union disk[NameOf[p]])
    /\ hook[p] = "final" /\ req[p] \in {"serving", "served"} =>
         Passed(p, disk[NameOf[p]])

Recorded == \A p \in outcome : hook[p] \in {"ok", "final"}

SeenInv == PastBacked /\ PastHere /\ TipsFresh /\ NewsHere /\ Recorded

\* All that a step may do to a push that neither refreshes, starts, commits,
\* records nor ends its receive-pack in it.
Quiet(p) ==
    /\ req'[p] = "hydrated" => req[p] = "hydrated"
    /\ req'[p] \in {"serving", "served"} => req[p] \in {"serving", "served"}
    /\ p \in outcome' => p \in outcome
    /\ \/ hook'[p] = hook[p] /\ hook[p] = "none"
       \/ /\ hook'[p] = hook[p] /\ cmds'[p] = cmds[p] /\ pack'[p] = pack[p]
          /\ broken'[p] = broken[p]
       \/ /\ hook'[p] \in Refusal \union {"dead"}
          /\ hook[p] \in {"unpacking", "checked", "putting"}

LEMMA PushKinds ==
  ASSUME TypeOK, AttendedInv, [Next]_vars, ~Crash, NEW p \in Push
  PROVE  \/ Hydrate(p) \/ MirrorRefs(p) \/ CheckConnected(p) \/ HandleStart(p)
         \/ CASRefs(p) \/ Record(p) \/ Finalize(p) \/ Quiet(p)
  <1> USE DEF TypeOK, Quiet, dbVars, repoVars, writerVars, pushVars, clientVars
  <1>1. ASSUME NEW x \in Push, Begin(x) PROVE Quiet(p)
    BY <1>1 DEF Begin, AttendedInv
  <1>2. ASSUME NEW x \in Push, Request(x) \/ Vanish(x), ~Hydrate(p), ~MirrorRefs(p)
        PROVE  Quiet(p)
    <2>1. CASE Lock(x)
      BY <2>1 DEF Lock
    <2>2. CASE Hydrate(x)
      BY <1>2, <2>2 DEF Hydrate
    <2>3. CASE MirrorRefs(x)
      BY <1>2, <2>3 DEF MirrorRefs
    <2>4. CASE MaterializeFails(x) \/ Served(x) \/ FireAfterCommit(x) \/ Release(x) \/ Vanish(x)
      BY <2>4 DEF MaterializeFails, Served, FireAfterCommit, Release, Vanish
    <2> QED BY <1>2, <2>1, <2>2, <2>3, <2>4 DEF Request
  <1>3. ASSUME NEW x \in Push, Refuses(x) PROVE Quiet(p)
    <2>1. \E why \in Refusal \union {"dead"} : Refuse(x, why)
      BY <1>3 DEF Refuses, UnpackFails, HookWithoutQuarantine, HandleBadNonce,
         HandleGuarded, HandleFails, CASMismatch, ReceivePackDies, Refusal
    <2>2. hook[x] \in {"unpacking", "checked", "putting"}
      BY <1>3 DEF Refuses, UnpackFails, HookWithoutQuarantine, HookCalls, HandleBadNonce,
         HandleGuarded, HandleFails, CASMismatch, ReceivePackDies, AttendedInv, InPath
    <2> QED BY <2>1, <2>2 DEF Refuse
  <1>4. ASSUME NEW x \in Push, CheckConnected(x) \/ HandleStart(x) \/ PutObject(x)
                                 \/ CASRefs(x) \/ Record(x) \/ Finalize(x),
               ~CheckConnected(p), ~HandleStart(p), ~CASRefs(p), ~Record(p), ~Finalize(p)
        PROVE  Quiet(p)
    <2>1. CASE HandleStart(x)
      BY <1>4, <2>1 DEF HandleStart
    <2>2. CASE PutObject(x)
      BY <2>2 DEF PutObject
    <2>3. CASE CASRefs(x)
      BY <1>4, <2>3 DEF CASRefs
    <2>4. CASE Record(x)
      BY <1>4, <2>4 DEF Record
    <2>5. CASE Finalize(x)
      <3>1. x # p
        BY <1>4, <2>5
      <3>2. /\ hook' = [hook EXCEPT ![x] = "final"]
            /\ UNCHANGED <<cmds, pack, broken, req, outcome>>
        BY <2>5 DEF Finalize
      <3> QED BY <3>1, <3>2
    <2>6. CASE CheckConnected(x)
      <3>1. x # p
        BY <1>4, <2>6
      <3>2. /\ hook' = [hook EXCEPT ![x] = "checked"]
            /\ \E B : broken' = [broken EXCEPT ![x] = B]
            /\ UNCHANGED <<cmds, pack, req, outcome>>
        BY <2>6 DEF CheckConnected
      <3> QED BY <3>1, <3>2
    <2> HIDE DEF Quiet, TypeOK
    <2> QED BY <1>4, <2>1, <2>2, <2>3, <2>4, <2>5, <2>6
  <1>5. CASE Replicate \/ EditSettings \/ UNCHANGED vars
    BY <1>5 DEF Replicate, EditSettings, vars
  <1> QED BY <1>1, <1>2, <1>3, <1>4, <1>5 DEF Next, Handler, Refuses

\* The refs stand still while a push watches the repo: it holds the lock.
LEMMA WatchedStand ==
  ASSUME TypeOK, LockInv, AttendedInv, [Next]_vars, crashes' = crashes,
         \A m, n \in Name : m = n, NEW p \in Push, Watching(p), Watching(p)'
  PROVE  refs' = refs
  <1>1. CASE \E x \in Push : CASRefs(x)
    <2>1. PICK x \in Push : CASRefs(x)
      BY <1>1
    <2>2. hook[x] = "putting" /\ req' = req /\ hook' = [hook EXCEPT ![x] = "committed"]
      BY <2>1 DEF CASRefs
    <2>3. req[x] \in Holding /\ req[p] \in Holding
      BY <2>2 DEF AttendedInv, InPath, Holding, Watching
    <2>4. lock[NameOf[x]] = x /\ lock[NameOf[p]] = p
      BY <2>3 DEF LockInv
    <2>5. x = p
      BY <2>4, NamingAssumption
    <2>6. hook'[p] = "committed" /\ req[p] = "serving"
      BY <2>2, <2>5 DEF TypeOK, AttendedInv, InPath
    <2> QED BY <2>2, <2>6 DEF Watching
  <1>2. CASE ~\E x \in Push : CASRefs(x)
    BY <1>2, OnlyCASMoves
  <1> QED BY <1>1, <1>2

LEMMA ReaderSeen ==
  ASSUME RTypeOK, FreshInv, SeenInv, NEW q \in Reader, ReaderStep(q), [RNext]_rvars
  PROVE  SeenInv'
  <1>1. UNCHANGED <<refs, store, cmds, pack, leftOut, broken, landed, hook, req, outcome, crashes>>
    BY ReaderSteps DEF ReaderFrame
  <1>0. Withheld' = Withheld /\ \A p \in Push : LeftBy(p)' = LeftBy(p)
    BY <1>1 DEF Withheld, LeftBy, LeftOutBy
  <1>2. past' = past
    BY <1>1 DEF RNext, rvars, FreshInv, Held
  <1>3. \A n \in Name : disk[n] \subseteq disk'[n]
    <2>1. reader[q].name \in Name /\ disk \in [Name -> SUBSET Commit]
      BY ReaderShape DEF RTypeOK, TypeOK
    <2> QED BY <2>1, ReaderSteps
            DEF Arriving, Fetching, Listing, Packing, Pruning, Finishing, Leaving
  <1>4. \A p \in Push : NameOf[p] \in Name
    BY NamingAssumption
  <1>5. PastBacked' /\ PastHere' /\ Recorded'
    BY <1>0, <1>1, <1>2, <1>3, <1>4 DEF SeenInv, PastBacked, PastHere, Watching, Recorded
  <1>6. TipsFresh'
    BY <1>1, <1>2, <1>4, ReaderShows DEF SeenInv, TipsFresh, Fresh
  <1>7. NewsHere'
    <2>1. \A p \in Push : Unmarked(p)' = Unmarked(p)
      BY <1>1 DEF Unmarked
    <2> QED BY <1>0, <1>1, <1>3, <1>4, <2>1 DEF SeenInv, NewsHere, Passed
  <1> QED BY <1>5, <1>6, <1>7 DEF SeenInv

LEMMA CrashSeen ==
  ASSUME RTypeOK, RIInv', ServerCrashes, [RNext]_rvars
  PROVE  SeenInv'
  <1>1. past' = Held'
    BY DEF ServerCrashes, Crash, RTypeOK, TypeOK, RNext, rvars, vars
  <1>2. PastBacked'
    BY <1>1 DEF PastBacked, Held, RIInv, Backing, ReceivedBeforePointer
  <1>3. \A p \in Push : /\ req'[p] \in {"idle", "done"}
                        /\ hook'[p] \in Ended \union {"none"}
                        /\ outcome' = {}
    BY DEF ServerCrashes, Crash, Ended
  <1>4. PastHere' /\ TipsFresh' /\ NewsHere'
    BY <1>3 DEF PastHere, Watching, TipsFresh, NewsHere, Ended, Refusal
  <1>5. Recorded'
    BY DEF ServerCrashes, Crash, Recorded
  <1> QED BY <1>2, <1>4, <1>5 DEF SeenInv

\* The tips at which git's check stops have their histories on disk.
LEMMA TipsAreHere ==
  ASSUME TypeOK, PastHere, TipsFresh, NEW p \in Push, hook[p] = "unpacking"
  PROVE  /\ Closure(Tips(p)) \subseteq disk[NameOf[p]] \union Withheld
         /\ OnDisk(NameOf[p]) \subseteq disk[NameOf[p]] \union Withheld
  <1> DEFINE n == NameOf[p]
  <1>1. \A v \in OnDisk(n) : Anc[v] \subseteq disk[n] \union Withheld
    BY DEF PastHere, TipsFresh, Watching, Fresh, OnDisk
  <1>2. Closure(Tips(p)) \subseteq disk[n] \union Withheld
    BY <1>1, ClosureWithin DEF Tips
  <1>3. OnDisk(n) \subseteq Commit
    BY NamingAssumption DEF OnDisk, TypeOK, Value
  <1> QED BY <1>1, <1>2, <1>3, HistoryAssumption

\* What passes the check has its history in the quarantine or on disk.
LEMMA CheckPasses ==
  ASSUME TypeOK, HookInv, PastHere, TipsFresh, NEW p \in Push, CheckConnected(p)
  PROVE  Passed(p, pack[p] \union disk[NameOf[p]])'
  <1>1. /\ UNCHANGED <<cmds, pack, leftOut, landed, disk>>
        /\ hook[p] = "unpacking"
        /\ \A r \in DOMAIN cmds[p] : MustMark(p, r) => r \in broken'[p]
    BY DEF CheckConnected, clientVars, dbVars, repoVars, TypeOK
  <1>2. LeftBy(p)' = Withheld
    BY <1>1 DEF HookInv, Early, LeftBy, Withheld, LeftOutBy
  <1>3. SUFFICES ASSUME NEW r \in DOMAIN cmds[p], r \notin broken'[p], cmds[p][r].new # Absent
                 PROVE  Anc[cmds[p][r].new] \subseteq
                            pack[p] \union disk[NameOf[p]] \union Withheld
    BY <1>1, <1>2 DEF Passed, Unmarked
  <1>4. Anc[cmds[p][r].new] \subseteq Here(p) \union Closure(Tips(p))
    BY <1>1, <1>3 DEF MustMark
  <1> QED BY <1>1, <1>4, TipsAreHere DEF Here

LEMMA PushSeen ==
  ASSUME \A m, n \in Name : m = n,
         RIInv, RIInv', LockInv, AttendedInv, AttendedInv', HookInv, FreshInv, SeenInv,
         [RNext]_rvars,
         \A q \in Reader : ~ReaderStep(q), ~ServerCrashes
  PROVE  SeenInv'
  <1>1. RTypeOK /\ TypeOK /\ IdleHasNoHook
    BY DEF RIInv, RTypeOK, Backing
  <1>2. [Next]_vars /\ crashes' = crashes
    BY StepKinds
  <1>3. ~Crash
    BY <1>1, <1>2 DEF Crash, TypeOK
  <1>4. past' = past \union Held'
    BY <1>2 DEF RNext, rvars, vars, FreshInv, Held
  <1>5. \A n \in Name : store[n] \subseteq store'[n] /\ disk[n] \subseteq disk'[n]
    BY <1>1, <1>2, <1>3, StoreGrows, DiskGrows
  <1>20. landed \subseteq landed' /\ (\A q \in landed : leftOut'[q] = leftOut[q])
                                 /\ Withheld \subseteq Withheld'
    BY <1>1, <1>2, LandedKept
  <1>21. ASSUME NEW p \in Push PROVE LeftBy(p) \subseteq LeftBy(p)'
    BY <1>20 DEF LeftBy, LeftOutBy
  <1>6. PastBacked'
    <2>1. \A e \in Held', n \in Name :
             e[2] # Absent => Anc[e[2]] \subseteq store'[n] \union Withheld'
      BY DEF Held, RIInv, Backing, ReceivedBeforePointer
    <2> QED BY <1>4, <1>5, <1>20, <2>1 DEF SeenInv, PastBacked
  <1>7. ASSUME NEW p \in Push
        PROVE  /\ NameOf[p] \in Name
               /\ \/ Hydrate(p) \/ MirrorRefs(p) \/ CheckConnected(p) \/ HandleStart(p)
                  \/ CASRefs(p) \/ Record(p) \/ Finalize(p) \/ Quiet(p)
    BY <1>1, <1>2, <1>3, PushKinds, NamingAssumption
  <1>8. ASSUME NEW p \in Push, Watching(p)', NEW e \in past', e[2] # Absent
        PROVE  Anc[e[2]] \subseteq disk'[NameOf[p]] \union Withheld'
    <2>1. CASE Watching(p)
      <3>1. past' = past
        BY <1>1, <1>2, <1>3, <1>4, <1>8, <2>1, WatchedStand DEF Held, FreshInv
      <3> QED BY <1>5, <1>7, <1>8, <1>20, <2>1, <3>1 DEF SeenInv, PastHere
    <2>2. CASE Hydrate(p)
      <3>1. disk'[NameOf[p]] = disk[NameOf[p]] \union store[NameOf[p]] /\ refs' = refs
        BY <1>1, <1>7, <2>2 DEF Hydrate, Fetched, TypeOK, dbVars
      <3>2. past' = past
        BY <1>4, <3>1 DEF Held, FreshInv
      <3> QED BY <1>7, <1>8, <1>20, <3>1, <3>2 DEF SeenInv, PastBacked
    <2>3. CASE ~Watching(p) /\ ~Hydrate(p)
      <3>1. CASE MirrorRefs(p) \/ CheckConnected(p) \/ HandleStart(p)
        BY <2>3, <3>1 DEF Watching, MirrorRefs, CheckConnected, HandleStart, HookCalls
      <3>2. CASE CASRefs(p) \/ Record(p) \/ Finalize(p)
        BY <1>1, <1>8, <2>3, <3>2 DEF Watching, CASRefs, Record, Finalize, TypeOK
      <3>3. CASE Quiet(p)
        BY <1>8, <2>3, <3>3 DEF Watching, Quiet, Refusal
      <3> QED BY <1>7, <2>3, <3>1, <3>2, <3>3
    <2> QED BY <2>1, <2>2, <2>3
  <1>9. ASSUME NEW p \in Push, hook'[p] = "unpacking"
        PROVE  Fresh(diskRefs[NameOf[p]])' 
    <2>1. CASE hook[p] = "unpacking"
      BY <1>1, <1>4, <1>7, <2>1, PushShows DEF SeenInv, TipsFresh, Fresh
    <2>2. CASE MirrorRefs(p)
      <3>1. diskRefs'[NameOf[p]] = refs
        BY <1>1, <1>7, <2>2 DEF MirrorRefs, TypeOK
      <3> QED BY <1>4, <3>1, HeldFresh DEF FreshInv, Fresh
    <2>3. CASE hook[p] # "unpacking" /\ ~MirrorRefs(p)
      <3>1. CASE Hydrate(p)
        BY <1>9, <2>3, <3>1 DEF Hydrate
      <3>2. CASE CheckConnected(p) \/ HandleStart(p) \/ CASRefs(p) \/ Record(p) \/ Finalize(p)
        BY <1>1, <1>9, <3>2 DEF CheckConnected, HandleStart, CASRefs, Record, Finalize, TypeOK
      <3>3. CASE Quiet(p)
        BY <1>9, <2>3, <3>3 DEF Quiet, Refusal
      <3> QED BY <1>7, <2>3, <3>1, <3>2, <3>3
    <2> QED BY <2>1, <2>2, <2>3
  <1>10. NewsHere'
    <2> SUFFICES ASSUME NEW p \in Push
                 PROVE  /\ hook'[p] \in {"checked", "putting", "committed", "ok"} =>
                             Passed(p, pack[p] \union disk[NameOf[p]])'
                        /\ hook'[p] = "final" /\ req'[p] \in {"serving", "served"} =>
                             Passed(p, disk[NameOf[p]])'
      BY DEF NewsHere
    <2>0. disk[NameOf[p]] \subseteq disk'[NameOf[p]] /\ LeftBy(p) \subseteq LeftBy(p)'
      BY <1>5, <1>7, <1>21
    <2>1. ASSUME cmds'[p] = cmds[p], broken'[p] = broken[p], pack'[p] = pack[p],
                 Passed(p, pack[p] \union disk[NameOf[p]])
          PROVE  Passed(p, pack[p] \union disk[NameOf[p]])'
      BY <2>0, <2>1 DEF Passed, Unmarked
    <2>7. ASSUME cmds'[p] = cmds[p], broken'[p] = broken[p], Passed(p, disk[NameOf[p]])
          PROVE  Passed(p, disk[NameOf[p]])'
      BY <2>0, <2>7 DEF Passed, Unmarked
    <2>2. CASE CheckConnected(p)
      <3>1. hook'[p] = "checked"
        BY <1>1, <2>2 DEF CheckConnected, TypeOK
      <3> QED BY <1>1, <2>2, <3>1, CheckPasses DEF SeenInv
    <2>3. CASE HandleStart(p) \/ CASRefs(p) \/ Record(p)
      <3>1. /\ cmds' = cmds /\ pack' = pack /\ broken' = broken
            /\ hook[p] \in {"checked", "putting", "committed"}
            /\ hook'[p] \in {"putting", "committed", "ok"}
        BY <1>1, <2>3 DEF HandleStart, HookCalls, CASRefs, Record, pushVars, clientVars, TypeOK
      <3>2. Passed(p, pack[p] \union disk[NameOf[p]])
        BY <3>1 DEF SeenInv, NewsHere
      <3> QED BY <2>1, <3>1, <3>2
    <2>4. CASE Finalize(p)
      <3>1. /\ cmds' = cmds /\ pack' = pack /\ broken' = broken
            /\ hook[p] = "ok" /\ hook'[p] = "final"
            /\ Unmarked(p) # {} => disk'[NameOf[p]] = disk[NameOf[p]] \union pack[p]
        BY <1>1, <1>7, <2>4 DEF Finalize, pushVars, clientVars, TypeOK
      <3>2. Passed(p, pack[p] \union disk[NameOf[p]])
        BY <3>1 DEF SeenInv, NewsHere
      <3>3. CASE Unmarked(p) = {}
        BY <3>1, <3>3 DEF Passed, Unmarked
      <3>4. CASE Unmarked(p) # {}
        BY <2>0, <3>1, <3>2, <3>4 DEF Passed, Unmarked
      <3> QED BY <3>3, <3>4
    <2>5. CASE Hydrate(p) \/ MirrorRefs(p)
      <3>1. hook'[p] \in {"none", "unpacking"}
        BY <1>1, <2>5 DEF Hydrate, MirrorRefs, AttendedInv, TypeOK
      <3> QED BY <3>1
    <2>6. CASE Quiet(p)
      <3>1. CASE hook'[p] \in Refusal \union {"dead", "none"}
        BY <3>1 DEF Refusal
      <3>2. CASE /\ hook'[p] = hook[p] /\ cmds'[p] = cmds[p] /\ pack'[p] = pack[p]
                 /\ broken'[p] = broken[p]
        <4>1. hook[p] \in {"checked", "putting", "committed", "ok"} =>
                 Passed(p, pack[p] \union disk[NameOf[p]])'
          BY <2>1, <3>2 DEF SeenInv, NewsHere
        <4>2. hook[p] = "final" /\ req[p] \in {"serving", "served"} =>
                 Passed(p, disk[NameOf[p]])'
          BY <2>7, <3>2 DEF SeenInv, NewsHere
        <4> QED BY <2>6, <3>2, <4>1, <4>2 DEF Quiet
      <3> QED BY <2>6, <3>1, <3>2 DEF Quiet
    <2> QED BY <1>7, <2>2, <2>3, <2>4, <2>5, <2>6
  <1>11. Recorded'
    <2> SUFFICES ASSUME NEW p \in outcome' PROVE hook'[p] \in {"ok", "final"}
      BY DEF Recorded
    <2>1. p \in Push
      BY DEF RIInv, RTypeOK, TypeOK
    <2>2. CASE Record(p) \/ Finalize(p)
      BY <1>1, <2>1, <2>2 DEF Record, Finalize, TypeOK
    <2>3. CASE Hydrate(p) \/ MirrorRefs(p) \/ CheckConnected(p) \/ HandleStart(p) \/ CASRefs(p)
      <3>1. p \in outcome
        BY <2>3 DEF Hydrate, MirrorRefs, CheckConnected, HandleStart, CASRefs, writerVars
      <3>2. hook[p] \in {"none", "unpacking", "checked", "putting"}
        BY <2>1, <2>3 DEF Hydrate, MirrorRefs, CheckConnected, HandleStart, HookCalls, CASRefs,
           AttendedInv
      <3> QED BY <3>1, <3>2 DEF SeenInv, Recorded
    <2>4. CASE Quiet(p)
      BY <2>4 DEF Quiet, SeenInv, Recorded
    <2> QED BY <1>7, <2>1, <2>2, <2>3, <2>4
  <1>12. PastHere' /\ TipsFresh'
    BY <1>8, <1>9 DEF PastHere, TipsFresh
  <1> QED BY <1>6, <1>10, <1>11, <1>12 DEF SeenInv

\* AfterCommit runs in one step only.
LEMMA FiredBy ==
  ASSUME TypeOK, RTypeOK, RNext, NEW p \in fired' \ fired
  PROVE  p \in Push /\ FireAfterCommit(p)
  <1>1. ~\E q \in Reader : ReaderStep(q)
    BY ReaderSteps DEF ReaderFrame
  <1>2. [Next]_vars
    BY <1>1, StepKinds
  <1>3. PICK x \in Push : FireAfterCommit(x)
    BY <1>2 DEF Next, Begin, Request, Lock, Hydrate, MirrorRefs, MaterializeFails,
       Served, Vanish, Release, Handler, UnpackFails, CheckConnected, HookWithoutQuarantine,
       HandleBadNonce, HandleGuarded, HandleStart, HandleFails, PutObject, CASRefs,
       CASMismatch, Record, Finalize, ReceivePackDies, Refuse, Replicate, EditSettings, Crash,
       vars
  <1> QED BY <1>3 DEF FireAfterCommit

(***************************************************************************)
(* The invariant of pushes among readers, for names with one spelling and  *)
(* clients that stay connected.                                            *)
(***************************************************************************)
SInv == RIInv /\ LockInv /\ AttendedInv /\ HookInv /\ FreshInv /\ SeenInv

LEMMA SInvInit == RInit => SInv
  <1> SUFFICES ASSUME RInit PROVE SInv
    OBVIOUS
  <1>1. RIInv /\ LockInv /\ AttendedInv /\ HookInv /\ FreshInv
    BY RIInvInit, LockInvInit, AttendedInit, HookInvInit, FreshInit DEF RInit
  <1>2. PastBacked
    BY <1>1 DEF RInit, PastBacked, Held, RIInv, Backing, ReceivedBeforePointer
  <1>3. PastHere /\ TipsFresh /\ NewsHere /\ Recorded
    BY DEF RInit, Init, PastHere, Watching, TipsFresh, NewsHere, Recorded
  <1> QED BY <1>1, <1>2, <1>3 DEF SeenInv, SInv

LEMMA SInvStep ==
  ASSUME \A m, n \in Name : m = n, MayVanish = FALSE
  PROVE  SInv /\ [RNext]_rvars => SInv'
  <1> SUFFICES ASSUME SInv, [RNext]_rvars PROVE SInv'
    OBVIOUS
  <1>1. RTypeOK /\ RIInv' /\ LockInv' /\ AttendedInv' /\ HookInv'
    BY RIInvStep, PushInvStep, ReaderHookStep DEF RIInv, SInv
  <1>2. FreshInv'
    BY <1>1, ReaderFresh, PushFresh, CrashFresh DEF SInv
  <1>3. SeenInv'
    BY <1>1, ReaderSeen, PushSeen, CrashSeen DEF SInv
  <1> QED BY <1>1, <1>2, <1>3 DEF SInv

LEMMA SInvHolds ==
  ASSUME \A m, n \in Name : m = n, MayVanish = FALSE
  PROVE  RSpec => []SInv
  BY SInvInit, SInvStep, PTL DEF RSpec

(***************************************************************************)
(* When the after-commit hook runs, the history of what git let the push   *)
(* make of the refs can be read from the on-disk repo, but for what        *)
(* earlier pushes left out, whatever readers make of its ref files between *)
(* the advertisement and then, if names have one spelling and clients stay *)
(* connected.                                                              *)
(***************************************************************************)
THEOREM AfterCommitReads ==
  ASSUME \A m, n \in Name : m = n, MayVanish = FALSE
  PROVE  RSpec => AfterCommitSeesCommit
  <1>1. SInv /\ [RNext]_rvars => [\A p \in fired' \ fired : \A r \in Unmarked(p) :
           cmds[p][r].new # Absent =>
             Anc[cmds[p][r].new] \subseteq disk[NameOf[p]] \union LeftOutBy(landed \ {p})]_rvars
    <2> SUFFICES ASSUME SInv, RNext, NEW p \in fired' \ fired
                 PROVE  Passed(p, disk[NameOf[p]])
      BY DEF Passed, LeftBy
    <2>1. p \in Push /\ FireAfterCommit(p)
      BY FiredBy DEF SInv, RIInv, RTypeOK
    <2>2. req[p] = "served" /\ hook[p] \in {"ok", "final"}
      BY <2>1 DEF FireAfterCommit, SInv, SeenInv, Recorded
    <2>3. hook[p] = "final"
      BY <2>1, <2>2 DEF SInv, AttendedInv, InPath
    <2> QED BY <2>1, <2>2, <2>3 DEF SInv, SeenInv, NewsHere
  <1> QED BY <1>1, SInvHolds, PTL DEF RSpec, AfterCommitSeesCommit

-----------------------------------------------------------------------------
(* What git marks                                                          *)

\* Once the objects are fetched, what a push needs is in its pack or on disk,
\* but for what it left out or was withheld; git has marked nothing yet.
Needs(p) == req[p] = "hydrated" \/ hook[p] = "unpacking"
MarkInv ==
    /\ MarkedForCause
    /\ \A p \in Push : hook[p] \in {"none", "unpacking"} => broken[p] = {}
    /\ \A p \in Push : Needs(p) =>
         Closure(News(p)) \subseteq
             pack[p] \union disk[NameOf[p]] \union leftOut[p] \union Withheld

LEMMA MarkInvInit == RInit => MarkInv
  <1> SUFFICES ASSUME RInit PROVE MarkInv
    OBVIOUS
  <1>1. \A p \in Push : broken[p] = {} /\ ~Needs(p)
    BY DEF RInit, Init, Needs
  <1> QED BY <1>1 DEF MarkInv, MarkedForCause

\* What may change for push p but by its own Begin, Hydrate, MirrorRefs or check.
Unhurried(p) ==
    /\ cmds'[p] = cmds[p] /\ pack'[p] = pack[p] /\ leftOut'[p] = leftOut[p]
    /\ broken'[p] = broken[p]
    /\ hook'[p] \in {"none", "unpacking"} => hook'[p] = hook[p]
    /\ Needs(p)' => Needs(p)

LEMMA MarkKinds ==
  ASSUME TypeOK, HookInv, [Next]_vars, NEW p \in Push
  PROVE  \/ Begin(p) \/ Hydrate(p) \/ MirrorRefs(p) \/ CheckConnected(p) \/ Unhurried(p)
  <1> USE DEF TypeOK, Unhurried, Needs, pushVars, clientVars
  <1>1. ASSUME NEW x \in Push, Begin(x), x # p PROVE Unhurried(p)
    BY <1>1 DEF Begin
  <1>2. ASSUME NEW x \in Push, Request(x) \/ Vanish(x), ~Hydrate(p), ~MirrorRefs(p)
        PROVE  Unhurried(p)
    <2>1. CASE Hydrate(x)
      BY <1>2, <2>1 DEF Hydrate
    <2>2. CASE MirrorRefs(x)
      BY <1>2, <2>2 DEF MirrorRefs
    <2>3. CASE ~Hydrate(x) /\ ~MirrorRefs(x)
      BY <1>2, <2>3 DEF Request, Lock, MaterializeFails, Served, FireAfterCommit, Release,
         Vanish
    <2> QED BY <2>1, <2>2, <2>3
  <1>3. ASSUME NEW x \in Push, Refuses(x) PROVE Unhurried(p)
    <2>1. \E why \in Refusal \union {"dead"} : Refuse(x, why)
      BY <1>3 DEF Refuses, UnpackFails, HookWithoutQuarantine, HandleBadNonce,
         HandleGuarded, HandleFails, CASMismatch, ReceivePackDies, Refusal
    <2> QED BY <2>1 DEF Refuse, Refusal
  <1>4. ASSUME NEW x \in Push, CheckConnected(x), x # p PROVE Unhurried(p)
    <2>1. /\ hook' = [hook EXCEPT ![x] = "checked"]
          /\ \E B : broken' = [broken EXCEPT ![x] = B]
          /\ UNCHANGED <<cmds, pack, leftOut, req>>
      BY <1>4 DEF CheckConnected
    <2> QED BY <1>4, <2>1
  <1>5. ASSUME NEW x \in Push, HandleStart(x) \/ PutObject(x) \/ CASRefs(x) \/ Record(x)
        PROVE  Unhurried(p)
    BY <1>5 DEF HandleStart, PutObject, CASRefs, Record
  <1>6. ASSUME NEW x \in Push, Finalize(x) PROVE Unhurried(p)
    <2>1. /\ hook' = [hook EXCEPT ![x] = "final"]
          /\ UNCHANGED <<cmds, pack, leftOut, broken, req>>
      BY <1>6 DEF Finalize
    <2> QED BY <2>1
  <1>7. CASE Crash
    <2>1. /\ UNCHANGED <<cmds, pack, leftOut, broken>>
          /\ req'[p] \in {"idle", "done"}
          /\ hook'[p] = IF hook[p] = "none" \/ hook[p] \in Ended THEN hook[p] ELSE "dead"
      BY <1>7 DEF Crash
    <2> QED BY <2>1 DEF Ended, Refusal
  <1>8. CASE Replicate \/ EditSettings
    BY <1>8 DEF Replicate, EditSettings
  <1>9. CASE UNCHANGED vars
    BY <1>9 DEF vars
  <1> HIDE DEF TypeOK, Unhurried, Needs
  <1> QED BY <1>1, <1>2, <1>3, <1>4, <1>5, <1>6, <1>7, <1>8, <1>9 DEF Next, Handler, Refuses

\* What git may mark is missing for a cause.
LEMMA MarkHasCause ==
  ASSUME SInv, MarkInv, NEW p \in Push, hook[p] = "unpacking",
         NEW r \in DOMAIN cmds[p], MayMark(p, r)
  PROVE  \E q \in landed \union {p} : leftOut[q] # {}
  <1>1. TypeOK /\ PastHere /\ TipsFresh
    BY DEF SInv, RIInv, RTypeOK, SeenInv
  <1>2. OnDisk(NameOf[p]) \subseteq Here(p) \union Withheld
    BY <1>1, TipsAreHere DEF Here
  <1>3. Anc[cmds[p][r].new] \subseteq Here(p) \union leftOut[p] \union Withheld
    <2>1. cmds[p][r].new \in News(p) /\ cmds[p][r].new # Absent
      BY DEF News, MayMark
    <2>2. Closure(News(p)) \subseteq Here(p) \union leftOut[p] \union Withheld
      BY DEF MarkInv, Needs, Here
    <2> QED BY <2>1, <2>2, ClosureContains
  <1>4. leftOut[p] # {} \/ Withheld # {}
    BY <1>2, <1>3 DEF MayMark
  <1> QED BY <1>4 DEF Withheld, LeftOutBy

LEMMA MarkStep ==
  ASSUME \A m, n \in Name : m = n
  PROVE  SInv /\ MarkInv /\ [RNext]_rvars => MarkInv'
  <1> SUFFICES ASSUME SInv, MarkInv, [RNext]_rvars PROVE MarkInv'
    OBVIOUS
  <1>0. RTypeOK /\ TypeOK /\ IdleHasNoHook /\ HookInv /\ Backing
    BY DEF SInv, RIInv, RTypeOK, Backing
  <1> DEFINE Cause(p) == \E q \in landed \union {p} : leftOut[q] # {}
             Supplied(p) == Closure(News(p)) \subseteq
                 pack[p] \union disk[NameOf[p]] \union leftOut[p] \union Withheld
  <1>1. ASSUME NEW q \in Reader, ReaderStep(q) PROVE MarkInv'
    <2>1. UNCHANGED <<cmds, pack, leftOut, broken, landed, req, hook>>
      BY <1>0, <1>1, ReaderSteps DEF ReaderFrame
    <2>2. \A n \in Name : disk[n] \subseteq disk'[n]
      <3>1. reader[q].name \in Name /\ disk \in [Name -> SUBSET Commit]
        BY <1>0, ReaderShape DEF TypeOK
      <3>2. disk' = disk \/ \E n \in Name : disk' = [disk EXCEPT ![n] = @ \union store[n]]
        BY <1>0, <1>1, <3>1, ReaderSteps
           DEF Arriving, Fetching, Listing, Packing, Pruning, Finishing, Leaving
      <3> HIDE DEF Cause, Supplied
      <3> QED BY <3>1, <3>2
    <2>3. Withheld' = Withheld /\ \A p \in Push : /\ News(p)' = News(p)
                                                 /\ Needs(p)' = Needs(p)
                                                 /\ NameOf[p] \in Name
      BY <2>1, WithheldStays, NamingAssumption DEF News, Needs
    <2> QED BY <2>1, <2>2, <2>3 DEF MarkInv, MarkedForCause
  <1>2. CASE [Next]_vars
    <2>1. landed \subseteq landed' /\ (\A q \in landed : leftOut'[q] = leftOut[q])
                                  /\ Withheld \subseteq Withheld'
      BY <1>0, <1>2, LandedKept
    <2>2. ASSUME NEW p \in Push
          PROVE  /\ broken'[p] # {} => Cause(p)'
                 /\ hook'[p] \in {"none", "unpacking"} => broken'[p] = {}
                 /\ Needs(p)' => Supplied(p)'
      <3>1. CASE Begin(p)
        <4>1. hook[p] = "none" /\ hook' = hook /\ broken' = broken /\ req'[p] = "waiting"
          BY <1>0, <3>1 DEF Begin, HookInv, TypeOK
        <4> QED BY <4>1 DEF MarkInv, Needs
      <3>2. CASE Hydrate(p)
        <4>1. /\ UNCHANGED <<cmds, pack, leftOut, broken, landed, hook>>
              /\ req[p] = "locked"
              /\ disk'[NameOf[p]] = disk[NameOf[p]] \union store[NameOf[p]]
          BY <1>0, <3>2, NamingAssumption
             DEF Hydrate, Fetched, TypeOK, dbVars, pushVars, clientVars
        <4>2. Closure(News(p)) \subseteq
                 pack[p] \union store[NameOf[p]] \union leftOut[p] \union Withheld
          BY <1>0 DEF Backing, InFlightBacked
        <4>3. News(p)' = News(p)
          BY <4>1 DEF News
        <4>4. Supplied(p)'
          BY <2>1, <4>1, <4>2, <4>3
        <4> QED BY <2>1, <4>1, <4>4 DEF MarkInv, MarkedForCause
      <3>3. CASE MirrorRefs(p)
        <4>1. /\ UNCHANGED <<cmds, pack, leftOut, broken, landed, disk>>
              /\ req[p] = "hydrated" /\ hook[p] = "none"
          BY <1>0, <3>3 DEF MirrorRefs, HookInv, dbVars, pushVars, clientVars
        <4>2. News(p)' = News(p) /\ Needs(p)
          BY <4>1 DEF News, Needs
        <4> QED BY <2>1, <4>1, <4>2 DEF MarkInv, MarkedForCause
      <3>4. CASE CheckConnected(p)
        <4>1. /\ UNCHANGED <<leftOut, landed, req>>
              /\ hook[p] = "unpacking" /\ hook'[p] = "checked"
              /\ broken'[p] # {} => \E r \in DOMAIN cmds[p] : MayMark(p, r)
          BY <1>0, <3>4 DEF CheckConnected, TypeOK, clientVars, dbVars
        <4>2. broken'[p] # {} => Cause(p)'
          BY <4>1, MarkHasCause
        <4>3. ~Needs(p)'
          BY <1>0, <4>1 DEF Needs, HookInv
        <4> QED BY <4>1, <4>2, <4>3
      <3>5. CASE Unhurried(p) /\ disk[NameOf[p]] \subseteq disk'[NameOf[p]]
        <4>1. News(p)' = News(p)
          BY <3>5 DEF Unhurried, News
        <4> QED BY <2>1, <3>5, <4>1 DEF Unhurried, MarkInv, MarkedForCause
      <3>6. CASE Unhurried(p) /\ Crash
        <4>1. ~Needs(p)'
          BY <3>6 DEF Crash, Needs, Ended, Refusal
        <4> QED BY <2>1, <3>6, <4>1 DEF Unhurried, MarkInv, MarkedForCause
      <3>7. ~Crash => disk[NameOf[p]] \subseteq disk'[NameOf[p]]
        BY <1>0, <1>2, DiskGrows, NamingAssumption
      <3> QED BY <1>0, <1>2, <3>1, <3>2, <3>3, <3>4, <3>5, <3>6, <3>7, MarkKinds
    <2> QED BY <2>2 DEF MarkInv, MarkedForCause
  <1> QED BY <1>1, <1>2, StepKinds

(***************************************************************************)
(* git marks a command, which then does not move on disk although the      *)
(* handler commits it, only if this push or one that committed left out    *)
(* history: neither older refs that readers put on disk, nor crashes that  *)
(* take refs back, nor the caches they leave are a cause.                  *)
(***************************************************************************)
THEOREM MarksHaveCauses ==
  ASSUME \A m, n \in Name : m = n, MayVanish = FALSE
  PROVE  RSpec => []MarkedForCause
  <1>1. MarkInv => MarkedForCause
    BY DEF MarkInv
  <1> QED BY SInvHolds, MarkInvInit, MarkStep, <1>1, PTL DEF RSpec
=============================================================================
