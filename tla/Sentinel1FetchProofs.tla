------------------------ MODULE Sentinel1FetchProofs ------------------------
(***************************************************************************)
(* The lock, the answers and the pair of Sentinel1Fetch, for any number of *)
(* requests and whatever CDSE answers.  What an ingest leaves is not       *)
(* proved again: the invariant of SceneStoreProofs holds of the two        *)
(* ingests of every fetch, since they are steps of the store.  What a      *)
(* fetch has found and rendered is a second invariant, of its job; it      *)
(* rests on the arithmetic of the tiles and of the verdict's thresholds.   *)
(***************************************************************************)
EXTENDS Sentinel1Fetch, FiniteSetTheorems, TLAPS

Ingests == INSTANCE SceneStoreProofs
  WITH Scenes <- FetchScenes, Uploads <- {}, Limit <- 1, raised <- ingestRaised

LEMMA StoreConstants == Ingests!ConstantsAssumption
  BY DEF Ingests!ConstantsAssumption

Early == {"idle", "grid", "token", "search", "pick", "render", "optical", "store_before"}
Late == {"ingest_before", "store_after", "ingest_after", "raising", "answered", "dead"}
Errors == {"none", "cdse", "value", "invalid", "storage", "os"}

\* The variables of the requests that the answers depend on.
RequestTypes ==
  /\ pc \in [Fetches -> Early \cup Late]
  /\ called \in [Fetches -> BOOLEAN]
  /\ raised \in [Fetches -> Errors]
  /\ named \in [Fetches -> BOOLEAN]
  /\ status \in [Fetches -> {0, 201, 409, 422, 500, 502, 503}]

\* An ingest that is not under way.
Settled(s) == phase[s] \in {"idle", "answered", "raised"}

\* Until both scenes are rendered no ingest has begun, and a request that is
\* not past its checks has not called CDSE.
EarlyInv(f) ==
  pc[f] \in Early =>
    /\ phase[Before(f)] = "idle" /\ phase[After(f)] = "idle"
    /\ raised[f] = "none" /\ ~named[f]
    /\ pc[f] \in {"idle", "grid"} => ~called[f]

\* The second ingest begins after the first has returned.
IngestInv(f) ==
  /\ pc[f] \in {"ingest_before", "store_after", "ingest_after"} => ~named[f]
  /\ pc[f] \in {"ingest_before", "store_after"} => phase[After(f)] = "idle"
  /\ pc[f] \in {"store_after", "ingest_after"} => phase[Before(f)] = "answered"

\* What a request that failed leaves: no after scene, and the before scene
\* exactly where the error names it.
FailureInv(f) ==
  /\ Settled(Before(f)) /\ phase[After(f)] \in {"idle", "raised"}
  /\ raised[f] # "os" => (phase[Before(f)] = "answered" <=> named[f])
  /\ raised[f] = "value" => ~called[f] /\ phase[Before(f)] = "idle"

EndInv(f) ==
  /\ pc[f] = "raising" => raised[f] # "none" /\ FailureInv(f)
  /\ pc[f] = "answered" =>
       \/ status[f] = 201 /\ phase[Before(f)] = "answered" /\ phase[After(f)] = "answered"
       \/ status[f] # 201 /\ FailureInv(f) /\ (status[f] = 422 => ~called[f] /\ phase[Before(f)] = "idle")

FetchInv(f) == EarlyInv(f) /\ IngestInv(f) /\ EndInv(f)

Inv == RequestTypes /\ OneFetch /\ Ingests!Inv /\ \A f \in Fetches : FetchInv(f)

-----------------------------------------------------------------------------
(* The steps of the store.                                                 *)

LEMMA StoreStarts == Store!Init => Ingests!Inv
<1>1. Store!Init => Ingests!Init
  BY DEF Store!Init, Ingests!Init, Store!NoFiles, Ingests!NoFiles, Store!Parts, Ingests!Parts
<1> QED
  BY <1>1, Ingests!Initially

\* The two scenes of a request are its own.
LEMMA TwoScenes ==
  ASSUME NEW f \in Fetches
  PROVE  /\ Before(f) \in FetchScenes /\ After(f) \in FetchScenes
         /\ Before(f) # After(f)
         /\ \A g \in Fetches : g # f =>
              /\ Before(g) \notin {Before(f), After(f)}
              /\ After(g) \notin {Before(f), After(f)}
  BY DEF Before, After, FetchScenes, Sides

\* An ingest starts from nothing, and moves nobody else.
LEMMA Starts ==
  ASSUME NEW s \in FetchScenes, Ingests!Inv, Store!Begin(s) \/ Store!Reject(s)
  PROVE  /\ Ingests!Inv'
         /\ phase[s] = "idle"
         /\ \A t \in FetchScenes \ {s} : phase'[t] = phase[t]
<1>1. Ingests!Begin(s) \/ Ingests!Reject(s)
  <2>1. Store!MayStart(s) => Ingests!MayStart(s)
    BY DEF Store!MayStart, Ingests!MayStart
  <2>2. CASE Store!Begin(s)
    BY <2>1, <2>2 DEF Store!Begin, Ingests!Begin, Store!FirstPart, Ingests!FirstPart,
       Store!listVars, Ingests!listVars
  <2>3. CASE Store!Reject(s)
    BY <2>1, <2>3 DEF Store!Reject, Ingests!Reject, Store!listVars, Ingests!listVars
  <2> QED
    BY <2>2, <2>3
<1>2. Ingests!Inv'
  BY <1>1, Ingests!Preserved DEF Ingests!Next
<1>3. \A t \in FetchScenes \ {s} : phase'[t] = phase[t]
  BY <1>1, Ingests!Elsewhere DEF Ingests!Inv
<1> QED
  BY <1>1, <1>2, <1>3 DEF Ingests!Begin, Ingests!Reject, Ingests!MayStart

\* One that goes on is under way.
LEMMA GoesOn ==
  ASSUME NEW s \in FetchScenes, Ingests!Inv, Store!Proceed(s)
  PROVE  /\ Ingests!Inv'
         /\ phase[s] \notin {"idle", "answered", "raised"}
         /\ \A t \in FetchScenes \ {s} : phase'[t] = phase[t]
<1>1. Ingests!Proceed(s)
  BY DEF Store!Proceed, Ingests!Proceed, Store!Write, Ingests!Write, Store!WriteFails,
     Ingests!WriteFails, Store!Stamp, Ingests!Stamp, Store!StampFails, Ingests!StampFails,
     Store!Replace, Ingests!Replace, Store!ReplaceFails, Ingests!ReplaceFails,
     Store!Unlink, Ingests!Unlink, Store!UnlinkFails, Ingests!UnlinkFails,
     Store!RaiseStorageError, Ingests!RaiseStorageError, Store!CleanUp, Ingests!CleanUp,
     Store!FirstPart, Ingests!FirstPart, Store!FollowingPart, Ingests!FollowingPart,
     Store!Parts, Ingests!Parts, Store!listVars, Ingests!listVars
<1>2. Ingests!Inv'
  BY <1>1, Ingests!Preserved DEF Ingests!Next
<1>3. \A t \in FetchScenes \ {s} : phase'[t] = phase[t]
  BY <1>1, Ingests!Elsewhere DEF Ingests!Inv
<1>4. phase[s] \in {"write", "stamp", "replace", "rollback", "cleanup"}
  BY <1>1 DEF Ingests!Proceed, Ingests!Write, Ingests!WriteFails, Ingests!Stamp,
     Ingests!StampFails, Ingests!Replace, Ingests!ReplaceFails, Ingests!Unlink,
     Ingests!UnlinkFails, Ingests!RaiseStorageError, Ingests!CleanUp
<1> QED
  BY <1>2, <1>3, <1>4

\* A crash touches no ingest that is over or has not begun.
LEMMA Dies ==
  ASSUME Ingests!Inv, Store!ProcessCrash
  PROVE  /\ Ingests!Inv'
         /\ \A s \in FetchScenes : Settled(s) => phase'[s] = phase[s]
<1>1. Ingests!ProcessCrash
  BY DEF Store!ProcessCrash, Ingests!ProcessCrash, Store!Busy, Ingests!Busy, Store!Phases,
     Ingests!Phases
<1>2. Ingests!Inv'
  BY <1>1, Ingests!Preserved DEF Ingests!Next
<1>3. \A s \in FetchScenes : Settled(s) => phase'[s] = phase[s]
  BY <1>1 DEF Ingests!ProcessCrash, Ingests!Busy, Settled
<1> QED
  BY <1>2, <1>3

LEMMA NoStoreStep ==
  ASSUME Ingests!Inv, UNCHANGED storeVars
  PROVE  Ingests!Inv'
  BY Ingests!Preserved DEF storeVars, Ingests!vars, Ingests!ingestVars, Ingests!listVars

-----------------------------------------------------------------------------
(* The steps of one request.                                               *)

\* What a step of one request must show for all of them.
LEMMA OfOne ==
  ASSUME Inv, NEW f \in Fetches,
         RequestTypes', OneFetch', Ingests!Inv', FetchInv(f)',
         \A g \in Fetches \ {f} :
           /\ pc'[g] = pc[g] /\ called'[g] = called[g] /\ raised'[g] = raised[g]
           /\ named'[g] = named[g] /\ status'[g] = status[g],
         \A s \in FetchScenes : s \notin {Before(f), After(f)} => phase'[s] = phase[s]
  PROVE  Inv'
<1>1. ASSUME NEW g \in Fetches \ {f} PROVE FetchInv(g)'
  <2>1. /\ phase'[Before(g)] = phase[Before(g)] /\ phase'[After(g)] = phase[After(g)]
        /\ Before(g)' = Before(g) /\ After(g)' = After(g)
    BY <1>1, TwoScenes DEF Before, After
  <2>2. FetchInv(g)
    BY DEF Inv
  <2> QED
    BY <2>1, <2>2 DEF FetchInv, EarlyInv, IngestInv, EndInv, FailureInv, Settled
<1> QED
  BY <1>1 DEF Inv

\* It has the lock and keeps it ...
LEMMA KeepsLock ==
  ASSUME Inv, NEW f \in Fetches, Working(f), NEW p \in (Early \cup Late) \ Ended,
         pc' = [pc EXCEPT ![f] = p], lock' = lock
  PROVE  OneFetch'
  BY DEF Inv, RequestTypes, OneFetch, Working

\* ... or gives it up as it answers.
LEMMA GivesLock ==
  ASSUME Inv, NEW f \in Fetches, Working(f),
         pc' = [pc EXCEPT ![f] = "answered"], lock' = "free"
  PROVE  OneFetch'
<1>1. lock = f
  BY DEF Inv, OneFetch
<1>2. \A g \in Fetches : pc'[g] \in Ended
  BY <1>1 DEF Inv, RequestTypes, OneFetch, Working, Ended
<1> QED
  BY <1>2, FetchAssumption DEF OneFetch, Working

\* A request that is refused, or meets the lock, has touched nothing.
LEMMA RefuseStep ==
  ASSUME Inv, NEW f \in Fetches, Refuse(f) \/ Conflict(f)
  PROVE  Inv'
<1>1. PICK code \in {409, 422, 503} :
        /\ pc[f] = "idle" /\ pc' = [pc EXCEPT ![f] = "answered"]
        /\ status' = [status EXCEPT ![f] = code]
        /\ UNCHANGED <<lock, called, raised, named, storeVars>>
  BY DEF Refuse, Conflict, Answer, Goto
<1>2. EarlyInv(f) /\ RequestTypes
  BY DEF Inv, FetchInv
<1>3. RequestTypes' /\ status'[f] = code /\ pc'[f] = "answered" /\ UNCHANGED phase
  BY <1>1, <1>2 DEF RequestTypes, Late, storeVars
<1>4. OneFetch'
  BY <1>1, <1>2, <1>3 DEF Inv, OneFetch, Working, Ended, RequestTypes
<1>5. FetchInv(f)'
  BY <1>1, <1>2, <1>3 DEF FetchInv, EarlyInv, IngestInv, EndInv, FailureInv, Settled, Early,
     Before, After
<1> QED
  BY <1>1, <1>2, <1>3, <1>4, <1>5, OfOne, NoStoreStep DEF Inv, RequestTypes

\* A stage before the store is done, or a call of it.
LEMMA StageStep ==
  ASSUME Inv, NEW f \in Fetches, Working(f), pc[f] \in Early,
         NEW p \in Early \ {"idle"}, pc' = [pc EXCEPT ![f] = p],
         called' \in [Fetches -> BOOLEAN], \A g \in Fetches \ {f} : called'[g] = called[g],
         p = "grid" => ~called'[f],
         UNCHANGED <<lock, raised, named, status, storeVars>>
  PROVE  Inv'
<1>1. EarlyInv(f) /\ RequestTypes
  BY DEF Inv, FetchInv
<1>2. RequestTypes' /\ pc'[f] = p /\ UNCHANGED phase
  BY <1>1 DEF RequestTypes, storeVars
<1>3. OneFetch'
  BY KeepsLock DEF Early, Ended
<1>4. FetchInv(f)'
  BY <1>1, <1>2 DEF FetchInv, EarlyInv, IngestInv, EndInv, Early, Before, After
<1> QED
  BY <1>1, <1>2, <1>3, <1>4, OfOne, NoStoreStep DEF Inv, RequestTypes

\* A stage before the store fails: no ingest has begun, so nothing is stored.
LEMMA StageFailsStep ==
  ASSUME Inv, NEW f \in Fetches, Working(f), pc[f] \in Early,
         NEW e \in {"cdse", "value", "os"}, Raise(f, e),
         called' \in [Fetches -> BOOLEAN], \A g \in Fetches \ {f} : called'[g] = called[g],
         e = "value" => ~called'[f],
         UNCHANGED <<lock, named, status, storeVars>>
  PROVE  Inv'
<1>1. EarlyInv(f) /\ RequestTypes
  BY DEF Inv, FetchInv
<1>2. /\ RequestTypes' /\ pc'[f] = "raising" /\ raised'[f] = e
      /\ UNCHANGED phase
  BY <1>1 DEF RequestTypes, storeVars, Raise, Goto, Late, Errors
<1>3. OneFetch'
  BY KeepsLock DEF Late, Ended, Raise, Goto
<1>4. FetchInv(f)'
  BY <1>1, <1>2 DEF FetchInv, EarlyInv, IngestInv, EndInv, FailureInv, Settled, Early,
     Before, After
<1> QED
  BY <1>1, <1>2, <1>3, <1>4, OfOne, NoStoreStep DEF Inv, RequestTypes, Raise, Goto

\* An ingest begins: the scene was untouched, and the other one stays as it is.
LEMMA StartStep ==
  ASSUME Inv, NEW f \in Fetches, StartIngest(f)
  PROVE  Inv'
<1>1. PICK s \in {Before(f), After(f)} :
        /\ Store!Begin(s) \/ Store!Reject(s)
        /\ s = Before(f) => pc[f] = "store_before" /\ pc' = [pc EXCEPT ![f] = "ingest_before"]
        /\ s = After(f) => pc[f] = "store_after" /\ pc' = [pc EXCEPT ![f] = "ingest_after"]
  <2>1. CASE pc[f] = "store_before"
    BY <2>1, TwoScenes DEF StartIngest, Goto
  <2>2. CASE pc[f] # "store_before"
    BY <2>2, TwoScenes DEF StartIngest, Goto
  <2> QED
    BY <2>1, <2>2
<1>2. /\ s \in FetchScenes /\ Before(f) # After(f)
      /\ UNCHANGED <<lock, called, raised, named, status>>
  BY TwoScenes DEF StartIngest
<1>3. Ingests!Inv' /\ \A t \in FetchScenes \ {s} : phase'[t] = phase[t]
  BY <1>1, <1>2, Starts DEF Inv
<1>4. FetchInv(f) /\ RequestTypes
  BY DEF Inv
<1>5. RequestTypes' /\ pc'[f] = IF s = Before(f) THEN "ingest_before" ELSE "ingest_after"
  BY <1>1, <1>2, <1>4 DEF RequestTypes, Late
<1>6. OneFetch'
  BY <1>1, <1>2, KeepsLock DEF Working, Ended, Late
<1>7. FetchInv(f)'
  <2>1. CASE s = Before(f)
    <3>1. phase'[After(f)] = phase[After(f)]
      BY <1>2, <1>3, <2>1, TwoScenes
    <3> QED
      BY <1>1, <1>2, <1>4, <1>5, <2>1, <3>1
         DEF FetchInv, EarlyInv, IngestInv, EndInv, Early, Before, After
  <2>2. CASE s = After(f)
    <3>1. phase'[Before(f)] = phase[Before(f)]
      BY <1>2, <1>3, <2>2, TwoScenes
    <3> QED
      BY <1>1, <1>2, <1>4, <1>5, <2>2, <3>1
         DEF FetchInv, EarlyInv, IngestInv, EndInv, Early, Before, After
  <2> QED
    BY <2>1, <2>2
<1>8. \A g \in Fetches \ {f} : pc'[g] = pc[g]
  BY <1>1, <1>4 DEF RequestTypes
<1> QED
  BY <1>2, <1>3, <1>5, <1>6, <1>7, <1>8, OfOne

\* Its end is read: both scenes are stored, or one has failed.
LEMMA EndStep ==
  ASSUME Inv, NEW f \in Fetches,
         BeforeStored(f) \/ PairStored(f) \/ BeforeFails(f) \/ AfterFails(f)
  PROVE  Inv'
<1>1. FetchInv(f) /\ RequestTypes /\ Ingests!Inv
  BY DEF Inv
<1>2. ingestRaised \in [FetchScenes -> {"none", "invalid", "storage", "os"}]
  BY <1>1 DEF Ingests!Inv, Ingests!IngestTypes
<1>3. \A s \in FetchScenes : phase[s] = "raised" => ingestRaised[s] # "none"
  BY <1>1 DEF Ingests!Inv, Ingests!SceneInv, Ingests!EndInv
<1>4. UNCHANGED storeVars /\ UNCHANGED phase
  BY DEF BeforeStored, PairStored, BeforeFails, AfterFails, storeVars
<1>5. CASE BeforeStored(f)
  <2>1. RequestTypes' /\ pc'[f] = "store_after" /\ \A g \in Fetches \ {f} : pc'[g] = pc[g]
    BY <1>1, <1>5 DEF BeforeStored, Goto, RequestTypes, Late
  <2>2. OneFetch'
    BY <1>5, KeepsLock DEF BeforeStored, Goto, Working, Ended, Late
  <2>3. FetchInv(f)'
    BY <1>1, <1>4, <1>5, <2>1
       DEF BeforeStored, FetchInv, EarlyInv, IngestInv, EndInv, Early, Before, After
  <2> QED
    BY <1>4, <1>5, <2>1, <2>2, <2>3, OfOne, NoStoreStep DEF BeforeStored, Inv
<1>6. CASE PairStored(f)
  <2>1. /\ RequestTypes' /\ pc'[f] = "answered" /\ status'[f] = 201
        /\ \A g \in Fetches \ {f} : pc'[g] = pc[g] /\ status'[g] = status[g]
    BY <1>1, <1>6 DEF PairStored, Answer, Goto, RequestTypes, Late
  <2>2. OneFetch'
    BY <1>6, GivesLock DEF PairStored, Answer, Goto, Working, Ended
  <2>3. FetchInv(f)'
    BY <1>1, <1>4, <1>6, <2>1
       DEF PairStored, FetchInv, EarlyInv, IngestInv, EndInv, Early, Before, After
  <2> QED
    BY <1>4, <1>6, <2>1, <2>2, <2>3, OfOne, NoStoreStep DEF PairStored, Inv
<1>7. CASE BeforeFails(f)
  <2>0. ingestRaised[Before(f)] \in {"invalid", "storage", "os"} /\ phase[Before(f)] = "raised"
    BY <1>2, <1>3, <1>7, TwoScenes DEF BeforeFails
  <2>1. /\ RequestTypes' /\ pc'[f] = "raising" /\ raised'[f] = ingestRaised[Before(f)]
        /\ \A g \in Fetches \ {f} : pc'[g] = pc[g] /\ raised'[g] = raised[g]
    BY <1>1, <1>7, <2>0 DEF BeforeFails, Raise, Goto, RequestTypes, Late, Errors
  <2>2. OneFetch'
    BY <1>7, KeepsLock DEF BeforeFails, Raise, Goto, Working, Ended, Late
  <2>3. FetchInv(f)'
    BY <1>1, <1>4, <1>7, <2>0, <2>1
       DEF BeforeFails, FetchInv, EarlyInv, IngestInv, EndInv, FailureInv, Settled, Early,
           Before, After
  <2> QED
    BY <1>4, <1>7, <2>1, <2>2, <2>3, OfOne, NoStoreStep DEF BeforeFails, Inv
<1>8. CASE AfterFails(f)
  <2> DEFINE e == ingestRaised[After(f)]
  <2>0. /\ e \in {"invalid", "storage", "os"} /\ phase[After(f)] = "raised"
        /\ e \in Wrapped <=> e # "os"
    BY <1>2, <1>3, <1>8, TwoScenes DEF AfterFails, Wrapped
  <2>1. /\ raised' = [raised EXCEPT ![f] = IF e \in Wrapped THEN "cdse" ELSE e]
        /\ named' = [named EXCEPT ![f] = e \in Wrapped]
        /\ pc' = [pc EXCEPT ![f] = "raising"] /\ pc[f] = "ingest_after"
        /\ UNCHANGED <<lock, called, status>>
    BY <1>8 DEF AfterFails, Raise, Goto
  <2> HIDE DEF e
  <2>2. raised' = [raised EXCEPT ![f] = IF e = "os" THEN "os" ELSE "cdse"]
    BY <2>0, <2>1
  <2>3. named' = [named EXCEPT ![f] = (e # "os")]
    <3>1. (e \in Wrapped) = (e # "os")
      BY <2>0
    <3> QED
      BY <2>1, <3>1
  <2>4. /\ RequestTypes' /\ pc'[f] = "raising"
        /\ raised'[f] = (IF e = "os" THEN "os" ELSE "cdse") /\ named'[f] = (e # "os")
        /\ \A g \in Fetches \ {f} :
             pc'[g] = pc[g] /\ raised'[g] = raised[g] /\ named'[g] = named[g]
    BY <1>1, <2>1, <2>2, <2>3 DEF RequestTypes, Late, Errors
  <2>5. OneFetch'
    BY <2>1, KeepsLock DEF Working, Ended, Late
  <2>7. named'[f] <=> e # "os"
    BY <2>4, Zenon
  <2>8. /\ pc'[f] = "raising" /\ phase'[Before(f)] = "answered" /\ phase'[After(f)] = "raised"
        /\ raised'[f] \notin {"none", "value"} /\ (raised'[f] = "os" <=> e = "os")
    BY <1>1, <1>4, <2>0, <2>1, <2>4 DEF FetchInv, IngestInv
  <2>6. FetchInv(f)'
    BY <2>7, <2>8
       DEF FetchInv, EarlyInv, IngestInv, EndInv, FailureInv, Settled, Early, Before, After
  <2> QED
    BY <1>4, <2>1, <2>4, <2>5, <2>6, OfOne, NoStoreStep DEF Inv
<1> QED
  BY <1>5, <1>6, <1>7, <1>8

\* The exception becomes an answer: the client's fault only for a "value".
LEMMA RespondStep ==
  ASSUME Inv, NEW f \in Fetches, Respond(f)
  PROVE  Inv'
<1>1. /\ pc[f] = "raising" /\ pc' = [pc EXCEPT ![f] = "answered"] /\ lock' = "free"
      /\ status' = [status EXCEPT ![f] = Status(raised[f])]
      /\ UNCHANGED <<called, raised, named, storeVars>>
  BY DEF Respond, Answer, Goto
<1>2. FetchInv(f) /\ RequestTypes
  BY DEF Inv
<1>3. raised[f] \in Errors \ {"none"} /\ FailureInv(f)
  BY <1>1, <1>2 DEF RequestTypes, FetchInv, EndInv
<1>4. /\ Status(raised[f]) \in {422, 500, 502}
      /\ Status(raised[f]) = 422 => raised[f] = "value"
  <2>1. CASE raised[f] \in {"cdse", "invalid"}
    BY <2>1 DEF Status
  <2>2. CASE raised[f] = "value"
    BY <2>2 DEF Status
  <2>3. CASE raised[f] \in {"storage", "os"}
    BY <2>3 DEF Status
  <2> QED
    BY <1>3, <2>1, <2>2, <2>3 DEF Errors
<1>5. /\ RequestTypes' /\ pc'[f] = "answered" /\ status'[f] = Status(raised[f])
      /\ UNCHANGED phase
      /\ \A g \in Fetches \ {f} : pc'[g] = pc[g] /\ status'[g] = status[g]
  BY <1>1, <1>2, <1>4 DEF RequestTypes, Late, storeVars
<1>6. OneFetch'
  BY <1>1, GivesLock DEF Working, Ended
<1>7. FetchInv(f)'
  BY <1>1, <1>3, <1>4, <1>5
     DEF FetchInv, EarlyInv, IngestInv, EndInv, FailureInv, Settled, Early, Before, After
<1> QED
  BY <1>1, <1>5, <1>6, <1>7, OfOne, NoStoreStep DEF Inv

-----------------------------------------------------------------------------
(* Every step.                                                             *)

\* A request gets the lock when nobody has it.
LEMMA EnterStep ==
  ASSUME Inv, NEW f \in Fetches, Enter(f)
  PROVE  Inv'
<1>1. /\ pc[f] = "idle" /\ lock = "free" /\ lock' = f /\ pc' = [pc EXCEPT ![f] = "grid"]
      /\ UNCHANGED <<called, raised, named, status, storeVars>>
  BY DEF Enter, Goto
<1>2. FetchInv(f) /\ RequestTypes
  BY DEF Inv
<1>3. RequestTypes' /\ UNCHANGED phase /\ pc'[f] = "grid"
  BY <1>1, <1>2 DEF RequestTypes, Early, storeVars
<1>4. \A g \in Fetches : pc[g] \in Ended
  BY <1>1, FetchAssumption DEF Inv, OneFetch, Working
<1>5. OneFetch'
  BY <1>1, <1>2, <1>4 DEF OneFetch, Working, RequestTypes, Ended
<1>6. FetchInv(f)'
  BY <1>1, <1>2, <1>3 DEF FetchInv, EarlyInv, IngestInv, EndInv, Early, Before, After
<1> QED
  BY <1>1, <1>2, <1>3, <1>5, <1>6, OfOne, NoStoreStep DEF Inv, RequestTypes

\* The stages before the store, each done or failed.
LEMMA StagesStep ==
  ASSUME Inv, NEW f \in Fetches,
         \/ Grid(f) \/ GridFails(f) \/ AccessToken(f) \/ CDSEFails(f) \/ Search(f)
         \/ SearchPinned(f) \/ Pick(f) \/ RenderTile(f) \/ OpticalCheck(f)
  PROVE  Inv'
<1>0. FetchInv(f) /\ RequestTypes
  BY DEF Inv
<1>1. /\ pc[f] \in {"grid", "token", "search", "pick", "render", "optical"}
      /\ UNCHANGED <<lock, named, status, storeVars>>
  BY DEF Grid, GridFails, AccessToken, CDSEFails, Search, SearchPinned, Pick, RenderTile,
     OpticalCheck
<1>2. /\ Working(f) /\ pc[f] \in Early
      /\ called \in [Fetches -> BOOLEAN]
      /\ pc = [pc EXCEPT ![f] = pc[f]]
      /\ pc[f] = "grid" => ~called[f]
  BY <1>0, <1>1 DEF Working, Ended, Early, RequestTypes, FetchInv, EarlyInv
<1>3. ASSUME UNCHANGED <<called, raised>>,
             NEW p \in {"token", "search", "pick", "render", "optical", "store_before"},
             pc' = [pc EXCEPT ![f] = p]
      PROVE  Inv'
  <2>1. p \in Early \ {"idle"} /\ p # "grid"
    BY DEF Early
  <2>2. called' \in [Fetches -> BOOLEAN] /\ \A g \in Fetches \ {f} : called'[g] = called[g]
    BY <1>2, <1>3
  <2> QED
    BY <1>1, <1>2, <1>3, <2>1, <2>2, StageStep
<1>4. ASSUME UNCHANGED <<called, raised, pc>> PROVE Inv'
  <2>1. pc[f] \in Early \ {"idle"} /\ pc' = [pc EXCEPT ![f] = pc[f]]
    BY <1>1, <1>2, <1>4
  <2>2. called' \in [Fetches -> BOOLEAN] /\ \A g \in Fetches \ {f} : called'[g] = called[g]
    BY <1>2, <1>4
  <2>3. pc[f] = "grid" => ~called'[f]
    BY <1>2, <1>4
  <2> QED
    BY <1>1, <1>2, <1>4, <2>1, <2>2, <2>3, StageStep
<1>5. ASSUME UNCHANGED called, NEW e \in {"cdse", "value", "os"}, Raise(f, e),
             e = "value" => pc[f] = "grid"
      PROVE  Inv'
  <2>1. called' \in [Fetches -> BOOLEAN] /\ \A g \in Fetches \ {f} : called'[g] = called[g]
    BY <1>2, <1>5
  <2>2. e = "value" => ~called'[f]
    BY <1>2, <1>5
  <2> QED
    BY <1>1, <1>2, <1>5, <2>1, <2>2, StageFailsStep
<1>6. CASE Grid(f)
  BY <1>3, <1>6 DEF Grid, Goto
<1>7. CASE GridFails(f)
  BY <1>5, <1>7 DEF GridFails
<1>15. ASSUME called' = [called EXCEPT ![f] = TRUE]
       PROVE  called' \in [Fetches -> BOOLEAN] /\ \A g \in Fetches \ {f} : called'[g] = called[g]
  BY <1>2, <1>15
<1>8. CASE AccessToken(f)
  <2>1. "search" \in Early \ {"idle"} /\ "search" # "grid"
    BY DEF Early
  <2> QED
    BY <1>1, <1>2, <1>8, <1>15, <2>1, StageStep DEF AccessToken, Goto
<1>9. CASE CDSEFails(f)
  BY <1>1, <1>2, <1>9, <1>15, StageFailsStep DEF CDSEFails
<1>10. CASE Search(f)
  BY <1>3, <1>4, <1>10 DEF Search, NextSide, Goto
<1>11. CASE SearchPinned(f)
  <2>1. \/ UNCHANGED <<raised, pc>>
        \/ UNCHANGED raised /\ pc' = [pc EXCEPT ![f] = "pick"]
        \/ Raise(f, "cdse")
    BY <1>11 DEF SearchPinned, NextSide, Goto
  <2> QED
    BY <1>3, <1>4, <1>5, <1>11, <2>1 DEF SearchPinned
<1>12. CASE Pick(f)
  BY <1>3, <1>5, <1>12 DEF Pick, Goto
<1>13. CASE RenderTile(f)
  BY <1>3, <1>4, <1>13 DEF RenderTile, NextSide, Goto
<1>14. CASE OpticalCheck(f)
  <2>1. \/ UNCHANGED raised /\ pc' = [pc EXCEPT ![f] = "store_before"]
        \/ Raise(f, "os")
    BY <1>14 DEF OpticalCheck, Goto
  <2> QED
    BY <1>3, <1>5, <1>14, <2>1 DEF OpticalCheck
<1> QED
  BY <1>6, <1>7, <1>8, <1>9, <1>10, <1>11, <1>12, <1>13, <1>14

\* An ingest goes on: it is under way, so its request waits for it.
LEMMA IngestStep ==
  ASSUME Inv, Ingest
  PROVE  Inv'
<1>1. PICK s \in FetchScenes : Store!Proceed(s)
  BY DEF Ingest
<1>2. /\ Ingests!Inv' /\ phase[s] \notin {"idle", "answered", "raised"}
      /\ \A t \in FetchScenes \ {s} : phase'[t] = phase[t]
  BY <1>1, GoesOn DEF Inv
<1>3. UNCHANGED fetchVars
  BY DEF Ingest
<1>4. ASSUME NEW f \in Fetches PROVE FetchInv(f)'
  <2>1. FetchInv(f) /\ pc'[f] = pc[f] /\ Before(f) \in FetchScenes /\ After(f) \in FetchScenes
    BY <1>3, TwoScenes DEF Inv, fetchVars
  <2>2. \A t \in FetchScenes : Settled(t) => phase'[t] = phase[t]
    BY <1>2 DEF Settled
  <2> QED
    BY <1>3, <2>1, <2>2 DEF FetchInv, EarlyInv, IngestInv, EndInv, FailureInv, Settled,
       fetchVars, Before, After
<1> QED
  BY <1>2, <1>3, <1>4 DEF Inv, RequestTypes, OneFetch, Working, fetchVars

\* The process dies: what was answered stays true of the store.
LEMMA CrashStep ==
  ASSUME Inv, ProcessCrash
  PROVE  Inv'
<1>1. /\ lock' = "free" /\ UNCHANGED <<called, raised, named, status>>
      /\ pc' = [f \in Fetches |-> IF pc[f] \in Ended THEN pc[f] ELSE "dead"]
      /\ Store!ProcessCrash
  BY DEF ProcessCrash
<1>2. /\ Ingests!Inv'
      /\ \A s \in FetchScenes : Settled(s) => phase'[s] = phase[s]
  BY <1>1, Dies DEF Inv
<1>3. RequestTypes' /\ \A f \in Fetches : pc'[f] \in Ended
  BY <1>1 DEF Inv, RequestTypes, Ended, Early, Late
<1>4. OneFetch'
  BY <1>1, <1>3, FetchAssumption DEF OneFetch, Working
<1>5. ASSUME NEW f \in Fetches PROVE FetchInv(f)'
  <2>1. FetchInv(f) /\ Before(f) \in FetchScenes /\ After(f) \in FetchScenes
    BY TwoScenes DEF Inv
  <2>2. CASE pc[f] \in {"idle", "answered"}
    <3>1. pc'[f] = pc[f]
      BY <1>1, <2>2 DEF Ended
    <3> QED
      BY <1>1, <1>2, <2>1, <2>2, <3>1 DEF FetchInv, EarlyInv, IngestInv, EndInv, FailureInv,
         Settled, Early, Before, After
  <2>3. CASE pc[f] \notin {"idle", "answered"}
    <3>1. pc'[f] = "dead"
      BY <1>1, <2>3 DEF Ended
    <3> QED
      BY <3>1 DEF FetchInv, EarlyInv, IngestInv, EndInv, Early
  <2> QED
    BY <2>2, <2>3
<1> QED
  BY <1>2, <1>3, <1>4, <1>5 DEF Inv

LEMMA Initially == Init => Inv
<1> SUFFICES ASSUME Init PROVE Inv
  OBVIOUS
<1>1. Ingests!Inv /\ \A s \in FetchScenes : phase[s] = "idle"
  BY StoreStarts DEF Init, Store!Init
<1>2. RequestTypes
  BY DEF Init, RequestTypes, Early, Errors
<1>3. OneFetch
  BY FetchAssumption DEF Init, OneFetch, Working, Ended
<1>4. \A f \in Fetches : FetchInv(f)
  BY <1>1, TwoScenes DEF Init, FetchInv, EarlyInv, IngestInv, EndInv
<1> QED
  BY <1>1, <1>2, <1>3, <1>4 DEF Inv

LEMMA Preserved == Inv /\ [Next]_vars => Inv'
<1> SUFFICES ASSUME Inv, [Next]_vars PROVE Inv'
  OBVIOUS
<1>1. ASSUME NEW f \in Fetches, Refuse(f) \/ Conflict(f) \/ Enter(f) PROVE Inv'
  BY <1>1, RefuseStep, EnterStep
<1>2. ASSUME NEW f \in Fetches, FetchStep(f) PROVE Inv'
  BY <1>2, StagesStep, StartStep, EndStep, RespondStep DEF FetchStep
<1>3. CASE UNCHANGED vars
  <2>1. Ingests!Inv' /\ UNCHANGED fetchVars /\ UNCHANGED phase
    BY <1>3, NoStoreStep DEF Inv, vars, storeVars
  <2> QED
    BY <2>1 DEF Inv, fetchVars, RequestTypes, OneFetch, Working, FetchInv, EarlyInv, IngestInv,
       EndInv, FailureInv, Settled, Before, After
<1> QED
  BY <1>1, <1>2, <1>3, IngestStep, CrashStep DEF Next

LEMMA Invariance == Spec => []Inv
  BY Initially, Preserved, PTL DEF Spec

-----------------------------------------------------------------------------
(* The tiles of a grid: each pixel is in one of them.                      *)

\* Quotient and remainder.
LEMMA Division ==
  ASSUME NEW a \in Nat, NEW b \in Nat \ {0}
  PROVE  /\ a \div b \in Nat /\ a % b \in 0 .. b - 1
         /\ a = b * (a \div b) + (a % b)
<1>1. a % b \in 0 .. b - 1 /\ a \div b \in Int
  OBVIOUS
<1>2. a = b * (a \div b) + (a % b)
  OBVIOUS
<1>3. a \div b >= 0
  BY <1>1, <1>2
<1> QED
  BY <1>1, <1>2, <1>3

\* Multiplying keeps an order.
LEMMA Monotonic ==
  ASSUME NEW b \in Nat, NEW x \in Int, NEW y \in Int, x <= y
  PROVE  b * x <= b * y
  OBVIOUS

\* A quotient and a remainder are those of one number only.
LEMMA DivisionUnique ==
  ASSUME NEW b \in Nat \ {0}, NEW q \in Int, NEW p \in Int,
         NEW r \in 0 .. b - 1, NEW s \in 0 .. b - 1, b * q + r = b * p + s
  PROVE  q = p /\ r = s
<1>1. ~(q < p)
  <2> SUFFICES ASSUME q + 1 <= p PROVE FALSE
    OBVIOUS
  <2>1. b * (q + 1) <= b * p /\ b * (q + 1) = b * q + b
    BY Monotonic
  <2> QED
    BY <2>1
<1>2. ~(p < q)
  <2> SUFFICES ASSUME p + 1 <= q PROVE FALSE
    OBVIOUS
  <2>1. b * (p + 1) <= b * q /\ b * (p + 1) = b * p + b
    BY Monotonic
  <2> QED
    BY <2>1
<1> QED
  BY <1>1, <1>2

\* The bands a side of a grid is cut into cover it, and each has something of it.
LEMMA Bands ==
  ASSUME NEW side \in Nat \ {0}
  PROVE  /\ Steps(side) \in Nat \ {0}
         /\ \A x \in 0 .. side - 1 : x \div MaxSide \in 0 .. Steps(side) - 1
         /\ \A k \in 0 .. Steps(side) - 1 : MaxSide * k < side
<1> DEFINE S == Steps(side)
<1>0. MaxSide \in Nat \ {0}
  BY ReplyAssumption
<1>1. /\ S \in Nat /\ side + MaxSide - 1 = MaxSide * S + ((side + MaxSide - 1) % MaxSide)
      /\ (side + MaxSide - 1) % MaxSide \in 0 .. MaxSide - 1
  <2>1. side + MaxSide - 1 \in Nat
    BY <1>0
  <2> QED
    BY <1>0, <2>1, Division DEF Steps
<1> HIDE DEF S
<1>2. side <= MaxSide * S /\ MaxSide * S <= side + MaxSide - 1 /\ MaxSide * S \in Nat
  BY <1>0, <1>1
<1>3. S # 0
  BY <1>0, <1>2
<1>4. ASSUME NEW x \in 0 .. side - 1 PROVE x \div MaxSide \in 0 .. S - 1
  <2>1. x \div MaxSide \in Nat /\ MaxSide * (x \div MaxSide) <= x
    BY <1>0, Division
  <2>2. ~(S <= x \div MaxSide)
    <3> SUFFICES ASSUME S <= x \div MaxSide PROVE FALSE
      OBVIOUS
    <3>1. MaxSide * S <= MaxSide * (x \div MaxSide)
      BY <1>0, <1>1, <2>1, Monotonic
    <3> QED
      BY <1>0, <1>2, <2>1, <3>1
  <2> QED
    BY <1>1, <2>1, <2>2
<1>5. ASSUME NEW k \in 0 .. S - 1 PROVE MaxSide * k < side
  <2>1. MaxSide * (k + 1) <= MaxSide * S /\ MaxSide * (k + 1) = MaxSide * k + MaxSide
    BY <1>0, <1>1, Monotonic
  <2> QED
    BY <1>0, <1>2, <2>1
<1> QED
  BY <1>1, <1>3, <1>4, <1>5 DEF S

\* The k-th band is what has k as its quotient.
LEMMA BandIsQuotient ==
  ASSUME NEW side \in Nat \ {0}, NEW k \in 0 .. Steps(side) - 1
  PROVE  k * MaxSide .. k * MaxSide + SmallerOf(MaxSide, side - k * MaxSide) - 1
           = {x \in 0 .. side - 1 : x \div MaxSide = k}
<1> DEFINE low == k * MaxSide
<1>0. MaxSide \in Nat \ {0} /\ k \in Nat /\ low = MaxSide * k /\ low \in Nat /\ low < side
  BY ReplyAssumption, Bands
<1> HIDE DEF low
<1>1. ASSUME NEW x \in Int
      PROVE  x \in low .. low + SmallerOf(MaxSide, side - low) - 1
               <=> x \in 0 .. side - 1 /\ low <= x /\ x <= low + MaxSide - 1
  BY <1>0 DEF SmallerOf
<1>2. ASSUME NEW x \in 0 .. side - 1
      PROVE  x \div MaxSide = k <=> low <= x /\ x <= low + MaxSide - 1
  <2>1. /\ x \div MaxSide \in Nat /\ x % MaxSide \in 0 .. MaxSide - 1
        /\ x = MaxSide * (x \div MaxSide) + (x % MaxSide)
    <3>1. x \in Nat
      OBVIOUS
    <3> QED
      BY <1>0, <3>1, Division
  <2>2. ASSUME low <= x, x <= low + MaxSide - 1 PROVE x \div MaxSide = k
    <3>1. x - low \in 0 .. MaxSide - 1 /\ x = MaxSide * k + (x - low)
      BY <1>0, <2>2
    <3>2. MaxSide * (x \div MaxSide) + (x % MaxSide) = MaxSide * k + (x - low)
      BY <2>1, <3>1
    <3> QED
      BY <1>0, <2>1, <3>1, <3>2, DivisionUnique
  <2>3. ASSUME x \div MaxSide = k PROVE low <= x /\ x <= low + MaxSide - 1
    BY <1>0, <2>1, <2>3
  <2> QED
    BY <2>2, <2>3
<1> QED
  BY <1>0, <1>1, <1>2 DEF low

Grids == [height : Nat \ {0}, width : Nat \ {0}]

\* The number of the tile a pixel is in, and the pixels of the first tiles.
TileOf(grid, p) == Steps(grid.width) * (p[1] \div MaxSide) + p[2] \div MaxSide
FirstTiles(grid, n) == {p \in GridPixels(grid) : TileOf(grid, p) < n}

\* A pixel of the grid is in one of its tiles.
LEMMA TileNumbers ==
  ASSUME NEW grid \in Grids, NEW p \in GridPixels(grid)
  PROVE  /\ TileOf(grid, p) \in 0 .. TileCount(grid) - 1
         /\ p[1] \div MaxSide \in 0 .. Steps(grid.height) - 1
         /\ p[2] \div MaxSide \in 0 .. Steps(grid.width) - 1
         /\ p[1] \in 0 .. grid.height - 1 /\ p[2] \in 0 .. grid.width - 1
<1> DEFINE H == Steps(grid.height) W == Steps(grid.width)
           i == p[1] \div MaxSide  j == p[2] \div MaxSide
<1>1. /\ grid.height \in Nat \ {0} /\ grid.width \in Nat \ {0}
      /\ p[1] \in 0 .. grid.height - 1 /\ p[2] \in 0 .. grid.width - 1
  BY DEF Grids, GridPixels
<1>2. H \in Nat \ {0} /\ W \in Nat \ {0} /\ i \in 0 .. H - 1 /\ j \in 0 .. W - 1
  BY <1>1, Bands
<1> HIDE DEF H, W, i, j
<1>3. W * i <= W * (H - 1) /\ W * (H - 1) = H * W - W /\ W * i \in Nat /\ H * W \in Nat
  BY <1>2, Monotonic
<1>4. W * i + j \in 0 .. H * W - 1
  BY <1>2, <1>3
<1> QED
  BY <1>1, <1>2, <1>4 DEF TileOf, TileCount, H, W, i, j

\* The n-th tile has exactly the pixels with its number.
LEMMA TilePixels ==
  ASSUME NEW grid \in Grids, NEW n \in 0 .. TileCount(grid) - 1
  PROVE  Pixels(Tile(grid, n)) = {p \in GridPixels(grid) : TileOf(grid, p) = n}
<1> DEFINE H == Steps(grid.height) W == Steps(grid.width)
           row == n \div W  col == n % W
           RowBand == {x \in 0 .. grid.height - 1 : x \div MaxSide = row}
           ColBand == {x \in 0 .. grid.width - 1 : x \div MaxSide = col}
<1>1. /\ grid.height \in Nat \ {0} /\ grid.width \in Nat \ {0} /\ MaxSide \in Nat \ {0}
      /\ H \in Nat \ {0} /\ W \in Nat \ {0}
  BY Bands, ReplyAssumption DEF Grids
<1>2. n \in Nat /\ n < H * W
  BY <1>1 DEF TileCount
<1>3. row \in Nat /\ col \in 0 .. W - 1 /\ n = W * row + col
  BY <1>1, <1>2, Division
<1>4. row \in 0 .. H - 1
  <2> HIDE DEF row, col, W, H
  <2> SUFFICES ASSUME H <= row PROVE FALSE
    BY <1>1, <1>3
  <2>1. W * H <= W * row /\ W * H = H * W
    BY <1>1, <1>3, Monotonic
  <2> QED
    BY <1>1, <1>2, <1>3, <2>1
<1>5. /\ row * MaxSide .. row * MaxSide + SmallerOf(MaxSide, grid.height - row * MaxSide) - 1 = RowBand
      /\ col * MaxSide .. col * MaxSide + SmallerOf(MaxSide, grid.width - col * MaxSide) - 1 = ColBand
  BY <1>1, <1>3, <1>4, BandIsQuotient
<1>6. Pixels(Tile(grid, n)) = RowBand \X ColBand
  BY <1>5 DEF Pixels, Tile
<1>7. ASSUME NEW p \in GridPixels(grid)
      PROVE  TileOf(grid, p) = n <=> p[1] \div MaxSide = row /\ p[2] \div MaxSide = col
  <2>1. /\ p[1] \div MaxSide \in Int /\ p[2] \div MaxSide \in 0 .. W - 1
        /\ TileOf(grid, p) = W * (p[1] \div MaxSide) + (p[2] \div MaxSide)
    BY TileNumbers DEF TileOf
  <2> HIDE DEF row, col, W
  <2> QED
    BY <1>1, <1>3, <2>1, DivisionUnique
<1>8. RowBand \X ColBand = {p \in GridPixels(grid) : p[1] \div MaxSide = row /\ p[2] \div MaxSide = col}
  BY DEF GridPixels
<1> QED
  BY <1>6, <1>7, <1>8

\* The grid has as many pixels as its sides say.
LEMMA GridIsFinite ==
  ASSUME NEW grid \in Grids
  PROVE  /\ IsFiniteSet(GridPixels(grid))
         /\ Cardinality(GridPixels(grid)) = grid.height * grid.width
         /\ \A S \in SUBSET GridPixels(grid) : IsFiniteSet(S) /\ Cardinality(S) \in Nat
<1>1. grid.height \in Nat \ {0} /\ grid.width \in Nat \ {0}
  BY DEF Grids
<1>2. /\ IsFiniteSet(0 .. grid.height - 1) /\ Cardinality(0 .. grid.height - 1) = grid.height
      /\ IsFiniteSet(0 .. grid.width - 1) /\ Cardinality(0 .. grid.width - 1) = grid.width
  <2>1. ASSUME NEW side \in Nat \ {0}
        PROVE  IsFiniteSet(0 .. side - 1) /\ Cardinality(0 .. side - 1) = side
    <3>1. 0 \in Int /\ side - 1 \in Int /\ ~(0 > side - 1) /\ (side - 1) - 0 + 1 = side
      OBVIOUS
    <3> QED
      BY <3>1, FS_Interval
  <2> QED
    BY <1>1, <2>1
<1>3. /\ IsFiniteSet(GridPixels(grid))
      /\ Cardinality(GridPixels(grid)) = grid.height * grid.width
  BY <1>2, FS_Product DEF GridPixels
<1> QED
  BY <1>3, FS_Subset, FS_CardinalityType

\* One more tile is copied: its pixels are none of those before.
LEMMA NextTile ==
  ASSUME NEW grid \in Grids, NEW n \in 0 .. TileCount(grid) - 1
  PROVE  /\ FirstTiles(grid, n + 1) = FirstTiles(grid, n) \cup Pixels(Tile(grid, n))
         /\ Cardinality(FirstTiles(grid, n + 1))
              = Cardinality(FirstTiles(grid, n)) + Cardinality(Pixels(Tile(grid, n)))
<1>0. \A p \in GridPixels(grid) : TileOf(grid, p) \in Int
  BY TileNumbers
<1>1. FirstTiles(grid, n + 1) = FirstTiles(grid, n) \cup Pixels(Tile(grid, n))
  BY <1>0, TilePixels DEF FirstTiles
<1>2. FirstTiles(grid, n) \cap Pixels(Tile(grid, n)) = {}
  BY <1>0, TilePixels DEF FirstTiles
<1>3. FirstTiles(grid, n) \in SUBSET GridPixels(grid) /\ Pixels(Tile(grid, n)) \in SUBSET GridPixels(grid)
  BY TilePixels DEF FirstTiles
<1>4. Cardinality({}) = 0
  BY FS_EmptySet
<1>5. /\ IsFiniteSet(FirstTiles(grid, n)) /\ IsFiniteSet(Pixels(Tile(grid, n)))
      /\ Cardinality(FirstTiles(grid, n)) \in Nat /\ Cardinality(Pixels(Tile(grid, n))) \in Nat
  BY <1>3, GridIsFinite
<1>6. Cardinality(FirstTiles(grid, n) \cup Pixels(Tile(grid, n)))
        = Cardinality(FirstTiles(grid, n)) + Cardinality(Pixels(Tile(grid, n)))
            - Cardinality(FirstTiles(grid, n) \cap Pixels(Tile(grid, n)))
  BY <1>5, FS_Union
<1>7. Cardinality(FirstTiles(grid, n) \cap Pixels(Tile(grid, n))) = 0
  BY <1>2, <1>4
<1>8. Cardinality(FirstTiles(grid, n) \cup Pixels(Tile(grid, n)))
        = Cardinality(FirstTiles(grid, n)) + Cardinality(Pixels(Tile(grid, n)))
  BY <1>5, <1>6, <1>7
<1> QED
  BY <1>1, <1>8, Zenon

\* The first none of the tiles are empty, and all of them are the grid.
LEMMA AllTiles ==
  ASSUME NEW grid \in Grids
  PROVE  /\ FirstTiles(grid, 0) = {} /\ Cardinality(FirstTiles(grid, 0)) = 0
         /\ FirstTiles(grid, TileCount(grid)) = GridPixels(grid)
         /\ TileCount(grid) \in Nat \ {0}
<1>1. FirstTiles(grid, 0) = {}
  BY TileNumbers DEF FirstTiles
<1>2. TileCount(grid) \in Nat \ {0}
  BY Bands DEF Grids, TileCount
<1>3. FirstTiles(grid, TileCount(grid)) = GridPixels(grid)
  BY <1>2, TileNumbers DEF FirstTiles
<1> QED
  BY <1>1, <1>2, <1>3, FS_EmptySet

-----------------------------------------------------------------------------
(* The optical pass and the thresholds of its verdict.                     *)

\* The closest pass is one, and no other is closer.
LEMMA NearestIsNearest ==
  ASSUME NEW passes \in SUBSET Int, passes # {}, NEW around \in Int
  PROVE  /\ Nearest(passes, around) \in passes
         /\ \A t \in passes : Distance(Nearest(passes, around), around) <= Distance(t, around)
<1> DEFINE Key(t) == 2 * Distance(t, around) + (IF around < t THEN 1 ELSE 0)
           Keys == {Key(t) : t \in passes}
<1>1. \A t \in passes : Key(t) \in Nat /\ Distance(t, around) \in Nat
  BY DEF Distance
<1>2. Keys \in SUBSET Nat /\ Keys # {}
  BY <1>1
<1>3. PICK k \in Keys : \A n \in Keys : k <= n
  <2> HIDE DEF Keys
  <2> QED
    BY <1>2, Ingests!Least
<1>4. PICK first \in passes : \A u \in passes : Key(first) <= Key(u)
  BY <1>3
<1>5. ASSUME NEW u \in passes
      PROVE  \/ Distance(first, around) < Distance(u, around)
             \/ Distance(first, around) = Distance(u, around) /\ first <= u
  BY <1>4, <1>5 DEF Distance
<1> DEFINE nearest == Nearest(passes, around)
<1>6. /\ nearest \in passes
      /\ \A u \in passes :
           \/ Distance(nearest, around) < Distance(u, around)
           \/ Distance(nearest, around) = Distance(u, around) /\ nearest <= u
  BY <1>5, Zenon DEF Nearest
<1> HIDE DEF nearest
<1>7. \A u \in passes : Distance(nearest, around) <= Distance(u, around)
  BY <1>1, <1>6
<1> QED
  BY <1>6, <1>7 DEF nearest

\* A share of a share.
Times(a, b, c) == a * b * c

\* A share a of what is at least a share b.
LEMMA Shares ==
  ASSUME NEW valid \in Nat, NEW area \in Nat, NEW a \in 0 .. 100, NEW b \in 0 .. 100,
         100 * valid >= b * area
  PROVE  Times(a, b, area) <= Times(100, a, valid)
<1>1. a * (b * area) <= a * (100 * valid)
  <2>1. b * area \in Int /\ 100 * valid \in Int /\ b * area <= 100 * valid /\ a \in Nat
    OBVIOUS
  <2> QED
    BY <2>1, Monotonic
<1>2. a * (100 * valid) = 100 * a * valid /\ a * b * area = a * (b * area)
  OBVIOUS
<1> QED
  BY <1>1, <1>2 DEF Times

\* The verdict on any listing and any raster.
LEMMA Verdicts ==
  ASSUME NEW lookup \in Lookups, NEW around \in Int, NEW j,
         j.optical = <<lookup, OpticalVerdict(lookup, around)>>, j.pair[2].at = around
  PROVE  VerdictIsRight(j)
<1> DEFINE v == OpticalVerdict(lookup, around)
           scene == Nearest(lookup.passes, around)
           r == lookup.raster
           Good == r # Failed /\ Valid(r) # 0
<1>1. /\ lookup.more \in BOOLEAN
      /\ lookup.passes \in SUBSET Int /\ lookup.passes # Failed
      /\ r # Failed => r \in [hidden : Nat, seen : Nat, nodata : Nat]
      /\ Cloudy \in 0 .. 100 /\ MinObserved \in 0 .. 100 /\ Failed # {}
  BY OpticalAssumption
<1>2. Fractions(r) = IF Good THEN r ELSE Failed
  BY DEF Fractions
<1>3. /\ lookup.more => v = Verdict("unavailable", NoScene, Failed)
      /\ ~lookup.more /\ lookup.passes = {} => v = Verdict("no_acquisition", NoScene, Failed)
      /\ ~lookup.more /\ lookup.passes # {} =>
           v = Verdict(IF Fractions(r) = Failed \/ TooLittle(r) THEN "unavailable"
                       ELSE IF Hidden(Fractions(r)) THEN "cloudy" ELSE "clear",
                       scene, Fractions(r))
  <2>1. lookup.more => Listing(lookup) = Failed
    BY DEF Listing
  <2>2. ~lookup.more => Listing(lookup) = lookup.passes /\ lookup.passes # Failed
    BY <1>1 DEF Listing
  <2>3. CASE lookup.more
    BY <1>1, <2>1, <2>3 DEF OpticalVerdict
  <2>4. CASE ~lookup.more /\ lookup.passes = {}
    BY <2>2, <2>4 DEF OpticalVerdict
  <2>5. CASE ~lookup.more /\ lookup.passes # {}
    BY <2>2, <2>5 DEF OpticalVerdict
  <2> QED
    BY <2>3, <2>4, <2>5
<1> HIDE DEF v
<1>4. v.scene # NoScene =>
        /\ v.scene \in lookup.passes /\ ~lookup.more
        /\ \A t \in lookup.passes : Distance(v.scene, around) <= Distance(t, around)
  <2>1. CASE lookup.more \/ lookup.passes = {}
    BY <1>1, <1>3, <2>1 DEF Verdict
  <2>2. CASE ~lookup.more /\ lookup.passes # {}
    <3>1. v.scene = scene
      BY <1>3, <2>2 DEF Verdict
    <3> QED
      BY <1>1, <2>2, <3>1, NearestIsNearest
  <2> QED
    BY <1>1, <2>1, <2>2
<1>5. v.verdict = "no_acquisition" <=> ~lookup.more /\ lookup.passes = {}
  <2>1. CASE lookup.more \/ lookup.passes = {}
    BY <1>1, <1>3, <2>1 DEF Verdict
  <2>2. CASE ~lookup.more /\ lookup.passes # {}
    BY <1>3, <2>2 DEF Verdict
  <2> QED
    BY <1>1, <2>1, <2>2
<1>6. ASSUME v.verdict \in {"clear", "cloudy"}
      PROVE  /\ r \in [hidden : Nat, seen : Nat, nodata : Nat]
             /\ v.fractions = r /\ ~TooLittle(r)
             /\ v.verdict = "cloudy" <=> Hidden(r)
  <2>1. ~lookup.more /\ lookup.passes # {}
    BY <1>1, <1>3, <1>6 DEF Verdict
  <2>2. v.fractions = Fractions(r) /\ Fractions(r) # Failed /\ ~TooLittle(r)
    BY <1>3, <1>6, <2>1 DEF Verdict
  <2>3. Good /\ Fractions(r) = r
    BY <1>2, <2>2
  <2>4. v.verdict = "cloudy" <=> Hidden(r)
    BY <1>3, <2>1, <2>2, <2>3 DEF Verdict
  <2> QED
    BY <1>1, <2>2, <2>3, <2>4
<1>7. ASSUME v.verdict \in {"clear", "cloudy"}
      PROVE  /\ v.verdict = "clear" =>
                  10000 * v.fractions.seen >= (100 - Cloudy) * MinObserved * InArea(r)
             /\ v.verdict = "cloudy" =>
                  10000 * v.fractions.hidden > Cloudy * MinObserved * InArea(r)
  <2>1. /\ r.seen \in Nat /\ r.hidden \in Nat /\ Valid(r) \in Nat /\ InArea(r) \in Nat
        /\ 100 * Valid(r) >= MinObserved * InArea(r)
        /\ Hidden(r) <=> 100 * r.hidden > Cloudy * Valid(r)
    <3>1. r.seen \in Nat /\ r.hidden \in Nat /\ r.nodata \in Nat
      BY <1>6, <1>7
    <3>2. Valid(r) \in Nat /\ InArea(r) \in Nat
      BY <3>1 DEF Valid, InArea
    <3>3. MinObserved * InArea(r) \in Int /\ 100 * Valid(r) \in Int
      BY <1>1, <3>2
    <3>4. ~(100 * Valid(r) < MinObserved * InArea(r))
      BY <1>6, <1>7 DEF TooLittle
    <3> QED
      BY <3>1, <3>2, <3>3, <3>4 DEF Hidden
  <2>2. ~Hidden(r) => 100 * r.seen >= (100 - Cloudy) * Valid(r)
    <3>0. Cloudy * Valid(r) \in Int /\ 100 * r.hidden \in Int
      BY <1>1, <2>1
    <3> SUFFICES ASSUME 100 * r.hidden <= Cloudy * Valid(r)
                 PROVE  100 * r.seen >= (100 - Cloudy) * Valid(r)
      BY <2>1, <3>0
    <3>1. (100 - Cloudy) * Valid(r) = 100 * Valid(r) - Cloudy * Valid(r)
      BY <1>1, <2>1
    <3>2. 100 * Valid(r) = 100 * r.hidden + 100 * r.seen /\ Cloudy * Valid(r) \in Nat
      BY <1>1, <2>1, <3>0 DEF Valid
    <3> QED
      BY <2>1, <3>1, <3>2
  <2>3. 100 - Cloudy \in 0 .. 100
    BY <1>1
  <2>4. /\ ~Hidden(r) => 10000 * r.seen >= (100 - Cloudy) * MinObserved * InArea(r)
        /\ Hidden(r) => 10000 * r.hidden > Cloudy * MinObserved * InArea(r)
    <3> DEFINE c == 100 - Cloudy  valid == Valid(r)  area == InArea(r)  s == r.seen  h == r.hidden
    <3>3. /\ c \in 0 .. 100 /\ Cloudy \in 0 .. 100 /\ MinObserved \in 0 .. 100
          /\ valid \in Nat /\ area \in Nat /\ s \in Nat /\ h \in Nat
          /\ 100 * valid >= MinObserved * area
      BY <1>1, <2>1, <2>3
    <3>4. /\ Hidden(r) => 100 * h > Cloudy * valid
          /\ ~Hidden(r) => 100 * s >= c * valid
      BY <2>1, <2>2
    <3> HIDE DEF c, valid, area, s, h, r
    <3>5. /\ Times(c, MinObserved, area) <= Times(100, c, valid)
          /\ Times(Cloudy, MinObserved, area) <= Times(100, Cloudy, valid)
      BY <3>3, Shares
    <3>1. ~Hidden(r) => 10000 * s >= c * MinObserved * area
      <4>1. /\ c * valid \in Int /\ c * MinObserved * area \in Int
            /\ c * MinObserved * area <= 100 * (c * valid)
        BY <3>3, <3>5 DEF Times
      <4> DEFINE p == c * valid  q == c * MinObserved * area
      <4>2. p \in Int /\ q \in Int /\ q <= 100 * p /\ (~Hidden(r) => 100 * s >= p)
        BY <3>4, <4>1
      <4> HIDE DEF p, q
      <4>3. ~Hidden(r) => 10000 * s >= q
        BY <3>3, <4>2
      <4> QED
        BY <4>3 DEF q
    <3>2. Hidden(r) => 10000 * h > Cloudy * MinObserved * area
      <4>1. /\ Cloudy * valid \in Int /\ Cloudy * MinObserved * area \in Int
            /\ Cloudy * MinObserved * area <= 100 * (Cloudy * valid)
        BY <3>3, <3>5 DEF Times
      <4> DEFINE p == Cloudy * valid  q == Cloudy * MinObserved * area
      <4>2. p \in Int /\ q \in Int /\ q <= 100 * p /\ (Hidden(r) => 100 * h > p)
        BY <3>4, <4>1
      <4> HIDE DEF p, q
      <4>3. Hidden(r) => 10000 * h > q
        BY <3>3, <4>2
      <4> QED
        BY <4>3 DEF q
    <3> QED
      BY <3>1, <3>2 DEF c, area, s, h
  <2> QED
    BY <1>6, <1>7, <2>4
<1>8. j.optical[1] = lookup /\ j.optical[2] = v
  BY DEF v
<1> QED
  BY <1>4, <1>5, <1>7, <1>8 DEF VerdictIsRight

-----------------------------------------------------------------------------
(* What a request has found, picked and rendered so far.                   *)

Busy == {"grid", "token", "search", "pick", "render", "optical", "store_before"}
Picked == {"render", "optical", "store_before"}

\* What a complete search of one side answers.
Sought(j, side) ==
  IF j.request.event THEN {x \in {PinnedRun[side]} : x.track # NoTrack}
  ELSE Acquisitions(Within(j.catalogue, Windows(j.request)[side]))

PairsOf(j) ==
  IF j.request.event
    THEN {p \in j.seen["before"] \X j.seen["after"] : p[1].at < p[2].at}
    ELSE Closest(Eligible(j.seen["before"], j.seen["after"]))

Fields == {"request", "catalogue", "grid", "side", "pages", "seen", "pair", "optical", "raster"}

IsJob(j) ==
  /\ DOMAIN j = Fields /\ DOMAIN j.seen = Sides /\ DOMAIN j.raster = Sides /\ j.side \in Sides
  /\ \E case \in Cases :
       j.request = case.request /\ j.catalogue = case.catalogue /\ j.grid = case.grid

\* Nothing is found that was not sought, and a side that is done is complete.
SearchInv(j, p) ==
  /\ \A side \in Sides : j.seen[side] \subseteq Sought(j, side)
  /\ p = "search" /\ j.side = "after" => j.seen["before"] = Sought(j, "before")
  /\ p \in {"pick"} \cup Picked => \A side \in Sides : j.seen[side] = Sought(j, side)

\* The raster of a date is that of the first n tiles.
Rendered(j, side, n) ==
  LET r == j.raster[side]
      id == j.pair[IF side = "before" THEN 1 ELSE 2].id
  IN /\ r.tiles = n
     /\ r.pixels = FirstTiles(j.grid, n)
     /\ r.copied = Cardinality(FirstTiles(j.grid, n))
     /\ n = 0 => r.sources = {}
     /\ j.request.event /\ n # 0 => r.sources = {id}

\* One date is rendered after the other.
RasterInv(j, p) ==
  /\ p \in {"grid", "token", "search", "pick"} => \A side \in Sides : Rendered(j, side, 0)
  /\ p = "render" =>
       /\ \E n \in 0 .. TileCount(j.grid) - 1 : Rendered(j, j.side, n)
       /\ IF j.side = "before" THEN Rendered(j, "after", 0)
                               ELSE Rendered(j, "before", TileCount(j.grid))
  /\ p \in {"optical", "store_before"} =>
       \A side \in Sides : Rendered(j, side, TileCount(j.grid))

JobInv(j, p) ==
  p \in Busy =>
    /\ IsJob(j) /\ SearchInv(j, p) /\ RasterInv(j, p)
    /\ p \notin {"search", "render"} => j.side = "before"
    /\ p \in Picked => j.pair \in PairsOf(j)
    /\ p = "store_before" =>
         \E lookup \in Lookups :
           j.optical = <<lookup, OpticalVerdict(lookup, j.pair[2].at)>>

JobsInv == job = [f \in Fetches |-> job[f]] /\ \A f \in Fetches : JobInv(job[f], pc[f])

\* A request begins with nothing.
LEMMA NewJob ==
  ASSUME NEW case \in Cases
  PROVE  JobInv(Job(case), "grid")
<1> DEFINE j == Job(case)
<1>1. /\ DOMAIN j = Fields
      /\ j.request = case.request /\ j.catalogue = case.catalogue /\ j.grid = case.grid
      /\ j.side = "before" /\ j.seen = [side \in Sides |-> {}]
      /\ j.raster = [side \in Sides |-> NoRaster]
  BY DEF Job, Fields
<1> HIDE DEF j
<1>2. case.grid \in Grids
  BY CasesAssumption DEF Grids
<1>3. IsJob(j)
  BY <1>1 DEF IsJob, Sides
<1>4. SearchInv(j, "grid")
  BY <1>1 DEF SearchInv, Picked
<1>5. \A side \in Sides : Rendered(j, side, 0)
  BY <1>1, <1>2, AllTiles DEF Rendered, NoRaster
<1> QED
  BY <1>1, <1>3, <1>4, <1>5 DEF JobInv, RasterInv, Picked, j

\* The stages before the search.
LEMMA Onward ==
  ASSUME NEW j, NEW p, NEW q, JobInv(j, p), <<p, q>> \in {<<"grid", "token">>, <<"token", "search">>}
  PROVE  JobInv(j, q)
<1>1. CASE p = "grid" /\ q = "token"
  BY <1>1 DEF JobInv, SearchInv, RasterInv, Busy, Picked
<1>2. CASE p = "token" /\ q = "search"
  BY <1>2 DEF JobInv, SearchInv, RasterInv, Busy, Picked
<1> QED
  BY <1>1, <1>2

\* A search of one side has found more of it, or all.
LEMMA Found ==
  ASSUME NEW j, NEW k, JobInv(j, "search"),
         DOMAIN k = Fields, DOMAIN k.seen = Sides, k.side \in Sides,
         k.request = j.request, k.catalogue = j.catalogue, k.grid = j.grid,
         k.raster = j.raster,
         \A side \in Sides : side # j.side => k.seen[side] = j.seen[side],
         k.seen[j.side] \subseteq Sought(j, j.side)
  PROVE  /\ k.side = j.side => JobInv(k, "search")
         /\ k.seen[j.side] = Sought(j, j.side) =>
              /\ j.side = "before" /\ k.side = "after" => JobInv(k, "search")
              /\ j.side = "after" /\ k.side = "before" => JobInv(k, "pick")
<1>1. /\ IsJob(j) /\ SearchInv(j, "search") /\ \A side \in Sides : Rendered(j, side, 0)
  BY DEF JobInv, RasterInv, Busy
<1>2. IsJob(k)
  BY <1>1 DEF IsJob
<1>3. \A side \in Sides : Sought(k, side) = Sought(j, side)
  BY DEF Sought
<1>4. \A side \in Sides : k.seen[side] \subseteq Sought(k, side)
  BY <1>1, <1>3 DEF SearchInv
<1>5. \A side \in Sides : Rendered(k, side, 0)
  BY <1>1 DEF Rendered
<1>6. ASSUME k.side = j.side PROVE JobInv(k, "search")
  <2>1. SearchInv(k, "search")
    BY <1>1, <1>3, <1>4, <1>6 DEF SearchInv, Picked, Sides
  <2> QED
    BY <1>2, <1>5, <2>1 DEF JobInv, RasterInv, Picked
<1>7. ASSUME k.seen[j.side] = Sought(j, j.side), j.side = "before", k.side = "after"
      PROVE  JobInv(k, "search")
  <2>1. SearchInv(k, "search")
    BY <1>3, <1>4, <1>7 DEF SearchInv, Picked, Sides
  <2> QED
    BY <1>2, <1>5, <2>1 DEF JobInv, RasterInv, Picked
<1>8. ASSUME k.seen[j.side] = Sought(j, j.side), j.side = "after", k.side = "before"
      PROVE  JobInv(k, "pick")
  <2>1. SearchInv(k, "pick")
    BY <1>1, <1>3, <1>4, <1>8 DEF SearchInv, Sides
  <2> QED
    BY <1>2, <1>5, <1>8, <2>1 DEF JobInv, RasterInv, Picked
<1> QED
  BY <1>6, <1>7, <1>8

\* A pair is picked of what the complete searches found.
LEMMA PairPicked ==
  ASSUME NEW j, JobInv(j, "pick"), NEW pair \in PairsOf(j)
  PROVE  JobInv([j EXCEPT !.pair = pair], "render")
<1> DEFINE k == [j EXCEPT !.pair = pair]
<1>1. /\ IsJob(j) /\ SearchInv(j, "pick") /\ j.side = "before"
      /\ \A side \in Sides : Rendered(j, side, 0)
  BY DEF JobInv, RasterInv, Busy
<1>2. /\ DOMAIN k = Fields /\ k.request = j.request /\ k.catalogue = j.catalogue
      /\ k.grid = j.grid /\ k.side = j.side /\ k.seen = j.seen /\ k.raster = j.raster
      /\ k.pair = pair
  BY <1>1 DEF IsJob, Fields
<1> HIDE DEF k
<1>3. IsJob(k)
  BY <1>1, <1>2 DEF IsJob
<1>4. SearchInv(k, "render")
  BY <1>1, <1>2 DEF SearchInv, Sought
<1>5. k.pair \in PairsOf(k)
  BY <1>2 DEF PairsOf
<1>6. 0 \in 0 .. TileCount(k.grid) - 1
  <2>1. k.grid \in Grids
    BY <1>3, CasesAssumption DEF IsJob, Grids
  <2> QED
    BY <2>1, AllTiles
<1>7. \A side \in Sides : Rendered(k, side, 0)
  BY <1>1, <1>2 DEF Rendered
<1>8. RasterInv(k, "render")
  BY <1>1, <1>2, <1>6, <1>7 DEF RasterInv, Sides
<1> QED
  BY <1>3, <1>4, <1>5, <1>8 DEF JobInv, k

\* What a catalogued event's tile may name.
LEMMA OneSource ==
  ASSUME NEW product \in Products, NEW products \in UsableSources[product][TRUE]
  PROVE  products = {product}
<1>1. UsableSources[product][TRUE]
        = {r.products : r \in {x \in Replies(product) : Usable(x, TRUE, product)}}
  BY DEF UsableSources
<1>2. PICK r \in Replies(product) : Usable(r, TRUE, product) /\ products = r.products
  BY <1>1
<1> QED
  BY <1>2 DEF Usable, Traced

\* The pair of an event is that of its run.
LEMMA EventPair ==
  ASSUME NEW j, NEW p \in Picked, JobInv(j, p), j.request.event
  PROVE  /\ j.pair = <<PinnedRun["before"], PinnedRun["after"]>>
         /\ PinnedRun["before"].at < PinnedRun["after"].at
         /\ \A side \in Sides : PinnedRun[side].track # NoTrack
<1>1. j.pair \in PairsOf(j) /\ SearchInv(j, p)
  BY DEF JobInv, Picked, Busy
<1>2. \A side \in Sides : j.seen[side] = {x \in {PinnedRun[side]} : x.track # NoTrack}
  BY <1>1 DEF SearchInv, Sought
<1>3. j.pair \in {q \in j.seen["before"] \X j.seen["after"] : q[1].at < q[2].at}
  BY <1>1 DEF PairsOf
<1>4. PICK b \in j.seen["before"], a \in j.seen["after"] : j.pair = <<b, a>> /\ b.at < a.at
  BY <1>3
<1>5. /\ b = PinnedRun["before"] /\ b.track # NoTrack
      /\ a = PinnedRun["after"] /\ a.track # NoTrack
  BY <1>2 DEF Sides
<1> QED
  BY <1>4, <1>5 DEF Sides

\* A tile is copied, and perhaps it was the last of its date.
LEMMA TileCopied ==
  ASSUME NEW j, JobInv(j, "render"), NEW products, NEW k,
         products \in UsableSources[Product(j)][j.request.event],
         DOMAIN k = Fields, DOMAIN k.raster = Sides, k.side \in Sides,
         k.request = j.request, k.catalogue = j.catalogue, k.grid = j.grid,
         k.seen = j.seen, k.pair = j.pair,
         \A side \in Sides : side # j.side => k.raster[side] = j.raster[side],
         LET r == j.raster[j.side]
         IN  k.raster[j.side] = Copied(r, Tile(j.grid, r.tiles), products)
  PROVE  LET last == k.raster[j.side].tiles = TileCount(j.grid)
         IN /\ ~last /\ k.side = j.side => JobInv(k, "render")
            /\ last /\ j.side = "before" /\ k.side = "after" => JobInv(k, "render")
            /\ last /\ j.side = "after" /\ k.side = "before" => JobInv(k, "optical")
<1> DEFINE T == TileCount(j.grid)
<1>1. /\ IsJob(j) /\ SearchInv(j, "render") /\ j.pair \in PairsOf(j)
      /\ IF j.side = "before" THEN Rendered(j, "after", 0) ELSE Rendered(j, "before", T)
      /\ j.side \in Sides
  BY DEF JobInv, RasterInv, Busy, Picked, IsJob
<1>2. j.grid \in Grids /\ j.request.event \in BOOLEAN
  BY <1>1, CasesAssumption DEF IsJob, Grids
<1>3. T \in Nat \ {0}
  BY <1>2, AllTiles
<1>4. PICK n \in 0 .. T - 1 : Rendered(j, j.side, n)
  BY DEF JobInv, RasterInv, Busy
<1>5. j.request.event => products = {Product(j)}
  <2> SUFFICES ASSUME j.request.event PROVE products = {Product(j)}
    OBVIOUS
  <2>1. j.request.event = TRUE
    BY <1>2
  <2>2. Product(j) = PinnedRun[j.side].id /\ Product(j) \in Products
    BY <1>1, EventPair, CasesAssumption DEF Product, Picked, Sides
  <2> QED
    BY <2>1, <2>2, OneSource
<1>6. Rendered(k, j.side, n + 1)
  <2> DEFINE r == j.raster[j.side]  tile == Tile(j.grid, n)
  <2>1. /\ r.tiles = n /\ r.pixels = FirstTiles(j.grid, n)
        /\ r.copied = Cardinality(FirstTiles(j.grid, n))
        /\ n = 0 => r.sources = {}
        /\ j.request.event /\ n # 0 => r.sources = {Product(j)}
    BY <1>4 DEF Rendered, Product
  <2>2. k.raster[j.side] = [tiles |-> n + 1, copied |-> r.copied + Cardinality(Pixels(tile)),
                            pixels |-> r.pixels \cup Pixels(tile),
                            sources |-> r.sources \cup products]
    BY <2>1 DEF Copied
  <2>3. /\ FirstTiles(j.grid, n + 1) = FirstTiles(j.grid, n) \cup Pixels(tile)
        /\ Cardinality(FirstTiles(j.grid, n + 1))
             = Cardinality(FirstTiles(j.grid, n)) + Cardinality(Pixels(tile))
    BY <1>2, NextTile
  <2>4. Product(j) = k.pair[IF j.side = "before" THEN 1 ELSE 2].id
    BY DEF Product
  <2>5. j.request.event => r.sources \cup products = {Product(j)}
    BY <1>5, <2>1
  <2>6. n \in Int /\ n + 1 # 0
    BY <1>3
  <2> HIDE DEF r, tile
  <2>7. /\ k.raster[j.side].tiles = n + 1
        /\ k.raster[j.side].copied = r.copied + Cardinality(Pixels(tile))
        /\ k.raster[j.side].pixels = r.pixels \cup Pixels(tile)
        /\ k.raster[j.side].sources = r.sources \cup products
    BY <2>2, <2>6
  <2> QED
    BY <2>1, <2>3, <2>4, <2>5, <2>6, <2>7 DEF Rendered
<1>7. k.raster[j.side].tiles = n + 1
  BY <1>6 DEF Rendered
<1>8. IF j.side = "before" THEN Rendered(k, "after", 0) ELSE Rendered(k, "before", T)
  BY <1>1 DEF Rendered, Sides
<1>9. IsJob(k) /\ k.pair \in PairsOf(k)
  BY <1>1 DEF IsJob, PairsOf
<1>10. SearchInv(k, "render") /\ SearchInv(k, "optical")
  BY <1>1 DEF SearchInv, Sought, Picked
<1> HIDE DEF T
<1>11. ASSUME n + 1 # T, k.side = j.side PROVE JobInv(k, "render")
  <2>1. n + 1 \in 0 .. T - 1
    BY <1>3, <1>11
  <2>2. RasterInv(k, "render")
    BY <1>6, <1>8, <1>11, <2>1 DEF RasterInv, T
  <2> QED
    BY <1>9, <1>10, <2>2 DEF JobInv
<1>12. ASSUME n + 1 = T, j.side = "before", k.side = "after" PROVE JobInv(k, "render")
  <2>1. 0 \in 0 .. T - 1
    BY <1>3
  <2>2. RasterInv(k, "render")
    BY <1>6, <1>8, <1>12, <2>1 DEF RasterInv, T
  <2> QED
    BY <1>9, <1>10, <2>2 DEF JobInv
<1>13. ASSUME n + 1 = T, j.side = "after", k.side = "before" PROVE JobInv(k, "optical")
  <2>1. RasterInv(k, "optical")
    BY <1>6, <1>8, <1>13 DEF RasterInv, T, Sides
  <2> QED
    BY <1>9, <1>10, <1>13, <2>1 DEF JobInv
<1> QED
  BY <1>7, <1>11, <1>12, <1>13 DEF T

\* The verdict is added.
LEMMA VerdictAdded ==
  ASSUME NEW j, JobInv(j, "optical"), NEW lookup \in Lookups
  PROVE  JobInv([j EXCEPT !.optical = <<lookup, OpticalVerdict(lookup, j.pair[2].at)>>],
                "store_before")
<1> DEFINE k == [j EXCEPT !.optical = <<lookup, OpticalVerdict(lookup, j.pair[2].at)>>]
<1>1. /\ IsJob(j) /\ SearchInv(j, "optical") /\ j.side = "before" /\ j.pair \in PairsOf(j)
      /\ \A side \in Sides : Rendered(j, side, TileCount(j.grid))
  BY DEF JobInv, RasterInv, Busy, Picked
<1>2. /\ DOMAIN k = Fields /\ k.request = j.request /\ k.catalogue = j.catalogue
      /\ k.grid = j.grid /\ k.side = j.side /\ k.seen = j.seen /\ k.raster = j.raster
      /\ k.pair = j.pair /\ k.optical = <<lookup, OpticalVerdict(lookup, j.pair[2].at)>>
  BY <1>1 DEF IsJob, Fields
<1> HIDE DEF k
<1>3. IsJob(k) /\ k.pair \in PairsOf(k)
  BY <1>1, <1>2 DEF IsJob, PairsOf
<1>4. SearchInv(k, "store_before")
  BY <1>1, <1>2 DEF SearchInv, Sought, Picked
<1>5. RasterInv(k, "store_before")
  BY <1>1, <1>2 DEF RasterInv, Rendered
<1> QED
  BY <1>1, <1>2, <1>3, <1>4, <1>5 DEF JobInv, k

\* What is then stored is sound.
LEMMA SoundPair ==
  ASSUME NEW j, JobInv(j, "store_before")
  PROVE  /\ j.pair[1].at < j.pair[2].at
         /\ j.pair[1].track = j.pair[2].track /\ j.pair[1].track # NoTrack
         /\ IF j.request.event
              THEN j.pair = <<PinnedRun["before"], PinnedRun["after"]>>
              ELSE \A q \in Offered(j) : Closer(j.pair, q)
         /\ VerdictIsRight(j)
         /\ \A side \in Sides :
              LET r == j.raster[side]
                  id == j.pair[IF side = "before" THEN 1 ELSE 2].id
              IN /\ r.pixels = GridPixels(j.grid)
                 /\ r.copied = j.grid.height * j.grid.width
                 /\ j.request.event => r.sources = {id}
<1>1. /\ IsJob(j) /\ SearchInv(j, "store_before") /\ j.pair \in PairsOf(j)
      /\ \A side \in Sides : Rendered(j, side, TileCount(j.grid))
      /\ \E lookup \in Lookups : j.optical = <<lookup, OpticalVerdict(lookup, j.pair[2].at)>>
  BY DEF JobInv, RasterInv, Busy, Picked
<1>2. PICK case \in Cases :
        j.request = case.request /\ j.catalogue = case.catalogue /\ j.grid = case.grid
  BY <1>1 DEF IsJob
<1>3. /\ case.request.event \in BOOLEAN /\ case.grid \in Grids
      /\ \A x \in case.catalogue : x.at \in Int
      /\ \A side \in Sides : PinnedRun[side].at \in Int
      /\ PinnedRun["before"].track = PinnedRun["after"].track
  BY CasesAssumption DEF Grids
<1>4. \A side \in Sides : j.seen[side] = Sought(j, side)
  BY <1>1 DEF SearchInv, Picked
<1>5. /\ j.pair[1].at < j.pair[2].at /\ j.pair[2].at \in Int
      /\ j.pair[1].track = j.pair[2].track /\ j.pair[1].track # NoTrack
      /\ IF j.request.event
           THEN j.pair = <<PinnedRun["before"], PinnedRun["after"]>>
           ELSE \A q \in Offered(j) : Closer(j.pair, q)
  <2>1. CASE j.request.event
    BY <1>3, <2>1, EventPair DEF Picked, Sides
  <2>2. CASE ~j.request.event
    <3>1. \A side \in Sides :
            j.seen[side] = Acquisitions(Within(j.catalogue, Windows(j.request)[side]))
      BY <1>4, <2>2 DEF Sought
    <3>2. j.pair \in Closest(Eligible(j.seen["before"], j.seen["after"]))
      BY <1>1, <2>2 DEF PairsOf
    <3>3. Offered(j) = Eligible(j.seen["before"], j.seen["after"])
      BY <3>1 DEF Offered, Sides
    <3>4. j.pair \in Offered(j) /\ \A q \in Offered(j) : Closer(j.pair, q)
      BY <3>2, <3>3 DEF Closest
    <3>5. /\ j.pair \in j.seen["before"] \X j.seen["after"]
          /\ j.pair[1].track # NoTrack /\ j.pair[1].track = j.pair[2].track
          /\ j.pair[1].at < j.pair[2].at
      BY <3>3, <3>4 DEF Eligible
    <3>6. j.pair[2] \in Acquisitions(Within(j.catalogue, Windows(j.request)["after"]))
      BY <3>1, <3>5 DEF Sides
    <3>7. j.pair[2].at \in Int
      BY <1>2, <1>3, <3>6 DEF Acquisitions, Within, Acquisition
    <3> QED
      BY <2>2, <3>4, <3>5, <3>7
  <2> QED
    BY <2>1, <2>2
<1>6. VerdictIsRight(j)
  BY <1>1, <1>5, Verdicts
<1>7. ASSUME NEW side \in Sides
      PROVE  LET r == j.raster[side]
                 id == j.pair[IF side = "before" THEN 1 ELSE 2].id
             IN /\ r.pixels = GridPixels(j.grid)
                /\ r.copied = j.grid.height * j.grid.width
                /\ j.request.event => r.sources = {id}
  <2>1. /\ FirstTiles(j.grid, TileCount(j.grid)) = GridPixels(j.grid)
        /\ TileCount(j.grid) # 0
        /\ Cardinality(GridPixels(j.grid)) = j.grid.height * j.grid.width
    BY <1>2, <1>3, AllTiles, GridIsFinite
  <2> QED
    BY <1>1, <2>1 DEF Rendered
<1> QED
  BY <1>5, <1>6, <1>7

\* A step that changes the job and the stage of one request at most.
LEMMA OneJob ==
  ASSUME JobsInv, RequestTypes, NEW f \in Fetches, NEW k, NEW p,
         job' = [job EXCEPT ![f] = k], pc' = [pc EXCEPT ![f] = p], JobInv(k, p)
  PROVE  JobsInv'
<1>1. /\ job' = [g \in Fetches |-> job'[g]] /\ job'[f] = k /\ pc'[f] = p
      /\ \A g \in Fetches \ {f} : job'[g] = job[g] /\ pc'[g] = pc[g]
  BY DEF JobsInv, RequestTypes
<1> QED
  BY <1>1 DEF JobsInv

\* One that leaves the stages of the fetch, whatever becomes of its job.
LEMMA NoJobLeft ==
  ASSUME JobsInv, RequestTypes, NEW f \in Fetches, NEW p, p \notin Busy,
         pc' = [pc EXCEPT ![f] = p], job' = job \/ job' = [job EXCEPT ![f] = NoJob]
  PROVE  JobsInv'
<1>1. /\ job' = [g \in Fetches |-> job'[g]] /\ pc'[f] = p
      /\ \A g \in Fetches \ {f} : job'[g] = job[g] /\ pc'[g] = pc[g]
  BY DEF JobsInv, RequestTypes
<1>2. JobInv(job'[f], pc'[f])
  BY <1>1 DEF JobInv
<1> QED
  BY <1>1, <1>2 DEF JobsInv

\* A stage that stays is one that is assigned again.
LEMMA SameStage ==
  ASSUME RequestTypes, NEW f \in Fetches, UNCHANGED pc
  PROVE  pc' = [pc EXCEPT ![f] = pc[f]]
  BY DEF RequestTypes

\* The stages up to the token.
LEMMA EarlyJobs ==
  ASSUME JobsInv, RequestTypes, NEW f \in Fetches, Enter(f) \/ Grid(f) \/ AccessToken(f)
  PROVE  JobsInv'
<1>1. CASE Enter(f)
  <2>1. PICK case \in Cases : job' = [job EXCEPT ![f] = Job(case)]
    BY <1>1 DEF Enter
  <2> QED
    BY <1>1, <2>1, NewJob, OneJob DEF Enter, Goto
<1>2. ASSUME NEW q, UNCHANGED job, pc' = [pc EXCEPT ![f] = q],
             <<pc[f], q>> \in {<<"grid", "token">>, <<"token", "search">>}
      PROVE  JobsInv'
  <2>1. JobInv(job[f], pc[f]) /\ job' = [job EXCEPT ![f] = job[f]]
    BY <1>2 DEF JobsInv
  <2>2. JobInv(job[f], q)
    BY <1>2, <2>1, Onward
  <2> QED
    BY <1>2, <2>1, <2>2, OneJob
<1>3. CASE Grid(f)
  BY <1>2, <1>3 DEF Grid, Goto
<1>4. CASE AccessToken(f)
  BY <1>2, <1>4 DEF AccessToken, Goto
<1> QED
  BY <1>1, <1>3, <1>4

\* What NextSide makes of a search ...
LEMMA SideSearched ==
  ASSUME JobsInv, RequestTypes, NEW f \in Fetches, pc[f] = "search", NEW k,
         NextSide(f, k, "pick"),
         DOMAIN k = Fields, DOMAIN k.seen = Sides, k.side = job[f].side,
         k.request = job[f].request, k.catalogue = job[f].catalogue, k.grid = job[f].grid,
         k.raster = job[f].raster,
         \A side \in Sides : side # k.side => k.seen[side] = job[f].seen[side],
         k.seen[k.side] = Sought(job[f], k.side)
  PROVE  JobsInv'
<1>1. JobInv(job[f], "search") /\ k.side \in Sides
  BY DEF JobsInv, JobInv, Busy, IsJob
<1> DEFINE m(side) == [k EXCEPT !.side = side]
<1>2. ASSUME NEW side \in Sides
      PROVE  /\ DOMAIN m(side) = Fields /\ m(side).side = side /\ m(side).seen = k.seen
             /\ m(side).request = k.request /\ m(side).catalogue = k.catalogue
             /\ m(side).grid = k.grid /\ m(side).raster = k.raster
  BY DEF Fields
<1>3. CASE k.side = "before"
  <2>1. job' = [job EXCEPT ![f] = m("after")] /\ UNCHANGED pc
    BY <1>3 DEF NextSide
  <2> HIDE DEF m
  <2>2. JobInv(m("after"), "search")
    BY <1>1, <1>2, <1>3, Found DEF Sides
  <2> QED
    BY <2>1, <2>2, SameStage, OneJob
<1>4. CASE k.side = "after"
  <2>1. job' = [job EXCEPT ![f] = m("before")] /\ pc' = [pc EXCEPT ![f] = "pick"]
    BY <1>4 DEF NextSide, Goto
  <2> HIDE DEF m
  <2>2. JobInv(m("before"), "pick")
    BY <1>1, <1>2, <1>4, Found DEF Sides
  <2> QED
    BY <2>1, <2>2, OneJob
<1> QED
  BY <1>1, <1>3, <1>4 DEF Sides

\* ... and of a raster.
LEMMA SideRendered ==
  ASSUME JobsInv, RequestTypes, NEW f \in Fetches, pc[f] = "render", NEW k, NEW products,
         NextSide(f, k, "optical"),
         products \in UsableSources[Product(job[f])][job[f].request.event],
         DOMAIN k = Fields, DOMAIN k.raster = Sides, k.side = job[f].side,
         k.request = job[f].request, k.catalogue = job[f].catalogue, k.grid = job[f].grid,
         k.seen = job[f].seen, k.pair = job[f].pair,
         \A side \in Sides : side # k.side => k.raster[side] = job[f].raster[side],
         LET r == job[f].raster[k.side]
         IN  k.raster[k.side] = Copied(r, Tile(k.grid, r.tiles), products),
         k.raster[k.side].tiles = TileCount(k.grid)
  PROVE  JobsInv'
<1>1. JobInv(job[f], "render") /\ k.side \in Sides
  BY DEF JobsInv, JobInv, Busy, IsJob
<1> DEFINE m(side) == [k EXCEPT !.side = side]
<1>2. ASSUME NEW side \in Sides
      PROVE  /\ DOMAIN m(side) = Fields /\ m(side).side = side /\ m(side).seen = k.seen
             /\ m(side).request = k.request /\ m(side).catalogue = k.catalogue
             /\ m(side).grid = k.grid /\ m(side).raster = k.raster /\ m(side).pair = k.pair
  BY DEF Fields
<1>3. CASE k.side = "before"
  <2>1. job' = [job EXCEPT ![f] = m("after")] /\ UNCHANGED pc
    BY <1>3 DEF NextSide
  <2> HIDE DEF m
  <2>2. JobInv(m("after"), "render")
    BY <1>1, <1>2, <1>3, TileCopied DEF Sides
  <2> QED
    BY <2>1, <2>2, SameStage, OneJob
<1>4. CASE k.side = "after"
  <2>1. job' = [job EXCEPT ![f] = m("before")] /\ pc' = [pc EXCEPT ![f] = "optical"]
    BY <1>4 DEF NextSide, Goto
  <2> HIDE DEF m
  <2>2. JobInv(m("before"), "optical")
    BY <1>1, <1>2, <1>4, TileCopied DEF Sides
  <2> QED
    BY <2>1, <2>2, OneJob
<1> QED
  BY <1>1, <1>3, <1>4 DEF Sides

\* A page of a search by window.
LEMMA SearchJobs ==
  ASSUME JobsInv, RequestTypes, NEW f \in Fetches, Search(f)
  PROVE  JobsInv'
<1> DEFINE j == job[f]
<1>1. /\ pc[f] = "search" /\ ~j.request.event /\ JobInv(j, "search")
  BY DEF Search, Strict, JobsInv
<1>2. /\ IsJob(j) /\ j.side \in Sides /\ j.seen[j.side] \subseteq Sought(j, j.side)
      /\ Sought(j, j.side) = Acquisitions(Within(j.catalogue, Windows(j.request)[j.side]))
  BY <1>1 DEF JobInv, Busy, SearchInv, IsJob, Sought
<1> DEFINE k(page) == [j EXCEPT !.seen[j.side] = @ \cup Acquisitions(page), !.pages = @ + 1]
<1>3. PICK page \in SUBSET Unseen(j) :
        IF page = Unseen(j)
          THEN NextSide(f, [k(page) EXCEPT !.pages = 0], "pick")
          ELSE job' = [job EXCEPT ![f] = k(page)] /\ UNCHANGED pc
  BY DEF Search
<1> HIDE DEF j
<1>4. /\ DOMAIN k(page) = Fields /\ DOMAIN k(page).seen = Sides /\ k(page).side = j.side
      /\ k(page).request = j.request /\ k(page).catalogue = j.catalogue
      /\ k(page).grid = j.grid /\ k(page).raster = j.raster
      /\ k(page).seen[j.side] = j.seen[j.side] \cup Acquisitions(page)
      /\ \A side \in Sides : side # j.side => k(page).seen[side] = j.seen[side]
  BY <1>2 DEF IsJob, Fields
<1> DEFINE last == [k(page) EXCEPT !.pages = 0]
<1>5. /\ DOMAIN last = Fields /\ last.seen = k(page).seen /\ last.side = j.side
      /\ last.request = j.request /\ last.catalogue = j.catalogue
      /\ last.grid = j.grid /\ last.raster = j.raster
  BY <1>4 DEF Fields
<1> HIDE DEF k, last
<1>6. Acquisitions(page) \subseteq Sought(j, j.side)
  BY <1>2 DEF Unseen, Acquisitions
<1>7. CASE page = Unseen(j)
  <2>1. Sought(j, j.side) \subseteq j.seen[j.side] \cup Acquisitions(page)
    BY <1>2, <1>7 DEF Unseen, Acquisitions
  <2>2. last.seen[j.side] = Sought(j, j.side)
    BY <1>2, <1>4, <1>5, <1>6, <2>1
  <2>3. NextSide(f, last, "pick")
    BY <1>3, <1>7 DEF last
  <2> QED
    BY <1>1, <1>4, <1>5, <2>2, <2>3, SideSearched DEF j
<1>8. CASE page # Unseen(j)
  <2>1. JobInv(k(page), "search")
    BY <1>1, <1>2, <1>4, <1>6, Found
  <2> QED
    BY <1>1, <1>3, <1>8, <2>1, SameStage, OneJob
<1> QED
  BY <1>7, <1>8

\* The answer to a search by product id.
LEMMA SearchPinnedJobs ==
  ASSUME JobsInv, RequestTypes, NEW f \in Fetches, SearchPinned(f)
  PROVE  JobsInv'
<1> DEFINE j == job[f] side == j.side
           k(answer) == [j EXCEPT !.seen[side] = Acquisitions({answer[1]})]
<1>1. pc[f] = "search" /\ j.request.event /\ JobInv(j, "search")
  BY DEF SearchPinned, Strict, JobsInv
<1>2. IsJob(j) /\ side \in Sides
  BY <1>1 DEF JobInv, Busy, IsJob
<1>3. PICK answer \in Answers :
        IF PinnedAnswers(answer, side, Window(f)[side])
          THEN NextSide(f, k(answer), "pick")
          ELSE Raise(f, "cdse") /\ UNCHANGED job
  BY DEF SearchPinned
<1>4. CASE PinnedAnswers(answer, side, Window(f)[side])
  <2>1. Acquisition(answer[1]) = PinnedRun[side] /\ PinnedRun[side].track # NoTrack
    BY <1>4 DEF PinnedAnswers, IsPinned
  <2>2. Acquisitions({answer[1]}) = Sought(j, side)
    BY <1>1, <2>1 DEF Acquisitions, Sought
  <2> HIDE DEF j
  <2>3. /\ DOMAIN k(answer) = Fields /\ DOMAIN k(answer).seen = Sides /\ k(answer).side = side
        /\ k(answer).request = j.request /\ k(answer).catalogue = j.catalogue
        /\ k(answer).grid = j.grid /\ k(answer).raster = j.raster
        /\ k(answer).seen[side] = Acquisitions({answer[1]})
        /\ \A s \in Sides : s # side => k(answer).seen[s] = j.seen[s]
    BY <1>2 DEF IsJob, Fields
  <2> HIDE DEF k
  <2> QED
    BY <1>1, <1>3, <1>4, <2>2, <2>3, SideSearched DEF j
<1>5. CASE ~PinnedAnswers(answer, side, Window(f)[side])
  BY <1>3, <1>5, NoJobLeft DEF Raise, Goto, Busy
<1> QED
  BY <1>4, <1>5

\* The pair.
LEMMA PickJobs ==
  ASSUME JobsInv, RequestTypes, NEW f \in Fetches, Pick(f)
  PROVE  JobsInv'
<1>1. /\ pc[f] = "pick" /\ JobInv(job[f], "pick") /\ Pairs(f) = PairsOf(job[f])
  BY DEF Pick, JobsInv, Pairs, PairsOf, Strict
<1>2. CASE UNCHANGED raised /\ pc' = [pc EXCEPT ![f] = "render"]
           /\ \E p \in Pairs(f) : job' = [job EXCEPT ![f].pair = p]
  <2>1. PICK p \in PairsOf(job[f]) : job' = [job EXCEPT ![f] = [job[f] EXCEPT !.pair = p]]
    BY <1>1, <1>2
  <2> QED
    BY <1>1, <1>2, <2>1, PairPicked, OneJob
<1>3. CASE Raise(f, "cdse") /\ UNCHANGED job
  BY <1>3, NoJobLeft DEF Raise, Goto, Busy
<1> QED
  BY <1>2, <1>3 DEF Pick, Goto

\* A tile.
LEMMA RenderJobs ==
  ASSUME JobsInv, RequestTypes, NEW f \in Fetches, RenderTile(f)
  PROVE  JobsInv'
<1> DEFINE j == job[f]
           k(products) == [j EXCEPT !.raster[j.side] = Copied(@, Tile(j.grid, @.tiles), products)]
<1>1. pc[f] = "render" /\ JobInv(j, "render")
  BY DEF RenderTile, JobsInv
<1>2. IsJob(j) /\ j.side \in Sides
  BY <1>1 DEF JobInv, Busy, IsJob
<1>3. PICK products \in UsableSources[Product(j)][j.request.event] :
        IF k(products).raster[k(products).side].tiles = TileCount(k(products).grid)
          THEN NextSide(f, k(products), "optical")
          ELSE job' = [job EXCEPT ![f] = k(products)] /\ UNCHANGED pc
  BY DEF RenderTile, Strict
<1> HIDE DEF j
<1>4. /\ DOMAIN k(products) = Fields /\ DOMAIN k(products).raster = Sides
      /\ k(products).side = j.side
      /\ k(products).request = j.request /\ k(products).catalogue = j.catalogue
      /\ k(products).grid = j.grid /\ k(products).seen = j.seen /\ k(products).pair = j.pair
      /\ k(products).raster[j.side]
           = Copied(j.raster[j.side], Tile(j.grid, j.raster[j.side].tiles), products)
      /\ \A side \in Sides : side # j.side => k(products).raster[side] = j.raster[side]
  BY <1>2 DEF IsJob, Fields
<1> HIDE DEF k
<1>5. CASE k(products).raster[j.side].tiles = TileCount(j.grid)
  <2>1. NextSide(f, k(products), "optical")
    BY <1>3, <1>4, <1>5
  <2> QED
    BY <1>1, <1>4, <1>5, <2>1, SideRendered DEF j
<1>6. CASE k(products).raster[j.side].tiles # TileCount(j.grid)
  <2>1. JobInv(k(products), "render")
    BY <1>1, <1>2, <1>4, <1>6, TileCopied
  <2>2. job' = [job EXCEPT ![f] = k(products)] /\ UNCHANGED pc
    BY <1>3, <1>4, <1>6
  <2> QED
    BY <1>1, <2>1, <2>2, SameStage, OneJob
<1> QED
  BY <1>5, <1>6

\* The verdict on the clouds.
LEMMA OpticalJobs ==
  ASSUME JobsInv, RequestTypes, NEW f \in Fetches, OpticalCheck(f)
  PROVE  JobsInv'
<1> DEFINE j == job[f]
<1>1. pc[f] = "optical" /\ JobInv(j, "optical")
  BY DEF OpticalCheck, JobsInv
<1>2. PICK lookup \in Lookups :
        IF Overflows(lookup, j.pair[2].at) THEN Raise(f, "os") /\ UNCHANGED job
        ELSE /\ job' = [job EXCEPT ![f].optical =
                          <<lookup, OpticalVerdict(lookup, j.pair[2].at)>>]
             /\ Goto(f, "store_before")
  BY DEF OpticalCheck
<1>3. CASE Overflows(lookup, j.pair[2].at)
  BY <1>2, <1>3, NoJobLeft DEF Raise, Goto, Busy
<1>4. CASE ~Overflows(lookup, j.pair[2].at)
  <2> DEFINE k == [j EXCEPT !.optical = <<lookup, OpticalVerdict(lookup, j.pair[2].at)>>]
  <2>1. job' = [job EXCEPT ![f] = k] /\ pc' = [pc EXCEPT ![f] = "store_before"]
    BY <1>2, <1>4 DEF Goto
  <2>2. JobInv(k, "store_before")
    BY <1>1, VerdictAdded
  <2> HIDE DEF k
  <2> QED
    BY <2>1, <2>2, OneJob
<1> QED
  BY <1>3, <1>4

\* Every other step forgets the job or leaves it where it is not looked at.
LEMMA OtherJobs ==
  ASSUME JobsInv, RequestTypes, NEW f \in Fetches,
         \/ Refuse(f) \/ Conflict(f) \/ GridFails(f) \/ CDSEFails(f) \/ StartIngest(f)
         \/ BeforeStored(f) \/ PairStored(f) \/ BeforeFails(f) \/ AfterFails(f) \/ Respond(f)
  PROVE  JobsInv'
<1>1. \E p : /\ p \notin Busy /\ pc' = [pc EXCEPT ![f] = p]
             /\ job' = job \/ job' = [job EXCEPT ![f] = NoJob]
  <2>1. CASE Refuse(f) \/ Conflict(f) \/ PairStored(f) \/ Respond(f)
    BY <2>1 DEF Refuse, Conflict, PairStored, Respond, Answer, Forget, Goto, Busy
  <2>2. CASE GridFails(f) \/ CDSEFails(f) \/ BeforeFails(f) \/ AfterFails(f)
    BY <2>2 DEF GridFails, CDSEFails, BeforeFails, AfterFails, Raise, Goto, Busy
  <2>3. CASE StartIngest(f) \/ BeforeStored(f)
    BY <2>3 DEF StartIngest, BeforeStored, Forget, Goto, Busy
  <2> QED
    BY <2>1, <2>2, <2>3
<1> QED
  BY <1>1, NoJobLeft

\* Every step.
LEMMA JobsPreserved == JobsInv /\ RequestTypes /\ [Next]_vars => JobsInv'
<1> SUFFICES ASSUME JobsInv, RequestTypes, [Next]_vars PROVE JobsInv'
  OBVIOUS
<1>1. ASSUME NEW f \in Fetches, Refuse(f) \/ Conflict(f) \/ Enter(f) PROVE JobsInv'
  BY <1>1, EarlyJobs, OtherJobs
<1>2. ASSUME NEW f \in Fetches, FetchStep(f) PROVE JobsInv'
  BY <1>2, EarlyJobs, SearchJobs, SearchPinnedJobs, PickJobs, RenderJobs, OpticalJobs, OtherJobs
     DEF FetchStep
<1>3. CASE Ingest
  BY <1>3 DEF Ingest, fetchVars, JobsInv
<1>4. CASE ProcessCrash
  <2>1. /\ pc' = [f \in Fetches |-> IF pc[f] \in Ended THEN pc[f] ELSE "dead"]
        /\ job' = [f \in Fetches |-> NoJob]
    BY <1>4 DEF ProcessCrash
  <2>2. \A f \in Fetches : pc'[f] \notin Busy
    BY <2>1 DEF Ended, Busy
  <2> QED
    BY <2>1, <2>2 DEF JobsInv, JobInv
<1>5. CASE UNCHANGED vars
  BY <1>5 DEF vars, fetchVars, JobsInv
<1> QED
  BY <1>1, <1>2, <1>3, <1>4, <1>5 DEF Next

\* Nobody has a job at first.
LEMMA JobsInitially == Init => JobsInv
<1> SUFFICES ASSUME Init PROVE JobsInv
  OBVIOUS
<1>1. job = [f \in Fetches |-> job[f]] /\ \A f \in Fetches : pc[f] = "idle"
  BY DEF Init
<1> QED
  BY <1>1 DEF JobsInv, JobInv, Busy

-----------------------------------------------------------------------------
\* However many requests come, one of them works, and it has the lock: no
\* exception, answer or death leaves it locked ("one fetch per process").
THEOREM OneAtATime == Spec => []OneFetch
<1>1. Inv => OneFetch
  BY DEF Inv
<1> QED
  BY <1>1, Invariance, PTL

\* "Nothing is stored unless both dates render": until then neither scene has
\* a file under its own name.
THEOREM NothingStoredEarly ==
  Spec => [](\A f \in Fetches : pc[f] \in Early => ~Stored(Before(f)) /\ ~Stored(After(f)))
<1>1. ASSUME Inv, NEW f \in Fetches, pc[f] \in Early
      PROVE  ~Stored(Before(f)) /\ ~Stored(After(f))
  <2>1. phase[Before(f)] = "idle" /\ phase[After(f)] = "idle"
    BY <1>1 DEF Inv, FetchInv, EarlyInv
  <2>2. \A s \in FetchScenes : phase[s] = "idle" => final[s]["manifest"] = "absent"
    BY <1>1 DEF Inv, Ingests!Inv, Ingests!SceneInv, Ingests!EndInv, Ingests!Empty, Ingests!Parts
  <2> QED
    BY <2>1, <2>2, TwoScenes DEF Stored, Store!Exists
<1>2. Inv => \A f \in Fetches : pc[f] \in Early => ~Stored(Before(f)) /\ ~Stored(After(f))
  BY <1>1
<1> QED
  BY <1>2, Invariance, PTL

\* The answer of every request is true of the store, for any failures of CDSE
\* and of either ingest, and stays so when the process dies: 201 for a pair,
\* and otherwise no after scene, a before scene only where the error names it,
\* and no blame of the client for what CDSE did.
THEOREM AnswersMatchPairs == Spec => []AnswerMatchesPair
<1>1. ASSUME Inv, NEW f \in Fetches, pc[f] = "answered"
      PROVE  /\ status[f] = 201 <=> Stored(Before(f)) /\ Stored(After(f))
             /\ status[f] # 201 => ~Stored(After(f))
             /\ status[f] # 201 /\ raised[f] # "os" => (Stored(Before(f)) <=> named[f])
             /\ status[f] = 422 => ~called[f] /\ ~Stored(Before(f))
  <2>1. EndInv(f) /\ Ingests!Inv
    BY <1>1 DEF Inv, FetchInv
  <2>2. ASSUME NEW s \in FetchScenes
        PROVE  /\ phase[s] = "answered" => Stored(s)
               /\ phase[s] \in {"idle", "raised"} => ~Stored(s)
    BY <2>1 DEF Stored, Store!Exists, Ingests!Inv, Ingests!SceneInv, Ingests!EndInv,
       Ingests!Empty, Ingests!Complete, Ingests!NoManifest, Ingests!Needed, Ingests!Parts
  <2>3. /\ phase[Before(f)] = "answered" => Stored(Before(f))
        /\ phase[Before(f)] \in {"idle", "raised"} => ~Stored(Before(f))
        /\ phase[After(f)] = "answered" => Stored(After(f))
        /\ phase[After(f)] \in {"idle", "raised"} => ~Stored(After(f))
    BY <2>2, TwoScenes
  <2> QED
    BY <1>1, <2>1, <2>3 DEF EndInv, FailureInv, Settled
<1>2. Inv => AnswerMatchesPair
  BY <1>1 DEF AnswerMatchesPair
<1> QED
  BY <1>2, Invariance, PTL

\* "Nothing is stored unless both dates render and pass source provenance
\* validation": for any catalogue, pages, grid, tile size, answers and clouds,
\* what is stored are two acquisitions of one track in order, the event's own
\* or the closest that the catalogue offers, each with every pixel of its grid
\* copied once, and with a verdict that its optical pass bears out.
THEOREM PairsAreSound == Spec => []PairIsSound
<1>1. ASSUME Inv, JobsInv PROVE PairIsSound
  <2>1. OneFetch /\ RequestTypes
    BY <1>1 DEF Inv
  <2>2. ASSUME NEW f \in Fetches, Working(f), ~Storing(f), pc[f] # "raising"
        PROVE  phase[Before(f)] = "idle" /\ phase[After(f)] = "idle"
    <3>1. pc[f] \in Early
      BY <2>1, <2>2 DEF RequestTypes, Working, Storing, Ended, Late
    <3> QED
      BY <1>1, <3>1 DEF Inv, FetchInv, EarlyInv
  <2>3. ASSUME NEW f \in Fetches, pc[f] = "store_before" PROVE JobInv(job[f], "store_before")
    BY <1>1, <2>3 DEF JobsInv
  <2> QED
    BY <2>1, <2>2, <2>3, SoundPair DEF PairIsSound, Strict
<1>2. Inv /\ JobsInv => PairIsSound
  BY <1>1
<1>3. Inv => RequestTypes
  BY DEF Inv
<1> QED
  BY <1>2, <1>3, Invariance, JobsInitially, JobsPreserved, PTL DEF Spec
=============================================================================
