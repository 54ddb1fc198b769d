-------------------------- MODULE SceneStoreProofs --------------------------
(***************************************************************************)
(* Proofs about SceneStore, for any scenes, uploads and listing limit.     *)
(* A listing changes no variable of an ingest, so the invariant is one of  *)
(* each scene by itself: where its ingest is decides which of its files    *)
(* are under their own names, and what the handler would still unlink.     *)
(* What a listing returns rests on a second invariant, of the listing, and *)
(* on the fact that what it sorts can be sorted, proved by induction.      *)
(***************************************************************************)
EXTENDS SceneStore, FiniteSetTheorems, FunctionTheorems, WellFoundedInduction, TLAPS

Rank(p) == CASE p = "raster" -> 1 [] p = "preview" -> 2 [] OTHER -> 3

\* The files a scene has when it is complete.
Needed(s) == IF tiff[s] THEN Parts ELSE Parts \ {"raster"}

Empty(s) == \A p \in Parts : final[s][p] = "absent"
Complete(s) == \A p \in Needed(s) : final[s][p] = "whole"
NoManifest(s) == final[s]["manifest"] = "absent"

\* What is under its own name is still in the handler's list.
Remembered(s) ==
  \A p \in Parts : final[s][p] # "absent" => \E i \in 1 .. Len(committed[s]) : committed[s][i] = p

\* The temporaries before the one being written are whole.
WriteInv(s) ==
  phase[s] \in {"write", "stamp"} =>
    /\ Empty(s) /\ committed[s] = <<>> /\ raised[s] = "none"
    /\ phase[s] = "stamp" => part[s] = "manifest"
    /\ part[s] \in Needed(s)
    /\ \A p \in Needed(s) : Rank(p) < Rank(part[s]) => temp[s][p] = "whole"

\* The files before the one being renamed are in place, the others are not.
ReplaceInv(s) ==
  phase[s] = "replace" =>
    /\ Remembered(s) /\ raised[s] = "none"
    /\ part[s] \in Needed(s)
    /\ \A p \in Needed(s) : IF Rank(p) < Rank(part[s]) THEN final[s][p] = "whole"
                                                       ELSE temp[s][p] = "whole"
    /\ \A p \in Parts : Rank(p) >= Rank(part[s]) => final[s][p] = "absent"

RollbackInv(s) ==
  phase[s] = "rollback" => Remembered(s) /\ NoManifest(s) /\ raised[s] = "none"

\* How an ingest ends decides what it leaves.
EndInv(s) ==
  /\ phase[s] = "idle" => Empty(s) /\ committed[s] = <<>> /\ raised[s] = "none"
  /\ phase[s] \in {"cleanup", "answered", "raised"} =>
       /\ raised[s] = "none" => Complete(s) /\ phase[s] # "raised"
       /\ raised[s] # "none" => NoManifest(s) /\ phase[s] # "answered"
       /\ raised[s] \in {"invalid", "storage"} => Empty(s)
  /\ phase[s] = "dead" => NoManifest(s) \/ Complete(s)

SceneInv(s) == WriteInv(s) /\ ReplaceInv(s) /\ RollbackInv(s) /\ EndInv(s)

Inv == IngestTypes /\ \A s \in Scenes : SceneInv(s)

-----------------------------------------------------------------------------

\* A scene no variable of which changed keeps its invariant.
LEMMA Frame ==
  ASSUME NEW s \in Scenes, SceneInv(s),
         phase'[s] = phase[s], part'[s] = part[s], tiff'[s] = tiff[s], temp'[s] = temp[s],
         final'[s] = final[s], committed'[s] = committed[s], raised'[s] = raised[s]
  PROVE  SceneInv(s)'
BY DEF SceneInv, WriteInv, ReplaceInv, RollbackInv, EndInv, Empty, Complete, NoManifest,
       Remembered, Needed

\* A function updated at one point keeps its type.
LEMMA UpdateType ==
  ASSUME NEW S, NEW T, NEW f \in [S -> T], NEW x \in S, NEW v \in T
  PROVE  [f EXCEPT ![x] = v] \in [S -> T]
BY Zenon

\* An empty store satisfies the invariant.
LEMMA Initially == Init => Inv
<1> SUFFICES ASSUME Init PROVE Inv
  OBVIOUS
<1>1. NoFiles \in [Parts -> Content] /\ \A p \in Parts : NoFiles[p] = "absent"
  BY DEF NoFiles, Content
<1>2. IngestTypes
  BY <1>1 DEF Init, IngestTypes, Phases, Parts
<1>3. ASSUME NEW s \in Scenes PROVE SceneInv(s)
  <2>1. phase[s] = "idle" /\ final[s] = NoFiles /\ committed[s] = <<>> /\ raised[s] = "none"
    BY DEF Init
  <2>. QED  BY <2>1, <1>1 DEF SceneInv, WriteInv, ReplaceInv, RollbackInv, EndInv, Empty
<1>. QED  BY <1>2, <1>3 DEF Inv

-----------------------------------------------------------------------------
(* The steps of one ingest.                                                *)

\* Where the next file stands among those the scene needs.
LEMMA PartOrder ==
  ASSUME NEW s \in Scenes, IngestTypes
  PROVE  /\ Needed(s) \subseteq Parts /\ "preview" \in Needed(s) /\ "manifest" \in Needed(s)
         /\ FirstPart(tiff[s]) \in Needed(s)
         /\ \A p \in Needed(s) : Rank(FirstPart(tiff[s])) <= Rank(p)
         /\ \A p \in Parts : FollowingPart(p) \in Needed(s)
         /\ \A p, q \in Parts : p # "manifest" => (Rank(q) < Rank(FollowingPart(p)) <=> Rank(q) <= Rank(p))
         /\ \A p, q \in Parts : Rank(p) \in 1 .. 3 /\ (Rank(p) = Rank(q) => p = q)
         /\ \A p \in Parts : Rank(p) = 3 <=> p = "manifest"
<1>0. tiff[s] \in BOOLEAN
  BY DEF IngestTypes
<1>1. /\ Needed(s) \subseteq Parts /\ "preview" \in Needed(s) /\ "manifest" \in Needed(s)
      /\ \A p \in Parts : FollowingPart(p) \in Needed(s)
  BY DEF Needed, FollowingPart, Parts
<1>2. FirstPart(tiff[s]) \in Needed(s)
  BY <1>0 DEF Needed, FirstPart, Parts
<1>3. \A p \in Parts : Rank(p) = IF p = "raster" THEN 1 ELSE IF p = "preview" THEN 2 ELSE 3
  BY DEF Rank
<1>4. \A p \in Needed(s) : Rank(FirstPart(tiff[s])) <= Rank(p)
  BY <1>0, <1>1, <1>2, <1>3 DEF Needed, FirstPart, Parts
<1>5. \A p, q \in Parts : p # "manifest" => (Rank(q) < Rank(FollowingPart(p)) <=> Rank(q) <= Rank(p))
  BY <1>1, <1>3 DEF FollowingPart, Parts
<1>. QED  BY <1>1, <1>2, <1>3, <1>4, <1>5 DEF Parts

\* Entering ingest_scene with a valid raster keeps the invariant of its scene.
LEMMA BeginStep ==
  ASSUME NEW s \in Scenes, Inv, Begin(s)
  PROVE  IngestTypes' /\ SceneInv(s)'
<1>0. IngestTypes /\ EndInv(s) /\ phase[s] = "idle" /\ s \in Scenes
  BY DEF Inv, SceneInv, Begin, MayStart
<1>1. PICK isTiff \in BOOLEAN : /\ tiff' = [tiff EXCEPT ![s] = isTiff]
                               /\ part' = [part EXCEPT ![s] = FirstPart(isTiff)]
  BY DEF Begin
<1>2. FirstPart(isTiff) \in Parts
  BY DEF FirstPart, Parts
<1>3. phase' = [phase EXCEPT ![s] = "write"]
  BY DEF Begin
<1>4. /\ tiff' \in [Scenes -> BOOLEAN] /\ part' \in [Scenes -> Parts]
      /\ phase' \in [Scenes -> Phases]
  <2>1. tiff \in [Scenes -> BOOLEAN] /\ part \in [Scenes -> Parts] /\ phase \in [Scenes -> Phases]
    BY <1>0 DEF IngestTypes
  <2>2. "write" \in Phases
    BY DEF Phases
  <2>. QED  BY <1>1, <1>2, <1>3, <2>1, <2>2
<1>5. UNCHANGED <<temp, final, committed, raised, stamped, written>>
  BY DEF Begin
<1>6. IngestTypes'
  BY <1>0, <1>4, <1>5 DEF IngestTypes
<1>7. phase'[s] = "write" /\ tiff'[s] = isTiff /\ part'[s] = FirstPart(isTiff)
  BY <1>0, <1>1, <1>3 DEF IngestTypes
<1>8. WriteInv(s)'
  <2>1. Empty(s)' /\ committed'[s] = <<>> /\ raised'[s] = "none"
    BY <1>0, <1>5 DEF EndInv, Empty
  <2>2. part'[s] \in Needed(s)' /\ \A p \in Needed(s)' : ~(Rank(p) < Rank(part'[s]))
    BY <1>7 DEF Needed, FirstPart, Rank, Parts
  <2>. QED  BY <2>1, <2>2, <1>7 DEF WriteInv
<1>. QED  BY <1>6, <1>7, <1>8 DEF SceneInv, ReplaceInv, RollbackInv, EndInv

\* A raster that is refused leaves the store empty for its scene.
LEMMA RejectStep ==
  ASSUME NEW s \in Scenes, Inv, Reject(s)
  PROVE  IngestTypes' /\ SceneInv(s)'
<1>0. IngestTypes /\ EndInv(s) /\ phase[s] = "idle"
  BY DEF Inv, SceneInv, Reject, MayStart
<1>1. phase'[s] = "raised" /\ raised'[s] = "invalid" /\ final' = final
  BY <1>0 DEF Reject, IngestTypes
<1>2. IngestTypes'
  BY <1>0 DEF IngestTypes, Reject, Phases
<1>3. Empty(s)' /\ NoManifest(s)'
  BY <1>0, <1>1 DEF EndInv, Empty, NoManifest, Parts
<1>. QED  BY <1>1, <1>2, <1>3 DEF SceneInv, WriteInv, ReplaceInv, RollbackInv, EndInv

\* Writing a temporary makes nothing visible; after the last one the renames begin.
LEMMA WriteStep ==
  ASSUME NEW s \in Scenes, Inv, Write(s)
  PROVE  IngestTypes' /\ SceneInv(s)'
<1>0. IngestTypes /\ WriteInv(s) /\ phase[s] = "write" /\ part[s] \in Parts
  BY DEF Inv, SceneInv, Write, IngestTypes
<1>1. /\ Needed(s)' = Needed(s) /\ tiff' = tiff /\ final' = final /\ committed' = committed
      /\ raised' = raised
  BY DEF Write, Needed
<1>2. temp'[s] = [temp[s] EXCEPT ![part[s]] = "whole"] /\ temp' \in [Scenes -> [Parts -> Content]]
  BY <1>0 DEF Write, IngestTypes, Content
<1>3. part'[s] = IF part[s] = "manifest" THEN FirstPart(tiff[s]) ELSE FollowingPart(part[s])
  BY <1>0 DEF Write, IngestTypes
<1>4. phase'[s] = CASE part[s] = "raster" -> "write" [] part[s] = "preview" -> "stamp" [] OTHER -> "replace"
  BY <1>0 DEF Write, IngestTypes
<1>5. IngestTypes'
  <2>1. phase' \in [Scenes -> Phases]
    BY <1>0, Zenon DEF Write, IngestTypes, Phases
  <2>2. part' \in [Scenes -> Parts]
    BY <1>0 DEF Write, IngestTypes, FirstPart, FollowingPart, Parts
  <2>3. written' \in Seq(Scenes)
    BY <1>0 DEF Write, IngestTypes
  <2>. QED  BY <1>0, <1>1, <1>2, <2>1, <2>2, <2>3 DEF IngestTypes, Write
<1>6. /\ Empty(s)' /\ committed'[s] = <<>> /\ raised'[s] = "none" /\ part'[s] \in Needed(s)'
  BY <1>0, <1>1, <1>3, PartOrder DEF WriteInv, Empty
<1>7. \A p \in Needed(s) : Rank(p) <= Rank(part[s]) => temp'[s][p] = "whole"
  <2> SUFFICES ASSUME NEW p \in Needed(s), Rank(p) <= Rank(part[s]) PROVE temp'[s][p] = "whole"
    OBVIOUS
  <2>1. p \in Parts /\ Rank(p) \in Nat /\ Rank(part[s]) \in Nat
    BY <1>0, PartOrder
  <2>2. temp[s] \in [Parts -> Content]
    BY <1>0 DEF IngestTypes
  <2>3. p = part[s] \/ Rank(p) < Rank(part[s])
    BY <1>0, <2>1, PartOrder
  <2>4. p # part[s] => temp[s][p] = "whole"
    BY <1>0, <2>3 DEF WriteInv
  <2>. QED  BY <1>2, <2>1, <2>2, <2>4
<1>8. CASE part[s] # "manifest"
  <2>1. \A p \in Needed(s) : Rank(p) < Rank(part'[s]) => temp'[s][p] = "whole"
    <3>1. part'[s] = FollowingPart(part[s]) /\ Needed(s) \subseteq Parts
      BY <1>3, <1>8, PartOrder, <1>0
    <3>2. \A p \in Needed(s) : Rank(p) < Rank(part'[s]) => Rank(p) <= Rank(part[s])
      BY <1>0, <1>8, <3>1, PartOrder
    <3>. QED  BY <1>7, <3>2
  <2>2. phase'[s] \in {"write", "stamp"} /\ (phase'[s] = "stamp" => part'[s] = "manifest")
    BY <1>0, <1>3, <1>4, <1>8 DEF FollowingPart, Parts
  <2>3. WriteInv(s)'
    BY <1>1, <1>6, <2>1, <2>2 DEF WriteInv
  <2>. QED  BY <1>5, <2>2, <2>3 DEF SceneInv, ReplaceInv, RollbackInv, EndInv
<1>9. CASE part[s] = "manifest"
  <2>1. phase'[s] = "replace" /\ part'[s] = FirstPart(tiff[s])
    BY <1>3, <1>4, <1>9
  <2>2. \A p \in Needed(s) : temp'[s][p] = "whole" /\ ~(Rank(p) < Rank(part'[s]))
    BY <1>0, <1>7, <1>9, <2>1, PartOrder
  <2>3. Remembered(s)' /\ \A p \in Parts : final'[s][p] = "absent"
    BY <1>6 DEF Remembered, Empty
  <2>4. ReplaceInv(s)'
    BY <1>1, <1>6, <2>2, <2>3 DEF ReplaceInv
  <2>. QED  BY <1>5, <2>1, <2>4 DEF SceneInv, WriteInv, RollbackInv, EndInv
<1>. QED  BY <1>8, <1>9

\* A step that leaves the files under their own names alone and turns to the
\* handler.
LEMMA FailureStep ==
  ASSUME NEW s \in Scenes, Inv, WriteFails(s) \/ StampFails(s) \/ ReplaceFails(s)
  PROVE  IngestTypes' /\ SceneInv(s)'
<1>0. IngestTypes /\ SceneInv(s) /\ phase[s] \in {"write", "stamp", "replace"}
  BY DEF Inv, WriteFails, StampFails, ReplaceFails
<1>1. /\ phase' = [phase EXCEPT ![s] = "rollback"]
      /\ UNCHANGED <<part, tiff, final, committed, raised, stamped, written>>
  BY DEF WriteFails, StampFails, ReplaceFails
<1>2. temp' \in [Scenes -> [Parts -> Content]]
  <2>1. CASE WriteFails(s)
    <3>1. PICK left \in Content : temp' = [temp EXCEPT ![s][part[s]] = left]
      BY <2>1 DEF WriteFails, Content
    <3>. QED  BY <1>0, <3>1 DEF IngestTypes
  <2>2. CASE StampFails(s) \/ ReplaceFails(s)
    BY <1>0, <2>2 DEF StampFails, ReplaceFails, IngestTypes
  <2>. QED  BY <2>1, <2>2
<1>3. phase' \in [Scenes -> Phases] /\ phase'[s] = "rollback"
  BY <1>0, <1>1 DEF IngestTypes, Phases
<1>4. IngestTypes'
  BY <1>0, <1>1, <1>2, <1>3 DEF IngestTypes
<1>5. Remembered(s) /\ NoManifest(s) /\ raised[s] = "none"
  <2>1. CASE phase[s] \in {"write", "stamp"}
    BY <1>0, <2>1 DEF SceneInv, WriteInv, Empty, Remembered, NoManifest, Parts
  <2>2. CASE phase[s] = "replace"
    <3>1. part[s] \in Parts /\ "manifest" \in Parts /\ Rank("manifest") = 3
      BY <1>0 DEF IngestTypes, Parts, Rank
    <3>2. Rank(part[s]) <= 3
      BY <1>0, <3>1, PartOrder
    <3>. QED  BY <1>0, <2>2, <3>1, <3>2 DEF SceneInv, ReplaceInv, NoManifest
  <2>. QED  BY <1>0, <2>1, <2>2
<1>6. RollbackInv(s)'
  BY <1>1, <1>5 DEF RollbackInv, Remembered, NoManifest
<1>. QED  BY <1>3, <1>4, <1>6 DEF SceneInv, WriteInv, ReplaceInv, EndInv

\* Reading the upload time, between the temporaries and the manifest, keeps them.
LEMMA StampStep ==
  ASSUME NEW s \in Scenes, Inv, Stamp(s)
  PROVE  IngestTypes' /\ SceneInv(s)'
<1>0. IngestTypes /\ WriteInv(s) /\ phase[s] = "stamp"
  BY DEF Inv, SceneInv, Stamp
<1>1. /\ phase' = [phase EXCEPT ![s] = "write"] /\ phase'[s] = "write"
      /\ UNCHANGED <<part, tiff, temp, final, committed, raised, written>>
  BY <1>0 DEF Stamp, IngestTypes
<1>2. stamped' \in Seq(Scenes)
  BY <1>0 DEF Stamp, IngestTypes
<1>3. IngestTypes'
  BY <1>0, <1>1, <1>2 DEF IngestTypes, Phases
<1>4. WriteInv(s)'
  BY <1>0, <1>1 DEF WriteInv, Empty, Needed
<1>. QED  BY <1>1, <1>3, <1>4 DEF SceneInv, ReplaceInv, RollbackInv, EndInv

\* A rename makes one more part visible, in the order of the parts, and
\* committed remembers it; after that of the manifest the scene is complete.
LEMMA ReplaceStep ==
  ASSUME NEW s \in Scenes, Inv, Replace(s)
  PROVE  IngestTypes' /\ SceneInv(s)'
<1> DEFINE f == part[s]
<1>0. IngestTypes /\ ReplaceInv(s) /\ phase[s] = "replace" /\ f \in Needed(s) /\ f \in Parts
  BY DEF Inv, SceneInv, Replace, ReplaceInv, IngestTypes
<1>1. /\ Needed(s)' = Needed(s) /\ tiff' = tiff /\ raised' = raised /\ raised[s] = "none"
  BY <1>0 DEF Replace, Needed, ReplaceInv
<1>2. temp[s][f] = "whole" /\ temp[s] \in [Parts -> Content] /\ final[s] \in [Parts -> Content]
  <2>1. Rank(f) \in 1 .. 3
    BY <1>0, PartOrder
  <2>2. ~(Rank(f) < Rank(f))
    BY <2>1
  <2>. QED  BY <1>0, <2>2 DEF ReplaceInv, IngestTypes
<1>3. final'[s] = [final[s] EXCEPT ![f] = "whole"] /\ final' \in [Scenes -> [Parts -> Content]]
  BY <1>0, <1>2 DEF Replace, IngestTypes, Content
<1>4. temp'[s] = [temp[s] EXCEPT ![f] = "absent"] /\ temp' \in [Scenes -> [Parts -> Content]]
  BY <1>0 DEF Replace, IngestTypes, Content
<1>5. committed'[s] = Append(committed[s], f) /\ committed' \in [Scenes -> Seq(Parts)]
      /\ committed[s] \in Seq(Parts)
  <2>1. committed[s] \in Seq(Parts)
    BY <1>0 DEF IngestTypes
  <2>2. Append(committed[s], f) \in Seq(Parts)
    BY <1>0, <2>1
  <2>. QED  BY <1>0, <2>1, <2>2 DEF Replace, IngestTypes
<1>6. /\ part' \in [Scenes -> Parts] /\ part'[s] = FollowingPart(f)
      /\ phase' \in [Scenes -> Phases] /\ phase'[s] = IF f = "manifest" THEN "cleanup" ELSE "replace"
  <2>1. FollowingPart(f) \in Parts
    BY DEF FollowingPart, Parts
  <2>. QED  BY <1>0, <2>1 DEF Replace, IngestTypes, Phases
<1>7. IngestTypes'
  BY <1>0, <1>3, <1>4, <1>5, <1>6 DEF IngestTypes, Replace
<1>8. \A p \in Needed(s) : Rank(p) <= Rank(f) => final'[s][p] = "whole"
  <2> SUFFICES ASSUME NEW p \in Needed(s), Rank(p) <= Rank(f) PROVE final'[s][p] = "whole"
    OBVIOUS
  <2>1. p \in Parts /\ Rank(p) \in Nat /\ Rank(f) \in Nat
    BY <1>0, PartOrder
  <2>2. p = f \/ Rank(p) < Rank(f)
    BY <1>0, <2>1, PartOrder
  <2>3. p # f => final[s][p] = "whole"
    BY <1>0, <2>2 DEF ReplaceInv
  <2>. QED  BY <1>2, <1>3, <2>1, <2>3
<1>9. CASE f # "manifest"
  <2>1. phase'[s] = "replace" /\ part'[s] \in Needed(s)'
    BY <1>0, <1>1, <1>6, <1>9, PartOrder
  <2>2. \A p \in Parts : Rank(p) < Rank(part'[s]) <=> Rank(p) <= Rank(f)
    BY <1>0, <1>6, <1>9, PartOrder
  <2>3. \A p \in Parts : ~(Rank(p) <= Rank(f)) => p # f /\ Rank(p) >= Rank(f) /\ ~(Rank(p) < Rank(f))
    BY <1>0, PartOrder
  <2>4. \A p \in Needed(s)' : IF Rank(p) < Rank(part'[s]) THEN final'[s][p] = "whole"
                                                         ELSE temp'[s][p] = "whole"
    <3> SUFFICES ASSUME NEW p \in Needed(s), ~(Rank(p) <= Rank(f)) PROVE temp'[s][p] = "whole"
      BY <1>0, <1>1, <1>8, <2>2, PartOrder
    <3>1. p \in Parts /\ p # f /\ temp[s][p] = "whole"
      BY <1>0, <2>3, PartOrder DEF ReplaceInv
    <3>. QED  BY <1>2, <1>4, <3>1
  <2>5. \A p \in Parts : Rank(p) >= Rank(part'[s]) => final'[s][p] = "absent"
    <3> SUFFICES ASSUME NEW p \in Parts, Rank(p) >= Rank(part'[s]) PROVE final'[s][p] = "absent"
      OBVIOUS
    <3>1. Rank(part'[s]) \in Nat /\ Rank(p) \in Nat
      BY <1>0, <1>6, PartOrder
    <3>2. ~(Rank(p) <= Rank(f))
      BY <2>2, <3>1
    <3>3. p # f /\ final[s][p] = "absent"
      BY <1>0, <2>3, <3>2 DEF ReplaceInv
    <3>. QED  BY <1>2, <1>3, <3>3
  <2>6. Remembered(s)'
    <3> SUFFICES ASSUME NEW p \in Parts, final'[s][p] # "absent"
                 PROVE  \E i \in 1 .. Len(committed'[s]) : committed'[s][i] = p
      BY DEF Remembered
    <3>1. CASE p = f
      <4>1. Len(committed'[s]) \in 1 .. Len(committed'[s]) /\ committed'[s][Len(committed'[s])] = f
        BY <1>5
      <4>. QED  BY <3>1, <4>1
    <3>2. CASE p # f
      <4>1. final[s][p] # "absent"
        BY <1>2, <1>3, <3>2
      <4>2. PICK i \in 1 .. Len(committed[s]) : committed[s][i] = p
        BY <1>0, <4>1 DEF ReplaceInv, Remembered
      <4>3. i \in 1 .. Len(committed'[s]) /\ committed'[s][i] = p
        BY <1>5, <4>2
      <4>. QED  BY <4>3
    <3>. QED  BY <3>1, <3>2
  <2>7. ReplaceInv(s)'
    BY <1>1, <2>1, <2>4, <2>5, <2>6 DEF ReplaceInv
  <2>. QED  BY <1>7, <2>1, <2>7 DEF SceneInv, WriteInv, RollbackInv, EndInv
<1>10. CASE f = "manifest"
  <2>1. phase'[s] = "cleanup"
    BY <1>6, <1>10
  <2>2. \A p \in Parts : Rank(p) <= Rank(f)
    BY <1>0, <1>10, PartOrder
  <2>3. Complete(s)'
    BY <1>0, <1>1, <1>8, <2>2, PartOrder DEF Complete
  <2>4. EndInv(s)'
    BY <1>1, <2>1, <2>3 DEF EndInv
  <2>. QED  BY <1>7, <2>1, <2>4 DEF SceneInv, WriteInv, ReplaceInv, RollbackInv
<1>. QED  BY <1>9, <1>10

\* The roll-back removes one committed file and still remembers the others.
LEMMA UnlinkStep ==
  ASSUME NEW s \in Scenes, Inv, Unlink(s)
  PROVE  IngestTypes' /\ SceneInv(s)'
<1> DEFINE h == Head(committed[s])
<1>0. IngestTypes /\ RollbackInv(s) /\ phase[s] = "rollback" /\ committed[s] \in Seq(Parts)
      /\ committed[s] # <<>> /\ final[s] \in [Parts -> Content]
  BY DEF Inv, SceneInv, Unlink, IngestTypes
<1>1. h \in Parts /\ Tail(committed[s]) \in Seq(Parts)
  BY <1>0
<1>2. /\ final'[s] = [final[s] EXCEPT ![h] = "absent"] /\ final' \in [Scenes -> [Parts -> Content]]
  BY <1>0, <1>1 DEF Unlink, IngestTypes, Content
<1>3. committed'[s] = Tail(committed[s]) /\ committed' \in [Scenes -> Seq(Parts)]
  BY <1>0, <1>1 DEF Unlink, IngestTypes
<1>4. UNCHANGED <<phase, part, tiff, temp, raised, stamped, written>>
  BY DEF Unlink
<1>5. IngestTypes'
  BY <1>0, <1>2, <1>3, <1>4 DEF IngestTypes
<1>6. NoManifest(s)'
  BY <1>0, <1>2 DEF RollbackInv, NoManifest, Parts
<1>7. Remembered(s)'
  <2> SUFFICES ASSUME NEW p \in Parts, final'[s][p] # "absent"
               PROVE  \E i \in 1 .. Len(committed'[s]) : committed'[s][i] = p
    BY DEF Remembered
  <2>1. p # h /\ final[s][p] # "absent"
    BY <1>0, <1>1, <1>2
  <2>2. PICK i \in 1 .. Len(committed[s]) : committed[s][i] = p
    BY <1>0, <2>1 DEF RollbackInv, Remembered
  <2>3. i # 1
    BY <1>0, <2>1, <2>2
  <2>4. i - 1 \in 1 .. Len(Tail(committed[s])) /\ Tail(committed[s])[i - 1] = p
    BY <1>0, <2>2, <2>3
  <2>. QED  BY <1>3, <2>4
<1>8. RollbackInv(s)'
  BY <1>0, <1>4, <1>6, <1>7 DEF RollbackInv
<1>. QED  BY <1>0, <1>4, <1>5, <1>8 DEF SceneInv, WriteInv, ReplaceInv, EndInv

\* The handler raises with no manifest left, and with no file left at all
\* unless an unlink failed.
LEMMA HandlerStep ==
  ASSUME NEW s \in Scenes, Inv, RaiseStorageError(s) \/ UnlinkFails(s)
  PROVE  IngestTypes' /\ SceneInv(s)'
<1>0. IngestTypes /\ RollbackInv(s) /\ phase[s] = "rollback"
  BY DEF Inv, SceneInv, RaiseStorageError, UnlinkFails
<1>1. /\ phase' = [phase EXCEPT ![s] = "cleanup"]
      /\ UNCHANGED <<part, tiff, temp, final, committed, stamped, written>>
  BY DEF RaiseStorageError, UnlinkFails
<1>2. PICK e \in {"storage", "os"} :
        raised' = [raised EXCEPT ![s] = e] /\ (e = "storage" => committed[s] = <<>>)
  BY DEF RaiseStorageError, UnlinkFails
<1>3. IngestTypes' /\ phase'[s] = "cleanup" /\ raised'[s] = e
  BY <1>0, <1>1, <1>2 DEF IngestTypes, Phases
<1>4. NoManifest(s)' /\ (e = "storage" => Empty(s)')
  BY <1>0, <1>1, <1>2 DEF RollbackInv, NoManifest, Empty, Remembered
<1>. QED  BY <1>3, <1>4 DEF SceneInv, WriteInv, ReplaceInv, RollbackInv, EndInv

\* The finally clause removes temporaries and no file under its own name.
LEMMA CleanUpStep ==
  ASSUME NEW s \in Scenes, Inv, CleanUp(s)
  PROVE  IngestTypes' /\ SceneInv(s)'
<1>0. IngestTypes /\ EndInv(s) /\ phase[s] = "cleanup"
  BY DEF Inv, SceneInv, CleanUp
<1>1. PICK kept \in SUBSET Parts :
        temp' = [temp EXCEPT ![s] = [p \in Parts |-> IF p \in kept THEN temp[s][p] ELSE "absent"]]
  BY DEF CleanUp
<1>2. temp' \in [Scenes -> [Parts -> Content]]
  <2>1. [p \in Parts |-> IF p \in kept THEN temp[s][p] ELSE "absent"] \in [Parts -> Content]
    BY <1>0 DEF IngestTypes, Content
  <2>. QED  BY <1>0, <1>1, <2>1 DEF IngestTypes
<1>3. UNCHANGED <<part, tiff, final, committed, raised, stamped, written>>
  BY DEF CleanUp
<1>4. phase'[s] = (IF raised[s] = "none" THEN "answered" ELSE "raised") /\ phase' \in [Scenes -> Phases]
  BY <1>0 DEF CleanUp, IngestTypes, Phases
<1>5. IngestTypes'
  BY <1>0, <1>2, <1>3, <1>4 DEF IngestTypes
<1>6. EndInv(s)'
  BY <1>0, <1>3, <1>4 DEF EndInv, Complete, NoManifest, Empty, Needed
<1>. QED  BY <1>4, <1>5, <1>6 DEF SceneInv, WriteInv, ReplaceInv, RollbackInv

\* Wherever the process dies, a scene has no manifest or all of its files.
LEMMA CrashStep ==
  ASSUME Inv, ProcessCrash
  PROVE  Inv'
<1>0. IngestTypes
  BY DEF Inv
<1>1. PICK torn \in SUBSET Scenes :
        temp' = [s \in Scenes |->
          IF s \in torn THEN [temp[s] EXCEPT ![part[s]] = "partial"] ELSE temp[s]]
  BY DEF ProcessCrash
<1>2. temp' \in [Scenes -> [Parts -> Content]]
  <2>1. \A s \in Scenes : temp[s] \in [Parts -> Content] /\ "partial" \in Content
    BY <1>0 DEF IngestTypes, Content
  <2>. QED  BY <1>1, <2>1
<1>3. UNCHANGED <<part, tiff, final, committed, raised, stamped, written>>
  BY DEF ProcessCrash
<1>4. phase' = [s \in Scenes |-> IF Busy(s) THEN "dead" ELSE phase[s]]
  BY DEF ProcessCrash
<1>5. phase' \in [Scenes -> Phases]
  BY <1>0, <1>4 DEF IngestTypes, Phases
<1>6. IngestTypes'
  BY <1>0, <1>2, <1>3, <1>5 DEF IngestTypes
<1>7. ASSUME NEW s \in Scenes PROVE SceneInv(s)'
  <2>0. SceneInv(s) /\ phase[s] \in Phases /\ Needed(s)' = Needed(s)
    BY <1>0, <1>3 DEF Inv, IngestTypes, Needed
  <2>1. CASE Busy(s)
    <3>1. phase'[s] = "dead"
      BY <1>4, <2>1
    <3>2. NoManifest(s) \/ Complete(s)
      <4>1. CASE phase[s] = "replace"
        <5>1. part[s] \in Parts /\ "manifest" \in Parts /\ Rank("manifest") = 3
          BY <1>0 DEF IngestTypes, Parts, Rank
        <5>2. Rank(part[s]) <= 3
          BY <1>0, <5>1, PartOrder
        <5>. QED  BY <2>0, <4>1, <5>1, <5>2 DEF SceneInv, ReplaceInv, NoManifest
      <4>2. CASE phase[s] \in {"write", "stamp"}
        BY <2>0, <4>2 DEF SceneInv, WriteInv, Empty, NoManifest, Parts
      <4>3. CASE phase[s] = "rollback"
        BY <2>0, <4>3 DEF SceneInv, RollbackInv
      <4>4. CASE phase[s] = "cleanup"
        BY <2>0, <4>4 DEF SceneInv, EndInv
      <4>. QED  BY <2>0, <2>1, <4>1, <4>2, <4>3, <4>4 DEF Busy, Phases
    <3>3. EndInv(s)'
      BY <1>3, <2>0, <3>1, <3>2 DEF EndInv, NoManifest, Complete
    <3>. QED  BY <3>1, <3>3 DEF SceneInv, WriteInv, ReplaceInv, RollbackInv
  <2>2. CASE ~Busy(s)
    <3>1. phase'[s] = phase[s] /\ phase[s] \in {"idle", "answered", "raised", "dead"}
      BY <1>4, <2>0, <2>2 DEF Busy
    <3>2. EndInv(s)'
      BY <1>3, <2>0, <3>1 DEF SceneInv, EndInv, NoManifest, Complete, Empty
    <3>. QED  BY <3>1, <3>2 DEF SceneInv, WriteInv, ReplaceInv, RollbackInv
  <2>. QED  BY <2>1, <2>2
<1>. QED  BY <1>6, <1>7 DEF Inv

\* A step of one ingest changes the variables of its scene alone.
LEMMA Elsewhere ==
  ASSUME IngestTypes, NEW s \in Scenes, NEW t \in Scenes, t # s,
         Reject(s) \/ Begin(s) \/ Proceed(s)
  PROVE  /\ phase'[t] = phase[t] /\ part'[t] = part[t] /\ tiff'[t] = tiff[t]
         /\ temp'[t] = temp[t] /\ final'[t] = final[t]
         /\ committed'[t] = committed[t] /\ raised'[t] = raised[t]
<1>1. CASE Reject(s) \/ Begin(s)
  BY <1>1 DEF Reject, Begin, IngestTypes
<1>2. CASE Write(s) \/ WriteFails(s) \/ Stamp(s) \/ StampFails(s)
  BY <1>2 DEF Write, WriteFails, Stamp, StampFails, IngestTypes
<1>3. CASE Replace(s) \/ ReplaceFails(s)
  BY <1>3 DEF Replace, ReplaceFails, IngestTypes
<1>4. CASE Unlink(s) \/ UnlinkFails(s) \/ RaiseStorageError(s) \/ CleanUp(s)
  BY <1>4 DEF Unlink, UnlinkFails, RaiseStorageError, CleanUp, IngestTypes
<1>. QED  BY <1>1, <1>2, <1>3, <1>4 DEF Proceed

\* Every step of Next keeps the invariant of the scene it works on and of the others.
LEMMA Preserved == Inv /\ [Next]_vars => Inv'
<1> SUFFICES ASSUME Inv, [Next]_vars PROVE Inv'
  OBVIOUS
<1>1. ASSUME NEW s \in Scenes, Reject(s) \/ Begin(s) \/ Proceed(s) PROVE Inv'
  <2>1. IngestTypes' /\ SceneInv(s)'
    BY <1>1, BeginStep, RejectStep, WriteStep, FailureStep, StampStep, ReplaceStep, UnlinkStep,
       HandlerStep, CleanUpStep DEF Proceed
  <2>2. ASSUME NEW t \in Scenes, t # s PROVE SceneInv(t)'
    <3>1. IngestTypes /\ SceneInv(t)
      BY DEF Inv
    <3>. QED  BY <1>1, <2>2, <3>1, Elsewhere, Frame
  <2>. QED  BY <2>1, <2>2 DEF Inv
<1>2. CASE UNCHANGED ingestVars
  <2>1. IngestTypes'
    BY <1>2 DEF Inv, IngestTypes, ingestVars
  <2>2. ASSUME NEW t \in Scenes PROVE SceneInv(t)'
    BY <1>2, Frame DEF Inv, ingestVars
  <2>. QED  BY <2>1, <2>2 DEF Inv
<1>. QED  BY <1>1, <1>2, CrashStep DEF Next, vars, List, ListFails, Look, LookFails, Listed

\* The invariant holds in every reachable state.
LEMMA Invariance == Spec => []Inv
BY Initially, Preserved, PTL DEF Spec

-----------------------------------------------------------------------------

\* Every variable of an ingest keeps the type of its code counterpart.
THEOREM IngestTypeCorrect == Spec => []IngestTypes
<1>1. Inv => IngestTypes
  BY DEF Inv
<1>. QED  BY <1>1, Invariance, PTL

\* In every interleaving of ingests, with failures and crashes between and
\* within their steps, a manifest under its own name has every whole file it
\* describes beside it: the order of the renames in ingest_scene suffices.
THEOREM ManifestsAreComplete == Spec => []ManifestMeansWhole
<1>1. Inv => ManifestMeansWhole
  <2> SUFFICES ASSUME Inv, NEW s \in Scenes, Exists(s, "manifest") PROVE Complete(s)
    BY DEF ManifestMeansWhole, Complete, Needed
  <2>1. IngestTypes /\ SceneInv(s) /\ phase[s] \in Phases /\ ~NoManifest(s)
    BY DEF Inv, IngestTypes, Exists, NoManifest
  <2>2. phase[s] \notin {"idle", "write", "stamp", "rollback"}
    BY <2>1 DEF SceneInv, WriteInv, RollbackInv, EndInv, Empty, NoManifest, Parts
  <2>3. phase[s] # "replace"
    <3> SUFFICES ASSUME phase[s] = "replace" PROVE FALSE
      OBVIOUS
    <3>1. part[s] \in Parts /\ "manifest" \in Parts /\ Rank("manifest") = 3
      BY <2>1 DEF IngestTypes, Parts, Rank
    <3>2. Rank(part[s]) <= 3
      BY <2>1, <3>1, PartOrder
    <3>. QED  BY <2>1, <3>1, <3>2 DEF SceneInv, ReplaceInv, NoManifest
  <2>. QED  BY <2>1, <2>2, <2>3 DEF SceneInv, EndInv, Phases
<1>. QED  BY <1>1, Invariance, PTL

\* An ingest that refused its input, or reported that it could not be stored,
\* left no file under its own name: committed always lists what was renamed.
THEOREM FailuresLeaveNothing == Spec => []FailureLeavesNothing
<1>1. Inv => FailureLeavesNothing
  <2> SUFFICES ASSUME Inv, NEW s \in Scenes, phase[s] = "raised", raised[s] \in {"invalid", "storage"}
               PROVE  final[s] = NoFiles
    BY DEF FailureLeavesNothing
  <2>1. Empty(s) /\ final[s] \in [Parts -> Content]
    BY DEF Inv, SceneInv, EndInv, IngestTypes
  <2>. QED  BY <2>1 DEF Empty, NoFiles
<1>. QED  BY <1>1, Invariance, PTL

\* A returned id is that of a stored scene for ever; an exception means that
\* the scene is not in the store.
THEOREM AnswersMatchStore == Spec => []AnswerMatchesStore
<1>1. Inv => AnswerMatchesStore
  <2> SUFFICES ASSUME Inv, NEW s \in Scenes
               PROVE  /\ phase[s] = "answered" => Exists(s, "manifest")
                      /\ phase[s] = "raised" => ~Exists(s, "manifest")
    BY DEF AnswerMatchesStore
  <2>1. "manifest" \in Needed(s)
    BY DEF Needed, Parts
  <2>. QED  BY <2>1 DEF Inv, SceneInv, EndInv, Complete, NoManifest, Exists
<1>. QED  BY <1>1, Invariance, PTL

-----------------------------------------------------------------------------
(* Sorting.                                                                *)

\* A set of numbers that is not empty has a least one.
LEMMA Least ==
  ASSUME NEW T \in SUBSET Nat, T # {}
  PROVE  \E m \in T : \A n \in T : m <= n
<1>1. IsWellFoundedOn(OpToRel(<, Nat), Nat)
  BY NatLessThanWellFounded
<1>2. PICK m \in T : \A n \in T : ~ (<<n, m>> \in OpToRel(<, Nat))
  BY <1>1, WFMin
<1>3. \A n \in T : ~ (n < m)
  BY <1>2 DEF OpToRel
<1>. QED  BY <1>3

\* Induction, for a property given as the set of the numbers that have it.
LEMMA Induction ==
  ASSUME NEW S, 0 \in S, \A n \in Nat : n \in S => n + 1 \in S
  PROVE  Nat \subseteq S
<1> SUFFICES ASSUME Nat \ S # {} PROVE FALSE
  OBVIOUS
<1>1. PICK m \in Nat \ S : \A n \in Nat \ S : m <= n
  BY Least
<1>2. m # 0 /\ m - 1 \in Nat
  BY <1>1
<1>3. m - 1 \in S
  BY <1>1, <1>2
<1>. QED  BY <1>1, <1>2, <1>3

\* A bounded set of numbers that is not empty has a greatest one.
LEMMA Greatest ==
  ASSUME NEW n \in Nat, NEW S \in SUBSET (1 .. n), S # {}
  PROVE  \E m \in S : \A x \in S : x <= m
<1> DEFINE T == {n - x : x \in S}
<1>1. T \in SUBSET Nat /\ T # {}
  <2>1. \A x \in S : n - x \in Nat
    OBVIOUS
  <2>. QED  BY <2>1
<1>2. PICK d \in T : \A y \in T : d <= y
  BY <1>1, Least
<1>3. PICK m \in S : d = n - m
  BY <1>2
<1>4. ASSUME NEW x \in S PROVE x <= m
  <2>1. n - x \in T
    OBVIOUS
  <2>2. n - m <= n - x
    BY <2>1, <1>2, <1>3
  <2>3. m \in Nat /\ x \in Nat
    OBVIOUS
  <2>. QED  BY <2>2, <2>3
<1>. QED  BY <1>4

\* The numbers of a bounded set, counted down.
CountedDown(S) ==
  {g \in [1 .. Cardinality(S) -> S] : \A i, j \in 1 .. Cardinality(S) : i < j => g[i] > g[j]}

LEMMA CountDown ==
  ASSUME NEW n \in Nat, NEW S \in SUBSET (1 .. n)
  PROVE  CountedDown(S) # {}
<1> DEFINE Sortable == {k \in Nat : \A D \in SUBSET (1 .. n) :
                          Cardinality(D) = k => CountedDown(D) # {}}
<1>1. \A D \in SUBSET (1 .. n) : IsFiniteSet(D) /\ Cardinality(D) \in Nat
  <2>1. IsFiniteSet(1 .. n)
    BY FS_Interval
  <2>. QED  BY <2>1, FS_Subset, FS_CardinalityType
<1>2. 0 \in Sortable
  <2> SUFFICES ASSUME NEW D \in SUBSET (1 .. n), Cardinality(D) = 0 PROVE CountedDown(D) # {}
    OBVIOUS
  <2>1. [i \in 1 .. 0 |-> i] \in CountedDown(D)
    BY DEF CountedDown
  <2>. QED  BY <2>1
<1>3. ASSUME NEW k \in Nat, k \in Sortable PROVE k + 1 \in Sortable
  <2> SUFFICES ASSUME NEW D \in SUBSET (1 .. n), Cardinality(D) = k + 1
               PROVE  CountedDown(D) # {}
    OBVIOUS
  <2>1. D # {}
    BY FS_EmptySet
  <2>2. PICK m \in D : \A x \in D : x <= m
    BY <2>1, Greatest
  <2>3. Cardinality(D \ {m}) = k
    BY <1>1, FS_RemoveElement
  <2>4. PICK g : g \in CountedDown(D \ {m})
    BY <1>3, <2>3
  <2>5. /\ g \in [1 .. k -> D \ {m}]
        /\ \A i, j \in 1 .. k : i < j => g[i] > g[j]
    BY <2>3, <2>4 DEF CountedDown
  <2> DEFINE h == [i \in 1 .. k + 1 |-> IF i = 1 THEN m ELSE g[i - 1]]
  <2>6. h \in [1 .. k + 1 -> D]
    <3> SUFFICES ASSUME NEW i \in 1 .. k + 1, i # 1 PROVE g[i - 1] \in D
      OBVIOUS
    <3>1. i - 1 \in 1 .. k
      OBVIOUS
    <3>. QED  BY <3>1, <2>5
  <2>7. ASSUME NEW i \in 1 .. k + 1, NEW j \in 1 .. k + 1, i < j PROVE h[i] > h[j]
    <3>1. j - 1 \in 1 .. k /\ h[j] = g[j - 1] /\ g[j - 1] \in D \ {m}
      BY <2>5, <2>7
    <3>2. CASE i = 1
      <4>1. \A x \in D : x <= m /\ x \in Nat
        BY <2>2
      <4>2. g[j - 1] <= m /\ g[j - 1] # m /\ m \in Nat /\ g[j - 1] \in Nat
        BY <3>1, <4>1
      <4>. QED  BY <4>2, <3>1, <3>2
    <3>3. CASE i # 1
      <4>1. i - 1 \in 1 .. k /\ i - 1 < j - 1 /\ h[i] = g[i - 1]
        BY <3>3, <2>7
      <4>. QED  BY <4>1, <3>1, <2>5
    <3>. QED  BY <3>2, <3>3
  <2>8. h \in CountedDown(D)
    BY <2>6, <2>7 DEF CountedDown
  <2>. QED  BY <2>8
<1>4. Nat \subseteq Sortable
  <2> HIDE DEF Sortable
  <2>. QED  BY <1>2, <1>3, Induction
<1>. QED  BY <1>1, <1>4

\* What sorting a set by an order that has all of it returns: its members,
\* each once.
LEMMA Sorted ==
  ASSUME NEW order \in Seq(Scenes), NEW set \in SUBSET ToSet(order)
  PROVE  /\ NewestFirst(order, set) \in Seq(Scenes)
         /\ ToSet(NewestFirst(order, set)) = set
         /\ IsFiniteSet(set) /\ Len(NewestFirst(order, set)) = Cardinality(set)
         /\ \A i, j \in 1 .. Len(NewestFirst(order, set)) :
              i # j => NewestFirst(order, set)[i] # NewestFirst(order, set)[j]
<1> DEFINE D == {Place(order, s) : s \in set}
           c == Cardinality(set)
           Down(l) == \A i, j \in DOMAIN l : i < j => Place(order, l[i]) > Place(order, l[j])
           n == NewestFirst(order, set)
<1>1. ASSUME NEW s \in set PROVE Place(order, s) \in 1 .. Len(order) /\ order[Place(order, s)] = s
  <2>1. \E i \in DOMAIN order : order[i] = s
    BY DEF ToSet
  <2>2. Place(order, s) \in DOMAIN order /\ order[Place(order, s)] = s
    BY <2>1 DEF Place
  <2>. QED  BY <2>2
<1>2. D \in SUBSET (1 .. Len(order)) /\ Len(order) \in Nat
  BY <1>1
<1>3. IsFiniteSet(D)
  <2>1. IsFiniteSet(1 .. Len(order))
    BY <1>2, FS_Interval
  <2>. QED  BY <1>2, <2>1, FS_Subset
<1>4. [d \in D |-> order[d]] \in Bijection(D, set)
  <2>1. [d \in D |-> order[d]] \in [D -> set]
    BY <1>1
  <2>2. \A d, e \in D : [x \in D |-> order[x]][d] = [x \in D |-> order[x]][e] => d = e
    BY <1>1
  <2>3. \A s \in set : \E d \in D : [x \in D |-> order[x]][d] = s
    BY <1>1
  <2>. QED  BY <2>1, <2>2, <2>3 DEF Bijection, Injection, Surjection, IsInjective
<1>5. IsFiniteSet(set) /\ c = Cardinality(D) /\ c \in Nat
  BY <1>3, <1>4, FS_Bijection, FS_CardinalityType DEF ExistsBijection
<1>6. PICK g : g \in CountedDown(D)
  BY <1>2, CountDown
<1>7. /\ g \in [1 .. c -> D]
      /\ \A i, j \in 1 .. c : i < j => g[i] > g[j]
  BY <1>5, <1>6 DEF CountedDown
<1> DEFINE h == [i \in 1 .. c |-> order[g[i]]]
<1>8. h \in [1 .. c -> set] /\ Down(h)
  <2>1. \A i \in 1 .. c : order[g[i]] \in set /\ Place(order, order[g[i]]) = g[i]
    BY <1>1, <1>7
  <2>. QED  BY <2>1, <1>7
<1>9. set \cap ToSet(order) = set
  OBVIOUS
<1>10. n = CHOOSE l \in [1 .. c -> set] : Down(l)
  BY <1>9, Zenon DEF NewestFirst
<1>11. n \in [1 .. c -> set] /\ Down(n)
  <2> HIDE DEF Down, h, n, c
  <2>. QED  BY <1>8, <1>10
<1>12. /\ Len(n) = c /\ DOMAIN n = 1 .. c /\ n \in Seq(set)
  <2> HIDE DEF n, c, Down
  <2>1. n \in [1 .. c -> set] /\ c \in Nat
    BY <1>5, <1>11
  <2>. QED  BY <2>1
<1>13. \A i, j \in 1 .. c : i # j => n[i] # n[j]
  <2> SUFFICES ASSUME NEW i \in 1 .. c, NEW j \in 1 .. c, i < j PROVE n[i] # n[j]
    BY <1>5
  <2>1. Place(order, n[i]) > Place(order, n[j])
    BY <1>11, <1>12
  <2>2. Place(order, n[i]) \in Nat /\ Place(order, n[j]) \in Nat
    BY <1>1, <1>11
  <2>. QED  BY <2>1, <2>2
<1>14. ToSet(n) = set
  <2> HIDE DEF n, c
  <2>1. n \in Injection(1 .. c, set)
    BY <1>11, <1>13 DEF Injection, IsInjective
  <2>2. Cardinality(1 .. c) = c
    BY <1>5, FS_Interval
  <2>3. n \in Surjection(1 .. c, set)
    BY <1>5, <2>1, <2>2, FS_Injection DEF c
  <2>4. \A s \in set : \E i \in 1 .. c : n[i] = s
    BY <2>3 DEF Surjection
  <2>. QED  BY <2>4, <1>11, <1>12 DEF ToSet
<1>15. n \in Seq(Scenes)
  <2>1. set \subseteq Scenes
    BY DEF ToSet
  <2> HIDE DEF n, c
  <2>. QED  BY <2>1, <1>12
<1>. QED  BY <1>5, <1>12, <1>13, <1>14, <1>15

-----------------------------------------------------------------------------
(* Listings.                                                               *)

\* A scene has its upload time before its manifest is written, and both
\* before the manifest can have its own name.
OrderInv(s) ==
  /\ phase[s] = "write" /\ part[s] = "manifest" => s \in ToSet(stamped)
  /\ temp[s]["manifest"] = "whole" \/ ~NoManifest(s) =>
       s \in ToSet(stamped) /\ s \in ToSet(written)

NoneTwice(seq) == \A i, j \in 1 .. Len(seq) : i # j => seq[i] # seq[j]

\* Nothing owed is lost on the way: it was found, could not be read, or is
\* still a candidate.
LookInv ==
  reader = "looking" =>
    /\ Len(found) <= Limit
    /\ NoneTwice(found) /\ NoneTwice(candidates)
    /\ ToSet(found) \cap ToSet(candidates) = {}
    /\ ToSet(found) \subseteq ToSet(stamped)
    /\ owed \subseteq ToSet(found) \cup unread \cup ToSet(candidates)

ListTypes ==
  /\ reader \in {"idle", "looking", "listed"}
  /\ candidates \in Seq(Scenes) /\ found \in Seq(Scenes)
  /\ owed \in SUBSET Scenes /\ unread \in SUBSET Scenes

ListInv ==
  /\ ListTypes
  /\ \A s \in owed : phase[s] = "answered"
  /\ LookInv
  /\ ListingOwesAnswered

StoreInv == Inv /\ (\A s \in Scenes : OrderInv(s)) /\ ListInv

LEMMA AppendedSet ==
  ASSUME NEW S, NEW seq \in Seq(S), NEW x
  PROVE  ToSet(Append(seq, x)) = ToSet(seq) \cup {x}
<1>1. /\ Len(seq) \in Nat /\ DOMAIN seq = 1 .. Len(seq)
      /\ DOMAIN Append(seq, x) = 1 .. Len(seq) + 1
      /\ Append(seq, x)[Len(seq) + 1] = x
      /\ \A i \in 1 .. Len(seq) : Append(seq, x)[i] = seq[i]
  OBVIOUS
<1>2. \A i \in 1 .. Len(seq) + 1 : i = Len(seq) + 1 \/ i \in 1 .. Len(seq)
  BY <1>1
<1>3. 1 .. Len(seq) \subseteq 1 .. Len(seq) + 1 /\ Len(seq) + 1 \in 1 .. Len(seq) + 1
  BY <1>1
<1>. QED  BY <1>1, <1>2, <1>3, Zenon DEF ToSet

\* No scene leaves the two orders.
LEMMA OrdersGrow ==
  ASSUME Inv, NEW s \in Scenes, Reject(s) \/ Begin(s) \/ Proceed(s)
  PROVE  /\ ToSet(stamped) \subseteq ToSet(stamped') /\ ToSet(written) \subseteq ToSet(written')
         /\ UNCHANGED listVars
<1>1. stamped \in Seq(Scenes) /\ written \in Seq(Scenes)
  BY DEF Inv, IngestTypes
<1>2. CASE Stamp(s)
  BY <1>1, <1>2, AppendedSet DEF Stamp
<1>3. CASE Write(s)
  BY <1>1, <1>3, AppendedSet DEF Write
<1>4. CASE ~Stamp(s) /\ ~Write(s)
  BY <1>4 DEF Reject, Begin, Proceed, WriteFails, StampFails, Replace, ReplaceFails, Unlink,
     UnlinkFails, RaiseStorageError, CleanUp
<1>. QED  BY <1>2, <1>3, <1>4

\* The steps of an ingest keep the two orders complete for its scene.
LEMMA OrderStep ==
  ASSUME Inv, NEW s \in Scenes, OrderInv(s), Reject(s) \/ Begin(s) \/ Proceed(s)
  PROVE  OrderInv(s)'
<1>0. /\ IngestTypes /\ SceneInv(s) /\ phase[s] \in Phases /\ part[s] \in Parts
      /\ temp[s] \in [Parts -> Content] /\ final[s] \in [Parts -> Content]
      /\ stamped \in Seq(Scenes) /\ written \in Seq(Scenes) /\ "manifest" \in Parts
  BY DEF Inv, IngestTypes, Parts
<1>1. ToSet(stamped) \subseteq ToSet(stamped') /\ ToSet(written) \subseteq ToSet(written')
  BY OrdersGrow
<1>2. CASE Reject(s)
  BY <1>0, <1>1, <1>2 DEF Reject, OrderInv, NoManifest, IngestTypes
<1>3. CASE Begin(s)
  <2>1. temp' = temp /\ final' = final
    BY <1>3 DEF Begin
  <2>2. part'[s] # "manifest"
    BY <1>0, <1>3 DEF Begin, FirstPart, IngestTypes
  <2>. QED  BY <1>1, <2>1, <2>2 DEF OrderInv, NoManifest
<1>4. CASE Write(s)
  <2>1. final' = final /\ stamped' = stamped /\ phase[s] = "write"
    BY <1>4 DEF Write
  <2>2. temp'[s] = [temp[s] EXCEPT ![part[s]] = "whole"]
    BY <1>0, <1>4 DEF Write, IngestTypes
  <2>3. phase'[s] = CASE part[s] = "raster" -> "write" [] part[s] = "preview" -> "stamp" [] OTHER -> "replace"
    BY <1>0, <1>4 DEF Write, IngestTypes
  <2>4. part'[s] = IF part[s] = "manifest" THEN FirstPart(tiff[s]) ELSE FollowingPart(part[s])
    BY <1>0, <1>4 DEF Write, IngestTypes
  <2>5. CASE part[s] = "manifest"
    <3>1. s \in ToSet(stamped)
      BY <2>1, <2>5 DEF OrderInv
    <3>2. s \in ToSet(written')
      BY <1>0, <1>4, <2>5, AppendedSet DEF Write
    <3>. QED  BY <3>1, <3>2, <2>1, <2>3, <2>5 DEF OrderInv
  <2>6. CASE part[s] # "manifest"
    <3>1. temp'[s]["manifest"] = temp[s]["manifest"]
      BY <1>0, <2>2, <2>6
    <3>2. ~(phase'[s] = "write" /\ part'[s] = "manifest")
      BY <1>0, <2>3, <2>4, <2>6 DEF FollowingPart, Parts
    <3>. QED  BY <1>1, <2>1, <3>1, <3>2 DEF OrderInv, NoManifest
  <2>. QED  BY <2>5, <2>6
<1>5. CASE WriteFails(s)
  <2>1. PICK left \in {"absent", "partial"} : temp' = [temp EXCEPT ![s][part[s]] = left]
    BY <1>5 DEF WriteFails
  <2>2. temp'[s] = [temp[s] EXCEPT ![part[s]] = left]
    BY <1>0, <2>1 DEF IngestTypes
  <2>3. temp'[s]["manifest"] = "whole" => temp[s]["manifest"] = "whole"
    BY <1>0, <2>2
  <2>4. final' = final /\ phase'[s] = "rollback" /\ UNCHANGED <<stamped, written>>
    BY <1>0, <1>5 DEF WriteFails, IngestTypes
  <2>. QED  BY <2>3, <2>4 DEF OrderInv, NoManifest
<1>6. CASE Stamp(s)
  <2>1. temp' = temp /\ final' = final /\ s \in ToSet(stamped')
    BY <1>0, <1>6, AppendedSet DEF Stamp
  <2>. QED  BY <1>1, <2>1 DEF OrderInv, NoManifest
<1>7. CASE StampFails(s)
  <2>1. temp' = temp /\ final' = final /\ phase'[s] = "rollback"
    BY <1>0, <1>7 DEF StampFails, IngestTypes
  <2>. QED  BY <1>1, <2>1 DEF OrderInv, NoManifest
<1>8. CASE Replace(s)
  <2>1. temp[s][part[s]] = "whole"
    <3>1. ~(Rank(part[s]) < Rank(part[s]))
      BY <1>0, PartOrder
    <3>. QED  BY <1>0, <1>8, <3>1 DEF Replace, SceneInv, ReplaceInv
  <2>2. final'[s] = [final[s] EXCEPT ![part[s]] = "whole"]
    BY <1>0, <1>8, <2>1 DEF Replace, IngestTypes
  <2>3. temp'[s] = [temp[s] EXCEPT ![part[s]] = "absent"]
    BY <1>0, <1>8 DEF Replace, IngestTypes
  <2>4. phase'[s] # "write"
    BY <1>0, <1>8 DEF Replace, IngestTypes
  <2>5. temp'[s]["manifest"] = "whole" \/ final'[s]["manifest"] # "absent"
        => temp[s]["manifest"] = "whole" \/ final[s]["manifest"] # "absent"
    BY <1>0, <2>1, <2>2, <2>3
  <2>. QED  BY <1>1, <2>4, <2>5 DEF OrderInv, NoManifest
<1>9. CASE ReplaceFails(s)
  <2>1. temp' = temp /\ final' = final /\ phase'[s] = "rollback"
    BY <1>0, <1>9 DEF ReplaceFails, IngestTypes
  <2>. QED  BY <1>1, <2>1 DEF OrderInv, NoManifest
<1>10. CASE Unlink(s)
  <2>1. final'[s] = [final[s] EXCEPT ![Head(committed[s])] = "absent"]
    BY <1>0, <1>10 DEF Unlink, IngestTypes
  <2>2. temp' = temp /\ phase'[s] # "write"
    BY <1>10 DEF Unlink
  <2>3. final'[s]["manifest"] # "absent" => final[s]["manifest"] # "absent"
    BY <1>0, <2>1
  <2>. QED  BY <1>1, <2>2, <2>3 DEF OrderInv, NoManifest
<1>11. CASE UnlinkFails(s) \/ RaiseStorageError(s)
  <2>1. temp' = temp /\ final' = final /\ phase'[s] = "cleanup"
    BY <1>0, <1>11 DEF UnlinkFails, RaiseStorageError, IngestTypes
  <2>. QED  BY <1>1, <2>1 DEF OrderInv, NoManifest
<1>12. CASE CleanUp(s)
  <2>1. PICK kept \in SUBSET Parts :
          temp' = [temp EXCEPT ![s] = [p \in Parts |-> IF p \in kept THEN temp[s][p] ELSE "absent"]]
    BY <1>12 DEF CleanUp
  <2>2. temp'[s]["manifest"] = "whole" => temp[s]["manifest"] = "whole"
    BY <1>0, <2>1 DEF IngestTypes
  <2>3. final' = final /\ phase'[s] # "write"
    BY <1>0, <1>12 DEF CleanUp, IngestTypes
  <2>. QED  BY <1>1, <2>2, <2>3 DEF OrderInv, NoManifest
<1>. QED  BY <1>2, <1>3, <1>4, <1>5, <1>6, <1>7, <1>8, <1>9, <1>10, <1>11, <1>12 DEF Proceed

\* A scene that is answered for is listed with both orders.
LEMMA Answered ==
  ASSUME Inv, NEW s \in Scenes, OrderInv(s), phase[s] = "answered"
  PROVE  Usable(s) /\ Exists(s, "manifest") /\ s \in ToSet(written)
<1>1. Complete(s) /\ "manifest" \in Needed(s) /\ "preview" \in Needed(s)
  BY DEF Inv, SceneInv, EndInv, Needed, Parts
<1>. QED  BY <1>1 DEF Complete, Usable, Exists, OrderInv, NoManifest

\* A listing collects every scene answered for.
LEMMA ListStep ==
  ASSUME StoreInv, List
  PROVE  ListInv'
<1> DEFINE set == {s \in Scenes : Exists(s, "manifest")}
<1>1. written \in Seq(Scenes) /\ reader' = "looking" /\ found' = <<>> /\ unread' = {} /\ UNCHANGED ingestVars
      /\ owed' = {s \in Scenes : phase[s] = "answered"} /\ candidates' = NewestFirst(written, set)
  BY DEF StoreInv, Inv, IngestTypes, List
<1>2. set \in SUBSET ToSet(written)
  BY DEF StoreInv, OrderInv, NoManifest, Exists
<1>3. candidates' \in Seq(Scenes) /\ ToSet(candidates') = set /\ NoneTwice(candidates')
  BY <1>1, <1>2, Sorted DEF NoneTwice
<1>4. owed' \subseteq set
  BY <1>1, Answered DEF StoreInv
<1>5. found' \in Seq(Scenes) /\ Len(found') = 0 /\ ToSet(found') = {} /\ NoneTwice(found')
  BY <1>1 DEF ToSet, NoneTwice
<1>6. Limit \in Nat
  BY ConstantsAssumption
<1>7. ListTypes' /\ (\A s \in owed' : phase'[s] = "answered")
  BY <1>1, <1>3, <1>5 DEF ListTypes, ingestVars
<1>8. LookInv'
  BY <1>3, <1>4, <1>5, <1>6 DEF LookInv
<1>9. ListingOwesAnswered'
  BY <1>1 DEF ListingOwesAnswered
<1>. QED  BY <1>7, <1>8, <1>9 DEF ListInv

\* The candidates after the first are candidates still, and the first is not.
LEMMA NextCandidate ==
  ASSUME candidates \in Seq(Scenes), candidates # <<>>, NoneTwice(candidates), NEW rest, rest = Tail(candidates)
  PROVE  /\ Head(candidates) \in Scenes /\ rest \in Seq(Scenes) /\ NoneTwice(rest)
         /\ ToSet(candidates) = {Head(candidates)} \cup ToSet(rest) /\ Head(candidates) \notin ToSet(rest)
<1> DEFINE c == Head(candidates)
<1>1. /\ Len(candidates) \in Nat \ {0} /\ c = candidates[1] /\ c \in Scenes
      /\ rest \in Seq(Scenes) /\ Len(rest) = Len(candidates) - 1
      /\ \A i \in 1 .. Len(rest) : rest[i] = candidates[i + 1]
  OBVIOUS
<1>2. NoneTwice(rest)
  <2>1. ASSUME NEW i \in 1 .. Len(rest), NEW j \in 1 .. Len(rest), i # j
        PROVE  rest[i] # rest[j]
    <3>1. i + 1 \in 1 .. Len(candidates) /\ j + 1 \in 1 .. Len(candidates) /\ i + 1 # j + 1
      BY <1>1, <2>1
    <3>. QED  BY <3>1, <1>1 DEF NoneTwice
  <2>. QED  BY <2>1 DEF NoneTwice
<1>3. ToSet(candidates) = {c} \cup ToSet(rest)
  <2>1. ASSUME NEW i \in 1 .. Len(candidates), i # 1 PROVE candidates[i] \in ToSet(rest)
    <3>1. i - 1 \in 1 .. Len(rest) /\ rest[i - 1] = candidates[i]
      BY <1>1, <2>1
    <3>2. DOMAIN rest = 1 .. Len(rest)
      BY <1>1
    <3>. QED  BY <3>1, <3>2, Zenon DEF ToSet
  <2>2. \A i \in 1 .. Len(rest) : rest[i] \in ToSet(candidates)
    BY <1>1 DEF ToSet
  <2>3. c \in ToSet(candidates)
    BY <1>1 DEF ToSet
  <2>4. ToSet(rest) \subseteq ToSet(candidates)
    BY <1>1, <2>2 DEF ToSet
  <2>5. ToSet(candidates) \subseteq {c} \cup ToSet(rest)
    <3>1. \A i \in 1 .. Len(candidates) : candidates[i] \in {c} \cup ToSet(rest)
      BY <1>1, <2>1
    <3>. QED  BY <3>1 DEF ToSet
  <2>. QED  BY <2>3, <2>4, <2>5
<1>4. c \notin ToSet(rest)
  BY <1>1 DEF NoneTwice, ToSet
<1>. QED  BY <1>1, <1>2, <1>3, <1>4

\* A candidate that is looked at was owed only if it is usable, and is found then.
LEMMA LookStep ==
  ASSUME StoreInv, Look
  PROVE  ListInv'
<1> DEFINE c == Head(candidates)
<1>0. /\ candidates \in Seq(Scenes) /\ found \in Seq(Scenes) /\ owed \in SUBSET Scenes
      /\ candidates # <<>> /\ reader = "looking" /\ Len(found) < Limit /\ LookInv
      /\ reader' = reader /\ owed' = owed /\ unread' = unread /\ unread \in SUBSET Scenes /\ UNCHANGED ingestVars
      /\ candidates' = Tail(candidates)
      /\ found' = IF Usable(c) THEN Append(found, c) ELSE found
  BY DEF StoreInv, ListInv, ListTypes, Look
<1>1. /\ c \in Scenes /\ candidates' \in Seq(Scenes) /\ NoneTwice(candidates')
      /\ ToSet(candidates) = {c} \cup ToSet(candidates') /\ c \notin ToSet(candidates')
  BY <1>0, NextCandidate DEF LookInv
<1>2. c \in owed => Usable(c)
  BY <1>1, Answered DEF StoreInv, ListInv
<1>3. c \notin ToSet(found)
  BY <1>0, <1>1 DEF LookInv
<1>4. found' \in Seq(Scenes) /\ ToSet(found') = IF Usable(c) THEN ToSet(found) \cup {c} ELSE ToSet(found)
  <2>1. Append(found, c) \in Seq(Scenes) /\ ToSet(Append(found, c)) = ToSet(found) \cup {c}
    BY <1>0, <1>1, AppendedSet
  <2>. QED  BY <1>0, <2>1
<1>5. NoneTwice(found') /\ Len(found') <= Limit
  <2>1. NoneTwice(found) /\ Len(found) \in Nat /\ Limit \in Nat
    BY <1>0, ConstantsAssumption DEF LookInv
  <2>2. CASE ~Usable(c)
    BY <1>0, <2>1, <2>2
  <2>3. CASE Usable(c)
    <3>1. found' = Append(found, c) /\ Len(found') = Len(found) + 1
      BY <1>0, <1>1, <2>3
    <3>2. \A i \in 1 .. Len(found) : found[i] # c /\ found'[i] = found[i]
      BY <1>0, <1>1, <1>3, <3>1 DEF ToSet
    <3>3. found'[Len(found) + 1] = c
      BY <1>0, <1>1, <3>1
    <3>. QED  BY <1>0, <2>1, <3>1, <3>2, <3>3 DEF NoneTwice
  <2>. QED  BY <2>2, <2>3
<1>6. Usable(c) => c \in ToSet(stamped)
  BY <1>1 DEF StoreInv, OrderInv, Usable, NoManifest
<1>7. ListTypes' /\ (\A s \in owed' : phase'[s] = "answered")
  BY <1>0, <1>1, <1>4 DEF StoreInv, ListInv, ListTypes, ingestVars
<1>8. LookInv'
  <2>1. ToSet(found') \cap ToSet(candidates') = {} /\ owed' \subseteq ToSet(found') \cup unread' \cup ToSet(candidates')
    BY <1>0, <1>1, <1>2, <1>4 DEF LookInv
  <2>2. ToSet(found') \subseteq ToSet(stamped')
    BY <1>0, <1>4, <1>6 DEF LookInv, ingestVars
  <2>. QED  BY <1>1, <1>5, <2>1, <2>2 DEF LookInv
<1>9. ListingOwesAnswered'
  BY <1>0 DEF ListingOwesAnswered
<1>. QED  BY <1>7, <1>8, <1>9 DEF ListInv

\* A candidate whose reading fails is hidden, and no other.
LEMMA LookFailsStep ==
  ASSUME StoreInv, LookFails
  PROVE  ListInv'
<1>0. /\ candidates \in Seq(Scenes) /\ candidates # <<>> /\ reader = "looking" /\ LookInv /\ ListTypes
      /\ UNCHANGED <<reader, found, owed, ingestVars>>
      /\ candidates' = Tail(candidates) /\ unread' = unread \cup {Head(candidates)}
  BY DEF StoreInv, ListInv, ListTypes, LookFails
<1>1. /\ Head(candidates) \in Scenes /\ candidates' \in Seq(Scenes) /\ NoneTwice(candidates')
      /\ ToSet(candidates) = {Head(candidates)} \cup ToSet(candidates')
  BY <1>0, NextCandidate DEF LookInv
<1>2. ListTypes' /\ (\A s \in owed' : phase'[s] = "answered")
  BY <1>0, <1>1 DEF StoreInv, ListInv, ListTypes, ingestVars
<1>3. LookInv'
  BY <1>0, <1>1 DEF LookInv, NoneTwice, ingestVars
<1>. QED  BY <1>0, <1>2, <1>3 DEF ListInv, ListingOwesAnswered

\* A failed scan hides every scene.
LEMMA ListFailsStep ==
  ASSUME StoreInv, ListFails
  PROVE  ListInv'
  BY DEF StoreInv, ListInv, ListTypes, LookInv, ListingOwesAnswered, ListFails, ingestVars

\* Sorting loses no scene and makes a full listing no shorter.
LEMMA ListedStep ==
  ASSUME StoreInv, Listed
  PROVE  ListInv'
<1>0. /\ candidates \in Seq(Scenes) /\ found \in Seq(Scenes) /\ owed \in SUBSET Scenes
      /\ stamped \in Seq(Scenes) /\ reader = "looking" /\ LookInv
      /\ candidates = <<>> \/ Len(found) >= Limit
      /\ reader' = "listed" /\ owed' = owed /\ unread' = unread /\ UNCHANGED ingestVars
      /\ candidates' = <<>> /\ found' = NewestFirst(stamped, ToSet(found))
  BY DEF StoreInv, Inv, IngestTypes, ListInv, ListTypes, Listed
<1>1. ToSet(found) \in SUBSET ToSet(stamped)
  BY <1>0 DEF LookInv
<1>2. /\ found' \in Seq(Scenes) /\ ToSet(found') = ToSet(found)
      /\ IsFiniteSet(ToSet(found)) /\ Len(found') = Cardinality(ToSet(found))
  BY <1>0, <1>1, Sorted
<1>3. Cardinality(ToSet(found)) = Len(found)
  <2>1. found \in Bijection(1 .. Len(found), ToSet(found))
    <3>1. found \in [1 .. Len(found) -> ToSet(found)]
      BY <1>0 DEF ToSet
    <3>2. \A i, j \in 1 .. Len(found) : found[i] = found[j] => i = j
      BY <1>0 DEF LookInv, NoneTwice
    <3>3. \A s \in ToSet(found) : \E i \in 1 .. Len(found) : found[i] = s
      BY <1>0 DEF ToSet
    <3>. QED  BY <3>1, <3>2, <3>3 DEF Bijection, Injection, Surjection, IsInjective
  <2>2. IsFiniteSet(1 .. Len(found)) /\ Cardinality(1 .. Len(found)) = Len(found)
    <3>1. Len(found) \in Nat
      BY <1>0
    <3>. QED  BY <3>1, FS_Interval
  <2>. QED  BY <2>1, <2>2, FS_Bijection DEF ExistsBijection
<1>4. ListTypes' /\ (\A s \in owed' : phase'[s] = "answered") /\ LookInv'
  BY <1>0, <1>2 DEF StoreInv, ListInv, ListTypes, LookInv, ingestVars
<1>5. ListingOwesAnswered'
  <2>1. CASE candidates = <<>>
    <3>1. ToSet(candidates) = {}
      BY <2>1 DEF ToSet
    <3>. QED  BY <1>0, <1>2, <3>1 DEF LookInv, ListingOwesAnswered
  <2>2. CASE Len(found) >= Limit
    <3>1. Len(found) = Limit
      BY <1>0, <2>2, ConstantsAssumption DEF LookInv
    <3>. QED  BY <1>2, <1>3, <3>1 DEF ListingOwesAnswered
  <2>. QED  BY <1>0, <2>1, <2>2
<1>. QED  BY <1>4, <1>5 DEF ListInv

\* An ingest beside a listing takes nothing from it.
LEMMA BesideStep ==
  ASSUME StoreInv, NEW s \in Scenes, Reject(s) \/ Begin(s) \/ Proceed(s)
  PROVE  ListInv'
<1>1. ToSet(stamped) \subseteq ToSet(stamped') /\ UNCHANGED <<reader, candidates, found, owed, unread>>
  BY OrdersGrow DEF StoreInv, listVars
<1>2. phase[s] # "answered"
  BY DEF Reject, Begin, MayStart, Proceed, Write, WriteFails, Stamp, StampFails, Replace,
     ReplaceFails, Unlink, UnlinkFails, RaiseStorageError, CleanUp
<1>3. ASSUME NEW t \in owed PROVE phase'[t] = "answered"
  <2>1. t \in Scenes /\ phase[t] = "answered" /\ IngestTypes
    BY DEF StoreInv, Inv, ListInv, ListTypes
  <2>. QED  BY <1>2, <2>1, Elsewhere
<1>. QED  BY <1>1, <1>3 DEF StoreInv, ListInv, ListTypes, LookInv, ListingOwesAnswered

\* Every step keeps both invariants.
LEMMA StorePreserved == StoreInv /\ [Next]_vars => StoreInv'
<1> SUFFICES ASSUME StoreInv, [Next]_vars PROVE StoreInv'
  OBVIOUS
<1>0. Inv'
  BY Preserved DEF StoreInv
<1>1. ASSUME NEW s \in Scenes, Reject(s) \/ Begin(s) \/ Proceed(s) PROVE StoreInv'
  <2>1. OrderInv(s)'
    BY <1>1, OrderStep DEF StoreInv
  <2>2. ASSUME NEW t \in Scenes, t # s PROVE OrderInv(t)'
    <3>1. IngestTypes /\ OrderInv(t)
      BY DEF StoreInv, Inv
    <3>2. phase'[t] = phase[t] /\ part'[t] = part[t] /\ temp'[t] = temp[t] /\ final'[t] = final[t]
      BY <1>1, <2>2, <3>1, Elsewhere
    <3>3. ToSet(stamped) \subseteq ToSet(stamped') /\ ToSet(written) \subseteq ToSet(written')
      BY <1>1, OrdersGrow DEF StoreInv
    <3>. QED  BY <3>1, <3>2, <3>3 DEF OrderInv, NoManifest
  <2>3. ListInv'
    BY <1>1, BesideStep
  <2>. QED  BY <1>0, <2>1, <2>2, <2>3 DEF StoreInv
<1>2. ASSUME UNCHANGED ingestVars PROVE \A s \in Scenes : OrderInv(s)'
  BY <1>2 DEF StoreInv, OrderInv, NoManifest, ingestVars
<1>3. CASE List
  BY <1>0, <1>2, <1>3, ListStep DEF StoreInv, List
<1>4. CASE ListFails
  BY <1>0, <1>2, <1>4, ListFailsStep DEF StoreInv, ListFails
<1>5. CASE Look
  BY <1>0, <1>2, <1>5, LookStep DEF StoreInv, Look
<1>6. CASE LookFails
  BY <1>0, <1>2, <1>6, LookFailsStep DEF StoreInv, LookFails
<1>7. CASE Listed
  BY <1>0, <1>2, <1>7, ListedStep DEF StoreInv, Listed
<1>8. CASE ProcessCrash
  <2>1. PICK torn \in SUBSET {s \in Scenes : phase[s] = "write"} :
          temp' = [s \in Scenes |->
            IF s \in torn THEN [temp[s] EXCEPT ![part[s]] = "partial"] ELSE temp[s]]
    BY <1>8 DEF ProcessCrash
  <2>2. ASSUME NEW s \in Scenes PROVE OrderInv(s)'
    <3>1. temp[s] \in [Parts -> Content] /\ "manifest" \in Parts /\ OrderInv(s)
      BY DEF StoreInv, Inv, IngestTypes, Parts
    <3>2. temp'[s]["manifest"] = "whole" => temp[s]["manifest"] = "whole"
      BY <2>1, <3>1
    <3>3. phase'[s] # "write" /\ UNCHANGED <<final, stamped, written>>
      BY <1>8 DEF ProcessCrash, Busy, Phases
    <3>. QED  BY <3>1, <3>2, <3>3 DEF OrderInv, NoManifest
  <2>3. reader' = "idle" /\ candidates' = <<>> /\ found' = <<>> /\ owed' = {} /\ unread' = {}
    BY <1>8 DEF ProcessCrash
  <2>4. ListInv'
    BY <2>3 DEF ListInv, ListTypes, LookInv, ListingOwesAnswered
  <2>. QED  BY <1>0, <2>2, <2>4 DEF StoreInv
<1>9. CASE UNCHANGED vars
  <2>1. ListInv'
    BY <1>9 DEF StoreInv, ListInv, ListTypes, LookInv, NoneTwice, ListingOwesAnswered, vars, ingestVars,
       listVars
  <2>. QED  BY <1>0, <1>2, <1>9, <2>1 DEF StoreInv, vars
<1>. QED  BY <1>1, <1>3, <1>4, <1>5, <1>6, <1>7, <1>8, <1>9 DEF Next

\* A listing of uploaded_scenes holds every scene whose id had been returned
\* when it began, unless it is full or a failed read kept the scene from it,
\* for any number of scenes and any limit, whatever is ingested, fails or dies
\* beside it and whatever reads of other scenes fail; where it stops at the
\* limit, which scenes it dropped is another matter (services.py:610).
THEOREM ListingsOweAnswered == Spec => []ListingOwesAnswered
<1>1. Init => StoreInv
  <2> SUFFICES ASSUME Init PROVE StoreInv
    OBVIOUS
  <2>1. ASSUME NEW s \in Scenes PROVE OrderInv(s)
    <3>1. "manifest" \in Parts /\ NoFiles["manifest"] = "absent"
      BY DEF Parts, NoFiles
    <3>. QED  BY <3>1 DEF Init, OrderInv, NoManifest
  <2>2. ListInv
    BY DEF Init, ListInv, ListTypes, LookInv, ListingOwesAnswered
  <2>. QED  BY <2>1, <2>2, Initially DEF StoreInv
<1>2. StoreInv => ListingOwesAnswered
  BY DEF StoreInv, ListInv
<1>. QED  BY <1>1, <1>2, StorePreserved, PTL DEF Spec
=============================================================================
