----------------------------- MODULE UploadProofs -----------------------------
(***************************************************************************)
(* Proofs about UploadPage against UploadServer, for any number of uploads *)
(* and chunks, of files and of faults: what is charged, and how often an   *)
(* upload is run, by counting the handlers that can still do either; then, *)
(* by the one upload a step moves, what its last answer and the results on *)
(* the page say of the server, and which file is uploaded.                 *)
(***************************************************************************)
EXTENDS UploadPage, FiniteSetTheorems, SequenceTheorems, TLAPS

-----------------------------------------------------------------------------
(* Counting handlers. *)

(* The slots of an upload whose handler is at one of some places. *)
HandlersAt(u, places) == {i \in Slot : At(u, i) \in places}
InPlace(u, places) == Cardinality(HandlersAt(u, places))

HandlerRecord == [at : {"none"} \cup Place \cup Answer, chunk : Nat]
UploaderRecord == [at : {"none", "health", "send", "wait", "ended"},
                   chunk : Nat, slot : Slot]

LEMMA SlotsAreFinite == IsFiniteSet(Slot) /\ 0 \in Slot
BY BoundsAreNaturals, FS_Interval DEF Slot

LEMMA PlacesAreCounted ==
  ASSUME NEW u, NEW places
  PROVE  InPlace(u, places) \in Nat /\ InPlace(u, places)' \in Nat
<1>1. /\ IsFiniteSet(HandlersAt(u, places))
      /\ IsFiniteSet(HandlersAt(u, places)')
  BY SlotsAreFinite, FS_Subset DEF HandlersAt
<1> QED
  BY <1>1, FS_CardinalityType DEF InPlace

(* A step that changes nothing but the handler in one slot. *)
Moves(v, i, r) == handler' = [handler EXCEPT ![v][i] = r]

(* How the count changes when one handler moves: only that of its own      *)
(* upload, by at most one, and not upwards unless it enters the places     *)
(* counted.                                                                *)
LEMMA MoveCounts ==
  ASSUME TypeOK, NEW u \in Upload, NEW places, NEW v \in Upload, NEW i \in Slot,
         NEW r, Moves(v, i, r)
  PROVE  /\ u # v => InPlace(u, places)' = InPlace(u, places)
         /\ InPlace(u, places)' <= InPlace(u, places) + 1
         /\ r.at \notin places \/ At(v, i) \in places
              => InPlace(u, places)' <= InPlace(u, places)
         /\ u = v /\ r.at \notin places /\ At(v, i) \in places
              => InPlace(u, places)' <= InPlace(u, places) - 1
<1> DEFINE H == HandlersAt(u, places)
<1>1. \A j \in Slot : At(u, j)' = IF u = v /\ j = i THEN r.at ELSE At(u, j)
  BY DEF TypeOK, Moves, At
<1>2. IsFiniteSet(H) /\ IsFiniteSet(H') /\ Cardinality(H) \in Nat /\ Cardinality(H') \in Nat
  BY SlotsAreFinite, FS_Subset, FS_CardinalityType DEF HandlersAt
<1>3. u # v => H' = H
  BY <1>1 DEF HandlersAt
<1>4. H' \subseteq H \cup {i}
  BY <1>1 DEF HandlersAt
<1>5. r.at \notin places \/ At(v, i) \in places => H' \subseteq H
  BY <1>1 DEF HandlersAt
<1>6. u = v /\ r.at \notin places /\ At(v, i) \in places => H' \subseteq H \ {i} /\ i \in H
  BY <1>1 DEF HandlersAt
<1> HIDE DEF H
<1>7. /\ IsFiniteSet(H \cup {i}) /\ Cardinality(H \cup {i}) <= Cardinality(H) + 1
      /\ IsFiniteSet(H \ {i}) /\ (i \in H => Cardinality(H \ {i}) = Cardinality(H) - 1)
  <2>1. IsFiniteSet(H)
    BY <1>2
  <2>2. /\ IsFiniteSet(H \cup {i})
        /\ Cardinality(H \cup {i}) = IF i \in H THEN Cardinality(H) ELSE Cardinality(H) + 1
    BY <2>1, FS_AddElement
  <2>3. /\ IsFiniteSet(H \ {i})
        /\ Cardinality(H \ {i}) = IF i \in H THEN Cardinality(H) - 1 ELSE Cardinality(H)
    BY <2>1, FS_RemoveElement
  <2> QED
    BY <1>2, <2>2, <2>3
<1>8. Cardinality(H') <= Cardinality(H) + 1
  <2>1. Cardinality(H') <= Cardinality(H \cup {i}) /\ Cardinality(H \cup {i}) \in Nat
    BY <1>4, <1>7, FS_Subset, FS_CardinalityType
  <2> QED
    BY <1>2, <1>7, <2>1
<1>9. r.at \notin places \/ At(v, i) \in places => Cardinality(H') <= Cardinality(H)
  BY <1>2, <1>5, FS_Subset
<1>10. u = v /\ r.at \notin places /\ At(v, i) \in places
         => Cardinality(H') <= Cardinality(H) - 1
  <2>1. IsFiniteSet(H \ {i}) /\ Cardinality(H \ {i}) \in Nat
    BY <1>7, FS_CardinalityType
  <2> QED
    BY <1>2, <1>6, <1>7, <2>1, FS_Subset
<1> QED
  BY <1>3, <1>8, <1>9, <1>10 DEF H, InPlace

LEMMA GotoMoves ==
  ASSUME TypeOK, NEW v \in Upload, NEW i \in Slot, NEW at, Goto(v, i, at)
  PROVE  Moves(v, i, [at |-> at, chunk |-> Chunk(v, i)])
<1>1. handler[v][i] \in HandlerRecord
  BY DEF TypeOK, HandlerRecord
<1>2. [handler[v][i] EXCEPT !.at = at] = [at |-> at, chunk |-> handler[v][i].chunk]
  BY <1>1 DEF HandlerRecord
<1>3. handler' = [handler EXCEPT ![v][i] = [handler[v][i] EXCEPT !.at = at]]
  BY DEF Goto
<1> QED
  BY <1>2, <1>3 DEF Moves, Chunk

-----------------------------------------------------------------------------
(* Type correctness. *)

LEMMA NoRecords == /\ NoHandler \in HandlerRecord /\ NoHandler.at = "none" /\ NoHandler.chunk = 0
                   /\ NoUploader \in UploaderRecord
                   /\ [NoUploader EXCEPT !.at = "ended"] \in UploaderRecord
                   /\ [NoUploader EXCEPT !.at = "ended"].chunk = 0
                   /\ [NoUploader EXCEPT !.at = "ended"].at = "ended"
BY SlotsAreFinite DEF NoHandler, NoUploader, HandlerRecord, UploaderRecord

(* The types of the handlers, and of the uploaders. *)
HandlersOK == /\ handler \in [Upload -> [Slot -> HandlerRecord]]
              /\ \A u \in Upload, i \in Slot : Chunk(u, i) < Chunks[u]
UploadersOK == /\ uploader \in [Upload -> UploaderRecord]
               /\ \A u \in Upload : uploader[u].chunk < Chunks[u]
SessionsOK == /\ sessions \in [Upload -> SUBSET Nat]
              /\ \A u \in Upload : sessions[u] \subseteq 0..Chunks[u] - 1
CountsOK == /\ visits \in [Upload -> Nat] /\ runs \in [Upload -> Nat] /\ repeats \in [Upload -> Nat]
            /\ charged \in [Upload -> [address : Nat, global : Nat]]
PageOK == /\ route \in [Upload -> Route \cup {"none"}]
          /\ selected_file \in File \cup {NIL}
          /\ parsed_orders \in Seq(Small)
          /\ large_file_contents \in Large \cup {NIL}
          /\ ob_results \in Upload \cup {NIL}
          /\ crashed \in {NIL, "size", "signer", "assertion"}

LEMMA TypesByPart ==
  /\ TypeOK <=> HandlersOK /\ UploadersOK /\ SessionsOK /\ CountsOK /\ PageOK
  /\ TypeOK' <=> HandlersOK' /\ UploadersOK' /\ SessionsOK' /\ CountsOK' /\ PageOK'
BY DEF TypeOK, HandlersOK, UploadersOK, SessionsOK, CountsOK, PageOK, HandlerRecord, UploaderRecord

LEMMA MoveKeepsTypes ==
  ASSUME HandlersOK, NEW v \in Upload, NEW i \in Slot, NEW r \in HandlerRecord,
         r.chunk < Chunks[v], Moves(v, i, r)
  PROVE  HandlersOK'
BY DEF HandlersOK, Moves, Chunk

LEMMA SteerKeepsTypes ==
  ASSUME UploadersOK, NEW v \in Upload, NEW q \in UploaderRecord, q.chunk < Chunks[v],
         uploader' = [uploader EXCEPT ![v] = q]
  PROVE  UploadersOK'
BY DEF UploadersOK

LEMMA EndKeepsTypes ==
  ASSUME UploadersOK, NEW v \in Upload, End(v)
  PROVE  UploadersOK'
<1>1. 0 < Chunks[v]
  BY ChunksArePositive
<1> QED
  BY <1>1, NoRecords, SteerKeepsTypes DEF End

(* A handler's next place, which keeps its chunk. *)
LEMMA GotoKeepsTypes ==
  ASSUME TypeOK, NEW v \in Upload, NEW i \in Slot,
         NEW at \in {"none"} \cup Place \cup Answer, Goto(v, i, at)
  PROVE  HandlersOK'
<1>1. Chunk(v, i) \in Nat /\ Chunk(v, i) < Chunks[v]
  BY TypesByPart DEF HandlersOK, HandlerRecord, Chunk
<1>2. [at |-> at, chunk |-> Chunk(v, i)] \in HandlerRecord
  BY <1>1 DEF HandlerRecord
<1> QED
  BY <1>1, <1>2, GotoMoves, MoveKeepsTypes, TypesByPart

LEMMA StopKeepsTypes ==
  ASSUME TypeOK, NEW v \in Upload, NEW i \in Slot,
         handler' = [handler EXCEPT ![v][i] = NoHandler]
  PROVE  HandlersOK'
<1>1. 0 < Chunks[v]
  BY ChunksArePositive
<1> QED
  BY <1>1, NoRecords, MoveKeepsTypes, TypesByPart DEF Moves

(* Of what a handler's step leaves alone, and of how little else it does.  *)
LEMMA HandlerKeepsTypes ==
  ASSUME TypeOK, NEW v \in Upload, NEW i \in Slot, HandlerStep(v, i), UNCHANGED pageVars
  PROVE  TypeOK'
<1>1. HandlersOK /\ UploadersOK /\ SessionsOK /\ CountsOK /\ PageOK
  BY TypesByPart
<1>2. UploadersOK'
  BY <1>1 DEF pageVars, UploadersOK
<1>3. PageOK'
  BY <1>1 DEF pageVars, PageOK, HandlerStep, Enter, TestComplete, CollectChunks,
              ChargeAddress, ChargeGlobal, Process, ClearChunks
<1>4. Chunk(v, i) \in 0..Chunks[v] - 1
  BY <1>1, ChunksArePositive DEF HandlersOK, HandlerRecord, Chunk
<1>5. SessionsOK'
  <2>1. CASE UNCHANGED sessions
    BY <1>1, <2>1 DEF SessionsOK
  <2>2. CASE StoreChunk(v, Chunk(v, i))
    BY <1>1, <1>4, <2>2 DEF SessionsOK, StoreChunk
  <2>3. CASE sessions' = [sessions EXCEPT ![v] = {}]
    BY <1>1, <2>3 DEF SessionsOK
  <2> QED
    BY <2>1, <2>2, <2>3 DEF HandlerStep, Enter, Reject, Admit, TestComplete, CollectChunks,
                            ChargeAddress, ChargeGlobal, Process, ClearChunks
<1>6. CountsOK'
  <2>1. /\ visits' = visits \/ LogVisit(v)
        /\ runs' = runs \/ runs' = [runs EXCEPT ![v] = @ + 1]
        /\ \/ charged' = charged
           \/ charged' = [charged EXCEPT ![v].address = @ + 1]
           \/ charged' = [charged EXCEPT ![v].global = @ + 1]
        /\ repeats' = repeats
    BY DEF HandlerStep, Enter, Reject, Admit, TestComplete, CollectChunks,
           ChargeAddress, ChargeGlobal, Process, ClearChunks
  <2>2. visits' \in [Upload -> Nat] /\ runs' \in [Upload -> Nat] /\ repeats' \in [Upload -> Nat]
    BY <1>1, <2>1 DEF CountsOK, LogVisit
  <2>3. charged' \in [Upload -> [address : Nat, global : Nat]]
    BY <1>1, <2>1 DEF CountsOK
  <2> QED
    BY <2>2, <2>3 DEF CountsOK
<1>7. HandlersOK'
  <2>1. \/ \E at \in {"none"} \cup Place \cup Answer : Goto(v, i, at)
        \/ handler' = [handler EXCEPT ![v][i] = NoHandler]
    BY DEF HandlerStep, Enter, Reject, Admit, TestComplete, CollectChunks, AfterCollecting,
           ChargeAddress, ChargeGlobal, Process, ClearChunks, Place, Answer
  <2> QED
    BY <2>1, GotoKeepsTypes, StopKeepsTypes
<1> QED
  BY <1>2, <1>3, <1>5, <1>6, <1>7, TypesByPart

(* The actions of the page, the user and the faults. *)
LEMMA StepsKeepTypes ==
  ASSUME TypeOK, [Next]_vars
  PROVE  TypeOK'
<1>1. HandlersOK /\ UploadersOK /\ SessionsOK /\ CountsOK /\ PageOK
  BY TypesByPart
<1>2. ASSUME UNCHANGED serverVars
      PROVE  HandlersOK' /\ SessionsOK' /\ CountsOK'
  BY <1>1, <1>2 DEF serverVars, HandlersOK, SessionsOK, CountsOK, Chunk
<1>3. ASSUME NEW p \in Pick, NEW f \in File \cup {NIL}, PickFile(p, f)
      PROVE  TypeOK'
  <2>1. UploadersOK' /\ PageOK'
    BY <1>1, <1>3 DEF PickFile, UploadersOK, PageOK, serverVars
  <2> QED
    BY <1>2, <1>3, <2>1, TypesByPart DEF PickFile
<1>4. ASSUME NEW p \in Pick, LearnSize(p)
      PROVE  TypeOK'
  <2>1. UploadersOK' /\ PageOK'
    BY <1>1, <1>4 DEF LearnSize, UploadersOK, PageOK, serverVars
  <2> QED
    BY <1>2, <1>4, <2>1, TypesByPart DEF LearnSize
<1>5. ASSUME NEW p \in Pick, ReadFile(p)
      PROVE  TypeOK'
  <2>1. UploadersOK' /\ PageOK'
    BY <1>1, <1>5 DEF ReadFile, UploadersOK, PageOK, serverVars
  <2> QED
    BY <1>2, <1>5, <2>1, TypesByPart DEF ReadFile
<1>6. CASE RemoveFile
  <2>1. UploadersOK' /\ PageOK'
    BY <1>1, <1>6 DEF RemoveFile, UploadersOK, PageOK, serverVars
  <2> QED
    BY <1>2, <1>6, <2>1, TypesByPart DEF RemoveFile
<1>7. ASSUME NEW u \in Upload, Submit(u)
      PROVE  TypeOK'
  <2>1. UploadersOK'
    BY <1>1, <1>7 DEF Submit, UploadersOK, UploaderRecord
  <2>2. PageOK'
    BY <1>1, <1>7 DEF Submit, PageOK, serverVars
  <2> QED
    BY <1>2, <1>7, <2>1, <2>2, TypesByPart DEF Submit
<1>8. ASSUME NEW u \in Upload, LoseSigner(u)
      PROVE  TypeOK'
  <2>1. UploadersOK' /\ PageOK'
    BY <1>1, <1>8 DEF LoseSigner, UploadersOK, PageOK, serverVars, picked
  <2> QED
    BY <1>2, <1>8, <2>1, TypesByPart DEF LoseSigner
<1>9. ASSUME NEW u \in Upload, FailHealthCheck(u) \/ FailRequest(u)
      PROVE  TypeOK'
  <2>1. UploadersOK'
    BY <1>1, <1>9, EndKeepsTypes DEF FailHealthCheck, FailRequest
  <2>2. PageOK' /\ UNCHANGED serverVars
    BY <1>1, <1>9 DEF FailHealthCheck, FailRequest, PageOK, serverVars, picked
  <2> QED
    BY <1>2, <2>1, <2>2, TypesByPart
<1>10. ASSUME NEW u \in Upload, TakeContent(u)
       PROVE  TypeOK'
  <2>1. HandlersOK' /\ SessionsOK' /\ CountsOK'
    BY <1>1, <1>10 DEF TakeContent, HandlersOK, SessionsOK, CountsOK, Chunk
  <2>2. UploadersOK'
    <3>1. End(u) \/ uploader' = [uploader EXCEPT ![u].at = "send"]
      BY <1>10 DEF TakeContent
    <3>2. CASE uploader' = [uploader EXCEPT ![u].at = "send"]
      BY <1>1, <3>2 DEF UploadersOK, UploaderRecord
    <3> QED
      BY <1>1, <3>1, <3>2, EndKeepsTypes
  <2>3. PageOK'
    <3>1. /\ route' = [route EXCEPT ![u] = "/largeupload"]
             \/ route' = [route EXCEPT ![u] = "/smallupload"]
          /\ parsed_orders' = << >> \/ UNCHANGED parsed_orders
          /\ large_file_contents' = NIL \/ UNCHANGED large_file_contents
          /\ UNCHANGED <<selected_file, ob_results, crashed>>
      BY <1>10 DEF TakeContent
    <3>2. route' \in [Upload -> Route \cup {"none"}]
      BY <1>1, <3>1 DEF PageOK, Route
    <3>3. parsed_orders' \in Seq(Small)
      <4>1. << >> \in Seq(Small) /\ parsed_orders \in Seq(Small)
        BY <1>1 DEF PageOK
      <4>2. parsed_orders' = << >> \/ parsed_orders' = parsed_orders
        BY <3>1
      <4> QED
        BY <4>1, <4>2
    <3> QED
      BY <1>1, <3>1, <3>2, <3>3 DEF PageOK
  <2> QED
    BY <2>1, <2>2, <2>3, TypesByPart
<1>11. ASSUME NEW u \in Upload, NEW i \in Slot,
              handler' = [handler EXCEPT ![u][i] =
                            [at |-> "arrived", chunk |-> uploader[u].chunk]]
       PROVE  HandlersOK'
  <2>1. uploader[u].chunk \in Nat /\ uploader[u].chunk < Chunks[u]
    BY <1>1 DEF UploadersOK, UploaderRecord
  <2>2. [at |-> "arrived", chunk |-> uploader[u].chunk] \in HandlerRecord
    BY <2>1 DEF HandlerRecord, Place
  <2> QED
    BY <1>1, <1>11, <2>1, <2>2, MoveKeepsTypes DEF Moves
<1>12. ASSUME NEW u \in Upload, SendChunk(u)
       PROVE  TypeOK'
  <2>1. SessionsOK' /\ CountsOK' /\ PageOK'
    BY <1>1, <1>12 DEF SendChunk, SessionsOK, CountsOK, PageOK, picked
  <2>2. CASE End(u) /\ UNCHANGED handler
    <3>1. HandlersOK'
      BY <1>1, <2>2 DEF HandlersOK, Chunk
    <3> QED
      BY <1>1, <2>1, <2>2, <3>1, EndKeepsTypes, TypesByPart
  <2>3. ASSUME NEW i \in Slot,
               handler' = [handler EXCEPT ![u][i] =
                             [at |-> "arrived", chunk |-> uploader[u].chunk]],
               uploader' = [uploader EXCEPT ![u].at = "wait", ![u].slot = i]
        PROVE  TypeOK'
    <3>1. UploadersOK'
      BY <1>1, <2>3 DEF UploadersOK, UploaderRecord
    <3> QED
      BY <1>11, <2>1, <2>3, <3>1, TypesByPart
  <2> QED
    BY <1>12, <2>2, <2>3 DEF SendChunk
<1>13. ASSUME NEW u \in Upload, ReadAnswer(u)
       PROVE  TypeOK'
  <2>1. SessionsOK' /\ CountsOK' /\ PageOK'
    BY <1>1, <1>13 DEF ReadAnswer, SessionsOK, CountsOK, PageOK, picked
  <2>2. HandlersOK'
    <3>1. uploader[u].slot \in Slot
      BY <1>1 DEF UploadersOK, UploaderRecord
    <3> QED
      BY <1>13, <3>1, StopKeepsTypes DEF ReadAnswer
  <2>3. UploadersOK'
    <3>1. CASE End(u)
      BY <1>1, <3>1, EndKeepsTypes
    <3>2. CASE UNCHANGED uploader
      BY <1>1, <3>2 DEF UploadersOK
    <3>3. CASE /\ ~ LastChunk(u)
               /\ uploader' = [uploader EXCEPT ![u] = [at |-> "send", chunk |-> uploader[u].chunk + 1,
                                                       slot |-> uploader[u].slot]]
      <4> DEFINE q == [at |-> "send", chunk |-> uploader[u].chunk + 1,
                    slot |-> uploader[u].slot]
      <4>1. uploader[u] \in UploaderRecord /\ uploader[u].chunk \in Nat /\ Chunks[u] \in Nat
        BY <1>1, ChunksArePositive DEF UploadersOK, UploaderRecord
      <4>2. uploader[u].chunk + 1 < Chunks[u]
        BY <1>1, <3>3, <4>1 DEF LastChunk, UploadersOK
      <4>3. q \in UploaderRecord /\ q.chunk = uploader[u].chunk + 1
        BY <4>1 DEF UploaderRecord
      <4>4. uploader' = [uploader EXCEPT ![u] = q]
        BY <3>3
      <4> HIDE DEF q
      <4> QED
        BY <1>1, <4>2, <4>3, <4>4, SteerKeepsTypes
    <3> QED
      BY <1>13, <3>1, <3>2, <3>3 DEF ReadAnswer
  <2> QED
    BY <2>1, <2>2, <2>3, TypesByPart
<1>14. ASSUME NEW u \in Upload, RepeatRequest(u)
       PROVE  TypeOK'
  <2>1. SessionsOK' /\ CountsOK' /\ PageOK'
    BY <1>1, <1>14 DEF RepeatRequest, SessionsOK, CountsOK, PageOK, picked
  <2>2. PICK i \in Slot : /\ handler' = [handler EXCEPT ![u][i] =
                                          [at |-> "arrived", chunk |-> uploader[u].chunk]]
                          /\ uploader' = [uploader EXCEPT ![u].slot = i]
    BY <1>14 DEF RepeatRequest
  <2>3. UploadersOK'
    BY <1>1, <2>2 DEF UploadersOK, UploaderRecord
  <2> QED
    BY <1>11, <2>1, <2>2, <2>3, TypesByPart
<1>15. ASSUME NEW u \in Upload, NEW i \in Slot, Drop(u, i), UNCHANGED pageVars
       PROVE  TypeOK'
  <2>1. SessionsOK' /\ CountsOK' /\ PageOK' /\ UploadersOK'
    BY <1>1, <1>15 DEF Drop, SessionsOK, CountsOK, PageOK, UploadersOK, pageVars
  <2> QED
    BY <1>15, <2>1, StopKeepsTypes, TypesByPart DEF Drop
<1>16. ASSUME Restart, UNCHANGED pageVars
       PROVE  TypeOK'
  <2>1. CountsOK' /\ PageOK' /\ UploadersOK'
    BY <1>1, <1>16 DEF Restart, CountsOK, PageOK, UploadersOK, pageVars
  <2>2. SessionsOK'
    BY <1>16 DEF Restart, SessionsOK
  <2>3. HandlersOK'
    BY <1>16, NoRecords, ChunksArePositive DEF Restart, HandlersOK, Chunk
  <2> QED
    BY <2>1, <2>2, <2>3, TypesByPart
<1>17. CASE UNCHANGED vars
  <2>1. UploadersOK' /\ PageOK' /\ UNCHANGED serverVars
    BY <1>1, <1>17 DEF vars, pageVars, serverVars, UploadersOK, PageOK
  <2> QED
    BY <1>2, <2>1, TypesByPart
<1> QED
  BY <1>3, <1>4, <1>5, <1>6, <1>7, <1>8, <1>9, <1>10, <1>12, <1>13, <1>14, <1>15, <1>16, <1>17,
     HandlerKeepsTypes DEF Next, User, Page, Server, Faults

(* TypeOK: every variable keeps its type, no chunk past the last is asked  *)
(* for, sent or stored, for any number of uploads, chunks and faults.      *)
THEOREM UploadTypeCorrect == Spec => []TypeOK
<1>1. Init => TypeOK
  <2>1. Init => HandlersOK /\ SessionsOK /\ CountsOK
    BY NoRecords, ChunksArePositive
       DEF Init, ServerInit, HandlersOK, SessionsOK, CountsOK, Chunk
  <2>2. Init => UploadersOK
    BY NoRecords, ChunksArePositive DEF Init, UploadersOK, NoUploader
  <2>3. Init => PageOK
    BY DEF Init, ServerInit, PageOK
  <2> QED
    BY <2>1, <2>2, <2>3, TypesByPart
<1>2. TypeOK /\ [Next]_vars => TypeOK'
  BY StepsKeepTypes
<1> QED
  BY <1>1, <1>2, PTL DEF Spec

-----------------------------------------------------------------------------
(* RunsAreCharged.  A handler at "process" has charged both counters for a *)
(* run it has not made yet, and one at "charge_global" the address only:   *)
(* with these counted in, the inequalities are inductive.                  *)
Covered(u) ==
  /\ runs[u] + InPlace(u, {"process"}) <= charged[u].global
  /\ charged[u].global + InPlace(u, {"charge_global"}) <= charged[u].address
  /\ charged[u].address <= visits[u]

(* No step counts the handlers of an upload differently if it moves none.  *)
LEMMA StillCounts ==
  ASSUME NEW u, NEW places, UNCHANGED handler
  PROVE  InPlace(u, places)' = InPlace(u, places)
BY DEF InPlace, HandlersAt, At

LEMMA RestartCounts ==
  ASSUME NEW u \in Upload, NEW places, "none" \notin places, Restart
  PROVE  InPlace(u, places)' = 0
<1>1. HandlersAt(u, places)' = {}
  BY DEF Restart, HandlersAt, At, NoHandler
<1> QED
  BY <1>1, FS_EmptySet DEF InPlace

LEMMA CountsAreNaturals ==
  ASSUME TypeOK, NEW u \in Upload
  PROVE  /\ runs[u] \in Nat /\ visits[u] \in Nat /\ repeats[u] \in Nat
         /\ charged[u].address \in Nat /\ charged[u].global \in Nat
BY DEF TypeOK

(* The steps of a handler. *)
LEMMA HandlerKeepsCover ==
  ASSUME TypeOK, NEW u \in Upload, Covered(u),
         NEW v \in Upload, NEW i \in Slot, HandlerStep(v, i)
  PROVE  Covered(u)'
<1> DEFINE p == InPlace(u, {"process"})
           g == InPlace(u, {"charge_global"})
<1>1. /\ p \in Nat /\ g \in Nat /\ p' \in Nat /\ g' \in Nat
      /\ runs[u] \in Nat /\ visits[u] \in Nat
      /\ charged[u].address \in Nat /\ charged[u].global \in Nat
  BY PlacesAreCounted, CountsAreNaturals
<1>2. /\ runs[u] + p <= charged[u].global
      /\ charged[u].global + g <= charged[u].address
      /\ charged[u].address <= visits[u]
  BY DEF Covered
<1>3. ASSUME NEW at, Goto(v, i, at)
      PROVE  /\ u # v => p' = p /\ g' = g
             /\ p' <= p + 1 /\ g' <= g + 1
             /\ at # "process" => p' <= p
             /\ at # "charge_global" => g' <= g
             /\ u = v /\ at # "process" /\ At(v, i) = "process" => p' <= p - 1
             /\ u = v /\ at # "charge_global" /\ At(v, i) = "charge_global" => g' <= g - 1
  <2>1. Moves(v, i, [at |-> at, chunk |-> Chunk(v, i)])
    BY <1>3, GotoMoves
  <2> QED
    BY <2>1, MoveCounts
<1>4. ASSUME handler' = [handler EXCEPT ![v][i] = NoHandler]
      PROVE  /\ p' <= p /\ g' <= g
             /\ u = v /\ At(v, i) = "process" => p' <= p - 1
  BY <1>4, NoRecords, MoveCounts DEF Moves
<1>5. ASSUME p' <= p, g' <= g, runs' = runs, charged' = charged,
             visits' = visits \/ LogVisit(v)
      PROVE  Covered(u)'
  <2>1. visits'[u] \in Nat /\ visits[u] <= visits'[u]
    <3>1. visits \in [Upload -> Nat]
      BY DEF TypeOK
    <3>2. visits' = visits \/ visits' = [visits EXCEPT ![v] = @ + 1]
      BY <1>5 DEF LogVisit
    <3> QED
      BY <3>1, <3>2
  <2> QED
    BY <1>1, <1>2, <1>5, <2>1 DEF Covered
<1>6. CASE Enter(v, i)
  <2>1. \E at : Goto(v, i, at) /\ at \notin {"process", "charge_global"}
    BY <1>6 DEF Enter, Reject, Admit
  <2> QED
    BY <1>3, <1>5, <1>6, <2>1 DEF Enter, Reject, Admit
<1>7. CASE TestComplete(v, i) \/ CollectChunks(v, i) \/ ClearChunks(v, i)
  <2>1. \E at : Goto(v, i, at) /\ at \notin {"process", "charge_global"}
    BY <1>7 DEF TestComplete, CollectChunks, AfterCollecting, ClearChunks
  <2> QED
    BY <1>3, <1>5, <1>7, <2>1 DEF TestComplete, CollectChunks, ClearChunks
<1>8. CASE ChargeAddress(v, i)
  <2>1. CASE Goto(v, i, "error") /\ UNCHANGED charged
    BY <1>3, <1>5, <1>8, <2>1 DEF ChargeAddress
  <2>2. CASE /\ Goto(v, i, "charge_global")
             /\ charged' = [charged EXCEPT ![v].address = @ + 1]
    <3>1. /\ u = v => visits'[u] = visits[u] + 1
          /\ u # v => visits'[u] = visits[u]
          /\ runs'[u] = runs[u]
      BY <1>8 DEF ChargeAddress, LogVisit, TypeOK
    <3>2. /\ charged'[u].global = charged[u].global
          /\ u = v => charged'[u].address = charged[u].address + 1
          /\ u # v => charged'[u].address = charged[u].address
      BY <2>2 DEF TypeOK
    <3> HIDE DEF p, g
    <3>3. /\ runs'[u] + p' <= charged'[u].global
          /\ charged'[u].global + g' <= charged'[u].address
          /\ charged'[u].address <= visits'[u]
      BY <1>1, <1>2, <1>3, <2>2, <3>1, <3>2
    <3> QED
      BY <3>3 DEF Covered, p, g
  <2> QED
    BY <1>8, <2>1, <2>2 DEF ChargeAddress
<1>9. CASE ChargeGlobal(v, i)
  <2>1. CASE Goto(v, i, "error") /\ UNCHANGED charged
    BY <1>3, <1>5, <1>9, <2>1 DEF ChargeGlobal
  <2>2. CASE /\ Goto(v, i, "process")
             /\ charged' = [charged EXCEPT ![v].global = @ + 1]
    <3>1. visits'[u] = visits[u] /\ runs'[u] = runs[u] /\ At(v, i) = "charge_global"
      BY <1>9 DEF ChargeGlobal
    <3>2. /\ charged'[u].address = charged[u].address
          /\ u = v => charged'[u].global = charged[u].global + 1
          /\ u # v => charged'[u].global = charged[u].global
      BY <2>2 DEF TypeOK
    <3> HIDE DEF p, g
    <3>3. /\ runs'[u] + p' <= charged'[u].global
          /\ charged'[u].global + g' <= charged'[u].address
          /\ charged'[u].address <= visits'[u]
      BY <1>1, <1>2, <1>3, <2>2, <3>1, <3>2
    <3> QED
      BY <3>3 DEF Covered, p, g
  <2> QED
    BY <1>9, <2>1, <2>2 DEF ChargeGlobal
<1>10. CASE Process(v, i)
  <2>1. /\ At(v, i) = "process" /\ charged' = charged /\ visits' = visits
        /\ u = v => runs'[u] = runs[u] + 1
        /\ u # v => runs'[u] = runs[u]
    BY <1>10 DEF Process, TypeOK
  <2>2. p' <= p /\ g' <= g /\ (u = v => p' <= p - 1)
    BY <1>3, <1>4, <1>10, <2>1 DEF Process
  <2> HIDE DEF p, g
  <2>3. /\ runs'[u] + p' <= charged'[u].global
        /\ charged'[u].global + g' <= charged'[u].address
        /\ charged'[u].address <= visits'[u]
    BY <1>1, <1>2, <2>1, <2>2
  <2> QED
    BY <2>3 DEF Covered, p, g
<1> QED
  BY <1>6, <1>7, <1>8, <1>9, <1>10 DEF HandlerStep

(* Every other step leaves runs, charges and visits alone, and brings no   *)
(* handler to either place.                                                *)
LEMMA StepsKeepCover ==
  ASSUME TypeOK, NEW u \in Upload, Covered(u), [Next]_vars
  PROVE  Covered(u)'
<1> DEFINE p == InPlace(u, {"process"})
           g == InPlace(u, {"charge_global"})
<1>1. /\ p \in Nat /\ g \in Nat /\ p' \in Nat /\ g' \in Nat
      /\ runs[u] \in Nat /\ charged[u].address \in Nat /\ charged[u].global \in Nat
  BY PlacesAreCounted, CountsAreNaturals
<1>2. ASSUME p' <= p, g' <= g, UNCHANGED <<runs, charged, visits>>
      PROVE  Covered(u)'
  BY <1>1, <1>2 DEF Covered
<1>3. ASSUME UNCHANGED <<handler, runs, charged, visits>>
      PROVE  Covered(u)'
  BY <1>1, <1>2, <1>3, StillCounts
<1>4. ASSUME NEW v \in Upload, NEW i \in Slot, NEW r, r.at \in {"none", "arrived"},
             Moves(v, i, r), UNCHANGED <<runs, charged, visits>>
      PROVE  Covered(u)'
  <2>1. p' <= p /\ g' <= g
    BY <1>4, MoveCounts
  <2> QED
    BY <1>2, <1>4, <2>1
<1>5. ASSUME NEW v \in Upload, SendChunk(v) \/ RepeatRequest(v)
      PROVE  Covered(u)'
  <2>1. \/ UNCHANGED handler
        \/ \E i \in Slot :
             Moves(v, i, [at |-> "arrived", chunk |-> uploader[v].chunk])
    BY <1>5 DEF SendChunk, RepeatRequest, Moves
  <2>2. UNCHANGED <<runs, charged, visits>>
    BY <1>5 DEF SendChunk, RepeatRequest
  <2>3. ASSUME NEW i \in Slot, Moves(v, i, [at |-> "arrived", chunk |-> uploader[v].chunk])
        PROVE  Covered(u)'
    <3>1. [at |-> "arrived", chunk |-> uploader[v].chunk].at = "arrived"
      OBVIOUS
    <3> QED
      BY <1>4, <2>2, <2>3, <3>1
  <2> QED
    BY <1>3, <2>1, <2>2, <2>3
<1>6. ASSUME NEW v \in Upload, ReadAnswer(v)
      PROVE  Covered(u)'
  <2>1. uploader[v].slot \in Slot
    BY DEF TypeOK
  <2>2. Moves(v, uploader[v].slot, NoHandler) /\ UNCHANGED <<runs, charged, visits>>
    BY <1>6 DEF ReadAnswer, Moves
  <2> QED
    BY <1>4, <2>1, <2>2, NoRecords
<1>7. ASSUME NEW v \in Upload, NEW i \in Slot, Drop(v, i)
      PROVE  Covered(u)'
  <2>1. Moves(v, i, NoHandler) /\ UNCHANGED <<runs, charged, visits>>
    BY <1>7 DEF Drop, Moves
  <2> QED
    BY <1>4, <2>1, NoRecords
<1>8. CASE Restart
  <2>1. p' = 0 /\ g' = 0 /\ UNCHANGED <<runs, charged, visits>>
    BY <1>8, RestartCounts DEF Restart
  <2> QED
    BY <1>1, <1>2, <2>1
<1>9. CASE UNCHANGED serverVars
  BY <1>3, <1>9 DEF serverVars
<1>10. ASSUME NEW v \in Upload, TakeContent(v)
       PROVE  Covered(u)'
  BY <1>3, <1>10 DEF TakeContent
<1> QED
  BY <1>5, <1>6, <1>7, <1>8, <1>9, <1>10, HandlerKeepsCover
     DEF Next, User, Page, Server, Faults, PickFile, LearnSize, ReadFile, RemoveFile, Submit,
         LoseSigner, FailHealthCheck, FailRequest, vars

(* RunsAreCharged: whatever is dropped, repeated or lost in between, no    *)
(* orders are run that were not counted under both keys, or counted        *)
(* without a row in the log.                                               *)
THEOREM RunsAreAlwaysCharged == Spec => []RunsAreCharged
<1> DEFINE Inv == \A u \in Upload : Covered(u)
<1>1. Init => Inv
  <2> SUFFICES ASSUME Init, NEW u \in Upload PROVE Covered(u)
    OBVIOUS
  <2>1. HandlersAt(u, {"process"}) = {} /\ HandlersAt(u, {"charge_global"}) = {}
    BY DEF Init, ServerInit, HandlersAt, At, NoHandler
  <2>2. InPlace(u, {"process"}) = 0 /\ InPlace(u, {"charge_global"}) = 0
    BY <2>1, FS_EmptySet DEF InPlace
  <2> QED
    BY <2>2 DEF Init, ServerInit, Covered
<1>2. TypeOK /\ Inv /\ [Next]_vars => Inv'
  BY StepsKeepCover
<1>3. TypeOK /\ Inv => RunsAreCharged
  BY PlacesAreCounted, CountsAreNaturals DEF Covered, RunsAreCharged
<1> QED
  BY <1>1, <1>2, <1>3, UploadTypeCorrect, PTL DEF Spec

-----------------------------------------------------------------------------
(* ProcessedOnce.  Until the page has sent its last chunk the server cannot *)
(* have it, so that no upload is complete and each request is answered by  *)
(* "ack" or an error.                                                      *)
LastSent(u) == uploader[u].at = "ended" \/ (uploader[u].at = "wait" /\ LastChunk(u))
Early(u) ==
  ~ LastSent(u) =>
    /\ Chunks[u] - 1 \notin sessions[u]
    /\ \A i \in Slot : /\ At(u, i) \in {"none", "arrived", "stored", "ack", "error"}
                       /\ At(u, i) # "none" => Chunk(u, i) # Chunks[u] - 1

LEMMA IncompleteWithoutLast ==
  ASSUME TypeOK, NEW u \in Upload, Chunks[u] - 1 \notin sessions[u]
  PROVE  ~ Complete(u)
<1>1. Chunks[u] \in Nat \ {0} /\ sessions[u] \subseteq 0..Chunks[u] - 1
  BY ChunksArePositive DEF TypeOK
<1>2. sessions[u] \subseteq 0..Chunks[u] - 2
  BY <1>1
<1>3. IsFiniteSet(0..Chunks[u] - 2) /\ Cardinality(0..Chunks[u] - 2) = Chunks[u] - 1
  <2> DEFINE last == Chunks[u] - 2
  <2>1. last \in Int /\ (0 > last => Chunks[u] - 1 = 0) /\ last - 0 + 1 = Chunks[u] - 1
    BY <1>1
  <2> HIDE DEF last
  <2>2. /\ IsFiniteSet(0..last)
        /\ Cardinality(0..last) = IF 0 > last THEN 0 ELSE last - 0 + 1
    BY <2>1, FS_Interval
  <2>3. Cardinality(0..last) = Chunks[u] - 1
    BY <2>1, <2>2
  <2> QED
    BY <2>2, <2>3 DEF last
<1>4. Cardinality(sessions[u]) <= Chunks[u] - 1 /\ Cardinality(sessions[u]) \in Nat
  BY <1>1, <1>2, <1>3, FS_Subset, FS_CardinalityType
<1> QED
  BY <1>1, <1>4 DEF Complete

(* What a handler's move does to the handlers of an upload. *)
LEMMA MoveEffect ==
  ASSUME TypeOK, NEW v \in Upload, NEW i \in Slot, NEW r, Moves(v, i, r)
  PROVE  \A u \in Upload, j \in Slot :
           /\ At(u, j)' = IF u = v /\ j = i THEN r.at ELSE At(u, j)
           /\ Chunk(u, j)' = IF u = v /\ j = i THEN r.chunk ELSE Chunk(u, j)
BY DEF TypeOK, Moves, At, Chunk

LEMMA GotoEffect ==
  ASSUME TypeOK, NEW v \in Upload, NEW i \in Slot, NEW at, Goto(v, i, at)
  PROVE  \A u \in Upload, j \in Slot :
           /\ At(u, j)' = IF u = v /\ j = i THEN at ELSE At(u, j)
           /\ Chunk(u, j)' = Chunk(u, j)
<1> DEFINE r == [at |-> at, chunk |-> Chunk(v, i)]
<1>1. Moves(v, i, r) /\ r.at = at /\ r.chunk = Chunk(v, i)
  BY GotoMoves
<1> HIDE DEF r
<1> QED
  BY <1>1, MoveEffect

LEMMA HandlerKeepsEarly ==
  ASSUME TypeOK, NEW u \in Upload, Early(u),
         NEW v \in Upload, NEW i \in Slot, HandlerStep(v, i), UNCHANGED pageVars
  PROVE  Early(u)'
<1> SUFFICES ASSUME ~ LastSent(u)
             PROVE  /\ Chunks[u] - 1 \notin sessions'[u]
                    /\ \A j \in Slot :
                         /\ At(u, j)' \in {"none", "arrived", "stored", "ack", "error"}
                         /\ At(u, j)' # "none" => Chunk(u, j)' # Chunks[u] - 1
  BY DEF Early, LastSent, LastChunk, pageVars
<1>1. /\ Chunks[u] - 1 \notin sessions[u]
      /\ \A j \in Slot : /\ At(u, j) \in {"none", "arrived", "stored", "ack", "error"}
                         /\ At(u, j) # "none" => Chunk(u, j) # Chunks[u] - 1
  BY DEF Early
<1>2. CASE u # v
  <2>1. sessions'[u] = sessions[u]
    BY <1>2 DEF TypeOK, HandlerStep, Enter, Reject, Admit, StoreChunk, TestComplete,
                CollectChunks, ChargeAddress, ChargeGlobal, Process, ClearChunks
  <2>2. handler'[u] = handler[u]
    BY <1>2 DEF TypeOK, HandlerStep, Enter, Reject, Admit, Goto, TestComplete,
                CollectChunks, ChargeAddress, ChargeGlobal, Process, ClearChunks
  <2> QED
    BY <1>1, <2>1, <2>2 DEF At, Chunk
<1>3. CASE u = v
  <2>1. CASE Enter(v, i)
    <3>1. At(u, i) = "arrived" /\ Chunk(u, i) # Chunks[u] - 1
      BY <1>1, <1>3, <2>1 DEF Enter
    <3>2. \E at \in {"stored", "error"} : Goto(v, i, at)
      BY <2>1 DEF Enter, Reject, Admit
    <3>3. sessions'[u] \subseteq sessions[u] \cup {Chunk(u, i)}
      BY <1>3, <2>1 DEF Enter, Reject, Admit, StoreChunk, TypeOK
    <3> QED
      BY <1>1, <1>3, <3>1, <3>2, <3>3, GotoEffect
  <2>2. CASE TestComplete(v, i)
    <3>1. Goto(v, i, "ack") /\ sessions' = sessions
      BY <1>1, <1>3, <2>2, IncompleteWithoutLast DEF TestComplete
    <3>2. At(u, i) = "stored"
      BY <1>3, <2>2 DEF TestComplete
    <3> QED
      BY <1>1, <1>3, <3>1, <3>2, GotoEffect
  <2> QED
    BY <1>1, <1>3, <2>1, <2>2 DEF HandlerStep, CollectChunks, ChargeAddress, ChargeGlobal,
                                  Process, ClearChunks
<1> QED
  BY <1>2, <1>3

(* Where an uploader's step leaves the page: past its last chunk only from *)
(* there or by sending it.                                                 *)
LEMMA SteerEffect ==
  ASSUME TypeOK, NEW v \in Upload, NEW q, uploader' = [uploader EXCEPT ![v] = q]
  PROVE  \A u \in Upload : uploader'[u] = IF u = v THEN q ELSE uploader[u]
BY DEF TypeOK

LEMMA EndEffect ==
  ASSUME TypeOK, NEW v \in Upload, End(v)
  PROVE  \A u \in Upload : /\ u = v => uploader'[u].at = "ended"
                           /\ u # v => uploader'[u] = uploader[u]
<1> DEFINE q == [NoUploader EXCEPT !.at = "ended"]
<1>1. uploader' = [uploader EXCEPT ![v] = q] /\ q.at = "ended"
  BY NoRecords DEF End
<1> HIDE DEF q
<1>2. \A u \in Upload : uploader'[u] = IF u = v THEN q ELSE uploader[u]
  BY <1>1, SteerEffect
<1> QED
  BY <1>1, <1>2

LEMMA StepsKeepEarly ==
  ASSUME TypeOK, NEW u \in Upload, Early(u), [Next]_vars
  PROVE  Early(u)'
<1>1. ASSUME UNCHANGED <<sessions, handler>>, LastSent(u)' \/ ~ LastSent(u)
      PROVE  Early(u)'
  BY <1>1 DEF Early, At, Chunk
<1>2. ASSUME NEW v \in Upload, NEW i \in Slot, NEW r, Moves(v, i, r), UNCHANGED sessions,
             LastSent(u)' \/ ~ LastSent(u),
             \/ u # v
             \/ r.at = "none"
             \/ r.at = "arrived" /\ (LastSent(u)' \/ r.chunk # Chunks[u] - 1)
      PROVE  Early(u)'
  <2>1. \A j \in Slot : /\ At(u, j)' = IF u = v /\ j = i THEN r.at ELSE At(u, j)
                        /\ Chunk(u, j)' = IF u = v /\ j = i THEN r.chunk ELSE Chunk(u, j)
    BY <1>2, MoveEffect
  <2> QED
    BY <1>2, <2>1 DEF Early
<1>3. ASSUME uploader'[u] = uploader[u]
      PROVE  LastSent(u)' <=> LastSent(u)
  BY <1>3 DEF LastSent, LastChunk
<1>4. ASSUME NEW v \in Upload, End(v)
      PROVE  LastSent(u)' \/ ~ LastSent(u)
  BY <1>3, <1>4, EndEffect DEF LastSent
<1>5. ASSUME UNCHANGED serverVars, UNCHANGED uploader
      PROVE  Early(u)'
  BY <1>1, <1>3, <1>5 DEF serverVars
<1>6. ASSUME NEW v \in Upload, Submit(v)
      PROVE  Early(u)'
  <2>1. ~ LastSent(v) /\ (u # v => uploader'[u] = uploader[u])
    BY <1>6 DEF Submit, LastSent, TypeOK
  <2> QED
    BY <1>1, <1>3, <1>6, <2>1 DEF Submit, serverVars
<1>7. ASSUME NEW v \in Upload, FailHealthCheck(v) \/ FailRequest(v)
      PROVE  Early(u)'
  BY <1>1, <1>4, <1>7 DEF FailHealthCheck, FailRequest, serverVars
<1>8. ASSUME NEW v \in Upload, TakeContent(v)
      PROVE  Early(u)'
  <2>1. ~ LastSent(v) /\ UNCHANGED <<sessions, handler>>
    BY <1>8 DEF TakeContent, LastSent
  <2>2. End(v) \/ uploader' = [uploader EXCEPT ![v].at = "send"]
    BY <1>8 DEF TakeContent
  <2>3. u # v => LastSent(u)' \/ ~ LastSent(u)
    BY <1>3, <1>4, <2>2 DEF TypeOK
  <2> QED
    BY <1>1, <2>1, <2>3
<1>9. ASSUME NEW v \in Upload, SendChunk(v)
      PROVE  Early(u)'
  <2>1. ~ LastSent(v) /\ UNCHANGED sessions
    BY <1>9 DEF SendChunk, LastSent
  <2>2. CASE End(v) /\ UNCHANGED handler
    BY <1>1, <1>4, <2>1, <2>2
  <2>3. ASSUME NEW i \in Slot,
               handler' = [handler EXCEPT ![v][i] =
                             [at |-> "arrived", chunk |-> uploader[v].chunk]],
               uploader' = [uploader EXCEPT ![v].at = "wait", ![v].slot = i]
        PROVE  Early(u)'
    <3> DEFINE r == [at |-> "arrived", chunk |-> uploader[v].chunk]
    <3>1. Moves(v, i, r) /\ r.at = "arrived" /\ r.chunk = uploader[v].chunk
      BY <2>3 DEF Moves
    <3>2. /\ u # v => uploader'[u] = uploader[u]
          /\ u = v => uploader'[u].at = "wait" /\ uploader'[u].chunk = uploader[u].chunk
      BY <2>3 DEF TypeOK
    <3>3. u = v => LastSent(u)' \/ r.chunk # Chunks[u] - 1
      BY <3>1, <3>2 DEF LastSent, LastChunk
    <3>4. LastSent(u)' \/ ~ LastSent(u)
      BY <1>3, <2>1, <3>2
    <3> HIDE DEF r
    <3> QED
      BY <1>2, <2>1, <3>1, <3>3, <3>4
  <2> QED
    BY <1>9, <2>2, <2>3 DEF SendChunk
<1>10. ASSUME NEW v \in Upload, ReadAnswer(v)
       PROVE  Early(u)'
  <2>1. uploader[v].slot \in Slot
    BY DEF TypeOK
  <2>2. Moves(v, uploader[v].slot, NoHandler) /\ UNCHANGED sessions
    BY <1>10 DEF ReadAnswer, Moves
  <2>3. LastSent(u)' \/ ~ LastSent(u)
    <3>1. CASE End(v)
      BY <1>4, <3>1
    <3>2. CASE UNCHANGED uploader
      BY <1>3, <3>2
    <3>3. CASE /\ ~ LastChunk(v)
               /\ uploader' = [uploader EXCEPT ![v] = [at |-> "send", chunk |-> uploader[v].chunk + 1,
                                                       slot |-> uploader[v].slot]]
      <4>1. u # v => uploader'[u] = uploader[u]
        BY <3>3, SteerEffect
      <4>2. ~ LastSent(v)
        BY <1>10, <3>3 DEF ReadAnswer, LastSent
      <4> QED
        BY <1>3, <4>1, <4>2
    <3> QED
      BY <1>10, <3>1, <3>2, <3>3 DEF ReadAnswer
  <2> QED
    BY <1>2, <2>1, <2>2, <2>3, NoRecords
<1>11. ASSUME NEW v \in Upload, RepeatRequest(v)
       PROVE  Early(u)'
  <2>1. PICK i \in Slot : /\ Moves(v, i, [at |-> "arrived", chunk |-> uploader[v].chunk])
                          /\ uploader' = [uploader EXCEPT ![v].slot = i]
    BY <1>11 DEF RepeatRequest, Moves
  <2> DEFINE r == [at |-> "arrived", chunk |-> uploader[v].chunk]
  <2>2. Moves(v, i, r) /\ r.at = "arrived" /\ r.chunk = uploader[v].chunk
    BY <2>1
  <2>3. uploader'[u].at = uploader[u].at /\ uploader'[u].chunk = uploader[u].chunk
    BY <2>1 DEF TypeOK
  <2>4. LastSent(u)' <=> LastSent(u)
    BY <2>3 DEF LastSent, LastChunk
  <2>5. u = v => LastSent(u)' \/ r.chunk # Chunks[u] - 1
    BY <1>11, <2>2, <2>4 DEF RepeatRequest, LastSent, LastChunk
  <2>6. UNCHANGED sessions
    BY <1>11 DEF RepeatRequest
  <2> HIDE DEF r
  <2> QED
    BY <1>2, <2>2, <2>4, <2>5, <2>6
<1>12. ASSUME NEW v \in Upload, NEW i \in Slot, Drop(v, i), UNCHANGED pageVars
       PROVE  Early(u)'
  <2>1. Moves(v, i, NoHandler) /\ UNCHANGED sessions
    BY <1>12 DEF Drop, Moves
  <2>2. LastSent(u)' <=> LastSent(u)
    BY <1>3, <1>12 DEF pageVars
  <2> QED
    BY <1>2, <2>1, <2>2, NoRecords
<1>13. CASE Restart
  BY <1>13 DEF Restart, Early, At, NoHandler
<1> QED
  BY <1>5, <1>6, <1>7, <1>8, <1>9, <1>10, <1>11, <1>12, <1>13, HandlerKeepsEarly
     DEF Next, User, Page, Server, Faults, PickFile, LearnSize, ReadFile, RemoveFile,
         LoseSigner, vars, pageVars

(* The requests of an upload that have not run it: each may once, and there *)
(* are no more of them than the page has sent, but for those it has read    *)
(* the answer of.  A request sent again counts as one more.                 *)
Unspent == {"arrived", "stored", "collect", "charge", "charge_global", "process", "ack"}
InTheMain(u) == IF uploader[u].at \in {"wait", "ended"} THEN 1 ELSE 0
Budget(u) == runs[u] + InPlace(u, Unspent) <= repeats[u] + InTheMain(u)

LEMMA HandlerKeepsBudget ==
  ASSUME TypeOK, NEW u \in Upload, Budget(u),
         NEW v \in Upload, NEW i \in Slot, HandlerStep(v, i), UNCHANGED pageVars
  PROVE  Budget(u)'
<1> DEFINE n == InPlace(u, Unspent)
<1>1. /\ n \in Nat /\ n' \in Nat /\ runs[u] \in Nat /\ repeats[u] \in Nat
      /\ runs[u] + n <= repeats[u] + InTheMain(u)
      /\ InTheMain(u) \in {0, 1} /\ InTheMain(u)' = InTheMain(u)
  BY PlacesAreCounted, CountsAreNaturals DEF Budget, InTheMain, pageVars
<1>2. repeats' = repeats
  BY DEF HandlerStep, Enter, TestComplete, CollectChunks, ChargeAddress, ChargeGlobal,
         Process, ClearChunks
<1>3. ASSUME NEW at, Goto(v, i, at)
      PROVE  /\ At(v, i) \in Unspent \/ at \notin Unspent => n' <= n
             /\ u = v /\ At(v, i) \in Unspent /\ at \notin Unspent => n' <= n - 1
             /\ u # v => n' = n
  <2>1. Moves(v, i, [at |-> at, chunk |-> Chunk(v, i)])
    BY <1>3, GotoMoves
  <2> QED
    BY <2>1, MoveCounts
<1>4. ASSUME n' <= n, runs' = runs
      PROVE  Budget(u)'
  BY <1>1, <1>2, <1>4 DEF Budget
<1>5. CASE Process(v, i)
  <2>1. At(v, i) \in Unspent
    BY <1>5 DEF Process, Unspent
  <2>2. n' <= n /\ (u = v => n' <= n - 1)
    <3>1. CASE Goto(v, i, "clear")
      BY <1>1, <1>3, <2>1, <3>1 DEF Unspent
    <3>2. CASE Moves(v, i, NoHandler)
      BY <1>1, <2>1, <3>2, MoveCounts, NoRecords DEF Unspent
    <3> QED
      BY <1>5, <3>1, <3>2 DEF Process, Moves
  <2>3. /\ u = v => runs'[u] = runs[u] + 1
        /\ u # v => runs'[u] = runs[u]
    BY <1>5 DEF Process, TypeOK
  <2>4. runs'[u] + n' <= repeats'[u] + InTheMain(u)'
    <3> HIDE DEF n
    <3> QED
      BY <1>1, <1>2, <2>2, <2>3
  <2> QED
    BY <2>4 DEF Budget
<1>6. CASE ~ Process(v, i)
  <2>1. runs' = runs
    BY <1>6 DEF HandlerStep, Enter, TestComplete, CollectChunks, ChargeAddress, ChargeGlobal,
                ClearChunks
  <2>2. \E at : Goto(v, i, at) /\ (At(v, i) \in Unspent \/ at \notin Unspent)
    BY <1>6 DEF HandlerStep, Enter, Reject, Admit, TestComplete, CollectChunks, AfterCollecting,
                ChargeAddress, ChargeGlobal, ClearChunks, Unspent
  <2> QED
    BY <1>3, <1>4, <2>1, <2>2
<1> QED
  BY <1>5, <1>6

(* The other steps.  Reading an "ack" ends the main request, which until    *)
(* the last chunk is what a request that is not refused has come to; to     *)
(* send the next chunk begins it again.                                     *)
LEMMA StepsKeepBudget ==
  ASSUME TypeOK, NEW u \in Upload, Early(u), Budget(u), [Next]_vars
  PROVE  Budget(u)'
<1> DEFINE n == InPlace(u, Unspent)
           m == InTheMain(u)
<1>1. /\ n \in Nat /\ n' \in Nat /\ runs[u] \in Nat /\ repeats[u] \in Nat
      /\ runs[u] + n <= repeats[u] + m
      /\ m \in {0, 1} /\ m' \in {0, 1}
  BY PlacesAreCounted, CountsAreNaturals DEF Budget, InTheMain
<1>2. ASSUME runs'[u] = runs[u], repeats'[u] \in Nat,
             n' - m' - repeats'[u] <= n - m - repeats[u]
      PROVE  Budget(u)'
  <2> HIDE DEF n, m
  <2>1. runs'[u] + n' <= repeats'[u] + m'
    BY <1>1, <1>2
  <2> QED
    BY <2>1 DEF Budget, n, m
<1>3. ASSUME UNCHANGED handler
      PROVE  n' = n
  BY <1>3, StillCounts
<1>4. ASSUME uploader'[u] = uploader[u] \/ uploader'[u].at = "ended"
      PROVE  m <= m'
  BY <1>4 DEF InTheMain
<1>5. ASSUME UNCHANGED <<handler, runs, repeats>>, m <= m'
      PROVE  Budget(u)'
  BY <1>1, <1>2, <1>3, <1>5
<1>6. ASSUME NEW v \in Upload, End(v)
      PROVE  m <= m'
  BY <1>4, <1>6, EndEffect
<1>7. ASSUME NEW v \in Upload, NEW i \in Slot, Moves(v, i, NoHandler)
      PROVE  /\ n' <= n
             /\ u = v /\ At(v, i) \in Unspent => n' <= n - 1
  BY <1>7, MoveCounts, NoRecords DEF Unspent
<1>8. ASSUME NEW v \in Upload, NEW i \in Slot, NEW k,
             Moves(v, i, [at |-> "arrived", chunk |-> k])
      PROVE  n' <= n + 1 /\ (u # v => n' = n)
  BY <1>8, MoveCounts
<1>9. ASSUME NEW v \in Upload, Submit(v)
      PROVE  Budget(u)'
  <2>1. uploader[v].at = "none" /\ (u # v => uploader'[u] = uploader[u])
    BY <1>9 DEF Submit, TypeOK
  <2>2. m <= m'
    BY <1>1, <1>4, <2>1 DEF InTheMain
  <2> QED
    BY <1>5, <1>9, <2>2 DEF Submit, serverVars
<1>10. ASSUME NEW v \in Upload, FailHealthCheck(v) \/ FailRequest(v)
       PROVE  Budget(u)'
  BY <1>5, <1>6, <1>10 DEF FailHealthCheck, FailRequest, serverVars
<1>11. ASSUME NEW v \in Upload, TakeContent(v)
       PROVE  Budget(u)'
  <2>1. End(v) \/ uploader' = [uploader EXCEPT ![v].at = "send"]
    BY <1>11 DEF TakeContent
  <2>2. m <= m'
    <3>1. CASE End(v)
      BY <1>6, <3>1
    <3>2. CASE uploader' = [uploader EXCEPT ![v].at = "send"]
      <4>1. uploader[v].at = "health" /\ (u # v => uploader'[u] = uploader[u])
        BY <1>11, <3>2 DEF TakeContent, TypeOK
      <4> QED
        BY <1>1, <1>4, <4>1 DEF InTheMain
    <3> QED
      BY <2>1, <3>1, <3>2
  <2> QED
    BY <1>5, <1>11, <2>2 DEF TakeContent
<1>12. ASSUME NEW v \in Upload, SendChunk(v)
       PROVE  Budget(u)'
  <2>1. UNCHANGED <<runs, repeats>> /\ uploader[v].at = "send"
    BY <1>12 DEF SendChunk
  <2>2. CASE End(v) /\ UNCHANGED handler
    BY <1>5, <1>6, <2>1, <2>2
  <2>3. ASSUME NEW i \in Slot, Moves(v, i, [at |-> "arrived", chunk |-> uploader[v].chunk]),
               uploader' = [uploader EXCEPT ![v].at = "wait", ![v].slot = i]
        PROVE  Budget(u)'
    <3>1. IF u = v THEN m = 0 /\ m' = 1 ELSE m' = m
      BY <2>1, <2>3 DEF InTheMain, TypeOK
    <3>2. n' <= n + 1 /\ (u # v => n' = n)
      BY <1>8, <2>3
    <3> QED
      BY <1>1, <1>2, <2>1, <3>1, <3>2
  <2> QED
    BY <1>12, <2>2, <2>3 DEF SendChunk, Moves
<1>13. ASSUME NEW v \in Upload, ReadAnswer(v)
       PROVE  Budget(u)'
  <2>1. uploader[v].slot \in Slot
    BY DEF TypeOK
  <2>2. Moves(v, uploader[v].slot, NoHandler) /\ UNCHANGED <<runs, repeats>>
    BY <1>13 DEF ReadAnswer, Moves
  <2>3. CASE End(v)
    BY <1>1, <1>2, <1>6, <1>7, <2>1, <2>2, <2>3
  <2>4. CASE UNCHANGED uploader
    BY <1>1, <1>2, <1>4, <1>7, <2>1, <2>2, <2>4
  <2>5. CASE /\ Awaited(v) # "error" /\ ~ LastChunk(v)
             /\ uploader' = [uploader EXCEPT ![v] = [at |-> "send", chunk |-> uploader[v].chunk + 1,
                                                     slot |-> uploader[v].slot]]
    <3>1. CASE u # v
      <4>1. uploader'[u] = uploader[u]
        BY <2>5, <3>1, SteerEffect
      <4> QED
        BY <1>1, <1>2, <1>4, <1>7, <2>1, <2>2, <4>1
    <3>2. CASE u = v
      <4>1. uploader[u].at = "wait" /\ Awaited(u) \in Answer /\ ~ LastSent(u)
        BY <1>13, <2>5, <3>2 DEF ReadAnswer, LastSent
      <4>2. At(u, uploader[u].slot) = "ack"
        BY <2>1, <2>5, <3>2, <4>1 DEF Early, Awaited, Answer
      <4>3. n' <= n - 1
        BY <1>7, <2>1, <2>2, <3>2, <4>2 DEF Unspent
      <4>4. m - 1 <= m'
        BY <1>1
      <4> QED
        BY <1>1, <1>2, <2>2, <4>3, <4>4
    <3> QED
      BY <3>1, <3>2
  <2> QED
    BY <1>13, <2>3, <2>4, <2>5 DEF ReadAnswer
<1>14. ASSUME NEW v \in Upload, RepeatRequest(v)
       PROVE  Budget(u)'
  <2>1. PICK i \in Slot : /\ Moves(v, i, [at |-> "arrived", chunk |-> uploader[v].chunk])
                          /\ uploader' = [uploader EXCEPT ![v].slot = i]
    BY <1>14 DEF RepeatRequest, Moves
  <2>2. n' <= n + 1 /\ (u # v => n' = n)
    BY <1>8, <2>1
  <2>3. m' = m
    BY <2>1 DEF InTheMain, TypeOK
  <2>4. /\ u = v => repeats'[u] = repeats[u] + 1
        /\ u # v => repeats'[u] = repeats[u]
        /\ UNCHANGED runs
    BY <1>14 DEF RepeatRequest, TypeOK
  <2> QED
    BY <1>1, <1>2, <2>2, <2>3, <2>4
<1>15. ASSUME NEW v \in Upload, NEW i \in Slot, Drop(v, i), UNCHANGED pageVars
       PROVE  Budget(u)'
  <2>1. Moves(v, i, NoHandler) /\ UNCHANGED <<runs, repeats>>
    BY <1>15 DEF Drop, Moves
  <2>2. m <= m'
    BY <1>4, <1>15 DEF pageVars
  <2> QED
    BY <1>1, <1>2, <1>7, <2>1, <2>2
<1>16. ASSUME Restart, UNCHANGED pageVars
       PROVE  Budget(u)'
  <2>1. n' = 0 /\ UNCHANGED <<runs, repeats>>
    BY <1>16, RestartCounts DEF Restart, Unspent
  <2>2. m <= m'
    BY <1>4, <1>16 DEF pageVars
  <2> QED
    BY <1>1, <1>2, <2>1, <2>2
<1>17. ASSUME UNCHANGED <<handler, runs, repeats>>, UNCHANGED uploader
       PROVE  Budget(u)'
  BY <1>4, <1>5, <1>17
<1> QED
  BY <1>9, <1>10, <1>11, <1>12, <1>13, <1>14, <1>15, <1>16, <1>17, HandlerKeepsBudget
     DEF Next, User, Page, Server, Faults, PickFile, LearnSize, ReadFile, RemoveFile,
         LoseSigner, vars, pageVars, serverVars

(* ProcessedOnce: an upload is run once, and at most once more for each     *)
(* request sent again, however the handlers of one session interleave.      *)
THEOREM UploadsRunOnce == Spec => []ProcessedOnce
<1> DEFINE Inv == \A u \in Upload : Early(u) /\ Budget(u)
<1>1. Init => Inv
  <2> SUFFICES ASSUME Init, NEW u \in Upload PROVE Early(u) /\ Budget(u)
    OBVIOUS
  <2>1. HandlersAt(u, Unspent) = {}
    BY DEF Init, ServerInit, HandlersAt, At, NoHandler, Unspent
  <2>2. InPlace(u, Unspent) = 0
    BY <2>1, FS_EmptySet DEF InPlace
  <2>3. runs[u] = 0 /\ repeats[u] = 0 /\ uploader[u].at = "none"
    BY DEF Init, ServerInit, NoUploader
  <2>4. Early(u)
    BY DEF Init, ServerInit, Early, At, NoHandler
  <2> QED
    BY <2>2, <2>3, <2>4 DEF Budget, InTheMain
<1>2. TypeOK /\ Inv /\ [Next]_vars => Inv'
  BY StepsKeepEarly, StepsKeepBudget
<1>3. TypeOK /\ Inv => ProcessedOnce
  <2> SUFFICES ASSUME TypeOK, Inv, NEW u \in Upload PROVE runs[u] <= 1 + repeats[u]
    BY DEF ProcessedOnce
  <2>1. InPlace(u, Unspent) \in Nat /\ InTheMain(u) \in {0, 1} /\ Budget(u)
    BY PlacesAreCounted DEF InTheMain
  <2> QED
    BY <2>1, CountsAreNaturals DEF Budget
<1> QED
  BY <1>1, <1>2, <1>3, UploadTypeCorrect, PTL DEF Spec

-----------------------------------------------------------------------------
(* What a step can do to one upload. *)

Results(u) == ob_results = u /\ ob_results # NIL

(* The server knows and does what it did. *)
Untouched(u) ==
  /\ sessions'[u] = sessions[u] /\ handler'[u] = handler[u]
  /\ runs'[u] = runs[u] /\ repeats'[u] = repeats[u]
  /\ UNCHANGED wiped

(* The uploader waits, ends, or goes on towards its next request. *)
Onward(u) ==
  \/ uploader'[u] = uploader[u]
  \/ uploader'[u].at = "ended"
  \/ /\ uploader'[u].chunk = uploader[u].chunk
     /\ <<uploader[u].at, uploader'[u].at>> \in {<<"none", "health">>, <<"health", "send">>}

Idles(u) == Untouched(u) /\ Onward(u) /\ (Results(u)' => Results(u))

Request(u) == [at |-> "arrived", chunk |-> uploader[u].chunk]
Sends(u) ==
  /\ uploader[u].at = "send"
  /\ \E i \in Slot : /\ Moves(u, i, Request(u))
                     /\ uploader'[u].at = "wait" /\ uploader'[u].slot = i
                     /\ uploader'[u].chunk = uploader[u].chunk
  /\ UNCHANGED <<sessions, runs, repeats, wiped, ob_results>>

Repeats(u) ==
  /\ uploader[u].at = "wait" /\ uploader'[u].at = "wait"
  /\ repeats'[u] = repeats[u] + 1
  /\ \E i \in Slot : Moves(u, i, Request(u))
  /\ UNCHANGED <<sessions, runs, wiped, ob_results>>

Serves(u) == (\E i \in Slot : HandlerStep(u, i)) /\ UNCHANGED pageVars
Drops(u) == (\E i \in Slot : ~ Heard(u, i) /\ Drop(u, i)) /\ UNCHANGED pageVars
Restarts == Restart /\ UNCHANGED pageVars

StepOf(u) == \/ Idles(u) \/ Sends(u) \/ Repeats(u) \/ Serves(u) \/ Drops(u)
             \/ ReadAnswer(u) \/ Restarts

LEMMA OthersIdle ==
  ASSUME TypeOK, NEW u \in Upload, NEW v \in Upload, u # v,
         UNCHANGED wiped,
         \/ handler' = handler
         \/ \E i \in Slot : \E r : Moves(v, i, r),
         sessions' = sessions \/ (\E s : sessions' = [sessions EXCEPT ![v] = s]),
         runs' = runs \/ runs' = [runs EXCEPT ![v] = @ + 1],
         repeats' = repeats \/ repeats' = [repeats EXCEPT ![v] = @ + 1],
         uploader' = uploader \/ (\E q : uploader' = [uploader EXCEPT ![v] = q]),
         ob_results' \in {ob_results, NIL, v}
  PROVE  Idles(u)
<1>1. handler'[u] = handler[u] /\ sessions'[u] = sessions[u]
  BY DEF TypeOK, Moves
<1>2. runs'[u] = runs[u] /\ repeats'[u] = repeats[u] /\ uploader'[u] = uploader[u]
  BY DEF TypeOK
<1> QED
  BY <1>1, <1>2 DEF Idles, Untouched, Onward, Results

LEMMA HandlerMoves ==
  ASSUME TypeOK, NEW v \in Upload, NEW i \in Slot, HandlerStep(v, i)
  PROVE  /\ \E r : Moves(v, i, r)
         /\ sessions' = sessions \/ (\E s : sessions' = [sessions EXCEPT ![v] = s])
         /\ runs' = runs \/ runs' = [runs EXCEPT ![v] = @ + 1]
         /\ UNCHANGED <<repeats, wiped>>
<1>1. ASSUME NEW at, Goto(v, i, at) PROVE \E r : Moves(v, i, r)
  BY <1>1, GotoMoves
<1>2. CASE Enter(v, i)
  BY <1>1, <1>2 DEF Enter, Reject, Admit, StoreChunk
<1>3. CASE TestComplete(v, i) \/ CollectChunks(v, i)
  BY <1>1, <1>3 DEF TestComplete, CollectChunks
<1>4. CASE ChargeAddress(v, i) \/ ChargeGlobal(v, i)
  BY <1>1, <1>4 DEF ChargeAddress, ChargeGlobal
<1>5. CASE Process(v, i)
  BY <1>1, <1>5 DEF Process, Moves
<1>6. CASE ClearChunks(v, i)
  BY <1>1, <1>6 DEF ClearChunks
<1> QED
  BY <1>2, <1>3, <1>4, <1>5, <1>6 DEF HandlerStep

LEMMA EndSteers ==
  ASSUME NEW v, End(v)
  PROVE  \E q : q.at = "ended" /\ uploader' = [uploader EXCEPT ![v] = q]
BY NoRecords DEF End

(* Every step is one of these for every upload. *)
LEMMA StepsByUpload ==
  ASSUME TypeOK, NEW u \in Upload, [Next]_vars
  PROVE  StepOf(u)
<1>1. ASSUME UNCHANGED serverVars, UNCHANGED uploader, ob_results' \in {ob_results, NIL}
      PROVE  Idles(u)
  BY <1>1 DEF serverVars, Idles, Untouched, Onward, Results
<1>2. ASSUME UNCHANGED <<sessions, handler, runs, repeats, wiped, ob_results>>, Onward(u)
      PROVE  Idles(u)
  BY <1>2 DEF Idles, Untouched, Results
<1>3. ASSUME NEW v \in Upload, End(v)
      PROVE  Onward(u)
  <2>1. /\ u = v => uploader'[u].at = "ended"
        /\ u # v => uploader'[u] = uploader[u]
    BY <1>3, EndEffect
  <2> QED
    BY <2>1 DEF Onward
<1>4. ASSUME NEW v \in Upload, Submit(v) PROVE StepOf(u)
  <2>1. /\ uploader[v].at = "none" /\ uploader' = [uploader EXCEPT ![v].at = "health"]
        /\ UNCHANGED serverVars /\ UNCHANGED ob_results
    BY <1>4 DEF Submit
  <2>2. Onward(u)
    <3>1. CASE u = v
      <4>1. uploader'[u].at = "health" /\ uploader'[u].chunk = uploader[u].chunk
        BY <2>1, <3>1 DEF TypeOK
      <4> QED
        BY <2>1, <3>1, <4>1 DEF Onward
    <3>2. CASE u # v
      BY <2>1, <3>2 DEF Onward, TypeOK
    <3> QED
      BY <3>1, <3>2
  <2> QED
    BY <1>2, <2>1, <2>2 DEF StepOf, serverVars
<1>5. ASSUME NEW v \in Upload, FailHealthCheck(v) \/ FailRequest(v) PROVE StepOf(u)
  BY <1>2, <1>3, <1>5 DEF FailHealthCheck, FailRequest, StepOf, serverVars
<1>6. ASSUME NEW v \in Upload, TakeContent(v) PROVE StepOf(u)
  <2>1. /\ uploader[v].at = "health"
        /\ End(v) \/ uploader' = [uploader EXCEPT ![v].at = "send"]
        /\ UNCHANGED <<sessions, handler, runs, repeats, wiped, ob_results>>
    BY <1>6 DEF TakeContent
  <2>2. CASE End(v)
    BY <1>2, <1>3, <2>1, <2>2 DEF StepOf
  <2>3. CASE uploader' = [uploader EXCEPT ![v].at = "send"]
    <3>1. CASE u = v
      <4>1. uploader'[u].at = "send" /\ uploader'[u].chunk = uploader[u].chunk
        BY <2>3, <3>1 DEF TypeOK
      <4> QED
        BY <1>2, <2>1, <3>1, <4>1 DEF Onward, StepOf
    <3>2. CASE u # v
      BY <1>2, <2>1, <2>3, <3>2 DEF Onward, StepOf, TypeOK
    <3> QED
      BY <3>1, <3>2
  <2> QED
    BY <2>1, <2>2, <2>3
<1>7. ASSUME NEW v \in Upload, SendChunk(v) PROVE StepOf(u)
  <2>1. /\ uploader[v].at = "send"
        /\ UNCHANGED <<sessions, runs, repeats, wiped, ob_results>>
    BY <1>7 DEF SendChunk
  <2>2. CASE End(v) /\ UNCHANGED handler
    BY <1>2, <1>3, <2>1, <2>2 DEF StepOf
  <2>3. ASSUME NEW i \in Slot, Moves(v, i, Request(v)),
               uploader' = [uploader EXCEPT ![v].at = "wait", ![v].slot = i]
        PROVE  StepOf(u)
    <3>1. CASE u = v
      <4>1. /\ uploader'[u].at = "wait" /\ uploader'[u].slot = i
            /\ uploader'[u].chunk = uploader[u].chunk
        BY <2>3, <3>1 DEF TypeOK
      <4> QED
        BY <2>1, <2>3, <3>1, <4>1 DEF Sends, StepOf
    <3>2. CASE u # v
      <4>1. handler'[u] = handler[u] /\ uploader'[u] = uploader[u]
        BY <2>3, <3>2 DEF Moves, TypeOK
      <4> QED
        BY <2>1, <4>1 DEF Idles, Untouched, Onward, Results, StepOf
    <3> QED
      BY <3>1, <3>2
  <2> QED
    BY <1>7, <2>2, <2>3 DEF SendChunk, Moves, Request
<1>8. ASSUME NEW v \in Upload, ReadAnswer(v) PROVE StepOf(u)
  <2>1. CASE u = v
    BY <1>8, <2>1 DEF StepOf
  <2>2. CASE u # v
    <3>1. uploader[v].slot \in Slot
      BY DEF TypeOK
    <3>2. Moves(v, uploader[v].slot, NoHandler) /\ UNCHANGED <<sessions, runs, repeats, wiped>>
      BY <1>8 DEF ReadAnswer, Moves
    <3>3. uploader' = uploader \/ (\E q : uploader' = [uploader EXCEPT ![v] = q])
      BY <1>8, EndSteers DEF ReadAnswer
    <3>4. ob_results' \in {ob_results, NIL, v}
      BY <1>8 DEF ReadAnswer
    <3> QED
      BY <2>2, <3>1, <3>2, <3>3, <3>4, OthersIdle DEF StepOf
  <2> QED
    BY <2>1, <2>2
<1>9. ASSUME NEW v \in Upload, RepeatRequest(v) PROVE StepOf(u)
  <2>1. PICK i \in Slot : /\ Moves(v, i, Request(v))
                          /\ uploader' = [uploader EXCEPT ![v].slot = i]
    BY <1>9 DEF RepeatRequest, Moves, Request
  <2>2. /\ uploader[v].at = "wait" /\ repeats' = [repeats EXCEPT ![v] = @ + 1]
        /\ UNCHANGED <<sessions, runs, wiped, ob_results>>
    BY <1>9 DEF RepeatRequest
  <2>3. CASE u = v
    <3>1. uploader'[u].at = "wait" /\ repeats'[u] = repeats[u] + 1
      BY <2>1, <2>2, <2>3 DEF TypeOK
    <3> QED
      BY <2>1, <2>2, <2>3, <3>1 DEF Repeats, StepOf
  <2>4. CASE u # v
    <3>1. /\ handler'[u] = handler[u] /\ uploader'[u] = uploader[u]
          /\ repeats'[u] = repeats[u]
      BY <2>1, <2>2, <2>4 DEF Moves, TypeOK
    <3> QED
      BY <2>2, <3>1 DEF Idles, Untouched, Onward, Results, StepOf
  <2> QED
    BY <2>3, <2>4
<1>10. ASSUME NEW v \in Upload, NEW i \in Slot, HandlerStep(v, i), UNCHANGED pageVars
       PROVE  StepOf(u)
  <2>1. CASE u = v
    BY <1>10, <2>1 DEF Serves, StepOf
  <2>2. CASE u # v
    BY <1>10, <2>2, HandlerMoves, OthersIdle DEF StepOf, pageVars
  <2> QED
    BY <2>1, <2>2
<1>11. ASSUME NEW v \in Upload, NEW i \in Slot, ~ Heard(v, i), Drop(v, i), UNCHANGED pageVars
       PROVE  StepOf(u)
  <2>1. CASE u = v
    BY <1>11, <2>1 DEF Drops, StepOf
  <2>2. CASE u # v
    BY <1>11, <2>2, OthersIdle DEF StepOf, pageVars, Drop, Moves
  <2> QED
    BY <2>1, <2>2
<1>12. CASE UNCHANGED vars
  BY <1>1, <1>12 DEF vars, pageVars, StepOf
<1>13. ASSUME NEW p \in Pick, NEW f \in File \cup {NIL}, PickFile(p, f) PROVE StepOf(u)
  BY <1>1, <1>13 DEF PickFile, StepOf
<1>14. ASSUME NEW p \in Pick, LearnSize(p) \/ ReadFile(p) PROVE StepOf(u)
  BY <1>1, <1>14 DEF LearnSize, ReadFile, StepOf
<1>15. CASE RemoveFile \/ (\E v \in Upload : LoseSigner(v))
  BY <1>1, <1>15 DEF RemoveFile, LoseSigner, StepOf
<1>16. CASE Restarts
  BY <1>16 DEF StepOf
<1> QED
  BY <1>4, <1>5, <1>6, <1>7, <1>8, <1>9, <1>10, <1>11, <1>12, <1>13, <1>14, <1>15, <1>16
     DEF Next, User, Page, Server, Faults, Restarts

-----------------------------------------------------------------------------
(* Handlers of an upload none of whose requests was repeated. *)

(* There is at most one, and while the page waits it is the one it hears. *)
Alone(u) ==
  repeats[u] = 0 =>
    /\ uploader[u].at \in {"none", "health", "send"} => \A i \in Slot : At(u, i) = "none"
    /\ uploader[u].at = "wait" => \A i \in Slot : At(u, i) # "none" => i = uploader[u].slot
    /\ \A i, j \in Slot : At(u, i) # "none" /\ At(u, j) # "none" => i = j

(* A handler past its run has made one; and what it has cleared stays so. *)
HasRun(u) == \A i \in Slot : At(u, i) \in {"clear", "processed"} => runs[u] > 0
Forgotten(u) == repeats[u] = 0 => \A i \in Slot : At(u, i) = "processed" => sessions[u] = {}

(* ResultsAreFinal of one upload, which has ended by then. *)
Final(u) ==
  Results(u) =>
    /\ runs[u] > 0 /\ uploader[u].at = "ended"
    /\ repeats[u] = 0 => sessions[u] = {} /\ \A i \in Slot : At(u, i) = "none"

FinalInv(u) == Alone(u) /\ HasRun(u) /\ Forgotten(u) /\ Final(u)

(* A step after which a handler is gone, or a new one has arrived. *)
LEMMA SlotEffect ==
  ASSUME TypeOK, NEW u \in Upload, NEW i \in Slot, NEW r, Moves(u, i, r)
  PROVE  /\ At(u, i)' = r.at /\ Chunk(u, i)' = r.chunk
         /\ \A j \in Slot \ {i} : At(u, j)' = At(u, j) /\ Chunk(u, j)' = Chunk(u, j)
BY MoveEffect

LEMMA ServesEffect ==
  ASSUME TypeOK, NEW u \in Upload, NEW i \in Slot, HandlerStep(u, i)
  PROVE  /\ At(u, i) # "none"
         /\ \A j \in Slot \ {i} : At(u, j)' = At(u, j) /\ Chunk(u, j)' = Chunk(u, j)
         /\ UNCHANGED <<repeats, wiped>>
         /\ runs[u] \in Nat /\ runs'[u] \in {runs[u], runs[u] + 1}
         /\ At(u, i)' = "clear" => runs'[u] = runs[u] + 1
         /\ At(u, i)' = "processed" => At(u, i) = "clear" /\ sessions'[u] = {}
<1>1. runs[u] \in Nat /\ (runs' = runs => runs'[u] = runs[u])
  BY DEF TypeOK
<1>2. UNCHANGED <<repeats, wiped>> /\ At(u, i) # "none"
  BY DEF HandlerStep, Enter, TestComplete, CollectChunks, ChargeAddress, ChargeGlobal,
         Process, ClearChunks
<1>3. ASSUME NEW at, Goto(u, i, at)
      PROVE  /\ At(u, i)' = at
             /\ \A j \in Slot \ {i} : At(u, j)' = At(u, j) /\ Chunk(u, j)' = Chunk(u, j)
  BY <1>3, GotoEffect
<1>4. CASE Enter(u, i) \/ TestComplete(u, i) \/ CollectChunks(u, i) \/ ChargeAddress(u, i)
           \/ ChargeGlobal(u, i)
  <2>1. \E at : Goto(u, i, at) /\ at \notin {"clear", "processed"}
    BY <1>4 DEF Enter, Reject, Admit, TestComplete, CollectChunks, AfterCollecting,
                ChargeAddress, ChargeGlobal
  <2>2. runs' = runs
    BY <1>4 DEF Enter, TestComplete, CollectChunks, ChargeAddress, ChargeGlobal
  <2> QED
    BY <1>1, <1>2, <1>3, <2>1, <2>2
<1>5. CASE Process(u, i)
  <2>1. runs'[u] = runs[u] + 1
    BY <1>5 DEF Process, TypeOK
  <2>2. CASE Goto(u, i, "clear")
    BY <1>1, <1>2, <1>3, <2>1, <2>2
  <2>3. CASE handler' = [handler EXCEPT ![u][i] = NoHandler]
    <3>1. /\ At(u, i)' = "none"
          /\ \A j \in Slot \ {i} : At(u, j)' = At(u, j) /\ Chunk(u, j)' = Chunk(u, j)
      <4>1. Moves(u, i, NoHandler)
        BY <2>3 DEF Moves
      <4> QED
        BY <4>1, NoRecords, SlotEffect
    <3> QED
      BY <1>1, <1>2, <2>1, <3>1
  <2> QED
    BY <1>5, <2>2, <2>3 DEF Process
<1>6. CASE ClearChunks(u, i)
  <2>1. \E at \in {"error", "processed"} : Goto(u, i, at)
    BY <1>6 DEF ClearChunks
  <2>2. sessions'[u] = {} /\ runs' = runs /\ At(u, i) = "clear"
    BY <1>6 DEF ClearChunks, TypeOK
  <2> QED
    BY <1>1, <1>2, <1>3, <2>1, <2>2
<1> QED
  BY <1>4, <1>5, <1>6 DEF HandlerStep

LEMMA ReadAnswerEffect ==
  ASSUME TypeOK, NEW u \in Upload, NEW i \in Slot, i = uploader[u].slot, ReadAnswer(u)
  PROVE  /\ uploader[u].at = "wait" /\ At(u, i) \in Answer /\ At(u, i)' = "none"
         /\ \A j \in Slot \ {i} : At(u, j)' = At(u, j)
         /\ UNCHANGED <<sessions, runs, repeats, wiped>>
         /\ \/ uploader'[u].at = "ended"
            \/ /\ uploader'[u] = uploader[u]
               /\ At(u, i) = "ack" /\ LastChunk(u) /\ UNCHANGED ob_results
            \/ /\ uploader'[u].at = "send" /\ uploader'[u].chunk = uploader[u].chunk + 1
               /\ At(u, i) # "error" /\ ~ LastChunk(u) /\ UNCHANGED ob_results
         /\ Results(u)' /\ ~ Results(u) => At(u, i) = "processed" /\ uploader'[u].at = "ended"
         /\ crashed' = "assertion" /\ crashed # "assertion" => At(u, i) = "ack" /\ LastChunk(u)
<1>1. uploader[u].at = "wait" /\ Awaited(u) = At(u, i) /\ Awaited(u) \in Answer
  BY DEF ReadAnswer, Awaited
<1>2. Moves(u, i, NoHandler) /\ UNCHANGED <<sessions, runs, repeats, wiped>>
  BY DEF ReadAnswer, Moves
<1>3. At(u, i)' = "none" /\ \A j \in Slot \ {i} : At(u, j)' = At(u, j)
  BY <1>2, NoRecords, SlotEffect
<1>4. End(u) => uploader'[u].at = "ended"
  BY EndEffect
<1>5. CASE Awaited(u) = "error" /\ End(u) /\ UNCHANGED <<ob_results, crashed>>
  BY <1>1, <1>2, <1>3, <1>4, <1>5 DEF Results
<1>6. CASE /\ Awaited(u) # "error" /\ ~ LastChunk(u)
           /\ uploader' = [uploader EXCEPT ![u] = [at |-> "send", chunk |-> uploader[u].chunk + 1,
                                                   slot |-> uploader[u].slot]]
           /\ UNCHANGED <<ob_results, crashed>>
  <2> DEFINE q == [at |-> "send", chunk |-> uploader[u].chunk + 1, slot |-> uploader[u].slot]
  <2>1. uploader' = [uploader EXCEPT ![u] = q]
        /\ q.at = "send" /\ q.chunk = uploader[u].chunk + 1
    BY <1>6
  <2> HIDE DEF q
  <2>2. uploader'[u] = q
    BY <2>1, SteerEffect
  <2> QED
    BY <1>1, <1>2, <1>3, <1>6, <2>1, <2>2 DEF Results
<1>7. CASE /\ Awaited(u) = "ack" /\ LastChunk(u)
           /\ crashed' = "assertion"
           /\ UNCHANGED <<uploader, ob_results>>
  BY <1>1, <1>2, <1>3, <1>7 DEF Results
<1>8. CASE /\ Awaited(u) \in {"processed", "no_orders"} /\ LastChunk(u)
           /\ ob_results' = IF Awaited(u) = "processed" THEN u ELSE NIL
           /\ End(u) /\ UNCHANGED crashed
  BY <1>1, <1>2, <1>3, <1>4, <1>8 DEF Results
<1> QED
  BY <1>5, <1>6, <1>7, <1>8 DEF ReadAnswer

LEMMA StepsKeepFinal ==
  ASSUME TypeOK, NEW u \in Upload, FinalInv(u), [Next]_vars
  PROVE  FinalInv(u)'
<1> USE DEF FinalInv
<1>1. CASE Idles(u)
  <2>1. \A i \in Slot : At(u, i)' = At(u, i)
    BY <1>1 DEF Idles, Untouched, At
  <2>2. Alone(u)'
    BY <1>1, <2>1 DEF Idles, Untouched, Onward, Alone
  <2>3. (HasRun(u) /\ Forgotten(u))'
    BY <1>1, <2>1 DEF Idles, Untouched, HasRun, Forgotten
  <2>4. Final(u)'
    <3>1. Results(u)' => uploader'[u].at = "ended"
      BY <1>1 DEF Idles, Onward, Final
    <3> QED
      BY <1>1, <2>1, <3>1 DEF Idles, Untouched, Final
  <2> QED
    BY <2>2, <2>3, <2>4
<1>2. CASE Sends(u)
  <2>1. PICK i \in Slot : Moves(u, i, Request(u)) /\ uploader'[u].at = "wait" /\ uploader'[u].slot = i
    BY <1>2 DEF Sends
  <2>2. At(u, i)' = "arrived" /\ \A j \in Slot \ {i} : At(u, j)' = At(u, j)
    BY <2>1, SlotEffect DEF Request
  <2>3. uploader[u].at = "send" /\ UNCHANGED <<sessions, runs, repeats, ob_results>>
    BY <1>2 DEF Sends
  <2>4. Alone(u)'
    BY <2>1, <2>2, <2>3 DEF Alone
  <2>5. (HasRun(u) /\ Forgotten(u) /\ Final(u))'
    BY <2>2, <2>3 DEF HasRun, Forgotten, Final, Results
  <2> QED
    BY <2>4, <2>5
<1>3. CASE Repeats(u)
  <2>1. repeats'[u] # 0 /\ uploader[u].at = "wait" /\ UNCHANGED <<sessions, runs, ob_results>>
    BY <1>3, CountsAreNaturals DEF Repeats
  <2>2. PICK i \in Slot : Moves(u, i, Request(u))
    BY <1>3 DEF Repeats
  <2>3. At(u, i)' = "arrived" /\ \A j \in Slot \ {i} : At(u, j)' = At(u, j)
    BY <2>2, SlotEffect DEF Request
  <2> QED
    BY <2>1, <2>3 DEF Alone, HasRun, Forgotten, Final, Results
<1>4. CASE Serves(u)
  <2>1. PICK i \in Slot : HandlerStep(u, i)
    BY <1>4 DEF Serves
  <2>2. UNCHANGED <<uploader, ob_results>>
    BY <1>4 DEF Serves, pageVars
  <2>3. Alone(u)'
    BY <2>1, <2>2, ServesEffect DEF Alone
  <2>4. HasRun(u)'
    BY <2>1, ServesEffect DEF HasRun
  <2>5. Forgotten(u)'
    <3> SUFFICES ASSUME repeats'[u] = 0, NEW j \in Slot, At(u, j)' = "processed"
                 PROVE  sessions'[u] = {}
      BY DEF Forgotten
    <3>1. j = i
      BY <2>1, ServesEffect DEF Alone
    <3> QED
      BY <2>1, <3>1, ServesEffect
  <2>6. Final(u)'
    <3>1. Results(u) => runs[u] > 0 /\ repeats[u] # 0
      BY <2>1, ServesEffect DEF Final
    <3> QED
      BY <2>1, <2>2, <3>1, ServesEffect DEF Final, Results
  <2> QED
    BY <2>3, <2>4, <2>5, <2>6
<1>5. CASE Drops(u)
  <2>1. PICK i \in Slot : Drop(u, i)
    BY <1>5 DEF Drops
  <2>2. Moves(u, i, NoHandler) /\ UNCHANGED <<sessions, runs, repeats, uploader, ob_results>>
    BY <1>5, <2>1 DEF Drops, Drop, Moves, pageVars
  <2>3. At(u, i)' = "none" /\ \A j \in Slot \ {i} : At(u, j)' = At(u, j)
    BY <2>2, SlotEffect, NoRecords
  <2> QED
    BY <2>2, <2>3 DEF Alone, HasRun, Forgotten, Final, Results
<1>6. CASE ReadAnswer(u)
  <2>1. PICK i \in Slot : i = uploader[u].slot
    BY DEF TypeOK
  <2>2. Alone(u)'
    BY <1>6, <2>1, ReadAnswerEffect DEF Alone
  <2>3. (HasRun(u) /\ Forgotten(u))'
    BY <1>6, <2>1, ReadAnswerEffect DEF HasRun, Forgotten
  <2>4. Final(u)'
    <3> SUFFICES ASSUME Results(u)' PROVE Final(u)'
      BY DEF Final
    <3>1. ~ Results(u)
      BY <1>6, <2>1, ReadAnswerEffect DEF Final
    <3>2. At(u, i) = "processed" /\ uploader'[u].at = "ended"
      BY <1>6, <2>1, <3>1, ReadAnswerEffect
    <3>3. runs[u] > 0 /\ (repeats[u] = 0 => sessions[u] = {})
      BY <3>2 DEF HasRun, Forgotten
    <3>4. repeats[u] = 0 => \A j \in Slot : At(u, j)' = "none"
      BY <1>6, <2>1, <3>2, ReadAnswerEffect DEF Alone
    <3> QED
      BY <1>6, <2>1, <3>2, <3>3, <3>4, ReadAnswerEffect DEF Final
  <2> QED
    BY <2>2, <2>3, <2>4
<1>7. CASE Restarts
  <2>1. /\ \A i \in Slot : At(u, i)' = "none"
        /\ sessions'[u] = {} /\ UNCHANGED <<runs, repeats, uploader, ob_results>>
    BY <1>7, NoRecords DEF Restarts, Restart, At, pageVars
  <2> QED
    BY <2>1 DEF Alone, HasRun, Forgotten, Final, Results
<1> QED
  BY <1>1, <1>2, <1>3, <1>4, <1>5, <1>6, <1>7, StepsByUpload DEF StepOf

LEMMA InitFinal ==
  ASSUME Init, NEW u \in Upload
  PROVE  FinalInv(u)
<1>1. \A i \in Slot : At(u, i) = "none"
  BY NoRecords DEF Init, ServerInit, At
<1>2. ob_results = NIL
  BY DEF Init
<1> QED
  BY <1>1, <1>2 DEF FinalInv, Alone, HasRun, Forgotten, Final, Results

LEMMA AllFinal == Spec => [](\A u \in Upload : FinalInv(u))
<1> DEFINE Inv == \A u \in Upload : FinalInv(u)
<1>1. Init => Inv
  BY InitFinal
<1>2. TypeOK /\ Inv /\ [Next]_vars => Inv'
  BY StepsKeepFinal
<1> QED
  BY <1>1, <1>2, UploadTypeCorrect, PTL DEF Spec

(* ResultsAreFinal: the page shows results only of an upload that was run,  *)
(* and if no request of it was sent twice the server has forgotten the      *)
(* session and has no handler of it left (uploads.rs, the end of both       *)
(* handlers; modeselect.rs, onsubmit).                                      *)
THEOREM ShownResultsAreFinal == Spec => []ResultsAreFinal
<1>1. TypeOK /\ (\A u \in Upload : FinalInv(u)) => ResultsAreFinal
  BY DEF TypeOK, FinalInv, Final, Results, ResultsAreFinal
<1> QED
  BY <1>1, AllFinal, UploadTypeCorrect, PTL

-----------------------------------------------------------------------------
(* The chunks of an upload whose requests were not repeated and whose       *)
(* chunks were not lost.                                                    *)

Unwiped(u) == \A r \in DOMAIN wiped : u \notin wiped[r]
WipedIsSeq == wiped \in Seq(SUBSET Upload)

(* The server has every chunk before the next one, and the next one too     *)
(* once its handler has stored it; and only of a chunk that is not the last *)
(* is it said that more are missing.                                        *)
ChunksKept(u) ==
  repeats[u] = 0 /\ Unwiped(u) =>
    /\ uploader[u].at \in {"none", "health", "send"} => sessions[u] = 0..uploader[u].chunk - 1
    /\ uploader[u].at = "wait" =>
         \A i \in Slot :
           i = uploader[u].slot =>
             /\ At(u, i) = "arrived" => /\ Chunk(u, i) = uploader[u].chunk
                                        /\ sessions[u] = 0..uploader[u].chunk - 1
             /\ At(u, i) \in {"stored", "ack"} => sessions[u] = 0..uploader[u].chunk
             /\ At(u, i) = "ack" => ~ LastChunk(u)

LEMMA WipesAreListed == TypeOK /\ WipedIsSeq /\ [Next]_vars => WipedIsSeq'
<1> SUFFICES ASSUME TypeOK, WipedIsSeq, [Next]_vars PROVE WipedIsSeq'
  OBVIOUS
<1>1. CASE Restart
  <2>1. {u \in Upload : sessions[u] # {}} \in SUBSET Upload
    OBVIOUS
  <2>2. Append(wiped, {u \in Upload : sessions[u] # {}}) \in Seq(SUBSET Upload)
    BY <2>1, AppendProperties DEF WipedIsSeq
  <2> QED
    BY <1>1, <2>2 DEF Restart, WipedIsSeq
<1>2. CASE UNCHANGED wiped
  BY <1>2 DEF WipedIsSeq
<1>3. ASSUME NEW u \in Upload, NEW i \in Slot, HandlerStep(u, i) PROVE UNCHANGED wiped
  BY <1>3, HandlerMoves
<1>4. UNCHANGED wiped \/ Restart
  BY <1>3 DEF Next, User, Page, Server, Faults, PickFile, LearnSize, ReadFile, RemoveFile, Submit,
              LoseSigner, FailHealthCheck, TakeContent, SendChunk, ReadAnswer, FailRequest,
              RepeatRequest, Drop, vars, serverVars
<1> QED
  BY <1>1, <1>2, <1>4

(* What was repeated or wiped once stays so; a restart wipes what was stored. *)
LEMMA FaultsStay ==
  ASSUME TypeOK, WipedIsSeq, NEW u \in Upload, StepOf(u)
  PROVE  /\ repeats'[u] = 0 => repeats[u] = 0
         /\ Unwiped(u)' => Unwiped(u)
         /\ Restarts /\ Unwiped(u)' => sessions[u] = {}
<1>1. CASE Restarts
  <2> DEFINE lost == {v \in Upload : sessions[v] # {}}
  <2>1. wiped' = Append(wiped, lost) /\ UNCHANGED repeats
    BY <1>1 DEF Restarts, Restart
  <2>2. lost \in SUBSET Upload /\ (sessions[u] # {} => u \in lost)
    OBVIOUS
  <2> HIDE DEF lost
  <2>3. /\ wiped' \in Seq(SUBSET Upload) /\ Len(wiped') = Len(wiped) + 1
        /\ \A r \in 1..Len(wiped) : wiped'[r] = wiped[r]
        /\ wiped'[Len(wiped) + 1] = lost
    BY <2>1, <2>2, AppendProperties DEF WipedIsSeq
  <2>4. /\ DOMAIN wiped = 1..Len(wiped) /\ Len(wiped) \in Nat
        /\ DOMAIN wiped' = 1..Len(wiped) + 1
    BY <2>3, LenProperties DEF WipedIsSeq
  <2>5. Unwiped(u)' => Unwiped(u) /\ u \notin lost
    BY <2>3, <2>4 DEF Unwiped
  <2> QED
    BY <2>1, <2>2, <2>5
<1>2. CASE ~ Restarts
  <2>1. UNCHANGED wiped
    BY <1>2, ServesEffect, ReadAnswerEffect
       DEF StepOf, Idles, Untouched, Sends, Repeats, Serves, Drops, Drop, ReadAnswer
  <2>2. repeats'[u] = 0 => repeats[u] = 0
    <3>1. repeats'[u] = repeats[u] + 1 => repeats'[u] # 0
      BY CountsAreNaturals
    <3> QED
      BY <1>2, <3>1, ServesEffect
         DEF StepOf, Idles, Untouched, Sends, Repeats, Serves, Drops, Drop, ReadAnswer
  <2> QED
    BY <1>2, <2>1, <2>2 DEF Unwiped
<1> QED
  BY <1>1, <1>2

(* What a handler has stored by the time it says that chunks are missing. *)
LEMMA StoringEffect ==
  ASSUME TypeOK, NEW u \in Upload, NEW i \in Slot, HandlerStep(u, i)
  PROVE  /\ At(u, i)' # "arrived"
         /\ At(u, i)' = "stored" =>
              At(u, i) = "arrived" /\ sessions'[u] = sessions[u] \cup {Chunk(u, i)}
         /\ At(u, i)' = "ack" =>
              At(u, i) = "stored" /\ sessions'[u] = sessions[u] /\ ~ Complete(u)
<1>1. ASSUME NEW at, Goto(u, i, at) PROVE At(u, i)' = at
  BY <1>1, GotoEffect
<1>2. CASE Enter(u, i)
  <2>1. At(u, i) = "arrived" /\ (Reject(u, i) \/ Admit(u, i))
    BY <1>2 DEF Enter
  <2>2. \/ Goto(u, i, "error")
        \/ StoreChunk(u, Chunk(u, i)) /\ Goto(u, i, "stored")
    BY <2>1 DEF Reject, Admit
  <2>3. StoreChunk(u, Chunk(u, i)) => sessions'[u] = sessions[u] \cup {Chunk(u, i)}
    BY DEF StoreChunk, TypeOK
  <2> QED
    BY <1>1, <2>1, <2>2, <2>3
<1>3. CASE TestComplete(u, i)
  BY <1>1, <1>3 DEF TestComplete
<1>4. CASE CollectChunks(u, i) \/ ChargeAddress(u, i) \/ ChargeGlobal(u, i) \/ ClearChunks(u, i)
  <2>1. \E at : Goto(u, i, at) /\ at \notin {"arrived", "stored", "ack"}
    BY <1>4 DEF CollectChunks, AfterCollecting, ChargeAddress, ChargeGlobal, ClearChunks
  <2> QED
    BY <1>1, <2>1
<1>5. CASE Process(u, i)
  <2>1. CASE Goto(u, i, "clear")
    BY <1>1, <2>1
  <2>2. CASE Moves(u, i, NoHandler)
    BY <2>2, NoRecords, SlotEffect
  <2> QED
    BY <1>5, <2>1, <2>2 DEF Process, Moves
<1> QED
  BY <1>2, <1>3, <1>4, <1>5 DEF HandlerStep

LEMMA AllButLast ==
  ASSUME TypeOK, NEW u \in Upload, sessions[u] = 0..uploader[u].chunk, ~ Complete(u)
  PROVE  ~ LastChunk(u)
<1> DEFINE k == uploader[u].chunk
<1>1. k \in Nat
  BY DEF TypeOK
<1>2. sessions[u] = 0..k
  OBVIOUS
<1> HIDE DEF k
<1>3. Cardinality(0..k) = k + 1
  BY <1>1, FS_Interval
<1>4. Chunks[u] \in Nat
  BY ChunksArePositive
<1>5. k # Chunks[u] - 1
  BY <1>1, <1>2, <1>3, <1>4 DEF Complete
<1> QED
  BY <1>5 DEF LastChunk, k

LEMMA StepsKeepChunks ==
  ASSUME TypeOK, WipedIsSeq, NEW u \in Upload, FinalInv(u), Early(u), ChunksKept(u), [Next]_vars
  PROVE  ChunksKept(u)'
<1> SUFFICES ASSUME repeats'[u] = 0, Unwiped(u)' PROVE ChunksKept(u)'
  BY DEF ChunksKept
<1>1. StepOf(u)
  BY StepsByUpload
<1>2. repeats[u] = 0 /\ Unwiped(u) /\ (Restarts => sessions[u] = {})
  BY <1>1, FaultsStay
<1>3. Alone(u) /\ uploader[u].chunk \in Nat /\ uploader[u].slot \in Slot
  BY DEF FinalInv, TypeOK
<1> DEFINE k == uploader[u].chunk
<1>4. CASE Idles(u)
  <2>1. /\ \A i \in Slot : At(u, i)' = At(u, i) /\ Chunk(u, i)' = Chunk(u, i)
        /\ sessions'[u] = sessions[u]
    BY <1>4 DEF Idles, Untouched, At, Chunk
  <2> QED
    BY <1>2, <1>4, <2>1 DEF Idles, Onward, ChunksKept, LastChunk
<1>5. CASE Sends(u)
  <2>1. PICK i \in Slot : Moves(u, i, Request(u)) /\ uploader'[u].at = "wait" /\ uploader'[u].slot = i
    BY <1>5 DEF Sends
  <2>2. At(u, i)' = "arrived" /\ Chunk(u, i)' = k
    BY <2>1, SlotEffect DEF Request
  <2>3. sessions'[u] = 0..k - 1 /\ uploader'[u].chunk = k
    BY <1>2, <1>5 DEF Sends, ChunksKept
  <2> QED
    BY <2>1, <2>2, <2>3 DEF ChunksKept
<1>6. CASE Repeats(u)
  BY <1>2, <1>6, CountsAreNaturals DEF Repeats
<1>7. CASE Serves(u)
  <2>1. PICK i \in Slot : HandlerStep(u, i)
    BY <1>7 DEF Serves
  <2>2. UNCHANGED uploader /\ At(u, i) # "none"
    BY <1>7, <2>1, ServesEffect DEF Serves, pageVars
  <2>3. CASE uploader[u].at # "wait"
    BY <1>2, <1>3, <2>2, <2>3 DEF Alone, ChunksKept
  <2>4. CASE uploader[u].at = "wait"
    <3>1. i = uploader[u].slot
      BY <1>2, <1>3, <2>2, <2>4 DEF Alone
    <3>2. At(u, i)' # "arrived"
      BY <2>1, StoringEffect
    <3>3. At(u, i)' = "stored" => sessions'[u] = 0..k
      <4>1. SUFFICES ASSUME At(u, i)' = "stored" PROVE sessions'[u] = 0..k
        OBVIOUS
      <4>2. sessions'[u] = sessions[u] \cup {Chunk(u, i)} /\ At(u, i) = "arrived"
        BY <2>1, <4>1, StoringEffect
      <4>3. sessions[u] = 0..k - 1 /\ Chunk(u, i) = k
        BY <1>2, <2>4, <3>1, <4>2 DEF ChunksKept
      <4> QED
        BY <1>3, <4>2, <4>3
    <3>4. At(u, i)' = "ack" => sessions'[u] = 0..k /\ ~ LastChunk(u)
      <4>1. SUFFICES ASSUME At(u, i)' = "ack" PROVE sessions'[u] = 0..k /\ ~ LastChunk(u)
        OBVIOUS
      <4>2. sessions'[u] = sessions[u] /\ At(u, i) = "stored" /\ ~ Complete(u)
        BY <2>1, <4>1, StoringEffect
      <4>3. sessions[u] = 0..k
        BY <1>2, <2>4, <3>1, <4>2 DEF ChunksKept
      <4> QED
        BY <4>2, <4>3, AllButLast
    <3>5. LastChunk(u)' <=> LastChunk(u)
      BY <2>2 DEF LastChunk
    <3> QED
      BY <2>2, <2>4, <3>1, <3>2, <3>3, <3>4, <3>5 DEF ChunksKept
  <2> QED
    BY <2>3, <2>4
<1>8. CASE Drops(u)
  <2>1. PICK i \in Slot : ~ Heard(u, i) /\ Drop(u, i)
    BY <1>8 DEF Drops
  <2>2. Moves(u, i, NoHandler) /\ UNCHANGED <<sessions, uploader>>
    BY <1>8, <2>1 DEF Drops, Drop, Moves, pageVars
  <2>3. \A j \in Slot \ {i} : At(u, j)' = At(u, j) /\ Chunk(u, j)' = Chunk(u, j)
    BY <2>2, SlotEffect
  <2>4. uploader[u].at = "wait" => uploader[u].slot # i
    BY <2>1 DEF Heard
  <2> QED
    BY <1>2, <2>2, <2>3, <2>4 DEF ChunksKept, LastChunk
<1>9. CASE ReadAnswer(u)
  <2>1. PICK i \in Slot : i = uploader[u].slot
    BY <1>3
  <2>2. /\ uploader[u].at = "wait" /\ At(u, i) \in Answer /\ At(u, i)' = "none"
        /\ sessions'[u] = sessions[u]
    BY <1>9, <2>1, ReadAnswerEffect
  <2>3. CASE uploader'[u].at = "ended"
    BY <2>3 DEF ChunksKept
  <2>4. CASE uploader'[u] = uploader[u]
    BY <2>1, <2>2, <2>4 DEF ChunksKept
  <2>5. CASE /\ uploader'[u].at = "send" /\ uploader'[u].chunk = k + 1
             /\ At(u, i) # "error" /\ ~ LastChunk(u)
    <3>1. At(u, i) = "ack"
      BY <2>2, <2>5 DEF Early, LastSent, Answer
    <3>2. sessions[u] = 0..k
      BY <1>2, <2>1, <2>2, <3>1 DEF ChunksKept
    <3>3. (k + 1) - 1 = k
      BY <1>3
    <3> QED
      BY <2>2, <2>5, <3>2, <3>3 DEF ChunksKept
  <2> QED
    BY <1>9, <2>1, <2>3, <2>4, <2>5, ReadAnswerEffect
<1>10. CASE Restarts
  <2>1. /\ \A i \in Slot : At(u, i)' = "none"
        /\ sessions'[u] = sessions[u] /\ UNCHANGED uploader
    BY <1>2, <1>10, NoRecords DEF Restarts, Restart, At, pageVars
  <2> QED
    BY <1>2, <2>1 DEF ChunksKept
<1> QED
  BY <1>1, <1>4, <1>5, <1>6, <1>7, <1>8, <1>9, <1>10 DEF StepOf

LEMMA AllChunksKept == Spec => [](WipedIsSeq /\ \A u \in Upload : ChunksKept(u))
<1> DEFINE Inv == /\ WipedIsSeq
                  /\ \A u \in Upload : FinalInv(u) /\ Early(u) /\ ChunksKept(u)
<1>1. Init => Inv
  <2> SUFFICES ASSUME Init PROVE Inv
    OBVIOUS
  <2>1. wiped = << >> /\ WipedIsSeq
    BY DEF Init, ServerInit, WipedIsSeq
  <2>2. ASSUME NEW u \in Upload PROVE FinalInv(u) /\ Early(u) /\ ChunksKept(u)
    <3>1. Early(u)
      BY DEF Init, ServerInit, Early, At, NoHandler
    <3>2. uploader[u].at = "none" /\ uploader[u].chunk = 0 /\ sessions[u] = {}
      BY DEF Init, ServerInit, NoUploader
    <3>3. 0..0 - 1 = {}
      OBVIOUS
    <3> QED
      BY <2>2, <3>1, <3>2, <3>3, InitFinal DEF ChunksKept
  <2> QED
    BY <2>1, <2>2
<1>2. TypeOK /\ Inv /\ [Next]_vars => Inv'
  BY WipesAreListed, StepsKeepFinal, StepsKeepEarly, StepsKeepChunks
<1>3. Inv => WipedIsSeq /\ \A u \in Upload : ChunksKept(u)
  OBVIOUS
<1> QED
  BY <1>1, <1>2, <1>3, UploadTypeCorrect, PTL DEF Spec

Excused == \E u \in Upload : repeats[u] # 0 \/ ~ Unwiped(u)

LEMMA OnlyAnswersCrash ==
  ASSUME [Next]_vars, crashed # "assertion", crashed' = "assertion"
  PROVE  \E u \in Upload : ReadAnswer(u)
BY DEF Next, User, Page, Server, Faults, PickFile, LearnSize, ReadFile, RemoveFile, Submit,
       LoseSigner, FailHealthCheck, TakeContent, SendChunk, FailRequest, RepeatRequest,
       vars, pageVars

(* LastAnswerIsProcessed: the assertion of the page about the answer to its *)
(* last chunk (file_handler.rs, the end of both loops) fails only after a   *)
(* restart that lost chunks or a request that was sent twice.               *)
THEOREM AssertionNeedsAFault == Spec => []LastAnswerIsProcessed
<1> DEFINE Kept == WipedIsSeq /\ \A u \in Upload : ChunksKept(u)
           Inv == crashed = "assertion" => Excused
<1>1. Init => Inv
  BY NilIsNoPanic DEF Init
<1>2. TypeOK /\ Kept /\ Inv /\ [Next]_vars => Inv'
  <2> SUFFICES ASSUME TypeOK, Kept, Inv, [Next]_vars, crashed' = "assertion" PROVE Excused'
    OBVIOUS
  <2>1. Excused => Excused'
    BY StepsByUpload, FaultsStay DEF Excused
  <2>2. CASE crashed # "assertion"
    <3>1. PICK u \in Upload : ReadAnswer(u)
      BY <2>2, OnlyAnswersCrash
    <3>2. PICK i \in Slot : i = uploader[u].slot
      BY DEF TypeOK
    <3>3. uploader[u].at = "wait" /\ At(u, i) = "ack" /\ LastChunk(u)
      BY <2>2, <3>1, <3>2, ReadAnswerEffect
    <3>4. repeats[u] # 0 \/ ~ Unwiped(u)
      BY <3>2, <3>3 DEF ChunksKept
    <3> QED
      BY <2>1, <3>4 DEF Excused
  <2> QED
    BY <2>1, <2>2
<1>3. TypeOK /\ Inv => LastAnswerIsProcessed
  BY CountsAreNaturals DEF Excused, Unwiped, LastAnswerIsProcessed
<1> QED
  BY <1>1, <1>2, <1>3, AllChunksKept, UploadTypeCorrect, PTL DEF Spec

-----------------------------------------------------------------------------
(* What is uploaded. *)

ReadersOK == /\ reader \in [Pick -> [at : {"none", "size", "bytes", "done"}, file : File \cup {NIL}]]
             /\ submitted \in [Upload -> File \cup {NIL}]
             /\ quiet \subseteq Upload

ReadingAt(p) == reader[p].at \in {"size", "bytes"}

(* The page holds nothing but one file, which at most one task still reads. *)
HoldsOnly(f) ==
  /\ selected_file \in {NIL, f}
  /\ parsed_orders \in {<< >>, <<f>>}
  /\ large_file_contents \in {NIL, f}
  /\ \A p \in Pick : ReadingAt(p) =>
       /\ reader[p].file = f /\ parsed_orders = << >>
       /\ \A q \in Pick : ReadingAt(q) => p = q

(* Without two tasks reading at once there is such a file, that of each     *)
(* quiet upload; and a quiet upload was submitted after all was read.       *)
PickInv ==
  /\ quiet # {} => ~ mixed /\ ~ Reading /\ selected_file = NIL
  /\ ~ mixed => \E f \in File \cup {NIL} : HoldsOnly(f) /\ \A u \in quiet : submitted[u] = f

LEMMA StepsKeepReaders ==
  ASSUME TypeOK, ReadersOK, [Next]_vars
  PROVE  ReadersOK'
<1> USE DEF ReadersOK
<1>1. ASSUME NEW p \in Pick, NEW f \in File \cup {NIL}, PickFile(p, f) PROVE ReadersOK'
  BY <1>1 DEF PickFile, Finished
<1>2. ASSUME NEW p \in Pick, LearnSize(p) PROVE ReadersOK'
  BY <1>2 DEF LearnSize, history
<1>3. ASSUME NEW p \in Pick, ReadFile(p) PROVE ReadersOK'
  BY <1>3 DEF ReadFile, Finished, history
<1>4. ASSUME NEW u \in Upload, Submit(u) PROVE ReadersOK'
  BY <1>4 DEF Submit, TypeOK
<1>5. ASSUME NEW u \in Upload, TakeContent(u) PROVE ReadersOK'
  BY <1>5 DEF TakeContent
<1>6. CASE UNCHANGED <<reader, history>>
  BY <1>6 DEF history
<1> QED
  BY <1>1, <1>2, <1>3, <1>4, <1>5, <1>6
     DEF Next, User, Page, Server, Faults, RemoveFile, LoseSigner, FailHealthCheck, SendChunk,
         ReadAnswer, FailRequest, RepeatRequest, vars, pageVars, history

LEMMA StepsKeepPicks ==
  ASSUME TypeOK, ReadersOK, PickInv, [Next]_vars
  PROVE  PickInv'
<1>1. ASSUME NEW p \in Pick, NEW f \in File \cup {NIL}, PickFile(p, f) PROVE PickInv'
  <2>1. /\ selected_file' = f /\ parsed_orders' = << >> /\ large_file_contents' = NIL
        /\ mixed' = Reading /\ quiet' = {}
    BY <1>1 DEF PickFile
  <2>2. /\ \A q \in Pick \ {p} : reader'[q] = reader[q]
        /\ ReadingAt(p)' => reader'[p].file = f
    BY <1>1 DEF PickFile, ReadersOK, ReadingAt, Finished
  <2>3. ~ Reading => HoldsOnly(f)'
    BY <2>1, <2>2 DEF HoldsOnly, Reading, ReadingAt
  <2> QED
    BY <2>1, <2>3 DEF PickInv
<1>2. ASSUME NEW p \in Pick, LearnSize(p) PROVE PickInv'
  <2>1. /\ \A q \in Pick : ReadingAt(q)' = ReadingAt(q) /\ reader'[q].file = reader[q].file
        /\ UNCHANGED <<selected_file, parsed_orders, large_file_contents, mixed, quiet, submitted>>
    BY <1>2 DEF LearnSize, ReadersOK, ReadingAt, history
  <2>2. Reading' <=> Reading
    BY <2>1 DEF Reading, ReadingAt
  <2>3. \A f : HoldsOnly(f) => HoldsOnly(f)'
    BY <2>1 DEF HoldsOnly
  <2> QED
    BY <2>1, <2>2, <2>3 DEF PickInv
<1>3. ASSUME NEW p \in Pick, ReadFile(p) PROVE PickInv'
  <2> DEFINE g == reader[p].file
  <2>1. /\ ReadingAt(p) /\ ~ ReadingAt(p)'
        /\ \A q \in Pick \ {p} : reader'[q] = reader[q]
        /\ UNCHANGED <<selected_file, mixed, quiet, submitted>>
    BY <1>3 DEF ReadFile, ReadersOK, ReadingAt, Finished, history
  <2>2. \/ UNCHANGED <<parsed_orders, large_file_contents>>
        \/ parsed_orders' = Append(parsed_orders, g) /\ UNCHANGED large_file_contents
        \/ large_file_contents' = g /\ UNCHANGED parsed_orders
    BY <1>3 DEF ReadFile
  <2>3. quiet = {}
    BY <2>1 DEF PickInv, Reading, ReadingAt
  <2>4. ASSUME NEW f, HoldsOnly(f) PROVE HoldsOnly(f)'
    <3>1. g = f /\ parsed_orders = << >> /\ \A q \in Pick : ~ ReadingAt(q)'
      BY <2>1, <2>4 DEF HoldsOnly, ReadingAt
    <3>2. Append(<< >>, f) = <<f>>
      OBVIOUS
    <3> QED
      BY <2>1, <2>2, <2>4, <3>1, <3>2 DEF HoldsOnly
  <2> QED
    BY <2>1, <2>3, <2>4 DEF PickInv
<1>4. ASSUME NEW u \in Upload, Submit(u) PROVE PickInv'
  <2>1. /\ selected_file # NIL /\ selected_file' = NIL
        /\ submitted' = [submitted EXCEPT ![u] = selected_file]
        /\ quiet' = IF mixed \/ Reading THEN quiet ELSE quiet \cup {u}
        /\ UNCHANGED <<parsed_orders, large_file_contents, reader, mixed>>
    BY <1>4 DEF Submit
  <2>2. quiet = {} /\ (Reading' <=> Reading)
    BY <2>1 DEF PickInv, Reading
  <2>3. \A f : HoldsOnly(f) => HoldsOnly(f)' /\ selected_file = f
    BY <2>1 DEF HoldsOnly, ReadingAt
  <2>4. submitted'[u] = selected_file
    BY <2>1 DEF ReadersOK
  <2> QED
    BY <2>1, <2>2, <2>3, <2>4 DEF PickInv
<1>5. ASSUME NEW u \in Upload, TakeContent(u) PROVE PickInv'
  <2>1. /\ submitted' = [submitted EXCEPT ![u] = NIL] /\ quiet' = quiet \ {u}
        /\ parsed_orders' \in {parsed_orders, << >>}
        /\ large_file_contents' \in {large_file_contents, NIL}
        /\ UNCHANGED <<selected_file, reader, mixed>>
    BY <1>5 DEF TakeContent
  <2>2. \A f : HoldsOnly(f) => HoldsOnly(f)'
    BY <2>1 DEF HoldsOnly, ReadingAt
  <2>3. \A v \in quiet' : v \in quiet /\ submitted'[v] = submitted[v]
    BY <2>1 DEF ReadersOK
  <2>4. Reading' <=> Reading
    BY <2>1 DEF Reading
  <2> QED
    BY <2>1, <2>2, <2>3, <2>4 DEF PickInv
<1>6. CASE RemoveFile
  <2>1. selected_file' = NIL
        /\ UNCHANGED <<parsed_orders, large_file_contents, reader, mixed, quiet, submitted>>
    BY <1>6 DEF RemoveFile, history
  <2>2. \A f : HoldsOnly(f) => HoldsOnly(f)'
    BY <2>1 DEF HoldsOnly, ReadingAt
  <2> QED
    BY <2>1, <2>2 DEF PickInv, Reading
<1>7. CASE UNCHANGED <<picked, reader, history>>
  BY <1>7 DEF PickInv, HoldsOnly, Reading, ReadingAt, picked, history
<1> QED
  BY <1>1, <1>2, <1>3, <1>4, <1>5, <1>6, <1>7
     DEF Next, User, Page, Server, Faults, LoseSigner, FailHealthCheck, SendChunk, ReadAnswer,
         FailRequest, RepeatRequest, vars, pageVars, picked, history

(* UploadsUnmixed: what is uploaded is the file whose name was shown at     *)
(* Submit, if it was read alone and no other was picked until the page took *)
(* the content (modeselect.rs, upload_files, ondrop and onsubmit).          *)
THEOREM QuietUploadsAreUnmixed == Spec => UploadsUnmixed
<1> DEFINE Inv == ReadersOK /\ PickInv
<1>1. Init => Inv
  <2> SUFFICES ASSUME Init PROVE Inv
    OBVIOUS
  <2>1. ReadersOK
    BY DEF Init, ReadersOK, NoReader
  <2>2. HoldsOnly(NIL) /\ quiet = {} /\ ~ mixed
    BY DEF Init, HoldsOnly, ReadingAt, NoReader
  <2> QED
    BY <2>1, <2>2 DEF PickInv
<1>2. TypeOK /\ Inv /\ [Next]_vars => Inv'
  BY StepsKeepReaders, StepsKeepPicks
<1>3. TypeOK /\ Inv /\ [Next]_vars =>
        [\A u \in quiet : Taken(u) /\ Content # << >> => Content = <<submitted[u]>>]_vars
  <2> SUFFICES ASSUME TypeOK, Inv, [Next]_vars, NEW u \in quiet, Taken(u), Content # << >>
               PROVE  Content = <<submitted[u]>>
    OBVIOUS
  <2>1. PICK f \in File \cup {NIL} : HoldsOnly(f) /\ submitted[u] = f
    BY DEF PickInv
  <2>2. Content \in {<< >>, <<f>>}
    BY <2>1 DEF Content, HoldsOnly
  <2> QED
    BY <2>1, <2>2
<1> QED
  BY <1>1, <1>2, <1>3, UploadTypeCorrect, PTL DEF Spec, UploadsUnmixed
===============================================================================
