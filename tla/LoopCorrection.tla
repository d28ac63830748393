--------------------------- MODULE LoopCorrection ---------------------------
(***************************************************************************)
(* The hand-over of a loop correction between the mapping front end        *)
(* (System::loopClosing, the thread that registers scans) and the loop     *)
(* closing thread (LoopCloser::run), in the frame-wise configuration       *)
(* (_isFramewisePGO, _isStoreFrameBlock) every program of src/Examples     *)
(* sets.                                                                   *)
(*                                                                         *)
(* A pose is abstracted to the "world" it is expressed in: world w is the  *)
(* coordinate system after the w-th successful pose graph optimisation.    *)
(* _loopTrans of an optimisation takes poses of one world to another one   *)
(* ("Tw'w"); applied to a pose of any other world it yields a pose of no   *)
(* world at all, Mixed.                                                    *)
(***************************************************************************)
EXTENDS Integers, Sequences

CONSTANTS
  MaxFrames,       \* bound: scans the front end registers
  MaxCorrections,  \* bound: pose graph optimisations that succeed
  ProcessLocked,   \* the IKFoM overload, which takes _mutexProcess; FALSE: the LSQ one
  RealTime,        \* LoopCloser::Config::_isCorrectRealTime
  WithGNSS,        \* GNSS factors are built in (GTSAM_ON) and fixes arrive
  Incremental,     \* _isPgoIncremental: frameGraphOptimize, not correctFrameLoop
  StoreInterval,   \* _frameStoreInterval
  CoolingSubmapNum \* _coolingSubmapNum

ASSUME ConstantsAssumption ==
  /\ MaxFrames \in Nat /\ MaxCorrections \in Nat
  /\ ProcessLocked \in BOOLEAN /\ RealTime \in BOOLEAN
  /\ WithGNSS \in BOOLEAN /\ Incremental \in BOOLEAN
  /\ StoreInterval \in Nat \ {0} /\ CoolingSubmapNum \in Nat

Frame == 0 .. MaxFrames - 1
Mixed == -1
World == 0 .. MaxCorrections
Pose  == World \cup {Mixed}
Transform == [from : Pose, to : Pose]
Thread == {"none", "main", "loop"}
MainPoint == {"scan", "lockProcess", "input", "unlockProcess", "lockUpdate", "check",
              "correct", "clear", "readTrans", "end"}
LoopPoint == {"poll", "lockProcess", "detect", "gnss", "optimize", "rebuild", "publish",
              "publishId", "lockUpdate", "lockBuf", "fix", "book", "unlock"}

(* _loopTrans * pose *)
Apply(t, p) == IF p = t.from /\ p # Mixed THEN t.to ELSE Mixed

VARIABLES
  frameBuffer,         \* _frameBuffer: ids of the blocks handed to the loop thread
  poseLo, poseInit,    \* of the block of each frame, shared through its CloudBlockPtr
  curFrame,            \* _curFrameBlock: the last frame popped, -1 before the first
  stored,              \* ids of _frameBlocks, which holds copies of the blocks
  storedLo, storedInit,\* _poseLo, _poseInit of those copies
  lastStored,          \* _frameBlocks.back()->_uniqueId, -1 while there is none
  isNewSubMap, subMapLo, subMapCloud, \* _curSubMapBlock: its pose, the points merged in
  coolingIndex,
  loopTrans, isUpdated, lastCorrectBlockID,
  frameId, state, map, \* front end: scan number, pose of the state, of the local map
  mainPC, mainIdx,     \* the front end's control point, its index into _frameBuffer
  loopPC, loopFound, gnssAdded, \* the loop thread's, detectLoop's and processGNSS's result
  procLock, bufLock, updLock,   \* holders of _mutexProcess, _mutexBuf, _mutexUpdate
  graphWorld,          \* history: number of optimisations that succeeded
  overtaken, reapplied \* history: see Optimize and OptimizeFails

bufferVars == <<frameBuffer, poseLo, poseInit>>
graphVars  == <<stored, storedLo, storedInit, lastStored, graphWorld>>
subMapVars == <<isNewSubMap, subMapLo, subMapCloud, coolingIndex>>
handVars   == <<loopTrans, isUpdated, lastCorrectBlockID>>
frontVars  == <<frameId, state, map>>
mainCtl    == <<mainPC, mainIdx>>
loopCtl    == <<loopPC, loopFound, gnssAdded>>
locks      == <<procLock, bufLock, updLock>>
history    == <<overtaken, reapplied>>
vars == <<bufferVars, curFrame, graphVars, subMapVars, handVars, frontVars,
          mainCtl, loopCtl, locks, history>>
loopOwn == <<curFrame, graphVars, subMapVars, loopCtl, reapplied>>
mainOwn == <<frontVars, mainCtl>>

Buffered == {frameBuffer[i] : i \in 1 .. Len(frameBuffer)}

Init ==
  /\ frameBuffer = <<>>
  /\ poseLo = [f \in Frame |-> 0] /\ poseInit = [f \in Frame |-> 0]
  /\ curFrame = -1
  /\ stored = {} /\ lastStored = -1
  /\ storedLo = [f \in Frame |-> 0] /\ storedInit = [f \in Frame |-> 0]
  /\ isNewSubMap = TRUE /\ subMapLo = 0 /\ subMapCloud = 0 /\ coolingIndex = 0
  /\ loopTrans = [from |-> 0, to |-> 0]
  /\ isUpdated = FALSE /\ lastCorrectBlockID = -1
  /\ frameId = 0 /\ state = 0 /\ map = 0
  /\ mainPC = "scan" /\ mainIdx = 1
  /\ loopPC = "poll" /\ loopFound = FALSE /\ gnssAdded = FALSE
  /\ procLock = "none" /\ bufLock = "none" /\ updLock = "none"
  /\ graphWorld = 0 /\ overtaken = FALSE /\ reapplied = FALSE

(* Points expressed at pose p join a cloud of pose c. *)
Merge(c, p) == IF c = p THEN c ELSE Mixed

(* The world all the poses of a nonempty set share. *)
CommonWorld(S) ==
  IF \E w \in S : \A p \in S : p = w THEN CHOOSE w \in S : TRUE ELSE Mixed

-----------------------------------------------------------------------------
(* The front end *)

MainGoto(from, to) == mainPC = from /\ mainPC' = to

(* A scan is registered against the map, up to the call of loopClosing. *)
RegisterScan ==
  /\ frameId < MaxFrames
  /\ MainGoto("scan", IF ProcessLocked THEN "lockProcess" ELSE "input")
  /\ UNCHANGED <<bufferVars, loopOwn, handVars, frontVars, mainIdx, locks, overtaken>>

MainLockProcess ==
  /\ procLock = "none"
  /\ MainGoto("lockProcess", "input")
  /\ procLock' = "main"
  /\ UNCHANGED <<bufferVars, loopOwn, handVars, frontVars, mainIdx, bufLock, updLock, overtaken>>

(* inputFrameData: one critical section of _mutexBuf *)
InputFrameData ==
  /\ bufLock = "none"
  /\ MainGoto("input", IF ProcessLocked THEN "unlockProcess" ELSE "lockUpdate")
  /\ frameBuffer' = Append(frameBuffer, frameId)
  /\ poseLo' = [poseLo EXCEPT ![frameId] = state]
  /\ poseInit' = [poseInit EXCEPT ![frameId] = state]
  /\ UNCHANGED <<loopOwn, handVars, frontVars, mainIdx, locks, overtaken>>

MainUnlockProcess ==
  /\ MainGoto("unlockProcess", "lockUpdate")
  /\ procLock' = "none"
  /\ UNCHANGED <<bufferVars, loopOwn, handVars, frontVars, mainIdx, bufLock, updLock, overtaken>>

MainLockUpdate ==
  /\ updLock = "none"
  /\ MainGoto("lockUpdate", "check")
  /\ updLock' = "main"
  /\ UNCHANGED <<bufferVars, loopOwn, handVars, frontVars, mainIdx, procLock, bufLock, overtaken>>

(* if (_loopCloser->isUpdated()) of updateLoopStatus *)
CheckUpdated ==
  /\ MainGoto("check", IF isUpdated THEN "correct" ELSE "end")
  /\ mainIdx' = 1
  /\ UNCHANGED <<bufferVars, loopOwn, handVars, frontVars, locks, overtaken>>

(* updateFrontendMap: one round of its loop over getFrameBuffer(), which it
   walks without _mutexBuf *)
CorrectBuffered ==
  /\ mainPC = "correct" /\ mainIdx <= Len(frameBuffer)
  /\ LET f == frameBuffer[mainIdx]
     IN poseLo' = IF f <= lastCorrectBlockID THEN poseLo
                  ELSE [poseLo EXCEPT ![f] = Apply(loopTrans, @)]
  /\ mainIdx' = mainIdx + 1
  /\ UNCHANGED <<frameBuffer, poseInit, loopOwn, handVars, frontVars, mainPC, locks, overtaken>>

(* bug: the map is rebuilt from the poses of the previous correction *)
RebuildMapEarly ==
  /\ MainGoto("correct", "clear")
  /\ map' = CommonWorld({storedLo[f] : f \in stored} \cup {poseLo[f] : f \in Buffered})
  /\ UNCHANGED <<bufferVars, loopOwn, handVars, frameId, state, mainIdx, locks, overtaken>>

(* updateFrontendMap: the voxel map is replaced and the kd-tree rebuilt from
   the stored frames and the buffered ones *)
RebuildMap ==
  /\ mainIdx > Len(frameBuffer)
  /\ MainGoto("correct", "clear")
  /\ map' = CommonWorld({storedLo[f] : f \in stored} \cup {poseLo[f] : f \in Buffered})
  /\ UNCHANGED <<bufferVars, loopOwn, handVars, frameId, state, mainIdx, locks, overtaken>>

(* setUpdated(false): from here on the loop thread may pop again *)
ClearUpdated ==
  /\ MainGoto("clear", "readTrans")
  /\ isUpdated' = FALSE
  /\ UNCHANGED <<bufferVars, loopOwn, loopTrans, lastCorrectBlockID, frontVars, mainIdx,
                 locks, overtaken>>

(* getLoopTrans() and the correction of the state; the LSQ overload also
   appends the current scan to the rebuilt map *)
CorrectState ==
  /\ MainGoto("readTrans", "end")
  /\ state' = Apply(loopTrans, state)
  /\ map' = IF ProcessLocked THEN map ELSE Merge(map, state')
  /\ UNCHANGED <<bufferVars, loopOwn, handVars, frameId, mainIdx, locks, overtaken>>

(* The end of loopClosing, and the scan's own points joining the map. *)
EndScan ==
  /\ MainGoto("end", "scan")
  /\ updLock' = "none"
  /\ frameId' = frameId + 1
  /\ map' = Merge(map, state)
  /\ UNCHANGED <<bufferVars, loopOwn, handVars, state, mainIdx, procLock, bufLock, overtaken>>

MainNext ==
  \/ RegisterScan \/ MainLockProcess \/ InputFrameData \/ MainUnlockProcess
  \/ MainLockUpdate \/ CheckUpdated \/ CorrectBuffered \/ RebuildMap
  \/ ClearUpdated \/ CorrectState \/ EndScan

-----------------------------------------------------------------------------
(* The loop closing thread *)

LoopGoto(from, to) == loopPC = from /\ loopPC' = to

(* bug: the buffer is popped while a correction waits for the front end *)
PopFrameAlways ==
  /\ bufLock = "none" /\ frameBuffer # <<>>
  /\ LoopGoto("poll", "lockProcess")
  /\ curFrame' = Head(frameBuffer)
  /\ frameBuffer' = Tail(frameBuffer)
  /\ UNCHANGED <<poseLo, poseInit, graphVars, subMapVars, handVars, mainOwn,
                 loopFound, gnssAdded, locks, history>>

(* run: one critical section of _mutexBuf; with nothing to pop it is a poll
   that changes nothing *)
PopFrame ==
  /\ bufLock = "none" /\ frameBuffer # <<>> /\ ~isUpdated
  /\ LoopGoto("poll", "lockProcess")
  /\ curFrame' = Head(frameBuffer)
  /\ frameBuffer' = Tail(frameBuffer)
  /\ UNCHANGED <<poseLo, poseInit, graphVars, subMapVars, handVars, mainOwn,
                 loopFound, gnssAdded, locks, history>>

LoopLockProcess ==
  /\ procLock = "none"
  /\ LoopGoto("lockProcess", "detect")
  /\ procLock' = "loop"
  /\ UNCHANGED <<bufferVars, curFrame, graphVars, subMapVars, handVars, mainOwn,
                 loopFound, gnssAdded, bufLock, updLock, history>>

(* storeFrameData is called for the first frame of a submap and for every
   _frameStoreInterval-th one *)
StoreFrameData ==
  IF isNewSubMap \/ curFrame % StoreInterval = 0
  THEN /\ stored' = stored \cup {curFrame}
       /\ lastStored' = curFrame
       /\ storedLo' = [storedLo EXCEPT ![curFrame] = poseLo[curFrame]]
       /\ storedInit' = [storedInit EXCEPT ![curFrame] = poseInit[curFrame]]
  ELSE UNCHANGED <<stored, lastStored, storedLo, storedInit>>

(* detectLoop: a submap is started, extended with the frame and perhaps
   completed (judgeNewSubmap); a loop is searched for when one is completed
   and the cooling count is spent. _coolingIndex is only compared with 0, so
   it stops there. *)
DetectLoop ==
  /\ LoopGoto("detect", "gnss")
  /\ StoreFrameData
  /\ subMapLo' = IF isNewSubMap THEN poseLo[curFrame] ELSE subMapLo
  /\ subMapCloud' = IF isNewSubMap THEN poseLo[curFrame]
                    ELSE IF subMapLo = poseLo[curFrame] THEN subMapCloud ELSE Mixed
  /\ \E completed \in BOOLEAN :
       /\ isNewSubMap' = completed
       /\ coolingIndex' = IF completed /\ coolingIndex > 0 THEN coolingIndex - 1 ELSE coolingIndex
       /\ loopFound' \in {FALSE, completed /\ coolingIndex' = 0}
  /\ UNCHANGED <<bufferVars, curFrame, graphWorld, handVars, mainOwn, gnssAdded, locks, history>>

(* processGNSS, abstracted to whether it added a factor, and the branch of
   run on its result and detectLoop's *)
ProcessGNSS ==
  /\ gnssAdded' \in {FALSE, WithGNSS}
  /\ LoopGoto("gnss", IF gnssAdded' \/ (loopFound /\ RealTime) THEN "optimize"
                      ELSE IF loopFound THEN "book" ELSE "unlock")
  /\ UNCHANGED <<bufferVars, curFrame, graphVars, subMapVars, handVars, mainOwn,
                 loopFound, locks, history>>

(* correctFrameLoop or frameGraphOptimize succeed: the stored poses move to
   a new world and _loopTrans takes the last one there. It overtakes the
   front end when that has cleared _isUpdated and not yet read _loopTrans. *)
Optimize ==
  /\ graphWorld < MaxCorrections
  /\ LoopGoto("optimize", "rebuild")
  /\ graphWorld' = graphWorld + 1
  /\ loopTrans' = [from |-> storedLo[lastStored], to |-> graphWorld']
  /\ storedLo' = [f \in Frame |-> IF f \in stored THEN graphWorld' ELSE storedLo[f]]
  /\ storedInit' = [f \in Frame |-> IF f \in stored /\ Incremental THEN graphWorld'
                                    ELSE storedInit[f]]
  /\ overtaken' = (overtaken \/ mainPC = "readTrans")
  /\ UNCHANGED <<bufferVars, curFrame, stored, lastStored, subMapVars, isUpdated,
                 lastCorrectBlockID, mainOwn, loopFound, gnssAdded, locks, reapplied>>

(* bug: a failed optimisation is tried again *)
OptimizeRetried ==
  /\ LoopGoto("optimize", IF RealTime THEN "optimize" ELSE "rebuild")
  /\ reapplied' = (reapplied \/ ~RealTime)
  /\ UNCHANGED <<bufferVars, curFrame, graphVars, subMapVars, handVars, mainOwn,
                 loopFound, gnssAdded, locks, overtaken>>

(* "PGO Failed!": with _isCorrectRealTime nothing follows; without it (a
   GNSS fix) run calls correctFrontendMap all the same, with the _loopTrans
   of an earlier optimisation. *)
OptimizeFails ==
  /\ LoopGoto("optimize", IF RealTime THEN "book" ELSE "rebuild")
  /\ reapplied' = (reapplied \/ ~RealTime)
  /\ UNCHANGED <<bufferVars, curFrame, graphVars, subMapVars, handVars, mainOwn,
                 loopFound, gnssAdded, locks, overtaken>>

(* correctFrontendMap: the voxel map is rebuilt from the stored frames, then
   _frameBuffer.empty() is read without _mutexBuf *)
RebuildVoxelMap ==
  /\ LoopGoto("rebuild", IF frameBuffer = <<>> THEN "publish" ELSE "lockUpdate")
  /\ UNCHANGED <<bufferVars, curFrame, graphVars, subMapVars, handVars, mainOwn,
                 loopFound, gnssAdded, locks, history>>

(* ... the buffer was empty: the flag first, then the id *)
PublishFlag ==
  /\ LoopGoto("publish", "publishId")
  /\ isUpdated' = TRUE
  /\ UNCHANGED <<bufferVars, curFrame, graphVars, subMapVars, loopTrans, lastCorrectBlockID,
                 mainOwn, loopFound, gnssAdded, locks, history>>

(* bug: the number of frames rather than the last one's id *)
PublishNextId ==
  /\ LoopGoto("publishId", "book")
  /\ lastCorrectBlockID' = lastStored + 1
  /\ UNCHANGED <<bufferVars, curFrame, graphVars, subMapVars, loopTrans, isUpdated,
                 mainOwn, loopFound, gnssAdded, locks, history>>

PublishId ==
  /\ LoopGoto("publishId", "book")
  /\ lastCorrectBlockID' = lastStored
  /\ UNCHANGED <<bufferVars, curFrame, graphVars, subMapVars, loopTrans, isUpdated,
                 mainOwn, loopFound, gnssAdded, locks, history>>

(* ... the buffer was not empty: _mutexUpdate, then _mutexBuf *)
LoopLockUpdate ==
  /\ updLock = "none"
  /\ LoopGoto("lockUpdate", "lockBuf")
  /\ updLock' = "loop"
  /\ UNCHANGED <<bufferVars, curFrame, graphVars, subMapVars, handVars, mainOwn,
                 loopFound, gnssAdded, procLock, bufLock, history>>

LoopLockBuf ==
  /\ bufLock = "none"
  /\ LoopGoto("lockBuf", "fix")
  /\ bufLock' = "loop"
  /\ UNCHANGED <<bufferVars, curFrame, graphVars, subMapVars, handVars, mainOwn,
                 loopFound, gnssAdded, procLock, updLock, history>>

(* bug: the id of the first buffered frame is published *)
CorrectBufferFirstId ==
  /\ LoopGoto("fix", "book")
  /\ poseLo' = [f \in Frame |-> IF f \in Buffered THEN Apply(loopTrans, poseLo[f])
                                ELSE poseLo[f]]
  /\ poseInit' = [f \in Frame |-> IF f \in Buffered THEN Apply(loopTrans, poseLo'[f])
                                  ELSE poseInit[f]]
  /\ lastCorrectBlockID' = frameBuffer[1]
  /\ isUpdated' = TRUE
  /\ updLock' = "none" /\ bufLock' = "none"
  /\ UNCHANGED <<frameBuffer, curFrame, graphVars, subMapVars, loopTrans, mainOwn,
                 loopFound, gnssAdded, procLock, history>>

(* every buffered frame is corrected; _poseInit is computed from the _poseLo
   just corrected *)
CorrectBuffer ==
  /\ LoopGoto("fix", "book")
  /\ poseLo' = [f \in Frame |-> IF f \in Buffered THEN Apply(loopTrans, poseLo[f])
                                ELSE poseLo[f]]
  /\ poseInit' = [f \in Frame |-> IF f \in Buffered THEN Apply(loopTrans, poseLo'[f])
                                  ELSE poseInit[f]]
  /\ lastCorrectBlockID' = frameBuffer[Len(frameBuffer)]
  /\ isUpdated' = TRUE
  /\ updLock' = "none" /\ bufLock' = "none"
  /\ UNCHANGED <<frameBuffer, curFrame, graphVars, subMapVars, loopTrans, mainOwn,
                 loopFound, gnssAdded, procLock, history>>

(* the end of run's round, with or without a correction *)
EndRound ==
  /\ loopPC \in {"book", "unlock"} /\ loopPC' = "poll"
  /\ coolingIndex' = IF loopPC = "book" THEN CoolingSubmapNum ELSE coolingIndex
  /\ procLock' = "none"
  /\ UNCHANGED <<bufferVars, curFrame, graphVars, isNewSubMap, subMapLo, subMapCloud, handVars,
                 mainOwn, loopFound, gnssAdded, bufLock, updLock, history>>

LoopNext ==
  \/ PopFrame \/ LoopLockProcess \/ DetectLoop \/ ProcessGNSS \/ Optimize
  \/ OptimizeFails \/ RebuildVoxelMap \/ PublishFlag \/ PublishId
  \/ LoopLockUpdate \/ LoopLockBuf \/ CorrectBuffer \/ EndRound

(* The bound on scans is reached and the loop thread has nothing it may pop. *)
MainDone == frameId = MaxFrames /\ mainPC = "scan"
Idle ==
  /\ MainDone /\ loopPC = "poll" /\ (frameBuffer = <<>> \/ isUpdated)
  /\ UNCHANGED vars

Next == MainNext \/ LoopNext \/ Idle

(* Each thread is scheduled by the operating system and waits for nothing but
   the mutexes; both sleep or compute outside them. *)
Fairness == WF_vars(MainNext) /\ WF_vars(LoopNext)
Spec == Init /\ [][Next]_vars /\ Fairness
-----------------------------------------------------------------------------
(* Correctness *)

TypeOK ==
  /\ frameBuffer \in Seq(Frame)
  /\ poseLo \in [Frame -> Pose] /\ poseInit \in [Frame -> Pose]
  /\ curFrame \in Frame \cup {-1}
  /\ stored \subseteq Frame /\ lastStored \in Frame \cup {-1}
  /\ storedLo \in [Frame -> Pose] /\ storedInit \in [Frame -> Pose]
  /\ isNewSubMap \in BOOLEAN /\ subMapLo \in Pose /\ subMapCloud \in Pose
  /\ coolingIndex \in 0 .. CoolingSubmapNum
  /\ loopTrans \in Transform /\ isUpdated \in BOOLEAN
  /\ lastCorrectBlockID \in Frame \cup {-1}
  /\ frameId \in 0 .. MaxFrames /\ state \in Pose /\ map \in Pose
  /\ mainPC \in MainPoint /\ mainIdx \in 1 .. MaxFrames + 1
  /\ loopPC \in LoopPoint /\ loopFound \in BOOLEAN /\ gnssAdded \in BOOLEAN
  /\ procLock \in Thread /\ bufLock \in Thread /\ updLock \in Thread
  /\ graphWorld \in World /\ overtaken \in BOOLEAN /\ reapplied \in BOOLEAN

(* What the two races recorded in overtaken and reapplied do not reach: the
   properties of the poses are stated for executions without them, and the
   violation runs show what each of them does. *)
Sound == ~overtaken /\ ~reapplied

(* An optimisation succeeded and the front end has not cleared _isUpdated. *)
Preparing == loopPC \in {"rebuild", "publish", "lockUpdate", "lockBuf", "fix"}
Pending == isUpdated \/ Preparing

(* The front end walks _frameBuffer without _mutexBuf and reads
   _frameBlocks, _loopTrans and the voxel map without _mutexProcess: while it
   does, the loop thread neither pops, stores, optimises nor rebuilds.
   Nothing but _isUpdated keeps the two apart ("Only can _frameBuffer pop out
   while existed blocks are contributed into voxelmap in main thread"). *)
HandoverExclusion ==
  mainPC \in {"correct", "clear"} =>
    isUpdated /\ loopPC \in {"poll", "publishId", "book", "unlock"}

(* The number of frames handed to the loop thread. *)
Handed == IF mainPC \in {"scan", "lockProcess", "input"} THEN frameId ELSE frameId + 1

(* Frames reach the loop thread in the order they were registered: the blocks
   popped and the blocks buffered are, in this order, all the frames handed
   over, none lost and none twice. *)
FramesInOrder ==
  /\ Len(frameBuffer) = Handed - 1 - curFrame
  /\ \A i \in 1 .. Len(frameBuffer) : frameBuffer[i] = curFrame + i

(* The frames in the pose graph, those registered before and after each loop
   was closed, are all in the graph's current world: whoever corrects a
   buffered frame, it is corrected once before it is stored. *)
StoredInGraphWorld ==
  Sound => \A f \in stored : storedLo[f] = graphWorld

(* _lastCorrectBlockID splits the buffer while a correction waits: the frames
   up to it are corrected already, the later ones are not, so that
   updateFrontendMap corrects every frame exactly once. The loop thread
   writes the flag before the id when it finds the buffer empty. *)
BufferSplit ==
  Sound /\ isUpdated /\ mainPC # "correct" /\ mainPC # "clear" =>
    \A f \in Buffered : poseLo[f] = IF f <= lastCorrectBlockID THEN graphWorld
                                    ELSE graphWorld - 1

(* The state follows the graph with at most one correction outstanding, and
   with none once the front end has taken it. *)
StateFollowsGraph ==
  Sound /\ mainPC # "readTrans" =>
    state = graphWorld - (IF Pending THEN 1 ELSE 0)

(* A scan is matched against a map of one world, the one the state is in. *)
ScanMatchesMap ==
  Sound /\ mainPC = "scan" => state = map /\ map # Mixed

(* A submap under construction is rigid: the points merged into it, its own
   pose and the pose graph agree on the world. Only a GNSS fix makes the loop
   thread optimise in the middle of a submap, and leave that submap behind. *)
SubMapRigid ==
  Sound /\ ~WithGNSS /\ ~isNewSubMap =>
    subMapCloud = subMapLo /\ subMapLo = graphWorld

(* The buffer shared without a lock by the two threads: no frame is lost or
   taken twice, and _lastCorrectBlockID tells who corrects which. *)
BufferConsistent == FramesInOrder /\ BufferSplit

(* After any number of corrections, taken at any point of the two threads,
   every pose is in the world it should be in: stored frames and the submap
   in progress in the graph's, the state at most one behind, the local map
   with the state. *)
PosesInStep == StoredInGraphWorld /\ StateFollowsGraph /\ ScanMatchesMap /\ SubMapRigid

(* A published correction is not replaced before the front end has cleared
   the flag: neither the transform nor any stored pose changes. *)
PublishedStable ==
  [][isUpdated => UNCHANGED <<loopTrans, stored, storedLo, graphWorld>>]_vars

(* Every scan ends: the front end is never kept from its next one by the
   loop thread's locks. *)
ScanEnds == (mainPC # "scan") ~> (mainPC = "scan")

(* A buffered frame is consumed, unless the last scan has been registered and
   left a correction no one will take. *)
BufferDrains ==
  \A f \in Frame : (f \in Buffered) ~> (f \notin Buffered \/ (MainDone /\ isUpdated))

(* Neither thread is held up by the other for ever. *)
HandoverProgress == ScanEnds /\ BufferDrains

(* LoopCloser.cpp:898: successive corrections compose, "Tw''w=  Tw''w' * Tw'w":
   the state goes through each of them, whenever the front end reads it. *)
StateComposesCorrections == ~reapplied => state # Mixed
=============================================================================
