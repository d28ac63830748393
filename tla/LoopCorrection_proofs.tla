------------------------ MODULE LoopCorrection_proofs ------------------------
(***************************************************************************)
(* The safety properties of LoopCorrection for every number of scans and   *)
(* corrections and every configuration. Three layers, each proved          *)
(* inductive from the ones before it:                                      *)
(*   Control  - types, the holders of the mutexes, the reach of the flag,  *)
(*              the order of the frames;                                   *)
(*   Worlds   - the world every pose is in, as long as Sound holds.        *)
(***************************************************************************)
EXTENDS LoopCorrection, TLAPS

(* Each mutex is held exactly where the code is inside its critical section. *)
LockInv ==
  /\ procLock = "loop" <=> loopPC \notin {"poll", "lockProcess"}
  /\ procLock = "main" <=> ProcessLocked /\ mainPC \in {"input", "unlockProcess"}
  /\ mainPC \in {"lockProcess", "unlockProcess"} => ProcessLocked
  /\ updLock = "main" <=> mainPC \in {"check", "correct", "clear", "readTrans", "end"}
  /\ updLock = "loop" <=> loopPC \in {"lockBuf", "fix"}
  /\ bufLock = "loop" <=> loopPC = "fix"
  /\ bufLock # "main"

(* The flag is up only where the loop thread has nothing left to write. *)
FlagInv ==
  /\ mainPC \in {"correct", "clear"} => isUpdated
  /\ isUpdated => loopPC \in {"poll", "publishId", "book"}

(* Which frames have gone where. *)
FrameInv ==
  /\ FramesInOrder
  /\ mainPC # "scan" => frameId < MaxFrames
  /\ loopPC \in {"lockProcess", "detect"} => curFrame \in Frame
  /\ stored # {} => lastStored \in stored
  /\ lastStored <= curFrame
  /\ ~isNewSubMap \/ loopPC \notin {"poll", "lockProcess", "detect"} => stored # {}
  /\ isUpdated => stored # {}
  /\ loopPC \in {"lockUpdate", "lockBuf", "fix"} => frameBuffer # <<>>
  /\ lastCorrectBlockID < Handed
  /\ loopPC \in {"publish", "publishId"} => lastCorrectBlockID <= curFrame

Control == TypeOK /\ LockInv /\ FlagInv /\ FrameInv

(* The worlds of the buffered frames, the first n of which the front end has
   corrected. *)
Split(n) ==
  \A i \in 1 .. Len(frameBuffer) :
    poseLo[frameBuffer[i]] =
      IF frameBuffer[i] <= lastCorrectBlockID \/ i <= n THEN graphWorld ELSE graphWorld - 1

AllBufferedIn(w) == \A i \in 1 .. Len(frameBuffer) : poseLo[frameBuffer[i]] = w

WorldInv ==
  /\ \A f \in stored : storedLo[f] = graphWorld
  /\ loopPC \in {"lockProcess", "detect"} => poseLo[curFrame] = graphWorld
  /\ Pending \/ mainPC = "readTrans" =>
       graphWorld >= 1 /\ loopTrans = [from |-> graphWorld - 1, to |-> graphWorld]
  /\ mainPC = "readTrans" => ~Pending
  /\ state = IF Pending \/ mainPC = "readTrans" THEN graphWorld - 1 ELSE graphWorld
  /\ map = IF mainPC \in {"clear", "readTrans"} THEN graphWorld ELSE state
  /\ ~Pending \/ mainPC = "clear" => AllBufferedIn(graphWorld)
  /\ Preparing => AllBufferedIn(graphWorld - 1)
  /\ isUpdated /\ mainPC \notin {"correct", "clear"} => Split(0)
  /\ isUpdated /\ mainPC = "correct" => Split(mainIdx - 1)

Worlds == Sound => WorldInv

Inv == Control /\ Worlds
-----------------------------------------------------------------------------
(* Sequences *)

(* What Head, Tail and Append do to the buffer, index by index. *)
LEMMA BufferOps ==
  ASSUME NEW S, NEW q \in Seq(S), NEW e \in S
  PROVE  /\ Append(q, e) \in Seq(S) /\ Append(q, e) # <<>>
         /\ Len(Append(q, e)) = Len(q) + 1
         /\ \A i \in 1 .. Len(q) + 1 :
              Append(q, e)[i] = IF i <= Len(q) THEN q[i] ELSE e
         /\ q # <<>> => /\ Head(q) = q[1] /\ Head(q) \in S
                        /\ Tail(q) \in Seq(S)
                        /\ Len(q) >= 1 /\ Len(Tail(q)) = Len(q) - 1
                        /\ \A i \in 1 .. Len(q) - 1 : Tail(q)[i] = q[i + 1]
<1>1. Len(Append(q, e)) = Len(q) + 1 /\ Len(q) \in Nat /\ Len(<<>>) = 0
  OBVIOUS
<1>2. Append(q, e) # <<>>
  BY <1>1
<1> QED
  BY <1>2

(* An index of a sequence one longer is an old one or the last. *)
LEMMA IndexOfAppend ==
  ASSUME NEW S, NEW q \in Seq(S), NEW r, Len(r) = Len(q) + 1
  PROVE  \A i \in 1 .. Len(r) : i \in 1 .. Len(q) \/ i = Len(q) + 1
  OBVIOUS

(* What popping a nonempty buffer leaves of it. *)
LEMMA BufferPop ==
  ASSUME NEW S, NEW q \in Seq(S), q # <<>>
  PROVE  /\ Len(q) \in Nat /\ Len(q) >= 1 /\ Head(q) = q[1] /\ Len(Tail(q)) = Len(q) - 1
         /\ \A i \in 1 .. Len(q) - 1 : Tail(q)[i] = q[i + 1]
  OBVIOUS

(* An element of the buffer is a frame of the set Buffered. *)
LEMMA ElementsInRange ==
  ASSUME NEW S, NEW q \in Seq(S), NEW i \in 1 .. Len(q)
  PROVE  q[i] \in S /\ q[i] \in {q[j] : j \in 1 .. Len(q)}
  OBVIOUS

-----------------------------------------------------------------------------
(* The locks *)

(* The program's mutexes exclude: at the places LockInv lists, and only
   there, a thread is the holder. *)
LEMMA LocksStep == TypeOK /\ LockInv /\ [Next]_vars => LockInv'
<1> SUFFICES ASSUME TypeOK, LockInv, [Next]_vars PROVE LockInv'
  OBVIOUS
<1> USE DEF TypeOK, LockInv, MainPoint, LoopPoint, Thread, MainGoto, LoopGoto, locks
<1>1. CASE RegisterScan
  BY <1>1 DEF RegisterScan, frontVars, mainCtl, loopCtl, mainOwn, loopOwn
<1>2. CASE MainLockProcess
  BY <1>2 DEF MainLockProcess, frontVars, mainCtl, loopCtl, mainOwn, loopOwn
<1>3. CASE InputFrameData
  BY <1>3 DEF InputFrameData, frontVars, mainCtl, loopCtl, mainOwn, loopOwn
<1>4. CASE MainUnlockProcess
  BY <1>4 DEF MainUnlockProcess, frontVars, mainCtl, loopCtl, mainOwn, loopOwn
<1>5. CASE MainLockUpdate
  BY <1>5 DEF MainLockUpdate, frontVars, mainCtl, loopCtl, mainOwn, loopOwn
<1>6. CASE CheckUpdated
  BY <1>6 DEF CheckUpdated, frontVars, mainCtl, loopCtl, mainOwn, loopOwn
<1>7. CASE CorrectBuffered
  BY <1>7 DEF CorrectBuffered, frontVars, mainCtl, loopCtl, mainOwn, loopOwn
<1>8. CASE RebuildMap
  BY <1>8 DEF RebuildMap, frontVars, mainCtl, loopCtl, mainOwn, loopOwn
<1>9. CASE ClearUpdated
  BY <1>9 DEF ClearUpdated, frontVars, mainCtl, loopCtl, mainOwn, loopOwn
<1>10. CASE CorrectState
  BY <1>10 DEF CorrectState, frontVars, mainCtl, loopCtl, mainOwn, loopOwn
<1>11. CASE EndScan
  BY <1>11 DEF EndScan, frontVars, mainCtl, loopCtl, mainOwn, loopOwn
<1>12. CASE PopFrame
  BY <1>12 DEF PopFrame, frontVars, mainCtl, loopCtl, mainOwn, loopOwn
<1>13. CASE LoopLockProcess
  BY <1>13 DEF LoopLockProcess, frontVars, mainCtl, loopCtl, mainOwn, loopOwn
<1>14. CASE DetectLoop
  BY <1>14 DEF DetectLoop, frontVars, mainCtl, loopCtl, mainOwn, loopOwn
<1>15. CASE ProcessGNSS
  BY <1>15 DEF ProcessGNSS, frontVars, mainCtl, loopCtl, mainOwn, loopOwn
<1>16. CASE Optimize
  BY <1>16 DEF Optimize, frontVars, mainCtl, loopCtl, mainOwn, loopOwn
<1>17. CASE OptimizeFails
  BY <1>17 DEF OptimizeFails, frontVars, mainCtl, loopCtl, mainOwn, loopOwn
<1>18. CASE RebuildVoxelMap
  BY <1>18 DEF RebuildVoxelMap, frontVars, mainCtl, loopCtl, mainOwn, loopOwn
<1>19. CASE PublishFlag
  BY <1>19 DEF PublishFlag, frontVars, mainCtl, loopCtl, mainOwn, loopOwn
<1>20. CASE PublishId
  BY <1>20 DEF PublishId, frontVars, mainCtl, loopCtl, mainOwn, loopOwn
<1>21. CASE LoopLockUpdate
  BY <1>21 DEF LoopLockUpdate, frontVars, mainCtl, loopCtl, mainOwn, loopOwn
<1>22. CASE LoopLockBuf
  BY <1>22 DEF LoopLockBuf, frontVars, mainCtl, loopCtl, mainOwn, loopOwn
<1>23. CASE CorrectBuffer
  BY <1>23 DEF CorrectBuffer, frontVars, mainCtl, loopCtl, mainOwn, loopOwn
<1>24. CASE EndRound
  BY <1>24 DEF EndRound, frontVars, mainCtl, loopCtl, mainOwn, loopOwn
<1>25. CASE UNCHANGED vars
  BY <1>25 DEF vars, mainCtl, loopCtl
<1> QED
  BY <1>1, <1>2, <1>3, <1>4, <1>5, <1>6, <1>7, <1>8, <1>9, <1>10, <1>11, <1>12, <1>13, <1>14, <1>15, <1>16, <1>17, <1>18, <1>19, <1>20, <1>21, <1>22, <1>23, <1>24, <1>25 DEF Next, MainNext, LoopNext, Idle
(* The flag is read and cleared where FlagInv says, whatever the order in
   which the two threads write it. *)
LEMMA FlagStep == TypeOK /\ LockInv /\ FlagInv /\ [Next]_vars => FlagInv'
<1> SUFFICES ASSUME TypeOK, LockInv, FlagInv, [Next]_vars PROVE FlagInv'
  OBVIOUS
<1> USE DEF TypeOK, LockInv, FlagInv, MainPoint, LoopPoint, MainGoto, LoopGoto
<1>1. CASE RegisterScan
  BY <1>1 DEF RegisterScan, frontVars, mainCtl, loopCtl, handVars, mainOwn, loopOwn
<1>2. CASE MainLockProcess
  BY <1>2 DEF MainLockProcess, frontVars, mainCtl, loopCtl, handVars, mainOwn, loopOwn
<1>3. CASE InputFrameData
  BY <1>3 DEF InputFrameData, frontVars, mainCtl, loopCtl, handVars, mainOwn, loopOwn
<1>4. CASE MainUnlockProcess
  BY <1>4 DEF MainUnlockProcess, frontVars, mainCtl, loopCtl, handVars, mainOwn, loopOwn
<1>5. CASE MainLockUpdate
  BY <1>5 DEF MainLockUpdate, frontVars, mainCtl, loopCtl, handVars, mainOwn, loopOwn
<1>6. CASE CheckUpdated
  BY <1>6 DEF CheckUpdated, frontVars, mainCtl, loopCtl, handVars, mainOwn, loopOwn
<1>7. CASE CorrectBuffered
  BY <1>7 DEF CorrectBuffered, frontVars, mainCtl, loopCtl, handVars, mainOwn, loopOwn
<1>8. CASE RebuildMap
  BY <1>8 DEF RebuildMap, frontVars, mainCtl, loopCtl, handVars, mainOwn, loopOwn
<1>9. CASE ClearUpdated
  BY <1>9 DEF ClearUpdated, frontVars, mainCtl, loopCtl, handVars, mainOwn, loopOwn
<1>10. CASE CorrectState
  BY <1>10 DEF CorrectState, frontVars, mainCtl, loopCtl, handVars, mainOwn, loopOwn
<1>11. CASE EndScan
  BY <1>11 DEF EndScan, frontVars, mainCtl, loopCtl, handVars, mainOwn, loopOwn
<1>12. CASE PopFrame
  BY <1>12 DEF PopFrame, frontVars, mainCtl, loopCtl, handVars, mainOwn, loopOwn
<1>13. CASE LoopLockProcess
  BY <1>13 DEF LoopLockProcess, frontVars, mainCtl, loopCtl, handVars, mainOwn, loopOwn
<1>14. CASE DetectLoop
  BY <1>14 DEF DetectLoop, frontVars, mainCtl, loopCtl, handVars, mainOwn, loopOwn
<1>15. CASE ProcessGNSS
  BY <1>15 DEF ProcessGNSS, frontVars, mainCtl, loopCtl, handVars, mainOwn, loopOwn
<1>16. CASE Optimize
  BY <1>16 DEF Optimize, frontVars, mainCtl, loopCtl, handVars, mainOwn, loopOwn
<1>17. CASE OptimizeFails
  BY <1>17 DEF OptimizeFails, frontVars, mainCtl, loopCtl, handVars, mainOwn, loopOwn
<1>18. CASE RebuildVoxelMap
  BY <1>18 DEF RebuildVoxelMap, frontVars, mainCtl, loopCtl, handVars, mainOwn, loopOwn
<1>19. CASE PublishFlag
  BY <1>19 DEF PublishFlag, frontVars, mainCtl, loopCtl, handVars, mainOwn, loopOwn
<1>20. CASE PublishId
  BY <1>20 DEF PublishId, frontVars, mainCtl, loopCtl, handVars, mainOwn, loopOwn
<1>21. CASE LoopLockUpdate
  BY <1>21 DEF LoopLockUpdate, frontVars, mainCtl, loopCtl, handVars, mainOwn, loopOwn
<1>22. CASE LoopLockBuf
  BY <1>22 DEF LoopLockBuf, frontVars, mainCtl, loopCtl, handVars, mainOwn, loopOwn
<1>23. CASE CorrectBuffer
  BY <1>23 DEF CorrectBuffer, frontVars, mainCtl, loopCtl, handVars, mainOwn, loopOwn
<1>24. CASE EndRound
  BY <1>24 DEF EndRound, frontVars, mainCtl, loopCtl, handVars, mainOwn, loopOwn
<1>25. CASE UNCHANGED vars
  BY <1>25 DEF vars, bufferVars, graphVars, subMapVars, handVars, frontVars, mainCtl, loopCtl, locks, history, frontVars, mainCtl, loopCtl, handVars, mainOwn, loopOwn
<1> QED
  BY <1>1, <1>2, <1>3, <1>4, <1>5, <1>6, <1>7, <1>8, <1>9, <1>10, <1>11, <1>12,
     <1>13, <1>14, <1>15, <1>16, <1>17, <1>18, <1>19, <1>20, <1>21, <1>22, <1>23,
     <1>24, <1>25 DEF Next, MainNext, LoopNext, Idle

-----------------------------------------------------------------------------
(* Types, and the order of the frames *)

(* A corrected pose is a pose, and so is the world a set of poses shares. *)
LEMMA ApplyType == \A t \in Transform, p \in Pose : Apply(t, p) \in Pose
  BY DEF Apply, Transform, Pose

LEMMA CommonWorldType == \A S \in SUBSET Pose : CommonWorld(S) \in Pose
  BY DEF CommonWorld, Pose

(* The bounds of the indices rest on the order of the frames, so the two are
   proved together. *)
LEMMA FrameStep ==
  Control /\ [Next]_vars => TypeOK' /\ FrameInv'
<1> SUFFICES ASSUME Control, [Next]_vars PROVE TypeOK' /\ FrameInv'
  OBVIOUS
<1> USE ConstantsAssumption
    DEF Control, TypeOK, LockInv, FlagInv, FrameInv, FramesInOrder, Handed, MainPoint,
        LoopPoint, MainGoto, LoopGoto, Thread, Frame, Pose, World, Mixed, Transform,
        bufferVars, graphVars, subMapVars, handVars, frontVars, mainCtl, loopCtl,
        locks, history, mainOwn, loopOwn
<1>1. CASE RegisterScan
  BY <1>1 DEF RegisterScan, Apply, Merge, CommonWorld
<1>2. CASE MainLockProcess
  BY <1>2 DEF MainLockProcess, Apply, Merge, CommonWorld
<1>3. CASE InputFrameData
  <2>1. frameId \in Frame
    BY <1>3 DEF InputFrameData
  <2>2. /\ frameBuffer' = Append(frameBuffer, frameId)
        /\ frameBuffer' \in Seq(Frame) /\ Len(frameBuffer') = Len(frameBuffer) + 1
        /\ \A i \in 1 .. Len(frameBuffer) + 1 :
             frameBuffer'[i] = IF i <= Len(frameBuffer) THEN frameBuffer[i] ELSE frameId
    BY <1>3, <2>1, BufferOps DEF InputFrameData
  <2>3. TypeOK'
    BY <1>3, <2>1, <2>2 DEF InputFrameData
  <2>4. /\ Handed = frameId /\ Handed' = frameId + 1
        /\ UNCHANGED <<curFrame, stored, lastStored, isNewSubMap, isUpdated, loopPC,
                      lastCorrectBlockID, frameId>>
    BY <1>3 DEF InputFrameData
  <2>5. frameId = curFrame + Len(frameBuffer) + 1
    BY <2>4
  <2>6. FramesInOrder'
    <3>1. Len(frameBuffer') = Handed' - 1 - curFrame'
      BY <2>2, <2>4, <2>5
    <3>2. ASSUME NEW i \in 1 .. Len(frameBuffer') PROVE frameBuffer'[i] = curFrame' + i
      <4>1. i <= Len(frameBuffer) => frameBuffer[i] = curFrame + i
        BY <2>2, <3>2
      <4> QED
        BY <2>2, <2>4, <2>5, <3>2, <4>1
    <3> QED
      BY <3>1, <3>2
  <2>7. frameBuffer' # <<>>
    BY <1>3, <2>1, BufferOps DEF InputFrameData
  <2>8. FrameInv'
    <3>1. (mainPC # "scan" => frameId < MaxFrames)'
      BY <2>1, <2>4
    <3>2. (lastCorrectBlockID < Handed)'
      BY <2>1, <2>4
    <3>3. (loopPC \in {"lockProcess", "detect"} => curFrame \in Frame)'
      BY <2>4
    <3>4. /\ (stored # {} => lastStored \in stored)'
          /\ (lastStored <= curFrame)'
          /\ (~isNewSubMap \/ loopPC \notin {"poll", "lockProcess", "detect"} => stored # {})'
          /\ (isUpdated => stored # {})'
      BY <2>4
    <3>5. (loopPC \in {"publish", "publishId"} => lastCorrectBlockID <= curFrame)'
      BY <2>4
    <3> QED
      BY <2>6, <2>7, <3>1, <3>2, <3>3, <3>4, <3>5 DEF FrameInv
  <2> QED
    BY <2>3, <2>8
<1>4. CASE MainUnlockProcess
  BY <1>4 DEF MainUnlockProcess, Apply, Merge, CommonWorld
<1>5. CASE MainLockUpdate
  BY <1>5 DEF MainLockUpdate, Apply, Merge, CommonWorld
<1>6. CASE CheckUpdated
  BY <1>6 DEF CheckUpdated, Apply, Merge, CommonWorld
<1>7. CASE CorrectBuffered
  <2>1. mainIdx + 1 \in 1 .. MaxFrames + 1
    BY <1>7 DEF CorrectBuffered
  <2>2. poseLo' \in [Frame -> Pose]
    BY <1>7, ApplyType DEF CorrectBuffered
  <2>3. TypeOK'
    BY <1>7, <2>1, <2>2 DEF CorrectBuffered
  <2>4. FrameInv'
    BY <1>7 DEF CorrectBuffered
  <2> QED
    BY <2>3, <2>4
<1>8. CASE RebuildMap
  <2>1. map' \in Pose
    <3> DEFINE S == {storedLo[f] : f \in stored} \cup {poseLo[f] : f \in Buffered}
    <3>1. S \subseteq Pose
      <4>1. Buffered \subseteq Frame
        BY DEF Buffered
      <4>2. \A f \in Frame : storedLo[f] \in Pose /\ poseLo[f] \in Pose
        OBVIOUS
      <4> QED
        BY <4>1, <4>2
    <3>2. CommonWorld(S) \in Pose
      BY <3>1, CommonWorldType
    <3> QED
      BY <1>8, <3>2 DEF RebuildMap
  <2>2. TypeOK'
    BY <1>8, <2>1 DEF RebuildMap
  <2>3. FrameInv'
    BY <1>8 DEF RebuildMap
  <2> QED
    BY <2>2, <2>3
<1>9. CASE ClearUpdated
  <2>1. TypeOK'
    <3>1. isUpdated' \in BOOLEAN
      BY <1>9 DEF ClearUpdated
    <3> QED
      BY <1>9, <3>1 DEF ClearUpdated
  <2>2. FrameInv'
    BY <1>9 DEF ClearUpdated
  <2> QED
    BY <2>1, <2>2
<1>10. CASE CorrectState
  BY <1>10 DEF CorrectState, Apply, Merge, CommonWorld
<1>11. CASE EndScan
  BY <1>11 DEF EndScan, Apply, Merge, CommonWorld
<1>12. CASE PopFrame
  <2>1. /\ frameBuffer' = Tail(frameBuffer) /\ curFrame' = frameBuffer[1]
        /\ frameBuffer' \in Seq(Frame) /\ curFrame' \in Frame
        /\ Len(frameBuffer) >= 1 /\ Len(frameBuffer') = Len(frameBuffer) - 1
        /\ \A i \in 1 .. Len(frameBuffer) - 1 : frameBuffer'[i] = frameBuffer[i + 1]
    BY <1>12, BufferOps DEF PopFrame
  <2>2. curFrame' = curFrame + 1
    BY <2>1
  <2>3. TypeOK'
    BY <1>12, <2>1 DEF PopFrame
  <2>4. FramesInOrder'
    BY <1>12, <2>1, <2>2 DEF PopFrame
  <2>5. FrameInv'
    BY <1>12, <2>1, <2>2, <2>4 DEF PopFrame
  <2> QED
    BY <2>3, <2>5
<1>13. CASE LoopLockProcess
  BY <1>13 DEF LoopLockProcess, Apply, Merge, CommonWorld
<1>14. CASE DetectLoop
  <2>1. curFrame \in Frame
    BY <1>14 DEF DetectLoop
  <2>2. /\ stored' \subseteq Frame /\ lastStored' \in stored' /\ lastStored' <= curFrame
        /\ storedLo' \in [Frame -> Pose] /\ storedInit' \in [Frame -> Pose]
    <3>0. poseLo[curFrame] \in Pose /\ poseInit[curFrame] \in Pose
      BY <2>1
    <3>1. CASE isNewSubMap \/ curFrame % StoreInterval = 0
      <4>1. /\ stored' = stored \cup {curFrame} /\ lastStored' = curFrame
            /\ storedLo' = [storedLo EXCEPT ![curFrame] = poseLo[curFrame]]
            /\ storedInit' = [storedInit EXCEPT ![curFrame] = poseInit[curFrame]]
        BY <1>14, <3>1 DEF DetectLoop, StoreFrameData
      <4>2. storedLo' \in [Frame -> Pose] /\ storedInit' \in [Frame -> Pose]
        BY <3>0, <4>1
      <4> QED
        BY <2>1, <4>1, <4>2
    <3>2. CASE ~(isNewSubMap \/ curFrame % StoreInterval = 0)
      <4>1. UNCHANGED <<stored, lastStored, storedLo, storedInit>>
        BY <1>14, <3>2 DEF DetectLoop, StoreFrameData
      <4>2. stored # {}
        BY <3>2
      <4> QED
        BY <4>1, <4>2
    <3> QED
      BY <3>1, <3>2
  <2>3. PICK completed \in BOOLEAN :
          /\ isNewSubMap' = completed
          /\ coolingIndex' = IF completed /\ coolingIndex > 0 THEN coolingIndex - 1
                             ELSE coolingIndex
          /\ loopFound' \in {FALSE, completed /\ coolingIndex' = 0}
    BY <1>14 DEF DetectLoop
  <2>4. /\ isNewSubMap' \in BOOLEAN /\ coolingIndex' \in 0 .. CoolingSubmapNum
        /\ loopFound' \in BOOLEAN
    <3>1. coolingIndex' \in 0 .. CoolingSubmapNum
      BY <2>3
    <3> QED
      BY <2>3, <3>1
  <2>5. subMapLo' \in Pose /\ subMapCloud' \in Pose
    BY <1>14, <2>1 DEF DetectLoop
  <2>6. TypeOK'
    BY <1>14, <2>2, <2>4, <2>5 DEF DetectLoop
  <2>7. FrameInv'
    BY <1>14, <2>2 DEF DetectLoop
  <2> QED
    BY <2>6, <2>7
<1>15. CASE ProcessGNSS
  <2>1. TypeOK'
    <3>1. gnssAdded' \in BOOLEAN
      BY <1>15 DEF ProcessGNSS
    <3> QED
      BY <1>15, <3>1 DEF ProcessGNSS
  <2>2. FrameInv'
    BY <1>15 DEF ProcessGNSS
  <2> QED
    BY <2>1, <2>2
<1>16. CASE Optimize
  BY <1>16 DEF Optimize, Apply, Merge, CommonWorld
<1>17. CASE OptimizeFails
  BY <1>17 DEF OptimizeFails, Apply, Merge, CommonWorld
<1>18. CASE RebuildVoxelMap
  BY <1>18 DEF RebuildVoxelMap, Apply, Merge, CommonWorld
<1>19. CASE PublishFlag
  BY <1>19 DEF PublishFlag, Apply, Merge, CommonWorld
<1>20. CASE PublishId
  BY <1>20 DEF PublishId, Apply, Merge, CommonWorld
<1>21. CASE LoopLockUpdate
  BY <1>21 DEF LoopLockUpdate, Apply, Merge, CommonWorld
<1>22. CASE LoopLockBuf
  BY <1>22 DEF LoopLockBuf, Apply, Merge, CommonWorld
<1>23. CASE CorrectBuffer
  BY <1>23 DEF CorrectBuffer, Apply, Merge, CommonWorld
<1>24. CASE EndRound
  BY <1>24 DEF EndRound, Apply, Merge, CommonWorld
<1>25. CASE UNCHANGED vars
  BY <1>25 DEF vars, bufferVars, graphVars, subMapVars, handVars, frontVars, mainCtl, loopCtl, locks, history, Apply, Merge, CommonWorld
<1> QED
  BY <1>1, <1>2, <1>3, <1>4, <1>5, <1>6, <1>7, <1>8, <1>9, <1>10, <1>11, <1>12,
     <1>13, <1>14, <1>15, <1>16, <1>17, <1>18, <1>19, <1>20, <1>21, <1>22, <1>23,
     <1>24, <1>25 DEF Next, MainNext, LoopNext, Idle
-----------------------------------------------------------------------------
(* The worlds of the poses *)

(* A frame popped from a buffer that is all in one world is in that world,
   and so are the frames left. *)
LEMMA PoppedWorlds ==
  ASSUME TypeOK, PopFrame, AllBufferedIn(graphWorld)
  PROVE  poseLo'[curFrame'] = graphWorld' /\ AllBufferedIn(graphWorld)'
<1>1. frameBuffer \in Seq(Frame) /\ frameBuffer # <<>>
  BY DEF TypeOK, PopFrame
<1>2. /\ frameBuffer' = Tail(frameBuffer) /\ curFrame' = Head(frameBuffer)
      /\ poseLo' = poseLo /\ graphWorld' = graphWorld
  BY DEF PopFrame, graphVars
<1>3. /\ Len(frameBuffer) \in Nat /\ Len(frameBuffer) >= 1
      /\ Head(frameBuffer) = frameBuffer[1]
      /\ Len(Tail(frameBuffer)) = Len(frameBuffer) - 1
      /\ \A i \in 1 .. Len(frameBuffer) - 1 : Tail(frameBuffer)[i] = frameBuffer[i + 1]
  BY <1>1, BufferPop, Zenon
<1>4. \A i \in 1 .. Len(frameBuffer) : poseLo[frameBuffer[i]] = graphWorld
  BY DEF AllBufferedIn
<1>5. ASSUME NEW i \in 1 .. Len(frameBuffer') PROVE poseLo[frameBuffer'[i]] = graphWorld
  <2>1. i \in 1 .. Len(frameBuffer) - 1 /\ i + 1 \in 1 .. Len(frameBuffer)
    BY <1>2, <1>3
  <2> QED
    BY <1>2, <1>3, <1>4, <2>1
<1> QED
  BY <1>2, <1>3, <1>4, <1>5 DEF AllBufferedIn

(* Every step keeps the poses in the worlds WorldInv puts them in, unless it
   is one of the two that end Sound. *)
LEMMA WorldStep ==
  Inv /\ Control' /\ [Next]_vars => Worlds'
<1> SUFFICES ASSUME Inv, Control', [Next]_vars, Sound' PROVE WorldInv'
  BY DEF Worlds
<1>0. Sound /\ WorldInv
  BY DEF Inv, Control, TypeOK, Worlds, Sound, Next, MainNext, LoopNext, Idle, vars, history,
         loopOwn, mainOwn, RegisterScan, MainLockProcess, InputFrameData, MainUnlockProcess,
         MainLockUpdate, CheckUpdated, CorrectBuffered, RebuildMap, ClearUpdated,
         CorrectState, EndScan, PopFrame, LoopLockProcess, DetectLoop, ProcessGNSS,
         Optimize, OptimizeFails, RebuildVoxelMap, PublishFlag, PublishId,
         LoopLockUpdate, LoopLockBuf, CorrectBuffer, EndRound
<1> USE <1>0, ConstantsAssumption
    DEF Inv, Control, TypeOK, LockInv, FlagInv, FrameInv, FramesInOrder, Handed, WorldInv,
        Sound, Pending, Preparing, Split, AllBufferedIn, MainPoint, LoopPoint, MainGoto,
        LoopGoto, Thread, Frame, Pose, World, Mixed,
        bufferVars, graphVars, subMapVars, handVars, frontVars, mainCtl, loopCtl,
        locks, history, mainOwn, loopOwn
<1>1. CASE RegisterScan
  BY <1>1 DEF RegisterScan, Merge
<1>2. CASE MainLockProcess
  BY <1>2 DEF MainLockProcess, Merge
<1>3. CASE InputFrameData
  <2>1. /\ frameId = curFrame + Len(frameBuffer) + 1
        /\ Len(frameBuffer') = Len(frameBuffer) + 1
        /\ \A i \in 1 .. Len(frameBuffer) : frameBuffer'[i] = frameBuffer[i]
        /\ frameBuffer'[Len(frameBuffer) + 1] = frameId
        /\ frameId \in Frame /\ frameId > lastCorrectBlockID
    BY <1>3, BufferOps DEF InputFrameData
  <2>2. /\ \A i \in 1 .. Len(frameBuffer) : poseLo'[frameBuffer[i]] = poseLo[frameBuffer[i]]
        /\ poseLo'[frameId] = state
        /\ curFrame \in Frame => poseLo'[curFrame] = poseLo[curFrame]
    BY <1>3, <2>1 DEF InputFrameData
  <2>3. /\ Pending' = Pending /\ Preparing' = Preparing
        /\ mainPC' \notin {"correct", "clear", "readTrans"}
        /\ mainPC \notin {"correct", "clear", "readTrans"}
        /\ UNCHANGED <<stored, storedLo, graphWorld, loopPC, curFrame, loopTrans,
                       isUpdated, lastCorrectBlockID, state, map>>
    BY <1>3 DEF InputFrameData
  <2>4. /\ \A i \in 1 .. Len(frameBuffer) : poseLo'[frameBuffer'[i]] = poseLo[frameBuffer[i]]
        /\ \A i \in 1 .. Len(frameBuffer) : frameBuffer'[i] = frameBuffer[i]
        /\ poseLo'[frameBuffer'[Len(frameBuffer) + 1]] = state
        /\ frameBuffer'[Len(frameBuffer) + 1] = frameId
    BY <2>1, <2>2
  <2>5. \A i \in 1 .. Len(frameBuffer') : i \in 1 .. Len(frameBuffer) \/ i = Len(frameBuffer) + 1
    BY <2>1, IndexOfAppend
  <2>6. ~Pending => AllBufferedIn(graphWorld)'
    BY <2>3, <2>4, <2>5
  <2>7. Preparing => AllBufferedIn(graphWorld - 1)'
    BY <2>3, <2>4, <2>5
  <2>8. isUpdated => Split(0)'
    <3>1. ASSUME isUpdated, NEW i \in 1 .. Len(frameBuffer')
          PROVE  poseLo'[frameBuffer'[i]] =
                   IF frameBuffer'[i] <= lastCorrectBlockID \/ i <= 0 THEN graphWorld
                   ELSE graphWorld - 1
      <4>1. CASE i \in 1 .. Len(frameBuffer)
        BY <2>3, <2>4, <3>1, <4>1
      <4>2. CASE i = Len(frameBuffer) + 1
        <5>1. state = graphWorld - 1
          BY <2>3, <3>1
        <5> QED
          BY <2>1, <2>4, <3>1, <4>2, <5>1
      <4> QED
        BY <2>5, <3>1, <4>1, <4>2
    <3> QED
      BY <2>3, <3>1
  <2> QED
    BY <2>2, <2>3, <2>6, <2>7, <2>8
<1>4. CASE MainUnlockProcess
  BY <1>4 DEF MainUnlockProcess, Merge
<1>5. CASE MainLockUpdate
  BY <1>5 DEF MainLockUpdate, Merge
<1>6. CASE CheckUpdated
  BY <1>6 DEF CheckUpdated, Merge
<1>7. CASE CorrectBuffered
  <2>1. isUpdated /\ Split(mainIdx - 1) /\ loopPC \in {"poll", "publishId", "book"}
    BY <1>7 DEF CorrectBuffered
  <2> DEFINE f == frameBuffer[mainIdx]
  <2>2. f \in Frame /\ \A i \in 1 .. Len(frameBuffer) : i # mainIdx => frameBuffer[i] # f
    BY <1>7 DEF CorrectBuffered
  <2>3. /\ \A i \in 1 .. Len(frameBuffer) :
             i # mainIdx => poseLo'[frameBuffer[i]] = poseLo[frameBuffer[i]]
        /\ poseLo'[f] = IF f <= lastCorrectBlockID THEN poseLo[f]
                        ELSE Apply(loopTrans, poseLo[f])
    BY <1>7, <2>2 DEF CorrectBuffered
  <2>4. poseLo'[f] = graphWorld
    BY <1>7, <2>1, <2>3 DEF CorrectBuffered, Apply
  <2>5. Split(mainIdx - 1)'
    <3>1. UNCHANGED <<frameBuffer, lastCorrectBlockID, graphWorld>> /\ mainIdx' - 1 = mainIdx
      BY <1>7 DEF CorrectBuffered
    <3>2. ASSUME NEW i \in 1 .. Len(frameBuffer)
          PROVE  poseLo'[frameBuffer[i]] =
                   IF frameBuffer[i] <= lastCorrectBlockID \/ i <= mainIdx THEN graphWorld
                   ELSE graphWorld - 1
      <4>1. CASE i = mainIdx
        BY <2>4, <4>1
      <4>2. CASE i # mainIdx
        <5>1. poseLo'[frameBuffer[i]] = poseLo[frameBuffer[i]]
          BY <2>3, <3>2, <4>2
        <5>2. i <= mainIdx - 1 <=> i <= mainIdx
          BY <3>2, <4>2
        <5> QED
          BY <2>1, <3>2, <5>1, <5>2
      <4> QED
        BY <4>1, <4>2
    <3> QED
      BY <3>1, <3>2
  <2> QED
    BY <1>7, <2>1, <2>5 DEF CorrectBuffered
<1>8. CASE RebuildMap
  <2>1. isUpdated /\ Split(mainIdx - 1) /\ mainIdx > Len(frameBuffer)
    BY <1>8 DEF RebuildMap
  <2>2. AllBufferedIn(graphWorld)
    <3>1. ASSUME NEW i \in 1 .. Len(frameBuffer) PROVE poseLo[frameBuffer[i]] = graphWorld
      <4>1. i <= mainIdx - 1
        BY <2>1, <3>1
      <4> QED
        BY <2>1, <3>1, <4>1
    <3> QED
      BY <3>1
  <2> DEFINE S == {storedLo[f] : f \in stored} \cup {poseLo[f] : f \in Buffered}
  <2>3. \A w \in S : w = graphWorld
    BY <2>2 DEF Buffered
  <2>4. graphWorld \in S
    BY <2>1
  <2>5. CommonWorld(S) = graphWorld
    BY <2>3, <2>4 DEF CommonWorld
  <2>6. map' = graphWorld /\ AllBufferedIn(graphWorld)'
    BY <1>8, <2>2, <2>5 DEF RebuildMap
  <2> QED
    BY <1>8, <2>1, <2>6 DEF RebuildMap
<1>9. CASE ClearUpdated
  BY <1>9 DEF ClearUpdated, Merge
<1>10. CASE CorrectState
  <2>1. ~Pending /\ loopTrans = [from |-> graphWorld - 1, to |-> graphWorld] /\ graphWorld >= 1
    BY <1>10 DEF CorrectState
  <2>2. state' = graphWorld /\ map' = graphWorld
    BY <1>10, <2>1 DEF CorrectState, Apply, Merge
  <2> QED
    BY <1>10, <2>1, <2>2 DEF CorrectState
<1>11. CASE EndScan
  BY <1>11 DEF EndScan, Merge
<1>12. CASE PopFrame
  <2>1. ~Pending /\ AllBufferedIn(graphWorld)
    BY <1>12 DEF PopFrame
  <2>2. /\ poseLo'[curFrame'] = graphWorld'
        /\ AllBufferedIn(graphWorld)'
    BY <1>12, <2>1, PoppedWorlds
  <2>5. /\ UNCHANGED <<poseLo, graphWorld, stored, storedLo, loopTrans, isUpdated, state, map,
                       mainPC, mainIdx, lastCorrectBlockID>>
        /\ loopPC' = "lockProcess" /\ Pending' = Pending /\ ~Preparing'
    BY <1>12 DEF PopFrame
  <2> QED
    BY <2>1, <2>2, <2>5
<1>13. CASE LoopLockProcess
  BY <1>13 DEF LoopLockProcess, Merge
<1>14. CASE DetectLoop
  <2>1. poseLo[curFrame] = graphWorld /\ curFrame \in Frame
    BY <1>14 DEF DetectLoop
  <2>2. \A f \in stored' : storedLo'[f] = graphWorld
    <3>1. CASE isNewSubMap \/ curFrame % StoreInterval = 0
      BY <1>14, <2>1, <3>1 DEF DetectLoop, StoreFrameData
    <3>2. CASE ~(isNewSubMap \/ curFrame % StoreInterval = 0)
      BY <1>14, <3>2 DEF DetectLoop, StoreFrameData
    <3> QED
      BY <3>1, <3>2
  <2>3. Pending' = Pending /\ Preparing' = Preparing /\ loopPC' = "gnss"
    BY <1>14 DEF DetectLoop
  <2> QED
    BY <1>14, <2>2, <2>3 DEF DetectLoop
<1>15. CASE ProcessGNSS
  BY <1>15 DEF ProcessGNSS, Merge
<1>16. CASE Optimize
  <2>1. ~Pending /\ mainPC \notin {"correct", "clear", "readTrans"} /\ graphWorld' = graphWorld + 1
    BY <1>16 DEF Optimize
  <2>2. lastStored \in stored /\ storedLo[lastStored] = graphWorld
    BY <1>16 DEF Optimize
  <2>3. loopTrans' = [from |-> graphWorld' - 1, to |-> graphWorld']
    BY <1>16, <2>1, <2>2 DEF Optimize
  <2>4. \A f \in stored' : storedLo'[f] = graphWorld'
    BY <1>16 DEF Optimize
  <2>5. AllBufferedIn(graphWorld - 1)'
    BY <1>16, <2>1 DEF Optimize
  <2>6. Pending' /\ Preparing' /\ ~isUpdated' /\ loopPC' = "rebuild"
    BY <1>16, <2>1 DEF Optimize
  <2> QED
    BY <1>16, <2>1, <2>3, <2>4, <2>5, <2>6 DEF Optimize
<1>17. CASE OptimizeFails
  BY <1>17 DEF OptimizeFails, Merge
<1>18. CASE RebuildVoxelMap
  BY <1>18 DEF RebuildVoxelMap, Merge
<1>19. CASE PublishFlag
  BY <1>19 DEF PublishFlag, Merge
<1>20. CASE PublishId
  BY <1>20 DEF PublishId, Merge
<1>21. CASE LoopLockUpdate
  BY <1>21 DEF LoopLockUpdate, Merge
<1>22. CASE LoopLockBuf
  BY <1>22 DEF LoopLockBuf, Merge
<1>23. CASE CorrectBuffer
  <2>1. ~isUpdated /\ Preparing /\ mainPC \notin {"correct", "clear", "readTrans"}
    BY <1>23 DEF CorrectBuffer
  <2>2. \A i \in 1 .. Len(frameBuffer) : poseLo'[frameBuffer[i]] = graphWorld
    <3>1. ASSUME NEW i \in 1 .. Len(frameBuffer) PROVE poseLo'[frameBuffer[i]] = graphWorld
      <4>1. frameBuffer[i] \in Buffered /\ frameBuffer[i] \in Frame
        BY <3>1, ElementsInRange DEF Buffered
      <4>2. poseLo[frameBuffer[i]] = graphWorld - 1
        BY <2>1, <3>1
      <4>3. loopTrans = [from |-> graphWorld - 1, to |-> graphWorld] /\ graphWorld >= 1
        BY <2>1
      <4>4. poseLo'[frameBuffer[i]] = Apply(loopTrans, poseLo[frameBuffer[i]])
        BY <1>23, <4>1 DEF CorrectBuffer
      <4> QED
        BY <4>2, <4>3, <4>4 DEF Apply
    <3> QED
      BY <3>1
  <2>3. \A i \in 1 .. Len(frameBuffer) : frameBuffer[i] <= lastCorrectBlockID'
    BY <1>23 DEF CorrectBuffer
  <2>4. Split(0)'
    BY <1>23, <2>2, <2>3 DEF CorrectBuffer
  <2>5. Pending' /\ ~Preparing' /\ isUpdated'
    BY <1>23 DEF CorrectBuffer
  <2> QED
    BY <1>23, <2>1, <2>4, <2>5 DEF CorrectBuffer
<1>24. CASE EndRound
  BY <1>24 DEF EndRound, Merge
<1>25. CASE UNCHANGED vars
  BY <1>25 DEF vars, bufferVars, graphVars, subMapVars, handVars, frontVars, mainCtl, loopCtl, locks, history, Merge
<1> QED
  BY <1>1, <1>2, <1>3, <1>4, <1>5, <1>6, <1>7, <1>8, <1>9, <1>10, <1>11, <1>12,
     <1>13, <1>14, <1>15, <1>16, <1>17, <1>18, <1>19, <1>20, <1>21, <1>22, <1>23,
     <1>24, <1>25 DEF Next, MainNext, LoopNext, Idle

-----------------------------------------------------------------------------
(* The submap in progress. Without GNSS the loop thread optimises only right
   after it has completed a submap, so that a submap begun is never moved. *)
SubMapInv ==
  ~WithGNSS =>
    /\ ~gnssAdded
    /\ loopPC = "gnss" /\ loopFound => isNewSubMap
    /\ loopPC \in {"optimize", "rebuild", "publish", "publishId", "lockUpdate", "lockBuf",
                   "fix", "book"} => isNewSubMap
    /\ Sound /\ ~isNewSubMap => subMapCloud = graphWorld /\ subMapLo = graphWorld

LEMMA SubMapStep == Inv /\ SubMapInv /\ [Next]_vars => SubMapInv'
<1> SUFFICES ASSUME Inv, SubMapInv, [Next]_vars, ~WithGNSS PROVE SubMapInv'
  BY DEF SubMapInv
<1> USE DEF SubMapInv, Sound, LoopGoto, MainGoto, loopOwn, subMapVars, graphVars, loopCtl,
            mainOwn, history
<1>1. CASE RegisterScan
  BY <1>1 DEF RegisterScan
<1>2. CASE MainLockProcess
  BY <1>2 DEF MainLockProcess
<1>3. CASE InputFrameData
  BY <1>3 DEF InputFrameData
<1>4. CASE MainUnlockProcess
  BY <1>4 DEF MainUnlockProcess
<1>5. CASE MainLockUpdate
  BY <1>5 DEF MainLockUpdate
<1>6. CASE CheckUpdated
  BY <1>6 DEF CheckUpdated
<1>7. CASE CorrectBuffered
  BY <1>7 DEF CorrectBuffered
<1>8. CASE RebuildMap
  BY <1>8 DEF RebuildMap
<1>9. CASE ClearUpdated
  BY <1>9 DEF ClearUpdated
<1>10. CASE CorrectState
  BY <1>10 DEF CorrectState
<1>11. CASE EndScan
  BY <1>11 DEF EndScan
<1>12. CASE PopFrame
  BY <1>12 DEF PopFrame
<1>13. CASE LoopLockProcess
  BY <1>13 DEF LoopLockProcess
<1>14. CASE DetectLoop
  <2>1. Sound => poseLo[curFrame] = graphWorld
    BY <1>14 DEF DetectLoop, Inv, Worlds, WorldInv
  <2>2. PICK completed \in BOOLEAN : /\ isNewSubMap' = completed
                                    /\ loopFound' \in {FALSE, completed /\ coolingIndex' = 0}
    BY <1>14 DEF DetectLoop
  <2>3. loopFound' => isNewSubMap'
    BY <2>2, Zenon
  <2>4. UNCHANGED <<overtaken, reapplied, gnssAdded, graphWorld>> /\ loopPC' = "gnss"
    BY <1>14 DEF DetectLoop
  <2>5. Sound => subMapCloud' = graphWorld /\ subMapLo' = graphWorld
    BY <1>14, <2>1 DEF DetectLoop
  <2> QED
    BY <2>3, <2>4, <2>5
<1>15. CASE ProcessGNSS
  BY <1>15 DEF ProcessGNSS
<1>16. CASE Optimize
  BY <1>16 DEF Optimize
<1>17. CASE OptimizeFails
  BY <1>17 DEF OptimizeFails
<1>18. CASE RebuildVoxelMap
  BY <1>18 DEF RebuildVoxelMap
<1>19. CASE PublishFlag
  BY <1>19 DEF PublishFlag
<1>20. CASE PublishId
  BY <1>20 DEF PublishId
<1>21. CASE LoopLockUpdate
  BY <1>21 DEF LoopLockUpdate
<1>22. CASE LoopLockBuf
  BY <1>22 DEF LoopLockBuf
<1>23. CASE CorrectBuffer
  BY <1>23 DEF CorrectBuffer
<1>24. CASE EndRound
  BY <1>24 DEF EndRound
<1>25. CASE UNCHANGED vars
  BY <1>25 DEF vars
<1> QED
  BY <1>1, <1>2, <1>3, <1>4, <1>5, <1>6, <1>7, <1>8, <1>9, <1>10, <1>11, <1>12, <1>13, <1>14, <1>15, <1>16, <1>17, <1>18, <1>19, <1>20, <1>21, <1>22, <1>23, <1>24, <1>25 DEF Next, MainNext, LoopNext, Idle

-----------------------------------------------------------------------------
(* The theorems *)

LEMMA InitInv == Init => Inv
<1> SUFFICES ASSUME Init PROVE Inv
  OBVIOUS
<1> USE ConstantsAssumption
    DEF Init, TypeOK, LockInv, FlagInv, FrameInv, FramesInOrder, Handed, MainPoint, LoopPoint,
        Thread, Frame, Pose, World, Mixed, Transform
<1>1. TypeOK
  <2>1. frameBuffer \in Seq(Frame)
    OBVIOUS
  <2>2. poseLo \in [Frame -> Pose] /\ poseInit \in [Frame -> Pose]
    OBVIOUS
  <2>3. storedLo \in [Frame -> Pose] /\ storedInit \in [Frame -> Pose]
    OBVIOUS
  <2>4. loopTrans \in Transform
    OBVIOUS
  <2>5. mainIdx \in 1 .. MaxFrames + 1 /\ coolingIndex \in 0 .. CoolingSubmapNum
    OBVIOUS
  <2>6. /\ isNewSubMap \in BOOLEAN /\ isUpdated \in BOOLEAN /\ loopFound \in BOOLEAN
        /\ gnssAdded \in BOOLEAN /\ overtaken \in BOOLEAN /\ reapplied \in BOOLEAN
    OBVIOUS
  <2>7. /\ curFrame \in Frame \cup {-1} /\ lastStored \in Frame \cup {-1}
        /\ stored \subseteq Frame /\ lastCorrectBlockID \in Frame \cup {-1}
        /\ frameId \in 0 .. MaxFrames /\ graphWorld \in World
        /\ subMapLo \in Pose /\ subMapCloud \in Pose /\ state \in Pose /\ map \in Pose
    OBVIOUS
  <2> QED
    BY <2>1, <2>2, <2>3, <2>4, <2>5, <2>6, <2>7
<1>2. LockInv /\ FlagInv
  OBVIOUS
<1>3. Len(frameBuffer) = 0 /\ Buffered = {}
  BY DEF Buffered
<1>4. FrameInv
  BY <1>3
<1>5. Worlds
  BY <1>3 DEF Worlds, WorldInv, Pending, Preparing, Split, AllBufferedIn
<1> QED
  BY <1>1, <1>2, <1>4, <1>5 DEF Inv, Control

(* The inductive invariant: who holds which mutex, where the flag may be up,
   which frames are where, and the world of every pose. *)
THEOREM Invariance == Spec => []Inv
<1>1. Inv /\ [Next]_vars => Inv'
  <2> SUFFICES ASSUME Inv, [Next]_vars PROVE Inv'
    OBVIOUS
  <2>1. LockInv' /\ FlagInv'
    BY LocksStep, FlagStep DEF Inv, Control
  <2>2. TypeOK' /\ FrameInv'
    BY FrameStep DEF Inv
  <2>3. Control'
    BY <2>1, <2>2 DEF Control
  <2>4. Worlds'
    BY <2>3, WorldStep
  <2> QED
    BY <2>3, <2>4 DEF Inv
<1> QED
  BY InitInv, <1>1, PTL DEF Spec

(* Every variable keeps its type; the index the front end walks the buffer
   with stays in the buffer. *)
THEOREM TypeCorrect == Spec => []TypeOK
<1>1. Inv => TypeOK
  BY DEF Inv, Control
<1> QED
  BY Invariance, <1>1, PTL

(* While the front end applies a correction, without a lock on any of the
   structures it reads, the loop thread touches none of them. *)
THEOREM Exclusion == Spec => []HandoverExclusion
<1>1. Inv => HandoverExclusion
  BY DEF Inv, Control, FlagInv, HandoverExclusion
<1> QED
  BY Invariance, <1>1, PTL

(* No frame handed to the loop thread is lost, duplicated or reordered. *)
THEOREM Order == Spec => []FramesInOrder
<1>1. Inv => FramesInOrder
  BY DEF Inv, Control, FrameInv
<1> QED
  BY Invariance, <1>1, PTL

(* A frame is corrected exactly once for every optimisation before it is
   stored, whichever thread corrects it. *)
THEOREM GraphWorld == Spec => []StoredInGraphWorld
<1>1. Inv => StoredInGraphWorld
  BY DEF Inv, Worlds, WorldInv, StoredInGraphWorld
<1> QED
  BY Invariance, <1>1, PTL

(* While a correction waits for the front end, _lastCorrectBlockID tells the
   corrected frames of the buffer from the others. *)
THEOREM Splitting == Spec => []BufferSplit
<1>1. Inv => BufferSplit
  <2> SUFFICES ASSUME Inv, Sound, isUpdated, mainPC # "correct", mainPC # "clear",
                      NEW f \in Buffered
               PROVE  poseLo[f] = IF f <= lastCorrectBlockID THEN graphWorld
                                  ELSE graphWorld - 1
    BY DEF BufferSplit
  <2>1. Split(0)
    BY DEF Inv, Worlds, WorldInv
  <2>2. PICK i \in 1 .. Len(frameBuffer) : frameBuffer[i] = f
    BY DEF Buffered
  <2>3. ~(i <= 0)
    BY <2>2 DEF Inv, Control, TypeOK
  <2> QED
    BY <2>1, <2>2, <2>3 DEF Split
<1> QED
  BY Invariance, <1>1, PTL

(* The state of the front end is never more than one correction behind the
   graph, and not behind at all once the correction is taken. *)
THEOREM StateFollows == Spec => []StateFollowsGraph
<1>1. Inv => StateFollowsGraph
  BY DEF Inv, Control, TypeOK, World, Worlds, WorldInv, StateFollowsGraph
<1> QED
  BY Invariance, <1>1, PTL

(* The front end matches its scans against a map in its state's world. *)
THEOREM MapMatches == Spec => []ScanMatchesMap
<1>1. Inv => ScanMatchesMap
  BY ConstantsAssumption
     DEF Inv, Control, TypeOK, World, Mixed, Worlds, WorldInv, ScanMatchesMap
<1> QED
  BY Invariance, <1>1, PTL

(* The submap in progress is rigid and in the graph's world, for every
   configuration without GNSS. *)
THEOREM Rigidity == Spec => []SubMapRigid
<1>1. Init => SubMapInv
  BY DEF Init, SubMapInv
<1>2. SubMapInv => SubMapRigid
  BY DEF SubMapInv, SubMapRigid
<1> QED
  BY Invariance, SubMapStep, <1>1, <1>2, PTL DEF Spec

(* The shared buffer is consistent: see its two parts. *)
THEOREM Consistent == Spec => []BufferConsistent
<1>1. FramesInOrder /\ BufferSplit => BufferConsistent
  BY DEF BufferConsistent
<1> QED
  BY Order, Splitting, <1>1, PTL

(* Every pose is in the world it should be in: see the four parts. *)
THEOREM InStep == Spec => []PosesInStep
<1>1. StoredInGraphWorld /\ StateFollowsGraph /\ ScanMatchesMap /\ SubMapRigid => PosesInStep
  BY DEF PosesInStep
<1> QED
  BY GraphWorld, StateFollows, MapMatches, Rigidity, <1>1, PTL

(* No step of the loop thread replaces a correction the front end has been
   told of. *)
THEOREM Stability == Spec => PublishedStable
<1>1. Inv /\ [Next]_vars => [isUpdated => UNCHANGED <<loopTrans, stored, storedLo, graphWorld>>]_vars
  <2> SUFFICES ASSUME Inv, Next, isUpdated
               PROVE  UNCHANGED <<loopTrans, stored, storedLo, graphWorld>>
    OBVIOUS
  <2>1. loopPC \in {"poll", "publishId", "book"}
    BY DEF Inv, Control, FlagInv
  <2> USE DEF graphVars, handVars, loopOwn, LoopGoto
  <2>2. CASE MainNext
    BY <2>2 DEF MainNext, RegisterScan, MainLockProcess, InputFrameData, MainUnlockProcess,
                MainLockUpdate, CheckUpdated, CorrectBuffered, RebuildMap, ClearUpdated,
                CorrectState, EndScan
  <2>3. CASE LoopNext
    BY <2>1, <2>3 DEF LoopNext, PopFrame, LoopLockProcess, DetectLoop, ProcessGNSS, Optimize,
                OptimizeFails, RebuildVoxelMap, PublishFlag, PublishId, LoopLockUpdate,
                LoopLockBuf, CorrectBuffer, EndRound
  <2>4. CASE Idle
    BY <2>4 DEF Idle, vars
  <2> QED
    BY <2>2, <2>3, <2>4 DEF Next
<1> QED
  BY Invariance, <1>1, PTL DEF Spec, PublishedStable
=============================================================================
