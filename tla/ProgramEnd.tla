----------------------------- MODULE ProgramEnd -----------------------------
(***************************************************************************)
(* The programs from start to exit: the main thread, the loop thread it    *)
(* starts and asks to finish, and the thread that releases the voxel map   *)
(* when the program goes over to the kd-tree. Who owns the octrees: the    *)
(* front end's map and the loop thread's hold pointers, are copied and     *)
(* cleared by either side, and only some of these steps delete.            *)
(*                                                                         *)
(* A map is a set of octrees. The locks of the hand-over are               *)
(* LoopCorrection's; here _mutexProcess is held by the loop thread between *)
(* a loop found and the correction published.                              *)
(***************************************************************************)
EXTENDS Integers

CONSTANTS
  MaxScans,        \* bound: scans
  MaxCorrections,  \* bound: corrections the loop thread makes
  MaxOctrees       \* bound: octrees allocated

ASSUME ConstantsAssumption ==
  MaxScans \in Nat /\ MaxCorrections \in Nat /\ MaxOctrees \in Nat

Octree == 1 .. MaxOctrees

VARIABLES
  offline, realTime,    \* OFFLINE_TEST, _isCorrectRealTime
  pc, scans, method,    \* the main thread, scans registered, _matchMethod
  loopPC, corrections,  \* the loop thread, corrections made
  buffered, isUpdated,  \* the length of _frameBuffer, _isUpdated
  finished, requested,  \* _bFinished, _bFinishRequested
  released,             \* _releaseThread
  made, live,           \* octrees allocated, and not deleted yet
  frontMap, loopMap,    \* _voxelSurfMap of System and of LoopCloser
  orphaned,             \* history: the loop thread was taken for finished before it ran
  collided              \* history: two threads deleted the octrees of one map

config   == <<offline, realTime>>
mainVars == <<pc, scans, method>>
loopVars == <<loopPC, corrections>>
handVars == <<buffered, isUpdated>>
endVars  == <<finished, requested, orphaned>>
mapVars  == <<made, live, frontMap, loopMap, collided>>
vars == <<config, mainVars, loopVars, handVars, endVars, released, mapVars>>

(* initSystem has started the loop thread, which need not run yet. *)
Init ==
  /\ offline \in BOOLEAN /\ realTime \in BOOLEAN
  /\ pc = "scan" /\ scans = 0 /\ method \in {"kd", "voxel"}
  /\ loopPC = "unborn" /\ corrections = 0
  /\ buffered = 0 /\ isUpdated = FALSE
  /\ finished = TRUE /\ requested = FALSE /\ orphaned = FALSE
  /\ released = "none"
  /\ made = 0 /\ live = {} /\ frontMap = {} /\ loopMap = {} /\ collided = FALSE

(* New octrees for the points of n voxels that had none. *)
New(n) == made + 1 .. made + n
Allocate(n) ==
  /\ made + n <= MaxOctrees
  /\ made' = made + n /\ live' = live \cup New(n)
-----------------------------------------------------------------------------
(* The loop of the programs *)

Goto(from, to) == pc = from /\ pc' = to

(* checkMatchMethod, in the online program: over to the kd-tree for good *)
CheckMatchMethod ==
  /\ pc = "scan" /\ ~offline /\ method = "voxel" /\ scans > 0
  /\ method' = "kd" /\ released' = "started"
  /\ UNCHANGED <<config, pc, scans, loopVars, handVars, endVars, mapVars>>

(* A scan is registered; the first one builds the map. *)
RegisterScan ==
  /\ scans < MaxScans /\ scans' = scans + 1
  /\ Goto("scan", "input")
  /\ \E n \in IF scans = 0 /\ method = "voxel" THEN 1 .. 2 ELSE {0} :
       Allocate(n) /\ frontMap' = frontMap \cup New(n)
  /\ UNCHANGED <<config, method, loopVars, handVars, endVars, released, loopMap, collided>>

(* The loop thread holds _mutexProcess. *)
ProcessLocked == loopPC = "rebuild"

InputFrameData ==
  /\ Goto("input", "take") /\ ~ProcessLocked
  /\ buffered' = buffered + 1
  /\ UNCHANGED <<config, scans, method, loopVars, isUpdated, endVars, released, mapVars>>

(* updateLoopStatus: with a correction waiting, the points of the frames the
   loop thread has not seen join its map ... *)
TakeCorrection ==
  /\ Goto("take", IF isUpdated THEN "adopt" ELSE "insert")
  /\ \E n \in IF isUpdated /\ buffered > 0 /\ loopMap # {} THEN 0 .. 1 ELSE {0} :
       Allocate(n) /\ loopMap' = loopMap \cup New(n)
  /\ UNCHANGED <<config, scans, method, loopVars, handVars, endVars, released, frontMap, collided>>

(* bug: the octrees of the old map are forgotten *)
AdoptedKeeping == [live |-> live, map |-> IF frontMap # {} THEN loopMap ELSE frontMap]

(* ... and, unless the front end's map is empty, its octrees are deleted and
   it becomes a copy of the loop thread's. *)
Adopted ==
  IF frontMap # {} THEN [live |-> live \ frontMap, map |-> loopMap]
  ELSE [live |-> live, map |-> frontMap]

(* The release thread may be among the same octrees. *)
AdoptMap ==
  /\ Goto("adopt", "insert")
  /\ live' = Adopted.live /\ frontMap' = Adopted.map
  /\ collided' = (released \in {"deleting", "swap"})
  /\ isUpdated' = FALSE
  /\ UNCHANGED <<config, scans, method, loopVars, buffered, endVars, released, made, loopMap>>

(* updateVoxelMap *)
InsertScan ==
  /\ Goto("insert", "scan")
  /\ \E n \in IF method = "voxel" THEN 0 .. 1 ELSE {0} :
       Allocate(n) /\ frontMap' = frontMap \cup New(n)
  /\ UNCHANGED <<config, scans, method, loopVars, handVars, endVars, released, loopMap, collided>>
-----------------------------------------------------------------------------
(* The end of the programs *)

(* sigHandle, or the end of the bag; saveMap *)
EndLoop ==
  /\ Goto("scan", IF offline /\ ~realTime THEN "correct" ELSE "ask")
  /\ UNCHANGED <<config, scans, method, loopVars, handVars, endVars, released, mapVars>>

(* correctLoop, under _mutexProcess: outside the real-time mode the optimisers
   do not reach correctFrontendMap and the maps stay as they are. *)
CorrectLoop ==
  /\ Goto("correct", "ask") /\ ~ProcessLocked
  /\ UNCHANGED <<config, scans, method, loopVars, handVars, endVars, released, mapVars>>

(* if (!isFinished()) requestFinish() *)
RequestFinish ==
  /\ Goto("ask", IF finished THEN "join" ELSE "wait")
  /\ requested' = ~finished
  /\ orphaned' = (finished /\ loopPC # "done")
  /\ UNCHANGED <<config, scans, method, loopVars, handVars, finished, released, mapVars>>

(* while (!isFinished()) usleep(5000) *)
WaitFinished ==
  /\ Goto("wait", "join") /\ finished
  /\ UNCHANGED <<config, scans, method, loopVars, handVars, endVars, released, mapVars>>

(* _releaseThread->join() *)
JoinRelease ==
  /\ Goto("join", "gone") /\ released \in {"none", "done"}
  /\ UNCHANGED <<config, scans, method, loopVars, handVars, endVars, released, mapVars>>

Main ==
  \/ CheckMatchMethod \/ RegisterScan \/ InputFrameData \/ TakeCorrection \/ AdoptMap
  \/ InsertScan \/ EndLoop \/ CorrectLoop \/ RequestFinish \/ WaitFinished \/ JoinRelease
-----------------------------------------------------------------------------
(* The loop thread *)

LoopGoto(from, to) == loopPC = from /\ loopPC' = to

LoopBegin ==
  /\ LoopGoto("unborn", "poll") /\ finished' = FALSE
  /\ UNCHANGED <<config, mainVars, corrections, handVars, requested, orphaned, released, mapVars>>

(* bug: the buffer is not looked at *)
MayPopEmpty == ~isUpdated

MayPop == buffered > 0 /\ ~isUpdated

PopFrame ==
  /\ LoopGoto("poll", "process")
  /\ MayPop /\ buffered' = buffered - 1
  /\ UNCHANGED <<config, mainVars, corrections, isUpdated, endVars, released, mapVars>>

NothingToPop ==
  /\ LoopGoto("poll", "check") /\ ~MayPop
  /\ UNCHANGED <<config, mainVars, corrections, handVars, endVars, released, mapVars>>

NoCorrection ==
  /\ LoopGoto("process", "check")
  /\ UNCHANGED <<config, mainVars, corrections, handVars, endVars, released, mapVars>>

(* bug: the old octrees are deleted, which the front end matches against *)
ClearedDeleting == live \ loopMap

(* _voxelSurfMap.clear(): the pointers are forgotten, nothing is deleted. *)
Cleared == live

CorrectLoopFound ==
  /\ LoopGoto("process", "rebuild")
  /\ realTime /\ corrections < MaxCorrections /\ corrections' = corrections + 1
  /\ live' = Cleared /\ loopMap' = {}
  /\ UNCHANGED <<config, mainVars, handVars, endVars, released, made, frontMap, collided>>

(* The map is built again from the stored frames, which have points of voxel
   map scans or none at all, and published. *)
RebuildAndPublish ==
  /\ LoopGoto("rebuild", "check")
  /\ \E n \in IF made = 0 THEN {0} ELSE 1 .. 2 : Allocate(n) /\ loopMap' = New(n)
  /\ isUpdated' = TRUE
  /\ UNCHANGED <<config, mainVars, corrections, buffered, endVars, released, frontMap, collided>>

(* bug: the thread first works off what it has been given *)
MayFinishDrained == requested /\ buffered = 0

(* checkFinish, whatever is left in the buffer *)
MayFinish == requested

SetFinish ==
  /\ LoopGoto("check", "done") /\ MayFinish
  /\ finished' = TRUE
  /\ UNCHANGED <<config, mainVars, corrections, handVars, requested, orphaned, released, mapVars>>

PollAgain ==
  /\ LoopGoto("check", "poll") /\ ~MayFinish
  /\ UNCHANGED <<config, mainVars, corrections, handVars, endVars, released, mapVars>>

Loop ==
  \/ LoopBegin \/ PopFrame \/ NothingToPop \/ NoCorrection \/ CorrectLoopFound
  \/ RebuildAndPublish \/ SetFinish \/ PollAgain
-----------------------------------------------------------------------------
(* The release thread: releaseVoxelMap *)

ReleaseBegin ==
  /\ released = "started"
  /\ released' = IF frontMap = {} THEN "done" ELSE "deleting"
  /\ UNCHANGED <<config, mainVars, loopVars, handVars, endVars, mapVars>>

DeleteOctree ==
  /\ released = "deleting"
  /\ \E o \in frontMap \cap live :
       /\ live' = live \ {o}
       /\ released' = IF frontMap \cap live = {o} THEN "swap" ELSE "deleting"
  /\ UNCHANGED <<config, mainVars, loopVars, handVars, endVars, made, frontMap, loopMap, collided>>

SwapEmpty ==
  /\ released = "swap" /\ released' = "done"
  /\ frontMap' = {}
  /\ UNCHANGED <<config, mainVars, loopVars, handVars, endVars, made, live, loopMap, collided>>

Release == ReleaseBegin \/ DeleteOctree \/ SwapEmpty
-----------------------------------------------------------------------------
(* With the program gone its threads are, too. What two threads make of one
   map deleted twice is not followed. *)
Over == pc = "gone" \/ collided

Done == Over /\ UNCHANGED vars

Next == (~Over /\ (Main \/ Loop \/ Release)) \/ Done

(* Every thread is scheduled. *)
Fairness ==
  /\ WF_vars(~Over /\ Main) /\ WF_vars(~Over /\ Loop) /\ WF_vars(~Over /\ Release)

Spec == Init /\ [][Next]_vars /\ Fairness
-----------------------------------------------------------------------------
(* Correctness *)

TypeOK ==
  /\ {offline, realTime, isUpdated, finished, requested, orphaned, collided} \subseteq BOOLEAN
  /\ pc \in {"scan", "input", "take", "adopt", "insert", "correct", "ask", "wait", "join", "gone"}
  /\ loopPC \in {"unborn", "poll", "process", "rebuild", "check", "done"}
  /\ method \in {"kd", "voxel"} /\ released \in {"none", "started", "deleting", "swap", "done"}
  /\ scans \in 0 .. MaxScans /\ buffered \in 0 .. scans
  /\ corrections \in 0 .. MaxCorrections
  /\ made \in 0 .. MaxOctrees /\ live \subseteq 1 .. made
  /\ frontMap \subseteq 1 .. made /\ loopMap \subseteq 1 .. made

(* What is used is alive, and what is alive is used. While scans are matched
   to the voxel map its octrees exist, and those of a published map do; every
   octree is in one of the maps, whoever cleared which, until the program
   goes over to the kd-tree. When the program is gone its threads have ended,
   but for a loop thread taken for finished before it began. *)
InUseAlive ==
  ~collided =>
    /\ method = "voxel" => frontMap \subseteq live /\ live \subseteq frontMap \cup loopMap
    /\ isUpdated => loopMap \subseteq live
    /\ pc = "gone" => released \in {"none", "done"} /\ (loopPC = "done" \/ orphaned)

(* A program asked to end does: the main thread's wait for the loop thread is
   over in the end, wherever that thread is, and although no one takes the
   correction it may have published, nor the frames it will not touch while
   that correction waits. *)
ProgramEnds == pc \in {"correct", "ask", "wait", "join"} ~> Over
=============================================================================
