------------------------------ MODULE FrontEnd ------------------------------
(***************************************************************************)
(* What the front end does with a scan (System::mapping): the handler it   *)
(* goes to, the rounds of the iterated Kalman update against the kd-tree   *)
(* or the voxel map, the loop correction taken afterwards and the scan     *)
(* joining the map.                                                        *)
(*                                                                         *)
(* There are two filters, _kf (IKFoM) and _stateCur (the update of         *)
(* StatesGroup, used while the IMU is not initialised, and the             *)
(* registration without IMU samples); which of them a scan moves depends   *)
(* on the scan. There are three maps: the kd-tree and the voxel map, one   *)
(* of which is matched, and the map of VGICP; the kd-tree is also what is  *)
(* shown, and then kept beside the voxel map. As in LoopCorrection a pose  *)
(* is the world it is expressed in, the number of corrections behind it,   *)
(* and a map the world of its points. What a search finds and how far a    *)
(* step goes is chosen. Loops are looked for (_isLoopEn); the covariance   *)
(* is that of the sensor (_covType 1).                                     *)
(*                                                                         *)
(* What every specification has is named FrontEndInit, FrontEndSpec, and   *)
(* so on here: ScanToMap_proofs extends this module and OctoTree.          *)
(***************************************************************************)
EXTENDS Integers

CONSTANTS
  MaxIter,        \* _nMaxInterations
  MergedFrames,   \* _nMergedFrames: scans merged by the motor angle alone
  MaxScans,       \* bound: scans
  MaxCorrections  \* bound: loop corrections

ASSUME FrontEndAssumption ==
  /\ MaxIter \in Nat \ {0, 1}
  /\ MergedFrames \in Nat /\ MaxScans \in Nat /\ MaxCorrections \in Nat

Mixed == -1   \* points of two worlds
Empty == -2   \* no points yet
World == 0 .. MaxCorrections
Filter == {"kf", "cur"}
Maps == {"kd", "voxel", "vgicp"}

VARIABLES
  scan, pc, handler,  \* the scan, the point in its handler, and which that is
  method,             \* _matchMethod
  viewer,             \* _isEnable3DViewer; without, the programs publish the kd-tree
  imuInitialized,     \* _isImuInitialized
  imuNeedInit,        \* imu_need_init_ of the ImuProcess both filters share
  accum,              \* _isDataAccumStart, _isDataAccumFinished
  initMap, ekfInited, \* _isInitMap, _isEKFInited
  iter, steps,        \* i and t, or iterCount and rematchNum
  converge,           \* dyn_share.converge, isNearestSearch: search in the next round
  selected,           \* some _isPointSelectedSurf is set, or some plane matched
  moved,              \* history: corrections of the state by this scan
  searched,           \* history: moved at the last search, -1 before it
  covUpdates,         \* history: covariance updates by this scan
  pose,               \* the world of each filter's pose
  frames,             \* the world of the frames in the loop closer
  maps, copies,       \* the world of each map; history: times this scan is in maps[method]
  cloud,              \* the world of _globalCloudDownPtr
  nearest,            \* _nearestPoints: the scan and world they were searched for
  pvScan,             \* _curSurfPvList: the scan its points are of
  took,               \* history: this scan took a correction
  strayed             \* history: a scan without IMU samples took a correction or came
                      \* with a pose of another world than the frames

scanVars  == <<scan, handler>>
modeVars  == <<method, viewer, imuInitialized, imuNeedInit, accum, initMap, ekfInited>>
roundVars == <<iter, steps, converge, selected, moved, searched, covUpdates>>
mapVars   == <<pose, frames, maps, copies, cloud, took, strayed>>
frontEndVars == <<scanVars, pc, modeVars, roundVars, mapVars, nearest, pvScan>>

FrontEndInit ==
  /\ scan = 0 /\ pc = "scan" /\ handler = "none"
  /\ method \in {"kd", "voxel"} /\ viewer \in BOOLEAN
  /\ imuInitialized \in BOOLEAN /\ imuNeedInit = TRUE
  /\ accum = "none" /\ initMap = FALSE /\ ekfInited = FALSE
  /\ iter = 0 /\ steps = 0 /\ converge = FALSE /\ selected = FALSE
  /\ moved = 0 /\ searched = -1 /\ covUpdates = 0
  /\ pose = [f \in Filter |-> 0] /\ frames = 0
  /\ maps = [m \in Maps |-> Empty] /\ copies = 0 /\ cloud = Empty
  /\ nearest = [scan |-> 0, world |-> 0] /\ pvScan = 0
  /\ took = FALSE /\ strayed = FALSE

Merge(w, p) == CASE w = Empty -> p
                 [] p \in {Empty, w} -> w
                 [] OTHER -> Mixed

Fed(ms, p) == [m \in Maps |-> IF m \in ms THEN Merge(maps[m], p) ELSE maps[m]]

(* The scan goes into some maps, n times in the matched one before. *)
Join(ms, p, n) ==
  /\ maps' = Fed(ms, p)
  /\ copies' = IF method \in ms THEN n + 1 ELSE n

\* The kd-tree that is shown gets the scan.
Shown == IF viewer THEN {"kd"} ELSE {}

FilterOf(h) == IF h \in {"ikfom", "motor"} THEN "kf" ELSE "cur"
-----------------------------------------------------------------------------
(* Between scans *)

(* checkMatchMethod: too slow or too large, the program goes over to the
   kd-tree if there is one, once and for all; the voxel map is released. *)
CheckMatchMethod ==
  /\ pc = "scan" /\ method = "voxel" /\ maps["kd"] # Empty
  /\ method' = "kd" /\ maps' = [maps EXCEPT !["voxel"] = Empty]
  /\ UNCHANGED <<scanVars, pc, viewer, imuInitialized, imuNeedInit, accum, initMap, ekfInited,
                 roundVars, pose, frames, copies, cloud, took, strayed, nearest, pvScan>>

(* publishMapIncremental, after each scan: without the viewer the kd-tree
   beside the voxel map is fed here, with the cloud last transformed, be it of
   another scan; built it is from the surface points there are, at the last
   pose. *)
Publish ==
  /\ pc \in {"mapped", "dropped"} /\ pc' = "scan"
  /\ IF viewer \/ method = "kd" THEN UNCHANGED maps
     ELSE \/ maps["kd"] # Empty /\ maps' = Fed({"kd"}, cloud)
          \/ /\ maps["kd"] = Empty /\ pc = "mapped"
             /\ maps' = Fed({"kd"}, pose[FilterOf(handler)])
          \/ /\ maps["kd"] = Empty /\ pc = "dropped"
             /\ \E f \in Filter : maps' = Fed({"kd"}, pose[f])
          \/ maps["kd"] = Empty /\ (pc = "dropped" \/ handler = "vgicp") /\ UNCHANGED maps
  /\ UNCHANGED <<scanVars, modeVars, roundVars, pose, frames, copies, cloud, took, strayed,
                 nearest, pvScan>>

(* A scan goes to the handler the mode and its samples ask for. *)
Dispatch(h) ==
  /\ pc = "scan" /\ scan < MaxScans
  /\ scan' = scan + 1 /\ handler' = h
  /\ h \in (IF scan < MergedFrames THEN {"motor"}
            ELSE IF imuInitialized THEN {"ikfom", "vgicp"} ELSE {"esikf"})
  /\ took' = FALSE
  /\ moved' = 0 /\ searched' = -1 /\ covUpdates' = 0

Handlers == {"motor", "esikf", "ikfom", "vgicp"}

(* A scan is left alone that comes while the IMU is initialised, which only
   the handlers that call Process with _kf go on with, or has fewer than 5
   points. *)
SkipScan ==
  \E h \in Handlers :
    /\ Dispatch(h) /\ pc' = "dropped" /\ copies' = 0
    /\ imuNeedInit' \in (IF h \in {"motor", "ikfom"} THEN {FALSE, imuNeedInit} ELSE {imuNeedInit})
    /\ UNCHANGED <<method, viewer, imuInitialized, accum, initMap, ekfInited, iter, steps,
                   converge, selected, pose, frames, maps, cloud, strayed, nearest, pvScan>>

(* The maps the first scan is put in; the kd-tree is not built over again. *)
InitialMaps(h) ==
  (CASE h = "motor" -> {"kd"}
     [] h = "vgicp" -> Shown \cup {"vgicp"}
     [] OTHER -> Shown \cup {method})
  \ (IF maps["kd"] = Empty THEN {} ELSE {"kd"})

(* The maps are built from the scan; no correction can be waiting, for the
   loop thread has had no frame. *)
InitMap ==
  \E h \in Handlers :
    /\ Dispatch(h) /\ pc' = "mapped"
    /\ ~initMap /\ initMap' = TRUE
    /\ h # "vgicp" => ~imuNeedInit
    /\ ekfInited' \in (CASE h = "esikf" -> {TRUE}
                         [] h = "ikfom" -> {ekfInited, TRUE}
                         [] OTHER -> {ekfInited})
    /\ pvScan' = IF method = "voxel" /\ h \in {"esikf", "ikfom"} THEN scan' ELSE pvScan
    /\ Join(InitialMaps(h), pose[FilterOf(h)], 0)
    /\ cloud' = IF h \in {"motor", "vgicp"} \/ method = "kd" \/ viewer
                THEN pose[FilterOf(h)] ELSE cloud
    /\ UNCHANGED <<method, viewer, imuInitialized, imuNeedInit, accum, iter, steps, converge,
                   selected, pose, frames, strayed, nearest>>

(* processCloudOnlyMotor: the scan is shown, matched with nothing *)
MergeByMotor ==
  /\ Dispatch("motor") /\ pc' = "mapped"
  /\ initMap /\ ~imuNeedInit
  /\ Join(Shown, pose["kf"], 0) /\ cloud' = pose["kf"]
  /\ UNCHANGED <<modeVars, iter, steps, converge, selected, pose, frames, strayed,
                 nearest, pvScan>>

(* The update begins with a search, whatever the scan before ended with. *)
BeginUpdate(h) ==
  /\ Dispatch(h) /\ pc' = "round" /\ copies' = 0
  /\ iter' = (IF h = "ikfom" THEN -1 ELSE 0) /\ steps' = 0
  /\ converge' = TRUE /\ selected' = FALSE
  /\ pvScan' = IF method = "voxel" THEN scan' ELSE pvScan
  /\ UNCHANGED <<method, viewer, imuInitialized, imuNeedInit, accum, initMap, pose, frames,
                 maps, cloud, strayed, nearest>>

BeginIKFoM ==
  /\ BeginUpdate("ikfom")
  /\ initMap /\ ~imuNeedInit
  /\ ekfInited' \in {ekfInited, TRUE}

(* Before _isEKFInited the map is not initialised and the scan is matched
   all the same. *)
BeginESIKF ==
  /\ BeginUpdate("esikf") /\ ~imuNeedInit
  /\ ekfInited' \in {ekfInited, TRUE}
  /\ ekfInited' => initMap

(* A scan without IMU samples: registered by VGICP to its own map, which
   takes the pose of _stateCur along if it is in another world and the
   registration succeeds. The kd-tree that is shown gets the scan at that
   pose, also when it is the one _kf is matched to. *)
RegisterVGICP ==
  /\ Dispatch("vgicp") /\ initMap /\ pc' = "close"
  /\ \E w \in {pose["cur"], maps["vgicp"]} \ {Empty} : pose' = [pose EXCEPT !["cur"] = w]
  /\ Join(Shown \cup {"vgicp"}, pose'["cur"], 0)
  /\ cloud' = IF viewer THEN pose'["cur"] ELSE cloud
  /\ strayed' = (strayed \/ pose'["cur"] # frames)
  /\ UNCHANGED <<modeVars, iter, steps, converge, selected, frames, nearest, pvScan>>
-----------------------------------------------------------------------------
(* Rounds of the update *)

Searches == method = "voxel" \/ converge

(* In an empty map nothing is found; a search that finds nothing finds
   nothing again before the state moves; without a search the points selected
   are among those of the last. *)
MayMatch ==
  /\ maps[method] # Empty
  /\ IF Searches THEN selected \/ searched # moved ELSE selected

Search ==
  /\ searched' = IF Searches THEN moved ELSE searched
  /\ nearest' = IF method = "kd" /\ Searches
                THEN [scan |-> scan, world |-> maps["kd"]] ELSE nearest

(* The state is corrected; with a step below the limits the correspondences
   are searched again. *)
Correct(small) ==
  /\ MayMatch /\ selected' = TRUE
  /\ moved' = moved + 1

UpdateCovariance(last) == covUpdates' = IF last THEN covUpdates + 1 ELSE covUpdates

(* bug: the update does not return after its covariance *)
NextRoundToTheEnd(last, then) ==
  /\ iter' = iter + 1
  /\ pc' = IF iter = MaxIter - 1 THEN then ELSE "round"

NextRound(last, then) ==
  /\ iter' = iter + 1
  /\ pc' = IF last THEN then ELSE "round"

(* bug: the forced search comes when the rounds are over *)
IkfomRoundLate ==
  /\ pc = "round" /\ handler = "ikfom"
  /\ Search
  /\ \E small \in BOOLEAN :
       LET t    == IF small THEN steps + 1 ELSE steps
           last == t > 1 \/ iter = MaxIter - 1
       IN /\ Correct(small) /\ steps' = t
          /\ converge' = (small \/ (t = 0 /\ iter = MaxIter - 1))
          /\ UpdateCovariance(last) /\ NextRound(last, "close")
  /\ UNCHANGED <<scanVars, modeVars, mapVars, pvScan>>

(* update_iterated_dyn_share_modified: a round with a match *)
IkfomRound ==
  /\ pc = "round" /\ handler = "ikfom"
  /\ Search
  /\ \E small \in BOOLEAN :
       LET t    == IF small THEN steps + 1 ELSE steps
           last == t > 1 \/ iter = MaxIter - 1
       IN /\ Correct(small) /\ steps' = t
          /\ converge' = (small \/ (t = 0 /\ iter = MaxIter - 2))
          /\ UpdateCovariance(last) /\ NextRound(last, "close")
  /\ UNCHANGED <<scanVars, modeVars, mapVars, pvScan>>

(* ... "No Effective Points!": neither the state nor the convergence logic *)
IkfomNoMatch ==
  /\ pc = "round" /\ handler = "ikfom"
  /\ Search /\ selected' = FALSE
  /\ NextRound(iter = MaxIter - 1, "close")
  /\ UNCHANGED <<scanVars, modeVars, steps, converge, moved, covUpdates, mapVars, pvScan>>

EsikfSteps(small) == IF small \/ (steps = 0 /\ iter = MaxIter - 2) THEN steps + 1 ELSE steps

(* updateKFKdTree: a round *)
EsikfKdRound ==
  /\ pc = "round" /\ handler = "esikf" /\ method = "kd"
  /\ Search
  /\ \E small \in BOOLEAN :
       LET last == EsikfSteps(small) >= 2 \/ iter = MaxIter - 1
       IN /\ Correct(small) /\ steps' = EsikfSteps(small)
          /\ converge' = (steps' > steps)
          /\ UpdateCovariance(last) /\ NextRound(last, "calib")
  /\ UNCHANGED <<scanVars, modeVars, mapVars, pvScan>>

(* ... "No Effective Points!": the scan is dropped, the state stays where the
   rounds before have moved it *)
EsikfNoMatch ==
  /\ pc = "round" /\ handler = "esikf" /\ method = "kd"
  /\ Search /\ selected' = FALSE /\ pc' = "dropped"
  /\ UNCHANGED <<scanVars, modeVars, iter, steps, converge, moved, covUpdates, mapVars, pvScan>>

(* updateKFVoxelMap: a round; without a match the step goes back to the
   prediction. Before _isEKFInited no round is the last but by number. The
   scan joins the map here. *)
EsikfVoxelRound ==
  /\ pc = "round" /\ handler = "esikf" /\ method = "voxel"
  /\ Search
  /\ \E small \in BOOLEAN :
       LET last == ekfInited /\ (EsikfSteps(small) >= 2 \/ iter = MaxIter - 1)
       IN /\ steps' = EsikfSteps(small)
          /\ moved' = moved + 1
          /\ UpdateCovariance(last) /\ NextRound(last \/ iter = MaxIter - 1, "calib")
  /\ Join(IF pc' = "calib" THEN {"voxel"} ELSE {}, pose["cur"], copies)
  /\ selected' \in BOOLEAN
  /\ UNCHANGED <<scanVars, modeVars, converge, pose, frames, cloud, took, strayed, pvScan>>
-----------------------------------------------------------------------------
(* After the update *)

(* loopClosing gives the scan to the loop closer with the pose the handler
   estimated, and then looks for a correction to take. *)
PoseGiven == pose[FilterOf(handler)]

\* The pose and the frames after a correction of the frames.
Apply(p) == IF p = frames /\ p # Mixed THEN p + 1 ELSE Mixed

AfterClosing == IF handler = "ikfom" THEN "insert" ELSE "mapped"

NoCorrection ==
  /\ pc = "close" /\ pc' = AfterClosing
  /\ frames' = Merge(frames, PoseGiven)
  /\ UNCHANGED <<scanVars, modeVars, roundVars, pose, maps, copies, cloud, took, strayed,
                 nearest, pvScan>>

(* bug: the corrected state is not given to the filter *)
CorrectPoseOfCopy == [pose EXCEPT !["cur"] = Apply(@)]

(* updateLoopStatus corrects the state it is called with: of _kf through
   change_x, or _stateCur *)
CorrectPose == [pose EXCEPT ![FilterOf(handler)] = Apply(@)]

(* updateFrontendMap completes the maps that have points from the frames. *)
Completed(w) ==
  [m \in Maps |-> IF m = "vgicp" \/ maps[m] = Empty THEN maps[m] ELSE w]

(* The map of the new world holds the scan if its block is still in the
   buffer. The overload of StatesGroup then appends the scan with the
   neighbours of another one (_nearestPoints), or in the voxel map the points
   of another one (_curSurfPvList) at the pose of _stateIkfom. *)
CorrectedCopies(buffered) ==
  LET n == IF buffered THEN 1 ELSE 0
  IN IF handler = "vgicp" /\ method = "kd" THEN n + 1 ELSE n

CorrectedMaps ==
  LET c == Completed(Apply(PoseGiven))
  IN CASE handler = "ikfom" -> c
       [] handler = "vgicp" /\ method = "kd" -> [c EXCEPT !["kd"] = Merge(@, pose'["cur"])]
       [] handler = "vgicp" /\ method = "voxel" ->
            IF pvScan = 0 THEN c ELSE [c EXCEPT !["voxel"] = Merge(@, pose["kf"])]

TakeCorrection ==
  /\ pc = "close" /\ pc' = AfterClosing
  /\ frames # MaxCorrections
  /\ pose' = CorrectPose
  /\ frames' = Apply(PoseGiven)
  /\ maps' = CorrectedMaps
  /\ \E buffered \in BOOLEAN : copies' = CorrectedCopies(buffered)
  /\ cloud' = IF handler = "vgicp" THEN pose'["cur"] ELSE cloud
  /\ took' = TRUE /\ strayed' = (strayed \/ handler # "ikfom")
  /\ UNCHANGED <<scanVars, modeVars, roundVars, nearest, pvScan>>

(* calibAndRefineLI: motion starts the accumulation of data, enough data end
   it; the calibration is written to _stateCur and the flags that take the
   next scan to _kf. *)
CalibAndRefineLI ==
  /\ pc = "calib" /\ handler = "esikf"
  /\ accum' \in (IF accum = "none" THEN {"none", "started", "finished"}
                 ELSE {accum, "finished"})
  /\ imuInitialized' = (accum' = "finished")
  /\ pc' = "insert"
  /\ UNCHANGED <<scanVars, method, viewer, imuNeedInit, initMap, ekfInited, roundVars, mapVars,
                 nearest, pvScan>>

(* updateKdTreeMap, updateVoxelMap, but the voxel map has the scan already in
   updateKFVoxelMap; beside the voxel map the kd-tree that is shown *)
InsertScan ==
  /\ pc = "insert" /\ pc' = "mapped"
  /\ Join(IF handler = "esikf" /\ method = "voxel" THEN Shown ELSE Shown \cup {method},
          PoseGiven, copies)
  /\ cloud' = PoseGiven
  /\ UNCHANGED <<scanVars, modeVars, roundVars, pose, frames, took, strayed, nearest, pvScan>>

(* The bound on scans is reached. *)
Done == pc = "scan" /\ scan = MaxScans /\ UNCHANGED frontEndVars

FrontEndNext ==
  \/ CheckMatchMethod \/ Publish \/ SkipScan \/ InitMap \/ MergeByMotor
  \/ BeginIKFoM \/ BeginESIKF \/ RegisterVGICP
  \/ IkfomRound \/ IkfomNoMatch \/ EsikfKdRound \/ EsikfNoMatch \/ EsikfVoxelRound
  \/ NoCorrection \/ TakeCorrection \/ CalibAndRefineLI \/ InsertScan \/ Done

FrontEndSpec == FrontEndInit /\ [][FrontEndNext]_frontEndVars
-----------------------------------------------------------------------------
(* Correctness *)

FrontEndTypeOK ==
  /\ scan \in 0 .. MaxScans
  /\ pc \in {"scan", "round", "close", "calib", "insert", "mapped", "dropped"}
  /\ handler \in Handlers \cup {"none"} /\ method \in {"kd", "voxel"}
  /\ {viewer, imuInitialized, imuNeedInit, initMap, ekfInited, converge, selected, took, strayed}
       \subseteq BOOLEAN
  /\ accum \in {"none", "started", "finished"}
  /\ iter \in -1 .. MaxIter /\ steps \in 0 .. MaxIter
  /\ moved \in 0 .. MaxIter + 1 /\ searched \in -1 .. MaxIter /\ covUpdates \in 0 .. 1
  /\ pose \in [Filter -> World \cup {Mixed}] /\ frames \in World \cup {Mixed}
  /\ maps \in [Maps -> World \cup {Mixed, Empty}] /\ cloud \in World \cup {Mixed, Empty}
  /\ copies \in 0 .. 2
  /\ nearest \in [scan : 0 .. MaxScans, world : World \cup {Mixed, Empty}]
  /\ pvScan \in 0 .. MaxScans

(* An update of either filter that is not given up ends with the covariance
   reduced once, by correspondences searched for after the state had been
   corrected at least once: the rematch that a small step asks for, or the
   one forced before the last round. Given up, or with the filter of the
   voxel map not yet initialised, it leaves the covariance alone. *)
UpdateSound ==
  pc \in {"close", "calib"} /\ handler \in {"ikfom", "esikf"} =>
    /\ covUpdates = 1 <=> IF handler = "esikf" /\ method = "voxel" THEN ekfInited ELSE selected
    /\ covUpdates = 1 => searched >= 1 /\ searched < moved

(* A scan _kf was matched for joins the map it was matched to, and once; a
   correction taken in between puts the scan into the new map a second time
   (its block is in the buffer the map was completed from) and leaves it with
   the neighbours of the old world, but not with its pose. _kf, the frames of
   the loop closer and both maps stay in one world, the kd-tree kept beside
   the voxel map included, until a scan without IMU samples takes a correction
   or comes after one: _stateCur is then in another world than _kf, and the
   scan is shown in, or given to, the map of _kf all the same. *)
ScanJoinsMap ==
  /\ pc = "mapped" /\ handler = "ikfom" /\ searched >= 0 =>
       copies \in 1 .. IF took THEN 2 ELSE 1
  /\ pc = "insert" /\ method = "kd" =>
       nearest.scan = scan /\ (nearest.world = maps["kd"] \/ took)
  /\ ~strayed => /\ pose["kf"] = frames /\ frames # Mixed
                 /\ {maps["kd"], maps["voxel"]} \subseteq {Empty, frames}
=============================================================================
