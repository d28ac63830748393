-------------------------- MODULE ScanToMap_proofs --------------------------
(***************************************************************************)
(* Proofs about the scan and the map it is matched with: FrontEnd, what    *)
(* becomes of a scan, for any number of rounds, scans and corrections; and *)
(* OctoTree, the voxel's octree, for any octants, layers and limits, any   *)
(* points and any outcome of the plane fits.                               *)
(***************************************************************************)
EXTENDS FrontEnd, OctoTree, FiniteSetTheorems, FunctionTheorems, SequenceTheorems,
        WellFoundedInduction, TLAPS

(***************************************************************************)
(* FRONT END                                                               *)
(***************************************************************************)

(* The inductive invariant.                                                *)

\* The number the first round of an update has.
First == IF handler = "ikfom" THEN -1 ELSE 0

\* The handler each point belongs to.
PointInv ==
  /\ pc = "round" => handler \in {"ikfom", "esikf"}
  /\ pc = "close" => handler \in {"ikfom", "vgicp"}
  /\ pc = "calib" => handler = "esikf"
  /\ pc = "insert" => handler \in {"ikfom", "esikf"}
  /\ pc \in {"round", "close"} /\ handler # "esikf" => imuInitialized /\ initMap

\* Between rounds. Points once not found are not found before the state moves;
\* after a small step either the correspondences have been searched for again
\* or the next round does it.
RoundInv ==
  pc = "round" =>
    /\ covUpdates = 0 /\ iter \in First .. MaxIter - 1
    /\ iter = First => moved = 0 /\ searched = -1 /\ steps = 0 /\ converge /\ ~selected
    /\ iter > First => searched >= 0
    /\ searched <= moved /\ moved <= iter - First /\ steps <= moved
    /\ moved = 0 => ~selected
    /\ handler = "ikfom" => steps <= 1
    /\ handler = "esikf" /\ method = "voxel" => moved = iter
    /\ steps >= 1 => searched >= 1 \/ converge
    /\ iter = MaxIter - 1 /\ selected /\ steps = 0 => converge

\* The neighbours an update ends with are those of its scan.
Searched ==
  \/ pc = "round" /\ iter > First
  \/ pc = "close" /\ handler = "ikfom"
  \/ pc \in {"calib", "insert"}

NearestInv ==
  method = "kd" /\ Searched =>
    nearest.scan = scan /\ (nearest.world = maps["kd"] \/ took)

\* How often the scan is in the matched map already.
CopyInv ==
  /\ pc \in {"round", "close", "calib"} => copies \in 0 .. 1 /\ ~took
  /\ pc = "round" \/ (pc = "close" /\ handler = "ikfom") => copies = 0
  /\ pc = "calib" /\ method = "kd" => copies = 0
  /\ pc = "insert" => copies \in 0 .. 1
  /\ pc = "insert" /\ handler = "ikfom" /\ ~took => copies = 0
  /\ pc = "mapped" /\ handler = "ikfom" /\ searched >= 0 =>
       copies \in 1 .. IF took THEN 2 ELSE 1

\* Until a scan without IMU samples comes after a correction, _kf, the frames
\* and what is in the maps are in one world and _stateCur is where it began.
\* Before the program goes over to _kf there is no correction.
WorldInv ==
  /\ ~strayed => /\ frames \in World /\ pose["kf"] = frames /\ pose["cur"] = 0
                 /\ maps["kd"] \in {Empty, frames} /\ maps["voxel"] \in {Empty, frames}
                 /\ maps["vgicp"] \in {Empty, 0}
                 /\ cloud \in {Empty, frames} \/ pc = "insert"
                 /\ handler = "vgicp" /\ pc \in {"close", "mapped"} => frames = 0
  /\ ~imuInitialized \/ ~initMap \/ (handler = "esikf" /\ pc # "scan") =>
       ~strayed /\ frames = 0
  /\ handler = "esikf" /\ pc \in {"round", "calib"} => ~imuInitialized

\* Fed by the publisher, the kd-tree is there before the first correction,
\* or its first scan is on its way.
TreeInv ==
  ~strayed /\ ~viewer /\ method = "voxel" /\ maps["kd"] = Empty =>
    frames = 0 \/ (handler = "ikfom" /\ pc \in {"insert", "mapped"})

FrontEndInv ==
  /\ FrontEndTypeOK /\ PointInv /\ RoundInv /\ UpdateSound
  /\ NearestInv /\ CopyInv /\ WorldInv /\ TreeInv

-----------------------------------------------------------------------------
(* The invariant is inductive.                                             *)

LEMMA FrontEndInitially == FrontEndInit => FrontEndInv
<1> SUFFICES ASSUME FrontEndInit PROVE FrontEndInv
  OBVIOUS
<1> USE FrontEndAssumption DEF World, Mixed, Empty, Filter, Maps, Handlers
<1>1. {viewer, imuInitialized, imuNeedInit, initMap, ekfInited, converge, selected, took, strayed}
        \subseteq BOOLEAN
  BY Zenon DEF FrontEndInit
<1>2. FrontEndTypeOK
  BY <1>1 DEF FrontEndInit, FrontEndTypeOK
<1>3. PointInv /\ RoundInv /\ UpdateSound /\ NearestInv /\ CopyInv /\ WorldInv /\ TreeInv
  BY DEF FrontEndInit, PointInv, RoundInv, UpdateSound, NearestInv, Searched, CopyInv, WorldInv, TreeInv
<1> QED
  BY <1>2, <1>3 DEF FrontEndInv

(* What is fed to a map in its own world leaves it there. *)
LEMMA FedIs ==
  ASSUME FrontEndTypeOK, NEW ms \in SUBSET Maps, NEW p \in World \cup {Mixed, Empty}
  PROVE  /\ Fed(ms, p) \in [Maps -> World \cup {Mixed, Empty}]
         /\ \A m \in Maps \ ms : Fed(ms, p)[m] = maps[m]
         /\ \A m \in ms : /\ maps[m] \in {Empty, p} => Fed(ms, p)[m] = p
                          /\ p = Empty => Fed(ms, p)[m] = maps[m]
                          /\ p # Empty => Fed(ms, p)[m] # Empty
<1>1. ASSUME NEW w \in World \cup {Mixed, Empty}
      PROVE  /\ Merge(w, p) \in World \cup {Mixed, Empty}
             /\ w \in {Empty, p} => Merge(w, p) = p
             /\ p = Empty => Merge(w, p) = w
             /\ p # Empty => Merge(w, p) # Empty
  BY FrontEndAssumption DEF Merge, World, Mixed, Empty
<1>2. \A m \in Maps : maps[m] \in World \cup {Mixed, Empty}
  BY DEF FrontEndTypeOK
<1>3. Fed(ms, p) = [m \in Maps |-> IF m \in ms THEN Merge(maps[m], p) ELSE maps[m]]
  BY DEF Fed
<1> QED
  BY <1>1, <1>2, <1>3

LEMMA FrontEndInductive == FrontEndInv /\ [FrontEndNext]_frontEndVars => FrontEndInv'
<1> SUFFICES ASSUME FrontEndInv, [FrontEndNext]_frontEndVars PROVE FrontEndInv'
  OBVIOUS
<1> USE FrontEndAssumption DEF frontEndVars, scanVars, modeVars, roundVars, mapVars, FrontEndInv,
        World, Mixed, Empty, Filter, Maps, Handlers, First
<1>u. CASE UNCHANGED frontEndVars
  BY <1>u DEF FrontEndTypeOK, PointInv, RoundInv, UpdateSound, NearestInv, Searched, CopyInv, WorldInv, TreeInv
<1>1. CASE CheckMatchMethod
  <2> USE <1>1 DEF CheckMatchMethod
  <2>f. {viewer, imuInitialized, imuNeedInit, initMap, ekfInited, converge, selected, took, strayed}'
          \subseteq BOOLEAN
    BY Zenon DEF FrontEndTypeOK
  <2>1. FrontEndTypeOK'
    BY <2>f DEF FrontEndTypeOK, RoundInv, PointInv, CopyInv, WorldInv
  <2>2. PointInv'
    BY DEF PointInv
  <2>3. RoundInv'
    BY DEF FrontEndTypeOK, RoundInv, PointInv
  <2>4. UpdateSound'
    BY DEF FrontEndTypeOK, RoundInv, PointInv, UpdateSound
  <2>5. NearestInv'
    BY DEF FrontEndTypeOK, NearestInv, Searched, RoundInv, PointInv
  <2>6. CopyInv'
    BY DEF FrontEndTypeOK, CopyInv, PointInv
  <2>7. WorldInv'
    BY DEF FrontEndTypeOK, WorldInv, PointInv
  <2>8. TreeInv'
    BY DEF FrontEndTypeOK, TreeInv, WorldInv, PointInv
  <2> QED
    BY <2>1, <2>2, <2>3, <2>4, <2>5, <2>6, <2>7, <2>8
<1>2. CASE SkipScan
  <2> USE <1>2 DEF SkipScan, Dispatch
  <2>f. {viewer, imuInitialized, imuNeedInit, initMap, ekfInited, converge, selected, took, strayed}'
          \subseteq BOOLEAN
    BY Zenon DEF FrontEndTypeOK
  <2>1. FrontEndTypeOK'
    BY <2>f DEF FrontEndTypeOK, RoundInv, PointInv, CopyInv, WorldInv
  <2>2. PointInv'
    BY DEF PointInv
  <2>3. RoundInv'
    BY DEF FrontEndTypeOK, RoundInv, PointInv
  <2>4. UpdateSound'
    BY DEF FrontEndTypeOK, RoundInv, PointInv, UpdateSound
  <2>5. NearestInv'
    BY DEF FrontEndTypeOK, NearestInv, Searched, RoundInv, PointInv
  <2>6. CopyInv'
    BY DEF FrontEndTypeOK, CopyInv, PointInv
  <2>7. WorldInv'
    BY DEF FrontEndTypeOK, WorldInv, PointInv
  <2>8. TreeInv'
    BY DEF FrontEndTypeOK, TreeInv, WorldInv, PointInv
  <2> QED
    BY <2>1, <2>2, <2>3, <2>4, <2>5, <2>6, <2>7, <2>8
<1>3. CASE InitMap
  <2> USE <1>3 DEF InitMap, Dispatch, InitialMaps, Join, Shown, FilterOf
  <2> DEFINE ms == InitialMaps(handler')
             p == pose[FilterOf(handler')]
  <2>a. ms \in SUBSET Maps /\ p \in World \cup {Mixed, Empty} /\ maps' = Fed(ms, p) /\ p # Empty
    BY DEF FrontEndTypeOK, PointInv
  <2> HIDE DEF ms, p
  <2>b. /\ maps' \in [Maps -> World \cup {Mixed, Empty}]
        /\ \A m \in Maps \ ms : maps'[m] = maps[m]
        /\ \A m \in ms : /\ maps[m] \in {Empty, p} => maps'[m] = p
                         /\ maps'[m] # Empty
    BY <2>a, FedIs DEF FrontEndInv
  <2>f. {viewer, imuInitialized, imuNeedInit, initMap, ekfInited, converge, selected, took, strayed}'
          \subseteq BOOLEAN
    BY Zenon DEF FrontEndTypeOK
  <2>1. FrontEndTypeOK'
    BY <2>f, <2>b DEF FrontEndTypeOK, RoundInv, PointInv, CopyInv, WorldInv
  <2>2. PointInv'
    BY DEF PointInv
  <2>3. RoundInv'
    BY DEF FrontEndTypeOK, RoundInv, PointInv
  <2>4. UpdateSound'
    BY DEF FrontEndTypeOK, RoundInv, PointInv, UpdateSound
  <2>5. NearestInv'
    BY DEF FrontEndTypeOK, NearestInv, Searched, RoundInv, PointInv
  <2>6. CopyInv'
    BY DEF FrontEndTypeOK, CopyInv, PointInv
  <2>7. WorldInv'
    <3>1. ~strayed /\ frames = 0 /\ pose["kf"] = 0 /\ pose["cur"] = 0
      BY DEF WorldInv
    <3>2. p = 0
      BY <3>1 DEF p
    <3>3. strayed' = strayed /\ frames' = frames /\ pose' = pose /\ cloud' \in {cloud, 0}
      BY <3>1
    <3>4. \A m \in Maps : maps'[m] \in {Empty, 0}
      BY <2>a, <2>b, <3>1, <3>2 DEF WorldInv
    <3>5. cloud \in {Empty, frames}
      BY <3>1 DEF WorldInv
    <3>6. handler' = "esikf" => pc' = "mapped"
      OBVIOUS
    <3> QED
      BY <3>1, <3>3, <3>4, <3>5, <3>6 DEF WorldInv
  <2>8. TreeInv'
    BY <2>a, <2>b DEF FrontEndTypeOK, TreeInv, WorldInv, PointInv, ms, p
  <2> QED
    BY <2>1, <2>2, <2>3, <2>4, <2>5, <2>6, <2>7, <2>8
<1>4. CASE MergeByMotor
  <2> USE <1>4 DEF MergeByMotor, Dispatch, Join, Shown, FilterOf
  <2> DEFINE ms == Shown
             p == pose["kf"]
  <2>a. ms \in SUBSET Maps /\ p \in World \cup {Mixed, Empty} /\ maps' = Fed(ms, p) /\ p # Empty
    BY DEF FrontEndTypeOK, PointInv
  <2> HIDE DEF ms, p
  <2>b. /\ maps' \in [Maps -> World \cup {Mixed, Empty}]
        /\ \A m \in Maps \ ms : maps'[m] = maps[m]
        /\ \A m \in ms : /\ maps[m] \in {Empty, p} => maps'[m] = p
                         /\ maps'[m] # Empty
    BY <2>a, FedIs DEF FrontEndInv
  <2>f. {viewer, imuInitialized, imuNeedInit, initMap, ekfInited, converge, selected, took, strayed}'
          \subseteq BOOLEAN
    BY Zenon DEF FrontEndTypeOK
  <2>1. FrontEndTypeOK'
    BY <2>f, <2>b DEF FrontEndTypeOK, RoundInv, PointInv, CopyInv, WorldInv
  <2>2. PointInv'
    BY DEF PointInv
  <2>3. RoundInv'
    BY DEF FrontEndTypeOK, RoundInv, PointInv
  <2>4. UpdateSound'
    BY DEF FrontEndTypeOK, RoundInv, PointInv, UpdateSound
  <2>5. NearestInv'
    BY DEF FrontEndTypeOK, NearestInv, Searched, RoundInv, PointInv
  <2>6. CopyInv'
    BY DEF FrontEndTypeOK, CopyInv, PointInv
  <2>7. WorldInv'
    BY <2>a, <2>b DEF FrontEndTypeOK, WorldInv, PointInv, ms, p
  <2>8. TreeInv'
    BY <2>a, <2>b DEF FrontEndTypeOK, TreeInv, WorldInv, PointInv, ms, p
  <2> QED
    BY <2>1, <2>2, <2>3, <2>4, <2>5, <2>6, <2>7, <2>8
<1>5. CASE BeginIKFoM
  <2> USE <1>5 DEF BeginIKFoM, BeginUpdate, Dispatch
  <2>f. {viewer, imuInitialized, imuNeedInit, initMap, ekfInited, converge, selected, took, strayed}'
          \subseteq BOOLEAN
    BY Zenon DEF FrontEndTypeOK
  <2>1. FrontEndTypeOK'
    BY <2>f DEF FrontEndTypeOK, RoundInv, PointInv, CopyInv, WorldInv
  <2>2. PointInv'
    BY DEF PointInv
  <2>3. RoundInv'
    BY DEF FrontEndTypeOK, RoundInv, PointInv
  <2>4. UpdateSound'
    BY DEF FrontEndTypeOK, RoundInv, PointInv, UpdateSound
  <2>5. NearestInv'
    BY DEF FrontEndTypeOK, NearestInv, Searched, RoundInv, PointInv
  <2>6. CopyInv'
    BY DEF FrontEndTypeOK, CopyInv, PointInv
  <2>7. WorldInv'
    BY DEF FrontEndTypeOK, WorldInv, PointInv
  <2>8. TreeInv'
    BY DEF FrontEndTypeOK, TreeInv, WorldInv, PointInv
  <2> QED
    BY <2>1, <2>2, <2>3, <2>4, <2>5, <2>6, <2>7, <2>8
<1>6. CASE BeginESIKF
  <2> USE <1>6 DEF BeginESIKF, BeginUpdate, Dispatch
  <2>f. {viewer, imuInitialized, imuNeedInit, initMap, ekfInited, converge, selected, took, strayed}'
          \subseteq BOOLEAN
    BY Zenon DEF FrontEndTypeOK
  <2>1. FrontEndTypeOK'
    BY <2>f DEF FrontEndTypeOK, RoundInv, PointInv, CopyInv, WorldInv
  <2>2. PointInv'
    BY DEF PointInv
  <2>3. RoundInv'
    BY DEF FrontEndTypeOK, RoundInv, PointInv
  <2>4. UpdateSound'
    BY DEF FrontEndTypeOK, RoundInv, PointInv, UpdateSound
  <2>5. NearestInv'
    BY DEF FrontEndTypeOK, NearestInv, Searched, RoundInv, PointInv
  <2>6. CopyInv'
    BY DEF FrontEndTypeOK, CopyInv, PointInv
  <2>7. WorldInv'
    BY DEF FrontEndTypeOK, WorldInv, PointInv
  <2>8. TreeInv'
    BY DEF FrontEndTypeOK, TreeInv, WorldInv, PointInv
  <2> QED
    BY <2>1, <2>2, <2>3, <2>4, <2>5, <2>6, <2>7, <2>8
<1>7. CASE RegisterVGICP
  <2> USE <1>7 DEF RegisterVGICP, Dispatch, Join, Shown, FilterOf
  <2> DEFINE ms == Shown \cup {"vgicp"}
             p == pose'["cur"]
  <2>a. ms \in SUBSET Maps /\ p \in World \cup {Mixed, Empty} /\ maps' = Fed(ms, p) /\ p # Empty
    BY DEF FrontEndTypeOK, PointInv
  <2> HIDE DEF ms, p
  <2>b. /\ maps' \in [Maps -> World \cup {Mixed, Empty}]
        /\ \A m \in Maps \ ms : maps'[m] = maps[m]
        /\ \A m \in ms : /\ maps[m] \in {Empty, p} => maps'[m] = p
                         /\ maps'[m] # Empty
    BY <2>a, FedIs DEF FrontEndInv
  <2>f. {viewer, imuInitialized, imuNeedInit, initMap, ekfInited, converge, selected, took, strayed}'
          \subseteq BOOLEAN
    BY Zenon DEF FrontEndTypeOK
  <2>1. FrontEndTypeOK'
    BY <2>f, <2>b DEF FrontEndTypeOK, RoundInv, PointInv, CopyInv, WorldInv
  <2>2. PointInv'
    BY DEF PointInv
  <2>3. RoundInv'
    BY DEF FrontEndTypeOK, RoundInv, PointInv
  <2>4. UpdateSound'
    BY DEF FrontEndTypeOK, RoundInv, PointInv, UpdateSound
  <2>5. NearestInv'
    BY DEF FrontEndTypeOK, NearestInv, Searched, RoundInv, PointInv
  <2>6. CopyInv'
    BY DEF FrontEndTypeOK, CopyInv, PointInv
  <2>7. WorldInv'
    BY <2>a, <2>b DEF FrontEndTypeOK, WorldInv, PointInv, ms, p
  <2>8. TreeInv'
    BY <2>a, <2>b DEF FrontEndTypeOK, TreeInv, WorldInv, PointInv, ms, p
  <2> QED
    BY <2>1, <2>2, <2>3, <2>4, <2>5, <2>6, <2>7, <2>8
<1>8. CASE IkfomRound
  <2> USE <1>8 DEF IkfomRound, Search, Searches, Correct, MayMatch, UpdateCovariance, NextRound
  <2>f. {viewer, imuInitialized, imuNeedInit, initMap, ekfInited, converge, selected, took, strayed}'
          \subseteq BOOLEAN
    BY Zenon DEF FrontEndTypeOK
  <2>1. FrontEndTypeOK'
    BY <2>f DEF FrontEndTypeOK, RoundInv, PointInv, CopyInv, WorldInv
  <2>2. PointInv'
    BY DEF PointInv
  <2>3. RoundInv'
    <3> SUFFICES ASSUME pc' = "round" PROVE RoundInv'
      BY DEF RoundInv
    <3>1. PICK small \in BOOLEAN :
            LET t == IF small THEN steps + 1 ELSE steps
            IN /\ steps' = t /\ iter # MaxIter - 1 /\ t <= 1
               /\ converge' = (small \/ (t = 0 /\ iter = MaxIter - 2))
               /\ covUpdates' = covUpdates
      BY DEF FrontEndTypeOK, RoundInv
    <3>2. /\ iter' = iter + 1 /\ moved' = moved + 1 /\ selected' = TRUE
          /\ searched' = IF method = "voxel" \/ converge THEN moved ELSE searched
          /\ handler' = handler /\ method' = method
      OBVIOUS
    <3>3. /\ iter \in -1 .. MaxIter - 2 /\ iter' \in -1 .. MaxIter - 1 /\ iter' > -1
          /\ covUpdates' = 0
          /\ moved' <= iter' + 1 /\ moved' > 0 /\ steps' <= moved' /\ steps' <= 1
      BY <3>1, <3>2 DEF FrontEndTypeOK, RoundInv
    <3>4. searched' >= 0 /\ searched' <= moved'
      BY <3>2 DEF FrontEndTypeOK, RoundInv
    <3>5. CASE small
      <4>1. converge' = TRUE
        BY <3>1, <3>5
      <4> QED
        BY <3>2, <3>3, <3>4, <4>1 DEF RoundInv
    <3>6. CASE ~small
      <4>1. steps' = steps /\ (steps = 0 /\ iter = MaxIter - 2 => converge')
        BY <3>1, <3>6 DEF FrontEndTypeOK
      <4>2. steps >= 1 => searched' >= 1
        BY <3>2 DEF FrontEndTypeOK, RoundInv
      <4> QED
        BY <3>2, <3>3, <3>4, <4>1, <4>2 DEF RoundInv, FrontEndTypeOK
    <3> QED
      BY <3>5, <3>6
  <2>4. UpdateSound'
    BY DEF FrontEndTypeOK, RoundInv, PointInv, UpdateSound
  <2>5. NearestInv'
    BY DEF FrontEndTypeOK, NearestInv, Searched, RoundInv, PointInv
  <2>6. CopyInv'
    BY DEF FrontEndTypeOK, CopyInv, PointInv
  <2>7. WorldInv'
    BY DEF FrontEndTypeOK, WorldInv, PointInv
  <2>8. TreeInv'
    BY DEF FrontEndTypeOK, TreeInv, WorldInv, PointInv
  <2> QED
    BY <2>1, <2>2, <2>3, <2>4, <2>5, <2>6, <2>7, <2>8
<1>9. CASE IkfomNoMatch
  <2> USE <1>9 DEF IkfomNoMatch, Search, Searches, NextRound
  <2>f. {viewer, imuInitialized, imuNeedInit, initMap, ekfInited, converge, selected, took, strayed}'
          \subseteq BOOLEAN
    BY Zenon DEF FrontEndTypeOK
  <2>1. FrontEndTypeOK'
    BY <2>f DEF FrontEndTypeOK, RoundInv, PointInv, CopyInv, WorldInv
  <2>2. PointInv'
    BY DEF PointInv
  <2>3. RoundInv'
    BY DEF FrontEndTypeOK, RoundInv, PointInv
  <2>4. UpdateSound'
    BY DEF FrontEndTypeOK, RoundInv, PointInv, UpdateSound
  <2>5. NearestInv'
    BY DEF FrontEndTypeOK, NearestInv, Searched, RoundInv, PointInv
  <2>6. CopyInv'
    BY DEF FrontEndTypeOK, CopyInv, PointInv
  <2>7. WorldInv'
    BY DEF FrontEndTypeOK, WorldInv, PointInv
  <2>8. TreeInv'
    BY DEF FrontEndTypeOK, TreeInv, WorldInv, PointInv
  <2> QED
    BY <2>1, <2>2, <2>3, <2>4, <2>5, <2>6, <2>7, <2>8
<1>10. CASE EsikfKdRound
  <2> USE <1>10 DEF EsikfKdRound, Search, Searches, Correct, MayMatch, UpdateCovariance, NextRound, EsikfSteps
  <2>f. {viewer, imuInitialized, imuNeedInit, initMap, ekfInited, converge, selected, took, strayed}'
          \subseteq BOOLEAN
    <3>1. converge' \in BOOLEAN
      <4>1. converge' = (steps' > steps)
        OBVIOUS
      <4>2. CASE steps' > steps
        BY <4>1, <4>2
      <4>3. CASE ~(steps' > steps)
        BY <4>1, <4>3
      <4> QED
        BY <4>2, <4>3
    <3> QED
      BY <3>1, Zenon DEF FrontEndTypeOK
  <2>1. FrontEndTypeOK'
    BY <2>f DEF FrontEndTypeOK, RoundInv, PointInv, CopyInv, WorldInv
  <2>2. PointInv'
    BY DEF PointInv
  <2>3. RoundInv'
    BY DEF FrontEndTypeOK, RoundInv, PointInv
  <2>4. UpdateSound'
    BY DEF FrontEndTypeOK, RoundInv, PointInv, UpdateSound
  <2>5. NearestInv'
    BY DEF FrontEndTypeOK, NearestInv, Searched, RoundInv, PointInv
  <2>6. CopyInv'
    BY DEF FrontEndTypeOK, CopyInv, PointInv
  <2>7. WorldInv'
    BY DEF FrontEndTypeOK, WorldInv, PointInv
  <2>8. TreeInv'
    BY DEF FrontEndTypeOK, TreeInv, WorldInv, PointInv
  <2> QED
    BY <2>1, <2>2, <2>3, <2>4, <2>5, <2>6, <2>7, <2>8
<1>11. CASE EsikfNoMatch
  <2> USE <1>11 DEF EsikfNoMatch, Search, Searches
  <2>f. {viewer, imuInitialized, imuNeedInit, initMap, ekfInited, converge, selected, took, strayed}'
          \subseteq BOOLEAN
    BY Zenon DEF FrontEndTypeOK
  <2>1. FrontEndTypeOK'
    BY <2>f DEF FrontEndTypeOK, RoundInv, PointInv, CopyInv, WorldInv
  <2>2. PointInv'
    BY DEF PointInv
  <2>3. RoundInv'
    BY DEF FrontEndTypeOK, RoundInv, PointInv
  <2>4. UpdateSound'
    BY DEF FrontEndTypeOK, RoundInv, PointInv, UpdateSound
  <2>5. NearestInv'
    BY DEF FrontEndTypeOK, NearestInv, Searched, RoundInv, PointInv
  <2>6. CopyInv'
    BY DEF FrontEndTypeOK, CopyInv, PointInv
  <2>7. WorldInv'
    BY DEF FrontEndTypeOK, WorldInv, PointInv
  <2>8. TreeInv'
    BY DEF FrontEndTypeOK, TreeInv, WorldInv, PointInv
  <2> QED
    BY <2>1, <2>2, <2>3, <2>4, <2>5, <2>6, <2>7, <2>8
<1>12. CASE EsikfVoxelRound
  <2> USE <1>12 DEF EsikfVoxelRound, Search, Searches, UpdateCovariance, NextRound, EsikfSteps,
             Join
  <2> DEFINE ms == IF pc' = "calib" THEN {"voxel"} ELSE {}
             p == pose["cur"]
  <2>a. ms \in SUBSET Maps /\ p \in World \cup {Mixed, Empty} /\ maps' = Fed(ms, p) /\ p # Empty
    BY DEF FrontEndTypeOK, PointInv
  <2> HIDE DEF ms, p
  <2>b. /\ maps' \in [Maps -> World \cup {Mixed, Empty}]
        /\ \A m \in Maps \ ms : maps'[m] = maps[m]
        /\ \A m \in ms : /\ maps[m] \in {Empty, p} => maps'[m] = p
                         /\ maps'[m] # Empty
    BY <2>a, FedIs DEF FrontEndInv
  <2>f. {viewer, imuInitialized, imuNeedInit, initMap, ekfInited, converge, selected, took, strayed}'
          \subseteq BOOLEAN
    BY Zenon DEF FrontEndTypeOK
  <2>1. FrontEndTypeOK'
    BY <2>f, <2>b DEF FrontEndTypeOK, RoundInv, PointInv, CopyInv, WorldInv
  <2>2. PointInv'
    BY DEF PointInv
  <2>3. RoundInv'
    BY DEF FrontEndTypeOK, RoundInv, PointInv
  <2>4. UpdateSound'
    BY DEF FrontEndTypeOK, RoundInv, PointInv, UpdateSound
  <2>5. NearestInv'
    BY DEF FrontEndTypeOK, NearestInv, Searched, RoundInv, PointInv
  <2>6. CopyInv'
    BY DEF FrontEndTypeOK, CopyInv, PointInv
  <2>7. WorldInv'
    BY <2>a, <2>b DEF FrontEndTypeOK, WorldInv, PointInv, ms, p
  <2>8. TreeInv'
    BY <2>a, <2>b DEF FrontEndTypeOK, TreeInv, WorldInv, PointInv, ms, p
  <2> QED
    BY <2>1, <2>2, <2>3, <2>4, <2>5, <2>6, <2>7, <2>8
<1>13. CASE NoCorrection
  <2> USE <1>13 DEF NoCorrection, AfterClosing, PoseGiven, FilterOf, Merge
  <2>f. {viewer, imuInitialized, imuNeedInit, initMap, ekfInited, converge, selected, took, strayed}'
          \subseteq BOOLEAN
    BY Zenon DEF FrontEndTypeOK
  <2>1. FrontEndTypeOK'
    BY <2>f DEF FrontEndTypeOK, RoundInv, PointInv, CopyInv, WorldInv
  <2>2. PointInv'
    BY DEF PointInv
  <2>3. RoundInv'
    BY DEF FrontEndTypeOK, RoundInv, PointInv
  <2>4. UpdateSound'
    BY DEF FrontEndTypeOK, RoundInv, PointInv, UpdateSound
  <2>5. NearestInv'
    BY DEF FrontEndTypeOK, NearestInv, Searched, RoundInv, PointInv
  <2>6. CopyInv'
    BY DEF FrontEndTypeOK, CopyInv, PointInv
  <2>7. WorldInv'
    BY DEF FrontEndTypeOK, WorldInv, PointInv
  <2>8. TreeInv'
    BY DEF FrontEndTypeOK, TreeInv, WorldInv, PointInv
  <2> QED
    BY <2>1, <2>2, <2>3, <2>4, <2>5, <2>6, <2>7, <2>8
<1>14. CASE TakeCorrection
  <2> USE <1>14 DEF TakeCorrection, CorrectPose, Apply, FilterOf, PoseGiven, AfterClosing,
             CorrectedCopies, CorrectedMaps, Completed, Merge
  <2>f. {viewer, imuInitialized, imuNeedInit, initMap, ekfInited, converge, selected, took, strayed}'
          \subseteq BOOLEAN
    BY Zenon DEF FrontEndTypeOK
  <2>1. FrontEndTypeOK'
    BY <2>f DEF FrontEndTypeOK, RoundInv, PointInv, CopyInv, WorldInv
  <2>2. PointInv'
    BY DEF PointInv
  <2>3. RoundInv'
    BY DEF FrontEndTypeOK, RoundInv, PointInv
  <2>4. UpdateSound'
    BY DEF FrontEndTypeOK, RoundInv, PointInv, UpdateSound
  <2>5. NearestInv'
    BY DEF FrontEndTypeOK, NearestInv, Searched, RoundInv, PointInv
  <2>6. CopyInv'
    BY DEF FrontEndTypeOK, CopyInv, PointInv
  <2>7. WorldInv'
    <3>1. CASE handler = "ikfom" /\ ~strayed
      <4>1. frames \in World /\ pose["kf"] = frames
        BY <3>1 DEF FrontEndTypeOK, WorldInv
      <4>2. frames' = frames + 1 /\ pose'["kf"] = frames + 1 /\ pose'["cur"] = pose["cur"]
        <5>1. FilterOf(handler) = "kf" /\ pose["kf"] # Mixed
          BY <3>1, <4>1
        <5>2. pose' = [pose EXCEPT !["kf"] = frames + 1]
          BY <5>1, <4>1
        <5>3. frames' = frames + 1
          BY <5>1, <4>1
        <5> QED
          BY <5>2, <5>3 DEF FrontEndTypeOK
      <4>3. maps' = [m \in Maps |-> IF m = "vgicp" \/ maps[m] = Empty THEN maps[m] ELSE frames + 1]
        BY <3>1, <4>1
      <4>4. pc' = "insert"
        BY <3>1
      <4> QED
        BY <3>1, <4>1, <4>2, <4>3, <4>4 DEF FrontEndTypeOK, WorldInv, PointInv
    <3>2. CASE ~(handler = "ikfom" /\ ~strayed)
      <4>1. strayed'
        BY <3>2
      <4> QED
        BY <3>2, <4>1 DEF FrontEndTypeOK, WorldInv, PointInv
    <3> QED
      BY <3>1, <3>2
  <2>8. TreeInv'
    BY DEF FrontEndTypeOK, TreeInv, WorldInv, PointInv
  <2> QED
    BY <2>1, <2>2, <2>3, <2>4, <2>5, <2>6, <2>7, <2>8
<1>15. CASE CalibAndRefineLI
  <2> USE <1>15 DEF CalibAndRefineLI
  <2>f. {viewer, imuInitialized, imuNeedInit, initMap, ekfInited, converge, selected, took, strayed}'
          \subseteq BOOLEAN
    BY Zenon DEF FrontEndTypeOK
  <2>1. FrontEndTypeOK'
    BY <2>f DEF FrontEndTypeOK, RoundInv, PointInv, CopyInv, WorldInv
  <2>2. PointInv'
    BY DEF PointInv
  <2>3. RoundInv'
    BY DEF FrontEndTypeOK, RoundInv, PointInv
  <2>4. UpdateSound'
    BY DEF FrontEndTypeOK, RoundInv, PointInv, UpdateSound
  <2>5. NearestInv'
    BY DEF FrontEndTypeOK, NearestInv, Searched, RoundInv, PointInv
  <2>6. CopyInv'
    BY DEF FrontEndTypeOK, CopyInv, PointInv
  <2>7. WorldInv'
    BY DEF FrontEndTypeOK, WorldInv, PointInv
  <2>8. TreeInv'
    BY DEF FrontEndTypeOK, TreeInv, WorldInv, PointInv
  <2> QED
    BY <2>1, <2>2, <2>3, <2>4, <2>5, <2>6, <2>7, <2>8
<1>16. CASE InsertScan
  <2> USE <1>16 DEF InsertScan, PoseGiven, Join, Shown, FilterOf
  <2> DEFINE ms == IF handler = "esikf" /\ method = "voxel" THEN Shown ELSE Shown \cup {method}
             p == PoseGiven
  <2>a. ms \in SUBSET Maps /\ p \in World \cup {Mixed, Empty} /\ maps' = Fed(ms, p) /\ p # Empty
    BY DEF FrontEndTypeOK, PointInv
  <2> HIDE DEF ms, p
  <2>b. /\ maps' \in [Maps -> World \cup {Mixed, Empty}]
        /\ \A m \in Maps \ ms : maps'[m] = maps[m]
        /\ \A m \in ms : /\ maps[m] \in {Empty, p} => maps'[m] = p
                         /\ maps'[m] # Empty
    BY <2>a, FedIs DEF FrontEndInv
  <2>f. {viewer, imuInitialized, imuNeedInit, initMap, ekfInited, converge, selected, took, strayed}'
          \subseteq BOOLEAN
    BY Zenon DEF FrontEndTypeOK
  <2>1. FrontEndTypeOK'
    BY <2>f, <2>b DEF FrontEndTypeOK, RoundInv, PointInv, CopyInv, WorldInv
  <2>2. PointInv'
    BY DEF PointInv
  <2>3. RoundInv'
    BY DEF FrontEndTypeOK, RoundInv, PointInv
  <2>4. UpdateSound'
    BY DEF FrontEndTypeOK, RoundInv, PointInv, UpdateSound
  <2>5. NearestInv'
    BY DEF FrontEndTypeOK, NearestInv, Searched, RoundInv, PointInv
  <2>6. CopyInv'
    BY DEF FrontEndTypeOK, CopyInv, PointInv
  <2>7. WorldInv'
    BY <2>a, <2>b DEF FrontEndTypeOK, WorldInv, PointInv, ms, p
  <2>8. TreeInv'
    BY <2>a, <2>b DEF FrontEndTypeOK, TreeInv, WorldInv, PointInv, ms, p
  <2> QED
    BY <2>1, <2>2, <2>3, <2>4, <2>5, <2>6, <2>7, <2>8
<1>17. CASE Publish
  <2> USE <1>17 DEF Publish, Fed, Merge, FilterOf
  <2>f. {viewer, imuInitialized, imuNeedInit, initMap, ekfInited, converge, selected, took, strayed}'
          \subseteq BOOLEAN
    BY Zenon DEF FrontEndTypeOK
  <2>1. FrontEndTypeOK'
    BY <2>f DEF FrontEndTypeOK, RoundInv, PointInv, CopyInv, WorldInv
  <2>2. PointInv'
    BY DEF PointInv
  <2>3. RoundInv'
    BY DEF FrontEndTypeOK, RoundInv, PointInv
  <2>4. UpdateSound'
    BY DEF FrontEndTypeOK, RoundInv, PointInv, UpdateSound
  <2>5. NearestInv'
    BY DEF FrontEndTypeOK, NearestInv, Searched, RoundInv, PointInv
  <2>6. CopyInv'
    BY DEF FrontEndTypeOK, CopyInv, PointInv
  <2>7. WorldInv'
    <3>1. CASE strayed
      BY <3>1 DEF WorldInv
    <3>2. CASE ~strayed
      <4>1. maps' = maps \/ maps' = [maps EXCEPT !["kd"] = Merge(maps["kd"], cloud)]
              \/ \E f \in Filter : /\ pose[f] = frames /\ maps["kd"] = Empty
                                   /\ maps' = [maps EXCEPT !["kd"] = Merge(maps["kd"], pose[f])]
        BY <3>2 DEF FrontEndTypeOK, WorldInv, TreeInv
      <4>2. maps'["kd"] \in {Empty, frames} /\ maps'["voxel"] = maps["voxel"]
              /\ maps'["vgicp"] = maps["vgicp"]
        BY <3>2, <4>1 DEF FrontEndTypeOK, WorldInv
      <4> QED
        BY <3>2, <4>2 DEF WorldInv
    <3> QED
      BY <3>1, <3>2
  <2>8. TreeInv'
    BY DEF FrontEndTypeOK, TreeInv, WorldInv, PointInv
  <2> QED
    BY <2>1, <2>2, <2>3, <2>4, <2>5, <2>6, <2>7, <2>8
<1> QED
  BY <1>u, <1>1, <1>2, <1>3, <1>4, <1>5, <1>6, <1>7, <1>8, <1>9, <1>10, <1>11, <1>12, <1>13, <1>14, <1>15, <1>16, <1>17
  DEF FrontEndNext, Done

-----------------------------------------------------------------------------
(* The theorems.                                                           *)

(* The invariant holds of every state of the front end. *)
THEOREM FrontEndInvariance == FrontEndSpec => []FrontEndInv
<1> QED
  BY FrontEndInitially, FrontEndInductive, PTL DEF FrontEndSpec

(* The types, for any number of rounds, scans and corrections. *)
THEOREM FrontEndTypeCorrect == FrontEndSpec => []FrontEndTypeOK
<1>1. FrontEndInv => FrontEndTypeOK
  BY DEF FrontEndInv
<1> QED
  BY <1>1, FrontEndInvariance, PTL

(* An update ends with a rematch and one reduction of the covariance or is
   given up, with any number of rounds (the programs configure five). *)
THEOREM UpdatesSound == FrontEndSpec => []UpdateSound
<1>1. FrontEndInv => UpdateSound
  BY DEF FrontEndInv
<1> QED
  BY <1>1, FrontEndInvariance, PTL

(* A scan joins the map it was matched to, and once, or twice with a
   correction in between; _kf, the frames and both maps stay in one world until
   a scan without IMU samples takes a correction or comes after one. *)
THEOREM Joins == FrontEndSpec => []ScanJoinsMap
<1>1. ASSUME FrontEndInv PROVE ScanJoinsMap
  <2>1. pc = "mapped" /\ handler = "ikfom" /\ searched >= 0 =>
          copies \in 1 .. IF took THEN 2 ELSE 1
    BY <1>1 DEF FrontEndInv, CopyInv
  <2>2. pc = "insert" /\ method = "kd" =>
          nearest.scan = scan /\ (nearest.world = maps["kd"] \/ took)
    BY <1>1 DEF FrontEndInv, NearestInv, Searched
  <2>3. ~strayed => /\ pose["kf"] = frames /\ frames # Mixed
                   /\ {maps["kd"], maps["voxel"]} \subseteq {Empty, frames}
    <3>1. \A w \in World : w # Mixed
      BY FrontEndAssumption DEF World, Mixed
    <3> QED
      BY <1>1, <3>1 DEF FrontEndInv, WorldInv
  <2> QED
    BY <2>1, <2>2, <2>3 DEF ScanJoinsMap
<1> QED
  BY <1>1, FrontEndInvariance, PTL

(***************************************************************************)
(* OCTREE                                                                  *)
(***************************************************************************)

(* The inductive invariant.                                                *)

\* A node above another has been fit, is no plane and holds nothing.
Divided(r) == r.init /\ ~r.isPlane /\ r.temp = NoPoints /\ r.new = 0

AboveDivided ==
  \A n \in DOMAIN tree : \A a \in Node : Above(a, n) => Exists(a) /\ Divided(tree[a])

\* What the counters of a node count has been received.
Record ==
  [temp : [Point -> Nat], new : Nat, newNum : Nat, allNum : Nat, init : BOOLEAN,
   isPlane : BOOLEAN, fitted : Nat, updCov : BOOLEAN, upd : BOOLEAN]

Counted(r, k) ==
  /\ Size(r.temp) + r.new <= k
  /\ r.fitted + r.new <= k
  /\ r.newNum <= k /\ r.allNum <= k
  /\ r.updCov => r.new = 0
  /\ r.isPlane => r.init
  /\ ~r.init => r.new = 0

\* The plane of a node that keeps its points lags behind as LagBounded has it.
Lags(n, r) ==
  r.init /\ r.updCov /\ (r.isPlane \/ Layer(n) = MaxLayers) =>
    Size(r.temp) = r.fitted + r.newNum /\ r.newNum <= UpdateSize

\* A node's record, with k points received.
Sound(n, r, k) ==
  r \in Record /\ r.temp = Inside(r.temp, n) /\ Counted(r, k) /\ Lags(n, r)

IInv ==
  /\ covLimit \in CovLimits /\ received \in 0 .. MaxReceived
  /\ DOMAIN tree \subseteq Node
  /\ \A n \in DOMAIN tree : Sound(n, tree[n], received)
  /\ AboveDivided
  /\ Exists(Root) \/ received = 0
  /\ PointsHeldOnce

-----------------------------------------------------------------------------
(* Nodes and the points in them.                                           *)

LEMMA NodeIs ==
  ASSUME NEW n \in Node
  PROVE  n \in Seq(Octants) /\ Layer(n) \in 0 .. MaxLayers
<1>1. PICK l \in 0 .. MaxLayers : n \in [1 .. l -> Octants]
  BY DEF Node
<1>2. l \in Nat
  BY ConstantsAssumption
<1>3. n \in Seq(Octants) /\ Len(n) = l
  BY <1>1, <1>2
<1> QED
  BY <1>3 DEF Layer

LEMMA PointIs ==
  ASSUME NEW p \in Point
  PROVE  p \in Node /\ p \in Seq(Octants) /\ Layer(p) = MaxLayers
<1>1. MaxLayers \in 0 .. MaxLayers
  BY ConstantsAssumption
<1>2. p \in Node
  BY <1>1 DEF Point, Node
<1>3. Len(p) = MaxLayers /\ p \in Seq(Octants)
  BY ConstantsAssumption DEF Point
<1> QED
  BY <1>2, <1>3 DEF Layer

LEMMA TowardIs ==
  ASSUME NEW n \in Node, NEW l \in 0 .. Layer(n)
  PROVE  /\ Toward(n, l) \in Node /\ Layer(Toward(n, l)) = l
         /\ \A i \in 1 .. l : Toward(n, l)[i] = n[i]
<1>1. n \in Seq(Octants) /\ Len(n) \in 0 .. MaxLayers /\ l \in 0 .. Len(n)
  BY NodeIs DEF Layer
<1>2. l \in Nat /\ l <= Len(n) /\ l \in 0 .. MaxLayers /\ Len(n) \in Nat
  BY <1>1, ConstantsAssumption
<1>3. /\ SubSeq(n, 1, l) \in Seq(Octants) /\ Len(SubSeq(n, 1, l)) = l
      /\ \A i \in 1 .. l : SubSeq(n, 1, l)[i] = n[i]
  <2>1. \A i \in 1 .. l : n[i] \in Octants
    BY <1>1, <1>2
  <2>2. /\ SubSeq(n, 1, l) \in Seq(Octants)
        /\ Len(SubSeq(n, 1, l)) = IF 1 <= l THEN l - 1 + 1 ELSE 0
        /\ \A i \in 1 .. l - 1 + 1 : SubSeq(n, 1, l)[i] = n[1 + i - 1]
    BY <1>2, <2>1, SubSeqProperties
  <2> QED
    BY <1>2, <2>2
<1>4. SubSeq(n, 1, l) \in [1 .. l -> Octants]
  BY <1>3, LenProperties
<1> QED
  BY <1>2, <1>3, <1>4 DEF Toward, Node, Layer

\* Two nodes are the same when they have the same octants.
LEMMA NodeEqual ==
  ASSUME NEW a \in Node, NEW b \in Node, Layer(a) = Layer(b),
         \A i \in 1 .. Layer(a) : a[i] = b[i]
  PROVE  a = b
<1>1. a \in Seq(Octants) /\ b \in Seq(Octants) /\ Len(a) = Len(b)
  BY NodeIs DEF Layer
<1> QED
  BY <1>1 DEF Layer

LEMMA AboveIs ==
  ASSUME NEW a \in Node, NEW d \in Node
  PROVE  Above(a, d) <=> Layer(a) < Layer(d) /\ \A i \in 1 .. Layer(a) : a[i] = d[i]
<1>1. Layer(a) \in Nat /\ Layer(d) \in Nat
  BY NodeIs, ConstantsAssumption
<1>2. ASSUME Layer(a) < Layer(d)
      PROVE  Toward(d, Layer(a)) = a <=> \A i \in 1 .. Layer(a) : a[i] = d[i]
  <2>1. Layer(a) \in 0 .. Layer(d)
    BY <1>1, <1>2
  <2> QED
    BY <2>1, TowardIs, NodeEqual
<1> QED
  BY <1>2 DEF Above

\* p lies in n when n is the node of its layer on the way to p.
In(p, n) == Toward(p, Layer(n)) = n

LEMMA InIs ==
  ASSUME NEW p \in Node, NEW n \in Node, Layer(n) <= Layer(p)
  PROVE  In(p, n) <=> \A i \in 1 .. Layer(n) : n[i] = p[i]
<1>1. Layer(n) \in 0 .. Layer(p)
  BY NodeIs, ConstantsAssumption
<1> QED
  BY <1>1, TowardIs, NodeEqual DEF In

\* The nodes above a node are on one line, and so are the nodes of a point.
LEMMA OneLine ==
  ASSUME NEW a \in Node, NEW b \in Node, NEW p \in Node,
         Layer(a) <= Layer(p), Layer(b) <= Layer(p), In(p, a), In(p, b)
  PROVE  a = b \/ Above(a, b) \/ Above(b, a)
<1>1. Layer(a) \in Nat /\ Layer(b) \in Nat
  BY NodeIs, ConstantsAssumption
<1>2. (\A i \in 1 .. Layer(a) : a[i] = p[i]) /\ \A i \in 1 .. Layer(b) : b[i] = p[i]
  BY InIs
<1>3. CASE Layer(a) = Layer(b)
  BY <1>1, <1>2, <1>3, NodeEqual
<1>4. CASE Layer(a) < Layer(b)
  BY <1>1, <1>2, <1>4, AboveIs
<1>5. CASE Layer(b) < Layer(a)
  BY <1>1, <1>2, <1>5, AboveIs
<1> QED
  BY <1>1, <1>3, <1>4, <1>5

LEMMA AboveLine ==
  ASSUME NEW a \in Node, NEW b \in Node, NEW d \in Node, Above(a, d), Above(b, d)
  PROVE  a = b \/ Above(a, b) \/ Above(b, a)
<1>1. Layer(a) <= Layer(d) /\ Layer(b) <= Layer(d) /\ In(d, a) /\ In(d, b)
  BY NodeIs, ConstantsAssumption DEF Above, In
<1> QED
  BY <1>1, OneLine

LEMMA AboveTrans ==
  ASSUME NEW a \in Node, NEW b \in Node, NEW d \in Node, Above(a, b), Above(b, d)
  PROVE  Above(a, d)
<1>1. Layer(a) \in Nat /\ Layer(b) \in Nat /\ Layer(d) \in Nat
  BY NodeIs, ConstantsAssumption
<1> QED
  BY <1>1, AboveIs

LEMMA AboveIrreflexive ==
  ASSUME NEW a \in Node, NEW b \in Node, Above(a, b)
  PROVE  ~Above(b, a) /\ a # b
BY NodeIs, ConstantsAssumption DEF Above

\* A point of a node is one of every node above it.
LEMMA InAbove ==
  ASSUME NEW p \in Point, NEW a \in Node, NEW d \in Node, Above(a, d), In(p, d)
  PROVE  In(p, a)
<1>1. p \in Node /\ Layer(a) \in Nat /\ Layer(d) \in Nat /\ Layer(p) \in Nat
      /\ Layer(a) <= Layer(p) /\ Layer(d) <= Layer(p)
  BY NodeIs, PointIs, ConstantsAssumption
<1>2. Layer(a) < Layer(d)
  BY AboveIs
<1> QED
  BY <1>1, <1>2, AboveIs, InIs

LEMMA Pairs ==
  ASSUME NEW p \in Point, NEW a \in Node, NEW b \in Node, In(p, a), In(p, b)
  PROVE  a = b \/ Above(a, b) \/ Above(b, a)
<1>1. p \in Node /\ Layer(a) <= Layer(p) /\ Layer(b) <= Layer(p)
  BY NodeIs, PointIs, ConstantsAssumption
<1> QED
  BY <1>1, OneLine

-----------------------------------------------------------------------------
(* Lists of points and their sizes.                                        *)

\* There are finitely many functions from 1 .. n into a finite set: a
\* function is the set of its pairs.
LEMMA FiniteMaps ==
  ASSUME NEW n \in Nat, NEW S, IsFiniteSet(S)
  PROVE  IsFiniteSet([1 .. n -> S])
<1> DEFINE F == [1 .. n -> S]
           T == SUBSET ((1 .. n) \X S)
           G == [f \in F |-> {<<i, f[i]>> : i \in 1 .. n}]
<1>1. IsFiniteSet(T)
  <2>1. IsFiniteSet(1 .. n)
    BY FS_Interval
  <2> QED
    BY <2>1, FS_Product, FS_SUBSET
<1>2. G \in [F -> T]
  OBVIOUS
<1>3. ASSUME NEW f \in F, NEW g \in F, G[f] = G[g] PROVE f = g
  <2>1. ASSUME NEW i \in 1 .. n PROVE f[i] = g[i]
    <3>1. <<i, f[i]>> \in G[g]
      BY <1>3
    <3> QED
      BY <3>1
  <2> QED
    BY <2>1
<1>4. G \in Injection(F, T)
  BY <1>2, <1>3 DEF Injection, IsInjective
<1> HIDE DEF F, T, G
<1>5. IsFiniteSet(F)
  BY <1>1, <1>4, FS_Injection
<1> QED
  BY <1>5 DEF F

LEMMA FiniteNodes == IsFiniteSet(Point) /\ IsFiniteSet(Node)
<1>1. \A l \in Nat : IsFiniteSet([1 .. l -> Octants])
  BY FiniteMaps, ConstantsAssumption
<1>2. IsFiniteSet(0 .. MaxLayers)
  BY FS_Interval, ConstantsAssumption
<1> DEFINE L == [l \in 0 .. MaxLayers |-> [1 .. l -> Octants]]
           R == {[1 .. l -> Octants] : l \in 0 .. MaxLayers}
<1>3. L \in Surjection(0 .. MaxLayers, R)
  BY DEF Surjection
<1>4. \A T \in R : IsFiniteSet(T)
  BY <1>1, ConstantsAssumption
<1> HIDE DEF L, R
<1>5. IsFiniteSet(R)
  BY <1>2, <1>3, FS_Surjection
<1>6. IsFiniteSet(UNION R)
  BY <1>4, <1>5, FS_UNION
<1>7. IsFiniteSet(Node)
  BY <1>6 DEF Node, R
<1>8. IsFiniteSet(Point)
  BY <1>1, ConstantsAssumption DEF Point
<1> QED
  BY <1>7, <1>8

LEMMA CopiesIs ==
  ASSUME NEW P
  PROVE  \A c : c \in Copies(P) <=> \E p \in Point : \E i \in 1 .. P[p] : c = <<p, i>>
BY DEF Copies

\* A union of finitely many slices, one for every member of a finite set.
LEMMA FiniteSlices ==
  ASSUME NEW S, IsFiniteSet(S), NEW f, \A x \in S : IsFiniteSet(f[x])
  PROVE  IsFiniteSet(UNION {{x} \X f[x] : x \in S})
<1> DEFINE R == {{x} \X f[x] : x \in S}
           g == [x \in S |-> {x} \X f[x]]
<1>1. g \in Surjection(S, R)
  BY DEF Surjection
<1>2. ASSUME NEW x \in S PROVE IsFiniteSet({x} \X f[x])
  BY FS_Singleton, FS_Product
<1>3. \A T \in R : IsFiniteSet(T)
  BY <1>2
<1> HIDE DEF g
<1>4. IsFiniteSet(R)
  <2> HIDE DEF R
  <2> QED
    BY <1>1, FS_Surjection
<1> QED
  BY <1>3, <1>4, FS_UNION

LEMMA SizeNat ==
  ASSUME NEW P \in [Point -> Nat]
  PROVE  IsFiniteSet(Copies(P)) /\ Size(P) \in Nat
<1> DEFINE f == [p \in Point |-> 1 .. P[p]]
<1>1. \A p \in Point : IsFiniteSet(f[p])
  BY FS_Interval
<1>2. Copies(P) = UNION {{p} \X f[p] : p \in Point}
  BY DEF Copies
<1> HIDE DEF f
<1>3. IsFiniteSet(Copies(P))
  BY <1>1, <1>2, FiniteNodes, FiniteSlices
<1> QED
  BY <1>3, FS_CardinalityType DEF Size

LEMMA SizeLeq ==
  ASSUME NEW P \in [Point -> Nat], NEW Q \in [Point -> Nat], \A p \in Point : Q[p] <= P[p]
  PROVE  Copies(Q) \subseteq Copies(P) /\ Size(Q) <= Size(P)
<1>1. ASSUME NEW p \in Point, NEW i \in 1 .. Q[p] PROVE i \in 1 .. P[p]
  <2>1. Q[p] \in Nat /\ P[p] \in Nat /\ Q[p] <= P[p]
    OBVIOUS
  <2> QED
    BY <2>1
<1>2. Copies(Q) \subseteq Copies(P)
  BY <1>1 DEF Copies
<1> QED
  BY <1>2, SizeNat, FS_Subset DEF Size

LEMMA SizePoint ==
  ASSUME NEW P \in [Point -> Nat], NEW p \in Point
  PROVE  P[p] <= Size(P)
<1> DEFINE C == {p} \X (1 .. P[p])
<1>1. P[p] \in Nat
  OBVIOUS
<1>2. IsFiniteSet(1 .. P[p]) /\ Cardinality(1 .. P[p]) = P[p]
  BY <1>1, FS_Interval
<1>3. IsFiniteSet({p}) /\ Cardinality({p}) = 1
  BY FS_Singleton
<1>4. Cardinality(C) = 1 * P[p]
  BY <1>2, <1>3, FS_Product
<1>5. C \subseteq Copies(P)
  BY DEF Copies
<1>6. Cardinality(C) <= Size(P)
  BY <1>5, SizeNat, FS_Subset DEF Size
<1> QED
  BY <1>1, <1>4, <1>6

LEMMA SizeNone == NoPoints \in [Point -> Nat] /\ Copies(NoPoints) = {} /\ Size(NoPoints) = 0
<1>1. NoPoints \in [Point -> Nat]
  BY DEF NoPoints
<1>2. Copies(NoPoints) = {}
  BY DEF NoPoints, Copies
<1> QED
  BY <1>1, <1>2, FS_EmptySet DEF Size

LEMMA SizeWith ==
  ASSUME NEW P \in [Point -> Nat], NEW p \in Point
  PROVE  /\ With(P, p) \in [Point -> Nat]
         /\ Copies(With(P, p)) = Copies(P) \cup {<<p, P[p] + 1>>}
         /\ Size(With(P, p)) = Size(P) + 1
<1> DEFINE Q == With(P, p)
<1>1. Q \in [Point -> Nat] /\ Q[p] = P[p] + 1 /\ \A q \in Point \ {p} : Q[q] = P[q]
  BY DEF With
<1>2. P[p] \in Nat /\ 1 .. P[p] + 1 = (1 .. P[p]) \cup {P[p] + 1} /\ P[p] + 1 \notin 1 .. P[p]
  OBVIOUS
<1> HIDE DEF Q
<1>3. Copies(Q) = Copies(P) \cup {<<p, P[p] + 1>>}
  <2>1. ASSUME NEW q \in Point, NEW i \in 1 .. Q[q]
        PROVE  <<q, i>> \in Copies(P) \cup {<<p, P[p] + 1>>}
    <3>1. CASE q = p
      BY <1>1, <1>2, <3>1, CopiesIs
    <3>2. CASE q # p
      BY <1>1, <3>2, CopiesIs
    <3> QED
      BY <3>1, <3>2
  <2>2. ASSUME NEW q \in Point, NEW i \in 1 .. P[q] PROVE <<q, i>> \in Copies(Q)
    <3>1. CASE q = p
      BY <1>1, <1>2, <3>1, CopiesIs
    <3>2. CASE q # p
      BY <1>1, <3>2, CopiesIs
    <3> QED
      BY <3>1, <3>2
  <2>3. <<p, P[p] + 1>> \in Copies(Q)
    BY <1>1, <1>2, CopiesIs
  <2>4. Copies(Q) \subseteq Copies(P) \cup {<<p, P[p] + 1>>}
    BY <2>1, CopiesIs
  <2>5. Copies(P) \subseteq Copies(Q)
    BY <2>2, CopiesIs
  <2> QED
    BY <2>3, <2>4, <2>5
<1>4. <<p, P[p] + 1>> \notin Copies(P)
  BY <1>2, CopiesIs
<1>5. Size(Q) = Size(P) + 1
  BY <1>3, <1>4, SizeNat, FS_AddElement DEF Size
<1> QED
  BY <1>1, <1>3, <1>5 DEF Q

LEMMA InsideIs ==
  ASSUME NEW P \in [Point -> Nat], NEW n \in Node
  PROVE  /\ Inside(P, n) \in [Point -> Nat]
         /\ \A p \in Point : Inside(P, n)[p] = IF In(p, n) THEN P[p] ELSE 0
         /\ Inside(Inside(P, n), n) = Inside(P, n)
         /\ Size(Inside(P, n)) <= Size(P)
<1>1. /\ Inside(P, n) \in [Point -> Nat]
      /\ \A p \in Point : Inside(P, n)[p] = IF In(p, n) THEN P[p] ELSE 0
  BY DEF Inside, In
<1>2. Inside(Inside(P, n), n) = Inside(P, n)
  BY <1>1 DEF Inside, In
<1>3. \A p \in Point : Inside(P, n)[p] <= P[p]
  BY <1>1
<1> QED
  BY <1>1, <1>2, <1>3, SizeLeq

LEMMA InsideEmpty ==
  ASSUME NEW n \in Node
  PROVE  Inside(NoPoints, n) = NoPoints
BY DEF Inside, NoPoints

LEMMA InsideWith ==
  ASSUME NEW P \in [Point -> Nat], NEW n \in Node, NEW p \in Point,
         P = Inside(P, n), In(p, n)
  PROVE  With(P, p) = Inside(With(P, p), n)
<1>1. With(P, p) \in [Point -> Nat] /\ With(P, p)[p] = P[p] + 1
      /\ \A q \in Point \ {p} : With(P, p)[q] = P[q]
  BY DEF With
<1>2. \A q \in Point : ~In(q, n) => P[q] = 0
  BY InsideIs
<1>3. Inside(With(P, p), n) \in [Point -> Nat]
  BY <1>1, InsideIs
<1>4. ASSUME NEW q \in Point PROVE Inside(With(P, p), n)[q] = With(P, p)[q]
  BY <1>1, <1>2, InsideIs
<1> QED
  BY <1>1, <1>3, <1>4

\* A node has the points of those below it.
LEMMA InsideBelow ==
  ASSUME NEW P \in [Point -> Nat], NEW a \in Node, NEW d \in Node, Above(a, d)
  PROVE  Size(Inside(P, d)) <= Size(Inside(P, a))
<1>1. \A p \in Point : In(p, d) => In(p, a)
  BY InAbove
<1>2. \A p \in Point : Inside(P, d)[p] <= Inside(P, a)[p]
  BY <1>1, InsideIs
<1> QED
  BY <1>2, InsideIs, SizeLeq

-----------------------------------------------------------------------------
(* The node that takes a point.                                            *)

LEMMA LeastOf ==
  ASSUME NEW K \in SUBSET Nat, K # {}
  PROVE  \E k \in K : \A j \in K : k <= j
<1>1. PICK k \in K : \A j \in K : ~(<<j, k>> \in OpToRel(<, Nat))
  BY NatLessThanWellFounded, WFMin
<1>2. \A j \in Nat : j < k => <<j, k>> \in OpToRel(<, Nat)
  BY DEF OpToRel
<1>3. ASSUME NEW j \in K PROVE k <= j
  <2>1. ~(j < k)
    BY <1>1, <1>2
  <2> QED
    BY <2>1
<1> QED
  BY <1>3

\* Every node the point comes to before the recipient passes it on, the
\* recipient does not.
LEMMA RecipientIs ==
  ASSUME NEW p \in Point
  PROVE  /\ Recipient(p) \in Node /\ In(p, Recipient(p)) /\ ~PassesOn(Recipient(p))
         /\ \A a \in Node : Above(a, Recipient(p)) => PassesOn(a)
<1> DEFINE K == {l \in 0 .. MaxLayers : ~PassesOn(Toward(p, l))}
<1>1. p \in Node /\ Layer(p) = MaxLayers /\ MaxLayers \in Nat
  BY PointIs, ConstantsAssumption
<1>2. \A l \in 0 .. MaxLayers : Toward(p, l) \in Node /\ Layer(Toward(p, l)) = l
  BY <1>1, TowardIs
<1>3. MaxLayers \in K
  <2>1. Layer(Toward(p, MaxLayers)) = MaxLayers /\ MaxLayers \in 0 .. MaxLayers
    BY <1>1, <1>2
  <2> QED
    BY <2>1 DEF PassesOn, Holds
<1>4. PICK k \in K : \A j \in K : k <= j
  <2>1. K \in SUBSET Nat /\ K # {}
    BY <1>1, <1>3
  <2> HIDE DEF K
  <2> QED
    BY <2>1, LeastOf
<1> DEFINE Takes(n) == ~PassesOn(n) /\ \A l \in 0 .. Layer(n) - 1 : PassesOn(Toward(p, l))
           L == {Toward(p, l) : l \in 0 .. MaxLayers}
           m == Toward(p, k)
<1>5. m \in L /\ Takes(m)
  <2>1. Layer(m) = k /\ k \in Nat
    BY <1>1, <1>2
  <2>2. ASSUME NEW l \in 0 .. k - 1 PROVE PassesOn(Toward(p, l))
    <3>1. l \in 0 .. MaxLayers /\ ~(k <= l)
      BY <1>1, <1>4, <2>1
    <3> QED
      BY <1>4, <3>1
  <2> QED
    BY <2>1, <2>2
<1> DEFINE n == Recipient(p)
<1>6. n = CHOOSE x \in L : Takes(x)
  BY DEF Recipient
<1> HIDE DEF Takes, L, n
<1>7. n \in L /\ Takes(n)
  BY <1>5, <1>6
<1>8. PICK l \in 0 .. MaxLayers : n = Toward(p, l)
  BY <1>7 DEF L
<1>9. n \in Node /\ Layer(n) = l /\ In(p, n)
  BY <1>2, <1>8 DEF In
<1>10. ASSUME NEW a \in Node, Above(a, n) PROVE PassesOn(a)
  <2>1. Layer(a) < l /\ Layer(a) \in Nat /\ l \in Nat
    BY <1>1, <1>9, <1>10, NodeIs DEF Above
  <2>2. Layer(a) \in 0 .. l - 1 /\ Layer(a) \in 0 .. MaxLayers /\ Layer(n) <= Layer(p)
    BY <1>1, <1>9, <2>1
  <2>3. \A i \in 1 .. Layer(a) : a[i] = p[i]
    BY <1>1, <1>9, <1>10, <2>1, <2>2, AboveIs, InIs
  <2>4. In(p, a)
    BY <1>1, <2>2, <2>3, InIs
  <2>5. PassesOn(Toward(p, Layer(a)))
    BY <1>7, <1>9, <2>2 DEF Takes
  <2> QED
    BY <2>4, <2>5 DEF In
<1> QED
  BY <1>7, <1>9, <1>10 DEF Takes, n

\* There is nothing below a node that does not pass points on.
LEMMA NothingBelow ==
  ASSUME IInv, NEW n \in Node, ~PassesOn(n), NEW d \in DOMAIN tree
  PROVE  ~Above(n, d)
<1> SUFFICES ASSUME Above(n, d) PROVE FALSE
  OBVIOUS
<1>1. d \in Node /\ Exists(n) /\ Divided(tree[n])
  BY DEF IInv, AboveDivided
<1>2. Layer(n) # MaxLayers
  BY <1>1, NodeIs, ConstantsAssumption DEF Above
<1> QED
  BY <1>1, <1>2 DEF PassesOn, Holds, Divided

LEMMA PassedIs ==
  ASSUME NEW n
  PROVE  /\ DOMAIN Passed(n) = DOMAIN tree
         /\ \A d \in DOMAIN tree :
              Passed(n)[d] = IF Above(d, n) THEN [tree[d] EXCEPT !.temp = NoPoints, !.new = 0]
                             ELSE tree[d]
BY DEF Passed

LEMMA PassedFields ==
  ASSUME IInv, NEW n, NEW d \in DOMAIN tree
  PROVE  /\ Passed(n)[d] \in Record
         /\ Passed(n)[d].init = tree[d].init /\ Passed(n)[d].isPlane = tree[d].isPlane
         /\ Passed(n)[d].fitted = tree[d].fitted /\ Passed(n)[d].newNum = tree[d].newNum
         /\ Passed(n)[d].allNum = tree[d].allNum
         /\ Passed(n)[d].updCov = tree[d].updCov /\ Passed(n)[d].upd = tree[d].upd
         /\ Passed(n)[d].temp = (IF Above(d, n) THEN NoPoints ELSE tree[d].temp)
         /\ Passed(n)[d].new = (IF Above(d, n) THEN 0 ELSE tree[d].new)
<1>1. tree[d] \in Record
  BY DEF IInv, Sound
<1>2. NoPoints \in [Point -> Nat]
  BY SizeNone
<1>3. CASE Above(d, n)
  <2> DEFINE s == tree[d]
             r == [s EXCEPT !.temp = NoPoints, !.new = 0]
  <2>1. Passed(n)[d] = r
    BY <1>3, PassedIs
  <2>2. s \in Record
    BY <1>1
  <2> HIDE DEF s
  <2>3. r \in Record
    BY <1>2, <2>2 DEF Record
  <2>4. /\ r.init = s.init /\ r.isPlane = s.isPlane /\ r.fitted = s.fitted
        /\ r.newNum = s.newNum /\ r.allNum = s.allNum /\ r.updCov = s.updCov
        /\ r.upd = s.upd /\ r.temp = NoPoints /\ r.new = 0
    BY <2>2 DEF Record
  <2> HIDE DEF r
  <2> QED
    BY <1>3, <2>1, <2>3, <2>4 DEF s
<1>4. CASE ~Above(d, n)
  BY <1>1, <1>4, PassedIs
<1> QED
  BY <1>3, <1>4

\* What a record counts stays below the points received.
LEMMA SoundMore ==
  ASSUME NEW n, NEW r, NEW j \in Nat, NEW k \in Nat, j <= k, Sound(n, r, j)
  PROVE  Sound(n, r, k)
<1>1. /\ Size(r.temp) + r.new <= j /\ r.fitted + r.new <= j
      /\ r.newNum <= j /\ r.allNum <= j
      /\ r.fitted \in Nat /\ r.new \in Nat /\ r.newNum \in Nat /\ r.allNum \in Nat
      /\ r.temp \in [Point -> Nat]
  BY DEF Sound, Counted, Record
<1>2. Size(r.temp) \in Nat
  BY <1>1, SizeNat
<1>3. /\ Size(r.temp) + r.new <= k /\ r.fitted + r.new <= k
      /\ r.newNum <= k /\ r.allNum <= k
  BY <1>1, <1>2
<1>4. Counted(r, k)
  BY <1>3 DEF Counted, Sound
<1> QED
  BY <1>4 DEF Sound

\* A node stays sound while points are received elsewhere, also when it has
\* passed them on.
LEMMA StaysSound ==
  ASSUME IInv, NEW n \in Node, NEW k \in Nat, received <= k, NEW d \in DOMAIN tree,
         \A a \in Node : Above(a, n) => PassesOn(a)
  PROVE  Sound(d, Passed(n)[d], k)
<1> DEFINE s == tree[d]
           r == Passed(n)[d]
<1>1. Sound(d, s, received) /\ d \in Node /\ received \in Nat
  BY ConstantsAssumption DEF IInv
<1>2. CASE Above(d, n)
  <2>1. s.init /\ ~s.isPlane /\ Layer(d) # MaxLayers
    BY <1>1, <1>2 DEF PassesOn, Holds
  <2>2. /\ r \in Record /\ r.init = s.init /\ r.isPlane = s.isPlane /\ r.fitted = s.fitted
        /\ r.newNum = s.newNum /\ r.allNum = s.allNum /\ r.temp = NoPoints /\ r.new = 0
    BY <1>2, PassedFields
  <2>3. s.fitted + s.new <= received /\ s.newNum <= received /\ s.allNum <= received
        /\ s.fitted \in Nat /\ s.new \in Nat /\ s.newNum \in Nat /\ s.allNum \in Nat
    BY <1>1 DEF Sound, Counted, Record
  <2>4. /\ Size(r.temp) + r.new <= k /\ r.fitted + r.new <= k
        /\ r.newNum <= k /\ r.allNum <= k
    <3> HIDE DEF s, r
    <3> QED
      BY <1>1, <2>2, <2>3, SizeNone
  <2>5. Counted(r, k)
    <3> HIDE DEF s, r
    <3> QED
      BY <2>1, <2>2, <2>4 DEF Counted
  <2>6. Lags(d, r)
    <3> HIDE DEF s, r
    <3> QED
      BY <2>1, <2>2 DEF Lags
  <2>7. r.temp = Inside(r.temp, d)
    <3> HIDE DEF s, r
    <3> QED
      BY <1>1, <2>2, InsideEmpty
  <2> QED
    BY <2>2, <2>5, <2>6, <2>7 DEF Sound
<1>3. CASE ~Above(d, n)
  <2>1. r = s
    BY <1>3, PassedIs
  <2> QED
    BY <1>1, <2>1, SoundMore
<1> QED
  BY <1>2, <1>3

-----------------------------------------------------------------------------
(* What a step makes of the recipient n: its record r, and new nodes f     *)
(* below it.                                                               *)

Grown(n, r, f, k) ==
  /\ Sound(n, r, k)
  /\ \A d \in DOMAIN f : d \in Node /\ Above(n, d) /\ Sound(d, f[d], k)
  /\ DOMAIN f # {} => Divided(r)
  /\ \A d \in DOMAIN f : \A a \in Node :
       Above(n, a) /\ Above(a, d) => a \in DOMAIN f /\ Divided(f[a])

\* The lists of r and f hold points of P only, each in its own space.
Moved(r, f, P) ==
  /\ \A q \in Point : r.temp[q] <= P[q]
  /\ \A d \in DOMAIN f : f[d].new = 0 /\ \A q \in Point : f[d].temp[q] <= Inside(P, d)[q]

LEMMA NewNodeIs == NewNode \in Record
BY SizeNone DEF NewNode, Record

LEMMA LeafIs ==
  ASSUME NEW P \in [Point -> Nat], NEW k \in Nat, Size(P) <= k,
         NEW n \in Node, NEW d \in Node, NEW planar \in SUBSET Fittable(P, n)
  PROVE  /\ Sound(d, Leaf(P, planar, d), k)
         /\ Leaf(P, planar, d).new = 0
         /\ \A q \in Point : Leaf(P, planar, d).temp[q] <= Inside(P, d)[q]
         /\ Enough(Inside(P, d), d) /\ d \notin planar /\ Layer(d) < MaxLayers
              => Divided(Leaf(P, planar, d))
<1> DEFINE Q == Inside(P, d)
           enough == Enough(Q, d)
           handsOn == enough /\ d \notin planar /\ Layer(d) < MaxLayers
           L == Leaf(P, planar, d)
<1>1. Q \in [Point -> Nat] /\ Inside(Q, d) = Q /\ Size(Q) <= k /\ Size(Q) \in Nat
  <2>1. Q \in [Point -> Nat] /\ Inside(Q, d) = Q /\ Size(Q) <= Size(P)
    BY InsideIs
  <2>2. Size(Q) \in Nat /\ Size(P) \in Nat
    BY <2>1, SizeNat
  <2> HIDE DEF Q
  <2> QED
    BY <2>1, <2>2
<1>2. d \in planar => enough
  BY DEF Fittable
<1>3. /\ L.init = enough /\ L.isPlane = (d \in planar) /\ L.updCov = TRUE /\ L.upd = TRUE
      /\ L.new = 0 /\ L.allNum = 0
      /\ L.fitted = (IF enough THEN Size(Q) ELSE 0)
      /\ L.newNum = (IF enough THEN 0 ELSE Size(Q))
      /\ L.temp = (IF handsOn THEN NoPoints ELSE Q)
  BY DEF Leaf, NewNode
<1>4. L = [NewNode EXCEPT !.init = L.init, !.isPlane = L.isPlane, !.fitted = L.fitted,
                          !.newNum = L.newNum, !.temp = L.temp]
  BY <1>3 DEF Leaf
<1>5. enough \in BOOLEAN /\ (d \in planar) \in BOOLEAN
  BY DEF Enough
<1> HIDE DEF Q, enough, L
<1>6. L.temp \in [Point -> Nat] /\ L.fitted \in Nat /\ L.newNum \in Nat
  BY <1>1, <1>3, SizeNone
<1>7. L \in Record
  <2>1. L.init \in BOOLEAN /\ L.isPlane \in BOOLEAN
    BY <1>3, <1>5, Zenon
  <2>2. \A i, b \in BOOLEAN : \A g, h \in Nat : \A e \in [Point -> Nat] :
          [NewNode EXCEPT !.init = i, !.isPlane = b, !.fitted = g, !.newNum = h, !.temp = e]
            \in Record
    BY NewNodeIs DEF Record
  <2>3. [NewNode EXCEPT !.init = L.init, !.isPlane = L.isPlane, !.fitted = L.fitted,
                       !.newNum = L.newNum, !.temp = L.temp] \in Record
    BY <1>6, <2>1, <2>2
  <2> QED
    BY <1>4, <2>3
<1>8. L.temp = Inside(L.temp, d)
  BY <1>1, <1>3, InsideEmpty, Zenon
<1>9. Size(L.temp) <= Size(Q) /\ Size(L.temp) \in Nat
  BY <1>1, <1>3, SizeNone
<1>10. Counted(L, k)
  <2>1. Size(L.temp) + L.new <= k /\ L.fitted + L.new <= k /\ L.newNum <= k /\ L.allNum <= k
    BY <1>1, <1>3, <1>9
  <2>2. L.isPlane => L.init
    BY <1>2, <1>3, Zenon
  <2> QED
    BY <1>3, <2>1, <2>2 DEF Counted
<1>11. Lags(d, L)
  <2>1. ASSUME L.init, L.isPlane \/ Layer(d) = MaxLayers
        PROVE  enough /\ ~handsOn
    <3>1. enough /\ (d \in planar \/ Layer(d) = MaxLayers)
      BY <1>3, <2>1, Zenon
    <3>2. ~(Layer(d) < MaxLayers /\ Layer(d) = MaxLayers)
      BY NodeIs, ConstantsAssumption
    <3> QED
      BY <3>1, <3>2, Zenon
  <2>2. enough /\ ~handsOn => Size(L.temp) = L.fitted + L.newNum /\ L.newNum <= UpdateSize
    BY <1>1, <1>3, ConstantsAssumption
  <2> QED
    BY <2>1, <2>2, Zenon DEF Lags
<1>12. \A q \in Point : L.temp[q] <= Q[q]
  BY <1>1, <1>3 DEF NoPoints
<1>13. handsOn => Divided(L)
  BY <1>3, Zenon DEF Divided
<1> QED
  BY <1>3, <1>7, <1>8, <1>10, <1>11, <1>12, <1>13, Zenon DEF Sound, L, Q, enough

LEMMA LeavesIs ==
  ASSUME NEW P \in [Point -> Nat], NEW k \in Nat, Size(P) <= k,
         NEW n \in Node, NEW planar \in SUBSET Fittable(P, n)
  PROVE  LET f == Leaves(P, planar, n) IN
         /\ \A d \in DOMAIN f : /\ d \in Node /\ Above(n, d) /\ Sound(d, f[d], k)
                                /\ f[d].new = 0
                                /\ \A q \in Point : f[d].temp[q] <= Inside(P, d)[q]
         /\ \A d \in DOMAIN f : \A a \in Node :
              Above(n, a) /\ Above(a, d) => a \in DOMAIN f /\ Divided(f[a])
<1> DEFINE divided(a) == Enough(Inside(P, a), a) /\ a \notin planar
           reached == {d \in Node : /\ Above(n, d) /\ Size(Inside(P, d)) > 0
                                    /\ \A a \in Node : Above(a, d) /\ (a = n \/ Above(n, a))
                                                       => divided(a)}
           f == Leaves(P, planar, n)
<1>1. DOMAIN f = reached /\ \A d \in reached : f[d] = Leaf(P, planar, d)
  BY DEF Leaves
<1> HIDE DEF f
<1>2. ASSUME NEW d \in reached, NEW a \in Node, Above(n, a), Above(a, d)
      PROVE  a \in reached /\ divided(a)
  <2>1. Size(Inside(P, d)) \in Nat /\ Size(Inside(P, a)) \in Nat
    BY InsideIs, SizeNat
  <2>2. Size(Inside(P, a)) > 0
    BY <1>2, <2>1, InsideBelow
  <2>3. ASSUME NEW b \in Node, Above(b, a), b = n \/ Above(n, b) PROVE divided(b)
    <3>1. Above(b, d)
      BY <1>2, <2>3, AboveTrans
    <3> QED
      BY <2>3, <3>1
  <2>4. divided(a)
    BY <1>2
  <2> QED
    BY <1>2, <2>2, <2>3, <2>4
<1>3. ASSUME NEW d \in reached, NEW a \in Node, Above(n, a), Above(a, d)
      PROVE  Divided(f[a])
  <2>1. Layer(a) < MaxLayers
    BY <1>3, NodeIs, ConstantsAssumption DEF Above
  <2>2. Divided(Leaf(P, planar, a))
    BY <1>2, <1>3, <2>1, LeafIs
  <2> QED
    BY <1>1, <1>2, <1>3, <2>2
<1>4. ASSUME NEW d \in reached
      PROVE  /\ d \in Node /\ Above(n, d) /\ Sound(d, f[d], k) /\ f[d].new = 0
             /\ \A q \in Point : f[d].temp[q] <= Inside(P, d)[q]
  BY <1>1, LeafIs
<1> HIDE DEF reached, divided
<1> QED
  BY <1>1, <1>2, <1>3, <1>4 DEF f

\* The first fit of a node, or of the voxel when it is built.
LEMMA FirstFitIs ==
  ASSUME NEW r \in Record, NEW k \in Nat, NEW n \in Node, r.temp = Inside(r.temp, n),
         r.new = 0, r.allNum <= k, Size(r.temp) <= k, covLimit \in Nat,
         NEW planar \in SUBSET Fittable(r.temp, n), NEW t
  PROVE  \E s, f : /\ FirstFit(t, n, r, planar) = Put(t, n, s, f)
                   /\ Grown(n, s, f, k) /\ Moved(s, f, r.temp) /\ s.new = 0
<1> DEFINE P == r.temp
           fit == [r EXCEPT !.init = TRUE, !.newNum = 0, !.fitted = Size(P),
                            !.isPlane = n \in planar]
           plane == [fit EXCEPT !.updCov = @ /\ Size(P) <= covLimit, !.upd = @ /\ Size(P) <= MaxPoints]
           cut == [fit EXCEPT !.temp = NoPoints]
<1>1. P \in [Point -> Nat] /\ P = Inside(P, n) /\ Size(P) \in Nat
  BY SizeNat DEF Record
<1>2. (n \in planar) \in BOOLEAN
  OBVIOUS
<1>3. /\ fit \in Record /\ fit.temp = P /\ fit.new = 0 /\ fit.newNum = 0 /\ fit.fitted = Size(P)
      /\ fit.allNum = r.allNum /\ fit.init /\ fit.isPlane = (n \in planar)
  BY <1>1, <1>2 DEF Record
<1> HIDE DEF fit
<1>4. /\ plane \in Record /\ plane.temp = P /\ plane.new = 0 /\ plane.newNum = 0
      /\ plane.fitted = Size(P) /\ plane.allNum = r.allNum /\ plane.init
      /\ plane.isPlane = (n \in planar)
  BY <1>3 DEF Record
<1>5. /\ cut \in Record /\ cut.temp = NoPoints /\ cut.new = 0 /\ cut.newNum = 0
      /\ cut.fitted = Size(P) /\ cut.allNum = r.allNum /\ cut.init
      /\ cut.isPlane = (n \in planar)
  BY <1>3, SizeNone DEF Record
<1> HIDE DEF plane, cut
<1>6. ASSUME NEW s \in Record, s.temp = P, s.new = 0, s.newNum = 0, s.fitted = Size(P),
             s.allNum = r.allNum, s.init
      PROVE  Grown(n, s, <<>>, k) /\ Moved(s, <<>>, P) /\ s.new = 0
  <2>1. Size(s.temp) + s.new <= k /\ s.fitted + s.new <= k /\ s.newNum <= k /\ s.allNum <= k
    BY <1>1, <1>6
  <2>2. Counted(s, k)
    BY <1>6, <2>1, Zenon DEF Counted
  <2>3. Size(s.temp) = s.fitted + s.newNum /\ s.newNum <= UpdateSize
    BY <1>1, <1>6, ConstantsAssumption
  <2>4. Lags(n, s)
    BY <2>3, Zenon DEF Lags
  <2>5. DOMAIN <<>> = {}
    OBVIOUS
  <2>6. Sound(n, s, k)
    BY <1>1, <1>6, <2>2, <2>4, Zenon DEF Sound
  <2>7. \A q \in Point : s.temp[q] <= P[q]
    BY <1>1, <1>6
  <2> QED
    BY <1>6, <2>5, <2>6, <2>7, Zenon DEF Grown, Moved
<1>7. CASE n \in planar
  <2>1. FirstFit(t, n, r, planar) = Put(t, n, plane, <<>>)
    BY <1>7 DEF FirstFit, plane, fit
  <2> QED
    BY <1>4, <1>6, <2>1, Zenon
<1>8. CASE n \notin planar /\ ~(Layer(n) < MaxLayers)
  <2>1. FirstFit(t, n, r, planar) = Put(t, n, fit, <<>>)
    BY <1>8 DEF FirstFit, fit
  <2> QED
    BY <1>3, <1>6, <2>1, Zenon
<1>9. CASE n \notin planar /\ Layer(n) < MaxLayers
  <2> DEFINE f == Leaves(P, planar, n)
  <2>1. FirstFit(t, n, r, planar) = Put(t, n, cut, f)
    BY <1>9 DEF FirstFit, cut, fit
  <2>2. /\ \A d \in DOMAIN f : /\ d \in Node /\ Above(n, d) /\ Sound(d, f[d], k)
                               /\ f[d].new = 0
                               /\ \A q \in Point : f[d].temp[q] <= Inside(P, d)[q]
        /\ \A d \in DOMAIN f : \A a \in Node :
             Above(n, a) /\ Above(a, d) => a \in DOMAIN f /\ Divided(f[a])
    BY <1>1, LeavesIs
  <2> HIDE DEF f
  <2>3. Divided(cut)
    BY <1>5, <1>9, Zenon DEF Divided
  <2>4. Size(cut.temp) + cut.new <= k /\ cut.fitted + cut.new <= k
        /\ cut.newNum <= k /\ cut.allNum <= k
    BY <1>1, <1>5, SizeNone
  <2>5. Counted(cut, k)
    BY <1>5, <1>9, <2>4, Zenon DEF Counted
  <2>6. Lags(n, cut)
    <3>1. Layer(n) # MaxLayers
      BY <1>9, NodeIs, ConstantsAssumption
    <3> QED
      BY <1>5, <1>9, <3>1, Zenon DEF Lags
  <2>7. Sound(n, cut, k)
    BY <1>5, <2>5, <2>6, InsideEmpty, Zenon DEF Sound
  <2>8. \A q \in Point : cut.temp[q] <= P[q]
    BY <1>1, <1>5 DEF NoPoints
  <2>9. Grown(n, cut, f, k)
    BY <2>2, <2>3, <2>7, Zenon DEF Grown
  <2>10. Moved(cut, f, P)
    BY <2>2, <2>8, Zenon DEF Moved
  <2> QED
    BY <1>5, <2>1, <2>9, <2>10, Zenon
<1> QED
  BY <1>7, <1>8, <1>9

\* A point taken by a node that has been fit and keeps its points.
LEMMA HolderIs ==
  ASSUME NEW k \in Nat, NEW n \in Node, NEW r, Sound(n, r, k), r.init,
         r.isPlane \/ Layer(n) = MaxLayers, covLimit \in Nat,
         NEW p \in Point, In(p, n), NEW planar \in SUBSET {n}
  PROVE  LET h == UpdateHolder(r, n, p, planar) IN
         /\ Grown(n, h, <<>>, k + 1)
         /\ \/ /\ \A q \in Point : h.temp[q] <= With(r.temp, p)[q]
               /\ h.new <= r.new
            \/ /\ \A q \in Point : h.temp[q] <= r.temp[q]
               /\ h.new <= r.new + 1
         /\ r.isPlane /\ ~r.updCov => h.isPlane /\ h.fitted = r.fitted
<1> DEFINE T == With(r.temp, p)
           due == r.newNum + 1 > UpdateSize
           refit == due /\ (r.updCov \/ ~r.isPlane)
           done == r.allNum + 1 >= MaxPoints
           over == r.allNum + 1 >= covLimit
           new == IF r.updCov THEN r.new ELSE r.new + 1
           h == UpdateHolder(r, n, p, planar)
<1>1. /\ r \in Record /\ r.temp \in [Point -> Nat] /\ r.new \in Nat /\ r.newNum \in Nat
      /\ r.allNum \in Nat /\ r.fitted \in Nat /\ r.init \in BOOLEAN /\ r.isPlane \in BOOLEAN
      /\ r.updCov \in BOOLEAN /\ r.upd \in BOOLEAN /\ r.temp = Inside(r.temp, n)
  BY DEF Sound, Record
<1>2. /\ Size(r.temp) + r.new <= k /\ r.fitted + r.new <= k
      /\ r.newNum <= k /\ r.allNum <= k /\ (r.updCov => r.new = 0)
  BY DEF Sound, Counted
<1>3. /\ T \in [Point -> Nat] /\ Size(T) = Size(r.temp) + 1 /\ T = Inside(T, n)
      /\ Size(r.temp) \in Nat /\ \A q \in Point : r.temp[q] <= T[q]
  <2>1. \A q \in Point : T[q] = r.temp[q] \/ T[q] = r.temp[q] + 1
    BY <1>1 DEF With
  <2>2. \A q \in Point : r.temp[q] <= T[q]
    BY <1>1, <2>1
  <2>3. T \in [Point -> Nat] /\ Size(T) = Size(r.temp) + 1
    BY <1>1, SizeWith
  <2>4. Size(r.temp) \in Nat
    BY <1>1, SizeNat
  <2>5. T = Inside(T, n)
    BY <1>1, InsideWith
  <2> QED
    BY <2>2, <2>3, <2>4, <2>5
<1>4. r.updCov => Size(r.temp) = r.fitted + r.newNum /\ r.newNum <= UpdateSize
  BY DEF Sound, Lags
<1>5. DOMAIN <<>> = {}
  OBVIOUS
<1>6. CASE ~r.upd
  <2>1. h = r
    BY <1>6 DEF UpdateHolder
  <2>2. Sound(n, r, k + 1)
    BY SoundMore
  <2>3. Grown(n, r, <<>>, k + 1)
    BY <1>5, <2>2, Zenon DEF Grown
  <2>4. \A q \in Point : h.temp[q] <= T[q]
    BY <1>3, <2>1
  <2> HIDE DEF h
  <2> QED
    BY <1>1, <2>1, <2>3, <2>4 DEF h
<1>7. CASE r.upd
  <2>1. h = [r EXCEPT !.allNum = r.allNum + 1,
                      !.newNum = IF due THEN 0 ELSE r.newNum + 1,
                      !.isPlane = IF refit THEN n \in planar ELSE r.isPlane,
                      !.fitted = IF ~refit THEN r.fitted
                                 ELSE IF r.updCov THEN Size(IF r.updCov THEN T ELSE r.temp)
                                      ELSE r.fitted + new,
                      !.updCov = r.updCov /\ r.allNum + 1 < covLimit,
                      !.temp = IF over THEN NoPoints ELSE IF r.updCov THEN T ELSE r.temp,
                      !.new = IF done \/ (refit /\ ~r.updCov) THEN 0 ELSE new,
                      !.upd = ~done]
    BY <1>1, <1>7 DEF UpdateHolder, Record
  <2> HIDE DEF h, T
  <2>2. /\ h.allNum = r.allNum + 1 /\ h.init = r.init
        /\ h.newNum = (IF due THEN 0 ELSE r.newNum + 1)
        /\ h.isPlane = (IF refit THEN n \in planar ELSE r.isPlane)
        /\ h.updCov = (r.updCov /\ r.allNum + 1 < covLimit)
        /\ h.temp = (IF over THEN NoPoints ELSE IF r.updCov THEN T ELSE r.temp)
        /\ h.upd = ~done
    BY <1>1, <2>1 DEF Record
  <2>3. /\ h.fitted = (IF ~refit THEN r.fitted
                       ELSE IF r.updCov THEN Size(IF r.updCov THEN T ELSE r.temp)
                            ELSE r.fitted + new)
        /\ h.new = (IF done \/ (refit /\ ~r.updCov) THEN 0 ELSE new)
    BY <1>1, <2>1 DEF Record
  <2>4. /\ h.temp \in [Point -> Nat] /\ h.fitted \in Nat /\ h.new \in Nat
        /\ h.newNum \in Nat /\ h.allNum \in Nat
    <3>1. Size(IF r.updCov THEN T ELSE r.temp) \in Nat
      BY <1>3
    <3> QED
      BY <1>1, <1>3, <2>2, <2>3, <3>1, SizeNone
  <2>5. h.isPlane \in BOOLEAN /\ h.updCov \in BOOLEAN /\ h.upd \in BOOLEAN /\ h.init
    <3>1. (n \in planar) \in BOOLEAN /\ (r.allNum + 1 < covLimit) \in BOOLEAN /\ done \in BOOLEAN
      OBVIOUS
    <3> QED
      BY <1>1, <2>2, <3>1
  <2>6. h \in Record
    <3>1. DOMAIN h = DOMAIN r /\ h = [f \in DOMAIN r |-> h[f]]
      BY <1>1, <2>1 DEF Record
    <3> QED
      BY <1>1, <1>3, <2>1, <2>2, <2>3, <2>4, <2>5, <3>1 DEF Record
  <2>7. h.temp = Inside(h.temp, n)
    BY <1>1, <1>3, <2>2, InsideEmpty
  <2>8. CASE r.updCov
    <3>1. h.new = 0 /\ h.fitted = (IF due THEN Size(T) ELSE r.fitted) /\ r.new = 0
      BY <1>2, <2>3, <2>8
    <3>2. h.temp = (IF over THEN NoPoints ELSE T)
      BY <2>2, <2>8
    <3>3. /\ Size(h.temp) + h.new <= k + 1 /\ h.fitted + h.new <= k + 1
          /\ h.newNum <= k + 1 /\ h.allNum <= k + 1
      BY <1>1, <1>2, <1>3, <2>2, <3>1, <3>2, SizeNone
    <3>4. Counted(h, k + 1)
      BY <2>5, <3>1, <3>3, Zenon DEF Counted
    <3>5. Lags(n, h)
      <4>1. h.updCov => ~over
        <5>1. h.updCov => r.allNum + 1 < covLimit
          BY <2>2, Zenon
        <5>2. r.allNum + 1 < covLimit => ~over
          BY <1>1
        <5> QED
          BY <5>1, <5>2, Zenon
      <4>2. ~over => Size(h.temp) = h.fitted + h.newNum /\ h.newNum <= UpdateSize
        BY <1>1, <1>3, <1>4, <2>2, <2>8, <3>1, <3>2, ConstantsAssumption
      <4> QED
        BY <4>1, <4>2, Zenon DEF Lags
    <3>6. Grown(n, h, <<>>, k + 1)
      BY <1>5, <2>6, <2>7, <3>4, <3>5, Zenon DEF Grown, Sound
    <3>7. \A q \in Point : h.temp[q] <= T[q]
      BY <1>1, <1>3, <3>2 DEF NoPoints
    <3> QED
      BY <2>8, <3>1, <3>6, <3>7 DEF h, T
  <2>9. CASE ~r.updCov
    <3>1. /\ h.new = (IF done \/ refit THEN 0 ELSE r.new + 1)
          /\ h.fitted = (IF refit THEN r.fitted + (r.new + 1) ELSE r.fitted)
          /\ refit = (due /\ ~r.isPlane)
      BY <2>3, <2>9
    <3>2. h.temp = (IF over THEN NoPoints ELSE r.temp)
      BY <2>2, <2>9
    <3> HIDE DEF refit
    <3>3. /\ Size(h.temp) + h.new <= k + 1 /\ h.fitted + h.new <= k + 1
          /\ h.newNum <= k + 1 /\ h.allNum <= k + 1 /\ h.new <= r.new + 1
      BY <1>1, <1>2, <1>3, <2>2, <3>1, <3>2, SizeNone
    <3>4. ~h.updCov
      BY <2>2, <2>9
    <3>5. Counted(h, k + 1)
      BY <2>5, <3>3, <3>4, Zenon DEF Counted
    <3>6. Lags(n, h)
      BY <3>4, Zenon DEF Lags
    <3>7. Grown(n, h, <<>>, k + 1)
      BY <1>5, <2>6, <2>7, <3>5, <3>6, Zenon DEF Grown, Sound
    <3>8. \A q \in Point : h.temp[q] <= r.temp[q]
      BY <1>1, <3>2 DEF NoPoints
    <3>9. r.isPlane => h.isPlane /\ h.fitted = r.fitted
      BY <2>2, <3>1
    <3> QED
      BY <3>3, <3>7, <3>8, <3>9 DEF h
  <2> QED
    BY <1>1, <2>8, <2>9
<1> QED
  BY <1>1, <1>6, <1>7

-----------------------------------------------------------------------------
(* A step: the nodes above n pass a point on to it, or the voxel is built. *)

Grow(n, r, f) == Put(Passed(n), n, r, f)

LEMMA GrowIs ==
  ASSUME IInv, NEW n \in Node, ~PassesOn(n), \A a \in Node : Above(a, n) => PassesOn(a),
         NEW r, NEW f, NEW k \in Nat, received <= k, Grown(n, r, f, k)
  PROVE  LET t == Grow(n, r, f) IN
         /\ DOMAIN t = DOMAIN tree \cup {n} \cup DOMAIN f /\ DOMAIN t \subseteq Node
         /\ t[n] = r /\ n \notin DOMAIN f /\ DOMAIN f \cap DOMAIN tree = {}
         /\ \A d \in DOMAIN f : t[d] = f[d]
         /\ \A d \in DOMAIN tree : d # n => t[d] = Passed(n)[d]
         /\ \A d \in DOMAIN t : Sound(d, t[d], k)
         /\ \A d \in DOMAIN t : \A a \in Node : Above(a, d) => a \in DOMAIN t /\ Divided(t[a])
<1> DEFINE t == Grow(n, r, f)
<1>1. \A d \in DOMAIN f : d \in Node /\ Above(n, d) /\ d # n /\ ~Above(d, n)
  BY AboveIrreflexive DEF Grown
<1>2. \A d \in DOMAIN f : d \notin DOMAIN tree
  BY <1>1, NothingBelow
<1>3. DOMAIN tree \subseteq Node
  BY DEF IInv
<1>4. DOMAIN t = DOMAIN tree \cup {n} \cup DOMAIN f /\ t[n] = r
  <2>1. DOMAIN t = DOMAIN Passed(n) \cup {n} \cup DOMAIN f /\ t[n] = r
    BY DEF Grow, Put
  <2> HIDE DEF t
  <2> QED
    BY <2>1, PassedIs, Zenon
<1>5. \A d \in DOMAIN f : t[d] = f[d]
  <2>1. \A d \in DOMAIN f : d # n => t[d] = f[d]
    BY DEF Grow, Put
  <2> HIDE DEF t
  <2> QED
    BY <1>1, <2>1, Zenon
<1>6. \A d \in DOMAIN tree : d # n => t[d] = Passed(n)[d]
  <2>1. \A d \in DOMAIN Passed(n) : d # n /\ d \notin DOMAIN f => t[d] = Passed(n)[d]
    BY DEF Grow, Put
  <2>2. DOMAIN Passed(n) = DOMAIN tree
    BY PassedIs, Zenon
  <2> HIDE DEF t
  <2> QED
    BY <1>2, <2>1, <2>2, Zenon
<1> HIDE DEF t
<1>7. ASSUME NEW d \in DOMAIN t PROVE Sound(d, t[d], k)
  <2>1. CASE d = n
    BY <1>4, <2>1 DEF Grown
  <2>2. CASE d \in DOMAIN f
    BY <1>5, <2>2 DEF Grown
  <2>3. CASE d \in DOMAIN tree /\ d # n
    BY <1>6, <2>3, StaysSound
  <2> QED
    BY <1>4, <2>1, <2>2, <2>3
<1>8. ASSUME NEW a \in DOMAIN tree, PassesOn(a), a # n,
             Above(a, n) \/ (tree[a].temp = NoPoints /\ tree[a].new = 0)
      PROVE  a \in DOMAIN t /\ Divided(t[a])
  <2>1. /\ t[a] = Passed(n)[a] /\ Passed(n)[a].init = tree[a].init
        /\ Passed(n)[a].isPlane = tree[a].isPlane
        /\ Passed(n)[a].temp = (IF Above(a, n) THEN NoPoints ELSE tree[a].temp)
        /\ Passed(n)[a].new = (IF Above(a, n) THEN 0 ELSE tree[a].new)
    BY <1>6, <1>8, PassedFields
  <2>2. tree[a].init /\ ~tree[a].isPlane
    BY <1>8 DEF PassesOn, Holds
  <2> QED
    BY <1>4, <1>8, <2>1, <2>2, Zenon DEF Divided
<1>9. ASSUME NEW a \in Node, Above(a, n) PROVE a \in DOMAIN t /\ Divided(t[a])
  <2>1. PassesOn(a) /\ a # n
    BY <1>9, AboveIrreflexive
  <2>2. a \in DOMAIN tree
    BY <2>1 DEF PassesOn, Exists
  <2> QED
    BY <1>8, <1>9, <2>1, <2>2
<1>10. ASSUME NEW d \in DOMAIN t, NEW a \in Node, Above(a, d)
       PROVE  a \in DOMAIN t /\ Divided(t[a])
  <2>1. CASE d = n
    BY <1>9, <1>10, <2>1
  <2>2. CASE d \in DOMAIN f
    <3>1. Above(n, d) /\ d \in Node
      BY <1>1, <2>2
    <3>2. a = n \/ Above(a, n) \/ Above(n, a)
      BY <1>10, <3>1, AboveLine
    <3>3. CASE a = n
      BY <1>4, <2>2, <3>3 DEF Grown
    <3>4. CASE Above(n, a)
      <4>1. a \in DOMAIN f /\ Divided(f[a])
        BY <1>10, <2>2, <3>4 DEF Grown
      <4> QED
        BY <1>4, <1>5, <4>1
    <3> QED
      BY <1>9, <3>2, <3>3, <3>4
  <2>3. CASE d \in DOMAIN tree /\ d # n
    <3>1. Exists(a) /\ Divided(tree[a])
      BY <1>10, <2>3 DEF IInv, AboveDivided
    <3>2. Layer(a) # MaxLayers
      BY <1>3, <1>10, <2>3, NodeIs, ConstantsAssumption DEF Above
    <3>3. PassesOn(a)
      BY <3>1, <3>2 DEF PassesOn, Holds, Divided
    <3>4. a # n
      BY <3>3
    <3> QED
      BY <1>8, <3>1, <3>3, <3>4 DEF Divided, Exists
  <2> QED
    BY <1>4, <2>1, <2>2, <2>3
<1> QED
  BY <1>1, <1>2, <1>3, <1>4, <1>5, <1>6, <1>7, <1>10 DEF t

LEMMA GrowFields ==
  ASSUME IInv, NEW n \in Node, ~PassesOn(n), \A a \in Node : Above(a, n) => PassesOn(a),
         NEW r, NEW f, NEW k \in Nat, received <= k, Grown(n, r, f, k)
  PROVE  /\ Grow(n, r, f)[n] = r
         /\ \A d \in DOMAIN tree : d # n =>
              /\ Grow(n, r, f)[d].isPlane = tree[d].isPlane
              /\ Grow(n, r, f)[d].fitted = tree[d].fitted
<1> DEFINE t == Grow(n, r, f)
<1>1. /\ DOMAIN t = DOMAIN tree \cup {n} \cup DOMAIN f /\ DOMAIN t \subseteq Node
      /\ t[n] = r /\ n \notin DOMAIN f /\ DOMAIN f \cap DOMAIN tree = {}
      /\ \A d \in DOMAIN f : t[d] = f[d]
      /\ \A d \in DOMAIN tree : d # n => t[d] = Passed(n)[d]
      /\ \A d \in DOMAIN t : Sound(d, t[d], k)
      /\ \A d \in DOMAIN t : \A a \in Node : Above(a, d) => a \in DOMAIN t /\ Divided(t[a])
  BY GrowIs
<1> HIDE DEF t
<1> QED
  BY <1>1, PassedFields DEF t

-----------------------------------------------------------------------------
(* The points that are kept: a step takes every copy from one it has found *)
(* kept, at the same node or at n, and from the point it brings.           *)

LEMMA KeptIs ==
  ASSUME NEW t
  PROVE  /\ \A d \in DOMAIN t : \A c : <<d, c>> \in Kept(t) <=> c \in Copies(t[d].temp)
         /\ \A h \in Kept(t) : \E d \in DOMAIN t : \E c \in Copies(t[d].temp) : h = <<d, c>>
BY DEF Kept

LEMMA KeptFinite ==
  ASSUME NEW t, DOMAIN t \subseteq Node,
         \A d \in DOMAIN t : t[d].temp \in [Point -> Nat] /\ t[d].new \in Nat
  PROVE  IsFiniteSet(Kept(t)) /\ IsFiniteSet(Gathered(t))
<1>1. IsFiniteSet(DOMAIN t)
  BY FiniteNodes, FS_Subset
<1> DEFINE f == [d \in DOMAIN t |-> Copies(t[d].temp)]
           g == [d \in DOMAIN t |-> 1 .. t[d].new]
<1>2. \A d \in DOMAIN t : IsFiniteSet(f[d]) /\ IsFiniteSet(g[d])
  BY SizeNat, FS_Interval
<1>3. Kept(t) = UNION {{d} \X f[d] : d \in DOMAIN t}
  BY DEF Kept
<1>4. Gathered(t) = UNION {{d} \X g[d] : d \in DOMAIN t}
  BY DEF Gathered
<1> HIDE DEF f, g
<1> QED
  BY <1>1, <1>2, <1>3, <1>4, FiniteSlices

LEMMA TreeFinite ==
  ASSUME IInv
  PROVE  IsFiniteSet(Kept(tree)) /\ IsFiniteSet(Gathered(tree))
<1>1. DOMAIN tree \subseteq Node
      /\ \A d \in DOMAIN tree : tree[d].temp \in [Point -> Nat] /\ tree[d].new \in Nat
  BY DEF IInv, Sound, Record
<1> QED
  BY <1>1, KeptFinite

LEMMA KeptMoves ==
  ASSUME IInv, NEW n \in Node, ~PassesOn(n), \A a \in Node : Above(a, n) => PassesOn(a),
         NEW r, NEW f, NEW k \in Nat, received <= k, Grown(n, r, f, k),
         NEW P \in [Point -> Nat], Moved(r, f, P)
  PROVE  LET K == Kept(Grow(n, r, f))
             T == {h \in Kept(tree) : h[1] # n} \cup ({n} \X Copies(P))
         IN  /\ IsFiniteSet(K) /\ IsFiniteSet(T) /\ IsFiniteSet(Gathered(Grow(n, r, f)))
             /\ Cardinality(K) <= Cardinality(T)
<1> DEFINE t == Grow(n, r, f)
           K == Kept(t)
           T == {h \in Kept(tree) : h[1] # n} \cup ({n} \X Copies(P))
           m == [h \in K |-> IF h[1] \in DOMAIN f THEN <<n, h[2]>> ELSE h]
<1>1. /\ DOMAIN t = DOMAIN tree \cup {n} \cup DOMAIN f /\ DOMAIN t \subseteq Node
      /\ t[n] = r /\ n \notin DOMAIN f /\ DOMAIN f \cap DOMAIN tree = {}
      /\ \A d \in DOMAIN f : t[d] = f[d]
      /\ \A d \in DOMAIN tree : d # n => t[d] = Passed(n)[d]
      /\ \A d \in DOMAIN t : Sound(d, t[d], k)
      /\ \A d \in DOMAIN t : \A a \in Node : Above(a, d) => a \in DOMAIN t /\ Divided(t[a])
  BY GrowIs
<1> HIDE DEF t
<1>2. \A d \in DOMAIN t : t[d].temp \in [Point -> Nat] /\ t[d].new \in Nat
  BY <1>1 DEF Sound, Record
<1>3. IsFiniteSet(K) /\ IsFiniteSet(Gathered(t))
  BY <1>1, <1>2, KeptFinite
<1>4. IsFiniteSet(T)
  <2>1. IsFiniteSet({h \in Kept(tree) : h[1] # n})
    BY TreeFinite, FS_Subset
  <2>2. IsFiniteSet({n} \X Copies(P))
    BY SizeNat, FS_Singleton, FS_Product
  <2> QED
    BY <2>1, <2>2, FS_Union
<1>5. ASSUME NEW h \in K
      PROVE  \E d \in DOMAIN t, q \in Point, i \in Nat :
               i \in 1 .. t[d].temp[q] /\ h = <<d, <<q, i>> >>
  <2>1. PICK d \in DOMAIN t : \E c \in Copies(t[d].temp) : h = <<d, c>>
    BY KeptIs
  <2>2. PICK c \in Copies(t[d].temp) : h = <<d, c>>
    BY <2>1
  <2>3. PICK q \in Point : \E i \in 1 .. t[d].temp[q] : c = <<q, i>>
    BY CopiesIs
  <2> QED
    BY <2>2, <2>3
\* A copy in a new node is one of n, and lies in that node.
<1>6. ASSUME NEW d \in DOMAIN f, NEW q \in Point, NEW i \in 1 .. t[d].temp[q]
      PROVE  <<q, i>> \in Copies(P) /\ In(q, d) /\ t[d].temp # NoPoints
  <2>1. d \in Node /\ t[d].temp[q] <= Inside(P, d)[q]
    BY <1>1 DEF Grown, Moved
  <2>2. t[d].temp[q] \in Nat /\ t[d].temp[q] >= i /\ i \in Nat /\ i >= 1
    BY <1>1, <1>2
  <2>3. Inside(P, d)[q] = (IF In(q, d) THEN P[q] ELSE 0) /\ P[q] \in Nat
    BY <2>1, InsideIs
  <2>4. In(q, d) /\ i \in 1 .. P[q]
    BY <2>1, <2>2, <2>3
  <2>5. NoPoints[q] = 0
    BY DEF NoPoints
  <2>6. t[d].temp # NoPoints
    BY <2>2, <2>5
  <2> QED
    BY <2>4, <2>6, CopiesIs
<1>7. ASSUME NEW q \in Point, NEW i \in 1 .. r.temp[q]
      PROVE  <<q, i>> \in Copies(P) /\ r.temp # NoPoints
  <2>1. r.temp[q] <= P[q]
    BY DEF Moved
  <2>2. r.temp[q] \in Nat /\ P[q] \in Nat
    BY <1>1, <1>2
  <2>3. i \in 1 .. P[q]
    BY <2>1, <2>2
  <2>4. NoPoints[q] = 0
    BY DEF NoPoints
  <2> QED
    BY <2>2, <2>3, <2>4, CopiesIs
<1>8. DOMAIN f # {} => r.temp = NoPoints
  BY DEF Grown, Divided
<1>9. ASSUME NEW h \in K PROVE m[h] \in T
  <2>1. PICK d \in DOMAIN t, q \in Point, i \in Nat :
          i \in 1 .. t[d].temp[q] /\ h = <<d, <<q, i>> >>
    BY <1>5
  <2>2. m[h] = IF d \in DOMAIN f THEN <<n, <<q, i>> >> ELSE h
    BY <2>1
  <2> HIDE DEF m
  <2>3. CASE d \in DOMAIN f
    <3>1. <<q, i>> \in Copies(P)
      BY <1>6, <2>1, <2>3
    <3> QED
      BY <2>2, <2>3, <3>1
  <2>4. CASE d = n
    BY <1>1, <1>7, <2>1, <2>2, <2>4
  <2>5. CASE d \in DOMAIN tree /\ d # n
    <3>1. t[d].temp = (IF Above(d, n) THEN NoPoints ELSE tree[d].temp)
      BY <1>1, <2>5, PassedFields
    <3>2. ~Above(d, n)
      <4>1. NoPoints[q] = 0
        BY DEF NoPoints
      <4> QED
        BY <2>1, <3>1, <4>1
    <3>3. i \in 1 .. tree[d].temp[q]
      BY <2>1, <3>1, <3>2
    <3>4. <<q, i>> \in Copies(tree[d].temp)
      BY <3>3, CopiesIs
    <3>5. h \in Kept(tree) /\ h[1] # n
      BY <2>1, <2>5, <3>4, KeptIs
    <3>6. d \notin DOMAIN f
      BY <1>1, <2>5
    <3> QED
      BY <2>2, <3>5, <3>6
  <2> QED
    BY <1>1, <2>3, <2>4, <2>5
<1>10. ASSUME NEW g \in K, NEW h \in K, m[g] = m[h] PROVE g = h
  <2>1. PICK d \in DOMAIN t, q \in Point, i \in Nat :
          i \in 1 .. t[d].temp[q] /\ g = <<d, <<q, i>> >>
    BY <1>5
  <2>2. PICK e \in DOMAIN t, s \in Point, j \in Nat :
          j \in 1 .. t[e].temp[s] /\ h = <<e, <<s, j>> >>
    BY <1>5
  <2>3. /\ m[g] = IF d \in DOMAIN f THEN <<n, <<q, i>> >> ELSE g
        /\ m[h] = IF e \in DOMAIN f THEN <<n, <<s, j>> >> ELSE h
    BY <2>1, <2>2
  <2> HIDE DEF m
  <2>4. CASE d \in DOMAIN f /\ e \in DOMAIN f
    <3>1. q = s /\ i = j
      <4>1. m[g] = <<n, <<q, i>> >> /\ m[h] = <<n, <<s, j>> >>
        BY <2>3, <2>4
      <4>2. <<n, <<q, i>> >> = <<n, <<s, j>> >>
        BY <1>10, <4>1
      <4> QED
        BY <4>2
    <3>2. In(q, d) /\ In(q, e) /\ t[d].temp # NoPoints /\ t[e].temp # NoPoints
      BY <1>6, <2>1, <2>2, <2>4, <3>1
    <3>3. d \in Node /\ e \in Node
      BY <1>1
    <3>4. ~Above(d, e) /\ ~Above(e, d)
      BY <1>1, <3>2, <3>3 DEF Divided
    <3>5. d = e
      BY <3>2, <3>3, <3>4, Pairs
    <3> QED
      BY <2>1, <2>2, <3>1, <3>5
  <2>5. CASE d \in DOMAIN f /\ e \notin DOMAIN f
    <3>1. e = n
      BY <1>10, <2>2, <2>3, <2>5
    <3> QED
      BY <1>1, <1>7, <1>8, <2>2, <2>5, <3>1
  <2>6. CASE d \notin DOMAIN f /\ e \in DOMAIN f
    <3>1. d = n
      BY <1>10, <2>1, <2>3, <2>6
    <3> QED
      BY <1>1, <1>7, <1>8, <2>1, <2>6, <3>1
  <2>7. CASE d \notin DOMAIN f /\ e \notin DOMAIN f
    BY <1>10, <2>3, <2>7
  <2> QED
    BY <2>4, <2>5, <2>6, <2>7
<1>11. m \in Injection(K, T)
  <2>1. m \in [K -> T]
    BY <1>9
  <2> QED
    BY <1>10, <2>1 DEF Injection, IsInjective
<1> HIDE DEF m, K, T
<1>12. Cardinality(K) <= Cardinality(T)
  BY <1>4, <1>11, FS_Injection
<1> QED
  BY <1>3, <1>4, <1>12 DEF K, T, t

LEMMA GatheredIs ==
  ASSUME NEW t
  PROVE  \A h : h \in Gathered(t) <=> \E d \in DOMAIN t : \E i \in 1 .. t[d].new : h = <<d, i>>
BY DEF Gathered

\* The points gathered at n after a step are those before it, and one more
\* when the step adds one.
LEMMA GatheredMoves ==
  ASSUME IInv, NEW n \in Node, ~PassesOn(n), \A a \in Node : Above(a, n) => PassesOn(a),
         NEW r, NEW f, NEW k \in Nat, received <= k, Grown(n, r, f, k),
         \A d \in DOMAIN f : f[d].new = 0, NEW j \in Nat,
         j = IF Exists(n) THEN tree[n].new ELSE 0
  PROVE  /\ r.new <= j => Gathered(Grow(n, r, f)) \subseteq Gathered(tree)
         /\ r.new <= j + 1 => Gathered(Grow(n, r, f)) \subseteq Gathered(tree) \cup {<<n, j + 1>>}
<1> DEFINE t == Grow(n, r, f)
<1>1. /\ DOMAIN t = DOMAIN tree \cup {n} \cup DOMAIN f /\ DOMAIN t \subseteq Node
      /\ t[n] = r /\ n \notin DOMAIN f /\ DOMAIN f \cap DOMAIN tree = {}
      /\ \A d \in DOMAIN f : t[d] = f[d]
      /\ \A d \in DOMAIN tree : d # n => t[d] = Passed(n)[d]
      /\ \A d \in DOMAIN t : Sound(d, t[d], k)
      /\ \A d \in DOMAIN t : \A a \in Node : Above(a, d) => a \in DOMAIN t /\ Divided(t[a])
  BY GrowIs
<1>2. r.new \in Nat
  BY DEF Grown, Sound, Record
<1> HIDE DEF t
<1>3. ASSUME NEW d \in DOMAIN t, d # n, NEW i \in 1 .. t[d].new
      PROVE  <<d, i>> \in Gathered(tree)
  <2>1. d \notin DOMAIN f
    BY <1>1
  <2>2. d \in DOMAIN tree /\ t[d] = Passed(n)[d]
    BY <1>1, <1>3, <2>1
  <2>3. t[d].new = (IF Above(d, n) THEN 0 ELSE tree[d].new)
    BY <2>2, PassedFields
  <2>4. i \in 1 .. tree[d].new
    BY <2>3
  <2> QED
    BY <2>2, <2>4, GatheredIs
<1>4. ASSUME NEW i \in 1 .. j PROVE <<n, i>> \in Gathered(tree)
  <2>1. Exists(n) /\ i \in 1 .. tree[n].new
    OBVIOUS
  <2> QED
    BY <2>1, GatheredIs DEF Exists
<1>5. ASSUME r.new <= j, NEW i \in 1 .. r.new PROVE <<n, i>> \in Gathered(tree)
  BY <1>2, <1>4, <1>5
<1>6. ASSUME r.new <= j + 1, NEW i \in 1 .. r.new
      PROVE  <<n, i>> \in Gathered(tree) \cup {<<n, j + 1>>}
  <2>1. i \in 1 .. j \/ i = j + 1
    BY <1>2, <1>6
  <2> QED
    BY <1>4, <2>1
<1>7. ASSUME r.new <= j PROVE Gathered(t) \subseteq Gathered(tree)
  <2>1. ASSUME NEW h \in Gathered(t) PROVE h \in Gathered(tree)
    <3>1. PICK d \in DOMAIN t, i \in Nat : i \in 1 .. t[d].new /\ h = <<d, i>>
      BY GatheredIs
    <3> QED
      BY <1>1, <1>3, <1>5, <1>7, <3>1
  <2> QED
    BY <2>1
<1>8. ASSUME r.new <= j + 1 PROVE Gathered(t) \subseteq Gathered(tree) \cup {<<n, j + 1>>}
  <2>1. ASSUME NEW h \in Gathered(t) PROVE h \in Gathered(tree) \cup {<<n, j + 1>>}
    <3>1. PICK d \in DOMAIN t, i \in Nat : i \in 1 .. t[d].new /\ h = <<d, i>>
      BY GatheredIs
    <3> QED
      BY <1>1, <1>3, <1>6, <1>8, <3>1
  <2> QED
    BY <2>1
<1> QED
  BY <1>7, <1>8 DEF t

-----------------------------------------------------------------------------
(* The two operations are such steps.                                      *)

OldList(n) == IF Exists(n) THEN tree[n].temp ELSE NoPoints
OldNew(n)  == IF Exists(n) THEN tree[n].new ELSE 0

\* A point updateVoxelMap gives to the voxel.
LEMMA UpdateIs ==
  ASSUME IInv, NEW p \in Point, UpdateVoxel(p)
  PROVE  LET n == Recipient(p) IN
         \E r, f :
           /\ tree' = Grow(n, r, f) /\ Grown(n, r, f, received + 1)
           /\ \/ Moved(r, f, With(OldList(n), p)) /\ r.new <= OldNew(n)
              \/ Moved(r, f, OldList(n)) /\ r.new <= OldNew(n) + 1
           /\ Exists(n) /\ tree[n].isPlane /\ ~tree[n].updCov =>
                r.isPlane /\ r.fitted = tree[n].fitted
<1> DEFINE n == Recipient(p)
           old == IF Exists(n) THEN tree[n] ELSE NewNode
           r == [old EXCEPT !.temp = With(@, p), !.newNum = @ + 1, !.allNum = @ + 1]
           k == received + 1
<1>1. n \in Node /\ In(p, n) /\ ~PassesOn(n)
  BY RecipientIs
<1>2. received \in Nat /\ covLimit \in Nat
  BY ConstantsAssumption DEF IInv
<1> USE DEF UpdateVoxel
<1>3. CASE old.init
  <2>1. Exists(n) /\ old = tree[n]
    BY <1>3 DEF NewNode
  <2>2. PICK planar \in SUBSET {n} :
          tree' = Put(Passed(n), n, UpdateHolder(tree[n], n, p, planar), <<>>)
    BY <1>3
  <2> DEFINE h == UpdateHolder(tree[n], n, p, planar)
  <2>3. Sound(n, tree[n], received)
    BY <2>1 DEF IInv, Exists
  <2>4. tree[n].isPlane \/ Layer(n) = MaxLayers
    BY <1>1, <1>3, <2>1 DEF PassesOn, Holds
  <2>5. /\ Grown(n, h, <<>>, k)
        /\ \/ /\ \A q \in Point : h.temp[q] <= With(tree[n].temp, p)[q]
              /\ h.new <= tree[n].new
           \/ /\ \A q \in Point : h.temp[q] <= tree[n].temp[q]
              /\ h.new <= tree[n].new + 1
        /\ tree[n].isPlane /\ ~tree[n].updCov => h.isPlane /\ h.fitted = tree[n].fitted
    BY <1>1, <1>2, <1>3, <2>1, <2>3, <2>4, HolderIs
  <2>6. OldList(n) = tree[n].temp /\ OldNew(n) = tree[n].new /\ DOMAIN <<>> = {}
    BY <2>1 DEF OldList, OldNew
  <2>7. tree' = Grow(n, h, <<>>)
    BY <2>2 DEF Grow
  <2> HIDE DEF h, n
  <2>8. \/ Moved(h, <<>>, With(OldList(n), p)) /\ h.new <= OldNew(n)
        \/ Moved(h, <<>>, OldList(n)) /\ h.new <= OldNew(n) + 1
    BY <2>5, <2>6 DEF Moved
  <2> QED
    BY <2>5, <2>7, <2>8 DEF n
<1>4. CASE ~old.init
  <2>1. old \in Record /\ old.temp = Inside(old.temp, n) /\ ~old.isPlane /\ old.new = 0
        /\ old.allNum <= received /\ old.newNum <= received /\ Size(old.temp) <= received
        /\ old.temp = OldList(n) /\ OldNew(n) = 0 /\ (Exists(n) => ~tree[n].isPlane)
    <3>1. CASE Exists(n)
      <4>1. old = tree[n] /\ Sound(n, tree[n], received)
        BY <3>1 DEF IInv, Exists
      <4>2. OldList(n) = tree[n].temp /\ OldNew(n) = tree[n].new
        BY <3>1 DEF OldList, OldNew
      <4>3. Size(old.temp) \in Nat /\ old.new \in Nat
        BY <4>1, SizeNat DEF Sound, Record
      <4> HIDE DEF old, n
      <4>4. old \in Record /\ old.temp = Inside(old.temp, n) /\ Counted(old, received)
        BY <4>1 DEF Sound
      <4>5. ~old.isPlane /\ old.new = 0
        BY <1>4, <4>4, Zenon DEF Counted
      <4>6. old.allNum <= received /\ old.newNum <= received /\ Size(old.temp) <= received
        BY <1>2, <4>3, <4>4, <4>5 DEF Counted
      <4> QED
        BY <4>1, <4>2, <4>4, <4>5, <4>6
    <3>2. CASE ~Exists(n)
      <4>1. old = NewNode /\ OldList(n) = NoPoints /\ OldNew(n) = 0
        BY <3>2 DEF OldList, OldNew
      <4> HIDE DEF old, n
      <4>2. /\ old.temp = NoPoints /\ ~old.isPlane /\ old.new = 0 /\ old.allNum = 0
            /\ old.newNum = 0
        BY <4>1 DEF NewNode
      <4> QED
        BY <1>1, <1>2, <3>2, <4>1, <4>2, NewNodeIs, InsideEmpty, SizeNone
    <3> QED
      BY <3>1, <3>2
  <2> DEFINE T == With(OldList(n), p)
  <2>2. OldList(n) \in [Point -> Nat] /\ OldList(n) = Inside(OldList(n), n)
        /\ Size(OldList(n)) <= received
    BY <2>1 DEF Record
  <2>3. T \in [Point -> Nat] /\ T = Inside(T, n) /\ Size(T) = Size(OldList(n)) + 1
    BY <1>1, <2>2, SizeWith, InsideWith
  <2>4. Size(T) \in Nat /\ Size(T) <= k
    BY <1>2, <2>2, <2>3, SizeNat
  <2> HIDE DEF T
  <2>5. r = [old EXCEPT !.temp = T, !.newNum = old.newNum + 1, !.allNum = old.allNum + 1]
    BY <2>1 DEF T
  <2>6. /\ r \in Record /\ r.temp = T /\ r.new = 0 /\ r.isPlane = old.isPlane
        /\ r.init = old.init /\ r.newNum = old.newNum + 1 /\ r.allNum = old.allNum + 1
    <3> HIDE DEF old, r
    <3>1. old \in Record /\ T \in [Point -> Nat] /\ old.new = 0
      BY <2>1, <2>3
    <3>2. r \in Record
      <4>1. \A e \in [Point -> Nat] : \A i, j \in Nat :
              [old EXCEPT !.temp = e, !.newNum = i, !.allNum = j] \in Record
        BY <3>1 DEF Record
      <4>2. old.newNum + 1 \in Nat /\ old.allNum + 1 \in Nat
        BY <3>1 DEF Record
      <4> QED
        BY <2>5, <3>1, <4>1, <4>2
    <3>3. r.temp = T /\ r.new = 0 /\ r.newNum = old.newNum + 1 /\ r.allNum = old.allNum + 1
      BY <2>5, <3>1 DEF Record
    <3>4. r.isPlane = old.isPlane /\ r.init = old.init
      BY <2>5, <3>1 DEF Record
    <3> QED
      BY <3>2, <3>3, <3>4
  <2>7. old.newNum \in Nat /\ old.allNum \in Nat /\ r.fitted = old.fitted
    <3> HIDE DEF old, r
    <3> QED
      BY <2>1, <2>5 DEF Record
  <2>8. r.newNum <= k /\ r.allNum <= k
    <3> HIDE DEF old, r
    <3> QED
      BY <1>2, <2>1, <2>6, <2>7
  <2>9. CASE Enough(r.temp, n)
    <3>1. PICK planar \in SUBSET Fittable(r.temp, n) : tree' = FirstFit(Passed(n), n, r, planar)
      BY <1>4, <2>9
    <3> HIDE DEF r, old, n
    <3>2. PICK s, f : /\ FirstFit(Passed(n), n, r, planar) = Put(Passed(n), n, s, f)
                      /\ Grown(n, s, f, k) /\ Moved(s, f, r.temp) /\ s.new = 0
      <4>1. /\ r \in Record /\ r.temp = Inside(r.temp, n) /\ r.new = 0 /\ r.allNum <= k
            /\ Size(r.temp) <= k /\ k \in Nat /\ n \in Node /\ covLimit \in Nat
        BY <1>1, <1>2, <2>3, <2>4, <2>6, <2>8
      <4> HIDE DEF k
      <4> QED
        BY <4>1, FirstFitIs
    <3>3. tree' = Grow(n, s, f)
      BY <3>1, <3>2 DEF Grow
    <3>4. s.new <= OldNew(n)
      BY <2>1, <3>2
    <3> QED
      BY <2>1, <2>6, <3>2, <3>3, <3>4 DEF T, n
  <2>10. CASE ~Enough(r.temp, n)
    <3>1. tree' = Grow(n, r, <<>>)
      BY <1>4, <2>10 DEF Grow
    <3>2. DOMAIN <<>> = {}
      OBVIOUS
    <3>3. Counted(r, k)
      <4>1. r.fitted + r.new <= k
        <5>1. old.fitted + old.new <= received /\ old.fitted \in Nat
          <6>1. CASE Exists(n)
            BY <6>1 DEF IInv, Exists, Sound, Counted, Record
          <6>2. CASE ~Exists(n)
            BY <1>2, <6>2 DEF NewNode
          <6> QED
            BY <6>1, <6>2
        <5> HIDE DEF old, r, n
        <5> QED
          BY <1>2, <2>1, <2>6, <2>7, <5>1
      <4> HIDE DEF old, r, n
      <4>2. Size(r.temp) + r.new <= k
        BY <1>2, <2>4, <2>6
      <4>3. ~r.isPlane
        BY <2>1, <2>6, Zenon
      <4> QED
        BY <2>6, <2>8, <4>1, <4>2, <4>3, Zenon DEF Counted
    <3> HIDE DEF old, r, n
    <3>4. Lags(n, r)
      BY <1>4, <2>6, Zenon DEF Lags
    <3>5. Grown(n, r, <<>>, k)
      BY <2>3, <2>6, <3>2, <3>3, <3>4, Zenon DEF Grown, Sound
    <3>6. Moved(r, <<>>, T) /\ r.new <= OldNew(n)
      BY <2>1, <2>3, <2>6, <3>2 DEF Moved
    <3> QED
      BY <2>1, <3>1, <3>5, <3>6 DEF T, n
  <2> QED
    BY <2>9, <2>10
<1> QED
  BY <1>3, <1>4

\* Building the voxel from a first batch of points.
LEMMA BuildIs ==
  ASSUME IInv, NEW P \in [Point -> 0 .. MaxReceived], BuildVoxel(P)
  PROVE  /\ tree' # tree /\ DOMAIN tree = {} /\ received = 0 /\ received' = Size(P)
         /\ Root \in Node /\ ~PassesOn(Root) /\ \A a \in Node : ~Above(a, Root)
         /\ \E r, f : /\ tree' = Grow(Root, r, f) /\ Grown(Root, r, f, Size(P))
                      /\ Moved(r, f, P) /\ r.new = 0
<1> DEFINE r == [NewNode EXCEPT !.temp = P, !.newNum = Size(P), !.allNum = Size(P)]
<1> USE DEF BuildVoxel
<1>1. P \in [Point -> Nat] /\ Size(P) \in Nat /\ covLimit \in Nat /\ received = 0
      /\ received' = Size(P)
  <2>1. P \in [Point -> Nat]
    BY ConstantsAssumption
  <2> QED
    BY <2>1, SizeNat, ConstantsAssumption DEF IInv
<1>2. Root \in Node /\ Layer(Root) = 0
  <2>1. 0 \in 0 .. MaxLayers /\ Root \in [1 .. 0 -> Octants]
    BY ConstantsAssumption DEF Root
  <2> QED
    BY <2>1 DEF Node, Layer, Root
<1>3. \A a \in Node : a # Root => Above(Root, a)
  <2>1. ASSUME NEW a \in Node, a # Root PROVE Above(Root, a)
    <3>1. Layer(a) \in Nat
      BY NodeIs, ConstantsAssumption
    <3>2. Layer(a) # 0
      BY <1>2, <2>1, NodeEqual
    <3> QED
      BY <1>2, <3>1, <3>2, AboveIs
  <2> QED
    BY <2>1
<1>4. DOMAIN tree = {}
  BY <1>2, <1>3 DEF IInv, AboveDivided, Exists
<1>5. ~PassesOn(Root) /\ \A a \in Node : ~Above(a, Root)
  BY <1>2, NodeIs, ConstantsAssumption DEF PassesOn, Above
<1>6. \A s, f : Put(<<>>, Root, s, f) = Grow(Root, s, f)
  <2>1. ASSUME NEW s, NEW f PROVE Put(<<>>, Root, s, f) = Grow(Root, s, f)
    <3>1. DOMAIN <<>> = {} /\ DOMAIN Passed(Root) = {}
      BY <1>4, PassedIs
    <3> QED
      BY <3>1 DEF Put, Grow
  <2> QED
    BY <2>1
<1>8. P = Inside(P, Root)
  <2>1. ASSUME NEW p \in Point PROVE In(p, Root)
    <3>1. p \in Node /\ Layer(p) \in Nat
      BY PointIs, ConstantsAssumption
    <3> QED
      BY <1>2, <3>1, InIs
  <2>2. Inside(P, Root) \in [Point -> Nat] /\ \A p \in Point : Inside(P, Root)[p] = P[p]
    BY <1>1, <1>2, <2>1, InsideIs
  <2> QED
    BY <1>1, <2>2
<1>9. r \in Record
  <2>1. \A e \in [Point -> Nat] : \A i, j \in Nat :
          [NewNode EXCEPT !.temp = e, !.newNum = i, !.allNum = j] \in Record
    BY NewNodeIs DEF Record
  <2> QED
    BY <1>1, <2>1
<1>10. /\ r.temp = P /\ r.new = 0 /\ r.fitted = 0 /\ r.newNum = Size(P) /\ r.allNum = Size(P)
       /\ ~r.init /\ ~r.isPlane
  BY DEF NewNode
<1>11. \E s, f : tree' = Put(<<>>, Root, s, f) /\ Grown(Root, s, f, Size(P)) /\ Moved(s, f, P)
                 /\ s.new = 0
  <2>1. CASE Enough(P, Root)
    <3>1. PICK planar \in SUBSET Fittable(P, Root) : tree' = FirstFit(<<>>, Root, r, planar)
      BY <2>1
    <3>2. /\ r.temp = Inside(r.temp, Root) /\ r.allNum <= Size(P) /\ Size(r.temp) <= Size(P)
          /\ planar \in SUBSET Fittable(r.temp, Root)
      <4> HIDE DEF r
      <4> QED
        BY <1>1, <1>8, <1>10
    <3> HIDE DEF r
    <3>3. \E s, f : /\ FirstFit(<<>>, Root, r, planar) = Put(<<>>, Root, s, f)
                    /\ Grown(Root, s, f, Size(P)) /\ Moved(s, f, r.temp) /\ s.new = 0
      BY <1>1, <1>2, <1>9, <1>10, <3>2, FirstFitIs
    <3> QED
      BY <1>10, <3>1, <3>3
  <2>2. CASE ~Enough(P, Root)
    <3>1. tree' = Put(<<>>, Root, r, <<>>)
      BY <2>2
    <3>2. DOMAIN <<>> = {}
      OBVIOUS
    <3> HIDE DEF r
    <3>3. Size(r.temp) + r.new <= Size(P) /\ r.fitted + r.new <= Size(P)
          /\ r.newNum <= Size(P) /\ r.allNum <= Size(P)
      BY <1>1, <1>10
    <3>4. Counted(r, Size(P))
      BY <1>10, <3>3, Zenon DEF Counted
    <3>5. Lags(Root, r)
      BY <1>10, Zenon DEF Lags
    <3>6. Grown(Root, r, <<>>, Size(P))
      BY <1>8, <1>9, <1>10, <3>2, <3>4, <3>5, Zenon DEF Grown, Sound
    <3>7. \A q \in Point : r.temp[q] <= P[q]
      BY <1>1, <1>10
    <3>8. Moved(r, <<>>, P)
      BY <3>2, <3>7, Zenon DEF Moved
    <3> QED
      BY <1>10, <3>1, <3>6, <3>8
  <2> QED
    BY <2>1, <2>2
<1>12. PICK s, f : tree' = Put(<<>>, Root, s, f) /\ Grown(Root, s, f, Size(P)) /\ Moved(s, f, P)
                   /\ s.new = 0
  BY <1>11
<1>13. tree' = Grow(Root, s, f)
  BY <1>6, <1>12
<1>14. Root \in DOMAIN tree'
  BY <1>12 DEF Put
<1> QED
  BY <1>1, <1>2, <1>4, <1>5, <1>12, <1>13, <1>14

-----------------------------------------------------------------------------
(* The invariant, and the properties.                                      *)

LEMMA InitInv == Init => IInv
<1> SUFFICES ASSUME Init PROVE IInv
  OBVIOUS
<1>1. DOMAIN tree = {} /\ received = 0 /\ covLimit \in CovLimits
  BY DEF Init
<1>2. Kept(tree) = {} /\ Gathered(tree) = {}
  BY <1>1 DEF Kept, Gathered
<1>3. PointsHeldOnce
  BY <1>1, <1>2, FS_EmptySet DEF PointsHeldOnce
<1> QED
  BY <1>1, <1>3, ConstantsAssumption DEF IInv, AboveDivided

\* Each step holds what was held, and at most one point more.
LEMMA UpdateHolds ==
  ASSUME IInv, NEW p \in Point, UpdateVoxel(p)
  PROVE  PointsHeldOnce'
<1> DEFINE n == Recipient(p)
           old == OldList(n)
           j == OldNew(n)
<1>1. /\ n \in Node /\ ~PassesOn(n)
      /\ \A a \in Node : Above(a, n) => PassesOn(a)
  BY RecipientIs
<1>2. PICK r, f :
        /\ tree' = Grow(n, r, f) /\ Grown(n, r, f, received + 1)
        /\ \/ Moved(r, f, With(old, p)) /\ r.new <= j
           \/ Moved(r, f, old) /\ r.new <= j + 1
  BY UpdateIs
<1>3. old \in [Point -> Nat] /\ j \in Nat /\ j = IF Exists(n) THEN tree[n].new ELSE 0
  <2>1. CASE Exists(n)
    BY <2>1 DEF OldList, OldNew, IInv, Exists, Sound, Record
  <2>2. CASE ~Exists(n)
    BY <2>2, SizeNone DEF OldList, OldNew
  <2> QED
    BY <2>1, <2>2
<1>4. received \in Nat /\ received' = received + 1
  BY ConstantsAssumption DEF IInv, UpdateVoxel
<1>5. ASSUME NEW c \in Copies(old) PROVE <<n, c>> \in Kept(tree)
  <2>1. CASE Exists(n)
    <3>1. old = tree[n].temp /\ n \in DOMAIN tree
      BY <2>1 DEF OldList, Exists
    <3> QED
      BY <3>1, KeptIs
  <2>2. CASE ~Exists(n)
    BY <2>2, SizeNone DEF OldList
  <2> QED
    BY <2>1, <2>2
<1> DEFINE K == Kept(tree)
           G == Gathered(tree)
<1>6. IsFiniteSet(K) /\ IsFiniteSet(G) /\ Cardinality(K) \in Nat /\ Cardinality(G) \in Nat
      /\ Cardinality(K) + Cardinality(G) <= received
  BY TreeFinite, FS_CardinalityType DEF IInv, PointsHeldOnce
<1> DEFINE K2 == Kept(Grow(n, r, f))
           G2 == Gathered(Grow(n, r, f))
           T(Q) == {h \in Kept(tree) : h[1] # n} \cup ({n} \X Copies(Q))
           x == <<n, <<p, old[p] + 1>> >>
<1> HIDE DEF n, old, j
<1>7. ASSUME NEW Q \in [Point -> Nat], Moved(r, f, Q)
      PROVE  /\ IsFiniteSet(K2) /\ IsFiniteSet(T(Q)) /\ IsFiniteSet(G2)
             /\ Cardinality(K2) <= Cardinality(T(Q))
  <2>1. received + 1 \in Nat /\ received <= received + 1
    BY <1>4
  <2> QED
    BY <1>1, <1>2, <1>7, <2>1, KeptMoves
<1>8. /\ r.new <= j => G2 \subseteq G
      /\ r.new <= j + 1 => G2 \subseteq G \cup {<<n, j + 1>>}
  <2>1. received + 1 \in Nat /\ received <= received + 1 /\ \A d \in DOMAIN f : f[d].new = 0
    BY <1>2, <1>4 DEF Moved
  <2> QED
    BY <1>1, <1>2, <1>3, <2>1, GatheredMoves
<1>9. Cardinality(K2) + Cardinality(G2) <= received + 1
  <2>1. CASE Moved(r, f, With(old, p)) /\ r.new <= j
    <3>1. With(old, p) \in [Point -> Nat]
          /\ Copies(With(old, p)) = Copies(old) \cup {<<p, old[p] + 1>>}
      BY <1>3, SizeWith
    <3>2. T(With(old, p)) \subseteq K \cup {x}
      BY <1>5, <3>1
    <3>3. IsFiniteSet(K2) /\ IsFiniteSet(T(With(old, p))) /\ IsFiniteSet(G2)
          /\ Cardinality(K2) <= Cardinality(T(With(old, p))) /\ G2 \subseteq G
      BY <1>7, <1>8, <2>1, <3>1
    <3> DEFINE U == T(With(old, p))
    <3> HIDE DEF U, K, G, K2, G2, T, x
    <3>4. IsFiniteSet(K \cup {x}) /\ Cardinality(K \cup {x}) <= Cardinality(K) + 1
      <4>1. /\ IsFiniteSet(K \cup {x})
            /\ Cardinality(K \cup {x}) =
                 IF x \in K THEN Cardinality(K) ELSE Cardinality(K) + 1
        BY <1>6, FS_AddElement
      <4> QED
        BY <1>6, <4>1
    <3>5. Cardinality(U) <= Cardinality(K \cup {x}) /\ Cardinality(G2) <= Cardinality(G)
      BY <1>6, <3>2, <3>3, <3>4, FS_Subset DEF U
    <3>6. Cardinality(U) \in Nat /\ Cardinality(K2) \in Nat /\ Cardinality(G2) \in Nat
          /\ Cardinality(K \cup {x}) \in Nat
      BY <3>3, <3>4, FS_CardinalityType DEF U
    <3>7. Cardinality(K2) <= Cardinality(U)
      BY <3>3 DEF U
    <3> QED
      BY <1>4, <1>6, <3>4, <3>5, <3>6, <3>7
  <2>2. CASE Moved(r, f, old) /\ r.new <= j + 1
    <3>1. T(old) \subseteq K
      BY <1>5
    <3>2. IsFiniteSet(K2) /\ IsFiniteSet(T(old)) /\ IsFiniteSet(G2)
          /\ Cardinality(K2) <= Cardinality(T(old)) /\ G2 \subseteq G \cup {<<n, j + 1>>}
      BY <1>3, <1>7, <1>8, <2>2
    <3> DEFINE U == T(old)
               y == <<n, j + 1>>
    <3> HIDE DEF U, K, G, K2, G2, T, y
    <3>3. IsFiniteSet(G \cup {y}) /\ Cardinality(G \cup {y}) <= Cardinality(G) + 1
      <4>1. /\ IsFiniteSet(G \cup {y})
            /\ Cardinality(G \cup {y}) =
                 IF y \in G THEN Cardinality(G) ELSE Cardinality(G) + 1
        BY <1>6, FS_AddElement
      <4> QED
        BY <1>6, <4>1
    <3>4. Cardinality(U) <= Cardinality(K) /\ Cardinality(G2) <= Cardinality(G \cup {y})
      BY <1>6, <3>1, <3>2, <3>3, FS_Subset DEF U, y
    <3>5. Cardinality(U) \in Nat /\ Cardinality(K2) \in Nat /\ Cardinality(G2) \in Nat
          /\ Cardinality(G \cup {y}) \in Nat
      BY <3>2, <3>3, FS_CardinalityType DEF U
    <3>6. Cardinality(K2) <= Cardinality(U)
      BY <3>2 DEF U
    <3> QED
      BY <1>4, <1>6, <3>3, <3>4, <3>5, <3>6
  <2> QED
    BY <1>2, <2>1, <2>2
<1> QED
  BY <1>2, <1>4, <1>9 DEF PointsHeldOnce

LEMMA BuildHolds ==
  ASSUME IInv, NEW P \in [Point -> 0 .. MaxReceived], BuildVoxel(P)
  PROVE  PointsHeldOnce'
<1>1. /\ DOMAIN tree = {} /\ received = 0 /\ received' = Size(P)
      /\ Root \in Node /\ ~PassesOn(Root) /\ \A a \in Node : ~Above(a, Root)
  BY BuildIs
<1>2. PICK r, f : /\ tree' = Grow(Root, r, f) /\ Grown(Root, r, f, Size(P))
                  /\ Moved(r, f, P) /\ r.new = 0
  BY BuildIs
<1>3. P \in [Point -> Nat] /\ Size(P) \in Nat
  <2>1. P \in [Point -> Nat]
    BY ConstantsAssumption
  <2> QED
    BY <2>1, SizeNat
<1>4. Kept(tree) = {} /\ Gathered(tree) = {}
  BY <1>1 DEF Kept, Gathered
<1> DEFINE K2 == Kept(Grow(Root, r, f))
           G2 == Gathered(Grow(Root, r, f))
           T == {h \in Kept(tree) : h[1] # Root} \cup ({Root} \X Copies(P))
<1>5. received <= Size(P) /\ \A a \in Node : Above(a, Root) => PassesOn(a)
  BY <1>1, <1>3
<1>6. IsFiniteSet(K2) /\ IsFiniteSet(G2) /\ Cardinality(K2) <= Cardinality(T)
  BY <1>1, <1>2, <1>3, <1>5, KeptMoves
<1>7. G2 = {}
  <2>1. ~Exists(Root) /\ \A d \in DOMAIN f : f[d].new = 0
    BY <1>1, <1>2 DEF Exists, Moved
  <2>2. r.new <= 0 => G2 \subseteq Gathered(tree)
    <3>1. 0 \in Nat /\ 0 = IF Exists(Root) THEN tree[Root].new ELSE 0
      BY <2>1
    <3> QED
      BY <1>1, <1>2, <1>3, <1>5, <2>1, <3>1, GatheredMoves
  <2> QED
    BY <1>2, <1>4, <2>2
<1>8. Cardinality(T) = Size(P)
  <2>1. T = {Root} \X Copies(P)
    BY <1>4
  <2>2. IsFiniteSet(Copies(P)) /\ IsFiniteSet({Root}) /\ Cardinality({Root}) = 1
    BY <1>3, SizeNat, FS_Singleton
  <2>3. Cardinality({Root} \X Copies(P)) = 1 * Cardinality(Copies(P))
    BY <2>2, FS_Product
  <2> HIDE DEF T
  <2> QED
    BY <1>3, <2>1, <2>3 DEF Size
<1>9. Cardinality(K2) + Cardinality(G2) <= Size(P)
  <2> HIDE DEF K2, G2, T
  <2>1. Cardinality(K2) \in Nat /\ Cardinality(G2) = 0
    BY <1>6, <1>7, FS_CardinalityType, FS_EmptySet
  <2> QED
    BY <1>3, <1>6, <1>8, <2>1
<1> QED
  BY <1>1, <1>2, <1>9 DEF PointsHeldOnce

\* What GrowIs says of a step, said of the next state.
LEMMA GrowInv ==
  ASSUME IInv, NEW n \in Node, ~PassesOn(n), \A a \in Node : Above(a, n) => PassesOn(a),
         NEW r, NEW f, tree' = Grow(n, r, f), Grown(n, r, f, received'),
         received' \in 0 .. MaxReceived, received <= received', covLimit' = covLimit,
         PointsHeldOnce', n = Root \/ Above(Root, n)
  PROVE  IInv'
<1>1. received' \in Nat
  BY ConstantsAssumption
<1>2. /\ DOMAIN tree' = DOMAIN tree \cup {n} \cup DOMAIN f /\ DOMAIN tree' \subseteq Node
      /\ \A d \in DOMAIN tree' : Sound(d, tree'[d], received')
      /\ \A d \in DOMAIN tree' : \A a \in Node :
           Above(a, d) => a \in DOMAIN tree' /\ Divided(tree'[a])
  BY <1>1, GrowIs
<1>3. Root \in DOMAIN tree'
  <2>1. CASE n = Root
    BY <1>2, <2>1
  <2>2. CASE Above(Root, n)
    <3>1. Root \in Node
      <4>1. 0 \in 0 .. MaxLayers /\ Root \in [1 .. 0 -> Octants]
        BY ConstantsAssumption DEF Root
      <4> QED
        BY <4>1 DEF Node
    <3> QED
      BY <1>2, <2>2, <3>1
  <2> QED
    BY <2>1, <2>2
<1>4. covLimit' \in CovLimits
  BY DEF IInv
<1> QED
  BY <1>2, <1>3, <1>4 DEF IInv, AboveDivided, Exists

LEMMA RootAbove ==
  ASSUME NEW n \in Node
  PROVE  n = Root \/ Above(Root, n)
<1>1. Root \in Node /\ Layer(Root) = 0
  <2>1. 0 \in 0 .. MaxLayers /\ Root \in [1 .. 0 -> Octants]
    BY ConstantsAssumption DEF Root
  <2> QED
    BY <2>1 DEF Node, Layer, Root
<1>2. Layer(n) \in Nat
  BY NodeIs, ConstantsAssumption
<1>3. CASE Layer(n) = 0
  BY <1>1, <1>3, NodeEqual
<1>4. CASE Layer(n) # 0
  BY <1>1, <1>2, <1>4, AboveIs
<1> QED
  BY <1>3, <1>4

LEMMA NextInv == IInv /\ [Next]_vars => IInv'
<1> SUFFICES ASSUME IInv, [Next]_vars PROVE IInv'
  OBVIOUS
<1>1. ASSUME NEW P \in [Point -> 0 .. MaxReceived], BuildVoxel(P) PROVE IInv'
  <2>1. /\ received = 0 /\ received' = Size(P)
        /\ Root \in Node /\ ~PassesOn(Root) /\ \A a \in Node : ~Above(a, Root)
    BY <1>1, BuildIs
  <2>2. PICK r, f : /\ tree' = Grow(Root, r, f) /\ Grown(Root, r, f, Size(P))
    BY <1>1, BuildIs
  <2>3. received' \in 0 .. MaxReceived /\ received <= received' /\ covLimit' = covLimit
    BY <1>1, <2>1, ConstantsAssumption DEF BuildVoxel
  <2> QED
    BY <1>1, <2>1, <2>2, <2>3, BuildHolds, GrowInv
<1>2. ASSUME NEW p \in Point, UpdateVoxel(p) PROVE IInv'
  <2> DEFINE n == Recipient(p)
  <2>1. /\ n \in Node /\ ~PassesOn(n) /\ \A a \in Node : Above(a, n) => PassesOn(a)
    BY RecipientIs
  <2>2. PICK r, f : tree' = Grow(n, r, f) /\ Grown(n, r, f, received + 1)
    BY <1>2, UpdateIs
  <2>3. received' = received + 1 /\ received' \in 0 .. MaxReceived /\ received <= received'
        /\ covLimit' = covLimit
    BY <1>2, ConstantsAssumption DEF UpdateVoxel, IInv
  <2>4. n = Root \/ Above(Root, n)
    BY <2>1, RootAbove
  <2> HIDE DEF n
  <2> QED
    BY <1>2, <2>1, <2>2, <2>3, <2>4, UpdateHolds, GrowInv
<1>3. CASE UNCHANGED vars
  BY <1>3 DEF vars, IInv, AboveDivided, Exists, PointsHeldOnce
<1> QED
  BY <1>1, <1>2, <1>3 DEF Next

LEMMA Invariant == Spec => []IInv
BY InitInv, NextInv, PTL DEF Spec

\* The fields keep their types, and a node holds points of its own space only
\* (cutOctoTree, updateOctoTree).
THEOREM TypeCorrect == Spec => []TypeOK
<1>1. IInv => TypeOK
  <2> SUFFICES ASSUME IInv, NEW n \in DOMAIN tree
               PROVE  /\ tree[n] \in [temp : [Point -> 0 .. MaxReceived], new : 0 .. MaxReceived,
                            newNum : 0 .. MaxReceived, allNum : 0 .. MaxReceived, init : BOOLEAN,
                            isPlane : BOOLEAN, fitted : 0 .. MaxReceived, updCov : BOOLEAN,
                            upd : BOOLEAN]
                      /\ tree[n].temp = Inside(tree[n].temp, n)
    BY DEF TypeOK, IInv
  <2> DEFINE r == tree[n]
  <2>1. r \in Record /\ Counted(r, received) /\ r.temp = Inside(r.temp, n)
    BY DEF IInv, Sound
  <2>2. received \in Nat /\ received <= MaxReceived /\ MaxReceived \in Nat
    BY ConstantsAssumption DEF IInv
  <2> HIDE DEF r
  <2>3. r.temp \in [Point -> Nat] /\ r.new \in Nat /\ r.fitted \in Nat /\ r.newNum \in Nat
        /\ r.allNum \in Nat /\ Size(r.temp) \in Nat
    BY <2>1, SizeNat DEF Record
  <2>4. /\ Size(r.temp) + r.new <= received /\ r.fitted + r.new <= received
        /\ r.newNum <= received /\ r.allNum <= received
    BY <2>1 DEF Counted
  <2>5. /\ r.new \in 0 .. MaxReceived /\ r.fitted \in 0 .. MaxReceived
        /\ r.newNum \in 0 .. MaxReceived /\ r.allNum \in 0 .. MaxReceived
    BY <2>2, <2>3, <2>4
  <2>6. ASSUME NEW p \in Point PROVE r.temp[p] \in 0 .. MaxReceived
    <3>1. r.temp[p] <= Size(r.temp) /\ r.temp[p] \in Nat
      BY <2>3, SizePoint
    <3> QED
      BY <2>2, <2>3, <2>4, <3>1
  <2>7. r.temp \in [Point -> 0 .. MaxReceived]
    BY <2>3, <2>6
  <2>8. r \in [temp : [Point -> 0 .. MaxReceived], new : 0 .. MaxReceived,
               newNum : 0 .. MaxReceived, allNum : 0 .. MaxReceived, init : BOOLEAN,
               isPlane : BOOLEAN, fitted : 0 .. MaxReceived, updCov : BOOLEAN, upd : BOOLEAN]
    BY <2>1, <2>5, <2>7 DEF Record
  <2> QED
    BY <2>1, <2>8 DEF r
<1> QED
  BY <1>1, Invariant, PTL

\* No plane of the voxel is hidden above or below another one, and the nodes
\* above an existing one have been divided (buildSingleResidual).
THEOREM PlanesMatched == Spec => []PlanesAllMatched
<1>1. IInv => PlanesAllMatched
  <2> SUFFICES ASSUME IInv PROVE PlanesAllMatched
    OBVIOUS
  <2>1. \A n \in DOMAIN tree : \A a \in Node :
          Above(a, n) => Exists(a) /\ tree[a].init /\ ~tree[a].isPlane
    BY DEF IInv, AboveDivided, Divided
  <2>2. DOMAIN tree \subseteq Node
    BY DEF IInv
  <2> QED
    BY <2>1, <2>2 DEF PlanesAllMatched, Matched
<1> QED
  BY <1>1, Invariant, PTL

\* The plane of a node that keeps its points lags behind them by the points
\* counted as new, and no point is in two lists (initOctoTree, cutOctoTree).
THEOREM ListsAreCounted == Spec => []ListsCounted
<1>1. IInv => ListsCounted
  <2> SUFFICES ASSUME IInv PROVE LagBounded
    BY DEF IInv, ListsCounted
  <2>1. \A n \in DOMAIN tree : Lags(n, tree[n])
    BY DEF IInv, Sound
  <2> QED
    BY <2>1, Zenon DEF LagBounded, Lags, Holds
<1> QED
  BY <1>1, Invariant, PTL

\* A plane past the covariance limit is never fit again, and a node that has
\* been divided never becomes a plane (updateOctoTree).
THEOREM PlanesSettled == Spec => PlanesSettle
<1> DEFINE Settle ==
      \A n \in DOMAIN tree :
        /\ tree[n].isPlane /\ ~tree[n].updCov =>
             tree'[n].isPlane /\ tree'[n].fitted = tree[n].fitted
        /\ tree[n].init /\ ~Holds(n) => ~tree'[n].isPlane
<1>1. IInv /\ [Next]_vars => [Settle]_vars
  <2> SUFFICES ASSUME IInv, Next PROVE Settle
    OBVIOUS
  <2>1. ASSUME NEW P \in [Point -> 0 .. MaxReceived], BuildVoxel(P) PROVE Settle
    BY <2>1, BuildIs
  <2>2. ASSUME NEW p \in Point, UpdateVoxel(p) PROVE Settle
    <3> DEFINE n == Recipient(p)
    <3>1. /\ n \in Node /\ ~PassesOn(n) /\ \A a \in Node : Above(a, n) => PassesOn(a)
      BY RecipientIs
    <3>2. PICK r, f : /\ tree' = Grow(n, r, f) /\ Grown(n, r, f, received + 1)
                      /\ Exists(n) /\ tree[n].isPlane /\ ~tree[n].updCov =>
                           r.isPlane /\ r.fitted = tree[n].fitted
      BY <2>2, UpdateIs
    <3>3. received + 1 \in Nat /\ received <= received + 1
      BY ConstantsAssumption DEF IInv
    <3> HIDE DEF n
    <3>4. Grown(n, r, f, received + 1)
      BY <3>2
    <3>5. /\ tree'[n] = r
          /\ \A d \in DOMAIN tree : d # n => tree'[d].isPlane = tree[d].isPlane
                                           /\ tree'[d].fitted = tree[d].fitted
      <4>1. tree' = Grow(n, r, f)
        BY <3>2
      <4>2. /\ Grow(n, r, f)[n] = r
            /\ \A d \in DOMAIN tree : d # n =>
                 /\ Grow(n, r, f)[d].isPlane = tree[d].isPlane
                 /\ Grow(n, r, f)[d].fitted = tree[d].fitted
        BY <3>1, <3>3, <3>4, GrowFields
      <4> QED
        BY <4>1, <4>2
    <3>6. ASSUME NEW d \in DOMAIN tree
          PROVE  /\ tree[d].isPlane /\ ~tree[d].updCov =>
                      tree'[d].isPlane /\ tree'[d].fitted = tree[d].fitted
                 /\ tree[d].init /\ ~Holds(d) => ~tree'[d].isPlane
      <4>1. CASE d = n
        BY <3>1, <3>2, <3>5, <4>1, Zenon DEF PassesOn, Exists
      <4>2. CASE d # n
        BY <3>5, <4>2, Zenon DEF Holds
      <4> QED
        BY <4>1, <4>2
    <3> QED
      BY <3>6
  <2> QED
    BY <2>1, <2>2 DEF Next
<1>2. Spec => [][Settle]_vars
  BY <1>1, Invariant, PTL DEF Spec
<1> QED
  BY <1>2 DEF PlanesSettle

=============================================================================
