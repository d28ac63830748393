----------------------------- MODULE ImuProcess -----------------------------
(***************************************************************************)
(* What the IMU samples of a scan are used for (ImuProcess::Process with   *)
(* the IKFoM filter), composed with the synchronisation that hands them    *)
(* over (module SensorSync): samples initialise the filter, later ones     *)
(* propagate it from the end of one scan to the end of the next, and the   *)
(* poses on the way undistort the points of the scan.                      *)
(*                                                                         *)
(* The state of the filter is abstracted to the time it has been           *)
(* propagated to, a pose to the time it is labelled with and the time it   *)
(* is really of. Mapping is System::mapping with an initialised IMU: scans *)
(* without samples are registered without the filter.                      *)
(***************************************************************************)
EXTENDS SensorSync

CONSTANTS
  MaxInitCount,  \* maxInitCount: samples the initialisation needs
  UnsetEnds      \* what last_lidar_end_time_, which is not initialised, may be at first

ASSUME ImuAssumption == MaxInitCount \in Nat /\ UnsetEnds \subseteq Int

VARIABLES
  needInit,      \* imu_need_init_
  initIterNum,   \* init_iter_num
  lastImu,       \* last_imu_
  lastLidarEnd,  \* last_lidar_end_time_
  imuPose,       \* IMUpose
  filterTime,    \* the time the filter's state is of
  propagated,    \* history: a scan has been undistorted
  offTrack       \* history: see Undistort

filterVars == <<needInit, initIterNum, lastImu, lastLidarEnd, imuPose, filterTime,
                propagated, offTrack>>
imuProcessVars == <<vars, filterVars>>

ImuInit ==
  /\ Init
  /\ needInit = TRUE /\ initIterNum = 1 /\ lastImu = Earliest
  /\ lastLidarEnd \in UnsetEnds
  /\ imuPose = <<>> /\ filterTime = 0 /\ propagated = FALSE /\ offTrack = FALSE

-----------------------------------------------------------------------------
(* Process, on the samples in meas.imu: imu', as syncPackages has just left
   them there; they are the ones of an earlier scan if there were none. *)

(* IMU_init: the samples enter the means, the pose is the origin at the last *)
InitImu ==
  /\ needInit
  /\ initIterNum' = initIterNum + Len(imu')
  /\ needInit' = (initIterNum' <= MaxInitCount)
  /\ lastImu' = Last(imu') /\ filterTime' = Last(imu')
  /\ UNCHANGED <<lastLidarEnd, imuPose, propagated, offTrack>>

(* v_imu: the samples of the scan behind the last one used before *)
Samples == <<lastImu>> \o imu'

(* The samples the filter is propagated to, and the time it takes: those
   from before the end of the last scan are skipped, and they come first. *)
Used == {k \in 2 .. Len(Samples) : Samples[k] >= lastLidarEnd}
FirstUsed == IF Used = {} THEN Len(Samples) + 1 ELSE First(Used)

Dt(k) == Samples[k] - (IF Samples[k - 1] < lastLidarEnd THEN lastLidarEnd ELSE Samples[k - 1])

TimeAt[k \in 1 .. Len(Samples)] ==
  IF k = 1 THEN filterTime ELSE TimeAt[k - 1] + (IF k \in Used THEN Dt(k) ELSE 0)

(* bug: a pose carries the label of the sample before *)
LabelledPosesHead ==
  <<[label |-> Current.beg, at |-> filterTime]>> \o
  [i \in 1 .. Len(Samples) + 1 - FirstUsed |->
     LET k == FirstUsed - 1 + i IN [label |-> Samples[k - 1], at |-> TimeAt[k]]]

(* The first pose is labelled with the beginning of the scan, whatever time
   the state is of. *)
LabelledPoses ==
  <<[label |-> Current.beg, at |-> filterTime]>> \o
  [i \in 1 .. Len(Samples) + 1 - FirstUsed |->
     LET k == FirstUsed - 1 + i IN [label |-> Samples[k], at |-> TimeAt[k]]]

Distance(a, b) == IF a > b THEN a - b ELSE b - a

(* undistortPcl: forward propagation, and on to the end of the scan, always
   forward. It goes off track where the samples are those of an earlier scan,
   and where the last scan's end was never set and happens to be later than a
   sample. *)
Undistort ==
  /\ ~needInit
  /\ imuPose' = LabelledPoses
  /\ filterTime' = TimeAt[Len(Samples)] + Distance(EndTime, Last(Samples))
  /\ lastImu' = Last(imu')
  /\ lastLidarEnd' = EndTime
  /\ propagated' = TRUE
  /\ offTrack' = (offTrack \/ ~TakesImu \/ (~propagated /\ \E k \in DOMAIN Samples : Samples[k] < lastLidarEnd))
  /\ UNCHANGED <<needInit, initIterNum>>

(* mapping: without samples the scan is registered without the filter *)
Mapping ==
  IF imu' = <<>> THEN UNCHANGED filterVars ELSE InitImu \/ Undistort

-----------------------------------------------------------------------------
(* The composition: what syncPackages returns goes to mapping, unless the
   motor is still being calibrated. *)

MapScan == SyncScan /\ IF isMotorInitialized THEN Mapping ELSE UNCHANGED filterVars

ProcessPackages ==
  \/ (SkipScan \/ WaitForData \/ DropScan) /\ UNCHANGED filterVars
  \/ MapScan

ReceiveImu   == ImuCallback /\ UNCHANGED filterVars
ReceiveMotor == MotorCallback /\ UNCHANGED filterVars

ImuNext ==
  \/ (LidarCallback \/ Done) /\ UNCHANGED filterVars
  \/ ReceiveImu \/ ReceiveMotor \/ ProcessPackages

(* The main loop calls syncPackages for ever, and the IMU and the motor go
   on sending: the stream of each reaches the bound. *)
ImuFairness ==
  /\ WF_imuProcessVars(ProcessPackages)
  /\ WF_imuProcessVars(ReceiveImu /\ lastImuTimestamp' > lastImuTimestamp)
  /\ WF_imuProcessVars(ReceiveMotor)
ImuSpec == ImuInit /\ [][ImuNext]_imuProcessVars /\ ImuFairness
-----------------------------------------------------------------------------
(* The backward pass over the points of a scan, at times pts, from pose kp
   and point ip on: which point is moved by which pose. The pass over the
   points of one pose ends at the first point, which the next pose down the
   list then moves again if it is before it. *)
Backward(poses, pts) ==
  LET move[at \in (1 .. Len(poses)) \X (1 .. Len(pts))] ==
        LET kp == at[1]
            ip == at[2]
        IN IF kp = 1 THEN {}
           ELSE IF pts[ip] > 2 * poses[kp - 1].label
                THEN {<<ip, kp - 1>>} \cup
                     (IF ip = 1 THEN move[<<kp - 1, 1>>] ELSE move[<<kp, ip - 1>>])
                ELSE move[<<kp - 1, ip>>]
  IN move[<<Len(poses), Len(pts)>>]

(* The points of the scan undistorted last, two to a tick. *)
Points ==
  LET beg == imuPose[1].label
  IN [i \in 1 .. 2 * ScanLen + 1 |-> 2 * beg + i - 1]
-----------------------------------------------------------------------------
(* Correctness *)

(* The type invariants of both modules. *)
FilterTypeOK ==
  /\ TypeOK
  /\ needInit \in BOOLEAN /\ initIterNum \in Nat
  /\ lastImu \in Time \cup {Earliest} /\ lastLidarEnd \in Time \cup UnsetEnds
  /\ imuPose \in Seq([label : Time, at : Nat]) /\ filterTime \in Nat
  /\ propagated \in BOOLEAN /\ offTrack \in BOOLEAN

(* After every scan the filter's state is of the end of that scan: the
   intervals it was propagated over join without gap or overlap, across scans
   that came without samples, scans dropped with theirs, samples that
   coincide with the end of a scan, and stamps that jump back. *)
FilterKeepsTime == propagated /\ ~offTrack => filterTime = lastLidarEnd

(* Every point of an undistorted scan but the first is moved exactly once, by
   the latest in the list of the poses labelled before it, the pose at the last
   sample not among them; unless that is the pose the scan begins with, it is
   of the time its label says. *)
PointsMovedOnce ==
  propagated /\ ~offTrack =>
    LET moved == Backward(imuPose, Points)
    IN \A ip \in 2 .. Len(Points) : \E kp \in 1 .. Len(imuPose) - 1 :
         /\ {m \in moved : m[1] = ip} = {<<ip, kp>>}
         /\ 2 * imuPose[kp].label < Points[ip]
         /\ \A j \in kp + 1 .. Len(imuPose) - 1 : 2 * imuPose[j].label >= Points[ip]
         /\ kp # 1 => imuPose[kp].at = imuPose[kp].label

(* The state and the points of a scan are those of the scan's own time. *)
ScanUndistorted == FilterKeepsTime /\ PointsMovedOnce
=============================================================================
