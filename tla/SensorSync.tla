----------------------------- MODULE SensorSync -----------------------------
(***************************************************************************)
(* How the front end puts the sensor streams together: the callbacks of    *)
(* the programs (lidarCallback, imuCallback, motorCallback) fill buffers,  *)
(* System::syncPackages takes a scan and the motor angles and IMU samples  *)
(* that belong to it, and the scan goes to motorInitialize or mapping.     *)
(*                                                                         *)
(* All of it runs in the main thread (ros::spinOnce, then syncPackages):   *)
(* the interleaving is that of the messages, each stream being in order    *)
(* but the streams not relative to one another. A sample is its stamp, in  *)
(* ticks of the fastest stream. The programs leave _imuBufferAll,          *)
(* _motorAngleBufAll and _gpsBuffer empty, so that collectMotorIMU and the *)
(* GNSS part of syncPackages do nothing.                                   *)
(***************************************************************************)
EXTENDS Integers, Sequences

CONSTANTS
  MaxTime,          \* bound: the last stamp of any stream
  ScanLen,          \* ticks from the first point of a scan to its last
  MinPeriod,        \* least distance of the stamps of two scans
  ImuGap, MotorGap, \* most ticks between two samples of the IMU, of the motor
  MaxLoopBacks,     \* bound: times the IMU's stamps jump back
  MotorInitialized  \* values is_motor_initialized may be configured with

ASSUME ConstantsAssumption ==
  /\ MaxTime \in Nat /\ ScanLen \in Nat \ {0} /\ MinPeriod \in Nat \ {0}
  /\ ImuGap \in Nat \ {0} /\ MotorGap \in Nat \ {0} /\ MaxLoopBacks \in Nat
  /\ MotorInitialized \subseteq BOOLEAN

Time == 0 .. MaxTime
Scan == [beg : Time, sparse : BOOLEAN]  \* sparse: at most _minFramePoint points

(* bug: the end of a scan is the stamp after its last point *)
EndLate(scan) == scan.beg + ScanLen + 1

End(scan) == scan.beg + ScanLen
Last(s) == s[Len(s)]
First(K) == CHOOSE k \in K : \A j \in K : k <= j
Earliest == -1                          \* before every stamp

VARIABLES
  lidarBuffer,                          \* _lidarBuffer with _timeBuffer
  isLidarPushed, lidarEndTime,
  lidar, imu, tMotorAngles,             \* _measures
  imuBuffer, lastImuTimestamp,
  motorAngleBuf, lastMotorTimestamp,
  curMotorAngle,                        \* "none" before the first, or "known", or "nan"
  isMotorInitialized,
  lidarStamp, loopBacks,                \* the streams: last scan's stamp, jumps so far
  synced,                               \* history: the scan syncPackages returned last
  imuFrom, imuUpTo                      \* history: ends of the last two scans to take IMU

scanVars  == <<lidarBuffer, isLidarPushed, lidarEndTime, lidar>>
imuVars   == <<imuBuffer, lastImuTimestamp, imuFrom, imuUpTo>>
motorVars == <<motorAngleBuf, lastMotorTimestamp>>
measVars  == <<imu, tMotorAngles, curMotorAngle, isMotorInitialized, synced>>
vars == <<scanVars, imuVars, motorVars, measVars, lidarStamp, loopBacks>>

NoScan == [beg |-> 0, sparse |-> FALSE]

Init ==
  /\ lidarBuffer = <<>> /\ isLidarPushed = FALSE /\ lidarEndTime = 0 /\ lidar = NoScan
  /\ imuBuffer = <<>> /\ lastImuTimestamp = Earliest
  /\ motorAngleBuf = <<>> /\ lastMotorTimestamp = Earliest
  /\ imu = <<>> /\ tMotorAngles = <<>> /\ curMotorAngle = "none"
  /\ isMotorInitialized \in MotorInitialized
  /\ lidarStamp = 0 - MinPeriod /\ loopBacks = 0
  /\ synced = [scan |-> NoScan, motor |-> FALSE]
  /\ imuFrom = 0 /\ imuUpTo = 0

-----------------------------------------------------------------------------
(* The callbacks *)

(* A scan that begins before the end of the one synchronised last empties the
   buffer: "lidar loop back, clear buffer". *)
LidarCallback ==
  \E beg \in lidarStamp + MinPeriod .. MaxTime - ScanLen, sparse \in BOOLEAN :
    /\ lidarBuffer' = Append(IF beg < lidarEndTime THEN <<>> ELSE lidarBuffer,
                             [beg |-> beg, sparse |-> sparse])
    /\ lidarStamp' = beg
    /\ UNCHANGED <<isLidarPushed, lidarEndTime, lidar, imuVars, motorVars, measVars, loopBacks>>

(* A stamp before the last one empties the buffer: "IMU loop back, clear IMU
   buffer". *)
ImuCallback ==
  \E t \in Time :
    /\ \/ /\ lastImuTimestamp < t /\ t <= lastImuTimestamp + ImuGap
          /\ UNCHANGED loopBacks
       \/ /\ t < lastImuTimestamp /\ loopBacks < MaxLoopBacks
          /\ loopBacks' = loopBacks + 1
    /\ imuBuffer' = Append(IF t < lastImuTimestamp THEN <<>> ELSE imuBuffer, t)
    /\ lastImuTimestamp' = t
    /\ UNCHANGED <<imuFrom, imuUpTo, scanVars, motorVars, measVars, lidarStamp>>

(* A stamp before the last one is ignored: "motor loop back". *)
MotorCallback ==
  \E t \in Time :
    /\ lastMotorTimestamp < t /\ t <= lastMotorTimestamp + MotorGap
    /\ motorAngleBuf' = Append(motorAngleBuf, t)
    /\ lastMotorTimestamp' = t
    /\ UNCHANGED <<scanVars, imuVars, measVars, lidarStamp, loopBacks>>

-----------------------------------------------------------------------------
(* syncPackages *)

(* The scan the call works on, taken from the buffer by this call or an
   earlier one that had to wait, and the end of it. *)
Current == IF isLidarPushed THEN lidar ELSE Head(lidarBuffer)
EndTime == IF isLidarPushed THEN lidarEndTime ELSE End(Current)

HasScan == lidarBuffer # <<>> /\ (isLidarPushed \/ ~Head(lidarBuffer).sparse)

(* "ensure motor data exist after current lidar frame" *)
MotorReady == motorAngleBuf = <<>> \/ lastMotorTimestamp >= EndTime

(* "ensure imu data exist after current lidar frame" *)
TakesImu == imuBuffer # <<>> /\ isMotorInitialized
ImuReady == ~TakesImu \/ lastImuTimestamp >= EndTime

(* bug: the sample that ends the scan is left behind it, the one after taken *)
ImuTakenOneMore ==
  LET after == {k \in 1 .. Len(imuBuffer) : imuBuffer[k] >= EndTime}
  IN IF after = {} THEN Len(imuBuffer) ELSE First(after)

(* The number of samples moved to meas.imu: those up to the end of the scan,
   at most one of them at the end itself and none if that is the first. *)
ImuTaken ==
  LET after == {k \in 1 .. Len(imuBuffer) : imuBuffer[k] >= EndTime}
      first == IF after = {} THEN Len(imuBuffer) + 1 ELSE First(after)
  IN IF first \in 2 .. Len(imuBuffer) /\ imuBuffer[first] = EndTime THEN first ELSE first - 1

ImuLeft == IF TakesImu THEN SubSeq(imuBuffer, ImuTaken + 1, Len(imuBuffer)) ELSE imuBuffer

TakeImu ==
  /\ imu' = IF TakesImu THEN SubSeq(imuBuffer, 1, ImuTaken) ELSE imu
  /\ imuFrom' = IF TakesImu THEN imuUpTo ELSE imuFrom
  /\ imuUpTo' = IF TakesImu THEN EndTime ELSE imuUpTo
  /\ UNCHANGED lastImuTimestamp

(* collectRasterAngles: the angles must begin before the scan *)
EnoughMotorData ==
  /\ Head(motorAngleBuf) <= Current.beg \/ tMotorAngles # <<>>
  /\ Last(motorAngleBuf) >= EndTime

(* ... the last of the previous scan's angles from before this one is kept
   (there is one, AngleKept), then the buffer up to the first angle after the
   scan *)
AngleKept == \E k \in 1 .. Len(tMotorAngles) : tMotorAngles[k] <= Current.beg
KeptAngle ==
  LET before == {k \in 1 .. Len(tMotorAngles) : tMotorAngles[k] <= Current.beg}
  IN IF tMotorAngles = <<>> THEN <<>>
     ELSE <<tMotorAngles[CHOOSE k \in before : \A j \in before : j <= k]>>

AnglesUpTo(end) ==
  LET after == {k \in 1 .. Len(motorAngleBuf) : motorAngleBuf[k] > end}
      upto == IF after = {} THEN Len(motorAngleBuf) ELSE First(after)
  IN SubSeq(motorAngleBuf, 1, upto)

(* bug: no angle is kept from before the scan *)
CollectRasterAnglesFresh == AnglesUpTo(EndTime)

CollectRasterAngles == KeptAngle \o AnglesUpTo(EndTime)

(* getRasterAngle: the angles before the end of the scan are popped (there is
   a later one, MotorLookupsSucceed), *)
MotorLeft ==
  LET after == {k \in 1 .. Len(motorAngleBuf) : motorAngleBuf[k] >= EndTime}
  IN IF motorAngleBuf = <<>> THEN <<>>
     ELSE SubSeq(motorAngleBuf, First(after), Len(motorAngleBuf))

(* and the angle at the end is interpolated between the last one popped and
   the first one left; with none popped, 0 is divided by 0. *)
AngleAtEnd == IF Head(motorAngleBuf) < EndTime THEN "known" ELSE "nan"

(* A scan of too few points is skipped. *)
SkipScan ==
  /\ lidarBuffer # <<>> /\ ~isLidarPushed /\ Head(lidarBuffer).sparse
  /\ lidar' = Head(lidarBuffer)
  /\ lidarBuffer' = Tail(lidarBuffer)
  /\ UNCHANGED <<isLidarPushed, lidarEndTime, imuVars, motorVars, measVars, lidarStamp, loopBacks>>

(* The first of the calls that find motor angles or IMU samples missing; the
   later ones change nothing. *)
WaitForData ==
  /\ HasScan /\ ~isLidarPushed /\ ~(MotorReady /\ ImuReady)
  /\ lidar' = Current /\ lidarEndTime' = EndTime /\ isLidarPushed' = TRUE
  /\ UNCHANGED <<lidarBuffer, imuVars, motorVars, measVars, lidarStamp, loopBacks>>

PopScan ==
  /\ lidar' = Current /\ lidarEndTime' = EndTime /\ isLidarPushed' = FALSE

(* bug: the scan is not popped *)
DropScanKept ==
  /\ HasScan /\ MotorReady /\ ImuReady
  /\ motorAngleBuf # <<>> /\ ~EnoughMotorData
  /\ PopScan /\ UNCHANGED lidarBuffer
  /\ TakeImu /\ imuBuffer' = ImuLeft
  /\ UNCHANGED <<motorVars, tMotorAngles, curMotorAngle, isMotorInitialized, synced,
                 lidarStamp, loopBacks>>

(* "Not enough motor data": the scan is dropped, its IMU samples with it. *)
DropScan ==
  /\ HasScan /\ MotorReady /\ ImuReady
  /\ motorAngleBuf # <<>> /\ ~EnoughMotorData
  /\ PopScan /\ lidarBuffer' = Tail(lidarBuffer)
  /\ TakeImu /\ imuBuffer' = ImuLeft
  /\ UNCHANGED <<motorVars, tMotorAngles, curMotorAngle, isMotorInitialized, synced,
                 lidarStamp, loopBacks>>

(* The scan is returned and goes to mapping, or to motorInitialize, which may
   find the extrinsic calibration and call resetSystem; without any motor
   angle neither the angles of an earlier scan nor the angle change. *)
SyncScan ==
  /\ HasScan /\ MotorReady /\ ImuReady
  /\ motorAngleBuf # <<>> => EnoughMotorData
  /\ PopScan /\ TakeImu
  /\ tMotorAngles' = IF motorAngleBuf = <<>> THEN tMotorAngles ELSE CollectRasterAngles
  /\ curMotorAngle' = IF motorAngleBuf = <<>> THEN curMotorAngle ELSE AngleAtEnd
  /\ synced' = [scan |-> Current, motor |-> motorAngleBuf # <<>>]
  /\ \/ /\ lidarBuffer' = Tail(lidarBuffer) /\ imuBuffer' = ImuLeft /\ motorAngleBuf' = MotorLeft
        /\ UNCHANGED isMotorInitialized
     \/ /\ ~isMotorInitialized /\ curMotorAngle' # "none"
        /\ isMotorInitialized' = TRUE
        /\ lidarBuffer' = <<>> /\ imuBuffer' = <<>> /\ motorAngleBuf' = <<>>
  /\ UNCHANGED <<lastMotorTimestamp, lidarStamp, loopBacks>>

SyncPackages == SkipScan \/ WaitForData \/ DropScan \/ SyncScan

(* The bound on stamps is reached. *)
Done ==
  /\ lidarBuffer = <<>> /\ lidarStamp + MinPeriod > MaxTime - ScanLen
  /\ lastImuTimestamp = MaxTime /\ lastMotorTimestamp = MaxTime
  /\ UNCHANGED vars

Next == LidarCallback \/ ImuCallback \/ MotorCallback \/ SyncPackages \/ Done

(* The main loop calls syncPackages for ever, and the sensors go on sending:
   the stream of each reaches the bound. *)
Fairness ==
  /\ WF_vars(SyncPackages)
  /\ WF_vars(ImuCallback /\ lastImuTimestamp' > lastImuTimestamp) /\ WF_vars(MotorCallback)
Spec == Init /\ [][Next]_vars /\ Fairness
-----------------------------------------------------------------------------
(* Correctness *)

TypeOK ==
  /\ lidarBuffer \in Seq(Scan) /\ isLidarPushed \in BOOLEAN /\ lidarEndTime \in Time
  /\ lidar \in Scan
  /\ imu \in Seq(Time) /\ imuBuffer \in Seq(Time) /\ lastImuTimestamp \in Time \cup {Earliest}
  /\ tMotorAngles \in Seq(Time) /\ motorAngleBuf \in Seq(Time)
  /\ lastMotorTimestamp \in Time \cup {Earliest}
  /\ curMotorAngle \in {"none", "known", "nan"} /\ isMotorInitialized \in BOOLEAN
  /\ lidarStamp \in Int /\ loopBacks \in 0 .. MaxLoopBacks
  /\ synced \in [scan : Scan, motor : BOOLEAN]
  /\ imuFrom \in Time /\ imuUpTo \in Time

(* The scan a call of syncPackages returns is the one it pops: while a scan
   waits for its motor angles and IMU samples, in _measures, it stays at the
   front of the buffer, whichever way earlier scans left it. *)
WaitingScanAtFront ==
  isLidarPushed => lidarBuffer # <<>> /\ Head(lidarBuffer) = lidar /\ lidarEndTime = End(lidar)

(* What collectRasterAngles and getRasterAngle rely on when syncPackages gets
   to them: the reverse search for an angle from before the scan, which is
   dereferenced without a test against rend(), finds one; and the buffer
   reaches the end of the scan, so that "No motor data" never makes
   syncPackages return with the scan's IMU samples taken and the scan not. *)
MotorLookupsSucceed ==
  HasScan /\ MotorReady /\ ImuReady /\ motorAngleBuf # <<>> =>
    /\ tMotorAngles # <<>> => AngleKept
    /\ EndTime <= Last(motorAngleBuf)

(* The motor angles of a scan that came with motor data enclose it and leave
   none out: motorMotionCompensation goes back from the last angle to find
   one before each point. *)
AnglesEncloseScan ==
  synced.motor =>
    /\ tMotorAngles[1] <= synced.scan.beg /\ End(synced.scan) <= Last(tMotorAngles)
    /\ \A k \in 2 .. Len(tMotorAngles) - 1 : tMotorAngles[k + 1] - tMotorAngles[k] \in 1 .. MotorGap

(* A scan waits where it is until it is synchronised, and comes with all it
   needs of the motor data. *)
ScanSynchronised == WaitingScanAtFront /\ MotorLookupsSucceed /\ AnglesEncloseScan

(* Scans share the IMU samples out: those of a scan come from between the end
   of the scan before it and its own, none is left out, and what is left in
   the buffer comes later. *)
ImuSharedOut ==
  loopBacks = 0 =>
    /\ \A k \in DOMAIN imu : imu[k] \in imuFrom .. imuUpTo
    /\ \A k \in DOMAIN imuBuffer : imuBuffer[k] >= imuUpTo
    /\ LET s == imu \o imuBuffer
       IN \A k \in 1 .. Len(s) - 1 : s[k + 1] - s[k] \in 1 .. ImuGap

(* A waiting scan is synchronised or dropped: its motor angles and IMU
   samples arrive in the end, whatever their order and whatever was lost. *)
ScansDrain == []<>(lidarBuffer = <<>>)
=============================================================================
