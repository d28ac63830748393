------------------------- MODULE SensorSync_proofs -------------------------
(***************************************************************************)
(* Proofs about the synchronisation of scans, motor angles and IMU samples *)
(* in the composition with ImuProcess, and about the filter, for any       *)
(* stamps, gaps and lengths of the streams, as long as a scan ends before  *)
(* the next one begins: the devices send their scans one after the other.  *)
(***************************************************************************)
EXTENDS ImuProcess, SequenceTheorems, WellFoundedInduction, TLAPS

(* The inductive invariant.                                                *)

\* Scans wait in order, after the one taken last.
LidarInv ==
  /\ WaitingScanAtFront
  /\ \A i \in 1 .. Len(lidarBuffer) :
       /\ lidarBuffer[i].beg <= lidarStamp /\ End(lidarBuffer[i]) <= MaxTime
       /\ (i = 1 /\ isLidarPushed) \/ lidarEndTime <= lidarBuffer[i].beg
  /\ \A i, j \in 1 .. Len(lidarBuffer) : i < j => End(lidarBuffer[i]) <= lidarBuffer[j].beg
  /\ lidarEndTime <= lidarStamp + MinPeriod

\* Samples wait in order, a gap apart, up to the last one received.
Waiting(buf, gap, lastStamp) ==
  /\ \A k \in 1 .. Len(buf) - 1 : buf[k + 1] - buf[k] \in 1 .. gap
  /\ \A j, k \in 1 .. Len(buf) : j < k => buf[j] < buf[k]
  /\ buf # <<>> => Last(buf) = lastStamp

\* The angles kept begin before the scan they were collected for, and so
\* before all those waiting.
AnglesInv ==
  /\ tMotorAngles # <<>> => tMotorAngles[1] <= synced.scan.beg
  /\ synced.scan.beg <= lidarStamp + MinPeriod
  /\ \A i \in 1 .. Len(lidarBuffer) : synced.scan.beg <= lidarBuffer[i].beg
  /\ AnglesEncloseScan

\* The samples of the last scan and those waiting follow one another.
ImuInv ==
  /\ ~isMotorInitialized => imu = <<>>
  /\ loopBacks = 0 =>
       /\ imuUpTo = 0 \/ imuUpTo <= lastImuTimestamp
       /\ \A k \in 1 .. Len(imu) : imu[k] \in imuFrom .. imuUpTo
       /\ \A k \in 1 .. Len(imuBuffer) : imuBuffer[k] >= imuUpTo
       /\ \A k \in 1 .. Len(imu) - 1 : imu[k + 1] - imu[k] \in 1 .. ImuGap
       /\ imu # <<>> =>
            IF imuBuffer = <<>> THEN Last(imu) = lastImuTimestamp
            ELSE Head(imuBuffer) - Last(imu) \in 1 .. ImuGap

IInv ==
  /\ TypeOK /\ LidarInv
  /\ Waiting(motorAngleBuf, MotorGap, lastMotorTimestamp)
  /\ Waiting(imuBuffer, ImuGap, lastImuTimestamp)
  /\ AnglesInv /\ ImuInv

-----------------------------------------------------------------------------
(* First positions and pieces of buffers.                                  *)

LEMMA FirstOf ==
  ASSUME NEW K \in SUBSET Nat, K # {}
  PROVE  First(K) \in K /\ \A j \in K : First(K) <= j
<1>1. PICK k \in K : \A j \in K : ~(<<j, k>> \in OpToRel(<, Nat))
  BY NatLessThanWellFounded, WFMin
<1>2. \A j \in K : k <= j
  <2>1. \A j \in Nat : j < k => <<j, k>> \in OpToRel(<, Nat)
    BY DEF OpToRel
  <2>2. ASSUME NEW j \in K PROVE k <= j
    <3>1. ~(j < k)
      BY <1>1, <2>1
    <3> QED
      BY <3>1
  <2> QED
    BY <2>2
<1> QED
  BY <1>2 DEF First

\* A set of positions that is not empty has a last one.
LEMMA LastOf ==
  ASSUME NEW n \in Nat, NEW K \in SUBSET (1 .. n), K # {}
  PROVE  \E k \in K : \A j \in K : j <= k
<1> DEFINE D == {n - k : k \in K}
<1>1. D \in SUBSET Nat /\ D # {}
  <2>1. \A k \in K : n - k \in Nat
    OBVIOUS
  <2>2. PICK k \in K : TRUE
    OBVIOUS
  <2>3. n - k \in D
    BY <2>2
  <2> QED
    BY <2>1, <2>3
<1>2. First(D) \in D /\ \A d \in D : First(D) <= d
  BY <1>1, FirstOf
<1>3. PICK k \in K : First(D) = n - k
  BY <1>2
<1>4. ASSUME NEW j \in K PROVE j <= k
  <2>1. n - k <= n - j
    BY <1>2, <1>3
  <2> QED
    BY <2>1
<1> QED
  BY <1>4

\* A sequence from one position to another.
LEMMA Piece ==
  ASSUME NEW S, NEW s \in Seq(S), NEW m \in 1 .. Len(s) + 1, NEW n \in 0 .. Len(s), m <= n + 1,
         NEW p, p = SubSeq(s, m, n)
  PROVE  /\ p \in Seq(S) /\ Len(p) = n + 1 - m
         /\ \A i \in 1 .. n + 1 - m : p[i] = s[i + m - 1] /\ i + m - 1 \in 1 .. Len(s)
<1>1. Len(s) \in Nat /\ \A i \in m .. n : s[i] \in S
  BY LenProperties, ElementOfSeq
<1>2. /\ SubSeq(s, m, n) \in Seq(S)
      /\ Len(SubSeq(s, m, n)) = IF m <= n THEN n - m + 1 ELSE 0
      /\ \A i \in 1 .. n - m + 1 : SubSeq(s, m, n)[i] = s[m + i - 1]
  BY <1>1, SubSeqProperties
<1>3. Len(SubSeq(s, m, n)) = n + 1 - m
  BY <1>1, <1>2
<1>5. \A i \in 1 .. n + 1 - m : SubSeq(s, m, n)[i] = s[i + m - 1] /\ i + m - 1 \in 1 .. Len(s)
  <2>1. \A i \in 1 .. n + 1 - m : i \in 1 .. n - m + 1 /\ m + i - 1 = i + m - 1 /\ i + m - 1 \in 1 .. Len(s)
    BY <1>1
  <2> QED
    BY <1>2, <2>1
<1> QED
  BY <1>2, <1>3, <1>5

\* A sample received.
LEMMA Received ==
  ASSUME NEW buf \in Seq(Time), NEW gap \in Nat \ {0}, NEW last \in Time \cup {Earliest},
         NEW t \in Time, last < t, t <= last + gap, Waiting(buf, gap, last)
  PROVE  /\ Append(buf, t) \in Seq(Time) /\ Append(buf, t) # <<>>
         /\ Waiting(Append(buf, t), gap, t)
         /\ Len(Append(buf, t)) = Len(buf) + 1
         /\ \A k \in 1 .. Len(buf) : Append(buf, t)[k] = buf[k]
         /\ Append(buf, t)[Len(buf) + 1] = t
<1> USE DEF Time, Earliest
<1>1. Len(buf) \in Nat /\ (buf = <<>> <=> Len(buf) = 0) /\ \A k \in 1 .. Len(buf) : buf[k] \in Time
  BY LenProperties, EmptySeq, ElementOfSeq
<1>2. /\ Append(buf, t) \in Seq(Time) /\ Len(Append(buf, t)) = Len(buf) + 1
      /\ \A k \in 1 .. Len(buf) : Append(buf, t)[k] = buf[k]
      /\ Append(buf, t)[Len(buf) + 1] = t
  BY AppendProperties
<1>3. Append(buf, t) # <<>>
  BY <1>1, <1>2, EmptySeq
<1> DEFINE b == Append(buf, t)
<1> HIDE DEF b
<1>4. \A k \in 1 .. Len(buf) : buf[k] <= last
  <2>1. buf # <<>> => buf[Len(buf)] = last
    BY DEF Waiting, Last
  <2>2. ASSUME NEW k \in 1 .. Len(buf) PROVE buf[k] <= last
    <3>1. k = Len(buf) \/ buf[k] < buf[Len(buf)]
      BY <1>1 DEF Waiting
    <3>2. buf # <<>>
      BY <1>1
    <3> QED
      BY <1>1, <2>1, <3>1, <3>2
  <2> QED
    BY <2>2
<1>5. \A k \in 1 .. Len(b) - 1 : b[k + 1] - b[k] \in 1 .. gap
  <2> SUFFICES ASSUME NEW k \in 1 .. Len(b) - 1 PROVE b[k + 1] - b[k] \in 1 .. gap
    OBVIOUS
  <2>1. CASE k = Len(buf)
    <3>1. b[k] = last /\ b[k + 1] = t
      BY <1>1, <1>2, <2>1 DEF Waiting, Last, b
    <3> QED
      BY <3>1
  <2>2. CASE k # Len(buf)
    <3>1. k \in 1 .. Len(buf) - 1 /\ b[k] = buf[k] /\ b[k + 1] = buf[k + 1]
      BY <1>1, <1>2, <2>2 DEF b
    <3> QED
      BY <3>1 DEF Waiting
  <2> QED
    BY <2>1, <2>2
<1>6. \A j, k \in 1 .. Len(b) : j < k => b[j] < b[k]
  <2> SUFFICES ASSUME NEW j \in 1 .. Len(b), NEW k \in 1 .. Len(b), j < k PROVE b[j] < b[k]
    OBVIOUS
  <2>1. j \in 1 .. Len(buf) /\ b[j] = buf[j]
    BY <1>1, <1>2 DEF b
  <2>2. CASE k = Len(buf) + 1
    BY <1>1, <1>2, <1>4, <2>1, <2>2 DEF b
  <2>3. CASE k \in 1 .. Len(buf)
    BY <1>2, <2>1, <2>3 DEF Waiting, b
  <2> QED
    BY <1>1, <1>2, <2>2, <2>3 DEF b
<1> QED
  BY <1>1, <1>2, <1>3, <1>5, <1>6 DEF Waiting, Last, b

\* What is left of a buffer behind some position.
LEMMA Remaining ==
  ASSUME NEW buf \in Seq(Time), NEW gap, NEW last, Waiting(buf, gap, last),
         NEW m \in 1 .. Len(buf) + 1
  PROVE  /\ SubSeq(buf, m, Len(buf)) \in Seq(Time)
         /\ Waiting(SubSeq(buf, m, Len(buf)), gap, last)
<1> DEFINE n == Len(buf)
           b == SubSeq(buf, m, n)
<1>1. n \in Nat /\ (buf = <<>> <=> n = 0)
  BY LenProperties, EmptySeq
<1>2. /\ b \in Seq(Time) /\ Len(b) = n + 1 - m
      /\ \A i \in 1 .. n + 1 - m : b[i] = buf[i + m - 1] /\ i + m - 1 \in 1 .. n
  <2>1. Len(buf) \in 0 .. Len(buf) /\ m <= Len(buf) + 1
    BY LenProperties
  <2>2. b = SubSeq(buf, m, Len(buf))
    OBVIOUS
  <2> HIDE DEF b
  <2>3. /\ b \in Seq(Time) /\ Len(b) = Len(buf) + 1 - m
        /\ \A i \in 1 .. Len(buf) + 1 - m : b[i] = buf[i + m - 1] /\ i + m - 1 \in 1 .. Len(buf)
    BY <2>1, <2>2, Piece
  <2> QED
    BY <2>3
<1> HIDE DEF b
<1>3. \A k \in 1 .. Len(b) - 1 : b[k + 1] - b[k] \in 1 .. gap
  <2> SUFFICES ASSUME NEW k \in 1 .. Len(b) - 1 PROVE b[k + 1] - b[k] \in 1 .. gap
    OBVIOUS
  <2>1. /\ b[k] = buf[k + m - 1] /\ b[k + 1] = buf[(k + m - 1) + 1] /\ k + m - 1 \in 1 .. n - 1
    <3>1. k \in 1 .. n + 1 - m /\ k + 1 \in 1 .. n + 1 - m /\ (k + 1) + m - 1 = (k + m - 1) + 1
      BY <1>1, <1>2
    <3>2. b[k + 1] = buf[(k + 1) + m - 1] /\ (k + 1) + m - 1 \in 1 .. n
      BY <1>2, <3>1
    <3> QED
      BY <1>1, <1>2, <3>1, <3>2
  <2> QED
    BY <2>1 DEF Waiting
<1>4. \A j, k \in 1 .. Len(b) : j < k => b[j] < b[k]
  <2> SUFFICES ASSUME NEW j \in 1 .. Len(b), NEW k \in 1 .. Len(b), j < k PROVE b[j] < b[k]
    OBVIOUS
  <2>1. /\ b[j] = buf[j + m - 1] /\ j + m - 1 \in 1 .. n
        /\ b[k] = buf[k + m - 1] /\ k + m - 1 \in 1 .. n /\ j + m - 1 < k + m - 1
    BY <1>1, <1>2
  <2> QED
    BY <2>1 DEF Waiting
<1>5. b # <<>> => Last(b) = last
  <2>1. ASSUME b # <<>> PROVE b[Len(b)] = buf[n] /\ buf # <<>>
    <3>1. Len(b) \in 1 .. n + 1 - m /\ Len(b) + m - 1 = n
      BY <2>1, <1>1, <1>2, EmptySeq
    <3>2. b[Len(b)] = buf[Len(b) + m - 1]
      BY <1>2, <3>1
    <3> QED
      BY <2>1, <1>1, <1>2, <3>1, <3>2
  <2> QED
    BY <2>1 DEF Waiting, Last
<1> QED
  BY <1>2, <1>3, <1>4, <1>5 DEF Waiting, b

-----------------------------------------------------------------------------
(* The scan syncPackages works on. *)

\* It is the one at the front, and begins and ends before those behind it.
LEMMA CurrentScan ==
  ASSUME ScanLen <= MinPeriod, IInv, HasScan
  PROVE  /\ lidarBuffer # <<>> /\ Len(lidarBuffer) \in Nat \ {0}
         /\ Current = lidarBuffer[1] /\ Current \in Scan /\ EndTime = End(Current)
         /\ EndTime \in Time /\ Current.beg \in Time /\ Current.beg <= EndTime
         /\ Current.beg <= lidarStamp /\ EndTime <= lidarStamp + MinPeriod
         /\ synced.scan.beg <= Current.beg
         /\ \A i \in 2 .. Len(lidarBuffer) : EndTime <= lidarBuffer[i].beg
<1> USE DEF IInv, TypeOK
<1>1. lidarBuffer # <<>> /\ lidarBuffer \in Seq(Scan)
  BY DEF HasScan
<1>2. Len(lidarBuffer) \in Nat \ {0} /\ lidarBuffer[1] \in Scan /\ Head(lidarBuffer) = lidarBuffer[1]
  BY <1>1, EmptySeq, LenProperties, ElementOfSeq, HeadTailProperties
<1>3. Current = lidarBuffer[1] /\ EndTime = End(Current)
  <2>1. CASE isLidarPushed
    <3>1. Head(lidarBuffer) = lidar /\ lidarEndTime = End(lidar)
      BY <2>1 DEF LidarInv, WaitingScanAtFront
    <3> QED
      BY <2>1, <3>1, <1>2, Zenon DEF Current, EndTime
  <2>2. CASE ~isLidarPushed
    BY <2>2, <1>2, Zenon DEF Current, EndTime
  <2> QED
    BY <2>1, <2>2
<1>4. lidarBuffer[1].beg \in Time
  BY <1>2 DEF Scan
<1>5. lidarBuffer[1].beg <= lidarStamp /\ End(lidarBuffer[1]) <= MaxTime
  BY <1>2 DEF LidarInv
<1>6. lidarStamp \in Int /\ ScanLen \in Nat \ {0} /\ MinPeriod \in Nat \ {0} /\ MaxTime \in Nat
  BY ConstantsAssumption
<1>7. /\ End(lidarBuffer[1]) \in Time /\ lidarBuffer[1].beg <= End(lidarBuffer[1])
      /\ End(lidarBuffer[1]) <= lidarStamp + MinPeriod
  <2> HIDE DEF IInv, TypeOK
  <2>1. PICK beg \in Time : beg = lidarBuffer[1].beg
    BY <1>4
  <2>2. End(lidarBuffer[1]) = beg + ScanLen
    BY <2>1 DEF End
  <2>3. beg \in Nat /\ beg <= lidarStamp /\ beg + ScanLen <= MaxTime
    BY <2>1, <2>2, <1>5, <1>6 DEF Time
  <2>4. beg + ScanLen \in Time /\ beg <= beg + ScanLen /\ beg + ScanLen <= lidarStamp + MinPeriod
    BY <2>3, <1>6 DEF Time
  <2> QED
    BY <2>1, <2>2, <2>4
<1>8. synced.scan.beg <= lidarBuffer[1].beg
  BY <1>2 DEF AnglesInv
<1>9. \A i \in 2 .. Len(lidarBuffer) : End(lidarBuffer[1]) <= lidarBuffer[i].beg
  BY <1>2 DEF LidarInv
<1> QED
  BY <1>1, <1>2, <1>3, <1>4, <1>5, <1>7, <1>8, <1>9

\* What is left of the scans when the first is taken.
LEMMA Popped ==
  ASSUME TypeOK, lidarBuffer # <<>>, NEW b, b = Tail(lidarBuffer)
  PROVE  /\ b \in Seq(Scan) /\ Len(b) \in Nat /\ Len(lidarBuffer) = Len(b) + 1
         /\ \A i \in 1 .. Len(b) : b[i] = lidarBuffer[i + 1] /\ i + 1 \in 2 .. Len(lidarBuffer)
<1>1. lidarBuffer \in Seq(Scan)
  BY DEF TypeOK
<1>2. Len(lidarBuffer) \in Nat \ {0}
  BY <1>1, EmptySeq, LenProperties
<1>3. b \in Seq(Scan) /\ Len(b) = Len(lidarBuffer) - 1 /\ \A i \in 1 .. Len(b) : b[i] = lidarBuffer[i + 1]
  BY <1>1, HeadTailProperties
<1> QED
  BY <1>2, <1>3

\* The scans behind the one that is taken.
LEMMA ScansLeft ==
  ASSUME ScanLen <= MinPeriod, IInv, HasScan, PopScan,
         lidarBuffer' = Tail(lidarBuffer) \/ lidarBuffer' = <<>>, UNCHANGED lidarStamp
  PROVE  /\ lidarBuffer' \in Seq(Scan) /\ isLidarPushed' \in BOOLEAN /\ lidarEndTime' \in Time
         /\ lidar' \in Scan /\ LidarInv'
         /\ \A i \in 1 .. Len(lidarBuffer') : Current.beg <= lidarBuffer'[i].beg
<1>1. /\ lidarBuffer # <<>> /\ Current \in Scan /\ EndTime \in Time
      /\ Current.beg \in Time /\ Current.beg <= EndTime
      /\ EndTime <= lidarStamp + MinPeriod
      /\ \A i \in 2 .. Len(lidarBuffer) : EndTime <= lidarBuffer[i].beg
  BY CurrentScan
<1>2. isLidarPushed' = FALSE /\ lidarEndTime' = EndTime /\ lidar' = Current
  BY DEF PopScan
<1>3. ~isLidarPushed'
  BY <1>2
<1>4. WaitingScanAtFront'
  BY <1>3, Zenon DEF WaitingScanAtFront
<1>5. lidarEndTime' <= lidarStamp' + MinPeriod
  BY <1>1, <1>2
<1>6. CASE lidarBuffer' = <<>>
  <2>1. Len(lidarBuffer') = 0 /\ lidarBuffer' \in Seq(Scan)
    BY <1>6, EmptySeq
  <2>2. \A i : ~(i \in 1 .. Len(lidarBuffer'))
    BY <2>1
  <2>3. LidarInv'
    BY <2>2, <1>4, <1>5, Zenon DEF LidarInv
  <2> QED
    BY <2>1, <2>2, <2>3, <1>1, <1>2
<1>7. CASE lidarBuffer' = Tail(lidarBuffer)
  <2>1. /\ lidarBuffer' \in Seq(Scan) /\ Len(lidarBuffer') \in Nat /\ Len(lidarBuffer) = Len(lidarBuffer') + 1
        /\ \A i \in 1 .. Len(lidarBuffer') :
             lidarBuffer'[i] = lidarBuffer[i + 1] /\ i + 1 \in 2 .. Len(lidarBuffer)
    BY <1>1, <1>7, Popped DEF IInv
  <2>2. \A i \in 1 .. Len(lidarBuffer') :
           /\ lidarBuffer'[i].beg <= lidarStamp' /\ End(lidarBuffer'[i]) <= MaxTime
           /\ lidarEndTime' <= lidarBuffer'[i].beg
    BY <2>1, <1>1, <1>2 DEF IInv, LidarInv
  <2>3. \A i, j \in 1 .. Len(lidarBuffer') : i < j => End(lidarBuffer'[i]) <= lidarBuffer'[j].beg
    <3> SUFFICES ASSUME NEW i \in 1 .. Len(lidarBuffer'), NEW j \in 1 .. Len(lidarBuffer'), i < j
                 PROVE  End(lidarBuffer'[i]) <= lidarBuffer'[j].beg
      OBVIOUS
    <3>1. /\ i + 1 \in 1 .. Len(lidarBuffer) /\ j + 1 \in 1 .. Len(lidarBuffer) /\ i + 1 < j + 1
          /\ lidarBuffer'[i] = lidarBuffer[i + 1] /\ lidarBuffer'[j] = lidarBuffer[j + 1]
      BY <2>1
    <3> QED
      BY <3>1 DEF IInv, LidarInv
  <2>4. LidarInv'
    BY <1>4, <1>5, <2>2, <2>3, Zenon DEF LidarInv
  <2>5. \A i \in 1 .. Len(lidarBuffer') : lidarBuffer'[i] \in Scan
    BY <2>1, ElementOfSeq
  <2>6. ASSUME NEW i \in 1 .. Len(lidarBuffer') PROVE Current.beg <= lidarBuffer'[i].beg
    <3>1. lidarBuffer'[i].beg \in Time
      BY <2>5 DEF Scan
    <3> QED
      BY <3>1, <2>1, <1>1 DEF Time
  <2> QED
    BY <2>1, <2>4, <2>6, <1>1, <1>2
<1> QED
  BY <1>6, <1>7

-----------------------------------------------------------------------------
(* The motor angles of a scan. *)

\* The angle kept from the previous scan is from before this one.
LEMMA Kept ==
  ASSUME ScanLen <= MinPeriod, IInv, HasScan, tMotorAngles # <<>>
  PROVE  /\ AngleKept /\ KeptAngle \in Seq(Time) /\ Len(KeptAngle) = 1
         /\ KeptAngle[1] <= Current.beg
<1>1. tMotorAngles \in Seq(Time) /\ Len(tMotorAngles) \in Nat /\ 1 \in 1 .. Len(tMotorAngles)
  <2>1. tMotorAngles \in Seq(Time)
    BY DEF IInv, TypeOK
  <2>2. Len(tMotorAngles) \in Nat /\ Len(tMotorAngles) # 0
    BY <2>1, LenProperties, EmptySeq
  <2> QED
    BY <2>1, <2>2
<1>2. tMotorAngles[1] \in Time /\ tMotorAngles[1] <= synced.scan.beg
  BY <1>1, ElementOfSeq DEF IInv, AnglesInv
<1>3. synced.scan.beg <= Current.beg /\ Current.beg \in Time
  BY CurrentScan
<1>4. synced.scan.beg \in Time
  BY DEF IInv, TypeOK, Scan
<1>5. tMotorAngles[1] <= Current.beg
  BY <1>2, <1>3, <1>4 DEF Time
<1> DEFINE K == {k \in 1 .. Len(tMotorAngles) : tMotorAngles[k] <= Current.beg}
<1>6. K \in SUBSET (1 .. Len(tMotorAngles)) /\ 1 \in K
  BY <1>1, <1>5
<1>7. \E k \in K : \A j \in K : j <= k
  <2> HIDE DEF K
  <2> QED
    BY <1>1, <1>6, LastOf
<1> DEFINE k0 == CHOOSE k \in K : \A j \in K : j <= k
<1>8. k0 \in K
  <2> HIDE DEF K
  <2> QED
    BY <1>7
<1> HIDE DEF k0
<1>9. k0 \in 1 .. Len(tMotorAngles) /\ tMotorAngles[k0] <= Current.beg /\ tMotorAngles[k0] \in Time
  BY <1>1, <1>8, ElementOfSeq
<1>10. KeptAngle = <<tMotorAngles[k0]>>
  BY Zenon DEF KeptAngle, k0, K
<1> QED
  BY <1>9, <1>10 DEF AngleKept

\* The angles taken from the buffer go from its first one to the end of the scan.
LEMMA UpToEnd ==
  ASSUME IInv, motorAngleBuf # <<>>, NEW end \in Time, end <= Last(motorAngleBuf),
         NEW p, p = AnglesUpTo(end)
  PROVE  /\ p \in Seq(Time) /\ Len(p) \in Nat \ {0}
         /\ p[1] = Head(motorAngleBuf) /\ end <= Last(p)
         /\ \A k \in 1 .. Len(p) - 1 : p[k + 1] - p[k] \in 1 .. MotorGap
<1> DEFINE n == Len(motorAngleBuf)
           K == {k \in 1 .. n : motorAngleBuf[k] > end}
           upto == IF K = {} THEN n ELSE First(K)
<1>1. /\ motorAngleBuf \in Seq(Time) /\ n \in Nat \ {0} /\ motorAngleBuf[n] = Last(motorAngleBuf)
      /\ Head(motorAngleBuf) = motorAngleBuf[1]
  <2>1. motorAngleBuf \in Seq(Time)
    BY DEF IInv, TypeOK
  <2> QED
    BY <2>1, LenProperties, EmptySeq, HeadTailProperties DEF Last
<1>2. upto \in 1 .. n /\ end <= motorAngleBuf[upto]
  <2>1. CASE K = {}
    BY <2>1, <1>1
  <2>2. CASE K # {}
    <3>1. First(K) \in K
      <4>1. K \in SUBSET Nat
        BY <1>1
      <4> HIDE DEF K
      <4> QED
        BY <4>1, <2>2, FirstOf
    <3>2. upto = First(K)
      BY <2>2
    <3>3. upto \in 1 .. n /\ motorAngleBuf[upto] > end
      BY <3>1, <3>2
    <3>4. motorAngleBuf[upto] \in Time
      BY <3>3, <1>1, ElementOfSeq
    <3> QED
      BY <3>3, <3>4 DEF Time
  <2> QED
    BY <2>1, <2>2
<1>3. p = SubSeq(motorAngleBuf, 1, upto)
  BY DEF AnglesUpTo
<1> HIDE DEF upto
<1>4. p \in Seq(Time) /\ Len(p) = upto /\ \A i \in 1 .. upto : p[i] = motorAngleBuf[i]
  <2>1. 1 \in 1 .. Len(motorAngleBuf) + 1 /\ upto \in 0 .. Len(motorAngleBuf) /\ 1 <= upto + 1
    BY <1>1, <1>2
  <2>2. /\ p \in Seq(Time) /\ Len(p) = upto + 1 - 1
        /\ \A i \in 1 .. upto + 1 - 1 : p[i] = motorAngleBuf[i + 1 - 1]
    BY <2>1, <1>1, <1>3, Piece
  <2> QED
    BY <2>2, <1>1, <1>2
<1>5. p[1] = motorAngleBuf[1] /\ Last(p) = motorAngleBuf[upto] /\ Len(p) \in Nat \ {0}
  BY <1>1, <1>2, <1>4 DEF Last
<1>6. ASSUME NEW k \in 1 .. Len(p) - 1 PROVE p[k + 1] - p[k] \in 1 .. MotorGap
  <2>1. k \in 1 .. n - 1 /\ p[k] = motorAngleBuf[k] /\ p[k + 1] = motorAngleBuf[k + 1]
    BY <1>1, <1>2, <1>4
  <2> QED
    BY <2>1 DEF IInv, Waiting
<1> QED
  BY <1>1, <1>2, <1>4, <1>5, <1>6

\* The angles of a scan enclose it.
LEMMA Collected ==
  ASSUME ScanLen <= MinPeriod, IInv, HasScan, motorAngleBuf # <<>>, EnoughMotorData,
         NEW a, a = CollectRasterAngles
  PROVE  /\ a \in Seq(Time) /\ a # <<>>
         /\ a[1] <= Current.beg /\ EndTime <= Last(a)
         /\ \A k \in 2 .. Len(a) - 1 : a[k + 1] - a[k] \in 1 .. MotorGap
<1> DEFINE p == AnglesUpTo(EndTime)
<1>1. EndTime \in Time /\ EndTime <= Last(motorAngleBuf)
  BY CurrentScan DEF EnoughMotorData
<1>2. /\ p \in Seq(Time) /\ Len(p) \in Nat \ {0}
      /\ p[1] = Head(motorAngleBuf) /\ EndTime <= Last(p)
      /\ \A k \in 1 .. Len(p) - 1 : p[k + 1] - p[k] \in 1 .. MotorGap
  BY <1>1, UpToEnd
<1>3. a = KeptAngle \o p
  BY DEF CollectRasterAngles
<1> HIDE DEF p
<1>4. CASE tMotorAngles = <<>>
  <2>1. KeptAngle = <<>>
    BY <1>4 DEF KeptAngle
  <2>2. a = p
    BY <2>1, <1>2, <1>3, ConcatEmptySeq
  <2>3. Head(motorAngleBuf) <= Current.beg
    BY <1>4 DEF EnoughMotorData
  <2>4. p # <<>>
    BY <1>2, EmptySeq
  <2>5. \A k \in 2 .. Len(p) - 1 : p[k + 1] - p[k] \in 1 .. MotorGap
    BY <1>2
  <2> QED
    BY <2>2, <2>3, <2>4, <2>5, <1>2
<1>5. CASE tMotorAngles # <<>>
  <2> DEFINE q == KeptAngle
  <2>1. q \in Seq(Time) /\ Len(q) = 1 /\ q[1] <= Current.beg
    BY <1>5, Kept
  <2>2. a = q \o p
    BY <1>3
  <2> HIDE DEF q
  <2>3. /\ a \in Seq(Time) /\ Len(a) = 1 + Len(p)
        /\ \A i \in 1 .. 1 + Len(p) : a[i] = IF i <= 1 THEN q[i] ELSE p[i - 1]
    <3>1. /\ q \o p \in Seq(Time) /\ Len(q \o p) = Len(q) + Len(p)
          /\ \A i \in 1 .. Len(q) + Len(p) : (q \o p)[i] = IF i <= Len(q) THEN q[i] ELSE p[i - Len(q)]
      <4>1. q \in Seq(Time) /\ p \in Seq(Time)
        BY <2>1, <1>2
      <4> QED
        BY <4>1, ConcatProperties, Zenon
    <3> QED
      BY <3>1, <2>1, <2>2, Zenon
  <2>4. a[1] = q[1] /\ Last(a) = Last(p) /\ a # <<>>
    BY <2>3, <1>2, EmptySeq DEF Last
  <2>5. ASSUME NEW k \in 2 .. Len(a) - 1 PROVE a[k + 1] - a[k] \in 1 .. MotorGap
    <3>1. /\ k - 1 \in 1 .. Len(p) - 1 /\ (k + 1) - 1 = (k - 1) + 1
          /\ a[k] = p[k - 1] /\ a[k + 1] = p[(k + 1) - 1]
      BY <2>3, <1>2
    <3> QED
      BY <3>1, <1>2
  <2> QED
    BY <2>1, <2>3, <2>4, <2>5, <1>2
<1> QED
  BY <1>4, <1>5

\* What getRasterAngle leaves of the angles.
LEMMA LeftOver ==
  ASSUME IInv, EndTime \in Time, motorAngleBuf # <<>> => EndTime <= Last(motorAngleBuf),
         NEW b, b = MotorLeft
  PROVE  b \in Seq(Time) /\ Waiting(b, MotorGap, lastMotorTimestamp)
<1>1. motorAngleBuf \in Seq(Time) /\ Waiting(motorAngleBuf, MotorGap, lastMotorTimestamp)
  BY DEF IInv, TypeOK
<1>2. CASE motorAngleBuf = <<>>
  <2>1. b = motorAngleBuf
    BY <1>2 DEF MotorLeft
  <2> QED
    BY <2>1, <1>1
<1>3. CASE motorAngleBuf # <<>>
  <2> DEFINE K == {k \in 1 .. Len(motorAngleBuf) : motorAngleBuf[k] >= EndTime}
  <2>1. Len(motorAngleBuf) \in Nat \ {0} /\ motorAngleBuf[Len(motorAngleBuf)] >= EndTime
    <3>1. Len(motorAngleBuf) \in Nat \ {0}
      BY <1>1, <1>3, LenProperties, EmptySeq
    <3>2. motorAngleBuf[Len(motorAngleBuf)] \in Time
      BY <3>1, <1>1, ElementOfSeq
    <3> QED
      BY <3>1, <3>2, <1>3 DEF Last, Time
  <2>2. K # {} /\ K \in SUBSET Nat
    BY <2>1
  <2>3. First(K) \in K
    <3> HIDE DEF K
    <3> QED
      BY <2>2, FirstOf
  <2>4. First(K) \in 1 .. Len(motorAngleBuf) + 1
    BY <2>1, <2>3
  <2>5. b = SubSeq(motorAngleBuf, First(K), Len(motorAngleBuf))
    BY <1>3, Zenon DEF MotorLeft
  <2> DEFINE m == First(K)
  <2>6. m \in 1 .. Len(motorAngleBuf) + 1 /\ b = SubSeq(motorAngleBuf, m, Len(motorAngleBuf))
    BY <2>4, <2>5
  <2> HIDE DEF m
  <2> QED
    BY <2>6, <1>1, Remaining
<1> QED
  BY <1>2, <1>3

-----------------------------------------------------------------------------
(* The IMU samples of a scan. *)

\* Those moved to meas.imu come up to its end, those left behind it after it.
LEMMA Taken ==
  ASSUME IInv, EndTime \in Time, NEW m, m = ImuTaken
  PROVE  /\ m \in 0 .. Len(imuBuffer)
         /\ \A k \in 1 .. m : imuBuffer[k] <= EndTime
         /\ \A k \in m + 1 .. Len(imuBuffer) : imuBuffer[k] >= EndTime
<1> DEFINE n == Len(imuBuffer)
           K == {k \in 1 .. n : imuBuffer[k] >= EndTime}
           first == IF K = {} THEN n + 1 ELSE First(K)
<1>1. n \in Nat /\ \A k \in 1 .. n : imuBuffer[k] \in Time
  <2>1. imuBuffer \in Seq(Time)
    BY DEF IInv, TypeOK
  <2> QED
    BY <2>1, LenProperties, ElementOfSeq
<1>2. m = IF first \in 2 .. n /\ imuBuffer[first] = EndTime THEN first ELSE first - 1
  BY DEF ImuTaken
<1>3. /\ first \in 1 .. n + 1
      /\ \A k \in 1 .. n : k < first => imuBuffer[k] < EndTime
      /\ \A k \in 1 .. n : k >= first => imuBuffer[k] >= EndTime
  <2>1. CASE K = {}
    <3>1. first = n + 1
      BY <2>1
    <3>2. ASSUME NEW k \in 1 .. n PROVE imuBuffer[k] < EndTime
      <4>1. k \notin K
        BY <2>1
      <4> QED
        BY <4>1, <1>1 DEF Time
    <3> HIDE DEF first, K
    <3>3. first \in 1 .. n + 1 /\ \A k \in 1 .. n : ~(k >= first)
      BY <3>1, <1>1
    <3> QED
      BY <3>2, <3>3
  <2>2. CASE K # {}
    <3>1. K \in SUBSET Nat
      BY <1>1
    <3>2. First(K) \in K /\ \A j \in K : First(K) <= j
      <4> HIDE DEF K
      <4> QED
        BY <3>1, <2>2, FirstOf
    <3>3. first = First(K)
      BY <2>2
    <3> HIDE DEF first
    <3>4. first \in 1 .. n /\ imuBuffer[first] >= EndTime
      BY <3>2, <3>3
    <3>5. ASSUME NEW k \in 1 .. n, k < first PROVE imuBuffer[k] < EndTime
      <4>1. k \notin K
        BY <3>2, <3>3, <3>4, <3>5
      <4> QED
        BY <4>1, <1>1 DEF Time
    <3>6. ASSUME NEW k \in 1 .. n, k >= first PROVE imuBuffer[k] >= EndTime
      <4>1. k = first \/ imuBuffer[first] < imuBuffer[k]
        BY <3>4, <3>6 DEF IInv, Waiting
      <4>2. imuBuffer[k] \in Time /\ imuBuffer[first] \in Time
        BY <1>1, <3>4
      <4> QED
        BY <4>1, <4>2, <3>4 DEF Time
    <3> QED
      BY <3>4, <3>5, <3>6
  <2> QED
    BY <2>1, <2>2
<1> HIDE DEF first
<1>4. CASE first \in 2 .. n /\ imuBuffer[first] = EndTime
  <2>1. m = first
    BY <1>2, <1>4
  <2>2. ASSUME NEW k \in 1 .. m PROVE imuBuffer[k] <= EndTime
    <3>1. k \in 1 .. n /\ (k < first \/ k = first)
      BY <2>1, <1>1, <1>4
    <3> QED
      BY <3>1, <1>1, <1>3, <1>4 DEF Time
  <2>3. \A k \in m + 1 .. n : imuBuffer[k] >= EndTime
    BY <2>1, <1>1, <1>3, <1>4
  <2> QED
    BY <2>1, <2>2, <2>3, <1>1, <1>4
<1>5. CASE ~(first \in 2 .. n /\ imuBuffer[first] = EndTime)
  <2>1. m = first - 1
    BY <1>2, <1>5
  <2>2. ASSUME NEW k \in 1 .. m PROVE imuBuffer[k] <= EndTime
    <3>1. k \in 1 .. n /\ k < first
      BY <2>1, <1>1, <1>3
    <3> QED
      BY <3>1, <1>1, <1>3 DEF Time
  <2>3. \A k \in m + 1 .. n : imuBuffer[k] >= EndTime
    BY <2>1, <1>1, <1>3
  <2> QED
    BY <2>1, <2>2, <2>3, <1>1, <1>3
<1> QED
  BY <1>4, <1>5

\* The samples move from the buffer to the scan, or stay where they are.
LEMMA HandedOver ==
  ASSUME ScanLen <= MinPeriod, IInv, HasScan, ImuReady, TakeImu, UNCHANGED loopBacks,
         \/ imuBuffer' = ImuLeft /\ UNCHANGED isMotorInitialized
         \/ imuBuffer' = <<>> /\ ~isMotorInitialized /\ isMotorInitialized'
  PROVE  /\ imu' \in Seq(Time) /\ imuBuffer' \in Seq(Time) /\ imuFrom' \in Time /\ imuUpTo' \in Time
         /\ Waiting(imuBuffer', ImuGap, lastImuTimestamp') /\ ImuInv'
<1>1. EndTime \in Time
  BY CurrentScan
<1>2. /\ imu \in Seq(Time) /\ imuBuffer \in Seq(Time) /\ imuFrom \in Time /\ imuUpTo \in Time
      /\ lastImuTimestamp \in Time \cup {Earliest} /\ Waiting(imuBuffer, ImuGap, lastImuTimestamp)
      /\ ImuInv
  BY DEF IInv, TypeOK
<1>3. UNCHANGED lastImuTimestamp
  BY DEF TakeImu
<1>4. CASE TakesImu
  <2> DEFINE m == ImuTaken
             n == Len(imuBuffer)
  <2>1. imuBuffer # <<>> /\ isMotorInitialized
    BY <1>4 DEF TakesImu
  <2>2. imuBuffer' = ImuLeft /\ UNCHANGED isMotorInitialized
    BY <2>1, Zenon
  <2>3. /\ imu' = SubSeq(imuBuffer, 1, m) /\ imuFrom' = imuUpTo /\ imuUpTo' = EndTime
        /\ imuBuffer' = SubSeq(imuBuffer, m + 1, n)
    BY <1>4, <2>2, Zenon DEF TakeImu, ImuLeft
  <2>4. /\ m \in 0 .. n
        /\ \A k \in 1 .. m : imuBuffer[k] <= EndTime
        /\ \A k \in m + 1 .. n : imuBuffer[k] >= EndTime
    BY <1>1, Taken
  <2> HIDE DEF m
  <2>5. n \in Nat /\ \A k \in 1 .. n : imuBuffer[k] \in Time
    BY <1>2, LenProperties, ElementOfSeq
  <2>6. imu' \in Seq(Time) /\ Len(imu') = m /\ \A i \in 1 .. m : imu'[i] = imuBuffer[i]
    <3>1. 1 \in 1 .. Len(imuBuffer) + 1 /\ m \in 0 .. Len(imuBuffer) /\ 1 <= m + 1
      BY <2>4, <2>5
    <3>2. /\ imu' \in Seq(Time) /\ Len(imu') = m + 1 - 1
          /\ \A i \in 1 .. m + 1 - 1 : imu'[i] = imuBuffer[i + 1 - 1]
      BY <3>1, <1>2, <2>3, Piece
    <3> QED
      BY <3>2, <2>4, <2>5
  <2>7. /\ imuBuffer' \in Seq(Time) /\ Len(imuBuffer') = n - m
        /\ \A i \in 1 .. n - m : imuBuffer'[i] = imuBuffer[i + m] /\ i + m \in m + 1 .. n
    <3>1. m + 1 \in 1 .. Len(imuBuffer) + 1 /\ n \in 0 .. Len(imuBuffer) /\ m + 1 <= n + 1
      BY <2>4, <2>5
    <3>2. /\ imuBuffer' \in Seq(Time) /\ Len(imuBuffer') = n + 1 - (m + 1)
          /\ \A i \in 1 .. n + 1 - (m + 1) : imuBuffer'[i] = imuBuffer[i + (m + 1) - 1]
      BY <3>1, <1>2, <2>3, Piece
    <3> QED
      BY <3>2, <2>4, <2>5
  <2>8. Waiting(imuBuffer', ImuGap, lastImuTimestamp')
    <3>1. m + 1 \in 1 .. Len(imuBuffer) + 1
      BY <2>4, <2>5
    <3>2. Waiting(SubSeq(imuBuffer, m + 1, Len(imuBuffer)), ImuGap, lastImuTimestamp)
      BY <3>1, <1>2, Remaining
    <3> QED
      BY <3>2, <2>3, <1>3
  <2>9. ASSUME loopBacks = 0
        PROVE  /\ imuUpTo' = 0 \/ imuUpTo' <= lastImuTimestamp'
               /\ \A k \in 1 .. Len(imu') : imu'[k] \in imuFrom' .. imuUpTo'
               /\ \A k \in 1 .. Len(imuBuffer') : imuBuffer'[k] >= imuUpTo'
               /\ \A k \in 1 .. Len(imu') - 1 : imu'[k + 1] - imu'[k] \in 1 .. ImuGap
               /\ imu' # <<>> =>
                    IF imuBuffer' = <<>> THEN Last(imu') = lastImuTimestamp'
                    ELSE Head(imuBuffer') - Last(imu') \in 1 .. ImuGap
    <3>1. imuUpTo' <= lastImuTimestamp'
      BY <1>3, <1>4, <2>3 DEF ImuReady
    <3>2. ASSUME NEW k \in 1 .. Len(imu') PROVE imu'[k] \in imuFrom' .. imuUpTo'
      <4>1. k \in 1 .. m /\ k \in 1 .. n /\ imu'[k] = imuBuffer[k]
        BY <2>4, <2>5, <2>6
      <4>2. imuBuffer[k] >= imuUpTo /\ imuBuffer[k] <= EndTime /\ imuBuffer[k] \in Time
        BY <1>2, <2>4, <2>5, <2>9, <4>1 DEF ImuInv
      <4> QED
        BY <4>1, <4>2, <2>3, <1>1, <1>2 DEF Time
    <3>3. \A k \in 1 .. Len(imuBuffer') : imuBuffer'[k] >= imuUpTo'
      BY <2>3, <2>4, <2>7
    <3>4. ASSUME NEW k \in 1 .. Len(imu') - 1 PROVE imu'[k + 1] - imu'[k] \in 1 .. ImuGap
      <4>1. k \in 1 .. n - 1 /\ imu'[k] = imuBuffer[k] /\ imu'[k + 1] = imuBuffer[k + 1]
        BY <2>4, <2>5, <2>6
      <4> QED
        BY <4>1, <1>2 DEF Waiting
    <3>5. ASSUME imu' # <<>> PROVE m \in 1 .. n /\ Last(imu') = imuBuffer[m]
      <4>1. m # 0
        BY <3>5, <2>6, EmptySeq
      <4> QED
        BY <4>1, <2>4, <2>5, <2>6 DEF Last
    <3>6. ASSUME imu' # <<>>, imuBuffer' = <<>> PROVE Last(imu') = lastImuTimestamp'
      <4>1. m = n
        BY <3>6, <2>4, <2>5, <2>7, EmptySeq
      <4> QED
        BY <4>1, <3>5, <3>6, <2>1, <1>2, <1>3 DEF Waiting, Last
    <3>7. ASSUME imu' # <<>>, imuBuffer' # <<>> PROVE Head(imuBuffer') - Last(imu') \in 1 .. ImuGap
      <4>1. Len(imuBuffer') # 0 /\ Head(imuBuffer') = imuBuffer'[1]
        BY <3>7, <2>7, EmptySeq, HeadTailProperties
      <4>2. 1 \in 1 .. n - m /\ imuBuffer'[1] = imuBuffer[m + 1] /\ m \in 1 .. n - 1
        BY <4>1, <3>5, <3>7, <2>4, <2>5, <2>7
      <4> QED
        BY <4>1, <4>2, <3>5, <3>7, <1>2 DEF Waiting
    <3> QED
      BY <3>1, <3>2, <3>3, <3>4, <3>6, <3>7
  <2>10. isMotorInitialized'
    BY <2>1, <2>2
  <2>11. ImuInv'
    BY <2>9, <2>10 DEF ImuInv
  <2> QED
    BY <2>3, <2>6, <2>7, <2>8, <2>11, <1>1, <1>2
<1>5. CASE ~TakesImu
  <2>1. UNCHANGED <<imu, imuFrom, imuUpTo>> /\ ImuLeft = imuBuffer
    BY <1>5, Zenon DEF TakeImu, ImuLeft
  <2>2. CASE imuBuffer' = ImuLeft /\ UNCHANGED isMotorInitialized
    <3>1. ImuInv'
      BY <2>1, <2>2, <1>2, <1>3 DEF ImuInv
    <3> QED
      BY <3>1, <2>1, <2>2, <1>2, <1>3
  <2>3. CASE imuBuffer' = <<>> /\ ~isMotorInitialized /\ isMotorInitialized'
    <3>1. imu = <<>>
      BY <1>2, <2>3, Zenon DEF ImuInv
    <3>2. imuBuffer' \in Seq(Time) /\ Len(imuBuffer') = 0 /\ Len(imu') = 0
      BY <2>1, <2>3, <3>1, EmptySeq
    <3>3. Waiting(imuBuffer', ImuGap, lastImuTimestamp')
      BY <2>3, <3>2 DEF Waiting
    <3>4. loopBacks = 0 => imuUpTo' = 0 \/ imuUpTo' <= lastImuTimestamp'
      BY <2>1, <1>2, <1>3 DEF ImuInv
    <3>5. (\A k : ~(k \in 1 .. Len(imuBuffer'))) /\ (\A k : ~(k \in 1 .. Len(imu')))
          /\ (\A k : ~(k \in 1 .. Len(imu') - 1))
      BY <3>2
    <3>6. imu' = <<>> /\ isMotorInitialized'
      BY <2>1, <2>3, <3>1
    <3>7. ImuInv'
      BY <3>4, <3>5, <3>6, Zenon DEF ImuInv
    <3> QED
      BY <3>2, <3>3, <3>7, <2>1, <1>2
  <2> QED
    BY <2>1, <2>2, <2>3
<1> QED
  BY <1>4, <1>5

-----------------------------------------------------------------------------
(* The steps. *)

LEMMA Initially ==
  ASSUME Init
  PROVE  IInv
<1> USE DEF Init, Earliest, Time
<1>1. NoScan \in Scan
  BY ConstantsAssumption DEF NoScan, Scan
<1>2. isMotorInitialized \in BOOLEAN
  BY ConstantsAssumption
<1>3. [scan |-> NoScan, motor |-> FALSE] \in [scan : Scan, motor : BOOLEAN]
  BY <1>1
<1>4. TypeOK
  <2>1. /\ lidarBuffer \in Seq(Scan) /\ imu \in Seq(Time) /\ imuBuffer \in Seq(Time)
        /\ tMotorAngles \in Seq(Time) /\ motorAngleBuf \in Seq(Time)
    BY EmptySeq
  <2>2. lidar \in Scan /\ synced \in [scan : Scan, motor : BOOLEAN]
    BY <1>1, <1>3
  <2>3. /\ lidarEndTime \in Time /\ imuFrom \in Time /\ imuUpTo \in Time
        /\ lidarStamp \in Int /\ loopBacks \in 0 .. MaxLoopBacks
    BY ConstantsAssumption
  <2>4. /\ isLidarPushed \in BOOLEAN /\ curMotorAngle \in {"none", "known", "nan"}
        /\ lastImuTimestamp \in Time \cup {Earliest} /\ lastMotorTimestamp \in Time \cup {Earliest}
    OBVIOUS
  <2> QED
    BY <1>2, <2>1, <2>2, <2>3, <2>4, Zenon DEF TypeOK
<1>5. ~isLidarPushed /\ ~synced.motor /\ synced.scan.beg = 0
  BY DEF NoScan
<1>6. LidarInv
  BY <1>5, ConstantsAssumption DEF LidarInv, WaitingScanAtFront
<1>7. Waiting(motorAngleBuf, MotorGap, lastMotorTimestamp) /\ Waiting(imuBuffer, ImuGap, lastImuTimestamp)
  BY DEF Waiting
<1>8. AnglesInv
  BY <1>5, ConstantsAssumption DEF AnglesInv, AnglesEncloseScan
<1>9. ImuInv
  BY DEF ImuInv
<1> QED
  BY <1>4, <1>6, <1>7, <1>8, <1>9 DEF IInv

\* A scan received goes behind those that wait.
LEMMA LidarStep ==
  ASSUME ScanLen <= MinPeriod, IInv, LidarCallback
  PROVE  IInv'
<1> USE DEF IInv
<1>1. PICK beg \in lidarStamp + MinPeriod .. MaxTime - ScanLen, sparse \in BOOLEAN :
         /\ lidarBuffer' = Append(IF beg < lidarEndTime THEN <<>> ELSE lidarBuffer,
                                  [beg |-> beg, sparse |-> sparse])
         /\ lidarStamp' = beg
         /\ UNCHANGED <<isLidarPushed, lidarEndTime, lidar, imuVars, motorVars, measVars, loopBacks>>
  BY DEF LidarCallback
<1>2. lidarStamp \in Int /\ lidarEndTime \in Time /\ lidarEndTime <= lidarStamp + MinPeriod
  BY DEF TypeOK, LidarInv
<1>3. beg \in Time /\ ~(beg < lidarEndTime) /\ lidarStamp <= beg /\ beg + ScanLen <= MaxTime
      /\ lidarEndTime <= beg /\ beg \in Int /\ lidarStamp + MinPeriod <= beg
  BY <1>2, ConstantsAssumption DEF Time
<1> DEFINE new == [beg |-> beg, sparse |-> sparse]
           n == Len(lidarBuffer)
<1>4. new \in Scan /\ new.beg = beg
  BY <1>3 DEF Scan
<1> HIDE DEF new
<1>5. lidarBuffer' = Append(lidarBuffer, new)
  BY <1>1, <1>3, Zenon DEF new
<1>6. lidarBuffer \in Seq(Scan) /\ n \in Nat
  BY LenProperties DEF TypeOK
<1>7. /\ lidarBuffer' \in Seq(Scan) /\ Len(lidarBuffer') = n + 1
      /\ \A i \in 1 .. n : lidarBuffer'[i] = lidarBuffer[i]
      /\ lidarBuffer'[n + 1] = new
  BY <1>4, <1>5, <1>6, AppendProperties
<1>8. UNCHANGED <<isLidarPushed, lidarEndTime, lidar, imuVars, motorVars, measVars, loopBacks>>
  BY <1>1
<1>9. TypeOK'
  BY <1>1, <1>3, <1>7, <1>8 DEF TypeOK, imuVars, motorVars, measVars
<1>10. WaitingScanAtFront'
  <2>1. ASSUME isLidarPushed
        PROVE lidarBuffer' # <<>> /\ Head(lidarBuffer') = lidar /\ lidarEndTime = End(lidar)
    <3>1. lidarBuffer # <<>> /\ Head(lidarBuffer) = lidar /\ lidarEndTime = End(lidar)
      BY <2>1 DEF LidarInv, WaitingScanAtFront
    <3>2. n # 0 /\ Head(lidarBuffer) = lidarBuffer[1]
      BY <3>1, <1>6, EmptySeq, HeadTailProperties
    <3>3. lidarBuffer' # <<>> /\ Head(lidarBuffer') = lidarBuffer'[1]
      BY <1>6, <1>7, EmptySeq, HeadTailProperties
    <3>4. lidarBuffer'[1] = lidarBuffer[1]
      BY <1>6, <1>7, <3>2
    <3> QED
      BY <3>1, <3>2, <3>3, <3>4
  <2> QED
    BY <2>1, <1>8 DEF WaitingScanAtFront
<1>11. ASSUME NEW i \in 1 .. Len(lidarBuffer')
       PROVE  /\ lidarBuffer'[i].beg <= lidarStamp' /\ End(lidarBuffer'[i]) <= MaxTime
              /\ (i = 1 /\ isLidarPushed') \/ lidarEndTime' <= lidarBuffer'[i].beg
              /\ synced'.scan.beg <= lidarBuffer'[i].beg
  <2>1. CASE i \in 1 .. n
    <3>1. lidarBuffer'[i] = lidarBuffer[i] /\ lidarBuffer[i] \in Scan
      BY <2>1, <1>6, <1>7, ElementOfSeq
    <3>2. lidarBuffer[i].beg \in Int
      BY <3>1 DEF Scan, Time
    <3>3. /\ lidarBuffer[i].beg <= lidarStamp /\ End(lidarBuffer[i]) <= MaxTime
          /\ (i = 1 /\ isLidarPushed) \/ lidarEndTime <= lidarBuffer[i].beg
          /\ synced.scan.beg <= lidarBuffer[i].beg
      BY <2>1 DEF LidarInv, AnglesInv
    <3>4. lidarBuffer[i].beg <= lidarStamp'
      BY <3>2, <3>3, <1>1, <1>2, <1>3
    <3> QED
      BY <3>1, <3>3, <3>4, <1>8 DEF measVars
  <2>2. CASE i = n + 1
    <3>1. lidarBuffer'[i].beg = beg
      BY <2>2, <1>4, <1>7
    <3>2. synced.scan.beg \in Int /\ synced.scan.beg <= lidarStamp + MinPeriod
      BY DEF TypeOK, AnglesInv, Scan, Time
    <3>3. synced.scan.beg <= beg
      BY <3>2, <1>2, <1>3, ConstantsAssumption
    <3>4. synced' = synced /\ lidarEndTime' = lidarEndTime
      BY <1>8 DEF measVars
    <3>5. End(lidarBuffer'[i]) <= MaxTime
      BY <3>1, <1>3 DEF End
    <3> QED
      BY <3>1, <3>3, <3>4, <3>5, <1>1, <1>3
  <2> QED
    BY <2>1, <2>2, <1>6, <1>7
<1>12. ASSUME NEW i \in 1 .. Len(lidarBuffer'), NEW j \in 1 .. Len(lidarBuffer'), i < j
       PROVE  End(lidarBuffer'[i]) <= lidarBuffer'[j].beg
  <2>1. i \in 1 .. n /\ lidarBuffer'[i] = lidarBuffer[i]
    BY <1>6, <1>7, <1>12
  <2>2. CASE j \in 1 .. n
    <3>1. lidarBuffer'[j] = lidarBuffer[j]
      BY <2>2, <1>7
    <3>2. End(lidarBuffer[i]) <= lidarBuffer[j].beg
      BY <2>1, <2>2, <1>12, Zenon DEF LidarInv
    <3> QED
      BY <2>1, <3>1, <3>2
  <2>3. CASE j = n + 1
    <3>1. lidarBuffer'[j].beg = beg
      BY <2>3, <1>4, <1>7
    <3>2. lidarBuffer[i].beg \in Int /\ lidarBuffer[i].beg <= lidarStamp
      <4>1. lidarBuffer[i] \in Scan
        BY <2>1, <1>6, ElementOfSeq
      <4>2. lidarBuffer[i].beg \in Int
        BY <4>1 DEF Scan, Time
      <4>3. lidarBuffer[i].beg <= lidarStamp
        BY <2>1, Zenon DEF LidarInv
      <4> QED
        BY <4>2, <4>3
    <3>3. lidarBuffer[i].beg + ScanLen <= beg
      BY <3>2, <1>2, <1>3, ConstantsAssumption
    <3> QED
      BY <3>1, <3>3, <2>1 DEF End
  <2> QED
    BY <2>2, <2>3, <1>6, <1>7
<1>13. /\ lidarEndTime' <= lidarStamp' + MinPeriod
       /\ synced'.scan.beg <= lidarStamp' + MinPeriod
  <2>1. synced.scan.beg \in Int /\ synced.scan.beg <= lidarStamp + MinPeriod
    BY DEF TypeOK, AnglesInv, Scan, Time
  <2>2. synced' = synced /\ lidarEndTime' = lidarEndTime /\ lidarStamp' = beg
    BY <1>1 DEF measVars
  <2> QED
    BY <2>1, <2>2, <1>2, <1>3, ConstantsAssumption DEF Time
<1>14. LidarInv'
  BY <1>10, <1>11, <1>12, <1>13, Zenon DEF LidarInv
<1>15. AnglesInv'
  <2>1. tMotorAngles' = tMotorAngles /\ synced' = synced
    BY <1>8 DEF measVars
  <2>2. AnglesEncloseScan' /\ (tMotorAngles' # <<>> => tMotorAngles'[1] <= synced'.scan.beg)
    BY <2>1 DEF AnglesEncloseScan, AnglesInv
  <2> QED
    BY <2>2, <1>11, <1>13, Zenon DEF AnglesInv
<1>16. Waiting(motorAngleBuf, MotorGap, lastMotorTimestamp)' /\ Waiting(imuBuffer, ImuGap, lastImuTimestamp)'
  BY <1>8 DEF imuVars, motorVars
<1>17. ImuInv'
  BY <1>8 DEF imuVars, measVars, ImuInv
<1> QED
  BY <1>9, <1>14, <1>15, <1>16, <1>17

\* A sample received goes behind those that wait, or replaces them.
LEMMA ImuStep ==
  ASSUME IInv, ImuCallback
  PROVE  IInv'
<1> USE DEF IInv
<1>1. PICK t \in Time :
         /\ \/ /\ lastImuTimestamp < t /\ t <= lastImuTimestamp + ImuGap
               /\ UNCHANGED loopBacks
            \/ /\ t < lastImuTimestamp /\ loopBacks < MaxLoopBacks
               /\ loopBacks' = loopBacks + 1
         /\ imuBuffer' = Append(IF t < lastImuTimestamp THEN <<>> ELSE imuBuffer, t)
         /\ lastImuTimestamp' = t
         /\ UNCHANGED <<imuFrom, imuUpTo, scanVars, motorVars, measVars, lidarStamp>>
  BY DEF ImuCallback
<1>2. /\ imuBuffer \in Seq(Time) /\ lastImuTimestamp \in Time \cup {Earliest}
      /\ Waiting(imuBuffer, ImuGap, lastImuTimestamp) /\ loopBacks \in 0 .. MaxLoopBacks
      /\ imu \in Seq(Time) /\ imuUpTo \in Time
  BY DEF TypeOK
<1>3. UNCHANGED <<imuFrom, imuUpTo, scanVars, motorVars, measVars, lidarStamp>>
  BY <1>1
<1>4. /\ imuBuffer' \in Seq(Time) /\ loopBacks' \in 0 .. MaxLoopBacks
      /\ Waiting(imuBuffer', ImuGap, lastImuTimestamp') /\ ImuInv'
  <2>1. CASE lastImuTimestamp < t /\ t <= lastImuTimestamp + ImuGap /\ UNCHANGED loopBacks
    <3>1. imuBuffer' = Append(imuBuffer, t)
      <4>1. ~(t < lastImuTimestamp)
        BY <1>2, <2>1 DEF Time, Earliest
      <4> QED
        BY <1>1, <4>1, Zenon
    <3>2. /\ imuBuffer' \in Seq(Time) /\ imuBuffer' # <<>>
          /\ Waiting(imuBuffer', ImuGap, t)
          /\ Len(imuBuffer') = Len(imuBuffer) + 1
          /\ \A k \in 1 .. Len(imuBuffer) : imuBuffer'[k] = imuBuffer[k]
          /\ imuBuffer'[Len(imuBuffer) + 1] = t
      <4>1. ImuGap \in Nat \ {0}
        BY ConstantsAssumption
      <4>2. /\ Append(imuBuffer, t) \in Seq(Time) /\ Append(imuBuffer, t) # <<>>
            /\ Waiting(Append(imuBuffer, t), ImuGap, t)
            /\ Len(Append(imuBuffer, t)) = Len(imuBuffer) + 1
            /\ \A k \in 1 .. Len(imuBuffer) : Append(imuBuffer, t)[k] = imuBuffer[k]
            /\ Append(imuBuffer, t)[Len(imuBuffer) + 1] = t
        BY <1>2, <2>1, <4>1, Received
      <4> QED
        BY <3>1, <4>2, Zenon
    <3>3. Len(imuBuffer) \in Nat /\ (imuBuffer = <<>> <=> Len(imuBuffer) = 0)
      BY <1>2, LenProperties, EmptySeq
    <3>4. imu' = imu /\ imuFrom' = imuFrom /\ imuUpTo' = imuUpTo /\ isMotorInitialized' = isMotorInitialized
      BY <1>3 DEF measVars
    <3>5. ASSUME loopBacks = 0
          PROVE  /\ imuUpTo' = 0 \/ imuUpTo' <= lastImuTimestamp'
                 /\ \A k \in 1 .. Len(imuBuffer') : imuBuffer'[k] >= imuUpTo'
                 /\ imu # <<>> => Head(imuBuffer') - Last(imu) \in 1 .. ImuGap
      <4>1. imuUpTo = 0 \/ imuUpTo <= lastImuTimestamp
        BY <3>5 DEF ImuInv
      <4>2. imuUpTo <= t /\ lastImuTimestamp' = t
        BY <4>1, <2>1, <1>1, <1>2 DEF Time, Earliest
      <4>3. ASSUME NEW k \in 1 .. Len(imuBuffer') PROVE imuBuffer'[k] >= imuUpTo'
        <5>1. CASE k \in 1 .. Len(imuBuffer)
          BY <5>1, <3>2, <3>4, <3>5 DEF ImuInv
        <5>2. CASE k = Len(imuBuffer) + 1
          BY <5>2, <3>2, <3>4, <4>2, <1>2 DEF Time
        <5> QED
          BY <5>1, <5>2, <3>2, <3>3
      <4>4. Head(imuBuffer') = imuBuffer'[1]
        BY <3>2, HeadTailProperties
      <4>5. ASSUME imu # <<>> PROVE Head(imuBuffer') - Last(imu) \in 1 .. ImuGap
        <5>1. CASE imuBuffer = <<>>
          <6>1. Last(imu) = lastImuTimestamp
            BY <5>1, <4>5, <3>5 DEF ImuInv
          <6>2. Head(imuBuffer') = t
            BY <5>1, <3>2, <3>3, <4>4
          <6> QED
            BY <6>1, <6>2, <2>1, <1>2, ConstantsAssumption DEF Time, Earliest
        <5>2. CASE imuBuffer # <<>>
          <6>1. Head(imuBuffer) - Last(imu) \in 1 .. ImuGap
            BY <5>2, <4>5, <3>5 DEF ImuInv
          <6>2. Head(imuBuffer') = imuBuffer[1] /\ Head(imuBuffer) = imuBuffer[1]
            BY <5>2, <1>2, <3>2, <3>3, <4>4, HeadTailProperties
          <6> QED
            BY <6>1, <6>2
        <5> QED
          BY <5>1, <5>2
      <4> QED
        BY <3>4, <4>2, <4>3, <4>5
    <3>6. ImuInv'
      <4>1. ~isMotorInitialized' => imu' = <<>>
        BY <3>4, Zenon DEF ImuInv
      <4>2. ASSUME loopBacks' = 0
            PROVE  /\ imuUpTo' = 0 \/ imuUpTo' <= lastImuTimestamp'
                   /\ \A k \in 1 .. Len(imu') : imu'[k] \in imuFrom' .. imuUpTo'
                   /\ \A k \in 1 .. Len(imuBuffer') : imuBuffer'[k] >= imuUpTo'
                   /\ \A k \in 1 .. Len(imu') - 1 : imu'[k + 1] - imu'[k] \in 1 .. ImuGap
                   /\ imu' # <<>> =>
                        IF imuBuffer' = <<>> THEN Last(imu') = lastImuTimestamp'
                        ELSE Head(imuBuffer') - Last(imu') \in 1 .. ImuGap
        <5>1. loopBacks = 0
          BY <4>2, <2>1
        <5>2. /\ \A k \in 1 .. Len(imu) : imu[k] \in imuFrom .. imuUpTo
              /\ \A k \in 1 .. Len(imu) - 1 : imu[k + 1] - imu[k] \in 1 .. ImuGap
          BY <5>1 DEF ImuInv
        <5> QED
          BY <5>1, <5>2, <3>2, <3>4, <3>5
      <4> QED
        BY <4>1, <4>2, Zenon DEF ImuInv
    <3> QED
      BY <3>2, <3>6, <2>1, <1>1, <1>2
  <2>2. CASE t < lastImuTimestamp /\ loopBacks < MaxLoopBacks /\ loopBacks' = loopBacks + 1
    <3>1. imuBuffer' = <<t>>
      BY <1>1, <2>2
    <3>2. imuBuffer' \in Seq(Time) /\ Waiting(imuBuffer', ImuGap, lastImuTimestamp')
      BY <3>1, <1>1 DEF Waiting, Last
    <3>3. loopBacks' \in 0 .. MaxLoopBacks /\ loopBacks' # 0
      BY <2>2, <1>2, ConstantsAssumption
    <3>4. imu' = imu /\ isMotorInitialized' = isMotorInitialized
      BY <1>3 DEF measVars
    <3>5. ImuInv'
      BY <3>3, <3>4, Zenon DEF ImuInv
    <3> QED
      BY <3>2, <3>3, <3>5
  <2> QED
    BY <1>1, <2>1, <2>2
<1>5. TypeOK'
  BY <1>1, <1>3, <1>4 DEF TypeOK, scanVars, motorVars, measVars
<1>6. LidarInv'
  BY <1>3 DEF scanVars, LidarInv, WaitingScanAtFront
<1>7. AnglesInv'
  BY <1>3 DEF scanVars, measVars, AnglesInv, AnglesEncloseScan
<1>8. Waiting(motorAngleBuf, MotorGap, lastMotorTimestamp)'
  BY <1>3 DEF motorVars
<1> QED
  BY <1>4, <1>5, <1>6, <1>7, <1>8

\* An angle received goes behind those that wait.
LEMMA MotorStep ==
  ASSUME IInv, MotorCallback
  PROVE  IInv'
<1> USE DEF IInv
<1>1. PICK t \in Time :
         /\ lastMotorTimestamp < t /\ t <= lastMotorTimestamp + MotorGap
         /\ motorAngleBuf' = Append(motorAngleBuf, t)
         /\ lastMotorTimestamp' = t
         /\ UNCHANGED <<scanVars, imuVars, measVars, lidarStamp, loopBacks>>
  BY DEF MotorCallback
<1>2. /\ motorAngleBuf \in Seq(Time) /\ lastMotorTimestamp \in Time \cup {Earliest}
      /\ Waiting(motorAngleBuf, MotorGap, lastMotorTimestamp) /\ MotorGap \in Nat \ {0}
  BY ConstantsAssumption DEF TypeOK
<1>3. motorAngleBuf' \in Seq(Time) /\ Waiting(motorAngleBuf', MotorGap, lastMotorTimestamp')
  <2>1. Append(motorAngleBuf, t) \in Seq(Time) /\ Waiting(Append(motorAngleBuf, t), MotorGap, t)
    BY <1>1, <1>2, Received
  <2> QED
    BY <2>1, <1>1
<1>4. UNCHANGED <<scanVars, imuVars, measVars, lidarStamp, loopBacks>>
  BY <1>1
<1>5. TypeOK'
  BY <1>1, <1>3, <1>4 DEF TypeOK, scanVars, imuVars, measVars
<1>6. LidarInv'
  BY <1>4 DEF scanVars, LidarInv, WaitingScanAtFront
<1>7. AnglesInv'
  BY <1>4 DEF scanVars, measVars, AnglesInv, AnglesEncloseScan
<1>8. Waiting(imuBuffer, ImuGap, lastImuTimestamp)' /\ ImuInv'
  BY <1>4 DEF imuVars, measVars, ImuInv
<1> QED
  BY <1>3, <1>5, <1>6, <1>7, <1>8

\* A sparse scan is skipped before any call waited for it.
LEMMA SkipStep ==
  ASSUME IInv, SkipScan
  PROVE  IInv'
<1> USE DEF IInv
<1>1. /\ lidarBuffer # <<>> /\ ~isLidarPushed /\ lidar' = Head(lidarBuffer)
      /\ lidarBuffer' = Tail(lidarBuffer)
      /\ UNCHANGED <<isLidarPushed, lidarEndTime, imuVars, motorVars, measVars, lidarStamp, loopBacks>>
  BY DEF SkipScan
<1>2. /\ lidarBuffer' \in Seq(Scan) /\ Len(lidarBuffer') \in Nat /\ Len(lidarBuffer) = Len(lidarBuffer') + 1
      /\ \A i \in 1 .. Len(lidarBuffer') :
           lidarBuffer'[i] = lidarBuffer[i + 1] /\ i + 1 \in 2 .. Len(lidarBuffer)
  BY <1>1, Popped
<1>3. lidar' \in Scan
  <2>1. lidarBuffer \in Seq(Scan)
    BY DEF TypeOK
  <2> QED
    BY <2>1, <1>1, HeadTailProperties
<1>4. TypeOK'
  BY <1>1, <1>2, <1>3 DEF TypeOK, imuVars, motorVars, measVars
<1>5. ~isLidarPushed' /\ lidarEndTime' = lidarEndTime /\ lidarStamp' = lidarStamp
  BY <1>1
<1>6. WaitingScanAtFront'
  BY <1>5, Zenon DEF WaitingScanAtFront
<1>7. ASSUME NEW i \in 1 .. Len(lidarBuffer')
      PROVE  /\ lidarBuffer'[i].beg <= lidarStamp' /\ End(lidarBuffer'[i]) <= MaxTime
             /\ lidarEndTime' <= lidarBuffer'[i].beg
             /\ synced'.scan.beg <= lidarBuffer'[i].beg
  <2>1. i + 1 \in 1 .. Len(lidarBuffer) /\ lidarBuffer'[i] = lidarBuffer[i + 1] /\ i + 1 # 1
    BY <1>2
  <2>2. /\ lidarBuffer[i + 1].beg <= lidarStamp /\ End(lidarBuffer[i + 1]) <= MaxTime
        /\ (i + 1 = 1 /\ isLidarPushed) \/ lidarEndTime <= lidarBuffer[i + 1].beg
        /\ synced.scan.beg <= lidarBuffer[i + 1].beg
    BY <2>1, Zenon DEF LidarInv, AnglesInv
  <2>3. synced' = synced
    BY <1>1 DEF measVars
  <2> QED
    BY <2>1, <2>2, <2>3, <1>5, Zenon
<1>8. ASSUME NEW i \in 1 .. Len(lidarBuffer'), NEW j \in 1 .. Len(lidarBuffer'), i < j
      PROVE  End(lidarBuffer'[i]) <= lidarBuffer'[j].beg
  <2>1. /\ i + 1 \in 1 .. Len(lidarBuffer) /\ j + 1 \in 1 .. Len(lidarBuffer) /\ i + 1 < j + 1
        /\ lidarBuffer'[i] = lidarBuffer[i + 1] /\ lidarBuffer'[j] = lidarBuffer[j + 1]
    BY <1>2, <1>8
  <2> QED
    BY <2>1 DEF LidarInv
<1>9. lidarEndTime' <= lidarStamp' + MinPeriod
  BY <1>5 DEF LidarInv
<1>10. LidarInv'
  BY <1>6, <1>7, <1>8, <1>9, Zenon DEF LidarInv
<1>11. AnglesInv'
  <2>1. tMotorAngles' = tMotorAngles /\ synced' = synced
    BY <1>1 DEF measVars
  <2>2. /\ AnglesEncloseScan' /\ (tMotorAngles' # <<>> => tMotorAngles'[1] <= synced'.scan.beg)
        /\ synced'.scan.beg <= lidarStamp' + MinPeriod
    BY <2>1, <1>5 DEF AnglesEncloseScan, AnglesInv
  <2> QED
    BY <2>2, <1>7, Zenon DEF AnglesInv
<1>12. Waiting(motorAngleBuf, MotorGap, lastMotorTimestamp)' /\ Waiting(imuBuffer, ImuGap, lastImuTimestamp)'
  BY <1>1 DEF imuVars, motorVars
<1>13. ImuInv'
  BY <1>1 DEF imuVars, measVars, ImuInv
<1> QED
  BY <1>4, <1>10, <1>11, <1>12, <1>13

\* The scan that begins to wait stays at the front.
LEMMA WaitStep ==
  ASSUME ScanLen <= MinPeriod, IInv, WaitForData
  PROVE  IInv'
<1> USE DEF IInv
<1>1. /\ HasScan /\ ~isLidarPushed /\ lidar' = Current /\ lidarEndTime' = EndTime /\ isLidarPushed' = TRUE
      /\ UNCHANGED <<lidarBuffer, imuVars, motorVars, measVars, lidarStamp, loopBacks>>
  BY DEF WaitForData
<1>2. /\ lidarBuffer # <<>> /\ Current = lidarBuffer[1] /\ Current \in Scan /\ EndTime = End(Current)
      /\ EndTime \in Time /\ EndTime <= lidarStamp + MinPeriod
      /\ \A i \in 2 .. Len(lidarBuffer) : EndTime <= lidarBuffer[i].beg
  BY <1>1, CurrentScan
<1>3. TypeOK'
  BY <1>1, <1>2 DEF TypeOK, imuVars, motorVars, measVars
<1>4. Head(lidarBuffer) = lidarBuffer[1]
  <2>1. lidarBuffer \in Seq(Scan)
    BY DEF TypeOK
  <2> QED
    BY <2>1, <1>2, HeadTailProperties
<1>5. lidarBuffer' = lidarBuffer /\ lidarStamp' = lidarStamp
  BY <1>1
<1>6. WaitingScanAtFront'
  BY <1>1, <1>2, <1>4, <1>5, Zenon DEF WaitingScanAtFront
<1>7. ASSUME NEW i \in 1 .. Len(lidarBuffer')
      PROVE  /\ lidarBuffer'[i].beg <= lidarStamp' /\ End(lidarBuffer'[i]) <= MaxTime
             /\ (i = 1 /\ isLidarPushed') \/ lidarEndTime' <= lidarBuffer'[i].beg
  <2>1. lidarBuffer[i].beg <= lidarStamp /\ End(lidarBuffer[i]) <= MaxTime
    BY <1>5 DEF LidarInv
  <2>2. CASE i = 1
    BY <2>1, <2>2, <1>1, <1>5, Zenon
  <2>3. CASE i # 1
    <3>1. i \in 2 .. Len(lidarBuffer)
      BY <2>3, <1>5
    <3>2. lidarEndTime' <= lidarBuffer'[i].beg
      BY <3>1, <1>1, <1>2, <1>5
    <3> QED
      BY <2>1, <3>2, <1>5, Zenon
  <2> QED
    BY <2>2, <2>3
<1>8. \A i, j \in 1 .. Len(lidarBuffer') : i < j => End(lidarBuffer'[i]) <= lidarBuffer'[j].beg
  BY <1>5 DEF LidarInv
<1>9. lidarEndTime' <= lidarStamp' + MinPeriod
  BY <1>1, <1>2, <1>5
<1>10. LidarInv'
  BY <1>6, <1>7, <1>8, <1>9, Zenon DEF LidarInv
<1>11. AnglesInv'
  BY <1>1 DEF measVars, AnglesInv, AnglesEncloseScan
<1>12. Waiting(motorAngleBuf, MotorGap, lastMotorTimestamp)' /\ Waiting(imuBuffer, ImuGap, lastImuTimestamp)'
  BY <1>1 DEF imuVars, motorVars
<1>13. ImuInv'
  BY <1>1 DEF imuVars, measVars, ImuInv
<1> QED
  BY <1>3, <1>10, <1>11, <1>12, <1>13

\* A scan is dropped with its samples.
LEMMA DropStep ==
  ASSUME ScanLen <= MinPeriod, IInv, DropScan
  PROVE  IInv'
<1> USE DEF IInv
<1>1. /\ HasScan /\ ImuReady /\ PopScan /\ lidarBuffer' = Tail(lidarBuffer)
      /\ TakeImu /\ imuBuffer' = ImuLeft
      /\ UNCHANGED <<motorVars, tMotorAngles, curMotorAngle, isMotorInitialized, synced,
                    lidarStamp, loopBacks>>
  BY DEF DropScan
<1>2. /\ lidarBuffer' \in Seq(Scan) /\ isLidarPushed' \in BOOLEAN /\ lidarEndTime' \in Time
      /\ lidar' \in Scan /\ LidarInv'
      /\ \A i \in 1 .. Len(lidarBuffer') : Current.beg <= lidarBuffer'[i].beg
  BY <1>1, ScansLeft
<1>3. /\ imu' \in Seq(Time) /\ imuBuffer' \in Seq(Time) /\ imuFrom' \in Time /\ imuUpTo' \in Time
      /\ Waiting(imuBuffer', ImuGap, lastImuTimestamp') /\ ImuInv'
  BY <1>1, HandedOver
<1>4. TypeOK'
  BY <1>1, <1>2, <1>3 DEF TypeOK, TakeImu, motorVars
<1>5. synced.scan.beg <= Current.beg /\ Current.beg \in Time
  BY <1>1, CurrentScan
<1>6. AnglesInv'
  <2>1. tMotorAngles' = tMotorAngles /\ synced' = synced /\ lidarStamp' = lidarStamp
    BY <1>1
  <2>2. ASSUME NEW i \in 1 .. Len(lidarBuffer') PROVE synced'.scan.beg <= lidarBuffer'[i].beg
    <3>1. lidarBuffer'[i].beg \in Time
      <4>1. lidarBuffer'[i] \in Scan
        BY <1>2, ElementOfSeq
      <4> QED
        BY <4>1 DEF Scan
    <3>2. synced.scan.beg \in Time
      BY DEF Scan, TypeOK
    <3> QED
      BY <3>1, <3>2, <2>1, <1>2, <1>5 DEF Time
  <2>3. /\ AnglesEncloseScan' /\ (tMotorAngles' # <<>> => tMotorAngles'[1] <= synced'.scan.beg)
        /\ synced'.scan.beg <= lidarStamp' + MinPeriod
    BY <2>1 DEF AnglesEncloseScan, AnglesInv
  <2> QED
    BY <2>2, <2>3, Zenon DEF AnglesInv
<1>7. Waiting(motorAngleBuf, MotorGap, lastMotorTimestamp)'
  BY <1>1 DEF motorVars
<1> QED
  BY <1>2, <1>3, <1>4, <1>6, <1>7

\* A scan is returned with its angles and samples.
LEMMA SyncStep ==
  ASSUME ScanLen <= MinPeriod, IInv, SyncScan
  PROVE  IInv'
<1> USE DEF IInv
<1>1. /\ HasScan /\ MotorReady /\ ImuReady /\ PopScan /\ TakeImu
      /\ motorAngleBuf # <<>> => EnoughMotorData
      /\ tMotorAngles' = IF motorAngleBuf = <<>> THEN tMotorAngles ELSE CollectRasterAngles
      /\ curMotorAngle' = IF motorAngleBuf = <<>> THEN curMotorAngle ELSE AngleAtEnd
      /\ synced' = [scan |-> Current, motor |-> motorAngleBuf # <<>>]
      /\ UNCHANGED <<lastMotorTimestamp, lidarStamp, loopBacks>>
  BY DEF SyncScan
<1>2. \/ /\ lidarBuffer' = Tail(lidarBuffer) /\ imuBuffer' = ImuLeft /\ motorAngleBuf' = MotorLeft
         /\ UNCHANGED isMotorInitialized
      \/ /\ ~isMotorInitialized /\ isMotorInitialized'
         /\ lidarBuffer' = <<>> /\ imuBuffer' = <<>> /\ motorAngleBuf' = <<>>
  BY DEF SyncScan
<1>3. /\ Current \in Scan /\ EndTime = End(Current) /\ EndTime \in Time /\ Current.beg \in Time
      /\ Current.beg <= lidarStamp /\ synced.scan.beg <= Current.beg
  BY <1>1, CurrentScan
<1>4. /\ lidarBuffer' \in Seq(Scan) /\ isLidarPushed' \in BOOLEAN /\ lidarEndTime' \in Time
      /\ lidar' \in Scan /\ LidarInv'
      /\ \A i \in 1 .. Len(lidarBuffer') : Current.beg <= lidarBuffer'[i].beg
  <2>1. lidarBuffer' = Tail(lidarBuffer) \/ lidarBuffer' = <<>>
    BY <1>2
  <2> QED
    BY <2>1, <1>1, ScansLeft
<1>5. /\ imu' \in Seq(Time) /\ imuBuffer' \in Seq(Time) /\ imuFrom' \in Time /\ imuUpTo' \in Time
      /\ Waiting(imuBuffer', ImuGap, lastImuTimestamp') /\ ImuInv'
  <2>1. \/ imuBuffer' = ImuLeft /\ UNCHANGED isMotorInitialized
        \/ imuBuffer' = <<>> /\ ~isMotorInitialized /\ isMotorInitialized'
    BY <1>2, Zenon
  <2>2. UNCHANGED loopBacks
    BY <1>1
  <2> QED
    BY <2>1, <2>2, <1>1, HandedOver
<1>6. motorAngleBuf # <<>> => EndTime <= Last(motorAngleBuf)
  BY <1>1 DEF EnoughMotorData
<1>7. motorAngleBuf' \in Seq(Time) /\ Waiting(motorAngleBuf', MotorGap, lastMotorTimestamp')
  <2>1. CASE motorAngleBuf' = MotorLeft
    <3>1. lastMotorTimestamp' = lastMotorTimestamp
      BY <1>1
    <3>2. motorAngleBuf' \in Seq(Time) /\ Waiting(motorAngleBuf', MotorGap, lastMotorTimestamp)
      BY <2>1, <1>3, <1>6, LeftOver
    <3> QED
      BY <3>1, <3>2
  <2>2. CASE motorAngleBuf' = <<>>
    <3>1. motorAngleBuf' \in Seq(Time) /\ Len(motorAngleBuf') = 0
      BY <2>2, EmptySeq
    <3> QED
      BY <2>2, <3>1 DEF Waiting
  <2> QED
    BY <2>1, <2>2, <1>2
<1>8. isMotorInitialized' \in BOOLEAN
  BY <1>2 DEF TypeOK
<1>9. curMotorAngle' \in {"none", "known", "nan"}
  BY <1>1 DEF TypeOK, AngleAtEnd
<1>10. synced'.scan = Current /\ synced' \in [scan : Scan, motor : BOOLEAN]
  <2>1. (motorAngleBuf # <<>>) \in BOOLEAN
    BY Zenon
  <2> QED
    BY <2>1, <1>1, <1>3
<1>11. /\ tMotorAngles' \in Seq(Time)
       /\ tMotorAngles' # <<>> => tMotorAngles'[1] <= Current.beg
       /\ AnglesEncloseScan'
  <2>1. CASE motorAngleBuf = <<>>
    <3>1. tMotorAngles' = tMotorAngles /\ ~synced'.motor
      BY <2>1, <1>1
    <3>2. tMotorAngles \in Seq(Time) /\ (tMotorAngles # <<>> => tMotorAngles[1] <= synced.scan.beg)
      BY DEF TypeOK, AnglesInv
    <3>3. ASSUME tMotorAngles # <<>> PROVE tMotorAngles[1] <= Current.beg
      <4>1. tMotorAngles[1] \in Time
        <5>1. Len(tMotorAngles) \in Nat /\ Len(tMotorAngles) # 0
          BY <3>2, <3>3, LenProperties, EmptySeq
        <5> QED
          BY <5>1, <3>2, ElementOfSeq
      <4>2. synced.scan.beg \in Time
        BY DEF TypeOK, Scan
      <4> QED
        BY <4>1, <4>2, <3>2, <3>3, <1>3 DEF Time
    <3>4. AnglesEncloseScan'
      BY <3>1, Zenon DEF AnglesEncloseScan
    <3> QED
      BY <3>1, <3>2, <3>3, <3>4
  <2>2. CASE motorAngleBuf # <<>>
    <3>1. EnoughMotorData /\ tMotorAngles' = CollectRasterAngles
      BY <2>2, <1>1, Zenon
    <3>2. /\ tMotorAngles' \in Seq(Time) /\ tMotorAngles' # <<>>
          /\ tMotorAngles'[1] <= Current.beg /\ EndTime <= Last(tMotorAngles')
          /\ \A k \in 2 .. Len(tMotorAngles') - 1 : tMotorAngles'[k + 1] - tMotorAngles'[k] \in 1 .. MotorGap
      BY <2>2, <3>1, <1>1, Collected
    <3>3. AnglesEncloseScan'
      BY <3>2, <1>3, <1>10, Zenon DEF AnglesEncloseScan
    <3> QED
      BY <3>2, <3>3
  <2> QED
    BY <2>1, <2>2
<1>12. TypeOK'
  BY <1>1, <1>4, <1>5, <1>7, <1>8, <1>9, <1>10, <1>11 DEF TypeOK, TakeImu
<1>13. AnglesInv'
  <2>1. Current.beg <= lidarStamp' + MinPeriod
    <3>1. lidarStamp \in Int /\ lidarStamp' = lidarStamp
      BY <1>1 DEF TypeOK
    <3> QED
      BY <3>1, <1>3, ConstantsAssumption DEF Time
  <2>2. synced'.scan.beg = Current.beg
    BY <1>10
  <2> QED
    BY <2>1, <2>2, <1>4, <1>11 DEF AnglesInv
<1> QED
  BY <1>4, <1>5, <1>7, <1>12, <1>13

LEMMA Step ==
  ASSUME ScanLen <= MinPeriod, IInv, [Next]_vars
  PROVE  IInv'
<1>1. CASE LidarCallback
  BY <1>1, LidarStep
<1>2. CASE ImuCallback
  BY <1>2, ImuStep
<1>3. CASE MotorCallback
  BY <1>3, MotorStep
<1>4. CASE SkipScan
  BY <1>4, SkipStep
<1>5. CASE WaitForData
  BY <1>5, WaitStep
<1>6. CASE DropScan
  BY <1>6, DropStep
<1>7. CASE SyncScan
  BY <1>7, SyncStep
<1>8. CASE UNCHANGED vars
  <2>1. UNCHANGED <<scanVars, imuVars, motorVars, measVars, lidarStamp, loopBacks>>
    BY <1>8 DEF vars
  <2>2. TypeOK' /\ LidarInv'
    BY <2>1 DEF scanVars, imuVars, motorVars, measVars, IInv, TypeOK, LidarInv, WaitingScanAtFront
  <2>3. AnglesInv' /\ ImuInv'
    BY <2>1 DEF scanVars, imuVars, motorVars, measVars, IInv, AnglesInv, AnglesEncloseScan, ImuInv
  <2>4. Waiting(motorAngleBuf, MotorGap, lastMotorTimestamp)' /\ Waiting(imuBuffer, ImuGap, lastImuTimestamp)'
    BY <2>1 DEF imuVars, motorVars, IInv
  <2> QED
    BY <2>2, <2>3, <2>4 DEF IInv
<1> QED
  BY <1>1, <1>2, <1>3, <1>4, <1>5, <1>6, <1>7, <1>8 DEF Next, SyncPackages, Done

\* Every step of the composition is one of the synchronisation's, or none.
LEMMA Composed ==
  ASSUME [ImuNext]_imuProcessVars
  PROVE  [Next]_vars
<1>1. CASE ImuNext
  BY <1>1 DEF ImuNext, ReceiveImu, ReceiveMotor, ProcessPackages, MapScan, Next, SyncPackages
<1>2. CASE UNCHANGED imuProcessVars
  BY <1>2 DEF imuProcessVars
<1> QED
  BY <1>1, <1>2

-----------------------------------------------------------------------------
(* The times the filter is propagated to.                                  *)

\* The times at the samples s from a filter at time t0, the last scan's end
\* being end: the equation of TimeAt.
TimesFrom(s, end, t0, f) ==
  f = [k \in 1 .. Len(s) |->
         IF k = 1 THEN t0
         ELSE f[k - 1] + (IF k \in {j \in 2 .. Len(s) : s[j] >= end}
                          THEN s[k] - (IF s[k - 1] < end THEN end ELSE s[k - 1]) ELSE 0)]

\* The time the propagation starts from, if m is the first sample used.
StartOf(s, end, m) == IF s[m - 1] < end THEN end ELSE s[m - 1]

\* The samples from the m-th on are those not before the end.
UsedFrom(s, end, m) ==
  /\ \A k \in 2 .. Len(s) : s[k] >= end <=> m <= k
  /\ \A k \in 1 .. Len(s) : s[k] \in Int

\* The intervals of the samples used join: the time at a sample is as far
\* from the filter's as the sample is from the start.
LEMMA TimesJoin ==
  ASSUME NEW s, NEW end \in Int, NEW t0 \in Int, NEW m \in Nat, NEW f,
         Len(s) \in Nat, 2 <= m, UsedFrom(s, end, m), TimesFrom(s, end, t0, f)
  PROVE  \A k \in 1 .. Len(s) : f[k] = IF k < m THEN t0 ELSE t0 + s[k] - StartOf(s, end, m)
<1> DEFINE G(k) == IF k < m THEN t0 ELSE t0 + s[k] - StartOf(s, end, m)
           Bad == {k \in 1 .. Len(s) : f[k] # G(k)}
<1>1. \A k \in 1 .. Len(s) : s[k] \in Int /\ (k >= 2 => (s[k] >= end <=> m <= k))
  BY DEF UsedFrom
<1>2. ASSUME NEW k \in 1 .. Len(s)
      PROVE  f[k] = IF k = 1 THEN t0
                    ELSE f[k - 1] + (IF k \in {j \in 2 .. Len(s) : s[j] >= end}
                                     THEN s[k] - (IF s[k - 1] < end THEN end ELSE s[k - 1]) ELSE 0)
  BY Zenon DEF TimesFrom
<1>3. ASSUME Bad # {} PROVE FALSE
  <2>1. Bad \in SUBSET Nat
    OBVIOUS
  <2> HIDE DEF Bad
  <2>2. First(Bad) \in Bad /\ \A j \in Bad : First(Bad) <= j
    BY <1>3, <2>1, FirstOf
  <2> DEFINE k == First(Bad)
  <2> HIDE DEF k
  <2>3. k \in 1 .. Len(s) /\ f[k] # G(k) /\ \A j \in Bad : k <= j
    BY <2>2 DEF k, Bad
  <2>4. CASE k = 1
    <3>1. f[k] = t0
      BY <1>2, <2>3, <2>4
    <3>2. G(k) = t0
      BY <2>4
    <3> QED
      BY <2>3, <3>1, <3>2
  <2>5. CASE k # 1
    <3>1. k - 1 \in 1 .. Len(s) /\ k \in 2 .. Len(s)
      BY <2>3, <2>5
    <3>2. f[k - 1] = G(k - 1)
      <4>1. k - 1 \notin Bad
        BY <2>3
      <4> QED
        BY <3>1, <4>1 DEF Bad
    <3>3. f[k] = f[k - 1] + (IF s[k] >= end
                             THEN s[k] - (IF s[k - 1] < end THEN end ELSE s[k - 1]) ELSE 0)
      <4>1. k \in {j \in 2 .. Len(s) : s[j] >= end} <=> s[k] >= end
        BY <3>1
      <4> QED
        BY <1>2, <2>3, <2>5, <4>1
    <3>4. s[k] \in Int /\ s[k - 1] \in Int /\ (s[k] >= end <=> m <= k)
      BY <1>1, <3>1
    <3>5. CASE k < m
      BY <3>2, <3>3, <3>4, <3>5, <2>3
    <3>6. CASE k = m
      <4>1. f[k - 1] = t0
        BY <3>2, <3>6, <3>1
      <4>2. f[k] = t0 + (s[k] - StartOf(s, end, m))
        BY <4>1, <3>3, <3>4, <3>6 DEF StartOf
      <4>3. StartOf(s, end, m) \in Int
        BY <3>4, <3>6 DEF StartOf
      <4> QED
        BY <4>2, <4>3, <3>4, <3>6, <2>3
    <3>7. CASE k > m
      <4>1. StartOf(s, end, m) \in Int
        <5>1. m - 1 \in 1 .. Len(s)
          BY <3>7, <3>1
        <5> QED
          BY <5>1, <1>1 DEF StartOf
      <4>2. f[k - 1] = t0 + s[k - 1] - StartOf(s, end, m)
        BY <3>2, <3>7, <3>1
      <4>3. s[k - 1] >= end
        BY <3>7, <3>1, <1>1
      <4>4. f[k] = f[k - 1] + (s[k] - s[k - 1])
        BY <4>3, <3>3, <3>4, <3>7, <3>1
      <4>5. G(k) = t0 + s[k] - StartOf(s, end, m)
        BY <3>7, <3>1
      <4> QED
        BY <4>1, <4>2, <4>4, <4>5, <3>4, <2>3
    <3> QED
      BY <3>1, <3>5, <3>6, <3>7
  <2> QED
    BY <2>4, <2>5
<1>4. \A k \in 1 .. Len(s) : f[k] = G(k)
  BY <1>3
<1> QED
  BY <1>4

\* There is such a function.
LEMMA TimesExist ==
  ASSUME NEW s, NEW end \in Int, NEW t0 \in Int, NEW m \in Nat,
         Len(s) \in Nat, 2 <= m, UsedFrom(s, end, m)
  PROVE  \E f : TimesFrom(s, end, t0, f)
<1> DEFINE g == [k \in 1 .. Len(s) |-> IF k < m THEN t0 ELSE t0 + s[k] - StartOf(s, end, m)]
           H(k) == IF k = 1 THEN t0
                   ELSE g[k - 1] + (IF k \in {j \in 2 .. Len(s) : s[j] >= end}
                                    THEN s[k] - (IF s[k - 1] < end THEN end ELSE s[k - 1]) ELSE 0)
<1>1. ASSUME NEW k \in 1 .. Len(s) PROVE g[k] = H(k)
  <2>1. g[k] = IF k < m THEN t0 ELSE t0 + s[k] - StartOf(s, end, m)
    OBVIOUS
  <2>2. CASE k = 1
    BY <2>1, <2>2
  <2>3. CASE k # 1
    <3>1. k - 1 \in 1 .. Len(s) /\ k \in 2 .. Len(s)
      BY <2>3
    <3>2. g[k - 1] = IF k - 1 < m THEN t0 ELSE t0 + s[k - 1] - StartOf(s, end, m)
      BY <3>1
    <3>3. H(k) = g[k - 1] + (IF s[k] >= end
                             THEN s[k] - (IF s[k - 1] < end THEN end ELSE s[k - 1]) ELSE 0)
      <4>1. k \in {j \in 2 .. Len(s) : s[j] >= end} <=> s[k] >= end
        BY <3>1
      <4> HIDE DEF g
      <4> QED
        BY <2>3, <4>1
    <3> HIDE DEF g, H
    <3>4. s[k] \in Int /\ s[k - 1] \in Int /\ (s[k] >= end <=> m <= k)
      BY <3>1 DEF UsedFrom
    <3>5. CASE k < m
      BY <2>1, <3>2, <3>3, <3>4, <3>5, <3>1
    <3>6. CASE k = m
      <4>1. StartOf(s, end, m) = IF s[k - 1] < end THEN end ELSE s[k - 1]
        BY <3>6 DEF StartOf
      <4> QED
        BY <4>1, <2>1, <3>1, <3>2, <3>3, <3>4, <3>6
    <3>7. CASE k > m
      <4>1. StartOf(s, end, m) \in Int
        <5>1. m - 1 \in 1 .. Len(s)
          BY <3>7, <3>1
        <5> QED
          BY <5>1 DEF StartOf, UsedFrom
      <4>2. s[k - 1] >= end
        BY <3>7, <3>1 DEF UsedFrom
      <4>3. H(k) = g[k - 1] + (s[k] - s[k - 1])
        BY <4>2, <3>3, <3>4, <3>7, <3>1
      <4> QED
        BY <4>1, <4>3, <2>1, <3>1, <3>2, <3>4, <3>7
    <3> QED
      BY <3>1, <3>5, <3>6, <3>7
  <2> QED
    BY <2>2, <2>3
<1>2. g = [k \in 1 .. Len(s) |-> H(k)]
  <2> HIDE DEF H
  <2>1. g = [k \in 1 .. Len(s) |-> g[k]]
    OBVIOUS
  <2> HIDE DEF g
  <2> QED
    BY <1>1, <2>1
<1>3. TimesFrom(s, end, t0, g)
  BY <1>2, Zenon DEF TimesFrom
<1> QED
  BY <1>3

\* TimeAt, when the samples from the m-th on are those used.
LEMMA TimeAtIs ==
  ASSUME Len(Samples) \in Nat, lastLidarEnd \in Int, filterTime \in Int, NEW m \in Nat, 2 <= m,
         UsedFrom(Samples, lastLidarEnd, m)
  PROVE  \A k \in 1 .. Len(Samples) :
           TimeAt[k] = IF k < m THEN filterTime
                       ELSE filterTime + Samples[k] - StartOf(Samples, lastLidarEnd, m)
<1> DEFINE T == CHOOSE f : TimesFrom(Samples, lastLidarEnd, filterTime, f)
<1>1. TimeAt = T
  BY DEF TimeAt, TimesFrom, Used, Dt
<1>2. TimesFrom(Samples, lastLidarEnd, filterTime, T)
  <2>1. \E f : TimesFrom(Samples, lastLidarEnd, filterTime, f)
    BY TimesExist
  <2> QED
    BY <2>1, Zenon
<1> HIDE DEF T
<1>3. \A k \in 1 .. Len(Samples) :
         T[k] = IF k < m THEN filterTime
                ELSE filterTime + Samples[k] - StartOf(Samples, lastLidarEnd, m)
  BY <1>2, TimesJoin
<1> QED
  BY <1>1, <1>3
-----------------------------------------------------------------------------
(* The points the backward pass moves.                                     *)

\* Pose k moves point i when the pass begins with pose kp: it is before the
\* point and, unless the point is the first of the scan, no pose after it is.
MovedBy(poses, pts, kp, i, k) ==
  /\ k \in 1 .. kp - 1 /\ pts[i] > 2 * poses[k].label
  /\ i = 1 \/ \A j \in k + 1 .. kp - 1 : 2 * poses[j].label >= pts[i]

\* What the pass moves from pose at[1] and point at[2] on.
MovedFrom(poses, pts, at) ==
  {m \in (1 .. at[2]) \X (1 .. at[1] - 1) : MovedBy(poses, pts, at[1], m[1], m[2])}

\* The equation of Backward.
PassesOver(poses, pts, move) ==
  move = [at \in (1 .. Len(poses)) \X (1 .. Len(pts)) |->
            LET kp == at[1]
                ip == at[2]
            IN IF kp = 1 THEN {}
               ELSE IF pts[ip] > 2 * poses[kp - 1].label
                    THEN {<<ip, kp - 1>>} \cup
                         (IF ip = 1 THEN move[<<kp - 1, 1>>] ELSE move[<<kp, ip - 1>>])
                    ELSE move[<<kp - 1, ip>>]]

\* Labels and times of points are numbers, and the points are in order.
InOrder(poses, pts) ==
  /\ Len(poses) \in Nat /\ Len(pts) \in Nat
  /\ \A k \in 1 .. Len(poses) : poses[k].label \in Int
  /\ \A i \in 1 .. Len(pts) : pts[i] \in Int
  /\ \A i, j \in 1 .. Len(pts) : i <= j => pts[i] <= pts[j]

\* One step of the pass.
LEMMA PassStep ==
  ASSUME NEW poses, NEW pts, InOrder(poses, pts),
         NEW kp \in 2 .. Len(poses), NEW ip \in 1 .. Len(pts)
  PROVE  MovedFrom(poses, pts, <<kp, ip>>) =
           IF pts[ip] > 2 * poses[kp - 1].label
           THEN {<<ip, kp - 1>>} \cup
                (IF ip = 1 THEN MovedFrom(poses, pts, <<kp - 1, 1>>)
                 ELSE MovedFrom(poses, pts, <<kp, ip - 1>>))
           ELSE MovedFrom(poses, pts, <<kp - 1, ip>>)
<1> DEFINE P(q, i, k) == MovedBy(poses, pts, q, i, k)
<1>1. \A q, i : MovedFrom(poses, pts, <<q, i>>) =
                  {m \in (1 .. i) \X (1 .. q - 1) : P(q, m[1], m[2])}
  BY Zenon DEF MovedFrom
<1>2. kp \in Nat /\ ip \in Nat /\ kp - 1 \in 1 .. Len(poses) /\ poses[kp - 1].label \in Int
      /\ pts[ip] \in Int
  BY DEF InOrder
<1>3. \A i \in 1 .. ip : i \in 1 .. Len(pts) /\ pts[i] \in Int /\ pts[i] <= pts[ip]
  <2>1. \A i \in 1 .. ip : i \in 1 .. Len(pts) /\ i <= ip
    BY DEF InOrder
  <2> QED
    BY <2>1 DEF InOrder
<1>4. \A k \in 1 .. kp - 1 : poses[k].label \in Int
  BY DEF InOrder
<1>5. CASE ~(pts[ip] > 2 * poses[kp - 1].label)
  <2>1. ASSUME NEW i \in 1 .. ip, NEW k \in 1 .. kp - 1
        PROVE  P(kp, i, k) <=> (k \in 1 .. kp - 2 /\ P(kp - 1, i, k))
    <3>1. pts[i] <= 2 * poses[kp - 1].label
      BY <1>2, <1>3, <1>5
    <3>2. CASE k = kp - 1
      BY <3>1, <3>2, <1>2, <1>3 DEF MovedBy
    <3>3. CASE k # kp - 1
      <4>1. k \in 1 .. kp - 2 /\ k + 1 .. kp - 1 = (k + 1 .. kp - 2) \cup {kp - 1}
        BY <3>3
      <4>2. (\A j \in k + 1 .. kp - 1 : 2 * poses[j].label >= pts[i])
              <=> (\A j \in k + 1 .. kp - 2 : 2 * poses[j].label >= pts[i])
        <5>1. 2 * poses[kp - 1].label >= pts[i]
          BY <3>1, <1>2, <1>3
        <5> QED
          BY <4>1, <5>1
      <4>3. (kp - 1) - 1 = kp - 2
        OBVIOUS
      <4> QED
        BY <4>1, <4>2, <4>3 DEF MovedBy
    <3> QED
      BY <3>2, <3>3
  <2>2. MovedFrom(poses, pts, <<kp, ip>>) = MovedFrom(poses, pts, <<kp - 1, ip>>)
    <3> HIDE DEF P
    <3>1. (kp - 1) - 1 = kp - 2 /\ \A k : k \in 1 .. kp - 2 => k \in 1 .. kp - 1
      BY <1>2
    <3>2. MovedFrom(poses, pts, <<kp, ip>>) = {m \in (1 .. ip) \X (1 .. kp - 1) : P(kp, m[1], m[2])}
      BY <1>1
    <3>3. MovedFrom(poses, pts, <<kp - 1, ip>>) = {m \in (1 .. ip) \X (1 .. kp - 2) : P(kp - 1, m[1], m[2])}
      BY <1>1, <3>1
    <3>4. \A i \in 1 .. ip : \A k \in 1 .. kp - 1 :
            P(kp, i, k) <=> (k \in 1 .. kp - 2 /\ P(kp - 1, i, k))
      BY <2>1
    <3> QED
      BY <3>1, <3>2, <3>3, <3>4
  <2> QED
    BY <2>2, <1>5
<1>6. CASE pts[ip] > 2 * poses[kp - 1].label /\ ip = 1
  <2>1. ASSUME NEW k \in 1 .. kp - 1
        PROVE  P(kp, 1, k) <=> (k = kp - 1 \/ (k \in 1 .. kp - 2 /\ P(kp - 1, 1, k)))
    <3>1. P(kp, 1, k) <=> pts[1] > 2 * poses[k].label
      BY DEF MovedBy
    <3>2. k \in 1 .. kp - 2 => (P(kp - 1, 1, k) <=> pts[1] > 2 * poses[k].label)
      BY DEF MovedBy
    <3>3. k = kp - 1 \/ k \in 1 .. kp - 2
      BY <1>2
    <3> QED
      BY <3>1, <3>2, <3>3, <1>6
  <2> HIDE DEF P
  <2>2. MovedFrom(poses, pts, <<kp, 1>>) = {m \in (1 .. 1) \X (1 .. kp - 1) : P(kp, m[1], m[2])}
    BY <1>1
  <2>3. MovedFrom(poses, pts, <<kp - 1, 1>>) = {m \in (1 .. 1) \X (1 .. kp - 2) : P(kp - 1, m[1], m[2])}
    <3>1. (kp - 1) - 1 = kp - 2
      BY <1>2
    <3> QED
      BY <3>1, <1>1
  <2>4. kp - 1 \in 1 .. kp - 1 /\ \A k : k \in 1 .. kp - 2 => k \in 1 .. kp - 1
    BY <1>2
  <2>5. \A i : i \in 1 .. 1 <=> i = 1
    OBVIOUS
  <2>6. MovedFrom(poses, pts, <<kp, 1>>) = {<<1, kp - 1>>} \cup MovedFrom(poses, pts, <<kp - 1, 1>>)
    BY <2>1, <2>2, <2>3, <2>4, <2>5
  <2> QED
    BY <2>6, <1>6
<1>7. CASE pts[ip] > 2 * poses[kp - 1].label /\ ip # 1
  <2>1. ASSUME NEW k \in 1 .. kp - 1 PROVE P(kp, ip, k) <=> k = kp - 1
    <3>1. CASE k = kp - 1
      <4>1. \A j : ~(j \in k + 1 .. kp - 1)
        BY <3>1, <1>2
      <4> QED
        BY <3>1, <4>1, <1>7 DEF MovedBy
    <3>2. CASE k # kp - 1
      <4>1. kp - 1 \in k + 1 .. kp - 1
        BY <3>2, <1>2
      <4>2. ~(2 * poses[kp - 1].label >= pts[ip])
        BY <1>2, <1>7
      <4> QED
        BY <3>2, <4>1, <4>2, <1>7 DEF MovedBy
    <3> QED
      BY <3>1, <3>2
  <2> HIDE DEF P
  <2>2. MovedFrom(poses, pts, <<kp, ip>>) = {m \in (1 .. ip) \X (1 .. kp - 1) : P(kp, m[1], m[2])}
    BY <1>1
  <2>3. MovedFrom(poses, pts, <<kp, ip - 1>>) = {m \in (1 .. ip - 1) \X (1 .. kp - 1) : P(kp, m[1], m[2])}
    BY <1>1
  <2>4. kp - 1 \in 1 .. kp - 1 /\ ip \in 1 .. ip /\ \A i : i \in 1 .. ip <=> (i = ip \/ i \in 1 .. ip - 1)
    BY <1>2
  <2>5. MovedFrom(poses, pts, <<kp, ip>>) = {<<ip, kp - 1>>} \cup MovedFrom(poses, pts, <<kp, ip - 1>>)
    BY <2>1, <2>2, <2>3, <2>4
  <2> QED
    BY <2>5, <1>7
<1> QED
  BY <1>5, <1>6, <1>7

\* The pass moves what MovedFrom says.
LEMMA BackwardIs ==
  ASSUME NEW poses, NEW pts, InOrder(poses, pts), Len(poses) # 0, Len(pts) # 0
  PROVE  Backward(poses, pts) = MovedFrom(poses, pts, <<Len(poses), Len(pts)>>)
<1> DEFINE D == (1 .. Len(poses)) \X (1 .. Len(pts))
           R(f, at) == LET kp == at[1]
                           ip == at[2]
                       IN IF kp = 1 THEN {}
                          ELSE IF pts[ip] > 2 * poses[kp - 1].label
                               THEN {<<ip, kp - 1>>} \cup
                                    (IF ip = 1 THEN f[<<kp - 1, 1>>] ELSE f[<<kp, ip - 1>>])
                               ELSE f[<<kp - 1, ip>>]
           g == [at \in D |-> MovedFrom(poses, pts, at)]
           move == CHOOSE f : PassesOver(poses, pts, f)
<1>1. Len(poses) \in Nat \ {0} /\ Len(pts) \in Nat \ {0}
  BY DEF InOrder
<1>2. Backward(poses, pts) = move[<<Len(poses), Len(pts)>>]
  BY DEF Backward, PassesOver
<1>3. \A f : PassesOver(poses, pts, f) <=> f = [at \in D |-> R(f, at)]
  BY Zenon DEF PassesOver
<1>4. ASSUME NEW f, NEW q \in 1 .. Len(poses), NEW i \in 1 .. Len(pts),
             q # 1 => /\ f[<<q - 1, i>>] = MovedFrom(poses, pts, <<q - 1, i>>)
                      /\ i # 1 => f[<<q, i - 1>>] = MovedFrom(poses, pts, <<q, i - 1>>)
      PROVE  R(f, <<q, i>>) = MovedFrom(poses, pts, <<q, i>>)
  <2>1. R(f, <<q, i>>) =
          IF q = 1 THEN {}
          ELSE IF pts[i] > 2 * poses[q - 1].label
               THEN {<<i, q - 1>>} \cup (IF i = 1 THEN f[<<q - 1, 1>>] ELSE f[<<q, i - 1>>])
               ELSE f[<<q - 1, i>>]
    OBVIOUS
  <2> HIDE DEF R
  <2>2. CASE q = 1
    <3>1. \A k : ~(k \in 1 .. 1 - 1)
      OBVIOUS
    <3>2. MovedFrom(poses, pts, <<1, i>>) = {m \in (1 .. i) \X (1 .. 1 - 1) : MovedBy(poses, pts, 1, m[1], m[2])}
      BY Zenon DEF MovedFrom
    <3>3. MovedFrom(poses, pts, <<1, i>>) = {}
      BY <3>1, <3>2
    <3> QED
      BY <2>1, <2>2, <3>3
  <2>3. CASE q # 1
    <3>1. q \in 2 .. Len(poses)
      BY <2>3, <1>1
    <3>2. MovedFrom(poses, pts, <<q, i>>) =
            IF pts[i] > 2 * poses[q - 1].label
            THEN {<<i, q - 1>>} \cup
                 (IF i = 1 THEN MovedFrom(poses, pts, <<q - 1, 1>>)
                  ELSE MovedFrom(poses, pts, <<q, i - 1>>))
            ELSE MovedFrom(poses, pts, <<q - 1, i>>)
      BY <3>1, PassStep
    <3> QED
      BY <2>1, <2>3, <3>2, <1>4
  <2> QED
    BY <2>2, <2>3
<1>5. PassesOver(poses, pts, g)
  <2>1. ASSUME NEW at \in D PROVE g[at] = R(g, at)
    <3>1. PICK q \in 1 .. Len(poses), i \in 1 .. Len(pts) : at = <<q, i>>
      OBVIOUS
    <3>2. q # 1 => /\ g[<<q - 1, i>>] = MovedFrom(poses, pts, <<q - 1, i>>)
                   /\ i # 1 => g[<<q, i - 1>>] = MovedFrom(poses, pts, <<q, i - 1>>)
      <4>1. (q # 1 => <<q - 1, i>> \in D) /\ (i # 1 => <<q, i - 1>> \in D)
        BY <1>1
      <4> QED
        BY <4>1
    <3> HIDE DEF R
    <3>3. g[<<q, i>>] = MovedFrom(poses, pts, <<q, i>>)
      OBVIOUS
    <3> HIDE DEF g
    <3>4. R(g, <<q, i>>) = MovedFrom(poses, pts, <<q, i>>)
      BY <3>2, <1>4
    <3> QED
      BY <3>1, <3>3, <3>4
  <2>2. g = [at \in D |-> g[at]]
    BY Zenon
  <2> HIDE DEF g, R, D
  <2>3. g = [at \in D |-> R(g, at)]
    BY <2>1, <2>2
  <2> QED
    BY <2>3, <1>3
<1>6. move = [at \in D |-> R(move, at)]
  <2> HIDE DEF g
  <2>1. \E f : PassesOver(poses, pts, f)
    BY <1>5
  <2>2. PassesOver(poses, pts, move)
    BY <2>1, Zenon
  <2> HIDE DEF move, R, D
  <2> QED
    BY <2>2, <1>3
<1> HIDE DEF move
<1>7. \A q \in 1 .. Len(poses) : \A i \in 1 .. Len(pts) : move[<<q, i>>] = R(move, <<q, i>>)
  <2>1. \A q \in 1 .. Len(poses) : \A i \in 1 .. Len(pts) : <<q, i>> \in D
    OBVIOUS
  <2> HIDE DEF R, D
  <2> QED
    BY <2>1, <1>6, Zenon
<1> DEFINE Bad == {n \in Nat : \E q \in 1 .. Len(poses) : \E i \in 1 .. Len(pts) :
                      n = q + i /\ move[<<q, i>>] # MovedFrom(poses, pts, <<q, i>>)}
<1> HIDE DEF R
<1>8. ASSUME Bad # {} PROVE FALSE
  <2>1. Bad \in SUBSET Nat
    OBVIOUS
  <2> HIDE DEF Bad
  <2> DEFINE n == First(Bad)
  <2>2. n \in Bad /\ \A j \in Bad : n <= j
    BY <1>8, <2>1, FirstOf
  <2> HIDE DEF n
  <2>3. PICK q \in 1 .. Len(poses) : \E i \in 1 .. Len(pts) :
           n = q + i /\ move[<<q, i>>] # MovedFrom(poses, pts, <<q, i>>)
    BY <2>2 DEF Bad
  <2>4. PICK i \in 1 .. Len(pts) : n = q + i /\ move[<<q, i>>] # MovedFrom(poses, pts, <<q, i>>)
    BY <2>3
  <2>5. ASSUME NEW q2 \in 1 .. Len(poses), NEW i2 \in 1 .. Len(pts), q2 + i2 < n
        PROVE  move[<<q2, i2>>] = MovedFrom(poses, pts, <<q2, i2>>)
    <3>1. q2 + i2 \in Nat /\ ~(n <= q2 + i2)
      BY <2>4, <2>5
    <3>2. q2 + i2 \notin Bad
      BY <3>1, <2>2
    <3> QED
      BY <3>1, <3>2 DEF Bad
  <2>6. q # 1 => move[<<q - 1, i>>] = MovedFrom(poses, pts, <<q - 1, i>>)
    <3>1. q # 1 => q - 1 \in 1 .. Len(poses) /\ (q - 1) + i < n
      BY <2>4, <1>1
    <3> QED
      BY <3>1, <2>5
  <2>7. i # 1 => move[<<q, i - 1>>] = MovedFrom(poses, pts, <<q, i - 1>>)
    <3>1. i # 1 => i - 1 \in 1 .. Len(pts) /\ q + (i - 1) < n
      BY <2>4, <1>1
    <3> QED
      BY <3>1, <2>5
  <2>8. R(move, <<q, i>>) = MovedFrom(poses, pts, <<q, i>>)
    BY <2>6, <2>7, <1>4
  <2> QED
    BY <2>4, <2>8, <1>7
<1>9. move[<<Len(poses), Len(pts)>>] = MovedFrom(poses, pts, <<Len(poses), Len(pts)>>)
  <2>1. Len(poses) \in 1 .. Len(poses) /\ Len(pts) \in 1 .. Len(pts)
        /\ Len(poses) + Len(pts) \in Nat
    BY <1>1
  <2>2. Len(poses) + Len(pts) \notin Bad
    <3> HIDE DEF Bad
    <3> QED
      BY <1>8
  <2> QED
    BY <2>1, <2>2
<1> QED
  BY <1>2, <1>9

\* Every point but the first, if the first pose is before it, is moved by the
\* last of the poses before it, the last pose of all not counted.
LEMMA MovedOnce ==
  ASSUME NEW poses, NEW pts, InOrder(poses, pts), Len(poses) >= 2,
         NEW ip \in 2 .. Len(pts), 2 * poses[1].label < pts[ip],
         NEW moved, moved = Backward(poses, pts)
  PROVE  \E kp \in 1 .. Len(poses) - 1 :
           /\ {m \in moved : m[1] = ip} = {<<ip, kp>>}
           /\ 2 * poses[kp].label < pts[ip]
           /\ \A j \in kp + 1 .. Len(poses) - 1 : 2 * poses[j].label >= pts[ip]
<1> DEFINE n == Len(poses) - 1
           K == {k \in 1 .. n : 2 * poses[k].label < pts[ip]}
<1>1. n \in Nat /\ 1 \in K /\ Len(pts) # 0 /\ Len(poses) # 0 /\ ip \in 1 .. Len(pts)
  BY DEF InOrder
<1>2. pts[ip] \in Int /\ \A k \in 1 .. n : poses[k].label \in Int
  BY DEF InOrder
<1>3. PICK kp \in K : \A k \in K : k <= kp
  <2>1. K \in SUBSET (1 .. n) /\ K # {}
    BY <1>1
  <2> HIDE DEF K, n
  <2> QED
    BY <2>1, <1>1, LastOf
<1>4. kp \in 1 .. n /\ 2 * poses[kp].label < pts[ip]
  OBVIOUS
<1>5. \A j \in kp + 1 .. n : 2 * poses[j].label >= pts[ip]
  <2>1. ASSUME NEW j \in kp + 1 .. n PROVE 2 * poses[j].label >= pts[ip]
    <3>1. j \in 1 .. n /\ j \notin K
      BY <1>1, <1>3, <1>4
    <3> QED
      BY <3>1, <1>2
  <2> QED
    BY <2>1
<1>6. moved = {m \in (1 .. Len(pts)) \X (1 .. n) : MovedBy(poses, pts, Len(poses), m[1], m[2])}
  <2>1. moved = MovedFrom(poses, pts, <<Len(poses), Len(pts)>>)
    BY <1>1, BackwardIs
  <2> QED
    BY <2>1, Zenon DEF MovedFrom
<1>7. ASSUME NEW k \in 1 .. n PROVE MovedBy(poses, pts, Len(poses), ip, k) <=> k = kp
  <2>1. CASE k = kp
    <3>1. pts[ip] > 2 * poses[k].label
      BY <2>1, <1>2, <1>4
    <3> QED
      BY <3>1, <2>1, <1>5 DEF MovedBy
  <2>2. CASE k # kp
    <3>1. ASSUME k < kp PROVE ~MovedBy(poses, pts, Len(poses), ip, k)
      <4>1. kp \in k + 1 .. Len(poses) - 1 /\ ip # 1 /\ ~(2 * poses[kp].label >= pts[ip])
        BY <3>1, <1>2, <1>4
      <4> QED
        BY <4>1 DEF MovedBy
    <3>2. ASSUME k > kp PROVE ~MovedBy(poses, pts, Len(poses), ip, k)
      <4>1. ~(pts[ip] > 2 * poses[k].label)
        BY <3>2, <1>1, <1>2, <1>4, <1>5
      <4> QED
        BY <4>1 DEF MovedBy
    <3> QED
      BY <2>2, <3>1, <3>2, <1>4
  <2> QED
    BY <2>1, <2>2
<1>8. {m \in moved : m[1] = ip} = {<<ip, kp>>}
  <2> HIDE DEF n, K
  <2> QED
    BY <1>1, <1>4, <1>6, <1>7
<1> QED
  BY <1>4, <1>5, <1>8

-----------------------------------------------------------------------------
(* The filter.                                                             *)

\* Scans still to come, waiting in buf or sent after stamp, begin at t or later.
NoScanBefore(t, stamp, buf) ==
  /\ t <= stamp + MinPeriod
  /\ \A i \in 1 .. Len(buf) : t <= buf[i].beg

\* The samples handed over are in order and not from after the scan; the
\* filter has not been propagated beyond what is still to come.
FilterInv ==
  /\ FilterTypeOK
  /\ \A k \in 1 .. Len(imu) : imu[k] <= lidarEndTime
  /\ \A j, k \in 1 .. Len(imu) : j < k => imu[j] < imu[k]
  /\ ~needInit => lastImu \in Time /\ (~propagated => filterTime = lastImu)
  /\ propagated => /\ ~needInit /\ lastLidarEnd \in Time /\ lastImu <= lastLidarEnd
                   /\ NoScanBefore(lastLidarEnd, lidarStamp, lidarBuffer)

\* The samples of a scan end with it, at most a gap before its end if they are
\* its own.
LEMMA SamplesOfScan ==
  ASSUME ScanLen <= MinPeriod, IInv, FilterInv, HasScan, ImuReady, TakeImu
  PROVE  /\ imu' \in Seq(Time)
         /\ \A k \in 1 .. Len(imu') : imu'[k] <= EndTime
         /\ \A j, k \in 1 .. Len(imu') : j < k => imu'[j] < imu'[k]
         /\ TakesImu /\ imu' # <<>> => EndTime - ImuGap <= Last(imu')
<1>1. EndTime \in Time /\ lidarEndTime <= EndTime
  <2>1. EndTime \in Time /\ Current.beg <= EndTime /\ Current = lidarBuffer[1] /\ 1 \in 1 .. Len(lidarBuffer)
        /\ Current.beg \in Time
    BY CurrentScan
  <2>2. CASE isLidarPushed
    <3>1. EndTime = lidarEndTime
      BY <2>2, Zenon DEF EndTime
    <3> QED
      BY <2>1, <3>1 DEF Time
  <2>3. CASE ~isLidarPushed
    <3>1. lidarEndTime <= Current.beg /\ lidarEndTime \in Time
      BY <2>1, <2>3 DEF IInv, LidarInv, TypeOK
    <3> QED
      BY <2>1, <3>1 DEF Time
  <2> QED
    BY <2>2, <2>3
<1>2. imu \in Seq(Time) /\ imuBuffer \in Seq(Time) /\ lidarEndTime \in Time
      /\ lastImuTimestamp \in Time \cup {Earliest} /\ Waiting(imuBuffer, ImuGap, lastImuTimestamp)
  BY DEF IInv, TypeOK
<1>3. CASE ~TakesImu
  <2>1. imu' = imu
    BY <1>3, Zenon DEF TakeImu
  <2>2. \A k \in 1 .. Len(imu) : imu[k] \in Time /\ imu[k] <= lidarEndTime
    BY <1>2, ElementOfSeq DEF FilterInv
  <2>3. \A k \in 1 .. Len(imu) : imu[k] <= EndTime
    BY <2>2, <1>1, <1>2 DEF Time
  <2> QED
    BY <1>2, <1>3, <2>1, <2>3 DEF FilterInv
<1>4. CASE TakesImu
  <2> DEFINE m == ImuTaken
             n == Len(imuBuffer)
  <2>1. imu' = SubSeq(imuBuffer, 1, m)
    BY <1>4, Zenon DEF TakeImu
  <2>2. /\ m \in 0 .. n
        /\ \A k \in 1 .. m : imuBuffer[k] <= EndTime
        /\ \A k \in m + 1 .. n : imuBuffer[k] >= EndTime
    BY <1>1, Taken
  <2> HIDE DEF m
  <2>3. n \in Nat /\ \A k \in 1 .. n : imuBuffer[k] \in Time
    BY <1>2, LenProperties, ElementOfSeq
  <2>4. imu' \in Seq(Time) /\ Len(imu') = m /\ \A i \in 1 .. m : imu'[i] = imuBuffer[i]
    <3>1. 1 \in 1 .. Len(imuBuffer) + 1 /\ m \in 0 .. Len(imuBuffer) /\ 1 <= m + 1
      BY <2>2, <2>3
    <3>2. /\ imu' \in Seq(Time) /\ Len(imu') = m + 1 - 1
          /\ \A i \in 1 .. m + 1 - 1 : imu'[i] = imuBuffer[i + 1 - 1]
      BY <3>1, <1>2, <2>1, Piece
    <3> QED
      BY <3>2, <2>2, <2>3
  <2>5. \A k \in 1 .. Len(imu') : imu'[k] <= EndTime
    BY <2>2, <2>4
  <2>6. \A j, k \in 1 .. Len(imu') : j < k => imu'[j] < imu'[k]
    <3>1. \A k \in 1 .. m : k \in 1 .. n
      BY <2>2, <2>3
    <3> QED
      BY <3>1, <2>4, <1>2 DEF Waiting
  <2>7. ASSUME imu' # <<>> PROVE EndTime - ImuGap <= Last(imu')
    <3>1. m \in 1 .. n /\ Last(imu') = imuBuffer[m] /\ imuBuffer[m] \in Time
      <4>1. m # 0
        BY <2>7, <2>4, EmptySeq
      <4> QED
        BY <4>1, <2>2, <2>3, <2>4 DEF Last
    <3>2. CASE m = n
      <4>1. imuBuffer # <<>> /\ imuBuffer[m] = lastImuTimestamp
        BY <3>2, <1>2, <1>4 DEF TakesImu, Waiting, Last
      <4>2. lastImuTimestamp >= EndTime
        BY <1>4 DEF ImuReady
      <4> QED
        BY <3>1, <4>1, <4>2, <1>1, ConstantsAssumption DEF Time
    <3>3. CASE m # n
      <4>1. m \in 1 .. n - 1 /\ m + 1 \in m + 1 .. n /\ m + 1 \in 1 .. n
        BY <3>1, <3>3, <2>3
      <4>2. imuBuffer[m + 1] - imuBuffer[m] \in 1 .. ImuGap /\ imuBuffer[m + 1] >= EndTime
            /\ imuBuffer[m + 1] \in Time
        BY <4>1, <2>2, <2>3, <1>2 DEF Waiting
      <4> QED
        BY <3>1, <4>2, <1>1, ConstantsAssumption DEF Time
    <3> QED
      BY <3>2, <3>3
  <2> QED
    BY <2>4, <2>5, <2>6, <2>7
<1> QED
  BY <1>3, <1>4

\* The samples the filter is propagated over.
LEMMA SamplesAre ==
  ASSUME imu' \in Seq(Time), imu' # <<>>, lastImu \in Time, lastLidarEnd \in Int,
         \A j, k \in 1 .. Len(imu') : j < k => imu'[j] < imu'[k],
         NEW n, n = Len(Samples), NEW m, m = FirstUsed
  PROVE  /\ n \in Nat /\ n >= 2 /\ n = Len(imu') + 1
         /\ Samples[1] = lastImu /\ Last(imu') = Samples[n] /\ Last(Samples) = Samples[n]
         /\ \A k \in 2 .. n : Samples[k] = imu'[k - 1] /\ Samples[k] \in Time
         /\ m \in 2 .. n + 1 /\ UsedFrom(Samples, lastLidarEnd, m)
         /\ DOMAIN Samples = 1 .. n
<1>1. Len(imu') \in Nat \ {0} /\ \A k \in 1 .. Len(imu') : imu'[k] \in Time
  BY LenProperties, EmptySeq, ElementOfSeq
<1>2. /\ Samples \in Seq(Time) /\ Len(Samples) = 1 + Len(imu')
      /\ \A i \in 1 .. 1 + Len(imu') : Samples[i] = IF i <= 1 THEN <<lastImu>>[i] ELSE imu'[i - 1]
  <2>1. <<lastImu>> \in Seq(Time) /\ Len(<<lastImu>>) = 1
    OBVIOUS
  <2> DEFINE l == <<lastImu>>
  <2> HIDE DEF l
  <2>2. Samples = l \o imu'
    BY DEF Samples, l
  <2>3. l \in Seq(Time) /\ Len(l) = 1
    BY <2>1 DEF l
  <2>4. /\ l \o imu' \in Seq(Time) /\ Len(l \o imu') = Len(l) + Len(imu')
        /\ \A i \in 1 .. Len(l) + Len(imu') :
             (l \o imu')[i] = IF i <= Len(l) THEN l[i] ELSE imu'[i - Len(l)]
    BY <2>3, ConcatProperties
  <2> QED
    BY <2>2, <2>3, <2>4 DEF l
<1>3. n = Len(imu') + 1 /\ n \in Nat /\ n >= 2 /\ Samples[1] = lastImu
      /\ \A k \in 2 .. n : Samples[k] = imu'[k - 1] /\ k - 1 \in 1 .. Len(imu')
  <2>1. n = Len(imu') + 1 /\ n \in Nat /\ n >= 2 /\ 1 \in 1 .. 1 + Len(imu')
    BY <1>1, <1>2
  <2>2. \A k \in 2 .. n : k \in 1 .. 1 + Len(imu') /\ ~(k <= 1) /\ k - 1 \in 1 .. Len(imu')
    BY <2>1, <1>1
  <2> QED
    BY <2>1, <2>2, <1>2
<1>4. \A k \in 2 .. n : Samples[k] \in Time
  BY <1>1, <1>3
<1>5. \A j, k \in 2 .. n : j < k => Samples[j] < Samples[k]
  BY <1>1, <1>3
<1>6. Last(imu') = Samples[n] /\ Last(Samples) = Samples[n]
  <2>1. n \in 2 .. n /\ n - 1 = Len(imu')
    BY <1>1, <1>3
  <2> QED
    BY <2>1, <1>3 DEF Last
<1>7. m \in 2 .. n + 1 /\ \A k \in 2 .. n : Samples[k] >= lastLidarEnd <=> m <= k
  <2>1. Used = {k \in 2 .. n : Samples[k] >= lastLidarEnd}
    BY DEF Used
  <2>2. CASE Used = {}
    <3>1. m = n + 1
      BY <2>2, Zenon DEF FirstUsed
    <3> QED
      BY <3>1, <2>1, <2>2, <1>3
  <2>3. CASE Used # {}
    <3>1. m = First(Used)
      BY <2>3, Zenon DEF FirstUsed
    <3>2. Used \in SUBSET Nat
      BY <2>1
    <3>3. First(Used) \in Used /\ \A j \in Used : First(Used) <= j
      BY <2>3, <3>2, FirstOf
    <3>4. m \in 2 .. n /\ Samples[m] >= lastLidarEnd /\ \A j \in Used : m <= j
      BY <3>1, <3>3, <2>1
    <3>5. ASSUME NEW k \in 2 .. n, m <= k PROVE Samples[k] >= lastLidarEnd
      <4>1. m = k \/ Samples[m] < Samples[k]
        BY <3>4, <3>5, <1>5
      <4>2. Samples[m] \in Int /\ Samples[k] \in Int
        BY <3>4, <1>4 DEF Time
      <4> QED
        BY <4>1, <4>2, <3>4
    <3> QED
      BY <3>4, <3>5, <2>1, <1>3
  <2> QED
    BY <2>2, <2>3
<1>8. UsedFrom(Samples, lastLidarEnd, m)
  <2>1. \A k \in 1 .. n : k = 1 \/ k \in 2 .. n
    BY <1>3
  <2>2. \A k \in 1 .. n : Samples[k] \in Int
    BY <2>1, <1>3, <1>4 DEF Time
  <2> QED
    BY <2>2, <1>7 DEF UsedFrom
<1>9. DOMAIN Samples = 1 .. n
  BY <1>2, LenProperties
<1> QED
  BY <1>3, <1>4, <1>6, <1>7, <1>8, <1>9

\* The propagation starts at the end of the last scan or, if that was never
\* set, at the last sample of the initialisation.
LEMMA StartIs ==
  ASSUME NEW s, NEW end \in Int, NEW m \in Nat, 2 <= m, m <= Len(s) + 1, Len(s) \in Nat,
         UsedFrom(s, end, m)
  PROVE  /\ s[1] <= end => StartOf(s, end, m) = end
         /\ (\A k \in 1 .. Len(s) : s[k] >= end) /\ Len(s) >= 2 => m = 2 /\ StartOf(s, end, m) = s[1]
         /\ StartOf(s, end, m) = end \/ StartOf(s, end, m) = s[1]
<1>1. m - 1 \in 1 .. Len(s) /\ s[m - 1] \in Int /\ 1 \in 1 .. Len(s) /\ s[1] \in Int
  BY DEF UsedFrom
<1>2. s[m - 1] < end \/ m = 2
  BY <1>1 DEF UsedFrom
<1>3. (\A k \in 1 .. Len(s) : s[k] >= end) /\ Len(s) >= 2 => m = 2
  BY DEF UsedFrom
<1>4. m = 2 => m - 1 = 1
  OBVIOUS
<1>5. s[1] <= end => StartOf(s, end, m) = end
  BY <1>1, <1>2, <1>4 DEF StartOf
<1>6. (\A k \in 1 .. Len(s) : s[k] >= end) /\ Len(s) >= 2 => m = 2 /\ StartOf(s, end, m) = s[1]
  BY <1>1, <1>3, <1>4 DEF StartOf
<1> QED
  BY <1>2, <1>4, <1>5, <1>6 DEF StartOf

\* The times of the poses are times.
LEMMA TimesTyped ==
  ASSUME FilterInv, ~needInit, imu' \in Seq(Time), imu' # <<>>,
         \A j, k \in 1 .. Len(imu') : j < k => imu'[j] < imu'[k], lastLidarEnd \in Int
  PROVE  \A k \in 1 .. Len(Samples) : TimeAt[k] \in Nat
<1> DEFINE n == Len(Samples)
           m == FirstUsed
           b == StartOf(Samples, lastLidarEnd, m)
<1>1. lastImu \in Time /\ filterTime \in Nat /\ (~propagated => filterTime = lastImu)
      /\ (propagated => lastImu <= lastLidarEnd)
  BY DEF FilterInv, FilterTypeOK
<1>2. /\ n \in Nat /\ n >= 2 /\ Samples[1] = lastImu
      /\ \A k \in 2 .. n : Samples[k] \in Time
      /\ m \in 2 .. n + 1 /\ UsedFrom(Samples, lastLidarEnd, m)
  BY <1>1, SamplesAre
<1> HIDE DEF m, n
<1>3. \A k \in 1 .. n : TimeAt[k] = IF k < m THEN filterTime ELSE filterTime + Samples[k] - b
  <2>1. m \in Nat /\ 2 <= m /\ Len(Samples) \in Nat /\ filterTime \in Int
    BY <1>1, <1>2 DEF n
  <2> QED
    BY <2>1, <1>2, TimeAtIs DEF n
<1>4. (lastImu <= lastLidarEnd => b = lastLidarEnd) /\ (b = lastLidarEnd \/ b = lastImu)
  <2>1. m \in Nat /\ 2 <= m /\ m <= Len(Samples) + 1 /\ Len(Samples) \in Nat
    BY <1>2 DEF n
  <2> QED
    BY <2>1, <1>2, StartIs
<1> HIDE DEF b
<1>5. ASSUME NEW k \in 1 .. n, ~(k < m) PROVE filterTime + Samples[k] - b \in Nat
  <2>1. k \in 2 .. n /\ Samples[k] \in Time
    BY <1>2, <1>5
  <2>2. Samples[k] >= lastLidarEnd
    BY <2>1, <1>2, <1>5 DEF UsedFrom, n
  <2>3. CASE b = lastLidarEnd
    BY <2>1, <2>2, <2>3, <1>1 DEF Time
  <2>4. CASE b = lastImu /\ ~(b = lastLidarEnd)
    BY <2>1, <2>4, <1>1, <1>4 DEF Time
  <2> QED
    BY <2>3, <2>4, <1>4
<1>6. \A k \in 1 .. n : TimeAt[k] \in Nat
  BY <1>1, <1>3, <1>5
<1> QED
  BY <1>6 DEF n

\* The poses are labelled with the beginning of the scan and the samples used.
LEMMA PosesAre ==
  ASSUME NEW n \in Nat, n = Len(Samples), NEW m \in 2 .. n + 1, m = FirstUsed
  PROVE  /\ Len(LabelledPoses) = n + 2 - m
         /\ LabelledPoses[1] = [label |-> Current.beg, at |-> filterTime]
         /\ \A i \in 2 .. n + 2 - m :
              LabelledPoses[i] = [label |-> Samples[m - 2 + i], at |-> TimeAt[m - 2 + i]]
         /\ (Current.beg \in Time /\ filterTime \in Nat
             /\ (\A k \in 2 .. n : Samples[k] \in Time) /\ (\A k \in 1 .. n : TimeAt[k] \in Nat))
              => LabelledPoses \in Seq([label : Time, at : Nat])
<1> DEFINE first == <<[label |-> Current.beg, at |-> filterTime]>>
           P(k) == [label |-> Samples[k], at |-> TimeAt[k]]
           rest == [i \in 1 .. n + 1 - m |-> P(m - 1 + i)]
<1>1. LabelledPoses = first \o rest
  BY DEF LabelledPoses
<1> HIDE DEF P
<1>2. n + 1 - m \in Nat /\ Len(first) = 1 /\ first[1] = [label |-> Current.beg, at |-> filterTime]
  OBVIOUS
<1>3. rest \in Seq({P(k) : k \in m .. n}) /\ Len(rest) = n + 1 - m
  <2>1. \A i \in 1 .. n + 1 - m : m - 1 + i \in m .. n
    OBVIOUS
  <2>2. \A i \in 1 .. n + 1 - m : rest[i] \in {P(k) : k \in m .. n}
    BY <2>1
  <2> QED
    BY <1>2, <2>2
<1> DEFINE T == {P(k) : k \in m .. n} \cup {[label |-> Current.beg, at |-> filterTime]}
<1>4. first \in Seq(T) /\ rest \in Seq(T)
  <2>1. [label |-> Current.beg, at |-> filterTime] \in T
    OBVIOUS
  <2>2. \A x \in {P(k) : k \in m .. n} : x \in T
    OBVIOUS
  <2> HIDE DEF T
  <2>3. first \in Seq(T)
    BY <2>1
  <2>4. rest \in [1 .. n + 1 - m -> T]
    <3>1. \A i \in 1 .. n + 1 - m : m - 1 + i \in m .. n
      OBVIOUS
    <3> QED
      BY <2>2, <3>1
  <2>5. rest \in Seq(T)
    <3> HIDE DEF rest
    <3> QED
      BY <1>2, <2>4
  <2> QED
    BY <2>3, <2>5
<1>5. \A i \in 1 .. n + 1 - m : rest[i] = P(m - 1 + i)
  OBVIOUS
<1> HIDE DEF first, rest, T
<1>6. /\ first \o rest \in Seq(T) /\ Len(first \o rest) = 1 + (n + 1 - m)
      /\ \A i \in 1 .. 1 + (n + 1 - m) :
           (first \o rest)[i] = IF i <= 1 THEN first[i] ELSE rest[i - 1]
  <2>1. /\ first \o rest \in Seq(T) /\ Len(first \o rest) = Len(first) + Len(rest)
        /\ \A i \in 1 .. Len(first) + Len(rest) :
             (first \o rest)[i] = IF i <= Len(first) THEN first[i] ELSE rest[i - Len(first)]
    BY <1>4, ConcatProperties
  <2> QED
    BY <2>1, <1>2, <1>3
<1>7. 1 + (n + 1 - m) = n + 2 - m /\ 1 \in 1 .. n + 2 - m
  OBVIOUS
<1>8. \A i \in 2 .. n + 2 - m : LabelledPoses[i] = P(m - 2 + i)
  <2>1. \A i \in 2 .. n + 2 - m : /\ i \in 1 .. 1 + (n + 1 - m) /\ ~(i <= 1) /\ i - 1 \in 1 .. n + 1 - m
                                  /\ m - 1 + (i - 1) = m - 2 + i
    OBVIOUS
  <2> QED
    BY <2>1, <1>1, <1>5, <1>6
<1>9. ASSUME Current.beg \in Time, filterTime \in Nat,
             \A k \in 2 .. n : Samples[k] \in Time, \A k \in 1 .. n : TimeAt[k] \in Nat
      PROVE  LabelledPoses \in Seq([label : Time, at : Nat])
  <2>1. \A k \in m .. n : P(k) \in [label : Time, at : Nat]
    <3>1. \A k \in m .. n : k \in 2 .. n /\ k \in 1 .. n
      OBVIOUS
    <3> QED
      BY <3>1, <1>9 DEF P
  <2>2. T \in SUBSET [label : Time, at : Nat]
    BY <2>1, <1>9 DEF T
  <2>3. \A i \in 1 .. n + 2 - m : (first \o rest)[i] \in [label : Time, at : Nat]
    BY <1>6, <1>7, <2>2, ElementOfSeq
  <2>4. (first \o rest) \in Seq([label : Time, at : Nat])
    BY <1>6, <2>2, SeqMonotonic
  <2> QED
    BY <1>1, <2>4
<1>10. LabelledPoses[1] = [label |-> Current.beg, at |-> filterTime]
  BY <1>1, <1>2, <1>6, <1>7
<1>11. \A i \in 2 .. n + 2 - m :
         LabelledPoses[i] = [label |-> Samples[m - 2 + i], at |-> TimeAt[m - 2 + i]]
  BY <1>8, Zenon DEF P
<1>12. Len(LabelledPoses) = n + 2 - m
  BY <1>1, <1>6, <1>7
<1> QED
  BY <1>9, <1>10, <1>11, <1>12

\* A scan received begins after those that wait, and a scan taken ends before
\* those that still wait begin.
LEMMA ScansAhead ==
  ASSUME ScanLen <= MinPeriod, IInv, [Next]_vars
  PROVE  /\ \A t \in Int : NoScanBefore(t, lidarStamp, lidarBuffer) =>
                             NoScanBefore(t, lidarStamp', lidarBuffer')
         /\ SyncScan => NoScanBefore(EndTime, lidarStamp', lidarBuffer')
<1> USE DEF NoScanBefore
<1>1. lidarBuffer \in Seq(Scan) /\ Len(lidarBuffer) \in Nat /\ lidarStamp \in Int
  BY LenProperties DEF IInv, TypeOK
<1>2. CASE LidarCallback
  <2>1. PICK beg \in lidarStamp + MinPeriod .. MaxTime - ScanLen, sparse \in BOOLEAN :
           /\ lidarBuffer' = Append(IF beg < lidarEndTime THEN <<>> ELSE lidarBuffer,
                                    [beg |-> beg, sparse |-> sparse])
           /\ lidarStamp' = beg
    BY <1>2 DEF LidarCallback
  <2> DEFINE new == [beg |-> beg, sparse |-> sparse]
  <2>2. beg \in Int /\ lidarStamp + MinPeriod <= beg /\ MinPeriod \in Nat /\ beg \in Time
        /\ ~(beg < lidarEndTime)
    <3>1. beg \in Int /\ lidarStamp + MinPeriod <= beg /\ beg <= MaxTime - ScanLen
      BY <1>1, ConstantsAssumption
    <3>2. lidarEndTime \in Time /\ lidarEndTime <= lidarStamp + MinPeriod
      BY DEF IInv, TypeOK, LidarInv
    <3> QED
      BY <3>1, <3>2, <1>1, ConstantsAssumption DEF Time
  <2>3. lidarBuffer' = Append(lidarBuffer, new) /\ new \in Scan /\ new.beg = beg
    BY <2>1, <2>2 DEF Scan
  <2> HIDE DEF new
  <2>4. /\ Len(lidarBuffer') = Len(lidarBuffer) + 1
        /\ \A i \in 1 .. Len(lidarBuffer) : lidarBuffer'[i] = lidarBuffer[i]
        /\ lidarBuffer'[Len(lidarBuffer) + 1] = new
    BY <2>3, <1>1, AppendProperties
  <2>5. ASSUME NEW t \in Int, NoScanBefore(t, lidarStamp, lidarBuffer)
        PROVE  NoScanBefore(t, lidarStamp', lidarBuffer')
    <3>1. t <= beg /\ t <= lidarStamp' + MinPeriod
      BY <2>1, <2>2, <2>5, <1>1
    <3>2. \A i \in 1 .. Len(lidarBuffer') : i \in 1 .. Len(lidarBuffer) \/ i = Len(lidarBuffer) + 1
      BY <2>4, <1>1
    <3> QED
      BY <3>1, <3>2, <2>3, <2>4, <2>5
  <2>6. ~SyncScan
    <3>1. ASSUME SyncScan PROVE FALSE
      <4>1. lidarStamp' = lidarStamp
        BY <3>1 DEF SyncScan
      <4> QED
        BY <4>1, <2>1, <2>2, <1>1, ConstantsAssumption
    <3> QED
      BY <3>1
  <2> QED
    BY <2>5, <2>6
<1>3. CASE SkipScan \/ DropScan \/ SyncScan
  <2>1. lidarStamp' = lidarStamp /\ lidarBuffer # <<>>
        /\ (lidarBuffer' = Tail(lidarBuffer) \/ lidarBuffer' = <<>>)
    BY <1>3 DEF SkipScan, DropScan, SyncScan, HasScan
  <2>2. ASSUME NEW i \in 1 .. Len(lidarBuffer')
        PROVE  i + 1 \in 2 .. Len(lidarBuffer) /\ lidarBuffer'[i] = lidarBuffer[i + 1]
    <3>1. CASE lidarBuffer' = Tail(lidarBuffer)
      BY <3>1, <2>1, Popped DEF IInv
    <3>2. CASE lidarBuffer' = <<>>
      BY <3>2
    <3> QED
      BY <3>1, <3>2, <2>1
  <2>3. ASSUME NEW t \in Int, NoScanBefore(t, lidarStamp, lidarBuffer)
        PROVE  NoScanBefore(t, lidarStamp', lidarBuffer')
    <3>1. \A i \in 1 .. Len(lidarBuffer') : i + 1 \in 1 .. Len(lidarBuffer)
      BY <2>2, <1>1
    <3> QED
      BY <3>1, <2>1, <2>2, <2>3
  <2>4. ASSUME SyncScan PROVE NoScanBefore(EndTime, lidarStamp', lidarBuffer')
    <3>1. EndTime <= lidarStamp + MinPeriod /\ \A i \in 2 .. Len(lidarBuffer) : EndTime <= lidarBuffer[i].beg
      BY <2>4, CurrentScan DEF SyncScan
    <3> QED
      BY <3>1, <2>1, <2>2
  <2> QED
    BY <2>3, <2>4
<1>4. CASE ImuCallback \/ MotorCallback \/ WaitForData \/ Done \/ UNCHANGED vars
  <2>1. UNCHANGED <<lidarStamp, lidarBuffer>>
    BY <1>4 DEF ImuCallback, MotorCallback, WaitForData, Done, vars, scanVars
  <2>2. CASE SyncScan
    BY <2>2, <1>3
  <2> QED
    BY <2>1, <2>2
<1> QED
  BY <1>2, <1>3, <1>4 DEF Next, SyncPackages

\* The samples handed over are in order and not from after the scan.
LEMMA SamplesKept ==
  ASSUME ScanLen <= MinPeriod, IInv, FilterInv, [Next]_vars
  PROVE  /\ \A k \in 1 .. Len(imu') : imu'[k] <= lidarEndTime'
         /\ \A j, k \in 1 .. Len(imu') : j < k => imu'[j] < imu'[k]
<1>1. CASE DropScan \/ SyncScan
  <2>1. HasScan /\ ImuReady /\ TakeImu /\ lidarEndTime' = EndTime
    BY <1>1 DEF DropScan, SyncScan, PopScan
  <2> QED
    BY <2>1, SamplesOfScan
<1>2. CASE ~(DropScan \/ SyncScan)
  <2>1. imu' = imu
    BY <1>2 DEF Next, SyncPackages, LidarCallback, ImuCallback, MotorCallback, SkipScan, WaitForData,
                Done, vars, measVars
  <2>2. lidarEndTime <= lidarEndTime' /\ lidarEndTime \in Int /\ lidarEndTime' \in Int
    <3>1. lidarEndTime \in Int
      BY DEF IInv, TypeOK, Time
    <3>2. CASE WaitForData
      <4>1. ~isLidarPushed /\ lidarEndTime' = EndTime /\ HasScan
        BY <3>2 DEF WaitForData
      <4>2. EndTime \in Time /\ Current.beg <= EndTime /\ Current = lidarBuffer[1] /\ 1 \in 1 .. Len(lidarBuffer)
            /\ Current.beg \in Time
        BY <4>1, CurrentScan
      <4>3. lidarEndTime <= Current.beg
        BY <4>1, <4>2 DEF IInv, LidarInv
      <4> QED
        BY <3>1, <4>1, <4>2, <4>3 DEF Time
    <3>3. CASE ~WaitForData
      <4>1. lidarEndTime' = lidarEndTime
        BY <1>2, <3>3 DEF Next, SyncPackages, LidarCallback, ImuCallback, MotorCallback, SkipScan,
                          Done, vars, scanVars
      <4> QED
        BY <3>1, <4>1
    <3> QED
      BY <3>2, <3>3
  <2>3. \A k \in 1 .. Len(imu) : imu[k] \in Int /\ imu[k] <= lidarEndTime
    <3>1. imu \in Seq(Time)
      BY DEF IInv, TypeOK
    <3>2. \A k \in 1 .. Len(imu) : imu[k] \in Time
      BY <3>1, ElementOfSeq
    <3>3. \A k \in 1 .. Len(imu) : imu[k] \in Int
      BY <3>2 DEF Time
    <3> QED
      BY <3>3 DEF FilterInv
  <2> QED
    BY <2>1, <2>2, <2>3 DEF FilterInv
<1> QED
  BY <1>1, <1>2

\* Where the filter is not called.
LEMMA FilterLeftAlone ==
  ASSUME ScanLen <= MinPeriod, IInv, FilterInv, [Next]_vars, UNCHANGED filterVars
  PROVE  FilterInv' /\ (ScanUndistorted => ScanUndistorted')
<1>1. UNCHANGED <<needInit, initIterNum, lastImu, lastLidarEnd, imuPose, filterTime, propagated, offTrack>>
  BY DEF filterVars
<1>2. FilterTypeOK'
  <2>1. TypeOK'
    BY Step DEF IInv
  <2> QED
    BY <2>1, <1>1 DEF FilterInv, FilterTypeOK
<1>3. propagated => NoScanBefore(lastLidarEnd', lidarStamp', lidarBuffer')
  <2>1. ASSUME propagated PROVE NoScanBefore(lastLidarEnd, lidarStamp', lidarBuffer')
    <3>1. lastLidarEnd \in Int /\ NoScanBefore(lastLidarEnd, lidarStamp, lidarBuffer)
      BY <2>1 DEF FilterInv, Time
    <3> QED
      BY <3>1, ScansAhead
  <2> QED
    BY <2>1, <1>1
<1>4. FilterInv'
  <2>1. ~needInit' => lastImu' \in Time /\ (~propagated' => filterTime' = lastImu')
    BY <1>1, Zenon DEF FilterInv
  <2>2. propagated' => ~needInit' /\ lastLidarEnd' \in Time /\ lastImu' <= lastLidarEnd'
    BY <1>1 DEF FilterInv
  <2>3. propagated' => NoScanBefore(lastLidarEnd', lidarStamp', lidarBuffer')
    BY <1>1, <1>3
  <2>4. /\ \A k \in 1 .. Len(imu') : imu'[k] <= lidarEndTime'
        /\ \A j, k \in 1 .. Len(imu') : j < k => imu'[j] < imu'[k]
    BY SamplesKept
  <2> QED
    BY <1>2, <2>1, <2>2, <2>3, <2>4, Zenon DEF FilterInv
<1>5. ScanUndistorted => ScanUndistorted'
  <2>1. Points' = Points
    BY <1>1 DEF Points
  <2>2. UNCHANGED <<lastLidarEnd, imuPose, filterTime, propagated, offTrack>>
    BY <1>1
  <2>3. FilterKeepsTime => FilterKeepsTime'
    BY <2>2 DEF FilterKeepsTime
  <2>4. PointsMovedOnce => PointsMovedOnce'
    BY <2>1, <2>2 DEF PointsMovedOnce
  <2> QED
    BY <2>3, <2>4 DEF ScanUndistorted
<1> QED
  BY <1>4, <1>5

\* The samples initialise the filter.
LEMMA InitImuStep ==
  ASSUME ScanLen <= MinPeriod, IInv, FilterInv, SyncScan, imu' # <<>>, InitImu
  PROVE  FilterInv' /\ ScanUndistorted'
<1>1. /\ needInit /\ initIterNum' = initIterNum + Len(imu') /\ needInit' = (initIterNum' <= MaxInitCount)
      /\ lastImu' = Last(imu') /\ filterTime' = Last(imu')
      /\ UNCHANGED <<lastLidarEnd, imuPose, propagated, offTrack>>
  BY DEF InitImu
<1>2. [Next]_vars
  BY DEF Next, SyncPackages
<1>3. ~propagated /\ ~propagated'
  BY <1>1 DEF FilterInv
<1>4. TypeOK'
  BY <1>2, Step DEF IInv
<1>5. Len(imu') \in Nat /\ Last(imu') \in Time
  <2>1. imu' \in Seq(Time)
    BY <1>4 DEF TypeOK
  <2>2. Len(imu') \in Nat /\ Len(imu') # 0
    BY <2>1, LenProperties, EmptySeq
  <2>3. Len(imu') \in 1 .. Len(imu')
    BY <2>2
  <2>4. imu'[Len(imu')] \in Time
    BY <2>1, <2>3, ElementOfSeq
  <2> QED
    BY <2>2, <2>4 DEF Last
<1>6. FilterTypeOK'
  <2>1. needInit' \in BOOLEAN
    <3>1. (initIterNum' <= MaxInitCount) \in BOOLEAN
      OBVIOUS
    <3> QED
      BY <3>1, <1>1, Zenon
  <2>2. initIterNum' \in Nat
    BY <1>1, <1>5 DEF FilterInv, FilterTypeOK
  <2>3. filterTime' \in Nat /\ lastImu' \in Time
    BY <1>1, <1>5 DEF Time
  <2> QED
    BY <1>1, <1>4, <2>1, <2>2, <2>3 DEF FilterInv, FilterTypeOK
<1>7. FilterInv'
  BY <1>1, <1>2, <1>3, <1>5, <1>6, SamplesKept DEF FilterInv
<1>8. ScanUndistorted'
  BY <1>3, Zenon DEF ScanUndistorted, FilterKeepsTime, PointsMovedOnce
<1> QED
  BY <1>7, <1>8

\* A scan is undistorted: the types, and where the filter stands.
LEMMA UndistortStep ==
  ASSUME ScanLen <= MinPeriod, IInv, FilterInv, SyncScan, imu' # <<>>, Undistort
  PROVE  FilterInv'
<1>1. /\ ~needInit /\ imuPose' = LabelledPoses /\ lastImu' = Last(imu') /\ lastLidarEnd' = EndTime
      /\ filterTime' = TimeAt[Len(Samples)] + Distance(EndTime, Last(Samples))
      /\ propagated' = TRUE /\ UNCHANGED <<needInit, initIterNum>>
      /\ offTrack' = (offTrack \/ ~TakesImu \/ (~propagated /\ \E k \in DOMAIN Samples : Samples[k] < lastLidarEnd))
  BY DEF Undistort
<1>2. [Next]_vars
  BY DEF Next, SyncPackages
<1>3. TypeOK'
  BY <1>2, Step DEF IInv
<1>4. HasScan /\ ImuReady /\ TakeImu
  BY DEF SyncScan
<1>5. /\ imu' \in Seq(Time) /\ \A k \in 1 .. Len(imu') : imu'[k] <= EndTime
      /\ \A j, k \in 1 .. Len(imu') : j < k => imu'[j] < imu'[k]
  BY <1>4, SamplesOfScan
<1>6. EndTime \in Time /\ Current.beg \in Time
  BY <1>4, CurrentScan
<1>7. lastImu \in Time /\ lastLidarEnd \in Int /\ filterTime \in Nat
  BY <1>1, ImuAssumption DEF FilterInv, FilterTypeOK, Time
<1> DEFINE n == Len(Samples)
           m == FirstUsed
<1>8. /\ n \in Nat /\ n >= 2 /\ n = Len(imu') + 1
      /\ Last(imu') = Samples[n] /\ Last(Samples) = Samples[n]
      /\ \A k \in 2 .. n : Samples[k] = imu'[k - 1] /\ Samples[k] \in Time
      /\ m \in 2 .. n + 1
  BY <1>5, <1>7, SamplesAre
<1>9. \A k \in 1 .. n : TimeAt[k] \in Nat
  BY <1>1, <1>5, <1>7, TimesTyped
<1> HIDE DEF n, m
<1>10. imuPose' \in Seq([label : Time, at : Nat])
  BY <1>1, <1>6, <1>7, <1>8, <1>9, PosesAre DEF n, m
<1>11. Last(imu') \in Time /\ Last(imu') <= EndTime
  <2>1. n \in 2 .. n /\ n - 1 \in 1 .. Len(imu')
    BY <1>8
  <2> QED
    BY <2>1, <1>5, <1>8
<1>12. filterTime' \in Nat
  <2>1. TimeAt[n] \in Nat /\ Last(Samples) \in Time
    BY <1>8, <1>9
  <2>2. Distance(EndTime, Last(Samples)) \in Nat
    BY <2>1, <1>6 DEF Distance, Time
  <2> QED
    BY <2>1, <2>2, <1>1 DEF n
<1>13. FilterTypeOK'
  <2>1. offTrack' \in BOOLEAN
    BY <1>1, Zenon DEF FilterInv, FilterTypeOK
  <2>2. needInit' \in BOOLEAN /\ initIterNum' \in Nat
    BY <1>1 DEF FilterInv, FilterTypeOK
  <2> QED
    BY <1>1, <1>3, <1>6, <1>10, <1>11, <1>12, <2>1, <2>2 DEF FilterTypeOK
<1>14. NoScanBefore(lastLidarEnd', lidarStamp', lidarBuffer')
  BY <1>1, <1>2, ScansAhead
<1> QED
  BY <1>1, <1>2, <1>6, <1>11, <1>13, <1>14, SamplesKept DEF FilterInv

\* A scan is undistorted on track: every pose but the first is of the time its
\* label says, there is a second one, and the filter ends at the scan's end.
LEMMA OnTrack ==
  ASSUME ScanLen <= MinPeriod, ImuGap <= ScanLen, IInv, FilterInv, FilterKeepsTime,
         SyncScan, imu' # <<>>, Undistort, ~offTrack'
  PROVE  /\ filterTime' = EndTime /\ Len(imuPose') \in Nat /\ Len(imuPose') >= 2
         /\ imuPose'[1].label = Current.beg
         /\ \A k \in 2 .. Len(imuPose') : imuPose'[k].at = imuPose'[k].label
<1>1. /\ ~needInit /\ imuPose' = LabelledPoses
      /\ filterTime' = TimeAt[Len(Samples)] + Distance(EndTime, Last(Samples))
      /\ offTrack' = (offTrack \/ ~TakesImu \/ (~propagated /\ \E k \in DOMAIN Samples : Samples[k] < lastLidarEnd))
  BY DEF Undistort
<1>2. /\ ~offTrack /\ TakesImu
      /\ ~propagated => ~(\E k \in DOMAIN Samples : Samples[k] < lastLidarEnd)
  BY <1>1, Zenon
<1>3. HasScan /\ ImuReady /\ TakeImu
  BY DEF SyncScan
<1>4. /\ imu' \in Seq(Time) /\ \A k \in 1 .. Len(imu') : imu'[k] <= EndTime
      /\ \A j, k \in 1 .. Len(imu') : j < k => imu'[j] < imu'[k]
      /\ EndTime - ImuGap <= Last(imu')
  BY <1>2, <1>3, SamplesOfScan
<1>5. EndTime \in Time /\ Current.beg \in Time /\ EndTime = Current.beg + ScanLen
      /\ Current = lidarBuffer[1] /\ 1 \in 1 .. Len(lidarBuffer)
  BY <1>3, CurrentScan DEF End
<1>6. /\ lastImu \in Time /\ lastLidarEnd \in Int /\ filterTime \in Nat
      /\ ~propagated => filterTime = lastImu
      /\ propagated => filterTime = lastLidarEnd /\ lastImu <= lastLidarEnd /\ lastLidarEnd <= Current.beg
  <2>1. lastImu \in Time /\ filterTime \in Nat /\ (~propagated => filterTime = lastImu)
    BY <1>1 DEF FilterInv, FilterTypeOK
  <2>2. lastLidarEnd \in Int
    BY ImuAssumption DEF FilterInv, FilterTypeOK, Time
  <2>3. propagated => filterTime = lastLidarEnd
    BY <1>2, Zenon DEF FilterKeepsTime
  <2>4. propagated => lastImu <= lastLidarEnd /\ lastLidarEnd <= Current.beg
    BY <1>5 DEF FilterInv, NoScanBefore
  <2> QED
    BY <2>1, <2>2, <2>3, <2>4
<1> DEFINE n == Len(Samples)
           m == FirstUsed
           b == StartOf(Samples, lastLidarEnd, m)
<1>7. /\ n \in Nat /\ n >= 2 /\ n = Len(imu') + 1 /\ Samples[1] = lastImu
      /\ Last(imu') = Samples[n] /\ Last(Samples) = Samples[n]
      /\ \A k \in 2 .. n : Samples[k] = imu'[k - 1] /\ Samples[k] \in Time
      /\ m \in 2 .. n + 1 /\ UsedFrom(Samples, lastLidarEnd, m)
      /\ DOMAIN Samples = 1 .. n
  BY <1>4, <1>6, SamplesAre
<1> HIDE DEF n, m
<1>8. Samples[n] \in Time /\ Samples[n] <= EndTime /\ n \in 2 .. n
  <2>1. n \in 2 .. n /\ n - 1 \in 1 .. Len(imu')
    BY <1>7
  <2> QED
    BY <2>1, <1>4, <1>7
<1>9. /\ Samples[1] <= lastLidarEnd => b = lastLidarEnd
      /\ (\A k \in 1 .. n : Samples[k] >= lastLidarEnd) => m = 2 /\ b = Samples[1]
  <2>1. m \in Nat /\ 2 <= m /\ m <= Len(Samples) + 1 /\ Len(Samples) \in Nat /\ Len(Samples) >= 2
    BY <1>7 DEF n
  <2>2. /\ Samples[1] <= lastLidarEnd => StartOf(Samples, lastLidarEnd, m) = lastLidarEnd
        /\ (\A k \in 1 .. Len(Samples) : Samples[k] >= lastLidarEnd) /\ Len(Samples) >= 2
             => m = 2 /\ StartOf(Samples, lastLidarEnd, m) = Samples[1]
    BY <2>1, <1>6, <1>7, StartIs
  <2> QED
    BY <2>1, <2>2 DEF n
<1>10. b = filterTime /\ m <= n
  <2>1. CASE propagated
    <3>1. lastLidarEnd <= Samples[n]
      <4>1. /\ lastLidarEnd \in Int /\ Samples[n] \in Int /\ Current.beg \in Int
            /\ ImuGap \in Int /\ ScanLen \in Int /\ EndTime \in Int
        BY <1>5, <1>6, <1>8, ConstantsAssumption DEF Time
      <4>2. lastLidarEnd <= Current.beg /\ EndTime - ImuGap <= Samples[n]
        BY <2>1, <1>4, <1>6, <1>7
      <4>3. EndTime = Current.beg + ScanLen
        BY <1>5
      <4> QED
        BY <4>1, <4>2, <4>3
    <3>2. m <= n
      BY <3>1, <1>7, <1>8 DEF UsedFrom, n
    <3> HIDE DEF b
    <3> QED
      BY <2>1, <3>2, <1>6, <1>7, <1>9
  <2>2. CASE ~propagated
    <3>1. \A k \in 1 .. n : Samples[k] \in Int
      BY <1>7 DEF UsedFrom, n
    <3>2. \A k \in 1 .. n : Samples[k] >= lastLidarEnd
      BY <2>2, <3>1, <1>2, <1>6, <1>7
    <3> HIDE DEF b
    <3> QED
      BY <2>2, <3>2, <1>6, <1>7, <1>9
  <2> QED
    BY <2>1, <2>2
<1>11. \A k \in 1 .. n : TimeAt[k] = IF k < m THEN filterTime ELSE filterTime + Samples[k] - b
  <2>1. m \in Nat /\ 2 <= m /\ Len(Samples) \in Nat /\ filterTime \in Int
    BY <1>6, <1>7 DEF n
  <2> QED
    BY <2>1, <1>6, <1>7, TimeAtIs DEF n
<1> HIDE DEF b
<1>12. \A k \in m .. n : TimeAt[k] = Samples[k]
  <2>1. ASSUME NEW k \in m .. n PROVE TimeAt[k] = Samples[k]
    <3>1. k \in 1 .. n /\ k \in 2 .. n /\ ~(k < m) /\ Samples[k] \in Time
      BY <1>7
    <3>2. TimeAt[k] = filterTime + Samples[k] - b
      BY <3>1, <1>11
    <3> QED
      BY <3>1, <3>2, <1>6, <1>10 DEF Time
  <2> QED
    BY <2>1
<1>13. filterTime' = EndTime
  <2>1. TimeAt[n] = Samples[n] /\ Last(Samples) = Samples[n]
    BY <1>7, <1>10, <1>12
  <2>2. Distance(EndTime, Samples[n]) = EndTime - Samples[n]
    BY <1>5, <1>8 DEF Distance, Time
  <2> QED
    BY <2>1, <2>2, <1>1, <1>5, <1>8 DEF n, Time
<1>14. /\ Len(imuPose') = n + 2 - m
       /\ imuPose'[1] = [label |-> Current.beg, at |-> filterTime]
       /\ \A i \in 2 .. n + 2 - m :
            imuPose'[i] = [label |-> Samples[m - 2 + i], at |-> TimeAt[m - 2 + i]]
  <2>1. n \in Nat /\ n = Len(Samples) /\ m \in 2 .. n + 1 /\ m = FirstUsed
    BY <1>7 DEF n, m
  <2>2. /\ Len(LabelledPoses) = n + 2 - m
        /\ LabelledPoses[1] = [label |-> Current.beg, at |-> filterTime]
        /\ \A i \in 2 .. n + 2 - m :
             LabelledPoses[i] = [label |-> Samples[m - 2 + i], at |-> TimeAt[m - 2 + i]]
    BY <2>1, PosesAre
  <2> QED
    BY <2>2, <1>1
<1>15. \A k \in 2 .. Len(imuPose') : imuPose'[k].at = imuPose'[k].label
  <2>1. ASSUME NEW i \in 2 .. n + 2 - m PROVE imuPose'[i].at = imuPose'[i].label
    <3>1. m - 2 + i \in m .. n
      BY <1>7
    <3>2. imuPose'[i] = [label |-> Samples[m - 2 + i], at |-> TimeAt[m - 2 + i]]
      BY <1>14
    <3>3. TimeAt[m - 2 + i] = Samples[m - 2 + i]
      BY <3>1, <1>12
    <3> QED
      BY <3>2, <3>3
  <2> QED
    BY <2>1, <1>14
<1> QED
  BY <1>7, <1>10, <1>13, <1>14, <1>15

\* A scan is undistorted on track: the properties.
LEMMA UndistortedStep ==
  ASSUME ScanLen <= MinPeriod, ImuGap <= ScanLen, IInv, FilterInv, ScanUndistorted,
         SyncScan, imu' # <<>>, Undistort
  PROVE  ScanUndistorted'
<1>1. lastLidarEnd' = EndTime
  BY DEF Undistort
<1>2. SUFFICES ASSUME ~offTrack'
               PROVE  FilterKeepsTime' /\ PointsMovedOnce'
  BY DEF ScanUndistorted, FilterKeepsTime, PointsMovedOnce
<1>3. /\ filterTime' = EndTime /\ Len(imuPose') \in Nat /\ Len(imuPose') >= 2
      /\ imuPose'[1].label = Current.beg
      /\ \A k \in 2 .. Len(imuPose') : imuPose'[k].at = imuPose'[k].label
  BY <1>2, OnTrack DEF ScanUndistorted
<1>4. FilterKeepsTime'
  BY <1>1, <1>3 DEF FilterKeepsTime
<1> DEFINE poses == imuPose'
           beg == Current.beg
           pts == Points'
<1>5. beg \in Nat /\ ScanLen \in Nat
  <2>1. Current.beg \in Time
    BY CurrentScan DEF SyncScan
  <2> QED
    BY <2>1, ConstantsAssumption DEF Time
<1>6. pts = [i \in 1 .. 2 * ScanLen + 1 |-> 2 * beg + i - 1]
  BY <1>3 DEF Points
<1> HIDE DEF beg
<1>7. Len(pts) = 2 * ScanLen + 1 /\ \A i \in 1 .. Len(pts) : pts[i] = 2 * beg + i - 1
  <2>1. 2 * ScanLen + 1 \in Nat /\ \A i \in 1 .. 2 * ScanLen + 1 : 2 * beg + i - 1 \in Int
    BY <1>5
  <2>2. pts \in Seq(Int) /\ DOMAIN pts = 1 .. 2 * ScanLen + 1
    BY <2>1, <1>6
  <2>3. Len(pts) = 2 * ScanLen + 1
    <3>1. Len(pts) \in Nat /\ DOMAIN pts = 1 .. Len(pts)
      BY <2>2, LenProperties
    <3> QED
      BY <3>1, <2>1, <2>2
  <2> QED
    BY <2>3, <1>6
<1> HIDE DEF pts, poses
<1>8. InOrder(poses, pts)
  <2>1. poses \in Seq([label : Time, at : Nat])
    BY UndistortStep DEF FilterInv, FilterTypeOK, poses
  <2>2. \A k \in 1 .. Len(poses) : poses[k].label \in Int
    <3>1. \A k \in 1 .. Len(poses) : poses[k] \in [label : Time, at : Nat]
      BY <2>1, ElementOfSeq
    <3> QED
      BY <3>1 DEF Time
  <2> QED
    BY <2>2, <1>3, <1>5, <1>7 DEF InOrder, poses
<1> DEFINE moved == Backward(poses, pts)
<1>9. ASSUME NEW ip \in 2 .. Len(pts)
      PROVE  \E kp \in 1 .. Len(poses) - 1 :
               /\ {x \in moved : x[1] = ip} = {<<ip, kp>>}
               /\ 2 * poses[kp].label < pts[ip]
               /\ \A j \in kp + 1 .. Len(poses) - 1 : 2 * poses[j].label >= pts[ip]
               /\ kp # 1 => poses[kp].at = poses[kp].label
  <2>1. 2 * poses[1].label < pts[ip] /\ Len(poses) >= 2
    BY <1>3, <1>5, <1>7 DEF poses, beg
  <2> HIDE DEF moved
  <2>2. PICK kp \in 1 .. Len(poses) - 1 :
           /\ {x \in moved : x[1] = ip} = {<<ip, kp>>}
           /\ 2 * poses[kp].label < pts[ip]
           /\ \A j \in kp + 1 .. Len(poses) - 1 : 2 * poses[j].label >= pts[ip]
    BY <2>1, <1>8, MovedOnce DEF moved
  <2>3. kp # 1 => poses[kp].at = poses[kp].label
    <3>1. kp # 1 => kp \in 2 .. Len(poses)
      BY <1>3 DEF poses
    <3> QED
      BY <3>1, <1>3 DEF poses
  <2> QED
    BY <2>2, <2>3
<1>10. PointsMovedOnce'
  BY <1>9 DEF PointsMovedOnce, moved, poses, pts
<1> QED
  BY <1>4, <1>10

\* A step of the composition.
LEMMA FilterStep ==
  ASSUME ScanLen <= MinPeriod, IInv, FilterInv, [ImuNext]_imuProcessVars
  PROVE  FilterInv' /\ (ImuGap <= ScanLen /\ ScanUndistorted => ScanUndistorted')
<1>1. [Next]_vars
  BY Composed
<1>2. \/ UNCHANGED filterVars
      \/ SyncScan /\ imu' # <<>> /\ (InitImu \/ Undistort)
  BY DEF ImuNext, ReceiveImu, ReceiveMotor, ProcessPackages, MapScan, Mapping, imuProcessVars
<1>3. CASE UNCHANGED filterVars
  BY <1>1, <1>3, FilterLeftAlone
<1>4. CASE SyncScan /\ imu' # <<>> /\ InitImu
  BY <1>4, InitImuStep
<1>5. CASE SyncScan /\ imu' # <<>> /\ Undistort
  BY <1>5, UndistortStep, UndistortedStep
<1> QED
  BY <1>2, <1>3, <1>4, <1>5

LEMMA FilterInitially ==
  ASSUME ImuInit, IInv
  PROVE  FilterInv /\ ScanUndistorted
<1>1. /\ needInit = TRUE /\ initIterNum = 1 /\ lastImu = Earliest /\ lastLidarEnd \in UnsetEnds
      /\ imuPose = <<>> /\ filterTime = 0 /\ propagated = FALSE /\ offTrack = FALSE /\ imu = <<>>
  BY DEF ImuInit, Init
<1>2. Len(imu) = 0 /\ imuPose \in Seq([label : Time, at : Nat])
  BY <1>1
<1>3. FilterTypeOK
  BY <1>1, <1>2 DEF FilterTypeOK, IInv
<1>4. FilterInv
  BY <1>1, <1>2, <1>3 DEF FilterInv
<1>5. ScanUndistorted
  BY <1>1, Zenon DEF ScanUndistorted, FilterKeepsTime, PointsMovedOnce
<1> QED
  BY <1>4, <1>5

-----------------------------------------------------------------------------
(* The theorems. *)

\* In the composition syncPackages and the callbacks keep the inductive
\* invariant, whatever the stamps and gaps are.
THEOREM Invariance ==
  ASSUME ScanLen <= MinPeriod
  PROVE  ImuSpec => []IInv
<1>1. ImuInit => IInv
  BY Initially DEF ImuInit
<1>2. IInv /\ [ImuNext]_imuProcessVars => IInv'
  BY Composed, Step
<1> QED
  BY <1>1, <1>2, PTL DEF ImuSpec

\* The state keeps its types.
THEOREM TypeCorrect ==
  ASSUME ScanLen <= MinPeriod
  PROVE  ImuSpec => []TypeOK
<1>1. IInv => TypeOK
  BY DEF IInv
<1> QED
  BY <1>1, Invariance, PTL

\* A scan waits at the front until its motor angles and IMU samples are there
\* (syncPackages), the searches in collectRasterAngles and getRasterAngle
\* find what they look for, and the angles enclose the scan.
THEOREM Synchronised ==
  ASSUME ScanLen <= MinPeriod
  PROVE  ImuSpec => []ScanSynchronised
<1>1. ASSUME IInv PROVE MotorLookupsSucceed
  <2> SUFFICES ASSUME HasScan, MotorReady, motorAngleBuf # <<>>
               PROVE  (tMotorAngles # <<>> => AngleKept) /\ EndTime <= Last(motorAngleBuf)
    BY DEF MotorLookupsSucceed
  <2>1. tMotorAngles # <<>> => AngleKept
    BY <1>1, Kept
  <2>2. lastMotorTimestamp >= EndTime /\ Last(motorAngleBuf) = lastMotorTimestamp
    BY <1>1 DEF MotorReady, IInv, Waiting
  <2>3. EndTime \in Time /\ lastMotorTimestamp \in Time \cup {Earliest}
    BY <1>1, CurrentScan DEF IInv, TypeOK
  <2> QED
    BY <2>1, <2>2, <2>3 DEF Time, Earliest
<1>2. IInv => ScanSynchronised
  BY <1>1 DEF IInv, LidarInv, AnglesInv, ScanSynchronised
<1> QED
  BY <1>2, Invariance, PTL

\* The scans share the IMU samples out (syncPackages): none is lost or taken
\* twice while the IMU's stamps do not jump back.
THEOREM ImuShared ==
  ASSUME ScanLen <= MinPeriod
  PROVE  ImuSpec => []ImuSharedOut
<1>1. ASSUME IInv, loopBacks = 0
      PROVE  LET s == imu \o imuBuffer
             IN \A k \in 1 .. Len(s) - 1 : s[k + 1] - s[k] \in 1 .. ImuGap
  <2> DEFINE m == Len(imu)
             n == Len(imuBuffer)
             s == imu \o imuBuffer
  <2>1. imu \in Seq(Time) /\ imuBuffer \in Seq(Time)
    BY <1>1 DEF IInv, TypeOK
  <2>2. m \in Nat /\ n \in Nat
    BY <2>1, LenProperties
  <2>3. /\ Len(s) = m + n
        /\ \A i \in 1 .. m + n : s[i] = IF i <= m THEN imu[i] ELSE imuBuffer[i - m]
    BY <2>1, ConcatProperties, Zenon
  <2> HIDE DEF s
  <2>4. ASSUME NEW k \in 1 .. Len(s) - 1 PROVE s[k + 1] - s[k] \in 1 .. ImuGap
    <3>1. CASE k < m
      <4>1. k \in 1 .. m - 1 /\ s[k] = imu[k] /\ s[k + 1] = imu[k + 1]
        BY <3>1, <2>2, <2>3
      <4> QED
        BY <4>1, <1>1 DEF IInv, ImuInv
    <3>2. CASE k = m
      <4>1. imu # <<>> /\ imuBuffer # <<>> /\ s[k] = imu[m] /\ s[k + 1] = imuBuffer[1]
        BY <3>2, <2>1, <2>2, <2>3, EmptySeq
      <4>2. Head(imuBuffer) = imuBuffer[1]
        BY <4>1, <2>1, HeadTailProperties
      <4> QED
        BY <4>1, <4>2, <1>1 DEF IInv, ImuInv, Last
    <3>3. CASE k > m
      <4>1. /\ k - m \in 1 .. n - 1 /\ s[k] = imuBuffer[k - m]
            /\ s[k + 1] = imuBuffer[(k - m) + 1]
        <5>1. k + 1 \in 1 .. m + n /\ (k + 1) - m = (k - m) + 1 /\ ~(k <= m) /\ ~(k + 1 <= m)
          BY <3>3, <2>2, <2>3
        <5> QED
          BY <5>1, <3>3, <2>2, <2>3
      <4> QED
        BY <4>1, <1>1 DEF IInv, Waiting
    <3> QED
      BY <3>1, <3>2, <3>3, <2>2
  <2> QED
    BY <2>4 DEF s
<1>2. ASSUME IInv PROVE ImuSharedOut
  <2>1. DOMAIN imu = 1 .. Len(imu) /\ DOMAIN imuBuffer = 1 .. Len(imuBuffer)
    BY <1>2, LenProperties DEF IInv, TypeOK
  <2>2. loopBacks = 0 =>
          /\ \A k \in 1 .. Len(imu) : imu[k] \in imuFrom .. imuUpTo
          /\ \A k \in 1 .. Len(imuBuffer) : imuBuffer[k] >= imuUpTo
    BY <1>2 DEF IInv, ImuInv
  <2> QED
    BY <2>1, <2>2, <1>1, <1>2 DEF ImuSharedOut
<1>3. IInv => ImuSharedOut
  BY <1>2
<1> QED
  BY <1>3, Invariance, PTL

\* The filter keeps its types in the composition, whatever the stamps and gaps
\* are and however the stamps jump.
THEOREM FilterTypeCorrect ==
  ASSUME ScanLen <= MinPeriod
  PROVE  ImuSpec => []FilterTypeOK
<1>1. ImuInit => IInv /\ FilterInv
  BY Initially, FilterInitially DEF ImuInit
<1>2. IInv /\ FilterInv /\ [ImuNext]_imuProcessVars => IInv' /\ FilterInv'
  BY Composed, Step, FilterStep
<1>3. FilterInv => FilterTypeOK
  BY DEF FilterInv
<1> QED
  BY <1>1, <1>2, <1>3, PTL DEF ImuSpec

\* After every scan the filter is at the end of it, and every point of it but
\* the first was moved once, by a pose of the right time (undistortPcl), if a
\* scan takes no less than the IMU takes from one sample to the next.
THEOREM Undistorted ==
  ASSUME ScanLen <= MinPeriod, ImuGap <= ScanLen
  PROVE  ImuSpec => []ScanUndistorted
<1>1. ImuInit => IInv /\ FilterInv /\ ScanUndistorted
  BY Initially, FilterInitially DEF ImuInit
<1>2. IInv /\ FilterInv /\ ScanUndistorted /\ [ImuNext]_imuProcessVars
        => IInv' /\ FilterInv' /\ ScanUndistorted'
  BY Composed, Step, FilterStep
<1> QED
  BY <1>1, <1>2, PTL DEF ImuSpec
=============================================================================
