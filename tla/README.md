# Rot_SLAM: models, checks and proofs

Rot_SLAM is a LiDAR-inertial SLAM program for a LiDAR turned by a motor. Its numerical
estimation (Kalman filter, scan matching, pose graph optimisation) is tested by looking at
maps; what a map hardly shows is the bookkeeping around it: which thread owns a buffer,
which scan a sample belongs to, whether a correction reaches every pose once, whether the
tree rebuilt in the background lost a point. That is what the TLA+ modules of this directory
model, TLC checks on small instances and, where it can be done, TLAPS proves for all.

Paths are relative to the `src/` and `include/` directories of the repository. Module names are in **bold**.

## 1. The system

### Components, their state, operations and correctness

| component | code | state | operations | correct when | module |
|---|---|---|---|---|---|
| Front end | `src/System/System.cpp`, `System-process.cpp` | two filters, local map, modes, `_nearestPoints` | `mapping`, `lioProcess*`, `vgicpProcess*`, `loopClosing`, `updateLoopStatus` | an update ends with a search it believes in; scan, filter and map are in one world | **FrontEnd**, **LoopCorrection** |
| Sensor buffers | `System.cpp` 45-140, 1410-1520, `Examples/ZGSlamRosTest.cpp` 850-1030 | `_lidarBuffer`, `_imuBuffer`, `_motorAngleBuf`, `_measures` | the ROS callbacks, `syncPackages`, `getRasterAngle`, `resetSystem` | no sample lost, shared by two scans or taken from the wrong one; no scan waits for ever | **SensorSync** |
| IMU processing | `SensorProcess/IMUProcess.cpp`, `IMUProcess.h` | initialisation counters, last sample, last scan end, poses | `Process`, `IMU_init`, `undistortPcl` | the filter is propagated from scan end to scan end, each point moved once | **ImuProcess** |
| Loop closer | `LoopCloser/LoopCloser.cpp` | `_frameBuffer`, `_frameBlocks`, submaps, `_loopTrans`, `_isUpdated`, `_lastCorrectBlockID` | `run`, `detectLoop`, `storeFrameData`, `correctFrontendMap` | frames in order, each corrected once per optimisation | **LoopCorrection**, **PoseGraph** |
| Constraint finder, optimiser | `LoopCloser/ConstraintFinder.cpp`, `Optimizer/GraphOptimizer.cpp` | edges; nodes' initial, current, optimised poses | add, cancel, reject edges; optimise | graph connected; wrong edges not used again; held nodes do not move | **PoseGraph** |
| Contour context | `LoopCloser/ContourContext/cont2` | per layer: buckets with a tree, an index, a buffer of young keys | `addScan`, `pushAndBalance`, `layerKNNSearch` | a key is in one place, becomes searchable in time; a search finds the nearest | **ContourDB** |
| ikd-Tree | `Mapper/IkdTree.cpp` | the tree, `Rebuild_Ptr`, `Rebuild_Logger`, `search_mutex_counter`, four mutexes | add, delete, range and nearest search, background rebuild | the tree holds the points the operations say; no thread walks nodes that are replaced | **IkdTree**, **IkdRebuild**, **PointStore** |
| Voxel map | `Mapper/VoxelMapper.cpp` | hash map of octrees of planes | build, update, search | points are held once, no plane hides another, frozen planes stay | **OctoTree** |
| LI and motor initialisation | `Initializer`, `System.cpp` 978-1260 | accumulated samples, mode flags | `motorInitialize`, `calibAndRefineLI` | each mode left once, with the buffers it needs | flags: **FrontEnd**, buffers: **SensorSync** |
| Programs | `Examples/*.cpp` | the main loop, the release thread | start, change of matching method, offline correction, shutdown | no thread outlives what it uses; no octree used after it was deleted | **ProgramEnd** |
| Image processor | `ImageProcess/imageprocess.cpp` | input and result buffers | its thread `run`, `inputframedata` | results used with the frame they belong to | - |
| Viewer | `System/System-visualization.cpp`, `Viewer` | display queues | `updateViewer`, `show`, `resetSystem` | one entry of each queue per scan | - |
| Lidar processing, registration, bundle adjustment, data files, third-party code | `SensorProcess/LidarProcess.cpp`, `Feature`, `Registrator`, `Optimizer/VoxelMapBA.cpp`, `DataIO`, `3rdParty`, `include/Misc` | none across scans | functions of their arguments | numerically right | - |

### How they interact

* The **main thread** calls `ros::spinOnce`, whose callbacks fill the sensor buffers, then
  `syncPackages` and `mapping`. At the end of a scan `loopClosing` hands it to the loop
  thread (`inputFrameData`) and takes a correction back (`updateLoopStatus`).
* The **loop thread** (`LoopCloser::run`) pops one frame a round. Shared: `_frameBuffer` under
  `_mutexBuf`; everything else by the unlocked flag `_isUpdated`, and, in part, `_mutexProcess`
  and `_mutexUpdate`.
* The **rebuild thread** of each ikd-Tree sleeps until `Rebuild_Ptr` is set, then rebuilds one
  subtree while the main thread goes on changing it. The **OpenMP threads** of a matching
  pass search the tree at the same time.
* The **image thread** takes frames from vectors and leaves line matches in ring buffers of
  one. The **display thread** takes one entry of each queue under `_dispMutex`. A **release
  thread** deletes the voxel map when the program changes to kd-tree matching.
* Lock order: loop thread `_mutexProcess`, `_mutexUpdate`, `_mutexBuf`; main thread
  `_mutexProcess`, `_mutexBuf`, and separately `_mutexUpdate`, `_dispMutex`. No cycle.

### What is hard

Interleaving of the main and the loop thread around a correction; unlocked flags; the
replay of operations on a tree rebuilt in the background; streams that arrive in any order
relative to one another, with gaps; failing optimisations; edges cancelled and rejected
over a long run; the shutdown. Nothing is persisted during a run and there is no network
protocol: crash recovery and message loss (other than of sensor samples) do not arise.
`PROJECT.json` lists each hazard at its line with the properties that watch it.

## 2. Modules

Two abstractions recur. A **pose** is the *world* it is expressed in: world *w* is the coordinate
system after the *w*-th successful optimisation, and a correction takes poses of one world to
the next; applied to a pose of another world it gives `Mixed`. That is all the properties need
of SE(3): a pose corrected twice, or not at all, shows. And what a numerical step finds
(a match, a plane, a converged optimisation) is a nondeterministic choice over its outcomes.

### LoopCorrection: the hand-over of a correction

One action per step between two lock operations or unlocked accesses, of `loopClosing` /
`updateLoopStatus` / `updateFrontendMap` (front end) and of `run` / `correctFrontendMap`
(loop thread). `ProcessLocked` is the overload for the IKFoM state, which takes
`_mutexProcess` to push a frame; FALSE is the least-squares one, which does not. `WithGNSS`
lets a correction come at any frame, `Incremental` and `RealTime` are the configuration flags.
Two races break the correspondence (`overtaken`: a second optimisation between
`setUpdated(false)` and `getLoopTrans()`; `reapplied`: a failed optimisation followed by
`correctFrontendMap`). They are recorded in history variables, the pose properties are stated
for executions without them (`Sound`), and the violation run `overtaken_correction` shows the
first.

### PoseGraph: frames, submaps, edges, optimisation

Everything under `_mutexProcess`, one action per phase of a round of the loop thread. A
pose is the number of the optimisation it was estimated by. Edges carry whether their sigma
allows them to be kept; an optimisation may reject any set of registration edges and may
fail. `correctLoop`, which the programs call after the last scan, may come while frames are
left in the buffer, and does in the model.

### SensorSync and ImuProcess: which samples belong to a scan, and what becomes of them

**SensorSync** has the three callbacks and the branches of `syncPackages`, with stamps as small
integers. Each stream is in order (the IMU's stamps may jump back), the streams are
interleaved in any way, motor angles may have gaps. `SyncScan` includes `motorInitialize`
finding the calibration and calling `resetSystem`. **ImuProcess** extends it: a scan returned
goes on to `ImuProcess::Process` in the same step, as it does in the main loop. The filter's state is
the time it has been propagated to, a pose of `IMUpose` the label the code gives it and
the time the state was really of. `TimeAt` is the forward loop over the samples, `Backward` the pass
over the points from the last pose to the first. `offTrack` records the scans after which the
filter's time means nothing by the code's own doing: `meas.imu` kept from an earlier scan,
`last_lidar_end_time_` never initialised (its value is a choice) and found later than a sample of the first scan.
`PointsMovedOnce` is the label-and-time statement of `undistortPcl`: every point of a scan but the first is
moved exactly once, by the latest pose labelled before it (the one at the last sample excepted), and
unless that is the pose the scan begins with, it is of the time its label says.

### IkdRebuild, PointStore and IkdTree: the map of points

**IkdRebuild** has one subtree below the root, the main thread (operations with and without
the lock, range searches, matching passes), the searchers of a matching pass and the
rebuild thread, one action per stretch between two lock operations of
`multi_thread_rebuild`. A subtree is its set of valid points. **PointStore** is the abstract
specification: a set of points, changed by one operation at a time. **IkdRebuild** implements
it (`ImplementsStore`, refinement mapping `points <- live`) as long as no operation was
logged after its rebuild's end (`exact <- ~stale`).

**IkdTree** has the nodes with everything they cache (sizes, counts of deleted points, ranges, lazy
flags), and the recursive operations of `IkdTree.cpp` on them under their own names, as recursive
functions of a tree: a node is a record, a pointer the record it points to or `Null`, and `TreesTo[h]` are the
trees of a height up to `h`. `MaxHeight` bounds it, and `ConstantsAssumption` leaves room in it for the first cloud and every operation,
so that no call meets the bound. `MANUAL_HEAP` is modelled with its
two sifting loops. Trees stay below 1500 nodes, so every rebuild is made at once, which is
where **IkdRebuild** takes over; both implement **PointStore**. The searches are steps too, for
they push deletions down. The order `nth_element` leaves equal coordinates in is a choice (`tie`).
Coordinates are integers: rounding, in `calc_dist` or of a cell's edges, is not covered.

### OctoTree: one voxel of the voxel map

A point is the octant it lies in at every layer, a node the path of octants to it, so that
"above" and "inside" are prefixes. A node keeps what its `OctoTree` object keeps: the flags,
the three counters and the two lists of points, as bags. A fit finds its points planar or not,
freely. How many points a list has is the cardinality of its set of (octant, copy) pairs (`Copies`), so that
what is counted can be reasoned about. The variant is the one CMakeLists.txt builds (no `BA_ENABLE`).

### ContourDB: the contour-context database

One layer of `ContourDB` (`LayerDB`): buckets over ranges of one channel of the keys, each
with a tree, the index over it and a buffer of keys too young to be matched. A key is the value
of that channel, an integer in the range `MaxBucketVal` bounds, a tree a bag of values; an index is
the bag it was built over. A tree sorted from the boundary it shares with its neighbour (`SortPermu`) is, for every value,
the place of its last key; a read out of bounds gives a value no key has. One step is what
the loop thread does for one submap: `addScan`, `pushAndBalance`. At this commit the detector is out of use: `LoopCloser.cpp` 320
sets `_detectLoopMethod = 0` in front of the dispatch, so that `detectLoopContourContext` is never called from it whatever the
configuration says; the model is of the database as it would run with that line gone. The query is an operator of the state (`LayerKnn`):
a list of results in the order of their distances is, for every distance, the number of results not farther
(`Nearest`), and sorting two lists into one adds those numbers (`Merged`).

### FrontEnd: from a scan to the map

`System::mapping` with its four handlers, round by round of the iterated update: when a search
is made again, which points are selected, when the covariance is updated or the update given up;
then the loop correction and the scan joining the map. There are two filters, `_kf` and
`_stateCur`, and three maps: the voxel map, the kd-tree, and the map of VGICP. The kd-tree is matched
to, or kept beside the voxel map because it is shown: with the viewer (`viewer`) every handler adds its
scan, `processCloudVGICP` included (`System-process.cpp` 440, 520), without it `publishMapIncremental` does
(`Publish`), with the cloud last transformed. To it `checkMatchMethod` goes over. A correction reaches the
filter of the handler, the frames of the loop closer and the two maps that are completed from them; the
model keeps the world of each (`pose`, `frames`, `maps`, `cloud`). Frames of two worlds make, corrected, a map of two
worlds (`Mixed`), for good: that a local map might hold none of the wrong ones is left out. The covariance is the sensor's
(`_covType` 1, as in the programs); with neighbour covariances (2) the kd-tree is fed differently.

### ProgramEnd: start, change of map, shutdown

The main thread of the online and the offline program from start to exit, the loop thread and
the thread that releases the voxel map when the program goes over to kd-tree matching. A voxel
map is a set of octrees; allocation, copies of the map, deletion and the clearing without
deletion are its steps. `orphaned` and `collided` record two races the code has (section 5); after a
collision nothing is claimed.

## 3. Runs

| run | module | instance | shows |
|---|---|---|---|
| `handover_ikfom` | LoopCorrection | 5 frames, 3 corrections, in real time | frames in order, each corrected once; state, map, submap and graph in one world; every scan and buffered frame gets through |
| `overtaken_correction` (violation) | LoopCorrection | 4 frames, 2 corrections | the state skips a correction |
| `graph` | PoseGraph | 7 frames, frame-wise and submap-wise, real time and offline, every 2nd frame stored, cooling 2 | submaps tile the frames, the chain of edges survives, loops far apart and spaced, frames of a submap in one world, held nodes stay |
| `sensor_imu` | ImuProcess | stamps 0..5, scans of 1 tick at least 2 apart, motor gap 2, one jump of the IMU back | scan, angles and samples match; every scan leaves the buffer; each point moved once, by a pose of the right time |
| `ikd_rebuild` | IkdRebuild | 2 points, 2 boxes, 2 searchers, 4 operations | exclusion, replay, refinement, rebuilds end |
| `rebuild_log` (violation) | IkdRebuild | as above | a rebuild may start with an operation left in the log |
| `ikd_tree` | IkdTree | 5 points, 3 boxes, 3 clouds, 4 operations, 4 neighbours | cached sums right, balance kept, searches and deletions exact, cells thinned, refinement |
| `octo_tree` | OctoTree | 2 octants, 3 layers, up to 7 points, limits 5 and 2 | points held once and counted, no plane hides another, frozen planes stay |
| `contour_db` | ContourDB | 3 buckets, 3 values, 6 kinds of scan, 8 scans | keys in place, indices in bounds, keys become searchable, nearest of those looked at |
| `stale_index` (violation) | ContourDB | as above | a balanced bucket keeps its old index |
| `front_end` | FrontEnd | 5 rounds, 3 merged scans, 8 scans, 2 corrections, with and without the viewer | an update ends on a search it may believe in; filter, frames and both maps in one world, until a scan without IMU samples comes with or after a correction |
| `program_end` | ProgramEnd | 4 scans, 2 corrections, 12 octrees | no octree used after deletion, no thread outlives its data, the program ends |

In `sensor_imu` the IMU has a sample in every tick, so that no two samples straddle the end of a scan; those cases rest on
the theorem `Undistorted`, which holds for any gap up to a scan's length, and on one further run with scans of 2 ticks and gaps of 2
(the instance `PointsMovedOnce` needs its
exception on), and the inductive invariants of section 4 were checked on these instances before they were proved.

The largest runs have 1.4 million (`sensor_imu`), 1.3 million (`front_end`) and 0.6 million states (`program_end`). Every
property is broken by a mutant of the code listed in `PROJECT.json`.

**Why the bounds are enough.** Worlds are compared for equality and
successor only, and a correction involves the frames before, at and after
`_lastCorrectBlockID`: five frames allow three corrections with a frame in every position
(the least-squares overload with GNSS, offline and incremental: 4 frames and 2 corrections were checked
too). Seven frames make seven submaps at most, enough for two loops with cooling 2, a
cancelled edge between them and an optimisation after it. A scan involves the scan before
and the one after: stamps up to 5 fit two scans and the beginning of a third. For all of these the invariants are
proved for any bound. Two points tell a lost operation from a repeated one, four operations fit
two rebuilds with operations logged in the first and stale in the second; two searchers are
the least for a count other than 0 and 1. An **IkdTree** has up to ten nodes and rebuilds from four
on, at 70% (the code: from eleven, at 60%; four nodes cannot be balanced to 60%); random executions of
12 operations with the code's parameters, 5 neighbours and 16 points were run too. An
**OctoTree** has the code's depth, with limits 1, 1 and 5 where the code has 5, 5 and 400:
what matters is which of them is reached first, and each order occurs. **ContourDB** keeps
the code's 100 and 0.2, with scans that bring keys by the dozen, so that balancing begins after
a few. **FrontEnd** has the rounds the programs configure; the eighth scan comes after
the change of maps and the end of the calibration. **ProgramEnd** allocates twelve octrees, enough
for two maps rebuilt twice.

Deadlock is checked where the code can go on for ever; there the bounds' end is an explicit
stuttering action (`Idle`, `Done`, `Ended`). In **OctoTree** and **ContourDB** it is not:
their only actions are calls from outside, and the bound on points and on submaps ends them.

**Fairness.** LoopCorrection: weak fairness of both threads; each is scheduled by the OS and
waits for nothing but mutexes the other holds for a bounded time. ImuProcess: weak fairness
of `syncPackages`, called by an endless loop, and of the IMU (stamps advancing) and motor streams;
scans may stop. IkdRebuild: weak fairness of main's steps and of each searcher (main may stop
asking for operations); strong fairness of the rebuild thread, which polls the search
counter every microsecond and waits for mutexes that main takes and gives up again and again:
there are long stretches in which it could go on, and that it hits one of them is what is
assumed. ProgramEnd: weak fairness of the main, the loop and the release thread as long as
the program runs.

## 4. Proofs

Each `*_proofs` module shows `Spec => []IInv` for an inductive invariant `IInv`, made of
the parts named below, and draws the properties from it, for every value of the constants that
meets `ConstantsAssumption` (`FrontEndAssumption`). Liveness plays no part: fairness is not used.

**LoopCorrection_proofs** (any frames, corrections, configuration). `LockInv` says who holds which
mutex where; `FlagInv` what `_isUpdated` says of the other thread's position, with
`HandoverExclusion` as a part of it: inductive only together, since the flag is raised in three places
and lowered in one. `FrameInv` orders popped and buffered frames. `WorldInv` gives the world of
every pose (stored, buffered, state, map) as a function of `graphWorld` and of the phase of the
correction, the flag before the id included; it is preserved while `Sound` holds. With
`SubMapInv` for the submap's own frame they give `BufferConsistent`, `PosesInStep` and
`PublishedStable`.

**PoseGraph_proofs** (any number of frames, both modes). `TileInv` fixes which frames each submap and
the one under construction have, `StoreInv` the blocks stored so far, `FollowInv` the poses they
follow, `LoopInv` how far loop edges, the cooling count and rejected edges reach, `GuessInv` that
initial guesses are current submap-wise. `ChainInv` says which adjacent edges there are;
`ChainComplete` counts them, by mapping the edges onto `1 .. n - 1`. All six properties of
`graph` are proved.

**SensorSync_proofs** (any stamps, gaps and stream lengths; in the composition **ImuProcess**, each of whose
steps is one of **SensorSync** or leaves it alone). It assumes `ScanLen <= MinPeriod`:
a scan ends before the next one begins, as the device sends them. `LidarInv` orders the waiting scans behind the
one taken last, `Waiting` the samples of a buffer up to the last one received, `AnglesInv` keeps
an angle from before every scan still to come, which is what the search in
`collectRasterAngles` needs, `ImuInv` joins the samples of the last scan to those waiting.
`ScanSynchronised` and `ImuSharedOut` follow. For the filter `FilterInv` adds that the samples of a scan are in order and not
after its end, that before the first propagation the filter's time is that of the last sample, and that afterwards no
scan waiting begins before the end of the one propagated last. The times a scan is propagated over telescope, which gives
`TimeAt` in closed form, and so has the backward pass, which moves a point by the last pose before it.
Induction over the samples being out of reach, both are proved by the least counterexample, which exists by
well-foundedness of `Nat`. `FilterTypeOK` follows, and with `ImuGap <= ScanLen` (a scan has a sample, as
at 10 Hz and 200 Hz) `ScanUndistorted`.

**IkdRebuild_proofs** (any points, boxes, finite set of searchers, number of operations).
`FlagInv` ties the rebuild thread's position to the two flags, the locks and the counter;
`SearchInv` says that the counter counts the searches inside (by cardinality), so that -1
means none; `RangeInv` that a range search in an old tree holds its mutex; `LogInv` where the
log may be non-empty; `ReplayCatchesUp` relates copy, log and tree. The membership of a point
after a log is given by the last operation that touches it (`AfterLog`), not by recursion over
the log, so that no induction is needed: appending and popping are two lemmas. `Implements`
maps every step to an operation of **PointStore** or a stutter; `Swap` is a stutter because of
`ReplayCatchesUp`.

**IkdTree_proofs** (any points, boxes, clouds, neighbours, queries, distances and operations). All of `ikd_tree` is
proved: the three invariants, and step by step that the tree implements **PointStore**. Besides types it assumes
`(BalanceParam - 50) * MinimalUnbalanced >= 50`, so that two halves pass `Criterion_Check` (the code: 60% and
10), and that `Null` is no node.
*Recursion.* The operations are recursive functions of a tree; what such a function does has to be derived from its
`CHOOSE`. `Recursion` builds one along levels, by the least counterexample over `Nat`; `TreeRecursion`,
`HeapRecursion` and `BuildExists` are its uses, on the height of a tree, the index in a heap and the length of a list. Every operation
gets three lemmas: its body, `...Exists`, and `...Is`, the equation the code reads as.
*Order.* What the next walk finds at a node depends on the flags above it, so that no
property of the stored fields is kept by `Push_Down`. `Good` is the largest set of trees
closed under walks (to `LeftSon` and `RightSon`, the sons after `Push_Down`) all of whose nodes are `Local`ly right:
sums, a tight range, flags that imply each other, balance, and `PendingRight`, that a deletion is pending
above a son only if it is one of the whole subtree or the son is a new leaf. The last is
what makes it inductive: a flag that outlives its deletion would delete points added later. `GoodFold` adds a node to it.
`Num(n, S)`, how many of the points listed lie in `S`, stands for the list: orders differ, numbers do not. `UpdateReady`, `BuildGood`
and `SettleIs` show that what an operation leaves of a node over trees in order is one again, rebuilt or not, with the same numbers.
*Searches.* `DeleteStepRight`, `RangeStepRight` and `AddStepRight` go from the sons to the node. For the
nearest search `Gains(g, h, C, T)` says that within every distance heap `g` has as many entries as `h` and the `C` points offered, up to
`KNearest`; gains add up (`GainsBoth`), an entry in front of the farthest is one (`GainsOne`), and a son passed over by its
range had nothing to give (`EnterGains`). `PushHeap` and `PopHeap` rest on `OrderBut`, the heap with one place out of order.
*The invariant*, `InOrder`: the tree is `Good`, not `Null`, as low as its operations explain, and `live` are its points.

**ScanToMap_proofs** has the proofs of **FrontEnd** and of **OctoTree**, the scan and the map it is matched with.

*OctoTree* (any octants, layers, limits, batches). The four properties of `octo_tree` are parts of one
invariant over all nodes of the tree: `Sound` (of one node), `AboveDivided`, `PointsHeldOnce`. What makes it inductive is the relation between a node's list, its counters and its
state: the counter lags the list by the points dropped when it froze. `KeptMoves` is the central lemma: handing a
point down moves it from one list to another and leaves the number kept in the tree as it was; the number is the
cardinality of a union, so that no fold over nodes has to be unrolled.

**ContourDB_proofs** (any number of buckets, values, scans, ages). The lemmas go from counting (`Amount*`) over ranks (a set
sorted by rank is a bijection, so sorting a buffer keeps its entries) to the cut: `CutPoint` shows that where the sorted
values change, the n nearest keys are those up to one value, hence on one side of `SplitValue`. `DividedIs`,
`PushedIs` and `RebuiltIs` say what a step does to any row of buckets. `IInv` is `TypeOK`, `KeysInPlace`, `Ends`, `SharedOut` and `Ages`: a buffer
ascends up to now, and holds nothing older than `MaxElapse` was when its pair last had its turn. With
`EveryTour` (each bucket is in a pair of every tour, by uniqueness of remainders) `KeysBecomeSearchable` follows. `RebuildSafe`
assumes `NumBuckets <= 6`, the code's number. That two due buffers never meet over two trees too small to be split depends on how the whole
run shared the keys out: no test of the code rules it out. `SharedOut` is the invariant it needs. A balanced tree keeps four
ninths of the keys of both (`NumIs`), and a bucket is opened out of a hundred keys, so `m` neighbours in use have
`Least(m)` keys between them, a sequence for which `9 Least(m) <= 5 Least(m-1) + 4 Least(m+1)`. It starts with 11, one key more than
trees whose sizes differ by one may have, and reaches 132 for six buckets; the argument ends there: a seventh could not be opened out of a hundred keys
at that rate. `StillFilled` is the step. `NearestFound` is about the search: `MergedIs` and `SkippedIs` show
that, whether a further bucket is searched up to the limit or passed over by its near edge, the results become those of
the keys of one bucket more, so that `Found`, the nearest of the buckets visited so far, solves the recursion of
`LayerKnn` (`FoundNext`), and `KnnIs` that nothing else does. That the keys of two buckets are apart is `KeysInPlace`; that the bucket of a
query exists is `Ends`, the outermost boundaries never move.

*FrontEnd*, in **ScanToMap_proofs** too (any rounds, scans, corrections). `RoundInv` relates, between rounds, the number of
moves of the state to the move the last search saw; `NearestInv` says whose neighbours the
scan would join the map by, `CopyInv` how often it is there already. `WorldInv` gives, until a scan without IMU
samples comes with or after a correction, the worlds of both filters, the frames, the maps and the cloud: `_stateCur` stays where it
began, everything else goes along with the frames. `TreeInv` is about the kd-tree built by the publisher: it is there before the
first correction, so that it is not built at a pose of the old world. `FedIs` says what a map is after points were added.

**ProgramEnd_proofs** (any scans, corrections, octrees). `HandInv` and `EndInv` say where the
three threads may be relative to one another, `ReleaseInv` and `OwnerInv` which octrees live and who holds
them, until two threads collide.

**Only model-checked:** liveness (`HandoverProgress`, `ScansDrain`, `RebuildEnds`, `ProgramEnds`),
which is out of the prover's reach, as ENABLED is. Every invariant, every action property and the refinements of **PointStore**
that the passing runs check are theorems. Where a proof needs induction over data, it is by the least
counterexample over `Nat`, of a set of numbers stated for the purpose: the induction theorems of the library take operators.

## 5. Findings

Three disagreements between the code and what it says of itself are the counterexamples of
violation runs, described under "findings" in `PROJECT.json`: a correction overtaken by the next
(`System.cpp` 877), an operation left in the log of a rebuild (`IkdTree.cpp` 350), an index not
rebuilt after balancing (`contour_db.h` 147).

The models have other behaviours a maintainer should know of, on which the repository says nothing, so
that no run states them:

* `_poseInit` of a frame buffered during a correction is corrected twice (`LoopCloser.cpp` 1264).
* Frame-wise, nodes held constant stay at a stale guess (`GraphOptimizer.cpp` 542), and an edge
  found wrong may be used again (`LoopCloser.cpp` 878).
* The motor angle is 0/0 when the first buffered angle is not before the scan's end (`System.cpp` 111).
* A subtree all of whose points were deleted before it is copied is rebuilt into a null pointer
  the code goes on to read (`IkdTree.cpp` 334; state `crashed` of **IkdRebuild**).
* A scan without IMU samples takes a correction with `_stateCur`, which leaves `_kf` in the old world
  (`System.cpp` 955). Coming after a correction of `_kf` it still has the pose of the old world: with the viewer its
  points are added there to the kd-tree that `_kf` is matched to (`System-process.cpp` 520), and in either case the
  loop closer gets a frame of the wrong world. `ScanJoinsMap` speaks of the time before (`strayed` is the history of it); in the
  model one such scan makes the tree, or the next corrected map, `Mixed`. When a calibration ends, the result goes to `_stateCur` while `_kf` is used next.
* With an unknown lidar-IMU extrinsic the calibration may never begin: `imu_need_init_` is cleared by the handlers
  of `_kf` only (`System-process.cpp` 601). The refinement branch of `calibAndRefineLI` is dead.
* `updateFrontendMap` rebuilds the map from frames the corrected scan is one of, and the scan is added again.
* Without the viewer the kd-tree beside the voxel map may be built from a scan that was dropped. If the program goes over
  to it before its first scan, `initKdTreeMap` does nothing and that scan is in no map (`ScanJoinsMap` speaks of scans that
  were matched).
* `_matchedSurfList[i]` is read past its end for line matches (`System-process.cpp` 1406).
* A shutdown that asks `isFinished()` before the loop thread first ran takes it for finished
  (`orphaned`); the release thread and `updateFrontendMap` may delete the same octrees
  (`collided`); the loop thread clears a voxel map without deleting it for each correction made after the
  change to the kd-tree.
* `correctLoop` after the last scan does not reach `correctFrontendMap`, so that the maps stay as they were.
* `layerKNNSearch` never visits the buckets above the one of the query (`contour_db.cpp` 405);
  `KnnOfLookedAt` speaks of the ones it visits.

## 6. Not modelled, and why

* **Numerical code.** Estimation, registration, feature extraction, plane fitting, descriptors
  and bundle adjustment are functions of their inputs over reals; their outcomes are choices in the
  models. Vendored code (`include/Misc`, `3rdParty`, nanoflann, fast_gicp, the IKFoM toolkit) is
  external, parsers and writers are I/O, and the programs other than `ZGSlamRosTest` are variants of
  its loops. Together these are most of the repository's lines: the models map the bookkeeping, a few thousand lines.
* **The image thread** and the **display queues**: their vectors and flags are shared without a lock
  in several places, so that little could be stated that holds; the hazards are listed.
* **GNSS factors**: no shipped program registers a GNSS callback. That a fix forces a
  correction is in **LoopCorrection**.
* **The least-squares update** (`_udpateMethod` 1) of the front end, the g2o and GTSAM back ends and
  `correctLoop` submap-wise: no shipped configuration uses them.
* `Delete_Points`, `Add_Point_Boxes` and `acquire_removed_points` of the ikd-Tree, and the
  IMU preintegration, which nothing calls.
* The **hash map of voxels** and the neighbour voxel of `buildResidualListOmp`: octrees of
  different voxels do not interact.
* The files `Savemap` writes, the publishers (but for the kd-tree `publishMapIncremental` feeds: **FrontEnd**).
* In **SensorSync** scans do not overlap; with overlapping ones (`lidarCallback`'s "lidar loop back"
  with a scan waiting) `WaitingScanAtFront` fails.

## 7. Plan

Done, in this order: LoopCorrection, PoseGraph, SensorSync, PointStore, IkdRebuild, IkdTree,
OctoTree, ContourDB, ImuProcess, FrontEnd, ProgramEnd, with proofs of all of them. What is left: the hand-over to the image thread and
the display queues, the life of a GNSS fix from `syncPackages` to a factor, the least-squares overloads of
FrontEnd and ImuProcess. Worth proving next: that **IkdTree** and **IkdRebuild**
together, the rebuild in the background of a subtree of a real tree, implement **PointStore**. Worth specifying: a correction as one atomic change of all poses, which
LoopCorrection should refine while `Sound` holds.
