----------------------------- MODULE PoseGraph -----------------------------
(***************************************************************************)
(* The pose graph the loop closing thread builds: frames are stored and    *)
(* gathered into submaps (LoopCloser::detectLoop, storeFrameData), submaps *)
(* are tied by adjacent and registration edges (detectLoopNN,              *)
(* ConstraintFinder), and the poses are optimised (correctFrameLoop,       *)
(* correctSubmapLoop, GlobalOptimize with ceres), in real time or once     *)
(* after the last scan (System::correctLoop).                              *)
(*                                                                         *)
(* Everything here happens under _mutexProcess. A pose is abstracted to    *)
(* the number of the optimisation whose estimate it is: 0 for odometry,    *)
(* k for a pose of, or registered after, the k-th optimisation; Mixed for  *)
(* the initial pose of a frame that was buffered during a correction,      *)
(* which is corrected twice (module LoopCorrection, CorrectBuffer).  *)
(***************************************************************************)
EXTENDS Integers, Sequences, FiniteSets

CONSTANTS
  MaxFrames,        \* bound: frames handed to the loop thread
  FramewiseModes,   \* values of Config::_isFramewisePGO; FALSE: the graph's nodes are submaps
  RealTimeModes,    \* values of _isCorrectRealTime
  StoreInterval,    \* _frameStoreInterval
  MinSubmapIdDiff,  \* _minSubmapIdDiff
  CoolingSubmapNum, \* _coolingSubmapNum
  Reliabilities     \* whether the sigma of an edge may be within _maxConstraintSigma

ASSUME ConstantsAssumption ==
  /\ MaxFrames \in Nat /\ StoreInterval \in Nat \ {0}
  /\ FramewiseModes \subseteq BOOLEAN /\ RealTimeModes \subseteq BOOLEAN
  /\ MinSubmapIdDiff \in Nat /\ CoolingSubmapNum \in Nat
  /\ Reliabilities \subseteq BOOLEAN

Mixed == -1
Pose == Nat \cup {Mixed}

VARIABLES
  framewise, realTime, \* _isFramewisePGO, _isCorrectRealTime: the configuration
  frame,        \* _uniqueId of the next frame taken from _frameBuffer
  frontOpt,     \* the optimisation the front end's odometry continues from
  blocks,       \* _frameBlocks: _uniqueId, _poseLo, _poseInit by strip index
  relRigid,     \* _relPoses: were both poses of one relative pose of one world?
  subMaps,      \* _subMapBlocks: strip indices _uniqueId .. _lastFrameId, poses
  cur,          \* _curSubMapBlock
  isNewSubMap, coolingIndex,
  edges,        \* _pgoEdges
  optCount,     \* optimisations that succeeded
  rejected,     \* history: registration edges an optimisation found wrong
  corrected,    \* correctLoop has run
  pc

vars == <<framewise, realTime, frame, frontOpt, blocks, relRigid, subMaps, cur, isNewSubMap, coolingIndex,
          edges, optCount, rejected, corrected, pc>>
config == <<framewise, realTime>>
frameVars == <<config, frame, blocks, relRigid>>

Init ==
  /\ framewise \in FramewiseModes /\ realTime \in RealTimeModes
  /\ ~framewise => realTime \* correctLoop is modelled frame-wise only
  /\ frame = 0 /\ frontOpt = 0
  /\ blocks = <<>> /\ relRigid = <<>>
  /\ subMaps = <<>> /\ cur = [first |-> 0, last |-> 0, lo |-> 0]
  /\ isNewSubMap = TRUE /\ coolingIndex = 0
  /\ edges = {} /\ optCount = 0 /\ rejected = {} /\ corrected = FALSE
  /\ pc = "frame"

Last(s) == s[Len(s)]
Edge(type, b1, b2, reliable) == [type |-> type, b1 |-> b1, b2 |-> b2, reliable |-> reliable]
Registration(E) == {e \in E : e.type = "REGISTRATION"}

-----------------------------------------------------------------------------
(* storeFrameData: the block is appended, with its pose relative to the one
   before it. *)
StoreFrame(bs, init) == Append(bs, [id |-> frame, lo |-> frontOpt, init |-> init])
StoreRel == IF blocks = <<>> THEN relRigid
            ELSE Append(relRigid, Last(blocks).lo = frontOpt)

(* bug: the first frame of a submap is stored a second time *)
StoredTwice(init) ==
  LET forced == IF isNewSubMap THEN StoreFrame(blocks, init) ELSE blocks
  IN IF frame % StoreInterval = 0 THEN StoreFrame(forced, init) ELSE forced

(* The first frame of a submap is stored by force, and every
   _frameStoreInterval-th one unless that was just done. *)
Stored(init) ==
  LET forced == IF isNewSubMap THEN StoreFrame(blocks, init) ELSE blocks
  IN IF frame % StoreInterval = 0 /\ Last(forced).id # frame
     THEN StoreFrame(forced, init) ELSE forced

(* bug: the completed submap is continued *)
CurWithFrameSame(bs) == [first |-> cur.first, last |-> Len(bs) - 1, lo |-> cur.lo]

(* _curSubMapBlock after the frame: restarted or extended *)
CurWithFrame(bs) ==
  [first |-> IF isNewSubMap THEN Len(blocks) ELSE cur.first,
   last  |-> Len(bs) - 1,
   lo    |-> IF isNewSubMap THEN frontOpt ELSE cur.lo]

(* detectLoop up to judgeNewSubmap, whose answer depends on the motion *)
AddFrame ==
  /\ pc = "frame" /\ frame < MaxFrames
  /\ \E init \in IF frontOpt > 0 THEN {frontOpt, Mixed} ELSE {0} :
       /\ blocks' = Stored(init)
       /\ cur' = CurWithFrame(Stored(init))
       /\ relRigid' = IF Stored(init) = blocks THEN relRigid ELSE StoreRel
  /\ isNewSubMap' \in BOOLEAN
  /\ pc' = IF isNewSubMap' THEN "complete" ELSE "frame"
  /\ frame' = frame + 1
  /\ UNCHANGED <<config, frontOpt, subMaps, coolingIndex, edges, optCount, rejected, corrected>>

(* bug: every edge that is not a reliable registration is erased *)
CancelledAll(E) == {e \in E : e.type = "REGISTRATION" /\ e.reliable}

(* cancel_registration_constraint: registration edges of a large sigma become
   HISTORY, the rejected ones are erased. *)
Cancelled(E) ==
  {[e EXCEPT !.type = IF e.type = "REGISTRATION" /\ ~e.reliable THEN "HISTORY" ELSE @] :
     e \in {x \in E : x.type # "NONE"}}

(* add_adjacent_constraint for the submap of index n *)
Adjacent(n) == IF n < 1 THEN {} ELSE {Edge("ADJACENT", n - 1, n, TRUE)}

CompleteSubMap ==
  /\ pc = "complete"
  /\ subMaps' = Append(subMaps, [first |-> cur.first, last |-> cur.last,
                                 lo |-> cur.lo, init |-> cur.lo])
  /\ coolingIndex' = IF coolingIndex > 0 THEN coolingIndex - 1 ELSE 0
  /\ edges' = (IF realTime THEN Cancelled(edges) ELSE edges) \cup Adjacent(Len(subMaps))
  /\ pc' = IF coolingIndex' > 0 THEN "frame" ELSE "detect"
  /\ UNCHANGED <<frameVars, frontOpt, cur, isNewSubMap, optCount, rejected, corrected>>

(* bug: the newest submap may be matched with a neighbour *)
CandidatesNear == 0 .. Len(subMaps) - 2

(* find_overlap_registration_constraint: the submaps the last one may be
   matched with; which of them overlaps it depends on the poses. *)
Candidates ==
  IF Len(subMaps) < MinSubmapIdDiff + 2 THEN {}
  ELSE {b \in 0 .. Len(subMaps) - 2 : b < Len(subMaps) - 1 - MinSubmapIdDiff}

(* bug: the cooling count is one too long *)
DetectLoopCoolLonger ==
  /\ pc = "detect"
  /\ \/ /\ \E b \in Candidates, r \in Reliabilities :
             edges' = edges \cup {Edge("REGISTRATION", b, Len(subMaps) - 1, r)}
        /\ coolingIndex' = CoolingSubmapNum + 1
        /\ pc' = IF realTime THEN "optimize" ELSE "frame"
     \/ pc' = "frame" /\ UNCHANGED <<edges, coolingIndex>>
  /\ UNCHANGED <<frameVars, frontOpt, subMaps, cur, isNewSubMap, optCount, rejected, corrected>>

(* detectLoopNN: a candidate that registers becomes an edge, and run restarts
   the cooling count whatever the optimisation then does. *)
DetectLoopNN ==
  /\ pc = "detect"
  /\ \/ /\ \E b \in Candidates, r \in Reliabilities :
             edges' = edges \cup {Edge("REGISTRATION", b, Len(subMaps) - 1, r)}
        /\ coolingIndex' = CoolingSubmapNum
        /\ pc' = IF realTime THEN "optimize" ELSE "frame"
     \/ pc' = "frame" /\ UNCHANGED <<edges, coolingIndex>>
  /\ UNCHANGED <<frameVars, frontOpt, subMaps, cur, isNewSubMap, optCount, rejected, corrected>>

-----------------------------------------------------------------------------
(* GlobalOptimize *)

(* the graph's nodes, and the node a submap's edges are attached to
   (constructFrameEdges: the submap's first frame) *)
Nodes == IF framewise THEN blocks ELSE subMaps
NodeOf(b) == IF framewise THEN subMaps[b + 1].first ELSE b

(* min_index_for_loop: nodes up to it are held constant at their initial
   guess, _poseInit *)
MinLoopIndex ==
  LET ends == {NodeOf(e.b1) : e \in Registration(edges)}
  IN CHOOSE n \in ends : \A m \in ends : n <= m

(* the number of edges optimised over: the frame graph gets an adjacent edge
   for every two consecutive frames *)
EdgeCount ==
  IF framewise THEN Len(blocks) - 1 + Cardinality(Registration(edges))
  ELSE Cardinality({e \in edges : e.type \in {"ADJACENT", "REGISTRATION"}})
EnoughEdges == Len(Nodes) - 1 <= EdgeCount

(* _poseOptimized of the node of index i *)
Optimized(i) == IF i <= MinLoopIndex THEN Nodes[i + 1].init ELSE optCount + 1

(* update_optimized_edges works on the copies of constructFrameEdges in the
   frame-wise mode, on _pgoEdges in the other. *)
AfterRejection(W) ==
  IF framewise THEN edges
  ELSE {[e EXCEPT !.type = IF e \in W THEN "NONE" ELSE @] : e \in edges}

(* correctFrameLoop: the pose of a submap is that of its first frame *)
MovedSubMaps(bs) ==
  [s \in DOMAIN subMaps |-> [subMaps[s] EXCEPT !.lo = bs[subMaps[s].first + 1].lo]]

(* bug: submaps keep their initial guess *)
MoveNodesOnly ==
  /\ blocks' = IF framewise THEN [i \in DOMAIN blocks |-> [blocks[i] EXCEPT !.lo = Optimized(i - 1)]]
               ELSE blocks
  /\ subMaps' = IF framewise THEN MovedSubMaps(blocks')
                ELSE [s \in DOMAIN subMaps |-> [subMaps[s] EXCEPT !.lo = Optimized(s - 1)]]
  /\ cur' = cur

(* correctFrameLoop leaves _poseInit alone, correctSubmapLoop sets it. *)
MoveNodes ==
  IF framewise
  THEN /\ blocks' = [i \in DOMAIN blocks |-> [blocks[i] EXCEPT !.lo = Optimized(i - 1)]]
       /\ subMaps' = MovedSubMaps(blocks')
       /\ cur' = cur
  ELSE /\ blocks' = blocks
       /\ subMaps' = [s \in DOMAIN subMaps |->
                        [subMaps[s] EXCEPT !.lo = Optimized(s - 1), !.init = Optimized(s - 1)]]
       /\ cur' = [cur EXCEPT !.lo = Last(subMaps').lo]

(* optimize_pose_graph_ceres finds the edges of W wrong and is satisfied: a
   registration edge is right. Whether few enough edges are wrong, and whether
   ceres converges, depends on the poses. *)
Optimize(W) ==
  /\ EnoughEdges /\ Registration(edges) \ W # {}
  /\ MoveNodes
  /\ edges' = AfterRejection(W)
  /\ rejected' = rejected \cup {<<e.b1, e.b2>> : e \in W}
  /\ optCount' = optCount + 1

(* ... or it is not; the edges of W are rejected all the same *)
OptimizeFails(W) ==
  /\ edges' = AfterRejection(W)
  /\ rejected' = rejected \cup {<<e.b1, e.b2>> : e \in W}
  /\ UNCHANGED <<blocks, subMaps, cur, optCount>>

(* correctFrameLoop or correctSubmapLoop in real time; the front end takes
   the correction (module LoopCorrection). *)
CorrectRealTime ==
  /\ pc = "optimize" /\ pc' = "frame"
  /\ \E W \in SUBSET Registration(edges) : Optimize(W) \/ OptimizeFails(W)
  /\ frontOpt' = optCount'
  /\ UNCHANGED <<config, frame, relRigid, isNewSubMap, coolingIndex, corrected>>

(* System::correctLoop, called by the programs after the last scan: the loop
   thread may have frames left in its buffer. *)
CorrectLoop ==
  /\ ~realTime /\ framewise /\ ~corrected /\ pc = "frame"
  /\ corrected' = TRUE
  /\ \/ /\ Registration(edges) # {}
        /\ \E W \in SUBSET Registration(edges) : Optimize(W) \/ OptimizeFails(W)
     \/ /\ Registration(edges) = {}
        /\ UNCHANGED <<blocks, subMaps, cur, edges, rejected, optCount>>
  /\ UNCHANGED <<config, frame, frontOpt, relRigid, isNewSubMap, coolingIndex, pc>>

(* The bound on frames is reached. *)
Done == pc = "frame" /\ frame = MaxFrames /\ UNCHANGED vars

Next == AddFrame \/ CompleteSubMap \/ DetectLoopNN \/ CorrectRealTime \/ CorrectLoop \/ Done
Spec == Init /\ [][Next]_vars
-----------------------------------------------------------------------------
(* Correctness *)

EdgeType == {"ADJACENT", "REGISTRATION", "HISTORY", "NONE"}

TypeOK ==
  /\ framewise \in BOOLEAN /\ realTime \in BOOLEAN
  /\ frame \in 0 .. MaxFrames /\ frontOpt \in Nat /\ optCount \in Nat
  /\ blocks \in Seq([id : 0 .. MaxFrames - 1, lo : Pose, init : Pose])
  /\ relRigid \in Seq(BOOLEAN)
  /\ subMaps \in Seq([first : Nat, last : Nat, lo : Pose, init : Pose])
  /\ cur \in [first : Nat, last : Nat, lo : Pose]
  /\ isNewSubMap \in BOOLEAN /\ coolingIndex \in 0 .. CoolingSubmapNum
  /\ edges \subseteq [type : EdgeType, b1 : Nat, b2 : Nat, reliable : BOOLEAN]
  /\ rejected \subseteq Nat \X Nat /\ corrected \in BOOLEAN
  /\ pc \in {"frame", "complete", "detect", "optimize"}

(* Between two rounds: cur has been copied into subMaps, or is being built. *)
Pieces == IF isNewSubMap /\ pc # "complete" THEN subMaps ELSE Append(subMaps, cur)

(* The submaps and the one under construction tile the stored frames: every
   frame stored belongs to one of them, in order, and none is stored twice.
   Savemap and constructFrameEdges index _frameBlocks by these bounds. *)
SubMapsTileFrames ==
  /\ \A p \in 1 .. Len(Pieces) :
       /\ Pieces[p].first = IF p = 1 THEN 0 ELSE Pieces[p - 1].last + 1
       /\ Pieces[p].first <= Pieces[p].last
  /\ Len(blocks) = IF Pieces = <<>> THEN 0 ELSE Last(Pieces).last + 1
  /\ \A i \in 2 .. Len(blocks) : blocks[i - 1].id < blocks[i].id

(* Cancelling and rejecting edges never breaks the chain of adjacent edges,
   and so an optimisation always has edges enough. *)
ChainComplete ==
  pc # "complete" =>
    /\ {<<e.b1, e.b2>> : e \in {x \in edges : x.type = "ADJACENT"}}
         = {<<n - 1, n>> : n \in 1 .. Len(subMaps) - 1}
    /\ blocks # <<>> => EnoughEdges

(* A loop edge joins submaps more than _minSubmapIdDiff apart, the older one
   first, and so two different nodes. *)
LoopsFarApart ==
  \A e \in edges : e.type # "ADJACENT" =>
    e.b1 + MinSubmapIdDiff < e.b2 /\ e.b2 < Len(subMaps) /\ NodeOf(e.b1) < NodeOf(e.b2)

(* Two loops are at least _coolingSubmapNum submaps apart, also when an
   optimisation failed in between. *)
LoopsSpaced ==
  \A e, f \in {x \in edges : x.type # "ADJACENT"} :
    e.b2 < f.b2 => f.b2 - e.b2 >= CoolingSubmapNum

(* An edge an optimisation found wrong is never optimised over again. *)
RejectedNotReused == \A e \in Registration(edges) : <<e.b1, e.b2>> \notin rejected

(* The loop edges an optimisation is given join distant places, are spaced,
   and none of them was found wrong before: the last in the submap-wise mode
   only, for frame-wise the verdict is given on copies of the edges. *)
LoopEdgesSound ==
  LoopsFarApart /\ LoopsSpaced /\ (~framewise => RejectedNotReused)

(* The pose of a submap, the one loop detection searches with, is the pose
   of its first frame in the graph, across any number of corrections. *)
SubMapFollowsFirstFrame ==
  \A s \in DOMAIN subMaps : subMaps[s].lo = blocks[subMaps[s].first + 1].lo

(* The frames of a submap are related by relative poses of one world, which
   Savemap chains to place them: a correction never falls between two frames
   of a submap. *)
RelPosesRigid ==
  \A p \in DOMAIN Pieces : \A i \in Pieces[p].first .. Pieces[p].last - 1 : relRigid[i + 1]

(* With corrections in real time, submaps move as a whole and with the graph.
   (correctLoop may come in the middle of a submap, whose pose it leaves in
   _curSubMapBlock as it was: a submap the loop thread completes after it
   keeps its odometry pose.) *)
SubMapsFollowGraph ==
  realTime => RelPosesRigid /\ (framewise => SubMapFollowsFirstFrame)

(* The nodes an optimisation holds constant, those up to the oldest end of
   the registration edges, stay where they are. Frame-wise they may not: the
   initial guess they are held at is never brought up to date, and once the
   oldest edge is cancelled there are moved nodes among them. *)
HeldNodesStay ==
  [][~framewise /\ Registration(edges) # {} =>
       \A i \in DOMAIN Nodes : i - 1 <= MinLoopIndex => Nodes'[i].lo = Nodes[i].lo]_vars

=============================================================================
